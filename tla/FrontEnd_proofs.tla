-------------------------- MODULE FrontEnd_proofs --------------------------
(***************************************************************************)
(* Proofs about the front end, for every query, pool, weight and value     *)
(* field: a search that ran dry had no way to find, the path it retrieves  *)
(* is one of its own making, the pass a marched route is reported with is  *)
(* the truth about it, a descent gives up in no cell the march reached,    *)
(* and no shortcut re-enters what a hard pass kept out of.                 *)
(***************************************************************************)
EXTENDS FrontEnd, TLAPS, SequenceTheorems, FiniteSetTheorems,
        WellFoundedInduction

-----------------------------------------------------------------------------
(***************************************************************************)
(* Numbers.                                                                *)
(***************************************************************************)

\* Induction up to n, over the set of naturals a fact is known of.
LEMMA UpTo ==
  ASSUME NEW n \in Nat, NEW G, 0 \in G,
         \A i \in 1..n : i - 1 \in G => i \in G
  PROVE  \A i \in 0..n : i \in G
  <1> DEFINE T == {i \in 0..n : i \notin G}
  <1> SUFFICES ASSUME T # {} PROVE FALSE
    OBVIOUS
  <1>1. PICK m \in T : \A y \in T : ~ (<<y, m>> \in OpToRel(<, Nat))
    <2>1. T \subseteq Nat
      OBVIOUS
    <2> HIDE DEF T
    <2> QED
      BY <2>1, NatLessThanWellFounded, WFMin
  <1>2. m \in 1..n /\ m - 1 \in 0..n
    OBVIOUS
  <1>3. m - 1 \in T
    BY <1>2
  <1>4. <<m - 1, m>> \in OpToRel(<, Nat)
    BY <1>2 DEF OpToRel
  <1> QED
    BY <1>1, <1>3, <1>4

-----------------------------------------------------------------------------
(***************************************************************************)
(* The heaps keep what they hold.                                          *)
(***************************************************************************)

\* A value that rises from i, and what is above i, stay among the first i
\* entries; nothing else moves.
LEMMA Rising ==
  ASSUME NEW V, NEW h \in Seq(V), NEW i \in 1..Len(h), NEW key
  PROVE  /\ SiftUp(h, i, key) \in Seq(V)
         /\ ToSet(SiftUp(h, i, key)) = ToSet(h)
  <1> DEFINE Stops(j) == j = 1 \/ key[h[j \div 2]] <= key[h[i]]
             Put(j) == [h EXCEPT ![j] = h[i]]
             Down(f, j) == [f[j \div 2] EXCEPT ![j] = h[j \div 2]]
             Loop(f, m) ==
               f = [j \in 1..m |-> IF Stops(j) THEN Put(j) ELSE Down(f, j)]
             rise == CHOOSE f : Loop(f, i)
  <1>0. i \in Nat \ {0}
    BY LenProperties
  <1>1. \E f : Loop(f, i)
    <2> DEFINE G == {m \in 0..i : \E f : Loop(f, m)}
    <2>1. 0 \in G
      <3>1. Loop([j \in 1..0 |-> h], 0)
        OBVIOUS
      <3> HIDE DEF Loop
      <3> QED
        BY <1>0, <3>1
    <2>2. ASSUME NEW m \in 1..i, m - 1 \in G
          PROVE  m \in G
      <3>1. PICK f : Loop(f, m - 1)
        BY <2>2
      <3> DEFINE g == [j \in 1..m |-> IF j = m
                                        THEN IF Stops(j) THEN Put(j)
                                                         ELSE Down(f, j)
                                        ELSE f[j]]
      <3>2. \A j \in 1..m : j # 1 => j \div 2 \in 1..(m - 1)
        BY <1>0
      <3>3. ASSUME NEW j \in 1..m
            PROVE  g[j] = IF Stops(j) THEN Put(j) ELSE Down(g, j)
        <4>1. ~ Stops(j) => g[j \div 2] = f[j \div 2]
          BY <1>0, <3>2
        <4>2. ~ Stops(j) => Down(g, j) = Down(f, j)
          BY <4>1
        <4>3. j # m => j \in 1..(m - 1)
          BY <1>0
        <4>4. j # m => f[j] = IF Stops(j) THEN Put(j) ELSE Down(f, j)
          <5> HIDE DEF Stops, Put, Down
          <5> QED
            BY <3>1, <4>3
        <4> HIDE DEF Stops, Put, Down
        <4> QED
          BY <4>2, <4>4
      <3>4. Loop(g, m)
        <4> HIDE DEF Stops, Put
        <4> QED
          BY <3>3
      <3> HIDE DEF Loop
      <3> QED
        BY <1>0, <2>2, <3>4
    <2> HIDE DEF G
    <2>3. i \in G
      <3>1. \A m \in 1..i : m - 1 \in G => m \in G
        BY <2>2
      <3>2. i \in Nat /\ i \in 0..i
        BY <1>0
      <3>3. \A m \in 0..i : m \in G
        BY <2>1, <3>1, <3>2, UpTo
      <3> QED
        BY <3>2, <3>3
    <2> QED
      BY <2>3 DEF G
  <1>2. Loop(rise, i)
    <2> HIDE DEF Loop
    <2> QED
      BY <1>1
  <1>3. SiftUp(h, i, key) = rise[i]
    BY DEF SiftUp
  <1>4. \A j \in 1..i :
          rise[j] = IF Stops(j) THEN Put(j) ELSE Down(rise, j)
    <2> HIDE DEF rise, Stops, Put, Down
    <2> QED
      BY <1>2
  <1> DEFINE \* what the first j entries hold
             Holds(r, j) ==
               /\ r \in Seq(V) /\ Len(r) = Len(h)
               /\ \A x \in 1..j : r[x] = h[i] \/ \E y \in 1..(j - 1) : r[x] = h[y]
               /\ \A y \in 1..(j - 1) : \E x \in 1..j : r[x] = h[y]
               /\ \E x \in 1..j : r[x] = h[i]
               /\ \A x \in 1..Len(h) : x > j => r[x] = h[x]
  <1> HIDE DEF rise
  <1>5. ASSUME NEW j \in 1..i, Stops(j)
        PROVE  Holds(rise[j], j)
    <2>1. rise[j] = Put(j)
      BY <1>4, <1>5
    <2> HIDE DEF Stops
    <2>2. Put(j) \in Seq(V) /\ Len(Put(j)) = Len(h)
      BY <1>0
    <2>3. \A x \in 1..Len(h) : Put(j)[x] = IF x = j THEN h[i] ELSE h[x]
      BY <1>0
    <2> HIDE DEF Put
    <2>4. j \in 1..Len(h) /\ i \in 1..Len(h) /\ 1..j \subseteq 1..Len(h)
      BY <1>0
    <2>5. \A x \in 1..j : rise[j][x] = h[i] \/ \E y \in 1..(j - 1) : rise[j][x] = h[y]
      <3> SUFFICES ASSUME NEW x \in 1..j, x # j
                   PROVE  \E y \in 1..(j - 1) : rise[j][x] = h[y]
        BY <2>1, <2>3, <2>4
      <3>1. x \in 1..(j - 1)
        OBVIOUS
      <3> QED
        BY <2>1, <2>3, <2>4, <3>1
    <2>6. \A y \in 1..(j - 1) : \E x \in 1..j : rise[j][x] = h[y]
      <3> SUFFICES ASSUME NEW y \in 1..(j - 1)
                   PROVE  rise[j][y] = h[y] /\ y \in 1..j
        OBVIOUS
      <3>1. y \in 1..j /\ y # j
        OBVIOUS
      <3> QED
        BY <2>1, <2>3, <2>4, <3>1
    <2>7. \E x \in 1..j : rise[j][x] = h[i]
      BY <2>1, <2>3, <2>4
    <2>8. \A x \in 1..Len(h) : x > j => rise[j][x] = h[x]
      BY <2>1, <2>3, <2>4
    <2> QED
      BY <2>1, <2>2, <2>5, <2>6, <2>7, <2>8
  <1>6. ASSUME NEW j \in 1..i, ~ Stops(j), Holds(rise[j \div 2], j \div 2)
        PROVE  Holds(rise[j], j)
    <2> DEFINE p == j \div 2
               r == rise[p]
               q == [r EXCEPT ![j] = h[p]]
    <2>1. rise[j] = q
      BY <1>4, <1>6
    <2>2. p \in 1..(j - 1) /\ j \in 1..Len(h) /\ i \in 1..Len(h)
      BY <1>0, <1>6
    <2>3. Holds(r, p)
      BY <1>6
    <2> HIDE DEF Stops, p, r
    <2>4. q \in Seq(V) /\ Len(q) = Len(h)
      BY <2>2, <2>3
    <2>5. \A x \in 1..Len(h) : q[x] = IF x = j THEN h[p] ELSE r[x]
      BY <2>2, <2>3
    <2> HIDE DEF q
    <2>6. \A x \in 1..j : q[x] = h[i] \/ \E y \in 1..(j - 1) : q[x] = h[y]
      <3> SUFFICES ASSUME NEW x \in 1..j
                   PROVE  q[x] = h[i] \/ \E y \in 1..(j - 1) : q[x] = h[y]
        OBVIOUS
      <3>0. x \in 1..Len(h) /\ \A y \in 1..(p - 1) : y \in 1..(j - 1)
        BY <2>2
      <3>1. CASE x = j
        BY <2>2, <2>5, <3>0, <3>1
      <3>2. CASE x # j /\ x <= p
        <4>1. q[x] = r[x] /\ x \in 1..p
          BY <2>2, <2>5, <3>0, <3>2
        <4>2. r[x] = h[i] \/ \E y \in 1..(p - 1) : r[x] = h[y]
          BY <2>3, <4>1
        <4> QED
          BY <3>0, <4>1, <4>2
      <3>3. CASE x # j /\ x > p
        <4>1. x \in 1..(j - 1) /\ q[x] = r[x]
          BY <2>2, <2>5, <3>0, <3>3
        <4>2. r[x] = h[x]
          BY <2>3, <3>0, <3>3
        <4> QED
          BY <4>1, <4>2
      <3> QED
        BY <2>2, <3>1, <3>2, <3>3
    <2>7. \A y \in 1..(j - 1) : \E x \in 1..j : q[x] = h[y]
      <3> SUFFICES ASSUME NEW y \in 1..(j - 1)
                   PROVE  \E x \in 1..j : q[x] = h[y]
        OBVIOUS
      <3>1. CASE y < p
        BY <2>2, <2>3, <2>5, <3>1
      <3>2. CASE y = p
        BY <2>2, <2>5, <3>2
      <3>3. CASE y > p
        BY <2>2, <2>3, <2>5, <3>3
      <3> QED
        BY <2>2, <3>1, <3>2, <3>3
    <2>8. \E x \in 1..j : q[x] = h[i]
      <3>1. PICK x \in 1..p : r[x] = h[i]
        BY <2>3
      <3>2. x \in 1..j /\ x # j /\ x \in 1..Len(h)
        BY <2>2, <3>1
      <3> QED
        BY <2>5, <3>1, <3>2
    <2>9. \A x \in 1..Len(h) : x > j => q[x] = h[x]
      BY <2>2, <2>3, <2>5
    <2> QED
      BY <2>1, <2>4, <2>6, <2>7, <2>8, <2>9
  <1>7. \A j \in 1..i : Holds(rise[j], j)
    <2> DEFINE G == {m \in 0..i : \A j \in 1..m : Holds(rise[j], j)}
    <2> HIDE DEF Holds, Stops
    <2>1. 0 \in G
      BY <1>0
    <2>2. ASSUME NEW m \in 1..i, m - 1 \in G
          PROVE  m \in G
      <3>1. \A j \in 1..(m - 1) : Holds(rise[j], j)
        BY <2>2
      <3>2. CASE Stops(m)
        <4>1. Holds(rise[m], m)
          BY <1>5, <3>2
        <4> QED
          BY <1>0, <3>1, <4>1
      <3>3. CASE ~ Stops(m)
        <4>1. m # 1
          BY <3>3 DEF Stops
        <4>2. m \div 2 \in 1..(m - 1)
          BY <1>0, <4>1
        <4>3. Holds(rise[m], m)
          BY <1>6, <3>1, <3>3, <4>2
        <4> QED
          BY <1>0, <3>1, <4>3
      <3> QED
        BY <3>2, <3>3
    <2> HIDE DEF G
    <2>3. i \in G
      <3>1. \A m \in 1..i : m - 1 \in G => m \in G
        BY <2>2
      <3>2. i \in Nat /\ i \in 0..i
        BY <1>0
      <3>3. \A m \in 0..i : m \in G
        BY <2>1, <3>1, <3>2, UpTo
      <3> QED
        BY <3>2, <3>3
    <2> QED
      BY <2>3 DEF G
  <1>8. Holds(rise[i], i)
    <2>1. i \in 1..i
      BY <1>0
    <2> HIDE DEF Holds, rise
    <2> QED
      BY <1>7, <2>1
  <1> HIDE DEF Stops, Put, Down, Loop
  <1> DEFINE r == rise[i]
  <1>9. DOMAIN r = 1..Len(h) /\ DOMAIN h = 1..Len(h)
    BY <1>8
  <1> HIDE DEF r
  <1>10. \A x \in 1..Len(h) : \E y \in 1..Len(h) : r[x] = h[y]
    <2> SUFFICES ASSUME NEW x \in 1..Len(h)
                 PROVE  \E y \in 1..Len(h) : r[x] = h[y]
      OBVIOUS
    <2>1. \A y \in 1..(i - 1) : y \in 1..Len(h)
      BY <1>0
    <2>2. CASE x \in 1..i
      <3>1. r[x] = h[i] \/ \E y \in 1..(i - 1) : r[x] = h[y]
        BY <1>8, <2>2 DEF r
      <3> QED
        BY <1>0, <2>1, <3>1
    <2>3. CASE x > i
      <3>1. r[x] = h[x]
        BY <1>8, <2>3 DEF r
      <3> QED
        BY <3>1
    <2> QED
      BY <1>0, <2>2, <2>3
  <1>11. \A y \in 1..Len(h) : \E x \in 1..Len(h) : r[x] = h[y]
    <2> SUFFICES ASSUME NEW y \in 1..Len(h)
                 PROVE  \E x \in 1..Len(h) : r[x] = h[y]
      OBVIOUS
    <2>1. \A x \in 1..i : x \in 1..Len(h)
      BY <1>0
    <2>2. CASE y < i
      BY <1>0, <1>8, <2>1, <2>2 DEF r
    <2>3. CASE y = i
      BY <1>0, <1>8, <2>1, <2>3 DEF r
    <2>4. CASE y > i
      BY <1>0, <1>8, <2>4 DEF r
    <2> QED
      BY <1>0, <2>2, <2>3, <2>4
  <1>12. r \in Seq(V)
    BY <1>8 DEF r
  <1>13. ToSet(r) = ToSet(h)
    <2>1. \A v : v \in ToSet(r) <=> \E x \in 1..Len(h) : v = r[x]
      BY <1>9 DEF ToSet
    <2>2. \A v : v \in ToSet(h) <=> \E x \in 1..Len(h) : v = h[x]
      BY <1>9 DEF ToSet
    <2>3. ToSet(r) \subseteq ToSet(h)
      <3> SUFFICES ASSUME NEW v, v \in ToSet(r)
                   PROVE  v \in ToSet(h)
        OBVIOUS
      <3>1. PICK x \in 1..Len(h) : v = r[x]
        BY <2>1, Zenon
      <3>2. PICK y \in 1..Len(h) : r[x] = h[y]
        BY <1>10, Zenon
      <3> QED
        BY <2>2, <3>1, <3>2, Zenon
    <2>4. ToSet(h) \subseteq ToSet(r)
      <3> SUFFICES ASSUME NEW v, v \in ToSet(h)
                   PROVE  v \in ToSet(r)
        OBVIOUS
      <3>1. PICK y \in 1..Len(h) : v = h[y]
        BY <2>2, Zenon
      <3>2. PICK x \in 1..Len(h) : r[x] = h[y]
        BY <1>11, Zenon
      <3> QED
        BY <2>1, <3>1, <3>2, Zenon
    <2> QED
      BY <2>3, <2>4, Zenon
  <1> QED
    BY <1>3, <1>12, <1>13 DEF r

\* A heap of V's after its top has sunk, and where the hole ended.
Sank(h, s, V) ==
  /\ s.heap \in Seq(V) /\ Len(s.heap) = Len(h)
  /\ s.hole \in 1..Len(h)
  /\ \A x \in 1..Len(h) : \E y \in 1..Len(h) : s.heap[x] = h[y]
  /\ \A x \in 1..Len(h) : x > 1 =>
       \E y \in 1..Len(h) : y # s.hole /\ s.heap[y] = h[x]

\* A hole that sinks from the top to a leaf loses the top entry only.
LEMMA Sinking ==
  ASSUME NEW V, NEW h \in Seq(V), h # <<>>, NEW key
  PROVE  Sank(h, SinkHole(h, key), V)
  <1> DEFINE n == Len(h)
             Child(i) == IF 2 * i + 1 <= n /\ key[h[2 * i + 1]] <= key[h[2 * i]]
                           THEN 2 * i + 1 ELSE 2 * i
             Rest(i) == [heap |-> h, hole |-> i]
             Deeper(b, i) == [heap |-> [b.heap EXCEPT ![i] = h[Child(i)]],
                            hole |-> b.hole]
             From(m) == (n - m + 1)..n
             Loop(f, m) ==
               f = [i \in From(m) |-> IF Child(i) > n THEN Rest(i)
                                      ELSE Deeper(f[Child(i)], i)]
             sunk == CHOOSE f : f = [i \in 1..n |->
                                       IF Child(i) > n THEN Rest(i)
                                       ELSE Deeper(f[Child(i)], i)]
  <1>0. n \in Nat \ {0}
    BY LenProperties, EmptySeq
  <1>1. SinkHole(h, key) = sunk[1]
    BY DEF SinkHole
  <1> HIDE DEF n
  <1>2. \A i \in 1..n : Child(i) \in Nat /\ Child(i) > i
    OBVIOUS
  <1> HIDE DEF Child, Rest, Deeper
  <1>3. \E f : Loop(f, n)
    <2> DEFINE G == {m \in 0..n : \E f : Loop(f, m)}
    <2>1. 0 \in G
      <3>1. Loop([i \in From(0) |-> IF Child(i) > n THEN Rest(i) ELSE h], 0)
        BY <1>0
      <3> HIDE DEF Loop
      <3> QED
        BY <1>0, <3>1
    <2>2. ASSUME NEW m \in 1..n, m - 1 \in G
          PROVE  m \in G
      <3>1. PICK f : Loop(f, m - 1)
        BY <2>2
      <3> DEFINE k == n - m + 1
                 g == [i \in From(m) |->
                         IF i = k THEN IF Child(i) > n THEN Rest(i)
                                       ELSE Deeper(f[Child(i)], i)
                         ELSE f[i]]
      <3>2. /\ k \in 1..n
            /\ \A i \in From(m) : i = k \/ i \in From(m - 1)
            /\ \A i \in From(m - 1) : i \in From(m) /\ i > k
        BY <1>0
      <3>3. \A i \in From(m) : Child(i) <= n => Child(i) \in From(m - 1)
        <4> SUFFICES ASSUME NEW i \in From(m), Child(i) <= n
                     PROVE  Child(i) \in From(m - 1)
          OBVIOUS
        <4>1. i \in 1..n
          BY <1>0
        <4>2. Child(i) \in Nat /\ Child(i) > i
          BY <1>2, <4>1
        <4> QED
          BY <1>0, <4>2
      <3>4. ASSUME NEW i \in From(m)
            PROVE  g[i] = IF Child(i) > n THEN Rest(i) ELSE Deeper(g[Child(i)], i)
        <4>0. i \in 1..n /\ Child(i) \in Nat
          BY <1>0, <1>2
        <4>1. Child(i) <= n => g[Child(i)] = f[Child(i)]
          <5> SUFFICES ASSUME Child(i) <= n PROVE g[Child(i)] = f[Child(i)]
            OBVIOUS
          <5>1. Child(i) \in From(m - 1)
            BY <3>3
          <5>2. Child(i) \in From(m) /\ Child(i) # k
            BY <3>2, <5>1
          <5> HIDE DEF From, k
          <5> QED
            BY <5>2
        <4>2. i # k => f[i] = IF Child(i) > n THEN Rest(i)
                              ELSE Deeper(f[Child(i)], i)
          <5> SUFFICES ASSUME i # k PROVE f[i] = IF Child(i) > n THEN Rest(i)
                                                 ELSE Deeper(f[Child(i)], i)
            OBVIOUS
          <5>1. i \in From(m - 1)
            BY <3>2
          <5> HIDE DEF From, k, g
          <5> QED
            BY <3>1, <5>1
        <4>3. ~ (Child(i) > n) => Child(i) <= n
          BY <1>0, <4>0
        <4>4. g[i] = IF i = k THEN IF Child(i) > n THEN Rest(i)
                                   ELSE Deeper(f[Child(i)], i)
                     ELSE f[i]
          <5> HIDE DEF From, k
          <5> QED
            OBVIOUS
        <4> HIDE DEF From, k, g, Loop
        <4> QED
          BY <4>1, <4>2, <4>3, <4>4
      <3>5. Loop(g, m)
        <4> HIDE DEF From
        <4> QED
          BY <3>4
      <3>6. m \in 0..n
        BY <1>0
      <3> HIDE DEF Loop, g
      <3>7. \E h0 : Loop(h0, m)
        BY <3>5, Zenon
      <3> QED
        BY <3>6, <3>7, Zenon
    <2> HIDE DEF G
    <2>3. n \in G
      <3>1. \A m \in 1..n : m - 1 \in G => m \in G
        BY <2>2
      <3>2. n \in Nat /\ n \in 0..n
        BY <1>0
      <3>3. \A m \in 0..n : m \in G
        BY <2>1, <3>1, <3>2, UpTo
      <3> QED
        BY <3>2, <3>3
    <2> QED
      BY <2>3 DEF G
  <1>4. \A i \in 1..n : sunk[i] = IF Child(i) > n THEN Rest(i)
                                  ELSE Deeper(sunk[Child(i)], i)
    <2>1. From(n) = 1..n
      BY <1>0
    <2>2. sunk = [i \in 1..n |-> IF Child(i) > n THEN Rest(i)
                                 ELSE Deeper(sunk[Child(i)], i)]
      <3> HIDE DEF From
      <3> QED
        BY <1>3, <2>1
    <2> HIDE DEF sunk
    <2> QED
      BY <2>2
  <1> HIDE DEF sunk, Loop
  <1> DEFINE \* what a hole that sank from i leaves
             Holds(b, i) ==
               /\ b.heap \in Seq(V) /\ Len(b.heap) = n
               /\ b.hole \in i..n
               /\ \A x \in 1..n : \E y \in 1..n : b.heap[x] = h[y]
               /\ \A x \in 1..n : x < i => b.heap[x] = h[x]
               /\ \A x \in 1..n : x > i =>
                    \E y \in 1..n : y >= i /\ y # b.hole /\ b.heap[y] = h[x]
  <1>5. ASSUME NEW i \in 1..n, Child(i) > n
        PROVE  Holds(sunk[i], i)
    <2>1. sunk[i] = [heap |-> h, hole |-> i]
      BY <1>4, <1>5 DEF Rest
    <2>2. Len(h) = n
      BY DEF n
    <2> QED
      BY <1>0, <2>1, <2>2
  <1>6. ASSUME NEW i \in 1..n, ~ (Child(i) > n),
               Holds(sunk[Child(i)], Child(i))
        PROVE  Holds(sunk[i], i)
    <2> DEFINE c == Child(i)
               b == sunk[c]
               q == [b.heap EXCEPT ![i] = h[c]]
    <2> HIDE DEF Holds
    <2>0. /\ sunk[i] = Deeper(sunk[Child(i)], i)
          /\ Child(i) \in Nat /\ Child(i) > i /\ ~ (Child(i) > n)
      BY <1>2, <1>4, <1>6
    <2>2. c \in 1..n /\ c > i
      BY <1>0, <2>0
    <2>3. Holds(b, c)
      BY <1>6
    <2>12. sunk[i] = [heap |-> q, hole |-> b.hole]
      BY <2>0 DEF Deeper
    <2> HIDE DEF c, b
    <2> USE DEF Holds
    <2>1. sunk[i].heap = q /\ sunk[i].hole = b.hole
      <3> HIDE DEF q
      <3> QED
        BY <2>12
    <2>4. Len(h) = n
      BY DEF n
    <2>5. h[c] \in V
      BY <2>2, <2>4
    <2>6. q \in Seq(V) /\ Len(q) = n
      BY <2>3, <2>5
    <2>7. \A x \in 1..n : q[x] = IF x = i THEN h[c] ELSE b.heap[x]
      <3>1. DOMAIN b.heap = 1..n
        BY <2>3
      <3> QED
        BY <3>1
    <2> HIDE DEF q
    <2>8. b.hole \in i..n /\ b.hole # i /\ b.hole >= c
      <3>1. b.hole \in c..n
        BY <2>3
      <3> HIDE DEF Holds
      <3> QED
        BY <1>0, <2>2, <3>1
    <2>9. \A x \in 1..n : \E y \in 1..n : q[x] = h[y]
      BY <2>2, <2>3, <2>7
    <2>10. \A x \in 1..n : x < i => q[x] = h[x]
      BY <1>0, <2>2, <2>3, <2>7
    <2>11. ASSUME NEW x \in 1..n, x > i
           PROVE  \E y \in 1..n : y >= i /\ y # b.hole /\ q[y] = h[x]
      <3>1. CASE x < c
        <4>1. q[x] = h[x]
          BY <1>0, <2>2, <2>3, <2>7, <2>11, <3>1
        <4>2. x # b.hole
          BY <1>0, <2>2, <2>8, <3>1
        <4> QED
          BY <1>0, <2>11, <4>1, <4>2
      <3>2. CASE x = c
        BY <1>0, <2>7, <2>8, <3>2
      <3>3. CASE x > c
        <4>1. PICK y \in 1..n : y >= c /\ y # b.hole /\ b.heap[y] = h[x]
          BY <2>3, <3>3
        <4>2. y >= i /\ y # i
          BY <1>0, <2>2, <4>1
        <4> QED
          BY <2>7, <4>1, <4>2
      <3> QED
        BY <1>0, <2>2, <3>1, <3>2, <3>3
    <2> QED
      BY <2>1, <2>6, <2>8, <2>9, <2>10, <2>11
  <1>7. \A i \in 1..n : Holds(sunk[i], i)
    <2> DEFINE G == {m \in 0..n : \A i \in From(m) : Holds(sunk[i], i)}
    <2> HIDE DEF Holds
    <2>1. 0 \in G
      BY <1>0
    <2>2. ASSUME NEW m \in 1..n, m - 1 \in G
          PROVE  m \in G
      <3> DEFINE k == n - m + 1
      <3>1. /\ k \in 1..n
            /\ \A i \in From(m) : i = k \/ i \in From(m - 1)
            /\ \A i \in 1..n : i > k => i \in From(m - 1)
        BY <1>0
      <3>2. Holds(sunk[k], k)
        <4>1. CASE Child(k) > n
          BY <1>5, <3>1, <4>1
        <4>2. CASE ~ (Child(k) > n)
          <5>1. Child(k) \in 1..n /\ Child(k) > k
            BY <1>0, <1>2, <3>1, <4>2
          <5>2. Holds(sunk[Child(k)], Child(k))
            BY <2>2, <3>1, <5>1
          <5> QED
            BY <1>6, <3>1, <4>2, <5>2
        <4> QED
          BY <4>1, <4>2
      <3>3. \A i \in From(m - 1) : Holds(sunk[i], i)
        BY <2>2
      <3>4. m \in 0..n
        BY <1>0
      <3> HIDE DEF k, From
      <3>5. \A i \in From(m) : Holds(sunk[i], i)
        BY <3>1, <3>2, <3>3
      <3> QED
        BY <3>4, <3>5
    <2> HIDE DEF G
    <2>3. n \in G
      <3>1. \A m \in 1..n : m - 1 \in G => m \in G
        BY <2>2
      <3>2. n \in Nat /\ n \in 0..n
        BY <1>0
      <3>3. \A m \in 0..n : m \in G
        BY <2>1, <3>1, <3>2, UpTo
      <3> QED
        BY <3>2, <3>3
    <2>4. \A i \in 1..n : i \in From(n)
      BY <1>0
    <2> QED
      BY <2>3, <2>4 DEF G
  <1>8. Holds(sunk[1], 1)
    <2> HIDE DEF Holds
    <2> QED
      BY <1>0, <1>7
  <1> DEFINE s == sunk[1]
  <1>9. Holds(s, 1)
    BY <1>8
  <1> HIDE DEF s
  <1>10. Sank(h, s, V)
    BY <1>9 DEF n, Sank
  <1> QED
    BY <1>1, <1>10 DEF s

\* A push adds its entry.
LEMMA Pushing ==
  ASSUME NEW V, NEW h \in Seq(V), NEW c \in V, NEW key
  PROVE  /\ HeapPush(h, c, key) \in Seq(V)
         /\ ToSet(HeapPush(h, c, key)) = ToSet(h) \cup {c}
  <1> DEFINE a == Append(h, c)
  <1>1. a \in Seq(V) /\ Len(a) = Len(h) + 1
    BY AppendProperties
  <1>2. \A x \in 1..Len(h) : a[x] = h[x]
    BY AppendProperties
  <1>3. a[Len(h) + 1] = c
    BY AppendProperties
  <1> HIDE DEF a
  <1>4. Len(h) \in Nat /\ DOMAIN h = 1..Len(h) /\ DOMAIN a = 1..(Len(h) + 1)
    BY <1>1, LenProperties
  <1>5. ToSet(a) = ToSet(h) \cup {c}
    <2>1. \A x : x \in 1..(Len(h) + 1) <=> x \in 1..Len(h) \/ x = Len(h) + 1
      BY <1>4
    <2> QED
      BY <1>2, <1>3, <1>4, <2>1 DEF ToSet
  <1>6. Len(h) + 1 \in 1..Len(a)
    BY <1>1, <1>4
  <1>7. HeapPush(h, c, key) = SiftUp(a, Len(h) + 1, key)
    BY DEF HeapPush, a
  <1> QED
    BY <1>1, <1>5, <1>6, <1>7, Rising

\* A pop takes the head away, once.
LEMMA Popping ==
  ASSUME NEW V, NEW h \in Seq(V), h # <<>>, NEW key
  PROVE  /\ HeapPop(h, key) \in Seq(V)
         /\ Head(h) \in ToSet(h)
         /\ ToSet(HeapPop(h, key)) \subseteq ToSet(h)
         /\ ToSet(h) \ {Head(h)} \subseteq ToSet(HeapPop(h, key))
  <1> DEFINE n == Len(h)
  <1>0. n \in Nat \ {0} /\ DOMAIN h = 1..n
    BY LenProperties, EmptySeq
  <1>1. Head(h) = h[1]
    OBVIOUS
  <1> HIDE DEF n
  <1>2. Head(h) \in ToSet(h)
    BY <1>0, <1>1 DEF ToSet
  <1>3. CASE n = 1
    <2>1. HeapPop(h, key) = <<>>
      BY <1>3 DEF HeapPop, n
    <2>2. <<>> \in Seq(V) /\ ToSet(<<>>) = {}
      BY EmptySeq DEF ToSet
    <2>3. ToSet(h) = {Head(h)}
      BY <1>0, <1>1, <1>3 DEF ToSet
    <2> QED
      BY <1>2, <2>1, <2>2, <2>3
  <1>4. CASE n # 1
    <2> DEFINE f == Front(h)
               s == SinkHole(f, key)
               g == [s.heap EXCEPT ![s.hole] = h[n]]
    <2>1. f \in Seq(V) /\ Len(f) = n - 1 /\ \A x \in 1..(n - 1) : f[x] = h[x]
      BY <1>0, <1>4 DEF Front, n
    <2>2. f # <<>>
      BY <1>0, <1>4, <2>1
    <2>3. HeapPop(h, key) = SiftUp(g, s.hole, key)
      BY <1>4 DEF HeapPop, Last, n
    <2> HIDE DEF f, s
    <2>4. /\ s.heap \in Seq(V) /\ Len(s.heap) = n - 1
          /\ s.hole \in 1..(n - 1)
          /\ \A x \in 1..(n - 1) : \E y \in 1..(n - 1) : s.heap[x] = f[y]
          /\ \A x \in 1..(n - 1) : x > 1 =>
               \E y \in 1..(n - 1) : y # s.hole /\ s.heap[y] = f[x]
      <3>1. Sank(f, s, V)
        BY <2>1, <2>2, Sinking DEF s
      <3>2. Len(f) = n - 1
        BY <2>1
      <3> QED
        BY <3>1, <3>2 DEF Sank
    <2>5. h[n] \in V
      BY <1>0
    <2>6. g \in Seq(V) /\ Len(g) = n - 1 /\ DOMAIN g = 1..(n - 1)
      BY <2>4, <2>5
    <2>7. \A x \in 1..(n - 1) : g[x] = IF x = s.hole THEN h[n] ELSE s.heap[x]
      <3>1. DOMAIN s.heap = 1..(n - 1)
        BY <2>4
      <3> QED
        BY <3>1
    <2> HIDE DEF g
    <2>8. ToSet(HeapPop(h, key)) = ToSet(g) /\ HeapPop(h, key) \in Seq(V)
      BY <2>3, <2>4, <2>6, Rising
    <2>9. ASSUME NEW x \in 1..(n - 1)
          PROVE  \E y \in 1..n : g[x] = h[y]
      <3>1. CASE x = s.hole
        BY <1>0, <2>7, <3>1
      <3>2. CASE x # s.hole
        <4>1. PICK y \in 1..(n - 1) : s.heap[x] = f[y]
          BY <2>4
        <4>2. y \in 1..n /\ g[x] = h[y]
          BY <1>0, <2>1, <2>7, <3>2, <4>1
        <4> QED
          BY <4>2
      <3> QED
        BY <3>1, <3>2
    <2>10. ASSUME NEW y \in 1..n, y # 1
           PROVE  \E x \in 1..(n - 1) : g[x] = h[y]
      <3>1. CASE y = n
        BY <2>4, <2>7, <3>1
      <3>2. CASE y # n
        <4>1. y > 1 /\ y \in 1..(n - 1)
          BY <1>0, <2>10, <3>2
        <4>2. PICK x \in 1..(n - 1) : x # s.hole /\ s.heap[x] = f[y]
          BY <2>4, <4>1
        <4> QED
          BY <2>1, <2>7, <4>1, <4>2
      <3> QED
        BY <3>1, <3>2
    <2>11. \A v : v \in ToSet(g) <=> \E x \in 1..(n - 1) : v = g[x]
      BY <2>6 DEF ToSet
    <2>12. \A v : v \in ToSet(h) <=> \E y \in 1..n : v = h[y]
      BY <1>0 DEF ToSet
    <2>13. ToSet(g) \subseteq ToSet(h)
      BY <2>9, <2>11, <2>12
    <2>14. ToSet(h) \ {Head(h)} \subseteq ToSet(g)
      BY <1>1, <2>10, <2>11, <2>12
    <2> QED
      BY <1>2, <2>8, <2>13, <2>14
  <1> QED
    BY <1>3, <1>4

-----------------------------------------------------------------------------
(***************************************************************************)
(* The grid and its costs.                                                 *)
(***************************************************************************)

Cells == (0..(Pool[1] - 1)) \X (0..(Pool[2] - 1)) \X (0..(Pool[3] - 1))
FreeCells == {c \in Cells : Inner(c) /\ ~ Gated(Index2Coord(c))}
Prices == [c \in Cells |-> 1 + RiskCost(Index2Coord(c))]

\* No risk is a reward.
LEMMA RiskCosts ==
  ASSUME IsScene(scene), NEW p
  PROVE  RiskCost(p) \in Nat
  <1>1. Moat(p) \in Nat
    BY DEF Moat, IsScene
  <1>2. RoughCost(p) \in Nat
    <2> DEFINE h == scene.terrain
               slope == IF {p[1], p[1] + 2} \subseteq DOMAIN h
                          THEN Abs(h[p[1] + 2] - h[p[1]]) ELSE 0
               low == TerrainKnown(p) /\ p[3] - TerrainHeight(p) < scene.roughBelow
               fine == scene.rough * (slope - scene.slope0)
    <2>1. RoughCost(p) = IF low /\ slope > scene.slope0
                           THEN Min({fine, 10}) ELSE 0
      BY DEF RoughCost
    <2>2. slope \in Int
      BY DEF IsScene, Abs
    <2> HIDE DEF slope, low
    <2>3. slope > scene.slope0 => fine \in Nat
      <3>1. scene.rough \in Nat /\ scene.slope0 \in Int
        BY DEF IsScene
      <3> QED
        BY <2>2, <3>1
    <2> HIDE DEF fine
    <2>4. fine \in Nat => Min({fine, 10}) \in Nat
      BY DEF Min
    <2> QED
      BY <2>1, <2>3, <2>4
  <1> HIDE DEF Moat
  <1>3. scene.barrier \in Nat
    BY DEF IsScene
  <1> QED
    BY <1>1, <1>2, <1>3 DEF RiskCost

\* A step leaves its cell, and costs ten at least.
LEMMA StepCosts ==
  ASSUME NEW o \in Offsets
  PROVE  /\ o \in (-1..1) \X (-1..1) \X (-1..1)
         /\ o # <<0, 0, 0>>
         /\ StepCost(o) \in Nat /\ StepCost(o) >= 10
  <1>1. PICK n \in 1..26 : o = OffsetOrder[n]
    BY DEF Offsets, ToSet, OffsetOrder
  <1>2. /\ o \in (-1..1) \X (-1..1) \X (-1..1)
        /\ o # <<0, 0, 0>>
    BY <1>1 DEF OffsetOrder
  <1>3. Axes(o) \in 1..3
    <2> DEFINE S == {i \in 1..3 : o[i] # 0}
    <2>1. IsFiniteSet(1..3) /\ Cardinality(1..3) <= 3
      <3>1. \A b \in Nat \ {0} : IsFiniteSet(1..b) /\ Cardinality(1..b) = b
        <4> SUFFICES ASSUME NEW b \in Nat \ {0}
                     PROVE  IsFiniteSet(1..b) /\ Cardinality(1..b) = b
          OBVIOUS
        <4>1. 1 \in Int /\ b \in Int
          OBVIOUS
        <4> QED
          BY <4>1, FS_Interval
      <3>2. 3 \in Nat \ {0}
        OBVIOUS
      <3>3. IsFiniteSet(1..3) /\ Cardinality(1..3) = 3
        BY <3>1, <3>2, Zenon
      <3> QED
        BY <3>3
    <2>2. S \subseteq 1..3 /\ S # {}
      BY <1>2
    <2>3. Axes(o) = Cardinality(S)
      BY DEF Axes, Axes3
    <2> HIDE DEF S
    <2>4. IsFiniteSet(S) /\ Cardinality(S) <= 3
      <3>1. IsFiniteSet(S) /\ Cardinality(S) <= Cardinality(1..3)
        BY <2>1, <2>2, FS_Subset
      <3>2. Cardinality(S) \in Nat /\ Cardinality(1..3) \in Nat
        BY <2>1, <3>1, FS_CardinalityType
      <3> QED
        BY <2>1, <3>1, <3>2
    <2>5. Cardinality(S) \in Nat /\ Cardinality(S) # 0
      BY <2>2, <2>4, FS_CardinalityType, FS_EmptySet
    <2> QED
      BY <2>3, <2>4, <2>5
  <1> QED
    BY <1>2, <1>3 DEF StepCost

\* A neighbour is one step away, and one inside the ring is in the pool.
LEMMA Neighbours ==
  ASSUME NEW c \in Cells, NEW o \in Offsets
  PROVE  /\ Minus(Plus(c, o), c) = o
         /\ Plus(c, o) # c
         /\ Inner(Plus(c, o)) => Plus(c, o) \in Cells
  <1>1. Pool \in Seq(Nat \ {0}) /\ Len(Pool) = 3
    BY PoolAssumption
  <1>2. /\ c = <<c[1], c[2], c[3]>>
        /\ c[1] \in Int /\ c[2] \in Int /\ c[3] \in Int
    BY <1>1 DEF Cells
  <1>3. /\ o = <<o[1], o[2], o[3]>> /\ o # <<0, 0, 0>>
        /\ o[1] \in Int /\ o[2] \in Int /\ o[3] \in Int
    BY StepCosts
  <1>4. Minus(Plus(c, o), c) = o /\ Plus(c, o) # c
    BY <1>2, <1>3 DEF Plus, Minus
  <1>5. Inner(Plus(c, o)) => Plus(c, o) \in Cells
    <2> DEFINE x == c[1] + o[1]
               y == c[2] + o[2]
               z == c[3] + o[3]
    <2>1. Plus(c, o) = <<x, y, z>> /\ x \in Int /\ y \in Int /\ z \in Int
      BY <1>2, <1>3 DEF Plus
    <2>2. Pool[1] \in Int /\ Pool[2] \in Int /\ Pool[3] \in Int
      <3>1. \A i \in 1..3 : Pool[i] \in Nat \ {0}
        BY <1>1, ElementOfSeq
      <3> QED
        BY <3>1
    <2> HIDE DEF x, y, z
    <2> QED
      BY <2>1, <2>2 DEF Inner, Axes3, Cells
  <1> QED
    BY <1>4, <1>5

-----------------------------------------------------------------------------
(***************************************************************************)
(* What a search knows of its nodes: p is the pool, r the round, a and i   *)
(* the queues, s the start, e the end, F the free cells, W their prices.   *)
(***************************************************************************)

IsNode(n) ==
  n \in [rounds : Nat, state : {n.state}, gScore : Nat, fAnchor : {n.fAnchor},
        fInadmis : {n.fInadmis}, cameFrom : {n.cameFrom}]

Closed(p, c) == p[c].state = "CLOSEDSET"

\* The nodes this search has been to; a gated one is stamped, not reached.
Live(p, r, s, F) == {c \in DOMAIN p : p[c].rounds = r /\ (c = s \/ c \in F)}

IsPool(p, r) ==
  /\ DOMAIN p \subseteq Cells
  /\ \A c \in DOMAIN p : IsNode(p[c]) /\ p[c].rounds <= r

\* Both queues hold live nodes only; a live node that is not closed waits in
\* the anchor's.
Queued(p, a, i, L) ==
  /\ a \in Seq(Cells) /\ i \in Seq(Cells)
  /\ ToSet(a) \subseteq L /\ ToSet(i) \subseteq L
  /\ \A c \in L : Closed(p, c) \/ c \in ToSet(a)

Link(p, L, c, W) ==
  LET from == p[c].cameFrom
  IN /\ from \in L /\ Closed(p, from)
     /\ \E o \in Offsets :
          /\ c = Plus(from, o)
          /\ p[c].gScore = p[from].gScore + StepCost(o) * W[c]

\* A live node was reached from a closed one of this search, whose score is
\* final.
Linked(p, L, s, W) ==
  /\ s \in L /\ p[s].gScore = 0 /\ p[s].cameFrom = <<>>
  /\ \A c \in L \ {s} : Link(p, L, c, W)

\* A closed node is not the end, and its free neighbours are live.
Expanded(p, L, e, F, busy) ==
  \A c \in L :
    Closed(p, c) => /\ c # e
                    /\ c \notin busy => \A o \in Offsets :
                         Plus(c, o) \in F => Plus(c, o) \in L

Sound(p, a, i, r, s, e, F, W, busy) ==
  /\ IsPool(p, r)
  /\ Queued(p, a, i, Live(p, r, s, F))
  /\ Linked(p, Live(p, r, s, F), s, W)
  /\ Expanded(p, Live(p, r, s, F), e, F, busy)

\* A pool that differs on nodes outside the search only.
LEMMA Stamping ==
  ASSUME NEW p, NEW a, NEW i, NEW r, NEW s, NEW e, NEW F, NEW W, NEW busy,
         NEW q, IsPool(q, r), Live(q, r, s, F) = Live(p, r, s, F),
         \A c \in Live(p, r, s, F) : q[c] = p[c],
         Sound(p, a, i, r, s, e, F, W, busy)
  PROVE  Sound(q, a, i, r, s, e, F, W, busy)
  <1> DEFINE L == Live(p, r, s, F)
  <1>1. Queued(p, a, i, L) /\ Linked(p, L, s, W) /\ Expanded(p, L, e, F, busy)
    BY DEF Sound
  <1>2. \A c \in L : q[c] = p[c]
    OBVIOUS
  <1> HIDE DEF L
  <1>3. Queued(q, a, i, L)
    BY <1>1, <1>2 DEF Queued, Closed
  <1>4. Linked(q, L, s, W)
    <2>1. \A c \in L \ {s} : Link(p, L, c, W) => Link(q, L, c, W)
      BY <1>2 DEF Link, Closed
    <2> QED
      BY <1>1, <1>2, <2>1 DEF Linked
  <1>5. Expanded(q, L, e, F, busy)
    BY <1>1, <1>2 DEF Expanded, Closed
  <1> QED
    BY <1>3, <1>4, <1>5 DEF Sound, L

\* A node n for the free neighbour x of the closed node c, linked to it, and
\* the queues b and j it went into.
Opens(p, a, i, r, s, F, W, c, x, o, n, b, j) ==
  /\ c \in Live(p, r, s, F) /\ Closed(p, c)
  /\ x = Plus(c, o) /\ x \in F /\ x # s
  /\ ~ (x \in Live(p, r, s, F) /\ Closed(p, x))
  /\ IsNode(n) /\ n.rounds = r /\ n.cameFrom = c /\ n.state = "OPENSET"
  /\ n.gScore = p[c].gScore + StepCost(o) * W[x]
  /\ b \in Seq(Cells) /\ ToSet(b) = ToSet(a) \cup {x}
  /\ j \in Seq(Cells) /\ ToSet(j) \subseteq ToSet(i) \cup {x}

\* Opening such a neighbour keeps what a search knows of its nodes.
LEMMA Opening ==
  ASSUME NEW p, NEW a, NEW i, NEW r, NEW s, NEW e, NEW F, NEW W,
         NEW busy, NEW c, NEW x, NEW o \in Offsets, NEW n, NEW b, NEW j,
         Sound(p, a, i, r, s, e, F, W, busy), F \subseteq Cells,
         Opens(p, a, i, r, s, F, W, c, x, o, n, b, j)
  PROVE  /\ Sound(WithNode(p, x, n), b, j, r, s, e, F, W, busy)
         /\ Live(WithNode(p, x, n), r, s, F) = Live(p, r, s, F) \cup {x}
  <1> USE DEF Opens
  <1> DEFINE L == Live(p, r, s, F)
             q == WithNode(p, x, n)
             M == L \cup {x}
  <1>1. /\ IsPool(p, r) /\ Queued(p, a, i, L) /\ Linked(p, L, s, W)
        /\ Expanded(p, L, e, F, busy)
    BY DEF Sound
  <1>2. /\ DOMAIN q = DOMAIN p \cup {x}
        /\ q[x] = n /\ \A d \in DOMAIN p : d # x => q[d] = p[d]
    BY DEF WithNode
  <1> HIDE DEF q
  <1>3. Live(q, r, s, F) = M
    BY <1>2 DEF Live
  <1>4. \A d \in L : d \in DOMAIN p
    BY DEF Live
  <1>5. c \in L /\ c # x /\ \A d \in L : Closed(p, d) => d # x
    OBVIOUS
  <1> HIDE DEF L
  <1>6. \A d \in L : d # x => q[d] = p[d]
    BY <1>2, <1>4
  <1>7. IsPool(q, r)
    BY <1>1, <1>2 DEF IsPool, IsNode
  <1>8. Queued(q, b, j, M)
    <2>1. ToSet(b) \subseteq M /\ ToSet(j) \subseteq M
      BY <1>1 DEF Queued
    <2>2. \A d \in M : Closed(q, d) \/ d \in ToSet(b)
      BY <1>1, <1>6 DEF Queued, Closed
    <2> QED
      BY <2>1, <2>2 DEF Queued
  <1>9. Linked(q, M, s, W)
    <2>1. s \in M /\ q[s].gScore = 0 /\ q[s].cameFrom = <<>>
      BY <1>1, <1>6 DEF Linked
    <2>2. Link(q, M, x, W)
      BY <1>2, <1>5, <1>6 DEF Link, Closed
    <2>3. ASSUME NEW d \in L \ {s}, d # x
          PROVE  Link(q, M, d, W)
      <3> DEFINE from == p[d].cameFrom
      <3>1. /\ from \in L /\ Closed(p, from)
            /\ \E k \in Offsets :
                 /\ d = Plus(from, k)
                 /\ p[d].gScore = p[from].gScore + StepCost(k) * W[d]
        BY <1>1 DEF Linked, Link
      <3>2. q[d] = p[d] /\ q[from] = p[from]
        BY <1>5, <1>6, <2>3, <3>1
      <3> QED
        BY <3>1, <3>2 DEF Link, Closed
    <2> QED
      BY <2>1, <2>2, <2>3 DEF Linked
  <1>10. Expanded(q, M, e, F, busy)
    <2> SUFFICES ASSUME NEW d \in M, Closed(q, d)
                 PROVE  /\ d # e
                        /\ d \notin busy => \A k \in Offsets :
                             Plus(d, k) \in F => Plus(d, k) \in M
      BY DEF Expanded
    <2>1. d # x
      BY <1>2 DEF Closed
    <2>2. d \in L /\ Closed(p, d)
      BY <1>6, <2>1 DEF Closed
    <2> QED
      BY <1>1, <2>2 DEF Expanded
  <1> QED
    BY <1>3, <1>7, <1>8, <1>9, <1>10 DEF Sound, L, q

-----------------------------------------------------------------------------
(***************************************************************************)
(* Relaxing the neighbours of a closed node.                               *)
(***************************************************************************)

Now(p) == Live(p, rounds, start_idx, FreeCells)

\* Pool and queues while the neighbours of the closed node c are relaxed.
During(s, c) ==
  /\ s \in [pool : {s.pool}, anchor : {s.anchor}, inadmis : {s.inadmis}]
  /\ Sound(s.pool, s.anchor, s.inadmis, rounds, start_idx, end_idx,
           FreeCells, Prices, {c})
  /\ c \in Now(s.pool) /\ Closed(s.pool, c)

\* t is s after the node n of cell x was put into the queues.
Entered(s, t, x, n) ==
  /\ t \in [pool : {t.pool}, anchor : {t.anchor}, inadmis : {t.inadmis}]
  /\ t.pool = WithNode(s.pool, x, n)
  /\ t.anchor \in Seq(Cells)
  /\ ToSet(t.anchor) = ToSet(s.anchor) \cup {x}
  /\ t.inadmis \in Seq(Cells)
  /\ ToSet(t.inadmis) \subseteq ToSet(s.inadmis) \cup {x}

\* A new entry goes into the anchor's queue, and into the other if it is used.
LEMMA Enqueueing ==
  ASSUME NEW s, NEW x \in Cells, NEW n,
         s.anchor \in Seq(Cells), s.inadmis \in Seq(Cells)
  PROVE  Entered(s, Enqueue(s, x, n), x, n)
  <1> DEFINE p == WithNode(s.pool, x, n)
             b == HeapPush(s.anchor, x, AnchorKey(p))
             d == HeapPush(s.inadmis, x, InadmisKey(p))
             j == IF smha_w > 1 THEN d ELSE s.inadmis
  <1>1. b \in Seq(Cells) /\ ToSet(b) = ToSet(s.anchor) \cup {x}
    BY Pushing
  <1>2. d \in Seq(Cells) /\ ToSet(d) = ToSet(s.inadmis) \cup {x}
    BY Pushing
  <1>3. Enqueue(s, x, n) = [pool |-> p, anchor |-> b, inadmis |-> j]
    BY DEF Enqueue
  <1> HIDE DEF p, b, d
  <1>4. j \in Seq(Cells) /\ ToSet(j) \subseteq ToSet(s.inadmis) \cup {x}
    BY <1>2
  <1> HIDE DEF j
  <1> QED
    BY <1>1, <1>3, <1>4 DEF p, Entered

\* The neighbour x of c is live once it has been entered.
LEMMA OpenedNow ==
  ASSUME NEW s, NEW t, NEW c, NEW x, NEW o \in Offsets, NEW n,
         During(s, c), Entered(s, t, x, n),
         Opens(s.pool, s.anchor, s.inadmis, rounds, start_idx, FreeCells,
               Prices, c, x, o, n, t.anchor, t.inadmis)
  PROVE  During(t, c) /\ Now(t.pool) = Now(s.pool) \cup {x}
  <1> DEFINE q == WithNode(s.pool, x, n)
  <1>1. Sound(s.pool, s.anchor, s.inadmis, rounds, start_idx, end_idx,
              FreeCells, Prices, {c})
    BY DEF During
  <1>2. FreeCells \subseteq Cells
    BY DEF FreeCells
  <1>3. /\ Sound(q, t.anchor, t.inadmis, rounds, start_idx, end_idx,
                 FreeCells, Prices, {c})
        /\ Live(q, rounds, start_idx, FreeCells)
             = Live(s.pool, rounds, start_idx, FreeCells) \cup {x}
    BY <1>1, <1>2, Opening
  <1>4. t.pool = q
    BY DEF Entered
  <1>5. c # x /\ c \in DOMAIN s.pool
    BY DEF Opens, Live
  <1>6. q[c] = s.pool[c]
    BY <1>5 DEF WithNode
  <1> HIDE DEF q
  <1>7. t \in [pool : {t.pool}, anchor : {t.anchor}, inadmis : {t.inadmis}]
    BY DEF Entered
  <1>8. c \in Now(t.pool) /\ Closed(t.pool, c)
    BY <1>3, <1>4, <1>6 DEF During, Now, Closed
  <1> QED
    BY <1>3, <1>4, <1>7, <1>8 DEF During, Now

\* One neighbour: whatever its case, it is live afterwards if it is free.
LEMMA Relaxing ==
  ASSUME IsScene(scene), rounds \in Nat \ {0}, NEW s, NEW c \in Cells,
         NEW o \in Offsets, During(s, c)
  PROVE  /\ During(Relax(s, c, o), c)
         /\ Now(s.pool) \subseteq Now(Relax(s, c, o).pool)
         /\ Plus(c, o) \in FreeCells => Plus(c, o) \in Now(Relax(s, c, o).pool)
  <1> DEFINE x == Plus(c, o)
             node == NodeAt(s.pool, x)
             explored == node.rounds = rounds
             stamp == [node EXCEPT !.rounds = rounds]
             stamped == [s EXCEPT !.pool = WithNode(s.pool, x, stamp)]
             g == s.pool[c].gScore + StepCost(o) * (1 + RiskCost(Index2Coord(x)))
             opened == Enqueue(s, x, Scored(x, g, c))
             t == Relax(s, c, o)
  <1>0. t = IF ~Inner(x) \/ (explored /\ node.state = "CLOSEDSET") THEN s
            ELSE IF Gated(Index2Coord(x)) THEN stamped
            ELSE IF explored /\ g >= node.gScore THEN stamped
            ELSE opened
    BY DEF Relax
  <1>1. /\ IsPool(s.pool, rounds) /\ s.anchor \in Seq(Cells)
        /\ s.inadmis \in Seq(Cells)
        /\ Linked(s.pool, Now(s.pool), start_idx, Prices)
    BY DEF During, Sound, Queued, Now
  <1>2. x \in FreeCells <=> Inner(x) /\ ~ Gated(Index2Coord(x))
    BY Neighbours DEF FreeCells
  <1>3. x # c /\ (Inner(x) => x \in Cells)
    BY Neighbours
  <1>4. explored => x \in DOMAIN s.pool /\ node = s.pool[x]
    BY DEF NodeAt, FreshNode
  <1>5. IsNode(node) /\ node.gScore \in Nat
    BY <1>1 DEF NodeAt, FreshNode, IsNode, IsPool, Unreached
  <1>6. x \in FreeCells /\ explored => x \in Now(s.pool)
    BY <1>4 DEF Now, Live
  <1>7. x \in Now(s.pool) => explored
    BY DEF Now, Live, NodeAt
  <1>8. s.pool[c].gScore \in Nat
    BY <1>1 DEF During, Now, Live, IsPool, IsNode
  <1>9. g \in Nat
    <2>1. StepCost(o) \in Nat /\ RiskCost(Index2Coord(x)) \in Nat
      BY StepCosts, RiskCosts
    <2> QED
      BY <1>8, <2>1
  <1> HIDE DEF x, node, explored, g, t, opened
  <1>10. CASE t = s /\ (x \in FreeCells => x \in Now(s.pool))
    BY <1>10 DEF t, x
  <1>11. CASE t = stamped /\ Inner(x) /\ (x \in FreeCells => explored)
    <2> DEFINE q == WithNode(s.pool, x, stamp)
    <2>1. t = [pool |-> q, anchor |-> s.anchor, inadmis |-> s.inadmis]
      <3>1. t = [s EXCEPT !.pool = q]
        BY <1>11
      <3>2. s \in [pool : {s.pool}, anchor : {s.anchor}, inadmis : {s.inadmis}]
        BY DEF During
      <3> HIDE DEF q, stamped
      <3> QED
        BY <3>1, <3>2
    <2>2. IsNode(stamp) /\ stamp.rounds = rounds /\ (explored => stamp = node)
      <3> USE DEF IsNode
      <3>1. stamp \in [rounds : Nat, state : {stamp.state}, gScore : Nat,
                       fAnchor : {stamp.fAnchor}, fInadmis : {stamp.fInadmis},
                       cameFrom : {stamp.cameFrom}]
        BY <1>5
      <3>2. stamp.rounds = rounds
        BY <1>5
      <3>3. explored => stamp = node
        BY <1>5 DEF explored
      <3> QED
        BY <3>1, <3>2, <3>3
    <2> HIDE DEF stamp
    <2>3. /\ DOMAIN q = DOMAIN s.pool \cup {x}
          /\ q[x] = stamp /\ \A d \in DOMAIN s.pool : d # x => q[d] = s.pool[d]
      BY DEF WithNode
    <2> HIDE DEF q
    <2>4. IsPool(q, rounds)
      BY <1>1, <1>3, <1>11, <2>2, <2>3 DEF IsPool
    <2>5. start_idx \in Now(s.pool)
      BY <1>1 DEF Linked
    <2>6. Now(q) = Now(s.pool) /\ \A d \in Now(s.pool) : q[d] = s.pool[d]
      <3>1. x \in Now(s.pool) => q[x] = s.pool[x]
        BY <1>4, <1>7, <2>2, <2>3
      <3>2. x \in Now(q) => x \in Now(s.pool)
        <4>1. x \in Now(q) => x = start_idx \/ x \in FreeCells
          BY DEF Now, Live
        <4> QED
          BY <1>6, <1>11, <2>5, <4>1
      <3>3. \A d : d # x => (d \in Now(q) <=> d \in Now(s.pool))
        BY <2>3 DEF Now, Live
      <3>4. \A d \in Now(s.pool) : d \in DOMAIN s.pool
        BY DEF Now, Live
      <3>5. x \in Now(s.pool) => x \in Now(q)
        BY <2>2, <2>3, <3>1 DEF Now, Live
      <3> QED
        BY <2>3, <3>1, <3>2, <3>3, <3>4, <3>5
    <2>7. Sound(q, s.anchor, s.inadmis, rounds, start_idx, end_idx, FreeCells,
                Prices, {c})
      BY <2>4, <2>6, Stamping DEF During, Now
    <2>8. During(t, c)
      BY <2>1, <2>6, <2>7 DEF During, Closed
    <2> QED
      BY <1>6, <1>11, <2>1, <2>6, <2>8 DEF t, x
  <1>12. CASE /\ t = opened /\ x \in FreeCells
              /\ ~ (explored /\ node.state = "CLOSEDSET")
              /\ ~ (explored /\ g >= node.gScore)
    <2> DEFINE n == Scored(x, g, c)
    <2>1. /\ IsNode(n) /\ n.rounds = rounds /\ n.cameFrom = c
          /\ n.state = "OPENSET" /\ n.gScore = g
      BY <1>9 DEF Scored, IsNode
    <2>2. g = s.pool[c].gScore + StepCost(o) * Prices[x]
      BY <1>3, <1>12 DEF g, Prices, FreeCells
    <2> HIDE DEF n
    <2>3. Entered(s, t, x, n)
      <3>1. t = Enqueue(s, x, n)
        BY <1>12 DEF opened, n
      <3>2. x \in Cells
        BY <1>2, <1>3, <1>12
      <3> QED
        BY <1>1, <3>1, <3>2, Enqueueing
    <2>4. x # start_idx
      <3> SUFFICES ASSUME x = start_idx PROVE FALSE
        OBVIOUS
      <3>1. x \in Now(s.pool) /\ s.pool[x].gScore = 0
        BY <1>1 DEF Linked
      <3>2. explored /\ node.gScore = 0
        BY <1>4, <1>7, <3>1
      <3> QED
        BY <1>9, <1>12, <3>2
    <2>5. ~ (x \in Live(s.pool, rounds, start_idx, FreeCells)
               /\ Closed(s.pool, x))
      BY <1>4, <1>7, <1>12 DEF Now, Closed
    <2>6. /\ Sound(s.pool, s.anchor, s.inadmis, rounds, start_idx, end_idx,
                   FreeCells, Prices, {c})
          /\ c \in Live(s.pool, rounds, start_idx, FreeCells)
          /\ Closed(s.pool, c)
      BY DEF During, Now
    <2>7. FreeCells \subseteq Cells /\ x = Plus(c, o)
      BY DEF FreeCells, x
    <2>8. Opens(s.pool, s.anchor, s.inadmis, rounds, start_idx, FreeCells,
                Prices, c, x, o, n, t.anchor, t.inadmis)
      <3>1. n.gScore = s.pool[c].gScore + StepCost(o) * Prices[x]
        BY <2>1, <2>2
      <3>2. /\ t.anchor \in Seq(Cells)
            /\ ToSet(t.anchor) = ToSet(s.anchor) \cup {x}
            /\ t.inadmis \in Seq(Cells)
            /\ ToSet(t.inadmis) \subseteq ToSet(s.inadmis) \cup {x}
        BY <2>3 DEF Entered
      <3> QED
        BY <1>12, <2>1, <2>4, <2>5, <2>6, <2>7, <3>1, <3>2 DEF Opens
    <2>9. During(t, c) /\ Now(t.pool) = Now(s.pool) \cup {x}
      <3> HIDE DEF n, stamp, stamped
      <3> QED
        BY <2>3, <2>8, OpenedNow
    <2> QED
      BY <2>9 DEF t, x
  <1> HIDE DEF stamped
  <1> QED
    BY <1>0, <1>2, <1>6, <1>10, <1>11, <1>12

\* All neighbours: none that is free is left unreached.
LEMMA RelaxingAll ==
  ASSUME IsScene(scene), rounds \in Nat \ {0}, NEW s, NEW c \in Cells,
         During(s, c)
  PROVE  /\ During(RelaxAll(s, c), c)
         /\ \A o \in Offsets :
              Plus(c, o) \in FreeCells => Plus(c, o) \in Now(RelaxAll(s, c).pool)
  <1> DEFINE N == Len(OffsetOrder)
             Step(x, n) == Relax(x, c, OffsetOrder[n])
             Loop(f, m) ==
               f = [n \in 0..m |-> IF n = 0 THEN s ELSE Step(f[n - 1], n)]
             after == CHOOSE f : Loop(f, N)
  <1>0. N \in Nat /\ \A n \in 1..N : OffsetOrder[n] \in Offsets
    BY DEF OffsetOrder, Offsets, ToSet
  <1>1. \A o \in Offsets : \E n \in 1..N : o = OffsetOrder[n]
    BY DEF OffsetOrder, Offsets, ToSet
  <1>2. RelaxAll(s, c) = after[N]
    BY DEF RelaxAll
  <1> HIDE DEF N
  <1>3. \E f : Loop(f, N)
    <2> DEFINE G == {m \in 0..N : \E f : Loop(f, m)}
    <2> HIDE DEF Step
    <2>1. 0 \in G
      <3>1. Loop([n \in 0..0 |-> s], 0)
        OBVIOUS
      <3> HIDE DEF Loop
      <3> QED
        BY <1>0, <3>1
    <2>2. ASSUME NEW m \in 1..N, m - 1 \in G
          PROVE  m \in G
      <3>1. PICK f : Loop(f, m - 1)
        BY <2>2
      <3> DEFINE g == [n \in 0..m |-> IF n = m THEN Step(f[m - 1], m) ELSE f[n]]
      <3>2. ASSUME NEW n \in 0..m
            PROVE  g[n] = IF n = 0 THEN s ELSE Step(g[n - 1], n)
        <4>1. n # 0 => g[n - 1] = f[n - 1]
          BY <1>0
        <4>2. n # m => f[n] = IF n = 0 THEN s ELSE Step(f[n - 1], n)
          BY <1>0, <3>1
        <4> QED
          BY <1>0, <4>1, <4>2
      <3>3. Loop(g, m)
        BY <3>2
      <3> HIDE DEF Loop
      <3> QED
        BY <1>0, <2>2, <3>3
    <2> HIDE DEF G
    <2>3. N \in G
      <3>1. \A m \in 1..N : m - 1 \in G => m \in G
        BY <2>2
      <3>2. N \in Nat /\ N \in 0..N
        BY <1>0
      <3>3. \A m \in 0..N : m \in G
        BY <2>1, <3>1, <3>2, UpTo
      <3> QED
        BY <3>2, <3>3
    <2> QED
      BY <2>3 DEF G
  <1>4. \A n \in 0..N : after[n] = IF n = 0 THEN s ELSE Step(after[n - 1], n)
    <2>1. Loop(after, N)
      <3> HIDE DEF Loop
      <3> QED
        BY <1>3
    <2> HIDE DEF after, Step
    <2> QED
      BY <2>1
  <1> HIDE DEF after, Loop
  <1> DEFINE Walked(n) ==
               /\ During(after[n], c)
               /\ \A k \in 1..n :
                    Plus(c, OffsetOrder[k]) \in FreeCells =>
                      Plus(c, OffsetOrder[k]) \in Now(after[n].pool)
             G == {n \in 0..N : Walked(n)}
  <1>5. 0 \in G
    BY <1>0, <1>4
  <1>6. ASSUME NEW n \in 1..N, n - 1 \in G
        PROVE  n \in G
    <2> DEFINE o == OffsetOrder[n]
               x == after[n - 1]
    <2>1. o \in Offsets
      BY <1>0
    <2>2. During(x, c) /\ n - 1 \in 0..N
      BY <1>6
    <2>3. after[n] = Relax(x, c, o)
      BY <1>0, <1>4
    <2> HIDE DEF o, x
    <2>4. /\ During(after[n], c)
          /\ Now(x.pool) \subseteq Now(after[n].pool)
          /\ Plus(c, o) \in FreeCells => Plus(c, o) \in Now(after[n].pool)
      BY <2>1, <2>2, <2>3, Relaxing
    <2>5. ASSUME NEW k \in 1..n, Plus(c, OffsetOrder[k]) \in FreeCells
          PROVE  Plus(c, OffsetOrder[k]) \in Now(after[n].pool)
      <3>1. CASE k = n
        BY <2>4, <2>5, <3>1 DEF o
      <3>2. CASE k # n
        <4>1. k \in 1..(n - 1)
          BY <1>0, <3>2
        <4>2. Plus(c, OffsetOrder[k]) \in Now(x.pool)
          BY <1>6, <2>5, <4>1 DEF x
        <4> QED
          BY <2>4, <4>2
      <3> QED
        BY <3>1, <3>2
    <2> QED
      BY <1>0, <2>4, <2>5
  <1> HIDE DEF G
  <1>7. N \in G
    BY <1>0, <1>5, <1>6, UpTo
  <1>8. Walked(N)
    BY <1>7 DEF G
  <1> QED
    BY <1>1, <1>2, <1>8

-----------------------------------------------------------------------------
(***************************************************************************)
(* The inductive invariant.                                                *)
(***************************************************************************)

\* Before the start is queued, every node the pool holds is of an older round.
Seeding ==
  /\ rounds # 0 /\ start_idx \in Cells
  /\ \A c \in DOMAIN pool : pool[c].rounds < rounds

Searching ==
  /\ rounds # 0 /\ start_idx \in Cells
  /\ Sound(pool, openSet_anchor, openSet_inadmis, rounds, start_idx, end_idx,
           FreeCells, Prices, {})

Found ==
  /\ start_idx \in Cells /\ end_idx \in Now(pool)
  /\ Linked(pool, Now(pool), start_idx, Prices)
  /\ gridPath = RetrievePath(end_idx)

SearchInv ==
  /\ IsScene(scene) /\ rounds \in Nat /\ IsPool(pool, rounds)
  /\ stage = "seeding" => Seeding
  /\ stage = "searching" => Searching
  /\ stage = "failed" /\ why = "exhausted" =>
       Searching /\ openSet_anchor = <<>>
  /\ stage = "found" => Found

\* What is free and what it costs depends on the scene and the pool's place.
LEMMA SameGround ==
  ASSUME scene' = scene, center' = center
  PROVE  FreeCells' = FreeCells /\ Prices' = Prices /\ IsScene(scene)'
           = IsScene(scene)
  <1>1. \A c : Gated(Index2Coord(c))' = Gated(Index2Coord(c))
    BY DEF Gated, OutsidePlanes, Occupied, TerrainKnown, TerrainHeight, InMap,
           Index2Coord
  <1>2. \A c : RiskCost(Index2Coord(c))' = RiskCost(Index2Coord(c))
    BY DEF RiskCost, Moat, RoughCost, Tapered, Near, InNominal, NoBarrier,
           Zones, TerrainKnown, TerrainHeight, Index2Coord
  <1> QED
    BY <1>1, <1>2 DEF FreeCells, Prices

\* The best entry of one of the queues is live, and only it leaves.
LEMMA Taking ==
  ASSUME Searching, openSet_anchor # <<>>
  PROVE  /\ Popped \in Now(pool)
         /\ AfterPop.pool = pool
         /\ AfterPop \in [pool : {AfterPop.pool}, anchor : {AfterPop.anchor},
                          inadmis : {AfterPop.inadmis}]
         /\ AfterPop.anchor \in Seq(Cells)
         /\ ToSet(AfterPop.anchor) \subseteq Now(pool)
         /\ AfterPop.inadmis \in Seq(Cells)
         /\ ToSet(AfterPop.inadmis) \subseteq Now(pool)
         /\ ToSet(openSet_anchor) \ {Popped} \subseteq ToSet(AfterPop.anchor)
  <1> DEFINE a == openSet_anchor
             i == openSet_inadmis
             b == HeapPop(a, AnchorKey(pool))
             j == HeapPop(i, InadmisKey(pool))
  <1>1. /\ a \in Seq(Cells) /\ i \in Seq(Cells)
        /\ ToSet(a) \subseteq Now(pool) /\ ToSet(i) \subseteq Now(pool)
    BY DEF Searching, Sound, Queued, Now
  <1>2. /\ b \in Seq(Cells) /\ Head(a) \in ToSet(a)
        /\ ToSet(b) \subseteq ToSet(a) /\ ToSet(a) \ {Head(a)} \subseteq ToSet(b)
    BY <1>1, Popping
  <1>3. i # <<>> => /\ j \in Seq(Cells) /\ Head(i) \in ToSet(i)
                    /\ ToSet(j) \subseteq ToSet(i)
    BY <1>1, Popping
  <1>4. FromInadmis => i # <<>>
    BY DEF FromInadmis
  <1>5. /\ Popped = IF FromInadmis THEN Head(i) ELSE Head(a)
        /\ AfterPop = [pool |-> pool, anchor |-> IF FromInadmis THEN a ELSE b,
                       inadmis |-> IF FromInadmis THEN j ELSE i]
    BY DEF Popped, AfterPop
  <1> HIDE DEF a, b, i, j
  <1>6. CASE FromInadmis
    BY <1>1, <1>3, <1>4, <1>5, <1>6 DEF a
  <1>7. CASE ~ FromInadmis
    BY <1>1, <1>2, <1>5, <1>7 DEF a
  <1> QED
    BY <1>6, <1>7

\* The start node is all a search begins with.
LEMMA SeedStep ==
  ASSUME SearchInv, Seed
  PROVE  SearchInv'
  <1> DEFINE s == [pool |-> pool, anchor |-> <<>>, inadmis |-> <<>>]
             n == Scored(start_idx, 0, <<>>)
             t == Enqueue(s, start_idx, n)
             q == WithNode(pool, start_idx, n)
             L == {start_idx}
  <1>1. /\ rounds \in Nat \ {0} /\ start_idx \in Cells
        /\ \A c \in DOMAIN pool : pool[c].rounds < rounds
        /\ IsPool(pool, rounds) /\ IsScene(scene)
    BY DEF SearchInv, Seed, Seeding
  <1>2. s.anchor \in Seq(Cells) /\ s.inadmis \in Seq(Cells)
    BY EmptySeq
  <1>3. Entered(s, t, start_idx, n)
    BY <1>1, <1>2, Enqueueing
  <1>4. s.pool = pool /\ ToSet(s.anchor) = {} /\ ToSet(s.inadmis) = {}
    BY DEF ToSet
  <1>5. IsNode(n) /\ n.rounds = rounds /\ n.state = "OPENSET" /\ n.gScore = 0
          /\ n.cameFrom = <<>>
    BY <1>1 DEF Scored, IsNode
  <1>6. pool' = t.pool /\ openSet_anchor' = t.anchor /\ openSet_inadmis' = t.inadmis
    BY DEF Seed, Load
  <1>7. /\ stage' = "searching" /\ scene' = scene /\ center' = center
        /\ rounds' = rounds /\ start_idx' = start_idx /\ end_idx' = end_idx
    BY DEF Seed
  <1> HIDE DEF s, n, t
  <1>8. /\ t.pool = q /\ t.anchor \in Seq(Cells) /\ ToSet(t.anchor) = L
        /\ t.inadmis \in Seq(Cells) /\ ToSet(t.inadmis) \subseteq L
    BY <1>3, <1>4 DEF Entered
  <1>9. /\ DOMAIN q = DOMAIN pool \cup {start_idx}
        /\ q[start_idx] = n /\ \A c \in DOMAIN pool : c # start_idx => q[c] = pool[c]
    BY DEF WithNode
  <1> HIDE DEF q
  <1>10. IsPool(q, rounds)
    BY <1>1, <1>5, <1>9 DEF IsPool
  <1>11. Live(q, rounds, start_idx, FreeCells) = L
    BY <1>1, <1>5, <1>9 DEF Live
  <1>12. Queued(q, t.anchor, t.inadmis, L)
    BY <1>8 DEF Queued
  <1>13. Linked(q, L, start_idx, Prices)
    BY <1>5, <1>9 DEF Linked
  <1>14. Expanded(q, L, end_idx, FreeCells, {})
    BY <1>5, <1>9 DEF Expanded, Closed
  <1>15. Sound(q, t.anchor, t.inadmis, rounds, start_idx, end_idx, FreeCells,
               Prices, {})
    BY <1>10, <1>11, <1>12, <1>13, <1>14 DEF Sound
  <1>16. FreeCells' = FreeCells /\ Prices' = Prices /\ IsScene(scene)'
    BY <1>1, <1>7, SameGround
  <1> QED
    BY <1>1, <1>6, <1>7, <1>8, <1>10, <1>15, <1>16 DEF SearchInv, Searching

\* A stale entry goes; its node is closed.
LEMMA DropStep ==
  ASSUME SearchInv, DropStale
  PROVE  SearchInv'
  <1>1. /\ Searching /\ openSet_anchor # <<>> /\ IsScene(scene)
        /\ rounds \in Nat /\ IsPool(pool, rounds) /\ Closed(pool, Popped)
    BY DEF SearchInv, DropStale, Closed
  <1>2. /\ AfterPop.pool = pool
        /\ AfterPop.anchor \in Seq(Cells) /\ AfterPop.inadmis \in Seq(Cells)
        /\ ToSet(AfterPop.anchor) \subseteq Now(pool)
        /\ ToSet(AfterPop.inadmis) \subseteq Now(pool)
        /\ ToSet(openSet_anchor) \ {Popped} \subseteq ToSet(AfterPop.anchor)
    BY <1>1, Taking
  <1>3. /\ pool' = pool /\ openSet_anchor' = AfterPop.anchor
        /\ openSet_inadmis' = AfterPop.inadmis
    BY <1>2 DEF DropStale, Load
  <1>4. /\ stage' = "searching" /\ scene' = scene /\ center' = center
        /\ rounds' = rounds /\ start_idx' = start_idx /\ end_idx' = end_idx
    BY DEF DropStale
  <1>5. Queued(pool, AfterPop.anchor, AfterPop.inadmis, Now(pool))
    <2>1. Queued(pool, openSet_anchor, openSet_inadmis, Now(pool))
      BY <1>1 DEF Searching, Sound, Now
    <2> QED
      BY <1>1, <1>2, <2>1 DEF Queued
  <1>6. Sound(pool, AfterPop.anchor, AfterPop.inadmis, rounds, start_idx, end_idx,
              FreeCells, Prices, {})
    BY <1>1, <1>5 DEF Searching, Sound, Now
  <1>7. FreeCells' = FreeCells /\ Prices' = Prices /\ IsScene(scene)'
    BY <1>1, <1>4, SameGround
  <1> QED
    BY <1>1, <1>3, <1>4, <1>6, <1>7 DEF SearchInv, Searching

\* The best node is closed, and is the one whose neighbours are due.
LEMMA Closing ==
  ASSUME SearchInv, Searching, openSet_anchor # <<>>, ~ Closed(pool, Popped),
         Popped # end_idx
  PROVE  /\ During([AfterPop EXCEPT !.pool =
                      [pool EXCEPT ![Popped].state = "CLOSEDSET"]], Popped)
         /\ Popped \in Cells
  <1> DEFINE c == Popped
             n == [pool[c] EXCEPT !.state = "CLOSEDSET"]
             p == [pool EXCEPT ![c] = n]
             t == AfterPop
             L == Now(pool)
             u == [t EXCEPT !.pool = p]
  <1>1. /\ c \in L
        /\ t \in [pool : {t.pool}, anchor : {t.anchor}, inadmis : {t.inadmis}]
        /\ t.anchor \in Seq(Cells) /\ ToSet(t.anchor) \subseteq L
        /\ t.inadmis \in Seq(Cells) /\ ToSet(t.inadmis) \subseteq L
        /\ ToSet(openSet_anchor) \ {c} \subseteq ToSet(t.anchor)
    BY Taking
  <1>2. /\ Queued(pool, openSet_anchor, openSet_inadmis, L)
        /\ Linked(pool, L, start_idx, Prices)
        /\ Expanded(pool, L, end_idx, FreeCells, {})
        /\ IsPool(pool, rounds)
    BY DEF Searching, Sound, Now
  <1>3. \A d \in L : d \in DOMAIN pool
    BY DEF Now, Live
  <1>4. c \in DOMAIN pool /\ c \in Cells /\ IsNode(pool[c])
    BY <1>1, <1>2, <1>3 DEF IsPool
  <1>5. [AfterPop EXCEPT !.pool = [pool EXCEPT ![Popped].state = "CLOSEDSET"]] = u
    OBVIOUS
  <1> HIDE DEF c, t
  <1>6. /\ IsNode(n) /\ n.state = "CLOSEDSET" /\ n.rounds = pool[c].rounds
        /\ n.gScore = pool[c].gScore /\ n.cameFrom = pool[c].cameFrom
    BY <1>4 DEF IsNode
  <1> HIDE DEF n
  <1>7. /\ DOMAIN p = DOMAIN pool /\ p[c] = n
        /\ \A d \in DOMAIN pool : d # c => p[d] = pool[d]
    BY <1>4
  <1> HIDE DEF p
  <1>8. /\ u \in [pool : {u.pool}, anchor : {u.anchor}, inadmis : {u.inadmis}]
        /\ u.pool = p /\ u.anchor = t.anchor /\ u.inadmis = t.inadmis
    BY <1>1
  <1> HIDE DEF u
  <1>9. IsPool(p, rounds)
    BY <1>2, <1>6, <1>7 DEF IsPool
  <1>10. Now(p) = L
    BY <1>6, <1>7 DEF Now, Live
  <1>11. /\ Closed(p, c)
         /\ \A d \in L : d # c => (Closed(p, d) <=> Closed(pool, d))
         /\ \A d \in L : /\ p[d].gScore = pool[d].gScore
                         /\ p[d].cameFrom = pool[d].cameFrom
    BY <1>3, <1>6, <1>7 DEF Closed
  <1> HIDE DEF L
  <1>12. Queued(p, t.anchor, t.inadmis, L)
    BY <1>1, <1>2, <1>11 DEF Queued
  <1>13. Linked(p, L, start_idx, Prices)
    <2>1. ASSUME NEW d \in L, Link(pool, L, d, Prices)
          PROVE  Link(p, L, d, Prices)
      <3> DEFINE from == pool[d].cameFrom
      <3>1. /\ from \in L /\ Closed(pool, from)
            /\ \E o \in Offsets :
                 /\ d = Plus(from, o)
                 /\ pool[d].gScore = pool[from].gScore + StepCost(o) * Prices[d]
        BY <2>1 DEF Link
      <3>2. p[d].cameFrom = from /\ Closed(p, from)
        BY <1>11, <3>1
      <3>3. p[d].gScore = pool[d].gScore /\ p[from].gScore = pool[from].gScore
        BY <1>11, <3>1
      <3> HIDE DEF from
      <3> QED
        BY <3>1, <3>2, <3>3 DEF Link
    <2> QED
      BY <1>2, <1>11, <2>1 DEF Linked
  <1>14. Expanded(p, L, end_idx, FreeCells, {c})
    BY <1>2, <1>11 DEF Expanded, c
  <1>15. Sound(p, t.anchor, t.inadmis, rounds, start_idx, end_idx, FreeCells,
               Prices, {c})
    BY <1>9, <1>10, <1>12, <1>13, <1>14 DEF Sound, Now
  <1>16. c \in Now(u.pool) /\ Closed(u.pool, c)
    BY <1>1, <1>8, <1>10, <1>11
  <1>17. During(u, c)
    BY <1>8, <1>15, <1>16 DEF During
  <1> QED
    BY <1>4, <1>5, <1>17 DEF c

\* A node is closed once all its free neighbours are live.
LEMMA ExpandStep ==
  ASSUME SearchInv, Expand
  PROVE  SearchInv'
  <1> DEFINE c == Popped
             u == [AfterPop EXCEPT !.pool =
                     [pool EXCEPT ![Popped].state = "CLOSEDSET"]]
             s == RelaxAll(u, c)
  <1>1. /\ Searching /\ openSet_anchor # <<>> /\ IsScene(scene)
        /\ rounds \in Nat \ {0} /\ ~ Closed(pool, Popped) /\ Popped # end_idx
    BY DEF SearchInv, Expand, Closed, Searching
  <1>2. During(u, c) /\ c \in Cells
    BY <1>1, Closing
  <1>3. /\ pool' = s.pool /\ openSet_anchor' = s.anchor
        /\ openSet_inadmis' = s.inadmis
    BY DEF Expand, Load
  <1> HIDE DEF u, c
  <1>4. /\ During(s, c)
        /\ \A o \in Offsets : Plus(c, o) \in FreeCells => Plus(c, o) \in Now(s.pool)
    BY <1>1, <1>2, RelaxingAll
  <1> HIDE DEF s
  <1>5. /\ scene' = scene /\ center' = center
        /\ rounds' = rounds /\ start_idx' = start_idx /\ end_idx' = end_idx
        /\ stage' = "searching" \/ (stage' = "failed" /\ why' = "timeout")
    BY DEF Expand
  <1>6. /\ IsPool(s.pool, rounds)
        /\ Queued(s.pool, s.anchor, s.inadmis, Now(s.pool))
        /\ Linked(s.pool, Now(s.pool), start_idx, Prices)
        /\ Expanded(s.pool, Now(s.pool), end_idx, FreeCells, {c})
    BY <1>4 DEF During, Sound, Now
  <1>7. Expanded(s.pool, Now(s.pool), end_idx, FreeCells, {})
    BY <1>4, <1>6 DEF Expanded
  <1>8. Sound(s.pool, s.anchor, s.inadmis, rounds, start_idx, end_idx, FreeCells,
              Prices, {})
    BY <1>6, <1>7 DEF Sound, Now
  <1>9. FreeCells' = FreeCells /\ Prices' = Prices /\ IsScene(scene)'
    BY <1>1, <1>5, SameGround
  <1> QED
    BY <1>1, <1>3, <1>5, <1>6, <1>8, <1>9 DEF SearchInv, Searching

\* The path is retrieved from the nodes as they are.
LEMMA ReachStep ==
  ASSUME SearchInv, ReachGoal
  PROVE  SearchInv'
  <1>1. /\ Searching /\ openSet_anchor # <<>> /\ IsScene(scene)
        /\ rounds \in Nat /\ IsPool(pool, rounds) /\ Popped = end_idx
    BY DEF SearchInv, ReachGoal
  <1>2. Popped \in Now(pool) /\ AfterPop.pool = pool
    BY <1>1, Taking
  <1>3. /\ pool' = pool /\ stage' = "found" /\ scene' = scene /\ center' = center
        /\ rounds' = rounds /\ start_idx' = start_idx /\ end_idx' = end_idx
        /\ gridPath' = RetrievePath(Popped)
    BY <1>2 DEF ReachGoal, Load
  <1>4. FreeCells' = FreeCells /\ Prices' = Prices /\ IsScene(scene)'
    BY <1>1, <1>3, SameGround
  <1>5. gridPath' = RetrievePath(end_idx)'
    BY <1>1, <1>3 DEF RetrievePath
  <1>6. start_idx \in Cells /\ Linked(pool, Now(pool), start_idx, Prices)
    BY <1>1 DEF Searching, Sound, Now
  <1>7. Now(pool)' = Now(pool)
    BY <1>3, <1>4 DEF Now
  <1> QED
    BY <1>1, <1>2, <1>3, <1>4, <1>5, <1>6, <1>7 DEF SearchInv, Found

\* A new search puts every node the pool holds in the past; its start is a
\* cell of the pool.
LEMMA BeginStep ==
  ASSUME SearchInv, BeginSearch
  PROVE  SearchInv'
  <1>1. /\ rounds \in Nat /\ IsPool(pool, rounds) /\ IsScene(scene)
        /\ rounds' = rounds + 1 /\ pool' = pool /\ scene' = scene
    BY DEF SearchInv, BeginSearch, search
  <1>2. \A c \in DOMAIN pool : pool[c].rounds \in Nat /\ pool[c].rounds <= rounds
    BY <1>1 DEF IsPool, IsNode
  <1>3. IsPool(pool, rounds + 1)
    BY <1>1, <1>2 DEF IsPool
  <1>4. \/ stage' = "failed" /\ why' = "endpoint"
        \/ stage' = "seeding" /\ start_idx' = Adjusted.start /\ Adjusted.ok
    BY DEF BeginSearch
  <1>5. ASSUME Adjusted.ok
        PROVE  Adjusted.start \in Cells
    <2> DEFINE middle == Half(Plus(scene.start, Target))
               s == ShiftOut(scene.start, Away(scene.start, Target), middle)
    <2>1. s.ok /\ Adjusted.start = s.idx
      BY <1>5 DEF Adjusted
    <2> HIDE DEF middle
    <2>2. \E pt : s.ok = InPool(IndexOf(pt, middle)) /\ s.idx = IndexOf(pt, middle)
      BY DEF ShiftOut
    <2>3. InPool(s.idx) /\ \E a, b : s.idx = Plus(a, b)
      BY <2>1, <2>2 DEF IndexOf
    <2> HIDE DEF s
    <2> QED
      BY <2>1, <2>3 DEF InPool, Plus, Axes3, Cells
  <1>6. IsScene(scene)' /\ (rounds \in Nat)' /\ rounds' # 0
    BY <1>1
  <1>7. \A c \in DOMAIN pool : pool[c].rounds < rounds'
    BY <1>1, <1>2
  <1> QED
    BY <1>1, <1>3, <1>4, <1>5, <1>6, <1>7 DEF SearchInv, Seeding

\* The ladder takes no node and no queue away.
LEMMA LadderStep ==
  ASSUME SearchInv, Exhaust \/ Elevate \/ StraightLine \/ TakePath
  PROVE  SearchInv'
  <1>1. /\ scene' = scene /\ center' = center /\ rounds' = rounds
        /\ start_idx' = start_idx /\ end_idx' = end_idx /\ pool' = pool
        /\ openSet_anchor' = openSet_anchor /\ openSet_inadmis' = openSet_inadmis
    BY DEF Exhaust, Elevate, StraightLine, TakePath, search
  <1>2. \/ stage = "searching" /\ openSet_anchor = <<>> /\ stage' = "failed"
        \/ stage' \in {"ready", "done"}
    BY DEF Exhaust, Elevate, StraightLine, TakePath
  <1>3. FreeCells' = FreeCells /\ Prices' = Prices /\ IsScene(scene)'
    BY <1>1, SameGround DEF SearchInv
  <1> QED
    BY <1>1, <1>2, <1>3 DEF SearchInv, Searching

LEMMA InitialInv ==
  ASSUME IsScene(scene), SearchInit
  PROVE  SearchInv
  BY DEF SearchInit, SearchInv, IsPool

\* Every step of the query keeps the invariant.
LEMMA InvStep ==
  ASSUME SearchInv, [SearchNext]_<<scene, searchVars>>
  PROVE  SearchInv'
  <1>1. CASE SearchNext
    BY <1>1, BeginStep, SeedStep, DropStep, ReachStep, ExpandStep, LadderStep
       DEF SearchNext
  <1>2. CASE UNCHANGED <<scene, searchVars>>
    <2>1. /\ scene' = scene /\ center' = center /\ rounds' = rounds
          /\ start_idx' = start_idx /\ end_idx' = end_idx /\ pool' = pool
          /\ openSet_anchor' = openSet_anchor
          /\ openSet_inadmis' = openSet_inadmis
          /\ stage' = stage /\ why' = why /\ gridPath' = gridPath
      BY <1>2 DEF searchVars
    <2>2. FreeCells' = FreeCells /\ Prices' = Prices
      BY <2>1, SameGround
    <2>3. Now(pool)' = Now(pool)
      BY <2>1, <2>2 DEF Now
    <2>4. RetrievePath(end_idx)' = RetrievePath(end_idx)
      BY <2>1 DEF RetrievePath
    <2> QED
      BY <2>1, <2>2, <2>3, <2>4 DEF SearchInv, Seeding, Searching, Found
  <1> QED
    BY <1>1, <1>2

-----------------------------------------------------------------------------
(***************************************************************************)
(* The retrieved path.                                                     *)
(***************************************************************************)

\* A way back along the links from a live node to the start.
IsTrail(way, goal) ==
  /\ way \in Seq(Cells) /\ way # <<>>
  /\ way[1] = goal /\ way[Len(way)] = start_idx
  /\ \A x \in 1..(Len(way) - 1) :
       /\ way[x] \in Now(pool) \ {start_idx}
       /\ pool[way[x]].cameFrom = way[x + 1]

\* Following a link goes down by ten at least.
LEMMA Downhill ==
  ASSUME IsScene(scene), IsPool(pool, rounds), start_idx \in Cells,
         Linked(pool, Now(pool), start_idx, Prices),
         NEW c \in Now(pool)
  PROVE  /\ c \in Cells /\ pool[c].gScore \in Nat
         /\ c = start_idx => pool[c].cameFrom = <<>>
         /\ c # start_idx =>
              /\ pool[c].cameFrom \in Now(pool)
              /\ pool[pool[c].cameFrom].gScore \in Nat
              /\ pool[pool[c].cameFrom].gScore + 10 <= pool[c].gScore
  <1>1. \A d \in Now(pool) : d \in Cells /\ pool[d].gScore \in Nat
    BY DEF Now, Live, IsPool, IsNode
  <1>2. c = start_idx => pool[c].cameFrom = <<>>
    BY DEF Linked
  <1>3. ASSUME c # start_idx
        PROVE  /\ pool[c].cameFrom \in Now(pool)
               /\ pool[pool[c].cameFrom].gScore \in Nat
               /\ pool[pool[c].cameFrom].gScore + 10 <= pool[c].gScore
    <2> DEFINE from == pool[c].cameFrom
               w == Prices[c]
    <2>1. /\ from \in Now(pool)
          /\ \E o \in Offsets :
               pool[c].gScore = pool[from].gScore + StepCost(o) * w
      BY <1>3 DEF Linked, Link
    <2>2. w \in Nat /\ w >= 1
      <3>1. Prices[c] = 1 + RiskCost(Index2Coord(c))
        BY <1>1 DEF Prices
      <3>2. RiskCost(Index2Coord(c)) \in Nat
        BY RiskCosts
      <3> QED
        BY <3>1, <3>2
    <2> HIDE DEF from, w
    <2>3. PICK o \in Offsets : pool[c].gScore = pool[from].gScore + StepCost(o) * w
      BY <2>1
    <2>4. StepCost(o) \in Nat /\ StepCost(o) >= 10
      BY StepCosts
    <2>5. pool[from].gScore \in Nat
      BY <1>1, <2>1
    <2>6. ASSUME NEW a \in Nat, NEW b \in Nat, NEW k \in Nat, k >= 10, b >= 1
          PROVE  a + k * b >= a + 10
      <3>1. k * b >= k
        <4>1. k * b = k + k * (b - 1)
          BY <2>6
        <4>2. k * (b - 1) \in Nat
          BY <2>6
        <4> QED
          BY <4>1, <4>2
      <3> QED
        BY <2>6, <3>1
    <2>7. pool[from].gScore + StepCost(o) * w >= pool[from].gScore + 10
      BY <2>2, <2>4, <2>5, <2>6
    <2> QED
      BY <1>1, <2>1, <2>3, <2>5, <2>7 DEF from
  <1> QED
    BY <1>1, <1>2, <1>3

\* The links lead to the start before the score runs out.
LEMMA Retrieving ==
  ASSUME IsScene(scene), IsPool(pool, rounds), start_idx \in Cells,
         Linked(pool, Now(pool), start_idx, Prices),
         NEW goal \in Now(pool)
  PROVE  IsTrail(RetrievePath(goal), goal)
  <1> DEFINE K == pool[goal].gScore \div 10
             Longer(p) == LET from == pool[Last(p)].cameFrom
                             IN IF from = <<>> THEN p ELSE Append(p, from)
             Loop(f, m) ==
               f = [n \in 0..m |-> IF n = 0 THEN <<goal>> ELSE Longer(f[n - 1])]
             trail == CHOOSE f : Loop(f, K)
  <1>0. pool[goal].gScore \in Nat /\ K \in Nat /\ goal \in Cells
    BY Downhill
  <1>1. RetrievePath(goal) = trail[K]
    BY DEF RetrievePath
  <1>2. pool[goal].gScore < 10 * K + 10
    BY <1>0
  <1> HIDE DEF K, Longer
  <1>3. \E f : Loop(f, K)
    <2> DEFINE G == {m \in 0..K : \E f : Loop(f, m)}
    <2>1. 0 \in G
      <3>1. Loop([n \in 0..0 |-> <<goal>>], 0)
        OBVIOUS
      <3> HIDE DEF Loop
      <3> QED
        BY <1>0, <3>1
    <2>2. ASSUME NEW m \in 1..K, m - 1 \in G
          PROVE  m \in G
      <3>1. PICK f : Loop(f, m - 1)
        BY <2>2
      <3> DEFINE g == [n \in 0..m |-> IF n = m THEN Longer(f[m - 1]) ELSE f[n]]
      <3>2. ASSUME NEW n \in 0..m
            PROVE  g[n] = IF n = 0 THEN <<goal>> ELSE Longer(g[n - 1])
        <4>1. n # 0 => g[n - 1] = f[n - 1]
          BY <1>0
        <4>2. n # m => f[n] = IF n = 0 THEN <<goal>> ELSE Longer(f[n - 1])
          BY <1>0, <3>1
        <4> QED
          BY <1>0, <4>1, <4>2
      <3>3. Loop(g, m)
        BY <3>2
      <3> HIDE DEF Loop
      <3> QED
        BY <1>0, <2>2, <3>3
    <2> HIDE DEF G
    <2>3. K \in G
      <3>1. \A m \in 1..K : m - 1 \in G => m \in G
        BY <2>2
      <3>2. K \in Nat /\ K \in 0..K
        BY <1>0
      <3>3. \A m \in 0..K : m \in G
        BY <2>1, <3>1, <3>2, UpTo
      <3> QED
        BY <3>2, <3>3
    <2> QED
      BY <2>3 DEF G
  <1>4. \A n \in 0..K :
          trail[n] = IF n = 0 THEN <<goal>> ELSE Longer(trail[n - 1])
    <2>1. Loop(trail, K)
      <3> HIDE DEF Loop
      <3> QED
        BY <1>3
    <2> HIDE DEF trail
    <2> QED
      BY <2>1
  <1> HIDE DEF trail, Loop
  <1> DEFINE last(p) == p[Len(p)]
             Partly(p, n) ==
               /\ p \in Seq(Cells) /\ Len(p) >= 1 /\ p[1] = goal
               /\ last(p) \in Now(pool)
               /\ \A x \in 1..(Len(p) - 1) :
                    /\ p[x] \in Now(pool) \ {start_idx}
                    /\ pool[p[x]].cameFrom = p[x + 1]
               /\ \/ last(p) = start_idx
                  \/ pool[last(p)].gScore + 10 * n <= pool[goal].gScore
             G == {n \in 0..K : Partly(trail[n], n)}
  <1>5. 0 \in G
    <2>1. trail[0] = <<goal>>
      BY <1>0, <1>4
    <2>2. Partly(<<goal>>, 0)
      BY <1>0
    <2> HIDE DEF Partly
    <2> QED
      BY <1>0, <2>1, <2>2
  <1>6. ASSUME NEW n \in 1..K, n - 1 \in G
        PROVE  n \in G
    <2> DEFINE p == trail[n - 1]
               l == last(p)
               from == pool[l].cameFrom
    <2>1. Partly(p, n - 1) /\ n - 1 \in Nat
      BY <1>6
    <2>2. trail[n] = Longer(p)
      BY <1>0, <1>4
    <2>3. trail[n] = IF from = <<>> THEN p ELSE Append(p, from)
      BY <2>2 DEF Longer, Last
    <2> HIDE DEF p, G
    <2>4. l \in Now(pool)
      BY <2>1
    <2>5. CASE l = start_idx
      <3>1. trail[n] = p
        BY <2>3, <2>4, <2>5, Downhill
      <3>2. Partly(p, n)
        BY <2>1, <2>5
      <3> HIDE DEF Partly
      <3> QED
        BY <3>1, <3>2 DEF G
    <2>6. CASE l # start_idx
      <3> DEFINE q == Append(p, from)
      <3>1. /\ from \in Now(pool) /\ from \in Cells
            /\ pool[from].gScore \in Nat /\ pool[l].gScore \in Nat
            /\ pool[from].gScore + 10 <= pool[l].gScore
        BY <2>4, <2>6, Downhill
      <3>2. from # <<>>
        <4>1. PICK a, b, d : from = <<a, b, d>>
          BY <3>1 DEF Cells
        <4>2. Len(<<a, b, d>>) = 3 /\ Len(<<>>) = 0
          OBVIOUS
        <4> HIDE DEF from
        <4> QED
          BY <4>1, <4>2
      <3>3. trail[n] = q
        BY <2>3, <3>2
      <3>4. pool[l].gScore + 10 * (n - 1) <= pool[goal].gScore
        BY <2>1, <2>6
      <3>5. pool[from].gScore + 10 * n <= pool[goal].gScore
        <4> DEFINE a == pool[from].gScore
                   b == pool[l].gScore
                   c == pool[goal].gScore
        <4>1. a \in Nat /\ b \in Nat /\ c \in Nat /\ n \in Nat
          BY <1>0, <1>6, <3>1
        <4>2. a + 10 <= b /\ b + 10 * (n - 1) <= c
          BY <3>1, <3>4
        <4> HIDE DEF a, b, c
        <4>3. a + 10 * n <= c
          BY <4>1, <4>2
        <4> QED
          BY <4>3 DEF a, c
      <3>6. pool[l].cameFrom = from
        OBVIOUS
      <3>7. /\ p \in Seq(Cells) /\ Len(p) >= 1 /\ p[1] = goal /\ p[Len(p)] = l
            /\ \A x \in 1..(Len(p) - 1) :
                    /\ p[x] \in Now(pool) \ {start_idx}
                    /\ pool[p[x]].cameFrom = p[x + 1]
        BY <2>1
      <3> HIDE DEF from, l, Partly
      <3>8. /\ q \in Seq(Cells) /\ Len(q) = Len(p) + 1
            /\ \A x \in 1..Len(p) : q[x] = p[x]
            /\ q[Len(p) + 1] = from
        BY <3>1, <3>7, AppendProperties
      <3>9. Len(p) \in Nat
        BY <3>7, LenProperties
      <3> HIDE DEF q
      <3>10. ASSUME NEW x \in 1..Len(p)
             PROVE  /\ q[x] \in Now(pool) \ {start_idx}
                    /\ pool[q[x]].cameFrom = q[x + 1]
        <4>1. CASE x = Len(p)
          BY <2>4, <2>6, <3>6, <3>7, <3>8, <4>1
        <4>2. CASE x # Len(p)
          <5>1. x \in 1..(Len(p) - 1) /\ x + 1 \in 1..Len(p)
            BY <3>9, <4>2
          <5> QED
            BY <3>7, <3>8, <5>1
        <4> QED
          BY <4>1, <4>2
      <3>11. q[1] = goal /\ Len(q) >= 1 /\ Len(q) - 1 = Len(p)
        BY <3>7, <3>8, <3>9
      <3>12. q[Len(q)] = from
        BY <3>8
      <3>13. Partly(q, n)
        BY <3>1, <3>5, <3>8, <3>10, <3>11, <3>12 DEF Partly
      <3> QED
        BY <3>3, <3>13 DEF G
    <2> QED
      BY <2>5, <2>6
  <1> HIDE DEF G
  <1>7. K \in G
    BY <1>0, <1>5, <1>6, UpTo
  <1> DEFINE r == trail[K]
  <1>8. Partly(r, K)
    BY <1>7 DEF G
  <1> HIDE DEF r
  <1>9. last(r) = start_idx
    <2> SUFFICES ASSUME last(r) # start_idx
                 PROVE  FALSE
      OBVIOUS
    <2> DEFINE l == last(r)
    <2>1. l \in Now(pool) /\ pool[l].gScore + 10 * K <= pool[goal].gScore
      BY <1>8
    <2> HIDE DEF l, last
    <2>2. /\ pool[l].gScore \in Nat
          /\ pool[pool[l].cameFrom].gScore \in Nat
          /\ pool[pool[l].cameFrom].gScore + 10 <= pool[l].gScore
      BY <2>1, Downhill DEF l
    <2> QED
      BY <1>0, <1>2, <2>1, <2>2
  <1>10. r # <<>>
    BY <1>8, EmptySeq
  <1> QED
    BY <1>1, <1>8, <1>9, <1>10 DEF IsTrail, r

\* The trail is the path that is asked for, and its costs add up.
LEMMA TrailIsThePath ==
  ASSUME SearchInv
  PROVE  PathIsOfThisSearch
  <1> SUFFICES ASSUME stage = "found"
               PROVE  PathIsOfThisSearch
    BY DEF PathIsOfThisSearch
  <1> DEFINE n == Len(gridPath)
             Leg(i) == Minus(gridPath[i], gridPath[i + 1])
             Cost(i) == StepCost(Leg(i))
                          * (1 + RiskCost(Index2Coord(gridPath[i])))
             Sum(f) == f = [i \in 1..n |-> IF i = n THEN 0
                                           ELSE Cost(i) + f[i + 1]]
             toGo == CHOOSE f : Sum(f)
             score(i) == pool[gridPath[i]].gScore
  <1>1. /\ IsScene(scene) /\ IsPool(pool, rounds) /\ start_idx \in Cells
        /\ Linked(pool, Now(pool), start_idx, Prices)
        /\ end_idx \in Now(pool) /\ gridPath = RetrievePath(end_idx)
    BY DEF SearchInv, Found
  <1>2. IsTrail(gridPath, end_idx)
    BY <1>1, Retrieving
  <1>3. n \in Nat \ {0}
    BY <1>2, LenProperties, EmptySeq DEF IsTrail
  <1>4. ASSUME NEW i \in 1..(n - 1)
        PROVE  /\ Leg(i) \in Offsets
               /\ gridPath[i] \in FreeCells
               /\ Cost(i) + score(i + 1) = score(i)
    <2> DEFINE c == gridPath[i]
               from == gridPath[i + 1]
    <2>1. c \in Now(pool) \ {start_idx} /\ pool[c].cameFrom = from
      BY <1>2 DEF IsTrail
    <2>2. Link(pool, Now(pool), c, Prices)
      BY <1>1, <2>1 DEF Linked
    <2>3. /\ from \in Now(pool)
          /\ \E o \in Offsets :
               /\ c = Plus(from, o)
               /\ pool[c].gScore = pool[from].gScore + StepCost(o) * Prices[c]
      BY <2>1, <2>2 DEF Link
    <2>4. from \in Cells /\ c \in Cells /\ c \in FreeCells
      BY <1>1, <2>1, <2>3 DEF Now, Live, IsPool
    <2>5. PICK o \in Offsets :
            /\ c = Plus(from, o)
            /\ pool[c].gScore = pool[from].gScore + StepCost(o) * Prices[c]
      BY <2>3
    <2>6. Leg(i) = o
      BY <2>4, <2>5, Neighbours
    <2>7. Cost(i) = StepCost(o) * Prices[c]
      BY <2>4, <2>6 DEF Prices
    <2>8. pool[from].gScore \in Nat
      BY <1>1, <2>3, Downhill
    <2>9. StepCost(o) * Prices[c] \in Int
      <3>1. RiskCost(Index2Coord(c)) \in Nat /\ StepCost(o) \in Nat
        BY <1>1, RiskCosts, StepCosts
      <3>2. Prices[c] = 1 + RiskCost(Index2Coord(c))
        BY <2>4 DEF Prices
      <3> QED
        BY <3>1, <3>2
    <2>10. score(i) = pool[c].gScore /\ score(i + 1) = pool[from].gScore
      OBVIOUS
    <2> HIDE DEF c, from, Cost, score
    <2>11. Cost(i) + score(i + 1) = score(i)
      BY <2>5, <2>7, <2>8, <2>9, <2>10
    <2> QED
      BY <2>4, <2>6, <2>11 DEF c
  <1>5. gridPath[1] = end_idx /\ gridPath[n] = start_idx
    BY <1>2 DEF IsTrail
  <1>6. score(n) = 0 /\ score(1) = pool[end_idx].gScore
    BY <1>1, <1>5 DEF Linked
  <1> HIDE DEF n, Leg, Cost, score
  <1>7. \E f : Sum(f)
    <2> DEFINE f == [i \in 1..n |-> score(i)]
    <2>1. ASSUME NEW i \in 1..n
          PROVE  f[i] = IF i = n THEN 0 ELSE Cost(i) + f[i + 1]
      <3>1. CASE i = n
        BY <1>3, <1>6, <3>1
      <3>2. CASE i # n
        <4>1. i \in 1..(n - 1) /\ i + 1 \in 1..n
          BY <1>3, <3>2
        <4> QED
          BY <1>4, <3>2, <4>1
      <3> QED
        BY <3>1, <3>2
    <2>2. Sum(f)
      BY <2>1
    <2> QED
      BY <2>2
  <1>8. \A i \in 1..n : toGo[i] = IF i = n THEN 0 ELSE Cost(i) + toGo[i + 1]
    <2>1. Sum(toGo)
      <3> HIDE DEF Sum
      <3> QED
        BY <1>7
    <2> HIDE DEF toGo
    <2> QED
      BY <2>1
  <1> HIDE DEF toGo, Sum
  <1>9. toGo[1] = score(1)
    <2> DEFINE G == {m \in 0..(n - 1) : toGo[n - m] = score(n - m)}
    <2>1. 0 \in G
      BY <1>3, <1>6, <1>8
    <2>2. ASSUME NEW m \in 1..(n - 1), m - 1 \in G
          PROVE  m \in G
      <3> DEFINE i == n - m
      <3>1. i \in 1..(n - 1) /\ i \in 1..n /\ i # n /\ i + 1 = n - (m - 1)
        BY <1>3
      <3>2. toGo[i + 1] = score(i + 1)
        BY <2>2, <3>1
      <3>3. toGo[i] = Cost(i) + toGo[i + 1]
        BY <1>8, <3>1
      <3>4. toGo[i] = score(i)
        BY <1>4, <3>1, <3>2, <3>3
      <3> QED
        BY <1>3, <3>4
    <2> HIDE DEF G
    <2>3. n - 1 \in G
      BY <1>3, <2>1, <2>2, UpTo
    <2> QED
      BY <1>3, <2>3 DEF G
  <1>10. \A i \in 1..(n - 1) :
           /\ Leg(i) \in Offsets
           /\ Inner(gridPath[i])
           /\ ~ Gated(Index2Coord(gridPath[i]))
    BY <1>4 DEF FreeCells
  <1> QED
    BY <1>5, <1>6, <1>9, <1>10
       DEF PathIsOfThisSearch, n, Leg, Cost, toGo, Sum

-----------------------------------------------------------------------------
(***************************************************************************)
(* A dry search.                                                           *)
(***************************************************************************)

\* A set of naturals that is not empty has a least element.
LEMMA LeastOf ==
  ASSUME NEW S \in SUBSET Nat, S # {}
  PROVE  \E m \in S : \A k \in S : m <= k
  <1>1. PICK m \in S : \A k \in S : ~ (<<k, m>> \in OpToRel(<, Nat))
    BY NatLessThanWellFounded, WFMin
  <1>2. \A i, j \in Nat : j < i => <<j, i>> \in OpToRel(<, Nat)
    BY DEF OpToRel
  <1>3. ASSUME NEW k \in S PROVE m <= k
    <2>1. ~ (k < m)
      BY <1>1, <1>2
    <2> QED
      BY <2>1
  <1> QED
    BY <1>3

\* Cheapest never leaves a set of cells that no move leads out of.
LEMMA NoWayOut ==
  ASSUME NEW moves, IsFiniteSet(DOMAIN moves),
         NEW C, C \subseteq DOMAIN moves, NEW from \in C,
         \A c \in C : \A x \in DOMAIN moves[c] : x \in C /\ moves[c][x] \in Nat
  PROVE  DOMAIN Cheapest(from, moves) \subseteq C
  <1> DEFINE N == Cardinality(DOMAIN moves)
             Next1(s) == CHOOSE x \in s.work : \A y \in s.work : s.g[x] <= s.g[y]
             Settle(s) ==
               LET c == CHOOSE x \in s.work : \A y \in s.work : s.g[x] <= s.g[y]
                   by == [x \in DOMAIN moves[c] |-> s.g[c] + moves[c][x]]
                   better == {x \in DOMAIN by : x \in DOMAIN s.g => by[x] < s.g[x]}
               IN [g |-> [x \in DOMAIN s.g \cup better |->
                            IF x \in better THEN by[x] ELSE s.g[x]],
                   work |-> (s.work \ {c}) \cup better]
             First == [g |-> [x \in {from} |-> 0], work |-> {from}]
             Then(s) == IF s.work = {} THEN s ELSE Settle(s)
             Loop(f, m) ==
               f = [n \in 0..m |-> IF n = 0 THEN First ELSE Then(f[n - 1])]
             settled == CHOOSE f :
               f = [n \in 0..N |-> IF n = 0 THEN First
                                   ELSE LET s == f[n - 1]
                                        IN IF s.work = {} THEN s ELSE Settle(s)]
             Inside(s) ==
               /\ DOMAIN s.g \subseteq C /\ s.work \subseteq DOMAIN s.g
               /\ \A x \in DOMAIN s.g : s.g[x] \in Nat
  <1>0. N \in Nat
    BY FS_CardinalityType
  <1>1. Cheapest(from, moves) = settled[N].g
    BY DEF Cheapest
  <1>2. settled = CHOOSE f : Loop(f, N)
    OBVIOUS
  <1> HIDE DEF N, settled
  <1>3. ASSUME NEW s, Inside(s)
        PROVE  Inside(Then(s))
    <2>1. CASE s.work = {}
      <3>1. Then(s) = s
        BY <2>1
      <3> HIDE DEF Then, Inside
      <3> QED
        BY <1>3, <3>1
    <2>2. CASE s.work # {}
      <3> DEFINE c == Next1(s)
                 by == [x \in DOMAIN moves[c] |-> s.g[c] + moves[c][x]]
                 better == {x \in DOMAIN by : x \in DOMAIN s.g => by[x] < s.g[x]}
                 g == [x \in DOMAIN s.g \cup better |->
                         IF x \in better THEN by[x] ELSE s.g[x]]
                 work == (s.work \ {c}) \cup better
      <3>1. Then(s) = [g |-> g, work |-> work]
        BY <2>2
      <3>2. \E x \in s.work : \A y \in s.work : s.g[x] <= s.g[y]
        <4> DEFINE S == {s.g[x] : x \in s.work}
        <4>1. S \in SUBSET Nat /\ S # {}
          BY <1>3, <2>2
        <4>2. PICK m \in S : \A k \in S : m <= k
          <5> HIDE DEF S
          <5> QED
            BY <4>1, LeastOf
        <4> QED
          BY <4>2
      <3>3. c \in s.work
        <4> HIDE DEF Inside, Then
        <4> QED
          BY <3>2
      <3> HIDE DEF c, Then
      <3>4. c \in C /\ s.g[c] \in Nat
        BY <1>3, <3>3
      <3>5. DOMAIN by = DOMAIN moves[c]
        OBVIOUS
      <3>6. \A x \in DOMAIN moves[c] : x \in C /\ by[x] \in Nat
        BY <3>4
      <3> HIDE DEF by
      <3>7. better \subseteq C /\ \A x \in better : by[x] \in Nat
        BY <3>5, <3>6
      <3> HIDE DEF better
      <3>8. DOMAIN g = DOMAIN s.g \cup better
        OBVIOUS
      <3>9. \A x \in DOMAIN g : g[x] \in Nat
        BY <1>3, <3>7
      <3>10. work \subseteq DOMAIN g /\ DOMAIN g \subseteq C
        BY <1>3, <3>7, <3>8
      <3> HIDE DEF g, work
      <3> QED
        BY <3>1, <3>9, <3>10
    <2> QED
      BY <2>1, <2>2
  <1>4. Inside(First)
    OBVIOUS
  <1> HIDE DEF Then, First
  <1>5. \E f : Loop(f, N)
    <2> DEFINE G == {m \in 0..N : \E f : Loop(f, m)}
    <2>1. 0 \in G
      <3>1. Loop([n \in 0..0 |-> First], 0)
        OBVIOUS
      <3> HIDE DEF Loop
      <3> QED
        BY <1>0, <3>1
    <2>2. ASSUME NEW m \in 1..N, m - 1 \in G
          PROVE  m \in G
      <3>1. PICK f : Loop(f, m - 1)
        BY <2>2
      <3> DEFINE g == [n \in 0..m |-> IF n = m THEN Then(f[m - 1]) ELSE f[n]]
      <3>2. ASSUME NEW n \in 0..m
            PROVE  g[n] = IF n = 0 THEN First ELSE Then(g[n - 1])
        <4>1. n # 0 => g[n - 1] = f[n - 1]
          BY <1>0
        <4>2. n # m => f[n] = IF n = 0 THEN First ELSE Then(f[n - 1])
          BY <1>0, <3>1
        <4> QED
          BY <1>0, <4>1, <4>2
      <3>3. Loop(g, m)
        BY <3>2
      <3> HIDE DEF Loop
      <3> QED
        BY <1>0, <2>2, <3>3
    <2> HIDE DEF G
    <2>3. N \in G
      <3>1. \A m \in 1..N : m - 1 \in G => m \in G
        BY <2>2
      <3>2. N \in Nat /\ N \in 0..N
        BY <1>0
      <3>3. \A m \in 0..N : m \in G
        BY <2>1, <3>1, <3>2, UpTo
      <3> QED
        BY <3>2, <3>3
    <2> QED
      BY <2>3 DEF G
  <1>6. \A n \in 0..N : settled[n] = IF n = 0 THEN First ELSE Then(settled[n - 1])
    <2>1. Loop(settled, N)
      <3> HIDE DEF Loop
      <3> QED
        BY <1>2, <1>5
    <2> QED
      BY <2>1
  <1> DEFINE G == {n \in 0..N : Inside(settled[n])}
  <1> HIDE DEF Loop, Inside
  <1>7. 0 \in G
    BY <1>0, <1>4, <1>6
  <1>8. ASSUME NEW n \in 1..N, n - 1 \in G
        PROVE  n \in G
    <2>1. settled[n] = Then(settled[n - 1])
      BY <1>0, <1>6
    <2>2. Inside(settled[n - 1])
      BY <1>8
    <2> QED
      BY <1>0, <1>3, <2>1, <2>2
  <1> HIDE DEF G
  <1>9. N \in G
    BY <1>0, <1>7, <1>8, UpTo
  <1> QED
    BY <1>1, <1>9 DEF G, Inside

\* The pool is finite.
LEMMA CellsAreFinite ==
  IsFiniteSet(Cells)
  <1> DEFINE I(k) == 0..(Pool[k] - 1)
             S == (I(1) \X I(2)) \X I(3)
             f == [t \in S |-> <<t[1][1], t[1][2], t[2]>>]
  <1>1. \A k \in 1..3 : IsFiniteSet(I(k))
    <2> SUFFICES ASSUME NEW k \in 1..3
                 PROVE  IsFiniteSet(I(k))
      OBVIOUS
    <2>1. Pool[k] \in Nat \ {0}
      <3>1. Pool \in Seq(Nat \ {0}) /\ k \in 1..Len(Pool)
        BY PoolAssumption
      <3> QED
        BY <3>1, ElementOfSeq
    <2> DEFINE b == Pool[k] - 1
    <2>2. 0 \in Int /\ b \in Int
      BY <2>1
    <2> HIDE DEF b
    <2>3. IsFiniteSet(0..b)
      BY <2>2, FS_Interval
    <2> QED
      BY <2>3 DEF b
  <1>2. Cells = I(1) \X I(2) \X I(3)
    BY DEF Cells
  <1> HIDE DEF I
  <1>3. IsFiniteSet(S)
    <2>1. IsFiniteSet(I(1)) /\ IsFiniteSet(I(2)) /\ IsFiniteSet(I(3))
      BY <1>1
    <2>2. IsFiniteSet(I(1) \X I(2))
      BY <2>1, FS_Product
    <2> QED
      BY <2>1, <2>2, FS_Product
  <1>4. f \in Surjection(S, Cells)
    <2>1. f \in [S -> Cells]
      BY <1>2
    <2>2. ASSUME NEW c \in Cells
          PROVE  \E t \in S : f[t] = c
      <3>1. PICK x \in I(1), y \in I(2), z \in I(3) : c = <<x, y, z>>
        BY <1>2
      <3>2. <<<<x, y>>, z>> \in S
        OBVIOUS
      <3>3. f[<<<<x, y>>, z>>] = c
        BY <3>1, <3>2
      <3> QED
        BY <3>2, <3>3
    <2> QED
      BY <2>1, <2>2 DEF Surjection
  <1> HIDE DEF S, f
  <1> QED
    BY <1>3, <1>4, FS_Surjection

\* When the queue is empty every live node is closed, none is the end, and no
\* free cell beside one is missing: the live cells are all there is.
LEMMA NothingMissed ==
  ASSUME SearchInv
  PROVE  FailureIsHonest
  <1> SUFFICES ASSUME stage = "failed", why = "exhausted"
               PROVE  end_idx \notin DOMAIN TrueCosts
    BY DEF FailureIsHonest
  <1> DEFINE C == Now(pool)
             inner == {c \in Cells : c = start_idx \/ Inner(c)}
             moves == [c \in inner |-> FreeMoves(c)]
  <1>1. /\ IsScene(scene) /\ Searching /\ openSet_anchor = <<>>
    BY DEF SearchInv
  <1>2. /\ IsPool(pool, rounds)
        /\ Queued(pool, openSet_anchor, openSet_inadmis, C)
        /\ Linked(pool, C, start_idx, Prices)
        /\ Expanded(pool, C, end_idx, FreeCells, {})
    BY <1>1 DEF Searching, Sound, Now
  <1>3. \A c \in C : Closed(pool, c)
    BY <1>1, <1>2 DEF Queued, ToSet
  <1>4. /\ end_idx \notin C /\ start_idx \in C
        /\ \A c \in C : \A o \in Offsets :
             Plus(c, o) \in FreeCells => Plus(c, o) \in C
    BY <1>2, <1>3 DEF Expanded, Linked
  <1>5. C \subseteq Cells /\ \A c \in C : c = start_idx \/ Inner(c)
    BY <1>2 DEF Now, Live, IsPool, FreeCells
  <1> HIDE DEF C
  <1>6. ASSUME NEW c \in C, NEW x \in DOMAIN FreeMoves(c)
        PROVE  x \in C /\ FreeMoves(c)[x] \in Nat
    <2>1. /\ \E o \in Offsets : x = Plus(c, o)
          /\ Inner(x) /\ ~ Gated(Index2Coord(x))
          /\ FreeMoves(c)[x] = StepCost(Minus(x, c)) * (1 + RiskCost(Index2Coord(x)))
      BY DEF FreeMoves
    <2>2. PICK o \in Offsets : x = Plus(c, o)
      BY <2>1
    <2>3. x \in FreeCells /\ Minus(x, c) = o
      BY <1>5, <2>1, <2>2, Neighbours DEF FreeCells
    <2>4. x \in C
      BY <1>4, <2>2, <2>3
    <2>5. StepCost(o) \in Nat /\ RiskCost(Index2Coord(x)) \in Nat
      BY <1>1, StepCosts, RiskCosts
    <2> QED
      BY <2>1, <2>3, <2>4, <2>5
  <1>7. /\ DOMAIN moves = inner /\ C \subseteq inner /\ inner \subseteq Cells
        /\ \A c \in C : moves[c] = FreeMoves(c)
    BY <1>5
  <1>8. TrueCosts = Cheapest(start_idx, moves)
    BY DEF TrueCosts, Cells
  <1> HIDE DEF moves, inner
  <1>9. IsFiniteSet(DOMAIN moves) /\ C \subseteq DOMAIN moves
    BY <1>7, CellsAreFinite, FS_Subset
  <1>10. \A c \in C : \A x \in DOMAIN moves[c] : x \in C /\ moves[c][x] \in Nat
    BY <1>6, <1>7
  <1>11. DOMAIN Cheapest(start_idx, moves) \subseteq C
    BY <1>4, <1>9, <1>10, NoWayOut
  <1> QED
    BY <1>4, <1>8, <1>11

-----------------------------------------------------------------------------
(***************************************************************************)
(* Roots and arrival times.                                                *)
(***************************************************************************)

\* A number is at least once in itself and in every larger one.
LEMMA Quotient ==
  ASSUME NEW n \in Nat, NEW r \in 1..n
  PROVE  n \div r \in Nat \ {0}
  OBVIOUS

\* The integer square root is a natural number, and at least two from four on.
LEMMA Rooted ==
  ASSUME NEW n \in Nat
  PROVE  Root(n) \in Nat /\ (n >= 4 => Root(n) >= 2)
  <1> DEFINE Less(r) == (r + n \div r) \div 2
             Loop(f, m) ==
               f = [r \in 1..m |-> IF Less(r) >= r THEN r ELSE f[Less(r)]]
             newton == CHOOSE f : Loop(f, n)
  <1>1. Root(n) = IF n = 0 THEN 0 ELSE newton[n]
    BY DEF Root
  <1>2. ASSUME NEW r \in 1..n
        PROVE  /\ Less(r) \in Nat \ {0}
               /\ n >= 4 /\ r >= 2 => Less(r) >= 2
    <2> DEFINE q == n \div r
    <2>1. q \in Nat \ {0}
      BY Quotient
    <2>2. n >= 4 /\ r = 2 => q >= 2
      OBVIOUS
    <2> HIDE DEF q
    <2>3. (r + q) \div 2 \in Nat \ {0}
      BY <2>1
    <2>4. n >= 4 /\ r >= 2 => (r + q) \div 2 >= 2
      BY <2>1, <2>2
    <2> QED
      BY <2>3, <2>4 DEF q
  <1> HIDE DEF Less
  <1>3. \E f : Loop(f, n)
    <2> DEFINE G == {m \in 0..n : \E f : Loop(f, m)}
    <2>1. 0 \in G
      <3>1. Loop([r \in 1..0 |-> r], 0)
        OBVIOUS
      <3> HIDE DEF Loop
      <3> QED
        BY <3>1
    <2>2. ASSUME NEW m \in 1..n, m - 1 \in G
          PROVE  m \in G
      <3>1. PICK f : Loop(f, m - 1)
        BY <2>2
      <3> DEFINE g == [r \in 1..m |-> IF r = m
                                        THEN IF Less(m) >= m THEN m ELSE f[Less(m)]
                                        ELSE f[r]]
      <3>2. ASSUME NEW r \in 1..m
            PROVE  g[r] = IF Less(r) >= r THEN r ELSE g[Less(r)]
        <4>1. Less(r) \in Nat \ {0}
          BY <1>2
        <4>2. Less(r) < r => g[Less(r)] = f[Less(r)]
          BY <4>1
        <4>3. r # m => f[r] = IF Less(r) >= r THEN r ELSE f[Less(r)]
          BY <3>1
        <4> QED
          BY <4>1, <4>2, <4>3
      <3>3. Loop(g, m)
        BY <3>2
      <3> HIDE DEF Loop
      <3> QED
        BY <2>2, <3>3
    <2> HIDE DEF G
    <2>3. n \in G
      <3>1. \A m \in 0..n : m \in G
        BY <2>1, <2>2, UpTo
      <3> QED
        BY <3>1
    <2> QED
      BY <2>3 DEF G
  <1>4. Loop(newton, n)
    <2> HIDE DEF Loop
    <2> QED
      BY <1>3
  <1>5. \A r \in 1..n : newton[r] = IF Less(r) >= r THEN r ELSE newton[Less(r)]
    BY <1>4
  <1> HIDE DEF newton
  <1> DEFINE Good(r) == newton[r] \in Nat /\ (n >= 4 /\ r >= 2 => newton[r] >= 2)
             G == {m \in 0..n : \A r \in 1..m : Good(r)}
  <1>6. 0 \in G
    OBVIOUS
  <1>7. ASSUME NEW m \in 1..n, m - 1 \in G
        PROVE  m \in G
    <2>1. \A r \in 1..(m - 1) : Good(r)
      BY <1>7
    <2>2. Less(m) >= m \/ Less(m) \in 1..(m - 1)
      BY <1>2
    <2>3. Good(m)
      BY <1>2, <1>5, <2>1, <2>2
    <2> HIDE DEF Good
    <2>4. \A r \in 1..m : Good(r)
      BY <2>1, <2>3
    <2> QED
      BY <2>4
  <1>8. n \in G
    <2> HIDE DEF G
    <2>1. \A m \in 0..n : m \in G
      BY <1>6, <1>7, UpTo
    <2> QED
      BY <2>1
  <1> QED
    BY <1>1, <1>8

\* The earliest time of some.
LEMMA Earliest ==
  ASSUME NEW S \in SUBSET Nat, S # {}
  PROVE  Min(S) \in S /\ \A k \in S : Min(S) <= k
  BY LeastOf DEF Min

\* What is left under the root of two times not further apart than a cell.
LEMMA UnderTheRoot ==
  ASSUME NEW u \in Nat, NEW d \in Nat, d < u, u >= 2
  PROVE  2 * u * u - d * d \in Nat /\ 2 * u * u - d * d >= 4
  <1>1. d * d \in Nat /\ u * u \in Nat
    OBVIOUS
  <1>2. d * d <= u * u
    OBVIOUS
  <1>3. u * u >= 4
    OBVIOUS
  <1>4. 2 * u * u = 2 * (u * u)
    OBVIOUS
  <1> QED
    BY <1>1, <1>2, <1>3, <1>4

\* The update is later than one of the two times it is made from.
LEMMA EikSolveLater ==
  ASSUME NEW a \in Nat, NEW b \in Nat, NEW slow \in Nat \ {0}
  PROVE  /\ EikSolve({a, b}, slow) \in Nat
         /\ EikSolve({a, b}, slow) > a \/ EikSolve({a, b}, slow) > b
  <1> DEFINE m0 == Min({a, b})
             m1 == Max({a, b})
             u == 100 * slow
             d == m1 - m0
             one == Cardinality({a, b}) = 1
             root == Root(2 * u * u - d * d)
  <1>1. EikSolve({a, b}, slow) = IF one \/ d >= u THEN m0 + u
                                 ELSE m0 + (d + root) \div 2
    BY DEF EikSolve
  <1>2. m0 \in {a, b} /\ m0 <= a /\ m0 <= b
    BY DEF Min
  <1>3. m1 \in {a, b} /\ m1 >= a /\ m1 >= b
    BY DEF Max
  <1>4. u \in Nat /\ u >= 100
    OBVIOUS
  <1> HIDE DEF m0, m1, u, one
  <1>5. d \in Nat
    BY <1>2, <1>3
  <1>6. d < u => root \in Nat /\ root >= 2
    <2> HIDE DEF d
    <2> QED
      BY <1>4, <1>5, UnderTheRoot, Rooted
  <1> HIDE DEF root, d
  <1>7. ~(d >= u) => (d + root) \div 2 \in Nat \ {0}
    BY <1>4, <1>5, <1>6
  <1> QED
    BY <1>1, <1>2, <1>4, <1>5, <1>7

\* So is the time of a cell that has a frozen neighbour.
LEMMA SolveQuadLater ==
  ASSUME NEW c, NEW T, NEW frozen, \A k \in frozen : T[k] \in Nat,
         NEW slow \in Nat \ {0}, \E o \in Steps4 : Move(c, o) \in frozen
  PROVE  /\ SolveQuad(c, T, frozen, slow) \in Nat
         /\ \E o \in Steps4 : /\ Move(c, o) \in frozen
                              /\ T[Move(c, o)] < SolveQuad(c, T, frozen, slow)
  <1> DEFINE Axis(o, p) == {T[n] : n \in {Move(c, o), Move(c, p)} \cap frozen}
             x == Axis(<<1, 0>>, <<-1, 0>>)
             z == Axis(<<0, 1>>, <<0, -1>>)
             mx == IF x = {} THEN Min(z) ELSE Min(x)
             mz == IF z = {} THEN Min(x) ELSE Min(z)
             both == x # {} /\ z # {}
             t == SolveQuad(c, T, frozen, slow)
             From(v) == \E o \in Steps4 : Move(c, o) \in frozen /\ v = T[Move(c, o)]
  <1>1. AxisTimes(c, T, frozen) = <<mx, mz, both>>
    BY DEF AxisTimes
  <1> HIDE DEF mx, mz, both
  <1>2. t = IF both /\ mx = mz THEN mx + Root(20000 * slow * slow) \div 2
            ELSE EikSolve(IF both THEN {mx, mz} ELSE {mx}, slow)
    <2> DEFINE m == AxisTimes(c, T, frozen)
    <2>1. m[1] = mx /\ m[2] = mz /\ m[3] = both
      BY <1>1
    <2> HIDE DEF m
    <2>2. t = IF m[3] /\ m[1] = m[2] THEN m[1] + Root(20000 * slow * slow) \div 2
              ELSE EikSolve(IF m[3] THEN {m[1], m[2]} ELSE {m[1]}, slow)
      BY DEF SolveQuad, m
    <2> QED
      BY <2>1, <2>2
  <1> HIDE DEF t
  <1>3. /\ x = {T[n] : n \in {Move(c, <<1, 0>>), Move(c, <<-1, 0>>)} \cap frozen}
        /\ z = {T[n] : n \in {Move(c, <<0, 1>>), Move(c, <<0, -1>>)} \cap frozen}
    OBVIOUS
  <1> HIDE DEF x, z
  <1>4. x \in SUBSET Nat /\ z \in SUBSET Nat
    BY <1>3
  <1>5. \A v \in x \cup z : From(v)
    BY <1>3 DEF Steps4
  <1>6. x \cup z # {}
    BY <1>3 DEF Steps4
  <1>7. mx \in x \cup z /\ mz \in x \cup z
    BY <1>4, <1>6, Earliest DEF mx, mz
  <1>8. mx \in Nat /\ mz \in Nat
    BY <1>4, <1>7
  <1>9. t \in Nat /\ (t > mx \/ t > mz)
    <2>1. Root(20000 * slow * slow) \div 2 \in Nat \ {0}
      <3> DEFINE n == 20000 * slow * slow
                 r == Root(n)
      <3>1. slow * slow \in Nat \ {0}
        OBVIOUS
      <3>2. n = 20000 * (slow * slow)
        OBVIOUS
      <3>3. n \in Nat /\ n >= 4
        BY <3>1, <3>2
      <3> HIDE DEF n
      <3>4. r \in Nat /\ r >= 2
        BY <3>3, Rooted
      <3> HIDE DEF r
      <3>5. r \div 2 \in Nat \ {0}
        BY <3>4
      <3> QED
        BY <3>5 DEF r, n
    <2>2. EikSolve({mx, mz}, slow) \in Nat /\ (EikSolve({mx, mz}, slow) > mx
                                              \/ EikSolve({mx, mz}, slow) > mz)
      BY <1>8, EikSolveLater
    <2>3. EikSolve({mx}, slow) \in Nat /\ EikSolve({mx}, slow) > mx
      <3>1. {mx} = {mx, mx}
        OBVIOUS
      <3> QED
        BY <1>8, <3>1, EikSolveLater
    <2> DEFINE half == Root(20000 * slow * slow) \div 2
    <2>4. half \in Nat \ {0}
      BY <2>1
    <2> HIDE DEF half
    <2>5. t = IF both /\ mx = mz THEN mx + half
              ELSE EikSolve(IF both THEN {mx, mz} ELSE {mx}, slow)
      BY <1>2 DEF half
    <2> QED
      BY <1>8, <2>2, <2>3, <2>4, <2>5
  <1> QED
    BY <1>5, <1>7, <1>9 DEF t

-----------------------------------------------------------------------------
(***************************************************************************)
(* The march.                                                              *)
(***************************************************************************)

\* A field that falls towards the goal: every other cell that was reached has
\* a neighbour that was reached earlier.
Falls(T) ==
  /\ DOMAIN T \subseteq Grid
  /\ \A c \in DOMAIN T : T[c] \in Nat
  /\ \A c \in DOMAIN T \ {CellOf(scene.goal)} :
       \E n \in Around(c) \cap DOMAIN T : T[n] < T[c]

\* The grid is finite, and its cells are pairs of numbers.
LEMMA GridIsFinite ==
  ASSUME IsScene(scene)
  PROVE  IsFiniteSet(Grid) /\ \A c \in Grid : c[1] \in Int /\ c[2] \in Int
  <1> DEFINE a == scene.size[1] - 1
             b == scene.size[3] - 1
  <1>1. a \in Int /\ b \in Int /\ 0 \in Int
    BY DEF IsScene
  <1>2. Grid = (0..a) \X (0..b)
    BY DEF Grid
  <1> HIDE DEF a, b
  <1>3. IsFiniteSet(0..a) /\ IsFiniteSet(0..b)
    BY <1>1, FS_Interval
  <1>4. IsFiniteSet((0..a) \X (0..b))
    BY <1>3, FS_Product
  <1> QED
    BY <1>1, <1>2, <1>4

\* Distances are natural numbers.
LEMMA Distances ==
  ASSUME NEW c, c[1] \in Int, c[2] \in Int, NEW d, d[1] \in Int, d[2] \in Int
  PROVE  Distance(c, d) \in Nat
  <1> DEFINE x == c[1] - d[1]
             z == c[2] - d[2]
             n == 10000 * (x * x + z * z)
  <1>1. x \in Int /\ z \in Int
    OBVIOUS
  <1>2. Distance(c, d) = Root(n)
    BY DEF Distance
  <1> HIDE DEF x, z
  <1>3. x * x \in Nat /\ z * z \in Nat
    BY <1>1
  <1>4. n \in Nat
    BY <1>3
  <1> QED
    BY <1>2, <1>4, Rooted

\* The field the march leaves falls towards the goal, wherever it stops: a
\* time is given to a cell from frozen neighbours, is later than one of them,
\* and frozen times never change.
LEMMA MarchFalls ==
  ASSUME IsScene(scene), fm2_F \in [Grid -> Nat], CellOf(scene.goal) \in Grid,
         NEW star \in BOOLEAN
  PROVE  Falls(March(star))
  <1> DEFINE goal == CellOf(scene.goal)
             start == CellOf(scene.start)
             Slow(c) == IF c = goal /\ fm2_F[c] \in {0, BlockedSlow} THEN 2 ELSE fm2_F[c]
             Key(T, c) == T[c] + IF star THEN Distance(c, start) ELSE 0
             Next1(w) == CHOOSE x \in w.open : \A y \in w.open : Key(w.T, x) <= Key(w.T, y)
             Freeze(w, c) ==
               LET now == w.frozen \cup {c}
                   Time(n) == SolveQuad(n, w.T, now, Slow(n))
                   better == {n \in Around(c) \ now :
                                /\ Slow(n) > 0
                                /\ n \in DOMAIN w.T => Time(n) < w.T[n]}
               IN [T |-> [n \in DOMAIN w.T \cup better |->
                            IF n \in better THEN Time(n) ELSE w.T[n]],
                   frozen |-> now, open |-> (w.open \ {c}) \cup better]
             N == Cardinality(Grid)
             First == [T |-> [x \in {goal} |-> 0], frozen |-> {}, open |-> {goal}]
             Then(w) == IF w.open = {} \/ (star /\ Next1(w) = start) THEN w
                        ELSE Freeze(w, Next1(w))
             Loop(f, m) ==
               f = [n \in 0..m |-> IF n = 0 THEN First ELSE Then(f[n - 1])]
             wave == CHOOSE f :
               f = [n \in 0..N |->
                      IF n = 0 THEN First
                      ELSE LET w == f[n - 1]
                           IN IF w.open = {} \/ (star /\ Next1(w) = start) THEN w
                              ELSE Freeze(w, Next1(w))]
             Good(w) ==
               /\ DOMAIN w.T \subseteq Grid
               /\ w.open \subseteq DOMAIN w.T /\ w.frozen \subseteq DOMAIN w.T
               /\ \A c \in DOMAIN w.T : w.T[c] \in Nat
               /\ \A c \in DOMAIN w.T \ {goal} :
                    \E n \in Around(c) \cap w.frozen : w.T[n] < w.T[c]
  <1>0. N \in Nat
    BY GridIsFinite, FS_CardinalityType
  <1>1. March(star) = wave[N].T
    BY DEF March
  <1>2. wave = CHOOSE f : Loop(f, N)
    OBVIOUS
  <1> HIDE DEF N, wave
  <1>3. goal \in Grid /\ start[1] \in Int /\ start[2] \in Int
    BY DEF CellOf, IsScene, Axes3
  <1>4. \A c \in Grid : Slow(c) \in Nat
    OBVIOUS
  <1> HIDE DEF goal, start, Slow
  <1>5. ASSUME NEW w, Good(w), w.open # {}
        PROVE  Next1(w) \in w.open
    <2> DEFINE S == {Key(w.T, x) : x \in w.open}
    <2>1. \A x \in w.open : Key(w.T, x) \in Nat
      <3> SUFFICES ASSUME NEW x \in w.open PROVE Key(w.T, x) \in Nat
        OBVIOUS
      <3>1. w.T[x] \in Nat /\ x \in Grid
        BY <1>5
      <3>2. Distance(x, start) \in Nat
        BY <1>3, <3>1, GridIsFinite, Distances
      <3> QED
        BY <3>1, <3>2
    <2> HIDE DEF Key
    <2>2. S \in SUBSET Nat /\ S # {}
      BY <1>5, <2>1
    <2>3. PICK m \in S : \A k \in S : m <= k
      <3> HIDE DEF S
      <3> QED
        BY <2>2, LeastOf
    <2>4. \E x \in w.open : \A y \in w.open : Key(w.T, x) <= Key(w.T, y)
      BY <2>3
    <2> HIDE DEF Good
    <2> QED
      BY <2>4
  <1> HIDE DEF Next1
  <1>6. ASSUME NEW w, Good(w), NEW c \in w.open
        PROVE  Good(Freeze(w, c))
    <2> DEFINE now == w.frozen \cup {c}
               Time(n) == SolveQuad(n, w.T, now, Slow(n))
               better == {n \in Around(c) \ now :
                            /\ Slow(n) > 0
                            /\ n \in DOMAIN w.T => Time(n) < w.T[n]}
               T == [n \in DOMAIN w.T \cup better |->
                       IF n \in better THEN Time(n) ELSE w.T[n]]
               open == (w.open \ {c}) \cup better
    <2>1. Freeze(w, c) = [T |-> T, frozen |-> now, open |-> open]
      OBVIOUS
    <2>2. now \subseteq DOMAIN w.T /\ now \subseteq Grid
      BY <1>6
    <2>3. \A k \in now : w.T[k] \in Nat
      BY <1>6, <2>2
    <2>4. better \subseteq Grid /\ better \cap now = {}
      BY DEF Around
    <2>5. ASSUME NEW n \in better
          PROVE  /\ Time(n) \in Nat
                 /\ \E k \in Around(n) \cap now : w.T[k] < Time(n)
      <3>1. n \in Around(c) /\ Slow(n) \in Nat \ {0}
        <4>1. n \in Around(c) /\ Slow(n) > 0
          OBVIOUS
        <4>2. n \in Grid
          BY <2>4
        <4>3. Slow(n) \in Nat
          BY <1>4, <4>2
        <4> HIDE DEF Slow
        <4> QED
          BY <4>1, <4>3
      <3>2. \E o \in Steps4 : Move(n, o) = c
        <4>1. PICK o \in Steps4 : n = Move(c, o)
          BY <3>1 DEF Around
        <4>2. c \in Grid
          BY <2>2
        <4>3. PICK i \in Int, k \in Int : c = <<i, k>>
          BY <4>2 DEF Grid
        <4> QED
          BY <4>1, <4>3 DEF Steps4, Move
      <3>3. \E o \in Steps4 : Move(n, o) \in now
        BY <3>2
      <3> HIDE DEF now
      <3>4. /\ Time(n) \in Nat
            /\ \E o \in Steps4 : Move(n, o) \in now /\ w.T[Move(n, o)] < Time(n)
        BY <2>3, <3>1, <3>3, SolveQuadLater
      <3> QED
        BY <2>2, <3>4 DEF Around
    <2> HIDE DEF now, Time, better, Freeze
    <2>6. DOMAIN T = DOMAIN w.T \cup better
      OBVIOUS
    <2>7. \A n \in better : T[n] = Time(n)
      OBVIOUS
    <2>8. \A n \in DOMAIN w.T \ better : T[n] = w.T[n]
      OBVIOUS
    <2> HIDE DEF T
    <2>9. DOMAIN T \subseteq Grid /\ open \subseteq DOMAIN T /\ now \subseteq DOMAIN T
      BY <1>6, <2>2, <2>4, <2>6
    <2>10. \A n \in DOMAIN T : T[n] \in Nat
      BY <1>6, <2>5, <2>6, <2>7, <2>8
    <2>11. \A k \in now : T[k] = w.T[k]
      BY <2>2, <2>4, <2>8
    <2>12. ASSUME NEW x \in DOMAIN T \ {goal}
           PROVE  \E n \in Around(x) \cap now : T[n] < T[x]
      <3>1. CASE x \in better
        BY <2>5, <2>7, <2>11, <3>1
      <3>2. CASE x \notin better
        <4>1. x \in DOMAIN w.T \ {goal} /\ T[x] = w.T[x]
          BY <2>6, <2>8, <3>2
        <4>2. PICK n \in Around(x) \cap w.frozen : w.T[n] < w.T[x]
          BY <1>6, <4>1
        <4>3. n \in now
          BY <4>2 DEF now
        <4> QED
          BY <2>11, <4>1, <4>2, <4>3
      <3> QED
        BY <3>1, <3>2
    <2> HIDE DEF open
    <2> QED
      BY <2>1, <2>9, <2>10, <2>12
  <1> HIDE DEF Freeze
  <1>7. Good(First)
    BY <1>3
  <1>8. ASSUME NEW w, Good(w)
        PROVE  Good(Then(w))
    <2>1. w.open # {} => Next1(w) \in w.open
      BY <1>5, <1>8
    <2> HIDE DEF Good
    <2> QED
      BY <1>6, <1>8, <2>1
  <1> HIDE DEF First, Then
  <1>9. \E f : Loop(f, N)
    <2> DEFINE G == {m \in 0..N : \E f : Loop(f, m)}
    <2>1. 0 \in G
      <3>1. Loop([n \in 0..0 |-> First], 0)
        OBVIOUS
      <3> HIDE DEF Loop
      <3> QED
        BY <1>0, <3>1
    <2>2. ASSUME NEW m \in 1..N, m - 1 \in G
          PROVE  m \in G
      <3>1. PICK f : Loop(f, m - 1)
        BY <2>2
      <3> DEFINE g == [n \in 0..m |-> IF n = m THEN Then(f[m - 1]) ELSE f[n]]
      <3>2. ASSUME NEW n \in 0..m
            PROVE  g[n] = IF n = 0 THEN First ELSE Then(g[n - 1])
        <4>1. n # 0 => g[n - 1] = f[n - 1]
          BY <1>0
        <4>2. n # m => f[n] = IF n = 0 THEN First ELSE Then(f[n - 1])
          BY <1>0, <3>1
        <4> QED
          BY <1>0, <4>1, <4>2
      <3>3. Loop(g, m)
        BY <3>2
      <3> HIDE DEF Loop
      <3> QED
        BY <1>0, <2>2, <3>3
    <2> HIDE DEF G
    <2>3. \A m \in 0..N : m \in G
      BY <1>0, <2>1, <2>2, UpTo
    <2>4. N \in G
      BY <1>0, <2>3
    <2> QED
      BY <2>4 DEF G
  <1>10. \A n \in 0..N : wave[n] = IF n = 0 THEN First ELSE Then(wave[n - 1])
    <2>1. Loop(wave, N)
      <3> HIDE DEF Loop
      <3> QED
        BY <1>2, <1>9 DEF Then
    <2> QED
      BY <2>1
  <1> HIDE DEF Good
  <1> DEFINE G == {n \in 0..N : Good(wave[n])}
  <1>11. 0 \in G
    BY <1>0, <1>7, <1>10
  <1>12. ASSUME NEW n \in 1..N, n - 1 \in G
         PROVE  n \in G
    <2>1. wave[n] = Then(wave[n - 1])
      BY <1>0, <1>10
    <2> QED
      BY <1>8, <1>12, <2>1
  <1>13. N \in G
    <2> HIDE DEF G
    <2>1. \A n \in 0..N : n \in G
      BY <1>0, <1>11, <1>12, UpTo
    <2> QED
      BY <1>0, <2>1
  <1>14. Good(wave[N])
    BY <1>13
  <1> QED
    BY <1>1, <1>14 DEF Good, Falls, goal

-----------------------------------------------------------------------------
(***************************************************************************)
(* The descent.                                                            *)
(***************************************************************************)

\* A quotient of naturals.
LEMMA QuotientIsNat ==
  ASSUME NEW m \in Nat, NEW n \in Nat \ {0}
  PROVE  m \div n \in Nat
  OBVIOUS

\* The greater and the less of two.
LEMMA OfTwo ==
  ASSUME NEW a \in Int, NEW b \in Int
  PROVE  /\ Max({a, b}) = IF a >= b THEN a ELSE b
         /\ Min({a, b}) = IF a <= b THEN a ELSE b
  BY DEF Max, Min

\* A sum of naturals is nothing when each of them is.
LEMMA SumOfFour ==
  ASSUME NEW a \in Nat, NEW b \in Nat, NEW c \in Nat, NEW d \in Nat
  PROVE  /\ a + b + c + d \in Nat
         /\ a + b + c + d # 0 <=> a # 0 \/ b # 0 \/ c # 0 \/ d # 0
  OBVIOUS

\* Numbers of the same half are next to each other.
LEMMA SameHalf ==
  ASSUME NEW a \in Int, NEW b \in Int, a \div 2 = b \div 2
  PROVE  b - a \in -1..1
  OBVIOUS

\* What the descent stands on: the times of a falling field over a grid with
\* numbers for cells.
Field ==
  /\ IsScene(scene)
  /\ Falls(fm2_T)
  /\ CellOf(scene.goal) \in Grid

LEMMA FieldTimes ==
  ASSUME Field
  PROVE  \A c : Reached(c) => /\ c \in Grid /\ fm2_T[c] \in Nat
                              /\ c[1] \in Int /\ c[2] \in Int
                              /\ 0 <= c[2] /\ c[2] < scene.size[3]
                              /\ scene.size[3] \in Nat
  <1> SUFFICES ASSUME NEW c, Reached(c)
               PROVE  /\ c \in Grid /\ fm2_T[c] \in Nat
                      /\ c[1] \in Int /\ c[2] \in Int
                      /\ 0 <= c[2] /\ c[2] < scene.size[3]
                      /\ scene.size[3] \in Nat
    OBVIOUS
  <1>1. c \in Grid /\ fm2_T[c] \in Nat
    BY DEF Reached, Field, Falls
  <1>2. scene.size[1] \in Nat /\ scene.size[3] \in Nat
    BY DEF Field, IsScene
  <1>3. PICK i \in 0..(scene.size[1] - 1), k \in 0..(scene.size[3] - 1) : c = <<i, k>>
    BY <1>1 DEF Grid
  <1> QED
    BY <1>1, <1>2, <1>3

\* A cell centre less than a pitch off along both axes.
NearCell(q, c) == Abs(q[1] - 4 * c[1] - 2) < 4 /\ Abs(q[2] - 4 * c[2] - 2) < 4

\* A corner weighs something exactly when it was reached and is near.
LEMMA CornerWeighs ==
  ASSUME Field, NEW q, NEW c, q[1] \in Int, q[2] \in Int, c[1] \in Int, c[2] \in Int,
         Abs(q[1] - 4 * c[1] - 2) <= 4, Abs(q[2] - 4 * c[2] - 2) <= 4
  PROVE  /\ Corner(q, c)[1] \in Nat /\ Corner(q, c)[2] \in Nat
         /\ Corner(q, c)[1] # 0 <=> Reached(c) /\ NearCell(q, c)
  <1> DEFINE a == 4 - Abs(q[1] - 4 * c[1] - 2)
             b == 4 - Abs(q[2] - 4 * c[2] - 2)
  <1>1. a \in 0..4 /\ b \in 0..4
    <2>1. \A n \in Int : Abs(n) <= 4 => 4 - Abs(n) \in 0..4
      BY DEF Abs
    <2>2. q[1] - 4 * c[1] - 2 \in Int /\ q[2] - 4 * c[2] - 2 \in Int
      OBVIOUS
    <2> QED
      BY <2>1, <2>2
  <1>2. NearCell(q, c) <=> a # 0 /\ b # 0
    BY <1>1 DEF NearCell, Abs
  <1>3. Corner(q, c) = IF Reached(c) THEN <<a * b, a * b * fm2_T[c]>> ELSE <<0, 0>>
    BY DEF Corner
  <1> HIDE DEF a, b
  <1>4. a * b \in Nat /\ (a * b # 0 <=> a # 0 /\ b # 0)
    BY <1>1
  <1>5. CASE Reached(c)
    <2>1. fm2_T[c] \in Nat
      BY <1>5, FieldTimes
    <2> DEFINE w == a * b
    <2>2. w \in Nat /\ Corner(q, c) = <<w, w * fm2_T[c]>>
      BY <1>3, <1>4, <1>5
    <2>3. w * fm2_T[c] \in Nat
      BY <2>1, <2>2
    <2> HIDE DEF w
    <2>4. Corner(q, c)[1] = w /\ Corner(q, c)[2] = w * fm2_T[c]
      BY <2>2
    <2> QED
      BY <1>2, <1>4, <1>5, <2>2, <2>3, <2>4 DEF w
  <1>6. CASE ~ Reached(c)
    BY <1>3, <1>6
  <1> QED
    BY <1>5, <1>6

\* There is a sample exactly where a reached cell is near.
LEMMA SampleNear ==
  ASSUME Field, NEW q, q[1] \in Int, q[2] \in Int
  PROVE  /\ SampleT(q) \in Nat \cup {NoSample}
         /\ SampleT(q) # NoSample <=> \E c : Reached(c) /\ NearCell(q, c)
  <1> DEFINE i == (q[1] - 2) \div 4
             k == (q[2] - 2) \div 4
             A == Corner(q, <<i, k>>)
             B == Corner(q, <<i + 1, k>>)
             C == Corner(q, <<i, k + 1>>)
             D == Corner(q, <<i + 1, k + 1>>)
             w == A[1] + B[1] + C[1] + D[1]
             t == A[2] + B[2] + C[2] + D[2]
             near == {<<i, k>>, <<i + 1, k>>, <<i, k + 1>>, <<i + 1, k + 1>>}
  <1>1. i \in Int /\ k \in Int /\ 4 * i <= q[1] - 2 /\ q[1] - 2 < 4 * i + 4
        /\ 4 * k <= q[2] - 2 /\ q[2] - 2 < 4 * k + 4
    OBVIOUS
  <1>2. SampleT(q) = IF w = 0 THEN NoSample ELSE (16 * t) \div w
    BY DEF SampleT, Blend
  <1> HIDE DEF i, k
  <1>3. \A c \in near : /\ Corner(q, c)[1] \in Nat /\ Corner(q, c)[2] \in Nat
                        /\ Corner(q, c)[1] # 0 <=> Reached(c) /\ NearCell(q, c)
    <2> TAKE c \in near
    <2>1. /\ c[1] \in {i, i + 1} /\ c[2] \in {k, k + 1}
      OBVIOUS
    <2>2. Abs(q[1] - 4 * c[1] - 2) <= 4 /\ Abs(q[2] - 4 * c[2] - 2) <= 4
      BY <1>1, <2>1 DEF Abs
    <2> QED
      BY <1>1, <2>1, <2>2, CornerWeighs
  <1>4. /\ A[1] \in Nat /\ B[1] \in Nat /\ C[1] \in Nat /\ D[1] \in Nat
        /\ A[2] \in Nat /\ B[2] \in Nat /\ C[2] \in Nat /\ D[2] \in Nat
    BY <1>3
  <1>5. w # 0 <=> \E c \in near : Reached(c) /\ NearCell(q, c)
    <2>1. w # 0 <=> A[1] # 0 \/ B[1] # 0 \/ C[1] # 0 \/ D[1] # 0
      <3> DEFINE m == A[1]
                 n == B[1]
                 o == C[1]
                 r == D[1]
      <3>1. m \in Nat /\ n \in Nat /\ o \in Nat /\ r \in Nat
        BY <1>4
      <3>2. w = m + n + o + r
        OBVIOUS
      <3> HIDE DEF m, n, o, r, w
      <3>3. w # 0 <=> m # 0 \/ n # 0 \/ o # 0 \/ r # 0
        BY <3>1, <3>2, SumOfFour
      <3> QED
        BY <3>3 DEF m, n, o, r
    <2>2. w # 0 <=> \E c \in near : Corner(q, c)[1] # 0
      BY <2>1
    <2> HIDE DEF w
    <2> QED
      BY <1>3, <2>2
  <1>6. \A c : Reached(c) /\ NearCell(q, c) => c \in near
    <2> SUFFICES ASSUME NEW c, Reached(c), NearCell(q, c) PROVE c \in near
      OBVIOUS
    <2>1. c[1] \in Int /\ c[2] \in Int /\ c \in Grid
      BY FieldTimes
    <2>2. c[1] \in {i, i + 1} /\ c[2] \in {k, k + 1}
      BY <1>1, <2>1 DEF NearCell, Abs
    <2>3. c = <<c[1], c[2]>>
      BY <2>1 DEF Grid
    <2> QED
      BY <2>2, <2>3
  <1> HIDE DEF A, B, C, D
  <1>7. w \in Nat /\ t \in Nat
    BY <1>4
  <1> HIDE DEF w, t
  <1>8. w # 0 => (16 * t) \div w \in Nat
    BY <1>7, QuotientIsNat
  <1> QED
    BY <1>2, <1>5, <1>6, <1>8 DEF NoSample

\* Clamping a height does not lose a sample: within half a cell of the edge
\* the nearest row is the only one.
LEMMA ClampKeeps ==
  ASSUME Field, NEW p, p[1] \in Int, p[3] \in Int, TimeAt(p) # NoSample
  PROVE  TimeAt(Shifted(p, <<0, 0>>)) # NoSample
  <1> DEFINE q == Quarters(p)
             r == Quarters(Shifted(p, <<0, 0>>))
             top == 2 * scene.size[3] - 1
             z == ClampZ(p[3], 1)
  <1>1. q[1] \in Int /\ q[2] \in Int /\ q[1] = 2 * p[1] /\ q[2] = 2 * p[3]
    BY DEF Quarters
  <1>2. PICK c : Reached(c) /\ NearCell(q, c)
    BY <1>1, SampleNear DEF TimeAt
  <1>3. /\ c[1] \in Int /\ c[2] \in Int /\ 0 <= c[2] /\ c[2] < scene.size[3]
        /\ scene.size[3] \in Nat
    BY <1>2, FieldTimes
  <1>4. z = IF p[3] < 1 THEN 1 ELSE IF p[3] > top THEN top ELSE p[3]
    <2>1. top \in Int /\ top >= 1 /\ 1 * top = top
      BY <1>3
    <2>2. Min({p[3], top}) = IF p[3] <= top THEN p[3] ELSE top
      BY <2>1, OfTwo
    <2> DEFINE m == Min({p[3], top})
    <2>3. m \in Int
      BY <2>1, <2>2
    <2> HIDE DEF m
    <2>4. Max({1, m}) = IF 1 >= m THEN 1 ELSE m
      BY <2>3, OfTwo
    <2>5. z = Max({1, m})
      BY <2>1 DEF ClampZ, m
    <2> HIDE DEF z, top
    <2> QED
      BY <2>1, <2>2, <2>4, <2>5 DEF m
  <1>5. r = <<2 * p[1], 2 * z>> /\ z \in Int
    <2>1. Shifted(p, <<0, 0>>) = <<p[1], 0, z>>
      BY DEF Shifted
    <2> HIDE DEF z
    <2>2. z \in Int
      BY <1>3, <1>4
    <2> QED
      BY <2>1, <2>2 DEF Quarters
  <1> HIDE DEF q, r, z
  <1>6. NearCell(r, c)
    <2>1. Abs(q[1] - 4 * c[1] - 2) < 4 /\ Abs(q[2] - 4 * c[2] - 2) < 4
      BY <1>2 DEF NearCell
    <2>2. Abs(2 * z - 4 * c[2] - 2) < 4
      BY <1>1, <1>3, <1>4, <2>1 DEF Abs
    <2> QED
      BY <1>1, <1>5, <2>1, <2>2 DEF NearCell
  <1>7. r[1] \in Int /\ r[2] \in Int
    BY <1>5
  <1>8. SampleT(r) # NoSample
    BY <1>2, <1>6, <1>7, SampleNear
  <1> QED
    BY <1>8 DEF TimeAt, r

\* A landing in a reached cell is in the blend of that cell.
LEMMA LandingKeeps ==
  ASSUME Field, NEW p, p[3] \in Int, NEW c, Reached(c)
  PROVE  Landing(p, c) \in Int \X {0} \X Int /\ TimeAt(Landing(p, c)) # NoSample
  <1> DEFINE low == 2 * c[2]
             top == 2 * scene.size[3] - 1
             up == low + 1
             m == Min({p[3], up})
             h == Max({low, m})
             l == Min({h, top})
             z == ClampZ(h, 1)
             r == Quarters(Landing(p, c))
  <1>1. /\ c[1] \in Int /\ c[2] \in Int /\ 0 <= c[2] /\ c[2] < scene.size[3]
        /\ scene.size[3] \in Nat
    BY FieldTimes
  <1>2. low \in Int /\ top \in Int /\ 0 <= low /\ low + 1 <= top /\ 1 * top = top
    BY <1>1
  <1>3. m = IF p[3] <= low + 1 THEN p[3] ELSE low + 1
    <2>1. up \in Int
      BY <1>2
    <2> HIDE DEF up
    <2>2. m = IF p[3] <= up THEN p[3] ELSE up
      BY <2>1, OfTwo
    <2> QED
      BY <2>2 DEF up
  <1>4. z = Max({1, l})
    BY <1>2 DEF ClampZ
  <1>5. Landing(p, c) = <<2 * c[1] + 1, 0, z>>
    BY DEF Landing
  <1> HIDE DEF low, top, up, m, z
  <1>6. m \in Int /\ m <= low + 1
    BY <1>2, <1>3
  <1>7. h = IF low >= m THEN low ELSE m
    BY <1>2, <1>6, OfTwo
  <1> HIDE DEF h
  <1>8. h \in {low, low + 1}
    BY <1>2, <1>6, <1>7
  <1>9. l = h
    <2>1. h \in Int /\ h <= top
      BY <1>2, <1>8
    <2> QED
      BY <1>2, <2>1, OfTwo
  <1> HIDE DEF l
  <1>10. z \in {low, low + 1}
    <2>1. h \in Int
      BY <1>2, <1>8
    <2>2. z = IF 1 >= h THEN 1 ELSE h
      BY <1>4, <1>9, <2>1, OfTwo
    <2>3. \E n \in Nat : low = 2 * n
      BY <1>1 DEF low
    <2> QED
      BY <1>2, <1>8, <2>2, <2>3
  <1>11. z \in Int
    BY <1>2, <1>10
  <1>12. r = <<2 * (2 * c[1] + 1), 2 * z>>
    BY <1>5 DEF Quarters
  <1> HIDE DEF r
  <1>13. r[1] = 4 * c[1] + 2 /\ r[2] = 2 * z
    BY <1>1, <1>12
  <1>14. NearCell(r, c)
    BY <1>1, <1>10, <1>13 DEF NearCell, Abs, low
  <1>15. r[1] \in Int /\ r[2] \in Int
    BY <1>1, <1>11, <1>13
  <1>16. SampleT(r) # NoSample
    BY <1>14, <1>15, SampleNear
  <1>17. Landing(p, c) \in Int \X {0} \X Int
    BY <1>1, <1>5, <1>11
  <1> QED
    BY <1>16, <1>17 DEF TimeAt, r

\* A clamped height is a number.
LEMMA ClampIsInt ==
  ASSUME IsScene(scene), NEW h \in Int
  PROVE  ClampZ(h, 1) \in Int
  <1> DEFINE top == 1 * (2 * scene.size[3] - 1)
             l == Min({h, top})
  <1>1. top \in Int
    BY DEF IsScene
  <1> HIDE DEF top
  <1>2. l \in Int
    BY <1>1, OfTwo
  <1> HIDE DEF l
  <1>3. Max({1, l}) \in Int
    BY <1>2, OfTwo
  <1> QED
    BY <1>3 DEF ClampZ, l, top

Positions == {scene.start} \cup (Int \X {0} \X Int)

\* Where a shift leads is a point, whatever the direction.
LEMMA ShiftedIsPoint ==
  ASSUME IsScene(scene), NEW p, p[1] \in Int, p[3] \in Int,
         NEW o, o[1] \in Int, o[2] \in Int
  PROVE  Shifted(p, o) \in Int \X {0} \X Int
  <1>1. ClampZ(p[3] + o[2], 1) \in Int
    BY ClampIsInt
  <1> QED
    BY <1>1 DEF Shifted

LEMMA PointNumbers ==
  ASSUME IsScene(scene), NEW p \in Positions
  PROVE  p[1] \in Int /\ p[3] \in Int
  BY DEF Positions, IsScene, Axes3

\* The directions of the lattice.
LEMMA Directions ==
  ASSUME NEW v
  PROVE  /\ Heading(v)[1] \in Int /\ Heading(v)[2] \in Int
         /\ SlopeLimit(v)[1] \in Int /\ SlopeLimit(v)[2] \in Int
  <1>1. \A n : Sign(n) \in Int /\ -Sign(n) \in Int
    BY DEF Sign
  <1>2. \A u : Heading(u)[1] \in Int /\ Heading(u)[2] \in Int
    <2> TAKE u
    <2>1. Heading(u)[1] \in {Sign(u[1]), 0} /\ Heading(u)[2] \in {Sign(u[2]), 0}
      BY DEF Heading
    <2> QED
      BY <1>1, <2>1
  <1>3. SlopeLimit(v) \in {<<-Sign(v[1]), 0>>, Heading(<<-v[1], -v[2]>>)}
    BY DEF SlopeLimit
  <1> QED
    BY <1>1, <1>2, <1>3

\* A smooth step that lowers the sample has moved.
LEMMA SmoothMoves ==
  ASSUME Field, NEW p \in Positions, Below(TimeAt(SmoothStep(p)), TimeAt(p))
  PROVE  SmoothStep(p) \in Int \X {0} \X Int /\ TimeAt(SmoothStep(p)) # NoSample
  <1>1. p[1] \in Int /\ p[3] \in Int /\ IsScene(scene)
    BY PointNumbers DEF Field
  <1>2. SmoothStep(p) = p \/ \E o : SmoothStep(p) = Shifted(p, SlopeLimit(o))
    BY DEF SmoothStep, SmoothFrom, SmoothBy
  <1>3. CASE SmoothStep(p) = p
    <2>1. TimeAt(p) # NoSample /\ TimeAt(p) < TimeAt(p)
      BY <1>3 DEF Below
    <2>2. Quarters(p)[1] \in Int /\ Quarters(p)[2] \in Int
      BY <1>1 DEF Quarters
    <2>3. TimeAt(p) \in Nat
      BY <2>1, <2>2, SampleNear DEF TimeAt
    <2> QED
      BY <2>1, <2>3
  <1>4. CASE \E o : SmoothStep(p) = Shifted(p, SlopeLimit(o))
    BY <1>1, <1>4, ShiftedIsPoint, Directions DEF Below
  <1> QED
    BY <1>2, <1>3, <1>4

\* The lowest of reached cells is one of them.
LEMMA LowestCell ==
  ASSUME Field, NEW cells, cells # {}, \A c \in cells : Reached(c)
  PROVE  Lowest(cells, fm2_T) \in cells
  <1> DEFINE times == {fm2_T[c] : c \in cells}
  <1>1. \A c \in cells : fm2_T[c] \in Nat
    BY FieldTimes
  <1>2. times \in SUBSET Nat /\ times # {}
    BY <1>1
  <1>3. PICK m \in times : \A k \in times : m <= k
    <2> HIDE DEF times
    <2> QED
      BY <1>2, LeastOf
  <1>4. \E c \in cells : \A k \in cells : fm2_T[c] <= fm2_T[k]
    BY <1>3
  <1> QED
    BY <1>4 DEF Lowest

\* The lowest of sampled points is one of them.
LEMMA LowestPoint ==
  ASSUME NEW probes, probes # {}, \A q \in probes : TimeAt(q) \in Nat
  PROVE  LowestOf(probes) \in probes
  <1> DEFINE times == {TimeAt(q) : q \in probes}
  <1>1. times \in SUBSET Nat /\ times # {}
    OBVIOUS
  <1>2. PICK m \in times : \A k \in times : m <= k
    <2> HIDE DEF times
    <2> QED
      BY <1>1, LeastOf
  <1>3. \E q \in probes : \A r \in probes : TimeAt(q) <= TimeAt(r)
    BY <1>2
  <1> QED
    BY <1>3 DEF LowestOf

\* Short of the goal a reached cell has a way on, and wherever the way leads
\* there is a sample.
LEMMA NextPointKeeps ==
  ASSUME Field, NEW p \in Positions, ~ AtGoal(p)
  PROVE  /\ NextPoint(p) = <<>> => ~ Reached(CellOf(p))
         /\ NextPoint(p) # <<>> =>
              NextPoint(p) \in Positions /\ TimeAt(NextPoint(p)) # NoSample
  <1> DEFINE here == TimeAt(p)
             smooth == SmoothStep(p)
             probes == Probed(p, here)
             lower == LowerCells(CellOf(p))
             Stays(q) == q \in Positions /\ q # <<>> /\ TimeAt(q) # NoSample
  <1>1. p[1] \in Int /\ p[3] \in Int /\ IsScene(scene)
    BY PointNumbers DEF Field
  <1>2. NextPoint(p) = DescentStep(p, here, smooth, probes, lower)
    BY DEF NextPoint
  <1>3. ASSUME NEW q \in Int \X {0} \X Int
        PROVE  q \in Positions /\ q # <<>>
    <2>1. PICK a, b, c : q = <<a, b, c>>
      OBVIOUS
    <2>2. Len(q) = 3 /\ Len(<<>>) = 0
      BY <2>1
    <2> QED
      BY <2>2 DEF Positions
  <1> HIDE DEF here, smooth, probes, lower
  <1>4. CASE Below(TimeAt(smooth), here)
    <2>1. NextPoint(p) = smooth
      BY <1>2, <1>4 DEF DescentStep
    <2>2. smooth \in Int \X {0} \X Int /\ TimeAt(smooth) # NoSample
      BY <1>4, SmoothMoves DEF smooth, here
    <2> QED
      BY <1>3, <2>1, <2>2
  <1>5. CASE ~ Below(TimeAt(smooth), here) /\ probes # {}
    <2> DEFINE q == LowestOf(probes)
    <2>1. ASSUME NEW r \in probes
          PROVE  r[1] \in Int /\ r[3] \in Int /\ TimeAt(r) \in Nat
      <3>1. PICK o \in Steps4 : r = <<p[1] + 2 * o[1], 0, p[3] + 2 * o[2]>>
        BY DEF probes, Probed
      <3>2. o[1] \in Int /\ o[2] \in Int
        BY DEF Steps4
      <3>3. r[1] \in Int /\ r[3] \in Int
        BY <1>1, <3>1, <3>2
      <3>4. TimeAt(r) # NoSample
        BY DEF probes, Probed, Below
      <3>5. Quarters(r)[1] \in Int /\ Quarters(r)[2] \in Int
        BY <3>3 DEF Quarters
      <3> QED
        BY <3>3, <3>4, <3>5, SampleNear DEF TimeAt
    <2>2. q \in probes
      BY <1>5, <2>1, LowestPoint
    <2>3. NextPoint(p) = Shifted(q, <<0, 0>>)
      BY <1>2, <1>5 DEF DescentStep
    <2> HIDE DEF q
    <2>4. q[1] \in Int /\ q[3] \in Int /\ TimeAt(q) # NoSample
      BY <2>1, <2>2 DEF NoSample
    <2>5. TimeAt(Shifted(q, <<0, 0>>)) # NoSample
      BY <2>4, ClampKeeps
    <2>6. Shifted(q, <<0, 0>>) \in Int \X {0} \X Int
      <3> DEFINE o == <<0, 0>>
      <3>1. o[1] \in Int /\ o[2] \in Int
        OBVIOUS
      <3> HIDE DEF o
      <3>2. Shifted(q, o) \in Int \X {0} \X Int
        BY <1>1, <2>4, <3>1, ShiftedIsPoint
      <3> QED
        BY <3>2 DEF o
    <2> QED
      BY <1>3, <2>3, <2>5, <2>6
  <1>6. CASE ~ Below(TimeAt(smooth), here) /\ probes = {} /\ lower # {}
    <2> DEFINE c == Lowest(lower, fm2_T)
    <2>1. \A n \in lower : Reached(n)
      BY DEF lower, LowerCells
    <2>2. Reached(c)
      BY <1>6, <2>1, LowestCell
    <2>3. NextPoint(p) = Landing(p, c)
      BY <1>2, <1>6 DEF DescentStep
    <2> HIDE DEF c
    <2>4. Landing(p, c) \in Int \X {0} \X Int /\ TimeAt(Landing(p, c)) # NoSample
      BY <1>1, <2>2, LandingKeeps
    <2> QED
      BY <1>3, <2>3, <2>4
  <1>7. CASE ~ Below(TimeAt(smooth), here) /\ probes = {} /\ lower = {}
    <2> DEFINE c == CellOf(p)
               n == Nudged(p)
    <2>1. ~ Reached(c)
      <3> SUFFICES ASSUME Reached(c) PROVE FALSE
        OBVIOUS
      <3>1. c # CellOf(scene.goal)
        <4> SUFFICES ASSUME CellOf(p) = CellOf(scene.goal) PROVE AtGoal(p)
          OBVIOUS
        <4> DEFINE x == scene.goal[1] - p[1]
                   z == scene.goal[3] - p[3]
        <4>1. scene.goal[1] \in Int /\ scene.goal[3] \in Int
          BY <1>1 DEF IsScene, Axes3
        <4>2. /\ p[1] \div 2 = scene.goal[1] \div 2
              /\ p[3] \div 2 = scene.goal[3] \div 2
          BY DEF CellOf
        <4>3. x \in -1..1 /\ z \in -1..1
          BY <1>1, <4>1, <4>2, SameHalf
        <4>4. AtGoal(p) <=> x * x + z * z < 9
          BY DEF AtGoal, Minus
        <4> HIDE DEF x, z
        <4>5. x * x <= 1 /\ z * z <= 1 /\ x * x \in Int /\ z * z \in Int
          BY <4>3
        <4> QED
          BY <4>4, <4>5
      <3>2. \E m \in Around(c) \cap DOMAIN fm2_T : fm2_T[m] < fm2_T[c]
        BY <3>1 DEF Field, Falls, Reached
      <3> HIDE DEF c
      <3>3. \E m \in Around(c) : Reached(m) /\ fm2_T[m] < fm2_T[c]
        BY <3>2 DEF Reached
      <3> QED
        BY <1>7, <3>3 DEF lower, LowerCells, c
    <2>2. NextPoint(p) = Nudge(n)
      BY <1>2, <1>7 DEF DescentStep
    <2>3. n \in Int \X {0} \X Int
      <3>1. \E v : n = Shifted(p, Heading(v))
        BY DEF Nudged
      <3> QED
        BY <1>1, <3>1, ShiftedIsPoint, Directions
    <2> HIDE DEF n
    <2>4. Nudge(n) # <<>> => Nudge(n) = n /\ TimeAt(n) # NoSample
      BY DEF Nudge
    <2> QED
      BY <1>3, <2>1, <2>2, <2>3, <2>4
  <1> QED
    BY <1>4, <1>5, <1>6, <1>7

\* A leg of the descent, and the descent, step by step.
LegSteps ==
  \A w : \E f :
    /\ \A n \in 0..Cardinality(Grid) :
         f[n] = IF n = 0 THEN w ELSE Onward(f[n - 1])
    /\ DescentLeg(w) = IF w.stuck THEN w ELSE f[Cardinality(Grid)]

DescentSteps ==
  \E f :
    /\ \A n \in 0..Legs :
         f[n] = IF n = 0 THEN [points |-> <<scene.start>>, stuck |-> FALSE]
                ELSE DescentLeg(f[n - 1])
    /\ Descent = f[Legs]

LEMMA LegUnrolls == IsScene(scene) => LegSteps
  <1> SUFFICES ASSUME IsScene(scene), NEW w
               PROVE  \E f :
                        /\ \A n \in 0..Cardinality(Grid) :
                             f[n] = IF n = 0 THEN w ELSE Onward(f[n - 1])
                        /\ DescentLeg(w) = IF w.stuck THEN w ELSE f[Cardinality(Grid)]
    BY DEF LegSteps
  <1> DEFINE fuel == Cardinality(Grid)
             Loop(f, m) ==
               f = [n \in 0..m |-> IF n = 0 THEN w ELSE Onward(f[n - 1])]
             walk == CHOOSE f : Loop(f, fuel)
  <1>1. fuel \in Nat
    BY GridIsFinite, FS_CardinalityType
  <1>2. DescentLeg(w) = IF w.stuck THEN w ELSE walk[fuel]
    BY DEF DescentLeg
  <1> HIDE DEF walk, fuel
  <1>3. \E f : Loop(f, fuel)
    <2> DEFINE G == {m \in 0..fuel : \E f : Loop(f, m)}
    <2>1. 0 \in G
      <3>1. Loop([n \in 0..0 |-> w], 0)
        OBVIOUS
      <3> HIDE DEF Loop
      <3> QED
        BY <1>1, <3>1
    <2>2. ASSUME NEW m \in 1..fuel, m - 1 \in G
          PROVE  m \in G
      <3>1. PICK f : Loop(f, m - 1)
        BY <2>2
      <3> DEFINE g == [n \in 0..m |-> IF n = m THEN Onward(f[m - 1]) ELSE f[n]]
      <3>2. ASSUME NEW n \in 0..m
            PROVE  g[n] = IF n = 0 THEN w ELSE Onward(g[n - 1])
        <4>1. n # 0 => g[n - 1] = f[n - 1]
          BY <1>1
        <4>2. n # m => f[n] = IF n = 0 THEN w ELSE Onward(f[n - 1])
          BY <1>1, <3>1
        <4> QED
          BY <1>1, <4>1, <4>2
      <3>3. Loop(g, m)
        BY <3>2
      <3> HIDE DEF Loop
      <3> QED
        BY <2>2, <3>3
    <2> HIDE DEF G
    <2>3. \A m \in 0..fuel : m \in G
      BY <1>1, <2>1, <2>2, UpTo
    <2> HIDE DEF Loop
    <2> QED
      BY <1>1, <2>3 DEF G
  <1>4. Loop(walk, fuel)
    <2> HIDE DEF Loop
    <2> QED
      BY <1>3 DEF walk
  <1>5. \A n \in 0..fuel : walk[n] = IF n = 0 THEN w ELSE Onward(walk[n - 1])
    BY <1>4
  <1> QED
    BY <1>2, <1>5 DEF fuel

LEMMA DescentUnrolls == DescentSteps
  <1> DEFINE first == [points |-> <<scene.start>>, stuck |-> FALSE]
             Loop(f, m) ==
               f = [n \in 0..m |-> IF n = 0 THEN first ELSE DescentLeg(f[n - 1])]
             leg == CHOOSE f : Loop(f, Legs)
  <1>1. Legs \in Nat
    BY DEF Legs
  <1>2. Descent = leg[Legs]
    BY DEF Descent
  <1> HIDE DEF leg, first
  <1>3. \E f : Loop(f, Legs)
    <2> DEFINE G == {m \in 0..Legs : \E f : Loop(f, m)}
    <2>1. 0 \in G
      <3>1. Loop([n \in 0..0 |-> first], 0)
        OBVIOUS
      <3> HIDE DEF Loop
      <3> QED
        BY <1>1, <3>1
    <2>2. ASSUME NEW m \in 1..Legs, m - 1 \in G
          PROVE  m \in G
      <3>1. PICK f : Loop(f, m - 1)
        BY <2>2
      <3> DEFINE g == [n \in 0..m |-> IF n = m THEN DescentLeg(f[m - 1]) ELSE f[n]]
      <3>2. ASSUME NEW n \in 0..m
            PROVE  g[n] = IF n = 0 THEN first ELSE DescentLeg(g[n - 1])
        <4>1. n # 0 => g[n - 1] = f[n - 1]
          BY <1>1
        <4>2. n # m => f[n] = IF n = 0 THEN first ELSE DescentLeg(f[n - 1])
          BY <1>1, <3>1
        <4> QED
          BY <1>1, <4>1, <4>2
      <3>3. Loop(g, m)
        BY <3>2
      <3> HIDE DEF Loop
      <3> QED
        BY <2>2, <3>3
    <2> HIDE DEF G
    <2>3. \A m \in 0..Legs : m \in G
      BY <1>1, <2>1, <2>2, UpTo
    <2> HIDE DEF Loop
    <2> QED
      BY <1>1, <2>3 DEF G
  <1>4. Loop(leg, Legs)
    <2> HIDE DEF Loop
    <2> QED
      BY <1>3 DEF leg
  <1>5. \A n \in 0..Legs : leg[n] = IF n = 0 THEN first ELSE DescentLeg(leg[n - 1])
    BY <1>4
  <1> QED
    BY <1>2, <1>5 DEF DescentSteps, first

\* A walk that has kept to the field.
IsWalk(w) ==
  /\ w \in [points : Seq(Positions), stuck : BOOLEAN]
  /\ w.points # <<>>
  /\ KeepsToField(w)

\* One more step, and one more leg, keep to it.
LEMMA OnwardKeeps ==
  ASSUME Field, NEW w, IsWalk(w)
  PROVE  IsWalk(Onward(w))
  <1> DEFINE s == w.points
             p == Last(s)
             next == NextPoint(p)
  <1>1. s \in Seq(Positions) /\ s # <<>> /\ Len(s) \in Nat \ {0}
    BY LenProperties, EmptySeq DEF IsWalk
  <1>2. p \in Positions
    BY <1>1, ElementOfSeq DEF Last
  <1>3. CASE w.stuck \/ AtGoal(p)
    BY <1>3 DEF Onward
  <1>4. CASE ~ (w.stuck \/ AtGoal(p)) /\ next = <<>>
    <2>1. Onward(w) = [w EXCEPT !.stuck = TRUE]
      BY <1>4 DEF Onward, Continued
    <2>2. ~ Reached(CellOf(p))
      BY <1>2, <1>4, NextPointKeeps
    <2>3. /\ [w EXCEPT !.stuck = TRUE] \in [points : Seq(Positions), stuck : BOOLEAN]
          /\ [w EXCEPT !.stuck = TRUE].points = s
      BY DEF IsWalk
    <2> QED
      BY <2>1, <2>2, <2>3 DEF IsWalk, KeepsToField
  <1>5. CASE ~ (w.stuck \/ AtGoal(p)) /\ next # <<>>
    <2> DEFINE t == Append(s, next)
    <2>1. Onward(w) = [w EXCEPT !.points = t]
      BY <1>5 DEF Onward, Continued
    <2>2. next \in Positions /\ TimeAt(next) # NoSample
      BY <1>2, <1>5, NextPointKeeps
    <2> HIDE DEF next
    <2>3. /\ t \in Seq(Positions) /\ t # <<>> /\ Len(t) = Len(s) + 1
          /\ \A n \in 1..Len(s) : t[n] = s[n]
          /\ t[Len(s) + 1] = next
      BY <1>1, <2>2, AppendProperties
    <2> HIDE DEF t
    <2>4. \A n \in 2..Len(t) : TimeAt(t[n]) # NoSample
      <3> TAKE n \in 2..Len(t)
      <3>1. CASE n = Len(s) + 1
        BY <2>2, <2>3, <3>1
      <3>2. CASE n # Len(s) + 1
        <4>1. n \in 2..Len(s) /\ t[n] = s[n]
          BY <1>1, <2>3, <3>2
        <4> QED
          BY <4>1 DEF IsWalk, KeepsToField
      <3> QED
        BY <3>1, <3>2
    <2>5. /\ Onward(w) \in [points : Seq(Positions), stuck : BOOLEAN]
          /\ Onward(w).points = t /\ ~ Onward(w).stuck
      BY <1>5, <2>1, <2>3 DEF IsWalk
    <2> QED
      BY <2>3, <2>4, <2>5 DEF IsWalk, KeepsToField
  <1> QED
    BY <1>3, <1>4, <1>5

LEMMA LegKeeps ==
  ASSUME Field, NEW w, IsWalk(w)
  PROVE  IsWalk(DescentLeg(w))
  <1> DEFINE fuel == Cardinality(Grid)
  <1>1. PICK f : /\ \A n \in 0..fuel : f[n] = IF n = 0 THEN w ELSE Onward(f[n - 1])
                 /\ DescentLeg(w) = IF w.stuck THEN w ELSE f[fuel]
    BY LegUnrolls DEF Field, LegSteps
  <1>2. fuel \in Nat
    BY GridIsFinite, FS_CardinalityType DEF Field
  <1> HIDE DEF fuel
  <1> DEFINE G == {n \in 0..fuel : IsWalk(f[n])}
  <1>3. 0 \in G
    BY <1>1, <1>2
  <1>4. ASSUME NEW n \in 1..fuel, n - 1 \in G
        PROVE  n \in G
    <2>1. f[n] = Onward(f[n - 1])
      BY <1>1, <1>2
    <2> QED
      BY <1>2, <1>4, <2>1, OnwardKeeps
  <1>5. IsWalk(f[fuel])
    <2>1. \A n \in 0..fuel : n \in G
      <3> HIDE DEF G
      <3> QED
        BY <1>2, <1>3, <1>4, UpTo
    <2> QED
      BY <1>2, <2>1
  <1> QED
    BY <1>1, <1>5

LEMMA DescentKeeps ==
  ASSUME Field
  PROVE  IsWalk(Descent)
  <1> DEFINE first == [points |-> <<scene.start>>, stuck |-> FALSE]
  <1>1. PICK f : /\ \A n \in 0..Legs : f[n] = IF n = 0 THEN first ELSE DescentLeg(f[n - 1])
                 /\ Descent = f[Legs]
    BY DescentUnrolls DEF DescentSteps
  <1>2. Legs \in Nat
    BY DEF Legs
  <1>3. IsWalk(first)
    <2>1. /\ <<scene.start>> \in Seq(Positions) /\ <<scene.start>> # <<>>
          /\ Len(<<scene.start>>) = 1
      BY DEF Positions
    <2> QED
      BY <2>1 DEF IsWalk, KeepsToField
  <1> HIDE DEF first
  <1> DEFINE G == {n \in 0..Legs : IsWalk(f[n])}
  <1>4. 0 \in G
    BY <1>1, <1>2, <1>3
  <1>5. ASSUME NEW n \in 1..Legs, n - 1 \in G
        PROVE  n \in G
    <2>1. f[n] = DescentLeg(f[n - 1])
      BY <1>1, <1>2
    <2> QED
      BY <1>2, <1>5, <2>1, LegKeeps
  <1>6. IsWalk(f[Legs])
    <2>1. \A n \in 0..Legs : n \in G
      <3> HIDE DEF G
      <3> QED
        BY <1>2, <1>4, <1>5, UpTo
    <2> QED
      BY <1>2, <2>1
  <1> QED
    BY <1>1, <1>6

\* The route of a descent has so many points.
LEMMA GeodesicIsFinite ==
  ASSUME Field
  PROVE  Len(Geodesic.path) \in Nat
  <1> DEFINE U == Positions \cup {scene.goal}
             whole == Append(Descent.points, scene.goal)
  <1>1. Descent.points \in Seq(Positions)
    BY DescentKeeps DEF IsWalk
  <1>2. Descent.points \in Seq(U)
    BY <1>1
  <1>3. Len(whole) \in Nat
    BY <1>2, AppendProperties, LenProperties
  <1>4. Geodesic.path = Smoothed(whole)
    BY DEF Geodesic, RouteOf
  <1> HIDE DEF whole
  <1>5. PICK e : \/ Smoothed(whole) = whole
                 \/ Smoothed(whole) = [m \in 1..Len(whole) |-> e[m]]
    <2> DEFINE n == Len(whole)
               Window(m) == Max({1, m - 2})..Min({n, m + 2})
               Height(m) == FoldSet(LAMBDA w, acc : acc + whole[w][3], 0, Window(m))
                              \div Cardinality(Window(m))
               e == [m \in 1..n |-> IF m \in {1, n} THEN whole[m]
                                    ELSE [whole[m] EXCEPT ![3] = Height(m)]]
    <2>1. Smoothed(whole) = IF n <= 8 THEN whole ELSE e
      BY DEF Smoothed
    <2>2. e = [m \in 1..n |-> e[m]]
      OBVIOUS
    <2> HIDE DEF e
    <2> QED
      BY <2>1, <2>2
  <1> QED
    BY <1>3, <1>4, <1>5

\* No cell of the speed map has a negative slowness.
LEMMA SlownessIsNat ==
  ASSUME IsScene(scene), NEW c \in Grid
  PROVE  Slowness(c) \in Nat
  <1> DEFINE p == Centre(c)
             ends == {scene.start[3], scene.goal[3]}
  <1>1. p[3] \in Int
    BY GridIsFinite DEF Centre
  <1>2. ends \subseteq Int
    BY DEF IsScene, Axes3
  <1>3. /\ Max(ends) \in ends /\ Min(ends) \in ends
    BY <1>2 DEF Max, Min
  <1> HIDE DEF p, ends
  <1>4. AltBandCost(p[3]) = IF p[3] > Max(ends) THEN (p[3] - Max(ends)) \div 4
                            ELSE IF p[3] < Min(ends) THEN Min(ends) - p[3] ELSE 0
    BY DEF AltBandCost, ends
  <1> DEFINE hi == Max(ends)
             lo == Min(ends)
             z == p[3]
  <1>5. hi \in Int /\ lo \in Int /\ z \in Int
    BY <1>1, <1>2, <1>3
  <1>6. AltBandCost(z) = IF z > hi THEN (z - hi) \div 4
                         ELSE IF z < lo THEN lo - z ELSE 0
    BY <1>4
  <1> HIDE DEF hi, lo, z
  <1>7. AltBandCost(z) \in Nat
    BY <1>5, <1>6
  <1>8. RiskCost(p) \in Nat /\ BlockedSlow \in Nat
    BY RiskCosts, SizeAssumption
  <1>9. Slowness(c) = IF Gated(p) THEN BlockedSlow
                      ELSE IF zone_hard_mode /\ CellInHardZone(c) THEN 0
                      ELSE 1 + RiskCost(p) + AltBandCost(z)
    BY DEF Slowness, p, z
  <1> QED
    BY <1>7, <1>8, <1>9

\* The speed map is a table of slownesses, and a field that is valid falls.
FieldInv ==
  /\ IsScene(scene)
  /\ fm2_F = <<>> \/ fm2_F \in [Grid -> Nat]
  /\ fm2_valid => Falls(fm2_T) /\ CellOf(scene.goal) \in Grid

LEMMA FieldStep ==
  ASSUME FieldInv, [FMNext]_<<scene, fmVars>>
  PROVE  FieldInv'
  <1>1. CASE BuildSpeedMap
    <2>1. /\ fm2_F' = IF Cardinality(Grid) > MaxCells THEN <<>>
                      ELSE [c \in Grid |-> Slowness(c)]
          /\ fm2_valid' = FALSE /\ UNCHANGED scene
      BY <1>1 DEF BuildSpeedMap
    <2>2. [c \in Grid |-> Slowness(c)] \in [Grid -> Nat]
      BY SlownessIsNat DEF FieldInv
    <2>3. fm2_F' = <<>> \/ fm2_F' \in [Grid -> Nat]
      BY <2>1, <2>2
    <2>4. Grid' = Grid
      BY <2>1 DEF Grid
    <2> QED
      BY <2>1, <2>3, <2>4 DEF FieldInv
  <1>2. CASE SolveEikonal
    <2>1. UNCHANGED <<scene, fm2_F>>
      BY <1>2 DEF SolveEikonal
    <2>2. Grid' = Grid /\ CellOf(scene.goal)' = CellOf(scene.goal)
      BY <2>1 DEF Grid, CellOf
    <2>3. \A T : Falls(T)' = Falls(T)
      BY <2>2 DEF Falls, Around
    <2>4. CASE fm2_F = <<>> \/ CellOf(scene.goal) \notin Grid
      <3>1. fm2_T' = fm2_T /\ fm2_valid' = fm2_valid
        BY <1>2, <2>4 DEF SolveEikonal
      <3> QED
        BY <2>1, <2>2, <2>3, <3>1 DEF FieldInv
    <2>5. CASE ~ (fm2_F = <<>> \/ CellOf(scene.goal) \notin Grid)
      <3>1. fm2_T' = March(Star)
        BY <1>2, <2>5 DEF SolveEikonal
      <3>2. Falls(March(Star))
        BY <2>5, MarchFalls, FlagAssumption DEF FieldInv
      <3> QED
        BY <2>1, <2>2, <2>3, <2>5, <3>1, <3>2 DEF FieldInv
    <2> QED
      BY <2>4, <2>5
  <1>3. CASE UNCHANGED <<scene, fm2_F, fm2_T, fm2_valid>>
    <2>1. Grid' = Grid /\ CellOf(scene.goal)' = CellOf(scene.goal)
      BY <1>3 DEF Grid, CellOf
    <2>2. Falls(fm2_T)' = Falls(fm2_T)
      BY <1>3, <2>1 DEF Falls, Around
    <2> QED
      BY <1>3, <2>1, <2>2 DEF FieldInv
  <1>4. \/ BuildSpeedMap \/ SolveEikonal
        \/ UNCHANGED <<scene, fm2_F, fm2_T, fm2_valid>>
    BY DEF FMNext, fmVars, BeginPasses, Accept, Soften, MarkCrossings, ExtractRoute
  <1> QED
    BY <1>1, <1>2, <1>3, <1>4

-----------------------------------------------------------------------------
(***************************************************************************)
(* The zone passes.                                                        *)
(***************************************************************************)

\* A route that is about to be extracted by pass 1 or 3 was judged on the very
\* field and under the very policy it is extracted with.
MarchInv ==
  /\ IsScene(scene)
  /\ todo \in 0..4
  /\ fm_stage = "extract" /\ todo \in {1, 3} => HardOk
  /\ PassLabelHonest

\* What is asked of a field does not change while the field does not.
LEMMA SameSteps ==
  ASSUME UNCHANGED <<scene, fm2_F, fm2_T>>
  PROVE  /\ Grid' = Grid
         /\ \A p : TimeAt(p)' = TimeAt(p)
         /\ \A w : Onward(w)' = Onward(w)
  <1>1. Grid' = Grid /\ \A c : Around(c)' = Around(c)
    BY DEF Grid, Around
  <1>2. \A q : SampleT(q)' = SampleT(q)
    BY DEF SampleT, Blend, Corner, Reached
  <1>3. \A p : TimeAt(p)' = TimeAt(p)
    BY <1>2 DEF TimeAt, Quarters
  <1>4. \A q : GradT(q)' = GradT(q)
    BY <1>2 DEF GradT, Gradient
  <1>5. \A p, o : Shifted(p, o)' = Shifted(p, o) /\ Middle(p, o)' = Middle(p, o)
    BY DEF Shifted, Middle, ClampZ
  <1>6. \A g : SlopeLimit(g)' = SlopeLimit(g)
    BY DEF SlopeLimit
  <1>7. \A p : SmoothStep(p)' = SmoothStep(p)
    BY <1>4, <1>5, <1>6 DEF SmoothStep, SmoothFrom, SmoothBy, Quarters
  <1>8. \A p : Probed(p, TimeAt(p))' = Probed(p, TimeAt(p))
    BY <1>3 DEF Probed
  <1>9. \A c : LowerCells(c)' = LowerCells(c)
    BY <1>1 DEF LowerCells, Reached
  <1>10. \A s : LowestOf(s)' = LowestOf(s)
    BY <1>3 DEF LowestOf
  <1>11. \A p, c : Landing(p, c)' = Landing(p, c)
    BY DEF Landing, ClampZ
  <1>12. \A p : Nudge(Nudged(p))' = Nudge(Nudged(p))
    BY <1>1, <1>3, <1>5 DEF Nudge, Nudged, CellBlocked
  <1>13. \A p : NextPoint(p)' = NextPoint(p)
    BY <1>3, <1>5, <1>7, <1>8, <1>9, <1>10, <1>11, <1>12 DEF NextPoint, DescentStep
  <1>14. \A p : AtGoal(p)' = AtGoal(p)
    BY DEF AtGoal
  <1>15. \A w : Onward(w)' = Onward(w)
    BY <1>13, <1>14 DEF Onward
  <1> QED
    BY <1>1, <1>3, <1>15

LEMMA SameLeg ==
  ASSUME IsScene(scene), UNCHANGED <<scene, fm2_F, fm2_T>>
  PROVE  \A w : DescentLeg(w)' = DescentLeg(w)
  <1> TAKE w
  <1> DEFINE fuel == Cardinality(Grid)
  <1>1. fuel \in Nat /\ fuel' = fuel /\ IsScene(scene)'
    BY SameSteps, GridIsFinite, FS_CardinalityType
  <1>2. LegSteps
    BY LegUnrolls
  <1>3. LegSteps'
    BY <1>1, LegUnrolls, PTL
  <1>4. PICK f : /\ \A n \in 0..fuel : f[n] = IF n = 0 THEN w ELSE Onward(f[n - 1])
                 /\ DescentLeg(w) = IF w.stuck THEN w ELSE f[fuel]
    BY <1>2 DEF LegSteps
  <1>5. PICK g : /\ \A n \in 0..fuel : g[n] = IF n = 0 THEN w ELSE Onward(g[n - 1])
                 /\ DescentLeg(w)' = IF w.stuck THEN w ELSE g[fuel]
    BY <1>1, <1>3, SameSteps DEF LegSteps
  <1> HIDE DEF fuel
  <1> DEFINE G == {n \in 0..fuel : g[n] = f[n]}
  <1>6. 0 \in G
    BY <1>1, <1>4, <1>5
  <1>7. \A n \in 1..fuel : n - 1 \in G => n \in G
    BY <1>1, <1>4, <1>5
  <1>8. g[fuel] = f[fuel]
    <2>1. \A n \in 0..fuel : n \in G
      <3> HIDE DEF G
      <3> QED
        BY <1>1, <1>6, <1>7, UpTo
    <2> QED
      BY <1>1, <2>1
  <1> QED
    BY <1>4, <1>5, <1>8

LEMMA SameField ==
  ASSUME IsScene(scene), UNCHANGED <<scene, fm2_F, fm2_T>>
  PROVE  Geodesic' = Geodesic
  <1> DEFINE first == [points |-> <<scene.start>>, stuck |-> FALSE]
  <1>1. Legs \in Nat
    BY DEF Legs
  <1>2. DescentSteps
    BY DescentUnrolls
  <1>3. DescentSteps'
    BY DescentUnrolls, PTL
  <1>4. PICK f : /\ \A n \in 0..Legs : f[n] = IF n = 0 THEN first ELSE DescentLeg(f[n - 1])
                 /\ Descent = f[Legs]
    BY <1>2 DEF DescentSteps
  <1>5. PICK g : /\ \A n \in 0..Legs : g[n] = IF n = 0 THEN first ELSE DescentLeg(g[n - 1])
                 /\ Descent' = g[Legs]
    BY <1>3, SameLeg DEF DescentSteps, Legs
  <1> HIDE DEF first
  <1> DEFINE G == {n \in 0..Legs : g[n] = f[n]}
  <1>6. 0 \in G
    BY <1>1, <1>4, <1>5
  <1>7. \A n \in 1..Legs : n - 1 \in G => n \in G
    BY <1>1, <1>4, <1>5
  <1>8. Descent' = Descent
    <2>1. \A n \in 0..Legs : n \in G
      <3> HIDE DEF G
      <3> QED
        BY <1>1, <1>6, <1>7, UpTo
    <2> QED
      BY <1>1, <1>4, <1>5, <2>1
  <1>9. \A s : RouteOf(s)' = RouteOf(s)
    BY DEF RouteOf, AtGoal
  <1> QED
    BY <1>8, <1>9 DEF Geodesic

\* Nor does the verdict, while the policy does not change either.
LEMMA SameZones ==
  ASSUME UNCHANGED <<scene, zone_soft_override>>
  PROVE  \A p : InHardZone(p)' = InHardZone(p)
  <1>1. HardZones' = HardZones
    BY DEF HardZones, Zones, NoBarrier, InNominal
  <1> QED
    BY <1>1 DEF InHardZone, InHard

LEMMA SameVerdict ==
  ASSUME IsScene(scene),
         UNCHANGED <<scene, fm2_F, fm2_T, fm2_valid, zone_soft_override>>
  PROVE  HardOk' = HardOk
  <1>1. Geodesic' = Geodesic
    BY SameField
  <1>2. ProbeOk(Geodesic)' = ProbeOk(Geodesic)
    BY <1>1, SameZones DEF ProbeOk, Surfaced, TerrainKnown, TerrainHeight
  <1>3. TimeAt(scene.start)' = TimeAt(scene.start)
    BY SameSteps
  <1> QED
    BY <1>2, <1>3 DEF HardOk

\* Only a route of a pass that was accepted is reported as that pass's.
LEMMA ExtractStep ==
  ASSUME MarchInv, ExtractRoute
  PROVE  MarchInv'
  <1>1. /\ fm_stage = "extract" /\ fm_stage' = "finished" /\ todo' = todo
        /\ zone_avoid_pass' = IF todo = 4 THEN 2 ELSE todo
        /\ fm2_path' = IF fm2_valid THEN Geodesic.path
                       ELSE <<scene.start, scene.goal>>
        /\ UNCHANGED <<scene, fm2_F, fm2_T, fm2_valid, zone_soft_override>>
    BY DEF ExtractRoute
  <1>2. PassLabelHonest'
    <2> SUFFICES ASSUME zone_avoid_pass' \in {1, 3}, NEW p \in Body(fm2_path')
                 PROVE  ~ InHardZone(p)'
      BY DEF PassLabelHonest
    <2>1. todo \in {1, 3}
      BY <1>1 DEF MarchInv
    <2>2. fm2_valid /\ ProbeOk(Geodesic)
      BY <1>1, <2>1 DEF MarchInv, HardOk
    <2>3. p \in Body(Geodesic.path)
      BY <1>1, <2>2
    <2>4. ~ InHardZone(p)
      BY <2>2, <2>3 DEF ProbeOk
    <2> QED
      BY <1>1, <2>4, SameZones
  <1> QED
    BY <1>1, <1>2 DEF MarchInv

\* Every step of the passes keeps the invariant.
LEMMA MarchStep ==
  ASSUME MarchInv, [FMNext]_<<scene, fmVars>>
  PROVE  MarchInv'
  <1>1. CASE BeginPasses
    BY <1>1 DEF BeginPasses, MarchInv, PassLabelHonest
  <1>2. CASE BuildSpeedMap
    BY <1>2 DEF BuildSpeedMap, MarchInv, PassLabelHonest
  <1>3. CASE SolveEikonal
    BY <1>3 DEF SolveEikonal, MarchInv, PassLabelHonest
  <1>4. CASE Accept
    BY <1>4, SameVerdict DEF Accept, MarchInv, PassLabelHonest
  <1>5. CASE Soften
    BY <1>5 DEF Soften, MarchInv, PassLabelHonest
  <1>6. CASE MarkCrossings
    BY <1>6 DEF MarkCrossings, MarchInv, PassLabelHonest
  <1>7. CASE ExtractRoute
    BY <1>7, ExtractStep
  <1>8. CASE UNCHANGED <<scene, fmVars>>
    <2>1. /\ UNCHANGED <<scene, fm2_F, fm2_T, fm2_valid, zone_soft_override>>
          /\ UNCHANGED <<fm_stage, todo, zone_avoid_pass, fm2_path>>
      BY <1>8 DEF fmVars
    <2>2. PassLabelHonest' = PassLabelHonest
      BY <2>1, SameZones DEF PassLabelHonest
    <2> QED
      BY <2>1, <2>2, SameVerdict DEF MarchInv
  <1> QED
    BY <1>1, <1>2, <1>3, <1>4, <1>5, <1>6, <1>7, <1>8 DEF FMNext

-----------------------------------------------------------------------------
(***************************************************************************)
(* The simplifier.                                                         *)
(***************************************************************************)

\* Where a loop is after n runs of its body, by what each run keeps.
LEMMA Iterating ==
  ASSUME NEW body, NEW first, NEW n \in Nat, NEW Good, first \in Good[0],
         \A k \in 1..n : \A s \in Good[k - 1] : body[s] \in Good[k]
  PROVE  Iterate(body, first, n) \in Good[n]
  <1> DEFINE Loop(f, m) ==
               f = [k \in 0..m |-> IF k = 0 THEN first ELSE body[f[k - 1]]]
             after == CHOOSE f : Loop(f, n)
  <1>1. Iterate(body, first, n) = after[n]
    BY DEF Iterate
  <1> HIDE DEF after
  <1>2. \E f : Loop(f, n)
    <2> DEFINE G == {m \in 0..n : \E f : Loop(f, m)}
    <2>1. 0 \in G
      <3>1. Loop([k \in 0..0 |-> first], 0)
        OBVIOUS
      <3> HIDE DEF Loop
      <3> QED
        BY <3>1
    <2>2. ASSUME NEW m \in 1..n, m - 1 \in G
          PROVE  m \in G
      <3>1. PICK f : Loop(f, m - 1)
        BY <2>2
      <3> DEFINE g == [k \in 0..m |-> IF k = m THEN body[f[m - 1]] ELSE f[k]]
      <3>2. ASSUME NEW k \in 0..m
            PROVE  g[k] = IF k = 0 THEN first ELSE body[g[k - 1]]
        <4>1. k # 0 => g[k - 1] = f[k - 1]
          OBVIOUS
        <4>2. k # m => f[k] = IF k = 0 THEN first ELSE body[f[k - 1]]
          BY <3>1
        <4> QED
          BY <4>1, <4>2
      <3>3. Loop(g, m)
        BY <3>2
      <3> HIDE DEF Loop
      <3> QED
        BY <2>2, <3>3
    <2> HIDE DEF G
    <2>3. \A m \in 0..n : m \in G
      BY <2>1, <2>2, UpTo
    <2> HIDE DEF Loop
    <2> QED
      BY <2>3 DEF G
  <1>3. \A k \in 0..n : after[k] = IF k = 0 THEN first ELSE body[after[k - 1]]
    <2>1. Loop(after, n)
      <3> HIDE DEF Loop
      <3> QED
        BY <1>2 DEF after
    <2> QED
      BY <2>1
  <1> DEFINE G == {k \in 0..n : after[k] \in Good[k]}
  <1>4. 0 \in G
    BY <1>3
  <1>5. \A k \in 1..n : k - 1 \in G => k \in G
    BY <1>3
  <1>6. \A k \in 0..n : k \in G
    <2> HIDE DEF G
    <2> QED
      BY <1>4, <1>5, UpTo
  <1> QED
    BY <1>1, <1>6

\* Indices of the route, each farther along it than the one before.
Ascending ==
  {s \in Seq(1..Len(path)) : \A n \in 1..(Len(s) - 1) : s[n] < s[n + 1]}

LEMMA Inserting ==
  ASSUME NEW s \in Ascending, NEW k \in 1..(Len(s) - 1), NEW m \in Int,
         s[k] < m, m < s[k + 1], Len(path) \in Nat
  PROVE  /\ InsertAt(s, k + 1, m) \in Ascending
         /\ Len(InsertAt(s, k + 1, m)) = Len(s) + 1
  <1> DEFINE D == 1..Len(path)
             r == InsertAt(s, k + 1, m)
             front == SubSeq(s, 1, k)
             back == SubSeq(s, k + 1, Len(s))
  <1>1. s \in Seq(D) /\ Len(s) \in Nat /\ \A n \in 1..Len(s) : s[n] \in D
    BY LenProperties, ElementOfSeq DEF Ascending
  <1>2. m \in D
    BY <1>1
  <1>3. \A n \in 1..(Len(s) - 1) : s[n] < s[n + 1]
    BY DEF Ascending
  <1> HIDE DEF D
  <1>4. front \in Seq(D) /\ Len(front) = k /\ \A n \in 1..k : front[n] = s[n]
    <2>1. \A n \in 1..k : s[n] \in D
      BY <1>1
    <2>2. /\ SubSeq(s, 1, k) \in Seq(D)
          /\ Len(SubSeq(s, 1, k)) = IF 1 <= k THEN k - 1 + 1 ELSE 0
          /\ \A n \in 1..(k - 1 + 1) : SubSeq(s, 1, k)[n] = s[1 + n - 1]
      BY <1>1, <2>1, SubSeqProperties
    <2> QED
      BY <2>2
  <1>5. /\ back \in Seq(D) /\ Len(back) = Len(s) - k
        /\ \A n \in 1..(Len(s) - k) : back[n] = s[k + n]
    <2>1. \A n \in (k + 1)..Len(s) : s[n] \in D
      BY <1>1
    <2>2. /\ SubSeq(s, k + 1, Len(s)) \in Seq(D)
          /\ Len(SubSeq(s, k + 1, Len(s)))
               = IF k + 1 <= Len(s) THEN Len(s) - (k + 1) + 1 ELSE 0
          /\ \A n \in 1..(Len(s) - (k + 1) + 1) :
               SubSeq(s, k + 1, Len(s))[n] = s[(k + 1) + n - 1]
      BY <1>1, <2>1, SubSeqProperties
    <2>3. \A n \in 1..(Len(s) - k) : (k + 1) + n - 1 = k + n
      BY <1>1
    <2> QED
      BY <1>1, <2>2, <2>3
  <1>6. r = (front \o <<m>>) \o back
    BY <1>1 DEF InsertAt
  <1> HIDE DEF front, back, r
  <1>7. /\ front \o <<m>> \in Seq(D) /\ Len(front \o <<m>>) = k + 1
        /\ \A n \in 1..(k + 1) : (front \o <<m>>)[n] = IF n <= k THEN s[n] ELSE m
    <2>1. <<m>> \in Seq(D) /\ Len(<<m>>) = 1 /\ <<m>>[1] = m
      BY <1>2
    <2>2. /\ front \o <<m>> \in Seq(D)
          /\ Len(front \o <<m>>) = Len(front) + Len(<<m>>)
          /\ \A n \in 1..(Len(front) + Len(<<m>>)) : (front \o <<m>>)[n] =
               IF n <= Len(front) THEN front[n] ELSE <<m>>[n - Len(front)]
      BY <1>4, <2>1, ConcatProperties
    <2> QED
      BY <1>4, <2>1, <2>2
  <1>8. /\ r \in Seq(D) /\ Len(r) = Len(s) + 1
        /\ \A n \in 1..(Len(s) + 1) :
             r[n] = IF n <= k THEN s[n] ELSE IF n = k + 1 THEN m ELSE s[n - 1]
    <2> DEFINE f == front \o <<m>>
    <2> HIDE DEF f
    <2>1. /\ f \o back \in Seq(D)
          /\ Len(f \o back) = Len(f) + Len(back)
          /\ \A n \in 1..(Len(f) + Len(back)) : (f \o back)[n] =
               IF n <= Len(f) THEN f[n] ELSE back[n - Len(f)]
      BY <1>5, <1>7, ConcatProperties DEF f
    <2>2. Len(f) + Len(back) = Len(s) + 1
      <3>1. Len(f) = k + 1
        BY <1>7 DEF f
      <3> QED
        BY <1>1, <1>5, <3>1
    <2>3. ASSUME NEW n \in 1..(Len(s) + 1)
          PROVE  r[n] = IF n <= k THEN s[n] ELSE IF n = k + 1 THEN m ELSE s[n - 1]
      <3>1. r[n] = IF n <= k + 1 THEN f[n] ELSE back[n - (k + 1)]
        BY <1>6, <1>7, <2>1, <2>2 DEF f
      <3>2. n <= k + 1 => f[n] = IF n <= k THEN s[n] ELSE m
        BY <1>7 DEF f
      <3>3. n > k + 1 => back[n - (k + 1)] = s[n - 1]
        <4>1. n > k + 1 => /\ n - (k + 1) \in 1..(Len(s) - k)
                           /\ k + (n - (k + 1)) = n - 1
          BY <1>1
        <4> QED
          BY <1>5, <4>1
      <3> QED
        BY <3>1, <3>2, <3>3
    <2> QED
      BY <1>6, <2>1, <2>2, <2>3 DEF f
  <1>9. ASSUME NEW n \in 1..(Len(r) - 1)
        PROVE  r[n] < r[n + 1]
    <2>1. /\ r[n] = IF n <= k THEN s[n] ELSE IF n = k + 1 THEN m ELSE s[n - 1]
          /\ r[n + 1] = IF n + 1 <= k THEN s[n + 1]
                        ELSE IF n + 1 = k + 1 THEN m ELSE s[n]
      BY <1>1, <1>8
    <2>2. CASE n < k
      BY <1>1, <1>3, <2>1, <2>2
    <2>3. CASE n = k
      BY <2>1, <2>3
    <2>4. CASE n = k + 1
      BY <2>1, <2>4
    <2>5. CASE n > k + 1
      <3>1. n - 1 \in 1..(Len(s) - 1) /\ (n - 1) + 1 = n
        BY <1>1, <1>8, <2>5
      <3>2. s[n - 1] < s[n]
        BY <1>3, <3>1
      <3> QED
        BY <2>1, <2>5, <3>2
    <2> QED
      BY <2>2, <2>3, <2>4, <2>5
  <1>10. r \in Seq(1..Len(path))
    BY <1>8 DEF D
  <1> QED
    BY <1>8, <1>9, <1>10 DEF Ascending, r

LEMMA Removing ==
  ASSUME NEW s \in Ascending, NEW k \in 2..(Len(s) - 1), Len(path) \in Nat
  PROVE  RemoveAt(s, k) \in Ascending
  <1> DEFINE D == 1..Len(path)
             r == RemoveAt(s, k)
             front == SubSeq(s, 1, k - 1)
             back == SubSeq(s, k + 1, Len(s))
  <1>1. s \in Seq(D) /\ Len(s) \in Nat /\ \A n \in 1..Len(s) : s[n] \in D
    BY LenProperties, ElementOfSeq DEF Ascending
  <1>2. \A n \in 1..(Len(s) - 1) : s[n] < s[n + 1]
    BY DEF Ascending
  <1>3. D \subseteq Nat
    OBVIOUS
  <1> HIDE DEF D
  <1>4. /\ front \in Seq(D) /\ Len(front) = k - 1
        /\ \A n \in 1..(k - 1) : front[n] = s[n]
    <2>1. \A n \in 1..(k - 1) : s[n] \in D
      BY <1>1
    <2>2. /\ SubSeq(s, 1, k - 1) \in Seq(D)
          /\ Len(SubSeq(s, 1, k - 1)) = IF 1 <= k - 1 THEN (k - 1) - 1 + 1 ELSE 0
          /\ \A n \in 1..((k - 1) - 1 + 1) : SubSeq(s, 1, k - 1)[n] = s[1 + n - 1]
      BY <1>1, <2>1, SubSeqProperties
    <2> QED
      BY <2>2
  <1>5. /\ back \in Seq(D) /\ Len(back) = Len(s) - k
        /\ \A n \in 1..(Len(s) - k) : back[n] = s[k + n]
    <2>1. \A n \in (k + 1)..Len(s) : s[n] \in D
      BY <1>1
    <2>2. /\ SubSeq(s, k + 1, Len(s)) \in Seq(D)
          /\ Len(SubSeq(s, k + 1, Len(s)))
               = IF k + 1 <= Len(s) THEN Len(s) - (k + 1) + 1 ELSE 0
          /\ \A n \in 1..(Len(s) - (k + 1) + 1) :
               SubSeq(s, k + 1, Len(s))[n] = s[(k + 1) + n - 1]
      BY <1>1, <2>1, SubSeqProperties
    <2>3. \A n \in 1..(Len(s) - k) : (k + 1) + n - 1 = k + n
      BY <1>1
    <2> QED
      BY <1>1, <2>2, <2>3
  <1>6. r = front \o back
    BY DEF RemoveAt
  <1> HIDE DEF front, back, r
  <1>7. /\ r \in Seq(D) /\ Len(r) = Len(s) - 1
        /\ \A n \in 1..(Len(s) - 1) : r[n] = IF n < k THEN s[n] ELSE s[n + 1]
    <2>1. /\ front \o back \in Seq(D)
          /\ Len(front \o back) = Len(front) + Len(back)
          /\ \A n \in 1..(Len(front) + Len(back)) : (front \o back)[n] =
               IF n <= Len(front) THEN front[n] ELSE back[n - Len(front)]
      BY <1>4, <1>5, ConcatProperties
    <2>2. Len(front) + Len(back) = Len(s) - 1
      BY <1>1, <1>4, <1>5
    <2>3. ASSUME NEW n \in 1..(Len(s) - 1)
          PROVE  r[n] = IF n < k THEN s[n] ELSE s[n + 1]
      <3>1. r[n] = IF n <= k - 1 THEN front[n] ELSE back[n - (k - 1)]
        BY <1>4, <1>6, <2>1, <2>2
      <3>2. n <= k - 1 => front[n] = s[n]
        BY <1>4
      <3>3. n > k - 1 => back[n - (k - 1)] = s[n + 1]
        <4>1. n > k - 1 => /\ n - (k - 1) \in 1..(Len(s) - k)
                           /\ k + (n - (k - 1)) = n + 1
          BY <1>1
        <4> QED
          BY <1>5, <4>1
      <3> QED
        BY <3>1, <3>2, <3>3
    <2> QED
      BY <1>6, <2>1, <2>2, <2>3
  <1>8. ASSUME NEW n \in 1..(Len(r) - 1)
        PROVE  r[n] < r[n + 1]
    <2>1. /\ r[n] = IF n < k THEN s[n] ELSE s[n + 1]
          /\ r[n + 1] = IF n + 1 < k THEN s[n + 1] ELSE s[n + 2]
      <3>1. n \in 1..(Len(s) - 1) /\ n + 1 \in 1..(Len(s) - 1) /\ (n + 1) + 1 = n + 2
        BY <1>1, <1>7
      <3>2. r[n] = IF n < k THEN s[n] ELSE s[n + 1]
        BY <1>7, <3>1
      <3>3. r[n + 1] = IF n + 1 < k THEN s[n + 1] ELSE s[(n + 1) + 1]
        BY <1>7, <3>1
      <3> QED
        BY <3>1, <3>2, <3>3
    <2>2. /\ s[n] < s[n + 1] /\ s[n + 1] < s[n + 2]
          /\ s[n] \in Nat /\ s[n + 1] \in Nat /\ s[n + 2] \in Nat
      <3>1. n \in 1..(Len(s) - 1) /\ n + 1 \in 1..(Len(s) - 1)
        BY <1>1, <1>7
      <3>2. (n + 1) + 1 = n + 2 /\ n + 2 \in 1..Len(s)
        BY <1>1, <3>1
      <3>3. s[n] < s[n + 1]
        BY <1>2, <3>1
      <3>4. s[n + 1] < s[(n + 1) + 1]
        BY <1>2, <3>1
      <3>5. s[n] \in D /\ s[n + 1] \in D /\ s[n + 2] \in D
        BY <1>1, <3>1, <3>2
      <3> QED
        BY <1>3, <3>2, <3>3, <3>4, <3>5
    <2> QED
      BY <2>1, <2>2
  <1>9. r \in Seq(1..Len(path))
    BY <1>7 DEF D
  <1> QED
    BY <1>8, <1>9 DEF Ascending, r

LEMMA AppendingAscends ==
  ASSUME NEW s \in Ascending, s # <<>>, NEW m \in 1..Len(path), Last(s) < m,
         Len(path) \in Nat
  PROVE  /\ Append(s, m) \in Ascending /\ Append(s, m) # <<>>
         /\ Last(Append(s, m)) = m
  <1> DEFINE D == 1..Len(path)
  <1>1. s \in Seq(D) /\ Len(s) \in Nat \ {0}
    BY LenProperties, EmptySeq DEF Ascending
  <1>2. \A n \in 1..(Len(s) - 1) : s[n] < s[n + 1]
    BY DEF Ascending
  <1>3. s[Len(s)] < m
    BY DEF Last
  <1>4. m \in D
    OBVIOUS
  <1> HIDE DEF D
  <1>5. /\ Append(s, m) \in Seq(D) /\ Len(Append(s, m)) = Len(s) + 1
        /\ \A n \in 1..Len(s) : Append(s, m)[n] = s[n]
        /\ Append(s, m)[Len(s) + 1] = m
    BY <1>1, <1>4, AppendProperties
  <1> DEFINE r == Append(s, m)
  <1> HIDE DEF r
  <1>6. ASSUME NEW n \in 1..(Len(r) - 1)
        PROVE  r[n] < r[n + 1]
    <2>1. CASE n = Len(s)
      BY <1>1, <1>3, <1>5, <2>1 DEF r
    <2>2. CASE n # Len(s)
      <3>1. n \in 1..(Len(s) - 1) /\ n + 1 \in 1..Len(s)
        BY <1>1, <1>5, <2>2 DEF r
      <3> QED
        BY <1>2, <1>5, <3>1 DEF r
    <2> QED
      BY <2>1, <2>2
  <1>7. r \in Ascending
    BY <1>5, <1>6 DEF Ascending, D, r
  <1>8. r # <<>> /\ Last(r) = m
    <2>1. Len(r) = Len(s) + 1 /\ r[Len(s) + 1] = m
      BY <1>5 DEF r
    <2>2. Len(<<>>) = 0 /\ Len(s) + 1 # 0
      BY <1>1
    <2> QED
      BY <2>1, <2>2 DEF Last
  <1> QED
    BY <1>7, <1>8 DEF r

\* The farthest vertex lies ahead, and on the route.
LEMMA FartherOn ==
  ASSUME Len(path) \in Nat, NEW i \in 1..(Len(path) - 1)
  PROVE  Farthest(i) \in (i + 1)..Len(path)
  <1> DEFINE last == Len(path)
             Far(s) == i + 2 * s < last /\ ChordOk(i, i + 2 * s)
             Loop(f, m) ==
               f = [s \in m..last |-> IF Far(s) THEN f[2 * s] ELSE s]
             doubled == CHOOSE f : Loop(f, 1)
             ok == i + doubled[1]
             bad == i + 2 * doubled[1]
             halve == [s \in [ok : Nat, bad : Nat] |->
                         LET mid == s.ok + (s.bad - s.ok) \div 2
                         IN IF s.ok + 1 >= s.bad THEN s
                            ELSE IF ChordOk(i, mid) THEN [s EXCEPT !.ok = mid]
                            ELSE [s EXCEPT !.bad = mid]]
             first == [ok |-> ok, bad |-> IF bad < last THEN bad ELSE last]
  <1>1. Farthest(i) = IF ChordOk(i, last) THEN last
                      ELSE Iterate(halve, first, last).ok
    BY DEF Farthest
  <1>2. ASSUME NEW s \in Nat, Far(s)
        PROVE  i + 2 * s < last
    BY <1>2
  <1> HIDE DEF Far
  <1>3. \E f : Loop(f, 1)
    <2> DEFINE G == {m \in 0..last : \E f : Loop(f, last + 1 - m)}
    <2>1. 0 \in G
      <3>1. Loop([s \in (last + 1 - 0)..last |-> s], last + 1 - 0)
        OBVIOUS
      <3> HIDE DEF Loop
      <3> QED
        BY <3>1
    <2>2. ASSUME NEW m \in 1..last, m - 1 \in G
          PROVE  m \in G
      <3> DEFINE low == last + 1 - m
      <3>1. low \in 1..last /\ last + 1 - (m - 1) = low + 1
        OBVIOUS
      <3>2. PICK f : Loop(f, low + 1)
        <4> HIDE DEF Loop
        <4> QED
          BY <2>2, <3>1
      <3> HIDE DEF low
      <3> DEFINE g == [s \in low..last |->
                         IF s = low THEN IF Far(low) THEN f[2 * low] ELSE low
                         ELSE f[s]]
      <3>3. ASSUME NEW s \in low..last
            PROVE  g[s] = IF Far(s) THEN g[2 * s] ELSE s
        <4>1. s \in 1..last
          BY <3>1
        <4>2. Far(s) => 2 * s \in (low + 1)..last
          BY <1>2, <3>1, <4>1
        <4>3. Far(s) => g[2 * s] = f[2 * s]
          BY <3>1, <4>2
        <4>4. s # low => f[s] = IF Far(s) THEN f[2 * s] ELSE s
          <5>1. s # low => s \in (low + 1)..last
            BY <3>1
          <5>2. \A t \in (low + 1)..last : f[t] = IF Far(t) THEN f[2 * t] ELSE t
            BY <3>2
          <5> QED
            BY <5>1, <5>2
        <4> QED
          BY <4>3, <4>4
      <3>4. Loop(g, low)
        BY <3>3
      <3> HIDE DEF Loop
      <3> QED
        BY <2>2, <3>4 DEF low
    <2> HIDE DEF G
    <2>3. last \in G
      <3>1. \A m \in 0..last : m \in G
        BY <2>1, <2>2, UpTo
      <3> QED
        BY <3>1
    <2>4. last + 1 - last = 1
      OBVIOUS
    <2> HIDE DEF Loop
    <2> QED
      BY <2>3, <2>4 DEF G
  <1>4. \A s \in 1..last : doubled[s] = IF Far(s) THEN doubled[2 * s] ELSE s
    <2>1. Loop(doubled, 1)
      <3> HIDE DEF Loop
      <3> QED
        BY <1>3
    <2> QED
      BY <2>1
  <1> HIDE DEF doubled
  <1> DEFINE Good(s) == i + s <= last => doubled[s] \in s..(last - i)
  <1>5. \A s \in 1..last : Good(s)
    <2> DEFINE G == {m \in 0..last : \A s \in (last + 1 - m)..last : Good(s)}
    <2>1. 0 \in G
      OBVIOUS
    <2>2. ASSUME NEW m \in 1..last, m - 1 \in G
          PROVE  m \in G
      <3> DEFINE low == last + 1 - m
      <3>1. low \in 1..last /\ last + 1 - (m - 1) = low + 1
        OBVIOUS
      <3>2. \A s \in (low + 1)..last : Good(s)
        <4> HIDE DEF Good
        <4> QED
          BY <2>2, <3>1
      <3> HIDE DEF low
      <3>3. Good(low)
        <4> SUFFICES ASSUME i + low <= last
                     PROVE  doubled[low] \in low..(last - i)
          OBVIOUS
        <4>1. CASE Far(low)
          <5>1. 2 * low \in (low + 1)..last /\ i + 2 * low <= last
            BY <1>2, <3>1, <4>1
          <5>2. doubled[2 * low] \in (2 * low)..(last - i)
            BY <3>2, <5>1
          <5>3. doubled[low] = doubled[2 * low]
            BY <1>4, <3>1, <4>1
          <5> QED
            BY <3>1, <5>2, <5>3
        <4>2. CASE ~ Far(low)
          BY <1>4, <3>1, <4>2
        <4> QED
          BY <4>1, <4>2
      <3> HIDE DEF Good
      <3>4. \A s \in low..last : Good(s)
        <4>1. \A s \in low..last : s = low \/ s \in (low + 1)..last
          BY <3>1
        <4> QED
          BY <3>2, <3>3, <4>1
      <3> QED
        BY <2>2, <3>4 DEF low
    <2> HIDE DEF G
    <2>3. last \in G
      <3>1. \A m \in 0..last : m \in G
        BY <2>1, <2>2, UpTo
      <3> QED
        BY <3>1
    <2>4. last + 1 - last = 1
      OBVIOUS
    <2> HIDE DEF Good
    <2> QED
      BY <2>3, <2>4 DEF G
  <1>6. doubled[1] \in 1..(last - i)
    BY <1>5
  <1> DEFINE H == {s \in [ok : Nat, bad : Nat] :
                     s.ok \in (i + 1)..last /\ s.bad <= last}
             Good2 == [k \in 0..last |-> H]
  <1>7. first \in H
    BY <1>6
  <1>8. ASSUME NEW s \in H
        PROVE  halve[s] \in H
    <2> DEFINE mid == s.ok + (s.bad - s.ok) \div 2
    <2>1. /\ s \in [ok : Nat, bad : Nat] /\ s.ok \in (i + 1)..last
          /\ s.bad \in Nat /\ s.bad <= last
      OBVIOUS
    <2>2. halve[s] = IF s.ok + 1 >= s.bad THEN s
                     ELSE IF ChordOk(i, mid) THEN [s EXCEPT !.ok = mid]
                     ELSE [s EXCEPT !.bad = mid]
      BY <2>1
    <2>3. s.ok + 1 < s.bad => mid \in (i + 1)..last
      BY <2>1
    <2> HIDE DEF mid
    <2> QED
      BY <2>1, <2>2, <2>3
  <1> HIDE DEF halve, first, H
  <1>9. Iterate(halve, first, last) \in H
    <2>1. first \in Good2[0]
      BY <1>7
    <2>2. \A k \in 1..last : \A s \in Good2[k - 1] : halve[s] \in Good2[k]
      BY <1>8
    <2>3. Good2[last] = H
      OBVIOUS
    <2> HIDE DEF Good2
    <2>4. Iterate(halve, first, last) \in Good2[last]
      BY <2>1, <2>2, Iterating
    <2> QED
      BY <2>3, <2>4
  <1>10. Iterate(halve, first, last).ok \in (i + 1)..last
    BY <1>9 DEF H
  <1> QED
    BY <1>1, <1>10

\* Thinning leaves a route of ascending indices.
LEMMA PolishingAscends ==
  ASSUME NEW seq \in Ascending, Len(path) \in Nat
  PROVE  PolishPass(seq) \in Ascending
  <1> DEFINE look == [s \in [seq : Seq(Nat), at : Nat] |->
                        IF s.at >= Len(s.seq) THEN s
                        ELSE IF ChordOk(s.seq[s.at - 1], s.seq[s.at + 1])
                          THEN [s EXCEPT !.seq = RemoveAt(s.seq, s.at)]
                        ELSE [s EXCEPT !.at = s.at + 1]]
             first == [seq |-> seq, at |-> 2]
             H == [seq : Ascending, at : Nat \ {0, 1}]
             Good == [k \in 0..Len(seq) |-> H]
  <1>1. PolishPass(seq) = Iterate(look, first, Len(seq)).seq
    BY DEF PolishPass
  <1>2. Len(seq) \in Nat
    BY LenProperties DEF Ascending
  <1>3. Ascending \subseteq Seq(Nat)
    BY SeqMonotonic DEF Ascending
  <1>4. ASSUME NEW s \in H
        PROVE  look[s] \in H
    <2>1. s \in [seq : Seq(Nat), at : Nat] /\ s.seq \in Ascending /\ s.at \in Nat \ {0, 1}
      BY <1>3
    <2>2. look[s] = IF s.at >= Len(s.seq) THEN s
                    ELSE IF ChordOk(s.seq[s.at - 1], s.seq[s.at + 1])
                      THEN [s EXCEPT !.seq = RemoveAt(s.seq, s.at)]
                    ELSE [s EXCEPT !.at = s.at + 1]
      BY <2>1
    <2>3. ~ (s.at >= Len(s.seq)) => RemoveAt(s.seq, s.at) \in Ascending
      <3> SUFFICES ASSUME ~ (s.at >= Len(s.seq))
                   PROVE  RemoveAt(s.seq, s.at) \in Ascending
        OBVIOUS
      <3>1. Len(s.seq) \in Nat
        BY <2>1, LenProperties DEF Ascending
      <3>2. s.at \in 2..(Len(s.seq) - 1)
        BY <2>1, <3>1
      <3> QED
        BY <2>1, <3>2, Removing
    <2> HIDE DEF look
    <2>4. CASE s.at >= Len(s.seq)
      BY <2>2, <2>4
    <2>5. CASE ~ (s.at >= Len(s.seq)) /\ ChordOk(s.seq[s.at - 1], s.seq[s.at + 1])
      <3>1. look[s] = [s EXCEPT !.seq = RemoveAt(s.seq, s.at)]
        BY <2>2, <2>5
      <3>2. RemoveAt(s.seq, s.at) \in Ascending
        BY <2>3, <2>5
      <3> QED
        BY <3>1, <3>2
    <2>6. CASE ~ (s.at >= Len(s.seq)) /\ ~ ChordOk(s.seq[s.at - 1], s.seq[s.at + 1])
      <3>1. look[s] = [s EXCEPT !.at = s.at + 1]
        BY <2>2, <2>6
      <3>2. s.at + 1 \in Nat \ {0, 1}
        BY <2>1
      <3> QED
        BY <3>1, <3>2
    <2> QED
      BY <2>4, <2>5, <2>6
  <1>5. first \in H
    OBVIOUS
  <1> HIDE DEF look, first, H
  <1>6. Iterate(look, first, Len(seq)) \in H
    <2>1. first \in Good[0]
      BY <1>2, <1>5
    <2>2. \A k \in 1..Len(seq) : \A s \in Good[k - 1] : look[s] \in Good[k]
      BY <1>2, <1>4
    <2>3. Good[Len(seq)] = H
      BY <1>2
    <2> HIDE DEF Good
    <2>4. Iterate(look, first, Len(seq)) \in Good[Len(seq)]
      BY <1>2, <2>1, <2>2, Iterating
    <2> QED
      BY <2>3, <2>4
  <1> QED
    BY <1>1, <1>6 DEF H

\* The corner scan inserts, or leaves the route as it is.
LEMMA CornersInsert ==
  ASSUME NEW seq \in Ascending, Len(path) \in Nat
  PROVE  /\ CornerScan(seq).seq \in Ascending
         /\ CornerScan(seq).seq = seq \/ Len(CornerScan(seq).seq) > Len(seq)
  <1> DEFINE Right(a, b, c) == c > b + 1 /\ (b <= a + 1 \/ c - b >= b - a)
             Left(a, b, c) == ~ Right(a, b, c) /\ b > a + 1
             Grown(q, n, a, b, c) ==
               IF InnerChordBlocked(a, b, c) /\ Right(a, b, c)
                 THEN InsertAt(q, n + 2, b + (c - b) \div 2)
               ELSE IF InnerChordBlocked(a, b, c) /\ Left(a, b, c)
                 THEN InsertAt(q, n + 1, a + (b - a) \div 2)
               ELSE q
             Dense(d, a, b, c) ==
               d \/ (InnerChordBlocked(a, b, c) /\ ~ Right(a, b, c) /\ ~ Left(a, b, c))
             look == [s \in [seq : Seq(Nat), at : Nat, dense : BOOLEAN] |->
               IF s.at + 2 > Len(s.seq) THEN s
               ELSE LET a == s.seq[s.at]
                        b == s.seq[s.at + 1]
                        c == s.seq[s.at + 2]
                    IN [seq |-> Grown(s.seq, s.at, a, b, c), at |-> s.at + 1,
                        dense |-> Dense(s.dense, a, b, c)]]
             first == [seq |-> seq, at |-> 1, dense |-> FALSE]
             H == {s \in [seq : Ascending, at : Nat \ {0}, dense : BOOLEAN] :
                     s.seq = seq \/ Len(s.seq) > Len(seq)}
             Good == [k \in 0..Len(path) |-> H]
  <1>1. CornerScan(seq) = Iterate(look, first, Len(path))
    BY DEF CornerScan
  <1>2. Ascending \subseteq Seq(Nat)
    BY SeqMonotonic DEF Ascending
  <1>3. ASSUME NEW q \in Ascending, NEW n \in Nat \ {0}, n + 2 <= Len(q)
        PROVE  LET r == Grown(q, n, q[n], q[n + 1], q[n + 2])
               IN r \in Ascending /\ (r = q \/ Len(r) = Len(q) + 1)
    <2> DEFINE a == q[n]
               b == q[n + 1]
               c == q[n + 2]
    <2>1. Len(q) \in Nat /\ a \in Nat /\ b \in Nat /\ c \in Nat
      BY <1>2, <1>3, LenProperties, ElementOfSeq
    <2>2. n \in 1..(Len(q) - 1) /\ n + 1 \in 1..(Len(q) - 1)
      BY <1>3, <2>1
    <2>3. (n + 1) + 1 = n + 2
      OBVIOUS
    <2> HIDE DEF a, b, c
    <2>4. c > b + 1 => /\ InsertAt(q, n + 2, b + (c - b) \div 2) \in Ascending
                       /\ Len(InsertAt(q, n + 2, b + (c - b) \div 2)) = Len(q) + 1
      <3> SUFFICES ASSUME c > b + 1
                   PROVE  /\ InsertAt(q, n + 2, b + (c - b) \div 2) \in Ascending
                          /\ Len(InsertAt(q, n + 2, b + (c - b) \div 2)) = Len(q) + 1
        OBVIOUS
      <3> DEFINE m == b + (c - b) \div 2
      <3>1. m \in Int /\ b < m /\ m < c
        BY <2>1
      <3> HIDE DEF m
      <3>2. q[n + 1] < m /\ m < q[(n + 1) + 1]
        BY <2>3, <3>1 DEF b, c
      <3>3. /\ InsertAt(q, (n + 1) + 1, m) \in Ascending
            /\ Len(InsertAt(q, (n + 1) + 1, m)) = Len(q) + 1
        BY <2>2, <3>1, <3>2, Inserting
      <3> QED
        BY <2>3, <3>3 DEF m
    <2>5. b > a + 1 => /\ InsertAt(q, n + 1, a + (b - a) \div 2) \in Ascending
                       /\ Len(InsertAt(q, n + 1, a + (b - a) \div 2)) = Len(q) + 1
      <3> SUFFICES ASSUME b > a + 1
                   PROVE  /\ InsertAt(q, n + 1, a + (b - a) \div 2) \in Ascending
                          /\ Len(InsertAt(q, n + 1, a + (b - a) \div 2)) = Len(q) + 1
        OBVIOUS
      <3> DEFINE m == a + (b - a) \div 2
      <3>1. m \in Int /\ a < m /\ m < b
        BY <2>1
      <3> HIDE DEF m
      <3>2. /\ InsertAt(q, n + 1, m) \in Ascending
            /\ Len(InsertAt(q, n + 1, m)) = Len(q) + 1
        BY <2>2, <3>1, Inserting DEF a, b
      <3> QED
        BY <3>2 DEF m
    <2> QED
      BY <2>4, <2>5 DEF a, b, c
  <1>4. ASSUME NEW s \in H
        PROVE  look[s] \in H
    <2>1. /\ s \in [seq : Seq(Nat), at : Nat, dense : BOOLEAN]
          /\ s.seq \in Ascending /\ s.at \in Nat \ {0} /\ s.dense \in BOOLEAN
          /\ s.seq = seq \/ Len(s.seq) > Len(seq)
      BY <1>2
    <2>2. Len(s.seq) \in Nat /\ Len(seq) \in Nat
      BY <1>2, <2>1, LenProperties
    <2>3. CASE s.at + 2 > Len(s.seq)
      <3>1. look[s] = s
        BY <2>1, <2>3
      <3> QED
        BY <3>1
    <2>4. CASE ~ (s.at + 2 > Len(s.seq))
      <3> DEFINE a == s.seq[s.at]
                 b == s.seq[s.at + 1]
                 c == s.seq[s.at + 2]
                 r == Grown(s.seq, s.at, a, b, c)
                 d == Dense(s.dense, a, b, c)
      <3>1. look[s] = [seq |-> r, at |-> s.at + 1, dense |-> d]
        BY <2>1, <2>4
      <3>2. r \in Ascending /\ (r = s.seq \/ Len(r) = Len(s.seq) + 1)
        <4>1. s.at + 2 <= Len(s.seq)
          BY <2>1, <2>2, <2>4
        <4> HIDE DEF Grown
        <4> QED
          BY <1>3, <2>1, <4>1
      <3>3. d \in BOOLEAN
        OBVIOUS
      <3>4. s.at + 1 \in Nat \ {0}
        BY <2>1
      <3> HIDE DEF look, r, d
      <3>5. r = seq \/ Len(r) > Len(seq)
        BY <2>1, <2>2, <3>2
      <3> QED
        BY <3>1, <3>2, <3>3, <3>4, <3>5
    <2> QED
      BY <2>3, <2>4
  <1>5. first \in H
    OBVIOUS
  <1> HIDE DEF look, first, H
  <1>6. Iterate(look, first, Len(path)) \in H
    <2>1. first \in Good[0]
      BY <1>5
    <2>2. \A k \in 1..Len(path) : \A s \in Good[k - 1] : look[s] \in Good[k]
      BY <1>4
    <2>3. Good[Len(path)] = H
      OBVIOUS
    <2> HIDE DEF Good
    <2>4. Iterate(look, first, Len(path)) \in Good[Len(path)]
      BY <2>1, <2>2, Iterating
    <2> QED
      BY <2>3, <2>4
  <1> QED
    BY <1>1, <1>6 DEF H

\* A chord that is a raw segment, or was looked at.
Held(a, b) == b <= a + 1 \/ ChordFree(a, b)
AllHeld(s) == \A n \in 1..(Len(s) - 1) : Held(s[n], s[n + 1])

\* The validation scan inserts, or has looked at every chord of the route.
LEMMA ValidationHolds ==
  ASSUME NEW seq \in Ascending, Len(path) \in Nat
  PROVE  /\ ValidationScan(seq) \in Ascending
         /\ \/ ValidationScan(seq) = seq /\ AllHeld(seq)
            \/ Len(ValidationScan(seq)) > Len(seq)
  <1> DEFINE look == [s \in [seq : Seq(Nat), at : Nat] |->
               IF s.at + 1 > Len(s.seq) THEN s
               ELSE LET a == s.seq[s.at]
                        b == s.seq[s.at + 1]
                    IN IF b <= a + 1 \/ ChordFree(a, b)
                         THEN [s EXCEPT !.at = s.at + 1]
                       ELSE [seq |-> InsertAt(s.seq, s.at + 1, a + (b - a) \div 2),
                             at |-> s.at + 2]]
             first == [seq |-> seq, at |-> 1]
             Passed(s) == \A n \in 1..(Len(seq) - 1) :
                            n < s.at => Held(seq[n], seq[n + 1])
             \* How far it has come, however much it inserted.
             Ahead(s, k) == s.at + 1 > Len(s.seq) \/ Len(s.seq) - s.at < Len(seq) - k
             Good == [k \in 0..Len(seq) |->
                        {s \in [seq : Ascending, at : Nat \ {0}] :
                           /\ Ahead(s, k)
                           /\ (s.seq = seq /\ Passed(s)) \/ Len(s.seq) > Len(seq)}]
  <1>1. ValidationScan(seq) = Iterate(look, first, Len(seq)).seq
    BY DEF ValidationScan
  <1>2. Ascending \subseteq Seq(Nat)
    BY SeqMonotonic DEF Ascending
  <1>3. Len(seq) \in Nat
    BY <1>2, LenProperties
  <1>4. ASSUME NEW k \in 1..Len(seq), NEW s \in Good[k - 1]
        PROVE  look[s] \in Good[k]
    <2>1. /\ s \in [seq : Seq(Nat), at : Nat]
          /\ s.seq \in Ascending /\ s.at \in Nat \ {0}
          /\ (s.seq = seq /\ Passed(s)) \/ Len(s.seq) > Len(seq)
          /\ Ahead(s, k - 1)
      BY <1>2, <1>3
    <2>2. Len(s.seq) \in Nat
      BY <1>2, <2>1, LenProperties
    <2> DEFINE a == s.seq[s.at]
               b == s.seq[s.at + 1]
               longer == InsertAt(s.seq, s.at + 1, a + (b - a) \div 2)
    <2>3. look[s] = IF s.at + 1 > Len(s.seq) THEN s
                    ELSE IF Held(a, b) THEN [s EXCEPT !.at = s.at + 1]
                    ELSE [seq |-> longer, at |-> s.at + 2]
      BY <2>1 DEF Held
    <2>4. ASSUME NEW t \in [seq : Ascending, at : Nat \ {0}], Ahead(t, k),
                 (t.seq = seq /\ Passed(t)) \/ Len(t.seq) > Len(seq)
          PROVE  t \in Good[k]
      BY <1>3, <2>4
    <2>5. s.at \in Nat \ {0}
      BY <2>1
    <2>6. k \in Nat
      BY <1>3
    <2>7. s.at + 1 <= Len(s.seq) => Len(s.seq) - s.at < Len(seq) - (k - 1)
      BY <2>1, <2>2, <2>5
    <2> HIDE DEF look, Good, Passed
    <2>8. CASE s.at + 1 > Len(s.seq)
      <3>1. look[s] = s /\ Ahead(s, k)
        BY <2>3, <2>8
      <3>2. s \in [seq : Ascending, at : Nat \ {0}]
        BY <2>1
      <3> HIDE DEF Ahead
      <3> QED
        BY <2>1, <2>4, <3>1, <3>2
    <2>9. CASE s.at + 1 <= Len(s.seq) /\ Held(a, b)
      <3> DEFINE t == [s EXCEPT !.at = s.at + 1]
      <3>1. look[s] = t
        BY <2>1, <2>2, <2>3, <2>9
      <3>2. t \in [seq : Ascending, at : Nat \ {0}] /\ t.seq = s.seq /\ t.at = s.at + 1
        <4>1. /\ s \in [seq : Seq(Nat), at : Nat]
              /\ s.seq \in Ascending /\ s.at \in Nat \ {0}
          BY <2>1
        <4>2. t.seq = s.seq /\ t.at = s.at + 1
          BY <4>1
        <4>3. t = [seq |-> s.seq, at |-> s.at + 1]
          BY <4>1
        <4>4. s.at + 1 \in Nat \ {0}
          BY <4>1
        <4> HIDE DEF t
        <4> QED
          BY <4>1, <4>2, <4>3, <4>4
      <3> HIDE DEF t
      <3>3. Ahead(t, k)
        <4>1. Len(t.seq) = Len(s.seq) /\ t.at = s.at + 1
          BY <3>2
        <4>2. Len(s.seq) - s.at < Len(seq) - (k - 1)
          BY <2>9, <2>7
        <4>3. Len(s.seq) - (s.at + 1) < Len(seq) - k
          BY <1>3, <2>2, <2>5, <2>6, <4>2
        <4> QED
          BY <4>1, <4>3
      <3>4. s.seq = seq /\ Passed(s) => Passed(t)
        <4> SUFFICES ASSUME s.seq = seq, Passed(s), NEW n \in 1..(Len(seq) - 1),
                            n < t.at
                     PROVE  Held(seq[n], seq[n + 1])
          BY DEF Passed
        <4>1. n < s.at \/ n = s.at
          BY <2>1, <3>2
        <4>2. n < s.at => Held(seq[n], seq[n + 1])
          BY DEF Passed
        <4>3. n = s.at => Held(seq[n], seq[n + 1])
          BY <2>9
        <4> QED
          BY <4>1, <4>2, <4>3
      <3> HIDE DEF Ahead
      <3> QED
        BY <2>1, <2>4, <3>1, <3>2, <3>3, <3>4
    <2>10. CASE s.at + 1 <= Len(s.seq) /\ ~ Held(a, b)
      <3>1. look[s] = [seq |-> longer, at |-> s.at + 2]
        BY <2>1, <2>2, <2>3, <2>10
      <3>2. s.at \in 1..(Len(s.seq) - 1) /\ a \in Nat /\ b \in Nat
        <4>1. s.at + 1 <= Len(s.seq)
          BY <2>10
        <4>2. /\ s.at \in 1..(Len(s.seq) - 1) /\ s.at + 1 \in 1..Len(s.seq)
              /\ s.at \in 1..Len(s.seq)
          BY <2>2, <2>5, <4>1
        <4>3. s.seq \in Seq(Nat)
          BY <1>2, <2>1
        <4> QED
          BY <4>2, <4>3, ElementOfSeq
      <3> HIDE DEF a, b
      <3>3. b > a + 1
        BY <2>10, <3>2 DEF Held
      <3> DEFINE m == a + (b - a) \div 2
      <3>4. m \in Int /\ a < m /\ m < b
        BY <3>2, <3>3
      <3> HIDE DEF m
      <3>5. longer \in Ascending /\ Len(longer) = Len(s.seq) + 1
        <4>1. /\ InsertAt(s.seq, s.at + 1, m) \in Ascending
              /\ Len(InsertAt(s.seq, s.at + 1, m)) = Len(s.seq) + 1
          BY <2>1, <3>2, <3>4, Inserting DEF a, b
        <4> QED
          BY <4>1 DEF m
      <3> HIDE DEF longer
      <3> DEFINE t == [seq |-> longer, at |-> s.at + 2]
      <3>6. t \in [seq : Ascending, at : Nat \ {0}] /\ t.seq = longer /\ t.at = s.at + 2
        <4>1. s.at + 2 \in Nat \ {0}
          BY <2>5
        <4> QED
          BY <3>5, <4>1
      <3> HIDE DEF t
      <3>7. Ahead(t, k)
        <4>1. Len(t.seq) = Len(s.seq) + 1 /\ t.at = s.at + 2
          BY <3>5, <3>6
        <4>2. Len(s.seq) - s.at < Len(seq) - (k - 1)
          BY <2>10, <2>7
        <4>3. (Len(s.seq) + 1) - (s.at + 2) < Len(seq) - k
          BY <1>3, <2>2, <2>5, <2>6, <4>2
        <4> QED
          BY <4>1, <4>3
      <3>8. Len(t.seq) > Len(seq)
        BY <1>3, <2>1, <2>2, <3>5, <3>6
      <3> HIDE DEF Ahead
      <3> QED
        BY <2>4, <3>1, <3>6, <3>7, <3>8 DEF t
    <2> QED
      BY <2>1, <2>2, <2>8, <2>9, <2>10
  <1>5. first \in Good[0]
    <2>1. first \in [seq : Ascending, at : Nat \ {0}] /\ first.seq = seq /\ first.at = 1
      OBVIOUS
    <2>2. Ahead(first, 0)
      BY <1>3, <2>1
    <2>3. Passed(first)
      BY <1>3, <2>1
    <2> HIDE DEF first, Ahead, Passed
    <2> QED
      BY <1>3, <2>1, <2>2, <2>3
  <1> DEFINE s == Iterate(look, first, Len(seq))
  <1>6. s \in Good[Len(seq)]
    <2> HIDE DEF Good, look, first
    <2> QED
      BY <1>3, <1>4, <1>5, Iterating
  <1> HIDE DEF look, first, s
  <1>7. /\ s.seq \in Ascending /\ s.at \in Nat
        /\ Ahead(s, Len(seq))
        /\ (s.seq = seq /\ Passed(s)) \/ Len(s.seq) > Len(seq)
    BY <1>3, <1>6
  <1>8. s.seq = seq /\ Passed(s) => AllHeld(seq)
    <2> SUFFICES ASSUME s.seq = seq, Passed(s), NEW n \in 1..(Len(seq) - 1)
                 PROVE  Held(seq[n], seq[n + 1])
      BY DEF AllHeld
    <2>1. n < s.at
      BY <1>3, <1>7
    <2> QED
      BY <2>1
  <1> QED
    BY <1>1, <1>7, <1>8 DEF s

\* A round of the guard that inserts nothing has looked at every chord.
LEMMA RoundHolds ==
  ASSUME NEW seq \in Ascending, Len(path) \in Nat
  PROVE  LET next == ValidationScan(CornerScan(seq).seq)
         IN next \in Ascending /\ (next = seq => AllHeld(seq))
  <1> DEFINE c == CornerScan(seq).seq
  <1>1. c \in Ascending /\ (c = seq \/ Len(c) > Len(seq))
    BY CornersInsert
  <1> HIDE DEF c
  <1>2. Len(c) \in Nat /\ Len(seq) \in Nat
    BY <1>1, LenProperties DEF Ascending
  <1>3. /\ ValidationScan(c) \in Ascending
        /\ (ValidationScan(c) = c /\ AllHeld(c)) \/ Len(ValidationScan(c)) > Len(c)
    BY <1>1, ValidationHolds
  <1>4. ValidationScan(c) = seq => c = seq
    BY <1>1, <1>2, <1>3
  <1>5. ValidationScan(c) = seq => AllHeld(seq)
    BY <1>1, <1>2, <1>3, <1>4
  <1> QED
    BY <1>3, <1>5 DEF c

\* A route of a hard pass, on its way through the simplifier: it is the marched
\* one, the guard starts with work to do, and when it ends with none every
\* chord is held.
Marched == zone_avoid_pass \in {1, 3}

SimplifyInv ==
  /\ front_end # "FM2" => zone_avoid_pass = 0
  /\ front_end = "FM2" => stage = "ready"
  /\ Marched => zone_lexico_hard
  /\ Marched /\ fm_stage = "finished" => Len(fm2_path) \in Nat
  /\ simp = "idle" => kept = <<1>>
  /\ simp \in {"idle", "greedy", "polish"} => guard.refined
  /\ front_end = "FM2" /\ simp # "idle" => fm_stage = "finished" /\ path = fm2_path
  /\ Marched /\ simp \in {"greedy", "polish", "guard"} => kept \in Ascending
  /\ Marched /\ simp = "greedy" => kept # <<>> /\ Last(kept) < Len(path)
  /\ Marched /\ ~ guard.refined => kept \in Ascending /\ AllHeld(kept)

\* The route and the world standing, what was held of a chord is held still.
LEMMA StillHeld ==
  ASSUME UNCHANGED <<path, scene, fmVars>>
  PROVE  /\ Ascending' = Ascending
         /\ \A a, b : Held(a, b)' = Held(a, b)
  <1>1. /\ UNCHANGED <<scene, fm2_F, fm2_T, fm2_valid, zone_soft_override>>
        /\ UNCHANGED zone_lexico_hard
    BY DEF fmVars
  <1>2. \A p : InHardZone(p)' = InHardZone(p)
    BY <1>1, SameZones
  <1>3. \A p : Occupied(p)' = Occupied(p)
    BY DEF Occupied, TerrainKnown, TerrainHeight, InMap
  <1>4. \A a, b : ChordFree(a, b)' = ChordFree(a, b)
    BY <1>1, <1>2, <1>3 DEF ChordFree
  <1>5. \A a, b : Held(a, b)' = Held(a, b)
    BY <1>4 DEF Held
  <1>6. Ascending' = Ascending
    BY DEF Ascending
  <1> QED
    BY <1>5, <1>6

\* A step of the march comes before the simplifier's first.
LEMMA MarchFirst ==
  ASSUME MarchInv, FieldInv, SimplifyInv, ByMarching
  PROVE  SimplifyInv'
  <1>1. /\ front_end = "FM2" /\ FMNext
        /\ UNCHANGED <<front_end, stage, simp, path, kept, guard>>
    BY DEF ByMarching, searchVars, simpVars
  <1>2. fm_stage # "finished"
    BY <1>1 DEF FMNext, BeginPasses, BuildSpeedMap, SolveEikonal, Accept,
                Soften, MarkCrossings, ExtractRoute
  <1>3. simp = "idle" /\ kept = <<1>> /\ guard.refined
    BY <1>1, <1>2 DEF SimplifyInv
  <1>4. Marched' => zone_lexico_hard'
    <2>1. CASE BeginPasses
      BY <2>1 DEF BeginPasses, Marched
    <2>2. CASE ExtractRoute
      <3>1. zone_lexico_hard' = (todo > 0)
        BY <2>2 DEF ExtractRoute
      <3>2. Marched' => todo > 0
        BY <2>2 DEF ExtractRoute, Marched
      <3> QED
        BY <3>1, <3>2
    <2>3. CASE UNCHANGED <<zone_avoid_pass, zone_lexico_hard>>
      BY <2>3 DEF Marched, SimplifyInv
    <2> QED
      BY <1>1, <2>1, <2>2, <2>3 DEF FMNext, BuildSpeedMap, SolveEikonal, Accept,
                                    Soften, MarkCrossings
  <1>5. Marched' /\ fm_stage' = "finished" => Len(fm2_path') \in Nat
    <2> SUFFICES ASSUME Marched', fm_stage' = "finished"
                 PROVE  Len(fm2_path') \in Nat
      OBVIOUS
    <2>1. ExtractRoute
      BY <1>1 DEF FMNext, BeginPasses, BuildSpeedMap, SolveEikonal, Accept,
                  Soften, MarkCrossings
    <2>2. todo \in {1, 3} /\ fm_stage = "extract"
      BY <2>1 DEF ExtractRoute, Marched, MarchInv
    <2>3. HardOk
      BY <2>2 DEF MarchInv
    <2>4. fm2_path' = Geodesic.path
      BY <2>1, <2>3 DEF ExtractRoute, HardOk
    <2> QED
      BY <2>3, <2>4, GeodesicIsFinite DEF HardOk, FieldInv, Field
  <1> QED
    BY <1>1, <1>3, <1>4, <1>5 DEF SimplifyInv

\* The simplifier takes over the route of the march that ended.
LEMMA RouteTaken ==
  ASSUME SimplifyInv, HandOn
  PROVE  SimplifyInv'
  <1>1. UNCHANGED <<front_end, stage, fm_stage, fm2_path, zone_avoid_pass,
                    zone_lexico_hard, kept, guard>>
    BY DEF HandOn, TakeRaw, searchVars, fmVars
  <1>2. simp = "idle" /\ kept = <<1>> /\ guard.refined
    BY DEF HandOn, TakeRaw, SimplifyInv
  <1>3. simp' \in {"greedy", "done"}
    BY DEF HandOn, TakeRaw
  <1>4. front_end = "FM2" => fm_stage = "finished" /\ path' = fm2_path
    BY DEF HandOn, TakeRaw, SimplifyInv
  <1>5. Marched /\ simp' = "greedy" =>
          kept' \in Ascending' /\ kept' # <<>> /\ Last(kept') < Len(path')
    <2> SUFFICES ASSUME Marched, simp' = "greedy"
                 PROVE  kept' \in Ascending' /\ kept' # <<>> /\ Last(kept') < Len(path')
      OBVIOUS
    <2>1. front_end = "FM2"
      BY DEF Marched, SimplifyInv
    <2>2. Len(path') \in Nat /\ ~ (Len(path') <= 2)
      BY <1>4, <2>1 DEF SimplifyInv, HandOn, TakeRaw
    <2>3. <<1>> \in Seq(1..Len(path')) /\ Len(<<1>>) = 1
      BY <2>2
    <2>4. <<1>> # <<>> /\ Last(<<1>>) = 1
      BY DEF Last
    <2>5. <<1>> \in Ascending'
      BY <2>3 DEF Ascending
    <2> QED
      BY <1>1, <1>2, <2>2, <2>4, <2>5
  <1>6. Marched' = Marched
    BY <1>1 DEF Marched
  <1> QED
    BY <1>1, <1>2, <1>3, <1>4, <1>5, <1>6 DEF SimplifyInv

\* A step of the simplifier.
LEMMA SimplifierStep ==
  ASSUME SimplifyInv, Simplify
  PROVE  SimplifyInv'
  <1>1. /\ UNCHANGED <<front_end, stage, path, scene, fmVars>>
        /\ simp # "idle" /\ simp' # "idle"
    BY DEF Simplify, SimplifyNext, KeepNext, Polish, GuardRound, DropNear,
           SweepRound, MergeNear, searchVars
  <1>2. UNCHANGED <<fm_stage, fm2_path, zone_avoid_pass, zone_lexico_hard>>
    BY <1>1 DEF fmVars
  <1>3. Marched' = Marched
    BY <1>2 DEF Marched
  <1>4. Ascending' = Ascending /\ \A a, b : Held(a, b)' = Held(a, b)
    BY <1>1, StillHeld
  <1>5. Marched => Len(path) \in Nat
    BY <1>1 DEF SimplifyInv, Marched
  <1>6. SUFFICES
          /\ simp' \in {"greedy", "polish"} => guard'.refined
          /\ Marched /\ simp' \in {"greedy", "polish", "guard"} => kept' \in Ascending
          /\ Marched /\ simp' = "greedy" => kept' # <<>> /\ Last(kept') < Len(path)
          /\ Marched /\ ~ guard'.refined =>
               /\ kept' \in Ascending
               /\ \A n \in 1..(Len(kept') - 1) : Held(kept'[n], kept'[n + 1])
    BY <1>1, <1>2, <1>3, <1>4 DEF SimplifyInv, AllHeld
  <1>7. CASE KeepNext
    <2>1. /\ simp = "greedy" /\ kept' = Append(kept, Farthest(Last(kept)))
          /\ simp' = IF Last(kept') = Len(path) THEN "polish" ELSE "greedy"
          /\ guard' = guard
      BY <1>7 DEF KeepNext
    <2>2. guard'.refined
      BY <2>1 DEF SimplifyInv
    <2>3. Marched => /\ kept' \in Ascending /\ kept' # <<>>
                     /\ Last(kept') \in 1..Len(path)
      <3> SUFFICES ASSUME Marched
                   PROVE  /\ kept' \in Ascending /\ kept' # <<>>
                          /\ Last(kept') \in 1..Len(path)
        OBVIOUS
      <3>1. kept \in Ascending /\ kept # <<>> /\ Last(kept) < Len(path)
        BY <2>1 DEF SimplifyInv
      <3>2. Last(kept) \in 1..Len(path)
        BY <3>1, EmptySeq, ElementOfSeq DEF Last, Ascending
      <3>3. Farthest(Last(kept)) \in (Last(kept) + 1)..Len(path)
        BY <1>5, <3>1, <3>2, FartherOn
      <3> HIDE DEF Marched
      <3>4. Farthest(Last(kept)) \in 1..Len(path) /\ Last(kept) < Farthest(Last(kept))
        BY <1>5, <3>2, <3>3
      <3> QED
        BY <1>5, <2>1, <3>1, <3>4, AppendingAscends
    <2>4. Marched /\ simp' = "greedy" => Last(kept') < Len(path)
      BY <1>5, <2>1, <2>3
    <2> QED
      BY <2>1, <2>2, <2>3, <2>4
  <1>8. CASE Polish
    <2>1. /\ simp = "polish" /\ kept' = PolishPass(kept)
          /\ simp' \in {"polish", "guard"} /\ guard' = guard
      BY <1>8 DEF Polish
    <2>2. guard'.refined
      BY <2>1 DEF SimplifyInv
    <2>3. Marched => kept' \in Ascending
      BY <1>5, <2>1, PolishingAscends DEF SimplifyInv
    <2> QED
      BY <2>1, <2>2, <2>3
  <1>9. CASE GuardRound
    <2> DEFINE next == ValidationScan(CornerScan(kept).seq)
    <2>1. /\ simp = "guard" /\ kept' = next /\ simp' \in {"guard", "dedup"}
          /\ guard'.refined = (next # kept)
      BY <1>9 DEF GuardRound
    <2> HIDE DEF next
    <2>2. Marched => next \in Ascending /\ (next = kept => AllHeld(kept))
      BY <1>5, <2>1, RoundHolds DEF SimplifyInv, next
    <2> QED
      BY <2>1, <2>2 DEF AllHeld
  <1>10. CASE DropNear \/ SweepRound \/ MergeNear
    <2>1. /\ simp' \notin {"greedy", "polish", "guard"}
          /\ kept' = kept /\ guard' = guard
      BY <1>10 DEF DropNear, SweepRound, MergeNear
    <2> QED
      BY <2>1 DEF SimplifyInv, AllHeld
  <1> QED
    BY <1>7, <1>8, <1>9, <1>10 DEF Simplify, SimplifyNext

\* Every step of a query keeps the simplifier's invariant.
LEMMA SimplifyStep ==
  ASSUME MarchInv, FieldInv, SimplifyInv, [Next]_vars
  PROVE  SimplifyInv'
  <1>1. CASE ByMarching
    BY <1>1, MarchFirst
  <1>2. CASE BySearch
    <2>1. /\ front_end = "ASTAR" /\ UNCHANGED <<front_end, fmVars, simpVars>>
      BY <1>2 DEF BySearch
    <2>2. UNCHANGED <<fm_stage, fm2_path, zone_avoid_pass, zone_lexico_hard>>
      BY <2>1 DEF fmVars
    <2>3. UNCHANGED <<simp, kept, guard>>
      BY <2>1 DEF simpVars
    <2>4. zone_avoid_pass = 0 /\ ~ Marched'
      BY <2>1, <2>2 DEF SimplifyInv, Marched
    <2> QED
      BY <2>1, <2>2, <2>3, <2>4 DEF SimplifyInv
  <1>3. CASE HandOn
    BY <1>3, RouteTaken
  <1>4. CASE Simplify
    BY <1>4, SimplifierStep
  <1>5. CASE UNCHANGED vars
    <2>1. /\ UNCHANGED <<front_end, stage, path, scene, fmVars, simp, kept, guard>>
          /\ UNCHANGED <<fm_stage, fm2_path, zone_avoid_pass, zone_lexico_hard>>
      BY <1>5 DEF vars, searchVars, simpVars, fmVars
    <2>2. Ascending' = Ascending /\ \A a, b : Held(a, b)' = Held(a, b)
      BY <2>1, StillHeld
    <2>3. AllHeld(kept)' = AllHeld(kept)
      BY <2>1, <2>2 DEF AllHeld
    <2> QED
      BY <2>1, <2>2, <2>3 DEF SimplifyInv, Marched
  <1> QED
    BY <1>1, <1>2, <1>3, <1>4, <1>5 DEF Next, Answered

\* Every chord held, a thinned route is as clear of the hard volumes as the
\* route it was thinned from.
LEMMA HeldIsClear ==
  ASSUME SimplifyInv, PassLabelHonest
  PROVE  ShortcutKeepsThePolicy
  <1> SUFFICES ASSUME ~ guard.refined, Marched, NEW n \in 1..(Len(kept) - 1),
                      NEW p \in Between(path[kept[n]], path[kept[n + 1]])
               PROVE  ~ InHardZone(p)
    BY DEF ShortcutKeepsThePolicy, Marched
  <1>1. front_end = "FM2" /\ simp # "idle"
    BY DEF SimplifyInv, Marched
  <1>2. /\ fm_stage = "finished" /\ path = fm2_path /\ Len(path) \in Nat
        /\ zone_lexico_hard /\ kept \in Ascending /\ AllHeld(kept)
    BY <1>1 DEF SimplifyInv
  <1>3. \A q \in Body(path) : ~ InHardZone(q)
    BY <1>2 DEF PassLabelHonest, Marched
  <1> DEFINE a == kept[n]
             b == kept[n + 1]
  <1>4. a \in 1..Len(path) /\ b \in 1..Len(path) /\ a < b
    <2>1. kept \in Seq(1..Len(path)) /\ Len(kept) \in Nat /\ a < b
      BY <1>2, LenProperties DEF Ascending
    <2>2. n \in 1..Len(kept) /\ n + 1 \in 1..Len(kept)
      BY <2>1
    <2> QED
      BY <2>1, <2>2, ElementOfSeq
  <1>5. Held(a, b)
    BY <1>2 DEF AllHeld
  <1>6. CASE ChordFree(a, b)
    BY <1>2, <1>6 DEF ChordFree
  <1>7. CASE b <= a + 1
    <2> HIDE DEF a, b
    <2>1. a \in 1..(Len(path) - 1) /\ b = a + 1
      BY <1>2, <1>4, <1>7
    <2>2. p \in Between(path[a], path[a + 1])
      BY <2>1 DEF a, b
    <2>3. p \in Body(path)
      BY <2>1, <2>2 DEF Body
    <2> QED
      BY <1>3, <2>3
  <1> QED
    BY <1>5, <1>6, <1>7 DEF Held

-----------------------------------------------------------------------------
(***************************************************************************)
(* The query.                                                              *)
(***************************************************************************)

\* A step of the query is a step of the search or of the march, or leaves
\* them alone.
LEMMA QueryStep ==
  ASSUME [Next]_vars
  PROVE  /\ [SearchNext]_<<scene, searchVars>>
         /\ [FMNext]_<<scene, fmVars>>
  <1>1. CASE ByMarching
    <2>1. FMNext /\ UNCHANGED searchVars
      BY <1>1 DEF ByMarching
    <2>2. UNCHANGED scene
      BY <2>1 DEF FMNext, BeginPasses, BuildSpeedMap, SolveEikonal, Accept,
                  Soften, MarkCrossings, ExtractRoute
    <2> QED
      BY <2>1, <2>2
  <1>2. CASE BySearch
    <2>1. SearchNext /\ UNCHANGED fmVars
      BY <1>2 DEF BySearch
    <2>2. UNCHANGED scene
      BY <2>1 DEF SearchNext, BeginSearch, Seed, DropStale, ReachGoal, Expand,
                  Exhaust, Elevate, StraightLine, TakePath
    <2> QED
      BY <2>1, <2>2
  <1>3. CASE HandOn
    BY <1>3 DEF HandOn, TakeRaw
  <1>4. CASE Simplify
    BY <1>4 DEF Simplify, SimplifyNext, KeepNext, Polish, GuardRound, DropNear,
                SweepRound, MergeNear
  <1>5. CASE UNCHANGED vars
    BY <1>5 DEF vars
  <1> QED
    BY <1>1, <1>2, <1>3, <1>4, <1>5 DEF Next, Answered

\* What holds of every query's beginning.
LEMMA QueryInit ==
  ASSUME Init
  PROVE  SearchInv /\ MarchInv /\ FieldInv
  <1>1. IsScene(scene) /\ SearchInit /\ FMInit
    BY ScenesAssumption DEF Init
  <1>2. SearchInv
    BY <1>1, InitialInv
  <1>3. MarchInv
    BY <1>1 DEF FMInit, MarchInv, PassLabelHonest
  <1>4. FieldInv
    BY <1>1 DEF FMInit, FieldInv
  <1> QED
    BY <1>2, <1>3, <1>4

\* A search that ran dry says there is no way, and there is none: the nodes
\* the pool still holds of earlier searches hide no cell from this one
\* (AstarSearch, the round stamp of the neighbour loop).
THEOREM DryMeansNoWay == Spec => []FailureIsHonest
  <1>1. Init => SearchInv
    BY QueryInit
  <1>2. SearchInv /\ [Next]_vars => SearchInv'
    BY QueryStep, InvStep
  <1>3. SearchInv => FailureIsHonest
    BY NothingMissed
  <1> QED
    BY <1>1, <1>2, <1>3, PTL DEF Spec

\* The path a search returns is of this search from end to start: one free
\* cell at a time, at the price the goal's score says (retrievePath).
THEOREM PathIsItsOwn == Spec => []PathIsOfThisSearch
  <1>1. Init => SearchInv
    BY QueryInit
  <1>2. SearchInv /\ [Next]_vars => SearchInv'
    BY QueryStep, InvStep
  <1>3. SearchInv => PathIsOfThisSearch
    BY TrailIsThePath
  <1> QED
    BY <1>1, <1>2, <1>3, PTL DEF Spec

\* A marched route reported as zone-free or re-hardened keeps its whole body
\* out of every hard volume it was not allowed to cross (probeRouteOk).
THEOREM LabelIsHonest == Spec => []PassLabelHonest
  <1>1. Init => MarchInv
    BY QueryInit
  <1>2. MarchInv /\ [Next]_vars => MarchInv'
    BY QueryStep, MarchStep
  <1>3. MarchInv => PassLabelHonest
    BY DEF MarchInv
  <1> QED
    BY <1>1, <1>2, <1>3, PTL DEF Spec

\* The descent of a field gives up in no cell the march reached, and makes no
\* move to a point without a sample, whatever the map and the zones, though
\* most times are tentative when FM2* stops: "a strictly lower neighbour CELL
\* exists wherever T(cell) is finite and nonzero" (fm2ExtractGeodesic).
THEOREM DescentStaysOnField == Spec => []DescentKeepsToField
  <1>1. Init => FieldInv
    BY QueryInit
  <1>2. FieldInv /\ [Next]_vars => FieldInv'
    BY QueryStep, FieldStep
  <1>3. FieldInv => DescentKeepsToField
    BY DescentKeeps DEF FieldInv, Field, IsWalk, DescentKeepsToField
  <1> QED
    BY <1>1, <1>2, <1>3, PTL DEF Spec

\* A shortcut never re-enters what a hard pass kept out of: once the guard has
\* nothing left to insert, no chord of the thinned route crosses a hard volume,
\* neither one the thinning checked nor one the guard made (chordOccRisk and
\* the validation scan).
THEOREM ThinningKeepsThePolicy == Spec => []ShortcutKeepsThePolicy
  <1> DEFINE IInv == MarchInv /\ FieldInv /\ SimplifyInv
  <1>1. Init => IInv
    <2> SUFFICES ASSUME Init PROVE IInv
      OBVIOUS
    <2>1. MarchInv /\ FieldInv
      BY QueryInit
    <2>2. SimplifyInv
      BY DEF Init, SearchInit, FMInit, SimplifyInit, SimplifyInv, Marched
    <2> QED
      BY <2>1, <2>2
  <1>2. IInv /\ [Next]_vars => IInv'
    BY QueryStep, MarchStep, FieldStep, SimplifyStep
  <1>3. IInv => ShortcutKeepsThePolicy
    BY HeldIsClear DEF MarchInv
  <1> QED
    BY <1>1, <1>2, <1>3, PTL DEF Spec

=============================================================================
