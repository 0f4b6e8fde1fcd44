------------------------ MODULE SeedCorridor_proofs ------------------------
(***************************************************************************)
(* Proofs about one plan's corridor: a cap lifted for occlusion lets       *)
(* nothing be seen, the committed profile is the cheapest there is, and    *)
(* the cap clears the floor the solve is pressed above.                    *)
(***************************************************************************)
EXTENDS SeedCorridor, TLAPS, FiniteSetTheorems, FunctionTheorems,
        SequenceTheorems, NaturalsInduction, WellFoundedInduction

-----------------------------------------------------------------------------
(***************************************************************************)
(* Numbers and finite sets.                                                *)
(***************************************************************************)

\* Induction up to n, over the set of naturals a fact is known of.
LEMMA UpTo ==
  ASSUME NEW n \in Nat, NEW G, 0 \in G,
         \A i \in 1..n : i - 1 \in G => i \in G
  PROVE  \A i \in 0..n : i \in G
  <1> DEFINE T == {i \in 0..n : i \notin G}
  <1> SUFFICES ASSUME T # {} PROVE FALSE
    OBVIOUS
  <1>1. PICK m \in T : \A y \in T : ~ (<<y, m>> \in OpToRel(<, Nat))
    <2>1. T \subseteq Nat
      OBVIOUS
    <2> HIDE DEF T
    <2> QED
      BY <2>1, NatLessThanWellFounded, WFMin
  <1>2. m \in 1..n /\ m - 1 \in 0..n
    OBVIOUS
  <1>3. m - 1 \in T
    BY <1>2
  <1>4. <<m - 1, m>> \in OpToRel(<, Nat)
    BY <1>2 DEF OpToRel
  <1> QED
    BY <1>1, <1>3, <1>4

\* A finite set of integers that is not empty has a least and a greatest.
LEMMA Extremes ==
  ASSUME NEW S \in SUBSET Int, IsFiniteSet(S), S # {}
  PROVE  /\ Min(S) \in S /\ \A k \in S : Min(S) <= k
         /\ Max(S) \in S /\ \A k \in S : k <= Max(S)
  <1>1. PICK n \in Nat : ExistsSurjection(1..n, S)
    BY FS_NatSurjection
  <1>2. PICK f \in [1..n -> S] : \A s \in S : \E i \in 1..n : f[i] = s
    BY <1>1 DEF ExistsSurjection, Surjection
  <1> DEFINE Least(a, i) == \A j \in 1..i : f[a] <= f[j]
             Most(a, i) == \A j \in 1..i : f[j] <= f[a]
             G == {i \in 0..n : i = 0 \/ /\ \E a \in 1..i : Least(a, i)
                                         /\ \E a \in 1..i : Most(a, i)}
  <1>3. ASSUME NEW i \in 1..n, i - 1 \in G
        PROVE  i \in G
    <2>0. \A j \in 1..n : f[j] \in Int
      BY <1>2
    <2>1. CASE i = 1
      <3>1. Least(1, 1) /\ Most(1, 1)
        BY <2>0, <2>1
      <3> QED
        BY <2>1, <3>1
    <2>2. CASE i # 1
      <3>1. PICK a \in 1..(i - 1), b \in 1..(i - 1) :
               Least(a, i - 1) /\ Most(b, i - 1)
        BY <1>3, <2>2
      <3>2. \E c \in 1..i : Least(c, i)
        <4>1. CASE f[a] <= f[i]
          <5>1. Least(a, i)
            BY <3>1, <4>1
          <5> QED
            BY <5>1
        <4>2. CASE ~ (f[a] <= f[i])
          <5>1. Least(i, i)
            BY <2>0, <3>1, <4>2
          <5> QED
            BY <5>1
        <4> QED
          BY <4>1, <4>2
      <3>3. \E c \in 1..i : Most(c, i)
        <4>1. CASE f[i] <= f[b]
          <5>1. Most(b, i)
            BY <3>1, <4>1
          <5> QED
            BY <5>1
        <4>2. CASE ~ (f[i] <= f[b])
          <5>1. Most(i, i)
            BY <2>0, <3>1, <4>2
          <5> QED
            BY <5>1
        <4> QED
          BY <4>1, <4>2
      <3> HIDE DEF Least, Most
      <3> QED
        BY <3>2, <3>3
    <2> QED
      BY <2>1, <2>2
  <1>4. n \in G
    <2>1. 0 \in G
      OBVIOUS
    <2> HIDE DEF G
    <2>2. \A i \in 0..n : i \in G
      BY <1>3, <2>1, UpTo
    <2> QED
      BY <2>2
  <1>5. n # 0
    <2>1. PICK s \in S : TRUE
      OBVIOUS
    <2>2. PICK i \in 1..n : f[i] = s
      BY <1>2, <2>1
    <2> QED
      BY <2>2
  <1>6. PICK a \in 1..n, b \in 1..n : Least(a, n) /\ Most(b, n)
    BY <1>4, <1>5
  <1>7. /\ f[a] \in S /\ \A k \in S : f[a] <= k
        /\ f[b] \in S /\ \A k \in S : k <= f[b]
    BY <1>2, <1>6
  <1>8. /\ \E m \in S : \A k \in S : m <= k
        /\ \E m \in S : \A k \in S : m >= k
    BY <1>7
  <1>9. /\ Min(S) \in S /\ \A k \in S : Min(S) <= k
        /\ Max(S) \in S /\ \A k \in S : Max(S) >= k
    BY <1>8 DEF Min, Max
  <1> QED
    BY <1>9

\* The image of a finite set under a function is finite.
LEMMA FiniteImage ==
  ASSUME NEW f, IsFiniteSet(DOMAIN f)
  PROVE  IsFiniteSet({f[x] : x \in DOMAIN f})
  <1> DEFINE T == {f[x] : x \in DOMAIN f}
             g == [x \in DOMAIN f |-> f[x]]
  <1>1. g \in Surjection(DOMAIN f, T)
    BY DEF Surjection
  <1> HIDE DEF g
  <1> QED
    BY <1>1, FS_Surjection

\* A greater factor makes a greater product.
LEMMA Scaling ==
  ASSUME NEW a \in Int, NEW b \in Int, NEW c \in Nat, a <= b
  PROVE  a * c <= b * c
  OBVIOUS

\* Nor does a sign change a square.
LEMMA Squares ==
  ASSUME NEW a \in Int, NEW r \in Nat, Abs(a) > r
  PROVE  r * r <= a * a
  <1>1. CASE a < 0
    <2> DEFINE b == -a
    <2>1. b \in Nat /\ r <= b
      BY <1>1 DEF Abs
    <2>2. a * a = b * b
      BY <1>1
    <2> HIDE DEF b
    <2>3. r * r <= b * r /\ b * r <= b * b
      BY <2>1
    <2> QED
      BY <2>1, <2>2, <2>3
  <1>2. CASE ~ (a < 0)
    <2>1. a \in Nat /\ r <= a
      BY <1>2 DEF Abs
    <2>2. r * r <= a * r /\ a * r <= a * a
      BY <2>1
    <2> QED
      BY <2>1, <2>2
  <1> QED
    BY <1>1, <1>2

-----------------------------------------------------------------------------
(***************************************************************************)
(* The world of a plan.                                                    *)
(***************************************************************************)

\* The zones are finitely many, and so is what they reach.
LEMMA Zones ==
  ASSUME scene \in Scenes
  PROVE  /\ Range(scene.zones) \subseteq Zone
         /\ IsFiniteSet(Range(scene.zones))
  <1>1. scene.zones \in Seq(Zone)
    BY ScenesAssumption DEF IsScene
  <1> DEFINE zones == scene.zones
  <1>2. Len(zones) \in Nat /\ zones \in [1..Len(zones) -> Zone]
    BY <1>1
  <1> HIDE DEF zones
  <1>3. IsFiniteSet(1..Len(zones))
    <2>1. 1 \in Int /\ Len(zones) \in Int
      BY <1>2
    <2> QED
      BY <2>1, FS_Interval
  <1>4. DOMAIN zones = 1..Len(zones)
    BY <1>2
  <1>5. IsFiniteSet({zones[x] : x \in DOMAIN zones})
    BY <1>3, <1>4, FiniteImage
  <1>6. Range(zones) \subseteq Zone /\ IsFiniteSet(Range(zones))
    BY <1>2, <1>5 DEF Range
  <1> QED
    BY <1>6 DEF zones

LEMMA Reaches ==
  ASSUME scene \in Scenes
  PROVE  \E lo, hi \in Int :
           \A zn \in Range(scene.zones) :
             lo <= zn.x - zn.reach /\ zn.x + zn.reach <= hi
  <1> DEFINE Z == Range(scene.zones)
             f == [zn \in Z |-> zn.x - zn.reach]
             g == [zn \in Z |-> zn.x + zn.reach]
             F == {f[x] : x \in DOMAIN f}
             G == {g[x] : x \in DOMAIN g}
  <1>1. \A zn \in Z : zn.x \in Int /\ zn.reach \in Nat
    BY Zones DEF Zone
  <1>2. CASE Z = {}
    <2>1. 0 \in Int /\ \A zn \in Z : FALSE
      BY <1>2
    <2> QED
      BY <2>1
  <1>3. CASE Z # {}
    <2>1. IsFiniteSet(DOMAIN f) /\ IsFiniteSet(DOMAIN g)
      BY Zones
    <2>2. F \in SUBSET Int /\ G \in SUBSET Int /\ F # {} /\ G # {}
      BY <1>1, <1>3
    <2>3. \A zn \in Z : zn.x - zn.reach \in F /\ zn.x + zn.reach \in G
      OBVIOUS
    <2>4. IsFiniteSet(F) /\ IsFiniteSet(G)
      <3> HIDE DEF f, g
      <3> QED
        BY <2>1, FiniteImage
    <2> HIDE DEF F, G, Z
    <2>5. Min(F) \in Int /\ Max(G) \in Int
      BY <2>2, <2>4, Extremes
    <2>6. \A zn \in Z : Min(F) <= zn.x - zn.reach /\ zn.x + zn.reach <= Max(G)
      BY <2>2, <2>3, <2>4, Extremes
    <2> QED
      BY <2>5, <2>6 DEF Z
  <1> QED
    BY <1>2, <1>3

LEMMA Elevations ==
  ASSUME scene \in Scenes
  PROVE  \A x \in Int : \A y \in Strip : Elevation(x, y) \in Int
  <1>1. IsScene(scene)
    BY ScenesAssumption
  <1> SUFFICES ASSUME NEW x \in Int, NEW y \in Strip
               PROVE  Elevation(x, y) \in Int
    OBVIOUS
  <1>2. CASE ~scene.dem \/ x \notin 0..Far
    BY <1>2, WaterAssumption DEF Elevation
  <1>3. CASE ~ (~scene.dem \/ x \notin 0..Far)
    <2>1. scene.elev[x] \in Int /\ scene.side[x] \in Int
      BY <1>1, <1>3 DEF IsScene
    <2> QED
      BY <1>3, <2>1 DEF Elevation
  <1> QED
    BY <1>2, <1>3

\* What the horizon table says of a column: either nothing lies between it and
\* the zone, or a column of land attains the ceiling.
LEMMA Horizons ==
  ASSUME scene \in Scenes, NEW zn \in Zone, NEW x \in Int
  PROVE  LET d == Abs(x - zn.x)
             dir == IF x < zn.x THEN -1 ELSE 1
         IN \/ HorizonRing(zn, x) = ClearCeiling(zn)
            \/ \E r \in 1..(d - 1) :
                 /\ Land(zn.x + dir * r, 0)
                 /\ HorizonRing(zn, x)
                      = zn.z + (d * (Elevation(zn.x + dir * r, 0) - zn.z)) \div r
                 /\ HorizonRing(zn, x) \in Int
  <1> DEFINE d == Abs(x - zn.x)
             dir == IF x < zn.x THEN -1 ELSE 1
             At(r) == zn.z + (d * (Elevation(zn.x + dir * r, 0) - zn.z)) \div r
             nearer == {r \in 1..(d - 1) : Land(zn.x + dir * r, 0)}
             f == [r \in nearer |-> At(r)]
             S == {f[r] : r \in DOMAIN f}
  <1>1. d \in Nat /\ dir \in {-1, 1} /\ zn.x \in Int /\ zn.z \in Int
    BY DEF Abs, Zone
  <1>2. HorizonRing(zn, x) = IF nearer = {} THEN ClearCeiling(zn)
                             ELSE Max({At(r) : r \in nearer})
    BY DEF HorizonRing
  <1> HIDE DEF d, dir
  <1>3. IsFiniteSet(nearer)
    <2>1. 1 \in Int /\ d - 1 \in Int
      BY <1>1
    <2>2. IsFiniteSet(1..(d - 1))
      BY <2>1, FS_Interval
    <2> QED
      BY <2>2, FS_Subset
  <1>4. ASSUME NEW r \in nearer PROVE At(r) \in Int
    <2>1. r \in Int /\ r > 0 /\ 0 \in Strip
      BY DEF Strip
    <2>2. zn.x + dir * r \in Int
      BY <1>1, <2>1
    <2>3. Elevation(zn.x + dir * r, 0) \in Int
      BY <2>1, <2>2, Elevations
    <2> DEFINE e == d * (Elevation(zn.x + dir * r, 0) - zn.z)
    <2>4. e \in Int
      BY <1>1, <2>3
    <2> HIDE DEF e
    <2>5. e \div r \in Int
      BY <2>1, <2>4
    <2> QED
      BY <1>1, <2>5 DEF e
  <1>5. {At(r) : r \in nearer} = S
    BY Zenon
  <1>6. CASE nearer # {}
    <2>1. DOMAIN f = nearer /\ IsFiniteSet(DOMAIN f)
      BY <1>3
    <2> HIDE DEF nearer, At
    <2>2. S \in SUBSET Int /\ S # {}
      BY <1>4, <1>6
    <2>3. IsFiniteSet(S)
      <3> HIDE DEF f
      <3> QED
        BY <2>1, FiniteImage
    <2> HIDE DEF S
    <2>4. Max(S) \in S
      BY <2>2, <2>3, Extremes
    <2>5. PICK r \in nearer : Max(S) = At(r)
      BY <2>4 DEF S
    <2>6. HorizonRing(zn, x) = At(r)
      BY <1>2, <1>5, <1>6, <2>5
    <2>7. r \in 1..(d - 1) /\ Land(zn.x + dir * r, 0) /\ At(r) \in Int
      BY <1>4 DEF nearer
    <2> QED
      BY <2>6, <2>7 DEF At, d, dir
  <1> QED
    BY <1>2, <1>6

LEMMA Ceilings ==
  ASSUME scene \in Scenes, NEW zn \in Zone, NEW x \in Int
  PROVE  ShadowCeiling(zn, x) \in Int
  <1>1. ClearCeiling(zn) \in Int
    BY DEF ClearCeiling, Zone
  <1>2. HorizonRing(zn, x) \in Int
    BY <1>1, Horizons
  <1> QED
    BY <1>2 DEF ShadowCeiling, NegInf

\* What lies in a zone's moat under its shadow ceiling has land in the way.
LEMMA Hidden ==
  ASSUME scene \in Scenes, NEW zn \in Range(scene.zones), NEW x \in Int,
         NEW z \in Int, zn.z - zn.rise <= z, z < ShadowCeiling(zn, x)
  PROVE  ~ LineOfSight(zn, x, z)
  <1> DEFINE d == Abs(x - zn.x)
             dir == IF x < zn.x THEN -1 ELSE 1
             ring == HorizonRing(zn, x)
  <1>1. IsScene(scene)
    BY ScenesAssumption
  <1>2. zn \in Zone
    BY <1>1 DEF IsScene, Range
  <1>3. /\ zn.x \in Int /\ zn.z \in Int /\ zn.reach \in Nat \ {0}
        /\ zn.rise \in Nat \ {0} /\ NegInf < zn.z - zn.rise
    BY <1>1, <1>2 DEF Zone, IsScene
  <1>4. ~ (z < NegInf)
    BY <1>3 DEF NegInf
  <1>5. RiskMasked /\ scene.dem /\ ShadowCeiling(zn, x) = ring
    BY <1>4 DEF ShadowCeiling
  <1>6. ring # ClearCeiling(zn)
    <2>1. zn.rise <= 2 * zn.reach
      BY <1>1, <1>5 DEF IsScene
    <2> QED
      BY <1>3, <1>5, <2>1 DEF ClearCeiling
  <1>7. PICK r \in 1..(d - 1) :
          /\ Land(zn.x + dir * r, 0)
          /\ ring = zn.z + (d * (Elevation(zn.x + dir * r, 0) - zn.z)) \div r
    BY <1>2, <1>6, Horizons
  <1> DEFINE k == zn.x + dir * r
             e == Elevation(k, 0) - zn.z
  <1>8. d \in Nat /\ dir \in {-1, 1} /\ r \in Nat \ {0} /\ r < d
    BY <1>3 DEF Abs
  <1>9. k \in 0..Far /\ Land(k, 0)
    BY <1>7 DEF Land, Elevation
  <1>10. /\ k # x /\ k # zn.x /\ Abs(k - zn.x) = r
         /\ (k < zn.x) = (x < zn.x)
    BY <1>3, <1>8 DEF Abs
  <1>11. e \in Int
    BY <1>3, <1>9, Elevations DEF Strip
  <1> HIDE DEF k, e, dir, ring
  <1>12. z - zn.z < (d * e) \div r
    <2> DEFINE q == (d * e) \div r
    <2>1. d * e \in Int
      BY <1>8, <1>11
    <2>2. q \in Int
      BY <1>8, <2>1
    <2>3. ring = zn.z + q
      BY <1>7 DEF k, e
    <2> HIDE DEF q
    <2>4. z - zn.z < q
      BY <1>3, <1>5, <2>2, <2>3
    <2> QED
      BY <2>4 DEF q
  <1>13. ~ (e * d < (z - zn.z) * r)
    <2> DEFINE q == (d * e) \div r
               p == d * e
               u == z - zn.z
    <2>1. p \in Int /\ u \in Int /\ e * d = p
      BY <1>3, <1>8, <1>11
    <2> HIDE DEF p, u, d
    <2>2. q \in Int /\ r * q <= p
      BY <1>8, <2>1 DEF p
    <2> HIDE DEF q
    <2>3. u <= q
      BY <1>12, <2>1, <2>2 DEF q, u
    <2>4. u * r <= q * r
      BY <1>8, <2>1, <2>2, <2>3, Scaling
    <2>5. q * r = r * q
      BY <1>8, <2>2
    <2>6. u * r \in Int /\ r * q \in Int
      BY <1>8, <2>1, <2>2
    <2> QED
      BY <2>1, <2>2, <2>4, <2>5, <2>6 DEF u
  <1>14. r < Abs(x - zn.x)
    BY <1>8
  <1> QED
    BY <1>9, <1>10, <1>13, <1>14 DEF LineOfSight, e

\* A zone's moat ends at its reach.
LEMMA OutOfReach ==
  ASSUME NEW zn \in Zone, NEW x \in Int, NEW z \in Int,
         ~ (Abs(x - zn.x) <= zn.reach)
  PROVE  ~ InMoat(zn, x, z)
  <1> DEFINE a == x - zn.x
             r == zn.reach
             v == zn.rise
             b == z - zn.z
  <1>1. a \in Int /\ b \in Int /\ r \in Nat /\ v \in Nat
    BY DEF Zone
  <1>2. InMoat(zn, x, z) = (a * a * v * v + b * b * r * r < r * r * v * v)
    BY DEF InMoat
  <1>3. Abs(a) > r
    BY <1>1 DEF Abs
  <1> HIDE DEF a, r, v, b
  <1> DEFINE s == a * a
             t == r * r
             w == b * b * r * r
  <1>4. s \in Int /\ t \in Int /\ t <= s
    BY <1>1, <1>3, Squares
  <1>5. w \in Nat
    <2>1. b * b \in Nat
      <3>1. CASE b < 0
        <4>1. -b \in Nat /\ b * b = (-b) * (-b)
          BY <1>1, <3>1
        <4> QED
          BY <4>1
      <3>2. CASE ~ (b < 0)
        BY <1>1, <3>2
      <3> QED
        BY <3>1, <3>2
    <2> DEFINE bb == b * b
    <2> HIDE DEF bb
    <2>2. bb * r \in Nat
      BY <1>1, <2>1 DEF bb
    <2>3. bb * r * r \in Nat
      BY <1>1, <2>2
    <2> QED
      BY <2>3 DEF bb
  <1> HIDE DEF s, t, w
  <1>6. t * v <= s * v /\ t * v \in Int /\ s * v \in Int
    BY <1>1, <1>4, Scaling
  <1>7. t * v * v <= s * v * v /\ t * v * v \in Int /\ s * v * v \in Int
    BY <1>1, <1>6, Scaling
  <1>8. ~ (s * v * v + w < t * v * v)
    <2> DEFINE sv == s * v * v
               tv == t * v * v
    <2>1. sv \in Int /\ tv \in Int /\ tv <= sv
      BY <1>7
    <2> HIDE DEF sv, tv
    <2>2. ~ (sv + w < tv)
      BY <1>5, <2>1
    <2> QED
      BY <2>2 DEF sv, tv
  <1> QED
    BY <1>2, <1>8 DEF s, t, w

-----------------------------------------------------------------------------
(***************************************************************************)
(* The caps.                                                               *)
(***************************************************************************)

\* What a piece's cap is made of.
LEMMA SameCaps ==
  ASSUME UNCHANGED <<scene, path, ref>>
  PROVE  \A i : BandCap(i)' = BandCap(i) /\ PieceCap(i)' = PieceCap(i)
  <1>1. \A x, y : Elevation(x, y)' = Elevation(x, y)
    BY DEF Elevation
  <1>2. \A x, y : Land(x, y)' = Land(x, y)
    BY <1>1 DEF Land
  <1>3. \A a, b : SwathTerrain(a, b)' = SwathTerrain(a, b)
    <2> TAKE a, b
    <2> DEFINE land == {c \in Between(a.x, b.x) \X Strip : Land(c[1], c[2])}
               heights == {Elevation(c[1], c[2]) : c \in land}
    <2>1. land' = land
      BY <1>2
    <2> HIDE DEF land
    <2>2. heights' = heights
      BY <1>1, <2>1
    <2> HIDE DEF heights
    <2> QED
      BY <2>2 DEF SwathTerrain, heights, land
  <1>4. \A a, b : SwathFloor(a, b)' = SwathFloor(a, b)
    BY <1>3 DEF SwathFloor
  <1>5. \A a, b : Relaxation(a, b)' = Relaxation(a, b)
    BY DEF Relaxation
  <1>6. \A zn, x : HorizonRing(zn, x)' = HorizonRing(zn, x)
    <2> TAKE zn, x
    <2> DEFINE d == Abs(x - zn.x)
               dir == IF x < zn.x THEN -1 ELSE 1
               nearer == {r \in 1..(d - 1) : Land(zn.x + dir * r, 0)}
               sights == {zn.z + (d * (Elevation(zn.x + dir * r, 0) - zn.z)) \div r :
                            r \in nearer}
    <2>1. nearer' = nearer
      BY <1>2
    <2> HIDE DEF nearer
    <2>2. sights' = sights
      BY <1>1, <2>1
    <2> HIDE DEF sights
    <2> QED
      BY <2>1, <2>2 DEF HorizonRing, sights, nearer
  <1>7. \A zn, x : ShadowCeiling(zn, x)' = ShadowCeiling(zn, x)
    BY <1>6 DEF ShadowCeiling
  <1>8. \A a, b : ShadowCeil(a, b)' = ShadowCeil(a, b)
    <2> TAKE a, b
    <2> DEFINE lit == {xz \in Between(a.x, b.x) \X Range(scene.zones) :
                         Abs(xz[1] - xz[2].x) <= xz[2].reach}
               ceilings == {ShadowCeiling(xz[2], xz[1]) : xz \in lit}
    <2>1. lit' = lit
      OBVIOUS
    <2> HIDE DEF lit
    <2>2. ceilings' = ceilings
      BY <1>7, <2>1
    <2> HIDE DEF ceilings
    <2> QED
      BY <2>1, <2>2 DEF ShadowCeil, ceilings, lit
  <1>9. Envelope' = Envelope
    BY DEF Envelope
  <1>10. \A i : BandCap(i)' = BandCap(i)
    BY <1>4, <1>5, <1>9 DEF BandCap
  <1> QED
    BY <1>8, <1>10 DEF PieceCap

\* The scene is chosen once, and every cap is its piece's.
CapInv ==
  /\ scene \in Scenes
  /\ stage = "freeze" => \A i \in DOMAIN caps : caps[i] = PieceCap(i)

LEMMA CapStep ==
  ASSUME CapInv, [Next]_vars
  PROVE  CapInv'
  <1>1. CASE GuideNext
    <2>1. UNCHANGED scene /\ stage' # "freeze"
      BY <1>1 DEF GuideNext, NoWaypoints, Accept, GridRefused, SearchLeg,
           SearchFails, Denoise, Cut, AimHead, SetBand, Override, SolveSlice
    <2> QED
      BY <2>1 DEF CapInv
  <1>2. CASE Plant
    BY <1>2 DEF Plant, CapInv
  <1>3. CASE CommitProfile
    BY <1>3 DEF CommitProfile, CapInv
  <1>4. CASE CapPieces
    <2>1. UNCHANGED <<scene, path, ref>>
      BY <1>4 DEF CapPieces
    <2>2. caps' = IF ref = <<>> THEN <<>>
                  ELSE [i \in 1..(Len(path) - 1) |-> PieceCap(i)]
      BY <1>4 DEF CapPieces
    <2>3. \A i \in DOMAIN caps' : caps'[i] = PieceCap(i)
      BY <2>2
    <2> QED
      BY <2>1, <2>3, SameCaps DEF CapInv
  <1>5. CASE Freeze
    BY <1>5 DEF Freeze, CapInv
  <1>6. CASE Solve
    BY <1>6 DEF Solve, CapInv
  <1>7. CASE UNCHANGED vars
    <2>1. UNCHANGED <<scene, path, ref, stage, caps>>
      BY <1>7 DEF vars, guideVars, seedVars
    <2> QED
      BY <2>1, SameCaps DEF CapInv
  <1> QED
    BY <1>1, <1>2, <1>3, <1>4, <1>5, <1>6, <1>7 DEF Next

\* A piece's shadow ceiling hides all of it from every zone in reach.
LEMMA CeilingsHide ==
  ASSUME CapInv
  PROVE  LiftsAreHidden
  <1> SUFFICES ASSUME stage = "freeze", NEW i \in DOMAIN caps,
                      caps[i] # BandCap(i), NEW zn \in Range(scene.zones),
                      NEW x \in Between(path[i].x, path[i + 1].x),
                      NEW z \in (zn.z - zn.rise)..caps[i],
                      InMoat(zn, x, z), LineOfSight(zn, x, z)
               PROVE  FALSE
    BY DEF LiftsAreHidden
  <1> DEFINE a == path[i]
             b == path[i + 1]
             lit == {xz \in Between(a.x, b.x) \X Range(scene.zones) :
                       Abs(xz[1] - xz[2].x) <= xz[2].reach}
             f == [xz \in lit |-> ShadowCeiling(xz[2], xz[1])]
             S == {f[xz] : xz \in DOMAIN f}
  <1>1. scene \in Scenes /\ IsScene(scene) /\ caps[i] = PieceCap(i)
    BY ScenesAssumption DEF CapInv
  <1>2. caps[i] = ShadowCeil(a, b) - ShadowMargin
    BY <1>1 DEF PieceCap, Larger
  <1>3. \A zone \in Range(scene.zones) :
          /\ zone \in Zone /\ zone.x \in Int /\ zone.z \in Int
          /\ zone.reach \in Nat /\ zone.rise \in Nat
          /\ NegInf < zone.z - zone.rise
    <2> TAKE zone \in Range(scene.zones)
    <2>1. zone \in Zone
      BY <1>1, Zones
    <2>2. NegInf < zone.z - zone.rise
      BY <1>1 DEF IsScene
    <2> QED
      BY <2>1, <2>2 DEF Zone
  <1>4. x \in Int /\ z \in Int /\ zn.z - zn.rise <= z /\ z <= caps[i]
    BY <1>3 DEF Between
  <1>5. Abs(x - zn.x) <= zn.reach
    BY <1>3, <1>4, OutOfReach
  <1>6. <<x, zn>> \in lit
    BY <1>5
  <1>7. ShadowCeil(a, b) = IF ShadowMargin = 0 \/ lit = {} THEN NegInf
                           ELSE Min({ShadowCeiling(xz[2], xz[1]) : xz \in lit})
    BY DEF ShadowCeil
  <1>8. ShadowMargin \in Nat
    BY SlopeAssumption
  <1> HIDE DEF a, b
  <1>9. CASE ShadowMargin = 0
    <2>1. caps[i] = NegInf
      BY <1>2, <1>7, <1>9 DEF NegInf
    <2> QED
      BY <1>3, <1>4, <2>1 DEF NegInf
  <1>10. CASE ShadowMargin # 0
    <2>1. ShadowCeil(a, b) = Min(S)
      BY <1>6, <1>7, <1>10
    <2>2. IsFiniteSet(lit)
      <3>1. PICK lo \in Int, hi \in Int :
              \A zone \in Range(scene.zones) :
                lo <= zone.x - zone.reach /\ zone.x + zone.reach <= hi
        BY <1>1, Reaches
      <3>2. IsFiniteSet((lo..hi) \X Range(scene.zones))
        <4>1. IsFiniteSet(lo..hi)
          BY FS_Interval
        <4>2. IsFiniteSet(Range(scene.zones))
          BY <1>1, Zones
        <4> QED
          BY <4>1, <4>2, FS_Product
      <3>3. lit \subseteq (lo..hi) \X Range(scene.zones)
        <4> SUFFICES ASSUME NEW xz \in lit
                     PROVE  xz \in (lo..hi) \X Range(scene.zones)
          OBVIOUS
        <4>1. PICK c \in Between(a.x, b.x), zone \in Range(scene.zones) :
                xz = <<c, zone>> /\ Abs(c - zone.x) <= zone.reach
          OBVIOUS
        <4>2. c \in Int
          BY DEF Between
        <4>3. lo <= c /\ c <= hi
          BY <1>3, <3>1, <4>1, <4>2 DEF Abs
        <4> QED
          BY <4>1, <4>2, <4>3
      <3> QED
        BY <3>2, <3>3, FS_Subset
    <2>3. S \in SUBSET Int /\ S # {}
      <3>1. \A xz \in lit : xz[2] \in Zone /\ xz[1] \in Int
        BY <1>3 DEF Between
      <3> HIDE DEF lit
      <3>2. \A xz \in lit : ShadowCeiling(xz[2], xz[1]) \in Int
        BY <1>1, <3>1, Ceilings
      <3> QED
        BY <1>6, <3>2
    <2>4. ShadowCeiling(zn, x) \in S
      BY <1>6
    <2>5. IsFiniteSet(S)
      <3>1. IsFiniteSet(DOMAIN f)
        BY <2>2
      <3> HIDE DEF f
      <3> QED
        BY <3>1, FiniteImage
    <2>6. /\ ShadowCeil(a, b) \in Int /\ ShadowCeiling(zn, x) \in Int
          /\ ShadowCeil(a, b) <= ShadowCeiling(zn, x)
      <3> HIDE DEF S
      <3>1. Min(S) \in S /\ \A k \in S : Min(S) <= k
        BY <2>3, <2>5, Extremes
      <3>2. \A k \in S : k \in Int
        BY <2>3
      <3> QED
        BY <2>1, <2>4, <3>1, <3>2
    <2>7. z < ShadowCeiling(zn, x)
      BY <1>2, <1>4, <1>8, <1>10, <2>6
    <2> QED
      BY <1>1, <1>4, <2>7, Hidden
  <1> QED
    BY <1>9, <1>10

\* A cap that occlusion lifted off its band lets nothing be seen under it, over
\* the whole piece and from every zone (optimizeFromPath, riskShadowCeiling).
THEOREM OnlyHiddenLifts == Spec => []LiftsAreHidden
  <1>1. Init => CapInv
    BY DEF Init, GuideInit, CapInv
  <1>2. CapInv /\ [Next]_vars => CapInv'
    BY CapStep
  <1>3. CapInv => LiftsAreHidden
    BY CeilingsHide
  <1> QED
    BY <1>1, <1>2, <1>3, PTL DEF Spec

-----------------------------------------------------------------------------
(***************************************************************************)
(* Points and routes.                                                      *)
(***************************************************************************)

Routes == Seq(Point)

LEMMA PointsOf ==
  ASSUME NEW r \in Routes, NEW i \in 1..Len(r)
  PROVE  r[i] \in Point /\ r[i].x \in Int /\ r[i].z \in Int
  <1>1. r[i] \in Point
    BY ElementOfSeq DEF Routes
  <1> QED
    BY <1>1 DEF Point

LEMMA HeightsSpan ==
  ASSUME NEW r \in Routes, r # <<>>
  PROVE  /\ Min(Heights(r)) \in Int /\ Max(Heights(r)) \in Int
         /\ \A i \in DOMAIN r : Min(Heights(r)) <= r[i].z /\ r[i].z <= Max(Heights(r))
  <1> DEFINE f == [i \in DOMAIN r |-> r[i].z]
             S == {f[i] : i \in DOMAIN f}
  <1>1. Len(r) \in Nat /\ Len(r) # 0 /\ DOMAIN r = 1..Len(r)
    BY EmptySeq, LenProperties DEF Routes
  <1>2. \A i \in DOMAIN r : r[i].z \in Int
    BY <1>1, PointsOf
  <1>3. IsFiniteSet(DOMAIN f)
    <2>1. 1 \in Int /\ Len(r) \in Int
      BY <1>1
    <2> QED
      BY <1>1, <2>1, FS_Interval
  <1>4. Heights(r) = S
    BY DEF Heights
  <1>5. S \in SUBSET Int /\ S # {}
    BY <1>1, <1>2
  <1>6. \A i \in DOMAIN r : r[i].z \in S
    OBVIOUS
  <1>7. IsFiniteSet(S)
    <2> HIDE DEF f
    <2> QED
      BY <1>3, FiniteImage
  <1> HIDE DEF S
  <1>8. /\ Min(S) \in S /\ \A k \in S : Min(S) <= k
        /\ Max(S) \in S /\ \A k \in S : k <= Max(S)
    BY <1>5, <1>7, Extremes
  <1> QED
    BY <1>4, <1>5, <1>6, <1>8

LEMMA Grounds ==
  ASSUME scene \in Scenes
  PROVE  \A x \in Int : Ground(x) \in Int
  BY Elevations DEF Ground, Strip

LEMMA Lifts ==
  ASSUME scene \in Scenes, NEW p \in Point
  PROVE  Lifted(p) \in Point
  <1>1. p.x \in Int /\ p.z \in Int /\ MinGoalAgl \in Int
    BY LevelsAssumption DEF Point
  <1>2. Ground(p.x) \in Int
    BY <1>1, Grounds
  <1>3. Ground(p.x) + Larger(p.z, MinGoalAgl) \in Int
    BY <1>1, <1>2 DEF Larger
  <1> QED
    BY <1>3 DEF Lifted, Point

\* What the searcher returns is a route from the one end to the other.
LEMMA Searched ==
  ASSUME NEW S \in SUBSET Point, NEW a \in S, NEW b \in S, Mids(a, b) \subseteq S,
         NEW r \in ClearRoutes(a, b)
  PROVE  r \in Seq(S) /\ Len(r) >= 2 /\ r[1] = a /\ r[Len(r)] = b
  <1> DEFINE M == Mids(a, b)
  <1>1. M \subseteq S
    OBVIOUS
  <1> HIDE DEF M
  <1>2. PICK m \in {<<>>} \cup {<<p>> : p \in M}
                    \cup {mn \in M \X M : mn[1].x < mn[2].x} :
               r = <<a>> \o m \o <<b>>
    BY DEF ClearRoutes, M
  <1>3. m \in Seq(S)
    <2>1. CASE m = <<>>
      BY <2>1
    <2>2. CASE m \in {<<p>> : p \in M}
      <3>1. PICK p \in M : m = <<p>>
        BY <2>2
      <3>2. p \in S
        BY <1>1
      <3> QED
        BY <3>1, <3>2
    <2>3. CASE m \in {mn \in M \X M : mn[1].x < mn[2].x}
      <3>1. PICK p \in M, q \in M : m = <<p, q>>
        BY <2>3
      <3> QED
        BY <1>1, <3>1
    <2> QED
      BY <1>2, <2>1, <2>2, <2>3
  <1> DEFINE s == <<a>> \o m
  <1>4. /\ <<a>> \in Seq(S) /\ <<b>> \in Seq(S)
        /\ Len(<<a>>) = 1 /\ Len(<<b>>) = 1 /\ Len(m) \in Nat
    BY <1>3, LenProperties
  <1>5. s \in Seq(S) /\ Len(s) = 1 + Len(m) /\ s[1] = a
    BY <1>3, <1>4, ConcatProperties
  <1> HIDE DEF s
  <1>6. /\ s \o <<b>> \in Seq(S) /\ Len(s \o <<b>>) = Len(s) + 1
        /\ (s \o <<b>>)[1] = s[1] /\ (s \o <<b>>)[Len(s) + 1] = b
    BY <1>4, <1>5, ConcatProperties
  <1>7. r = s \o <<b>>
    BY <1>2 DEF s
  <1> QED
    BY <1>4, <1>5, <1>6, <1>7

LEMMA MidTypes ==
  ASSUME NEW a, NEW b
  PROVE  Mids(a, b) \subseteq {p \in Point : p.z >= GroundHeight}
  BY LevelsAssumption, HeadroomAssumption DEF Mids, Point, ColumnsInside, Between

\* A five-point average is a height.
LEMMA Averages ==
  ASSUME NEW zs \in Seq(Int), NEW i \in 1..Len(zs)
  PROVE  Average(zs, i) \in Int
  <1> DEFINE near == ((i - 2)..(i + 2)) \cap DOMAIN zs
             At(j) == IF j \in near THEN zs[j] ELSE 0
             sum == At(i - 2) + At(i - 1) + At(i) + At(i + 1) + At(i + 2)
  <1>1. i \in Int /\ i \in near /\ \A j \in near : zs[j] \in Int
    BY LenProperties, ElementOfSeq
  <1>2. IsFiniteSet(near)
    <2>1. i - 2 \in Int /\ i + 2 \in Int
      BY <1>1
    <2>2. IsFiniteSet((i - 2)..(i + 2))
      BY <2>1, FS_Interval
    <2> QED
      BY <2>2, FS_Subset
  <1> HIDE DEF near
  <1>3. Cardinality(near) \in Nat /\ Cardinality(near) # 0
    BY <1>1, <1>2, FS_CardinalityType, FS_EmptySet
  <1>4. \A j : At(j) \in Int
    <2> TAKE j
    <2>1. CASE j \in near
      BY <1>1, <2>1
    <2>2. CASE j \notin near
      BY <2>2
    <2> QED
      BY <2>1, <2>2
  <1>5. sum \in Int
    <2> HIDE DEF At
    <2> DEFINE a == At(i - 2)
               b == At(i - 1)
               c == At(i)
               d == At(i + 1)
               e == At(i + 2)
    <2>1. a \in Int /\ b \in Int /\ c \in Int /\ d \in Int /\ e \in Int
      BY <1>4, Zenon
    <2> HIDE DEF a, b, c, d, e
    <2>2. a + b + c + d + e \in Int
      BY <2>1
    <2> QED
      BY <2>2 DEF a, b, c, d, e
  <1>6. Average(zs, i) = sum \div Cardinality(near)
    BY DEF Average, near
  <1> HIDE DEF sum
  <1> QED
    BY <1>3, <1>5, <1>6

LEMMA Filters ==
  ASSUME scene \in Scenes, job.from \in Point, job.wps \in Routes,
         NEW r \in Routes, NEW i \in 1..Len(r)
  PROVE  Filtered(r, i) \in Point /\ Filtered(r, i).x = r[i].x
  <1> DEFINE p == r[i]
             zs == [j \in DOMAIN r |-> r[j].z]
             held == IF ~scene.dem THEN Average(zs, i)
                     ELSE IF Land(p.x, 0)
                     THEN Larger(Average(zs, i), Elevation(p.x, 0) + Clearance)
                     ELSE Larger(Average(zs, i), Larger(0, MissionMin))
  <1>1. p \in Point
    BY ElementOfSeq DEF Routes
  <1>2. zs \in Seq(Int) /\ Len(zs) = Len(r)
    <2>1. DOMAIN r = 1..Len(r) /\ Len(r) \in Nat
      BY LenProperties DEF Routes
    <2>2. \A j \in DOMAIN r : r[j].z \in Int
      BY <2>1, PointsOf
    <2> QED
      BY <2>1, <2>2
  <1> HIDE DEF zs
  <1>3. Average(zs, i) \in Int
    BY <1>2, Averages
  <1>4. p.x \in Int /\ Elevation(p.x, 0) \in Int /\ Clearance \in Int
    <2>1. p.x \in Int /\ 0 \in Strip
      BY <1>1 DEF Point, Strip
    <2> QED
      BY <2>1, Elevations, LevelsAssumption
  <1>5. MissionMin \in Int
    <2>1. CASE job.wps = <<>>
      <3>1. Heights(job.wps) = {}
        BY <2>1 DEF Heights
      <3>2. {job.from.z} \in SUBSET Int /\ IsFiniteSet({job.from.z})
        BY FS_Singleton DEF Point
      <3>3. Min({job.from.z}) \in Int
        BY <3>2, Extremes
      <3> QED
        BY <3>1, <3>3 DEF MissionMin
    <2>2. CASE job.wps # <<>>
      <3> DEFINE q == <<job.from>> \o job.wps
      <3>1. q \in Routes /\ q # <<>>
        BY DEF Routes
      <3>2. Heights(q) = {job.from.z} \cup Heights(job.wps)
        <4>1. /\ <<job.from>> \in Routes /\ Len(<<job.from>>) = 1
              /\ Len(job.wps) \in Nat
          BY LenProperties DEF Routes
        <4>2. /\ Len(q) = 1 + Len(job.wps) /\ q[1] = job.from
              /\ \A k \in 1..Len(job.wps) : q[k + 1] = job.wps[k]
          BY <4>1, ConcatProperties DEF Routes
        <4>3. DOMAIN q = 1..Len(q) /\ DOMAIN job.wps = 1..Len(job.wps)
          BY <3>1, LenProperties DEF Routes
        <4> HIDE DEF q
        <4>4. \A k \in 2..Len(q) : k - 1 \in 1..Len(job.wps) /\ q[k] = job.wps[k - 1]
          BY <4>1, <4>2
        <4>5. Heights(q) \subseteq {job.from.z} \cup Heights(job.wps)
          <5> SUFFICES ASSUME NEW k \in 1..Len(q)
                       PROVE  q[k].z \in {job.from.z} \cup Heights(job.wps)
            BY <4>3 DEF Heights
          <5>1. CASE k = 1
            BY <4>2, <5>1
          <5>2. CASE k # 1
            <6>1. k \in 2..Len(q)
              BY <4>1, <4>2, <5>2
            <6> QED
              BY <4>3, <4>4, <6>1 DEF Heights
          <5> QED
            BY <5>1, <5>2
        <4>6. {job.from.z} \cup Heights(job.wps) \subseteq Heights(q)
          <5>1. 1 \in DOMAIN q /\ \A k \in DOMAIN job.wps : k + 1 \in DOMAIN q
            BY <4>1, <4>2, <4>3
          <5> QED
            BY <4>2, <4>3, <5>1 DEF Heights
        <4> QED
          BY <4>5, <4>6
      <3> HIDE DEF q
      <3> QED
        BY <3>1, <3>2, HeightsSpan DEF MissionMin
    <2> QED
      BY <2>1, <2>2
  <1>6. held \in Int
    BY <1>3, <1>4, <1>5 DEF Larger
  <1>7. Filtered(r, i) \in {p, [p EXCEPT !.z = held]}
    BY DEF Filtered, zs
  <1> HIDE DEF held
  <1> QED
    BY <1>1, <1>6, <1>7 DEF Point

\* Strings are joined one by one.
LEMMA Joins ==
  ASSUME NEW q, Len(q) \in Nat, Len(q) # 0
  PROVE  \E f : /\ FlattenSeq(q) = f[Len(q)] /\ f[1] = q[1]
                /\ \A i \in 2..Len(q) : f[i] = f[i - 1] \o q[i]
  <1> DEFINE n == Len(q)
             Loop(f, m) == f = [i \in 1..m |-> IF i = 1 THEN q[i]
                                               ELSE f[i - 1] \o q[i]]
             flat == CHOOSE f : Loop(f, n)
  <1>0. n \in Nat /\ n # 0
    OBVIOUS
  <1>1. FlattenSeq(q) = IF n = 0 THEN q ELSE flat[n]
    BY Zenon DEF FlattenSeq
  <1> HIDE DEF n
  <1>2. \E f : Loop(f, n)
    <2> DEFINE G == {m \in 0..n : \E f : Loop(f, m)}
    <2>1. 0 \in G
      <3>1. Loop([i \in 1..0 |-> q[1]], 0)
        OBVIOUS
      <3> HIDE DEF Loop
      <3> QED
        BY <1>0, <3>1
    <2>2. ASSUME NEW m \in 1..n, m - 1 \in G
          PROVE  m \in G
      <3>1. PICK f : Loop(f, m - 1)
        BY <2>2
      <3> DEFINE g == [i \in 1..m |-> IF i = m
                                      THEN IF i = 1 THEN q[i] ELSE f[i - 1] \o q[i]
                                      ELSE f[i]]
      <3>2. ASSUME NEW i \in 1..m
            PROVE  g[i] = IF i = 1 THEN q[i] ELSE g[i - 1] \o q[i]
        <4>1. i # 1 => g[i - 1] = f[i - 1]
          BY <1>0
        <4>2. i # m => f[i] = IF i = 1 THEN q[i] ELSE f[i - 1] \o q[i]
          <5>1. m \in Int
            OBVIOUS
          <5>2. i # m => i \in 1..(m - 1)
            BY <5>1
          <5>3. Loop(f, m - 1)
            BY <3>1
          <5> HIDE DEF g
          <5> QED
            BY <5>2, <5>3
        <4>3. CASE i = m
          <5>1. g[m] = IF m = 1 THEN q[m] ELSE f[m - 1] \o q[m]
            BY <1>0
          <5> HIDE DEF g
          <5>2. m = 1 \/ g[m - 1] = f[m - 1]
            BY <4>1, <4>3
          <5> QED
            BY <4>3, <5>1, <5>2
        <4>4. CASE i # m
          <5>1. g[i] = f[i]
            BY <4>4
          <5> HIDE DEF g
          <5> QED
            BY <4>1, <4>2, <4>4, <5>1
        <4> QED
          BY <4>3, <4>4
      <3>3. Loop(g, m)
        BY <3>2
      <3> HIDE DEF Loop
      <3> QED
        BY <1>0, <2>2, <3>3
    <2> HIDE DEF G
    <2>3. n \in G
      <3>1. \A m \in 1..n : m - 1 \in G => m \in G
        BY <2>2
      <3>2. n \in Nat /\ n \in 0..n
        BY <1>0
      <3>3. \A m \in 0..n : m \in G
        BY <2>1, <3>1, <3>2, UpTo
      <3> QED
        BY <3>2, <3>3
    <2> QED
      BY <2>3 DEF G
  <1>3. \A i \in 1..n : flat[i] = IF i = 1 THEN q[i] ELSE flat[i - 1] \o q[i]
    <2>1. Loop(flat, n)
      <3> HIDE DEF Loop
      <3> QED
        BY <1>2
    <2> HIDE DEF flat
    <2> QED
      BY <2>1
  <1> HIDE DEF flat, Loop
  <1>4. FlattenSeq(q) = flat[n] /\ flat[1] = q[1]
        /\ \A i \in 2..n : flat[i] = flat[i - 1] \o q[i]
    <2>1. 1 \in 1..n /\ \A i \in 2..n : i \in 1..n /\ i # 1
      BY <1>0
    <2>2. FlattenSeq(q) = flat[n]
      BY <1>0, <1>1
    <2> QED
      BY <1>3, <2>1, <2>2, Zenon
  <1> QED
    BY <1>4, Zenon DEF n

\* Strings of values joined end to end.
LEMMA Flattens ==
  ASSUME NEW S, NEW q \in Seq(Seq(S))
  PROVE  FlattenSeq(q) \in Seq(S)
  <1> DEFINE n == Len(q)
  <1>1. n \in Nat /\ \A i \in 1..n : q[i] \in Seq(S)
    BY LenProperties, ElementOfSeq
  <1>2. CASE n = 0
    <2>1. q = <<>>
      BY <1>2, EmptySeq
    <2>2. FlattenSeq(q) = q
      BY <1>2 DEF FlattenSeq
    <2> QED
      BY <2>1, <2>2, EmptySeq
  <1>3. CASE n # 0
    <2>1. PICK f : /\ FlattenSeq(q) = f[n] /\ f[1] = q[1]
                   /\ \A i \in 2..n : f[i] = f[i - 1] \o q[i]
      BY <1>1, <1>3, Joins, Zenon
    <2> HIDE DEF n
    <2> DEFINE G == {i \in 0..n : i = 0 \/ f[i] \in Seq(S)}
    <2>2. ASSUME NEW i \in 1..n, i - 1 \in G
          PROVE  i \in G
      <3>1. CASE i = 1
        BY <1>1, <2>1, <3>1
      <3>2. CASE i # 1
        <4>1. f[i - 1] \in Seq(S) /\ q[i] \in Seq(S)
          BY <1>1, <2>2, <3>2
        <4>2. f[i - 1] \o q[i] \in Seq(S)
          BY <4>1, ConcatProperties
        <4>3. i \in 0..n /\ i \in 2..n
          BY <1>1, <3>2
        <4>4. f[i] = f[i - 1] \o q[i]
          BY <2>1, <4>3
        <4> QED
          BY <4>2, <4>3, <4>4
      <3> QED
        BY <3>1, <3>2
    <2>3. 0 \in G
      BY <1>1
    <2> HIDE DEF G
    <2>4. \A i \in 0..n : i \in G
      BY <1>1, <2>2, <2>3, UpTo
    <2>5. f[n] \in Seq(S)
      BY <1>1, <1>3, <2>4 DEF G
    <2> QED
      BY <2>1, <2>5
  <1> QED
    BY <1>2, <1>3

\* The vertices of the pieces, with the height the cap is measured from.
Vertex == [x : Int, z : Int, cap : Int]

LEMMA Cutting ==
  ASSUME NEW a \in Point, NEW b \in Point, NEW za \in Int, NEW zb \in Int
  PROVE  CutPoints(a, b, za, zb) \in Seq(Vertex)
  <1> DEFINE n == Larger(1, Abs(b.x - a.x) \div 2)
  <1>1. a.x \in Int /\ a.z \in Int /\ b.x \in Int /\ b.z \in Int
    BY DEF Point
  <1>2. n \in Nat \ {0}
    <2> DEFINE d == Abs(b.x - a.x)
    <2>1. d \in Nat
      BY <1>1 DEF Abs
    <2> HIDE DEF d
    <2>2. d \div 2 \in Int
      BY <2>1
    <2>3. Larger(1, d \div 2) \in Nat \ {0}
      BY <2>2 DEF Larger
    <2> QED
      BY <2>3 DEF d
  <1> HIDE DEF n
  <1>3. \A u \in Int, v \in Int, k \in 1..n : u + ((v - u) * k) \div n \in Int
    <2> TAKE u \in Int, v \in Int, k \in 1..n
    <2> DEFINE p == (v - u) * k
    <2>1. p \in Int
      BY <1>2
    <2> HIDE DEF p
    <2>2. p \div n \in Int
      BY <1>2, <2>1
    <2>3. u + p \div n \in Int
      BY <2>2
    <2> QED
      BY <2>3 DEF p
  <1> DEFINE at(k) == [x |-> a.x + ((b.x - a.x) * k) \div n,
                       z |-> a.z + ((b.z - a.z) * k) \div n,
                       cap |-> za + ((zb - za) * k) \div n]
  <1>4. \A k \in 1..n : at(k) \in Vertex
    BY <1>1, <1>3 DEF Vertex
  <1>5. CutPoints(a, b, za, zb) = [k \in 1..n |-> at(k)]
    BY DEF CutPoints, n
  <1> HIDE DEF at
  <1>6. [k \in 1..n |-> at(k)] \in Seq(Vertex)
    BY <1>2, <1>4
  <1> QED
    BY <1>5, <1>6

LEMMA PiecesType ==
  ASSUME NEW r \in Routes, r # <<>>, NEW zs \in Seq(Int), Len(zs) = Len(r)
  PROVE  Pieces(r, zs) \in Seq(Vertex)
  <1> DEFINE m == Len(r) - 1
             cut(i) == CutPoints(r[i], r[i + 1], zs[i], zs[i + 1])
             first == [x |-> r[1].x, z |-> r[1].z, cap |-> zs[1]]
             q == [i \in 1..m |-> cut(i)]
  <1>1. m \in Nat
    BY EmptySeq DEF Routes
  <1>2. \A i \in 1..Len(r) : r[i] \in Point /\ r[i].x \in Int /\ r[i].z \in Int
                             /\ zs[i] \in Int
    BY PointsOf, ElementOfSeq
  <1>3. first \in Vertex
    <2>1. 1 \in 1..Len(r)
      BY <1>1, LenProperties DEF Routes
    <2> QED
      BY <1>2, <2>1 DEF Vertex
  <1>4. ASSUME NEW i \in 1..m PROVE cut(i) \in Seq(Vertex)
    <2>1. i \in 1..Len(r) /\ i + 1 \in 1..Len(r)
      BY LenProperties DEF Routes
    <2> QED
      BY <1>2, <2>1, Cutting
  <1>5. Pieces(r, zs) = <<first>> \o FlattenSeq(q)
    BY DEF Pieces
  <1> HIDE DEF cut, first, m
  <1>6. q \in Seq(Seq(Vertex))
    BY <1>1, <1>4
  <1> HIDE DEF q
  <1>7. FlattenSeq(q) \in Seq(Vertex) /\ <<first>> \in Seq(Vertex)
    BY <1>3, <1>6, Flattens
  <1> QED
    BY <1>5, <1>7, ConcatProperties

\* A value put in behind the first.
LEMMA Inserting ==
  ASSUME NEW S, NEW r \in Seq(S), Len(r) >= 2, NEW p \in S
  PROVE  InsertAt(r, 2, p) \in Seq(S) /\ Len(InsertAt(r, 2, p)) = Len(r) + 1
  <1> DEFINE a == SubSeq(r, 1, 1)
             b == SubSeq(r, 2, Len(r))
  <1>1. Len(r) \in Nat /\ \A i \in 1..Len(r) : r[i] \in S
    BY LenProperties, ElementOfSeq
  <1>2. a \in Seq(S) /\ Len(a) = 1
    BY <1>1, SubSeqProperties
  <1>3. b \in Seq(S) /\ Len(b) = Len(r) - 1
    BY <1>1, SubSeqProperties
  <1>4. <<p>> \in Seq(S) /\ Len(<<p>>) = 1
    OBVIOUS
  <1>5. InsertAt(r, 2, p) = (a \o <<p>>) \o b
    BY DEF InsertAt
  <1> HIDE DEF a, b
  <1> DEFINE c == a \o <<p>>
  <1>6. c \in Seq(S) /\ Len(c) = Len(a) + Len(<<p>>)
    BY <1>2, <1>4, ConcatProperties
  <1> HIDE DEF c
  <1>7. c \o b \in Seq(S) /\ Len(c \o b) = Len(c) + Len(b)
    <2>1. c \in Seq(S) /\ b \in Seq(S)
      BY <1>3, <1>6
    <2> QED
      BY <2>1, ConcatProperties
  <1>8. InsertAt(r, 2, p) = c \o b
    BY <1>5 DEF c
  <1>9. InsertAt(r, 2, p) \in Seq(S)
    BY <1>7, <1>8
  <1>10. Len(InsertAt(r, 2, p)) = Len(c) + Len(b)
    BY <1>7, <1>8
  <1>11. Len(c) = 2 /\ Len(b) = Len(r) - 1
    BY <1>2, <1>3, <1>4, <1>6
  <1>12. Len(r) \in Nat
    BY <1>1
  <1> QED
    BY <1>9, <1>10, <1>11, <1>12

\* The seed has a vertex inside.
LEMMA Planting ==
  ASSUME NEW r \in Routes, Len(r) >= 2, head \in Int
  PROVE  /\ WithLead(WithMid(r)) \in Routes /\ Len(WithLead(WithMid(r))) >= 3
         /\ Len(WithLead(WithMid(r))) = Len(r) + (IF Len(r) < 3 THEN 1 ELSE 0)
                                              + (IF LeadIn THEN 1 ELSE 0)
  <1>1. /\ WithMid(r) \in Routes /\ Len(WithMid(r)) >= 3
        /\ Len(WithMid(r)) = Len(r) + IF Len(r) < 3 THEN 1 ELSE 0
    <2> DEFINE p == [x |-> (r[1].x + r[2].x) \div 2, z |-> (r[1].z + r[2].z) \div 2]
    <2>1. 1 \in 1..Len(r) /\ 2 \in 1..Len(r) /\ Len(r) \in Nat
      BY LenProperties DEF Routes
    <2>2. p \in Point
      <3>1. r[1].x \in Int /\ r[1].z \in Int /\ r[2].x \in Int /\ r[2].z \in Int
        BY <2>1, PointsOf
      <3> QED
        BY <3>1 DEF Point
    <2> HIDE DEF p
    <2>3. InsertAt(r, 2, p) \in Routes /\ Len(InsertAt(r, 2, p)) = Len(r) + 1
      BY <2>2, Inserting DEF Routes
    <2> QED
      BY <2>1, <2>3 DEF WithMid, p
  <1> DEFINE s == WithMid(r)
             p == [x |-> s[1].x + head * LeadInTime, z |-> s[1].z]
  <1> HIDE DEF s
  <1>2. /\ s \in Routes /\ Len(s) >= 3
        /\ Len(s) = Len(r) + IF Len(r) < 3 THEN 1 ELSE 0
    BY <1>1 DEF s
  <1>3. p \in Point
    <2>1. 1 \in 1..Len(s)
      BY <1>2, LenProperties DEF Routes
    <2>2. s[1].x \in Int /\ s[1].z \in Int
      BY <1>2, <2>1, PointsOf
    <2>3. head * LeadInTime \in Int
      BY ScaleAssumption
    <2> QED
      BY <2>2, <2>3 DEF Point
  <1> HIDE DEF p
  <1>4. Len(s) \in Nat /\ Len(r) \in Nat
    BY <1>2, LenProperties DEF Routes
  <1>5. InsertAt(s, 2, p) \in Routes /\ Len(InsertAt(s, 2, p)) = Len(s) + 1
    <2>1. s \in Seq(Point) /\ Len(s) >= 2
      BY <1>2, <1>4 DEF Routes
    <2> QED
      BY <1>3, <2>1, Inserting DEF Routes
  <1>6. WithLead(s) = IF LeadIn THEN InsertAt(s, 2, p) ELSE s
    BY DEF WithLead, p
  <1>7. CASE LeadIn
    BY <1>2, <1>4, <1>5, <1>6, <1>7 DEF s
  <1>8. CASE ~LeadIn
    BY <1>2, <1>4, <1>6, <1>8 DEF s
  <1> QED
    BY <1>7, <1>8

-----------------------------------------------------------------------------
(***************************************************************************)
(* The types of a plan's products, stage by stage.                         *)
(***************************************************************************)

Products == [route : Routes, raw : Routes, raw_z : Seq(Int), clean : Routes,
             cap : Seq(Int), top : Int]
Requests == [from : Point, wps : Routes, junction : BOOLEAN,
             kind : {"mission", "override", "slice"}]

TypeInv ==
  /\ scene \in Scenes
  /\ job \in Requests
  /\ leg \in Nat
  /\ fe \in Products
  /\ last \in [clean : Routes, cap : Seq(Int)]
  /\ Len(last.cap) = Len(last.clean)
  /\ head \in Int
  /\ stage = "search" => fe.route # <<>>
  /\ stage = "cut" => fe.route # <<>> /\ Len(fe.raw_z) = Len(fe.route)
  /\ stage \in {"head", "band", "seed"} => Len(fe.clean) >= 2
  /\ stage = "commit" => path \in Routes /\ Len(path) >= 3

\* The scene of a plan is one it was given.
LEMMA SceneTypes ==
  ASSUME scene \in Scenes
  PROVE  scene.start \in Point /\ scene.goals \in Routes /\ scene.speeds \subseteq Int
  BY ScenesAssumption DEF IsScene, Routes

LEMMA Starts == Init => TypeInv
  <1> SUFFICES ASSUME Init PROVE TypeInv
    OBVIOUS
  <1>1. scene \in Scenes /\ leg = 0 /\ head = 0 /\ stage = "asked"
    BY DEF Init, GuideInit
  <1>2. <<>> \in Routes /\ <<>> \in Seq(Int)
    BY DEF Routes
  <1>3. job \in Requests
    BY <1>1, <1>2, SceneTypes DEF Init, GuideInit, Requests
  <1>4. fe \in Products
    BY <1>2 DEF Init, GuideInit, Products, NoProducts, NegInf
  <1>5. last \in [clean : Routes, cap : Seq(Int)] /\ Len(last.cap) = Len(last.clean)
    BY <1>2 DEF Init, GuideInit
  <1> QED
    BY <1>1, <1>3, <1>4, <1>5 DEF TypeInv

\* A non-empty part of a route, and of the reference it pairs with.
LEMMA Slices ==
  ASSUME last \in [clean : Routes, cap : Seq(Int)],
         Len(last.cap) = Len(last.clean),
         NEW cut \in 2..(Len(last.clean) - 1), NEW front \in BOOLEAN
  PROVE  /\ Slice(cut, front)[1] \in Routes /\ Len(Slice(cut, front)[1]) >= 2
         /\ Slice(cut, front)[2] \in Seq(Int)
         /\ Len(Slice(cut, front)[2]) = Len(Slice(cut, front)[1])
  <1> DEFINE r == last.clean
             c == last.cap
             n == Len(r)
  <1>1. r \in Seq(Point) /\ c \in Seq(Int) /\ Len(c) = n
    BY DEF Routes
  <1>2. n \in Nat
    BY <1>1, LenProperties
  <1>3. cut \in 1..(n + 1) /\ n \in (cut - 1)..n /\ cut \in 0..n /\ 1 \in 1..(n + 1)
    BY <1>2
  <1>4. /\ SubSeq(r, 1, cut) \in Seq(Point) /\ Len(SubSeq(r, 1, cut)) = cut
        /\ SubSeq(c, 1, cut) \in Seq(Int) /\ Len(SubSeq(c, 1, cut)) = cut
    BY <1>1, <1>2, <1>3, SubSeqProperties
  <1>5. /\ SubSeq(r, cut, n) \in Seq(Point) /\ Len(SubSeq(r, cut, n)) = n - cut + 1
        /\ SubSeq(c, cut, n) \in Seq(Int) /\ Len(SubSeq(c, cut, n)) = n - cut + 1
    BY <1>1, <1>2, <1>3, SubSeqProperties
  <1>6. cut >= 2 /\ n - cut + 1 >= 2
    BY <1>2
  <1>7. Slice(cut, front) = IF front THEN <<SubSeq(r, 1, cut), SubSeq(c, 1, cut)>>
                            ELSE <<SubSeq(r, cut, n), SubSeq(c, cut, n)>>
    BY DEF Slice
  <1> HIDE DEF r, c, n
  <1> QED
    BY <1>4, <1>5, <1>6, <1>7 DEF Routes

LEMMA AcceptTypes ==
  ASSUME TypeInv, Accept
  PROVE  TypeInv'
  <1> DEFINE goals == scene.goals
             w == [i \in DOMAIN goals |-> Lifted(goals[i])]
  <1>1. scene.start \in Point /\ goals \in Routes
    BY SceneTypes DEF TypeInv
  <1>2. w \in Routes
    <2>1. Len(goals) \in Nat /\ DOMAIN goals = 1..Len(goals)
      BY <1>1, LenProperties DEF Routes
    <2>2. \A i \in DOMAIN goals : goals[i] \in Point
      BY <1>1, <2>1, PointsOf
    <2> HIDE DEF goals
    <2>3. \A i \in DOMAIN goals : Lifted(goals[i]) \in Point
      BY <2>2, Lifts DEF TypeInv
    <2> QED
      BY <2>1, <2>3 DEF Routes
  <1>3. job' = [from |-> scene.start, wps |-> w, junction |-> FALSE,
                kind |-> "mission"]
    BY DEF Accept
  <1> HIDE DEF w
  <1>4. job' \in Requests
    BY <1>1, <1>2, <1>3 DEF Requests
  <1>5. fe' \in Products /\ fe'.route # <<>>
    <2>1. fe' = [NoProducts EXCEPT !.route = <<scene.start>>]
      BY DEF Accept
    <2> DEFINE one == <<scene.start>>
               none == <<>>
    <2>2. one \in Routes /\ one # <<>> /\ none \in Routes /\ none \in Seq(Int)
      BY <1>1 DEF Routes
    <2>3. fe' = [route |-> one, raw |-> none, raw_z |-> none,
                 clean |-> none, cap |-> none, top |-> -100000]
      BY <2>1 DEF NoProducts, NegInf
    <2> HIDE DEF one, none
    <2>4. fe' \in Products
      BY <2>2, <2>3 DEF Products
    <2>5. fe'.route = one
      BY <2>3
    <2> QED
      BY <2>2, <2>4, <2>5
  <1>6. leg' = 0 /\ stage' = "search" /\ UNCHANGED <<scene, last, head>>
    BY DEF Accept
  <1> QED
    BY <1>4, <1>5, <1>6 DEF TypeInv

LEMMA SearchTypes ==
  ASSUME TypeInv, SearchLeg
  PROVE  TypeInv'
  <1>1. leg \in Nat /\ leg < Len(job.wps) /\ job.wps \in Routes /\ job.from \in Point
    BY DEF TypeInv, SearchLeg, Requests
  <1>2. LegStart \in Point /\ job.wps[leg + 1] \in Point
    <2>1. Len(job.wps) \in Nat
      BY <1>1, LenProperties DEF Routes
    <2>2. leg + 1 \in 1..Len(job.wps) /\ (leg = 0 \/ leg \in 1..Len(job.wps))
      BY <1>1, <2>1
    <2> QED
      BY <1>1, <2>2, PointsOf DEF LegStart
  <1>3. PICK r \in ClearRoutes(LegStart, job.wps[leg + 1]) :
          fe' = [fe EXCEPT !.route = IF r[2] = Last(@) THEN @ ELSE @ \o Tail(r)]
    BY DEF SearchLeg
  <1>4. r \in Routes /\ Len(r) >= 2
    <2>1. Mids(LegStart, job.wps[leg + 1]) \subseteq Point
      BY MidTypes
    <2> QED
      BY <1>2, <2>1, Searched DEF Routes
  <1>5. fe.route \in Routes /\ fe.route # <<>> /\ fe \in Products
    BY DEF TypeInv, SearchLeg, Products
  <1> DEFINE s == fe.route \o Tail(r)
  <1>6. s \in Routes /\ s # <<>>
    <2>1. Tail(r) \in Seq(Point) /\ fe.route \in Seq(Point) /\ fe.route # <<>>
      <3>1. r # <<>>
        BY <1>4
      <3> QED
        BY <1>4, <1>5, <3>1, HeadTailProperties DEF Routes
    <2>2. s \in Seq(Point) /\ Len(s) = Len(fe.route) + Len(Tail(r))
      BY <2>1, ConcatProperties
    <2>3. Len(fe.route) \in Nat /\ Len(fe.route) # 0 /\ Len(Tail(r)) \in Nat
      BY <2>1, EmptySeq, LenProperties
    <2> HIDE DEF s
    <2>4. Len(s) # 0
      <3> DEFINE i == Len(fe.route)
                 j == Len(Tail(r))
      <3>1. Len(s) = i + j
        BY <2>2
      <3>2. i \in Nat /\ i # 0 /\ j \in Nat
        BY <2>3
      <3> HIDE DEF i, j
      <3> QED
        BY <3>1, <3>2
    <2>5. s \in Seq(Point)
      BY <2>2
    <2>6. s # <<>>
      BY <2>4, <2>5, EmptySeq
    <2> QED
      BY <2>5, <2>6 DEF Routes
  <1>7. fe' = [fe EXCEPT !.route = IF r[2] = Last(fe.route) THEN fe.route ELSE s]
    BY <1>3
  <1> HIDE DEF s
  <1>8. fe' \in Products /\ fe'.route # <<>>
    BY <1>5, <1>6, <1>7 DEF Products
  <1>9. leg' = leg + 1 /\ stage = "search"
        /\ UNCHANGED <<scene, stage, job, last, head>>
    BY DEF SearchLeg
  <1> QED
    BY <1>1, <1>8, <1>9 DEF TypeInv

LEMMA DenoiseTypes ==
  ASSUME TypeInv, Denoise
  PROVE  TypeInv'
  <1> DEFINE r == fe.route
             smooth == IF Len(r) < 3 THEN r ELSE [i \in DOMAIN r |-> Filtered(r, i)]
             raw_z == [i \in DOMAIN r |-> Committed(r[i], smooth[i])]
  <1>1. r \in Routes /\ r # <<>> /\ fe \in Products
    BY DEF TypeInv, Denoise, Products
  <1>2. Len(r) \in Nat /\ Len(r) # 0 /\ DOMAIN r = 1..Len(r)
    BY <1>1, EmptySeq, LenProperties DEF Routes
  <1>3. fe' = [fe EXCEPT !.route = smooth, !.raw = r, !.raw_z = raw_z,
                         !.top = Max(Heights(r))]
    BY DEF Denoise
  <1>4. Max(Heights(r)) \in Int
    BY <1>1, HeightsSpan
  <1>5. \A i \in 1..Len(r) : r[i] \in Point /\ r[i].z \in Int
    BY <1>1, PointsOf
  <1> HIDE DEF r
  <1>6. smooth \in Routes /\ Len(smooth) = Len(r) /\ smooth # <<>>
    <2>1. \A i \in 1..Len(r) : Filtered(r, i) \in Point
      BY <1>1, Filters DEF TypeInv, Requests
    <2>2. CASE Len(r) < 3
      BY <1>1, <2>2
    <2>3. CASE ~ (Len(r) < 3)
      BY <1>2, <2>1, <2>3 DEF Routes
    <2> QED
      BY <2>2, <2>3
  <1> HIDE DEF smooth
  <1>7. \A i \in 1..Len(r) : smooth[i].z \in Int
    BY <1>6, PointsOf
  <1>8. raw_z \in Seq(Int) /\ Len(raw_z) = Len(r)
    <2>1. \A i \in DOMAIN r : Committed(r[i], smooth[i]) \in Int
      BY <1>2, <1>5, <1>7 DEF Committed, Larger
    <2> QED
      BY <1>2, <2>1
  <1> HIDE DEF raw_z
  <1>9. fe' \in Products /\ fe'.route = smooth /\ fe'.raw_z = raw_z
    BY <1>1, <1>3, <1>4, <1>6, <1>8 DEF Products
  <1>10. stage' = "cut" /\ UNCHANGED <<scene, job, leg, last, head>>
    BY DEF Denoise
  <1> QED
    BY <1>6, <1>8, <1>9, <1>10 DEF TypeInv

LEMMA CutTypes ==
  ASSUME TypeInv, Cut
  PROVE  TypeInv'
  <1> DEFINE ps == Pieces(fe.route, fe.raw_z)
             clean == [i \in DOMAIN ps |-> [x |-> ps[i].x, z |-> ps[i].z]]
             cap == [i \in DOMAIN ps |-> ps[i].cap]
  <1>1. /\ Len(clean) >= 2
        /\ fe' = [fe EXCEPT !.clean = clean, !.cap = cap]
        /\ last' = [clean |-> clean, cap |-> cap]
        /\ stage' \in {"head", "done"}
        /\ UNCHANGED <<scene, job, leg, head>>
    BY DEF Cut
  <1>2. ps \in Seq(Vertex)
    BY PiecesType DEF TypeInv, Cut, Products
  <1> HIDE DEF ps
  <1>3. Len(ps) \in Nat /\ DOMAIN ps = 1..Len(ps) /\ \A i \in 1..Len(ps) : ps[i] \in Vertex
    BY <1>2, LenProperties, ElementOfSeq
  <1>4. clean \in Routes /\ cap \in Seq(Int) /\ Len(cap) = Len(clean)
    BY <1>3 DEF Routes, Point, Vertex
  <1> HIDE DEF clean, cap
  <1>5. fe' \in Products /\ fe'.clean = clean
    BY <1>1, <1>4 DEF TypeInv, Products
  <1>6. last' \in [clean : Routes, cap : Seq(Int)] /\ Len(last'.cap) = Len(last'.clean)
    BY <1>1, <1>4
  <1> QED
    BY <1>1, <1>5, <1>6 DEF TypeInv

LEMMA HeadTypes ==
  ASSUME TypeInv, AimHead
  PROVE  TypeInv'
  <1>1. PICK v \in scene.speeds, synthesized \in BOOLEAN :
          head' = Floored(Aimed(v, synthesized))
    BY DEF AimHead
  <1>2. v \in Int /\ StallFloor \in Int
    BY SceneTypes, LevelsAssumption DEF TypeInv
  <1>3. RouteSign \in {-1, 0, 1}
    BY DEF RouteSign, Sign
  <1> DEFINE w == Aimed(v, synthesized)
  <1>4. w \in Int
    BY <1>2, <1>3 DEF Aimed, Abs
  <1> HIDE DEF w
  <1>5. Floored(w) \in Int
    <2>1. \A k \in {-1, 0, 1} : StallFloor * k \in Int
      BY <1>2
    <2>2. Sign(w) \in {-1, 0, 1}
      BY DEF Sign
    <2> QED
      BY <1>3, <1>4, <2>1, <2>2 DEF Floored
  <1>6. head' \in Int
    BY <1>1, <1>5 DEF w
  <1>7. stage = "head" /\ stage' = "band" /\ UNCHANGED <<scene, job, leg, fe, last>>
    BY DEF AimHead
  <1> QED
    BY <1>6, <1>7 DEF TypeInv

LEMMA OverrideTypes ==
  ASSUME TypeInv, Override
  PROVE  TypeInv'
  <1>1. PICK cut \in 2..(Len(last.clean) - 1), front \in BOOLEAN :
          LET p == Slice(cut, front)[1]
              c == Slice(cut, front)[2]
          IN /\ job' = [from |-> p[1], wps |-> <<Last(p)>>,
                        junction |-> ~front, kind |-> "override"]
             /\ fe' = [fe EXCEPT !.clean = p, !.cap = c, !.top = Max(Heights(p))]
             /\ last' = [clean |-> p, cap |-> c]
    BY DEF Override
  <1> DEFINE p == Slice(cut, front)[1]
             c == Slice(cut, front)[2]
  <1>2. p \in Routes /\ Len(p) >= 2 /\ c \in Seq(Int) /\ Len(c) = Len(p)
    BY Slices DEF TypeInv
  <1>3. /\ job' = [from |-> p[1], wps |-> <<Last(p)>>,
                   junction |-> ~front, kind |-> "override"]
        /\ fe' = [fe EXCEPT !.clean = p, !.cap = c, !.top = Max(Heights(p))]
        /\ last' = [clean |-> p, cap |-> c]
    BY <1>1
  <1> HIDE DEF p, c
  <1>4. p[1] \in Point /\ Last(p) \in Point /\ p # <<>>
    <2>1. Len(p) \in Nat
      BY <1>2, LenProperties DEF Routes
    <2>2. 1 \in 1..Len(p) /\ Len(p) \in 1..Len(p)
      BY <1>2, <2>1
    <2>3. p # <<>>
      BY <1>2
    <2> QED
      BY <1>2, <2>2, <2>3, PointsOf DEF Last
  <1>5. job' \in Requests
    <2>1. <<Last(p)>> \in Routes
      BY <1>4 DEF Routes
    <2> QED
      BY <1>3, <1>4, <2>1 DEF Requests
  <1>6. fe' \in Products /\ fe'.clean = p
    <2>1. Max(Heights(p)) \in Int
      BY <1>2, <1>4, HeightsSpan
    <2> QED
      BY <1>2, <1>3, <2>1 DEF TypeInv, Products
  <1>7. last' \in [clean : Routes, cap : Seq(Int)] /\ Len(last'.cap) = Len(last'.clean)
    BY <1>2, <1>3
  <1>8. stage' = "head" /\ UNCHANGED <<scene, leg, head>>
    BY DEF Override
  <1> QED
    BY <1>2, <1>5, <1>6, <1>7, <1>8 DEF TypeInv

LEMMA SliceTypes ==
  ASSUME TypeInv, SolveSlice
  PROVE  TypeInv'
  <1>1. PICK cut \in 2..(Len(last.clean) - 1), front \in BOOLEAN,
             v \in scene.speeds :
          LET p == Slice(cut, front)[1]
          IN /\ job' = [from |-> p[1], wps |-> <<Last(p)>>,
                        junction |-> ~front, kind |-> "slice"]
             /\ fe' = [fe EXCEPT !.clean = p, !.cap = Slice(cut, front)[2]]
             /\ head' = v
    BY DEF SolveSlice
  <1> DEFINE p == Slice(cut, front)[1]
             c == Slice(cut, front)[2]
  <1>2. p \in Routes /\ Len(p) >= 2 /\ c \in Seq(Int)
    BY Slices DEF TypeInv
  <1>3. /\ job' = [from |-> p[1], wps |-> <<Last(p)>>,
                   junction |-> ~front, kind |-> "slice"]
        /\ fe' = [fe EXCEPT !.clean = p, !.cap = c]
    BY <1>1
  <1> HIDE DEF p, c
  <1>4. p[1] \in Point /\ Last(p) \in Point
    <2>1. Len(p) \in Nat
      BY <1>2, LenProperties DEF Routes
    <2>2. 1 \in 1..Len(p) /\ Len(p) \in 1..Len(p)
      BY <1>2, <2>1
    <2> QED
      BY <1>2, <2>2, PointsOf DEF Last
  <1>5. job' \in Requests
    <2>1. <<Last(p)>> \in Routes
      BY <1>4 DEF Routes
    <2> QED
      BY <1>3, <1>4, <2>1 DEF Requests
  <1>6. fe' \in Products /\ fe'.clean = p
    BY <1>2, <1>3 DEF TypeInv, Products
  <1>7. head' \in Int
    BY <1>1, SceneTypes DEF TypeInv
  <1>8. stage' = "band" /\ UNCHANGED <<scene, leg, last>>
    BY DEF SolveSlice
  <1> QED
    BY <1>2, <1>5, <1>6, <1>7, <1>8 DEF TypeInv

LEMMA PlantTypes ==
  ASSUME TypeInv, Plant
  PROVE  TypeInv'
  <1>1. fe.clean \in Routes /\ Len(fe.clean) >= 2 /\ head \in Int
    BY DEF TypeInv, Plant, Products
  <1>2. path' = WithLead(WithMid(fe.clean)) /\ stage' = "commit"
        /\ UNCHANGED <<scene, job, leg, fe, last, head>>
    BY DEF Plant
  <1>3. path' \in Routes /\ Len(path') >= 3
    BY <1>1, <1>2, Planting
  <1> QED
    BY <1>2, <1>3 DEF TypeInv

LEMMA TypeStep ==
  ASSUME TypeInv, [Next]_vars
  PROVE  TypeInv'
  <1>1. CASE NoWaypoints \/ GridRefused
    BY <1>1 DEF NoWaypoints, GridRefused, TypeInv
  <1>2. CASE SearchFails
    <2>1. leg' = leg + 1 /\ stage' = "failed"
          /\ UNCHANGED <<scene, job, fe, last, head>>
      BY <1>2 DEF SearchFails
    <2> QED
      BY <2>1 DEF TypeInv
  <1>3. CASE SetBand
    <2>1. stage = "band" /\ stage' = "seed"
          /\ UNCHANGED <<scene, job, leg, fe, last, head>>
      BY <1>3 DEF SetBand
    <2> QED
      BY <2>1 DEF TypeInv
  <1>4. CASE CommitProfile \/ CapPieces \/ Freeze \/ Solve
    <2>1. stage' \in {"cap", "freeze", "solve", "done", "failed"}
          /\ UNCHANGED <<scene, job, leg, fe, last, head>>
      BY <1>4 DEF CommitProfile, CapPieces, Freeze, Solve
    <2> QED
      BY <2>1 DEF TypeInv
  <1>5. CASE UNCHANGED vars
    <2>1. UNCHANGED <<scene, stage, job, leg, fe, last, head, path>>
      BY <1>5 DEF vars, guideVars, seedVars
    <2> QED
      BY <2>1 DEF TypeInv
  <1>6. CASE Accept \/ SearchLeg \/ Denoise \/ Cut
    BY <1>6, AcceptTypes, SearchTypes, DenoiseTypes, CutTypes
  <1>7. CASE AimHead \/ Override \/ SolveSlice \/ Plant
    BY <1>7, HeadTypes, OverrideTypes, SliceTypes, PlantTypes
  <1> QED
    BY <1>1, <1>2, <1>3, <1>4, <1>5, <1>6, <1>7 DEF Next, GuideNext

-----------------------------------------------------------------------------
(***************************************************************************)
(* The committed height profile: what its stations and its costs are.      *)
(***************************************************************************)

LEMMA DiscCeilings ==
  ASSUME scene \in Scenes, NEW x \in Int
  PROVE  DiscCeiling(x) \in Int
  <1> DEFINE cols == {d[1] : d \in Disc(x)}
             Z == Range(scene.zones)
             seen == {cz \in cols \X Z : Abs(cz[1] - cz[2].x) <= cz[2].reach}
             S == {ShadowCeiling(cz[2], cz[1]) : cz \in seen}
  <1>1. cols \subseteq (x - CommitSwath)..(x + CommitSwath)
    <2> SUFFICES ASSUME NEW d \in Disc(x)
                 PROVE  d[1] \in (x - CommitSwath)..(x + CommitSwath)
      OBVIOUS
    <2>1. PICK e \in (-CommitSwath..CommitSwath) \X Strip :
            d = <<x + e[1], e[2]>>
      BY DEF Disc
    <2>2. e[1] \in -CommitSwath..CommitSwath /\ d[1] = x + e[1]
      BY <2>1
    <2> QED
      BY <2>2, SlopeAssumption
  <1>2. IsFiniteSet(cols) /\ cols \subseteq Int
    <2>1. x - CommitSwath \in Int /\ x + CommitSwath \in Int
      BY SlopeAssumption
    <2>2. IsFiniteSet((x - CommitSwath)..(x + CommitSwath))
      BY <2>1, FS_Interval
    <2> HIDE DEF cols
    <2>3. IsFiniteSet(cols)
      BY <1>1, <2>2, FS_Subset
    <2>4. cols \subseteq Int
      BY <1>1
    <2> QED
      BY <2>3, <2>4
  <1> HIDE DEF cols
  <1>3. Z \subseteq Zone /\ IsFiniteSet(Z)
    BY Zones
  <1> HIDE DEF Z
  <1>4. IsFiniteSet(seen) /\ \A cz \in seen : cz[1] \in Int /\ cz[2] \in Zone
    <2>1. IsFiniteSet(cols \X Z)
      BY <1>2, <1>3, FS_Product
    <2> QED
      BY <1>2, <1>3, <2>1, FS_Subset
  <1>5. DiscCeiling(x) = IF seen = {} \/ Min(S) = NegInf THEN PosInf ELSE Min(S) - 1
    BY DEF DiscCeiling, cols, Z
  <1> HIDE DEF seen
  <1>6. CASE seen = {}
    BY <1>5, <1>6 DEF PosInf
  <1>7. CASE seen # {}
    <2> DEFINE f == [cz \in seen |-> ShadowCeiling(cz[2], cz[1])]
    <2>1. IsFiniteSet(DOMAIN f) /\ S = {f[cz] : cz \in DOMAIN f}
      BY <1>4
    <2>2. IsFiniteSet(S)
      <3> HIDE DEF f, S
      <3> QED
        BY <2>1, FiniteImage
    <2>3. \A cz \in seen : ShadowCeiling(cz[2], cz[1]) \in Int
      BY <1>4, Ceilings
    <2>4. S \in SUBSET Int /\ S # {}
      BY <1>7, <2>3
    <2> HIDE DEF S
    <2>5. Min(S) \in Int
      BY <2>2, <2>4, Extremes
    <2> QED
      BY <1>5, <2>5 DEF PosInf
  <1> QED
    BY <1>6, <1>7

LEMMA Sites ==
  ASSUME scene \in Scenes, path \in Routes, NEW i \in 1..Len(path)
  PROVE  /\ Allowed(i) \subseteq Int
         /\ \A z \in Int : SiteCost(i, z) \in Nat
         /\ i # 1 => Window(i) \in Int
  <1>1. path[i].x \in Int /\ path[i].z \in Int
    BY PointsOf
  <1>2. Allowed(i) \subseteq Int
    BY <1>1 DEF Allowed, Levels
  <1>3. ASSUME NEW z \in Int PROVE SiteCost(i, z) \in Nat
    <2>1. DiscCeiling(path[i].x) \in Int
      BY <1>1, DiscCeilings
    <2>2. Abs(z - path[i].z) \in Nat /\ Larger(0, z - DiscCeiling(path[i].x)) \in Nat
      BY <1>1, <2>1 DEF Abs, Larger
    <2> QED
      BY <2>2 DEF SiteCost
  <1>4. ASSUME i # 1 PROVE Window(i) \in Int
    <2>1. Len(path) \in Nat
      BY LenProperties DEF Routes
    <2>2. i - 1 \in 1..Len(path)
      BY <1>4, <2>1
    <2>3. path[i - 1].x \in Int
      BY <2>2, PointsOf
    <2>4. Abs(path[i].x - path[i - 1].x) \in Int /\ ClimbSlope \in Int
      BY <1>1, <2>3, SlopeAssumption DEF Abs
    <2> QED
      BY <2>4 DEF Window
  <1> QED
    BY <1>2, <1>3, <1>4

\* A profile of the stations so far, and what it has cost.
Profile == [zs : {s \in Seq(Int) : s # <<>>}, cost : Nat]

LEMMA ProfileTypes ==
  ASSUME NEW f \in Profile, NEW z \in Int
  PROVE  /\ Last(f.zs) \in Int /\ StepCost(f, z) \in Nat
         /\ Append(f.zs, z) \in {s \in Seq(Int) : s # <<>>}
         /\ Last(Append(f.zs, z)) = z
  <1> DEFINE s == f.zs
  <1>1. s \in Seq(Int) /\ s # <<>> /\ f.cost \in Nat
    BY DEF Profile
  <1> HIDE DEF s
  <1>2. Len(s) \in Nat /\ Len(s) # 0
    BY <1>1, EmptySeq, LenProperties
  <1>3. Len(s) \in 1..Len(s)
    BY <1>2
  <1>4. Last(s) \in Int
    BY <1>1, <1>3, ElementOfSeq DEF Last
  <1>5. Append(s, z) \in Seq(Int) /\ Append(s, z) # <<>> /\ Last(Append(s, z)) = z
    <2>1. /\ Append(s, z) \in Seq(Int) /\ Append(s, z) # <<>>
          /\ Len(Append(s, z)) = Len(s) + 1 /\ Append(s, z)[Len(s) + 1] = z
      BY <1>1, AppendProperties
    <2> QED
      BY <2>1 DEF Last
  <1>6. StepCost(f, z) \in Nat
    BY <1>1, <1>4 DEF StepCost, Abs, s
  <1> QED
    BY <1>4, <1>5, <1>6 DEF s

\* A set of naturals that is not empty has a least element.
LEMMA LeastOf ==
  ASSUME NEW S \in SUBSET Nat, S # {}
  PROVE  \E m \in S : \A k \in S : m <= k
  <1>1. PICK m \in S : \A k \in S : ~ (<<k, m>> \in OpToRel(<, Nat))
    BY NatLessThanWellFounded, WFMin
  <1>2. \A k \in S : k < m => <<k, m>> \in OpToRel(<, Nat)
    BY DEF OpToRel
  <1>3. \A k \in S : ~ (k < m)
    BY <1>1, <1>2
  <1> QED
    BY <1>3

\* A station's choice: its cheapest way on, of equal ones the lowest.
Better(front, i, z, f) ==
  \A g \in Reached(front, i, z) :
    \/ StepCost(f, z) < StepCost(g, z)
    \/ StepCost(f, z) = StepCost(g, z) /\ Last(f.zs) <= Last(g.zs)

LEMMA BestWay ==
  ASSUME scene \in Scenes, path \in Routes, NEW i \in 2..Len(path),
         NEW front \in SUBSET Profile, NEW z \in Int,
         Reached(front, i, z) # {}
  PROVE  \E f \in Reached(front, i, z) : Better(front, i, z, f)
  <1> DEFINE R == Reached(front, i, z)
             C == {StepCost(f, z) : f \in R}
             low == z - Window(i)
  <1>1. Window(i) \in Int
    <2>1. Len(path) \in Nat
      BY LenProperties DEF Routes
    <2>2. i \in 1..Len(path) /\ i # 1
      BY <2>1
    <2> QED
      BY <2>2, Sites
  <1>2. \A f \in R : /\ StepCost(f, z) \in Nat /\ Last(f.zs) \in Int
                     /\ Abs(z - Last(f.zs)) <= Window(i)
    BY ProfileTypes DEF Reached
  <1>3. \A f \in R : Last(f.zs) - low \in Nat
    <2> SUFFICES ASSUME NEW f \in R PROVE Last(f.zs) - low \in Nat
      OBVIOUS
    <2> DEFINE k == Last(f.zs)
               w == Window(i)
    <2>1. k \in Int /\ Abs(z - k) <= w /\ w \in Int
      BY <1>1, <1>2
    <2> HIDE DEF k, w
    <2>2. k - (z - w) \in Nat
      BY <2>1 DEF Abs
    <2> QED
      BY <2>2 DEF k, w
  <1>4. C \in SUBSET Nat /\ C # {}
    BY <1>2
  <1> HIDE DEF R
  <1>5. PICK c \in C : \A k \in C : c <= k
    <2> HIDE DEF C
    <2> QED
      BY <1>4, LeastOf
  <1> DEFINE L == {Last(f.zs) - low : f \in {g \in R : StepCost(g, z) = c}}
  <1>6. L \in SUBSET Nat /\ L # {}
    BY <1>3, <1>5
  <1>7. PICK l \in L : \A k \in L : l <= k
    <2> HIDE DEF L
    <2> QED
      BY <1>6, LeastOf
  <1>8. PICK f \in R : StepCost(f, z) = c /\ Last(f.zs) - low = l
    BY <1>7
  <1>9. ASSUME NEW g \in R
        PROVE  \/ StepCost(f, z) < StepCost(g, z)
               \/ StepCost(f, z) = StepCost(g, z) /\ Last(f.zs) <= Last(g.zs)
    <2>1. c <= StepCost(g, z) /\ c \in Nat /\ StepCost(g, z) \in Nat
      BY <1>2, <1>4, <1>5
    <2>2. CASE c < StepCost(g, z)
      BY <1>8, <2>2
    <2>3. CASE c = StepCost(g, z)
      <3>1. l <= Last(g.zs) - low
        BY <1>7, <2>3
      <3>2. Last(g.zs) \in Int /\ Last(f.zs) \in Int /\ low \in Int
        BY <1>1, <1>2
      <3> HIDE DEF low
      <3>3. Last(f.zs) <= Last(g.zs)
        BY <1>8, <3>1, <3>2
      <3> QED
        BY <1>8, <2>3, <3>3
    <2> QED
      BY <2>1, <2>2, <2>3
  <1> QED
    BY <1>8, <1>9 DEF Better, R

\* The profile a station keeps for a level.
Chosen(front, i, z) ==
  LET best == CHOOSE f \in Reached(front, i, z) : Better(front, i, z, f)
  IN [zs |-> Append(best.zs, z), cost |-> StepCost(best, z) + SiteCost(i, z)]

\* A level's profile continues one that reaches it, and no other that does
\* would have been cheaper.
LEMMA ChosenIsBest ==
  ASSUME scene \in Scenes, path \in Routes, NEW i \in 2..Len(path),
         NEW front \in SUBSET Profile, NEW z \in Allowed(i),
         Reached(front, i, z) # {}
  PROVE  /\ Chosen(front, i, z) \in Station(front, i)
         /\ Chosen(front, i, z) \in Extended(front, i)
         /\ Last(Chosen(front, i, z).zs) = z
         /\ \A g \in Reached(front, i, z) :
              Chosen(front, i, z).cost <= StepCost(g, z) + SiteCost(i, z)
  <1> DEFINE best == CHOOSE f \in Reached(front, i, z) : Better(front, i, z, f)
  <1>1. z \in Int /\ SiteCost(i, z) \in Nat
    <2>1. Len(path) \in Nat
      BY LenProperties DEF Routes
    <2>2. i \in 1..Len(path)
      BY <2>1
    <2> QED
      BY <2>2, Sites
  <1>2. best \in Reached(front, i, z) /\ Better(front, i, z, best)
    BY <1>1, BestWay
  <1>3. Chosen(front, i, z) = [zs |-> Append(best.zs, z),
                               cost |-> StepCost(best, z) + SiteCost(i, z)]
    BY DEF Chosen
  <1>4. Chosen(front, i, z) \in Station(front, i)
    BY DEF Chosen, Station, Better
  <1> HIDE DEF best
  <1>5. best \in front /\ best \in Profile /\ best \in Reached({best}, i, z)
    BY <1>2 DEF Reached
  <1>6. Chosen(front, i, z) \in Extended(front, i)
    <2> DEFINE E(f) == {[zs |-> Append(f.zs, y), cost |-> StepCost(f, y) + SiteCost(i, y)] :
                        y \in {y \in Allowed(i) : f \in Reached({f}, i, y)}}
    <2>1. Extended(front, i) = UNION {E(f) : f \in front}
      BY Zenon DEF Extended
    <2>2. Chosen(front, i, z) \in E(best)
      BY <1>3, <1>5
    <2> HIDE DEF E
    <2> QED
      BY <1>5, <2>1, <2>2
  <1>7. Last(Chosen(front, i, z).zs) = z
    BY <1>1, <1>3, <1>5, ProfileTypes
  <1>8. ASSUME NEW g \in Reached(front, i, z)
        PROVE  Chosen(front, i, z).cost <= StepCost(g, z) + SiteCost(i, z)
    <2>1. g \in Profile
      BY DEF Reached
    <2>2. StepCost(best, z) \in Nat /\ StepCost(g, z) \in Nat
      BY <1>1, <1>5, <2>1, ProfileTypes
    <2>3. StepCost(best, z) <= StepCost(g, z)
      BY <1>2, <2>2 DEF Better
    <2> QED
      BY <1>1, <1>3, <2>2, <2>3
  <1> QED
    BY <1>4, <1>6, <1>7, <1>8

\* What a station keeps is what it chose.
LEMMA Kept ==
  ASSUME NEW front, NEW i, NEW f \in Station(front, i)
  PROVE  \E z \in Allowed(i) : Reached(front, i, z) # {} /\ f = Chosen(front, i, z)
  BY DEF Station, Chosen, Better

\* Of two sets of profiles the first is among the second, has no two that end
\* alike, and has one as cheap for each of the second's that ends like it.
Covers(some, all) ==
  /\ all \subseteq Profile
  /\ some \subseteq all
  /\ \A f, g \in some : Last(f.zs) = Last(g.zs) => f = g
  /\ \A g \in all : \E f \in some : Last(f.zs) = Last(g.zs) /\ f.cost <= g.cost

\* From station to station the choices lose nothing.
LEMMA StationCovers ==
  ASSUME scene \in Scenes, path \in Routes, NEW i \in 2..Len(path),
         NEW some, NEW all, Covers(some, all)
  PROVE  /\ Covers(Station(some, i), Extended(all, i))
         /\ \A g \in Extended(all, i) : Last(g.zs) \in Allowed(i)
  <1>1. all \subseteq Profile /\ some \subseteq all /\ some \in SUBSET Profile
    BY DEF Covers
  <1>2. Allowed(i) \subseteq Int /\ \A z \in Int : SiteCost(i, z) \in Nat
    <2>1. Len(path) \in Nat
      BY LenProperties DEF Routes
    <2>2. i \in 1..Len(path)
      BY <2>1
    <2> QED
      BY <2>2, Sites
  <1>3. ASSUME NEW g \in Extended(all, i)
        PROVE  \E f \in all, z \in Allowed(i) :
                 /\ g = [zs |-> Append(f.zs, z), cost |-> StepCost(f, z) + SiteCost(i, z)]
                 /\ f \in Reached({f}, i, z)
    BY DEF Extended
  <1>4. ASSUME NEW g \in Extended(all, i)
        PROVE  g \in Profile /\ Last(g.zs) \in Allowed(i)
    <2>1. PICK f \in all, z \in Allowed(i) :
            g = [zs |-> Append(f.zs, z), cost |-> StepCost(f, z) + SiteCost(i, z)]
      BY <1>3
    <2>2. f \in Profile /\ z \in Int
      BY <1>1, <1>2
    <2>3. /\ StepCost(f, z) \in Nat /\ Last(Append(f.zs, z)) = z
          /\ Append(f.zs, z) \in {s \in Seq(Int) : s # <<>>}
      BY <2>2, ProfileTypes
    <2>4. StepCost(f, z) + SiteCost(i, z) \in Nat
      <3>1. StepCost(f, z) \in Nat /\ SiteCost(i, z) \in Nat
        BY <1>2, <2>2, <2>3
      <3> QED
        BY <3>1
    <2> QED
      BY <2>1, <2>3, <2>4 DEF Profile
  <1>5. ASSUME NEW f \in Station(some, i)
        PROVE  f \in Extended(all, i)
    <2>1. PICK z \in Allowed(i) : Reached(some, i, z) # {} /\ f = Chosen(some, i, z)
      BY Kept
    <2>2. f \in Extended(some, i)
      BY <1>1, <2>1, ChosenIsBest
    <2> DEFINE E(w) == {[zs |-> Append(w.zs, y), cost |-> StepCost(w, y) + SiteCost(i, y)] :
                          y \in {y \in Allowed(i) : w \in Reached({w}, i, y)}}
    <2>3. \A front : Extended(front, i) = UNION {E(w) : w \in front}
      BY Zenon DEF Extended
    <2> HIDE DEF E
    <2>4. PICK w \in some : f \in E(w)
      BY <2>2, <2>3
    <2> QED
      BY <1>1, <2>3, <2>4
  <1>6. ASSUME NEW f \in Station(some, i), NEW g \in Station(some, i),
               Last(f.zs) = Last(g.zs)
        PROVE  f = g
    <2>1. PICK y \in Allowed(i) : Reached(some, i, y) # {} /\ f = Chosen(some, i, y)
      BY Kept
    <2>2. PICK z \in Allowed(i) : Reached(some, i, z) # {} /\ g = Chosen(some, i, z)
      BY Kept
    <2>3. Last(f.zs) = y /\ Last(g.zs) = z
      BY <1>1, <2>1, <2>2, ChosenIsBest
    <2> QED
      BY <1>6, <2>1, <2>2, <2>3
  <1>7. ASSUME NEW g \in Extended(all, i)
        PROVE  \E f \in Station(some, i) : Last(f.zs) = Last(g.zs) /\ f.cost <= g.cost
    <2>1. PICK g0 \in all, z \in Allowed(i) :
            /\ g = [zs |-> Append(g0.zs, z), cost |-> StepCost(g0, z) + SiteCost(i, z)]
            /\ g0 \in Reached({g0}, i, z)
      BY <1>3
    <2>2. PICK f0 \in some : Last(f0.zs) = Last(g0.zs) /\ f0.cost <= g0.cost
      BY DEF Covers
    <2>3. f0 \in Reached(some, i, z)
      BY <2>1, <2>2 DEF Reached
    <2> DEFINE f == Chosen(some, i, z)
    <2>4. /\ f \in Station(some, i) /\ Last(f.zs) = z
          /\ f.cost <= StepCost(f0, z) + SiteCost(i, z)
      BY <1>1, <2>3, ChosenIsBest
    <2>5. f0 \in Profile /\ g0 \in Profile /\ z \in Int
      BY <1>1, <1>2
    <2>6. StepCost(f0, z) <= StepCost(g0, z)
      <3>1. f0.cost \in Nat /\ g0.cost \in Nat /\ Last(g0.zs) \in Int
        BY <2>5, ProfileTypes DEF Profile
      <3> QED
        BY <2>2, <2>5, <3>1 DEF StepCost, Abs
    <2>7. Last(g.zs) = z /\ g.cost = StepCost(g0, z) + SiteCost(i, z)
      BY <2>1, <2>5, ProfileTypes
    <2>8. f \in Profile
      BY <1>4, <1>5, <2>4
    <2> HIDE DEF f
    <2>9. f.cost <= g.cost
      <3>1. /\ f.cost \in Nat /\ StepCost(f0, z) \in Nat /\ StepCost(g0, z) \in Nat
            /\ SiteCost(i, z) \in Nat
        BY <1>2, <2>5, <2>8, ProfileTypes DEF Profile
      <3> QED
        BY <2>4, <2>6, <2>7, <3>1
    <2> QED
      BY <2>4, <2>7, <2>9
  <1> QED
    BY <1>4, <1>5, <1>6, <1>7 DEF Covers

-----------------------------------------------------------------------------
(***************************************************************************)
(* The stations along the whole path.                                      *)
(***************************************************************************)

\* The kept profiles are a station's choices, one after the other.
LEMMA Stepwise ==
  ASSUME NEW n \in Nat, n # 0, Len(path) = n
  PROVE  \E f : /\ Profiles = f[n] /\ f[1] = {Anchor}
                /\ \A i \in 2..n : f[i] = Station(f[i - 1], i)
  <1> DEFINE Loop(f, m) == f = [i \in 1..m |-> IF i = 1 THEN {Anchor}
                                               ELSE Station(f[i - 1], i)]
             front == CHOOSE f : Loop(f, n)
  <1>1. Profiles = front[n]
    BY Zenon DEF Profiles
  <1>2. \E f : Loop(f, n)
    <2> DEFINE G == {m \in 0..n : \E f : Loop(f, m)}
    <2>1. 0 \in G
      <3>1. Loop([i \in 1..0 |-> {Anchor}], 0)
        OBVIOUS
      <3> HIDE DEF Loop
      <3> QED
        BY <3>1
    <2>2. ASSUME NEW m \in 1..n, m - 1 \in G
          PROVE  m \in G
      <3>1. PICK f : Loop(f, m - 1)
        BY <2>2
      <3> DEFINE g == [i \in 1..m |-> IF i = m
                                      THEN IF i = 1 THEN {Anchor}
                                           ELSE Station(f[i - 1], i)
                                      ELSE f[i]]
      <3>2. ASSUME NEW i \in 1..m
            PROVE  g[i] = IF i = 1 THEN {Anchor} ELSE Station(g[i - 1], i)
        <4>0. m \in Int
          OBVIOUS
        <4>1. i # 1 => g[i - 1] = f[i - 1]
          BY <4>0
        <4>2. i # m => f[i] = IF i = 1 THEN {Anchor} ELSE Station(f[i - 1], i)
          <5>1. i # m => i \in 1..(m - 1)
            BY <4>0
          <5>2. Loop(f, m - 1)
            BY <3>1
          <5> HIDE DEF g
          <5> QED
            BY <5>1, <5>2
        <4>3. CASE i = m
          <5>1. g[m] = IF m = 1 THEN {Anchor} ELSE Station(f[m - 1], m)
            BY <4>0
          <5> HIDE DEF g
          <5>2. m = 1 \/ g[m - 1] = f[m - 1]
            BY <4>1, <4>3
          <5> QED
            BY <4>3, <5>1, <5>2
        <4>4. CASE i # m
          <5>1. g[i] = f[i]
            BY <4>4
          <5> HIDE DEF g
          <5> QED
            BY <4>1, <4>2, <4>4, <5>1
        <4> QED
          BY <4>3, <4>4
      <3>3. Loop(g, m)
        BY <3>2
      <3> HIDE DEF Loop
      <3> QED
        BY <2>2, <3>3
    <2> HIDE DEF G
    <2>3. n \in G
      <3>1. \A m \in 1..n : m - 1 \in G => m \in G
        BY <2>2
      <3>2. n \in 0..n
        OBVIOUS
      <3> QED
        BY <2>1, <3>1, <3>2, UpTo
    <2> QED
      BY <2>3 DEF G
  <1>3. Loop(front, n)
    <2> HIDE DEF Loop
    <2> QED
      BY <1>2
  <1> HIDE DEF front
  <1>4. \A i \in 1..n : front[i] = IF i = 1 THEN {Anchor} ELSE Station(front[i - 1], i)
    BY <1>3
  <1>5. 1 \in 1..n /\ \A i \in 2..n : i \in 1..n /\ i # 1
    OBVIOUS
  <1> HIDE DEF Loop
  <1> QED
    BY <1>1, <1>4, <1>5

\* And all the profiles there are, a station's extensions.
LEMMA Exhaustive ==
  ASSUME NEW n \in Nat, n # 0, Len(path) = n
  PROVE  \E f : /\ EveryProfile = f[n] /\ f[1] = {Anchor}
                /\ \A i \in 2..n : f[i] = Extended(f[i - 1], i)
  <1> DEFINE Loop(f, m) == f = [i \in 1..m |-> IF i = 1 THEN {Anchor}
                                               ELSE Extended(f[i - 1], i)]
             front == CHOOSE f : Loop(f, n)
  <1>1. EveryProfile = front[n]
    BY Zenon DEF EveryProfile
  <1>2. \E f : Loop(f, n)
    <2> DEFINE G == {m \in 0..n : \E f : Loop(f, m)}
    <2>1. 0 \in G
      <3>1. Loop([i \in 1..0 |-> {Anchor}], 0)
        OBVIOUS
      <3> HIDE DEF Loop
      <3> QED
        BY <3>1
    <2>2. ASSUME NEW m \in 1..n, m - 1 \in G
          PROVE  m \in G
      <3>1. PICK f : Loop(f, m - 1)
        BY <2>2
      <3> DEFINE g == [i \in 1..m |-> IF i = m
                                      THEN IF i = 1 THEN {Anchor}
                                           ELSE Extended(f[i - 1], i)
                                      ELSE f[i]]
      <3>2. ASSUME NEW i \in 1..m
            PROVE  g[i] = IF i = 1 THEN {Anchor} ELSE Extended(g[i - 1], i)
        <4>0. m \in Int
          OBVIOUS
        <4>1. i # 1 => g[i - 1] = f[i - 1]
          BY <4>0
        <4>2. i # m => f[i] = IF i = 1 THEN {Anchor} ELSE Extended(f[i - 1], i)
          <5>1. i # m => i \in 1..(m - 1)
            BY <4>0
          <5>2. Loop(f, m - 1)
            BY <3>1
          <5> HIDE DEF g
          <5> QED
            BY <5>1, <5>2
        <4>3. CASE i = m
          <5>1. g[m] = IF m = 1 THEN {Anchor} ELSE Extended(f[m - 1], m)
            BY <4>0
          <5> HIDE DEF g
          <5>2. m = 1 \/ g[m - 1] = f[m - 1]
            BY <4>1, <4>3
          <5> QED
            BY <4>3, <5>1, <5>2
        <4>4. CASE i # m
          <5>1. g[i] = f[i]
            BY <4>4
          <5> HIDE DEF g
          <5> QED
            BY <4>1, <4>2, <4>4, <5>1
        <4> QED
          BY <4>3, <4>4
      <3>3. Loop(g, m)
        BY <3>2
      <3> HIDE DEF Loop
      <3> QED
        BY <2>2, <3>3
    <2> HIDE DEF G
    <2>3. n \in G
      <3>1. \A m \in 1..n : m - 1 \in G => m \in G
        BY <2>2
      <3>2. n \in 0..n
        OBVIOUS
      <3> QED
        BY <2>1, <3>1, <3>2, UpTo
    <2> QED
      BY <2>3 DEF G
  <1>3. Loop(front, n)
    <2> HIDE DEF Loop
    <2> QED
      BY <1>2
  <1> HIDE DEF front
  <1>4. \A i \in 1..n : front[i] = IF i = 1 THEN {Anchor} ELSE Extended(front[i - 1], i)
    BY <1>3
  <1>5. 1 \in 1..n /\ \A i \in 2..n : i \in 1..n /\ i # 1
    OBVIOUS
  <1> HIDE DEF Loop
  <1> QED
    BY <1>1, <1>4, <1>5

\* The chosen profiles cover every other, to the end of the path.
LEMMA ProfilesCover ==
  ASSUME scene \in Scenes, path \in Routes, Len(path) >= 2
  PROVE  /\ Covers(Profiles, EveryProfile)
         /\ \A g \in EveryProfile : Last(g.zs) \in Allowed(Len(path))
  <1> DEFINE n == Len(path)
  <1>1. n \in Nat /\ n >= 2
    BY LenProperties DEF Routes
  <1>2. PICK some : /\ Profiles = some[n] /\ some[1] = {Anchor}
                    /\ \A i \in 2..n : some[i] = Station(some[i - 1], i)
    <2>1. n # 0 /\ Len(path) = n
      BY <1>1
    <2> HIDE DEF n
    <2> QED
      BY <1>1, <2>1, Stepwise, Zenon
  <1>3. PICK all : /\ EveryProfile = all[n] /\ all[1] = {Anchor}
                   /\ \A i \in 2..n : all[i] = Extended(all[i - 1], i)
    <2>1. n # 0 /\ Len(path) = n
      BY <1>1
    <2> HIDE DEF n
    <2> QED
      BY <1>1, <2>1, Exhaustive, Zenon
  <1>4. Covers({Anchor}, {Anchor})
    <2>1. path[1].z \in Int
      <3>1. 1 \in 1..n
        BY <1>1
      <3> QED
        BY <3>1, PointsOf
    <2>2. <<path[1].z>> \in Seq(Int) /\ <<path[1].z>> # <<>>
      BY <2>1
    <2>3. Anchor \in Profile /\ Anchor.cost = 0
      BY <2>2 DEF Anchor, Profile
    <2>4. Anchor.cost <= Anchor.cost
      BY <2>3
    <2> HIDE DEF Anchor
    <2> QED
      BY <2>3, <2>4 DEF Covers
  <1> HIDE DEF n
  <1> DEFINE G == {i \in 0..n : i = 0 \/
                     /\ Covers(some[i], all[i])
                     /\ i # 1 => \A g \in all[i] : Last(g.zs) \in Allowed(i)}
  <1>5. ASSUME NEW i \in 1..n, i - 1 \in G
        PROVE  i \in G
    <2>1. CASE i = 1
      <3>1. Covers(some[i], all[i])
        BY <1>2, <1>3, <1>4, <2>1
      <3> QED
        BY <1>1, <2>1, <3>1
    <2>2. CASE i # 1
      <3>1. i \in 2..n
        BY <1>1, <2>2
      <3>2. Covers(some[i - 1], all[i - 1])
        BY <1>5, <3>1
      <3>3. /\ Covers(Station(some[i - 1], i), Extended(all[i - 1], i))
            /\ \A g \in Extended(all[i - 1], i) : Last(g.zs) \in Allowed(i)
        BY <3>1, <3>2, StationCovers DEF n
      <3>4. some[i] = Station(some[i - 1], i) /\ all[i] = Extended(all[i - 1], i)
        BY <1>2, <1>3, <3>1
      <3>5. i \in 0..n
        BY <1>1
      <3> QED
        BY <3>3, <3>4, <3>5
    <2> QED
      BY <2>1, <2>2
  <1>6. 0 \in G
    BY <1>1
  <1>7. n \in 0..n /\ n # 0 /\ n # 1
    BY <1>1
  <1>8. n \in G
    <2> HIDE DEF G
    <2> QED
      BY <1>1, <1>5, <1>6, <1>7, UpTo
  <1>9. Covers(some[n], all[n]) /\ \A g \in all[n] : Last(g.zs) \in Allowed(n)
    BY <1>7, <1>8
  <1> QED
    BY <1>2, <1>3, <1>9 DEF n

\* The last vertex is pinned, so every profile ends there, and the one that is
\* kept costs no more than any.
LEMMA KeptIsCheapest ==
  ASSUME scene \in Scenes, path \in Routes, Len(path) >= 2
  PROVE  /\ (Profiles = {}) = (EveryProfile = {})
         /\ \A f \in Profiles, g \in EveryProfile : f.cost <= g.cost
  <1>1. /\ Covers(Profiles, EveryProfile)
        /\ \A g \in EveryProfile : Last(g.zs) = path[Len(path)].z
    BY ProfilesCover DEF Allowed, Anchored
  <1>2. (Profiles = {}) = (EveryProfile = {})
    BY <1>1 DEF Covers
  <1>3. ASSUME NEW f \in Profiles, NEW g \in EveryProfile
        PROVE  f.cost <= g.cost
    <2>1. PICK h \in Profiles : Last(h.zs) = Last(g.zs) /\ h.cost <= g.cost
      BY <1>1 DEF Covers
    <2>2. f = h
      BY <1>1, <2>1 DEF Covers
    <2> QED
      BY <2>1, <2>2
  <1> QED
    BY <1>2, <1>3

\* At every stage the front half's products are of their types, the route
\* that is flown has its ends and the reference pairs with it (planFrontEnd,
\* planGlobalTraj, optimizeFromPath).
THEOREM ProductsTyped == Spec => []TypeInv
  BY Starts, TypeStep, PTL DEF Spec

\* What commitH4Profile commits costs no more than any profile that keeps the
\* floors, the pinned ends and the climb window, and it commits none only where
\* there is none: the route is not flown unchanged for want of searching.
THEOREM CheapestIsCommitted == Spec => CommitIsCheapest
  <1> DEFINE Asked == scene.h4 /\ Len(path) >= 3 /\ (LeadIn => Len(path) >= 4)
             Cheapest == /\ (commit' = {}) = (EveryProfile = {})
                         /\ \A f \in commit', g \in EveryProfile : f.cost <= g.cost
  <1>1. Init => TypeInv
    BY Starts
  <1>2. TypeInv /\ [Next]_vars => TypeInv'
    BY TypeStep
  <1>3. TypeInv /\ [Next]_vars => [CommitProfile /\ Asked => Cheapest]_vars
    <2> SUFFICES ASSUME TypeInv, CommitProfile, Asked
                 PROVE  Cheapest
      OBVIOUS
    <2>1. scene \in Scenes /\ path \in Routes /\ Len(path) >= 3
      BY DEF TypeInv, CommitProfile
    <2>2. Len(path) \in Nat
      BY <2>1, LenProperties DEF Routes
    <2>3. commit' = Profiles
      <3>1. ~ (~scene.h4 \/ Len(path) < 3 \/ (LeadIn /\ Len(path) < 4))
        BY <2>1, <2>2
      <3> QED
        BY <3>1 DEF CommitProfile
    <2>4. Len(path) >= 2
      BY <2>1, <2>2
    <2> QED
      BY <2>1, <2>3, <2>4, KeptIsCheapest
  <1> QED
    BY <1>1, <1>2, <1>3, PTL DEF Spec, CommitIsCheapest

-----------------------------------------------------------------------------
(***************************************************************************)
(* The cap reference is over the route, piece by piece and slope by slope. *)
(***************************************************************************)

\* A higher chord is higher wherever it is cut.
LEMMA Chords ==
  ASSUME NEW u \in Int, NEW v \in Int, NEW s \in Int, NEW t \in Int,
         u <= s, v <= t, NEW n \in Nat \ {0}, NEW k \in 0..n
  PROVE  u + ((v - u) * k) \div n <= s + ((t - s) * k) \div n
  <1> DEFINE a == (v - u) * k
             b == (t - s) * k
             q == a \div n
             p == b \div n
  <1>1. a \in Int /\ b \in Int
    OBVIOUS
  <1>2. u * n + a <= s * n + b
    <2>1. u * (n - k) <= s * (n - k) /\ v * k <= t * k
      BY Scaling
    <2>2. u * n + a = u * (n - k) + v * k /\ s * n + b = s * (n - k) + t * k
      OBVIOUS
    <2>3. /\ u * (n - k) \in Int /\ s * (n - k) \in Int
          /\ v * k \in Int /\ t * k \in Int
      OBVIOUS
    <2> HIDE DEF a, b
    <2> QED
      BY <2>1, <2>2, <2>3
  <1> HIDE DEF a, b
  <1>3. q \in Int /\ p \in Int /\ q * n <= a /\ b < (p + 1) * n
    BY <1>1
  <1> HIDE DEF q, p
  <1>4. ASSUME ~ (u + q <= s + p) PROVE FALSE
    <2>1. s + p + 1 <= u + q
      BY <1>3, <1>4
    <2>2. (s + p + 1) * n <= (u + q) * n
      BY <1>3, <2>1, Scaling
    <2>3. (s + p + 1) * n = s * n + (p + 1) * n /\ (u + q) * n = u * n + q * n
      BY <1>3
    <2>4. s * n \in Int /\ u * n \in Int /\ q * n \in Int /\ (p + 1) * n \in Int
      BY <1>3
    <2> QED
      BY <1>1, <1>2, <1>3, <2>2, <2>3, <2>4
  <1>5. u + q \in Int /\ s + p \in Int /\ u + q <= s + p
    BY <1>3, <1>4
  <1> QED
    BY <1>5 DEF q, p, a, b

\* Vertices whose reference is over them and over the ground plane.
CappedVertex == {v \in Vertex : v.cap >= v.z /\ v.cap >= GroundHeight}

LEMMA CappedCuts ==
  ASSUME NEW a \in Point, NEW b \in Point, NEW za \in Int, NEW zb \in Int,
         za >= a.z, zb >= b.z, za >= GroundHeight, zb >= GroundHeight
  PROVE  CutPoints(a, b, za, zb) \in Seq(CappedVertex)
  <1> DEFINE n == Larger(1, Abs(b.x - a.x) \div 2)
             c == CutPoints(a, b, za, zb)
             cap(k) == za + ((zb - za) * k) \div n
  <1>1. c \in Seq(Vertex)
    BY Cutting
  <1>2. n \in Nat \ {0}
    <2> DEFINE d == Abs(b.x - a.x)
    <2>1. d \in Nat
      BY DEF Abs, Point
    <2> HIDE DEF d
    <2>2. d \div 2 \in Int
      BY <2>1
    <2>3. Larger(1, d \div 2) \in Nat \ {0}
      BY <2>2 DEF Larger
    <2> QED
      BY <2>3 DEF d
  <1>3. c = [k \in 1..n |-> [x |-> a.x + ((b.x - a.x) * k) \div n,
                             z |-> a.z + ((b.z - a.z) * k) \div n,
                             cap |-> cap(k)]]
    BY DEF CutPoints
  <1> HIDE DEF n
  <1>4. ASSUME NEW k \in 1..n
        PROVE  a.z + ((b.z - a.z) * k) \div n <= cap(k) /\ GroundHeight <= cap(k)
    <2>1. k \in 0..n /\ a.z \in Int /\ b.z \in Int /\ GroundHeight \in Int
      BY <1>2, LevelsAssumption DEF Point
    <2>2. a.z + ((b.z - a.z) * k) \div n <= cap(k)
      BY <1>2, <2>1, Chords
    <2>3. GroundHeight + ((GroundHeight - GroundHeight) * k) \div n <= cap(k)
      BY <1>2, <2>1, Chords
    <2>4. (GroundHeight - GroundHeight) * k = 0 /\ 0 \div n = 0
      BY <1>2, <2>1
    <2>5. GroundHeight + ((GroundHeight - GroundHeight) * k) \div n = GroundHeight
      BY <2>1, <2>4
    <2> QED
      BY <2>2, <2>3, <2>5
  <1> HIDE DEF cap
  <1>5. Len(c) = n
    BY <1>2, <1>3
  <1>6. ASSUME NEW k \in 1..n PROVE c[k] \in CappedVertex
    <2>1. c[k] \in Vertex
      BY <1>1, <1>5, ElementOfSeq
    <2>2. c[k].z = a.z + ((b.z - a.z) * k) \div n /\ c[k].cap = cap(k)
      BY <1>3
    <2>3. c[k].cap \in Int /\ c[k].z \in Int /\ GroundHeight \in Int
      BY <2>1, LevelsAssumption DEF Vertex
    <2>4. c[k].z <= c[k].cap /\ GroundHeight <= c[k].cap
      BY <1>4, <2>2
    <2> HIDE DEF c
    <2> QED
      BY <2>1, <2>3, <2>4 DEF CappedVertex
  <1>7. c = [k \in 1..n |-> c[k]]
    BY <1>3
  <1> HIDE DEF c
  <1>8. [k \in 1..n |-> c[k]] \in Seq(CappedVertex)
    BY <1>2, <1>6
  <1> QED
    BY <1>7, <1>8 DEF c

Capped(r, cap) ==
  /\ Len(cap) = Len(r)
  /\ \A i \in 1..Len(r) : cap[i] >= r[i].z /\ cap[i] >= GroundHeight

LEMMA CappedPieces ==
  ASSUME NEW r \in Routes, r # <<>>, NEW zs \in Seq(Int), Capped(r, zs)
  PROVE  Pieces(r, zs) \in Seq(CappedVertex)
  <1> DEFINE m == Len(r) - 1
             cut(i) == CutPoints(r[i], r[i + 1], zs[i], zs[i + 1])
             first == [x |-> r[1].x, z |-> r[1].z, cap |-> zs[1]]
             q == [i \in 1..m |-> cut(i)]
  <1>1. m \in Nat
    BY EmptySeq DEF Routes
  <1>2. \A i \in 1..Len(r) : /\ r[i] \in Point /\ r[i].x \in Int /\ r[i].z \in Int
                             /\ zs[i] \in Int /\ zs[i] >= r[i].z
                             /\ zs[i] >= GroundHeight
    BY PointsOf, ElementOfSeq DEF Capped
  <1>3. first \in CappedVertex
    <2>1. 1 \in 1..Len(r)
      BY <1>1, LenProperties DEF Routes
    <2> QED
      BY <1>2, <2>1 DEF Vertex, CappedVertex
  <1>4. ASSUME NEW i \in 1..m PROVE cut(i) \in Seq(CappedVertex)
    <2>1. i \in 1..Len(r) /\ i + 1 \in 1..Len(r)
      BY LenProperties DEF Routes
    <2> QED
      BY <1>2, <2>1, CappedCuts
  <1>5. Pieces(r, zs) = <<first>> \o FlattenSeq(q)
    BY DEF Pieces
  <1> HIDE DEF cut, first, m
  <1>6. q \in Seq(Seq(CappedVertex))
    BY <1>1, <1>4
  <1> HIDE DEF q
  <1>7. FlattenSeq(q) \in Seq(CappedVertex) /\ <<first>> \in Seq(CappedVertex)
    BY <1>3, <1>6, Flattens
  <1> QED
    BY <1>5, <1>7, ConcatProperties

\* A pass along the reference only raises it.
LEMMA Bleeds ==
  ASSUME NEW n \in Nat, n # 0, NEW r \in Seq(Int), Len(r) = n, NEW drop,
         \A i \in 2..n : drop[i] \in Int
  PROVE  /\ Bleed(r, drop) \in Seq(Int) /\ Len(Bleed(r, drop)) = n
         /\ \A i \in 1..n : r[i] <= Bleed(r, drop)[i]
  <1> DEFINE Loop(f, m) == f = [i \in 1..m |-> IF i = 1 THEN r[1]
                                               ELSE Larger(r[i], f[i - 1] - drop[i])]
             front == CHOOSE f : Loop(f, n)
  <1>1. Bleed(r, drop) = front
    BY Zenon DEF Bleed
  <1>2. \E f : Loop(f, n)
    <2> DEFINE G == {m \in 0..n : \E f : Loop(f, m)}
    <2>1. 0 \in G
      <3>1. Loop([i \in 1..0 |-> r[1]], 0)
        OBVIOUS
      <3> HIDE DEF Loop
      <3> QED
        BY <3>1
    <2>2. ASSUME NEW m \in 1..n, m - 1 \in G
          PROVE  m \in G
      <3>1. PICK f : Loop(f, m - 1)
        BY <2>2
      <3> DEFINE g == [i \in 1..m |-> IF i = m
                                      THEN IF i = 1 THEN r[1]
                                           ELSE Larger(r[i], f[i - 1] - drop[i])
                                      ELSE f[i]]
      <3>2. ASSUME NEW i \in 1..m
            PROVE  g[i] = IF i = 1 THEN r[1] ELSE Larger(r[i], g[i - 1] - drop[i])
        <4>0. m \in Int
          OBVIOUS
        <4>1. i # 1 => g[i - 1] = f[i - 1]
          BY <4>0
        <4>2. i # m => f[i] = IF i = 1 THEN r[1] ELSE Larger(r[i], f[i - 1] - drop[i])
          <5>1. i # m => i \in 1..(m - 1)
            BY <4>0
          <5>2. Loop(f, m - 1)
            BY <3>1
          <5> HIDE DEF g
          <5> QED
            BY <5>1, <5>2
        <4>3. CASE i = m
          <5>1. g[m] = IF m = 1 THEN r[1] ELSE Larger(r[m], f[m - 1] - drop[m])
            BY <4>0
          <5> HIDE DEF g
          <5>2. m = 1 \/ g[m - 1] = f[m - 1]
            BY <4>1, <4>3
          <5> QED
            BY <4>3, <5>1, <5>2
        <4>4. CASE i # m
          <5>1. g[i] = f[i]
            BY <4>4
          <5> HIDE DEF g
          <5> QED
            BY <4>1, <4>2, <4>4, <5>1
        <4> QED
          BY <4>3, <4>4
      <3>3. Loop(g, m)
        BY <3>2
      <3> HIDE DEF Loop
      <3> QED
        BY <2>2, <3>3
    <2> HIDE DEF G
    <2>3. n \in G
      <3>1. \A m \in 1..n : m - 1 \in G => m \in G
        BY <2>2
      <3>2. n \in 0..n
        OBVIOUS
      <3> QED
        BY <2>1, <3>1, <3>2, UpTo
    <2> QED
      BY <2>3 DEF G
  <1>3. Loop(front, n)
    <2> HIDE DEF Loop
    <2> QED
      BY <1>2
  <1> HIDE DEF front
  <1>4. \A i \in 1..n : front[i] = IF i = 1 THEN r[1] ELSE Larger(r[i], front[i - 1] - drop[i])
    BY <1>3
  <1>5. front = [i \in 1..n |-> front[i]]
    BY <1>3
  <1> HIDE DEF Loop
  <1>6. \A i \in 1..n : r[i] \in Int
    BY ElementOfSeq
  <1> DEFINE G == {i \in 0..n : i = 0 \/ (front[i] \in Int /\ r[i] <= front[i])}
  <1>7. ASSUME NEW i \in 1..n, i - 1 \in G
        PROVE  i \in G
    <2>1. r[i] \in Int /\ i \in 0..n
      BY <1>6
    <2>2. CASE i = 1
      BY <1>4, <2>1, <2>2
    <2>3. CASE i # 1
      <3>1. front[i - 1] \in Int /\ drop[i] \in Int
        BY <1>7, <2>3
      <3>2. front[i] = Larger(r[i], front[i - 1] - drop[i])
        BY <1>4, <2>3
      <3> HIDE DEF G
      <3>3. front[i] \in Int /\ r[i] <= front[i]
        BY <2>1, <3>1, <3>2 DEF Larger
      <3> QED
        BY <2>1, <3>3 DEF G
    <2> QED
      BY <2>2, <2>3
  <1>8. 0 \in G
    OBVIOUS
  <1> HIDE DEF G
  <1>9. \A i \in 0..n : i \in G
    BY <1>7, <1>8, UpTo
  <1>10. \A i \in 1..n : front[i] \in Int /\ r[i] <= front[i]
    BY <1>9 DEF G
  <1>11. [i \in 1..n |-> front[i]] \in Seq(Int) /\ Len([i \in 1..n |-> front[i]]) = n
    BY <1>10
  <1> QED
    BY <1>1, <1>5, <1>10, <1>11


LEMMA Dilates ==
  ASSUME NEW n \in Nat, n # 0, NEW r \in Seq(Int), Len(r) = n, NEW drop,
         \A i \in 2..n : drop[i] \in Int
  PROVE  /\ Dilated(r, drop) \in Seq(Int) /\ Len(Dilated(r, drop)) = n
         /\ \A i \in 1..n : r[i] <= Dilated(r, drop)[i]
  <1> DEFINE there == Bleed(r, drop)
             turned == Reverse(there)
             pord == [i \in 2..n |-> drop[n + 2 - i]]
             back == Bleed(turned, pord)
  <1>1. there \in Seq(Int) /\ Len(there) = n /\ \A i \in 1..n : r[i] <= there[i]
    BY Bleeds
  <1>2. Dilated(r, drop) = Reverse(back)
    BY DEF Dilated
  <1> HIDE DEF there
  <1>3. \A i \in 1..n : there[i] \in Int
    BY <1>1, ElementOfSeq
  <1>4. turned = [i \in 1..n |-> there[(n - i) + 1]]
    BY <1>1 DEF Reverse
  <1>5. \A i \in 1..n : (n - i) + 1 \in 1..n /\ (n - ((n - i) + 1)) + 1 = i
    OBVIOUS
  <1> HIDE DEF turned
  <1>6. turned \in Seq(Int) /\ Len(turned) = n
    BY <1>3, <1>4, <1>5
  <1>7. \A i \in 2..n : pord[i] \in Int
    OBVIOUS
  <1> HIDE DEF pord
  <1>8. back \in Seq(Int) /\ Len(back) = n /\ \A i \in 1..n : turned[i] <= back[i]
    BY <1>6, <1>7, Bleeds
  <1> HIDE DEF back
  <1>9. \A i \in 1..n : back[i] \in Int
    BY <1>8, ElementOfSeq
  <1>10. Reverse(back) = [i \in 1..n |-> back[(n - i) + 1]]
    BY <1>8 DEF Reverse
  <1>11. Reverse(back) \in Seq(Int) /\ Len(Reverse(back)) = n
    BY <1>5, <1>9, <1>10
  <1>12. ASSUME NEW i \in 1..n PROVE r[i] <= Reverse(back)[i]
    <2> DEFINE j == (n - i) + 1
    <2>1. j \in 1..n /\ (n - j) + 1 = i
      BY <1>5
    <2>2. Reverse(back)[i] = back[j]
      BY <1>10
    <2> HIDE DEF j
    <2>3. turned[j] = there[i]
      BY <1>4, <2>1
    <2>4. r[i] \in Int /\ there[i] \in Int /\ back[j] \in Int
      BY <1>3, <1>9, <2>1, ElementOfSeq
    <2>5. r[i] <= there[i] /\ turned[j] <= back[j]
      BY <1>1, <1>8, <2>1
    <2> QED
      BY <2>2, <2>3, <2>4, <2>5
  <1> QED
    BY <1>2, <1>11, <1>12

-----------------------------------------------------------------------------
(***************************************************************************)
(* The floor a piece is pressed above, and the cap over it.                *)
(***************************************************************************)

\* References a band's floor leaves room under the cap of.
Above(lo) == {h \in Int : lo <= h + CapHeadroom}

LEMMA Mirrors ==
  ASSUME NEW lo, NEW r \in Seq(Above(lo)), Len(r) >= 2
  PROVE  Mirrored(r) \in Seq(Above(lo)) /\ Len(Mirrored(r)) = Len(r) + 1
  <1> DEFINE h == Larger(r[1], r[2])
  <1>1. Len(r) \in Nat
    BY LenProperties
  <1>2. 1 \in 1..Len(r) /\ 2 \in 1..Len(r) /\ r # <<>>
    BY <1>1
  <1>3. r[1] \in Above(lo) /\ r[2] \in Above(lo)
    BY <1>2, ElementOfSeq
  <1>4. h \in Above(lo)
    BY <1>3 DEF Larger
  <1> HIDE DEF h
  <1>5. Mirrored(r) = InsertAt(r, 2, h)
    BY <1>2 DEF Mirrored, h
  <1> QED
    BY <1>4, <1>5, Inserting

LEMMA Tapers ==
  ASSUME job.from \in Point, Goal \in Point, NEW x \in Int, NEW y \in Strip,
         NEW e \in {1, 2}, NEW low \in Int, NEW high \in Int
  PROVE  Tapered(x, y, e, low, high) \in Int
  <1> DEFINE d == Abs(x - Ends[e].x) + y
             n == TaperRadius
  <1>1. Ends[e] \in Point
    BY DEF Ends
  <1>2. d \in Nat
    BY <1>1 DEF Abs, Point, Strip
  <1>3. n \in Int
    <2> DEFINE span == Abs(Goal.x - job.from.x)
    <2>1. span \in Int /\ TaperLen \in Int
      BY ScaleAssumption DEF Abs, Point
    <2> HIDE DEF span
    <2>2. span \div 2 \in Int /\ span \div 4 \in Int
      BY <2>1
    <2> QED
      BY <2>1, <2>2 DEF TaperRadius, Larger, Smaller, span
  <1>4. Tapered(x, y, e, low, high) =
          IF d >= n THEN high
          ELSE low + ((high - low) * d * d * (3 * n - 2 * d)) \div (n * n * n)
    BY DEF Tapered
  <1> HIDE DEF d, n
  <1>5. ASSUME ~ (d >= n)
        PROVE  low + ((high - low) * d * d * (3 * n - 2 * d)) \div (n * n * n) \in Int
    <2> DEFINE w == (high - low) * d * d * (3 * n - 2 * d)
               m == n * n * n
    <2>1. n \in Nat \ {0} /\ w \in Int
      BY <1>2, <1>3, <1>5
    <2>2. m \in Nat \ {0}
      <3>1. n * n \in Nat \ {0}
        BY <2>1
      <3> QED
        BY <2>1, <3>1
    <2> HIDE DEF w, m
    <2>3. w \div m \in Int
      BY <2>1, <2>2
    <2>4. low + w \div m \in Int
      BY <2>3
    <2> QED
      BY <2>4 DEF w, m
  <1> QED
    BY <1>4, <1>5

\* The least of one number and of finitely many others is at most the one.
LEMMA LeastWith ==
  ASSUME NEW h \in Int, NEW f, IsFiniteSet(DOMAIN f), \A e \in DOMAIN f : f[e] \in Int
  PROVE  /\ Min({h} \cup {f[e] : e \in DOMAIN f}) \in Int
         /\ Min({h} \cup {f[e] : e \in DOMAIN f}) <= h
         /\ Max({h} \cup {f[e] : e \in DOMAIN f}) \in Int
         /\ h <= Max({h} \cup {f[e] : e \in DOMAIN f})
         /\ \A e \in DOMAIN f : f[e] <= Max({h} \cup {f[k] : k \in DOMAIN f})
  <1> DEFINE T == {f[e] : e \in DOMAIN f}
             S == {h} \cup T
  <1>1. IsFiniteSet(T)
    BY FiniteImage
  <1>2. S \in SUBSET Int /\ S # {} /\ h \in S /\ \A e \in DOMAIN f : f[e] \in S
    OBVIOUS
  <1> HIDE DEF T
  <1>3. IsFiniteSet(S)
    <2>1. IsFiniteSet({h})
      BY FS_Singleton
    <2> QED
      BY <1>1, <2>1, FS_Union
  <1> HIDE DEF S
  <1>4. /\ Min(S) \in S /\ \A k \in S : Min(S) <= k
        /\ Max(S) \in S /\ \A k \in S : k <= Max(S)
    BY <1>2, <1>3, Extremes
  <1> QED
    BY <1>2, <1>4 DEF S, T

LEMMA Floors ==
  ASSUME scene \in Scenes, job.from \in Point, Goal \in Point, band.lo \in Int,
         NEW x \in Int, NEW y \in Strip
  PROVE  /\ FloorAt(x, y) \in Int
         /\ FloorAt(x, y) <= Larger(band.lo, IF Land(x, y)
                                             THEN Elevation(x, y) + OptClearance
                                             ELSE NegInf)
  <1>1. Ends[1] \in Point /\ Ends[2] \in Point
    BY DEF Ends
  <1>2. \A E \in SUBSET {1, 2} : IsFiniteSet(E)
    <2>1. IsFiniteSet({1, 2})
      <3>1. IsFiniteSet({1}) /\ IsFiniteSet({2})
        BY FS_Singleton
      <3>2. {1, 2} = {1} \cup {2}
        OBVIOUS
      <3> QED
        BY <3>1, <3>2, FS_Union
    <2> QED
      BY <2>1, FS_Subset
  <1>3. OptClearance \in Int
    BY OptClearanceAssumption
  <1>4. AltitudeFloorTarget(x, y) \in Int /\ AltitudeFloorTarget(x, y) <= band.lo
    <2> DEFINE E == {e \in {1, 2} : FloorTaperOn(e)}
               f == [e \in E |-> Tapered(x, y, e, Ends[e].z, band.lo)]
    <2>1. \A e \in E : f[e] \in Int
      <3> SUFFICES ASSUME NEW e \in E PROVE f[e] \in Int
        OBVIOUS
      <3>1. e \in {1, 2} /\ Ends[e].z \in Int
        BY <1>1 DEF Point
      <3> QED
        BY <3>1, Tapers
    <2>2. AltitudeFloorTarget(x, y) = Min({band.lo} \cup {f[e] : e \in DOMAIN f})
      BY DEF AltitudeFloorTarget
    <2>3. IsFiniteSet(DOMAIN f) /\ \A e \in DOMAIN f : f[e] \in Int
      BY <1>2, <2>1
    <2> HIDE DEF f
    <2> QED
      BY <2>2, <2>3, LeastWith
  <1>5. /\ TerrainClearanceTarget(x, y) \in Int
        /\ TerrainClearanceTarget(x, y) <= OptClearance
    <2> DEFINE E == {e \in {1, 2} : TerrTaperOn(e)}
               f == [e \in E |-> Tapered(x, y, e, Larger(0, EndAgl(e)), OptClearance)]
    <2>1. \A e \in E : f[e] \in Int
      <3> SUFFICES ASSUME NEW e \in E PROVE f[e] \in Int
        OBVIOUS
      <3>1. e \in {1, 2} /\ Ends[e].z \in Int /\ Ends[e].x \in Int
        BY <1>1 DEF Point
      <3>2. Ground(Ends[e].x) \in Int
        BY <3>1, Grounds
      <3>3. Larger(0, EndAgl(e)) \in Int
        BY <3>1, <3>2 DEF EndAgl, Larger
      <3> QED
        BY <1>3, <3>1, <3>3, Tapers
    <2>2. TerrainClearanceTarget(x, y) = Min({OptClearance} \cup {f[e] : e \in DOMAIN f})
      BY DEF TerrainClearanceTarget
    <2>3. IsFiniteSet(DOMAIN f) /\ \A e \in DOMAIN f : f[e] \in Int
      BY <1>2, <2>1
    <2> HIDE DEF f
    <2> QED
      BY <1>3, <2>2, <2>3, LeastWith
  <1>6. Elevation(x, y) \in Int
    BY Elevations
  <1> QED
    BY <1>3, <1>4, <1>5, <1>6 DEF FloorAt, Larger, NegInf

\* Land is higher than nothing at all.
LEMMA LandIsHigh ==
  ASSUME scene \in Scenes, NEW x \in Int, NEW y \in Strip, Land(x, y)
  PROVE  NegInf < Elevation(x, y)
  <1>1. IsScene(scene)
    BY ScenesAssumption
  <1>2. scene.dem /\ x \in 0..Far
    BY DEF Land, Elevation
  <1>3. Elevation(x, y) \in {scene.elev[x], scene.side[x]} /\ Elevation(x, y) # Water
    BY <1>2 DEF Elevation, Land
  <1> QED
    BY <1>1, <1>2, <1>3 DEF IsScene

LEMMA Swaths ==
  ASSUME scene \in Scenes, NEW a, NEW b, a.x \in Int, b.x \in Int
  PROVE  /\ SwathFloor(a, b) \in Int /\ NegInf <= SwathFloor(a, b)
         /\ \A x \in Between(a.x, b.x), y \in Strip :
              Land(x, y) => Elevation(x, y) + OptClearance <= SwathFloor(a, b)
  <1> DEFINE land == {c \in Between(a.x, b.x) \X Strip : Land(c[1], c[2])}
             f == [c \in land |-> Elevation(c[1], c[2])]
  <1>1. SwathTerrain(a, b) = Max({NegInf} \cup {f[c] : c \in DOMAIN f})
    BY DEF SwathTerrain
  <1>2. \A c \in land : c[1] \in Int /\ c[2] \in Strip
    BY DEF Between
  <1>3. IsFiniteSet(land)
    <2>1. Smaller(a.x, b.x) \in Int /\ Larger(a.x, b.x) \in Int
      BY DEF Smaller, Larger
    <2>2. IsFiniteSet(Between(a.x, b.x)) /\ IsFiniteSet(Strip)
      <3>1. IsFiniteSet(Between(a.x, b.x))
        BY <2>1, FS_Interval DEF Between
      <3>2. 0 \in Int /\ 1 \in Int
        OBVIOUS
      <3> QED
        BY <3>1, <3>2, FS_Interval DEF Strip
    <2>3. IsFiniteSet(Between(a.x, b.x) \X Strip)
      BY <2>2, FS_Product
    <2> QED
      BY <2>3, FS_Subset
  <1>4. \A x \in Between(a.x, b.x), y \in Strip :
          Land(x, y) => <<x, y>> \in land /\ f[<<x, y>>] = Elevation(x, y)
    OBVIOUS
  <1> HIDE DEF land
  <1>5. IsFiniteSet(DOMAIN f) /\ DOMAIN f = land /\ \A c \in DOMAIN f : f[c] \in Int
    BY <1>2, <1>3, Elevations
  <1> HIDE DEF f
  <1>6. NegInf \in Int /\ OptClearance \in Int
    BY OptClearanceAssumption DEF NegInf
  <1>7. /\ SwathTerrain(a, b) \in Int /\ NegInf <= SwathTerrain(a, b)
        /\ \A c \in DOMAIN f : f[c] <= SwathTerrain(a, b)
    <2> DEFINE T == Max({NegInf} \cup {f[c] : c \in DOMAIN f})
    <2>1. T \in Int /\ NegInf <= T /\ \A c \in DOMAIN f : f[c] <= T
      BY <1>5, <1>6, LeastWith
    <2>2. SwathTerrain(a, b) = T
      BY <1>1
    <2> HIDE DEF T
    <2> QED
      BY <2>1, <2>2
  <1>8. SwathFloor(a, b) \in Int /\ NegInf <= SwathFloor(a, b)
    <2>1. OptClearance \in Nat
      BY OptClearanceAssumption
    <2> QED
      BY <1>6, <1>7, <2>1 DEF SwathFloor
  <1>9. ASSUME NEW x \in Between(a.x, b.x), NEW y \in Strip, Land(x, y)
        PROVE  Elevation(x, y) + OptClearance <= SwathFloor(a, b)
    <2>1. Elevation(x, y) <= SwathTerrain(a, b)
      BY <1>4, <1>5, <1>7, <1>9
    <2>2. x \in Int /\ Elevation(x, y) \in Int
      BY Elevations DEF Between
    <2>3. NegInf < Elevation(x, y)
      BY <1>9, <2>2, LandIsHigh
    <2>4. SwathTerrain(a, b) # NegInf
      BY <1>6, <1>7, <2>1, <2>2, <2>3
    <2> QED
      BY <1>6, <1>7, <2>1, <2>2, <2>4 DEF SwathFloor
  <1> QED
    BY <1>8, <1>9

LEMMA Relaxes ==
  ASSUME scene \in Scenes, NEW a, NEW b, a.x \in Int, b.x \in Int
  PROVE  Relaxation(a, b) \in Int /\ 0 <= Relaxation(a, b)
  <1> DEFINE Z == Range(scene.zones)
             f == [zn \in Z |-> (ZoneRelax * Smaller(zn.reach, 3 * zn.reach
                                     - 2 * GapTo(a, b, zn.x))) \div zn.reach]
  <1>1. IsFiniteSet(DOMAIN f) /\ Z \subseteq Zone
    BY Zones
  <1>2. ASSUME NEW zn \in Z PROVE f[zn] \in Int
    <2> DEFINE w == ZoneRelax * Smaller(zn.reach, 3 * zn.reach
                                          - 2 * GapTo(a, b, zn.x))
    <2>1. zn.x \in Int /\ zn.reach \in Nat \ {0} /\ ZoneRelax \in Int
      BY <1>1, ScaleAssumption DEF Zone
    <2>2. GapTo(a, b, zn.x) \in Int
      BY <2>1 DEF GapTo, Smaller, Abs
    <2>3. Smaller(zn.reach, 3 * zn.reach - 2 * GapTo(a, b, zn.x)) \in Int
      BY <2>1, <2>2 DEF Smaller
    <2>4. w \in Int
      BY <2>1, <2>3
    <2>5. f[zn] = w \div zn.reach
      OBVIOUS
    <2> HIDE DEF w, f
    <2> QED
      BY <2>1, <2>4, <2>5
  <1>3. Relaxation(a, b) = Max({0} \cup {f[zn] : zn \in DOMAIN f})
    BY DEF Relaxation
  <1>4. \A zn \in DOMAIN f : f[zn] \in Int
    BY <1>2
  <1> HIDE DEF f
  <1> QED
    <2> DEFINE T == Max({0} \cup {f[zn] : zn \in DOMAIN f})
    <2>1. 0 \in Int
      OBVIOUS
    <2>2. T \in Int /\ 0 <= T
      BY <1>1, <1>4, <2>1, LeastWith
    <2>3. Relaxation(a, b) = T
      BY <1>3
    <2> HIDE DEF T
    <2> QED
      BY <2>2, <2>3

LEMMA Shades ==
  ASSUME scene \in Scenes, NEW a, NEW b, a.x \in Int, b.x \in Int
  PROVE  ShadowCeil(a, b) \in Int
  <1> DEFINE Z == Range(scene.zones)
             lit == {xz \in Between(a.x, b.x) \X Z : Abs(xz[1] - xz[2].x) <= xz[2].reach}
             f == [xz \in lit |-> ShadowCeiling(xz[2], xz[1])]
             S == {f[xz] : xz \in DOMAIN f}
  <1>1. ShadowCeil(a, b) = IF ShadowMargin = 0 \/ lit = {} THEN NegInf ELSE Min(S)
    BY DEF ShadowCeil
  <1>2. Z \subseteq Zone /\ IsFiniteSet(Z)
    BY Zones
  <1> HIDE DEF Z
  <1>3. IsFiniteSet(lit) /\ \A xz \in lit : xz[1] \in Int /\ xz[2] \in Zone
    <2>1. Smaller(a.x, b.x) \in Int /\ Larger(a.x, b.x) \in Int
      BY DEF Smaller, Larger
    <2>2. IsFiniteSet(Between(a.x, b.x)) /\ Between(a.x, b.x) \subseteq Int
      BY <2>1, FS_Interval DEF Between
    <2>3. IsFiniteSet(Between(a.x, b.x) \X Z)
      BY <1>2, <2>2, FS_Product
    <2>4. IsFiniteSet(lit)
      BY <2>3, FS_Subset
    <2> QED
      BY <1>2, <2>2, <2>4
  <1> HIDE DEF lit
  <1>4. \A xz \in lit : f[xz] \in Int
    BY <1>3, Ceilings
  <1>5. IsFiniteSet(DOMAIN f) /\ DOMAIN f = lit
    BY <1>3
  <1> HIDE DEF f
  <1>6. IsFiniteSet(S)
    BY <1>5, FiniteImage
  <1>7. ASSUME lit # {} PROVE Min(S) \in Int
    <2>1. S \in SUBSET Int /\ S # {}
      BY <1>4, <1>5, <1>7
    <2> HIDE DEF S
    <2> QED
      BY <1>6, <2>1, Extremes
  <1> HIDE DEF S
  <1> QED
    BY <1>1, <1>7 DEF NegInf

\* The cap of a piece is a headroom over both references and over the terrain
\* beside it.
LEMMA CapIsHigh ==
  ASSUME scene \in Scenes, NEW n \in Nat, Len(path) = n,
         \A k \in 1..n : path[k].x \in Int,
         ref \in Seq(Int), Len(ref) = n, NEW i \in 1..(n - 1)
  PROVE  /\ PieceCap(i) \in Int
         /\ Larger(ref[i], ref[i + 1]) + CapHeadroom <= PieceCap(i)
         /\ SwathFloor(path[i], path[i + 1]) <= PieceCap(i)
  <1> DEFINE a == path[i]
             b == path[i + 1]
             drop == [k \in 2..n |-> CapSlope * Abs(path[k].x - path[k - 1].x)]
  <1>1. i \in 1..n /\ i + 1 \in 1..n /\ n # 0
    OBVIOUS
  <1>2. a.x \in Int /\ b.x \in Int
    BY <1>1
  <1>3. Envelope = Dilated(ref, drop)
    BY DEF Envelope
  <1>4. \A k \in 2..n : drop[k] \in Int
    <2> SUFFICES ASSUME NEW k \in 2..n PROVE drop[k] \in Int
      OBVIOUS
    <2>1. k \in 1..n /\ k - 1 \in 1..n
      OBVIOUS
    <2>2. Abs(path[k].x - path[k - 1].x) \in Int
      BY <2>1 DEF Abs
    <2> QED
      BY <2>2, ScaleAssumption
  <1> HIDE DEF drop
  <1>5. \A k \in 1..n : /\ ref[k] \in Int /\ Envelope[k] \in Int
                        /\ ref[k] <= Envelope[k]
    <2>1. /\ Envelope \in Seq(Int) /\ Len(Envelope) = n
          /\ \A k \in 1..n : ref[k] <= Envelope[k]
      BY <1>1, <1>3, <1>4, Dilates
    <2> HIDE DEF Envelope
    <2> QED
      BY <2>1, ElementOfSeq
  <1>6. /\ SwathFloor(a, b) \in Int /\ ShadowCeil(a, b) \in Int
        /\ Relaxation(a, b) \in Int /\ 0 <= Relaxation(a, b)
    BY <1>2, Swaths, Relaxes, Shades
  <1>7. CapHeadroom \in Nat /\ ShadowMargin \in Nat
    BY HeadroomAssumption, SlopeAssumption
  <1> DEFINE h == Larger(ref[i], ref[i + 1])
             m == Larger(Envelope[i], Envelope[i + 1])
             s == SwathFloor(a, b)
             t == Larger(m, s)
             cap == t + CapHeadroom + Relaxation(a, b)
  <1>8. h \in Int /\ m \in Int /\ h <= m
    <2> DEFINE e == Envelope[i]
               f == Envelope[i + 1]
               u == ref[i]
               v == ref[i + 1]
    <2>1. e \in Int /\ f \in Int /\ u \in Int /\ v \in Int /\ u <= e /\ v <= f
      BY <1>1, <1>5
    <2> HIDE DEF e, f, u, v
    <2>2. Larger(u, v) \in Int /\ Larger(e, f) \in Int /\ Larger(u, v) <= Larger(e, f)
      BY <2>1 DEF Larger
    <2> QED
      BY <2>2 DEF e, f, u, v
  <1>9. PieceCap(i) = Larger(cap, ShadowCeil(a, b) - ShadowMargin)
    BY DEF PieceCap, BandCap
  <1>10. s \in Int
    BY <1>6
  <1> HIDE DEF h, m, s
  <1>11. t \in Int /\ m <= t /\ s <= t
    BY <1>8, <1>10 DEF Larger
  <1> HIDE DEF t
  <1>12. cap \in Int /\ t + CapHeadroom <= cap
    BY <1>6, <1>7, <1>11
  <1> HIDE DEF cap
  <1>13. PieceCap(i) \in Int /\ cap <= PieceCap(i)
    BY <1>6, <1>7, <1>9, <1>12 DEF Larger
  <1>14. h + CapHeadroom <= cap
    <2>1. h + CapHeadroom <= m + CapHeadroom /\ m + CapHeadroom <= t + CapHeadroom
      BY <1>7, <1>8, <1>11
    <2> QED
      BY <1>7, <1>8, <1>11, <1>12, <2>1
  <1>15. s <= cap
    BY <1>7, <1>10, <1>11, <1>12
  <1>16. h + CapHeadroom <= PieceCap(i) /\ s <= PieceCap(i)
    BY <1>7, <1>8, <1>10, <1>12, <1>13, <1>14, <1>15
  <1> QED
    BY <1>13, <1>16 DEF h, s

\* It is over the floor all along the piece and to either side.
LEMMA PieceIsOpen ==
  ASSUME scene \in Scenes, job.from \in Point, Goal \in Point, band.lo \in Int,
         NEW n \in Nat, Len(path) = n, \A k \in 1..n : path[k].x \in Int,
         ref \in Seq(Above(band.lo)), Len(ref) = n,
         NEW i \in 1..(n - 1),
         NEW x \in Between(path[i].x, path[i + 1].x), NEW y \in Strip
  PROVE  FloorAt(x, y) <= PieceCap(i)
  <1> DEFINE s == SwathFloor(path[i], path[i + 1])
             cap == PieceCap(i)
  <1>1. i \in 1..n /\ i + 1 \in 1..n
    OBVIOUS
  <1>2. path[i].x \in Int /\ path[i + 1].x \in Int /\ x \in Int
    BY <1>1 DEF Between
  <1>3. \A k \in 1..n : ref[k] \in Int /\ band.lo <= ref[k] + CapHeadroom
    BY ElementOfSeq DEF Above
  <1>4. ref \in Seq(Int)
    <2>1. ref = [k \in 1..n |-> ref[k]]
      OBVIOUS
    <2>2. [k \in 1..n |-> ref[k]] \in Seq(Int)
      BY <1>3
    <2> QED
      BY <2>1, <2>2
  <1>5. cap \in Int /\ Larger(ref[i], ref[i + 1]) + CapHeadroom <= cap /\ s <= cap
    BY <1>4, CapIsHigh
  <1>6. /\ s \in Int /\ NegInf <= s
        /\ Land(x, y) => Elevation(x, y) + OptClearance <= s
    BY <1>2, Swaths
  <1>7. /\ FloorAt(x, y) \in Int
        /\ FloorAt(x, y) <= Larger(band.lo, IF Land(x, y)
                                            THEN Elevation(x, y) + OptClearance
                                            ELSE NegInf)
    BY <1>2, Floors
  <1>8. Elevation(x, y) \in Int /\ OptClearance \in Int /\ CapHeadroom \in Nat
    BY <1>2, Elevations, OptClearanceAssumption, HeadroomAssumption
  <1> HIDE DEF s, cap
  <1>9. band.lo <= cap
    <2> DEFINE u == ref[i]
               v == ref[i + 1]
    <2>1. u \in Int /\ v \in Int /\ band.lo <= u + CapHeadroom
      BY <1>1, <1>3
    <2>2. Larger(u, v) + CapHeadroom <= cap
      BY <1>5
    <2> HIDE DEF u, v
    <2>3. Larger(u, v) \in Int /\ u <= Larger(u, v)
      BY <2>1 DEF Larger
    <2>4. cap \in Int /\ CapHeadroom \in Nat
      BY <1>5, <1>8
    <2> QED
      BY <2>1, <2>2, <2>3, <2>4
  <1>10. FloorAt(x, y) <= cap
    <2>1. CASE Land(x, y)
      <3>1. FloorAt(x, y) <= Larger(band.lo, Elevation(x, y) + OptClearance)
        BY <1>7, <2>1
      <3> QED
        BY <1>5, <1>6, <1>7, <1>8, <1>9, <2>1, <3>1 DEF Larger
    <2>2. CASE ~Land(x, y)
      <3>1. FloorAt(x, y) <= Larger(band.lo, NegInf)
        BY <1>7, <2>2
      <3> QED
        BY <1>5, <1>6, <1>7, <1>9, <3>1 DEF Larger, NegInf
    <2> QED
      BY <2>1, <2>2
  <1> QED
    BY <1>10 DEF cap

-----------------------------------------------------------------------------
(***************************************************************************)
(* From the mission to the frozen corridor.                                *)
(***************************************************************************)

HighPoint == {p \in Point : p.z >= GroundHeight}

\* Every height the front half carries is over the ground plane and every
\* reference over its vertex, so the band's floor stays under the cap.
OpenInv ==
  /\ TypeInv
  /\ stage \notin {"asked", "failed"} => job.wps # <<>>
  /\ stage = "search" => /\ job.from \in HighPoint /\ job.wps \in Seq(HighPoint)
                         /\ fe.route \in Seq(HighPoint)
  /\ stage = "cut" => Capped(fe.route, fe.raw_z)
  /\ Capped(last.clean, last.cap)
  /\ stage \in {"head", "band", "seed"} => Capped(fe.clean, fe.cap)
  /\ stage \in {"seed", "commit", "cap"} => band.lo \in Int
  /\ stage = "seed" => fe.cap \in Seq(Above(band.lo))
  /\ stage \in {"commit", "cap"} =>
       ref \in Seq(Above(band.lo)) /\ Len(ref) = Len(path)
  /\ stage = "cap" => /\ Len(path) \in Nat /\ Len(path) >= 2
                      /\ \A i \in 1..Len(path) : path[i].x \in Int
  /\ CorridorOpen

LEMMA OpenStarts == Init => OpenInv
  <1> SUFFICES ASSUME Init PROVE OpenInv
    OBVIOUS
  <1>1. TypeInv
    BY Starts
  <1>2. stage = "asked" /\ last = [clean |-> <<>>, cap |-> <<>>]
    BY DEF Init, GuideInit
  <1>3. Capped(last.clean, last.cap)
    BY <1>2 DEF Capped
  <1>4. CorridorOpen
    BY <1>2 DEF CorridorOpen, Frozen
  <1> QED
    BY <1>1, <1>2, <1>3, <1>4 DEF OpenInv

LEMMA Goals ==
  ASSUME job.wps \in Routes, job.wps # <<>>
  PROVE  Goal \in Point
  <1>1. Len(job.wps) \in Nat /\ Len(job.wps) # 0
    BY EmptySeq, LenProperties DEF Routes
  <1>2. Len(job.wps) \in 1..Len(job.wps)
    BY <1>1
  <1> QED
    BY <1>2, PointsOf DEF Goal, Last

\* A lifted goal is over the ground plane.
LEMMA HighLifts ==
  ASSUME scene \in Scenes, NEW i \in 1..Len(scene.goals)
  PROVE  Lifted(scene.goals[i]) \in HighPoint
  <1> DEFINE g == scene.goals[i]
  <1>1. IsScene(scene)
    BY ScenesAssumption
  <1>2. scene.goals \in Routes
    BY SceneTypes
  <1>3. g \in Point /\ g.x \in Int /\ g.z \in Int
    BY <1>2, PointsOf
  <1>4. Lifted(g) \in Point
    BY <1>3, Lifts
  <1>5. MinGoalAgl \in Int /\ GroundHeight \in Int /\ MinGoalAgl >= GroundHeight
    BY LevelsAssumption, HeadroomAssumption
  <1>6. DOMAIN scene.goals = 1..Len(scene.goals)
    BY <1>2, LenProperties DEF Routes
  <1>7. CASE ~scene.dem
    <2>1. g.z >= GroundHeight
      BY <1>1, <1>6, <1>7 DEF IsScene
    <2>2. Lifted(g) = g
      BY <1>7 DEF Lifted
    <2> QED
      BY <1>4, <2>1, <2>2 DEF HighPoint
  <1>8. CASE scene.dem
    <2> DEFINE h == Ground(g.x)
               agl == Larger(g.z, MinGoalAgl)
    <2>1. h \in Int /\ h + MinGoalAgl >= GroundHeight
      <3>1. CASE Land(g.x, 0)
        <4>1. g.x \in 0..Far /\ scene.elev[g.x] # Water /\ h = scene.elev[g.x]
          BY <1>8, <3>1 DEF Ground, Land, Elevation
        <4>2. h \in Int
          BY <1>3, Grounds
        <4>3. scene.elev[g.x] + MinGoalAgl >= GroundHeight
          BY <1>1, <1>8, <4>1 DEF IsScene
        <4> QED
          BY <4>1, <4>2, <4>3
      <3>2. CASE ~Land(g.x, 0)
        BY <1>5, <3>2 DEF Ground
      <3> QED
        BY <3>1, <3>2
    <2>2. agl \in Int /\ MinGoalAgl <= agl
      BY <1>3, <1>5 DEF Larger
    <2>3. Lifted(g) = [g EXCEPT !.z = h + agl]
      BY <1>8 DEF Lifted
    <2> HIDE DEF h, agl
    <2>4. h + agl >= GroundHeight
      BY <1>5, <2>1, <2>2
    <2>5. Lifted(g).z = h + agl
      BY <1>3, <2>3 DEF Point
    <2> QED
      BY <1>4, <2>4, <2>5 DEF HighPoint
  <1> QED
    BY <1>7, <1>8

LEMMA AcceptOpens ==
  ASSUME OpenInv, Accept
  PROVE  OpenInv'
  <1> DEFINE goals == scene.goals
             w == [i \in DOMAIN goals |-> Lifted(goals[i])]
  <1>1. TypeInv'
    BY AcceptTypes DEF OpenInv
  <1>2. scene \in Scenes
    BY DEF OpenInv, TypeInv
  <1>3. goals \in Routes /\ goals # <<>>
    BY <1>2, SceneTypes DEF Accept
  <1>4. Len(goals) \in Nat /\ Len(goals) # 0 /\ DOMAIN goals = 1..Len(goals)
    BY <1>3, EmptySeq, LenProperties DEF Routes
  <1>5. \A i \in 1..Len(goals) : Lifted(goals[i]) \in HighPoint
    BY <1>2, HighLifts
  <1>6. job'.from = scene.start /\ job'.wps = w
    BY DEF Accept
  <1> HIDE DEF goals
  <1>7. w \in Seq(HighPoint) /\ Len(w) = Len(goals)
    BY <1>4, <1>5
  <1> HIDE DEF w
  <1>8. w # <<>>
    BY <1>4, <1>7
  <1>9. scene.start \in HighPoint
    <2>1. IsScene(scene)
      BY <1>2, ScenesAssumption
    <2> QED
      BY <2>1 DEF IsScene, HighPoint
  <1>10. fe'.route \in Seq(HighPoint)
    <2> DEFINE one == <<scene.start>>
    <2>1. one \in Seq(HighPoint)
      BY <1>9
    <2>2. fe' = [NoProducts EXCEPT !.route = one]
      BY DEF Accept
    <2> HIDE DEF one
    <2>3. fe'.route = one
      BY <2>2 DEF NoProducts
    <2> QED
      BY <2>1, <2>3
  <1>11. stage' = "search" /\ UNCHANGED last
    BY DEF Accept
  <1>12. Capped(last.clean, last.cap)'
    BY <1>11 DEF OpenInv, Capped
  <1>13. CorridorOpen'
    BY <1>11 DEF CorridorOpen, Frozen
  <1> QED
    BY <1>1, <1>6, <1>7, <1>8, <1>9, <1>10, <1>11, <1>12, <1>13 DEF OpenInv

LEMMA SearchOpens ==
  ASSUME OpenInv, SearchLeg
  PROVE  OpenInv'
  <1>1. TypeInv'
    BY SearchTypes DEF OpenInv
  <1>2. /\ leg \in Nat /\ leg < Len(job.wps) /\ stage = "search"
        /\ job.from \in HighPoint /\ job.wps \in Seq(HighPoint)
        /\ fe.route \in Seq(HighPoint) /\ fe \in Products
    BY DEF OpenInv, TypeInv, SearchLeg
  <1>3. LegStart \in HighPoint /\ job.wps[leg + 1] \in HighPoint
    <2>1. Len(job.wps) \in Nat
      BY <1>2, LenProperties
    <2>2. leg + 1 \in 1..Len(job.wps) /\ (leg = 0 \/ leg \in 1..Len(job.wps))
      BY <1>2, <2>1
    <2> QED
      BY <1>2, <2>2, ElementOfSeq DEF LegStart
  <1>4. PICK r \in ClearRoutes(LegStart, job.wps[leg + 1]) :
          fe' = [fe EXCEPT !.route = IF r[2] = Last(@) THEN @ ELSE @ \o Tail(r)]
    BY DEF SearchLeg
  <1>5. r \in Seq(HighPoint) /\ Len(r) >= 2
    <2>1. Mids(LegStart, job.wps[leg + 1]) \subseteq HighPoint
      BY MidTypes DEF HighPoint
    <2>2. HighPoint \in SUBSET Point
      BY DEF HighPoint
    <2> QED
      BY <1>3, <2>1, <2>2, Searched
  <1> DEFINE s == fe.route \o Tail(r)
  <1>6. s \in Seq(HighPoint)
    <2>1. r # <<>>
      BY <1>5
    <2>2. Tail(r) \in Seq(HighPoint) /\ fe.route \in Seq(HighPoint)
      BY <1>2, <1>5, <2>1, HeadTailProperties
    <2> QED
      BY <2>2, ConcatProperties
  <1>7. fe' = [fe EXCEPT !.route = IF r[2] = Last(fe.route) THEN fe.route ELSE s]
    BY <1>4
  <1> HIDE DEF s
  <1>8. fe'.route \in Seq(HighPoint)
    BY <1>2, <1>6, <1>7 DEF Products
  <1>9. UNCHANGED <<stage, job, last>>
    BY DEF SearchLeg
  <1>10. Capped(last.clean, last.cap)'
    BY <1>9 DEF OpenInv, Capped
  <1>11. CorridorOpen'
    BY <1>2, <1>9 DEF CorridorOpen, Frozen
  <1>12. job.wps # <<>>
    BY <1>2 DEF OpenInv
  <1> QED
    BY <1>1, <1>2, <1>8, <1>9, <1>10, <1>11, <1>12 DEF OpenInv

LEMMA DenoiseOpens ==
  ASSUME OpenInv, Denoise
  PROVE  OpenInv'
  <1> DEFINE r == fe.route
             smooth == IF Len(r) < 3 THEN r ELSE [i \in DOMAIN r |-> Filtered(r, i)]
             raw_z == [i \in DOMAIN r |-> Committed(r[i], smooth[i])]
  <1>1. TypeInv'
    BY DenoiseTypes DEF OpenInv
  <1>2. /\ r \in Routes /\ r \in Seq(HighPoint) /\ fe \in Products
        /\ scene \in Scenes /\ job \in Requests /\ job.wps # <<>>
    BY DEF OpenInv, TypeInv, Denoise, Products
  <1>3. Len(r) \in Nat /\ DOMAIN r = 1..Len(r)
    BY <1>2, LenProperties DEF Routes
  <1>4. fe' = [fe EXCEPT !.route = smooth, !.raw = r, !.raw_z = raw_z,
                         !.top = Max(Heights(r))]
    BY DEF Denoise
  <1>5. \A i \in 1..Len(r) : r[i].z \in Int /\ r[i].z >= GroundHeight
    <2>1. \A i \in 1..Len(r) : r[i] \in HighPoint
      BY <1>2, ElementOfSeq
    <2> QED
      BY <2>1 DEF HighPoint, Point
  <1> HIDE DEF r
  <1>6. \A i \in 1..Len(r) : Filtered(r, i) \in Point
    BY <1>2, Filters DEF Requests
  <1>7. smooth \in Routes /\ Len(smooth) = Len(r)
    <2>1. CASE Len(r) < 3
      BY <1>2, <2>1
    <2>2. CASE ~ (Len(r) < 3)
      BY <1>3, <1>6, <2>2 DEF Routes
    <2> QED
      BY <2>1, <2>2
  <1> HIDE DEF smooth
  <1>8. \A i \in 1..Len(r) : smooth[i].z \in Int
    BY <1>7, PointsOf
  <1>9. Len(raw_z) = Len(r)
    BY <1>3
  <1>10. \A i \in 1..Len(r) : raw_z[i] >= smooth[i].z /\ raw_z[i] >= GroundHeight
    <2> SUFFICES ASSUME NEW i \in 1..Len(r)
                 PROVE  raw_z[i] >= smooth[i].z /\ raw_z[i] >= GroundHeight
      OBVIOUS
    <2>1. raw_z[i] = Larger(r[i].z, smooth[i].z)
      BY <1>3 DEF Committed
    <2>2. r[i].z \in Int /\ smooth[i].z \in Int /\ r[i].z >= GroundHeight
          /\ GroundHeight \in Int
      BY <1>5, <1>8, LevelsAssumption
    <2> HIDE DEF raw_z
    <2> QED
      BY <2>1, <2>2 DEF Larger
  <1> HIDE DEF raw_z
  <1>11. fe'.route = smooth /\ fe'.raw_z = raw_z
    BY <1>2, <1>4 DEF Products
  <1>12. Capped(fe.route, fe.raw_z)'
    BY <1>7, <1>9, <1>10, <1>11 DEF Capped
  <1>13. stage' = "cut" /\ UNCHANGED <<job, last>>
    BY DEF Denoise
  <1>14. Capped(last.clean, last.cap)'
    BY <1>13 DEF OpenInv, Capped
  <1>15. CorridorOpen'
    BY <1>13 DEF CorridorOpen, Frozen
  <1> QED
    BY <1>1, <1>2, <1>12, <1>13, <1>14, <1>15 DEF OpenInv

LEMMA CutOpens ==
  ASSUME OpenInv, Cut
  PROVE  OpenInv'
  <1> DEFINE ps == Pieces(fe.route, fe.raw_z)
             clean == [i \in DOMAIN ps |-> [x |-> ps[i].x, z |-> ps[i].z]]
             cap == [i \in DOMAIN ps |-> ps[i].cap]
  <1>1. TypeInv'
    BY CutTypes DEF OpenInv
  <1>2. /\ fe' = [fe EXCEPT !.clean = clean, !.cap = cap]
        /\ last' = [clean |-> clean, cap |-> cap]
        /\ stage' \in {"head", "done"} /\ UNCHANGED job
    BY DEF Cut
  <1>3. /\ fe \in Products /\ fe.route \in Routes /\ fe.route # <<>>
        /\ fe.raw_z \in Seq(Int) /\ Capped(fe.route, fe.raw_z) /\ job.wps # <<>>
    BY DEF OpenInv, TypeInv, Cut, Products
  <1>4. ps \in Seq(CappedVertex)
    BY <1>3, CappedPieces
  <1> HIDE DEF ps
  <1>5. Len(ps) \in Nat /\ DOMAIN ps = 1..Len(ps)
    BY <1>4, LenProperties
  <1>6. \A i \in 1..Len(ps) : ps[i].cap >= ps[i].z /\ ps[i].cap >= GroundHeight
    BY <1>4, ElementOfSeq DEF CappedVertex
  <1>7. Len(clean) = Len(ps) /\ Len(cap) = Len(ps)
    BY <1>5
  <1>8. Capped(clean, cap)
    <2>1. \A i \in 1..Len(ps) : clean[i].z = ps[i].z /\ cap[i] = ps[i].cap
      BY <1>5
    <2> HIDE DEF clean, cap
    <2> QED
      BY <1>6, <1>7, <2>1 DEF Capped
  <1> HIDE DEF clean, cap
  <1>9. fe'.clean = clean /\ fe'.cap = cap /\ last'.clean = clean /\ last'.cap = cap
    BY <1>2, <1>3 DEF Products
  <1>10. Capped(fe.clean, fe.cap)' /\ Capped(last.clean, last.cap)'
    BY <1>8, <1>9 DEF Capped
  <1>11. CorridorOpen'
    BY <1>2 DEF CorridorOpen, Frozen
  <1> QED
    BY <1>1, <1>2, <1>3, <1>10, <1>11 DEF OpenInv

\* The band's floor is at most a headroom over every committed height.
LEMMA BandOpens ==
  ASSUME OpenInv, SetBand
  PROVE  OpenInv'
  <1> DEFINE r == fe.clean
             ends == {job.from.z, Last(job.wps).z} \cup Heights(r)
             lo == FloorOf(Min(ends))
  <1>1. /\ stage = "band" /\ stage' = "seed" /\ band'.lo = lo
        /\ UNCHANGED <<scene, job, leg, fe, last, head>>
    BY DEF SetBand
  <1>2. /\ r \in Routes /\ Len(r) >= 2 /\ Capped(r, fe.cap) /\ fe.cap \in Seq(Int)
        /\ job.from \in Point /\ job.wps \in Routes /\ job.wps # <<>>
    BY <1>1 DEF OpenInv, TypeInv, Products, Requests
  <1>3. TypeInv'
    BY TypeStep, <1>1 DEF OpenInv, TypeInv
  <1>4. Len(r) \in Nat /\ DOMAIN r = 1..Len(r)
    BY <1>2, LenProperties DEF Routes
  <1>5. \A i \in 1..Len(r) : r[i].z \in Int
    BY <1>2, PointsOf
  <1>6. job.from.z \in Int /\ Last(job.wps).z \in Int
    BY <1>2, Goals DEF Goal, Point
  <1>7. Min(ends) \in Int /\ \A i \in 1..Len(r) : Min(ends) <= r[i].z
    <2> DEFINE f == [i \in DOMAIN r |-> r[i].z]
               T == {f[i] : i \in DOMAIN f}
    <2>1. IsFiniteSet(DOMAIN f)
      <3>1. 1 \in Int /\ Len(r) \in Int
        BY <1>4
      <3> QED
        BY <1>4, <3>1, FS_Interval
    <2>2. Heights(r) = T
      BY DEF Heights
    <2>3. T \subseteq Int /\ \A i \in 1..Len(r) : r[i].z \in T
      BY <1>4, <1>5
    <2>4. IsFiniteSet(T)
      <3> HIDE DEF f
      <3> QED
        BY <2>1, FiniteImage
    <2> HIDE DEF T
    <2>5. IsFiniteSet(ends)
      <3>1. IsFiniteSet({job.from.z}) /\ IsFiniteSet({Last(job.wps).z})
        BY FS_Singleton
      <3>2. IsFiniteSet({job.from.z} \cup {Last(job.wps).z})
        BY <3>1, FS_Union
      <3>3. {job.from.z, Last(job.wps).z} = {job.from.z} \cup {Last(job.wps).z}
        OBVIOUS
      <3> QED
        BY <2>2, <2>4, <3>2, <3>3, FS_Union
    <2>6. ends \in SUBSET Int /\ ends # {} /\ \A i \in 1..Len(r) : r[i].z \in ends
      BY <1>6, <2>2, <2>3
    <2> HIDE DEF ends
    <2>7. Min(ends) \in ends /\ \A k \in ends : Min(ends) <= k
      BY <2>5, <2>6, Extremes
    <2> QED
      BY <2>6, <2>7
  <1> DEFINE m == Min(ends)
             half == FloorHeadroom \div 2
  <1>8. /\ FloorHeadroom \in Nat /\ CapHeadroom \in Nat /\ half \in Int
        /\ half <= CapHeadroom /\ GroundHeight \in Int
    BY HeadroomAssumption, LevelsAssumption
  <1>9. lo \in {m - FloorHeadroom, Larger(m - FloorHeadroom, GroundHeight + half)}
    BY DEF FloorOf
  <1> HIDE DEF lo, m, half, r
  <1>10. m \in Int /\ \A i \in 1..Len(r) : m <= r[i].z
    BY <1>7 DEF m
  <1>11. lo \in Int
    BY <1>8, <1>9, <1>10 DEF Larger
  <1>12. fe.cap \in Seq(Above(lo))
    <2>1. Len(fe.cap) = Len(r)
      BY <1>2 DEF Capped
    <2>2. ASSUME NEW i \in 1..Len(r) PROVE fe.cap[i] \in Above(lo)
      <3>1. fe.cap[i] \in Int /\ r[i].z \in Int /\ m <= r[i].z
        BY <1>2, <1>5, <1>10, <2>1, ElementOfSeq
      <3>2. fe.cap[i] >= r[i].z /\ fe.cap[i] >= GroundHeight
        BY <1>2 DEF Capped
      <3>3. m - FloorHeadroom <= fe.cap[i] + CapHeadroom
        BY <1>8, <1>10, <3>1, <3>2
      <3>4. GroundHeight + half <= fe.cap[i] + CapHeadroom
        BY <1>8, <3>1, <3>2
      <3>5. lo \in {m - FloorHeadroom, GroundHeight + half}
        BY <1>9 DEF Larger
      <3>6. lo <= fe.cap[i] + CapHeadroom
        BY <3>3, <3>4, <3>5
      <3> QED
        BY <3>1, <3>6 DEF Above
    <2>3. fe.cap = [i \in 1..Len(r) |-> fe.cap[i]]
      BY <1>2, <2>1
    <2>4. [i \in 1..Len(r) |-> fe.cap[i]] \in Seq(Above(lo))
      BY <1>4, <2>2
    <2> QED
      BY <2>3, <2>4
  <1>13. fe'.cap \in Seq(Above(band'.lo)) /\ band'.lo \in Int
    BY <1>1, <1>11, <1>12
  <1>14. Capped(fe.clean, fe.cap)' /\ Capped(last.clean, last.cap)'
    BY <1>1, <1>2 DEF OpenInv, Capped, r
  <1>15. CorridorOpen'
    BY <1>1 DEF CorridorOpen, Frozen
  <1>16. job'.wps # <<>>
    BY <1>1, <1>2
  <1> QED
    BY <1>1, <1>3, <1>13, <1>14, <1>15, <1>16 DEF OpenInv, Above

LEMMA CappedSlices ==
  ASSUME last \in [clean : Routes, cap : Seq(Int)], Capped(last.clean, last.cap),
         NEW cut \in 2..(Len(last.clean) - 1), NEW front \in BOOLEAN
  PROVE  Capped(Slice(cut, front)[1], Slice(cut, front)[2])
  <1> DEFINE r == last.clean
             c == last.cap
             n == Len(r)
             at == IF front THEN 1 ELSE cut
             to == IF front THEN cut ELSE n
             p == SubSeq(r, at, to)
             q == SubSeq(c, at, to)
  <1>1. r \in Seq(Point) /\ c \in Seq(Int) /\ Len(c) = n
    BY DEF Routes, Capped
  <1>2. n \in Nat
    BY <1>1, LenProperties
  <1>3. at \in 1..(n + 1) /\ to \in (at - 1)..n
    BY <1>2
  <1>4. Slice(cut, front)[1] = p /\ Slice(cut, front)[2] = q
    BY DEF Slice
  <1>5. \A i \in 1..n : c[i] >= r[i].z /\ c[i] >= GroundHeight
    BY DEF Capped
  <1> HIDE DEF r, c, n, at, to
  <1>6. /\ Len(p) = to - at + 1 /\ Len(q) = to - at + 1
        /\ \A i \in 1..(to - at + 1) : p[i] = r[at + i - 1] /\ q[i] = c[at + i - 1]
    BY <1>1, <1>2, <1>3, SubSeqProperties
  <1> HIDE DEF p, q
  <1>7. \A i \in 1..(to - at + 1) : at + i - 1 \in 1..n
    BY <1>2, <1>3
  <1>8. \A i \in 1..(to - at + 1) : q[i] >= p[i].z /\ q[i] >= GroundHeight
    BY <1>5, <1>6, <1>7
  <1> QED
    BY <1>4, <1>6, <1>8 DEF Capped

LEMMA OverrideOpens ==
  ASSUME OpenInv, Override \/ SolveSlice
  PROVE  OpenInv'
  <1>1. TypeInv'
    BY OverrideTypes, SliceTypes DEF OpenInv
  <1>2. PICK cut \in 2..(Len(last.clean) - 1), front \in BOOLEAN :
          LET p == Slice(cut, front)[1]
              c == Slice(cut, front)[2]
          IN /\ job'.wps = <<Last(p)>>
             /\ \/ fe' = [fe EXCEPT !.clean = p, !.cap = c, !.top = Max(Heights(p))]
                \/ fe' = [fe EXCEPT !.clean = p, !.cap = c]
             /\ last' = [clean |-> p, cap |-> c] \/ UNCHANGED last
    <2>1. CASE Override
      <3>1. PICK cut \in 2..(Len(last.clean) - 1), front \in BOOLEAN :
              LET p == Slice(cut, front)[1]
                  c == Slice(cut, front)[2]
              IN /\ job' = [from |-> p[1], wps |-> <<Last(p)>>,
                            junction |-> ~front, kind |-> "override"]
                 /\ fe' = [fe EXCEPT !.clean = p, !.cap = c, !.top = Max(Heights(p))]
                 /\ last' = [clean |-> p, cap |-> c]
        BY <2>1 DEF Override
      <3> QED
        BY <3>1
    <2>2. CASE SolveSlice
      <3>1. PICK cut \in 2..(Len(last.clean) - 1), front \in BOOLEAN :
              LET p == Slice(cut, front)[1]
              IN /\ job' = [from |-> p[1], wps |-> <<Last(p)>>,
                            junction |-> ~front, kind |-> "slice"]
                 /\ fe' = [fe EXCEPT !.clean = p, !.cap = Slice(cut, front)[2]]
        BY <2>2 DEF SolveSlice
      <3>2. UNCHANGED last
        BY <2>2 DEF SolveSlice
      <3> QED
        BY <3>1, <3>2
    <2> QED
      BY <2>1, <2>2
  <1> DEFINE p == Slice(cut, front)[1]
             c == Slice(cut, front)[2]
  <1>3. Capped(p, c) /\ Capped(last.clean, last.cap) /\ fe \in Products
    BY CappedSlices DEF OpenInv, TypeInv
  <1>4. /\ job'.wps = <<Last(p)>>
        /\ \/ fe' = [fe EXCEPT !.clean = p, !.cap = c, !.top = Max(Heights(p))]
           \/ fe' = [fe EXCEPT !.clean = p, !.cap = c]
        /\ last' = [clean |-> p, cap |-> c] \/ UNCHANGED last
    BY <1>2
  <1> HIDE DEF p, c
  <1>5. fe'.clean = p /\ fe'.cap = c
    BY <1>3, <1>4 DEF Products
  <1>6. Capped(fe.clean, fe.cap)'
    BY <1>3, <1>5 DEF Capped
  <1>7. Capped(last.clean, last.cap)'
    BY <1>3, <1>4 DEF Capped
  <1>8. job'.wps # <<>>
    BY <1>4
  <1>9. stage' \in {"head", "band"}
    BY DEF Override, SolveSlice
  <1>10. CorridorOpen'
    BY <1>9 DEF CorridorOpen, Frozen
  <1> QED
    BY <1>1, <1>6, <1>7, <1>8, <1>9, <1>10 DEF OpenInv

LEMMA PlantOpens ==
  ASSUME OpenInv, Plant
  PROVE  OpenInv'
  <1> DEFINE r == fe.clean
             c == fe.cap
             m == IF Len(r) < 3 THEN Mirrored(c) ELSE c
  <1>1. /\ r \in Routes /\ Len(r) >= 2 /\ head \in Int /\ Len(c) = Len(r)
        /\ c \in Seq(Above(band.lo)) /\ band.lo \in Int /\ job.wps # <<>>
        /\ Capped(last.clean, last.cap)
    BY DEF OpenInv, TypeInv, Plant, Products, Capped
  <1>2. /\ path' = WithLead(WithMid(r)) /\ stage' = "commit"
        /\ ref' = IF LeadIn THEN Mirrored(m) ELSE m
        /\ UNCHANGED <<job, band, last>>
    BY <1>1 DEF Plant, Paired
  <1>3. TypeInv'
    BY PlantTypes DEF OpenInv
  <1>4. Len(r) \in Nat
    BY <1>1, LenProperties DEF Routes
  <1>5. Len(path') = Len(r) + (IF Len(r) < 3 THEN 1 ELSE 0)
                            + (IF LeadIn THEN 1 ELSE 0)
    BY <1>1, <1>2, Planting
  <1> HIDE DEF r, c
  <1>6. Mirrored(c) \in Seq(Above(band.lo)) /\ Len(Mirrored(c)) = Len(c) + 1
    BY <1>1, Mirrors
  <1>7. /\ m \in Seq(Above(band.lo))
        /\ Len(m) = Len(r) + (IF Len(r) < 3 THEN 1 ELSE 0)
    BY <1>1, <1>4, <1>6
  <1> HIDE DEF m
  <1>8. Mirrored(m) \in Seq(Above(band.lo)) /\ Len(Mirrored(m)) = Len(m) + 1
    <2>1. Len(m) >= 2
      BY <1>1, <1>4, <1>7
    <2> QED
      BY <1>7, <2>1, Mirrors
  <1>9. ref' \in Seq(Above(band.lo)) /\ Len(ref') = Len(path')
    <2>1. CASE LeadIn
      BY <1>2, <1>4, <1>5, <1>7, <1>8, <2>1
    <2>2. CASE ~LeadIn
      BY <1>2, <1>4, <1>5, <1>7, <2>2
    <2> QED
      BY <2>1, <2>2
  <1>10. ref' \in Seq(Above(band'.lo)) /\ band'.lo \in Int /\ job'.wps # <<>>
    BY <1>1, <1>2, <1>9
  <1>11. Capped(last.clean, last.cap)'
    BY <1>1, <1>2 DEF Capped
  <1>12. CorridorOpen'
    BY <1>2 DEF CorridorOpen, Frozen
  <1> QED
    BY <1>2, <1>3, <1>9, <1>10, <1>11, <1>12 DEF OpenInv, Above

\* Committing a profile moves vertices up and down only.
LEMMA CommitOpens ==
  ASSUME OpenInv, CommitProfile
  PROVE  OpenInv'
  <1>1. /\ path \in Routes /\ Len(path) >= 3 /\ ref \in Seq(Above(band.lo))
        /\ Len(ref) = Len(path) /\ band.lo \in Int /\ job.wps # <<>>
        /\ Capped(last.clean, last.cap)
    BY DEF OpenInv, TypeInv, CommitProfile
  <1>2. stage' = "cap" /\ UNCHANGED <<scene, job, leg, fe, last, head, band, ref>>
    BY DEF CommitProfile
  <1>3. TypeInv'
    BY TypeStep DEF OpenInv, Next
  <1>4. Len(path) \in Nat /\ DOMAIN path = 1..Len(path)
    BY <1>1, LenProperties DEF Routes
  <1>5. \A i \in 1..Len(path) : path[i] \in Point /\ path[i].x \in Int
    BY <1>1, PointsOf
  <1>6. \/ path' = path
        \/ \E zs : path' = [i \in DOMAIN path |->
                              IF Abs(zs[i] - path[i].z) > 1
                              THEN [path[i] EXCEPT !.z = zs[i]] ELSE path[i]]
    BY DEF CommitProfile
  <1>7. Len(path') = Len(path) /\ \A i \in 1..Len(path) : path'[i].x \in Int
    <2>1. CASE path' = path
      BY <1>5, <2>1
    <2>2. ASSUME NEW zs,
                 path' = [i \in DOMAIN path |->
                            IF Abs(zs[i] - path[i].z) > 1
                            THEN [path[i] EXCEPT !.z = zs[i]] ELSE path[i]]
          PROVE  Len(path') = Len(path) /\ \A i \in 1..Len(path) : path'[i].x \in Int
      <3> DEFINE v(i) == IF Abs(zs[i] - path[i].z) > 1
                         THEN [path[i] EXCEPT !.z = zs[i]] ELSE path[i]
      <3>1. \A i \in 1..Len(path) : v(i).x \in Int
        BY <1>5 DEF Point
      <3>2. path' = [i \in 1..Len(path) |-> v(i)]
        BY <1>4, <2>2
      <3> HIDE DEF v
      <3>3. Len([i \in 1..Len(path) |-> v(i)]) = Len(path)
        BY <1>4
      <3> QED
        BY <3>1, <3>2, <3>3
    <2> QED
      BY <1>6, <2>1, <2>2
  <1>8. /\ Len(path') \in Nat /\ Len(path') >= 2
        /\ \A i \in 1..Len(path') : path'[i].x \in Int
    BY <1>1, <1>4, <1>7
  <1>9. /\ ref' \in Seq(Above(band'.lo)) /\ Len(ref') = Len(path')
        /\ band'.lo \in Int /\ job'.wps # <<>>
    BY <1>1, <1>2, <1>7
  <1>10. Capped(last.clean, last.cap)'
    BY <1>1, <1>2 DEF Capped
  <1>11. CorridorOpen'
    BY <1>2 DEF CorridorOpen, Frozen
  <1> QED
    BY <1>2, <1>3, <1>8, <1>9, <1>10, <1>11 DEF OpenInv, Above

\* The floor is the mission's and the band's, whatever the caps.
LEMMA SameFloors ==
  ASSUME UNCHANGED <<scene, job, band>>
  PROVE  \A x, y : FloorAt(x, y)' = FloorAt(x, y)
  <1>1. \A x, y : Elevation(x, y)' = Elevation(x, y)
    BY DEF Elevation
  <1>2. \A x, y : Land(x, y)' = Land(x, y)
    BY <1>1 DEF Land
  <1>3. \A x : Ground(x)' = Ground(x)
    BY <1>1, <1>2 DEF Ground
  <1>4. Goal' = Goal
    BY DEF Goal
  <1>5. Ends' = Ends
    BY <1>4 DEF Ends
  <1>6. \A e : EndAgl(e)' = EndAgl(e)
    BY <1>3, <1>5 DEF EndAgl
  <1>7. \A e : TerrTaperOn(e)' = TerrTaperOn(e)
    BY <1>6 DEF TerrTaperOn
  <1>8. \A e : FloorTaperOn(e)' = FloorTaperOn(e)
    BY <1>5 DEF FloorTaperOn
  <1>9. TaperRadius' = TaperRadius
    <2> DEFINE armed == {e \in {1, 2} : TerrTaperOn(e) \/ FloorTaperOn(e)}
    <2>1. armed' = armed
      BY <1>7, <1>8
    <2> HIDE DEF armed
    <2> QED
      BY <1>4, <2>1 DEF TaperRadius, armed
  <1>10. \A x, y, e, low, high : Tapered(x, y, e, low, high)' = Tapered(x, y, e, low, high)
    BY <1>5, <1>9 DEF Tapered
  <1>11. \A x, y : TerrainClearanceTarget(x, y)' = TerrainClearanceTarget(x, y)
    <2> TAKE x, y
    <2> DEFINE E == {e \in {1, 2} : TerrTaperOn(e)}
               S == {Tapered(x, y, e, Larger(0, EndAgl(e)), OptClearance) : e \in E}
    <2>1. E' = E
      BY <1>7
    <2> HIDE DEF E
    <2>2. \A e : Tapered(x, y, e, Larger(0, EndAgl(e)), OptClearance)'
                   = Tapered(x, y, e, Larger(0, EndAgl(e)), OptClearance)
      BY <1>5, <1>6, <1>9 DEF Tapered
    <2>3. S' = S
      BY <2>1, <2>2
    <2> HIDE DEF S
    <2> QED
      BY <2>3 DEF TerrainClearanceTarget, S, E
  <1>12. \A x, y : AltitudeFloorTarget(x, y)' = AltitudeFloorTarget(x, y)
    <2> TAKE x, y
    <2> DEFINE E == {e \in {1, 2} : FloorTaperOn(e)}
               S == {Tapered(x, y, e, Ends[e].z, band.lo) : e \in E}
    <2>1. E' = E
      BY <1>8
    <2> HIDE DEF E
    <2>2. \A e : Tapered(x, y, e, Ends[e].z, band.lo)'
                   = Tapered(x, y, e, Ends[e].z, band.lo)
      BY <1>5, <1>9 DEF Tapered
    <2>3. S' = S
      BY <2>1, <2>2
    <2> HIDE DEF S
    <2> QED
      BY <2>3 DEF AltitudeFloorTarget, S, E
  <1> QED
    BY <1>1, <1>2, <1>11, <1>12 DEF FloorAt

\* Every piece gets its own cap.
LEMMA CapsStored ==
  ASSUME OpenInv, CapPieces
  PROVE  \A i \in 1..(Len(path) - 1) : CapOf(i)' = PieceCap(i)
  <1> DEFINE n == Len(path)
             pieces == [i \in 1..(n - 1) |-> PieceCap(i)]
  <1>1. n \in Nat /\ n >= 2 /\ Len(ref) = n
    BY DEF OpenInv, CapPieces
  <1> HIDE DEF n
  <1>2. caps' = pieces
    <2>1. Len(<<>>) = 0
      OBVIOUS
    <2>2. ref # <<>>
      BY <1>1, <2>1
    <2> QED
      BY <2>2 DEF CapPieces, n
  <1>3. caps' # <<>> /\ \A i \in 1..(n - 1) : caps'[i] = PieceCap(i)
    <2>1. Len(pieces) = n - 1
      BY <1>1
    <2>2. \A i \in 1..(n - 1) : pieces[i] = PieceCap(i)
      OBVIOUS
    <2> HIDE DEF pieces
    <2>3. Len(<<>>) = 0 /\ n - 1 # 0
      BY <1>1
    <2> QED
      BY <1>2, <2>1, <2>2, <2>3
  <1> QED
    BY <1>3 DEF CapOf, n

LEMMA CapOpens ==
  ASSUME OpenInv, CapPieces
  PROVE  OpenInv'
  <1> DEFINE n == Len(path)
  <1>1. /\ scene \in Scenes /\ job \in Requests /\ job.wps # <<>> /\ band.lo \in Int
        /\ ref \in Seq(Above(band.lo)) /\ Len(ref) = n /\ n \in Nat /\ n >= 2
        /\ \A i \in 1..n : path[i].x \in Int
        /\ Capped(last.clean, last.cap)
    BY DEF OpenInv, TypeInv, CapPieces
  <1>2. /\ stage' = "freeze"
        /\ UNCHANGED <<scene, job, leg, fe, last, head, band, path>>
    BY DEF CapPieces
  <1>3. TypeInv'
    BY TypeStep DEF OpenInv, Next
  <1>4. job.from \in Point /\ Goal \in Point
    BY <1>1, Goals DEF Requests
  <1>5. \A i \in 1..(n - 1) : CapOf(i)' = PieceCap(i)
    BY CapsStored
  <1> HIDE DEF n
  <1>6. \A i \in 1..(n - 1) :
          \A x \in Between(path[i].x, path[i + 1].x), y \in Strip :
            FloorAt(x, y) <= PieceCap(i)
    <2>1. n = Len(path)
      BY DEF n
    <2> QED
      BY <1>1, <1>4, <2>1, PieceIsOpen
  <1>7. CorridorOpen'
    <2>1. \A x, y : FloorAt(x, y)' = FloorAt(x, y)
      BY <1>2, SameFloors
    <2>2. Len(path') = n /\ path' = path
      BY <1>2 DEF n
    <2> QED
      BY <1>5, <1>6, <2>1, <2>2 DEF CorridorOpen
  <1>8. Capped(last.clean, last.cap)'
    BY <1>1, <1>2 DEF Capped
  <1> QED
    BY <1>1, <1>2, <1>3, <1>7, <1>8 DEF OpenInv

\* The solve reads the corridor and leaves it alone.
LEMMA FrozenStays ==
  ASSUME CorridorOpen, Frozen, UNCHANGED <<scene, job, band, path, caps>>
  PROVE  CorridorOpen'
  <1>1. \A x, y : FloorAt(x, y)' = FloorAt(x, y)
    BY SameFloors
  <1>2. \A i : CapOf(i)' = CapOf(i)
    BY DEF CapOf
  <1> QED
    BY <1>1, <1>2 DEF CorridorOpen

LEMMA OpenStep ==
  ASSUME OpenInv, [Next]_vars
  PROVE  OpenInv'
  <1>1. TypeInv'
    BY TypeStep DEF OpenInv
  <1>2. CASE NoWaypoints \/ GridRefused \/ SearchFails \/ Solve
    <2>1. /\ stage' \in {"done", "failed"} /\ UNCHANGED last
          /\ stage' = "failed" \/ (stage = "solve" /\ UNCHANGED job)
      BY <1>2 DEF NoWaypoints, GridRefused, SearchFails, Solve
    <2>2. Capped(last.clean, last.cap)'
      BY <2>1 DEF OpenInv, Capped
    <2>3. CorridorOpen'
      BY <2>1 DEF CorridorOpen, Frozen
    <2>4. stage' \notin {"asked", "failed"} => job'.wps # <<>>
      BY <2>1 DEF OpenInv
    <2> QED
      BY <1>1, <2>1, <2>2, <2>3, <2>4 DEF OpenInv
  <1>3. CASE AimHead
    <2>1. /\ stage = "head" /\ stage' = "band" /\ UNCHANGED <<job, fe, last>>
      BY <1>3 DEF AimHead
    <2>2. Capped(last.clean, last.cap)' /\ Capped(fe.clean, fe.cap)'
      BY <2>1 DEF OpenInv, Capped
    <2>3. CorridorOpen'
      BY <2>1 DEF CorridorOpen, Frozen
    <2> QED
      BY <1>1, <2>1, <2>2, <2>3 DEF OpenInv
  <1>4. CASE Freeze
    <2>1. /\ stage = "freeze" /\ stage' = "solve" /\ UNCHANGED last
          /\ UNCHANGED <<scene, job, band, path, caps>>
      BY <1>4 DEF Freeze
    <2>2. Capped(last.clean, last.cap)'
      BY <2>1 DEF OpenInv, Capped
    <2>3. CorridorOpen'
      BY <2>1, FrozenStays DEF OpenInv, Frozen
    <2> QED
      BY <1>1, <2>1, <2>2, <2>3 DEF OpenInv
  <1>5. CASE UNCHANGED vars
    <2>1. UNCHANGED <<scene, stage, job, fe, last, band, path, ref, caps>>
      BY <1>5 DEF vars, guideVars, seedVars
    <2>2. /\ Capped(last.clean, last.cap)'
          /\ Capped(fe.clean, fe.cap)' = Capped(fe.clean, fe.cap)
          /\ Capped(fe.route, fe.raw_z)' = Capped(fe.route, fe.raw_z)
      BY <2>1 DEF OpenInv, Capped
    <2>3. CorridorOpen'
      <3>1. CASE Frozen
        BY <2>1, <3>1, FrozenStays DEF OpenInv
      <3>2. CASE ~Frozen
        BY <2>1, <3>2 DEF CorridorOpen, Frozen
      <3> QED
        BY <3>1, <3>2
    <2> QED
      BY <1>1, <2>1, <2>2, <2>3 DEF OpenInv, Above
  <1>6. CASE Accept \/ SearchLeg \/ Denoise \/ Cut
    BY <1>6, AcceptOpens, SearchOpens, DenoiseOpens, CutOpens
  <1>7. CASE SetBand \/ Override \/ SolveSlice
    BY <1>7, BandOpens, OverrideOpens
  <1>8. CASE Plant \/ CommitProfile \/ CapPieces
    BY <1>8, PlantOpens, CommitOpens, CapOpens
  <1> QED
    BY <1>2, <1>3, <1>4, <1>5, <1>6, <1>7, <1>8 DEF Next, GuideNext

\* The frozen corridor is never crossed: on every piece, and beside it within
\* the lateral slack, the cap is at or over the floor the solve is pressed
\* above, for every mission, slice and junction (poly_traj_optimizer.cpp:100-231).
THEOREM CapClearsFloor == Spec => []CorridorOpen
  <1>1. OpenInv => CorridorOpen
    BY DEF OpenInv
  <1> QED
    BY <1>1, OpenStarts, OpenStep, PTL DEF Spec

-----------------------------------------------------------------------------
(***************************************************************************)
(* The cap over what the front end decided, before the filter.             *)
(***************************************************************************)

\* One string of vertices is nowhere above another's reference.
Below(a, b) == Len(a) = Len(b) /\ \A k \in 1..Len(a) : a[k].cap <= b[k].cap

LEMMA BelowJoins ==
  ASSUME NEW a \in Seq(Vertex), NEW b \in Seq(Vertex),
         NEW c \in Seq(Vertex), NEW d \in Seq(Vertex), Below(a, b), Below(c, d)
  PROVE  Below(a \o c, b \o d)
  <1> DEFINE n == Len(a)
             m == Len(c)
  <1>1. n \in Nat /\ m \in Nat /\ Len(b) = n /\ Len(d) = m
    BY LenProperties DEF Below
  <1>2. /\ Len(a \o c) = n + m /\ Len(b \o d) = n + m
        /\ \A k \in 1..(n + m) :
             /\ (a \o c)[k] = IF k <= n THEN a[k] ELSE c[k - n]
             /\ (b \o d)[k] = IF k <= n THEN b[k] ELSE d[k - n]
    <2>1. /\ Len(a \o c) = n + m
          /\ \A k \in 1..(n + m) : (a \o c)[k] = IF k <= n THEN a[k] ELSE c[k - n]
      BY ConcatProperties
    <2>2. /\ Len(b \o d) = Len(b) + Len(d)
          /\ \A k \in 1..(Len(b) + Len(d)) :
               (b \o d)[k] = IF k <= Len(b) THEN b[k] ELSE d[k - Len(b)]
      BY ConcatProperties
    <2> HIDE DEF n, m
    <2> QED
      BY <1>1, <2>1, <2>2
  <1>3. /\ \A k \in 1..n : a[k].cap <= b[k].cap
        /\ \A k \in 1..m : c[k].cap <= d[k].cap
    BY DEF Below
  <1> HIDE DEF n, m
  <1>4. ASSUME NEW k \in 1..(n + m)
        PROVE  (a \o c)[k].cap <= (b \o d)[k].cap
    <2>1. CASE k <= n
      <3>1. k \in 1..n
        BY <1>1, <2>1
      <3>2. (a \o c)[k] = a[k] /\ (b \o d)[k] = b[k]
        BY <1>2, <2>1
      <3> QED
        BY <1>3, <3>1, <3>2
    <2>2. CASE ~ (k <= n)
      <3>1. k - n \in 1..m
        BY <1>1, <2>2
      <3>2. (a \o c)[k] = c[k - n] /\ (b \o d)[k] = d[k - n]
        BY <1>2, <2>2
      <3> QED
        BY <1>3, <3>1, <3>2
    <2> QED
      BY <2>1, <2>2
  <1> QED
    BY <1>2, <1>4 DEF Below

LEMMA CutsBelow ==
  ASSUME NEW a \in Point, NEW b \in Point, NEW c \in Point, NEW d \in Point,
         a.x = c.x, b.x = d.x,
         NEW ya \in Int, NEW yb \in Int, NEW za \in Int, NEW zb \in Int,
         ya <= za, yb <= zb
  PROVE  Below(CutPoints(a, b, ya, yb), CutPoints(c, d, za, zb))
  <1> DEFINE n == Larger(1, Abs(b.x - a.x) \div 2)
             s == CutPoints(a, b, ya, yb)
             t == CutPoints(c, d, za, zb)
  <1>1. n \in Nat \ {0}
    <2> DEFINE w == Abs(b.x - a.x)
    <2>1. w \in Nat
      BY DEF Abs, Point
    <2> HIDE DEF w
    <2>2. w \div 2 \in Int
      BY <2>1
    <2>3. Larger(1, w \div 2) \in Nat \ {0}
      BY <2>2 DEF Larger
    <2> QED
      BY <2>3 DEF w
  <1>2. n = Larger(1, Abs(d.x - c.x) \div 2)
    OBVIOUS
  <1>3. s = [k \in 1..n |-> [x |-> a.x + ((b.x - a.x) * k) \div n,
                             z |-> a.z + ((b.z - a.z) * k) \div n,
                             cap |-> ya + ((yb - ya) * k) \div n]]
    BY DEF CutPoints
  <1> HIDE DEF n
  <1>4. t = [k \in 1..n |-> [x |-> c.x + ((d.x - c.x) * k) \div n,
                             z |-> c.z + ((d.z - c.z) * k) \div n,
                             cap |-> za + ((zb - za) * k) \div n]]
    BY <1>2 DEF CutPoints
  <1> HIDE DEF s, t
  <1>5. Len(s) = n /\ Len(t) = n
    BY <1>1, <1>3, <1>4
  <1>6. ASSUME NEW k \in 1..n PROVE s[k].cap <= t[k].cap
    <2>1. s[k].cap = ya + ((yb - ya) * k) \div n
      BY <1>3
    <2>2. t[k].cap = za + ((zb - za) * k) \div n
      BY <1>4
    <2>3. k \in 0..n
      BY <1>1
    <2> QED
      BY <1>1, <2>1, <2>2, <2>3, Chords
  <1> QED
    BY <1>5, <1>6 DEF Below, s, t

\* Cut alike, a route with lower references stays below piece by piece.
LEMMA PiecesBelow ==
  ASSUME NEW r \in Routes, NEW s \in Routes, r # <<>>, Len(s) = Len(r),
         \A i \in 1..Len(r) : r[i].x = s[i].x,
         NEW ys \in Seq(Int), NEW zs \in Seq(Int),
         Len(ys) = Len(r), Len(zs) = Len(r),
         \A i \in 1..Len(r) : ys[i] <= zs[i]
  PROVE  Below(Pieces(r, ys), Pieces(s, zs))
  <1> DEFINE m == Len(r) - 1
             cut(i) == CutPoints(r[i], r[i + 1], ys[i], ys[i + 1])
             over(i) == CutPoints(s[i], s[i + 1], zs[i], zs[i + 1])
             q == [i \in 1..m |-> cut(i)]
             p == [i \in 1..m |-> over(i)]
             first == [x |-> r[1].x, z |-> r[1].z, cap |-> ys[1]]
             above == [x |-> s[1].x, z |-> s[1].z, cap |-> zs[1]]
  <1>1. m \in Nat /\ \A i \in 1..m : i \in 1..Len(r) /\ i + 1 \in 1..Len(r)
    BY EmptySeq, LenProperties DEF Routes
  <1>2. \A i \in 1..Len(r) : /\ r[i] \in Point /\ r[i].x \in Int /\ r[i].z \in Int
                             /\ s[i] \in Point /\ s[i].x \in Int /\ s[i].z \in Int
                             /\ ys[i] \in Int /\ zs[i] \in Int
    BY PointsOf, ElementOfSeq
  <1>3. ASSUME NEW i \in 1..m
        PROVE  cut(i) \in Seq(Vertex) /\ over(i) \in Seq(Vertex) /\ Below(cut(i), over(i))
    BY <1>1, <1>2, Cutting, CutsBelow
  <1>4. first \in Vertex /\ above \in Vertex /\ first.cap <= above.cap
    <2>1. 1 \in 1..Len(r)
      BY <1>1
    <2> QED
      BY <1>2, <2>1 DEF Vertex
  <1>5. Pieces(r, ys) = <<first>> \o FlattenSeq(q)
    BY DEF Pieces
  <1>6. Pieces(s, zs) = <<above>> \o FlattenSeq(p)
    BY DEF Pieces
  <1> HIDE DEF first, above, cut, over, m
  <1>7. q \in Seq(Seq(Vertex)) /\ p \in Seq(Seq(Vertex)) /\ Len(q) = m /\ Len(p) = m
    BY <1>1, <1>3
  <1>8. \A i \in 1..m : /\ q[i] \in Seq(Vertex) /\ p[i] \in Seq(Vertex)
                        /\ Below(q[i], p[i])
    BY <1>3
  <1> HIDE DEF q, p
  <1>9. Below(FlattenSeq(q), FlattenSeq(p))
    <2>1. CASE m = 0
      <3>1. FlattenSeq(q) = q /\ FlattenSeq(p) = p
        BY <1>7, <2>1 DEF FlattenSeq
      <3> QED
        BY <1>7, <2>1, <3>1 DEF Below
    <2>2. CASE m # 0
      <3>1. PICK f : /\ FlattenSeq(q) = f[m] /\ f[1] = q[1]
                     /\ \A i \in 2..m : f[i] = f[i - 1] \o q[i]
        <4>1. \E h : /\ FlattenSeq(q) = h[Len(q)] /\ h[1] = q[1]
                     /\ \A i \in 2..Len(q) : h[i] = h[i - 1] \o q[i]
          BY <1>1, <1>7, <2>2, Joins
        <4> QED
          BY <1>7, <4>1, Zenon
      <3>2. PICK g : /\ FlattenSeq(p) = g[m] /\ g[1] = p[1]
                     /\ \A i \in 2..m : g[i] = g[i - 1] \o p[i]
        <4>1. \E h : /\ FlattenSeq(p) = h[Len(p)] /\ h[1] = p[1]
                     /\ \A i \in 2..Len(p) : h[i] = h[i - 1] \o p[i]
          BY <1>1, <1>7, <2>2, Joins
        <4> QED
          BY <1>7, <4>1, Zenon
      <3> DEFINE G == {i \in 0..m : i = 0 \/ /\ f[i] \in Seq(Vertex) /\ g[i] \in Seq(Vertex)
                                             /\ Below(f[i], g[i])}
      <3>3. ASSUME NEW i \in 1..m, i - 1 \in G
            PROVE  i \in G
        <4>1. i \in 0..m
          BY <1>1
        <4>2. CASE i = 1
          BY <1>8, <3>1, <3>2, <4>1, <4>2
        <4>3. CASE i # 1
          <5>1. i \in 2..m /\ i - 1 # 0
            BY <1>1, <4>3
          <5>2. /\ f[i - 1] \in Seq(Vertex) /\ g[i - 1] \in Seq(Vertex)
                /\ Below(f[i - 1], g[i - 1])
            BY <3>3, <5>1
          <5>3. /\ f[i - 1] \o q[i] \in Seq(Vertex) /\ g[i - 1] \o p[i] \in Seq(Vertex)
                /\ Below(f[i - 1] \o q[i], g[i - 1] \o p[i])
            BY <1>8, <5>2, ConcatProperties, BelowJoins
          <5>4. f[i] = f[i - 1] \o q[i] /\ g[i] = g[i - 1] \o p[i]
            BY <3>1, <3>2, <5>1
          <5> QED
            BY <4>1, <5>3, <5>4
        <4> QED
          BY <4>2, <4>3
      <3>4. 0 \in G
        BY <1>1
      <3> HIDE DEF G
      <3>5. \A i \in 0..m : i \in G
        BY <1>1, <3>3, <3>4, UpTo
      <3>6. Below(f[m], g[m])
        BY <1>1, <2>2, <3>5 DEF G
      <3> QED
        BY <3>1, <3>2, <3>6
    <2> QED
      BY <2>1, <2>2
  <1>10. FlattenSeq(q) \in Seq(Vertex) /\ FlattenSeq(p) \in Seq(Vertex)
    BY <1>7, Flattens
  <1>11. /\ <<first>> \in Seq(Vertex) /\ <<above>> \in Seq(Vertex)
         /\ Below(<<first>>, <<above>>)
    BY <1>4 DEF Below
  <1> QED
    BY <1>5, <1>6, <1>9, <1>10, <1>11, BelowJoins

\* With j vertices inserted a reference keeps, round every piece, what it said
\* round the piece this one comes from.
Spreads(m, c, j) ==
  /\ j \in Nat /\ Len(c) >= 2 /\ Len(m) = Len(c) + j
  /\ \A i \in 1..(Len(m) - 1) :
       Larger(c[Origin(i, j)], c[Origin(i, j) + 1]) <= Larger(m[i], m[i + 1])

LEMMA MirrorAt ==
  ASSUME NEW r \in Seq(Int), Len(r) >= 2
  PROVE  /\ Mirrored(r) \in Seq(Int) /\ Len(Mirrored(r)) = Len(r) + 1
         /\ Mirrored(r)[1] = r[1] /\ Mirrored(r)[2] = Larger(r[1], r[2])
         /\ \A i \in 3..(Len(r) + 1) : Mirrored(r)[i] = r[i - 1]
  <1> DEFINE n == Len(r)
             h == Larger(r[1], r[2])
             a == SubSeq(r, 1, 1)
             b == SubSeq(r, 2, n)
             c == a \o <<h>>
  <1>1. n \in Nat /\ n >= 2 /\ \A i \in 1..n : r[i] \in Int
    BY LenProperties, ElementOfSeq
  <1>2. h \in Int
    <2>1. r[1] \in Int /\ r[2] \in Int
      BY <1>1
    <2> QED
      BY <2>1 DEF Larger
  <1>3. a \in Seq(Int) /\ Len(a) = 1 /\ a[1] = r[1]
    BY <1>1, SubSeqProperties
  <1>4. b \in Seq(Int) /\ Len(b) = n - 1 /\ \A i \in 1..(n - 1) : b[i] = r[i + 1]
    BY <1>1, SubSeqProperties
  <1>5. Mirrored(r) = c \o b
    <2>1. r # <<>>
      BY <1>1
    <2> QED
      BY <2>1 DEF Mirrored, InsertAt
  <1> HIDE DEF n, h, a, b
  <1>6. c \in Seq(Int) /\ Len(c) = 2 /\ c[1] = r[1] /\ c[2] = h
    <2>1. <<h>> \in Seq(Int) /\ Len(<<h>>) = 1 /\ <<h>>[1] = h
      BY <1>2
    <2>2. /\ c \in Seq(Int) /\ Len(c) = Len(a) + Len(<<h>>)
          /\ \A i \in 1..(Len(a) + Len(<<h>>)) :
               c[i] = IF i <= Len(a) THEN a[i] ELSE <<h>>[i - Len(a)]
      BY <1>3, <2>1, ConcatProperties
    <2> HIDE DEF c
    <2> QED
      BY <1>3, <2>1, <2>2
  <1> HIDE DEF c
  <1>7. /\ c \o b \in Seq(Int) /\ Len(c \o b) = Len(c) + Len(b)
        /\ \A i \in 1..(Len(c) + Len(b)) :
             (c \o b)[i] = IF i <= Len(c) THEN c[i] ELSE b[i - Len(c)]
    BY <1>4, <1>6, ConcatProperties
  <1> DEFINE m == c \o b
  <1>8. /\ m \in Seq(Int) /\ Len(m) = n + 1
        /\ \A i \in 1..(n + 1) : m[i] = IF i <= 2 THEN c[i] ELSE b[i - 2]
    <2>1. Len(c) = 2 /\ Len(c) + Len(b) = n + 1
      BY <1>1, <1>4, <1>6
    <2>2. /\ m \in Seq(Int) /\ Len(m) = Len(c) + Len(b)
          /\ \A i \in 1..(Len(c) + Len(b)) :
               m[i] = IF i <= Len(c) THEN c[i] ELSE b[i - Len(c)]
      BY <1>7
    <2> HIDE DEF m
    <2> QED
      BY <2>1, <2>2
  <1> HIDE DEF m
  <1>9. m[1] = r[1] /\ m[2] = h
    BY <1>1, <1>6, <1>8
  <1>10. ASSUME NEW i \in 3..(n + 1) PROVE m[i] = r[i - 1]
    <2>1. i - 2 \in 1..(n - 1) /\ i \in 1..(n + 1) /\ ~ (i <= 2)
      BY <1>1
    <2>2. m[i] = b[i - 2]
      BY <1>8, <2>1
    <2>3. b[i - 2] = r[(i - 2) + 1] /\ (i - 2) + 1 = i - 1
      BY <1>4, <2>1
    <2> QED
      BY <2>2, <2>3
  <1> QED
    BY <1>5, <1>8, <1>9, <1>10 DEF m, h, n

LEMMA Respread ==
  ASSUME NEW m \in Seq(Int), NEW c \in Seq(Int), NEW j, Spreads(m, c, j)
  PROVE  Spreads(Mirrored(m), c, j + 1)
  <1> DEFINE n == Len(m)
             w == Mirrored(m)
             low(i) == Larger(c[i], c[i + 1])
  <1>1. /\ j \in Nat /\ Len(c) \in Nat /\ Len(c) >= 2 /\ n = Len(c) + j
        /\ \A i \in 1..(n - 1) : low(Origin(i, j)) <= Larger(m[i], m[i + 1])
    BY LenProperties DEF Spreads
  <1>2. n \in Nat /\ n >= 2 /\ \A i \in 1..n : m[i] \in Int
    BY <1>1, LenProperties, ElementOfSeq
  <1>3. /\ Len(w) = n + 1 /\ w[1] = m[1] /\ w[2] = Larger(m[1], m[2])
        /\ \A i \in 3..(n + 1) : w[i] = m[i - 1]
    BY <1>2, MirrorAt
  <1> HIDE DEF n, w, low
  <1>4. ASSUME NEW i \in 1..n
        PROVE  low(Origin(i, j + 1)) <= Larger(w[i], w[i + 1])
    <2>1. CASE i <= 2
      <3>1. Origin(i, j + 1) = 1 /\ Origin(1, j) = 1 /\ 1 \in 1..(n - 1)
        BY <1>1, <1>2, <2>1 DEF Origin
      <3>2. low(1) <= Larger(m[1], m[2])
        BY <1>1, <3>1
      <3>3. m[1] \in Int /\ m[2] \in Int
        BY <1>2
      <3>4. Larger(w[i], w[i + 1]) = Larger(m[1], m[2])
        <4>1. CASE i = 1
          BY <1>3, <3>3, <4>1 DEF Larger
        <4>2. CASE i = 2
          <5>1. w[3] = m[2]
            BY <1>2, <1>3, <4>2
          <5> QED
            BY <1>3, <3>3, <4>2, <5>1 DEF Larger
        <4> QED
          BY <2>1, <4>1, <4>2
      <3> QED
        BY <3>1, <3>2, <3>4
    <2>2. CASE ~ (i <= 2)
      <3>1. /\ i \in 3..(n + 1) /\ i + 1 \in 3..(n + 1) /\ (i + 1) - 1 = i
            /\ i - 1 \in 1..(n - 1) /\ (i - 1) + 1 = i
        BY <1>2, <2>2
      <3>2. Origin(i, j + 1) = Origin(i - 1, j)
        BY <1>1, <3>1 DEF Origin
      <3>3. w[i] = m[i - 1] /\ w[i + 1] = m[i]
        BY <1>3, <3>1
      <3>4. low(Origin(i - 1, j)) <= Larger(m[i - 1], m[(i - 1) + 1])
        BY <1>1, <3>1
      <3> QED
        BY <3>1, <3>2, <3>3, <3>4
    <2> QED
      BY <2>1, <2>2
  <1>5. j + 1 \in Nat /\ Len(w) = Len(c) + (j + 1) /\ Len(w) - 1 = n
    BY <1>1, <1>2, <1>3
  <1> QED
    BY <1>1, <1>4, <1>5 DEF Spreads, w, low

-----------------------------------------------------------------------------
\* References from o on that keep what was decided.
Holds(d, c, o) ==
  \A i \in 1..Len(c) : o + i \in 1..Len(d) /\ d[o + i].cap <= c[i]

Cutout == {"head", "band", "seed", "commit", "cap", "freeze", "solve"}

\* The decision is under the committed heights from the filter on, under the
\* references the route was cut with, also of a slice, and under what vertices
\* were inserted among them.
KeepInv ==
  /\ OpenInv
  /\ stage = "search" => job.kind = "mission" /\ ~job.junction
  /\ stage = "cut" =>
       /\ job.kind = "mission" /\ ~job.junction
       /\ Len(fe.raw) = Len(fe.route)
       /\ \A i \in 1..Len(fe.raw) : /\ fe.raw[i].x = fe.route[i].x
                                    /\ fe.raw[i].z <= fe.raw_z[i]
  /\ stage \in Cutout \cup {"done"} => fe.raw # <<>>
  /\ stage \in Cutout \cup {"done"} /\ job.kind = "mission" =>
       ~job.junction /\ Len(last.cap) = Len(Decided) /\ Holds(Decided, last.cap, 0)
  /\ stage \in Cutout => Holds(Decided, fe.cap, Offset)
  /\ stage \in {"commit", "cap"} => Spreads(ref, fe.cap, inserted)
  /\ CapIsOverDecision

LEMMA DecidedTypes ==
  ASSUME NEW raw \in Routes, raw # <<>>
  PROVE  DecidedOf(raw) \in Seq(Vertex)
  <1> DEFINE zs == [i \in DOMAIN raw |-> raw[i].z]
  <1>1. Len(raw) \in Nat /\ DOMAIN raw = 1..Len(raw)
        /\ \A i \in 1..Len(raw) : raw[i].z \in Int
    BY PointsOf, LenProperties DEF Routes
  <1>2. zs \in Seq(Int) /\ Len(zs) = Len(raw)
    BY <1>1
  <1>3. DecidedOf(raw) = Pieces(raw, zs)
    BY DEF DecidedOf
  <1> HIDE DEF zs
  <1> QED
    BY <1>2, <1>3, PiecesType

LEMMA SameDecision ==
  ASSUME UNCHANGED <<fe, job>>
  PROVE  Decided' = Decided /\ Offset' = Offset
  <1>1. Decided' = Decided
    BY DEF Decided
  <1> QED
    BY <1>1 DEF Offset

LEMMA KeepStarts == Init => KeepInv
  <1> SUFFICES ASSUME Init PROVE KeepInv
    OBVIOUS
  <1>1. OpenInv
    BY OpenStarts
  <1>2. stage = "asked"
    BY DEF Init, GuideInit
  <1>3. CapIsOverDecision
    BY <1>2 DEF CapIsOverDecision, Frozen
  <1> QED
    BY <1>1, <1>2, <1>3 DEF KeepInv, Cutout

\* Filtering moves a vertex up and down only.
LEMMA FilteredStays ==
  ASSUME NEW r \in Routes, NEW i \in 1..Len(r)
  PROVE  Filtered(r, i).x = r[i].x
  <1>1. \E h : Filtered(r, i) \in {r[i], [r[i] EXCEPT !.z = h]}
    BY DEF Filtered
  <1>2. r[i] \in Point
    BY PointsOf
  <1> QED
    BY <1>1, <1>2 DEF Point

LEMMA DenoiseKeeps ==
  ASSUME KeepInv, Denoise
  PROVE  KeepInv'
  <1> DEFINE r == fe.route
             smooth == IF Len(r) < 3 THEN r ELSE [i \in DOMAIN r |-> Filtered(r, i)]
             raw_z == [i \in DOMAIN r |-> Committed(r[i], smooth[i])]
  <1>1. OpenInv'
    BY DenoiseOpens DEF KeepInv
  <1>2. /\ r \in Routes /\ fe \in Products /\ scene \in Scenes /\ job \in Requests
        /\ job.kind = "mission" /\ ~job.junction /\ job.wps # <<>>
    BY DEF KeepInv, OpenInv, TypeInv, Denoise, Products
  <1>3. Len(r) \in Nat /\ DOMAIN r = 1..Len(r)
        /\ \A i \in 1..Len(r) : r[i].z \in Int
    BY <1>2, PointsOf, LenProperties DEF Routes
  <1>4. fe' = [fe EXCEPT !.route = smooth, !.raw = r, !.raw_z = raw_z,
                         !.top = Max(Heights(r))]
    BY DEF Denoise
  <1> HIDE DEF r
  <1>5. Len(smooth) = Len(r) /\ \A i \in 1..Len(r) : smooth[i].x = r[i].x
                             /\ smooth[i].z \in Int
    <2>1. CASE Len(r) < 3
      BY <1>3, <2>1
    <2>2. CASE ~ (Len(r) < 3)
      <3>1. ASSUME NEW i \in 1..Len(r)
            PROVE  Filtered(r, i).x = r[i].x /\ Filtered(r, i).z \in Int
        <4>1. Filtered(r, i) \in Point
          BY <1>2, Filters DEF Requests
        <4> QED
          BY <1>2, <4>1, FilteredStays DEF Point
      <3> QED
        BY <1>3, <2>2, <3>1
    <2> QED
      BY <2>1, <2>2
  <1> HIDE DEF smooth
  <1>6. \A i \in 1..Len(r) : r[i].z <= raw_z[i]
    <2> SUFFICES ASSUME NEW i \in 1..Len(r) PROVE r[i].z <= raw_z[i]
      OBVIOUS
    <2>1. raw_z[i] = Larger(r[i].z, smooth[i].z)
      BY <1>3 DEF Committed
    <2>2. r[i].z \in Int /\ smooth[i].z \in Int
      BY <1>3, <1>5
    <2> HIDE DEF raw_z
    <2> QED
      BY <2>1, <2>2 DEF Larger
  <1> HIDE DEF raw_z
  <1>7. fe'.route = smooth /\ fe'.raw = r /\ fe'.raw_z = raw_z
    BY <1>2, <1>4 DEF Products
  <1>8. /\ Len(fe'.raw) = Len(fe'.route)
        /\ \A i \in 1..Len(fe'.raw) : /\ fe'.raw[i].x = fe'.route[i].x
                                      /\ fe'.raw[i].z <= fe'.raw_z[i]
    BY <1>5, <1>6, <1>7
  <1>9. stage' = "cut" /\ UNCHANGED job
    BY DEF Denoise
  <1>10. CapIsOverDecision'
    BY <1>9 DEF CapIsOverDecision, Frozen
  <1> QED
    BY <1>1, <1>2, <1>8, <1>9, <1>10 DEF KeepInv, Cutout

LEMMA CutKeeps ==
  ASSUME KeepInv, Cut
  PROVE  KeepInv'
  <1> DEFINE raw == fe.raw
             ys == [i \in DOMAIN raw |-> raw[i].z]
             ps == Pieces(fe.route, fe.raw_z)
             clean == [i \in DOMAIN ps |-> [x |-> ps[i].x, z |-> ps[i].z]]
             cap == [i \in DOMAIN ps |-> ps[i].cap]
  <1>1. OpenInv'
    BY CutOpens DEF KeepInv
  <1>2. /\ fe' = [fe EXCEPT !.clean = clean, !.cap = cap]
        /\ last' = [clean |-> clean, cap |-> cap]
        /\ stage' \in {"head", "done"} /\ UNCHANGED job
    BY DEF Cut
  <1>3. /\ fe \in Products /\ fe.route \in Routes /\ fe.route # <<>> /\ raw \in Routes
        /\ fe.raw_z \in Seq(Int) /\ Len(fe.raw_z) = Len(fe.route)
        /\ job.kind = "mission" /\ ~job.junction /\ Len(raw) = Len(fe.route)
        /\ \A i \in 1..Len(raw) : /\ raw[i].x = fe.route[i].x
                                  /\ raw[i].z <= fe.raw_z[i]
    BY DEF KeepInv, OpenInv, TypeInv, Cut, Products
  <1>4. Len(raw) \in Nat /\ DOMAIN raw = 1..Len(raw) /\ raw # <<>>
        /\ \A i \in 1..Len(raw) : raw[i].z \in Int
    BY <1>3, PointsOf, LenProperties, EmptySeq DEF Routes
  <1>5. ys \in Seq(Int) /\ Len(ys) = Len(raw)
        /\ \A i \in 1..Len(raw) : ys[i] <= fe.raw_z[i]
    BY <1>3, <1>4
  <1>6. Decided = Pieces(raw, ys)
    BY DEF Decided, DecidedOf
  <1>7. fe'.raw = raw /\ fe'.clean = clean /\ fe'.cap = cap /\ last'.cap = cap
    BY <1>2, <1>3 DEF Products
  <1> HIDE DEF raw, ys, ps
  <1>8. Below(Decided, ps)
    BY <1>3, <1>4, <1>5, <1>6, PiecesBelow DEF ps
  <1>9. ps \in Seq(Vertex)
    BY <1>3, PiecesType DEF ps
  <1>10. Len(ps) \in Nat /\ DOMAIN ps = 1..Len(ps) /\ Len(Decided) = Len(ps)
         /\ \A i \in 1..Len(ps) : Decided[i].cap <= ps[i].cap
    BY <1>8, <1>9, LenProperties DEF Below
  <1>11. Len(cap) = Len(ps) /\ \A i \in 1..Len(ps) : cap[i] = ps[i].cap
    BY <1>10
  <1> HIDE DEF cap, clean
  <1>12. Holds(Decided, cap, 0)
    <2>1. \A i \in 1..Len(ps) : 0 + i = i
      BY <1>10
    <2> QED
      BY <1>10, <1>11, <2>1 DEF Holds
  <1>13. Decided' = Decided /\ Offset' = 0
    <2>1. Decided' = Decided
      BY <1>7 DEF Decided, raw
    <2>2. ~job'.junction
      BY <1>2, <1>3
    <2> QED
      BY <2>1, <2>2 DEF Offset
  <1>14. Len(last'.cap) = Len(Decided') /\ Holds(Decided', last'.cap, 0)
         /\ Holds(Decided', fe'.cap, Offset')
    BY <1>7, <1>10, <1>11, <1>12, <1>13
  <1>15. CapIsOverDecision'
    BY <1>2 DEF CapIsOverDecision, Frozen
  <1>16. fe'.raw # <<>>
    BY <1>4, <1>7
  <1>17. Holds(Decided, last.cap, 0)' /\ Holds(Decided, fe.cap, Offset)'
    BY <1>14 DEF Holds
  <1> QED
    BY <1>1, <1>2, <1>3, <1>14, <1>15, <1>16, <1>17 DEF KeepInv, Cutout

\* A slice keeps its part of the references, and its end is the route's.
LEMMA SliceKeeps ==
  ASSUME KeepInv, Override \/ SolveSlice
  PROVE  KeepInv'
  <1> DEFINE r == last.clean
             c == last.cap
             n == Len(r)
             d == Decided
  <1>1. OpenInv'
    BY OverrideOpens DEF KeepInv
  <1>2. /\ stage = "done" /\ job.kind = "mission" /\ stage' \in {"head", "band"}
    BY DEF Override, SolveSlice
  <1>3. PICK cut \in 2..(n - 1), front \in BOOLEAN :
          LET p == Slice(cut, front)[1]
              s == Slice(cut, front)[2]
          IN /\ job'.junction = ~front /\ job'.kind # "mission"
             /\ \/ fe' = [fe EXCEPT !.clean = p, !.cap = s, !.top = Max(Heights(p))]
                \/ fe' = [fe EXCEPT !.clean = p, !.cap = s]
    <2>1. CASE Override
      <3>1. PICK cut \in 2..(n - 1), front \in BOOLEAN :
              LET p == Slice(cut, front)[1]
                  s == Slice(cut, front)[2]
              IN /\ job' = [from |-> p[1], wps |-> <<Last(p)>>,
                            junction |-> ~front, kind |-> "override"]
                 /\ fe' = [fe EXCEPT !.clean = p, !.cap = s, !.top = Max(Heights(p))]
        BY <2>1 DEF Override
      <3> QED
        BY <3>1
    <2>2. CASE SolveSlice
      <3>1. PICK cut \in 2..(n - 1), front \in BOOLEAN :
              LET p == Slice(cut, front)[1]
              IN /\ job' = [from |-> p[1], wps |-> <<Last(p)>>,
                            junction |-> ~front, kind |-> "slice"]
                 /\ fe' = [fe EXCEPT !.clean = p, !.cap = Slice(cut, front)[2]]
        BY <2>2 DEF SolveSlice
      <3> QED
        BY <3>1
    <2> QED
      BY <2>1, <2>2
  <1> DEFINE at == IF front THEN 1 ELSE cut
             to == IF front THEN cut ELSE n
             p == SubSeq(r, at, to)
             s == SubSeq(c, at, to)
  <1>4. /\ job'.junction = ~front /\ job'.kind # "mission"
        /\ \/ fe' = [fe EXCEPT !.clean = p, !.cap = s, !.top = Max(Heights(p))]
           \/ fe' = [fe EXCEPT !.clean = p, !.cap = s]
    BY <1>3 DEF Slice
  <1>5. /\ r \in Seq(Point) /\ c \in Seq(Int) /\ Len(c) = n /\ Len(d) = n
        /\ Holds(d, c, 0) /\ fe \in Products /\ fe.raw # <<>>
    BY <1>2 DEF KeepInv, OpenInv, TypeInv, Routes, Cutout
  <1> HIDE DEF r, c, d, n, at, to
  <1>6. n \in Nat
    BY <1>5, LenProperties
  <1>7. /\ at \in 1..(n + 1) /\ to \in (at - 1)..n /\ to - at + 1 \in Nat
        /\ front => at = 1
        /\ ~front => at = cut /\ to = n
    BY <1>6 DEF at, to
  <1>8. /\ Len(p) = to - at + 1 /\ Len(s) = to - at + 1
        /\ \A i \in 1..(to - at + 1) : s[i] = c[at + i - 1]
    <2>1. Len(r) = n /\ at \in 1..(Len(r) + 1) /\ to \in (at - 1)..Len(r)
      BY <1>7 DEF n
    <2>2. at \in 1..(Len(c) + 1) /\ to \in (at - 1)..Len(c)
      BY <1>5, <1>7
    <2>3. Len(p) = to - at + 1
      <3>1. Len(p) = IF at <= to THEN to - at + 1 ELSE 0
        BY <1>5, <2>1, SubSeqProperties
      <3> HIDE DEF p
      <3> QED
        BY <1>6, <1>7, <3>1
    <2>4. /\ Len(s) = IF at <= to THEN to - at + 1 ELSE 0
          /\ \A i \in 1..(to - at + 1) : s[i] = c[at + i - 1]
      BY <1>5, <2>2, SubSeqProperties
    <2>5. Len(s) = to - at + 1
      <3> HIDE DEF s
      <3> QED
        BY <1>6, <1>7, <2>4
    <2> QED
      BY <2>3, <2>4, <2>5
  <1>9. fe'.raw = fe.raw /\ fe'.clean = p /\ fe'.cap = s
    BY <1>4, <1>5 DEF Products
  <1> HIDE DEF p, s
  <1>10. Decided' = d
    BY <1>9 DEF Decided, d
  <1>11. Offset' = at - 1
    <2>1. CASE front
      <3>1. Offset' = 0
        BY <1>4, <2>1 DEF Offset
      <3> QED
        BY <1>7, <2>1, <3>1
    <2>2. CASE ~front
      <3>1. Offset' = Len(d) - Len(p)
        BY <1>4, <1>9, <1>10, <2>2 DEF Offset
      <3> QED
        BY <1>5, <1>6, <1>7, <1>8, <2>2, <3>1
    <2> QED
      BY <2>1, <2>2
  <1>12. ASSUME NEW i \in 1..(to - at + 1)
         PROVE  (at - 1) + i \in 1..n /\ d[(at - 1) + i].cap <= s[i]
    <2>1. (at - 1) + i \in 1..n /\ (at - 1) + i = at + i - 1
          /\ 0 + ((at - 1) + i) = (at - 1) + i
      BY <1>6, <1>7
    <2>2. d[(at - 1) + i].cap <= c[(at - 1) + i]
      BY <1>5, <2>1 DEF Holds
    <2> QED
      BY <1>8, <2>1, <2>2
  <1>13. Holds(Decided, fe.cap, Offset)'
    BY <1>5, <1>8, <1>9, <1>10, <1>11, <1>12 DEF Holds
  <1>14. CapIsOverDecision'
    BY <1>2 DEF CapIsOverDecision, Frozen
  <1>15. fe'.raw # <<>>
    BY <1>5, <1>9
  <1> QED
    BY <1>1, <1>2, <1>4, <1>13, <1>14, <1>15 DEF KeepInv, Cutout

\* A step that leaves the route, the request and the retained references alone.
LEMMA QuietKeeps ==
  ASSUME KeepInv, OpenInv', CapIsOverDecision', UNCHANGED <<fe, job, last>>,
         stage \in Cutout, stage' \in Cutout \cup {"done", "failed"},
         stage' \in {"commit", "cap"} => Spreads(ref', fe.cap, inserted')
  PROVE  KeepInv'
  <1>1. Decided' = Decided /\ Offset' = Offset
    BY SameDecision
  <1>2. Holds(Decided, last.cap, 0)' = Holds(Decided, last.cap, 0)
    BY <1>1 DEF Holds
  <1>3. Holds(Decided, fe.cap, Offset)' = Holds(Decided, fe.cap, Offset)
    BY <1>1 DEF Holds
  <1>4. Spreads(ref, fe.cap, inserted)' = Spreads(ref', fe.cap, inserted')
    BY DEF Spreads, Origin
  <1>5. stage' \notin {"search", "cut"}
    BY DEF Cutout
  <1>6. fe.raw # <<>> /\ Holds(Decided, fe.cap, Offset)
    BY DEF KeepInv
  <1>7. job.kind = "mission" =>
          ~job.junction /\ Len(last.cap) = Len(Decided) /\ Holds(Decided, last.cap, 0)
    BY DEF KeepInv
  <1>8. job'.kind = "mission" =>
          /\ ~job'.junction /\ Len(last'.cap) = Len(Decided')
          /\ Holds(Decided, last.cap, 0)'
    BY <1>1, <1>2, <1>7
  <1> QED
    BY <1>3, <1>4, <1>5, <1>6, <1>8 DEF KeepInv

\* Planting inserts vertices at the start only, and mirrors the references.
LEMMA PlantKeeps ==
  ASSUME KeepInv, Plant
  PROVE  KeepInv'
  <1> DEFINE r == fe.clean
             c == fe.cap
             m == IF Len(r) < 3 THEN Mirrored(c) ELSE c
             mid == IF Len(r) < 3 THEN 1 ELSE 0
  <1>1. OpenInv'
    BY PlantOpens DEF KeepInv
  <1>2. /\ r \in Routes /\ Len(r) >= 2 /\ head \in Int /\ Len(c) = Len(r)
        /\ c \in Seq(Int)
    BY DEF KeepInv, OpenInv, TypeInv, Plant, Products, Capped
  <1>3. /\ path' = WithLead(WithMid(r)) /\ stage = "seed" /\ stage' = "commit"
        /\ ref' = IF LeadIn THEN Mirrored(m) ELSE m
        /\ inserted' = Len(path') - Len(r)
        /\ UNCHANGED <<fe, job, last>>
    BY <1>2 DEF Plant, Paired
  <1>4. Len(r) \in Nat
    BY <1>2, LenProperties DEF Routes
  <1>5. Len(path') = Len(r) + mid + (IF LeadIn THEN 1 ELSE 0)
    BY <1>2, <1>3, Planting
  <1> HIDE DEF r, c
  <1>6. inserted' = mid + (IF LeadIn THEN 1 ELSE 0)
    <2> DEFINE lead == IF LeadIn THEN 1 ELSE 0
    <2>1. mid \in Int /\ lead \in Int
      OBVIOUS
    <2>2. Len(path') = Len(r) + mid + lead
      BY <1>5 DEF r
    <2> HIDE DEF mid, lead
    <2>3. inserted' = mid + lead
      BY <1>3, <1>4, <2>1, <2>2
    <2> QED
      BY <2>3 DEF lead
  <1>7. Spreads(c, c, 0)
    <2>1. \A i \in 1..(Len(c) - 1) : Origin(i, 0) = i
      BY <1>2, <1>4 DEF Origin
    <2>2. \A i \in 1..(Len(c) - 1) : Larger(c[i], c[i + 1]) \in Int
      <3> SUFFICES ASSUME NEW i \in 1..(Len(c) - 1)
                   PROVE  Larger(c[i], c[i + 1]) \in Int
        OBVIOUS
      <3>1. i \in 1..Len(c) /\ i + 1 \in 1..Len(c)
        BY <1>2, <1>4
      <3>2. c[i] \in Int /\ c[i + 1] \in Int
        BY <1>2, <3>1, ElementOfSeq
      <3> QED
        BY <3>2 DEF Larger
    <2>3. \A i \in 1..(Len(c) - 1) :
            Larger(c[Origin(i, 0)], c[Origin(i, 0) + 1]) <= Larger(c[i], c[i + 1])
      BY <2>1, <2>2
    <2>4. Len(c) >= 2 /\ Len(c) = Len(c) + 0
      BY <1>2, <1>4
    <2> QED
      BY <2>3, <2>4 DEF Spreads
  <1>8. m \in Seq(Int) /\ Spreads(m, c, mid)
    <2>1. CASE Len(r) < 3
      <3>1. Mirrored(c) \in Seq(Int)
        BY <1>2, MirrorAt
      <3>2. Spreads(Mirrored(c), c, 0 + 1)
        BY <1>2, <1>7, Respread
      <3> QED
        BY <2>1, <3>1, <3>2
    <2>2. CASE ~ (Len(r) < 3)
      BY <1>2, <1>7, <2>2
    <2> QED
      BY <2>1, <2>2
  <1>9. mid \in {0, 1}
    OBVIOUS
  <1> HIDE DEF m, mid
  <1>10. Spreads(ref', c, inserted')
    <2>1. CASE LeadIn
      <3>1. inserted' = mid + 1
        BY <1>6, <2>1
      <3>2. Spreads(Mirrored(m), c, mid + 1)
        BY <1>2, <1>8, Respread
      <3> QED
        BY <1>3, <2>1, <3>1, <3>2
    <2>2. CASE ~LeadIn
      <3>1. inserted' = mid
        BY <1>6, <1>9, <2>2
      <3> QED
        BY <1>3, <1>8, <2>2, <3>1
    <2> QED
      BY <2>1, <2>2
  <1>11. CapIsOverDecision'
    BY <1>3 DEF CapIsOverDecision, Frozen
  <1> QED
    BY <1>1, <1>3, <1>10, <1>11, QuietKeeps DEF Cutout, c

\* Committing a profile moves the seed and no reference.
LEMMA CommitKeeps ==
  ASSUME KeepInv, CommitProfile
  PROVE  KeepInv'
  <1>1. OpenInv'
    BY CommitOpens DEF KeepInv
  <1>2. /\ stage = "commit" /\ stage' = "cap"
        /\ UNCHANGED <<fe, job, last, ref, inserted>>
    BY DEF CommitProfile
  <1>3. Spreads(ref', fe.cap, inserted')
    BY <1>2 DEF KeepInv
  <1>4. CapIsOverDecision'
    BY <1>2 DEF CapIsOverDecision, Frozen
  <1> QED
    BY <1>1, <1>2, <1>3, <1>4, QuietKeeps DEF Cutout

\* The caps are over the references, and so over the decision they spread.
LEMMA CapKeeps ==
  ASSUME KeepInv, CapPieces
  PROVE  KeepInv'
  <1> DEFINE n == Len(path)
             c == fe.cap
             d == Decided
             o == Offset
             j == inserted
  <1>1. OpenInv'
    BY CapOpens DEF KeepInv
  <1>2. /\ stage = "cap" /\ stage' = "freeze"
        /\ UNCHANGED <<fe, job, last, path, inserted>>
    BY DEF CapPieces
  <1>3. /\ scene \in Scenes /\ ref \in Seq(Above(band.lo)) /\ Len(ref) = n
        /\ n \in Nat /\ n >= 2 /\ \A i \in 1..n : path[i].x \in Int
        /\ fe \in Products /\ fe.raw # <<>>
    BY <1>2 DEF KeepInv, OpenInv, TypeInv, Cutout
  <1>4. Holds(d, c, o) /\ Spreads(ref, c, j) /\ c \in Seq(Int)
        /\ d \in Seq(Vertex)
    <2>1. fe.raw \in Routes /\ fe.cap \in Seq(Int)
      BY <1>3 DEF Products
    <2> QED
      BY <1>2, <1>3, <2>1, DecidedTypes DEF KeepInv, Cutout, Decided
  <1>5. ref \in Seq(Int)
    <2>1. \A i \in 1..Len(ref) : ref[i] \in Above(band.lo)
      BY <1>3, ElementOfSeq
    <2> QED
      BY <1>3, <2>1 DEF Above
  <1>6. \A i \in 1..(n - 1) : CapOf(i)' = PieceCap(i)
    BY CapsStored DEF KeepInv
  <1> HIDE DEF d, o, c, j
  <1>7. \A i \in 1..(n - 1) : PieceCap(i) \in Int
                              /\ Larger(ref[i], ref[i + 1]) + CapHeadroom <= PieceCap(i)
    <2>1. n = Len(path)
      OBVIOUS
    <2> HIDE DEF n
    <2> QED
      BY <1>3, <1>5, <2>1, CapIsHigh
  <1>8. /\ j \in Nat /\ Len(c) \in Nat /\ Len(c) >= 2 /\ n = Len(c) + j
        /\ \A i \in 1..(n - 1) :
             Larger(c[Origin(i, j)], c[Origin(i, j) + 1]) <= Larger(ref[i], ref[i + 1])
    BY <1>3, <1>4, LenProperties DEF Spreads
  <1> HIDE DEF n
  <1>9. ASSUME NEW i \in 1..(n - 1)
        PROVE  LET k == o + Origin(i, j)
               IN PieceCap(i) >= CapHeadroom + Larger(d[k].cap, d[k + 1].cap)
    <2> DEFINE q == Origin(i, j)
               k == o + q
    <2>1. q \in 1..Len(c) /\ q + 1 \in 1..Len(c)
      BY <1>8 DEF Origin
    <2> HIDE DEF q
    <2>2. /\ k \in 1..Len(d) /\ o + (q + 1) \in 1..Len(d)
          /\ d[k].cap <= c[q] /\ d[o + (q + 1)].cap <= c[q + 1]
      BY <1>4, <2>1 DEF Holds
    <2>3. c[q] \in Int /\ c[q + 1] \in Int
      BY <1>4, <2>1, ElementOfSeq
    <2>4. o \in Int
      BY <1>4, DecidedTypes, LenProperties DEF o, Offset, d
    <2>5. o + (q + 1) = k + 1
      BY <2>1, <2>4
    <2>6. d[k].cap \in Int /\ d[k + 1].cap \in Int
      <3>1. d[k] \in Vertex /\ d[k + 1] \in Vertex
        BY <1>4, <2>2, <2>5, ElementOfSeq
      <3> QED
        BY <3>1 DEF Vertex
    <2>7. Larger(d[k].cap, d[k + 1].cap) <= Larger(c[q], c[q + 1])
      BY <2>2, <2>3, <2>5, <2>6 DEF Larger
    <2>8. /\ i \in 1..Len(ref) /\ i + 1 \in 1..Len(ref)
          /\ Larger(c[q], c[q + 1]) <= Larger(ref[i], ref[i + 1])
          /\ Larger(ref[i], ref[i + 1]) + CapHeadroom <= PieceCap(i)
          /\ PieceCap(i) \in Int
      BY <1>3, <1>7, <1>8 DEF q
    <2>9. ref[i] \in Int /\ ref[i + 1] \in Int
      BY <1>5, <2>8, ElementOfSeq
    <2>10. /\ Larger(d[k].cap, d[k + 1].cap) \in Int
           /\ Larger(c[q], c[q + 1]) \in Int /\ Larger(ref[i], ref[i + 1]) \in Int
      BY <2>3, <2>6, <2>9 DEF Larger
    <2> HIDE DEF k
    <2>11. PieceCap(i) >= CapHeadroom + Larger(d[k].cap, d[k + 1].cap)
      BY <2>7, <2>8, <2>10, HeadroomAssumption
    <2> QED
      BY <2>11 DEF k, q
  <1>10. CapIsOverDecision'
    <2>1. Decided' = d /\ Offset' = o
      BY <1>2, SameDecision DEF d, o
    <2>2. Len(path') = n /\ inserted' = j
      BY <1>2 DEF n, j
    <2>3. \A i : Origin(i, inserted)' = Origin(i, j)
      BY <2>2 DEF Origin
    <2> QED
      BY <1>6, <1>9, <2>1, <2>2, <2>3 DEF CapIsOverDecision
  <1> QED
    BY <1>1, <1>2, <1>10, QuietKeeps DEF Cutout

\* The solve reads the caps and leaves the decision alone.
LEMMA FrozenKeeps ==
  ASSUME CapIsOverDecision, Frozen,
         UNCHANGED <<fe, job, band, path, caps, inserted>>
  PROVE  CapIsOverDecision'
  <1>1. Decided' = Decided /\ Offset' = Offset
    BY SameDecision
  <1>2. \A i : CapOf(i)' = CapOf(i)
    BY DEF CapOf
  <1>3. \A i : Origin(i, inserted)' = Origin(i, inserted)
    BY DEF Origin
  <1> QED
    BY <1>1, <1>2, <1>3 DEF CapIsOverDecision

\* Nothing decided is compared before the cut, nor after a failure.
LEMMA UndecidedKeeps ==
  ASSUME KeepInv, OpenInv',
         \/ Accept \/ SearchLeg \/ NoWaypoints \/ GridRefused \/ SearchFails
  PROVE  KeepInv'
  <1>1. \/ stage' = "failed"
        \/ stage' = "search" /\ job'.kind = "mission" /\ ~job'.junction
    <2>1. CASE NoWaypoints \/ GridRefused \/ SearchFails
      BY <2>1 DEF NoWaypoints, GridRefused, SearchFails
    <2>2. CASE Accept
      BY <2>2 DEF Accept
    <2>3. CASE SearchLeg
      BY <2>3 DEF SearchLeg, KeepInv
    <2> QED
      BY <2>1, <2>2, <2>3
  <1>2. CapIsOverDecision'
    BY <1>1 DEF CapIsOverDecision, Frozen
  <1> QED
    BY <1>1, <1>2 DEF KeepInv, Cutout

LEMMA StutterKeeps ==
  ASSUME KeepInv, OpenInv', UNCHANGED vars
  PROVE  KeepInv'
  <1>1. UNCHANGED <<stage, job, fe, last, band, path, ref, inserted, caps>>
    BY DEF vars, guideVars, seedVars
  <1>2. Decided' = Decided /\ Offset' = Offset
    BY <1>1, SameDecision
  <1>3. /\ Holds(Decided, last.cap, 0)' = Holds(Decided, last.cap, 0)
        /\ Holds(Decided, fe.cap, Offset)' = Holds(Decided, fe.cap, Offset)
    BY <1>1, <1>2 DEF Holds
  <1>4. Spreads(ref, fe.cap, inserted)' = Spreads(ref, fe.cap, inserted)
    BY <1>1 DEF Spreads, Origin
  <1>5. CapIsOverDecision'
    <2>1. CASE Frozen
      BY <1>1, <2>1, FrozenKeeps DEF KeepInv
    <2>2. CASE ~Frozen
      BY <1>1, <2>2 DEF CapIsOverDecision, Frozen
    <2> QED
      BY <2>1, <2>2
  <1>6. /\ stage = "search" => job.kind = "mission" /\ ~job.junction
        /\ stage = "cut" =>
             /\ job.kind = "mission" /\ ~job.junction
             /\ Len(fe.raw) = Len(fe.route)
             /\ \A i \in 1..Len(fe.raw) : /\ fe.raw[i].x = fe.route[i].x
                                          /\ fe.raw[i].z <= fe.raw_z[i]
    BY DEF KeepInv
  <1>7. /\ stage \in Cutout \cup {"done"} => fe.raw # <<>>
        /\ stage \in Cutout \cup {"done"} /\ job.kind = "mission" =>
             ~job.junction /\ Len(last.cap) = Len(Decided) /\ Holds(Decided, last.cap, 0)
        /\ stage \in Cutout => Holds(Decided, fe.cap, Offset)
        /\ stage \in {"commit", "cap"} => Spreads(ref, fe.cap, inserted)
    BY DEF KeepInv
  <1>8. /\ stage' = stage /\ job' = job /\ fe' = fe /\ last'.cap = last.cap
    BY <1>1
  <1> QED
    BY <1>2, <1>3, <1>4, <1>5, <1>6, <1>7, <1>8 DEF KeepInv

LEMMA KeepStep ==
  ASSUME KeepInv, [Next]_vars
  PROVE  KeepInv'
  <1>1. OpenInv'
    BY OpenStep DEF KeepInv
  <1>2. CASE AimHead \/ SetBand
    <2>1. /\ stage \in {"head", "band"} /\ stage' \in {"band", "seed"}
          /\ UNCHANGED <<fe, job, last>>
      BY <1>2 DEF AimHead, SetBand
    <2>2. CapIsOverDecision'
      BY <2>1 DEF CapIsOverDecision, Frozen
    <2> QED
      BY <1>1, <2>1, <2>2, QuietKeeps DEF Cutout
  <1>3. CASE Freeze
    <2>1. /\ stage = "freeze" /\ stage' = "solve" /\ UNCHANGED last
          /\ UNCHANGED <<fe, job, band, path, caps, inserted>>
      BY <1>3 DEF Freeze
    <2>2. CapIsOverDecision'
      BY <2>1, FrozenKeeps DEF KeepInv, Frozen
    <2> QED
      BY <1>1, <2>1, <2>2, QuietKeeps DEF Cutout
  <1>4. CASE Solve
    <2>1. /\ stage = "solve" /\ stage' \in {"done", "failed"}
          /\ UNCHANGED <<fe, job, last>>
      BY <1>4 DEF Solve
    <2>2. CapIsOverDecision'
      BY <2>1 DEF CapIsOverDecision, Frozen
    <2> QED
      BY <1>1, <2>1, <2>2, QuietKeeps DEF Cutout
  <1>5. CASE Accept \/ SearchLeg \/ NoWaypoints \/ GridRefused \/ SearchFails
    BY <1>1, <1>5, UndecidedKeeps
  <1>6. CASE Denoise \/ Cut
    BY <1>6, DenoiseKeeps, CutKeeps
  <1>7. CASE Override \/ SolveSlice
    BY <1>7, SliceKeeps
  <1>8. CASE Plant \/ CommitProfile \/ CapPieces
    BY <1>8, PlantKeeps, CommitKeeps, CapKeeps
  <1>9. CASE UNCHANGED vars
    BY <1>1, <1>9, StutterKeeps
  <1> QED
    BY <1>2, <1>3, <1>4, <1>5, <1>6, <1>7, <1>8, <1>9 DEF Next, GuideNext

\* The cap gives back at least what the front end decided: on every piece it
\* leaves the headroom above the decision at both vertices of the route round
\* the piece, whatever the filter planed off, whichever vertices were inserted
\* at the start and however the route was sliced, also where the mission turns
\* back over itself (poly_traj_optimizer.cpp:100-118, path_manager.cpp:1438-1450,
\* 1524-1562).
THEOREM CapKeepsDecisions == Spec => []CapIsOverDecision
  <1>1. KeepInv => CapIsOverDecision
    BY DEF KeepInv
  <1> QED
    BY <1>1, KeepStarts, KeepStep, PTL DEF Spec

=============================================================================
