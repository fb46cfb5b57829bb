---------------------------- MODULE MetaModelProofs ----------------------------
(***************************************************************************)
(* Theorems about MetaModel, for every finite language whose types extend   *)
(* types of their kind: what the generator, the caches and the palette make *)
(* of the declarations is what the declarations say.                        *)
(***************************************************************************)
EXTENDS MetaModel, FiniteSetTheorems, WellFoundedInduction, TLAPS

(* A set of natural numbers with some element has a least one.              *)
LEMMA LeastNumber ==
    ASSUME NEW T \in SUBSET Nat, T # {}
    PROVE  \E x \in T : \A y \in T : x <= y
<1>1. PICK R : R = OpToRel(<, Nat)
    OBVIOUS
<1>2. IsWellFoundedOn(R, Nat)
    BY <1>1, NatLessThanWellFounded
<1>3. PICK x \in T : \A y \in T : ~ (<<y, x>> \in R)
    BY <1>2, WFMin, Zenon
<1>4. \A y \in T : ~ (y < x)
    BY <1>1, <1>3 DEF OpToRel
<1> QED  BY <1>4

(* Induction, for a set of numbers.                                         *)
LEMMA NumberInduction ==
    ASSUME NEW T, 0 \in T, \A n \in Nat : n \in T => n + 1 \in T
    PROVE  \A n \in Nat : n \in T
<1> SUFFICES ASSUME Nat \ T # {} PROVE FALSE
    OBVIOUS
<1>1. PICK x \in Nat \ T : \A y \in Nat \ T : x <= y
    <2>1. Nat \ T \in SUBSET Nat
        OBVIOUS
    <2> QED  BY <2>1, LeastNumber, Zenon
<1>2. x # 0 /\ x - 1 \in Nat /\ ~(x <= x - 1)
    BY <1>1
<1>3. x - 1 \in T
    BY <1>1, <1>2
<1> QED  BY <1>1, <1>2, <1>3

(* A function with a first value and a next one for each exists.            *)
Iterates(f, b, F) == f[0] = b /\ \A n \in Nat : f[n + 1] = F[f[n]]

LEMMA IterationExists ==
    ASSUME NEW V, NEW b \in V, NEW F \in [V -> V]
    PROVE  \E f \in [Nat -> V] : Iterates(f, b, F)
<1> DEFINE Upto(g, k) == g[0] = b /\ \A n \in Nat : n < k => g[n + 1] = F[g[n]]
           T == {k \in Nat : \E g \in [Nat -> V] : Upto(g, k)}
<1>1. 0 \in T
    <2>1. PICK g : g = [n \in Nat |-> b]
        OBVIOUS
    <2> QED  BY <2>1
<1>2. ASSUME NEW k \in Nat, k \in T PROVE k + 1 \in T
    <2>1. PICK g \in [Nat -> V] : Upto(g, k)
        BY <1>2
    <2>2. PICK h : h = [n \in Nat |-> IF n = k + 1 THEN F[g[k]] ELSE g[n]]
        OBVIOUS
    <2>3. h \in [Nat -> V] /\ h[k + 1] = F[g[k]] /\ \A n \in Nat : n # k + 1 => h[n] = g[n]
        BY <2>2
    <2>4. ASSUME NEW n \in Nat, n < k + 1 PROVE h[n + 1] = F[h[n]]
        <3>1. CASE n = k
            <4>1. h[k] = g[k]
                BY <2>3
            <4> QED  BY <2>3, <3>1, <4>1
        <3>2. CASE n # k
            <4>1. n < k /\ n # k + 1 /\ n + 1 # k + 1
                BY <2>4, <3>2
            <4>2. h[n + 1] = g[n + 1] /\ h[n] = g[n]
                BY <2>3, <4>1
            <4> QED  BY <2>1, <4>1, <4>2
        <3> QED  BY <3>1, <3>2
    <2>5. h[0] = b
        BY <2>1, <2>3
    <2>6. Upto(h, k + 1)
        BY <2>4, <2>5
    <2> HIDE DEF Upto
    <2> QED  BY <2>3, <2>6
<1>3. \A k \in Nat : \E g \in [Nat -> V] : Upto(g, k)
    <2>1. \A k \in Nat : k \in T
        <3> HIDE DEF T
        <3> QED  BY <1>1, <1>2, NumberInduction
    <2> HIDE DEF Upto
    <2> QED  BY <2>1
<1>4. PICK a : a = [k \in Nat |-> CHOOSE g : g \in [Nat -> V] /\ Upto(g, k)]
    OBVIOUS
<1>5. \A k \in Nat : a[k] \in [Nat -> V] /\ Upto(a[k], k)
    <2> SUFFICES ASSUME NEW k \in Nat PROVE a[k] \in [Nat -> V] /\ Upto(a[k], k)
        OBVIOUS
    <2> HIDE DEF Upto
    <2>1. a[k] = CHOOSE g : g \in [Nat -> V] /\ Upto(g, k)
        BY <1>4
    <2>2. \E g : g \in [Nat -> V] /\ Upto(g, k)
        BY <1>3
    <2> QED  BY <2>1, <2>2
<1>6. \A n \in Nat : a[n + 1][n] = a[n][n]
    <2> SUFFICES ASSUME NEW n \in Nat PROVE a[n + 1][n] = a[n][n]
        OBVIOUS
    <2> DEFINE S == {m \in Nat : m <= n => a[n + 1][m] = a[n][m]}
    <2>1. 0 \in S
        BY <1>5
    <2>2. ASSUME NEW m \in Nat, m \in S PROVE m + 1 \in S
        <3> SUFFICES ASSUME m + 1 <= n PROVE a[n + 1][m + 1] = a[n][m + 1]
            OBVIOUS
        <3>1. m < n /\ m < n + 1 /\ m <= n /\ n + 1 \in Nat
            OBVIOUS
        <3>2. a[n + 1][m] = a[n][m]
            BY <2>2, <3>1
        <3> QED  BY <1>5, <3>1, <3>2
    <2>3. \A m \in Nat : m \in S
        <3> HIDE DEF S
        <3> QED  BY <2>1, <2>2, NumberInduction
    <2> QED  BY <2>3
<1>7. PICK f : f = [n \in Nat |-> a[n][n]]
    OBVIOUS
<1>8. f \in [Nat -> V] /\ f[0] = b
    BY <1>5, <1>7
<1>9. ASSUME NEW n \in Nat PROVE f[n + 1] = F[f[n]]
    <2>1. n + 1 \in Nat /\ n < n + 1
        OBVIOUS
    <2>2. f[n + 1] = a[n + 1][n + 1] /\ f[n] = a[n][n]
        BY <1>7, <2>1
    <2>3. a[n + 1][n + 1] = F[a[n + 1][n]]
        BY <1>5, <2>1
    <2> QED  BY <1>6, <2>2, <2>3
<1> QED  BY <1>8, <1>9 DEF Iterates

-----------------------------------------------------------------------------
(* What is reached. *)

(* Reached is the least set that has t and all that its members lead to.    *)
LEMMA ReachedIsLeast ==
    ASSUME NEW D \in SUBSET Types, NEW leads \in [D -> SUBSET D], NEW t \in D
    PROVE  /\ t \in Reached(t, leads)
           /\ Reached(t, leads) \subseteq D
           /\ \A x \in Reached(t, leads) : leads[x] \subseteq Reached(t, leads)
           /\ \A S : t \in S /\ (\A x \in S \intersect D : leads[x] \subseteq S)
                        => Reached(t, leads) \subseteq S
<1> DEFINE On(r) == r \union UNION {leads[x] : x \in r}
           Recurs(f) == f = [n \in Nat |-> IF n = 0 THEN {t}
                                           ELSE f[n - 1] \union UNION {leads[x] : x \in f[n - 1]}]
<1>1. \E f : Recurs(f)
    <2>1. PICK F : F = [r \in SUBSET D |-> On(r)]
        OBVIOUS
    <2>2. F \in [SUBSET D -> SUBSET D] /\ {t} \in SUBSET D
        BY <2>1
    <2>3. PICK f \in [Nat -> SUBSET D] : f[0] = {t} /\ \A n \in Nat : f[n + 1] = F[f[n]]
        <3>1. \E f \in [Nat -> SUBSET D] : Iterates(f, {t}, F)
            BY <2>2, IterationExists, Zenon
        <3> QED  BY <3>1 DEF Iterates
    <2>4. ASSUME NEW n \in Nat, n # 0 PROVE f[n] = On(f[n - 1])
        <3>1. n - 1 \in Nat /\ (n - 1) + 1 = n
            BY <2>4
        <3>2. f[n] = F[f[n - 1]] /\ f[n - 1] \in SUBSET D
            BY <2>3, <3>1
        <3> QED  BY <2>1, <3>2
    <2>5. Recurs(f)
        BY <2>3, <2>4
    <2> HIDE DEF Recurs
    <2> QED  BY <2>5
<1>2. PICK f : Recurs(f) /\ Reached(t, leads) = f[Cardinality(Types)]
    <2>1. PICK g : g = CHOOSE f : Recurs(f)
        OBVIOUS
    <2>2. Recurs(g)
        <3> HIDE DEF Recurs
        <3> QED  BY <1>1, <2>1
    <2>3. Reached(t, leads) = g[Cardinality(Types)]
        BY <2>1 DEF Reached
    <2> HIDE DEF Recurs
    <2> QED  BY <2>2, <2>3
<1>3. f[0] = {t} /\ \A n \in Nat : f[n + 1] = f[n] \union UNION {leads[x] : x \in f[n]}
    BY <1>2
<1>4. \A n \in Nat : f[n] \subseteq D /\ t \in f[n]
    <2> DEFINE T == {n \in Nat : f[n] \subseteq D /\ t \in f[n]}
    <2>1. 0 \in T
        BY <1>3
    <2>2. ASSUME NEW n \in Nat, n \in T PROVE n + 1 \in T
        BY <1>3, <2>2
    <2>3. \A n \in Nat : n \in T
        <3> HIDE DEF T
        <3> QED  BY <2>1, <2>2, NumberInduction
    <2> QED  BY <2>3
<1>5. ASSUME NEW S, t \in S, \A x \in S \intersect D : leads[x] \subseteq S
      PROVE  \A n \in Nat : f[n] \subseteq S
    <2> DEFINE T == {n \in Nat : f[n] \subseteq S}
    <2>1. 0 \in T
        BY <1>3, <1>5
    <2>2. ASSUME NEW n \in Nat, n \in T PROVE n + 1 \in T
        BY <1>3, <1>4, <1>5, <2>2
    <2>3. \A n \in Nat : n \in T
        <3> HIDE DEF T
        <3> QED  BY <2>1, <2>2, NumberInduction
    <2> QED  BY <2>3
<1>6. \A n \in Nat : \/ \A x \in f[n] : leads[x] \subseteq f[n]
                     \/ Cardinality(f[n]) > n
    <2> DEFINE Closed(r) == \A x \in r : leads[x] \subseteq r
               T == {n \in Nat : Closed(f[n]) \/ Cardinality(f[n]) > n}
    <2>0. IsFiniteSet(Types)
        BY MetaAssumption
    <2>1. 0 \in T
        <3>1. Cardinality(f[0]) = 1
            BY <1>3, FS_Singleton
        <3> QED  BY <3>1
    <2>2. ASSUME NEW n \in Nat, n \in T PROVE n + 1 \in T
        <3>1. CASE Closed(f[n])
            <4>1. UNION {leads[x] : x \in f[n]} \subseteq f[n]
                BY <3>1
            <4>2. f[n + 1] = f[n] \union UNION {leads[x] : x \in f[n]}
                BY <1>3
            <4>3. f[n + 1] = f[n]
                BY <4>1, <4>2
            <4> QED  BY <3>1, <4>3
        <3>2. CASE ~Closed(f[n])
            <4>1. Cardinality(f[n]) > n
                BY <2>2, <3>2
            <4>2. PICK y : y \in f[n + 1] /\ y \notin f[n]
                BY <1>3, <3>2
            <4>3. IsFiniteSet(f[n]) /\ IsFiniteSet(f[n + 1])
                <5>1. f[n] \in SUBSET Types /\ f[n + 1] \in SUBSET Types
                    BY <1>4
                <5> QED  BY <2>0, <5>1, FS_Subset
            <4>4. IsFiniteSet(f[n] \union {y}) /\ Cardinality(f[n] \union {y}) = Cardinality(f[n]) + 1
                BY <4>2, <4>3, FS_AddElement
            <4>5. f[n] \union {y} \in SUBSET f[n + 1]
                BY <1>3, <4>2
            <4>6. Cardinality(f[n] \union {y}) <= Cardinality(f[n + 1])
                BY <4>3, <4>5, FS_Subset, Zenon
            <4>7. Cardinality(f[n]) \in Nat /\ Cardinality(f[n + 1]) \in Nat
                BY <4>3, FS_CardinalityType
            <4>8. Cardinality(f[n + 1]) > n + 1
                BY <4>1, <4>4, <4>6, <4>7
            <4> QED  BY <4>8
        <3> QED  BY <3>1, <3>2
    <2>3. \A n \in Nat : n \in T
        <3> HIDE DEF T
        <3> QED  BY <2>1, <2>2, NumberInduction
    <2> QED  BY <2>3
<1>7. Cardinality(Types) \in Nat /\ ~(Cardinality(f[Cardinality(Types)]) > Cardinality(Types))
    <2>1. IsFiniteSet(Types)
        BY MetaAssumption
    <2>2. Cardinality(Types) \in Nat
        BY <2>1, FS_CardinalityType
    <2>3. f[Cardinality(Types)] \in SUBSET Types
        BY <1>4, <2>2
    <2>4. /\ Cardinality(f[Cardinality(Types)]) <= Cardinality(Types)
          /\ IsFiniteSet(f[Cardinality(Types)])
        BY <2>1, <2>3, FS_Subset, Zenon
    <2>5. Cardinality(f[Cardinality(Types)]) \in Nat
        BY <2>4, FS_CardinalityType
    <2> QED  BY <2>2, <2>4, <2>5
<1>8. \A x \in f[Cardinality(Types)] : leads[x] \subseteq f[Cardinality(Types)]
    BY <1>6, <1>7
<1> QED  BY <1>2, <1>4, <1>5, <1>7, <1>8

(* What a type extends.                                                     *)
LEMMA KindsExtend ==
    ASSUME lang \in Languages, NEW t \in Types, SuperOf(t) # NoType
    PROVE  /\ SuperOf(t) \in Types
           /\ t \in GraphTypes => SuperOf(t) \in GraphTypes
           /\ t \in NodeTypes => SuperOf(t) \in NodeTypes
           /\ t \in PlainNodeTypes => SuperOf(t) \in PlainNodeTypes
           /\ t \in EdgeTypes => SuperOf(t) \in EdgeTypes
<1>1. SuperOf(t) \in Extendable(t)
    BY MetaAssumption DEF SuperOf
<1>2. SuperOf(t) \in Types
    BY MetaAssumption DEF SuperOf, IsLanguage
<1>3. Apart(GraphTypes, NodeTypes) /\ Apart(GraphTypes, EdgeTypes) /\ Apart(NodeTypes, EdgeTypes)
    BY MetaAssumption DEF Apart
<1>4. t \in GraphTypes => Extendable(t) = GraphTypes
    BY <1>3 DEF Extendable, Apart, NodeTypes
<1>5. t \in ContainerTypes => Extendable(t) = NodeTypes
    BY <1>3, MetaAssumption DEF Extendable, Apart, NodeTypes
<1>6. t \in PlainNodeTypes => Extendable(t) = PlainNodeTypes
    BY <1>3, MetaAssumption DEF Extendable, Apart, NodeTypes
<1>7. t \in EdgeTypes => Extendable(t) = EdgeTypes
    BY <1>3, MetaAssumption DEF Extendable, Apart, NodeTypes
<1> QED  BY <1>1, <1>2, <1>4, <1>5, <1>6, <1>7 DEF NodeTypes

LEMMA SuperTypesAreLeast ==
    ASSUME lang \in Languages, NEW t \in Types
    PROVE  /\ t \in SuperTypes(t) /\ SuperTypes(t) \subseteq Types
           /\ \A s \in SuperTypes(t) : SuperOf(s) # NoType => SuperOf(s) \in SuperTypes(t)
           /\ \A S : t \in S /\ (\A s \in S \intersect Types : SuperOf(s) # NoType => SuperOf(s) \in S)
                        => SuperTypes(t) \subseteq S
<1>1. PICK leads : leads = [s \in Types |-> {SuperOf(s)} \ {NoType}]
    OBVIOUS
<1>2. \A s \in Types : SuperOf(s) # NoType => SuperOf(s) \in Types
    BY KindsExtend
<1>3. leads \in [Types -> SUBSET Types]
    BY <1>1, <1>2
<1>4. SuperTypes(t) = Reached(t, leads)
    BY <1>1 DEF SuperTypes
<1>5. /\ t \in Reached(t, leads) /\ Reached(t, leads) \subseteq Types
      /\ \A x \in Reached(t, leads) : leads[x] \subseteq Reached(t, leads)
      /\ \A S : t \in S /\ (\A x \in S \intersect Types : leads[x] \subseteq S)
                    => Reached(t, leads) \subseteq S
    <2>1. Types \in SUBSET Types
        OBVIOUS
    <2> QED  BY <1>3, <2>1, ReachedIsLeast, Zenon
<1>6. \A s \in Types : leads[s] = {SuperOf(s)} \ {NoType}
    BY <1>1
<1>7. \A s \in SuperTypes(t) : SuperOf(s) # NoType => SuperOf(s) \in SuperTypes(t)
    BY <1>4, <1>5, <1>6
<1>8. ASSUME NEW S, t \in S, \A s \in S \intersect Types : SuperOf(s) # NoType => SuperOf(s) \in S
      PROVE  SuperTypes(t) \subseteq S
    <2>1. \A x \in S \intersect Types : leads[x] \subseteq S
        BY <1>6, <1>8
    <2> QED  BY <1>4, <1>5, <1>8, <2>1
<1> QED  BY <1>4, <1>5, <1>7, <1>8

(* The supertypes of a type are itself and those of the type it extends.    *)
LEMMA SuperTypesClimb ==
    ASSUME lang \in Languages, NEW t \in Types
    PROVE  /\ SuperOf(t) = NoType => SuperTypes(t) = {t}
           /\ SuperOf(t) # NoType => SuperTypes(t) = {t} \union SuperTypes(SuperOf(t))
<1>1. ASSUME SuperOf(t) = NoType PROVE SuperTypes(t) = {t}
    <2>1. PICK S : S = {t}
        OBVIOUS
    <2>2. SuperTypes(t) \subseteq S
        BY <1>1, <2>1, SuperTypesAreLeast
    <2> QED  BY <2>1, <2>2, SuperTypesAreLeast
<1>2. ASSUME SuperOf(t) # NoType PROVE SuperTypes(t) = {t} \union SuperTypes(SuperOf(t))
    <2>1. PICK u \in Types : u = SuperOf(t)
        BY <1>2, KindsExtend
    <2>2. SuperTypes(u) \subseteq SuperTypes(t)
        BY <1>2, <2>1, SuperTypesAreLeast
    <2>3. SuperTypes(t) \subseteq {t} \union SuperTypes(u)
        <3>1. \A s \in {t} \union SuperTypes(u) :
                SuperOf(s) # NoType => SuperOf(s) \in {t} \union SuperTypes(u)
            BY <2>1, SuperTypesAreLeast
        <3>2. PICK S : S = {t} \union SuperTypes(u)
            OBVIOUS
        <3> QED  BY <3>1, <3>2, SuperTypesAreLeast
    <2> QED  BY <2>1, <2>2, <2>3, SuperTypesAreLeast
<1> QED  BY <1>1, <1>2

LEMMA SuperTypesCompose ==
    ASSUME lang \in Languages, NEW t \in Types, NEW s \in SuperTypes(t)
    PROVE  SuperTypes(s) \subseteq SuperTypes(t)
<1>1. s \in Types
    BY SuperTypesAreLeast
<1> QED  BY <1>1, SuperTypesAreLeast

(* Types and their supertypes are of one kind, but for containers, whose    *)
(* supertypes may be plain nodes.                                           *)
LEMMA KindsClimb ==
    ASSUME lang \in Languages, NEW t \in Types, NEW s \in SuperTypes(t)
    PROVE  /\ s \in Types
           /\ t \in GraphTypes <=> s \in GraphTypes
           /\ t \in NodeTypes <=> s \in NodeTypes
           /\ t \in EdgeTypes <=> s \in EdgeTypes
           /\ s \in Holders => t \in Holders
<1>1. \A K \in {GraphTypes, NodeTypes, PlainNodeTypes, EdgeTypes} : t \in K => SuperTypes(t) \subseteq K
    <2> SUFFICES ASSUME NEW K \in {GraphTypes, NodeTypes, PlainNodeTypes, EdgeTypes}, t \in K
                 PROVE  SuperTypes(t) \subseteq K
        OBVIOUS
    <2>1. \A u \in K \intersect Types : SuperOf(u) # NoType => SuperOf(u) \in K
        BY KindsExtend
    <2> QED  BY <2>1, SuperTypesAreLeast
<1>2. /\ Apart(GraphTypes, NodeTypes \union EdgeTypes) /\ Apart(NodeTypes, EdgeTypes)
      /\ Apart(ContainerTypes, PlainNodeTypes)
    BY MetaAssumption
<1>3. s \in Types
    BY SuperTypesAreLeast
<1> QED  BY <1>1, <1>2, <1>3 DEF Apart, Types, Holders, NodeTypes

-----------------------------------------------------------------------------
(* The degrees. *)

(* A climb of d steps, one type after the other, that ends at top.          *)
IsClimb(extends, c, d, top) ==
    /\ c \in [0 .. d -> Types] /\ c[d] = top
    /\ \A i \in 0 .. d : i < d => extends[c[i]] = c[i + 1]

(* Each type and the one that it extends climb side by side, one step apart *)
(* until both have arrived.                                                 *)
SideBySide(extends, current, degrees, t, u) ==
    \/ extends[current[t]] = current[u] /\ degrees[t] = degrees[u]
    \/ /\ extends[current[t]] = NoType /\ current[t] = current[u]
       /\ degrees[t] = degrees[u] + 1

Climbs(extends, current, degrees) ==
    /\ current \in [Types -> Types] /\ degrees \in [Types -> 0 .. DegreeBound]
    /\ \A t \in Types : \E c : IsClimb(extends, c, degrees[t], current[t])
    /\ \A t \in Types :
        IF extends[t] = NoType THEN current[t] = t /\ degrees[t] = 0
        ELSE SideBySide(extends, current, degrees, t, extends[t])

LEMMA BoundIsNat == DegreeBound \in Nat
    BY MetaAssumption, FS_CardinalityType DEF DegreeBound

(* A climb that has arrived met no type twice.                              *)
LEMMA ClimbIsShort ==
    ASSUME NEW extends, NEW d \in Nat, NEW top, NEW c, IsClimb(extends, c, d, top),
           extends[top] = NoType
    PROVE  d < DegreeBound
<1>1. c \in [0 .. d -> Types] /\ c[d] = top /\ \A i \in 0 .. d : i < d => extends[c[i]] = c[i + 1]
    BY DEF IsClimb
<1>2. NoType \notin Types /\ IsFiniteSet(Types)
    BY MetaAssumption
<1>3. ASSUME NEW x \in 0 .. d, NEW y \in 0 .. d, x < y PROVE c[x] # c[y]
    <2> SUFFICES ASSUME c[x] = c[y] PROVE FALSE
        OBVIOUS
    <2> DEFINE T == {m \in Nat : y + m <= d => c[x + m] = c[y + m]}
    <2>1. 0 \in T
        OBVIOUS
    <2>2. ASSUME NEW m \in Nat, m \in T PROVE m + 1 \in T
        <3> SUFFICES ASSUME y + (m + 1) <= d PROVE c[x + (m + 1)] = c[y + (m + 1)]
            OBVIOUS
        <3>1. /\ x + m \in 0 .. d /\ y + m \in 0 .. d /\ x + m < d /\ y + m < d
              /\ (x + m) + 1 = x + (m + 1) /\ (y + m) + 1 = y + (m + 1)
            BY <1>3
        <3>2. c[x + m] = c[y + m]
            BY <2>2, <3>1
        <3>3. c[(x + m) + 1] = c[(y + m) + 1]
            BY <1>1, <3>1, <3>2
        <3> QED  BY <3>1, <3>3
    <2>3. \A m \in Nat : m \in T
        <3> HIDE DEF T
        <3> QED  BY <2>1, <2>2, NumberInduction
    <2>4. /\ d - y \in Nat /\ y + (d - y) = d /\ x + (d - y) \in 0 .. d /\ x + (d - y) < d
          /\ (x + (d - y)) + 1 \in 0 .. d
        BY <1>3
    <2>5. c[x + (d - y)] = c[d]
        BY <2>3, <2>4
    <2>6. extends[c[x + (d - y)]] \in Types
        BY <1>1, <2>4
    <2> QED  BY <1>1, <1>2, <2>5, <2>6
<1>4. SUFFICES ASSUME ~(d < DegreeBound) PROVE FALSE
    OBVIOUS
<1>5. IsFiniteSet(0 .. d) /\ Cardinality(0 .. d) = d + 1
    BY FS_Interval
<1>6. Cardinality(Types) < Cardinality(0 .. d)
    BY <1>4, <1>5, BoundIsNat DEF DegreeBound
<1>7. PICK x, y \in 0 .. d : x # y /\ c[x] = c[y]
    <2>1. PICK S : S = 0 .. d
        OBVIOUS
    <2>2. IsFiniteSet(S) /\ IsFiniteSet(Types) /\ Cardinality(Types) < Cardinality(S) /\ c \in [S -> Types]
        BY <1>1, <1>2, <1>5, <1>6, <2>1
    <2>3. \E x, y \in S : x # y /\ c[x] = c[y]
        BY <2>2, FS_PigeonHole
    <2> QED  BY <2>1, <2>3
<1>8. x < y \/ y < x
    BY <1>7
<1> QED  BY <1>3, <1>7, <1>8

(* A further step of all types that have not arrived.                       *)
LEMMA ClimbsOn ==
    ASSUME NEW extends \in [Types -> Types \union {NoType}], NEW current, NEW degrees,
           Climbs(extends, current, degrees), NEW onward, NEW counted,
           onward = [t \in Types |-> IF extends[current[t]] # NoType THEN extends[current[t]] ELSE current[t]],
           counted = [t \in Types |-> IF extends[current[t]] # NoType /\ degrees[t] < DegreeBound
                                      THEN degrees[t] + 1 ELSE degrees[t]]
    PROVE  Climbs(extends, onward, counted)
<1>1. /\ current \in [Types -> Types] /\ degrees \in [Types -> 0 .. DegreeBound]
      /\ DegreeBound \in Nat /\ NoType \notin Types
    BY BoundIsNat, MetaAssumption DEF Climbs
<1>2. onward \in [Types -> Types] /\ counted \in [Types -> 0 .. DegreeBound]
    <2>1. \A t \in Types : extends[current[t]] # NoType => extends[current[t]] \in Types
        BY <1>1
    <2>2. \A t \in Types : degrees[t] < DegreeBound => degrees[t] + 1 \in 0 .. DegreeBound
        BY <1>1
    <2> QED  BY <1>1, <2>1, <2>2
<1>3. ASSUME NEW t \in Types PROVE \E c : IsClimb(extends, c, counted[t], onward[t])
    <2>1. PICK d, x : d = degrees[t] /\ x = current[t] /\ d \in Nat /\ x \in Types
        BY <1>1
    <2>2. PICK c : IsClimb(extends, c, d, x)
        BY <2>1 DEF Climbs
    <2>3. c \in [0 .. d -> Types] /\ c[d] = x /\ \A i \in 0 .. d : i < d => extends[c[i]] = c[i + 1]
        BY <2>2 DEF IsClimb
    <2>4. CASE extends[x] = NoType
        <3>1. counted[t] = d /\ onward[t] = x
            BY <2>1, <2>4
        <3> QED  BY <2>2, <3>1
    <2>5. CASE extends[x] # NoType /\ d < DegreeBound
        <3>1. counted[t] = d + 1 /\ onward[t] = extends[x] /\ extends[x] \in Types
            BY <1>1, <2>1, <2>5
        <3>2. PICK e : e = [i \in 0 .. d + 1 |-> IF i = d + 1 THEN extends[x] ELSE c[i]]
            OBVIOUS
        <3>3. e \in [0 .. d + 1 -> Types] /\ e[d + 1] = extends[x]
            <4>1. \A i \in 0 .. d + 1 : i # d + 1 => i \in 0 .. d
                BY <2>1
            <4> QED  BY <2>1, <2>3, <3>1, <3>2, <4>1
        <3>4. ASSUME NEW i \in 0 .. d + 1, i < d + 1 PROVE extends[e[i]] = e[i + 1]
            <4>1. i \in 0 .. d /\ i + 1 \in 0 .. d + 1 /\ i # d + 1
                BY <2>1, <3>4
            <4>2. CASE i = d
                BY <2>3, <3>2, <4>1, <4>2
            <4>3. CASE i # d
                <5>1. i < d /\ i + 1 # d + 1
                    BY <2>1, <4>1, <4>3
                <5> QED  BY <2>3, <3>2, <4>1, <5>1
            <4> QED  BY <4>2, <4>3
        <3>5. IsClimb(extends, e, d + 1, extends[x])
            BY <3>3, <3>4 DEF IsClimb
        <3> QED  BY <3>1, <3>5
    <2>6. CASE extends[x] # NoType /\ ~(d < DegreeBound)
        <3>1. counted[t] = d /\ onward[t] = extends[x] /\ extends[x] \in Types
            BY <1>1, <2>1, <2>6
        <3>2. PICK e : e = [i \in 0 .. d |-> IF i = d THEN extends[x] ELSE c[i + 1]]
            OBVIOUS
        <3>3. e \in [0 .. d -> Types] /\ e[d] = extends[x]
            <4>1. \A i \in 0 .. d : i # d => i + 1 \in 0 .. d
                BY <2>1
            <4> QED  BY <2>1, <2>3, <3>1, <3>2, <4>1
        <3>4. ASSUME NEW i \in 0 .. d, i < d PROVE extends[e[i]] = e[i + 1]
            <4>1. i + 1 \in 0 .. d /\ i # d /\ e[i] = c[i + 1]
                BY <2>1, <3>2, <3>4
            <4>2. CASE i + 1 = d
                BY <2>3, <3>2, <4>1, <4>2
            <4>3. CASE i + 1 # d
                <5>1. i + 1 < d
                    BY <2>1, <4>1, <4>3
                <5> QED  BY <2>3, <3>2, <4>1, <4>3, <5>1
            <4> QED  BY <4>2, <4>3
        <3>5. IsClimb(extends, e, d, extends[x])
            BY <3>3, <3>4 DEF IsClimb
        <3> QED  BY <3>1, <3>5
    <2> QED  BY <2>4, <2>5, <2>6
<1>4. ASSUME NEW t \in Types, extends[t] = NoType PROVE onward[t] = t /\ counted[t] = 0
    <2>1. current[t] = t /\ degrees[t] = 0
        BY <1>4 DEF Climbs
    <2> QED  BY <1>4, <2>1
<1>5. ASSUME NEW t \in Types, extends[t] # NoType
      PROVE  SideBySide(extends, onward, counted, t, extends[t])
    <2>1. PICK u \in Types : u = extends[t]
        BY <1>5
    <2>2. SideBySide(extends, current, degrees, t, u)
        BY <1>5, <2>1 DEF Climbs
    <2>3. current[u] \in Types /\ current[u] # NoType /\ degrees[t] \in Nat /\ degrees[u] \in Nat
        BY <1>1
    <2>4. CASE extends[current[t]] = NoType
        <3>1. current[t] = current[u] /\ degrees[t] = degrees[u] + 1
            BY <2>2, <2>3, <2>4 DEF SideBySide
        <3>2. /\ onward[t] = current[t] /\ onward[u] = current[u]
              /\ counted[t] = degrees[t] /\ counted[u] = degrees[u]
            BY <2>4, <3>1
        <3> QED  BY <2>1, <2>4, <3>1, <3>2 DEF SideBySide
    <2>5. CASE extends[current[t]] # NoType
        <3>1. extends[current[t]] = current[u] /\ degrees[t] = degrees[u]
            BY <2>2, <2>5 DEF SideBySide
        <3>2. onward[t] = current[u]
            BY <2>5, <3>1
        <3>3. CASE extends[current[u]] # NoType
            <4>1. onward[u] = extends[current[u]] /\ counted[t] = counted[u]
                BY <2>5, <3>1, <3>3
            <4> QED  BY <2>1, <3>2, <4>1 DEF SideBySide
        <3>4. CASE extends[current[u]] = NoType
            <4>1. onward[u] = current[u] /\ counted[u] = degrees[u]
                BY <3>4
            <4>2. degrees[u] < DegreeBound
                <5>1. PICK c : IsClimb(extends, c, degrees[u], current[u])
                    BY DEF Climbs
                <5> QED  BY <2>3, <3>4, <5>1, ClimbIsShort
            <4>3. counted[t] = degrees[u] + 1
                BY <2>5, <3>1, <4>2
            <4> QED  BY <2>1, <3>2, <3>4, <4>1, <4>3 DEF SideBySide
        <3> QED  BY <3>3, <3>4
    <2> QED  BY <2>4, <2>5
<1> QED  BY <1>2, <1>3, <1>4, <1>5 DEF Climbs

(* When all types have arrived, the degree of a type is one more than that  *)
(* of the type it extends.                                                  *)
LEMMA DegreesFollow ==
    ASSUME NEW extends \in [Types -> Types \union {NoType}], NEW current, NEW degrees,
           Climbs(extends, current, degrees), \A t \in Types : extends[current[t]] = NoType,
           NEW t \in Types, extends[t] # NoType
    PROVE  degrees[t] = degrees[extends[t]] + 1
<1>1. extends[t] \in Types /\ current[extends[t]] \in Types /\ NoType \notin Types
    BY MetaAssumption DEF Climbs
<1>2. SideBySide(extends, current, degrees, t, extends[t])
    BY DEF Climbs
<1> QED  BY <1>1, <1>2 DEF SideBySide

-----------------------------------------------------------------------------
(* The elements. *)

(* What t and the types it extends name together.                           *)
NamedContainments(t) ==
    UNION {Named(lang.containable[s], NodeTypes) : s \in SuperTypes(t) \intersect Holders}

NamedEnds(t, constraint) ==
    UNION {Named(constraint[s], EdgeTypes) : s \in SuperTypes(t) \intersect NodeTypes}

EntryFields == {"superTypes", "containments", "incomingEdges", "outgoingEdges", "primeReference"}

(* The entry r holds what t inherits and what it declares itself.           *)
Handled(t, r) ==
    /\ DOMAIN r = EntryFields
    /\ SuperTypes(t) \ {t} \subseteq r.superTypes
    /\ r.containments = NamedContainments(t)
    /\ r.incomingEdges = NamedEnds(t, lang.incoming)
    /\ r.outgoingEdges = NamedEnds(t, lang.outgoing)
    /\ r.primeReference <=> IsPrime(t)

LEMMA HandledElement ==
    ASSUME lang \in Languages, NEW t \in Types, NoType \notin DOMAIN spec,
           SuperOf(t) # NoType => SuperOf(t) \in DOMAIN spec /\ Handled(SuperOf(t), spec[SuperOf(t)])
    PROVE  Handled(t, handleModelElement(t))
<1>1. PICK U : /\ SuperTypes(t) = {t} \union U
               /\ U = IF SuperOf(t) = NoType THEN {} ELSE SuperTypes(SuperOf(t))
    BY SuperTypesClimb
<1>2. PICK C, I, O : /\ C = UNION {Named(lang.containable[s], NodeTypes) : s \in U \intersect Holders}
                     /\ I = UNION {Named(lang.incoming[s], EdgeTypes) : s \in U \intersect NodeTypes}
                     /\ O = UNION {Named(lang.outgoing[s], EdgeTypes) : s \in U \intersect NodeTypes}
    OBVIOUS
<1>3. PICK p : p = resolveParentProperties(t)
    OBVIOUS
<1>4. /\ DOMAIN p = EntryFields /\ U \subseteq p.superTypes
      /\ p.containments = C /\ p.incomingEdges = I /\ p.outgoingEdges = O
      /\ p.primeReference <=> U \intersect lang.prime # {}
    <2>1. CASE SuperOf(t) = NoType
        <3>1. p = [superTypes |-> getBaseTypes(t), containments |-> {}, incomingEdges |-> {},
                   outgoingEdges |-> {}, primeReference |-> FALSE]
            BY <1>3, <2>1 DEF resolveParentProperties
        <3>2. U = {} /\ C = {} /\ I = {} /\ O = {}
            BY <1>1, <1>2, <2>1
        <3>3. DOMAIN p = EntryFields
            BY <3>1 DEF EntryFields
        <3>4. /\ p.containments = {} /\ p.incomingEdges = {} /\ p.outgoingEdges = {}
              /\ p.primeReference = FALSE
            BY <3>1
        <3> QED  BY <3>2, <3>3, <3>4
    <2>2. CASE SuperOf(t) # NoType
        <3>1. PICK u, r : u = SuperOf(t) /\ r = spec[u]
            OBVIOUS
        <3>2. p = [r EXCEPT !.superTypes = @ \union {u}]
            BY <1>3, <2>2, <3>1 DEF resolveParentProperties
        <3>3. Handled(u, r) /\ U = SuperTypes(u)
            BY <1>1, <2>2, <3>1
        <3>4. DOMAIN r = EntryFields
            BY <3>3 DEF Handled
        <3>5. /\ DOMAIN p = EntryFields /\ p.superTypes = r.superTypes \union {u}
              /\ p.containments = r.containments /\ p.incomingEdges = r.incomingEdges
              /\ p.outgoingEdges = r.outgoingEdges /\ p.primeReference = r.primeReference
            BY <3>2, <3>4 DEF EntryFields
        <3>6. r.containments = C /\ r.incomingEdges = I /\ r.outgoingEdges = O
            BY <1>2, <3>3 DEF Handled, NamedContainments, NamedEnds
        <3>7. U \subseteq r.superTypes \union {u}
            BY <3>3 DEF Handled
        <3>8. r.primeReference <=> U \intersect lang.prime # {}
            BY <3>3 DEF Handled, IsPrime
        <3>9. p.primeReference <=> U \intersect lang.prime # {}
            BY <3>5, <3>8
        <3> QED  BY <3>5, <3>6, <3>7, <3>9
    <2> QED  BY <2>1, <2>2
<1>5. PICK C2, I2, O2 :
        /\ C2 = IF t \in Holders THEN C \union Named(lang.containable[t], NodeTypes) ELSE C
        /\ I2 = IF t \in NodeTypes THEN I \union Named(lang.incoming[t], EdgeTypes) ELSE I
        /\ O2 = IF t \in NodeTypes THEN O \union Named(lang.outgoing[t], EdgeTypes) ELSE O
    OBVIOUS
<1>6. C2 = NamedContainments(t) /\ I2 = NamedEnds(t, lang.incoming) /\ O2 = NamedEnds(t, lang.outgoing)
    BY <1>1, <1>2, <1>5 DEF NamedContainments, NamedEnds
<1>7. PICK r : r = handleModelElement(t)
    OBVIOUS
<1>8. r = [p EXCEPT !.containments = C2, !.incomingEdges = I2, !.outgoingEdges = O2,
                    !.primeReference = p.primeReference \/ t \in lang.prime]
    BY <1>3, <1>4, <1>5, <1>7 DEF handleModelElement, mergeElementConstraints, EntryFields
<1>9. /\ DOMAIN r = EntryFields /\ r.superTypes = p.superTypes
      /\ r.containments = C2 /\ r.incomingEdges = I2 /\ r.outgoingEdges = O2
    BY <1>4, <1>8 DEF EntryFields
<1>10. r.primeReference <=> IsPrime(t)
    <2>1. r.primeReference = (p.primeReference \/ t \in lang.prime)
        BY <1>4, <1>8 DEF EntryFields
    <2>2. IsPrime(t) <=> U \intersect lang.prime # {} \/ t \in lang.prime
        BY <1>1 DEF IsPrime
    <2>3. p.primeReference <=> U \intersect lang.prime # {}
        BY <1>4
    <2> HIDE DEF IsPrime
    <2> QED  BY <2>1, <2>2, <2>3
<1> QED  BY <1>1, <1>4, <1>6, <1>7, <1>9, <1>10 DEF Handled

-----------------------------------------------------------------------------
(* Abstract types. *)

(* A type that is above v but not v itself is extended by one above v.      *)
LEMMA SuperTypesEnter ==
    ASSUME lang \in Languages, NEW v \in Types, NEW t \in SuperTypes(v), t # v
    PROVE  \E u \in SubTypes(t) : u \in SuperTypes(v)
<1> SUFFICES ASSUME \A u \in SuperTypes(v) : u \notin SubTypes(t) PROVE FALSE
    OBVIOUS
<1>1. PICK S : S = SuperTypes(v) \ {t}
    OBVIOUS
<1>2. v \in S /\ \A s \in S \intersect Types : SuperOf(s) # NoType => SuperOf(s) \in S
    BY <1>1, SuperTypesAreLeast DEF SubTypes
<1>3. SuperTypes(v) \subseteq S
    BY <1>2, SuperTypesAreLeast
<1> QED  BY <1>1, <1>3

DegreesAreSet ==
    /\ degree \in [Types -> 0 .. DegreeBound]
    /\ \A t \in Types : SuperOf(t) # NoType => degree[t] = degree[SuperOf(t)] + 1

(* A concrete type stands where it, or a type that it extends, was named.   *)
LEMMA ReplacedAreInstances ==
    ASSUME lang \in Languages, DegreesAreSet, NEW names \in SUBSET Types
    PROVE  recursivelyReplace(names) \intersect Concrete = {u \in Concrete : IsOneOf(u, names)}
<1> DEFINE Own(t) == IF SubTypes(t) # {} /\ t \in lang.abstract THEN {} ELSE {t}
           Recurs(f) == f = [t \in Types |-> Own(t) \union UNION {f[u] : u \in SubTypes(t)}]
           Below(t) == {v \in Types : t \in SuperTypes(v)}
<1>1. PICK w : w = [t \in Types |-> UNION {Own(v) : v \in Below(t)}]
    OBVIOUS
<1>2. ASSUME NEW t \in Types PROVE w[t] = Own(t) \union UNION {w[u] : u \in SubTypes(t)}
    <2>1. Below(t) = {t} \union UNION {Below(u) : u \in SubTypes(t)}
        <3>1. t \in Below(t)
            BY SuperTypesAreLeast
        <3>2. ASSUME NEW u \in SubTypes(t), NEW v \in Below(u) PROVE v \in Below(t)
            <4>1. u \in SuperTypes(v) /\ SuperOf(u) = t /\ t # NoType
                BY <3>2, MetaAssumption DEF SubTypes
            <4> QED  BY <4>1, SuperTypesAreLeast
        <3>3. ASSUME NEW v \in Below(t), v # t PROVE \E u \in SubTypes(t) : v \in Below(u)
            BY <3>3, SuperTypesEnter
        <3> QED  BY <3>1, <3>2, <3>3
    <2>2. SubTypes(t) \subseteq Types
        BY DEF SubTypes
    <2>3. w[t] = UNION {Own(v) : v \in Below(t)}
        BY <1>1
    <2>4. \A u \in SubTypes(t) : w[u] = UNION {Own(v) : v \in Below(u)}
        BY <1>1, <2>2
    <2> HIDE DEF Own, Below
    <2>5. \A x : x \in w[t] <=> \E v \in Below(t) : x \in Own(v)
        BY <2>3
    <2>6. \A u \in SubTypes(t) : \A x : x \in w[u] <=> \E v \in Below(u) : x \in Own(v)
        BY <2>4
    <2>7. \A v : v \in Below(t) <=> v = t \/ \E u \in SubTypes(t) : v \in Below(u)
        BY <2>1
    <2>8. ASSUME NEW x PROVE x \in w[t] <=> x \in Own(t) \/ \E u \in SubTypes(t) : x \in w[u]
        BY <2>5, <2>6, <2>7
    <2> QED  BY <2>8
<1>3. Recurs(w)
    <2> HIDE DEF Own
    <2>1. w = [t \in Types |-> w[t]]
        BY <1>1
    <2> QED  BY <1>2, <2>1
<1>4. ASSUME NEW f, Recurs(f) PROVE f = w
    <2> HIDE DEF Own
    <2>1. \A t \in Types : f[t] = Own(t) \union UNION {f[u] : u \in SubTypes(t)}
        BY <1>4
    <2>2. DOMAIN f = Types /\ f = [t \in Types |-> f[t]]
        BY <1>4
    <2>3. SUFFICES ASSUME NEW t0 \in Types, f[t0] # w[t0] PROVE FALSE
        BY <1>1, <2>2
    <2> DEFINE N == {k \in Nat : \E t \in Types : f[t] # w[t] /\ degree[t] + k = DegreeBound}
    <2>4. \A t \in Types : degree[t] \in Nat /\ degree[t] <= DegreeBound
        BY BoundIsNat DEF DegreesAreSet
    <2>5. DegreeBound - degree[t0] \in N
        BY <2>3, <2>4, BoundIsNat
    <2>6. PICK k \in N : \A j \in N : k <= j
        <3>1. N \in SUBSET Nat /\ N # {}
            BY <2>5
        <3> HIDE DEF N
        <3> QED  BY <3>1, LeastNumber
    <2>7. PICK t \in Types : f[t] # w[t] /\ degree[t] + k = DegreeBound
        BY <2>6
    <2>8. ASSUME NEW u \in SubTypes(t) PROVE f[u] = w[u]
        <3>1. u \in Types /\ SuperOf(u) = t /\ t # NoType
            BY MetaAssumption DEF SubTypes
        <3>2. degree[u] = degree[t] + 1
            BY <3>1 DEF DegreesAreSet
        <3>3. k \in Nat /\ k - 1 \in Nat /\ degree[u] + (k - 1) = DegreeBound /\ ~(k <= k - 1)
            BY <2>4, <2>6, <2>7, <3>1, <3>2, BoundIsNat
        <3> QED  BY <2>6, <3>1, <3>3
    <2>9. f[t] = Own(t) \union UNION {w[u] : u \in SubTypes(t)}
        BY <2>1, <2>8
    <2> QED  BY <1>2, <2>7, <2>9
<1>5. recursivelyReplace(names) = UNION {w[t] : t \in names}
    <2>1. PICK g : g = CHOOSE f : Recurs(f)
        OBVIOUS
    <2>2. Recurs(g)
        <3> HIDE DEF Recurs
        <3> QED  BY <1>3, <2>1
    <2>3. g = w
        <3> HIDE DEF Recurs
        <3> QED  BY <1>4, <2>2
    <2>4. recursivelyReplace(names) = UNION {g[t] : t \in names}
        BY <2>1 DEF recursivelyReplace
    <2> QED  BY <2>3, <2>4
<1>6. ASSUME NEW u \in Concrete PROVE u \in recursivelyReplace(names) <=> IsOneOf(u, names)
    <2>1. u \in Types /\ u \notin lang.abstract
        BY DEF Concrete
    <2>2. \A v \in Types : u \in Own(v) <=> u = v
        BY <2>1
    <2> HIDE DEF Own
    <2>3. \A t \in names : u \in w[t] <=> t \in SuperTypes(u)
        BY <1>1, <2>1, <2>2
    <2> QED  BY <1>5, <2>3 DEF IsOneOf
<1> QED  BY <1>6

-----------------------------------------------------------------------------
(* What is generated. *)

(* The specification s names, for each type of the language that is not     *)
(* abstract, what the declarations say.                                     *)
Generates(s) ==
    /\ DOMAIN s = Concrete
    /\ \A t \in Concrete :
        /\ SuperTypes(t) \ {t} \subseteq s[t].superTypes
        /\ s[t].primeReference <=> IsPrime(t)
        /\ t \in Holders => s[t].containments \intersect Concrete = DeclaredContainments(t)
        /\ t \in NodeTypes =>
            /\ s[t].incomingEdges \intersect Concrete = DeclaredEnds(t, lang.incoming)
            /\ s[t].outgoingEdges \intersect Concrete = DeclaredEnds(t, lang.outgoing)

LEMMA NamedAreTypes ==
    ASSUME lang \in Languages, NEW t \in Types
    PROVE  /\ NamedContainments(t) \in SUBSET NodeTypes
           /\ NamedEnds(t, lang.incoming) \in SUBSET EdgeTypes
           /\ NamedEnds(t, lang.outgoing) \in SUBSET EdgeTypes
<1>1. /\ lang.containable \in [Holders -> SUBSET (NodeTypes \union {Any})]
      /\ lang.incoming \in [NodeTypes -> SUBSET (EdgeTypes \union {Any})]
      /\ lang.outgoing \in [NodeTypes -> SUBSET (EdgeTypes \union {Any})]
    BY MetaAssumption DEF IsLanguage
<1>2. \A all : \A names \in SUBSET (all \union {Any}) : Named(names, all) \subseteq all
    BY DEF Named
<1>3. \A s \in SuperTypes(t) \intersect Holders : Named(lang.containable[s], NodeTypes) \subseteq NodeTypes
    BY <1>1, <1>2
<1>4. \A s \in SuperTypes(t) \intersect NodeTypes :
        /\ Named(lang.incoming[s], EdgeTypes) \subseteq EdgeTypes
        /\ Named(lang.outgoing[s], EdgeTypes) \subseteq EdgeTypes
    BY <1>1, <1>2
<1> QED  BY <1>3, <1>4 DEF NamedContainments, NamedEnds

LEMMA InstancesAreDeclared ==
    ASSUME lang \in Languages, NEW t \in Types
    PROVE  /\ {u \in Concrete : IsOneOf(u, NamedContainments(t))} = DeclaredContainments(t)
           /\ t \in NodeTypes => \A constraint \in {lang.incoming, lang.outgoing} :
                {u \in Concrete : IsOneOf(u, NamedEnds(t, constraint))} = DeclaredEnds(t, constraint)
<1>1. \A u \in Concrete : u \in Types
    BY DEF Concrete
<1>2. ASSUME NEW u \in Concrete, IsOneOf(u, NamedContainments(t)) PROVE u \in NodeTypes
    BY <1>1, <1>2, NamedAreTypes, KindsClimb DEF IsOneOf
<1>3. ASSUME NEW constraint \in {lang.incoming, lang.outgoing},
             NEW u \in Concrete, IsOneOf(u, NamedEnds(t, constraint))
      PROVE  u \in EdgeTypes
    BY <1>1, <1>3, NamedAreTypes, KindsClimb DEF IsOneOf
<1>4. DeclaredContainments(t) = {u \in NodeTypes \intersect Concrete : IsOneOf(u, NamedContainments(t))}
    BY DEF DeclaredContainments, NamedContainments
<1>5. ASSUME t \in NodeTypes, NEW constraint \in {lang.incoming, lang.outgoing}
      PROVE  DeclaredEnds(t, constraint) = {u \in EdgeTypes \intersect Concrete :
                                                IsOneOf(u, NamedEnds(t, constraint))}
    <2>1. SuperTypes(t) \intersect NodeTypes = SuperTypes(t)
        BY <1>5, KindsClimb
    <2>2. NamedEnds(t, constraint) = UNION {Named(constraint[s], EdgeTypes) : s \in SuperTypes(t)}
        BY <2>1 DEF NamedEnds
    <2> QED  BY <2>2 DEF DeclaredEnds
<1>6. {u \in Concrete : IsOneOf(u, NamedContainments(t))} = DeclaredContainments(t)
    BY <1>2, <1>4
<1>7. ASSUME t \in NodeTypes, NEW constraint \in {lang.incoming, lang.outgoing}
      PROVE  {u \in Concrete : IsOneOf(u, NamedEnds(t, constraint))} = DeclaredEnds(t, constraint)
    BY <1>3, <1>5, <1>7
<1> QED  BY <1>6, <1>7

(* Leaving out the abstract types in favour of what extends them.           *)
LEMMA IntroductionGenerates ==
    ASSUME lang \in Languages, DegreesAreSet, DOMAIN spec = Types,
           \A t \in Types : Handled(t, spec[t]),
           NEW s, s = [t \in Types \ lang.abstract |->
                         [spec[t] EXCEPT !.containments = recursivelyReplace(@),
                                         !.incomingEdges = recursivelyReplace(@),
                                         !.outgoingEdges = recursivelyReplace(@)]]
    PROVE  Generates(s)
<1>1. DOMAIN s = Concrete
    BY DEF Concrete
<1>2. ASSUME NEW t \in Concrete
      PROVE  /\ SuperTypes(t) \ {t} \subseteq s[t].superTypes
             /\ s[t].primeReference <=> IsPrime(t)
             /\ s[t].containments \intersect Concrete = DeclaredContainments(t)
             /\ t \in NodeTypes =>
                 /\ s[t].incomingEdges \intersect Concrete = DeclaredEnds(t, lang.incoming)
                 /\ s[t].outgoingEdges \intersect Concrete = DeclaredEnds(t, lang.outgoing)
    <2>1. t \in Types /\ t \in Types \ lang.abstract
        BY DEF Concrete
    <2>2. PICK r, q : r = spec[t] /\ q = s[t]
        OBVIOUS
    <2>3. Handled(t, r)
        BY <2>1, <2>2
    <2>4. q = [r EXCEPT !.containments = recursivelyReplace(@),
                        !.incomingEdges = recursivelyReplace(@),
                        !.outgoingEdges = recursivelyReplace(@)]
        BY <2>1, <2>2
    <2>5. DOMAIN r = EntryFields
        BY <2>3 DEF Handled
    <2>6. /\ q.superTypes = r.superTypes /\ q.primeReference = r.primeReference
          /\ q.containments = recursivelyReplace(r.containments)
          /\ q.incomingEdges = recursivelyReplace(r.incomingEdges)
          /\ q.outgoingEdges = recursivelyReplace(r.outgoingEdges)
        BY <2>4, <2>5 DEF EntryFields
    <2>7. SuperTypes(t) \ {t} \subseteq q.superTypes
        BY <2>3, <2>6 DEF Handled
    <2>8. q.primeReference <=> IsPrime(t)
        <3>1. r.primeReference <=> IsPrime(t)
            BY <2>3 DEF Handled
        <3> QED  BY <2>6, <3>1
    <2>9. /\ r.containments = NamedContainments(t)
          /\ r.incomingEdges = NamedEnds(t, lang.incoming)
          /\ r.outgoingEdges = NamedEnds(t, lang.outgoing)
        BY <2>3 DEF Handled
    <2>10. /\ r.containments \in SUBSET Types /\ r.incomingEdges \in SUBSET Types
           /\ r.outgoingEdges \in SUBSET Types
        BY <2>1, <2>9, NamedAreTypes DEF Types
    <2>11. \A names \in SUBSET Types :
                recursivelyReplace(names) \intersect Concrete = {u \in Concrete : IsOneOf(u, names)}
        BY ReplacedAreInstances
    <2>12. q.containments \intersect Concrete = DeclaredContainments(t)
        BY <2>1, <2>6, <2>9, <2>10, <2>11, InstancesAreDeclared
    <2>13. t \in NodeTypes =>
                 /\ q.incomingEdges \intersect Concrete = DeclaredEnds(t, lang.incoming)
                 /\ q.outgoingEdges \intersect Concrete = DeclaredEnds(t, lang.outgoing)
        BY <2>1, <2>6, <2>9, <2>10, <2>11, InstancesAreDeclared
    <2> QED  BY <2>2, <2>7, <2>8, <2>12, <2>13
<1> QED  BY <1>1, <1>2 DEF Generates

-----------------------------------------------------------------------------
(* What is cached. *)

EndsOf(nodes) ==
    UNION {DeclaredEnds(n, lang.incoming) \union DeclaredEnds(n, lang.outgoing) : n \in nodes}

LEMMA DeclaredKinds ==
    ASSUME NEW t, NEW constraint
    PROVE  /\ DeclaredContainments(t) \subseteq NodeTypes \intersect Concrete
           /\ DeclaredEnds(t, constraint) \subseteq EdgeTypes \intersect Concrete
    BY DEF DeclaredContainments, DeclaredEnds

LEMMA ContainmentsAreDeclared ==
    ASSUME lang \in Languages, Generates(spec), NEW h \in Holders \intersect Concrete
    PROVE  /\ getContainmentsOf(h) = DeclaredContainments(h) \union EndsOf(DeclaredContainments(h))
           /\ getContainmentsOf(h) \intersect Holders = DeclaredContainments(h) \intersect Holders
           /\ getContainmentsOf(h) \intersect NodeTypes = DeclaredContainments(h)
<1>1. getNodeTypes = NodeTypes \intersect Concrete /\ getEdgeTypes = EdgeTypes \intersect Concrete
    BY DEF Generates, getNodeTypes, getEdgeTypes
<1>2. spec[h].containments \intersect getNodeTypes = DeclaredContainments(h)
    <2>1. spec[h].containments \intersect Concrete = DeclaredContainments(h)
        BY DEF Generates
    <2> QED  BY <1>1, <2>1, DeclaredKinds
<1>3. ASSUME NEW n \in DeclaredContainments(h)
      PROVE  (spec[n].outgoingEdges \union spec[n].incomingEdges) \intersect getEdgeTypes
                = DeclaredEnds(n, lang.incoming) \union DeclaredEnds(n, lang.outgoing)
    <2>1. n \in NodeTypes \intersect Concrete
        BY DeclaredKinds
    <2>2. /\ spec[n].incomingEdges \intersect Concrete = DeclaredEnds(n, lang.incoming)
          /\ spec[n].outgoingEdges \intersect Concrete = DeclaredEnds(n, lang.outgoing)
        BY <2>1 DEF Generates
    <2> QED  BY <1>1, <2>2, DeclaredKinds
<1>4. (UNION {spec[n].outgoingEdges \union spec[n].incomingEdges : n \in DeclaredContainments(h)})
        \intersect getEdgeTypes = EndsOf(DeclaredContainments(h))
    BY <1>3 DEF EndsOf
<1>5. getContainmentsOf(h) = DeclaredContainments(h) \union EndsOf(DeclaredContainments(h))
    BY <1>2, <1>4 DEF getContainmentsOf
<1>6. EndsOf(DeclaredContainments(h)) \subseteq EdgeTypes
    BY DeclaredKinds DEF EndsOf
<1>7. EdgeTypes \intersect Holders = {} /\ EdgeTypes \intersect NodeTypes = {}
    BY MetaAssumption DEF Apart, Holders, NodeTypes
<1> QED  BY <1>5, <1>6, <1>7, DeclaredKinds

(* The holders that may be nested in h, at some depth.                      *)
HoldersInside(h) ==
    Reached(h, [c \in Holders |-> DeclaredContainments(c) \intersect Holders])

LEMMA HoldersInsideAreLeast ==
    ASSUME NEW h \in Holders
    PROVE  /\ h \in HoldersInside(h) /\ HoldersInside(h) \subseteq Holders
           /\ \A x \in HoldersInside(h) : DeclaredContainments(x) \intersect Holders \subseteq HoldersInside(h)
           /\ \A S : h \in S /\ (\A x \in S \intersect Holders :
                                    DeclaredContainments(x) \intersect Holders \subseteq S)
                        => HoldersInside(h) \subseteq S
<1>1. PICK leads : leads = [c \in Holders |-> DeclaredContainments(c) \intersect Holders]
    OBVIOUS
<1>2. leads \in [Holders -> SUBSET Holders] /\ Holders \in SUBSET Types
    BY <1>1 DEF Holders, Types, NodeTypes
<1>3. HoldersInside(h) = Reached(h, leads)
    BY <1>1 DEF HoldersInside
<1>4. /\ h \in Reached(h, leads) /\ Reached(h, leads) \subseteq Holders
      /\ \A x \in Reached(h, leads) : leads[x] \subseteq Reached(h, leads)
      /\ \A S : h \in S /\ (\A x \in S \intersect Holders : leads[x] \subseteq S)
                    => Reached(h, leads) \subseteq S
    BY <1>2, ReachedIsLeast, Zenon
<1>5. \A c \in Holders : leads[c] = DeclaredContainments(c) \intersect Holders
    BY <1>1
<1>6. \A x \in HoldersInside(h) : DeclaredContainments(x) \intersect Holders \subseteq HoldersInside(h)
    BY <1>3, <1>4, <1>5
<1>7. ASSUME NEW S, h \in S, \A x \in S \intersect Holders : DeclaredContainments(x) \intersect Holders \subseteq S
      PROVE  HoldersInside(h) \subseteq S
    <2>1. \A x \in S \intersect Holders : leads[x] \subseteq S
        BY <1>5, <1>7
    <2> QED  BY <1>3, <1>4, <1>7, <2>1
<1> QED  BY <1>3, <1>4, <1>6, <1>7

(* What may be created in the holders of S and on their nodes.              *)
CreatableIn(S) ==
    LET nodes == UNION {DeclaredContainments(c) : c \in S}
    IN  nodes \union EndsOf(nodes)

LEMMA InsideIsCreatable ==
    ASSUME NEW h PROVE DeclaredInside(h) = CreatableIn(HoldersInside(h))
    BY DEF DeclaredInside, CreatableIn, HoldersInside, EndsOf

LEMMA CreatableByHolder ==
    ASSUME NEW S PROVE CreatableIn(S) = UNION {DeclaredContainments(c) \union EndsOf(DeclaredContainments(c)) : c \in S}
<1> QED  BY DEF CreatableIn, EndsOf

(* The recursion that stops at what its caller has seen still comes to all  *)
(* holders, as what was seen is visited by the caller's other calls.        *)
LEMMA DeepIsDeclared ==
    ASSUME lang \in Languages, Generates(spec), NEW h \in Holders \intersect Concrete, ~Overflows(h)
    PROVE  getDeepContainmentsOf(h) = DeclaredInside(h)
<1> DEFINE H == Holders \intersect Concrete
           Q == H \X (H \union {NoType})
           Seen(caller) == IF caller = NoType THEN {} ELSE getContainmentsOf(caller)
           Inner(call) ==
             {<<c, call[1]>> : c \in (getContainmentsOf(call[1]) \intersect Holders) \ Seen(call[2])}
           Recurs(f) == f = [depth \in Nat |-> IF depth = 0 THEN {<<h, NoType>>}
                                               ELSE UNION {Inner(call) : call \in f[depth - 1]}]
<1>1. /\ NoType \notin H
      /\ \A x \in H : getContainmentsOf(x) \intersect Holders = DeclaredContainments(x) \intersect Holders
      /\ \A x \in H : getContainmentsOf(x) \intersect Holders \subseteq H
    BY ContainmentsAreDeclared, DeclaredKinds, MetaAssumption DEF Concrete
<1>2. \A call \in Q : Inner(call) \subseteq Q
    BY <1>1
<1>3. \E f \in [Nat -> SUBSET Q] : Recurs(f)
    <2> HIDE DEF Q, Inner
    <2>1. PICK F : F = [r \in SUBSET Q |-> UNION {Inner(call) : call \in r}]
        OBVIOUS
    <2>2. F \in [SUBSET Q -> SUBSET Q] /\ {<<h, NoType>>} \in SUBSET Q
        <3>1. <<h, NoType>> \in Q
            BY DEF Q
        <3> QED  BY <1>2, <2>1, <3>1
    <2>3. PICK f \in [Nat -> SUBSET Q] : Iterates(f, {<<h, NoType>>}, F)
        BY <2>2, IterationExists, Zenon
    <2>4. ASSUME NEW n \in Nat, n # 0 PROVE f[n] = UNION {Inner(call) : call \in f[n - 1]}
        <3>1. n - 1 \in Nat /\ (n - 1) + 1 = n
            BY <2>4
        <3>2. f[n] = F[f[n - 1]] /\ f[n - 1] \in SUBSET Q
            BY <2>3, <3>1 DEF Iterates
        <3> QED  BY <2>1, <3>2
    <2>5. Recurs(f)
        BY <2>3, <2>4 DEF Iterates
    <2> HIDE DEF Recurs
    <2> QED  BY <2>3, <2>5
<1>4. PICK f : Recurs(f) /\ DeepCalls(h) = f
    <2>1. PICK g : g = CHOOSE f : Recurs(f)
        OBVIOUS
    <2>2. Recurs(g)
        <3> HIDE DEF Recurs
        <3> QED  BY <1>3, <2>1
    <2>3. DeepCalls(h) = g
        BY <2>1 DEF DeepCalls
    <2> HIDE DEF Recurs
    <2> QED  BY <2>2, <2>3
<1>5. f[0] = {<<h, NoType>>} /\ \A n \in Nat : f[n + 1] = UNION {Inner(call) : call \in f[n]}
    <2> HIDE DEF Inner
    <2> QED  BY <1>4
<1>6. \A n \in Nat : f[n] \subseteq Q
    <2> DEFINE T == {n \in Nat : f[n] \subseteq Q}
    <2> HIDE DEF Q, Inner
    <2>1. 0 \in T
        BY <1>5 DEF Q
    <2>2. ASSUME NEW n \in Nat, n \in T PROVE n + 1 \in T
        BY <1>2, <1>5, <2>2
    <2>3. \A n \in Nat : n \in T
        <3> HIDE DEF T
        <3> QED  BY <2>1, <2>2, NumberInduction
    <2> QED  BY <2>3
<1>7. StackBound \in Nat /\ f[StackBound] = {} /\ StackBound # 0
    <2>1. IsFiniteSet(Holders)
        <3>1. IsFiniteSet(Types) /\ Holders \in SUBSET Types
            BY MetaAssumption DEF Holders, Types, NodeTypes
        <3> QED  BY <3>1, FS_Subset
    <2>2. PICK k \in Nat : k = Cardinality(Holders)
        BY <2>1, FS_CardinalityType
    <2>3. StackBound \in Nat
        BY <2>2 DEF StackBound
    <2>4. f[StackBound] = {}
        BY <1>4 DEF Overflows
    <2> QED  BY <1>5, <2>3, <2>4
<1> DEFINE Met == {x \in H : \E d \in 0 .. StackBound - 1, p \in H \union {NoType} : <<x, p>> \in f[d]}
<1>9. ASSUME NEW n \in Nat, n < StackBound,
             NEW x \in H, NEW p \in H \union {NoType}, <<x, p>> \in f[n],
             NEW y \in DeclaredContainments(x) \intersect Holders, y \notin Seen(p)
      PROVE  y \in Met
    <2>1. y \in H /\ y \in getContainmentsOf(x) \intersect Holders
        BY <1>1
    <2>2. <<y, x>> \in Inner(<<x, p>>)
        BY <1>9, <2>1
    <2>3. <<y, x>> \in f[n + 1]
        <3> HIDE DEF Inner
        <3> QED  BY <1>5, <1>9, <2>2
    <2>4. n + 1 \in 0 .. StackBound - 1
        BY <1>7, <1>9, <2>3
    <2> QED  BY <2>1, <2>3, <2>4
<1>10. ASSUME NEW n \in Nat, NEW x, NEW p, <<x, p>> \in f[n + 1]
       PROVE  /\ x \in H /\ p \in H
              /\ \E q \in H \union {NoType} : <<p, q>> \in f[n]
              /\ x \in DeclaredContainments(p) \intersect Holders
    <2>1. PICK call \in f[n] : <<x, p>> \in Inner(call)
        <3> HIDE DEF Inner
        <3> QED  BY <1>5, <1>10
    <2>2. call \in Q
        BY <1>6, <2>1
    <2>3. PICK a \in H, q \in H \union {NoType} : call = <<a, q>>
        BY <2>2
    <2>4. p = a /\ x \in getContainmentsOf(a) \intersect Holders
        BY <2>1, <2>3
    <2> QED  BY <1>1, <2>1, <2>3, <2>4
<1> DEFINE Visited(n) == \A x \in H, p \in H \union {NoType} :
              <<x, p>> \in f[n] => DeclaredContainments(x) \intersect Holders \subseteq Met
<1>11. \A n \in Nat : n < StackBound => Visited(n)
    <2> DEFINE T == {n \in Nat : n < StackBound => Visited(n)}
    <2>1. 0 \in T
        <3> SUFFICES ASSUME NEW x \in H, NEW p \in H \union {NoType}, <<x, p>> \in f[0],
                            NEW y \in DeclaredContainments(x) \intersect Holders
                     PROVE  y \in Met
            OBVIOUS
        <3>1. Seen(p) = {}
            BY <1>5
        <3>2. 0 < StackBound
            BY <1>7
        <3> HIDE DEF Met, Seen
        <3> QED  BY <1>9, <3>1, <3>2
    <2>2. ASSUME NEW n \in Nat, n \in T PROVE n + 1 \in T
        <3> SUFFICES ASSUME n + 1 < StackBound,
                            NEW x \in H, NEW p \in H \union {NoType}, <<x, p>> \in f[n + 1],
                            NEW y \in DeclaredContainments(x) \intersect Holders
                     PROVE  y \in Met
            OBVIOUS
        <3>1. PICK q \in H \union {NoType} : p \in H /\ <<p, q>> \in f[n]
            BY <1>10
        <3>2. CASE y \notin Seen(p)
            <4> HIDE DEF Met, Seen
            <4> QED  BY <1>9, <3>2
        <3>3. CASE y \in Seen(p)
            <4>1. y \in DeclaredContainments(p) \intersect Holders
                BY <1>1, <3>1, <3>3
            <4>2. n < StackBound
                BY <1>7
            <4>3. Visited(n)
                BY <2>2, <4>2
            <4> HIDE DEF Met
            <4> QED  BY <3>1, <4>1, <4>3
        <3> QED  BY <3>2, <3>3
    <2>3. \A n \in Nat : n \in T
        <3> HIDE DEF T
        <3> QED  BY <2>1, <2>2, NumberInduction
    <2> HIDE DEF Visited
    <2> QED  BY <2>3
<1>12. HoldersInside(h) \subseteq Met
    <2>1. h \in Met
        <3>1. <<h, NoType>> \in f[0] /\ 0 \in 0 .. StackBound - 1
            BY <1>5, <1>7
        <3> QED  BY <3>1
    <2>2. ASSUME NEW x \in Met PROVE DeclaredContainments(x) \intersect Holders \subseteq Met
        <3>1. PICK d \in 0 .. StackBound - 1, p \in H \union {NoType} : x \in H /\ <<x, p>> \in f[d]
            OBVIOUS
        <3>2. d \in Nat /\ d < StackBound
            BY <1>7
        <3> HIDE DEF Met
        <3> QED  BY <1>11, <3>1, <3>2
    <2> HIDE DEF Met
    <2> QED  BY <2>1, <2>2, HoldersInsideAreLeast
<1>13. \A n \in Nat : \A x \in H, p \in H \union {NoType} : <<x, p>> \in f[n] => x \in HoldersInside(h)
    <2> DEFINE T == {n \in Nat : \A x \in H, p \in H \union {NoType} : <<x, p>> \in f[n] => x \in HoldersInside(h)}
    <2>1. 0 \in T
        BY <1>5, HoldersInsideAreLeast
    <2>2. ASSUME NEW n \in Nat, n \in T PROVE n + 1 \in T
        <3> SUFFICES ASSUME NEW x \in H, NEW p \in H \union {NoType}, <<x, p>> \in f[n + 1]
                     PROVE  x \in HoldersInside(h)
            OBVIOUS
        <3>1. p \in H /\ (\E q \in H \union {NoType} : <<p, q>> \in f[n])
              /\ x \in DeclaredContainments(p) \intersect Holders
            BY <1>10
        <3>2. p \in HoldersInside(h)
            BY <2>2, <3>1
        <3> QED  BY <3>1, <3>2, HoldersInsideAreLeast
    <2>3. \A n \in Nat : n \in T
        <3> HIDE DEF T
        <3> QED  BY <2>1, <2>2, NumberInduction
    <2> QED  BY <2>3
<1>14. Met = HoldersInside(h)
    <2>1. 0 .. StackBound - 1 \subseteq Nat
        BY <1>7
    <2> QED  BY <1>12, <1>13, <2>1
<1>15. getDeepContainmentsOf(h) = UNION {getContainmentsOf(x) : x \in Met}
    <2>1. getDeepContainmentsOf(h)
            = UNION {getContainmentsOf(call[1]) : call \in UNION {f[d] : d \in 0 .. StackBound - 1}}
        BY <1>4 DEF getDeepContainmentsOf
    <2>2. \A d \in 0 .. StackBound - 1 : f[d] \subseteq Q
        BY <1>6, <1>7
    <2>3. ASSUME NEW z PROVE (\E d \in 0 .. StackBound - 1 : \E call \in f[d] : z \in getContainmentsOf(call[1]))
                                <=> \E x \in Met : z \in getContainmentsOf(x)
        <3>1. ASSUME NEW d \in 0 .. StackBound - 1, NEW call \in f[d], z \in getContainmentsOf(call[1])
              PROVE  \E x \in Met : z \in getContainmentsOf(x)
            <4>1. PICK a \in H, q \in H \union {NoType} : call = <<a, q>>
                BY <2>2
            <4>2. a \in Met /\ call[1] = a
                BY <4>1
            <4> HIDE DEF Met
            <4> QED  BY <3>1, <4>2
        <3>2. ASSUME NEW x \in Met, z \in getContainmentsOf(x)
              PROVE  \E d \in 0 .. StackBound - 1 : \E call \in f[d] : z \in getContainmentsOf(call[1])
            <4>1. PICK d \in 0 .. StackBound - 1, p \in H \union {NoType} : <<x, p>> \in f[d]
                OBVIOUS
            <4>2. <<x, p>>[1] = x
                OBVIOUS
            <4> QED  BY <3>2, <4>1, <4>2
        <3> HIDE DEF Met
        <3> QED  BY <3>1, <3>2
    <2> HIDE DEF Met
    <2> QED  BY <2>1, <2>3
<1>16. \A x \in Met : getContainmentsOf(x) = DeclaredContainments(x) \union EndsOf(DeclaredContainments(x))
    BY ContainmentsAreDeclared
<1> HIDE DEF Met
<1> QED  BY <1>14, <1>15, <1>16, InsideIsCreatable, CreatableByHolder

-----------------------------------------------------------------------------
(* A language does not change while it is loaded. *)

LEMMA LanguageStays ==
    ASSUME lang' = lang
    PROVE  /\ Concrete' = Concrete
           /\ \A t : SuperOf(t)' = SuperOf(t)
           /\ \A t : SuperTypes(t)' = SuperTypes(t)
           /\ \A t : IsPrime(t)' <=> IsPrime(t)
           /\ \A t : NamedContainments(t)' = NamedContainments(t)
           /\ \A t : NamedEnds(t, lang.incoming)' = NamedEnds(t, lang.incoming)
           /\ \A t : NamedEnds(t, lang.outgoing)' = NamedEnds(t, lang.outgoing)
           /\ \A t : DeclaredContainments(t)' = DeclaredContainments(t)
           /\ \A t : DeclaredEnds(t, lang.incoming)' = DeclaredEnds(t, lang.incoming)
           /\ \A t : DeclaredEnds(t, lang.outgoing)' = DeclaredEnds(t, lang.outgoing)
           /\ \A t : DeclaredInside(t)' = DeclaredInside(t)
<1>1. Concrete' = Concrete
    BY DEF Concrete
<1>2. ASSUME NEW t PROVE SuperOf(t)' = SuperOf(t)
    BY DEF SuperOf
<1>3. ASSUME NEW t PROVE SuperTypes(t)' = SuperTypes(t)
    BY DEF SuperTypes, SuperOf
<1>4. ASSUME NEW t PROVE IsPrime(t)' <=> IsPrime(t)
    BY <1>3 DEF IsPrime
<1>5. ASSUME NEW t PROVE NamedContainments(t)' = NamedContainments(t)
    BY <1>3 DEF NamedContainments
<1>6. ASSUME NEW t PROVE NamedEnds(t, lang.incoming)' = NamedEnds(t, lang.incoming)
    BY <1>3 DEF NamedEnds
<1>7. ASSUME NEW t PROVE NamedEnds(t, lang.outgoing)' = NamedEnds(t, lang.outgoing)
    BY <1>3 DEF NamedEnds
<1>8. ASSUME NEW t PROVE DeclaredContainments(t)' = DeclaredContainments(t)
    BY <1>1, <1>3 DEF DeclaredContainments, IsOneOf
<1>9. ASSUME NEW t PROVE DeclaredEnds(t, lang.incoming)' = DeclaredEnds(t, lang.incoming)
    BY <1>1, <1>3 DEF DeclaredEnds, IsOneOf
<1>10. ASSUME NEW t PROVE DeclaredEnds(t, lang.outgoing)' = DeclaredEnds(t, lang.outgoing)
    BY <1>1, <1>3 DEF DeclaredEnds, IsOneOf
<1>11. ASSUME NEW t PROVE DeclaredInside(t)' = DeclaredInside(t)
    BY <1>8, <1>9, <1>10 DEF DeclaredInside
<1> QED  BY <1>1, <1>2, <1>3, <1>4, <1>5, <1>6, <1>7, <1>8, <1>9, <1>10, <1>11

-----------------------------------------------------------------------------
(* The invariant. *)

(* The caches hold what the declarations say.                               *)
Cached ==
    /\ cache.containments = [h \in Holders \intersect Concrete |-> DeclaredInside(h)]
    /\ cache.sources = [e \in EdgeTypes \intersect Concrete |->
                          {n \in NodeTypes \intersect Concrete : e \in DeclaredEnds(n, lang.outgoing)}]
    /\ cache.targets = [e \in EdgeTypes \intersect Concrete |->
                          {n \in NodeTypes \intersect Concrete : e \in DeclaredEnds(n, lang.incoming)}]

ClimbInv ==
    /\ lang \in Languages
    /\ Climbs(lang.extends, currentType, degree)
    /\ level \in Nat /\ (phase = "degrees" => level = 0)
    /\ phase # "degrees" => Climbing = {}

(* What is generated so far: the types of the degrees below level, then all *)
(* types, then the concrete ones.                                           *)
SpecInv ==
    /\ phase \in {"degrees", "elements"} => DOMAIN spec = {t \in Types : degree[t] < level}
    /\ phase = "constraints" => DOMAIN spec = Types
    /\ phase \in {"degrees", "elements", "constraints"} => \A t \in DOMAIN spec : Handled(t, spec[t])
    /\ phase \in {"generated", "ready"} => Generates(spec)

CacheInv ==
    /\ phase = "ready" => Cached
    /\ palette # NoPalette => phase = "ready" /\ PaletteIsComplete

MetaInv ==
    /\ phase \in {"degrees", "elements", "constraints", "generated", "ready", "overflow"}
    /\ ClimbInv /\ SpecInv /\ CacheInv

LEMMA ExtendsIsFunction ==
    ASSUME lang \in Languages PROVE lang.extends \in [Types -> Types \union {NoType}]
    BY MetaAssumption DEF IsLanguage

LEMMA ClimbedDegrees == ASSUME ClimbInv, Climbing = {} PROVE DegreesAreSet
<1>1. lang.extends \in [Types -> Types \union {NoType}]
    BY ExtendsIsFunction DEF ClimbInv
<1>2. \A t \in Types : lang.extends[currentType[t]] = NoType
    BY DEF Climbing, SuperOf
<1>3. \A t \in Types : SuperOf(t) # NoType => degree[t] = degree[SuperOf(t)] + 1
    <2> SUFFICES ASSUME NEW t \in Types, SuperOf(t) # NoType PROVE degree[t] = degree[SuperOf(t)] + 1
        OBVIOUS
    <2> QED  BY <1>1, <1>2, DegreesFollow DEF ClimbInv, SuperOf
<1> QED  BY <1>3 DEF DegreesAreSet, ClimbInv, Climbs

LEMMA InitMetaInv == MetaInit => MetaInv
<1> SUFFICES ASSUME MetaInit PROVE MetaInv
    OBVIOUS
<1>1. /\ lang \in Languages /\ phase = "degrees" /\ level = 0 /\ DOMAIN spec = {} /\ palette = NoPalette
      /\ currentType = [t \in Types |-> t] /\ degree = [t \in Types |-> 0]
    BY DEF MetaInit
<1>2. Climbs(lang.extends, currentType, degree)
    <2>1. lang.extends \in [Types -> Types \union {NoType}] /\ DegreeBound \in Nat
        BY <1>1, ExtendsIsFunction, BoundIsNat
    <2>2. currentType \in [Types -> Types] /\ degree \in [Types -> 0 .. DegreeBound]
        BY <1>1, <2>1
    <2>3. ASSUME NEW t \in Types PROVE \E c : IsClimb(lang.extends, c, degree[t], currentType[t])
        <3>1. PICK c : c = [i \in 0 .. 0 |-> t]
            OBVIOUS
        <3>2. c \in [0 .. 0 -> Types] /\ c[0] = t /\ \A i \in 0 .. 0 : ~(i < 0)
            BY <3>1
        <3>3. IsClimb(lang.extends, c, 0, t)
            BY <3>2 DEF IsClimb
        <3> QED  BY <1>1, <3>3
    <2>4. ASSUME NEW t \in Types, lang.extends[t] # NoType
          PROVE  SideBySide(lang.extends, currentType, degree, t, lang.extends[t])
        BY <1>1, <2>1, <2>4 DEF SideBySide
    <2>5. \A t \in Types : currentType[t] = t /\ degree[t] = 0
        BY <1>1
    <2> QED  BY <2>2, <2>3, <2>4, <2>5 DEF Climbs
<1>3. {t \in Types : degree[t] < level} = {}
    BY <1>1
<1> QED  BY <1>1, <1>2, <1>3 DEF MetaInv, ClimbInv, SpecInv, CacheInv

LEMMA HandledStays ==
    ASSUME lang' = lang, spec' = spec
    PROVE  /\ \A t : Handled(t, spec[t])' <=> Handled(t, spec[t])
           /\ Generates(spec)' <=> Generates(spec)
<1>1. ASSUME NEW t PROVE Handled(t, spec[t])' <=> Handled(t, spec[t])
    BY LanguageStays DEF Handled
<1>2. Generates(spec)' <=> Generates(spec)
    BY LanguageStays DEF Generates
<1> QED  BY <1>1, <1>2

LEMMA CalculateKeepsInv == ASSUME MetaInv, CalculateDegree PROVE MetaInv'
<1>1. /\ lang' = lang /\ phase' = phase /\ level' = level /\ spec' = spec /\ cache' = cache
      /\ palette' = palette /\ phase = "degrees" /\ level = 0 /\ lang \in Languages
      /\ Climbs(lang.extends, currentType, degree)
    BY DEF CalculateDegree, MetaInv, ClimbInv
<1>2. Climbs(lang.extends, currentType', degree')
    <2>1. lang.extends \in [Types -> Types \union {NoType}] /\ currentType \in [Types -> Types]
        BY <1>1, ExtendsIsFunction DEF Climbs
    <2>2. PICK onward, counted : onward = currentType' /\ counted = degree'
        OBVIOUS
    <2>3. onward = [t \in Types |-> IF lang.extends[currentType[t]] # NoType
                                    THEN lang.extends[currentType[t]] ELSE currentType[t]]
        BY <2>2 DEF CalculateDegree, Climbed, Climbing, SuperOf
    <2>4. counted = [t \in Types |-> IF lang.extends[currentType[t]] # NoType /\ degree[t] < DegreeBound
                                     THEN degree[t] + 1 ELSE degree[t]]
        BY <2>2 DEF CalculateDegree, Climbing, SuperOf
    <2>5. Climbs(lang.extends, onward, counted)
        BY <1>1, <2>1, <2>3, <2>4, ClimbsOn
    <2> QED  BY <2>2, <2>5
<1>3. ClimbInv'
    BY <1>1, <1>2 DEF ClimbInv
<1>4. DOMAIN spec = {}
    <2>1. \A t \in Types : ~(degree[t] < 0)
        BY <1>1, BoundIsNat DEF Climbs
    <2> QED  BY <1>1, <2>1 DEF MetaInv, SpecInv
<1>5. {t \in Types : degree'[t] < level'} = {}
    BY <1>1, <1>2, BoundIsNat DEF Climbs
<1>6. SpecInv'
    BY <1>1, <1>4, <1>5 DEF SpecInv
<1>7. CacheInv'
    BY <1>1 DEF MetaInv, CacheInv, NoPalette
<1> QED  BY <1>1, <1>3, <1>6, <1>7 DEF MetaInv

LEMMA SortKeepsInv == ASSUME MetaInv, SortByDegree PROVE MetaInv'
<1>1. /\ lang' = lang /\ phase' = "elements" /\ level' = level /\ spec' = spec /\ cache' = cache
      /\ palette' = palette /\ phase = "degrees" /\ currentType' = currentType /\ degree' = degree
      /\ Climbing = {}
    BY DEF SortByDegree
<1>2. ClimbInv'
    BY <1>1 DEF MetaInv, ClimbInv, Climbing, SuperOf
<1>3. SpecInv'
    BY <1>1, HandledStays DEF MetaInv, SpecInv
<1>4. CacheInv'
    BY <1>1 DEF MetaInv, CacheInv, NoPalette
<1> QED  BY <1>1, <1>2, <1>3, <1>4 DEF MetaInv

LEMMA HandleKeepsInv == ASSUME MetaInv, HandleElements PROVE MetaInv'
<1>1. PICK handled : handled = {t \in Types : degree[t] = level}
    OBVIOUS
<1>2. /\ lang' = lang /\ level' = level + 1 /\ cache' = cache /\ palette' = palette
      /\ phase = "elements" /\ currentType' = currentType /\ degree' = degree
      /\ spec' = [t \in DOMAIN spec \union handled |->
                    IF t \in handled THEN handleModelElement(t) ELSE spec[t]]
      /\ phase' = IF DOMAIN spec' = Types THEN "constraints" ELSE "elements"
    BY <1>1 DEF HandleElements
<1>3. /\ lang \in Languages /\ level \in Nat /\ Climbing = {} /\ degree \in [Types -> 0 .. DegreeBound]
      /\ DOMAIN spec = {t \in Types : degree[t] < level} /\ palette = NoPalette
      /\ \A t \in DOMAIN spec : Handled(t, spec[t])
    BY <1>2 DEF MetaInv, ClimbInv, SpecInv, CacheInv, Climbs
<1>4. DegreesAreSet
    BY <1>3, ClimbedDegrees DEF MetaInv
<1>5. DOMAIN spec' = {t \in Types : degree[t] < level + 1}
    <2>1. \A t \in Types : degree[t] < level + 1 <=> degree[t] < level \/ degree[t] = level
        BY <1>3, BoundIsNat
    <2>2. DOMAIN spec' = DOMAIN spec \union handled
        BY <1>2
    <2> QED  BY <1>1, <1>3, <2>1, <2>2
<1>6. ASSUME NEW t \in DOMAIN spec' PROVE Handled(t, spec'[t])
    <2>1. CASE t \in handled
        <3>1. t \in Types /\ degree[t] = level
            BY <1>1, <2>1
        <3>2. ASSUME SuperOf(t) # NoType
              PROVE  SuperOf(t) \in DOMAIN spec /\ Handled(SuperOf(t), spec[SuperOf(t)])
            <4>1. PICK u : u = SuperOf(t)
                OBVIOUS
            <4>2. u \in Types /\ degree[t] = degree[u] + 1
                BY <1>3, <1>4, <3>1, <3>2, <4>1, KindsExtend DEF DegreesAreSet
            <4>3. degree[u] < level
                BY <1>3, <3>1, <4>2, BoundIsNat
            <4> QED  BY <1>3, <4>1, <4>2, <4>3
        <3>3. NoType \notin DOMAIN spec
            BY <1>3, MetaAssumption
        <3>4. Handled(t, handleModelElement(t))
            BY <1>3, <3>1, <3>2, <3>3, HandledElement
        <3>5. spec'[t] = handleModelElement(t)
            BY <1>2, <2>1
        <3> QED  BY <3>4, <3>5
    <2>2. CASE t \notin handled
        <3>1. t \in DOMAIN spec /\ spec'[t] = spec[t]
            BY <1>2, <2>2
        <3> QED  BY <1>3, <3>1
    <2> QED  BY <2>1, <2>2
<1>7. \A t \in DOMAIN spec' : Handled(t, spec[t])'
    BY <1>2, <1>6, LanguageStays DEF Handled
<1>8. ClimbInv'
    BY <1>2, <1>3 DEF MetaInv, ClimbInv, Climbing, SuperOf
<1>9. SpecInv'
    BY <1>2, <1>5, <1>7 DEF SpecInv
<1>10. CacheInv'
    BY <1>2, <1>3 DEF CacheInv, NoPalette
<1> QED  BY <1>2, <1>8, <1>9, <1>10 DEF MetaInv

LEMMA IntroduceKeepsInv == ASSUME MetaInv, IntroduceInheritanceToConstraints PROVE MetaInv'
<1>1. /\ lang' = lang /\ level' = level /\ cache' = cache /\ palette' = palette
      /\ phase = "constraints" /\ phase' = "generated"
      /\ currentType' = currentType /\ degree' = degree
      /\ spec' = [t \in Types \ lang.abstract |->
                     [spec[t] EXCEPT !.containments = recursivelyReplace(@),
                                     !.incomingEdges = recursivelyReplace(@),
                                     !.outgoingEdges = recursivelyReplace(@)]]
    BY DEF IntroduceInheritanceToConstraints
<1>2. /\ lang \in Languages /\ DegreesAreSet /\ DOMAIN spec = Types /\ palette = NoPalette
      /\ \A t \in Types : Handled(t, spec[t])
    BY <1>1, ClimbedDegrees DEF MetaInv, ClimbInv, SpecInv, CacheInv
<1>3. PICK s : s = spec'
    OBVIOUS
<1>4. Generates(s)
    BY <1>1, <1>2, <1>3, IntroductionGenerates
<1>5. Generates(spec)'
    BY <1>1, <1>3, <1>4, LanguageStays DEF Generates
<1>6. ClimbInv'
    BY <1>1 DEF MetaInv, ClimbInv, Climbing, SuperOf
<1>7. SpecInv'
    BY <1>1, <1>5 DEF SpecInv
<1>8. CacheInv'
    BY <1>1, <1>2 DEF CacheInv, NoPalette
<1> QED  BY <1>1, <1>6, <1>7, <1>8 DEF MetaInv

LEMMA CachingIsDeclared ==
    ASSUME lang \in Languages, Generates(spec), PrepareCache PROVE Cached'
<1>1. getNodeTypes = NodeTypes \intersect Concrete /\ getEdgeTypes = EdgeTypes \intersect Concrete
    BY DEF Generates, getNodeTypes, getEdgeTypes
<1>2. DOMAIN spec \intersect Holders = Holders \intersect Concrete
    BY DEF Generates
<1>3. /\ lang' = lang /\ Concrete' = Concrete
      /\ \A h \in Holders \intersect Concrete : ~Overflows(h)
      /\ cache' = [containments |-> [h \in Holders \intersect Concrete |-> getDeepContainmentsOf(h)],
                   targets |-> [e \in getEdgeTypes |-> getEdgeTargetsForCaching(e)],
                   sources |-> [e \in getEdgeTypes |-> getEdgeSourcesForCaching(e)]]
    BY <1>2, LanguageStays DEF PrepareCache
<1>4. cache'.containments = [h \in Holders \intersect Concrete |-> DeclaredInside(h)]
    <2>1. \A h \in Holders \intersect Concrete : getDeepContainmentsOf(h) = DeclaredInside(h)
        BY <1>3, DeepIsDeclared
    <2> QED  BY <1>3, <2>1
<1>5. ASSUME NEW e \in EdgeTypes \intersect Concrete
      PROVE  /\ getEdgeSourcesForCaching(e) =
                    {n \in NodeTypes \intersect Concrete : e \in DeclaredEnds(n, lang.outgoing)}
             /\ getEdgeTargetsForCaching(e) =
                    {n \in NodeTypes \intersect Concrete : e \in DeclaredEnds(n, lang.incoming)}
    <2>1. \A n \in NodeTypes \intersect Concrete :
            /\ e \in spec[n].incomingEdges <=> e \in DeclaredEnds(n, lang.incoming)
            /\ e \in spec[n].outgoingEdges <=> e \in DeclaredEnds(n, lang.outgoing)
        BY DEF Generates
    <2> QED  BY <1>1, <2>1 DEF getEdgeSourcesForCaching, getEdgeTargetsForCaching
<1>6. cache'.sources = [e \in EdgeTypes \intersect Concrete |->
                          {n \in NodeTypes \intersect Concrete : e \in DeclaredEnds(n, lang.outgoing)}]
    BY <1>1, <1>3, <1>5
<1>7. cache'.targets = [e \in EdgeTypes \intersect Concrete |->
                          {n \in NodeTypes \intersect Concrete : e \in DeclaredEnds(n, lang.incoming)}]
    BY <1>1, <1>3, <1>5
<1> QED  BY <1>3, <1>4, <1>6, <1>7, LanguageStays DEF Cached

LEMMA PrepareKeepsInv == ASSUME MetaInv, PrepareCache PROVE MetaInv'
<1>1. /\ lang' = lang /\ level' = level /\ spec' = spec /\ palette' = palette
      /\ phase = "generated" /\ phase' = "ready"
      /\ currentType' = currentType /\ degree' = degree
    BY DEF PrepareCache
<1>2. lang \in Languages /\ Generates(spec) /\ palette = NoPalette
    BY <1>1 DEF MetaInv, ClimbInv, SpecInv, CacheInv
<1>3. Cached'
    BY <1>2, CachingIsDeclared
<1>4. ClimbInv'
    BY <1>1 DEF MetaInv, ClimbInv, Climbing, SuperOf
<1>5. SpecInv'
    BY <1>1, <1>2, HandledStays DEF SpecInv
<1>6. CacheInv'
    BY <1>1, <1>2, <1>3 DEF CacheInv, NoPalette
<1> QED  BY <1>1, <1>4, <1>5, <1>6 DEF MetaInv

LEMMA ThrowKeepsInv == ASSUME MetaInv, PrepareCacheThrows PROVE MetaInv'
<1>1. /\ lang' = lang /\ level' = level /\ spec' = spec /\ palette' = palette
      /\ phase = "generated" /\ phase' = "overflow" /\ cache' = cache
      /\ currentType' = currentType /\ degree' = degree
    BY DEF PrepareCacheThrows
<1>2. ClimbInv'
    BY <1>1 DEF MetaInv, ClimbInv, Climbing, SuperOf
<1>3. SpecInv'
    BY <1>1 DEF SpecInv
<1>4. CacheInv'
    BY <1>1 DEF MetaInv, CacheInv, NoPalette
<1> QED  BY <1>1, <1>2, <1>3, <1>4 DEF MetaInv

-----------------------------------------------------------------------------
(* The palette. *)

LEMMA InsideKinds ==
    ASSUME NEW h \in Holders PROVE DeclaredInside(h) \subseteq (NodeTypes \union EdgeTypes) \intersect Concrete
<1>1. \A c : DeclaredContainments(c) \union EndsOf(DeclaredContainments(c))
                \subseteq (NodeTypes \union EdgeTypes) \intersect Concrete
    BY DeclaredKinds DEF EndsOf
<1> QED  BY <1>1, InsideIsCreatable, CreatableByHolder

LEMMA HeadIsInRange ==
    ASSUME NEW X, NEW s \in Seq(X)
    PROVE  /\ s # <<>> => Head(s) \in Range(s)
           /\ s = <<>> => Range(s) = {}
<1>1. ASSUME s # <<>> PROVE Head(s) \in Range(s)
    <2>1. Head(s) = s[1] /\ 1 \in DOMAIN s
        BY <1>1
    <2> QED  BY <2>1 DEF Range
<1>2. ASSUME s = <<>> PROVE Range(s) = {}
    BY <1>2 DEF Range
<1> QED  BY <1>1, <1>2

(* Whether createSortedPaletteItems offers t under a category.              *)
OfferedAs(g, t, category, referenced) ==
    /\ t \in DeclaredInside(g) /\ t \notin lang.disabled
    /\ category \in Range(getPalettes(t)) \/ (getPalettes(t) = <<>> /\ category \in {"Nodes", "Edges"})
    /\ IsPrime(t) => t \in referenced

LEMMA ItemsAreOffered ==
    ASSUME lang \in Languages, Generates(spec), Cached, NEW g \in GraphTypes \intersect Concrete,
           NEW handled \in SUBSET Concrete, NEW category, NEW referenced, NEW x
    PROVE  x \in createSortedPaletteItems(g, handled, category, referenced)
             <=> \E t \in handled : x = <<category, t>> /\ OfferedAs(g, t, category, referenced)
<1>1. g \in Holders \intersect Concrete
    BY DEF Holders
<1>2. cache.containments[g] = DeclaredInside(g)
    BY <1>1 DEF Cached
<1>3. \A t \in handled : spec[t].primeReference <=> IsPrime(t)
    BY DEF Generates
<1>4. ASSUME NEW t \in handled
      PROVE  (/\ couldContain(g, t) /\ isCreateable(t)
              /\ hasPalette(t, category) \/ (getPalettes(t) = <<>> /\ category \in {"Nodes", "Edges"})
              /\ spec[t].primeReference => t \in referenced)
             <=> OfferedAs(g, t, category, referenced)
    BY <1>2, <1>3 DEF OfferedAs, couldContain, isCreateable, hasPalette
<1>5. x \in createSortedPaletteItems(g, handled, category, referenced)
        <=> \E t \in handled :
                /\ x = <<category, t>>
                /\ couldContain(g, t) /\ isCreateable(t)
                /\ hasPalette(t, category) \/ (getPalettes(t) = <<>> /\ category \in {"Nodes", "Edges"})
                /\ spec[t].primeReference => t \in referenced
    BY DEF createSortedPaletteItems
<1> QED  BY <1>4, <1>5, Zenon

(* What the palettes of a type are.                                         *)
LEMMA PalettesOfType ==
    ASSUME lang \in Languages, Generates(spec), NEW t \in (NodeTypes \union EdgeTypes) \intersect Concrete
    PROVE  LET named == lang.palettes[t] IN
           /\ \E X : named \in Seq(X)
           /\ getPalettes(t) = IF named = <<>> /\ IsPrime(t) THEN <<PrimePalette>> ELSE named
           /\ t \in EdgeTypes => ~IsPrime(t)
<1>1. /\ lang.palettes \in [NodeTypes \union EdgeTypes -> Seq(Palettes \union {"Nodes", "Edges"})]
      /\ lang.prime \subseteq NodeTypes
    BY MetaAssumption DEF IsLanguage
<1>2. spec[t].primeReference <=> IsPrime(t)
    BY DEF Generates
<1>3. getPalettes(t) = IF lang.palettes[t] = <<>> /\ IsPrime(t) THEN <<PrimePalette>> ELSE lang.palettes[t]
    BY <1>2 DEF getPalettes
<1>4. ASSUME t \in EdgeTypes, IsPrime(t) PROVE FALSE
    <2>1. PICK s \in SuperTypes(t) : s \in lang.prime
        BY <1>4 DEF IsPrime
    <2>2. t \in Types
        BY DEF Concrete
    <2>3. s \in EdgeTypes /\ s \in NodeTypes
        BY <1>1, <1>4, <2>1, <2>2, KindsClimb
    <2> QED  BY <2>3, MetaAssumption DEF Apart
<1> QED  BY <1>1, <1>3, <1>4

(* Under the default category and custom palettes of the types of a kind    *)
(* all are offered but references and those of the other default category.  *)
OfferedAmong(g, default, handled, t) ==
    \E c \in {default} \union CustomPalettesOf(handled) : OfferedAs(g, t, c, {})

MayBeOffered(g, other, t) ==
    /\ t \in DeclaredInside(g) /\ t \notin lang.disabled /\ ~IsPrime(t)
    /\ ~(lang.palettes[t] # <<>> /\ Range(lang.palettes[t]) = {other})

LEMMA OfferedByKind ==
    ASSUME lang \in Languages, Generates(spec), NEW g \in GraphTypes \intersect Concrete,
           NEW handled \in SUBSET ((NodeTypes \union EdgeTypes) \intersect Concrete),
           NEW default, NEW other,
           (default = "Nodes" /\ other = "Edges") \/ (default = "Edges" /\ other = "Nodes"),
           NEW t \in handled
    PROVE  OfferedAmong(g, default, handled, t) <=> MayBeOffered(g, other, t)
<1>1. PICK named : named = lang.palettes[t]
    OBVIOUS
<1>2. /\ named # <<>> => Head(named) \in Range(named)
      /\ named = <<>> => Range(named) = {}
    BY <1>1, PalettesOfType, HeadIsInRange
<1>3. ~IsPrime(t) => getPalettes(t) = named
    BY <1>1, PalettesOfType
<1>4. CustomPalettesOf(handled) = (UNION {Range(getPalettes(u)) : u \in handled}) \ {"Nodes", "Edges"}
    BY DEF CustomPalettesOf
<1>5. {default, other} = {"Nodes", "Edges"} /\ default # other
    OBVIOUS
<1>6. ASSUME ~IsPrime(t)
      PROVE  (\E c \in {default} \union CustomPalettesOf(handled) :
                    c \in Range(named) \/ (named = <<>> /\ c \in {"Nodes", "Edges"}))
                <=> ~(named # <<>> /\ Range(named) = {other})
    <2>1. ASSUME named = <<>>
          PROVE  \E c \in {default} \union CustomPalettesOf(handled) : c \in {"Nodes", "Edges"}
        BY <1>5
    <2>2. ASSUME NEW c \in Range(named), c # other
          PROVE  c \in {default} \union CustomPalettesOf(handled)
        BY <1>3, <1>4, <1>5, <1>6, <2>2
    <2>3. other \notin {default} \union CustomPalettesOf(handled)
        BY <1>4, <1>5
    <2>4. ASSUME named # <<>>, Range(named) # {other}
          PROVE  \E c \in {default} \union CustomPalettesOf(handled) : c \in Range(named)
        <3>1. PICK c \in Range(named) : c # other
            BY <1>2, <2>4
        <3> QED  BY <2>2, <3>1
    <2>5. ASSUME named # <<>>, Range(named) = {other}
          PROVE  ~ \E c \in {default} \union CustomPalettesOf(handled) : c \in Range(named)
        BY <2>3, <2>5
    <2> QED  BY <1>2, <2>1, <2>4, <2>5
<1>7. ASSUME NEW c PROVE OfferedAs(g, t, c, {}) <=>
            /\ t \in DeclaredInside(g) /\ t \notin lang.disabled /\ ~IsPrime(t)
            /\ c \in Range(named) \/ (named = <<>> /\ c \in {"Nodes", "Edges"})
    BY <1>3 DEF OfferedAs
<1>8. (\E c \in {default} \union CustomPalettesOf(handled) : OfferedAs(g, t, c, {}))
         <=> /\ t \in DeclaredInside(g) /\ t \notin lang.disabled /\ ~IsPrime(t)
             /\ ~(lang.palettes[t] # <<>> /\ Range(lang.palettes[t]) = {other})
    BY <1>1, <1>6, <1>7
<1> QED  BY <1>8 DEF OfferedAmong, MayBeOffered

(* References are offered for what the graph itself contains, each under    *)
(* its first palette.                                                       *)
PrimesOf(g, label) == {prime[2] : prime \in {p \in getPrimePalettes(g) : p[1] = label}}

LEMMA PrimesAreContained ==
    ASSUME lang \in Languages, Generates(spec), NEW g \in GraphTypes \intersect Concrete,
           NEW label, NEW t
    PROVE  <<label, t>> \in getPrimePalettes(g)
             <=> /\ t \in DeclaredContainments(g) /\ IsPrime(t)
                 /\ label = Head(getPalettes(t)) /\ label \notin {"Nodes", "Edges"}
<1>1. g \in Holders \intersect Concrete
    BY DEF Holders
<1>2. getContainmentsOf(g) \intersect NodeTypes = DeclaredContainments(g)
    BY <1>1, ContainmentsAreDeclared
<1>3. \A u \in DeclaredContainments(g) : u \in Concrete /\ (spec[u].primeReference <=> IsPrime(u))
    BY DeclaredKinds DEF Generates
<1>4. <<label, t>> \in getPrimePalettes(g)
        <=> \E u \in DeclaredContainments(g) :
                /\ spec[u].primeReference /\ Head(getPalettes(u)) \notin {"Nodes", "Edges"}
                /\ <<label, t>> = <<Head(getPalettes(u)), u>>
    BY <1>2 DEF getPrimePalettes
<1>5. \A u : <<label, t>> = <<Head(getPalettes(u)), u>> <=> label = Head(getPalettes(u)) /\ t = u
    OBVIOUS
<1> QED  BY <1>3, <1>4, <1>5

LEMMA PrimePairs ==
    ASSUME NEW g, NEW p \in getPrimePalettes(g) PROVE p = <<p[1], p[2]>>
    BY DEF getPrimePalettes

(* What is offered there.                                                   *)
LEMMA OfferedAsPrime ==
    ASSUME lang \in Languages, Generates(spec), NEW g \in GraphTypes \intersect Concrete,
           NEW t \in NodeTypes \intersect Concrete, NEW label, NEW u, <<label, u>> \in getPrimePalettes(g),
           OfferedAs(g, t, label, PrimesOf(g, label))
    PROVE  t \in DeclaredInside(g) /\ ~KeptFromPalette(g, t)
<1>1. PICK named : named = lang.palettes[t]
    OBVIOUS
<1>2. /\ named # <<>> => Head(named) \in Range(named)
      /\ named = <<>> => Range(named) = {}
    BY <1>1, PalettesOfType, HeadIsInRange
<1>3. getPalettes(t) = IF named = <<>> /\ IsPrime(t) THEN <<PrimePalette>> ELSE named
    BY <1>1, PalettesOfType
<1>4. label \notin {"Nodes", "Edges"}
    BY PrimesAreContained
<1>5. /\ t \in DeclaredInside(g) /\ t \notin lang.disabled
      /\ label \in Range(getPalettes(t))
      /\ IsPrime(t) => t \in PrimesOf(g, label)
    BY <1>4 DEF OfferedAs
<1>6. CASE IsPrime(t)
    <2>1. PICK p \in getPrimePalettes(g) : p[1] = label /\ p[2] = t
        BY <1>5, <1>6 DEF PrimesOf
    <2>2. <<label, t>> \in getPrimePalettes(g)
        BY <2>1, PrimePairs
    <2>3. t \in DeclaredContainments(g) /\ label = Head(getPalettes(t))
        BY <2>2, PrimesAreContained
    <2>4. Head(<<PrimePalette>>) = PrimePalette
        OBVIOUS
    <2>5. (IF named = <<>> THEN PrimePalette ELSE Head(named)) = label
        BY <1>3, <1>6, <2>3, <2>4
    <2>6. ~(named # <<>> /\ Range(named) = {"Edges"})
        BY <1>2, <1>4, <2>5
    <2> QED  BY <1>1, <1>4, <1>5, <2>3, <2>5, <2>6 DEF KeptFromPalette
<1>7. CASE ~IsPrime(t)
    <2>1. label \in Range(named)
        BY <1>3, <1>5, <1>7
    <2>2. Range(named) # {"Edges"}
        BY <1>4, <2>1
    <2> QED  BY <1>1, <1>5, <1>7, <2>2 DEF KeptFromPalette
<1> QED  BY <1>6, <1>7

LEMMA PrimeIsOffered ==
    ASSUME lang \in Languages, Generates(spec), NEW g \in GraphTypes \intersect Concrete,
           NEW t \in NodeTypes \intersect Concrete,
           t \in DeclaredInside(g), IsPrime(t), ~KeptFromPalette(g, t)
    PROVE  \E label : /\ <<label, t>> \in getPrimePalettes(g)
                      /\ OfferedAs(g, t, label, PrimesOf(g, label))
<1>1. PICK named : named = lang.palettes[t]
    OBVIOUS
<1>2. named # <<>> => Head(named) \in Range(named)
    BY <1>1, PalettesOfType, HeadIsInRange
<1>3. getPalettes(t) = IF named = <<>> /\ IsPrime(t) THEN <<PrimePalette>> ELSE named
    BY <1>1, PalettesOfType
<1>4. PICK label : label = Head(getPalettes(t))
    OBVIOUS
<1>5. label = (IF named = <<>> THEN PrimePalette ELSE Head(named)) /\ label \in Range(getPalettes(t))
    <2>1. CASE named = <<>>
        <3>1. getPalettes(t) = <<PrimePalette>>
            BY <1>3, <2>1
        <3>2. <<PrimePalette>> \in Seq({PrimePalette}) /\ <<PrimePalette>> # <<>>
              /\ Head(<<PrimePalette>>) = PrimePalette
            OBVIOUS
        <3>3. Head(<<PrimePalette>>) \in Range(<<PrimePalette>>)
            BY <3>2, HeadIsInRange
        <3> QED  BY <1>4, <2>1, <3>1, <3>2, <3>3
    <2>2. CASE named # <<>>
        BY <1>2, <1>3, <1>4, <2>2
    <2> QED  BY <2>1, <2>2
<1>6. t \notin lang.disabled /\ t \in DeclaredContainments(g) /\ label \notin {"Nodes", "Edges"}
    BY <1>1, <1>5 DEF KeptFromPalette
<1>7. <<label, t>> \in getPrimePalettes(g)
    BY <1>4, <1>6, PrimesAreContained
<1>8. t \in PrimesOf(g, label)
    <2>1. <<label, t>>[1] = label /\ <<label, t>>[2] = t
        OBVIOUS
    <2> QED  BY <1>7, <2>1 DEF PrimesOf
<1>9. OfferedAs(g, t, label, PrimesOf(g, label))
    BY <1>5, <1>6, <1>8 DEF OfferedAs
<1> QED  BY <1>7, <1>9

(* Other nodes, and all edges, are offered under the categories of their    *)
(* kind if at all.                                                          *)
LEMMA NotKept ==
    ASSUME lang \in Languages, Generates(spec), NEW g,
           NEW t \in (NodeTypes \union EdgeTypes) \intersect Concrete, ~IsPrime(t),
           NEW other, other = IF t \in NodeTypes THEN "Edges" ELSE "Nodes"
    PROVE  ~KeptFromPalette(g, t)
             <=> t \notin lang.disabled /\ ~(lang.palettes[t] # <<>> /\ Range(lang.palettes[t]) = {other})
    BY DEF KeptFromPalette

LEMMA ItemsAreDeclared ==
    ASSUME lang \in Languages, Generates(spec), Cached, NEW g \in GraphTypes \intersect Concrete
    PROVE  {item[2] : item \in getItems(g)} = {t \in DeclaredInside(g) : ~KeptFromPalette(g, t)}
<1>1. PICK N, E : /\ N = NodeTypes \intersect Concrete /\ E = EdgeTypes \intersect Concrete
                  /\ N = getNodeTypes /\ E = getEdgeTypes
    BY DEF Generates, getNodeTypes, getEdgeTypes
<1>2. N \in SUBSET Concrete /\ E \in SUBSET Concrete /\ N \intersect E = {}
    BY <1>1, MetaAssumption DEF Apart
<1> DEFINE AsNode(t) == \E c \in {"Nodes"} \union CustomPalettesOf(N) : OfferedAs(g, t, c, {})
           AsEdge(t) == \E c \in {"Edges"} \union CustomPalettesOf(E) : OfferedAs(g, t, c, {})
           AsPrime(t) == \E p \in getPrimePalettes(g) : OfferedAs(g, t, p[1], PrimesOf(g, p[1]))
<1>3. ASSUME NEW x PROVE x \in getItems(g) <=>
            \/ \E c \in {"Nodes"} \union CustomPalettesOf(N) : x \in createSortedPaletteItems(g, N, c, {})
            \/ \E c \in {"Edges"} \union CustomPalettesOf(E) : x \in createSortedPaletteItems(g, E, c, {})
            \/ \E p \in getPrimePalettes(g) : x \in createSortedPaletteItems(g, N, p[1], PrimesOf(g, p[1]))
    BY <1>1 DEF getItems, PrimesOf
<1>4. ASSUME NEW c, NEW r, NEW x
      PROVE  /\ x \in createSortedPaletteItems(g, N, c, r)
                  <=> \E t \in N : x = <<c, t>> /\ OfferedAs(g, t, c, r)
             /\ x \in createSortedPaletteItems(g, E, c, r)
                  <=> \E t \in E : x = <<c, t>> /\ OfferedAs(g, t, c, r)
    BY <1>2, ItemsAreOffered
<1>5. ASSUME NEW x PROVE x \in getItems(g) <=>
            \/ \E c \in {"Nodes"} \union CustomPalettesOf(N) : \E t \in N : x = <<c, t>> /\ OfferedAs(g, t, c, {})
            \/ \E c \in {"Edges"} \union CustomPalettesOf(E) : \E t \in E : x = <<c, t>> /\ OfferedAs(g, t, c, {})
            \/ \E p \in getPrimePalettes(g) : \E t \in N :
                    x = <<p[1], t>> /\ OfferedAs(g, t, p[1], PrimesOf(g, p[1]))
    <2>1. ASSUME NEW c
          PROVE  /\ x \in createSortedPaletteItems(g, N, c, {})
                      <=> \E t \in N : x = <<c, t>> /\ OfferedAs(g, t, c, {})
                 /\ x \in createSortedPaletteItems(g, E, c, {})
                      <=> \E t \in E : x = <<c, t>> /\ OfferedAs(g, t, c, {})
        BY <1>4, Zenon
    <2>2. ASSUME NEW p
          PROVE  x \in createSortedPaletteItems(g, N, p[1], PrimesOf(g, p[1]))
                   <=> \E t \in N : x = <<p[1], t>> /\ OfferedAs(g, t, p[1], PrimesOf(g, p[1]))
        BY <1>4, Zenon
    <2> QED  BY <1>3, <2>1, <2>2
<1>6. ASSUME NEW t PROVE t \in {item[2] : item \in getItems(g)} <=>
            \/ t \in N /\ AsNode(t)
            \/ t \in E /\ AsEdge(t)
            \/ t \in N /\ AsPrime(t)
    <2>1. \A c, u : <<c, u>>[2] = u
        OBVIOUS
    <2>2. ASSUME NEW item \in getItems(g), t = item[2]
          PROVE  (t \in N /\ AsNode(t)) \/ (t \in E /\ AsEdge(t)) \/ (t \in N /\ AsPrime(t))
        BY <1>5, <2>1, <2>2
    <2>3. ASSUME (t \in N /\ AsNode(t)) \/ (t \in E /\ AsEdge(t)) \/ (t \in N /\ AsPrime(t))
          PROVE  \E c : <<c, t>> \in getItems(g)
        BY <1>5, <2>3
    <2> HIDE DEF AsNode, AsEdge, AsPrime
    <2> QED  BY <2>1, <2>2, <2>3
<1>7. ASSUME NEW t \in E
      PROVE  AsEdge(t) <=> t \in DeclaredInside(g) /\ ~KeptFromPalette(g, t)
    <2>1. E \in SUBSET ((NodeTypes \union EdgeTypes) \intersect Concrete) /\ t \notin NodeTypes /\ ~IsPrime(t)
        BY <1>1, <1>2, PalettesOfType
    <2>2. AsEdge(t) <=> /\ t \in DeclaredInside(g) /\ t \notin lang.disabled /\ ~IsPrime(t)
                        /\ ~(lang.palettes[t] # <<>> /\ Range(lang.palettes[t]) = {"Nodes"})
        <3>1. AsEdge(t) <=> OfferedAmong(g, "Edges", E, t)
            BY DEF OfferedAmong
        <3>2. PICK default, other : default = "Edges" /\ other = "Nodes"
            OBVIOUS
        <3>3. (default = "Nodes" /\ other = "Edges") \/ (default = "Edges" /\ other = "Nodes")
            BY <3>2
        <3>4. OfferedAmong(g, default, E, t) <=> MayBeOffered(g, other, t)
            BY <2>1, <3>3, OfferedByKind
        <3> QED  BY <3>1, <3>2, <3>4 DEF MayBeOffered
    <2> HIDE DEF AsEdge
    <2> QED  BY <2>1, <2>2, NotKept
<1>8. ASSUME NEW t \in N
      PROVE  (AsNode(t) \/ AsPrime(t)) <=> (t \in DeclaredInside(g) /\ ~KeptFromPalette(g, t))
    <2>1. N \in SUBSET ((NodeTypes \union EdgeTypes) \intersect Concrete) /\ t \in NodeTypes \intersect Concrete
        BY <1>1
    <2>2. AsNode(t) <=> /\ t \in DeclaredInside(g) /\ t \notin lang.disabled /\ ~IsPrime(t)
                        /\ ~(lang.palettes[t] # <<>> /\ Range(lang.palettes[t]) = {"Edges"})
        <3>1. AsNode(t) <=> OfferedAmong(g, "Nodes", N, t)
            BY DEF OfferedAmong
        <3>2. PICK default, other : default = "Nodes" /\ other = "Edges"
            OBVIOUS
        <3>3. (default = "Nodes" /\ other = "Edges") \/ (default = "Edges" /\ other = "Nodes")
            BY <3>2
        <3>4. OfferedAmong(g, default, N, t) <=> MayBeOffered(g, other, t)
            BY <2>1, <3>3, OfferedByKind
        <3> QED  BY <3>1, <3>2, <3>4 DEF MayBeOffered
    <2>3. ASSUME AsPrime(t) PROVE t \in DeclaredInside(g) /\ ~KeptFromPalette(g, t)
        <3>1. PICK p \in getPrimePalettes(g) : OfferedAs(g, t, p[1], PrimesOf(g, p[1]))
            BY <2>3
        <3>2. <<p[1], p[2]>> \in getPrimePalettes(g)
            BY PrimePairs
        <3> QED  BY <2>1, <3>1, <3>2, OfferedAsPrime
    <2>4. ASSUME t \in DeclaredInside(g), IsPrime(t), ~KeptFromPalette(g, t) PROVE AsPrime(t)
        <3>1. PICK label : <<label, t>> \in getPrimePalettes(g) /\ OfferedAs(g, t, label, PrimesOf(g, label))
            BY <2>1, <2>4, PrimeIsOffered
        <3>2. <<label, t>>[1] = label
            OBVIOUS
        <3> QED  BY <3>1, <3>2
    <2>5. ASSUME ~IsPrime(t)
          PROVE  ~KeptFromPalette(g, t) <=> t \notin lang.disabled
                    /\ ~(lang.palettes[t] # <<>> /\ Range(lang.palettes[t]) = {"Edges"})
        BY <2>1, <2>5, NotKept
    <2> HIDE DEF AsNode, AsPrime
    <2> QED  BY <2>2, <2>3, <2>4, <2>5
<1>9. DeclaredInside(g) \subseteq N \union E
    <2>1. g \in Holders
        BY DEF Holders
    <2> QED  BY <1>1, <2>1, InsideKinds
<1> HIDE DEF AsNode, AsEdge, AsPrime
<1>10. \A t : t \in {item[2] : item \in getItems(g)} <=> t \in DeclaredInside(g) /\ ~KeptFromPalette(g, t)
    BY <1>2, <1>6, <1>7, <1>8, <1>9
<1> QED  BY <1>10

LEMMA GetItemsKeepsInv == ASSUME MetaInv, NEW g \in GraphTypes, GetItems(g) PROVE MetaInv'
<1>1. /\ lang' = lang /\ level' = level /\ spec' = spec /\ cache' = cache
      /\ phase = "ready" /\ phase' = "ready" /\ g \in DOMAIN spec
      /\ currentType' = currentType /\ degree' = degree
      /\ palette' = [graph |-> g, items |-> getItems(g)]
    BY DEF GetItems
<1>2. lang \in Languages /\ Generates(spec) /\ Cached
    BY <1>1 DEF MetaInv, ClimbInv, SpecInv, CacheInv
<1>3. g \in GraphTypes \intersect Concrete
    BY <1>1, <1>2 DEF Generates
<1>4. {item[2] : item \in getItems(g)} = {t \in DeclaredInside(g) : ~KeptFromPalette(g, t)}
    BY <1>2, <1>3, ItemsAreDeclared
<1>5. ClimbInv'
    BY <1>1 DEF MetaInv, ClimbInv, Climbing, SuperOf
<1>6. SpecInv'
    BY <1>1, <1>2, HandledStays DEF SpecInv
<1>7. Cached'
    BY <1>1, <1>2, LanguageStays DEF Cached
<1>8. PaletteIsComplete'
    <2>1. \A t : KeptFromPalette(g, t)' <=> KeptFromPalette(g, t)
        BY <1>1, LanguageStays DEF KeptFromPalette
    <2>2. DeclaredInside(g)' = DeclaredInside(g)
        BY <1>1, LanguageStays
    <2>3. palette'.graph = g /\ palette'.items = getItems(g)
        BY <1>1
    <2> QED  BY <1>4, <2>1, <2>2, <2>3 DEF PaletteIsComplete
<1> QED  BY <1>1, <1>5, <1>6, <1>7, <1>8 DEF MetaInv, CacheInv

LEMMA StutterKeepsInv == ASSUME MetaInv, UNCHANGED metaVars PROVE MetaInv'
<1>1. /\ lang' = lang /\ level' = level /\ spec' = spec /\ cache' = cache /\ phase' = phase
      /\ currentType' = currentType /\ degree' = degree /\ palette' = palette
    BY DEF metaVars
<1>2. ClimbInv'
    BY <1>1 DEF MetaInv, ClimbInv, Climbing, SuperOf
<1>3. SpecInv'
    BY <1>1, HandledStays DEF MetaInv, SpecInv
<1>4. Cached => Cached'
    BY <1>1, LanguageStays DEF Cached
<1>5. PaletteIsComplete' <=> PaletteIsComplete
    <2>1. \A g, t : KeptFromPalette(g, t)' <=> KeptFromPalette(g, t)
        BY <1>1, LanguageStays DEF KeptFromPalette
    <2>2. \A g : DeclaredInside(g)' = DeclaredInside(g)
        BY <1>1, LanguageStays
    <2> QED  BY <1>1, <2>1, <2>2 DEF PaletteIsComplete
<1> QED  BY <1>1, <1>2, <1>3, <1>4, <1>5 DEF MetaInv, CacheInv, NoPalette

LEMMA NextMetaInv == MetaInv /\ [MetaNext]_metaVars => MetaInv'
<1> SUFFICES ASSUME MetaInv, [MetaNext]_metaVars PROVE MetaInv'
    OBVIOUS
<1>1. CASE CalculateDegree
    BY <1>1, CalculateKeepsInv
<1>2. CASE SortByDegree
    BY <1>2, SortKeepsInv
<1>3. CASE HandleElements
    BY <1>3, HandleKeepsInv
<1>4. CASE IntroduceInheritanceToConstraints
    BY <1>4, IntroduceKeepsInv
<1>5. CASE PrepareCache
    BY <1>5, PrepareKeepsInv
<1>6. CASE PrepareCacheThrows
    BY <1>6, ThrowKeepsInv
<1>7. CASE \E g \in GraphTypes : GetItems(g)
    BY <1>7, GetItemsKeepsInv
<1>8. CASE UNCHANGED metaVars
    BY <1>8, StutterKeepsInv
<1> QED  BY <1>1, <1>2, <1>3, <1>4, <1>5, <1>6, <1>7, <1>8 DEF MetaNext, LoadStep

LEMMA MetaInvariance == MetaSpec => []MetaInv
    BY InitMetaInv, NextMetaInv, PTL DEF MetaSpec

-----------------------------------------------------------------------------
(* The theorems. *)

(* What the cache says may be created inside a holder (canBeCreated,        *)
(* couldContain) is, in every language that gets loaded, what follows from  *)
(* the declarations, whatever the depth of its inheritance and nesting.     *)
THEOREM CreationFollowsDeclarations == MetaSpec => []CreatableAsDeclared
<1>1. MetaInv => CreatableAsDeclared
    BY DEF MetaInv, CacheInv, Cached, CreatableAsDeclared
<1> QED  BY <1>1, MetaInvariance, PTL

(* The palette of a graph (getItems) offers what the declarations allow     *)
(* inside it, less what an annotation or a reference keeps from it.         *)
THEOREM PaletteOffersAll == MetaSpec => []PaletteIsComplete
<1>1. NoPalette.graph \notin GraphTypes
    BY MetaAssumption DEF NoPalette, Types
<1>2. MetaInv => PaletteIsComplete
    BY <1>1 DEF MetaInv, CacheInv, PaletteIsComplete
<1> QED  BY <1>2, MetaInvariance, PTL

(* What may be done with a type may be done with the types that extend it. *)
LEMMA InstancesSubstitute ==
    ASSUME lang \in Languages, NEW t \in Concrete, NEW s \in SuperTypes(t) \intersect Concrete
    PROVE  /\ \A h : s \in DeclaredContainments(h) => t \in DeclaredContainments(h)
           /\ \A n : s \in DeclaredEnds(n, lang.incoming) => t \in DeclaredEnds(n, lang.incoming)
           /\ \A n : s \in DeclaredEnds(n, lang.outgoing) => t \in DeclaredEnds(n, lang.outgoing)
           /\ DeclaredContainments(s) \subseteq DeclaredContainments(t)
           /\ DeclaredEnds(s, lang.incoming) \subseteq DeclaredEnds(t, lang.incoming)
           /\ DeclaredEnds(s, lang.outgoing) \subseteq DeclaredEnds(t, lang.outgoing)
<1>1. t \in Types /\ SuperTypes(s) \subseteq SuperTypes(t)
    BY SuperTypesCompose DEF Concrete
<1>2. (t \in NodeTypes <=> s \in NodeTypes) /\ (t \in EdgeTypes <=> s \in EdgeTypes)
    BY <1>1, KindsClimb
<1>3. \A names : IsOneOf(s, names) => IsOneOf(t, names)
    BY <1>1 DEF IsOneOf
<1>4. \A small, large : small \subseteq large => \A u : IsOneOf(u, small) => IsOneOf(u, large)
    BY DEF IsOneOf
<1>5. /\ \A h : s \in DeclaredContainments(h) => t \in DeclaredContainments(h)
      /\ \A n : s \in DeclaredEnds(n, lang.incoming) => t \in DeclaredEnds(n, lang.incoming)
      /\ \A n : s \in DeclaredEnds(n, lang.outgoing) => t \in DeclaredEnds(n, lang.outgoing)
    BY <1>2, <1>3 DEF DeclaredContainments, DeclaredEnds
<1>6. DeclaredContainments(s) \subseteq DeclaredContainments(t)
    <2>1. UNION {Named(lang.containable[u], NodeTypes) : u \in SuperTypes(s) \intersect Holders}
            \subseteq UNION {Named(lang.containable[u], NodeTypes) : u \in SuperTypes(t) \intersect Holders}
        BY <1>1
    <2> QED  BY <1>4, <2>1 DEF DeclaredContainments
<1>7. ASSUME NEW constraint PROVE DeclaredEnds(s, constraint) \subseteq DeclaredEnds(t, constraint)
    <2>1. UNION {Named(constraint[u], EdgeTypes) : u \in SuperTypes(s)}
            \subseteq UNION {Named(constraint[u], EdgeTypes) : u \in SuperTypes(t)}
        BY <1>1
    <2> QED  BY <1>4, <2>1 DEF DeclaredEnds
<1> QED  BY <1>5, <1>6, <1>7

LEMMA InsideSubstitutes ==
    ASSUME lang \in Languages, NEW t \in Concrete, NEW s \in SuperTypes(t) \intersect Concrete
    PROVE  /\ \A h : s \in DeclaredInside(h) => t \in DeclaredInside(h)
           /\ s \in Holders => t \in Holders /\ DeclaredInside(s) \subseteq DeclaredInside(t)
<1>1. /\ \A h : s \in DeclaredContainments(h) => t \in DeclaredContainments(h)
      /\ \A n : s \in DeclaredEnds(n, lang.incoming) => t \in DeclaredEnds(n, lang.incoming)
      /\ \A n : s \in DeclaredEnds(n, lang.outgoing) => t \in DeclaredEnds(n, lang.outgoing)
      /\ DeclaredContainments(s) \subseteq DeclaredContainments(t)
    BY InstancesSubstitute
<1>2. ASSUME NEW h, s \in DeclaredInside(h) PROVE t \in DeclaredInside(h)
    <2>1. \A nodes : s \in EndsOf(nodes) => t \in EndsOf(nodes)
        BY <1>1 DEF EndsOf
    <2> QED  BY <1>1, <1>2, <2>1, InsideIsCreatable DEF CreatableIn
<1>3. ASSUME s \in Holders PROVE t \in Holders /\ DeclaredInside(s) \subseteq DeclaredInside(t)
    <2>1. t \in Holders
        BY <1>3, KindsClimb DEF Concrete
    <2>2. PICK S : S = {s} \union HoldersInside(t)
        OBVIOUS
    <2>3. HoldersInside(s) \subseteq S
        <3>1. s \in S /\ t \in HoldersInside(t)
            BY <2>1, <2>2, HoldersInsideAreLeast
        <3>2. \A x \in S \intersect Holders : DeclaredContainments(x) \intersect Holders \subseteq S
            BY <1>1, <2>1, <2>2, <3>1, HoldersInsideAreLeast
        <3> QED  BY <1>3, <3>1, <3>2, HoldersInsideAreLeast
    <2>4. \A c \in HoldersInside(s) : \E d \in HoldersInside(t) :
                DeclaredContainments(c) \subseteq DeclaredContainments(d)
        BY <1>1, <2>1, <2>2, <2>3, HoldersInsideAreLeast
    <2>5. PICK inner, outer :
            /\ inner = UNION {DeclaredContainments(c) : c \in HoldersInside(s)}
            /\ outer = UNION {DeclaredContainments(c) : c \in HoldersInside(t)}
        OBVIOUS
    <2>6. inner \subseteq outer
        BY <2>4, <2>5
    <2>7. EndsOf(inner) \subseteq EndsOf(outer)
        BY <2>6 DEF EndsOf
    <2> QED  BY <2>1, <2>5, <2>6, <2>7, InsideIsCreatable DEF CreatableIn
<1> QED  BY <1>2, <1>3

(* A type that extends another, however far, is known as an instance of it  *)
(* (instanceOf) and may be created, hold, start and end what the other may, *)
(* although each constraint was copied, merged and replaced on its way.     *)
THEOREM SubtypesMaySubstitute == MetaSpec => []SubtypesSubstitute
<1>1. ASSUME MetaInv, phase = "ready",
             NEW t \in Concrete, NEW s \in SuperTypes(t) \intersect Concrete
      PROVE  /\ \A h \in DOMAIN cache.containments :
                    s \in cache.containments[h] => t \in cache.containments[h]
             /\ s \in Holders => cache.containments[s] \subseteq cache.containments[t]
             /\ \A ends \in {cache.sources, cache.targets} :
                    /\ s \in EdgeTypes => ends[s] \subseteq ends[t]
                    /\ \A e \in DOMAIN ends : s \in ends[e] => t \in ends[e]
    <2>1. lang \in Languages /\ Cached
        BY <1>1 DEF MetaInv, ClimbInv, CacheInv
    <2>2. t \in Types /\ s \in Types /\ s \in Concrete
          /\ (t \in NodeTypes <=> s \in NodeTypes) /\ (t \in EdgeTypes <=> s \in EdgeTypes)
        BY <2>1, KindsClimb DEF Concrete
    <2>3. /\ \A h : s \in DeclaredInside(h) => t \in DeclaredInside(h)
          /\ s \in Holders => t \in Holders /\ DeclaredInside(s) \subseteq DeclaredInside(t)
        BY <2>1, InsideSubstitutes
    <2>4. /\ \A h \in DOMAIN cache.containments :
                s \in cache.containments[h] => t \in cache.containments[h]
          /\ s \in Holders => cache.containments[s] \subseteq cache.containments[t]
        BY <2>1, <2>2, <2>3 DEF Cached
    <2>5. ASSUME NEW ends, NEW constraint, 
                 ends = [e \in EdgeTypes \intersect Concrete |->
                           {n \in NodeTypes \intersect Concrete : e \in DeclaredEnds(n, constraint)}],
                 \A n : s \in DeclaredEnds(n, constraint) => t \in DeclaredEnds(n, constraint),
                 DeclaredEnds(s, constraint) \subseteq DeclaredEnds(t, constraint)
          PROVE  /\ s \in EdgeTypes => ends[s] \subseteq ends[t]
                 /\ \A e \in DOMAIN ends : s \in ends[e] => t \in ends[e]
        BY <2>2, <2>5
    <2>6. /\ \A n : s \in DeclaredEnds(n, lang.incoming) => t \in DeclaredEnds(n, lang.incoming)
          /\ \A n : s \in DeclaredEnds(n, lang.outgoing) => t \in DeclaredEnds(n, lang.outgoing)
          /\ DeclaredEnds(s, lang.incoming) \subseteq DeclaredEnds(t, lang.incoming)
          /\ DeclaredEnds(s, lang.outgoing) \subseteq DeclaredEnds(t, lang.outgoing)
        BY <2>1, InstancesSubstitute
    <2>7. \A ends \in {cache.sources, cache.targets} :
                /\ s \in EdgeTypes => ends[s] \subseteq ends[t]
                /\ \A e \in DOMAIN ends : s \in ends[e] => t \in ends[e]
        BY <2>1, <2>5, <2>6 DEF Cached
    <2> QED  BY <2>4, <2>7
<1>2. MetaInv => SubtypesSubstitute
    <2>1. MetaInv /\ phase = "ready" => \A t \in Concrete : SuperTypes(t) \ {t} \subseteq spec[t].superTypes
        BY DEF MetaInv, SpecInv, Generates
    <2> QED  BY <1>1, <2>1 DEF SubtypesSubstitute
<1> QED  BY <1>2, MetaInvariance, PTL
=============================================================================
