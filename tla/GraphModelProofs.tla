--------------------------- MODULE GraphModelProofs ---------------------------
(***************************************************************************)
(* Theorems about GraphModel, for any metamodel, any models and any         *)
(* deletions: the handlers keep a model well formed, creating elements      *)
(* respects the bounds of the types, and no operation makes a conflict.     *)
(* The walks and folds of the model are handled by induction on sets of     *)
(* numbers, which follows from the numbers being well founded.              *)
(***************************************************************************)
EXTENDS GraphModel, FiniteSetTheorems, SequenceTheorems, WellFoundedInduction, TLAPS

(* A set of natural numbers with some element has a least one.              *)
LEMMA LeastNumber ==
    ASSUME NEW T \in SUBSET Nat, T # {}
    PROVE  \E x \in T : \A y \in T : x <= y
<1>1. PICK R : R = OpToRel(<, Nat)
    OBVIOUS
<1>2. IsWellFoundedOn(R, Nat)
    BY <1>1, NatLessThanWellFounded
<1>3. PICK x \in T : \A y \in T : ~ (<<y, x>> \in R)
    BY <1>2, WFMin, Zenon
<1>4. \A y \in T : ~ (y < x)
    BY <1>1, <1>3 DEF OpToRel
<1> QED  BY <1>4

(* Induction, for a set of numbers.                                         *)
LEMMA NumberSetInduction ==
    ASSUME NEW T, 0 \in T, \A n \in Nat : n \in T => n + 1 \in T
    PROVE  Nat \subseteq T
<1> SUFFICES ASSUME Nat \ T # {} PROVE FALSE
    OBVIOUS
<1>1. PICK x \in Nat \ T : \A y \in Nat \ T : x <= y
    <2>1. Nat \ T \in SUBSET Nat
        OBVIOUS
    <2> QED  BY <2>1, LeastNumber, Zenon
<1>2. x # 0 /\ x - 1 \in Nat /\ ~(x <= x - 1)
    BY <1>1
<1>3. x - 1 \in T
    BY <1>1, <1>2
<1> QED  BY <1>1, <1>2, <1>3

(* A bounded set of numbers with some element has a least and a greatest.   *)
LEMMA LeastAndGreatest ==
    ASSUME NEW m \in Nat, NEW T \in SUBSET (0 .. m), T # {}
    PROVE  /\ Min(T) \in T /\ \A y \in T : Min(T) <= y
           /\ Max(T) \in T /\ \A y \in T : Max(T) >= y
<1>1. \E x \in T : \A y \in T : x <= y
    <2>1. T \in SUBSET Nat
        OBVIOUS
    <2> QED  BY <2>1, LeastNumber, Zenon
<1>2. \E x \in T : \A y \in T : x >= y
    <2> DEFINE U == {u \in Nat : \A y \in T : u >= y}
    <2>1. U \in SUBSET Nat /\ m \in U
        OBVIOUS
    <2>2. PICK u \in U : \A v \in U : u <= v
        BY <2>1, LeastNumber, Zenon
    <2>3. CASE u \in T
        BY <2>2, <2>3
    <2>4. CASE u \notin T
        <3>1. \A y \in T : u - 1 >= y /\ y \in Nat
            BY <2>2, <2>4
        <3>2. u - 1 \in Nat
            <4>1. PICK y \in T : u - 1 >= y /\ y \in Nat
                BY <3>1
            <4>2. u \in Nat
                BY <2>2
            <4> QED  BY <4>1, <4>2
        <3>3. u - 1 \in U
            BY <3>1, <3>2
        <3>4. u \in Nat /\ u <= u - 1
            BY <2>2, <3>3
        <3> QED  BY <3>4
    <2> QED  BY <2>3, <2>4
<1> QED  BY <1>1, <1>2 DEF Min, Max

(* Functions defined by recursion over an interval exist, and what each     *)
(* step keeps holds of all their values.                                    *)
Recurs(f, m, n, b, F) == \A i \in m .. n : f[i] = IF i = m THEN b ELSE F[f[i - 1]][i]

LEMMA RecursionExists ==
    ASSUME NEW V, NEW m \in Nat, NEW n \in Nat, NEW b \in V, NEW F \in [V -> [m + 1 .. n -> V]]
    PROVE  \E f \in [m .. n -> V] : Recurs(f, m, n, b, F)
<1> DEFINE Upto(f, k) == \A i \in m .. n : i <= m + k => f[i] = IF i = m THEN b ELSE F[f[i - 1]][i]
           T == {k \in Nat : \E f \in [m .. n -> V] : Upto(f, k)}
<1>1. 0 \in T
    <2>1. [i \in m .. n |-> b] \in [m .. n -> V] /\ Upto([i \in m .. n |-> b], 0)
        OBVIOUS
    <2> QED  BY <2>1
<1>2. ASSUME NEW k \in Nat, k \in T PROVE k + 1 \in T
    <2>1. PICK f \in [m .. n -> V] : Upto(f, k)
        BY <1>2
    <2>2. ASSUME m + k + 1 <= n PROVE \E h \in [m .. n -> V] : Upto(h, k + 1)
        <3>1. PICK g : g = [f EXCEPT ![m + k + 1] = F[f[m + k]][m + k + 1]]
            OBVIOUS
        <3>2. F[f[m + k]][m + k + 1] \in V
            <4>1. m + k \in m .. n /\ m + k + 1 \in m + 1 .. n
                BY <2>2
            <4> QED  BY <4>1
        <3>3. g \in [m .. n -> V]
            BY <3>1, <3>2
        <3>4. ASSUME NEW i \in m .. n, i <= m + (k + 1)
              PROVE  g[i] = IF i = m THEN b ELSE F[g[i - 1]][i]
            <4>1. CASE i = m + k + 1
                <5>1. g[i] = F[f[m + k]][i] /\ i - 1 = m + k /\ i # m
                    BY <2>2, <3>1, <4>1
                <5>2. m + k \in m .. n /\ m + k # m + k + 1
                    BY <2>2
                <5>3. g[m + k] = f[m + k]
                    BY <3>1, <5>2
                <5> QED  BY <5>1, <5>3
            <4>2. CASE i # m + k + 1
                <5>1. i <= m + k /\ g[i] = f[i]
                    BY <3>1, <3>4, <4>2
                <5>2. i # m => g[i - 1] = f[i - 1]
                    <6>1. i # m => i - 1 \in m .. n /\ i - 1 # m + k + 1
                        BY <5>1
                    <6> QED  BY <3>1, <6>1
                <5> QED  BY <2>1, <5>1, <5>2
            <4> QED  BY <4>1, <4>2
        <3>5. Upto(g, k + 1)
            BY <3>4
        <3> HIDE DEF Upto
        <3> QED  BY <3>3, <3>5
    <2>3. ASSUME ~(m + k + 1 <= n) PROVE \E h \in [m .. n -> V] : Upto(h, k + 1)
        <3>1. Upto(f, k + 1)
            BY <2>1, <2>3
        <3> HIDE DEF Upto
        <3> QED  BY <3>1
    <2> HIDE DEF Upto
    <2>4. \E h \in [m .. n -> V] : Upto(h, k + 1)
        BY <2>2, <2>3
    <2> QED  BY <2>4
<1>3. n \in T
    <2> HIDE DEF T
    <2>1. Nat \subseteq T
        BY <1>1, <1>2, NumberSetInduction
    <2> QED  BY <2>1
<1>4. PICK f \in [m .. n -> V] : Upto(f, n)
    BY <1>3
<1>5. \A i \in m .. n : i <= m + n
    OBVIOUS
<1> QED  BY <1>4, <1>5 DEF Recurs

(* What the first value has and each step keeps, all values have.           *)
LEMMA RecursionStays ==
    ASSUME NEW V, NEW m \in Nat, NEW n \in Nat, NEW f,
           f[m] \in V, \A i \in m + 1 .. n : f[i - 1] \in V => f[i] \in V
    PROVE  \A i \in m .. n : f[i] \in V
<1> DEFINE T == {k \in Nat : m + k <= n => f[m + k] \in V}
<1>1. 0 \in T
    OBVIOUS
<1>2. ASSUME NEW k \in Nat, k \in T PROVE k + 1 \in T
    <2> SUFFICES ASSUME m + (k + 1) <= n PROVE f[m + (k + 1)] \in V
        OBVIOUS
    <2>1. m + (k + 1) \in m + 1 .. n /\ (m + (k + 1)) - 1 = m + k /\ m + k <= n
        OBVIOUS
    <2>2. f[m + k] \in V
        BY <1>2, <2>1
    <2> QED  BY <2>1, <2>2
<1>3. Nat \subseteq T
    <2> HIDE DEF T
    <2> QED  BY <1>1, <1>2, NumberSetInduction
<1>4. ASSUME NEW i \in m .. n PROVE f[i] \in V
    <2>1. i - m \in Nat /\ m + (i - m) = i /\ i <= n
        OBVIOUS
    <2>2. i - m \in T
        BY <1>3, <2>1
    <2> QED  BY <2>1, <2>2
<1> QED  BY <1>4

(* The same for folds, which recur over the set of indices.                 *)
Folds(f, n, b, F) ==
    \A s \in SUBSET (1 .. n) : f[s] = IF s = {} THEN b ELSE F[f[s \ {Max(s)}]][Max(s)]

LEMMA FoldExists ==
    ASSUME NEW V, NEW n \in Nat, NEW b \in V, NEW F \in [V -> [1 .. n -> V]]
    PROVE  \E f \in [SUBSET (1 .. n) -> V] : Folds(f, n, b, F)
<1> DEFINE D == SUBSET (1 .. n)
           At(f, s) == f[s] = IF s = {} THEN b ELSE F[f[s \ {Max(s)}]][Max(s)]
           Upto(f, k) == \A s \in D : s \subseteq 1 .. k => At(f, s)
           T == {k \in Nat : \E f \in [D -> V] : Upto(f, k)}
<1>0. \A s \in D : s # {} => Max(s) \in s /\ \A y \in s : Max(s) >= y
    <2> SUFFICES ASSUME NEW s \in D, s # {} PROVE Max(s) \in s /\ \A y \in s : Max(s) >= y
        OBVIOUS
    <2>1. s \in SUBSET (0 .. n)
        OBVIOUS
    <2> QED  BY <2>1, LeastAndGreatest
<1>1. 0 \in T
    <2>1. PICK f : f = [s \in D |-> b]
        OBVIOUS
    <2>2. \A s \in D : s \subseteq 1 .. 0 => s = {}
        OBVIOUS
    <2>3. f \in [D -> V] /\ \A s \in D : f[s] = b
        BY <2>1
    <2>4. Upto(f, 0)
        BY <2>2, <2>3
    <2> QED  BY <2>3, <2>4
<1>2. ASSUME NEW k \in Nat, k \in T PROVE k + 1 \in T
    <2>1. PICK f \in [D -> V] : Upto(f, k)
        BY <1>2
    <2>2. PICK g : g = [s \in D |-> IF s \subseteq 1 .. k THEN f[s] ELSE F[f[s \ {Max(s)}]][Max(s)]]
        OBVIOUS
    <2>3. \A s \in D : g[s] = IF s \subseteq 1 .. k THEN f[s] ELSE F[f[s \ {Max(s)}]][Max(s)]
        BY <2>2
    <2>4. ASSUME NEW s \in D, s # {} PROVE F[f[s \ {Max(s)}]][Max(s)] \in V
        <3>1. s \ {Max(s)} \in D /\ Max(s) \in 1 .. n
            BY <1>0, <2>4
        <3>2. f[s \ {Max(s)}] \in V
            BY <3>1
        <3>3. F[f[s \ {Max(s)}]] \in [1 .. n -> V]
            BY <3>2
        <3> QED  BY <3>1, <3>3
    <2>5. \A s \in D : ~(s \subseteq 1 .. k) => s # {}
        OBVIOUS
    <2>6. g \in [D -> V]
        <3>1. \A s \in D : (IF s \subseteq 1 .. k THEN f[s] ELSE F[f[s \ {Max(s)}]][Max(s)]) \in V
            BY <2>4, <2>5
        <3> QED  BY <2>2, <3>1
    <2>7. ASSUME NEW s \in D, s \subseteq 1 .. k + 1 PROVE At(g, s)
        <3>1. CASE s \subseteq 1 .. k
            <4>1. s \ {Max(s)} \in D /\ s \ {Max(s)} \subseteq 1 .. k
                BY <3>1
            <4>2. g[s] = f[s] /\ g[s \ {Max(s)}] = f[s \ {Max(s)}]
                BY <2>3, <3>1, <4>1
            <4>3. At(f, s)
                BY <2>1, <3>1
            <4> QED  BY <4>2, <4>3
        <3>2. CASE ~(s \subseteq 1 .. k)
            <4>1. PICK y \in s : y \notin 1 .. k
                BY <3>2
            <4>2. y = k + 1
                BY <2>7, <4>1
            <4>3. s # {} /\ Max(s) \in s /\ Max(s) >= k + 1
                BY <1>0, <4>1, <4>2
            <4>4. Max(s) \in 1 .. k + 1
                BY <2>7, <4>3
            <4>5. Max(s) = k + 1
                <5>1. \A x \in 1 .. k + 1 : x >= k + 1 => x = k + 1
                    OBVIOUS
                <5> QED  BY <4>3, <4>4, <5>1
            <4>6. s \ {Max(s)} \in D /\ s \ {Max(s)} \subseteq 1 .. k
                <5>1. \A z \in s : z # k + 1 => z \in 1 .. k
                    BY <2>7
                <5> QED  BY <4>5, <5>1
            <4>7. g[s \ {Max(s)}] = f[s \ {Max(s)}] /\ g[s] = F[f[s \ {Max(s)}]][Max(s)]
                BY <2>3, <3>2, <4>6
            <4> QED  BY <4>3, <4>7
        <3> QED  BY <3>1, <3>2
    <2>8. Upto(g, k + 1)
        BY <2>7
    <2> HIDE DEF Upto, D
    <2>9. \E h \in [D -> V] : Upto(h, k + 1)
        BY <2>6, <2>8
    <2> QED  BY <2>9
<1>3. n \in T
    <2> HIDE DEF T
    <2>1. Nat \subseteq T
        BY <1>1, <1>2, NumberSetInduction
    <2> QED  BY <2>1
<1>4. PICK f \in [D -> V] : Upto(f, n)
    BY <1>3
<1> QED  BY <1>4 DEF Folds

(* What the empty fold has and each step keeps, the whole fold has.         *)
LEMMA FoldStays ==
    ASSUME NEW V, NEW n \in Nat, NEW f, f[{}] \in V,
           \A s \in SUBSET (1 .. n) : s # {} /\ f[s \ {Max(s)}] \in V /\ Max(s) \in 1 .. n => f[s] \in V
    PROVE  f[1 .. n] \in V
<1> DEFINE T == {k \in Nat : k <= n => f[1 .. k] \in V}
<1>1. 0 \in T
    <2>1. 1 .. 0 = {}
        OBVIOUS
    <2> QED  BY <2>1
<1>2. ASSUME NEW k \in Nat, k \in T PROVE k + 1 \in T
    <2> SUFFICES ASSUME k + 1 <= n PROVE f[1 .. k + 1] \in V
        OBVIOUS
    <2>1. PICK s : s = 1 .. k + 1
        OBVIOUS
    <2>2. s \in SUBSET (1 .. n) /\ s \in SUBSET (0 .. n) /\ s # {} /\ k + 1 \in s
        BY <2>1
    <2>3. Max(s) \in s /\ \A y \in s : Max(s) >= y
        BY <2>2, LeastAndGreatest
    <2>4. Max(s) = k + 1
        BY <2>1, <2>2, <2>3
    <2>5. s \ {Max(s)} = 1 .. k
        BY <2>1, <2>4
    <2>6. f[1 .. k] \in V
        BY <1>2
    <2> QED  BY <2>1, <2>2, <2>3, <2>5, <2>6
<1>3. Nat \subseteq T
    <2> HIDE DEF T
    <2> QED  BY <1>1, <1>2, NumberSetInduction
<1> QED  BY <1>3

-----------------------------------------------------------------------------
(* The lists of the model. *)

(* FlattenSeq puts the lists behind each other, one by one.                 *)
Flattens(f, seqs) ==
    \A i \in 1 .. Len(seqs) : f[i] = IF i = 1 THEN seqs[i] ELSE f[i - 1] \o seqs[i]

LEMMA FlattenSteps ==
    ASSUME NEW X, NEW seqs \in Seq(Seq(X)), Len(seqs) # 0
    PROVE  \E f \in [1 .. Len(seqs) -> Seq(X)] :
              Flattens(f, seqs) /\ FlattenSeq(seqs) = f[Len(seqs)]
<1> DEFINE n == Len(seqs)
           flat == CHOOSE f : f = [i \in 1 .. n |-> IF i = 1 THEN seqs[i] ELSE f[i - 1] \o seqs[i]]
<1>1. FlattenSeq(seqs) = flat[n]
    BY DEF FlattenSeq
<1>2. n \in Nat /\ n >= 1 /\ \A i \in 1 .. n : seqs[i] \in Seq(X)
    BY LenProperties, ElementOfSeq
<1>3. PICK F : F = [v \in Seq(X) |-> [i \in 1 + 1 .. n |-> v \o seqs[i]]]
    OBVIOUS
<1>4. F \in [Seq(X) -> [1 + 1 .. n -> Seq(X)]]
    BY <1>2, <1>3
<1>5. \E f \in [1 .. n -> Seq(X)] : Recurs(f, 1, n, seqs[1], F)
    <2>1. 1 \in Nat /\ n \in Nat /\ seqs[1] \in Seq(X)
        BY <1>2
    <2> HIDE DEF n
    <2> QED  BY <1>4, <2>1, RecursionExists, Zenon
<1>6. PICK f \in [1 .. n -> Seq(X)] : \A i \in 1 .. n : f[i] = IF i = 1 THEN seqs[1] ELSE F[f[i - 1]][i]
    BY <1>5 DEF Recurs
<1>7. \A i \in 1 .. n : f[i] = IF i = 1 THEN seqs[i] ELSE f[i - 1] \o seqs[i]
    <2> SUFFICES ASSUME NEW i \in 1 .. n, i # 1 PROVE f[i] = f[i - 1] \o seqs[i]
        BY <1>6
    <2>1. i - 1 \in 1 .. n /\ i \in 1 + 1 .. n
        OBVIOUS
    <2> QED  BY <1>3, <1>6, <2>1
<1>8. f = [i \in 1 .. n |-> IF i = 1 THEN seqs[i] ELSE f[i - 1] \o seqs[i]]
    BY <1>7
<1>9. flat = [i \in 1 .. n |-> IF i = 1 THEN seqs[i] ELSE flat[i - 1] \o seqs[i]]
    BY <1>8
<1> HIDE DEF flat
<1>10. flat[1] \in Seq(X) /\ \A i \in 1 + 1 .. n : flat[i - 1] \in Seq(X) => flat[i] \in Seq(X)
    <2>1. 1 \in 1 .. n /\ flat[1] = seqs[1]
        BY <1>2, <1>9
    <2>2. ASSUME NEW i \in 1 + 1 .. n, flat[i - 1] \in Seq(X) PROVE flat[i] \in Seq(X)
        <3>1. i \in 1 .. n /\ i # 1
            BY <1>2
        <3>2. flat[i] = flat[i - 1] \o seqs[i]
            BY <1>9, <3>1
        <3> QED  BY <1>2, <2>2, <3>1, <3>2
    <2> QED  BY <1>2, <2>1, <2>2
<1>11. \A i \in 1 .. n : flat[i] \in Seq(X)
    BY <1>2, <1>10, RecursionStays
<1>12. flat \in [1 .. n -> Seq(X)] /\ Flattens(flat, seqs)
    BY <1>9, <1>11 DEF Flattens
<1> QED  BY <1>1, <1>12

LEMMA FlattenTyped ==
    ASSUME NEW X, NEW seqs \in Seq(Seq(X)) PROVE FlattenSeq(seqs) \in Seq(X)
<1>1. CASE Len(seqs) = 0
    <2>1. seqs = <<>>
        BY <1>1, EmptySeq
    <2> QED  BY <1>1, <2>1 DEF FlattenSeq
<1>2. CASE Len(seqs) # 0
    <2>1. Len(seqs) \in 1 .. Len(seqs)
        BY <1>2, LenProperties
    <2>2. PICK f \in [1 .. Len(seqs) -> Seq(X)] : FlattenSeq(seqs) = f[Len(seqs)]
        BY <1>2, FlattenSteps
    <2> QED  BY <2>1, <2>2
<1> QED  BY <1>1, <1>2

(* A list without one of its entries, and what a loop that removes what it  *)
(* visits gets to see.                                                      *)
LEMMA RemoveFirstTyped ==
    ASSUME NEW X, NEW s \in Seq(X), NEW x PROVE RemoveFirst(s, x) \in Seq(X)
<1>1. CASE \E i \in 1 .. Len(s) : s[i] = x
    <2> DEFINE I == {i \in 1 .. Len(s) : s[i] = x}
    <2>1. I # {} /\ I \in SUBSET (0 .. Len(s)) /\ Len(s) \in Nat
        BY <1>1, LenProperties
    <2>2. Min(I) \in 1 .. Len(s)
        <3>1. Min(I) \in I
            BY <2>1, LeastAndGreatest, Zenon
        <3> QED  BY <3>1
    <2>3. RemoveFirst(s, x) = SubSeq(s, 1, Min(I) - 1) \o SubSeq(s, Min(I) + 1, Len(s))
        BY <1>1, <2>1 DEF RemoveFirst, RemoveAt, SelectInSeq
    <2> HIDE DEF I
    <2>4. PICK j : j = Min(I)
        OBVIOUS
    <2>5. SubSeq(s, 1, j - 1) \in Seq(X) /\ SubSeq(s, j + 1, Len(s)) \in Seq(X)
        BY <2>1, <2>2, <2>4
    <2> QED  BY <2>3, <2>4, <2>5
<1>2. CASE ~ \E i \in 1 .. Len(s) : s[i] = x
    BY <1>2 DEF RemoveFirst
<1> QED  BY <1>1, <1>2

(* A filtered list, entry by entry.                                         *)
Filters(f, s, x) ==
    /\ f[0] = <<>>
    /\ \A i \in 1 .. Len(s) : f[i] = IF s[i] = x THEN f[i - 1] ELSE Append(f[i - 1], s[i])

LEMMA WithoutSteps ==
    ASSUME NEW X, NEW s \in Seq(X), NEW x
    PROVE  \E f \in [0 .. Len(s) -> Seq(X)] : Filters(f, s, x) /\ Without(s, x) = f[Len(s)]
<1> DEFINE n == Len(s)
           it == CHOOSE f : f = [t \in SUBSET DOMAIN s |->
                    IF t = {} THEN <<>>
                    ELSE IF s[Max(t)] = x THEN f[t \ {Max(t)}] ELSE Append(f[t \ {Max(t)}], s[Max(t)])]
<1>1. Without(s, x) = it[DOMAIN s]
    BY Zenon DEF Without, FoldLeft, MapThenFoldSet
<1>2. n \in Nat /\ DOMAIN s = 1 .. n /\ \A i \in 1 .. n : s[i] \in X
    BY LenProperties, ElementOfSeq
<1>3. PICK F : F = [v \in Seq(X) |-> [i \in 1 .. n |-> IF s[i] = x THEN v ELSE Append(v, s[i])]]
    OBVIOUS
<1>4. F \in [Seq(X) -> [1 .. n -> Seq(X)]]
    BY <1>2, <1>3
<1>5. \E f \in [SUBSET (1 .. n) -> Seq(X)] : Folds(f, n, <<>>, F)
    <2>1. <<>> \in Seq(X)
        BY EmptySeq
    <2> HIDE DEF n
    <2> QED  BY <1>2, <1>4, <2>1, FoldExists, Zenon
<1>6. PICK f \in [SUBSET (1 .. n) -> Seq(X)] : Folds(f, n, <<>>, F)
    BY <1>5
<1> HIDE DEF n
<1>7. \A t \in SUBSET (1 .. n) : t # {} => Max(t) \in t
    <2> SUFFICES ASSUME NEW t \in SUBSET (1 .. n), t # {} PROVE Max(t) \in t
        OBVIOUS
    <2>1. t \in SUBSET (0 .. n)
        OBVIOUS
    <2> QED  BY <1>2, <2>1, LeastAndGreatest
<1>8. \A t \in SUBSET (1 .. n) :
        f[t] = IF t = {} THEN <<>>
               ELSE IF s[Max(t)] = x THEN f[t \ {Max(t)}] ELSE Append(f[t \ {Max(t)}], s[Max(t)])
    <2> SUFFICES ASSUME NEW t \in SUBSET (1 .. n), t # {}
                 PROVE  f[t] = IF s[Max(t)] = x THEN f[t \ {Max(t)}] ELSE Append(f[t \ {Max(t)}], s[Max(t)])
        BY <1>6 DEF Folds
    <2>1. Max(t) \in 1 .. n /\ f[t \ {Max(t)}] \in Seq(X)
        BY <1>6, <1>7
    <2>2. f[t] = F[f[t \ {Max(t)}]][Max(t)]
        BY <1>6 DEF Folds
    <2> QED  BY <1>3, <2>1, <2>2
<1>9. f = [t \in SUBSET (1 .. n) |-> IF t = {} THEN <<>>
               ELSE IF s[Max(t)] = x THEN f[t \ {Max(t)}] ELSE Append(f[t \ {Max(t)}], s[Max(t)])]
    BY <1>6, <1>8
<1>10. it = [t \in SUBSET (1 .. n) |-> IF t = {} THEN <<>>
               ELSE IF s[Max(t)] = x THEN it[t \ {Max(t)}] ELSE Append(it[t \ {Max(t)}], s[Max(t)])]
    BY <1>2, <1>9
<1> HIDE DEF it
<1>13. PICK p : p = [i \in 0 .. n |-> it[1 .. i]]
    OBVIOUS
<1>14. ASSUME NEW i \in 1 .. n
       PROVE  p[i] = IF s[i] = x THEN p[i - 1] ELSE Append(p[i - 1], s[i])
    <2>1. PICK t : t = 1 .. i
        OBVIOUS
    <2>2. t \in SUBSET (1 .. n) /\ t \in SUBSET (0 .. n) /\ t # {} /\ i \in t
        <3>1. n \in Nat /\ i \in Nat /\ 1 <= i /\ i <= n
            BY <1>2
        <3>2. i \in 1 .. i /\ \A y \in 1 .. i : y \in 1 .. n /\ y \in 0 .. n
            BY <3>1
        <3> QED  BY <2>1, <3>2
    <2>3. Max(t) \in t /\ \A y \in t : Max(t) >= y
        BY <1>2, <2>2, LeastAndGreatest
    <2>4. Max(t) = i
        BY <2>1, <2>2, <2>3
    <2>5. t \ {Max(t)} = 1 .. (i - 1)
        BY <2>1, <2>4
    <2>6. it[t] = IF s[i] = x THEN it[1 .. (i - 1)] ELSE Append(it[1 .. (i - 1)], s[i])
        BY <1>10, <2>2, <2>4, <2>5
    <2>7. i \in 0 .. n /\ i - 1 \in 0 .. n
        BY <1>2
    <2>8. p[i] = it[t] /\ p[i - 1] = it[1 .. (i - 1)]
        BY <1>13, <2>1, <2>7
    <2> QED  BY <2>6, <2>8
<1>15. p[0] = <<>> /\ 0 \in 0 .. n
    <2>1. 1 .. 0 = {} /\ 0 \in 0 .. n
        BY <1>2
    <2>2. p[0] = it[1 .. 0]
        BY <1>13, <2>1
    <2>3. it[{}] = <<>>
        BY <1>10
    <2> QED  BY <2>1, <2>2, <2>3
<1>16. \A i \in 0 .. n : p[i] \in Seq(X)
    <2>1. p[0] \in Seq(X)
        BY <1>15, EmptySeq
    <2>2. ASSUME NEW i \in 0 + 1 .. n, p[i - 1] \in Seq(X) PROVE p[i] \in Seq(X)
        <3>1. i \in 1 .. n /\ s[i] \in X
            BY <1>2
        <3>2. PICK v \in Seq(X) : v = p[i - 1]
            BY <2>2
        <3>3. Append(v, s[i]) \in Seq(X)
            BY <3>1
        <3>4. p[i] \in {v, Append(v, s[i])}
            BY <1>14, <3>1, <3>2
        <3> QED  BY <3>3, <3>4
    <2> QED  BY <1>2, <2>1, <2>2, RecursionStays
<1>17. p \in [0 .. n -> Seq(X)] /\ p[n] = it[DOMAIN s]
    BY <1>2, <1>13, <1>16
<1>18. Filters(p, s, x)
    BY <1>14, <1>15 DEF Filters, n
<1> QED  BY <1>1, <1>17, <1>18 DEF n

LEMMA WithoutTyped ==
    ASSUME NEW X, NEW s \in Seq(X), NEW x PROVE Without(s, x) \in Seq(X)
<1>1. PICK f \in [0 .. Len(s) -> Seq(X)] : Without(s, x) = f[Len(s)]
    BY WithoutSteps
<1> QED  BY <1>1, LenProperties

-----------------------------------------------------------------------------
(* The index. *)

Entries == Nodes \X Holders

(* One step of the walk of the index.                                       *)
BelowHolder(g, h, below) ==
    FlattenSeq([i \in DOMAIN g.contains[h] |->
        LET n == g.contains[h][i]
        IN  << <<n, h>> >> \o (IF n \in Containers THEN below[n] ELSE <<>>)])

LEMMA BelowHolderTyped ==
    ASSUME NEW g \in Graphs, NEW h \in Holders, NEW below \in [Holders -> Seq(Entries)]
    PROVE  BelowHolder(g, h, below) \in Seq(Entries)
<1> DEFINE s == g.contains[h]
           q == [i \in DOMAIN s |->
                    LET n == s[i] IN << <<n, h>> >> \o (IF n \in Containers THEN below[n] ELSE <<>>)]
<1>1. s \in Seq(Nodes)
    BY DEF Graphs
<1>2. Len(s) \in Nat /\ DOMAIN s = 1 .. Len(s) /\ \A i \in 1 .. Len(s) : s[i] \in Nodes
    BY <1>1, LenProperties, ElementOfSeq
<1>3. ASSUME NEW i \in 1 .. Len(s) PROVE q[i] \in Seq(Entries)
    <2>1. PICK n \in Nodes : n = s[i]
        BY <1>2
    <2>2. << <<n, h>> >> \in Seq(Entries)
        BY DEF Entries
    <2>3. (IF n \in Containers THEN below[n] ELSE <<>>) \in Seq(Entries)
        BY EmptySeq DEF Holders
    <2>4. q[i] = << <<n, h>> >> \o (IF n \in Containers THEN below[n] ELSE <<>>)
        BY <1>2, <2>1
    <2>5. PICK r : r = IF n \in Containers THEN below[n] ELSE <<>>
        OBVIOUS
    <2>6. PICK one : one = << <<n, h>> >>
        OBVIOUS
    <2>7. one \o r \in Seq(Entries)
        BY <2>2, <2>3, <2>5, <2>6
    <2> QED  BY <2>4, <2>5, <2>6, <2>7
<1>4. q \in Seq(Seq(Entries))
    <2> HIDE DEF q
    <2>1. q = [i \in 1 .. Len(s) |-> q[i]]
        BY <1>2 DEF q
    <2>2. [i \in 1 .. Len(s) |-> q[i]] \in Seq(Seq(Entries))
        BY <1>2, <1>3, IsASeq
    <2> QED  BY <2>1, <2>2
<1>5. BelowHolder(g, h, below) = FlattenSeq(q)
    BY DEF BelowHolder
<1> HIDE DEF q
<1> QED  BY <1>4, <1>5, FlattenTyped

LEMMA DepthIsNat == Depth \in Nat
BY MetamodelAssumption, FS_Subset, FS_CardinalityType DEF Depth, Nodes

(* The walk of the index goes one level deeper at each step; what it meets  *)
(* are nodes and holders.                                                   *)
Walks(g, w) ==
    \A h \in Holders :
        /\ w[0][h] = <<>>
        /\ \A d \in 1 .. Depth : w[d][h] = BelowHolder(g, h, w[d - 1])

LEMMA WalkSteps ==
    ASSUME NEW g \in Graphs
    PROVE  \E w \in [0 .. Depth -> [Holders -> Seq(Entries)]] : Walks(g, w) /\ Visits(g) = w[Depth][Root]
<1> DEFINE W == [Holders -> Seq(Entries)]
           b == [h \in Holders |-> <<>>]
           walk == CHOOSE f : f = [d \in 0 .. Depth |->
                      [h \in Holders |->
                          IF d = 0 THEN <<>>
                          ELSE FlattenSeq([i \in DOMAIN g.contains[h] |->
                                LET n == g.contains[h][i]
                                IN  << <<n, h>> >> \o (IF n \in Containers THEN f[d - 1][n] ELSE <<>>)])]]
<1>1. Visits(g) = walk[Depth][Root]
    BY DEF Visits
<1>2. b \in W
    BY EmptySeq
<1>3. PICK F : F = [w \in W |-> [d \in 0 + 1 .. Depth |-> [h \in Holders |-> BelowHolder(g, h, w)]]]
    OBVIOUS
<1>4. F \in [W -> [0 + 1 .. Depth -> W]]
    <2>1. \A w \in W, h \in Holders : BelowHolder(g, h, w) \in Seq(Entries)
        BY BelowHolderTyped
    <2> QED  BY <1>3, <2>1
<1>5. \E f \in [0 .. Depth -> W] : Recurs(f, 0, Depth, b, F)
    <2> HIDE DEF W, b
    <2>1. 0 \in Nat
        OBVIOUS
    <2> QED  BY <1>2, <1>4, <2>1, DepthIsNat, RecursionExists, Zenon
<1>6. PICK f \in [0 .. Depth -> W] : \A d \in 0 .. Depth : f[d] = IF d = 0 THEN b ELSE F[f[d - 1]][d]
    BY <1>5 DEF Recurs
<1>7. \A d \in 0 .. Depth : f[d] = [h \in Holders |-> IF d = 0 THEN <<>> ELSE BelowHolder(g, h, f[d - 1])]
    <2> SUFFICES ASSUME NEW d \in 0 .. Depth
                 PROVE  f[d] = [h \in Holders |-> IF d = 0 THEN <<>> ELSE BelowHolder(g, h, f[d - 1])]
        OBVIOUS
    <2>1. CASE d = 0
        BY <1>6, <2>1
    <2>2. CASE d # 0
        <3>1. d - 1 \in 0 .. Depth /\ d \in 0 + 1 .. Depth
            BY <2>2, DepthIsNat
        <3>2. f[d] = F[f[d - 1]][d] /\ f[d - 1] \in W
            BY <1>6, <2>2, <3>1
        <3> QED  BY <1>3, <2>2, <3>1, <3>2
    <2> QED  BY <2>1, <2>2
<1>8. f = [d \in 0 .. Depth |-> [h \in Holders |-> IF d = 0 THEN <<>> ELSE BelowHolder(g, h, f[d - 1])]]
    BY <1>6, <1>7
<1>9. walk = [d \in 0 .. Depth |-> [h \in Holders |-> IF d = 0 THEN <<>> ELSE BelowHolder(g, h, walk[d - 1])]]
    BY <1>8 DEF BelowHolder
<1> HIDE DEF walk
<1>10. walk[0] \in W
    BY <1>9, EmptySeq, DepthIsNat
<1>11. ASSUME NEW d \in 0 + 1 .. Depth, walk[d - 1] \in W PROVE walk[d] \in W
    <2>1. d \in 0 .. Depth /\ d # 0
        BY DepthIsNat
    <2>2. walk[d] = [h \in Holders |-> BelowHolder(g, h, walk[d - 1])]
        BY <1>9, <2>1
    <2> QED  BY <1>11, <2>2, BelowHolderTyped
<1>12. walk \in [0 .. Depth -> W]
    <2> HIDE DEF W
    <2>1. \A d \in 0 .. Depth : walk[d] \in W
        BY <1>10, <1>11, DepthIsNat, RecursionStays
    <2> QED  BY <1>9, <2>1
<1>13. Walks(g, walk)
    <2>1. \A d \in 1 .. Depth : d \in 0 .. Depth /\ d # 0
        BY DepthIsNat
    <2>2. 0 \in 0 .. Depth
        BY DepthIsNat
    <2>3. \A h \in Holders : walk[0][h] = <<>>
        BY <1>9, <2>2
    <2>4. ASSUME NEW d \in 1 .. Depth PROVE walk[d] = [h \in Holders |-> BelowHolder(g, h, walk[d - 1])]
        BY <1>9, <2>1
    <2>5. \A h \in Holders, d \in 1 .. Depth : walk[d][h] = BelowHolder(g, h, walk[d - 1])
        BY <2>4
    <2> QED  BY <2>3, <2>5 DEF Walks
<1> QED  BY <1>1, <1>12, <1>13

LEMMA VisitsTyped == ASSUME NEW g \in Graphs PROVE Visits(g) \in Seq(Entries)
<1>1. PICK w \in [0 .. Depth -> [Holders -> Seq(Entries)]] : Visits(g) = w[Depth][Root]
    BY WalkSteps
<1>2. Depth \in 0 .. Depth /\ Root \in Holders
    BY DepthIsNat DEF Holders
<1> QED  BY <1>1, <1>2

LEMMA IndexTyped ==
    ASSUME NEW g \in Graphs
    PROVE  indexGraphModel(g) \in [parent : [Nodes -> Holders \union {None}], edges : SUBSET Edges]
<1> DEFINE v == Visits(g)
           last(n) == SelectLastInSeq(v, LAMBDA e : e[1] = n)
<1>1. v \in Seq(Entries)
    BY VisitsTyped
<1> HIDE DEF v
<1>2. ASSUME NEW n \in Nodes PROVE (IF last(n) = 0 THEN None ELSE v[last(n)][2]) \in Holders \union {None}
    <2> DEFINE I == {i \in 1 .. Len(v) : v[i][1] = n}
    <2>1. last(n) = IF I # {} THEN Max(I) ELSE 0
        BY DEF SelectLastInSeq
    <2>2. Len(v) \in Nat /\ I \in SUBSET (0 .. Len(v))
        BY <1>1, LenProperties
    <2>3. I # {} => Max(I) \in I
        <3> HIDE DEF I
        <3> QED  BY <2>2, LeastAndGreatest, Zenon
    <2>4. last(n) = 0 \/ last(n) \in 1 .. Len(v)
        BY <2>1, <2>3
    <2>5. \A i \in 1 .. Len(v) : v[i][2] \in Holders
        BY <1>1, ElementOfSeq DEF Entries
    <2> QED  BY <2>4, <2>5
<1> HIDE DEF last
<1>3. [n \in Nodes |-> IF last(n) = 0 THEN None ELSE v[last(n)][2]] \in [Nodes -> Holders \union {None}]
    BY <1>2
<1>4. g.edges \in SUBSET Edges
    BY DEF Graphs
<1>5. indexGraphModel(g) = [parent |-> [n \in Nodes |-> IF last(n) = 0 THEN None ELSE v[last(n)][2]],
                            edges |-> g.edges]
    BY DEF indexGraphModel, v, last
<1> QED  BY <1>3, <1>4, <1>5

-----------------------------------------------------------------------------
(* What is left of g when elements and options of ends in conflict go.      *)
Reductions(g) ==
    {k \in Graphs :
        /\ k.edges \subseteq g.edges
        /\ k.ghosts \subseteq g.ghosts
        /\ \A e \in k.edges, n \in Nodes :
              /\ g.src[e] = {n} => k.src[e] = {n}
              /\ g.tgt[e] = {n} => k.tgt[e] = {n}}

LEMMA ReductionsCompose ==
    ASSUME NEW g, NEW k \in Reductions(g), NEW l \in Reductions(k) PROVE l \in Reductions(g)
BY DEF Reductions

LEMMA EntryRemovalReduces ==
    ASSUME NEW g \in Graphs, NEW h \in Holders, NEW n PROVE RemoveEntry(g, h, n) \in Reductions(g)
<1>1. RemoveFirst(g.contains[h], n) \in Seq(Nodes)
    BY RemoveFirstTyped DEF Graphs
<1>2. PICK s \in Seq(Nodes) : s = RemoveFirst(g.contains[h], n)
    BY <1>1
<1>3. RemoveEntry(g, h, n) = [g EXCEPT !.contains[h] = s, !.ghosts = @ \ {<<h, n>>}]
    BY <1>2 DEF RemoveEntry
<1>4. PICK c \in [Holders -> Seq(Nodes)] : c = [g.contains EXCEPT ![h] = s]
    BY DEF Graphs
<1>5. PICK ghosts \in SUBSET g.ghosts : ghosts = g.ghosts \ {<<h, n>>}
    OBVIOUS
<1>6. PICK k : k = [g EXCEPT !.contains = c, !.ghosts = ghosts]
    OBVIOUS
<1>7. /\ k \in Graphs
      /\ k.edges = g.edges /\ k.src = g.src /\ k.tgt = g.tgt /\ k.ghosts = ghosts
    BY <1>6 DEF Graphs
<1>8. k = RemoveEntry(g, h, n)
    BY <1>3, <1>4, <1>5, <1>6 DEF Graphs
<1> QED  BY <1>7, <1>8 DEF Reductions

LEMMA EdgeRemovalReduces ==
    ASSUME NEW g \in Graphs, NEW n \in Nodes PROVE RemoveAssociatedEdges(g, n) \in Reductions(g)
<1> DEFINE toDelete == {e \in g.edges : g.src[e] = {n} \/ g.tgt[e] = {n}}
           rest == g.edges \ toDelete
           src == [e \in Edges |-> IF e \in rest THEN g.src[e] \ {n} ELSE g.src[e]]
           tgt == [e \in Edges |-> IF e \in rest /\ n \notin g.src[e] THEN g.tgt[e] \ {n} ELSE g.tgt[e]]
           ghosts == g.ghosts \ {<<Root, e>> : e \in toDelete}
           k == [g EXCEPT !.edges = rest, !.src = src, !.tgt = tgt, !.ghosts = ghosts]
<1>1. RemoveAssociatedEdges(g, n) = k
    BY DEF RemoveAssociatedEdges
<1>2. /\ src \in [Edges -> SUBSET Nodes] /\ tgt \in [Edges -> SUBSET Nodes]
      /\ rest \subseteq g.edges /\ ghosts \subseteq g.ghosts
    BY DEF Graphs
<1>3. \A e \in rest, m \in Nodes :
        /\ g.src[e] = {m} => src[e] = {m}
        /\ g.tgt[e] = {m} => tgt[e] = {m}
    <2> SUFFICES ASSUME NEW e \in rest, NEW m \in Nodes
                 PROVE  /\ g.src[e] = {m} => src[e] = {m}
                        /\ g.tgt[e] = {m} => tgt[e] = {m}
        OBVIOUS
    <2>1. e \in Edges /\ g.src[e] # {n} /\ g.tgt[e] # {n}
        BY DEF Graphs
    <2>2. src[e] = g.src[e] \ {n} /\ tgt[e] \in {g.tgt[e], g.tgt[e] \ {n}}
        BY <2>1
    <2> HIDE DEF src, tgt, rest
    <2> QED  BY <2>1, <2>2
<1> HIDE DEF rest, src, tgt, ghosts
<1>4. /\ k \in Graphs
      /\ k.edges = rest /\ k.src = src /\ k.tgt = tgt /\ k.ghosts = ghosts
    BY <1>2 DEF Graphs
<1> HIDE DEF k
<1> QED  BY <1>1, <1>2, <1>3, <1>4 DEF Reductions

(* The runs of a deletion that stay in the models V and remove entries of E *)
(* only, and E with each container of it the entries of what that holds.    *)
Runs(V, E) == [g : V, loops : Seq([entry : E, visited : Nat])]

Spreads(V, E) ==
    \A k \in V, e \in E : e[1] \in Containers => \A n \in ToSet(k.contains[e[1]]) : <<n, e[1]>> \in E

LEMMA DeletionStepStays ==
    ASSUME NEW V, NEW E, Spreads(V, E),
           \A k \in V, e \in E : RemoveEntry(RemoveAssociatedEdges(k, e[1]), e[2], e[1]) \in V,
           NEW r \in Runs(V, E)
    PROVE  DeletionStep(r) \in Runs(V, E)
<1> DEFINE L == [entry : E, visited : Nat]
<1>1. CASE r.loops = <<>>
    BY <1>1 DEF DeletionStep
<1>2. CASE r.loops # <<>>
    <2>1. r.g \in V /\ r.loops \in Seq(L) /\ r = [g |-> r.g, loops |-> r.loops]
        BY DEF Runs
    <2>2. PICK loop \in L, rest \in Seq(L) : loop = Last(r.loops) /\ rest = Front(r.loops)
        <3> HIDE DEF L
        <3>1. PICK q \in Seq(L) : q = r.loops
            BY <2>1
        <3>2. Len(q) \in Nat /\ Len(q) # 0
            BY <1>2, <3>1, LenProperties, EmptySeq
        <3>3. q[Len(q)] \in L /\ SubSeq(q, 1, Len(q) - 1) \in Seq(L)
            BY <3>2, ElementOfSeq
        <3> QED  BY <3>1, <3>3 DEF Last, Front
    <2>5. PICK n, h : n = loop.entry[1] /\ h = loop.entry[2]
        OBVIOUS
    <2>6. loop.entry \in E /\ loop.visited \in Nat
        BY <2>2
    <2>7. CASE n \in Containers /\ loop.visited < Len(r.g.contains[n])
        <3>1. PICK c : c = r.g.contains[n][loop.visited + 1]
            OBVIOUS
        <3>2. <<c, n>> \in E
            <4>1. c \in ToSet(r.g.contains[n])
                BY <2>6, <2>7, <3>1 DEF ToSet
            <4> QED  BY <2>1, <2>5, <2>6, <2>7, <4>1 DEF Spreads
        <3>3. PICK u \in L, w \in L : u = [loop EXCEPT !.visited = @ + 1] /\ w = [entry |-> <<c, n>>, visited |-> 0]
            <4>1. [entry |-> loop.entry, visited |-> loop.visited + 1] \in L /\ [entry |-> <<c, n>>, visited |-> 0] \in L
                BY <2>6, <3>2
            <4>2. [loop EXCEPT !.visited = @ + 1] = [entry |-> loop.entry, visited |-> loop.visited + 1]
                BY <2>2
            <4> QED  BY <4>1, <4>2
        <3>4. DeletionStep(r) = [r EXCEPT !.loops = rest \o <<u, w>>]
            BY <1>2, <2>2, <2>5, <2>7, <3>1, <3>3 DEF DeletionStep
        <3>5. rest \o <<u, w>> \in Seq(L)
            BY <2>2, <3>3
        <3> QED  BY <2>1, <3>4, <3>5 DEF Runs
    <2>8. CASE ~(n \in Containers /\ loop.visited < Len(r.g.contains[n]))
        <3>1. PICK k \in V : k = RemoveEntry(RemoveAssociatedEdges(r.g, n), h, n)
            BY <2>1, <2>5, <2>6
        <3>2. DeletionStep(r) = [g |-> k, loops |-> rest]
            BY <1>2, <2>2, <2>5, <2>8, <3>1 DEF DeletionStep
        <3> QED  BY <2>2, <3>1, <3>2 DEF Runs
    <2> QED  BY <2>7, <2>8
<1> QED  BY <1>1, <1>2

(* What the removal of an entry and of the edges of its node keeps, the     *)
(* deletion of a node keeps, whatever its loops visit below and however it  *)
(* ends.                                                                    *)
LEMMA NodeDeletionStays ==
    ASSUME NEW V, NEW E, Spreads(V, E),
           \A k \in V, e \in E : RemoveEntry(RemoveAssociatedEdges(k, e[1]), e[2], e[1]) \in V,
           NEW g \in V, NEW h, NEW n, <<n, h>> \in E
    PROVE  deleteNode(g, h, n) \in Runs(V, E)
<1> DEFINE R == Runs(V, E)
           b == [g |-> g, loops |-> << [entry |-> <<n, h>>, visited |-> 0] >>]
           run == CHOOSE f : f = [k \in 0 .. Patience |-> IF k = 0 THEN b ELSE DeletionStep(f[k - 1])]
<1>1. deleteNode(g, h, n) = run[Patience]
    BY DEF deleteNode
<1>2. b \in R
    <2>1. PICK l \in [entry : E, visited : Nat] : l = [entry |-> <<n, h>>, visited |-> 0]
        OBVIOUS
    <2> QED  BY <2>1 DEF Runs
<1>3. PICK F : F = [r \in R |-> [k \in 0 + 1 .. Patience |-> DeletionStep(r)]]
    OBVIOUS
<1>4. F \in [R -> [0 + 1 .. Patience -> R]]
    BY <1>3, DeletionStepStays
<1>5. \E f \in [0 .. Patience -> R] : Recurs(f, 0, Patience, b, F)
    <2> HIDE DEF R, b
    <2>1. 0 \in Nat
        OBVIOUS
    <2> QED  BY <1>2, <1>4, <2>1, PatienceAssumption, RecursionExists, Zenon
<1> HIDE DEF b, R
<1>6. PICK f \in [0 .. Patience -> R] : \A k \in 0 .. Patience : f[k] = IF k = 0 THEN b ELSE F[f[k - 1]][k]
    BY <1>5 DEF Recurs
<1>7. \A k \in 0 .. Patience : f[k] = IF k = 0 THEN b ELSE DeletionStep(f[k - 1])
    <2> SUFFICES ASSUME NEW k \in 0 .. Patience, k # 0 PROVE f[k] = DeletionStep(f[k - 1])
        BY <1>6
    <2>1. k - 1 \in 0 .. Patience /\ k \in 0 + 1 .. Patience
        BY PatienceAssumption
    <2>2. f[k] = F[f[k - 1]][k] /\ f[k - 1] \in R
        BY <1>6, <2>1
    <2> QED  BY <1>3, <2>1, <2>2
<1>8. f = [k \in 0 .. Patience |-> IF k = 0 THEN b ELSE DeletionStep(f[k - 1])]
    BY <1>6, <1>7
<1>9. run = [k \in 0 .. Patience |-> IF k = 0 THEN b ELSE DeletionStep(run[k - 1])]
    BY <1>8
<1> HIDE DEF run
<1>10. \A k \in 0 .. Patience : run[k] = IF k = 0 THEN b ELSE DeletionStep(run[k - 1])
    BY <1>9
<1>11. run[0] \in R
    BY <1>2, <1>10, PatienceAssumption
<1>12. ASSUME NEW k \in 0 + 1 .. Patience, run[k - 1] \in R PROVE run[k] \in R
    <2>1. run[k] = DeletionStep(run[k - 1])
        BY <1>10, PatienceAssumption
    <2> QED  BY <1>12, <2>1, DeletionStepStays DEF R
<1>13. \A k \in 0 .. Patience : run[k] \in R
    BY <1>11, <1>12, PatienceAssumption, RecursionStays
<1>14. Patience \in 0 .. Patience
    BY PatienceAssumption
<1> QED  BY <1>1, <1>13, <1>14 DEF R

(* A deletion of a node, of its edges and of what it visits below, and the  *)
(* deletion of a list of ids, take things away and turn no end of an edge.  *)
LEMMA NodeDeletionReduces ==
    ASSUME NEW g \in Graphs, NEW h \in Holders, NEW n \in Nodes
    PROVE  deleteNode(g, h, n) \in Runs(Reductions(g), Entries)
<1>1. ASSUME NEW a \in Reductions(g), NEW e \in Entries
      PROVE  RemoveEntry(RemoveAssociatedEdges(a, e[1]), e[2], e[1]) \in Reductions(g)
    <2>1. PICK x \in Nodes, y \in Holders : e[1] = x /\ e[2] = y
        BY DEF Entries
    <2>2. RemoveAssociatedEdges(a, x) \in Reductions(a) /\ a \in Graphs
        BY EdgeRemovalReduces DEF Reductions
    <2>3. PICK k \in Reductions(a) : k = RemoveAssociatedEdges(a, x)
        BY <2>2
    <2>4. RemoveEntry(k, y, x) \in Reductions(k) /\ k \in Reductions(g)
        BY <2>3, EntryRemovalReduces, ReductionsCompose DEF Reductions
    <2>5. RemoveEntry(k, y, x) \in Reductions(g)
        BY <2>4, ReductionsCompose
    <2> QED  BY <2>1, <2>3, <2>5
<1>2. Spreads(Reductions(g), Entries)
    <2> SUFFICES ASSUME NEW k \in Reductions(g), NEW c \in Containers, NEW m \in ToSet(k.contains[c])
                 PROVE  <<m, c>> \in Entries
        BY DEF Spreads
    <2>1. c \in Holders /\ k.contains[c] \in Seq(Nodes)
        BY DEF Reductions, Graphs, Holders
    <2>2. m \in Nodes
        BY <2>1, LenProperties, ElementOfSeq DEF ToSet
    <2> QED  BY <2>1, <2>2 DEF Entries
<1>3. g \in Reductions(g) /\ <<n, h>> \in Entries
    BY DEF Reductions, Entries
<1> QED  BY <1>1, <1>2, <1>3, NodeDeletionStays

LEMMA ElementDeletionReduces ==
    ASSUME NEW g, index.parent \in [Nodes -> Holders \union {None}],
           NEW a \in [g : Reductions(g), threw : BOOLEAN], NEW x \in Nodes \union Edges
    PROVE  deleteElementById(a, x) \in [g : Reductions(g), threw : BOOLEAN]
<1> DEFINE h == index.parent[x]
<1>1. a.g \in Reductions(g) /\ a.g \in Graphs /\ a.threw \in BOOLEAN
    BY DEF Reductions
<1>2. CASE a.threw \/ TypeOf[x] \in DisabledDelete
    BY <1>2 DEF deleteElementById
<1>3. CASE ~(a.threw \/ TypeOf[x] \in DisabledDelete) /\ x \in Edges
    <2>1. CASE x \in index.edges
        <3>1. PICK k : k = [a.g EXCEPT !.edges = @ \ {x}, !.ghosts = @ \ {<<Root, x>>}]
            OBVIOUS
        <3>2. /\ k \in Graphs
              /\ k.edges = a.g.edges \ {x} /\ k.src = a.g.src /\ k.tgt = a.g.tgt
              /\ k.ghosts = a.g.ghosts \ {<<Root, x>>}
            BY <1>1, <3>1 DEF Graphs
        <3>3. k \in Reductions(a.g)
            BY <3>2 DEF Reductions
        <3>4. k \in Reductions(g)
            BY <1>1, <3>3, ReductionsCompose
        <3>5. deleteElementById(a, x) = [a EXCEPT !.g.edges = @ \ {x}, !.g.ghosts = @ \ {<<Root, x>>}]
            BY <1>3, <2>1 DEF deleteElementById
        <3>6. deleteElementById(a, x) = [a EXCEPT !.g = k]
            BY <3>1, <3>5
        <3> QED  BY <3>4, <3>6
    <2>2. CASE x \notin index.edges
        BY <1>3, <2>2 DEF deleteElementById
    <2> QED  BY <2>1, <2>2
<1>4. CASE ~(a.threw \/ TypeOf[x] \in DisabledDelete) /\ x \notin Edges
    <2>1. h \in Holders \union {None} /\ x \in Nodes
        BY <1>4
    <2>2. CASE h # None /\ x \in ToSet(a.g.contains[h])
        <3>1. PICK r \in Runs(Reductions(a.g), Entries) : r = deleteNode(a.g, h, x)
            BY <1>1, <2>1, <2>2, NodeDeletionReduces
        <3>2. r.g \in Reductions(g)
            BY <1>1, ReductionsCompose DEF Runs
        <3>3. PICK t \in BOOLEAN : t = (r.loops # <<>>)
            OBVIOUS
        <3>4. deleteElementById(a, x) = [a EXCEPT !.g = r.g, !.threw = t]
            BY <1>4, <2>2, <3>1, <3>3 DEF deleteElementById
        <3> QED  BY <3>2, <3>4
    <2>3. CASE ~(h # None /\ x \in ToSet(a.g.contains[h]))
        <3>1. deleteElementById(a, x) \in {a, [a EXCEPT !.threw = a.g.edges # {}]}
            BY <1>4, <2>3 DEF deleteElementById
        <3> QED  BY <3>1
    <2> QED  BY <2>2, <2>3
<1> QED  BY <1>2, <1>3, <1>4

(* Forgetting what the root no longer reaches does neither.                 *)
LEMMA CollectionReduces ==
    ASSUME NEW g \in Graphs PROVE Collected(g) \in Reductions(g)
<1> DEFINE live == LiveNodes(g)
           contains == [h \in Holders |-> IF h \in live \union {Root} THEN g.contains[h] ELSE <<>>]
           src == [e \in Edges |-> IF e \in g.edges THEN g.src[e] ELSE {}]
           tgt == [e \in Edges |-> IF e \in g.edges THEN g.tgt[e] ELSE {}]
           ghosts == {x \in g.ghosts : x[1] \in live \union {Root}}
           k == [g EXCEPT !.contains = contains, !.src = src, !.tgt = tgt, !.ghosts = ghosts]
<1>1. Collected(g) = k
    BY DEF Collected
<1>2. /\ contains \in [Holders -> Seq(Nodes)]
      /\ src \in [Edges -> SUBSET Nodes] /\ tgt \in [Edges -> SUBSET Nodes]
      /\ ghosts \subseteq g.ghosts
    BY EmptySeq DEF Graphs
<1>3. \A e \in g.edges : src[e] = g.src[e] /\ tgt[e] = g.tgt[e]
    BY DEF Graphs
<1> HIDE DEF live, contains, src, tgt, ghosts
<1>4. /\ k \in Graphs
      /\ k.edges = g.edges /\ k.src = src /\ k.tgt = tgt /\ k.ghosts = ghosts
    BY <1>2 DEF Graphs
<1> HIDE DEF k
<1> QED  BY <1>1, <1>2, <1>3, <1>4 DEF Reductions

(* What the deletion of each id keeps, the deletion of the list keeps.       *)
LEMMA SelectionDeletionStays ==
    ASSUME NEW V, [g |-> graph, threw |-> FALSE] \in V, NEW ids \in Selections, Delete(ids),
           \A a \in V, x \in ToSet(ids) : deleteElementById(a, x) \in V
    PROVE  \E a \in V : graph' = Collected(a.g)
<1> DEFINE b == [g |-> graph, threw |-> FALSE]
           n == Len(ids)
           it == CHOOSE f : f = [t \in SUBSET DOMAIN ids |->
                    IF t = {} THEN b ELSE deleteElementById(f[t \ {Max(t)}], ids[Max(t)])]
<1>1. graph' = Collected(it[DOMAIN ids].g)
    BY Zenon DEF Delete, FoldLeft, MapThenFoldSet
<1>2. n \in Nat /\ DOMAIN ids = 1 .. n
    BY SelectionsAssumption, LenProperties
<1>3. ASSUME NEW a \in V, NEW i \in 1 .. n PROVE deleteElementById(a, ids[i]) \in V
    <2>1. ids[i] \in ToSet(ids)
        BY <1>2 DEF ToSet
    <2> QED  BY <2>1
<1>5. b \in V
    OBVIOUS
<1> HIDE DEF b, n
<1>6. PICK F : F = [a \in V |-> [i \in 1 .. n |-> deleteElementById(a, ids[i])]]
    OBVIOUS
<1>7. F \in [V -> [1 .. n -> V]]
    BY <1>3, <1>6
<1>8. PICK f \in [SUBSET (1 .. n) -> V] : Folds(f, n, b, F)
    <2>1. \E f \in [SUBSET (1 .. n) -> V] : Folds(f, n, b, F)
        BY <1>2, <1>5, <1>7, FoldExists, Zenon
    <2> QED  BY <2>1
<1>9. \A t \in SUBSET (1 .. n) : t # {} => Max(t) \in t
    <2> SUFFICES ASSUME NEW t \in SUBSET (1 .. n), t # {} PROVE Max(t) \in t
        OBVIOUS
    <2>1. t \in SUBSET (0 .. n)
        OBVIOUS
    <2> QED  BY <1>2, <2>1, LeastAndGreatest
<1>10. \A t \in SUBSET (1 .. n) : f[t] = IF t = {} THEN b ELSE deleteElementById(f[t \ {Max(t)}], ids[Max(t)])
    <2> SUFFICES ASSUME NEW t \in SUBSET (1 .. n), t # {}
                 PROVE  f[t] = deleteElementById(f[t \ {Max(t)}], ids[Max(t)])
        BY <1>8 DEF Folds
    <2>1. Max(t) \in 1 .. n /\ f[t \ {Max(t)}] \in V
        BY <1>8, <1>9
    <2>2. f[t] = F[f[t \ {Max(t)}]][Max(t)]
        BY <1>8 DEF Folds
    <2> QED  BY <1>6, <2>1, <2>2
<1>11. f = [t \in SUBSET (1 .. n) |-> IF t = {} THEN b ELSE deleteElementById(f[t \ {Max(t)}], ids[Max(t)])]
    BY <1>8, <1>10
<1>12. it = [t \in SUBSET (1 .. n) |-> IF t = {} THEN b ELSE deleteElementById(it[t \ {Max(t)}], ids[Max(t)])]
    BY <1>2, <1>11
<1> HIDE DEF it
<1>13. it[{}] \in V
    BY <1>5, <1>12
<1>14. ASSUME NEW t \in SUBSET (1 .. n), t # {}, it[t \ {Max(t)}] \in V, Max(t) \in 1 .. n
       PROVE  it[t] \in V
    <2>1. it[t] = deleteElementById(it[t \ {Max(t)}], ids[Max(t)])
        BY <1>12, <1>14
    <2> QED  BY <1>3, <1>14, <2>1
<1>15. it[DOMAIN ids] \in V
    BY <1>2, <1>13, <1>14, FoldStays
<1> QED  BY <1>1, <1>15

LEMMA DeletionReduces ==
    ASSUME GraphTypeOK, NEW ids \in Selections, Delete(ids) PROVE graph' \in Reductions(graph)
<1>1. ASSUME NEW a \in [g : Reductions(graph), threw : BOOLEAN], NEW x \in ToSet(ids)
      PROVE  deleteElementById(a, x) \in [g : Reductions(graph), threw : BOOLEAN]
    <2>1. index.parent \in [Nodes -> Holders \union {None}]
        BY DEF GraphTypeOK
    <2>2. x \in Nodes \union Edges
        BY SelectionsAssumption, LenProperties, ElementOfSeq DEF ToSet
    <2> QED  BY <2>1, <2>2, ElementDeletionReduces
<1>2. [g |-> graph, threw |-> FALSE] \in [g : Reductions(graph), threw : BOOLEAN]
    BY DEF GraphTypeOK, Reductions
<1>3. PICK a \in [g : Reductions(graph), threw : BOOLEAN] : graph' = Collected(a.g)
    BY <1>1, <1>2, SelectionDeletionStays
<1>4. PICK k \in Reductions(graph) : k = a.g
    OBVIOUS
<1>5. Collected(k) \in Reductions(k)
    BY CollectionReduces DEF Reductions
<1> QED  BY <1>3, <1>4, <1>5, ReductionsCompose

-----------------------------------------------------------------------------
(* The types. *)

LEMMA InitTyped == GraphInit => GraphTypeOK
BY InitialGraphsAssumption, IndexTyped DEF GraphInit, GraphTypeOK

LEMMA StillTyped ==
    ASSUME graph' \in Graphs, Reindex PROVE GraphTypeOK'
BY IndexTyped DEF Reindex, GraphTypeOK

LEMMA NextTyped == GraphTypeOK /\ [GraphNext]_graphVars => GraphTypeOK'
<1> SUFFICES ASSUME GraphTypeOK, [GraphNext]_graphVars PROVE GraphTypeOK'
    OBVIOUS
<1>1. ASSUME NEW h \in Holders, NEW n \in Nodes, CreateNode(h, n) PROVE GraphTypeOK'
    <2>1. PICK s \in Seq(Nodes) : s = Append(graph.contains[h], n)
        BY AppendProperties DEF GraphTypeOK, Graphs
    <2>2. graph' = [graph EXCEPT !.contains[h] = s] /\ Reindex
        BY <1>1, <2>1 DEF CreateNode
    <2>3. graph' \in Graphs
        BY <2>2 DEF GraphTypeOK, Graphs
    <2> QED  BY <2>2, <2>3, StillTyped
<1>2. ASSUME NEW e \in Edges, NEW s \in Nodes, NEW t \in Nodes, CreateEdge(e, s, t)
      PROVE  GraphTypeOK'
    <2>1. graph' \in Graphs /\ Reindex
        BY <1>2 DEF CreateEdge, GraphTypeOK, Graphs
    <2> QED  BY <2>1, StillTyped
<1>3. ASSUME NEW ids \in Selections, Delete(ids) PROVE GraphTypeOK'
    <2>1. graph' \in Graphs /\ Reindex
        BY <1>3, DeletionReduces DEF Delete, Reductions
    <2> QED  BY <2>1, StillTyped
<1>4. ASSUME NEW x \in Nodes \union Edges, Restore(x) PROVE GraphTypeOK'
    <2>1. PICK ghosts \in SUBSET graph.ghosts : graph' = [graph EXCEPT !.ghosts = ghosts]
        BY <1>4 DEF Restore
    <2>2. graph' \in Graphs
        BY <2>1 DEF GraphTypeOK, Graphs
    <2> QED  BY <1>4, <2>2, StillTyped DEF Restore
<1>5. ASSUME NEW e \in Edges, NEW n \in Nodes, ChooseSource(e, n) \/ ChooseTarget(e, n)
      PROVE  GraphTypeOK'
    <2>1. CASE ChooseSource(e, n)
        BY <2>1, StillTyped DEF ChooseSource, GraphTypeOK, Graphs
    <2>2. CASE ChooseTarget(e, n)
        BY <2>2, StillTyped DEF ChooseTarget, GraphTypeOK, Graphs
    <2> QED  BY <1>5, <2>1, <2>2
<1>6. ASSUME NEW e \in Edges, NEW s \in Nodes, NEW t \in Nodes, Reconnect(e, s, t)
      PROVE  GraphTypeOK'
    <2>1. graph' \in Graphs /\ Reindex
        BY <1>6 DEF Reconnect, GraphTypeOK, Graphs
    <2> QED  BY <2>1, StillTyped
<1>7. ASSUME NEW n \in Nodes, NEW t \in Holders, Move(n, t) PROVE GraphTypeOK'
    <2> DEFINE old == index.parent[n]
               removed == [graph.contains EXCEPT ![old] = Without(@, n)]
               moved == [removed EXCEPT ![t] = Append(@, n)]
    <2>1. old \in Holders
        BY <1>7 DEF Move, findNode, GraphTypeOK
    <2>2. removed \in [Holders -> Seq(Nodes)]
        BY <2>1, WithoutTyped DEF GraphTypeOK, Graphs
    <2>3. moved \in [Holders -> Seq(Nodes)]
        <3> HIDE DEF removed
        <3>1. Append(removed[t], n) \in Seq(Nodes)
            BY <2>2, AppendProperties
        <3> QED  BY <2>2, <3>1
    <2>4. graph' \in {graph, [graph EXCEPT !.contains = moved, !.ghosts = @ \ {<<old, n>>}]} /\ Reindex
        BY <1>7 DEF Move, changeContainer
    <2> HIDE DEF old, moved
    <2>5. PICK ghosts \in SUBSET graph.ghosts : ghosts = graph.ghosts \ {<<old, n>>}
        OBVIOUS
    <2>6. graph' \in {graph, [graph EXCEPT !.contains = moved, !.ghosts = ghosts]}
        BY <2>4, <2>5
    <2>7. graph' \in Graphs
        BY <2>3, <2>6 DEF GraphTypeOK, Graphs
    <2> QED  BY <2>4, <2>7, StillTyped
<1>8. CASE UNCHANGED graphVars
    BY <1>8 DEF graphVars, GraphTypeOK
<1> QED
    BY <1>1, <1>2, <1>3, <1>4, <1>5, <1>6, <1>7, <1>8
    DEF GraphNext, Creation, Deletion, ConflictResolution, Reconnection

(* No sequence of operations leaves the form of a model or of its index,    *)
(* deletions of any selection in a containment of any depth included.       *)
THEOREM TypesHold == GraphSpec => []GraphTypeOK
BY InitTyped, NextTyped, PTL DEF GraphSpec

-----------------------------------------------------------------------------
(* Bounds. *)

EdgesAreIndexed == index.edges = graph.edges

(* Every operation, whatever it did to the model, ends with a submission.   *)
LEMMA ReindexedEdges == ASSUME Reindex PROVE EdgesAreIndexed'
BY DEF Reindex, indexGraphModel, EdgesAreIndexed

LEMMA InitEdgesAreIndexed == GraphInit => EdgesAreIndexed
BY DEF GraphInit, indexGraphModel, EdgesAreIndexed

LEMMA NextEdgesAreIndexed ==
    EdgesAreIndexed /\ [GraphNext]_graphVars => EdgesAreIndexed'
<1> SUFFICES ASSUME EdgesAreIndexed, [GraphNext]_graphVars PROVE EdgesAreIndexed'
    OBVIOUS
<1>1. CASE GraphNext
    <2>1. Reindex
        BY <1>1 DEF GraphNext, Creation, CreateNode, CreateEdge, Deletion, Delete,
                    ConflictResolution, Restore, ChooseSource, ChooseTarget,
                    Reconnection, Reconnect, Move
    <2> QED  BY <2>1, ReindexedEdges
<1>2. CASE UNCHANGED graphVars
    BY <1>2 DEF graphVars, EdgesAreIndexed
<1> QED  BY <1>1, <1>2

(* One edge more is one more at most among those a constraint is about.     *)
LEMMA CountWithOneMore ==
    ASSUME NEW S, IsFiniteSet(S), NEW e, NEW T, T \subseteq S \union {e}
    PROVE  /\ Cardinality(T) \in Nat /\ Cardinality(S) \in Nat
           /\ Cardinality(T) <= Cardinality(S) + 1
           /\ e \notin T => Cardinality(T) <= Cardinality(S)
<1>1. IsFiniteSet(S \union {e}) /\ Cardinality(S) \in Nat
      /\ Cardinality(S \union {e}) = IF e \in S THEN Cardinality(S) ELSE Cardinality(S) + 1
    BY FS_AddElement, FS_CardinalityType
<1>2. IsFiniteSet(T) /\ Cardinality(T) \in Nat /\ Cardinality(T) <= Cardinality(S \union {e})
    BY <1>1, FS_Subset, FS_CardinalityType
<1>3. e \notin T => Cardinality(T) <= Cardinality(S)
    BY FS_Subset
<1> QED  BY <1>1, <1>2, <1>3

(* What canBeEdgeSource and canBeEdgeTarget promise: where they allow an    *)
(* edge, no constraint is exceeded by it.                                   *)
LEMMA ConnectedWithinBounds ==
    ASSUME NEW type, NEW constraints, NEW c \in constraints, c.upper \in Int,
           NEW counted, IsFiniteSet(counted), CanConnect(type, counted, constraints),
           NEW e, e \notin counted, TypeOf[e] = type
    PROVE  Exceeded(c, counted \union {e}) => Exceeded(c, counted)
<1> DEFINE before == {x \in counted : TypeOf[x] \in c.elements}
           after == {x \in counted \union {e} : TypeOf[x] \in c.elements}
<1>1. Captured(type, constraints) # {}
    BY DEF CanConnect, checkViolations
<1>2. \A d \in Captured(type, constraints) : ~IsMet(d, [x \in counted |-> TypeOf[x]])
    BY <1>1 DEF CanConnect, checkViolations
<1>3. IsFiniteSet(before)
    BY FS_Subset
<1>4. after \subseteq before \union {e}
    OBVIOUS
<1>5. /\ Cardinality(after) \in Nat /\ Cardinality(before) \in Nat
      /\ Cardinality(after) <= Cardinality(before) + 1
      /\ e \notin after => Cardinality(after) <= Cardinality(before)
    BY <1>3, <1>4, CountWithOneMore
<1>6. CASE type \in c.elements
    <2>1. ~IsMet(c, [x \in counted |-> TypeOf[x]])
        BY <1>2, <1>6 DEF Captured
    <2>2. {x \in DOMAIN [y \in counted |-> TypeOf[y]] :
              [y \in counted |-> TypeOf[y]][x] \in c.elements} = before
        OBVIOUS
    <2>3. ~(c.upper >= 0 /\ c.upper <= Cardinality(before))
        BY <2>1, <2>2 DEF IsMet
    <2> HIDE DEF before, after
    <2>4. ~(c.upper >= 0 /\ Cardinality(after) > c.upper)
        BY <1>5, <2>3
    <2> QED  BY <2>4 DEF Exceeded, after
<1>7. CASE type \notin c.elements
    <2>1. e \notin after
        BY <1>7
    <2> HIDE DEF before, after
    <2>2. c.upper >= 0 /\ Cardinality(after) > c.upper => Cardinality(before) > c.upper
        BY <1>5, <2>1
    <2> QED  BY <2>2 DEF Exceeded, before, after
<1> QED  BY <1>6, <1>7

-----------------------------------------------------------------------------
LEMMA CreateNodeKeepsBounds ==
    ASSUME NEW h \in Holders, NEW k \in Nodes, CreateNode(h, k), GraphTypeOK, NEW n \in Nodes
    PROVE  /\ SourceExceeded(graph', n) => SourceExceeded(graph, n)
           /\ TargetExceeded(graph', n) => TargetExceeded(graph, n)
BY DEF CreateNode, GraphTypeOK, Graphs, SourceExceeded, TargetExceeded

LEMMA CreateEdgeKeepsBounds ==
    ASSUME NEW e \in Edges, NEW s \in Nodes, NEW t \in Nodes, CreateEdge(e, s, t),
           GraphTypeOK, EdgesAreIndexed, NEW n \in Nodes
    PROVE  /\ SourceExceeded(graph', n) => SourceExceeded(graph, n)
           /\ TargetExceeded(graph', n) => TargetExceeded(graph, n)
<1>1. /\ e \notin graph.edges
      /\ CanConnect(TypeOf[e], outgoingEdges(s) \intersect Edges, Outgoing[TypeOf[s]])
      /\ CanConnect(TypeOf[e], incomingEdges(t) \intersect Edges, Incoming[TypeOf[t]])
      /\ graph'.edges = graph.edges \union {e}
      /\ graph'.src = [graph.src EXCEPT ![e] = {s}]
      /\ graph'.tgt = [graph.tgt EXCEPT ![e] = {t}]
    BY DEF CreateEdge, canBeEdgeSource, canBeEdgeTarget, GraphTypeOK, Graphs
<1>2. /\ graph.edges \subseteq Edges
      /\ \A x \in Edges : graph'.src[x] = IF x = e THEN {s} ELSE graph.src[x]
      /\ \A x \in Edges : graph'.tgt[x] = IF x = e THEN {t} ELSE graph.tgt[x]
    BY <1>1 DEF GraphTypeOK, Graphs
<1> DEFINE out(m) == {x \in graph.edges : m \in graph.src[x]}
           in(m) == {x \in graph.edges : m \in graph.tgt[x]}
<1>3. /\ outgoingEdges(s) \intersect Edges = out(s)
      /\ incomingEdges(t) \intersect Edges = in(t)
    BY <1>2 DEF outgoingEdges, incomingEdges, EdgesAreIndexed
<1>4. /\ {x \in graph'.edges : n \in graph'.src[x]} = IF n = s THEN out(n) \union {e} ELSE out(n)
      /\ {x \in graph'.edges : n \in graph'.tgt[x]} = IF n = t THEN in(n) \union {e} ELSE in(n)
    <2>1. \A x \in graph.edges : graph'.src[x] = graph.src[x] /\ graph'.tgt[x] = graph.tgt[x]
        BY <1>1, <1>2
    <2>2. graph'.src[e] = {s} /\ graph'.tgt[e] = {t}
        BY <1>2
    <2>3. {x \in graph'.edges : n \in graph'.src[x]} = IF n = s THEN out(n) \union {e} ELSE out(n)
        BY <1>1, <2>1, <2>2
    <2>4. {x \in graph'.edges : n \in graph'.tgt[x]} = IF n = t THEN in(n) \union {e} ELSE in(n)
        BY <1>1, <2>1, <2>2
    <2> QED  BY <2>3, <2>4
<1>5. IsFiniteSet(out(n)) /\ IsFiniteSet(in(n)) /\ e \notin out(n) /\ e \notin in(n)
    <2>1. out(n) \subseteq Edges /\ in(n) \subseteq Edges
        BY <1>2
    <2> QED  BY <1>1, <2>1, MetamodelAssumption, FS_Subset
<1> HIDE DEF out, in
<1>6. SourceExceeded(graph', n) => SourceExceeded(graph, n)
    <2> SUFFICES ASSUME NEW c \in Outgoing[TypeOf[n]],
                        Exceeded(c, {x \in graph'.edges : n \in graph'.src[x]})
                 PROVE  Exceeded(c, out(n))
        BY DEF SourceExceeded, out
    <2>1. CASE n = s
        <3>1. c.upper \in Int
            BY MetamodelAssumption
        <3>2. CanConnect(TypeOf[e], out(n), Outgoing[TypeOf[n]])
            BY <1>1, <1>3, <2>1
        <3>3. Exceeded(c, out(n) \union {e})
            BY <1>4, <2>1
        <3> QED  BY <1>5, <3>1, <3>2, <3>3, ConnectedWithinBounds
    <2>2. CASE n # s
        BY <1>4, <2>2
    <2> QED  BY <2>1, <2>2
<1>7. TargetExceeded(graph', n) => TargetExceeded(graph, n)
    <2> SUFFICES ASSUME NEW c \in Incoming[TypeOf[n]],
                        Exceeded(c, {x \in graph'.edges : n \in graph'.tgt[x]})
                 PROVE  Exceeded(c, in(n))
        BY DEF TargetExceeded, in
    <2>1. CASE n = t
        <3>1. c.upper \in Int
            BY MetamodelAssumption
        <3>2. CanConnect(TypeOf[e], in(n), Incoming[TypeOf[n]])
            BY <1>1, <1>3, <2>1
        <3>3. Exceeded(c, in(n) \union {e})
            BY <1>4, <2>1
        <3> QED  BY <1>5, <3>1, <3>2, <3>3, ConnectedWithinBounds
    <2>2. CASE n # t
        BY <1>4, <2>2
    <2> QED  BY <2>1, <2>2
<1> QED  BY <1>6, <1>7

(* Creating an edge pushes no node over a bound of its outgoing or incoming *)
(* edges, for any metamodel with wildcards, overlapping and inherited       *)
(* constraints: canBeEdgeSource and canBeEdgeTarget count the edges of the  *)
(* index, which are those of the model.                                     *)
THEOREM CreationRespectsBounds == GraphSpec => CreationKeepsBounds
<1>1. GraphTypeOK /\ EdgesAreIndexed /\ [GraphNext]_graphVars =>
        [Creation => \A n \in Nodes :
            /\ SourceExceeded(graph', n) => SourceExceeded(graph, n)
            /\ TargetExceeded(graph', n) => TargetExceeded(graph, n)]_graphVars
    BY CreateNodeKeepsBounds, CreateEdgeKeepsBounds DEF Creation
<1> QED
    BY <1>1, TypesHold, InitEdgesAreIndexed, NextEdgesAreIndexed,
       PTL DEF GraphSpec, CreationKeepsBounds

-----------------------------------------------------------------------------
(* Conflicts. *)

(* An end is free of a conflict if it has exactly one option.               *)
LEMMA OneOption ==
    ASSUME NEW S, IsFiniteSet(S) PROVE Cardinality(S) = 1 <=> \E x \in S : S = {x}
<1>1. Cardinality(S) = 1 => \E x \in S : S = {x}
    <2> SUFFICES ASSUME Cardinality(S) = 1 PROVE \E x \in S : S = {x}
        OBVIOUS
    <2>1. PICK x : x \in S
        BY FS_EmptySet
    <2>2. Cardinality(S \ {x}) = 0 /\ IsFiniteSet(S \ {x})
        BY <2>1, FS_RemoveElement
    <2>3. S \ {x} = {}
        BY <2>2, FS_EmptySet
    <2> QED  BY <2>1, <2>3
<1>2. ASSUME NEW x, S = {x} PROVE Cardinality(S) = 1
    BY <1>2, FS_Singleton
<1> QED  BY <1>1, <1>2

LEMMA ConflictIsOfEnds ==
    ASSUME NEW g \in Graphs, NEW e \in Edges
    PROVE  ~InConflict(g, e) <=>
            /\ <<Root, e>> \notin g.ghosts
            /\ \E s \in Nodes : g.src[e] = {s}
            /\ \E t \in Nodes : g.tgt[e] = {t}
<1>1. /\ g.src[e] \subseteq Nodes /\ IsFiniteSet(g.src[e])
      /\ g.tgt[e] \subseteq Nodes /\ IsFiniteSet(g.tgt[e])
    BY MetamodelAssumption, FS_Subset DEF Graphs
<1>2. /\ Cardinality(g.src[e]) = 1 <=> \E s \in g.src[e] : g.src[e] = {s}
      /\ Cardinality(g.tgt[e]) = 1 <=> \E t \in g.tgt[e] : g.tgt[e] = {t}
    BY <1>1, OneOption
<1> QED  BY <1>1, <1>2 DEF InConflict

LEMMA NextMakesNoConflict ==
    ASSUME GraphTypeOK, GraphTypeOK', [GraphNext]_graphVars,
           NEW e \in graph.edges \intersect graph'.edges, ~InConflict(graph, e)
    PROVE  ~InConflict(graph', e)
<1> DEFINE Clear(g) == /\ <<Root, e>> \notin g.ghosts
                       /\ \E s \in Nodes : g.src[e] = {s}
                       /\ \E t \in Nodes : g.tgt[e] = {t}
<1>1. graph \in Graphs /\ graph' \in Graphs /\ e \in Edges
    BY DEF GraphTypeOK, Graphs
<1>2. Clear(graph)
    BY <1>1, ConflictIsOfEnds
<1> SUFFICES Clear(graph')
    BY <1>1, ConflictIsOfEnds
<1>3. ASSUME NEW h \in Holders, NEW n \in Nodes, CreateNode(h, n) PROVE Clear(graph')
    <2>1. graph'.ghosts = graph.ghosts /\ graph'.src = graph.src /\ graph'.tgt = graph.tgt
        BY <1>1, <1>3 DEF CreateNode, Graphs
    <2> QED  BY <1>2, <2>1
<1>4. ASSUME NEW d \in Edges, NEW s \in Nodes, NEW t \in Nodes, CreateEdge(d, s, t)
      PROVE  Clear(graph')
    <2>1. d # e
        BY <1>4 DEF CreateEdge
    <2>2. graph'.ghosts = graph.ghosts /\ graph'.src[e] = graph.src[e] /\ graph'.tgt[e] = graph.tgt[e]
        BY <1>1, <1>4, <2>1 DEF CreateEdge, Graphs
    <2> QED  BY <1>2, <2>2
<1>5. ASSUME NEW ids \in Selections, Delete(ids) PROVE Clear(graph')
    BY <1>2, <1>5, DeletionReduces DEF Reductions
<1>6. ASSUME NEW x \in Nodes \union Edges, Restore(x) PROVE Clear(graph')
    <2>1. graph'.ghosts \subseteq graph.ghosts /\ graph'.src = graph.src /\ graph'.tgt = graph.tgt
        BY <1>1, <1>6 DEF Restore, Graphs
    <2> QED  BY <1>2, <2>1
<1>7. ASSUME NEW d \in Edges, NEW n \in Nodes, ChooseSource(d, n) \/ ChooseTarget(d, n)
      PROVE  Clear(graph')
    <2>1. /\ graph'.ghosts = graph.ghosts
          /\ graph'.src[e] \in {graph.src[e], {n}} /\ graph'.tgt[e] \in {graph.tgt[e], {n}}
        BY <1>1, <1>7 DEF ChooseSource, ChooseTarget, Graphs
    <2> QED  BY <1>2, <2>1
<1>8. ASSUME NEW d \in Edges, NEW s \in Nodes, NEW t \in Nodes, Reconnect(d, s, t)
      PROVE  Clear(graph')
    <2>1. /\ graph'.ghosts = graph.ghosts
          /\ graph'.src[e] \in {graph.src[e], {s}} /\ graph'.tgt[e] \in {graph.tgt[e], {t}}
        BY <1>1, <1>8 DEF Reconnect, Graphs
    <2> QED  BY <1>2, <2>1
<1>9. ASSUME NEW n \in Nodes, NEW t \in Holders, Move(n, t) PROVE Clear(graph')
    <2>1. graph'.ghosts \subseteq graph.ghosts /\ graph'.src = graph.src /\ graph'.tgt = graph.tgt
        BY <1>1, <1>9 DEF Move, changeContainer, Graphs
    <2> QED  BY <1>2, <2>1
<1>10. CASE UNCHANGED graphVars
    BY <1>2, <1>10 DEF graphVars
<1> QED
    BY <1>3, <1>4, <1>5, <1>6, <1>7, <1>8, <1>9, <1>10
    DEF GraphNext, Creation, Deletion, ConflictResolution, Reconnection

(* No operation brings an edge into conflict that had exactly one source and*)
(* one target and was no ghost: a deletion that drops the options of an edge*)
(* in conflict leaves those of others alone, and an edge whose only option  *)
(* goes is removed.                                                         *)
THEOREM ConflictsOnlyShrink == GraphSpec => NoNewConflict
<1>1. GraphTypeOK /\ GraphTypeOK' /\ [GraphNext]_graphVars =>
        [\A e \in graph.edges \intersect graph'.edges :
            InConflict(graph', e) => InConflict(graph, e)]_graphVars
    BY NextMakesNoConflict
<1> QED  BY <1>1, TypesHold, PTL DEF GraphSpec, NoNewConflict
=============================================================================
