-------------------------- MODULE GraphEditingProofs --------------------------
(***************************************************************************)
(* Theorems about the lock of a model (LockSpec), for any set of            *)
(* operations, and about the tree of the graph model and its index, for any *)
(* metamodel: under the operations that run in one turn (GraphSpec) and     *)
(* with the moves that wait for the lock of the model (EditSpec), by which  *)
(* a container may come to lie below itself.                                *)
(*                                                                         *)
(* The walk that builds the index is used in two facts: its nodes are in    *)
(* every set that is closed under containment (LiveIsLeast), and they are   *)
(* such a set (LiveIsClosed).  What stays in the model is argued with       *)
(* closed sets from there on.                                               *)
(***************************************************************************)
EXTENDS GraphEditing, GraphModelProofs

-----------------------------------------------------------------------------
(* Facts about the elements of a queue.  A queue is duplicate free if no    *)
(* element is at two of its places.                                         *)

DuplicateFree(s) == \A i, j \in 1 .. Len(s) : s[i] = s[j] => i = j

LEMMA ToSetEmpty == ToSet(<<>>) = {} /\ DuplicateFree(<<>>)
  BY DEF ToSet, DuplicateFree

(* The elements of a queue, by their places. *)
LEMMA ToSetPlaces ==
  ASSUME NEW S, NEW s \in Seq(S)
  PROVE  /\ Len(s) \in Nat
         /\ ToSet(s) = {s[i] : i \in 1 .. Len(s)}
         /\ ToSet(s) \subseteq S
  BY LenProperties, ElementOfSeq DEF ToSet

(* A queue of which one more element is at the end. *)
LEMMA ToSetAppend ==
  ASSUME NEW S, NEW s \in Seq(S), NEW x \in S
  PROVE  /\ Append(s, x) \in Seq(S)
         /\ ToSet(Append(s, x)) = ToSet(s) \union {x}
         /\ DuplicateFree(s) /\ x \notin ToSet(s) => DuplicateFree(Append(s, x))
<1> DEFINE t == Append(s, x)
<1>1. /\ t \in Seq(S)
      /\ Len(t) = Len(s) + 1
      /\ \A i \in 1 .. Len(s) : t[i] = s[i]
      /\ t[Len(s) + 1] = x
      /\ Len(s) \in Nat
  BY LenProperties
<1>2. /\ ToSet(t) = {t[i] : i \in 1 .. Len(s) + 1}
      /\ ToSet(s) = {s[i] : i \in 1 .. Len(s)}
  BY <1>1, ToSetPlaces
<1> HIDE DEF t
<1>3. \A i \in 1 .. Len(s) + 1 : i \in 1 .. Len(s) \/ i = Len(s) + 1
  BY <1>1
<1>4. ToSet(t) \subseteq ToSet(s) \union {x}
  BY <1>1, <1>2, <1>3
<1>5. \A i \in 1 .. Len(s) : i \in 1 .. Len(s) + 1
  BY <1>1
<1>6. ToSet(s) \subseteq ToSet(t)
  BY <1>1, <1>2, <1>5
<1>7. x \in ToSet(t)
  <2>1. Len(s) + 1 \in 1 .. Len(s) + 1
    BY <1>1
  <2> QED
    BY <1>1, <1>2, <2>1
<1>8. ASSUME DuplicateFree(s), x \notin ToSet(s)
      PROVE  DuplicateFree(t)
  <2> SUFFICES ASSUME NEW i \in 1 .. Len(s) + 1, NEW j \in 1 .. Len(s) + 1, t[i] = t[j]
               PROVE  i = j
    BY <1>1 DEF DuplicateFree
  <2> QED
    BY <1>1, <1>2, <1>3, <1>8 DEF DuplicateFree
<1> QED
  BY <1>1, <1>4, <1>6, <1>7, <1>8 DEF t

(* A queue without its head. *)
LEMMA ToSetTail ==
  ASSUME NEW S, NEW s \in Seq(S), s # <<>>
  PROVE  /\ Tail(s) \in Seq(S)
         /\ Head(s) \in S
         /\ ToSet(s) = {Head(s)} \union ToSet(Tail(s))
         /\ DuplicateFree(s) => DuplicateFree(Tail(s)) /\ Head(s) \notin ToSet(Tail(s))
<1> DEFINE t == Tail(s)
<1>1. /\ t \in Seq(S)
      /\ Head(s) \in S
      /\ Len(t) = Len(s) - 1
      /\ \A i \in 1 .. Len(t) : t[i] = s[i+1]
      /\ Head(s) = s[1]
      /\ Len(s) \in Nat /\ Len(s) > 0
  BY HeadTailProperties, EmptySeq, LenProperties
<1> HIDE DEF t
<1>2. /\ ToSet(t) = {t[i] : i \in 1 .. Len(t)}
      /\ ToSet(s) = {s[i] : i \in 1 .. Len(s)}
  BY <1>1, ToSetPlaces
<1>3. \A i \in 1 .. Len(s) : i = 1 \/ ((i - 1) \in 1 .. Len(t) /\ t[i - 1] = s[i])
  BY <1>1
<1>4. \A i \in 1 .. Len(t) : i + 1 \in 1 .. Len(s) /\ t[i] = s[i + 1]
  BY <1>1
<1>5. ToSet(s) \subseteq {Head(s)} \union ToSet(t)
  BY <1>1, <1>2, <1>3
<1>6. ToSet(t) \subseteq ToSet(s)
  BY <1>2, <1>4
<1>7. Head(s) \in ToSet(s) /\ 1 \in 1 .. Len(s)
  BY <1>1, <1>2
<1>8. ASSUME DuplicateFree(s)
      PROVE  DuplicateFree(t) /\ Head(s) \notin ToSet(t)
  <2>1. \A i, j \in 1 .. Len(s) : s[i] = s[j] => i = j
    BY <1>8 DEF DuplicateFree
  <2>2. DuplicateFree(t)
    <3> SUFFICES ASSUME NEW i \in 1 .. Len(t), NEW j \in 1 .. Len(t), t[i] = t[j]
                 PROVE  i = j
      BY DEF DuplicateFree
    <3>1. i + 1 = j + 1
      BY <1>4, <2>1
    <3> QED
      BY <3>1
  <2>3. Head(s) \notin ToSet(t)
    <3> SUFFICES ASSUME NEW i \in 1 .. Len(t), t[i] = s[1]
                 PROVE  FALSE
      BY <1>1, <1>2
    <3>1. i + 1 = 1
      BY <1>4, <1>7, <2>1
    <3> QED
      BY <3>1
  <2> QED
    BY <2>2, <2>3
<1> QED
  BY <1>1, <1>5, <1>6, <1>7, <1>8 DEF t

(* Two queues of which one is put behind the other. *)
LEMMA ToSetConcat ==
  ASSUME NEW S, NEW s \in Seq(S), NEW t \in Seq(S)
  PROVE  /\ s \o t \in Seq(S)
         /\ ToSet(s \o t) = ToSet(s) \union ToSet(t)
         /\ DuplicateFree(s) /\ DuplicateFree(t) /\ ToSet(s) \cap ToSet(t) = {}
              => DuplicateFree(s \o t)
<1> DEFINE u == s \o t
<1>1. /\ u \in Seq(S)
      /\ Len(u) = Len(s) + Len(t)
      /\ \A i \in 1 .. Len(s) + Len(t) : u[i] = IF i <= Len(s) THEN s[i] ELSE t[i - Len(s)]
      /\ Len(s) \in Nat /\ Len(t) \in Nat
  BY ConcatProperties, LenProperties
<1> HIDE DEF u
<1>2. /\ ToSet(u) = {u[i] : i \in 1 .. Len(u)}
      /\ ToSet(s) = {s[i] : i \in 1 .. Len(s)}
      /\ ToSet(t) = {t[i] : i \in 1 .. Len(t)}
  BY <1>1, ToSetPlaces
<1>3. \A i \in 1 .. Len(s) : i \in 1 .. Len(u) /\ u[i] = s[i]
  BY <1>1
<1>4. \A j \in 1 .. Len(t) : j + Len(s) \in 1 .. Len(u) /\ u[j + Len(s)] = t[j]
  BY <1>1
<1>5. \A i \in 1 .. Len(u) : \/ i \in 1 .. Len(s) /\ u[i] = s[i]
                             \/ i - Len(s) \in 1 .. Len(t) /\ u[i] = t[i - Len(s)]
  BY <1>1
<1>6. ToSet(s) \subseteq ToSet(u)
  BY <1>2, <1>3
<1>7. ToSet(t) \subseteq ToSet(u)
  BY <1>2, <1>4
<1>8. ToSet(u) \subseteq ToSet(s) \union ToSet(t)
  BY <1>2, <1>5
<1>9. ASSUME DuplicateFree(s), DuplicateFree(t), ToSet(s) \cap ToSet(t) = {}
      PROVE  DuplicateFree(u)
  <2> SUFFICES ASSUME NEW i \in 1 .. Len(u), NEW j \in 1 .. Len(u), u[i] = u[j]
               PROVE  i = j
    BY DEF DuplicateFree
  <2>1. CASE i \in 1 .. Len(s) /\ u[i] = s[i] /\ j \in 1 .. Len(s) /\ u[j] = s[j]
    BY <1>9, <2>1 DEF DuplicateFree
  <2>2. CASE /\ i - Len(s) \in 1 .. Len(t) /\ u[i] = t[i - Len(s)]
             /\ j - Len(s) \in 1 .. Len(t) /\ u[j] = t[j - Len(s)]
    <3>1. i - Len(s) = j - Len(s)
      BY <1>9, <2>2 DEF DuplicateFree
    <3> QED
      BY <1>1, <3>1
  <2>3. CASE /\ i \in 1 .. Len(s) /\ u[i] = s[i]
             /\ j - Len(s) \in 1 .. Len(t) /\ u[j] = t[j - Len(s)]
    BY <1>2, <1>9, <2>3
  <2>4. CASE /\ j \in 1 .. Len(s) /\ u[j] = s[j]
             /\ i - Len(s) \in 1 .. Len(t) /\ u[i] = t[i - Len(s)]
    BY <1>2, <1>9, <2>4
  <2> QED
    BY <1>5, <2>1, <2>2, <2>3, <2>4
<1> QED
  BY <1>1, <1>6, <1>7, <1>8, <1>9 DEF u

-----------------------------------------------------------------------------
(* The inductive invariant: a continuation is at one place of one queue,    *)
(* and the continuations of an operation are those its phase calls for.     *)

OnePlace ==
    /\ DuplicateFree(jobs)
    /\ DuplicateFree(waiters)
    /\ ToSet(jobs) \cap ToSet(waiters) = {}

FreeLockHasNoWaiters == ~held => waiters = <<>>

PhaseContinuation ==
    \A p \in Ops :
        /\ <<"resume", p>> \in Pending <=> pc[p] = "waiting"
        /\ <<"body", p>> \in Pending <=> pc[p] = "entering"
        /\ <<"unlock", p>> \in Pending <=> pc[p] = "leaving"
        /\ <<"ghost", p>> \in Pending => pc[p] \notin {"idle", "waiting"}

LockInv == TypeOK /\ OnePlace /\ FreeLockHasNoWaiters /\ PhaseContinuation

LEMMA InitLockInv == LockInit => LockInv
<1> SUFFICES ASSUME LockInit PROVE LockInv
  OBVIOUS
<1>1. jobs = <<>> /\ waiters = <<>> /\ held = FALSE /\ pc = [p \in Ops |-> "idle"]
  BY DEF LockInit
<1>2. TypeOK
  BY <1>1, EmptySeq DEF TypeOK, Phase
<1>3. OnePlace
  BY <1>1, ToSetEmpty DEF OnePlace
<1>4. PhaseContinuation
  BY <1>1, ToSetEmpty DEF PhaseContinuation, Pending
<1> QED
  BY <1>1, <1>2, <1>3, <1>4 DEF LockInv, FreeLockHasNoWaiters

(* The queues before a job is run: its continuation leaves both. *)
LEMMA HeadLeaves ==
  ASSUME LockInv, NEW k, NEW p \in Ops, IsNext(k, p)
  PROVE  /\ Tail(jobs) \in Seq(Continuation)
         /\ DuplicateFree(Tail(jobs))
         /\ <<k, p>> \in Continuation
         /\ ToSet(jobs) = {<<k, p>>} \union ToSet(Tail(jobs))
         /\ <<k, p>> \notin ToSet(Tail(jobs))
         /\ <<k, p>> \notin ToSet(waiters)
         /\ ToSet(Tail(jobs)) \cap ToSet(waiters) = {}
  BY ToSetTail DEF LockInv, TypeOK, OnePlace, IsNext

(* What lockModelActions does to the entry of the lock. *)
LEMMA LockedWaiters ==
  ASSUME LockInv, NEW c \in Continuation, lockModelActions(c)
  PROVE  /\ held' = TRUE
         /\ waiters' \in Seq(Continuation)
         /\ ToSet(waiters') = ToSet(waiters) \union (IF held THEN {c} ELSE {})
         /\ c \notin ToSet(waiters) => DuplicateFree(waiters')
  BY ToSetAppend, ToSetEmpty, EmptySeq
     DEF LockInv, TypeOK, OnePlace, FreeLockHasNoWaiters, lockModelActions

LEMMA RequestInv ==
  ASSUME LockInv, NEW p \in Ops, Request(p)
  PROVE  LockInv' /\ pc[p] = "idle" /\ Ghosts' = Ghosts
<1> DEFINE r == <<"resume", p>>
           b == <<"body", p>>
<1>1. r \in Continuation /\ b \in Continuation
  BY DEF Continuation
<1>2. pc[p] = "idle" /\ lockModelActions(r)
  BY DEF Request
<1>3. r \notin Pending /\ b \notin Pending
  BY <1>2 DEF LockInv, PhaseContinuation
<1>4. /\ held' = TRUE
      /\ waiters' \in Seq(Continuation)
      /\ ToSet(waiters') = ToSet(waiters) \union (IF held THEN {r} ELSE {})
      /\ DuplicateFree(waiters')
  BY <1>1, <1>2, <1>3, LockedWaiters DEF Pending
<1>5. /\ jobs' \in Seq(Continuation)
      /\ ToSet(jobs') = ToSet(jobs) \union (IF held THEN {} ELSE {b})
      /\ DuplicateFree(jobs')
  BY <1>1, <1>3, ToSetAppend DEF Request, Pending, LockInv, TypeOK, OnePlace
<1>6. pc' = [pc EXCEPT ![p] = IF held THEN "waiting" ELSE "entering"] /\ pc \in [Ops -> Phase]
  BY DEF Request, LockInv, TypeOK
<1>7. TypeOK'
  BY <1>4, <1>5, <1>6 DEF TypeOK, Phase
<1>8. OnePlace'
  BY <1>3, <1>4, <1>5 DEF LockInv, OnePlace, Pending
<1>9. Pending' = Pending \union (IF held THEN {r} ELSE {b})
  BY <1>4, <1>5 DEF Pending
<1>10. PhaseContinuation'
  <2> SUFFICES ASSUME NEW q \in Ops
               PROVE  (/\ <<"resume", q>> \in Pending <=> pc[q] = "waiting"
                       /\ <<"body", q>> \in Pending <=> pc[q] = "entering"
                       /\ <<"unlock", q>> \in Pending <=> pc[q] = "leaving"
                       /\ <<"ghost", q>> \in Pending => pc[q] \notin {"idle", "waiting"})'
    BY DEF PhaseContinuation
  <2>1. /\ <<"resume", q>> \in Pending <=> pc[q] = "waiting"
        /\ <<"body", q>> \in Pending <=> pc[q] = "entering"
        /\ <<"unlock", q>> \in Pending <=> pc[q] = "leaving"
        /\ <<"ghost", q>> \in Pending => pc[q] \notin {"idle", "waiting"}
    BY DEF LockInv, PhaseContinuation
  <2> QED
    BY <1>2, <1>6, <1>9, <2>1
<1>20. Ghosts' = Ghosts
  BY <1>9 DEF Ghosts
<1> QED
  BY <1>2, <1>20, <1>4, <1>7, <1>8, <1>10 DEF LockInv, FreeLockHasNoWaiters

LEMMA ResumeInv ==
  ASSUME LockInv, NEW p \in Ops, Resume(p)
  PROVE  LockInv' /\ pc[p] = "waiting" /\ p \notin Ghosts
         /\ Ghosts' = Ghosts \union (IF held THEN {p} ELSE {})
<1> DEFINE r == <<"resume", p>>
           g == <<"ghost", p>>
           b == <<"body", p>>
<1>1. g \in Continuation /\ b \in Continuation
  BY DEF Continuation
<1>2. /\ IsNext("resume", p) /\ lockModelActions(g)
      /\ jobs' = Append(Tail(jobs), b)
      /\ pc' = [pc EXCEPT ![p] = "entering"]
  BY DEF Resume
<1>3. /\ Tail(jobs) \in Seq(Continuation)
      /\ DuplicateFree(Tail(jobs))
      /\ ToSet(jobs) = {r} \union ToSet(Tail(jobs))
      /\ r \notin ToSet(Tail(jobs))
      /\ r \notin ToSet(waiters)
      /\ ToSet(Tail(jobs)) \cap ToSet(waiters) = {}
  BY <1>2, HeadLeaves
<1>4. pc[p] = "waiting" /\ pc \in [Ops -> Phase]
  BY <1>3 DEF LockInv, PhaseContinuation, Pending, TypeOK
<1>5. g \notin Pending /\ b \notin Pending
  BY <1>4 DEF LockInv, PhaseContinuation
<1>6. /\ held' = TRUE
      /\ waiters' \in Seq(Continuation)
      /\ ToSet(waiters') = ToSet(waiters) \union (IF held THEN {g} ELSE {})
      /\ DuplicateFree(waiters')
  BY <1>1, <1>2, <1>5, LockedWaiters DEF Pending
<1>7. /\ jobs' \in Seq(Continuation)
      /\ ToSet(jobs') = ToSet(Tail(jobs)) \union {b}
      /\ DuplicateFree(jobs')
  BY <1>1, <1>2, <1>3, <1>5, ToSetAppend DEF Pending
<1>8. TypeOK'
  BY <1>2, <1>4, <1>6, <1>7 DEF TypeOK, Phase
<1>9. OnePlace'
  <2>1. b # g /\ g \notin ToSet(Tail(jobs)) /\ b \notin ToSet(waiters)
    BY <1>3, <1>5 DEF Pending
  <2> QED
    BY <1>3, <1>6, <1>7, <2>1 DEF OnePlace
<1>10. Pending' = (Pending \ {r}) \union {b} \union (IF held THEN {g} ELSE {})
  BY <1>3, <1>6, <1>7 DEF Pending
<1>11. PhaseContinuation'
  <2> SUFFICES ASSUME NEW q \in Ops
               PROVE  (/\ <<"resume", q>> \in Pending <=> pc[q] = "waiting"
                       /\ <<"body", q>> \in Pending <=> pc[q] = "entering"
                       /\ <<"unlock", q>> \in Pending <=> pc[q] = "leaving"
                       /\ <<"ghost", q>> \in Pending => pc[q] \notin {"idle", "waiting"})'
    BY DEF PhaseContinuation
  <2>1. /\ <<"resume", q>> \in Pending <=> pc[q] = "waiting"
        /\ <<"body", q>> \in Pending <=> pc[q] = "entering"
        /\ <<"unlock", q>> \in Pending <=> pc[q] = "leaving"
        /\ <<"ghost", q>> \in Pending => pc[q] \notin {"idle", "waiting"}
    BY DEF LockInv, PhaseContinuation
  <2> QED
    BY <1>2, <1>4, <1>10, <2>1
<1>20. p \notin Ghosts /\ Ghosts' = Ghosts \union (IF held THEN {p} ELSE {})
  BY <1>5, <1>10 DEF Ghosts
<1> QED
  BY <1>20, <1>4, <1>6, <1>8, <1>9, <1>11 DEF LockInv, FreeLockHasNoWaiters

LEMMA ResumeGhostInv ==
  ASSUME LockInv, NEW p \in Ops, ResumeGhost(p)
  PROVE  LockInv' /\ p \in Ghosts
         /\ Ghosts' = IF held THEN Ghosts ELSE Ghosts \ {p}
<1> DEFINE g == <<"ghost", p>>
<1>1. /\ IsNext("ghost", p) /\ lockModelActions(g)
      /\ jobs' = Tail(jobs)
      /\ pc' = pc
  BY DEF ResumeGhost
<1>2. /\ Tail(jobs) \in Seq(Continuation)
      /\ DuplicateFree(Tail(jobs))
      /\ g \in Continuation
      /\ ToSet(jobs) = {g} \union ToSet(Tail(jobs))
      /\ g \notin ToSet(Tail(jobs))
      /\ g \notin ToSet(waiters)
      /\ ToSet(Tail(jobs)) \cap ToSet(waiters) = {}
  BY <1>1, HeadLeaves
<1>3. /\ held' = TRUE
      /\ waiters' \in Seq(Continuation)
      /\ ToSet(waiters') = ToSet(waiters) \union (IF held THEN {g} ELSE {})
      /\ DuplicateFree(waiters')
  BY <1>1, <1>2, LockedWaiters
<1>4. TypeOK'
  BY <1>1, <1>2, <1>3 DEF TypeOK, LockInv
<1>5. OnePlace'
  BY <1>1, <1>2, <1>3 DEF OnePlace
<1>6. Pending' \subseteq Pending /\ Pending \ {g} \subseteq Pending'
  BY <1>1, <1>2, <1>3 DEF Pending
<1>7. PhaseContinuation'
  BY <1>1, <1>6 DEF LockInv, PhaseContinuation
<1>20. p \in Ghosts /\ Ghosts' = IF held THEN Ghosts ELSE Ghosts \ {p}
  BY <1>1, <1>2, <1>3 DEF Ghosts, Pending
<1> QED
  BY <1>20, <1>3, <1>4, <1>5, <1>7 DEF LockInv, FreeLockHasNoWaiters

LEMMA BodySavesInv ==
  ASSUME LockInv, NEW p \in Ops, BodySaves(p) \/ BodyThrows(p)
  PROVE  LockInv' /\ pc[p] = "entering" /\ Ghosts' = Ghosts
<1> DEFINE b == <<"body", p>>
<1>0. PICK phase \in {"saving", "stuck"} : pc' = [pc EXCEPT ![p] = phase]
  BY DEF BodySaves, BodyThrows
<1>1. /\ IsNext("body", p)
      /\ jobs' = Tail(jobs)
      /\ pc' = [pc EXCEPT ![p] = phase]
      /\ held' = held /\ waiters' = waiters
  BY <1>0 DEF BodySaves, BodyThrows
<1>2. /\ Tail(jobs) \in Seq(Continuation)
      /\ DuplicateFree(Tail(jobs))
      /\ ToSet(jobs) = {b} \union ToSet(Tail(jobs))
      /\ b \notin ToSet(Tail(jobs))
      /\ b \notin ToSet(waiters)
      /\ ToSet(Tail(jobs)) \cap ToSet(waiters) = {}
  BY <1>1, HeadLeaves
<1>3. pc[p] = "entering" /\ pc \in [Ops -> Phase]
  BY <1>2 DEF LockInv, PhaseContinuation, Pending, TypeOK
<1>4. TypeOK'
  BY <1>1, <1>2, <1>3 DEF TypeOK, Phase, LockInv
<1>5. OnePlace'
  BY <1>1, <1>2 DEF OnePlace, LockInv
<1>6. Pending' = Pending \ {b}
  BY <1>1, <1>2 DEF Pending
<1>7. PhaseContinuation'
  BY <1>1, <1>3, <1>6 DEF LockInv, PhaseContinuation
<1>20. Ghosts' = Ghosts
  BY <1>6 DEF Ghosts
<1> QED
  BY <1>20, <1>3, <1>1, <1>4, <1>5, <1>7 DEF LockInv, FreeLockHasNoWaiters

LEMMA BodyReturnsInv ==
  ASSUME LockInv, NEW p \in Ops, BodyReturns(p)
  PROVE  LockInv' /\ pc[p] = "entering" /\ Ghosts' = Ghosts
<1> DEFINE b == <<"body", p>>
           u == <<"unlock", p>>
<1>1. /\ IsNext("body", p)
      /\ jobs' = Append(Tail(jobs), u)
      /\ pc' = [pc EXCEPT ![p] = "leaving"]
      /\ held' = held /\ waiters' = waiters
      /\ u \in Continuation
  BY DEF BodyReturns, Continuation
<1>2. /\ Tail(jobs) \in Seq(Continuation)
      /\ DuplicateFree(Tail(jobs))
      /\ ToSet(jobs) = {b} \union ToSet(Tail(jobs))
      /\ b \notin ToSet(Tail(jobs))
      /\ b \notin ToSet(waiters)
      /\ ToSet(Tail(jobs)) \cap ToSet(waiters) = {}
  BY <1>1, HeadLeaves
<1>3. pc[p] = "entering" /\ pc \in [Ops -> Phase]
  BY <1>2 DEF LockInv, PhaseContinuation, Pending, TypeOK
<1>4. u \notin Pending
  BY <1>3 DEF LockInv, PhaseContinuation
<1>5. /\ jobs' \in Seq(Continuation)
      /\ ToSet(jobs') = ToSet(Tail(jobs)) \union {u}
      /\ DuplicateFree(jobs')
  <2> DEFINE t == Tail(jobs)
  <2>1. u \in Continuation /\ t \in Seq(Continuation) /\ DuplicateFree(t) /\ u \notin ToSet(t)
    BY <1>1, <1>2, <1>4 DEF Pending
  <2> HIDE DEF t, u
  <2>2. /\ Append(t, u) \in Seq(Continuation)
        /\ ToSet(Append(t, u)) = ToSet(t) \union {u}
        /\ DuplicateFree(Append(t, u))
    BY <2>1, ToSetAppend
  <2> QED
    BY <1>1, <2>2 DEF t
<1>6. TypeOK'
  BY <1>1, <1>3, <1>5 DEF TypeOK, Phase, LockInv
<1>7. OnePlace'
  BY <1>1, <1>2, <1>4, <1>5 DEF OnePlace, LockInv, Pending
<1>8. Pending' = (Pending \ {b}) \union {u}
  BY <1>1, <1>2, <1>5 DEF Pending
<1>9. PhaseContinuation'
  BY <1>1, <1>3, <1>8 DEF LockInv, PhaseContinuation
<1>20. Ghosts' = Ghosts
  BY <1>8 DEF Ghosts
<1> QED
  BY <1>20, <1>3, <1>1, <1>6, <1>7, <1>9 DEF LockInv, FreeLockHasNoWaiters

LEMMA SaveFailsInv ==
  ASSUME LockInv, NEW p \in Ops, SaveFails(p)
  PROVE  LockInv' /\ pc[p] = "saving" /\ Ghosts' = Ghosts
<1>1. /\ pc[p] = "saving" /\ pc' = [pc EXCEPT ![p] = "stuck"] /\ pc \in [Ops -> Phase]
      /\ UNCHANGED <<held, waiters, jobs>>
  BY DEF SaveFails, LockInv, TypeOK
<1>2. TypeOK' /\ OnePlace' /\ FreeLockHasNoWaiters'
  BY <1>1 DEF LockInv, TypeOK, Phase, OnePlace, FreeLockHasNoWaiters
<1>3. Pending' = Pending /\ Ghosts' = Ghosts
  BY <1>1 DEF Pending, Ghosts
<1>4. PhaseContinuation'
  BY <1>1, <1>3 DEF LockInv, PhaseContinuation
<1> QED
  BY <1>1, <1>2, <1>3, <1>4 DEF LockInv

LEMMA SaveDoneInv ==
  ASSUME LockInv, NEW p \in Ops, SaveDone(p)
  PROVE  LockInv' /\ pc[p] = "saving" /\ Ghosts' = Ghosts
<1> DEFINE u == <<"unlock", p>>
<1>1. /\ pc[p] = "saving" /\ jobs = <<>>
      /\ jobs' = Append(<<>>, u)
      /\ pc' = [pc EXCEPT ![p] = "leaving"]
      /\ held' = held /\ waiters' = waiters
      /\ u \in Continuation
      /\ pc \in [Ops -> Phase]
  BY DEF SaveDone, Continuation, LockInv, TypeOK
<1>2. u \notin Pending
  BY <1>1 DEF LockInv, PhaseContinuation
<1>3. /\ jobs' \in Seq(Continuation)
      /\ ToSet(jobs') = {u}
      /\ DuplicateFree(jobs')
  <2> DEFINE e == <<>>
  <2>1. e \in Seq(Continuation) /\ ToSet(e) = {} /\ DuplicateFree(e)
    BY ToSetEmpty, EmptySeq
  <2>2. jobs' = Append(e, u) /\ u \in Continuation /\ u \notin ToSet(e)
    BY <1>1, <2>1
  <2> HIDE DEF e, u
  <2>3. /\ Append(e, u) \in Seq(Continuation)
        /\ ToSet(Append(e, u)) = ToSet(e) \union {u}
        /\ DuplicateFree(Append(e, u))
    BY <2>1, <2>2, ToSetAppend
  <2> QED
    BY <2>1, <2>2, <2>3
<1>4. TypeOK'
  BY <1>1, <1>3 DEF TypeOK, Phase, LockInv
<1>5. OnePlace'
  BY <1>1, <1>2, <1>3 DEF OnePlace, LockInv, Pending
<1>6. Pending' = Pending \union {u}
  BY <1>1, <1>3, ToSetEmpty DEF Pending
<1>7. PhaseContinuation'
  BY <1>1, <1>6 DEF LockInv, PhaseContinuation
<1>20. Ghosts' = Ghosts
  BY <1>6 DEF Ghosts
<1> QED
  BY <1>20, <1>1, <1>4, <1>5, <1>7 DEF LockInv, FreeLockHasNoWaiters

LEMMA UnlockInv ==
  ASSUME LockInv, NEW p \in Ops, Unlock(p)
  PROVE  LockInv' /\ pc[p] = "leaving" /\ Ghosts' = Ghosts
<1> DEFINE u == <<"unlock", p>>
<1>1. /\ IsNext("unlock", p)
      /\ jobs' = Tail(jobs) \o waiters
      /\ waiters' = <<>>
      /\ held' = FALSE
      /\ pc' = [pc EXCEPT ![p] = IF held THEN "done" ELSE "threw"]
      /\ waiters \in Seq(Continuation)
      /\ pc \in [Ops -> Phase]
  BY DEF Unlock, LockInv, TypeOK
<1>2. /\ Tail(jobs) \in Seq(Continuation)
      /\ DuplicateFree(Tail(jobs))
      /\ ToSet(jobs) = {u} \union ToSet(Tail(jobs))
      /\ u \notin ToSet(Tail(jobs))
      /\ u \notin ToSet(waiters)
      /\ ToSet(Tail(jobs)) \cap ToSet(waiters) = {}
  BY <1>1, HeadLeaves
<1>3. pc[p] = "leaving"
  BY <1>2 DEF LockInv, PhaseContinuation, Pending
<1>4. /\ jobs' \in Seq(Continuation)
      /\ ToSet(jobs') = ToSet(Tail(jobs)) \union ToSet(waiters)
      /\ DuplicateFree(jobs')
  <2> DEFINE t == Tail(jobs)
  <2>1. /\ t \in Seq(Continuation) /\ DuplicateFree(t)
        /\ waiters \in Seq(Continuation) /\ DuplicateFree(waiters)
        /\ ToSet(t) \cap ToSet(waiters) = {}
    BY <1>1, <1>2 DEF LockInv, OnePlace
  <2>2. jobs' = t \o waiters
    BY <1>1
  <2> HIDE DEF t
  <2>3. /\ t \o waiters \in Seq(Continuation)
        /\ ToSet(t \o waiters) = ToSet(t) \union ToSet(waiters)
        /\ DuplicateFree(t \o waiters)
    BY <2>1, ToSetConcat
  <2> QED
    BY <2>2, <2>3 DEF t
<1>5. TypeOK'
  BY <1>1, <1>4, EmptySeq DEF TypeOK, Phase
<1>6. OnePlace'
  BY <1>1, <1>4, ToSetEmpty DEF OnePlace
<1>7. Pending' = Pending \ {u}
  BY <1>1, <1>2, <1>4, ToSetEmpty DEF Pending
<1>8. PhaseContinuation'
  BY <1>1, <1>3, <1>7 DEF LockInv, PhaseContinuation
<1>20. Ghosts' = Ghosts
  BY <1>7 DEF Ghosts
<1> QED
  BY <1>20, <1>3, <1>1, <1>5, <1>6, <1>8 DEF LockInv, FreeLockHasNoWaiters

(* Every step of the lock preserves the invariant. *)
LEMMA NextLockInv == LockInv /\ [LockNext]_lockVars => LockInv'
<1> SUFFICES ASSUME LockInv, [LockNext]_lockVars PROVE LockInv'
  OBVIOUS
<1>1. CASE LockNext
  <2> PICK p \in Ops : Request(p) \/ RunJob(p) \/ SaveDone(p) \/ SaveFails(p)
    BY <1>1 DEF LockNext
  <2>1. CASE Request(p)
    BY <2>1, RequestInv
  <2>2. CASE Resume(p)
    BY <2>2, ResumeInv
  <2>3. CASE ResumeGhost(p)
    BY <2>3, ResumeGhostInv
  <2>4. CASE BodySaves(p) \/ BodyThrows(p)
    BY <2>4, BodySavesInv
  <2>5. CASE BodyReturns(p)
    BY <2>5, BodyReturnsInv
  <2>6. CASE Unlock(p)
    BY <2>6, UnlockInv
  <2>7. CASE SaveDone(p)
    BY <2>7, SaveDoneInv
  <2>8. CASE SaveFails(p)
    BY <2>8, SaveFailsInv
  <2> QED
    BY <2>1, <2>2, <2>3, <2>4, <2>5, <2>6, <2>7, <2>8 DEF RunJob
<1>2. CASE UNCHANGED lockVars
  BY <1>2 DEF lockVars, LockInv, TypeOK, OnePlace, FreeLockHasNoWaiters, PhaseContinuation, Pending
<1> QED
  BY <1>1, <1>2

(* The queues, the entry of the lock and the phases keep their types. *)
THEOREM LockTyped == LockSpec => []TypeOK
<1>1. LockInv => TypeOK
  BY DEF LockInv
<1> QED
  BY <1>1, InitLockInv, NextLockInv, PTL DEF LockSpec

(* The resolver of an operation that waits in lockModelActions is never     *)
(* dropped, however unlockModelActions and the nested calls interleave.     *)
THEOREM LockLosesNoWakeup == LockSpec => []NoLostWakeup
<1>1. LockInv => NoLostWakeup
  BY DEF LockInv, NoLostWakeup, FreeLockHasNoWaiters, PhaseContinuation
<1> QED
  BY <1>1, InitLockInv, NextLockInv, PTL DEF LockSpec

-----------------------------------------------------------------------------
(* The balance of TokenBalance, step by step. *)

LEMMA InitTokenBalance == LockInit => TokenBalance
<1> SUFFICES ASSUME LockInit PROVE TokenBalance
  OBVIOUS
<1>1. Inside = {} /\ Threw = {} /\ Ghosts = {} /\ held = FALSE
  BY ToSetEmpty DEF LockInit, Inside, Threw, Ghosts, Pending
<1> QED
  BY <1>1, FS_EmptySet DEF TokenBalance

LEMMA CountedSetsAreFinite ==
  /\ IsFiniteSet(Inside) /\ IsFiniteSet(Threw) /\ IsFiniteSet(Ghosts)
  /\ Cardinality(Inside) \in Nat /\ Cardinality(Threw) \in Nat /\ Cardinality(Ghosts) \in Nat
<1>1. Inside \subseteq Ops /\ Threw \subseteq Ops /\ Ghosts \subseteq Ops
  BY DEF Inside, Threw, Ghosts
<1> QED
  BY <1>1, OpsAreFinite, FS_Subset, FS_CardinalityType

(* Moving one operation into or out of a counted set. *)
LEMMA CountMoves ==
  ASSUME NEW S, IsFiniteSet(S), NEW x
  PROVE  /\ x \notin S => Cardinality(S \union {x}) = Cardinality(S) + 1
         /\ x \in S => Cardinality(S \ {x}) = Cardinality(S) - 1
  BY FS_AddElement, FS_RemoveElement

LEMMA NextTokenBalance ==
  ASSUME LockInv, TokenBalance, [LockNext]_lockVars
  PROVE  TokenBalance'
<1> USE CountedSetsAreFinite
<1>1. pc \in [Ops -> Phase]
  BY DEF LockInv, TypeOK
<1>2. ASSUME NEW p \in Ops, Request(p) PROVE TokenBalance'
  <2>1. pc[p] = "idle" /\ Ghosts' = Ghosts
    BY <1>2, RequestInv
  <2>2. held' = TRUE /\ pc' = [pc EXCEPT ![p] = IF held THEN "waiting" ELSE "entering"]
    BY <1>2 DEF Request, lockModelActions
  <2>3. p \notin Inside /\ Threw' = Threw
    BY <1>1, <2>1, <2>2 DEF Inside, Threw
  <2>4. Inside' = IF held THEN Inside ELSE Inside \union {p}
    BY <1>1, <2>1, <2>2 DEF Inside
  <2>5. Cardinality(Inside') = Cardinality(Inside) + (IF held THEN 0 ELSE 1)
    BY <2>3, <2>4, CountMoves
  <2> QED
    BY <2>1, <2>2, <2>3, <2>5 DEF TokenBalance
<1>3. ASSUME NEW p \in Ops, Resume(p) PROVE TokenBalance'
  <2>1. /\ pc[p] = "waiting" /\ p \notin Ghosts
        /\ Ghosts' = Ghosts \union (IF held THEN {p} ELSE {})
    BY <1>3, ResumeInv
  <2>2. held' = TRUE /\ pc' = [pc EXCEPT ![p] = "entering"]
    BY <1>3 DEF Resume, lockModelActions
  <2>3. p \notin Inside /\ Inside' = Inside \union {p} /\ Threw' = Threw
    BY <1>1, <2>1, <2>2 DEF Inside, Threw
  <2>4. Ghosts' = IF held THEN Ghosts \union {p} ELSE Ghosts
    BY <2>1
  <2>5. Cardinality(Inside') = Cardinality(Inside) + 1
    BY <2>3, CountMoves
  <2>6. Cardinality(Ghosts') = Cardinality(Ghosts) + (IF held THEN 1 ELSE 0)
    <3>1. Cardinality(Ghosts \union {p}) = Cardinality(Ghosts) + 1
      BY <2>1, CountMoves
    <3> QED
      BY <2>4, <3>1
  <2> QED
    BY <2>2, <2>3, <2>5, <2>6 DEF TokenBalance
<1>4. ASSUME NEW p \in Ops, ResumeGhost(p) PROVE TokenBalance'
  <2>1. p \in Ghosts /\ Ghosts' = IF held THEN Ghosts ELSE Ghosts \ {p}
    BY <1>4, ResumeGhostInv
  <2>2. held' = TRUE /\ pc' = pc
    BY <1>4 DEF ResumeGhost, lockModelActions
  <2>3. Inside' = Inside /\ Threw' = Threw
    BY <2>2 DEF Inside, Threw
  <2> QED
    BY <2>1, <2>2, <2>3, CountMoves DEF TokenBalance
<1>5. ASSUME NEW p \in Ops,
             BodySaves(p) \/ BodyThrows(p) \/ BodyReturns(p) \/ SaveDone(p) \/ SaveFails(p)
      PROVE  TokenBalance'
  <2>1. pc[p] \in {"entering", "saving"} /\ Ghosts' = Ghosts
    BY <1>5, BodySavesInv, BodyReturnsInv, SaveDoneInv, SaveFailsInv
  <2>2. held' = held /\ (\/ pc' = [pc EXCEPT ![p] = "saving"]
                        \/ pc' = [pc EXCEPT ![p] = "leaving"]
                        \/ pc' = [pc EXCEPT ![p] = "stuck"])
    BY <1>5 DEF BodySaves, BodyThrows, BodyReturns, SaveDone, SaveFails
  <2>3. Inside' = Inside /\ Threw' = Threw
    BY <1>1, <2>1, <2>2 DEF Inside, Threw
  <2> QED
    BY <2>1, <2>2, <2>3 DEF TokenBalance
<1>6. ASSUME NEW p \in Ops, Unlock(p) PROVE TokenBalance'
  <2>1. pc[p] = "leaving" /\ Ghosts' = Ghosts
    BY <1>6, UnlockInv
  <2>2. held' = FALSE /\ pc' = [pc EXCEPT ![p] = IF held THEN "done" ELSE "threw"]
    BY <1>6 DEF Unlock
  <2>3. p \in Inside /\ Inside' = Inside \ {p} /\ p \notin Threw
    BY <1>1, <2>1, <2>2 DEF Inside, Threw
  <2>4. Threw' = IF held THEN Threw ELSE Threw \union {p}
    BY <1>1, <2>1, <2>2 DEF Threw
  <2>5. Cardinality(Inside') = Cardinality(Inside) - 1
    BY <2>3, CountMoves
  <2>6. Cardinality(Threw') = Cardinality(Threw) + (IF held THEN 0 ELSE 1)
    BY <2>3, <2>4, CountMoves
  <2> QED
    BY <2>1, <2>2, <2>5, <2>6 DEF TokenBalance
<1>7. CASE UNCHANGED lockVars
  BY <1>7 DEF lockVars, TokenBalance, Inside, Threw, Ghosts, Pending
<1> QED
  BY <1>2, <1>3, <1>4, <1>5, <1>6, <1>7 DEF LockNext, RunJob

(* The operations inside their body and the failed unlocks are always as    *)
(* many as the lock and the nested lockModelActions that nobody awaits.     *)
THEOREM LockBalanced == LockSpec => []TokenBalance
  BY InitLockInv, NextLockInv, InitTokenBalance, NextTokenBalance, PTL DEF LockSpec

-----------------------------------------------------------------------------
(* Lists.  In a list of entries that are apart no node comes twice.         *)

Apart(s) == \A i, j \in 1 .. Len(s) : s[i][1] = s[j][1] => i = j

LEMMA ConcatKeepsApart ==
    ASSUME NEW X, NEW s \in Seq(X), NEW t \in Seq(X), Apart(s), Apart(t),
           \A x \in ToSet(s), y \in ToSet(t) : x[1] # y[1]
    PROVE  Apart(s \o t)
<1> DEFINE u == s \o t
<1>1. /\ Len(u) = Len(s) + Len(t)
      /\ \A i \in 1 .. Len(s) + Len(t) : u[i] = IF i <= Len(s) THEN s[i] ELSE t[i - Len(s)]
      /\ Len(s) \in Nat /\ Len(t) \in Nat
    BY ConcatProperties, LenProperties
<1>2. /\ \A i \in 1 .. Len(s) : s[i] \in ToSet(s)
      /\ \A i \in 1 .. Len(t) : t[i] \in ToSet(t)
    BY ToSetPlaces
<1> HIDE DEF u
<1>3. \A i \in 1 .. Len(u) : \/ i \in 1 .. Len(s) /\ u[i] = s[i]
                             \/ i - Len(s) \in 1 .. Len(t) /\ u[i] = t[i - Len(s)]
    BY <1>1
<1> SUFFICES ASSUME NEW i \in 1 .. Len(u), NEW j \in 1 .. Len(u), u[i][1] = u[j][1] PROVE i = j
    BY DEF Apart, u
<1>4. CASE i \in 1 .. Len(s) /\ u[i] = s[i] /\ j \in 1 .. Len(s) /\ u[j] = s[j]
    BY <1>4 DEF Apart
<1>5. CASE /\ i - Len(s) \in 1 .. Len(t) /\ u[i] = t[i - Len(s)]
           /\ j - Len(s) \in 1 .. Len(t) /\ u[j] = t[j - Len(s)]
    <2>1. i - Len(s) = j - Len(s)
        BY <1>5 DEF Apart
    <2> QED  BY <1>1, <2>1
<1>6. CASE /\ i \in 1 .. Len(s) /\ u[i] = s[i]
           /\ j - Len(s) \in 1 .. Len(t) /\ u[j] = t[j - Len(s)]
    BY <1>2, <1>6
<1>7. CASE /\ j \in 1 .. Len(s) /\ u[j] = s[j]
           /\ i - Len(s) \in 1 .. Len(t) /\ u[i] = t[i - Len(s)]
    BY <1>2, <1>7
<1> QED  BY <1>3, <1>4, <1>5, <1>6, <1>7

(* What is in the first k of the lists that are put behind each other.      *)
Collects(s, seqs, k) == ToSet(s) = UNION {ToSet(seqs[i]) : i \in 1 .. k}

LEMMA FlattenedSoFar ==
    ASSUME NEW X, NEW seqs \in Seq(Seq(X)), NEW f \in [1 .. Len(seqs) -> Seq(X)], Flattens(f, seqs),
           NEW k \in 1 .. Len(seqs)
    PROVE  Collects(f[k], seqs, k)
<1> DEFINE P(j) == ToSet(f[j]) = UNION {ToSet(seqs[i]) : i \in 1 .. j}
           T == {j \in Nat : j + 1 <= Len(seqs) => P(j + 1)}
<1>1. Len(seqs) \in Nat /\ \A i \in 1 .. Len(seqs) : seqs[i] \in Seq(X)
    BY LenProperties, ElementOfSeq
<1>2. 0 \in T
    <2> SUFFICES ASSUME 1 <= Len(seqs) PROVE P(1)
        OBVIOUS
    <2>1. f[1] = seqs[1]
        <3>1. 1 \in 1 .. Len(seqs)
            BY <1>1
        <3> QED  BY <3>1 DEF Flattens
    <2>2. 1 .. 1 = {1}
        OBVIOUS
    <2> QED  BY <2>1, <2>2
<1>3. ASSUME NEW j \in Nat, j \in T PROVE j + 1 \in T
    <2> SUFFICES ASSUME (j + 1) + 1 <= Len(seqs) PROVE P((j + 1) + 1)
        OBVIOUS
    <2>1. PICK m : m = (j + 1) + 1
        OBVIOUS
    <2>2. m \in 1 .. Len(seqs) /\ m # 1 /\ m - 1 = j + 1 /\ m - 1 \in 1 .. Len(seqs)
        BY <1>1, <2>1
    <2>3. f[m] = f[m - 1] \o seqs[m]
        BY <2>2 DEF Flattens
    <2>4. ToSet(f[m]) = ToSet(f[m - 1]) \union ToSet(seqs[m])
        <3>1. PICK a \in Seq(X), b \in Seq(X) : a = f[m - 1] /\ b = seqs[m]
            BY <1>1, <2>2
        <3>2. ToSet(a \o b) = ToSet(a) \union ToSet(b)
            BY ToSetConcat
        <3> QED  BY <2>3, <3>1, <3>2
    <2>5. P(m - 1)
        BY <1>1, <1>3, <2>2
    <2>6. 1 .. m = (1 .. (m - 1)) \union {m}
        BY <2>2
    <2> HIDE DEF P
    <2>7. P(m)
        BY <2>4, <2>5, <2>6 DEF P
    <2> QED  BY <2>1, <2>7
<1> HIDE DEF P
<1>4. Nat \subseteq T
    <2> HIDE DEF T
    <2> QED  BY <1>2, <1>3, NumberSetInduction
<1>5. k - 1 \in Nat /\ (k - 1) + 1 = k /\ k <= Len(seqs)
    BY <1>1
<1>6. P(k)
    BY <1>4, <1>5
<1> QED  BY <1>6 DEF P, Collects

LEMMA FlattenMembers ==
    ASSUME NEW X, NEW seqs \in Seq(Seq(X))
    PROVE  ToSet(FlattenSeq(seqs)) = UNION {ToSet(seqs[i]) : i \in 1 .. Len(seqs)}
<1>1. CASE Len(seqs) = 0
    <2>1. seqs = <<>>
        BY <1>1, EmptySeq
    <2>2. FlattenSeq(seqs) = <<>> /\ 1 .. Len(seqs) = {}
        BY <1>1, <2>1 DEF FlattenSeq
    <2> QED  BY <2>2, ToSetEmpty
<1>2. CASE Len(seqs) # 0
    <2>1. PICK f \in [1 .. Len(seqs) -> Seq(X)] : Flattens(f, seqs) /\ FlattenSeq(seqs) = f[Len(seqs)]
        BY <1>2, FlattenSteps
    <2>2. Len(seqs) \in 1 .. Len(seqs)
        BY <1>2, LenProperties
    <2>3. Collects(f[Len(seqs)], seqs, Len(seqs))
        BY <2>1, <2>2, FlattenedSoFar, Zenon
    <2> QED  BY <2>1, <2>3 DEF Collects
<1> QED  BY <1>1, <1>2

LEMMA FlattenKeepsApart ==
    ASSUME NEW X, NEW seqs \in Seq(Seq(X)), \A i \in 1 .. Len(seqs) : Apart(seqs[i]),
           \A i, j \in 1 .. Len(seqs) : \A x \in ToSet(seqs[i]), y \in ToSet(seqs[j]) : x[1] = y[1] => i = j
    PROVE  Apart(FlattenSeq(seqs))
<1>1. CASE Len(seqs) = 0
    <2>1. seqs = <<>>
        BY <1>1, EmptySeq
    <2>2. FlattenSeq(seqs) = <<>> /\ Len(<<>>) = 0
        BY <1>1, <2>1 DEF FlattenSeq
    <2> QED  BY <2>2 DEF Apart
<1>2. CASE Len(seqs) # 0
    <2>1. PICK f \in [1 .. Len(seqs) -> Seq(X)] : Flattens(f, seqs) /\ FlattenSeq(seqs) = f[Len(seqs)]
        BY <1>2, FlattenSteps
    <2> DEFINE V == {s \in Seq(X) : Apart(s)}
    <2>2. Len(seqs) \in Nat /\ \A i \in 1 .. Len(seqs) : seqs[i] \in Seq(X)
        BY LenProperties, ElementOfSeq
    <2>3. f[1] \in V
        <3>1. 1 \in 1 .. Len(seqs)
            BY <1>2, <2>2
        <3> QED  BY <2>1, <2>2, <3>1 DEF Flattens
    <2>4. ASSUME NEW i \in 1 + 1 .. Len(seqs), f[i - 1] \in V PROVE f[i] \in V
        <3>1. i \in 1 .. Len(seqs) /\ i # 1 /\ i - 1 \in 1 .. Len(seqs)
            BY <2>2
        <3>2. f[i] = f[i - 1] \o seqs[i] /\ f[i] \in Seq(X)
            BY <2>1, <3>1 DEF Flattens
        <3>3. Collects(f[i - 1], seqs, i - 1)
            BY <2>1, <3>1, FlattenedSoFar, Zenon
        <3>4. ASSUME NEW x \in ToSet(f[i - 1]), NEW y \in ToSet(seqs[i]), x[1] = y[1] PROVE FALSE
            <4>1. PICK j \in 1 .. (i - 1) : x \in ToSet(seqs[j])
                BY <3>3 DEF Collects
            <4>2. j \in 1 .. Len(seqs) /\ j # i
                BY <2>2, <3>1
            <4> QED  BY <3>1, <3>4, <4>1, <4>2
        <3>5. Apart(f[i - 1] \o seqs[i])
            BY <2>2, <2>4, <3>1, <3>4, ConcatKeepsApart
        <3> QED  BY <3>2, <3>5
    <2>5. Len(seqs) \in 1 .. Len(seqs)
        BY <1>2, <2>2
    <2> HIDE DEF V
    <2>6. f[Len(seqs)] \in V
        BY <2>2, <2>3, <2>4, <2>5, RecursionStays
    <2> QED  BY <2>1, <2>6 DEF V
<1> QED  BY <1>1, <1>2

(* A list that lost x at most, and no place of anything else to something   *)
(* that is there already.                                                   *)
LosesAtMost(r, s, x) ==
    /\ ToSet(r) \subseteq ToSet(s)
    /\ ToSet(s) \ {x} \subseteq ToSet(r)
    /\ DuplicateFree(s) => DuplicateFree(r)

LEMMA RemoveFirstMembers ==
    ASSUME NEW X, NEW s \in Seq(X), NEW x PROVE LosesAtMost(RemoveFirst(s, x), s, x)
<1>0. Len(s) \in Nat /\ ToSet(s) = {s[i] : i \in 1 .. Len(s)}
    BY ToSetPlaces
<1>1. CASE \E i \in 1 .. Len(s) : s[i] = x
    <2> DEFINE I == {i \in 1 .. Len(s) : s[i] = x}
    <2>1. I # {} /\ I \in SUBSET (0 .. Len(s))
        BY <1>0, <1>1
    <2>2. Min(I) \in 1 .. Len(s) /\ s[Min(I)] = x
        <3>1. Min(I) \in I
            BY <1>0, <2>1, LeastAndGreatest, Zenon
        <3> QED  BY <3>1
    <2>3. RemoveFirst(s, x) = SubSeq(s, 1, Min(I) - 1) \o SubSeq(s, Min(I) + 1, Len(s))
        BY <1>1, <2>1 DEF RemoveFirst, RemoveAt, SelectInSeq
    <2> HIDE DEF I
    <2>4. PICK j \in 1 .. Len(s) : j = Min(I) /\ s[j] = x
        BY <2>2
    <2>5. PICK a \in Seq(X) : a = SubSeq(s, 1, j - 1)
        <3>1. SubSeq(s, 1, j - 1) \in Seq(X)
            BY <1>0, <2>4
        <3> QED  BY <3>1
    <2>6. PICK b \in Seq(X) : b = SubSeq(s, j + 1, Len(s))
        <3>1. SubSeq(s, j + 1, Len(s)) \in Seq(X)
            BY <1>0, <2>4
        <3> QED  BY <3>1
    <2>7. Len(a) = j - 1 /\ \A i \in 1 .. j - 1 : a[i] = s[i]
        BY <1>0, <2>5, SubSeqProperties
    <2>8. Len(b) = Len(s) - j /\ \A i \in 1 .. Len(s) - j : b[i] = s[j + i]
        <3>1. j + 1 \in 1 .. Len(s) + 1 /\ Len(s) \in (j + 1) - 1 .. Len(s)
            BY <1>0
        <3>2. Len(b) = Len(s) - (j + 1) + 1 /\ \A i \in 1 .. Len(s) - (j + 1) + 1 : b[i] = s[(j + 1) + i - 1]
            BY <1>0, <2>6, <3>1, SubSeqProperties
        <3>3. Len(s) - (j + 1) + 1 = Len(s) - j /\ \A i \in 1 .. Len(s) - j : (j + 1) + i - 1 = j + i
            BY <1>0
        <3> QED  BY <3>2, <3>3
    <2>9. PICK r \in Seq(X) : r = a \o b
        <3>1. a \o b \in Seq(X)
            OBVIOUS
        <3> QED  BY <3>1
    <2>10. /\ Len(r) = Len(a) + Len(b)
           /\ \A i \in 1 .. Len(a) + Len(b) : r[i] = IF i <= Len(a) THEN a[i] ELSE b[i - Len(a)]
        BY <2>9, ConcatProperties
    <2>11. Len(r) = Len(s) - 1
        BY <1>0, <2>7, <2>8, <2>10
    <2>12. \A i \in 1 .. Len(r) : r[i] = IF i < j THEN s[i] ELSE s[i + 1]
        <3> SUFFICES ASSUME NEW i \in 1 .. Len(r) PROVE r[i] = IF i < j THEN s[i] ELSE s[i + 1]
            OBVIOUS
        <3>1. CASE i < j
            <4>1. i \in 1 .. j - 1 /\ i <= Len(a) /\ i \in 1 .. Len(a) + Len(b)
                BY <1>0, <2>7, <2>10, <3>1
            <4> QED  BY <2>7, <2>10, <3>1, <4>1
        <3>2. CASE ~(i < j)
            <4>1. /\ i - (j - 1) \in 1 .. Len(s) - j /\ ~(i <= j - 1)
                  /\ i \in 1 .. Len(a) + Len(b)
                  /\ j + (i - (j - 1)) = i + 1
                BY <1>0, <2>7, <2>8, <2>11, <2>10, <3>2
            <4>2. r[i] = b[i - (j - 1)]
                BY <2>7, <2>10, <4>1
            <4>3. b[i - (j - 1)] = s[j + (i - (j - 1))]
                BY <2>8, <4>1
            <4> QED  BY <3>2, <4>1, <4>2, <4>3
        <3> QED  BY <3>1, <3>2
    <2>13. ToSet(r) = {r[i] : i \in 1 .. Len(r)}
        BY ToSetPlaces
    <2>14. ToSet(r) \subseteq ToSet(s)
        <3>1. \A i \in 1 .. Len(r) : i \in 1 .. Len(s) /\ i + 1 \in 1 .. Len(s)
            BY <1>0, <2>11
        <3> QED  BY <1>0, <2>12, <2>13, <3>1
    <2>15. ASSUME NEW y \in ToSet(s) \ {x} PROVE y \in ToSet(r)
        <3>1. PICK i \in 1 .. Len(s) : y = s[i]
            BY <1>0, <2>15
        <3>2. CASE i < j
            <4>1. i \in 1 .. Len(r)
                BY <1>0, <2>11, <3>2
            <4> QED  BY <2>12, <2>13, <3>1, <3>2, <4>1
        <3>3. CASE i > j
            <4>1. i - 1 \in 1 .. Len(r) /\ ~(i - 1 < j) /\ (i - 1) + 1 = i
                BY <1>0, <2>11, <3>3
            <4>2. r[i - 1] = y
                BY <2>12, <3>1, <4>1
            <4> QED  BY <2>13, <4>1, <4>2
        <3> QED  BY <2>4, <2>15, <3>1, <3>2, <3>3
    <2>16. ASSUME DuplicateFree(s) PROVE DuplicateFree(r)
        <3> SUFFICES ASSUME NEW i \in 1 .. Len(r), NEW k \in 1 .. Len(r), r[i] = r[k] PROVE i = k
            BY DEF DuplicateFree
        <3>1. PICK p : p = IF i < j THEN i ELSE i + 1
            OBVIOUS
        <3>2. PICK q : q = IF k < j THEN k ELSE k + 1
            OBVIOUS
        <3>3. p \in 1 .. Len(s) /\ q \in 1 .. Len(s) /\ (p = q => i = k)
            BY <1>0, <2>11, <3>1, <3>2
        <3>4. s[p] = s[q]
            BY <2>12, <3>1, <3>2
        <3> QED  BY <2>16, <3>3, <3>4 DEF DuplicateFree
    <2> QED  BY <2>3, <2>4, <2>5, <2>6, <2>9, <2>14, <2>15, <2>16 DEF LosesAtMost
<1>2. CASE ~ \E i \in 1 .. Len(s) : s[i] = x
    BY <1>2 DEF RemoveFirst, LosesAtMost
<1> QED  BY <1>1, <1>2

LEMMA WithoutMembers ==
    ASSUME NEW X, NEW s \in Seq(X), NEW x
    PROVE  /\ ToSet(Without(s, x)) = ToSet(s) \ {x}
           /\ DuplicateFree(s) => DuplicateFree(Without(s, x))
<1>1. PICK f \in [0 .. Len(s) -> Seq(X)] : Filters(f, s, x) /\ Without(s, x) = f[Len(s)]
    BY WithoutSteps
<1> DEFINE Seen(i) == {s[j] : j \in 1 .. i}
           P(i) == /\ ToSet(f[i]) = Seen(i) \ {x}
                   /\ DuplicateFree(s) => DuplicateFree(f[i])
           T == {i \in Nat : i <= Len(s) => P(i)}
<1>2. Len(s) \in Nat /\ (\A i \in 1 .. Len(s) : s[i] \in X) /\ ToSet(s) = Seen(Len(s))
    BY ToSetPlaces, ElementOfSeq
<1>3. 0 \in T
    <2>1. f[0] = <<>> /\ 1 .. 0 = {}
        BY <1>1 DEF Filters
    <2> QED  BY <2>1, ToSetEmpty
<1>4. ASSUME NEW i \in Nat, i \in T PROVE i + 1 \in T
    <2> SUFFICES ASSUME i + 1 <= Len(s) PROVE P(i + 1)
        OBVIOUS
    <2>1. PICK m : m = i + 1
        OBVIOUS
    <2>2. m \in 1 .. Len(s) /\ m - 1 = i /\ i \in 0 .. Len(s)
        BY <1>2, <2>1
    <2>3. f[m] = IF s[m] = x THEN f[i] ELSE Append(f[i], s[m])
        BY <1>1, <2>2 DEF Filters
    <2>4. PICK a \in Seq(X), y \in X : a = f[i] /\ y = s[m]
        BY <1>1, <1>2, <2>2
    <2>5. P(i)
        BY <1>2, <1>4, <2>2
    <2>6. 1 .. m = 1 .. i \union {m}
        BY <2>1, <2>2
    <2>7. Seen(m) = Seen(i) \union {y}
        BY <2>4, <2>6
    <2>8. DuplicateFree(s) => y \notin Seen(i)
        <3>1. \A j \in 1 .. i : j \in 1 .. Len(s) /\ j # m
            BY <1>2, <2>1, <2>2
        <3> QED  BY <2>2, <2>4, <3>1 DEF DuplicateFree
    <2> HIDE DEF Seen
    <2>9. CASE y = x
        BY <2>1, <2>3, <2>4, <2>5, <2>7, <2>9
    <2>10. CASE y # x
        <3>1. f[m] = Append(a, y)
            BY <2>3, <2>4, <2>10
        <3>2. /\ ToSet(Append(a, y)) = ToSet(a) \union {y}
              /\ DuplicateFree(a) /\ y \notin ToSet(a) => DuplicateFree(Append(a, y))
            BY ToSetAppend
        <3> QED  BY <2>1, <2>4, <2>5, <2>7, <2>8, <2>10, <3>1, <3>2
    <2> QED  BY <2>9, <2>10
<1>5. Nat \subseteq T
    <2> HIDE DEF T
    <2> QED  BY <1>3, <1>4, NumberSetInduction
<1>6. P(Len(s))
    <2>1. Len(s) \in T
        BY <1>2, <1>5
    <2>2. Len(s) <= Len(s)
        BY <1>2
    <2> HIDE DEF P
    <2> QED  BY <2>1, <2>2
<1> QED  BY <1>1, <1>2, <1>6

-----------------------------------------------------------------------------
(* The walk of the index. *)

(* The entries below h, given those below the containers in its list.       *)
IsBelow(g, h, below, e) ==
    \E n \in ToSet(g.contains[h]) : e = <<n, h>> \/ (n \in Containers /\ e \in ToSet(below[n]))

LEMMA BelowHolderMembers ==
    ASSUME NEW g \in Graphs, NEW h \in Holders, NEW below \in [Holders -> Seq(Entries)], NEW e
    PROVE  e \in ToSet(BelowHolder(g, h, below)) <=> IsBelow(g, h, below, e)
<1> DEFINE s == g.contains[h]
           rest(n) == IF n \in Containers THEN below[n] ELSE <<>>
           q == [i \in DOMAIN s |-> LET n == s[i] IN << <<n, h>> >> \o rest(n)]
<1>1. s \in Seq(Nodes)
    BY DEF Graphs
<1>2. /\ Len(s) \in Nat /\ DOMAIN s = 1 .. Len(s) /\ (\A i \in 1 .. Len(s) : s[i] \in Nodes)
      /\ ToSet(s) = {s[i] : i \in 1 .. Len(s)}
    BY <1>1, LenProperties, ElementOfSeq, ToSetPlaces
<1>3. BelowHolder(g, h, below) = FlattenSeq(q)
    BY DEF BelowHolder
<1>4. ASSUME NEW n \in Nodes
      PROVE  /\ << <<n, h>> >> \o rest(n) \in Seq(Entries)
             /\ ToSet(<< <<n, h>> >> \o rest(n)) = {<<n, h>>} \union ToSet(rest(n))
             /\ n \notin Containers => ToSet(rest(n)) = {}
    <2>1. PICK one \in Seq(Entries) : one = << <<n, h>> >>
        <3>1. << <<n, h>> >> \in Seq(Entries)
            BY DEF Entries
        <3> QED  BY <3>1
    <2>2. ToSet(one) = {<<n, h>>}
        BY <2>1 DEF ToSet
    <2>3. rest(n) \in Seq(Entries)
        BY EmptySeq DEF Holders
    <2>4. PICK r \in Seq(Entries) : r = rest(n)
        BY <2>3
    <2>5. one \o r \in Seq(Entries) /\ ToSet(one \o r) = ToSet(one) \union ToSet(r)
        BY ToSetConcat
    <2>6. n \notin Containers => ToSet(rest(n)) = {}
        BY ToSetEmpty
    <2> HIDE DEF rest
    <2> QED  BY <2>1, <2>2, <2>4, <2>5, <2>6
<1>5. \A i \in 1 .. Len(s) : q[i] = << <<s[i], h>> >> \o rest(s[i])
    BY <1>2
<1> HIDE DEF rest
<1>6. q \in Seq(Seq(Entries)) /\ Len(q) = Len(s)
    <2>1. q = [i \in 1 .. Len(s) |-> q[i]]
        BY <1>2
    <2>2. \A i \in 1 .. Len(s) : q[i] \in Seq(Entries)
        BY <1>2, <1>4, <1>5
    <2> HIDE DEF q
    <2>3. [i \in 1 .. Len(s) |-> q[i]] \in Seq(Seq(Entries)) /\ Len([i \in 1 .. Len(s) |-> q[i]]) = Len(s)
        BY <1>2, <2>2, IsASeq
    <2> QED  BY <2>1, <2>3
<1> HIDE DEF q
<1>7. ToSet(FlattenSeq(q)) = UNION {ToSet(q[i]) : i \in 1 .. Len(s)}
    BY <1>6, FlattenMembers
<1>8. \A i \in 1 .. Len(s) : e \in ToSet(q[i]) <=> e = <<s[i], h>> \/ (s[i] \in Containers /\ e \in ToSet(below[s[i]]))
    <2> SUFFICES ASSUME NEW i \in 1 .. Len(s)
                 PROVE  e \in ToSet(q[i]) <=> e = <<s[i], h>> \/ (s[i] \in Containers /\ e \in ToSet(below[s[i]]))
        OBVIOUS
    <2>1. ToSet(q[i]) = {<<s[i], h>>} \union ToSet(rest(s[i]))
        BY <1>2, <1>4, <1>5
    <2>2. s[i] \in Containers => rest(s[i]) = below[s[i]]
        BY DEF rest
    <2>3. s[i] \notin Containers => ToSet(rest(s[i])) = {}
        BY <1>2, <1>4
    <2> QED  BY <2>1, <2>2, <2>3
<1> DEFINE At(n) == e = <<n, h>> \/ (n \in Containers /\ e \in ToSet(below[n]))
<1>9. e \in ToSet(FlattenSeq(q)) <=> \E i \in 1 .. Len(s) : At(s[i])
    BY <1>7, <1>8
<1> HIDE DEF At
<1>10. (\E n \in ToSet(s) : At(n)) <=> \E i \in 1 .. Len(s) : At(s[i])
    BY <1>2
<1>11. IsBelow(g, h, below, e) <=> \E n \in ToSet(s) : At(n)
    BY DEF IsBelow, At
<1> QED  BY <1>3, <1>9, <1>10, <1>11

(* The walk is in its last step a walk from the root.                       *)
Walk(g, w) ==
    /\ w \in [0 .. Depth -> [Holders -> Seq(Entries)]]
    /\ Walks(g, w)

LEMMA WalkMembers ==
    ASSUME NEW g \in Graphs, NEW w, Walk(g, w), NEW h \in Holders, NEW e
    PROVE  /\ e \notin ToSet(w[0][h])
           /\ \A d \in 1 .. Depth : e \in ToSet(w[d][h]) <=> IsBelow(g, h, w[d - 1], e)
<1>1. e \notin ToSet(w[0][h])
    BY ToSetEmpty DEF Walk, Walks
<1>2. ASSUME NEW d \in 1 .. Depth PROVE e \in ToSet(w[d][h]) <=> IsBelow(g, h, w[d - 1], e)
    <2>1. d - 1 \in 0 .. Depth
        BY DepthIsNat
    <2>2. PICK below \in [Holders -> Seq(Entries)] : below = w[d - 1]
        BY <2>1 DEF Walk
    <2>3. w[d][h] = BelowHolder(g, h, below)
        BY <2>2 DEF Walk, Walks
    <2> QED  BY <2>2, <2>3, BelowHolderMembers
<1> QED  BY <1>1, <1>2

(* Induction along the walk.                                                *)
LEMMA DepthInduction ==
    ASSUME NEW T, 0 \in T, \A d \in 1 .. Depth : d - 1 \in T => d \in T
    PROVE  \A d \in 0 .. Depth : d \in T
<1> DEFINE U == {d \in Nat : d <= Depth => d \in T}
<1>1. 0 \in U
    OBVIOUS
<1>2. ASSUME NEW d \in Nat, d \in U PROVE d + 1 \in U
    <2> SUFFICES ASSUME d + 1 <= Depth PROVE d + 1 \in T
        OBVIOUS
    <2>1. PICK m : m = d + 1
        OBVIOUS
    <2>2. m \in 1 .. Depth /\ m - 1 = d /\ d <= Depth
        BY <2>1, DepthIsNat
    <2> QED  BY <1>2, <2>1, <2>2
<1>3. Nat \subseteq U
    <2> HIDE DEF U
    <2> QED  BY <1>1, <1>2, NumberSetInduction
<1> QED  BY <1>3, DepthIsNat

(* An entry of the walk is an entry of the list of its holder, which is     *)
(* where the walk started or a node that it met.                            *)
Held(g, s, h, e) ==
    /\ e[1] \in Nodes /\ e[2] \in Holders
    /\ e = <<e[1], e[2]>> /\ e[1] \in ToSet(g.contains[e[2]])
    /\ e[2] = h \/ \E u \in ToSet(s) : u[1] = e[2]

LEMMA WalkHolders ==
    ASSUME NEW g \in Graphs, NEW w, Walk(g, w)
    PROVE  \A d \in 0 .. Depth : \A h \in Holders : \A e \in ToSet(w[d][h]) : Held(g, w[d][h], h, e)
<1> DEFINE T == {d \in 0 .. Depth : \A h \in Holders : \A e \in ToSet(w[d][h]) : Held(g, w[d][h], h, e)}
<1>1. 0 \in T
    BY WalkMembers, DepthIsNat
<1>2. ASSUME NEW d \in 1 .. Depth, d - 1 \in T PROVE d \in T
    <2>1. SUFFICES ASSUME NEW h \in Holders, NEW e \in ToSet(w[d][h]) PROVE Held(g, w[d][h], h, e)
        BY DepthIsNat
    <2>2. IsBelow(g, h, w[d - 1], e)
        BY WalkMembers
    <2>3. PICK n \in ToSet(g.contains[h]) : e = <<n, h>> \/ (n \in Containers /\ e \in ToSet(w[d - 1][n]))
        BY <2>2 DEF IsBelow
    <2>4. n \in Nodes
        <3>1. g.contains[h] \in Seq(Nodes)
            BY DEF Graphs
        <3> QED  BY <3>1, ToSetPlaces
    <2>5. CASE e = <<n, h>>
        BY <2>4, <2>5 DEF Held
    <2>6. CASE n \in Containers /\ e \in ToSet(w[d - 1][n])
        <3>1. n \in Holders
            BY <2>6 DEF Holders
        <3>2. Held(g, w[d - 1][n], n, e)
            BY <1>2, <2>6, <3>1
        <3>3. \A u \in ToSet(w[d - 1][n]) : IsBelow(g, h, w[d - 1], u)
            BY <2>6 DEF IsBelow
        <3>4. \A u \in ToSet(w[d - 1][n]) : u \in ToSet(w[d][h])
            BY <3>3, WalkMembers
        <3>5. IsBelow(g, h, w[d - 1], <<n, h>>)
            BY DEF IsBelow
        <3>6. <<n, h>> \in ToSet(w[d][h])
            BY <3>5, WalkMembers
        <3> QED  BY <3>2, <3>4, <3>6 DEF Held
    <2> QED  BY <2>3, <2>5, <2>6
<1> HIDE DEF T
<1>3. \A d \in 0 .. Depth : d \in T
    BY <1>1, <1>2, DepthInduction
<1> QED  BY <1>3 DEF T

(* A set is closed in g if it has what the root holds and what its own      *)
(* containers hold.                                                         *)
Closed(g, S) == \A h \in Holders : h \in S \union {Root} => ToSet(g.contains[h]) \subseteq S

LEMMA WalkStaysInside ==
    ASSUME NEW g \in Graphs, NEW w, Walk(g, w), NEW S, Closed(g, S)
    PROVE  \A d \in 0 .. Depth : \A h \in Holders :
              h \in S \union {Root} => \A e \in ToSet(w[d][h]) : e[1] \in S
<1> DEFINE T == {d \in 0 .. Depth : \A h \in Holders :
                    h \in S \union {Root} => \A e \in ToSet(w[d][h]) : e[1] \in S}
<1>1. 0 \in T
    BY WalkMembers, DepthIsNat
<1>2. ASSUME NEW d \in 1 .. Depth, d - 1 \in T PROVE d \in T
    <2>1. SUFFICES ASSUME NEW h \in Holders, h \in S \union {Root}, NEW e \in ToSet(w[d][h]) PROVE e[1] \in S
        BY DepthIsNat
    <2>2. IsBelow(g, h, w[d - 1], e)
        BY WalkMembers
    <2>3. PICK n \in ToSet(g.contains[h]) : e = <<n, h>> \/ (n \in Containers /\ e \in ToSet(w[d - 1][n]))
        BY <2>2 DEF IsBelow
    <2>4. n \in S
        BY <2>1 DEF Closed
    <2>5. n \in Containers => n \in Holders
        BY DEF Holders
    <2> QED  BY <1>2, <2>3, <2>4, <2>5
<1> HIDE DEF T
<1>3. \A d \in 0 .. Depth : d \in T
    BY <1>1, <1>2, DepthInduction
<1> QED  BY <1>3 DEF T

(* The rounds of the walk from h: it meets what h holds, and in the next    *)
(* round what the containers hold that it met.                              *)
Complete(g, s, h) ==
    \A p \in Holders : p = h \/ (\E u \in ToSet(s) : u[1] = p)
        => \A n \in ToSet(g.contains[p]) : <<n, p>> \in ToSet(s)

NextRound(g, before, after, h) ==
    /\ \A p \in Holders : p = h \/ (\E u \in ToSet(before) : u[1] = p)
            => \A n \in ToSet(g.contains[p]) : <<n, p>> \in ToSet(after)
    /\ \A e \in ToSet(after) : e[2] = h \/ \E u \in ToSet(before) : u[1] = e[2]

LEMMA WalkGoesInRounds ==
    ASSUME NEW g \in Graphs, NEW w, Walk(g, w)
    PROVE  \A d \in 1 .. Depth : \A h \in Holders : NextRound(g, w[d - 1][h], w[d][h], h)
<1> DEFINE T == {d \in 0 .. Depth : d = 0 \/ \A h \in Holders : NextRound(g, w[d - 1][h], w[d][h], h)}
<1>1. 0 \in T
    BY DepthIsNat
<1>2. ASSUME NEW d \in 1 .. Depth, d - 1 \in T PROVE d \in T
    <2>0. d - 1 \in 0 .. Depth /\ (d - 1 # 0 => d - 1 \in 1 .. Depth /\ (d - 1) - 1 \in 0 .. Depth)
        BY DepthIsNat
    <2>1. SUFFICES ASSUME NEW h \in Holders PROVE NextRound(g, w[d - 1][h], w[d][h], h)
        BY DepthIsNat
    <2>2. d - 1 = 0 => \A k \in Holders : ToSet(w[d - 1][k]) = {}
        BY WalkMembers
    <2>3. PICK c : c = d - 1
        OBVIOUS
    <2>4. \A k \in Holders : \A e : e \in ToSet(w[d][k]) <=> IsBelow(g, k, w[c], e)
        BY <2>3, WalkMembers
    <2>5. c # 0 => \A k \in Holders : \A e : e \in ToSet(w[c][k]) <=> IsBelow(g, k, w[c - 1], e)
        BY <2>0, <2>3, WalkMembers
    <2>6. c # 0 => \A k \in Holders : NextRound(g, w[c - 1][k], w[c][k], k)
        BY <1>2, <2>3
    <2>7. ASSUME NEW p \in Holders, p = h \/ (\E u \in ToSet(w[c][h]) : u[1] = p),
                 NEW n \in ToSet(g.contains[p])
          PROVE  IsBelow(g, h, w[c], <<n, p>>)
        <3>1. CASE p = h
            BY <3>1 DEF IsBelow
        <3>2. CASE p # h
            <4>1. PICK u \in ToSet(w[c][h]) : u[1] = p
                BY <2>7, <3>2
            <4>2. c # 0
                BY <2>2, <2>3, <4>1
            <4>3. PICK k \in ToSet(g.contains[h]) : u = <<k, h>> \/ (k \in Containers /\ u \in ToSet(w[c - 1][k]))
                BY <2>5, <4>1, <4>2 DEF IsBelow
            <4>4. k \in Nodes
                <5>1. g.contains[h] \in Seq(Nodes)
                    BY DEF Graphs
                <5> QED  BY <5>1, ToSetPlaces
            <4>5. k \in Containers /\ k \in Holders
                <5>1. u = <<k, h>> => k = p
                    BY <4>1
                <5> QED  BY <4>3, <4>4, <5>1, ConstantsAreDisjoint DEF Holders
            <4>6. <<n, p>> \in ToSet(w[c][k])
                <5>1. p = k \/ \E v \in ToSet(w[c - 1][k]) : v[1] = p
                    BY <4>1, <4>3
                <5> QED  BY <2>6, <4>2, <4>5, <5>1 DEF NextRound
            <4> QED  BY <4>5, <4>6 DEF IsBelow
        <3> QED  BY <3>1, <3>2
    <2>8. ASSUME NEW e \in ToSet(w[d][h]), e[2] # h PROVE \E u \in ToSet(w[c][h]) : u[1] = e[2]
        <3>1. PICK k \in ToSet(g.contains[h]) : e = <<k, h>> \/ (k \in Containers /\ e \in ToSet(w[c][k]))
            BY <2>4 DEF IsBelow
        <3>2. k \in Containers /\ e \in ToSet(w[c][k]) /\ k \in Holders
            BY <2>8, <3>1 DEF Holders
        <3>3. c # 0
            BY <2>2, <2>3, <3>2
        <3>4. e[2] = k \/ \E u \in ToSet(w[c - 1][k]) : u[1] = e[2]
            BY <2>6, <3>2, <3>3 DEF NextRound
        <3>5. CASE e[2] = k
            <4>1. PICK u : u = <<k, h>>
                OBVIOUS
            <4>2. u \in ToSet(w[c][h])
                BY <2>5, <3>3, <4>1 DEF IsBelow
            <4> QED  BY <3>5, <4>1, <4>2
        <3>6. CASE \E u \in ToSet(w[c - 1][k]) : u[1] = e[2]
            <4>1. PICK u \in ToSet(w[c - 1][k]) : u[1] = e[2]
                BY <3>6
            <4>2. u \in ToSet(w[c][h])
                BY <2>5, <3>2, <3>3, <4>1 DEF IsBelow
            <4> QED  BY <4>1, <4>2
        <3> QED  BY <3>4, <3>5, <3>6
    <2> QED  BY <2>3, <2>4, <2>7, <2>8 DEF NextRound
<1> HIDE DEF T
<1>3. \A d \in 0 .. Depth : d \in T
    BY <1>1, <1>2, DepthInduction
<1> QED  BY <1>3 DEF T

(* The containers among the nodes of s.                                     *)
MetContainers(s) == {c \in Containers : \E u \in ToSet(s) : u[1] = c}

LEMMA ContainersAreFinite ==
    /\ IsFiniteSet(Containers) /\ Cardinality(Containers) \in Nat
    /\ \A S \in SUBSET Containers : IsFiniteSet(S) /\ Cardinality(S) \in Nat /\ Cardinality(S) <= Cardinality(Containers)
<1>1. IsFiniteSet(Containers)
    BY MetamodelAssumption, FS_Subset DEF Nodes
<1> QED  BY <1>1, FS_Subset, FS_CardinalityType

(* A round that meets a container for the first time meets one more than    *)
(* the rounds before, and so the last round meets none.                     *)
LEMMA LastRoundMeetsNoContainer ==
    ASSUME NEW g \in Graphs, NEW w, Walk(g, w), NEW h \in Holders
    PROVE  MetContainers(w[Depth][h]) \subseteq MetContainers(w[Depth - 1][h])
<1> DEFINE R(d) == MetContainers(w[d][h])
           P(d) == /\ R(d - 1) \subseteq R(d)
                   /\ R(d) \subseteq R(d - 1) \/ Cardinality(R(d)) >= d
           T == {d \in 0 .. Depth : d = 0 \/ P(d)}
<1>1. 0 \in T
    BY DepthIsNat
<1>2. ASSUME NEW d \in 1 .. Depth, d - 1 \in T PROVE d \in T
    <2>1. PICK c \in 0 .. Depth : c = d - 1 /\ (c # 0 => c \in 1 .. Depth)
        BY DepthIsNat
    <2>2. /\ NextRound(g, w[c][h], w[d][h], h)
          /\ c # 0 => NextRound(g, w[c - 1][h], w[c][h], h)
        BY <2>1, WalkGoesInRounds
    <2>3. c = 0 => R(c) = {}
        BY WalkMembers DEF MetContainers
    <2>4. c # 0 => P(c)
        BY <1>2, <2>1
    <2>5. \A k \in {c, d} : \A e \in ToSet(w[k][h]) : Held(g, w[k][h], h, e)
        BY <2>1, WalkHolders
    <2>6. ASSUME NEW x \in R(c) PROVE x \in R(d)
        <3>1. c # 0 /\ x \in Containers
            BY <2>3, <2>6 DEF MetContainers
        <3>2. PICK u \in ToSet(w[c][h]) : u[1] = x
            BY <2>6 DEF MetContainers
        <3>3. PICK p \in Holders : p = u[2] /\ x \in ToSet(g.contains[p])
            BY <2>5, <3>2 DEF Held
        <3>4. p = h \/ \E v \in ToSet(w[c - 1][h]) : v[1] = p
            BY <2>2, <3>1, <3>2, <3>3 DEF NextRound
        <3>5. p = h \/ \E v \in ToSet(w[c][h]) : v[1] = p
            <4>1. CASE p # h
                <5>1. p \in Containers
                    <6>1. PICK v \in ToSet(w[c - 1][h]) : v[1] = p
                        BY <3>4, <4>1
                    <6>2. Held(g, w[c - 1][h], h, v)
                        <7>1. c - 1 \in 0 .. Depth
                            BY <2>1, <3>1, DepthIsNat
                        <7> QED  BY <6>1, <7>1, WalkHolders
                    <6> QED  BY <6>1, <6>2, ConstantsAreDisjoint DEF Held, Holders
                <5>2. p \in R(c - 1)
                    BY <3>4, <4>1, <5>1 DEF MetContainers
                <5>3. p \in R(c)
                    BY <2>4, <3>1, <5>2
                <5> QED  BY <5>3 DEF MetContainers
            <4> QED  BY <4>1
        <3>6. PICK e \in ToSet(w[d][h]) : e = <<x, p>>
            BY <2>2, <3>3, <3>5 DEF NextRound
        <3>7. e[1] = x
            BY <3>6
        <3> QED  BY <3>1, <3>6, <3>7 DEF MetContainers
    <2>7. ASSUME c # 0, R(c) \subseteq R(c - 1), NEW x \in R(d) PROVE x \in R(c)
        <3>1. PICK u \in ToSet(w[d][h]) : u[1] = x
            BY <2>7 DEF MetContainers
        <3>2. PICK p \in Holders : p = u[2] /\ x \in ToSet(g.contains[p])
            BY <2>5, <3>1 DEF Held
        <3>3. p = h \/ \E v \in ToSet(w[c][h]) : v[1] = p
            BY <2>2, <3>1, <3>2 DEF NextRound
        <3>4. p = h \/ \E v \in ToSet(w[c - 1][h]) : v[1] = p
            <4>1. CASE p # h
                <5>1. PICK v \in ToSet(w[c][h]) : v[1] = p
                    BY <3>3, <4>1
                <5>2. p \in Containers
                    BY <2>5, <5>1, <3>2, ConstantsAreDisjoint DEF Held, Holders
                <5>3. p \in R(c)
                    BY <5>1, <5>2 DEF MetContainers
                <5>4. p \in R(c - 1)
                    BY <2>7, <5>3
                <5> QED  BY <5>4 DEF MetContainers
            <4> QED  BY <4>1
        <3>5. PICK e \in ToSet(w[c][h]) : e = <<x, p>>
            BY <2>2, <2>7, <3>2, <3>4 DEF NextRound
        <3>6. e[1] = x /\ x \in Containers
            BY <2>7, <3>5 DEF MetContainers
        <3> QED  BY <3>5, <3>6 DEF MetContainers
    <2>8. ASSUME ~(R(d) \subseteq R(c)) PROVE Cardinality(R(d)) >= d
        <3>1. R(c) \subseteq R(d) /\ R(c) # R(d) /\ R(d) \in SUBSET Containers
            BY <2>6, <2>8 DEF MetContainers
        <3>2. c = 0 \/ Cardinality(R(c)) >= c
            BY <2>4, <2>7, <2>8
        <3> HIDE DEF R
        <3>3. /\ Cardinality(R(c)) \in Nat /\ Cardinality(R(d)) \in Nat
              /\ Cardinality(R(c)) <= Cardinality(R(d)) /\ Cardinality(R(c)) # Cardinality(R(d))
            BY <3>1, ContainersAreFinite, FS_Subset
        <3>4. Cardinality(R(c)) >= c
            BY <2>1, <3>2, <3>3
        <3> QED  BY <2>1, <3>3, <3>4
    <2>9. P(d)
        BY <2>1, <2>6, <2>8
    <2> HIDE DEF P
    <2> QED  BY <2>9, DepthIsNat
<1>3. \A d \in 0 .. Depth : d \in T
    <2> HIDE DEF T
    <2> QED  BY <1>1, <1>2, DepthInduction
<1>4. Depth \in 1 .. Depth /\ Depth = Cardinality(Containers) + 1
    BY ContainersAreFinite DEF Depth
<1>5. P(Depth)
    <2> HIDE DEF P
    <2> QED  BY <1>3, <1>4
<1>6. Cardinality(R(Depth)) <= Cardinality(Containers) /\ Cardinality(R(Depth)) \in Nat
    <2>1. R(Depth) \in SUBSET Containers
        BY DEF MetContainers
    <2> QED  BY <2>1, ContainersAreFinite
<1>7. ~(Cardinality(R(Depth)) >= Depth)
    <2> HIDE DEF R
    <2> QED  BY <1>4, <1>6, ContainersAreFinite
<1> QED  BY <1>5, <1>7

(* The walk is deep enough: it misses nothing.                              *)
LEMMA WalkIsComplete ==
    ASSUME NEW g \in Graphs, NEW w, Walk(g, w), NEW h \in Holders PROVE Complete(g, w[Depth][h], h)
<1>1. Depth \in 1 .. Depth
    BY ContainersAreFinite DEF Depth
<1>2. NextRound(g, w[Depth - 1][h], w[Depth][h], h)
    BY <1>1, WalkGoesInRounds
<1>3. ASSUME NEW p \in Holders, p # h, NEW u \in ToSet(w[Depth][h]), u[1] = p
      PROVE  \E v \in ToSet(w[Depth - 1][h]) : v[1] = p
    <2>1. Held(g, w[Depth][h], h, u)
        BY <1>1, WalkHolders
    <2>2. p \in Containers
        BY <1>3, <2>1, ConstantsAreDisjoint DEF Held, Holders
    <2>3. p \in MetContainers(w[Depth][h])
        BY <1>3, <2>2 DEF MetContainers
    <2>4. p \in MetContainers(w[Depth - 1][h])
        BY <2>3, LastRoundMeetsNoContainer
    <2> QED  BY <2>4 DEF MetContainers
<1> QED  BY <1>2, <1>3 DEF NextRound, Complete

-----------------------------------------------------------------------------
(* The nodes of the model. *)

LEMMA LiveIsLeast ==
    ASSUME NEW g \in Graphs, NEW S, Closed(g, S) PROVE LiveNodes(g) \subseteq S
<1>1. PICK w : Walk(g, w) /\ Visits(g) = w[Depth][Root]
    BY WalkSteps DEF Walk
<1>2. Depth \in 0 .. Depth /\ Root \in Holders
    BY DepthIsNat DEF Holders
<1>3. \A e \in ToSet(w[Depth][Root]) : e[1] \in S
    BY <1>1, <1>2, WalkStaysInside
<1> QED  BY <1>1, <1>3 DEF LiveNodes, NodesOf

LEMMA LiveIsClosed ==
    ASSUME NEW g \in Graphs PROVE Closed(g, LiveNodes(g))
<1>1. PICK w : Walk(g, w) /\ Visits(g) = w[Depth][Root]
    BY WalkSteps DEF Walk
<1>2. Root \in Holders
    BY DEF Holders
<1>3. Complete(g, Visits(g), Root)
    BY <1>1, <1>2, WalkIsComplete
<1> SUFFICES ASSUME NEW h \in Holders, h \in LiveNodes(g) \union {Root}, NEW n \in ToSet(g.contains[h])
             PROVE  n \in LiveNodes(g)
    BY DEF Closed
<1>4. h = Root \/ \E u \in ToSet(Visits(g)) : u[1] = h
    BY DEF LiveNodes, NodesOf
<1>5. <<n, h>> \in ToSet(Visits(g))
    BY <1>3, <1>4 DEF Complete
<1>6. n = <<n, h>>[1]
    OBVIOUS
<1> QED  BY <1>5, <1>6 DEF LiveNodes, NodesOf

LEMMA VisitsAreHeld ==
    ASSUME NEW g \in Graphs, NEW e \in ToSet(Visits(g))
    PROVE  /\ e[1] \in Nodes /\ e[2] \in Holders /\ e[1] \in ToSet(g.contains[e[2]])
           /\ e[1] \in LiveNodes(g) /\ e[2] \in LiveNodes(g) \union {Root}
<1>1. PICK w : Walk(g, w) /\ Visits(g) = w[Depth][Root]
    BY WalkSteps DEF Walk
<1>2. Depth \in 0 .. Depth /\ Root \in Holders
    BY DepthIsNat DEF Holders
<1>3. Held(g, Visits(g), Root, e)
    BY <1>1, <1>2, WalkHolders
<1> QED  BY <1>3 DEF Held, LiveNodes, NodesOf

LEMMA LiveAreNodes ==
    ASSUME NEW g \in Graphs PROVE LiveNodes(g) \subseteq Nodes
BY VisitsAreHeld DEF LiveNodes, NodesOf

(* The index of a model has the nodes that the walk meets, each with a      *)
(* holder that has an entry for it.                                         *)
LEMMA IndexIsOfVisits ==
    ASSUME NEW g \in Graphs, NEW n \in Nodes, NEW p, p = indexGraphModel(g).parent[n]
    PROVE  /\ p # None => <<n, p>> \in ToSet(Visits(g))
           /\ p = None => n \notin LiveNodes(g)
<1> DEFINE v == Visits(g)
           I == {i \in 1 .. Len(v) : v[i][1] = n}
           last == SelectLastInSeq(v, LAMBDA e : e[1] = n)
<1>1. v \in Seq(Entries) /\ Len(v) \in Nat /\ ToSet(v) = {v[i] : i \in 1 .. Len(v)}
    BY VisitsTyped, ToSetPlaces
<1>2. p = IF last = 0 THEN None ELSE v[last][2]
    BY DEF indexGraphModel
<1>3. last = IF I # {} THEN Max(I) ELSE 0
    BY DEF SelectLastInSeq
<1>4. \A i \in 1 .. Len(v) : v[i] = <<v[i][1], v[i][2]>> /\ v[i][2] \in Holders
    BY <1>1, ElementOfSeq DEF Entries
<1> HIDE DEF v
<1>5. CASE I = {}
    <2>1. p = None
        BY <1>2, <1>3, <1>5
    <2>2. \A e \in ToSet(v) : e[1] # n
        BY <1>1, <1>5
    <2> QED  BY <2>1, <2>2 DEF LiveNodes, NodesOf, v
<1>6. CASE I # {}
    <2>1. Max(I) \in I
        <3>1. I \in SUBSET (0 .. Len(v))
            BY <1>1
        <3> HIDE DEF I
        <3> QED  BY <1>1, <1>6, <3>1, LeastAndGreatest, Zenon
    <2>2. PICK i \in 1 .. Len(v) : i = Max(I) /\ v[i][1] = n
        BY <2>1
    <2>3. p = v[i][2]
        BY <1>2, <1>3, <1>6, <2>2
    <2>4. v[i] = <<n, p>> /\ v[i] \in ToSet(v) /\ p # None
        BY <1>1, <1>4, <2>2, <2>3, ConstantsAreDisjoint
    <2> QED  BY <2>4 DEF v
<1> QED  BY <1>5, <1>6

-----------------------------------------------------------------------------
(* What lies below a holder. *)

ClosedBelow(g, h, S) == \A k \in (S \union {h}) \intersect Holders : ToSet(g.contains[k]) \subseteq S

LEMMA BelowIsLeast ==
    ASSUME NEW g \in Graphs, NEW h
    PROVE  /\ Below(g, h) \subseteq Nodes
           /\ ClosedBelow(g, h, Below(g, h))
           /\ \A S \in SUBSET Nodes : ClosedBelow(g, h, S) => Below(g, h) \subseteq S
           /\ h \notin Holders => Below(g, h) = {}
<1>1. Below(g, h) \subseteq Nodes
    BY DEF Below
<1>2. \A S \in SUBSET Nodes : ClosedBelow(g, h, S) => Below(g, h) \subseteq S
    BY DEF Below, ClosedBelow
<1>3. ASSUME NEW k \in (Below(g, h) \union {h}) \intersect Holders, NEW n \in ToSet(g.contains[k])
      PROVE  n \in Below(g, h)
    <2>1. n \in Nodes
        <3>1. g.contains[k] \in Seq(Nodes)
            BY DEF Graphs
        <3> QED  BY <3>1, ToSetPlaces
    <2>2. ASSUME NEW S \in SUBSET Nodes, ClosedBelow(g, h, S) PROVE n \in S
        BY <1>2, <1>3, <2>2 DEF ClosedBelow
    <2> QED  BY <2>1, <2>2 DEF Below, ClosedBelow
<1>4. ASSUME h \notin Holders PROVE Below(g, h) \subseteq {}
    <2>1. ClosedBelow(g, h, {})
        BY <1>4 DEF ClosedBelow
    <2> QED  BY <1>2, <2>1
<1> QED  BY <1>1, <1>2, <1>3, <1>4 DEF ClosedBelow

LEMMA BelowGoesDown ==
    ASSUME NEW g \in Graphs, NEW h, NEW x \in Below(g, h) PROVE Below(g, x) \subseteq Below(g, h)
<1>1. ClosedBelow(g, x, Below(g, h)) /\ Below(g, h) \in SUBSET Nodes
    BY BelowIsLeast DEF ClosedBelow
<1> QED  BY <1>1, BelowIsLeast

LEMMA EntriesAreBelow ==
    ASSUME NEW g \in Graphs, NEW h \in Holders, NEW n \in ToSet(g.contains[h])
    PROVE  n \in Below(g, h) /\ Below(g, n) \subseteq Below(g, h)
<1>1. n \in Below(g, h)
    BY BelowIsLeast DEF ClosedBelow
<1> QED  BY <1>1, BelowGoesDown

(* What is below h has a holder that is h or below h itself.                *)
LEMMA BelowIsHeld ==
    ASSUME NEW g \in Graphs, NEW h, NEW x \in Below(g, h)
    PROVE  \E p \in (Below(g, h) \union {h}) \intersect Holders : x \in ToSet(g.contains[p])
<1> SUFFICES ASSUME \A p \in (Below(g, h) \union {h}) \intersect Holders : x \notin ToSet(g.contains[p])
             PROVE  FALSE
    OBVIOUS
<1>1. PICK S \in SUBSET Nodes : S = Below(g, h) \ {x}
    BY BelowIsLeast
<1>2. ClosedBelow(g, h, S)
    BY <1>1, BelowIsLeast DEF ClosedBelow
<1>3. Below(g, h) \subseteq S
    BY <1>2, BelowIsLeast
<1> QED  BY <1>1, <1>3

LEMMA BelowLiveIsLive ==
    ASSUME NEW g \in Graphs, NEW h \in LiveNodes(g) \union {Root} PROVE Below(g, h) \subseteq LiveNodes(g)
<1>1. Closed(g, LiveNodes(g)) /\ LiveNodes(g) \in SUBSET Nodes
    BY LiveIsClosed, LiveAreNodes
<1>2. ClosedBelow(g, h, LiveNodes(g))
    BY <1>1 DEF Closed, ClosedBelow
<1> QED  BY <1>1, <1>2, BelowIsLeast

-----------------------------------------------------------------------------
(* A model in which every node has one entry stays one when entries are     *)
(* taken out of its lists.                                                  *)

SoleHolders(g) ==
    \A h, k \in Holders, n \in Nodes : n \in ToSet(g.contains[h]) /\ n \in ToSet(g.contains[k]) => h = k

LEMMA ListsOfNodes ==
    ASSUME NEW g \in Graphs, NEW h \in Holders
    PROVE  /\ g.contains[h] \in Seq(Nodes) /\ Len(g.contains[h]) \in Nat
           /\ DOMAIN g.contains[h] = 1 .. Len(g.contains[h])
           /\ ToSet(g.contains[h]) = {g.contains[h][i] : i \in 1 .. Len(g.contains[h])}
           /\ ToSet(g.contains[h]) \subseteq Nodes
<1>1. g.contains[h] \in Seq(Nodes)
    BY DEF Graphs
<1> QED  BY <1>1, ToSetPlaces, LenProperties

LEMMA OneEntryForm ==
    ASSUME NEW g \in Graphs
    PROVE  OneEntryEach(g) <=> (\A h \in Holders : DuplicateFree(g.contains[h])) /\ SoleHolders(g)
<1>1. ASSUME OneEntryEach(g) PROVE (\A h \in Holders : DuplicateFree(g.contains[h])) /\ SoleHolders(g)
    <2>1. ASSUME NEW h \in Holders PROVE DuplicateFree(g.contains[h])
        BY <1>1, ListsOfNodes DEF OneEntryEach, DuplicateFree
    <2>2. ASSUME NEW h \in Holders, NEW k \in Holders, NEW n \in Nodes,
                 n \in ToSet(g.contains[h]), n \in ToSet(g.contains[k])
          PROVE  h = k
        <3>1. PICK i \in DOMAIN g.contains[h] : g.contains[h][i] = n
            BY <2>2 DEF ToSet
        <3>2. PICK j \in DOMAIN g.contains[k] : g.contains[k][j] = n
            BY <2>2 DEF ToSet
        <3> QED  BY <1>1, <3>1, <3>2 DEF OneEntryEach
    <2> QED  BY <2>1, <2>2 DEF SoleHolders
<1>2. ASSUME \A h \in Holders : DuplicateFree(g.contains[h]), SoleHolders(g) PROVE OneEntryEach(g)
    <2> SUFFICES ASSUME NEW h \in Holders, NEW k \in Holders,
                        NEW i \in DOMAIN g.contains[h], NEW j \in DOMAIN g.contains[k],
                        g.contains[h][i] = g.contains[k][j]
                 PROVE  h = k /\ i = j
        BY DEF OneEntryEach
    <2>1. PICK n : n = g.contains[h][i]
        OBVIOUS
    <2>2. n \in ToSet(g.contains[h]) /\ n \in ToSet(g.contains[k]) /\ n \in Nodes
        BY <2>1, ListsOfNodes DEF ToSet
    <2>3. h = k
        BY <1>2, <2>2 DEF SoleHolders
    <2>4. i \in 1 .. Len(g.contains[h]) /\ j \in 1 .. Len(g.contains[h]) /\ DuplicateFree(g.contains[h])
        BY <1>2, <2>3, ListsOfNodes
    <2> QED  BY <2>3, <2>4 DEF DuplicateFree
<1> QED  BY <1>1, <1>2

(* A model in which every node has one holder can be walked over: a circle  *)
(* would have no way in from the root.                                      *)
LEMMA OneEntryIsWalkable ==
    ASSUME NEW g \in Graphs, SoleHolders(g) PROVE Walkable(g)
<1> DEFINE S == {n \in Nodes : n \notin Below(g, n)}
<1>1. ASSUME NEW h \in Holders, h \in S \union {Root}, NEW m \in ToSet(g.contains[h]) PROVE m \in S
    <2>1. m \in Nodes
        BY ListsOfNodes
    <2>2. ASSUME m \in Below(g, m) PROVE FALSE
        <3>1. PICK p \in (Below(g, m) \union {m}) \intersect Holders : m \in ToSet(g.contains[p])
            BY <2>2, BelowIsHeld
        <3>2. p = h
            BY <2>1, <3>1 DEF SoleHolders
        <3>3. h \in Below(g, m)
            BY <2>2, <3>1, <3>2
        <3>4. h \in Nodes /\ Below(g, m) \subseteq Below(g, h)
            BY <3>3, BelowIsLeast, EntriesAreBelow
        <3> QED  BY <1>1, <3>3, <3>4, ConstantsAreDisjoint
    <2> QED  BY <2>1, <2>2
<1>2. LiveNodes(g) \subseteq S
    <2>1. Closed(g, S)
        BY <1>1 DEF Closed
    <2> HIDE DEF S
    <2> QED  BY <2>1, LiveIsLeast
<1> QED  BY <1>2 DEF Walkable

(* Where every node has one holder, what is below two holders puts one of   *)
(* them below the other.                                                    *)
LEMMA BelowBoth ==
    ASSUME NEW g \in Graphs, SoleHolders(g), NEW a, NEW b, NEW x, x \in Below(g, a), x \in Below(g, b)
    PROVE  a = b \/ a \in Below(g, b) \/ b \in Below(g, a)
<1> SUFFICES ASSUME a # b, a \notin Below(g, b), b \notin Below(g, a) PROVE FALSE
    OBVIOUS
<1>1. PICK S \in SUBSET Nodes : S = Below(g, a) \ Below(g, b)
    BY BelowIsLeast
<1>2. ASSUME NEW k \in (S \union {a}) \intersect Holders, NEW m \in ToSet(g.contains[k]) PROVE m \in S
    <2>1. m \in Below(g, a) /\ m \in Nodes
        BY <1>1, BelowIsLeast DEF ClosedBelow
    <2>2. ASSUME m \in Below(g, b) PROVE FALSE
        <3>1. PICK p \in (Below(g, b) \union {b}) \intersect Holders : m \in ToSet(g.contains[p])
            BY <2>2, BelowIsHeld
        <3>2. p = k
            BY <2>1, <3>1 DEF SoleHolders
        <3> QED  BY <1>1, <3>1, <3>2
    <2> QED  BY <1>1, <2>1, <2>2
<1>3. ClosedBelow(g, a, S)
    BY <1>2 DEF ClosedBelow
<1>4. Below(g, a) \subseteq S
    BY <1>3, BelowIsLeast
<1> QED  BY <1>1, <1>4

(* And what a node of the model is below is in the model.                   *)
LEMMA AroundLiveIsLive ==
    ASSUME NEW g \in Graphs, SoleHolders(g), NEW h \in Holders, NEW n \in LiveNodes(g), n \in Below(g, h)
    PROVE  h \in LiveNodes(g) \union {Root}
<1> SUFFICES ASSUME h \notin LiveNodes(g) \union {Root} PROVE FALSE
    OBVIOUS
<1>1. PICK S \in SUBSET Nodes : S = Below(g, h) \ LiveNodes(g)
    BY BelowIsLeast
<1>2. ASSUME NEW k \in (S \union {h}) \intersect Holders, NEW m \in ToSet(g.contains[k]) PROVE m \in S
    <2>1. m \in Below(g, h) /\ m \in Nodes
        BY <1>1, BelowIsLeast DEF ClosedBelow
    <2>2. k \notin LiveNodes(g) \union {Root}
        BY <1>1, ConstantsAreDisjoint
    <2>3. ASSUME m \in LiveNodes(g) PROVE FALSE
        <3>1. PICK e \in ToSet(Visits(g)) : e[1] = m
            BY <2>3 DEF LiveNodes, NodesOf
        <3>2. PICK p \in Holders : m \in ToSet(g.contains[p]) /\ p \in LiveNodes(g) \union {Root}
            BY <3>1, VisitsAreHeld
        <3>3. p = k
            BY <2>1, <3>2 DEF SoleHolders
        <3> QED  BY <2>2, <3>2, <3>3
    <2> QED  BY <1>1, <2>1, <2>3
<1>3. ClosedBelow(g, h, S)
    BY <1>2 DEF ClosedBelow
<1>4. Below(g, h) \subseteq S
    BY <1>3, BelowIsLeast
<1> QED  BY <1>1, <1>4

(* The lists of k are those of g without some of their entries.             *)
Thinned(k, g) ==
    \A h \in Holders :
        /\ ToSet(k.contains[h]) \subseteq ToSet(g.contains[h])
        /\ DuplicateFree(g.contains[h]) => DuplicateFree(k.contains[h])

LEMMA ThinnedStaysWell ==
    ASSUME NEW g \in Graphs, NEW k \in Graphs, Thinned(k, g), OneEntryEach(g) PROVE OneEntryEach(k)
<1>1. SoleHolders(g) => SoleHolders(k)
    BY DEF Thinned, SoleHolders
<1>2. (\A h \in Holders : DuplicateFree(g.contains[h])) => \A h \in Holders : DuplicateFree(k.contains[h])
    BY DEF Thinned
<1> QED  BY <1>1, <1>2, OneEntryForm

(* What one removal of a deletion leaves.                                   *)
Removed(a, e) == RemoveEntry(RemoveAssociatedEdges(a, e[1]), e[2], e[1])

LEMMA RemovalLeaves ==
    ASSUME NEW a \in Graphs, NEW x \in Nodes, NEW y \in Holders, NEW k, k = Removed(a, <<x, y>>)
    PROVE  /\ k \in Reductions(a)
           /\ \A h \in Holders :
                k.contains[h] = IF h = y THEN RemoveFirst(a.contains[h], x) ELSE a.contains[h]
           /\ k.edges = {e \in a.edges : a.src[e] # {x} /\ a.tgt[e] # {x}}
<1>1. PICK b : b = RemoveAssociatedEdges(a, x)
    OBVIOUS
<1>2. b \in Reductions(a) /\ b \in Graphs
    BY <1>1, EdgeRemovalReduces DEF Reductions
<1>3. b.contains = a.contains /\ b.edges = {e \in a.edges : a.src[e] # {x} /\ a.tgt[e] # {x}}
    <2> DEFINE toDelete == {e \in a.edges : a.src[e] = {x} \/ a.tgt[e] = {x}}
               rest == a.edges \ toDelete
               src == [e \in Edges |-> IF e \in rest THEN a.src[e] \ {x} ELSE a.src[e]]
               tgt == [e \in Edges |-> IF e \in rest /\ x \notin a.src[e] THEN a.tgt[e] \ {x} ELSE a.tgt[e]]
               ghosts == a.ghosts \ {<<Root, e>> : e \in toDelete}
    <2>1. b = [a EXCEPT !.edges = rest, !.src = src, !.tgt = tgt, !.ghosts = ghosts]
        BY <1>1 DEF RemoveAssociatedEdges
    <2>2. rest = {e \in a.edges : a.src[e] # {x} /\ a.tgt[e] # {x}}
        OBVIOUS
    <2> HIDE DEF rest, src, tgt, ghosts
    <2>3. b.contains = a.contains /\ b.edges = rest
        BY <2>1 DEF Graphs
    <2> QED  BY <2>2, <2>3
<1>4. k = RemoveEntry(b, y, x)
    BY <1>1 DEF Removed
<1>5. k \in Reductions(b)
    BY <1>2, <1>4, EntryRemovalReduces
<1>6. PICK c : c = [b.contains EXCEPT ![y] = RemoveFirst(@, x)]
    OBVIOUS
<1>7. PICK ghosts : ghosts = b.ghosts \ {<<y, x>>}
    OBVIOUS
<1>8. k = [b EXCEPT !.contains = c, !.ghosts = ghosts]
    BY <1>2, <1>4, <1>6, <1>7 DEF RemoveEntry, Graphs
<1>9. k.contains = c /\ k.edges = b.edges
    BY <1>2, <1>8 DEF Graphs
<1>10. \A h \in Holders : c[h] = IF h = y THEN RemoveFirst(b.contains[h], x) ELSE b.contains[h]
    BY <1>2, <1>6 DEF Graphs
<1> QED  BY <1>2, <1>3, <1>5, <1>9, <1>10, ReductionsCompose

LEMMA RemovalThins ==
    ASSUME NEW g \in Graphs, NEW a \in Graphs, Thinned(a, g), NEW x \in Nodes, NEW y \in Holders
    PROVE  Thinned(Removed(a, <<x, y>>), g)
<1>1. PICK k : k = Removed(a, <<x, y>>)
    OBVIOUS
<1>2. ASSUME NEW h \in Holders
      PROVE  /\ ToSet(k.contains[h]) \subseteq ToSet(g.contains[h])
             /\ DuplicateFree(g.contains[h]) => DuplicateFree(k.contains[h])
    <2>1. k.contains[h] = IF h = y THEN RemoveFirst(a.contains[h], x) ELSE a.contains[h]
        BY <1>1, RemovalLeaves
    <2>2. LosesAtMost(RemoveFirst(a.contains[h], x), a.contains[h], x)
        BY ListsOfNodes, RemoveFirstMembers
    <2> QED  BY <2>1, <2>2 DEF LosesAtMost, Thinned
<1> QED  BY <1>1, <1>2 DEF Thinned

-----------------------------------------------------------------------------
(* What a deletion keeps. *)

EdgeTaken(k, x) == [k EXCEPT !.edges = @ \ {x}, !.ghosts = @ \ {<<Root, x>>}]

LEMMA EdgeTakenLeaves ==
    ASSUME NEW a \in Graphs, NEW x \in Edges, NEW k, k = EdgeTaken(a, x)
    PROVE  k \in Reductions(a) /\ k.contains = a.contains /\ k.edges = a.edges \ {x}
<1>1. /\ k \in Graphs /\ k.contains = a.contains
      /\ k.edges = a.edges \ {x} /\ k.src = a.src /\ k.tgt = a.tgt
      /\ k.ghosts = a.ghosts \ {<<Root, x>>}
    BY DEF EdgeTaken, Graphs
<1> QED  BY <1>1 DEF Reductions

(* K is closed under the removals of E and of edges, and E under going on   *)
(* to what a container holds; then the deletion of ids whose entries are in *)
(* E ends in K, up to what is no longer reachable.                          *)
Withstands(K, E) ==
    /\ Spreads(K, E)
    /\ \A k \in K, e \in E : Removed(k, e) \in K
    /\ \A k \in K, x \in Edges : EdgeTaken(k, x) \in K

Within(ids, K, E) ==
    \A k \in K, x \in Nodes, h \in Holders :
        x \in ToSet(ids) /\ h = index.parent[x] /\ x \in ToSet(k.contains[h])
            => <<x, h>> \in E

LEMMA EntriesSpread ==
    ASSUME NEW K, \A k \in K : k \in Graphs PROVE Spreads(K, Entries)
<1> SUFFICES ASSUME NEW k \in K, NEW c \in Containers, NEW m \in ToSet(k.contains[c])
             PROVE  <<m, c>> \in Entries
    BY DEF Spreads
<1>1. c \in Holders /\ m \in Nodes
    BY ListsOfNodes DEF Holders
<1> QED  BY <1>1 DEF Entries

LEMMA DeletionKeeps ==
    ASSUME GraphTypeOK, NEW ids \in Selections, Delete(ids),
           NEW K, K \subseteq Reductions(graph), graph \in K,
           NEW E, Withstands(K, E), Within(ids, K, E)
    PROVE  \E k \in K : graph' = Collected(k)
<1> DEFINE V == [g : K, threw : BOOLEAN]
<1>1. [g |-> graph, threw |-> FALSE] \in V
    OBVIOUS
<1>2. ASSUME NEW a \in V, NEW x \in ToSet(ids) PROVE deleteElementById(a, x) \in V
    <2> DEFINE h == index.parent[x]
    <2>1. a.g \in K /\ a.g \in Graphs /\ a.threw \in BOOLEAN
        BY DEF Reductions
    <2>2. PICK g \in K : g = a.g
        BY <2>1
    <2>3. x \in Nodes \union Edges
        BY SelectionsAssumption, LenProperties, ElementOfSeq DEF ToSet
    <2>4. CASE a.threw \/ TypeOf[x] \in DisabledDelete
        BY <2>4 DEF deleteElementById
    <2>5. CASE ~(a.threw \/ TypeOf[x] \in DisabledDelete) /\ x \in Edges
        <3>1. CASE x \in index.edges
            <4>1. deleteElementById(a, x) = [a EXCEPT !.g.edges = @ \ {x}, !.g.ghosts = @ \ {<<Root, x>>}]
                BY <2>5, <3>1 DEF deleteElementById
            <4>2. PICK k : k = [g EXCEPT !.edges = @ \ {x}, !.ghosts = @ \ {<<Root, x>>}]
                OBVIOUS
            <4>3. deleteElementById(a, x) = [a EXCEPT !.g = k]
                BY <2>2, <4>1, <4>2
            <4>4. k \in K
                BY <2>2, <2>5, <4>2 DEF Withstands, EdgeTaken
            <4> QED  BY <2>1, <4>3, <4>4
        <3>2. CASE x \notin index.edges
            BY <2>5, <3>2 DEF deleteElementById
        <3> QED  BY <3>1, <3>2
    <2>6. CASE ~(a.threw \/ TypeOf[x] \in DisabledDelete) /\ x \notin Edges
        <3>1. x \in Nodes /\ h \in Holders \union {None}
            BY <2>3, <2>6 DEF GraphTypeOK
        <3>2. CASE h # None /\ x \in ToSet(g.contains[h])
            <4>1. <<x, h>> \in E
                BY <3>1, <3>2 DEF Within
            <4>2. Spreads(K, E) /\ \A k \in K, e \in E :
                    RemoveEntry(RemoveAssociatedEdges(k, e[1]), e[2], e[1]) \in K
                BY DEF Withstands, Removed
            <4>3. PICK r \in Runs(K, E) : r = deleteNode(g, h, x)
                BY <4>1, <4>2, NodeDeletionStays
            <4>4. PICK t \in BOOLEAN : t = (r.loops # <<>>)
                OBVIOUS
            <4>5. deleteElementById(a, x) = [a EXCEPT !.g = r.g, !.threw = t]
                BY <2>2, <2>6, <3>2, <4>3, <4>4 DEF deleteElementById
            <4> QED  BY <4>3, <4>5 DEF Runs
        <3>3. CASE ~(h # None /\ x \in ToSet(g.contains[h]))
            <4>1. deleteElementById(a, x) \in {a, [a EXCEPT !.threw = a.g.edges # {}]}
                BY <2>2, <2>6, <3>3 DEF deleteElementById
            <4> QED  BY <4>1
        <3> QED  BY <3>2, <3>3
    <2> QED  BY <2>4, <2>5, <2>6
<1>3. PICK a \in V : graph' = Collected(a.g)
    <2> HIDE DEF V
    <2> QED  BY <1>1, <1>2, SelectionDeletionStays
<1> QED  BY <1>3

(* The collection leaves what is in the model as it is.                     *)
LEMMA CollectionLeaves ==
    ASSUME NEW g \in Graphs, NEW k, k = Collected(g)
    PROVE  /\ k \in Graphs /\ Thinned(k, g) /\ k.edges = g.edges
           /\ \A e \in g.edges : k.src[e] = g.src[e] /\ k.tgt[e] = g.tgt[e]
           /\ \A h \in LiveNodes(g) \union {Root} : h \in Holders => k.contains[h] = g.contains[h]
<1> DEFINE live == LiveNodes(g)
           contains == [h \in Holders |-> IF h \in live \union {Root} THEN g.contains[h] ELSE <<>>]
           src == [e \in Edges |-> IF e \in g.edges THEN g.src[e] ELSE {}]
           tgt == [e \in Edges |-> IF e \in g.edges THEN g.tgt[e] ELSE {}]
           ghosts == {x \in g.ghosts : x[1] \in live \union {Root}}
<1>1. k = [g EXCEPT !.contains = contains, !.src = src, !.tgt = tgt, !.ghosts = ghosts]
    BY DEF Collected
<1>2. k.contains = contains /\ k.edges = g.edges /\ k.src = src /\ k.tgt = tgt
    <2> HIDE DEF contains, src, tgt, ghosts
    <2> QED  BY <1>1 DEF Graphs
<1>3. \A h \in LiveNodes(g) \union {Root} : h \in Holders => k.contains[h] = g.contains[h]
    BY <1>2
<1>4. k \in Graphs
    BY CollectionReduces DEF Reductions
<1>5. \A e \in g.edges : k.src[e] = g.src[e] /\ k.tgt[e] = g.tgt[e]
    BY <1>2 DEF Graphs
<1>6. \A h \in Holders : k.contains[h] = g.contains[h] \/ k.contains[h] = <<>>
    BY <1>2
<1>7. Thinned(k, g)
    BY <1>6, ToSetEmpty DEF Thinned
<1> QED  BY <1>2, <1>3, <1>4, <1>5, <1>7

LEMMA CollectionKeepsLive ==
    ASSUME NEW g \in Graphs, NEW k, k = Collected(g)
    PROVE  LiveNodes(g) = LiveNodes(k)
<1>1. k \in Graphs /\ Thinned(k, g)
    BY CollectionLeaves
<1>2. Closed(g, LiveNodes(g)) /\ Closed(k, LiveNodes(k))
    BY <1>1, LiveIsClosed
<1>3. Closed(k, LiveNodes(g))
    BY <1>1, <1>2 DEF Closed, Thinned
<1>4. LiveNodes(k) \subseteq LiveNodes(g)
    BY <1>1, <1>3, LiveIsLeast
<1>5. Closed(g, LiveNodes(k))
    BY <1>2, <1>4, CollectionLeaves DEF Closed
<1>6. LiveNodes(g) \subseteq LiveNodes(k)
    BY <1>5, LiveIsLeast
<1> QED  BY <1>4, <1>6

(* Whatever the ids are, a deletion only takes entries out of lists.        *)
LEMMA DeletionThins ==
    ASSUME GraphTypeOK, NEW ids \in Selections, Delete(ids) PROVE Thinned(graph', graph) /\ graph' \in Graphs
<1> DEFINE K == {k \in Reductions(graph) : Thinned(k, graph)}
<1>0. graph \in Graphs /\ \A k \in Reductions(graph) : k \in Graphs
    BY DEF GraphTypeOK, Reductions
<1>1. K \subseteq Reductions(graph) /\ graph \in K
    BY <1>0 DEF Reductions, Thinned
<1>2. Withstands(K, Entries)
    <2>1. ASSUME NEW k \in K, NEW e \in Entries PROVE Removed(k, e) \in K
        <3>1. PICK x \in Nodes, y \in Holders : e = <<x, y>>
            BY DEF Entries
        <3>2. Removed(k, e) \in Reductions(k)
            BY <1>0, <3>1, RemovalLeaves
        <3>3. Thinned(Removed(k, e), graph)
            BY <1>0, <3>1, RemovalThins
        <3> QED  BY <3>2, <3>3, ReductionsCompose
    <2>2. ASSUME NEW k \in K, NEW x \in Edges PROVE EdgeTaken(k, x) \in K
        <3>1. EdgeTaken(k, x) \in Reductions(k) /\ EdgeTaken(k, x).contains = k.contains
            BY <1>0, EdgeTakenLeaves
        <3>2. Thinned(EdgeTaken(k, x), graph)
            BY <3>1 DEF Thinned
        <3> QED  BY <3>1, <3>2, ReductionsCompose
    <2>3. Spreads(K, Entries)
        BY <1>0, EntriesSpread
    <2> HIDE DEF K
    <2> QED  BY <2>1, <2>2, <2>3 DEF Withstands
<1>3. Within(ids, K, Entries)
    BY DEF Within, Entries
<1>4. PICK k \in K : graph' = Collected(k)
    <2> HIDE DEF K
    <2> QED  BY <1>1, <1>2, <1>3, DeletionKeeps
<1>5. graph' \in Graphs /\ Thinned(graph', k) /\ Thinned(k, graph)
    BY <1>0, <1>4, CollectionLeaves
<1> QED  BY <1>5 DEF Thinned

-----------------------------------------------------------------------------
(* What the operations keep of the tree. *)

(* The lists of k are those of g with n at the end of the list of h.        *)
EntryAdded(k, g, h, n) ==
    \A p \in Holders : k.contains[p] = IF p = h THEN Append(g.contains[h], n) ELSE g.contains[p]

Gains(k, g, h, n) ==
    \A p \in Holders :
        /\ ToSet(k.contains[p]) = ToSet(g.contains[p]) \union (IF p = h THEN {n} ELSE {})
        /\ DuplicateFree(g.contains[p]) /\ n \notin ToSet(g.contains[p]) => DuplicateFree(k.contains[p])

LEMMA AdditionGains ==
    ASSUME NEW g \in Graphs, NEW k \in Graphs, NEW h \in Holders, NEW n \in Nodes, EntryAdded(k, g, h, n)
    PROVE  Gains(k, g, h, n)
<1> SUFFICES ASSUME NEW p \in Holders
             PROVE  /\ ToSet(k.contains[p]) = ToSet(g.contains[p]) \union (IF p = h THEN {n} ELSE {})
                    /\ DuplicateFree(g.contains[p]) /\ n \notin ToSet(g.contains[p])
                         => DuplicateFree(k.contains[p])
    BY DEF Gains
<1>1. PICK s \in Seq(Nodes) : s = g.contains[p]
    BY ListsOfNodes
<1>2. k.contains[p] = IF p = h THEN Append(s, n) ELSE s
    BY <1>1 DEF EntryAdded
<1>3. /\ ToSet(Append(s, n)) = ToSet(s) \union {n}
      /\ DuplicateFree(s) /\ n \notin ToSet(s) => DuplicateFree(Append(s, n))
    BY ToSetAppend
<1> QED  BY <1>1, <1>2, <1>3

LEMMA AdditionStaysWell ==
    ASSUME NEW g \in Graphs, NEW k \in Graphs, NEW h \in Holders, NEW n \in Nodes, EntryAdded(k, g, h, n),
           OneEntryEach(g), \A p \in Holders : n \notin ToSet(g.contains[p])
    PROVE  OneEntryEach(k)
<1>1. Gains(k, g, h, n)
    BY AdditionGains
<1>2. SoleHolders(g) /\ \A p \in Holders : DuplicateFree(g.contains[p])
    BY OneEntryForm
<1>3. \A p \in Holders : DuplicateFree(k.contains[p])
    BY <1>1, <1>2 DEF Gains
<1>4. SoleHolders(k)
    BY <1>1, <1>2 DEF SoleHolders, Gains
<1> QED  BY <1>3, <1>4, OneEntryForm

(* A creation adds a node that no list has; the others change no list or    *)
(* thin them.                                                               *)
LEMMA EditsKeepTheTree ==
    ASSUME GraphTypeOK, GraphTypeOK', OneEntryEach(graph),
           Creation \/ Deletion \/ ConflictResolution \/ Reconnection
    PROVE  OneEntryEach(graph')
<1>0. graph \in Graphs /\ graph' \in Graphs
    BY DEF GraphTypeOK
<1>1. ASSUME graph'.contains = graph.contains PROVE OneEntryEach(graph')
    BY <1>1 DEF OneEntryEach
<1>2. ASSUME NEW h \in Holders, NEW n \in Nodes, CreateNode(h, n) PROVE OneEntryEach(graph')
    <2>1. /\ \A p \in Holders : n \notin ToSet(graph.contains[p])
          /\ graph' = [graph EXCEPT !.contains[h] = Append(@, n)]
        BY <1>2 DEF CreateNode, Unused
    <2>2. EntryAdded(graph', graph, h, n)
        BY <1>0, <2>1 DEF EntryAdded, Graphs
    <2> QED  BY <1>0, <2>1, <2>2, AdditionStaysWell
<1>3. ASSUME NEW e \in Edges, NEW s \in Nodes, NEW t \in Nodes,
             CreateEdge(e, s, t) \/ Reconnect(e, s, t)
      PROVE  graph'.contains = graph.contains
    BY <1>0, <1>3 DEF CreateEdge, Reconnect, Graphs
<1>4. ASSUME NEW x \in Nodes \union Edges, Restore(x) PROVE graph'.contains = graph.contains
    BY <1>0, <1>4 DEF Restore, Graphs
<1>5. ASSUME NEW e \in Edges, NEW n \in Nodes, ChooseSource(e, n) \/ ChooseTarget(e, n)
      PROVE  graph'.contains = graph.contains
    BY <1>0, <1>5 DEF ChooseSource, ChooseTarget, Graphs
<1>6. ASSUME NEW ids \in Selections, Delete(ids) PROVE OneEntryEach(graph')
    BY <1>0, <1>6, DeletionThins, ThinnedStaysWell
<1> QED
    BY <1>1, <1>2, <1>3, <1>4, <1>5, <1>6 DEF Creation, Deletion, ConflictResolution, Reconnection

(* What changeContainer does to the lists when it finds the new holder.     *)
Moved(k, g, n, old, t) ==
    \A p \in Holders :
        ToSet(k.contains[p]) = (ToSet(g.contains[p]) \ (IF p = old THEN {n} ELSE {}))
                                   \union (IF p = t THEN {n} ELSE {})

LEMMA ChangeKeepsTheTree ==
    ASSUME graph \in Graphs, NEW n \in Nodes, NEW t \in Holders,
           NEW old \in Holders, old = index.parent[n], NEW k, k = changeContainer(n, t)
    PROVE  /\ k \in Graphs /\ k.edges = graph.edges
           /\ IF findContainer(t) THEN Moved(k, graph, n, old, t) ELSE k = graph
           /\ OneEntryEach(graph) /\ n \in ToSet(graph.contains[old]) => OneEntryEach(k)
<1>1. CASE ~findContainer(t)
    BY <1>1 DEF changeContainer
<1>2. CASE findContainer(t)
    <2>1. PICK kept \in Seq(Nodes) : kept = Without(graph.contains[old], n)
        BY WithoutTyped, ListsOfNodes
    <2>2. PICK removed \in [Holders -> Seq(Nodes)] : removed = [graph.contains EXCEPT ![old] = kept]
        BY DEF Graphs
    <2>3. PICK g \in Graphs : g = [graph EXCEPT !.contains = removed]
        BY DEF Graphs
    <2>4. g.contains = removed
        BY <2>3 DEF Graphs
    <2>5. PICK moved \in [Holders -> Seq(Nodes)] : moved = [removed EXCEPT ![t] = Append(@, n)]
        <3>1. Append(removed[t], n) \in Seq(Nodes)
            BY <2>2, AppendProperties
        <3> QED  BY <2>2, <3>1
    <2>6. PICK ghosts \in SUBSET graph.ghosts : ghosts = graph.ghosts \ {<<old, n>>}
        OBVIOUS
    <2>7. k = [graph EXCEPT !.contains = moved, !.ghosts = ghosts]
        BY <1>2, <2>1, <2>2, <2>5, <2>6 DEF changeContainer
    <2>8. k \in Graphs /\ k.contains = moved /\ k.edges = graph.edges
        BY <2>7 DEF Graphs
    <2>9. /\ ToSet(kept) = ToSet(graph.contains[old]) \ {n}
          /\ DuplicateFree(graph.contains[old]) => DuplicateFree(kept)
        BY <2>1, WithoutMembers, ListsOfNodes
    <2>10. \A p \in Holders : g.contains[p] = IF p = old THEN kept ELSE graph.contains[p]
        BY <2>2, <2>4 DEF Graphs
    <2>11. Thinned(g, graph)
        BY <2>9, <2>10 DEF Thinned
    <2>12. EntryAdded(k, g, t, n)
        <3>1. PICK longer : longer = Append(removed[t], n)
            OBVIOUS
        <3>2. \A p \in Holders : moved[p] = IF p = t THEN longer ELSE removed[p]
            BY <2>2, <2>5, <3>1
        <3>3. \A p \in Holders : k.contains[p] = IF p = t THEN longer ELSE g.contains[p]
            BY <2>4, <2>8, <3>2
        <3>4. longer = Append(g.contains[t], n)
            BY <2>4, <3>1
        <3> QED  BY <3>3, <3>4, Zenon DEF EntryAdded
    <2>14. Moved(k, graph, n, old, t)
        <3>1. Gains(k, g, t, n)
            BY <2>8, <2>12, AdditionGains
        <3>2. \A p \in Holders : ToSet(g.contains[p]) = ToSet(graph.contains[p]) \ (IF p = old THEN {n} ELSE {})
            BY <2>9, <2>10
        <3> QED  BY <3>1, <3>2 DEF Moved, Gains
    <2>15. ASSUME OneEntryEach(graph), n \in ToSet(graph.contains[old]) PROVE OneEntryEach(k)
        <3>1. OneEntryEach(g)
            BY <2>11, <2>15, ThinnedStaysWell
        <3>2. SoleHolders(graph)
            BY <2>15, OneEntryForm
        <3>3. ASSUME NEW p \in Holders PROVE n \notin ToSet(g.contains[p])
            BY <2>9, <2>10, <2>15, <3>2 DEF SoleHolders
        <3> QED  BY <2>8, <2>12, <3>1, <3>3, AdditionStaysWell
    <2> QED  BY <1>2, <2>8, <2>14, <2>15
<1> QED  BY <1>1, <1>2

LEMMA LongerListsKeepLive ==
    ASSUME NEW g \in Graphs, NEW k \in Graphs,
           \A h \in Holders : ToSet(g.contains[h]) \subseteq ToSet(k.contains[h])
    PROVE  LiveNodes(g) \subseteq LiveNodes(k)
<1>1. Closed(k, LiveNodes(k))
    BY LiveIsClosed
<1>2. Closed(g, LiveNodes(k))
    BY <1>1 DEF Closed
<1> QED  BY <1>2, LiveIsLeast

(* What a move can cost: the node and what is below it; and nothing, if the *)
(* new holder is in the model and not among these.                          *)
SparesTheRest(g, k, n, t) ==
    /\ LiveNodes(g) \ LiveNodes(k) \subseteq {n} \union Below(g, n)
    /\ t \in (LiveNodes(g) \union {Root}) \ ({n} \union Below(g, n)) => LiveNodes(g) \subseteq LiveNodes(k)

LEMMA MovedSparesTheRest ==
    ASSUME NEW g \in Graphs, NEW k \in Graphs, NEW n \in Nodes, NEW old \in Holders, NEW t \in Holders,
           Moved(k, g, n, old, t)
    PROVE  SparesTheRest(g, k, n, t)
<1>1. Closed(k, LiveNodes(k)) /\ ClosedBelow(g, n, Below(g, n))
    BY LiveIsClosed, BelowIsLeast
<1>2. /\ \A h \in Holders : ToSet(g.contains[h]) \subseteq ToSet(k.contains[h]) \union {n}
      /\ n \in ToSet(k.contains[t])
    BY DEF Moved
<1> DEFINE lost == {n} \union Below(g, n)
<1>3. Closed(g, LiveNodes(k) \union lost)
    <2> SUFFICES ASSUME NEW h \in Holders, h \in (LiveNodes(k) \union lost) \union {Root},
                        NEW m \in ToSet(g.contains[h])
                 PROVE  m \in LiveNodes(k) \union lost
        BY DEF Closed
    <2>1. CASE h \in LiveNodes(k) \union {Root}
        BY <1>1, <1>2, <2>1 DEF Closed
    <2>2. CASE h \in lost
        BY <1>1, <2>2 DEF ClosedBelow
    <2> QED  BY <2>1, <2>2
<1>4. LiveNodes(g) \subseteq LiveNodes(k) \union lost
    BY <1>3, LiveIsLeast
<1>5. ASSUME t \in (LiveNodes(g) \union {Root}) \ lost PROVE LiveNodes(g) \subseteq LiveNodes(k)
    <2>1. t \in LiveNodes(k) \union {Root}
        BY <1>4, <1>5
    <2>2. n \in LiveNodes(k)
        BY <1>1, <1>2, <2>1 DEF Closed
    <2>3. Closed(g, LiveNodes(k))
        BY <1>1, <1>2, <2>2 DEF Closed
    <2> QED  BY <2>3, LiveIsLeast
<1> QED  BY <1>4, <1>5 DEF SparesTheRest

LEMMA ChangeSparesTheRest ==
    ASSUME graph \in Graphs, NEW n \in Nodes, NEW t \in Holders,
           NEW old \in Holders, old = index.parent[n], NEW k, k = changeContainer(n, t)
    PROVE  SparesTheRest(graph, k, n, t)
<1>1. /\ k \in Graphs
      /\ IF findContainer(t) THEN Moved(k, graph, n, old, t) ELSE k = graph
    BY ChangeKeepsTheTree
<1>2. CASE findContainer(t)
    BY <1>1, <1>2, MovedSparesTheRest
<1>3. CASE ~findContainer(t)
    BY <1>1, <1>3 DEF SparesTheRest
<1> QED  BY <1>2, <1>3

-----------------------------------------------------------------------------
(* The operations of one turn. *)

GraphInv ==
    /\ GraphTypeOK
    /\ index = indexGraphModel(graph)
    /\ OneEntryEach(graph)

(* The index that was built from the model knows its nodes, each under its  *)
(* holder.                                                                  *)
LEMMA CurrentIndex ==
    ASSUME GraphTypeOK, index = indexGraphModel(graph), NEW n \in Nodes
    PROVE  /\ findNode(n) <=> n \in LiveNodes(graph)
           /\ findNode(n) => /\ n \in ToSet(graph.contains[index.parent[n]])
                             /\ index.parent[n] \in Holders
                             /\ index.parent[n] \in LiveNodes(graph) \union {Root}
<1>1. PICK p : p = index.parent[n]
    OBVIOUS
<1>2. graph \in Graphs
    BY DEF GraphTypeOK
<1>3. /\ p # None => <<n, p>> \in ToSet(Visits(graph))
      /\ p = None => n \notin LiveNodes(graph)
    BY <1>1, <1>2, IndexIsOfVisits
<1>4. ASSUME p # None
      PROVE  /\ n \in LiveNodes(graph) /\ n \in ToSet(graph.contains[p])
             /\ p \in Holders /\ p \in LiveNodes(graph) \union {Root}
    <2>1. PICK e \in ToSet(Visits(graph)) : e = <<n, p>>
        BY <1>3, <1>4
    <2>2. e[1] = n /\ e[2] = p
        BY <2>1
    <2> QED  BY <1>2, <2>1, <2>2, VisitsAreHeld
<1> QED  BY <1>1, <1>3, <1>4 DEF findNode

LEMMA InitGraphInv == GraphInit => GraphInv
BY InitTyped, FilesAreTrees DEF GraphInit, GraphInv

LEMMA NextGraphInv == GraphInv /\ [GraphNext]_graphVars => GraphInv'
<1> SUFFICES ASSUME GraphInv, [GraphNext]_graphVars PROVE GraphInv'
    OBVIOUS
<1>1. GraphTypeOK /\ GraphTypeOK'
    BY NextTyped DEF GraphInv
<1>2. CASE UNCHANGED graphVars
    BY <1>1, <1>2 DEF graphVars, GraphInv
<1>3. CASE GraphNext
    <2>1. Reindex
        BY <1>3 DEF GraphNext, Creation, CreateNode, CreateEdge, Deletion, Delete,
                    ConflictResolution, Restore, ChooseSource, ChooseTarget,
                    Reconnection, Reconnect, Move
    <2>2. OneEntryEach(graph')
        <3>1. CASE Creation \/ Deletion \/ ConflictResolution \/ Reconnection
            BY <1>1, <3>1, EditsKeepTheTree DEF GraphInv
        <3>2. ASSUME NEW n \in Nodes, NEW t \in Holders, Move(n, t) PROVE OneEntryEach(graph')
            <4>1. findNode(n) /\ graph' = changeContainer(n, t)
                BY <3>2 DEF Move
            <4>2. PICK old \in Holders : old = index.parent[n] /\ n \in ToSet(graph.contains[old])
                BY <1>1, <4>1, CurrentIndex DEF GraphInv
            <4>3. graph \in Graphs /\ OneEntryEach(graph)
                BY DEF GraphInv, GraphTypeOK
            <4> QED  BY <4>1, <4>2, <4>3, ChangeKeepsTheTree
        <3> QED  BY <1>3, <3>1, <3>2 DEF GraphNext
    <2> QED  BY <1>1, <2>1, <2>2 DEF GraphInv, Reindex
<1> QED  BY <1>2, <1>3

LEMMA GraphInvariance == GraphSpec => []GraphInv
BY InitGraphInv, NextGraphInv, PTL DEF GraphSpec

-----------------------------------------------------------------------------
(* The walk meets no node twice. *)

Meets(s, x) == \E u \in ToSet(s) : u[1] = x

LEMMA MeetsBelow ==
    ASSUME NEW g \in Graphs, NEW w, Walk(g, w), NEW h \in Holders, NEW x
    PROVE  /\ ~Meets(w[0][h], x)
           /\ \A d \in 1 .. Depth : Meets(w[d][h], x) <=>
                \E n \in ToSet(g.contains[h]) : x = n \/ (n \in Containers /\ Meets(w[d - 1][n], x))
<1>1. ~Meets(w[0][h], x)
    BY WalkMembers DEF Meets
<1>2. ASSUME NEW d \in 1 .. Depth, Meets(w[d][h], x)
      PROVE  \E n \in ToSet(g.contains[h]) : x = n \/ (n \in Containers /\ Meets(w[d - 1][n], x))
    <2>1. PICK u \in ToSet(w[d][h]) : u[1] = x
        BY <1>2 DEF Meets
    <2>2. IsBelow(g, h, w[d - 1], u)
        BY WalkMembers
    <2>3. PICK n \in ToSet(g.contains[h]) : u = <<n, h>> \/ (n \in Containers /\ u \in ToSet(w[d - 1][n]))
        BY <2>2 DEF IsBelow
    <2>4. x = n \/ (n \in Containers /\ Meets(w[d - 1][n], x))
        BY <2>1, <2>3 DEF Meets
    <2> QED  BY <2>4
<1>3. ASSUME NEW d \in 1 .. Depth, NEW n \in ToSet(g.contains[h]),
             x = n \/ (n \in Containers /\ Meets(w[d - 1][n], x))
      PROVE  Meets(w[d][h], x)
    <2>1. PICK u : (u = <<n, h>> \/ (n \in Containers /\ u \in ToSet(w[d - 1][n]))) /\ u[1] = x
        <3>1. CASE x = n
            <4>1. PICK u : u = <<n, h>>
                OBVIOUS
            <4> QED  BY <3>1, <4>1
        <3>2. CASE x # n
            BY <1>3, <3>2 DEF Meets
        <3> QED  BY <3>1, <3>2
    <2>2. IsBelow(g, h, w[d - 1], u)
        BY <2>1 DEF IsBelow
    <2>3. u \in ToSet(w[d][h])
        BY <2>2, WalkMembers
    <2> QED  BY <2>1, <2>3 DEF Meets
<1> QED  BY <1>1, <1>2, <1>3

LEMMA MetIsBelow ==
    ASSUME NEW g \in Graphs, NEW w, Walk(g, w)
    PROVE  \A d \in 0 .. Depth : \A h \in Holders : \A x : Meets(w[d][h], x) => x \in Below(g, h)
<1> DEFINE T == {d \in 0 .. Depth : \A h \in Holders : \A x : Meets(w[d][h], x) => x \in Below(g, h)}
<1>1. 0 \in T
    <2>1. ASSUME NEW h \in Holders, NEW x, Meets(w[0][h], x) PROVE x \in Below(g, h)
        BY <2>1, MeetsBelow
    <2> QED  BY <2>1, DepthIsNat
<1>2. ASSUME NEW d \in 1 .. Depth, d - 1 \in T PROVE d \in T
    <2> SUFFICES ASSUME NEW h \in Holders, NEW x, Meets(w[d][h], x) PROVE x \in Below(g, h)
        BY DepthIsNat
    <2>1. PICK n \in ToSet(g.contains[h]) : x = n \/ (n \in Containers /\ Meets(w[d - 1][n], x))
        BY MeetsBelow
    <2>2. n \in Below(g, h) /\ Below(g, n) \subseteq Below(g, h)
        BY EntriesAreBelow
    <2>3. n \in Containers => n \in Holders
        BY DEF Holders
    <2> QED  BY <1>2, <2>1, <2>2, <2>3
<1> HIDE DEF T
<1>3. \A d \in 0 .. Depth : d \in T
    BY <1>1, <1>2, DepthInduction
<1> QED  BY <1>3 DEF T

(* What is below the entries of a holder of the model has nothing in common *)
(* with them or with each other.                                            *)
LEMMA SiblingsAreApart ==
    ASSUME NEW g \in Graphs, SoleHolders(g), NEW h \in Holders, h \in LiveNodes(g) \union {Root},
           NEW m \in ToSet(g.contains[h]), NEW n \in ToSet(g.contains[h])
    PROVE  /\ m \notin Below(g, n)
           /\ m # n => \A x : ~(x \in Below(g, m) /\ x \in Below(g, n))
<1>1. ASSUME NEW a \in ToSet(g.contains[h]), NEW b \in ToSet(g.contains[h]), a \in Below(g, b) PROVE FALSE
    <2>1. b \in LiveNodes(g) /\ b \in Containers
        <3>1. b \in LiveNodes(g) /\ b \in Holders
            BY <1>1, LiveIsClosed, BelowIsLeast DEF Closed
        <3>2. b \in Nodes
            BY ListsOfNodes
        <3> QED  BY <3>1, <3>2, ConstantsAreDisjoint DEF Holders
    <2>2. b \notin Below(g, b)
        BY <2>1, OneEntryIsWalkable DEF Walkable
    <2>3. PICK p \in (Below(g, b) \union {b}) \intersect Holders : a \in ToSet(g.contains[p])
        BY <1>1, BelowIsHeld
    <2>4. p = h
        BY <2>3, ListsOfNodes DEF SoleHolders
    <2>5. b \in Below(g, p)
        BY <2>4, EntriesAreBelow
    <2>6. Below(g, p) \subseteq Below(g, b)
        BY <2>3, BelowGoesDown
    <2> QED  BY <2>2, <2>5, <2>6
<1>2. ASSUME m # n, NEW x, x \in Below(g, m), x \in Below(g, n) PROVE FALSE
    <2>1. m \in Below(g, n) \/ n \in Below(g, m)
        BY <1>2, BelowBoth
    <2> QED  BY <1>1, <2>1
<1> QED  BY <1>1, <1>2

(* What is below the entries of h has nothing in common.                    *)
SeparateBelow(g, h, below) ==
    /\ \A n \in ToSet(g.contains[h]) \cap Containers :
          /\ Apart(below[n]) /\ ~Meets(below[n], n)
          /\ \A m \in ToSet(g.contains[h]) \ {n} :
                /\ ~Meets(below[n], m)
                /\ m \in Containers => \A x : ~(Meets(below[m], x) /\ Meets(below[n], x))

LEMMA BelowHolderApart ==
    ASSUME NEW g \in Graphs, NEW h \in Holders, NEW below \in [Holders -> Seq(Entries)],
           DuplicateFree(g.contains[h]), SeparateBelow(g, h, below)
    PROVE  Apart(BelowHolder(g, h, below))
<1> DEFINE s == g.contains[h]
           rest(n) == IF n \in Containers THEN below[n] ELSE <<>>
           q == [i \in DOMAIN s |-> LET n == s[i] IN << <<n, h>> >> \o rest(n)]
<1>1. /\ s \in Seq(Nodes) /\ Len(s) \in Nat /\ DOMAIN s = 1 .. Len(s)
      /\ ToSet(s) = {s[i] : i \in 1 .. Len(s)} /\ \A i \in 1 .. Len(s) : s[i] \in Nodes
    BY ListsOfNodes, ElementOfSeq
<1>2. BelowHolder(g, h, below) = FlattenSeq(q)
    BY DEF BelowHolder
<1>3. ASSUME NEW n \in ToSet(s)
      PROVE  /\ << <<n, h>> >> \o rest(n) \in Seq(Entries)
             /\ Apart(<< <<n, h>> >> \o rest(n))
             /\ \A e \in ToSet(<< <<n, h>> >> \o rest(n)) : e[1] = n \/ (n \in Containers /\ Meets(below[n], e[1]))
    <2>1. PICK one \in Seq(Entries) : one = << <<n, h>> >>
        <3>1. << <<n, h>> >> \in Seq(Entries)
            BY <1>1 DEF Entries
        <3> QED  BY <3>1
    <2>2. ToSet(one) = {<<n, h>>} /\ Apart(one)
        BY <2>1 DEF ToSet, Apart
    <2>3. PICK r \in Seq(Entries) : r = rest(n)
        <3>1. rest(n) \in Seq(Entries)
            BY EmptySeq DEF Holders
        <3> QED  BY <3>1
    <2>4. one \o r \in Seq(Entries) /\ ToSet(one \o r) = ToSet(one) \union ToSet(r)
        BY ToSetConcat
    <2>5. Apart(r)
        <3>1. Apart(<<>>)
            BY DEF Apart
        <3> QED  BY <2>3, <3>1 DEF SeparateBelow
    <2>6. \A e \in ToSet(r) : n \in Containers /\ Meets(below[n], e[1])
        BY <2>3, ToSetEmpty DEF Meets
    <2>7. \A x \in ToSet(one), y \in ToSet(r) : x[1] # y[1]
        <3>1. \A x \in ToSet(one) : x[1] = n
            BY <2>2
        <3>2. n \in Containers => ~Meets(below[n], n)
            BY DEF SeparateBelow
        <3> QED  BY <2>6, <3>1, <3>2
    <2>8. Apart(one \o r)
        BY <2>2, <2>5, <2>7, ConcatKeepsApart
    <2>9. \A e \in ToSet(one \o r) : e[1] = n \/ (n \in Containers /\ Meets(below[n], e[1]))
        BY <2>2, <2>4, <2>6
    <2> HIDE DEF rest
    <2> QED  BY <2>1, <2>3, <2>4, <2>8, <2>9
<1>4. \A i \in 1 .. Len(s) : q[i] = << <<s[i], h>> >> \o rest(s[i]) /\ s[i] \in ToSet(s)
    BY <1>1
<1> HIDE DEF rest
<1>5. q \in Seq(Seq(Entries)) /\ Len(q) = Len(s)
    <2>1. q = [i \in 1 .. Len(s) |-> q[i]]
        BY <1>1
    <2>2. \A i \in 1 .. Len(s) : q[i] \in Seq(Entries)
        BY <1>3, <1>4
    <2> HIDE DEF q
    <2>3. [i \in 1 .. Len(s) |-> q[i]] \in Seq(Seq(Entries)) /\ Len([i \in 1 .. Len(s) |-> q[i]]) = Len(s)
        BY <1>1, <2>2, IsASeq
    <2> QED  BY <2>1, <2>3
<1> HIDE DEF q
<1>6. \A i \in 1 .. Len(q) : Apart(q[i])
    BY <1>3, <1>4, <1>5
<1>7. ASSUME NEW i \in 1 .. Len(q), NEW j \in 1 .. Len(q), NEW x \in ToSet(q[i]), NEW y \in ToSet(q[j]), x[1] = y[1]
      PROVE  i = j
    <2>1. PICK m \in ToSet(s), n \in ToSet(s) : m = s[i] /\ n = s[j]
        BY <1>4, <1>5
    <2>2. x[1] = m \/ (m \in Containers /\ Meets(below[m], x[1]))
        BY <1>3, <1>4, <1>5, <2>1
    <2>3. y[1] = n \/ (n \in Containers /\ Meets(below[n], y[1]))
        BY <1>3, <1>4, <1>5, <2>1
    <2>4. m = n
        <3> SUFFICES ASSUME m # n PROVE FALSE
            OBVIOUS
        <3>1. m \in Containers => ~Meets(below[m], n)
            BY DEF SeparateBelow
        <3>2. n \in Containers => ~Meets(below[n], m)
            BY DEF SeparateBelow
        <3>3. m \in Containers /\ n \in Containers => ~(Meets(below[m], x[1]) /\ Meets(below[n], x[1]))
            BY DEF SeparateBelow
        <3> QED  BY <1>7, <2>2, <2>3, <3>1, <3>2, <3>3
    <2> QED  BY <1>5, <2>1, <2>4 DEF DuplicateFree
<1> QED  BY <1>2, <1>5, <1>6, <1>7, FlattenKeepsApart

LEMMA VisitsAreApart ==
    ASSUME NEW g \in Graphs, OneEntryEach(g) PROVE Apart(Visits(g))
<1>1. PICK w : Walk(g, w) /\ Visits(g) = w[Depth][Root]
    BY WalkSteps DEF Walk
<1>2. SoleHolders(g) /\ \A h \in Holders : DuplicateFree(g.contains[h])
    BY OneEntryForm
<1> DEFINE T == {d \in 0 .. Depth : \A h \in Holders : h \in LiveNodes(g) \union {Root} => Apart(w[d][h])}
<1>3. 0 \in T
    <2>1. \A h \in Holders : w[0][h] = <<>>
        BY <1>1 DEF Walk, Walks
    <2> QED  BY <2>1, DepthIsNat DEF Apart
<1>4. ASSUME NEW d \in 1 .. Depth, d - 1 \in T PROVE d \in T
    <2> SUFFICES ASSUME NEW h \in Holders, h \in LiveNodes(g) \union {Root} PROVE Apart(w[d][h])
        BY DepthIsNat
    <2>1. d - 1 \in 0 .. Depth
        BY DepthIsNat
    <2>2. PICK below \in [Holders -> Seq(Entries)] : below = w[d - 1]
        BY <1>1, <2>1 DEF Walk
    <2>3. w[d][h] = BelowHolder(g, h, below)
        BY <1>1, <2>2 DEF Walk, Walks
    <2>4. \A n \in Containers : \A x : Meets(below[n], x) => x \in Below(g, n)
        BY <1>1, <2>1, <2>2, MetIsBelow DEF Holders
    <2>5. ASSUME NEW n \in ToSet(g.contains[h]) \cap Containers PROVE Apart(below[n])
        <3>1. n \in Holders /\ n \in LiveNodes(g)
            BY LiveIsClosed DEF Holders, Closed
        <3> QED  BY <1>4, <2>2, <3>1
    <2>6. SeparateBelow(g, h, below)
        BY <1>2, <2>4, <2>5, SiblingsAreApart DEF SeparateBelow
    <2> QED  BY <1>2, <2>3, <2>6, BelowHolderApart
<1> HIDE DEF T
<1>5. \A d \in 0 .. Depth : d \in T
    BY <1>3, <1>4, DepthInduction
<1>6. Depth \in 0 .. Depth /\ Root \in Holders
    BY DepthIsNat DEF Holders
<1> QED  BY <1>1, <1>5, <1>6 DEF T

LEMMA OneEntryIsNoDuplicate ==
    ASSUME GraphTypeOK, OneEntryEach(graph) PROVE NoDuplicateId
<1>1. Apart(Visits(graph)) /\ DOMAIN Visits(graph) = 1 .. Len(Visits(graph))
    BY VisitsAreApart, VisitsTyped, LenProperties DEF GraphTypeOK
<1> QED  BY <1>1 DEF Apart, NoDuplicateId

(* The assertion 'Duplicate ID in model' never fires on the submitted       *)
(* model: no sequence of creations, deletions of any selection, moves,      *)
(* reconnections and resolved conflicts gives a node two entries, however   *)
(* deep the containments are nested.                                        *)
THEOREM NodesComeOnce == GraphSpec => []NoDuplicateId
<1>1. GraphInv => NoDuplicateId
    BY OneEntryIsNoDuplicate DEF GraphInv
<1> QED  BY <1>1, GraphInvariance, PTL

-----------------------------------------------------------------------------
(* What a deletion spares. *)

(* The ancestry of a node of the model has with each of its nodes, all in   *)
(* the model, the holder of the node.                                       *)
IsAncestry(A, n) ==
    /\ n \in A
    /\ \A x \in A \cap Nodes :
          x \in LiveNodes(graph) /\ index.parent[x] \in A \cap Holders
          /\ x \in ToSet(graph.contains[index.parent[x]])

LEMMA AncestryIsClosed ==
    ASSUME GraphInv, NEW n \in Nodes, findNode(n) PROVE IsAncestry(Ancestry(n), n)
<1>1. graph \in Graphs /\ SoleHolders(graph) /\ n \in LiveNodes(graph)
    BY OneEntryForm, CurrentIndex DEF GraphInv, GraphTypeOK
<1>2. ASSUME NEW x \in Ancestry(n) \cap Nodes
      PROVE  /\ x \in LiveNodes(graph) /\ index.parent[x] \in Ancestry(n) \cap Holders
             /\ x \in ToSet(graph.contains[index.parent[x]])
    <2>1. x = n \/ (x \in Holders /\ n \in Below(graph, x))
        BY DEF Ancestry
    <2>2. x \in LiveNodes(graph)
        BY <1>1, <2>1, AroundLiveIsLive, ConstantsAreDisjoint
    <2>3. PICK p \in Holders : p = index.parent[x] /\ x \in ToSet(graph.contains[p])
        BY <2>2, CurrentIndex DEF GraphInv
    <2>4. n \in Below(graph, p)
        BY <1>1, <2>1, <2>3, EntriesAreBelow
    <2> QED  BY <2>2, <2>3, <2>4 DEF Ancestry
<1> QED  BY <1>2 DEF IsAncestry, Ancestry

LEMMA DeletionSpares ==
    ASSUME GraphInv, NEW n \in Nodes, NEW A, IsAncestry(A, n),
           NEW ids \in Selections, Delete(ids), ToSet(ids) \cap A = {}
    PROVE  n \in LiveNodes(graph')
<1> DEFINE Keeps(k) == \A m \in A \cap Nodes : m \in ToSet(k.contains[index.parent[m]])
           K == {k \in Reductions(graph) : Thinned(k, graph) /\ Keeps(k)}
           E == {e \in Entries : e[1] \notin A}
<1>1. /\ graph \in Graphs /\ GraphTypeOK /\ SoleHolders(graph)
      /\ \A k \in Reductions(graph) : k \in Graphs
    BY OneEntryForm DEF GraphInv, GraphTypeOK, Reductions
<1>2. \A m \in A \cap Nodes : index.parent[m] \in A \cap Holders /\ m \in ToSet(graph.contains[index.parent[m]])
    BY DEF IsAncestry
<1>3. \A p \in Holders, m \in A \cap Nodes : m \in ToSet(graph.contains[p]) => p = index.parent[m]
    BY <1>1, <1>2 DEF SoleHolders
<1>4. K \subseteq Reductions(graph) /\ graph \in K
    BY <1>1, <1>2 DEF Reductions, Thinned
<1>5. Withstands(K, E)
    <2>1. ASSUME NEW k \in K, NEW e \in E PROVE Removed(k, e) \in K
        <3>1. PICK x \in Nodes, y \in Holders : e = <<x, y>> /\ x \notin A
            BY DEF Entries
        <3>2. PICK l : l = Removed(k, e)
            OBVIOUS
        <3>3. k \in Graphs /\ k \in Reductions(graph) /\ Thinned(k, graph) /\ Keeps(k)
            BY <1>1
        <3>4. /\ l \in Reductions(k)
              /\ \A h \in Holders :
                    l.contains[h] = IF h = y THEN RemoveFirst(k.contains[h], x) ELSE k.contains[h]
            BY <3>1, <3>2, <3>3, RemovalLeaves
        <3>5. Thinned(l, graph)
            BY <1>1, <3>1, <3>2, <3>3, RemovalThins
        <3>6. ASSUME NEW m \in A \cap Nodes PROVE m \in ToSet(l.contains[index.parent[m]])
            <4>1. PICK h \in Holders : h = index.parent[m]
                BY <1>2
            <4>2. m \in ToSet(k.contains[h])
                BY <3>3, <4>1
            <4>3. LosesAtMost(RemoveFirst(k.contains[h], x), k.contains[h], x)
                BY <3>3, RemoveFirstMembers, ListsOfNodes
            <4> QED  BY <3>1, <3>4, <4>1, <4>2, <4>3 DEF LosesAtMost
        <3> QED  BY <3>2, <3>3, <3>4, <3>5, <3>6, ReductionsCompose
    <2>2. ASSUME NEW k \in K, NEW x \in Edges PROVE EdgeTaken(k, x) \in K
        <3>1. EdgeTaken(k, x) \in Reductions(k) /\ EdgeTaken(k, x).contains = k.contains
            BY <1>1, EdgeTakenLeaves
        <3>2. Thinned(EdgeTaken(k, x), graph) /\ Keeps(EdgeTaken(k, x))
            BY <3>1 DEF Thinned
        <3> QED  BY <3>1, <3>2, ReductionsCompose
    <2>3. Spreads(K, E)
        <3> SUFFICES ASSUME NEW k \in K, NEW c \in Containers, c \notin A, NEW m \in ToSet(k.contains[c])
                     PROVE  <<m, c>> \in E
            BY DEF Spreads
        <3>1. c \in Holders /\ m \in ToSet(graph.contains[c]) /\ m \in Nodes
            BY <1>1, ListsOfNodes DEF Thinned, Holders
        <3>2. m \notin A
            BY <1>2, <1>3, <3>1
        <3> QED  BY <3>1, <3>2 DEF Entries
    <2> HIDE DEF K, E
    <2> QED  BY <2>1, <2>2, <2>3 DEF Withstands
<1>6. Within(ids, K, E)
    BY DEF Within, Entries
<1>7. PICK k \in K : graph' = Collected(k)
    <2> HIDE DEF K, E
    <2> QED  BY <1>1, <1>4, <1>5, <1>6, DeletionKeeps
<1>8. /\ k \in Graphs /\ Thinned(k, graph)
      /\ \A m \in A \cap Nodes : m \in ToSet(k.contains[index.parent[m]])
    BY <1>1
<1>10. Closed(graph, LiveNodes(graph)) /\ Closed(k, LiveNodes(k))
    BY <1>1, <1>8, LiveIsClosed
<1> DEFINE B == (A \cap Nodes) \ LiveNodes(k)
<1>11. Closed(graph, LiveNodes(graph) \ B)
    <2> SUFFICES ASSUME NEW h \in Holders, h \in (LiveNodes(graph) \ B) \union {Root},
                        NEW m \in ToSet(graph.contains[h])
                 PROVE  m \in LiveNodes(graph) \ B
        BY DEF Closed
    <2>1. m \in LiveNodes(graph)
        BY <1>10 DEF Closed
    <2>2. ASSUME m \in B PROVE FALSE
        <3>1. h = index.parent[m] /\ h \in A
            BY <1>2, <1>3, <2>2
        <3>2. m \in ToSet(k.contains[h])
            BY <1>8, <2>2, <3>1
        <3>3. h \in LiveNodes(k) \union {Root}
            BY <3>1 DEF Holders, Nodes
        <3> QED  BY <1>10, <2>2, <3>2, <3>3 DEF Closed
    <2> QED  BY <2>1, <2>2
<1>12. n \in LiveNodes(graph) /\ n \in A
    BY DEF IsAncestry
<1>13. n \in LiveNodes(k)
    <2>1. LiveNodes(graph) \subseteq LiveNodes(graph) \ B
        BY <1>1, <1>11, LiveIsLeast
    <2> QED  BY <1>12, <2>1
<1> QED  BY <1>7, <1>8, <1>13, CollectionKeepsLive

(* Creations, reconnections and resolved conflicts take no entry away.      *)
LEMMA EditsKeepLive ==
    ASSUME GraphTypeOK, GraphTypeOK', Creation \/ ConflictResolution \/ Reconnection
    PROVE  LiveNodes(graph) \subseteq LiveNodes(graph')
<1>0. graph \in Graphs /\ graph' \in Graphs
    BY DEF GraphTypeOK
<1>2. ASSUME NEW h \in Holders, NEW n \in Nodes, CreateNode(h, n), NEW p \in Holders
      PROVE  ToSet(graph.contains[p]) \subseteq ToSet(graph'.contains[p])
    <2>1. graph' = [graph EXCEPT !.contains[h] = Append(@, n)]
        BY <1>2 DEF CreateNode
    <2>2. EntryAdded(graph', graph, h, n)
        BY <1>0, <2>1 DEF EntryAdded, Graphs
    <2>3. Gains(graph', graph, h, n)
        BY <1>0, <2>2, AdditionGains
    <2> QED  BY <2>3 DEF Gains
<1>3. ASSUME NEW e \in Edges, NEW s \in Nodes, NEW t \in Nodes,
             CreateEdge(e, s, t) \/ Reconnect(e, s, t)
      PROVE  graph'.contains = graph.contains
    BY <1>0, <1>3 DEF CreateEdge, Reconnect, Graphs
<1>4. ASSUME NEW x \in Nodes \union Edges, Restore(x) PROVE graph'.contains = graph.contains
    BY <1>0, <1>4 DEF Restore, Graphs
<1>5. ASSUME NEW e \in Edges, NEW n \in Nodes, ChooseSource(e, n) \/ ChooseTarget(e, n)
      PROVE  graph'.contains = graph.contains
    BY <1>0, <1>5 DEF ChooseSource, ChooseTarget, Graphs
<1>6. \A p \in Holders : ToSet(graph.contains[p]) \subseteq ToSet(graph'.contains[p])
    BY <1>2, <1>3, <1>4, <1>5 DEF Creation, ConflictResolution, Reconnection
<1> QED  BY <1>0, <1>6, LongerListsKeepLive

LEMMA LeftWithin ==
    ASSUME GraphInv, GraphInv', [GraphNext]_graphVars, NEW n \in Nodes,
           findNode(n), index.parent'[n] = None
    PROVE  \/ \E ids \in Selections : Delete(ids) /\ ToSet(ids) \cap Ancestry(n) # {}
           \/ \E c \in Ancestry(n) \intersect Nodes, t \in Holders : Move(c, t) /\ c \in Ancestry(t)
<1>1. /\ GraphTypeOK /\ GraphTypeOK'
      /\ graph \in Graphs /\ graph' \in Graphs /\ index' = indexGraphModel(graph')
    BY DEF GraphInv, GraphTypeOK
<1>2. n \in LiveNodes(graph) /\ n \notin LiveNodes(graph')
    <2>1. n \in LiveNodes(graph)
        BY <1>1, CurrentIndex DEF GraphInv
    <2>2. PICK p : p = indexGraphModel(graph').parent[n]
        OBVIOUS
    <2>3. p = None
        BY <1>1, <2>2
    <2> QED  BY <1>1, <2>1, <2>2, <2>3, IndexIsOfVisits
<1>3. CASE UNCHANGED graphVars
    BY <1>2, <1>3 DEF graphVars
<1>4. CASE Creation \/ ConflictResolution \/ Reconnection
    BY <1>1, <1>2, <1>4, EditsKeepLive
<1>5. ASSUME NEW m \in Nodes, NEW t \in Holders, Move(m, t)
      PROVE  \E c \in Ancestry(n) \intersect Nodes, k \in Holders : Move(c, k) /\ c \in Ancestry(k)
    <2>1. findNode(m) /\ graph' = changeContainer(m, t)
        BY <1>5 DEF Move
    <2>2. PICK old \in Holders : old = index.parent[m]
        BY <1>1, <2>1, CurrentIndex DEF GraphInv
    <2>3. SparesTheRest(graph, graph', m, t)
        BY <1>1, <2>1, <2>2, ChangeSparesTheRest
    <2>4. findContainer(t)
        BY <1>2, <2>1 DEF changeContainer
    <2>5. t \in LiveNodes(graph) \union {Root}
        BY <1>1, <2>4, CurrentIndex DEF GraphInv, findContainer, Nodes
    <2>6. n \in {m} \union Below(graph, m) /\ t \in {m} \union Below(graph, m)
        BY <1>2, <2>3, <2>5 DEF SparesTheRest
    <2>7. Below(graph, m) # {} => m \in Holders
        BY <1>1, BelowIsLeast
    <2>8. m \in Ancestry(n) /\ m \in Ancestry(t)
        BY <2>6, <2>7 DEF Ancestry
    <2> QED  BY <1>5, <2>8
<1>6. ASSUME NEW ids \in Selections, Delete(ids), ToSet(ids) \cap Ancestry(n) = {} PROVE FALSE
    <2>1. IsAncestry(Ancestry(n), n)
        BY AncestryIsClosed
    <2> QED  BY <1>2, <1>6, <2>1, DeletionSpares
<1> QED  BY <1>3, <1>4, <1>5, <1>6 DEF GraphNext, Deletion

(* A node leaves the model by a deletion that named it or a container       *)
(* around it, although a deletion of a container skips every other of the   *)
(* nodes in it and goes on with the next id after; or by a move of it or of *)
(* a container around it to where the moved one is around itself.  Nothing  *)
(* else takes a node out, however the language nests its containers.        *)
THEOREM NodesLeaveWithinTheirScope == GraphSpec => DeletionScope
<1>1. GraphInv /\ GraphInv' /\ [GraphNext]_graphVars =>
        [\A n \in Nodes : findNode(n) /\ index.parent'[n] = None =>
            \/ \E ids \in Selections : Delete(ids) /\ ToSet(ids) \cap Ancestry(n) # {}
            \/ \E c \in Ancestry(n) \intersect Nodes, t \in Holders :
                    Move(c, t) /\ c \in Ancestry(t)]_graphVars
    BY LeftWithin
<1> QED  BY <1>1, GraphInvariance, PTL DEF GraphSpec, DeletionScope

-----------------------------------------------------------------------------
(* The edges of a deleted node. *)

(* An edge without a conflict has the same two ends as long as it is there. *)
LEMMA EndsStay ==
    ASSUME NEW g \in Graphs, NEW k \in Reductions(g), NEW e \in k.edges, ~InConflict(g, e)
    PROVE  \E s, t \in Nodes : /\ g.src[e] = {s} /\ k.src[e] = {s}
                               /\ g.tgt[e] = {t} /\ k.tgt[e] = {t}
<1>1. e \in g.edges /\ e \in Edges
    BY DEF Reductions, Graphs
<1>2. (\E s \in Nodes : g.src[e] = {s}) /\ (\E t \in Nodes : g.tgt[e] = {t})
    BY <1>1, ConflictIsOfEnds, Zenon
<1>3. PICK s \in Nodes, t \in Nodes : g.src[e] = {s} /\ g.tgt[e] = {t}
    BY <1>2
<1> QED  BY <1>3 DEF Reductions

(* If the entry of n in p is gone, so are the edges to and from n.          *)
Unbound(k, n, p) ==
    n \notin ToSet(k.contains[p]) =>
        \A e \in k.edges : ~InConflict(graph, e) => n \notin k.src[e] \union k.tgt[e]

LEMMA RemovalUnbinds ==
    ASSUME graph \in Graphs, NEW n \in Nodes, NEW p \in Holders, NEW k \in Reductions(graph), Unbound(k, n, p),
           NEW l \in Reductions(k),
           \/ l.contains[p] = k.contains[p]
           \/ \E x \in Nodes, y \in Holders : l = Removed(k, <<x, y>>)
    PROVE  Unbound(l, n, p)
<1>0. k \in Graphs /\ l \in Graphs /\ l \in Reductions(graph) /\ l.edges \subseteq k.edges
    BY ReductionsCompose DEF Reductions
<1> SUFFICES ASSUME n \notin ToSet(l.contains[p]), NEW e \in l.edges, ~InConflict(graph, e)
             PROVE  n \notin l.src[e] \union l.tgt[e]
    BY DEF Unbound
<1>1. PICK s \in Nodes, t \in Nodes :
        graph.src[e] = {s} /\ k.src[e] = {s} /\ graph.tgt[e] = {t} /\ k.tgt[e] = {t}
    BY <1>0, EndsStay
<1>2. l.src[e] = {s} /\ l.tgt[e] = {t}
    BY <1>1 DEF Reductions
<1>3. CASE n \notin ToSet(k.contains[p])
    BY <1>0, <1>1, <1>2, <1>3 DEF Unbound
<1>4. CASE n \in ToSet(k.contains[p])
    <2>1. PICK x \in Nodes, y \in Holders : l = Removed(k, <<x, y>>)
        BY <1>4
    <2>2. /\ l.contains[p] = IF p = y THEN RemoveFirst(k.contains[p], x) ELSE k.contains[p]
          /\ l.edges = {d \in k.edges : k.src[d] # {x} /\ k.tgt[d] # {x}}
        BY <1>0, <2>1, RemovalLeaves
    <2>3. LosesAtMost(RemoveFirst(k.contains[p], x), k.contains[p], x)
        BY <1>0, RemoveFirstMembers, ListsOfNodes
    <2>4. n = x
        BY <1>4, <2>2, <2>3 DEF LosesAtMost
    <2> QED  BY <1>1, <1>2, <2>2, <2>4
<1> QED  BY <1>3, <1>4

LEMMA DeletionUnbinds ==
    ASSUME GraphTypeOK, NEW n \in Nodes, NEW p \in Holders, n \in ToSet(graph.contains[p]),
           NEW ids \in Selections, Delete(ids)
    PROVE  \E k \in Reductions(graph) : graph' = Collected(k) /\ Thinned(k, graph) /\ Unbound(k, n, p)
<1> DEFINE K == {k \in Reductions(graph) : Thinned(k, graph) /\ Unbound(k, n, p)}
<1>0. graph \in Graphs /\ \A k \in Reductions(graph) : k \in Graphs
    BY DEF GraphTypeOK, Reductions
<1>1. K \subseteq Reductions(graph) /\ graph \in K
    BY <1>0 DEF Reductions, Thinned, Unbound
<1>2. Withstands(K, Entries)
    <2>1. ASSUME NEW k \in K, NEW e \in Entries PROVE Removed(k, e) \in K
        <3>1. PICK x \in Nodes, y \in Holders : e = <<x, y>>
            BY DEF Entries
        <3>2. PICK l : l = Removed(k, <<x, y>>)
            OBVIOUS
        <3>3. l \in Reductions(k)
            BY <1>0, <3>2, RemovalLeaves
        <3>4. Thinned(l, graph)
            BY <1>0, <3>2, RemovalThins
        <3>5. Unbound(l, n, p)
            BY <1>0, <3>2, <3>3, RemovalUnbinds
        <3> QED  BY <3>1, <3>2, <3>3, <3>4, <3>5, ReductionsCompose
    <2>2. ASSUME NEW k \in K, NEW x \in Edges PROVE EdgeTaken(k, x) \in K
        <3>1. PICK l : l = EdgeTaken(k, x)
            OBVIOUS
        <3>2. l \in Reductions(k) /\ l.contains = k.contains
            BY <1>0, <3>1, EdgeTakenLeaves
        <3>3. Thinned(l, graph)
            BY <3>2 DEF Thinned
        <3>4. Unbound(l, n, p)
            BY <1>0, <3>2, RemovalUnbinds
        <3> QED  BY <3>1, <3>2, <3>3, <3>4, ReductionsCompose
    <2>3. Spreads(K, Entries)
        BY <1>0, EntriesSpread
    <2> HIDE DEF K
    <2> QED  BY <2>1, <2>2, <2>3 DEF Withstands
<1>3. Within(ids, K, Entries)
    BY DEF Within, Entries
<1>4. PICK k \in K : graph' = Collected(k)
    <2> HIDE DEF K
    <2> QED  BY <1>1, <1>2, <1>3, DeletionKeeps
<1> QED  BY <1>4

LEMMA LeafTakesItsEdges ==
    ASSUME GraphInv, GraphInv', Deletion, NEW e \in graph'.edges, NEW n \in Leaves,
           ~InConflict(graph, e), findNode(n), index.parent'[n] = None,
           \A c \in Containers : findNode(c) => index.parent'[c] # None
    PROVE  n \notin graph'.src[e] \union graph'.tgt[e]
<1>1. /\ GraphTypeOK /\ GraphTypeOK' /\ n \in Nodes
      /\ graph \in Graphs /\ graph' \in Graphs /\ index' = indexGraphModel(graph')
    BY DEF GraphInv, GraphTypeOK, Nodes
<1>2. PICK p \in Holders : /\ p = index.parent[n] /\ n \in ToSet(graph.contains[p])
                           /\ p \in LiveNodes(graph) \union {Root}
    BY <1>1, CurrentIndex DEF GraphInv
<1>3. ASSUME NEW m \in Nodes
      PROVE  index.parent'[m] = None <=> m \notin LiveNodes(graph')
    <2>1. PICK q : q = indexGraphModel(graph').parent[m]
        OBVIOUS
    <2>2. index.parent'[m] = q
        BY <1>1, <2>1
    <2>3. /\ q # None => <<m, q>> \in ToSet(Visits(graph'))
          /\ q = None => m \notin LiveNodes(graph')
        BY <1>1, <2>1, IndexIsOfVisits
    <2>4. q # None => m \in LiveNodes(graph')
        <3>1. <<m, q>>[1] = m
            OBVIOUS
        <3> QED  BY <2>3, <3>1 DEF LiveNodes, NodesOf
    <2> QED  BY <2>2, <2>3, <2>4
<1>4. p \in LiveNodes(graph') \union {Root}
    <2> SUFFICES ASSUME p # Root PROVE p \in LiveNodes(graph')
        OBVIOUS
    <2>1. p \in Containers /\ p \in Nodes /\ p \in LiveNodes(graph)
        BY <1>2 DEF Holders, Nodes
    <2>2. findNode(p)
        BY <1>1, <2>1, CurrentIndex DEF GraphInv
    <2> QED  BY <1>3, <2>1, <2>2
<1>5. PICK ids \in Selections : Delete(ids)
    BY DEF Deletion
<1>6. PICK k \in Reductions(graph) : graph' = Collected(k) /\ Thinned(k, graph) /\ Unbound(k, n, p)
    BY <1>1, <1>2, <1>5, DeletionUnbinds
<1>7. k \in Graphs
    BY <1>6 DEF Reductions
<1>8. LiveNodes(k) = LiveNodes(graph') /\ Closed(k, LiveNodes(k))
    BY <1>6, <1>7, CollectionKeepsLive, LiveIsClosed
<1>9. n \notin ToSet(k.contains[p])
    BY <1>1, <1>3, <1>4, <1>8 DEF Closed
<1>10. e \in k.edges /\ graph'.src[e] = k.src[e] /\ graph'.tgt[e] = k.tgt[e]
    BY <1>6, <1>7, CollectionLeaves
<1> QED  BY <1>6, <1>9, <1>10 DEF Unbound

(* An edge whose end was deleted does not stay behind: whichever ids the    *)
(* operation listed in which order, and although the loop over a container  *)
(* skips children, a leaf whose entry is gone has lost the edges that were  *)
(* free of conflicts.                                                       *)
THEOREM EdgesGoWithTheirLeaves == GraphSpec => DeletedLeavesTakeTheirEdges
<1>1. GraphInv /\ GraphInv' /\ [GraphNext]_graphVars =>
        [Deletion => \A e \in graph'.edges : \A n \in Leaves :
            /\ ~InConflict(graph, e)
            /\ findNode(n) /\ index.parent'[n] = None
            /\ \A c \in Containers : findNode(c) => index.parent'[c] # None
            => n \notin graph'.src[e] \union graph'.tgt[e]]_graphVars
    BY LeafTakesItsEdges
<1> QED  BY <1>1, GraphInvariance, PTL DEF GraphSpec, DeletedLeavesTakeTheirEdges

-----------------------------------------------------------------------------
(* Moves that wait for the lock. *)

MovesFit == \A p \in Ops : pc[p] \in {"waiting", "entering"} => move[p] \in Moves

ExactUnlessLate == late = {} => index = indexGraphModel(graph) /\ OneEntryEach(graph)

Known == {n \in Nodes : findNode(n)}

(* What the index knows holds nothing that it does not know, and is held by *)
(* the root or by something that it knows.                                  *)
KnownIsClosed == Closed(graph, Known)

KnownIsHeld ==
    \A n \in Nodes : findNode(n) =>
        \E p \in Holders : n \in ToSet(graph.contains[p]) /\ (p = Root \/ findNode(p))

EditInv ==
    /\ LockInv
    /\ GraphTypeOK
    /\ move \in [Ops -> Moves \union {None}]
    /\ MovesFit
    /\ EdgesAreIndexed
    /\ KnownIsClosed
    /\ KnownIsHeld
    /\ ExactUnlessLate

(* A known node that is not in the model is below a known container that is *)
(* below itself: of the containers around it, one with the most below it    *)
(* has a holder with no more, which only one in a circle can have.          *)
LEMMA StrandedInACircle ==
    ASSUME GraphTypeOK, KnownIsHeld, NEW n \in Nodes \ LiveNodes(graph), findNode(n)
    PROVE  \E c \in Containers : findNode(c) /\ {c, n} \subseteq Below(graph, c)
<1> SUFFICES ASSUME \A c \in Containers : findNode(c) /\ n \in Below(graph, c) => c \notin Below(graph, c)
             PROVE  FALSE
    OBVIOUS
<1>0. graph \in Graphs
    BY DEF GraphTypeOK
<1> DEFINE U == {c \in Containers : findNode(c) /\ n \in Below(graph, c)}
           size(c) == Cardinality(Below(graph, c))
           M == {size(c) : c \in U}
           N == Cardinality(Nodes)
<1>1. ASSUME NEW m \in Nodes \ LiveNodes(graph), findNode(m), m = n \/ n \in Below(graph, m)
      PROVE  \E p \in U : m \in ToSet(graph.contains[p])
    <2>1. PICK p \in Holders : m \in ToSet(graph.contains[p]) /\ (p = Root \/ findNode(p))
        BY <1>1 DEF KnownIsHeld
    <2>2. p # Root
        BY <1>0, <1>1, <2>1, LiveIsClosed DEF Closed
    <2>3. p \in Containers /\ findNode(p)
        BY <2>1, <2>2 DEF Holders
    <2>4. n \in Below(graph, p)
        BY <1>0, <1>1, <2>1, EntriesAreBelow
    <2> QED  BY <2>1, <2>3, <2>4
<1>2. \A h : /\ IsFiniteSet(Below(graph, h)) /\ Cardinality(Below(graph, h)) \in Nat
             /\ Cardinality(Below(graph, h)) <= N /\ N \in Nat
    BY <1>0, BelowIsLeast, MetamodelAssumption, FS_Subset, FS_CardinalityType
<1>3. PICK c \in U : \A d \in U : size(d) <= size(c)
    <2>1. M \in SUBSET (0 .. N) /\ N \in Nat
        BY <1>2
    <2>2. M # {}
        BY <1>1
    <2>3. Max(M) \in M /\ \A x \in M : x <= Max(M)
        <3> HIDE DEF M, N
        <3> QED  BY <2>1, <2>2, LeastAndGreatest, Zenon
    <2> HIDE DEF size
    <2> QED  BY <2>3
<1>4. c \in Nodes \ LiveNodes(graph) /\ findNode(c) /\ n \in Below(graph, c)
    BY <1>0, <1>3, BelowLiveIsLive DEF Nodes
<1>5. PICK p \in U : c \in ToSet(graph.contains[p])
    BY <1>1, <1>4
<1>6. c \in Below(graph, p) /\ Below(graph, c) \subseteq Below(graph, p) /\ c \notin Below(graph, c)
    <2>1. p \in Holders
        BY <1>5 DEF Holders
    <2> QED  BY <1>0, <1>3, <1>4, <1>5, <2>1, EntriesAreBelow
<1>7. Cardinality(Below(graph, c)) <= Cardinality(Below(graph, p)) /\ size(c) # size(p)
    BY <1>2, <1>6, FS_Subset
<1> QED  BY <1>2, <1>3, <1>5, <1>7

LEMMA KnowsTheModel ==
    ASSUME GraphTypeOK, EdgesAreIndexed, KnownIsClosed, KnownIsHeld PROVE IndexKnowsTheModel
<1>1. LiveNodes(graph) \subseteq Known
    BY LiveIsLeast DEF KnownIsClosed, GraphTypeOK
<1> QED  BY <1>1, StrandedInACircle DEF IndexKnowsTheModel, Known, EdgesAreIndexed

(* The index of a model knows its nodes and edges.                          *)
LEMMA IndexKnows ==
    ASSUME NEW g \in Graphs, NEW x, x = indexGraphModel(g)
    PROVE  x.edges = g.edges /\ \A n \in Nodes : x.parent[n] # None <=> n \in LiveNodes(g)
<1>1. x.edges = g.edges
    BY DEF indexGraphModel
<1>2. ASSUME NEW n \in Nodes PROVE x.parent[n] # None <=> n \in LiveNodes(g)
    <2>1. PICK q : q = x.parent[n]
        OBVIOUS
    <2>2. /\ q # None => <<n, q>> \in ToSet(Visits(g))
          /\ q = None => n \notin LiveNodes(g)
        BY <2>1, IndexIsOfVisits
    <2>3. q # None => n \in LiveNodes(g)
        <3>1. <<n, q>>[1] = n
            OBVIOUS
        <3> QED  BY <2>2, <3>1 DEF LiveNodes, NodesOf
    <2> QED  BY <2>1, <2>2, <2>3
<1> QED  BY <1>1, <1>2

(* All of that holds of the index of a model.                               *)
IndexIsNew == index = indexGraphModel(graph)

IndexFits == EdgesAreIndexed /\ KnownIsClosed /\ KnownIsHeld

LEMMA NewIndexFits == GraphTypeOK /\ IndexIsNew => IndexFits
<1> SUFFICES ASSUME GraphTypeOK, index = indexGraphModel(graph) PROVE IndexFits
    BY DEF IndexIsNew
<1>1. graph \in Graphs
    BY DEF GraphTypeOK
<1>2. EdgesAreIndexed /\ \A n \in Nodes : findNode(n) <=> n \in LiveNodes(graph)
    BY <1>1, IndexKnows DEF EdgesAreIndexed, findNode
<1>3. Known = LiveNodes(graph)
    BY <1>1, <1>2, LiveAreNodes DEF Known
<1>4. KnownIsClosed
    BY <1>1, <1>3, LiveIsClosed DEF KnownIsClosed
<1>5. ASSUME NEW n \in Nodes, findNode(n)
      PROVE  \E p \in Holders : n \in ToSet(graph.contains[p]) /\ (p = Root \/ findNode(p))
    <2>1. PICK p \in Holders : n \in ToSet(graph.contains[p]) /\ p \in LiveNodes(graph) \union {Root}
        BY <1>5, CurrentIndex
    <2> QED  BY <1>1, <1>2, <2>1, LiveAreNodes
<1> QED  BY <1>2, <1>4, <1>5 DEF KnownIsHeld, IndexFits

LEMMA InitEditInv == EditInit => EditInv
<1> SUFFICES ASSUME EditInit PROVE EditInv
    OBVIOUS
<1>1. LockInv /\ GraphInv
    BY InitLockInv, InitGraphInv DEF EditInit
<1>2. EdgesAreIndexed /\ KnownIsClosed /\ KnownIsHeld
    BY <1>1, NewIndexFits DEF GraphInv, IndexIsNew, IndexFits
<1>3. MovesFit
    BY DEF EditInit, LockInit, MovesFit
<1>4. move \in [Ops -> Moves \union {None}]
    BY DEF EditInit
<1> QED  BY <1>1, <1>2, <1>3, <1>4 DEF EditInv, GraphInv, ExactUnlessLate

LEMMA EditsAreLockSteps == ASSUME EditNext PROVE [LockNext]_lockVars
<1>1. ASSUME NEW p \in Ops, NEW n \in Nodes, NEW t \in Holders, RequestMove(p, n, t) PROVE LockNext
    BY <1>1 DEF RequestMove, LockNext
<1>2. ASSUME NEW p \in Ops, ResumeMove(p) \/ MoveBody(p) \/ MoveOfMissing(p) \/ LockStep(p) PROVE LockNext
    BY <1>2 DEF ResumeMove, MoveBody, MoveOfMissing, LockStep, LockNext, RunJob
<1>3. CASE Edit
    BY <1>3 DEF Edit
<1>4. CASE CommandFails
    BY <1>4 DEF CommandFails, editVars
<1> QED  BY <1>1, <1>2, <1>3, <1>4 DEF EditNext

LEMMA NextMovesFit ==
    ASSUME EditInv, EditNext PROVE move' \in [Ops -> Moves \union {None}] /\ MovesFit'
<1>1. pc \in [Ops -> Phase] /\ move \in [Ops -> Moves \union {None}] /\ MovesFit
    BY DEF EditInv, LockInv, TypeOK
<1>2. ASSUME NEW p \in Ops, IsNext("resume", p) PROVE pc[p] = "waiting"
    <2>1. <<"resume", p>> \in Pending
        BY <1>2, HeadLeaves DEF EditInv, Pending
    <2> QED  BY <2>1 DEF EditInv, LockInv, PhaseContinuation
<1>3. ASSUME NEW p \in Ops, NEW n \in Nodes, NEW t \in Holders, RequestMove(p, n, t)
      PROVE  move' \in [Ops -> Moves \union {None}] /\ MovesFit'
    <2>1. PICK m \in Moves : m = [node |-> n, target |-> t]
        BY DEF Moves
    <2>2. move' = [move EXCEPT ![p] = m] /\ \A q \in Ops : q # p => pc'[q] = pc[q]
        BY <1>1, <1>3, <2>1 DEF RequestMove, Request
    <2> QED  BY <1>1, <2>2 DEF MovesFit
<1>4. ASSUME NEW p \in Ops, ResumeMove(p) PROVE move' \in [Ops -> Moves \union {None}] /\ MovesFit'
    <2>1. move' = move /\ pc' = [pc EXCEPT ![p] = "entering"] /\ pc[p] = "waiting"
        BY <1>2, <1>4 DEF ResumeMove, Resume
    <2> QED  BY <1>1, <2>1 DEF MovesFit
<1>5. ASSUME NEW p \in Ops, MoveBody(p) \/ MoveOfMissing(p)
      PROVE  move' \in [Ops -> Moves \union {None}] /\ MovesFit'
    <2>1. move' = [move EXCEPT ![p] = None]
        BY <1>5 DEF MoveBody, MoveOfMissing
    <2>2. \E a \in {"saving", "stuck", "leaving"} : pc' = [pc EXCEPT ![p] = a]
        BY <1>5 DEF MoveBody, MoveOfMissing, BodySaves, BodyThrows, BodyReturns
    <2> QED  BY <1>1, <2>1, <2>2 DEF MovesFit
<1>6. ASSUME NEW p \in Ops, LockStep(p) PROVE move' \in [Ops -> Moves \union {None}] /\ MovesFit'
    <2>1. move' = move
        BY <1>6 DEF LockStep
    <2>2. pc' = pc \/ \E a \in {"stuck", "leaving", "done", "threw"} : pc' = [pc EXCEPT ![p] = a]
        BY <1>6 DEF LockStep, ResumeGhost, SaveDone, SaveFails, Unlock
    <2> QED  BY <1>1, <2>1, <2>2 DEF MovesFit
<1>7. CASE Edit
    <2>1. move' = move /\ pc' = pc
        BY <1>7 DEF Edit, lockVars
    <2> QED  BY <1>1, <2>1 DEF MovesFit
<1>8. CASE CommandFails
    BY <1>1, <1>8 DEF CommandFails, editVars, lockVars, MovesFit
<1> QED  BY <1>3, <1>4, <1>5, <1>6, <1>7, <1>8 DEF EditNext

(* What the body of a move, early or late, makes of the model.              *)
LEMMA BodyKeepsTheTree ==
    ASSUME EditInv, NEW p \in Ops, MoveBody(p)
    PROVE  /\ graph' \in Graphs /\ graph'.edges = graph.edges
           /\ SparesTheRest(graph, graph', move[p].node, move[p].target)
           /\ \E n \in Nodes : findNode(n) /\
                \/ graph' = graph
                \/ \E t \in Holders, old \in Holders : findContainer(t) /\ Moved(graph', graph, n, old, t)
           /\ late = {} => OneEntryEach(graph')
<1>1. graph \in Graphs /\ GraphTypeOK
    BY DEF EditInv, GraphTypeOK
<1>2. pc[p] = "entering"
    <2>1. <<"body", p>> \in Pending
        BY HeadLeaves DEF EditInv, Pending, MoveBody
    <2> QED  BY <2>1 DEF EditInv, LockInv, PhaseContinuation, MoveBody
<1>3. PICK n \in Nodes, t \in Holders : n = move[p].node /\ t = move[p].target
    BY <1>2 DEF EditInv, MovesFit, Moves
<1>4. findNode(n) /\ graph' = changeContainer(n, t)
    BY <1>3 DEF MoveBody
<1>5. PICK old \in Holders : old = index.parent[n]
    BY <1>1, <1>4 DEF findNode, GraphTypeOK
<1>6. SparesTheRest(graph, graph', n, t)
    BY <1>1, <1>4, <1>5, ChangeSparesTheRest
<1>7. /\ graph' \in Graphs /\ graph'.edges = graph.edges
      /\ IF findContainer(t) THEN Moved(graph', graph, n, old, t) ELSE graph' = graph
      /\ OneEntryEach(graph) /\ n \in ToSet(graph.contains[old]) => OneEntryEach(graph')
    BY <1>1, <1>4, <1>5, ChangeKeepsTheTree
<1>8. late = {} => OneEntryEach(graph) /\ n \in ToSet(graph.contains[old])
    BY <1>1, <1>4, <1>5, CurrentIndex DEF EditInv, ExactUnlessLate
<1> QED  BY <1>3, <1>4, <1>6, <1>7, <1>8

GraphPart == GraphTypeOK /\ EdgesAreIndexed /\ KnownIsClosed /\ KnownIsHeld /\ ExactUnlessLate

LEMMA NextGraphPart == ASSUME EditInv, EditNext PROVE GraphPart'
<1>0. GraphPart /\ graph \in Graphs
    BY DEF EditInv, GraphPart, GraphTypeOK
<1>1. ASSUME UNCHANGED graphVars, late' # {} \/ late' = late PROVE GraphPart'
    BY <1>0, <1>1 DEF graphVars, GraphPart, GraphTypeOK, EdgesAreIndexed, KnownIsClosed, Closed, Known,
                      KnownIsHeld, findNode, ExactUnlessLate
<1>2. ASSUME graph' \in Graphs, Reindex, late' = {} => OneEntryEach(graph') PROVE GraphPart'
    <2>1. GraphTypeOK'
        BY <1>2, StillTyped
    <2>2. IndexIsNew'
        BY <1>2 DEF Reindex, IndexIsNew
    <2>3. IndexFits'
        BY <2>1, <2>2, NewIndexFits, PTL
    <2> QED  BY <1>2, <2>1, <2>3 DEF GraphPart, ExactUnlessLate, Reindex, IndexFits
<1>3. ASSUME NEW p \in Ops, NEW n \in Nodes, NEW t \in Holders, RequestMove(p, n, t) PROVE GraphPart'
    <2>1. graph' = graph /\ late' = late /\ (Reindex \/ UNCHANGED graphVars)
        BY <1>3 DEF RequestMove, graphVars
    <2>2. late' = {} => OneEntryEach(graph')
        BY <1>0, <2>1 DEF GraphPart, ExactUnlessLate
    <2>3. graph' \in Graphs
        BY <1>0, <2>1
    <2> QED  BY <1>1, <1>2, <2>1, <2>2, <2>3
<1>4. ASSUME NEW p \in Ops, ResumeMove(p) PROVE GraphPart'
    BY <1>1, <1>4 DEF ResumeMove
<1>5. ASSUME NEW p \in Ops, MoveBody(p) PROVE GraphPart'
    <2>1. /\ graph' \in Graphs /\ graph'.edges = graph.edges
          /\ late = {} => OneEntryEach(graph')
        BY <1>5, BodyKeepsTheTree
    <2>2. late' = late /\ (Reindex \/ UNCHANGED index)
        BY <1>5 DEF MoveBody
    <2>3. late = {} => Reindex
        <3> SUFFICES ASSUME late = {} PROVE Walkable(graph')
            BY <1>5 DEF MoveBody
        <3>1. SoleHolders(graph')
            BY <2>1, OneEntryForm
        <3> QED  BY <2>1, <3>1, OneEntryIsWalkable
    <2>4. CASE Reindex
        BY <1>2, <2>1, <2>2, <2>4
    <2>5. CASE UNCHANGED index /\ late # {}
        <3>1. PICK n \in Nodes :
                findNode(n) /\
                    \/ graph' = graph
                    \/ \E t \in Holders, old \in Holders : findContainer(t) /\ Moved(graph', graph, n, old, t)
            BY <1>5, BodyKeepsTheTree
        <3>2. GraphTypeOK' /\ EdgesAreIndexed' /\ ExactUnlessLate'
            BY <1>0, <2>1, <2>2, <2>5 DEF GraphPart, GraphTypeOK, EdgesAreIndexed, ExactUnlessLate
        <3>3. \A m : findNode(m)' <=> findNode(m)
            BY <2>5 DEF findNode
        <3>4. CASE graph' = graph
            BY <1>1, <2>2, <2>5, <3>4 DEF graphVars
        <3>5. ASSUME NEW t \in Holders, NEW old \in Holders, findContainer(t), Moved(graph', graph, n, old, t)
              PROVE  KnownIsClosed' /\ KnownIsHeld'
            <4>1. \A h \in Holders : ToSet(graph'.contains[h]) \subseteq ToSet(graph.contains[h]) \union {n}
                BY <3>5 DEF Moved
            <4>2. /\ n \in ToSet(graph'.contains[t])
                  /\ \A h \in Holders : ToSet(graph.contains[h]) \subseteq ToSet(graph'.contains[h]) \union {n}
                BY <3>5 DEF Moved
            <4>3. Known' = Known /\ n \in Known
                BY <3>1, <3>3 DEF Known
            <4>4. Closed(graph', Known)
                BY <1>0, <4>1, <4>3 DEF GraphPart, KnownIsClosed, Closed
            <4>5. ASSUME NEW m \in Nodes, findNode(m)
                  PROVE  \E k \in Holders : m \in ToSet(graph'.contains[k]) /\ (k = Root \/ findNode(k))
                <5>1. CASE m = n
                    BY <3>5, <4>2, <5>1 DEF findContainer
                <5>2. CASE m # n
                    <6>1. PICK k \in Holders : m \in ToSet(graph.contains[k]) /\ (k = Root \/ findNode(k))
                        BY <1>0, <4>5 DEF GraphPart, KnownIsHeld
                    <6> QED  BY <4>2, <5>2, <6>1
                <5> QED  BY <5>1, <5>2
            <4> QED  BY <3>3, <4>3, <4>4, <4>5 DEF KnownIsClosed, KnownIsHeld
        <3> QED  BY <3>1, <3>2, <3>4, <3>5 DEF GraphPart
    <2> QED  BY <2>2, <2>3, <2>4, <2>5
<1>6. ASSUME NEW p \in Ops, MoveOfMissing(p) \/ LockStep(p) PROVE GraphPart'
    BY <1>1, <1>6 DEF MoveOfMissing, LockStep
<1>7. CASE Edit
    <2>1. Creation \/ Deletion \/ ConflictResolution \/ Reconnection
        BY <1>7 DEF Edit
    <2>2. Reindex /\ late' = late
        BY <1>7 DEF Edit, Creation, CreateNode, CreateEdge, Deletion, Delete,
                    ConflictResolution, Restore, ChooseSource, ChooseTarget, Reconnection, Reconnect
    <2>3. GraphTypeOK'
        BY <1>0, <2>1, NextTyped DEF GraphPart, GraphNext
    <2>4. late' = {} => OneEntryEach(graph')
        BY <1>0, <2>1, <2>2, <2>3, EditsKeepTheTree DEF GraphPart, ExactUnlessLate
    <2>5. graph' \in Graphs
        BY <2>3 DEF GraphTypeOK
    <2> QED  BY <1>2, <2>2, <2>4, <2>5
<1>8. CASE CommandFails
    BY <1>1, <1>8 DEF CommandFails, editVars, graphVars
<1> QED  BY <1>3, <1>4, <1>5, <1>6, <1>7, <1>8 DEF EditNext

LEMMA NextEditInv == EditInv /\ [EditNext]_editVars => EditInv'
<1> SUFFICES ASSUME EditInv, [EditNext]_editVars PROVE EditInv'
    OBVIOUS
<1>1. CASE EditNext
    <2>1. LockInv'
        BY <1>1, EditsAreLockSteps, NextLockInv DEF EditInv
    <2> QED  BY <1>1, <2>1, NextMovesFit, NextGraphPart DEF EditInv, GraphPart
<1>2. CASE UNCHANGED editVars
    <2>1. /\ graph' = graph /\ index' = index /\ move' = move /\ late' = late
          /\ pc' = pc /\ UNCHANGED lockVars
        BY <1>2 DEF editVars, graphVars, lockVars
    <2>2. LockInv'
        BY <2>1, NextLockInv DEF EditInv
    <2> QED
        BY <2>1, <2>2 DEF EditInv, GraphTypeOK, MovesFit, EdgesAreIndexed, KnownIsClosed, Closed, Known,
                          KnownIsHeld, findNode, ExactUnlessLate
<1> QED  BY <1>1, <1>2

LEMMA EditInvariance == EditSpec => []EditInv
BY InitEditInv, NextEditInv, PTL DEF EditSpec

(* However late a move comes and however stale the holder is that it takes  *)
(* the node from, the index knows every node and the edges of the model;    *)
(* what else it knows was cut off by moves of containers into each other.   *)
THEOREM IndexIsComplete == EditSpec => []IndexKnowsTheModel
<1>1. EditInv => IndexKnowsTheModel
    BY KnowsTheModel DEF EditInv
<1> QED  BY <1>1, EditInvariance, PTL

(* As long as no operation had to wait for the lock, every node has one     *)
(* entry and the index its holder.                                          *)
THEOREM ExactWhileUncontended == EditSpec => []ExactWithoutContention
<1>1. ASSUME EditInv PROVE ExactWithoutContention
    <2> SUFFICES ASSUME late = {} PROVE IndexAgrees /\ NoDuplicateId
        BY DEF ExactWithoutContention
    <2>1. GraphTypeOK /\ OneEntryEach(graph) /\ index = indexGraphModel(graph)
        BY <1>1 DEF EditInv, ExactUnlessLate
    <2>2. NoDuplicateId
        BY <2>1, OneEntryIsNoDuplicate
    <2>3. IndexAgrees
        BY <1>1, <2>1, CurrentIndex DEF IndexAgrees, EditInv, EdgesAreIndexed
    <2> QED  BY <2>2, <2>3
<1> QED  BY <1>1, EditInvariance, PTL

(* The body of a move, also when the node or its new container were moved   *)
(* while it waited, costs the model at most the node and what is inside it, *)
(* and nothing unless the new container is inside it or cut off itself.     *)
THEOREM MovesKeepNodes == EditSpec => MoveKeepsNodes
<1>1. ASSUME EditInv, NEW p \in Ops, MoveBody(p)
      PROVE  LET n == move[p].node
                 t == move[p].target
                 moved == {n} \union Below(graph, n)
             IN  /\ LiveNodes(graph) \ LiveNodes(graph') \subseteq moved
                 /\ t \in (LiveNodes(graph) \union {Root}) \ moved =>
                       LiveNodes(graph) \subseteq LiveNodes(graph')
    BY <1>1, BodyKeepsTheTree DEF SparesTheRest
<1>2. EditInv /\ [EditNext]_editVars =>
        [\A p \in Ops : MoveBody(p) =>
            LET n == move[p].node
                t == move[p].target
                moved == {n} \union Below(graph, n)
            IN  /\ LiveNodes(graph) \ LiveNodes(graph') \subseteq moved
                /\ t \in (LiveNodes(graph) \union {Root}) \ moved =>
                      LiveNodes(graph) \subseteq LiveNodes(graph')]_editVars
    BY <1>1
<1> QED  BY <1>2, EditInvariance, PTL DEF EditSpec, MoveKeepsNodes

=============================================================================
