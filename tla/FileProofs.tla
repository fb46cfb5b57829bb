------------------------------ MODULE FileProofs -------------------------------
(***************************************************************************)
(* Theorems about FileStore and FileSync, for any sessions, saves, changes  *)
(* and crashes.  The storage first: the semaphore balances in spite of the  *)
(* missing await, and the steps of the storage are steps of PlainFile.      *)
(* Then the sessions around it: who waits for the dust to settle never      *)
(* loses an operation, and unless saves overlap or the process ends, a      *)
(* model is replaced by an empty one only by a session that opened the file *)
(* in the middle of a save.                                                 *)
(***************************************************************************)
EXTENDS FileSync, FiniteSetTheorems, SequenceTheorems, TLAPS

(* Saves whose call of lockSemaphore has not been given back.               *)
Owing == {s \in Saves : pc[s] \in Busy \union {"stuck"}}

(* Resolvers are stored in an entry only.                                   *)
NoEntryNoWaiters == ~held => waiters = 0

SemaphoreInv ==
    /\ StoreTypeOK
    /\ NoEntryNoWaiters
    /\ SemaphoreBalance

(* Adding a save to a counted set, or taking it out.                        *)
LEMMA CountSaves ==
  ASSUME NEW S \in SUBSET Saves, NEW s
  PROVE  /\ Cardinality(S) \in Nat
         /\ S = {} => Cardinality(S) = 0
         /\ s \notin S => Cardinality(S \union {s}) = Cardinality(S) + 1
         /\ s \in S => Cardinality(S \ {s}) = Cardinality(S) - 1 /\ Cardinality(S) > 0
<1>1. IsFiniteSet(S)
  BY StoreAssumption, FS_Subset
<1>2. Cardinality(S) \in Nat /\ (Cardinality(S) = 0 <=> S = {})
  BY <1>1, FS_CardinalityType, FS_EmptySet
<1>3. s \notin S => Cardinality(S \union {s}) = Cardinality(S) + 1
  BY <1>1, FS_AddElement
<1>4. ASSUME s \in S
      PROVE  Cardinality(S \ {s}) = Cardinality(S) - 1 /\ Cardinality(S) > 0
  <2>1. Cardinality(S \ {s}) = Cardinality(S) - 1
    BY <1>1, <1>4, FS_RemoveElement
  <2>2. S # {}
    BY <1>4
  <2>3. Cardinality(S) # 0
    BY <1>2, <2>2
  <2> QED
    BY <1>2, <2>1, <2>3
<1> QED
  BY <1>2, <1>3, <1>4

LEMMA InitSemaphoreInv == StoreInit => SemaphoreInv
<1> SUFFICES ASSUME StoreInit PROVE SemaphoreInv
  OBVIOUS
<1>1. file \in Seq(Contents)
  <2>1. PICK c \in Contents : file = Encoded(c)
    BY DEF StoreInit
  <2>2. Size[c] \in Nat
    BY StoreAssumption
  <2> QED
    BY <2>1, <2>2 DEF Encoded
<1>2. StoreTypeOK
  <2>1. snap \in [Saves -> Contents]
    BY DEF StoreInit
  <2>2. pc \in [Saves -> Phase]
    BY DEF StoreInit, Phase
  <2>3. crashes \in 0 .. MaxCrashes
    BY StoreAssumption DEF StoreInit
  <2>4. held \in BOOLEAN /\ waiters \in Nat /\ relocks \in Nat /\ shared \subseteq Saves
    BY DEF StoreInit
  <2> QED
    BY <1>1, <2>1, <2>2, <2>3, <2>4 DEF StoreTypeOK
<1>3. Owing = {}
  BY DEF StoreInit, Owing, Busy
<1>4. Cardinality(Owing) = 0
  BY <1>3, CountSaves
<1> QED
  BY <1>2, <1>4 DEF StoreInit, SemaphoreInv, NoEntryNoWaiters, SemaphoreBalance, Owing

(* What is written stays a sequence of blocks.                              *)
LEMMA OverwrittenType ==
  ASSUME NEW blocks \in Seq(Contents), NEW c \in Contents
  PROVE  /\ Overwritten(blocks, c) \in Seq(Contents)
         /\ Len(Overwritten(blocks, c)) = IF Len(blocks) > Size[c] THEN Len(blocks) ELSE Size[c]
<1> DEFINE n == IF Len(blocks) > Size[c] THEN Len(blocks) ELSE Size[c]
<1>1. Size[c] \in Nat /\ Len(blocks) \in Nat
  BY StoreAssumption
<1>2. n \in Nat
  BY <1>1
<1>3. \A i \in 1 .. n : (IF i <= Size[c] THEN c ELSE blocks[i]) \in Contents
  BY <1>1
<1> QED
  BY <1>1, <1>2, <1>3 DEF Overwritten

LEMMA NextStoreType ==
  ASSUME StoreTypeOK, [StoreNext]_storeVars
  PROVE  StoreTypeOK'
<1> USE DEF StoreTypeOK, Phase, Busy
<1>1. CASE Relock
  BY <1>1 DEF Relock, lockSemaphore
<1>2. CASE StoreCrash
  <2>1. crashes' \in 0 .. MaxCrashes
    BY <1>2, StoreAssumption DEF StoreCrash
  <2>2. pc' \in [Saves -> Phase]
    BY <1>2 DEF StoreCrash
  <2>3. held' \in BOOLEAN /\ waiters' \in Nat /\ relocks' \in Nat
    BY <1>2 DEF StoreCrash
  <2> QED
    BY <1>2, <2>1, <2>2, <2>3 DEF StoreCrash
<1>3. ASSUME NEW s \in Saves, NEW c \in Contents, BeginSave(s, c)
      PROVE  StoreTypeOK'
  BY <1>3 DEF BeginSave, lockSemaphore, Active
<1>4. ASSUME NEW s \in Saves, SaveVetoed(s)
      PROVE  StoreTypeOK'
  BY <1>4 DEF SaveVetoed, semaphoreVars
<1>5. ASSUME NEW s \in Saves, EncodeThrows(s)
      PROVE  StoreTypeOK'
  <2>1. held' \in BOOLEAN /\ waiters' \in Nat
    BY <1>5 DEF EncodeThrows
  <2>2. relocks' \in Nat
    <3>1. relocks \in Nat /\ relocks + waiters + 1 \in Nat
      OBVIOUS
    <3>2. relocks' = IF held THEN relocks + waiters + 1 ELSE relocks
      BY <1>5 DEF EncodeThrows
    <3> QED
      BY <3>1, <3>2
  <2>3. pc' \in [Saves -> Phase]
    BY <1>5 DEF EncodeThrows
  <2> QED
    BY <1>5, <2>1, <2>2, <2>3 DEF EncodeThrows
<1>6. ASSUME NEW s \in Saves, ExistsKnown(s) \/ WriteFails(s)
      PROVE  StoreTypeOK'
  BY <1>6 DEF ExistsKnown, WriteFails, semaphoreVars
<1>7. ASSUME NEW s \in Saves, Truncate(s)
      PROVE  StoreTypeOK'
  <2>1. file' \in Seq(Contents)
    BY <1>7 DEF Truncate
  <2> QED
    BY <1>7, <2>1 DEF Truncate, semaphoreVars
<1>8. ASSUME NEW s \in Saves, WriteBlocks(s)
      PROVE  StoreTypeOK'
  <2>1. file' \in Seq(Contents)
    BY <1>8, OverwrittenType DEF WriteBlocks
  <2> QED
    BY <1>8, <2>1 DEF WriteBlocks, semaphoreVars
<1>9. ASSUME NEW s \in Saves, ReturnFromWrite(s)
      PROVE  StoreTypeOK'
  BY <1>9 DEF ReturnFromWrite
<1>10. CASE UNCHANGED storeVars
  BY <1>10 DEF storeVars
<1> QED
  BY <1>1, <1>2, <1>3, <1>4, <1>5, <1>6, <1>7, <1>8, <1>9, <1>10 DEF StoreNext, SaveStep

LEMMA NextNoEntryNoWaiters ==
  ASSUME StoreTypeOK, NoEntryNoWaiters, [StoreNext]_storeVars
  PROVE  NoEntryNoWaiters'
  BY DEF NoEntryNoWaiters, StoreNext, SaveStep, storeVars, semaphoreVars, lockSemaphore, Relock,
         StoreCrash, BeginSave, SaveVetoed, EncodeThrows, ExistsKnown, Truncate, WriteBlocks,
         WriteFails, ReturnFromWrite

(* Each step takes at most one save into or out of those that owe a call of *)
(* unlockSemaphore, and moves as many between entry, resolvers and relocks. *)
LEMMA NextSemaphoreBalance ==
  ASSUME SemaphoreInv, [StoreNext]_storeVars
  PROVE  SemaphoreBalance'
<1> USE DEF SemaphoreInv, Phase, Busy
<1>1. /\ pc \in [Saves -> Phase] /\ waiters \in Nat /\ relocks \in Nat /\ held \in BOOLEAN
      /\ (IF held THEN 1 ELSE 0) + waiters + relocks = Cardinality(Owing)
      /\ Owing \in SUBSET Saves
  BY DEF StoreTypeOK, SemaphoreBalance, Owing
<1>2. SUFFICES (IF held' THEN 1 ELSE 0) + waiters' + relocks' = Cardinality(Owing')
  BY DEF SemaphoreBalance, Owing
<1>3. CASE Relock
  <2>1. Owing' = Owing
    BY <1>3 DEF Relock, Owing
  <2> QED
    BY <1>1, <1>3, <2>1 DEF Relock, lockSemaphore, NoEntryNoWaiters
<1>4. CASE StoreCrash
  <2>1. Owing' = {}
    BY <1>1, <1>4 DEF StoreCrash, Owing
  <2>2. Cardinality(Owing') = 0
    BY <2>1, CountSaves
  <2> QED
    BY <1>4, <2>2 DEF StoreCrash
<1>5. ASSUME NEW s \in Saves, NEW c \in Contents, BeginSave(s, c)
      PROVE  (IF held' THEN 1 ELSE 0) + waiters' + relocks' = Cardinality(Owing')
  <2>1. s \notin Owing /\ Owing' = Owing \union {s}
    BY <1>1, <1>5 DEF BeginSave, Owing
  <2>2. Cardinality(Owing') = Cardinality(Owing) + 1
    BY <1>1, <2>1, CountSaves
  <2> QED
    BY <1>1, <1>5, <2>2 DEF BeginSave, lockSemaphore, NoEntryNoWaiters
<1>6. ASSUME NEW s \in Saves, SaveVetoed(s)
      PROVE  (IF held' THEN 1 ELSE 0) + waiters' + relocks' = Cardinality(Owing')
  <2>1. Owing' = Owing
    BY <1>1, <1>6 DEF SaveVetoed, Owing
  <2> QED
    BY <1>1, <1>6, <2>1 DEF SaveVetoed, semaphoreVars
<1>7. ASSUME NEW s \in Saves, EncodeThrows(s)
      PROVE  (IF held' THEN 1 ELSE 0) + waiters' + relocks' = Cardinality(Owing')
  <2>1. Owing' = Owing
    BY <1>1, <1>7 DEF EncodeThrows, Owing
  <2> QED
    BY <1>1, <1>7, <2>1 DEF EncodeThrows, NoEntryNoWaiters
<1>8. ASSUME NEW s \in Saves, ExistsKnown(s) \/ Truncate(s) \/ WriteBlocks(s) \/ WriteFails(s)
      PROVE  (IF held' THEN 1 ELSE 0) + waiters' + relocks' = Cardinality(Owing')
  <2>1. Owing' = Owing
    BY <1>1, <1>8 DEF ExistsKnown, Truncate, WriteBlocks, WriteFails, Owing
  <2> QED
    BY <1>1, <1>8, <2>1 DEF ExistsKnown, Truncate, WriteBlocks, WriteFails, semaphoreVars
<1>9. ASSUME NEW s \in Saves, ReturnFromWrite(s)
      PROVE  (IF held' THEN 1 ELSE 0) + waiters' + relocks' = Cardinality(Owing')
  <2>1. s \in Owing
    BY <1>9 DEF ReturnFromWrite, Owing
  <2>2. Cardinality(Owing) > 0 /\ Cardinality(Owing \ {s}) = Cardinality(Owing) - 1
    BY <1>1, <2>1, CountSaves
  <2>3. relocks = 0 /\ held
    BY <1>1, <1>9, <2>2 DEF ReturnFromWrite, NoEntryNoWaiters
  <2>4. Owing' = Owing \ {s}
    BY <1>1, <1>9, <2>3 DEF ReturnFromWrite, Owing
  <2> QED
    BY <1>1, <1>9, <2>2, <2>3, <2>4 DEF ReturnFromWrite
<1>10. CASE UNCHANGED storeVars
  BY <1>1, <1>10 DEF storeVars, Owing
<1> QED
  BY <1>3, <1>4, <1>5, <1>6, <1>7, <1>8, <1>9, <1>10 DEF StoreNext, SaveStep

LEMMA NextSemaphoreInv == SemaphoreInv /\ [StoreNext]_storeVars => SemaphoreInv'
  BY NextStoreType, NextNoEntryNoWaiters, NextSemaphoreBalance DEF SemaphoreInv

(* The variables of the storage keep their types.                           *)
THEOREM StoreTypeCorrect == StoreSpec => []StoreTypeOK
<1>1. SemaphoreInv => StoreTypeOK
  BY DEF SemaphoreInv
<1> QED
  BY <1>1, InitSemaphoreInv, NextSemaphoreInv, PTL DEF StoreSpec

(* Entry, stored resolvers and relocks are together as many as the saves    *)
(* that have not unlocked, however many saves overlap, fail or end with the *)
(* process.                                                                 *)
THEOREM SemaphoreBalances == StoreSpec => []SemaphoreBalance
<1>1. SemaphoreInv => SemaphoreBalance
  BY DEF SemaphoreInv
<1> QED
  BY <1>1, InitSemaphoreInv, NextSemaphoreInv, PTL DEF StoreSpec

(* unlockSemaphore never throws 'No lock to unlock for'.                    *)
THEOREM UnlockNeverThrows == StoreSpec => []UnlockFindsEntry
<1>1. SemaphoreInv => UnlockFindsEntry
  <2> SUFFICES ASSUME SemaphoreInv, NEW s \in Saves, pc[s] = "returning", relocks = 0
               PROVE  held
    BY DEF UnlockFindsEntry
  <2>1. s \in Owing /\ Owing \in SUBSET Saves
    BY DEF Owing, Busy
  <2>2. Cardinality(Owing) > 0
    BY <2>1, CountSaves
  <2> QED
    BY <2>2 DEF SemaphoreInv, StoreTypeOK, SemaphoreBalance, NoEntryNoWaiters, Owing
<1> QED
  BY <1>1, InitSemaphoreInv, NextSemaphoreInv, PTL DEF StoreSpec
-----------------------------------------------------------------------------
(* A save that had the file for itself so far is the only one in progress,  *)
(* and finds the file as it left it.                                        *)
Undisturbed ==
    \A s \in Active \ shared :
        /\ Active = {s}
        /\ pc[s] = "writing" => file = <<>>
        /\ pc[s] = "returning" => file = Encoded(snap[s])

FileInv == StoreTypeOK /\ Undisturbed

(* Only a whole encoding is decoded, and to nothing but its model.          *)
LEMMA DecodingBlocks ==
  /\ Decoded(<<>>) = Torn
  /\ \A c \in Contents :
        /\ Decoded(Encoded(c)) = c
        /\ Overwritten(<<>>, c) = Encoded(c)
        /\ \A blocks \in Seq(Contents) : Decoded(Overwritten(blocks, c)) \in {c, Torn}
<1>1. \A c \in Contents : 1 \in 1 .. Size[c] /\ Size[c] \in Nat \ {0}
  BY StoreAssumption
<1>2. \A c \in Contents : Encoded(c)[1] = c /\ DOMAIN Encoded(c) = 1 .. Size[c]
  BY <1>1 DEF Encoded
<1>3. \A c \in Contents : Encoded(c) # <<>>
  BY <1>1, <1>2
<1>4. \A c, d \in Contents : Encoded(c) = Encoded(d) => c = d
  BY <1>2
<1>5. ASSUME NEW c \in Contents
      PROVE  Overwritten(<<>>, c) = Encoded(c)
  BY <1>1 DEF Overwritten, Encoded
<1>6. ASSUME NEW c \in Contents, NEW blocks \in Seq(Contents)
      PROVE  Decoded(Overwritten(blocks, c)) \in {c, Torn}
  <2>1. Overwritten(blocks, c)[1] = c
    <3>1. 1 \in 1 .. (IF Len(blocks) > Size[c] THEN Len(blocks) ELSE Size[c])
      BY <1>1
    <3> QED
      BY <1>1, <3>1 DEF Overwritten
  <2>2. ASSUME NEW d \in Contents, Overwritten(blocks, c) = Encoded(d)
        PROVE  d = c
    BY <1>2, <2>1, <2>2
  <2> QED
    BY <2>2 DEF Decoded
<1> QED
  BY <1>3, <1>4, <1>5, <1>6 DEF Decoded

LEMMA InitFileInv == StoreInit => FileInv
  BY InitSemaphoreInv DEF SemaphoreInv, FileInv, Undisturbed, StoreInit, Active, Busy

LEMMA NextUndisturbed ==
  ASSUME FileInv, [StoreNext]_storeVars
  PROVE  Undisturbed'
<1> USE DEF FileInv, StoreTypeOK, Phase, Busy
<1>1. ASSUME Active' \subseteq Active, shared' = shared, file' = file, snap' = snap,
             \A t \in Active' : pc'[t] \in {pc[t], "truncating"}
      PROVE  Undisturbed'
  BY <1>1 DEF Undisturbed, Active
<1>2. CASE Relock \/ StoreCrash \/ UNCHANGED storeVars
  BY <1>1, <1>2 DEF Relock, StoreCrash, storeVars, Active
<1>3. ASSUME NEW s \in Saves, NEW c \in Contents, BeginSave(s, c)
      PROVE  Undisturbed'
  <2>1. Active' = Active \union {s}
    BY <1>3 DEF BeginSave, Active
  <2>2. pc'[s] = "exists"
    BY <1>3 DEF BeginSave
  <2> QED
    BY <1>3, <2>1, <2>2 DEF BeginSave, Undisturbed
<1>4. ASSUME NEW s \in Saves, SaveVetoed(s) \/ EncodeThrows(s) \/ ExistsKnown(s) \/ WriteFails(s)
                                 \/ ReturnFromWrite(s)
      PROVE  Undisturbed'
  BY <1>1, <1>4
     DEF SaveVetoed, EncodeThrows, ExistsKnown, WriteFails, ReturnFromWrite, Active
<1>5. ASSUME NEW s \in Saves, Truncate(s)
      PROVE  Undisturbed'
  <2>1. Active' = Active /\ s \in Active /\ pc'[s] = "writing" /\ file' = <<>> /\ shared' = shared
    BY <1>5 DEF Truncate, Active
  <2>2. \A t \in Active' \ shared' : t = s
    BY <2>1 DEF Undisturbed
  <2> QED
    BY <2>1, <2>2 DEF Undisturbed
<1>6. ASSUME NEW s \in Saves, WriteBlocks(s)
      PROVE  Undisturbed'
  <2>1. /\ Active' = Active /\ s \in Active /\ pc'[s] = "returning"
        /\ file' = Overwritten(file, snap[s]) /\ shared' = shared /\ snap' = snap
    BY <1>6 DEF WriteBlocks, Active
  <2>2. \A t \in Active' \ shared' : t = s /\ file = <<>>
    BY <1>6, <2>1 DEF Undisturbed, WriteBlocks
  <2>3. snap[s] \in Contents
    OBVIOUS
  <2> QED
    BY <2>1, <2>2, <2>3, DecodingBlocks DEF Undisturbed
<1> QED
  BY <1>2, <1>3, <1>4, <1>5, <1>6 DEF StoreNext, SaveStep

LEMMA NextFileInv == FileInv /\ [StoreNext]_storeVars => FileInv'
  BY NextStoreType, NextUndisturbed DEF FileInv

(* The saves in progress are the writers of the plain file.                 *)
LEMMA WritersAreActive == Plain!Writers = Active
  BY DEF Plain!Writers, Active, Outcome, Busy

LEMMA InitPlain == StoreInit => Plain!PlainInit
<1> SUFFICES ASSUME StoreInit PROVE Plain!PlainInit
  OBVIOUS
<1>1. Decoded(file) \in Contents \union {Torn}
  BY DecodingBlocks DEF StoreInit
<1>2. \A s \in Saves : Outcome(s) = "idle"
  BY DEF StoreInit, Outcome, Busy
<1>3. snap \in [Saves -> Contents] /\ shared = {}
  BY DEF StoreInit
<1> QED
  BY <1>1, <1>2, <1>3 DEF Plain!PlainInit

(* Every step of the storage is a step of the plain file, or none.          *)
LEMMA StepsArePlain ==
  ASSUME FileInv, [StoreNext]_storeVars
  PROVE  [Plain!PlainNext]_(Plain!plainVars)
<1> USE DEF FileInv, StoreTypeOK, Phase, Busy
<1> DEFINE out == [s \in Saves |-> Outcome(s)]
<1>1. CASE Relock \/ UNCHANGED storeVars
  BY <1>1 DEF Relock, storeVars, Plain!plainVars, Outcome, Decoded
<1>2. CASE StoreCrash
  <2>1. CASE Active = {}
    <3>1. \A s \in Saves : Outcome(s)' = Outcome(s)
      BY <1>2, <2>1 DEF StoreCrash, Active, Outcome
    <3> QED
      BY <1>2, <3>1 DEF StoreCrash, Plain!plainVars, Decoded
  <2>2. CASE Active # {}
    <3>1. \A s \in Saves : Outcome(s)' = IF s \in Active THEN "lost" ELSE Outcome(s)
      BY <1>2 DEF StoreCrash, Active, Outcome
    <3>2. Plain!Halt
      BY <1>2, <2>2, <3>1, WritersAreActive DEF StoreCrash, Plain!Halt, Decoded
    <3> QED
      BY <3>2 DEF Plain!PlainNext
  <2> QED
    BY <2>1, <2>2
<1>3. ASSUME NEW s \in Saves, NEW c \in Contents, BeginSave(s, c)
      PROVE  Plain!Start(s, c)
  <2>1. Outcome(s) = "idle" /\ out' = [out EXCEPT ![s] = "writing"]
    BY <1>3 DEF BeginSave, Outcome
  <2> QED
    BY <1>3, <2>1, WritersAreActive DEF BeginSave, Plain!Start, Decoded
<1>4. ASSUME NEW s \in Saves, SaveVetoed(s) \/ EncodeThrows(s)
      PROVE  Plain!Refuse(s)
  <2>1. Outcome(s) = "idle" /\ out' = [out EXCEPT ![s] = "lost"]
    BY <1>4 DEF SaveVetoed, EncodeThrows, Outcome
  <2> QED
    BY <1>4, <2>1 DEF SaveVetoed, EncodeThrows, Plain!Refuse, Decoded
<1>5. ASSUME NEW s \in Saves, ExistsKnown(s)
      PROVE  UNCHANGED Plain!plainVars
  <2>1. \A t \in Saves : Outcome(t)' = Outcome(t)
    BY <1>5 DEF ExistsKnown, Outcome
  <2> QED
    BY <1>5, <2>1 DEF ExistsKnown, Plain!plainVars, Decoded
<1>6. ASSUME NEW s \in Saves, Truncate(s) \/ WriteBlocks(s)
      PROVE  Plain!Alter(s)
  <2>1. Outcome(s) = "writing" /\ out' = out
    BY <1>6 DEF Truncate, WriteBlocks, Outcome
  <2>2. Decoded(file') \in {snap[s], Torn}
    BY <1>6, DecodingBlocks DEF Truncate, WriteBlocks
  <2>3. snap' = snap /\ shared' = shared
    BY <1>6 DEF Truncate, WriteBlocks
  <2> QED
    BY <2>1, <2>2, <2>3 DEF Plain!Alter, Decoded
<1>7. ASSUME NEW s \in Saves, WriteFails(s)
      PROVE  Plain!Lose(s)
  <2>1. Outcome(s) = "writing" /\ out' = [out EXCEPT ![s] = "lost"]
    BY <1>7 DEF WriteFails, Outcome
  <2> QED
    BY <1>7, <2>1 DEF WriteFails, Plain!Lose, Decoded
<1>8. ASSUME NEW s \in Saves, ReturnFromWrite(s)
      PROVE  Plain!Finish(s) \/ Plain!Lose(s)
  <2>1. Outcome(s) = "writing" /\ out' = [out EXCEPT ![s] = IF held THEN "saved" ELSE "lost"]
    BY <1>8 DEF ReturnFromWrite, Outcome
  <2>2. s \notin shared => Decoded(file) = snap[s]
    BY <1>8, DecodingBlocks DEF ReturnFromWrite, Undisturbed, Active
  <2>3. file' = file /\ snap' = snap /\ shared' = shared
    BY <1>8 DEF ReturnFromWrite
  <2> QED
    BY <2>1, <2>2, <2>3 DEF Plain!Finish, Plain!Lose, Decoded
<1> QED
  BY <1>1, <1>2, <1>3, <1>4, <1>5, <1>6, <1>7, <1>8
     DEF StoreNext, SaveStep, Plain!PlainNext

(* The storage is a plain file that several writers overwrite, as far as    *)
(* safety goes: a save that had the file for itself and reports success     *)
(* leaves its model in it, whatever failed or crashed before; saves that    *)
(* overlap leave one of their models or a file that cannot be read.         *)
THEOREM StorageIsAPlainFile ==
  StoreSpec => Plain!PlainInit /\ [][Plain!PlainNext]_(Plain!plainVars)
<1>1. StoreInit => FileInv
  BY InitFileInv
<1>2. FileInv /\ [StoreNext]_storeVars => FileInv'
  BY NextFileInv
<1>3. FileInv /\ [StoreNext]_storeVars => [Plain!PlainNext]_(Plain!plainVars)
  BY StepsArePlain
<1> QED
  BY <1>1, <1>2, <1>3, InitPlain, PTL DEF StoreSpec

-----------------------------------------------------------------------------
(* The sessions around the storage.                                         *)

SyncTyped ==
    /\ StoreTypeOK
    /\ mem \in [Clients -> Contents \union {Closed, Opening}]
    /\ loads \in [Clients -> Seq(Contents \union {Asked, Torn})]
    /\ event \in BOOLEAN /\ dirty \in BOOLEAN

-----------------------------------------------------------------------------
(* Without overlapping saves and crashes: a save is in progress alone, the  *)
(* file cannot be decoded only while there is one, and every model anywhere *)
(* is the one the file had at first, or of a session that read too early.   *)
Known == met \union {Origin}

Genuine ==
    shared = {} /\ crashes = 0 =>
        /\ \A s \in Active :
            /\ Active = {s}
            /\ snap[s].id \in Known
            /\ pc[s] = "writing" => file = <<>>
            /\ pc[s] = "returning" => Decoded(file) # Torn
        /\ Active = {} => Decoded(file) # Torn
        /\ Decoded(file) # Torn => Decoded(file).id \in Known
        /\ \A c \in Clients : IsOpen(c) => mem[c].id \in Known

-----------------------------------------------------------------------------
(* A save that has not written its model yet.                               *)
Coming(s) == pc[s] \in {"exists", "truncating", "writing"}

(* As long as nobody was hurried: m is the model that all operations led    *)
(* to.  It is in the file or on its way there, alone; what is read from the *)
(* file is m; and a session that holds an older model is certain to be told.*)
CalmAt(m) ==
    /\ \A s, t \in Active : s = t
    /\ Active = {} => file = Encoded(m)
    /\ \A s \in Active :
        /\ snap[s] = m
        /\ Coming(s) => /\ file # Encoded(m) /\ noticed # {Encoded(m)}
                        /\ \A c \in Clients : loads[c] = <<>>
        /\ pc[s] \in {"exists", "truncating"} => ~event /\ ~dirty
        /\ pc[s] = "writing" => file = <<>>
        /\ pc[s] = "returning" => file = Encoded(m)
    /\ wanted = m.elements
    /\ ~event => noticed = {} \/ noticed = {file}
    /\ \A c \in Clients : IsOpen(c) => mem[c].id = m.id
    /\ \A c \in Clients : \A i \in DOMAIN loads[c] : loads[c][i] \in {Asked, m}
    /\ \A c \in Clients : IsOpen(c) /\ mem[c] # m =>
        \/ \E s \in Active : Coming(s)
        \/ event /\ noticed # {file}
        \/ dirty
        \/ loads[c] # <<>>

Calm == ~hurried => \E m \in Contents : CalmAt(m)

SyncInv == SyncTyped /\ Genuine /\ Calm

-----------------------------------------------------------------------------
(* What an opening session has read, although the file went on since: it is *)
(* a model as genuine as those in the file; what could not be decoded was a *)
(* save in progress; and who is not hurried leaves the file alone until it  *)
(* is installed.                                                            *)
FoundTyped ==
    /\ found \in [Clients -> Contents \union {Asked, Torn}]
    /\ \A c \in Clients : found[c] # Asked => mem[c] = Opening

FoundGenuine ==
    shared = {} /\ crashes = 0 => \A c \in Clients :
        /\ found[c] = Torn => c \in met
        /\ found[c] \in Contents => found[c].id \in Known

FoundFresh ==
    ~hurried => \A c \in Clients : found[c] # Asked =>
        Active = {} /\ found[c] = Decoded(file)

FoundInv == FoundTyped /\ FoundGenuine /\ FoundFresh

-----------------------------------------------------------------------------
(* A file holds the encoding of one model at most.                          *)
LEMMA EncodedFacts ==
    /\ \A m \in Contents :
        Encoded(m) \in Seq(Contents) /\ Decoded(Encoded(m)) = m /\ Encoded(m) # <<>>
    /\ \A m, n \in Contents : Encoded(m) = Encoded(n) => m = n
    /\ Decoded(<<>>) = Torn
    /\ \A blocks : Decoded(blocks) # Torn =>
        Decoded(blocks) \in Contents /\ blocks = Encoded(Decoded(blocks))
<1>1. \A m \in Contents : Decoded(Encoded(m)) = m
    BY DecodingBlocks
<1>2. Decoded(<<>>) = Torn
    BY DecodingBlocks
<1>3. \A m \in Contents : Encoded(m) \in Seq(Contents)
    <2> SUFFICES ASSUME NEW m \in Contents PROVE Encoded(m) \in Seq(Contents)
        OBVIOUS
    <2>1. <<>> \in Seq(Contents) /\ Overwritten(<<>>, m) = Encoded(m)
        BY DecodingBlocks
    <2> QED  BY <2>1, OverwrittenType
<1>4. \A m \in Contents : Encoded(m) # <<>>
    BY <1>1, <1>2, StoreAssumption
<1>5. \A m, n \in Contents : Encoded(m) = Encoded(n) => m = n
    BY <1>1
<1>6. \A blocks : Decoded(blocks) # Torn =>
        Decoded(blocks) \in Contents /\ blocks = Encoded(Decoded(blocks))
    BY DEF Decoded
<1> QED  BY <1>1, <1>2, <1>3, <1>4, <1>5, <1>6

LEMMA MarksAreNoModels ==
    Closed \notin Contents /\ Opening \notin Contents /\ Asked \notin Contents /\ Torn \notin Contents
BY SyncAssumption

(* An operation makes another model with the same id.                       *)
LEMMA ToggledIsAnother ==
    ASSUME NEW m \in Contents, NEW x \in Elements
    PROVE  LET t == [m EXCEPT !.elements = Toggled(@, x)] IN
           /\ t \in Contents /\ t.id = m.id /\ t # m
           /\ t.elements = IF x \in t.elements THEN m.elements \union {x} ELSE m.elements \ {x}
<1> DEFINE t == [m EXCEPT !.elements = Toggled(@, x)]
<1>1. m \in [id : Clients \union {Origin}, elements : SUBSET Elements]
    BY SyncAssumption
<1>2. t.id = m.id /\ t.elements = Toggled(m.elements, x)
    BY <1>1
<1>3. Toggled(m.elements, x) \in SUBSET Elements
    BY <1>1 DEF Toggled
<1>4. t \in [id : Clients \union {Origin}, elements : SUBSET Elements]
    BY <1>1, <1>3
<1>5. x \in t.elements <=> x \notin m.elements
    BY <1>2 DEF Toggled
<1>6. t.elements = IF x \in t.elements THEN m.elements \union {x} ELSE m.elements \ {x}
    BY <1>2, <1>5 DEF Toggled
<1> QED  BY <1>2, <1>4, <1>5, <1>6, SyncAssumption

(* Beginning to save.                                                       *)
LEMMA BeginSaveFacts ==
    ASSUME StoreTypeOK, NEW s \in Saves, NEW m \in Contents, BeginSave(s, m)
    PROVE  /\ StoreTypeOK' /\ file' = file /\ crashes' = crashes
           /\ s \notin Active /\ Active' = Active \union {s}
           /\ pc' = [pc EXCEPT ![s] = "exists"] /\ snap' = [snap EXCEPT ![s] = m]
           /\ shared' = {} => shared = {} /\ Active = {}
<1>1. [StoreNext]_storeVars
    BY DEF StoreNext
<1>2. StoreTypeOK'
    BY <1>1, NextStoreType
<1> QED  BY <1>2 DEF BeginSave, Active, Busy, StoreTypeOK

LEMMA SyncInitInv == SyncInit => SyncInv
<1> SUFFICES ASSUME SyncInit PROVE SyncInv
    OBVIOUS
<1> DEFINE first == [id |-> Origin, elements |-> {}]
<1>1. first \in Contents /\ file = Encoded(first) /\ Decoded(file) = first
    BY SyncAssumption, EncodedFacts DEF SyncInit
<1>2. StoreTypeOK
    BY InitSemaphoreInv DEF SyncInit, SemaphoreInv
<1>3. Active = {}
    BY DEF SyncInit, StoreInit, Active, Busy
<1>4. SyncTyped
    <2>1. mem \in [Clients -> Contents \union {Closed, Opening}]
        BY <1>1 DEF SyncInit
    <2>2. <<>> \in Seq(Contents \union {Asked, Torn})
        OBVIOUS
    <2>3. loads \in [Clients -> Seq(Contents \union {Asked, Torn})]
        BY <2>2 DEF SyncInit
    <2> QED  BY <1>2, <2>1, <2>3 DEF SyncInit, SyncTyped
<1>5. \A c \in Clients : IsOpen(c) => mem[c] = first
    BY <1>1, MarksAreNoModels DEF SyncInit, IsOpen
<1>6. Genuine
    BY <1>1, <1>3, <1>5, MarksAreNoModels DEF Genuine, Known
<1>7. CalmAt(first)
    <2>1. wanted = first.elements /\ noticed = {} /\ \A c \in Clients : loads[c] = <<>>
        BY DEF SyncInit
    <2>2. \A c \in Clients : IsOpen(c) => mem[c].id = first.id
        BY <1>5
    <2> HIDE DEF first
    <2> QED  BY <1>1, <1>3, <1>5, <2>1, <2>2 DEF CalmAt
<1> QED  BY <1>1, <1>4, <1>6, <1>7 DEF SyncInv, Calm

-----------------------------------------------------------------------------
(* What Quiet says of a calm state.                                         *)
LEMMA QuietFacts ==
    ASSUME SyncTyped, Quiet, NEW m \in Contents, CalmAt(m)
    PROVE  /\ Active = {} /\ ~event /\ ~dirty /\ file = Encoded(m)
           /\ wanted = m.elements
           /\ noticed = {} \/ noticed = {Encoded(m)}
           /\ \A c \in Clients : loads[c] = <<>> /\ (IsOpen(c) => mem[c] = m)
BY DEF Quiet, CalmAt

LEMMA EditKeepsInv ==
    ASSUME SyncInv, NEW c \in Clients, NEW x \in Elements, NEW s \in Saves, Edit(c, x, s)
    PROVE  SyncInv'
<1>0. PICK model : model = [mem[c] EXCEPT !.elements = Toggled(@, x)]
    OBVIOUS
<1>1. /\ mem[c] \in Contents /\ BeginSave(s, model)
      /\ mem' = [mem EXCEPT ![c] = model]
      /\ wanted' = IF x \in model.elements THEN wanted \union {x} ELSE wanted \ {x}
      /\ hurried' = (hurried \/ ~Quiet)
      /\ UNCHANGED <<loads, watchVars, externals, met>>
    BY <1>0 DEF Edit, IsOpen
<1>2. /\ model \in Contents /\ model.id = mem[c].id /\ model # mem[c]
      /\ model.elements = IF x \in model.elements THEN mem[c].elements \union {x}
                                                  ELSE mem[c].elements \ {x}
    BY <1>0, <1>1, ToggledIsAnother
<1>3. /\ StoreTypeOK' /\ file' = file /\ crashes' = crashes
      /\ s \notin Active /\ Active' = Active \union {s}
      /\ pc' = [pc EXCEPT ![s] = "exists"] /\ snap' = [snap EXCEPT ![s] = model]
      /\ shared' = {} => shared = {} /\ Active = {}
    BY <1>1, <1>2, BeginSaveFacts DEF SyncInv, SyncTyped
<1>4. SyncTyped'
    BY <1>1, <1>2, <1>3 DEF SyncInv, SyncTyped, watchVars
<1>5. pc'[s] = "exists" /\ snap'[s] = model
    BY <1>3 DEF SyncInv, SyncTyped, StoreTypeOK
<1>6. \A d \in Clients : mem'[d] = IF d = c THEN model ELSE mem[d]
    BY <1>1 DEF SyncInv, SyncTyped
<1>7. Genuine'
    <2> SUFFICES ASSUME shared' = {}, crashes' = 0 PROVE Genuine'
        BY DEF Genuine, Known
    <2>1. shared = {} /\ crashes = 0 /\ Active = {} /\ Active' = {s}
        BY <1>3
    <2>2. model.id \in Known
        BY <1>1, <1>2, <2>1 DEF SyncInv, Genuine, Known, IsOpen
    <2>3. \A d \in Clients : IsOpen(d)' => mem'[d].id \in Known
        BY <1>6, <2>1, <2>2 DEF SyncInv, Genuine, Known, IsOpen
    <2> QED  BY <1>1, <1>3, <1>5, <2>1, <2>2, <2>3 DEF SyncInv, Genuine, Known, Decoded
<1>8. ASSUME ~hurried'
      PROVE  \E m \in Contents : CalmAt(m)'
    <2>1. ~hurried /\ Quiet
        BY <1>1, <1>8
    <2>2. PICK m \in Contents : CalmAt(m)
        BY <2>1 DEF SyncInv, Calm
    <2>3. /\ Active = {} /\ ~event /\ ~dirty /\ file = Encoded(m) /\ wanted = m.elements
          /\ noticed = {} \/ noticed = {Encoded(m)}
          /\ \A d \in Clients : loads[d] = <<>> /\ (IsOpen(d) => mem[d] = m)
        BY <2>1, <2>2, QuietFacts DEF SyncInv
    <2>4. mem[c] = m
        BY <1>1, <2>3 DEF IsOpen
    <2>5. Encoded(model) # Encoded(m)
        BY <1>2, <2>4, EncodedFacts
    <2>6. wanted' = model.elements
        BY <1>1, <1>2, <2>3, <2>4
    <2>7. \A d \in Clients : IsOpen(d)' => mem'[d].id = model.id
        BY <1>2, <1>6, <2>3, <2>4 DEF IsOpen
    <2>8. Active' = {s} /\ Coming(s)'
        BY <1>3, <1>5, <2>3 DEF Coming
    <2>9. UNCHANGED <<loads, event, noticed, dirty, file>>
        BY <1>1, <1>3 DEF watchVars
    <2>10. CalmAt(model)'
        BY <1>5, <2>3, <2>5, <2>6, <2>7, <2>8, <2>9 DEF CalmAt
    <2> QED  BY <1>2, <2>10
<1> QED  BY <1>4, <1>7, <1>8 DEF SyncInv, Calm

LEMMA RequestModelKeepsInv ==
    ASSUME SyncInv, NEW c \in Clients, RequestModel(c)
    PROVE  SyncInv'
<1>1. /\ mem' = [mem EXCEPT ![c] = Opening]
      /\ UNCHANGED <<file, held, waiters, relocks, pc, snap, crashes, shared>>
      /\ UNCHANGED <<loads, event, noticed, dirty, externals, wanted, hurried, met>>
    BY DEF RequestModel, storeVars, watchVars, auxVars
<1>2. SyncTyped'
    BY <1>1 DEF SyncInv, SyncTyped, StoreTypeOK
<1>3. \A d \in Clients : IsOpen(d)' => IsOpen(d) /\ mem'[d] = mem[d]
    BY <1>1, MarksAreNoModels DEF IsOpen, SyncInv, SyncTyped
<1>4. Active' = Active /\ \A s \in Saves : Coming(s)' <=> Coming(s)
    BY <1>1 DEF Active, Coming
<1>5. Genuine'
    BY <1>1, <1>3, <1>4 DEF SyncInv, Genuine, Known
<1>6. \A m \in Contents : CalmAt(m) => CalmAt(m)'
    <2> SUFFICES ASSUME NEW m \in Contents, CalmAt(m) PROVE CalmAt(m)'
        OBVIOUS
    <2>1. Active \subseteq Saves
        BY DEF Active
    <2> QED  BY <1>1, <1>3, <1>4, <2>1 DEF CalmAt
<1> QED  BY <1>1, <1>2, <1>5, <1>6 DEF SyncInv, Calm

LEMMA ModelReadKeepsInv ==
    ASSUME SyncInv, NEW c \in Clients, ModelRead(c)
    PROVE  SyncInv'
<1>1. /\ hurried' = (hurried \/ Active # {})
      /\ met \subseteq met'
      /\ UNCHANGED <<file, held, waiters, relocks, pc, snap, crashes, shared>>
      /\ UNCHANGED <<mem, loads, event, noticed, dirty, wanted>>
    BY DEF ModelRead, storeVars, semaphoreVars, watchVars
<1>2. SyncTyped'
    BY <1>1 DEF SyncInv, SyncTyped, StoreTypeOK
<1>3. \A d \in Clients : IsOpen(d)' <=> IsOpen(d)
    BY <1>1 DEF IsOpen
<1>4. /\ Active' = Active /\ Active \subseteq Saves
      /\ \A s \in Saves : Coming(s)' <=> Coming(s)
    BY <1>1 DEF Active, Coming
<1>5. Genuine'
    BY <1>1, <1>3, <1>4 DEF SyncInv, Genuine, Known, Decoded
<1>6. \A m \in Contents : CalmAt(m) => CalmAt(m)'
    BY <1>1, <1>3, <1>4 DEF CalmAt
<1> QED  BY <1>1, <1>2, <1>5, <1>6 DEF SyncInv, Calm

LEMMA ModelLoadedKeepsInv ==
    ASSUME SyncInv, FoundInv, NEW c \in Clients, ModelLoaded(c)
    PROVE  SyncInv'
<1>0. PICK got : got = found[c]
    OBVIOUS
<1>1. /\ got \in Contents
      /\ mem' = [mem EXCEPT ![c] = got]
      /\ UNCHANGED <<file, held, waiters, relocks, pc, snap, crashes, shared>>
      /\ UNCHANGED <<loads, event, noticed, dirty, externals, wanted, hurried, met>>
    BY <1>0 DEF ModelLoaded, storeVars, semaphoreVars, watchVars, auxVars
<1>2. SyncTyped'
    BY <1>1 DEF SyncInv, SyncTyped, StoreTypeOK
<1>3. \A d \in Clients : mem'[d] = IF d = c THEN got ELSE mem[d]
    BY <1>1 DEF SyncInv, SyncTyped
<1>4. /\ Active' = Active /\ Active \subseteq Saves
      /\ \A s \in Saves : Coming(s)' <=> Coming(s)
    BY <1>1 DEF Active, Coming
<1>5. Genuine'
    <2> SUFFICES ASSUME shared = {}, crashes = 0 PROVE Genuine'
        BY <1>1 DEF Genuine
    <2>1. got.id \in Known
        BY <1>0, <1>1 DEF FoundInv, FoundGenuine
    <2>2. \A d \in Clients : IsOpen(d)' => mem'[d].id \in Known
        BY <1>3, <2>1 DEF SyncInv, Genuine, IsOpen
    <2> QED  BY <1>1, <1>4, <2>2 DEF SyncInv, Genuine, Known, Decoded
<1>6. ASSUME ~hurried
      PROVE  \E m \in Contents : CalmAt(m)'
    <2>1. PICK m \in Contents : CalmAt(m)
        BY <1>6 DEF SyncInv, Calm
    <2>2. Active = {} /\ got = Decoded(file)
        BY <1>0, <1>1, <1>6, SyncAssumption DEF FoundInv, FoundFresh
    <2>3. got = m
        BY <2>1, <2>2, EncodedFacts DEF CalmAt
    <2>4. \A d \in Clients : IsOpen(d)' => mem'[d] = m \/ (IsOpen(d) /\ mem'[d] = mem[d])
        BY <1>3, <2>3 DEF IsOpen
    <2>5. CalmAt(m)'
        BY <1>1, <1>4, <2>1, <2>2, <2>4 DEF CalmAt
    <2> QED  BY <2>5
<1> QED  BY <1>1, <1>2, <1>5, <1>6 DEF SyncInv, Calm

LEMMA ModelCreatedKeepsInv ==
    ASSUME SyncInv, FoundInv, NEW c \in Clients, NEW s \in Saves, ModelCreated(c, s)
    PROVE  SyncInv'
<1>0. PICK model : model = [id |-> c, elements |-> {}]
    OBVIOUS
<1>1. /\ found[c] = Torn /\ BeginSave(s, model)
      /\ mem' = [mem EXCEPT ![c] = model] /\ hurried' = TRUE
      /\ UNCHANGED <<loads, event, noticed, dirty, externals, wanted, met>>
    BY <1>0 DEF ModelCreated, watchVars
<1>2. model \in Contents /\ model.id = c
    BY <1>0, SyncAssumption
<1>3. /\ StoreTypeOK' /\ file' = file /\ crashes' = crashes
      /\ s \notin Active /\ Active' = Active \union {s}
      /\ pc' = [pc EXCEPT ![s] = "exists"] /\ snap' = [snap EXCEPT ![s] = model]
      /\ shared' = {} => shared = {} /\ Active = {}
    BY <1>1, <1>2, BeginSaveFacts DEF SyncInv, SyncTyped
<1>4. SyncTyped'
    BY <1>1, <1>2, <1>3 DEF SyncInv, SyncTyped
<1>5. pc'[s] = "exists" /\ snap'[s] = model
    BY <1>3 DEF SyncInv, SyncTyped, StoreTypeOK
<1>6. \A d \in Clients : mem'[d] = IF d = c THEN model ELSE mem[d]
    BY <1>1 DEF SyncInv, SyncTyped
<1>7. Genuine'
    <2> SUFFICES ASSUME shared' = {}, crashes' = 0 PROVE Genuine'
        BY DEF Genuine
    <2>1. shared = {} /\ crashes = 0 /\ Active = {} /\ Active' = {s}
        BY <1>3
    <2>2. model.id \in Known
        BY <1>1, <1>2, <2>1 DEF FoundInv, FoundGenuine, Known
    <2>3. \A d \in Clients : IsOpen(d)' => mem'[d].id \in Known
        BY <1>6, <2>1, <2>2 DEF SyncInv, Genuine, IsOpen
    <2> QED  BY <1>1, <1>3, <1>5, <2>1, <2>2, <2>3 DEF SyncInv, Genuine, Known, Decoded
<1> QED  BY <1>1, <1>4, <1>7 DEF SyncInv, Calm

-----------------------------------------------------------------------------
(* What the steps of saving have in common.                                 *)
LEMMA SavingFacts ==
    ASSUME SyncInv, Saving
    PROVE  /\ StoreTypeOK' /\ SyncTyped'
           /\ event' = (event \/ file' # file)
           /\ UNCHANGED <<mem, loads, noticed, dirty, externals, wanted, hurried, met>>
           /\ snap' = snap /\ crashes' = crashes /\ shared' = shared
           /\ \A c \in Clients : (IsOpen(c)' <=> IsOpen(c))
<1>1. [StoreNext]_storeVars
    BY DEF Saving, StoreNext
<1>2. StoreTypeOK'
    BY <1>1, NextStoreType DEF SyncInv, SyncTyped
<1>3. /\ event' = (event \/ file' # file)
      /\ UNCHANGED <<mem, loads, noticed, dirty, externals, wanted, hurried, met>>
    BY DEF Saving, auxVars
<1>4. snap' = snap /\ crashes' = crashes /\ shared' = shared
    BY DEF Saving, Relock, SaveStep, ExistsKnown, Truncate, WriteBlocks, ReturnFromWrite
<1>5. SyncTyped'
    BY <1>2, <1>3 DEF SyncInv, SyncTyped
<1> QED  BY <1>2, <1>3, <1>4, <1>5 DEF IsOpen

(* A step of one save that leaves it in progress.                           *)
LEMMA ProgressKeepsInv ==
    ASSUME SyncInv, Saving, NEW s \in Saves,
           ExistsKnown(s) \/ Truncate(s) \/ WriteBlocks(s)
    PROVE  SyncInv'
<1>1. /\ SyncTyped' /\ event' = (event \/ file' # file)
      /\ UNCHANGED <<mem, loads, noticed, dirty, wanted, hurried, met>>
      /\ snap' = snap /\ crashes' = crashes /\ shared' = shared
      /\ \A c \in Clients : (IsOpen(c)' <=> IsOpen(c))
    BY SavingFacts
<1>2. pc \in [Saves -> Phase] /\ snap \in [Saves -> Contents]
    BY DEF SyncInv, SyncTyped, StoreTypeOK
<1>3. s \in Active /\ Coming(s)
    BY DEF ExistsKnown, Truncate, WriteBlocks, Active, Busy, Coming
<1>4. \/ pc[s] = "exists" /\ pc'[s] = "truncating" /\ file' = file
      \/ pc[s] = "truncating" /\ pc'[s] = "writing" /\ file' = <<>>
      \/ pc[s] = "writing" /\ pc'[s] = "returning" /\ file' = Overwritten(file, snap[s])
    BY <1>2 DEF ExistsKnown, Truncate, WriteBlocks
<1>5. \A t \in Saves : t # s => pc'[t] = pc[t]
    BY <1>2 DEF ExistsKnown, Truncate, WriteBlocks
<1>6. Active' = Active
    BY <1>3, <1>4, <1>5 DEF Active, Busy
<1>7. snap[s] \in Contents /\ Overwritten(<<>>, snap[s]) = Encoded(snap[s])
    BY <1>2, DecodingBlocks
<1>8. Genuine'
    <2> SUFFICES ASSUME shared = {}, crashes = 0 PROVE Genuine'
        BY <1>1 DEF Genuine, Known
    <2>1. Active = {s} /\ snap[s].id \in Known /\ (pc[s] = "writing" => file = <<>>)
        BY <1>3 DEF SyncInv, Genuine, Known
    <2>2. \A c \in Clients : IsOpen(c)' => mem'[c].id \in Known
        BY <1>1 DEF SyncInv, Genuine, Known
    <2>3. /\ pc'[s] = "writing" => file' = <<>>
          /\ pc'[s] = "returning" => Decoded(file') = snap[s]
          /\ Decoded(file') # Torn => Decoded(file').id \in Known
        BY <1>4, <1>7, <2>1, EncodedFacts DEF SyncInv, Genuine, Known
    <2>4. (Decoded(file))' = Decoded(file')
        BY DEF Decoded
    <2> QED  BY <1>1, <1>6, <1>7, <2>1, <2>2, <2>3, <2>4, MarksAreNoModels DEF Genuine, Known
<1>9. ASSUME NEW m \in Contents, CalmAt(m)
      PROVE  CalmAt(m)'
    <2>1. Active = {s} /\ snap[s] = m
        BY <1>3, <1>9 DEF CalmAt
    <2>2. /\ noticed # {Encoded(m)} /\ file # Encoded(m)
          /\ \A c \in Clients : loads[c] = <<>>
          /\ pc[s] \in {"exists", "truncating"} => ~event /\ ~dirty
          /\ pc[s] = "writing" => file = <<>>
        BY <1>3, <1>9 DEF CalmAt
    <2>3. <<>> # Encoded(m)
        BY EncodedFacts
    <2>4. pc[s] = "writing" => file' = Encoded(m) /\ event'
        BY <1>1, <1>4, <1>7, <2>1, <2>2, <2>3
    <2>5. \/ pc[s] = "exists" /\ pc'[s] = "truncating" /\ file' = file /\ ~event'
          \/ pc[s] = "truncating" /\ pc'[s] = "writing" /\ file' = <<>>
          \/ pc[s] = "writing" /\ pc'[s] = "returning" /\ file' = Encoded(m) /\ event'
        BY <1>1, <1>4, <2>2, <2>4
    <2>6. Coming(s)' <=> pc'[s] # "returning"
        BY <2>5 DEF Coming
    <2>7. /\ wanted' = m.elements
          /\ \A c \in Clients : IsOpen(c)' => mem'[c].id = m.id
          /\ \A c \in Clients : \A i \in DOMAIN loads'[c] : loads'[c][i] \in {Asked, m}
        BY <1>1, <1>9 DEF CalmAt
    <2>8. ~event' => noticed' = {} \/ noticed' = {file'}
        BY <1>1, <1>9 DEF CalmAt
    <2>9. \A c \in Clients : IsOpen(c)' /\ mem'[c] # m =>
            \/ \E t \in Active' : Coming(t)'
            \/ event' /\ noticed' # {file'}
        BY <1>1, <1>6, <2>1, <2>2, <2>5, <2>6
    <2>10. /\ \A t, u \in Active' : t = u
           /\ Active' # {}
           /\ \A t \in Active' : t = s
        BY <1>6, <2>1
    <2>11. /\ snap'[s] = m
           /\ Coming(s)' => /\ file' # Encoded(m) /\ noticed' # {Encoded(m)}
                            /\ \A c \in Clients : loads'[c] = <<>>
           /\ pc'[s] \in {"exists", "truncating"} => ~event' /\ ~dirty'
           /\ pc'[s] = "writing" => file' = <<>>
           /\ pc'[s] = "returning" => file' = Encoded(m)
        BY <1>1, <2>1, <2>2, <2>3, <2>5, <2>6
    <2> QED  BY <2>7, <2>8, <2>9, <2>10, <2>11 DEF CalmAt
<1> QED  BY <1>1, <1>8, <1>9 DEF SyncInv, Calm

(* The last step of a save.                                                 *)
LEMMA ReturnKeepsInv ==
    ASSUME SyncInv, Saving, NEW s \in Saves, ReturnFromWrite(s)
    PROVE  SyncInv'
<1>1. /\ SyncTyped' /\ event' = (event \/ file' # file)
      /\ UNCHANGED <<mem, loads, noticed, dirty, wanted, hurried, met>>
      /\ snap' = snap /\ crashes' = crashes /\ shared' = shared
      /\ \A c \in Clients : (IsOpen(c)' <=> IsOpen(c))
    BY SavingFacts
<1>2. s \in Active /\ pc[s] = "returning" /\ ~Coming(s) /\ file' = file /\ event' = event
    BY <1>1 DEF ReturnFromWrite, Active, Busy, Coming, SyncInv, SyncTyped
<1>3. Active' = Active \ {s}
    BY DEF ReturnFromWrite, Active, Busy, SyncInv, SyncTyped, StoreTypeOK
<1>4. Genuine'
    <2> SUFFICES ASSUME shared = {}, crashes = 0 PROVE Genuine'
        BY <1>1 DEF Genuine, Known
    <2>1. Active' = {} /\ Decoded(file) # Torn
        BY <1>2, <1>3 DEF SyncInv, Genuine, Known
    <2>2. Decoded(file).id \in Known /\ \A c \in Clients : IsOpen(c) => mem[c].id \in Known
        BY <2>1 DEF SyncInv, Genuine, Known
    <2> QED  BY <1>1, <1>2, <2>1, <2>2 DEF Genuine, Known, Decoded
<1>5. ASSUME NEW m \in Contents, CalmAt(m)
      PROVE  CalmAt(m)'
    <2>1. Active = {s} /\ Active' = {} /\ file = Encoded(m)
        BY <1>2, <1>3, <1>5 DEF CalmAt
    <2>2. \A c \in Clients : IsOpen(c) /\ mem[c] # m =>
            (event /\ noticed # {file}) \/ dirty \/ loads[c] # <<>>
        BY <1>2, <1>5, <2>1 DEF CalmAt
    <2>3. /\ wanted = m.elements
          /\ ~event => noticed = {} \/ noticed = {file}
          /\ \A c \in Clients : IsOpen(c) => mem[c].id = m.id
          /\ \A c \in Clients : \A i \in DOMAIN loads[c] : loads[c][i] \in {Asked, m}
        BY <1>5 DEF CalmAt
    <2> QED  BY <1>1, <1>2, <2>1, <2>2, <2>3 DEF CalmAt
<1> QED  BY <1>1, <1>4, <1>5 DEF SyncInv, Calm

LEMMA RelockKeepsInv ==
    ASSUME SyncInv, Saving, Relock
    PROVE  SyncInv'
<1>1. /\ SyncTyped'
      /\ UNCHANGED <<mem, loads, noticed, dirty, wanted, hurried, met, event, file, pc, snap, crashes, shared>>
    BY SavingFacts DEF Relock, SyncInv, SyncTyped
<1>2. Active' = Active /\ \A s \in Saves : Coming(s)' <=> Coming(s)
    BY <1>1 DEF Active, Coming
<1>3. \A c \in Clients : IsOpen(c)' <=> IsOpen(c)
    BY <1>1 DEF IsOpen
<1>4. Genuine'
    BY <1>1, <1>2, <1>3 DEF SyncInv, Genuine, Known, Decoded
<1>5. Active \subseteq Saves
    BY DEF Active
<1>6. \A m \in Contents : CalmAt(m) => CalmAt(m)'
    BY <1>1, <1>2, <1>3, <1>5 DEF CalmAt
<1> QED  BY <1>1, <1>4, <1>6 DEF SyncInv, Calm

LEMMA SavingKeepsInv ==
    ASSUME SyncInv, Saving
    PROVE  SyncInv'
BY ProgressKeepsInv, ReturnKeepsInv, RelockKeepsInv DEF Saving, SaveStep

-----------------------------------------------------------------------------
LEMMA ExternalKeepsInv ==
    ASSUME SyncInv, NEW x \in Elements, External(x)
    PROVE  SyncInv'
<1>0. PICK model : model = [Decoded(file) EXCEPT !.elements = Toggled(@, x)]
    OBVIOUS
<1>1. /\ Decoded(file) # Torn /\ file' = Encoded(model) /\ event' = TRUE
      /\ wanted' = model.elements /\ hurried' = (hurried \/ ~Quiet)
      /\ UNCHANGED <<held, waiters, relocks, pc, snap, crashes, shared>>
      /\ UNCHANGED <<mem, loads, noticed, dirty, met>>
    BY <1>0 DEF External, semaphoreVars
<1>2. Decoded(file) \in Contents
    BY <1>1, EncodedFacts
<1>3. model \in Contents /\ model.id = Decoded(file).id /\ model # Decoded(file)
    BY <1>0, <1>2, ToggledIsAnother
<1>4. Encoded(model) \in Seq(Contents) /\ Decoded(Encoded(model)) = model
    BY <1>3, EncodedFacts
<1>5. SyncTyped'
    BY <1>1, <1>4 DEF SyncInv, SyncTyped, StoreTypeOK
<1>6. Active' = Active /\ \A c \in Clients : IsOpen(c)' <=> IsOpen(c)
    BY <1>1 DEF Active, IsOpen
<1>7. (Decoded(file))' = model
    BY <1>1, <1>4 DEF Decoded
<1>8. Genuine'
    <2> SUFFICES ASSUME shared = {}, crashes = 0 PROVE Genuine'
        BY <1>1 DEF Genuine, Known
    <2>1. model.id \in Known /\ model # Torn
        BY <1>1, <1>3, MarksAreNoModels DEF SyncInv, Genuine, Known
    <2>2. \A s \in Active : pc[s] # "writing"
        BY <1>1, EncodedFacts DEF SyncInv, Genuine, Known
    <2> QED  BY <1>1, <1>6, <1>7, <2>1, <2>2 DEF SyncInv, Genuine, Known
<1>9. ASSUME ~hurried'
      PROVE  \E m \in Contents : CalmAt(m)'
    <2>1. ~hurried /\ Quiet
        BY <1>1, <1>9
    <2>2. PICK m \in Contents : CalmAt(m)
        BY <2>1 DEF SyncInv, Calm
    <2>3. /\ Active = {} /\ file = Encoded(m)
          /\ noticed = {} \/ noticed = {Encoded(m)}
          /\ \A c \in Clients : loads[c] = <<>> /\ (IsOpen(c) => mem[c] = m)
        BY <2>1, <2>2, QuietFacts DEF SyncInv
    <2>4. Decoded(file) = m /\ Encoded(model) # Encoded(m)
        BY <1>3, <2>3, EncodedFacts
    <2>5. noticed' # {file'} /\ \A c \in Clients : loads'[c] = <<>>
        BY <1>1, <2>3, <2>4
    <2>6. \A c \in Clients : IsOpen(c)' => mem'[c].id = model.id
        BY <1>1, <1>3, <1>6, <2>3, <2>4
    <2>7. CalmAt(model)'
        BY <1>1, <1>6, <2>3, <2>5, <2>6 DEF CalmAt
    <2> QED  BY <1>3, <2>7
<1> QED  BY <1>5, <1>8, <1>9 DEF SyncInv, Calm

(* What is the same before and after a step that leaves the storage and the *)
(* models alone.                                                            *)
LEMMA StorageAsBefore ==
    ASSUME UNCHANGED storeVars
    PROVE  /\ file' = file /\ pc' = pc /\ snap' = snap /\ crashes' = crashes /\ shared' = shared
           /\ Active' = Active /\ Active \subseteq Saves
           /\ \A s \in Saves : Coming(s)' <=> Coming(s)
           /\ StoreTypeOK => StoreTypeOK'
           /\ (Decoded(file))' = Decoded(file)
BY DEF storeVars, semaphoreVars, Active, Coming, StoreTypeOK, Decoded

LEMMA NoticeKeepsInv ==
    ASSUME SyncInv, Notice
    PROVE  SyncInv'
<1>1. /\ event /\ event' = FALSE /\ noticed' = {file} /\ dirty' = (dirty \/ noticed # {file})
      /\ UNCHANGED <<mem, loads, wanted, hurried, met>> /\ UNCHANGED storeVars
    BY DEF Notice
<1>2. /\ file' = file /\ pc' = pc /\ snap' = snap /\ crashes' = crashes /\ shared' = shared
      /\ Active' = Active /\ Active \subseteq Saves
      /\ \A s \in Saves : Coming(s)' <=> Coming(s)
      /\ StoreTypeOK => StoreTypeOK'
      /\ (Decoded(file))' = Decoded(file)
    BY <1>1, StorageAsBefore
<1>3. \A c \in Clients : IsOpen(c)' <=> IsOpen(c)
    BY <1>1 DEF IsOpen
<1>4. SyncTyped'
    BY <1>1, <1>2 DEF SyncInv, SyncTyped
<1>5. Genuine'
    BY <1>1, <1>2, <1>3 DEF SyncInv, Genuine, Known
<1>6. ASSUME NEW m \in Contents, CalmAt(m)
      PROVE  CalmAt(m)'
    <2>1. \A s \in Active : pc[s] \notin {"exists", "truncating"}
        BY <1>1, <1>6 DEF CalmAt
    <2>2. \A s \in Active : Coming(s) => file # Encoded(m) /\ \A c \in Clients : loads[c] = <<>>
        BY <1>6 DEF CalmAt
    <2>3. \A c \in Clients : IsOpen(c) /\ mem[c] # m =>
            (\E s \in Active : Coming(s)) \/ dirty' \/ loads[c] # <<>>
        BY <1>1, <1>6 DEF CalmAt
    <2>4. /\ \A s, t \in Active : s = t
          /\ Active = {} => file = Encoded(m)
          /\ \A s \in Active :
                /\ snap[s] = m
                /\ pc[s] = "writing" => file = <<>>
                /\ pc[s] = "returning" => file = Encoded(m)
          /\ wanted = m.elements
          /\ \A c \in Clients : IsOpen(c) => mem[c].id = m.id
          /\ \A c \in Clients : \A i \in DOMAIN loads[c] : loads[c][i] \in {Asked, m}
        BY <1>6 DEF CalmAt
    <2> QED  BY <1>1, <1>2, <1>3, <2>1, <2>2, <2>3, <2>4 DEF CalmAt
<1> QED  BY <1>1, <1>4, <1>5, <1>6 DEF SyncInv, Calm

LEMMA AppendedFacts ==
    ASSUME NEW S, NEW q \in Seq(S), NEW a \in S, NEW r, r = Append(q, a)
    PROVE  /\ r \in Seq(S) /\ r # <<>>
           /\ \A i \in DOMAIN r : r[i] = a \/ (i \in DOMAIN q /\ r[i] = q[i])
<1>1. /\ r \in Seq(S) /\ r # <<>> /\ Len(r) = Len(q) + 1
      /\ r[Len(q) + 1] = a /\ \A i \in 1 .. Len(q) : r[i] = q[i]
    <2>1. r \in Seq(S) /\ Len(r) = Len(q) + 1
        OBVIOUS
    <2>2. r[Len(q) + 1] = a /\ \A i \in 1 .. Len(q) : r[i] = q[i]
        OBVIOUS
    <2>3. r # <<>>
        <3>1. Len(<<>>) = 0 /\ Len(q) \in Nat
            OBVIOUS
        <3> QED  BY <2>1, <3>1
    <2> QED  BY <2>1, <2>2, <2>3
<1>2. Len(q) \in Nat /\ DOMAIN q = 1 .. Len(q) /\ DOMAIN r = 1 .. Len(q) + 1
    BY <1>1
<1>3. \A i \in 1 .. Len(q) + 1 : i = Len(q) + 1 \/ i \in 1 .. Len(q)
    BY <1>2
<1>4. \A i \in DOMAIN r : r[i] = a \/ (i \in DOMAIN q /\ r[i] = q[i])
    <2> SUFFICES ASSUME NEW i \in DOMAIN r PROVE r[i] = a \/ (i \in DOMAIN q /\ r[i] = q[i])
        OBVIOUS
    <2>1. i = Len(q) + 1 \/ i \in 1 .. Len(q)
        BY <1>2, <1>3
    <2>2. CASE i = Len(q) + 1
        BY <1>1, <2>2
    <2>3. CASE i \in 1 .. Len(q)
        BY <1>1, <1>2, <2>3
    <2> QED  BY <2>1, <2>2, <2>3
<1> QED  BY <1>1, <1>4

LEMMA DirtyCheckKeepsInv ==
    ASSUME SyncInv, DirtyCheck
    PROVE  SyncInv'
<1>1. /\ dirty /\ dirty' = FALSE
      /\ loads' = [c \in Clients |-> IF c \in Concerned THEN Append(loads[c], Asked) ELSE loads[c]]
      /\ UNCHANGED <<mem, event, noticed, wanted, hurried, met>> /\ UNCHANGED storeVars
    BY DEF DirtyCheck
<1>2. /\ file' = file /\ pc' = pc /\ snap' = snap /\ crashes' = crashes /\ shared' = shared
      /\ Active' = Active /\ Active \subseteq Saves
      /\ \A s \in Saves : Coming(s)' <=> Coming(s)
      /\ StoreTypeOK => StoreTypeOK'
      /\ (Decoded(file))' = Decoded(file)
    BY <1>1, StorageAsBefore
<1>3. \A c \in Clients : IsOpen(c)' <=> IsOpen(c)
    BY <1>1 DEF IsOpen
<1>4. ASSUME NEW c \in Clients
      PROVE  /\ loads[c] \in Seq(Contents \union {Asked, Torn})
             /\ loads'[c] = IF c \in Concerned THEN Append(loads[c], Asked) ELSE loads[c]
             /\ loads'[c] \in Seq(Contents \union {Asked, Torn})
             /\ \A i \in DOMAIN loads'[c] :
                \/ loads'[c][i] = Asked
                \/ i \in DOMAIN loads[c] /\ loads'[c][i] = loads[c][i]
             /\ c \in Concerned => loads'[c] # <<>>
    <2>1. loads[c] \in Seq(Contents \union {Asked, Torn})
        BY DEF SyncInv, SyncTyped
    <2>2. loads'[c] = IF c \in Concerned THEN Append(loads[c], Asked) ELSE loads[c]
        BY <1>1
    <2>3. CASE c \in Concerned
        <3>1. Asked \in Contents \union {Asked, Torn}
            OBVIOUS
        <3>2. loads'[c] = Append(loads[c], Asked)
            BY <2>2, <2>3
        <3>3. PICK S : S = Contents \union {Asked, Torn}
            OBVIOUS
        <3>4. loads[c] \in Seq(S) /\ Asked \in S
            BY <2>1, <3>1, <3>3
        <3>5. PICK r : r = Append(loads[c], Asked)
            OBVIOUS
        <3>6. /\ r \in Seq(S) /\ r # <<>>
              /\ \A i \in DOMAIN r : r[i] = Asked \/ (i \in DOMAIN loads[c] /\ r[i] = loads[c][i])
            <4>1. PICK q : q = loads[c]
                OBVIOUS
            <4>2. q \in Seq(S) /\ r = Append(q, Asked)
                BY <3>4, <3>5, <4>1
            <4>3. /\ r \in Seq(S) /\ r # <<>>
                  /\ \A i \in DOMAIN r : r[i] = Asked \/ (i \in DOMAIN q /\ r[i] = q[i])
                BY <3>4, <4>2, AppendedFacts
            <4> QED  BY <4>1, <4>3, ZenonT(30)
        <3>7. loads'[c] = r
            BY <3>2, <3>5
        <3>8. r \in Seq(Contents \union {Asked, Torn})
            BY <3>3, <3>6
        <3>9. loads'[c] \in Seq(Contents \union {Asked, Torn}) /\ loads'[c] # <<>>
            BY <3>6, <3>7, <3>8, ZenonT(30)
        <3>10. \A i \in DOMAIN loads'[c] :
                \/ loads'[c][i] = Asked
                \/ i \in DOMAIN loads[c] /\ loads'[c][i] = loads[c][i]
            BY <3>6, <3>7, ZenonT(30)
        <3> QED  BY <2>1, <2>2, <3>9, <3>10, ZenonT(30)
    <2>4. CASE c \notin Concerned
        BY <2>1, <2>2, <2>4
    <2> QED  BY <2>3, <2>4
<1>5. SyncTyped'
    BY <1>1, <1>2, <1>4 DEF SyncInv, SyncTyped
<1>6. Genuine'
    BY <1>1, <1>2, <1>3 DEF SyncInv, Genuine, Known
<1>7. ASSUME NEW m \in Contents, CalmAt(m)
      PROVE  CalmAt(m)'
    <2>1. \A s \in Active : pc[s] \notin {"exists", "truncating"}
        BY <1>1, <1>7 DEF CalmAt
    <2>2. \A s \in Active : Coming(s) => Concerned = {}
        BY <1>7, <2>1, EncodedFacts DEF CalmAt, Coming, Concerned
    <2>3. \A s \in Active : Coming(s) =>
            file # Encoded(m) /\ noticed # {Encoded(m)} /\ \A c \in Clients : loads'[c] = <<>>
        BY <1>4, <1>7, <2>2 DEF CalmAt
    <2>4. (\A s \in Active : ~Coming(s)) => file = Encoded(m)
        BY <1>2, <1>7 DEF CalmAt, Coming, Active, Busy
    <2>5. \A c \in Clients : IsOpen(c) /\ mem[c] # m =>
            (\E s \in Active : Coming(s)) \/ loads'[c] # <<>>
        <3> SUFFICES ASSUME NEW c \in Clients, IsOpen(c), \A s \in Active : ~Coming(s)
                     PROVE  loads'[c] # <<>>
            OBVIOUS
        <3>1. Decoded(file) = m /\ m # Torn
            BY <2>4, EncodedFacts, MarksAreNoModels
        <3>2. c \in Concerned
            BY <1>7, <3>1 DEF CalmAt, Concerned
        <3> QED  BY <1>4, <3>2
    <2>6. \A c \in Clients : \A i \in DOMAIN loads'[c] : loads'[c][i] \in {Asked, m}
        BY <1>4, <1>7 DEF CalmAt
    <2>7. /\ \A s, t \in Active : s = t
          /\ Active = {} => file = Encoded(m)
          /\ \A s \in Active :
                /\ snap[s] = m
                /\ pc[s] = "writing" => file = <<>>
                /\ pc[s] = "returning" => file = Encoded(m)
          /\ wanted = m.elements
          /\ ~event => noticed = {} \/ noticed = {file}
          /\ \A c \in Clients : IsOpen(c) => mem[c].id = m.id
        BY <1>7 DEF CalmAt
    <2> QED  BY <1>1, <1>2, <1>3, <2>1, <2>3, <2>5, <2>6, <2>7 DEF CalmAt
<1> QED  BY <1>1, <1>5, <1>6, <1>7 DEF SyncInv, Calm

(* What is left of a session's reloads when one of them is done.            *)
LEMMA WithoutFacts ==
    ASSUME NEW S, NEW q \in Seq(S), NEW i \in DOMAIN q
    PROVE  /\ Without(q, i) \in Seq(S)
           /\ \A j \in DOMAIN Without(q, i) : \E k \in DOMAIN q : Without(q, i)[j] = q[k]
<1> SUFFICES ASSUME NEW w, w = Without(q, i)
             PROVE  w \in Seq(S) /\ \A j \in DOMAIN w : \E k \in DOMAIN q : w[j] = q[k]
    OBVIOUS
<1>1. Len(q) \in Nat /\ i \in 1 .. Len(q) /\ DOMAIN q = 1 .. Len(q)
    OBVIOUS
<1>2. PICK before, after : before = SubSeq(q, 1, i - 1) /\ after = SubSeq(q, i + 1, Len(q))
    OBVIOUS
<1>3. before \in Seq(S) /\ Len(before) = i - 1 /\ \A j \in 1 .. i - 1 : before[j] = q[j]
    BY <1>1, <1>2
<1>4. /\ after \in Seq(S) /\ Len(after) = Len(q) - i
      /\ \A j \in 1 .. Len(q) - i : after[j] = q[i + j]
    BY <1>1, <1>2
<1>5. w = before \o after
    BY <1>2 DEF Without
<1>6. /\ w \in Seq(S) /\ Len(w) = Len(before) + Len(after)
      /\ \A j \in 1 .. Len(before) + Len(after) :
            w[j] = IF j <= Len(before) THEN before[j] ELSE after[j - Len(before)]
    <2>1. before \in Seq(S) /\ after \in Seq(S)
        BY <1>3, <1>4
    <2> QED  BY <1>5, <2>1, ConcatProperties, ZenonT(30)
<1>7. DOMAIN w = 1 .. Len(q) - 1
    BY <1>1, <1>3, <1>4, <1>6
<1>8. ASSUME NEW j \in 1 .. Len(q) - 1
      PROVE  \E k \in DOMAIN q : w[j] = q[k]
    <2>1. CASE j <= i - 1
        <3>1. w[j] = q[j] /\ j \in DOMAIN q
            BY <1>1, <1>3, <1>4, <1>6, <2>1
        <3> QED  BY <3>1
    <2>2. CASE j > i - 1
        <3>1. j - (i - 1) \in 1 .. Len(q) - i /\ i + (j - (i - 1)) = j + 1 /\ j + 1 \in DOMAIN q
            BY <1>1, <2>2
        <3>2. w[j] = after[j - (i - 1)]
            BY <1>1, <1>3, <1>4, <1>6, <2>2
        <3>3. w[j] = q[j + 1]
            BY <1>4, <3>1, <3>2
        <3> QED  BY <3>1, <3>3
    <2> QED  BY <1>1, <2>1, <2>2
<1> QED  BY <1>6, <1>7, <1>8

LEMMA ReloadReadsKeepsInv ==
    ASSUME SyncInv, NEW c \in Clients, NEW i \in DOMAIN loads[c], ReloadReads(c, i)
    PROVE  SyncInv'
<1>1. /\ loads' = [loads EXCEPT ![c][i] = Decoded(file)]
      /\ UNCHANGED <<mem, event, noticed, dirty, wanted, hurried, met>> /\ UNCHANGED storeVars
    BY DEF ReloadReads, watchVars, auxVars
<1>2. /\ file' = file /\ pc' = pc /\ snap' = snap /\ crashes' = crashes /\ shared' = shared
      /\ Active' = Active /\ Active \subseteq Saves
      /\ \A s \in Saves : Coming(s)' <=> Coming(s)
      /\ StoreTypeOK => StoreTypeOK'
      /\ (Decoded(file))' = Decoded(file)
    BY <1>1, StorageAsBefore
<1>3. \A d \in Clients : IsOpen(d)' <=> IsOpen(d)
    BY <1>1 DEF IsOpen
<1>4. loads \in [Clients -> Seq(Contents \union {Asked, Torn})]
    BY DEF SyncInv, SyncTyped
<1>5. loads[c] \in Seq(Contents \union {Asked, Torn}) /\ Decoded(file) \in Contents \union {Torn}
    BY <1>4, EncodedFacts
<1>6. /\ [loads[c] EXCEPT ![i] = Decoded(file)] \in Seq(Contents \union {Asked, Torn})
      /\ DOMAIN [loads[c] EXCEPT ![i] = Decoded(file)] = DOMAIN loads[c]
      /\ \A j \in DOMAIN loads[c] : [loads[c] EXCEPT ![i] = Decoded(file)][j] = IF j = i THEN Decoded(file) ELSE loads[c][j]
    BY <1>5
<1>7. \A d \in Clients : loads'[d] = IF d = c THEN [loads[c] EXCEPT ![i] = Decoded(file)] ELSE loads[d]
    BY <1>1, <1>4
<1>8. DOMAIN loads[c] # {}
    OBVIOUS
<1>9. loads[c] # <<>> /\ loads'[c] # <<>>
    BY <1>6, <1>7, <1>8
<1>10. loads' \in [Clients -> Seq(Contents \union {Asked, Torn})]
    BY <1>1, <1>4, <1>6, <1>7
<1>11. SyncTyped'
    BY <1>1, <1>2, <1>10 DEF SyncInv, SyncTyped
<1>12. Genuine'
    BY <1>1, <1>2, <1>3 DEF SyncInv, Genuine, Known
<1>13. ASSUME NEW m \in Contents, CalmAt(m)
       PROVE  CalmAt(m)'
    <2>1. \A s \in Active : ~Coming(s)
        BY <1>9, <1>13 DEF CalmAt
    <2>2. file = Encoded(m)
        BY <1>2, <1>13, <2>1 DEF CalmAt, Coming, Active, Busy
    <2>3. Decoded(file) = m
        BY <2>2, EncodedFacts
    <2>4. \A d \in Clients : \A j \in DOMAIN loads'[d] : loads'[d][j] \in {Asked, m}
        BY <1>6, <1>7, <1>13, <2>3 DEF CalmAt
    <2>5. \A d \in Clients : IsOpen(d) /\ mem[d] # m =>
            (event /\ noticed # {file}) \/ dirty \/ loads'[d] # <<>>
        BY <1>7, <1>9, <1>13, <2>1 DEF CalmAt
    <2>6. /\ \A s, t \in Active : s = t
          /\ \A s \in Active :
                /\ snap[s] = m
                /\ pc[s] \in {"exists", "truncating"} => ~event /\ ~dirty
                /\ pc[s] = "writing" => file = <<>>
                /\ pc[s] = "returning" => file = Encoded(m)
          /\ wanted = m.elements
          /\ ~event => noticed = {} \/ noticed = {file}
          /\ \A d \in Clients : IsOpen(d) => mem[d].id = m.id
        BY <1>13 DEF CalmAt
    <2> QED  BY <1>1, <1>2, <1>3, <2>1, <2>2, <2>4, <2>5, <2>6 DEF CalmAt
<1> QED  BY <1>1, <1>11, <1>12, <1>13 DEF SyncInv, Calm

LEMMA ReloadInstallsKeepsInv ==
    ASSUME SyncInv, NEW c \in Clients, NEW i \in DOMAIN loads[c], ReloadInstalls(c, i)
    PROVE  SyncInv'
<1>0. PICK got : got = loads[c][i]
    OBVIOUS
<1> DEFINE same == got # Torn /\ IsOpen(c) /\ got.id = mem[c].id
<1>1. /\ got # Asked
      /\ mem' = IF same THEN [mem EXCEPT ![c] = got] ELSE mem
      /\ loads' = [loads EXCEPT ![c] = Without(@, i)]
      /\ UNCHANGED <<event, noticed, dirty, wanted, hurried, met>> /\ UNCHANGED storeVars
    BY <1>0 DEF ReloadInstalls, watchVars, auxVars
<1>2. /\ file' = file /\ pc' = pc /\ snap' = snap /\ crashes' = crashes /\ shared' = shared
      /\ Active' = Active /\ Active \subseteq Saves
      /\ \A s \in Saves : Coming(s)' <=> Coming(s)
      /\ StoreTypeOK => StoreTypeOK'
      /\ (Decoded(file))' = Decoded(file)
    BY <1>1, StorageAsBefore
<1>3. /\ loads \in [Clients -> Seq(Contents \union {Asked, Torn})]
      /\ mem \in [Clients -> Contents \union {Closed, Opening}]
    BY DEF SyncInv, SyncTyped
<1>4. loads[c] \in Seq(Contents \union {Asked, Torn})
    BY <1>3
<1>5. got \in Contents \union {Torn}
    BY <1>0, <1>1, <1>4
<1>6. /\ Without(loads[c], i) \in Seq(Contents \union {Asked, Torn})
      /\ \A j \in DOMAIN Without(loads[c], i) :
            \E k \in DOMAIN loads[c] : Without(loads[c], i)[j] = loads[c][k]
    BY <1>4, WithoutFacts
<1>7. \A d \in Clients : loads'[d] = IF d = c THEN Without(loads[c], i) ELSE loads[d]
    BY <1>1, <1>3
<1>8. \A d \in Clients : mem'[d] = IF d = c /\ same THEN got ELSE mem[d]
    BY <1>1, <1>3
<1>9. \A d \in Clients : (IsOpen(d)' <=> IsOpen(d)) /\ (IsOpen(d) => mem'[d].id = mem[d].id)
    BY <1>5, <1>8 DEF IsOpen
<1>10. mem' \in [Clients -> Contents \union {Closed, Opening}]
    BY <1>1, <1>3, <1>5
<1>11. loads' \in [Clients -> Seq(Contents \union {Asked, Torn})]
    BY <1>1, <1>3, <1>6
<1>12. SyncTyped'
    BY <1>1, <1>2, <1>10, <1>11 DEF SyncInv, SyncTyped
<1>13. Genuine'
    BY <1>1, <1>2, <1>9 DEF SyncInv, Genuine, Known
<1>14. ASSUME NEW m \in Contents, CalmAt(m)
       PROVE  CalmAt(m)'
    <2>1. got = m /\ m # Torn
        BY <1>0, <1>1, <1>14, MarksAreNoModels DEF CalmAt
    <2>2. DOMAIN loads[c] # {}
        OBVIOUS
    <2>3. loads[c] # <<>>
        BY <2>2
    <2>4. \A s \in Active : ~Coming(s)
        BY <1>14, <2>3 DEF CalmAt
    <2>5. \A d \in Clients : \A j \in DOMAIN loads'[d] : loads'[d][j] \in {Asked, m}
        BY <1>6, <1>7, <1>14 DEF CalmAt
    <2>6. IsOpen(c) => mem'[c] = m
        BY <1>8, <1>14, <2>1 DEF CalmAt
    <2>7. \A d \in Clients : IsOpen(d)' /\ mem'[d] # m =>
            (event /\ noticed # {file}) \/ dirty \/ loads'[d] # <<>>
        BY <1>7, <1>8, <1>9, <1>14, <2>4, <2>6 DEF CalmAt
    <2>8. \A d \in Clients : IsOpen(d)' => mem'[d].id = m.id
        BY <1>9, <1>14 DEF CalmAt
    <2>9. /\ \A s, t \in Active : s = t
          /\ Active = {} => file = Encoded(m)
          /\ \A s \in Active :
                /\ snap[s] = m
                /\ pc[s] \in {"exists", "truncating"} => ~event /\ ~dirty
                /\ pc[s] = "writing" => file = <<>>
                /\ pc[s] = "returning" => file = Encoded(m)
          /\ wanted = m.elements
          /\ ~event => noticed = {} \/ noticed = {file}
        BY <1>14 DEF CalmAt
    <2> QED  BY <1>1, <1>2, <2>4, <2>5, <2>7, <2>8, <2>9 DEF CalmAt
<1> QED  BY <1>1, <1>12, <1>13, <1>14 DEF SyncInv, Calm

LEMMA CrashKeepsInv ==
    ASSUME SyncInv, Crash
    PROVE  SyncInv'
<1>1. /\ StoreCrash
      /\ mem' = [c \in Clients |-> Closed] /\ loads' = [c \in Clients |-> <<>>]
      /\ event' = FALSE /\ noticed' = {} /\ dirty' = FALSE
      /\ hurried' = (hurried \/ Active # {}) /\ wanted' = wanted /\ met' = met
    BY DEF Crash
<1>2. StoreTypeOK'
    <2>1. [StoreNext]_storeVars
        BY <1>1 DEF StoreNext
    <2> QED  BY <2>1, NextStoreType DEF SyncInv, SyncTyped
<1>3. file' = file /\ crashes' # 0
    BY <1>1 DEF StoreCrash, SyncInv, SyncTyped, StoreTypeOK
<1>4. Active' = {}
    BY <1>1 DEF StoreCrash, Active, Busy, SyncInv, SyncTyped, StoreTypeOK
<1>5. \A c \in Clients : ~IsOpen(c)' /\ loads'[c] = <<>>
    BY <1>1, MarksAreNoModels DEF IsOpen
<1>6. SyncTyped'
    <2>1. <<>> \in Seq(Contents \union {Asked, Torn})
        OBVIOUS
    <2>2. loads' \in [Clients -> Seq(Contents \union {Asked, Torn})]
        BY <1>1, <2>1
    <2> QED  BY <1>1, <1>2, <2>2 DEF SyncTyped
<1>7. Genuine'
    BY <1>3 DEF Genuine, Known
<1>8. ASSUME NEW m \in Contents, CalmAt(m), Active = {}
      PROVE  CalmAt(m)'
    <2>1. file' = Encoded(m) /\ wanted' = m.elements
        BY <1>1, <1>3, <1>8 DEF CalmAt
    <2> QED  BY <1>1, <1>4, <1>5, <2>1 DEF CalmAt
<1> QED  BY <1>1, <1>6, <1>7, <1>8 DEF SyncInv, Calm

LEMMA StutterKeepsInv ==
    ASSUME SyncInv, UNCHANGED syncVars
    PROVE  SyncInv'
<1>1. UNCHANGED storeVars /\ UNCHANGED <<mem, loads, event, noticed, dirty, wanted, hurried, met>>
    BY DEF syncVars, watchVars, auxVars
<1>2. /\ file' = file /\ pc' = pc /\ snap' = snap /\ crashes' = crashes /\ shared' = shared
      /\ Active' = Active /\ Active \subseteq Saves
      /\ \A s \in Saves : Coming(s)' <=> Coming(s)
      /\ StoreTypeOK => StoreTypeOK'
      /\ (Decoded(file))' = Decoded(file)
    BY <1>1, StorageAsBefore
<1>3. \A c \in Clients : IsOpen(c)' <=> IsOpen(c)
    BY <1>1 DEF IsOpen
<1>4. SyncTyped'
    BY <1>1, <1>2 DEF SyncInv, SyncTyped
<1>5. Genuine'
    BY <1>1, <1>2, <1>3 DEF SyncInv, Genuine, Known
<1>6. \A m \in Contents : CalmAt(m) => CalmAt(m)'
    BY <1>1, <1>2, <1>3 DEF CalmAt
<1> QED  BY <1>1, <1>4, <1>5, <1>6 DEF SyncInv, Calm

-----------------------------------------------------------------------------
(* What was found by steps that find nothing: the storage goes on, unless   *)
(* nobody was hurried.                                                      *)
LEMMA FoundStays ==
    ASSUME FoundInv, found' = found, met' = met,
           \A c \in Clients : mem[c] = Opening => mem'[c] = Opening,
           shared' = {} => shared = {}, crashes' = 0 => crashes = 0,
           hurried => hurried',
           ~hurried' => \/ \A c \in Clients : mem[c] # Opening
                        \/ Active' \subseteq Active /\ (Active = {} => file' = file)
    PROVE  FoundInv'
<1>1. FoundTyped'
    BY DEF FoundInv, FoundTyped
<1>2. FoundGenuine'
    BY DEF FoundInv, FoundGenuine, Known
<1>3. ASSUME ~hurried', NEW c \in Clients, found[c] # Asked
      PROVE  Active' = {} /\ found[c] = Decoded(file')
    <2>1. mem[c] = Opening
        BY <1>3 DEF FoundInv, FoundTyped
    <2>2. Active = {} /\ found[c] = Decoded(file)
        BY <1>3 DEF FoundInv, FoundFresh
    <2>3. Active' = {} /\ file' = file
        BY <1>3, <2>1, <2>2
    <2> QED  BY <2>2, <2>3
<1>4. (Decoded(file))' = Decoded(file')
    BY DEF Decoded
<1>5. FoundFresh'
    BY <1>3, <1>4 DEF FoundFresh
<1> QED  BY <1>1, <1>2, <1>5 DEF FoundInv

(* The opening session reads, and is done with what it has read.            *)
LEMMA LoadingKeepsFound ==
    ASSUME SyncInv, FoundInv, NEW c \in Clients, Loading(c)
    PROVE  FoundInv'
<1>0. /\ found \in [Clients -> Contents \union {Asked, Torn}]
      /\ mem \in [Clients -> Contents \union {Closed, Opening}]
    BY DEF FoundInv, FoundTyped, SyncInv, SyncTyped
<1>1. CASE ModelRead(c)
    <2>1. PICK got : got = Decoded(file)
        OBVIOUS
    <2>2. got \in Contents \union {Torn}
        BY <2>1, EncodedFacts
    <2>3. /\ mem[c] = Opening /\ mem' = mem
          /\ found' = [found EXCEPT ![c] = got]
          /\ hurried' = (hurried \/ Active # {})
          /\ met' = IF Active # {} /\ got = Torn THEN met \union {c} ELSE met
          /\ file' = file /\ pc' = pc /\ shared' = shared /\ crashes' = crashes
        BY <1>1, <2>1 DEF ModelRead, storeVars
    <2>4. \A d \in Clients : found'[d] = IF d = c THEN got ELSE found[d]
        BY <1>0, <2>3
    <2>5. Active' = Active /\ (Decoded(file))' = got
        BY <2>1, <2>3 DEF Active, Decoded
    <2>6. FoundTyped'
        BY <1>0, <2>2, <2>3, <2>4 DEF FoundInv, FoundTyped
    <2>7. FoundGenuine'
        <3> SUFFICES ASSUME shared = {}, crashes = 0 PROVE FoundGenuine'
            BY <2>3 DEF FoundGenuine
        <3>1. got = Torn => c \in met'
            BY <2>1, <2>3 DEF SyncInv, Genuine
        <3>2. got # Torn => got.id \in Known
            BY <2>1 DEF SyncInv, Genuine
        <3>3. Known \subseteq Known'
            BY <2>3 DEF Known
        <3> QED  BY <2>2, <2>3, <2>4, <3>1, <3>2, <3>3, MarksAreNoModels DEF FoundInv, FoundGenuine
    <2>8. FoundFresh'
        BY <2>1, <2>3, <2>4, <2>5 DEF FoundInv, FoundFresh
    <2> QED  BY <2>6, <2>7, <2>8 DEF FoundInv
<1>2. CASE ModelLoaded(c) \/ \E s \in Saves : ModelCreated(c, s)
    <2>1. /\ mem[c] = Opening
          /\ found' = [found EXCEPT ![c] = Asked]
          /\ \A d \in Clients : d # c => mem'[d] = mem[d]
          /\ met' = met /\ file' = file /\ crashes' = crashes
        BY <1>0, <1>2 DEF ModelLoaded, ModelCreated, BeginSave, storeVars, auxVars
    <2>2. \A d \in Clients : found'[d] = IF d = c THEN Asked ELSE found[d]
        BY <1>0, <2>1
    <2>3. hurried' \/ (hurried' = hurried /\ Active' = Active)
        BY <1>2 DEF ModelLoaded, ModelCreated, storeVars, auxVars, Active
    <2>4. shared' = {} => shared = {}
        BY <1>2 DEF ModelLoaded, ModelCreated, BeginSave, storeVars
    <2>5. FoundTyped'
        BY <1>0, <2>1, <2>2 DEF FoundInv, FoundTyped
    <2>6. FoundGenuine'
        BY <2>1, <2>2, <2>4, MarksAreNoModels, SyncAssumption DEF FoundInv, FoundGenuine, Known
    <2>7. FoundFresh'
        BY <2>1, <2>2, <2>3 DEF FoundInv, FoundFresh, Decoded
    <2> QED  BY <2>5, <2>6, <2>7 DEF FoundInv
<1> QED  BY <1>1, <1>2 DEF Loading

LEMMA FoundStepInv ==
    ASSUME SyncInv, FoundInv, [SyncNext]_syncVars
    PROVE  FoundInv'
<1>1. CASE \E c \in Clients : Loading(c)
    BY <1>1, LoadingKeepsFound
<1>2. CASE Saving
    <2>1. /\ found' = found /\ met' = met /\ mem' = mem /\ hurried' = hurried
        BY <1>2 DEF Saving, auxVars
    <2>2. shared' = shared /\ crashes' = crashes
        BY <1>2, SavingFacts
    <2>3. Active' \subseteq Active /\ (Active = {} => file' = file)
        BY <1>2 DEF Saving, Relock, SaveStep, ExistsKnown, Truncate, WriteBlocks, ReturnFromWrite,
                    Active, Busy, SyncInv, SyncTyped, StoreTypeOK
    <2> QED  BY <2>1, <2>2, <2>3, FoundStays
<1>3. CASE Notice \/ DirtyCheck \/ UNCHANGED syncVars
    <2>1. /\ found' = found /\ met' = met /\ mem' = mem /\ hurried' = hurried
          /\ UNCHANGED storeVars
        BY <1>3 DEF Notice, DirtyCheck, syncVars, auxVars
    <2> QED  BY <2>1, StorageAsBefore, FoundStays
<1>4. ASSUME NEW c \in Clients, Reloading(c)
      PROVE  FoundInv'
    <2>1. PICK i \in DOMAIN loads[c] : ReloadReads(c, i) \/ ReloadInstalls(c, i)
        BY <1>4 DEF Reloading
    <2>2. /\ found' = found /\ met' = met /\ hurried' = hurried
          /\ UNCHANGED storeVars
        BY <2>1 DEF ReloadReads, ReloadInstalls, auxVars
    <2>3. \A d \in Clients : mem[d] = Opening => mem'[d] = Opening
        BY <2>1, MarksAreNoModels DEF ReloadReads, ReloadInstalls, IsOpen, SyncInv, SyncTyped
    <2> QED  BY <2>2, <2>3, StorageAsBefore, FoundStays
<1>5. CASE \E x \in Elements : External(x)
    <2>1. /\ found' = found /\ met' = met /\ mem' = mem /\ hurried' = (hurried \/ ~Quiet)
          /\ shared' = shared /\ crashes' = crashes
        BY <1>5 DEF External
    <2> QED  BY <2>1, FoundStays DEF Quiet
<1>6. ASSUME NEW c \in Clients, NEW x \in Elements, NEW s \in Saves, Edit(c, x, s)
      PROVE  FoundInv'
    <2>1. /\ found' = found /\ met' = met /\ hurried' = (hurried \/ ~Quiet)
          /\ crashes' = crashes /\ (shared' = {} => shared = {})
        BY <1>6 DEF Edit, BeginSave
    <2>2. \A d \in Clients : mem[d] = Opening => mem'[d] = Opening
        BY <1>6, MarksAreNoModels DEF Edit, IsOpen, SyncInv, SyncTyped
    <2> QED  BY <2>1, <2>2, FoundStays DEF Quiet
<1>7. ASSUME NEW c \in Clients, RequestModel(c)
      PROVE  FoundInv'
    <2>1. /\ found' = found /\ met' = met /\ hurried' = hurried
          /\ UNCHANGED storeVars
          /\ \A d \in Clients : mem[d] = Opening => mem'[d] = Opening
        BY <1>7 DEF RequestModel, auxVars, SyncInv, SyncTyped
    <2> QED  BY <2>1, StorageAsBefore, FoundStays
<1>8. CASE Crash
    <2>1. /\ \A c \in Clients : found'[c] = Asked
          /\ found' = [c \in Clients |-> Asked]
        BY <1>8 DEF Crash
    <2> QED  BY <2>1, MarksAreNoModels, SyncAssumption
             DEF FoundInv, FoundTyped, FoundGenuine, FoundFresh
<1> QED  BY <1>1, <1>2, <1>3, <1>4, <1>5, <1>6, <1>7, <1>8 DEF SyncNext, ServerStep

LEMMA SyncStepInv == SyncInv /\ FoundInv /\ [SyncNext]_syncVars => SyncInv' /\ FoundInv'
<1> SUFFICES ASSUME SyncInv, FoundInv, [SyncNext]_syncVars PROVE SyncInv'
    BY FoundStepInv
<1>1. ASSUME NEW c \in Clients, Loading(c) PROVE SyncInv'
    BY <1>1, ModelReadKeepsInv, ModelLoadedKeepsInv, ModelCreatedKeepsInv DEF Loading
<1>2. ASSUME NEW c \in Clients, Reloading(c) PROVE SyncInv'
    BY <1>2, ReloadReadsKeepsInv, ReloadInstallsKeepsInv DEF Reloading
<1>3. CASE ServerStep
    BY <1>1, <1>2, <1>3, SavingKeepsInv, NoticeKeepsInv, DirtyCheckKeepsInv DEF ServerStep
<1>4. CASE \E x \in Elements : External(x)
    BY <1>4, ExternalKeepsInv
<1>5. CASE \E c \in Clients : (\E x \in Elements, s \in Saves : Edit(c, x, s)) \/ RequestModel(c)
    BY <1>5, EditKeepsInv, RequestModelKeepsInv
<1> QED  BY <1>3, <1>4, <1>5, CrashKeepsInv, StutterKeepsInv DEF SyncNext

LEMMA FoundInitInv == SyncInit => FoundInv
BY MarksAreNoModels, SyncAssumption DEF SyncInit, FoundInv, FoundTyped, FoundGenuine, FoundFresh

-----------------------------------------------------------------------------
(* As long as saves do not overlap and the process lives on, another model  *)
(* comes into the file, or into a session, only by a session that opened    *)
(* the file in the middle of a save, however late it saves what it made up: *)
(* reloads that read half-written files never do it.                        *)
THEOREM ReplacedInTroubleOnly == SyncSpec => []ModelIsReplacedInTroubleOnly
<1>1. SyncInv => ModelIsReplacedInTroubleOnly
    BY DEF SyncInv, Genuine, Known, ModelIsReplacedInTroubleOnly
<1> QED  BY <1>1, SyncInitInv, FoundInitInv, SyncStepInv, PTL DEF SyncSpec

(* Operations that wait until the one before has been saved, noticed and    *)
(* reloaded by everybody are all in the file, and every session has seen    *)
(* them: the watchers and reloads, which nobody orders, lose none.          *)
THEOREM CalmEditsAreKept == SyncSpec => []CalmEditsSurvive
<1>1. SyncInv => CalmEditsSurvive
    <2> SUFFICES ASSUME SyncInv, Quiet, ~hurried
                 PROVE  /\ Decoded(file) # Torn
                        /\ Decoded(file).elements = wanted
                        /\ \A c \in Clients : IsOpen(c) => mem[c] = Decoded(file)
        BY DEF CalmEditsSurvive
    <2>1. PICK m \in Contents : CalmAt(m)
        BY DEF SyncInv, Calm
    <2>2. /\ file = Encoded(m) /\ wanted = m.elements
          /\ \A c \in Clients : IsOpen(c) => mem[c] = m
        BY <2>1, QuietFacts DEF SyncInv
    <2>3. Decoded(file) = m
        BY <2>2, EncodedFacts
    <2> QED  BY <2>2, <2>3, MarksAreNoModels
<1> QED  BY <1>1, SyncInitInv, FoundInitInv, SyncStepInv, PTL DEF SyncSpec
================================================================================
