------------------------------ MODULE FileStore ------------------------------
(***************************************************************************)
(* Saving a model file: GraphModelStorage.saveSourceModel, the entry of    *)
(* RW_LOCK_MAP for the file, and writeFile.                                *)
(*                                                                         *)
(* serializeModelFile calls lockSemaphore without awaiting it, so no save  *)
(* ever waits.  A call that finds an entry only leaves a resolver there;   *)
(* once woken it calls lockSemaphore again, for nobody: a `relock'.  The   *)
(* callback of a file write runs with an empty microtask queue, and its    *)
(* continuations up to unlockSemaphore are the only ones then, so they are *)
(* one step; other saves may begin between the relocks.                    *)
(*                                                                         *)
(* The file is a sequence of blocks, each naming the content it is of:     *)
(* fs.writeFile truncates the file and writes from its beginning, so of    *)
(* two overlapping writes the shorter leaves the tail of the longer one.   *)
(***************************************************************************)
EXTENDS Naturals, Sequences, FiniteSets

CONSTANTS
    Saves,          \* calls of saveSourceModel for the file, each made once
    Contents,       \* models a file can hold, as they are encoded
    Torn,           \* what a reader gets from anything else
    Size,           \* the length of an encoded model, in blocks
    MaxCrashes      \* how often the server process may end

ASSUME StoreAssumption ==
    /\ IsFiniteSet(Saves)
    /\ Contents # {}
    /\ Torn \notin Contents
    /\ Size \in [Contents -> Nat \ {0}]
    /\ MaxCrashes \in Nat

VARIABLES
    file,           \* the blocks of the file
    held,           \* RW_LOCK_MAP has an entry for the file
    waiters,        \* how many resolvers the entry stores
    relocks,        \* woken calls of lockSemaphore that are about to run
    pc,             \* how far each save got
    snap,           \* the model each save was called with
    crashes,        \* how often the process ended
    shared          \* auxiliary: saves that overlapped with another one

semaphoreVars == <<held, waiters, relocks>>
storeVars == <<file, held, waiters, relocks, pc, snap, crashes, shared>>

Busy == {"exists", "truncating", "writing", "returning"}
Phase == Busy \union {"idle", "saved", "lost", "stuck"}

StoreTypeOK ==
    /\ file \in Seq(Contents)
    /\ held \in BOOLEAN
    /\ waiters \in Nat
    /\ relocks \in Nat
    /\ pc \in [Saves -> Phase]
    /\ snap \in [Saves -> Contents]
    /\ crashes \in 0 .. MaxCrashes
    /\ shared \subseteq Saves

Active == {s \in Saves : pc[s] \in Busy}

Encoded(c) == [i \in 1 .. Size[c] |-> c]

(* What loadFromFile makes of the blocks.                                   *)
Decoded(blocks) ==
    IF \E c \in Contents : blocks = Encoded(c)
    THEN CHOOSE c \in Contents : blocks = Encoded(c)
    ELSE Torn

(* Encoded content written over what is there, from the first block on.     *)
Overwritten(blocks, c) ==
    [i \in 1 .. (IF Len(blocks) > Size[c] THEN Len(blocks) ELSE Size[c]) |->
        IF i <= Size[c] THEN c ELSE blocks[i]]

StoreInit ==
    /\ file \in {Encoded(c) : c \in Contents}
    /\ held = FALSE
    /\ waiters = 0
    /\ relocks = 0
    /\ pc = [s \in Saves |-> "idle"]
    /\ snap \in {[s \in Saves |-> c] : c \in Contents}
    /\ crashes = 0
    /\ shared = {}

-----------------------------------------------------------------------------
(* The synchronous part of lockSemaphore.                                   *)
lockSemaphore ==
    /\ held' = TRUE
    /\ waiters' = IF held THEN waiters + 1 ELSE 0

(* saveSourceModel up to the first await of writeFile.                      *)
BeginSave(s, c) ==
    /\ pc[s] = "idle"
    /\ lockSemaphore
    /\ pc' = [pc EXCEPT ![s] = "exists"]
    /\ snap' = [snap EXCEPT ![s] = c]
    /\ shared' = IF Active = {} THEN shared ELSE shared \union Active \union {s}
    /\ UNCHANGED <<file, relocks, crashes>>

(* The language's CAN_SAVE hook says no.                                    *)
SaveVetoed(s) ==
    /\ pc[s] = "idle"
    /\ pc' = [pc EXCEPT ![s] = "lost"]
    /\ UNCHANGED <<file, semaphoreVars, snap, crashes, shared>>

(* The language's codec throws: the semaphore is taken and given back in    *)
(* one turn, and every resolver, this call's own included, is woken.        *)
EncodeThrows(s) ==
    /\ pc[s] = "idle"
    /\ pc' = [pc EXCEPT ![s] = "lost"]
    /\ held' = FALSE
    /\ waiters' = 0
    /\ relocks' = IF held THEN relocks + waiters + 1 ELSE relocks
    /\ UNCHANGED <<file, snap, crashes, shared>>

(* Mutant: a call of lockSemaphore runs once more than it was woken.        *)
RelockTwice ==
    /\ relocks > 0
    /\ lockSemaphore
    /\ relocks' = relocks - 2
    /\ UNCHANGED <<file, pc, snap, crashes, shared>>

(* A woken call of lockSemaphore calls it again.                            *)
Relock ==
    /\ relocks > 0
    /\ lockSemaphore
    /\ relocks' = relocks - 1
    /\ UNCHANGED <<file, pc, snap, crashes, shared>>

(* writeFile learned whether the file exists; it overwrites it either way.  *)
ExistsKnown(s) ==
    /\ pc[s] = "exists"
    /\ relocks = 0
    /\ pc' = [pc EXCEPT ![s] = "truncating"]
    /\ UNCHANGED <<file, semaphoreVars, snap, crashes, shared>>

(* Mutant: the file is opened for update and keeps its blocks.              *)
OpenInPlace(s) ==
    /\ pc[s] = "truncating"
    /\ pc' = [pc EXCEPT ![s] = "writing"]
    /\ UNCHANGED <<file, semaphoreVars, snap, crashes, shared>>

(* fs.writeFile opens the file and thereby truncates it.                    *)
Truncate(s) ==
    /\ pc[s] = "truncating"
    /\ file' = <<>>
    /\ pc' = [pc EXCEPT ![s] = "writing"]
    /\ UNCHANGED <<semaphoreVars, snap, crashes, shared>>

WriteBlocks(s) ==
    /\ pc[s] = "writing"
    /\ file' = Overwritten(file, snap[s])
    /\ pc' = [pc EXCEPT ![s] = "returning"]
    /\ UNCHANGED <<semaphoreVars, snap, crashes, shared>>

(* The file cannot be opened or written: writeFile throws inside a          *)
(* callback, its promise is never settled and the semaphore never given     *)
(* back.                                                                    *)
WriteFails(s) ==
    /\ pc[s] \in {"truncating", "writing"}
    /\ pc' = [pc EXCEPT ![s] = "stuck"]
    /\ UNCHANGED <<file, semaphoreVars, snap, crashes, shared>>

(* Mutant: unlockSemaphore wakes one resolver and drops the others.         *)
ReturnWakesOne(s) ==
    /\ pc[s] = "returning"
    /\ relocks = 0
    /\ held' = FALSE
    /\ waiters' = 0
    /\ relocks' = IF waiters > 0 THEN 1 ELSE 0
    /\ pc' = [pc EXCEPT ![s] = IF held THEN "saved" ELSE "lost"]
    /\ UNCHANGED <<file, snap, crashes, shared>>

(* The callback of fs.writeFile, and serializeModelFile after its await:    *)
(* unlockSemaphore deletes the entry and wakes all resolvers; without an    *)
(* entry it throws 'No lock to unlock for', which saveSourceModel logs.     *)
ReturnFromWrite(s) ==
    /\ pc[s] = "returning"
    /\ relocks = 0
    /\ held' = FALSE
    /\ waiters' = 0
    /\ relocks' = waiters
    /\ pc' = [pc EXCEPT ![s] = IF held THEN "saved" ELSE "lost"]
    /\ UNCHANGED <<file, snap, crashes, shared>>

(* The process ends: the static map goes, the file stays as it is.          *)
StoreCrash ==
    /\ crashes < MaxCrashes
    /\ crashes' = crashes + 1
    /\ held' = FALSE
    /\ waiters' = 0
    /\ relocks' = 0
    /\ pc' = [s \in Saves |-> IF pc[s] \in Busy \union {"stuck"} THEN "lost" ELSE pc[s]]
    /\ UNCHANGED <<file, snap, shared>>

SaveStep(s) ==
    \/ ExistsKnown(s)
    \/ Truncate(s)
    \/ WriteBlocks(s)
    \/ ReturnFromWrite(s)

StoreNext ==
    \/ Relock
    \/ StoreCrash
    \/ \E s \in Saves :
        \/ \E c \in Contents : BeginSave(s, c)
        \/ SaveVetoed(s)
        \/ EncodeThrows(s)
        \/ SaveStep(s)
        \/ WriteFails(s)

(* The event loop drains its microtasks; the file system answers.           *)
StoreFairness == WF_storeVars(Relock) /\ \A s \in Saves : WF_storeVars(SaveStep(s))

StoreSpec == StoreInit /\ [][StoreNext]_storeVars /\ StoreFairness

-----------------------------------------------------------------------------
(* The entry, the resolvers in it and the relocks on their way are together *)
(* as many as the calls of lockSemaphore that were not given back: the      *)
(* missing await neither loses nor invents one.                             *)
SemaphoreBalance ==
    (IF held THEN 1 ELSE 0) + waiters + relocks
        = Cardinality({s \in Saves : pc[s] \in Busy \union {"stuck"}})

(* 'No lock to unlock for' is never thrown, although a save does not wait   *)
(* for the entry it gives back and it is often another save's entry.        *)
UnlockFindsEntry ==
    \A s \in Saves : pc[s] = "returning" /\ relocks = 0 => held

(* The storage implements a file that several writers overwrite: what the   *)
(* semaphore adds to it is nothing, and what it promises without one, that  *)
(* a save alone leaves its model and that every save ends, is kept through  *)
(* failing codecs, failing writes and crashes.                              *)
Outcome(s) ==
    CASE pc[s] \in Busy -> "writing"
      [] pc[s] = "saved" -> "saved"
      [] pc[s] = "idle" -> "idle"
      [] OTHER -> "lost"

Plain == INSTANCE PlainFile WITH
    text <- Decoded(file),
    outcome <- [s \in Saves |-> Outcome(s)],
    given <- snap,
    overlapped <- shared

ImplementsPlainFile == Plain!PlainSpec
=============================================================================
