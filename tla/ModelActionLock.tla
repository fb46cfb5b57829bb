--------------------------- MODULE ModelActionLock ---------------------------
(***************************************************************************)
(* The per-model lock of the server's operation handlers: the entry of the *)
(* static map MODEL_ACTION_LOCK for one graph model, and the operations    *)
(* (ChangeBounds, ChangeContainer) that run under it.                      *)
(*                                                                         *)
(* A JavaScript server is one thread: what interleaves are the             *)
(* continuations of awaited promises.  They run one at a time from the     *)
(* FIFO microtask queue `jobs', and a file-system callback runs only when  *)
(* that queue is empty.  A continuation is a pair <<kind, op>>:            *)
(*   "resume"  the await of lockModelActions that the operation waits on,  *)
(*   "ghost"   the await of a nested lockModelActions nobody waits on,     *)
(*   "body"    the operation after its lock was granted,                   *)
(*   "unlock"  the operation after its last await.                         *)
(***************************************************************************)
EXTENDS Naturals, Sequences, FiniteSets, SequencesExt

CONSTANT Ops        \* the operations sent for the model, each sent once

ASSUME OpsAreFinite == IsFiniteSet(Ops)

VARIABLES
    held,           \* MODEL_ACTION_LOCK has an entry for the model
    waiters,        \* the resolvers stored in that entry, oldest first
    jobs,           \* the microtask queue
    pc              \* how far each operation got

lockVars == <<held, waiters, jobs, pc>>

Continuation == {"resume", "ghost", "body", "unlock"} \X Ops

Phase == {"idle", "waiting", "entering", "saving", "leaving", "stuck", "done", "threw"}

TypeOK ==
    /\ held \in BOOLEAN
    /\ waiters \in Seq(Continuation)
    /\ jobs \in Seq(Continuation)
    /\ pc \in [Ops -> Phase]

LockInit ==
    /\ held = FALSE
    /\ waiters = <<>>
    /\ jobs = <<>>
    /\ pc = [p \in Ops |-> "idle"]

-----------------------------------------------------------------------------
(* The synchronous part of lockModelActions: without an entry it is created *)
(* empty and the call returns, otherwise the resolver of continuation c is  *)
(* stored in the entry and the call is suspended.                           *)
lockModelActions(c) ==
    /\ held' = TRUE
    /\ waiters' = IF held THEN Append(waiters, c) ELSE <<>>

IsNext(kind, p) == jobs # <<>> /\ Head(jobs) = <<kind, p>>

(* A dispatched operation: executeOperation up to its await of              *)
(* lockModelActions.  The dispatcher works through the actions of a message *)
(* in a promise chain of its own, so this may come between two jobs.        *)
Request(p) ==
    /\ pc[p] = "idle"
    /\ lockModelActions(<<"resume", p>>)
    /\ jobs' = IF held THEN jobs ELSE Append(jobs, <<"body", p>>)
    /\ pc' = [pc EXCEPT ![p] = IF held THEN "waiting" ELSE "entering"]

(* Mutant: the lock is not taken again.                                     *)
ResumeWithoutLock(p) ==
    /\ IsNext("resume", p)
    /\ jobs' = Append(Tail(jobs), <<"body", p>>)
    /\ pc' = [pc EXCEPT ![p] = "entering"]
    /\ UNCHANGED <<held, waiters>>

(* The waiting operation is woken.  It calls lockModelActions again but     *)
(* does not await it, so it goes on to its body whether or not the nested   *)
(* call got the lock.                                                       *)
Resume(p) ==
    /\ IsNext("resume", p)
    /\ lockModelActions(<<"ghost", p>>)
    /\ jobs' = Append(Tail(jobs), <<"body", p>>)
    /\ pc' = [pc EXCEPT ![p] = "entering"]

(* A nested call that had to queue is woken and calls lockModelActions in   *)
(* its turn: it takes the lock for nobody or queues once more.              *)
ResumeGhost(p) ==
    /\ IsNext("ghost", p)
    /\ lockModelActions(<<"ghost", p>>)
    /\ jobs' = Tail(jobs)
    /\ UNCHANGED pc

(* The handler's body up to the file write of saveAndUpdate.                *)
BodySaves(p) ==
    /\ IsNext("body", p)
    /\ jobs' = Tail(jobs)
    /\ pc' = [pc EXCEPT ![p] = "saving"]
    /\ UNCHANGED <<held, waiters>>

(* changeContainer returns at once when the element is gone or is no node.  *)
BodyReturns(p) ==
    /\ IsNext("body", p)
    /\ jobs' = Append(Tail(jobs), <<"unlock", p>>)
    /\ pc' = [pc EXCEPT ![p] = "leaving"]
    /\ UNCHANGED <<held, waiters>>

(* A value provider rejects, or saveAndUpdate finds no source: the handler  *)
(* has no try around its body, and the lock keeps its entry.                *)
BodyThrows(p) ==
    /\ IsNext("body", p)
    /\ jobs' = Tail(jobs)
    /\ pc' = [pc EXCEPT ![p] = "stuck"]
    /\ UNCHANGED <<held, waiters>>

(* The write fails: its promise is never settled (writeFile), and the       *)
(* handler waits for it for ever.                                           *)
SaveFails(p) ==
    /\ pc[p] = "saving"
    /\ pc' = [pc EXCEPT ![p] = "stuck"]
    /\ UNCHANGED <<held, waiters, jobs>>

(* The callback of the file write, and the update of the client after it.   *)
SaveDone(p) ==
    /\ pc[p] = "saving"
    /\ jobs = <<>>
    /\ jobs' = << <<"unlock", p>> >>
    /\ pc' = [pc EXCEPT ![p] = "leaving"]
    /\ UNCHANGED <<held, waiters>>

(* Mutants: the array of resolvers is called instead of each of them; only  *)
(* the first is called; none is.                                            *)
UnlockWith(p, woken) ==
    /\ IsNext("unlock", p)
    /\ held' = FALSE
    /\ waiters' = <<>>
    /\ jobs' = Tail(jobs) \o woken
    /\ pc' = [pc EXCEPT ![p] = IF held THEN "done" ELSE "threw"]

UnlockCallsArray(p) == UnlockWith(p, << waiters >>)
UnlockWakesFirst(p) == UnlockWith(p, IF waiters = <<>> THEN <<>> ELSE << Head(waiters) >>)
UnlockWakesNone(p) == UnlockWith(p, <<>>)

(* unlockModelActions deletes the entry and wakes all its waiters at once;  *)
(* without an entry it throws 'Model "..." was not locked!'.                *)
Unlock(p) ==
    /\ IsNext("unlock", p)
    /\ held' = FALSE
    /\ waiters' = <<>>
    /\ jobs' = Tail(jobs) \o waiters
    /\ pc' = [pc EXCEPT ![p] = IF held THEN "done" ELSE "threw"]

RunJob(p) ==
    \/ Resume(p)
    \/ ResumeGhost(p)
    \/ BodySaves(p)
    \/ BodyReturns(p)
    \/ BodyThrows(p)
    \/ Unlock(p)

LockNext == \E p \in Ops : Request(p) \/ RunJob(p) \/ SaveDone(p) \/ SaveFails(p)

(* The event loop drains the microtask queue and every file write ends or   *)
(* fails; nothing obliges a client to send an operation.                    *)
Fairness == \A p \in Ops : WF_lockVars(RunJob(p)) /\ WF_lockVars(SaveDone(p) \/ SaveFails(p))

LockSpec == LockInit /\ [][LockNext]_lockVars /\ Fairness

-----------------------------------------------------------------------------
Pending == ToSet(waiters) \union ToSet(jobs)

Inside == {p \in Ops : pc[p] \in {"entering", "saving", "leaving", "stuck"}}
Stuck  == {p \in Ops : pc[p] = "stuck"}
Threw  == {p \in Ops : pc[p] = "threw"}
Ghosts == {p \in Ops : <<"ghost", p>> \in Pending}

(* No wakeup is lost: the resolver of a waiting operation is in the lock's  *)
(* entry or already in the microtask queue, whatever was unlocked, deleted  *)
(* and re-created in between (unlockModelActions, lockModelActions).        *)
NoLostWakeup ==
    /\ \A p \in Ops : pc[p] = "waiting" => <<"resume", p>> \in Pending
    /\ ~held => waiters = <<>>

(* What keeps unlockModelActions from throwing in the long run although its *)
(* waiters never wait for the lock they re-acquire: the operations inside   *)
(* their body, plus the calls of unlockModelActions that threw, are as many *)
(* as the lock itself plus the nested calls still due to take it.           *)
TokenBalance ==
    Cardinality(Inside) + Cardinality(Threw) = (IF held THEN 1 ELSE 0) + Cardinality(Ghosts)

(* An operation that waits for the lock gets to its body, unless some       *)
(* unlockModelActions threw (then a nested call holds the lock for nobody)  *)
(* or some body is stuck with the lock.  Nothing else starves a waiter.     *)
WaiterServed ==
    \A p \in Ops : pc[p] = "waiting" ~> (pc[p] # "waiting" \/ Threw # {} \/ Stuck # {})

(* unlockModelActions is only called while the model is locked: the         *)
(* assertion 'Model "..." was not locked!' of the code never fires.         *)
UnlockFindsLock == Threw = {}

=============================================================================
