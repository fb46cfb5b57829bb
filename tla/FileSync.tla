------------------------------- MODULE FileSync -------------------------------
(***************************************************************************)
(* Several sessions on one model file: each holds a model of its own,      *)
(* saves it after every operation (FileStore), and is told by the watchers *)
(* when the file changed, whoever changed it.                              *)
(*                                                                         *)
(* A model is its id and its elements; an operation adds an element or     *)
(* removes it.  Opening a file that cannot be decoded creates a model with *)
(* a new id, which is the session's here.  The language has neither hooks  *)
(* nor a codec, and writes do not fail.                                    *)
(*                                                                         *)
(* The folder watcher and the dirty-file loop are cut down to one file and *)
(* one pending event: a handler that comes late reads what is there then.  *)
(***************************************************************************)
EXTENDS FileStore

CONSTANTS
    Clients,        \* the sessions of the file
    OpenAtFirst,    \* those that have opened it already
    Origin,         \* the id of the model that is in the file at first
    Elements,       \* what operations add to the model and remove from it
    Closed,         \* a session without a model
    Opening,        \* a session that waits for its model
    Asked,          \* a load that has not read the file yet
    MaxExternals,   \* bound: changes of the file by other programs
    MaxChanges,     \* bound: operations, such changes and earlier crashes
    MaxLoads        \* bound: reloads of one session at a time

ASSUME SyncAssumption ==
    /\ Contents = [id : Clients \union {Origin}, elements : SUBSET Elements]
    /\ OpenAtFirst \subseteq Clients
    /\ {Closed, Opening, Asked, Torn} \intersect Contents = {}
    /\ Asked # Torn /\ Closed # Opening
    /\ {MaxExternals, MaxChanges, MaxLoads} \subseteq Nat

VARIABLES
    mem,            \* modelState.graphModel of each session
    found,          \* what a session that is opening the file has read
    loads,          \* the reloads of each session, with what they read
    event,          \* fs.watch has something to report
    noticed,        \* eventAggregationMap: the blocks last reported, if any
    dirty,          \* dirtyFiles contains the file
    externals,      \* changes by other programs so far
    wanted,         \* auxiliary: the elements, had all operations met one model
    hurried,        \* auxiliary: somebody did not wait for the dust to settle
    met,            \* auxiliary: the sessions that found the file unreadable
                    \* for a save in progress when they opened it
    left            \* auxiliary: the sessions that the last report passed by,
                    \* or that had two reloads at a time since

watchVars == <<event, noticed, dirty>>
auxVars == <<wanted, hurried, met, left>>
syncVars == <<storeVars, mem, found, loads, watchVars, externals, auxVars>>

IsOpen(c) == mem[c] \in Contents

SyncInit ==
    /\ StoreInit
    /\ file = Encoded([id |-> Origin, elements |-> {}])
    /\ snap = [s \in Saves |-> [id |-> Origin, elements |-> {}]]
    /\ mem = [c \in Clients |-> IF c \in OpenAtFirst THEN Decoded(file) ELSE Closed]
    /\ found = [c \in Clients |-> Asked]
    /\ loads = [c \in Clients |-> <<>>]
    /\ event = FALSE /\ noticed = {} /\ dirty = FALSE
    /\ externals = 0
    /\ wanted = {} /\ hurried = FALSE /\ met = {} /\ left = {}

Quiet ==
    /\ Active = {} /\ ~event /\ ~dirty
    /\ \A c \in Clients : loads[c] = <<>> /\ mem[c] # Opening

MayChange == Cardinality({s \in Saves : pc[s] # "idle"}) + externals + crashes < MaxChanges

Toggled(set, x) == IF x \in set THEN set \ {x} ELSE set \union {x}

-----------------------------------------------------------------------------
(* An operation of session c: it changes the session's model and begins to  *)
(* save a copy of it in the same turn.                                      *)
Edit(c, x, s) ==
    LET model == [mem[c] EXCEPT !.elements = Toggled(@, x)] IN
    /\ MayChange
    /\ IsOpen(c)
    /\ BeginSave(s, model)
    /\ mem' = [mem EXCEPT ![c] = model]
    /\ wanted' = IF x \in model.elements THEN wanted \union {x} ELSE wanted \ {x}
    /\ hurried' = (hurried \/ ~Quiet)
    /\ UNCHANGED <<found, loads, watchVars, externals, met, left>>

(* The client's request for the model of the file.                          *)
RequestModel(c) ==
    /\ mem[c] = Closed
    /\ mem' = [mem EXCEPT ![c] = Opening]
    /\ UNCHANGED <<storeVars, found, loads, watchVars, externals, auxVars>>

(* loadSourceModel: the file system answers the read that loadFromFile      *)
(* awaits.  What becomes of the file from here on, the session does not see.*)
ModelRead(c) ==
    /\ mem[c] = Opening /\ found[c] = Asked
    /\ found' = [found EXCEPT ![c] = Decoded(file)]
    /\ hurried' = (hurried \/ Active # {})
    /\ met' = IF Active # {} /\ Decoded(file) = Torn THEN met \union {c} ELSE met
    /\ UNCHANGED <<storeVars, mem, loads, watchVars, externals, wanted, left>>

(* The rest of loadSourceModel, a model having been read: it is installed.  *)
ModelLoaded(c) ==
    /\ mem[c] = Opening /\ found[c] \in Contents
    /\ mem' = [mem EXCEPT ![c] = found[c]]
    /\ found' = [found EXCEPT ![c] = Asked]
    /\ UNCHANGED <<storeVars, loads, watchVars, externals, auxVars>>

(* The rest of loadSourceModel, what was read having been empty or          *)
(* malformed: a model is created and saved at once, over whatever is in the *)
(* file by now.                                                             *)
ModelCreated(c, s) ==
    LET model == [id |-> c, elements |-> {}] IN
    /\ mem[c] = Opening /\ found[c] = Torn
    /\ BeginSave(s, model)
    /\ mem' = [mem EXCEPT ![c] = model]
    /\ found' = [found EXCEPT ![c] = Asked]
    /\ hurried' = TRUE
    /\ UNCHANGED <<loads, watchVars, externals, wanted, met, left>>

(* A step of a save that was begun; the watcher sees writes to the file.    *)
Saving ==
    /\ Relock \/ \E s \in Saves : SaveStep(s)
    /\ event' = (event \/ (file' # file))
    /\ UNCHANGED <<mem, found, loads, noticed, dirty, externals, auxVars>>

(* Another program changes the model in the file, all at once.              *)
External(x) ==
    LET model == [Decoded(file) EXCEPT !.elements = Toggled(@, x)] IN
    /\ MayChange /\ externals < MaxExternals
    /\ Decoded(file) # Torn
    /\ externals' = externals + 1
    /\ file' = Encoded(model)
    /\ event' = TRUE
    /\ wanted' = model.elements
    /\ hurried' = (hurried \/ ~Quiet)
    /\ UNCHANGED <<semaphoreVars, pc, snap, crashes, shared>>
    /\ UNCHANGED <<mem, found, loads, noticed, dirty, met, left>>

-----------------------------------------------------------------------------
(* A session that opens the file is called back about nothing yet: it will  *)
(* install what it has read before.                                         *)
IsLate(c) == mem[c] = Opening /\ found[c] \notin {Asked, Decoded(file)}

(* A session that a report of what is in the file would matter to.          *)
IsBehind(c) == IsLate(c) \/ loads[c] # <<>> \/ (IsOpen(c) /\ mem[c] # Decoded(file))

(* The folder watcher's handler has read the file: it reports the file,     *)
(* unless it reported the same content the last time.                       *)
Notice ==
    /\ event
    /\ event' = FALSE
    /\ noticed' = {file}
    /\ dirty' = (dirty \/ noticed # {file})
    /\ left' = IF dirty' THEN left ELSE left \union {c \in Clients : IsBehind(c)}
    /\ UNCHANGED <<storeVars, mem, found, loads, externals, wanted, hurried, met>>

(* The dirty-file loop takes what is dirty and calls back the sessions,     *)
(* which await nothing: a session whose model is the one in the file starts *)
(* a reload (updateClientOnChange) that nobody waits for.                   *)
Concerned == {c \in Clients : /\ Decoded(file) # Torn
                             /\ IsOpen(c)
                             /\ Decoded(file).id = mem[c].id}

DirtyCheck ==
    /\ dirty
    /\ \A c \in Concerned : Len(loads[c]) < MaxLoads
    /\ dirty' = FALSE
    /\ loads' = [c \in Clients |-> IF c \in Concerned THEN Append(loads[c], Asked) ELSE loads[c]]
    /\ left' = {c \in Clients : IF c \in Concerned THEN loads[c] # <<>>
                                                    ELSE c \in left \/ IsLate(c)}
    /\ UNCHANGED <<storeVars, mem, found, event, noticed, externals, wanted, hurried, met>>

(* The file system answers a reload's read.                                 *)
ReloadReads(c, i) ==
    /\ loads[c][i] = Asked
    /\ loads' = [loads EXCEPT ![c][i] = Decoded(file)]
    /\ UNCHANGED <<storeVars, mem, found, watchVars, externals, auxVars>>

Without(seq, i) == SubSeq(seq, 1, i - 1) \o SubSeq(seq, i + 1, Len(seq))

(* Mutant: the ids are not compared; what could not be decoded is a new     *)
(* model of its own.                                                        *)
ReloadInstallsAnything(c, i) ==
    /\ loads[c][i] # Asked
    /\ mem' = [mem EXCEPT ![c] = IF loads[c][i] = Torn THEN [id |-> c, elements |-> {}]
                                                        ELSE loads[c][i]]
    /\ loads' = [loads EXCEPT ![c] = Without(@, i)]
    /\ UNCHANGED <<storeVars, found, watchVars, externals, auxVars>>

(* Mutant: the update of the session's model is forgotten.                  *)
ReloadShowsOnly(c, i) ==
    /\ loads[c][i] # Asked
    /\ loads' = [loads EXCEPT ![c] = Without(@, i)]
    /\ UNCHANGED <<storeVars, mem, found, watchVars, externals, auxVars>>

(* The end of updateClientOnChange: what was read replaces the session's    *)
(* model if it has the same id, whatever became of either in between.  What *)
(* could not be decoded has a new id.                                       *)
ReloadInstalls(c, i) ==
    LET got == loads[c][i]
        same == got # Torn /\ IsOpen(c) /\ got.id = mem[c].id
    IN
    /\ got # Asked
    /\ mem' = IF same THEN [mem EXCEPT ![c] = got] ELSE mem
    /\ loads' = [loads EXCEPT ![c] = Without(@, i)]
    /\ UNCHANGED <<storeVars, found, watchVars, externals, auxVars>>

(* The server process ends; clients may open the file again.                *)
Crash ==
    /\ StoreCrash
    /\ mem' = [c \in Clients |-> Closed]
    /\ found' = [c \in Clients |-> Asked]
    /\ loads' = [c \in Clients |-> <<>>]
    /\ event' = FALSE /\ noticed' = {} /\ dirty' = FALSE
    /\ left' = {}
    /\ hurried' = (hurried \/ Active # {})
    /\ UNCHANGED <<externals, wanted, met>>

Reloading(c) == \E i \in DOMAIN loads[c] : ReloadReads(c, i) \/ ReloadInstalls(c, i)
Loading(c) == ModelRead(c) \/ ModelLoaded(c) \/ \E s \in Saves : ModelCreated(c, s)

(* What the server and the file system do by themselves.                    *)
ServerStep ==
    \/ Saving
    \/ Notice
    \/ DirtyCheck
    \/ \E c \in Clients : Loading(c) \/ Reloading(c)

SyncNext ==
    \/ ServerStep
    \/ Crash
    \/ \E x \in Elements : External(x)
    \/ \E c \in Clients :
        \/ \E x \in Elements, s \in Saves : Edit(c, x, s)
        \/ RequestModel(c)

(* The event loop runs something as long as something is ready; clients and *)
(* other programs are free.                                                 *)
SyncFairness == WF_syncVars(ServerStep)

SyncSpec == SyncInit /\ [][SyncNext]_syncVars /\ SyncFairness

-----------------------------------------------------------------------------
(* A session that reads a half-written file makes up an empty model, and    *)
(* saves it over the model the file has got in the meantime.  As long as    *)
(* saves do not overlap and the process lives on, only an opening session   *)
(* that read during a save does so: no reload, notification or operation    *)
(* brings another model into the file or a session, and between saves the   *)
(* file can be read.                                                        *)
ModelIsReplacedInTroubleOnly ==
    shared = {} /\ crashes = 0 =>
        /\ Active = {} => Decoded(file) # Torn
        /\ Decoded(file) # Torn => Decoded(file).id \in met \union {Origin}
        /\ \A c \in Clients : IsOpen(c) => mem[c].id \in met \union {Origin}

(* Operations that wait until the saves, the watchers and the reloads are   *)
(* done with the one before are never lost, whichever sessions they are of, *)
(* and every session has seen them.                                         *)
CalmEditsSurvive ==
    Quiet /\ ~hurried =>
        /\ Decoded(file) # Torn
        /\ Decoded(file).elements = wanted
        /\ \A c \in Clients : IsOpen(c) => mem[c] = Decoded(file)

(* However they hurry: every session whose model is the one in the file     *)
(* ends up with what is in the file, its own saves and those of the others  *)
(* having come back to it, unless the last report that concerned it passed  *)
(* it by: skipped as no change, come while the session was still installing *)
(* what it had read, or overtaken by a reload that was under way.           *)
AgreesWithFile(c) ==
    IsOpen(c) /\ Decoded(file) # Torn =>
        (mem[c].id = Decoded(file).id => mem[c] = Decoded(file))

SessionsConverge == <>[](\A c \in Clients \ left : AgreesWithFile(c))
=============================================================================
