# Formal models of the DAO-ML Cinco Cloud editor

This directory holds TLA+ models of the core of the editor, the TLC
configurations that check them on small instances, and proofs of their most
important properties. It is written beside the code: paths below are relative
to `src/editor/` (API = `cinco-glsp-api/src`, SRV = `cinco-glsp-server/src`,
MRG = `cinco-lazy-merge-driver/src`, GEN = `languages/daoml/generator`).
`PROJECT.json` lists the components, the lines each definition translates, the
runs, the mutants that show each property can fail, the hazards and the
findings.

## 1. The system and its parts

A language engineer describes a graphical language (MGL/MSL); a GLSP server
interprets that meta-specification and serves diagram clients in Theia or in a
standalone page. Models are JSON files in a git workspace, merged by a driver
of its own. One language ships with the editor, DAO-ML; its models are
translated into Solidity contracts.

| component | state | operations | interacts with |
|---|---|---|---|
| model action lock (SRV/handler/cinco-json-operation-handler) | a static map, model id -> resolvers of waiters | lock, unlock | handlers that change bounds or the container |
| graph model, index, model state (API/model) | object tree; maps id -> element, contained id -> container, rebuilt as a whole | add, remove, lookups, constraint checks | every handler; the client's submission rebuilds the index |
| operation handlers (SRV/handler) | none of their own | create, delete, reconnect, move, restore, choose, property, label, bounds, routing points | model state, index, lock, hooks, storage |
| graph storage (API/model/graph-storage) | a semaphore per file | read, save | file system, watchers |
| sessions and watchers (SRV/sessions, API/api/watcher) | sessions per file, dirty files, last contents seen, callbacks | create, dispose, notify, reload | model state, clients, storage |
| language files, meta-specification (API/semantics, SRV/meta) | registered classes, the merged specification and its caches | load, clear, reload | everything that asks for a type |
| property view (`cinco-glsp-theia`, SRV/handler/property-*) | the widget's copy of the values of one element | select, add, assign, delete | the model of the session |
| language workbench (`cinco-languages`) and palette (SRV/palette) | none; the generated meta-specification | generate, offer | writes the meta files the server loads |
| dispatcher, dialogs (API/api, API/tools) | queue of actions, promises by message id | dispatch, answer | clients |
| lazy merge driver (MRG) | none | three-way merge, exit code | git; ghosts and choices it leaves are edited by the handlers |
| DAO-ML translator (GEN) | the DAO as parsed | aggregation, ids, rendering | emits contracts |
| permission manager contract (emitted by GEN) | role of an address, permissions of an entity | assign, revoke, grant, initialize committees | committee contracts ask it |
| committee contracts (emitted by GEN) | OpenZeppelin's governor | propose, vote | permission manager |
| client, hosts, layout, workbench, web server, scaffolding | presentation, compilers, input and output | | |

What is hard in it:

* **One thread, many continuations.** Handlers are `async`; between two
  `await`s anything may run. The lock, the saves, the reloads and the registry
  are all read-await-write code.
* **A derived index** that is rebuilt at one point (the submission) and read
  everywhere.
* **Files that change under the editor**, and the editor's own saves that come
  back as changes.
* **Merges of merges**: a ghost or a choice of one merge is the input of the
  next.
* **A language under development**: the specification is cleared and read again
  while operations ask for types, and a class that was named by an annotation a
  moment ago may be the one to call now.
* **Two copies of one list**: a view that edits by index what it last heard of.
* **Packed numbers**: ids, control bits and permission bits share an integer
  whose layout is computed in Python and read in Solidity.

What makes each part correct: the lock loses no wake-up and serves every
waiter; the index agrees with the tree whenever a handler looks at it; a delete
takes what it names, with its edges, and nothing else; a merge is the same from
both sides, loses nothing that both sides kept and reports what it could not
decide; a save that had the file for itself leaves its model in it; sessions end
up with what is in the file; the specification and the classes end up as they
are on disk; what the palette offers and the server accepts is what the
language declares; a vacant line of control gets neither members nor permissions back.

## 2. Modules

| module | models | composed with |
|---|---|---|
| `ModelActionLock` | the lock of one graph model and the continuations of the operations that take it | |
| `GraphModel` | tree, index, create, delete, reconnect, move, restore, choose | |
| `GraphModelProofs` | theorems about it | extends it |
| `GraphEditing` | moves that run under the lock beside operations that do not | extends both |
| `GraphEditingProofs` | theorems about the lock, and about whole trees, of `GraphModel` and of `GraphEditing` | extends it and `GraphModelProofs` |
| `PlainFile` | abstract: what saving promises | |
| `FileStore` | the semaphore, the stages of a save, failures, the end of the process | implements `PlainFile` |
| `FileSync` | sessions, watchers, the dirty-file loop, reloads, other programs | extends `FileStore` |
| `FileProofs` | theorems about both, the refinement among them | extends `FileSync` |
| `LanguageReload` | the dirty-file loop's reloads of meta files, reload requests, the registry of classes | |
| `LanguageReloadProofs` | theorems about it | extends it |
| `PropertyEditing` | a property view, the messages, the session's model | |
| `PropertyEditingProofs` | theorems about it | extends it |
| `MetaModel` | a language from its declarations to the caches and the palette | |
| `MetaModelProofs` | theorems about it | extends it |
| `LazyMerge` | the driver's combinators, two branches, edits between merges | |
| `LazyMergeProofs` | theorems about it | extends it |
| `DaoContract` | the permission manager as the optimized translator emits it | |
| `DaoContractProofs` | theorems about it | extends it |
| `MC...` | the constants of the runs | extends its module |

Operators named after the code (`lockModelActions`, `changeContainer`,
`optionalMerger`, `prepareCache`, `controlledBy`, ...) translate the function of
that name. A definition with "Mutant" in its comment is a plausible bug in the
definition that follows; no specification uses it.

### ModelActionLock

`held`/`waiters` are the entry of `MODEL_ACTION_LOCK`, `pc` says how far an
operation got, `jobs` is the microtask queue. One action is one continuation:
`Request` (dispatch up to the first await), `Resume` (a waiter is woken),
`ResumeGhost` (the un-awaited nested `lockModelActions` of a woken waiter is
woken itself), `BodySaves`/`BodyReturns` (the handler's body, up to its file
write or its early return), `SaveDone`, `Unlock`. A body that throws
(`BodyThrows`: a value provider that rejects) and a write that fails (`SaveFails`:
`writeFile` throws in a callback and never settles its promise) leave the operation
`stuck` with the lock, for there is no `finally`. Jobs run in FIFO order and
the callback of a file write only with an empty queue, as Node.js runs them;
`Request` may come between two jobs, since the dispatcher works through a
message's actions in a promise chain. Each operation is sent once.

*Fairness:* weak, on running the job at the head and on the end of a file
write, with success or not. The event loop drains its queue, and the file system
answers. Nothing obliges a client to send anything, so `Request` has none.

### GraphModel and GraphEditing

`graph` is the tree with the edges and their ends, `index` what
`GraphModelIndex` knows of it. An end of an edge is the set of its options: a
plain id is a singleton, a `Choice` any other set. `ghosts` are the entries
that a merge marked. Every operation that runs in one turn ends with
`Reindex`, since `OperationActionHandler` submits the model after the command.
`deleteNode` follows the loops of the code: each iterates over the list its own
children are removed from, so that it passes over the child after a removed one
(`DeletionStep`), and filters edges through an else-if chain. `Patience` bounds the
steps: loops that have not come to their end by then are those of a container that
lies below itself, on which the code's recursion overflows the stack; what was
removed before that stays removed. What a delete leaves unreachable is `Collected`,
since nothing in the code can reach it.

In `GraphEditing` moves run under the lock. A move that got the lock at once
finishes before the submission, one that waited (`late`) changes the model
after it, and the index stays as it was. `MayBeDropped` is the check of the
client's tool, made on the model the client has; the server makes none. A body that
throws does so after it changed the model. Lists of containers that a move cut off
stay, for the index may still know them; the next delete collects those it does not.

The metamodel is a constant, and no restriction is put on how its types nest:
containers that may contain themselves or each other are part of both instances, as
they are of languages the editor ships (`languages/examples/primeRefs.mgl`).
`changeContainer` checks nothing (change-container-handler.ts:32-50), so a container can
be moved into one below it and leaves the model with all that is inside. What is below
a holder is `Below`. A late move that goes by a stale index can even put a container of
the *model* below itself; then the model is not `Walkable`: the getters of the
model state, the index and the creation of the client's model recurse until the
stack overflows. The late move itself then ends with a thrown update
(`MoveBody`), and every later command fails before its handler (`CommandFails`).
The one thing assumed of files is that each node comes once in them (`FilesAreTrees`): a
file that a merge left with a node in two places is none of these.

### PlainFile and FileStore

`PlainFile` is a file that writers overwrite and nobody keeps apart: a save that
had it for itself leaves what it was given, saves that overlap leave one of
their contents or something that cannot be decoded, and every save that started
ends. `FileStore` is `saveSourceModel` with everything it calls: `held` and
`waiters` are the entry of `RW_LOCK_MAP`, `relocks` the woken calls of
`lockSemaphore` that run for nobody, `pc` the stage of a save, `file` the blocks on
disk. `serializeModelFile` does not await `lockSemaphore` (graph-storage.ts:327), so
`BeginSave` never blocks; `SaveVetoed` and `EncodeThrows` are its early exits;
`ExistsKnown`, `Truncate`, `WriteBlocks` and `ReturnFromWrite` are the points where
`writeFile` gives the thread away; `WriteFails` is the callback that throws
(file-helper.ts:228), after which the save is stuck; `StoreCrash` ends the process.

The instance `Plain` maps the blocks to what a reader decodes from them and the
stages to the outcome of a save; a stuck save is a lost one. `ImplementsPlainFile`
is the whole abstract specification, fairness included.

*Fairness:* weak, on a relock and on each stage of a save: the event loop drains
its microtasks, and the file system answers, with success or not.

### FileSync

Sessions (`mem`) of one file on top of `FileStore`. `Edit` is any operation that
changes the model and begins to save it in the same turn. What is on disk
changes through saves and through `External`; `event` is `fs.watch`, `Notice` the
folder watcher with its comparison to the content it reported last (`noticed`),
`DirtyCheck` the loop that calls back the sessions, `ReloadReads`/`ReloadInstalls` the
two halves of `updateClientOnChange`. Opening a file is in two halves too: `ModelRead`
is the answer to the awaited read and puts what was read aside (`found`); then
`ModelLoaded` installs it, or `ModelCreated` makes a new model and begins to save it, over
whatever the file holds by then. The auxiliaries `wanted`, `hurried`, `met` (sessions that
found the file unreadable for a save in progress) and `left` (sessions that the
last report passed by, or that had two reloads at a time since) only remember; no
action is guarded by them. A report matters to a session that `IsBehind`: its model is
not the one in the file, a reload of it is under way, or it `IsLate`, that is, about to
install something older.

*Fairness:* weak, on `ServerStep`, everything the server and the file system do by
themselves. Operations, other programs and crashes have none.

### LanguageReload

A meta file defines one type: the handler classes its annotations name, a revision
for all else, and its kind. Of a `deep` type the containments are computed until the stack
overflows, of an `endless` one the generator never returns (section 4 has the
languages that do so). `spec` is `META_SPECIFICATION`, `specMap` stands for the tables
`prepareCache` derives, `prior`/`aliased` for the prior specification, which is the
same object until `clear` makes another one (meta-specification.ts:85).

`Notice` is the callback of `fs.watch`, which reads the file, `Report` the rest of it: a
content equal to the one reported last (`reported`) is no change
(cinco-folder-watcher.ts:109-118). So B, C and B again may be reported once, and
what was read in between stays; `slipped` remembers the files that are out of date
for it (`Missed`). Loads of the loop and of `MetaSpecificationReloadAction`s overlap
freely: each reads the files there are, in any order, and merges what it read, where the
first definition of a type wins. Caches that overflow do so outside the loader's `try`
(`Finished`): the promise is never settled, a request has no answer and the loop is
`stuck`; an endless generation stops the process (`GenerationHangs`).

After the loop's load the registry looks at each dirty file and reloads all folders,
for nobody to wait, if the file is gone or annotations changed; otherwise the file is
left for the next `Lookup`. A reload goes folder by folder (`FolderCount`, `FolderOf`):
the files of a folder are read one by one (`FolderReads`), then filtered by the handler
names the annotations have *at that moment* (`FolderCollected`), and only after the last
folder what was collected is registered (`FolderDone`). The auxiliaries `hurried`,
`crossed`, `slipped` and `outdated` say which overlaps have happened; no action is
guarded by them.

*Fairness:* weak, on `ServerStep`: timers fire, reads and parsers end. Nobody has
to change a file, to send a request or to look anything up.

### PropertyEditing

The widget changes its copy of a list at once and sends the edit, which names an
entry by its index; the session checks bounds (`checkConstraint`) and hooks and
performs it, and answers nothing. `Offered` are the buttons and what the widget
checks itself. The view follows by answers to clicks and label edits only.
`ChangedElsewhere` is a reload, an undo or another handler. `Lists` is what these and files
bring: nothing in the code holds it to the bounds of the attribute, so lists may be too
short or too long from the start. `strayed` remembers that the view missed something. The
two sides do not have the same check for an assignment (`canAssign` of the index on one,
of the index plus one on the other): in a list that is too long the widget lets the user
write the first entry beyond the bound and the server refuses it without a word
(`BeyondTheBound`), which counts as straying.

### MetaModel

One behaviour loads one language, given by its declarations: `CalculateDegree` and
`SortByDegree` are the order in which cli-util sorts the types, `HandleElements` and
`IntroduceInheritanceToConstraints` the generator, `PrepareCache` the caches of
`MetaSpecification`, `GetItems` the palette. `DeepCalls` are the recursive calls of
`getDeepContainmentsOf`, which stops at what the *caller* has seen; where a call
would repeat, it overflows the stack (`PrepareCacheThrows`) and the load is never
resolved. Properties compare with what the declarations say by themselves
(`DeclaredInside`), not with what the generator made of them.

One file, no imports; the bounds of a constraint are left out, so a constraint
is the set of types it names; the loops of `calculateDegree`, one per type, advance
together; `DegreeBound` and `StackBound` cap what otherwise grows for ever.

*Fairness:* weak, on `LoadStep`: a load is one call of the process that waits for
nothing.

### LazyMerge

Two branches and the commit they share. `Edit` actions are what the handlers of
`GraphModel` do to a file; `Merge(x)` runs the driver with x as "ours", and
commits its output if it exits with 0; `FastForward` and `MergeOfEquals` are
git's, which asks no driver then. The combinators
have the code's names and order of tests. A value is a number, its hash the
number itself: `arbitraryMerger` takes the smaller hash. An attribute map is one
value, since `eagerMerger` compares it as a whole; an eager conflict leaves
`Undecided` and never passes the driver. The order of
entries is left out: no property is about it.

### DaoContract

Entities are numbered roles first, the generated owner last among the roles,
then the committees. An id is the record of what the contract's mask and shift
read from the packed integer. Each external call is one action and runs alone,
a revert is no step. The `uint` arguments are any words of the ids' type (`Words`, of
which a run enumerates `Arguments`): an assignment checks the number of the new
role and the control bits of the *declared* entity with that number, and stores the word as it
was passed, control bits included; `grantPermission` and `revokePermission` read the
control bits from the argument itself. `Storable` are the words a mapping can then
hold. The null role is number 0 without controllers: an address without a role *acts
as* entity 0, and the model keeps that. `all_roles` keeps the overflow of the id field: the size of the
field is chosen before the owner is added (DiagramManager.py:146 and 171), so
with exactly 2^b drawn entities the last number needs one bit more, which is
then read as the control bit of entity 0.

`DaoAssumption` is what the generator and the compiler guarantee: the drawn
entities fit the id field, and a control bit fits the literal's type (`ControlWidth`). Each
committee is a contract of its own, so seats of `initializeCommittees` are
different addresses. The assignment condition that is evaluated is the one of
the *sender's* role, as emitted.

## 3. Runs

`CHECK_DEADLOCK FALSE` stands where behaviours end: all operations, saves or edits of
the instance are used up. The two runs of `GraphModel` and `GraphEditing` check
deadlock.

| run | question | bounds and why they are enough |
|---|---|---|
| `lock_safety` | No wake-up lost, entries and owners balance, a waiter is served unless a body is stuck or an unlock threw | 4 operations: one holds, two are woken together, one comes in between. The safety part is proved for any number of them; the liveness part rests on this bound |
| `lock_assertion` | "was not locked!" never thrown: **violated** | 3 operations, the least that shows it |
| `graph_editing` | Bounds, scope of deletions, edges of deleted leaves, conflicts | two initial models: a plain one, and one with ghosts and an undecided end; box > tray > dots is the least nesting in which the skipped children have children, and box and tray fit into each other, so that either can be moved into itself; bounds of 1 and 2 are reached; `Patience` 24 (more gives the same states). 5.7 thousand states; all six properties are proved for every instance |
| `graph_moves` | Moves under the lock among edits: what they cost and what the index knows | 3 overlapping moves of three containers of which two pairs fit into each other, an edge between two of them: one move holds the lock, one waits, one comes late, which is enough for a circle in the model; deletions of two containers and of the edge; operations are interchangeable (symmetry). 67 thousand states; all three properties are proved for every instance |
| `lazy_merge` | Symmetry, reports, survival | 3 edits between or before merges, on two initial models (one merged before): an edit on each side and one after a merge. A box is deleted when it has one dot at most. All five properties are proved for every instance |
| `dao_contract` | Vacant lines, tenure, reach of the owner, loss of permissions | two roles, the owner, a committee in a line of three steps with inheritance; three accounts, those but the deployer interchangeable; beside the declared ids callers pass no role, an id without control bits, one with the bit of role 0 alone, one with all bits and a number of no entity. 147 thousand states. A last number that overflows its field is covered by the theorems, not by this instance |
| `dao_committees` | committees get their ids: **violated** | the same instance |
| `file_store` | The semaphore balances, the storage implements a plain file | 3 saves (one writing, one whose call left a resolver, one that comes between unlock and relock), a short and a long content, one crash: 46 thousand states |
| `file_sync` | Calm operations survive, sessions converge, who may replace the model | two sessions, one of which opens the file later, two saves, one change by another program, two changes in all, two reloads of a session at a time, one crash: a load or a reload can be overtaken by a save, by another reload and by a crash. 544 thousand states; the two invariants are proved for every instance |
| `language_reload` | Caches, specification and classes are those on disk at rest; the loop rests | two meta files, one there at first, types of each kind, two classes in two folders, one request, two changes, two folder reloads at a time: a change may fall into a load of the loop, into one of a request, between two folders, and into the comparison of the watcher. 630 thousand states; the three invariants are proved for every instance. A meta file that slipped without `HandlersAreOnDisk` excluding it takes a third change to show |
| `property_edits` | View and model agree, bounds are kept | two elements, bounds 1..2, lists that are too short, right and too long at first or from elsewhere, three edits, two clicks, one change from elsewhere, one hook: two edits of one element may be under way when an answer given before them arrives. 1.7 million states; both properties are proved for every instance |
| `meta_model` | What can be created is what was declared; the palette offers it; loading ends | 8204 languages over one graph type, two containers, two nodes, two edges in 24 hierarchies (chains of three, a container that extends a node, circles of one and two): three families that vary containments, ends of edges and palettes. The three invariants are proved for every finite language |

What the passing runs show, beyond the instance:

* `lock_safety`: the missing `await` does not lose anybody (`NoLostWakeup`), and the
  "lock" which woken waiters do not wait for is exactly compensated by the nested
  calls (`TokenBalance`), so an operation waits for ever only after the assertion
  was thrown or while a body is stuck with the lock (`WaiterServed`).
* `graph_editing`: the handlers, skipping children and filtering ends as they do,
  still never take what they were not asked to take (`DeletionScope`: a node goes
  only with a delete that names it or something around it, or with a move of something
  around it into itself), never create a conflict (`NoNewConflict`) and remove the
  edges of deleted leaves (`DeletedLeavesTakeTheirEdges`).
* `graph_moves`: however stale its holders are, a move costs the model at most the moved
  node and what is inside it, and nothing if its target is in the model and not inside
  the moved node (`MoveKeepsNodes`). No handler misses a node that is there, and what the
  index knows beyond the model lies below a container that lies below itself
  (`IndexKnowsTheModel`); staleness needs contention (`ExactWithoutContention`).
* `lazy_merge`: the same outcome from either side, no silent ghost or choice, and an
  end without candidates comes from opposed choices only.
* `file_store`: the semaphore that nobody waits for neither loses nor invents an
  entry, `No lock to unlock for` is never thrown, and the storage as a whole is worth
  exactly a plain file: a model is safe only if no other save overlapped, and then
  also from failing writes of others and from crashes after it.
* `file_sync`: operations that let the dust settle are never lost, and all sessions
  see them (`CalmEditsSurvive`); an empty model takes the place of the real one only
  after overlapping saves, a crash, or through a session that opened the file in the middle
  of a save (`ModelIsReplacedInTroubleOnly`); and however users hurry, sessions end up
  with the file (`SessionsConverge`) but for those in `left`: the last report that
  mattered to them was skipped as no change, came while they had still to install
  what they had read, or met a reload under way. What is *not* promised is that
  hurried operations survive: a reload of a session's own save may replace what was
  done since.
* `language_reload`: overlapping loads agree in the end (`CachesMatchSpec`, overflowed
  caches included). Requests may overlap with the loop's loads, and changes with those:
  the specification is file by file the one on disk (`SpecIsOnDisk`) unless a meta file
  changed under a *request's* load or its last change was skipped as none (`slipped`). Also
  the classes are (`HandlersAreOnDisk`), the aliased prior specification and the
  filtering folder by folder notwithstanding, unless a request crossed another
  change, or of two reloads of the folders the one that began too early ended last
  (`crossed`). The loop comes to rest while languages end (`LoopComesToRest`).
  Each exclusion is needed: without it TLC finds a counterexample.
* `property_edits`: edits by index of a view that was not left behind hit what the
  user saw (`ViewIsInStep`), also in lists that are out of bounds; the others may hit
  another entry, but no edit takes a list out of its bounds (`BoundsAreKept`).
* `meta_model`: copying parents, wildcards, leaving out abstract types and the
  cut-off recursion together give what the declarations say (`CreatableAsDeclared`),
  subtypes may stand where their supertypes do (`SubtypesSubstitute`), and no type
  is lost between the palettes (`PaletteIsComplete`, which spells out the exceptions
  in `KeptFromPalette`). `LoadingEnds` has `NoCircles` as its condition because the
  code needs it.
* `dao_contract`: the laws of section 5.

## 4. Findings

Each violation run checks one statement of the repository that the code does
not keep; `PROJECT.json` quotes it.

1. A woken waiter does not await the lock it takes again; two run on one entry
   and the second unlock throws (`lock_assertion`).
2. `initializeCommittees` indexes the table of all ids with the number among the
   committees (`dao_committees`; visible in `workspace/output/WIRE_DAO/WIRE_DAO.sol:91`).

Met while modelling; the models have each of them as it is, unless said
otherwise, and no sentence of the repository contradicts them:

* `deleteNode` removes from the list it iterates over (delete-handler.ts:90): edges
  of skipped children dangle.
* A move that waited takes the node from the holder of a stale index and may
  duplicate it. Two branches that move a node to different containers get it twice
  in the merged file, with exit code 0.
* A container can be moved into itself or into one below it
  (change-container-handler.ts:32-50) and is then cut off from the model with all that is
  inside. Moves that waited can put a container of the model below itself; no walk over
  such a model ends, and every command after it fails.
* `assignRole` stores the caller's word after checking its number, so the control bits of a
  stored id need not be the declared ones (optimized_translator.py:469): an address whose
  stored word lacks the owner's bit is out of the owner's reach, and
  `grantPermission` reads the control bits it checks from its own argument.
* The id field is one bit short when the drawn entities fill it
  (DiagramManager.py:146, 171).
* A reload of the session's own save replaces what was done since it began
  (cinco-client-session-initializer.ts:183).
* A client that opens a half-written file gets an empty model and saves it, over the
  model that is complete by then (graph-storage.ts:123-142, 189-215).
* The folder watcher takes a content equal to the one it reported last for no change
  (cinco-folder-watcher.ts:109-118), also if something else was read in between.
* A reload of the folders filters each folder by the annotations of its moment
  (language-files-registry.ts:145-192): if these change in between, classes of different
  specifications are registered together until the reload that this change brings, and for
  good if that one ends before an older one.
* Types that extend each other in a circle keep `calculateDegree` climbing for ever
  (cli-util.ts:26), ahead of the `throw` meant for circles (cli-util.ts:115); the
  validator's error is only printed.
* Two containers that may contain each other, but not themselves, overflow the stack
  in `getDeepContainmentsOf` (meta-specification.ts:1794) outside of the `try` of the
  loader: the load's promise is never resolved, and the dirty-file loop stands still.
* A container that extends a plain node copies the node's supertypes and so is no
  instance of `container` (generator.ts:166).
* Prime nodes that are containable only deeper than the graph itself, or whose
  palette is called Nodes or Edges, are never offered.
* Assignments of a list entry are checked with the index by the widget and with the
  index plus one by the server.
* Not in a model: the answer of a CAN_DELETE hook is dropped (hook-manager.ts:180);
  reconnecting counts no edges, and its save is never executed
  (reconnect-edge-handler.ts:55, 77), nor is that of label edits and routing points; an
  unreadable dirty file ends the callback for the other dirty files
  (cinco-client-session-initializer.ts:147); `translate` passes the proposal right where
  `translateCommittee` takes the voting right (optimized_translator.py:205,
  translator.py:168); `canVote` masks with 31 whatever the field's size is; a
  misplaced parenthesis keeps committees federated into committees from voting
  (DiagramManager.py:155); the emitted constructor misses a brace when a DAO has
  voting but no assignment conditions (optimized_translator.py:387-390, as in
  `workspace/output/Travelhive_DAO/Travelhive_DAO.sol`).

## 5. Proofs

All are for every value of the constants that meets the named assumptions, and
are checked by TLAPS without anything taken on trust.

**GraphEditingProofs, the lock** (assumes `OpsAreFinite`). `TypeOK` and `NoLostWakeup`
are not inductive: that a waiter has a resolver somewhere is kept by `Unlock` only
if the waiters move as a whole, and by `Resume` only if no second copy of a
continuation exists. `LockInv` adds
`OnePlace` (a continuation is pending once, in the queue or in the entry),
`FreeLockHasNoWaiters`, and `PhaseContinuation` (an operation's phase and its
pending continuation determine each other; a nested call is pending only
for an operation that was woken). One lemma per action shows that it keeps
`LockInv`; lemmas on appending, taking the tail and concatenating
duplicate-free sequences carry the queue. `LockBalanced` counts: each action
moves at most one operation into or out of each of the sets the balance is
about, and `CountMoves` says what that does to a cardinality.

**DaoContractProofs** (assumes `DaoAssumption`). The type invariant is the only
inductive invariant needed, and it holds whatever words are passed, because
`controlledBy` looks the new role's number up before it is stored (`AssignedFacts`).
A *line of control* is a set of entities closed under "is controlled by". What is stored
under a number need not be what was declared for it, so the arguments rest on the
*declared* control bits that `controlledBy` compares with as well: those of a member
of a line lie in the line, inherited ones included (`FlagsStayInLine`, `StoredFlags`),
so nobody outside a vacant line appoints a member (`OutsidersDoNotAppoint`), and a
non-empty line contains the owner (`OwnerIsInEveryLine`), so there is none to seat the
committees (`NoOwnerForVacantLine`). Theorems: a line nobody acts for never gets a member
again (`VacantLinesAreForGood`), in particular an ownerless DAO stays ownerless; an
address whose stored control bits name nobody outside a vacant line keeps its word
for good (`TenureHolds`), also one without any control bits; the owner passes the
check for taking any *declared* id away, in spite of the overflow (`OwnerReachesIds`; a
word stored without the owner's bit is out of reach); and a permission that is held
in a vacant line only, or by nobody, stays where it is (`LostPowersAreForGood`), since
to grant it or to take it away one must hold it. A line with entity 0 in it is never
called vacant, because an address without any role acts as entity 0.

**FileProofs, the storage** (assumes `StoreAssumption`). `SemaphoreBalance` is inductive
together with the types and `NoEntryNoWaiters` (`SemaphoreInv`): resolvers are
stored in an entry only, so giving an entry back moves all that is counted into
`relocks`. `CountSaves` is what a step does to the number of saves that owe an
entry. `UnlockNeverThrows` follows: with no relock under way a returning save is
counted, so there is an entry. For the refinement, `FileInv` adds `Undisturbed`:
while a save that overlapped with none is past its truncation, the file holds
its blocks alone; overlapping once marks both saves for good, so the condition
can only be lost together with the claim. `DecodingBlocks` says that an encoded model
decodes to itself and a truncated file to nothing; `StepsArePlain` maps each action
to a step of `PlainFile` or a stutter, and `StorageIsAPlainFile` is the safety part of
the refinement, `StoreSpec => Plain!PlainInit /\ [][Plain!PlainNext]_(Plain!plainVars)`.

**LazyMergeProofs** (assumes `ValuesAreNumbers` and `MergeAssumption`: finitely many
boxes and dots, initial models that are models). `MergeTypeOK` is inductive because
the result of each combinator is typed unless it raised an eager conflict or
threw (`IsResult`, one lemma per merger, from `OptionalMergerTyped` up to
`GraphMergerTyped`), and only other results are committed; one case per edit
(`EditOnTyped`) shows that the editor keeps models. The other four theorems hold of
the driver on any three models, and so in every reachable state, by cases of the
combinators: `OptionalMergerSymmetric` and `CellMergerSymmetric` carry
`MergeSymmetric`; `OptionalMergerQuietly` (a merger that reports nothing makes no
ghost) and `EndUndecided` carry `ConflictsReported`; `AgreedEntrySurvives` and
`NewEntrySurvives` carry `AgreedSurvive`, where a dot that both sides moved is new
in its box for one of them, since the shared commit had it in one box
(`UniqueHolder`); `EndLost` carries `MergeKeepsEnds`.

**FileProofs, the sessions** (assumes `StoreAssumption` and `SyncAssumption`). Neither property
is inductive. `Genuine` is for the first: without overlapping saves and crashes a save
is in progress alone, the file is undecodable only between its truncation and its
writing, and every model anywhere has the id of the first one or of a session that
opened the file in the middle of a save (`Known`). `Calm` is for the second: as long as
nobody was hurried there is *one* model that all operations led to (`CalmAt`). It is in the
file or on its way there, all reloads that have read hold it, and a session with an
older model is certain to be told: a save has yet to write, or the watcher has yet to
notice other content than it reported last, or the file is dirty, or a reload of the
session is under way. The delicate step is the watcher's comparison (`Notice`): a change that
it skips as no change was reported before, which holds because a save that has yet
to write has different content from the last report. `FoundInv` carries both over the
gap between the read of an opening session and its installation: what it has put aside
is of a known id, or it is in `met` (`FoundGenuine`), and as long as nobody was hurried it
is still what the file holds (`FoundFresh`). With the typing these make
`SyncInv` and `FoundInv`, one lemma per action, and a save's steps cite the lemmas about
the storage.

**LanguageReloadProofs** (assumes `ReloadAssumption`). `ReloadInv` has three layers.
`LoadsInv` holds however everything overlaps and contains `CachesMatchSpec`. `FreshInv`
holds as long as no file changed under a request's load: a file of which no change is
pending (`PendingFiles`, what slipped included) is in the specification as it is on disk,
or a load has yet to read or to merge it (`FreshFile`), and what requests have read is
what is there (`RequestsReadFresh`). `CalmInv` holds as long as nothing crossed and the loop
goes on: requests run alone, the prior specification, aliased or not, is the one the
caches were made of (`PriorIsCached`, `CachesFollow`); what a reload of the folders
has read is current, or the file is still to be looked at (`ReadingsRight`), unless the
reload is `outdated`, and then another one is due; and a class is registered as the
caches name it, or a reload runs or is due, or its file is still to be reported
(`HandlersFollow`). At rest nothing is pending and the three properties remain.

**PropertyEditingProofs** (assumes `PropertyAssumption`). For the bounds the types are
inductive enough; the rest is about one step. `PerformedLength` says what an edit does
to the length of a list, and `CheckedEditKeepsBounds` that the server's check, made on
the list the edit meets, is enough for both bounds, although it does not compare
the same number as the widget's. For the view (`ViewStaysInStep`) the inductive
invariant `InStepInv` says more than the property: the messages under way lead from the
model's list to the widget's, and the server's check lets each edit among them through
(`ViewIsLedTo`); an answer as old as the last change of its element holds what the
model holds (`AnswersAreFresh`). No bound on the length of a list is needed: what the
widget offers the server accepts, on a list of the same length, unless it is
`BeyondTheBound` (`OfferedIsAccepted`). Sending a message extends the way, its arrival takes the first step off
(`SendingLeadsOn`, `ArrivingLeadsOn`); that the property's recursive function computes
the end of that way is an induction on the length of the queue (`LedToInStep`).

**GraphModelProofs** (assumes `MetamodelAssumption`: finitely many nodes and edges,
integer upper bounds; `PatienceAssumption`; `InitialGraphsAssumption`, `FilesAreTrees` and
`SelectionsAssumption`: files hold models, deletions name elements). The handlers walk trees and fold over lists, so the
proofs need induction. The library's induction theorems cannot be instantiated by the
provers, but the one about least elements can: `LeastNumber` follows from it, then
induction for a set of numbers, and for recursion over an interval and for folds that
a function with the defining equation exists and that what a step keeps holds of all
its values (`RecursionExists`, `RecursionStays`, `FoldExists`, `FoldStays`).
A deletion is a fold over ids, and for each a run of the loops: what no step of theirs
leads out of, the run does not (`DeletionStepStays`, `NodeDeletionStays`), whether the loops
come to their end or not. `DeletionReduces` is then the invariant of both: what is
left is a model whose edges and ghosts were there before and whose edges with one
source and one target still have them. With it the types are inductive and
`NoNewConflict` is a split on the operations. For the bounds, `EdgesAreIndexed` says
that the index holds the edges of the model, because every operation ends with a
submission; so what `canBeEdgeSource` and `canBeEdgeTarget` count are the edges of the
model, and where they allow an edge no constraint is exceeded by it
(`ConnectedWithinBounds`).

**GraphEditingProofs, the trees** (assumes what `GraphModelProofs` does). The six
properties that relate whole trees, of any depth and width, for any metamodel, types
that nest in themselves or in a circle included. What is in a model is what the
walk of the index meets, which is a recursion; all arguments go through one
description of it without recursion: the live nodes are the least set that has what
the root holds and what its own containers hold (`LiveIsLeast`, `LiveIsClosed`). That
`Depth` rounds of the walk suffice, also over lists that lie in a circle, is a count:
a round that meets a container for the first time meets one more than the round before
(`WalkGoesInRounds`), so the last one meets none (`LastRoundMeetsNoContainer`,
`WalkIsComplete`).

* `GraphInv` (types, the index is the one of the model, `OneEntryEach`) is
  inductive for the sequential handlers. `NodesComeOnce`: by induction on the depth
  the walks below two entries of a list have no node in common, for a node met by
  both would have an ancestry through both and one entry each
  (`SiblingsAreApart`, `VisitsAreApart`); with one entry each no live container is below
  itself (`OneEntryIsWalkable`).
* `NodesLeaveWithinTheirScope`: a set of models that withstands the removals of the named
  entries, and spreads from a container to its children, is not left by any run of a
  deletion (`Withstands`, `DeletionKeeps`); the models that keep the ancestry of a node
  outside are such a set (`AncestryIsClosed`, `DeletionSpares`). That the loops skip
  children and go on with the next takes part in the proof: what they meet is below
  what was named. A move takes live nodes out only if they are below the moved
  container and its target is too (`LeftWithin`).
* `EdgesGoWithTheirLeaves`: the removal that takes the entry of a leaf takes its
  edges (`RemovalUnbinds`), and no later one brings any back (`DeletionUnbinds`). The
  property is about leaves that are deleted while all containers stay (the children a
  container's loop skips leave edges behind, section 4) and about edges that are no
  ghosts and have one source and one target; an end in conflict loses an option
  instead.
* `EditInv` is for moves that wait. The index is stale then, so nothing is said of its
  holders; but what it knows is closed under "is held by" in both directions
  (`KnownIsClosed`: what a known container holds is known; `KnownIsHeld`: what is known is
  held by the root or by something known). The first makes every live node known. For
  the second half of `IndexKnowsTheModel`, a known node that is not live has only known
  holders that are not live around it, finitely many, so one of them is below
  itself (`StrandedInACircle`). `MovesKeepNodes` follows from what a change of one list
  can do to the least set (`MovedSparesTheRest`, `ChangeSparesTheRest`). With
  `ExactUnlessLate` (no late move: one entry each and an exact index) comes
  `ExactWhileUncontended`.

**MetaModelProofs** (assumes `MetaAssumption`: finitely many types, each of one kind,
that extend types the grammar admits; circles of types and of containers are not
excluded, the theorems say that what *gets* loaded is right). The properties speak of
the declarations alone, the code passes them through copies, merges, replacements and a
recursion that cuts itself off. The proof goes stage by stage, and `MetaInv` says what
each stage has reached:

* What a type leads to is the least set closed under one step: `Reached` stops after as
  many rounds as there are types, and by then it is closed, because each round that
  is not the last adds a type (`ReachedIsLeast`). All arguments about supertypes and
  nested holders use this and no recursion.
* Degrees (`ClimbInv`): a type and the type it extends climb side by side, one step
  apart (`SideBySide`), and a climb that ends meets no type twice (`ClimbIsShort`), so
  the cap on degrees is never met by a language that goes on. At the end a
  type's degree is that of the type it extends plus one (`DegreesFollow`), so a parent
  is always handled before its copies are made.
* Generation (`SpecInv`): a handled type has what all its supertypes name (`Handled`,
  `HandledElement`), and `recursivelyReplace` puts for what is named its concrete
  instances (`ReplacedAreInstances`, an induction on degrees from the deepest up), which
  gives `Generates`.
* Caching (`CacheInv`): the recursion of `getDeepContainmentsOf` leaves out what its
  caller has seen, yet what the caller has seen is visited by the caller's other calls;
  where no recursion overflows, the holders visited are closed under containment, and
  by leastness they are all that can be nested (`DeepIsDeclared`). `Cached` follows,
  and with it `CreatableAsDeclared` and `SubtypesSubstitute`, for what is declared of a
  type is declared of the types that extend it (`InstancesSubstitute`,
  `InsideSubstitutes`).
* Palette: by kinds of types. What is no reference is offered under its own palettes or the
  default category of its kind (`OfferedByKind`), a reference under its first palette
  (`OfferedAsPrime`, `PrimeIsOffered`); `ItemsAreDeclared` puts them together.

Only model-checked: the liveness properties (`WaiterServed`, `SessionsConverge`,
`LoopComesToRest`, `LoadingEnds`) and the fairness part of `ImplementsPlainFile`,
since liveness under fairness is out of the prover's reach.

## 6. Not modelled

* Hooks and value providers (user code): the veto of a save and of an attribute
  change is a free choice; the other handlers are modelled for a language without
  hooks.
* Routing points, compound operations, nested attributes; the dispatch of dialogs,
  generators and validators.
* Several files in the watchers, renames, the disposal of a session.
* Imports between language files, attributes, styles.
* Committee contracts, `canVote`, `canPropose`, aggregation (the constants of
  `DaoContract` are the relation after it); the address 0; the other two
  translators, which render the same DAO differently. What governance contracts do
  is OpenZeppelin's, and the templates and the diamond library are vendored text.
* Grammars, validators, generated parsers, codecs, completion: pure conversions.
  Client views and tools, hosts, layout, web server, branding, object store:
  presentation and input/output. Generated code.
