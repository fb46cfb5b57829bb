---------------------------- MODULE LanguageReload ----------------------------
(***************************************************************************)
(* The language under development, reloaded while the editor runs: the     *)
(* folder watcher and the dirty-file loop (CincoFolderWatcher,             *)
(* DirtyFileWatcher), the meta-specification (MetaSpecification,           *)
(* MetaSpecificationLoader), the classes of the language                   *)
(* (LanguageFilesRegistry) and the clients' reload requests.               *)
(*                                                                         *)
(* A meta file defines one type of its own: which handler classes the      *)
(* type's annotations name, what becomes of it when it is processed, and   *)
(* everything else as a revision.  A code file defines the handler class   *)
(* it is named after.  All clients are in development mode.                *)
(***************************************************************************)
EXTENDS Naturals, FiniteSets

CONSTANTS
    MetaFiles,      \* files of META_FILE_TYPES in the languages folder
    Handlers,       \* handler classes, each in a file of its own
    FolderCount,    \* the subfolders, in their order, then the languages folder
    FolderOf,       \* which of them a code file is in
    Types,          \* what a meta file may define
    Requests,       \* MetaSpecificationReloadActions, each sent once
    Loop,           \* the loader that is the dirty-file loop's
    Absent,         \* no such file, or no such type
    Broken,         \* a file that cannot be parsed
    Asked,          \* a file that is being read
    Unseen,         \* a file the watcher has not reported yet ...
    ReportedBefore, \* ... and those it has reported as they are at first
    AtFirst,        \* the meta files there are at first
    MaxVersion,     \* bound: versions of a code file
    MaxChanges,     \* bound: changes of files
    MaxFolders      \* bound: folder reloads at a time

Files == MetaFiles \union Handlers
Loaders == Requests \union {Loop}
Slots == 1 .. MaxFolders

(* Of a "deep" type the containments are computed without end, until the    *)
(* stack overflows; of an "endless" one the generator never returns.        *)
Kinds == {"plain", "deep", "endless"}

ASSUME ReloadAssumption ==
    /\ IsFiniteSet(Handlers) /\ IsFiniteSet(MetaFiles)
    /\ MetaFiles \intersect Handlers = {}
    /\ FolderCount \in Nat \ {0} /\ FolderOf \in [Handlers -> 1 .. FolderCount]
    /\ \A type \in Types : type.handlers \subseteq Handlers /\ type.kind \in Kinds
    /\ AtFirst \in [MetaFiles -> {type \in Types : type.kind = "plain"} \union {Absent}]
    /\ Loop \notin Requests
    /\ {Absent, Broken} \intersect Types = {} /\ Absent # Broken
    /\ Asked \notin 0 .. MaxVersion
    /\ Unseen \notin Types \union {Absent, Broken} /\ Unseen \notin 0 .. MaxVersion
    /\ MaxVersion \in Nat \ {0} /\ MaxChanges \in Nat /\ MaxFolders \in Nat

VARIABLES
    metaDisk,       \* the meta files
    codeDisk,       \* the version of each code file, 0 if there is none
    events,         \* files fs.watch has something to report of
    seen,           \* what its callbacks have read of a file
    reported,       \* eventAggregationMap: what was reported of it last
    spec,           \* META_SPECIFICATION, by the file that defines the type
    specMap,        \* SPEC_MAP and, unless they overflowed, the other caches
    prior,          \* PRIOR_META_SPECIFICATION, once it is another object ...
    aliased,        \* ... and while it is still the object of spec
    changed,        \* changedAnnotations
    shown,          \* the specification the clients were sent last
    unread,         \* per load: files whose content has not arrived yet
    parsed,         \* per load: files with the content that is being parsed
    asked,          \* requests that were sent
    hung,           \* the process is caught in an endless generation
    dirtyFiles,     \* files the loop has not taken yet
    stage,          \* how far the loop is with what it took
    batch,          \* what it took and the registry has not looked at yet
    regDirty,       \* _dirty: code files to be fetched at the next lookup
    registered,     \* _registered: the version of each class, 0 if none
    folders,        \* reloadAllFolders in progress
    changes,        \* changes of files so far
    hurried,        \* auxiliary: a meta file changed during a request's load
    crossed,        \* auxiliary: a request or a folder reload crossed another
                    \* change
    slipped,        \* auxiliary: files whose last change was taken for none
    outdated        \* auxiliary: folder reloads begun before what they miss

diskVars == <<metaDisk, codeDisk, changes>>
watchVars == <<events, seen, reported>>
specVars == <<spec, specMap, prior, aliased, changed, shown>>
loadVars == <<unread, parsed, hung>>
loopVars == <<dirtyFiles, stage, batch>>
registryVars == <<regDirty, registered, folders>>
auxVars == <<hurried, crossed, slipped, outdated>>
reloadVars == <<diskVars, watchVars, specVars, loadVars, asked, loopVars, registryVars, auxVars>>

NoTypes == [f \in MetaFiles |-> Absent]

Content(f) == IF f \in MetaFiles THEN metaDisk[f] ELSE codeDisk[f]
Definition(content) == IF content \in Types THEN content ELSE Absent
OnDisk == [f \in MetaFiles |-> Definition(metaDisk[f])]

Annotations(type) == IF type = Absent THEN {} ELSE type.handlers
HandlerNames(types) == UNION {Annotations(types[f]) : f \in MetaFiles}

Endless == {type \in Types : type.kind = "endless"}
Overflows(types) == \E f \in MetaFiles : types[f] \in {type \in Types : type.kind = "deep"}

Running(l) == unread[l] # {} \/ parsed[l] # {}
IdleSlots == {r \in Slots : folders[r] = {}}

ReloadInit ==
    /\ metaDisk = AtFirst
    /\ codeDisk = [h \in Handlers |-> 1]
    /\ events = {} /\ seen = [f \in Files |-> {}]
    /\ reported = [f \in Files |-> IF f \in ReportedBefore THEN Content(f) ELSE Unseen]
    /\ spec = metaDisk /\ specMap = metaDisk /\ prior = NoTypes /\ aliased = TRUE
    /\ changed = FALSE
    /\ shown = metaDisk
    /\ unread = [l \in Loaders |-> {}] /\ parsed = [l \in Loaders |-> {}] /\ hung = FALSE
    /\ asked = {} /\ dirtyFiles = {} /\ stage = "idle" /\ batch = {}
    /\ regDirty = {}
    /\ registered = [h \in Handlers |-> IF h \in HandlerNames(metaDisk) THEN 1 ELSE 0]
    /\ folders = [r \in Slots |-> {}]
    /\ changes = 0
    /\ hurried = FALSE /\ crossed = FALSE /\ slipped = {} /\ outdated = {}

(* Every change has been read, reported and dealt with by the loop.         *)
Settled ==
    /\ events = {} /\ \A f \in Files : seen[f] = {}
    /\ dirtyFiles = {} /\ stage = "idle"
    /\ \A l \in Loaders : ~Running(l)

Quiet == Settled /\ IdleSlots = Slots

-----------------------------------------------------------------------------
(* Files change at any time, also in the middle of a request's load.        *)
Changed(f) ==
    LET requested == \E q \in Requests : Running(q) IN
    /\ changes < MaxChanges
    /\ changes' = changes + 1
    /\ events' = events \union {f}
    /\ hurried' = (hurried \/ (f \in MetaFiles /\ requested))
    /\ crossed' = (crossed \/ requested)
    /\ UNCHANGED <<seen, reported, specVars, loadVars, asked, loopVars, registryVars>>
    /\ UNCHANGED <<slipped, outdated>>

ChangeMeta(f) ==
    /\ \E content \in (Types \union {Absent, Broken}) \ {metaDisk[f]} :
        metaDisk' = [metaDisk EXCEPT ![f] = content]
    /\ Changed(f)
    /\ UNCHANGED codeDisk

ChangeCode(h) ==
    /\ \E version \in (0 .. MaxVersion) \ {codeDisk[h]} :
        codeDisk' = [codeDisk EXCEPT ![h] = version]
    /\ Changed(h)
    /\ UNCHANGED metaDisk

-----------------------------------------------------------------------------
(* What a lookup makes of the registry: the files left for it are read and  *)
(* the classes among them that annotations name are registered.             *)
Fetched(h) ==
    IF h \in regDirty /\ codeDisk[h] # 0 /\ h \in HandlerNames(specMap)
    THEN codeDisk[h] ELSE registered[h]

(* The specification, the caches or the registry hold, or are about to      *)
(* hold, something else of the file than what is in it.                     *)
Missed(f) ==
    IF f \in MetaFiles
    THEN spec[f] # OnDisk[f] \/ specMap # spec \/ \E l \in Loaders : Running(l)
    ELSE \/ IdleSlots # Slots
         \/ Fetched(f) # (IF f \in HandlerNames(specMap) THEN codeDisk[f] ELSE 0)

(* fs.watch calls back, and the file is read.                               *)
Notice(f) ==
    /\ f \in events
    /\ events' = events \ {f}
    /\ seen' = [seen EXCEPT ![f] = @ \union {Content(f)}]
    /\ UNCHANGED <<diskVars, reported, specVars, loadVars, asked, loopVars, registryVars, auxVars>>

(* The callback of CincoFolderWatcher, the file being read: if that is what *)
(* was reported last, nothing happens; otherwise the file is dirty, once.   *)
Report(f) ==
    \E content \in seen[f] :
        /\ seen' = [seen EXCEPT ![f] = @ \ {content}]
        /\ reported' = [reported EXCEPT ![f] = content]
        /\ IF content = reported[f]
           THEN /\ slipped' = IF Missed(f) THEN slipped \union {f} ELSE slipped
                /\ UNCHANGED dirtyFiles
           ELSE /\ dirtyFiles' = dirtyFiles \union {f}
                /\ UNCHANGED slipped
        /\ UNCHANGED <<diskVars, events, specVars, loadVars, asked, stage, batch, registryVars>>
        /\ UNCHANGED <<hurried, crossed, outdated>>

-----------------------------------------------------------------------------
(* MetaSpecification.clear: a new, empty object; the caches stay.           *)
clear ==
    /\ spec' = NoTypes
    /\ prior' = IF aliased THEN spec ELSE prior
    /\ aliased' = FALSE

(* reloadFiles: the files there are now will be read at once.               *)
Listed == {f \in MetaFiles : metaDisk[f] # Absent}

(* annotationsHaveChanged                                                   *)
annotationsHaveChanged(old, new) ==
    \E f \in MetaFiles : Annotations(old[f]) # Annotations(new[f])

(* MetaSpecification.prepareCache, with the specification as it is then.    *)
(* It keeps the object itself as the prior specification: compared with     *)
(* itself, it has not changed, until clear makes another one.  If it        *)
(* overflows, that is after the first of the caches.                        *)
prepareCache(new) ==
    /\ specMap' = new
    /\ IF Overflows(new)
       THEN UNCHANGED <<changed, aliased, prior>>
       ELSE /\ changed' = (~aliased /\ annotationsHaveChanged(prior, new))
            /\ aliased' = TRUE
            /\ prior' = NoTypes

(* What the first callback leaves for the others.  The loop takes what is   *)
(* dirty, so what had slipped before is not missing any more.               *)
Taken(meta) ==
    /\ stage = "idle" /\ dirtyFiles # {}
    /\ dirtyFiles' = {}
    /\ batch' = dirtyFiles
    /\ stage' = IF meta /\ Listed # {} THEN "loading" ELSE "registry"
    /\ slipped' = (IF meta THEN slipped \ MetaFiles ELSE slipped) \ dirtyFiles

(* Mutant: the loop loads the meta files into the specification there is.   *)
DirtyCheckKeepsSpec ==
    LET meta == dirtyFiles \intersect MetaFiles # {} IN
    /\ Taken(meta)
    /\ unread' = IF meta THEN [unread EXCEPT ![Loop] = Listed] ELSE unread
    /\ UNCHANGED <<diskVars, watchVars, specVars, parsed, hung, asked, registryVars>>
    /\ UNCHANGED <<hurried, crossed, outdated>>

(* The loop takes what is dirty.  If there are meta files among it, the     *)
(* first callback clears the specification and loads it; without any file   *)
(* left that is over at once, and no cache is prepared.                     *)
DirtyCheck ==
    LET meta == dirtyFiles \intersect MetaFiles # {} IN
    /\ Taken(meta)
    /\ IF meta
       THEN /\ clear
            /\ unread' = [unread EXCEPT ![Loop] = Listed]
            /\ shown' = IF Listed = {} THEN NoTypes ELSE shown
       ELSE UNCHANGED <<spec, prior, aliased, unread, shown>>
    /\ UNCHANGED <<diskVars, watchVars, specMap, changed, parsed, hung, asked, registryVars>>
    /\ UNCHANGED <<hurried, crossed, outdated>>

(* MetaSpecificationReloadHandler, with or without clear.                   *)
ReloadRequest(q, clearing) ==
    /\ ~hung
    /\ q \notin asked
    /\ asked' = asked \union {q}
    /\ IF clearing THEN clear ELSE UNCHANGED <<spec, prior, aliased>>
    /\ unread' = [unread EXCEPT ![q] = Listed]
    /\ shown' = IF Listed = {} THEN spec' ELSE shown
    /\ crossed' = (crossed \/ ~Settled \/ slipped # {})
    /\ UNCHANGED <<diskVars, watchVars, specMap, changed, parsed, hung, loopVars, registryVars>>
    /\ UNCHANGED <<hurried, slipped, outdated>>

ReadMeta(l, f) ==
    /\ f \in unread[l]
    /\ unread' = [unread EXCEPT ![l] = @ \ {f}]
    /\ parsed' = [parsed EXCEPT ![l] = @ \union {<<f, metaDisk[f]>>}]
    /\ UNCHANGED <<diskVars, watchVars, specVars, hung, asked, loopVars, registryVars, auxVars>>

(* The generation of a language that never ends: it runs in the server's    *)
(* own thread, and nothing else does any more.                              *)
GenerationHangs(l, f) ==
    /\ \E content \in Endless : <<f, content>> \in parsed[l]
    /\ hung' = TRUE
    /\ UNCHANGED <<diskVars, watchVars, specVars, unread, parsed, asked, loopVars, registryVars>>
    /\ UNCHANGED auxVars

(* addTypes keeps a type that is there already.                             *)
merge(f, content) ==
    IF spec[f] = Absent THEN [spec EXCEPT ![f] = Definition(content)] ELSE spec

(* What a load leaves when its last file is merged: the caches are prepared *)
(* and, in the same turn, the clients are sent the specification.  If the   *)
(* caches overflow, the load's promise is never settled: a request has no   *)
(* answer, and the loop goes no further.                                    *)
Finished(l, new) ==
    /\ prepareCache(new)
    /\ shown' = IF Overflows(new) THEN shown ELSE spec'
    /\ stage' = IF l # Loop THEN stage ELSE IF Overflows(new) THEN "stuck" ELSE "registry"
    /\ outdated' = IF changed' /\ ~Overflows(new) THEN Slots \ IdleSlots ELSE outdated

Unfinished == UNCHANGED <<specMap, changed, aliased, prior, shown, stage, outdated>>

(* Mutant: a file that cannot be parsed is not counted down, and the load   *)
(* never ends.                                                              *)
MergeMetaUncounted(l, f) ==
    \E content \in (Types \ Endless) \union {Absent} :
        /\ <<f, content>> \in parsed[l]
        /\ parsed' = [parsed EXCEPT ![l] = @ \ {<<f, content>>}]
        /\ spec' = merge(f, content)
        /\ IF unread[l] = {} /\ parsed'[l] = {} THEN Finished(l, spec') ELSE Unfinished
        /\ UNCHANGED <<diskVars, watchVars, unread, hung, asked, dirtyFiles, batch, registryVars>>
        /\ UNCHANGED <<hurried, crossed, slipped>>

(* Mutant: the caches are prepared before the last file is merged.          *)
MergeMetaLate(l, f) ==
    \E content \in (Types \ Endless) \union {Absent, Broken} :
        /\ <<f, content>> \in parsed[l]
        /\ parsed' = [parsed EXCEPT ![l] = @ \ {<<f, content>>}]
        /\ spec' = merge(f, content)
        /\ IF unread[l] = {} /\ parsed'[l] = {} THEN Finished(l, spec) ELSE Unfinished
        /\ UNCHANGED <<diskVars, watchVars, unread, hung, asked, dirtyFiles, batch, registryVars>>
        /\ UNCHANGED <<hurried, crossed, slipped>>

(* A file is parsed and merged, if it can be parsed.                        *)
MergeMeta(l, f) ==
    \E content \in (Types \ Endless) \union {Absent, Broken} :
        /\ <<f, content>> \in parsed[l]
        /\ parsed' = [parsed EXCEPT ![l] = @ \ {<<f, content>>}]
        /\ spec' = merge(f, content)
        /\ IF unread[l] = {} /\ parsed'[l] = {} THEN Finished(l, spec') ELSE Unfinished
        /\ UNCHANGED <<diskVars, watchVars, unread, hung, asked, dirtyFiles, batch, registryVars>>
        /\ UNCHANGED <<hurried, crossed, slipped>>

-----------------------------------------------------------------------------
Gone(f) == Content(f) = IF f \in MetaFiles THEN Absent ELSE 0

(* reloadAllFolders begins with the first folder.                           *)
AllFolders == [at |-> 1, read |-> [h \in Handlers |-> Asked]]

FreeSlot == CHOOSE r \in IdleSlots : TRUE

(* The reloads that have read one of these files, and too early.            *)
HaveRead(files) ==
    {r \in Slots : \E reload \in folders[r] : \E h \in files \intersect Handlers : reload.read[h] # Asked}

ReloadAllFolders(f) ==
    /\ IdleSlots # {}
    /\ folders' = [folders EXCEPT ![FreeSlot] = {AllFolders}]
    /\ slipped' = slipped \ Handlers
    /\ outdated' = outdated \union HaveRead({f} \union slipped)
    /\ UNCHANGED regDirty

LeaveForLookup(f) ==
    /\ regDirty' = regDirty \union ({f} \intersect Handlers)
    /\ UNCHANGED <<folders, slipped, outdated>>

(* Mutant: only a deleted file makes the registry reload its folders.       *)
RegistryIgnoresAnnotations(f) ==
    /\ stage = "registry" /\ f \in batch
    /\ batch' = batch \ {f}
    /\ stage' = IF batch' = {} THEN "idle" ELSE stage
    /\ IF Gone(f) THEN ReloadAllFolders(f) ELSE LeaveForLookup(f)
    /\ UNCHANGED <<diskVars, watchVars, specVars, loadVars, asked, dirtyFiles, registered>>
    /\ UNCHANGED <<hurried, crossed>>

(* The registry's callback looks at one file: if it is gone or annotations  *)
(* changed, all folders are reloaded, and nobody waits for that; otherwise  *)
(* the file is left for the next lookup.  (A meta file defines no class.)   *)
RegistryLooksAt(f) ==
    /\ stage = "registry" /\ f \in batch
    /\ batch' = batch \ {f}
    /\ stage' = IF batch' = {} THEN "idle" ELSE stage
    /\ IF Gone(f) \/ changed THEN ReloadAllFolders(f) ELSE LeaveForLookup(f)
    /\ UNCHANGED <<diskVars, watchVars, specVars, loadVars, asked, dirtyFiles, registered>>
    /\ UNCHANGED <<hurried, crossed>>

InFolder(reload) == {h \in Handlers : FolderOf[h] = reload.at}

FolderReads(r, h) ==
    \E reload \in folders[r] :
        /\ h \in InFolder(reload) /\ reload.read[h] = Asked
        /\ folders' = [folders EXCEPT ![r] = {[reload EXCEPT !.read[h] = codeDisk[h]]}]
        /\ UNCHANGED <<diskVars, watchVars, specVars, loadVars, asked, loopVars, regDirty, registered>>
        /\ UNCHANGED auxVars

(* collectHandlersFromFolder, the folder being read: what the annotations   *)
(* name at this moment will be registered.                                  *)
FolderRead(reload) == \A h \in InFolder(reload) : reload.read[h] # Asked

Collected(reload) ==
    [h \in Handlers |-> IF h \in InFolder(reload) /\ h \notin HandlerNames(specMap)
                        THEN 0 ELSE reload.read[h]]

FolderCollected(r) ==
    \E reload \in folders[r] :
        /\ FolderRead(reload) /\ reload.at < FolderCount
        /\ folders' = [folders EXCEPT ![r] = {[at |-> reload.at + 1, read |-> Collected(reload)]}]
        /\ UNCHANGED <<diskVars, watchVars, specVars, loadVars, asked, loopVars, regDirty, registered>>
        /\ UNCHANGED auxVars

(* A reload that missed something ends as the last one.                     *)
Overtaken(r) ==
    /\ r \in outdated
    /\ (Slots \ IdleSlots) \subseteq outdated
    /\ ~(stage = "registry" /\ changed)

(* fetchSemanticFiles, after the last folder: what was collected is         *)
(* registered, whatever was registered in between, and the rest is not.     *)
FolderDone(r) ==
    \E reload \in folders[r] :
        /\ FolderRead(reload) /\ reload.at = FolderCount
        /\ registered' = Collected(reload)
        /\ folders' = [folders EXCEPT ![r] = {}]
        /\ outdated' = outdated \ {r}
        /\ crossed' = (crossed \/ Overtaken(r))
        /\ UNCHANGED <<diskVars, watchVars, specVars, loadVars, asked, loopVars, regDirty>>
        /\ UNCHANGED <<hurried, slipped>>

(* getRegisteredSync: a hook or a handler is looked up.                     *)
Lookup ==
    /\ ~hung
    /\ regDirty # {}
    /\ registered' = [h \in Handlers |-> Fetched(h)]
    /\ regDirty' = {}
    /\ outdated' = outdated \union HaveRead(regDirty)
    /\ UNCHANGED <<diskVars, watchVars, specVars, loadVars, asked, loopVars, folders>>
    /\ UNCHANGED <<hurried, crossed, slipped>>

-----------------------------------------------------------------------------
(* What the server and the file system do by themselves.                    *)
ServerStep ==
    /\ ~hung
    /\ \/ DirtyCheck
       \/ \E f \in Files : Notice(f) \/ Report(f) \/ RegistryLooksAt(f)
       \/ \E l \in Loaders, f \in MetaFiles :
            ReadMeta(l, f) \/ GenerationHangs(l, f) \/ MergeMeta(l, f)
       \/ \E r \in Slots :
            FolderCollected(r) \/ FolderDone(r) \/ \E h \in Handlers : FolderReads(r, h)

ReloadNext ==
    \/ ServerStep
    \/ \E f \in MetaFiles : ChangeMeta(f)
    \/ \E h \in Handlers : ChangeCode(h)
    \/ \E q \in Requests, clearing \in BOOLEAN : ReloadRequest(q, clearing)
    \/ Lookup

(* Timers, reads and parsers end; nobody has to change a file or look       *)
(* anything up.                                                             *)
ReloadFairness == WF_reloadVars(ServerStep)

ReloadSpec == ReloadInit /\ [][ReloadNext]_reloadVars /\ ReloadFairness

-----------------------------------------------------------------------------
(* Whatever loads overlap: once none runs, every lookup by type answers from *)
(* the specification, although the caches outlive clear; only a folder      *)
(* without meta files leaves the caches of the language it lost.            *)
CachesMatchSpec ==
    (\A l \in Loaders : ~Running(l)) => specMap = spec \/ spec = NoTypes

(* At rest the specification is what the files say, however many changes    *)
(* and requests overlapped, unless a file changed under a request's load;   *)
(* and the clients were sent it, if its caches could be prepared.  Only a   *)
(* file whose last change was taken for none is out of date.                *)
SpecIsOnDisk ==
    Quiet /\ ~hurried =>
        /\ \A f \in MetaFiles \ slipped : spec[f] = OnDisk[f]
        /\ shown = spec \/ Overflows(spec)

(* At rest the next lookup finds every class that an annotation names and a *)
(* file defines, in the file's latest version, and no other class: although *)
(* folders are read one by one, each filtered by the annotations of its     *)
(* moment, several reloads at a time, with lookups in between.              *)
HandlersAreOnDisk ==
    Quiet /\ ~crossed /\ spec = specMap /\ slipped \intersect MetaFiles = {} =>
        \A h \in Handlers \ slipped :
            Fetched(h) = IF h \in HandlerNames(OnDisk) THEN codeDisk[h] ELSE 0

(* The loop comes back to rest after every change, files that cannot be     *)
(* parsed included, as long as no file's language is one whose generation   *)
(* or caches never end.                                                     *)
LanguagesEnd ==
    \A f \in MetaFiles : metaDisk[f] \in Types => metaDisk[f].kind = "plain"

LoopComesToRest == []LanguagesEnd => []<>Quiet
=============================================================================
