------------------------- MODULE LanguageReloadProofs -------------------------
(***************************************************************************)
(* Theorems about LanguageReload, for any meta files, handlers, folders and *)
(* requests and any number of changes: overlapping loads agree in the end,  *)
(* and at rest the specification and the classes are those on disk.        *)
(***************************************************************************)
EXTENDS LanguageReload, TLAPS

Defined == Types \union {Absent}
ContentsOfMeta == Types \union {Absent, Broken}
Versions == 0 .. MaxVersion
FolderReloads == [at : 1 .. FolderCount, read : [Handlers -> Versions \union {Asked}]]

ReloadTyped ==
    /\ metaDisk \in [MetaFiles -> ContentsOfMeta]
    /\ codeDisk \in [Handlers -> Versions]
    /\ seen \in [Files -> SUBSET (ContentsOfMeta \union Versions)]
    /\ spec \in [MetaFiles -> Defined]
    /\ unread \in [Loaders -> SUBSET MetaFiles]
    /\ parsed \in [Loaders -> SUBSET (MetaFiles \X ContentsOfMeta)]
    /\ folders \in [Slots -> SUBSET FolderReloads]
    /\ stage \in {"idle", "loading", "registry", "stuck"}

(* A request that was not sent has no load; the loop's load belongs to its  *)
(* stage, and so does the batch.                                            *)
UnaskedAreIdle == \A q \in Requests : q \notin asked => ~Running(q)

StagesMatch ==
    /\ Running(Loop) => stage = "loading"
    /\ stage = "idle" <=> batch = {}

ShownFollows == (\A l \in Loaders : ~Running(l)) => shown = spec \/ Overflows(spec)

(* A reload has read the folders it has passed and nothing of those to come.*)
FoldersInOrder ==
    \A r \in Slots : \A reload \in folders[r] : \A h \in Handlers :
        /\ FolderOf[h] > reload.at => reload.read[h] = Asked
        /\ FolderOf[h] < reload.at => reload.read[h] # Asked

(* What holds however everything overlaps.                                  *)
LoadsInv ==
    /\ ReloadTyped
    /\ UnaskedAreIdle
    /\ StagesMatch
    /\ CachesMatchSpec
    /\ ShownFollows
    /\ FoldersInOrder
    /\ hurried => crossed

-----------------------------------------------------------------------------
(* What holds as long as no file changed under a request's load.            *)

PendingFiles == events \union dirtyFiles \union slipped \union {f \in Files : seen[f] # {}}

(* Someone is still to read or to merge f.                                  *)
InFlight(f) ==
    \E l \in Loaders : f \in unread[l] \/ \E content \in ContentsOfMeta : <<f, content>> \in parsed[l]

(* What was merged, or is to be, is what is on disk, unless another change  *)
(* is to be taken up; what a request has read is what is on disk.           *)
FreshFile(f) ==
    /\ spec[f] \in {Absent, OnDisk[f]}
    /\ ~InFlight(f) => spec[f] = OnDisk[f]
    /\ \A l \in Loaders : \A content \in ContentsOfMeta : <<f, content>> \in parsed[l] => content = metaDisk[f]

RequestsReadFresh ==
    \A q \in Requests, f \in MetaFiles, content \in ContentsOfMeta :
        <<f, content>> \in parsed[q] => content = metaDisk[f]

FreshInv ==
    /\ \A f \in MetaFiles \ PendingFiles : FreshFile(f)
    /\ RequestsReadFresh

-----------------------------------------------------------------------------
(* What holds as long as no request and no reload of the folders crossed    *)
(* another change, and the loop goes on.                                    *)

(* A request's load has the process for itself.                             *)
RequestsRunAlone ==
    \A q \in Requests : Running(q) =>
        /\ PendingFiles = {} /\ stage = "idle"
        /\ \A l \in Loaders : Running(l) => l = q

(* The prior specification is the one the caches were made of.              *)
PriorIsCached ==
    /\ ~Overflows(specMap)
    /\ aliased => specMap = spec
    /\ ~aliased => prior = specMap
    /\ Running(Loop) => ~aliased

MetaPending == PendingFiles \intersect MetaFiles # {}

CachesFollow ==
    /\ (\E q \in Requests : Running(q)) => specMap = OnDisk
    /\ ~MetaPending /\ (\A l \in Loaders : ~Running(l)) /\ Listed # {} => specMap = spec

(* The content read of h is its last, unless that is still to come.         *)
Current(h, version) ==
    \/ version = codeDisk[h]
    \/ h \in PendingFiles \union batch
    \/ h \in regDirty /\ codeDisk[h] # 0

ReadingsRight ==
    \A r \in Slots \ outdated : \A reload \in folders[r] : \A h \in Handlers :
        \/ reload.read[h] = Asked
        \/ Current(h, reload.read[h]) /\ (h \in HandlerNames(specMap) \/ FolderOf[h] = reload.at)
        \/ reload.read[h] = 0 /\ h \notin HandlerNames(specMap) /\ FolderOf[h] # reload.at

(* A reload of the folders runs, or is certain to come.                     *)
FoldersPending == (\E r \in Slots : folders[r] # {}) \/ (stage = "registry" /\ changed)

HandlersRight ==
    \A h \in Handlers :
        /\ h \notin HandlerNames(specMap) => registered[h] = 0
        /\ h \in HandlerNames(specMap) => Fetched(h) = codeDisk[h] \/ h \in PendingFiles \union batch

HandlersFollow == FoldersPending \/ HandlersRight

CalmInv ==
    /\ RequestsRunAlone
    /\ PriorIsCached
    /\ CachesFollow
    /\ ReadingsRight
    /\ HandlersFollow

ReloadInv ==
    /\ LoadsInv
    /\ ~hurried => FreshInv
    /\ ~crossed /\ stage # "stuck" => CalmInv

-----------------------------------------------------------------------------
(* Files without a type define none on disk, and those not listed neither.  *)
LEMMA DefinitionsAreTyped ==
    ASSUME ReloadTyped
    PROVE  /\ OnDisk \in [MetaFiles -> Defined]
           /\ \A f \in MetaFiles : f \notin Listed => OnDisk[f] = Absent
           /\ NoTypes \in [MetaFiles -> Defined]
BY ReloadAssumption DEF OnDisk, Definition, Defined, Listed, NoTypes, ReloadTyped

LEMMA LoopIsALoader == Loop \in Loaders /\ Loop \notin Requests /\ Requests \subseteq Loaders
BY ReloadAssumption DEF Loaders

(* Equal annotations name the same classes.                                 *)
LEMMA SameAnnotationsSameNames ==
    ASSUME NEW old, NEW new, ~annotationsHaveChanged(old, new)
    PROVE  HandlerNames(old) = HandlerNames(new)
BY DEF annotationsHaveChanged, HandlerNames

(* What nobody loads is on disk, for the files no change is pending of.     *)
LEMMA LoadedIsOnDisk ==
    ASSUME FreshInv, \A l \in Loaders : ~Running(l), NEW f \in MetaFiles \ PendingFiles
    PROVE  spec[f] = OnDisk[f]
BY DEF FreshInv, FreshFile, InFlight, Running

LEMMA AllLoadedIsOnDisk ==
    ASSUME ReloadTyped, FreshInv, ~MetaPending, \A l \in Loaders : ~Running(l)
    PROVE  spec = OnDisk
<1>1. \A f \in MetaFiles : spec[f] = OnDisk[f]
    BY LoadedIsOnDisk DEF MetaPending
<1> QED  BY <1>1, DefinitionsAreTyped DEF ReloadTyped

LEMMA ReloadInitInv == ReloadInit => ReloadInv
<1> SUFFICES ASSUME ReloadInit PROVE ReloadInv
    OBVIOUS
<1>1. ReloadTyped
    <2>1. metaDisk \in [MetaFiles -> ContentsOfMeta] /\ spec \in [MetaFiles -> Defined]
        BY ReloadAssumption DEF ReloadInit, ContentsOfMeta, Defined
    <2>2. codeDisk \in [Handlers -> Versions]
        BY ReloadAssumption DEF ReloadInit, Versions
    <2>3. /\ unread \in [Loaders -> SUBSET MetaFiles]
          /\ parsed \in [Loaders -> SUBSET (MetaFiles \X ContentsOfMeta)]
          /\ seen \in [Files -> SUBSET (ContentsOfMeta \union Versions)]
          /\ folders \in [Slots -> SUBSET FolderReloads]
          /\ stage = "idle"
        BY DEF ReloadInit
    <2> QED  BY <2>1, <2>2, <2>3 DEF ReloadTyped
<1>2. \A l \in Loaders : ~Running(l)
    BY DEF ReloadInit, Running
<1>3. LoadsInv
    BY <1>1, <1>2, LoopIsALoader
    DEF ReloadInit, LoadsInv, UnaskedAreIdle, StagesMatch, CachesMatchSpec, ShownFollows, FoldersInOrder
<1>4. OnDisk = spec /\ PendingFiles = {}
    <2>1. \A f \in MetaFiles : OnDisk[f] = spec[f]
        BY ReloadAssumption DEF ReloadInit, OnDisk, Definition
    <2>2. OnDisk = spec
        BY <1>1, <2>1, DefinitionsAreTyped DEF ReloadTyped
    <2> QED  BY <2>2 DEF ReloadInit, PendingFiles
<1>5. FreshInv
    BY <1>4, LoopIsALoader DEF ReloadInit, FreshInv, FreshFile, RequestsReadFresh
<1>6. RequestsRunAlone /\ CachesFollow
    BY <1>2, <1>4, LoopIsALoader DEF ReloadInit, RequestsRunAlone, CachesFollow
<1>7. PriorIsCached
    <2>1. ~Overflows(specMap)
        BY ReloadAssumption DEF ReloadInit, Overflows
    <2> QED  BY <1>2, <2>1, LoopIsALoader DEF ReloadInit, PriorIsCached
<1>8. ReadingsRight /\ HandlersFollow
    BY DEF ReloadInit, ReadingsRight, HandlersFollow, HandlersRight, Fetched
<1> QED  BY <1>3, <1>5, <1>6, <1>7, <1>8 DEF ReloadInv, CalmInv

-----------------------------------------------------------------------------
(* Steps that leave the specification and the loads alone.                  *)
LEMMA LoadsStandStill ==
    ASSUME LoadsInv, ReloadTyped', StagesMatch', FoldersInOrder', UNCHANGED <<specVars, unread, parsed>>,
           asked' = asked, hurried' => crossed'
    PROVE  LoadsInv'
<1>1. UnaskedAreIdle'
    BY DEF LoadsInv, UnaskedAreIdle, Running
<1>2. CachesMatchSpec' /\ ShownFollows'
    BY DEF LoadsInv, CachesMatchSpec, ShownFollows, Overflows, Running, specVars
<1> QED  BY <1>1, <1>2 DEF LoadsInv

(* If moreover no change of a file is settled by the step, or only one that *)
(* left the file as it is everywhere, what was fresh is fresh.              *)
LEMMA FreshStandsStill ==
    ASSUME FreshInv, UNCHANGED <<metaDisk, spec, unread, parsed>>,
           \A f \in MetaFiles \ PendingFiles' : f \notin PendingFiles \/ FreshFile(f)
    PROVE  FreshInv'
<1>1. \A f \in MetaFiles : FreshFile(f)' <=> FreshFile(f)
    BY DEF FreshFile, InFlight, OnDisk
<1>2. RequestsReadFresh'
    BY DEF FreshInv, RequestsReadFresh
<1>3. \A f \in MetaFiles \ PendingFiles' : FreshFile(f)'
    BY <1>1 DEF FreshInv
<1> QED  BY <1>2, <1>3 DEF FreshInv

LEMMA PriorStandsStill ==
    ASSUME PriorIsCached, UNCHANGED <<specVars, unread, parsed>>
    PROVE  PriorIsCached'
BY LoopIsALoader DEF PriorIsCached, Overflows, Running, specVars

LEMMA ChangeMetaKeepsInv ==
    ASSUME ReloadInv, NEW f \in MetaFiles, ChangeMeta(f)
    PROVE  ReloadInv'
<1>1. /\ \E content \in ContentsOfMeta : metaDisk' = [metaDisk EXCEPT ![f] = content]
      /\ events' = events \union {f}
      /\ hurried' = (hurried \/ \E q \in Requests : Running(q))
      /\ crossed' = (crossed \/ \E q \in Requests : Running(q))
      /\ UNCHANGED <<codeDisk, seen, specVars, unread, parsed, asked, dirtyFiles, stage, batch,
                     registryVars, slipped, outdated>>
    BY DEF ChangeMeta, Changed, loadVars, loopVars, ContentsOfMeta
<1>2. ReloadTyped' /\ StagesMatch' /\ FoldersInOrder'
    BY <1>1
    DEF ReloadInv, LoadsInv, ReloadTyped, StagesMatch, FoldersInOrder, Running, specVars, registryVars
<1>3. LoadsInv'
    BY <1>1, <1>2, LoadsStandStill DEF ReloadInv, LoadsInv
<1>4. PendingFiles' = PendingFiles \union {f}
    BY <1>1 DEF PendingFiles
<1>5. \A x \in MetaFiles \ {f} : metaDisk'[x] = metaDisk[x] /\ OnDisk'[x] = OnDisk[x]
    BY <1>1 DEF ReloadInv, LoadsInv, ReloadTyped, OnDisk
<1>6. ASSUME ~hurried'
      PROVE  FreshInv'
    <2>1. FreshInv /\ \A q \in Requests : parsed[q] = {}
        BY <1>1, <1>6 DEF ReloadInv, Running
    <2>2. RequestsReadFresh'
        BY <1>1, <2>1 DEF RequestsReadFresh
    <2>3. \A x \in MetaFiles \ PendingFiles' : FreshFile(x)'
        <3> SUFFICES ASSUME NEW x \in MetaFiles \ PendingFiles' PROVE FreshFile(x)'
            OBVIOUS
        <3>1. x # f /\ FreshFile(x)
            BY <1>4, <2>1 DEF FreshInv
        <3> QED  BY <1>1, <1>5, <3>1 DEF FreshFile, InFlight, specVars
    <2> QED  BY <2>2, <2>3 DEF FreshInv
<1>7. ASSUME ~crossed', stage' # "stuck"
      PROVE  CalmInv'
    <2>1. CalmInv /\ \A q \in Requests : ~Running(q)
        BY <1>1, <1>7 DEF ReloadInv
    <2>2. \A l \in Loaders : Running(l)' <=> Running(l)
        BY <1>1 DEF Running
    <2>3. RequestsRunAlone'
        BY <2>1, <2>2, LoopIsALoader DEF RequestsRunAlone
    <2>4. CachesFollow'
        BY <1>4, <2>1, <2>2, LoopIsALoader DEF CachesFollow, MetaPending
    <2>5. PriorIsCached'
        BY <1>1, <2>1, PriorStandsStill DEF CalmInv
    <2>6. UNCHANGED <<codeDisk, registered, regDirty, folders, outdated, batch, specMap, stage, changed>>
        BY <1>1 DEF specVars, registryVars
    <2>7. ReadingsRight'
        BY <1>4, <2>1, <2>6 DEF CalmInv, ReadingsRight, Current
    <2>8. HandlersFollow'
        BY <1>4, <2>1, <2>6 DEF CalmInv, HandlersFollow, HandlersRight, FoldersPending, Fetched
    <2> QED  BY <2>3, <2>4, <2>5, <2>7, <2>8 DEF CalmInv
<1> QED  BY <1>3, <1>6, <1>7 DEF ReloadInv

LEMMA ChangeCodeKeepsInv ==
    ASSUME ReloadInv, NEW h \in Handlers, ChangeCode(h)
    PROVE  ReloadInv'
<1>1. /\ \E version \in Versions : codeDisk' = [codeDisk EXCEPT ![h] = version]
      /\ events' = events \union {h}
      /\ hurried' <=> hurried
      /\ crossed' = (crossed \/ \E q \in Requests : Running(q))
      /\ UNCHANGED <<metaDisk, seen, specVars, unread, parsed, asked, dirtyFiles, stage, batch,
                     registryVars, slipped, outdated>>
    BY ReloadAssumption DEF ChangeCode, Changed, loadVars, loopVars, Versions
<1>2. ReloadTyped' /\ StagesMatch' /\ FoldersInOrder'
    BY <1>1
    DEF ReloadInv, LoadsInv, ReloadTyped, StagesMatch, FoldersInOrder, Running, specVars, registryVars
<1>3. LoadsInv'
    BY <1>1, <1>2, LoadsStandStill DEF ReloadInv, LoadsInv
<1>4. PendingFiles' = PendingFiles \union {h} /\ h \notin MetaFiles
    BY <1>1, ReloadAssumption DEF PendingFiles
<1>5. ASSUME ~hurried'
      PROVE  FreshInv'
    BY <1>1, <1>4, <1>5, FreshStandsStill DEF ReloadInv, specVars
<1>6. ASSUME ~crossed', stage' # "stuck"
      PROVE  CalmInv'
    <2>1. CalmInv /\ \A q \in Requests : ~Running(q)
        BY <1>1, <1>6 DEF ReloadInv
    <2>2. \A l \in Loaders : Running(l)' <=> Running(l)
        BY <1>1 DEF Running
    <2>3. RequestsRunAlone'
        BY <2>1, <2>2, LoopIsALoader DEF RequestsRunAlone
    <2>4. OnDisk' = OnDisk /\ Listed' = Listed /\ (MetaPending' <=> MetaPending)
        BY <1>1, <1>4 DEF OnDisk, Listed, MetaPending
    <2>5. CachesFollow'
        BY <1>1, <2>1, <2>2, <2>4, LoopIsALoader DEF CalmInv, CachesFollow, specVars
    <2>6. PriorIsCached'
        BY <1>1, <2>1, PriorStandsStill DEF CalmInv
    <2>7. UNCHANGED <<registered, regDirty, folders, outdated, batch, specMap, stage, changed>>
        BY <1>1 DEF specVars, registryVars
    <2>8. \A x \in Handlers \ {h} : codeDisk'[x] = codeDisk[x]
        BY <1>1 DEF ReloadInv, LoadsInv, ReloadTyped
    <2>9. ReadingsRight'
        <3> SUFFICES ASSUME NEW r \in Slots \ outdated, NEW reload \in folders[r], NEW x \in Handlers
                     PROVE  (\/ reload.read[x] = Asked
                             \/ Current(x, reload.read[x]) /\ (x \in HandlerNames(specMap) \/ FolderOf[x] = reload.at)
                             \/ reload.read[x] = 0 /\ x \notin HandlerNames(specMap) /\ FolderOf[x] # reload.at)'
            BY <2>7 DEF ReadingsRight
        <3>1. \/ reload.read[x] = Asked
              \/ Current(x, reload.read[x]) /\ (x \in HandlerNames(specMap) \/ FolderOf[x] = reload.at)
              \/ reload.read[x] = 0 /\ x \notin HandlerNames(specMap) /\ FolderOf[x] # reload.at
            BY <2>1 DEF CalmInv, ReadingsRight
        <3>2. Current(x, reload.read[x]) => Current(x, reload.read[x])'
            BY <1>4, <2>7, <2>8 DEF Current
        <3> QED  BY <2>7, <3>1, <3>2
    <2>10. HandlersFollow'
        <3>1. CASE FoldersPending
            BY <2>7, <3>1 DEF HandlersFollow, FoldersPending
        <3>2. CASE ~FoldersPending
            <4>1. HandlersRight
                BY <2>1, <3>2 DEF CalmInv, HandlersFollow
            <4>2. \A x \in Handlers \ {h} : Fetched(x)' = Fetched(x)
                BY <2>7, <2>8 DEF Fetched
            <4>3. HandlersRight'
                BY <1>4, <2>7, <2>8, <4>1, <4>2 DEF HandlersRight
            <4> QED  BY <4>3 DEF HandlersFollow
        <3> QED  BY <3>1, <3>2
    <2> QED  BY <2>3, <2>5, <2>6, <2>9, <2>10 DEF CalmInv
<1> QED  BY <1>3, <1>5, <1>6 DEF ReloadInv

-----------------------------------------------------------------------------
(* Steps that move a file along the watcher.                                *)
LEMMA NoticeKeepsInv ==
    ASSUME ReloadInv, NEW f \in Files, Notice(f)
    PROVE  ReloadInv'
<1>1. /\ f \in events /\ events' = events \ {f}
      /\ seen' = [seen EXCEPT ![f] = @ \union {Content(f)}]
      /\ UNCHANGED <<metaDisk, codeDisk, specVars, unread, parsed, asked, dirtyFiles, stage, batch,
                     registryVars, hurried, crossed, slipped, outdated>>
    BY DEF Notice, diskVars, loadVars, loopVars, auxVars
<1>2. Content(f) \in ContentsOfMeta \union Versions
    BY DEF Content, Files, ReloadInv, LoadsInv, ReloadTyped
<1>3. ReloadTyped' /\ StagesMatch' /\ FoldersInOrder'
    BY <1>1, <1>2
    DEF ReloadInv, LoadsInv, ReloadTyped, StagesMatch, FoldersInOrder, Running, specVars, registryVars
<1>4. LoadsInv'
    BY <1>1, <1>3, LoadsStandStill DEF ReloadInv, LoadsInv
<1>5. PendingFiles' = PendingFiles
    <2>1. seen'[f] # {} /\ \A x \in Files \ {f} : seen'[x] = seen[x]
        BY <1>1 DEF ReloadInv, LoadsInv, ReloadTyped
    <2> QED  BY <1>1, <2>1 DEF PendingFiles
<1>6. ASSUME ~hurried'
      PROVE  FreshInv'
    BY <1>1, <1>5, <1>6, FreshStandsStill DEF ReloadInv, specVars
<1>7. ASSUME ~crossed', stage' # "stuck"
      PROVE  CalmInv'
    <2>1. CalmInv
        BY <1>1, <1>7 DEF ReloadInv
    <2>2. UNCHANGED <<stage, batch, regDirty, registered, folders, outdated, changed, codeDisk, metaDisk,
                      spec, specMap, unread, parsed>>
        BY <1>1 DEF specVars, registryVars
    <2>3. RequestsRunAlone' /\ CachesFollow'
        BY <1>5, <2>1, <2>2
        DEF CalmInv, RequestsRunAlone, CachesFollow, MetaPending, OnDisk, Listed, Running
    <2>4. PriorIsCached'
        BY <1>1, <2>1, PriorStandsStill DEF CalmInv
    <2>5. ReadingsRight'
        BY <1>5, <2>1, <2>2 DEF CalmInv, ReadingsRight, Current
    <2>6. HandlersFollow'
        BY <1>5, <2>1, <2>2 DEF CalmInv, HandlersFollow, HandlersRight, FoldersPending, Fetched
    <2> QED  BY <2>3, <2>4, <2>5, <2>6 DEF CalmInv
<1> QED  BY <1>4, <1>6, <1>7 DEF ReloadInv

(* A report makes the file dirty, or has slipped, or nothing of the file is *)
(* missed anywhere.                                                         *)
LEMMA ReportKeepsInv ==
    ASSUME ReloadInv, NEW f \in Files, Report(f)
    PROVE  ReloadInv'
<1>1. PICK content \in seen[f] :
        /\ seen' = [seen EXCEPT ![f] = @ \ {content}]
        /\ \/ dirtyFiles' = dirtyFiles \union {f} /\ slipped' = slipped
           \/ dirtyFiles' = dirtyFiles /\ slipped' = slipped \union {f}
           \/ dirtyFiles' = dirtyFiles /\ slipped' = slipped /\ ~Missed(f)
        /\ UNCHANGED <<metaDisk, codeDisk, events, specVars, unread, parsed, asked, stage, batch,
                       registryVars, hurried, crossed, outdated>>
    BY DEF Report, diskVars, loadVars
<1>2. ReloadTyped' /\ StagesMatch' /\ FoldersInOrder'
    BY <1>1
    DEF ReloadInv, LoadsInv, ReloadTyped, StagesMatch, FoldersInOrder, Running, specVars, registryVars
<1>3. LoadsInv'
    BY <1>1, <1>2, LoadsStandStill DEF ReloadInv, LoadsInv
<1>4. /\ f \in PendingFiles
      /\ PendingFiles' \subseteq PendingFiles
      /\ PendingFiles \ {f} \subseteq PendingFiles'
      /\ f \notin PendingFiles' => ~Missed(f)
    <2>1. \A x \in Files \ {f} : seen'[x] = seen[x]
        BY <1>1 DEF ReloadInv, LoadsInv, ReloadTyped
    <2>2. seen'[f] \subseteq seen[f] /\ seen[f] # {}
        BY <1>1 DEF ReloadInv, LoadsInv, ReloadTyped
    <2> QED  BY <1>1, <2>1, <2>2 DEF PendingFiles
<1>5. UNCHANGED <<stage, batch, regDirty, registered, folders, outdated, changed, codeDisk, metaDisk,
                  spec, specMap, unread, parsed>>
    BY <1>1 DEF specVars, registryVars
<1>6. ASSUME ~hurried'
      PROVE  FreshInv'
    <2>1. FreshInv
        BY <1>1, <1>6 DEF ReloadInv
    <2>2. ASSUME f \in MetaFiles \ PendingFiles'
          PROVE  FreshFile(f)
        <3>1. spec[f] = OnDisk[f] /\ \A l \in Loaders : parsed[l] = {}
            BY <1>4, <2>2 DEF Missed, Running
        <3> QED  BY <3>1 DEF FreshFile
    <2>3. \A x \in MetaFiles \ PendingFiles' : x \notin PendingFiles \/ FreshFile(x)
        BY <1>4, <2>2
    <2> QED  BY <1>5, <2>1, <2>3, FreshStandsStill
<1>7. ASSUME ~crossed', stage' # "stuck"
      PROVE  CalmInv'
    <2>1. CalmInv
        BY <1>1, <1>7 DEF ReloadInv
    <2>2. RequestsRunAlone'
        BY <1>4, <1>5, <2>1 DEF CalmInv, RequestsRunAlone, Running
    <2>3. CachesFollow'
        <3>1. ASSUME f \in MetaFiles \ PendingFiles'
              PROVE  specMap = spec
            BY <1>4, <3>1 DEF Missed
        <3>2. MetaPending => MetaPending' \/ specMap = spec
            BY <1>4, <3>1 DEF MetaPending
        <3> QED  BY <1>5, <2>1, <3>2 DEF CalmInv, CachesFollow, OnDisk, Listed, Running
    <2>4. PriorIsCached'
        BY <1>1, <2>1, PriorStandsStill DEF CalmInv
    <2>5. ASSUME f \in Handlers \ PendingFiles'
          PROVE  /\ \A r \in Slots : folders[r] = {}
                 /\ f \notin HandlerNames(specMap) => registered[f] = 0
                 /\ f \in HandlerNames(specMap) => Fetched(f) = codeDisk[f]
        <3>1. f \notin MetaFiles
            BY <2>5, ReloadAssumption
        <3>2. IdleSlots = Slots /\ Fetched(f) = IF f \in HandlerNames(specMap) THEN codeDisk[f] ELSE 0
            BY <1>4, <2>5, <3>1 DEF Missed
        <3> QED  BY <2>5, <3>2 DEF IdleSlots, Fetched
    <2>6. ReadingsRight'
        <3> SUFFICES ASSUME NEW r \in Slots \ outdated, NEW reload \in folders[r], NEW x \in Handlers
                     PROVE  (\/ reload.read[x] = Asked
                             \/ Current(x, reload.read[x]) /\ (x \in HandlerNames(specMap) \/ FolderOf[x] = reload.at)
                             \/ reload.read[x] = 0 /\ x \notin HandlerNames(specMap) /\ FolderOf[x] # reload.at)'
            BY <1>5 DEF ReadingsRight
        <3>1. x \in PendingFiles => x \in PendingFiles'
            BY <1>4, <2>5
        <3>2. Current(x, reload.read[x]) => Current(x, reload.read[x])'
            BY <1>5, <3>1 DEF Current
        <3> QED  BY <1>5, <2>1, <3>2 DEF CalmInv, ReadingsRight
    <2>7. HandlersFollow'
        <3>1. CASE FoldersPending
            BY <1>5, <3>1 DEF HandlersFollow, FoldersPending
        <3>2. CASE ~FoldersPending
            <4>1. HandlersRight
                BY <2>1, <3>2 DEF CalmInv, HandlersFollow
            <4>2. \A x \in Handlers : Fetched(x)' = Fetched(x)
                BY <1>5 DEF Fetched
            <4>3. HandlersRight'
                BY <1>4, <1>5, <2>5, <4>1, <4>2 DEF HandlersRight
            <4> QED  BY <4>3 DEF HandlersFollow
        <3> QED  BY <3>1, <3>2
    <2> QED  BY <2>2, <2>3, <2>4, <2>6, <2>7 DEF CalmInv
<1> QED  BY <1>3, <1>6, <1>7 DEF ReloadInv

-----------------------------------------------------------------------------
(* Steps of the registry: the files, the specification and the loads stay.  *)
LEMMA LoadsDoNotCare ==
    ASSUME CalmInv, UNCHANGED <<metaDisk, specVars, unread, parsed>>,
           PendingFiles' \subseteq PendingFiles, PendingFiles \intersect MetaFiles \subseteq PendingFiles',
           stage' = stage \/ stage # "idle"
    PROVE  RequestsRunAlone' /\ PriorIsCached' /\ CachesFollow'
<1>1. \A l \in Loaders : Running(l)' <=> Running(l)
    BY DEF Running
<1>2. (MetaPending' <=> MetaPending) /\ OnDisk' = OnDisk /\ Listed' = Listed
    BY DEF MetaPending, OnDisk, Listed
<1>3. RequestsRunAlone'
    BY <1>1, LoopIsALoader DEF CalmInv, RequestsRunAlone
<1>4. PriorIsCached'
    BY PriorStandsStill DEF CalmInv
<1>5. CachesFollow'
    BY <1>1, <1>2, LoopIsALoader DEF CalmInv, CachesFollow, specVars
<1> QED  BY <1>3, <1>4, <1>5

LEMMA RegistryLooksAtKeepsInv ==
    ASSUME ReloadInv, NEW f \in Files, RegistryLooksAt(f)
    PROVE  ReloadInv'
<1>1. /\ stage = "registry" /\ f \in batch /\ batch' = batch \ {f}
      /\ stage' = IF batch' = {} THEN "idle" ELSE stage
      /\ IF Gone(f) \/ changed THEN ReloadAllFolders(f) ELSE LeaveForLookup(f)
      /\ UNCHANGED <<metaDisk, codeDisk, events, seen, specVars, unread, parsed, asked, dirtyFiles,
                     registered, hurried, crossed>>
    BY DEF RegistryLooksAt, diskVars, watchVars, loadVars
<1>2. ASSUME Gone(f) \/ changed
      PROVE  \E r \in Slots :
                /\ folders' = [folders EXCEPT ![r] = {AllFolders}]
                /\ slipped' = slipped \ Handlers
                /\ outdated' = outdated \union HaveRead({f} \union slipped)
                /\ regDirty' = regDirty
    <2>1. IdleSlots # {} /\ IdleSlots \subseteq Slots
        BY <1>1, <1>2 DEF ReloadAllFolders, IdleSlots
    <2>2. FreeSlot \in Slots
        BY <2>1 DEF FreeSlot
    <2> QED  BY <1>1, <1>2, <2>2 DEF ReloadAllFolders
<1>3. ASSUME ~(Gone(f) \/ changed)
      PROVE  /\ regDirty' = regDirty \union ({f} \intersect Handlers)
             /\ UNCHANGED <<folders, slipped, outdated>>
    BY <1>1, <1>3 DEF LeaveForLookup
<1>4. AllFolders \in FolderReloads /\ AllFolders.at = 1 /\ \A h \in Handlers : AllFolders.read[h] = Asked
    BY ReloadAssumption DEF AllFolders, FolderReloads
<1>5. folders' \in [Slots -> SUBSET FolderReloads]
    BY <1>2, <1>3, <1>4 DEF ReloadInv, LoadsInv, ReloadTyped
<1>6. FoldersInOrder'
    <2>1. ASSUME NEW r \in Slots, NEW reload \in folders'[r]
          PROVE  reload \in folders[r] \/ reload = AllFolders
        BY <1>2, <1>3, <2>1 DEF ReloadInv, LoadsInv, ReloadTyped
    <2>2. \A h \in Handlers : /\ FolderOf[h] > AllFolders.at => AllFolders.read[h] = Asked
                              /\ ~(FolderOf[h] < AllFolders.at)
        BY <1>4, ReloadAssumption
    <2> QED  BY <2>1, <2>2 DEF FoldersInOrder, ReloadInv, LoadsInv
<1>7. LoadsInv'
    <2>1. ReloadTyped'
        BY <1>1, <1>5 DEF ReloadInv, LoadsInv, ReloadTyped, specVars
    <2>2. StagesMatch'
        BY <1>1 DEF ReloadInv, LoadsInv, StagesMatch, Running
    <2> QED  BY <1>1, <1>6, <2>1, <2>2, LoadsStandStill DEF ReloadInv, LoadsInv
<1>8. PendingFiles' \subseteq PendingFiles /\ PendingFiles \intersect MetaFiles \subseteq PendingFiles'
    BY <1>1, <1>2, <1>3, ReloadAssumption DEF PendingFiles
<1>9. ASSUME ~hurried'
      PROVE  FreshInv'
    BY <1>1, <1>8, <1>9, FreshStandsStill DEF ReloadInv, specVars
<1>10. ASSUME ~crossed', stage' # "stuck"
       PROVE  CalmInv'
    <2>1. CalmInv
        BY <1>1, <1>10 DEF ReloadInv
    <2>2. RequestsRunAlone' /\ PriorIsCached' /\ CachesFollow'
        BY <1>1, <1>8, <2>1, LoadsDoNotCare
    <2>3. UNCHANGED <<codeDisk, specMap, changed, registered>>
        BY <1>1 DEF specVars
    <2>4. CASE Gone(f) \/ changed
        <3>1. PICK r \in Slots :
                /\ folders' = [folders EXCEPT ![r] = {AllFolders}]
                /\ slipped' = slipped \ Handlers
                /\ outdated' = outdated \union HaveRead({f} \union slipped)
                /\ regDirty' = regDirty
            BY <1>2, <2>4
        <3>2. ReadingsRight'
            <4> SUFFICES ASSUME NEW s \in Slots \ outdated', NEW reload \in folders'[s], NEW x \in Handlers,
                                reload.read[x] # Asked
                         PROVE  (\/ Current(x, reload.read[x])
                                        /\ (x \in HandlerNames(specMap) \/ FolderOf[x] = reload.at)
                                 \/ reload.read[x] = 0 /\ x \notin HandlerNames(specMap)
                                        /\ FolderOf[x] # reload.at)'
                BY DEF ReadingsRight
            <4>1. s # r /\ reload \in folders[s]
                BY <1>4, <3>1 DEF ReloadInv, LoadsInv, ReloadTyped
            <4>2. s \notin outdated /\ x \notin {f} \union slipped
                BY <3>1, <4>1 DEF HaveRead
            <4>3. \/ Current(x, reload.read[x]) /\ (x \in HandlerNames(specMap) \/ FolderOf[x] = reload.at)
                  \/ reload.read[x] = 0 /\ x \notin HandlerNames(specMap) /\ FolderOf[x] # reload.at
                BY <2>1, <4>1, <4>2 DEF CalmInv, ReadingsRight
            <4>4. Current(x, reload.read[x]) => Current(x, reload.read[x])'
                BY <1>1, <3>1, <4>2 DEF Current, PendingFiles
            <4> QED  BY <2>3, <4>3, <4>4
        <3>3. HandlersFollow'
            <4>1. folders'[r] # {}
                BY <3>1 DEF ReloadInv, LoadsInv, ReloadTyped
            <4> QED  BY <4>1 DEF HandlersFollow, FoldersPending
        <3> QED  BY <2>2, <3>2, <3>3 DEF CalmInv
    <2>5. CASE ~(Gone(f) \/ changed)
        <3>1. /\ regDirty' = regDirty \union ({f} \intersect Handlers)
              /\ UNCHANGED <<folders, slipped, outdated>>
            BY <1>3, <2>5
        <3>2. PendingFiles' = PendingFiles
            BY <1>1, <3>1 DEF PendingFiles
        <3>3. f \in Handlers => codeDisk[f] # 0 /\ f \in regDirty'
            BY <2>5, <3>1, ReloadAssumption DEF Gone, Content
        <3>4. ReadingsRight'
            <4> SUFFICES ASSUME NEW s \in Slots \ outdated, NEW reload \in folders[s], NEW x \in Handlers
                         PROVE  (\/ reload.read[x] = Asked
                                 \/ Current(x, reload.read[x])
                                        /\ (x \in HandlerNames(specMap) \/ FolderOf[x] = reload.at)
                                 \/ reload.read[x] = 0 /\ x \notin HandlerNames(specMap)
                                        /\ FolderOf[x] # reload.at)'
                BY <3>1 DEF ReadingsRight
            <4>1. Current(x, reload.read[x]) => Current(x, reload.read[x])'
                BY <1>1, <2>3, <3>1, <3>2, <3>3 DEF Current
            <4> QED  BY <2>1, <2>3, <4>1 DEF CalmInv, ReadingsRight
        <3>5. HandlersFollow'
            <4>1. CASE \E r \in Slots : folders[r] # {}
                BY <3>1, <4>1 DEF HandlersFollow, FoldersPending
            <4>2. CASE ~\E r \in Slots : folders[r] # {}
                <5>1. HandlersRight
                    BY <2>1, <2>5, <4>2 DEF CalmInv, HandlersFollow, FoldersPending
                <5>2. \A x \in Handlers \ {f} : Fetched(x)' = Fetched(x)
                    BY <2>3, <3>1 DEF Fetched
                <5>3. f \in Handlers /\ f \in HandlerNames(specMap) => Fetched(f)' = codeDisk'[f]
                    BY <2>3, <3>3 DEF Fetched
                <5>4. HandlersRight'
                    BY <1>1, <2>3, <3>2, <5>1, <5>2, <5>3 DEF HandlersRight
                <5> QED  BY <5>4 DEF HandlersFollow
            <4> QED  BY <4>1, <4>2
        <3> QED  BY <2>2, <3>4, <3>5 DEF CalmInv
    <2> QED  BY <2>4, <2>5
<1> QED  BY <1>7, <1>9, <1>10 DEF ReloadInv

(* A step of a folder reload that leaves everything but the reload alone.   *)
LEMMA ReloadGoesOn ==
    ASSUME ReloadInv, NEW r \in Slots, NEW reload \in folders[r], NEW new \in FolderReloads,
           folders' = [folders EXCEPT ![r] = {new}],
           \A h \in Handlers : /\ FolderOf[h] > new.at => new.read[h] = Asked
                               /\ FolderOf[h] < new.at => new.read[h] # Asked,
           ~crossed /\ stage # "stuck" /\ r \notin outdated => \A h \in Handlers :
               \/ new.read[h] = Asked
               \/ Current(h, new.read[h]) /\ (h \in HandlerNames(specMap) \/ FolderOf[h] = new.at)
               \/ new.read[h] = 0 /\ h \notin HandlerNames(specMap) /\ FolderOf[h] # new.at,
           UNCHANGED <<diskVars, watchVars, specVars, loadVars, asked, loopVars, regDirty, registered,
                       auxVars>>
    PROVE  ReloadInv'
<1>1. UNCHANGED <<metaDisk, codeDisk, events, seen, specVars, specMap, unread, parsed, asked, dirtyFiles,
                  stage, batch, changed, hurried, crossed, slipped, outdated>>
    BY DEF diskVars, watchVars, specVars, loadVars, loopVars, auxVars
<1>2. folders'[r] = {new} /\ \A s \in Slots \ {r} : folders'[s] = folders[s]
    BY DEF ReloadInv, LoadsInv, ReloadTyped
<1>3. LoadsInv'
    <2>1. ReloadTyped' /\ StagesMatch'
        BY <1>1 DEF ReloadInv, LoadsInv, ReloadTyped, StagesMatch, Running, specVars
    <2>2. FoldersInOrder'
        BY <1>2 DEF ReloadInv, LoadsInv, FoldersInOrder
    <2> QED  BY <1>1, <2>1, <2>2, LoadsStandStill DEF ReloadInv, LoadsInv
<1>4. PendingFiles' = PendingFiles
    BY <1>1 DEF PendingFiles
<1>5. ASSUME ~hurried'
      PROVE  FreshInv'
    BY <1>1, <1>4, <1>5, FreshStandsStill DEF ReloadInv, specVars
<1>6. ASSUME ~crossed', stage' # "stuck"
      PROVE  CalmInv'
    <2>1. CalmInv
        BY <1>1, <1>6 DEF ReloadInv
    <2>2. RequestsRunAlone' /\ PriorIsCached' /\ CachesFollow'
        BY <1>1, <1>4, <2>1, LoadsDoNotCare
    <2>3. ReadingsRight'
        <3> SUFFICES ASSUME NEW s \in Slots \ outdated, NEW z \in folders'[s], NEW h \in Handlers
                     PROVE  (\/ z.read[h] = Asked
                             \/ Current(h, z.read[h]) /\ (h \in HandlerNames(specMap) \/ FolderOf[h] = z.at)
                             \/ z.read[h] = 0 /\ h \notin HandlerNames(specMap) /\ FolderOf[h] # z.at)'
            BY <1>1 DEF ReadingsRight
        <3>1. \/ z.read[h] = Asked
              \/ Current(h, z.read[h]) /\ (h \in HandlerNames(specMap) \/ FolderOf[h] = z.at)
              \/ z.read[h] = 0 /\ h \notin HandlerNames(specMap) /\ FolderOf[h] # z.at
            <4>1. CASE s = r
                BY <1>1, <1>2, <1>6, <4>1
            <4>2. CASE s # r
                BY <1>2, <2>1, <4>2 DEF CalmInv, ReadingsRight
            <4> QED  BY <4>1, <4>2
        <3>2. Current(h, z.read[h]) => Current(h, z.read[h])'
            BY <1>1, <1>4 DEF Current
        <3> QED  BY <1>1, <3>1, <3>2
    <2>4. HandlersFollow'
        BY <1>2 DEF HandlersFollow, FoldersPending
    <2> QED  BY <2>2, <2>3, <2>4 DEF CalmInv
<1> QED  BY <1>3, <1>5, <1>6 DEF ReloadInv

LEMMA FolderReadsKeepsInv ==
    ASSUME ReloadInv, NEW r \in Slots, NEW h \in Handlers, FolderReads(r, h)
    PROVE  ReloadInv'
<1>1. PICK reload \in folders[r] :
        /\ FolderOf[h] = reload.at /\ reload.read[h] = Asked
        /\ folders' = [folders EXCEPT ![r] = {[reload EXCEPT !.read[h] = codeDisk[h]]}]
        /\ UNCHANGED <<diskVars, watchVars, specVars, loadVars, asked, loopVars, regDirty, registered,
                       auxVars>>
    BY DEF FolderReads, InFolder
<1> DEFINE new == [reload EXCEPT !.read[h] = codeDisk[h]]
<1>2. reload \in FolderReloads /\ codeDisk[h] \in Versions
    BY DEF ReloadInv, LoadsInv, ReloadTyped
<1>3. /\ new \in FolderReloads /\ new.at = reload.at
      /\ new.read[h] = codeDisk[h] /\ \A x \in Handlers \ {h} : new.read[x] = reload.read[x]
    BY <1>2 DEF FolderReloads
<1> HIDE DEF new
<1>4. \A x \in Handlers : /\ FolderOf[x] > new.at => new.read[x] = Asked
                          /\ FolderOf[x] < new.at => new.read[x] # Asked
    <2>1. FolderOf[h] \in Nat
        BY ReloadAssumption
    <2> QED  BY <1>1, <1>3, <2>1 DEF ReloadInv, LoadsInv, FoldersInOrder
<1>5. ASSUME ~crossed, stage # "stuck", r \notin outdated, NEW x \in Handlers
      PROVE  \/ new.read[x] = Asked
             \/ Current(x, new.read[x]) /\ (x \in HandlerNames(specMap) \/ FolderOf[x] = new.at)
             \/ new.read[x] = 0 /\ x \notin HandlerNames(specMap) /\ FolderOf[x] # new.at
    <2>1. ReadingsRight
        BY <1>5 DEF ReloadInv, CalmInv
    <2>2. CASE x = h
        BY <1>1, <1>3, <2>2 DEF Current
    <2>3. CASE x # h
        BY <1>3, <1>5, <2>1, <2>3 DEF ReadingsRight
    <2> QED  BY <2>2, <2>3
<1>6. folders' = [folders EXCEPT ![r] = {new}]
    BY <1>1 DEF new
<1> QED  BY <1>1, <1>3, <1>4, <1>5, <1>6, ReloadGoesOn

(* What a reload that is not outdated has collected is current for the      *)
(* classes that annotations name, and nothing for the others.               *)
LEMMA CollectedIsRight ==
    ASSUME ReloadInv, ~crossed, stage # "stuck", NEW r \in Slots \ outdated, NEW reload \in folders[r],
           FolderRead(reload), NEW h \in Handlers, FolderOf[h] <= reload.at
    PROVE  /\ h \in HandlerNames(specMap) => Current(h, Collected(reload)[h])
           /\ h \notin HandlerNames(specMap) => Collected(reload)[h] = 0
<1>1. \/ reload.read[h] = Asked
      \/ Current(h, reload.read[h]) /\ (h \in HandlerNames(specMap) \/ FolderOf[h] = reload.at)
      \/ reload.read[h] = 0 /\ h \notin HandlerNames(specMap) /\ FolderOf[h] # reload.at
    BY DEF ReloadInv, CalmInv, ReadingsRight
<1>2. FolderOf[h] \in Nat /\ reload.at \in Nat
    BY ReloadAssumption DEF ReloadInv, LoadsInv, ReloadTyped, FolderReloads
<1>3. reload.read[h] # Asked
    BY <1>2 DEF FolderRead, InFolder, ReloadInv, LoadsInv, FoldersInOrder
<1>4. Collected(reload)[h] = IF FolderOf[h] = reload.at /\ h \notin HandlerNames(specMap)
                             THEN 0 ELSE reload.read[h]
    BY DEF Collected, InFolder
<1> QED  BY <1>1, <1>3, <1>4

LEMMA FolderCollectedKeepsInv ==
    ASSUME ReloadInv, NEW r \in Slots, FolderCollected(r)
    PROVE  ReloadInv'
<1>1. PICK reload \in folders[r] :
        /\ FolderRead(reload) /\ reload.at < FolderCount
        /\ folders' = [folders EXCEPT ![r] = {[at |-> reload.at + 1, read |-> Collected(reload)]}]
        /\ UNCHANGED <<diskVars, watchVars, specVars, loadVars, asked, loopVars, regDirty, registered,
                       auxVars>>
    BY DEF FolderCollected
<1> DEFINE new == [at |-> reload.at + 1, read |-> Collected(reload)]
<1>2. reload \in FolderReloads /\ reload.at \in Nat /\ FolderOf \in [Handlers -> Nat]
    BY ReloadAssumption DEF ReloadInv, LoadsInv, ReloadTyped, FolderReloads
<1>3. \A h \in Handlers : Collected(reload)[h] = IF FolderOf[h] = reload.at /\ h \notin HandlerNames(specMap)
                                                 THEN 0 ELSE reload.read[h]
    BY DEF Collected, InFolder
<1>4. new \in FolderReloads /\ new.at = reload.at + 1 /\ new.read = Collected(reload)
    <2>1. Collected(reload) \in [Handlers -> Versions \union {Asked}]
        BY <1>2, <1>3, ReloadAssumption DEF Collected, FolderReloads, Versions
    <2>2. reload.at + 1 \in 1 .. FolderCount
        BY <1>1, <1>2, ReloadAssumption
    <2> QED  BY <2>1, <2>2 DEF FolderReloads
<1> HIDE DEF new
<1>5. \A h \in Handlers : reload.at >= FolderOf[h] => reload.read[h] # Asked
    BY <1>1, <1>2 DEF FolderRead, InFolder, ReloadInv, LoadsInv, FoldersInOrder
<1>6. Asked # 0
    BY ReloadAssumption
<1>7. \A h \in Handlers : /\ FolderOf[h] > new.at => new.read[h] = Asked
                          /\ FolderOf[h] < new.at => new.read[h] # Asked
    BY <1>2, <1>3, <1>4, <1>5, <1>6 DEF ReloadInv, LoadsInv, FoldersInOrder
<1>8. ASSUME ~crossed, stage # "stuck", r \notin outdated, NEW h \in Handlers
      PROVE  \/ new.read[h] = Asked
             \/ Current(h, new.read[h]) /\ (h \in HandlerNames(specMap) \/ FolderOf[h] = new.at)
             \/ new.read[h] = 0 /\ h \notin HandlerNames(specMap) /\ FolderOf[h] # new.at
    <2>1. CASE FolderOf[h] <= reload.at
        <3>1. /\ h \in HandlerNames(specMap) => Current(h, Collected(reload)[h])
              /\ h \notin HandlerNames(specMap) => Collected(reload)[h] = 0
            BY <1>1, <1>8, <2>1, CollectedIsRight
        <3>2. FolderOf[h] # new.at
            BY <1>2, <1>4, <2>1
        <3> QED  BY <1>4, <3>1, <3>2
    <2>2. CASE FolderOf[h] > reload.at
        <3>1. reload.read[h] = Asked
            BY <2>2 DEF ReloadInv, LoadsInv, FoldersInOrder
        <3> QED  BY <1>2, <1>3, <1>4, <2>2, <3>1
    <2> QED  BY <1>2, <2>1, <2>2
<1>9. folders' = [folders EXCEPT ![r] = {new}]
    BY <1>1 DEF new
<1> QED  BY <1>1, <1>4, <1>7, <1>8, <1>9, ReloadGoesOn

LEMMA FolderDoneKeepsInv ==
    ASSUME ReloadInv, NEW r \in Slots, FolderDone(r)
    PROVE  ReloadInv'
<1>1. PICK reload \in folders[r] :
        /\ FolderRead(reload) /\ reload.at = FolderCount
        /\ registered' = Collected(reload)
        /\ folders' = [folders EXCEPT ![r] = {}]
        /\ outdated' = outdated \ {r}
        /\ crossed' = (crossed \/ Overtaken(r))
        /\ UNCHANGED <<metaDisk, codeDisk, events, seen, specVars, unread, parsed, asked, dirtyFiles, stage,
                       batch, regDirty, hurried, slipped>>
    BY DEF FolderDone, diskVars, watchVars, loadVars, loopVars
<1>2. folders'[r] = {} /\ \A s \in Slots \ {r} : folders'[s] = folders[s]
    BY <1>1 DEF ReloadInv, LoadsInv, ReloadTyped
<1>3. LoadsInv'
    <2>1. ReloadTyped' /\ StagesMatch'
        BY <1>1 DEF ReloadInv, LoadsInv, ReloadTyped, StagesMatch, Running, specVars
    <2>2. FoldersInOrder'
        BY <1>2 DEF ReloadInv, LoadsInv, FoldersInOrder
    <2> QED  BY <1>1, <2>1, <2>2, LoadsStandStill DEF ReloadInv, LoadsInv
<1>4. PendingFiles' = PendingFiles
    BY <1>1 DEF PendingFiles
<1>5. ASSUME ~hurried'
      PROVE  FreshInv'
    BY <1>1, <1>4, <1>5, FreshStandsStill DEF ReloadInv, specVars
<1>6. ASSUME ~crossed', stage' # "stuck"
      PROVE  CalmInv'
    <2>1. CalmInv /\ ~crossed /\ stage # "stuck" /\ ~Overtaken(r)
        BY <1>1, <1>6 DEF ReloadInv
    <2>2. RequestsRunAlone' /\ PriorIsCached' /\ CachesFollow'
        BY <1>1, <1>4, <2>1, LoadsDoNotCare
    <2>3. UNCHANGED <<codeDisk, batch, regDirty, specMap, stage, changed>>
        BY <1>1 DEF specVars
    <2>4. ReadingsRight'
        <3> SUFFICES ASSUME NEW s \in Slots \ outdated', NEW z \in folders'[s], NEW h \in Handlers
                     PROVE  (\/ z.read[h] = Asked
                             \/ Current(h, z.read[h]) /\ (h \in HandlerNames(specMap) \/ FolderOf[h] = z.at)
                             \/ z.read[h] = 0 /\ h \notin HandlerNames(specMap) /\ FolderOf[h] # z.at)'
            BY DEF ReadingsRight
        <3>1. s # r /\ s \notin outdated /\ z \in folders[s]
            BY <1>1, <1>2
        <3>2. \/ z.read[h] = Asked
              \/ Current(h, z.read[h]) /\ (h \in HandlerNames(specMap) \/ FolderOf[h] = z.at)
              \/ z.read[h] = 0 /\ h \notin HandlerNames(specMap) /\ FolderOf[h] # z.at
            BY <2>1, <3>1 DEF CalmInv, ReadingsRight
        <3>3. Current(h, z.read[h]) => Current(h, z.read[h])'
            BY <1>4, <2>3 DEF Current
        <3> QED  BY <2>3, <3>2, <3>3
    <2>5. HandlersFollow'
        <3>1. CASE stage = "registry" /\ changed
            BY <2>3, <3>1 DEF HandlersFollow, FoldersPending
        <3>2. CASE r \in outdated /\ ~(stage = "registry" /\ changed)
            <4>1. PICK s \in Slots : folders[s] # {} /\ s \notin outdated
                BY <2>1, <3>2 DEF Overtaken, IdleSlots
            <4>2. folders'[s] # {}
                BY <1>2, <3>2, <4>1
            <4> QED  BY <4>2 DEF HandlersFollow, FoldersPending
        <3>3. CASE r \notin outdated
            <4>1. ASSUME NEW h \in Handlers
                  PROVE  /\ h \in HandlerNames(specMap) => Current(h, Collected(reload)[h])
                         /\ h \notin HandlerNames(specMap) => Collected(reload)[h] = 0
                <5>1. FolderOf[h] <= reload.at
                    BY <1>1, ReloadAssumption
                <5> QED  BY <1>1, <2>1, <3>3, <5>1, CollectedIsRight
            <4>2. ASSUME NEW h \in Handlers
                  PROVE  Fetched(h)' = IF h \in regDirty /\ codeDisk[h] # 0 /\ h \in HandlerNames(specMap)
                                       THEN codeDisk[h] ELSE Collected(reload)[h]
                BY <1>1, <2>3 DEF Fetched
            <4>3. HandlersRight'
                BY <1>1, <1>4, <2>3, <4>1, <4>2 DEF HandlersRight, Current
            <4> QED  BY <4>3 DEF HandlersFollow
        <3> QED  BY <3>1, <3>2, <3>3
    <2> QED  BY <2>2, <2>4, <2>5 DEF CalmInv
<1> QED  BY <1>3, <1>5, <1>6 DEF ReloadInv

LEMMA LookupKeepsInv ==
    ASSUME ReloadInv, Lookup
    PROVE  ReloadInv'
<1>1. /\ registered' = [h \in Handlers |-> Fetched(h)]
      /\ regDirty' = {}
      /\ outdated' = outdated \union HaveRead(regDirty)
      /\ UNCHANGED <<metaDisk, codeDisk, events, seen, specVars, unread, parsed, asked, dirtyFiles, stage,
                     batch, folders, hurried, crossed, slipped>>
    BY DEF Lookup, diskVars, watchVars, loadVars, loopVars
<1>2. LoadsInv'
    <2>1. ReloadTyped' /\ StagesMatch' /\ FoldersInOrder'
        BY <1>1 DEF ReloadInv, LoadsInv, ReloadTyped, StagesMatch, FoldersInOrder, Running, specVars
    <2> QED  BY <1>1, <2>1, LoadsStandStill DEF ReloadInv, LoadsInv
<1>3. PendingFiles' = PendingFiles
    BY <1>1 DEF PendingFiles
<1>4. ASSUME ~hurried'
      PROVE  FreshInv'
    BY <1>1, <1>3, <1>4, FreshStandsStill DEF ReloadInv, specVars
<1>5. ASSUME ~crossed', stage' # "stuck"
      PROVE  CalmInv'
    <2>1. CalmInv
        BY <1>1, <1>5 DEF ReloadInv
    <2>2. RequestsRunAlone' /\ PriorIsCached' /\ CachesFollow'
        BY <1>1, <1>3, <2>1, LoadsDoNotCare
    <2>3. UNCHANGED <<codeDisk, batch, folders, specMap, stage, changed>>
        BY <1>1 DEF specVars
    <2>4. ReadingsRight'
        <3> SUFFICES ASSUME NEW s \in Slots \ outdated', NEW z \in folders[s], NEW h \in Handlers,
                            z.read[h] # Asked
                     PROVE  (\/ Current(h, z.read[h]) /\ (h \in HandlerNames(specMap) \/ FolderOf[h] = z.at)
                             \/ z.read[h] = 0 /\ h \notin HandlerNames(specMap) /\ FolderOf[h] # z.at)'
            BY <2>3 DEF ReadingsRight
        <3>1. s \notin outdated /\ h \notin regDirty
            BY <1>1 DEF HaveRead
        <3>2. \/ Current(h, z.read[h]) /\ (h \in HandlerNames(specMap) \/ FolderOf[h] = z.at)
              \/ z.read[h] = 0 /\ h \notin HandlerNames(specMap) /\ FolderOf[h] # z.at
            BY <2>1, <3>1 DEF CalmInv, ReadingsRight
        <3>3. Current(h, z.read[h]) => Current(h, z.read[h])'
            BY <1>3, <2>3, <3>1 DEF Current
        <3> QED  BY <2>3, <3>2, <3>3
    <2>5. \A x \in Handlers :
            /\ Fetched(x)' = Fetched(x) /\ registered'[x] = Fetched(x)
            /\ x \notin HandlerNames(specMap) => Fetched(x) = registered[x]
        BY <1>1, <2>3 DEF Fetched
    <2>6. HandlersFollow'
        BY <1>3, <2>1, <2>3, <2>5 DEF CalmInv, HandlersFollow, HandlersRight, FoldersPending
    <2> QED  BY <2>2, <2>4, <2>6 DEF CalmInv
<1> QED  BY <1>2, <1>4, <1>5 DEF ReloadInv

LEMMA GenerationHangsKeepsInv ==
    ASSUME ReloadInv, NEW l \in Loaders, NEW f \in MetaFiles, GenerationHangs(l, f)
    PROVE  ReloadInv'
<1>1. UNCHANGED <<metaDisk, codeDisk, events, seen, specVars, unread, parsed, asked, dirtyFiles, stage,
                  batch, registryVars, hurried, crossed, slipped, outdated>>
    BY DEF GenerationHangs, diskVars, watchVars, loopVars, auxVars
<1>2. LoadsInv'
    <2>1. ReloadTyped' /\ StagesMatch' /\ FoldersInOrder'
        BY <1>1
        DEF ReloadInv, LoadsInv, ReloadTyped, StagesMatch, FoldersInOrder, Running, specVars, registryVars
    <2> QED  BY <1>1, <2>1, LoadsStandStill DEF ReloadInv, LoadsInv
<1>3. PendingFiles' = PendingFiles
    BY <1>1 DEF PendingFiles
<1>4. ASSUME ~hurried'
      PROVE  FreshInv'
    BY <1>1, <1>3, <1>4, FreshStandsStill DEF ReloadInv, specVars
<1>5. ASSUME ~crossed', stage' # "stuck"
      PROVE  CalmInv'
    <2>1. CalmInv
        BY <1>1, <1>5 DEF ReloadInv
    <2>2. RequestsRunAlone' /\ PriorIsCached' /\ CachesFollow'
        BY <1>1, <1>3, <2>1, LoadsDoNotCare
    <2>3. ReadingsRight' /\ HandlersFollow'
        BY <1>1, <1>3, <2>1
        DEF CalmInv, ReadingsRight, Current, HandlersFollow, HandlersRight, FoldersPending, Fetched,
            specVars, registryVars
    <2> QED  BY <2>2, <2>3 DEF CalmInv
<1> QED  BY <1>2, <1>4, <1>5 DEF ReloadInv

-----------------------------------------------------------------------------
(* Steps that leave the registry and what is pending of its files alone.    *)
LEMMA HandlersStandStill ==
    ASSUME CalmInv, UNCHANGED <<codeDisk, registryVars, outdated>>,
           HandlerNames(specMap') = HandlerNames(specMap),
           \A h \in Handlers : h \in PendingFiles \union batch => h \in PendingFiles' \union batch',
           stage = "registry" /\ changed => stage' = "registry" /\ changed'
    PROVE  ReadingsRight' /\ HandlersFollow'
<1>1. UNCHANGED <<regDirty, registered, folders>>
    BY DEF registryVars
<1>2. ReadingsRight'
    <2> SUFFICES ASSUME NEW s \in Slots \ outdated, NEW z \in folders[s], NEW h \in Handlers
                 PROVE  (\/ z.read[h] = Asked
                         \/ Current(h, z.read[h]) /\ (h \in HandlerNames(specMap) \/ FolderOf[h] = z.at)
                         \/ z.read[h] = 0 /\ h \notin HandlerNames(specMap) /\ FolderOf[h] # z.at)'
        BY <1>1 DEF ReadingsRight
    <2>1. Current(h, z.read[h]) => Current(h, z.read[h])'
        BY <1>1 DEF Current
    <2> QED  BY <2>1 DEF CalmInv, ReadingsRight
<1>3. HandlersFollow'
    <2>1. CASE FoldersPending
        BY <1>1, <2>1 DEF HandlersFollow, FoldersPending
    <2>2. CASE ~FoldersPending
        <3>1. \A h \in Handlers : Fetched(h)' = Fetched(h)
            BY <1>1 DEF Fetched
        <3>2. HandlersRight
            BY <2>2 DEF CalmInv, HandlersFollow
        <3>3. HandlersRight'
            BY <1>1, <3>1, <3>2 DEF HandlersRight
        <3> QED  BY <3>3 DEF HandlersFollow
    <2> QED  BY <2>1, <2>2
<1> QED  BY <1>2, <1>3

(* The loop takes what is dirty.                                            *)
LEMMA DirtyCheckKeepsInv ==
    ASSUME ReloadInv, DirtyCheck
    PROVE  ReloadInv'
<1> DEFINE meta == dirtyFiles \intersect MetaFiles # {}
<1>1. /\ stage = "idle" /\ dirtyFiles # {} /\ dirtyFiles' = {} /\ batch' = dirtyFiles
      /\ stage' = IF meta /\ Listed # {} THEN "loading" ELSE "registry"
      /\ slipped' = (IF meta THEN slipped \ MetaFiles ELSE slipped) \ dirtyFiles
      /\ UNCHANGED <<metaDisk, codeDisk, events, seen, specMap, changed, parsed, asked, registryVars,
                     hurried, crossed, outdated>>
    BY DEF DirtyCheck, Taken, diskVars, watchVars
<1>2. meta => clear /\ unread' = [unread EXCEPT ![Loop] = Listed]
                /\ shown' = IF Listed = {} THEN NoTypes ELSE shown
    BY DEF DirtyCheck
<1>3. ~meta => UNCHANGED <<spec, prior, aliased, unread, shown>>
    BY DEF DirtyCheck
<1>4. ~Running(Loop) /\ batch = {} /\ Loop \in Loaders
    BY <1>1, LoopIsALoader DEF ReloadInv, LoadsInv, StagesMatch
<1>5. ReloadTyped'
    <2>1. spec' \in [MetaFiles -> Defined]
        BY <1>2, <1>3, DefinitionsAreTyped DEF clear, ReloadInv, LoadsInv, ReloadTyped
    <2>2. unread' \in [Loaders -> SUBSET MetaFiles]
        BY <1>2, <1>3 DEF Listed, ReloadInv, LoadsInv, ReloadTyped
    <2> QED  BY <1>1, <2>1, <2>2 DEF ReloadInv, LoadsInv, ReloadTyped, registryVars
<1>6. /\ \A q \in Requests : Running(q)' <=> Running(q)
      /\ meta => (Running(Loop)' <=> Listed # {})
      /\ ~meta => ~Running(Loop)'
    BY <1>1, <1>2, <1>3, <1>4, LoopIsALoader DEF Running, ReloadInv, LoadsInv, ReloadTyped
<1>7. LoadsInv'
    <2>1. UnaskedAreIdle'
        BY <1>1, <1>6 DEF UnaskedAreIdle, ReloadInv, LoadsInv
    <2>2. StagesMatch'
        BY <1>1, <1>6 DEF StagesMatch
    <2>3. CachesMatchSpec' /\ ShownFollows'
        <3>1. CASE meta
            BY <1>2, <1>4, <1>6, <3>1 DEF CachesMatchSpec, ShownFollows, clear
        <3>2. CASE ~meta
            BY <1>1, <1>3, <3>2
            DEF CachesMatchSpec, ShownFollows, Overflows, Running, ReloadInv, LoadsInv
        <3> QED  BY <3>1, <3>2
    <2>4. FoldersInOrder' /\ (hurried' => crossed')
        BY <1>1 DEF ReloadInv, LoadsInv, FoldersInOrder, registryVars
    <2> QED  BY <1>5, <2>1, <2>2, <2>3, <2>4 DEF LoadsInv
<1>8. OnDisk' = OnDisk /\ Listed' = Listed
    BY <1>1 DEF OnDisk, Listed
<1>9. /\ ~meta => PendingFiles' \intersect MetaFiles = PendingFiles \intersect MetaFiles
      /\ PendingFiles \subseteq PendingFiles' \union batch' \union MetaFiles
      /\ PendingFiles' \subseteq PendingFiles
    BY <1>1 DEF PendingFiles
<1>10. ASSUME ~hurried'
       PROVE  FreshInv'
    <2>1. FreshInv
        BY <1>1, <1>10 DEF ReloadInv
    <2>2. RequestsReadFresh'
        BY <1>1, <2>1 DEF FreshInv, RequestsReadFresh
    <2>3. CASE meta
        <3> SUFFICES ASSUME NEW f \in MetaFiles PROVE FreshFile(f)'
            BY <2>2 DEF FreshInv
        <3>1. spec'[f] = Absent
            BY <1>2, <2>3 DEF clear, NoTypes
        <3>2. f \in Listed => InFlight(f)'
            BY <1>2, <1>4, <2>3 DEF InFlight, ReloadInv, LoadsInv, ReloadTyped
        <3>3. f \notin Listed => OnDisk[f] = Absent
            BY DefinitionsAreTyped DEF ReloadInv, LoadsInv
        <3>4. \A l \in Loaders, content \in ContentsOfMeta : <<f, content>> \in parsed[l] => content = metaDisk[f]
            <4>1. parsed[Loop] = {}
                BY <1>4 DEF Running
            <4> QED  BY <2>1, <4>1 DEF FreshInv, RequestsReadFresh, Loaders
        <3> QED  BY <1>1, <1>8, <3>1, <3>2, <3>3, <3>4 DEF FreshFile
    <2>4. CASE ~meta
        BY <1>1, <1>3, <1>9, <2>1, <2>4, FreshStandsStill
    <2> QED  BY <2>3, <2>4
<1>11. ASSUME ~crossed', stage' # "stuck"
       PROVE  CalmInv'
    <2>1. CalmInv
        BY <1>1, <1>11 DEF ReloadInv
    <2>2. \A q \in Requests : ~Running(q)
        BY <1>1, <2>1 DEF CalmInv, RequestsRunAlone, PendingFiles
    <2>3. \A l \in Loaders : ~Running(l)
        BY <1>4, <2>2 DEF Loaders
    <2>4. RequestsRunAlone'
        BY <1>6, <2>2 DEF RequestsRunAlone
    <2>5. PriorIsCached'
        <3>1. CASE meta
            BY <1>1, <1>2, <2>1, <3>1 DEF CalmInv, PriorIsCached, Overflows, clear
        <3>2. CASE ~meta
            BY <1>1, <1>3, <1>6, <2>1, <3>2 DEF CalmInv, PriorIsCached, Overflows
        <3> QED  BY <3>1, <3>2
    <2>6. CachesFollow'
        <3>1. CASE meta
            BY <1>4, <1>6, <1>8, <2>2, <3>1 DEF CachesFollow
        <3>2. CASE ~meta
            <4>1. MetaPending' <=> MetaPending
                BY <1>9, <3>2 DEF MetaPending
            <4> QED  BY <1>1, <1>3, <1>6, <1>8, <2>1, <2>2, <2>3, <3>2, <4>1 DEF CalmInv, CachesFollow
        <3> QED  BY <3>1, <3>2
    <2>7. ReadingsRight' /\ HandlersFollow'
        <3>1. \A h \in Handlers : h \in PendingFiles \union batch => h \in PendingFiles' \union batch'
            BY <1>4, <1>9, ReloadAssumption
        <3> QED  BY <1>1, <2>1, <3>1, HandlersStandStill
    <2> QED  BY <2>4, <2>5, <2>6, <2>7 DEF CalmInv
<1> QED  BY <1>7, <1>10, <1>11 DEF ReloadInv

(* A client asks for a reload.                                              *)
LEMMA ReloadRequestKeepsInv ==
    ASSUME ReloadInv, NEW q \in Requests, NEW clearing \in BOOLEAN, ReloadRequest(q, clearing)
    PROVE  ReloadInv'
<1>1. /\ q \notin asked /\ asked' = asked \union {q}
      /\ unread' = [unread EXCEPT ![q] = Listed]
      /\ shown' = IF Listed = {} THEN spec' ELSE shown
      /\ crossed' = (crossed \/ ~Settled \/ slipped # {})
      /\ UNCHANGED <<metaDisk, codeDisk, events, seen, dirtyFiles, stage, batch, specMap, changed, parsed,
                     registryVars, hurried, slipped, outdated>>
    BY DEF ReloadRequest, diskVars, watchVars, loopVars
<1>2. clear \/ UNCHANGED <<spec, prior, aliased>>
    BY DEF ReloadRequest
<1>3. q \in Loaders /\ q # Loop /\ ~Running(q)
    BY <1>1, LoopIsALoader DEF ReloadInv, LoadsInv, UnaskedAreIdle
<1>4. ReloadTyped'
    <2>1. spec' \in [MetaFiles -> Defined]
        BY <1>2, DefinitionsAreTyped DEF clear, ReloadInv, LoadsInv, ReloadTyped
    <2>2. unread' \in [Loaders -> SUBSET MetaFiles]
        BY <1>1 DEF Listed, ReloadInv, LoadsInv, ReloadTyped
    <2> QED  BY <1>1, <2>1, <2>2 DEF ReloadInv, LoadsInv, ReloadTyped, registryVars
<1>5. /\ \A l \in Loaders \ {q} : Running(l)' <=> Running(l)
      /\ Running(q)' <=> Listed # {}
    BY <1>1, <1>3 DEF Running, ReloadInv, LoadsInv, ReloadTyped
<1>6. LoadsInv'
    <2>1. UnaskedAreIdle'
        BY <1>1, <1>5, LoopIsALoader DEF UnaskedAreIdle, ReloadInv, LoadsInv
    <2>2. StagesMatch'
        BY <1>1, <1>3, <1>5, LoopIsALoader DEF StagesMatch, ReloadInv, LoadsInv
    <2>3. CachesMatchSpec'
        <3>1. CASE clear
            BY <3>1 DEF CachesMatchSpec, clear
        <3>2. CASE UNCHANGED <<spec, prior, aliased>>
            BY <1>1, <1>3, <1>5, <3>2 DEF CachesMatchSpec, ReloadInv, LoadsInv
        <3> QED  BY <1>2, <3>1, <3>2
    <2>4. ShownFollows'
        BY <1>1, <1>3, <1>5 DEF ShownFollows
    <2>5. FoldersInOrder' /\ (hurried' => crossed')
        BY <1>1 DEF ReloadInv, LoadsInv, FoldersInOrder, registryVars
    <2> QED  BY <1>4, <2>1, <2>2, <2>3, <2>4, <2>5 DEF LoadsInv
<1>7. PendingFiles' = PendingFiles /\ OnDisk' = OnDisk /\ Listed' = Listed
    BY <1>1 DEF PendingFiles, OnDisk, Listed
<1>8. ASSUME ~hurried'
      PROVE  FreshInv'
    <2>1. FreshInv
        BY <1>1, <1>8 DEF ReloadInv
    <2>2. RequestsReadFresh'
        BY <1>1, <2>1 DEF FreshInv, RequestsReadFresh
    <2> SUFFICES ASSUME NEW f \in MetaFiles \ PendingFiles PROVE FreshFile(f)'
        BY <1>7, <2>2 DEF FreshInv
    <2>3. FreshFile(f)
        BY <2>1 DEF FreshInv
    <2>4. spec'[f] = Absent \/ spec'[f] = spec[f]
        BY <1>2 DEF clear, NoTypes
    <2>5. f \in Listed => InFlight(f)'
        BY <1>1, <1>3 DEF InFlight, ReloadInv, LoadsInv, ReloadTyped
    <2>6. f \notin Listed => OnDisk[f] = Absent
        BY DefinitionsAreTyped DEF ReloadInv, LoadsInv
    <2> QED  BY <1>1, <1>7, <2>3, <2>4, <2>5, <2>6 DEF FreshFile
<1>9. ASSUME ~crossed', stage' # "stuck"
      PROVE  CalmInv'
    <2>1. CalmInv /\ Settled /\ slipped = {} /\ ~hurried
        BY <1>1, <1>9 DEF ReloadInv, LoadsInv
    <2>2. /\ PendingFiles = {} /\ stage = "idle"
          /\ \A l \in Loaders : ~Running(l)
        BY <2>1 DEF Settled, PendingFiles
    <2>3. ~MetaPending /\ ~MetaPending'
        BY <1>7, <2>2 DEF MetaPending
    <2>4. spec = OnDisk
        BY <2>1, <2>2, <2>3, AllLoadedIsOnDisk DEF ReloadInv, LoadsInv
    <2>5. RequestsRunAlone'
        BY <1>1, <1>5, <1>7, <2>2, LoopIsALoader DEF RequestsRunAlone
    <2>6. PriorIsCached'
        <3>1. ~Running(Loop)'
            BY <1>3, <1>5, <2>2, LoopIsALoader
        <3>2. ~Overflows(specMap')
            BY <1>1, <2>1 DEF CalmInv, PriorIsCached
        <3> QED  BY <1>1, <1>2, <2>1, <3>1, <3>2 DEF CalmInv, PriorIsCached, clear
    <2>7. CachesFollow'
        <3>1. Listed # {} => specMap = OnDisk
            BY <2>1, <2>2, <2>3, <2>4 DEF CalmInv, CachesFollow
        <3>2. \A x \in Requests : Running(x)' => Listed # {}
            BY <1>5, <2>2, LoopIsALoader
        <3>3. (\A l \in Loaders : ~Running(l)') => Listed = {}
            BY <1>3, <1>5
        <3> QED  BY <1>1, <1>7, <3>1, <3>2, <3>3 DEF CachesFollow
    <2>8. ReadingsRight' /\ HandlersFollow'
        BY <1>1, <1>7, <2>1, HandlersStandStill
    <2> QED  BY <2>5, <2>6, <2>7, <2>8 DEF CalmInv
<1> QED  BY <1>6, <1>8, <1>9 DEF ReloadInv

(* A meta file is read.                                                     *)
LEMMA ReadMetaKeepsInv ==
    ASSUME ReloadInv, NEW l \in Loaders, NEW f \in MetaFiles, ReadMeta(l, f)
    PROVE  ReloadInv'
<1>1. /\ f \in unread[l]
      /\ unread' = [unread EXCEPT ![l] = @ \ {f}]
      /\ parsed' = [parsed EXCEPT ![l] = @ \union {<<f, metaDisk[f]>>}]
      /\ UNCHANGED <<metaDisk, codeDisk, events, seen, specVars, asked, dirtyFiles, stage, batch,
                     registryVars, hurried, crossed, slipped, outdated>>
    BY DEF ReadMeta, diskVars, watchVars, loopVars, auxVars
<1>2. metaDisk[f] \in ContentsOfMeta
    BY DEF ReloadInv, LoadsInv, ReloadTyped
<1>3. ReloadTyped'
    BY <1>1, <1>2 DEF ReloadInv, LoadsInv, ReloadTyped, specVars, registryVars
<1>4. \A k \in Loaders : Running(k)' <=> Running(k)
    BY <1>1 DEF Running, ReloadInv, LoadsInv, ReloadTyped
<1>5. LoadsInv'
    <2>1. UnaskedAreIdle'
        BY <1>1, <1>4, LoopIsALoader DEF UnaskedAreIdle, ReloadInv, LoadsInv
    <2>2. StagesMatch'
        BY <1>1, <1>4, LoopIsALoader DEF StagesMatch, ReloadInv, LoadsInv
    <2>3. CachesMatchSpec' /\ ShownFollows'
        BY <1>1, <1>4 DEF CachesMatchSpec, ShownFollows, Overflows, ReloadInv, LoadsInv, specVars
    <2>4. FoldersInOrder' /\ (hurried' => crossed')
        BY <1>1 DEF ReloadInv, LoadsInv, FoldersInOrder, registryVars
    <2> QED  BY <1>3, <2>1, <2>2, <2>3, <2>4 DEF LoadsInv
<1>6. PendingFiles' = PendingFiles /\ OnDisk' = OnDisk /\ Listed' = Listed
    BY <1>1 DEF PendingFiles, OnDisk, Listed
<1>7. \A k \in Loaders : \A p \in parsed'[k] : p \in parsed[k] \/ p = <<f, metaDisk[f]>>
    BY <1>1 DEF ReloadInv, LoadsInv, ReloadTyped
<1>8. ASSUME ~hurried'
      PROVE  FreshInv'
    <2>1. FreshInv
        BY <1>1, <1>8 DEF ReloadInv
    <2>2. RequestsReadFresh'
        BY <1>1, <1>7, <2>1, LoopIsALoader DEF FreshInv, RequestsReadFresh
    <2> SUFFICES ASSUME NEW x \in MetaFiles \ PendingFiles PROVE FreshFile(x)'
        BY <1>6, <2>2 DEF FreshInv
    <2>3. FreshFile(x)
        BY <2>1 DEF FreshInv
    <2>4. InFlight(x) => InFlight(x)'
        <3>1. CASE x = f
            BY <1>1, <1>2, <3>1 DEF InFlight, ReloadInv, LoadsInv, ReloadTyped
        <3>2. CASE x # f
            BY <1>1, <3>2 DEF InFlight, ReloadInv, LoadsInv, ReloadTyped
        <3> QED  BY <3>1, <3>2
    <2>5. UNCHANGED <<spec, metaDisk>>
        BY <1>1 DEF specVars
    <2> QED  BY <1>6, <1>7, <2>3, <2>4, <2>5 DEF FreshFile
<1>9. ASSUME ~crossed', stage' # "stuck"
      PROVE  CalmInv'
    <2>1. CalmInv
        BY <1>1, <1>9 DEF ReloadInv
    <2>2. RequestsRunAlone'
        BY <1>1, <1>4, <1>6, <2>1, LoopIsALoader DEF CalmInv, RequestsRunAlone
    <2>3. MetaPending' <=> MetaPending
        BY <1>6 DEF MetaPending
    <2>4. PriorIsCached' /\ CachesFollow'
        BY <1>1, <1>4, <1>6, <2>1, <2>3, LoopIsALoader
        DEF CalmInv, PriorIsCached, CachesFollow, Overflows, specVars
    <2>5. ReadingsRight' /\ HandlersFollow'
        BY <1>1, <1>6, <2>1, HandlersStandStill DEF specVars
    <2> QED  BY <2>2, <2>4, <2>5 DEF CalmInv
<1> QED  BY <1>5, <1>8, <1>9 DEF ReloadInv

(* A meta file is merged, and after the last one the caches are prepared.   *)
LEMMA MergeMetaKeepsInv ==
    ASSUME ReloadInv, NEW l \in Loaders, NEW f \in MetaFiles, MergeMeta(l, f)
    PROVE  ReloadInv'
<1> DEFINE over == unread[l] = {} /\ parsed'[l] = {}
<1>1. PICK content \in ContentsOfMeta :
        /\ <<f, content>> \in parsed[l]
        /\ parsed' = [parsed EXCEPT ![l] = @ \ {<<f, content>>}]
        /\ spec' = merge(f, content)
        /\ over => /\ prepareCache(spec')
                   /\ shown' = IF Overflows(spec') THEN shown ELSE spec'
                   /\ stage' = IF l # Loop THEN stage ELSE IF Overflows(spec') THEN "stuck" ELSE "registry"
                   /\ outdated' = IF changed' /\ ~Overflows(spec') THEN Slots \ IdleSlots ELSE outdated
        /\ ~over => UNCHANGED <<specMap, changed, aliased, prior, shown, stage, outdated>>
        /\ UNCHANGED <<metaDisk, codeDisk, events, seen, unread, asked, dirtyFiles, batch, registryVars,
                       hurried, crossed, slipped>>
    BY DEF MergeMeta, ContentsOfMeta, Finished, Unfinished, diskVars, watchVars
<1> HIDE DEF over
<1>2. spec' \in [MetaFiles -> Defined]
    BY <1>1 DEF merge, Definition, Defined, ReloadInv, LoadsInv, ReloadTyped
<1>3. Running(l) /\ (Running(l)' <=> ~over) /\ \A k \in Loaders \ {l} : Running(k)' <=> Running(k)
    BY <1>1 DEF over, Running, ReloadInv, LoadsInv, ReloadTyped
<1>4. l = Loop => stage = "loading"
    BY <1>3 DEF ReloadInv, LoadsInv, StagesMatch
<1>5. ReloadTyped'
    BY <1>1, <1>2 DEF ReloadInv, LoadsInv, ReloadTyped, registryVars
<1>6. LoadsInv'
    <2>1. UnaskedAreIdle'
        BY <1>1, <1>3, LoopIsALoader DEF UnaskedAreIdle, ReloadInv, LoadsInv
    <2>2. StagesMatch'
        BY <1>1, <1>3, <1>4, LoopIsALoader DEF StagesMatch, ReloadInv, LoadsInv
    <2>3. CachesMatchSpec' /\ ShownFollows'
        BY <1>1, <1>3 DEF CachesMatchSpec, ShownFollows, Overflows, prepareCache
    <2>4. FoldersInOrder' /\ (hurried' => crossed')
        BY <1>1 DEF ReloadInv, LoadsInv, FoldersInOrder, registryVars
    <2> QED  BY <1>5, <2>1, <2>2, <2>3, <2>4 DEF LoadsInv
<1>7. PendingFiles' = PendingFiles /\ OnDisk' = OnDisk /\ Listed' = Listed
    BY <1>1 DEF PendingFiles, OnDisk, Listed
<1>8. \A x \in MetaFiles \ {f} : spec'[x] = spec[x]
    BY <1>1 DEF merge, ReloadInv, LoadsInv, ReloadTyped
<1>9. FreshFile(f) => content = metaDisk[f] /\ spec'[f] = OnDisk[f]
    BY <1>1 DEF FreshFile, merge, OnDisk, ReloadInv, LoadsInv, ReloadTyped
<1>10. ASSUME ~hurried'
       PROVE  FreshInv'
    <2>1. FreshInv
        BY <1>1, <1>10 DEF ReloadInv
    <2>2. \A k \in Loaders : parsed'[k] \subseteq parsed[k]
        BY <1>1 DEF ReloadInv, LoadsInv, ReloadTyped
    <2>3. RequestsReadFresh'
        BY <1>1, <2>1, <2>2, LoopIsALoader DEF FreshInv, RequestsReadFresh
    <2> SUFFICES ASSUME NEW x \in MetaFiles \ PendingFiles PROVE FreshFile(x)'
        BY <1>7, <2>3 DEF FreshInv
    <2>4. FreshFile(x)
        BY <2>1 DEF FreshInv
    <2>5. CASE x = f
        BY <1>1, <1>7, <1>9, <2>2, <2>4, <2>5 DEF FreshFile
    <2>6. CASE x # f
        <3>1. InFlight(x) => InFlight(x)'
            BY <1>1, <2>6 DEF InFlight, ReloadInv, LoadsInv, ReloadTyped
        <3> QED  BY <1>1, <1>7, <1>8, <2>2, <2>4, <2>6, <3>1 DEF FreshFile
    <2> QED  BY <2>5, <2>6
<1>11. ASSUME ~crossed', stage' # "stuck"
       PROVE  CalmInv'
    <2>1. CalmInv /\ ~hurried
        <3>1. stage # "stuck"
            BY <1>1, <1>4, <1>11
        <3> QED  BY <1>1, <1>11, <3>1 DEF ReloadInv, LoadsInv
    <2>2. l # Loop => /\ PendingFiles = {} /\ stage = "idle"
                      /\ \A k \in Loaders : Running(k) => k = l
        BY <1>3, <2>1 DEF CalmInv, RequestsRunAlone, Loaders
    <2>3. l = Loop => \A q \in Requests : ~Running(q)
        BY <1>4, <2>1 DEF CalmInv, RequestsRunAlone
    <2>4. RequestsRunAlone'
        <3>1. CASE l = Loop
            BY <1>3, <2>3, <3>1, LoopIsALoader DEF RequestsRunAlone
        <3>2. CASE l # Loop
            BY <1>1, <1>3, <1>7, <2>1, <2>2, <3>2, LoopIsALoader DEF CalmInv, RequestsRunAlone
        <3> QED  BY <3>1, <3>2
    <2>5. MetaPending' <=> MetaPending
        BY <1>7 DEF MetaPending
    <2>6. l # Loop => specMap = OnDisk /\ ~MetaPending
        BY <1>3, <2>1, <2>2 DEF CalmInv, CachesFollow, Loaders, MetaPending
    <2>7. l # Loop /\ over => spec' = OnDisk
        <3> SUFFICES ASSUME l # Loop, over PROVE spec' = OnDisk
            OBVIOUS
        <3>1. \A k \in Loaders : ~Running(k)'
            BY <1>3, <2>2
        <3>2. FreshInv' /\ ~MetaPending'
            BY <1>1, <1>10, <2>1, <2>5, <2>6
        <3>3. \A x \in MetaFiles : spec'[x] = OnDisk'[x]
            BY <3>1, <3>2 DEF FreshInv, FreshFile, MetaPending, InFlight, Running
        <3>4. OnDisk \in [MetaFiles -> Defined]
            BY DefinitionsAreTyped DEF ReloadInv, LoadsInv
        <3> QED  BY <1>2, <1>7, <3>3, <3>4
    <2>8. l # Loop /\ aliased => spec' = spec
        <3> SUFFICES ASSUME l # Loop, aliased PROVE spec' = spec
            OBVIOUS
        <3>1. spec = OnDisk
            BY <2>1, <2>6 DEF CalmInv, PriorIsCached
        <3>2. FreshFile(f)
            BY <2>1, <2>6 DEF ReloadInv, FreshInv, MetaPending
        <3>3. \A x \in MetaFiles : spec'[x] = spec[x]
            BY <1>8, <1>9, <3>1, <3>2
        <3> QED  BY <1>2, <3>3 DEF ReloadInv, LoadsInv, ReloadTyped
    <2>9. over => ~Overflows(spec')
        <3>1. CASE l = Loop
            BY <1>1, <1>11, <3>1
        <3>2. CASE l # Loop
            BY <2>1, <2>6, <2>7, <3>2 DEF CalmInv, PriorIsCached
        <3> QED  BY <3>1, <3>2
    <2>10. over => /\ specMap' = spec' /\ aliased'
                   /\ changed' = (~aliased /\ annotationsHaveChanged(prior, spec'))
        BY <1>1, <2>9 DEF prepareCache
    <2>11. PriorIsCached'
        <3>1. CASE over
            <4>1. ~Running(Loop)'
                BY <1>3, <2>2, <3>1, LoopIsALoader
            <4>2. ~Overflows(specMap')
                BY <2>9, <2>10, <3>1
            <4>3. ~Overflows(specMap)'
                BY <4>2 DEF Overflows
            <4> QED  BY <2>10, <3>1, <4>1, <4>3 DEF PriorIsCached
        <3>2. CASE ~over
            <4>1. UNCHANGED <<specMap, aliased, prior>>
                BY <1>1, <3>2
            <4>2. Running(Loop)' => Running(Loop)
                BY <1>3, LoopIsALoader
            <4>3. aliased => spec' = spec
                BY <1>3, <2>1, <2>8 DEF CalmInv, PriorIsCached
            <4> QED  BY <2>1, <4>1, <4>2, <4>3 DEF CalmInv, PriorIsCached, Overflows
        <3> QED  BY <3>1, <3>2
    <2>12. CachesFollow'
        <3>1. CASE over
            <4>1. \A q \in Requests : ~Running(q)'
                BY <1>3, <2>2, <2>3, <3>1, LoopIsALoader
            <4> QED  BY <2>10, <3>1, <4>1 DEF CachesFollow
        <3>2. CASE ~over
            <4>1. specMap' = specMap /\ Running(l)'
                BY <1>1, <1>3, <3>2
            <4>2. \A q \in Requests : Running(q)' => Running(q)
                BY <1>3, LoopIsALoader
            <4> QED  BY <1>7, <2>1, <2>5, <4>1, <4>2 DEF CalmInv, CachesFollow
        <3> QED  BY <3>1, <3>2
    <2>13. UNCHANGED <<codeDisk, regDirty, registered, folders, batch>>
        BY <1>1 DEF registryVars
    <2>14. CASE ~over
        <3>1. UNCHANGED <<specMap, stage, changed, outdated>>
            BY <1>1, <2>14
        <3>2. ReadingsRight' /\ HandlersFollow'
            BY <1>1, <1>7, <2>1, <3>1, HandlersStandStill
        <3> QED  BY <2>4, <2>11, <2>12, <3>2 DEF CalmInv
    <2>15. CASE over /\ l = Loop /\ changed'
        <3>1. stage' = "registry" /\ outdated' = Slots \ IdleSlots
            BY <1>1, <2>9, <2>15
        <3>2. HandlersFollow'
            BY <2>15, <3>1 DEF HandlersFollow, FoldersPending
        <3>3. ReadingsRight'
            BY <2>13, <3>1 DEF ReadingsRight, IdleSlots
        <3> QED  BY <2>4, <2>11, <2>12, <3>2, <3>3 DEF CalmInv
    <2>16. CASE over /\ (l # Loop \/ ~changed')
        <3>1. ~changed' /\ HandlerNames(specMap') = HandlerNames(specMap)
            <4>1. CASE l # Loop
                <5>1. specMap' = specMap
                    BY <2>6, <2>7, <2>10, <2>16, <4>1
                <5>2. ~aliased => ~annotationsHaveChanged(prior, spec')
                    BY <2>1, <2>10, <2>16, <5>1 DEF CalmInv, PriorIsCached, annotationsHaveChanged
                <5> QED  BY <2>10, <2>16, <5>1, <5>2
            <4>2. CASE l = Loop
                <5>1. ~aliased /\ prior = specMap
                    BY <1>3, <2>1, <4>2 DEF CalmInv, PriorIsCached
                <5>2. ~annotationsHaveChanged(specMap, spec')
                    BY <2>10, <2>16, <4>2, <5>1
                <5> QED  BY <2>10, <2>16, <4>2, <5>2, SameAnnotationsSameNames
            <4> QED  BY <4>1, <4>2
        <3>2. outdated' = outdated
            BY <1>1, <2>16, <3>1
        <3>3. stage # "registry"
            BY <1>4, <2>2
        <3>4. ReadingsRight' /\ HandlersFollow'
            BY <1>1, <1>7, <2>1, <3>1, <3>2, <3>3, HandlersStandStill
        <3> QED  BY <2>4, <2>11, <2>12, <3>4 DEF CalmInv
    <2> QED  BY <2>14, <2>15, <2>16
<1> QED  BY <1>6, <1>10, <1>11 DEF ReloadInv

-----------------------------------------------------------------------------
LEMMA ReloadStepInv == ReloadInv /\ [ReloadNext]_reloadVars => ReloadInv'
<1> SUFFICES ASSUME ReloadInv, [ReloadNext]_reloadVars PROVE ReloadInv'
    OBVIOUS
<1>1. CASE ServerStep
    <2>1. CASE DirtyCheck
        BY <2>1, DirtyCheckKeepsInv
    <2>2. ASSUME NEW f \in Files, Notice(f) \/ Report(f) \/ RegistryLooksAt(f)
          PROVE  ReloadInv'
        BY <2>2, NoticeKeepsInv, ReportKeepsInv, RegistryLooksAtKeepsInv
    <2>3. ASSUME NEW l \in Loaders, NEW f \in MetaFiles,
                 ReadMeta(l, f) \/ GenerationHangs(l, f) \/ MergeMeta(l, f)
          PROVE  ReloadInv'
        BY <2>3, ReadMetaKeepsInv, GenerationHangsKeepsInv, MergeMetaKeepsInv
    <2>4. ASSUME NEW r \in Slots, FolderCollected(r) \/ FolderDone(r) \/ \E h \in Handlers : FolderReads(r, h)
          PROVE  ReloadInv'
        BY <2>4, FolderCollectedKeepsInv, FolderDoneKeepsInv, FolderReadsKeepsInv
    <2> QED  BY <1>1, <2>1, <2>2, <2>3, <2>4 DEF ServerStep
<1>2. ASSUME NEW f \in MetaFiles, ChangeMeta(f)
      PROVE  ReloadInv'
    BY <1>2, ChangeMetaKeepsInv
<1>3. ASSUME NEW h \in Handlers, ChangeCode(h)
      PROVE  ReloadInv'
    BY <1>3, ChangeCodeKeepsInv
<1>4. ASSUME NEW q \in Requests, NEW clearing \in BOOLEAN, ReloadRequest(q, clearing)
      PROVE  ReloadInv'
    BY <1>4, ReloadRequestKeepsInv
<1>5. CASE Lookup
    BY <1>5, LookupKeepsInv
<1>6. CASE UNCHANGED reloadVars
    <2>1. UNCHANGED <<metaDisk, codeDisk, events, seen, specVars, unread, parsed, asked, dirtyFiles, stage,
                      batch, registryVars, hurried, crossed, slipped, outdated>>
        BY <1>6 DEF reloadVars, diskVars, watchVars, loadVars, loopVars, auxVars
    <2>2. LoadsInv'
        <3>1. ReloadTyped' /\ StagesMatch' /\ FoldersInOrder'
            BY <2>1
            DEF ReloadInv, LoadsInv, ReloadTyped, StagesMatch, FoldersInOrder, Running, specVars,
                registryVars
        <3> QED  BY <2>1, <3>1, LoadsStandStill DEF ReloadInv, LoadsInv
    <2>3. PendingFiles' = PendingFiles
        BY <2>1 DEF PendingFiles
    <2>4. ~hurried' => FreshInv'
        BY <2>1, <2>3, FreshStandsStill DEF ReloadInv, specVars
    <2>5. ASSUME ~crossed', stage' # "stuck"
          PROVE  CalmInv'
        <3>1. CalmInv
            BY <2>1, <2>5 DEF ReloadInv
        <3>2. RequestsRunAlone' /\ PriorIsCached' /\ CachesFollow'
            BY <2>1, <2>3, <3>1, LoadsDoNotCare
        <3>3. ReadingsRight' /\ HandlersFollow'
            BY <2>1, <2>3, <3>1, HandlersStandStill DEF specVars
        <3> QED  BY <3>2, <3>3 DEF CalmInv
    <2> QED  BY <2>2, <2>4, <2>5 DEF ReloadInv
<1> QED  BY <1>1, <1>2, <1>3, <1>4, <1>5, <1>6 DEF ReloadNext

LEMMA ReloadInvariant == ReloadSpec => []ReloadInv
BY ReloadInitInv, ReloadStepInv, PTL DEF ReloadSpec

(* Whichever loads of the loop and of clients overlap, and whatever changes *)
(* meanwhile: once none runs, the caches that prepareCache derived are      *)
(* those of the specification, unless it was cleared with no file to load.  *)
THEOREM CachesFollowSpec == ReloadSpec => []CachesMatchSpec
<1>1. ReloadInv => CachesMatchSpec
    BY DEF ReloadInv, LoadsInv
<1> QED  BY <1>1, ReloadInvariant, PTL

(* At rest the specification is what is on disk, file by file, however      *)
(* loads and requests overlapped and whatever changed during the loads of   *)
(* the dirty-file loop, but for a file whose last change was taken for      *)
(* none (cinco-folder-watcher.ts) and a change under a request's load; and  *)
(* the clients were sent it, unless its caches overflowed.                  *)
THEOREM SpecFollowsDisk == ReloadSpec => []SpecIsOnDisk
<1>1. ReloadInv => SpecIsOnDisk
    <2> SUFFICES ASSUME ReloadInv, Quiet, ~hurried
                 PROVE  /\ \A f \in MetaFiles \ slipped : spec[f] = OnDisk[f]
                        /\ shown = spec \/ Overflows(spec)
        BY DEF SpecIsOnDisk
    <2>1. \A l \in Loaders : ~Running(l)
        BY DEF Quiet, Settled
    <2>2. PendingFiles = slipped \/ PendingFiles \subseteq slipped
        BY DEF Quiet, Settled, PendingFiles
    <2>3. \A f \in MetaFiles \ slipped : spec[f] = OnDisk[f]
        BY <2>1, <2>2, LoadedIsOnDisk DEF ReloadInv
    <2> QED  BY <2>1, <2>3 DEF ReloadInv, LoadsInv, ShownFollows
<1> QED  BY <1>1, ReloadInvariant, PTL

(* At rest the next lookup finds the classes that annotations name in their *)
(* latest versions and no others, although every folder is filtered by the  *)
(* annotations of its own moment, the registry compares the specification   *)
(* with a prior one that is at times the same object (prepareCache, clear)  *)
(* and nobody waits for its reloads of the folders.                         *)
THEOREM HandlersFollowDisk == ReloadSpec => []HandlersAreOnDisk
<1>1. ReloadInv => HandlersAreOnDisk
    <2> SUFFICES ASSUME ReloadInv, Quiet, ~crossed, spec = specMap, slipped \intersect MetaFiles = {},
                        NEW h \in Handlers \ slipped
                 PROVE  Fetched(h) = IF h \in HandlerNames(OnDisk) THEN codeDisk[h] ELSE 0
        BY DEF HandlersAreOnDisk
    <2>1. /\ stage = "idle" /\ PendingFiles \subseteq slipped
          /\ \A l \in Loaders : ~Running(l)
        BY DEF Quiet, Settled, PendingFiles
    <2>2. CalmInv /\ FreshInv /\ ReloadTyped /\ batch = {}
        BY <2>1 DEF ReloadInv, LoadsInv, StagesMatch
    <2>3. specMap = OnDisk
        <3>1. ~MetaPending
            BY <2>1 DEF MetaPending
        <3> QED  BY <2>1, <2>2, <3>1, AllLoadedIsOnDisk
    <2>4. ~FoldersPending
        BY <2>1 DEF FoldersPending, Quiet, IdleSlots
    <2>5. /\ h \notin HandlerNames(specMap) => registered[h] = 0
          /\ h \in HandlerNames(specMap) => Fetched(h) = codeDisk[h]
        BY <2>1, <2>2, <2>4 DEF CalmInv, HandlersFollow, HandlersRight
    <2> QED  BY <2>3, <2>5 DEF Fetched
<1> QED  BY <1>1, ReloadInvariant, PTL
=============================================================================
