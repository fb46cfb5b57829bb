------------------------------- MODULE MetaModel -------------------------------
(***************************************************************************)
(* From the declarations of a language (an .mgl file) to what its editor   *)
(* lets a user create: the generator of the meta-specification             *)
(* (MGLGenerator, cli-util), the caches computed from what it generated    *)
(* (MetaSpecification.prepareCache), and the palette the server answers    *)
(* with (CustomToolPaletteItemProvider).                                   *)
(*                                                                         *)
(* All types are declared in one file.  The bounds of a constraint travel  *)
(* along with it unchanged and are left out, so the constraints of a type  *)
(* are what they name together.  Labels, attributes, styles and sizes are  *)
(* left out.                                                               *)
(***************************************************************************)
EXTENDS Naturals, FiniteSets, Sequences, Functions

CONSTANTS
    GraphTypes, ContainerTypes, PlainNodeTypes, EdgeTypes,
    NoType,         \* extended by a type that extends no other; calls at the top
    Any,            \* the wildcard '*' among the types a type names
    Palettes,       \* the palettes of its own that annotations can name
    PrimePalette,   \* the name of the reference that prime nodes hold
    Languages       \* the languages that are loaded

NodeTypes == ContainerTypes \union PlainNodeTypes
Holders == GraphTypes \union ContainerTypes
Types == GraphTypes \union NodeTypes \union EdgeTypes

(* What a file declares of its types: the type each extends, whether it is  *)
(* abstract, what it names as containable, incoming and outgoing, the       *)
(* palettes of its annotations, @disable(create), and prime references.     *)
IsLanguage(l) ==
    /\ l.extends \in [Types -> Types \union {NoType}]
    /\ {l.abstract, l.disabled} \subseteq SUBSET Types
    /\ l.containable \in [Holders -> SUBSET (NodeTypes \union {Any})]
    /\ {l.incoming, l.outgoing} \subseteq [NodeTypes -> SUBSET (EdgeTypes \union {Any})]
    /\ l.palettes \in [NodeTypes \union EdgeTypes -> Seq(Palettes \union {"Nodes", "Edges"})]
    /\ l.prime \subseteq NodeTypes

(* What the grammar admits as the type to extend.                           *)
Extendable(t) ==
    CASE t \in GraphTypes -> GraphTypes
      [] t \in ContainerTypes -> NodeTypes
      [] t \in PlainNodeTypes -> PlainNodeTypes
      [] t \in EdgeTypes -> EdgeTypes

Apart(s, t) == s \intersect t = {}

(* A type is of one kind.                                                   *)
ASSUME MetaAssumption ==
    /\ IsFiniteSet(Types) /\ NoType \notin Types
    /\ Apart(GraphTypes, NodeTypes \union EdgeTypes)
    /\ Apart(NodeTypes, EdgeTypes) /\ Apart(ContainerTypes, PlainNodeTypes)
    /\ \A l \in Languages :
        IsLanguage(l) /\ \A t \in Types : l.extends[t] \in Extendable(t) \union {NoType}

VARIABLES
    lang,           \* the language that is being loaded
    phase,          \* how far the loading is
    currentType,    \* of each type: how far calculateDegree has climbed
    degree,         \* of each type: how many types it has climbed
    level,          \* the degree of the types that are handled next
    spec,           \* what is generated so far: a record for each type handled
    cache,          \* cached containments, edge sources and edge targets
    palette         \* the graph type asked about, and the palette's items

metaVars == <<lang, phase, currentType, degree, level, spec, cache, palette>>

SuperOf(t) == lang.extends[t]

NoPalette == [graph |-> NoType, items |-> {}]

-----------------------------------------------------------------------------
(* topologicalSortWithDescendants: the degree of each type, climbed one     *)
(* supertype at a time.  The loops of the types, one after the other in the *)
(* code, advance together here.                                             *)

(* A degree that reaches the number of types is counted no further.         *)
DegreeBound == Cardinality(Types)

Climbing == {t \in Types : SuperOf(currentType[t]) # NoType}

(* Mutant: the loop looks at the first supertype again and again.           *)
ClimbedStays == currentType

Climbed == [t \in Types |-> IF t \in Climbing THEN SuperOf(currentType[t]) ELSE currentType[t]]

CalculateDegree ==
    /\ phase = "degrees"
    /\ Climbing # {}
    /\ currentType' = Climbed
    /\ degree' = [t \in Types |->
                    IF t \in Climbing /\ degree[t] < DegreeBound THEN degree[t] + 1 ELSE degree[t]]
    /\ UNCHANGED <<lang, phase, level, spec, cache, palette>>

SortByDegree ==
    /\ phase = "degrees"
    /\ Climbing = {}
    /\ phase' = "elements"
    /\ UNCHANGED <<lang, currentType, degree, level, spec, cache, palette>>

-----------------------------------------------------------------------------
(* handleModelElement, in the order of the degrees.                         *)

(* A wildcard stands for all types of the file that could be named.         *)
Named(names, all) == IF Any \in names THEN all ELSE names

(* Mutant: a type that names some types itself inherits none.               *)
mergeElementConstraintsReplaces(base, dominant) ==
    IF dominant = {} THEN base ELSE dominant

mergeElementConstraints(base, dominant) == (base \ dominant) \union dominant

getBaseTypes(t) ==
    CASE t \in GraphTypes -> {"graphmodel", "modelelementcontainer", "modelelement"}
      [] t \in PlainNodeTypes -> {"node", "modelelement"}
      [] t \in ContainerTypes -> {"container", "modelelementcontainer", "node", "modelelement"}
      [] t \in EdgeTypes -> {"edge", "modelelement"}

(* The parent is copied when it is found among the types handled before.    *)
resolveParentProperties(t) ==
    IF SuperOf(t) \in DOMAIN spec
    THEN [spec[SuperOf(t)] EXCEPT !.superTypes = @ \union {SuperOf(t)}]
    ELSE [superTypes |-> getBaseTypes(t), containments |-> {}, incomingEdges |-> {},
          outgoingEdges |-> {}, primeReference |-> FALSE]

handleModelElement(t) ==
    LET parent == resolveParentProperties(t)
        Merged(base, names, all) == mergeElementConstraints(base, Named(names, all))
    IN [parent EXCEPT
         !.containments = IF t \notin Holders THEN @
                          ELSE Merged(@, lang.containable[t], NodeTypes),
         !.incomingEdges = IF t \notin NodeTypes THEN @ ELSE Merged(@, lang.incoming[t], EdgeTypes),
         !.outgoingEdges = IF t \notin NodeTypes THEN @ ELSE Merged(@, lang.outgoing[t], EdgeTypes),
         !.primeReference = @ \/ t \in lang.prime]

HandleElements ==
    LET handled == {t \in Types : degree[t] = level} IN
    /\ phase = "elements"
    /\ spec' = [t \in DOMAIN spec \union handled |->
                    IF t \in handled THEN handleModelElement(t) ELSE spec[t]]
    /\ level' = level + 1
    /\ phase' = IF DOMAIN spec' = Types THEN "constraints" ELSE "elements"
    /\ UNCHANGED <<lang, currentType, degree, cache, palette>>

-----------------------------------------------------------------------------
(* introduceInheritanceToConstraints.                                       *)

SubTypes(t) == {u \in Types : SuperOf(u) = t}

(* A named type gives way to itself and all that extends it, but an         *)
(* abstract one that is extended only to the latter.                        *)
recursivelyReplace(names) ==
    LET replaced[t \in Types] ==
            (IF SubTypes(t) # {} /\ t \in lang.abstract THEN {} ELSE {t})
                \union UNION {replaced[u] : u \in SubTypes(t)}
    IN UNION {replaced[t] : t \in names}

(* The specification that is written has no abstract types.                 *)
IntroduceInheritanceToConstraints ==
    /\ phase = "constraints"
    /\ spec' = [t \in Types \ lang.abstract |->
                  [spec[t] EXCEPT !.containments = recursivelyReplace(@),
                                  !.incomingEdges = recursivelyReplace(@),
                                  !.outgoingEdges = recursivelyReplace(@)]]
    /\ phase' = "generated"
    /\ UNCHANGED <<lang, currentType, degree, level, cache, palette>>

-----------------------------------------------------------------------------
(* MetaSpecification.prepareCache.                                          *)

getNodeTypes == DOMAIN spec \intersect NodeTypes
getEdgeTypes == DOMAIN spec \intersect EdgeTypes

getEdgeTargetsForCaching(e) == {n \in getNodeTypes : e \in spec[n].incomingEdges}
getEdgeSourcesForCaching(e) == {n \in getNodeTypes : e \in spec[n].outgoingEdges}

getContainmentsOf(h) ==
    LET nodes == spec[h].containments \intersect getNodeTypes
        edges == UNION {spec[n].outgoingEdges \union spec[n].incomingEdges : n \in nodes}
    IN nodes \union (edges \intersect getEdgeTypes)

(* The calls that getDeepContainmentsOf(h) makes at a depth of recursion.   *)
(* A call goes on into the containers among the containments of its holder  *)
(* that its caller has not seen among its own.                              *)
DeepCalls(h) ==
    LET Seen(caller) == IF caller = NoType THEN {} ELSE getContainmentsOf(caller)
        Inner(call) ==
            {<<c, call[1]>> : c \in (getContainmentsOf(call[1]) \intersect Holders) \ Seen(call[2])}
        calls[depth \in Nat] ==
            IF depth = 0 THEN {<<h, NoType>>} ELSE UNION {Inner(call) : call \in calls[depth - 1]}
    IN calls

(* There are no more than this many different calls, so a recursion that    *)
(* reaches this depth repeats one of them and overflows the stack.          *)
StackBound == Cardinality(Holders) * (Cardinality(Holders) + 1)

Overflows(h) == DeepCalls(h)[StackBound] # {}

(* Mutant: only what a holder names itself is cached.                       *)
getDeepContainmentsOfShallow(h) == getContainmentsOf(h)

getDeepContainmentsOf(h) ==
    UNION {getContainmentsOf(call[1]) : call \in UNION {DeepCalls(h)[d] : d \in 0 .. StackBound - 1}}

PrepareCache ==
    LET holders == DOMAIN spec \intersect Holders IN
    /\ phase = "generated"
    /\ \A h \in holders : ~Overflows(h)
    /\ cache' = [containments |-> [h \in holders |-> getDeepContainmentsOf(h)],
                 targets |-> [e \in getEdgeTypes |-> getEdgeTargetsForCaching(e)],
                 sources |-> [e \in getEdgeTypes |-> getEdgeSourcesForCaching(e)]]
    /\ phase' = "ready"
    /\ UNCHANGED <<lang, currentType, degree, level, spec, palette>>

(* The RangeError leaves reloadFiles before it resolves: the loading never  *)
(* ends.  What was cached up to then is left out.                           *)
PrepareCacheThrows ==
    /\ phase = "generated"
    /\ \E h \in DOMAIN spec \intersect Holders : Overflows(h)
    /\ phase' = "overflow"
    /\ UNCHANGED <<lang, currentType, degree, level, spec, cache, palette>>

-----------------------------------------------------------------------------
(* CustomToolPaletteItemProvider.getItems: pairs of a category and a type.  *)
(* Files of the workspace hold elements for every reference.                *)

getPalettes(t) ==
    IF lang.palettes[t] = <<>> /\ spec[t].primeReference THEN <<PrimePalette>> ELSE lang.palettes[t]

hasPalette(t, category) == category \in Range(getPalettes(t))

couldContain(g, t) == t \in cache.containments[g]

isCreateable(t) == t \notin lang.disabled

(* Mutant: what has no palette is left to palettes of its own.              *)
createSortedPaletteItemsOfOthers(g, handled, category, referenced) ==
    {<<category, t>> : t \in
        {t \in handled : /\ couldContain(g, t) /\ isCreateable(t)
                         /\ hasPalette(t, category)
                         /\ spec[t].primeReference => t \in referenced}}

createSortedPaletteItems(g, handled, category, referenced) ==
    {<<category, t>> : t \in
        {t \in handled : /\ couldContain(g, t) /\ isCreateable(t)
                         /\ \/ hasPalette(t, category)
                            \/ getPalettes(t) = <<>> /\ category \in {"Nodes", "Edges"}
                         /\ spec[t].primeReference => t \in referenced}}

CustomPalettesOf(types) ==
    (UNION {Range(getPalettes(t)) : t \in types}) \ {"Nodes", "Edges"}

getPrimePalettes(g) ==
    {<<Head(getPalettes(t)), t>> : t \in
        {t \in getContainmentsOf(g) \intersect NodeTypes :
            /\ spec[t].primeReference
            /\ Head(getPalettes(t)) \notin {"Nodes", "Edges"}}}

getItems(g) ==
    LET Items(handled, categories) ==
            UNION {createSortedPaletteItems(g, handled, c, {}) : c \in categories}
        Primes(label) == {prime[2] : prime \in {p \in getPrimePalettes(g) : p[1] = label}}
    IN  Items(getNodeTypes, {"Nodes"} \union CustomPalettesOf(getNodeTypes))
        \union Items(getEdgeTypes, {"Edges"} \union CustomPalettesOf(getEdgeTypes))
        \union UNION {createSortedPaletteItems(g, getNodeTypes, prime[1], Primes(prime[1])) :
                        prime \in getPrimePalettes(g)}

GetItems(g) ==
    /\ phase = "ready"
    /\ g \in DOMAIN spec
    /\ palette' = [graph |-> g, items |-> getItems(g)]
    /\ UNCHANGED <<lang, phase, currentType, degree, level, spec, cache>>

-----------------------------------------------------------------------------
MetaInit ==
    /\ lang \in Languages
    /\ phase = "degrees"
    /\ currentType = [t \in Types |-> t]
    /\ degree = [t \in Types |-> 0]
    /\ level = 0
    /\ spec = [t \in {} |-> {}]
    /\ cache = [containments |-> <<>>, targets |-> <<>>, sources |-> <<>>]
    /\ palette = NoPalette

LoadStep ==
    \/ CalculateDegree \/ SortByDegree \/ HandleElements
    \/ IntroduceInheritanceToConstraints \/ PrepareCache \/ PrepareCacheThrows

MetaNext == LoadStep \/ \E g \in GraphTypes : GetItems(g)

(* The loading is one call of the server's process that waits for nothing.  *)
MetaSpec == MetaInit /\ [][MetaNext]_metaVars /\ WF_metaVars(LoadStep)

-----------------------------------------------------------------------------
(* Properties.  What is promised is read off the declarations alone.        *)

(* What t leads to, what that leads to, and so on.                          *)
Reached(t, leads) ==
    LET reached[n \in Nat] ==
            IF n = 0 THEN {t}
            ELSE LET r == reached[n - 1] IN r \union UNION {leads[x] : x \in r}
    IN reached[Cardinality(Types)]

SuperTypes(t) == Reached(t, [s \in Types |-> {SuperOf(s)} \ {NoType}])

Concrete == Types \ lang.abstract

IsOneOf(t, names) == SuperTypes(t) \intersect names # {}

DeclaredContainments(h) ==
    LET names == UNION {Named(lang.containable[s], NodeTypes) : s \in SuperTypes(h) \intersect Holders}
    IN {n \in NodeTypes \intersect Concrete : IsOneOf(n, names)}

DeclaredEnds(n, constraint) ==
    LET names == UNION {Named(constraint[s], EdgeTypes) : s \in SuperTypes(n)}
    IN {e \in EdgeTypes \intersect Concrete : IsOneOf(e, names)}

(* What may be created somewhere inside a holder: nodes at any depth, and   *)
(* the edges that start or end at one of these nodes.                       *)
DeclaredInside(h) ==
    LET nodes == UNION {DeclaredContainments(c) : c \in
                    Reached(h, [c \in Holders |-> DeclaredContainments(c) \intersect Holders])}
    IN nodes \union UNION {DeclaredEnds(n, lang.incoming) \union DeclaredEnds(n, lang.outgoing) : n \in nodes}

(* Once a language is loaded, what the server lets a user create in a graph *)
(* or a container (getCachedContainments, asked by canBeCreated) is what    *)
(* the declarations allow at some depth, in spite of the copies made of     *)
(* parents, of the types that were left out, and of the recursion that is   *)
(* cut off at what its caller has seen.                                     *)
CreatableAsDeclared ==
    phase = "ready" =>
        \A h \in Holders \intersect Concrete : cache.containments[h] = DeclaredInside(h)

(* Substitutability: a type counts as an instance of all types it extends   *)
(* (instanceOf), and what may be done with a type may be done with every    *)
(* type that extends it: it may be created wherever the other may, contain  *)
(* what the other contains, and its edges start and end where those of the  *)
(* other do.                                                                *)
SubtypesSubstitute ==
    phase = "ready" =>
        \A t \in Concrete :
            /\ SuperTypes(t) \ {t} \subseteq spec[t].superTypes
            /\ \A s \in SuperTypes(t) \intersect Concrete :
                /\ \A h \in DOMAIN cache.containments :
                      s \in cache.containments[h] => t \in cache.containments[h]
                /\ s \in Holders => cache.containments[s] \subseteq cache.containments[t]
                /\ \A ends \in {cache.sources, cache.targets} :
                      /\ s \in EdgeTypes => ends[s] \subseteq ends[t]
                      /\ \A e \in DOMAIN ends : s \in ends[e] => t \in ends[e]

(* A type is kept from the palette by an annotation, or as a reference: the *)
(* references are offered for what the graph itself contains, and in        *)
(* palettes of their own only.                                              *)
IsPrime(t) == SuperTypes(t) \intersect lang.prime # {}

KeptFromPalette(g, t) ==
    LET named == lang.palettes[t] IN
    \/ t \in lang.disabled
    \/ named # <<>> /\ Range(named) = (IF t \in NodeTypes THEN {"Edges"} ELSE {"Nodes"})
    \/ IsPrime(t) /\ t \notin DeclaredContainments(g)
    \/ IsPrime(t) /\ (IF named = <<>> THEN PrimePalette ELSE Head(named)) \in {"Nodes", "Edges"}

(* The palette offers all types that may be created in the graph or deeper, *)
(* but for those that are kept from it, and no others: none is lost between *)
(* the default categories, the custom palettes and those of the references. *)
PaletteIsComplete ==
    \A g \in GraphTypes : palette.graph = g =>
        {item[2] : item \in palette.items} = {t \in DeclaredInside(g) : ~KeptFromPalette(g, t)}

(* A language whose types do not extend themselves in a circle, and in      *)
(* which no two containers may contain each other, gets loaded.             *)
NoCircles ==
    /\ \A t \in Types : SuperOf(t) # NoType => t \notin SuperTypes(SuperOf(t))
    /\ \A c, d \in ContainerTypes \intersect Concrete : c # d =>
        ~ (d \in DeclaredInside(c) /\ c \in DeclaredInside(d))

LoadingEnds == NoCircles ~> phase = "ready"
=============================================================================
