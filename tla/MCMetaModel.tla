------------------------------ MODULE MCMetaModel ------------------------------
(***************************************************************************)
(* Languages with one graph type, two containers, two plain nodes and two  *)
(* edges: three families that vary the containments, the edges' ends and   *)
(* the palettes, each under several hierarchies of types.                  *)
(***************************************************************************)
EXTENDS MetaModel

CONSTANTS net, box, pool, dot, mark, line, link, extra

MCGraphTypes == {net}
MCContainerTypes == {box, pool}
MCPlainNodeTypes == {dot, mark}
MCEdgeTypes == {line, link}
MCPalettes == {extra}

(* Chains of up to three types, among them a container that extends a plain *)
(* node, and circles of one or two types.                                   *)
Hierarchies ==
    {[t \in MCGraphTypes \union MCContainerTypes \union MCPlainNodeTypes \union MCEdgeTypes |->
        CASE t = box -> b [] t = pool -> p [] t = mark -> m [] t = link -> l [] OTHER -> NoType] :
     b \in {NoType, dot, pool}, p \in {NoType, box, pool}, m \in {NoType, dot}, l \in {NoType, line}}

Containables(ofNet, ofBox, ofPool) ==
    {[h \in {net, box, pool} |-> CASE h = net -> n [] h = box -> b [] h = pool -> p] :
     n \in ofNet, b \in ofBox, p \in ofPool}

Connections(ofBox, ofDot, ofMark) ==
    {[n \in {box, pool, dot, mark} |->
        CASE n = box -> b [] n = dot -> d [] n = mark -> m [] OTHER -> {}] :
     b \in ofBox, d \in ofDot, m \in ofMark}

NoPalettes == [t \in {box, pool, dot, mark, line, link} |-> <<>>]

Language(extends, abstract, containable, incoming, outgoing, palettes, disabled, prime) ==
    [extends |-> extends, abstract |-> abstract, containable |-> containable, incoming |-> incoming,
     outgoing |-> outgoing, palettes |-> palettes, disabled |-> disabled, prime |-> prime]

ContainmentFamily ==
    {Language(h, a, c, i, o, NoPalettes, {}, {}) :
     h \in Hierarchies, a \in {{}, {box}, {dot, line}},
     c \in Containables({{dot}, {box}, {mark, pool}, {Any}}, {{}, {pool}, {dot}, {Any}}, {{}, {box}}),
     i \in Connections({{}}, {{}}, {{link}}), o \in Connections({{}}, {{line}}, {{}})}

EndsFamily ==
    {Language(h, a, c, i, o, NoPalettes, {}, {}) :
     h \in Hierarchies, a \in SUBSET {dot, line},
     c \in Containables({{box, dot}}, {{mark}}, {{}}),
     i \in Connections({{}, {Any}}, {{}}, {{}, {line}, {link}}),
     o \in Connections({{}}, {{}, {line}, {Any}}, {{}})}

PaletteFamily ==
    {Language(h, {}, c, i, o, [NoPalettes EXCEPT ![dot] = d, ![mark] = m, ![line] = l], x, r) :
     h \in {g \in Hierarchies : g[box] = NoType /\ g[pool] = NoType},
     c \in Containables({{dot}, {box, mark}}, {{dot}}, {{}}),
     i \in Connections({{}}, {{}}, {{link}}), o \in Connections({{}}, {{line}}, {{}}),
     d \in {<<>>, <<"Nodes">>, <<"Edges">>, <<extra, "Nodes">>, <<"Nodes", extra>>},
     m \in {<<>>, <<extra>>}, l \in {<<>>, <<extra>>, <<"Nodes">>},
     x \in {{}, {dot}, {line}}, r \in {{}, {dot}, {mark}}}

MCLanguages == ContainmentFamily \union EndsFamily \union PaletteFamily
================================================================================
