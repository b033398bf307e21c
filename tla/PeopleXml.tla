----------------------------- MODULE PeopleXml -----------------------------
(***************************************************************************)
(* An XML response as the search page reads it: which elements are persons, *)
(* what is a row of a table and what a section of its own                   *)
(* (wwwroot/js/gpiv-viewer.js), and the key=value pairs of an element       *)
(* (gpiv-person-details-loader.js, Features/People/PeopleResponseParser.cs).*)
(*                                                                         *)
(* A document numbers its elements in document order from the root, 1.      *)
(* What an element says is left out but for the ids of persons; of its      *)
(* attributes, xsi:nil and OfficialName are kept.                           *)
(***************************************************************************)
EXTENDS Integers, Sequences, SequencesExt, FiniteSets

Elements(d) == DOMAIN d.tag

\* A document: the parent (0 for the root), the local name and the text of
\* each element, the elements with xsi:nil, those with an OfficialName.  What
\* lies between an element and its parent lies within the parent.
IsDocument(d) ==
    /\ Len(d.tag) \in Nat /\ Elements(d) = 1..Len(d.tag)
    /\ DOMAIN d.parent = Elements(d) /\ DOMAIN d.text = Elements(d)
    /\ \A e \in Elements(d) : d.parent[e] \in 0..e - 1 /\ (e > 1 => d.parent[e] > 0)
    /\ \A e \in Elements(d) : \A x \in d.parent[e] + 1..e : d.parent[x] >= d.parent[e]
    /\ d.nil \subseteq Elements(d) /\ d.attr \subseteq Elements(d)

Kids(d, e) == {k \in Elements(d) : d.parent[k] = e}

\* What f makes of the elements in its domain, joined in document order: up to
\* each element, and all of it.
Joined(d, f) ==
    LET joined[n \in 0..Len(d.tag)] ==
            IF n = 0 THEN <<>>
            ELSE IF n \in DOMAIN f THEN joined[n - 1] \o f[n] ELSE joined[n - 1]
    IN joined

InTurn(d, f) == Joined(d, f)[Len(d.tag)]

InOrder(d, S) == InTurn(d, [e \in S |-> <<e>>])

\* What lies within an element: what follows it before its parent goes on.
Within(d, e) ==
    {k \in Elements(d) : k > e /\ \A x \in e + 1..k : d.parent[x] >= e}

\* The elements that k lies in, up to p.
Between(d, p, k) == {x \in Within(d, p) : k \in Within(d, x)}

-----------------------------------------------------------------------------
(* gpiv-viewer.js *)

isNil(d, e) == e \in d.nil

hasElementChildren(d, e) == \E k \in Kids(d, e) : ~isNil(d, k)

isNoiseKey(tag) == tag \in {"Id", "PersonAddressId"}

\* Mutant: nil is not looked at.
TreatAsLeafMutant(d, e) == ~hasElementChildren(d, e)

treatAsLeaf(d, e) == isNil(d, e) \/ ~hasElementChildren(d, e)

\* The rows of the table of an element: <<element, what is shown of it>>.
buildLeavesTable(d, owner) ==
    LET leaves == {k \in Kids(d, owner) :
                       treatAsLeaf(d, k) /\ ~isNoiseKey(d.tag[k])}
    IN (leaves \X {"text"})
         \cup ((({owner} \cup (leaves \ d.nil)) \cap d.attr) \X {"attribute"})

\* The children that get a section each.  (The code lists those of one name
\* together.)
groupChildrenByName(d, e) ==
    {k \in Kids(d, e) :
        d.tag[k] # "Names" /\ ~isNil(d, k) /\ hasElementChildren(d, k)}

\* An element stands for its table, when there is one.
Table(d, e) == IF buildLeavesTable(d, e) = {} THEN <<>> ELSE <<e>>

\* An element with its sections: whose tables are shown, in order.
buildNodeContent(d) ==
    LET content[e \in Elements(d)] ==
            Table(d, e) \o InTurn(d, [k \in groupChildrenByName(d, e) |-> content[k]])
    IN content

\* PersonPublicInfo elements, else Person elements.
findPeopleNodes(d) ==
    LET named(t) == {e \in Elements(d) : d.tag[e] = t}
    IN InOrder(d, IF named("PersonPublicInfo") # {} THEN named("PersonPublicInfo")
                                                 ELSE named("Person"))

\* The text of the first child of that name, or "".
getTextLocal(d, e, name) ==
    LET ks == InOrder(d, {k \in Kids(d, e) : d.tag[k] = name})
    IN IF ks = <<>> THEN "" ELSE d.text[Head(ks)]

publicIdOf(d, p) ==
    IF getTextLocal(d, p, "PublicId") # "" THEN getTextLocal(d, p, "PublicId")
                                           ELSE getTextLocal(d, p, "PersonId")

\* The first Names of a person; a set of one or none.
nameRoot(d, p) ==
    {k \in Kids(d, p) : /\ d.tag[k] = "Names"
                        /\ \A j \in Kids(d, p) : j < k => d.tag[j] # "Names"}

\* The items of a person's accordion: <<kind, name of the group>>.
AccItems(d, p) ==
    (IF nameRoot(d, p) # {} THEN {<<"names", "">>} ELSE {})
      \cup (IF buildLeavesTable(d, p) # {} THEN {<<"basics", "">>} ELSE {})
      \cup {<<"group", d.tag[k]>> : k \in groupChildrenByName(d, p)}

\* The Name elements that are listed.
NamesIn(d, p) ==
    {k \in UNION {Kids(d, n) : n \in nameRoot(d, p)} : d.tag[k] = "Name"}

\* Mutant: a Name without sections is added a second time.
NamesBodyMutant(d, p) ==
    InTurn(d, [k \in NamesIn(d, p) |-> Table(d, k) \o buildNodeContent(d)[k]])

\* Each Name: its table, then, when it has sections, the table again with them.
NamesBody(d, p) ==
    InTurn(d, [k \in NamesIn(d, p) |-> Table(d, k) \o
        (IF groupChildrenByName(d, k) = {} THEN <<>> ELSE buildNodeContent(d)[k])])

GroupBody(d, p, tag) ==
    InTurn(d, [k \in {k \in groupChildrenByName(d, p) : d.tag[k] = tag} |->
                 buildNodeContent(d)[k]])

\* What _render puts into the body of an item: whose tables, in order.
AccBody(d, p, item) ==
    CASE item[1] = "names"  -> NamesBody(d, p)
      [] item[1] = "basics" -> <<p>>
      [] item[1] = "group"  -> GroupBody(d, p, item[2])

-----------------------------------------------------------------------------
(* The pairs of an element: flattenPersonPublicInfoElement, FlattenElements *)

\* A segment of a key: the name of an element, and its index among those of
\* its name, -1 when it is the only one.
NextSegment(d, k) ==
    LET alike == {j \in Kids(d, d.parent[k]) : d.tag[j] = d.tag[k]}
    IN [tag |-> d.tag[k],
        index |-> IF Cardinality(alike) > 1
                    THEN Cardinality({j \in alike : j < k}) ELSE -1]

\* The key of each element within root; that of root itself is given.
KeyOf(d, root, rootKey) ==
    LET key[e \in Within(d, root) \cup {root}] ==
            IF e = root THEN rootKey ELSE Append(key[d.parent[e]], NextSegment(d, e))
    IN key

\* What one element adds: its attributes, and its text when it has no child.
PairsAt(d, e, k) ==
    LET pair(attr, text) == [key |-> k, attr |-> attr, text |-> text]
    IN (IF isNil(d, e) THEN <<pair("nil", "true")>> ELSE <<>>)
         \o (IF e \in d.attr THEN <<pair("OfficialName", "name")>> ELSE <<>>)
         \o (IF Kids(d, e) = {} /\ d.text[e] # "" THEN <<pair("", d.text[e])>>
                                                 ELSE <<>>)

\* All pairs of an element; document order is the order of the walk.  (The
\* walk gives up below 64 levels.)
Flatten(d, root, rootKey) ==
    InTurn(d, [e \in Within(d, root) \cup {root} |->
                 PairsAt(d, e, KeyOf(d, root, rootKey)[e])])

\* The names in a pair's key, from the first to the last.
Segments(pair) ==
    [i \in DOMAIN pair.key |-> pair.key[i].tag]
      \o (IF pair.attr # "" THEN <<pair.attr>> ELSE <<>>)

=============================================================================
