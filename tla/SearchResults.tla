--------------------------- MODULE SearchResults ---------------------------
(***************************************************************************)
(* What the search page shows of the people it has found: the cards of the  *)
(* summary (wwwroot/js/gpiv-viewer.js), and the groups and the label of the *)
(* details panel (gpiv-person-details-loader.js) for the one chosen.        *)
(*                                                                         *)
(* Cards and groups are accordions whose bodies are filled when they open.  *)
(* When the details are asked for and whether they come is PersonPanel's;   *)
(* here they are there at once.                                             *)
(***************************************************************************)
EXTENDS PeopleXml

CONSTANTS
    Responses,   \* what a search may answer
    Answers,     \* what GetPerson may answer
    Includes,    \* the groups that the configuration asks for
    MaxActs      \* bound: what the user does, in number

ASSUME ResultsAssumption ==
    /\ \A d \in Responses \cup Answers : IsDocument(d)
    /\ MaxActs \in Nat

VARIABLES
    response,   \* the XML in the page
    cards,      \* one for each person in it
    focusing,   \* focusPerson() is due: the URL bears gpivPublicId
    answer,     \* the details that the panel shows: <<>> or one document
    pairs,      \* _publicInfoCache's for the one chosen, then the details
    label,      \* the pairs that the tab's label is made of
    groups,     \* the accordion of the panel
    acts

resultsVars == <<response, cards, focusing, answer, pairs, label, groups, acts>>

\* An item of an accordion: its body is empty until it is rendered.
Closed(empty) == [open |-> FALSE, rendered |-> FALSE, body |-> empty]

\* renderSummary(): all cards, all items closed.
Card(p) == [person |-> p, mode |-> "", inline |-> FALSE,
            items |-> [i \in AccItems(response, p) |-> Closed(<<>>)]]

ResultsInit ==
    /\ response \in Responses
    /\ cards = <<>>
    /\ focusing \in BOOLEAN
    /\ answer = <<>>
    /\ pairs = <<>>
    /\ label = <<>>
    /\ groups = <<>>
    /\ acts = 0

-----------------------------------------------------------------------------
(* What the panel makes of the pairs *)

\* getPersonPublicInfoPairs(): the first entry with that PublicId anywhere in
\* it; a set of one or none.
InfoTarget(pid) ==
    LET mentions(p) == \E k \in Within(response, p) :
                          response.tag[k] = "PublicId" /\ response.text[k] = pid
        entries == {e \in Elements(response) :
                        response.tag[e] = "PersonPublicInfo" /\ mentions(e)}
    IN {e \in entries : \A f \in entries : e <= f}

\* Those of the entry of the search.
InfoPairs(pid) ==
    InTurn(response, [e \in InfoTarget(pid) |->
                        Flatten(response, e, <<[tag |-> "PersonPublicInfo", index |-> -1]>>)])

LastSegment(pair) == Last(Segments(pair))

FirstOf(S) == {i \in S : \A j \in S : i <= j}

\* extractOfficialName(): the first pair with OfficialName in its key but for
\* the first segment; else the Value beside a Type that says OfficialName;
\* else the first FirstName and the first LastName.
OfficialName(ps) ==
    LET official == {i \in DOMAIN ps : \/ Segments(ps[i]) = <<"OfficialName">>
                                       \/ "OfficialName" \in ToSet(Tail(Segments(ps[i])))}
        typed == {i \in DOMAIN ps : LastSegment(ps[i]) = "Type" /\ ps[i].text = "OfficialName"}
        values == {i \in DOMAIN ps : /\ LastSegment(ps[i]) = "Value"
                                     /\ \E t \in typed : Front(ps[t].key) = Front(ps[i].key)}
        ending(name) == {i \in DOMAIN ps : LastSegment(ps[i]) = name}
        found == IF official # {} THEN FirstOf(official)
                 ELSE IF values # {} THEN FirstOf(values)
                 ELSE FirstOf(ending("FirstName")) \cup FirstOf(ending("LastName"))
    IN {ps[i] : i \in found}

\* pickGroupFromKey(): names in the singular stand for the plural, Status for
\* nothing.
Normed(name) ==
    CASE name = "Address" -> "Addresses"
      [] name = "Name"    -> "Names"
      [] name = "Spouses" -> "Spouse"
      [] name = "Status"  -> ""
      [] OTHER            -> name

GroupOf(pair) ==
    LET segs == Segments(pair)
    IN IF Head(segs) # "Person" THEN Normed(Head(segs))
       ELSE IF Len(segs) >= 3 THEN Normed(segs[2]) ELSE "Person"

\* The groups of the accordion: those asked for, and Person when it has pairs.
GroupNames(ps) ==
    Includes \cup {g \in {"Person"} : \E i \in DOMAIN ps : GroupOf(ps[i]) = g}

IsAddress(name) == name \in {"Address", "Addresses"}

\* parseAddressKey(): the index of the first segment named so, from 1.
AddressIndex(pair) ==
    LET segment == Head(SelectSeq(pair.key, LAMBDA s : IsAddress(s.tag)))
    IN IF segment.index < 0 THEN 1 ELSE segment.index + 1

\* What _render makes of a group: tables of pairs.  Addresses get one for each
\* index (renderAddressesCardList), any other group that has pairs gets one.
GroupTables(ps, g) ==
    LET mine == {ps[i] : i \in {i \in DOMAIN ps : GroupOf(ps[i]) = g}}
    IN IF g = "Addresses"
         THEN {{r \in mine : AddressIndex(r) = n} : n \in {AddressIndex(r) : r \in mine}}
         ELSE {mine} \ {{}}

-----------------------------------------------------------------------------
(* Actions *)

\* show.bs.collapse: the body is rendered once.
Shown(item, body) ==
    [open |-> TRUE, rendered |-> TRUE, body |-> IF item.rendered THEN item.body ELSE body]

Act == acts < MaxActs /\ acts' = acts + 1

\* DOMContentLoaded: the data in the page is rendered.
Load ==
    /\ cards = <<>>
    /\ cards' = [i \in DOMAIN findPeopleNodes(response) |-> Card(findPeopleNodes(response)[i])]
    /\ UNCHANGED <<response, focusing, answer, pairs, label, groups, acts>>

\* gpiv.focusPerson(), 50 ms later: everything is rendered anew.
Focus ==
    /\ cards # <<>> /\ focusing
    /\ focusing' = FALSE
    /\ cards' = [i \in DOMAIN cards |-> Card(cards[i].person)]
    /\ UNCHANGED <<response, answer, pairs, label, groups, acts>>

\* A click on the header of an item.
ToggleItem(c, i) ==
    /\ Act
    /\ cards' = [cards EXCEPT ![c].items[i] =
                   IF @.open THEN [@ EXCEPT !.open = FALSE]
                             ELSE Shown(@, AccBody(response, cards[c].person, i))]
    /\ UNCHANGED <<response, focusing, answer, pairs, label, groups>>

\* showInline(): the button of what is shown hides it, the other one replaces it.
ShowInline(c, mode) ==
    /\ Act
    /\ cards' = [cards EXCEPT ![c].mode = mode,
                              ![c].inline = ~(@ /\ cards[c].mode = mode)]
    /\ UNCHANGED <<response, focusing, answer, pairs, label, groups>>

\* Details, and what loadPerson makes of the answer.  (Without a publicId the
\* button asks for the person before.)
Choose(c) ==
    LET pid == publicIdOf(response, cards[c].person)
    IN /\ Act
       /\ pid # ""
       /\ \E a \in Answers : /\ answer' = <<a>>
                              /\ pairs' = InfoPairs(pid) \o Flatten(a, 1, <<>>)
       /\ label' = OfficialName(pairs')
       /\ groups' = [g \in GroupNames(pairs') |-> Closed({})]
       /\ UNCHANGED <<response, cards, focusing>>

\* A click on the header of a group: one is open at a time (data-bs-parent).
ToggleGroup(g) ==
    /\ Act
    /\ groups' = IF groups[g].open
                    THEN [groups EXCEPT ![g].open = FALSE]
                    ELSE [h \in DOMAIN groups |->
                            IF h = g THEN Shown(groups[g], GroupTables(pairs, g))
                                     ELSE [groups[h] EXCEPT !.open = FALSE]]
    /\ UNCHANGED <<response, cards, focusing, answer, pairs, label>>

\* Mutant: the classes are toggled and nothing is rendered.
ExpandedMutant(g) == [groups[g] EXCEPT !.open = TRUE]

\* A group that pdToggleAll(true) opens: no event, so it renders by itself.
Expanded(g) == Shown(groups[g], GroupTables(pairs, g))

\* pdToggleAll()
ToggleAll(open) ==
    /\ Act
    /\ groups' = [g \in DOMAIN groups |-> IF open THEN Expanded(g)
                                          ELSE [groups[g] EXCEPT !.open = FALSE]]
    /\ UNCHANGED <<response, cards, focusing, answer, pairs, label>>

\* The user does no more.
Idle == cards # <<>> /\ UNCHANGED resultsVars

ResultsNext ==
    \/ Load \/ Focus \/ Idle
    \/ \E c \in DOMAIN cards :
          \/ Choose(c)
          \/ \E i \in DOMAIN cards[c].items : ToggleItem(c, i)
          \/ \E mode \in {"raw", "pretty"} : ShowInline(c, mode)
    \/ \E g \in DOMAIN groups : ToggleGroup(g)
    \/ \E open \in BOOLEAN : groups # <<>> /\ ToggleAll(open)

ResultsSpec == ResultsInit /\ [][ResultsNext]_resultsVars

-----------------------------------------------------------------------------
(* Properties *)

\* An element that holds more than nil elements.
HasContent(e) == ~(Kids(response, e) \subseteq response.nil)

\* An element that the summary has a place for: nothing it lies in is nil; if
\* it lies in a Names, then in the person's own and in a Name with content.
HasPlace(p, e) ==
    LET path   == Between(response, p, e)
        names  == {x \in path : response.tag[x] = "Names"}
        inName == \E x \in (path \cup {e}) \ response.nil :
                                         /\ response.parent[x] \in names
                                         /\ response.tag[x] = "Name"
                                         /\ HasContent(x)
    IN /\ path \cap response.nil = {}
       /\ names = {} \/ (names = nameRoot(response, p) /\ inName)

\* All that the summary has a place for: a second Names of a person, a Names that
\* lies under a group, and text beside the Name elements have none.
Readable(p) ==
    LET here   == {e \in Within(response, p) : HasPlace(p, e)}
        leaves == {e \in here : /\ IF e \in response.nil
                                     THEN response.parent[e] = p \/ HasContent(response.parent[e])
                                     ELSE ~HasContent(e)
                                /\ ~isNoiseKey(response.tag[e])}
        owners == {p} \cup {e \in here : HasContent(e) /\ response.tag[e] # "Names"}
        named  == ((leaves \cup owners) \cap response.attr) \ response.nil
    IN (leaves \X {"text"}) \cup (named \X {"attribute"})

\* A card whose items are all open shows all that the summary has a place for in
\* its person, however deep, whichever of its siblings are nil, alike or without
\* children (buildNodeContent, gpiv-viewer.js:267).
NothingLost ==
    \A c \in DOMAIN cards :
        (\A i \in DOMAIN cards[c].items : cards[c].items[i].open)
        => Readable(cards[c].person) \subseteq
             UNION {UNION {buildLeavesTable(response, o) : o \in ToSet(cards[c].items[i].body)} :
                      i \in DOMAIN cards[c].items}

\* No table is in a card twice, in one item or in two, except that of a Name
\* that has sections: the code puts it above them and among them.
ShownOnce ==
    \A c \in DOMAIN cards : \A o \in Within(response, cards[c].person) \cup {cards[c].person} :
        LET at == UNION {{<<i, n>> : n \in {n \in DOMAIN cards[c].items[i].body :
                                              cards[c].items[i].body[n] = o}} :
                           i \in DOMAIN cards[c].items}
        IN Cardinality(at) > 1 =>
             /\ response.tag[o] = "Name" /\ response.parent[o] \in nameRoot(response, cards[c].person)
             /\ groupChildrenByName(response, o) # {}
             /\ Cardinality(at) = 2

\* What is open has been rendered and holds what the documents say, whether its
\* header or Expand all has opened it, and however often it was closed.
OpenIsRendered ==
    /\ \A c \in DOMAIN cards : \A i \in DOMAIN cards[c].items :
         cards[c].items[i].open =>
            cards[c].items[i].body = AccBody(response, cards[c].person, i)
    /\ \A g \in DOMAIN groups :
         groups[g].open => groups[g].body = GroupTables(pairs, g)
=============================================================================
