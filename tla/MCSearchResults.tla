-------------------------- MODULE MCSearchResults --------------------------
(* Documents for TLC runs of SearchResults. *)
EXTENDS SearchResults

Plain(n) == [e \in 1..n |-> "text"]

\* Trees of n elements numbered in document order, two ways to extend each.
ParentsOf(n) ==
    {f \in [1..n -> 0..n - 1] :
        /\ f[1] = 0
        /\ \A e \in 2..n :
              LET up[k \in 0..n] == IF k = 0 THEN {} ELSE {k} \cup up[f[k]]
              IN f[e] \in 1..e - 1 /\ f[e] \in up[e - 1]}

\* Every person of at most 4 elements beside itself, one of them nil or none.
Small ==
    {[parent |-> f, tag |-> <<"PersonPublicInfo">> \o t, nil |-> nil, attr |-> {},
      text |-> Plain(5)] :
        f \in ParentsOf(5),
        t \in [1..4 -> {"Names", "Name", "Note"}],
        nil \in {{}} \cup {{e} : e \in 2..5}}

\* Names with a section in one; a group of two, one of them in another; a nil
\* with a child; an id that is noise.
Rich ==
    [parent |-> <<0, 1, 2, 3, 3, 5, 2, 7, 1, 9, 10, 1, 12, 1, 14, 1, 1>>,
     tag |-> <<"PersonPublicInfo", "Names", "Name", "Value", "Part", "Value", "Name",
               "Value", "Note", "Note", "Text", "Note", "Text", "Post", "Text", "Id",
               "PublicId">>,
     nil |-> {14}, attr |-> {1, 3, 12, 13},
     text |-> [Plain(17) EXCEPT ![17] = "a"]]

\* Two persons, the first of them with an id of the other within.
Two ==
    [parent |-> <<0, 1, 2, 2, 4, 1, 6>>,
     tag |-> <<"List", "PersonPublicInfo", "PublicId", "Parent", "PublicId",
               "PersonPublicInfo", "PublicId">>,
     nil |-> {}, attr |-> {},
     text |-> <<"text", "text", "a", "text", "b", "text", "b">>]

\* Person elements, in case there is no PersonPublicInfo.
Persons ==
    [parent |-> <<0, 1, 2, 1, 4, 4>>,
     tag |-> <<"List", "Person", "PersonId", "Person", "PublicId", "PersonId">>,
     nil |-> {5}, attr |-> {}, text |-> <<"text", "text", "a", "text", "", "b">>]

Searches == Small \cup {Rich, Two, Persons}

\* A person and a spouse with official names, two addresses.
Married ==
    [parent |-> <<0, 1, 2, 3, 2, 5, 5, 2, 8, 2, 10>>,
     tag |-> <<"GetPersonResponse", "Person", "Spouse", "SSN", "Names", "Name", "Name",
               "Addresses", "City", "Addresses", "City">>,
     nil |-> {}, attr |-> {2, 3}, text |-> Plain(11)]

\* Names by type, and by element.
Typed ==
    [parent |-> <<0, 1, 2, 3, 4, 4, 3, 7, 7>>,
     tag |-> <<"GetPersonResponse", "Person", "Names", "Name", "Type", "Value", "Name",
               "Type", "Value">>,
     nil |-> {}, attr |-> {},
     text |-> [Plain(9) EXCEPT ![5] = "FirstName", ![8] = "OfficialName"]]

Named ==
    [parent |-> <<0, 1, 2, 2, 2>>,
     tag |-> <<"GetPersonResponse", "Person", "FirstName", "LastName", "Status">>,
     nil |-> {5}, attr |-> {}, text |-> Plain(5)]

Details == {Married, Typed, Named}

Groups == {"Names", "Addresses", "Spouse"}
=============================================================================
