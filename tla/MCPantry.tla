------------------------------- MODULE MCPantry -------------------------------
(* Pantry for model checking: a few entries of each of the code's tables.  *)
EXTENDS Pantry

Is(stem) == <<stem, "">>
CommaWord == <<",", "">>
NoteWord == <<"(note)", "">>
Leaf == <<"lea", "f">>
Leaves == <<"lea", "ves">>
Clove == <<"clov", "e">>
Cloves == <<"clov", "es">>
Tomato == <<"tomat", "o">>
Tomatoes == <<"tomat", "oes">>
Beans == <<"bean", "s">>
Greens == <<"green", "s">>
Quiche == <<"quich", "e">>
Quiches == <<"quich", "es">>
Berry == <<"berr", "y">>
Berries == <<"berr", "ies">>
Radishes == <<"radish", "es">>

SomeIrregular == (Leaves :> Leaf) @@ (Tomatoes :> Tomato)
SomeNeverSingular == {Greens}
SomeAlwaysPlural == Is("bean") :> Beans
SomeModifiers == {Is("fresh"), Is("chopped")}
SomeFormNouns == {Leaf, Clove}
SomePhrases ==
    {<<Is("chopped"), Tomatoes>>, <<Is("bay"), Leaf>>, <<Is("bay"), Leaves>>, <<Is("green"), Is("bean")>>,
     <<Is("green"), Beans>>, <<Is("spring"), Greens>>}
SomeKeywords ==
    <<[words |-> <<Is("garlic")>>, aisle |-> "veg"], [words |-> <<Tomato>>, aisle |-> "veg"],
      [words |-> <<Berries>>, aisle |-> "veg"], [words |-> <<Is("radish")>>, aisle |-> "veg"],
      [words |-> <<Is("green"), Is("bean")>>, aisle |-> "veg"], [words |-> <<Quiche>>, aisle |-> "frozen"],
      [words |-> <<Is("chopped"), Tomatoes>>, aisle |-> "tins"], [words |-> <<Is("bay"), Leaf>>, aisle |-> "spices"],
      [words |-> <<Is("bay"), Leaves>>, aisle |-> "spices"]>>
Words == {Is("fresh"), Is("chopped"), Leaf, Leaves, Clove, Cloves, Is("garlic"), Tomato, Tomatoes, Is("bay"),
          Is("green"), Is("bean"), Beans, Greens, Is("spring"), Quiche, Quiches, Berry, Berries, Is("radish"),
          Radishes, Comma, Note}
Runs == {<<w>> : w \in Words} \cup {<<Leaf, Is("chopped"), Tomatoes>>, <<Beans, Is("chopped"), Tomatoes>>}
Lengths == [s \in {Stem(w) : w \in Words} |->
    CASE s \in {"lea", "bay"} -> 3 [] s \in {"clov", "bean", "berr"} -> 4 [] s \in {"fresh", "tomat", "green", "quich"} -> 5
      [] s \in {"garlic", "spring", "radish"} -> 6 [] s = "chopped" -> 7 [] OTHER -> 0]

Spellings == {<<Is("garlic")>>, <<Is("garlic"), Cloves>>, <<Tomatoes, Comma, Is("chopped")>>}
Earlier == {<<Is("garlic"), Cloves>>, <<Is("garlic"), Clove>>}

Line(packs, times, number, words) == [packs |-> packs, times |-> times, number |-> number, words |-> words]
Lines ==
    {Line(2, TRUE, 400000, <<Is("g"), <<"tin", "s">>, Is("chopped"), Tomatoes>>),
     Line(2, TRUE, 50000, <<<<"kg", "s">>, Tomatoes>>),
     Line(2, FALSE, 400000, <<Is("g"), <<"can", "s">>, Of, Beans>>),
     Line(0, FALSE, NoNumber, <<Is("fresh"), Leaves>>),
     Line(0, FALSE, NoNumber, <<Is("fresh"), Comma, Is("chopped")>>),
     Line(0, FALSE, NoNumber, <<Comma>>),
     Line(0, FALSE, 5000, <<<<"cup", "s">>, Beans>>),
     Line(0, FALSE, 20000, <<<<"stick", "s">>, Is("garlic")>>),
     Line(0, FALSE, 0, <<<<"tin", "s">>, Beans>>),
     Line(0, FALSE, 30000, <<Is("garlic"), Cloves>>),
     Line(0, FALSE, 20000, <<Is("bay"), Leaves>>),
     Line(0, FALSE, 20000, <<Is("fresh"), Comma, Is("chopped"), Tomatoes, Note>>),
     Line(0, FALSE, 3330, <<Is("x"), Is("green"), Beans, Comma, Is("fresh")>>)}
Sent == {4, 6, 3333, 10000, 150000}
UnitsSent == {Is("g"), Is("kg"), <<"kg", "s">>, Is("ml"), <<"litr", "es">>, Is("tsp"), <<"tsp", "s">>, <<"cup", "s">>,
           <<"can", "s">>, <<"tin", "s">>, Leaves, Cloves, <<"piec", "es">>, Is("x"), <<"box", "es">>, <<"gla", "ss">>,
           <<"berr", "ies">>, <<"stick", "s">>, <<"x", "es">>, <<"", "s">>,
           Is("2%"), Is("")}
NotWords == {Is("2%"), Is("")}
Symmetry == Permutations(Requests)
=============================================================================
