----------------------------- MODULE RecipeLines -----------------------------
(***************************************************************************)
(* One line of a recipe page, as the ingestion reads it                    *)
(* (services/recipe_parser.py).  A line has the number of packs or none    *)
(* (with an "x" or without), the number that follows or none, and the      *)
(* words after it; what counts as a number in the text, and two measures   *)
(* of the same amount, are not modelled.                                   *)
(***************************************************************************)
EXTENDS Units, IngredientNames

CONSTANTS
    PrepWords,   \* _PREP_ONLY_WORDS
    NoNumber     \* a line without a number

NaturalUnitWords ==
    OneAndMany({"tin", "sprig", "stick", "rasher", "fillet", "handful", "sheet", "ball", "sachet", "jar", "pack",
                "packet", "block", "head", "stalk", "nest"})
    \cup {<<s, e>> : s \in {"clov", "slic", "wedg", "cub"}, e \in {"e", "es"}}
    \cup {<<s, e>> : s \in {"bunch", "pinch"}, e \in {"", "es"}}
    \cup {<<"lea", "f">>, <<"lea", "ves">>, <<"dash", "">>, <<"knob", "">>}
UnitWords == DOMAIN MetricUnits \cup DOMAIN IngestConversions \cup DOMAIN UnitSynonyms \cup NaturalUnitWords
Containers == OneAndMany({"tin", "can", "jar", "pack", "packet", "bottle"})
Packed == {<<"g", "">>, <<"kg", "">>, <<"ml", "">>, <<"l", "">>}
Of == <<"of", "">>

ConvertUnit(quantity, unit) ==
    LET listed == Table(MetricRows \cup IngestRows) IN
    IF unit \in DOMAIN listed
    THEN [quantity |-> Round3(quantity * listed[unit].times), unit |-> listed[unit].unit]
    ELSE [quantity |-> quantity, unit |-> Singularize(UnitSynonym(unit))]

(* The words between commas; the food is the first of them that says more   *)
(* than how it is prepared.                                                 *)
Segments(words) ==
    LET cuts == SetToSortSeq({0, Len(words) + 1} \cup {i \in DOMAIN words : words[i] = Comma}, LAMBDA i, j : i < j)
    IN [k \in 1..(Len(cuts) - 1) |-> SubSeq(words, cuts[k] + 1, cuts[k + 1] - 1)]

CleanName(words) ==
    LET segments == Segments(IF words # <<>> /\ words[1] = Of THEN Tail(words) ELSE words)
        foods == {k \in DOMAIN segments : ~(ToSet(segments[k]) \subseteq PrepWords)}
    IN SelectSeq(segments[IF foods = {} THEN 1 ELSE Min(foods)], LAMBDA word : word # Note)

(* "garlic cloves" is garlic by the clove, "bay leaves" are bay leaves.     *)
HasTrailingUnit(name) == Len(name) > 1 /\ Last(name) \in NaturalUnitWords /\ ~IsProtectedName(name)
LiftTrailingUnit(name) ==
    IF HasTrailingUnit(name)
    THEN [name |-> Front(name), unit |-> Singularize(UnitSynonym(Last(name)))]
    ELSE [name |-> name, unit |-> Item]

AfterContainer(words) ==
    IF Len(words) > 1 /\ words[1] \in Containers
    THEN IF Len(words) > 2 /\ words[2] = Of THEN SubSeq(words, 3, Len(words)) ELSE Tail(words)
    ELSE words

(* "2 x 400 g tins ..." and "2 400 g cans of ...". *)
IsMultiplied(line) ==
    line.packs > 0 /\ line.times /\ Len(line.words) > 1 /\ line.words[1] \notin {Comma, Note}
IsCounted(line) ==
    /\ line.packs > 0 /\ ~line.times
    /\ Len(line.words) > 2 /\ line.words[1] \in Packed /\ line.words[2] \in Containers
HasUnit(words) == Len(words) > 1 /\ words[1] \in UnitWords

NamedLine(name, amount) == [name |-> name, amount |-> amount]
ParseIngredientLine(line) ==
    LET words == line.words IN
    CASE line.number = NoNumber -> NamedLine(CleanName(words), NoAmount)
      [] line.number # NoNumber /\ (IsMultiplied(line) \/ IsCounted(line)) ->
            NamedLine(CleanName(AfterContainer(Tail(words))), ConvertUnit(line.number * line.packs, words[1]))
      [] line.number # NoNumber /\ line.packs = 0 /\ HasUnit(words) ->
            NamedLine(CleanName(Tail(words)), ConvertUnit(line.number, words[1]))
      [] line.number # NoNumber /\ line.packs = 0 /\ ~HasUnit(words) ->
            LET lifted == LiftTrailingUnit(CleanName(words))
            IN NamedLine(lifted.name, [quantity |-> line.number, unit |-> lifted.unit])

(* What parsed_recipe_to_payload makes of it: a line without a name is      *)
(* named as it was written, and an amount that is refused is left out.      *)
IngestedLine(line) ==
    LET item == ParseIngredientLine(line)
        amounts == Accepted(item.amount)
    IN NamedLine(IF item.name = <<>> THEN line.words ELSE item.name,
                 IF amounts = {} THEN NoAmount ELSE CHOOSE a \in amounts : TRUE)
=============================================================================
