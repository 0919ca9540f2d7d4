-------------------------------- MODULE Units --------------------------------
(***************************************************************************)
(* What amounts are accepted and how they are stored (services/units.py,   *)
(* schemas/common.py).  Quantities are in ten-thousandths, so that what    *)
(* rounding to three places loses can be seen; units are words as in       *)
(* WordForms.                                                              *)
(***************************************************************************)
EXTENDS WordForms

CONSTANTS
    NotAWord,   \* units with none but other characters, or some besides letters, spaces and hyphens
    NoAmount    \* no quantity and no unit

OneAndMany(stems) == stems \X {"", "s"}
Thousand == 1000
Grams == <<"g", "">>
Millilitres == <<"ml", "">>
Tin == <<"tin", "">>
Item == <<"item", "">>

(* A table of conversions, from rows of units that are converted alike.     *)
Row(units, canonical, multiplier) == [units |-> units, unit |-> canonical, times |-> multiplier]
Table(conversions) ==
    [u \in UNION {r.units : r \in conversions} |->
        LET row == CHOOSE r \in conversions : u \in r.units IN [unit |-> row.unit, times |-> row.times]]

MetricRows ==
    {Row({Grams} \cup OneAndMany({"gram"}), Grams, 1),
     Row({<<"kg", "">>} \cup OneAndMany({"kilogram"}), Grams, Thousand),
     Row({Millilitres, <<"millilitr", "e">>, <<"millilitr", "es">>} \cup OneAndMany({"milliliter"}), Millilitres, 1),
     Row({<<"l", "">>, <<"litr", "e">>, <<"litr", "es">>} \cup OneAndMany({"liter"}), Millilitres, Thousand)}
MetricUnits == Table(MetricRows)

(* What the ingestion's parser converts, being a client like any other. *)
IngestRows ==
    {Row({<<"tsp", "">>} \cup OneAndMany({"teaspoon"}), Millilitres, 5),
     Row({<<"tbsp", "">>} \cup OneAndMany({"tablespoon"}), Millilitres, 15),
     Row(OneAndMany({"cup"}), Millilitres, 240),
     Row({<<"oz", "">>, <<"ounc", "e">>, <<"ounc", "es">>}, Grams, 28),
     Row(OneAndMany({"lb", "pound"}), Grams, 454),
     Row(OneAndMany({"pint"}), Millilitres, 568),
     Row({<<"fl oz", "">>, <<"floz", "">>}, Millilitres, 28)}
IngestConversions == Table(IngestRows)

BannedUnits == DOMAIN IngestConversions \cup {<<"quart", "">>, <<"gallon", "">>} \cup OneAndMany({"stick"})

IrregularSingulars ==
    [w \in {<<s, "ves">> : s \in {"lea", "hal"}}
           \cup {<<s, "es">> : s \in {"bunch", "pinch", "dash", "clov", "slic"}} |->
        <<Stem(w), CASE Ending(w) = "ves" -> "f" [] Stem(w) \in {"clov", "slic"} -> "e" [] OTHER -> "">>]

InTins == OneAndMany({"can"}) \cup {<<"tinned", "">>}
InItems == OneAndMany({"pc"}) \cup {<<"piec", "e">>, <<"piec", "es">>, <<"x", "">>}
UnitSynonyms == [u \in InTins \cup InItems |-> IF u \in InTins THEN Tin ELSE Item]
UnitSynonym(unit) == IF unit \in DOMAIN UnitSynonyms THEN UnitSynonyms[unit] ELSE unit

(* A unit word without the ending of its plural. *)
Singularize(word) ==
    LET end == Ending(word) IN
    IF word \in DOMAIN IrregularSingulars THEN IrregularSingulars[word]
    ELSE CASE end = "ies" -> <<Stem(word), "y">>
           [] Sibilant(word, Hissing) -> <<Stem(word), "">>
           [] end \in DOMAIN WithoutS \ {"ies"} /\ ~Sibilant(word, Hissing) -> <<Stem(word), WithoutS[end]>>
           [] OTHER -> word

IsAccepted(unit) == unit \notin BannedUnits /\ (unit \in DOMAIN MetricUnits \/ unit \notin NotAWord)
NormalizeUnit(unit) ==
    IF unit \in DOMAIN MetricUnits THEN MetricUnits[unit]
    ELSE [unit |-> Singularize(UnitSynonym(unit)), times |-> 1]

Round3(quantity) == 10 * ((quantity + 5) \div 10)

(* Mutant: what rounds to nothing is kept. *)
NormalizeQuantity_KeepsNothing(quantity, unit) ==
    IF ~IsAccepted(unit) THEN {}
    ELSE {[quantity |-> Round3(quantity * NormalizeUnit(unit).times), unit |-> NormalizeUnit(unit).unit]}

(* The amount in the form it is stored in, or none when it is refused. *)
NormalizeQuantity(quantity, unit) ==
    LET value == Round3(quantity * NormalizeUnit(unit).times) IN
    IF ~IsAccepted(unit) \/ value <= 0 THEN {}
    ELSE {[quantity |-> value, unit |-> NormalizeUnit(unit).unit]}

(* IngredientLineIn: no amount at all, or a positive quantity of a unit.    *)
Accepted(amount) ==
    IF amount = NoAmount THEN {NoAmount}
    ELSE IF amount.quantity <= 0 THEN {}
    ELSE NormalizeQuantity(amount.quantity, amount.unit)
=============================================================================
