-------------------------------- MODULE Pantry --------------------------------
(***************************************************************************)
(* What a household writes about food: the name of an ingredient, a line   *)
(* with an amount, and, through requests that overlap, its ingredients.    *)
(* The first two are worked out without the database; a behaviour is about *)
(* one of the three, chosen at the start.                                  *)
(***************************************************************************)
EXTENDS Catalogue, RecipeLines

CONSTANTS
    Vocabulary,     \* runs of words, one or more at a time
    MaxWords,       \* bound on the words a name is written on from
    PageLines,      \* lines of recipe pages, as RecipeLines reads them
    Quantities,     \* what API clients send, in ten-thousandths
    SentUnits,
    NoLine

ASSUME PantryAssumption ==
    /\ MaxWords \in Nat
    /\ \A line \in PageLines :
          /\ line.packs = 0 \/ IsMultiplied(line) \/ IsCounted(line)
          /\ line.packs \in Nat /\ (line.number # NoNumber => line.number \in Int)
    /\ Quantities \subseteq Int
    /\ NoAmount \notin SentUnits
    /\ {Tin, Item} \cap NotAWord = {}

VARIABLES
    topic,     \* what the behaviour is about
    spelled,   \* a name, as far as it has been written
    stored,    \* a line as it is stored, or NoLine
    sentUnit   \* history: the unit a client sent it in, or NoAmount

wordVars == <<spelled, stored, sentUnit>>
pantryVars == <<topic, sessionVars, catalogueVars, wordVars>>

PantryInit ==
    /\ topic \in {"names", "lines", "catalogue"}
    /\ spelled = <<>> /\ stored = NoLine /\ sentUnit = NoAmount
    /\ SessionInit
    /\ IF topic = "catalogue" THEN CatalogueInit ELSE rows = <<>> /\ refs = {} /\ earlier = 0

-----------------------------------------------------------------------------
SpellOn ==
    /\ Len(spelled) < MaxWords
    /\ \E words \in Vocabulary : spelled' = spelled \o words
    /\ UNCHANGED <<stored, sentUnit>>

Ingest ==
    /\ \E line \in PageLines : stored' = IngestedLine(line)
    /\ sentUnit' = NoAmount
    /\ UNCHANGED spelled

(* A client's line; what is refused is not stored. *)
Send ==
    /\ \E quantity \in Quantities, unit \in SentUnits :
          /\ \E amount \in Accepted([quantity |-> quantity, unit |-> unit]) :
                stored' = NamedLine(spelled, amount)
          /\ sentUnit' = unit
    /\ UNCHANGED spelled

(* A client reads the line and sends it back: an edit replaces all of them. *)
WriteBack ==
    /\ stored # NoLine
    /\ \E amount \in Accepted(stored.amount) : stored' = [stored EXCEPT !.amount = amount]
    /\ UNCHANGED <<spelled, sentUnit>>

PantryNext ==
    /\ UNCHANGED topic
    /\ \/ topic = "names" /\ SpellOn /\ UNCHANGED <<sessionVars, catalogueVars>>
       \/ topic = "lines" /\ (Ingest \/ Send \/ WriteBack) /\ UNCHANGED <<sessionVars, catalogueVars>>
       \/ topic = "catalogue" /\ DropLine /\ UNCHANGED wordVars
       \/ /\ topic = "catalogue"
          /\ \E r \in Requests : CatalogueStep(r) \/ (End(r) /\ UNCHANGED catalogueVars)
          /\ UNCHANGED wordVars

PantrySpec == PantryInit /\ [][PantryNext]_pantryVars

-----------------------------------------------------------------------------
(* A product inside the key that is not inside the name: dropping a modifier *)
(* from between its words has made it, as in "bay fresh leaf chopped        *)
(* tomatoes".  The key kept the other product whole, its own key will not.  *)
Reunited(name) ==
    LET key == CanonicalIngredientName(name)
        Within(words) == SubSeqs(words) \cap DOMAIN Protected
    IN key \notin DOMAIN Protected /\ Within(FoldWords(key)) \ Within(FoldWords(Cleaned(name))) # {}

(* A plural taken for that of a word without the e: "quiches" and           *)
(* "brioches" become "quich" and "brioch", which no keyword is (_singular), *)
(* although a test says that every folded name must still find the aisle    *)
(* its written form would have.                                             *)
MistakenPlural(word) ==
    /\ Sibilant(word, Hissing \cup Buzzing)
    /\ \E i \in DOMAIN Keywords : <<Stem(word), "e">> \in ToSet(Keywords[i].words)

(* An ingredient's key is its own key, so that a client may write it where  *)
(* it read it, unless folding has reunited a product; and the name suggests *)
(* the same aisle in any number, unless a plural in it is mistaken.         *)
FoldKeepsTheFood ==
    spelled # <<>> =>
        /\ Reunited(spelled) \/ KeyOf(KeyOf(spelled)) = KeyOf(spelled)
        /\ \/ \E word \in ToSet(spelled) : MistakenPlural(word)
           \/ GuessAisle(FoldWords(spelled)) = GuessAisle(spelled)

(* The plural of a unit that is listed without it: "kgs" is taken for a word *)
(* and stored as the word "kg", which means something else when it is sent  *)
(* back; so is "xes", stored as "x", and "s", of which nothing is left.     *)
UnlistedPlural(unit) ==
    LET listed == DOMAIN MetricUnits \cup BannedUnits \cup DOMAIN UnitSynonyms IN
    unit # NoAmount /\ unit \notin listed /\ Singularize(unit) \in listed \cup NotAWord

(* A stored line is accepted as it is and means the same when a client      *)
(* writes it back, wherever it came from.                                   *)
LinesCanBeWrittenBack ==
    stored # NoLine /\ ~UnlistedPlural(sentUnit) => Accepted(stored.amount) = {stored.amount}
=============================================================================
