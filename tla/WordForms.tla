------------------------------ MODULE WordForms ------------------------------
(***************************************************************************)
(* Singular and plural of food words (services/wordforms.py).  A word is a *)
(* stem and an ending, as <<"tomat", "oes">> or <<"mint", "">>: of its     *)
(* letters, the code looks at the ending and at how many there are.        *)
(***************************************************************************)
EXTENDS Integers, SequencesExt

CONSTANTS
    Irregular,       \* _IRREGULAR_PLURALS: word -> word
    NeverSingular,   \* _NEVER_SINGULAR: words
    AlwaysPlural,    \* _ALWAYS_PLURAL: word -> word
    StemLetters,     \* stem -> the number of its letters
    Hissing,         \* stems that end with ch, sh, ss or x
    Buzzing          \* stems that end with z

Stem(word) == word[1]
Ending(word) == word[2]

Letters(word) ==
    StemLetters[Stem(word)] +
        CASE Ending(word) = "" -> 0
          [] Ending(word) \in {"e", "f", "i", "o", "s", "u", "y"} -> 1
          [] Ending(word) \in {"es", "ie", "is", "oe", "ss", "us", "ve"} -> 2
          [] Ending(word) \in {"ies", "oes", "ves"} -> 3

(* Endings without their last "s". *)
WithoutS == [s |-> "", es |-> "e", oes |-> "oe", ves |-> "ve", ies |-> "ie", us |-> "u", is |-> "i"]

(* What is left of an ending that says the word is plural. *)
SingularEnding == [s |-> "", es |-> "e", ves |-> "ve", oes |-> "o", ies |-> "y"]
Sibilant(word, stems) == Ending(word) = "es" /\ Stem(word) \in stems

KeepsItsForm(word) ==
    \/ word \in NeverSingular
    \/ Letters(word) <= 3
    \/ Ending(word) \notin DOMAIN SingularEnding

Singular(word) ==
    IF word \in DOMAIN Irregular THEN Irregular[word]
    ELSE IF KeepsItsForm(word) THEN word
    ELSE <<Stem(word), IF Sibilant(word, Hissing \cup Buzzing) THEN "" ELSE SingularEnding[Ending(word)]>>

SingularizeFood(word) ==
    LET folded == Singular(word) IN
    IF folded \in DOMAIN AlwaysPlural THEN AlwaysPlural[folded] ELSE folded

FoldWords(name) == [i \in DOMAIN name |-> SingularizeFood(name[i])]
=============================================================================
