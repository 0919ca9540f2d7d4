--------------------------- MODULE IngredientNames ---------------------------
(***************************************************************************)
(* What an ingredient is identified by (services/ingredient_names.py) and  *)
(* the aisle a name suggests (services/aisles.py).  A name is a sequence   *)
(* of words, in the lower case everything here first puts it in; Comma is  *)
(* a word of its own, and Note stands for a note in brackets.              *)
(***************************************************************************)
EXTENDS WordForms

CONSTANTS
    Modifiers,   \* _MODIFIERS: words that say how it is prepared, or its size
    FormNouns,   \* _FORM_NOUNS: words that say how much of the plant
    Phrases,     \* the keywords of several words, and _EXTRA_PROTECTED
    Keywords,    \* _KEYWORDS: a sequence of [words, aisle]
    Comma, Note

NameLetters(name) == FoldSeq(LAMBDA word, n : n + Letters(word), Len(name) - 1, name)

(* The spelling a product is stored under: of those that fold together, the *)
(* longest.                                                                 *)
Protected == [key \in {FoldWords(p) : p \in Phrases} |->
    CHOOSE p \in Phrases :
        /\ FoldWords(p) = key
        /\ \A q \in Phrases : FoldWords(q) = key => NameLetters(q) <= NameLetters(p)]

Spelling(key) == IF key \in DOMAIN Protected THEN Protected[key] ELSE key
IsProtectedName(name) == FoldWords(name) \in DOMAIN Protected

(* Where the longest product among the words stands, the first of several. *)
ProtectedSpan(words) ==
    LET spans == {s \in (DOMAIN words) \X (DOMAIN words) :
                     s[1] <= s[2] /\ SubSeq(words, s[1], s[2]) \in DOMAIN Protected}
        Better(s, t) == s[2] - s[1] > t[2] - t[1] \/ (s[2] - s[1] = t[2] - t[1] /\ s[1] <= t[1])
    IN IF spans = {} THEN {}
       ELSE LET best == CHOOSE s \in spans : \A t \in spans : Better(s, t) IN best[1]..best[2]

(* Without what follows a comma, and without notes. *)
Cleaned(name) ==
    LET commas == {i \in DOMAIN name : name[i] = Comma} IN
    SelectSeq(IF commas = {} THEN name ELSE SubSeq(name, 1, Min(commas) - 1), LAMBDA word : word # Note)

(* Modifiers go wherever they are, form nouns at the two ends as long as a  *)
(* word is left; what is in frozen stays.                                   *)
Kept(words, frozen) ==
    LET kept == {i \in DOMAIN words : words[i] \notin Modifiers \/ i \in frozen}
        solid == {i \in kept : words[i] \notin FormNouns \/ i \in frozen}
    IN IF solid = {} THEN {i \in kept : i = Min(kept)}
       ELSE {i \in kept : Min(solid) <= i /\ i <= Max(solid)}

WordsAt(words, places) ==
    LET order == SetToSortSeq(places, LAMBDA i, j : i < j) IN [n \in DOMAIN order |-> words[order[n]]]

(* Mutant: what is left is not looked up among the products again. *)
CanonicalIngredientName_AsLeft(name) ==
    LET words == FoldWords(Cleaned(name))
        kept == WordsAt(words, Kept(words, ProtectedSpan(words)))
    IN IF words \in DOMAIN Protected THEN Protected[words]
       ELSE IF kept = <<>> THEN words ELSE kept

CanonicalIngredientName(name) ==
    LET words == FoldWords(Cleaned(name))
        kept == WordsAt(words, Kept(words, ProtectedSpan(words)))
    IN Spelling(IF kept = <<>> THEN words ELSE kept)

(* What get_or_create_ingredient looks for: a name that folds to nothing is *)
(* its own key.                                                             *)
KeyOf(name) == IF CanonicalIngredientName(name) = <<>> THEN name ELSE CanonicalIngredientName(name)

-----------------------------------------------------------------------------
UnknownAisle == "unknown"

(* A word without the s, or all of them, at its end. *)
Stripped(word) ==
    LET end == Ending(word) IN
    <<Stem(word), IF end = "ss" THEN "" ELSE IF end \in DOMAIN WithoutS THEN WithoutS[end] ELSE end>>
SingularMatch(keyword, words) == \E w \in words : Stripped(w) = keyword \/ Stripped(keyword) = w

(* Several words match as a run, one as a whole word, in any number. *)
Matches(keyword, name) ==
    LET folded == FoldWords(name)
        words == ToSet(name) \cup ToSet(folded)
    IN IF Len(keyword) > 1
       THEN keyword \in SubSeqs(name) \/ FoldWords(keyword) \in SubSeqs(folded)
       ELSE \/ keyword[1] \in words
            \/ SingularMatch(keyword[1], words)
            \/ SingularizeFood(keyword[1]) \in words

(* The keyword that is the name; the one that folds to what the name folds  *)
(* to, of several the last; the longest that matches, of several the first. *)
GuessAisle(name) ==
    LET exact == {i \in DOMAIN Keywords : Keywords[i].words = name}
        folded == {i \in DOMAIN Keywords : FoldWords(Keywords[i].words) = FoldWords(name)}
        matching == {i \in DOMAIN Keywords : Matches(Keywords[i].words, name)}
        Size(i) == NameLetters(Keywords[i].words)
        longest == {i \in matching : \A j \in matching : Size(j) <= Size(i)}
    IN CASE exact # {} -> Keywords[Min(exact)].aisle
         [] exact = {} /\ folded # {} -> Keywords[Max(folded)].aisle
         [] exact = {} /\ folded = {} /\ matching # {} -> Keywords[Min(longest)].aisle
         [] OTHER -> UnknownAisle
=============================================================================
