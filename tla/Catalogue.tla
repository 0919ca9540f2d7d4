------------------------------ MODULE Catalogue ------------------------------
(***************************************************************************)
(* A household's ingredients (services/catalog.py, routers/ingredients.py, *)
(* services/ingredient_merge.py).  A name that is written is looked up by  *)
(* its key and given a row when none has it; the database keeps the names  *)
(* apart, not the keys, and refuses a reference to a row that is gone and  *)
(* the end of a row that is referred to.  A row's aisle, staple flag and   *)
(* value tier are the household's and nothing here reads them.             *)
(***************************************************************************)
EXTENDS Session, IngredientNames

CONSTANTS
    Written,        \* as they are written
    EarlierNames,   \* of rows from before names were folded
    Unkeyed,        \* the key of a row written before the column was there
    NoRow,
    MaxRows         \* bound

(* A key is a name, and the key of an earlier name is its own key: folding   *)
(* twice is folding once (tests/unit/test_ingredient_names.py; Pantry says  *)
(* of which names this is not so).                                         *)
ASSUME CatalogueAssumption ==
    /\ MaxRows \in Nat
    /\ NoRow \notin Nat
    /\ IsFiniteSet(EarlierNames)
    /\ \A n \in Written \cup EarlierNames : KeyOf(n) # Unkeyed
    /\ \A n \in EarlierNames : KeyOf(KeyOf(n)) = KeyOf(n)

VARIABLES
    rows,     \* ingredients, in order of creation
    refs,     \* recipe lines, loose ingredients and list lines: who wrote them and their row
    earlier   \* history: how many rows there were to begin with

catalogueVars == <<rows, refs, earlier>>

Present == {i \in DOMAIN rows : rows[i] # NoRow}
IdentityKey(i) == IF rows[i].key # Unkeyed THEN rows[i].key ELSE KeyOf(rows[i].name)
RefsTo(some) == {ref \in refs : ref.row \in some}

(* Rows from before the fold were given their key by the migration; a row   *)
(* of the build before it has none, and the key for a name.                 *)
CatalogueInit ==
    /\ \E keyed \in SUBSET EarlierNames, unkeyed \in SUBSET {KeyOf(n) : n \in EarlierNames} :
          /\ keyed \cap unkeyed = {}
          /\ rows = SetToSeq([name : unkeyed, key : {Unkeyed}] \cup {[name |-> n, key |-> KeyOf(n)] : n \in keyed})
    /\ earlier = Len(rows)
    /\ refs = {}

-----------------------------------------------------------------------------
(* Mutant: only the key column is looked at. *)
Find_Keyed(key) ==
    LET keyed == {i \in Present : rows[i].key = key} IN
    IF keyed # {} THEN Min(keyed) ELSE NoRow

(* The oldest row with the key, or else the oldest without one whose name   *)
(* is the key.                                                              *)
Find(key) ==
    LET keyed == {i \in Present : rows[i].key = key}
        named == {i \in Present : rows[i].key = Unkeyed /\ rows[i].name = key}
    IN CASE keyed # {} -> Min(keyed)
         [] keyed = {} /\ named # {} -> Min(named)
         [] OTHER -> NoRow

(* get_or_create_ingredient: for a line, or for POST /ingredients. *)
LookUp(r) ==
    /\ \E name \in Written, op \in {"line", "create"} :
          Opens(r, op, [name |-> name, found |-> Find(KeyOf(name))])
    /\ UNCHANGED catalogueVars

Refer(r, i) == refs' = refs \cup {[by |-> requests[r].number, row |-> i]}

UseFound(r) ==
    LET q == requests[r].about IN
    /\ \/ At(r, "open", "line") /\ q.found \in Present /\ Refer(r, q.found)
       \/ At(r, "open", "create") /\ q.found # NoRow /\ UNCHANGED refs
    /\ Commits(r, {})
    /\ UNCHANGED <<rows, earlier>>

AddIngredient(r) ==
    LET q == requests[r].about  new == Len(rows) + 1 IN
    /\ \/ At(r, "open", "line") /\ q.found = NoRow /\ Refer(r, new)
       \/ At(r, "open", "create") /\ q.found = NoRow /\ UNCHANGED refs
    /\ new <= MaxRows
    /\ \A i \in Present : rows[i].name # q.name
    /\ rows' = Append(rows, [name |-> q.name, key |-> KeyOf(q.name)])
    /\ Commits(r, {KeyOf(q.name)})
    /\ UNCHANGED earlier

(* A line goes, with its recipe or its list. *)
DropLine ==
    /\ \E ref \in refs : refs' = refs \ {ref}
    /\ UNCHANGED <<rows, earlier, sessionVars>>

-----------------------------------------------------------------------------
RowsGo(gone) == rows' = [i \in DOMAIN rows |-> IF i \in gone THEN NoRow ELSE rows[i]]

(* POST /ingredients/{keeper}/merge: the references to the duplicates are   *)
(* read one kind after the other and pointed at the keeper.                 *)
AskMerge(r) ==
    /\ \E keeper \in Present : \E duplicates \in (SUBSET (Present \ {keeper})) \ {{}} :
          Opens(r, "merge", [keeper |-> keeper, duplicates |-> duplicates,
                             lines |-> {ref.by : ref \in RefsTo(duplicates)}])
    /\ UNCHANGED catalogueVars

(* It fails when a line it read is gone, when one it did not read refers to *)
(* a duplicate, and when the keeper is gone with lines to move to it.       *)
MergeIngredients(r) ==
    LET q == requests[r].about IN
    /\ At(r, "open", "merge")
    /\ q.lines \subseteq {ref.by : ref \in refs}
    /\ q.lines # {} => q.keeper \in Present
    /\ {ref.by : ref \in RefsTo(q.duplicates)} \subseteq q.lines
    /\ refs' = {IF ref.by \in q.lines THEN [ref EXCEPT !.row = q.keeper] ELSE ref : ref \in refs}
    /\ RowsGo(q.duplicates)
    /\ Commits(r, {})
    /\ UNCHANGED earlier

(* DELETE is refused while something refers to the row. *)
DeleteIngredient(r) ==
    \/ /\ \E i \in Present : RefsTo({i}) = {} /\ Opens(r, "delete", [row |-> i])
       /\ UNCHANGED catalogueVars
    \/ /\ At(r, "open", "delete")
       /\ RefsTo({requests[r].about.row}) = {}
       /\ RowsGo({requests[r].about.row})
       /\ Commits(r, {})
       /\ UNCHANGED <<refs, earlier>>

CatalogueStep(r) ==
    \/ LookUp(r) \/ UseFound(r) \/ AddIngredient(r)
    \/ AskMerge(r) \/ MergeIngredients(r) \/ DeleteIngredient(r)

-----------------------------------------------------------------------------
CatalogueTypeOK ==
    /\ Present \subseteq 1..MaxRows
    /\ \A ref \in refs : ref.row \in Present

(* Two rows are the same food only if both are from before names were       *)
(* folded, or requests overlapped on it: writes resolve to one row.         *)
OneRowPerFood ==
    \A i, j \in Present :
        i < j /\ IdentityKey(i) = IdentityKey(j) => j <= earlier \/ IdentityKey(i) \in torn
=============================================================================
