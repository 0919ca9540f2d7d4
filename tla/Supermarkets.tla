----------------------------- MODULE Supermarkets ----------------------------
(***************************************************************************)
(* The household's supermarkets, of which one may be active                *)
(* (services/supermarkets.py, routers/supermarkets.py).  Switching sends   *)
(* one UPDATE for all the others and changes the one's own flag at the     *)
(* commit.  The UPDATE locks the rows it finds active, and no others.      *)
(***************************************************************************)
EXTENDS Session, FiniteSets

CONSTANTS
    Stores,       \* row ids, each given once
    Names,        \* names as spelt
    Folded,       \* Folded[n]: the name in lower case
    StoreLimit    \* limits.enforce: supermarkets

ASSUME SupermarketsAssumption == StoreLimit \in Nat /\ DOMAIN Folded = Names

VARIABLES
    markets,   \* the rows: their names and flags
    closed,    \* history: the ids that have been deleted
    chosen     \* history: the store the household last said it is at, if any

supermarketVars == <<markets, closed, chosen>>

Markets == DOMAIN markets
Active == {s \in Markets : markets[s].active}
Held == UNION {requests[r].about.off : r \in {x \in Requests : requests[x].phase = "deactivated"}}

SupermarketsInit ==
    /\ markets = [s \in {} |-> [name |-> "none", active |-> FALSE]]
    /\ closed = {}
    /\ chosen = {}

-----------------------------------------------------------------------------

(* _find_by_name *)
NameClash(name, self) == \E s \in Markets \ self : Folded[markets[s].name] = Folded[name]

(* POST /supermarkets as far as limits.enforce. *)
AskCreate(r) ==
    /\ Cardinality(Markets) < StoreLimit
    /\ \E name \in Names, active \in BOOLEAN :
          /\ ~NameClash(name, {})
          /\ Opens(r, "create", [store |-> {}, name |-> name, had |-> "none", active |-> active, was |-> FALSE,
                                 switch |-> active, off |-> {}])
    /\ UNCHANGED supermarketVars

(* PATCH: a new name, a new flag, either or both.  DELETE: the row. *)
GetMarket(r) ==
    /\ \E s \in Markets :
          LET row == markets[s] IN
          \/ \E name \in Names, active, switch \in BOOLEAN :
                /\ name # row.name => ~NameClash(name, {s})
                /\ ~switch => active = row.active
                /\ Opens(r, "patch", [store |-> {s}, name |-> name, had |-> row.name, active |-> active,
                                      was |-> row.active, switch |-> switch, off |-> {}])
          \/ Opens(r, "close", [store |-> {s}])
    /\ UNCHANGED supermarketVars

(* _deactivate_all waits for rows other requests have switched off, and     *)
(* holds its own until the commit.                                          *)
DeactivateAll(r) ==
    LET q == requests[r].about IN
    /\ \E op \in {"create", "patch"} : At(r, "open", op)
    /\ q.switch /\ q.active
    /\ (Active \ q.store) \cap Held = {}
    /\ GoesOn(r, "deactivated", [q EXCEPT !.off = Active \ q.store])
    /\ UNCHANGED supermarketVars

Ready(r) ==
    LET q == requests[r].about IN
    requests[r].phase = IF q.switch /\ q.active THEN "deactivated" ELSE "open"

Off(rows, stores) == [s \in DOMAIN rows |-> IF s \in stores THEN [rows[s] EXCEPT !.active = FALSE] ELSE rows[s]]

(* The database compares the names as they are spelt. *)
CreateSupermarket(r) ==
    LET q == requests[r].about IN
    /\ requests[r].op = "create" /\ Ready(r)
    /\ \A s \in Markets : markets[s].name # q.name
    /\ \E new \in Stores \ (Markets \cup closed) :
          /\ markets' = [s \in Markets \cup {new} |->
                IF s = new THEN [name |-> q.name, active |-> q.active] ELSE Off(markets, q.off)[s]]
          /\ chosen' = IF q.active THEN {new} ELSE chosen
    /\ Commits(r, {"stores", "names"} \cup IF q.active THEN {"active"} ELSE {})
    /\ UNCHANGED closed

(* Mutant: only the flag of the store itself is written. *)
UpdateSupermarket_KeepsOthers(r) ==
    LET q == requests[r].about IN
    /\ requests[r].op = "patch" /\ Ready(r)
    /\ q.store \subseteq Markets
    /\ markets' = [s \in Markets |->
          IF s \in q.store THEN [name |-> q.name, active |-> q.active] ELSE markets[s]]
    /\ chosen' = IF ~q.switch THEN chosen ELSE IF q.active THEN q.store ELSE chosen \ q.store
    /\ Commits(r, (IF q.name # q.had THEN {"names"} ELSE {}) \cup IF q.switch THEN {"active"} ELSE {})
    /\ UNCHANGED closed

(* The row's UPDATE holds what differs from what was loaded; it waits for   *)
(* the row's lock, and fails when the row is gone or the name is taken.     *)
UpdateSupermarket(r) ==
    LET q == requests[r].about
        renamed == q.name # q.had
        flipped == q.active # q.was
        others == Off(markets, q.off)
    IN
    /\ requests[r].op = "patch" /\ Ready(r)
    /\ renamed \/ flipped => q.store \subseteq Markets \ (Held \ q.off)
    /\ renamed => \A s \in Markets \ q.store : markets[s].name # q.name
    /\ markets' = [s \in Markets |->
          IF s \in q.store
          THEN [name |-> IF renamed THEN q.name ELSE others[s].name,
                active |-> IF flipped THEN q.active ELSE others[s].active]
          ELSE others[s]]
    /\ chosen' = IF ~q.switch THEN chosen ELSE IF q.active THEN q.store ELSE chosen \ q.store
    /\ Commits(r, (IF renamed THEN {"names"} ELSE {}) \cup IF q.switch THEN {"active"} ELSE {})
    /\ UNCHANGED closed

DeleteSupermarket(r) ==
    LET q == requests[r].about IN
    /\ At(r, "open", "close")
    /\ q.store \cap Held = {}
    /\ markets' = [s \in Markets \ q.store |-> markets[s]]
    /\ closed' = closed \cup q.store
    /\ chosen' = chosen \ q.store
    /\ Commits(r, {"stores", "active", "names"})

SupermarketStep(r) ==
    \/ AskCreate(r) \/ CreateSupermarket(r)
    \/ GetMarket(r) \/ DeactivateAll(r) \/ UpdateSupermarket(r) \/ DeleteSupermarket(r)

-----------------------------------------------------------------------------
SupermarketsTypeOK ==
    /\ Markets \subseteq Stores
    /\ closed \subseteq Stores
    /\ \A s \in Markets : markets[s].name \in Names /\ markets[s].active \in BOOLEAN

(* The list is sorted for the store the household last said it is at, and   *)
(* no other store is active, unless requests overlapped on the choice.      *)
ActiveIsAsChosen == "active" \notin torn => Active = chosen

=============================================================================
