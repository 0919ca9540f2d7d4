------------------------------ MODULE LiveList -------------------------------
(***************************************************************************)
(* Which list is the live one (services/shopping.py, routers/shopping.py). *)
(* A request takes the oldest active list, or makes one; archiving retires *)
(* the list the request took and makes a fresh one.  Nothing in the        *)
(* database keeps the live list, a need's line or a client key unique:     *)
(* each is looked for, then added.  What a line says, and what meals       *)
(* contribute to it, is ShoppingList's.                                    *)
(***************************************************************************)
EXTENDS Session, FiniteSets

CONSTANTS
    Needs,      \* (ingredient, unit) pairs
    Keys,       \* ids the clients generate
    NoKey,
    MaxLists    \* bound

ASSUME LiveListAssumption == MaxLists \in Nat /\ NoKey \notin Keys

VARIABLES
    lists,     \* status of each list, in order of creation
    lines,     \* rows: their id, list and need
    sources    \* rows of ad-hoc adds: the line, the key and the request

liveListVars == <<lists, lines, sources>>

Made == DOMAIN lists
Live == {l \in Made : lists[l] = "active"}
Oldest == CHOOSE l \in Live : \A k \in Live : l <= k
OnList(l) == {line \in lines : line.list = l}
SourcesOn(l) == {s \in sources : \E line \in OnList(l) : line.id = s.line}
NewList == 0   \* a list this request has made and not committed

LiveListInit ==
    /\ lists = [l \in 1..0 |-> "active"]
    /\ lines = {}
    /\ sources = {}

-----------------------------------------------------------------------------
(* get_active_list *)
ActiveList == IF Live = {} THEN NewList ELSE Oldest

(* The lists once request r's transaction is in: its new list is the next.  *)
CommittedList(l) == IF l = NewList THEN Cardinality(Made) + 1 ELSE l
WithLists(n, status) == [l \in 1..(Cardinality(Made) + n) |-> IF l \in Made THEN lists[l] ELSE status]

GetActiveList(r) ==
    /\ \/ \E op \in {"look", "archive"} : Opens(r, op, [list |-> ActiveList])
       \/ \E need \in Needs, key \in Keys \cup {NoKey} :
             Opens(r, "put", [list |-> ActiveList, need |-> need, key |-> key])
    /\ UNCHANGED liveListVars

(* GET keeps the list it made. *)
GetShoppingList(r) ==
    LET q == requests[r].about IN
    /\ At(r, "open", "look")
    /\ Cardinality(Made) < MaxLists
    /\ lists' = IF q.list = NewList THEN WithLists(1, "active") ELSE lists
    /\ Commits(r, IF q.list = NewList THEN {"live"} ELSE {})
    /\ UNCHANGED <<lines, sources>>

(* Mutant: the client's key is not looked for. *)
FindItem_NoReplay(r) ==
    LET q == requests[r].about
        line == {x \in OnList(q.list) : x.need = q.need}
        reuse == q.key # NoKey /\ \A x \in lines : x.id # q.key
    IN
    /\ At(r, "open", "put")
    /\ \E id \in IF line # {} THEN {x.id : x \in line}
                ELSE {IF reuse THEN q.key ELSE requests[r].number} :
       GoesOn(r, "found", [list |-> q.list, need |-> q.need, key |-> q.key, known |-> FALSE,
                           fresh |-> line = {},
                           id |-> id])
    /\ UNCHANGED liveListVars

(* add_adhoc_item: has this key been here, is there a line for the need, is *)
(* the key free to be the new line's id.                                    *)
FindItem(r) ==
    LET q == requests[r].about
        line == {x \in OnList(q.list) : x.need = q.need}
        reuse == q.key # NoKey /\ \A x \in lines : x.id # q.key
    IN
    /\ At(r, "open", "put")
    /\ \E id \in IF line # {} THEN {x.id : x \in line}
                ELSE {IF reuse THEN q.key ELSE requests[r].number} :
       GoesOn(r, "found", [list |-> q.list, need |-> q.need, key |-> q.key,
                           known |-> q.key # NoKey /\ \E s \in SourcesOn(q.list) : s.key = q.key,
                           fresh |-> line = {},
                           id |-> id])
    /\ UNCHANGED liveListVars

(* A replay changes nothing.  A new line needs its id to be free, a source  *)
(* its line to be there still.                                              *)
AddItem(r) ==
    LET q == requests[r].about  l == CommittedList(q.list) IN
    /\ At(r, "found", "put")
    /\ l <= MaxLists
    /\ ~q.known => (q.fresh = \A x \in lines : x.id # q.id)
    /\ lists' = IF q.list = NewList THEN WithLists(1, "active") ELSE lists
    /\ lines' = IF q.known \/ ~q.fresh THEN lines
                ELSE lines \cup {[id |-> q.id, list |-> l, need |-> q.need]}
    /\ sources' = IF q.known THEN sources
                  ELSE sources \cup {[line |-> q.id, key |-> q.key, by |-> requests[r].number]}
    /\ Commits(r, (IF q.list = NewList THEN {"live"} ELSE {}) \cup IF q.known THEN {} ELSE {"lines"})

(* DELETE of an ad-hoc line; its sources go with it. *)
DeleteItem(r) ==
    /\ \/ /\ \E line \in lines : Opens(r, "drop", [line |-> line])
          /\ UNCHANGED liveListVars
       \/ LET line == requests[r].about.line IN
          /\ At(r, "open", "drop")
          /\ lines' = {x \in lines : x.id # line.id}
          /\ sources' = {s \in sources : s.line # line.id}
          /\ Commits(r, {"lines"})
          /\ UNCHANGED lists

(* Mutant: a fresh list is made and the old one not retired. *)
ArchiveAndReplace_Reopens(r) ==
    LET q == requests[r].about IN
    /\ At(r, "open", "archive")
    /\ Cardinality(Made) + (IF q.list = NewList THEN 2 ELSE 1) <= MaxLists
    /\ lists' = IF q.list = NewList THEN WithLists(2, "active")
                ELSE [WithLists(1, "archived") EXCEPT ![q.list] = "active"]
    /\ Commits(r, {"live"})
    /\ UNCHANGED <<lines, sources>>

(* The list the request took is archived, and a fresh one made. *)
ArchiveAndReplace(r) ==
    LET q == requests[r].about  l == CommittedList(q.list) IN
    /\ At(r, "open", "archive")
    /\ Cardinality(Made) + (IF q.list = NewList THEN 2 ELSE 1) <= MaxLists
    /\ lists' = [WithLists(IF q.list = NewList THEN 2 ELSE 1, "active") EXCEPT ![l] = "archived"]
    /\ Commits(r, {"live"})
    /\ UNCHANGED <<lines, sources>>

LiveListStep(r) ==
    \/ GetActiveList(r) \/ GetShoppingList(r)
    \/ FindItem(r) \/ AddItem(r) \/ DeleteItem(r) \/ ArchiveAndReplace(r)

-----------------------------------------------------------------------------
LiveListTypeOK ==
    /\ Made \subseteq 1..MaxLists
    /\ \A line \in lines : line.list \in Made /\ line.need \in Needs
    /\ \A s \in sources : \E line \in lines : line.id = s.line

(* One list is live, unless two requests made or archived one at once.      *)
OneLiveList == "live" \notin torn => Cardinality(Live) <= 1

(* A need has one line on a list, and a client key counts once on it,       *)
(* unless two requests added, or made a list, at once.                      *)
OneLinePerNeed ==
    \A l \in Made : {"live", "lines"} \cap torn = {} =>
        /\ \A x, y \in OnList(l) : x.need = y.need => x = y
        /\ \A s, t \in SourcesOn(l) : s.key = t.key /\ s.key # NoKey => s = t

=============================================================================
