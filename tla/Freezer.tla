------------------------------- MODULE Freezer -------------------------------
(***************************************************************************)
(* What is in the freezer (services/freezer.py, routers/freezer.py): a row *)
(* per batch, with the portions left of it, deleted with the last one.  A  *)
(* handler loads the row and writes back a number it worked out from it;   *)
(* the row is not locked.                                                  *)
(***************************************************************************)
EXTENDS Session, FiniteSets

CONSTANTS
    Batches,        \* row ids, each given once
    FreezerLimit,   \* limits.enforce: freezer_items
    MaxPortions     \* bound

ASSUME FreezerAssumption == FreezerLimit \in Nat /\ MaxPortions \in Nat \ {0}

VARIABLES
    left,   \* portions of the batches that have a row
    gone,   \* history: the batches that had one
    said    \* history: portions left by what has been answered, in its order

freezerVars == <<left, gone, said>>

InFreezer == DOMAIN left
Remaining(portions, taken) == IF portions > taken THEN portions - taken ELSE 0
With(rows, b, portions) == [c \in DOMAIN rows \cup {b} |-> IF c = b THEN portions ELSE rows[c]]
Without(rows, b) == [c \in DOMAIN rows \ {b} |-> rows[c]]

FreezerInit ==
    /\ left = [b \in {} |-> 0]
    /\ gone = {}
    /\ said = [b \in {} |-> 0]

-----------------------------------------------------------------------------

(* POST /freezer as far as limits.enforce: the rows are counted. *)
CountBatches(r) ==
    /\ Cardinality(InFreezer) < FreezerLimit
    /\ \E portions \in 1..MaxPortions : Opens(r, "add", [portions |-> portions])
    /\ UNCHANGED freezerVars

AddBatch(r) ==
    /\ At(r, "open", "add")
    /\ \E b \in Batches \ (InFreezer \cup gone) :
          /\ left' = With(left, b, requests[r].about.portions)
          /\ said' = With(said, b, requests[r].about.portions)
    /\ Commits(r, {"freezer"})
    /\ UNCHANGED gone

(* get_item, for PATCH, take and DELETE: the batch as it is now. *)
GetItem(r) ==
    /\ \E b \in InFreezer, portions \in 1..MaxPortions :
          \/ \E op \in {"recount", "take"} :
                Opens(r, op, [batch |-> b, had |-> left[b], portions |-> portions])
          \/ portions = 1 /\ Opens(r, "remove", [batch |-> b])
    /\ UNCHANGED freezerVars

(* An UPDATE is sent when the number differs from the one that was loaded,  *)
(* and fails when the row is gone.                                          *)
Update(q, portions) ==
    \/ /\ portions = q.had
       /\ UNCHANGED left
    \/ /\ portions # q.had
       /\ q.batch \in InFreezer
       /\ left' = With(left, q.batch, portions)

(* Mutant: a correction only ever lowers the count. *)
Recount_OnlyDown(r) ==
    LET q == requests[r].about IN
    /\ At(r, "open", "recount")
    /\ Update(q, IF q.portions < q.had THEN q.portions ELSE q.had)
    /\ said' = IF q.batch \in DOMAIN said THEN With(said, q.batch, q.portions) ELSE said
    /\ Commits(r, {q.batch})
    /\ UNCHANGED gone

Recount(r) ==
    LET q == requests[r].about IN
    /\ At(r, "open", "recount")
    /\ Update(q, q.portions)
    /\ said' = IF q.batch \in DOMAIN said THEN With(said, q.batch, q.portions) ELSE said
    /\ Commits(r, {q.batch})
    /\ UNCHANGED gone

(* The row of batch b is deleted; a DELETE that finds no row is no error. *)
RowGoes(r, b) ==
    /\ left' = Without(left, b)
    /\ gone' = gone \cup {b}
    /\ said' = Without(said, b)
    /\ Commits(r, {b, "freezer"})

(* What is left is worked out from what was loaded; the last portion takes  *)
(* the row with it.                                                         *)
TakePortions(r) ==
    LET q == requests[r].about  remaining == Remaining(q.had, q.portions) IN
    /\ At(r, "open", "take")
    /\ \/ remaining = 0 /\ RowGoes(r, q.batch)
       \/ /\ remaining > 0
          /\ Update(q, remaining)
          /\ said' = IF q.batch \in DOMAIN said /\ said[q.batch] > q.portions
                     THEN With(said, q.batch, said[q.batch] - q.portions)
                     ELSE Without(said, q.batch)
          /\ Commits(r, {q.batch})
          /\ UNCHANGED gone

RemoveFromFreezer(r) ==
    /\ At(r, "open", "remove")
    /\ RowGoes(r, requests[r].about.batch)

FreezerStep(r) ==
    \/ CountBatches(r) \/ AddBatch(r)
    \/ GetItem(r) \/ Recount(r) \/ TakePortions(r) \/ RemoveFromFreezer(r)

-----------------------------------------------------------------------------
FreezerTypeOK ==
    /\ InFreezer \subseteq Batches
    /\ gone \subseteq Batches
    /\ \A b \in InFreezer : left[b] \in 1..MaxPortions

(* The freezer holds what people have been told is left, batch by batch,    *)
(* unless requests overlapped on a batch.                                   *)
LeftIsAsSaid ==
    \A b \in Batches \ torn :
        /\ (b \in InFreezer) = (b \in DOMAIN said)
        /\ b \in InFreezer => left[b] = said[b]

=============================================================================
