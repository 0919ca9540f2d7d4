------------------------------ MODULE Session --------------------------------
(***************************************************************************)
(* Requests and their database sessions (database.py, get_db): a handler   *)
(* reads, then commits or is rolled back, and other requests commit in     *)
(* between.  A request that commits to something another request has       *)
(* committed to since it opened leaves that thing in torn: what the parts  *)
(* promise, they promise of what is not torn.                              *)
(***************************************************************************)
EXTENDS Integers

CONSTANTS
    Requests,
    MaxRequests   \* bound

ASSUME SessionAssumption == MaxRequests \in Nat

VARIABLES
    requests,   \* what each open request has loaded, and how far it is
    served,     \* requests so far, counted for the bound
    torn        \* history: see above

sessionVars == <<requests, served, torn>>

Idle == [phase |-> "idle", op |-> "none"]
At(r, phase, op) == requests[r].phase = phase /\ requests[r].op = op

SessionInit ==
    /\ requests = [r \in Requests |-> Idle]
    /\ served = 0
    /\ torn = {}

Opens(r, op, about) ==
    /\ requests[r] = Idle
    /\ served < MaxRequests
    /\ served' = served + 1
    /\ requests' = [requests EXCEPT ![r] =
          [phase |-> "open", op |-> op, about |-> about, number |-> served + 1, behind |-> {}]]
    /\ UNCHANGED torn

(* Request r goes on, having read or staged something. *)
GoesOn(r, phase, about) ==
    /\ requests' = [requests EXCEPT ![r].phase = phase, ![r].about = about]
    /\ UNCHANGED <<served, torn>>

(* Request r commits to the given things and is answered. *)
Commits(r, things) ==
    /\ requests' = [s \in Requests |->
          CASE s = r -> Idle
            [] s # r /\ requests[s] # Idle -> [requests[s] EXCEPT !.behind = @ \cup things]
            [] OTHER -> Idle]
    /\ torn' = torn \cup (things \cap requests[r].behind)
    /\ UNCHANGED served

(* It is refused, fails or is given up, and rolled back. *)
End(r) ==
    /\ requests[r] # Idle
    /\ requests' = [requests EXCEPT ![r] = Idle]
    /\ UNCHANGED <<served, torn>>
=============================================================================
