------------------------------ MODULE Household ------------------------------
(***************************************************************************)
(* Who is in which household, who leads it, and the invites that let       *)
(* people in (routers/auth.py, services/accounts.py).                      *)
(*                                                                         *)
(* A request takes three steps.  It authenticates: deps.get_current_user   *)
(* loads the caller and their household and commits, and neither is read   *)
(* again.  Its handler reads the rest, checks, and stages what it will     *)
(* write.  The commit writes it all.  No row is locked in between, so      *)
(* requests in flight see neither each other's staged writes nor, where    *)
(* they read before, each other's commits.  What the database itself       *)
(* enforces at a commit (foreign keys, the unique e-mail address, an       *)
(* UPDATE that finds its row) is Lands.                                    *)
(*                                                                         *)
(* Households and invites are numbered in the order they are created;      *)
(* 0 stands for none.                                                      *)
(***************************************************************************)
EXTENDS Naturals, Sequences, FiniteSets

CONSTANTS
    People,           \* by their e-mail address
    Founder, Partner, Neighbour,   \* the three with an account at the start
    Requests,         \* requests in flight
    Seats,            \* the tier's cap on "members"
    MaxUsers,         \* MAX_USERS
    MaxHouseholds,    \* MAX_HOUSEHOLDS
    RegistrationEnabled,
    MaxRequests, MaxInvites  \* bounds

ASSUME HouseholdAssumption ==
    /\ {Founder, Partner, Neighbour} \subseteq People
    /\ Cardinality({Founder, Partner, Neighbour}) = 3
    /\ IsFiniteSet(People) /\ 0 \notin People
    /\ {Seats, MaxUsers, MaxHouseholds, MaxRequests, MaxInvites} \subseteq Nat
    /\ Seats > 1
    /\ RegistrationEnabled \in BOOLEAN

None == 0
Homes == 1..(2 + MaxRequests)
New == 3 + MaxRequests   \* the household a request is about to create

VARIABLES
    home,      \* users.household_id; None: no account
    joined,    \* users.created_at
    created,   \* households created so far
    households, \* the ones that still exist
    lead,      \* households.lead_user_id
    content,   \* the households that hold recipes, plans, lists or history
    invites,   \* the rows of household_invites
    requests,  \* the requests in flight
    served,    \* counted for the bound
    via,       \* history: the invite by which someone came to their household
    torn       \* history: households changed by a request that overlapped
               \* another change of the same household

vars == <<home, joined, created, households, lead, content, invites, requests, served, via, torn>>

HasAccount(u) == home[u] # None
Members(h) == {u \in People : home[u] = h}
Idle == [phase |-> "idle"]

(* What a commit will write. *)
Nothing == [who |-> None, to |-> None, drop |-> FALSE, collect |-> None,
            leadOf |-> None, leadTo |-> None, accept |-> None, revoke |-> None, issue |-> FALSE]

Init ==
    /\ home = [u \in People |-> CASE u \in {Founder, Partner} -> 1
                                  [] u = Neighbour -> 2
                                  [] OTHER -> None]
    /\ joined = [u \in People |-> CASE u = Founder -> 1 [] u = Partner -> 2 [] u = Neighbour -> 3
                                    [] OTHER -> 0]
    /\ created = 2
    /\ households = {1, 2}
    /\ lead = [h \in Homes |-> CASE h = 1 -> Founder [] h = 2 -> Neighbour [] OTHER -> None]
    /\ content = {1}
    /\ invites = <<[home |-> 1, state |-> "accepted", by |-> Partner],
                   [home |-> 1, state |-> "open", by |-> None]>>
    /\ requests = [r \in Requests |-> Idle]
    /\ served = 0
    /\ via = [u \in People |-> IF u = Partner THEN 1 ELSE None]
    /\ torn = {}

-----------------------------------------------------------------------------
(* The caller is loaded, with the household they are in at this moment.  A   *)
(* registration loads nobody; of two, either may be the older account.       *)
Authenticate(r, op, u, arg, force) ==
    /\ requests[r] = Idle
    /\ served < MaxRequests
    /\ (op = "register") = (home[u] = None)
    /\ requests' = [requests EXCEPT ![r] =
          [phase |-> "loaded", op |-> op, user |-> u, arg |-> arg, force |-> force,
           home |-> home[u], lead |-> IF home[u] = None THEN None ELSE lead[home[u]],
           touched |-> IF home[u] = None THEN {} ELSE {home[u]},
           joins |-> IF op = "register" THEN served + 4 ELSE 0,
           stale |-> FALSE, writes |-> Nothing]]
    /\ served' = served + 1
    /\ UNCHANGED <<home, joined, created, households, lead, content, invites, via, torn>>

Arrive(r) ==
    \E u \in People :
        \/ \E op \in {"delete", "invite"} : Authenticate(r, op, u, None, FALSE)
        \/ \E t \in People, op \in {"update", "remove"} : Authenticate(r, op, u, t, FALSE)
        \/ \E i \in DOMAIN invites, force \in BOOLEAN : Authenticate(r, "redeem", u, i, force)
        \/ \E i \in DOMAIN invites : Authenticate(r, "revoke", u, i, FALSE)
        \/ \E i \in {None} \cup DOMAIN invites : Authenticate(r, "register", u, i, FALSE)

(* The request is refused, or dies: none of its writes were committed. *)
End(r) ==
    /\ requests[r] # Idle
    /\ requests' = [requests EXCEPT ![r] = Idle]
    /\ UNCHANGED <<home, joined, created, households, lead, content, invites, served, via, torn>>

(* The handler of request r runs, and stages its writes. *)
Handles(r, op) == requests[r].phase = "loaded" /\ requests[r].op = op
Stage(r, writes, others) ==
    /\ requests' = [requests EXCEPT ![r].phase = "staged", ![r].touched = @ \cup others,
                                    ![r].writes = writes]
    /\ UNCHANGED <<home, joined, created, households, lead, content, invites, served, via, torn>>

(* The oldest account among the others in h. *)
NextLead(h, u) ==
    LET rest == Members(h) \ {u}
    IN IF rest = {} THEN None ELSE CHOOSE w \in rest : \A x \in rest : joined[w] <= joined[x]

(* _redeem_invite, which only looks. *)
Redeemable(i) == invites[i].state = "open"

(* limits.enforce(household, "members") *)
HasSeat(h) == Cardinality(Members(h)) < Seats

LeadsAlongsideOthers(q) == q.lead = q.user /\ Cardinality(Members(q.home)) > 1

(* move_user_to_household: t leaves the household q was loaded with.  It     *)
(* raises for a lead who has not handed over, judged by the row q loaded.    *)
MayMove(q, t) == NextLead(q.home, t) = None \/ q.lead # t
Move(q, t, target) ==
    [Nothing EXCEPT !.who = t, !.to = target,
                    !.collect = IF NextLead(q.home, t) = None THEN q.home ELSE None]

-----------------------------------------------------------------------------
(* admit_registration: a new household needs room for itself and an account, *)
(* an invited member only for the account.                                   *)
AdmitRegistration(invited) ==
    /\ Cardinality({u \in People : HasAccount(u)}) < MaxUsers
    /\ invited \/ Cardinality(households) < MaxHouseholds

Register(r) ==
    LET q == requests[r]  i == q.arg IN
    /\ Handles(r, "register")
    /\ home[q.user] = None
    /\ AdmitRegistration(i # None)
    /\ IF i = None
       THEN /\ RegistrationEnabled
            /\ Stage(r, [Nothing EXCEPT !.who = q.user, !.to = New], {})
       ELSE /\ Redeemable(i)
            /\ HasSeat(invites[i].home)
            /\ Stage(r,
                     [Nothing EXCEPT !.who = q.user, !.to = invites[i].home, !.accept = i],
                     {invites[i].home})

(* The lead goes to someone who is in the household now. *)
UpdateHousehold(r) ==
    LET q == requests[r] IN
    /\ Handles(r, "update")
    /\ q.lead = q.user
    /\ q.arg # q.lead
    /\ home[q.arg] = q.home
    /\ Stage(r, [Nothing EXCEPT !.leadOf = q.home, !.leadTo = q.arg], {})

(* Removing is the lead's; leaving is anyone's who does not lead others. *)
RemoveMember(r) ==
    LET q == requests[r]  t == q.arg IN
    /\ Handles(r, "remove")
    /\ IF t = q.user
       THEN ~LeadsAlongsideOthers(q) /\ Cardinality(Members(q.home)) > 1
       ELSE home[t] = q.home /\ q.lead = q.user
    /\ MayMove(q, t)
    /\ Stage(r, Move(q, t, New), {})

(* Mutant: the sole member is not asked about what their household holds. *)
RedeemInvite_Unasked(r) ==
    LET q == requests[r]  i == q.arg IN
    /\ Handles(r, "redeem")
    /\ Redeemable(i)
    /\ invites[i].home # q.home
    /\ ~LeadsAlongsideOthers(q)
    /\ HasSeat(invites[i].home)
    /\ MayMove(q, q.user)
    /\ Stage(r, [Move(q, q.user, invites[i].home) EXCEPT !.accept = i],
             {invites[i].home})

RedeemInvite(r) ==
    LET q == requests[r]  i == q.arg IN
    /\ Handles(r, "redeem")
    /\ Redeemable(i)
    /\ invites[i].home # q.home
    /\ ~LeadsAlongsideOthers(q)
    /\ (Cardinality(Members(q.home)) <= 1 /\ ~q.force) => q.home \notin content
    /\ HasSeat(invites[i].home)
    /\ MayMove(q, q.user)
    /\ Stage(r, [Move(q, q.user, invites[i].home) EXCEPT !.accept = i],
             {invites[i].home})

CreateInvite(r) ==
    LET q == requests[r] IN
    /\ Handles(r, "invite")
    /\ q.lead = q.user
    /\ HasSeat(q.home)
    /\ Len(invites) < MaxInvites
    /\ Stage(r, [Nothing EXCEPT !.issue = TRUE], {})

(* Mutant: an invite that was redeemed can be revoked as well. *)
RevokeInvite_Any(r) ==
    LET q == requests[r]  i == q.arg IN
    /\ Handles(r, "revoke")
    /\ q.lead = q.user
    /\ invites[i].home = q.home
    /\ invites[i].state # "gone"
    /\ Stage(r, [Nothing EXCEPT !.revoke = i], {})

RevokeInvite(r) ==
    LET q == requests[r]  i == q.arg IN
    /\ Handles(r, "revoke")
    /\ q.lead = q.user
    /\ invites[i].home = q.home
    /\ invites[i].state \in {"open", "expired"}
    /\ Stage(r, [Nothing EXCEPT !.revoke = i], {})

(* Mutant: the household always goes with the account. *)
DeleteAccount_All(r) ==
    LET q == requests[r] IN
    /\ Handles(r, "delete")
    /\ Stage(r, [Nothing EXCEPT !.collect = q.home], {})

(* Mutant: a lead who goes leaves nobody in charge. *)
DeleteAccount_NoSuccessor(r) ==
    LET q == requests[r] IN
    /\ Handles(r, "delete")
    /\ IF Cardinality(Members(q.home)) <= 1
       THEN Stage(r, [Nothing EXCEPT !.collect = q.home], {})
       ELSE Stage(r, [Nothing EXCEPT !.who = q.user, !.drop = TRUE], {})

(* The last one out takes the household along; a lead leaves it to the next. *)
DeleteAccount(r) ==
    LET q == requests[r] IN
    /\ Handles(r, "delete")
    /\ IF Cardinality(Members(q.home)) <= 1
       THEN Stage(r, [Nothing EXCEPT !.collect = q.home], {})
       ELSE Stage(r, [Nothing EXCEPT
               !.who = q.user, !.drop = TRUE,
               !.leadOf = IF q.lead = q.user THEN q.home ELSE None,
               !.leadTo = IF q.lead = q.user THEN NextLead(q.home, q.user) ELSE None], {})

-----------------------------------------------------------------------------
(* What the database checks of the writes of q: a row is there to be        *)
(* updated, or not yet to be inserted; one that is to go may be gone.       *)
Lands(q) ==
    LET w == q.writes IN
    /\ w.who # None /\ ~w.drop => (HasAccount(w.who) = (q.op # "register"))
    /\ w.to # None => w.to = New \/ w.to \in households
    /\ w.leadOf # None => w.leadOf \in households /\ HasAccount(w.leadTo)
    /\ w.accept \in DOMAIN invites => invites[w.accept].state # "gone"
    /\ w.issue => q.home \in households /\ HasAccount(q.user)
    /\ w.collect # None => w.collect \in households

(* The accounts that go: one's own, and those of a collected household       *)
(* (delete_household_data deletes by household_id).                          *)
Deleted(w) ==
    {u \in {w.who} : w.drop /\ HasAccount(u)}
    \cup (IF w.collect = None THEN {} ELSE Members(w.collect) \ {w.who})

Commit(r) ==
    LET q == requests[r]
        w == q.writes
        opened == w.to = New
        gone == Deleted(w)
        changed == q.touched \cup {home[u] : u \in {w.who} \cap People}
    IN
    /\ q.phase = "staged"
    /\ Lands(q)
    /\ created' = IF opened THEN created + 1 ELSE created
    /\ households' = (households \ {w.collect}) \cup (IF opened THEN {created'} ELSE {})
    /\ home' = [u \in People |-> IF u \in gone THEN None
                                 ELSE IF u = w.who /\ w.to # None
                                      THEN IF opened THEN created' ELSE w.to
                                      ELSE home[u]]
    /\ joined' = [u \in People |-> IF u \in gone THEN 0
                                   ELSE IF u = w.who /\ q.op = "register" THEN q.joins ELSE joined[u]]
    /\ lead' = [h \in Homes |->
                  IF h = w.collect THEN None
                  ELSE IF opened /\ h = created' THEN w.who
                  ELSE IF h = w.leadOf THEN w.leadTo
                  ELSE IF lead[h] \in gone THEN None ELSE lead[h]]
    /\ content' = content \ {w.collect}
    /\ invites' = [i \in DOMAIN invites |->
                     IF i = w.revoke \/ invites[i].home = w.collect
                     THEN [invites[i] EXCEPT !.state = "gone"]
                     ELSE IF i = w.accept
                          THEN [invites[i] EXCEPT !.state = "accepted", !.by = w.who]
                          ELSE IF invites[i].by \in gone
                               THEN [invites[i] EXCEPT !.by = None] ELSE invites[i]]
                  \o (IF w.issue THEN <<[home |-> q.home, state |-> "open", by |-> None]>>
                      ELSE <<>>)
    /\ via' = [u \in People |-> IF u \in gone THEN None
                                ELSE IF u = w.who /\ w.to # None THEN w.accept ELSE via[u]]
    /\ torn' = torn \cup (IF q.stale THEN changed \ {None} ELSE {})
    /\ requests' = [s \in Requests |->
                      CASE s = r \/ requests[s] = Idle -> Idle
                        [] OTHER -> [requests[s] EXCEPT
                               !.stale = @ \/ requests[s].touched \cap changed # {}]]
    /\ UNCHANGED served

(* A member saves a recipe, a plan, a meal they cooked. *)
AddContent(h) ==
    /\ h \in households
    /\ Members(h) # {}
    /\ h \notin content
    /\ content' = content \cup {h}
    /\ requests' = [s \in Requests |->
                      IF requests[s] = Idle THEN Idle
                      ELSE [requests[s] EXCEPT !.stale = @ \/ h \in requests[s].touched]]
    /\ UNCHANGED <<home, joined, created, households, lead, invites, served, via, torn>>

(* A code's time is up. *)
Expire(i) ==
    /\ invites[i].state = "open"
    /\ invites' = [invites EXCEPT ![i].state = "expired"]
    /\ UNCHANGED <<home, joined, created, households, lead, content, requests, served, via, torn>>

Next ==
    \/ \E r \in Requests :
        \/ Arrive(r)
        \/ Register(r) \/ UpdateHousehold(r) \/ RemoveMember(r)
        \/ CreateInvite(r) \/ RedeemInvite(r) \/ RevokeInvite(r)
        \/ DeleteAccount(r)
        \/ Commit(r)
        \/ End(r)
    \/ \E h \in Homes : AddContent(h)
    \/ \E i \in DOMAIN invites : Expire(i)

Spec == Init /\ [][Next]_vars

-----------------------------------------------------------------------------
(* Everyone with an account is in a household that exists, and so is every  *)
(* lead: the foreign keys and the order of delete_household_data.           *)
TypeOK ==
    /\ created \in Nat /\ households \subseteq 1..created
    /\ \A u \in People : home[u] \in households \cup {None}
    /\ \A u \in People : home[u] # None <=> joined[u] # 0
    /\ \A h \in Homes : lead[h] # None => HasAccount(lead[h])
    /\ content \subseteq households
    /\ \A i \in DOMAIN invites : invites[i].state \in {"open", "expired", "accepted", "gone"}
    /\ torn \subseteq 1..created
    /\ via \in [People -> DOMAIN invites \cup {None}]

(* "Exactly one lead, always": as long as no two requests about a household  *)
(* overlapped, it has a lead, who is one of its members; so no household is  *)
(* left with nobody in it.                                                   *)
LeadIsAMember ==
    \A h \in households \ torn : lead[h] \in Members(h)

(* Whoever came into a household by an invite is on its record: the invite   *)
(* is still there, accepted by them.  So no invite let two people in, and    *)
(* none that was used has been revoked, unless requests overlapped.          *)
AdmissionsAreOnRecord ==
    \A u \in People :
        via[u] # None /\ home[u] \notin torn =>
            invites[via[u]] = [home |-> home[u], state |-> "accepted", by |-> u]

(* An account ends by the request of its owner: deleting an account or       *)
(* leaving a household takes nobody else along, unless requests overlapped.  *)
OnlyOwnersEndAccounts ==
    [][\A u \in People :
          home[u] # None /\ home'[u] = None /\ home[u] \notin torn' =>
              \E r \in Requests : /\ requests[r].phase = "staged" /\ requests'[r] = Idle
                                  /\ requests[r].op = "delete" /\ requests[r].user = u]_vars

(* What a household holds goes only when the last member deletes the account *)
(* or agrees to it (force), unless requests overlapped.                      *)
LibraryGoesByConsent ==
    [][\A h \in content :
          h \notin content' \cup torn' =>
              \E r \in Requests : /\ requests[r].phase = "staged" /\ requests'[r] = Idle
                                  /\ Members(h) = {requests[r].user}
                                  /\ requests[r].op = "delete" \/ requests[r].force]_vars

(* "Someone else remains -- only this account is deleted" (delete_account's  *)
(* docstring): deleting an account deletes nobody else's.                    *)
OnlyThisAccountIsDeleted ==
    [][\A u \in People :
          home[u] # None /\ home'[u] = None =>
              \E r \in Requests : requests[r] # Idle /\ requests'[r] = Idle
                                  /\ requests[r].user = u]_vars
=============================================================================
