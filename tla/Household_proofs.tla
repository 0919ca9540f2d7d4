----------------------------- MODULE Household_proofs -----------------------------
(***************************************************************************)
(* For any number of people, requests and invites: a household nobody      *)
(* changed from two sides at once has a lead who is a member, everyone it  *)
(* admitted on record, and loses accounts and library only to their        *)
(* owners' requests.                                                       *)
(*                                                                         *)
(* The proof follows what a request has read: it stays true until another  *)
(* commit changes the household, and that commit marks the request as      *)
(* stale.  A stale request may write anything that lands, but tears the    *)
(* households it touches; one that is not stale writes what its checks     *)
(* allowed.                                                                *)
(***************************************************************************)
EXTENDS Household, FiniteSetTheorems, TLAPS

-----------------------------------------------------------------------------
(* The next lead. *)

LEMMA ALeastOne ==
    ASSUME NEW S \in SUBSET Nat, S # {}
    PROVE  \E x \in S : \A y \in S : x <= y
<1> DEFINE R == StrictSubsetOrdering(Nat)
           F == FiniteSubsetsOf(Nat)
           T == {1..n : n \in S}
<1>1. IsWellFoundedOn(R, F)
  BY FS_StrictSubsetOrderingWellFounded
<1>2. T \subseteq F /\ T # {}
  <2>1. \A n \in S : 1..n \in SUBSET Nat /\ IsFiniteSet(1..n)
    BY FS_Interval
  <2> QED
    BY <2>1 DEF FiniteSubsetsOf
<1>3. PICK X \in T : \A Y \in T : <<Y, X>> \notin R
  <2> HIDE DEF R, F, T
  <2> QED
    BY <1>1, <1>2, WFMin
<1>4. PICK x \in S : X = 1..x
  OBVIOUS
<1>5. ASSUME NEW y \in S, y < x PROVE FALSE
  <2>1. 1..y \subseteq 1..x /\ x \in 1..x /\ x \notin 1..y
    BY <1>5
  <2>2. 1..y \in T
    BY <1>5
  <2>3. <<1..y, X>> \in R
    BY <1>4, <2>1 DEF StrictSubsetOrdering
  <2> QED
    BY <1>3, <2>2, <2>3
<1>6. \A y \in S : x <= y
  BY <1>5
<1> QED
  BY <1>6

(* next_lead finds somebody as long as there is anybody else.               *)
LEMMA NextLeadIsAnother ==
    ASSUME joined \in [People -> Nat], NEW h, NEW u
    PROVE  IF Members(h) \ {u} = {} THEN NextLead(h, u) = None
           ELSE NextLead(h, u) \in Members(h) \ {u} /\ NextLead(h, u) # None
<1>1. PICK rest : rest = Members(h) \ {u}  OBVIOUS
<1>2. rest \subseteq People  BY <1>1 DEF Members
<1>3. CASE rest = {}  BY <1>1, <1>3 DEF NextLead
<1>4. CASE rest # {}
  <2>1. PICK ages : ages = {joined[w] : w \in rest}  OBVIOUS
  <2>2. ages \in SUBSET Nat /\ ages # {}  BY <1>2, <1>4, <2>1
  <2>3. PICK x \in ages : \A y \in ages : x <= y  BY <2>2, ALeastOne
  <2>4. \E w \in rest : \A v \in rest : joined[w] <= joined[v]  BY <2>1, <2>3
  <2>5. NextLead(h, u) = CHOOSE w \in rest : \A v \in rest : joined[w] <= joined[v]
    BY <1>1, <1>4 DEF NextLead
  <2>6. NextLead(h, u) \in rest  BY <2>4, <2>5
  <2>7. None \notin rest  BY <1>2, HouseholdAssumption DEF None
  <2> QED  BY <1>1, <1>4, <2>6, <2>7
<1> QED
  BY <1>3, <1>4

LEMMA MembersAreFinite ==
    ASSUME NEW h
    PROVE  IsFiniteSet(Members(h)) /\ Cardinality(Members(h)) \in Nat
<1>1. Members(h) \subseteq People  BY DEF Members
<1> QED
  BY <1>1, HouseholdAssumption, FS_Subset, FS_CardinalityType

(* household_user_count, seen by a member.                                  *)
LEMMA TheOnlyMember ==
    ASSUME NEW h, NEW u \in Members(h)
    PROVE  Cardinality(Members(h)) <= 1 <=> Members(h) = {u}
<1>1. IsFiniteSet(Members(h)) /\ Cardinality(Members(h)) \in Nat  BY MembersAreFinite
<1>2. Members(h) = {u} => Cardinality(Members(h)) = 1  BY FS_Singleton
<1>3. ASSUME Cardinality(Members(h)) <= 1, NEW v \in Members(h), v # u PROVE FALSE
  <2>1. {u} \subseteq Members(h) /\ {u} # Members(h)  BY <1>3
  <2>2. Cardinality({u}) = 1 /\ IsFiniteSet({u})  BY FS_Singleton
  <2>3. Cardinality({u}) <= Cardinality(Members(h))  BY <1>1, <2>1, FS_Subset
  <2>4. Cardinality({u}) # Cardinality(Members(h))  BY <1>1, <2>1, FS_Subset
  <2> QED  BY <1>1, <1>3, <2>2, <2>3, <2>4
<1> QED
  BY <1>2, <1>3

-----------------------------------------------------------------------------
(* The inductive invariant. *)
Active == {r \in Requests : requests[r] # Idle}

Invite(x) ==
    /\ x = [home |-> x.home, state |-> x.state, by |-> x.by]
    /\ x.home \in 1..created

Typed ==
    /\ created \in Nat /\ served \in Nat /\ served <= MaxRequests
    /\ IsFiniteSet(Active)
    /\ created + Cardinality(Active) <= 2 + served   \* an opened household is a request that is over
    /\ households \subseteq 1..created /\ content \subseteq households
    /\ home = [u \in People |-> home[u]]
    /\ \A u \in People : home[u] \in households \cup {None}
    /\ joined \in [People -> Nat]
    /\ lead = [h \in Homes |-> lead[h]]
    /\ Len(invites) \in Nat /\ invites = [i \in 1..Len(invites) |-> invites[i]]
    /\ \A i \in 1..Len(invites) : Invite(invites[i])
    /\ via = [u \in People |-> via[u]]
    /\ \A u \in People : via[u] \in 1..Len(invites) \cup {None}
    /\ torn \subseteq 1..created

(* A request in flight, with what it will write. *)
Writes(who, to, drop, collect, leadOf, leadTo, accept, revoke, issue) ==
    [who |-> who, to |-> to, drop |-> drop, collect |-> collect,
     leadOf |-> leadOf, leadTo |-> leadTo, accept |-> accept, revoke |-> revoke, issue |-> issue]

Record(q) ==
    /\ q = [phase |-> q.phase, op |-> q.op, user |-> q.user, arg |-> q.arg, force |-> q.force,
            home |-> q.home, lead |-> q.lead, touched |-> q.touched, joins |-> q.joins,
            stale |-> q.stale, writes |-> q.writes]
    /\ q.phase \in {"loaded", "staged"}
    /\ q.op \in {"delete", "invite", "update", "remove", "redeem", "revoke", "register"}
    /\ q.user \in People /\ q.joins \in Nat /\ q.stale \in BOOLEAN
    /\ q.touched \subseteq 1..created
    /\ IF q.op = "register" THEN q.home = None ELSE q.home \in q.touched
    /\ q.op \in {"update", "remove"} => q.arg \in People
    /\ q.op \in {"redeem", "revoke"} => q.arg \in 1..Len(invites)
    /\ q.op = "register" => q.arg \in 1..Len(invites) \cup {None}

(* What each operation stages. *)
ByInvite(q) ==
    /\ q.arg \in 1..Len(invites)
    /\ invites[q.arg].home \in q.touched
    /\ ~q.stale => invites[q.arg].state # "accepted"

Founds(q) == q.writes = Writes(q.user, New, FALSE, None, None, None, None, None, FALSE)
Joins(q) ==
    /\ q.writes = Writes(q.user, invites[q.arg].home, FALSE, None, None, None, q.arg, None, FALSE)
    /\ ByInvite(q)
HandsOver(q) ==
    /\ q.writes = Writes(None, None, FALSE, None, q.home, q.arg, None, None, FALSE)
    /\ ~q.stale => home[q.arg] = q.home
Removes(q) ==
    /\ \E c \in {None, q.home} :
          /\ q.writes = Writes(q.arg, New, FALSE, c, None, None, None, None, FALSE)
          /\ ~q.stale => c = None
    /\ ~q.stale => home[q.arg] = q.home /\ q.lead # q.arg
Redeems(q) ==
    /\ \E c \in {None, q.home} :
          /\ q.writes = Writes(q.user, invites[q.arg].home, FALSE, c, None, None, q.arg, None, FALSE)
          /\ ~q.stale => IF c = None THEN q.lead # q.user
                         ELSE Members(q.home) = {q.user} /\ (q.force \/ q.home \notin content)
    /\ invites[q.arg].home # q.home
    /\ ByInvite(q)
Issues(q) == q.writes = Writes(None, None, FALSE, None, None, None, None, None, TRUE)
Revokes(q) ==
    /\ q.writes = Writes(None, None, FALSE, None, None, None, None, q.arg, FALSE)
    /\ invites[q.arg].home = q.home
    /\ ~q.stale => invites[q.arg].state # "accepted"
DeletesAll(q) ==
    /\ q.writes = Writes(None, None, FALSE, q.home, None, None, None, None, FALSE)
    /\ ~q.stale => Members(q.home) = {q.user}
DeletesOne(q) ==
    \E l \in {None, q.home} : \E t \in People \cup {None} :
        /\ q.writes = Writes(q.user, None, TRUE, None, l, t, None, None, FALSE)
        /\ l = None => q.lead # q.user
        /\ ~q.stale /\ l # None => t \in Members(q.home) \ {q.user}

Staged(q) ==
    /\ q.op = "register" => Founds(q) \/ Joins(q)
    /\ q.op = "update" => HandsOver(q)
    /\ q.op = "remove" => Removes(q)
    /\ q.op = "redeem" => Redeems(q)
    /\ q.op = "invite" => Issues(q)
    /\ q.op = "revoke" => Revokes(q)
    /\ q.op = "delete" => DeletesAll(q) \/ DeletesOne(q)

(* What was read stays so until another request changes the household. *)
Loaded(q) ==
    ~q.stale /\ q.home # None =>
        /\ home[q.user] = q.home
        /\ q.home \notin torn => lead[q.home] = q.lead

Request(q) == Record(q) /\ Loaded(q) /\ (q.phase = "staged" => Staged(q))
InFlight ==
    /\ requests = [r \in Requests |-> requests[r]]
    /\ \A r \in Active : Request(requests[r])

IInv == Typed /\ InFlight /\ LeadIsAMember /\ AdmissionsAreOnRecord

-----------------------------------------------------------------------------
(* What a request has read stays true until it is marked as stale.          *)

Carried(p, q) ==
    /\ p = [phase |-> p.phase, op |-> p.op, user |-> p.user, arg |-> p.arg, force |-> p.force,
            home |-> p.home, lead |-> p.lead, touched |-> p.touched, joins |-> p.joins,
            stale |-> p.stale, writes |-> p.writes]
    /\ p.phase = q.phase /\ p.op = q.op /\ p.user = q.user /\ p.arg = q.arg /\ p.force = q.force
    /\ p.home = q.home /\ p.lead = q.lead /\ p.touched = q.touched /\ p.joins = q.joins
    /\ p.writes = q.writes
    /\ p.stale \in BOOLEAN /\ (~p.stale => ~q.stale)

Accepted(i) == invites[i].state = "accepted"

(* Nothing that a request could have read of household h is another now.    *)
Kept(h) ==
    /\ Members(h)' = Members(h)
    /\ h \in content' => h \in content
    /\ h \in households /\ h \notin torn' => h \notin torn /\ lead'[h] = lead[h]
    /\ \A i \in 1..Len(invites) : invites[i].home = h /\ Accepted(i)' => Accepted(i)

InvitesStay ==
    /\ Len(invites') \in Nat /\ Len(invites) <= Len(invites')
    /\ \A i \in 1..Len(invites) : invites'[i].home = invites[i].home

LEMMA RequestCarried ==
    ASSUME Typed, Typed', NEW q, Request(q), NEW p, Carried(p, q),
           created <= created', InvitesStay, ~p.stale => \A h \in q.touched : Kept(h)
    PROVE  Request(p)'
<1>1. Record(q) /\ Loaded(q) /\ (q.phase = "staged" => Staged(q))  BY DEF Request
<1>2. \A i \in 1..Len(invites) : i \in 1..Len(invites') /\ invites'[i].home = invites[i].home
  BY DEF InvitesStay, Typed
<1>3. Record(p)'
  <2>1. p.touched \subseteq 1..created'
    <3>1. q.touched \subseteq 1..created /\ created \in Nat /\ created' \in Nat  BY <1>1 DEF Record, Typed
    <3> QED  BY <3>1 DEF Carried
  <2>2. \A i : i \in 1..Len(invites) => i \in 1..Len(invites')  BY <1>2
  <2>3. p = [phase |-> p.phase, op |-> p.op, user |-> p.user, arg |-> p.arg, force |-> p.force,
             home |-> p.home, lead |-> p.lead, touched |-> p.touched, joins |-> p.joins,
             stale |-> p.stale, writes |-> p.writes]
    BY DEF Carried
  <2>4. /\ p.phase \in {"loaded", "staged"}
        /\ p.op \in {"delete", "invite", "update", "remove", "redeem", "revoke", "register"}
        /\ p.user \in People /\ p.joins \in Nat /\ p.stale \in BOOLEAN
    BY <1>1 DEF Record, Carried
  <2>5. /\ IF p.op = "register" THEN p.home = None ELSE p.home \in p.touched
        /\ p.op \in {"update", "remove"} => p.arg \in People
        /\ p.op \in {"redeem", "revoke"} => p.arg \in 1..Len(invites')
        /\ p.op = "register" => p.arg \in 1..Len(invites') \cup {None}
    BY <1>1, <2>2 DEF Record, Carried
  <2> QED  BY <2>1, <2>3, <2>4, <2>5 DEF Record
<1>4. ~p.stale /\ p.home # None => ~q.stale /\ q.home # None /\ Kept(q.home) /\ q.op # "register"
  BY <1>1 DEF Carried, Record
<1>5. \A h, u : Kept(h) /\ u \in Members(h) => home'[u] = h /\ home[u] = h
  BY DEF Kept, Members
<1>6. Loaded(p)'
  <2> SUFFICES ASSUME ~p.stale /\ p.home # None
               PROVE  home'[p.user] = p.home /\ (p.home \notin torn' => lead'[p.home] = p.lead)
    BY DEF Loaded
  <2>1. home[q.user] = q.home /\ (q.home \notin torn => lead[q.home] = q.lead)
    BY <1>1, <1>4 DEF Loaded
  <2>2. q.user \in Members(q.home) /\ q.home \in households
    BY <1>1, <1>4, <2>1 DEF Record, Members, Typed
  <2> QED
    BY <1>4, <1>5, <2>1, <2>2 DEF Carried, Kept
<1>7. ASSUME p.phase = "staged" PROVE Staged(p)'
  <2>1. Staged(q)  BY <1>1, <1>7 DEF Carried
  <2>2. ~p.stale /\ q.op # "register" => Kept(q.home) /\ ~q.stale
    BY <1>1 DEF Carried, Record
  <2>3. ASSUME ByInvite(q) PROVE ByInvite(p)' /\ invites'[p.arg].home = invites[q.arg].home
    <3>1. ~p.stale => Kept(invites[q.arg].home) /\ ~q.stale
      BY <2>3 DEF ByInvite, Carried
    <3>2. ~p.stale => ~Accepted(q.arg)'
      BY <2>3, <3>1 DEF ByInvite, Kept, Accepted
    <3> QED  BY <1>2, <2>3, <3>2 DEF ByInvite, Carried, Accepted
  <2>4. Founds(q) => Founds(p)'  BY DEF Founds, Carried
  <2>5. Joins(q) => Joins(p)'  BY <2>3 DEF Joins, Carried
  <2>6. q.op # "register" /\ HandsOver(q) /\ q.arg \in People => HandsOver(p)'
    <3> SUFFICES ASSUME q.op # "register", HandsOver(q), q.arg \in People PROVE HandsOver(p)'  OBVIOUS
    <3>1. ~p.stale => home'[q.arg] = q.home  BY <1>5, <2>2 DEF HandsOver, Members
    <3> QED  BY <3>1 DEF HandsOver, Carried
  <2>7. q.op # "register" /\ Removes(q) /\ q.arg \in People => Removes(p)'
    <3> SUFFICES ASSUME q.op # "register", Removes(q), q.arg \in People PROVE Removes(p)'  OBVIOUS
    <3>1. ~p.stale => home'[q.arg] = q.home /\ q.lead # q.arg
      BY <1>5, <2>2 DEF Removes, Members
    <3> QED  BY <3>1 DEF Removes, Carried
  <2>8. q.op # "register" /\ Redeems(q) => Redeems(p)'
    <3> SUFFICES ASSUME q.op # "register", Redeems(q) PROVE Redeems(p)'  OBVIOUS
    <3>1. PICK c \in {None, q.home} :
            /\ q.writes = Writes(q.user, invites[q.arg].home, FALSE, c, None, None, q.arg, None, FALSE)
            /\ ~q.stale => IF c = None THEN q.lead # q.user
                           ELSE Members(q.home) = {q.user} /\ (q.force \/ q.home \notin content)
      BY DEF Redeems
    <3>2. ByInvite(p)' /\ invites'[p.arg].home = invites[q.arg].home  BY <2>3 DEF Redeems
    <3>3. ~p.stale => IF c = None THEN q.lead # q.user
                      ELSE Members(q.home)' = {q.user} /\ (q.force \/ q.home \notin content')
      BY <2>2, <3>1 DEF Kept
    <3>4. \E d \in {None, p.home} :
            /\ p.writes = Writes(p.user, invites'[p.arg].home, FALSE, d, None, None, p.arg, None, FALSE)
            /\ ~p.stale => IF d = None THEN p.lead # p.user
                           ELSE Members(p.home)' = {p.user} /\ (p.force \/ p.home \notin content')
      BY <3>1, <3>2, <3>3 DEF Carried
    <3>5. invites'[p.arg].home # p.home  BY <3>2 DEF Redeems, Carried
    <3> QED  BY <3>2, <3>4, <3>5 DEF Redeems, Members
  <2>9. Issues(q) => Issues(p)'  BY DEF Issues, Carried
  <2>10. q.op # "register" /\ Revokes(q) /\ q.arg \in 1..Len(invites) => Revokes(p)'
    <3> SUFFICES ASSUME q.op # "register", Revokes(q), q.arg \in 1..Len(invites) PROVE Revokes(p)'  OBVIOUS
    <3>1. ~p.stale => ~Accepted(q.arg)'
      BY <2>2 DEF Revokes, Kept, Accepted
    <3> QED  BY <1>2, <3>1 DEF Revokes, Carried, Accepted
  <2>11. q.op # "register" /\ DeletesAll(q) => DeletesAll(p)'
    BY <2>2 DEF DeletesAll, Carried, Kept, Members
  <2>12. q.op # "register" /\ DeletesOne(q) => DeletesOne(p)'
    <3> SUFFICES ASSUME q.op # "register", DeletesOne(q) PROVE DeletesOne(p)'  OBVIOUS
    <3>1. PICK l \in {None, q.home} : \E t \in People \cup {None} :
            /\ q.writes = Writes(q.user, None, TRUE, None, l, t, None, None, FALSE)
            /\ l = None => q.lead # q.user
            /\ ~q.stale /\ l # None => t \in Members(q.home) \ {q.user}
      BY DEF DeletesOne
    <3>2. PICK t \in People \cup {None} :
            /\ q.writes = Writes(q.user, None, TRUE, None, l, t, None, None, FALSE)
            /\ l = None => q.lead # q.user
            /\ ~q.stale /\ l # None => t \in Members(q.home) \ {q.user}
      BY <3>1
    <3>3. ~p.stale /\ l # None => t \in Members(q.home)' \ {q.user}
      BY <2>2, <3>2 DEF Kept
    <3> QED  BY <3>1, <3>2, <3>3 DEF DeletesOne, Carried, Members
  <2>13. /\ q.op \in {"update", "remove"} => q.arg \in People
         /\ q.op = "revoke" => q.arg \in 1..Len(invites)
    BY <1>1 DEF Record
  <2>14. p.op = q.op  BY DEF Carried
  <2> QED
    BY <2>1, <2>4, <2>5, <2>6, <2>7, <2>8, <2>9, <2>10, <2>11, <2>12, <2>13, <2>14 DEF Staged
<1> QED
  BY <1>3, <1>6, <1>7 DEF Request

-----------------------------------------------------------------------------
(* Steps that change requests only. *)

Same == UNCHANGED <<home, joined, created, households, lead, content, invites, via, torn>>

LEMMA CarriedAsItIs == ASSUME NEW q, Record(q) PROVE Carried(q, q)
BY DEF Record, Carried

LEMMA RequestUnchanged ==
    ASSUME Typed, Typed', Same, NEW q, Request(q)
    PROVE  Request(q)'
<1>1. Carried(q, q)  BY CarriedAsItIs DEF Request
<1>2. \A h \in q.touched : Kept(h)  BY DEF Same, Kept, Members, Accepted
<1>3. created <= created' /\ InvitesStay  BY DEF Same, Typed, InvitesStay
<1> QED
  BY <1>1, <1>2, <1>3, RequestCarried

LEMMA TypedUnchanged ==
    ASSUME Typed, Same, served' \in Nat, served' <= MaxRequests, IsFiniteSet(Active'),
           created + Cardinality(Active') <= 2 + served'
    PROVE  Typed'
BY DEF Same, Typed, Invite

LEMMA RequestMoved ==
    ASSUME IInv, Same, NEW r \in Requests, NEW next, requests' = [requests EXCEPT ![r] = next],
           served' \in Nat, served' <= MaxRequests,
           \/ next = Idle /\ served' = served
           \/ Request(next) /\ r \in Active /\ served' = served
           \/ Request(next) /\ served' = served + 1
    PROVE  IInv'
<1>1. Typed /\ InFlight /\ created \in Nat /\ served \in Nat /\ IsFiniteSet(Active)
      /\ created + Cardinality(Active) <= 2 + served
  BY DEF IInv, Typed
<1>2. Active' \subseteq Active \cup {r} /\ (next = Idle => Active' \subseteq Active)
  BY <1>1 DEF Active, InFlight
<1>3. Typed'
  <2>1. IsFiniteSet(Active \cup {r}) /\ Cardinality(Active) \in Nat
    BY <1>1, FS_AddElement, FS_CardinalityType
  <2>2. IsFiniteSet(Active')  BY <1>2, <2>1, FS_Subset
  <2>3. Cardinality(Active') \in Nat  BY <2>2, FS_CardinalityType
  <2>4. CASE Active' \subseteq Active /\ served <= served'
    <3>1. Cardinality(Active') <= Cardinality(Active)  BY <1>1, <2>4, FS_Subset
    <3> QED  BY <1>1, <2>1, <2>2, <2>3, <2>4, <3>1, TypedUnchanged
  <2>5. CASE r \notin Active /\ served' = served + 1
    <3>1. Cardinality(Active \cup {r}) = Cardinality(Active) + 1  BY <1>1, <2>5, FS_AddElement
    <3>2. Cardinality(Active') <= Cardinality(Active) + 1  BY <1>2, <2>1, <3>1, FS_Subset
    <3> QED  BY <1>1, <2>1, <2>2, <2>3, <2>5, <3>2, TypedUnchanged
  <2>6. served <= served'  BY <1>1
  <2>7. CASE next = Idle \/ r \in Active
    <3>1. Active' \subseteq Active  BY <1>2, <2>7
    <3> QED  BY <2>4, <2>6, <3>1
  <2>8. CASE next # Idle /\ r \notin Active  BY <2>5, <2>8
  <2> QED  BY <2>7, <2>8
<1>4. InFlight'
  <2>1. requests' = [s \in Requests |-> requests'[s]]  BY <1>1 DEF InFlight
  <2>2. ASSUME NEW s \in Active' PROVE Request(requests[s])'
    <3>1. PICK q : q = requests'[s]  OBVIOUS
    <3>2. s \in Requests /\ q # Idle /\ q = IF s = r THEN next ELSE requests[s]
      BY <3>1, <1>1 DEF Active, InFlight
    <3>3. Request(q)
      <4>1. CASE s = r  BY <3>2, <4>1
      <4>2. CASE s # r  BY <1>1, <3>2, <4>2 DEF Active, InFlight
      <4> QED  BY <4>1, <4>2
    <3>4. Request(q)'  BY <1>1, <1>3, <3>3, RequestUnchanged
    <3> QED
      BY <3>1, <3>4
  <2> QED  BY <2>1, <2>2 DEF InFlight
<1>5. LeadIsAMember'  BY DEF IInv, Same, LeadIsAMember, Members
<1>6. AdmissionsAreOnRecord'  BY DEF IInv, Same, AdmissionsAreOnRecord
<1> QED
  BY <1>3, <1>4, <1>5, <1>6 DEF IInv

LEMMA Authenticating ==
    ASSUME IInv, NEW r \in Requests, NEW op, NEW u \in People, NEW arg, NEW force,
           Authenticate(r, op, u, arg, force),
           \/ op \in {"delete", "invite"}
           \/ op \in {"update", "remove"} /\ arg \in People
           \/ op \in {"redeem", "revoke"} /\ arg \in 1..Len(invites)
           \/ op = "register" /\ arg \in 1..Len(invites) \cup {None}
    PROVE  IInv'
<1>1. PICK q : q = [phase |-> "loaded", op |-> op, user |-> u, arg |-> arg, force |-> force,
           home |-> home[u], lead |-> IF home[u] = None THEN None ELSE lead[home[u]],
           touched |-> IF home[u] = None THEN {} ELSE {home[u]},
           joins |-> IF op = "register" THEN served + 4 ELSE 0,
           stale |-> FALSE, writes |-> Nothing]
  OBVIOUS
<1>2. requests' = [requests EXCEPT ![r] = q] /\ served' = served + 1 /\ Same
  BY <1>1 DEF Authenticate, Same
<1>3. Typed /\ served \in Nat /\ home[u] \in households \cup {None} /\ households \subseteq 1..created
  BY DEF IInv, Typed
<1>4. served' \in Nat /\ served' <= MaxRequests
  BY <1>2, <1>3, HouseholdAssumption DEF Authenticate
<1>5. op = "register" <=> home[u] = None
  BY DEF Authenticate
<1>6. Record(q)
  <2>1. op \in {"delete", "invite", "update", "remove", "redeem", "revoke", "register"}  OBVIOUS
  <2>2. q.touched \subseteq 1..created  BY <1>1, <1>3
  <2>3. IF q.op = "register" THEN q.home = None ELSE q.home \in q.touched  BY <1>1, <1>5
  <2>4. q.joins \in Nat /\ q.stale \in BOOLEAN /\ q.user \in People /\ q.phase \in {"loaded", "staged"}
    BY <1>1, <1>3
  <2>5. /\ q.op \in {"update", "remove"} => q.arg \in People
        /\ q.op \in {"redeem", "revoke"} => q.arg \in 1..Len(invites)
        /\ q.op = "register" => q.arg \in 1..Len(invites) \cup {None}
    BY <1>1
  <2> QED  BY <1>1, <2>1, <2>2, <2>3, <2>4, <2>5 DEF Record
<1>7. Loaded(q)  BY <1>1 DEF Loaded
<1>8. q.phase # "staged"  BY <1>1
<1>9. Request(q)  BY <1>6, <1>7, <1>8 DEF Request
<1> QED
  BY <1>2, <1>4, <1>9, RequestMoved

LEMMA Arriving == ASSUME IInv, NEW r \in Requests, Arrive(r) PROVE IInv'
<1>1. PICK u \in People :
        \/ \E op \in {"delete", "invite"} : Authenticate(r, op, u, None, FALSE)
        \/ \E t \in People, op \in {"update", "remove"} : Authenticate(r, op, u, t, FALSE)
        \/ \E i \in DOMAIN invites, force \in BOOLEAN : Authenticate(r, "redeem", u, i, force)
        \/ \E i \in DOMAIN invites : Authenticate(r, "revoke", u, i, FALSE)
        \/ \E i \in {None} \cup DOMAIN invites : Authenticate(r, "register", u, i, FALSE)
  BY DEF Arrive
<1>2. DOMAIN invites = 1..Len(invites)  BY DEF IInv, Typed
<1>3. CASE \E op \in {"delete", "invite"} : Authenticate(r, op, u, None, FALSE)
  BY <1>3, Authenticating
<1>4. CASE \E t \in People, op \in {"update", "remove"} : Authenticate(r, op, u, t, FALSE)
  BY <1>4, Authenticating
<1>5. CASE \E i \in DOMAIN invites, force \in BOOLEAN : Authenticate(r, "redeem", u, i, force)
  BY <1>2, <1>5, Authenticating
<1>6. CASE \E i \in DOMAIN invites : Authenticate(r, "revoke", u, i, FALSE)
  BY <1>2, <1>6, Authenticating
<1>7. CASE \E i \in {None} \cup DOMAIN invites : Authenticate(r, "register", u, i, FALSE)
  BY <1>2, <1>7, Authenticating
<1> QED
  BY <1>1, <1>3, <1>4, <1>5, <1>6, <1>7

LEMMA Ending == ASSUME IInv, NEW r \in Requests, End(r) PROVE IInv'
<1>1. served \in Nat /\ served <= MaxRequests  BY DEF IInv, Typed
<1> QED
  BY <1>1, RequestMoved DEF End, Same

-----------------------------------------------------------------------------
(* What the handlers stage is what their checks have allowed.               *)

StagedFrom(next, q, writes, others) ==
    /\ next = [phase |-> next.phase, op |-> next.op, user |-> next.user, arg |-> next.arg,
               force |-> next.force, home |-> next.home, lead |-> next.lead, touched |-> next.touched,
               joins |-> next.joins, stale |-> next.stale, writes |-> next.writes]
    /\ next.op = q.op /\ next.user = q.user /\ next.arg = q.arg /\ next.force = q.force
    /\ next.home = q.home /\ next.lead = q.lead /\ next.joins = q.joins /\ next.stale = q.stale
    /\ next.phase = "staged" /\ next.touched = q.touched \cup others /\ next.writes = writes

LEMMA RequestAt ==
    ASSUME IInv, NEW r \in Requests, requests[r].phase # "idle"
    PROVE  r \in Active /\ Request(requests[r])
BY DEF IInv, InFlight, Active, Idle

LEMMA PhaseSet ==
    ASSUME NEW q, Record(q), NEW writes, NEW others
    PROVE  StagedFrom([q EXCEPT !.phase = "staged", !.touched = @ \cup others, !.writes = writes],
                      q, writes, others)
<1>1. PICK a : a = [q EXCEPT !.phase = "staged"]  OBVIOUS
<1>2. PICK b : b = [a EXCEPT !.touched = @ \cup others]  OBVIOUS
<1>3. PICK c : c = [b EXCEPT !.writes = writes]  OBVIOUS
<1>4. q = [phase |-> q.phase, op |-> q.op, user |-> q.user, arg |-> q.arg, force |-> q.force,
            home |-> q.home, lead |-> q.lead, touched |-> q.touched, joins |-> q.joins,
            stale |-> q.stale, writes |-> q.writes]
  BY DEF Record
<1>5. a = [phase |-> "staged", op |-> q.op, user |-> q.user, arg |-> q.arg, force |-> q.force,
            home |-> q.home, lead |-> q.lead, touched |-> q.touched, joins |-> q.joins,
            stale |-> q.stale, writes |-> q.writes]
  BY <1>1, <1>4
<1>6. b = [phase |-> "staged", op |-> q.op, user |-> q.user, arg |-> q.arg, force |-> q.force,
            home |-> q.home, lead |-> q.lead, touched |-> q.touched \cup others, joins |-> q.joins,
            stale |-> q.stale, writes |-> q.writes]
  BY <1>2, <1>5
<1>7. c = [phase |-> "staged", op |-> q.op, user |-> q.user, arg |-> q.arg, force |-> q.force,
            home |-> q.home, lead |-> q.lead, touched |-> q.touched \cup others, joins |-> q.joins,
            stale |-> q.stale, writes |-> writes]
  BY <1>3, <1>6
<1>8. c = [q EXCEPT !.phase = "staged", !.touched = @ \cup others, !.writes = writes]
  BY <1>1, <1>2, <1>3
<1>9. StagedFrom(c, q, writes, others)
  BY <1>7 DEF StagedFrom
<1> QED
  BY <1>8, <1>9

(* It remains to show of each handler that what it stages is sound.         *)
LEMMA Staging ==
    ASSUME IInv, NEW r \in Requests, NEW q, q = requests[r], q.phase = "loaded",
           NEW writes, NEW others \in SUBSET (1..created), Stage(r, writes, others),
           \A next : StagedFrom(next, q, writes, others) => Staged(next)
    PROVE  IInv'
<1>1. r \in Active /\ Request(q)  BY RequestAt
<1>2. PICK next : next = [q EXCEPT !.phase = "staged", !.touched = @ \cup others, !.writes = writes]
  OBVIOUS
<1>3. StagedFrom(next, q, writes, others)  BY <1>1, <1>2, PhaseSet DEF Request
<1>4. requests' = [requests EXCEPT ![r] = next] /\ Same /\ served' = served
  <2>1. requests = [s \in Requests |-> requests[s]]  BY DEF IInv, InFlight
  <2>2. PICK a : a = [q EXCEPT !.phase = "staged"]  OBVIOUS
  <2>3. PICK b : b = [a EXCEPT !.touched = @ \cup others]  OBVIOUS
  <2>4. next = [b EXCEPT !.writes = writes]  BY <1>2, <2>2, <2>3
  <2>5. PICK f : f = [requests EXCEPT ![r].phase = "staged"]  OBVIOUS
  <2>6. PICK g : g = [f EXCEPT ![r].touched = @ \cup others]  OBVIOUS
  <2>7. requests' = [g EXCEPT ![r].writes = writes]  BY <2>5, <2>6 DEF Stage
  <2>8. f = [requests EXCEPT ![r] = a]  BY <2>1, <2>2, <2>5
  <2>9. g = [requests EXCEPT ![r] = b]  BY <2>1, <2>3, <2>6, <2>8
  <2>10. requests' = [requests EXCEPT ![r] = next]  BY <2>1, <2>4, <2>7, <2>9
  <2> QED  BY <2>10 DEF Stage, Same
<1>5. Record(next)
  BY <1>1, <1>3 DEF Request, Record, StagedFrom
<1>6. Loaded(next)
  BY <1>1, <1>3 DEF Request, Loaded, StagedFrom
<1>7. Request(next)  BY <1>3, <1>5, <1>6 DEF Request
<1>8. served \in Nat /\ served <= MaxRequests  BY DEF IInv, Typed
<1> QED
  BY <1>1, <1>4, <1>7, <1>8, RequestMoved

(* A record of writes, one field at a time. *)

LEMMA WriteWhoTo ==
    ASSUME NEW x, NEW y
    PROVE  [Nothing EXCEPT !.who = x, !.to = y]
             = Writes(x, y, FALSE, None, None, None, None, None, FALSE)
<1>1. PICK n : n = Nothing  OBVIOUS
<1>2. n = Writes(None, None, FALSE, None, None, None, None, None, FALSE)  BY <1>1 DEF Nothing, Writes
<1>3. PICK a : a = [n EXCEPT !.who = x]  OBVIOUS
<1>4. a = Writes(x, None, FALSE, None, None, None, None, None, FALSE)  BY <1>3, <1>2 DEF Writes
<1>5. PICK b : b = [a EXCEPT !.to = y]  OBVIOUS
<1>6. b = Writes(x, y, FALSE, None, None, None, None, None, FALSE)  BY <1>5, <1>4 DEF Writes
<1>7. b = [n EXCEPT !.who = x, !.to = y]
  BY <1>3, <1>5
<1>8. [n EXCEPT !.who = x, !.to = y] = [Nothing EXCEPT !.who = x, !.to = y]
  BY <1>1, Zenon
<1> QED  BY <1>6, <1>7, <1>8, Zenon

LEMMA WriteWhoToAccept ==
    ASSUME NEW x, NEW y, NEW z
    PROVE  [Nothing EXCEPT !.who = x, !.to = y, !.accept = z]
             = Writes(x, y, FALSE, None, None, None, z, None, FALSE)
<1>1. PICK n : n = Nothing  OBVIOUS
<1>2. n = Writes(None, None, FALSE, None, None, None, None, None, FALSE)  BY <1>1 DEF Nothing, Writes
<1>3. PICK a : a = [n EXCEPT !.who = x]  OBVIOUS
<1>4. a = Writes(x, None, FALSE, None, None, None, None, None, FALSE)  BY <1>3, <1>2 DEF Writes
<1>5. PICK b : b = [a EXCEPT !.to = y]  OBVIOUS
<1>6. b = Writes(x, y, FALSE, None, None, None, None, None, FALSE)  BY <1>5, <1>4 DEF Writes
<1>7. PICK c : c = [b EXCEPT !.accept = z]  OBVIOUS
<1>8. c = Writes(x, y, FALSE, None, None, None, z, None, FALSE)  BY <1>7, <1>6 DEF Writes
<1>9. c = [n EXCEPT !.who = x, !.to = y, !.accept = z]
  BY <1>3, <1>5, <1>7
<1>10. [n EXCEPT !.who = x, !.to = y, !.accept = z] = [Nothing EXCEPT !.who = x, !.to = y, !.accept = z]
  BY <1>1, Zenon
<1> QED  BY <1>8, <1>9, <1>10, Zenon

LEMMA WriteMove ==
    ASSUME NEW x, NEW y, NEW z
    PROVE  [Nothing EXCEPT !.who = x, !.to = y, !.collect = z]
             = Writes(x, y, FALSE, z, None, None, None, None, FALSE)
<1>1. PICK n : n = Nothing  OBVIOUS
<1>2. n = Writes(None, None, FALSE, None, None, None, None, None, FALSE)  BY <1>1 DEF Nothing, Writes
<1>3. PICK a : a = [n EXCEPT !.who = x]  OBVIOUS
<1>4. a = Writes(x, None, FALSE, None, None, None, None, None, FALSE)  BY <1>3, <1>2 DEF Writes
<1>5. PICK b : b = [a EXCEPT !.to = y]  OBVIOUS
<1>6. b = Writes(x, y, FALSE, None, None, None, None, None, FALSE)  BY <1>5, <1>4 DEF Writes
<1>7. PICK c : c = [b EXCEPT !.collect = z]  OBVIOUS
<1>8. c = Writes(x, y, FALSE, z, None, None, None, None, FALSE)  BY <1>7, <1>6 DEF Writes
<1>9. c = [n EXCEPT !.who = x, !.to = y, !.collect = z]
  BY <1>3, <1>5, <1>7
<1>10. [n EXCEPT !.who = x, !.to = y, !.collect = z] = [Nothing EXCEPT !.who = x, !.to = y, !.collect = z]
  BY <1>1, Zenon
<1> QED  BY <1>8, <1>9, <1>10, Zenon

LEMMA WriteLead ==
    ASSUME NEW x, NEW y
    PROVE  [Nothing EXCEPT !.leadOf = x, !.leadTo = y]
             = Writes(None, None, FALSE, None, x, y, None, None, FALSE)
<1>1. PICK n : n = Nothing  OBVIOUS
<1>2. n = Writes(None, None, FALSE, None, None, None, None, None, FALSE)  BY <1>1 DEF Nothing, Writes
<1>3. PICK a : a = [n EXCEPT !.leadOf = x]  OBVIOUS
<1>4. a = Writes(None, None, FALSE, None, x, None, None, None, FALSE)  BY <1>3, <1>2 DEF Writes
<1>5. PICK b : b = [a EXCEPT !.leadTo = y]  OBVIOUS
<1>6. b = Writes(None, None, FALSE, None, x, y, None, None, FALSE)  BY <1>5, <1>4 DEF Writes
<1>7. b = [n EXCEPT !.leadOf = x, !.leadTo = y]
  BY <1>3, <1>5
<1>8. [n EXCEPT !.leadOf = x, !.leadTo = y] = [Nothing EXCEPT !.leadOf = x, !.leadTo = y]
  BY <1>1, Zenon
<1> QED  BY <1>6, <1>7, <1>8, Zenon

LEMMA WriteOneAccount ==
    ASSUME NEW x, NEW y, NEW z
    PROVE  [Nothing EXCEPT !.who = x, !.drop = TRUE, !.leadOf = y, !.leadTo = z]
             = Writes(x, None, TRUE, None, y, z, None, None, FALSE)
<1>1. PICK n : n = Nothing  OBVIOUS
<1>2. n = Writes(None, None, FALSE, None, None, None, None, None, FALSE)  BY <1>1 DEF Nothing, Writes
<1>3. PICK a : a = [n EXCEPT !.who = x]  OBVIOUS
<1>4. a = Writes(x, None, FALSE, None, None, None, None, None, FALSE)  BY <1>3, <1>2 DEF Writes
<1>5. PICK b : b = [a EXCEPT !.drop = TRUE]  OBVIOUS
<1>6. b = Writes(x, None, TRUE, None, None, None, None, None, FALSE)  BY <1>5, <1>4 DEF Writes
<1>7. PICK c : c = [b EXCEPT !.leadOf = y]  OBVIOUS
<1>8. c = Writes(x, None, TRUE, None, y, None, None, None, FALSE)  BY <1>7, <1>6 DEF Writes
<1>9. PICK d : d = [c EXCEPT !.leadTo = z]  OBVIOUS
<1>10. d = Writes(x, None, TRUE, None, y, z, None, None, FALSE)  BY <1>9, <1>8 DEF Writes
<1>11. d = [n EXCEPT !.who = x, !.drop = TRUE, !.leadOf = y, !.leadTo = z]
  BY <1>3, <1>5, <1>7, <1>9
<1>12. [n EXCEPT !.who = x, !.drop = TRUE, !.leadOf = y, !.leadTo = z] = [Nothing EXCEPT !.who = x, !.drop = TRUE, !.leadOf = y, !.leadTo = z]
  BY <1>1, Zenon
<1> QED  BY <1>10, <1>11, <1>12, Zenon

LEMMA WriteAll ==
    ASSUME NEW x
    PROVE  [Nothing EXCEPT !.collect = x]
             = Writes(None, None, FALSE, x, None, None, None, None, FALSE)
<1>1. PICK n : n = Nothing  OBVIOUS
<1>2. n = Writes(None, None, FALSE, None, None, None, None, None, FALSE)  BY <1>1 DEF Nothing, Writes
<1>3. PICK a : a = [n EXCEPT !.collect = x]  OBVIOUS
<1>4. a = Writes(None, None, FALSE, x, None, None, None, None, FALSE)  BY <1>3, <1>2 DEF Writes
<1>5. a = [n EXCEPT !.collect = x]
  BY <1>3
<1>6. [n EXCEPT !.collect = x] = [Nothing EXCEPT !.collect = x]
  BY <1>1, Zenon
<1> QED  BY <1>4, <1>5, <1>6, Zenon

LEMMA WriteRevoke ==
    ASSUME NEW x
    PROVE  [Nothing EXCEPT !.revoke = x]
             = Writes(None, None, FALSE, None, None, None, None, x, FALSE)
<1>1. PICK n : n = Nothing  OBVIOUS
<1>2. n = Writes(None, None, FALSE, None, None, None, None, None, FALSE)  BY <1>1 DEF Nothing, Writes
<1>3. PICK a : a = [n EXCEPT !.revoke = x]  OBVIOUS
<1>4. a = Writes(None, None, FALSE, None, None, None, None, x, FALSE)  BY <1>3, <1>2 DEF Writes
<1>5. a = [n EXCEPT !.revoke = x]
  BY <1>3
<1>6. [n EXCEPT !.revoke = x] = [Nothing EXCEPT !.revoke = x]
  BY <1>1, Zenon
<1> QED  BY <1>4, <1>5, <1>6, Zenon

LEMMA WriteIssue ==
    [Nothing EXCEPT !.issue = TRUE]
             = Writes(None, None, FALSE, None, None, None, None, None, TRUE)
<1>1. PICK n : n = Nothing  OBVIOUS
<1>2. n = Writes(None, None, FALSE, None, None, None, None, None, FALSE)  BY <1>1 DEF Nothing, Writes
<1>3. PICK a : a = [n EXCEPT !.issue = TRUE]  OBVIOUS
<1>4. a = Writes(None, None, FALSE, None, None, None, None, None, TRUE)  BY <1>3, <1>2 DEF Writes
<1>5. a = [n EXCEPT !.issue = TRUE]
  BY <1>3
<1>6. [n EXCEPT !.issue = TRUE] = [Nothing EXCEPT !.issue = TRUE]
  BY <1>1, Zenon
<1> QED  BY <1>4, <1>5, <1>6, Zenon

LEMMA InviteHome ==
    ASSUME IInv, NEW i \in 1..Len(invites)
    PROVE  invites[i].home \in 1..created
BY DEF IInv, Typed, Invite

LEMMA Registering == ASSUME IInv, NEW r \in Requests, Register(r) PROVE IInv'
<1>1. PICK q : q = requests[r]  OBVIOUS
<1>2. q.phase = "loaded" /\ q.op = "register"  BY <1>1 DEF Register, Handles
<1>3. Request(q)  BY <1>1, <1>2, RequestAt
<1>4. CASE q.arg = None
  <2>1. Stage(r, [Nothing EXCEPT !.who = q.user, !.to = New], {})  BY <1>1, <1>4 DEF Register
  <2>2. [Nothing EXCEPT !.who = q.user, !.to = New]
          = Writes(q.user, New, FALSE, None, None, None, None, None, FALSE)
    BY WriteWhoTo
  <2>3. PICK writes : writes = Writes(q.user, New, FALSE, None, None, None, None, None, FALSE)  OBVIOUS
  <2>4. \A next : StagedFrom(next, q, writes, {}) => Staged(next)
    BY <1>2, <2>3 DEF StagedFrom, Staged, Founds
  <2>5. Stage(r, writes, {})  BY <2>1, <2>2, <2>3
  <2> QED  BY <1>1, <1>2, <2>4, <2>5, Staging
<1>5. CASE q.arg # None
  <2>1. PICK i : i = q.arg  OBVIOUS
  <2>2. i \in 1..Len(invites)  BY <1>2, <1>3, <1>5, <2>1 DEF Request, Record
  <2>3. PICK h : h = invites[i].home  OBVIOUS
  <2>4. /\ invites[i].state = "open"
        /\ Stage(r, [Nothing EXCEPT !.who = q.user, !.to = h, !.accept = i], {h})
    BY <1>1, <1>5, <2>1, <2>3 DEF Register, Redeemable
  <2>5. [Nothing EXCEPT !.who = q.user, !.to = h, !.accept = i]
          = Writes(q.user, h, FALSE, None, None, None, i, None, FALSE)
    BY WriteWhoToAccept
  <2>6. PICK writes : writes = Writes(q.user, h, FALSE, None, None, None, i, None, FALSE)  OBVIOUS
  <2>7. \A next : StagedFrom(next, q, writes, {h}) => Staged(next)
    BY <1>2, <2>1, <2>2, <2>3, <2>4, <2>6 DEF StagedFrom, Staged, Joins, ByInvite
  <2>8. Stage(r, writes, {h}) /\ {h} \in SUBSET (1..created)
    BY <2>2, <2>3, <2>4, <2>5, <2>6, InviteHome
  <2> QED  BY <1>1, <1>2, <2>7, <2>8, Staging
<1> QED
  BY <1>4, <1>5

LEMMA HandingOver == ASSUME IInv, NEW r \in Requests, UpdateHousehold(r) PROVE IInv'
<1>1. PICK q : q = requests[r]  OBVIOUS
<1>2. /\ q.phase = "loaded" /\ q.op = "update" /\ home[q.arg] = q.home
      /\ Stage(r, [Nothing EXCEPT !.leadOf = q.home, !.leadTo = q.arg], {})
  BY <1>1 DEF UpdateHousehold, Handles
<1>3. PICK writes : writes = Writes(None, None, FALSE, None, q.home, q.arg, None, None, FALSE)  OBVIOUS
<1>4. [Nothing EXCEPT !.leadOf = q.home, !.leadTo = q.arg] = writes
  BY <1>3, WriteLead, Zenon
<1>5. \A next : StagedFrom(next, q, writes, {}) => Staged(next)
  BY <1>2, <1>3 DEF StagedFrom, Staged, HandsOver
<1>6. Stage(r, writes, {})  BY <1>2, <1>4
<1> QED
  BY <1>1, <1>2, <1>5, <1>6, Staging

LEMMA MoveWrites ==
    ASSUME NEW q, NEW t, NEW to
    PROVE  \E c \in {None, q.home} :
              /\ Move(q, t, to) = Writes(t, to, FALSE, c, None, None, None, None, FALSE)
              /\ c = IF NextLead(q.home, t) = None THEN q.home ELSE None
<1>1. PICK c : c = IF NextLead(q.home, t) = None THEN q.home ELSE None  OBVIOUS
<1>2. Move(q, t, to) = [Nothing EXCEPT !.who = t, !.to = to, !.collect = c]  BY <1>1 DEF Move
<1> QED  BY <1>1, <1>2, WriteMove

(* Whoever removes a member stays, so that the household goes on.           *)
LEMMA Removing == ASSUME IInv, NEW r \in Requests, RemoveMember(r) PROVE IInv'
<1>1. PICK q : q = requests[r]  OBVIOUS
<1>2. q.phase = "loaded" /\ q.op = "remove"  BY <1>1 DEF RemoveMember, Handles
<1>3. Request(q) /\ Typed  BY <1>1, <1>2, RequestAt DEF IInv
<1>4. PICK t \in People : t = q.arg  BY <1>2, <1>3 DEF Request, Record
<1>5. /\ IF t = q.user
         THEN ~LeadsAlongsideOthers(q) /\ Cardinality(Members(q.home)) > 1
         ELSE home[t] = q.home /\ q.lead = q.user
      /\ MayMove(q, t)
      /\ Stage(r, Move(q, t, New), {})
  BY <1>1, <1>4 DEF RemoveMember
<1>6. PICK c \in {None, q.home} :
        /\ Move(q, t, New) = Writes(t, New, FALSE, c, None, None, None, None, FALSE)
        /\ c = IF NextLead(q.home, t) = None THEN q.home ELSE None
  BY MoveWrites
<1>7. PICK writes : writes = Writes(t, New, FALSE, c, None, None, None, None, FALSE)  OBVIOUS
<1>8. ASSUME ~q.stale PROVE c = None /\ home[t] = q.home /\ q.lead # t
  <2>1. home[q.user] = q.home /\ q.user \in People /\ q.home # None
    <3>1. q.home \in q.touched /\ q.touched \subseteq 1..created /\ q.user \in People
      BY <1>2, <1>3 DEF Request, Record
    <3>2. q.home # None  BY <3>1 DEF None
    <3> QED  BY <1>3, <1>8, <3>1, <3>2 DEF Request, Loaded
  <2>2. q.user \in Members(q.home)  BY <2>1 DEF Members
  <2>3. Members(q.home) \ {t} # {}
    <3>1. CASE t # q.user  BY <2>2, <3>1
    <3>2. CASE t = q.user
      <4>1. Cardinality(Members(q.home)) > 1 /\ Cardinality(Members(q.home)) \in Nat
        BY <1>5, <3>2, MembersAreFinite
      <4>2. Members(q.home) # {t}  BY <2>2, <3>2, <4>1, TheOnlyMember
      <4> QED  BY <2>2, <3>2, <4>2
    <3> QED  BY <3>1, <3>2
  <2>4. NextLead(q.home, t) # None  BY <1>3, <2>3, NextLeadIsAnother DEF Typed
  <2>5. q.lead # t  BY <1>5, <2>4 DEF MayMove
  <2>6. home[t] = q.home  BY <1>5, <2>1
  <2> QED  BY <1>6, <2>4, <2>5, <2>6
<1>9. \A next : StagedFrom(next, q, writes, {}) => Staged(next)
  BY <1>2, <1>4, <1>7, <1>8 DEF StagedFrom, Staged, Removes
<1>10. Stage(r, writes, {})  BY <1>5, <1>6, <1>7
<1> QED
  BY <1>1, <1>2, <1>9, <1>10, Staging

LEMMA AtHome ==
    ASSUME Typed, NEW q, Request(q), q.op # "register"
    PROVE  /\ q.home # None /\ q.home \in 1..created /\ q.user \in People
           /\ ~q.stale => q.user \in Members(q.home) /\ home[q.user] = q.home
<1>1. q.home \in q.touched /\ q.touched \subseteq 1..created /\ q.user \in People
  BY DEF Request, Record
<1>2. q.home # None  BY <1>1 DEF None
<1> QED
  BY <1>1, <1>2 DEF Request, Loaded, Members

LEMMA Redeeming == ASSUME IInv, NEW r \in Requests, RedeemInvite(r) PROVE IInv'
<1>1. PICK q : q = requests[r]  OBVIOUS
<1>2. q.phase = "loaded" /\ q.op = "redeem"  BY <1>1 DEF RedeemInvite, Handles
<1>3. Request(q) /\ Typed  BY <1>1, <1>2, RequestAt DEF IInv
<1>4. PICK i \in 1..Len(invites) : i = q.arg  BY <1>2, <1>3 DEF Request, Record
<1>5. PICK h : h = invites[i].home  OBVIOUS
<1>6. PICK u : u = q.user  OBVIOUS
<1>7. /\ invites[i].state = "open" /\ h # q.home
      /\ (Cardinality(Members(q.home)) <= 1 /\ ~q.force) => q.home \notin content
      /\ MayMove(q, u)
      /\ Stage(r, [Move(q, u, h) EXCEPT !.accept = i], {h})
  BY <1>1, <1>4, <1>5, <1>6 DEF RedeemInvite, Redeemable
<1>8. PICK c \in {None, q.home} :
        /\ Move(q, u, h) = Writes(u, h, FALSE, c, None, None, None, None, FALSE)
        /\ c = IF NextLead(q.home, u) = None THEN q.home ELSE None
  BY MoveWrites
<1>9. PICK writes : writes = Writes(u, h, FALSE, c, None, None, i, None, FALSE)  OBVIOUS
<1>10. [Move(q, u, h) EXCEPT !.accept = i] = writes
  <2>1. PICK m : m = Move(q, u, h)  OBVIOUS
  <2>2. m = Writes(u, h, FALSE, c, None, None, None, None, FALSE)  BY <1>8, <2>1
  <2>3. PICK a : a = [m EXCEPT !.accept = i]  OBVIOUS
  <2>4. a = writes
    <3>1. a = Writes(u, h, FALSE, c, None, None, i, None, FALSE)  BY <2>2, <2>3 DEF Writes
    <3> QED  BY <1>9, <3>1
  <2>5. [m EXCEPT !.accept = i] = [Move(q, u, h) EXCEPT !.accept = i]  BY <2>1, Zenon
  <2> QED  BY <2>3, <2>4, <2>5, Zenon
<1>11. ~q.stale => IF c = None THEN q.lead # u
                   ELSE Members(q.home) = {u} /\ (q.force \/ q.home \notin content)
  <2> SUFFICES ASSUME ~q.stale
               PROVE  IF c = None THEN q.lead # u
                      ELSE Members(q.home) = {u} /\ (q.force \/ q.home \notin content)
    OBVIOUS
  <2>1. u \in Members(q.home) /\ q.home # None  BY <1>2, <1>3, <1>6, AtHome
  <2>2. CASE NextLead(q.home, u) = None
    <3>1. Members(q.home) \ {u} = {}  BY <1>3, <2>2, NextLeadIsAnother DEF Typed
    <3>2. Members(q.home) = {u}  BY <2>1, <3>1
    <3>3. Cardinality(Members(q.home)) <= 1  BY <2>1, <3>2, TheOnlyMember
    <3>4. q.force \/ q.home \notin content  BY <1>7, <3>3
    <3>5. c # None  BY <1>8, <2>1, <2>2
    <3> QED  BY <3>2, <3>4, <3>5
  <2>3. CASE NextLead(q.home, u) # None
    <3>1. c = None  BY <1>8, <2>3
    <3>2. q.lead # u  BY <1>7, <2>3 DEF MayMove
    <3> QED  BY <3>1, <3>2
  <2> QED  BY <2>2, <2>3
<1>12. \A next : StagedFrom(next, q, writes, {h}) => Staged(next)
  <2> SUFFICES ASSUME NEW next, StagedFrom(next, q, writes, {h}) PROVE Redeems(next)
    BY <1>2 DEF StagedFrom, Staged
  <2>1. ByInvite(next)  BY <1>4, <1>5, <1>7 DEF StagedFrom, ByInvite
  <2>2. /\ next.writes = Writes(next.user, invites[next.arg].home, FALSE, c, None, None, next.arg, None, FALSE)
        /\ invites[next.arg].home # next.home
    BY <1>4, <1>5, <1>6, <1>7, <1>9 DEF StagedFrom
  <2>3. ~next.stale => IF c = None THEN next.lead # next.user
                       ELSE Members(next.home) = {next.user} /\ (next.force \/ next.home \notin content)
    BY <1>6, <1>11 DEF StagedFrom
  <2>4. c \in {None, next.home}  BY <1>8 DEF StagedFrom
  <2> QED  BY <2>1, <2>2, <2>3, <2>4 DEF Redeems
<1>13. Stage(r, writes, {h}) /\ {h} \in SUBSET (1..created)
  BY <1>4, <1>5, <1>7, <1>10, InviteHome
<1> QED
  BY <1>1, <1>2, <1>12, <1>13, Staging

LEMMA Inviting == ASSUME IInv, NEW r \in Requests, CreateInvite(r) PROVE IInv'
<1>1. PICK q : q = requests[r]  OBVIOUS
<1>2. q.phase = "loaded" /\ q.op = "invite" /\ Stage(r, [Nothing EXCEPT !.issue = TRUE], {})
  BY <1>1 DEF CreateInvite, Handles
<1>3. PICK writes : writes = Writes(None, None, FALSE, None, None, None, None, None, TRUE)  OBVIOUS
<1>4. [Nothing EXCEPT !.issue = TRUE] = writes  BY <1>3, WriteIssue, Zenon
<1>5. \A next : StagedFrom(next, q, writes, {}) => Staged(next)
  BY <1>2, <1>3 DEF StagedFrom, Staged, Issues
<1>6. Stage(r, writes, {})  BY <1>2, <1>4
<1> QED
  BY <1>1, <1>2, <1>5, <1>6, Staging

LEMMA Revoking == ASSUME IInv, NEW r \in Requests, RevokeInvite(r) PROVE IInv'
<1>1. PICK q : q = requests[r]  OBVIOUS
<1>2. /\ q.phase = "loaded" /\ q.op = "revoke"
      /\ invites[q.arg].home = q.home /\ invites[q.arg].state \in {"open", "expired"}
      /\ Stage(r, [Nothing EXCEPT !.revoke = q.arg], {})
  BY <1>1 DEF RevokeInvite, Handles
<1>3. PICK writes : writes = Writes(None, None, FALSE, None, None, None, None, q.arg, FALSE)  OBVIOUS
<1>4. [Nothing EXCEPT !.revoke = q.arg] = writes  BY <1>3, WriteRevoke, Zenon
<1>5. \A next : StagedFrom(next, q, writes, {}) => Staged(next)
  BY <1>2, <1>3 DEF StagedFrom, Staged, Revokes
<1>6. Stage(r, writes, {})  BY <1>2, <1>4
<1> QED
  BY <1>1, <1>2, <1>5, <1>6, Staging

(* The last one out takes the household along; a lead who is not the last    *)
(* leaves it to somebody who stays.                                          *)
LEMMA Leaving == ASSUME IInv, NEW r \in Requests, DeleteAccount(r) PROVE IInv'
<1>1. PICK q : q = requests[r]  OBVIOUS
<1>2. q.phase = "loaded" /\ q.op = "delete"  BY <1>1 DEF DeleteAccount, Handles
<1>3. Request(q) /\ Typed  BY <1>1, <1>2, RequestAt DEF IInv
<1>4. PICK u : u = q.user  OBVIOUS
<1>5. ~q.stale => u \in Members(q.home) /\ q.home # None  BY <1>2, <1>3, <1>4, AtHome
<1>6. CASE Cardinality(Members(q.home)) <= 1
  <2>1. Stage(r, [Nothing EXCEPT !.collect = q.home], {})  BY <1>1, <1>6 DEF DeleteAccount
  <2>2. PICK writes : writes = Writes(None, None, FALSE, q.home, None, None, None, None, FALSE)  OBVIOUS
  <2>3. [Nothing EXCEPT !.collect = q.home] = writes  BY <2>2, WriteAll, Zenon
  <2>4. ~q.stale => Members(q.home) = {u}  BY <1>5, <1>6, TheOnlyMember
  <2>5. \A next : StagedFrom(next, q, writes, {}) => Staged(next)
    BY <1>2, <1>4, <2>2, <2>4 DEF StagedFrom, Staged, DeletesAll
  <2>6. Stage(r, writes, {})  BY <2>1, <2>3
  <2> QED  BY <1>1, <1>2, <2>5, <2>6, Staging
<1>7. CASE ~(Cardinality(Members(q.home)) <= 1)
  <2>1. PICK l : l = IF q.lead = u THEN q.home ELSE None  OBVIOUS
  <2>2. PICK t : t = IF q.lead = u THEN NextLead(q.home, u) ELSE None  OBVIOUS
  <2>3. Stage(r, [Nothing EXCEPT !.who = u, !.drop = TRUE, !.leadOf = l, !.leadTo = t], {})
    BY <1>1, <1>4, <1>7, <2>1, <2>2 DEF DeleteAccount
  <2>4. PICK writes : writes = Writes(u, None, TRUE, None, l, t, None, None, FALSE)  OBVIOUS
  <2>5. [Nothing EXCEPT !.who = u, !.drop = TRUE, !.leadOf = l, !.leadTo = t] = writes
    BY <2>4, WriteOneAccount, Zenon
  <2>6. t \in People \cup {None}
    <3>1. NextLead(q.home, u) \in People \cup {None}  BY <1>3, NextLeadIsAnother DEF Typed, Members
    <3> QED  BY <2>2, <3>1
  <2>7. l \in {None, q.home} /\ (l = None => q.lead # u)
    <3>1. q.home # None  BY <1>2, <1>3, AtHome
    <3> QED  BY <2>1, <3>1
  <2>8. ~q.stale /\ l # None => t \in Members(q.home) \ {u}
    <3> SUFFICES ASSUME ~q.stale /\ l # None PROVE t \in Members(q.home) \ {u}  OBVIOUS
    <3>1. Members(q.home) # {u}  BY <1>5, <1>7, TheOnlyMember
    <3>2. Members(q.home) \ {u} # {}  BY <1>5, <3>1
    <3>3. NextLead(q.home, u) \in Members(q.home) \ {u}  BY <1>3, <3>2, NextLeadIsAnother DEF Typed
    <3> QED  BY <2>1, <2>2, <3>3
  <2>9. \A next : StagedFrom(next, q, writes, {}) => Staged(next)
    <3> SUFFICES ASSUME NEW next, StagedFrom(next, q, writes, {}) PROVE DeletesOne(next)
      BY <1>2 DEF StagedFrom, Staged
    <3>1. next.writes = Writes(next.user, None, TRUE, None, l, t, None, None, FALSE) /\ l \in {None, next.home}
      BY <1>4, <2>4, <2>7 DEF StagedFrom
    <3>2. /\ l = None => next.lead # next.user
          /\ ~next.stale /\ l # None => t \in Members(next.home) \ {next.user}
      BY <1>4, <2>7, <2>8 DEF StagedFrom
    <3> QED  BY <2>6, <3>1, <3>2 DEF DeletesOne
  <2>10. Stage(r, writes, {})  BY <2>3, <2>5
  <2> QED  BY <1>1, <1>2, <2>9, <2>10, Staging
<1> QED
  BY <1>6, <1>7

-----------------------------------------------------------------------------
(* Steps that are nobody's request. *)

(* The requests in flight are carried along, some of them marked as stale.   *)
LEMMA CarriedMark ==
    ASSUME NEW q, Record(q), NEW c \in BOOLEAN
    PROVE  Carried([q EXCEPT !.stale = @ \/ c], q) /\ (~[q EXCEPT !.stale = @ \/ c].stale => ~c)
<1>1. PICK p : p = [q EXCEPT !.stale = @ \/ c]  OBVIOUS
<1>2. PICK stale : stale = (q.stale \/ c)  OBVIOUS
<1>3. stale \in BOOLEAN /\ (~stale => ~q.stale /\ ~c)
  BY <1>2 DEF Record
<1>4. p = [q EXCEPT !.stale = stale]  BY <1>1, <1>2
<1>5. p = [phase |-> q.phase, op |-> q.op, user |-> q.user, arg |-> q.arg, force |-> q.force,
           home |-> q.home, lead |-> q.lead, touched |-> q.touched, joins |-> q.joins,
           stale |-> stale, writes |-> q.writes]
  BY <1>4 DEF Record
<1>6. Carried(p, q) /\ (~p.stale => ~c)  BY <1>3, <1>5 DEF Carried
<1> QED
  BY <1>1, <1>6

LEMMA InFlightCarried ==
    ASSUME Typed, Typed', InFlight, created <= created', InvitesStay,
           requests' = [s \in Requests |-> requests'[s]],
           \A s \in Active' :
              /\ s \in Active
              /\ Carried(requests'[s], requests[s])
              /\ ~requests'[s].stale => \A h \in requests[s].touched : Kept(h)
    PROVE  InFlight'
<1>1. ASSUME NEW s \in Active' PROVE Request(requests[s])'
  <2>1. PICK q : q = requests[s]  OBVIOUS
  <2>2. PICK p : p = requests'[s]  OBVIOUS
  <2>3. Request(q) /\ Carried(p, q) /\ (~p.stale => \A h \in q.touched : Kept(h))
    BY <2>1, <2>2 DEF InFlight
  <2>4. Request(p)'  BY <2>3, RequestCarried
  <2> QED  BY <2>2, <2>4
<1> QED
  BY <1>1 DEF InFlight

LEMMA Adding == ASSUME IInv, NEW h \in Homes, AddContent(h) PROVE IInv'
<1>1. /\ content' = content \cup {h} /\ h \in households
      /\ requests' = [s \in Requests |->
            IF requests[s] = Idle THEN Idle
            ELSE [requests[s] EXCEPT !.stale = @ \/ h \in requests[s].touched]]
      /\ UNCHANGED <<home, joined, created, households, lead, invites, served, via, torn>>
      /\ Typed /\ InFlight
  BY DEF AddContent, IInv
<1>2. ASSUME NEW s \in Active
      PROVE  /\ Carried(requests'[s], requests[s])
             /\ ~requests'[s].stale => h \notin requests[s].touched
             /\ s \in Active'
  <2>1. PICK q : q = requests[s]  OBVIOUS
  <2>2. Record(q) /\ q # Idle  BY <1>1, <2>1 DEF InFlight, Request, Active
  <2>3. PICK c \in BOOLEAN : c <=> h \in q.touched  OBVIOUS
  <2>4. requests'[s] = [q EXCEPT !.stale = @ \/ h \in q.touched]  BY <1>1, <2>1, <2>2 DEF Active
  <2>5. requests'[s] = [q EXCEPT !.stale = @ \/ c]  BY <2>3, <2>4
  <2>6. Carried(requests'[s], q) /\ (~requests'[s].stale => ~c)  BY <2>2, <2>5, CarriedMark
  <2>7. requests'[s] # Idle
    <3>1. requests'[s].phase \in {"loaded", "staged"}  BY <2>2, <2>6 DEF Carried, Record
    <3> QED  BY <3>1 DEF Idle
  <2> QED  BY <2>1, <2>3, <2>6, <2>7 DEF Active
<1>3. Active' = Active  BY <1>1, <1>2 DEF Active
<1>4. Typed'  BY <1>1, <1>3 DEF Typed, Invite
<1>5. \A g \in (1..created) \ {h} : Kept(g)  BY <1>1 DEF Kept, Members, Accepted
<1>6. \A s \in Active : requests[s].touched \subseteq 1..created  BY <1>1 DEF InFlight, Request, Record
<1>7. created <= created' /\ InvitesStay  BY <1>1 DEF Typed, InvitesStay
<1>8. requests' = [s \in Requests |-> requests'[s]]  BY <1>1
<1>9. InFlight'
  BY <1>1, <1>2, <1>3, <1>4, <1>5, <1>6, <1>7, <1>8, InFlightCarried
<1>10. LeadIsAMember'  BY <1>1 DEF IInv, LeadIsAMember, Members
<1>11. AdmissionsAreOnRecord'  BY <1>1 DEF IInv, AdmissionsAreOnRecord
<1> QED
  BY <1>4, <1>9, <1>10, <1>11 DEF IInv

(* Only an open invite expires, so that nobody's record is lost.             *)
LEMMA Expiring == ASSUME IInv, NEW i \in DOMAIN invites, Expire(i) PROVE IInv'
<1>1. /\ invites[i].state = "open"
      /\ invites' = [invites EXCEPT ![i].state = "expired"]
      /\ UNCHANGED <<home, joined, created, households, lead, content, requests, served, via, torn>>
      /\ Typed /\ InFlight
  BY DEF Expire, IInv
<1>2. /\ invites = [j \in 1..Len(invites) |-> invites[j]] /\ Len(invites) \in Nat
      /\ \A j \in 1..Len(invites) : Invite(invites[j])
  BY <1>1 DEF Typed
<1>3. i \in 1..Len(invites)  BY <1>2
<1>4. PICK x : x = [home |-> invites[i].home, state |-> "expired", by |-> invites[i].by]  OBVIOUS
<1>5. invites' = [invites EXCEPT ![i] = x]
  <2>1. PICK old : old = invites[i]  OBVIOUS
  <2>2. old = [home |-> old.home, state |-> old.state, by |-> old.by]  BY <1>2, <1>3, <2>1 DEF Invite
  <2>3. [old EXCEPT !.state = "expired"] = x  BY <1>4, <2>1, <2>2
  <2> QED  BY <1>1, <1>2, <1>3, <2>1, <2>3
<1>6. /\ invites' = [j \in 1..Len(invites) |-> invites'[j]]
      /\ invites'[i] = x /\ \A j \in 1..Len(invites) : j # i => invites'[j] = invites[j]
  BY <1>2, <1>3, <1>5
<1>7. Len(invites') = Len(invites)  BY <1>2, <1>6
<1>8. Typed'
  <2>1. \A j \in 1..Len(invites') : Invite(invites[j])'
    BY <1>1, <1>2, <1>3, <1>4, <1>6, <1>7 DEF Invite
  <2>2. Active' = Active  BY <1>1 DEF Active
  <2> QED  BY <1>1, <1>2, <1>6, <1>7, <2>1, <2>2 DEF Typed
<1>9. \A h : Kept(h)
  <2>1. \A j \in 1..Len(invites) : invites'[j].state = "accepted" => invites[j].state = "accepted"
    BY <1>4, <1>6
  <2> QED  BY <1>1, <2>1 DEF Kept, Members, Accepted
<1>10. created <= created' /\ InvitesStay
  <2>1. \A j \in 1..Len(invites) : invites'[j].home = invites[j].home
    BY <1>4, <1>6
  <2>2. created \in Nat  BY <1>1 DEF Typed
  <2> QED  BY <1>1, <1>2, <1>7, <2>1, <2>2 DEF InvitesStay
<1>11. InFlight'
  <2>1. \A s \in Active : Carried(requests[s], requests[s])
    BY <1>1, CarriedAsItIs DEF InFlight, Request
  <2>2. Active' = Active /\ requests' = requests  BY <1>1 DEF Active
  <2>3. requests' = [s \in Requests |-> requests'[s]]  BY <1>1 DEF InFlight
  <2> QED  BY <1>1, <1>8, <1>9, <1>10, <2>1, <2>2, <2>3, InFlightCarried
<1>12. LeadIsAMember'  BY <1>1 DEF IInv, LeadIsAMember, Members
<1>13. AdmissionsAreOnRecord'
  <2> SUFFICES ASSUME NEW u \in People, via[u] # None, home[u] \notin torn
               PROVE  invites'[via[u]] = [home |-> home[u], state |-> "accepted", by |-> u]
    BY <1>1 DEF AdmissionsAreOnRecord
  <2>1. invites[via[u]] = [home |-> home[u], state |-> "accepted", by |-> u]
    BY DEF IInv, AdmissionsAreOnRecord
  <2>2. via[u] \in 1..Len(invites)  BY <1>1 DEF Typed
  <2>3. via[u] # i  BY <1>1, <2>1
  <2> QED  BY <1>6, <2>1, <2>2, <2>3
<1> QED
  BY <1>8, <1>11, <1>12, <1>13 DEF IInv

-----------------------------------------------------------------------------
(* The commit. *)

(* What is staged, whatever the operation was. *)
Sound(q, w) ==
    /\ w.who \in People \cup {None} /\ w.drop \in BOOLEAN
    /\ w.collect \in {None, q.home} /\ w.leadOf \in {None, q.home}
    /\ w.who = None => w.to = None
    /\ w.who # None => w.drop \/ w.to # None
    /\ w.accept = None => w.to \in {None, New}
    /\ w.accept # None =>
          /\ w.accept \in 1..Len(invites) /\ w.who # None /\ w.revoke = None
          /\ w.to = invites[w.accept].home /\ w.to \in q.touched /\ w.to # w.collect
          /\ ~q.stale => ~Accepted(w.accept)
    /\ w.revoke # None =>
          /\ w.revoke \in 1..Len(invites) /\ invites[w.revoke].home \in q.touched
          /\ ~q.stale => ~Accepted(w.revoke)
    /\ w.drop => w.who = q.user /\ q.op = "delete" /\ w.collect = None /\ w.to = None
    /\ w.collect # None => q.home \in q.touched
    /\ w.leadOf # None => q.home \in q.touched
    /\ q.op = "register" => w.who = q.user /\ w.collect = None /\ ~w.drop /\ w.leadOf = None

(* What a request writes whose household is as it has read it. *)
Allowed(q, w) ==
    /\ w.collect # None =>
          /\ Members(q.home) = {q.user}
          /\ \/ q.op = "delete" /\ w.who = None
             \/ w.who = q.user /\ (q.force \/ q.home \notin content)
    /\ q.op # "register" /\ w.who # None => home[w.who] = q.home
    /\ w.leadOf # None => w.leadTo \in Members(q.home) /\ w.leadTo # w.who
    /\ q.op # "register" /\ w.leadOf = None /\ w.collect = None /\ w.who # None => q.lead # w.who

IsWrites(w, who, to, drop, collect, leadOf, leadTo, accept, revoke, issue) ==
    /\ w.who = who /\ w.to = to /\ w.drop = drop /\ w.collect = collect /\ w.leadOf = leadOf
    /\ w.leadTo = leadTo /\ w.accept = accept /\ w.revoke = revoke /\ w.issue = issue

LEMMA FieldsOfWrites ==
    ASSUME NEW a, NEW b, NEW c, NEW d, NEW e, NEW f, NEW g, NEW h, NEW i, NEW w,
           w = Writes(a, b, c, d, e, f, g, h, i)
    PROVE  IsWrites(w, a, b, c, d, e, f, g, h, i)
BY DEF Writes, IsWrites

LEMMA Numbers ==
    ASSUME IInv, Active # {}
    PROVE  /\ created \in Nat /\ created + 1 \in Homes /\ 1..created \subseteq Homes
           /\ New \notin 1..created /\ New # None /\ created + 1 # New
           /\ None \notin People /\ None \notin 1..created
<1>1. created \in Nat /\ served \in Nat /\ served <= MaxRequests /\ IsFiniteSet(Active)
      /\ created + Cardinality(Active) <= 2 + served
  BY DEF IInv, Typed
<1>2. Cardinality(Active) \in Nat /\ Cardinality(Active) # 0
  BY <1>1, FS_CardinalityType, FS_EmptySet
<1>3. created + 1 <= 2 + MaxRequests /\ MaxRequests \in Nat
  BY <1>1, <1>2, HouseholdAssumption
<1> QED
  BY <1>1, <1>3, HouseholdAssumption DEF Homes, New, None

LEMMA SoundAndAllowed ==
    ASSUME IInv, NEW r \in Active, NEW q, q = requests[r], q.phase = "staged", NEW w, w = q.writes
    PROVE  Sound(q, w) /\ (~q.stale => Allowed(q, w))
<1>1. Request(q) /\ Typed  BY DEF IInv, InFlight
<1>2. Staged(q) /\ Record(q)  BY <1>1 DEF Request
<1>3. /\ q.op # "register" => q.home # None /\ q.home \in q.touched
      /\ q.op # "register" /\ ~q.stale => home[q.user] = q.home
      /\ q.user \in People /\ q.user # None
  BY <1>1, <1>2, AtHome, Numbers DEF Record
<1>4. /\ New # None /\ None \notin People /\ (\A h \in 1..created : h # None /\ h # New)
      /\ q.touched \subseteq 1..created
  BY <1>2, Numbers DEF Record
<1>5. CASE q.op = "register" /\ Founds(q)
  <2>1. IsWrites(w, q.user, New, FALSE, None, None, None, None, None, FALSE)
    BY <1>5, FieldsOfWrites DEF Founds
  <2> QED  BY <1>3, <1>4, <1>5, <2>1 DEF IsWrites, Sound, Allowed
<1>6. CASE q.op = "register" /\ Joins(q)
  <2>1. IsWrites(w, q.user, invites[q.arg].home, FALSE, None, None, None, q.arg, None, FALSE)
    BY <1>6, FieldsOfWrites DEF Joins
  <2>2. /\ q.arg \in 1..Len(invites) /\ invites[q.arg].home \in q.touched /\ q.arg # None
        /\ ~q.stale => ~Accepted(q.arg)
    BY <1>1, <1>6 DEF Joins, ByInvite, Accepted, Typed, None
  <2> QED  BY <1>3, <1>4, <1>6, <2>1, <2>2 DEF IsWrites, Sound, Allowed
<1>7. CASE q.op = "update"
  <2>1. IsWrites(w, None, None, FALSE, None, q.home, q.arg, None, None, FALSE)
    BY <1>2, <1>7, FieldsOfWrites DEF Staged, HandsOver
  <2>2. q.arg \in People /\ (~q.stale => q.arg \in Members(q.home))
    BY <1>2, <1>7 DEF Staged, HandsOver, Record, Members
  <2> QED  BY <1>3, <1>4, <1>7, <2>1, <2>2 DEF IsWrites, Sound, Allowed
<1>8. CASE q.op = "remove"
  <2>1. PICK c \in {None, q.home} :
          /\ w = Writes(q.arg, New, FALSE, c, None, None, None, None, FALSE)
          /\ ~q.stale => c = None
    BY <1>2, <1>8 DEF Staged, Removes
  <2>2. IsWrites(w, q.arg, New, FALSE, c, None, None, None, None, FALSE)
    BY <2>1, FieldsOfWrites
  <2>3. q.arg \in People /\ (~q.stale => home[q.arg] = q.home /\ q.lead # q.arg)
    BY <1>2, <1>8 DEF Staged, Removes, Record
  <2> QED  BY <1>3, <1>4, <1>8, <2>1, <2>2, <2>3 DEF IsWrites, Sound, Allowed
<1>9. CASE q.op = "redeem"
  <2>1. PICK c \in {None, q.home} :
          /\ w = Writes(q.user, invites[q.arg].home, FALSE, c, None, None, q.arg, None, FALSE)
          /\ ~q.stale => IF c = None THEN q.lead # q.user
                         ELSE Members(q.home) = {q.user} /\ (q.force \/ q.home \notin content)
    BY <1>2, <1>9 DEF Staged, Redeems
  <2>2. IsWrites(w, q.user, invites[q.arg].home, FALSE, c, None, None, q.arg, None, FALSE)
    BY <2>1, FieldsOfWrites
  <2>3. /\ q.arg \in 1..Len(invites) /\ invites[q.arg].home \in q.touched /\ q.arg # None
        /\ invites[q.arg].home # q.home
        /\ ~q.stale => ~Accepted(q.arg)
    BY <1>1, <1>2, <1>9 DEF Staged, Redeems, ByInvite, Accepted, Typed, None
  <2>4. Sound(q, w)  BY <1>3, <1>4, <1>9, <2>1, <2>2, <2>3 DEF IsWrites, Sound
  <2>5. ~q.stale => Allowed(q, w)  BY <1>3, <1>4, <1>9, <2>1, <2>2 DEF IsWrites, Allowed
  <2> QED  BY <2>4, <2>5
<1>10. CASE q.op = "invite"
  <2>1. IsWrites(w, None, None, FALSE, None, None, None, None, None, TRUE)
    BY <1>2, <1>10, FieldsOfWrites DEF Staged, Issues
  <2> QED  BY <1>3, <1>4, <1>10, <2>1 DEF IsWrites, Sound, Allowed
<1>11. CASE q.op = "revoke"
  <2>1. IsWrites(w, None, None, FALSE, None, None, None, None, q.arg, FALSE)
    BY <1>2, <1>11, FieldsOfWrites DEF Staged, Revokes
  <2>2. q.arg \in 1..Len(invites) /\ invites[q.arg].home = q.home /\ (~q.stale => ~Accepted(q.arg))
    BY <1>2, <1>11 DEF Staged, Revokes, Record, Accepted
  <2> QED  BY <1>3, <1>4, <1>11, <2>1, <2>2 DEF IsWrites, Sound, Allowed
<1>12. CASE q.op = "delete" /\ DeletesAll(q)
  <2>1. IsWrites(w, None, None, FALSE, q.home, None, None, None, None, FALSE)
    BY <1>12, FieldsOfWrites DEF DeletesAll
  <2>2. ~q.stale => Members(q.home) = {q.user}  BY <1>12 DEF DeletesAll
  <2> QED  BY <1>3, <1>4, <1>12, <2>1, <2>2 DEF IsWrites, Sound, Allowed
<1>13. CASE q.op = "delete" /\ DeletesOne(q)
  <2>1. PICK l \in {None, q.home} : \E t \in People \cup {None} :
          /\ w = Writes(q.user, None, TRUE, None, l, t, None, None, FALSE)
          /\ l = None => q.lead # q.user
          /\ ~q.stale /\ l # None => t \in Members(q.home) \ {q.user}
    BY <1>13 DEF DeletesOne
  <2>2. PICK t \in People \cup {None} :
          /\ w = Writes(q.user, None, TRUE, None, l, t, None, None, FALSE)
          /\ l = None => q.lead # q.user
          /\ ~q.stale /\ l # None => t \in Members(q.home) \ {q.user}
    BY <2>1
  <2>3. IsWrites(w, q.user, None, TRUE, None, l, t, None, None, FALSE)
    BY <2>2, FieldsOfWrites
  <2> QED  BY <1>3, <1>4, <1>13, <2>1, <2>2, <2>3 DEF IsWrites, Sound, Allowed
<1> QED
  BY <1>2, <1>5, <1>6, <1>7, <1>8, <1>9, <1>10, <1>11, <1>12, <1>13 DEF Staged, Record

Leader(h, w, gone) ==
    IF h = w.collect THEN None
    ELSE IF w.to = New /\ h = created + 1 THEN w.who
    ELSE IF h = w.leadOf THEN w.leadTo
    ELSE IF lead[h] \in gone THEN None ELSE lead[h]

(* A commit of request q, named part by part. *)
Committed(r, q, w, gone, changed) ==
    /\ r \in Active /\ q = requests[r] /\ q.phase = "staged" /\ w = q.writes
    /\ Record(q) /\ Sound(q, w) /\ (~q.stale => Allowed(q, w)) /\ Lands(q)
    /\ gone = Deleted(w)
    /\ changed = q.touched \cup {home[u] : u \in {w.who} \cap People}
    /\ created' = IF w.to = New THEN created + 1 ELSE created
    /\ households' = (households \ {w.collect}) \cup (IF w.to = New THEN {created'} ELSE {})
    /\ home' = [u \in People |-> IF u \in gone THEN None
                                 ELSE IF u = w.who /\ w.to # None
                                      THEN IF w.to = New THEN created' ELSE w.to
                                      ELSE home[u]]
    /\ joined' = [u \in People |-> IF u \in gone THEN 0
                                   ELSE IF u = w.who /\ q.op = "register" THEN q.joins ELSE joined[u]]
    /\ lead' = [h \in Homes |-> lead'[h]]
    /\ \A h \in Homes : lead'[h] = Leader(h, w, gone)
    /\ content' = content \ {w.collect}
    /\ invites' = [i \in DOMAIN invites |->
                     IF i = w.revoke \/ invites[i].home = w.collect
                     THEN [invites[i] EXCEPT !.state = "gone"]
                     ELSE IF i = w.accept
                          THEN [invites[i] EXCEPT !.state = "accepted", !.by = w.who]
                          ELSE IF invites[i].by \in gone
                               THEN [invites[i] EXCEPT !.by = None] ELSE invites[i]]
                  \o (IF w.issue THEN <<[home |-> q.home, state |-> "open", by |-> None]>>
                      ELSE <<>>)
    /\ via' = [u \in People |-> IF u \in gone THEN None
                                ELSE IF u = w.who /\ w.to # None THEN w.accept ELSE via[u]]
    /\ torn' = torn \cup (IF q.stale THEN changed \ {None} ELSE {})
    /\ requests' = [s \in Requests |->
                      CASE s = r \/ requests[s] = Idle -> Idle
                        [] OTHER -> [requests[s] EXCEPT
                               !.stale = @ \/ requests[s].touched \cap changed # {}]]
    /\ served' = served

LEMMA CommitIsCommitted ==
    ASSUME IInv, NEW r \in Requests, Commit(r)
    PROVE  \E q, w, gone, changed : Committed(r, q, w, gone, changed)
<1>1. PICK q : q = requests[r]  OBVIOUS
<1>2. PICK w : w = q.writes  OBVIOUS
<1>3. PICK gone : gone = Deleted(w)  OBVIOUS
<1>4. PICK changed : changed = q.touched \cup {home[u] : u \in {w.who} \cap People}  OBVIOUS
<1>5. q.phase = "staged"  BY <1>1 DEF Commit
<1>6. r \in Active /\ Record(q)  BY <1>1, <1>5, RequestAt DEF Request
<1>7. Sound(q, w) /\ (~q.stale => Allowed(q, w))  BY <1>1, <1>2, <1>5, <1>6, SoundAndAllowed
<1>8. created' = IF w.to = New THEN created + 1 ELSE created
  BY <1>1, <1>2, <1>3, <1>4, Zenon DEF Commit
<1>9. households' = (households \ {w.collect}) \cup (IF w.to = New THEN {created'} ELSE {})
  BY <1>1, <1>2, <1>3, <1>4, Zenon DEF Commit
<1>10. home' = [u \in People |-> IF u \in gone THEN None
                               ELSE IF u = w.who /\ w.to # None
                                    THEN IF w.to = New THEN created' ELSE w.to
                                    ELSE home[u]]
  BY <1>1, <1>2, <1>3, <1>4, Zenon DEF Commit
<1>11. joined' = [u \in People |-> IF u \in gone THEN 0
                                 ELSE IF u = w.who /\ q.op = "register" THEN q.joins ELSE joined[u]]
  BY <1>1, <1>2, <1>3, <1>4, Zenon DEF Commit
<1>12. lead' = [h \in Homes |-> lead'[h]] /\ \A h \in Homes : lead'[h] = Leader(h, w, gone)
  <2>1. lead' = [h \in Homes |-> IF h = w.collect THEN None
                                ELSE IF w.to = New /\ h = created' THEN w.who
                                ELSE IF h = w.leadOf THEN w.leadTo
                                ELSE IF lead[h] \in gone THEN None ELSE lead[h]]
    BY <1>1, <1>2, <1>3, <1>4, Zenon DEF Commit
  <2> QED  BY <1>8, <2>1 DEF Leader
<1>13. content' = content \ {w.collect}
  BY <1>1, <1>2, <1>3, <1>4, Zenon DEF Commit
<1>14. invites' = [i \in DOMAIN invites |->
                   IF i = w.revoke \/ invites[i].home = w.collect
                   THEN [invites[i] EXCEPT !.state = "gone"]
                   ELSE IF i = w.accept
                        THEN [invites[i] EXCEPT !.state = "accepted", !.by = w.who]
                        ELSE IF invites[i].by \in gone
                             THEN [invites[i] EXCEPT !.by = None] ELSE invites[i]]
                \o (IF w.issue THEN <<[home |-> q.home, state |-> "open", by |-> None]>>
                    ELSE <<>>)
  BY <1>1, <1>2, <1>3, <1>4, Zenon DEF Commit
<1>15. via' = [u \in People |-> IF u \in gone THEN None
                              ELSE IF u = w.who /\ w.to # None THEN w.accept ELSE via[u]]
  BY <1>1, <1>2, <1>3, <1>4, Zenon DEF Commit
<1>16. torn' = torn \cup (IF q.stale THEN changed \ {None} ELSE {})
  BY <1>1, <1>2, <1>3, <1>4, Zenon DEF Commit
<1>17. requests' = [s \in Requests |->
                    CASE s = r \/ requests[s] = Idle -> Idle
                      [] OTHER -> [requests[s] EXCEPT
                             !.stale = @ \/ requests[s].touched \cap changed # {}]]
  BY <1>1, <1>2, <1>3, <1>4, Zenon DEF Commit
<1>18. served' = served
  BY <1>1, <1>2, <1>3, <1>4, Zenon DEF Commit
<1>19. Lands(q)  BY <1>1, Zenon DEF Commit
<1>20. Committed(r, q, w, gone, changed)
  BY <1>1, <1>2, <1>3, <1>4, <1>5, <1>6, <1>7, <1>8, <1>9, <1>10, <1>11, <1>12, <1>13, <1>14, <1>15, <1>16, <1>17, <1>18, <1>19, Zenon DEF Committed
<1> QED
  BY <1>20

(* Who goes was in one of the households that change.                       *)
LEMMA WhoGoes ==
    ASSUME IInv, NEW r, NEW q, NEW w, NEW gone, NEW changed, Committed(r, q, w, gone, changed), NEW u \in gone
    PROVE  /\ u \in People /\ home[u] \in changed /\ home[u] # None
           /\ \/ w.collect # None /\ u \in Members(w.collect) /\ u # w.who
              \/ w.drop /\ u = w.who /\ q.op = "delete" /\ u = q.user
<1>1. gone = {v \in {w.who} : w.drop /\ HasAccount(v)}
               \cup (IF w.collect = None THEN {} ELSE Members(w.collect) \ {w.who})
  BY DEF Committed, Deleted
<1>2. Sound(q, w) /\ changed = q.touched \cup {home[v] : v \in {w.who} \cap People} /\ Lands(q)
      /\ w = q.writes /\ Record(q)
  BY DEF Committed
<1>3. CASE w.collect # None /\ u \in Members(w.collect) \ {w.who}
  <2>1. w.collect = q.home /\ q.home \in q.touched  BY <1>2, <1>3 DEF Sound
  <2>2. u \in People /\ home[u] = q.home  BY <1>3, <2>1 DEF Members
  <2> QED  BY <1>2, <1>3, <2>1, <2>2
<1>4. CASE w.drop /\ u = w.who /\ HasAccount(u)
  <2>1. u = q.user /\ q.op = "delete" /\ u \in People /\ w.who # None
    <3>1. u = q.user /\ q.op = "delete" /\ q.user \in People  BY <1>2, <1>4 DEF Sound, Record
    <3>2. Active # {}  BY DEF Committed
    <3> QED  BY <1>4, <3>1, <3>2, Numbers
  <2> QED  BY <1>2, <1>4, <2>1 DEF HasAccount
<1> QED
  BY <1>1, <1>3, <1>4

LEMMA HomeAfter ==
    ASSUME IInv, NEW r, NEW q, NEW w, NEW gone, NEW changed, Committed(r, q, w, gone, changed), NEW u \in People
    PROVE  home'[u] = IF u \in gone THEN None
                      ELSE IF u = w.who /\ w.to # None
                           THEN IF w.to = New THEN created + 1 ELSE w.to
                           ELSE home[u]
BY DEF Committed

LEMMA WhoMoves ==
    ASSUME IInv, NEW r, NEW q, NEW w, NEW gone, NEW changed, Committed(r, q, w, gone, changed), w.who # None
    PROVE  /\ w.who \in People /\ home[w.who] \in changed
           /\ w.drop \/ (home[w.who] = None) = (q.op = "register")
BY DEF Committed, Sound, Lands, HasAccount

(* Nobody comes to or leaves a household that is not among the changed ones. *)
LEMMA MembersStay ==
    ASSUME IInv, NEW r, NEW q, NEW w, NEW gone, NEW changed, Committed(r, q, w, gone, changed),
           NEW h \in 1..created, h \notin changed
    PROVE  Members(h)' = Members(h)
<1>1. Active # {} /\ Sound(q, w) /\ q.touched \subseteq changed  BY DEF Committed
<1>2. created + 1 # h /\ New # h /\ h # None  BY Numbers, <1>1
<1>3. ASSUME NEW u \in People PROVE home'[u] = h <=> home[u] = h
  <2>1. CASE u \in gone
    BY <1>2, <2>1, HomeAfter, WhoGoes
  <2>2. CASE u \notin gone /\ u = w.who /\ w.to # None
    <3>1. w.who # None  BY <1>1, <2>2 DEF Sound
    <3>2. home[u] # h  BY <2>2, <3>1, WhoMoves
    <3>3. w.to = New \/ w.to \in changed  BY <1>1, <2>2 DEF Sound
    <3> QED  BY <1>2, <2>2, <3>2, <3>3, HomeAfter
  <2>3. CASE u \notin gone /\ ~(u = w.who /\ w.to # None)
    BY <2>3, HomeAfter
  <2> QED  BY <2>1, <2>2, <2>3
<1> QED
  BY <1>3 DEF Members

Written(x, i, w, gone) ==
    IF i = w.revoke \/ x.home = w.collect
    THEN [x EXCEPT !.state = "gone"]
    ELSE IF i = w.accept
         THEN [x EXCEPT !.state = "accepted", !.by = w.who]
         ELSE IF x.by \in gone THEN [x EXCEPT !.by = None] ELSE x

(* The invites after the commit: none is lost, and of the households that    *)
(* do not change they are what they were, but for names that are deleted.    *)
LEMMA InvitesAfter ==
    ASSUME IInv, NEW r, NEW q, NEW w, NEW gone, NEW changed, Committed(r, q, w, gone, changed)
    PROVE  /\ Len(invites') \in Nat /\ invites' = [i \in 1..Len(invites') |-> invites'[i]]
           /\ Len(invites) <= Len(invites')
           /\ \A i \in 1..Len(invites) :
                 invites'[i] = Written(invites[i], i, w, gone)
           /\ \A i \in 1..Len(invites') :
                 i \notin 1..Len(invites) => invites'[i] = [home |-> q.home, state |-> "open", by |-> None] /\ w.issue
<1>1. PICK f : f = [i \in DOMAIN invites |->
                     IF i = w.revoke \/ invites[i].home = w.collect
                     THEN [invites[i] EXCEPT !.state = "gone"]
                     ELSE IF i = w.accept
                          THEN [invites[i] EXCEPT !.state = "accepted", !.by = w.who]
                          ELSE IF invites[i].by \in gone
                               THEN [invites[i] EXCEPT !.by = None] ELSE invites[i]]
  OBVIOUS
<1>2. PICK x : x = [home |-> q.home, state |-> "open", by |-> None]  OBVIOUS
<1>3. invites' = f \o (IF w.issue THEN <<x>> ELSE <<>>)  BY <1>1, <1>2 DEF Committed
<1>9. \A i \in DOMAIN invites : f[i] = Written(invites[i], i, w, gone)
  BY <1>1 DEF Written
<1>4. PICK n \in Nat : n = Len(invites) /\ DOMAIN invites = 1..n  BY DEF IInv, Typed
<1>5. DOMAIN f = 1..n /\ f = [i \in 1..n |-> f[i]]  BY <1>1, <1>4
<1>6. PICK T : T = {f[i] : i \in 1..n} \cup {x}  OBVIOUS
<1>7. f \in Seq(T) /\ x \in T /\ Len(f) = n  BY <1>4, <1>5, <1>6
<1>8. /\ Len(invites') \in Nat /\ invites' = [i \in 1..Len(invites') |-> invites'[i]]
      /\ n <= Len(invites')
      /\ \A i \in 1..n : invites'[i] = f[i]
      /\ \A i \in 1..Len(invites') : i \notin 1..n => invites'[i] = x /\ w.issue
  <2>1. CASE w.issue
    <3>1. invites' = Append(f, x)  BY <1>3, <1>7, <2>1
    <3>2. Append(f, x) \in Seq(T) /\ Len(Append(f, x)) = n + 1  BY <1>7
    <3>3. \A i \in 1..n : Append(f, x)[i] = f[i]  BY <1>7
    <3>4. Append(f, x)[n + 1] = x  BY <1>7
    <3>6. PICK g : g = Append(f, x)  OBVIOUS
    <3>5. g = [i \in 1..(n + 1) |-> g[i]]
      <4>1. g \in Seq(T) /\ Len(g) = n + 1  BY <3>2, <3>6
      <4> QED  BY <4>1
    <3>7. /\ invites' = g /\ Len(g) = n + 1 /\ g = [i \in 1..(n + 1) |-> g[i]]
          /\ (\A i \in 1..n : g[i] = f[i]) /\ g[n + 1] = x
      BY <3>1, <3>2, <3>3, <3>4, <3>5, <3>6
    <3>8. \A i \in 1..(n + 1) : i \notin 1..n => i = n + 1  OBVIOUS
    <3>9. n + 1 \in Nat /\ n <= n + 1  OBVIOUS
    <3> QED  BY <2>1, <3>7, <3>8, <3>9
  <2>2. CASE ~w.issue
    <3>1. invites' = f  BY <1>3, <1>7, <2>2
    <3> QED  BY <1>4, <1>5, <1>7, <3>1
  <2> QED  BY <2>1, <2>2
<1> QED
  BY <1>2, <1>4, <1>8, <1>9

LEMMA AnInvite ==
    ASSUME IInv, NEW i \in 1..Len(invites), NEW who
    PROVE  LET x == invites[i] IN
           /\ [x EXCEPT !.state = "gone"] = [home |-> x.home, state |-> "gone", by |-> x.by]
           /\ [x EXCEPT !.state = "accepted", !.by = who] = [home |-> x.home, state |-> "accepted", by |-> who]
           /\ [x EXCEPT !.by = None] = [home |-> x.home, state |-> x.state, by |-> None]
<1>1. PICK x : x = invites[i]  OBVIOUS
<1>2. x = [home |-> x.home, state |-> x.state, by |-> x.by]  BY <1>1 DEF IInv, Typed, Invite
<1>3. PICK a : a = [x EXCEPT !.state = "accepted"]  OBVIOUS
<1>4. a = [home |-> x.home, state |-> "accepted", by |-> x.by]  BY <1>2, <1>3
<1>5. [a EXCEPT !.by = who] = [home |-> x.home, state |-> "accepted", by |-> who]  BY <1>4
<1>6. [x EXCEPT !.state = "accepted", !.by = who] = [a EXCEPT !.by = who]  BY <1>3
<1>7. [x EXCEPT !.state = "gone"] = [home |-> x.home, state |-> "gone", by |-> x.by]  BY <1>2
<1>8. [x EXCEPT !.by = None] = [home |-> x.home, state |-> x.state, by |-> None]  BY <1>2
<1> QED
  BY <1>1, <1>5, <1>6, <1>7, <1>8, Zenon

(* What a commit may make of invite i. *)
Rewritten(i, w, gone) ==
    /\ invites'[i] = [home |-> invites'[i].home, state |-> invites'[i].state, by |-> invites'[i].by]
    /\ invites'[i].home = invites[i].home
    /\ invites'[i].state = "accepted" => i = w.accept \/ invites[i].state = "accepted"
    /\ i = w.accept /\ i # w.revoke /\ invites[i].home # w.collect =>
          invites'[i] = [home |-> invites[i].home, state |-> "accepted", by |-> w.who]
    /\ i # w.accept /\ i # w.revoke /\ invites[i].home # w.collect /\ invites[i].by \notin gone =>
          invites'[i] = invites[i]

LEMMA InviteAfter ==
    ASSUME IInv, NEW r, NEW q, NEW w, NEW gone, NEW changed, Committed(r, q, w, gone, changed),
           NEW i \in 1..Len(invites)
    PROVE  Rewritten(i, w, gone)
<1>1. PICK x : x = invites[i]  OBVIOUS
<1>2. x = [home |-> x.home, state |-> x.state, by |-> x.by]  BY <1>1 DEF IInv, Typed, Invite
<1>3. invites'[i] = Written(x, i, w, gone)  BY <1>1, InvitesAfter
<1>4. /\ [x EXCEPT !.state = "gone"] = [home |-> x.home, state |-> "gone", by |-> x.by]
      /\ [x EXCEPT !.state = "accepted", !.by = w.who] = [home |-> x.home, state |-> "accepted", by |-> w.who]
      /\ [x EXCEPT !.by = None] = [home |-> x.home, state |-> x.state, by |-> None]
  BY <1>1, AnInvite
<1>5. invites'[i] = IF i = w.revoke \/ x.home = w.collect
                    THEN [home |-> x.home, state |-> "gone", by |-> x.by]
                    ELSE IF i = w.accept
                         THEN [home |-> x.home, state |-> "accepted", by |-> w.who]
                         ELSE IF x.by \in gone THEN [home |-> x.home, state |-> x.state, by |-> None] ELSE x
  BY <1>3, <1>4, Zenon DEF Written
<1>6. PICK y : y = invites'[i]  OBVIOUS
<1>7. CASE i = w.revoke \/ x.home = w.collect
  <2>1. y = [home |-> x.home, state |-> "gone", by |-> x.by]  BY <1>5, <1>6, <1>7
  <2> QED  BY <1>1, <1>6, <1>7, <2>1 DEF Rewritten
<1>8. CASE ~(i = w.revoke \/ x.home = w.collect) /\ i = w.accept
  <2>1. y = [home |-> x.home, state |-> "accepted", by |-> w.who]  BY <1>5, <1>6, <1>8
  <2> QED  BY <1>1, <1>6, <1>8, <2>1 DEF Rewritten
<1>9. CASE ~(i = w.revoke \/ x.home = w.collect) /\ i # w.accept /\ x.by \in gone
  <2>1. y = [home |-> x.home, state |-> x.state, by |-> None]  BY <1>5, <1>6, <1>9
  <2> QED  BY <1>1, <1>6, <1>9, <2>1 DEF Rewritten
<1>10. CASE ~(i = w.revoke \/ x.home = w.collect) /\ i # w.accept /\ x.by \notin gone
  <2>1. y = x  BY <1>5, <1>6, <1>10
  <2> QED  BY <1>1, <1>2, <1>6, <1>10, <2>1 DEF Rewritten
<1> QED
  BY <1>7, <1>8, <1>9, <1>10

LEMMA UntouchedIsKept ==
    ASSUME IInv, NEW r, NEW q, NEW w, NEW gone, NEW changed, Committed(r, q, w, gone, changed),
           NEW h \in 1..created, h \notin changed
    PROVE  Kept(h)
<1>1. Active # {} /\ Sound(q, w) /\ q.touched \subseteq changed  BY DEF Committed
<1>2. h \in Homes /\ h # None /\ h # created + 1  BY <1>1, Numbers
<1>3. h # w.collect /\ h # w.leadOf  BY <1>1, <1>2 DEF Sound
<1>4. ASSUME h \in households, h \notin torn' PROVE h \notin torn /\ lead'[h] = lead[h]
  <2>1. h \notin torn  BY <1>4 DEF Committed
  <2>2. lead[h] \in People /\ home[lead[h]] = h  BY <1>4, <2>1 DEF IInv, LeadIsAMember, Members
  <2>3. lead[h] \notin gone  BY <2>2, WhoGoes
  <2>4. lead'[h] = Leader(h, w, gone)  BY <1>2 DEF Committed
  <2> QED  BY <1>2, <1>3, <2>1, <2>3, <2>4 DEF Leader
<1>5. ASSUME NEW i \in 1..Len(invites), invites[i].home = h, Accepted(i)' PROVE Accepted(i)
  <2>1. i = w.accept \/ Accepted(i)
    <3>1. Rewritten(i, w, gone)  BY <1>5, InviteAfter
    <3> QED  BY <1>5, <3>1 DEF Accepted, Rewritten
  <2>2. i # None  BY DEF None
  <2>3. i # w.accept  BY <1>1, <1>5, <2>2 DEF Sound
  <2> QED  BY <2>1, <2>3
<1>6. Members(h)' = Members(h)  BY MembersStay
<1>7. h \in content' => h \in content  BY DEF Committed
<1> QED
  BY <1>4, <1>5, <1>6, <1>7 DEF Kept

(* Who is still in a collected household is on the way to another one.       *)
LEMMA WhoIsLeft ==
    ASSUME IInv, NEW r, NEW q, NEW w, NEW gone, NEW changed, Committed(r, q, w, gone, changed),
           NEW u \in People, u \notin gone, ~(u = w.who /\ w.to # None)
    PROVE  home[u] = None \/ home[u] # w.collect
<1>1. Sound(q, w) /\ gone = Deleted(w) /\ Active # {}  BY DEF Committed
<1>2. u # None  BY <1>1, Numbers
<1> SUFFICES ASSUME home[u] # None, home[u] = w.collect PROVE FALSE
  OBVIOUS
<1>3. u \in Members(w.collect) /\ w.collect # None  BY DEF Members
<1>4. u = w.who  BY <1>1, <1>3 DEF Deleted
<1> QED
  BY <1>1, <1>2, <1>3, <1>4 DEF Sound

LEMMA ActiveAfter ==
    ASSUME IInv, NEW r, NEW q, NEW w, NEW gone, NEW changed, Committed(r, q, w, gone, changed)
    PROVE  /\ IsFiniteSet(Active')
           /\ created' + Cardinality(Active') <= 2 + served'
<1>1. Active' \subseteq Active \ {r}
  BY DEF Committed, Active
<1>2. IsFiniteSet(Active) /\ created \in Nat /\ served \in Nat
      /\ created + Cardinality(Active) <= 2 + served /\ r \in Active /\ served' = served
      /\ created' = IF w.to = New THEN created + 1 ELSE created
  BY DEF IInv, Typed, Committed
<1>3. IsFiniteSet(Active \ {r}) /\ Cardinality(Active \ {r}) = Cardinality(Active) - 1
  BY <1>2, FS_RemoveElement
<1>4. IsFiniteSet(Active') /\ Cardinality(Active') <= Cardinality(Active \ {r})
  BY <1>1, <1>3, FS_Subset
<1>5. Cardinality(Active') \in Nat /\ Cardinality(Active) \in Nat
  BY <1>2, <1>4, FS_CardinalityType
<1> QED
  BY <1>2, <1>3, <1>4, <1>5

LEMMA TypedAfter ==
    ASSUME IInv, NEW r, NEW q, NEW w, NEW gone, NEW changed, Committed(r, q, w, gone, changed)
    PROVE  Typed'
<1>1. Active # {} /\ Sound(q, w) /\ Record(q) /\ Lands(q) /\ w = q.writes /\ served' = served
      /\ changed = q.touched \cup {home[u] : u \in {w.who} \cap People}
  BY DEF Committed
<1>2. created \in Nat /\ New # None /\ created + 1 # New /\ (\A h \in 1..created : h # None /\ h # New)
  BY <1>1, Numbers
<1>3. /\ created' = IF w.to = New THEN created + 1 ELSE created
      /\ households' = (households \ {w.collect}) \cup (IF w.to = New THEN {created'} ELSE {})
  BY DEF Committed
<1>4. created' \in Nat /\ created <= created' /\ 1..created \subseteq 1..created'
      /\ (w.to = New => created' \in households')
  BY <1>2, <1>3
<1>5. households \subseteq 1..created /\ torn \subseteq 1..created /\ content \subseteq households
      /\ served \in Nat /\ served <= MaxRequests
  BY DEF IInv, Typed
<1>6. households' \subseteq 1..created'
  <2>1. w.to = New => created' \in 1..created'  BY <1>2, <1>3
  <2>2. households \subseteq 1..created'  BY <1>4, <1>5
  <2> QED  BY <1>3, <2>1, <2>2
<1>7. content' \subseteq households'
  BY <1>3, <1>5 DEF Committed
<1>8. home' = [u \in People |-> home'[u]] /\ \A u \in People : home'[u] \in households' \cup {None}
  <2>1. home' = [u \in People |-> home'[u]]  BY DEF Committed
  <2>2. ASSUME NEW u \in People PROVE home'[u] \in households' \cup {None}
    <3>1. CASE u \in gone  BY <3>1, HomeAfter
    <3>2. CASE u \notin gone /\ u = w.who /\ w.to = New
      <4>1. home'[u] = created + 1 /\ created' = created + 1  BY <1>2, <1>3, <3>2, HomeAfter
      <4> QED  BY <1>4, <3>2, <4>1
    <3>3. CASE u \notin gone /\ u = w.who /\ w.to # None /\ w.to # New
      <4>1. home'[u] = w.to  BY <3>3, HomeAfter
      <4>2. w.to \in households  BY <1>1, <3>3 DEF Lands
      <4>3. w.to # w.collect  BY <1>1, <3>3 DEF Sound
      <4> QED  BY <1>3, <4>1, <4>2, <4>3
    <3>4. CASE u \notin gone /\ ~(u = w.who /\ w.to # None)
      <4>1. home'[u] = home[u]  BY <3>4, HomeAfter
      <4>2. home[u] \in households \cup {None}  BY DEF IInv, Typed
      <4>3. home[u] = None \/ home[u] # w.collect  BY <3>4, WhoIsLeft
      <4> QED  BY <1>3, <4>1, <4>2, <4>3
    <3> QED  BY <3>1, <3>2, <3>3, <3>4
  <2> QED  BY <2>1, <2>2
<1>9. joined' \in [People -> Nat]
  <2>1. joined \in [People -> Nat] /\ q.joins \in Nat  BY <1>1 DEF IInv, Typed, Record
  <2>2. joined' = [u \in People |-> IF u \in gone THEN 0
                                    ELSE IF u = w.who /\ q.op = "register" THEN q.joins ELSE joined[u]]
    BY DEF Committed
  <2> QED  BY <2>1, <2>2
<1>10. lead' = [h \in Homes |-> lead'[h]]  BY DEF Committed
<1>11. Len(invites') \in Nat /\ invites' = [i \in 1..Len(invites') |-> invites'[i]]
       /\ Len(invites) <= Len(invites') /\ Len(invites) \in Nat
  BY InvitesAfter DEF IInv, Typed
<1>12. ASSUME NEW i \in 1..Len(invites') PROVE Invite(invites[i])'
  <2>1. CASE i \in 1..Len(invites)
    <3>1. invites[i].home \in 1..created  BY <2>1, InviteHome
    <3>2. Rewritten(i, w, gone)  BY <2>1, InviteAfter
    <3> QED  BY <1>4, <3>1, <3>2 DEF Invite, Rewritten
  <2>2. CASE i \notin 1..Len(invites)
    <3>1. invites'[i] = [home |-> q.home, state |-> "open", by |-> None] /\ w.issue
      BY <2>2, InvitesAfter
    <3>2. q.home \in households  BY <1>1, <3>1 DEF Lands
    <3>3. PICK y : y = invites'[i]  OBVIOUS
    <3>4. y = [home |-> y.home, state |-> y.state, by |-> y.by] /\ y.home = q.home
      BY <3>1, <3>3
    <3> QED  BY <1>4, <1>5, <3>2, <3>3, <3>4 DEF Invite
  <2> QED  BY <2>1, <2>2
<1>13. via' = [u \in People |-> via'[u]] /\ \A u \in People : via'[u] \in 1..Len(invites') \cup {None}
  <2>1. via' = [u \in People |-> IF u \in gone THEN None
                                 ELSE IF u = w.who /\ w.to # None THEN w.accept ELSE via[u]]
    BY DEF Committed
  <2>2. w.accept \in 1..Len(invites) \cup {None} /\ \A u \in People : via[u] \in 1..Len(invites) \cup {None}
    BY <1>1 DEF Sound, IInv, Typed
  <2>3. 1..Len(invites) \subseteq 1..Len(invites')  BY <1>11
  <2> QED  BY <2>1, <2>2, <2>3
<1>14. torn' \subseteq 1..created'
  <2>1. torn' = torn \cup (IF q.stale THEN changed \ {None} ELSE {})  BY DEF Committed
  <2>2. q.touched \subseteq 1..created  BY <1>1 DEF Record
  <2>3. \A u \in People : home[u] \in 1..created \cup {None}  BY <1>5 DEF IInv, Typed
  <2>4. changed \ {None} \subseteq 1..created  BY <1>1, <2>2, <2>3
  <2> QED  BY <1>4, <1>5, <2>1, <2>4
<1> QED
  BY <1>1, <1>4, <1>5, <1>6, <1>7, <1>8, <1>9, <1>10, <1>11, <1>12, <1>13, <1>14, ActiveAfter DEF Typed

LEMMA InFlightAfter ==
    ASSUME IInv, NEW r, NEW q, NEW w, NEW gone, NEW changed, Committed(r, q, w, gone, changed)
    PROVE  InFlight'
<1>1. Typed /\ InFlight /\ Typed'  BY TypedAfter DEF IInv
<1>2. requests' = [s \in Requests |->
                    CASE s = r \/ requests[s] = Idle -> Idle
                      [] OTHER -> [requests[s] EXCEPT
                             !.stale = @ \/ requests[s].touched \cap changed # {}]]
  BY DEF Committed
<1>3. ASSUME NEW s \in Active'
      PROVE  /\ s \in Active
             /\ Carried(requests'[s], requests[s])
             /\ ~requests'[s].stale => \A h \in requests[s].touched : Kept(h)
  <2>1. s \in Requests /\ s # r /\ requests[s] # Idle  BY <1>2, <1>3 DEF Active
  <2>2. PICK p : p = requests[s]  OBVIOUS
  <2>3. s \in Active /\ Record(p)  BY <1>1, <2>1, <2>2 DEF Active, InFlight, Request
  <2>4. PICK c \in BOOLEAN : c <=> p.touched \cap changed # {}  OBVIOUS
  <2>5. requests'[s] = [p EXCEPT !.stale = @ \/ p.touched \cap changed # {}]
    BY <1>2, <2>1, <2>2
  <2>6. requests'[s] = [p EXCEPT !.stale = @ \/ c]  BY <2>4, <2>5
  <2>7. Carried(requests'[s], p) /\ (~requests'[s].stale => ~c)  BY <2>3, <2>6, CarriedMark
  <2>8. p.touched \subseteq 1..created  BY <2>3 DEF Record
  <2>9. ASSUME p.touched \cap changed = {}, NEW h \in p.touched PROVE Kept(h)
    <3>1. h \in 1..created /\ h \notin changed  BY <2>8, <2>9
    <3> QED  BY <3>1, UntouchedIsKept
  <2> QED  BY <2>2, <2>3, <2>4, <2>7, <2>9
<1>4. created <= created' /\ InvitesStay
  <2>1. created' = (IF w.to = New THEN created + 1 ELSE created) /\ created \in Nat
    BY <1>1 DEF Committed, Typed
  <2>2. \A i \in 1..Len(invites) : invites'[i].home = invites[i].home  BY InviteAfter DEF Rewritten
  <2>3. Len(invites') \in Nat /\ Len(invites) <= Len(invites')  BY InvitesAfter
  <2>4. created <= created'  BY <2>1
  <2> QED  BY <2>2, <2>3, <2>4 DEF InvitesStay
<1>5. requests' = [s \in Requests |-> requests'[s]]  BY <1>2
<1> QED
  BY <1>1, <1>3, <1>4, <1>5, InFlightCarried

(* A request that is not stale changes only what it has read.                *)
LEMMA NotStale ==
    ASSUME IInv, NEW r, NEW q, NEW w, NEW gone, NEW changed, Committed(r, q, w, gone, changed),
           NEW h \in changed, h # None, h \notin torn'
    PROVE  ~q.stale /\ Allowed(q, w) /\ h \notin torn
BY DEF Committed

(* A new household is led by who opened it, and another one by whom it had,  *)
(* unless they go and say who is next.                                       *)
LEMMA LeadAfter ==
    ASSUME IInv, NEW r, NEW q, NEW w, NEW gone, NEW changed, Committed(r, q, w, gone, changed)
    PROVE  LeadIsAMember'
<1>1. Active # {} /\ Sound(q, w) /\ Record(q) /\ Lands(q) /\ w = q.writes /\ gone = Deleted(w)
      /\ households' = (households \ {w.collect}) \cup (IF w.to = New THEN {created'} ELSE {})
      /\ created' = (IF w.to = New THEN created + 1 ELSE created)
      /\ \A h \in Homes : lead'[h] = Leader(h, w, gone)
  BY DEF Committed
<1>2. created + 1 \in Homes /\ 1..created \subseteq Homes /\ New # None /\ created + 1 \notin 1..created
      /\ created + 1 # None /\ None \notin 1..created /\ None \notin People
  <2>1. created \in Nat  BY <1>1, Numbers
  <2>2. created + 1 \notin 1..created /\ created + 1 # None  BY <2>1 DEF None
  <2> QED  BY <1>1, <2>2, Numbers
<1>3. q.touched \subseteq 1..created /\ households \subseteq 1..created /\ q.touched \subseteq changed
  BY <1>1 DEF Record, IInv, Typed, Committed
<1> SUFFICES ASSUME NEW h \in households', h \notin torn'
             PROVE  lead'[h] \in People /\ home'[lead'[h]] = h
  BY DEF LeadIsAMember, Members
<1>4. CASE w.to = New /\ h = created + 1
  <2>1. w.who # None /\ ~w.drop  BY <1>1, <1>2, <1>4 DEF Sound
  <2>2. w.who \in People /\ w.who \notin gone  BY <1>1, <2>1 DEF Deleted, Sound
  <2>3. h # w.collect  BY <1>1, <1>2, <1>3, <1>4 DEF Sound
  <2>4. lead'[h] = w.who  BY <1>1, <1>2, <1>4, <2>3 DEF Leader
  <2>5. home'[w.who] = h  BY <1>2, <1>4, <2>2, HomeAfter
  <2> QED  BY <2>2, <2>4, <2>5
<1>5. CASE ~(w.to = New /\ h = created + 1)
  <2>1. h \in households /\ h # w.collect /\ h \in 1..created /\ h # None /\ h \in Homes
        /\ h # created + 1
    BY <1>1, <1>2, <1>3, <1>5
  <2>2. lead'[h] = Leader(h, w, gone)  BY <1>1, <2>1
  <2>3. CASE h \notin changed
    <3>1. Kept(h)  BY <2>1, <2>3, UntouchedIsKept
    <3>2. h \notin torn /\ lead'[h] = lead[h] /\ Members(h)' = Members(h)
      BY <2>1, <3>1 DEF Kept
    <3>3. lead[h] \in Members(h)  BY <2>1, <3>2 DEF IInv, LeadIsAMember
    <3> QED  BY <3>2, <3>3 DEF Members
  <2>4. CASE h \in changed
    <3>1. ~q.stale /\ Allowed(q, w) /\ h \notin torn  BY <2>1, <2>4, NotStale
    <3>2. PICK l : l = lead[h]  OBVIOUS
    <3>3. l \in People /\ home[l] = h /\ l # None
      BY <1>2, <2>1, <3>1, <3>2 DEF IInv, LeadIsAMember, Members
    <3>4. CASE h = w.leadOf
      <4>1. lead'[h] = w.leadTo  BY <2>1, <2>2, <3>4 DEF Leader
      <4>2. h = q.home /\ w.leadTo \in People /\ home[w.leadTo] = h /\ w.leadTo # w.who
        BY <1>1, <2>1, <3>1, <3>4 DEF Sound, Allowed, Members
      <4>3. w.collect = None  BY <1>1, <2>1, <4>2 DEF Sound
      <4>4. w.leadTo \notin gone  BY <1>1, <4>2, <4>3 DEF Deleted
      <4> QED  BY <4>1, <4>2, <4>4, HomeAfter
    <3>5. CASE h # w.leadOf
      <4>1. CASE l = w.who
        <5>1. q.op # "register"  BY <1>1, <2>1, <3>3, <4>1, WhoMoves DEF Sound
        <5>2. h = q.home  BY <3>1, <3>3, <4>1, <5>1 DEF Allowed
        <5>3. w.leadOf = None /\ w.collect = None  BY <1>1, <2>1, <3>5, <5>2 DEF Sound
        <5>4. q.lead # l  BY <3>1, <3>3, <4>1, <5>1, <5>3 DEF Allowed
        <5>5. Request(q)  BY DEF IInv, InFlight, Committed
        <5>6. lead[h] = q.lead  BY <2>1, <3>1, <5>2, <5>5 DEF Request, Loaded
        <5> QED  BY <3>2, <5>4, <5>6
      <4>2. CASE l # w.who
        <5>1. l \notin gone  BY <1>1, <2>1, <3>3, <4>2 DEF Deleted, Members
        <5>2. lead'[h] = l  BY <2>1, <2>2, <3>2, <3>5, <5>1 DEF Leader
        <5>3. home'[l] = h  BY <3>3, <4>2, <5>1, HomeAfter
        <5> QED  BY <3>3, <5>2, <5>3
      <4> QED  BY <4>1, <4>2
    <3> QED  BY <3>4, <3>5
  <2> QED  BY <2>3, <2>4
<1> QED
  BY <1>4, <1>5

(* Only its own admission changes what an invite says of someone.            *)
LEMMA RecordsAfter ==
    ASSUME IInv, NEW r, NEW q, NEW w, NEW gone, NEW changed, Committed(r, q, w, gone, changed)
    PROVE  AdmissionsAreOnRecord'
<1>1. Active # {} /\ Sound(q, w) /\ Record(q)
      /\ q.touched \subseteq changed /\ q.touched \subseteq 1..created
  BY DEF Committed, Record
<1>2. New # None /\ New \notin 1..created /\ None \notin 1..created /\ None \notin People
  BY <1>1, Numbers
<1> SUFFICES ASSUME NEW u \in People, via'[u] # None, home'[u] \notin torn'
             PROVE  invites'[via'[u]] = [home |-> home'[u], state |-> "accepted", by |-> u]
  BY DEF AdmissionsAreOnRecord
<1>3. via'[u] = IF u \in gone THEN None ELSE IF u = w.who /\ w.to # None THEN w.accept ELSE via[u]
  BY DEF Committed
<1>4. u \notin gone  BY <1>3
<1>5. CASE u = w.who /\ w.to # None
  <2>1. PICK i : i = w.accept  OBVIOUS
  <2>2. via'[u] = i /\ i # None  BY <1>3, <1>4, <1>5, <2>1
  <2>3. /\ i \in 1..Len(invites) /\ w.to = invites[i].home /\ w.to \in q.touched /\ w.to # w.collect
        /\ i # w.revoke
    BY <1>1, <2>1, <2>2 DEF Sound
  <2>4. w.to # New /\ home'[u] = w.to  BY <1>1, <1>2, <1>4, <1>5, <2>3, HomeAfter
  <2>5. invites'[i] = [home |-> invites[i].home, state |-> "accepted", by |-> w.who]
    <3>1. Rewritten(i, w, gone)  BY <2>3, InviteAfter
    <3> QED  BY <2>1, <2>3, <3>1 DEF Rewritten
  <2> QED  BY <1>5, <2>2, <2>3, <2>4, <2>5
<1>6. CASE ~(u = w.who /\ w.to # None)
  <2>1. PICK i : i = via[u]  OBVIOUS
  <2>2. via'[u] = i /\ home'[u] = home[u] /\ i # None
    BY <1>3, <1>4, <1>6, <2>1, HomeAfter
  <2>3. i \in 1..Len(invites)  BY <2>1, <2>2 DEF IInv, Typed
  <2>4. home[u] \notin torn  BY <2>2 DEF Committed
  <2>5. invites[i] = [home |-> home[u], state |-> "accepted", by |-> u]
    BY <2>1, <2>2, <2>4 DEF IInv, AdmissionsAreOnRecord
  <2>6. PICK x : x = invites[i]  OBVIOUS
  <2>7. x.home = home[u] /\ x.state = "accepted" /\ x.by = u  BY <2>5, <2>6
  <2>8. home[u] \in 1..created /\ home[u] # None  BY <1>2, <2>3, <2>6, <2>7, InviteHome
  <2>9. home[u] # w.collect  BY <1>4, <1>6, <2>8, WhoIsLeft
  <2>10. ASSUME home[u] \in q.touched PROVE ~q.stale
    BY <1>1, <2>2, <2>8, <2>10, NotStale
  <2>11. i # w.accept
    <3> SUFFICES ASSUME i = w.accept PROVE FALSE  OBVIOUS
    <3>1. home[u] \in q.touched /\ (~q.stale => ~Accepted(i))
      BY <1>1, <2>2, <2>6, <2>7 DEF Sound
    <3> QED  BY <2>6, <2>7, <2>10, <3>1 DEF Accepted
  <2>12. i # w.revoke
    <3> SUFFICES ASSUME i = w.revoke PROVE FALSE  OBVIOUS
    <3>1. home[u] \in q.touched /\ (~q.stale => ~Accepted(i))
      BY <1>1, <2>2, <2>6, <2>7 DEF Sound
    <3> QED  BY <2>6, <2>7, <2>10, <3>1 DEF Accepted
  <2>13. invites[i].home # w.collect /\ invites[i].by \notin gone
    BY <1>4, <2>6, <2>7, <2>9
  <2>14. invites'[i] = invites[i]
    <3>1. Rewritten(i, w, gone)  BY <2>3, InviteAfter
    <3> QED  BY <2>11, <2>12, <2>13, <3>1 DEF Rewritten
  <2> QED  BY <2>2, <2>5, <2>14
<1> QED
  BY <1>5, <1>6

LEMMA Committing == ASSUME IInv, NEW r \in Requests, Commit(r) PROVE IInv'
<1>1. \E q, w, gone, changed : Committed(r, q, w, gone, changed)  BY CommitIsCommitted
<1> QED
  BY <1>1, TypedAfter, InFlightAfter, LeadAfter, RecordsAfter DEF IInv

-----------------------------------------------------------------------------
(* The theorems. *)

LEMMA TwoAtMost ==
    ASSUME NEW a, NEW b
    PROVE  Cardinality({a, b}) # 3
<1>1. IsFiniteSet({a}) /\ Cardinality({a}) = 1  BY FS_Singleton
<1>2. Cardinality({a} \cup {b}) \in {1, 2}  BY <1>1, FS_AddElement
<1>3. {a, b} = {a} \cup {b}  OBVIOUS
<1> QED
  BY <1>2, <1>3

LEMMA InitIsFine == Init => IInv
<1> SUFFICES ASSUME Init PROVE IInv
  OBVIOUS
<1>1. /\ MaxRequests \in Nat /\ IsFiniteSet(People) /\ 0 \notin People
      /\ Founder \in People /\ Partner \in People /\ Neighbour \in People
  BY HouseholdAssumption
<1>2. Founder # Partner /\ Founder # Neighbour /\ Partner # Neighbour
  <2>1. Cardinality({Founder, Partner, Neighbour}) = 3  BY HouseholdAssumption
  <2>5. ASSUME NEW a, NEW b, {Founder, Partner, Neighbour} = {a, b} PROVE FALSE
    BY <2>1, <2>5, TwoAtMost
  <2>6. ASSUME Founder = Partner PROVE FALSE
    <3>1. {Founder, Partner, Neighbour} = {Founder, Neighbour}  BY <2>6
    <3> QED  BY <2>5, <3>1
  <2>7. ASSUME Founder = Neighbour PROVE FALSE
    <3>1. {Founder, Partner, Neighbour} = {Founder, Partner}  BY <2>7
    <3> QED  BY <2>5, <3>1
  <2>8. ASSUME Partner = Neighbour PROVE FALSE
    <3>1. {Founder, Partner, Neighbour} = {Founder, Partner}  BY <2>8
    <3> QED  BY <2>5, <3>1
  <2> QED  BY <2>6, <2>7, <2>8
<1>3. created = 2 /\ households = {1, 2} /\ content = {1} /\ served = 0 /\ torn = {}
  BY DEF Init
<1>4. /\ home = [u \in People |-> home[u]]
      /\ \A u \in People : home[u] \in {1, 2, None}
      /\ home[Founder] = 1 /\ home[Partner] = 1 /\ home[Neighbour] = 2
  BY <1>1, <1>2 DEF Init, None
<1>5. joined \in [People -> Nat]
  BY DEF Init
<1>6. /\ lead = [h \in Homes |-> lead[h]]
      /\ lead[1] = Founder /\ lead[2] = Neighbour
  BY <1>1 DEF Init, Homes
<1>7. /\ Len(invites) = 2 /\ invites = [i \in 1..2 |-> invites[i]]
      /\ invites[1] = [home |-> 1, state |-> "accepted", by |-> Partner]
      /\ invites[2] = [home |-> 1, state |-> "open", by |-> None]
  BY DEF Init
<1>8. Active = {} /\ requests = [r \in Requests |-> requests[r]]
  BY DEF Init, Active
<1>9. /\ via = [u \in People |-> via[u]]
      /\ \A u \in People : via[u] = (IF u = Partner THEN 1 ELSE None)
  BY DEF Init
<1>10. Typed
  <2>1. IsFiniteSet(Active) /\ Cardinality(Active) = 0  BY <1>8, FS_EmptySet
  <2>2. \A i \in 1..2 : i = 1 \/ i = 2  OBVIOUS
  <2>3. \A i \in 1..2 : Invite(invites[i])  BY <1>3, <1>7, <2>2 DEF Invite
  <2>4. \A u \in People : home[u] \in households \cup {None}  BY <1>3, <1>4
  <2>5. \A u \in People : via[u] \in 1..2 \cup {None}  BY <1>9
  <2> QED
    BY <1>1, <1>3, <1>4, <1>5, <1>6, <1>7, <1>9, <2>1, <2>3, <2>4, <2>5 DEF Typed
<1>11. InFlight  BY <1>8 DEF InFlight
<1>12. LeadIsAMember  BY <1>1, <1>3, <1>4, <1>6 DEF LeadIsAMember, Members
<1>13. AdmissionsAreOnRecord
  <2> SUFFICES ASSUME NEW u \in People, via[u] # None
               PROVE  invites[via[u]] = [home |-> home[u], state |-> "accepted", by |-> u]
    BY DEF AdmissionsAreOnRecord
  <2>1. u = Partner /\ via[u] = 1  BY <1>9
  <2> QED  BY <1>4, <1>7, <2>1
<1> QED
  BY <1>10, <1>11, <1>12, <1>13 DEF IInv

LEMMA NextKeepsIt == IInv /\ [Next]_vars => IInv'
<1> SUFFICES ASSUME IInv, [Next]_vars PROVE IInv'
  OBVIOUS
<1>1. ASSUME NEW r \in Requests, Arrive(r) PROVE IInv'  BY <1>1, Arriving
<1>2. ASSUME NEW r \in Requests, Register(r) PROVE IInv'  BY <1>2, Registering
<1>3. ASSUME NEW r \in Requests, UpdateHousehold(r) PROVE IInv'  BY <1>3, HandingOver
<1>4. ASSUME NEW r \in Requests, RemoveMember(r) PROVE IInv'  BY <1>4, Removing
<1>5. ASSUME NEW r \in Requests, CreateInvite(r) PROVE IInv'  BY <1>5, Inviting
<1>6. ASSUME NEW r \in Requests, RedeemInvite(r) PROVE IInv'  BY <1>6, Redeeming
<1>7. ASSUME NEW r \in Requests, RevokeInvite(r) PROVE IInv'  BY <1>7, Revoking
<1>8. ASSUME NEW r \in Requests, DeleteAccount(r) PROVE IInv'  BY <1>8, Leaving
<1>9. ASSUME NEW r \in Requests, Commit(r) PROVE IInv'  BY <1>9, Committing
<1>10. ASSUME NEW r \in Requests, End(r) PROVE IInv'  BY <1>10, Ending
<1>11. ASSUME NEW h \in Homes, AddContent(h) PROVE IInv'  BY <1>11, Adding
<1>12. ASSUME NEW i \in DOMAIN invites, Expire(i) PROVE IInv'  BY <1>12, Expiring
<1>13. CASE UNCHANGED vars
  <2>1. Same /\ requests' = requests /\ served' = served  BY <1>13 DEF vars, Same
  <2>2. Active' = Active  BY <2>1 DEF Active
  <2>3. Typed'  BY <2>1, <2>2, TypedUnchanged DEF IInv, Typed
  <2>4. InFlight'
    <3>1. ASSUME NEW r \in Active PROVE Request(requests[r])'
      <4>1. PICK q : q = requests[r]  OBVIOUS
      <4>2. Request(q)  BY <4>1 DEF IInv, InFlight
      <4>3. Request(q)'  BY <2>1, <2>3, <4>2, RequestUnchanged DEF IInv
      <4>4. q = requests'[r]  BY <2>1, <4>1
      <4> QED  BY <4>3, <4>4
    <3> QED  BY <2>1, <2>2, <3>1 DEF IInv, InFlight
  <2>5. LeadIsAMember' /\ AdmissionsAreOnRecord'
    BY <2>1 DEF Same, IInv, LeadIsAMember, AdmissionsAreOnRecord, Members
  <2> QED  BY <2>3, <2>4, <2>5 DEF IInv
<1> QED
  BY <1>1, <1>2, <1>3, <1>4, <1>5, <1>6, <1>7, <1>8, <1>9, <1>10, <1>11, <1>12, <1>13 DEF Next

LEMMA Invariance == Spec => []IInv
<1>1. Init => IInv  BY InitIsFine
<1>2. IInv /\ [Next]_vars => IInv'  BY NextKeepsIt
<1> QED
  BY <1>1, <1>2, PTL DEF Spec

(* update_household, move_user_to_household, delete_user: a household that   *)
(* nobody changed from two sides at once has a lead, who is one of its       *)
(* members.                                                                  *)
THEOREM EveryHouseholdIsLed == Spec => []LeadIsAMember
<1>1. IInv => LeadIsAMember  BY DEF IInv
<1> QED
  BY <1>1, Invariance, PTL

(* _redeem_invite, revoke_invite: unless requests overlapped on a household, *)
(* the invite that let someone in is kept, accepted by them, for as long as  *)
(* they stay; so it let nobody else in and was never revoked.                *)
THEOREM AdmissionsStayOnRecord == Spec => []AdmissionsAreOnRecord
<1>1. IInv => AdmissionsAreOnRecord  BY DEF IInv
<1> QED
  BY <1>1, Invariance, PTL

LEMMA OnlyCommitsTake ==
    ASSUME [Next]_vars, \A r \in Requests : ~Commit(r)
    PROVE  home' = home /\ content \subseteq content'
<1>1. ASSUME NEW r \in Requests, Arrive(r) PROVE home' = home /\ content' = content
  BY <1>1 DEF Arrive, Authenticate
<1>2. ASSUME NEW r \in Requests, Register(r) \/ RedeemInvite(r) \/ DeleteAccount(r)
      PROVE  home' = home /\ content' = content
  BY <1>2 DEF Register, RedeemInvite, DeleteAccount, Stage
<1>3. ASSUME NEW r \in Requests,
             UpdateHousehold(r) \/ RemoveMember(r) \/ CreateInvite(r) \/ RevokeInvite(r)
      PROVE  home' = home /\ content' = content
  BY <1>3 DEF UpdateHousehold, RemoveMember, CreateInvite, RevokeInvite, Stage
<1>4. ASSUME NEW r \in Requests, End(r) PROVE home' = home /\ content' = content
  BY <1>4 DEF End
<1>5. ASSUME NEW h \in Homes, AddContent(h) PROVE home' = home /\ content \subseteq content'
  BY <1>5 DEF AddContent
<1>6. ASSUME NEW i \in DOMAIN invites, Expire(i) PROVE home' = home /\ content' = content
  BY <1>6 DEF Expire
<1>7. CASE UNCHANGED vars  BY <1>7 DEF vars
<1> QED
  BY <1>1, <1>2, <1>3, <1>4, <1>5, <1>6, <1>7 DEF Next

LEMMA OwnersEndAccounts ==
    ASSUME IInv, [Next]_vars, NEW u \in People, home[u] # None, home'[u] = None, home[u] \notin torn'
    PROVE  \E r \in Requests : /\ requests[r].phase = "staged" /\ requests'[r] = Idle
                               /\ requests[r].op = "delete" /\ requests[r].user = u
<1>1. PICK r \in Requests : Commit(r)  BY OnlyCommitsTake
<1>2. PICK q, w, gone, changed : Committed(r, q, w, gone, changed)  BY <1>1, CommitIsCommitted
<1>3. Active # {} /\ Sound(q, w) /\ q = requests[r] /\ q.phase = "staged" /\ requests'[r] = Idle
  BY <1>2 DEF Committed
<1>4. created + 1 # None /\ u # None
  BY <1>3, Numbers DEF None
<1>5. u \in gone  BY <1>2, <1>4, HomeAfter
<1>6. /\ home[u] \in changed
      /\ \/ w.collect # None /\ u \in Members(w.collect) /\ u # w.who
         \/ w.drop /\ u = w.who /\ q.op = "delete" /\ u = q.user
  BY <1>2, <1>5, WhoGoes
<1>7. Allowed(q, w)  BY <1>2, <1>6, NotStale
<1>8. q.op = "delete" /\ q.user = u
  BY <1>3, <1>6, <1>7 DEF Sound, Allowed
<1> QED
  BY <1>3, <1>8

(* delete_user, delete_household_data: unless requests overlapped on the     *)
(* household, an account ends by the request of its owner.                   *)
THEOREM AccountsEndWithTheirOwners == Spec => OnlyOwnersEndAccounts
<1>1. IInv /\ [Next]_vars =>
        [\A u \in People :
            home[u] # None /\ home'[u] = None /\ home[u] \notin torn' =>
                \E r \in Requests : /\ requests[r].phase = "staged" /\ requests'[r] = Idle
                                    /\ requests[r].op = "delete" /\ requests[r].user = u]_vars
  BY OwnersEndAccounts
<1> QED
  BY <1>1, Invariance, PTL DEF Spec, OnlyOwnersEndAccounts

LEMMA ConsentIsGiven ==
    ASSUME IInv, [Next]_vars, NEW h \in content, h \notin content' \cup torn'
    PROVE  \E r \in Requests : /\ requests[r].phase = "staged" /\ requests'[r] = Idle
                               /\ Members(h) = {requests[r].user}
                               /\ requests[r].op = "delete" \/ requests[r].force
<1>1. PICK r \in Requests : Commit(r)  BY OnlyCommitsTake
<1>2. PICK q, w, gone, changed : Committed(r, q, w, gone, changed)  BY <1>1, CommitIsCommitted
<1>3. Active # {} /\ Sound(q, w) /\ q = requests[r] /\ q.phase = "staged" /\ requests'[r] = Idle
      /\ content' = content \ {w.collect} /\ q.touched \subseteq changed
  BY <1>2 DEF Committed
<1>4. h # None  BY <1>3, Numbers DEF IInv, Typed
<1>5. h = w.collect /\ h = q.home /\ h \in changed  BY <1>3, <1>4 DEF Sound
<1>6. Allowed(q, w)  BY <1>2, <1>4, <1>5, NotStale
<1>7. Members(h) = {q.user} /\ (q.op = "delete" \/ q.force)
  BY <1>4, <1>5, <1>6 DEF Allowed
<1> QED
  BY <1>3, <1>7

(* redeem_invite, delete_household_data: unless requests overlapped on the   *)
(* household, what it holds goes only by the leave of its last member.       *)
THEOREM LibrariesGoByConsent == Spec => LibraryGoesByConsent
<1>1. IInv /\ [Next]_vars =>
        [\A h \in content :
            h \notin content' \cup torn' =>
                \E r \in Requests : /\ requests[r].phase = "staged" /\ requests'[r] = Idle
                                    /\ Members(h) = {requests[r].user}
                                    /\ requests[r].op = "delete" \/ requests[r].force]_vars
  BY ConsentIsGiven
<1> QED
  BY <1>1, Invariance, PTL DEF Spec, LibraryGoesByConsent
=============================================================================
