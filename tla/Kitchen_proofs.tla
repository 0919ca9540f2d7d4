----------------------------- MODULE Kitchen_proofs ----------------------------
(***************************************************************************)
(* For any number of requests, batches, stores, needs and rows: what a part *)
(* of the kitchen, and the catalogue of ingredients, promise of what is not *)
(* torn.  For any lines and amounts: what is stored can be written back.   *)
(***************************************************************************)
EXTENDS Kitchen, Pantry, Sequences, FiniteSetTheorems, TLAPS

-----------------------------------------------------------------------------
(* Requests. *)
Sessions ==
    /\ requests = [r \in Requests |-> requests[r]]
    /\ \A r \in Requests : requests[r] # Idle =>
          LET q == requests[r] IN
          /\ q = [phase |-> q.phase, op |-> q.op, about |-> q.about, number |-> q.number,
                  behind |-> q.behind]
          /\ q.phase # "idle"

-----------------------------------------------------------------------------
(* The freezer: what a request loaded is so as long as nothing is committed *)
(* to the batch behind its back.                                           *)
FreshBatch(q) ==
    LET b == q.about.batch IN
    /\ b \in InFreezer \cup gone
    /\ b \notin q.behind => b \in InFreezer /\ (q.op # "remove" => left[b] = q.about.had)

FreezerInv ==
    /\ left = [b \in InFreezer |-> left[b]]
    /\ said = [b \in DOMAIN said |-> said[b]]
    /\ InFreezer \subseteq Batches /\ InFreezer \cap gone = {}
    /\ LeftIsAsSaid
    /\ \A r \in Requests : requests[r] # Idle /\ requests[r].op \in {"recount", "take", "remove"} =>
          FreshBatch(requests[r])
    /\ \A r \in Requests : requests[r] # Idle /\ requests[r].op \in {"add", "recount", "take"} =>
          requests[r].about.portions \in Nat \ {0}
    /\ \A b \in InFreezer : left[b] \in Nat
    /\ \A r \in Requests : requests[r] # Idle /\ requests[r].op \in {"recount", "take"} =>
          requests[r].about.had \in Nat

-----------------------------------------------------------------------------
(* The supermarkets: which store was active when a request looked. *)
FreshChoice(q) ==
    "active" \notin q.behind =>
        /\ q.about.store \subseteq Markets
        /\ \A s \in q.about.store : markets[s].active = q.about.was
        /\ q.phase = "deactivated" => q.about.off = Active \ q.about.store

Asked(q) ==
    /\ q.about = [store |-> q.about.store, name |-> q.about.name, had |-> q.about.had,
                  active |-> q.about.active, was |-> q.about.was, switch |-> q.about.switch,
                  off |-> q.about.off]
    /\ q.about.name \in Names /\ q.about.active \in BOOLEAN
    /\ q.about.was \in BOOLEAN /\ q.about.switch \in BOOLEAN
    /\ q.op = "patch" /\ ~q.about.switch => q.about.active = q.about.was
    /\ q.op = "create" => q.about.switch = q.about.active /\ q.about.store = {}
    /\ q.phase = "open" => q.about.off = {}
    /\ FreshChoice(q)

SupermarketsInv ==
    /\ markets \in [Markets -> [name : Names, active : BOOLEAN]]
    /\ ActiveIsAsChosen
    /\ \A r \in Requests : requests[r] # Idle /\ requests[r].op \in {"create", "patch"} =>
          Asked(requests[r])

-----------------------------------------------------------------------------
(* The live list: which list was live, and what was on it. *)
Calm == {"live", "lines"} \cap torn = {}

FreshList(q) ==
    "live" \notin q.behind \cup torn => Live = IF q.about.list = NewList THEN {} ELSE {q.about.list}

FreshItem(q) ==
    LET l == q.about.list IN
    Calm /\ "lines" \notin q.behind =>
        /\ q.about.known = (q.about.key # NoKey /\ \E s \in SourcesOn(l) : s.key = q.about.key)
        /\ q.about.fresh = (\A x \in OnList(l) : x.need # q.about.need)
        /\ ~q.about.fresh => \E x \in OnList(l) : x.id = q.about.id /\ x.need = q.about.need

Lists ==
    /\ lists \in Seq({"active", "archived"})
    /\ "live" \notin torn => \A l, k \in Live : l = k

Lines ==
    /\ \A x, y \in lines : x.id = y.id => x = y
    /\ \A s \in sources : \E x \in lines : x.id = s.line
    /\ Calm => \A x \in lines : x.list \in Made
    /\ OneLinePerNeed

Takes(r) == requests[r] # Idle /\ requests[r].op \in {"look", "archive", "put"}

LiveListInv ==
    /\ Lists
    /\ Lines
    /\ \A r \in Requests : Takes(r) =>
          /\ Calm => requests[r].about.list \in Made \cup {NewList}
          /\ FreshList(requests[r])
    /\ \A r \in Requests : requests[r] # Idle /\ requests[r].op = "put" /\ requests[r].phase = "found" =>
          /\ requests[r].about.known \in BOOLEAN /\ requests[r].about.fresh \in BOOLEAN
          /\ FreshItem(requests[r])

-----------------------------------------------------------------------------
(* A behaviour is one part's; nothing happens in the others. *)
IInv ==
    /\ Sessions
    /\ part \in {"freezer", "supermarkets", "list"}
    /\ IF part = "freezer" THEN FreezerInv ELSE FreezerInit
    /\ IF part = "supermarkets" THEN SupermarketsInv ELSE SupermarketsInit
    /\ IF part = "list" THEN LiveListInv ELSE LiveListInit

-----------------------------------------------------------------------------
(* What the steps of a session do. *)
LEMMA OpensShape ==
    ASSUME Sessions, NEW r \in Requests, NEW op, NEW about, Opens(r, op, about)
    PROVE  /\ Sessions'
           /\ requests'[r].phase = "open" /\ requests'[r].op = op
           /\ requests'[r].about = about /\ requests'[r].behind = {}
           /\ requests[r] = Idle
           /\ \A s \in Requests \ {r} : requests'[s] = requests[s]
           /\ torn' = torn
<1> DEFINE q == [phase |-> "open", op |-> op, about |-> about, number |-> served + 1, behind |-> {}]
<1>1. requests' = [requests EXCEPT ![r] = q] /\ torn' = torn /\ requests[r] = Idle
  BY DEF Opens
<1>2. requests' = [s \in Requests |-> IF s = r THEN q ELSE requests[s]]
  BY <1>1 DEF Sessions
<1>3. q = [phase |-> q.phase, op |-> q.op, about |-> q.about, number |-> q.number, behind |-> q.behind]
      /\ q.phase = "open" /\ q.op = op /\ q.about = about /\ q.behind = {}
  OBVIOUS
<1> HIDE DEF q
<1>4. requests'[r] = q /\ \A s \in Requests \ {r} : requests'[s] = requests[s]
  BY <1>2
<1>5. Sessions'
  <2>1. requests' = [s \in Requests |-> requests'[s]]
    BY <1>2
  <2>2. ASSUME NEW s \in Requests, requests'[s] # Idle
        PROVE  /\ requests'[s] = [phase |-> requests'[s].phase, op |-> requests'[s].op,
                                  about |-> requests'[s].about, number |-> requests'[s].number,
                                  behind |-> requests'[s].behind]
               /\ requests'[s].phase # "idle"
    BY <1>3, <1>4, <2>2 DEF Sessions
  <2> QED
    BY <2>1, <2>2 DEF Sessions
<1> QED
  BY <1>1, <1>3, <1>4, <1>5

LEMMA GoesOnShape ==
    ASSUME Sessions, NEW r \in Requests, requests[r] # Idle, NEW phase, phase # "idle", NEW about,
           GoesOn(r, phase, about)
    PROVE  /\ Sessions'
           /\ requests'[r].phase = phase /\ requests'[r].op = requests[r].op
           /\ requests'[r].about = about /\ requests'[r].behind = requests[r].behind
           /\ \A s \in Requests \ {r} : requests'[s] = requests[s]
           /\ torn' = torn
<1> DEFINE p == requests[r]
           q == [phase |-> phase, op |-> p.op, about |-> about, number |-> p.number, behind |-> p.behind]
<1>1. requests' = [requests EXCEPT ![r].phase = phase, ![r].about = about] /\ torn' = torn
  BY DEF GoesOn
<1>2. p = [phase |-> p.phase, op |-> p.op, about |-> p.about, number |-> p.number, behind |-> p.behind]
  BY DEF Sessions
<1>3. [p EXCEPT !.phase = phase, !.about = about] = q
  <2>1. PICK p1, p2, p3, p4, p5 :
           p = [phase |-> p1, op |-> p2, about |-> p3, number |-> p4, behind |-> p5]
    BY <1>2
  <2>2. p.op = p2 /\ p.number = p4 /\ p.behind = p5
    BY <2>1
  <2>3. [p EXCEPT !.phase = phase, !.about = about]
            = [phase |-> phase, op |-> p2, about |-> about, number |-> p4, behind |-> p5]
    <3>1. PICK x : x = [p EXCEPT !.phase = phase]
      OBVIOUS
    <3>2. x = [phase |-> phase, op |-> p2, about |-> p3, number |-> p4, behind |-> p5]
      BY <2>1, <3>1
    <3>3. [x EXCEPT !.about = about] = [phase |-> phase, op |-> p2, about |-> about, number |-> p4, behind |-> p5]
      BY <3>2
    <3>4. [p EXCEPT !.phase = phase, !.about = about] = [[p EXCEPT !.phase = phase] EXCEPT !.about = about]
      OBVIOUS
    <3> QED
      BY <3>1, <3>3, <3>4
  <2> QED
    BY <2>2, <2>3
<1>4. requests'[r] = q
  BY <1>1, <1>3 DEF Sessions
<1>5. \A s \in Requests \ {r} : requests'[s] = requests[s]
  BY <1>1 DEF Sessions
<1>6. q = [phase |-> q.phase, op |-> q.op, about |-> q.about, number |-> q.number, behind |-> q.behind]
      /\ q.phase = phase /\ q.op = p.op /\ q.about = about /\ q.behind = p.behind
  OBVIOUS
<1> HIDE DEF q
<1>7. Sessions'
  <2>1. requests' = [s \in Requests |-> requests'[s]]
    BY <1>1 DEF Sessions
  <2>2. ASSUME NEW s \in Requests, requests'[s] # Idle
        PROVE  /\ requests'[s] = [phase |-> requests'[s].phase, op |-> requests'[s].op,
                                  about |-> requests'[s].about, number |-> requests'[s].number,
                                  behind |-> requests'[s].behind]
               /\ requests'[s].phase # "idle"
    BY <1>4, <1>5, <1>6, <2>2 DEF Sessions
  <2> QED
    BY <2>1, <2>2 DEF Sessions
<1> QED
  BY <1>1, <1>4, <1>5, <1>6, <1>7

LEMMA CommitsShape ==
    ASSUME Sessions, NEW r \in Requests, NEW things, Commits(r, things)
    PROVE  /\ Sessions'
           /\ requests'[r] = Idle
           /\ \A s \in Requests : requests'[s] # Idle =>
                 /\ s # r /\ requests[s] # Idle
                 /\ requests'[s].phase = requests[s].phase /\ requests'[s].op = requests[s].op
                 /\ requests'[s].about = requests[s].about
                 /\ requests'[s].behind = requests[s].behind \cup things
           /\ torn' = torn \cup (things \cap requests[r].behind)
<1>1. requests' = [s \in Requests |->
          CASE s = r -> Idle
            [] s # r /\ requests[s] # Idle -> [requests[s] EXCEPT !.behind = @ \cup things]
            [] OTHER -> Idle]
  BY DEF Commits
<1>2. requests'[r] = Idle
  BY <1>1
<1>3. ASSUME NEW s \in Requests, requests'[s] # Idle
      PROVE  /\ s # r /\ requests[s] # Idle
             /\ requests'[s].phase = requests[s].phase /\ requests'[s].op = requests[s].op
             /\ requests'[s].about = requests[s].about
             /\ requests'[s].behind = requests[s].behind \cup things
             /\ requests'[s] = [phase |-> requests'[s].phase, op |-> requests'[s].op,
                                about |-> requests'[s].about, number |-> requests'[s].number,
                                behind |-> requests'[s].behind]
             /\ requests'[s].phase # "idle"
  <2>1. s # r /\ requests[s] # Idle
    BY <1>1, <1>3
  <2>2. requests'[s] = [requests[s] EXCEPT !.behind = @ \cup things]
    BY <1>1, <2>1
  <2> DEFINE p == requests[s]
  <2>3. p = [phase |-> p.phase, op |-> p.op, about |-> p.about, number |-> p.number, behind |-> p.behind]
        /\ p.phase # "idle"
    BY <2>1 DEF Sessions
  <2>4. requests'[s] = [phase |-> p.phase, op |-> p.op, about |-> p.about, number |-> p.number,
                        behind |-> p.behind \cup things]
    BY <2>2, <2>3
  <2> QED
    BY <2>1, <2>3, <2>4
<1>4. Sessions'
  <2>1. requests' = [s \in Requests |-> requests'[s]]
    BY <1>1
  <2> QED
    BY <1>3, <2>1 DEF Sessions
<1> QED
  BY <1>2, <1>3, <1>4 DEF Commits

LEMMA EndShape ==
    ASSUME Sessions, NEW r \in Requests, End(r)
    PROVE  /\ Sessions' /\ torn' = torn
           /\ \A s \in Requests : requests'[s] # Idle => requests'[s] = requests[s] /\ requests[s] # Idle
<1>1. requests' = [requests EXCEPT ![r] = Idle] /\ torn' = torn
  BY DEF End
<1>2. requests'[r] = Idle /\ \A s \in Requests \ {r} : requests'[s] = requests[s]
  BY <1>1 DEF Sessions
<1>3. requests' = [s \in Requests |-> requests'[s]]
  BY <1>1 DEF Sessions
<1> QED
  BY <1>1, <1>2, <1>3 DEF Sessions

-----------------------------------------------------------------------------
(* The freezer. *)

(* A step that commits nothing: at most one request is new. *)
LEMMA FreezerRead ==
    ASSUME FreezerInv, UNCHANGED freezerVars, torn' = torn, NEW r \in Requests,
           \A s \in Requests \ {r} : requests'[s] # Idle => requests'[s] = requests[s],
           requests'[r] # Idle /\ requests'[r].op \in {"recount", "take", "remove"} => FreshBatch(requests[r])',
           requests'[r] # Idle /\ requests'[r].op \in {"add", "recount", "take"} =>
               requests'[r].about.portions \in Nat \ {0},
           requests'[r] # Idle /\ requests'[r].op \in {"recount", "take"} => requests'[r].about.had \in Nat
    PROVE  FreezerInv'
<1>1. left' = left /\ said' = said /\ gone' = gone /\ InFreezer' = InFreezer
  BY DEF freezerVars, InFreezer
<1>2. LeftIsAsSaid'
  BY <1>1 DEF FreezerInv, LeftIsAsSaid
<1>3. ASSUME NEW s \in Requests, requests'[s] # Idle, requests'[s].op \in {"recount", "take", "remove"}
      PROVE  FreshBatch(requests[s])'
  <2>1. CASE s # r
    <3>1. requests'[s] = requests[s]
      BY <2>1, <1>3
    <3>2. FreshBatch(requests[s])
      BY <1>3, <3>1 DEF FreezerInv
    <3> QED
      BY <1>1, <3>1, <3>2 DEF FreshBatch
  <2>2. CASE s = r
    BY <1>3, <2>2
  <2> QED
    BY <2>1, <2>2
<1>4. /\ left' = [b \in InFreezer' |-> left'[b]] /\ said' = [b \in DOMAIN said' |-> said'[b]]
      /\ InFreezer' \subseteq Batches /\ InFreezer' \cap gone' = {} /\ \A b \in InFreezer' : left'[b] \in Nat
  BY <1>1 DEF FreezerInv
<1>5. ASSUME NEW s \in Requests, requests'[s] # Idle
      PROVE  /\ requests'[s].op \in {"add", "recount", "take"} => requests'[s].about.portions \in Nat \ {0}
             /\ requests'[s].op \in {"recount", "take"} => requests'[s].about.had \in Nat
  BY <1>5 DEF FreezerInv
<1> QED
  BY <1>2, <1>3, <1>4, <1>5 DEF FreezerInv

(* A commit that concerns batch b: what is not torn was as it was loaded. *)
(* What people were told is left once some portions are taken: less, or     *)
(* nothing when it was no more than that.                                  *)
LEMMA ToldAfter ==
    ASSUME NEW f, NEW g, NEW b, NEW n,
           g = IF b \in DOMAIN f /\ f[b] > n THEN With(f, b, f[b] - n) ELSE Without(f, b)
    PROVE  /\ g = [c \in DOMAIN g |-> g[c]]
           /\ \A c : c # b => (c \in DOMAIN g) = (c \in DOMAIN f) /\ (c \in DOMAIN f => g[c] = f[c])
           /\ b \in DOMAIN f /\ f[b] > n => b \in DOMAIN g /\ g[b] = f[b] - n
<1>1. CASE b \in DOMAIN f /\ f[b] > n
  <2>1. g = With(f, b, f[b] - n)
    BY <1>1
  <2>2. PICK v : v = f[b] - n
    OBVIOUS
  <2>3. g = [c \in DOMAIN f \cup {b} |-> IF c = b THEN v ELSE f[c]]
    BY <2>1, <2>2 DEF With
  <2> QED
    BY <2>2, <2>3
<1>2. CASE ~(b \in DOMAIN f /\ f[b] > n)
  <2>1. g = [c \in DOMAIN f \ {b} |-> f[c]]
    BY <1>2 DEF Without
  <2> QED
    BY <1>2, <2>1
<1> QED
  BY <1>1, <1>2

LEMMA FreezerCommit ==
    ASSUME Sessions, FreezerInv, NEW r \in Requests, NEW things, Commits(r, things), NEW b,
           b \in things \/ b \notin InFreezer \cup gone,
           left' = [c \in InFreezer' |-> left'[c]], said' = [c \in DOMAIN said' |-> said'[c]],
           InFreezer' \subseteq Batches, InFreezer' \cap gone' = {}, InFreezer \cup gone \subseteq InFreezer' \cup gone',
           \A c \in InFreezer' : left'[c] \in Nat,
           \A c : c # b => /\ (c \in InFreezer') = (c \in InFreezer)
                           /\ (c \in DOMAIN said') = (c \in DOMAIN said)
                           /\ c \in InFreezer => left'[c] = left[c]
                           /\ c \in DOMAIN said => said'[c] = said[c],
           b \notin torn' => /\ (b \in InFreezer') = (b \in DOMAIN said')
                             /\ b \in InFreezer' => left'[b] = said'[b]
    PROVE  FreezerInv'
<1>1. torn \subseteq torn'
  BY CommitsShape
<1>2. LeftIsAsSaid'
  <2> SUFFICES ASSUME NEW c \in Batches \ torn'
               PROVE  /\ (c \in InFreezer') = (c \in DOMAIN said')
                      /\ c \in InFreezer' => left'[c] = said'[c]
    BY DEF LeftIsAsSaid
  <2>1. CASE c # b
    <3>1. (c \in InFreezer) = (c \in DOMAIN said) /\ (c \in InFreezer => left[c] = said[c])
      BY <1>1 DEF FreezerInv, LeftIsAsSaid
    <3> QED
      BY <2>1, <3>1
  <2> QED
    BY <2>1
<1>3. ASSUME NEW s \in Requests, requests'[s] # Idle
      PROVE  /\ requests[s] # Idle
             /\ requests'[s].op = requests[s].op /\ requests'[s].about = requests[s].about
             /\ requests'[s].behind = requests[s].behind \cup things
  BY <1>3, CommitsShape
<1>4. ASSUME NEW s \in Requests, requests'[s] # Idle, requests'[s].op \in {"recount", "take", "remove"}
      PROVE  FreshBatch(requests[s])'
  <2> DEFINE c == requests[s].about.batch
  <2>1. FreshBatch(requests[s])
    BY <1>3, <1>4 DEF FreezerInv
  <2>2. c \in InFreezer' \cup gone'
    BY <2>1 DEF FreshBatch
  <2>3. ASSUME c \notin requests'[s].behind
        PROVE  c \in InFreezer' /\ (requests'[s].op # "remove" => left'[c] = requests'[s].about.had)
    <3>1. c # b
      BY <1>3, <1>4, <2>1, <2>3 DEF FreshBatch
    <3>2. c \in InFreezer /\ (requests[s].op # "remove" => left[c] = requests[s].about.had)
      BY <1>3, <1>4, <2>1, <2>3 DEF FreshBatch
    <3> QED
      BY <1>3, <1>4, <3>1, <3>2
  <2> QED
    BY <1>3, <1>4, <2>2, <2>3 DEF FreshBatch
<1>5. ASSUME NEW s \in Requests, requests'[s] # Idle
      PROVE  /\ requests'[s].op \in {"add", "recount", "take"} => requests'[s].about.portions \in Nat \ {0}
             /\ requests'[s].op \in {"recount", "take"} => requests'[s].about.had \in Nat
  BY <1>3, <1>5 DEF FreezerInv
<1> QED
  BY <1>2, <1>4, <1>5 DEF FreezerInv

LEMMA RowGoesKeeps ==
    ASSUME Sessions, FreezerInv, NEW r \in Requests, NEW b, RowGoes(r, b)
    PROVE  FreezerInv'
<1>1. /\ left' = Without(left, b) /\ said' = Without(said, b) /\ gone' = gone \cup {b}
      /\ Commits(r, {b, "freezer"})
  BY DEF RowGoes
<1>2. /\ InFreezer' = InFreezer \ {b} /\ DOMAIN said' = DOMAIN said \ {b}
      /\ left' = [c \in InFreezer' |-> left'[c]] /\ said' = [c \in DOMAIN said' |-> said'[c]]
      /\ \A c \in InFreezer : c # b => left'[c] = left[c]
      /\ \A c \in DOMAIN said : c # b => said'[c] = said[c]
  BY <1>1 DEF Without, InFreezer
<1>3. /\ InFreezer' \subseteq Batches /\ InFreezer' \cap gone' = {}
      /\ InFreezer \cup gone \subseteq InFreezer' \cup gone'
      /\ \A c \in InFreezer' : left'[c] \in Nat
  BY <1>1, <1>2 DEF FreezerInv
<1>4. /\ \A c : c # b => (c \in InFreezer') = (c \in InFreezer) /\ (c \in DOMAIN said') = (c \in DOMAIN said)
      /\ (b \in InFreezer') = (b \in DOMAIN said') /\ b \notin InFreezer'
  BY <1>2
<1> QED
  BY <1>1, <1>2, <1>3, <1>4, FreezerCommit

LEMMA FreezerStepKeeps ==
    ASSUME Sessions, FreezerInv, NEW r \in Requests, FreezerStep(r)
    PROVE  FreezerInv'
<1>1. CASE CountBatches(r)
  <2>1. PICK portions \in 1..MaxPortions : Opens(r, "add", [portions |-> portions])
    BY <1>1 DEF CountBatches
  <2>2. /\ requests'[r].op = "add" /\ requests'[r].about = [portions |-> portions]
        /\ \A s \in Requests \ {r} : requests'[s] = requests[s]
        /\ torn' = torn
    BY <2>1, OpensShape
  <2>3. UNCHANGED freezerVars
    BY <1>1 DEF CountBatches
  <2>4. portions \in Nat \ {0}
    BY FreezerAssumption
  <2> QED
    BY <2>2, <2>3, <2>4, FreezerRead
<1>2. CASE AddBatch(r)
  <2>1. PICK b \in Batches \ (InFreezer \cup gone) :
          /\ left' = With(left, b, requests[r].about.portions)
          /\ said' = With(said, b, requests[r].about.portions)
    BY <1>2 DEF AddBatch
  <2>2. requests[r].about.portions \in Nat
    BY <1>2 DEF AddBatch, At, Idle, FreezerInv
  <2>3. Commits(r, {"freezer"}) /\ gone' = gone
    BY <1>2 DEF AddBatch
  <2>4. InFreezer' = InFreezer \cup {b} /\ DOMAIN said' = DOMAIN said \cup {b}
    BY <2>1 DEF With, InFreezer
  <2>5. left' = [c \in InFreezer' |-> left'[c]] /\ said' = [c \in DOMAIN said' |-> said'[c]]
    BY <2>1 DEF With, InFreezer
  <2>6. left'[b] = requests[r].about.portions /\ said'[b] = requests[r].about.portions
    BY <2>1 DEF With
  <2>7. /\ \A c \in InFreezer : c # b => left'[c] = left[c]
        /\ \A c \in DOMAIN said : c # b => said'[c] = said[c]
    BY <2>1 DEF With, InFreezer
  <2>8. InFreezer' \subseteq Batches /\ InFreezer' \cap gone' = {} /\ \A c \in InFreezer' : left'[c] \in Nat
    BY <2>1, <2>2, <2>3, <2>4, <2>6, <2>7 DEF FreezerInv
  <2>9. InFreezer \cup gone \subseteq InFreezer' \cup gone' /\ b \notin InFreezer \cup gone
    BY <2>1, <2>3, <2>4
  <2>10. \A c : c # b => (c \in InFreezer') = (c \in InFreezer) /\ (c \in DOMAIN said') = (c \in DOMAIN said)
    BY <2>4
  <2>11. (b \in InFreezer') = (b \in DOMAIN said')
    BY <2>4
  <2> QED
    BY <2>3, <2>5, <2>6, <2>7, <2>8, <2>9, <2>10, <2>11, FreezerCommit
<1>3. CASE GetItem(r)
  <2>1. PICK b \in InFreezer, portions \in 1..MaxPortions :
          \/ \E op \in {"recount", "take"} :
                Opens(r, op, [batch |-> b, had |-> left[b], portions |-> portions])
          \/ portions = 1 /\ Opens(r, "remove", [batch |-> b])
    BY <1>3 DEF GetItem
  <2>2. UNCHANGED freezerVars
    BY <1>3 DEF GetItem
  <2>3. left' = left /\ InFreezer' = InFreezer
    BY <2>2 DEF freezerVars, InFreezer
  <2>4. portions \in Nat \ {0} /\ left[b] \in Nat
    BY FreezerAssumption DEF FreezerInv
  <2>5. CASE \E op \in {"recount", "take"} :
                Opens(r, op, [batch |-> b, had |-> left[b], portions |-> portions])
    <3>1. PICK op \in {"recount", "take"} :
                Opens(r, op, [batch |-> b, had |-> left[b], portions |-> portions])
      BY <2>5
    <3>2. /\ requests'[r].op = op
          /\ requests'[r].about = [batch |-> b, had |-> left[b], portions |-> portions]
          /\ \A s \in Requests \ {r} : requests'[s] = requests[s]
          /\ torn' = torn
      BY <3>1, OpensShape
    <3>3. FreshBatch(requests[r])'
      BY <2>3, <3>2 DEF FreshBatch
    <3> QED
      BY <2>2, <2>4, <3>2, <3>3, FreezerRead
  <2>6. CASE Opens(r, "remove", [batch |-> b])
    <3>1. /\ requests'[r].op = "remove" /\ requests'[r].about = [batch |-> b]
          /\ \A s \in Requests \ {r} : requests'[s] = requests[s]
          /\ torn' = torn
      BY <2>6, OpensShape
    <3>2. FreshBatch(requests[r])'
      BY <2>3, <3>1 DEF FreshBatch
    <3> QED
      BY <2>2, <3>1, <3>2, FreezerRead
  <2> QED
    BY <2>1, <2>5, <2>6
<1>4. CASE Recount(r)
  <2> DEFINE q == requests[r].about
             b == q.batch
  <2>1. /\ requests[r] # Idle /\ requests[r].op = "recount"
        /\ Update(q, q.portions) /\ Commits(r, {b}) /\ gone' = gone
        /\ said' = IF b \in DOMAIN said THEN With(said, b, q.portions) ELSE said
    BY <1>4 DEF Recount, At, Idle
  <2>2. FreshBatch(requests[r]) /\ q.portions \in Nat
    BY <2>1 DEF FreezerInv
  <2>3. DOMAIN said' = DOMAIN said /\ said' = [c \in DOMAIN said' |-> said'[c]]
        /\ (b \in DOMAIN said => said'[b] = q.portions)
        /\ \A c \in DOMAIN said : c # b => said'[c] = said[c]
    BY <2>1 DEF With, FreezerInv
  <2>4. /\ InFreezer' = InFreezer /\ left' = [c \in InFreezer' |-> left'[c]]
        /\ \A c \in InFreezer : c # b => left'[c] = left[c]
        /\ left' # left => left'[b] = q.portions
        /\ left' = left => q.portions = q.had \/ left'[b] = q.portions
    <3>1. CASE left' = left /\ q.portions = q.had
      BY <3>1 DEF InFreezer, FreezerInv
    <3>2. CASE b \in InFreezer /\ left' = With(left, b, q.portions)
      BY <3>2 DEF With, InFreezer
    <3> QED
      BY <2>1, <3>1, <3>2 DEF Update
  <2>5. ASSUME b \notin torn' PROVE /\ (b \in InFreezer') = (b \in DOMAIN said')
                                    /\ b \in InFreezer' => left'[b] = said'[b]
    <3>1. b \notin torn /\ b \notin requests[r].behind
      BY <2>1, <2>5, CommitsShape
    <3>2. b \in InFreezer /\ left[b] = q.had
      BY <2>1, <2>2, <3>1 DEF FreshBatch
    <3>3. left'[b] = q.portions
      BY <2>4, <3>2
    <3> QED
      BY <2>3, <2>4, <3>1, <3>2, <3>3 DEF FreezerInv, LeftIsAsSaid
  <2>6. InFreezer' \subseteq Batches /\ \A c \in InFreezer' : left'[c] \in Nat
    BY <2>2, <2>4 DEF FreezerInv
  <2>7. InFreezer' \cap gone' = {}
    BY <2>1, <2>4 DEF FreezerInv
  <2>8. InFreezer \cup gone \subseteq InFreezer' \cup gone'
    BY <2>1, <2>4
  <2>9. \A c : c # b => /\ (c \in InFreezer') = (c \in InFreezer)
                        /\ (c \in DOMAIN said') = (c \in DOMAIN said)
                        /\ c \in InFreezer => left'[c] = left[c]
                        /\ c \in DOMAIN said => said'[c] = said[c]
    BY <2>3, <2>4
  <2>10. left' = [c \in InFreezer' |-> left'[c]] /\ said' = [c \in DOMAIN said' |-> said'[c]]
    BY <2>3, <2>4
  <2>11. Commits(r, {b}) /\ b \in {b}
    BY <2>1
  <2> HIDE DEF b, q
  <2> QED
    BY <2>5, <2>6, <2>7, <2>8, <2>9, <2>10, <2>11, FreezerCommit
<1>5. CASE TakePortions(r)
  <2> DEFINE q == requests[r].about
             b == q.batch
             remaining == Remaining(q.had, q.portions)
  <2>1. requests[r] # Idle /\ requests[r].op = "take"
    BY <1>5 DEF TakePortions, At, Idle
  <2>2. FreshBatch(requests[r]) /\ q.portions \in Nat \ {0} /\ q.had \in Nat
    BY <2>1 DEF FreezerInv
  <2>3. CASE RowGoes(r, b)
    BY <2>2, <2>3, RowGoesKeeps
  <2>4. CASE /\ remaining > 0
             /\ Update(q, remaining)
             /\ said' = IF b \in DOMAIN said /\ said[b] > q.portions
                        THEN With(said, b, said[b] - q.portions)
                        ELSE Without(said, b)
             /\ Commits(r, {b})
             /\ UNCHANGED gone
    <3>1. remaining = q.had - q.portions /\ q.had > q.portions /\ remaining \in Nat /\ remaining # q.had
      BY <2>2, <2>4 DEF Remaining
    <3> HIDE DEF remaining
    <3>2. b \in InFreezer /\ left' = With(left, b, remaining)
      BY <2>4, <3>1 DEF Update
    <3>3. /\ InFreezer' = InFreezer /\ left' = [c \in InFreezer' |-> left'[c]] /\ left'[b] = remaining
          /\ \A c \in InFreezer : c # b => left'[c] = left[c]
      BY <3>2 DEF With, InFreezer
    <3>4. /\ said' = [c \in DOMAIN said' |-> said'[c]]
          /\ \A c : c # b => /\ (c \in DOMAIN said') = (c \in DOMAIN said)
                             /\ c \in DOMAIN said => said'[c] = said[c]
          /\ b \in DOMAIN said /\ said[b] > q.portions => b \in DOMAIN said' /\ said'[b] = said[b] - q.portions
      <4>1. PICK c : c = b
        OBVIOUS
      <4>2. PICK n : n = q.portions
        OBVIOUS
      <4>3. said' = IF c \in DOMAIN said /\ said[c] > n THEN With(said, c, said[c] - n) ELSE Without(said, c)
        BY <2>4, <4>1, <4>2
      <4>4. /\ said' = [d \in DOMAIN said' |-> said'[d]]
            /\ \A d : d # c => (d \in DOMAIN said') = (d \in DOMAIN said) /\ (d \in DOMAIN said => said'[d] = said[d])
            /\ c \in DOMAIN said /\ said[c] > n => c \in DOMAIN said' /\ said'[c] = said[c] - n
        BY <4>3, ToldAfter
      <4> HIDE DEF q, b
      <4> QED
        BY <4>1, <4>2, <4>4
    <3>5. ASSUME b \notin torn' PROVE /\ (b \in InFreezer') = (b \in DOMAIN said')
                                      /\ b \in InFreezer' => left'[b] = said'[b]
      <4>1. b \notin torn /\ b \notin requests[r].behind
        BY <2>4, <3>5, CommitsShape
      <4>2. left[b] = q.had /\ b \in Batches
        BY <2>1, <2>2, <4>1 DEF FreshBatch, FreezerInv
      <4>3. b \in DOMAIN said /\ said[b] = q.had
        BY <3>2, <4>1, <4>2 DEF FreezerInv, LeftIsAsSaid
      <4>4. b \in DOMAIN said' /\ said'[b] = q.had - q.portions
        BY <3>1, <3>4, <4>3
      <4> QED
        BY <3>1, <3>2, <3>3, <4>4
    <3>6. InFreezer' \subseteq Batches /\ \A c \in InFreezer' : left'[c] \in Nat
      BY <3>1, <3>3 DEF FreezerInv
    <3>7. InFreezer' \cap gone' = {} /\ InFreezer \cup gone \subseteq InFreezer' \cup gone'
      BY <2>4, <3>3 DEF FreezerInv
    <3>8. \A c : c # b => /\ (c \in InFreezer') = (c \in InFreezer)
                          /\ (c \in DOMAIN said') = (c \in DOMAIN said)
                          /\ c \in InFreezer => left'[c] = left[c]
                          /\ c \in DOMAIN said => said'[c] = said[c]
      BY <3>3, <3>4
    <3>9. Commits(r, {b}) /\ b \in {b}
      BY <2>4
    <3>10. left' = [c \in InFreezer' |-> left'[c]] /\ said' = [c \in DOMAIN said' |-> said'[c]]
      BY <3>3, <3>4
    <3> HIDE DEF b, q
    <3> QED
      BY <3>5, <3>6, <3>7, <3>8, <3>9, <3>10, FreezerCommit
  <2> QED
    BY <1>5, <2>3, <2>4 DEF TakePortions
<1>6. CASE RemoveFromFreezer(r)
  <2>1. requests[r] # Idle /\ requests[r].op = "remove" /\ RowGoes(r, requests[r].about.batch)
    BY <1>6 DEF RemoveFromFreezer, At, Idle
  <2>2. FreshBatch(requests[r])
    BY <2>1 DEF FreezerInv
  <2> QED
    BY <2>1, <2>2, RowGoesKeeps
<1> QED
  BY <1>1, <1>2, <1>3, <1>4, <1>5, <1>6 DEF FreezerStep

-----------------------------------------------------------------------------
(* The supermarkets. *)
LEMMA SupermarketRead ==
    ASSUME SupermarketsInv, UNCHANGED supermarketVars, torn' = torn, NEW r \in Requests,
           \A s \in Requests \ {r} : requests'[s] # Idle => requests'[s] = requests[s],
           requests'[r] # Idle /\ requests'[r].op \in {"create", "patch"} => Asked(requests[r])'
    PROVE  SupermarketsInv'
<1>1. markets' = markets /\ chosen' = chosen /\ Markets' = Markets /\ Active' = Active
  BY DEF supermarketVars, Markets, Active
<1>2. ASSUME NEW s \in Requests, requests'[s] # Idle, requests'[s].op \in {"create", "patch"}
      PROVE  Asked(requests[s])'
  <2>1. CASE s # r
    <3>1. requests'[s] = requests[s] /\ Asked(requests[s])
      BY <1>2, <2>1 DEF SupermarketsInv
    <3> QED
      BY <1>1, <3>1 DEF Asked, FreshChoice
  <2>2. CASE s = r
    BY <1>2, <2>2
  <2> QED
    BY <2>1, <2>2
<1> QED
  BY <1>1, <1>2 DEF SupermarketsInv, ActiveIsAsChosen

(* A commit says that it is about the choice, or leaves every flag as it is. *)
LEMMA SupermarketCommit ==
    ASSUME Sessions, SupermarketsInv, NEW r \in Requests, NEW things, Commits(r, things),
           markets' \in [Markets' -> [name : Names, active : BOOLEAN]],
           \/ "active" \in things
           \/ /\ Markets \subseteq Markets' /\ Active' = Active
              /\ \A s \in Markets : markets'[s].active = markets[s].active,
           "active" \notin torn' => Active' = chosen'
    PROVE  SupermarketsInv'
<1>1. ASSUME NEW s \in Requests, requests'[s] # Idle, requests'[s].op \in {"create", "patch"}
      PROVE  Asked(requests[s])'
  <2>1. /\ requests[s] # Idle
        /\ requests'[s].phase = requests[s].phase /\ requests'[s].op = requests[s].op
        /\ requests'[s].about = requests[s].about
        /\ requests'[s].behind = requests[s].behind \cup things
    BY <1>1, CommitsShape
  <2>2. Asked(requests[s])
    BY <1>1, <2>1 DEF SupermarketsInv
  <2>3. FreshChoice(requests[s])'
    BY <2>1, <2>2 DEF Asked, FreshChoice
  <2> QED
    BY <2>1, <2>2, <2>3 DEF Asked
<1> QED
  BY <1>1 DEF SupermarketsInv, ActiveIsAsChosen

LEMMA OffShape ==
    ASSUME markets \in [Markets -> [name : Names, active : BOOLEAN]], NEW stores
    PROVE  \A s \in Markets :
              /\ Off(markets, stores)[s] \in [name : Names, active : BOOLEAN]
              /\ Off(markets, stores)[s].name = markets[s].name
              /\ s \in stores => ~Off(markets, stores)[s].active
              /\ s \notin stores => Off(markets, stores)[s] = markets[s]
BY DEF Off, Markets

LEMMA CreateSupermarketKeeps ==
    ASSUME Sessions, SupermarketsInv, NEW r \in Requests, CreateSupermarket(r)
    PROVE  SupermarketsInv'
<1> DEFINE q == requests[r].about
           things == {"stores", "names"} \cup IF q.active THEN {"active"} ELSE {}
<1>1. requests[r].op = "create" /\ Ready(r) /\ requests[r] # Idle
  BY DEF CreateSupermarket, Idle
<1>2. Asked(requests[r])
  BY <1>1 DEF SupermarketsInv
<1>3. PICK new \in Stores \ (Markets \cup closed) :
        /\ markets' = [s \in Markets \cup {new} |->
                IF s = new THEN [name |-> q.name, active |-> q.active] ELSE Off(markets, q.off)[s]]
        /\ chosen' = IF q.active THEN {new} ELSE chosen
  BY DEF CreateSupermarket
<1>4. Commits(r, things) /\ torn' = torn \cup (things \cap requests[r].behind)
  <2>1. Commits(r, things)
    BY DEF CreateSupermarket
  <2> QED
    BY <2>1, CommitsShape
<1>5. markets \in [Markets -> [name : Names, active : BOOLEAN]]
  BY DEF SupermarketsInv
<1>6. Markets' = Markets \cup {new} /\ markets'[new] = [name |-> q.name, active |-> q.active]
      /\ \A s \in Markets : markets'[s] = Off(markets, q.off)[s]
  BY <1>3 DEF Markets
<1>7. markets' \in [Markets' -> [name : Names, active : BOOLEAN]]
  <2>1. \A s \in Markets' : markets'[s] \in [name : Names, active : BOOLEAN]
    BY <1>2, <1>5, <1>6, OffShape DEF Asked
  <2> QED
    BY <1>3, <1>6, <2>1
<1>8. CASE q.active
  <2>1. "active" \in things
    BY <1>8
  <2>2. ASSUME "active" \notin torn' PROVE Active' = chosen'
    <3>1. q.off = Active
      BY <1>1, <1>2, <1>4, <1>8, <2>1, <2>2 DEF Asked, FreshChoice, Ready
    <3>2. \A s \in Markets : ~markets'[s].active
      <4> TAKE s \in Markets
      <4>1. markets'[s] = Off(markets, q.off)[s]
        BY <1>6
      <4>2. CASE s \in q.off
        BY <1>5, <4>1, <4>2, OffShape
      <4>3. CASE s \notin q.off
        <5>1. ~markets[s].active
          BY <3>1, <4>3 DEF Active
        <5> QED
          BY <1>5, <4>1, <4>3, <5>1, OffShape
      <4> QED
        BY <4>2, <4>3
    <3>3. markets'[new].active
      BY <1>6, <1>8
    <3> QED
      BY <1>3, <1>6, <1>8, <3>2, <3>3 DEF Active
  <2> HIDE DEF things
  <2> QED
    BY <1>4, <1>7, <2>1, <2>2, SupermarketCommit
<1>9. CASE ~q.active
  <2>1. q.off = {}
    BY <1>1, <1>2, <1>9 DEF Asked, Ready
  <2>2. \A s \in Markets : markets'[s] = markets[s]
    BY <1>5, <1>6, <2>1, OffShape
  <2>3. Active' = Active
    <3>1. ~markets'[new].active
      BY <1>6, <1>9
    <3> QED
      BY <1>3, <1>6, <2>2, <3>1 DEF Active
  <2>4. "active" \notin torn' => Active' = chosen'
    BY <1>3, <1>4, <1>9, <2>3 DEF SupermarketsInv, ActiveIsAsChosen
  <2> HIDE DEF things
  <2> QED
    BY <1>4, <1>6, <1>7, <2>2, <2>3, <2>4, SupermarketCommit
<1> QED
  BY <1>8, <1>9

LEMMA UpdateSupermarketKeeps ==
    ASSUME Sessions, SupermarketsInv, NEW r \in Requests, UpdateSupermarket(r)
    PROVE  SupermarketsInv'
<1> DEFINE q == requests[r].about
           renamed == q.name # q.had
           flipped == q.active # q.was
           others == Off(markets, q.off)
           things == (IF renamed THEN {"names"} ELSE {}) \cup IF q.switch THEN {"active"} ELSE {}
<1>1. requests[r].op = "patch" /\ Ready(r) /\ requests[r] # Idle
  BY DEF UpdateSupermarket, Idle
<1>2. Asked(requests[r])
  BY <1>1 DEF SupermarketsInv
<1>3. /\ markets' = [s \in Markets |->
            IF s \in q.store
            THEN [name |-> IF renamed THEN q.name ELSE others[s].name,
                  active |-> IF flipped THEN q.active ELSE others[s].active]
            ELSE others[s]]
      /\ chosen' = IF ~q.switch THEN chosen ELSE IF q.active THEN q.store ELSE chosen \ q.store
  BY DEF UpdateSupermarket
<1>4. Commits(r, things) /\ torn' = torn \cup (things \cap requests[r].behind)
  <2>1. Commits(r, things)
    BY DEF UpdateSupermarket
  <2> QED
    BY <2>1, CommitsShape
<1>5. markets \in [Markets -> [name : Names, active : BOOLEAN]]
  BY DEF SupermarketsInv
<1>6. /\ Markets' = Markets
      /\ \A s \in Markets : s \in q.store =>
            /\ markets'[s].active = IF flipped THEN q.active ELSE others[s].active
            /\ markets'[s] \in [name : Names, active : BOOLEAN]
      /\ \A s \in Markets \ q.store : markets'[s] = others[s]
  <2>1. Markets' = Markets
    BY <1>3 DEF Markets
  <2>2. ASSUME NEW s \in Markets, s \in q.store
        PROVE  /\ markets'[s].active = IF flipped THEN q.active ELSE others[s].active
               /\ markets'[s] \in [name : Names, active : BOOLEAN]
    <3>1. markets'[s] = [name |-> IF renamed THEN q.name ELSE others[s].name,
                         active |-> IF flipped THEN q.active ELSE others[s].active]
      BY <1>3, <2>2
    <3>2. others[s].name \in Names /\ others[s].active \in BOOLEAN
      BY <1>5, OffShape
    <3> HIDE DEF others
    <3> QED
      BY <1>2, <3>1, <3>2 DEF Asked
  <2> QED
    BY <1>3, <2>1, <2>2
<1>7. markets' \in [Markets' -> [name : Names, active : BOOLEAN]]
  <2>1. \A s \in Markets' : markets'[s] \in [name : Names, active : BOOLEAN]
    BY <1>5, <1>6, OffShape
  <2> QED
    BY <1>3, <1>6, <2>1
<1>8. CASE q.switch
  <2>1. "active" \in things
    BY <1>8
  <2>2. ASSUME "active" \notin torn' PROVE Active' = chosen'
    <3>1. /\ "active" \notin torn /\ Active = chosen
          /\ q.store \subseteq Markets /\ \A s \in q.store : markets[s].active = q.was
          /\ requests[r].phase = "deactivated" => q.off = Active \ q.store
      BY <1>2, <1>4, <2>1, <2>2 DEF Asked, FreshChoice, SupermarketsInv, ActiveIsAsChosen
    <3>2. q.off \cap q.store = {}
      BY <1>1, <1>2, <3>1 DEF Asked, Ready
    <3>3. \A s \in q.store : markets'[s].active = q.active
      <4> SUFFICES ASSUME NEW s \in q.store PROVE markets'[s].active = q.active
        OBVIOUS
      <4>1. others[s].active = q.was
        BY <1>5, <3>1, <3>2, OffShape
      <4> QED
        BY <1>6, <3>1, <4>1
    <3>4. CASE q.active
      <4>1. q.off = Active \ q.store
        BY <1>1, <1>8, <3>1, <3>4 DEF Ready
      <4>2. \A s \in Markets \ q.store : ~markets'[s].active
        <5> SUFFICES ASSUME NEW s \in Markets \ q.store PROVE ~markets'[s].active
          OBVIOUS
        <5>1. CASE s \in q.off
          BY <1>5, <1>6, <5>1, OffShape
        <5>2. CASE s \notin q.off
          <6>1. markets'[s] = markets[s]
            BY <1>5, <1>6, <5>2, OffShape
          <6> QED
            BY <4>1, <5>2, <6>1 DEF Active
        <5> QED
          BY <5>1, <5>2
      <4>3. Active' = q.store
        BY <1>6, <3>1, <3>3, <3>4, <4>2 DEF Active
      <4> QED
        BY <1>3, <1>8, <3>4, <4>3
    <3>5. CASE ~q.active
      <4>1. q.off = {}
        BY <1>1, <1>2, <3>5 DEF Asked, Ready
      <4>2. \A s \in Markets \ q.store : markets'[s] = markets[s]
        BY <1>5, <1>6, <4>1, OffShape
      <4>3. Active' = Active \ q.store
        BY <1>6, <3>3, <3>5, <4>2 DEF Active
      <4> QED
        BY <1>3, <1>8, <3>1, <3>5, <4>3
    <3> QED
      BY <3>4, <3>5
  <2> HIDE DEF things
  <2> QED
    BY <1>4, <1>7, <2>1, <2>2, SupermarketCommit
<1>9. CASE ~q.switch
  <2>1. q.off = {} /\ ~flipped
    BY <1>1, <1>2, <1>9 DEF Asked, Ready
  <2>2. \A s \in Markets : markets'[s].active = markets[s].active
    <3> SUFFICES ASSUME NEW s \in Markets PROVE markets'[s].active = markets[s].active
      OBVIOUS
    <3>1. others[s] = markets[s]
      BY <1>5, <2>1, OffShape
    <3> QED
      BY <1>6, <2>1, <3>1
  <2>3. Active' = Active
    BY <1>6, <2>2 DEF Active
  <2>4. "active" \notin torn' => Active' = chosen'
    BY <1>3, <1>4, <1>9, <2>3 DEF SupermarketsInv, ActiveIsAsChosen
  <2> HIDE DEF things
  <2> QED
    BY <1>4, <1>6, <1>7, <2>2, <2>3, <2>4, SupermarketCommit
<1> QED
  BY <1>8, <1>9

LEMMA SupermarketStepKeeps ==
    ASSUME Sessions, SupermarketsInv, NEW r \in Requests, SupermarketStep(r)
    PROVE  SupermarketsInv'
<1>1. CASE AskCreate(r)
  <2>1. PICK name \in Names, active \in BOOLEAN :
          Opens(r, "create", [store |-> {}, name |-> name, had |-> "none", active |-> active, was |-> FALSE,
                              switch |-> active, off |-> {}])
    BY <1>1 DEF AskCreate
  <2>2. /\ requests'[r].op = "create" /\ requests'[r].phase = "open"
        /\ requests'[r].about = [store |-> {}, name |-> name, had |-> "none", active |-> active,
                                 was |-> FALSE, switch |-> active, off |-> {}]
        /\ \A s \in Requests \ {r} : requests'[s] = requests[s]
        /\ torn' = torn
    BY <2>1, OpensShape
  <2>3. Asked(requests[r])'
    BY <2>2 DEF Asked, FreshChoice
  <2> QED
    BY <1>1, <2>2, <2>3, SupermarketRead DEF AskCreate
<1>2. CASE CreateSupermarket(r)
  BY <1>2, CreateSupermarketKeeps
<1>3. CASE GetMarket(r)
  <2>1. UNCHANGED supermarketVars
    BY <1>3 DEF GetMarket
  <2>2. Markets' = Markets /\ markets' = markets
    BY <2>1 DEF supermarketVars, Markets
  <2>3. CASE \E s \in Markets, name \in Names, active, switch \in BOOLEAN :
                /\ ~switch => active = markets[s].active
                /\ Opens(r, "patch", [store |-> {s}, name |-> name, had |-> markets[s].name, active |-> active,
                                      was |-> markets[s].active, switch |-> switch, off |-> {}])
    <3>1. PICK s \in Markets, name \in Names, active \in BOOLEAN, switch \in BOOLEAN :
                /\ ~switch => active = markets[s].active
                /\ Opens(r, "patch", [store |-> {s}, name |-> name, had |-> markets[s].name, active |-> active,
                                      was |-> markets[s].active, switch |-> switch, off |-> {}])
      BY <2>3
    <3>2. /\ requests'[r].op = "patch" /\ requests'[r].phase = "open"
          /\ requests'[r].about = [store |-> {s}, name |-> name, had |-> markets[s].name, active |-> active,
                                   was |-> markets[s].active, switch |-> switch, off |-> {}]
          /\ \A x \in Requests \ {r} : requests'[x] = requests[x]
          /\ torn' = torn
      BY <3>1, OpensShape
    <3>3. markets[s].active \in BOOLEAN
      BY DEF SupermarketsInv
    <3>4. Asked(requests[r])'
      BY <2>2, <3>1, <3>2, <3>3 DEF Asked, FreshChoice
    <3> QED
      BY <2>1, <3>2, <3>4, SupermarketRead
  <2>4. CASE \E s \in Markets : Opens(r, "close", [store |-> {s}])
    <3>1. /\ requests'[r].op = "close"
          /\ \A x \in Requests \ {r} : requests'[x] = requests[x]
          /\ torn' = torn
      BY <2>4, OpensShape
    <3> QED
      BY <2>1, <3>1, SupermarketRead
  <2> QED
    BY <1>3, <2>3, <2>4 DEF GetMarket
<1>4. CASE DeactivateAll(r)
  <2> DEFINE q == requests[r].about
             about == [q EXCEPT !.off = Active \ q.store]
  <2>1. /\ requests[r].op \in {"create", "patch"} /\ requests[r].phase = "open" /\ requests[r] # Idle
        /\ q.switch /\ q.active /\ GoesOn(r, "deactivated", about)
        /\ UNCHANGED supermarketVars
    BY <1>4 DEF DeactivateAll, At, Idle
  <2>2. Asked(requests[r])
    BY <2>1 DEF SupermarketsInv
  <2>3. /\ requests'[r].op = requests[r].op /\ requests'[r].phase = "deactivated"
        /\ requests'[r].about = about /\ requests'[r].behind = requests[r].behind
        /\ \A x \in Requests \ {r} : requests'[x] = requests[x]
        /\ torn' = torn
    BY <2>1, GoesOnShape
  <2>4. about = [store |-> q.store, name |-> q.name, had |-> q.had, active |-> q.active,
                 was |-> q.was, switch |-> q.switch, off |-> Active \ q.store]
    <3>1. PICK p1, p2, p3, p4, p5, p6, p7 :
            q = [store |-> p1, name |-> p2, had |-> p3, active |-> p4, was |-> p5, switch |-> p6, off |-> p7]
      BY <2>2 DEF Asked
    <3> QED
      BY <3>1
  <2>5. Markets' = Markets /\ markets' = markets /\ Active' = Active
    BY <2>1 DEF supermarketVars, Markets, Active
  <2> HIDE DEF about
  <2>6. /\ about.store = q.store /\ about.name = q.name /\ about.had = q.had /\ about.active = q.active
        /\ about.was = q.was /\ about.switch = q.switch /\ about.off = Active \ q.store
    BY <2>4
  <2>7. Asked(requests[r])'
    <3>1. PICK p : p = requests'[r]
      OBVIOUS
    <3>2. p.about = [store |-> p.about.store, name |-> p.about.name, had |-> p.about.had,
                     active |-> p.about.active, was |-> p.about.was, switch |-> p.about.switch,
                     off |-> p.about.off]
      BY <2>3, <2>4, <2>6, <3>1
    <3>3. FreshChoice(p)'
      BY <2>2, <2>3, <2>5, <2>6, <3>1 DEF Asked, FreshChoice
    <3>4. Asked(p)'
      BY <2>2, <2>3, <2>6, <3>1, <3>2, <3>3 DEF Asked
    <3> QED
      BY <3>1, <3>4
  <2> QED
    BY <2>1, <2>3, <2>7, SupermarketRead
<1>5. CASE UpdateSupermarket(r)
  BY <1>5, UpdateSupermarketKeeps
<1>6. CASE DeleteSupermarket(r)
  <2> DEFINE store == requests[r].about.store
  <2>1. /\ markets' = [s \in Markets \ store |-> markets[s]] /\ chosen' = chosen \ store
        /\ Commits(r, {"stores", "active", "names"})
    BY <1>6 DEF DeleteSupermarket
  <2>2. Markets' = Markets \ store /\ \A s \in Markets \ store : markets'[s] = markets[s]
    BY <2>1 DEF Markets
  <2>3. markets' \in [Markets' -> [name : Names, active : BOOLEAN]]
    BY <2>1, <2>2 DEF SupermarketsInv
  <2>4. Active' = Active \ store
    BY <2>2 DEF Active
  <2>5. "active" \notin torn' => Active' = chosen'
    <3>1. torn \subseteq torn'
      BY <2>1, CommitsShape
    <3> QED
      BY <2>1, <2>4, <3>1 DEF SupermarketsInv, ActiveIsAsChosen
  <2> QED
    BY <2>1, <2>3, <2>5, SupermarketCommit
<1> QED
  BY <1>1, <1>2, <1>3, <1>4, <1>5, <1>6 DEF SupermarketStep

-----------------------------------------------------------------------------
(* The live list. *)
Statuses == {"active", "archived"}

LEMMA MadeShape ==
    ASSUME lists \in Seq(Statuses)
    PROVE  Len(lists) \in Nat /\ Made = 1..Len(lists) /\ Cardinality(Made) = Len(lists)
<1>1. Len(lists) \in Nat /\ Made = 1..Len(lists)
  BY DEF Made
<1> QED
  BY <1>1, FS_Interval

LEMMA WithListsShape ==
    ASSUME lists \in Seq(Statuses), NEW n \in Nat, NEW status \in Statuses
    PROVE  /\ WithLists(n, status) \in Seq(Statuses)
           /\ DOMAIN WithLists(n, status) = 1..(Len(lists) + n)
           /\ \A l \in 1..(Len(lists) + n) :
                 WithLists(n, status)[l] = IF l \in Made THEN lists[l] ELSE status
<1>1. Len(lists) \in Nat /\ Made = 1..Len(lists) /\ Cardinality(Made) = Len(lists)
  BY MadeShape
<1> DEFINE m == Len(lists) + n
<1>2. m \in Nat
  BY <1>1
<1>3. WithLists(n, status) = [l \in 1..m |-> IF l \in Made THEN lists[l] ELSE status]
  BY <1>1 DEF WithLists
<1>4. \A l \in 1..m : (IF l \in Made THEN lists[l] ELSE status) \in Statuses
  BY <1>1
<1> HIDE DEF m
<1>5. [l \in 1..m |-> IF l \in Made THEN lists[l] ELSE status] \in Seq(Statuses)
  BY <1>2, <1>4
<1> QED
  BY <1>3, <1>5 DEF m

LEMMA ActiveListShape ==
    ASSUME Lists, "live" \notin torn
    PROVE  /\ ActiveList \in Made \cup {NewList}
           /\ Live = IF ActiveList = NewList THEN {} ELSE {ActiveList}
<1>1. Live \subseteq Made /\ Made = 1..Len(lists) /\ Len(lists) \in Nat
  BY MadeShape DEF Live, Lists, Statuses
<1>2. CASE Live = {}
  BY <1>2 DEF ActiveList
<1>3. CASE Live # {}
  <2>1. PICK x \in Live : Live = {x}
    BY <1>3 DEF Lists
  <2>2. x \in Nat /\ x # 0 /\ x \in Made
    BY <1>1
  <2>3. Oldest = x
    BY <2>1, <2>2 DEF Oldest
  <2> QED
    BY <1>3, <2>1, <2>2, <2>3 DEF ActiveList, NewList
<1> QED
  BY <1>2, <1>3

(* What a request knows, of the lists and the lines as they are. *)
Knows(q) ==
    /\ q.op \in {"look", "archive", "put"} =>
          /\ Calm => q.about.list \in Made \cup {NewList}
          /\ FreshList(q)
    /\ q.op = "put" /\ q.phase = "found" =>
          /\ q.about.known \in BOOLEAN /\ q.about.fresh \in BOOLEAN
          /\ FreshItem(q)

LEMMA LiveListInvSays ==
    LiveListInv <=> Lists /\ Lines /\ \A r \in Requests : requests[r] # Idle => Knows(requests[r])
BY DEF LiveListInv, Knows, Takes

LEMMA LiveListRead ==
    ASSUME LiveListInv, UNCHANGED liveListVars, torn' = torn, NEW r \in Requests,
           \A s \in Requests \ {r} : requests'[s] # Idle => requests'[s] = requests[s],
           NEW q, requests'[r] # Idle => requests'[r] = q /\ Knows(q)
    PROVE  LiveListInv'
<1>1. lists' = lists /\ lines' = lines /\ sources' = sources
  BY DEF liveListVars
<1>2. /\ Calm' = Calm /\ Made' = Made /\ Live' = Live
      /\ \A l : OnList(l)' = OnList(l) /\ SourcesOn(l)' = SourcesOn(l)
  BY <1>1 DEF Calm, Made, Live, OnList, SourcesOn
<1>3. ASSUME NEW p, Knows(p) PROVE Knows(p)'
  BY <1>2, <1>3 DEF Knows, FreshList, FreshItem
<1>4. ASSUME NEW s \in Requests, requests'[s] # Idle PROVE Knows(requests[s])'
  <2>1. PICK p : p = requests'[s]
    OBVIOUS
  <2>2. Knows(p)
    BY <1>4, <2>1, LiveListInvSays
  <2>3. Knows(p)'
    BY <1>3, <2>2
  <2> QED
    BY <2>1, <2>3 DEF Knows, FreshList, FreshItem
<1>5. Lists' /\ Lines'
  BY <1>1, <1>2 DEF LiveListInv, Lists, Lines, OneLinePerNeed, Calm
<1> QED
  BY <1>4, <1>5 DEF LiveListInv, Knows, Takes

LEMMA LiveListCommit ==
    ASSUME Sessions, LiveListInv, NEW r \in Requests, NEW things, Commits(r, things),
           Lists', Lines', Made \subseteq Made',
           "live" \in things \/ Live' = Live,
           "lines" \in things \/ (lines' = lines /\ sources' = sources)
    PROVE  LiveListInv'
<1>1. torn' = torn \cup (things \cap requests[r].behind)
  BY CommitsShape
<1>2. Calm' => Calm
  BY <1>1 DEF Calm
<1>3. ASSUME NEW s \in Requests, requests'[s] # Idle PROVE Knows(requests[s])'
  <2>1. PICK p : p = requests[s]
    OBVIOUS
  <2>2. PICK q : q = requests'[s]
    OBVIOUS
  <2>3. /\ p # Idle /\ q.phase = p.phase /\ q.op = p.op /\ q.about = p.about
        /\ q.behind = p.behind \cup things
    BY <1>3, <2>1, <2>2, CommitsShape
  <2>4. Knows(p)
    BY <2>1, <2>3, LiveListInvSays
  <2>5. FreshList(p) => FreshList(q)'
    BY <1>1, <2>3 DEF FreshList
  <2>6. FreshItem(p) => FreshItem(q)'
    <3>1. CASE "lines" \in things
      BY <2>3, <3>1 DEF FreshItem
    <3>2. CASE lines' = lines /\ sources' = sources
      <4>1. \A l : OnList(l)' = OnList(l) /\ SourcesOn(l)' = SourcesOn(l)
        BY <3>2 DEF OnList, SourcesOn
      <4> QED
        BY <1>2, <2>3, <4>1 DEF FreshItem
    <3> QED
      BY <3>1, <3>2
  <2>7. Knows(q)'
    BY <1>2, <2>3, <2>4, <2>5, <2>6 DEF Knows
  <2> QED
    BY <2>2, <2>7 DEF Knows, FreshList, FreshItem
<1> QED
  BY <1>3 DEF LiveListInv, Knows, Takes

(* Lines that are only taken away, and lists that are only added. *)
LEMMA LinesKept ==
    ASSUME Lines, lines' \subseteq lines, sources' \subseteq sources, torn \subseteq torn',
           Made \subseteq Made', \A s \in sources' : \E x \in lines' : x.id = s.line
    PROVE  Lines'
<1>1. Calm' => Calm
  BY DEF Calm
<1>2. Calm' => \A x \in lines' : x.list \in Made'
  BY <1>1 DEF Lines
<1>3. \A l : OnList(l)' \subseteq OnList(l) /\ SourcesOn(l)' \subseteq SourcesOn(l)
  BY DEF OnList, SourcesOn
<1>4. OneLinePerNeed'
  <2> SUFFICES ASSUME NEW l \in Made', Calm'
               PROVE  /\ \A x, y \in OnList(l)' : x.need = y.need => x = y
                      /\ \A s, t \in SourcesOn(l)' : s.key = t.key /\ s.key # NoKey => s = t
    BY DEF OneLinePerNeed, Calm
  <2>1. CASE l \in Made
    BY <1>1, <1>3, <2>1 DEF Lines, OneLinePerNeed, Calm
  <2>2. CASE l \notin Made
    <3>1. OnList(l) = {} /\ SourcesOn(l) = {}
      BY <1>1, <2>2 DEF OnList, SourcesOn, Lines
    <3> QED
      BY <1>3, <3>1
  <2> QED
    BY <2>1, <2>2
<1> QED
  BY <1>2, <1>4 DEF Lines

(* The transaction of a request that made a list adds it; it is the only     *)
(* live one, unless another was made behind its back.                       *)
LEMMA ListMade ==
    ASSUME Lists, lists' = WithLists(1, "active"), torn \subseteq torn',
           "live" \notin torn' => Live = {}
    PROVE  Lists' /\ Made' = Made \cup {Cardinality(Made) + 1}
<1>1. lists \in Seq(Statuses) /\ Len(lists) \in Nat /\ Made = 1..Len(lists)
      /\ Cardinality(Made) = Len(lists)
  BY MadeShape DEF Lists, Statuses
<1>2. /\ lists' \in Seq(Statuses) /\ Made' = 1..(Len(lists) + 1)
      /\ \A k \in 1..(Len(lists) + 1) : lists'[k] = IF k \in Made THEN lists[k] ELSE "active"
  BY <1>1, WithListsShape DEF Made, Statuses
<1>3. "live" \notin torn' => Live' = {Len(lists) + 1}
  BY <1>1, <1>2 DEF Live
<1> QED
  BY <1>1, <1>2, <1>3 DEF Lists, Statuses

LEMMA GetActiveListKeeps ==
    ASSUME Sessions, LiveListInv, NEW r \in Requests, GetActiveList(r)
    PROVE  LiveListInv'
<1>1. PICK op, about :
        op \in {"look", "archive", "put"} /\ Opens(r, op, about) /\ about.list = ActiveList
  <2>1. CASE \E op \in {"look", "archive"} : Opens(r, op, [list |-> ActiveList])
    BY <2>1
  <2>2. CASE \E need \in Needs, key \in Keys \cup {NoKey} :
               Opens(r, "put", [list |-> ActiveList, need |-> need, key |-> key])
    BY <2>2
  <2> QED
    BY <2>1, <2>2 DEF GetActiveList
<1>2. /\ requests'[r].phase = "open" /\ requests'[r].op = op /\ requests'[r].about = about
      /\ \A s \in Requests \ {r} : requests'[s] = requests[s]
      /\ torn' = torn
  BY <1>1, OpensShape
<1>3. PICK q : q = requests'[r]
  OBVIOUS
<1>4. Knows(q)
  <2>1. "live" \notin torn => /\ ActiveList \in Made \cup {NewList}
                              /\ Live = IF ActiveList = NewList THEN {} ELSE {ActiveList}
    BY ActiveListShape DEF LiveListInv
  <2> QED
    BY <1>1, <1>2, <1>3, <2>1 DEF Knows, FreshList, Calm
<1> QED
  BY <1>2, <1>3, <1>4, LiveListRead DEF GetActiveList

LEMMA GetShoppingListKeeps ==
    ASSUME Sessions, LiveListInv, NEW r \in Requests, GetShoppingList(r)
    PROVE  LiveListInv'
<1> DEFINE q == requests[r].about
           things == IF q.list = NewList THEN {"live"} ELSE {}
<1>1. /\ requests[r] # Idle /\ requests[r].op = "look"
      /\ lists' = IF q.list = NewList THEN WithLists(1, "active") ELSE lists
      /\ Commits(r, things) /\ lines' = lines /\ sources' = sources
  BY DEF GetShoppingList, At, Idle
<1>2. torn' = torn \cup (things \cap requests[r].behind)
  BY <1>1, CommitsShape
<1>3. FreshList(requests[r])
  BY <1>1 DEF LiveListInv, Takes
<1>4. CASE q.list = NewList
  <2>1. Lists' /\ Made' = Made \cup {Cardinality(Made) + 1}
    <3>1. "live" \notin torn' => Live = {}
      BY <1>2, <1>3, <1>4 DEF FreshList
    <3> QED
      BY <1>1, <1>2, <1>4, <3>1, ListMade DEF LiveListInv
  <2>2. Lines'
    BY <1>1, <1>2, <2>1, LinesKept DEF LiveListInv, Lines
  <2> QED
    BY <1>1, <1>4, <2>1, <2>2, LiveListCommit
<1>5. CASE q.list # NewList
  <2>1. lists' = lists /\ torn' = torn
    BY <1>1, <1>2, <1>5
  <2>2. Made' = Made /\ Live' = Live
    BY <2>1 DEF Made, Live
  <2>3. Lists'
    BY <2>1, <2>2 DEF LiveListInv, Lists
  <2>4. Lines'
    BY <1>1, <2>1, <2>2, LinesKept DEF LiveListInv, Lines
  <2> QED
    BY <1>1, <2>2, <2>3, <2>4, LiveListCommit
<1> QED
  BY <1>4, <1>5

(* A request that knows the lines of its list adds one that is not there, or *)
(* adds to the one that is.                                                 *)
LEMMA AddedKeepsLines ==
    ASSUME Sessions, Lists, Lines, NEW r \in Requests, At(r, "found", "put"),
           Knows(requests[r]), ~requests[r].about.known, NEW things, "lines" \in things,
           torn' = torn \cup (things \cap requests[r].behind),
           NEW l, l = CommittedList(requests[r].about.list),
           Made \subseteq Made', Calm => l \in Made',
           requests[r].about.fresh = (\A x \in lines : x.id # requests[r].about.id),
           lines' = IF ~requests[r].about.fresh THEN lines
                    ELSE lines \cup {[id |-> requests[r].about.id, list |-> l, need |-> requests[r].about.need]},
           sources' = sources \cup {[line |-> requests[r].about.id, key |-> requests[r].about.key,
                                     by |-> requests[r].number]}
    PROVE  Lines'
<1> DEFINE q == requests[r].about
           new == [id |-> q.id, list |-> l, need |-> q.need]
           source == [line |-> q.id, key |-> q.key, by |-> requests[r].number]
<1>1. q.known \in BOOLEAN /\ q.fresh \in BOOLEAN
  BY DEF Knows, At
<1>2. \A x, y \in lines' : x.id = y.id => x = y
  BY <1>1 DEF Lines
<1>3. \A s \in sources' : \E x \in lines' : x.id = s.line
  <2> SUFFICES ASSUME NEW s \in sources' PROVE \E x \in lines' : x.id = s.line
    OBVIOUS
  <2>1. lines \subseteq lines' /\ (q.fresh => new \in lines')
    BY <1>1
  <2>2. CASE s \in sources
    BY <2>1, <2>2 DEF Lines
  <2>3. CASE s = source
    <3>1. CASE q.fresh
      BY <2>1, <2>3, <3>1
    <3>2. CASE ~q.fresh
      BY <2>1, <2>3, <3>2
    <3> QED
      BY <1>1, <3>1, <3>2
  <2> QED
    BY <2>2, <2>3
<1>4. Calm' => Calm /\ "lines" \notin requests[r].behind
  BY DEF Calm
<1>5. Calm' => \A x \in lines' : x.list \in Made'
  BY <1>1, <1>4 DEF Lines
<1>6. ASSUME Calm'
      PROVE  /\ OnList(l) = OnList(q.list) /\ SourcesOn(l) = SourcesOn(q.list)
             /\ q.fresh => \A x \in OnList(l) : x.need # q.need
             /\ ~q.fresh => \E x \in OnList(l) : x.id = q.id /\ x.need = q.need
             /\ q.key # NoKey => \A s \in SourcesOn(l) : s.key # q.key
  <2>1. OnList(l) = OnList(q.list)
    <3>1. CASE q.list # NewList
      BY <3>1 DEF CommittedList
    <3>2. CASE q.list = NewList
      <4>1. l = Len(lists) + 1 /\ Made = 1..Len(lists) /\ Len(lists) \in Nat
        BY <3>2, MadeShape DEF CommittedList, Lists, Statuses
      <4>2. l \notin Made /\ q.list \notin Made
        BY <3>2, <4>1 DEF NewList
      <4>3. \A x \in lines : x.list \in Made
        BY <1>4, <1>6 DEF Lines
      <4> QED
        BY <4>2, <4>3 DEF OnList
    <3> QED
      BY <3>1, <3>2
  <2>2. SourcesOn(l) = SourcesOn(q.list)
    BY <2>1 DEF SourcesOn
  <2>3. /\ q.known = (q.key # NoKey /\ \E s \in SourcesOn(q.list) : s.key = q.key)
        /\ q.fresh = (\A x \in OnList(q.list) : x.need # q.need)
        /\ ~q.fresh => \E x \in OnList(q.list) : x.id = q.id /\ x.need = q.need
    BY <1>4, <1>6 DEF Knows, At, FreshItem
  <2> QED
    BY <2>1, <2>2, <2>3
<1>7. ASSUME NEW m, NEW x \in OnList(m)', x \notin OnList(m) PROVE q.fresh /\ m = l /\ x = new
  BY <1>1, <1>7 DEF OnList
<1>8. ASSUME Calm', NEW m, NEW s \in SourcesOn(m)', s \notin SourcesOn(m) PROVE m = l /\ s = source
  <2>1. PICK x \in OnList(m)' : x.id = s.line
    BY <1>8 DEF SourcesOn
  <2>2. CASE s \in sources
    <3>1. x \notin OnList(m)
      BY <1>8, <2>1, <2>2 DEF SourcesOn
    <3>2. q.fresh /\ x = new
      BY <1>7, <3>1
    <3>3. PICK y \in lines : y.id = s.line
      BY <2>2 DEF Lines
    <3> QED
      BY <2>1, <3>2, <3>3
  <2>3. CASE s = source
    <3>1. CASE x \in OnList(m)
      <4>1. ~q.fresh /\ x \in lines /\ x.list = m
        BY <1>1, <2>1, <2>3, <3>1 DEF OnList
      <4>2. PICK y \in OnList(l) : y.id = q.id
        BY <1>6, <1>8, <4>1
      <4>3. x = y
        BY <2>1, <2>3, <4>1, <4>2 DEF Lines, OnList
      <4> QED
        BY <2>3, <4>1, <4>2, <4>3 DEF OnList
    <3>2. CASE x \notin OnList(m)
      BY <1>7, <2>3, <3>2
    <3> QED
      BY <3>1, <3>2
  <2>4. s \in sources \/ s = source
    BY <1>8 DEF SourcesOn
  <2> QED
    BY <2>2, <2>3, <2>4
<1>9. ASSUME Calm', NEW m
      PROVE  /\ \A x, y \in OnList(m) : x.need = y.need => x = y
             /\ \A s, t \in SourcesOn(m) : s.key = t.key /\ s.key # NoKey => s = t
  <2>1. CASE m \in Made
    BY <1>4, <1>9, <2>1 DEF Lines, OneLinePerNeed, Calm
  <2>2. CASE m \notin Made
    BY <1>4, <1>9, <2>2 DEF OnList, SourcesOn, Lines
  <2> QED
    BY <2>1, <2>2
<1>10. OneLinePerNeed'
  <2> SUFFICES ASSUME NEW m \in Made', Calm'
               PROVE  /\ \A x, y \in OnList(m)' : x.need = y.need => x = y
                      /\ \A s, t \in SourcesOn(m)' : s.key = t.key /\ s.key # NoKey => s = t
    BY DEF OneLinePerNeed, Calm
  <2>1. ASSUME NEW x \in OnList(m)', NEW y \in OnList(m)', x.need = y.need PROVE x = y
    <3>1. CASE x \in OnList(m) /\ y \in OnList(m)
      BY <1>9, <2>1, <3>1
    <3>2. CASE x \notin OnList(m) /\ y \notin OnList(m)
      BY <1>7, <2>1, <3>2
    <3>3. CASE x \notin OnList(m) /\ y \in OnList(m)
      BY <1>6, <1>7, <2>1, <3>3
    <3>4. CASE x \in OnList(m) /\ y \notin OnList(m)
      BY <1>6, <1>7, <2>1, <3>4
    <3> QED
      BY <3>1, <3>2, <3>3, <3>4
  <2>2. ASSUME NEW s \in SourcesOn(m)', NEW t \in SourcesOn(m)', s.key = t.key, s.key # NoKey PROVE s = t
    <3>1. CASE s \in SourcesOn(m) /\ t \in SourcesOn(m)
      BY <1>9, <2>2, <3>1
    <3>2. CASE s \notin SourcesOn(m) /\ t \notin SourcesOn(m)
      BY <1>8, <2>2, <3>2
    <3>3. CASE s \notin SourcesOn(m) /\ t \in SourcesOn(m)
      BY <1>6, <1>8, <2>2, <3>3
    <3>4. CASE s \in SourcesOn(m) /\ t \notin SourcesOn(m)
      BY <1>6, <1>8, <2>2, <3>4
    <3> QED
      BY <3>1, <3>2, <3>3, <3>4
  <2> QED
    BY <2>1, <2>2
<1> QED
  BY <1>2, <1>3, <1>5, <1>10 DEF Lines

LEMMA AddItemKeeps ==
    ASSUME Sessions, LiveListInv, NEW r \in Requests, AddItem(r)
    PROVE  LiveListInv'
<1> DEFINE q == requests[r].about
           things == (IF q.list = NewList THEN {"live"} ELSE {}) \cup IF q.known THEN {} ELSE {"lines"}
<1>1. PICK l : l = CommittedList(q.list)
  OBVIOUS
<1>2. /\ requests[r] # Idle /\ At(r, "found", "put")
      /\ lists' = IF q.list = NewList THEN WithLists(1, "active") ELSE lists
      /\ Commits(r, things)
  BY DEF AddItem, At, Idle
<1>3. torn' = torn \cup (things \cap requests[r].behind)
  BY <1>2, CommitsShape
<1>4. Knows(requests[r])
  BY <1>2, LiveListInvSays
<1>5. q.known \in BOOLEAN /\ q.fresh \in BOOLEAN /\ FreshList(requests[r])
      /\ (Calm => q.list \in Made \cup {NewList})
  BY <1>2, <1>4 DEF Knows, At
<1>6. Lists' /\ Made \subseteq Made' /\ ("live" \in things \/ Live' = Live) /\ (Calm => l \in Made')
  <2>1. CASE q.list = NewList
    <3>1. "live" \notin torn' => Live = {}
      BY <1>3, <1>5, <2>1 DEF FreshList
    <3>2. Lists' /\ Made' = Made \cup {Cardinality(Made) + 1}
      BY <1>2, <1>3, <2>1, <3>1, ListMade DEF LiveListInv
    <3>3. l = Cardinality(Made) + 1
      BY <1>1, <2>1 DEF CommittedList
    <3> QED
      BY <2>1, <3>2, <3>3
  <2>2. CASE q.list # NewList
    <3>1. lists' = lists
      BY <1>2, <2>2
    <3>2. Made' = Made /\ Live' = Live
      BY <3>1 DEF Made, Live
    <3>3. Lists'
      BY <1>3, <3>1, <3>2 DEF LiveListInv, Lists
    <3>4. l = q.list
      BY <1>1, <2>2 DEF CommittedList
    <3> QED
      BY <1>5, <2>2, <3>2, <3>3, <3>4
  <2> QED
    BY <2>1, <2>2
<1>7. CASE q.known
  <2>1. lines' = lines /\ sources' = sources
    BY <1>7 DEF AddItem
  <2>2. Lines'
    BY <1>3, <1>6, <2>1, LinesKept DEF LiveListInv, Lines
  <2> HIDE DEF things
  <2> QED
    BY <1>2, <1>6, <2>1, <2>2, LiveListCommit
<1>8. CASE ~q.known
  <2>1. /\ q.fresh = (\A x \in lines : x.id # q.id)
        /\ lines' = IF ~q.fresh THEN lines ELSE lines \cup {[id |-> q.id, list |-> l, need |-> q.need]}
        /\ sources' = sources \cup {[line |-> q.id, key |-> q.key, by |-> requests[r].number]}
    BY <1>1, <1>8 DEF AddItem
  <2>2. "lines" \in things
    BY <1>8
  <2> HIDE DEF things
  <2>3. Lines'
    BY <1>1, <1>2, <1>3, <1>4, <1>6, <1>8, <2>1, <2>2, AddedKeepsLines DEF LiveListInv
  <2>4. Commits(r, things) /\ Lists' /\ Made \subseteq Made'
    BY <1>2, <1>6
  <2>5. "live" \in things \/ Live' = Live
    BY <1>6
  <2>6. "lines" \in things \/ (lines' = lines /\ sources' = sources)
    BY <2>2
  <2> QED
    BY <2>3, <2>4, <2>5, <2>6, LiveListCommit
<1> QED
  BY <1>5, <1>7, <1>8

LEMMA FindItemKeeps ==
    ASSUME Sessions, LiveListInv, NEW r \in Requests, FindItem(r)
    PROVE  LiveListInv'
<1> DEFINE q == requests[r].about
           line == {x \in OnList(q.list) : x.need = q.need}
           seen == q.key # NoKey /\ \E s \in SourcesOn(q.list) : s.key = q.key
<1>1. requests[r] # Idle /\ At(r, "open", "put") /\ UNCHANGED liveListVars
  BY DEF FindItem, At, Idle
<1>2. PICK id :
        /\ line # {} => id \in {x.id : x \in line}
        /\ GoesOn(r, "found", [list |-> q.list, need |-> q.need, key |-> q.key, known |-> seen,
                               fresh |-> line = {}, id |-> id])
  <2>1. PICK id \in IF line # {} THEN {x.id : x \in line}
                    ELSE {IF q.key # NoKey /\ \A x \in lines : x.id # q.key THEN q.key ELSE requests[r].number} :
          GoesOn(r, "found", [list |-> q.list, need |-> q.need, key |-> q.key, known |-> seen,
                               fresh |-> line = {}, id |-> id])
    BY DEF FindItem
  <2> QED
    BY <2>1
<1>3. PICK about : about = [list |-> q.list, need |-> q.need, key |-> q.key, known |-> seen,
                            fresh |-> line = {}, id |-> id]
  OBVIOUS
<1>4. /\ requests'[r].phase = "found" /\ requests'[r].op = "put" /\ requests'[r].about = about
      /\ requests'[r].behind = requests[r].behind
      /\ \A s \in Requests \ {r} : requests'[s] = requests[s]
      /\ torn' = torn
  BY <1>1, <1>2, <1>3, GoesOnShape DEF At
<1>5. /\ about.list = q.list /\ about.need = q.need /\ about.key = q.key /\ about.id = id
      /\ about.known = seen /\ about.fresh = (line = {})
  BY <1>3
<1>6. Knows(requests[r])
  BY <1>1, LiveListInvSays
<1>7. PICK p : p = requests'[r]
  OBVIOUS
<1>8. about.known \in BOOLEAN /\ about.fresh \in BOOLEAN
  BY <1>5
<1>9. FreshItem(p)
  <2>1. line = {} <=> \A x \in OnList(q.list) : x.need # q.need
    OBVIOUS
  <2>2. line # {} => \E x \in OnList(q.list) : x.id = id /\ x.need = q.need
    BY <1>2
  <2>3. p.about = about
    BY <1>4, <1>7
  <2> HIDE DEF line, q
  <2>4. p.about.list = q.list /\ p.about.need = q.need /\ p.about.key = q.key /\ p.about.id = id
    BY <1>5, <2>3
  <2>5. p.about.known = (p.about.key # NoKey /\ \E s \in SourcesOn(p.about.list) : s.key = p.about.key)
    BY <1>5, <2>3, <2>4
  <2>6. p.about.fresh = (\A x \in OnList(p.about.list) : x.need # p.about.need)
    BY <1>5, <2>1, <2>3, <2>4
  <2>7. ~p.about.fresh => \E x \in OnList(p.about.list) : x.id = p.about.id /\ x.need = p.about.need
    BY <1>5, <2>2, <2>3, <2>4
  <2> QED
    BY <2>5, <2>6, <2>7 DEF FreshItem
<1>10. FreshList(p) /\ (Calm => about.list \in Made \cup {NewList})
  BY <1>1, <1>4, <1>5, <1>6, <1>7 DEF Knows, FreshList, At
<1>11. Knows(p)
  BY <1>4, <1>7, <1>8, <1>9, <1>10 DEF Knows
<1> QED
  BY <1>1, <1>4, <1>7, <1>11, LiveListRead

LEMMA DeleteItemKeeps ==
    ASSUME Sessions, LiveListInv, NEW r \in Requests, DeleteItem(r)
    PROVE  LiveListInv'
<1>1. CASE (\E x \in lines : Opens(r, "drop", [line |-> x])) /\ UNCHANGED liveListVars
  <2>1. /\ requests'[r].op = "drop" /\ torn' = torn
        /\ \A s \in Requests \ {r} : requests'[s] = requests[s]
    BY <1>1, OpensShape
  <2>2. PICK q : q = requests'[r]
    OBVIOUS
  <2>3. Knows(q)
    BY <2>1, <2>2 DEF Knows
  <2> QED
    BY <1>1, <2>1, <2>2, <2>3, LiveListRead
<1>2. CASE /\ lines' = {x \in lines : x.id # requests[r].about.line.id}
           /\ sources' = {s \in sources : s.line # requests[r].about.line.id}
           /\ Commits(r, {"lines"})
           /\ UNCHANGED lists
  <2>1. torn \subseteq torn'
    BY <1>2, CommitsShape
  <2>2. Made' = Made /\ Live' = Live
    BY <1>2 DEF Made, Live
  <2>3. Lists'
    BY <1>2, <2>1, <2>2 DEF LiveListInv, Lists
  <2>4. \A s \in sources' : \E x \in lines' : x.id = s.line
    BY <1>2 DEF LiveListInv, Lines
  <2>5. Lines'
    BY <1>2, <2>1, <2>2, <2>4, LinesKept DEF LiveListInv
  <2>6. PICK things : things = {"lines"}
    OBVIOUS
  <2>7. Commits(r, things) /\ Made \subseteq Made'
    BY <1>2, <2>2, <2>6
  <2>8. "live" \in things \/ Live' = Live
    BY <2>2
  <2>9. "lines" \in things \/ (lines' = lines /\ sources' = sources)
    BY <2>6
  <2> QED
    BY <2>3, <2>5, <2>7, <2>8, <2>9, LiveListCommit
<1> QED
  BY <1>1, <1>2 DEF DeleteItem

LEMMA ArchiveAndReplaceKeeps ==
    ASSUME Sessions, LiveListInv, NEW r \in Requests, ArchiveAndReplace(r)
    PROVE  LiveListInv'
<1> DEFINE q == requests[r].about
           n == IF q.list = NewList THEN 2 ELSE 1
           N == Len(lists)
<1>1. /\ requests[r] # Idle /\ requests[r].op = "archive"
      /\ lists' = [WithLists(n, "active") EXCEPT ![CommittedList(q.list)] = "archived"]
      /\ Commits(r, {"live"}) /\ lines' = lines /\ sources' = sources
  BY DEF ArchiveAndReplace, At, Idle
<1>2. torn' = torn \cup ({"live"} \cap requests[r].behind)
  BY <1>1, CommitsShape
<1>3. FreshList(requests[r])
  BY <1>1 DEF LiveListInv, Takes
<1>4. N \in Nat /\ Made = 1..N /\ Cardinality(Made) = N /\ lists \in Seq(Statuses) /\ Live \subseteq Made
  BY MadeShape DEF LiveListInv, Lists, Statuses, Live
<1>5. n \in Nat
  OBVIOUS
<1>6. /\ WithLists(n, "active") \in Seq(Statuses) /\ DOMAIN WithLists(n, "active") = 1..(N + n)
      /\ \A k \in 1..(N + n) : WithLists(n, "active")[k] = IF k \in Made THEN lists[k] ELSE "active"
  BY <1>4, <1>5, WithListsShape DEF Statuses
<1> HIDE DEF N
<1>7. /\ lists' \in Seq(Statuses) /\ Made' = 1..(N + n)
      /\ \A k \in 1..(N + n) :
            lists'[k] = IF k = CommittedList(q.list) THEN "archived"
                        ELSE IF k \in Made THEN lists[k] ELSE "active"
  <2> HIDE DEF n
  <2>1. lists' \in Seq(Statuses)
    <3>1. PICK m \in Nat : m = N + n
      BY <1>4, <1>5
    <3>2. PICK w : w = WithLists(n, "active")
      OBVIOUS
    <3>3. w \in [1..m -> Statuses]
      BY <1>6, <3>1, <3>2
    <3>4. lists' = [w EXCEPT ![CommittedList(q.list)] = "archived"]
      BY <1>1, <3>2
    <3>5. lists' \in [1..m -> Statuses]
      BY <3>3, <3>4 DEF Statuses
    <3> QED
      BY <3>5
  <2> QED
    BY <1>1, <1>6, <2>1 DEF Made
<1>8. "live" \notin torn' => \E k : Live' = {k}
  <2> SUFFICES ASSUME "live" \notin torn' PROVE \E k : Live' = {k}
    OBVIOUS
  <2>1. Live = IF q.list = NewList THEN {} ELSE {q.list}
    BY <1>2, <1>3 DEF FreshList
  <2>2. CASE q.list = NewList
    <3>1. CommittedList(q.list) = N + 1 /\ n = 2
      BY <1>4, <2>2 DEF CommittedList
    <3>2. \A k \in 1..(N + 2) : lists'[k] = "active" <=> k = N + 2
      <4> SUFFICES ASSUME NEW k \in 1..(N + 2) PROVE lists'[k] = "active" <=> k = N + 2
        OBVIOUS
      <4>1. k \in Made => lists[k] # "active"
        BY <2>1, <2>2 DEF Live
      <4>2. k \in Made \/ k = N + 1 \/ k = N + 2
        BY <1>4
      <4> QED
        BY <1>4, <1>7, <3>1, <4>1, <4>2
    <3>3. Live' = {N + 2}
      BY <1>4, <1>7, <3>1, <3>2 DEF Live
    <3> QED
      BY <3>3
  <2>3. CASE q.list # NewList
    <3>1. CommittedList(q.list) = q.list /\ n = 1 /\ q.list \in Made
      BY <1>4, <2>1, <2>3 DEF CommittedList
    <3>2. \A k \in 1..(N + 1) : lists'[k] = "active" <=> k = N + 1
      <4> SUFFICES ASSUME NEW k \in 1..(N + 1) PROVE lists'[k] = "active" <=> k = N + 1
        OBVIOUS
      <4>1. k \in Made /\ k # q.list => lists[k] # "active"
        BY <2>1, <2>3 DEF Live
      <4>2. k \in Made \/ k = N + 1
        BY <1>4
      <4> QED
        BY <1>4, <1>7, <3>1, <4>1, <4>2
    <3>3. Live' = {N + 1}
      BY <1>4, <1>7, <3>1, <3>2 DEF Live
    <3> QED
      BY <3>3
  <2> QED
    BY <2>2, <2>3
<1>9. Lists'
  BY <1>7, <1>8 DEF Lists, Statuses
<1>10. Made \subseteq Made'
  BY <1>4, <1>7
<1>11. Lines'
  BY <1>1, <1>2, <1>10, LinesKept DEF LiveListInv, Lines
<1> QED
  BY <1>1, <1>9, <1>10, <1>11, LiveListCommit

LEMMA LiveListStepKeeps ==
    ASSUME Sessions, LiveListInv, NEW r \in Requests, LiveListStep(r)
    PROVE  LiveListInv'
BY GetActiveListKeeps, GetShoppingListKeeps, FindItemKeeps, AddItemKeeps, DeleteItemKeeps,
   ArchiveAndReplaceKeeps DEF LiveListStep

-----------------------------------------------------------------------------
(* Every step keeps the shape of the requests. *)
LEMMA StepKeepsSessions ==
    ASSUME Sessions, NEW r \in Requests, FreezerStep(r) \/ SupermarketStep(r) \/ LiveListStep(r)
    PROVE  Sessions'
<1>1. \/ \E op, about : Opens(r, op, about)
      \/ \E things : Commits(r, things)
      \/ requests[r] # Idle /\ \E phase, about : phase # "idle" /\ GoesOn(r, phase, about)
  <2>1. CASE FreezerStep(r)
    BY <2>1 DEF FreezerStep, CountBatches, AddBatch, GetItem, Recount, TakePortions, RemoveFromFreezer, RowGoes
  <2>2. CASE AskCreate(r) \/ GetMarket(r)
    BY <2>2 DEF AskCreate, GetMarket
  <2>3. CASE CreateSupermarket(r) \/ UpdateSupermarket(r) \/ DeleteSupermarket(r)
    <3>1. \E things : Commits(r, things)
      BY <2>3 DEF CreateSupermarket, UpdateSupermarket, DeleteSupermarket
    <3> QED
      BY <3>1
  <2>4. CASE DeactivateAll(r)
    <3>1. requests[r] # Idle
      BY <2>4 DEF DeactivateAll, At, Idle
    <3>2. GoesOn(r, "deactivated", [requests[r].about EXCEPT !.off = Active \ requests[r].about.store])
      BY <2>4 DEF DeactivateAll
    <3> QED
      BY <3>1, <3>2
  <2>5. CASE GetActiveList(r)
    BY <2>5 DEF GetActiveList
  <2>6. CASE GetShoppingList(r) \/ AddItem(r) \/ ArchiveAndReplace(r)
    <3>1. \E things : Commits(r, things)
      BY <2>6 DEF GetShoppingList, AddItem, ArchiveAndReplace
    <3> QED
      BY <3>1
  <2>7. CASE DeleteItem(r)
    BY <2>7 DEF DeleteItem
  <2>8. CASE FindItem(r)
    <3>1. requests[r] # Idle
      BY <2>8 DEF FindItem, At, Idle
    <3>2. \E about : GoesOn(r, "found", about)
      BY <2>8 DEF FindItem
    <3> QED
      BY <3>1, <3>2
  <2> QED
    BY <2>1, <2>2, <2>3, <2>4, <2>5, <2>6, <2>7, <2>8 DEF SupermarketStep, LiveListStep
<1> QED
  BY <1>1, OpensShape, CommitsShape, GoesOnShape

LEMMA InitHolds == Init => IInv
<1> SUFFICES ASSUME Init PROVE IInv
  OBVIOUS
<1>1. Sessions
  BY DEF Init, SessionInit, Sessions
<1>2. \A r \in Requests : requests[r] = Idle
  BY DEF Init, SessionInit
<1>3. FreezerInv
  BY <1>2 DEF Init, FreezerInit, FreezerInv, LeftIsAsSaid, InFreezer
<1>4. SupermarketsInv
  BY <1>2 DEF Init, SupermarketsInit, SupermarketsInv, ActiveIsAsChosen, Active, Markets
<1>5. LiveListInv
  <2>1. lists = [l \in 1..0 |-> "active"] /\ lines = {} /\ sources = {}
    BY DEF Init, LiveListInit
  <2>2. lists \in Seq({"active", "archived"})
    BY <2>1
  <2>3. Made = {} /\ Live = {}
    BY <2>1 DEF Made, Live
  <2> QED
    BY <1>2, <2>1, <2>2, <2>3 DEF LiveListInv, Lists, Lines, OneLinePerNeed, Takes
<1> QED
  BY <1>1, <1>3, <1>4, <1>5 DEF IInv, Init

LEMMA Invariance == IInv /\ [Next]_vars => IInv'
<1> SUFFICES ASSUME IInv, [Next]_vars PROVE IInv'
  OBVIOUS
<1>1. ASSUME part = "freezer", part' = part, NEW r \in Requests, FreezerStep(r),
             UNCHANGED <<supermarketVars, liveListVars>>
      PROVE  IInv'
  <2>1. Sessions' /\ FreezerInv'
    BY <1>1, FreezerStepKeeps, StepKeepsSessions DEF IInv
  <2> QED
    BY <1>1, <2>1 DEF IInv, SupermarketsInit, LiveListInit, supermarketVars, liveListVars
<1>2. ASSUME part = "supermarkets", part' = part, NEW r \in Requests, SupermarketStep(r),
             UNCHANGED <<freezerVars, liveListVars>>
      PROVE  IInv'
  <2>1. Sessions' /\ SupermarketsInv'
    BY <1>2, SupermarketStepKeeps, StepKeepsSessions DEF IInv
  <2> QED
    BY <1>2, <2>1 DEF IInv, FreezerInit, LiveListInit, freezerVars, liveListVars
<1>3. ASSUME part = "list", part' = part, NEW r \in Requests, LiveListStep(r),
             UNCHANGED <<freezerVars, supermarketVars>>
      PROVE  IInv'
  <2>1. Sessions' /\ LiveListInv'
    BY <1>3, LiveListStepKeeps, StepKeepsSessions DEF IInv
  <2> QED
    BY <1>3, <2>1 DEF IInv, FreezerInit, SupermarketsInit, freezerVars, supermarketVars
<1>4. ASSUME Sessions', torn' = torn, part' = part, UNCHANGED <<freezerVars, supermarketVars, liveListVars>>,
             \A s \in Requests : requests'[s] # Idle => requests'[s] = requests[s]
      PROVE  IInv'
  <2>1. FreezerInv => FreezerInv'
    <3>1. CASE Requests = {}
      BY <1>4, <3>1 DEF FreezerInv, LeftIsAsSaid, freezerVars, InFreezer
    <3>2. CASE Requests # {}
      <4>1. PICK r \in Requests : TRUE
        BY <3>2
      <4>2. FreezerInv /\ requests'[r] # Idle /\ requests'[r].op \in {"recount", "take", "remove"}
               => FreshBatch(requests[r])'
        BY <1>4 DEF FreezerInv, FreshBatch, freezerVars, InFreezer
      <4> QED
        BY <1>4, <4>2, FreezerRead DEF FreezerInv
    <3> QED
      BY <3>1, <3>2
  <2>2. SupermarketsInv => SupermarketsInv'
    <3>1. CASE Requests = {}
      BY <1>4, <3>1 DEF SupermarketsInv, ActiveIsAsChosen, supermarketVars, Active, Markets
    <3>2. CASE Requests # {}
      <4>1. PICK r \in Requests : TRUE
        BY <3>2
      <4>2. markets' = markets /\ Markets' = Markets /\ Active' = Active
        BY <1>4 DEF supermarketVars, Markets, Active
      <4>3. SupermarketsInv /\ requests'[r] # Idle /\ requests'[r].op \in {"create", "patch"}
               => Asked(requests[r])'
        BY <1>4, <4>2 DEF SupermarketsInv, Asked, FreshChoice
      <4> QED
        BY <1>4, <4>3, SupermarketRead
    <3> QED
      BY <3>1, <3>2
  <2>3. LiveListInv => LiveListInv'
    <3>1. CASE Requests = {}
      BY <1>4, <3>1 DEF LiveListInv, Lists, Lines, OneLinePerNeed, liveListVars, Made, Live, OnList,
         SourcesOn, Calm
    <3>2. CASE Requests # {}
      <4>1. PICK r \in Requests : TRUE
        BY <3>2
      <4>2. PICK q : q = requests'[r]
        OBVIOUS
      <4>3. LiveListInv /\ requests'[r] # Idle => Knows(q)
        BY <1>4, <4>2, LiveListInvSays
      <4> QED
        BY <1>4, <4>2, <4>3, LiveListRead
    <3> QED
      BY <3>1, <3>2
  <2> QED
    BY <1>4, <2>1, <2>2, <2>3 DEF IInv, FreezerInit, SupermarketsInit, LiveListInit,
       freezerVars, supermarketVars, liveListVars
<1>5. ASSUME part' = part, NEW r \in Requests, End(r),
             UNCHANGED <<freezerVars, supermarketVars, liveListVars>>
      PROVE  IInv'
  <2>1. Sessions' /\ torn' = torn /\ \A s \in Requests : requests'[s] # Idle => requests'[s] = requests[s]
    BY <1>5, EndShape DEF IInv
  <2> QED
    BY <1>4, <1>5, <2>1
<1>6. CASE UNCHANGED vars
  <2>1. /\ Sessions' /\ torn' = torn /\ part' = part /\ requests' = requests
        /\ UNCHANGED <<freezerVars, supermarketVars, liveListVars>>
    BY <1>6 DEF vars, sessionVars, IInv, Sessions
  <2> QED
    BY <1>4, <2>1
<1> QED
  BY <1>1, <1>2, <1>3, <1>5, <1>6 DEF Next

LEMMA Inductive == Spec => []IInv
<1> QED
  BY InitHolds, Invariance, PTL DEF Spec

-----------------------------------------------------------------------------
(* services/freezer.py: a batch that no two requests overlapped on is in the *)
(* freezer with the portions people were told are left of it.               *)
THEOREM FreezerIsAsSaid == Spec => []LeftIsAsSaid
<1>1. IInv => LeftIsAsSaid
  BY DEF IInv, FreezerInv, FreezerInit, LeftIsAsSaid, InFreezer
<1> QED
  BY <1>1, Inductive, PTL

(* services/supermarkets.py: unless requests overlapped on the choice, the   *)
(* active store is the one the household last said it is at, and only that.  *)
THEOREM StoreIsAsChosen == Spec => []ActiveIsAsChosen
<1>1. IInv => ActiveIsAsChosen
  BY DEF IInv, SupermarketsInv, SupermarketsInit, ActiveIsAsChosen, Active, Markets
<1> QED
  BY <1>1, Inductive, PTL

(* get_active_list, archive_and_replace: unless two requests made or         *)
(* archived a list at once, one list is live.                               *)
THEOREM LiveListIsOne == Spec => []OneLiveList
<1>1. IInv => OneLiveList
  <2> SUFFICES ASSUME IInv, "live" \notin torn PROVE Cardinality(Live) <= 1
    BY DEF OneLiveList
  <2>1. \A l, k \in Live : l = k
    BY DEF IInv, LiveListInv, Lists, LiveListInit, Live, Made
  <2>2. CASE Live = {}
    BY <2>2, FS_EmptySet
  <2>3. CASE Live # {}
    <3>1. PICK l : Live = {l}
      BY <2>1, <2>3
    <3> QED
      BY <3>1, FS_Singleton
  <2> QED
    BY <2>2, <2>3
<1> QED
  BY <1>1, Inductive, PTL

(* add_adhoc_item: unless two requests added, or made a list, at once, a     *)
(* need has one line on a list, and a client's key counts once on it.       *)
THEOREM LineIsOnePerNeed == Spec => []OneLinePerNeed
<1>1. IInv => OneLinePerNeed
  BY DEF IInv, LiveListInv, Lines, LiveListInit, OneLinePerNeed, OnList, SourcesOn
<1> QED
  BY <1>1, Inductive, PTL

-----------------------------------------------------------------------------
(* The ingredients.  A request that found no row for a key is right about it *)
(* until another commits one, and then it is behind on that key.             *)
Missing(key) == \A i \in Present : IdentityKey(i) # key

FreshLook(q) ==
    q.about.found = NoRow /\ KeyOf(q.about.name) \notin q.behind => Missing(KeyOf(q.about.name))

CatalogueInv ==
    /\ \E S : rows \in Seq(S)
    /\ earlier <= Len(rows) /\ earlier \in Nat
    /\ \A i \in Present : rows[i].key = Unkeyed => KeyOf(rows[i].name) = rows[i].name
    /\ OneRowPerFood
    /\ \A r \in Requests : requests[r] # Idle /\ requests[r].op \in {"line", "create"} =>
          requests[r].about.name \in Written /\ FreshLook(requests[r])

PantryInv == Sessions /\ CatalogueInv

LEMMA LeastRow ==
    ASSUME NEW S \in SUBSET Nat, S # {}
    PROVE  \E x \in S : \A y \in S : x <= y
<1> DEFINE R == StrictSubsetOrdering(Nat)
           F == FiniteSubsetsOf(Nat)
           T == {1..n : n \in S}
<1>1. IsWellFoundedOn(R, F)
  BY FS_StrictSubsetOrderingWellFounded
<1>2. T \subseteq F /\ T # {}
  <2>1. \A n \in S : 1..n \in SUBSET Nat /\ IsFiniteSet(1..n)
    BY FS_Interval
  <2> QED
    BY <2>1 DEF FiniteSubsetsOf
<1>3. PICK X \in T : \A Y \in T : <<Y, X>> \notin R
  <2> HIDE DEF R, F, T
  <2> QED
    BY <1>1, <1>2, WFMin
<1>4. PICK x \in S : X = 1..x
  OBVIOUS
<1>5. ASSUME NEW y \in S, y < x PROVE FALSE
  <2>1. 1..y \subseteq 1..x /\ x \in 1..x /\ x \notin 1..y
    BY <1>5
  <2>2. 1..y \in T
    BY <1>5
  <2>3. <<1..y, X>> \in R
    BY <1>4, <2>1 DEF StrictSubsetOrdering
  <2> QED
    BY <1>3, <2>2, <2>3
<1>6. \A y \in S : x <= y
  BY <1>5
<1> QED
  BY <1>6

(* What Find does not find is not there.                                     *)
LEMMA NotFound ==
    ASSUME CatalogueInv, NEW key, Find(key) = NoRow
    PROVE  Missing(key)
<1> DEFINE keyed == {i \in Present : rows[i].key = key}
           named == {i \in Present : rows[i].key = Unkeyed /\ rows[i].name = key}
<1>1. DOMAIN rows \subseteq Nat
  BY DEF CatalogueInv
<1>2. keyed \subseteq Nat /\ named \subseteq Nat
  BY <1>1 DEF Present
<1>3. ASSUME NEW S \in SUBSET Nat, S # {} PROVE Min(S) # NoRow
  <2>1. \E x \in S : \A y \in S : x =< y
    BY <1>3, LeastRow
  <2>2. Min(S) \in S
    BY <2>1 DEF Min
  <2> QED
    BY <2>2, CatalogueAssumption
<1>4. keyed = {} /\ named = {}
  <2>1. Find(key) = CASE keyed # {} -> Min(keyed)
                      [] keyed = {} /\ named # {} -> Min(named)
                      [] OTHER -> NoRow
    BY DEF Find
  <2> HIDE DEF keyed, named
  <2>2. CASE keyed # {}
    <3>1. Find(key) = Min(keyed)
      BY <2>1, <2>2
    <3> QED
      BY <1>2, <1>3, <2>2, <3>1
  <2>3. CASE keyed = {} /\ named # {}
    <3>1. Find(key) = Min(named)
      BY <2>1, <2>3
    <3> QED
      BY <1>2, <1>3, <2>3, <3>1
  <2> QED
    BY <2>2, <2>3
<1>5. ASSUME NEW i \in Present PROVE IdentityKey(i) # key
  <2>1. CASE rows[i].key # Unkeyed
    BY <1>4, <2>1 DEF IdentityKey
  <2>2. CASE rows[i].key = Unkeyed
    <3>1. IdentityKey(i) = rows[i].name
      BY <2>2 DEF IdentityKey, CatalogueInv
    <3> QED
      BY <1>4, <2>2, <3>1
  <2> QED
    BY <2>1, <2>2
<1> QED
  BY <1>5 DEF Missing

LEMMA ImageFinite ==
    ASSUME NEW S, IsFiniteSet(S), NEW f
    PROVE  IsFiniteSet({f[x] : x \in S})
<1> DEFINE T == {f[x] : x \in S}
           g == [x \in S |-> f[x]]
<1>1. g \in Surjection(S, T)
  BY DEF Surjection
<1> QED
  BY <1>1, FS_Surjection

LEMMA PantryInitially == PantryInit => PantryInv
<1> SUFFICES ASSUME PantryInit PROVE PantryInv
  OBVIOUS
<1>1. requests = [r \in Requests |-> Idle]
  BY DEF PantryInit, SessionInit
<1>2. Sessions
  BY <1>1 DEF Sessions
<1>3. CASE rows = <<>> /\ earlier = 0
  <2>1. rows \in Seq({}) /\ Len(rows) = 0 /\ Present = {}
    BY <1>3 DEF Present
  <2> QED
    BY <1>1, <1>2, <1>3, <2>1 DEF PantryInv, CatalogueInv, OneRowPerFood
<1>4. CASE CatalogueInit
  <2>1. PICK keyed \in SUBSET EarlierNames, unkeyed \in SUBSET {KeyOf(n) : n \in EarlierNames} :
          rows = SetToSeq([name : unkeyed, key : {Unkeyed}] \cup {[name |-> n, key |-> KeyOf(n)] : n \in keyed})
    BY <1>4 DEF CatalogueInit
  <2> DEFINE old == [name : unkeyed, key : {Unkeyed}]
             new == {[name |-> n, key |-> KeyOf(n)] : n \in keyed}
             all == old \cup new
  <2>2. IsFiniteSet(all)
    <3>1. IsFiniteSet({KeyOf(n) : n \in EarlierNames})
      <4>1. PICK f : f = [n \in EarlierNames |-> KeyOf(n)]
        OBVIOUS
      <4>2. IsFiniteSet({f[n] : n \in EarlierNames})
        BY CatalogueAssumption, ImageFinite
      <4>3. {f[n] : n \in EarlierNames} = {KeyOf(n) : n \in EarlierNames}
        BY <4>1
      <4> QED
        BY <4>2, <4>3
    <3>2. IsFiniteSet(unkeyed) /\ IsFiniteSet(keyed)
      BY <3>1, CatalogueAssumption, FS_Subset
    <3>3. IsFiniteSet(old)
      <4>1. PICK f : f = [n \in unkeyed |-> [name |-> n, key |-> Unkeyed]]
        OBVIOUS
      <4>2. IsFiniteSet({f[n] : n \in unkeyed})
        BY <3>2, ImageFinite
      <4>3. \A x : x \in old <=> x \in {f[n] : n \in unkeyed}
        BY <4>1
      <4>4. old = {f[n] : n \in unkeyed}
        BY <4>3
      <4> QED
        BY <4>2, <4>4
    <3>4. IsFiniteSet(new)
      <4>1. PICK f : f = [n \in keyed |-> [name |-> n, key |-> KeyOf(n)]]
        OBVIOUS
      <4>2. IsFiniteSet({f[n] : n \in keyed})
        BY <3>2, ImageFinite
      <4>3. {f[n] : n \in keyed} = new
        BY <4>1
      <4> QED
        BY <4>2, <4>3
    <3> QED
      BY <3>3, <3>4, FS_Union
  <2> HIDE DEF all
  <2>3. PICK n \in Nat : n = Cardinality(all)
    BY <2>2, FS_CardinalityType
  <2>4. PICK f \in [1..n -> all] : IsInjective(f)
    <3>1. ExistsBijection(1..n, all)
      BY <2>2, <2>3, FS_CardinalityType
    <3>2. PICK g : g \in Bijection(1..n, all)
      BY <3>1 DEF ExistsBijection
    <3> QED
      BY <3>2 DEF Bijection, Injection, IsInjective
  <2>5. rows \in [1..n -> all]
    <3>1. rows = CHOOSE g \in [1..n -> all] : IsInjective(g)
      BY <2>1, <2>3 DEF SetToSeq, all
    <3> QED
      BY <2>4, <3>1
  <2>6. rows \in Seq(all) /\ Len(rows) \in Nat
    BY <2>5
  <2>7. earlier = Len(rows) /\ DOMAIN rows = 1..Len(rows)
    BY <1>4, <2>6 DEF CatalogueInit
  <2>8. OneRowPerFood
    BY <2>6, <2>7 DEF OneRowPerFood, Present
  <2>9. ASSUME NEW i \in Present, rows[i].key = Unkeyed PROVE KeyOf(rows[i].name) = rows[i].name
    <3>1. rows[i] \in all
      BY <2>5, <2>7 DEF Present
    <3>2. rows[i] \notin new
      <4>1. \A x \in keyed : KeyOf(x) # Unkeyed
        BY CatalogueAssumption
      <4> QED
        BY <2>9, <4>1
    <3>3. rows[i].name \in unkeyed
      BY <3>1, <3>2 DEF all
    <3>4. PICK x \in EarlierNames : rows[i].name = KeyOf(x)
      BY <3>3
    <3> QED
      BY <3>4, CatalogueAssumption
  <2> QED
    BY <1>1, <1>2, <2>6, <2>7, <2>8, <2>9 DEF PantryInv, CatalogueInv
<1> QED
  BY <1>3, <1>4 DEF PantryInit

(* What a request that goes on carries of its look-up.                       *)
Carries(s) ==
    /\ requests[s] # Idle
    /\ requests'[s].op = requests[s].op /\ requests'[s].about = requests[s].about
    /\ requests[s].behind \subseteq requests'[s].behind

(* No row is new: whoever found none with a key is as right as before.       *)
LEMMA NoNewRow ==
    ASSUME PantryInv, Sessions', \E S : rows' \in Seq(S), Len(rows') = Len(rows), earlier' = earlier,
           Present' \subseteq Present, \A i \in Present' : rows'[i] = rows[i],
           torn \subseteq torn', NEW r \in Requests,
           \A s \in Requests \ {r} : requests'[s] # Idle => Carries(s),
           requests'[r] # Idle /\ requests'[r].op \in {"line", "create"} =>
               requests'[r].about.name \in Written /\ FreshLook(requests[r])'
    PROVE  PantryInv'
<1>1. \A i \in Present' : IdentityKey(i)' = IdentityKey(i)
  BY DEF IdentityKey
<1>2. OneRowPerFood'
  BY <1>1 DEF PantryInv, CatalogueInv, OneRowPerFood
<1>3. \A key : Missing(key) => Missing(key)'
  BY <1>1 DEF Missing
<1>4. ASSUME NEW s \in Requests, requests'[s] # Idle, requests'[s].op \in {"line", "create"}
      PROVE  requests'[s].about.name \in Written /\ FreshLook(requests[s])'
  <2>1. CASE s = r
    BY <1>4, <2>1
  <2>2. CASE s # r
    <3>1. Carries(s)
      BY <1>4, <2>2
    <3>2. requests[s].about.name \in Written /\ FreshLook(requests[s])
      BY <1>4, <3>1 DEF PantryInv, CatalogueInv, Carries
    <3> QED
      BY <1>3, <3>1, <3>2 DEF FreshLook, Carries
  <2> QED
    BY <2>1, <2>2
<1>5. \A i \in Present' : rows'[i].key = Unkeyed => KeyOf(rows'[i].name) = rows'[i].name
  BY DEF PantryInv, CatalogueInv
<1>6. earlier' <= Len(rows') /\ earlier' \in Nat
  BY DEF PantryInv, CatalogueInv
<1> QED
  BY <1>2, <1>4, <1>5, <1>6 DEF PantryInv, CatalogueInv

(* A request comes with nothing but its own reads, or goes without a trace.  *)
LEMMA RowsAreAsTheyWere ==
    ASSUME PantryInv, UNCHANGED <<rows, earlier>>
    PROVE  /\ \E S : rows' \in Seq(S)
           /\ Len(rows') = Len(rows) /\ earlier' = earlier
           /\ Present' \subseteq Present /\ \A i \in Present' : rows'[i] = rows[i]
BY DEF PantryInv, CatalogueInv, Present

LEMMA RowsThatGo ==
    ASSUME PantryInv, NEW lost, RowsGo(lost), earlier' = earlier
    PROVE  /\ \E S : rows' \in Seq(S)
           /\ Len(rows') = Len(rows) /\ earlier' = earlier
           /\ Present' \subseteq Present /\ \A i \in Present' : rows'[i] = rows[i]
<1>1. PICK S : rows \in Seq(S)
  BY DEF PantryInv, CatalogueInv
<1>2. DOMAIN rows = 1..Len(rows) /\ Len(rows) \in Nat
  BY <1>1
<1>3. rows' = [i \in 1..Len(rows) |-> IF i \in lost THEN NoRow ELSE rows[i]]
  BY <1>2 DEF RowsGo
<1>4. rows' \in Seq(S \cup {NoRow}) /\ Len(rows') = Len(rows) /\ DOMAIN rows' = 1..Len(rows)
  BY <1>1, <1>2, <1>3
<1>5. \A i \in Present' : i \in 1..Len(rows) /\ rows'[i] # NoRow
  BY <1>4 DEF Present
<1>6. \A i \in Present' : rows'[i] = rows[i] /\ i \in Present
  BY <1>2, <1>3, <1>5 DEF Present
<1> QED
  BY <1>4, <1>6

LEMMA CommitsCarry ==
    ASSUME Sessions, NEW r \in Requests, NEW things, Commits(r, things)
    PROVE  /\ Sessions' /\ torn \subseteq torn' /\ requests'[r] = Idle
           /\ \A s \in Requests \ {r} : requests'[s] # Idle => Carries(s)
<1>1. /\ Sessions' /\ requests'[r] = Idle
      /\ \A s \in Requests : requests'[s] # Idle =>
            /\ s # r /\ requests[s] # Idle
            /\ requests'[s].phase = requests[s].phase /\ requests'[s].op = requests[s].op
            /\ requests'[s].about = requests[s].about
            /\ requests'[s].behind = requests[s].behind \cup things
      /\ torn' = torn \cup (things \cap requests[r].behind)
  BY CommitsShape
<1> QED
  BY <1>1 DEF Carries

LEMMA OpensCarry ==
    ASSUME Sessions, NEW r \in Requests, NEW op, NEW about, Opens(r, op, about)
    PROVE  /\ Sessions' /\ torn \subseteq torn'
           /\ requests'[r].op = op /\ requests'[r].about = about
           /\ \A s \in Requests \ {r} : requests'[s] # Idle => Carries(s)
<1>1. /\ Sessions' /\ torn' = torn
      /\ requests'[r].op = op /\ requests'[r].about = about
      /\ \A s \in Requests \ {r} : requests'[s] = requests[s]
  BY OpensShape
<1> QED
  BY <1>1 DEF Carries

LEMMA LookUpInv == ASSUME NEW r \in Requests PROVE PantryInv /\ LookUp(r) => PantryInv'
<1> SUFFICES ASSUME PantryInv, LookUp(r) PROVE PantryInv'
  OBVIOUS
<1>1. PICK name \in Written, op \in {"line", "create"} :
        Opens(r, op, [name |-> name, found |-> Find(KeyOf(name))])
  BY DEF LookUp
<1>2. UNCHANGED <<rows, earlier>>
  BY DEF LookUp, catalogueVars
<1>3. /\ Sessions' /\ torn \subseteq torn'
      /\ requests'[r].op = op /\ requests'[r].about = [name |-> name, found |-> Find(KeyOf(name))]
      /\ \A s \in Requests \ {r} : requests'[s] # Idle => Carries(s)
  BY <1>1, OpensCarry DEF PantryInv
<1>4. requests'[r].about.name = name /\ requests'[r].about.found = Find(KeyOf(name))
  BY <1>3
<1>5. Find(KeyOf(name)) = NoRow => Missing(KeyOf(name))
  BY NotFound DEF PantryInv
<1>6. Missing(KeyOf(name)) => Missing(KeyOf(name))'
  BY <1>2 DEF Missing, Present, IdentityKey
<1>7. FreshLook(requests[r])'
  BY <1>4, <1>5, <1>6 DEF FreshLook
<1>8. /\ \E S : rows' \in Seq(S)
      /\ Len(rows') = Len(rows) /\ earlier' = earlier
      /\ Present' \subseteq Present /\ \A i \in Present' : rows'[i] = rows[i]
  BY <1>2, RowsAreAsTheyWere
<1> QED
  BY <1>3, <1>4, <1>7, <1>8, NoNewRow

LEMMA UseFoundInv == ASSUME NEW r \in Requests PROVE PantryInv /\ UseFound(r) => PantryInv'
<1> SUFFICES ASSUME PantryInv, UseFound(r) PROVE PantryInv'
  OBVIOUS
<1>1. Commits(r, {}) /\ UNCHANGED <<rows, earlier>>
  BY DEF UseFound
<1>2. /\ Sessions' /\ torn \subseteq torn' /\ requests'[r] = Idle
      /\ \A s \in Requests \ {r} : requests'[s] # Idle => Carries(s)
  BY <1>1, CommitsCarry DEF PantryInv
<1>3. /\ \E S : rows' \in Seq(S)
      /\ Len(rows') = Len(rows) /\ earlier' = earlier
      /\ Present' \subseteq Present /\ \A i \in Present' : rows'[i] = rows[i]
  BY <1>1, RowsAreAsTheyWere
<1> QED
  BY <1>2, <1>3, NoNewRow

LEMMA AddIngredientInv == ASSUME NEW r \in Requests PROVE PantryInv /\ AddIngredient(r) => PantryInv'
<1> SUFFICES ASSUME PantryInv, AddIngredient(r) PROVE PantryInv'
  OBVIOUS
<1>1. PICK name, key, new :
        name = requests[r].about.name /\ key = KeyOf(name) /\ new = Len(rows) + 1
  OBVIOUS
<1>2. /\ requests[r].op \in {"line", "create"} /\ requests[r].phase = "open" /\ requests[r].about.found = NoRow
      /\ rows' = Append(rows, [name |-> name, key |-> key])
      /\ Commits(r, {key})
      /\ earlier' = earlier
  BY <1>1 DEF AddIngredient, At
<1>3. name \in Written /\ FreshLook(requests[r])
  <2>1. requests[r] # Idle
    BY <1>2 DEF Idle
  <2> QED
    BY <1>1, <1>2, <2>1 DEF PantryInv, CatalogueInv
<1>4. key # Unkeyed
  BY <1>1, <1>3, CatalogueAssumption
<1>5. PICK S : rows \in Seq(S)
  BY DEF PantryInv, CatalogueInv
<1>6. /\ DOMAIN rows = 1..Len(rows) /\ Len(rows) \in Nat
      /\ rows' \in Seq(S \cup {[name |-> name, key |-> key]})
      /\ Len(rows') = new /\ DOMAIN rows' = 1..new
      /\ rows'[new] = [name |-> name, key |-> key]
      /\ \A i \in 1..Len(rows) : rows'[i] = rows[i]
  BY <1>1, <1>2, <1>5
<1>7. /\ \A i \in Present' : i = new \/ i \in Present
      /\ \A i \in Present : i \in 1..Len(rows) /\ rows'[i] = rows[i]
  BY <1>1, <1>6 DEF Present
<1>8. IdentityKey(new)' = key /\ \A i \in Present : IdentityKey(i)' = IdentityKey(i)
  <2>1. rows'[new].key = key
    BY <1>6
  <2> QED
    BY <1>4, <1>7, <2>1 DEF IdentityKey
<1>9. /\ Sessions' /\ requests'[r] = Idle
      /\ \A s \in Requests : requests'[s] # Idle =>
            /\ s # r /\ requests[s] # Idle
            /\ requests'[s].phase = requests[s].phase /\ requests'[s].op = requests[s].op
            /\ requests'[s].about = requests[s].about
            /\ requests'[s].behind = requests[s].behind \cup {key}
      /\ torn' = torn \cup ({key} \cap requests[r].behind)
  BY <1>2, CommitsShape DEF PantryInv
<1>10. Missing(key) \/ key \in torn'
  BY <1>1, <1>2, <1>3, <1>9 DEF FreshLook
<1>11. OneRowPerFood'
  <2> SUFFICES ASSUME NEW i \in Present', NEW j \in Present', i < j, IdentityKey(i)' = IdentityKey(j)'
               PROVE  j <= earlier' \/ IdentityKey(i)' \in torn'
    BY DEF OneRowPerFood
  <2>1. i \in 1..new /\ j \in 1..new
    BY <1>6 DEF Present
  <2>2. CASE j = new
    <3>1. i # new
      BY <1>1, <1>5, <2>1, <2>2
    <3>2. i \in Present /\ IdentityKey(i) = key
      BY <1>7, <1>8, <2>2, <3>1
    <3>3. key \in torn'
      BY <1>10, <3>2 DEF Missing
    <3> QED
      BY <1>8, <3>2, <3>3
  <2>3. CASE j # new
    <3>1. i # new
      BY <1>1, <1>6, <2>1, <2>3
    <3>2. i \in Present /\ j \in Present
      BY <1>7, <2>3, <3>1
    <3>3. j <= earlier \/ IdentityKey(i) \in torn
      BY <1>8, <3>2 DEF PantryInv, CatalogueInv, OneRowPerFood
    <3> QED
      BY <1>2, <1>8, <1>9, <3>2, <3>3
  <2> QED
    BY <2>2, <2>3
<1>12. ASSUME NEW s \in Requests, requests'[s] # Idle, requests'[s].op \in {"line", "create"}
       PROVE  requests'[s].about.name \in Written /\ FreshLook(requests[s])'
  <2>1. /\ requests[s] # Idle /\ requests'[s].about = requests[s].about
        /\ requests[s].op = requests'[s].op /\ requests'[s].behind = requests[s].behind \cup {key}
    BY <1>9, <1>12
  <2>2. requests[s].about.name \in Written /\ FreshLook(requests[s])
    BY <1>12, <2>1 DEF PantryInv, CatalogueInv
  <2>3. PICK k : k = KeyOf(requests[s].about.name)
    OBVIOUS
  <2>4. ASSUME requests'[s].about.found = NoRow, k \notin requests'[s].behind
        PROVE  Missing(k)'
    <3>1. k # key /\ Missing(k)
      BY <2>1, <2>2, <2>3, <2>4 DEF FreshLook
    <3> QED
      BY <1>7, <1>8, <3>1 DEF Missing
  <2> QED
    BY <2>1, <2>2, <2>3, <2>4 DEF FreshLook
<1>13. \A i \in Present' : rows'[i].key = Unkeyed => KeyOf(rows'[i].name) = rows'[i].name
  BY <1>4, <1>6, <1>7 DEF PantryInv, CatalogueInv
<1>14. earlier' <= Len(rows') /\ earlier' \in Nat
  BY <1>1, <1>2, <1>6 DEF PantryInv, CatalogueInv
<1> QED
  BY <1>6, <1>9, <1>11, <1>12, <1>13, <1>14 DEF PantryInv, CatalogueInv

LEMMA MergeInv ==
    ASSUME NEW r \in Requests PROVE PantryInv /\ (AskMerge(r) \/ MergeIngredients(r)) => PantryInv'
<1>1. ASSUME PantryInv, AskMerge(r) PROVE PantryInv'
  <2>1. PICK about : Opens(r, "merge", about)
    BY <1>1 DEF AskMerge
  <2>2. UNCHANGED <<rows, earlier>>
    BY <1>1 DEF AskMerge, catalogueVars
  <2>3. /\ Sessions' /\ torn \subseteq torn' /\ requests'[r].op = "merge"
        /\ \A s \in Requests \ {r} : requests'[s] # Idle => Carries(s)
    BY <1>1, <2>1, OpensCarry DEF PantryInv
  <2>4. /\ \E S : rows' \in Seq(S)
        /\ Len(rows') = Len(rows) /\ earlier' = earlier
        /\ Present' \subseteq Present /\ \A i \in Present' : rows'[i] = rows[i]
    BY <1>1, <2>2, RowsAreAsTheyWere
  <2> QED
    BY <1>1, <2>3, <2>4, NoNewRow
<1>2. ASSUME PantryInv, MergeIngredients(r) PROVE PantryInv'
  <2>1. PICK lost : RowsGo(lost) /\ Commits(r, {}) /\ earlier' = earlier
    BY <1>2 DEF MergeIngredients
  <2>2. /\ Sessions' /\ torn \subseteq torn' /\ requests'[r] = Idle
        /\ \A s \in Requests \ {r} : requests'[s] # Idle => Carries(s)
    BY <1>2, <2>1, CommitsCarry DEF PantryInv
  <2>3. /\ \E S : rows' \in Seq(S)
        /\ Len(rows') = Len(rows) /\ earlier' = earlier
        /\ Present' \subseteq Present /\ \A i \in Present' : rows'[i] = rows[i]
    BY <1>2, <2>1, RowsThatGo
  <2> QED
    BY <1>2, <2>2, <2>3, NoNewRow
<1> QED
  BY <1>1, <1>2

LEMMA DeleteIngredientInv ==
    ASSUME NEW r \in Requests PROVE PantryInv /\ DeleteIngredient(r) => PantryInv'
<1> SUFFICES ASSUME PantryInv, DeleteIngredient(r) PROVE PantryInv'
  OBVIOUS
<1>1. ASSUME NEW about, Opens(r, "delete", about), UNCHANGED catalogueVars PROVE PantryInv'
  <2>1. UNCHANGED <<rows, earlier>>
    BY <1>1 DEF catalogueVars
  <2>2. /\ Sessions' /\ torn \subseteq torn' /\ requests'[r].op = "delete"
        /\ \A s \in Requests \ {r} : requests'[s] # Idle => Carries(s)
    BY <1>1, OpensCarry DEF PantryInv
  <2>3. /\ \E S : rows' \in Seq(S)
        /\ Len(rows') = Len(rows) /\ earlier' = earlier
        /\ Present' \subseteq Present /\ \A i \in Present' : rows'[i] = rows[i]
    BY <2>1, RowsAreAsTheyWere
  <2> QED
    BY <2>2, <2>3, NoNewRow
<1>2. ASSUME NEW lost, RowsGo(lost), Commits(r, {}), earlier' = earlier PROVE PantryInv'
  <2>1. /\ Sessions' /\ torn \subseteq torn' /\ requests'[r] = Idle
        /\ \A s \in Requests \ {r} : requests'[s] # Idle => Carries(s)
    BY <1>2, CommitsCarry DEF PantryInv
  <2>2. /\ \E S : rows' \in Seq(S)
        /\ Len(rows') = Len(rows) /\ earlier' = earlier
        /\ Present' \subseteq Present /\ \A i \in Present' : rows'[i] = rows[i]
    BY <1>2, RowsThatGo
  <2> QED
    BY <2>1, <2>2, NoNewRow
<1> QED
  BY <1>1, <1>2 DEF DeleteIngredient

LEMMA GiveUpInv ==
    ASSUME NEW r \in Requests PROVE PantryInv /\ End(r) /\ UNCHANGED catalogueVars => PantryInv'
<1> SUFFICES ASSUME PantryInv, End(r), UNCHANGED catalogueVars PROVE PantryInv'
  OBVIOUS
<1>1. UNCHANGED <<rows, earlier>>
  BY DEF catalogueVars
<1>2. /\ Sessions' /\ torn' = torn
      /\ \A s \in Requests : requests'[s] # Idle => requests'[s] = requests[s] /\ requests[s] # Idle
  BY EndShape DEF PantryInv
<1>3. \A s \in Requests : requests'[s] # Idle => Carries(s)
  BY <1>2 DEF Carries
<1>4. requests'[r] = Idle
  BY DEF End, PantryInv, Sessions
<1>5. /\ \E S : rows' \in Seq(S)
      /\ Len(rows') = Len(rows) /\ earlier' = earlier
      /\ Present' \subseteq Present /\ \A i \in Present' : rows'[i] = rows[i]
  BY <1>1, RowsAreAsTheyWere
<1> QED
  BY <1>2, <1>3, <1>4, <1>5, NoNewRow

LEMMA PantryStep == PantryInv /\ [PantryNext]_pantryVars => PantryInv'
<1> SUFFICES ASSUME PantryInv, [PantryNext]_pantryVars PROVE PantryInv'
  OBVIOUS
<1>1. ASSUME UNCHANGED <<requests, torn, rows, earlier>> PROVE PantryInv'
  <2>1. Present' = Present
    BY <1>1 DEF Present
  <2>2. \A i : IdentityKey(i)' = IdentityKey(i)
    BY <1>1 DEF IdentityKey
  <2>3. \A q : FreshLook(q) => FreshLook(q)'
    BY <2>1, <2>2 DEF FreshLook, Missing
  <2> QED
    BY <1>1, <2>1, <2>2, <2>3 DEF PantryInv, Sessions, CatalogueInv, OneRowPerFood
<1>2. CASE UNCHANGED <<sessionVars, catalogueVars>> \/ DropLine \/ UNCHANGED pantryVars
  <2>1. UNCHANGED <<requests, torn, rows, earlier>>
    BY <1>2 DEF DropLine, pantryVars, sessionVars, catalogueVars
  <2> QED
    BY <1>1, <2>1
<1>3. ASSUME NEW r \in Requests, CatalogueStep(r) \/ (End(r) /\ UNCHANGED catalogueVars)
      PROVE  PantryInv'
  BY <1>3, LookUpInv, UseFoundInv, AddIngredientInv, MergeInv, DeleteIngredientInv, GiveUpInv
     DEF CatalogueStep
<1> QED
  BY <1>2, <1>3 DEF PantryNext

(* get_or_create_ingredient, merge_ingredients, delete_ingredient: unless two *)
(* requests wrote the same food at once, two rows are of one food only if     *)
(* both are from before names were folded.                                    *)
THEOREM OneRowEach == PantrySpec => []OneRowPerFood
<1>1. PantryInv => OneRowPerFood
  BY DEF PantryInv, CatalogueInv
<1> QED
  BY <1>1, PantryInitially, PantryStep, PTL DEF PantrySpec

-----------------------------------------------------------------------------
(* What is written of an amount.  Normalizing settles a unit: it is canonical, *)
(* a synonym's name, or a word that is its own singular and is not listed.     *)

LEMMA StemIs ==
    ASSUME NEW s, NEW e
    PROVE  Stem(<<s, e>>) = s /\ Ending(<<s, e>>) = e
BY DEF Stem, Ending

LEMMA StemIn ==
    ASSUME NEW stems, NEW w \in OneAndMany(stems)
    PROVE  Stem(w) \in stems
BY DEF OneAndMany, Stem

LEMMA StemsOfNames ==
    /\ Stem(Grams) = "g" /\ Ending(Grams) = "" /\ Stem(Millilitres) = "ml" /\ Ending(Millilitres) = ""
    /\ Stem(Tin) = "tin" /\ Ending(Tin) = "" /\ Stem(Item) = "item" /\ Ending(Item) = ""
BY StemIs DEF Grams, Millilitres, Tin, Item

LEMMA TableIs ==
    ASSUME NEW conversions, NEW u \in DOMAIN Table(conversions)
    PROVE  \E row \in conversions :
              u \in row.units /\ Table(conversions)[u].unit = row.unit /\ Table(conversions)[u].times = row.times
<1>1. \E row \in conversions : u \in row.units
  BY DEF Table
<1> PICK row : row = (CHOOSE r \in conversions : u \in r.units)
  OBVIOUS
<1>2. row \in conversions /\ u \in row.units
  BY <1>1
<1>3. Table(conversions)[u] = [unit |-> row.unit, times |-> row.times]
  BY DEF Table
<1>4. Table(conversions)[u].unit = row.unit /\ Table(conversions)[u].times = row.times
  BY <1>3
<1> HIDE DEF Table
<1> QED
  BY <1>2, <1>4

LEMMA RowIs ==
    ASSUME NEW units, NEW canonical, NEW multiplier
    PROVE  /\ Row(units, canonical, multiplier).units = units
           /\ Row(units, canonical, multiplier).unit = canonical
           /\ Row(units, canonical, multiplier).times = multiplier
BY DEF Row

LEMMA MetricRow ==
    ASSUME NEW row \in MetricRows
    PROVE  /\ row.unit \in {Grams, Millilitres} /\ row.times \in {1, Thousand}
           /\ Grams \in row.units => row.unit = Grams /\ row.times = 1
           /\ Millilitres \in row.units => row.unit = Millilitres /\ row.times = 1
           /\ Tin \notin row.units /\ Item \notin row.units
<1> DEFINE a == {Grams} \cup OneAndMany({"gram"})
           b == {<<"kg", "">>} \cup OneAndMany({"kilogram"})
           c == {Millilitres, <<"millilitr", "e">>, <<"millilitr", "es">>} \cup OneAndMany({"milliliter"})
           d == {<<"l", "">>, <<"litr", "e">>, <<"litr", "es">>} \cup OneAndMany({"liter"})
<1>1. row \in {Row(a, Grams, 1), Row(b, Grams, Thousand), Row(c, Millilitres, 1), Row(d, Millilitres, Thousand)}
  BY Zenon DEF MetricRows
<1>2. \A w \in a : Stem(w) \in {"g", "gram"}
  BY StemsOfNames, StemIn
<1>9. \A w \in b : Stem(w) \in {"kg", "kilogram"}
  BY StemIs, StemIn
<1>10. \A w \in c : Stem(w) \in {"ml", "millilitr", "milliliter"}
  <2> TAKE w \in c
  <2>1. CASE w \in OneAndMany({"milliliter"})
    BY <2>1, StemIn
  <2>2. CASE w = Millilitres
    BY <2>2, StemsOfNames
  <2>3. CASE w = <<"millilitr", "e">> \/ w = <<"millilitr", "es">>
    BY <2>3, StemIs
  <2> QED
    BY <2>1, <2>2, <2>3
<1>11. \A w \in d : Stem(w) \in {"l", "litr", "liter"}
  <2> TAKE w \in d
  <2>1. CASE w \in OneAndMany({"liter"})
    BY <2>1, StemIn
  <2>2. CASE w = <<"l", "">> \/ w = <<"litr", "e">> \/ w = <<"litr", "es">>
    BY <2>2, StemIs
  <2> QED
    BY <2>1, <2>2
<1> HIDE DEF a, b, c, d
<1>4. /\ Grams \notin b /\ Grams \notin c /\ Grams \notin d
      /\ Millilitres \notin a /\ Millilitres \notin b /\ Millilitres \notin d
      /\ Tin \notin a /\ Tin \notin b /\ Tin \notin c /\ Tin \notin d
      /\ Item \notin a /\ Item \notin b /\ Item \notin c /\ Item \notin d
  BY <1>2, <1>9, <1>10, <1>11, StemsOfNames
<1>5. CASE row = Row(a, Grams, 1)
  BY <1>4, <1>5, RowIs
<1>6. CASE row = Row(b, Grams, Thousand)
  BY <1>4, <1>6, RowIs
<1>7. CASE row = Row(c, Millilitres, 1)
  BY <1>4, <1>7, RowIs
<1>8. CASE row = Row(d, Millilitres, Thousand)
  BY <1>4, <1>8, RowIs
<1> QED
  BY <1>1, <1>5, <1>6, <1>7, <1>8

LEMMA IngestRow ==
    ASSUME NEW row \in IngestRows
    PROVE  /\ row.unit \in {Grams, Millilitres} /\ row.times \in Int
           /\ \A w \in {Grams, Millilitres, Tin, Item} : w \notin row.units
<1> DEFINE a == {<<"tsp", "">>} \cup OneAndMany({"teaspoon"})
           b == {<<"tbsp", "">>} \cup OneAndMany({"tablespoon"})
           c == OneAndMany({"cup"})
           d == {<<"oz", "">>, <<"ounc", "e">>, <<"ounc", "es">>}
           e == OneAndMany({"lb", "pound"})
           f == OneAndMany({"pint"})
           g == {<<"fl oz", "">>, <<"floz", "">>}
<1>1. row \in {Row(a, Millilitres, 5), Row(b, Millilitres, 15), Row(c, Millilitres, 240), Row(d, Grams, 28),
               Row(e, Grams, 454), Row(f, Millilitres, 568), Row(g, Millilitres, 28)}
  BY DEF IngestRows
<1>2. \A w \in a : Stem(w) \in {"tsp", "teaspoon"}
  BY StemIs, StemIn
<1>3. \A w \in b : Stem(w) \in {"tbsp", "tablespoon"}
  BY StemIs, StemIn
<1>5. \A w \in c : Stem(w) \in {"cup"}
  BY StemIn
<1>6. \A w \in d : Stem(w) \in {"oz", "ounc"}
  BY StemIs
<1>7. \A w \in e : Stem(w) \in {"lb", "pound"}
  BY StemIn
<1>8. \A w \in f : Stem(w) \in {"pint"}
  BY StemIn
<1>9. \A w \in g : Stem(w) \in {"fl oz", "floz"}
  BY StemIs
<1> HIDE DEF a, b, c, d, e, f, g
<1>4. ASSUME NEW w \in {Grams, Millilitres, Tin, Item}
      PROVE  /\ w \notin a /\ w \notin b /\ w \notin c /\ w \notin d
             /\ w \notin e /\ w \notin f /\ w \notin g
  <2>1. Stem(w) \in {"g", "ml", "tin", "item"}
    BY StemsOfNames
  <2> QED
    BY <1>2, <1>3, <1>5, <1>6, <1>7, <1>8, <1>9, <2>1
<1> QED
  BY <1>1, <1>4, RowIs

LEMMA MetricIs ==
    ASSUME NEW u \in DOMAIN MetricUnits
    PROVE  /\ MetricUnits[u].unit \in {Grams, Millilitres} /\ MetricUnits[u].times \in {1, Thousand}
           /\ u \in {Grams, Millilitres} => MetricUnits[u].unit = u /\ MetricUnits[u].times = 1
<1>1. PICK row \in MetricRows :
         u \in row.units /\ MetricUnits[u].unit = row.unit /\ MetricUnits[u].times = row.times
  BY TableIs DEF MetricUnits
<1> QED
  BY <1>1, MetricRow

LEMMA CanonicalIsMetric == {Grams, Millilitres} \subseteq DOMAIN MetricUnits
<1>1. DOMAIN MetricUnits = UNION {row.units : row \in MetricRows}
  BY DEF MetricUnits, Table
<1>2. \E row \in MetricRows : Grams \in row.units
  BY DEF MetricRows, Row
<1>3. \E row \in MetricRows : Millilitres \in row.units
  BY DEF MetricRows, Row
<1> QED
  BY <1>1, <1>2, <1>3

LEMMA ConversionsAreWhole ==
    ASSUME NEW u \in DOMAIN Table(MetricRows \cup IngestRows)
    PROVE  /\ Table(MetricRows \cup IngestRows)[u].times \in Int
           /\ Table(MetricRows \cup IngestRows)[u].unit \in {Grams, Millilitres}
<1>3. PICK row \in MetricRows \cup IngestRows :
         /\ Table(MetricRows \cup IngestRows)[u].unit = row.unit
         /\ Table(MetricRows \cup IngestRows)[u].times = row.times
  BY TableIs
<1>4. Thousand \in Int
  BY DEF Thousand
<1> QED
  BY <1>3, <1>4, MetricRow, IngestRow

(* A word is singular once: its singular is its own singular.              *)
LEMMA SingularOnce ==
    ASSUME NEW word
    PROVE  Singularize(Singularize(word)) = Singularize(word)
<1> DEFINE to == Singularize(word)
<1>1. DOMAIN IrregularSingulars = {<<s, "ves">> : s \in {"lea", "hal"}}
           \cup {<<s, "es">> : s \in {"bunch", "pinch", "dash", "clov", "slic"}}
  BY DEF IrregularSingulars
<1>2. \E s, e : e \in {"", "e", "f", "oe", "ve", "u", "i", "y"} /\ to \in {word, <<s, e>>}
  <2>1. CASE word \in DOMAIN IrregularSingulars
    <3>1. to = IrregularSingulars[word]
      BY <2>1 DEF Singularize
    <3>2. \E e \in {"", "e", "f"} : IrregularSingulars[word] = <<Stem(word), e>>
      <4> PICK e : e = CASE Ending(word) = "ves" -> "f" [] Stem(word) \in {"clov", "slic"} -> "e" [] OTHER -> ""
        OBVIOUS
      <4>1. IrregularSingulars[word] = <<Stem(word), e>>
        BY <1>1, <2>1 DEF IrregularSingulars
      <4>2. e \in {"", "e", "f"}
        OBVIOUS
      <4> QED
        BY <4>1, <4>2
    <3> QED
      BY <3>1, <3>2
  <2>2. CASE word \notin DOMAIN IrregularSingulars /\ Ending(word) = "ies"
    BY <2>2 DEF Singularize, Sibilant, WithoutS
  <2>3. CASE word \notin DOMAIN IrregularSingulars /\ Sibilant(word, Hissing)
    BY <2>3 DEF Singularize, Sibilant, WithoutS
  <2>4. CASE word \notin DOMAIN IrregularSingulars /\ Ending(word) # "ies" /\ ~Sibilant(word, Hissing)
    <3>1. CASE Ending(word) \in DOMAIN WithoutS
      <4>1. to = <<Stem(word), WithoutS[Ending(word)]>>
        BY <2>4, <3>1 DEF Singularize
      <4>2. WithoutS[Ending(word)] \in {"", "e", "oe", "ve", "u", "i"}
        <5>1. DOMAIN WithoutS = {"s", "es", "oes", "ves", "ies", "us", "is"}
          BY DEF WithoutS
        <5>2. /\ WithoutS["s"] = "" /\ WithoutS["es"] = "e" /\ WithoutS["oes"] = "oe"
              /\ WithoutS["ves"] = "ve" /\ WithoutS["us"] = "u" /\ WithoutS["is"] = "i"
          BY DEF WithoutS
        <5> QED
          BY <2>4, <3>1, <5>1, <5>2
      <4> QED
        BY <4>1, <4>2
    <3>2. CASE Ending(word) \notin DOMAIN WithoutS
      <4>1. to = word
        BY <2>4, <3>2 DEF Singularize
      <4> QED
        BY <4>1
    <3> QED
      BY <3>1, <3>2
  <2> QED
    BY <2>1, <2>2, <2>3, <2>4
<1>3. ASSUME NEW s, NEW e \in {"", "e", "f", "oe", "ve", "u", "i", "y"}
      PROVE  Singularize(<<s, e>>) = <<s, e>>
  <2>1. <<s, e>> \notin DOMAIN IrregularSingulars
    BY <1>1
  <2>2. e \notin {"s", "es", "oes", "ves", "ies", "us", "is"}
    BY <1>3
  <2>3. DOMAIN WithoutS = {"s", "es", "oes", "ves", "ies", "us", "is"}
    BY DEF WithoutS
  <2> QED
    BY <2>1, <2>2, <2>3 DEF Singularize, Ending, Sibilant
<1>4. CASE to = word
  BY <1>4
<1> QED
  BY <1>2, <1>3, <1>4

(* A unit that is stored as it is and measures the same again.             *)
Settled(unit) ==
    IsAccepted(unit) /\ NormalizeUnit(unit).unit = unit /\ NormalizeUnit(unit).times = 1

LEMMA CanonicalSettled ==
    ASSUME NEW unit \in {Grams, Millilitres}
    PROVE  Settled(unit)
<1>1. unit \in DOMAIN MetricUnits /\ MetricUnits[unit].unit = unit /\ MetricUnits[unit].times = 1
  BY MetricIs, CanonicalIsMetric
<1>2. DOMAIN IngestConversions = UNION {row.units : row \in IngestRows}
  BY DEF IngestConversions, Table
<1>3. unit \notin DOMAIN IngestConversions
  BY <1>2, IngestRow
<1>4. unit \notin {<<"quart", "">>, <<"gallon", "">>} \cup OneAndMany({"stick"})
  <2>1. Stem(unit) \in {"g", "ml"}
    BY StemsOfNames
  <2>2. \A w \in {<<"quart", "">>, <<"gallon", "">>} \cup OneAndMany({"stick"}) :
           Stem(w) \in {"quart", "gallon", "stick"}
    BY StemIs, StemIn
  <2> QED
    BY <2>1, <2>2
<1> QED
  BY <1>1, <1>3, <1>4 DEF Settled, IsAccepted, NormalizeUnit, BannedUnits

LEMMA NamesSingular ==
    ASSUME NEW unit \in {Grams, Millilitres, Tin, Item}
    PROVE  Singularize(unit) = unit
<1>1. Ending(unit) = ""
  BY StemsOfNames
<1>2. \A w \in DOMAIN IrregularSingulars : Ending(w) \in {"ves", "es"}
  <2>1. DOMAIN IrregularSingulars = {<<s, "ves">> : s \in {"lea", "hal"}}
           \cup {<<s, "es">> : s \in {"bunch", "pinch", "dash", "clov", "slic"}}
    BY DEF IrregularSingulars
  <2> QED
    BY <2>1, StemIs
<1>3. DOMAIN WithoutS = {"s", "es", "oes", "ves", "ies", "us", "is"}
  BY DEF WithoutS
<1> QED
  BY <1>1, <1>2, <1>3 DEF Singularize, Sibilant

LEMMA NamesSettled ==
    ASSUME NEW unit \in {Tin, Item}
    PROVE  Settled(unit) /\ Singularize(unit) = unit
<1>1. DOMAIN IngestConversions = UNION {row.units : row \in IngestRows}
  BY DEF IngestConversions, Table
<1>2. unit \notin DOMAIN IngestConversions
  BY <1>1, IngestRow
<1>3. DOMAIN MetricUnits = UNION {row.units : row \in MetricRows}
  BY DEF MetricUnits, Table
<1>4. unit \notin DOMAIN MetricUnits
  BY <1>3, MetricRow
<1>10. Stem(unit) \in {"tin", "item"} /\ Ending(unit) = ""
  BY StemsOfNames
<1>5. unit \notin {<<"quart", "">>, <<"gallon", "">>} \cup OneAndMany({"stick"})
  <2>1. \A w \in {<<"quart", "">>, <<"gallon", "">>} \cup OneAndMany({"stick"}) :
           Stem(w) \in {"quart", "gallon", "stick"}
    BY StemIs, StemIn
  <2> QED
    BY <1>10, <2>1
<1>6. unit \notin DOMAIN UnitSynonyms
  <2>1. \A w \in InTins : Stem(w) \in {"can", "tinned"}
    BY StemIs, StemIn DEF InTins
  <2>2. \A w \in InItems : Stem(w) \in {"pc", "piec", "x"}
    <3> TAKE w \in InItems
    <3>1. CASE w \in OneAndMany({"pc"})
      BY <3>1, StemIn
    <3>2. CASE w = <<"piec", "e">> \/ w = <<"piec", "es">>
      BY <3>2, StemIs
    <3>3. CASE w = <<"x", "">>
      BY <3>3, StemIs
    <3> QED
      BY <3>1, <3>2, <3>3 DEF InItems
  <2>3. DOMAIN UnitSynonyms = InTins \cup InItems
    BY DEF UnitSynonyms
  <2> QED
    BY <1>10, <2>1, <2>2, <2>3
<1>7. unit \notin NotAWord
  BY PantryAssumption
<1>8. Singularize(unit) = unit
  BY NamesSingular
<1> QED
  BY <1>2, <1>4, <1>5, <1>6, <1>7, <1>8 DEF Settled, IsAccepted, NormalizeUnit, BannedUnits, UnitSynonym

LEMMA SingularSettled ==
    ASSUME NEW unit,
           Singularize(unit) \notin DOMAIN MetricUnits \cup BannedUnits \cup DOMAIN UnitSynonyms \cup NotAWord
    PROVE  Settled(Singularize(unit))
BY SingularOnce DEF Settled, IsAccepted, NormalizeUnit, UnitSynonym

LEMMA NormalizedSettles ==
    ASSUME NEW unit, IsAccepted(unit),
           (unit # NoAmount /\ ~UnlistedPlural(unit)) \/ Singularize(unit) = unit
    PROVE  Settled(NormalizeUnit(unit).unit) /\ NormalizeUnit(unit).times \in Int
<1>1. CASE unit \in DOMAIN MetricUnits
  <2>1. NormalizeUnit(unit) = MetricUnits[unit]
    BY <1>1 DEF NormalizeUnit
  <2>2. Thousand \in Int
    BY DEF Thousand
  <2> QED
    BY <1>1, <2>1, <2>2, MetricIs, CanonicalSettled
<1>2. CASE unit \notin DOMAIN MetricUnits
  <2>1. NormalizeUnit(unit).unit = Singularize(UnitSynonym(unit)) /\ NormalizeUnit(unit).times = 1
    BY <1>2 DEF NormalizeUnit
  <2>2. CASE unit \in DOMAIN UnitSynonyms
    <3>1. UnitSynonym(unit) \in {Tin, Item}
      BY <2>2 DEF UnitSynonym, UnitSynonyms
    <3> QED
      BY <2>1, <3>1, NamesSettled
  <2>3. CASE unit \notin DOMAIN UnitSynonyms
    <3>1. UnitSynonym(unit) = unit
      BY <2>3 DEF UnitSynonym
    <3>2. unit \notin BannedUnits /\ unit \notin NotAWord
      BY <1>2 DEF IsAccepted
    <3>3. Singularize(unit) \notin DOMAIN MetricUnits \cup BannedUnits \cup DOMAIN UnitSynonyms \cup NotAWord
      BY <1>2, <2>3, <3>2 DEF UnlistedPlural
    <3> QED
      BY <2>1, <3>1, <3>3, SingularSettled
  <2> QED
    BY <2>2, <2>3
<1> QED
  BY <1>1, <1>2

LEMMA StoredStays ==
    ASSUME NEW amount, NEW a \in Accepted(amount),
           amount # NoAmount =>
              /\ amount.quantity \in Int
              /\ \/ amount.unit # NoAmount /\ ~UnlistedPlural(amount.unit)
                 \/ Singularize(amount.unit) = amount.unit
    PROVE  Accepted(a) = {a}
<1>1. CASE a = NoAmount
  BY <1>1 DEF Accepted
<1>2. CASE a # NoAmount
  <2>1. amount # NoAmount
    BY <1>2 DEF Accepted
  <2>2. a \in NormalizeQuantity(amount.quantity, amount.unit)
    BY <2>1 DEF Accepted
  <2> DEFINE u == NormalizeUnit(amount.unit).unit
             t == NormalizeUnit(amount.unit).times
             v == Round3(amount.quantity * t)
  <2>3. IsAccepted(amount.unit) /\ ~(v <= 0) /\ a = [quantity |-> v, unit |-> u]
    BY <2>2 DEF NormalizeQuantity
  <2>4. Settled(u) /\ t \in Int
    BY <2>1, <2>3, NormalizedSettles
  <2>5. v \in Int /\ Round3(v) = v
    <3>1. amount.quantity * t \in Int
      BY <2>1, <2>4
    <3>2. \A q \in Int : Round3(q) \in Int /\ Round3(Round3(q)) = Round3(q)
      BY DEF Round3
    <3> QED
      BY <3>1, <3>2
  <2> HIDE DEF u, t, v
  <2>6. a.quantity = v /\ a.unit = u
    BY <2>3
  <2>7. Accepted(a) = NormalizeQuantity(v, u)
    BY <1>2, <2>3, <2>5, <2>6 DEF Accepted
  <2>8. Round3(v * NormalizeUnit(u).times) = v
    BY <2>4, <2>5 DEF Settled
  <2>9. NormalizeQuantity(v, u) = {[quantity |-> v, unit |-> u]}
    BY <2>3, <2>4, <2>8 DEF NormalizeQuantity, Settled
  <2> QED
    BY <2>3, <2>7, <2>9
<1> QED
  BY <1>1, <1>2

(* What the ingestion has read of an amount is in the singular.            *)
ReadAmount(amount) ==
    amount # NoAmount => amount.quantity \in Int /\ Singularize(amount.unit) = amount.unit

LEMMA ConvertedIs ==
    ASSUME NEW quantity \in Int, NEW unit
    PROVE  ReadAmount(ConvertUnit(quantity, unit))
<1>1. \A q \in Int : Round3(q) \in Int
  BY DEF Round3
<1>2. CASE unit \in DOMAIN Table(MetricRows \cup IngestRows)
  <2> PICK to : to = Table(MetricRows \cup IngestRows)[unit]
    OBVIOUS
  <2>1. to.times \in Int /\ to.unit \in {Grams, Millilitres}
    BY <1>2, ConversionsAreWhole
  <2>2. ConvertUnit(quantity, unit) = [quantity |-> Round3(quantity * to.times), unit |-> to.unit]
    BY <1>2 DEF ConvertUnit
  <2>3. quantity * to.times \in Int
    BY <2>1
  <2> QED
    BY <1>1, <2>1, <2>2, <2>3, NamesSingular DEF ReadAmount
<1>3. CASE unit \notin DOMAIN Table(MetricRows \cup IngestRows)
  <2>1. ConvertUnit(quantity, unit) = [quantity |-> quantity, unit |-> Singularize(UnitSynonym(unit))]
    BY <1>3 DEF ConvertUnit
  <2> QED
    BY <2>1, SingularOnce DEF ReadAmount
<1> QED
  BY <1>2, <1>3

LEMMA ParsedIs ==
    ASSUME NEW line \in PageLines
    PROVE  ReadAmount(ParseIngredientLine(line).amount)
<1>1. \A name, amount : NamedLine(name, amount).amount = amount
  BY DEF NamedLine
<1>2. CASE line.number = NoNumber
  <2>1. ParseIngredientLine(line) = NamedLine(CleanName(line.words), NoAmount)
    BY <1>2 DEF ParseIngredientLine
  <2> QED
    BY <1>1, <2>1 DEF ReadAmount
<1>3. CASE line.number # NoNumber /\ (IsMultiplied(line) \/ IsCounted(line))
  <2>1. ParseIngredientLine(line) =
          NamedLine(CleanName(AfterContainer(Tail(line.words))), ConvertUnit(line.number * line.packs, line.words[1]))
    BY <1>3 DEF ParseIngredientLine, IsMultiplied, IsCounted
  <2>2. line.number * line.packs \in Int
    BY <1>3, PantryAssumption
  <2> QED
    BY <1>1, <2>1, <2>2, ConvertedIs
<1>4. CASE line.number # NoNumber /\ line.packs = 0 /\ HasUnit(line.words)
  <2>1. ParseIngredientLine(line) = NamedLine(CleanName(Tail(line.words)), ConvertUnit(line.number, line.words[1]))
    BY <1>4 DEF ParseIngredientLine, IsMultiplied, IsCounted
  <2>2. line.number \in Int
    BY <1>4, PantryAssumption
  <2> QED
    BY <1>1, <2>1, <2>2, ConvertedIs
<1>5. CASE line.number # NoNumber /\ line.packs = 0 /\ ~HasUnit(line.words)
  <2> PICK lifted : lifted = LiftTrailingUnit(CleanName(line.words))
    OBVIOUS
  <2>1. ParseIngredientLine(line) = NamedLine(lifted.name, [quantity |-> line.number, unit |-> lifted.unit])
    BY <1>5 DEF ParseIngredientLine, IsMultiplied, IsCounted
  <2>2. line.number \in Int
    BY <1>5, PantryAssumption
  <2>3. Singularize(lifted.unit) = lifted.unit
    BY SingularOnce, NamesSingular DEF LiftTrailingUnit
  <2> QED
    BY <1>1, <2>1, <2>2, <2>3 DEF ReadAmount
<1> QED
  BY <1>2, <1>3, <1>4, <1>5, PantryAssumption

WritingInv ==
    /\ stored # NoLine => stored = NamedLine(stored.name, stored.amount)
    /\ LinesCanBeWrittenBack

LEMMA SendWrites ==
    ASSUME NEW amount, NEW name, stored' = NamedLine(name, amount), Accepted(amount) = {amount}
    PROVE  WritingInv'
<1>1. stored'.name = name /\ stored'.amount = amount
  BY DEF NamedLine
<1> QED
  BY <1>1 DEF WritingInv, LinesCanBeWrittenBack

LEMMA WritingStep == WritingInv /\ [PantryNext]_pantryVars => WritingInv'
<1> SUFFICES ASSUME WritingInv, [PantryNext]_pantryVars PROVE WritingInv'
  OBVIOUS
<1>1. CASE UNCHANGED <<stored, sentUnit>>
  BY <1>1 DEF WritingInv, LinesCanBeWrittenBack
<1>2. CASE Ingest
  <2>1. PICK line \in PageLines : stored' = IngestedLine(line)
    BY <1>2 DEF Ingest
  <2> PICK item : item = ParseIngredientLine(line)
    OBVIOUS
  <2> PICK amounts : amounts = Accepted(item.amount)
    OBVIOUS
  <2> PICK amount : amount = IF amounts = {} THEN NoAmount ELSE CHOOSE a \in amounts : TRUE
    OBVIOUS
  <2>2. PICK name : stored' = NamedLine(name, amount)
    <3>1. IngestedLine(line) = NamedLine(IF item.name = <<>> THEN line.words ELSE item.name, amount)
      BY DEF IngestedLine
    <3> QED
      BY <2>1, <3>1
  <2>3. Accepted(amount) = {amount}
    <3>1. CASE amounts = {}
      BY <3>1 DEF Accepted
    <3>2. CASE amounts # {}
      <4>1. amount \in Accepted(item.amount)
        BY <3>2
      <4>2. ReadAmount(item.amount)
        BY ParsedIs
      <4> QED
        BY <4>1, <4>2, StoredStays DEF ReadAmount
    <3> QED
      BY <3>1, <3>2
  <2> QED
    BY <2>2, <2>3, SendWrites
<1>3. CASE Send
  <2>1. PICK quantity \in Quantities, unit \in SentUnits :
          /\ \E amount \in Accepted([quantity |-> quantity, unit |-> unit]) :
                stored' = NamedLine(spelled, amount)
          /\ sentUnit' = unit
    BY <1>3 DEF Send
  <2> PICK sent : sent = [quantity |-> quantity, unit |-> unit]
    OBVIOUS
  <2>2. PICK amount \in Accepted(sent) : stored' = NamedLine(spelled, amount)
    BY <2>1
  <2>3. sent.quantity \in Int /\ sent.unit = unit /\ unit # NoAmount
    BY PantryAssumption
  <2>4. CASE UnlistedPlural(unit)
    <3>1. stored'.name = spelled /\ stored'.amount = amount
      BY <2>2 DEF NamedLine
    <3>2. UnlistedPlural(sentUnit')
      BY <2>1, <2>4
    <3> QED
      BY <2>2, <3>1, <3>2 DEF WritingInv, LinesCanBeWrittenBack, UnlistedPlural
  <2>5. CASE ~UnlistedPlural(unit)
    <3>1. Accepted(amount) = {amount}
      BY <2>3, <2>5, StoredStays
    <3> QED
      BY <2>2, <3>1, SendWrites
  <2> QED
    BY <2>4, <2>5
<1>4. CASE WriteBack
  <2>1. stored # NoLine /\ sentUnit' = sentUnit
    BY <1>4 DEF WriteBack
  <2>2. PICK amount \in Accepted(stored.amount) : stored' = [stored EXCEPT !.amount = amount]
    BY <1>4 DEF WriteBack
  <2>3. stored = NamedLine(stored.name, stored.amount)
    BY <2>1 DEF WritingInv
  <2>4. stored' = NamedLine(stored.name, amount)
    BY <2>2, <2>3 DEF NamedLine
  <2>5. CASE UnlistedPlural(sentUnit)
    <3>1. stored'.name = stored.name /\ stored'.amount = amount
      BY <2>4 DEF NamedLine
    <3>2. UnlistedPlural(sentUnit')
      BY <2>1, <2>5
    <3> QED
      BY <2>4, <3>1, <3>2 DEF WritingInv, LinesCanBeWrittenBack, UnlistedPlural
  <2>6. CASE ~UnlistedPlural(sentUnit)
    <3>1. Accepted(stored.amount) = {stored.amount}
      BY <2>1, <2>6 DEF WritingInv, LinesCanBeWrittenBack
    <3>2. Accepted(amount) = {amount}
      BY <2>2, <3>1
    <3> QED
      BY <2>4, <3>2, SendWrites
  <2> QED
    BY <2>5, <2>6
<1>5. UNCHANGED <<stored, sentUnit>> \/ Ingest \/ Send \/ WriteBack
  BY DEF PantryNext, pantryVars, wordVars, SpellOn
<1> QED
  BY <1>1, <1>2, <1>3, <1>4, <1>5

(* Whatever was read off a page or sent by a client, a stored line is accepted *)
(* as it is and means the same when a client writes it back, unless it was    *)
(* sent in the plural of a unit that is listed without it.                    *)
THEOREM StoredLinesStay == PantrySpec => []LinesCanBeWrittenBack
<1>1. PantryInit => WritingInv
  BY DEF PantryInit, WritingInv, LinesCanBeWrittenBack
<1>2. WritingInv => LinesCanBeWrittenBack
  BY DEF WritingInv
<1>3. QED
  BY <1>1, <1>2, WritingStep, PTL DEF PantrySpec
================================================================================
