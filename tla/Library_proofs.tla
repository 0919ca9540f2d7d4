----------------------------- MODULE Library_proofs -----------------------------
(***************************************************************************)
(* For any table of limits the server may start with, any household and    *)
(* any number of requests: the published allowance is the enforced one,    *)
(* pages are not read for free, and what is written is written whole,      *)
(* unless requests overlapped on it.                                       *)
(***************************************************************************)
EXTENDS Library, FiniteSetTheorems, TLAPS

-----------------------------------------------------------------------------
(* Limits. *)

(* A server that passes its checks at start runs with a table of limits,    *)
(* which is all that is assumed of it below (check_settings, _table).       *)
LEMMA SettingsMakeATable ==
    ASSUME NEW profile, NEW t, NEW settings, NEW instance,
           CheckSettings(profile, t, settings, instance)
    PROVE  Overridden(profile, settings) \in [LimitSets -> [Resources -> Limit]]
<1>1. \A s \in LimitSets, res \in Resources : Profile(profile)[s][res] \in Limit
  BY SMTT(30) DEF Profile, Hosted, UnlimitedLimits, Limit, LimitSets, Tiers, Resources, NoLimit
<1>2. \A s \in LimitSets, res \in Resources :
        <<s, res>> \in DOMAIN settings => settings[<<s, res>>] \in Limit
  BY DEF CheckSettings
<1> QED
  BY <1>1, <1>2 DEF Overridden

LEMMA LimitIsALimit ==
    ASSUME NEW t \in Tiers, NEW res \in Resources
    PROVE  LimitsFor(t)[res] \in Limit /\ Ceilings[res] \in Limit
BY LimitsAssumption DEF LimitsFor, Ceilings, LimitSets, Tiers

LEMMA LimitIsPublished ==
    ASSUME NEW t \in Tiers, NEW res \in Resources
    PROVE  Effective(t, res).limit \in Limit
<1>1. PICK cap : cap = LimitsFor(t)[res]  OBVIOUS
<1>2. PICK ceiling : ceiling = Ceilings[res]  OBVIOUS
<1>3. cap \in Limit /\ ceiling \in Limit  BY <1>1, <1>2, LimitIsALimit
<1> QED
  BY <1>1, <1>2, <1>3 DEF Effective

(* The number that is published is the smaller of the two: what exceeds it  *)
(* exceeds one of them, and the other way round.                            *)
LEMMA SmallerOfTwo ==
    ASSUME NEW t \in Tiers, NEW res \in Resources, NEW n \in Nat
    PROVE  Exceeds(n, Effective(t, res).limit)
             <=> (Exceeds(n, Ceilings[res]) \/ Exceeds(n, LimitsFor(t)[res]))
<1>1. PICK cap : cap = LimitsFor(t)[res]  OBVIOUS
<1>2. PICK ceiling : ceiling = Ceilings[res]  OBVIOUS
<1>3. cap \in Limit /\ ceiling \in Limit  BY <1>1, <1>2, LimitIsALimit
<1>4. Effective(t, res).limit = IF ceiling # NoLimit /\ (cap = NoLimit \/ cap >= ceiling) THEN ceiling ELSE cap
  BY <1>1, <1>2, Zenon DEF Effective
<1> QED
  BY <1>1, <1>2, <1>3, <1>4 DEF Exceeds, Limit, NoLimit

(* A write is refused exactly when it exceeds the published number.         *)
LEMMA RefusedWhenExceeded ==
    ASSUME NEW t \in Tiers, NEW res \in Resources, NEW used \in Nat, NEW adding \in Nat
    PROVE  Refused(t, res, used, adding) <=> Exceeds(used + adding, Effective(t, res).limit)
<1>0. used + adding \in Nat  OBVIOUS
<1>1. Verdict(t, res, used, adding) # "ok"
        <=> (Exceeds(used + adding, Ceilings[res]) \/ Exceeds(used + adding, LimitsFor(t)[res]))
  <2>1. CASE Exceeds(used + adding, Ceilings[res])  BY <2>1 DEF Verdict
  <2>2. CASE ~Exceeds(used + adding, Ceilings[res]) /\ Exceeds(used + adding, LimitsFor(t)[res])
    BY <2>2 DEF Verdict
  <2>3. CASE ~Exceeds(used + adding, Ceilings[res]) /\ ~Exceeds(used + adding, LimitsFor(t)[res])
    BY <2>3 DEF Verdict
  <2> QED  BY <2>1, <2>2, <2>3
<1>2. Verdict(t, res, used, adding) # "ok" => AnythingConfigured /\ HasLimit(t, res)
  <2>1. HasLimit(t, res) => AnythingConfigured
    BY LimitsAssumption DEF HasLimit, AnythingConfigured, LimitsFor, Ceilings, LimitSets, Tiers
  <2>2. Verdict(t, res, used, adding) # "ok" => HasLimit(t, res)
    BY <1>1 DEF Exceeds, HasLimit
  <2> QED  BY <2>1, <2>2
<1>3. Exceeds(used + adding, Effective(t, res).limit)
        <=> (Exceeds(used + adding, Ceilings[res]) \/ Exceeds(used + adding, LimitsFor(t)[res]))
  BY <1>0, SmallerOfTwo
<1> QED
  BY <1>1, <1>2, <1>3, Zenon DEF Refused

(* Whatever the limits are and however many there are of a resource, what    *)
(* GET /limits publishes is what the next write meets.                       *)
LEMMA PublishedIsAlwaysEnforced ==
    ASSUME NEW t \in Tiers, NEW res \in Resources, NEW used \in Nat
    PROVE  PublishedIsEnforced(t, res, used)
<1>1. PICK limit : limit = Effective(t, res).limit  OBVIOUS
<1>2. limit \in Limit  BY <1>1, LimitIsPublished
<1>3. PICK left : left = Remaining(t, res, used)  OBVIOUS
<1>4. left = IF limit = NoLimit THEN NoLimit ELSE IF used >= limit THEN 0 ELSE limit - used
  BY <1>1, <1>3 DEF Remaining
<1>5. left \in Limit  BY <1>2, <1>4 DEF Limit, NoLimit
<1>6. left = NoLimit => ~Refused(t, res, used, 1)
  BY <1>1, <1>2, <1>4, RefusedWhenExceeded DEF Exceeds, Limit, NoLimit
<1>7. left > 0 => ~Refused(t, res, used, left)
  <2> SUFFICES ASSUME left > 0 PROVE ~Refused(t, res, used, left)  OBVIOUS
  <2>1. left \in Nat /\ ~Exceeds(used + left, limit)
    BY <1>2, <1>4, <1>5 DEF Exceeds, Limit, NoLimit
  <2> QED  BY <2>1, <1>1, RefusedWhenExceeded
<1>8. left >= 0 => Refused(t, res, used, left + 1)
  <2> SUFFICES ASSUME left >= 0 PROVE Refused(t, res, used, left + 1)  OBVIOUS
  <2>1. left + 1 \in Nat /\ Exceeds(used + (left + 1), limit)
    BY <1>2, <1>4, <1>5 DEF Exceeds, Limit, NoLimit
  <2> QED  BY <2>1, <1>1, RefusedWhenExceeded
<1>9. used = limit => (Verdict(t, res, used, 1) = "402" <=> Effective(t, res).upgradable)
  <2> SUFFICES ASSUME used = limit PROVE Verdict(t, res, used, 1) = "402" <=> Effective(t, res).upgradable
    OBVIOUS
  <2>1. PICK cap : cap = LimitsFor(t)[res]  OBVIOUS
  <2>2. PICK ceiling : ceiling = Ceilings[res]  OBVIOUS
  <2>3. cap \in Limit /\ ceiling \in Limit  BY <2>1, <2>2, LimitIsALimit
  <2>4. CASE ceiling # NoLimit /\ (cap = NoLimit \/ cap >= ceiling)
    <3>1. Effective(t, res) = [limit |-> ceiling, upgradable |-> FALSE]
      BY <2>1, <2>2, <2>4, Zenon DEF Effective
    <3>2. Exceeds(used + 1, ceiling)  BY <3>1, <1>1, <2>3, <2>4 DEF Exceeds, Limit, NoLimit
    <3>3. Verdict(t, res, used, 1) = "403"  BY <3>2, <2>2 DEF Verdict
    <3> QED  BY <3>1, <3>3
  <2>5. CASE ~(ceiling # NoLimit /\ (cap = NoLimit \/ cap >= ceiling))
    <3>1. Effective(t, res) = [limit |-> cap, upgradable |-> cap # NoLimit /\ Upgradable(t, res, cap)]
      BY <2>1, <2>2, <2>5, Zenon DEF Effective
    <3>2. cap # NoLimit /\ Exceeds(used + 1, cap) /\ ~Exceeds(used + 1, ceiling)
      BY <3>1, <1>1, <2>3, <2>5 DEF Exceeds, Limit, NoLimit
    <3>3. Verdict(t, res, used, 1) = IF Upgradable(t, res, cap) THEN "402" ELSE "403"
      BY <3>2, <2>1, <2>2 DEF Verdict
    <3>4. Effective(t, res).upgradable <=> Upgradable(t, res, cap)
      <4>1. Effective(t, res).upgradable = (cap # NoLimit /\ Upgradable(t, res, cap))  BY <3>1
      <4> QED  BY <4>1, <3>2, Zenon
    <3> QED  BY <3>3, <3>4
  <2> QED  BY <2>4, <2>5
<1> QED
  BY <1>1, <1>3, <1>6, <1>7, <1>8, <1>9 DEF PublishedIsEnforced

-----------------------------------------------------------------------------
(* The inductive invariant. *)
StoredUrls == {u \in Urls : Stored(u)}
Active == {r \in Requests : requests[r] # Idle}

Row(x) ==
    /\ x = [stored |-> x.stored, edited |-> x.edited, lines |-> x.lines]
    /\ x.stored \in BOOLEAN /\ x.edited \in BOOLEAN
Count(c) == c = [month |-> c.month, used |-> c.used] /\ c.month \in Nat /\ c.used \in Nat
Request(q) ==
    /\ q = [phase |-> q.phase, op |-> q.op, url |-> q.url, force |-> q.force, number |-> q.number,
            tier |-> q.tier, counter |-> q.counter, edited |-> q.edited, charged |-> q.charged,
            version |-> q.version, old |-> q.old, behind |-> q.behind]
    /\ q.phase \in {"loaded", "reserved", "fetched", "staged"}
    /\ q.url \in Urls /\ q.tier \in Tiers /\ Count(q.counter) /\ q.edited \in BOOLEAN
    /\ q.charged \in Nat

Typed ==
    /\ tier \in Tiers
    /\ month \in Nat /\ fetches \in Nat
    /\ Count(counter) /\ counter.month <= month
    /\ recipes = [u \in Urls |-> recipes[u]]
    /\ \A u \in Urls : Row(recipes[u])
    /\ IsFiniteSet(StoredUrls)

Serving ==
    /\ requests = [r \in Requests |-> requests[r]]
    /\ \A r \in Active : Request(requests[r]) /\ requests[r].charged <= month
    /\ IsFiniteSet(Active)

(* What a request read is so as long as nobody has written it since. *)
Fresh(q) ==
    /\ q.phase = "loaded" /\ Counter \notin q.behind => q.counter = counter
    /\ q.op \in {"reparse", "update"} /\ q.url \notin q.behind =>
          /\ Stored(q.url) /\ recipes[q.url].edited = q.edited
          /\ q.phase = "staged" => recipes[q.url].lines = q.old
    /\ q.op \in {"ingest", "create"} /\ q.phase = "staged" /\ Rows \notin q.behind =>
          ~Exceeds(Recipes + 1, Effective(q.tier, "recipes").limit)
UpToDate == \A r \in Active : Fresh(requests[r])

(* Charged for, and not fetched yet. *)
Charged == {r \in Active : requests[r].phase = "reserved" /\ requests[r].charged = month}
PaidUp ==
    Counter \notin torn /\ Ceilings["ingests_per_month"] # NoLimit =>
        fetches + Cardinality(Charged) <= UsedThisMonth(counter)

OneHand(x) == \E line \in x.lines : x.lines = {line} /\ (line.by = "member") = x.edited
Whole == \A u \in Urls \ torn : Stored(u) => OneHand(recipes[u])

IInv == Typed /\ Serving /\ UpToDate /\ PaidUp /\ Whole

-----------------------------------------------------------------------------
(* What a step of one request does to the others. *)

(* p is q, behind on some more things. *)
Behind(p, q, things) ==
    /\ Request(p)
    /\ p.phase = q.phase /\ p.op = q.op /\ p.url = q.url /\ p.tier = q.tier
    /\ p.counter = q.counter /\ p.edited = q.edited /\ p.charged = q.charged
    /\ p.old = q.old
    /\ p.behind = q.behind \cup things

Others(r, things) ==
    /\ requests' = [s \in Requests |-> requests'[s]]
    /\ \A s \in Requests \ {r} : requests[s] = Idle => requests'[s] = Idle
    /\ \A s \in Active \ {r} : Behind(requests'[s], requests[s], things)

LEMMA ARequestIsNotIdle == ASSUME NEW q, Request(q) PROVE q # Idle
BY DEF Request, Idle

LEMMA BehindOnMore ==
    ASSUME NEW q, Request(q), NEW things
    PROVE  Behind([q EXCEPT !.behind = @ \cup things], q, things)
BY DEF Request, Behind

LEMMA OthersOfMove ==
    ASSUME Serving, NEW r \in Requests, NEW next, requests' = [requests EXCEPT ![r] = next]
    PROVE  Others(r, {}) /\ requests'[r] = next
<1>1. requests' = [s \in Requests |-> requests'[s]] /\ requests'[r] = next
  BY DEF Serving
<1>2. \A s \in Requests \ {r} : requests'[s] = requests[s]  BY DEF Serving
<1>3. ASSUME NEW s \in Active \ {r} PROVE Behind(requests'[s], requests[s], {})
  <2>1. PICK q : q = requests[s]  OBVIOUS
  <2>2. Request(q)  BY <2>1 DEF Serving
  <2>3. requests'[s] = q  BY <2>1, <1>2 DEF Active
  <2>4. Behind(q, q, {})  BY <2>2 DEF Behind
  <2> QED  BY <2>1, <2>3, <2>4
<1> QED
  BY <1>1, <1>2, <1>3 DEF Others

LEMMA OthersOfWrite ==
    ASSUME Serving, NEW r \in Requests, NEW things, NEW next, Writes(r, things, next)
    PROVE  /\ Others(r, things) /\ requests'[r] = next
           /\ torn' = torn \cup (things \cap requests[r].behind)
<1>1. requests' = [s \in Requests |-> requests'[s]] /\ requests'[r] = next
  BY DEF Writes
<1>2. \A s \in Requests \ {r} : requests[s] = Idle => requests'[s] = Idle
  BY DEF Writes
<1>3. ASSUME NEW s \in Active \ {r} PROVE Behind(requests'[s], requests[s], things)
  <2>1. PICK q : q = requests[s]  OBVIOUS
  <2>2. Request(q)  BY <2>1 DEF Serving
  <2>3. requests'[s] = [q EXCEPT !.behind = @ \cup things]  BY <2>1 DEF Active, Writes
  <2> QED  BY <2>1, <2>2, <2>3, BehindOnMore
<1> QED
  BY <1>1, <1>2, <1>3 DEF Others, Writes

LEMMA ServingGoesOn ==
    ASSUME Serving, NEW r \in Requests, NEW things, Others(r, things),
           month \in Nat, month' = month,
           requests'[r] = Idle \/ (Request(requests'[r]) /\ requests'[r].charged <= month)
    PROVE  Serving'
<1>1. ASSUME NEW s \in Active' PROVE Request(requests'[s]) /\ requests'[s].charged <= month
  <2>1. CASE s = r  BY <2>1 DEF Active
  <2>2. CASE s # r
    <3>1. s \in Active \ {r}  BY <2>2 DEF Active, Others
    <3> QED  BY <3>1 DEF Others, Behind, Serving
  <2> QED  BY <2>1, <2>2
<1>2. IsFiniteSet(Active')
  <2>1. Active' \subseteq Active \cup {r}  BY DEF Active, Others
  <2>2. IsFiniteSet(Active \cup {r})  BY FS_AddElement DEF Serving
  <2> QED  BY <2>1, <2>2, FS_Subset
<1> QED
  BY <1>1, <1>2 DEF Serving, Others

LEMMA OthersStayFresh ==
    ASSUME UpToDate, Serving, NEW r \in Requests, NEW things, Others(r, things),
           Counter \notin things => counter' = counter,
           \A u \in Urls \ things : recipes'[u] = recipes[u],
           Rows \notin things => Recipes' = Recipes
    PROVE  \A s \in Active' \ {r} : Fresh(requests[s])'
<1> SUFFICES ASSUME NEW s \in Active' \ {r} PROVE Fresh(requests[s])'  OBVIOUS
<1>1. s \in Active \ {r}  BY DEF Active, Others
<1>2. PICK q : q = requests[s]  OBVIOUS
<1>3. PICK p : p = requests'[s]  OBVIOUS
<1>4. Behind(p, q, things) /\ Request(q) /\ Fresh(q)
  BY <1>1, <1>2, <1>3 DEF Others, Serving, UpToDate
<1>5. p.phase = "loaded" /\ Counter \notin p.behind => p.counter = counter'
  BY <1>4 DEF Behind, Fresh
<1>6. p.op \in {"reparse", "update"} /\ p.url \notin p.behind =>
          /\ recipes'[p.url].stored /\ recipes'[p.url].edited = p.edited
          /\ p.phase = "staged" => recipes'[p.url].lines = p.old
  BY <1>4 DEF Behind, Fresh, Request, Stored
<1>7. p.op \in {"ingest", "create"} /\ p.phase = "staged" /\ Rows \notin p.behind =>
          ~Exceeds(Recipes' + 1, Effective(p.tier, "recipes").limit)
  BY <1>4 DEF Behind, Fresh
<1> QED
  BY <1>3, <1>5, <1>6, <1>7 DEF Fresh, Stored

(* The pages that are charged and not fetched, before and after. *)
LEMMA ChargedIsFinite ==
    ASSUME Serving
    PROVE  IsFiniteSet(Charged) /\ Cardinality(Charged) \in Nat
<1>1. IsFiniteSet(Charged)  BY FS_Subset DEF Serving, Charged
<1> QED
  BY <1>1, FS_CardinalityType

LEMMA OthersStayCharged ==
    ASSUME Serving, NEW r \in Requests, NEW things, Others(r, things), month' = month
    PROVE  Charged' \ {r} = Charged \ {r}
<1>1. ASSUME NEW s \in Requests \ {r} PROVE s \in Charged' <=> s \in Charged
  <2>1. CASE s \in Active
    <3>1. Behind(requests'[s], requests[s], things)  BY <2>1 DEF Others
    <3>2. requests'[s] # Idle  BY <3>1, ARequestIsNotIdle DEF Behind
    <3> QED  BY <2>1, <3>1, <3>2 DEF Charged, Active, Behind
  <2>2. CASE s \notin Active  BY <2>2 DEF Charged, Active, Others
  <2> QED  BY <2>1, <2>2
<1> QED
  BY <1>1 DEF Charged, Active

LEMMA ChargedNoMore ==
    ASSUME Serving, Serving', NEW r \in Requests, NEW things, Others(r, things), month' = month,
           r \notin Charged' \/ r \in Charged
    PROVE  Cardinality(Charged') <= Cardinality(Charged)
<1>1. Charged' \subseteq Charged  BY OthersStayCharged
<1> QED
  BY <1>1, ChargedIsFinite, FS_Subset

LEMMA PaidUpStays ==
    ASSUME PaidUp, Typed, Serving, Serving', month' = month, fetches' = fetches, counter' = counter,
           torn \subseteq torn', Cardinality(Charged') <= Cardinality(Charged)
    PROVE  PaidUp'
<1>1. Cardinality(Charged) \in Nat /\ (Cardinality(Charged) \in Nat)'
  <2>1. (IsFiniteSet(Charged) /\ Cardinality(Charged) \in Nat)'  BY ChargedIsFinite, PTL
  <2> QED  BY <2>1, ChargedIsFinite
<1>2. UsedThisMonth(counter)' = UsedThisMonth(counter)  BY DEF UsedThisMonth
<1>3. UsedThisMonth(counter) \in Nat  BY DEF UsedThisMonth, Typed, Count
<1> QED
  BY <1>1, <1>2, <1>3 DEF PaidUp, Typed

LEMMA WholeStays ==
    ASSUME Whole, recipes' = recipes, torn \subseteq torn'
    PROVE  Whole'
BY DEF Whole, Stored, OneHand

-----------------------------------------------------------------------------
(* The recipes' rows. *)

LEMMA RecipesIsACount ==
    ASSUME Typed
    PROVE  Recipes \in Nat /\ Recipes = Cardinality(StoredUrls)
BY FS_CardinalityType DEF Typed, Recipes, StoredUrls

LEMMA TypedWithSameRecipes ==
    ASSUME Typed, recipes' = recipes, tier' \in Tiers, month' \in Nat, month <= month', fetches' \in Nat,
           Count(counter'), counter'.month <= month'
    PROVE  Typed' /\ Recipes' = Recipes
BY DEF Typed, StoredUrls, Stored, Recipes

(* One row is written: its lines, or all of it. *)
LEMMA TypedWithOneRow ==
    ASSUME Typed, UNCHANGED <<tier, month, fetches, counter>>, NEW u \in Urls, NEW x, Row(x),
           recipes' = [recipes EXCEPT ![u] = x]
    PROVE  /\ Typed'
           /\ recipes'[u] = x
           /\ \A v \in Urls \ {u} : recipes'[v] = recipes[v]
           /\ x.stored = Stored(u) => Recipes' = Recipes
           /\ ~x.stored => Recipes' <= Recipes
           /\ x.stored /\ ~Stored(u) => Recipes' = Recipes + 1
<1>1. recipes'[u] = x /\ (\A v \in Urls \ {u} : recipes'[v] = recipes[v])
  BY DEF Typed
<1>2. recipes' = [v \in Urls |-> recipes'[v]] /\ \A v \in Urls : Row(recipes'[v])
  BY DEF Typed
<1>3. StoredUrls \subseteq Urls /\ IsFiniteSet(StoredUrls)  BY DEF StoredUrls, Typed
<1>4. StoredUrls' = IF x.stored THEN StoredUrls \cup {u} ELSE StoredUrls \ {u}
  BY <1>1 DEF StoredUrls, Stored
<1>5. u \in StoredUrls <=> Stored(u)  BY DEF StoredUrls
<1>6. IsFiniteSet(StoredUrls \cup {u}) /\ IsFiniteSet(StoredUrls \ {u})
  BY <1>3, FS_AddElement, FS_RemoveElement
<1>7. Typed'
  BY <1>2, <1>4, <1>6 DEF Typed
<1>8. Recipes = Cardinality(StoredUrls) /\ Recipes' = Cardinality(StoredUrls') /\ Recipes \in Nat
  BY RecipesIsACount DEF Recipes, StoredUrls
<1>9. x.stored = Stored(u) => StoredUrls' = StoredUrls
  BY <1>4, <1>5
<1>10. ~x.stored => Cardinality(StoredUrls \ {u}) <= Cardinality(StoredUrls)
  BY <1>3, FS_Subset
<1>11. ~Stored(u) => Cardinality(StoredUrls \cup {u}) = Cardinality(StoredUrls) + 1
  BY <1>3, <1>5, FS_AddElement
<1> QED
  BY <1>1, <1>4, <1>7, <1>8, <1>9, <1>10, <1>11

(* A row is replaced when its request commits; the request is over. *)
LEMMA RowCommitted ==
    ASSUME IInv, NEW r \in Requests, NEW u \in Urls, NEW x, Row(x), NEW things,
           recipes' = [recipes EXCEPT ![u] = x], Writes(r, things, Idle),
           UNCHANGED <<tier, month, counter, fetches>>,
           u \in things, Counter \notin things,
           Rows \in things \/ x.stored = Stored(u),
           x.stored => u \in torn' \/ OneHand(x)
    PROVE  IInv'
<1>1. /\ Others(r, things) /\ requests'[r] = Idle
      /\ torn' = torn \cup (things \cap requests[r].behind)
  BY OthersOfWrite DEF IInv
<1>2. /\ Typed'
      /\ recipes'[u] = x
      /\ \A v \in Urls \ {u} : recipes'[v] = recipes[v]
      /\ x.stored = Stored(u) => Recipes' = Recipes
  BY TypedWithOneRow DEF IInv
<1>3. Serving'
  <2>1. Serving /\ month \in Nat  BY DEF IInv, Typed
  <2> QED  BY <1>1, <2>1, ServingGoesOn
<1>4. r \notin Active'  BY <1>1 DEF Active
<1>5. UpToDate'
  <2>1. counter' = counter  OBVIOUS
  <2>2. \A v \in Urls \ things : recipes'[v] = recipes[v]  BY <1>2
  <2>3. Rows \notin things => Recipes' = Recipes  BY <1>2
  <2>4. \A s \in Active' \ {r} : Fresh(requests[s])'
    BY <1>1, <2>1, <2>2, <2>3, OthersStayFresh DEF IInv
  <2> QED  BY <1>4, <2>4 DEF UpToDate
<1>6. PaidUp'
  <2>1. r \notin Charged'  BY <1>4 DEF Charged
  <2>2. month' = month /\ Serving  BY DEF IInv
  <2>3. Cardinality(Charged') <= Cardinality(Charged)
    BY <1>1, <1>3, <2>1, <2>2, ChargedNoMore
  <2> QED  BY <1>1, <1>3, <2>3, PaidUpStays DEF IInv
<1>7. Whole'
  <2> SUFFICES ASSUME NEW v \in Urls, v \notin torn', recipes'[v].stored PROVE OneHand(recipes'[v])
    BY DEF Whole, Stored, OneHand
  <2>1. CASE v = u  BY <2>1, <1>2
  <2>2. CASE v # u
    <3>1. recipes'[v] = recipes[v] /\ v \notin torn  BY <2>2, <1>1, <1>2
    <3> QED  BY <3>1 DEF IInv, Whole, Stored
  <2> QED  BY <2>1, <2>2
<1> QED
  BY <1>2, <1>3, <1>5, <1>6, <1>7 DEF IInv

(* A request moves on, and nothing else happens. *)
LEMMA RequestMoved ==
    ASSUME IInv, NEW r \in Requests, NEW next, requests' = [requests EXCEPT ![r] = next],
           UNCHANGED <<tier, month, counter, recipes, fetches, torn>>,
           next = Idle \/ (Request(next) /\ next.charged <= month /\ Fresh(next)),
           next.phase # "reserved"
    PROVE  IInv'
<1>1. Others(r, {}) /\ requests'[r] = next
  BY OthersOfMove DEF IInv
<1>2. Typed' /\ Recipes' = Recipes
  BY TypedWithSameRecipes DEF IInv, Typed
<1>3. Serving'
  <2>1. Serving /\ month \in Nat  BY DEF IInv, Typed
  <2> QED  BY <1>1, <2>1, ServingGoesOn
<1>5. UpToDate'
  <2>1. \A s \in Active' \ {r} : Fresh(requests[s])'
    BY <1>1, <1>2, OthersStayFresh DEF IInv
  <2>2. r \in Active' => Fresh(requests[r])'
    <3> SUFFICES ASSUME next # Idle PROVE Fresh(requests[r])'  BY <1>1 DEF Active
    <3>1. Fresh(next)  OBVIOUS
    <3> QED  BY <3>1, <1>1, <1>2 DEF Fresh, Stored
  <2> QED  BY <2>1, <2>2 DEF UpToDate
<1>6. PaidUp'
  <2>1. r \notin Charged'  BY <1>1 DEF Charged
  <2>2. month' = month /\ Serving  BY DEF IInv
  <2>3. Cardinality(Charged') <= Cardinality(Charged)
    BY <1>1, <1>3, <2>1, <2>2, ChargedNoMore
  <2> QED  BY <1>1, <1>3, <2>3, PaidUpStays DEF IInv
<1>7. Whole'  BY WholeStays DEF IInv
<1> QED
  BY <1>2, <1>3, <1>5, <1>6, <1>7 DEF IInv

-----------------------------------------------------------------------------
(* The steps. *)

LEMMA PhaseSet ==
    ASSUME NEW q, Request(q), NEW v \in {"loaded", "reserved", "fetched", "staged"}
    PROVE  LET p == [q EXCEPT !.phase = v] IN
           /\ Request(p) /\ p.phase = v
           /\ p.op = q.op /\ p.url = q.url /\ p.tier = q.tier /\ p.counter = q.counter
           /\ p.edited = q.edited /\ p.charged = q.charged /\ p.version = q.version
           /\ p.old = q.old /\ p.behind = q.behind
BY DEF Request

LEMMA ChargedSet ==
    ASSUME NEW q, Request(q), NEW v \in Nat
    PROVE  LET p == [q EXCEPT !.charged = v] IN
           /\ Request(p) /\ p.charged = v
           /\ p.phase = q.phase /\ p.op = q.op /\ p.url = q.url /\ p.tier = q.tier
           /\ p.counter = q.counter /\ p.edited = q.edited /\ p.old = q.old /\ p.behind = q.behind
BY DEF Request

LEMMA VersionSet ==
    ASSUME NEW q, Request(q), NEW v
    PROVE  LET p == [q EXCEPT !.version = v] IN
           /\ Request(p)
           /\ p.phase = q.phase /\ p.op = q.op /\ p.url = q.url /\ p.tier = q.tier
           /\ p.counter = q.counter /\ p.edited = q.edited /\ p.charged = q.charged
           /\ p.old = q.old /\ p.behind = q.behind
BY DEF Request

LEMMA OldSet ==
    ASSUME NEW q, Request(q), NEW v
    PROVE  LET p == [q EXCEPT !.old = v] IN
           /\ Request(p) /\ p.old = v
           /\ p.phase = q.phase /\ p.op = q.op /\ p.url = q.url /\ p.tier = q.tier
           /\ p.counter = q.counter /\ p.edited = q.edited /\ p.charged = q.charged
           /\ p.behind = q.behind
BY DEF Request

LEMMA BehindSet ==
    ASSUME NEW q, Request(q), NEW v
    PROVE  LET p == [q EXCEPT !.behind = v] IN
           /\ Request(p) /\ p.behind = v
           /\ p.phase = q.phase /\ p.op = q.op /\ p.url = q.url /\ p.tier = q.tier
           /\ p.counter = q.counter /\ p.edited = q.edited /\ p.charged = q.charged
           /\ p.old = q.old
BY DEF Request

LEMMA InitIsFine == Init => IInv
<1> SUFFICES ASSUME Init PROVE IInv  OBVIOUS
<1>1. StoredUrls = {} /\ Active = {} /\ Charged = {}
  BY DEF Init, StoredUrls, Stored, Absent, Active, Charged
<1>2. Typed /\ Serving
  <2>1. IsFiniteSet(StoredUrls) /\ IsFiniteSet(Active)  BY <1>1, FS_EmptySet
  <2>2. Row(Absent)  BY DEF Row, Absent
  <2>3. recipes = [u \in Urls |-> Absent]  BY DEF Init
  <2>4. recipes = [u \in Urls |-> recipes[u]] /\ \A u \in Urls : Row(recipes[u])
    BY <2>2, <2>3
  <2>5. Count(counter) /\ counter.month <= month  BY DEF Init, Count
  <2>6. requests = [r \in Requests |-> requests[r]]  BY DEF Init
  <2> QED
    BY <1>1, <2>1, <2>4, <2>5, <2>6, LibraryAssumption DEF Init, Typed, Serving
<1>3. UsedThisMonth(counter) = 0 /\ fetches = 0 /\ Cardinality(Charged) = 0
  BY <1>1, FS_EmptySet DEF Init, UsedThisMonth
<1> QED
  BY <1>1, <1>2, <1>3 DEF IInv, UpToDate, PaidUp, Whole, Stored, Init, Absent

LEMMA Arriving == ASSUME IInv, NEW r \in Requests, Arrive(r) PROVE IInv'
<1>1. PICK op \in {"ingest", "create", "reparse", "update", "delete"} : \E u \in Urls, force \in BOOLEAN :
        /\ (op \in {"ingest", "create"}) # Stored(u)
        /\ requests' = [requests EXCEPT ![r] =
              [phase |-> "loaded", op |-> op, url |-> u, force |-> force, number |-> served + 1,
               tier |-> tier, counter |-> counter, edited |-> recipes[u].edited,
               charged |-> 0, version |-> 0, old |-> {}, behind |-> {}]]
  BY ZenonT(30) DEF Arrive
<1>2. PICK u \in Urls : \E force \in BOOLEAN :
        /\ (op \in {"ingest", "create"}) # Stored(u)
        /\ requests' = [requests EXCEPT ![r] =
              [phase |-> "loaded", op |-> op, url |-> u, force |-> force, number |-> served + 1,
               tier |-> tier, counter |-> counter, edited |-> recipes[u].edited,
               charged |-> 0, version |-> 0, old |-> {}, behind |-> {}]]
  BY <1>1
<1>3. PICK force \in BOOLEAN :
        /\ (op \in {"ingest", "create"}) # Stored(u)
        /\ requests' = [requests EXCEPT ![r] =
              [phase |-> "loaded", op |-> op, url |-> u, force |-> force, number |-> served + 1,
               tier |-> tier, counter |-> counter, edited |-> recipes[u].edited,
               charged |-> 0, version |-> 0, old |-> {}, behind |-> {}]]
  BY <1>2
<1>4. PICK q : q = [phase |-> "loaded", op |-> op, url |-> u, force |-> force, number |-> served + 1,
               tier |-> tier, counter |-> counter, edited |-> recipes[u].edited,
               charged |-> 0, version |-> 0, old |-> {}, behind |-> {}]
  OBVIOUS
<1>5. Request(q) /\ q.charged <= month
  <2>1. tier \in Tiers /\ Count(counter) /\ month \in Nat /\ recipes[u].edited \in BOOLEAN
    BY DEF IInv, Typed, Row
  <2> QED  BY <1>4, <2>1 DEF Request
<1>6. Fresh(q)
  <2>1. Stored(u) \in BOOLEAN  BY DEF IInv, Typed, Row, Stored
  <2>2. op \in {"reparse", "update"} => op \notin {"ingest", "create"}  OBVIOUS
  <2>3. (op \in {"ingest", "create"}) # Stored(u)  BY <1>3
  <2>4. op \in {"reparse", "update"} => Stored(u)
    <3> HIDE DEF Stored
    <3> QED  BY <2>1, <2>2, <2>3
  <2> QED  BY <1>4, <2>4 DEF Fresh
<1>7. q.phase # "reserved" /\ requests' = [requests EXCEPT ![r] = q]
  BY <1>3, <1>4
<1>8. UNCHANGED <<tier, month, counter, recipes, fetches, torn>>
  BY DEF Arrive
<1> QED
  BY <1>5, <1>6, <1>7, <1>8, RequestMoved

LEMMA Ending == ASSUME IInv, NEW r \in Requests, End(r) PROVE IInv'
<1>1. Idle.phase # "reserved"  BY DEF Idle
<1> QED
  BY <1>1, RequestMoved DEF End

LEMMA Creating == ASSUME IInv, NEW r \in Requests, CreateRecipe(r) PROVE IInv'
<1>1. PICK q : q = requests[r]  OBVIOUS
<1>2. /\ <<q.phase, q.op>> \in {<<"fetched", "ingest">>, <<"loaded", "create">>}
      /\ ~Refused(q.tier, "recipes", Recipes, 1)
      /\ requests' = [requests EXCEPT ![r].phase = "staged",
                                      ![r].version = IF q.op = "create" THEN page[q.url] ELSE @,
                                      ![r].behind = @ \ {Rows}]
      /\ UNCHANGED <<tier, month, counter, recipes, fetches, torn>>
  BY <1>1 DEF CreateRecipe
<1>3. r \in Active  BY <1>1, <1>2 DEF Active, Idle
<1>4. Request(q) /\ q.charged <= month /\ Fresh(q)
  BY <1>1, <1>3 DEF IInv, Serving, UpToDate
<1>5. PICK a : a = [q EXCEPT !.phase = "staged"]  OBVIOUS
<1>6. PICK b : b = [a EXCEPT !.version = IF q.op = "create" THEN page[q.url] ELSE @]  OBVIOUS
<1>7. PICK p : p = [b EXCEPT !.behind = @ \ {Rows}]  OBVIOUS
<1>8. Request(a) /\ a.phase = "staged" /\ a.op = q.op /\ a.tier = q.tier /\ a.charged = q.charged
  BY <1>4, <1>5, PhaseSet
<1>9. Request(b) /\ b.phase = "staged" /\ b.op = q.op /\ b.tier = q.tier /\ b.charged = q.charged
  BY <1>6, <1>8, VersionSet
<1>10. Request(p) /\ p.phase = "staged" /\ p.op = q.op /\ p.tier = q.tier /\ p.charged = q.charged
  BY <1>7, <1>9, BehindSet
<1>11. requests' = [requests EXCEPT ![r] = p]
  <2>1. requests = [s \in Requests |-> requests[s]]  BY DEF IInv, Serving
  <2>2. PICK f : f = [requests EXCEPT ![r].phase = "staged"]  OBVIOUS
  <2>3. PICK g : g = [f EXCEPT ![r].version = IF q.op = "create" THEN page[q.url] ELSE @]  OBVIOUS
  <2>4. f = [requests EXCEPT ![r] = a]  BY <1>1, <1>5, <2>1, <2>2
  <2>5. g = [requests EXCEPT ![r] = b]  BY <1>6, <2>1, <2>3, <2>4
  <2>6. requests' = [g EXCEPT ![r].behind = @ \ {Rows}]
    BY <1>2, <2>2, <2>3
  <2> QED  BY <1>7, <2>1, <2>5, <2>6
<1>12. Fresh(p)
  <2>1. ~Exceeds(Recipes + 1, Effective(q.tier, "recipes").limit)
    <3>1. q.tier \in Tiers /\ "recipes" \in Resources /\ Recipes \in Nat
      BY <1>4, RecipesIsACount DEF Request, Resources, IInv
    <3> QED  BY <1>2, <3>1, RefusedWhenExceeded
  <2> QED  BY <2>1, <1>2, <1>10 DEF Fresh
<1> QED
  BY <1>2, <1>4, <1>10, <1>11, <1>12, RequestMoved

LEMMA Setting == ASSUME IInv, NEW r \in Requests, SetIngredients(r) PROVE IInv'
<1>1. PICK q : q = requests[r]  OBVIOUS
<1>2. /\ q.phase \in {"fetched", "loaded"} /\ q.op \in {"reparse", "update"}
      /\ requests' = [requests EXCEPT ![r].phase = "staged", ![r].old = recipes[q.url].lines]
      /\ UNCHANGED <<tier, month, counter, recipes, fetches, torn>>
  BY <1>1 DEF SetIngredients
<1>3. r \in Active  BY <1>1, <1>2 DEF Active, Idle
<1>4. Request(q) /\ q.charged <= month /\ Fresh(q)
  BY <1>1, <1>3 DEF IInv, Serving, UpToDate
<1>5. PICK a : a = [q EXCEPT !.phase = "staged"]  OBVIOUS
<1>6. PICK p : p = [a EXCEPT !.old = recipes[q.url].lines]  OBVIOUS
<1>7. /\ Request(a) /\ a.phase = "staged" /\ a.op = q.op /\ a.url = q.url /\ a.edited = q.edited
      /\ a.charged = q.charged /\ a.behind = q.behind
  BY <1>4, <1>5, PhaseSet
<1>8. /\ Request(p) /\ p.phase = "staged" /\ p.op = q.op /\ p.url = q.url /\ p.edited = q.edited
      /\ p.charged = q.charged /\ p.behind = q.behind /\ p.old = recipes[q.url].lines
  BY <1>6, <1>7, OldSet
<1>9. requests' = [requests EXCEPT ![r] = p]
  <2>1. requests = [s \in Requests |-> requests[s]]  BY DEF IInv, Serving
  <2> QED  BY <1>1, <1>2, <1>5, <1>6, <2>1
<1>10. Fresh(p)
  BY <1>2, <1>4, <1>8 DEF Fresh
<1> QED
  BY <1>2, <1>4, <1>8, <1>9, <1>10, RequestMoved

LEMMA RequestAt ==
    ASSUME IInv, NEW r \in Requests, requests[r].phase # "idle"
    PROVE  Request(requests[r]) /\ requests[r].charged <= month /\ Fresh(requests[r])
BY DEF IInv, Serving, UpToDate, Active, Idle

LEMMA Ingesting == ASSUME IInv, NEW r \in Requests, CommitIngest(r) PROVE IInv'
<1>1. PICK q : q = requests[r]  OBVIOUS
<1>2. /\ q.phase = "staged" /\ ~Stored(q.url)
      /\ recipes' = [recipes EXCEPT ![q.url] =
                       [stored |-> TRUE, edited |-> FALSE, lines |-> {FromPage(q.version)}]]
      /\ Writes(r, {q.url, Rows}, Idle)
      /\ UNCHANGED <<tier, month, counter, fetches>>
  BY <1>1 DEF CommitIngest
<1>3. Request(q)  BY <1>1, <1>2, RequestAt
<1>4. PICK x : x = [stored |-> TRUE, edited |-> FALSE, lines |-> {FromPage(q.version)}]  OBVIOUS
<1>5. Row(x) /\ OneHand(x)
  BY <1>4 DEF Row, OneHand, FromPage
<1>6. q.url \in Urls /\ q.url \in {q.url, Rows} /\ Counter \notin {q.url, Rows} /\ Rows \in {q.url, Rows}
  BY <1>3, LibraryAssumption DEF Request, Counter, Rows
<1> QED
  BY <1>2, <1>4, <1>5, <1>6, RowCommitted

LEMMA Deleting == ASSUME IInv, NEW r \in Requests, DeleteRecipe(r) PROVE IInv'
<1>1. PICK q : q = requests[r]  OBVIOUS
<1>2. /\ q.phase = "loaded"
      /\ recipes' = [recipes EXCEPT ![q.url] = Absent]
      /\ Writes(r, {q.url, Rows}, Idle)
      /\ UNCHANGED <<tier, month, counter, fetches>>
  BY <1>1 DEF DeleteRecipe
<1>3. Request(q)  BY <1>1, <1>2, RequestAt
<1>5. Row(Absent) /\ ~Absent.stored
  BY DEF Row, Absent
<1>6. q.url \in Urls /\ q.url \in {q.url, Rows} /\ Counter \notin {q.url, Rows} /\ Rows \in {q.url, Rows}
  BY <1>3, LibraryAssumption DEF Request, Counter, Rows
<1> QED
  BY <1>2, <1>5, <1>6, RowCommitted

(* The lines the request found are replaced: if nobody has written the       *)
(* recipe since, they are all of its lines.                                  *)
LEMMA Rewriting ==
    ASSUME IInv, NEW r \in Requests, NEW q, q = requests[r], NEW marked \in BOOLEAN, NEW line,
           q.phase = "staged", q.op \in {"reparse", "update"}, Stored(q.url),
           recipes' = [recipes EXCEPT ![q.url].edited = Flag(q, marked),
                                      ![q.url].lines = Replaced(q, line)],
           (line.by = "member") = marked,
           Writes(r, {q.url}, Idle),
           UNCHANGED <<tier, month, counter, fetches>>
    PROVE  IInv'
<1>1. Request(q) /\ Fresh(q)  BY RequestAt
<1>2. PICK u \in Urls : u = q.url  BY <1>1 DEF Request
<1>3. PICK old : old = recipes[u]  OBVIOUS
<1>4. Row(old) /\ old.stored
  BY <1>2, <1>3 DEF IInv, Typed, Stored
<1>5. PICK flag : flag = Flag(q, marked)  OBVIOUS
<1>6. PICK lines : lines = Replaced(q, line)  OBVIOUS
<1>7. PICK x : x = [stored |-> old.stored, edited |-> flag, lines |-> lines]  OBVIOUS
<1>8. Row(x) /\ x.stored
  <2>1. flag \in BOOLEAN  BY <1>2, <1>3, <1>4, <1>5 DEF Flag, Row
  <2> QED  BY <2>1, <1>4, <1>7 DEF Row
<1>9. recipes' = [recipes EXCEPT ![u] = x]
  <2>1. recipes = [v \in Urls |-> recipes[v]]  BY DEF IInv, Typed
  <2>2. PICK f : f = [recipes EXCEPT ![u].edited = flag]  OBVIOUS
  <2>3. PICK a : a = [old EXCEPT !.edited = flag]  OBVIOUS
  <2>4. f = [recipes EXCEPT ![u] = a]  BY <1>3, <2>1, <2>2, <2>3
  <2>5. a = [stored |-> old.stored, edited |-> flag, lines |-> old.lines]
    BY <2>3, <1>4 DEF Row
  <2>6. [a EXCEPT !.lines = lines] = x  BY <2>5, <1>7
  <2>7. recipes' = [f EXCEPT ![u].lines = lines]
    BY <1>2, <1>5, <1>6, <2>2
  <2> QED  BY <2>1, <2>4, <2>6, <2>7
<1>10. u \in torn' \/ OneHand(x)
  <2> SUFFICES ASSUME u \notin torn' PROVE OneHand(x)  OBVIOUS
  <2>1. u \notin q.behind  BY <1>2 DEF Writes
  <2>2. old.edited = q.edited /\ old.lines = q.old
    BY <2>1, <1>1, <1>2, <1>3 DEF Fresh
  <2>3. flag = marked
    BY <2>2, <1>2, <1>3, <1>5 DEF Flag
  <2>4. lines = {line}
    BY <2>2, <1>2, <1>3, <1>6 DEF Replaced
  <2>5. x.lines = {line} /\ x.edited = marked  BY <2>3, <2>4, <1>7
  <2>6. line \in x.lines /\ (line.by = "member") = x.edited  BY <2>5
  <2> QED  BY <2>5, <2>6 DEF OneHand
<1>11. PICK things : things = {q.url}  OBVIOUS
<1>12. u \in things /\ Counter \notin things
  BY <1>2, <1>11, LibraryAssumption DEF Counter
<1>13. x.stored = Stored(u)
  <2>1. Stored(u) = TRUE /\ x.stored = TRUE
    BY <1>2, <1>3, <1>4, <1>8 DEF Stored, Row
  <2> QED  BY <2>1
<1>14. Writes(r, things, Idle) /\ UNCHANGED <<tier, month, counter, fetches>>  BY <1>11
<1>15. Rows \in things \/ x.stored = Stored(u)  BY <1>13
<1>16. x.stored => u \in torn' \/ OneHand(x)  BY <1>10
<1> QED
  BY ZenonT(30), <1>8, <1>9, <1>12, <1>14, <1>15, <1>16, RowCommitted

LEMMA Reparsing == ASSUME IInv, NEW r \in Requests, CommitReparse(r) PROVE IInv'
<1>1. PICK q : q = requests[r]  OBVIOUS
<1>2. /\ q.phase = "staged" /\ q.op \in {"reparse", "update"} /\ Stored(q.url)
      /\ recipes' = [recipes EXCEPT ![q.url].edited = Flag(q, FALSE),
                                    ![q.url].lines = Replaced(q, FromPage(q.version))]
      /\ Writes(r, {q.url}, Idle)
      /\ UNCHANGED <<tier, month, counter, fetches>>
  BY <1>1 DEF CommitReparse
<1>3. (FromPage(q.version).by = "member") = FALSE  BY DEF FromPage
<1> QED
  BY <1>1, <1>2, <1>3, Rewriting

LEMMA Updating == ASSUME IInv, NEW r \in Requests, CommitUpdate(r) PROVE IInv'
<1>1. PICK q : q = requests[r]  OBVIOUS
<1>2. /\ q.phase = "staged" /\ q.op \in {"reparse", "update"} /\ Stored(q.url)
      /\ recipes' = [recipes EXCEPT ![q.url].edited = Flag(q, TRUE),
                                    ![q.url].lines = Replaced(q, ByHand(q.number))]
      /\ Writes(r, {q.url}, Idle)
      /\ UNCHANGED <<tier, month, counter, fetches>>
  BY <1>1 DEF CommitUpdate
<1>3. (ByHand(q.number).by = "member") = TRUE  BY DEF ByHand
<1> QED
  BY <1>1, <1>2, <1>3, Rewriting

LEMMA UsedIsACount ==
    ASSUME Typed, NEW c, Count(c)
    PROVE  UsedThisMonth(c) \in Nat
BY DEF UsedThisMonth, Count

(* The charge comes before the fetch, so that a page that is charged and not *)
(* yet fetched is one that is paid for.                                      *)
LEMMA Reserving == ASSUME IInv, NEW r \in Requests, ReserveIngest(r) PROVE IInv'
<1>1. PICK q : q = requests[r]  OBVIOUS
<1>2. PICK limited : limited = HasLimit(q.tier, "ingests_per_month")  OBVIOUS
<1>3. PICK next : next = [q EXCEPT !.phase = "reserved", !.charged = month, !.behind = @ \ {Counter}]
  OBVIOUS
<1>4. PICK things : things = IF limited THEN {Counter} ELSE {}  OBVIOUS
<1>5. /\ q.phase = "loaded" /\ q.op \in {"ingest", "reparse"}
      /\ counter' = IF limited THEN [month |-> month, used |-> UsedThisMonth(q.counter) + 1] ELSE counter
      /\ Writes(r, things, next)
      /\ UNCHANGED <<tier, month, recipes, fetches>>
  BY <1>1, <1>2, <1>3, <1>4 DEF ReserveIngest
<1>6. Request(q) /\ q.charged <= month /\ Fresh(q)  BY <1>1, <1>5, RequestAt
<1>7. month \in Nat /\ Count(counter) /\ counter.month <= month /\ fetches \in Nat /\ Typed /\ Serving
  BY DEF IInv, Typed
<1>8. /\ Request(next) /\ next.phase = "reserved" /\ next.charged = month
      /\ next.op = q.op /\ next.url = q.url /\ next.edited = q.edited
      /\ next.behind = q.behind \ {Counter}
  <2>1. PICK a : a = [q EXCEPT !.phase = "reserved"]  OBVIOUS
  <2>2. PICK b : b = [a EXCEPT !.charged = month]  OBVIOUS
  <2>3. PICK c : c = [b EXCEPT !.behind = @ \ {Counter}]  OBVIOUS
  <2>4. /\ Request(a) /\ a.phase = "reserved" /\ a.op = q.op /\ a.url = q.url /\ a.edited = q.edited
        /\ a.behind = q.behind
    BY <1>6, <2>1, PhaseSet
  <2>5. /\ Request(b) /\ b.phase = "reserved" /\ b.charged = month /\ b.op = q.op /\ b.url = q.url
        /\ b.edited = q.edited /\ b.behind = q.behind
    BY <1>7, <2>2, <2>4, ChargedSet
  <2>6. /\ Request(c) /\ c.phase = "reserved" /\ c.charged = month /\ c.op = q.op /\ c.url = q.url
        /\ c.edited = q.edited /\ c.behind = q.behind \ {Counter}
    BY <2>3, <2>5, BehindSet
  <2>7. next = c  BY <1>3, <2>1, <2>2, <2>3
  <2> QED  BY <2>6, <2>7
<1>9. /\ Others(r, things) /\ requests'[r] = next
      /\ torn' = torn \cup (things \cap q.behind)
  BY <1>1, <1>5, <1>7, OthersOfWrite
<1>10. Count(counter') /\ counter'.month <= month
  <2>1. UsedThisMonth(q.counter) \in Nat  BY <1>6, <1>7, UsedIsACount DEF Request
  <2> QED  BY <2>1, <1>5, <1>7 DEF Count
<1>11. Typed' /\ Recipes' = Recipes
  <2>1. /\ recipes' = recipes /\ tier' \in Tiers /\ month' \in Nat /\ month <= month' /\ fetches' \in Nat
        /\ Count(counter') /\ counter'.month <= month'
    BY <1>5, <1>7, <1>10 DEF Typed
  <2> QED  BY <1>7, <2>1, TypedWithSameRecipes
<1>12. Serving'
  <2>1. month' = month /\ next.charged <= month  BY <1>5, <1>7, <1>8
  <2> QED  BY <1>7, <1>8, <1>9, <2>1, ServingGoesOn
<1>13. UpToDate'
  <2>1. Counter \notin things => counter' = counter  BY <1>4, <1>5
  <2>2. \A s \in Active' \ {r} : Fresh(requests[s])'
    BY <1>5, <1>9, <1>11, <2>1, OthersStayFresh DEF IInv
  <2>3. Fresh(requests[r])'
    <3>1. next.phase = "reserved" /\ recipes' = recipes
      /\ (next.op \in {"reparse", "update"} /\ next.url \notin next.behind =>
            Stored(next.url) /\ recipes[next.url].edited = next.edited)
      <4>1. Counter \notin Urls  BY LibraryAssumption
      <4>2. next.url \notin next.behind => q.url \notin q.behind
        BY <1>6, <1>8, <4>1 DEF Request
      <4> QED  BY <1>5, <1>6, <1>8, <4>2 DEF Fresh
    <3> QED  BY <3>1, <1>9 DEF Fresh, Stored
  <2> QED  BY <2>2, <2>3 DEF UpToDate
<1>14. PaidUp'
  <2> SUFFICES ASSUME Counter \notin torn', Ceilings["ingests_per_month"] # NoLimit
               PROVE  fetches + Cardinality(Charged') <= UsedThisMonth(counter)'
    BY <1>5 DEF PaidUp
  <2>1. limited = TRUE  BY <1>2, Zenon DEF HasLimit
  <2>2. things = {Counter}  BY <2>1, <1>4
  <2>3. Counter \notin q.behind /\ Counter \notin torn  BY <1>9, <2>2
  <2>4. q.counter = counter  BY <2>3, <1>5, <1>6 DEF Fresh
  <2>5. UsedThisMonth(counter)' = UsedThisMonth(counter) + 1
    <3>1. counter' = [month |-> month, used |-> UsedThisMonth(counter) + 1]
      BY <1>5, <2>1, <2>4
    <3>2. counter'.month = month' /\ counter'.used = UsedThisMonth(counter) + 1  BY <3>1, <1>5
    <3>3. ~(counter'.month < month')  BY <3>2, <1>5, <1>7
    <3> QED  BY <3>2, <3>3 DEF UsedThisMonth
  <2>6. Charged' = Charged \cup {r} /\ r \notin Charged
    <3>1. Charged' \ {r} = Charged \ {r}  BY <1>5, <1>7, <1>9, OthersStayCharged
    <3>2. r \notin Charged  BY <1>1, <1>5 DEF Charged
    <3>3. r \in Charged'
      BY <1>5, <1>8, <1>9, ARequestIsNotIdle DEF Charged, Active
    <3> QED  BY <3>1, <3>2, <3>3
  <2>7. IsFiniteSet(Charged) /\ Cardinality(Charged) \in Nat  BY <1>7, ChargedIsFinite
  <2>8. Cardinality(Charged') = Cardinality(Charged) + 1  BY <2>6, <2>7, FS_AddElement
  <2>9. fetches + Cardinality(Charged) <= UsedThisMonth(counter)  BY <2>3 DEF IInv, PaidUp
  <2>10. UsedThisMonth(counter) \in Nat  BY <1>7, UsedIsACount
  <2> QED  BY <1>7, <2>5, <2>7, <2>8, <2>9, <2>10
<1>15. Whole'
  <2>1. Whole /\ recipes' = recipes /\ torn \subseteq torn'  BY <1>5, <1>9 DEF IInv
  <2> QED  BY <2>1, WholeStays
<1> QED
  BY <1>11, <1>12, <1>13, <1>14, <1>15 DEF IInv

LEMMA Fetching == ASSUME IInv, NEW r \in Requests, FetchPage(r) PROVE IInv'
<1>1. PICK q : q = requests[r]  OBVIOUS
<1>2. /\ q.phase = "reserved"
      /\ fetches' = IF q.charged = month THEN fetches + 1 ELSE fetches
      /\ requests' = [requests EXCEPT ![r].phase = "fetched", ![r].version = page[q.url]]
      /\ UNCHANGED <<tier, month, counter, recipes, torn>>
  BY <1>1 DEF FetchPage
<1>3. Request(q) /\ q.charged <= month /\ Fresh(q)  BY <1>1, <1>2, RequestAt
<1>4. month \in Nat /\ Count(counter) /\ fetches \in Nat /\ Typed /\ Serving
  BY DEF IInv, Typed
<1>5. PICK a : a = [q EXCEPT !.phase = "fetched"]  OBVIOUS
<1>6. PICK next : next = [a EXCEPT !.version = page[q.url]]  OBVIOUS
<1>7. /\ Request(a) /\ a.phase = "fetched" /\ a.op = q.op /\ a.url = q.url /\ a.edited = q.edited
      /\ a.charged = q.charged /\ a.behind = q.behind
  BY <1>3, <1>5, PhaseSet
<1>8. /\ Request(next) /\ next.phase = "fetched" /\ next.op = q.op /\ next.url = q.url
      /\ next.edited = q.edited /\ next.charged = q.charged /\ next.behind = q.behind
  BY <1>6, <1>7, VersionSet
<1>9. requests' = [requests EXCEPT ![r] = next]
  <2>1. requests = [s \in Requests |-> requests[s]]  BY DEF IInv, Serving
  <2> QED  BY <1>1, <1>2, <1>5, <1>6, <2>1
<1>10. Others(r, {}) /\ requests'[r] = next  BY <1>4, <1>9, OthersOfMove
<1>11. Typed' /\ Recipes' = Recipes
  BY <1>2, <1>4, TypedWithSameRecipes DEF Typed
<1>12. Serving'
  BY <1>2, <1>3, <1>4, <1>8, <1>10, ServingGoesOn
<1>13. UpToDate'
  <2>1. \A s \in Active' \ {r} : Fresh(requests[s])'
    BY <1>2, <1>4, <1>10, <1>11, OthersStayFresh DEF IInv
  <2>2. Fresh(requests[r])'
    BY <1>2, <1>3, <1>8, <1>10 DEF Fresh, Stored
  <2> QED  BY <2>1, <2>2 DEF UpToDate
<1>14. PaidUp'
  <2>1. Charged' \ {r} = Charged \ {r}  BY <1>2, <1>4, <1>10, OthersStayCharged
  <2>2. r \notin Charged'  BY <1>8, <1>10 DEF Charged
  <2>3. r \in Charged <=> q.charged = month  BY <1>1, <1>2 DEF Charged, Active, Idle
  <2>4. IsFiniteSet(Charged) /\ Cardinality(Charged) \in Nat  BY <1>4, ChargedIsFinite
  <2>5. fetches' + Cardinality(Charged') = fetches + Cardinality(Charged)
    <3>1. CASE q.charged = month
      <4>1. Charged' = Charged \ {r} /\ r \in Charged  BY <2>1, <2>2, <2>3, <3>1
      <4>2. Cardinality(Charged') = Cardinality(Charged) - 1  BY <2>4, <4>1, FS_RemoveElement
      <4> QED  BY <1>2, <1>4, <2>4, <3>1, <4>2
    <3>2. CASE q.charged # month
      <4>1. Charged' = Charged  BY <2>1, <2>2, <2>3, <3>2
      <4> QED  BY <1>2, <3>2, <4>1
    <3> QED  BY <3>1, <3>2
  <2>6. UsedThisMonth(counter)' = UsedThisMonth(counter)  BY <1>2 DEF UsedThisMonth
  <2> QED  BY <1>2, <2>5, <2>6 DEF IInv, PaidUp
<1>15. Whole'  BY <1>2, WholeStays DEF IInv
<1> QED
  BY <1>11, <1>12, <1>13, <1>14, <1>15 DEF IInv

(* In a new month nothing has been charged, and the counter of an earlier    *)
(* month reads as zero.                                                      *)
LEMMA MonthPasses == ASSUME IInv, NextMonth PROVE IInv'
<1>1. month \in Nat /\ counter.month <= month /\ Typed /\ Serving /\ Count(counter)
  BY DEF IInv, Typed
<1>2. /\ month' = month + 1 /\ fetches' = 0
      /\ UNCHANGED <<tier, counter, recipes, requests, torn>>
  BY DEF NextMonth
<1>3. Typed' /\ Recipes' = Recipes
  <2>1. /\ tier' \in Tiers /\ month' \in Nat /\ month <= month' /\ fetches' \in Nat
        /\ Count(counter') /\ counter'.month <= month'
    BY <1>1, <1>2 DEF Typed, Count
  <2> QED  BY <1>1, <1>2, <2>1, TypedWithSameRecipes
<1>4. Active' = Active  BY <1>2 DEF Active
<1>5. Serving'
  <2>1. \A r \in Active : Request(requests'[r]) /\ requests'[r].charged <= month'
    BY <1>1, <1>2 DEF Serving, Request
  <2> QED  BY <1>1, <1>2, <1>4, <2>1 DEF Serving
<1>6. UpToDate'
  BY <1>2, <1>3, <1>4 DEF IInv, UpToDate, Fresh, Stored
<1>7. PaidUp'
  <2>1. Charged' = {}
    <3>1. ASSUME NEW r \in Active PROVE requests'[r].charged # month'
      <4>1. requests[r].charged \in Nat /\ requests[r].charged <= month
        BY <1>1 DEF Serving, Request
      <4> QED  BY <1>1, <1>2, <4>1
    <3> QED  BY <1>4, <3>1 DEF Charged
  <2>2. UsedThisMonth(counter)' = 0  BY <1>1, <1>2 DEF UsedThisMonth, Count
  <2> QED  BY <1>2, <2>1, <2>2, FS_EmptySet DEF PaidUp
<1>8. Whole'  BY <1>2, WholeStays DEF IInv
<1> QED
  BY <1>3, <1>5, <1>6, <1>7, <1>8 DEF IInv

LEMMA OutsideTheRequests ==
    ASSUME IInv, tier' \in Tiers,
           UNCHANGED <<month, counter, recipes, requests, fetches, torn>>
    PROVE  IInv'
<1>1. Typed' /\ Recipes' = Recipes  BY TypedWithSameRecipes DEF IInv, Typed
<1>2. Active' = Active /\ Charged' = Charged  BY DEF Active, Charged
<1>3. Serving'  BY <1>2 DEF IInv, Serving
<1>4. UpToDate'  BY <1>1, <1>2 DEF IInv, UpToDate, Fresh, Stored
<1>5. PaidUp'  BY <1>2 DEF IInv, PaidUp, UsedThisMonth
<1>6. Whole'  BY WholeStays DEF IInv
<1> QED
  BY <1>1, <1>3, <1>4, <1>5, <1>6 DEF IInv

LEMMA NextKeepsIt == ASSUME IInv, [Next]_vars PROVE IInv'
<1>1. ASSUME NEW r \in Requests, Arrive(r) PROVE IInv'  BY <1>1, Arriving
<1>2. ASSUME NEW r \in Requests, ReserveIngest(r) PROVE IInv'  BY <1>2, Reserving
<1>3. ASSUME NEW r \in Requests, FetchPage(r) PROVE IInv'  BY <1>3, Fetching
<1>4. ASSUME NEW r \in Requests, CreateRecipe(r) PROVE IInv'  BY <1>4, Creating
<1>5. ASSUME NEW r \in Requests, SetIngredients(r) PROVE IInv'  BY <1>5, Setting
<1>6. ASSUME NEW r \in Requests, CommitIngest(r) PROVE IInv'  BY <1>6, Ingesting
<1>7. ASSUME NEW r \in Requests, CommitReparse(r) PROVE IInv'  BY <1>7, Reparsing
<1>8. ASSUME NEW r \in Requests, CommitUpdate(r) PROVE IInv'  BY <1>8, Updating
<1>9. ASSUME NEW r \in Requests, DeleteRecipe(r) PROVE IInv'  BY <1>9, Deleting
<1>10. ASSUME NEW r \in Requests, End(r) PROVE IInv'  BY <1>10, Ending
<1>11. ASSUME NEW u \in Urls, PageChanges(u) PROVE IInv'
  BY <1>11, OutsideTheRequests DEF PageChanges, IInv, Typed
<1>12. CASE NextMonth  BY <1>12, MonthPasses
<1>13. CASE TierChanges  BY <1>13, OutsideTheRequests DEF TierChanges
<1>14. CASE UNCHANGED vars  BY <1>14, OutsideTheRequests DEF vars, IInv, Typed
<1> QED
  BY <1>1, <1>2, <1>3, <1>4, <1>5, <1>6, <1>7, <1>8, <1>9, <1>10, <1>11, <1>12, <1>13, <1>14 DEF Next

LEMMA Invariance == Spec => []IInv
<1>1. IInv /\ [Next]_vars => IInv'  BY NextKeepsIt
<1> QED
  BY InitIsFine, <1>1, PTL DEF Spec

-----------------------------------------------------------------------------
(* What GET /limits publishes is what the next write meets, at any time and  *)
(* for any table of limits: nothing is offered that would be refused, and    *)
(* nothing is sold that would not help (limits._effective, limits._verdict). *)
THEOREM PublishedLimitsHold == Spec => []LimitsKeepTheirWord
<1>1. IInv => LimitsKeepTheirWord
  <2> SUFFICES ASSUME IInv PROVE LimitsKeepTheirWord  OBVIOUS
  <2>1. tier \in Tiers /\ Recipes \in Nat /\ UsedThisMonth(counter) \in Nat
    BY RecipesIsACount, UsedIsACount DEF IInv, Typed
  <2>2. "recipes" \in Resources /\ "ingests_per_month" \in Resources  BY DEF Resources
  <2> QED
    BY <2>1, <2>2, PublishedIsAlwaysEnforced DEF LimitsKeepTheirWord
<1> QED
  BY <1>1, Invariance, PTL

(* No page is read that was not charged for, however requests fail, overlap  *)
(* with others' deletions or run into a new month, unless two of them charge *)
(* from the same counter (limits.reserve_ingest).                            *)
THEOREM NoPageForFree == Spec => []FetchesAreCharged
<1>1. IInv => FetchesAreCharged
  <2> SUFFICES ASSUME IInv, Counter \notin torn /\ Ceilings["ingests_per_month"] # NoLimit
               PROVE  fetches <= UsedThisMonth(counter)
    BY DEF FetchesAreCharged
  <2>1. fetches + Cardinality(Charged) <= UsedThisMonth(counter)  BY DEF IInv, PaidUp
  <2>2. Cardinality(Charged) \in Nat /\ fetches \in Nat  BY ChargedIsFinite DEF IInv, Typed
  <2>3. UsedThisMonth(counter) \in Nat  BY UsedIsACount DEF IInv, Typed
  <2> QED  BY <2>1, <2>2, <2>3
<1> QED
  BY <1>1, Invariance, PTL

(* A recipe's lines are of one hand, unless requests overlapped on it        *)
(* (catalog.set_recipe_ingredients, update_recipe, reparse_recipe).          *)
THEOREM LinesAreWholes == Spec => []LinesAreOfOneHand
<1>1. IInv => LinesAreOfOneHand
  BY DEF IInv, Whole, OneHand, LinesAreOfOneHand
<1> QED
  BY <1>1, Invariance, PTL

LEMMA RecipesAreCounted == Typed => Recipes \in Nat
BY RecipesIsACount

(* Only the commit of a new recipe makes the library larger, and it was       *)
(* counted against the allowance when nobody else had changed the count       *)
(* (limits.enforce, create_recipe_from_payload).                              *)
LEMMA OnlyIngestsAdd ==
    ASSUME IInv, Next, Recipes' > Recipes, Rows \notin torn'
    PROVE  \E r \in Requests : requests[r].phase = "staged" /\ requests'[r] = Idle
                               /\ ~Exceeds(Recipes', Effective(requests[r].tier, "recipes").limit)
<1>1. Typed /\ Serving /\ Recipes \in Nat  BY RecipesIsACount DEF IInv
<1>2. recipes' # recipes
  <2> SUFFICES ASSUME recipes' = recipes PROVE FALSE  OBVIOUS
  <2>1. Recipes' = Recipes  BY DEF Recipes, Stored
  <2> QED  BY <1>1, <2>1
<1>3. PICK r \in Requests : CommitIngest(r) \/ CommitReparse(r) \/ CommitUpdate(r) \/ DeleteRecipe(r)
  BY <1>2 DEF Next, Arrive, ReserveIngest, FetchPage, CreateRecipe, SetIngredients, End,
              PageChanges, NextMonth, TierChanges
<1>4. PICK q : q = requests[r]  OBVIOUS
<1>5. Request(q) /\ Fresh(q)
  BY <1>3, <1>4, RequestAt DEF CommitIngest, CommitReparse, CommitUpdate, DeleteRecipe
<1>6. q.url \in Urls /\ UNCHANGED <<tier, month, fetches, counter>>
  BY <1>3, <1>5 DEF CommitIngest, CommitReparse, CommitUpdate, DeleteRecipe, Request
<1>7. CASE CommitIngest(r)
  <2>1. /\ q.phase = "staged" /\ q.op \in {"ingest", "create"} /\ ~Stored(q.url)
        /\ recipes' = [recipes EXCEPT ![q.url] =
                         [stored |-> TRUE, edited |-> FALSE, lines |-> {FromPage(q.version)}]]
        /\ Writes(r, {q.url, Rows}, Idle)
    BY <1>4, <1>7 DEF CommitIngest
  <2>2. PICK x : x = [stored |-> TRUE, edited |-> FALSE, lines |-> {FromPage(q.version)}]  OBVIOUS
  <2>3. Row(x) /\ x.stored  BY <2>2 DEF Row
  <2>4. Recipes' = Recipes + 1  BY <1>1, <1>6, <2>1, <2>2, <2>3, TypedWithOneRow
  <2>5. Rows \notin q.behind  BY <1>4, <2>1 DEF Writes
  <2>6. ~Exceeds(Recipes', Effective(q.tier, "recipes").limit)
    BY <1>5, <2>1, <2>4, <2>5 DEF Fresh
  <2>7. requests'[r] = Idle  BY <2>1 DEF Writes
  <2> QED  BY <1>4, <2>1, <2>6, <2>7
<1>8. CASE CommitReparse(r) \/ CommitUpdate(r)
  <2>1. /\ Stored(q.url)
        /\ \E flag, lines : recipes' = [recipes EXCEPT ![q.url].edited = flag, ![q.url].lines = lines]
    BY ZenonT(30), <1>4, <1>8 DEF CommitReparse, CommitUpdate
  <2>2. PICK flag, lines : recipes' = [recipes EXCEPT ![q.url].edited = flag, ![q.url].lines = lines]
    BY <2>1
  <2>3. \A u \in Urls : recipes'[u].stored = recipes[u].stored
    <3>1. recipes = [u \in Urls |-> recipes[u]]  BY <1>1 DEF Typed
    <3>2. PICK f : f = [recipes EXCEPT ![q.url].edited = flag]  OBVIOUS
    <3>3. recipes' = [f EXCEPT ![q.url].lines = lines]  BY <2>2, <3>2
    <3>4. f = [u \in Urls |-> f[u]] /\ \A u \in Urls : Row(recipes[u])
      BY <1>1, <3>1, <3>2 DEF Typed
    <3>5. \A u \in Urls : f[u].stored = recipes[u].stored
      BY <1>6, <3>1, <3>2, <3>4 DEF Row
    <3>6. f[q.url] = [stored |-> recipes[q.url].stored, edited |-> flag, lines |-> recipes[q.url].lines]
      BY <1>6, <3>1, <3>2, <3>4 DEF Row
    <3>7. \A u \in Urls : recipes'[u].stored = f[u].stored
      BY <1>6, <3>3, <3>4, <3>6
    <3> QED  BY <3>5, <3>7
  <2>4. Recipes' = Recipes  BY <2>3 DEF Recipes, Stored
  <2> QED  BY <1>1, <2>4
<1>9. CASE DeleteRecipe(r)
  <2>1. recipes' = [recipes EXCEPT ![q.url] = Absent]  BY <1>4, <1>9 DEF DeleteRecipe
  <2>2. Row(Absent) /\ ~Absent.stored  BY DEF Row, Absent
  <2>3. Recipes' <= Recipes /\ Recipes' \in Nat
    <3>1. Typed' /\ Recipes' <= Recipes  BY <1>1, <1>6, <2>1, <2>2, TypedWithOneRow
    <3>2. (Typed => Recipes \in Nat)'  BY RecipesAreCounted, PTL
    <3> QED  BY <3>1, <3>2
  <2> QED  BY <1>1, <2>3
<1> QED
  BY <1>3, <1>7, <1>8, <1>9

(* limits.enforce: unless two requests saved one at once, no recipe is saved *)
(* beyond what the tier of the request and the operator's ceiling allow.     *)
THEOREM LibraryStaysWithinItsCap == Spec => RecipesStayWithinCap
<1>1. IInv /\ [Next]_vars =>
        [(Recipes' > Recipes /\ Rows \notin torn') =>
          \E r \in Requests : requests[r].phase = "staged" /\ requests'[r] = Idle
                              /\ ~Exceeds(Recipes', Effective(requests[r].tier, "recipes").limit)]_vars
  BY OnlyIngestsAdd
<1> QED
  BY <1>1, Invariance, PTL DEF Spec, RecipesStayWithinCap
=============================================================================
