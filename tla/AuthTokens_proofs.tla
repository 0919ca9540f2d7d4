--------------------------- MODULE AuthTokens_proofs ---------------------------
(***************************************************************************)
(* For any number of users, clients and requests: the rate limiter bounds  *)
(* what was tried and not forgiven, a user has one reset code at a time,   *)
(* and no session outlives the password.                                   *)
(***************************************************************************)
EXTENDS AuthTokens, FiniteSetTheorems, TLAPS

-----------------------------------------------------------------------------
(* Types. *)
Token == [id : Nat, user : Users, kind : {"session", "api", "reset"}, password : Nat]

Request ==
    [phase : {"admitted", "charged", "staged", "deleted", "sending", "counted"},
     client : Clients \cup {"any"}, op : {"login", "change", "request", "confirm", "create"},
     user : Users, presents : Nat, loaded : Nat, attempt : Nat, old : SUBSET Token,
     stale : BOOLEAN]

Typed ==
    /\ now \in Nat /\ chosen \in Nat /\ issued \in Nat /\ served \in Nat
    /\ password \in [Users -> Nat]
    /\ tokens \subseteq Token
    /\ mailed \subseteq Nat
    /\ requests \in [Requests -> Request \cup {Idle}]
    /\ \A r \in Requests : requests[r].phase \in {"admitted", "charged"} => requests[r].client \in Clients

-----------------------------------------------------------------------------
(* The rate limiter.                                                       *)

Of(c) == {a \in attempts : a.client = c}
Limited == {r \in Requests : requests[r].phase \in {"admitted", "charged"}}
LimitedOf(c) == {r \in Limited : requests[r].client = c}

(* A window accounts for the attempts of a client: each has an instant of    *)
(* its own in it, and the last instant is that of the request in flight.     *)
Accounts(c, f) ==
    /\ f \in Injection(Of(c), 1..Len(windows[c]))
    /\ \A a \in Of(c) : windows[c][f[a]] = a.at
    /\ \A r \in LimitedOf(c) : requests[r].phase = "charged" =>
          /\ windows[c] # <<>>
          /\ \A a \in Of(c) : f[a] = Len(windows[c]) => a.number = requests[r].attempt

Within(c) ==
    /\ \A r, s \in LimitedOf(c) : r = s
    /\ Cardinality(Of(c)) <= Limit
    /\ \A r \in LimitedOf(c) : requests[r].phase = "admitted" => Cardinality(Of(c)) < Limit
    /\ \E f : Accounts(c, f)

Recent ==
    /\ windows \in [Clients -> Seq(Nat)]
    /\ IsFiniteSet(attempts)
    /\ attempts \subseteq [client : Clients, at : Nat, number : Nat]
    /\ \A a \in attempts : a.at <= now /\ now - a.at <= Minute

Windows == Recent /\ \A c \in Clients \ crossed : Within(c)

-----------------------------------------------------------------------------
(* Credentials.                                                            *)

SessionsOf(u) == {t \in tokens : t.kind = "session" /\ t.user = u}

(* What a request that is not stale may rely on: the password it checked is  *)
(* in force, and it deletes all there is.                                    *)
Current(q) ==
    /\ q.phase = "staged" /\ q.op = "login" => q.presents = password[q.user]
    /\ q.phase = "deleted" /\ q.op \in {"change", "confirm"} => SessionsOf(q.user) \subseteq q.old
    /\ q.phase = "deleted" /\ q.op = "request" => LiveCodes(q.user) \subseteq q.old

OneCode == \A u \in Users \ raced : \A s, t \in LiveCodes(u) : s = t

Credentials ==
    /\ \A r \in Requests : requests[r] # Idle /\ ~requests[r].stale => Current(requests[r])
    /\ SessionsFollowThePassword
    /\ OneCode

IInv == Typed /\ Windows /\ Credentials

-----------------------------------------------------------------------------
LEMMA IdleIsNoRequest == Idle \notin Request /\ Idle.phase = "idle"
BY DEF Idle, Request

(* A set of natural numbers has a least element: there is a least interval  *)
(* up to one of its elements.                                               *)
LEMMA LeastElement ==
    ASSUME NEW S \in SUBSET Nat, S # {}
    PROVE  Min(S) \in S /\ \A y \in S : Min(S) <= y
<1> DEFINE R == StrictSubsetOrdering(Nat)
           F == FiniteSubsetsOf(Nat)
           T == {1..n : n \in S}
<1>1. IsWellFoundedOn(R, F)
  BY FS_StrictSubsetOrderingWellFounded
<1>2. T \subseteq F /\ T # {}
  <2>1. \A n \in S : 1..n \in SUBSET Nat /\ IsFiniteSet(1..n)
    BY FS_Interval
  <2> QED
    BY <2>1 DEF FiniteSubsetsOf
<1>3. PICK X \in T : \A Y \in T : <<Y, X>> \notin R
  <2> HIDE DEF R, F, T
  <2> QED
    BY <1>1, <1>2, WFMin
<1>4. PICK x \in S : X = 1..x
  OBVIOUS
<1>5. ASSUME NEW y \in S, y < x PROVE FALSE
  <2>1. 1..y \subseteq 1..x /\ x \in 1..x /\ x \notin 1..y
    BY <1>5
  <2>2. 1..y \in T
    BY <1>5
  <2>3. <<1..y, X>> \in R
    BY <1>4, <2>1 DEF StrictSubsetOrdering
  <2> QED
    BY <1>3, <2>2, <2>3
<1>6. \E m \in S : \A y \in S : m <= y
  BY <1>5
<1> QED
  BY <1>6 DEF Min

(* Pruning a window drops the entries in front of the first recent one.     *)
LEMMA PrunedShifts ==
    ASSUME NEW w \in Seq(Nat), NEW at \in Nat, NEW i \in 1..Len(w), at - w[i] <= Minute
    PROVE  \E k \in 0..Len(w) :
              /\ Pruned(w, at) \in Seq(Nat)
              /\ Len(Pruned(w, at)) = Len(w) - k
              /\ \A j \in 1..Len(w) : at - w[j] <= Minute =>
                    j > k /\ Pruned(w, at)[j - k] = w[j]
<1> DEFINE recent == {j \in DOMAIN w : at - w[j] <= Minute}
<1>1. recent \subseteq Nat /\ i \in recent /\ recent \subseteq 1..Len(w)
  OBVIOUS
<1>2. Min(recent) \in recent /\ \A y \in recent : Min(recent) <= y
  <2> HIDE DEF recent
  <2> QED
    BY <1>1, LeastElement
<1>3. Pruned(w, at) = SubSeq(w, Min(recent), Len(w))
  BY <1>1 DEF Pruned
<1> DEFINE m == Min(recent)
<1>4. m \in 1..Len(w)
  BY <1>1, <1>2
<1> HIDE DEF m
<1>5. /\ SubSeq(w, m, Len(w)) \in Seq(Nat)
      /\ Len(SubSeq(w, m, Len(w))) = Len(w) - m + 1
      /\ \A j \in 1..(Len(w) - m + 1) : SubSeq(w, m, Len(w))[j] = w[m + j - 1]
  BY <1>4
<1>6. \A j \in 1..Len(w) : at - w[j] <= Minute => j >= m /\ j - (m - 1) \in 1..(Len(w) - m + 1)
  <2> SUFFICES ASSUME NEW j \in 1..Len(w), at - w[j] <= Minute
               PROVE  j >= m /\ j - (m - 1) \in 1..(Len(w) - m + 1)
    OBVIOUS
  <2>1. j \in recent
    OBVIOUS
  <2>2. m <= j
    BY <1>2, <2>1 DEF m
  <2> QED
    BY <1>4, <2>2
<1>7. \A j \in 1..Len(w) : at - w[j] <= Minute => SubSeq(w, m, Len(w))[j - (m - 1)] = w[j]
  BY <1>4, <1>5, <1>6
<1>8. m - 1 \in 0..Len(w) /\ Len(w) - (m - 1) = Len(w) - m + 1
  BY <1>4
<1>9. \A j \in 1..Len(w) : at - w[j] <= Minute => j > m - 1
  BY <1>4, <1>6
<1>10. Pruned(w, at) = SubSeq(w, m, Len(w))
  BY <1>3 DEF m
<1> DEFINE k == m - 1
<1>11. /\ k \in 0..Len(w) /\ Len(SubSeq(w, m, Len(w))) = Len(w) - k
       /\ \A j \in 1..Len(w) : at - w[j] <= Minute =>
             j > k /\ SubSeq(w, m, Len(w))[j - k] = w[j]
  BY <1>5, <1>7, <1>8, <1>9
<1> HIDE DEF k
<1> QED
  BY <1>5, <1>10, <1>11

LEMMA OfIsFinite ==
    ASSUME IsFiniteSet(attempts), NEW c
    PROVE  IsFiniteSet(Of(c)) /\ Cardinality(Of(c)) \in Nat
BY FS_Subset, FS_CardinalityType DEF Of

(* Nothing new about client c. *)
LEMMA WithinKept ==
    ASSUME Recent, NEW c \in Clients, Within(c),
           windows'[c] = windows[c], Of(c)' \subseteq Of(c),
           \A r \in LimitedOf(c)' :
              /\ r \in LimitedOf(c)
              /\ requests'[r].phase = requests[r].phase
              /\ requests'[r].attempt = requests[r].attempt
    PROVE  Within(c)'
<1>1. PICK f : Accounts(c, f)
  BY DEF Within
<1>2. Of(c)' \subseteq Of(c)
  OBVIOUS
<1>3. f \in [Of(c) -> 1..Len(windows[c])] /\ \A a, b \in Of(c) : f[a] = f[b] => a = b
  BY <1>1 DEF Accounts, Injection, IsInjective
<1> DEFINE h == [a \in Of(c)' |-> f[a]]
<1>4. h \in Injection(Of(c)', 1..Len(windows'[c])) /\ \A a \in Of(c)' : h[a] = f[a]
  BY <1>2, <1>3 DEF Injection, IsInjective
<1> HIDE DEF h
<1>5. PICK g : g = h
  OBVIOUS
<1>6. g \in Injection(Of(c)', 1..Len(windows'[c]))
  BY <1>4, <1>5
<1>7. \A a \in Of(c)' : g[a] = f[a] /\ a \in Of(c)
  BY <1>2, <1>4, <1>5
<1>8. Accounts(c, g)'
  <2>1. \A a \in Of(c)' : windows'[c][g[a]] = a.at
    BY <1>1, <1>7 DEF Accounts
  <2>2. ASSUME NEW r \in LimitedOf(c)', requests'[r].phase = "charged"
        PROVE  windows'[c] # <<>> /\ \A a \in Of(c)' : g[a] = Len(windows'[c]) => a.number = requests'[r].attempt
    BY <1>1, <1>7, <2>2 DEF Accounts
  <2> QED
    BY <1>6, <2>1, <2>2 DEF Accounts
<1>9. IsFiniteSet(Of(c)) /\ Cardinality(Of(c)) \in Nat
  BY OfIsFinite DEF Recent
<1>10. Cardinality(Of(c)') <= Cardinality(Of(c)) /\ Cardinality(Of(c)') \in Nat
  BY <1>2, <1>9, FS_Subset, FS_CardinalityType
<1>11. Limit \in Nat
  BY RateLimiterAssumption
<1> QED
  BY <1>8, <1>9, <1>10, <1>11 DEF Within

(* Steps that leave the limiter alone: a request may only leave it. *)
LEMMA WindowsKept ==
    ASSUME Windows, UNCHANGED <<now, windows, attempts, crossed>>,
           \A r \in Limited' :
              /\ r \in Limited
              /\ requests'[r].phase = requests[r].phase
              /\ requests'[r].client = requests[r].client
              /\ requests'[r].attempt = requests[r].attempt
    PROVE  Windows'
<1>1. Recent'
  BY DEF Windows, Recent
<1>2. ASSUME NEW c \in Clients \ crossed' PROVE Within(c)'
  <2>1. Within(c) /\ Recent
    BY <1>2 DEF Windows
  <2>2. \A r \in LimitedOf(c)' : r \in LimitedOf(c)
    BY DEF LimitedOf
  <2> QED
    BY <2>1, <2>2, WithinKept DEF LimitedOf, Of
<1> QED
  BY <1>1, <1>2 DEF Windows

LEMMA AdmitKeepsWindows ==
    ASSUME Typed, Windows, NEW r \in Requests, NEW c \in Clients, NEW op, NEW u, NEW presents,
           Admit(r, c, op, u, presents)
    PROVE  Windows'
<1>1. /\ requests'[r].phase = "admitted" /\ requests'[r].client = c
      /\ requests[r] = Idle
      /\ \A s \in Requests \ {r} : requests'[s] = requests[s]
  BY DEF Admit, Typed
<1>2. windows' = [windows EXCEPT ![c] = Pruned(windows[c], now)] /\ Admits(windows[c], now)
  BY DEF Admit
<1>3. UNCHANGED <<now, attempts>>
  BY DEF Admit
<1>4. windows \in [Clients -> Seq(Nat)] /\ now \in Nat /\ Limit \in Nat \ {0} /\ Minute \in Nat
  BY RateLimiterAssumption DEF Windows, Recent, Typed
<1>5. Limited' = Limited \cup {r} /\ r \notin Limited
  BY <1>1 DEF Limited, Idle
<1>6. ASSUME NEW d \in Clients \ crossed', d # c PROVE Within(d)'
  <2>1. Within(d) /\ Recent
    BY <1>6 DEF Windows, Admit
  <2>2. windows'[d] = windows[d]
    BY <1>2, <1>4, <1>6
  <2>3. \A s \in LimitedOf(d)' : s \in LimitedOf(d) /\ requests'[s] = requests[s]
    BY <1>1, <1>5, <1>6 DEF LimitedOf, Limited
  <2> QED
    BY <1>3, <2>1, <2>2, <2>3, WithinKept DEF Of
<1>7. /\ Pruned(windows[c], now) \in Seq(Nat)
      /\ \A f : f \in Injection(Of(c), 1..Len(windows[c])) /\ (\A a \in Of(c) : windows[c][f[a]] = a.at)
            => \E g \in Injection(Of(c), 1..Len(Pruned(windows[c], now))) :
                  \A a \in Of(c) : Pruned(windows[c], now)[g[a]] = a.at
  <2> DEFINE w == windows[c]
             p == Pruned(w, now)
  <2>1. w \in Seq(Nat)
    BY <1>4
  <2>2. p \in Seq(Nat)
    <3>1. CASE \E i \in 1..Len(w) : now - w[i] <= Minute
      BY <1>4, <2>1, <3>1, PrunedShifts
    <3>2. CASE ~\E i \in 1..Len(w) : now - w[i] <= Minute
      <4>1. {i \in DOMAIN w : now - w[i] <= Minute} = {}
        BY <2>1, <3>2
      <4>2. p = <<>>
        BY <4>1 DEF Pruned
      <4> QED
        BY <4>2
    <3> QED
      BY <3>1, <3>2
  <2>3. ASSUME NEW f, f \in Injection(Of(c), 1..Len(w)), \A a \in Of(c) : w[f[a]] = a.at
        PROVE  \E g \in Injection(Of(c), 1..Len(p)) : \A a \in Of(c) : p[g[a]] = a.at
    <3>1. \A a \in Of(c) : f[a] \in 1..Len(w) /\ w[f[a]] = a.at /\ now - a.at <= Minute
      BY <2>3 DEF Injection, IsInjective, Of, Windows, Recent
    <3>2. CASE Of(c) = {}
      <4>1. [a \in Of(c) |-> 0] \in Injection(Of(c), 1..Len(p))
        BY <3>2 DEF Injection, IsInjective
      <4> QED
        BY <3>2, <4>1
    <3>3. CASE Of(c) # {}
      <4>1. PICK i \in 1..Len(w) : now - w[i] <= Minute
        BY <3>1, <3>3
      <4>2. PICK k \in 0..Len(w) :
               /\ Len(p) = Len(w) - k
               /\ \A j \in 1..Len(w) : now - w[j] <= Minute => j > k /\ p[j - k] = w[j]
        BY <1>4, <2>1, <4>1, PrunedShifts
      <4> DEFINE g == [a \in Of(c) |-> f[a] - k]
      <4> HIDE DEF w, p
      <4>3. \A a \in Of(c) : f[a] \in 1..Len(w) /\ f[a] > k /\ p[f[a] - k] = a.at
        BY <3>1, <4>2
      <4>4. Len(w) \in Nat
        BY <2>1
      <4>5. \A a \in Of(c) : g[a] \in 1..Len(p) /\ p[g[a]] = a.at
        BY <4>2, <4>3, <4>4
      <4>6. \A a, b \in Of(c) : g[a] = g[b] => a = b
        <5> SUFFICES ASSUME NEW a \in Of(c), NEW b \in Of(c), f[a] - k = f[b] - k PROVE a = b
          OBVIOUS
        <5>1. f[a] = f[b]
          BY <4>3
        <5> QED
          BY <2>3, <5>1 DEF Injection, IsInjective
      <4>7. g \in Injection(Of(c), 1..Len(p))
        BY <4>5, <4>6 DEF Injection, IsInjective
      <4> QED
        BY <4>5, <4>7
    <3> QED
      BY <3>2, <3>3
  <2> QED
    BY <2>2, <2>3
<1>8. ASSUME c \notin crossed' PROVE Within(c)'
  <2>1. Within(c) /\ Busy(c) = {}
    BY <1>8 DEF Windows, Admit
  <2>2. LimitedOf(c)' = {r} /\ LimitedOf(c) = {}
    <3>1. LimitedOf(c) = {}
      BY <2>1, IdleIsNoRequest DEF LimitedOf, Limited, Busy
    <3>2. \A s \in Limited : requests'[s] = requests[s]
      BY <1>1, <1>5 DEF Limited
    <3>3. \A s \in Limited' : requests'[s].client = c => s = r
      BY <1>5, <3>1, <3>2 DEF LimitedOf
    <3>4. r \in Limited' /\ requests'[r].client = c
      BY <1>1, <1>5
    <3> QED
      BY <3>1, <3>3, <3>4 DEF LimitedOf
  <2>3. Of(c)' = Of(c)
    BY <1>3 DEF Of
  <2>4. PICK g \in Injection(Of(c), 1..Len(Pruned(windows[c], now))) :
           \A a \in Of(c) : Pruned(windows[c], now)[g[a]] = a.at
    BY <1>7, <2>1 DEF Within, Accounts
  <2>5. windows'[c] = Pruned(windows[c], now)
    BY <1>2, <1>4
  <2>6. Accounts(c, g)'
    BY <1>1, <2>2, <2>3, <2>4, <2>5 DEF Accounts
  <2>7. Cardinality(Of(c)) <= Len(Pruned(windows[c], now))
    <3> DEFINE n == Len(Pruned(windows[c], now))
    <3>1. n \in Nat
      BY <1>7
    <3>2. IsFiniteSet(1..n) /\ Cardinality(1..n) = n
      BY <3>1, FS_Interval
    <3> HIDE DEF n
    <3>3. Cardinality(Of(c)) <= Cardinality(1..n)
      BY <2>4, <3>2, FS_Injection DEF n
    <3> QED
      BY <3>2, <3>3 DEF n
  <2>8. Cardinality(Of(c)) < Limit
    <3>1. Len(Pruned(windows[c], now)) < Limit /\ Len(Pruned(windows[c], now)) \in Nat
      BY <1>2, <1>7 DEF Admits
    <3>2. Cardinality(Of(c)) \in Nat
      BY OfIsFinite DEF Windows, Recent
    <3> QED
      BY <1>4, <2>7, <3>1, <3>2
  <2> QED
    BY <1>4, <2>2, <2>3, <2>6, <2>8, OfIsFinite DEF Within, Windows, Recent
<1>9. Recent'
  BY <1>2, <1>3, <1>7 DEF Windows, Recent
<1> QED
  BY <1>6, <1>8, <1>9 DEF Windows

LEMMA ChargeItKeepsWindows ==
    ASSUME Typed, Windows, NEW r \in Requests, ChargeIt(r)
    PROVE  Windows'
<1>0. PICK c \in Clients : c = requests[r].client
  BY DEF ChargeIt, Typed
<1> DEFINE w == windows[c]
           a0 == [client |-> c, at |-> now, number |-> requests[r].attempt]
<1>1. requests[r].phase = "admitted" /\ requests[r] \in Request /\ c \in Clients
  BY IdleIsNoRequest, <1>0 DEF ChargeIt, Typed
<1>2. /\ windows' = [windows EXCEPT ![c] = Append(w, now)]
      /\ attempts' = attempts \cup {a0}
      /\ UNCHANGED <<now, crossed>>
  BY <1>0 DEF ChargeIt, Charge
<1>3. /\ requests'[r] = [requests[r] EXCEPT !.phase = "charged"]
      /\ \A s \in Requests \ {r} : requests'[s] = requests[s]
  BY DEF ChargeIt, Typed
<1>4. requests'[r].phase = "charged" /\ requests'[r].client = c /\ requests'[r].attempt = requests[r].attempt
  BY <1>0, <1>1, <1>3 DEF Request
<1>5. windows \in [Clients -> Seq(Nat)] /\ now \in Nat /\ Limit \in Nat \ {0} /\ Minute \in Nat
  BY RateLimiterAssumption DEF Windows, Recent, Typed
<1>6. w \in Seq(Nat) /\ Append(w, now) \in Seq(Nat) /\ Len(Append(w, now)) = Len(w) + 1 /\ Len(w) \in Nat
      /\ (\A i \in 1..Len(w) : Append(w, now)[i] = w[i]) /\ Append(w, now)[Len(w) + 1] = now
  BY <1>1, <1>5
<1>7. a0 \in [client : Clients, at : Nat, number : Nat] /\ a0.client = c /\ a0.at = now
      /\ a0.number = requests[r].attempt
  BY <1>1, <1>5 DEF Request
<1> HIDE DEF w, a0
<1>8. Recent'
  <2>1. windows' \in [Clients -> Seq(Nat)]
    BY <1>1, <1>2, <1>5, <1>6
  <2>2. IsFiniteSet(attempts')
    BY <1>2, FS_AddElement DEF Windows, Recent
  <2>3. ASSUME NEW a \in attempts' PROVE a \in [client : Clients, at : Nat, number : Nat]
                                          /\ a.at <= now' /\ now' - a.at <= Minute
    <3>1. CASE a \in attempts
      BY <1>2, <3>1 DEF Windows, Recent
    <3>2. CASE a = a0
      BY <1>2, <1>5, <1>7, <3>2
    <3> QED
      BY <1>2, <3>1, <3>2
  <2> QED
    BY <2>1, <2>2, <2>3 DEF Recent
<1>9. Limited' = Limited /\ r \in Limited
  BY <1>1, <1>3, <1>4 DEF Limited
<1>10. ASSUME NEW d \in Clients \ crossed', d # c PROVE Within(d)'
  <2>1. Within(d) /\ Recent
    BY <1>2, <1>10 DEF Windows
  <2>2. windows'[d] = windows[d]
    BY <1>2, <1>5, <1>10
  <2>3. \A s \in LimitedOf(d)' : s \in LimitedOf(d) /\ requests'[s] = requests[s]
    BY <1>3, <1>4, <1>9, <1>10 DEF LimitedOf, Limited
  <2>4. Of(d)' = Of(d)
    BY <1>2, <1>7, <1>10 DEF Of
  <2> QED
    BY <2>1, <2>2, <2>3, <2>4, WithinKept
<1>11. ASSUME c \notin crossed' PROVE Within(c)'
  <2>1. Within(c)
    BY <1>1, <1>2, <1>11 DEF Windows
  <2>2. r \in LimitedOf(c)
    BY <1>0, <1>9 DEF LimitedOf
  <2>3. \A s \in LimitedOf(c)' : s = r
    <3> SUFFICES ASSUME NEW s \in Limited', requests'[s].client = c, s # r PROVE FALSE
      BY DEF LimitedOf
    <3>1. s \in Requests \ {r} /\ requests'[s] = requests[s]
      BY <1>3 DEF Limited
    <3>2. s \in LimitedOf(c)
      BY <1>9, <3>1 DEF LimitedOf
    <3> QED
      BY <2>1, <2>2, <3>2 DEF Within
  <2>4. Of(c)' = Of(c) \cup {a0}
    BY <1>2, <1>7 DEF Of
  <2>5. Cardinality(Of(c)) < Limit /\ IsFiniteSet(Of(c)) /\ Cardinality(Of(c)) \in Nat
    BY <1>1, <2>1, <2>2, OfIsFinite DEF Within, Windows, Recent
  <2>6. Cardinality(Of(c)') <= Limit
    <3>1. Cardinality(Of(c)') <= Cardinality(Of(c)) + 1 /\ Cardinality(Of(c)') \in Nat
      <4>1. CASE a0 \in Of(c)
        <5>1. Of(c)' = Of(c)
          BY <2>4, <4>1
        <5> QED
          BY <2>5, <5>1
      <4>2. CASE a0 \notin Of(c)
        <5>1. Cardinality(Of(c)') = Cardinality(Of(c)) + 1
          BY <2>4, <2>5, <4>2, FS_AddElement
        <5> QED
          BY <2>5, <5>1
      <4> QED
        BY <4>1, <4>2
    <3> QED
      BY <1>5, <2>5, <3>1
  <2>7. PICK f : Accounts(c, f)
    BY <2>1 DEF Within
  <2>8. /\ \A a \in Of(c) : f[a] \in 1..Len(w) /\ w[f[a]] = a.at
        /\ \A a, b \in Of(c) : f[a] = f[b] => a = b
    BY <2>7 DEF Accounts, Injection, IsInjective, w
  <2> DEFINE h == [a \in Of(c)' |-> IF a \in Of(c) THEN f[a] ELSE Len(w) + 1]
  <2>9. \A a \in Of(c)' : h[a] = IF a \in Of(c) THEN f[a] ELSE Len(w) + 1
    OBVIOUS
  <2>10. h \in [Of(c)' -> 1..(Len(w) + 1)]
    BY <1>6, <2>8
  <2> HIDE DEF h
  <2>11. ASSUME NEW a \in Of(c)', NEW b \in Of(c)', h[a] = h[b] PROVE a = b
    <3>1. CASE a \in Of(c) /\ b \in Of(c)
      BY <2>8, <2>9, <2>11, <3>1
    <3>2. CASE a \in Of(c) /\ b \notin Of(c)
      BY <1>6, <2>8, <2>9, <2>11, <3>2
    <3>3. CASE a \notin Of(c) /\ b \in Of(c)
      BY <1>6, <2>8, <2>9, <2>11, <3>3
    <3>4. CASE a \notin Of(c) /\ b \notin Of(c)
      BY <2>4, <3>4
    <3> QED
      BY <3>1, <3>2, <3>3, <3>4
  <2>12. windows'[c] = Append(w, now) /\ Len(windows'[c]) = Len(w) + 1
    BY <1>1, <1>2, <1>5, <1>6
  <2>13. PICK g : g = h
    OBVIOUS
  <2>14. g \in Injection(Of(c)', 1..Len(windows'[c]))
    BY <2>10, <2>11, <2>12, <2>13 DEF Injection, IsInjective
  <2>15. ASSUME NEW a \in Of(c)'
         PROVE  /\ windows'[c][g[a]] = a.at
                /\ g[a] = Len(windows'[c]) => a.number = requests'[r].attempt
    <3>1. CASE a \in Of(c)
      BY <1>6, <2>8, <2>9, <2>12, <2>13, <3>1
    <3>2. CASE a \notin Of(c)
      BY <1>4, <1>6, <1>7, <2>4, <2>9, <2>12, <2>13, <3>2
    <3> QED
      BY <3>1, <3>2
  <2>16. windows'[c] # <<>>
    BY <1>6, <2>12
  <2>17. Accounts(c, g)'
    BY <2>3, <2>14, <2>15, <2>16 DEF Accounts
  <2> QED
    BY <1>4, <2>3, <2>6, <2>17 DEF Within
<1> QED
  BY <1>8, <1>10, <1>11 DEF Windows

LEMMA VerifyKeepsWindows ==
    ASSUME Typed, Windows, NEW r \in Requests, Verify(r)
    PROVE  Windows'
<1>0. PICK c \in Clients : c = requests[r].client
  BY DEF Verify, Typed
<1> DEFINE w == windows[c]
           n == requests[r].attempt
<1>1. requests[r].phase = "charged" /\ requests[r] \in Request /\ c \in Clients
  BY IdleIsNoRequest, <1>0 DEF Verify, Typed
<1>2. /\ windows' = [windows EXCEPT ![c] = Forgive(w)]
      /\ attempts' = {a \in attempts : a.number # n}
      /\ UNCHANGED <<now, crossed>>
  BY <1>0 DEF Verify
<1>3. /\ requests'[r] = [requests[r] EXCEPT !.phase = "staged"]
      /\ \A s \in Requests \ {r} : requests'[s] = requests[s]
  BY DEF Verify, Typed
<1>4. requests'[r].phase = "staged"
  BY <1>1, <1>3 DEF Request
<1>5. windows \in [Clients -> Seq(Nat)] /\ w \in Seq(Nat) /\ Len(w) \in Nat
  BY <1>1 DEF Windows, Recent
<1>6. Forgive(w) \in Seq(Nat)
      /\ (w # <<>> => Len(Forgive(w)) = Len(w) - 1
                      /\ \A i \in 1..(Len(w) - 1) : Forgive(w)[i] = w[i])
  <2>1. w # <<>> => Len(w) - 1 \in Nat /\ Len(w) - 1 <= Len(w)
    BY <1>5
  <2>2. CASE w # <<>>
    <3>1. Forgive(w) = SubSeq(w, 1, Len(w) - 1)
      BY <2>2 DEF Forgive, Front
    <3>2. Len(w) - 1 \in 0..Len(w)
      BY <1>5, <2>1, <2>2
    <3>3. PICK l \in 0..Len(w) : l = Len(w) - 1
      BY <3>2
    <3>4. /\ SubSeq(w, 1, l) \in Seq(Nat) /\ Len(SubSeq(w, 1, l)) = l
          /\ \A i \in 1..l : SubSeq(w, 1, l)[i] = w[i]
      <4>1. \A i \in 1..l : i \in 1..Len(w)
        BY <1>5, <3>3
      <4> QED
        BY <1>5, <4>1
    <3> QED
      BY <3>1, <3>3, <3>4
  <2> QED
    BY <1>5, <2>2 DEF Forgive
<1>7. r \in LimitedOf(c)
  BY <1>0, <1>1 DEF LimitedOf, Limited
<1> HIDE DEF w, n
<1>8. attempts' \subseteq attempts
  BY <1>2
<1>9. Recent'
  <2>1. windows' \in [Clients -> Seq(Nat)]
    BY <1>2, <1>5, <1>6
  <2>2. IsFiniteSet(attempts')
    BY <1>8, FS_Subset DEF Windows, Recent
  <2> QED
    BY <1>2, <1>8, <2>1, <2>2 DEF Windows, Recent
<1>10. ASSUME NEW d, NEW s \in LimitedOf(d)'
       PROVE  s \in LimitedOf(d) /\ requests'[s] = requests[s] /\ s # r
  BY <1>3, <1>4 DEF LimitedOf, Limited
<1>11. ASSUME NEW d \in Clients \ crossed', d # c PROVE Within(d)'
  <2>1. Within(d) /\ Recent
    BY <1>2, <1>11 DEF Windows
  <2>2. windows'[d] = windows[d]
    BY <1>2, <1>5, <1>11
  <2> QED
    BY <1>8, <1>10, <2>1, <2>2, WithinKept DEF Of
<1>12. ASSUME c \notin crossed' PROVE Within(c)'
  <2>1. Within(c)
    BY <1>1, <1>2, <1>12 DEF Windows
  <2>2. LimitedOf(c)' = {}
    BY <1>7, <1>10, <2>1 DEF Within
  <2>3. Of(c)' = {a \in Of(c) : a.number # n}
    BY <1>2 DEF Of
  <2>4. IsFiniteSet(Of(c)) /\ Cardinality(Of(c)) \in Nat /\ Limit \in Nat
    BY OfIsFinite, RateLimiterAssumption DEF Windows, Recent
  <2>5. Cardinality(Of(c)') <= Limit
    <3>1. Cardinality(Of(c)') <= Cardinality(Of(c)) /\ Cardinality(Of(c)') \in Nat
      BY <2>3, <2>4, FS_Subset, FS_CardinalityType
    <3> QED
      BY <2>1, <2>4, <3>1 DEF Within
  <2>6. PICK f : Accounts(c, f)
    BY <2>1 DEF Within
  <2>7. /\ \A a \in Of(c) : f[a] \in 1..Len(w) /\ w[f[a]] = a.at
        /\ \A a, b \in Of(c) : f[a] = f[b] => a = b
    BY <2>6 DEF Accounts, Injection, IsInjective, w
  <2>8. w # <<>> /\ \A a \in Of(c) : f[a] = Len(w) => a.number = n
    BY <1>1, <1>7, <2>6 DEF Accounts, w, n
  <2> DEFINE h == [a \in Of(c)' |-> f[a]]
  <2>9. windows'[c] = Forgive(w)
    BY <1>1, <1>2, <1>5
  <2>10. \A a \in Of(c)' : a \in Of(c) /\ f[a] \in 1..(Len(w) - 1) /\ h[a] = f[a]
    <3> SUFFICES ASSUME NEW a \in Of(c)' PROVE a \in Of(c) /\ f[a] \in 1..(Len(w) - 1)
      OBVIOUS
    <3>1. a \in Of(c) /\ a.number # n
      BY <2>3
    <3>2. f[a] \in 1..Len(w) /\ f[a] # Len(w)
      BY <2>7, <2>8, <3>1
    <3> QED
      BY <1>5, <3>1, <3>2
  <2>11. h \in Injection(Of(c)', 1..Len(windows'[c]))
    BY <1>6, <2>7, <2>8, <2>9, <2>10 DEF Injection, IsInjective
  <2> HIDE DEF h
  <2>12. PICK g : g = h
    OBVIOUS
  <2>13. ASSUME NEW a \in Of(c)' PROVE windows'[c][g[a]] = a.at
    <3>1. Forgive(w)[f[a]] = w[f[a]]
      BY <1>6, <2>8, <2>10
    <3> QED
      BY <2>7, <2>9, <2>10, <2>12, <3>1
  <2>14. Accounts(c, g)'
    BY <2>2, <2>11, <2>12, <2>13 DEF Accounts
  <2> QED
    BY <2>2, <2>5, <2>14 DEF Within
<1> QED
  BY <1>9, <1>11, <1>12 DEF Windows

LEMMA TickKeepsWindows ==
    ASSUME Typed, Windows, Tick
    PROVE  Windows'
<1>1. /\ now' = now + 1 /\ attempts' = {a \in attempts : now' - a.at <= Minute}
      /\ UNCHANGED <<windows, requests, crossed>>
  BY DEF Tick
<1>2. attempts' \subseteq attempts
  BY <1>1
<1>3. Recent'
  <2>1. IsFiniteSet(attempts')
    BY <1>2, FS_Subset DEF Windows, Recent
  <2>2. \A a \in attempts' : a.at \in Nat /\ a.at <= now' /\ now' - a.at <= Minute
    BY <1>1 DEF Windows, Recent, Typed
  <2> QED
    BY <1>1, <1>2, <2>1, <2>2 DEF Windows, Recent
<1>4. ASSUME NEW c \in Clients \ crossed' PROVE Within(c)'
  <2>1. LimitedOf(c)' = LimitedOf(c)
    BY <1>1 DEF LimitedOf, Limited
  <2> QED
    BY <1>1, <1>2, <1>4, <2>1, WithinKept DEF Windows, Of
<1> QED
  BY <1>3, <1>4 DEF Windows

LEMMA NothingAttempted ==
    attempts = {} /\ Limited = {} /\ windows = [c \in Clients |-> <<>>] => Windows
<1> SUFFICES ASSUME attempts = {}, Limited = {}, windows = [c \in Clients |-> <<>>]
             PROVE  Windows
  OBVIOUS
<1>1. Recent
  BY FS_EmptySet DEF Recent
<1>2. ASSUME NEW c \in Clients PROVE Within(c)
  <2>1. LimitedOf(c) = {} /\ Of(c) = {} /\ Cardinality(Of(c)) = 0
    BY FS_EmptySet DEF LimitedOf, Of
  <2>2. [a \in {} |-> 0] \in Injection(Of(c), 1..Len(windows[c]))
    BY <2>1 DEF Injection, IsInjective
  <2>3. Accounts(c, [a \in {} |-> 0])
    BY <2>1, <2>2 DEF Accounts
  <2> QED
    BY <2>1, <2>3, RateLimiterAssumption DEF Within
<1> QED
  BY <1>1, <1>2 DEF Windows

-----------------------------------------------------------------------------
(* What a commit does to the requests. *)
LEMMA CommittedTyped ==
    ASSUME Typed, NEW r \in Requests, NEW next, NEW outdated,
           next \in Request \cup {Idle}, outdated \subseteq {s \in Requests : requests[s] # Idle},
           Committed(r, next, outdated)
    PROVE  /\ requests' \in [Requests -> Request \cup {Idle}]
           /\ requests'[r] = next
           /\ \A s \in Requests \ {r} :
                 \/ requests'[s] = requests[s] /\ s \notin outdated
                 \/ /\ s \in outdated /\ requests'[s] # Idle /\ requests'[s].stale
                    /\ requests'[s].phase = requests[s].phase
                    /\ requests'[s].client = requests[s].client
                    /\ requests'[s].attempt = requests[s].attempt
<1>1. requests' = [s \in Requests |->
          CASE s = r -> next
            [] s # r /\ s \in outdated -> [requests[s] EXCEPT !.stale = TRUE]
            [] OTHER -> requests[s]]
  BY DEF Committed
<1>2. requests'[r] = next
  BY <1>1
<1>3. ASSUME NEW s \in Requests \ {r}, s \notin outdated PROVE requests'[s] = requests[s]
  BY <1>1, <1>3
<1>4. ASSUME NEW s \in Requests \ {r}, s \in outdated
      PROVE  /\ requests'[s] \in Request /\ requests'[s].stale
             /\ requests'[s].phase = requests[s].phase
             /\ requests'[s].client = requests[s].client
             /\ requests'[s].attempt = requests[s].attempt
  <2>1. requests'[s] = [requests[s] EXCEPT !.stale = TRUE]
    BY <1>1, <1>4
  <2>2. requests[s] \in Request
    BY <1>4 DEF Typed
  <2> QED
    BY <2>1, <2>2 DEF Request
<1>5. \A s \in Requests : requests'[s] \in Request \cup {Idle}
  BY <1>2, <1>3, <1>4 DEF Typed
<1>6. requests' \in [Requests -> Request \cup {Idle}]
  BY <1>1, <1>5
<1> QED
  BY <1>2, <1>3, <1>4, <1>6, IdleIsNoRequest

(* A commit leaves the limiter alone. *)
LEMMA CommittedKeepsWindows ==
    ASSUME Typed, Windows, NEW r \in Requests, NEW next, NEW outdated,
           next \in Request \cup {Idle}, next.phase \notin {"admitted", "charged"},
           outdated \subseteq {s \in Requests : requests[s] # Idle},
           Committed(r, next, outdated)
    PROVE  Windows'
<1>1. UNCHANGED <<now, windows, attempts, crossed>>
  BY DEF Committed
<1>2. ASSUME NEW s \in Limited'
      PROVE  /\ s \in Limited
             /\ requests'[s].phase = requests[s].phase
             /\ requests'[s].client = requests[s].client
             /\ requests'[s].attempt = requests[s].attempt
  <2>1. s \in Requests /\ requests'[s].phase \in {"admitted", "charged"}
    BY <1>2 DEF Limited
  <2>2. s # r
    BY <2>1, CommittedTyped
  <2>3. /\ requests'[s].phase = requests[s].phase
        /\ requests'[s].client = requests[s].client
        /\ requests'[s].attempt = requests[s].attempt
    BY <2>1, <2>2, CommittedTyped
  <2> QED
    BY <2>1, <2>3 DEF Limited
<1> QED
  BY <1>1, <1>2, WindowsKept

(* Typing of a commit. *)
LEMMA CommittedKeepsTyped ==
    ASSUME Typed, NEW r \in Requests, NEW next, NEW outdated,
           next \in Request \cup {Idle}, next.phase \notin {"admitted", "charged"},
           outdated \subseteq {s \in Requests : requests[s] # Idle},
           Committed(r, next, outdated),
           chosen' \in Nat, password' \in [Users -> Nat], tokens' \subseteq Token, mailed' = mailed
    PROVE  Typed'
<1>1. now' \in Nat /\ issued' \in Nat /\ served' \in Nat /\ mailed' \subseteq Nat
  BY DEF Committed, Typed
<1>2. requests' \in [Requests -> Request \cup {Idle}]
  BY CommittedTyped
<1>3. ASSUME NEW s \in Requests, requests'[s].phase \in {"admitted", "charged"}
      PROVE  requests'[s].client \in Clients
  <2>1. s # r
    BY <1>3, CommittedTyped
  <2>2. requests'[s].phase = requests[s].phase /\ requests'[s].client = requests[s].client
    BY <2>1, CommittedTyped
  <2> QED
    BY <1>3, <2>2 DEF Typed
<1> QED
  BY <1>1, <1>2, <1>3 DEF Typed

(* Steps that commit nothing but tokens that are gone, or an API token. *)
LEMMA CredentialsKept ==
    ASSUME Credentials, password' = password, raced \subseteq raced',
           \A t \in tokens' : t \in tokens \/ t.kind = "api",
           \A r \in Requests : requests'[r] # Idle /\ ~requests'[r].stale =>
              requests'[r] = requests[r] \/ Current(requests'[r])
    PROVE  Credentials'
<1>1. \A u : SessionsOf(u)' \subseteq SessionsOf(u)
  BY DEF SessionsOf
<1>2. \A u : LiveCodes(u)' \subseteq LiveCodes(u)
  BY DEF LiveCodes
<1>3. ASSUME NEW r \in Requests, requests'[r] # Idle, ~requests'[r].stale
      PROVE  Current(requests[r])'
  <2>1. PICK q : q = requests'[r]
    OBVIOUS
  <2>2. Current(q)
    BY <1>3, <2>1 DEF Credentials
  <2>3. Current(q)'
    BY <1>1, <1>2, <2>2 DEF Current
  <2> QED
    BY <2>1, <2>3 DEF Current
<1>4. SessionsFollowThePassword'
  BY DEF Credentials, SessionsFollowThePassword
<1>5. OneCode'
  BY <1>2 DEF Credentials, OneCode
<1> QED
  BY <1>3, <1>4, <1>5 DEF Credentials

-----------------------------------------------------------------------------
(* One lemma per action. *)
LEMMA InitHolds == Init => IInv
<1> SUFFICES ASSUME Init PROVE IInv
  OBVIOUS
<1>1. Typed
  BY IdleIsNoRequest DEF Init, Typed, Token
<1>2. Windows
  <2>1. Limited = {}
    BY IdleIsNoRequest DEF Init, Limited
  <2> QED
    BY <2>1, NothingAttempted DEF Init
<1>3. Credentials
  <2>1. \A t \in tokens : t.password = 1 /\ t.user \in Users /\ t.kind # "reset"
    BY DEF Init
  <2>2. SessionsFollowThePassword
    BY <2>1 DEF Init, SessionsFollowThePassword
  <2>3. OneCode
    BY <2>1 DEF OneCode, LiveCodes
  <2> QED
    BY <2>2, <2>3 DEF Init, Credentials
<1> QED
  BY <1>1, <1>2, <1>3 DEF IInv

LEMMA AdmitKeeps ==
    ASSUME IInv, NEW r \in Requests, NEW c \in Clients,
           NEW op \in {"login", "change", "request", "confirm"}, NEW u \in Users,
           NEW presents \in Nat, Admit(r, c, op, u, presents)
    PROVE  IInv'
<1> DEFINE q == [phase |-> "admitted", client |-> c, op |-> op, user |-> u, presents |-> presents,
                 loaded |-> password[u], attempt |-> served + 1, old |-> {}, stale |-> FALSE]
<1>1. requests' = [requests EXCEPT ![r] = q]
  BY DEF Admit
<1>2. q \in Request /\ q.client = c /\ q.phase = "admitted"
  BY DEF IInv, Typed, Request
<1>3. Current(q)
  BY DEF Current
<1> HIDE DEF q
<1>4. Typed'
  <2>1. served' \in Nat /\ UNCHANGED <<now, password, tokens, chosen, issued, mailed>>
    BY DEF Admit, IInv, Typed
  <2>2. requests' \in [Requests -> Request \cup {Idle}]
    BY <1>1, <1>2 DEF IInv, Typed
  <2>3. \A s \in Requests : requests'[s].phase \in {"admitted", "charged"} => requests'[s].client \in Clients
    BY <1>1, <1>2 DEF IInv, Typed
  <2> QED
    BY <2>1, <2>2, <2>3 DEF IInv, Typed
<1>5. Windows'
  BY AdmitKeepsWindows DEF IInv
<1>6. Credentials'
  <2>1. \A s \in Requests : requests'[s] = requests[s] \/ Current(requests'[s])
    BY <1>1, <1>3 DEF IInv, Typed
  <2> QED
    BY <2>1, CredentialsKept DEF Admit, IInv
<1> QED
  BY <1>4, <1>5, <1>6 DEF IInv

LEMMA ArriveKeeps ==
    ASSUME IInv, NEW r \in Requests, Arrive(r)
    PROVE  IInv'
<1>1. password \in [Users -> Nat] /\ mailed \subseteq Nat
  BY DEF IInv, Typed
<1>2. PICK c \in Clients, u \in Users :
        \/ \E k \in {0, password[u]} : Admit(r, c, "login", u, k) \/ Admit(r, c, "change", u, k)
        \/ Admit(r, c, "request", u, 0)
        \/ \E k \in mailed \cup {0} : Admit(r, c, "confirm", u, k)
  BY DEF Arrive
<1>3. CASE \E k \in {0, password[u]} : Admit(r, c, "login", u, k) \/ Admit(r, c, "change", u, k)
  <2>1. PICK k \in {0, password[u]} : Admit(r, c, "login", u, k) \/ Admit(r, c, "change", u, k)
    BY <1>3
  <2>2. k \in Nat
    BY <1>1
  <2> QED
    BY <2>1, <2>2, AdmitKeeps
<1>4. CASE Admit(r, c, "request", u, 0)
  BY <1>4, AdmitKeeps
<1>5. CASE \E k \in mailed \cup {0} : Admit(r, c, "confirm", u, k)
  BY <1>1, <1>5, AdmitKeeps
<1> QED
  BY <1>2, <1>3, <1>4, <1>5

LEMMA ChargeItKeeps ==
    ASSUME IInv, NEW r \in Requests, ChargeIt(r)
    PROVE  IInv'
<1> DEFINE q == [requests[r] EXCEPT !.phase = "charged"]
<1>1. requests' = [requests EXCEPT ![r] = q] /\ requests[r].phase = "admitted"
  BY DEF ChargeIt
<1>2. requests[r] \in Request
  BY <1>1, IdleIsNoRequest DEF IInv, Typed
<1>3. q \in Request /\ q.phase = "charged" /\ q.client = requests[r].client
  BY <1>2 DEF Request
<1> HIDE DEF q
<1>4. Current(q)
  BY <1>3 DEF Current
<1>5. Typed'
  <2>1. q.client \in Clients
    BY <1>1, <1>3 DEF IInv, Typed
  <2> QED
    BY <1>1, <1>3, <2>1 DEF ChargeIt, IInv, Typed
<1>6. Windows'
  BY ChargeItKeepsWindows DEF IInv
<1>7. Credentials'
  <2>1. \A s \in Requests : requests'[s] = requests[s] \/ Current(requests'[s])
    BY <1>1, <1>4 DEF IInv, Typed
  <2> QED
    BY <2>1, CredentialsKept DEF ChargeIt, IInv
<1> QED
  BY <1>5, <1>6, <1>7 DEF IInv

LEMMA VerifyKeeps ==
    ASSUME IInv, NEW r \in Requests, Verify(r)
    PROVE  IInv'
<1> DEFINE q == [requests[r] EXCEPT !.phase = "staged"]
<1>1. requests' = [requests EXCEPT ![r] = q] /\ requests[r].phase = "charged" /\ Proven(requests[r])
  BY DEF Verify
<1>2. requests[r] \in Request
  BY <1>1, IdleIsNoRequest DEF IInv, Typed
<1>3. q \in Request /\ q.phase = "staged" /\ q.op = requests[r].op /\ q.user = requests[r].user
      /\ q.presents = requests[r].presents
  BY <1>2 DEF Request
<1> HIDE DEF q
<1>4. Current(q)
  BY <1>1, <1>3 DEF Current, Proven
<1>5. Typed'
  BY <1>1, <1>3 DEF Verify, IInv, Typed
<1>6. Windows'
  BY VerifyKeepsWindows DEF IInv
<1>7. Credentials'
  <2>1. \A s \in Requests : requests'[s] = requests[s] \/ Current(requests'[s])
    BY <1>1, <1>4 DEF IInv, Typed
  <2> QED
    BY <2>1, CredentialsKept DEF Verify, IInv
<1> QED
  BY <1>5, <1>6, <1>7 DEF IInv

(* Steps that set one request, out of the limiter's sight. *)
LEMMA RequestSetKeeps ==
    ASSUME IInv, NEW r \in Requests, NEW q \in Request \cup {Idle},
           q.phase \notin {"admitted", "charged"}, Current(q),
           requests' = [requests EXCEPT ![r] = q], served' \in Nat, mailed' \subseteq Nat,
           UNCHANGED <<now, windows, password, tokens, chosen, issued, attempts, crossed, raced>>
    PROVE  IInv'
<1>1. Typed'
  BY DEF IInv, Typed
<1>2. Windows'
  <2>1. \A s \in Limited' : s \in Limited /\ requests'[s] = requests[s]
    BY DEF Limited, IInv, Typed
  <2> QED
    BY <2>1, WindowsKept DEF IInv
<1>3. Credentials'
  <2>1. \A s \in Requests : requests'[s] = requests[s] \/ Current(requests'[s])
    BY DEF IInv, Typed
  <2> QED
    BY <2>1, CredentialsKept DEF IInv
<1> QED
  BY <1>1, <1>2, <1>3 DEF IInv

LEMMA EndKeeps ==
    ASSUME IInv, NEW r \in Requests, End(r) \/ SendCode(r)
    PROVE  IInv'
<1>1. /\ requests' = [requests EXCEPT ![r] = Idle]
      /\ UNCHANGED <<now, windows, password, tokens, chosen, issued, served, attempts, crossed, raced>>
  BY DEF End, SendCode
<1>2. Current(Idle)
  BY DEF Current, Idle
<1>3. mailed' \subseteq Nat
  <2>1. CASE SendCode(r)
    <3>1. requests[r] \in Request
      BY <2>1, IdleIsNoRequest DEF SendCode, IInv, Typed
    <3>2. requests[r].presents \in Nat
      BY <3>1 DEF Request
    <3> QED
      BY <2>1, <3>2 DEF SendCode, IInv, Typed
  <2> QED
    BY <2>1 DEF End, IInv, Typed
<1>4. served' \in Nat
  BY <1>1 DEF IInv, Typed
<1> QED
  BY <1>1, <1>2, <1>3, <1>4, IdleIsNoRequest, RequestSetKeeps

LEMMA DeleteTokensKeeps ==
    ASSUME IInv, NEW r \in Requests, DeleteTokens(r)
    PROVE  IInv'
<1> DEFINE p == requests[r]
           gone == {t \in tokens : t.user = p.user /\ t.kind \in Superseded[p.op]}
           q == [p EXCEPT !.phase = "deleted", !.old = gone]
<1>1. /\ requests' = [requests EXCEPT ![r] = q]
      /\ p.phase \in {"charged", "staged"}
      /\ UNCHANGED <<now, windows, password, tokens, chosen, issued, served, attempts, crossed,
                     mailed, raced>>
  BY DEF DeleteTokens
<1>2. p \in Request /\ tokens \subseteq Token
  BY <1>1, IdleIsNoRequest DEF IInv, Typed
<1>3. gone \in SUBSET Token
  BY <1>2
<1> HIDE DEF gone
<1>4. q \in Request /\ q.phase = "deleted" /\ q.op = p.op /\ q.user = p.user /\ q.old = gone
  BY <1>2, <1>3 DEF Request
<1> HIDE DEF q, p
<1>5. Current(q)
  BY <1>4 DEF Current, SessionsOf, LiveCodes, gone, Superseded
<1>6. served' \in Nat /\ mailed' \subseteq Nat
  BY <1>1 DEF IInv, Typed
<1> QED
  BY <1>1, <1>4, <1>5, <1>6, RequestSetKeeps

LEMMA EnforceApiTokensKeeps ==
    ASSUME IInv, NEW r \in Requests, EnforceApiTokens(r)
    PROVE  IInv'
<1>1. PICK t \in tokens :
        requests' = [requests EXCEPT ![r] =
              [phase |-> "counted", client |-> "any", op |-> "create", user |-> t.user,
               presents |-> 0, loaded |-> password[t.user], attempt |-> served + 1,
               old |-> {}, stale |-> FALSE]]
  BY DEF EnforceApiTokens
<1> DEFINE q == [phase |-> "counted", client |-> "any", op |-> "create", user |-> t.user,
               presents |-> 0, loaded |-> password[t.user], attempt |-> served + 1,
               old |-> {}, stale |-> FALSE]
<1>2. t.user \in Users /\ password[t.user] \in Nat /\ served \in Nat
  BY DEF IInv, Typed, Token
<1>3. q \in Request /\ q.phase = "counted" /\ Current(q)
  BY <1>2 DEF Request, Current
<1>4. requests' = [requests EXCEPT ![r] = q]
  BY <1>1
<1> HIDE DEF q
<1>5. served' \in Nat /\ mailed' \subseteq Nat
  BY DEF EnforceApiTokens, IInv, Typed
<1>6. UNCHANGED <<now, windows, password, tokens, chosen, issued, attempts, crossed, raced>>
  BY DEF EnforceApiTokens
<1> QED
  BY <1>3, <1>4, <1>5, <1>6, RequestSetKeeps

LEMMA LoginKeeps ==
    ASSUME IInv, NEW r \in Requests, Login(r)
    PROVE  IInv'
<1> DEFINE q == requests[r]
           u == q.user
           out == {s \in About(u) : requests[s].phase = "deleted" /\ Rewrites(requests[s])}
           new == [id |-> issued + 1, user |-> u, kind |-> "session", password |-> q.presents]
<1>1. /\ q.phase = "staged" /\ q.op = "login" /\ Committed(r, Idle, out)
      /\ password' = password /\ chosen' = chosen /\ mailed' = mailed
  BY DEF Login
<1>2. q \in Request
  BY <1>1, IdleIsNoRequest DEF IInv, Typed
<1>3. tokens' = tokens \cup {new}
  BY DEF Login, Session
<1>4. out \subseteq {s \in Requests : requests[s] # Idle}
  BY DEF About
<1>5. new \in Token
  BY <1>2 DEF Request, Token, IInv, Typed
<1>6. Typed'
  <2>1. chosen' \in Nat /\ password' \in [Users -> Nat] /\ tokens' \subseteq Token
    BY <1>1, <1>3, <1>5 DEF IInv, Typed
  <2> HIDE DEF out
  <2> QED
    BY <1>1, <1>4, <2>1, IdleIsNoRequest, CommittedKeepsTyped DEF IInv
<1>7. Windows'
  <2> HIDE DEF out
  <2> QED
    BY <1>1, <1>4, IdleIsNoRequest, CommittedKeepsWindows DEF IInv
<1>8. raced' = IF q.stale THEN raced \cup {u} ELSE raced
  BY <1>1 DEF Committed
<1>9. \A v : LiveCodes(v)' = LiveCodes(v)
  BY <1>3 DEF LiveCodes
<1>10. \A v : v # u => SessionsOf(v)' = SessionsOf(v)
  BY <1>3 DEF SessionsOf
<1>11. ASSUME NEW s \in Requests, requests'[s] # Idle, ~requests'[s].stale
       PROVE  Current(requests[s])'
  <2>1. s # r /\ requests'[s] = requests[s] /\ s \notin out
    <3> HIDE DEF out
    <3> QED
      BY <1>1, <1>4, <1>11, CommittedTyped DEF IInv
  <2>2. PICK p : p = requests[s]
    OBVIOUS
  <2>3. Current(p)
    BY <1>11, <2>1, <2>2 DEF IInv, Credentials
  <2>4. p.phase = "deleted" /\ p.op \in {"change", "confirm"} => p.user # u
    BY <1>11, <2>1, <2>2 DEF About, Rewrites
  <2>5. Current(p)'
    BY <1>1, <1>9, <1>10, <2>3, <2>4 DEF Current
  <2> QED
    BY <2>1, <2>2, <2>5 DEF Current
<1>12. SessionsFollowThePassword'
  <2> SUFFICES ASSUME NEW t \in tokens', t.kind = "session", t.user \notin raced'
               PROVE  t.password = password[t.user]
    BY <1>1 DEF SessionsFollowThePassword
  <2>1. CASE t \in tokens
    BY <1>8, <2>1 DEF IInv, Credentials, SessionsFollowThePassword
  <2>2. CASE t = new
    <3>1. ~q.stale
      BY <1>8, <2>2
    <3>2. Current(q)
      BY <1>1, <3>1, IdleIsNoRequest DEF IInv, Credentials
    <3> QED
      BY <1>1, <2>2, <3>2 DEF Current
  <2> QED
    BY <1>3, <2>1, <2>2
<1>13. OneCode'
  BY <1>8, <1>9 DEF IInv, Credentials, OneCode
<1> QED
  BY <1>6, <1>7, <1>11, <1>12, <1>13 DEF IInv, Credentials

(* The two requests that set a password: the sessions of the user that are   *)
(* left all follow it.                                                       *)
LEMMA RewriteKeeps ==
    ASSUME IInv, NEW r \in Requests, ChangePassword(r) \/ ConfirmPasswordReset(r)
    PROVE  IInv'
<1> DEFINE q == requests[r]
           u == q.user
           new == [id |-> issued + 1, user |-> u, kind |-> "session", password |-> password'[u]]
<1>1. /\ q.phase = "deleted" /\ q.op \in {"change", "confirm"} /\ Committed(r, Idle, About(u))
      /\ chosen' = chosen + 1 /\ mailed' = mailed
      /\ password' = [password EXCEPT ![u] = chosen']
  BY DEF ChangePassword, ConfirmPasswordReset
<1>2. q \in Request
  BY <1>1, IdleIsNoRequest DEF IInv, Typed
<1>3. tokens' = (tokens \ q.old) \cup {new}
  BY DEF ChangePassword, ConfirmPasswordReset, Session
<1>4. About(u) \subseteq {s \in Requests : requests[s] # Idle}
  BY DEF About
<1>5. u \in Users /\ chosen' \in Nat /\ password' \in [Users -> Nat]
  BY <1>1, <1>2 DEF Request, IInv, Typed
<1>6. new \in Token
  BY <1>5 DEF Token, IInv, Typed
<1>7. Typed'
  <2>1. tokens' \subseteq Token
    BY <1>3, <1>6 DEF IInv, Typed
  <2> QED
    BY <1>1, <1>4, <1>5, <2>1, IdleIsNoRequest, CommittedKeepsTyped DEF IInv
<1>8. Windows'
  BY <1>1, <1>4, IdleIsNoRequest, CommittedKeepsWindows DEF IInv
<1>9. raced' = IF q.stale THEN raced \cup {u} ELSE raced
  BY <1>1 DEF Committed
<1>10. \A v : LiveCodes(v)' \subseteq LiveCodes(v)
  BY <1>3 DEF LiveCodes
<1>11. \A v : v # u => SessionsOf(v)' \subseteq SessionsOf(v)
  BY <1>3 DEF SessionsOf
<1>12. ASSUME NEW s \in Requests, requests'[s] # Idle, ~requests'[s].stale
       PROVE  Current(requests[s])'
  <2>1. s # r /\ requests'[s] = requests[s] /\ s \notin About(u)
    BY <1>1, <1>4, <1>12, CommittedTyped DEF IInv
  <2>2. PICK p : p = requests[s]
    OBVIOUS
  <2>3. Current(p)
    BY <1>12, <2>1, <2>2 DEF IInv, Credentials
  <2>4. p.user # u /\ p \in Request
    BY <1>12, <2>1, <2>2 DEF About, IInv, Typed
  <2>5. password'[p.user] = password[p.user]
    BY <1>1, <2>4 DEF Request, IInv, Typed
  <2>6. Current(p)'
    BY <1>10, <1>11, <2>3, <2>4, <2>5 DEF Current
  <2> QED
    BY <2>1, <2>2, <2>6 DEF Current
<1>13. SessionsFollowThePassword'
  <2> SUFFICES ASSUME NEW t \in tokens', t.kind = "session", t.user \notin raced'
               PROVE  t.password = password'[t.user]
    BY DEF SessionsFollowThePassword
  <2>1. CASE t \in tokens \ q.old
    <3>1. t.user # u
      <4> SUFFICES ASSUME t.user = u PROVE FALSE
        OBVIOUS
      <4>1. ~q.stale
        BY <1>9
      <4>2. Current(q)
        BY <1>1, <4>1, IdleIsNoRequest DEF IInv, Credentials
      <4>3. t \in SessionsOf(u)
        BY <2>1 DEF SessionsOf
      <4> QED
        BY <1>1, <2>1, <4>2, <4>3 DEF Current
    <3>2. t.user \in Users
      BY <2>1 DEF IInv, Typed, Token
    <3>3. password'[t.user] = password[t.user]
      BY <1>1, <3>1, <3>2 DEF IInv, Typed
    <3> QED
      BY <1>9, <2>1, <3>3 DEF IInv, Credentials, SessionsFollowThePassword
  <2>2. CASE t = new
    BY <2>2
  <2> QED
    BY <1>3, <2>1, <2>2
<1>14. OneCode'
  BY <1>9, <1>10 DEF IInv, Credentials, OneCode
<1> QED
  BY <1>7, <1>8, <1>12, <1>13, <1>14 DEF IInv, Credentials

LEMMA RequestPasswordResetKeeps ==
    ASSUME IInv, NEW r \in Requests, RequestPasswordReset(r)
    PROVE  IInv'
<1> DEFINE q == requests[r]
           u == q.user
           new == [id |-> issued + 1, user |-> u, kind |-> "reset", password |-> password[u]]
           next == [q EXCEPT !.phase = "sending", !.presents = issued + 1, !.old = {}]
<1>1. /\ q.phase = "deleted" /\ q.op = "request" /\ Committed(r, next, About(u))
      /\ chosen' = chosen /\ mailed' = mailed /\ password' = password
  BY DEF RequestPasswordReset
<1>2. q \in Request
  BY <1>1, IdleIsNoRequest DEF IInv, Typed
<1>3. tokens' = (tokens \ q.old) \cup {new}
  BY DEF RequestPasswordReset, Code
<1>4. About(u) \subseteq {s \in Requests : requests[s] # Idle}
  BY DEF About
<1>5. u \in Users /\ new \in Token
  BY <1>2 DEF Request, Token, IInv, Typed
<1>6. next \in Request /\ next.phase = "sending"
  <2>1. issued + 1 \in Nat
    BY DEF IInv, Typed
  <2> QED
    BY <1>2, <2>1 DEF Request
<1>7. Typed'
  <2>1. tokens' \subseteq Token
    BY <1>3, <1>5 DEF IInv, Typed
  <2>2. chosen' \in Nat /\ password' \in [Users -> Nat]
    BY <1>1 DEF IInv, Typed
  <2> HIDE DEF next
  <2> QED
    BY <1>1, <1>4, <1>6, <2>1, <2>2, CommittedKeepsTyped DEF IInv
<1> HIDE DEF next
<1>8. Windows'
  BY <1>1, <1>4, <1>6, CommittedKeepsWindows DEF IInv
<1>9. raced' = IF q.stale THEN raced \cup {u} ELSE raced
  BY <1>1 DEF Committed
<1>10. \A v : v # u => LiveCodes(v)' \subseteq LiveCodes(v)
  BY <1>3 DEF LiveCodes
<1>11. \A v : SessionsOf(v)' \subseteq SessionsOf(v)
  BY <1>3 DEF SessionsOf
<1>12. ASSUME NEW s \in Requests, requests'[s] # Idle, ~requests'[s].stale
       PROVE  Current(requests[s])'
  <2>1. CASE s = r
    <3>1. requests'[s].phase = "sending"
      BY <1>1, <1>4, <1>6, <2>1, CommittedTyped DEF IInv
    <3> QED
      BY <3>1 DEF Current
  <2>2. CASE s # r
    <3>1. requests'[s] = requests[s] /\ s \notin About(u)
      BY <1>1, <1>4, <1>6, <1>12, <2>2, CommittedTyped DEF IInv
    <3>2. PICK p : p = requests[s]
      OBVIOUS
    <3>3. Current(p)
      BY <1>12, <3>1, <3>2 DEF IInv, Credentials
    <3>4. p.user # u
      BY <1>12, <3>1, <3>2 DEF About
    <3>5. Current(p)'
      BY <1>1, <1>10, <1>11, <3>3, <3>4 DEF Current
    <3> QED
      BY <3>1, <3>2, <3>5 DEF Current
  <2> QED
    BY <2>1, <2>2
<1>13. SessionsFollowThePassword'
  <2> SUFFICES ASSUME NEW t \in tokens', t.kind = "session", t.user \notin raced'
               PROVE  t.password = password[t.user]
    BY <1>1 DEF SessionsFollowThePassword
  <2>1. t \in tokens
    BY <1>3
  <2> QED
    BY <1>9, <2>1 DEF IInv, Credentials, SessionsFollowThePassword
<1>14. OneCode'
  <2> SUFFICES ASSUME NEW v \in Users \ raced', NEW s \in LiveCodes(v)', NEW t \in LiveCodes(v)'
               PROVE  s = t
    BY DEF OneCode
  <2>1. CASE v # u
    BY <1>9, <1>10, <2>1 DEF IInv, Credentials, OneCode
  <2>2. CASE v = u
    <3>1. ~q.stale
      BY <1>9, <2>2
    <3>2. Current(q)
      BY <1>1, <3>1, IdleIsNoRequest DEF IInv, Credentials
    <3>3. LiveCodes(u) \subseteq q.old
      BY <1>1, <3>2 DEF Current
    <3>4. \A x \in tokens \ q.old : ~(x.kind = "reset" /\ x.user = u)
      BY <3>3 DEF LiveCodes
    <3>5. s = new /\ t = new
      BY <1>3, <2>2, <3>4 DEF LiveCodes
    <3> QED
      BY <3>5
  <2> QED
    BY <2>1, <2>2
<1> QED
  BY <1>7, <1>8, <1>12, <1>13, <1>14 DEF IInv, Credentials

LEMMA CreateApiTokenKeeps ==
    ASSUME IInv, NEW r \in Requests, CreateApiToken(r)
    PROVE  IInv'
<1> DEFINE u == requests[r].user
           new == [id |-> issued + 1, user |-> u, kind |-> "api", password |-> password[u]]
<1>1. /\ requests[r].phase = "counted" /\ Committed(r, Idle, {})
      /\ tokens' = tokens \cup {new}
      /\ UNCHANGED <<password, chosen, mailed>>
  BY DEF CreateApiToken
<1>2. requests[r] \in Request
  BY <1>1, IdleIsNoRequest DEF IInv, Typed
<1>3. new \in Token
  BY <1>2 DEF Request, Token, IInv, Typed
<1>4. Typed'
  <2>1. chosen' \in Nat /\ password' \in [Users -> Nat] /\ tokens' \subseteq Token
    BY <1>1, <1>3 DEF IInv, Typed
  <2> QED
    BY <1>1, <2>1, IdleIsNoRequest, CommittedKeepsTyped DEF IInv
<1>5. Windows'
  BY <1>1, IdleIsNoRequest, CommittedKeepsWindows DEF IInv
<1>6. Credentials'
  <2>1. ASSUME NEW s \in Requests, requests'[s] # Idle PROVE requests'[s] = requests[s]
    BY <1>1, <2>1, CommittedTyped DEF IInv
  <2>2. raced \subseteq raced'
    BY <1>1 DEF Committed
  <2>3. \A t \in tokens' : t \in tokens \/ t.kind = "api"
    BY <1>1
  <2> QED
    BY <1>1, <2>1, <2>2, <2>3, CredentialsKept DEF IInv
<1> QED
  BY <1>4, <1>5, <1>6 DEF IInv

LEMMA TokenGoneKeeps ==
    ASSUME IInv, NEW t \in tokens, RevokeApiToken(t) \/ Expire(t)
    PROVE  IInv'
<1>1. /\ tokens' = tokens \ {t}
      /\ UNCHANGED <<now, windows, password, requests, chosen, issued, served, attempts, crossed,
                     mailed, raced>>
  BY DEF RevokeApiToken, Expire
<1>2. Typed'
  BY <1>1 DEF IInv, Typed
<1>3. Windows'
  BY <1>1, WindowsKept DEF IInv, Limited
<1>4. Credentials'
  BY <1>1, CredentialsKept DEF IInv
<1> QED
  BY <1>2, <1>3, <1>4 DEF IInv

LEMMA TickKeeps ==
    ASSUME IInv, Tick
    PROVE  IInv'
<1>1. Typed'
  BY DEF Tick, IInv, Typed
<1>2. Windows'
  BY TickKeepsWindows DEF IInv
<1>3. Credentials'
  BY CredentialsKept DEF Tick, IInv
<1> QED
  BY <1>1, <1>2, <1>3 DEF IInv

LEMMA RestartKeeps ==
    ASSUME IInv, Restart
    PROVE  IInv'
<1>1. /\ requests' = [r \in Requests |-> Idle] /\ attempts' = {}
      /\ windows' = [c \in Clients |-> <<>>]
      /\ UNCHANGED <<now, password, tokens, chosen, issued, served, crossed, mailed, raced>>
  BY DEF Restart
<1>2. Typed'
  BY <1>1, IdleIsNoRequest DEF IInv, Typed
<1>3. Windows'
  <2>1. Limited' = {}
    BY <1>1, IdleIsNoRequest DEF Limited
  <2>2. (attempts = {} /\ Limited = {} /\ windows = [c \in Clients |-> <<>>] => Windows)'
    BY NothingAttempted, PTL
  <2> QED
    BY <1>1, <2>1, <2>2
<1>4. Credentials'
  BY <1>1, CredentialsKept DEF IInv
<1> QED
  BY <1>2, <1>3, <1>4 DEF IInv

LEMMA StutterKeeps ==
    ASSUME IInv, UNCHANGED vars
    PROVE  IInv'
<1>1. Typed'
  BY DEF vars, IInv, Typed
<1>2. Windows'
  BY WindowsKept DEF vars, IInv, Limited
<1>3. Credentials'
  BY CredentialsKept DEF vars, IInv
<1> QED
  BY <1>1, <1>2, <1>3 DEF IInv

LEMMA Invariance == IInv /\ [Next]_vars => IInv'
<1> SUFFICES ASSUME IInv, [Next]_vars PROVE IInv'
  OBVIOUS
<1>1. CASE \E r \in Requests :
        \/ Arrive(r) \/ ChargeIt(r) \/ Verify(r) \/ End(r)
        \/ DeleteTokens(r) \/ Login(r) \/ ChangePassword(r)
        \/ RequestPasswordReset(r) \/ SendCode(r) \/ ConfirmPasswordReset(r)
        \/ EnforceApiTokens(r) \/ CreateApiToken(r)
  BY <1>1, ArriveKeeps, ChargeItKeeps, VerifyKeeps, EndKeeps, DeleteTokensKeeps, LoginKeeps,
     RewriteKeeps, RequestPasswordResetKeeps, EnforceApiTokensKeeps, CreateApiTokenKeeps
<1>2. CASE \E t \in tokens : RevokeApiToken(t) \/ Expire(t)
  BY <1>2, TokenGoneKeeps
<1>3. CASE Tick
  BY <1>3, TickKeeps
<1>4. CASE Restart
  BY <1>4, RestartKeeps
<1>5. CASE UNCHANGED vars
  BY <1>5, StutterKeeps
<1> QED
  BY <1>1, <1>2, <1>3, <1>4, <1>5 DEF Next

LEMMA Inductive == Spec => []IInv
<1> QED
  BY InitHolds, Invariance, PTL DEF Spec

-----------------------------------------------------------------------------
(* deps.auth_rate_limited: since the last restart no client whose attempts  *)
(* never overlapped has more than AUTH_RATE_LIMIT_PER_MINUTE attempts within *)
(* a minute that were charged and not forgiven.                             *)
THEOREM BruteForceBounded == Spec => []BruteForceIsBounded
<1>1. IInv => BruteForceIsBounded
  <2> SUFFICES ASSUME IInv, NEW c \in Clients \ crossed
               PROVE  Cardinality(Unforgiven(c)) <= Limit
    BY DEF BruteForceIsBounded
  <2>1. Unforgiven(c) = Of(c)
    BY DEF Unforgiven, Of, IInv, Windows, Recent
  <2> QED
    BY <2>1 DEF IInv, Windows, Within
<1> QED
  BY <1>1, Inductive, PTL

(* request_password_reset: unless requests about the user overlapped, the    *)
(* user has at most one reset code that still works.                        *)
THEOREM OneCodePerUser == Spec => []OneCodeAtATime
<1>1. IInv => OneCodeAtATime
  <2> SUFFICES ASSUME IInv, NEW u \in Users \ raced
               PROVE  Cardinality(LiveCodes(u)) <= 1
    BY DEF OneCodeAtATime
  <2>1. \A s, t \in LiveCodes(u) : s = t
    BY DEF IInv, Credentials, OneCode
  <2>2. CASE LiveCodes(u) = {}
    BY <2>2, FS_EmptySet
  <2>3. CASE LiveCodes(u) # {}
    <3>1. PICK t : LiveCodes(u) = {t}
      BY <2>1, <2>3
    <3>2. Cardinality({t}) = 1
      BY FS_Singleton
    <3> QED
      BY <3>1, <3>2
  <2> QED
    BY <2>2, <2>3
<1> QED
  BY <1>1, Inductive, PTL

(* change_password and confirm_password_reset: unless requests about the     *)
(* user overlapped, every session in force was proven by the password that   *)
(* is in force, or by the code that set it.                                 *)
THEOREM SessionsEndWithThePassword == Spec => []SessionsFollowThePassword
<1>1. IInv => SessionsFollowThePassword
  BY DEF IInv, Credentials
<1> QED
  BY <1>1, Inductive, PTL
=============================================================================
