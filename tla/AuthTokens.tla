----------------------------- MODULE AuthTokens -----------------------------
(***************************************************************************)
(* Passwords, session and API tokens, password reset codes and the rate    *)
(* limit in front of them (routers/auth.py, deps.py).                      *)
(*                                                                         *)
(* A rate-limited request looks at its client's window and charges it (two *)
(* steps: the dependency is a plain function, which runs in a thread of    *)
(* its own), checks the credential, deletes the tokens that have to go,    *)
(* and commits.  The rows it read are not locked, so a password may change *)
(* between the check and the commit, and the DELETE finds no token that is *)
(* committed after it.  Passwords are numbered in the order they are       *)
(* chosen; 0 is a wrong one.                                               *)
(***************************************************************************)
EXTENDS RateLimiter, FiniteSets

CONSTANTS
    Users,      \* the members of one household
    Clients, Requests,
    ApiTokens,  \* its limit on "api_tokens"
    MaxTime, MaxRequests, MaxTokens, MaxRestarts  \* bounds

ASSUME AuthTokensAssumption ==
    {ApiTokens, MaxTime, MaxRequests, MaxTokens, MaxRestarts} \subseteq Nat

VARIABLES
    now,
    windows,    \* _attempts
    password,   \* users.password_hash
    tokens,     \* the rows of auth_tokens
    requests,
    chosen, issued, served, restarts,  \* counted for identities and bounds
    attempts,   \* history: the charged attempts of the last minute
    crossed,    \* history: clients two attempts of whom were in flight at once
    mailed,     \* external: the reset codes that went out by mail
    codes,      \* history: the reset codes whose row was committed
    raced       \* history: users for whom a request committed after another
                \* had changed the password or the tokens it had read

vars == <<now, windows, password, tokens, requests, chosen, issued, served, restarts,
          attempts, crossed, mailed, codes, raced>>

Idle == [phase |-> "idle"]

(* Everybody starts signed in, with an API token. *)
Init ==
    /\ now = 0
    /\ windows = [c \in Clients |-> <<>>]
    /\ password = [u \in Users |-> 1]
    /\ tokens = [id : {0}, user : Users, kind : {"session", "api"}, password : {1}]
    /\ requests = [r \in Requests |-> Idle]
    /\ chosen = 1 /\ issued = 0 /\ served = 0 /\ restarts = 0
    /\ attempts = {}
    /\ crossed = {}
    /\ mailed = {} /\ codes = {}
    /\ raced = {}

-----------------------------------------------------------------------------
Busy(c) == {r \in Requests : requests[r] # Idle /\ requests[r].client = c}

(* A request arrives and finds room in its client's window.  One that finds *)
(* none is answered 429, and nothing is charged for it.                     *)
Admit(r, c, op, u, presents) ==
    /\ requests[r] = Idle
    /\ served < MaxRequests
    /\ Admits(windows[c], now)
    /\ windows' = [windows EXCEPT ![c] = Pruned(@, now)]
    /\ requests' = [requests EXCEPT ![r] =
          [phase |-> "admitted", client |-> c, op |-> op, user |-> u, presents |-> presents,
           loaded |-> password[u], attempt |-> served + 1, old |-> {}, stale |-> FALSE]]
    /\ served' = served + 1
    /\ crossed' = IF Busy(c) = {} THEN crossed ELSE crossed \cup {c}
    /\ UNCHANGED <<now, password, tokens, chosen, issued, restarts, attempts, mailed, codes, raced>>

(* deps.AUTHENTICATING_KINDS: a reset code signs nobody in. *)
Authenticates(t) == t.kind \in {"session", "api"}

Arrive(r) ==
    \E c \in Clients, u \in Users :
        \/ \E k \in {0, password[u]} : Admit(r, c, "login", u, k)
        \/ \E k \in {0, password[u]}, t \in tokens :
              Authenticates(t) /\ t.user = u /\ Admit(r, c, "change", u, k)
        \/ Admit(r, c, "request", u, 0)
        \/ \E k \in mailed \cup {0} : Admit(r, c, "confirm", u, k)

ChargeIt(r) ==
    LET q == requests[r] IN
    /\ q.phase = "admitted"
    /\ windows' = [windows EXCEPT ![q.client] = Charge(@, now)]
    /\ requests' = [requests EXCEPT ![r].phase = "charged"]
    /\ attempts' = attempts \cup {[client |-> q.client, at |-> now, number |-> q.attempt]}
    /\ UNCHANGED <<now, password, tokens, chosen, issued, served, restarts, crossed, mailed,
                   codes, raced>>

LiveCodes(u) == {t \in tokens : t.kind = "reset" /\ t.user = u}

(* What the three kinds of credential prove.  A change of password compares  *)
(* with the password the caller was loaded with.                             *)
Proven(q) ==
    CASE q.op = "login" -> q.presents = password[q.user]
      [] q.op = "change" -> q.presents = q.loaded
      [] q.op = "confirm" -> q.presents \in {t.id : t \in LiveCodes(q.user)}
      [] OTHER -> FALSE

(* The credential is right: the attempt is forgiven. *)
Verify(r) ==
    LET q == requests[r] IN
    /\ q.phase = "charged"
    /\ Proven(q)
    /\ windows' = [windows EXCEPT ![q.client] = Forgive(@)]
    /\ requests' = [requests EXCEPT ![r].phase = "staged"]
    /\ attempts' = {a \in attempts : a.number # q.attempt}
    /\ UNCHANGED <<now, password, tokens, chosen, issued, served, restarts, crossed, mailed,
                   codes, raced>>

(* It is wrong, or the request dies. *)
End(r) ==
    /\ requests[r] # Idle
    /\ requests' = [requests EXCEPT ![r] = Idle]
    /\ UNCHANGED <<now, windows, password, tokens, chosen, issued, served, restarts, attempts,
                   crossed, mailed, codes, raced>>

(* The two writes of a password hold the user's row from the UPDATE that is  *)
(* flushed before their DELETE until they commit.                            *)
Rewrites(q) == q.op \in {"change", "confirm"}
HoldsUser(u) ==
    \E s \in Requests : requests[s].phase = "deleted" /\ requests[s].user = u /\ Rewrites(requests[s])

(* Which kinds of token of the user the request deletes.  A new code         *)
(* supersedes the earlier ones.                                              *)
Superseded == [change |-> {"session"}, request |-> {"reset"}, confirm |-> {"reset", "session"}]

DeleteTokens(r) ==
    LET q == requests[r] IN
    /\ q.phase \in {"charged", "staged"}
    /\ q.op \in IF q.phase = "charged" THEN {"request"} ELSE {"change", "confirm"}
    /\ Rewrites(q) => ~HoldsUser(q.user)
    /\ requests' = [requests EXCEPT ![r] =
          [@ EXCEPT !.phase = "deleted",
                    !.old = {t \in tokens : t.user = q.user /\ t.kind \in Superseded[q.op]}]]
    /\ UNCHANGED <<now, windows, password, tokens, chosen, issued, served, restarts, attempts,
                   crossed, mailed, codes, raced>>

-----------------------------------------------------------------------------
Session(u) == [id |-> issued + 1, user |-> u, kind |-> "session", password |-> password'[u]]

(* A commit of r: what the given requests have read is out of date now. *)
Committed(r, next, outdated) ==
    LET q == requests[r] IN
    /\ requests' = [s \in Requests |->
          CASE s = r -> next
            [] s # r /\ s \in outdated -> [requests[s] EXCEPT !.stale = TRUE]
            [] OTHER -> requests[s]]
    /\ raced' = IF q.stale THEN raced \cup {q.user} ELSE raced
    /\ issued < MaxTokens /\ issued' = issued + 1
    /\ UNCHANGED <<now, windows, served, restarts, attempts, crossed>>

About(u) == {s \in Requests : requests[s] # Idle /\ requests[s].user = u}

(* A login session is proven by the password the login was checked with,    *)
(* which the row it adds does not say.                                      *)
Login(r) ==
    LET q == requests[r] IN
    /\ q.phase = "staged" /\ q.op = "login"
    /\ password' = password
    /\ tokens' = tokens \cup {[Session(q.user) EXCEPT !.password = q.presents]}
    /\ Committed(r, Idle, {s \in About(q.user) : requests[s].phase = "deleted" /\ Rewrites(requests[s])})
    /\ UNCHANGED <<chosen, mailed, codes>>

(* Mutant: the other sessions stay. *)
ChangePassword_KeepsSessions(r) ==
    LET q == requests[r] IN
    /\ q.phase = "deleted" /\ q.op = "change"
    /\ chosen' = chosen + 1
    /\ password' = [password EXCEPT ![q.user] = chosen']
    /\ tokens' = tokens \cup {Session(q.user)}
    /\ Committed(r, Idle, About(q.user))
    /\ UNCHANGED <<mailed, codes>>

ChangePassword(r) ==
    LET q == requests[r] IN
    /\ q.phase = "deleted" /\ q.op = "change"
    /\ chosen' = chosen + 1
    /\ password' = [password EXCEPT ![q.user] = chosen']
    /\ tokens' = (tokens \ q.old) \cup {Session(q.user)}
    /\ Committed(r, Idle, About(q.user))
    /\ UNCHANGED <<mailed, codes>>

Code(u) == [id |-> issued + 1, user |-> u, kind |-> "reset", password |-> password[u]]

(* Mutant: an earlier code is not superseded. *)
RequestPasswordReset_Adds(r) ==
    LET q == requests[r] IN
    /\ q.phase = "deleted" /\ q.op = "request"
    /\ password' = password
    /\ tokens' = tokens \cup {Code(q.user)}
    /\ codes' = codes \cup {issued + 1}
    /\ Committed(r, [q EXCEPT !.phase = "sending", !.presents = issued + 1, !.old = {}], About(q.user))
    /\ UNCHANGED <<chosen, mailed>>

(* The code is committed before it is sent. *)
RequestPasswordReset(r) ==
    LET q == requests[r] IN
    /\ q.phase = "deleted" /\ q.op = "request"
    /\ password' = password
    /\ tokens' = (tokens \ q.old) \cup {Code(q.user)}
    /\ codes' = codes \cup {issued + 1}
    /\ Committed(r, [q EXCEPT !.phase = "sending", !.presents = issued + 1, !.old = {}], About(q.user))
    /\ UNCHANGED <<chosen, mailed>>

(* A mail that cannot be sent is End: the answer is the same. *)
SendCode(r) ==
    LET q == requests[r] IN
    /\ q.phase = "sending"
    /\ mailed' = mailed \cup {q.presents}
    /\ requests' = [requests EXCEPT ![r] = Idle]
    /\ UNCHANGED <<now, windows, password, tokens, chosen, issued, served, restarts, attempts,
                   crossed, codes, raced>>

ConfirmPasswordReset(r) ==
    LET q == requests[r] IN
    /\ q.phase = "deleted" /\ q.op = "confirm"
    /\ chosen' = chosen + 1
    /\ password' = [password EXCEPT ![q.user] = chosen']
    /\ tokens' = (tokens \ q.old) \cup {Session(q.user)}
    /\ Committed(r, Idle, About(q.user))
    /\ UNCHANGED <<mailed, codes>>

-----------------------------------------------------------------------------
(* Making an API token is not rate-limited.  The caller is signed in, and    *)
(* the tokens of the whole household are counted before the row is added.    *)
EnforceApiTokens(r) ==
    /\ requests[r] = Idle
    /\ served < MaxRequests
    /\ Cardinality({t \in tokens : t.kind = "api"}) < ApiTokens
    /\ \E t \in tokens :
        /\ Authenticates(t)
        /\ requests' = [requests EXCEPT ![r] =
              [phase |-> "counted", client |-> "any", op |-> "create", user |-> t.user,
               presents |-> 0, loaded |-> password[t.user], attempt |-> served + 1,
               old |-> {}, stale |-> FALSE]]
    /\ served' = served + 1
    /\ UNCHANGED <<now, windows, password, tokens, chosen, issued, restarts, attempts, crossed,
                   mailed, codes, raced>>

CreateApiToken(r) ==
    LET q == requests[r] IN
    /\ q.phase = "counted"
    /\ tokens' = tokens
         \cup {[id |-> issued + 1, user |-> q.user, kind |-> "api", password |-> password[q.user]]}
    /\ Committed(r, Idle, {})
    /\ UNCHANGED <<password, chosen, mailed, codes>>

(* The owner of an API token revokes it. *)
RevokeApiToken(t) ==
    /\ t.kind = "api"
    /\ tokens' = tokens \ {t}
    /\ UNCHANGED <<now, windows, password, requests, chosen, issued, served, restarts, attempts,
                   crossed, mailed, codes, raced>>

(* From its expiry on a session or a code is refused as if it were gone. *)
Expire(t) ==
    /\ t.kind \in {"session", "reset"}
    /\ tokens' = tokens \ {t}
    /\ UNCHANGED <<now, windows, password, requests, chosen, issued, served, restarts, attempts,
                   crossed, mailed, codes, raced>>

Tick ==
    /\ now < MaxTime
    /\ now' = now + 1
    /\ attempts' = {a \in attempts : now' - a.at <= Minute}
    /\ UNCHANGED <<windows, password, tokens, requests, chosen, issued, served, restarts, crossed,
                   mailed, codes, raced>>

(* The process restarts: the windows are memory, and so are the requests. *)
Restart ==
    /\ restarts < MaxRestarts
    /\ restarts' = restarts + 1
    /\ windows' = [c \in Clients |-> <<>>]
    /\ requests' = [r \in Requests |-> Idle]
    /\ attempts' = {}
    /\ UNCHANGED <<now, password, tokens, chosen, issued, served, crossed, mailed, codes, raced>>

Next ==
    \/ \E r \in Requests :
        \/ Arrive(r) \/ ChargeIt(r) \/ Verify(r) \/ End(r)
        \/ DeleteTokens(r) \/ Login(r) \/ ChangePassword(r)
        \/ RequestPasswordReset(r) \/ SendCode(r) \/ ConfirmPasswordReset(r)
        \/ EnforceApiTokens(r) \/ CreateApiToken(r)
    \/ \E t \in tokens : RevokeApiToken(t) \/ Expire(t)
    \/ Tick
    \/ Restart

Spec == Init /\ [][Next]_vars

-----------------------------------------------------------------------------
TypeOK ==
    /\ now \in 0..MaxTime
    /\ \A c \in Clients : \A i \in DOMAIN windows[c] : windows[c][i] \in 0..now
    /\ password \in [Users -> 1..chosen]
    /\ \A t \in tokens : /\ t.user \in Users /\ t.id \in 0..issued
                         /\ t.kind \in {"session", "api", "reset"}
    /\ \A t, s \in tokens : t.id = s.id /\ t.id # 0 => t = s
    /\ crossed \subseteq Clients /\ raced \subseteq Users

(* A session outlives no password: every session in force was proven by the *)
(* password that is in force, or by the code that set it, unless a change   *)
(* of it overlapped another request about the same user.                    *)
SessionsFollowThePassword ==
    \A t \in tokens :
        t.kind = "session" /\ t.user \notin raced => t.password = password[t.user]

(* "Two live codes for one account is one more than anybody needs", unless  *)
(* two requests overlapped.                                                 *)
OneCodeAtATime ==
    \A u \in Users \ raced : Cardinality(LiveCodes(u)) <= 1

(* Since the last restart, no client whose attempts never overlapped has    *)
(* more than Limit attempts within a minute that were not forgiven.         *)
Unforgiven(c) == {a \in attempts : a.client = c /\ now - a.at <= Minute}
BruteForceIsBounded ==
    \A c \in Clients \ crossed : Cardinality(Unforgiven(c)) <= Limit

=============================================================================
