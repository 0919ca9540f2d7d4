------------------------------- MODULE Dunning -------------------------------
(***************************************************************************)
(* The two mails about an expiring entitlement (services/dunning.py, run   *)
(* from cron by app/dunning.py), against renewals and revocations that     *)
(* come in meanwhile (services/entitlements.py).                           *)
(*                                                                         *)
(* A run reads every household with an expiry, sends the mails that are    *)
(* due one after the other, sets the marks on the rows it has loaded and   *)
(* commits once at the end.  It may die before that.  A change of an       *)
(* entitlement is a session of its own: it loads the row, and commits the  *)
(* columns it changed later.  Mails are counted by household, kind and the *)
(* expiry they are about.                                                  *)
(***************************************************************************)
EXTENDS Entitlements, FiniteSets

CONSTANTS
    Households,
    WarnDays,   \* DUNNING_WARN_DAYS
    Renewal,       \* what a renewal adds
    MaxDays, MaxChanges, MaxDeaths  \* bounds

ASSUME DunningAssumption ==
    /\ {WarnDays, Renewal, MaxDays, MaxChanges, MaxDeaths} \subseteq Nat
    /\ Renewal > 0

Kind == {"warning", "lapse"}

VARIABLES
    today,
    rows,     \* the households' rows
    job,      \* the run in progress
    change,   \* the change of an entitlement in progress
    sent,     \* external: how often each mail went out
    changes, deaths,  \* counted for the bounds
    undisturbed, \* history: the households no change of which overlapped a run
    repeats      \* history: changes to an expiry a mail had gone out about

dunningVars == <<today, rows, job, change, sent, changes, deaths, undisturbed, repeats>>

AtRest == [phase |-> "idle"]

Until == 1..(MaxDays + (MaxChanges + 1) * Renewal)

(* Every household has paid for a first period. *)
DunningInit ==
    /\ today = 1
    /\ rows = [h \in Households |-> Grant(NewRow, Paid, 1 + Renewal, "stripe", 1, Nobody)]
    /\ job = AtRest
    /\ change = AtRest
    /\ sent = [h \in Households |-> [k \in Kind |-> [u \in Until |-> 0]]]
    /\ changes = 0 /\ deaths = 0
    /\ undisturbed = Households
    /\ repeats = 0

-----------------------------------------------------------------------------
(* Mutant: a lapse is announced at every run. *)
Due_Unmarked(h) ==
    LET r == rows[h] IN
    CASE r.until = NoDate -> {}
      [] r.until # NoDate /\ r.until <= today -> {"lapse"}
      [] OTHER -> IF r.until <= today + WarnDays /\ ~r.warned THEN {"warning"} ELSE {}

(* Mutant: one mark serves both mails. *)
Due_OneMark(h) ==
    LET r == rows[h] IN
    CASE r.until = NoDate -> {}
      [] r.until # NoDate /\ r.until <= today -> IF r.notified \/ r.warned THEN {} ELSE {"lapse"}
      [] OTHER -> IF r.until <= today + WarnDays /\ ~r.warned THEN {"warning"} ELSE {}

(* due: at most one of the two, by the expiry and the marks. *)
Due(h) ==
    LET r == rows[h] IN
    CASE r.until = NoDate -> {}
      [] r.until # NoDate /\ r.until <= today -> IF r.notified THEN {} ELSE {"lapse"}
      [] OTHER -> IF r.until <= today + WarnDays /\ ~r.warned THEN {"warning"} ELSE {}

Notices == UNION {{[household |-> h, kind |-> k, until |-> rows[h].until] : k \in Due(h)}
                  : h \in Households}

Start ==
    /\ job = AtRest
    /\ Notices # {}
    /\ job' = [phase |-> "sending", todo |-> Notices, stamped |-> {}]
    /\ UNCHANGED <<today, rows, change, sent, changes, deaths, undisturbed, repeats>>

Send(h) ==
    /\ job.phase = "sending"
    /\ \E n \in job.todo :
        /\ n.household = h
        /\ sent' = [sent EXCEPT ![h][n.kind][n.until] = @ + 1]
        /\ job' = [job EXCEPT !.todo = @ \ {n}, !.stamped = @ \cup {n}]
    /\ UNCHANGED <<today, rows, change, changes, deaths, undisturbed, repeats>>

(* The relay refuses: nothing is marked, and the next run tries again. *)
FailToSend(h) ==
    /\ job.phase = "sending"
    /\ \E n \in job.todo :
        /\ n.household = h
        /\ job' = [job EXCEPT !.todo = @ \ {n}]
    /\ UNCHANGED <<today, rows, change, sent, changes, deaths, undisturbed, repeats>>

Stamp(r, kinds) ==
    [r EXCEPT !.warned = @ \/ "warning" \in kinds, !.notified = @ \/ "lapse" \in kinds]

(* The one commit at the end: an UPDATE of the mark for every mail sent. *)
Finish ==
    /\ job.phase = "sending"
    /\ job.todo = {}
    /\ rows' = [h \in Households |->
                  Stamp(rows[h], {n.kind : n \in {x \in job.stamped : x.household = h}})]
    /\ job' = AtRest
    /\ UNCHANGED <<today, change, sent, changes, deaths, undisturbed, repeats>>

(* The process dies, or its commit fails. *)
JobDies ==
    /\ job # AtRest
    /\ deaths < MaxDeaths
    /\ deaths' = deaths + 1
    /\ job' = AtRest
    /\ UNCHANGED <<today, rows, change, sent, changes, undisturbed, repeats>>

-----------------------------------------------------------------------------
(* A payment or an operator changes an entitlement. *)

Load(h) ==
    /\ change = AtRest
    /\ changes < MaxChanges
    /\ changes' = changes + 1
    /\ change' = [phase |-> "loaded", household |-> h, row |-> rows[h]]
    /\ undisturbed' = IF job = AtRest THEN undisturbed ELSE undisturbed \ {h}
    /\ UNCHANGED <<today, rows, job, sent, deaths, repeats>>

(* A revocation, an extension, a payment for the next period, or an event  *)
(* of the processor that names the period already paid for.                *)
Changed(r) ==
    {Revoke(r), Extend(r, Renewal, today)} \cup
    {Grant(r, Paid, u, "stripe", NoPrice, Nobody) :
        u \in {x \in {today + Renewal, r.until} : x # NoDate /\ ~GrantRefused(r, x, NoPrice, TRUE, today)}}

Mailed(h, until) == until # NoDate /\ \E k \in Kind : sent[h][k][until] > 0

Change ==
    /\ change.phase = "loaded"
    /\ LET h == change.household IN
       /\ \E r \in Changed(change.row) :
            /\ rows' = [rows EXCEPT ![h] = Emit(@, change.row, r)]
            /\ repeats' = IF Mailed(h, r.until) THEN repeats + 1 ELSE repeats
       /\ undisturbed' = IF job = AtRest /\ rows[h] = change.row THEN undisturbed ELSE undisturbed \ {h}
    /\ change' = AtRest
    /\ UNCHANGED <<today, job, sent, changes, deaths>>

NextDay ==
    /\ today < MaxDays
    /\ today' = today + 1
    /\ UNCHANGED <<rows, job, change, sent, changes, deaths, undisturbed, repeats>>

DunningNext ==
    \/ Start \/ Finish \/ JobDies
    \/ \E h \in Households : Send(h) \/ FailToSend(h) \/ Load(h)
    \/ Change
    \/ NextDay

(* cron starts a run every day and a run ends; the relay does not refuse   *)
(* one household's mail for ever.                                          *)
DunningFairness ==
    /\ WF_dunningVars(Start)
    /\ \A h \in Households : WF_dunningVars(Send(h) \/ FailToSend(h)) /\ SF_dunningVars(Send(h))
    /\ WF_dunningVars(Finish)

DunningSpec == DunningInit /\ [][DunningNext]_dunningVars
FairDunningSpec == DunningSpec /\ DunningFairness

-----------------------------------------------------------------------------
(* Types: rows, the run and the change hold what their phase needs. *)
DunningTypeOK ==
    /\ today \in Nat
    /\ rows \in [Households -> Row({})]
    /\ job.phase \in {"idle", "sending"}
    /\ job.phase = "sending" =>
        job.todo \cup job.stamped \subseteq [household : Households, kind : Kind, until : Until]
    /\ change.phase = "loaded" => change.household \in Households /\ change.row \in Row({})
    /\ undisturbed \subseteq Households

(* Two mails and seldom a third: a mail about one expiry goes out again    *)
(* only when a run died between the sending and the commit, or when a      *)
(* change cleared the marks and left the expiry where it was or put it     *)
(* back there (run, grant).                                                *)
AgainOnlyForACause ==
    \A h \in Households, k \in Kind, u \in Until : sent[h][k][u] <= 1 + deaths + repeats

(* Nobody's year ends in silence: a household whose expiry has passed is   *)
(* told so or renews first, unless a change overlapped a run (run retries  *)
(* what failed).                                                           *)
Expired(h) == rows[h].until # NoDate /\ rows[h].until <= today
Told(h) == Expired(h) /\ sent[h]["lapse"][rows[h].until] > 0

LapseIsTold ==
    \A h \in Households : Expired(h) ~> (Told(h) \/ ~Expired(h) \/ h \notin undisturbed)

(* The instant the grace period ends already shows as lapsed (state), and   *)
(* the limits begin only after it (has_lapsed), although a comment beside   *)
(* the states says that the two can never disagree.                         *)
GraceEndsNow(r) == r.until # NoDate /\ today = GraceEndsAt(r)

(* A household is held to the free tier only once it is shown as lapsed,    *)
(* and from then on but for the instant that says so.                       *)
StateAgreesWithLimits ==
    \A h \in Households :
        LET r == rows[h] IN
        /\ EffectiveTier(r, today) # r.tier => State(r, today) = "lapsed"
        /\ State(r, today) = "lapsed" /\ ~GraceEndsNow(r) => EffectiveTier(r, today) = Free
=============================================================================
