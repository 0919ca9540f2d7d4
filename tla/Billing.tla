------------------------------- MODULE Billing -------------------------------
(***************************************************************************)
(* A household's subscription: the webhooks of the payment processor, the  *)
(* ledger that recognises a repeated one, and the operator's commands      *)
(* (services/billing.py, services/entitlements.py, routers/billing.py,     *)
(* app/entitlements.py).                                                   *)
(*                                                                         *)
(* A delivery is handled by a session of its own in up to three steps with *)
(* others in between: it reads the ledger and the household, it commits    *)
(* the change of the entitlement, it commits the ledger row.  A session    *)
(* may die between them; whatever was not answered 200 is delivered again. *)
(*                                                                         *)
(* The processor is external: it sells subscriptions to checkouts opened   *)
(* here, renews and ends them, and delivers what it has to say in any      *)
(* order, any number of times.  Its events are numbered as they happen.    *)
(***************************************************************************)
EXTENDS Webhook, FiniteSets

CONSTANTS
    Subs,        \* checkouts, and the subscriptions they become
    Sessions,    \* requests and commands that may run together
    Processors,  \* the values of BILLING_PROCESSOR considered
    ManageUrl,   \* whether BILLING_MANAGE_URL is set
    OfferPrice,  \* BILLING_PRICE_PENCE, 0 for none
    Year,        \* the length of a paid period
    MaxTime, MaxEvents, MaxFaults  \* bounds; MaxFaults: crashes and commands together

ASSUME BillingAssumption ==
    /\ Processors \subseteq Processor /\ ManageUrl \in BOOLEAN
    /\ {OfferPrice, Year, MaxTime, MaxEvents, MaxFaults} \subseteq Nat
    /\ Year > 0

VARIABLES
    processor,  \* BILLING_PROCESSOR, fixed for a deployment
    now,
    exists,     \* the household has not been deleted
    row,        \* its row
    ledger,     \* billing_events: [id, outcome]
    session,    \* what each session is doing
    sub,        \* external: where each subscription stands, and paid until when
    outbox,     \* external: what the processor has to deliver
    issued,     \* external: how many events there have been
    crashes,    \* crashes and lost answers, counted for the bounds
    commands,   \* likewise
    acted,      \* history: the ids of the events that took effect
    newest,     \* history: the latest event that took effect
    inOrder     \* history: each took effect on the row it had read, none before an older one

processorVars == <<sub, outbox, issued>>
counters == <<crashes, commands>>
history == <<acted, newest, inOrder>>
vars == <<processor, now, exists, row, ledger, session, processorVars, counters, history>>

-----------------------------------------------------------------------------
Idle == [phase |-> "idle"]

Outcomes == {"granted", "revoked", "ignored", "orphan", "refused"}

Init ==
    /\ processor \in Processors
    /\ now = 1
    /\ exists = TRUE
    /\ row = NewRow
    /\ ledger = {}
    /\ session = [s \in Sessions |-> Idle]
    /\ sub = [c \in Subs |-> [state |-> "none", until |-> NoDate]]
    /\ outbox = {}
    /\ issued = 0
    /\ crashes = 0 /\ commands = 0
    /\ acted = {} /\ newest = 0 /\ inOrder = TRUE

AlreadyRecorded(id) == \E entry \in ledger : entry.id = id

-----------------------------------------------------------------------------
(* The processor.                                                          *)

TypeOf == [paddle |-> [paid |-> "subscription.updated", ended |-> "subscription.canceled",
                       other |-> "adjustment.created"],
           stripe |-> [paid |-> "customer.subscription.updated",
                       ended |-> "customer.subscription.deleted", other |-> "invoice.paid"],
           lemonsqueezy |-> [paid |-> "subscription_payment_success",
                             ended |-> "subscription_expired", other |-> "subscription_cancelled"]]

Issue(c, kind, household, ends) ==
    /\ issued < MaxEvents
    /\ issued' = issued + 1
    /\ outbox' = outbox \cup
         {[type |-> TypeOf[processor][kind], id |-> <<c, issued + 1>>, household |-> household,
           ends |-> ends, amount |-> issued + 1, customer |-> c]}

(* A payment names the household of its checkout and the period it pays    *)
(* for; the list price may have changed since the last one.                *)
Charge(c) ==
    /\ sub[c].state \in {"open", "active"}
    /\ LET until == (IF sub[c].until > now THEN sub[c].until ELSE now) + Year IN
       /\ sub' = [sub EXCEPT ![c] = [state |-> "active", until |-> until]]
       /\ Issue(c, "paid", "household", <<until, NoDate>>)
    /\ UNCHANGED <<processor, now, exists, row, ledger, session, counters, history>>

End(c) ==
    /\ sub[c].state = "active"
    /\ sub' = [sub EXCEPT ![c].state = "ended"]
    /\ Issue(c, "ended", "household", <<NoDate, NoDate>>)
    /\ UNCHANGED <<processor, now, exists, row, ledger, session, counters, history>>

(* Events this server has no use for: of another type, of a checkout it    *)
(* did not open, without a period.                                         *)
Chatter(c) ==
    /\ sub[c].state = "active"
    /\ \/ Issue(c, "other", "household", <<NoDate, NoDate>>)
       \/ Issue(c, "paid", NoHousehold, <<sub[c].until, NoDate>>)
       \/ Issue(c, "paid", "household", <<NoDate, NoDate>>)
    /\ UNCHANGED <<processor, now, exists, row, ledger, session, sub, counters, history>>

-----------------------------------------------------------------------------
(* Each processor is asked for a hosted checkout that carries the id of    *)
(* the household to the events of the subscription.  One that is refused   *)
(* or not answered leaves nothing behind.                                  *)
StartCheckout(c) ==
    /\ sub[c].state = "none"
    /\ sub' = [sub EXCEPT ![c].state = "open"]

(* checkout: only a household on the free tier has something to buy. *)
Checkout(c) ==
    /\ exists
    /\ EffectiveTier(row, now) = Free
    /\ StartCheckout(c)
    /\ UNCHANGED <<processor, now, exists, row, ledger, session, outbox, issued, counters, history>>

(* _price_from: the event's list price, or the price on offer for a        *)
(* household that has none yet.                                            *)
PriceFrom(event, r) ==
    IF event.price # NoPrice THEN event.price
    ELSE IF r.price # NoPrice THEN NoPrice ELSE OfferPrice

ToRecord(event, body, outcome) ==
    [phase |-> "record", event |-> event, body |-> body, outcome |-> outcome]

ToAct(event, body) ==
    [phase |-> "act", event |-> event, body |-> body, loaded |-> row]

(* What handle decides before its first write. *)
Decide(event, body) ==
    IF event.action = "ignore" THEN ToRecord(event, body, "ignored")
    ELSE IF event.household = NoHousehold \/ ~exists THEN ToRecord(event, body, "orphan")
    ELSE IF event.action = "grant" /\ event.renewsAt = NoDate THEN ToRecord(event, body, "refused")
    ELSE ToAct(event, body)

(* A 200 takes the event off the processor's hands, unless it is lost. *)
Answer(body) ==
    \/ outbox' = outbox \ {body} /\ UNCHANGED crashes
    \/ /\ crashes + commands < MaxFaults
       /\ crashes' = crashes + 1
       /\ UNCHANGED outbox

(* webhook and the first part of handle.  A request that does not verify   *)
(* or cannot be read is answered 4xx and changes nothing; a duplicate is   *)
(* answered 200 at once.                                                   *)
Handle(s, body, header) ==
    /\ session[s] = Idle
    /\ Verify(processor, header, now) = "ok"
    /\ ~Unreadable(processor, body)
    /\ LET event == Parse(processor, body) IN
       IF AlreadyRecorded(event.id)
       THEN Answer(body) /\ UNCHANGED session
       ELSE /\ session' = [session EXCEPT ![s] = Decide(event, body)]
            /\ UNCHANGED <<outbox, crashes>>
    /\ UNCHANGED <<processor, now, exists, row, ledger, sub, issued, commands, history>>

(* How a genuine body may be signed: now or without a time, while the      *)
(* secret is being rolled also with another key, or only with that.  What  *)
(* is not signed with the secret goes no further than Verify.              *)
Headers == [signedAt : {now, 0}, keys : {{"secret"}, {"secret", "other"}, {"other"}}]

Receive(s) == \E body \in outbox, header \in Headers : Handle(s, body, header)

-----------------------------------------------------------------------------
EventRefused(s) ==
    LET event == session[s].event IN
    /\ event.action = "grant"
    /\ GrantRefused(session[s].loaded, event.renewsAt, PriceFrom(event, session[s].loaded), TRUE, now)

Applied(s) ==
    LET event == session[s].event
        loaded == session[s].loaded IN
    IF event.action = "grant"
    THEN Grant(loaded, Paid, event.renewsAt, processor, PriceFrom(event, loaded), event.customer)
    ELSE Revoke(loaded)

(* entitlements.grant or revoke, which commit.  A household deleted since  *)
(* it was loaded fails the UPDATE and the request (FailUpdate).            *)
Act(s) ==
    /\ session[s].phase = "act"
    /\ exists
    /\ LET event == session[s].event
           n == session[s].body.id[2] IN
       IF EventRefused(s)
       THEN /\ session' = [session EXCEPT ![s] = ToRecord(event, session[s].body, "refused")]
            /\ UNCHANGED <<row, history>>
       ELSE /\ row' = Emit(row, session[s].loaded, Applied(s))
            /\ session' = [session EXCEPT ![s] = ToRecord(event, session[s].body,
                              IF event.action = "grant" THEN "granted" ELSE "revoked")]
            /\ acted' = acted \cup {event.id}
            /\ inOrder' = (inOrder /\ session[s].loaded = row /\ n >= newest)
            /\ newest' = IF n > newest THEN n ELSE newest
    /\ UNCHANGED <<processor, now, exists, ledger, processorVars, counters>>

FailUpdate(s) ==
    /\ session[s].phase \in {"act", "run"}
    /\ ~exists
    /\ session' = [session EXCEPT ![s] = Idle]
    /\ UNCHANGED <<processor, now, exists, row, ledger, processorVars, counters, history>>

(* The ledger row names the household, unless the event is an orphan: once *)
(* the household is gone the insert is refused, and not as a duplicate.    *)
RowRefused(s) == ~exists /\ session[s].outcome # "orphan" /\ session[s].event.household # NoHousehold

(* Mutant: a second delivery overwrites what the first recorded. *)
Record_Overwrites(s) ==
    /\ session[s].phase = "record"
    /\ session' = [session EXCEPT ![s] = Idle]
    /\ LET id == session[s].event.id IN
       /\ ledger' = {entry \in ledger : entry.id # id} \cup {[id |-> id, outcome |-> session[s].outcome]}
       /\ Answer(session[s].body)
    /\ UNCHANGED <<processor, now, exists, row, sub, issued, commands, history>>

(* Mutant: what the entitlement refuses is answered 500. *)
Record_FailsRefused(s) ==
    /\ session[s].phase = "record"
    /\ session' = [session EXCEPT ![s] = Idle]
    /\ LET id == session[s].event.id IN
       IF session[s].outcome = "refused" \/ (RowRefused(s) /\ ~AlreadyRecorded(id))
       THEN UNCHANGED <<ledger, outbox, crashes>>
       ELSE /\ ledger' = IF AlreadyRecorded(id) THEN ledger
                         ELSE ledger \cup {[id |-> id, outcome |-> session[s].outcome]}
            /\ Answer(session[s].body)
    /\ UNCHANGED <<processor, now, exists, row, sub, issued, commands, history>>

(* _record: one row per event.  Whoever comes second is a duplicate and    *)
(* answers 200; any other refusal of the insert is a 500.                  *)
Record(s) ==
    /\ session[s].phase = "record"
    /\ session' = [session EXCEPT ![s] = Idle]
    /\ LET id == session[s].event.id IN
       IF RowRefused(s) /\ ~AlreadyRecorded(id)
       THEN UNCHANGED <<ledger, outbox, crashes>>
       ELSE /\ ledger' = IF AlreadyRecorded(id) THEN ledger
                         ELSE ledger \cup {[id |-> id, outcome |-> session[s].outcome]}
            /\ Answer(session[s].body)
    /\ UNCHANGED <<processor, now, exists, row, sub, issued, commands, history>>

(* The process dies or the database goes away: the processor gets no 200.  *)
Crash(s) ==
    /\ session[s] # Idle
    /\ crashes + commands < MaxFaults
    /\ crashes' = crashes + 1
    /\ session' = [session EXCEPT ![s] = Idle]
    /\ UNCHANGED <<processor, now, exists, row, ledger, processorVars, commands, history>>

(* Whether there is a page to manage the subscription on: a portal session *)
(* where one can be minted, the configured page for who pays otherwise.    *)
Mintable == processor = "stripe" /\ row.customer # Nobody
CanManage == Mintable \/ (ManageUrl /\ row.source \notin {"none", Comp})

(* portal_url, with what the processor makes of the request for a session. *)
PortalUrl(answer) ==
    IF ~Mintable THEN IF CanManage THEN "page" ELSE "409"
    ELSE CASE answer = "opened" -> "session"
           [] answer = "refused" /\ ManageUrl -> "page"
           [] OTHER -> "502"

-----------------------------------------------------------------------------
(* The operator's commands: the row is loaded, then changed and committed. *)

Command(s, command) ==
    /\ exists
    /\ session[s] = Idle
    /\ crashes + commands < MaxFaults
    /\ commands' = commands + 1
    /\ session' = [session EXCEPT ![s] =
                     [phase |-> "run", command |-> command, loaded |-> row]]
    /\ UNCHANGED <<processor, now, exists, row, ledger, processorVars, crashes, history>>

Run(s) ==
    /\ session[s].phase = "run"
    /\ exists
    /\ LET loaded == session[s].loaded
           changed == CASE session[s].command = "comp" ->
                             Grant(loaded, Unlimited, NoDate, Comp, NoPrice, Nobody)
                        [] session[s].command = "extend" -> Extend(loaded, Year, now)
                        [] OTHER -> Revoke(loaded) IN
       row' = Emit(row, loaded, changed)
    /\ session' = [session EXCEPT ![s] = Idle]
    /\ UNCHANGED <<processor, now, exists, ledger, processorVars, counters, history>>

(* The last member deletes the account, and the household goes with it;    *)
(* the ledger rows stay without it.                                        *)
DeleteHousehold ==
    /\ exists
    /\ exists' = FALSE
    /\ UNCHANGED <<processor, now, row, ledger, session, processorVars, counters, history>>

Tick ==
    /\ now < MaxTime
    /\ now' = now + 1
    /\ UNCHANGED <<processor, exists, row, ledger, session, processorVars, counters, history>>

Next ==
    \/ \E c \in Subs : Checkout(c) \/ Charge(c) \/ End(c) \/ Chatter(c)
    \/ \E s \in Sessions :
         \/ Receive(s) \/ Act(s) \/ FailUpdate(s) \/ Record(s) \/ Crash(s)
         \/ \E command \in {"comp", "extend", "revoke"} : Command(s, command)
         \/ Run(s)
    \/ DeleteHousehold
    \/ Tick

(* A request runs to its end, and the processor keeps delivering each      *)
(* event that was not answered 200: strong fairness, because the sessions  *)
(* of the model may be busy in between and those of the server never all   *)
(* are.                                                                    *)
Deliver(id) ==
    \E s \in Sessions, body \in outbox :
        body.id = id /\ Handle(s, body, [signedAt |-> now, keys |-> {"secret"}])

Fairness ==
    /\ \A c \in Subs, n \in 1..MaxEvents : SF_vars(Deliver(<<c, n>>))
    /\ \A s \in Sessions : WF_vars(Act(s) \/ FailUpdate(s) \/ Record(s) \/ Run(s))

Spec == Init /\ [][Next]_vars
FairSpec == Spec /\ Fairness

-----------------------------------------------------------------------------
(* Types: every column holds what its values may be, a session in flight   *)
(* has what its phase needs.                                               *)
TypeOK ==
    /\ processor \in Processors
    /\ now \in Nat /\ exists \in BOOLEAN /\ inOrder \in BOOLEAN
    /\ row \in Row(Subs)
    /\ \A entry \in ledger : entry.outcome \in Outcomes
    /\ \A s \in Sessions :
        /\ session[s].phase \in {"idle", "act", "record", "run"}
        /\ session[s].phase \in {"act", "run"} => session[s].loaded \in Row(Subs)
        /\ session[s].phase = "record" => session[s].outcome \in Outcomes
    /\ sub \in [Subs -> [state : {"none", "open", "active", "ended"}, until : Nat]]
    /\ newest \in Nat /\ issued \in Nat

(* The ledger keeps its promise about every event, whatever is delivered   *)
(* twice, in parallel or again after a crash (EventLedger, models/         *)
(* billing.py: one row per event).                                         *)
Ledger == INSTANCE EventLedger WITH acted <- acted, ledger <- ledger
LedgerSpec == Ledger!Spec

(* Money ends where the contract is: once everything was answered, a       *)
(* household with one subscription has exactly what it paid for, provided  *)
(* its events took effect one after the other and in order.  A retry after *)
(* a crash does no harm then (handle, grant, revoke).                      *)
Quiet == outbox = {} /\ \A s \in Sessions : session[s] = Idle

CreditFollowsPayment ==
    Quiet /\ exists /\ inOrder /\ commands = 0 =>
        \A c \in Subs :
            (\A d \in Subs \ {c} : sub[d].state \in {"none", "open"}) =>
                /\ sub[c].state = "active" /\ sub[c].until > now =>
                    row.tier = Paid /\ row.until = sub[c].until
                /\ sub[c].state = "ended" => row.tier = Free /\ row.until = NoDate

(* The founding price is for life: once it is on the row nothing changes   *)
(* it, as long as no two payments were handled at once (grant).            *)
FoundingPriceForLife ==
    [][row.price # NoPrice /\ inOrder' => row'.price = row.price]_vars

(* No payment is retried for ever: every event this server acts upon is    *)
(* answered 200 in the end, through crashes, duplicates and the deletion   *)
(* of its household (handle, _record).                                     *)
ActedUpon(body) == Action(processor, body.type) # "ignore"

PaymentsAreAnswered == []<>(issued = MaxEvents => \A body \in outbox : ~ActedUpon(body))

=============================================================================
