---------------------------- MODULE Billing_proofs ----------------------------
(***************************************************************************)
(* The paid part, for any number of sessions, subscriptions, households.   *)
(* The ledger keeps its promise about every event, the founding price      *)
(* stays, and the paid tier ends up where the contract is; a mail about an *)
(* expiry is repeated only for a cause, and the state shown is the one the *)
(* limits go by.                                                           *)
(***************************************************************************)
EXTENDS Billing, Dunning, TLAPS

Kinds == {"paid", "ended", "other"}
Types == {TypeOf[p][kind] : p \in Processor, kind \in Kinds}
Body == [type : Types, id : Subs \X Nat, household : {"household", NoHousehold},
         ends : Date \X Date, amount : Nat, customer : Subs]

(* The bodies that are still to be delivered or being handled. *)
Handling == {s \in Sessions : session[s].phase \in {"act", "record"}}
InPlay == outbox \cup {session[s].body : s \in Handling}

(* Another session has recorded the event of one that is about to act.  Then *)
(* the event took effect already, or it never will: the household is gone,   *)
(* or the period it pays for is over.  Time does not turn back, so what one  *)
(* session found expired no other will grant.                                *)
Settled(event) ==
    \/ event.id \in acted
    \/ ~exists
    \/ event.action = "grant" /\ event.renewsAt <= now

Actable(t) ==
    /\ t.event.action \in {"grant", "revoke"}
    /\ t.event.household # NoHousehold
    /\ t.event.action = "grant" => t.event.renewsAt # NoDate
    /\ AlreadyRecorded(t.event.id) => Settled(t.event)

(* What a session is about to record is so. *)
Deserved(t) ==
    /\ t.outcome \in Outcomes
    /\ t.outcome \in {"granted", "revoked"} => t.event.id \in acted
    /\ t.outcome = "ignored" => t.event.action = "ignore"
    /\ t.outcome = "orphan" => t.event.household = NoHousehold \/ ~exists
    /\ t.outcome = "refused" => t.event.action = "grant" /\ t.event.renewsAt <= now

SessionOK(t) ==
    /\ t.phase \in {"idle", "act", "record", "run"}
    /\ t.phase \in {"act", "run"} => t.loaded \in Row(Subs)
    /\ t.phase \in {"act", "record"} => t.event = Parse(processor, t.body)
    /\ t.phase = "act" => Actable(t)
    /\ t.phase = "record" => Deserved(t)

Typed ==
    /\ processor \in Processors
    /\ now \in Nat /\ exists \in BOOLEAN /\ inOrder \in BOOLEAN
    /\ row \in Row(Subs)
    /\ \A entry \in ledger : entry.outcome \in Outcomes
    /\ sub \in [Subs -> [state : {"none", "open", "active", "ended"}, until : Nat]]
    /\ newest \in Nat /\ issued \in Nat
    /\ session = [s \in Sessions |-> session[s]]
    /\ InPlay \subseteq Body

(* The processor numbers its events. *)
OneBodyPerId ==
    /\ \A a \in InPlay : a.id[2] <= issued
    /\ \A a, b \in InPlay : a.id = b.id => a = b

IInv == Typed /\ OneBodyPerId /\ \A s \in Sessions : SessionOK(session[s])

-----------------------------------------------------------------------------
(* The changes of a row keep its type. *)
LEMMA GrantTyped ==
    ASSUME NEW C, NEW r \in Row(C), NEW tier \in Tiers, NEW until \in Nat, NEW source \in Source,
           NEW price \in Nat, NEW customer \in C \cup {Nobody}
    PROVE  Grant(r, tier, until, source, price, customer) \in Row(C)
BY DEF Grant, ResetDunning, Row, Date, NoPrice

LEMMA RevokeTyped ==
    ASSUME NEW C, NEW r \in Row(C)
    PROVE  Revoke(r) \in Row(C)
BY DEF Revoke, ResetDunning, Row, Date, NoDate, Free, Tiers, Source

LEMMA ExtendTyped ==
    ASSUME NEW C, NEW r \in Row(C), NEW days \in Nat, NEW at \in Nat
    PROVE  Extend(r, days, at) \in Row(C)
<1> DEFINE base == IF r.until # NoDate /\ r.until > at THEN r.until ELSE at
<1>1. base + days \in Nat
  BY DEF Row, Date
<1>2. [r EXCEPT !.until = base + days] \in Row(C)
  BY <1>1 DEF Row, Date
<1> QED
  BY <1>2 DEF Extend, ResetDunning, Row

LEMMA EmitTyped ==
    ASSUME NEW C, NEW current \in Row(C), NEW loaded \in Row(C), NEW changed \in Row(C)
    PROVE  Emit(current, loaded, changed) \in Row(C)
BY DEF Emit, Row

(* Parsing. *)
LEMMA ParseTyped ==
    ASSUME NEW p \in Processor, NEW body \in Body
    PROVE  /\ Parse(p, body).action \in {"grant", "revoke", "ignore"}
           /\ Parse(p, body).household = body.household
           /\ Parse(p, body).renewsAt \in Nat
           /\ Parse(p, body).price \in Nat
           /\ Parse(p, body).customer \in Subs
           /\ Parse(p, body).id = EventId(p, body)
<1>1. Action(p, body.type) \in {"grant", "revoke", "ignore"}
  BY DEF Action
<1>2. PeriodEnd(p, body.ends) \in Nat
  BY DEF PeriodEnd, Body, Date
<1>3. Money(body.amount) \in Nat /\ NoPrice \in Nat
  BY DEF Money, Body, NoPrice
<1> QED
  BY <1>1, <1>2, <1>3 DEF Parse, Body

(* Two bodies that are taken for one event are the same event: a processor   *)
(* that numbers its events sends one body for each, and Lemon Squeezy's body *)
(* is its own id.                                                            *)
LEMMA SameEvent ==
    ASSUME IInv, NEW a \in InPlay, NEW b \in InPlay,
           EventId(processor, a) = EventId(processor, b)
    PROVE  Parse(processor, a) = Parse(processor, b)
<1>1. a \in Body /\ b \in Body
  BY DEF IInv, Typed
<1>2. CASE processor = "lemonsqueezy"
  <2>1. [a EXCEPT !.id = NoId] = [b EXCEPT !.id = NoId]
    BY <1>2 DEF EventId
  <2>2. /\ a.type = b.type /\ a.household = b.household /\ a.ends = b.ends
        /\ a.customer = b.customer
    BY <1>1, <2>1 DEF Body
  <2> QED
    BY <1>2, <2>1, <2>2 DEF Parse, EventId
<1>3. CASE processor # "lemonsqueezy"
  BY <1>3 DEF EventId, IInv, OneBodyPerId
<1> QED
  BY <1>2, <1>3

-----------------------------------------------------------------------------
(* What is settled stays settled. *)
LEMMA OthersStayOK ==
    ASSUME IInv, NEW u \in Sessions, session'[u] = session[u], processor' = processor,
           now \in Nat, now' \in Nat, now' >= now, (~exists => ~exists'), acted \subseteq acted',
           /\ session[u].phase = "act"
           /\ \E entry \in ledger' : entry.id = session[u].event.id
           => AlreadyRecorded(session[u].event.id) \/ Settled(session[u].event)
    PROVE  SessionOK(session[u])'
<1> DEFINE t == session[u]
<1>1. SessionOK(t)
  BY DEF IInv
<1>2. CASE t.phase \in {"idle", "run"}
  BY <1>1, <1>2 DEF SessionOK
<1>3. CASE t.phase \in {"act", "record"}
  <2>1. t.event = Parse(processor, t.body)
    BY <1>1, <1>3 DEF SessionOK
  <2>2. (t.event.action = "grant" /\ t.event.renewsAt <= now) => t.event.renewsAt <= now'
    <3>1. t.body \in Body /\ processor \in Processor
      BY <1>3, BillingAssumption DEF IInv, Typed, InPlay, Handling
    <3> QED
      BY <2>1, <3>1, ParseTyped
  <2>3. Settled(t.event) => Settled(t.event)'
    BY <2>2 DEF Settled
  <2>4. CASE t.phase = "act"
    BY <1>1, <2>1, <2>3, <2>4 DEF SessionOK, Actable, AlreadyRecorded
  <2>5. CASE t.phase = "record"
    BY <1>1, <2>1, <2>2, <2>5 DEF SessionOK, Deserved
  <2> QED
    BY <1>3, <2>4, <2>5
<1> QED
  BY <1>1, <1>2, <1>3 DEF SessionOK

(* A session takes a step, and leaves the others what they rely on. *)
LEMMA SessionStep ==
    ASSUME IInv, NEW s \in Sessions,
           session' = [session EXCEPT ![s] = session'[s]],
           UNCHANGED <<processor, now, exists, sub, issued>>,
           outbox' \subseteq outbox, row' \in Row(Subs),
           acted \subseteq acted', newest' \in Nat, inOrder' \in BOOLEAN,
           \A entry \in ledger' : entry.outcome \in Outcomes,
           SessionOK(session[s])',
           session'[s].phase \in {"act", "record"} => session'[s].body \in InPlay,
           \A u \in Sessions \ {s} :
              /\ session[u].phase = "act"
              /\ \E entry \in ledger' : entry.id = session[u].event.id
              => AlreadyRecorded(session[u].event.id) \/ Settled(session[u].event)
    PROVE  IInv'
<1>1. \A u \in Sessions \ {s} : session'[u] = session[u]
  BY DEF IInv, Typed
<1>2. InPlay' \subseteq InPlay
  BY <1>1 DEF InPlay, Handling
<1>3. session' = [u \in Sessions |-> session'[u]]
  BY DEF IInv, Typed
<1>4. Typed'
  BY <1>2, <1>3 DEF IInv, Typed
<1>5. OneBodyPerId'
  BY <1>2 DEF IInv, OneBodyPerId
<1>6. \A u \in Sessions \ {s} : SessionOK(session[u])'
  BY <1>1, OthersStayOK DEF IInv, Typed
<1> QED
  BY <1>4, <1>5, <1>6 DEF IInv

(* A session ends, or loads the row for a command. *)
LEMMA PlainStep ==
    ASSUME IInv, NEW s \in Sessions,
           session' = [session EXCEPT ![s] = session'[s]],
           UNCHANGED <<processor, now, exists, sub, outbox, issued, ledger, acted, newest, inOrder>>,
           row' \in Row(Subs),
           \/ session'[s] = Idle
           \/ session'[s].phase = "run" /\ session'[s].loaded \in Row(Subs)
    PROVE  IInv'
<1>1. SessionOK(session[s])' /\ session'[s].phase \notin {"act", "record"}
  BY DEF SessionOK, Idle
<1> QED
  BY <1>1, SessionStep DEF IInv, Typed, AlreadyRecorded

(* The processor sends one event more, with a number nobody has seen. *)
LEMMA IssueStep ==
    ASSUME IInv, NEW b \in Body,
           UNCHANGED <<processor, now, exists, row, ledger, session, acted, newest, inOrder>>,
           sub' \in [Subs -> [state : {"none", "open", "active", "ended"}, until : Nat]],
           issued' = issued + 1, b.id[2] = issued + 1, outbox' = outbox \cup {b}
    PROVE  IInv'
<1>1. InPlay' = InPlay \cup {b}
  BY DEF InPlay, Handling
<1>2. Typed'
  BY <1>1 DEF IInv, Typed
<1>3. OneBodyPerId'
  <2>1. \A a \in InPlay : a.id[2] \in Nat /\ a.id[2] <= issued
    BY DEF IInv, Typed, OneBodyPerId, Body
  <2>2. issued \in Nat
    BY DEF IInv, Typed
  <2>3. \A a \in InPlay : a.id[2] <= issued' /\ a.id # b.id
    BY <2>1, <2>2
  <2> QED
    BY <1>1, <2>2, <2>3 DEF IInv, OneBodyPerId
<1>4. \A u \in Sessions : SessionOK(session[u])'
  BY OthersStayOK DEF IInv, Typed, AlreadyRecorded
<1> QED
  BY <1>2, <1>3, <1>4 DEF IInv

LEMMA IssuePreserves ==
    ASSUME IInv, NEW c \in Subs, NEW kind \in Kinds,
           NEW household \in {"household", NoHousehold}, NEW ends \in Date \X Date,
           Issue(c, kind, household, ends),
           UNCHANGED <<processor, now, exists, row, ledger, session, acted, newest, inOrder>>,
           sub' \in [Subs -> [state : {"none", "open", "active", "ended"}, until : Nat]]
    PROVE  IInv'
<1> DEFINE b == [type |-> TypeOf[processor][kind], id |-> <<c, issued + 1>>,
                 household |-> household, ends |-> ends, amount |-> issued + 1, customer |-> c]
<1>1. processor \in Processor /\ issued \in Nat
  BY BillingAssumption DEF IInv, Typed
<1>2. TypeOf[processor][kind] \in Types
  BY <1>1 DEF Types
<1>3. b \in Body /\ b.id[2] = issued + 1
  BY <1>1, <1>2 DEF Body
<1>4. outbox' = outbox \cup {b} /\ issued' = issued + 1
  BY DEF Issue
<1> HIDE DEF b
<1> QED
  BY <1>3, <1>4, IssueStep

LEMMA ProcessorPreserves ==
    ASSUME IInv, NEW c \in Subs, Checkout(c) \/ Charge(c) \/ End(c) \/ Chatter(c)
    PROVE  IInv'
<1> DEFINE SubType == [Subs -> [state : {"none", "open", "active", "ended"}, until : Nat]]
<1>1. sub \in SubType /\ now \in Nat /\ Year \in Nat /\ NoDate \in Nat /\ Date = Nat
  BY BillingAssumption DEF IInv, Typed, NoDate, Date
<1>2. CASE Checkout(c)
  <2>1. sub' \in SubType
    BY <1>1, <1>2 DEF Checkout, StartCheckout
  <2>2. InPlay' = InPlay
    BY <1>2 DEF Checkout, InPlay, Handling
  <2>3. Typed' /\ OneBodyPerId'
    BY <1>2, <2>1, <2>2 DEF Checkout, IInv, Typed, OneBodyPerId, history
  <2>4. \A u \in Sessions : SessionOK(session[u])'
    BY <1>2, OthersStayOK DEF Checkout, IInv, Typed, AlreadyRecorded, history
  <2> QED
    BY <2>3, <2>4 DEF IInv
<1>3. CASE Charge(c)
  <2> DEFINE until == (IF sub[c].until > now THEN sub[c].until ELSE now) + Year
  <2>1. until \in Nat
    BY <1>1
  <2>2. sub' \in SubType /\ Issue(c, "paid", "household", <<until, NoDate>>)
    BY <1>1, <1>3, <2>1 DEF Charge
  <2> QED
    BY <1>1, <1>3, <2>1, <2>2, IssuePreserves DEF Charge, history, Kinds
<1>4. CASE End(c)
  <2>1. sub' \in SubType
    BY <1>1, <1>4 DEF End
  <2> QED
    BY <1>1, <1>4, <2>1, IssuePreserves DEF End, history, Kinds
<1>5. CASE Chatter(c)
  <2>1. sub[c].until \in Nat
    BY <1>1
  <2>2. PICK kind \in Kinds, household \in {"household", NoHousehold},
             ends \in Date \X Date : Issue(c, kind, household, ends)
    BY <1>1, <1>5, <2>1 DEF Chatter, Kinds
  <2> QED
    BY <1>1, <1>5, <2>2, IssuePreserves DEF Chatter, history
<1> QED
  BY <1>2, <1>3, <1>4, <1>5

(* Time passes, or the household goes: nothing unsettles. *)
LEMMA ClockPreserves ==
    ASSUME IInv, Tick \/ DeleteHousehold
    PROVE  IInv'
<1>1. /\ UNCHANGED <<processor, row, ledger, session, sub, outbox, issued, acted, newest, inOrder>>
      /\ now' \in Nat /\ now' >= now /\ now \in Nat /\ exists' \in BOOLEAN
      /\ ~exists => ~exists'
  <2>1. CASE Tick
    BY <2>1 DEF IInv, Typed, Tick, processorVars, history
  <2>2. CASE DeleteHousehold
    <3>1. now \in Nat /\ now' \in Nat /\ now' >= now
      BY <2>2 DEF IInv, Typed, DeleteHousehold
    <3>2. exists' = FALSE
      BY <2>2 DEF DeleteHousehold
    <3> QED
      BY <2>2, <3>1, <3>2 DEF DeleteHousehold, processorVars, history
  <2> QED
    BY <2>1, <2>2
<1>2. InPlay' = InPlay
  BY <1>1 DEF InPlay, Handling
<1>3. Typed'
  BY <1>1, <1>2 DEF IInv, Typed
<1>4. OneBodyPerId'
  BY <1>1, <1>2 DEF IInv, OneBodyPerId
<1>5. \A u \in Sessions : SessionOK(session[u])'
  BY <1>1, OthersStayOK DEF AlreadyRecorded
<1> QED
  BY <1>3, <1>4, <1>5 DEF IInv

-----------------------------------------------------------------------------
(* The steps of a session. *)
LEMMA AnswerShrinks ==
    ASSUME NEW body, Answer(body)
    PROVE  outbox' \subseteq outbox
BY DEF Answer

LEMMA ReceivePreserves ==
    ASSUME IInv, NEW s \in Sessions, Receive(s)
    PROVE  IInv'
<1>1. PICK body \in outbox, header \in Headers : Handle(s, body, header)
  BY DEF Receive
<1> DEFINE event == Parse(processor, body)
<1>2. body \in InPlay /\ body \in Body /\ processor \in Processor
  BY BillingAssumption DEF InPlay, IInv, Typed
<1>3. UNCHANGED <<processor, now, exists, row, ledger, sub, issued, commands, acted, newest, inOrder>>
  BY <1>1 DEF Handle, history
<1>4. outbox' \subseteq outbox
  BY <1>1, AnswerShrinks DEF Handle
<1>5. CASE AlreadyRecorded(event.id)
  <2>1. session' = session
    BY <1>1, <1>5 DEF Handle
  <2>2. SessionOK(session[s])'
    BY <1>3, <2>1, OthersStayOK DEF IInv, Typed, AlreadyRecorded
  <2>3. session'[s].phase \in {"act", "record"} => session'[s].body \in InPlay
    BY <2>1 DEF InPlay, Handling
  <2>4. session' = [session EXCEPT ![s] = session'[s]]
    BY <2>1 DEF IInv, Typed
  <2> QED
    BY <1>3, <1>4, <2>2, <2>3, <2>4, SessionStep DEF IInv, Typed, AlreadyRecorded
<1>6. CASE ~AlreadyRecorded(event.id)
  <2>1. session' = [session EXCEPT ![s] = Decide(event, body)]
    BY <1>1, <1>6 DEF Handle
  <2>2. session'[s] = Decide(event, body)
    BY <2>1 DEF IInv, Typed
  <2>3. /\ session'[s].phase \in {"act", "record"}
        /\ session'[s].body = body /\ session'[s].event = event
    BY <2>2 DEF Decide, ToRecord, ToAct
  <2>4. session'[s].phase = "act" =>
           /\ session'[s].loaded = row
           /\ event.action \in {"grant", "revoke"} /\ event.household # NoHousehold
           /\ event.action = "grant" => event.renewsAt # NoDate
    BY <1>2, <2>2, ParseTyped DEF Decide, ToRecord, ToAct
  <2>5. session'[s].phase = "record" =>
           \/ session'[s].outcome = "ignored" /\ event.action = "ignore"
           \/ session'[s].outcome = "orphan" /\ (event.household = NoHousehold \/ ~exists)
           \/ session'[s].outcome = "refused" /\ event.action = "grant" /\ event.renewsAt = NoDate
    BY <2>2 DEF Decide, ToRecord, ToAct
  <2>6. session'[s].phase = "act" => Actable(session[s])'
    BY <1>3, <1>6, <2>3, <2>4 DEF Actable, AlreadyRecorded
  <2>7. session'[s].phase = "record" => Deserved(session[s])'
    <3>1. NoDate <= now
      BY DEF IInv, Typed, NoDate
    <3> QED
      BY <1>3, <2>3, <2>5, <3>1 DEF Deserved, Outcomes
  <2>8. SessionOK(session[s])'
    BY <1>3, <2>3, <2>4, <2>6, <2>7 DEF SessionOK, IInv, Typed
  <2>9. session' = [session EXCEPT ![s] = session'[s]]
    BY <2>1, <2>2
  <2> QED
    BY <1>2, <1>3, <1>4, <2>3, <2>8, <2>9, SessionStep DEF IInv, Typed, AlreadyRecorded
<1> QED
  BY <1>5, <1>6

(* What Act leaves behind. *)
LEMMA ActEffect ==
    ASSUME IInv, NEW s \in Sessions, Act(s)
    PROVE  LET t == session[s]  event == t.event IN
           /\ t.phase = "act" /\ exists
           /\ t.event = Parse(processor, t.body) /\ t.loaded \in Row(Subs) /\ Actable(t)
           /\ t.body \in InPlay /\ t.body \in Body
           /\ session' = [session EXCEPT ![s] = session'[s]]
           /\ UNCHANGED <<processor, now, exists, ledger, sub, outbox, issued>>
           /\ \/ /\ event.action = "grant" /\ event.renewsAt <= now
                 /\ session'[s] = ToRecord(event, t.body, "refused")
                 /\ UNCHANGED <<row, acted, newest, inOrder>>
              \/ /\ event.action = "grant" => event.renewsAt > now
                 /\ session'[s] = ToRecord(event, t.body,
                                     IF event.action = "grant" THEN "granted" ELSE "revoked")
                 /\ row' = Emit(row, t.loaded, Applied(s))
                 /\ acted' = acted \cup {event.id}
                 /\ newest' = IF t.body.id[2] > newest THEN t.body.id[2] ELSE newest
                 /\ inOrder' = (inOrder /\ t.loaded = row /\ t.body.id[2] >= newest)
<1> DEFINE t == session[s]
           event == t.event
<1>1. t.phase = "act" /\ exists
  BY DEF Act
<1>2. SessionOK(t)
  BY DEF IInv
<1>3. t.event = Parse(processor, t.body) /\ t.loaded \in Row(Subs) /\ Actable(t)
  BY <1>1, <1>2 DEF SessionOK
<1>4. t.body \in InPlay /\ t.body \in Body
  BY <1>1 DEF InPlay, Handling, IInv, Typed
<1>5. UNCHANGED <<processor, now, exists, ledger, sub, outbox, issued>>
  BY DEF Act, processorVars
<1>6. event.renewsAt \in Nat /\ now \in Nat
  BY <1>3, <1>4, BillingAssumption, ParseTyped DEF IInv, Typed
<1>7. EventRefused(s) <=> event.action = "grant" /\ event.renewsAt <= now
  BY <1>3, <1>6 DEF EventRefused, GrantRefused, Actable
<1>8. CASE EventRefused(s)
  <2>1. session' = [session EXCEPT ![s] = ToRecord(event, t.body, "refused")]
    BY <1>8 DEF Act
  <2> QED
    BY <1>1, <1>3, <1>4, <1>5, <1>7, <1>8, <2>1 DEF Act, history, IInv, Typed
<1>9. CASE ~EventRefused(s)
  <2> DEFINE outcome == IF event.action = "grant" THEN "granted" ELSE "revoked"
  <2>1. session' = [session EXCEPT ![s] = ToRecord(event, t.body, outcome)]
    BY <1>9 DEF Act
  <2>2. session'[s] = ToRecord(event, t.body, outcome)
    BY <2>1 DEF IInv, Typed
  <2>3. event.action = "grant" => event.renewsAt > now
    BY <1>6, <1>7, <1>9
  <2>4. session' = [session EXCEPT ![s] = session'[s]]
    BY <2>1, <2>2
  <2> QED
    BY <1>1, <1>3, <1>4, <1>5, <1>9, <2>2, <2>3, <2>4 DEF Act
<1> QED
  BY <1>8, <1>9

LEMMA AppliedTyped ==
    ASSUME IInv, NEW s \in Sessions, session[s].phase = "act"
    PROVE  Applied(s) \in Row(Subs)
<1> DEFINE event == session[s].event
           loaded == session[s].loaded
<1>1. processor \in Processor /\ processor \in Source /\ Paid \in Tiers /\ OfferPrice \in Nat
  BY BillingAssumption DEF IInv, Typed, Source, Tiers
<1>2. loaded \in Row(Subs) /\ event = Parse(processor, session[s].body)
  BY DEF IInv, SessionOK
<1>3. session[s].body \in Body
  BY DEF IInv, Typed, InPlay, Handling
<1>4. event.renewsAt \in Nat /\ event.price \in Nat /\ event.customer \in Subs \cup {Nobody}
  BY <1>1, <1>2, <1>3, ParseTyped
<1>5. PriceFrom(event, loaded) \in Nat
  BY <1>1, <1>4 DEF PriceFrom, NoPrice
<1>6. Grant(loaded, Paid, event.renewsAt, processor, PriceFrom(event, loaded), event.customer) \in Row(Subs)
  BY <1>1, <1>2, <1>4, <1>5, GrantTyped
<1>7. Revoke(loaded) \in Row(Subs)
  BY <1>2, RevokeTyped
<1> QED
  BY <1>6, <1>7 DEF Applied

LEMMA ActPreserves ==
    ASSUME IInv, NEW s \in Sessions, Act(s)
    PROVE  IInv'
<1> DEFINE t == session[s]
           event == t.event
<1>1. /\ t.phase = "act"
      /\ event = Parse(processor, t.body) /\ t.loaded \in Row(Subs)
      /\ t.body \in InPlay /\ t.body \in Body
      /\ session' = [session EXCEPT ![s] = session'[s]]
      /\ UNCHANGED <<processor, now, exists, ledger, sub, outbox, issued>>
  BY ActEffect
<1>2. CASE /\ event.action = "grant" /\ event.renewsAt <= now
           /\ session'[s] = ToRecord(event, t.body, "refused")
           /\ UNCHANGED <<row, acted, newest, inOrder>>
  <2>1. SessionOK(session[s])'
    BY <1>1, <1>2 DEF SessionOK, Deserved, ToRecord, Outcomes
  <2>2. session'[s].phase \in {"act", "record"} => session'[s].body \in InPlay
    BY <1>1, <1>2 DEF ToRecord
  <2> QED
    BY <1>1, <1>2, <2>1, <2>2, SessionStep DEF IInv, Typed, AlreadyRecorded
<1>3. CASE /\ event.action = "grant" => event.renewsAt > now
           /\ session'[s] = ToRecord(event, t.body,
                               IF event.action = "grant" THEN "granted" ELSE "revoked")
           /\ row' = Emit(row, t.loaded, Applied(s))
           /\ acted' = acted \cup {event.id}
           /\ newest' = IF t.body.id[2] > newest THEN t.body.id[2] ELSE newest
           /\ inOrder' = (inOrder /\ t.loaded = row /\ t.body.id[2] >= newest)
  <2>1. SessionOK(session[s])'
    BY <1>1, <1>3 DEF SessionOK, Deserved, ToRecord, Outcomes
  <2>2. session'[s].phase \in {"act", "record"} => session'[s].body \in InPlay
    BY <1>1, <1>3 DEF ToRecord
  <2>3. row' \in Row(Subs)
    BY <1>1, <1>3, AppliedTyped, EmitTyped DEF IInv, Typed
  <2>4. newest' \in Nat
    BY <1>1, <1>3 DEF IInv, Typed, Body
  <2>5. inOrder' \in BOOLEAN
    BY <1>3
  <2> QED
    BY <1>1, <1>3, <2>1, <2>2, <2>3, <2>4, <2>5, SessionStep DEF IInv, Typed, AlreadyRecorded
<1> QED
  BY <1>2, <1>3, ActEffect

LEMMA RecordPreserves ==
    ASSUME IInv, NEW s \in Sessions, Record(s)
    PROVE  IInv'
<1> DEFINE t == session[s]
           event == t.event
           entry == [id |-> event.id, outcome |-> t.outcome]
<1>1. t.phase = "record" /\ event = Parse(processor, t.body) /\ Deserved(t)
  BY DEF Record, IInv, SessionOK
<1>2. t.body \in InPlay /\ t.body \in Body /\ processor \in Processor
  BY <1>1, BillingAssumption DEF InPlay, Handling, IInv, Typed
<1>3. /\ session' = [session EXCEPT ![s] = session'[s]] /\ session'[s] = Idle
      /\ UNCHANGED <<processor, now, exists, row, sub, issued, acted, newest, inOrder>>
  BY DEF Record, history, IInv, Typed
<1>4. outbox' \subseteq outbox
  BY AnswerShrinks DEF Record
<1>5. ledger' \subseteq ledger \cup {entry}
  BY DEF Record
<1>6. \A e \in ledger' : e.outcome \in Outcomes
  BY <1>1, <1>5 DEF IInv, Typed, Deserved
<1>7. SessionOK(session[s])' /\ session'[s].phase \notin {"act", "record"}
  BY <1>3 DEF SessionOK, Idle
<1>8. \A u \in Sessions \ {s} :
         /\ session[u].phase = "act"
         /\ \E e \in ledger' : e.id = session[u].event.id
         => AlreadyRecorded(session[u].event.id) \/ Settled(session[u].event)
  <2> SUFFICES ASSUME NEW u \in Sessions \ {s}, session[u].phase = "act",
                      event.id = session[u].event.id
               PROVE  Settled(session[u].event)
    BY <1>5 DEF AlreadyRecorded
  <2>1. session[u].event = Parse(processor, session[u].body) /\ Actable(session[u])
    BY DEF IInv, SessionOK
  <2>2. session[u].body \in InPlay /\ session[u].body \in Body
    BY DEF InPlay, Handling, IInv, Typed
  <2>3. event = session[u].event
    BY <1>1, <1>2, <2>1, <2>2, ParseTyped, SameEvent
  <2> QED
    BY <1>1, <2>1, <2>3 DEF Deserved, Actable, Settled, Outcomes
<1> QED
  BY <1>3, <1>4, <1>6, <1>7, <1>8, SessionStep DEF IInv, Typed

LEMMA CommandPreserves ==
    ASSUME IInv, NEW s \in Sessions, NEW command, Command(s, command)
    PROVE  IInv'
<1>1. session'[s].phase = "run" /\ session'[s].loaded = row
  BY DEF Command, IInv, Typed
<1>2. session' = [session EXCEPT ![s] = session'[s]]
  BY DEF Command, IInv, Typed
<1> QED
  BY <1>1, <1>2, PlainStep DEF Command, IInv, Typed, processorVars, history

LEMMA RunEffect ==
    ASSUME IInv, NEW s \in Sessions, Run(s)
    PROVE  /\ session[s].loaded \in Row(Subs)
           /\ \E changed \in Row(Subs) :
                 /\ row' = Emit(row, session[s].loaded, changed)
                 /\ changed.price = session[s].loaded.price
<1> DEFINE loaded == session[s].loaded
<1>1. loaded \in Row(Subs)
  BY DEF Run, IInv, SessionOK
<1>2. CASE session[s].command = "comp"
  <2> DEFINE changed == Grant(loaded, Unlimited, NoDate, Comp, NoPrice, Nobody)
  <2>1. changed \in Row(Subs)
    BY <1>1, GrantTyped DEF Tiers, NoDate, Source, NoPrice
  <2>2. changed.price = loaded.price
    BY <1>1 DEF Grant, ResetDunning, Row
  <2>3. row' = Emit(row, loaded, changed)
    BY <1>2 DEF Run
  <2> QED
    BY <1>1, <2>1, <2>2, <2>3
<1>3. CASE session[s].command = "extend"
  <2> DEFINE changed == Extend(loaded, Year, now)
  <2>1. changed \in Row(Subs)
    BY <1>1, BillingAssumption, ExtendTyped DEF IInv, Typed
  <2>2. changed.price = loaded.price
    BY <1>1 DEF Extend, ResetDunning, Row
  <2>3. row' = Emit(row, loaded, changed)
    BY <1>3 DEF Run
  <2> QED
    BY <1>1, <2>1, <2>2, <2>3
<1>4. CASE session[s].command \notin {"comp", "extend"}
  <2> DEFINE changed == Revoke(loaded)
  <2>1. changed \in Row(Subs)
    BY <1>1, RevokeTyped
  <2>2. changed.price = loaded.price
    BY <1>1 DEF Revoke, ResetDunning, Row
  <2>3. row' = Emit(row, loaded, changed)
    BY <1>4 DEF Run
  <2> QED
    BY <1>1, <2>1, <2>2, <2>3
<1> QED
  BY <1>2, <1>3, <1>4

LEMMA RunPreserves ==
    ASSUME IInv, NEW s \in Sessions, Run(s)
    PROVE  IInv'
<1>1. row' \in Row(Subs)
  BY RunEffect, EmitTyped DEF IInv, Typed
<1>2. session'[s] = Idle /\ session' = [session EXCEPT ![s] = session'[s]]
  BY DEF Run, IInv, Typed
<1> QED
  BY <1>1, <1>2, PlainStep DEF Run, processorVars, history

LEMMA EndPreserves ==
    ASSUME IInv, NEW s \in Sessions, FailUpdate(s) \/ Crash(s)
    PROVE  IInv'
<1>1. session'[s] = Idle /\ session' = [session EXCEPT ![s] = session'[s]]
  BY DEF FailUpdate, Crash, IInv, Typed
<1>2. UNCHANGED <<processor, now, exists, row, sub, outbox, issued, ledger, acted, newest, inOrder>>
  BY DEF FailUpdate, Crash, processorVars, history
<1> QED
  BY <1>1, <1>2, PlainStep DEF IInv, Typed

-----------------------------------------------------------------------------
LEMMA InitEstablishes == Init => IInv
<1> SUFFICES ASSUME Init PROVE IInv
  OBVIOUS
<1>1. NewRow \in Row(Subs)
  BY DEF NewRow, Row, Tiers, Free, NoDate, Date, Source, NoPrice
<1>2. InPlay = {}
  BY DEF Init, InPlay, Handling, Idle
<1>3. \A s \in Sessions : SessionOK(session[s])
  BY DEF Init, SessionOK, Idle
<1>4. sub \in [Subs -> [state : {"none", "open", "active", "ended"}, until : Nat]]
  BY DEF Init, NoDate
<1> QED
  BY <1>1, <1>2, <1>3, <1>4 DEF Init, IInv, Typed, OneBodyPerId

LEMMA NextPreserves == IInv /\ [Next]_vars => IInv'
<1> SUFFICES ASSUME IInv, [Next]_vars PROVE IInv'
  OBVIOUS
<1>1. ASSUME NEW c \in Subs, Checkout(c) \/ Charge(c) \/ End(c) \/ Chatter(c) PROVE IInv'
  BY <1>1, ProcessorPreserves
<1>2. ASSUME NEW s \in Sessions, Receive(s) PROVE IInv'
  BY <1>2, ReceivePreserves
<1>3. ASSUME NEW s \in Sessions, Act(s) PROVE IInv'
  BY <1>3, ActPreserves
<1>4. ASSUME NEW s \in Sessions, FailUpdate(s) \/ Crash(s) PROVE IInv'
  BY <1>4, EndPreserves
<1>5. ASSUME NEW s \in Sessions, Record(s) PROVE IInv'
  BY <1>5, RecordPreserves
<1>6. ASSUME NEW s \in Sessions, NEW command, Command(s, command) PROVE IInv'
  BY <1>6, CommandPreserves
<1>7. ASSUME NEW s \in Sessions, Run(s) PROVE IInv'
  BY <1>7, RunPreserves
<1>8. CASE Tick \/ DeleteHousehold
  BY <1>8, ClockPreserves
<1>9. CASE UNCHANGED vars
  <2>1. UNCHANGED <<processor, now, exists, row, ledger, session, sub, outbox, issued, acted, newest, inOrder>>
    BY <1>9 DEF vars, processorVars, history
  <2>2. InPlay' = InPlay
    BY <2>1 DEF InPlay, Handling
  <2>3. Typed' /\ OneBodyPerId'
    BY <2>1, <2>2 DEF IInv, Typed, OneBodyPerId
  <2>4. \A u \in Sessions : SessionOK(session[u])'
    BY <2>1, OthersStayOK DEF IInv, Typed, AlreadyRecorded
  <2> QED
    BY <2>3, <2>4 DEF IInv
<1> QED
  BY <1>1, <1>2, <1>3, <1>4, <1>5, <1>6, <1>7, <1>8, <1>9 DEF Next

(* Every column of the household, every session and every subscription has  *)
(* a value of its type, whatever is delivered and when (entitlements.grant, *)
(* revoke and extend, get_db).                                              *)
THEOREM TypeCorrect == Spec => []TypeOK
<1>1. Init => IInv
  BY InitEstablishes
<1>2. IInv /\ [Next]_vars => IInv'
  BY NextPreserves
<1>3. IInv => TypeOK
  BY DEF IInv, Typed, TypeOK, SessionOK, Deserved
<1> QED
  BY <1>1, <1>2, <1>3, PTL DEF Spec

-----------------------------------------------------------------------------
(* Each step on the ledger and on what took effect is one the ledger's      *)
(* promise allows.                                                          *)
LEMMA ActIsAct ==
    ASSUME IInv, NEW s \in Sessions, Act(s)
    PROVE  Ledger!Next \/ UNCHANGED <<acted, ledger>>
<1> DEFINE t == session[s]
           event == t.event
<1>1. /\ exists /\ Actable(t) /\ ledger' = ledger
      /\ \/ acted' = acted
         \/ acted' = acted \cup {event.id} /\ (event.action = "grant" => event.renewsAt > now)
  BY ActEffect
<1>2. event.renewsAt \in Nat /\ now \in Nat
  BY ActEffect, ParseTyped, BillingAssumption DEF IInv, Typed
<1>3. CASE acted' = acted
  BY <1>1, <1>3
<1>4. CASE acted' = acted \cup {event.id} /\ acted' # acted /\ (event.action = "grant" => event.renewsAt > now)
  <2>1. event.id \in acted' \ acted
    BY <1>4
  <2>2. ~Settled(event)
    BY <1>1, <1>2, <1>4, <2>1 DEF Settled
  <2>3. ~Ledger!Recorded(event.id)
    BY <1>1, <2>2 DEF Actable, AlreadyRecorded, Ledger!Recorded
  <2> QED
    BY <1>1, <1>4, <2>1, <2>3 DEF Ledger!Next, Ledger!Act
<1> QED
  BY <1>1, <1>3, <1>4

LEMMA RecordIsRecord ==
    ASSUME IInv, NEW s \in Sessions, Record(s)
    PROVE  Ledger!Next \/ UNCHANGED <<acted, ledger>>
<1> DEFINE t == session[s]
           entry == [id |-> t.event.id, outcome |-> t.outcome]
<1>1. Deserved(t) /\ acted' = acted
  BY DEF Record, IInv, SessionOK, history
<1>2. \/ ledger' = ledger
      \/ ledger' = ledger \cup {entry} /\ ~AlreadyRecorded(t.event.id)
  BY DEF Record
<1>3. CASE ledger' = ledger \cup {entry} /\ ~AlreadyRecorded(t.event.id)
  <2>1. ~Ledger!Recorded(entry.id) /\ entry \in ledger' \ ledger
    BY <1>3 DEF AlreadyRecorded, Ledger!Recorded
  <2>2. entry.outcome \in {"granted", "revoked"} => entry.id \in acted
    BY <1>1 DEF Deserved
  <2> QED
    BY <1>1, <1>3, <2>1, <2>2 DEF Ledger!Next, Ledger!Record
<1> QED
  BY <1>1, <1>2, <1>3

(* The detailed handling implements the ledger's promise: an event gets one *)
(* outcome, for good; it is recorded as granted or revoked only when it     *)
(* took effect; and once it has an outcome it does not take effect any more *)
(* (handle, _record), however many deliveries of however many events run    *)
(* at once, and whichever of them crash.                                    *)
THEOREM LedgerImplemented == Spec => LedgerSpec
<1>1. Init => Ledger!Init
  BY DEF Init, Ledger!Init
<1>2. IInv /\ [Next]_vars => [Ledger!Next]_<<acted, ledger>>
  <2> SUFFICES ASSUME IInv, [Next]_vars PROVE Ledger!Next \/ UNCHANGED <<acted, ledger>>
    OBVIOUS
  <2>1. ASSUME NEW s \in Sessions, Act(s) PROVE Ledger!Next \/ UNCHANGED <<acted, ledger>>
    BY <2>1, ActIsAct
  <2>2. ASSUME NEW s \in Sessions, Record(s) PROVE Ledger!Next \/ UNCHANGED <<acted, ledger>>
    BY <2>2, RecordIsRecord
  <2>3. ASSUME NEW c \in Subs, Checkout(c) \/ Charge(c) \/ End(c) \/ Chatter(c)
        PROVE  UNCHANGED <<acted, ledger>>
    BY <2>3 DEF Checkout, Charge, End, Chatter, history
  <2>4. ASSUME NEW s \in Sessions, NEW command,
               Receive(s) \/ FailUpdate(s) \/ Crash(s) \/ Command(s, command) \/ Run(s)
        PROVE  UNCHANGED <<acted, ledger>>
    BY <2>4 DEF Receive, Handle, FailUpdate, Crash, Command, Run, history
  <2>5. CASE Tick \/ DeleteHousehold \/ UNCHANGED vars
    BY <2>5 DEF Tick, DeleteHousehold, vars, history
  <2> QED
    BY <2>1, <2>2, <2>3, <2>4, <2>5 DEF Next
<1>3. Init => IInv
  BY InitEstablishes
<1>4. IInv /\ [Next]_vars => IInv'
  BY NextPreserves
<1> QED
  BY <1>1, <1>2, <1>3, <1>4, PTL DEF Spec, LedgerSpec, Ledger!Spec

-----------------------------------------------------------------------------
(* What one change of a row writes of the price: nothing, unless it differs *)
(* from the price that was loaded.                                          *)
LEMMA EmitKeepsPrice ==
    ASSUME NEW current \in Row(Subs), NEW loaded \in Row(Subs), NEW changed \in Row(Subs),
           changed.price = loaded.price
    PROVE  Emit(current, loaded, changed).price = current.price
BY DEF Emit, Row

(* The founding price is for life: whatever arrives later, the price on the *)
(* row stays as it was first set, unless two events of the household were   *)
(* handled at once (grant).  That no two were is what inOrder says.         *)
THEOREM FoundingPriceStays == Spec => FoundingPriceForLife
<1>1. Init => IInv
  BY InitEstablishes
<1>2. IInv /\ [Next]_vars => IInv'
  BY NextPreserves
<1>3. IInv /\ [Next]_vars => [row.price # NoPrice /\ inOrder' => row'.price = row.price]_vars
  <2> SUFFICES ASSUME IInv, [Next]_vars, row.price # NoPrice, inOrder'
               PROVE  row'.price = row.price
    OBVIOUS
  <2>1. ASSUME NEW s \in Sessions, Act(s) PROVE row'.price = row.price
    <3> DEFINE t == session[s]
    <3>1. t.phase = "act" /\ t.loaded \in Row(Subs)
      BY <2>1, ActEffect
    <3>2. \/ row' = row
          \/ row' = Emit(row, t.loaded, Applied(s)) /\ t.loaded = row
      BY <2>1, ActEffect
    <3>3. t.loaded = row => Applied(s).price = row.price
      BY <3>1 DEF Applied, Grant, Revoke, ResetDunning, Row
    <3> QED
      BY <3>1, <3>2, <3>3, AppliedTyped, EmitKeepsPrice DEF IInv, Typed
  <2>2. ASSUME NEW s \in Sessions, Run(s) PROVE row'.price = row.price
    BY <2>2, RunEffect, EmitKeepsPrice DEF IInv, Typed
  <2>3. ASSUME NEW c \in Subs, Checkout(c) \/ Charge(c) \/ End(c) \/ Chatter(c)
        PROVE  UNCHANGED row
    BY <2>3 DEF Checkout, Charge, End, Chatter
  <2>4. ASSUME NEW s \in Sessions, NEW command,
               Receive(s) \/ FailUpdate(s) \/ Record(s) \/ Crash(s) \/ Command(s, command)
        PROVE  UNCHANGED row
    BY <2>4 DEF Receive, Handle, FailUpdate, Record, Crash, Command
  <2>5. CASE Tick \/ DeleteHousehold \/ UNCHANGED vars
    BY <2>5 DEF Tick, DeleteHousehold, vars
  <2> QED
    BY <2>1, <2>2, <2>3, <2>4, <2>5 DEF Next
<1> QED
  BY <1>1, <1>2, <1>3, PTL DEF Spec, FoundingPriceForLife

-----------------------------------------------------------------------------
(* Credit.  Of what the processor has said about a subscription, the last    *)
(* word that counts is still to be delivered or is on the ledger; on the     *)
(* ledger it is settled; and once it took effect, nothing older may any more *)
(* without spoiling the order.                                               *)

Effective(a) ==
    /\ a.household # NoHousehold
    /\ Action(processor, a.type) # "ignore"
    /\ Action(processor, a.type) = "grant" => PeriodEnd(processor, a.ends) # NoDate

Numbered(a) == a.id = <<a.customer, a.amount>>
Number(id) == IF processor = "lemonsqueezy" THEN id.amount ELSE id[2]
Id(b) == EventId(processor, b)

Running(c) == sub[c].state \in {"active", "ended"}
Alone(c) == \A d \in Subs \ {c} : sub[d].state \in {"none", "open"}

(* b is what the processor said last about c *)
LastWord(c, b) ==
    /\ b \in Body /\ Numbered(b) /\ b.id[1] = c /\ b.household = "household"
    /\ sub[c].state = "active" =>
          /\ Action(processor, b.type) = "grant"
          /\ PeriodEnd(processor, b.ends) = sub[c].until /\ sub[c].until # NoDate
    /\ sub[c].state # "active" => Action(processor, b.type) = "revoke"

AsPaid(c) ==
    /\ sub[c].state = "active" => row.tier = Paid /\ row.until = sub[c].until
    /\ sub[c].state # "active" => row.tier = Free /\ row.until = NoDate

Honoured(c, b) ==
    /\ b.id[2] <= issued
    /\ \A a \in InPlay : a.id = b.id => a = b
    /\ \A a \in InPlay : Effective(a) /\ a.id[1] = c => a = b \/ a.id[2] < b.id[2]
    /\ b \in outbox \/ AlreadyRecorded(Id(b))
    /\ AlreadyRecorded(Id(b)) => Settled(Parse(processor, b))
    /\ Id(b) \in acted /\ inOrder /\ commands = 0 /\ Alone(c) =>
          b.id[2] <= newest /\ AsPaid(c)

CInv ==
    /\ commands \in Nat
    /\ \A s \in Sessions : session[s].phase = "run" => commands > 0
    /\ \A a \in InPlay : Numbered(a) /\ Running(a.id[1])
    /\ \A id \in acted : Number(id) \in 0..issued
    /\ \A entry \in ledger : Number(entry.id) \in 0..issued
    /\ \A c \in Subs : Running(c) => \E b : LastWord(c, b) /\ Honoured(c, b)

(* The id under which an event is kept names the event. *)
LEMMA IdsDiffer ==
    ASSUME NEW a \in Body, NEW b \in Body, Numbered(a), Numbered(b), Id(a) = Id(b)
    PROVE  a.id = b.id
<1>1. CASE processor = "lemonsqueezy"
  <2>1. [a EXCEPT !.id = NoId] = [b EXCEPT !.id = NoId]
    BY <1>1 DEF Id, EventId
  <2>2. a.customer = b.customer /\ a.amount = b.amount
    BY <2>1 DEF Body
  <2> QED
    BY <2>2 DEF Numbered
<1>2. CASE processor # "lemonsqueezy"
  BY <1>2 DEF Id, EventId
<1> QED
  BY <1>1, <1>2

LEMMA IdNumber ==
    ASSUME NEW a \in Body, Numbered(a)
    PROVE  Number(Id(a)) = a.id[2]
BY DEF Number, Id, EventId, Numbered, Body

LEMMA StaysSettled ==
    ASSUME IInv, NEW b \in Body, Settled(Parse(processor, b)), processor' = processor,
           now' \in Nat, now' >= now, ~exists => ~exists', acted \subseteq acted'
    PROVE  Settled(Parse(processor, b))'
<1>1. Parse(processor, b).renewsAt \in Nat /\ now \in Nat
  BY ParseTyped, BillingAssumption DEF IInv, Typed
<1>2. PICK event : event = Parse(processor, b)  OBVIOUS
<1>3. Settled(event)'
  BY <1>1, <1>2 DEF Settled
<1> QED
  BY <1>2, <1>3 DEF Settled

(* Steps of this server: it answers only what it has recorded, and records   *)
(* only what is settled.                                                     *)
LEMMA CreditStep ==
    ASSUME IInv, CInv, UNCHANGED <<processor, issued>>, now' \in Nat, now' >= now,
           ~exists => ~exists', InPlay' \subseteq InPlay, acted \subseteq acted',
           \A d \in Subs : sub'[d] = sub[d] \/
               (sub[d].state \in {"none", "open"} /\ sub'[d].state \in {"none", "open"}),
           \A b \in outbox : b \notin outbox' => \E entry \in ledger' : entry.id = Id(b),
           ledger \subseteq ledger',
           \A entry \in ledger' : entry \notin ledger =>
               \E a \in InPlay : entry.id = Id(a)
                                 /\ (Effective(a) => Settled(Parse(processor, a))),
           \A id \in acted' : id \notin acted => \E a \in InPlay : id = Id(a),
           commands' \in Nat, \A s \in Sessions : session'[s].phase = "run" => commands' > 0,
           \A c \in Subs : \A b : LastWord(c, b) /\ Honoured(c, b) /\ Running(c) =>
               (Id(b) \in acted' /\ inOrder' /\ commands' = 0 /\ Alone(c) =>
                    b.id[2] <= newest' /\ AsPaid(c)')
    PROVE  CInv'
<1>1. /\ \A d \in Subs : Running(d)' <=> Running(d)
      /\ \A d \in Subs : Running(d) => sub'[d] = sub[d]
      /\ \A d \in Subs : Alone(d)' <=> Alone(d)
  BY DEF Running, Alone
<1>2. \A a \in InPlay : a \in Body /\ a.id[1] \in Subs /\ Numbered(a) /\ Number(Id(a)) \in 0..issued
  BY IdNumber DEF IInv, Typed, OneBodyPerId, CInv, Body
<1>3. \A a \in InPlay' : Numbered(a)' /\ Running(a.id[1])'
  BY <1>1, <1>2 DEF CInv, Numbered
<1>4. \A id \in acted' : Number(id)' \in 0..issued'
  BY <1>2 DEF CInv, Number
<1>5. \A entry \in ledger' : Number(entry.id)' \in 0..issued'
  BY <1>2 DEF CInv, Number
<1>6. ASSUME NEW c \in Subs, Running(c)'
      PROVE  \E b : LastWord(c, b)' /\ Honoured(c, b)'
  <2>1. PICK b : LastWord(c, b) /\ Honoured(c, b)
    BY <1>1, <1>6 DEF CInv
  <2>2. LastWord(c, b)' /\ b \in Body
    BY <1>1, <1>6, <2>1 DEF LastWord, Numbered
  <2>3. Effective(b)
    BY <2>1 DEF LastWord, Effective, NoHousehold
  <2>4. Id(b)' = Id(b)  BY DEF Id
  <2>5. b \in outbox' \/ AlreadyRecorded(Id(b))'
    BY <2>1, <2>4 DEF Honoured, AlreadyRecorded
  <2>6. AlreadyRecorded(Id(b))' => Settled(Parse(processor, b))'
    <3> SUFFICES ASSUME NEW entry \in ledger', entry.id = Id(b)
                 PROVE  Settled(Parse(processor, b))
      BY <2>2, <2>4, StaysSettled DEF AlreadyRecorded
    <3>1. CASE entry \in ledger
      BY <2>1, <3>1 DEF Honoured, AlreadyRecorded
    <3>2. CASE entry \notin ledger
      <4>1. PICK a \in InPlay : entry.id = Id(a) /\ (Effective(a) => Settled(Parse(processor, a)))
        BY <3>2
      <4>2. a.id = b.id
        BY <1>2, <2>1, <4>1, IdsDiffer DEF LastWord
      <4>3. a = b
        BY <2>1, <4>2 DEF Honoured
      <4> QED
        BY <2>3, <4>1, <4>3
    <3> QED
      BY <3>1, <3>2
  <2>7. b.id[2] <= issued' /\ (\A a \in InPlay' : a.id = b.id => a = b)
    BY <2>1 DEF Honoured
  <2>8. \A a \in InPlay' : Effective(a)' /\ a.id[1] = c => a = b \/ a.id[2] < b.id[2]
    BY <2>1 DEF Honoured, Effective
  <2>9. Id(b)' \in acted' /\ inOrder' /\ commands' = 0 /\ Alone(c)' => b.id[2] <= newest' /\ AsPaid(c)'
    BY <1>1, <1>6, <2>1, <2>4
  <2> QED
    BY <2>2, <2>5, <2>6, <2>7, <2>8, <2>9 DEF Honoured
<1> QED
  BY <1>3, <1>4, <1>5, <1>6 DEF CInv

(* Steps that touch neither the ledger nor the row. *)
LEMMA QuietCredit ==
    ASSUME IInv, CInv, UNCHANGED <<processor, issued, sub, outbox, row, ledger, acted, newest, inOrder>>,
           now' \in Nat, now' >= now, ~exists => ~exists', InPlay' \subseteq InPlay,
           commands' \in Nat, commands' >= commands,
           \A s \in Sessions : session'[s].phase = "run" => commands' > 0
    PROVE  CInv'
<1>1. \A c \in Subs : \A b : LastWord(c, b) /\ Honoured(c, b) /\ Running(c) =>
         (Id(b) \in acted' /\ inOrder' /\ commands' = 0 /\ Alone(c) =>
              b.id[2] <= newest' /\ AsPaid(c)')
  <2>1. commands \in Nat  BY DEF CInv
  <2> QED  BY <2>1 DEF Honoured, AsPaid
<1> QED
  BY <1>1, CreditStep

LEMMA AnswerTakes ==
    ASSUME NEW body, Answer(body)
    PROVE  outbox' \subseteq outbox /\ \A b \in outbox : b \notin outbox' => b = body
BY DEF Answer

LEMMA ReceiveCredit ==
    ASSUME IInv, IInv', CInv, NEW s \in Sessions, Receive(s)
    PROVE  CInv'
<1>1. PICK body \in outbox, header \in Headers : Handle(s, body, header)
  BY DEF Receive
<1> DEFINE event == Parse(processor, body)
<1>2. body \in InPlay /\ event.id = Id(body)
  BY DEF InPlay, Parse, Id
<1>3. /\ UNCHANGED <<processor, now, exists, row, ledger, sub, issued, commands, acted, newest, inOrder>>
      /\ now' \in Nat /\ now' >= now /\ commands' \in Nat
  BY <1>1 DEF Handle, history, IInv, Typed, CInv
<1>4. /\ outbox' \subseteq outbox
      /\ \A b \in outbox : b \notin outbox' => b = body /\ AlreadyRecorded(Id(body))
  BY <1>1, <1>2, AnswerTakes DEF Handle
<1>5. /\ session' = session \/ session' = [session EXCEPT ![s] = Decide(event, body)]
      /\ session' = session \/ (session'[s].phase \in {"act", "record"} /\ session'[s].body = body)
      /\ \A u \in Sessions : u # s => session'[u] = session[u]
  BY <1>1 DEF Handle, Decide, ToRecord, ToAct, IInv, Typed
<1>6. InPlay' \subseteq InPlay
  BY <1>2, <1>4, <1>5 DEF InPlay, Handling
<1>7. \A u \in Sessions : session'[u].phase = "run" => commands' > 0
  BY <1>3, <1>5 DEF CInv
<1>8. \A b \in outbox : b \notin outbox' => \E entry \in ledger' : entry.id = Id(b)
  BY <1>3, <1>4 DEF AlreadyRecorded
<1>9. \A c \in Subs : \A b : LastWord(c, b) /\ Honoured(c, b) /\ Running(c) =>
         (Id(b) \in acted' /\ inOrder' /\ commands' = 0 /\ Alone(c) =>
              b.id[2] <= newest' /\ AsPaid(c)')
  BY <1>3 DEF Honoured, AsPaid
<1> QED
  BY <1>3, <1>6, <1>7, <1>8, <1>9, CreditStep

LEMMA RecordCredit ==
    ASSUME IInv, IInv', CInv, NEW s \in Sessions, Record(s)
    PROVE  CInv'
<1> DEFINE t == session[s]
           event == t.event
           entry == [id |-> event.id, outcome |-> t.outcome]
<1>1. t.phase = "record" /\ event = Parse(processor, t.body) /\ Deserved(t)
  BY DEF Record, IInv, SessionOK
<1>2. t.body \in InPlay /\ event.id = Id(t.body)
  BY <1>1 DEF InPlay, Handling, Parse, Id
<1>3. /\ UNCHANGED <<processor, now, exists, row, sub, issued, commands, acted, newest, inOrder>>
      /\ now' \in Nat /\ now' >= now /\ commands' \in Nat
  BY DEF Record, history, IInv, Typed, CInv
<1>4. /\ session'[s].phase = "idle" /\ \A u \in Sessions : u # s => session'[u] = session[u]
  BY DEF Record, Idle, IInv, Typed
<1>5. \/ ledger' = ledger /\ outbox' = outbox
      \/ /\ \A b \in outbox : b \notin outbox' => b = t.body
         /\ outbox' \subseteq outbox
         /\ \/ ledger' = ledger /\ AlreadyRecorded(event.id)
            \/ ledger' = ledger \cup {entry}
  BY AnswerTakes DEF Record
<1>6. InPlay' \subseteq InPlay
  BY <1>4, <1>5 DEF InPlay, Handling
<1>7. \A u \in Sessions : session'[u].phase = "run" => commands' > 0
  BY <1>3, <1>4 DEF CInv
<1>8. \A b \in outbox : b \notin outbox' => \E e \in ledger' : e.id = Id(b)
  BY <1>2, <1>5 DEF AlreadyRecorded
<1>9. Effective(t.body) => Settled(event)
  BY <1>1 DEF Deserved, Settled, Effective, Outcomes, Parse
<1>10. \A e \in ledger' : e \notin ledger =>
          \E a \in InPlay : e.id = Id(a) /\ (Effective(a) => Settled(Parse(processor, a)))
  BY <1>1, <1>2, <1>5, <1>9
<1>11. \A c \in Subs : \A b : LastWord(c, b) /\ Honoured(c, b) /\ Running(c) =>
         (Id(b) \in acted' /\ inOrder' /\ commands' = 0 /\ Alone(c) =>
              b.id[2] <= newest' /\ AsPaid(c)')
  BY <1>3 DEF Honoured, AsPaid
<1>12. ledger \subseteq ledger'
  BY <1>5
<1> QED
  BY <1>3, <1>6, <1>7, <1>8, <1>10, <1>11, <1>12, CreditStep

(* What a payment or an end writes on the row it has read. *)
LEMMA AppliedAsSaid ==
    ASSUME IInv, NEW s \in Sessions, session[s].phase = "act", session[s].loaded = row,
           NEW c \in Subs, LastWord(c, session[s].body),
           row' = Emit(row, session[s].loaded, Applied(s)), sub' = sub
    PROVE  AsPaid(c)'
<1> DEFINE b == session[s].body
           event == session[s].event
<1>1. event = Parse(processor, b) /\ row \in Row(Subs)
  BY DEF IInv, SessionOK, Typed
<1>2. /\ event.action = Action(processor, b.type)
      /\ event.renewsAt = PeriodEnd(processor, b.ends)
  BY <1>1 DEF Parse
<1>3. Applied(s) \in Row(Subs)
  BY AppliedTyped
<1>4. row'.tier = Applied(s).tier /\ row'.until = Applied(s).until
  BY <1>1, <1>3 DEF Emit, Row
<1>5. CASE sub[c].state = "active"
  <2>1. event.action = "grant" /\ event.renewsAt = sub[c].until
    BY <1>2, <1>5 DEF LastWord
  <2>2. Applied(s) = Grant(row, Paid, event.renewsAt, processor, PriceFrom(event, row), event.customer)
    BY <2>1 DEF Applied
  <2>3. Applied(s).tier = Paid /\ Applied(s).until = event.renewsAt
    BY <1>1, <2>2 DEF Grant, ResetDunning, Row
  <2> QED
    BY <1>4, <1>5, <2>1, <2>3 DEF AsPaid
<1>6. CASE sub[c].state # "active"
  <2>1. event.action = "revoke"
    BY <1>2, <1>6 DEF LastWord
  <2>2. Applied(s) = Revoke(row)
    BY <2>1 DEF Applied
  <2>3. Applied(s).tier = Free /\ Applied(s).until = NoDate
    BY <1>1, <2>2 DEF Revoke, ResetDunning, Row
  <2> QED
    BY <1>4, <1>6, <2>3 DEF AsPaid
<1> QED
  BY <1>5, <1>6

LEMMA ActCredit ==
    ASSUME IInv, IInv', CInv, NEW s \in Sessions, Act(s)
    PROVE  CInv'
<1>1. PICK t : t = session[s]  OBVIOUS
<1>2. PICK a : a = t.body  OBVIOUS
<1>3. /\ t.phase = "act" /\ t.event = Parse(processor, a) /\ Actable(t)
      /\ a \in InPlay /\ a \in Body
      /\ UNCHANGED <<processor, now, exists, ledger, sub, outbox, issued>>
  BY <1>1, <1>2, ActEffect
<1>4. \/ UNCHANGED <<row, acted, newest, inOrder>>
      \/ /\ row' = Emit(row, t.loaded, Applied(s))
         /\ acted' = acted \cup {t.event.id}
         /\ newest' = IF a.id[2] > newest THEN a.id[2] ELSE newest
         /\ inOrder' = (inOrder /\ t.loaded = row /\ a.id[2] >= newest)
  BY <1>1, <1>2, ActEffect
<1>5. session'[s].phase = "record" /\ session'[s].body = a
  <2>1. \/ session'[s] = ToRecord(t.event, a, "refused")
        \/ session'[s] = ToRecord(t.event, a, IF t.event.action = "grant" THEN "granted" ELSE "revoked")
    BY <1>1, <1>2, ActEffect
  <2> QED
    BY <2>1 DEF ToRecord
<1>6. \A u \in Sessions : u # s => session'[u] = session[u]
  BY DEF Act, IInv, Typed
<1>7. InPlay' \subseteq InPlay
  BY <1>3, <1>5, <1>6 DEF InPlay, Handling
<1>8. commands' = commands /\ commands' \in Nat
  BY DEF Act, counters, CInv
<1>9. \A u \in Sessions : session'[u].phase = "run" => commands' > 0
  BY <1>5, <1>6, <1>8 DEF CInv
<1>10. t.event.id = Id(a) /\ Effective(a)
  BY <1>3 DEF Parse, Id, Effective, Actable
<1>11. now' \in Nat /\ now' >= now
  BY <1>3 DEF IInv, Typed
<1>12. ASSUME NEW c \in Subs, NEW b, LastWord(c, b), Honoured(c, b), Running(c),
              Id(b) \in acted', inOrder', commands' = 0, Alone(c)
       PROVE  b.id[2] <= newest' /\ AsPaid(c)'
  <2>1. CASE UNCHANGED <<row, acted, newest, inOrder>>
    BY <1>3, <1>8, <1>12, <2>1 DEF Honoured, AsPaid
  <2>2. CASE /\ row' = Emit(row, t.loaded, Applied(s))
             /\ acted' = acted \cup {t.event.id}
             /\ newest' = IF a.id[2] > newest THEN a.id[2] ELSE newest
             /\ inOrder' = (inOrder /\ t.loaded = row /\ a.id[2] >= newest)
    <3>1. inOrder /\ t.loaded = row /\ a.id[2] >= newest
      BY <1>12, <2>2
    <3>2. a.id[1] \in Subs /\ a.id[2] \in Nat /\ b.id[2] \in Nat /\ newest \in Nat
      BY <1>3, <1>12 DEF Body, LastWord, IInv, Typed
    <3>3. a.id[1] = c
      BY <1>3, <1>12, <3>2 DEF CInv, Running, Alone
    <3>4. a = b \/ a.id[2] < b.id[2]
      BY <1>3, <1>10, <1>12, <3>3 DEF Honoured
    <3>5. CASE a = b
      <4>1. AsPaid(c)'
        BY <1>1, <1>2, <1>3, <1>12, <2>2, <3>1, <3>5, AppliedAsSaid
      <4>2. b.id[2] <= newest'
        BY <2>2, <3>2, <3>5
      <4> QED
        BY <4>1, <4>2
    <3>6. CASE a.id[2] < b.id[2]
      <4>1. a.id # b.id
        BY <3>2, <3>6
      <4>2. Numbered(a) /\ Numbered(b) /\ b \in Body
        BY <1>3, <1>12 DEF CInv, LastWord
      <4>3. Id(a) # Id(b)
        BY <1>3, <4>1, <4>2, IdsDiffer
      <4>4. b.id[2] <= newest
        BY <1>8, <1>10, <1>12, <2>2, <3>1, <4>3 DEF Honoured
      <4> QED
        BY <3>1, <3>2, <3>6, <4>4
    <3> QED
      BY <3>4, <3>5, <3>6
  <2> QED
    BY <1>4, <2>1, <2>2
<1>13. acted \subseteq acted' /\ \A id \in acted' : id \notin acted => \E d \in InPlay : id = Id(d)
  BY <1>3, <1>4, <1>10
<1>14. \A c \in Subs : \A b : LastWord(c, b) /\ Honoured(c, b) /\ Running(c) =>
          (Id(b) \in acted' /\ inOrder' /\ commands' = 0 /\ Alone(c) =>
               b.id[2] <= newest' /\ AsPaid(c)')
  BY <1>12
<1> QED
  BY <1>3, <1>7, <1>8, <1>9, <1>11, <1>13, <1>14, CreditStep

(* The processor speaks: either this is its new last word about c, or it is  *)
(* nothing that counts.                                                      *)
LEMMA IssueCredit ==
    ASSUME IInv, IInv', CInv, NEW c \in Subs, NEW n \in Body, Numbered(n), n.id = <<c, issued + 1>>,
           outbox' = outbox \cup {n}, issued' = issued + 1,
           UNCHANGED <<processor, now, exists, row, ledger, session, acted, newest, inOrder, commands>>,
           \A d \in Subs : d # c => sub'[d] = sub[d], Running(c)',
           LastWord(c, n)' \/ (sub' = sub /\ ~Effective(n))
    PROVE  CInv'
<1>1. InPlay' = InPlay \cup {n}
  BY DEF InPlay, Handling
<1>2. issued \in Nat /\ issued' \in Nat /\ n.id[2] = issued + 1 /\ n.id[1] = c
  BY DEF IInv, Typed
<1>3. \A a \in InPlay : a \in Body /\ a.id[1] \in Subs /\ a.id[2] \in Nat /\ a.id[2] <= issued
  BY DEF IInv, Typed, OneBodyPerId, Body
<1>4. \A a \in InPlay' : Numbered(a)' /\ Running(a.id[1])'
  BY <1>1, <1>2, <1>3 DEF CInv, Numbered, Running
<1>5. Number(Id(n)) = issued + 1
  BY <1>2, IdNumber
<1>6. ~AlreadyRecorded(Id(n)) /\ Id(n) \notin acted
  BY <1>2, <1>5 DEF CInv, AlreadyRecorded
<1>7. /\ \A id \in acted' : Number(id)' \in 0..issued'
      /\ \A entry \in ledger' : Number(entry.id)' \in 0..issued'
  <2>1. \A id \in acted : Number(id)' = Number(id)  BY DEF Number
  <2>2. \A x \in 0..issued : x \in 0..(issued + 1)
    BY <1>2
  <2>3. \A entry \in ledger : Number(entry.id)' = Number(entry.id)  BY DEF Number
  <2> QED  BY <2>1, <2>2, <2>3 DEF CInv
<1>8. ASSUME NEW d \in Subs, Running(d)'
      PROVE  \E b : LastWord(d, b)' /\ Honoured(d, b)'
  <2>1. CASE d = c /\ LastWord(c, n)'
    <3>1. Honoured(c, n)'
      <4>1. n.id[2] <= issued' /\ n \in outbox'
        BY <1>2
      <4>2. \A a \in InPlay' : a.id = n.id => a = n
        BY <1>1, <1>2, <1>3
      <4>3. \A a \in InPlay' : a = n \/ a.id[2] < n.id[2]
        BY <1>1, <1>2, <1>3
      <4>4. ~AlreadyRecorded(Id(n))' /\ Id(n)' \notin acted'
        BY <1>6 DEF AlreadyRecorded, Id
      <4> QED
        BY <4>1, <4>2, <4>3, <4>4 DEF Honoured
    <3> QED
      BY <2>1, <3>1
  <2>2. CASE d # c \/ (sub' = sub /\ ~Effective(n))
    <3>1. sub'[d] = sub[d]
      BY <2>2
    <3>2. PICK b : LastWord(d, b) /\ Honoured(d, b)
      BY <1>8, <3>1 DEF CInv, Running
    <3>3. LastWord(d, b)'
      BY <3>1, <3>2 DEF LastWord, Numbered
    <3>4. b.id[2] \in Nat /\ b.id[2] <= issued /\ b.id # n.id
      BY <1>2, <3>2 DEF Honoured, LastWord, Body
    <3>5. b.id[2] <= issued' /\ \A a \in InPlay' : a.id = b.id => a = b
      BY <1>1, <1>2, <3>2, <3>4 DEF Honoured
    <3>6. \A a \in InPlay' : Effective(a)' /\ a.id[1] = d => a = b \/ a.id[2] < b.id[2]
      BY <1>1, <1>2, <2>2, <3>2 DEF Honoured, Effective
    <3>7. b \in outbox' \/ AlreadyRecorded(Id(b))'
      BY <3>2 DEF Honoured, AlreadyRecorded, Id
    <3>8. AlreadyRecorded(Id(b))' => Settled(Parse(processor, b))'
      BY <3>2 DEF Honoured, AlreadyRecorded, Id, Settled
    <3>9. Alone(d)' => Alone(d) \/ d # c
      BY <2>2 DEF Alone
    <3>10. d # c => ~Alone(d)'
      BY DEF Alone, Running
    <3>11. Id(b)' \in acted' /\ inOrder' /\ commands' = 0 /\ Alone(d)' => b.id[2] <= newest' /\ AsPaid(d)'
      BY <3>1, <3>2, <3>9, <3>10 DEF Honoured, AsPaid, Id
    <3> QED
      BY <3>3, <3>5, <3>6, <3>7, <3>8, <3>11 DEF Honoured
  <2> QED
    BY <2>1, <2>2
<1> QED
  BY <1>4, <1>7, <1>8 DEF CInv

(* The types of the three processors mean what the model takes them for. *)
LEMMA KindsMean ==
    ASSUME NEW p \in Processor
    PROVE  /\ Action(p, TypeOf[p]["paid"]) = "grant"
           /\ Action(p, TypeOf[p]["ended"]) = "revoke"
           /\ Action(p, TypeOf[p]["other"]) = "ignore"
<1>1. CASE p = "paddle"
  BY <1>1 DEF Action, TypeOf, Grants, Revokes
<1>2. CASE p = "stripe"
  BY <1>2 DEF Action, TypeOf, Grants, Revokes
<1>3. CASE p = "lemonsqueezy"
  BY <1>3 DEF Action, TypeOf, Grants, Revokes
<1> QED
  BY <1>1, <1>2, <1>3 DEF Processor

LEMMA ProcessorCredit ==
    ASSUME IInv, IInv', CInv, NEW c \in Subs, Checkout(c) \/ Charge(c) \/ End(c) \/ Chatter(c)
    PROVE  CInv'
<1>1. /\ sub \in [Subs -> [state : {"none", "open", "active", "ended"}, until : Nat]]
      /\ now \in Nat /\ Year \in Nat /\ Year > 0 /\ NoDate = 0 /\ Date = Nat /\ issued \in Nat
      /\ processor \in Processor
  BY BillingAssumption DEF IInv, Typed, NoDate, Date
<1>2. CASE Checkout(c)
  <2>1. /\ UNCHANGED <<processor, now, exists, row, ledger, session, outbox, issued, acted, newest, inOrder, commands>>
        /\ \A d \in Subs : sub'[d] = sub[d] \/
               (sub[d].state \in {"none", "open"} /\ sub'[d].state \in {"none", "open"})
    BY <1>1, <1>2 DEF Checkout, StartCheckout, history, counters
  <2>2. InPlay' = InPlay
    BY <2>1 DEF InPlay, Handling
  <2>3. \A s \in Sessions : session'[s].phase = "run" => commands' > 0
    BY <2>1 DEF CInv
  <2>4. ASSUME NEW d \in Subs, NEW b, LastWord(d, b), Honoured(d, b), Running(d),
               Id(b) \in acted', inOrder', commands' = 0, Alone(d)
        PROVE  b.id[2] <= newest' /\ AsPaid(d)'
    <3>1. sub'[d] = sub[d]
      BY <2>1, <2>4 DEF Running
    <3> QED
      BY <2>1, <2>4, <3>1 DEF Honoured, AsPaid
  <2>5. commands' \in Nat /\ now' \in Nat /\ now' >= now
    BY <1>1, <2>1 DEF CInv
  <2>6. \A d \in Subs : \A b : LastWord(d, b) /\ Honoured(d, b) /\ Running(d) =>
          (Id(b) \in acted' /\ inOrder' /\ commands' = 0 /\ Alone(d) =>
               b.id[2] <= newest' /\ AsPaid(d)')
    BY <2>4
  <2> QED
    BY <2>1, <2>2, <2>3, <2>5, <2>6, CreditStep
<1> DEFINE body(kind, household, ends) ==
               [type |-> TypeOf[processor][kind], id |-> <<c, issued + 1>>, household |-> household,
                ends |-> ends, amount |-> issued + 1, customer |-> c]
<1>3. ASSUME NEW kind \in Kinds, NEW household \in {"household", NoHousehold},
             NEW ends \in Date \X Date, Issue(c, kind, household, ends),
             NEW n, n = body(kind, household, ends)
      PROVE  /\ n \in Body /\ Numbered(n) /\ n.id = <<c, issued + 1>>
             /\ n.household = household /\ n.ends = ends
             /\ outbox' = outbox \cup {n} /\ issued' = issued + 1
             /\ Action(processor, n.type) =
                   CASE kind = "paid" -> "grant" [] kind = "ended" -> "revoke" [] OTHER -> "ignore"
  <2>1. TypeOf[processor][kind] \in Types
    BY <1>1 DEF Types
  <2>2. n \in Body
    BY <1>1, <1>3, <2>1 DEF Body
  <2>3. Action(processor, n.type) =
           CASE kind = "paid" -> "grant" [] kind = "ended" -> "revoke" [] OTHER -> "ignore"
    BY <1>1, <1>3, KindsMean DEF Kinds
  <2>4. outbox' = outbox \cup {n} /\ issued' = issued + 1
    BY <1>3 DEF Issue
  <2> QED
    BY <1>3, <2>2, <2>3, <2>4 DEF Numbered
<1>4. ASSUME Charge(c) \/ End(c) \/ Chatter(c)
      PROVE  /\ UNCHANGED <<processor, now, exists, row, ledger, session, acted, newest, inOrder, commands>>
             /\ \A d \in Subs : d # c => sub'[d] = sub[d]
             /\ Running(c)'
  BY <1>1, <1>4 DEF Charge, End, Chatter, history, counters, Running
<1> HIDE DEF body
<1>5. CASE Charge(c)
  <2> DEFINE until == (IF sub[c].until > now THEN sub[c].until ELSE now) + Year
  <2>1. until \in Nat /\ until # NoDate /\ <<until, NoDate>> \in Date \X Date
    BY <1>1
  <2>2. sub'[c].state = "active" /\ sub'[c].until = until /\ Issue(c, "paid", "household", <<until, NoDate>>)
    BY <1>1, <1>5 DEF Charge
  <2> HIDE DEF until
  <2>3. PICK n : n = body("paid", "household", <<until, NoDate>>)  OBVIOUS
  <2>4. /\ n \in Body /\ Numbered(n) /\ n.id = <<c, issued + 1>>
        /\ n.household = "household" /\ n.ends = <<until, NoDate>>
        /\ outbox' = outbox \cup {n} /\ issued' = issued + 1
        /\ Action(processor, n.type) = "grant"
    BY <1>3, <2>1, <2>2, <2>3 DEF Kinds
  <2>5. PeriodEnd(processor, n.ends) = until
    BY <1>1, <2>1, <2>4 DEF PeriodEnd
  <2>6. LastWord(c, n)'
    BY <1>4, <1>5, <2>1, <2>2, <2>4, <2>5 DEF LastWord, Numbered
  <2> QED
    BY <1>4, <1>5, <2>4, <2>6, IssueCredit
<1>6. CASE End(c)
  <2>1. <<NoDate, NoDate>> \in Date \X Date
    BY <1>1
  <2>2. sub'[c].state = "ended" /\ Issue(c, "ended", "household", <<NoDate, NoDate>>)
    BY <1>1, <1>6 DEF End
  <2>3. PICK n : n = body("ended", "household", <<NoDate, NoDate>>)  OBVIOUS
  <2>4. /\ n \in Body /\ Numbered(n) /\ n.id = <<c, issued + 1>>
        /\ n.household = "household"
        /\ outbox' = outbox \cup {n} /\ issued' = issued + 1
        /\ Action(processor, n.type) = "revoke"
    BY <1>3, <2>1, <2>2, <2>3 DEF Kinds
  <2>5. LastWord(c, n)'
    BY <1>4, <1>6, <2>2, <2>4 DEF LastWord, Numbered
  <2> QED
    BY <1>4, <1>6, <2>4, <2>5, IssueCredit
<1>7. CASE Chatter(c)
  <2>1. PICK kind \in Kinds, household \in {"household", NoHousehold}, ends \in Date \X Date :
           /\ Issue(c, kind, household, ends)
           /\ kind = "other" \/ household = NoHousehold \/ (kind = "paid" /\ ends = <<NoDate, NoDate>>)
    BY <1>1, <1>7 DEF Chatter, Kinds
  <2>2. PICK n : n = body(kind, household, ends)  OBVIOUS
  <2>3. /\ n \in Body /\ Numbered(n) /\ n.id = <<c, issued + 1>>
        /\ n.household = household /\ n.ends = ends
        /\ outbox' = outbox \cup {n} /\ issued' = issued + 1
        /\ kind = "other" => Action(processor, n.type) = "ignore"
        /\ kind = "paid" => Action(processor, n.type) = "grant"
    BY <1>3, <2>1, <2>2
  <2>4. ends = <<NoDate, NoDate>> => PeriodEnd(processor, n.ends) = NoDate
    BY <1>1, <2>3 DEF PeriodEnd
  <2>5. ~Effective(n) /\ sub' = sub
    BY <1>7, <2>1, <2>3, <2>4 DEF Effective, Chatter
  <2> QED
    BY <1>4, <1>7, <2>3, <2>5, IssueCredit
<1> QED
  BY <1>2, <1>5, <1>6, <1>7

LEMMA CreditInitially == Init => CInv
<1> SUFFICES ASSUME Init PROVE CInv
  OBVIOUS
<1>1. InPlay = {}
  BY DEF Init, InPlay, Handling, Idle
<1>2. \A c \in Subs : ~Running(c)
  BY DEF Init, Running
<1> QED
  BY <1>1, <1>2 DEF Init, CInv, Idle

LEMMA CreditNext == IInv /\ CInv /\ [Next]_vars => CInv'
<1> SUFFICES ASSUME IInv, CInv, [Next]_vars PROVE CInv'
  OBVIOUS
<1>1. IInv'
  BY NextPreserves
<1>2. /\ now \in Nat /\ now' \in Nat /\ commands \in Nat
      /\ \A s \in Sessions : session[s].phase = "run" => commands > 0
  BY <1>1 DEF IInv, Typed, CInv
<1>3. ASSUME NEW s \in Sessions, NEW command, Command(s, command) PROVE CInv'
  <2>1. /\ UNCHANGED <<processor, now, exists, issued, sub, outbox, row, ledger, acted, newest, inOrder>>
        /\ commands' = commands + 1
        /\ session' = [session EXCEPT ![s] = [phase |-> "run", command |-> command, loaded |-> row]]
    BY <1>3 DEF Command, processorVars, history
  <2>2. InPlay' \subseteq InPlay
    BY <2>1 DEF InPlay, Handling, IInv, Typed
  <2> QED
    BY <1>1, <1>2, <2>1, <2>2, QuietCredit
<1>4. ASSUME NEW s \in Sessions, Run(s) PROVE CInv'
  <2>1. commands > 0
    BY <1>2, <1>4 DEF Run
  <2>2. /\ UNCHANGED <<processor, now, exists, issued, sub, outbox, ledger, acted, newest, inOrder, commands>>
        /\ session' = [session EXCEPT ![s] = Idle]
    BY <1>4 DEF Run, processorVars, counters, history
  <2>3. InPlay' \subseteq InPlay
    BY <2>2 DEF InPlay, Handling, Idle, IInv, Typed
  <2> QED
    BY <1>1, <1>2, <2>1, <2>2, <2>3, CreditStep
<1>5. ASSUME NEW s \in Sessions, FailUpdate(s) \/ Crash(s) PROVE CInv'
  <2>1. /\ UNCHANGED <<processor, now, exists, issued, sub, outbox, row, ledger, acted, newest, inOrder, commands>>
        /\ session' = [session EXCEPT ![s] = Idle]
    BY <1>5 DEF FailUpdate, Crash, processorVars, counters, history
  <2>2. InPlay' \subseteq InPlay
    BY <2>1 DEF InPlay, Handling, Idle, IInv, Typed
  <2>3. \A u \in Sessions : session'[u].phase = "run" => commands' > 0
    BY <1>2, <2>1 DEF Idle, IInv, Typed
  <2> QED
    BY <1>1, <1>2, <2>1, <2>2, <2>3, QuietCredit
<1>6. CASE Tick \/ DeleteHousehold \/ UNCHANGED vars
  <2>1. UNCHANGED <<processor, issued, sub, outbox, row, ledger, session, acted, newest, inOrder, commands>>
    BY <1>6 DEF Tick, DeleteHousehold, vars, processorVars, counters, history
  <2>2. now' >= now /\ (~exists => ~exists')
    BY <1>2, <1>6 DEF Tick, DeleteHousehold, vars
  <2>3. InPlay' \subseteq InPlay
    BY <2>1 DEF InPlay, Handling
  <2> QED
    BY <1>1, <1>2, <2>1, <2>2, <2>3, QuietCredit
<1> QED
  BY <1>1, <1>3, <1>4, <1>5, <1>6, ProcessorCredit, ReceiveCredit, ActCredit, RecordCredit DEF Next

(* Money ends where the contract is: once everything was answered, a         *)
(* household with one subscription has what it paid for, and nothing more    *)
(* after its end, however often events were delivered, crossed a crash or    *)
(* were refused, provided they took effect in order (handle, grant, revoke). *)
THEOREM CreditIsRight == Spec => []CreditFollowsPayment
<1>1. IInv /\ CInv => CreditFollowsPayment
  <2> SUFFICES ASSUME IInv, CInv, Quiet, exists, inOrder, commands = 0, NEW c \in Subs, Alone(c)
               PROVE  /\ sub[c].state = "active" /\ sub[c].until > now =>
                            row.tier = Paid /\ row.until = sub[c].until
                      /\ sub[c].state = "ended" => row.tier = Free /\ row.until = NoDate
    BY DEF CreditFollowsPayment, Alone
  <2> SUFFICES ASSUME Running(c), sub[c].state = "active" => sub[c].until > now
               PROVE  AsPaid(c)
    BY DEF Running, AsPaid
  <2>1. PICK b : LastWord(c, b) /\ Honoured(c, b)
    BY DEF CInv
  <2>2. Settled(Parse(processor, b))
    BY <2>1 DEF Honoured, Quiet
  <2>3. ~(Parse(processor, b).action = "grant" /\ Parse(processor, b).renewsAt <= now)
    <3>1. now \in Nat /\ sub[c].until \in Nat
      BY DEF IInv, Typed
    <3> QED
      BY <2>1, <3>1 DEF LastWord, Parse
  <2>4. Id(b) \in acted
    BY <2>2, <2>3 DEF Settled, Parse, Id
  <2> QED
    BY <2>1, <2>4 DEF Honoured
<1> QED
  BY <1>1, InitEstablishes, NextPreserves, CreditInitially, CreditNext, PTL DEF Spec

-----------------------------------------------------------------------------
(* Dunning.  A mail that went out more often than runs died and expiries     *)
(* came back is one whose mark is set, or about to be by the run that sent   *)
(* it.                                                                       *)
Todo == IF job.phase = "sending" THEN job.todo ELSE {}
Stamped == IF job.phase = "sending" THEN job.stamped ELSE {}
OnTheWay == [phase |-> "sending", todo |-> job.todo, stamped |-> job.stamped]
Notice == [household : Households, kind : Kind, until : Nat]

Marked(r, k) == IF k = "warning" THEN r.warned ELSE r.notified

DunningTyped ==
    /\ today \in Nat /\ deaths \in Nat /\ repeats \in Nat
    /\ rows \in [Households -> Row({})]
    /\ sent \in [Households -> [Kind -> [Until -> Nat]]]
    /\ job = AtRest \/ job = OnTheWay
    /\ Todo \cup Stamped \subseteq Notice
    /\ change = AtRest \/ change.phase = "loaded"
    /\ change.phase = "loaded" =>
        /\ change.household \in Households /\ change.row \in Row({})
        /\ change.row.until = rows[change.household].until

(* The mails a run has still to send, and those another run would.           *)
AskedFor ==
    \A n \in Todo : n.until \in Until =>
        sent[n.household][n.kind][n.until] <= deaths + repeats

StillDue ==
    \A h \in Households, k \in Kind, u \in Until :
        /\ rows[h].until = u /\ ~Marked(rows[h], k)
        /\ \A n \in Stamped : n.household # h \/ n.kind # k \/ n.until # u
        => sent[h][k][u] <= deaths + repeats

DunningInv == DunningTyped /\ AskedFor /\ StillDue /\ AgainOnlyForACause

LEMMA NotAtRest == AtRest.phase = "idle"
BY DEF AtRest

LEMMA DunningInitially == DunningInit => DunningInv
<1> SUFFICES ASSUME DunningInit PROVE DunningInv
  OBVIOUS
<1>1. Grant(NewRow, Paid, 1 + Renewal, "stripe", 1, Nobody) \in Row({})
  <2>1. NewRow \in Row({})
    BY DEF NewRow, Row, Free, Tiers, NoDate, Date, Source, NoPrice
  <2>2. 1 + Renewal \in Nat /\ Paid \in Tiers /\ "stripe" \in Source /\ Nobody \in {} \cup {Nobody}
    BY DunningAssumption DEF Tiers, Source, Processor
  <2> QED
    BY <2>1, <2>2, GrantTyped
<1>2. Todo = {} /\ Stamped = {} /\ change.phase # "loaded"
  BY NotAtRest DEF DunningInit, Todo, Stamped
<1>3. sent = [h \in Households |-> [k \in Kind |-> [u \in Until |-> 0]]]
  BY DEF DunningInit
<1>4. \A h \in Households, k \in Kind, u \in Until : sent[h][k][u] = 0
  BY <1>3
<1>5. deaths = 0 /\ repeats = 0 /\ 0 <= 0 + 0 /\ 0 <= 1 + 0 + 0
  BY DEF DunningInit
<1>6. DunningTyped
  <2>1. sent \in [Households -> [Kind -> [Until -> Nat]]]
    BY <1>3
  <2> QED
    BY <1>1, <1>2, <1>5, <2>1 DEF DunningInit, DunningTyped
<1> QED
  BY <1>2, <1>4, <1>5, <1>6 DEF DunningInv, AskedFor, StillDue, AgainOnlyForACause

(* Only the clock, the run or the change moves, and no mail goes out.        *)
LEMMA DunningQuiet ==
    ASSUME DunningInv, UNCHANGED <<rows, sent, repeats>>, deaths' = deaths,
           today' \in Nat, job' = AtRest \/ job' = OnTheWay',
           Todo' \subseteq Todo, Stamped' = Stamped,
           change' = AtRest \/ change'.phase = "loaded",
           change'.phase = "loaded" =>
               /\ change'.household \in Households /\ change'.row \in Row({})
               /\ change'.row.until = rows[change'.household].until
    PROVE  DunningInv'
<1>1. DunningTyped'
  BY DEF DunningInv, DunningTyped
<1>2. AskedFor' /\ StillDue' /\ AgainOnlyForACause'
  BY DEF DunningInv, AskedFor, StillDue, AgainOnlyForACause
<1> QED
  BY <1>1, <1>2 DEF DunningInv

LEMMA StampTyped ==
    ASSUME NEW r \in Row({}), NEW kinds
    PROVE  /\ Stamp(r, kinds) \in Row({})
           /\ Stamp(r, kinds).until = r.until
           /\ \A k \in Kind : Marked(Stamp(r, kinds), k) <=> (Marked(r, k) \/ k \in kinds)
<1> DEFINE w == r.warned \/ "warning" \in kinds
           l == r.notified \/ "lapse" \in kinds
<1>1. w \in BOOLEAN /\ l \in BOOLEAN
  OBVIOUS
<1>2. PICK x, y : x = w /\ y = l
  OBVIOUS
<1>3. Stamp(r, kinds) = [r EXCEPT !.warned = x, !.notified = y]
  BY <1>2 DEF Stamp
<1> HIDE DEF w, l
<1>4. x \in BOOLEAN /\ y \in BOOLEAN
  BY <1>1, <1>2
<1>5. /\ Stamp(r, kinds) \in Row({})
      /\ Stamp(r, kinds).until = r.until
      /\ Stamp(r, kinds).warned = x /\ Stamp(r, kinds).notified = y
  BY <1>3, <1>4 DEF Row
<1>6. (x <=> r.warned \/ "warning" \in kinds) /\ (y <=> r.notified \/ "lapse" \in kinds)
  BY <1>2 DEF w, l
<1> QED
  BY <1>5, <1>6 DEF Marked, Kind

(* A count of mails changes for the mail that goes out and for no other.     *)
LEMMA OneMoreSent ==
    ASSUME sent \in [Households -> [Kind -> [Until -> Nat]]], NEW n \in Notice,
           sent' = [sent EXCEPT ![n.household][n.kind][n.until] = @ + 1]
    PROVE  /\ sent' \in [Households -> [Kind -> [Until -> Nat]]]
           /\ \A h \in Households, k \in Kind, u \in Until :
                sent'[h][k][u] =
                    IF h = n.household /\ k = n.kind /\ u = n.until
                    THEN sent[h][k][u] + 1 ELSE sent[h][k][u]
<1>1. n.household \in Households /\ n.kind \in Kind
  BY DEF Notice
<1>2. PICK hh, kk, uu : hh = n.household /\ kk = n.kind /\ uu = n.until
  OBVIOUS
<1>3. hh \in Households /\ kk \in Kind
  BY <1>1, <1>2
<1>4. sent' = [sent EXCEPT ![hh] = [sent[hh] EXCEPT ![kk] = [sent[hh][kk] EXCEPT ![uu] = sent[hh][kk][uu] + 1]]]
  BY <1>2
<1>5. sent[hh] \in [Kind -> [Until -> Nat]] /\ sent[hh][kk] \in [Until -> Nat]
  BY <1>3
<1> DEFINE inner == [sent[hh][kk] EXCEPT ![uu] = sent[hh][kk][uu] + 1]
           middle == [sent[hh] EXCEPT ![kk] = inner]
<1>6. /\ inner \in [Until -> Nat]
      /\ \A u \in Until : inner[u] = IF u = uu THEN sent[hh][kk][u] + 1 ELSE sent[hh][kk][u]
  <2>1. PICK f : f = sent[hh][kk]
    OBVIOUS
  <2>2. f \in [Until -> Nat] /\ \A u \in Until : f[u] \in Nat
    BY <1>5, <2>1
  <2>3. PICK v : v = f[uu] + 1
    OBVIOUS
  <2>4. inner = [f EXCEPT ![uu] = v] /\ (uu \in Until => v \in Nat)
    BY <2>1, <2>2, <2>3
  <2> HIDE DEF inner
  <2>5. inner \in [Until -> Nat] /\ \A u \in Until : inner[u] = IF u = uu THEN v ELSE f[u]
    BY <2>2, <2>4
  <2> QED
    BY <2>1, <2>3, <2>5
<1>7. sent' = [sent EXCEPT ![hh] = middle]
  BY <1>4
<1> HIDE DEF inner
<1>8. /\ middle \in [Kind -> [Until -> Nat]]
      /\ \A k \in Kind : middle[k] = IF k = kk THEN inner ELSE sent[hh][k]
  BY <1>5, <1>6
<1> HIDE DEF middle
<1>9. /\ sent' \in [Households -> [Kind -> [Until -> Nat]]]
      /\ \A h \in Households : sent'[h] = IF h = hh THEN middle ELSE sent[h]
  BY <1>3, <1>7, <1>8
<1>10. ASSUME NEW h \in Households, NEW k \in Kind, NEW u \in Until
       PROVE  sent'[h][k][u] =
                IF h = hh /\ k = kk /\ u = uu THEN sent[h][k][u] + 1 ELSE sent[h][k][u]
  <2>1. CASE h = hh /\ k = kk
    BY <1>6, <1>8, <1>9, <2>1
  <2>2. CASE h = hh /\ k # kk
    BY <1>8, <1>9, <2>2
  <2>3. CASE h # hh
    BY <1>9, <2>3
  <2> QED
    BY <2>1, <2>2, <2>3
<1> QED
  BY <1>2, <1>9, <1>10

LEMMA StartInv == DunningInv /\ Start => DunningInv'
<1> SUFFICES ASSUME DunningInv, Start PROVE DunningInv'
  OBVIOUS
<1>1. job' = OnTheWay' /\ job'.phase = "sending" /\ job'.todo = Notices /\ job'.stamped = {}
  BY DEF Start, OnTheWay
<1>2. Todo' = Notices /\ Stamped' = {} /\ Stamped = {}
  BY <1>1, NotAtRest DEF Start, Todo, Stamped
<1>3. ASSUME NEW n \in Notices
      PROVE  n \in Notice /\ rows[n.household].until = n.until /\ ~Marked(rows[n.household], n.kind)
  <2>1. PICK h \in Households : \E k \in Due(h) : n = [household |-> h, kind |-> k, until |-> rows[h].until]
    BY <1>3 DEF Notices
  <2>2. PICK k \in Due(h) : n = [household |-> h, kind |-> k, until |-> rows[h].until]
    BY <2>1
  <2>3. k \in Kind /\ ~Marked(rows[h], k)
    BY <2>2 DEF Due, Kind, Marked
  <2>4. rows[h].until \in Nat
    BY DEF DunningInv, DunningTyped, Row, Date
  <2> QED
    BY <2>2, <2>3, <2>4 DEF Notice
<1>4. UNCHANGED <<today, rows, change, sent, changes, deaths, repeats>>
  BY DEF Start
<1>5. DunningTyped'
  BY <1>1, <1>2, <1>3, <1>4 DEF DunningInv, DunningTyped
<1>6. AskedFor'
  <2> SUFFICES ASSUME NEW n \in Notices, n.until \in Until
               PROVE  sent[n.household][n.kind][n.until] <= deaths + repeats
    BY <1>2, <1>4 DEF AskedFor
  <2>1. n.household \in Households /\ n.kind \in Kind
    BY <1>3 DEF Notice
  <2> QED
    BY <1>2, <1>3, <2>1 DEF DunningInv, StillDue
<1>7. StillDue' /\ AgainOnlyForACause'
  BY <1>2, <1>4 DEF DunningInv, StillDue, AgainOnlyForACause
<1> QED
  BY <1>5, <1>6, <1>7 DEF DunningInv

LEMMA SendInv == ASSUME NEW h \in Households PROVE DunningInv /\ Send(h) => DunningInv'
<1> SUFFICES ASSUME DunningInv, Send(h) PROVE DunningInv'
  OBVIOUS
<1>1. PICK n \in job.todo :
        /\ n.household = h
        /\ sent' = [sent EXCEPT ![h][n.kind][n.until] = @ + 1]
        /\ job' = [job EXCEPT !.todo = @ \ {n}, !.stamped = @ \cup {n}]
  BY DEF Send
<1>2. job.phase = "sending" /\ UNCHANGED <<today, rows, change, changes, deaths, repeats>>
  BY DEF Send
<1>3. n \in Todo /\ n \in Notice
  BY <1>1, <1>2 DEF DunningInv, DunningTyped, Todo
<1>4. job' = OnTheWay' /\ Todo' = Todo \ {n} /\ Stamped' = Stamped \cup {n}
  <2>1. job = OnTheWay
    BY <1>2, NotAtRest DEF DunningInv, DunningTyped
  <2>2. job' = [phase |-> "sending", todo |-> job.todo \ {n}, stamped |-> job.stamped \cup {n}]
    <3>1. PICK todo, stamped : todo = job.todo /\ stamped = job.stamped
      OBVIOUS
    <3>2. job = [phase |-> "sending", todo |-> todo, stamped |-> stamped]
      BY <2>1, <3>1 DEF OnTheWay
    <3>3. PICK a, b : a = todo \ {n} /\ b = stamped \cup {n}
      OBVIOUS
    <3>4. job' = [job EXCEPT !.todo = a, !.stamped = b]
      BY <1>1, <3>1, <3>3
    <3>5. job' = [phase |-> "sending", todo |-> a, stamped |-> b]
      BY <3>2, <3>4
    <3> QED
      BY <3>1, <3>3, <3>5
  <2> QED
    BY <1>2, <2>2 DEF Todo, Stamped, OnTheWay
<1>5. /\ sent' \in [Households -> [Kind -> [Until -> Nat]]]
      /\ \A g \in Households, k \in Kind, u \in Until :
            sent'[g][k][u] =
                IF g = n.household /\ k = n.kind /\ u = n.until
                THEN sent[g][k][u] + 1 ELSE sent[g][k][u]
  BY <1>1, <1>3, OneMoreSent DEF DunningInv, DunningTyped
<1>6. DunningTyped'
  BY <1>2, <1>3, <1>4, <1>5 DEF DunningInv, DunningTyped
<1>7. AskedFor'
  <2> SUFFICES ASSUME NEW m \in Todo, m # n, m.until \in Until
               PROVE  sent'[m.household][m.kind][m.until] <= deaths + repeats
    BY <1>2, <1>4 DEF AskedFor
  <2>1. m \in Notice
    BY DEF DunningInv, DunningTyped
  <2>2. m.household \in Households /\ m.kind \in Kind
    BY <2>1 DEF Notice
  <2>3. ~(m.household = n.household /\ m.kind = n.kind /\ m.until = n.until)
    BY <1>3, <2>1 DEF Notice
  <2> QED
    BY <1>5, <2>2, <2>3 DEF DunningInv, AskedFor
<1>8. StillDue'
  <2> SUFFICES ASSUME NEW g \in Households, NEW k \in Kind, NEW u \in Until,
                      rows[g].until = u, ~Marked(rows[g], k),
                      \A m \in Stamped \cup {n} : m.household # g \/ m.kind # k \/ m.until # u
               PROVE  sent'[g][k][u] <= deaths + repeats
    BY <1>2, <1>4 DEF StillDue
  <2>1. ~(g = n.household /\ k = n.kind /\ u = n.until)
    OBVIOUS
  <2>2. sent'[g][k][u] = sent[g][k][u]
    BY <1>5, <2>1
  <2>3. sent[g][k][u] <= deaths + repeats
    BY DEF DunningInv, StillDue
  <2> QED
    BY <2>2, <2>3
<1>9. AgainOnlyForACause'
  <2> SUFFICES ASSUME NEW g \in Households, NEW k \in Kind, NEW u \in Until
               PROVE  sent'[g][k][u] <= 1 + deaths + repeats
    BY <1>2 DEF AgainOnlyForACause
  <2>1. sent[g][k][u] \in Nat /\ deaths \in Nat /\ repeats \in Nat
    BY DEF DunningInv, DunningTyped
  <2>2. CASE g = n.household /\ k = n.kind /\ u = n.until
    <3>1. sent[g][k][u] <= deaths + repeats
      BY <1>3, <2>2 DEF DunningInv, AskedFor
    <3>2. sent'[g][k][u] = sent[g][k][u] + 1
      BY <1>5, <2>2
    <3> QED
      BY <2>1, <3>1, <3>2
  <2>3. CASE ~(g = n.household /\ k = n.kind /\ u = n.until)
    <3>1. sent'[g][k][u] = sent[g][k][u]
      BY <1>5, <2>3
    <3> QED
      BY <3>1 DEF DunningInv, AgainOnlyForACause
  <2> QED
    BY <2>2, <2>3
<1> QED
  BY <1>6, <1>7, <1>8, <1>9 DEF DunningInv

LEMMA FailToSendInv == ASSUME NEW h \in Households PROVE DunningInv /\ FailToSend(h) => DunningInv'
<1> SUFFICES ASSUME DunningInv, FailToSend(h) PROVE DunningInv'
  OBVIOUS
<1>1. PICK n \in job.todo : job' = [job EXCEPT !.todo = @ \ {n}]
  BY DEF FailToSend
<1>2. job.phase = "sending" /\ UNCHANGED <<today, rows, sent, change, changes, deaths, repeats>>
  BY DEF FailToSend
<1>3. job' = OnTheWay' /\ Todo' \subseteq Todo /\ Stamped' = Stamped
  <2>1. job = OnTheWay
    BY <1>2, NotAtRest DEF DunningInv, DunningTyped
  <2>2. job' = [phase |-> "sending", todo |-> job.todo \ {n}, stamped |-> job.stamped]
    BY <1>1, <2>1 DEF OnTheWay
  <2> QED
    BY <1>2, <2>2 DEF Todo, Stamped, OnTheWay
<1> QED
  BY <1>2, <1>3, DunningQuiet DEF DunningInv, DunningTyped

LEMMA FinishInv == DunningInv /\ Finish => DunningInv'
<1> SUFFICES ASSUME DunningInv, Finish PROVE DunningInv'
  OBVIOUS
<1> DEFINE kinds(h) == {n.kind : n \in {x \in job.stamped : x.household = h}}
<1>1. job.phase = "sending" /\ UNCHANGED <<today, change, sent, changes, deaths, repeats>>
  BY DEF Finish
<1>2. job' = AtRest /\ Todo' = {} /\ Stamped' = {} /\ Stamped = job.stamped
  BY NotAtRest DEF Finish, Todo, Stamped
<1>3. rows' = [h \in Households |-> Stamp(rows[h], kinds(h))]
  BY DEF Finish
<1> HIDE DEF kinds
<1>4. ASSUME NEW h \in Households
      PROVE  /\ rows'[h] \in Row({}) /\ rows'[h].until = rows[h].until
             /\ \A k \in Kind : Marked(rows'[h], k) <=> (Marked(rows[h], k) \/ k \in kinds(h))
  <2>1. rows[h] \in Row({})
    BY DEF DunningInv, DunningTyped
  <2>2. rows'[h] = Stamp(rows[h], kinds(h))
    BY <1>3
  <2> QED
    BY <2>1, <2>2, StampTyped
<1>5. DunningTyped'
  BY <1>1, <1>2, <1>3, <1>4 DEF DunningInv, DunningTyped
<1>6. StillDue'
  <2> SUFFICES ASSUME NEW h \in Households, NEW k \in Kind, NEW u \in Until,
                      rows'[h].until = u, ~Marked(rows'[h], k)
               PROVE  sent[h][k][u] <= deaths + repeats
    BY <1>1 DEF StillDue
  <2>1. rows[h].until = u /\ ~Marked(rows[h], k) /\ k \notin kinds(h)
    BY <1>4
  <2>2. \A n \in Stamped : n.household # h \/ n.kind # k
    BY <1>2, <2>1 DEF kinds
  <2> QED
    BY <2>1, <2>2 DEF DunningInv, StillDue
<1>7. AskedFor' /\ AgainOnlyForACause'
  BY <1>1, <1>2 DEF DunningInv, AskedFor, AgainOnlyForACause
<1> QED
  BY <1>5, <1>6, <1>7 DEF DunningInv

LEMMA JobDiesInv == DunningInv /\ JobDies => DunningInv'
<1> SUFFICES ASSUME DunningInv, JobDies PROVE DunningInv'
  OBVIOUS
<1>1. deaths' = deaths + 1 /\ UNCHANGED <<today, rows, change, sent, changes, repeats>>
  BY DEF JobDies
<1>2. job' = AtRest /\ Todo' = {} /\ Stamped' = {}
  BY NotAtRest DEF JobDies, Todo, Stamped
<1>3. DunningTyped'
  BY <1>1, <1>2 DEF DunningInv, DunningTyped
<1>4. ASSUME NEW h \in Households, NEW k \in Kind, NEW u \in Until
      PROVE  sent[h][k][u] <= (deaths + 1) + repeats /\ sent[h][k][u] <= 1 + (deaths + 1) + repeats
  BY DEF DunningInv, DunningTyped, AgainOnlyForACause
<1>5. StillDue' /\ AgainOnlyForACause'
  BY <1>1, <1>4 DEF StillDue, AgainOnlyForACause
<1>6. AskedFor'
  BY <1>2 DEF AskedFor
<1> QED
  BY <1>3, <1>5, <1>6 DEF DunningInv

LEMMA LoadInv == ASSUME NEW h \in Households PROVE DunningInv /\ Load(h) => DunningInv'
<1> SUFFICES ASSUME DunningInv, Load(h) PROVE DunningInv'
  OBVIOUS
<1>1. UNCHANGED <<today, rows, job, sent, deaths, repeats>>
  BY DEF Load
<1>2. change'.phase = "loaded" /\ change'.household = h /\ change'.row = rows[h]
  BY DEF Load
<1>3. rows[h] \in Row({})
  BY DEF DunningInv, DunningTyped
<1>4. Todo' = Todo /\ Stamped' = Stamped /\ (job' = AtRest \/ job' = OnTheWay')
  BY <1>1 DEF Todo, Stamped, OnTheWay, DunningInv, DunningTyped
<1> QED
  BY <1>1, <1>2, <1>3, <1>4, DunningQuiet DEF DunningInv, DunningTyped

LEMMA NextDayInv == DunningInv /\ NextDay => DunningInv'
<1> SUFFICES ASSUME DunningInv, NextDay PROVE DunningInv'
  OBVIOUS
<1>1. UNCHANGED <<rows, job, change, sent, deaths, repeats>> /\ today' = today + 1
  BY DEF NextDay
<1>2. today' \in Nat
  BY <1>1 DEF DunningInv, DunningTyped
<1>3. Todo' = Todo /\ Stamped' = Stamped /\ (job' = AtRest \/ job' = OnTheWay')
  BY <1>1 DEF Todo, Stamped, OnTheWay, DunningInv, DunningTyped
<1> QED
  BY <1>1, <1>2, <1>3, DunningQuiet DEF DunningInv, DunningTyped

(* What a change does to a row it has loaded.                                *)
LEMMA ChangedTyped ==
    ASSUME NEW r \in Row({}), today \in Nat, NEW c \in Changed(r)
    PROVE  c \in Row({})
<1>1. Renewal \in Nat
  BY DunningAssumption
<1>2. CASE c = Revoke(r)
  BY <1>2, RevokeTyped
<1>3. CASE c = Extend(r, Renewal, today)
  BY <1>1, <1>3, ExtendTyped
<1>4. ASSUME NEW u \in {today + Renewal, r.until}, c = Grant(r, Paid, u, "stripe", NoPrice, Nobody)
      PROVE  c \in Row({})
  <2>1. u \in Nat
    BY <1>1 DEF Row, Date
  <2>2. Paid \in Tiers /\ "stripe" \in Source /\ NoPrice \in Nat /\ Nobody \in {} \cup {Nobody}
    BY DEF Tiers, Source, Processor, NoPrice
  <2> QED
    BY <1>4, <2>1, <2>2, GrantTyped
<1> QED
  BY <1>2, <1>3, <1>4 DEF Changed

LEMMA ChangeInv == DunningInv /\ Change => DunningInv'
<1> SUFFICES ASSUME DunningInv, Change PROVE DunningInv'
  OBVIOUS
<1> DEFINE h == change.household
<1>1. change.phase = "loaded" /\ change' = AtRest /\ UNCHANGED <<today, job, sent, changes, deaths>>
  BY DEF Change
<1>2. PICK r \in Changed(change.row) :
        /\ rows' = [rows EXCEPT ![h] = Emit(rows[h], change.row, r)]
        /\ repeats' = IF Mailed(h, r.until) THEN repeats + 1 ELSE repeats
  BY DEF Change
<1>3. /\ h \in Households /\ change.row \in Row({}) /\ rows[h] \in Row({})
      /\ change.row.until = rows[h].until
  BY <1>1 DEF DunningInv, DunningTyped
<1>4. r \in Row({})
  BY <1>3, ChangedTyped DEF DunningInv, DunningTyped
<1>5. Emit(rows[h], change.row, r) \in Row({}) /\ Emit(rows[h], change.row, r).until = r.until
  <2>1. PICK current, loaded : current = rows[h] /\ loaded = change.row
    OBVIOUS
  <2>2. current \in Row({}) /\ loaded \in Row({}) /\ loaded.until = current.until
    BY <1>3, <2>1
  <2>3. Emit(current, loaded, r) \in Row({})
    BY <1>4, <2>2, EmitTyped
  <2>4. Emit(current, loaded, r).until = r.until
    BY <2>2 DEF Emit, Row
  <2> QED
    BY <2>1, <2>3, <2>4
<1> HIDE DEF h
<1>6. /\ rows' \in [Households -> Row({})]
      /\ rows'[h].until = r.until
      /\ \A g \in Households : g # h => rows'[g] = rows[g]
  BY <1>2, <1>3, <1>5 DEF DunningInv, DunningTyped
<1>7. Todo' = Todo /\ Stamped' = Stamped /\ (job' = AtRest \/ job' = OnTheWay')
  BY <1>1 DEF Todo, Stamped, OnTheWay, DunningInv, DunningTyped
<1>8. repeats' \in Nat /\ repeats <= repeats' /\ repeats \in Nat /\ deaths \in Nat
  BY <1>2 DEF DunningInv, DunningTyped
<1>9. \A g \in Households, k \in Kind, u \in Until : sent[g][k][u] \in Nat
  BY DEF DunningInv, DunningTyped
<1>10. DunningTyped'
  BY <1>1, <1>6, <1>7, <1>8, NotAtRest DEF DunningInv, DunningTyped
<1>11. AskedFor'
  <2> SUFFICES ASSUME NEW n \in Todo, n.until \in Until
               PROVE  sent[n.household][n.kind][n.until] <= deaths + repeats'
    BY <1>1, <1>7 DEF AskedFor
  <2>1. n.household \in Households /\ n.kind \in Kind
    BY DEF DunningInv, DunningTyped, Notice
  <2>2. sent[n.household][n.kind][n.until] <= deaths + repeats
    BY DEF DunningInv, AskedFor
  <2> QED
    BY <1>8, <1>9, <2>1, <2>2
<1>12. AgainOnlyForACause'
  <2> SUFFICES ASSUME NEW g \in Households, NEW k \in Kind, NEW u \in Until
               PROVE  sent[g][k][u] <= 1 + deaths + repeats'
    BY <1>1 DEF AgainOnlyForACause
  <2>1. sent[g][k][u] <= 1 + deaths + repeats
    BY DEF DunningInv, AgainOnlyForACause
  <2> QED
    BY <1>8, <1>9, <2>1
<1>13. StillDue'
  <2> SUFFICES ASSUME NEW g \in Households, NEW k \in Kind, NEW u \in Until,
                      rows'[g].until = u, ~Marked(rows'[g], k),
                      \A n \in Stamped : n.household # g \/ n.kind # k \/ n.until # u
               PROVE  sent[g][k][u] <= deaths + repeats'
    BY <1>1, <1>7 DEF StillDue
  <2>1. CASE g # h
    <3>1. sent[g][k][u] <= deaths + repeats
      BY <1>6, <2>1 DEF DunningInv, StillDue
    <3> QED
      BY <1>8, <1>9, <3>1
  <2>2. CASE g = h /\ Mailed(h, r.until)
    <3>1. repeats' = repeats + 1
      BY <1>2, <2>2
    <3>2. sent[g][k][u] <= 1 + deaths + repeats
      BY DEF DunningInv, AgainOnlyForACause
    <3> QED
      BY <1>8, <1>9, <3>1, <3>2
  <2>3. CASE g = h /\ ~Mailed(h, r.until)
    <3>1. u = r.until /\ u # NoDate
      BY <1>6, <2>3 DEF Until, NoDate
    <3>2. ~(sent[g][k][u] > 0)
      BY <2>3, <3>1 DEF Mailed
    <3> QED
      BY <1>8, <1>9, <3>2
  <2> QED
    BY <2>1, <2>2, <2>3
<1> QED
  BY <1>10, <1>11, <1>12, <1>13 DEF DunningInv

LEMMA DunningStep == DunningInv /\ [DunningNext]_dunningVars => DunningInv'
<1> SUFFICES ASSUME DunningInv, [DunningNext]_dunningVars PROVE DunningInv'
  OBVIOUS
<1>1. CASE Start
  BY <1>1, StartInv
<1>2. CASE Finish
  BY <1>2, FinishInv
<1>3. CASE JobDies
  BY <1>3, JobDiesInv
<1>4. CASE \E h \in Households : Send(h) \/ FailToSend(h) \/ Load(h)
  BY <1>4, SendInv, FailToSendInv, LoadInv
<1>5. CASE Change
  BY <1>5, ChangeInv
<1>6. CASE NextDay
  BY <1>6, NextDayInv
<1>7. CASE UNCHANGED dunningVars
  <2>1. UNCHANGED <<today, rows, job, change, sent, deaths, repeats>>
    BY <1>7 DEF dunningVars
  <2>2. Todo' = Todo /\ Stamped' = Stamped /\ (job' = AtRest \/ job' = OnTheWay')
    BY <2>1 DEF Todo, Stamped, OnTheWay, DunningInv, DunningTyped
  <2> QED
    BY <2>1, <2>2, DunningQuiet DEF DunningInv, DunningTyped
<1> QED
  BY <1>1, <1>2, <1>3, <1>4, <1>5, <1>6, <1>7 DEF DunningNext

LEMMA DunningInvariant == DunningSpec => []DunningInv
BY DunningInitially, DunningStep, PTL DEF DunningSpec

(* A mail about one expiry goes out again only when a run died between the   *)
(* sending and its commit, or when a change gave a household an expiry it    *)
(* had been written to about (services/dunning.py run, services/             *)
(* entitlements.py _reset_dunning).                                          *)
THEOREM MailsRepeatForACause == DunningSpec => []AgainOnlyForACause
<1>1. DunningInv => AgainOnlyForACause
  BY DEF DunningInv
<1> QED
  BY <1>1, DunningInvariant, PTL

(* A household is held to the free tier only once it is shown as lapsed, and *)
(* from then on but for the instant in which the grace period ends (limits.py *)
(* effective_tier, services/entitlements.py state).                          *)
THEOREM StateMatchesLimits == DunningSpec => []StateAgreesWithLimits
<1>1. DunningInv => StateAgreesWithLimits
  <2> SUFFICES ASSUME DunningInv, NEW r, \E h \in Households : r = rows[h]
               PROVE  /\ EffectiveTier(r, today) # r.tier => State(r, today) = "lapsed"
                      /\ State(r, today) = "lapsed" /\ ~GraceEndsNow(r) => EffectiveTier(r, today) = Free
    BY DEF StateAgreesWithLimits
  <2>1. today \in Nat /\ r.until \in Nat /\ Grace \in Nat
    BY GraceAssumption DEF DunningInv, DunningTyped, Row, Date
  <2>2. HasLapsed(r, today) => State(r, today) = "lapsed"
    BY <2>1 DEF HasLapsed, State, GraceEndsAt
  <2>3. State(r, today) = "lapsed" /\ ~GraceEndsNow(r) => HasLapsed(r, today)
    BY <2>1 DEF HasLapsed, State, GraceEndsAt, GraceEndsNow
  <2> QED
    BY <2>2, <2>3 DEF EffectiveTier
<1> QED
  BY <1>1, DunningInvariant, PTL
=============================================================================
