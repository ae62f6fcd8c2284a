-------------------------------- MODULE Outbox --------------------------------
(***************************************************************************)
(* The notification outbox: the events the console (src/control/catalog.ts, *)
(* notify) and the drain (lab/notify.py, enqueue) write into the catalog,   *)
(* one delivery row per event and channel, and the drain that claims the    *)
(* due rows, sends them one by one, settles each, reports a failed channel  *)
(* on the other channels and ages old events out.                           *)
(*                                                                         *)
(* Every transaction is one action; between two of them a drain may raise   *)
(* (its loop drops the item and goes on), die, or take so long that the     *)
(* lease of a row ends and another drain claims it again.                   *)
(* The drain of the worker is alone under worker.lock; a second one is the  *)
(* command run by hand, whose --require-worker-lock is optional.            *)
(* Time is counted in units of the caller's choice: an event's window and a *)
(* row's backoff are counters that Tick decreases.  A lease is shorter than *)
(* a unit, so it ends at any moment (LeaseEnds), and retention is longer    *)
(* than every window, so an event is old at any moment after its window.    *)
(***************************************************************************)
EXTENDS Integers, Sequences, FiniteSets, SequencesExt

CONSTANTS
    Slots,           \* the events the outbox holds at once (a bound)
    Channels,        \* "email", "webhook", "telegram" in the code
    Keys,            \* the dedupe keys of the producers
    Drains,          \* the drain processes that may run
    Configurations,  \* the sets of channels the configuration may enable
    Outcomes,        \* [Channels -> SUBSET {"delivered", "transient", "failed"}]
    MAX_ATTEMPTS,    \* 8 in the code
    BACKOFF,         \* the waits after attempt 1, 2, ...; the last one repeats
    Limit,           \* rows one step claims: 20 in the code
    Window,          \* [{"event", "channel_failed", "refused"} -> Nat \ {0}]
    Prompt,          \* TRUE: a unit is long: what is due is done within it, and all that is old removed
    Refusals,        \* whether what an event renders to may look like a credential: SUBSET BOOLEAN
    MaxEvents,       \* bound on the producers' events
    MaxFaults,       \* bound on exceptions and deaths
    MaxReclaims,     \* bound on the claims of one row that lapse while their drain is at work
    MaxChanges,      \* bound on changes of the configuration
    MaxTrouble,      \* bound on faults, changes and such claims together
    Weight           \* what a refused content counts of MaxTrouble

ASSUME OutboxAssumption ==
    /\ IsFiniteSet(Slots) /\ IsFiniteSet(Channels)
    /\ Configurations \subseteq SUBSET Channels /\ Refusals \subseteq BOOLEAN
    /\ \A c \in Channels : Outcomes[c] \subseteq {"delivered", "transient", "failed"}
    /\ MAX_ATTEMPTS \in Nat \ {0} /\ Limit \in Nat \ {0}
    /\ BACKOFF \in Seq(Nat) /\ BACKOFF # <<>>
    /\ Window \in [{"event", "channel_failed", "refused"} -> Nat \ {0}]

VARIABLES
    outbox,    \* notification_outbox: [Slots -> event or NoEvent]
    order,     \* the slots in use, oldest event first (ORDER BY o.at)
    row,       \* notification_delivery: [Slots -> [Channels -> row or NoRow]]
    enabled,   \* the channels the configuration file enables
    drain,     \* [Drains -> its program counter, channels and batch]
    heard,     \* channels whose failure another channel delivered (history)
    cut,       \* the rows whose report an exception or a death of its drain ended (history)
    events, faults, changes, late    \* counters of the bounds (changes: with refused contents)

tableVars == <<outbox, order, row>>
bounds == <<events, faults, changes, late>>
outboxVars == <<outbox, order, row, enabled, drain, heard, cut, bounds>>

NoEvent == [key |-> <<"none">>, window |-> 0, refused |-> FALSE]
NoRow == [state |-> "none", attempts |-> 0, wait |-> 0, lapsed |-> FALSE,
          error |-> "none", reclaims |-> 0, reported |-> FALSE]
FreshRow == [NoRow EXCEPT !.state = "pending"]
Idle == [phase |-> "idle", channels |-> {}, batch |-> <<>>, result |-> "none"]

Settled == {"delivered", "failed"}
EventKeys == {<<"event", k>> : k \in Keys} \cup {<<"channel_failed", c>> : c \in Channels}
             \cup {<<"refused", s>> : s \in Slots}
Rows(s) == {c \in Channels : row[s][c].state # "none"}
Escalation(s) == outbox[s].key[1] = "channel_failed"

-------------------------------------------------------------------------------
(* Writing an event: the same durable window in both writers.               *)

\* The event of that key whose window is still open, if there is one.
Open(key) == {s \in Slots : outbox[s].key = key /\ outbox[s].window > 0}

\* Ids are fresh: a slot is not taken while a drain still holds an item of it.
Free == {s \in Slots : outbox[s] = NoEvent /\
            \A d \in Drains : \A i \in DOMAIN drain[d].batch : drain[d].batch[i].event # s}

\* A repeat inside the window counts on the open event; otherwise one event with a pending row per channel.
Enqueue(key, channels, refused, rows) ==
    IF Open(key) # {} THEN UNCHANGED <<outbox, order>> /\ row' = rows
    ELSE LET s == CHOOSE x \in Free : TRUE IN
            /\ Free # {}
            /\ outbox' = [outbox EXCEPT ![s] = [key |-> key, window |-> Window[key[1]], refused |-> refused]]
            /\ order' = Append(order, s)
            /\ row' = [rows EXCEPT ![s] = [c \in Channels |-> IF c \in channels THEN FreshRow ELSE NoRow]]

OutboxInit ==
    /\ outbox = [s \in Slots |-> NoEvent]
    /\ order = <<>>
    /\ row = [s \in Slots |-> [c \in Channels |-> NoRow]]
    /\ enabled \in Configurations
    /\ drain = [d \in Drains |-> Idle]
    /\ heard = {} /\ cut = {}
    /\ events = 0 /\ faults = 0 /\ changes = 0 /\ late = 0

Trouble == faults + changes + late
Calm == Trouble < MaxTrouble
MayFail == faults < MaxFaults /\ Calm

\* The console records a condition, in the transaction of the change itself (catalog.ts notify).
\* "refused" says whether what is rendered from it later has the shape of a credential.
Produce(k, refused) ==
    /\ events < MaxEvents
    /\ events' = events + 1
    /\ refused => Trouble + Weight <= MaxTrouble
    /\ changes' = IF refused THEN changes + Weight ELSE changes
    /\ Enqueue(<<"event", k>>, Channels, refused, row)
    /\ UNCHANGED <<enabled, drain, heard, cut, faults, late>>

\* An operator connects or removes a channel; each step of a drain reads the file again.
Configure ==
    /\ changes < MaxChanges /\ Calm
    /\ changes' = changes + 1
    /\ enabled' \in Configurations \ {enabled}
    /\ UNCHANGED <<tableVars, drain, heard, cut, events, faults, late>>

-------------------------------------------------------------------------------
(* One step of a drain.                                                      *)

\* A pending row whose backoff is over, or a claimed row whose lease is over.
Due(s, c) == \/ row[s][c].state = "pending" /\ row[s][c].wait = 0
             \/ row[s][c].state = "claimed" /\ row[s][c].lapsed

DueItems == UNION {{<<s, c>> : c \in {x \in Channels : Due(s, x)}} : s \in Slots}
Old_Any == {s \in Slots : outbox[s] # NoEvent /\ outbox[s].window = 0}
Old == {s \in Slots : outbox[s] # NoEvent /\ outbox[s].window = 0 /\ \A c \in Rows(s) : row[s][c].state \in Settled}
Position(s) == CHOOSE i \in DOMAIN order : order[i] = s

\* ORDER BY at LIMIT: the rows of older events first; rows of one event in any order.
Batches == {b \in SetToAllKPermutations(DueItems) :
               /\ Len(b) = IF Cardinality(DueItems) < Limit THEN Cardinality(DueItems) ELSE Limit
               /\ \A i \in 1..Len(b) - 1 : Position(b[i][1]) <= Position(b[i + 1][1])
               /\ \A p \in DueItems \ Range(b) : Position(b[Len(b)][1]) <= Position(p[1])}

\* A claim counts an attempt; the token of a claim is the number of its attempt.
Claimed(r) == [r EXCEPT !.state = "claimed", !.attempts = @ + 1, !.lapsed = FALSE,
                        !.reclaims = IF r.state = "claimed" THEN @ + 1 ELSE @]

Claim(d) ==
    /\ drain[d].phase = "idle" /\ enabled # {}
    /\ DueItems # {} \/ Old # {}
    /\ \E b \in Batches :
         /\ row' = [s \in Slots |-> [c \in Channels |->
                      IF <<s, c>> \in Range(b) THEN Claimed(row[s][c]) ELSE row[s][c]]]
         /\ drain' = [drain EXCEPT ![d] =
                [phase |-> IF b = <<>> THEN "prune" ELSE "work", channels |-> enabled, result |-> "none",
                 batch |-> [i \in DOMAIN b |-> [event |-> b[i][1], channel |-> b[i][2],
                                                claim |-> row[b[i][1]][b[i][2]].attempts + 1]]]]
    /\ UNCHANGED <<outbox, order, enabled, heard, cut, bounds>>

Item(d) == Head(drain[d].batch)
NextItem(d) == [drain[d] EXCEPT !.phase = IF Len(drain[d].batch) = 1 THEN "prune" ELSE "work",
                                !.batch = Tail(@), !.result = "none"]
At(d, phase) == drain[d].phase = phase

\* Only the attempt that holds the current claim moves a row.
Holds_Anyone(i) == row[i.event][i.channel].state # "none"
Holds(i) == row[i.event][i.channel].state = "claimed" /\ row[i.event][i.channel].attempts = i.claim

Permanent(r, outcome) == outcome = "failed" \/ r.attempts >= MAX_ATTEMPTS

Backoff(n) == LET k == IF n < 1 THEN 1 ELSE n IN IF k > Len(BACKOFF) THEN BACKOFF[Len(BACKOFF)] ELSE BACKOFF[k]

\* The row an outcome leaves; its error is what the settlement records.
After(r, outcome, error) ==
    IF outcome = "delivered" THEN [r EXCEPT !.state = "delivered", !.error = "none", !.wait = 0, !.lapsed = FALSE]
    ELSE IF Permanent(r, outcome) THEN [r EXCEPT !.state = "failed", !.error = error, !.wait = 0, !.lapsed = FALSE]
    ELSE [r EXCEPT !.state = "pending", !.error = error, !.lapsed = FALSE, !.wait = Backoff(r.attempts)]

SettleRow(i, outcome, error) == row' = [row EXCEPT ![i.event][i.channel] = After(@, outcome, error)]

\* The row is for a channel the configuration does not enable: settled failed, nobody is told.
Disabled(d) ==
    /\ At(d, "work") /\ Item(d).channel \notin drain[d].channels
    /\ IF Holds(Item(d)) THEN SettleRow(Item(d), "failed", "channel_disabled") ELSE row' = row
    /\ drain' = [drain EXCEPT ![d] = NextItem(d)]
    /\ UNCHANGED <<outbox, order, enabled, heard, cut, bounds>>

\* What would be sent looks like a credential: nothing is sent, the row fails, and then an event says so.
Refuse(d) ==
    /\ At(d, "work") /\ Item(d).channel \in drain[d].channels
    /\ outbox[Item(d).event].refused
    /\ IF Holds(Item(d))
       THEN SettleRow(Item(d), "failed", "redaction_refused") /\ drain' = [drain EXCEPT ![d].phase = "refuse"]
       ELSE row' = row /\ drain' = [drain EXCEPT ![d] = NextItem(d)]
    /\ UNCHANGED <<outbox, order, enabled, heard, cut, bounds>>

EnqueueRefused(d) ==
    /\ At(d, "refuse")
    /\ Enqueue(<<"refused", Item(d).event>>, drain[d].channels, FALSE, row)
    /\ drain' = [drain EXCEPT ![d] = NextItem(d)]
    /\ UNCHANGED <<enabled, heard, cut, bounds>>

\* The message leaves; the channel answers.  The row does not know it yet.
Send(d) ==
    /\ At(d, "work") /\ Item(d).channel \in drain[d].channels
    /\ ~outbox[Item(d).event].refused
    /\ \E outcome \in Outcomes[Item(d).channel] :
         drain' = [drain EXCEPT ![d].phase = "sent", ![d].result = outcome]
    /\ UNCHANGED <<tableVars, enabled, heard, cut, bounds>>

\* Whether the result in hand is the last one of its row, so that it is reported.
Exhausts_RefusedOnly(d) == drain[d].result = "failed"
Exhausts(d) == /\ drain[d].result # "delivered"
               /\ Permanent(row[Item(d).event][Item(d).channel], drain[d].result)

\* settle raises on a stale claim, and the loop goes on with the next item.
Settle(d) ==
    /\ At(d, "sent")
    /\ LET i == Item(d) IN
       IF Holds(i)
       THEN /\ SettleRow(i, drain[d].result, "send")
            /\ drain' = [drain EXCEPT ![d] = IF Exhausts(d) THEN [@ EXCEPT !.phase = "escalate"] ELSE NextItem(d)]
            /\ heard' = IF drain[d].result = "delivered" /\ Escalation(i.event)
                        THEN heard \cup {outbox[i.event].key[2]} ELSE heard
       ELSE row' = row /\ drain' = [drain EXCEPT ![d] = NextItem(d)] /\ heard' = heard
    /\ UNCHANGED <<outbox, order, enabled, cut, bounds>>

\* A second transaction: one event per failed channel and window, on the other enabled channels.
Others_Itself(d) == drain[d].channels \cap {Item(d).channel}
Others(d) == drain[d].channels \ {Item(d).channel}

\* The escalation of the row ran (history): it wrote an event, counted on one or had nobody to tell.
Reported(i) == IF row[i.event][i.channel].state # "failed" THEN row
               ELSE [row EXCEPT ![i.event][i.channel].reported = TRUE]

Escalate(d) ==
    /\ At(d, "escalate")
    /\ IF Others(d) = {} THEN UNCHANGED <<outbox, order>> /\ row' = Reported(Item(d))
       ELSE Enqueue(<<"channel_failed", Item(d).channel>>, Others(d), FALSE, Reported(Item(d)))
    /\ drain' = [drain EXCEPT ![d] = NextItem(d)]
    /\ UNCHANGED <<enabled, heard, cut, bounds>>

\* The end of a step: some old events whose rows are all settled are removed.
Prune(d) ==
    /\ At(d, "prune")
    /\ \E gone \in SUBSET Old :
         /\ Prompt => gone = Old
         /\ outbox' = [s \in Slots |-> IF s \in gone THEN NoEvent ELSE outbox[s]]
         /\ row' = [s \in Slots |-> IF s \in gone THEN [c \in Channels |-> NoRow] ELSE row[s]]
         /\ order' = SelectSeq(order, LAMBDA s : s \notin gone)
         /\ cut' = {p \in cut : p[1] \notin gone}
    /\ drain' = [drain EXCEPT ![d] = Idle]
    /\ UNCHANGED <<enabled, heard, bounds>>

-------------------------------------------------------------------------------
(* What else happens.                                                       *)

\* The failed row whose report ends with its drain's hold of it: nobody takes that report up again.
CutShort(d) == IF At(d, "escalate") /\ row[Item(d).event][Item(d).channel].state = "failed"
               THEN {<<Item(d).event, Item(d).channel>>} ELSE {}

\* Rendering, the channel, or a busy catalog raises: the loop drops the item, whose row stays as it is.
Raise(d) ==
    /\ drain[d].phase \in {"work", "sent", "escalate", "refuse"} /\ MayFail
    /\ faults' = faults + 1
    /\ drain' = [drain EXCEPT ![d] = NextItem(d)]
    /\ cut' = cut \cup CutShort(d)
    /\ UNCHANGED <<tableVars, enabled, heard, events, changes, late>>

\* A drain dies with its worker at any point; the next worker starts another one.
Die(d) ==
    /\ drain[d].phase # "idle" /\ MayFail
    /\ faults' = faults + 1
    /\ drain' = [drain EXCEPT ![d] = Idle]
    /\ cut' = cut \cup CutShort(d)
    /\ UNCHANGED <<tableVars, enabled, heard, events, changes, late>>

\* Thirty seconds after a claim, whether its drain is still at work or gone.
AtWork(s, c) == \E d \in Drains : \E i \in DOMAIN drain[d].batch :
                    drain[d].batch[i] = [event |-> s, channel |-> c, claim |-> row[s][c].attempts]
LeaseEnds(s, c) ==
    /\ row[s][c].state = "claimed" /\ ~row[s][c].lapsed
    /\ IF AtWork(s, c) THEN row[s][c].reclaims < MaxReclaims /\ Calm /\ late' = late + 1 ELSE UNCHANGED late
    /\ row' = [row EXCEPT ![s][c].lapsed = TRUE]
    /\ UNCHANGED <<outbox, order, enabled, drain, heard, cut, events, faults, changes>>

Less(n) == IF n = 0 THEN 0 ELSE n - 1
Waiting == {s \in Slots : outbox[s].window > 0 \/ \E c \in Channels : row[s][c].wait > 0}
Tick ==
    /\ Waiting # {}
    /\ Prompt => DueItems = {} /\ \A d \in Drains : drain[d].phase = "idle"
    /\ outbox' = [s \in Slots |-> [outbox[s] EXCEPT !.window = Less(@)]]
    /\ row' = [s \in Slots |-> [c \in Channels |-> [row[s][c] EXCEPT !.wait = Less(@)]]]
    /\ UNCHANGED <<order, enabled, drain, heard, cut, bounds>>

\* What the drain does with the item in hand.
Works(d) == Disabled(d) \/ Refuse(d) \/ EnqueueRefused(d) \/ Send(d) \/ Settle(d) \/ Escalate(d) \/ Prune(d)

OutboxNext ==
    \/ \E k \in Keys, refused \in Refusals : Produce(k, refused)
    \/ Configure
    \/ \E d \in Drains : Claim(d) \/ Raise(d) \/ Die(d)
    \/ \E d \in Drains : Disabled(d) \/ Refuse(d) \/ EnqueueRefused(d) \/ Send(d) \/ Settle(d) \/ Escalate(d) \/ Prune(d)
    \/ \E s \in Slots, c \in Channels : LeaseEnds(s, c)
    \/ Tick

OutboxSpec == OutboxInit /\ [][OutboxNext]_outboxVars

\* A running drain goes on, it polls every half second, leases end and time passes.
Fairness ==
    /\ \A d \in Drains : WF_outboxVars(Works(d)) /\ WF_outboxVars(Claim(d))
    /\ \A s \in Slots, c \in Channels : WF_outboxVars(LeaseEnds(s, c))
    /\ WF_outboxVars(Tick)
OutboxFairSpec == OutboxSpec /\ Fairness

-------------------------------------------------------------------------------
(* Properties.                                                              *)

RowStates == {"none", "pending", "claimed", "delivered", "failed"}

\* The shape of the outbox, of its rows and of the drains.
OutboxTypeOK ==
    /\ \A s \in Slots : /\ outbox[s].key \in EventKeys \cup {<<"none">>}
                        /\ outbox[s].window \in Nat /\ outbox[s].refused \in BOOLEAN
                        /\ (outbox[s] = NoEvent) <=> (s \notin Range(order))
    /\ Cardinality(Range(order)) = Len(order)
    /\ \A s \in Slots, c \in Channels :
         /\ row[s][c].state \in RowStates /\ row[s][c].lapsed \in BOOLEAN
         /\ row[s][c].attempts \in Nat /\ row[s][c].reclaims \in Nat
         /\ row[s][c].error \in {"none", "send", "channel_disabled", "redaction_refused"}
         /\ row[s][c].state = "none" <=> row[s][c] = NoRow
    /\ enabled \in Configurations /\ heard \subseteq Channels
    /\ \A d \in Drains : /\ drain[d].phase \in {"idle", "work", "sent", "escalate", "refuse", "prune"}
                         /\ drain[d].batch = <<>> <=> drain[d].phase \in {"idle", "prune"}

\* What the outbox promises of its deliveries, seen from outside: whatever is claimed, lapses, is answered late or
\* dies, each delivery is settled once, and an event leaves when it owes nothing (settle, prune, both writers).
Stands(r) == IF r.state \in {"pending", "claimed"} THEN "owed" ELSE r.state
Deliveries == INSTANCE DeliveryLedger WITH
    Event <- Slots, Channel <- Channels, delivery <- [s \in Slots |-> [c \in Channels |-> Stands(row[s][c])]]
DeliveriesKept == Deliveries!Spec

\* A row that is settled stays as it is until its event is removed: no late answer of a drain whose lease
\* had ended moves it, whatever the other drain did with it meanwhile (settle, the claim of the WHERE clause).
SettledIsFinal ==
    [][\A s \in Slots, c \in Channels :
        row[s][c].state \in Settled => row'[s][c].state \in {row[s][c].state, "none"}]_outboxVars

\* Two drains may have one row in hand, when the lease of the first ended: the answer of one of them at most is
\* taken, the one whose claim is the row's last (settle, the claim of the WHERE clause; claim's docstring).
Items(d) == Range(drain[d].batch)
OneMaySettle ==
    \A d, e \in Drains : d # e =>
        \A t \in Items(d), u \in Items(e) :
            t.event = u.event /\ t.channel = u.channel => ~ (Holds(t) /\ Holds(u))

\* The retry budget: a row is claimed at most MAX_ATTEMPTS times beyond the claims that ended without a settlement,
\* and a row that waits has something left of it (settle's permanent, claim's attempts+1).
BudgetHolds ==
    \A s \in Slots, c \in Channels :
        LET r == row[s][c] IN
        /\ r.attempts <= MAX_ATTEMPTS + r.reclaims
        /\ r.state = "pending" => r.attempts < MAX_ATTEMPTS

\* A send that failed for good has been reported, or its drain is about to, or an exception or a death met that drain
\* between this very row's settlement and its report; whatever else failed, lapsed or died excuses nothing.
Escalating(s, c) == \E d \in Drains : At(d, "escalate") /\ Item(d).event = s /\ Item(d).channel = c
FailureReported ==
    \A s \in Slots, c \in Channels :
        row[s][c].state = "failed" /\ row[s][c].error = "send" =>
            row[s][c].reported \/ Escalating(s, c) \/ <<s, c>> \in cut

\* A drain has a report to enqueue and every slot of the instance is taken: a bound, the table has none.
SlotsReached == Free = {} /\ \E d \in Drains : At(d, "escalate") \/ At(d, "refuse")

\* Every row is settled in the end, as delivered or as failed; no event leaves with a row that is not
\* (claim, lease, backoff and prune together, under bounded exceptions and deaths).
EveryRowSettles ==
    \A s \in Slots, c \in Channels :
        (row[s][c].state \in {"pending", "claimed"}) ~> (row[s][c].state \in Settled \/ SlotsReached)

\* When a send fails for good on one channel and nothing was lost, another channel that works delivers the news.
FailureIsHeard ==
    \A s \in Slots, c \in Channels :
        (row[s][c].state = "failed" /\ row[s][c].error = "send") ~> (c \in heard \/ faults > 0 \/ SlotsReached)

\* lab/notify.py enqueue: "the row commits with the settlement that caused it": a failed send is
\* reported or about to be, in every state.
FailureAlwaysReported ==
    \A s \in Slots, c \in Channels :
        row[s][c].state = "failed" /\ row[s][c].error = "send" => row[s][c].reported \/ Escalating(s, c)

\* Section 2.5 of OPERATOR-NOTIFICATIONS.md: after MAX_ATTEMPTS the row becomes failed, so it is not claimed again.
ExhaustedIsFailed == \A s \in Slots, c \in Channels : row[s][c].attempts <= MAX_ATTEMPTS

\* lab/notify.py escalate: "two broken channels must not escalate each other indefinitely": in the end no
\* escalation waits to be sent.
EscalationEnds ==
    <>[](\A s \in Slots, c \in Channels : Escalation(s) => row[s][c].state \notin {"pending", "claimed"})
===============================================================================
