---------------------------- MODULE Notifications ----------------------------
(***************************************************************************)
(* Notification publishing and the delivery dispatcher.  A publisher       *)
(* stores an event and one delivery per matching subscription; the         *)
(* dispatcher task leases due deliveries in one transaction, handles the   *)
(* batch one by one and records each outcome.  Steps end at awaits of the  *)
(* database and of the adapter (SMTP relay, webhook).                      *)
(*                                                                         *)
(* A delivery is named by its event and subscription, which the UNIQUE     *)
(* index makes a key.  Time is abstract: a lease, the wait of a retry and  *)
(* a slot of the rate limiter end at some later moment.                    *)
(***************************************************************************)
EXTENDS Naturals, FiniteSets, Sequences

CONSTANTS
    Events, Subs, Channels,
    ChannelOf,    \* the channel of a subscription
    MaxAttempts,  \* adapter failures that end a delivery: 6
    BatchSize,    \* deliveries leased by one tick: 100
    Rate,         \* adapter calls per channel and minute: 60
    MaxLosses,    \* bound on ticks and publications cut short
    Volatile,     \* channels and subscriptions that somebody may disable
    NoDelivery

ASSUME NotificationsAssumption ==
    /\ ChannelOf \in [Subs -> Channels]
    /\ MaxAttempts \in Nat \ {0} /\ BatchSize \in Nat \ {0} /\ Rate \in Nat \ {0}
    /\ MaxLosses \in Nat

Deliveries == Events \X Subs
SubOf(d) == d[2]
Statuses == {"pending", "leased", "retry", "success", "failure"}
Terminal == {"success", "failure"}
Attempts == [status : Statuses, n : 0 .. MaxAttempts, over : BOOLEAN]
Outcomes == {"accepted", "transient", "permanent"}

ASSUME NoRowYet == NoDelivery \notin Attempts

VARIABLES
    chan, sub,    \* enabled flags
    bad,          \* channels whose stored secret cannot be decrypted
    fails,        \* failure_count of a subscription
    pub, todo,    \* per event: the publisher's progress, subscriptions left
    dlv,          \* notification_deliveries; over: its lease or wait is over
    order,        \* the deliveries in the order of created_at
    step, batch, outcome,  \* the dispatcher; batch holds positions of order
    calls,        \* channel_calls within the last minute
    sent,         \* how often a delivery was given to the adapter
    losses

pubVars == <<pub, todo, order>>
dispatcher == <<step, batch, outcome>>
vars == <<chan, sub, bad, fails, pubVars, dlv, dispatcher, calls, sent, losses>>

Init ==
    /\ chan = [c \in Channels |-> TRUE]
    /\ sub = [s \in Subs |-> TRUE]
    /\ bad \in SUBSET Channels
    /\ fails = [s \in Subs |-> 0]
    /\ pub = [e \in Events |-> "new"] /\ todo = [e \in Events |-> {}]
    /\ dlv = [d \in Deliveries |-> NoDelivery]
    /\ order = <<>>
    /\ step = "idle" /\ batch = {} /\ outcome = "none"
    /\ calls = [c \in Channels |-> 0]
    /\ sent = [d \in Deliveries |-> 0]
    /\ losses = 0

Exists(d) == dlv[d] # NoDelivery
Leased == {d \in Deliveries : Exists(d) /\ dlv[d].status = "leased"}
Failed(s) == {d \in Deliveries : SubOf(d) = s /\ Exists(d) /\ dlv[d].status = "failure"}

-----------------------------------------------------------------------------
(* Owners and subscribers *)

DisableChannel(c) ==
    /\ c \in Volatile /\ chan[c]
    /\ chan' = [chan EXCEPT ![c] = FALSE]
    /\ UNCHANGED <<sub, bad, fails, pubVars, dlv, dispatcher, calls, sent, losses>>

DisableSubscription(s) ==
    /\ s \in Volatile /\ sub[s]
    /\ sub' = [sub EXCEPT ![s] = FALSE]
    /\ UNCHANGED <<chan, bad, fails, pubVars, dlv, dispatcher, calls, sent, losses>>

-----------------------------------------------------------------------------
(* publish *)

StoreEvent(e) ==
    /\ pub[e] = "new"
    /\ pub' = [pub EXCEPT ![e] = "stored"]
    /\ UNCHANGED <<chan, sub, bad, fails, todo, order, dlv, dispatcher, calls, sent, losses>>

\* matching_subscriptions, filtered by kind and by the subscription's filter.
Match(e) ==
    /\ pub[e] = "stored"
    /\ \E S \in SUBSET {s \in Subs : sub[s]} : todo' = [todo EXCEPT ![e] = S]
    /\ pub' = [pub EXCEPT ![e] = "each"]
    /\ UNCHANGED <<chan, sub, bad, fails, order, dlv, dispatcher, calls, sent, losses>>

\* INSERT OR IGNORE of a pending delivery; none for a disabled channel or a
\* destination that is refused.
CreateDelivery(e, s) ==
    LET d == <<e, s>> IN
    /\ pub[e] = "each" /\ s \in todo[e]
    /\ todo' = [todo EXCEPT ![e] = @ \ {s}]
    /\ \/ /\ chan[ChannelOf[s]] /\ ~Exists(d)
          /\ dlv' = [dlv EXCEPT ![d] = [status |-> "pending", n |-> 0, over |-> FALSE]]
          /\ order' = Append(order, d)
       \/ UNCHANGED <<dlv, order>>
    /\ UNCHANGED <<chan, sub, bad, fails, pub, dispatcher, calls, sent, losses>>

Published(e) ==
    /\ pub[e] = "each" /\ todo[e] = {}
    /\ pub' = [pub EXCEPT ![e] = "done"]
    /\ UNCHANGED <<chan, sub, bad, fails, todo, order, dlv, dispatcher, calls, sent, losses>>

-----------------------------------------------------------------------------
(* dispatch_once *)

\* Mutant: expired leases are not recovered.
DueUnleased(d) ==
    /\ Exists(d)
    /\ \/ dlv[d].status = "pending"
       \/ dlv[d].status = "retry" /\ dlv[d].over

\* Mutant: whatever is not leased is due, settled deliveries included.
DueAnytime(d) == Exists(d) /\ dlv[d].status # "leased"

\* The transaction first makes deliveries with an expired lease pending again.
Due(d) ==
    /\ Exists(d)
    /\ \/ dlv[d].status = "pending"
       \/ dlv[d].status \in {"leased", "retry"} /\ dlv[d].over

\* ORDER BY created_at LIMIT n
Oldest(found, n) == {i \in found : Cardinality({k \in found : k < i}) < n}

\* Position i of order is the delivery in hand: a batch is handled oldest first.
InHand(i) == i \in batch /\ \A k \in batch : i <= k

\* lease_due: the oldest due deliveries, all in one transaction.
Lease ==
    LET found == {i \in DOMAIN order : Due(order[i])}
        taken == Oldest(found, BatchSize)
    IN
    /\ step = "idle" /\ found # {}
    /\ dlv' = [d \in Deliveries |->
                  IF \E i \in taken : order[i] = d THEN [dlv[d] EXCEPT !.status = "leased", !.over = FALSE]
                  ELSE IF d \in Leased /\ dlv[d].over
                       THEN [dlv[d] EXCEPT !.status = "pending", !.over = FALSE]
                  ELSE dlv[d]]
    /\ batch' = taken
    /\ step' = "inspect"
    /\ UNCHANGED <<chan, sub, bad, fails, pubVars, outcome, calls, sent, losses>>

\* The delivery in hand: its subscription and channel are read, then the
\* destination is resolved; what must not be sent is refused for good, and a
\* channel without a free slot costs an attempt.
Inspect(i) ==
    LET c == ChannelOf[SubOf(order[i])] IN
    /\ step = "inspect" /\ InHand(i)
    /\ \/ /\ outcome' = "permanent"     \* disabled, or the destination is refused
          /\ step' = "record"
          /\ UNCHANGED calls
       \/ /\ chan[c] /\ sub[SubOf(order[i])]
          /\ IF calls[c] < Rate
             THEN c \notin bad /\ step' = "send" /\ calls' = [calls EXCEPT ![c] = @ + 1]
                                  /\ UNCHANGED outcome
             ELSE outcome' = "transient" /\ step' = "record" /\ UNCHANGED calls
    /\ UNCHANGED <<chan, sub, bad, fails, pubVars, dlv, batch, sent, losses>>

Send(i) ==
    /\ step = "send" /\ InHand(i)
    /\ sent' = [sent EXCEPT ![order[i]] = @ + 1]
    /\ outcome' \in Outcomes
    /\ step' = "record"
    /\ UNCHANGED <<chan, sub, bad, fails, pubVars, dlv, batch, calls, losses>>

\* Mutant: a transient failure does not use up an attempt.
RecordedFreely(a, o) ==
    CASE o = "accepted"  -> [a EXCEPT !.status = "success", !.over = FALSE]
      [] o = "permanent" -> [a EXCEPT !.status = "failure", !.n = a.n + 1, !.over = FALSE]
      [] o = "transient" -> [a EXCEPT !.status = "retry", !.over = FALSE]

\* record_success, record_permanent_failure, record_transient_failure
Recorded(a, o) ==
    CASE o = "accepted"  -> [a EXCEPT !.status = "success", !.over = FALSE]
      [] o = "permanent" -> [a EXCEPT !.status = "failure", !.n = a.n + 1, !.over = FALSE]
      [] o = "transient" -> [a EXCEPT !.n = a.n + 1, !.over = FALSE,
                                !.status = IF a.n + 1 >= MaxAttempts THEN "failure" ELSE "retry"]

\* update_delivery; a delivery that ends in failure goes through finish_failure.
Record(i) ==
    LET d == order[i] IN
    /\ step = "record" /\ InHand(i)
    /\ dlv' = [dlv EXCEPT ![d] = Recorded(dlv[d], outcome)]
    /\ \/ dlv'[d].status = "failure" /\ step' = "count" /\ UNCHANGED batch
       \/ dlv'[d].status # "failure" /\ step' = "inspect" /\ batch' = batch \ {i}
    /\ outcome' = "none"
    /\ UNCHANGED <<chan, sub, bad, fails, pubVars, calls, sent, losses>>

\* Mutant: both updates of an exhausted delivery raise the counter.
CountTwice(i) ==
    /\ step = "count" /\ InHand(i)
    /\ fails' = [fails EXCEPT ![SubOf(order[i])] = @ + 2]
    /\ step' = "inspect" /\ batch' = batch \ {i}
    /\ UNCHANGED <<chan, sub, bad, pubVars, dlv, outcome, calls, sent, losses>>

\* finish_failure's increment_failure_count
Count(i) ==
    /\ step = "count" /\ InHand(i)
    /\ fails' = [fails EXCEPT ![SubOf(order[i])] = @ + 1]
    /\ step' = "inspect" /\ batch' = batch \ {i}
    /\ UNCHANGED <<chan, sub, bad, pubVars, dlv, outcome, calls, sent, losses>>

TickEnds ==
    /\ step = "inspect" /\ batch = {}
    /\ step' = "idle"
    /\ UNCHANGED <<chan, sub, bad, fails, pubVars, dlv, batch, outcome, calls, sent, losses>>

-----------------------------------------------------------------------------
(* Failures and time *)

DropBatch == step' = "idle" /\ batch' = {} /\ outcome' = "none"

\* The secret of the channel cannot be decrypted: the error ends the tick and
\* the rest of the batch stays leased.
Undecryptable(i) ==
    LET c == ChannelOf[SubOf(order[i])] IN
    /\ step = "inspect" /\ InHand(i)
    /\ chan[c] /\ sub[SubOf(order[i])] /\ calls[c] < Rate /\ c \in bad
    /\ calls' = [calls EXCEPT ![c] = @ + 1]
    /\ DropBatch
    /\ UNCHANGED <<chan, sub, bad, fails, pubVars, dlv, sent, losses>>

\* A database error ends the tick.
TickFails ==
    /\ step # "idle"
    /\ losses < MaxLosses /\ losses' = losses + 1
    /\ DropBatch
    /\ UNCHANGED <<chan, sub, bad, fails, pubVars, dlv, calls, sent>>

\* The process ends and starts again: publications under way are lost too.
Restart ==
    /\ losses < MaxLosses /\ losses' = losses + 1
    /\ DropBatch
    /\ calls' = [c \in Channels |-> 0]
    /\ pub' = [e \in Events |-> IF pub[e] \in {"stored", "each"} THEN "lost" ELSE pub[e]]
    /\ UNCHANGED <<chan, sub, bad, fails, todo, order, dlv, sent>>

\* The lease has run out, or the retry is due.  The end of a lease shows when
\* the tick that holds it is over.
WaitEnds(d) ==
    /\ \A i \in batch : order[i] # d
    /\ Exists(d) /\ dlv[d].status \in {"leased", "retry"} /\ ~dlv[d].over
    /\ dlv' = [dlv EXCEPT ![d].over = TRUE]
    /\ UNCHANGED <<chan, sub, bad, fails, pubVars, dispatcher, calls, sent, losses>>

SlotFrees(c) ==
    /\ calls[c] > 0
    /\ calls' = [calls EXCEPT ![c] = @ - 1]
    /\ UNCHANGED <<chan, sub, bad, fails, pubVars, dlv, dispatcher, sent, losses>>

-----------------------------------------------------------------------------
DispatchStep ==
    \/ Lease \/ TickEnds
    \/ \E i \in batch : Inspect(i) \/ Send(i) \/ Record(i) \/ Count(i) \/ Undecryptable(i)

Next ==
    \/ \E c \in Channels : DisableChannel(c) \/ SlotFrees(c)
    \/ \E s \in Subs : DisableSubscription(s)
    \/ \E e \in Events : StoreEvent(e) \/ Match(e) \/ Published(e)
    \/ \E e \in Events, s \in Subs : CreateDelivery(e, s)
    \/ DispatchStep \/ TickFails \/ Restart
    \/ \E d \in Deliveries : WaitEnds(d)

Spec == Init /\ [][Next]_vars

\* The interval fires and the runtime polls the tick; the adapter answers or
\* its own timeout does; time passes.
FairSpec ==
    /\ Spec
    /\ WF_vars(DispatchStep)
    /\ \A d \in Deliveries : WF_vars(WaitEnds(d))
-----------------------------------------------------------------------------
\* The rows, the batch and the counters are well formed.
TypeOK ==
    /\ chan \in [Channels -> BOOLEAN] /\ sub \in [Subs -> BOOLEAN]
    /\ bad \subseteq Channels
    /\ fails \in [Subs -> Nat]
    /\ pub \in [Events -> {"new", "stored", "each", "done", "lost"}]
    /\ todo \in [Events -> SUBSET Subs]
    /\ dlv \in [Deliveries -> Attempts \cup {NoDelivery}]
    /\ order \in Seq(Deliveries) /\ batch \subseteq DOMAIN order
    /\ step \in {"idle", "inspect", "send", "record", "count"}
    /\ outcome \in Outcomes \cup {"none"}
    /\ calls \in [Channels -> 0 .. Rate]
    /\ sent \in [Deliveries -> Nat]
    /\ losses \in 0 .. MaxLosses

One(b) == IF b THEN 1 ELSE 0

\* update_delivery has ended a delivery of s, increment_failure_count is next.
Counting(s) == step = "count" /\ \E i \in batch : InHand(i) /\ SubOf(order[i]) = s

\* Delivery is at least once, and every repetition is explained: a delivery
\* goes to the adapter again only after a recorded failure or a tick that was
\* cut short between the call and its record.
ResendsExplained ==
    \A d \in Deliveries : Exists(d) =>
       sent[d] <= dlv[d].n + losses + One(dlv[d].status = "success")
                  + One(step = "record" /\ \E i \in batch : InHand(i) /\ order[i] = d)

\* failure_count counts the terminal failures of a subscription: never too
\* many, and short by at most the ticks that were cut between update_delivery
\* and increment_failure_count.
FailuresCounted ==
    \A s \in Subs :
       /\ fails[s] <= Cardinality(Failed(s))
       /\ Cardinality(Failed(s)) <= fails[s] + losses + One(Counting(s))

\* TerminalSuccess and TerminalFailure are final, although update_delivery
\* writes whatever the dispatcher read when it leased.
OutcomeFinal ==
    [][\A d \in Deliveries :
          Exists(d) /\ dlv[d].status \in Terminal => dlv'[d] = dlv[d]]_vars

Settled(d) == Exists(d) /\ dlv[d].status \in Terminal

\* An undecryptable secret ends every tick that meets it, with the deliveries
\* leased behind it.
Blocked == \E d \in Deliveries : Exists(d) /\ ~Settled(d) /\ ChannelOf[SubOf(d)] \in bad

\* Every delivery is settled in the end, across retries, rate limits, failed
\* ticks and restarts, unless an undecryptable one stays in its way.
DeliveriesSettle == \A d \in Deliveries : Exists(d) ~> (Settled(d) \/ Blocked)
=============================================================================
