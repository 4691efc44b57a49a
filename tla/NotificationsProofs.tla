------------------------- MODULE NotificationsProofs -------------------------
(***************************************************************************)
(* Theorems about Notifications for every number of events, subscriptions  *)
(* and channels, every batch size, rate and number of attempts, and every  *)
(* number of ticks and publications that are cut short.                    *)
(***************************************************************************)
EXTENDS Notifications, FiniteSetTheorems, TLAPS

\* created_at orders rows that exist, each once.
OrderedRows ==
    /\ \A i \in DOMAIN order : Exists(order[i])
    /\ \A i, k \in DOMAIN order : order[i] = order[k] => i = k

\* A delivery that is not settled has an attempt left.
AttemptLeft ==
    \A d \in Deliveries : Exists(d) /\ dlv[d].status \notin Terminal => dlv[d].n < MaxAttempts

\* What the dispatcher still holds is leased, so no outcome is recorded over
\* another one; only the delivery in hand may have failed a moment ago.
BatchLeased ==
    \A i \in batch :
       \/ dlv[order[i]].status = "leased"
       \/ step = "count" /\ InHand(i) /\ dlv[order[i]].status = "failure"

\* There is an outcome to record.
OutcomeKnown == step = "record" => outcome \in Outcomes

\* Nothing was given to the adapter before its row existed.
UnsentUnborn == \A d \in Deliveries : ~Exists(d) => sent[d] = 0

\* The variables of the dispatcher and of the rows it works on.
DeliveryTypes ==
    /\ fails \in [Subs -> Nat]
    /\ dlv \in [Deliveries -> Attempts \cup {NoDelivery}]
    /\ order \in Seq(Deliveries) /\ batch \subseteq DOMAIN order
    /\ step \in {"idle", "inspect", "send", "record", "count"}
    /\ outcome \in Outcomes \cup {"none"}
    /\ sent \in [Deliveries -> Nat]
    /\ losses \in 0 .. MaxLosses

\* The rest of the state.
SettingTypes ==
    /\ chan \in [Channels -> BOOLEAN] /\ sub \in [Subs -> BOOLEAN]
    /\ bad \subseteq Channels
    /\ pub \in [Events -> {"new", "stored", "each", "done", "lost"}]
    /\ todo \in [Events -> SUBSET Subs]
    /\ calls \in [Channels -> 0 .. Rate]

\* The two halves of the types.
LEMMA TypeParts == TypeOK <=> DeliveryTypes /\ SettingTypes
BY DEF TypeOK, DeliveryTypes, SettingTypes

\* The inductive invariant behind the outcomes.
Inv == DeliveryTypes /\ OrderedRows /\ AttemptLeft /\ BatchLeased /\ OutcomeKnown

\* The steps of everybody else leave the deliveries alone.
Aside ==
    UNCHANGED <<fails, dlv, order, step, batch, outcome, sent, losses>>

\* A tick that is cut short.
Dropped ==
    /\ DropBatch /\ UNCHANGED <<fails, dlv, order, sent>>
    /\ losses' \in 0 .. MaxLosses
    /\ losses' = losses + 1 \/ (losses' = losses /\ step = "inspect")

\* The steps of the system, as the deliveries see them.
LEMMA Steps ==
  ASSUME Inv, [Next]_vars
  PROVE  \/ Aside \/ Dropped \/ Lease \/ TickEnds
         \/ \E e \in Events, s \in Subs : CreateDelivery(e, s)
         \/ \E i \in batch : Inspect(i) \/ Send(i) \/ Record(i) \/ Count(i)
         \/ \E d \in Deliveries : WaitEnds(d)
<1>1. losses \in 0 .. MaxLosses /\ MaxLosses \in Nat
  BY NotificationsAssumption DEF Inv, DeliveryTypes
<1>2. CASE UNCHANGED vars
  BY <1>2 DEF vars, pubVars, dispatcher, Aside
<1>3. CASE \E c \in Channels : DisableChannel(c) \/ SlotFrees(c)
  BY <1>3 DEF DisableChannel, SlotFrees, pubVars, dispatcher, Aside
<1>4. CASE \E s \in Subs : DisableSubscription(s)
  BY <1>4 DEF DisableSubscription, pubVars, dispatcher, Aside
<1>5. CASE \E e \in Events : StoreEvent(e) \/ Match(e) \/ Published(e)
  BY <1>5 DEF StoreEvent, Match, Published, dispatcher, Aside
<1>6. CASE TickFails \/ Restart
  <2>1. losses < MaxLosses /\ losses' = losses + 1 /\ DropBatch
    BY <1>6 DEF TickFails, Restart
  <2>2. UNCHANGED <<fails, dlv, order, sent>>
    BY <1>6 DEF TickFails, Restart, pubVars
  <2> QED
    BY <2>1, <2>2, <1>1 DEF Dropped
<1>7. CASE \E i \in batch : Undecryptable(i)
  BY <1>7, <1>1 DEF Undecryptable, pubVars, Dropped
<1> QED
  BY <1>2, <1>3, <1>4, <1>5, <1>6, <1>7 DEF Next, DispatchStep

-----------------------------------------------------------------------------
(* Deliveries and what becomes of them *)

\* A row is not the mark of a missing one, and has its three columns.
LEMMA RowFields ==
  ASSUME NEW a \in Attempts
  PROVE  /\ a # NoDelivery
         /\ a.status \in Statuses /\ a.n \in 0 .. MaxAttempts /\ a.over \in BOOLEAN
         /\ \A st \in {"leased", "pending"} :
               /\ [a EXCEPT !.status = st, !.over = FALSE] \in Attempts
               /\ [a EXCEPT !.status = st, !.over = FALSE].status = st
               /\ [a EXCEPT !.status = st, !.over = FALSE].n = a.n
         /\ [a EXCEPT !.over = TRUE] \in Attempts
         /\ [a EXCEPT !.over = TRUE].status = a.status
         /\ [a EXCEPT !.over = TRUE].n = a.n
<1>1. a # NoDelivery
  BY NoRowYet
<1> QED
  BY <1>1 DEF Attempts, Statuses

\* What record_success, record_permanent_failure and record_transient_failure
\* make of a leased row.
LEMMA RecordedRow ==
  ASSUME NEW a \in Attempts, a.n < MaxAttempts, NEW o \in Outcomes,
         NEW b, b = Recorded(a, o)
  PROVE  /\ b \in Attempts
         /\ b.status \in {"success", "failure", "retry"}
         /\ b.status = "success" => b.n = a.n
         /\ b.status # "success" => b.n = a.n + 1
         /\ b.status = "retry" => b.n < MaxAttempts
<1>1. /\ MaxAttempts \in Nat /\ a.n \in 0 .. MaxAttempts
      /\ a.n + 1 \in 0 .. MaxAttempts
      /\ (a.n + 1 >= MaxAttempts) \/ (a.n + 1 < MaxAttempts)
  BY NotificationsAssumption DEF Attempts
<1>2. CASE o = "accepted"
  <2>1. b = [a EXCEPT !.status = "success", !.over = FALSE]
    BY <1>2 DEF Recorded
  <2> QED
    BY <2>1 DEF Attempts, Statuses
<1>3. CASE o = "permanent"
  <2>1. b = [a EXCEPT !.status = "failure", !.n = a.n + 1, !.over = FALSE]
    BY <1>3 DEF Recorded
  <2> QED
    <3>1. b.status = "failure" /\ b.n = a.n + 1
      BY <2>1 DEF Attempts
    <3>2. b \in Attempts
      BY <2>1, <1>1 DEF Attempts, Statuses
    <3> QED
      BY <3>1, <3>2
<1>4. CASE o = "transient"
  <2>1. b =
           [a EXCEPT !.n = a.n + 1, !.over = FALSE,
                     !.status = IF a.n + 1 >= MaxAttempts THEN "failure" ELSE "retry"]
    BY <1>4 DEF Recorded
  <2> QED
    <3>1. /\ b.status = IF a.n + 1 >= MaxAttempts THEN "failure" ELSE "retry"
          /\ b.n = a.n + 1
      BY <2>1 DEF Attempts
    <3>2. b \in Attempts
      <4>1. (IF a.n + 1 >= MaxAttempts THEN "failure" ELSE "retry") \in Statuses
        BY DEF Statuses
      <4> QED
        BY <2>1, <1>1, <4>1 DEF Attempts
    <3> QED
      BY <3>1, <3>2, <1>1
<1> QED
  BY <1>2, <1>3, <1>4 DEF Outcomes

\* One delivery at a time is in hand.
LEMMA OneInHand ==
  ASSUME DeliveryTypes, NEW i, NEW k, InHand(i), InHand(k)
  PROVE  i = k
<1>1. i \in Nat /\ k \in Nat
  <2>1. DOMAIN order = 1 .. Len(order) /\ Len(order) \in Nat
    BY DEF DeliveryTypes
  <2> QED
    BY <2>1 DEF InHand, DeliveryTypes
<1>2. i <= k /\ k <= i
  BY DEF InHand
<1> QED
  BY <1>1, <1>2

\* A position of the batch stands for a delivery that exists.
LEMMA HeldRow ==
  ASSUME Inv, NEW i \in batch
  PROVE  /\ i \in DOMAIN order /\ order[i] \in Deliveries
         /\ dlv[order[i]] \in Attempts /\ dlv[order[i]] # NoDelivery
         /\ SubOf(order[i]) \in Subs
<1>1. i \in DOMAIN order /\ order[i] \in Deliveries
  BY DEF Inv, DeliveryTypes
<1>2. dlv[order[i]] # NoDelivery
  BY <1>1 DEF Inv, OrderedRows, Exists
<1> QED
  BY <1>1, <1>2 DEF Inv, DeliveryTypes, Deliveries, SubOf

\* publish adds one row at the end, or none.
LEMMA CreateEffect ==
  ASSUME Inv, NEW e \in Events, NEW s \in Subs, CreateDelivery(e, s)
  PROVE  /\ UNCHANGED <<fails, step, batch, outcome, sent, losses>>
         /\ \/ UNCHANGED <<dlv, order>>
            \/ /\ <<e, s>> \in Deliveries /\ ~Exists(<<e, s>>)
               /\ dlv' = [dlv EXCEPT ![<<e, s>>] = [status |-> "pending", n |-> 0, over |-> FALSE]]
               /\ order' = Append(order, <<e, s>>)
<1>1. UNCHANGED <<fails, step, batch, outcome, sent, losses>>
  BY DEF CreateDelivery, dispatcher
<1> QED
  BY <1>1 DEF CreateDelivery, Deliveries

\* Appending a new row keeps the others where they are.
LEMMA AppendRow ==
  ASSUME DeliveryTypes, OrderedRows, NEW d \in Deliveries, ~Exists(d)
  PROVE  /\ Append(order, d) \in Seq(Deliveries)
         /\ Len(order) \in Nat /\ DOMAIN order = 1 .. Len(order)
         /\ DOMAIN Append(order, d) = DOMAIN order \cup {Len(order) + 1}
         /\ \A i \in DOMAIN order : Append(order, d)[i] = order[i] /\ order[i] # d
         /\ Append(order, d)[Len(order) + 1] = d
<1>1. order \in Seq(Deliveries)
  BY DEF DeliveryTypes
<1>2. /\ Append(order, d) \in Seq(Deliveries)
      /\ Len(order) \in Nat /\ DOMAIN order = 1 .. Len(order)
      /\ DOMAIN Append(order, d) = 1 .. Len(order) + 1
      /\ \A i \in DOMAIN order : Append(order, d)[i] = order[i]
      /\ Append(order, d)[Len(order) + 1] = d
  BY ONLY <1>1, d \in Deliveries
<1>3. DOMAIN Append(order, d) = DOMAIN order \cup {Len(order) + 1}
  BY <1>2
<1>4. \A i \in DOMAIN order : order[i] # d
  BY DEF OrderedRows
<1> QED
  BY <1>2, <1>3, <1>4

\* lease_due takes due rows only, and leaves the settled ones alone.
LEMMA LeaseEffect ==
  ASSUME Inv, Lease
  PROVE  /\ UNCHANGED <<fails, order, outcome, sent, losses>>
         /\ step' = "inspect" /\ batch' \subseteq DOMAIN order
         /\ dlv' \in [Deliveries -> Attempts \cup {NoDelivery}]
         /\ \A i \in batch' : dlv'[order[i]].status = "leased"
         /\ \A d \in Deliveries :
               \/ dlv'[d] = dlv[d]
               \/ /\ Exists(d) /\ dlv[d].status \notin Terminal
                  /\ dlv'[d] \in Attempts /\ dlv'[d].n = dlv[d].n
                  /\ dlv'[d].status \in {"leased", "pending"}
<1> DEFINE found == {i \in DOMAIN order : Due(order[i])}
           new(d) == IF \E i \in batch' : order[i] = d
                     THEN [dlv[d] EXCEPT !.status = "leased", !.over = FALSE]
                     ELSE IF d \in Leased /\ dlv[d].over
                          THEN [dlv[d] EXCEPT !.status = "pending", !.over = FALSE]
                          ELSE dlv[d]
<1>1. UNCHANGED <<fails, order, outcome, sent, losses>> /\ step' = "inspect"
  BY DEF Lease, pubVars
<1>2. batch' = Oldest(found, BatchSize)
  BY DEF Lease
<1>3. batch' \subseteq found
  BY <1>2 DEF Oldest
<1>4. dlv' = [d \in Deliveries |-> new(d)]
  BY <1>2 DEF Lease
<1>5. \A d \in Deliveries : dlv[d] \in Attempts \cup {NoDelivery}
  BY DEF Inv, DeliveryTypes
<1>6. \A i \in batch' : order[i] \in Deliveries /\ Due(order[i])
  BY <1>3 DEF Inv, DeliveryTypes
<1> HIDE DEF found
<1>7. ASSUME NEW d \in Deliveries
      PROVE  /\ new(d) \in Attempts \cup {NoDelivery}
             /\ (\E i \in batch' : order[i] = d) => new(d).status = "leased"
             /\ \/ new(d) = dlv[d]
                \/ /\ Exists(d) /\ dlv[d].status \notin Terminal
                   /\ new(d) \in Attempts /\ new(d).n = dlv[d].n
                   /\ new(d).status \in {"leased", "pending"}
  <2>1. CASE \E i \in batch' : order[i] = d
    <3>1. Due(d)
      BY <2>1, <1>6
    <3>2. Exists(d) /\ dlv[d].status \notin Terminal
      BY <3>1 DEF Due, Terminal
    <3>3. dlv[d] \in Attempts
      BY <3>2, <1>5 DEF Exists
    <3>4. new(d) = [dlv[d] EXCEPT !.status = "leased", !.over = FALSE]
      BY <2>1
    <3>5. new(d) \in Attempts /\ new(d).status = "leased" /\ new(d).n = dlv[d].n
      BY ONLY <3>3, <3>4, RowFields
    <3> HIDE DEF new
    <3> QED
      BY <3>2, <3>5
  <2>2. CASE /\ ~\E i \in batch' : order[i] = d
             /\ d \in Leased /\ dlv[d].over
    <3>1. Exists(d) /\ dlv[d].status \notin Terminal
      BY <2>2 DEF Leased, Terminal
    <3>2. dlv[d] \in Attempts
      BY <3>1, <1>5 DEF Exists
    <3>3. new(d) = [dlv[d] EXCEPT !.status = "pending", !.over = FALSE]
      BY <2>2
    <3>4. new(d) \in Attempts /\ new(d).status = "pending" /\ new(d).n = dlv[d].n
      BY ONLY <3>2, <3>3, RowFields
    <3> HIDE DEF new
    <3> QED
      BY <2>2, <3>1, <3>4
  <2>3. CASE /\ ~\E i \in batch' : order[i] = d
             /\ ~(d \in Leased /\ dlv[d].over)
    <3>1. new(d) = dlv[d]
      BY <2>3
    <3> HIDE DEF new
    <3> QED
      BY <2>3, <3>1, <1>5
  <2> QED
    BY <2>1, <2>2, <2>3
<1> HIDE DEF new
<1>8. \A d \in Deliveries : dlv'[d] = new(d)
  BY <1>4
<1>9. batch' \subseteq DOMAIN order
  BY <1>3 DEF found
<1>10. dlv' \in [Deliveries -> Attempts \cup {NoDelivery}]
  BY <1>4, <1>7
<1>11. \A i \in batch' : dlv'[order[i]].status = "leased"
  BY <1>6, <1>7, <1>8
<1> QED
  BY <1>1, <1>7, <1>8, <1>9, <1>10, <1>11

\* update_delivery ends the lease of the delivery in hand.
LEMMA RecordEffect ==
  ASSUME Inv, NEW i \in batch, Record(i)
  PROVE  /\ UNCHANGED <<fails, order, sent, losses>> /\ outcome' = "none"
         /\ InHand(i) /\ step = "record"
         /\ order[i] \in Deliveries /\ dlv[order[i]] \in Attempts
         /\ dlv[order[i]].status = "leased"
         /\ dlv' \in [Deliveries -> Attempts \cup {NoDelivery}]
         /\ \A d \in Deliveries \ {order[i]} : dlv'[d] = dlv[d]
         /\ dlv'[order[i]] \in Attempts
         /\ dlv'[order[i]].status \in {"success", "failure", "retry"}
         /\ dlv'[order[i]].status = "success" => dlv'[order[i]].n = dlv[order[i]].n
         /\ dlv'[order[i]].status # "success" => dlv'[order[i]].n = dlv[order[i]].n + 1
         /\ dlv'[order[i]].status = "retry" => dlv'[order[i]].n < MaxAttempts
         /\ \/ dlv'[order[i]].status = "failure" /\ step' = "count" /\ batch' = batch
            \/ dlv'[order[i]].status # "failure" /\ step' = "inspect" /\ batch' = batch \ {i}
<1>1. UNCHANGED <<fails, order, sent, losses>> /\ outcome' = "none" /\ InHand(i) /\ step = "record"
  BY DEF Record, pubVars
<1>2. order[i] \in Deliveries /\ dlv[order[i]] \in Attempts /\ dlv[order[i]] # NoDelivery
  BY HeldRow
<1>3. dlv[order[i]].status = "leased"
  BY <1>1 DEF Inv, BatchLeased
<1>4. dlv[order[i]].n < MaxAttempts
  BY <1>2, <1>3 DEF Inv, AttemptLeft, Exists, Terminal
<1>5. outcome \in Outcomes
  BY <1>1 DEF Inv, OutcomeKnown
<1> DEFINE b == Recorded(dlv[order[i]], outcome)
<1>6. dlv' = [dlv EXCEPT ![order[i]] = b]
  BY DEF Record
<1>7. \/ dlv'[order[i]].status = "failure" /\ step' = "count" /\ batch' = batch
      \/ dlv'[order[i]].status # "failure" /\ step' = "inspect" /\ batch' = batch \ {i}
  BY DEF Record
<1>8. /\ b \in Attempts
      /\ b.status \in {"success", "failure", "retry"}
      /\ b.status = "success" => b.n = dlv[order[i]].n
      /\ b.status # "success" => b.n = dlv[order[i]].n + 1
      /\ b.status = "retry" => b.n < MaxAttempts
  BY <1>2, <1>4, <1>5, RecordedRow
<1> HIDE DEF b
<1>9. /\ dlv'[order[i]] = b
      /\ dlv' \in [Deliveries -> Attempts \cup {NoDelivery}]
      /\ \A d \in Deliveries \ {order[i]} : dlv'[d] = dlv[d]
  BY <1>2, <1>6, <1>8 DEF Inv, DeliveryTypes
<1> QED
  BY <1>1, <1>2, <1>3, <1>7, <1>8, <1>9

\* Another outcome, and nothing else about the deliveries.
LEMMA InspectEffect ==
  ASSUME Inv, NEW i \in batch, Inspect(i)
  PROVE  /\ UNCHANGED <<fails, dlv, order, batch, sent, losses>>
         /\ step = "inspect"
         /\ \/ step' = "record" /\ outcome' \in Outcomes
            \/ step' = "send" /\ outcome' = outcome
BY DEF Inspect, pubVars, Outcomes

\* The adapter is given the delivery in hand.
LEMMA SendEffect ==
  ASSUME Inv, NEW i \in batch, Send(i)
  PROVE  /\ UNCHANGED <<fails, dlv, order, batch, losses>>
         /\ step = "send" /\ step' = "record" /\ outcome' \in Outcomes
         /\ InHand(i) /\ order[i] \in Deliveries
         /\ sent' \in [Deliveries -> Nat]
         /\ sent'[order[i]] = sent[order[i]] + 1
         /\ \A d \in Deliveries \ {order[i]} : sent'[d] = sent[d]
<1>1. order[i] \in Deliveries /\ sent \in [Deliveries -> Nat]
  BY HeldRow DEF Inv, DeliveryTypes
<1>2. sent' = [sent EXCEPT ![order[i]] = sent[order[i]] + 1]
  BY DEF Send
<1>3. /\ sent' \in [Deliveries -> Nat]
      /\ sent'[order[i]] = sent[order[i]] + 1
      /\ \A d \in Deliveries \ {order[i]} : sent'[d] = sent[d]
  BY <1>1, <1>2
<1> QED
  BY <1>1, <1>3 DEF Send, pubVars

\* The failure of the delivery in hand is counted.
LEMMA CountEffect ==
  ASSUME Inv, NEW i \in batch, Count(i)
  PROVE  /\ UNCHANGED <<dlv, order, outcome, sent, losses>>
         /\ step = "count" /\ step' = "inspect" /\ batch' = batch \ {i}
         /\ InHand(i) /\ SubOf(order[i]) \in Subs
         /\ fails' \in [Subs -> Nat]
         /\ fails'[SubOf(order[i])] = fails[SubOf(order[i])] + 1
         /\ \A s \in Subs \ {SubOf(order[i])} : fails'[s] = fails[s]
<1>1. SubOf(order[i]) \in Subs /\ fails \in [Subs -> Nat]
  BY HeldRow DEF Inv, DeliveryTypes
<1>2. fails' = [fails EXCEPT ![SubOf(order[i])] = fails[SubOf(order[i])] + 1]
  BY DEF Count
<1> DEFINE s0 == SubOf(order[i])
<1>3. s0 \in Subs /\ fails' = [fails EXCEPT ![s0] = fails[s0] + 1]
  BY <1>1, <1>2
<1> HIDE DEF s0
<1>4. /\ fails' \in [Subs -> Nat]
      /\ fails'[s0] = fails[s0] + 1
      /\ \A s \in Subs \ {s0} : fails'[s] = fails[s]
  BY <1>1, <1>3
<1> QED
  BY <1>1, <1>4 DEF Count, pubVars, s0

\* The lease or the wait of a delivery the dispatcher does not hold is over.
LEMMA WaitEffect ==
  ASSUME Inv, NEW d \in Deliveries, WaitEnds(d)
  PROVE  /\ UNCHANGED <<fails, order, step, batch, outcome, sent, losses>>
         /\ dlv' \in [Deliveries -> Attempts \cup {NoDelivery}]
         /\ \A i \in batch : order[i] # d
         /\ dlv[d] \in Attempts /\ dlv[d].status \in {"leased", "retry"}
         /\ dlv'[d] \in Attempts /\ dlv'[d].status = dlv[d].status /\ dlv'[d].n = dlv[d].n
         /\ \A x \in Deliveries \ {d} : dlv'[x] = dlv[x]
<1>1. dlv \in [Deliveries -> Attempts \cup {NoDelivery}]
  BY DEF Inv, DeliveryTypes
<1>2. dlv[d] \in Attempts
  BY <1>1 DEF WaitEnds, Exists
<1> DEFINE b == [dlv[d] EXCEPT !.over = TRUE]
<1>3. dlv' = [dlv EXCEPT ![d] = b]
  BY DEF WaitEnds
<1>4. b \in Attempts /\ b.status = dlv[d].status /\ b.n = dlv[d].n
  BY ONLY <1>2, RowFields
<1> HIDE DEF b
<1>5. /\ dlv' \in [Deliveries -> Attempts \cup {NoDelivery}]
      /\ dlv'[d] = b
      /\ \A x \in Deliveries \ {d} : dlv'[x] = dlv[x]
  BY <1>1, <1>3, <1>4
<1> QED
  BY <1>2, <1>4, <1>5 DEF WaitEnds, pubVars, dispatcher

-----------------------------------------------------------------------------
(* The inductive invariant *)

\* It holds when nothing is published.
LEMMA InvInit == Init => Inv
<1> SUFFICES ASSUME Init PROVE Inv
  OBVIOUS
<1>1. order = <<>> /\ batch = {} /\ step = "idle" /\ outcome = "none"
  BY DEF Init
<1>2. \A d \in Deliveries : ~Exists(d)
  BY DEF Init, Exists
<1>3. DOMAIN order = {} /\ order \in Seq(Deliveries)
  BY ONLY <1>1
<1>4. DeliveryTypes
  <2>1. /\ fails \in [Subs -> Nat] /\ sent \in [Deliveries -> Nat]
        /\ dlv \in [Deliveries -> Attempts \cup {NoDelivery}]
    BY DEF Init
  <2>2. losses \in 0 .. MaxLosses
    BY NotificationsAssumption DEF Init
  <2> QED
    BY <1>1, <1>3, <2>1, <2>2 DEF DeliveryTypes
<1> QED
  BY <1>1, <1>2, <1>3, <1>4 DEF Inv, OrderedRows, AttemptLeft, BatchLeased, OutcomeKnown

\* Every step keeps it.
LEMMA InvStep ==
  ASSUME Inv, [Next]_vars
  PROVE  Inv'
<1>1. CASE Aside
  BY <1>1 DEF Aside, Inv, DeliveryTypes, OrderedRows, AttemptLeft, BatchLeased, OutcomeKnown,
              Exists, InHand
<1>2. CASE Dropped
  <2>1. batch' = {} /\ step' = "idle" /\ outcome' = "none"
        /\ UNCHANGED <<fails, dlv, order, sent>> /\ losses' \in 0 .. MaxLosses
    BY <1>2 DEF Dropped, DropBatch
  <2> QED
    BY <2>1 DEF Inv, DeliveryTypes, OrderedRows, AttemptLeft, BatchLeased, OutcomeKnown, Exists
<1>3. CASE Lease
  <2>1. DeliveryTypes'
    BY <1>3, LeaseEffect DEF Inv, DeliveryTypes
  <2>2. \A d \in Deliveries : Exists(d) => Exists(d)'
    BY <1>3, LeaseEffect, NoRowYet DEF Exists
  <2>3. OrderedRows'
    BY <1>3, LeaseEffect, <2>2 DEF Inv, OrderedRows, DeliveryTypes
  <2>4. AttemptLeft'
    BY <1>3, LeaseEffect DEF Inv, AttemptLeft, Exists
  <2>5. BatchLeased' /\ OutcomeKnown'
    BY <1>3, LeaseEffect DEF BatchLeased, OutcomeKnown
  <2> QED
    BY <2>1, <2>3, <2>4, <2>5 DEF Inv
<1>4. CASE TickEnds
  BY <1>4 DEF TickEnds, pubVars, Inv, DeliveryTypes, OrderedRows, AttemptLeft, BatchLeased,
              OutcomeKnown, Exists, InHand
<1>5. ASSUME NEW e \in Events, NEW s \in Subs, CreateDelivery(e, s)
      PROVE  Inv'
  <2> DEFINE d == <<e, s>>
             row == [status |-> "pending", n |-> 0, over |-> FALSE]
  <2>1. CASE UNCHANGED <<dlv, order>>
    BY <1>5, <2>1, CreateEffect DEF Inv, DeliveryTypes, OrderedRows, AttemptLeft, BatchLeased,
                                    OutcomeKnown, Exists, InHand
  <2>2. CASE ~UNCHANGED <<dlv, order>>
    <3>1. /\ UNCHANGED <<fails, step, batch, outcome, sent, losses>>
          /\ d \in Deliveries /\ ~Exists(d)
          /\ dlv' = [dlv EXCEPT ![d] = row]
          /\ order' = Append(order, d)
      BY <1>5, <2>2, CreateEffect
    <3>2. row \in Attempts /\ row # NoDelivery /\ row.status = "pending" /\ row.n = 0
      <4>1. row \in Attempts
        BY NotificationsAssumption DEF Attempts, Statuses
      <4> QED
        BY <4>1, NoRowYet
    <3> HIDE DEF d, row
    <3>3. /\ dlv' \in [Deliveries -> Attempts \cup {NoDelivery}] /\ dlv'[d] = row
          /\ \A x \in Deliveries \ {d} : dlv'[x] = dlv[x]
      BY <3>1, <3>2 DEF Inv, DeliveryTypes
    <3>4. /\ order' \in Seq(Deliveries) /\ DOMAIN order' = DOMAIN order \cup {Len(order) + 1}
          /\ \A i \in DOMAIN order : order'[i] = order[i] /\ order[i] # d
          /\ order'[Len(order) + 1] = d
      BY <3>1, AppendRow DEF Inv
    <3>5. DeliveryTypes'
      BY <3>1, <3>3, <3>4 DEF Inv, DeliveryTypes
    <3>6. \A i \in DOMAIN order : order[i] \in Deliveries
      BY DEF Inv, DeliveryTypes
    <3>7. OrderedRows'
      BY <3>2, <3>3, <3>4, <3>6 DEF Inv, OrderedRows, Exists
    <3>8. AttemptLeft'
      BY <3>2, <3>3, NotificationsAssumption DEF Inv, AttemptLeft, Exists
    <3>9. BatchLeased'
      BY <3>1, <3>3, <3>4, <3>6 DEF Inv, DeliveryTypes, BatchLeased, InHand
    <3> QED
      BY <3>1, <3>5, <3>7, <3>8, <3>9 DEF Inv, OutcomeKnown
  <2> QED
    BY <2>1, <2>2
<1>6. ASSUME NEW i \in batch, Inspect(i)
      PROVE  Inv'
  BY <1>6, InspectEffect DEF Inv, DeliveryTypes, OrderedRows, AttemptLeft, BatchLeased,
                             OutcomeKnown, Exists, InHand
<1>7. ASSUME NEW i \in batch, Send(i)
      PROVE  Inv'
  BY <1>7, SendEffect DEF Inv, DeliveryTypes, OrderedRows, AttemptLeft, BatchLeased,
                          OutcomeKnown, Exists, InHand
<1>8. ASSUME NEW i \in batch, Record(i)
      PROVE  Inv'
  <2>1. DeliveryTypes'
    BY <1>8, RecordEffect DEF Inv, DeliveryTypes
  <2>2. \A d \in Deliveries : Exists(d) => Exists(d)'
    BY <1>8, RecordEffect, NoRowYet DEF Exists
  <2>3. OrderedRows'
    BY <1>8, RecordEffect, <2>2 DEF Inv, OrderedRows, DeliveryTypes
  <2>4. AttemptLeft'
    BY <1>8, RecordEffect DEF Inv, AttemptLeft, Exists, Terminal
  <2>5. BatchLeased'
    <3> SUFFICES ASSUME NEW k \in batch'
                 PROVE  \/ dlv'[order[k]].status = "leased"
                        \/ /\ step' = "count" /\ InHand(k)'
                           /\ dlv'[order[k]].status = "failure"
      BY <1>8, RecordEffect DEF BatchLeased
    <3>1. k \in batch /\ order[k] \in Deliveries
      BY <1>8, RecordEffect, HeldRow
    <3>2. CASE k = i
      BY <1>8, <3>1, <3>2, RecordEffect DEF InHand
    <3>3. CASE k # i
      <4>1. order[k] # order[i]
        BY <3>1, <3>3, HeldRow DEF Inv, OrderedRows
      <4>2. dlv[order[k]].status = "leased"
        BY <1>8, <3>1, RecordEffect DEF Inv, BatchLeased
      <4> QED
        BY <1>8, <3>1, <4>1, <4>2, RecordEffect
    <3> QED
      BY <3>2, <3>3
  <2> QED
    BY <1>8, RecordEffect, <2>1, <2>3, <2>4, <2>5 DEF Inv, OutcomeKnown
<1>9. ASSUME NEW i \in batch, Count(i)
      PROVE  Inv'
  <2>1. DeliveryTypes' /\ OutcomeKnown'
    BY <1>9, CountEffect DEF Inv, DeliveryTypes, OutcomeKnown
  <2>2. OrderedRows' /\ AttemptLeft'
    BY <1>9, CountEffect DEF Inv, OrderedRows, AttemptLeft, Exists
  <2>3. BatchLeased'
    BY <1>9, CountEffect, OneInHand DEF Inv, BatchLeased
  <2> QED
    BY <2>1, <2>2, <2>3 DEF Inv
<1>10. ASSUME NEW d \in Deliveries, WaitEnds(d)
       PROVE  Inv'
  <2>1. DeliveryTypes' /\ OutcomeKnown'
    BY <1>10, WaitEffect DEF Inv, DeliveryTypes, OutcomeKnown
  <2>2. \A x \in Deliveries : Exists(x) => Exists(x)'
    BY <1>10, WaitEffect, NoRowYet DEF Exists
  <2>3. OrderedRows'
    BY <1>10, WaitEffect, <2>2 DEF Inv, OrderedRows, DeliveryTypes
  <2>4. AttemptLeft'
    BY <1>10, WaitEffect, NoRowYet DEF Inv, AttemptLeft, Exists
  <2>5. BatchLeased'
    BY <1>10, WaitEffect, HeldRow DEF Inv, BatchLeased, InHand
  <2> QED
    BY <2>1, <2>3, <2>4, <2>5 DEF Inv
<1> QED
  BY Steps, <1>1, <1>2, <1>3, <1>4, <1>5, <1>6, <1>7, <1>8, <1>9, <1>10

\* The invariant holds throughout.
LEMMA InvAlways == Spec => []Inv
<1>1. Inv /\ [Next]_vars => Inv'
  BY InvStep
<1> QED
  BY InvInit, <1>1, PTL DEF Spec

-----------------------------------------------------------------------------
(* Outcomes are final *)

\* However ticks, failures and expiring leases interleave, a delivery that has
\* succeeded or failed for good is never written again: lease_due does not take
\* it and update_delivery finds every delivery of the batch still leased.
THEOREM OutcomesFinal == Spec => OutcomeFinal
<1> DEFINE Kept == \A d \in Deliveries :
                      Exists(d) /\ dlv[d].status \in Terminal => dlv'[d] = dlv[d]
<1>1. ASSUME Inv, [Next]_vars
      PROVE  Kept
  <2> SUFFICES ASSUME NEW d \in Deliveries, Exists(d), dlv[d].status \in Terminal
               PROVE  dlv'[d] = dlv[d]
    OBVIOUS
  <2>1. CASE Aside \/ Dropped
    BY <2>1 DEF Aside, Dropped
  <2>2. CASE Lease
    BY <1>1, <2>2, LeaseEffect
  <2>3. CASE TickEnds
    BY <2>3 DEF TickEnds
  <2>4. ASSUME NEW e \in Events, NEW s \in Subs, CreateDelivery(e, s)
        PROVE  dlv'[d] = dlv[d]
    BY <1>1, <2>4, CreateEffect DEF Inv, DeliveryTypes
  <2>5. ASSUME NEW i \in batch, Inspect(i) \/ Send(i) \/ Count(i)
        PROVE  dlv'[d] = dlv[d]
    BY <2>5 DEF Inspect, Send, Count
  <2>6. ASSUME NEW i \in batch, Record(i)
        PROVE  dlv'[d] = dlv[d]
    BY <1>1, <2>6, RecordEffect DEF Terminal
  <2>7. ASSUME NEW x \in Deliveries, WaitEnds(x)
        PROVE  dlv'[d] = dlv[d]
    BY <1>1, <2>7, WaitEffect DEF Terminal
  <2> QED
    BY <1>1, Steps, <2>1, <2>2, <2>3, <2>4, <2>5, <2>6, <2>7
<1>2. Inv /\ [Next]_vars => [Kept]_vars
  BY <1>1
<1>3. OutcomeFinal <=> [][Kept]_vars
  BY DEF OutcomeFinal
<1> QED
  BY InvAlways, <1>2, <1>3, PTL DEF Spec

-----------------------------------------------------------------------------
(* Types *)

\* The steps of the dispatcher, and time, leave publishers and settings alone;
\* the rate limiter stays within its rate.
LEMMA SettingStep ==
  ASSUME Inv, SettingTypes, [Next]_vars
  PROVE  SettingTypes'
<1>0. Rate \in Nat /\ ChannelOf \in [Subs -> Channels]
  BY NotificationsAssumption
<1>1. CASE UNCHANGED <<chan, sub, bad, pub, todo, calls>>
  BY <1>1 DEF SettingTypes
<1>2. ASSUME NEW c \in Channels, DisableChannel(c)
      PROVE  SettingTypes'
  BY <1>2 DEF DisableChannel, SettingTypes, pubVars
<1>3. ASSUME NEW c \in Channels, SlotFrees(c)
      PROVE  SettingTypes'
  BY <1>0, <1>3 DEF SlotFrees, SettingTypes, pubVars
<1>4. ASSUME NEW s \in Subs, DisableSubscription(s)
      PROVE  SettingTypes'
  BY <1>4 DEF DisableSubscription, SettingTypes, pubVars
<1>5. ASSUME NEW e \in Events, StoreEvent(e) \/ Published(e)
      PROVE  SettingTypes'
  BY <1>5 DEF StoreEvent, Published, SettingTypes
<1>6. ASSUME NEW e \in Events, Match(e)
      PROVE  SettingTypes'
  <2>1. PICK S \in SUBSET {s \in Subs : sub[s]} : todo' = [todo EXCEPT ![e] = S]
    BY <1>6 DEF Match
  <2>2. todo' \in [Events -> SUBSET Subs]
    BY <2>1 DEF SettingTypes
  <2> QED
    BY <1>6, <2>2 DEF Match, SettingTypes
<1>7. ASSUME NEW e \in Events, NEW s \in Subs, CreateDelivery(e, s)
      PROVE  SettingTypes'
  <2>1. todo' = [todo EXCEPT ![e] = todo[e] \ {s}] /\ UNCHANGED <<chan, sub, bad, pub, calls>>
    BY <1>7 DEF CreateDelivery
  <2> QED
    BY <2>1 DEF SettingTypes
<1>8. ASSUME NEW i \in batch, Inspect(i) \/ Undecryptable(i)
      PROVE  SettingTypes'
  <2> DEFINE c == ChannelOf[SubOf(order[i])]
  <2>1. c \in Channels
    BY <1>0, HeldRow
  <2>2. /\ UNCHANGED <<chan, sub, bad, pub, todo>>
        /\ \/ calls' = calls
           \/ calls[c] < Rate /\ calls' = [calls EXCEPT ![c] = calls[c] + 1]
    BY <1>8 DEF Inspect, Undecryptable, pubVars
  <2> HIDE DEF c
  <2> QED
    BY <1>0, <2>1, <2>2 DEF SettingTypes
<1>9. CASE Restart
  <2>1. /\ UNCHANGED <<chan, sub, bad, todo>> /\ calls' = [c \in Channels |-> 0]
        /\ pub' = [e \in Events |-> IF pub[e] \in {"stored", "each"} THEN "lost" ELSE pub[e]]
    BY <1>9 DEF Restart
  <2> QED
    BY <1>0, <2>1 DEF SettingTypes
<1>10. CASE Lease \/ TickEnds \/ TickFails \/ (\E i \in batch : Send(i) \/ Record(i) \/ Count(i))
            \/ (\E d \in Deliveries : WaitEnds(d)) \/ UNCHANGED vars
  <2>1. UNCHANGED <<chan, sub, bad, pub, todo, calls>>
    BY <1>10 DEF Lease, TickEnds, TickFails, Send, Record, Count, WaitEnds, vars, pubVars
  <2> QED
    BY <2>1, <1>1
<1> QED
  BY <1>2, <1>3, <1>4, <1>5, <1>6, <1>7, <1>8, <1>9, <1>10 DEF Next, DispatchStep

\* Types: rows, positions, attempts and rate counters stay within their bounds.
THEOREM NotificationTypes == Spec => []TypeOK
<1>1. Init => SettingTypes
  BY NotificationsAssumption DEF Init, SettingTypes
<1>2. Inv /\ SettingTypes /\ [Next]_vars => SettingTypes'
  BY SettingStep
<1>3. Spec => []SettingTypes
  BY InvAlways, <1>1, <1>2, PTL DEF Spec
<1>4. Inv /\ SettingTypes => TypeOK
  BY TypeParts DEF Inv
<1> QED
  BY InvAlways, <1>3, <1>4, PTL

-----------------------------------------------------------------------------
(* Repeated sends *)

\* The outcome of the delivery in hand is there and not yet recorded.
Unrecorded(d) == step = "record" /\ \E i \in batch : InHand(i) /\ order[i] = d

\* The sends of a delivery that its attempts and the losses explain.
Allowed(d) == dlv[d].n + losses + One(dlv[d].status = "success") + One(Unrecorded(d))

\* It is a number, with one more for a success or an outcome not yet recorded.
AllowedNumber ==
    Inv => \A d \in Deliveries : Exists(d) =>
       /\ dlv[d].n \in Nat /\ losses \in Nat /\ sent[d] \in Nat /\ Allowed(d) \in Nat
       /\ Unrecorded(d) => dlv[d].status = "leased"
       /\ Unrecorded(d) \/ dlv[d].status = "success" => Allowed(d) = dlv[d].n + losses + 1
       /\ ~Unrecorded(d) /\ dlv[d].status # "success" => Allowed(d) = dlv[d].n + losses

\* What is allowed is counted in every state of the invariant.
LEMMA AllowedIs == AllowedNumber
<1> SUFFICES ASSUME Inv, NEW d \in Deliveries, Exists(d)
             PROVE  /\ dlv[d].n \in Nat /\ losses \in Nat /\ sent[d] \in Nat /\ Allowed(d) \in Nat
                    /\ Unrecorded(d) => dlv[d].status = "leased"
                    /\ Unrecorded(d) \/ dlv[d].status = "success"
                          => Allowed(d) = dlv[d].n + losses + 1
                    /\ ~Unrecorded(d) /\ dlv[d].status # "success"
                          => Allowed(d) = dlv[d].n + losses
  BY DEF AllowedNumber
<1>1. dlv[d] \in Attempts /\ sent[d] \in Nat /\ losses \in 0 .. MaxLosses
  BY DEF Inv, DeliveryTypes, Exists
<1>2. dlv[d].n \in Nat /\ losses \in Nat
  BY <1>1, NotificationsAssumption DEF Attempts
<1>3. Unrecorded(d) => dlv[d].status = "leased"
  BY DEF Unrecorded, Inv, BatchLeased
<1>4. CASE Unrecorded(d)
  <2>1. One(Unrecorded(d)) = 1 /\ One(dlv[d].status = "success") = 0
    BY <1>3, <1>4 DEF One
  <2>2. Allowed(d) = dlv[d].n + losses + 1
    BY <1>2, <2>1 DEF Allowed
  <2> QED
    BY <1>1, <1>2, <1>3, <1>4, <2>2
<1>5. CASE ~Unrecorded(d) /\ dlv[d].status = "success"
  <2>1. One(Unrecorded(d)) = 0 /\ One(dlv[d].status = "success") = 1
    BY <1>5 DEF One
  <2> QED
    BY <1>1, <1>2, <1>5, <2>1 DEF Allowed
<1>6. CASE ~Unrecorded(d) /\ dlv[d].status # "success"
  <2>1. One(Unrecorded(d)) = 0 /\ One(dlv[d].status = "success") = 0
    BY <1>6 DEF One
  <2> QED
    BY <1>1, <1>2, <1>6, <2>1 DEF Allowed
<1> QED
  BY <1>4, <1>5, <1>6

\* The next state is one of them.
LEMMA AllowedNext == AllowedNumber'
BY AllowedIs, PTL

\* The part of the invariant that a send of d must keep.
Explained(d) ==
    /\ ~Exists(d) => sent[d] = 0
    /\ Exists(d) => sent[d] <= Allowed(d)

\* The explanations of all deliveries are the property.
LEMMA ExplainedAll ==
  (\A d \in Deliveries : Explained(d)) <=> ResendsExplained /\ UnsentUnborn
BY DEF Explained, ResendsExplained, UnsentUnborn, Allowed, Unrecorded

\* Every step keeps what explains the sends of a delivery.
LEMMA ExplainedStep ==
  ASSUME Inv, Inv', NEW d \in Deliveries, Explained(d), [Next]_vars
  PROVE  Explained(d)'
<1>1. Exists(d) =>
         /\ dlv[d].n \in Nat /\ losses \in Nat /\ sent[d] \in Nat /\ Allowed(d) \in Nat
         /\ Unrecorded(d) => dlv[d].status = "leased"
         /\ Unrecorded(d) \/ dlv[d].status = "success" => Allowed(d) = dlv[d].n + losses + 1
         /\ ~Unrecorded(d) /\ dlv[d].status # "success" => Allowed(d) = dlv[d].n + losses
         /\ sent[d] <= Allowed(d)
  BY AllowedIs DEF AllowedNumber, Explained
<1>2. Exists(d)' =>
         /\ dlv'[d].n \in Nat /\ losses' \in Nat /\ sent'[d] \in Nat /\ Allowed(d)' \in Nat
         /\ Unrecorded(d)' \/ dlv'[d].status = "success"
               => Allowed(d)' = dlv'[d].n + losses' + 1
         /\ ~Unrecorded(d)' /\ dlv'[d].status # "success" => Allowed(d)' = dlv'[d].n + losses'
  BY AllowedNext DEF AllowedNumber
<1>3. ~Exists(d) => sent[d] = 0
  BY DEF Explained
<1>4. CASE Aside
  BY <1>4 DEF Aside, Explained, Exists, Allowed, Unrecorded, InHand
<1>5. CASE Dropped
  <2>1. UNCHANGED <<dlv, sent>> /\ ~Unrecorded(d)'
        /\ (losses' = losses + 1 \/ (losses' = losses /\ ~Unrecorded(d)))
    BY <1>5 DEF Dropped, DropBatch, Unrecorded
  <2>2. Exists(d)' <=> Exists(d)
    BY <2>1 DEF Exists
  <2> QED
    BY <1>1, <1>2, <1>3, <2>1, <2>2 DEF Explained
<1>6. CASE Lease
  <2>1. /\ UNCHANGED <<sent, losses>> /\ ~Unrecorded(d) /\ ~Unrecorded(d)'
        /\ \/ dlv'[d] = dlv[d]
           \/ /\ Exists(d) /\ dlv'[d].n = dlv[d].n
              /\ dlv[d].status # "success" /\ dlv'[d].status # "success"
    BY <1>6, LeaseEffect DEF Unrecorded, Lease, Terminal
  <2>2. Exists(d)' => Exists(d)
    BY <2>1 DEF Exists
  <2>3. ~Exists(d)' => ~Exists(d)
    BY <1>6, LeaseEffect, NoRowYet DEF Exists
  <2> QED
    BY <1>1, <1>2, <1>3, <2>1, <2>2, <2>3 DEF Explained
<1>7. CASE TickEnds
  <2>1. UNCHANGED <<dlv, sent, losses>> /\ ~Unrecorded(d) /\ ~Unrecorded(d)'
    BY <1>7 DEF TickEnds, Unrecorded
  <2> QED
    BY <1>1, <1>2, <1>3, <2>1 DEF Explained, Exists
<1>8. ASSUME NEW e \in Events, NEW s \in Subs, CreateDelivery(e, s)
      PROVE  Explained(d)'
  <2>1. UNCHANGED <<sent, losses, step, batch>>
    BY <1>8, CreateEffect
  <2>2. dlv'[d] = dlv[d] \/ ~Exists(d)
    BY <1>8, CreateEffect DEF Inv, DeliveryTypes
  <2>3. Unrecorded(d)' <=> Unrecorded(d)
    <3>1. \A i \in batch : order'[i] = order[i]
      <4>1. CASE order' = order
        BY <4>1
      <4>2. CASE order' # order
        <5>1. <<e, s>> \in Deliveries /\ ~Exists(<<e, s>>) /\ order' = Append(order, <<e, s>>)
          BY <1>8, <4>2, CreateEffect
        <5> QED
          BY <5>1, AppendRow, HeldRow DEF Inv
      <4> QED
        BY <4>1, <4>2
    <3> QED
      BY <2>1, <3>1 DEF Unrecorded, InHand
  <2>4. CASE ~Exists(d)
    BY <1>2, <1>3, <2>1, <2>4 DEF Explained
  <2>5. CASE Exists(d)
    BY <1>1, <1>2, <2>1, <2>2, <2>3, <2>5 DEF Explained, Exists
  <2> QED
    BY <2>4, <2>5
<1>9. ASSUME NEW i \in batch, Inspect(i)
      PROVE  Explained(d)'
  <2>1. UNCHANGED <<dlv, sent, losses>> /\ ~Unrecorded(d)
    BY <1>9, InspectEffect DEF Unrecorded
  <2> QED
    BY <1>1, <1>2, <1>3, <2>1 DEF Explained, Exists
<1>10. ASSUME NEW i \in batch, Send(i)
       PROVE  Explained(d)'
  <2>1. UNCHANGED <<dlv, losses, order, batch>> /\ ~Unrecorded(d) /\ step' = "record" /\ InHand(i)
    BY <1>10, SendEffect DEF Unrecorded
  <2>2. CASE d = order[i]
    <3>1. Exists(d) /\ Unrecorded(d)' /\ dlv[d].status = "leased"
      BY <1>10, <2>1, <2>2, HeldRow, SendEffect DEF Unrecorded, InHand, Exists, Inv, BatchLeased
    <3>2. sent'[d] = sent[d] + 1
      BY <1>10, <2>2, SendEffect
    <3> QED
      BY <1>1, <1>2, <2>1, <3>1, <3>2 DEF Explained, Exists
  <2>3. CASE d # order[i]
    <3>1. sent'[d] = sent[d]
      BY <1>10, <2>3, SendEffect
    <3> QED
      BY <1>1, <1>2, <1>3, <2>1, <3>1 DEF Explained, Exists
  <2> QED
    BY <2>2, <2>3
<1>11. ASSUME NEW i \in batch, Record(i)
       PROVE  Explained(d)'
  <2>1. UNCHANGED <<losses, sent>> /\ step' # "record" /\ ~Unrecorded(d)'
    BY <1>11, RecordEffect DEF Unrecorded
  <2>2. CASE d = order[i]
    <3>1. Exists(d) /\ Unrecorded(d) /\ Exists(d)'
      BY <1>11, <2>2, RecordEffect, NoRowYet DEF Unrecorded, Exists
    <3>2. \/ dlv'[d].status = "success" /\ dlv'[d].n = dlv[d].n
          \/ dlv'[d].status # "success" /\ dlv'[d].n = dlv[d].n + 1
      BY <1>11, <2>2, RecordEffect
    <3> QED
      BY <1>1, <1>2, <2>1, <3>1, <3>2 DEF Explained
  <2>3. CASE d # order[i]
    <3>1. dlv'[d] = dlv[d] /\ (Exists(d)' <=> Exists(d))
      BY <1>11, <2>3, RecordEffect DEF Exists
    <3>2. ~Unrecorded(d)
      BY <1>11, <2>3, RecordEffect, OneInHand DEF Unrecorded, Inv
    <3> QED
      BY <1>1, <1>2, <1>3, <2>1, <3>1, <3>2 DEF Explained
  <2> QED
    BY <2>2, <2>3
<1>12. ASSUME NEW i \in batch, Count(i)
       PROVE  Explained(d)'
  <2>1. UNCHANGED <<dlv, sent, losses>> /\ ~Unrecorded(d) /\ ~Unrecorded(d)'
    BY <1>12, CountEffect DEF Unrecorded
  <2> QED
    BY <1>1, <1>2, <1>3, <2>1 DEF Explained, Exists
<1>13. ASSUME NEW x \in Deliveries, WaitEnds(x)
       PROVE  Explained(d)'
  <2>1. UNCHANGED <<sent, losses>> /\ (Unrecorded(d)' <=> Unrecorded(d))
    BY <1>13, WaitEffect DEF Unrecorded, InHand
  <2>2. \/ dlv'[d] = dlv[d]
        \/ Exists(d) /\ Exists(d)' /\ dlv'[d].n = dlv[d].n /\ dlv'[d].status = dlv[d].status
    BY <1>13, WaitEffect, NoRowYet DEF Exists
  <2> QED
    BY <1>1, <1>2, <1>3, <2>1, <2>2 DEF Explained, Exists
<1> QED
  BY Steps, <1>4, <1>5, <1>6, <1>7, <1>8, <1>9, <1>10, <1>11, <1>12, <1>13

\* Delivery is at least once and no more than explained: whatever interleaves,
\* an adapter call is repeated only after a recorded failure or a tick that was
\* cut between the call and its record.
THEOREM ResendsHaveReasons == Spec => []ResendsExplained
<1> DEFINE All == \A d \in Deliveries : Explained(d)
<1>1. Init => All
  BY DEF Init, Explained, Exists
<1>2. Inv /\ Inv' /\ All /\ [Next]_vars => All'
  BY ExplainedStep
<1>3. All => ResendsExplained
  BY ExplainedAll
<1> HIDE DEF All
<1> QED
  BY InvAlways, <1>1, <1>2, <1>3, PTL DEF Spec

-----------------------------------------------------------------------------
(* failure_count *)

\* A row that has failed for good.
FailedRow(d) == Exists(d) /\ dlv[d].status = "failure"

\* failure_count and the failure about to be counted are at most the failures
\* on record, which are at most these and the losses.
Balanced(s) ==
    /\ IsFiniteSet(Failed(s))
    /\ fails[s] + One(Counting(s)) <= Cardinality(Failed(s))
    /\ Cardinality(Failed(s)) <= fails[s] + losses + One(Counting(s))

\* A step that fails no delivery keeps the balance of a subscription, if it
\* neither counts nor forgets to count, or if it counts as a loss.
LEMMA BalanceKept ==
  ASSUME Inv, Inv', NEW s \in Subs, Balanced(s), fails'[s] = fails[s],
         \A d \in Deliveries : FailedRow(d)' <=> FailedRow(d),
         \/ losses' = losses /\ (Counting(s)' <=> Counting(s))
         \/ losses' = losses + 1 /\ ~Counting(s)'
  PROVE  Balanced(s)'
<1>1. Failed(s)' = Failed(s)
  BY DEF Failed, FailedRow
<1>2. fails[s] \in Nat /\ losses \in Nat /\ losses' \in Nat
  BY NotificationsAssumption DEF Inv, DeliveryTypes
<1>3. Cardinality(Failed(s)) \in Nat
  BY FS_CardinalityType DEF Balanced
<1> DEFINE f == fails[s]
           card == Cardinality(Failed(s))
           one == One(Counting(s))
           next == One(Counting(s)')
<1>4. one \in {0, 1} /\ next \in {0, 1}
  BY DEF One
<1>5. \/ losses' = losses /\ next = one
      \/ losses' = losses + 1 /\ next = 0
  BY DEF One
<1>6. f + one <= card /\ card <= f + losses + one
  BY DEF Balanced
<1>7. f \in Nat /\ losses \in Nat /\ card \in Nat
  BY <1>2, <1>3
<1> HIDE DEF f, card, one, next
<1>8. f + next <= card /\ card <= f + losses' + next
  BY <1>4, <1>5, <1>6, <1>7
<1> QED
  BY <1>1, <1>8 DEF Balanced, f, card, next, One

\* Every step keeps the balance: a failure is recorded in one step and counted
\* in the next one of the dispatcher, or the tick is cut between the two.
LEMMA BalanceStep ==
  ASSUME Inv, Inv', NEW s \in Subs, Balanced(s), [Next]_vars
  PROVE  Balanced(s)'
<1>1. CASE Aside
  <2>1. fails'[s] = fails[s] /\ losses' = losses /\ (Counting(s)' <=> Counting(s))
    BY <1>1 DEF Aside, Counting, InHand
  <2>2. \A d \in Deliveries : FailedRow(d)' <=> FailedRow(d)
    BY <1>1 DEF Aside, FailedRow, Exists
  <2> QED
    BY <2>1, <2>2, BalanceKept
<1>2. CASE Dropped
  <2>1. fails'[s] = fails[s] /\ ~Counting(s)' /\ (losses' = losses + 1 \/ losses' = losses)
        /\ (losses' = losses => ~Counting(s))
    <3>1. losses \in Nat
      BY NotificationsAssumption DEF Inv, DeliveryTypes
    <3> QED
      BY <1>2, <3>1 DEF Dropped, DropBatch, Counting
  <2>2. \A d \in Deliveries : FailedRow(d)' <=> FailedRow(d)
    BY <1>2 DEF Dropped, FailedRow, Exists
  <2> QED
    BY <2>1, <2>2, BalanceKept
<1>3. CASE Lease
  <2>1. fails'[s] = fails[s] /\ losses' = losses /\ ~Counting(s) /\ ~Counting(s)'
    BY <1>3, LeaseEffect DEF Lease, Counting
  <2>2. \A d \in Deliveries : FailedRow(d)' <=> FailedRow(d)
    BY <1>3, LeaseEffect DEF FailedRow, Exists, Terminal
  <2> QED
    BY <2>1, <2>2, BalanceKept
<1>4. CASE TickEnds
  <2>1. fails'[s] = fails[s] /\ losses' = losses /\ ~Counting(s) /\ ~Counting(s)'
    BY <1>4 DEF TickEnds, Counting
  <2>2. \A d \in Deliveries : FailedRow(d)' <=> FailedRow(d)
    BY <1>4 DEF TickEnds, FailedRow, Exists
  <2> QED
    BY <2>1, <2>2, BalanceKept
<1>5. ASSUME NEW e \in Events, NEW t \in Subs, CreateDelivery(e, t)
      PROVE  Balanced(s)'
  <2>1. UNCHANGED <<fails, losses, step, batch>>
    BY <1>5, CreateEffect
  <2>2. CASE UNCHANGED <<dlv, order>>
    <3>1. Counting(s)' <=> Counting(s)
      BY <2>1, <2>2 DEF Counting, InHand
    <3>2. \A d \in Deliveries : FailedRow(d)' <=> FailedRow(d)
      BY <2>2 DEF FailedRow, Exists
    <3> QED
      BY <2>1, <3>1, <3>2, BalanceKept
  <2>3. CASE ~UNCHANGED <<dlv, order>>
    <3> DEFINE d == <<e, t>>
               row == [status |-> "pending", n |-> 0, over |-> FALSE]
    <3>1. /\ d \in Deliveries /\ ~Exists(d) /\ order' = Append(order, d)
          /\ dlv' = [dlv EXCEPT ![d] = row] /\ row.status = "pending"
      BY <1>5, <2>3, CreateEffect
    <3> HIDE DEF d, row
    <3>2. \A i \in batch : order'[i] = order[i]
      BY <3>1, AppendRow, HeldRow DEF Inv
    <3>3. Counting(s)' <=> Counting(s)
      BY <2>1, <3>2 DEF Counting, InHand
    <3>4. \A x \in Deliveries : FailedRow(x)' <=> FailedRow(x)
      BY <3>1 DEF FailedRow, Exists, Inv, DeliveryTypes
    <3> QED
      BY <2>1, <3>3, <3>4, BalanceKept
  <2> QED
    BY <2>2, <2>3
<1>6. ASSUME NEW i \in batch, Inspect(i) \/ Send(i)
      PROVE  Balanced(s)'
  <2>1. fails'[s] = fails[s] /\ losses' = losses /\ ~Counting(s) /\ ~Counting(s)'
    BY <1>6, InspectEffect, SendEffect DEF Counting
  <2>2. \A d \in Deliveries : FailedRow(d)' <=> FailedRow(d)
    BY <1>6, InspectEffect, SendEffect DEF FailedRow, Exists
  <2> QED
    BY <2>1, <2>2, BalanceKept
<1>7. ASSUME NEW i \in batch, Record(i)
      PROVE  Balanced(s)'
  <2>1. /\ UNCHANGED <<fails, losses, order>> /\ ~Counting(s) /\ order[i] \in Deliveries
        /\ ~FailedRow(order[i]) /\ InHand(i)
        /\ \A d \in Deliveries \ {order[i]} : FailedRow(d)' <=> FailedRow(d)
    BY <1>7, RecordEffect DEF Counting, FailedRow, Exists
  <2>2. CASE dlv'[order[i]].status # "failure"
    <3>1. step' = "inspect"
      BY <1>7, <2>2, RecordEffect
    <3>2. ~Counting(s)'
      BY <3>1 DEF Counting
    <3>3. \A d \in Deliveries : FailedRow(d)' <=> FailedRow(d)
      BY <2>1, <2>2 DEF FailedRow
    <3> QED
      BY <2>1, <3>2, <3>3, BalanceKept
  <2>3. CASE dlv'[order[i]].status = "failure"
    <3>1. step' = "count" /\ batch' = batch /\ FailedRow(order[i])'
      BY <1>7, <2>1, <2>3, RecordEffect, NoRowYet DEF FailedRow, Exists
    <3>2. CASE SubOf(order[i]) # s
      <4>1. ~Counting(s)'
        BY <2>1, <3>1, <3>2, OneInHand DEF Counting, InHand, Inv
      <4>2. Failed(s)' = Failed(s)
        BY <2>1, <3>2 DEF Failed, FailedRow
      <4>3. One(Counting(s)') = One(Counting(s))
        BY <2>1, <4>1 DEF One
      <4> QED
        BY <2>1, <4>2, <4>3 DEF Balanced, One
    <3>3. CASE SubOf(order[i]) = s
      <4>1. Counting(s)'
        BY <2>1, <3>1, <3>3 DEF Counting, InHand
      <4>2. Failed(s)' = Failed(s) \cup {order[i]} /\ order[i] \notin Failed(s)
        BY <2>1, <3>1, <3>3 DEF Failed, FailedRow
      <4>3. IsFiniteSet(Failed(s))
        BY DEF Balanced
      <4>4. /\ IsFiniteSet(Failed(s)') /\ Cardinality(Failed(s)) \in Nat
            /\ Cardinality(Failed(s)') = Cardinality(Failed(s)) + 1
        BY <4>2, <4>3, FS_AddElement, FS_CardinalityType
      <4>5. One(Counting(s)') = 1 /\ One(Counting(s)) = 0
        BY <2>1, <4>1 DEF One
      <4>6. fails[s] \in Nat /\ losses \in Nat
        BY NotificationsAssumption DEF Inv, DeliveryTypes
      <4>7. /\ fails[s] <= Cardinality(Failed(s))
            /\ Cardinality(Failed(s)) <= fails[s] + losses
        BY <4>5, <4>6 DEF Balanced
      <4>8. /\ fails'[s] + 1 <= Cardinality(Failed(s)')
            /\ Cardinality(Failed(s)') <= fails'[s] + losses' + 1
        BY <2>1, <4>4, <4>6, <4>7
      <4> QED
        BY <4>4, <4>5, <4>8 DEF Balanced, One
    <3> QED
      BY <3>2, <3>3
  <2> QED
    BY <2>2, <2>3
<1>8. ASSUME NEW i \in batch, Count(i)
      PROVE  Balanced(s)'
  <2>1. UNCHANGED <<dlv, losses>> /\ ~Counting(s)' /\ step = "count" /\ InHand(i)
    BY <1>8, CountEffect DEF Counting
  <2>2. \A d \in Deliveries : FailedRow(d)' <=> FailedRow(d)
    BY <2>1 DEF FailedRow, Exists
  <2>3. CASE SubOf(order[i]) # s
    <3>1. fails'[s] = fails[s]
      BY <1>8, <2>3, CountEffect
    <3>2. ~Counting(s)
      BY <2>1, <2>3, OneInHand DEF Counting, Inv
    <3> QED
      BY <2>1, <2>2, <3>1, <3>2, BalanceKept
  <2>4. CASE SubOf(order[i]) = s
    <3>1. fails'[s] = fails[s] + 1
      BY <1>8, <2>4, CountEffect
    <3>2. Counting(s)
      BY <2>1, <2>4 DEF Counting
    <3>3. Failed(s)' = Failed(s)
      BY <2>2 DEF Failed, FailedRow
    <3>4. One(Counting(s)) = 1 /\ One(Counting(s)') = 0
      BY <2>1, <3>2 DEF One
    <3>5. fails[s] \in Nat /\ losses \in Nat /\ Cardinality(Failed(s)) \in Nat
      BY NotificationsAssumption, FS_CardinalityType DEF Inv, DeliveryTypes, Balanced
    <3>6. /\ fails[s] + 1 <= Cardinality(Failed(s))
          /\ Cardinality(Failed(s)) <= fails[s] + losses + 1
      BY <3>4 DEF Balanced
    <3>7. /\ fails'[s] + 0 <= Cardinality(Failed(s))
          /\ Cardinality(Failed(s)) <= fails'[s] + losses' + 0
      BY <2>1, <3>1, <3>5, <3>6
    <3> QED
      BY <3>3, <3>4, <3>7 DEF Balanced, One
  <2> QED
    BY <2>3, <2>4
<1>9. ASSUME NEW x \in Deliveries, WaitEnds(x)
      PROVE  Balanced(s)'
  <2>1. fails'[s] = fails[s] /\ losses' = losses /\ (Counting(s)' <=> Counting(s))
    BY <1>9, WaitEffect DEF Counting, InHand
  <2>2. \A d \in Deliveries : FailedRow(d)' <=> FailedRow(d)
    BY <1>9, WaitEffect DEF FailedRow, Exists
  <2> QED
    BY <2>1, <2>2, BalanceKept
<1> QED
  BY Steps, <1>1, <1>2, <1>3, <1>4, <1>5, <1>6, <1>7, <1>8, <1>9

\* failure_count never exceeds the terminal failures on record, and falls short
\* of them only by the failure being counted and by ticks that were cut between
\* update_delivery and increment_failure_count.
THEOREM FailureCounts == Spec => []FailuresCounted
<1> DEFINE All == \A s \in Subs : Balanced(s)
<1>1. Init => All
  <2> SUFFICES ASSUME Init, NEW s \in Subs
               PROVE  Balanced(s)
    OBVIOUS
  <2>1. Failed(s) = {}
    BY DEF Init, Failed, Exists
  <2>2. IsFiniteSet(Failed(s)) /\ Cardinality(Failed(s)) = 0
    BY <2>1, FS_EmptySet
  <2>3. ~Counting(s) /\ fails[s] = 0 /\ losses = 0
    BY DEF Init, Counting
  <2>4. One(Counting(s)) = 0
    BY <2>3 DEF One
  <2> QED
    BY <2>2, <2>3, <2>4 DEF Balanced
<1>2. Inv /\ Inv' /\ All /\ [Next]_vars => All'
  BY BalanceStep
<1>3. Inv /\ All => FailuresCounted
  <2> SUFFICES ASSUME Inv, All, NEW s \in Subs
               PROVE  /\ fails[s] <= Cardinality(Failed(s))
                      /\ Cardinality(Failed(s)) <= fails[s] + losses + One(Counting(s))
    BY DEF FailuresCounted
  <2>1. /\ fails[s] + One(Counting(s)) <= Cardinality(Failed(s))
        /\ Cardinality(Failed(s)) <= fails[s] + losses + One(Counting(s))
        /\ IsFiniteSet(Failed(s))
    BY DEF Balanced
  <2>2. fails[s] \in Nat /\ Cardinality(Failed(s)) \in Nat
    BY <2>1, FS_CardinalityType DEF Inv, DeliveryTypes
  <2>3. One(Counting(s)) \in {0, 1}
    BY DEF One
  <2> QED
    BY <2>1, <2>2, <2>3
<1> HIDE DEF All
<1> QED
  BY InvAlways, <1>1, <1>2, <1>3, PTL DEF Spec
=============================================================================
