--------------------------- MODULE BillingProofs ---------------------------
(***************************************************************************)
(* Proofs about the webhook: its types, the tombstone, the paid period,    *)
(* that answered and processed events have had their effects, and that a   *)
(* purchase is granted once.                                               *)
(*                                                                         *)
(* TombstoneHolds is not inductive: a pending transaction that activates   *)
(* a plan must be known to hold the lock of a row without a tombstone      *)
(* (Exclusive, PendingRespectsTombstone).  PaidStaysOpen needs that a      *)
(* pending checkout carries the unlock (PendingUnlocks) and that a sent    *)
(* checkout's purchase no longer changes (Sent).  OneGrantPerPurchase has  *)
(* an invariant of its own, GInv, which needs IInv.                        *)
(***************************************************************************)
EXTENDS Billing, TLAPS

Unsent == \A e \in EventIds :
  e > nevents => /\ event[e].type = "none"
                 /\ record[e].status = "none"
                 /\ \A h \in Handlers : txn[h].event # e

Sent == \A e \in EventIds :
  event[e].type # "none" =>
    /\ event[e].purchase \in Purchases
    /\ purchase[event[e].purchase].status # "none"

Bought == \A p \in Purchases :
  purchase[p].status # "none" => purchase[p].matrix \in Matrices

Exclusive == \A g, h \in Handlers :
  (g # h /\ txn[g].ent # 0) => txn[g].ent # txn[h].ent

PendingRespectsTombstone == \A h \in Handlers :
  /\ txn[h].row.canceled => ~txn[h].row.active
  /\ txn[h].ent # 0 /\ txn[h].row.active => ~ents[txn[h].ent].canceled

PendingUnlocks == \A h \in Handlers : \A e \in EventIds :
  (txn[h].event = e /\ txn[h].ok /\ event[e].type = "checkout")
    => txn[h].unlock = purchase[event[e].purchase].matrix

EndsInTime == /\ \A h \in Handlers : txn[h].row.end <= now + 1
              /\ \A e \in EventIds : event[e].end <= now + 1
              /\ \A p \in Purchases : purchase[p].end <= now + 1

IInv == /\ TypeOK
        /\ Unsent /\ Sent /\ Bought
        /\ Exclusive /\ PendingRespectsTombstone /\ PendingUnlocks
        /\ EndsInTime
        /\ TombstoneHolds /\ NoFreeMonth /\ PaidStaysOpen /\ AckedIsSettled

-----------------------------------------------------------------------------

LEMMA ConstantTyping ==
  /\ NoEnt \in EntRows
  /\ NoEvent \in EventRows
  /\ Idle \in Transactions
BY BillingBounds DEF NoEnt, EntRows, NoEvent, EventRows, EventTypes, Idle,
                     Transactions

\* The initial state satisfies the invariant.
LEMMA InitIInv == Init => IInv
<1> SUFFICES ASSUME Init PROVE IInv
  OBVIOUS
<1> USE BillingBounds, BillingNone
<1>1. TypeOK
  <2>1. ents \in [EntIds -> EntRows] /\ txn \in [Handlers -> Transactions]
        /\ event \in [EventIds -> EventRows]
    BY ConstantTyping DEF Init
  <2>2. record \in [EventIds -> RecordRows]
    BY DEF Init, RecordRows
  <2>3. purchase \in [Purchases -> PurchaseRows]
    BY DEF Init, PurchaseRows
  <2>4. matrix \in [Matrices -> {"locked", "unlocked", "deleted"}]
    BY DEF Init
  <2>5. /\ now \in Nat /\ nevents \in 0..MaxEvents /\ acked \subseteq EventIds /\ lost \subseteq EventIds
        /\ replays \in 0..MaxReplays /\ faults \in 0..MaxFaults
    BY DEF Init
  <2>6. QED
    BY <2>1, <2>2, <2>3, <2>4, <2>5 DEF TypeOK
<1>2. Unsent /\ Sent /\ Bought
  <2>1. /\ \A e \in EventIds : event[e].type = "none" /\ record[e].status = "none"
        /\ \A h \in Handlers : txn[h].event = 0
        /\ \A p \in Purchases : purchase[p].status = "none"
    BY DEF Init, NoEvent, Idle
  <2>2. 0 \notin EventIds
    BY DEF EventIds
  <2>3. QED
    BY <2>1, <2>2 DEF Unsent, Sent, Bought
<1>3. Exclusive /\ PendingRespectsTombstone /\ PendingUnlocks
  BY DEF Init, Exclusive, PendingRespectsTombstone, PendingUnlocks, Idle,
         NoEnt, NoEvent
<1>4. EndsInTime
  BY DEF Init, EndsInTime, Idle, NoEnt, NoEvent
<1>5. TombstoneHolds /\ NoFreeMonth /\ PaidStaysOpen /\ AckedIsSettled
  BY DEF Init, TombstoneHolds, NoFreeMonth, PaidStaysOpen, AckedIsSettled,
         NoEnt, NoEvent
<1>6. QED
  BY <1>1, <1>2, <1>3, <1>4, <1>5 DEF IInv

-----------------------------------------------------------------------------
(* Stripe's steps.                                                         *)

\* Sending an event preserves the invariant, whatever the sender does to the
\* purchase, if the purchase stays what it was bought for.
LEMMA EmitIInv ==
  ASSUME IInv,
         NEW p \in Purchases, NEW type \in EventTypes, NEW active \in BOOLEAN,
         NEW end \in Nat,
         Emit(type, p, active, end),
         purchase[p].status # "none",
         end <= now + 1,
         purchase' \in [Purchases -> PurchaseRows],
         \A q \in Purchases : /\ purchase'[q].matrix = purchase[q].matrix
                              /\ purchase[q].status # "none"
                                   <=> purchase'[q].status # "none"
                              /\ purchase'[q].end <= now + 1,
         UNCHANGED <<appVars, now, acked, lost, faults>>,
         replays' \in 0..MaxReplays
  PROVE  IInv'
<1> USE BillingBounds, BillingNone
<1> DEFINE ev == [type |-> type, purchase |-> p, active |-> active, end |-> end]
<1>a. ev \in EventRows
  BY DEF EventRows
<1>b. /\ nevents \in 0..MaxEvents /\ nevents < MaxEvents
      /\ nevents' = nevents + 1 /\ nevents' \in EventIds
      /\ event' = [event EXCEPT ![nevents'] = ev]
      /\ event \in [EventIds -> EventRows]
  BY DEF IInv, TypeOK, Emit, EventIds
<1>c. /\ event' \in [EventIds -> EventRows]
      /\ event'[nevents'] = ev
      /\ \A e \in EventIds : e # nevents' => event'[e] = event[e]
  BY <1>a, <1>b
<1>d. /\ ev.type = type /\ ev.purchase = p /\ ev.end = end
  OBVIOUS
<1>e. UNCHANGED <<matrix, ents, record, txn, now, acked, lost, faults>>
  BY DEF appVars
<1> HIDE DEF ev
<1>f. /\ record[nevents'].status = "none"
      /\ \A h \in Handlers : txn[h].event # nevents'
  BY <1>b DEF IInv, Unsent, TypeOK
<1>1. TypeOK'
  BY <1>b, <1>c, <1>e DEF IInv, TypeOK
<1>2. Unsent'
  BY <1>b, <1>c, <1>e DEF IInv, Unsent, EventIds
<1>3. Sent'
  BY <1>b, <1>c, <1>d DEF IInv, Sent
<1>4. Bought'
  BY DEF IInv, Bought
<1>5. Exclusive' /\ PendingRespectsTombstone'
  BY <1>e DEF IInv, Exclusive, PendingRespectsTombstone
<1>6. PendingUnlocks'
  <2> SUFFICES ASSUME NEW h \in Handlers, NEW e \in EventIds,
                      txn[h].event = e, txn[h].ok, event'[e].type = "checkout"
               PROVE  txn[h].unlock = purchase'[event'[e].purchase].matrix
    BY <1>e DEF PendingUnlocks
  <2>1. e # nevents' /\ event'[e] = event[e]
    BY <1>c, <1>f
  <2>2. event[e].purchase \in Purchases
    BY <2>1 DEF IInv, Sent
  <2>3. QED
    BY <2>1, <2>2 DEF IInv, PendingUnlocks
<1>7. EndsInTime'
  BY <1>b, <1>c, <1>d, <1>e DEF IInv, EndsInTime
<1>8. TombstoneHolds' /\ NoFreeMonth' /\ AckedIsSettled'
  BY <1>e DEF IInv, TombstoneHolds, NoFreeMonth, AckedIsSettled
<1>9. PaidStaysOpen'
  <2> SUFFICES ASSUME NEW e \in EventIds, event'[e].type = "checkout",
                      record[e].status = "processed"
               PROVE  matrix[purchase'[event'[e].purchase].matrix]
                        \in {"unlocked", "deleted"}
    BY <1>e DEF PaidStaysOpen
  <2>1. e # nevents' /\ event'[e] = event[e]
    BY <1>c, <1>f
  <2>2. event[e].purchase \in Purchases
    BY <2>1 DEF IInv, Sent
  <2>3. QED
    BY <2>1, <2>2 DEF IInv, PaidStaysOpen
<1>10. QED
  BY <1>1, <1>2, <1>3, <1>4, <1>5, <1>6, <1>7, <1>8, <1>9 DEF IInv

\* What EmitIInv asks of a purchase that only moves on.
LEMMA PurchaseMoves ==
  ASSUME IInv,
         NEW p \in Purchases, NEW new \in PurchaseRows,
         purchase' = [purchase EXCEPT ![p] = new],
         new.matrix = purchase[p].matrix,
         purchase[p].status # "none", new.status # "none",
         new.end <= now + 1
  PROVE  /\ purchase' \in [Purchases -> PurchaseRows]
         /\ \A q \in Purchases : /\ purchase'[q].matrix = purchase[q].matrix
                                 /\ purchase[q].status # "none"
                                      <=> purchase'[q].status # "none"
                                 /\ purchase'[q].end <= now + 1
<1>1. /\ purchase'[p] = new
      /\ \A q \in Purchases : q # p => purchase'[q] = purchase[q]
  BY DEF IInv, TypeOK
<1>2. QED
  BY <1>1 DEF IInv, TypeOK, EndsInTime

\* Every step of Stripe and of the customer preserves the invariant.
LEMMA StripeIInv ==
  ASSUME IInv, StripeStep
  PROVE  IInv'
<1> USE BillingBounds, BillingNone
<1>t. /\ now \in Nat /\ nevents \in 0..MaxEvents /\ replays \in 0..MaxReplays
      /\ purchase \in [Purchases -> PurchaseRows]
      /\ event \in [EventIds -> EventRows]
      /\ \A q \in Purchases : purchase[q].end <= now + 1
  BY DEF IInv, TypeOK, EndsInTime
<1>1. ASSUME NEW p \in Purchases, NEW kind \in {"single", "plan"},
             NEW m \in Matrices, CreateCheckout(p, kind, m)
      PROVE  IInv'
  <2> DEFINE new == [kind |-> kind, matrix |-> m, status |-> "open", end |-> 0]
  <2>1. new \in PurchaseRows /\ new.matrix = m /\ new.end = 0
        /\ new.status # "none"
    BY DEF PurchaseRows
  <2>2. /\ purchase' = [purchase EXCEPT ![p] = new]
        /\ purchase[p].status = "none"
        /\ UNCHANGED <<matrix, ents, record, txn, event, nevents, now, acked, lost,
                       replays, faults>>
    BY <1>1 DEF CreateCheckout, appVars
  <2> HIDE DEF new
  <2>3. /\ purchase' \in [Purchases -> PurchaseRows]
        /\ purchase'[p] = new
        /\ \A q \in Purchases : q # p => purchase'[q] = purchase[q]
    BY <2>1, <2>2, <1>t
  <2>4. \A e \in EventIds : event[e].type # "none" =>
          event[e].purchase \in Purchases \ {p}
    BY <2>2 DEF IInv, Sent
  <2>5. TypeOK' /\ Unsent'
    BY <2>2, <2>3 DEF IInv, TypeOK, Unsent
  <2>6. Sent' /\ Bought'
    BY <2>1, <2>2, <2>3, <2>4 DEF IInv, Sent, Bought
  <2>7. Exclusive' /\ PendingRespectsTombstone'
    BY <2>2 DEF IInv, Exclusive, PendingRespectsTombstone
  <2>8. PendingUnlocks' /\ PaidStaysOpen'
    BY <2>2, <2>3, <2>4 DEF IInv, PendingUnlocks, PaidStaysOpen
  <2>9. EndsInTime'
    BY <2>1, <2>2, <2>3, <1>t DEF IInv, EndsInTime
  <2>10. TombstoneHolds' /\ NoFreeMonth' /\ AckedIsSettled'
    BY <2>2 DEF IInv, TombstoneHolds, NoFreeMonth, AckedIsSettled
  <2>11. QED
    BY <2>5, <2>6, <2>7, <2>8, <2>9, <2>10 DEF IInv
<1>2. ASSUME NEW p \in Purchases, Pay(p)
      PROVE  IInv'
  <2> DEFINE end == IF purchase[p].kind = "plan" THEN now + 1 ELSE 0
             new == [purchase[p] EXCEPT !.status = "paid", !.end = end]
  <2>e. end \in Nat /\ end <= now + 1
    BY <1>t
  <2>a. purchase' = [purchase EXCEPT ![p] = new] /\ purchase[p].status # "none"
    BY <1>2 DEF Pay
  <2> HIDE DEF end
  <2>0. /\ new \in PurchaseRows /\ new.matrix = purchase[p].matrix
        /\ new.status # "none" /\ new.end <= now + 1
    BY <1>t, <2>e DEF PurchaseRows
  <2> HIDE DEF new
  <2>1. /\ purchase' \in [Purchases -> PurchaseRows]
        /\ \A q \in Purchases : /\ purchase'[q].matrix = purchase[q].matrix
                                /\ purchase[q].status # "none"
                                     <=> purchase'[q].status # "none"
                                /\ purchase'[q].end <= now + 1
    BY <2>0, <2>a, PurchaseMoves
  <2>2. /\ Emit("checkout", p, TRUE, 0) /\ purchase[p].status # "none"
        /\ UNCHANGED <<appVars, now, acked, lost, faults>> /\ replays' = replays
    BY <1>2 DEF Pay
  <2>3. "checkout" \in EventTypes /\ TRUE \in BOOLEAN /\ 0 <= now + 1
    BY <1>t DEF EventTypes
  <2>4. QED
    BY <2>1, <2>2, <2>3, <1>t, EmitIInv
<1>3. ASSUME NEW p \in Purchases, Invoice(p)
      PROVE  IInv'
  <2> DEFINE through == IF purchase[p].end <= now THEN now + 1
                                                  ELSE purchase[p].end
  <2>1. through \in Nat /\ through <= now + 1
    BY <1>t DEF PurchaseRows
  <2>2. PICK end \in {0, through} : Emit("paid", p, TRUE, end)
    BY <1>3 DEF Invoice
  <2>3. /\ purchase' \in [Purchases -> PurchaseRows]
        /\ \A q \in Purchases : /\ purchase'[q].matrix = purchase[q].matrix
                                /\ purchase[q].status # "none"
                                     <=> purchase'[q].status # "none"
                                /\ purchase'[q].end <= now + 1
    <3>1. PICK new : new = [purchase[p] EXCEPT !.status = "paid", !.end = through]
      OBVIOUS
    <3>2. /\ purchase[p] \in PurchaseRows /\ purchase[p].status # "none"
          /\ purchase' = [purchase EXCEPT ![p] = new]
      BY <1>3, <1>t, <3>1 DEF Invoice
    <3>3. /\ new \in PurchaseRows /\ new.matrix = purchase[p].matrix
          /\ new.status = "paid" /\ new.end <= now + 1
      BY <2>1, <3>1, <3>2 DEF PurchaseRows
    <3> QED
      BY <1>t, <3>2, <3>3
  <2>4. /\ purchase[p].status # "none"
        /\ UNCHANGED <<appVars, now, acked, lost, faults>> /\ replays' = replays
    BY <1>3 DEF Invoice
  <2>5. /\ "paid" \in EventTypes /\ TRUE \in BOOLEAN
        /\ end \in Nat /\ end <= now + 1
    BY <1>t, <2>1 DEF EventTypes
  <2>6. QED
    BY <2>2, <2>3, <2>4, <2>5, <1>t, EmitIInv
<1>4. ASSUME NEW p \in Purchases, Decline(p) \/ Cancel(p)
      PROVE  IInv'
  <2>a. PICK status \in {"past_due", "canceled"} :
          /\ purchase' = [purchase EXCEPT ![p].status = status]
          /\ purchase[p].status # "none"
    BY <1>4 DEF Decline, Cancel
  <2> DEFINE new == [purchase[p] EXCEPT !.status = status]
  <2>0. /\ new \in PurchaseRows /\ new.matrix = purchase[p].matrix
        /\ new.status # "none" /\ new.end <= now + 1
    BY <1>t DEF PurchaseRows
  <2>b. purchase' = [purchase EXCEPT ![p] = new]
    BY <2>a
  <2> HIDE DEF new
  <2>1. /\ purchase' \in [Purchases -> PurchaseRows]
        /\ \A q \in Purchases : /\ purchase'[q].matrix = purchase[q].matrix
                                /\ purchase[q].status # "none"
                                     <=> purchase'[q].status # "none"
                                /\ purchase'[q].end <= now + 1
    BY <2>0, <2>a, <2>b, PurchaseMoves
  <2>2. PICK type \in {"failed", "deleted"} : Emit(type, p, FALSE, 0)
    BY <1>4 DEF Decline, Cancel
  <2>3. /\ purchase[p].status # "none"
        /\ UNCHANGED <<appVars, now, acked, lost, faults>> /\ replays' = replays
    BY <1>4 DEF Decline, Cancel
  <2>4. type \in EventTypes /\ FALSE \in BOOLEAN /\ 0 <= now + 1
    BY <1>t DEF EventTypes
  <2>5. QED
    BY <2>1, <2>2, <2>3, <2>4, <1>t, EmitIInv
<1>5. ASSUME NEW p \in Purchases, Report(p)
      PROVE  IInv'
  <2>1. PICK paid \in BOOLEAN : Emit("updated", p, paid, purchase[p].end)
    BY <1>5 DEF Report
  <2>2. /\ purchase[p].status # "none" /\ purchase' = purchase
        /\ UNCHANGED <<appVars, now, acked, lost, faults>> /\ replays' = replays
    BY <1>5 DEF Report
  <2>3. "updated" \in EventTypes /\ purchase[p].end \in Nat
    BY <1>t DEF EventTypes, PurchaseRows
  <2>4. QED
    BY <2>1, <2>2, <2>3, <1>t, EmitIInv
<1>6. ASSUME NEW e \in EventIds, Replay(e)
      PROVE  IInv'
  <2>1. /\ event[e].purchase \in Purchases
        /\ purchase[event[e].purchase].status # "none"
    BY <1>6 DEF Replay, IInv, Sent
  <2>2. /\ Emit("checkout", event[e].purchase, TRUE, 0)
        /\ purchase' = purchase
        /\ UNCHANGED <<appVars, now, acked, lost, faults>>
        /\ replays' = replays + 1 /\ replays < MaxReplays
    BY <1>6 DEF Replay
  <2>3. "checkout" \in EventTypes /\ TRUE \in BOOLEAN /\ 0 <= now + 1
        /\ replays' \in 0..MaxReplays
    BY <1>t, <2>2 DEF EventTypes
  <2>4. QED
    BY <2>1, <2>2, <2>3, <1>t, EmitIInv
<1>7. ASSUME Tick
      PROVE  IInv'
  <2>1. /\ now' = now + 1 /\ now' \in Nat
        /\ UNCHANGED <<matrix, ents, record, txn, purchase, event, nevents,
                       replays, acked, lost, faults>>
    BY <1>7, <1>t DEF Tick, appVars, stripeVars
  <2>2. TypeOK' /\ Unsent' /\ Sent' /\ Bought'
    BY <2>1 DEF IInv, TypeOK, Unsent, Sent, Bought
  <2>3. Exclusive' /\ PendingRespectsTombstone' /\ PendingUnlocks'
    BY <2>1 DEF IInv, Exclusive, PendingRespectsTombstone, PendingUnlocks
  <2>4. TombstoneHolds' /\ PaidStaysOpen' /\ AckedIsSettled'
    BY <2>1 DEF IInv, TombstoneHolds, PaidStaysOpen, AckedIsSettled
  <2>5. \A x \in Nat : x <= now + 1 => x <= now' + 1
    BY <2>1, <1>t
  <2>6. /\ \A h \in Handlers : txn[h].row.end \in Nat
        /\ \A e \in EventIds : event[e].end \in Nat
        /\ \A p \in Purchases : purchase[p].end \in Nat
        /\ \A i \in EntIds : ents[i].end \in Nat
    BY DEF IInv, TypeOK, Transactions, EntRows, EventRows, PurchaseRows
  <2>7. EndsInTime' /\ NoFreeMonth'
    BY <2>1, <2>5, <2>6 DEF IInv, EndsInTime, NoFreeMonth
  <2>8. QED
    BY <2>2, <2>3, <2>4, <2>7 DEF IInv
<1>8. QED
  BY <1>1, <1>2, <1>3, <1>4, <1>5, <1>6, <1>7 DEF StripeStep

-----------------------------------------------------------------------------
(* Deliveries.                                                             *)

\* A delivery that begins preserves the invariant if it locks the row it
\* writes, activates no cancelled plan, and unlocks what a checkout paid for.
LEMMA BeginIInv ==
  ASSUME IInv,
         NEW h \in Handlers, NEW e \in EventIds, NEW ent \in EntIds \cup {0},
         NEW row \in EntRows, NEW unlock \in Matrices \cup {None},
         NEW ok \in BOOLEAN,
         Begin(h, e, ent, row, unlock, ok),
         ent # 0 => ~Locked(ent),
         row.canceled => ~row.active,
         ent # 0 /\ row.active => ~ents[ent].canceled,
         ok /\ event[e].type = "checkout"
           => unlock = purchase[event[e].purchase].matrix,
         row.end <= now + 1
  PROVE  IInv'
<1> USE BillingBounds, BillingNone
<1> DEFINE n == IF ok THEN record[e].attempts ELSE record[e].attempts + 1
           t == [event |-> e, ent |-> ent, row |-> row, unlock |-> unlock,
                 ok |-> ok, attempts |-> n]
<1>a. n \in Nat
  BY DEF IInv, TypeOK, RecordRows
<1>b. /\ txn' = [txn EXCEPT ![h] = t]
      /\ e <= nevents
      /\ UNCHANGED <<matrix, ents, record, purchase, event, nevents, replays,
                     now, lost, faults>>
      /\ acked' \in {acked, Answered(e, ok)}
      /\ txn[h] = Idle
  BY DEF Begin, stripeVars
<1> HIDE DEF n
<1>c. /\ t \in Transactions /\ t.event = e /\ t.ent = ent /\ t.row = row
      /\ t.unlock = unlock /\ t.ok = ok
  BY <1>a DEF Transactions
<1> HIDE DEF t
<1>d. /\ txn' \in [Handlers -> Transactions]
      /\ txn'[h] = t
      /\ \A g \in Handlers : g # h => txn'[g] = txn[g]
  BY <1>b, <1>c DEF IInv, TypeOK
<1>e. acked' \subseteq acked \cup {e} /\ (e \in acked' => e \in acked \/ ok)
  BY <1>b DEF Answered
<1>1. TypeOK'
  BY <1>b, <1>d, <1>e DEF IInv, TypeOK
<1>2. Unsent'
  <2> SUFFICES ASSUME NEW x \in EventIds, x > nevents
               PROVE  /\ event[x].type = "none" /\ record[x].status = "none"
                      /\ \A g \in Handlers : txn'[g].event # x
    BY <1>b DEF Unsent
  <2>1. x # e
    BY <1>b DEF IInv, TypeOK, EventIds
  <2>2. QED
    BY <2>1, <1>c, <1>d DEF IInv, Unsent
<1>3. Sent' /\ Bought'
  BY <1>b DEF IInv, Sent, Bought
<1>4. Exclusive'
  BY <1>b, <1>c, <1>d DEF IInv, Exclusive, Locked
<1>5. PendingRespectsTombstone'
  BY <1>b, <1>c, <1>d DEF IInv, PendingRespectsTombstone
<1>6. PendingUnlocks'
  BY <1>b, <1>c, <1>d DEF IInv, PendingUnlocks
<1>7. EndsInTime'
  BY <1>b, <1>c, <1>d DEF IInv, EndsInTime
<1>8. TombstoneHolds' /\ NoFreeMonth' /\ PaidStaysOpen'
  BY <1>b DEF IInv, TombstoneHolds, NoFreeMonth, PaidStaysOpen
<1>9. AckedIsSettled'
  <2> SUFFICES ASSUME NEW x \in acked',
                      record[x].status \notin {"processed", "dead_lettered"},
                      x \notin lost
               PROVE  \E g \in Handlers : txn'[g].event = x /\ txn'[g].ok
    BY <1>b DEF AckedIsSettled
  <2>1. CASE x \in acked
    <3>1. PICK g \in Handlers : txn[g].event = x /\ txn[g].ok
      BY <2>1 DEF IInv, AckedIsSettled
    <3>2. x # 0
      BY <2>1 DEF IInv, TypeOK, EventIds
    <3>3. g # h
      BY <1>b, <3>1, <3>2 DEF Idle
    <3> QED
      BY <1>d, <3>1, <3>3
  <2>2. CASE x \notin acked
    BY <1>c, <1>d, <1>e, <2>2
  <2> QED
    BY <2>1, <2>2
<1>10. QED
  BY <1>1, <1>2, <1>3, <1>4, <1>5, <1>6, <1>7, <1>8, <1>9 DEF IInv

\* A delivery that writes nothing and is no checkout, or fails.
LEMMA BeginNothing ==
  ASSUME IInv, NEW h \in Handlers, NEW e \in EventIds, NEW ok \in BOOLEAN,
         Begin(h, e, 0, NoEnt, None, ok),
         ok => event[e].type # "checkout"
  PROVE  IInv'
<1>1. /\ NoEnt.end = 0 /\ ~NoEnt.canceled /\ NoEnt.end <= now + 1
  BY DEF NoEnt, IInv, TypeOK
<1>2. NoEnt \in EntRows
  BY ConstantTyping
<1>3. QED
  BY <1>1, <1>2, BeginIInv

\* The period a payment ends in.
LEMMA PaidThroughInTime ==
  ASSUME now \in Nat, NEW c \in Nat, NEW d \in Nat, c <= now + 1, d <= now + 1
  PROVE  PaidThrough(c, d) \in Nat /\ PaidThrough(c, d) <= now + 1
BY DEF PaidThrough

\* Every way process_event can go preserves the invariant.
LEMMA ProcessIInv ==
  ASSUME IInv, NEW h \in Handlers, NEW e \in EventIds, Process(h, e)
  PROVE  IInv'
<1> USE BillingBounds, BillingNone
<1>t. /\ now \in Nat
      /\ ents \in [EntIds -> EntRows]
      /\ event[e].end \in Nat /\ event[e].end <= now + 1
      /\ event[e].active \in BOOLEAN
      /\ \A i \in EntIds : /\ ents[i].end \in Nat /\ ents[i].end <= now + 1
                           /\ ents[i].active \in BOOLEAN
                           /\ ents[i].canceled \in BOOLEAN
                           /\ i # 0
  BY DEF IInv, TypeOK, EndsInTime, NoFreeMonth, EventRows, EntRows, EntIds
<1>1. CASE GrantEntitlement(h, e)
  <2> DEFINE p == event[e].purchase
  <2>1. /\ event[e].type = "checkout"
        /\ p \in Purchases
        /\ purchase[p].matrix \in Matrices
    BY <1>1 DEF GrantEntitlement, IInv, Sent, Bought, EventTypes
  <2>2. Unlocks(p) = purchase[p].matrix
    BY DEF Unlocks
  <2>3. ASSUME NEW i \in EntIds, ents[i] = NoEnt, ~Locked(i),
               Begin(h, e, i, NewGrant(p), Unlocks(p), TRUE)
        PROVE  IInv'
    <3>1. /\ NewGrant(p) \in EntRows
          /\ ~NewGrant(p).canceled
          /\ NewGrant(p).end <= now + 1
      BY <1>t, <2>1 DEF NewGrant, EntRows
    <3>2. ~ents[i].canceled
      BY <2>3 DEF NoEnt
    <3>3. TRUE \in BOOLEAN /\ Unlocks(p) \in Matrices \cup {None}
      BY <2>1, <2>2
    <3> HIDE DEF p
    <3>4. Unlocks(p) = purchase[event[e].purchase].matrix
      BY <2>2 DEF p
    <3>5. QED
      BY <2>3, <3>1, <3>2, <3>3, <3>4, BeginIInv
  <2>4. ASSUME Begin(h, e, 0, NoEnt, Unlocks(p), TRUE)
        PROVE  IInv'
    <3>1. ~NoEnt.canceled /\ NoEnt.end <= now + 1 /\ NoEnt \in EntRows
      BY <1>t, ConstantTyping DEF NoEnt
    <3>2. TRUE \in BOOLEAN /\ Unlocks(p) \in Matrices \cup {None}
      BY <2>1, <2>2
    <3>3. QED
      BY <2>2, <2>4, <3>1, <3>2, BeginIInv
  <2>5. QED
    BY <1>1, <2>3, <2>4 DEF GrantEntitlement
<1>2. CASE RejectCheckout(h, e)
  BY <1>2, BeginNothing DEF RejectCheckout
<1>3. CASE NoMatchingPlan(h, e) \/ PlanWasCanceled(h, e)
  BY <1>3, BeginNothing DEF NoMatchingPlan, PlanWasCanceled, PlanEvents
<1>4. CASE InvoicePaid(h, e)
  <2>1. PICK i \in EntIds :
          /\ ~Locked(i) /\ ~ents[i].canceled
          /\ Begin(h, e, i, [ents[i] EXCEPT !.active = TRUE,
                               !.end = PaidThrough(@, event[e].end)],
                   None, TRUE)
    BY <1>4 DEF InvoicePaid, WasCanceled, Granted
  <2> DEFINE end == PaidThrough(ents[i].end, event[e].end)
             row == [ents[i] EXCEPT !.active = TRUE, !.end = end]
  <2>2. end \in Nat /\ end <= now + 1
    BY <1>t, PaidThroughInTime
  <2>3. Begin(h, e, i, row, None, TRUE)
    BY <2>1
  <2> HIDE DEF end
  <2>4. row \in EntRows /\ row.end <= now + 1 /\ row.canceled = ents[i].canceled
    BY <1>t, <2>2 DEF EntRows
  <2> HIDE DEF row
  <2>5. event[e].type # "checkout" /\ TRUE \in BOOLEAN
    BY <1>4 DEF InvoicePaid
  <2>6. QED
    BY <2>1, <2>3, <2>4, <2>5, BeginIInv
<1>5. CASE \E mailed \in BOOLEAN : PaymentFailed(h, e, mailed)
  <2>1. PICK mailed \in BOOLEAN, i \in EntIds :
          /\ ~Locked(i)
          /\ Begin(h, e, i, [ents[i] EXCEPT !.active = FALSE], None, mailed)
    BY <1>5 DEF PaymentFailed, Granted
  <2> DEFINE row == [ents[i] EXCEPT !.active = FALSE]
  <2>2. row \in EntRows /\ row.end <= now + 1 /\ ~row.active
    BY <1>t DEF EntRows
  <2>3. Begin(h, e, i, row, None, mailed)
    BY <2>1
  <2> HIDE DEF row
  <2>4. event[e].type # "checkout"
    BY <1>5 DEF PaymentFailed
  <2>5. QED
    BY <2>1, <2>2, <2>3, <2>4, BeginIInv
<1>6. CASE SubscriptionDeleted(h, e)
  <2>1. PICK i \in EntIds :
          /\ ~Locked(i)
          /\ Begin(h, e, i, [ents[i] EXCEPT !.active = FALSE, !.end = now,
                                            !.canceled = TRUE], None, TRUE)
    BY <1>6 DEF SubscriptionDeleted, Granted
  <2> DEFINE row == [ents[i] EXCEPT !.active = FALSE, !.end = now,
                                    !.canceled = TRUE]
  <2>a. now <= now + 1
    BY <1>t
  <2>b. row.end = now /\ row.active = FALSE
    BY <1>t DEF EntRows
  <2>c. row \in EntRows
    BY <1>t DEF EntRows
  <2>2. row \in EntRows /\ row.end <= now + 1 /\ ~row.active
    BY <2>a, <2>b, <2>c
  <2>3. Begin(h, e, i, row, None, TRUE)
    BY <2>1
  <2> HIDE DEF row
  <2>4. event[e].type # "checkout" /\ TRUE \in BOOLEAN
    BY <1>6 DEF SubscriptionDeleted
  <2>5. QED
    BY <2>1, <2>2, <2>3, <2>4, BeginIInv
<1>7. CASE SubscriptionUpdated(h, e)
  <2>1. PICK i \in EntIds :
          /\ ~Locked(i) /\ ~ents[i].canceled
          /\ Begin(h, e, i, [ents[i] EXCEPT !.active = event[e].active,
                                            !.end = event[e].end], None, TRUE)
    BY <1>7 DEF SubscriptionUpdated, WasCanceled, Granted
  <2> DEFINE row == [ents[i] EXCEPT !.active = event[e].active,
                                    !.end = event[e].end]
  <2>2. row \in EntRows /\ row.end <= now + 1 /\ row.canceled = ents[i].canceled
    BY <1>t DEF EntRows
  <2>3. Begin(h, e, i, row, None, TRUE)
    BY <2>1
  <2> HIDE DEF row
  <2>4. event[e].type # "checkout" /\ TRUE \in BOOLEAN
    BY <1>7 DEF SubscriptionUpdated
  <2>5. QED
    BY <2>1, <2>2, <2>3, <2>4, BeginIInv
<1>8. QED
  BY <1>1, <1>2, <1>3, <1>4, <1>5, <1>6, <1>7 DEF Process

\* The commit publishes what the transaction holds.
LEMMA CommitIInv ==
  ASSUME IInv, NEW h \in Handlers, Commit(h)
  PROVE  IInv'
<1> USE BillingBounds, BillingNone
<1> DEFINE t == txn[h]
<1>a. /\ t \in Transactions
      /\ txn \in [Handlers -> Transactions]
      /\ ents \in [EntIds -> EntRows]
      /\ record \in [EventIds -> RecordRows]
  BY DEF IInv, TypeOK
<1>b. /\ ents' = [i \in EntIds |-> IF i = t.ent THEN Updated(ents[i], t)
                                                ELSE ents[i]]
      /\ matrix' = [m \in Matrices |-> IF m = t.unlock THEN "unlocked"
                                                       ELSE matrix[m]]
      /\ record' = [record EXCEPT ![t.event] = Recorded(@, t)]
      /\ txn' = [txn EXCEPT ![h] = Idle]
      /\ UNCHANGED <<purchase, event, nevents, replays, now, acked, lost,
                     faults>>
  BY DEF Commit, stripeVars
<1> HIDE DEF t
<1>c. /\ Idle \in Transactions /\ Idle.event = 0 /\ Idle.ent = 0
      /\ ~Idle.row.canceled /\ ~Idle.row.active /\ Idle.row.end = 0
  BY ConstantTyping DEF Idle, NoEnt
<1>d. /\ txn' \in [Handlers -> Transactions]
      /\ txn'[h] = Idle
      /\ \A g \in Handlers : g # h => txn'[g] = txn[g]
  BY <1>a, <1>b, <1>c
<1>e. \A i \in EntIds :
        /\ Updated(ents[i], t) \in EntRows
        /\ Updated(ents[i], t).active = t.row.active
        /\ Updated(ents[i], t).end = t.row.end
        /\ Updated(ents[i], t).canceled <=> t.row.canceled \/ ents[i].canceled
  BY <1>a DEF Updated, EntRows, Transactions
<1>f. \A r \in RecordRows :
        /\ Recorded(r, t) \in RecordRows
        /\ t.ok => Recorded(r, t).status = "processed"
        /\ Recorded(r, t).status = "processed" =>
             t.ok \/ r.status = "processed"
        /\ r.status \in {"processed", "dead_lettered"} =>
             Recorded(r, t).status \in {"processed", "dead_lettered"}
  BY <1>a DEF Recorded, RecordRows, Transactions
<1>g. /\ \A i \in EntIds : i # t.ent => ents'[i] = ents[i]
      /\ \A i \in EntIds : i = t.ent => ents'[i] = Updated(ents[i], t)
      /\ ents' \in [EntIds -> EntRows]
  BY <1>a, <1>b, <1>e
<1>h. /\ \A x \in EventIds : x # t.event => record'[x] = record[x]
      /\ \A x \in EventIds : x = t.event => record'[x] = Recorded(record[x], t)
      /\ record' \in [EventIds -> RecordRows]
  BY <1>a, <1>b, <1>f
<1>i. \A m \in Matrices : /\ matrix[m] \in {"unlocked", "deleted"} =>
                               matrix'[m] \in {"unlocked", "deleted"}
                          /\ m = t.unlock => matrix'[m] = "unlocked"
  BY <1>b
<1>1. TypeOK'
  <2>1. matrix' \in [Matrices -> {"locked", "unlocked", "deleted"}]
    BY <1>b DEF IInv, TypeOK
  <2>2. QED
    BY <2>1, <1>b, <1>d, <1>g, <1>h DEF IInv, TypeOK
<1>2. Unsent'
  BY <1>b, <1>c, <1>d, <1>h DEF IInv, Unsent, t, EventIds
<1>3. Sent' /\ Bought'
  BY <1>b DEF IInv, Sent, Bought
<1>4. Exclusive'
  BY <1>c, <1>d DEF IInv, Exclusive
<1>5. PendingRespectsTombstone'
  <2> SUFFICES ASSUME NEW g \in Handlers
               PROVE  /\ txn'[g].row.canceled => ~txn'[g].row.active
                      /\ txn'[g].ent # 0 /\ txn'[g].row.active
                           => ~ents'[txn'[g].ent].canceled
    BY DEF PendingRespectsTombstone
  <2>1. CASE g = h
    BY <2>1, <1>c, <1>d
  <2>2. CASE g # h
    <3>1. txn'[g] = txn[g]
      BY <2>2, <1>d
    <3>2. txn[g].ent # 0 => txn[g].ent # t.ent /\ txn[g].ent \in EntIds
      BY <2>2, <1>a DEF IInv, Exclusive, t, Transactions
    <3>3. QED
      BY <3>1, <3>2, <1>g DEF IInv, PendingRespectsTombstone
  <2>3. QED
    BY <2>1, <2>2
<1>6. PendingUnlocks'
  BY <1>b, <1>c, <1>d DEF IInv, PendingUnlocks, EventIds
<1>7. EndsInTime'
  BY <1>b, <1>c, <1>d DEF IInv, TypeOK, EndsInTime
<1>8. TombstoneHolds'
  <2> SUFFICES ASSUME NEW i \in EntIds, ents'[i].canceled
               PROVE  ~ents'[i].active
    BY DEF TombstoneHolds
  <2>1. CASE i # t.ent
    BY <2>1, <1>g DEF IInv, TombstoneHolds
  <2>2. CASE i = t.ent
    <3>1. /\ ents'[i].active = t.row.active
          /\ t.row.canceled \/ ents[i].canceled
      BY <2>2, <1>e, <1>g
    <3>2. i # 0
      BY DEF EntIds
    <3>3. QED
      BY <2>2, <3>1, <3>2 DEF IInv, PendingRespectsTombstone, t
  <2>3. QED
    BY <2>1, <2>2
<1>9. NoFreeMonth'
  BY <1>b, <1>e, <1>g DEF IInv, NoFreeMonth, EndsInTime, t
<1>10. PaidStaysOpen'
  <2> SUFFICES ASSUME NEW e \in EventIds, event[e].type = "checkout",
                      record'[e].status = "processed"
               PROVE  matrix'[purchase[event[e].purchase].matrix]
                        \in {"unlocked", "deleted"}
    BY <1>b DEF PaidStaysOpen
  <2>1. purchase[event[e].purchase].matrix \in Matrices
    BY DEF IInv, Sent, Bought
  <2>2. CASE record[e].status = "processed"
    BY <2>1, <2>2, <1>i DEF IInv, PaidStaysOpen
  <2>3. CASE record[e].status # "processed"
    <3>1. e = t.event /\ t.ok
      BY <2>3, <1>a, <1>f, <1>h
    <3>2. t.unlock = purchase[event[e].purchase].matrix
      BY <3>1 DEF IInv, PendingUnlocks, t
    <3>3. QED
      BY <2>1, <3>2, <1>i
  <2>4. QED
    BY <2>2, <2>3
<1>11. AckedIsSettled'
  <2> SUFFICES ASSUME NEW e \in acked, e \notin lost
               PROVE  \/ record'[e].status \in {"processed", "dead_lettered"}
                      \/ \E g \in Handlers : txn'[g].event = e /\ txn'[g].ok
    BY <1>b DEF AckedIsSettled
  <2>1. e \in EventIds
    BY DEF IInv, TypeOK
  <2>2. CASE record[e].status \in {"processed", "dead_lettered"}
    BY <2>1, <2>2, <1>a, <1>f, <1>h
  <2>3. ASSUME NEW g \in Handlers, txn[g].event = e, txn[g].ok
        PROVE  \/ record'[e].status \in {"processed", "dead_lettered"}
               \/ \E k \in Handlers : txn'[k].event = e /\ txn'[k].ok
    <3>1. CASE g # h
      BY <2>3, <3>1, <1>d
    <3>2. CASE g = h
      <4>1. t.event = e /\ t.ok
        BY <2>3, <3>2 DEF t
      <4> QED
        BY <2>1, <4>1, <1>a, <1>f, <1>h
    <3> QED
      BY <3>1, <3>2
  <2> QED
    BY <2>2, <2>3 DEF IInv, AckedIsSettled
<1>12. QED
  BY <1>1, <1>2, <1>3, <1>4, <1>5, <1>6, <1>7, <1>8, <1>9, <1>10, <1>11
     DEF IInv

\* Losing a transaction, acknowledging a settled event and deleting a matrix.
LEMMA LoseIInv ==
  ASSUME IInv, NEW H \in SUBSET Handlers, Lose(H)
  PROVE  IInv'
<1> USE BillingBounds, BillingNone
<1>1. /\ txn' = [h \in Handlers |-> IF h \in H THEN Idle ELSE txn[h]]
      /\ lost' = lost \cup (acked \cap {txn[h].event : h \in H})
      /\ faults \in 0..MaxFaults /\ faults < MaxFaults /\ faults' = faults + 1
      /\ UNCHANGED <<matrix, ents, record, purchase, event, nevents, replays,
                     now, acked>>
  BY DEF Lose, stripeVars, IInv, TypeOK
<1>2. /\ Idle \in Transactions /\ Idle.event = 0 /\ Idle.ent = 0
      /\ ~Idle.row.canceled /\ ~Idle.row.active /\ Idle.row.end = 0
  BY ConstantTyping DEF Idle, NoEnt
<1>3. /\ txn' \in [Handlers -> Transactions]
      /\ \A g \in Handlers : txn'[g] = Idle \/ txn'[g] = txn[g]
      /\ \A g \in Handlers : g \notin H => txn'[g] = txn[g]
  BY <1>1, <1>2 DEF IInv, TypeOK
<1>4. TypeOK'
  <2>1. lost' \subseteq EventIds
    BY <1>1 DEF IInv, TypeOK
  <2>2. faults' \in 0..MaxFaults
    BY <1>1
  <2> QED
    BY <1>1, <1>3, <2>1, <2>2 DEF IInv, TypeOK
<1>5. Unsent' /\ Sent' /\ Bought'
  BY <1>1, <1>2, <1>3 DEF IInv, Unsent, Sent, Bought, EventIds
<1>6. Exclusive' /\ PendingRespectsTombstone'
  BY <1>1, <1>2, <1>3 DEF IInv, Exclusive, PendingRespectsTombstone
<1>7. PendingUnlocks'
  BY <1>1, <1>2, <1>3 DEF IInv, PendingUnlocks, EventIds
<1>8. EndsInTime'
  BY <1>1, <1>2, <1>3 DEF IInv, TypeOK, EndsInTime
<1>9. TombstoneHolds' /\ NoFreeMonth' /\ PaidStaysOpen'
  BY <1>1 DEF IInv, TombstoneHolds, NoFreeMonth, PaidStaysOpen
<1>10. AckedIsSettled'
  <2> SUFFICES ASSUME NEW e \in acked, e \notin lost',
                      record[e].status \notin {"processed", "dead_lettered"}
               PROVE  \E g \in Handlers : txn'[g].event = e /\ txn'[g].ok
    BY <1>1 DEF AckedIsSettled
  <2>1. PICK g \in Handlers : txn[g].event = e /\ txn[g].ok
    BY <1>1 DEF IInv, AckedIsSettled
  <2>2. g \notin H
    BY <1>1, <2>1
  <2> QED
    BY <1>3, <2>1, <2>2
<1>11. QED
  BY <1>4, <1>5, <1>6, <1>7, <1>8, <1>9, <1>10 DEF IInv

LEMMA AcknowledgeIInv ==
  ASSUME IInv, NEW e \in EventIds, Acknowledge(e)
  PROVE  IInv'
<1>1. /\ acked' = acked \cup {e}
      /\ record[e].status \in {"processed", "dead_lettered"}
      /\ UNCHANGED <<matrix, ents, record, txn, purchase, event, nevents,
                     replays, now, lost, faults>>
  BY DEF Acknowledge, appVars, stripeVars
<1>2. TypeOK'
  BY <1>1 DEF IInv, TypeOK
<1>3. Unsent' /\ Sent' /\ Bought' /\ Exclusive'
  BY <1>1 DEF IInv, Unsent, Sent, Bought, Exclusive
<1>4. PendingRespectsTombstone' /\ PendingUnlocks' /\ EndsInTime'
  BY <1>1 DEF IInv, PendingRespectsTombstone, PendingUnlocks, EndsInTime
<1>5. TombstoneHolds' /\ NoFreeMonth' /\ PaidStaysOpen' /\ AckedIsSettled'
  BY <1>1 DEF IInv, TombstoneHolds, NoFreeMonth, PaidStaysOpen, AckedIsSettled
<1>6. QED
  BY <1>2, <1>3, <1>4, <1>5 DEF IInv

LEMMA DeleteMatrixIInv ==
  ASSUME IInv, NEW m \in Matrices, DeleteMatrix(m)
  PROVE  IInv'
<1> USE BillingBounds, BillingNone
<1>1. /\ matrix' = [matrix EXCEPT ![m] = "deleted"]
      /\ UNCHANGED <<record, txn, purchase, event, nevents, replays, now,
                     acked, lost, faults>>
  BY DEF DeleteMatrix, stripeVars
<1>2. /\ ents' \in [EntIds -> EntRows]
      /\ \A i \in EntIds : ents'[i] = ents[i] \/ ents'[i] = NoEnt
  BY ConstantTyping DEF DeleteMatrix, IInv, TypeOK
<1>3. ~NoEnt.canceled /\ NoEnt.end = 0
  BY DEF NoEnt
<1>4. TypeOK'
  BY <1>1, <1>2 DEF IInv, TypeOK
<1>5. Unsent' /\ Sent' /\ Bought' /\ Exclusive'
  BY <1>1 DEF IInv, Unsent, Sent, Bought, Exclusive
<1>6. PendingRespectsTombstone'
  <2>1. \A h \in Handlers : txn[h].ent # 0 => txn[h].ent \in EntIds
    BY DEF IInv, TypeOK, Transactions
  <2>2. QED
    BY <1>1, <1>2, <1>3, <2>1 DEF IInv, PendingRespectsTombstone
<1>7. PendingUnlocks' /\ EndsInTime' /\ AckedIsSettled'
  BY <1>1 DEF IInv, PendingUnlocks, EndsInTime, AckedIsSettled
<1>8. TombstoneHolds' /\ NoFreeMonth'
  BY <1>1, <1>2, <1>3 DEF IInv, TypeOK, TombstoneHolds, NoFreeMonth
<1>9. PaidStaysOpen'
  BY <1>1 DEF IInv, TypeOK, PaidStaysOpen
<1>10. QED
  BY <1>4, <1>5, <1>6, <1>7, <1>8, <1>9 DEF IInv

-----------------------------------------------------------------------------

\* The invariant of the webhook, for any number of purchases, events,
\* concurrent deliveries, replays and faults.
THEOREM BillingInvariance == Spec => []IInv
<1>1. IInv /\ [Next]_vars => IInv'
  <2> SUFFICES ASSUME IInv, [Next]_vars
               PROVE  IInv'
    OBVIOUS
  <2>1. CASE StripeStep
    BY <2>1, StripeIInv
  <2>2. CASE \E h \in Handlers, e \in EventIds : Process(h, e)
    BY <2>2, ProcessIInv
  <2>3. CASE \/ \E h \in Handlers : Commit(h) \/ Rollback(h)
             \/ Crash
    BY <2>3, CommitIInv, LoseIInv DEF Rollback, Crash
  <2>4. CASE \E e \in EventIds : Acknowledge(e)
    BY <2>4, AcknowledgeIInv
  <2>5. CASE \E m \in Matrices : DeleteMatrix(m)
    BY <2>5, DeleteMatrixIInv
  <2>6. CASE UNCHANGED vars
    <3>1. UNCHANGED <<matrix, ents, record, txn, purchase, event, nevents,
                      replays, now, acked, lost, faults>>
      BY <2>6 DEF vars, appVars, stripeVars
    <3>2. TypeOK' /\ Unsent' /\ Sent' /\ Bought' /\ Exclusive'
      BY <3>1 DEF IInv, TypeOK, Unsent, Sent, Bought, Exclusive
    <3>3. PendingRespectsTombstone' /\ PendingUnlocks' /\ EndsInTime'
      BY <3>1 DEF IInv, PendingRespectsTombstone, PendingUnlocks, EndsInTime
    <3>4. TombstoneHolds' /\ NoFreeMonth' /\ PaidStaysOpen' /\ AckedIsSettled'
      BY <3>1 DEF IInv, TombstoneHolds, NoFreeMonth, PaidStaysOpen,
                  AckedIsSettled
    <3>5. QED
      BY <3>2, <3>3, <3>4 DEF IInv
  <2>7. QED
    BY <2>1, <2>2, <2>3, <2>4, <2>5, <2>6 DEF Next
<1>2. QED
  BY InitIInv, <1>1, PTL DEF Spec

\* Type correctness of the webhook's tables and transactions.
THEOREM BillingTypeCorrect == Spec => []TypeOK
<1>1. IInv => TypeOK
  BY DEF IInv
<1>2. QED
  BY BillingInvariance, <1>1, PTL

\* A plan whose deletion was applied is never active again (webhook.py,
\* _plan_was_canceled under FOR UPDATE).
THEOREM TombstoneHoldsAlways == Spec => []TombstoneHolds
<1>1. IInv => TombstoneHolds
  BY DEF IInv
<1>2. QED
  BY BillingInvariance, <1>1, PTL

\* No delivery of an invoice opens a plan beyond the paid period
\* (webhook.py, _apply_paid_period).
THEOREM NoFreeMonthEver == Spec => []NoFreeMonth
<1>1. IInv => NoFreeMonth
  BY DEF IInv
<1>2. QED
  BY BillingInvariance, <1>1, PTL

\* A matrix whose checkout was processed stays open until it is deleted.
THEOREM PaidMatrixStaysOpen == Spec => []PaidStaysOpen
<1>1. IInv => PaidStaysOpen
  BY DEF IInv
<1>2. QED
  BY BillingInvariance, <1>1, PTL

\* What was answered with a 200 is processed or dead-lettered, is in a
\* transaction that is still open, or was in one that was lost after the answer
\* (deps.py get_db commits when the response is out).
THEOREM AnsweredIsSettled == Spec => []AckedIsSettled
<1>1. IInv => AckedIsSettled
  BY DEF IInv
<1>2. QED
  BY BillingInvariance, <1>1, PTL
-----------------------------------------------------------------------------
(* One grant per purchase.  The SELECT by stripe_ref sees no uncommitted   *)
(* row, so what keeps a second delivery out is the primary key of the      *)
(* event: two deliveries of one event never both process it, and a         *)
(* checkout session has one event.  Where Stripe reports it again under    *)
(* another id, deliveries must not overlap.                                *)

NoOverlappingReports == MaxReplays = 0 \/ \A g, h \in Handlers : g = h

IsCheckout(e) == event[e].type = "checkout"
Gone(e) == matrix[purchase[event[e].purchase].matrix] = "deleted"

OneCheckout ==
  /\ MaxReplays = 0 => \A e, f \in EventIds :
       (IsCheckout(e) /\ IsCheckout(f) /\ event[e].purchase = event[f].purchase)
         => e = f
  /\ \A e \in EventIds : IsCheckout(e) => purchase[event[e].purchase].status # "open"

PlansOnly == \A e \in EventIds :
  event[e].type \in PlanEvents => purchase[event[e].purchase].kind = "plan"

GrantedByCheckout == \A i \in EntIds :
  ents[i].purchase \in Purchases =>
    \E e \in EventIds : /\ IsCheckout(e) /\ event[e].purchase = ents[i].purchase
                        /\ record[e].status = "processed"

\* What a delivery writes is a row of the same plan, or the first of a purchase.
Updates(t) == /\ t.row.purchase \in Purchases
              /\ ents[t.ent].purchase = t.row.purchase
              /\ purchase[t.row.purchase].kind = "plan"
Grants(t) == /\ t.ok /\ t.event \in EventIds /\ IsCheckout(t.event)
             /\ event[t.event].purchase = t.row.purchase
             /\ record[t.event].status = "none"
             /\ ents[t.ent] = NoEnt
             /\ Granted(t.row.purchase) = {}
PendingWrites == \A h \in Handlers : txn[h].ent # 0 => Updates(txn[h]) \/ Grants(txn[h])

FirstDelivery == \A g, h \in Handlers : \A e \in EventIds :
  (txn[g].event = e /\ txn[h].event = e /\ record[e].status = "none") => g = h

\* A checkout that failed, fails for good; one that was processed is at rest.
FailedIsGone == \A e \in EventIds : IsCheckout(e) =>
  /\ record[e].status \in {"processing", "dead_lettered"} => Gone(e)
  /\ \A h \in Handlers : (txn[h].event = e /\ ~txn[h].ok) => Gone(e)
ProcessedIsAlone == \A e \in EventIds : (IsCheckout(e) /\ record[e].status = "processed")
  => \A h \in Handlers : txn[h].event # e

UnlocksWhatIsThere == \A h \in Handlers : \A m \in Matrices :
  txn[h].unlock = m => matrix[m] # "deleted"

GInv == /\ OneCheckout /\ PlansOnly /\ GrantedByCheckout /\ PendingWrites
        /\ FirstDelivery /\ FailedIsGone /\ ProcessedIsAlone /\ UnlocksWhatIsThere
        /\ OneGrantPerPurchase

LEMMA InitGInv == Init => GInv
<1> SUFFICES ASSUME Init PROVE GInv
  OBVIOUS
<1>1. /\ \A e \in EventIds : event[e].type = "none" /\ record[e].status = "none"
      /\ \A h \in Handlers : txn[h].event = 0 /\ txn[h].ent = 0 /\ txn[h].unlock = None
      /\ \A i \in EntIds : ents[i].purchase = None
  BY DEF Init, NoEvent, Idle, NoEnt
<1>2. 0 \notin EventIds /\ None \notin Purchases /\ None \notin Matrices
  BY BillingNone DEF EventIds
<1>3. OneCheckout /\ PlansOnly /\ GrantedByCheckout /\ PendingWrites
  BY <1>1, <1>2 DEF OneCheckout, IsCheckout, PlansOnly, PlanEvents, GrantedByCheckout,
                    PendingWrites
<1>4. FirstDelivery /\ FailedIsGone /\ ProcessedIsAlone /\ UnlocksWhatIsThere
  BY <1>1, <1>2 DEF FirstDelivery, FailedIsGone, IsCheckout, ProcessedIsAlone,
                    UnlocksWhatIsThere
<1>5. OneGrantPerPurchase
  BY <1>1, <1>2 DEF OneGrantPerPurchase
<1> QED
  BY <1>3, <1>4, <1>5 DEF GInv

\* What a granted or pending purchase is known for: it was bought.
LEMMA GrantedIsBought ==
  ASSUME IInv, GInv, NEW i \in EntIds, ents[i].purchase \in Purchases
  PROVE  purchase[ents[i].purchase].status # "none"
BY DEF IInv, Sent, GInv, GrantedByCheckout, IsCheckout

\* Steps outside: what was bought stays what it is, and at most one event is
\* sent, a checkout only of a session just paid or reported again.
LEMMA StripeMoves ==
  ASSUME IInv, GInv, UNCHANGED appVars,
         \A q \in Purchases : purchase[q].status # "none" =>
           /\ purchase'[q].kind = purchase[q].kind
           /\ purchase'[q].matrix = purchase[q].matrix
           /\ purchase[q].status # "open" => purchase'[q].status # "open",
         \/ event' = event
         \/ \E p \in Purchases, ev \in EventRows :
              /\ nevents < MaxEvents /\ event' = [event EXCEPT ![nevents + 1] = ev]
              /\ ev.purchase = p /\ purchase[p].status # "none" /\ ev.type # "none"
              /\ ev.type = "checkout" => /\ purchase'[p].status # "open"
                                         /\ MaxReplays = 0 => purchase[p].status = "open"
              /\ ev.type \in PlanEvents => purchase[p].kind = "plan"
  PROVE  GInv'
<1>1. UNCHANGED <<matrix, ents, record, txn>>
  BY DEF appVars
<1>2. \A e \in EventIds : event[e].type # "none" =>
        /\ event[e].purchase \in Purchases /\ purchase[event[e].purchase].status # "none"
        /\ event'[e] = event[e]
  <2>1. \A e \in EventIds : event[e].type # "none" => e # nevents + 1
    BY BillingBounds DEF IInv, Unsent, TypeOK
  <2> QED
    BY <2>1 DEF IInv, TypeOK, Sent
<1>3. \A e \in EventIds :
        \/ event'[e] = event[e]
        \/ /\ event'[e].purchase \in Purchases
           /\ purchase[event'[e].purchase].status # "none"
           /\ record[e].status = "none" /\ \A h \in Handlers : txn[h].event # e
           /\ event'[e].type = "checkout" =>
                /\ purchase'[event'[e].purchase].status # "open"
                /\ MaxReplays = 0 => purchase[event'[e].purchase].status = "open"
           /\ event'[e].type \in PlanEvents => purchase[event'[e].purchase].kind = "plan"
  <2> SUFFICES ASSUME NEW e \in EventIds, event'[e] # event[e]
               PROVE  /\ event'[e].purchase \in Purchases
                      /\ purchase[event'[e].purchase].status # "none"
                      /\ record[e].status = "none" /\ \A h \in Handlers : txn[h].event # e
                      /\ event'[e].type = "checkout" =>
                           /\ purchase'[event'[e].purchase].status # "open"
                           /\ MaxReplays = 0 => purchase[event'[e].purchase].status = "open"
                      /\ event'[e].type \in PlanEvents =>
                           purchase[event'[e].purchase].kind = "plan"
    OBVIOUS
  <2>1. PICK ev \in EventRows :
              /\ event' = [event EXCEPT ![nevents + 1] = ev]
              /\ ev.purchase \in Purchases /\ purchase[ev.purchase].status # "none"
              /\ ev.type = "checkout" => /\ purchase'[ev.purchase].status # "open"
                                         /\ MaxReplays = 0 => purchase[ev.purchase].status = "open"
              /\ ev.type \in PlanEvents => purchase[ev.purchase].kind = "plan"
    OBVIOUS
  <2>2. e = nevents + 1 /\ event'[e] = ev
    BY <2>1 DEF IInv, TypeOK
  <2>3. e > nevents
    BY <2>2 DEF IInv, TypeOK
  <2> QED
    BY <2>1, <2>2, <2>3 DEF IInv, Unsent
<1>4. \A e, f \in EventIds : event'[e] # event[e] /\ event'[f] # event[f] => e = f
  BY DEF IInv, TypeOK
<1>5. OneCheckout'
  <2>1. \A e \in EventIds : IsCheckout(e)' => purchase'[event'[e].purchase].status # "open"
    BY <1>2, <1>3 DEF GInv, OneCheckout, IsCheckout
  <2>2. ASSUME MaxReplays = 0, NEW e \in EventIds, NEW f \in EventIds,
               IsCheckout(e)', IsCheckout(f)', event'[e].purchase = event'[f].purchase
        PROVE  e = f
    <3>1. CASE event'[e] = event[e] /\ event'[f] = event[f]
      BY <2>2, <3>1 DEF GInv, OneCheckout, IsCheckout
    <3>2. CASE event'[e] # event[e] /\ event'[f] = event[f]
      BY <1>3, <2>2, <3>2 DEF GInv, OneCheckout, IsCheckout
    <3>3. CASE event'[e] = event[e] /\ event'[f] # event[f]
      BY <1>3, <2>2, <3>3 DEF GInv, OneCheckout, IsCheckout
    <3> QED
      BY <1>4, <3>1, <3>2, <3>3
  <2> QED
    BY <2>1, <2>2 DEF OneCheckout, IsCheckout
<1>6. PlansOnly'
  BY <1>2, <1>3 DEF GInv, PlansOnly, PlanEvents
<1>7. GrantedByCheckout'
  BY <1>1, <1>2 DEF GInv, GrantedByCheckout, IsCheckout
<1>8. PendingWrites'
  <2>1. SUFFICES ASSUME NEW h \in Handlers, NEW t, t = txn[h], t.ent # 0
                 PROVE  Updates(t)' \/ Grants(t)'
    BY <1>1 DEF PendingWrites
  <2>2. CASE Updates(t)
    <3>1. t.ent \in EntIds
      BY <2>1 DEF IInv, TypeOK, Transactions
    <3>2. purchase[t.row.purchase].status # "none"
      BY <2>2, <3>1, GrantedIsBought DEF Updates
    <3> QED
      BY <1>1, <2>2, <3>2 DEF Updates
  <2>3. CASE Grants(t)
    BY <1>1, <1>2, <2>3 DEF Grants, IsCheckout, Granted
  <2> QED
    BY <2>1, <2>2, <2>3 DEF GInv, PendingWrites
<1>9. FirstDelivery' /\ UnlocksWhatIsThere' /\ OneGrantPerPurchase'
  BY <1>1 DEF GInv, FirstDelivery, UnlocksWhatIsThere, OneGrantPerPurchase
<1>10. FailedIsGone' /\ ProcessedIsAlone'
  <2>1. \A e \in EventIds : event[e].type # "none" => (Gone(e) => Gone(e)')
    BY <1>1, <1>2 DEF Gone
  <2> QED
    BY <1>1, <1>2, <1>3, <2>1 DEF GInv, FailedIsGone, ProcessedIsAlone, IsCheckout
<1> QED
  BY <1>5, <1>6, <1>7, <1>8, <1>9, <1>10 DEF GInv
\* Every step of Stripe and of the customer is of that kind.
LEMMA StripeGInv == ASSUME IInv, GInv, StripeStep PROVE GInv'
<1>0. /\ now \in Nat /\ nevents \in Nat /\ purchase \in [Purchases -> PurchaseRows]
      /\ event \in [EventIds -> EventRows]
  BY DEF IInv, TypeOK
<1>e. ASSUME NEW p \in Purchases, NEW type \in EventTypes \ {"none"}, NEW active \in BOOLEAN,
             NEW end \in Nat, Emit(type, p, active, end), UNCHANGED appVars,
             purchase[p].status # "none",
             \A q \in Purchases : purchase[q].status # "none" =>
               /\ purchase'[q].kind = purchase[q].kind
               /\ purchase'[q].matrix = purchase[q].matrix
               /\ purchase[q].status # "open" => purchase'[q].status # "open",
             type = "checkout" => /\ purchase'[p].status # "open"
                                  /\ MaxReplays = 0 => purchase[p].status = "open",
             type \in PlanEvents => purchase[p].kind = "plan"
      PROVE  GInv'
  <2> DEFINE ev == [type |-> type, purchase |-> p, active |-> active, end |-> end]
  <2>1. ev \in EventRows
    BY <1>e DEF EventRows
  <2>2. nevents < MaxEvents /\ event' = [event EXCEPT ![nevents + 1] = ev]
    BY <1>e DEF Emit
  <2>3. ev.type = type /\ ev.purchase = p
    OBVIOUS
  <2> HIDE DEF ev
  <2> QED
    BY <1>e, <2>1, <2>2, <2>3, StripeMoves
<1>1. ASSUME NEW p \in Purchases, NEW kind \in {"single", "plan"},
             NEW m \in Matrices, CreateCheckout(p, kind, m)
      PROVE  GInv'
  <2>1. /\ UNCHANGED appVars /\ event' = event
        /\ \A q \in Purchases : purchase[q].status # "none" => purchase'[q] = purchase[q]
    BY <1>0, <1>1 DEF CreateCheckout
  <2> QED
    BY <2>1, StripeMoves
<1>2. ASSUME NEW p \in Purchases, Pay(p) PROVE GInv'
  <2> DEFINE new == [purchase[p] EXCEPT !.status = "paid",
                       !.end = IF purchase[p].kind = "plan" THEN now + 1 ELSE 0]
  <2>1. /\ UNCHANGED appVars /\ Emit("checkout", p, TRUE, 0)
        /\ purchase[p].status = "open" /\ purchase' = [purchase EXCEPT ![p] = new]
    BY <1>0, <1>2 DEF Pay
  <2>2. new.kind = purchase[p].kind /\ new.matrix = purchase[p].matrix /\ new.status = "paid"
    BY <1>0 DEF PurchaseRows
  <2> HIDE DEF new
  <2>3. purchase'[p].status # "open" /\ \A q \in Purchases : q # p => purchase'[q] = purchase[q]
    BY <1>0, <2>1, <2>2
  <2>4. \A q \in Purchases : purchase[q].status # "none" =>
               /\ purchase'[q].kind = purchase[q].kind
               /\ purchase'[q].matrix = purchase[q].matrix
               /\ purchase[q].status # "open" => purchase'[q].status # "open"
    BY <1>0, <2>1, <2>2
  <2> QED
    BY <1>e, <2>1, <2>3, <2>4 DEF EventTypes, PlanEvents
<1>3. ASSUME NEW p \in Purchases, Invoice(p) PROVE GInv'
  <2> DEFINE through == IF purchase[p].end <= now THEN now + 1 ELSE purchase[p].end
             new == [purchase[p] EXCEPT !.status = "paid", !.end = through]
  <2>1. PICK end \in {0, through} :
          /\ UNCHANGED appVars /\ Emit("paid", p, TRUE, end)
          /\ purchase[p].kind = "plan" /\ purchase[p].status \in {"paid", "past_due"}
          /\ purchase' = [purchase EXCEPT ![p] = new]
    BY <1>0, <1>3 DEF Invoice
  <2>2. /\ new.kind = purchase[p].kind /\ new.matrix = purchase[p].matrix
        /\ new.status = "paid" /\ end \in Nat
    BY <1>0 DEF PurchaseRows
  <2> HIDE DEF new
  <2>3. \A q \in Purchases : purchase[q].status # "none" =>
               /\ purchase'[q].kind = purchase[q].kind
               /\ purchase'[q].matrix = purchase[q].matrix
               /\ purchase[q].status # "open" => purchase'[q].status # "open"
    BY <1>0, <2>1, <2>2
  <2> QED
    BY <1>e, <2>1, <2>2, <2>3 DEF EventTypes
<1>4. ASSUME NEW p \in Purchases, NEW status \in {"past_due", "canceled"},
             NEW type \in {"failed", "deleted"}, Emit(type, p, FALSE, 0), UNCHANGED appVars,
             purchase[p].kind = "plan", purchase[p].status \in {"paid", "past_due"},
             purchase' = [purchase EXCEPT ![p].status = status]
      PROVE  GInv'
  <2>1. \A q \in Purchases : purchase[q].status # "none" =>
               /\ purchase'[q].kind = purchase[q].kind
               /\ purchase'[q].matrix = purchase[q].matrix
               /\ purchase[q].status # "open" => purchase'[q].status # "open"
    BY <1>0, <1>4 DEF PurchaseRows
  <2> QED
    BY <1>e, <1>4, <2>1 DEF EventTypes
<1>5. ASSUME NEW p \in Purchases, Decline(p) \/ Cancel(p) PROVE GInv'
  BY <1>4, <1>5 DEF Decline, Cancel
<1>6. ASSUME NEW p \in Purchases, Report(p) PROVE GInv'
  <2>1. /\ UNCHANGED appVars /\ purchase' = purchase /\ purchase[p].kind = "plan"
        /\ Emit("updated", p, purchase[p].status = "paid", purchase[p].end)
        /\ purchase[p].status \in {"paid", "past_due"}
    BY <1>6 DEF Report
  <2>2. purchase[p].end \in Nat /\ (purchase[p].status = "paid") \in BOOLEAN
    BY <1>0 DEF PurchaseRows
  <2> QED
    BY <1>e, <2>1, <2>2 DEF EventTypes
<1>7. ASSUME NEW e \in EventIds, Replay(e) PROVE GInv'
  <2>1. /\ UNCHANGED appVars /\ purchase' = purchase
        /\ Emit("checkout", event[e].purchase, TRUE, 0)
        /\ IsCheckout(e) /\ replays < MaxReplays
    BY <1>7 DEF Replay, IsCheckout
  <2>3. MaxReplays # 0
    BY <2>1, BillingBounds DEF IInv, TypeOK
  <2>2. /\ event[e].purchase \in Purchases
        /\ purchase[event[e].purchase].status # "none"
        /\ purchase[event[e].purchase].status # "open"
    BY <2>1 DEF IInv, Sent, IsCheckout, GInv, OneCheckout
  <2> QED
    BY <1>e, <2>1, <2>2, <2>3 DEF EventTypes, PlanEvents
<1>8. CASE Tick
  BY <1>8, StripeMoves DEF Tick, stripeVars
<1> QED
  BY <1>1, <1>2, <1>3, <1>5, <1>6, <1>7, <1>8 DEF StripeStep

\* A delivery begins: nobody else has begun its event, unless it had failed.
LEMMA BeginGInv ==
  ASSUME IInv, GInv, NEW h \in Handlers, NEW e \in EventIds,
         NEW ent \in EntIds \cup {0}, NEW row \in EntRows,
         NEW unlock \in Matrices \cup {None}, NEW ok \in BOOLEAN,
         Begin(h, e, ent, row, unlock, ok),
         ent # 0 =>
           \/ /\ row.purchase \in Purchases /\ ents[ent].purchase = row.purchase
              /\ purchase[row.purchase].kind = "plan"
           \/ /\ ok /\ IsCheckout(e) /\ event[e].purchase = row.purchase
              /\ record[e].status = "none" /\ ents[ent] = NoEnt
              /\ Granted(row.purchase) = {},
         IsCheckout(e) /\ ~ok => Gone(e),
         unlock \in Matrices => matrix[unlock] # "deleted"
  PROVE  GInv'
<1> DEFINE t == [event |-> e, ent |-> ent, row |-> row, unlock |-> unlock, ok |-> ok,
                 attempts |-> IF ok THEN record[e].attempts ELSE record[e].attempts + 1]
<1>1. /\ txn' = [txn EXCEPT ![h] = t] /\ Unsettled(e)
      /\ UNCHANGED <<matrix, ents, record, purchase, event>>
  BY DEF Begin, stripeVars
<1>2. t.event = e /\ t.ent = ent /\ t.row = row /\ t.unlock = unlock /\ t.ok = ok
  OBVIOUS
<1> HIDE DEF t
<1>3. txn'[h] = t /\ \A g \in Handlers : g # h => txn'[g] = txn[g]
  BY <1>1 DEF IInv, TypeOK
<1>4. OneCheckout' /\ PlansOnly' /\ GrantedByCheckout' /\ OneGrantPerPurchase'
  BY <1>1 DEF GInv, OneCheckout, PlansOnly, GrantedByCheckout, OneGrantPerPurchase, IsCheckout
<1>5. PendingWrites'
  <2>1. SUFFICES ASSUME NEW g \in Handlers, NEW u, u = txn'[g], u.ent # 0
                 PROVE  Updates(u)' \/ Grants(u)'
    BY DEF PendingWrites
  <2>2. Updates(u) \/ Grants(u)
    <3>1. CASE g = h
      BY <1>2, <1>3, <2>1, <3>1 DEF Updates, Grants
    <3>2. CASE g # h
      BY <1>3, <2>1, <3>2 DEF GInv, PendingWrites
    <3> QED
      BY <3>1, <3>2
  <2>3. Updates(u) => Updates(u)'
    BY <1>1 DEF Updates
  <2>4. Granted(u.row.purchase)' = Granted(u.row.purchase)
    BY <1>1 DEF Granted
  <2>5. Grants(u) => Grants(u)'
    BY <1>1, <2>4 DEF Grants, IsCheckout
  <2> QED
    BY <2>2, <2>3, <2>5
<1>6. FirstDelivery' /\ ProcessedIsAlone'
  BY <1>1, <1>2, <1>3 DEF GInv, FirstDelivery, ProcessedIsAlone, IsCheckout, Unsettled
<1>7. FailedIsGone'
  BY <1>1, <1>2, <1>3 DEF GInv, FailedIsGone, IsCheckout, Gone
<1>8. UnlocksWhatIsThere'
  BY <1>1, <1>2, <1>3 DEF GInv, UnlocksWhatIsThere
<1> QED
  BY <1>4, <1>5, <1>6, <1>7, <1>8 DEF GInv

LEMMA ProcessGInv ==
  ASSUME IInv, GInv, NEW h \in Handlers, NEW e \in EventIds, Process(h, e)
  PROVE  GInv'
<1>0. /\ ents \in [EntIds -> EntRows] /\ now \in Nat /\ event \in [EventIds -> EventRows]
      /\ 0 \notin EntIds /\ NoEnt \in EntRows /\ TRUE \in BOOLEAN /\ FALSE \in BOOLEAN
      /\ None \notin Matrices
  BY ConstantTyping, BillingNone DEF IInv, TypeOK, EntIds
<1>n. ASSUME NEW ok \in BOOLEAN, Begin(h, e, 0, NoEnt, None, ok),
             IsCheckout(e) => ~ok /\ Gone(e)
      PROVE  GInv'
  BY <1>0, <1>n, BeginGInv
<1>1. CASE GrantEntitlement(h, e)
  <2> DEFINE p == event[e].purchase
  <2>1. /\ IsCheckout(e) /\ p \in Purchases /\ purchase[p].matrix \in Matrices
        /\ matrix[purchase[p].matrix] # "deleted" /\ Unlocks(p) = purchase[p].matrix
    BY <1>1 DEF GrantEntitlement, IInv, Sent, Bought, IsCheckout, Unlocks
  <2>2. ~Gone(e)
    BY <2>1 DEF Gone
  <2>3. ASSUME NEW i \in EntIds, ents[i] = NoEnt, IsNew(p),
               Begin(h, e, i, NewGrant(p), Unlocks(p), TRUE)
        PROVE  GInv'
    <3>1. NewGrant(p) \in EntRows /\ NewGrant(p).purchase = p
      BY <1>0, <2>1 DEF NewGrant, EntRows
    <3>2. record[e].status = "none"
      BY <2>1, <2>2, <2>3 DEF GInv, FailedIsGone, Begin, Unsettled
    <3>3. Granted(p) = {}
      BY <2>3 DEF IsNew
    <3> QED
      BY <1>0, <2>1, <2>3, <3>1, <3>2, <3>3, BeginGInv
  <2>4. ASSUME Begin(h, e, 0, NoEnt, Unlocks(p), TRUE) PROVE GInv'
    BY <1>0, <2>1, <2>4, BeginGInv
  <2> QED
    BY <1>1, <2>3, <2>4 DEF GrantEntitlement
<1>2. CASE RejectCheckout(h, e)
  BY <1>0, <1>2, <1>n DEF RejectCheckout, Gone
<1>3. CASE NoMatchingPlan(h, e) \/ PlanWasCanceled(h, e)
  BY <1>0, <1>3, <1>n DEF NoMatchingPlan, PlanWasCanceled, PlanEvents, IsCheckout
<1>u. ASSUME NEW i \in Granted(event[e].purchase), event[e].type \in PlanEvents,
             NEW active \in BOOLEAN, NEW end \in Nat, NEW canceled \in BOOLEAN,
             NEW ok \in BOOLEAN,
             Begin(h, e, i, [ents[i] EXCEPT !.active = active, !.end = end,
                                            !.canceled = canceled], None, ok)
      PROVE  GInv'
  <2> DEFINE row == [ents[i] EXCEPT !.active = active, !.end = end, !.canceled = canceled]
  <2>1. i \in EntIds /\ ents[i].purchase = event[e].purchase
    BY DEF Granted
  <2>2. row \in EntRows /\ row.purchase = ents[i].purchase
    BY <1>0, <2>1 DEF EntRows
  <2>3. event[e].purchase \in Purchases /\ purchase[event[e].purchase].kind = "plan"
    BY <1>u DEF GInv, PlansOnly, IInv, Sent, PlanEvents
  <2>4. ~IsCheckout(e)
    BY <1>u DEF IsCheckout, PlanEvents
  <2> HIDE DEF row
  <2>5. Begin(h, e, i, row, None, ok)
    BY <1>u DEF row
  <2> QED
    BY <1>0, <2>1, <2>2, <2>3, <2>4, <2>5, BeginGInv
<1>t. \A i \in Granted(event[e].purchase) :
        /\ ents[i].active \in BOOLEAN /\ ents[i].end \in Nat /\ ents[i].canceled \in BOOLEAN
        /\ ents[i] \in EntRows
  BY <1>0 DEF Granted, EntRows
<1>4. CASE InvoicePaid(h, e)
  <2>1. PICK i \in Granted(event[e].purchase) :
          /\ event[e].type = "paid"
          /\ Begin(h, e, i, [ents[i] EXCEPT !.active = TRUE,
                               !.end = PaidThrough(@, event[e].end)], None, TRUE)
    BY <1>4 DEF InvoicePaid
  <2> DEFINE end == PaidThrough(ents[i].end, event[e].end)
  <2>2. end \in Nat
    BY <1>0, <1>t DEF PaidThrough, EventRows
  <2>3. Begin(h, e, i, [ents[i] EXCEPT !.active = TRUE, !.end = end], None, TRUE)
    BY <2>1
  <2> HIDE DEF end
  <2>4. [ents[i] EXCEPT !.active = TRUE, !.end = end]
          = [ents[i] EXCEPT !.active = TRUE, !.end = end, !.canceled = ents[i].canceled]
    BY <1>t DEF EntRows
  <2> QED
    BY <1>0, <1>t, <1>u, <2>1, <2>2, <2>3, <2>4 DEF PlanEvents
<1>5. CASE \E mailed \in BOOLEAN : PaymentFailed(h, e, mailed)
  <2>1. PICK mailed \in BOOLEAN, i \in Granted(event[e].purchase) :
          /\ event[e].type = "failed"
          /\ Begin(h, e, i, [ents[i] EXCEPT !.active = FALSE], None, mailed)
    BY <1>5 DEF PaymentFailed
  <2>2. [ents[i] EXCEPT !.active = FALSE]
          = [ents[i] EXCEPT !.active = FALSE, !.end = ents[i].end,
                            !.canceled = ents[i].canceled]
    BY <1>t DEF EntRows
  <2>3. Begin(h, e, i, [ents[i] EXCEPT !.active = FALSE, !.end = ents[i].end,
                                       !.canceled = ents[i].canceled], None, mailed)
    BY <2>1, <2>2
  <2>4. event[e].type \in PlanEvents
    BY <2>1 DEF PlanEvents
  <2>5. ents[i].end \in Nat /\ ents[i].canceled \in BOOLEAN
    BY <1>t
  <2> QED
    BY <1>0, <1>u, <2>3, <2>4, <2>5
<1>6. CASE SubscriptionDeleted(h, e)
  <2>1. PICK i \in Granted(event[e].purchase) :
          /\ event[e].type = "deleted"
          /\ Begin(h, e, i, [ents[i] EXCEPT !.active = FALSE, !.end = now,
                                            !.canceled = TRUE], None, TRUE)
    BY <1>6 DEF SubscriptionDeleted
  <2> QED
    BY <1>0, <1>u, <2>1 DEF PlanEvents
<1>7. CASE SubscriptionUpdated(h, e)
  <2>1. PICK i \in Granted(event[e].purchase) :
          /\ event[e].type = "updated"
          /\ Begin(h, e, i, [ents[i] EXCEPT !.active = event[e].active,
                                            !.end = event[e].end], None, TRUE)
    BY <1>7 DEF SubscriptionUpdated
  <2>2. event[e].active \in BOOLEAN /\ event[e].end \in Nat
    BY <1>0 DEF EventRows
  <2>3. [ents[i] EXCEPT !.active = event[e].active, !.end = event[e].end]
          = [ents[i] EXCEPT !.active = event[e].active, !.end = event[e].end,
                            !.canceled = ents[i].canceled]
    BY <1>t, <2>2 DEF EntRows
  <2>4. Begin(h, e, i, [ents[i] EXCEPT !.active = event[e].active, !.end = event[e].end,
                                       !.canceled = ents[i].canceled], None, TRUE)
    BY <2>1, <2>3
  <2>5. event[e].type \in PlanEvents
    BY <2>1 DEF PlanEvents
  <2>6. ents[i].canceled \in BOOLEAN
    BY <1>t
  <2> QED
    BY <1>0, <1>u, <2>2, <2>4, <2>5, <2>6
<1> QED
  BY <1>1, <1>2, <1>3, <1>4, <1>5, <1>6, <1>7 DEF Process

\* A commit grants a purchase only when it has no entitlement yet, and no other
\* pending delivery grants the same one.
LEMMA CommitGInv ==
  ASSUME NoOverlappingReports, IInv, GInv, NEW h \in Handlers, NEW t, t = txn[h], Commit(h)
  PROVE  GInv'
<1>1. /\ t \in Transactions /\ t.event \in EventIds
      /\ ents \in [EntIds -> EntRows] /\ 0 \notin EntIds
      /\ record \in [EventIds -> RecordRows]
      /\ matrix \in [Matrices -> {"locked", "unlocked", "deleted"}]
  BY DEF IInv, TypeOK, Commit, Transactions, EntIds
<1>2. /\ \A i \in EntIds : ents'[i] = IF i = t.ent THEN Updated(ents[i], t) ELSE ents[i]
      /\ \A m \in Matrices : matrix'[m] = IF m = t.unlock THEN "unlocked" ELSE matrix[m]
      /\ record' = [record EXCEPT ![t.event] = Recorded(@, t)]
      /\ txn' = [txn EXCEPT ![h] = Idle]
      /\ UNCHANGED <<purchase, event>>
  BY DEF Commit, stripeVars
<1>3. /\ txn'[h].event = 0 /\ txn'[h].ent = 0 /\ txn'[h].unlock = None
      /\ \A g \in Handlers : g # h => txn'[g] = txn[g]
  BY <1>2 DEF IInv, TypeOK, Idle
<1>4. \A r \in RecordRows : /\ Recorded(r, t).status # "none"
                            /\ t.ok => Recorded(r, t).status = "processed"
                            /\ Recorded(r, t).status = "processed" =>
                                 t.ok \/ r.status = "processed"
  BY DEF Recorded, RecordRows
<1>5. /\ \A e \in EventIds : e # t.event => record'[e] = record[e]
      /\ record[t.event] \in RecordRows
      /\ record'[t.event] = Recorded(record[t.event], t)
  BY <1>1, <1>2
<1>6. \A i \in EntIds : Updated(ents[i], t).purchase = t.row.purchase
  BY <1>1 DEF Updated, EntRows, Transactions
<1>7. \A e \in EventIds : IsCheckout(e) => purchase[event[e].purchase].matrix \in Matrices
  BY DEF IInv, Sent, Bought, IsCheckout
<1>8. \A m \in Matrices : matrix'[m] = "deleted" <=> matrix[m] = "deleted"
  BY <1>2 DEF GInv, UnlocksWhatIsThere
<1>9. \A e \in EventIds : IsCheckout(e) => (Gone(e)' <=> Gone(e))
  BY <1>2, <1>7, <1>8 DEF Gone
<1>10. OneCheckout' /\ PlansOnly'
  BY <1>2 DEF GInv, OneCheckout, PlansOnly, IsCheckout
<1>11. FirstDelivery'
  BY <1>2, <1>3, <1>4, <1>5, <1>1 DEF GInv, FirstDelivery, EventIds
<1>12. FailedIsGone'
  <2> SUFFICES ASSUME NEW e \in EventIds, IsCheckout(e)
               PROVE  /\ record'[e].status \in {"processing", "dead_lettered"} => Gone(e)
                      /\ \A g \in Handlers : (txn'[g].event = e /\ ~txn'[g].ok) => Gone(e)
    BY <1>2, <1>9 DEF FailedIsGone, IsCheckout
  <2>1. \A g \in Handlers : (txn[g].event = e /\ ~txn[g].ok) => Gone(e)
    BY DEF GInv, FailedIsGone
  <2>2. record'[e].status \in {"processing", "dead_lettered"} => Gone(e)
    BY <1>4, <1>5, <2>1 DEF GInv, FailedIsGone
  <2> QED
    BY <1>3, <2>1, <2>2 DEF EventIds
<1>13. ASSUME NEW g \in Handlers, g # h, IsCheckout(t.event), t.ok PROVE txn[g].event # t.event
  <2>1. t.unlock = purchase[event[t.event].purchase].matrix
    BY <1>1, <1>13 DEF IInv, PendingUnlocks, IsCheckout
  <2>2. ~Gone(t.event)
    BY <1>1, <1>7, <1>13, <2>1 DEF GInv, UnlocksWhatIsThere, Gone
  <2>3. record[t.event].status \in {"none", "processed"}
    BY <1>1, <1>5, <1>13, <2>2 DEF GInv, FailedIsGone, RecordRows
  <2> QED
    BY <1>1, <1>13, <2>3 DEF GInv, FirstDelivery, ProcessedIsAlone
<1>14. ProcessedIsAlone'
  <2> SUFFICES ASSUME NEW e \in EventIds, IsCheckout(e), record'[e].status = "processed",
                      NEW g \in Handlers, g # h
               PROVE  txn[g].event # e
    BY <1>2, <1>3 DEF ProcessedIsAlone, IsCheckout, EventIds
  <2>1. CASE record[e].status = "processed"
    BY <2>1 DEF GInv, ProcessedIsAlone
  <2>2. CASE record[e].status # "processed"
    BY <1>4, <1>5, <1>13, <2>2
  <2> QED
    BY <2>1, <2>2
<1>15. UnlocksWhatIsThere'
  BY <1>3, <1>8, BillingNone DEF GInv, UnlocksWhatIsThere
<1>16. \A e \in EventIds : (IsCheckout(e) /\ record[e].status = "processed") =>
          record'[e].status = "processed"
  BY <1>5 DEF GInv, ProcessedIsAlone
<1>17. ASSUME NEW g \in Handlers, g # h, txn[g].ent # 0
       PROVE  /\ txn[g].ent \in EntIds /\ ents'[txn[g].ent] = ents[txn[g].ent]
              /\ Grants(txn[g]) => record'[txn[g].event].status = "none"
  <2>1. txn[g].ent # t.ent /\ txn[g].ent \in EntIds
    BY <1>17 DEF IInv, Exclusive, TypeOK, Transactions
  <2>2. Grants(txn[g]) => txn[g].event # t.event
    BY <1>1, <1>17 DEF GInv, FirstDelivery, Grants
  <2> QED
    BY <1>2, <1>5, <2>1, <2>2 DEF Grants
<1>18. CASE t.ent = 0 \/ Updates(t)
  <2>1. \A i \in EntIds : ents'[i].purchase = ents[i].purchase
    BY <1>1, <1>2, <1>6, <1>18 DEF Updates
  <2>2. GrantedByCheckout'
    BY <1>2, <1>16, <2>1 DEF GInv, GrantedByCheckout, IsCheckout
  <2>3. OneGrantPerPurchase'
    BY <2>1 DEF GInv, OneGrantPerPurchase
  <2>4. PendingWrites'
    <3> SUFFICES ASSUME NEW g \in Handlers, g # h, NEW u, u = txn[g], u.ent # 0
                 PROVE  Updates(u)' \/ Grants(u)'
      BY <1>3 DEF PendingWrites
    <3>1. /\ ents'[u.ent] = ents[u.ent]
          /\ Grants(u) => record'[u.event].status = "none"
      BY <1>17
    <3>2. Updates(u) \/ Grants(u)
      BY DEF GInv, PendingWrites
    <3> QED
      BY <1>2, <2>1, <3>1, <3>2 DEF Updates, Grants, IsCheckout, Granted
  <2> QED
    BY <1>10, <1>11, <1>12, <1>14, <1>15, <2>2, <2>3, <2>4 DEF GInv
<1>19. CASE t.ent # 0 /\ Grants(t)
  <2>1. /\ t.ent \in EntIds /\ ents'[t.ent].purchase = t.row.purchase
        /\ \A i \in EntIds : i # t.ent => ents'[i] = ents[i]
        /\ \A i \in EntIds : ents[i].purchase # t.row.purchase
    BY <1>1, <1>2, <1>6, <1>19 DEF Transactions, Grants, Granted
  <2>2. record'[t.event].status = "processed"
    BY <1>4, <1>5, <1>19 DEF Grants
  <2>3. GrantedByCheckout'
    BY <1>2, <1>16, <1>19, <2>1, <2>2 DEF GInv, GrantedByCheckout, IsCheckout, Grants
  <2>4. OneGrantPerPurchase'
    BY <2>1 DEF GInv, OneGrantPerPurchase
  <2>5. PendingWrites'
    <3> SUFFICES ASSUME NEW g \in Handlers, g # h, NEW u, u = txn[g], u.ent # 0
                 PROVE  Updates(u)' \/ Grants(u)'
      BY <1>3 DEF PendingWrites
    <3>1. /\ ents'[u.ent] = ents[u.ent]
          /\ Grants(u) => record'[u.event].status = "none"
      BY <1>17
    <3>2. CASE Updates(u)
      BY <1>2, <3>1, <3>2 DEF Updates
    <3>3. CASE Grants(u)
      <4>1. u.event # t.event
        BY <1>5, <2>2, <3>1, <3>3
      <4>2. u.row.purchase # t.row.purchase
        BY <1>19, <3>3, <4>1 DEF NoOverlappingReports, GInv, OneCheckout, Grants
      <4>3. Granted(u.row.purchase)' = {}
        BY <2>1, <3>3, <4>2 DEF Grants, Granted
      <4> QED
        BY <1>2, <3>1, <3>3, <4>3 DEF Grants, IsCheckout
    <3> QED
      BY <3>2, <3>3 DEF GInv, PendingWrites
  <2> QED
    BY <1>10, <1>11, <1>12, <1>14, <1>15, <2>3, <2>4, <2>5 DEF GInv
<1> QED
  BY <1>18, <1>19 DEF GInv, PendingWrites

\* A lost transaction leaves nothing behind.
LEMMA LoseGInv == ASSUME IInv, GInv, NEW H \in SUBSET Handlers, Lose(H) PROVE GInv'
<1>1. /\ UNCHANGED <<matrix, ents, record, purchase, event>>
      /\ txn' = [h \in Handlers |-> IF h \in H THEN Idle ELSE txn[h]]
  BY DEF Lose, stripeVars
<1>2. \A g \in Handlers :
        \/ txn'[g].event = 0 /\ txn'[g].ent = 0 /\ txn'[g].unlock = None
        \/ txn'[g] = txn[g]
  BY <1>1 DEF Idle
<1>3. OneCheckout' /\ PlansOnly' /\ GrantedByCheckout' /\ OneGrantPerPurchase'
  BY <1>1 DEF GInv, OneCheckout, PlansOnly, GrantedByCheckout, OneGrantPerPurchase, IsCheckout
<1>4. PendingWrites'
  <2> SUFFICES ASSUME NEW g \in Handlers, NEW u, u = txn[g], txn'[g] = u, u.ent # 0
               PROVE  Updates(u)' \/ Grants(u)'
    BY <1>2 DEF PendingWrites
  <2> QED
    BY <1>1 DEF GInv, PendingWrites, Updates, Grants, IsCheckout, Granted
<1>5. FirstDelivery' /\ FailedIsGone' /\ ProcessedIsAlone'
  BY <1>1, <1>2 DEF GInv, FirstDelivery, FailedIsGone, ProcessedIsAlone, IsCheckout, Gone,
                    EventIds
<1>6. UnlocksWhatIsThere'
  BY <1>1, <1>2, BillingNone DEF GInv, UnlocksWhatIsThere
<1> QED
  BY <1>3, <1>4, <1>5, <1>6 DEF GInv

\* Deleting a matrix takes its single entitlements along, and no plan's.
LEMMA DeleteMatrixGInv == ASSUME IInv, GInv, NEW m \in Matrices, DeleteMatrix(m) PROVE GInv'
<1>1. /\ UNCHANGED <<record, txn, purchase, event>>
      /\ matrix' = [matrix EXCEPT ![m] = "deleted"]
      /\ \A h \in Handlers : txn[h].unlock # m
  BY DEF DeleteMatrix, stripeVars
<1>2. \A i \in EntIds : /\ ents'[i] = ents[i] \/ ents'[i] = NoEnt
                        /\ purchase[ents[i].purchase].kind = "plan" => ents'[i] = ents[i]
  BY DEF DeleteMatrix
<1>3. NoEnt.purchase = None /\ None \notin Purchases
  BY BillingNone DEF NoEnt
<1>4. OneCheckout' /\ PlansOnly' /\ FirstDelivery' /\ ProcessedIsAlone'
  BY <1>1 DEF GInv, OneCheckout, PlansOnly, FirstDelivery, ProcessedIsAlone, IsCheckout
<1>5. GrantedByCheckout' /\ OneGrantPerPurchase'
  BY <1>1, <1>2, <1>3 DEF GInv, GrantedByCheckout, OneGrantPerPurchase, IsCheckout
<1>6. PendingWrites'
  <2> SUFFICES ASSUME NEW h \in Handlers, NEW u, u = txn[h], u.ent # 0
               PROVE  Updates(u)' \/ Grants(u)'
    BY <1>1 DEF PendingWrites
  <2>1. u.ent \in EntIds
    BY DEF IInv, TypeOK, Transactions
  <2>2. CASE Updates(u)
    BY <1>1, <1>2, <2>1, <2>2 DEF Updates
  <2>3. CASE Grants(u)
    <3>1. event[u.event].purchase \in Purchases
      BY <2>3 DEF Grants, IsCheckout, IInv, Sent
    <3>2. Granted(u.row.purchase)' = {}
      BY <1>2, <1>3, <2>3, <3>1 DEF Grants, Granted
    <3> QED
      BY <1>1, <1>2, <2>1, <2>3, <3>2 DEF Grants, IsCheckout
  <2> QED
    BY <2>2, <2>3 DEF GInv, PendingWrites
<1>7. FailedIsGone'
  <2>1. \A e \in EventIds : IsCheckout(e) =>
          purchase[event[e].purchase].matrix \in Matrices
    BY DEF IInv, Sent, Bought, IsCheckout
  <2>2. \A e \in EventIds : IsCheckout(e) => (Gone(e) => Gone(e)')
    BY <1>1, <2>1 DEF Gone, IInv, TypeOK
  <2> QED
    BY <1>1, <2>2 DEF GInv, FailedIsGone, IsCheckout
<1>8. UnlocksWhatIsThere'
  BY <1>1 DEF GInv, UnlocksWhatIsThere, IInv, TypeOK
<1> QED
  BY <1>4, <1>5, <1>6, <1>7, <1>8 DEF GInv

LEMMA UnchangedGInv ==
  ASSUME GInv, UNCHANGED <<matrix, ents, record, txn, purchase, event>> PROVE GInv'
<1>1. OneCheckout' /\ PlansOnly' /\ GrantedByCheckout' /\ OneGrantPerPurchase'
  BY DEF GInv, OneCheckout, PlansOnly, GrantedByCheckout, OneGrantPerPurchase, IsCheckout
<1>2. PendingWrites'
  BY DEF GInv, PendingWrites, Updates, Grants, IsCheckout, Granted
<1>3. FirstDelivery' /\ FailedIsGone' /\ ProcessedIsAlone' /\ UnlocksWhatIsThere'
  BY DEF GInv, FirstDelivery, FailedIsGone, ProcessedIsAlone, UnlocksWhatIsThere, IsCheckout,
         Gone
<1> QED
  BY <1>1, <1>2, <1>3 DEF GInv

\* One purchase, one entitlement: for any number of purchases, matrices,
\* faults and concurrent deliveries when every session has one event, and for
\* any number of events per session when deliveries come one after the other.
THEOREM OneGrantHolds ==
  ASSUME NoOverlappingReports
  PROVE  Spec => []OneGrantPerPurchase
<1>1. IInv /\ GInv /\ [Next]_vars => GInv'
  <2> SUFFICES ASSUME IInv, GInv, [Next]_vars PROVE GInv'
    OBVIOUS
  <2>1. CASE \E e \in EventIds : Acknowledge(e)
    <3>1. UNCHANGED <<matrix, ents, record, txn, purchase, event>>
      BY <2>1 DEF Acknowledge, appVars, stripeVars
    <3> QED
      BY <3>1, UnchangedGInv
  <2>2. CASE UNCHANGED vars
    <3>1. UNCHANGED <<matrix, ents, record, txn, purchase, event>>
      BY <2>2 DEF vars, appVars, stripeVars
    <3> QED
      BY <3>1, UnchangedGInv
  <2> QED
    BY <2>1, <2>2, StripeGInv, ProcessGInv, CommitGInv, LoseGInv, DeleteMatrixGInv
       DEF Next, Rollback, Crash
<1>2. GInv => OneGrantPerPurchase
  BY DEF GInv
<1> QED
  BY InitGInv, BillingInvariance, <1>1, <1>2, PTL DEF Spec
=============================================================================
