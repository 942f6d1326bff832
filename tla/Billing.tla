------------------------------ MODULE Billing ------------------------------
(***************************************************************************)
(* Payments: Stripe delivers signed events at least once and in any order, *)
(* POST /stripe/webhook stores each by its id and turns it into            *)
(* entitlements and rfps.unlocked_at.                                      *)
(*                                                                         *)
(* The endpoint is async and the process has one event loop, so the body   *)
(* of handle_webhook is atomic; its transaction commits later, when get_db *)
(* resumes in a thread: other deliveries may be handled in between, and    *)
(* the answer is out by then.                                              *)
(* ents, matrix and record are COMMITTED rows; txn[h] holds what a         *)
(* delivery has flushed and not committed.                                 *)
(*                                                                         *)
(* Time is counted in plan periods (PLAN_PERIOD_DAYS): a plan with         *)
(* period_end now + 1 is paid for the current period.  One account; every  *)
(* matrix has more than ten rows.                                          *)
(***************************************************************************)
EXTENDS Naturals

CONSTANTS
  Matrices,     \* the account's rfps
  Purchases,    \* checkout sessions; of a plan, also its subscription
  Handlers,     \* webhook deliveries served at the same time
  MaxEvents,    \* bound: Stripe events ever sent
  MaxEnts,      \* bound: entitlements rows
  MaxTime,      \* bound: plan periods that pass
  MaxReplays,   \* bound: checkouts reported again under a new event id
  MaxFaults,    \* bound: crashes and database errors
  MAX_ATTEMPTS, \* failures after which an event is dead-lettered
  None          \* no purchase, no matrix

ASSUME BillingBounds == /\ MaxEvents \in Nat
                        /\ MaxEnts \in Nat
                        /\ MaxTime \in Nat
                        /\ MaxReplays \in Nat
                        /\ MaxFaults \in Nat
                        /\ MAX_ATTEMPTS \in Nat \ {0}
ASSUME BillingNone == None \notin Purchases \cup Matrices

VARIABLES
  now,       \* the current plan period
  matrix,    \* rfps: "unlocked" means unlocked_at is set
  ents,      \* entitlements
  record,    \* stripe_events
  txn,       \* the open transaction of each delivery
  purchase,  \* at Stripe: what was bought and how the subscription stands
  event,     \* at Stripe: the events sent, in order
  nevents,   \* at Stripe: how many
  acked,     \* events that were answered with a 200
  lost,      \* of these, those of a transaction that was lost after the 200
  replays,   \* checkouts reported again so far
  faults     \* crashes and failed commits so far

appVars    == <<matrix, ents, record, txn>>
stripeVars == <<purchase, event, nevents, replays>>
vars == <<appVars, stripeVars, now, acked, lost, faults>>

EventIds == 1..MaxEvents
EntIds == 1..MaxEnts

EventTypes == {"none", "checkout", "paid", "failed", "deleted", "updated"}
EventRows == [type: EventTypes, purchase: Purchases \cup {None},
              active: BOOLEAN, end: Nat]

\* canceled: an audit event "plan_canceled" names this entitlement.
EntRows == [purchase: Purchases \cup {None}, active: BOOLEAN, end: Nat,
            canceled: BOOLEAN]
RecordRows == [status: {"none", "processing", "processed", "dead_lettered"},
               attempts: Nat]
Transactions == [event: EventIds \cup {0}, ent: EntIds \cup {0}, row: EntRows,
                 unlock: Matrices \cup {None}, ok: BOOLEAN, attempts: Nat]
PurchaseRows == [kind: {"single", "plan"}, matrix: Matrices \cup {None},
                 status: {"none", "open", "paid", "past_due", "canceled"},
                 end: Nat]

NoEvent == [type |-> "none", purchase |-> None, active |-> FALSE, end |-> 0]
NoEnt == [purchase |-> None, active |-> FALSE, end |-> 0, canceled |-> FALSE]
Idle == [event |-> 0, ent |-> 0, row |-> NoEnt, unlock |-> None, ok |-> TRUE,
         attempts |-> 0]

TypeOK ==
  /\ now \in Nat
  /\ matrix \in [Matrices -> {"locked", "unlocked", "deleted"}]
  /\ ents \in [EntIds -> EntRows]
  /\ record \in [EventIds -> RecordRows]
  /\ txn \in [Handlers -> Transactions]
  /\ purchase \in [Purchases -> PurchaseRows]
  /\ event \in [EventIds -> EventRows]
  /\ nevents \in 0..MaxEvents
  /\ acked \subseteq EventIds /\ lost \subseteq EventIds
  /\ replays \in 0..MaxReplays
  /\ faults \in 0..MaxFaults

-----------------------------------------------------------------------------
(* Queries.                                                                *)

\* The committed entitlements that carry a purchase's stripe_ref.
Granted(p) == {i \in EntIds : ents[i].purchase = p}

IsPlan(i) == /\ ents[i].purchase \in Purchases
             /\ purchase[ents[i].purchase].kind = "plan"

IsEntitled(m) ==
  \/ matrix[m] = "unlocked"
  \/ \E i \in EntIds : /\ ents[i].purchase \in Purchases
                       /\ purchase[ents[i].purchase].kind = "single"
                       /\ purchase[ents[i].purchase].matrix = m
                       /\ ents[i].active
  \/ \E i \in EntIds : IsPlan(i) /\ ents[i].active /\ ents[i].end > now

\* FOR UPDATE: another delivery has the entitlement's row locked.
NeverLocked(i) == FALSE                                       \* mutant
Locked(i) == \E h \in Handlers : txn[h].ent = i

-----------------------------------------------------------------------------
(* Stripe.                                                                 *)

Emit(type, p, active, end) ==
  /\ nevents < MaxEvents
  /\ nevents' = nevents + 1
  /\ event' = [event EXCEPT ![nevents'] =
       [type |-> type, purchase |-> p, active |-> active, end |-> end]]

\* POST /app/matrices/{id}/unlock: create_checkout.
CreateCheckout(p, kind, m) ==
  /\ purchase[p].status = "none"
  /\ matrix[m] # "deleted"
  /\ ~IsEntitled(m)
  /\ purchase' = [purchase EXCEPT ![p] =
       [kind |-> kind, matrix |-> m, status |-> "open", end |-> 0]]
  /\ UNCHANGED <<appVars, event, nevents, now, acked, lost, replays, faults>>

\* The customer pays; a plan's subscription starts.
Pay(p) ==
  /\ purchase[p].status = "open"
  /\ purchase' = [purchase EXCEPT
       ![p].status = "paid",
       ![p].end = IF purchase[p].kind = "plan" THEN now + 1 ELSE 0]
  /\ Emit("checkout", p, TRUE, 0)
  /\ UNCHANGED <<appVars, now, acked, lost, replays, faults>>

\* The first invoice, a renewal, or a late payment.  Its line period may be
\* missing (0) from the payload.
Invoice(p) ==
  LET through == IF purchase[p].end <= now THEN now + 1 ELSE purchase[p].end IN
  /\ purchase[p].kind = "plan"
  /\ purchase[p].status \in {"paid", "past_due"}
  /\ purchase' = [purchase EXCEPT ![p].status = "paid", ![p].end = through]
  /\ \E end \in {0, through} : Emit("paid", p, TRUE, end)
  /\ UNCHANGED <<appVars, now, acked, lost, replays, faults>>

\* A renewal is declined.
Decline(p) ==
  /\ purchase[p].kind = "plan"
  /\ purchase[p].status = "paid"
  /\ purchase[p].end <= now
  /\ purchase' = [purchase EXCEPT ![p].status = "past_due"]
  /\ Emit("failed", p, FALSE, 0)
  /\ UNCHANGED <<appVars, now, acked, lost, replays, faults>>

\* The subscription is reported as it stands.
Report(p) ==
  /\ purchase[p].kind = "plan"
  /\ purchase[p].status \in {"paid", "past_due"}
  /\ Emit("updated", p, purchase[p].status = "paid", purchase[p].end)
  /\ UNCHANGED <<appVars, purchase, now, acked, lost, replays, faults>>

\* The subscription is deleted, for good.
Cancel(p) ==
  /\ purchase[p].kind = "plan"
  /\ purchase[p].status \in {"paid", "past_due"}
  /\ purchase' = [purchase EXCEPT ![p].status = "canceled"]
  /\ Emit("deleted", p, FALSE, 0)
  /\ UNCHANGED <<appVars, now, acked, lost, replays, faults>>

\* A checkout is reported once more, under a new event id.
Replay(e) ==
  /\ event[e].type = "checkout"
  /\ replays < MaxReplays
  /\ replays' = replays + 1
  /\ Emit("checkout", event[e].purchase, TRUE, 0)
  /\ UNCHANGED <<appVars, purchase, now, acked, lost, faults>>

Tick ==
  /\ now < MaxTime
  /\ now' = now + 1
  /\ UNCHANGED <<appVars, stripeVars, acked, lost, faults>>

-----------------------------------------------------------------------------
(* One delivery: handle_webhook around process_event.                      *)

\* handle_webhook goes on to process_event.  A delivery of an event whose
\* row another one is inserting waits for it and then fails on the primary
\* key: it does not begin.
Unkeyed(e) == record[e].status \in {"none", "processing"}      \* mutant
Unsettled(e) ==
  /\ record[e].status \in {"none", "processing"}
  /\ record[e].status = "none" => \A g \in Handlers : txn[g].event # e

\* The answer: 200, unless processing failed.
AlwaysOk(e, ok) == acked \cup {e}                             \* mutant
Answered(e, ok) == IF ok THEN acked \cup {e} ELSE acked

\* process_event has run and its writes are flushed: ok, or it raised and
\* the attempt is counted.  The answer goes out, or is lost, before get_db
\* commits.
Begin(h, e, ent, row, unlock, ok) ==
  /\ txn[h] = Idle
  /\ e <= nevents
  /\ Unsettled(e)
  /\ txn' = [txn EXCEPT ![h] =
       [event |-> e, ent |-> ent, row |-> row, unlock |-> unlock, ok |-> ok,
        attempts |-> IF ok THEN record[e].attempts
                           ELSE record[e].attempts + 1]]
  /\ acked' \in {acked, Answered(e, ok)}
  /\ UNCHANGED <<stripeVars, matrix, ents, record, now, lost, faults>>

\* What _apply_paid_period makes of period_end.
AddPeriod(current, canonical) == current + 1                  \* mutant
PaidThrough(current, canonical) ==
  IF canonical # 0 THEN IF canonical > current THEN canonical ELSE current
                   ELSE IF current <= now THEN now + 1 ELSE current

GrantOfMatrix(p) ==                                           \* mutant
  [purchase |-> purchase[p].matrix, active |-> TRUE, canceled |-> FALSE,
   end |-> 0]
NewGrant(p) ==
  [purchase |-> p, active |-> TRUE, canceled |-> FALSE,
   end |-> IF purchase[p].kind = "plan" THEN now + 1 ELSE 0]

\* The matrix a checkout unlocks, also when the entitlement is there already.
UnlockSingle(p) ==                                            \* mutant
  IF purchase[p].kind = "single" THEN purchase[p].matrix ELSE None
Unlocks(p) == purchase[p].matrix

\* The SELECT by stripe_ref sees no uncommitted row and no constraint
\* forbids a second one.
IsNew(p) == Granted(p) = {}

GrantEntitlement(h, e) ==
  LET p == event[e].purchase IN
  /\ event[e].type = "checkout"
  /\ matrix[purchase[p].matrix] # "deleted"
  /\ \/ /\ IsNew(p)
        /\ \E i \in EntIds : /\ ents[i] = NoEnt /\ ~Locked(i)
                             /\ Begin(h, e, i, NewGrant(p), Unlocks(p), TRUE)
     \/ /\ ~IsNew(p)
        /\ Begin(h, e, 0, NoEnt, Unlocks(p), TRUE)

\* "rfp not found".
RejectCheckout(h, e) ==
  /\ event[e].type = "checkout"
  /\ matrix[purchase[event[e].purchase].matrix] = "deleted"
  /\ Begin(h, e, 0, NoEnt, None, FALSE)

PlanEvents == {"paid", "failed", "deleted", "updated"}

\* stored_no_matching_plan: nothing is kept of the event but its id.
NoMatchingPlan(h, e) ==
  /\ event[e].type \in PlanEvents
  /\ Granted(event[e].purchase) = {}
  /\ Begin(h, e, 0, NoEnt, None, TRUE)

\* The tombstone check, made under the row lock.
WasCanceled(i) == ents[i].canceled

\* stored_canceled_plan.
PlanWasCanceled(h, e) ==
  /\ event[e].type \in PlanEvents \ {"deleted"}
  /\ \E i \in Granted(event[e].purchase) : ~Locked(i) /\ WasCanceled(i)
  /\ Begin(h, e, 0, NoEnt, None, TRUE)

InvoicePaid(h, e) ==
  /\ event[e].type = "paid"
  /\ \E i \in Granted(event[e].purchase) :
       /\ ~Locked(i) /\ ~WasCanceled(i)
       /\ Begin(h, e, i,
                [ents[i] EXCEPT !.active = TRUE,
                                !.end = PaidThrough(@, event[e].end)],
                None, TRUE)

\* The mail is sent before anything is committed; when it fails, the
\* exception is swallowed by handle_webhook and the flushed change stays.
PaymentFailed(h, e, mailed) ==
  /\ event[e].type = "failed"
  /\ \E i \in Granted(event[e].purchase) :
       /\ ~Locked(i) /\ ~WasCanceled(i)
       /\ Begin(h, e, i, [ents[i] EXCEPT !.active = FALSE], None, mailed)

SubscriptionDeleted(h, e) ==
  /\ event[e].type = "deleted"
  /\ \E i \in Granted(event[e].purchase) :
       /\ ~Locked(i)
       /\ Begin(h, e, i,
                [ents[i] EXCEPT !.active = FALSE, !.end = now,
                                !.canceled = TRUE],
                None, TRUE)

SubscriptionUpdated(h, e) ==
  /\ event[e].type = "updated"
  /\ \E i \in Granted(event[e].purchase) :
       /\ ~Locked(i) /\ ~WasCanceled(i)
       /\ Begin(h, e, i,
                [ents[i] EXCEPT !.active = event[e].active,
                                !.end = event[e].end],
                None, TRUE)

\* stripe_events after a delivery.  The columns a delivery does not write
\* keep what is committed, not what it read.
Recorded(r, t) ==
  [status |-> IF t.ok THEN "processed"
              ELSE IF t.attempts >= MAX_ATTEMPTS THEN "dead_lettered"
              ELSE IF r.status = "none" THEN "processing" ELSE r.status,
   attempts |-> IF t.ok THEN r.attempts ELSE t.attempts]

\* The entitlement after a delivery; audit events are only ever added.
Updated(old, t) == [t.row EXCEPT !.canceled = @ \/ old.canceled]

\* get_db commits, after a failure too: handle_webhook returned normally.
Commit(h) ==
  LET t == txn[h] IN
  /\ t.event # 0
  /\ ents' = [i \in EntIds |-> IF i = t.ent THEN Updated(ents[i], t)
                                             ELSE ents[i]]
  /\ matrix' = [m \in Matrices |-> IF m = t.unlock THEN "unlocked"
                                                   ELSE matrix[m]]
  /\ record' = [record EXCEPT ![t.event] = Recorded(@, t)]
  /\ txn' = [txn EXCEPT ![h] = Idle]
  /\ UNCHANGED <<stripeVars, now, acked, lost, faults>>

\* The open transactions of H are rolled back.  Nobody takes back a 200.
Lose(H) ==
  /\ \E h \in H : txn[h].event # 0
  /\ faults < MaxFaults
  /\ faults' = faults + 1
  /\ lost' = lost \cup (acked \cap {txn[h].event : h \in H})
  /\ txn' = [h \in Handlers |-> IF h \in H THEN Idle ELSE txn[h]]
  /\ UNCHANGED <<stripeVars, matrix, ents, record, now, acked>>

\* The database fails before or at the commit.
Rollback(h) == Lose({h})

\* The process dies.
Crash == Lose(Handlers)

\* already_processed and dead_lettered: a 200 without processing.
Acknowledge(e) ==
  /\ record[e].status \in {"processed", "dead_lettered"}
  /\ acked' = acked \cup {e}
  /\ UNCHANGED <<appVars, stripeVars, now, lost, faults>>

\* delete_matrix; single entitlements of the matrix are deleted with it.
DeleteMatrix(m) ==
  /\ matrix[m] # "deleted"
  /\ \A h \in Handlers : txn[h].unlock # m
  /\ matrix' = [matrix EXCEPT ![m] = "deleted"]
  /\ ents' = [i \in EntIds |->
       IF \E p \in Purchases : /\ ents[i].purchase = p
                               /\ purchase[p].kind = "single"
                               /\ purchase[p].matrix = m
       THEN NoEnt ELSE ents[i]]
  /\ UNCHANGED <<record, txn, stripeVars, now, acked, lost, faults>>

-----------------------------------------------------------------------------

Init ==
  /\ now = 0
  /\ matrix = [m \in Matrices |-> "locked"]
  /\ ents = [i \in EntIds |-> NoEnt]
  /\ record = [e \in EventIds |-> [status |-> "none", attempts |-> 0]]
  /\ txn = [h \in Handlers |-> Idle]
  /\ purchase = [p \in Purchases |-> [kind |-> "single", matrix |-> None,
                                      status |-> "none", end |-> 0]]
  /\ event = [e \in EventIds |-> NoEvent]
  /\ nevents = 0
  /\ acked = {}
  /\ lost = {}
  /\ replays = 0
  /\ faults = 0

StripeStep ==
  \/ \E p \in Purchases :
       \/ \E kind \in {"single", "plan"}, m \in Matrices :
            CreateCheckout(p, kind, m)
       \/ Pay(p)
       \/ Invoice(p)
       \/ Decline(p)
       \/ Report(p)
       \/ Cancel(p)
  \/ \E e \in EventIds : Replay(e)
  \/ Tick

\* process_event.
Process(h, e) ==
  \/ GrantEntitlement(h, e)
  \/ RejectCheckout(h, e)
  \/ NoMatchingPlan(h, e)
  \/ PlanWasCanceled(h, e)
  \/ InvoicePaid(h, e)
  \/ \E mailed \in BOOLEAN : PaymentFailed(h, e, mailed)
  \/ SubscriptionDeleted(h, e)
  \/ SubscriptionUpdated(h, e)

Next ==
  \/ StripeStep
  \/ \E h \in Handlers, e \in EventIds : Process(h, e)
  \/ \E h \in Handlers : Commit(h) \/ Rollback(h)
  \/ Crash
  \/ \E e \in EventIds : Acknowledge(e)
  \/ \E m \in Matrices : DeleteMatrix(m)

Spec == Init /\ [][Next]_vars

(***************************************************************************)
(* Fairness: Stripe delivers an event again and again until it is answered *)
(* with a 200, and a delivery that was handled is committed or lost.       *)
(***************************************************************************)
Fairness ==
  /\ \A e \in EventIds :
       SF_vars(e \notin acked /\ \E h \in Handlers : Process(h, e))
  /\ \A h \in Handlers : WF_vars(Commit(h))

FairSpec == Spec /\ Fairness

-----------------------------------------------------------------------------
(* Properties.                                                             *)

\* One purchase grants one entitlement, however often and however
\* concurrently its checkout is delivered (checkout.session.completed:
\* "cannot double-grant").
OneGrantPerPurchase ==
  \A i, j \in EntIds :
    (ents[i].purchase \in Purchases /\ ents[i].purchase = ents[j].purchase)
      => i = j

\* A deletion that was applied is final: no late invoice or update, and no
\* transaction that read the plan before the deletion, activates it again.
TombstoneHolds == \A i \in EntIds : ents[i].canceled => ~ents[i].active

\* "must not grant a second free month": no delivery of any invoice opens a
\* plan for longer than the period that is paid for.
NoFreeMonth == \A i \in EntIds : ents[i].end <= now + 1

\* A matrix whose checkout was processed stays open, whatever becomes of the
\* plan, the entitlement or the other matrices; only deleting it ends that.
PaidStaysOpen ==
  \A e \in EventIds :
    (event[e].type = "checkout" /\ record[e].status = "processed")
      => matrix[purchase[event[e].purchase].matrix] \in {"unlocked", "deleted"}

\* An event Stripe will not send again is settled, its effects committed with
\* it or dead-lettered; or the delivery that was answered is about to commit
\* them.  The one way for it to be forgotten is that this very transaction is
\* lost between its 200 and its commit.
AckedIsSettled ==
  \A e \in acked :
    \/ record[e].status \in {"processed", "dead_lettered"}
    \/ \E h \in Handlers : txn[h].event = e /\ txn[h].ok
    \/ e \in lost

\* Every matrix that was paid for is opened in the end, through answers that
\* are lost, transactions that are lost before their answer, and deliveries
\* that fail; unless a checkout of the purchase was lost after its 200.
EveryPurchaseOpens ==
  \A p \in Purchases : \A m \in Matrices :
    (purchase[p].status = "paid" /\ purchase[p].matrix = m)
      ~> \/ matrix[m] \in {"unlocked", "deleted"}
         \/ \E e \in lost : event[e].type = "checkout" /\ event[e].purchase = p

\* A cancelled subscription stays cancelled: once its deletion was
\* processed, no entitlement of it is active.
CanceledNeverActive ==
  \A e \in EventIds :
    (event[e].type = "deleted" /\ record[e].status = "processed") =>
      \A i \in Granted(event[e].purchase) : ~ents[i].active
=============================================================================
