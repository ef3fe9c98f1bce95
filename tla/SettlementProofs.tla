-------------------------- MODULE SettlementProofs --------------------------
(***************************************************************************)
(* What holds of Settlement for any number of orders, payments, sessions   *)
(* and workers, any prices and percentages: the type invariant, the safety *)
(* of the settlement whatever the interleaving, that the settlement        *)
(* implements Clearance, and the money: the bills, what is settled, and    *)
(* the webhooks' answers, on every order no two handlers have met on.      *)
(***************************************************************************)
EXTENDS Settlement, TLAPS

USE IdsAssumption DEF ItemStatus, OrderStatus

-----------------------------------------------------------------------------
\* Bill arithmetic stays in the naturals.

\* The product of two naturals is one.
LEMMA NatProduct == \A m, n \in Nat : m * n \in Nat
  OBVIOUS

\* apply_bill_charges never yields a negative charge.
LEMMA ChargesNat == ASSUME NEW total \in Nat PROVE ChargesFor(total) \in Nat
<1>1. \A n \in Nat : Rounded(n) \in Nat
  BY DEF Rounded
<1> DEFINE service == Rounded(total * ServicePct)
<1>2. service \in Nat
  BY <1>1, NatProduct, PctAssumption
<1>3. (total + service) * VatPct \in Nat
  <2>1. total + service \in Nat
    BY <1>2
  <2> QED BY <2>1, NatProduct, PctAssumption
<1>4. Rounded((total + service) * VatPct) \in Nat
  BY <1>1, <1>3
<1> QED BY <1>2, <1>4 DEF ChargesFor

\* Changing the total of a bill leaves an order row.
LEMMA WithTotalType ==
  ASSUME NEW bill \in OrderRow, NEW total \in Nat
  PROVE  /\ WithTotal(bill, total) \in OrderRow
         /\ WithTotal(bill, total).status = bill.status
<1>1. ChargesFor(total) \in Nat
  BY ChargesNat
<1> QED BY <1>1 DEF WithTotal, OrderRow

\* Writing the dirty columns of a row leaves a row.
LEMMA WrittenType ==
  ASSUME NEW now \in OrderRow, NEW seen \in OrderRow, NEW new \in OrderRow
  PROVE  Written(now, seen, new) \in OrderRow
  BY DEF Written, Dirty, OrderRow

\* Marking an order paid leaves a row.
LEMMA DirtyStatusType ==
  ASSUME NEW row \in OrderRow, NEW seen
  PROVE  [row EXCEPT !.status = Dirty(@, seen, "paid")] \in OrderRow
  BY DEF Dirty, OrderRow

\* Confirming a payment leaves a row.
LEMMA ConfirmedRowType ==
  ASSUME NEW row \in PaymentRow
  PROVE  [row EXCEPT !.status = "confirmed"] \in PaymentRow
  BY DEF PaymentRow

\* Voiding a line, or not, leaves a bill, and its status alone.
LEMMA VoidedType ==
  ASSUME NEW t \in Task
  PROVE  Voided(t) \in OrderRow /\ Voided(t).status = t.bill.status
<1>1. t.bill \in OrderRow /\ t.items \in SUBSET Items
  BY DEF Task
<1>2. Subtotal[t.items] \in Nat /\ t.bill.total \in Nat
  BY <1>1, SubtotalAssumption DEF OrderRow
<1>3. (IF t.bill.total < Subtotal[t.items]
       THEN 0 ELSE t.bill.total - Subtotal[t.items]) \in Nat
  BY <1>2
<1> QED BY <1>1, <1>3, WithTotalType DEF Voided

-----------------------------------------------------------------------------
\* Type correctness.

\* What a worker without a request remembers is a task.
LEMMA IdleTaskType == IdleTask \in Task
  BY DEF IdleTask, Task, NoOrder, NoLines, OrderRow, LineStatus

LEMMA InitTypeOK == Init => TypeOK
  BY IdleTaskType DEF Init, TypeOK, NoOrder, NoItem, NoPayment, OrderRow,
     PaymentRow, LineStatus, IdleTask

\* A handler that begins with a well-formed task leaves well-formed tasks.
LEMMA BeginType ==
  ASSUME TypeOK, NEW w \in Workers, NEW t \in Task, Begin(w, t),
         t.op # "idle" => t.order \in Orders,
         t.op \in {"pay", "hook"} => t.pay \in Payments,
         t.op = "hook" => payment[t.pay].status # "absent"
  PROVE  /\ task' \in [Workers -> Task]
         /\ \A v \in Workers : task'[v].op # "idle" => task'[v].order \in Orders
         /\ \A v \in Workers : task'[v].op \in {"pay", "hook"}
                                 => task'[v].pay \in Payments
         /\ \A v \in Workers : task'[v].op = "hook"
                                 => payment[task'[v].pay].status # "absent"
  BY DEF TypeOK, Begin

\* A handler that ends leaves well-formed tasks.
LEMMA FinishType ==
  ASSUME TypeOK, NEW w \in Workers, Finish(w)
  PROVE  /\ task' \in [Workers -> Task]
         /\ \A v \in Workers : task'[v].op # "idle" => task'[v].order \in Orders
         /\ \A v \in Workers : task'[v].op \in {"pay", "hook"}
                                 => task'[v].pay \in Payments
         /\ \A v \in Workers : task'[v].op = "hook"
                                 => payment[task'[v].pay].status # "absent"
  BY IdleTaskType DEF TypeOK, Finish, IdleTask

\* An order a handler overtakes is one, and no other order is concerned.
LEMMA OvertakesType ==
  ASSUME NEW t, Overtakes(t)
  PROVE  /\ overtaken \subseteq overtaken' /\ overtaken' \subseteq overtaken \union {t.order}
         /\ Stale(t) => t.order \in overtaken'
  BY DEF Overtakes

LEMMA StepTypeOK == TypeOK /\ [Next]_vars => TypeOK'
<1> SUFFICES ASSUME TypeOK, [Next]_vars PROVE TypeOK'
  OBVIOUS
<1>1. ASSUME NEW w \in Workers, PlaceRead(w) PROVE TypeOK'
  <2>1. PICK s \in Sessions, o \in Orders, S \in (SUBSET Items) \ {{}} :
          Begin(w, [IdleTask EXCEPT !.op = "place", !.order = o, !.items = S,
                                    !.bill = [order[o] EXCEPT !.session = s]])
    BY <1>1 DEF PlaceRead
  <2> DEFINE t == [IdleTask EXCEPT !.op = "place", !.order = o, !.items = S,
                                   !.bill = [order[o] EXCEPT !.session = s]]
  <2>2. [order[o] EXCEPT !.session = s] \in OrderRow
    <3>1. order[o] \in OrderRow
      BY DEF TypeOK
    <3> QED BY <3>1 DEF OrderRow
  <2>3. t \in Task /\ t.op = "place" /\ t.order = o
    BY <2>2, IdleTaskType DEF Task
  <2> QED BY <1>1, <2>1, <2>3, BeginType DEF PlaceRead, TypeOK, db, gateway, history
<1>2. ASSUME NEW w \in Workers, PlaceCommit(w) PROVE TypeOK'
  <2> DEFINE t == task[w]
             new == WithTotal(t.bill, t.bill.total + Subtotal[t.items])
  <2>1. t \in Task /\ t.order \in Orders /\ t.bill \in OrderRow
    BY <1>2 DEF PlaceCommit, TypeOK, Task
  <2>2. t.bill.total + Subtotal[t.items] \in Nat
    BY <2>1, SubtotalAssumption DEF Task, OrderRow
  <2>3. new \in OrderRow
    BY <2>1, <2>2, WithTotalType
  <2>4. [new EXCEPT !.status = "open"] \in OrderRow
    BY <2>3 DEF OrderRow
  <2>5. Written(order[t.order], t.bill, new) \in OrderRow
    BY <2>1, <2>3, WrittenType DEF TypeOK
  <2>6. order' \in [Orders -> OrderRow]
    BY <1>2, <2>1, <2>4, <2>5 DEF PlaceCommit, TypeOK
  <2>7. item' \in [Items -> [order : Orders \union {None}, status : LineStatus]]
    BY <1>2, <2>1 DEF PlaceCommit, TypeOK, LineStatus
  <2>8. overtaken' \subseteq Orders
    BY <1>2, <2>1, OvertakesType DEF PlaceCommit, TypeOK
  <2> QED BY <1>2, <2>6, <2>7, <2>8, FinishType DEF PlaceCommit, TypeOK, gateway
<1>3. ASSUME NEW w \in Workers, StatusRead(w) PROVE TypeOK'
  <2>1. PICK i \in Items, target \in ItemStatus :
          /\ item[i].order # None
          /\ Begin(w, [IdleTask EXCEPT !.op = "status", !.order = item[i].order,
                         !.items = {i}, !.target = target,
                         !.bill = order[item[i].order],
                         !.lines = LinesOf(item[i].order)])
    BY <1>3 DEF StatusRead
  <2> DEFINE o == item[i].order
             t == [IdleTask EXCEPT !.op = "status", !.order = o,
                         !.items = {i}, !.target = target,
                         !.bill = order[o], !.lines = LinesOf(o)]
  <2>2. o \in Orders
    BY <2>1 DEF TypeOK
  <2>3. LinesOf(o) \in [Items -> LineStatus]
    BY DEF LinesOf, TypeOK, LineStatus
  <2>4. order[o] \in OrderRow
    BY <2>2 DEF TypeOK
  <2>5. t \in Task /\ t.op = "status" /\ t.order = o
    BY <2>2, <2>3, <2>4, IdleTaskType DEF Task
  <2> QED BY <1>3, <2>1, <2>2, <2>5, BeginType DEF StatusRead, TypeOK, db, gateway,
                                                      history
<1>4. ASSUME NEW w \in Workers, StatusCommit(w) PROVE TypeOK'
  <2> DEFINE t == task[w]
             lines == [i \in Items |-> IF i \in t.items THEN t.target ELSE t.lines[i]]
             new == [Voided(t) EXCEPT !.status = Advanced(@, lines)]
  <2>1. t \in Task /\ t.order \in Orders /\ t.bill \in OrderRow
    BY <1>4 DEF StatusCommit, TypeOK, Task
  <2>2. new \in OrderRow
    BY <2>1, VoidedType DEF Advanced, OrderRow
  <2>3. Written(order[t.order], t.bill, new) \in OrderRow
    BY <2>1, <2>2, WrittenType DEF TypeOK
  <2>4. order' \in [Orders -> OrderRow]
    BY <1>4, <2>1, <2>3 DEF StatusCommit, TypeOK
  <2>5. \A i \in Items : Dirty(item[i].status, t.lines[i], t.target) \in LineStatus
    BY <2>1 DEF Dirty, TypeOK, Task, LineStatus
  <2>6. item' \in [Items -> [order : Orders \union {None}, status : LineStatus]]
    BY <1>4, <2>1, <2>5 DEF StatusCommit, TypeOK
  <2>7. overtaken' \subseteq Orders
    BY <1>4, <2>1, OvertakesType DEF StatusCommit, TypeOK
  <2>8. revived' \subseteq Items /\ revoided' \subseteq Items
    <3>1. t.items \subseteq Items
      BY <2>1 DEF Task
    <3> QED BY <1>4, <3>1 DEF StatusCommit, TypeOK, Voids, Revives
  <2> QED BY <1>4, <2>4, <2>6, <2>7, <2>8, FinishType DEF StatusCommit, TypeOK, gateway
<1>5. ASSUME NEW w \in Workers, PayRead(w) PROVE TypeOK'
  <2>1. PICK o \in Orders, p \in Payments, amount \in Tendered, split \in BOOLEAN :
          Begin(w, [IdleTask EXCEPT !.op = "pay", !.order = o, !.pay = p,
                      !.amount = amount, !.split = split, !.bill = order[o]])
    BY <1>5 DEF PayRead
  <2> DEFINE t == [IdleTask EXCEPT !.op = "pay", !.order = o, !.pay = p,
                      !.amount = amount, !.split = split, !.bill = order[o]]
  <2>2. order[o] \in OrderRow /\ amount \in Nat
    BY TenderedAssumption DEF TypeOK
  <2>3. t \in Task /\ t.op = "pay" /\ t.order = o /\ t.pay = p
    BY <2>2, IdleTaskType DEF Task
  <2> QED BY <1>5, <2>1, <2>3, BeginType DEF PayRead, TypeOK, db, gateway, history
<1>6. ASSUME NEW w \in Workers, PayCommit(w) PROVE TypeOK'
  <2>1. task[w] \in Task /\ task[w].order \in Orders /\ task[w].pay \in Payments
    BY <1>6 DEF PayCommit, TypeOK
  <2>2. order' \in [Orders -> OrderRow]
    BY <1>6, <2>1, DirtyStatusType DEF PayCommit, TypeOK
  <2>3. /\ payment' \in [Payments -> PaymentRow]
        /\ \A p \in Payments : payment'[p].status # "absent"
                                 => payment'[p].order \in Orders
    BY <1>6, <2>1 DEF PayCommit, TypeOK, PaymentRow, Task
  <2>4. passes' \in [Orders -> Nat]
    BY <1>6, <2>1 DEF PayCommit, TypeOK
  <2>5. overtaken' \subseteq Orders
    BY <1>6, <2>1, OvertakesType DEF PayCommit, TypeOK
  <2> QED BY <1>6, <2>2, <2>3, <2>4, <2>5, FinishType DEF PayCommit, TypeOK, gateway
<1>7. ASSUME NEW w \in Workers, PayRefused(w) PROVE TypeOK'
  BY <1>7, FinishType DEF PayRefused, TypeOK, db, gateway, history
<1>8. CASE Checkout
  BY <1>8 DEF Checkout, TypeOK, PaymentRow, OrderRow, GrandTotal, gateway, history
<1>9. ASSUME NEW p \in Payments, Charge(p) \/ Redeliver(p) \/ HookSeen(p) PROVE TypeOK'
  BY <1>9 DEF Charge, Redeliver, HookSeen, TypeOK, db, history
<1>10. ASSUME NEW w \in Workers, NEW p \in Payments, HookRead(w, p) PROVE TypeOK'
  <2> DEFINE t == [IdleTask EXCEPT !.op = "hook", !.pay = p,
                               !.order = payment[p].order,
                               !.amount = payment[p].amount,
                               !.bill = order[payment[p].order]]
  <2>1. payment[p].order \in Orders
    BY <1>10 DEF HookRead, TypeOK
  <2>2. order[payment[p].order] \in OrderRow /\ payment[p].amount \in Nat
    BY <2>1 DEF TypeOK, PaymentRow
  <2>3. /\ t \in Task /\ t.op = "hook"
        /\ t.order = payment[p].order /\ t.pay = p
    BY <2>1, <2>2, IdleTaskType DEF Task
  <2>4. payment[p].status # "absent"
    BY <1>10 DEF HookRead
  <2> QED BY <1>10, <2>1, <2>3, <2>4, BeginType DEF HookRead, TypeOK, db, gateway,
                                                      history
<1>11. ASSUME NEW w \in Workers, HookFlag(w) PROVE TypeOK'
  <2>1. task[w].pay \in Payments
    BY <1>11 DEF HookFlag, TypeOK
  <2>2. webhook' \in [Payments -> {"none", "owed", "acked"}]
    BY <1>11 DEF HookFlag, TypeOK
  <2> QED BY <1>11, <2>1, <2>2, FinishType DEF HookFlag, TypeOK, history
<1>12. ASSUME NEW w \in Workers, HookConfirm(w) PROVE TypeOK'
  <2>1. task[w].order \in Orders /\ task[w].pay \in Payments
    BY <1>12 DEF HookConfirm, TypeOK
  <2>2. order' \in [Orders -> OrderRow]
    BY <1>12, <2>1, DirtyStatusType DEF HookConfirm, TypeOK
  <2>3. /\ payment' \in [Payments -> PaymentRow]
        /\ \A p \in Payments : payment'[p].status # "absent"
                                 => payment'[p].order \in Orders
        /\ \A p \in Payments : payment[p].status # "absent"
                                 => payment'[p].status # "absent"
    <3>1. [payment[task[w].pay] EXCEPT !.status = "confirmed"] \in PaymentRow
      BY <2>1, ConfirmedRowType DEF TypeOK
    <3>2. payment' \in [Payments -> PaymentRow]
      BY <1>12, <2>1, <3>1 DEF HookConfirm, TypeOK
    <3>3. payment[task[w].pay].status # "absent"
      BY <1>12 DEF HookConfirm, TypeOK
    <3>4. \A p \in Payments : /\ payment'[p].order = payment[p].order
                             /\ payment'[p].status \in {payment[p].status, "confirmed"}
      BY <1>12, <2>1 DEF HookConfirm, TypeOK, PaymentRow
    <3>5. \A p \in Payments : payment'[p].status # payment[p].status => p = task[w].pay
      BY <1>12 DEF HookConfirm, TypeOK
    <3> QED BY <3>2, <3>3, <3>4, <3>5 DEF TypeOK
  <2>4. passes' \in [Orders -> Nat]
    BY <1>12, <2>1 DEF HookConfirm, TypeOK
  <2>5. webhook' \in [Payments -> {"none", "owed", "acked"}]
    BY <1>12 DEF HookConfirm, TypeOK
  <2>6. overtaken' \subseteq Orders
    BY <1>12, <2>1, OvertakesType DEF HookConfirm, TypeOK
  <2> QED BY <1>12, <2>2, <2>3, <2>4, <2>5, <2>6, FinishType DEF HookConfirm, TypeOK
<1>13. ASSUME NEW w \in Workers, HookRefused(w) PROVE TypeOK'
  <2>1. task[w].pay \in Payments /\ task[w].order \in Orders
    BY <1>13 DEF HookRefused, TypeOK
  <2>2. overtaken' \subseteq Orders
    BY <1>13, <2>1, OvertakesType DEF HookRefused, TypeOK
  <2> QED BY <1>13, <2>1, <2>2, FinishType DEF HookRefused, TypeOK, db
<1>14. ASSUME NEW w \in Workers, Abort(w) PROVE TypeOK'
  BY <1>14, FinishType DEF Abort, TypeOK, db, gateway, history
<1>15. CASE UNCHANGED vars
  BY <1>15 DEF vars, db, gateway, history, TypeOK
<1> QED BY <1>1, <1>2, <1>3, <1>4, <1>5, <1>6, <1>7, <1>8, <1>9, <1>10, <1>11,
           <1>12, <1>13, <1>14, <1>15 DEF Next, Commit, Deliver

\* Every reachable state is well typed: no handler writes a status, an amount
\* or a reference outside its column, the bill of an order stays a natural
\* number however many voids meet on it, and every payment row has its order.
THEOREM TypeCorrect == Spec => []TypeOK
  BY InitTypeOK, StepTypeOK, PTL DEF Spec

-----------------------------------------------------------------------------
\* The settlement, whatever the interleaving.

LEMMA InitInv == Init => SettlementInv
  BY InitTypeOK DEF Init, SettlementInv, SettledHasPass, PassIsPaidFor,
     ConfirmedHasPass, TillTakesOnce, PendingIsOnline, TaskOwnsPayment,
     SawSettledSawPass, Confirmed, Settled, NoOrder, NoPayment, IdleTask

\* The steps that touch no payment and no pass, and mark no order paid, keep
\* the facts about orders, passes and payments.
LEMMA QuietStep ==
  ASSUME SettlementInv, UNCHANGED <<payment, passes>>,
         \A o \in Orders : Settled(o)' => Settled(o)
  PROVE  /\ SettledHasPass' /\ PassIsPaidFor' /\ ConfirmedHasPass'
         /\ TillTakesOnce' /\ PendingIsOnline'
  BY DEF SettlementInv, SettledHasPass, PassIsPaidFor, ConfirmedHasPass,
     TillTakesOnce, PendingIsOnline, Settled, Confirmed

\* A handler that begins without a payment of its own, or ends, keeps the
\* facts about the others' payments as long as the payments stay.
LEMMA QuietTask ==
  ASSUME SettlementInv, UNCHANGED <<payment, passes>>,
         NEW w \in Workers, NEW t, task' = [task EXCEPT ![w] = t],
         t.op \in {"idle", "place", "status"}
  PROVE  TaskOwnsPayment' /\ SawSettledSawPass'
  BY DEF SettlementInv, TypeOK, TaskOwnsPayment, SawSettledSawPass, NeedsPass

\* Saving a stale status never marks an order paid.
LEMMA PlaceMarksNonePaid ==
  ASSUME SettlementInv, NEW w \in Workers, PlaceCommit(w), NEW o \in Orders, Settled(o)'
  PROVE  Settled(o)
<1> DEFINE t == task[w]
           new == WithTotal(t.bill, t.bill.total + Subtotal[t.items])
<1>1. t.bill \in OrderRow /\ t.bill.total + Subtotal[t.items] \in Nat
  <2>1. t \in Task
    BY DEF SettlementInv, TypeOK
  <2>2. t.bill \in OrderRow /\ t.items \in SUBSET Items
    BY <2>1 DEF Task
  <2>3. t.bill.total \in Nat /\ Subtotal[t.items] \in Nat
    BY <2>2, SubtotalAssumption DEF OrderRow
  <2> QED BY <2>2, <2>3
<1>2. new.status = t.bill.status
  BY <1>1, WithTotalType
<1>3. [new EXCEPT !.status = "open"].status # "paid"
  BY <1>1, WithTotalType DEF OrderRow
<1>4. Written(order[t.order], t.bill, new).status = order[t.order].status
  BY <1>2 DEF Written, Dirty
<1> QED BY <1>3, <1>4 DEF PlaceCommit, Settled, SettlementInv, TypeOK

LEMMA StatusMarksNonePaid ==
  ASSUME SettlementInv, NEW w \in Workers, StatusCommit(w), NEW o \in Orders, Settled(o)'
  PROVE  Settled(o)
<1> DEFINE t == task[w]
           lines == [i \in Items |-> IF i \in t.items THEN t.target ELSE t.lines[i]]
           new == [Voided(t) EXCEPT !.status = Advanced(@, lines)]
<1>1. t \in Task
  BY DEF SettlementInv, TypeOK
<1>2. Voided(t) \in OrderRow /\ Voided(t).status = t.bill.status
  BY <1>1, VoidedType
<1>3. new.status = Advanced(t.bill.status, lines)
  BY <1>2 DEF OrderRow
<1>4. Advanced(t.bill.status, lines) = "paid" => t.bill.status = "paid"
  BY DEF Advanced
<1>5. Written(order[t.order], t.bill, new).status = "paid"
        => order[t.order].status = "paid"
  BY <1>3, <1>4 DEF Written, Dirty
<1> QED BY <1>5 DEF StatusCommit, Settled, SettlementInv, TypeOK

\* A webhook that confirms leaves its order with exactly one pass, whether it
\* inserted the pass or relied on the one that came with "paid".
LEMMA HookConfirmPass ==
  ASSUME SettlementInv, NEW w \in Workers, HookConfirm(w)
  PROVE  passes' = [passes EXCEPT ![task[w].order] = 1]
<1>1. CASE NeedsPass(task[w])
  <2>1. passes[task[w].order] = 0
    BY <1>1 DEF HookConfirm, PassInserts
  <2>2. passes' = [passes EXCEPT ![task[w].order] = passes[task[w].order] + 1]
    BY <1>1 DEF HookConfirm
  <2> QED BY <2>1, <2>2
<1>2. CASE ~NeedsPass(task[w])
  <2>1. passes[task[w].order] = 1
    BY <1>2 DEF HookConfirm, SettlementInv, SawSettledSawPass
  <2>2. passes' = [passes EXCEPT ![task[w].order] = passes[task[w].order]]
    BY <1>2 DEF HookConfirm
  <2> QED BY <2>1, <2>2
<1> QED BY <1>1, <1>2

LEMMA StepInv == SettlementInv /\ [Next]_vars => SettlementInv'
<1> SUFFICES ASSUME SettlementInv, [Next]_vars PROVE SettlementInv'
  OBVIOUS
<1> TypeOK /\ TypeOK'
  BY StepTypeOK DEF SettlementInv
<1>1. ASSUME NEW w \in Workers, PlaceRead(w) PROVE SettlementInv'
  <2>1. PICK t : t.op = "place" /\ Begin(w, t)
    BY <1>1 DEF PlaceRead, IdleTask
  <2>2. UNCHANGED <<order, payment, passes>>
    BY <1>1 DEF PlaceRead, db
  <2>3. TaskOwnsPayment' /\ SawSettledSawPass'
    BY <2>1, <2>2, QuietTask DEF Begin
  <2> QED BY <2>2, <2>3, QuietStep DEF SettlementInv, Settled
<1>2. ASSUME NEW w \in Workers, PlaceCommit(w) PROVE SettlementInv'
  <2>1. UNCHANGED <<payment, passes>> /\ Finish(w)
    BY <1>2 DEF PlaceCommit
  <2>2. TaskOwnsPayment' /\ SawSettledSawPass'
    BY <2>1, QuietTask DEF Finish, IdleTask
  <2> QED BY <1>2, <2>1, <2>2, PlaceMarksNonePaid, QuietStep DEF SettlementInv
<1>3. ASSUME NEW w \in Workers, StatusRead(w) PROVE SettlementInv'
  <2>1. PICK t : t.op = "status" /\ Begin(w, t)
    BY <1>3 DEF StatusRead, IdleTask
  <2>2. UNCHANGED <<order, payment, passes>>
    BY <1>3 DEF StatusRead, db
  <2>3. TaskOwnsPayment' /\ SawSettledSawPass'
    BY <2>1, <2>2, QuietTask DEF Begin
  <2> QED BY <2>2, <2>3, QuietStep DEF SettlementInv, Settled
<1>4. ASSUME NEW w \in Workers, StatusCommit(w) PROVE SettlementInv'
  <2>1. UNCHANGED <<payment, passes>> /\ Finish(w)
    BY <1>4 DEF StatusCommit
  <2>2. TaskOwnsPayment' /\ SawSettledSawPass'
    BY <2>1, QuietTask DEF Finish, IdleTask
  <2> QED BY <1>4, <2>1, <2>2, StatusMarksNonePaid, QuietStep DEF SettlementInv
<1>5. ASSUME NEW w \in Workers, PayRead(w) PROVE SettlementInv'
  <2>1. UNCHANGED <<order, payment, passes>>
    BY <1>5 DEF PayRead, db
  <2>2. PICK t :
          /\ t.op = "pay" /\ t.pay \in Payments /\ FreshPayment(t.pay)
          /\ task' = [task EXCEPT ![w] = t]
    BY <1>5 DEF PayRead, Begin, IdleTask
  <2>3. TaskOwnsPayment' /\ SawSettledSawPass'
    BY <2>1, <2>2 DEF SettlementInv, TypeOK, TaskOwnsPayment,
                      SawSettledSawPass, NeedsPass, FreshPayment
  <2> QED BY <2>1, <2>3, QuietStep DEF SettlementInv, Settled
<1>6. ASSUME NEW w \in Workers, PayCommit(w) PROVE SettlementInv'
  <2>0. PICK o \in Orders, p \in Payments : o = task[w].order /\ p = task[w].pay
    BY <1>6 DEF PayCommit, TypeOK
  <2>1. passes[o] = 0
    BY <1>6, <2>0 DEF PayCommit, PassInserts
  <2>2. payment[p].status = "absent"
    BY <1>6, <2>0 DEF PayCommit, SettlementInv, TaskOwnsPayment
  <2>3. Confirmed(p)' /\ payment'[p].order = o /\ passes' = [passes EXCEPT ![o] = 1]
    BY <1>6, <2>0, <2>1 DEF PayCommit, Confirmed, TypeOK
  <2>4. \A q \in Payments \ {p} : payment'[q] = payment[q]
    BY <1>6, <2>0 DEF PayCommit, TypeOK
  <2>5. \A q \in Orders \ {o} : Settled(q)' => Settled(q)
    BY <1>6, <2>0 DEF PayCommit, Settled, TypeOK
  <2>6. \A q \in Payments : Confirmed(q) => payment[q].order # o
    BY <2>1 DEF SettlementInv, ConfirmedHasPass
  <2>7. SettledHasPass' /\ PassIsPaidFor' /\ ConfirmedHasPass'
    <3>1. \A q \in Orders : (q = o /\ passes'[q] = 1) \/ (q # o /\ passes'[q] = passes[q])
      BY <2>3 DEF TypeOK
    <3>2. SettledHasPass'
      BY <2>5, <3>1 DEF SettlementInv, SettledHasPass
    <3>3. PassIsPaidFor'
      BY <2>2, <2>3, <2>4, <3>1 DEF SettlementInv, PassIsPaidFor, Confirmed
    <3>4. ConfirmedHasPass'
      BY <2>3, <2>4, <3>1 DEF SettlementInv, ConfirmedHasPass, Confirmed, TypeOK
    <3> QED BY <3>2, <3>3, <3>4
  <2>8. TillTakesOnce' /\ PendingIsOnline'
    BY <2>1, <2>3, <2>4, <2>6 DEF SettlementInv, TillTakesOnce, PendingIsOnline, Confirmed
  <2>9. /\ task' = [task EXCEPT ![w] = IdleTask] /\ IdleTask.op = "idle"
        /\ task[w].op = "pay"
    BY <1>6 DEF PayCommit, Finish, IdleTask
  <2>10. TaskOwnsPayment'
    <3>1. ASSUME NEW v \in Workers, task'[v].op \in {"pay", "hook"}
          PROVE  v # w /\ task'[v] = task[v] /\ task[v].pay \in Payments
      BY <2>9, <3>1 DEF TypeOK
    <3>2. ASSUME NEW v \in Workers, task'[v].op \in {"pay", "hook"}
          PROVE  task[v].pay # p
      BY <2>0, <2>2, <2>9, <3>1, <3>2 DEF SettlementInv, TaskOwnsPayment, TypeOK
    <3> QED BY <2>4, <3>1, <3>2 DEF SettlementInv, TaskOwnsPayment
  <2>11. SawSettledSawPass'
    BY <2>1, <2>3, <2>9 DEF SettlementInv, SawSettledSawPass, NeedsPass, TypeOK
  <2> QED BY <2>7, <2>8, <2>10, <2>11 DEF SettlementInv
<1>7. ASSUME NEW w \in Workers, PayRefused(w) \/ HookFlag(w) \/ HookRefused(w) \/ Abort(w)
      PROVE SettlementInv'
  <2>1. UNCHANGED <<order, payment, passes>> /\ Finish(w)
    BY <1>7 DEF PayRefused, HookFlag, HookRefused, Abort, db
  <2>2. TaskOwnsPayment' /\ SawSettledSawPass'
    BY <2>1, QuietTask DEF Finish, IdleTask
  <2> QED BY <2>1, <2>2, QuietStep DEF SettlementInv, Settled
<1>8. CASE Checkout
  <2>1. PICK p \in Payments :
          /\ FreshPayment(p)
          /\ payment'[p].status = "pending" /\ payment'[p].source = "gateway"
          /\ \A q \in Payments \ {p} : payment'[q] = payment[q]
    BY <1>8 DEF Checkout, TypeOK
  <2>2. UNCHANGED <<order, passes, task>>
    BY <1>8 DEF Checkout
  <2>3. \A q \in Payments \ {p} : payment'[q] = payment[q]
    BY <2>1
  <2>4. \A q \in Payments : (Confirmed(q)' <=> Confirmed(q))
                            /\ (Confirmed(q) => payment'[q] = payment[q])
    BY <2>1, <2>3 DEF Confirmed, FreshPayment
  <2>5. SettledHasPass' /\ PassIsPaidFor' /\ ConfirmedHasPass' /\ TillTakesOnce'
    BY <2>2, <2>4 DEF SettlementInv, SettledHasPass, PassIsPaidFor,
                      ConfirmedHasPass, TillTakesOnce, Settled
  <2>6. PendingIsOnline'
    BY <2>1, <2>3 DEF SettlementInv, PendingIsOnline
  <2>7. TaskOwnsPayment' /\ SawSettledSawPass'
    BY <2>1, <2>2, <2>3 DEF SettlementInv, TaskOwnsPayment, TypeOK,
                      SawSettledSawPass, NeedsPass, FreshPayment
  <2> QED BY <2>5, <2>6, <2>7 DEF SettlementInv
<1>9. ASSUME NEW p \in Payments, Charge(p) \/ Redeliver(p) \/ HookSeen(p)
      PROVE SettlementInv'
  <2>1. UNCHANGED <<order, payment, passes, task>>
    BY <1>9 DEF Charge, Redeliver, HookSeen, db
  <2> QED BY <2>1, QuietStep DEF SettlementInv, Settled, TaskOwnsPayment,
                                 SawSettledSawPass, NeedsPass
<1>10. ASSUME NEW w \in Workers, NEW p \in Payments, HookRead(w, p)
       PROVE SettlementInv'
  <2>1. UNCHANGED <<order, payment, passes>>
    BY <1>10 DEF HookRead, db
  <2>2. PICK t :
          /\ t.op = "hook" /\ t.pay = p /\ t.order = payment[p].order
          /\ t.bill = order[payment[p].order]
          /\ task' = [task EXCEPT ![w] = t]
    BY <1>10 DEF HookRead, Begin, IdleTask
  <2>3. payment[p].source = "gateway" /\ payment[p].order \in Orders
    BY <1>10 DEF HookRead, SettlementInv, PendingIsOnline, TypeOK
  <2>4. ~NeedsPass(t) => passes[t.order] = 1
    BY <2>2, <2>3 DEF NeedsPass, SettlementInv, SettledHasPass, Settled
  <2>5. TaskOwnsPayment'
    BY <2>1, <2>2, <2>3 DEF SettlementInv, TypeOK, TaskOwnsPayment
  <2>6. SawSettledSawPass'
    BY <2>1, <2>2, <2>4 DEF SettlementInv, TypeOK, SawSettledSawPass, NeedsPass
  <2> QED BY <2>1, <2>5, <2>6, QuietStep DEF SettlementInv, Settled
<1>11. ASSUME NEW w \in Workers, HookConfirm(w) PROVE SettlementInv'
  <2>0. PICK o \in Orders, p \in Payments : o = task[w].order /\ p = task[w].pay
    BY <1>11 DEF HookConfirm, TypeOK
  <2>1. payment[p].order = o /\ payment[p].source = "gateway"
    BY <1>11, <2>0 DEF HookConfirm, SettlementInv, TaskOwnsPayment
  <2>2. passes' = [passes EXCEPT ![o] = 1]
    BY <1>11, <2>0, HookConfirmPass
  <2>3. /\ payment'[p].order = o /\ payment'[p].source = "gateway"
        /\ Confirmed(p)'
    <3>1. payment'[p] = [payment[p] EXCEPT !.status = "confirmed"]
      BY <1>11, <2>0 DEF HookConfirm, TypeOK
    <3>2. payment[p] \in PaymentRow
      BY DEF TypeOK
    <3> QED BY <2>1, <3>1, <3>2 DEF Confirmed, PaymentRow
  <2>4. \A q \in Payments \ {p} : payment'[q] = payment[q]
    BY <1>11, <2>0 DEF HookConfirm, TypeOK
  <2>5. \A q \in Orders \ {o} : Settled(q)' => Settled(q)
    BY <1>11, <2>0 DEF HookConfirm, Settled, TypeOK
  <2>6. \A q \in Orders : (q = o /\ passes'[q] = 1)
                           \/ (q # o /\ passes'[q] = passes[q])
    BY <2>2 DEF TypeOK
  <2>7. SettledHasPass'
    BY <2>5, <2>6 DEF SettlementInv, SettledHasPass
  <2>8. PassIsPaidFor'
    <3>1. ASSUME NEW q \in Orders, passes[q] = 1, q # o
          PROVE  \E r \in Payments : Confirmed(r)' /\ payment'[r].order = q
      BY <2>1, <2>4, <3>1 DEF SettlementInv, PassIsPaidFor, Confirmed
    <3> QED BY <2>3, <2>6, <3>1 DEF SettlementInv, PassIsPaidFor
  <2>9. ConfirmedHasPass'
    <3>1. ASSUME NEW q \in Payments, Confirmed(q)', q # p
          PROVE  Confirmed(q) /\ payment'[q].order = payment[q].order
                 /\ payment[q].order \in Orders
      BY <2>4, <3>1 DEF Confirmed, TypeOK
    <3> QED BY <2>3, <2>6, <3>1 DEF SettlementInv, ConfirmedHasPass
  <2>10. TillTakesOnce' /\ PendingIsOnline'
    BY <2>3, <2>4 DEF SettlementInv, TillTakesOnce, PendingIsOnline, Confirmed
  <2>11. /\ task' = [task EXCEPT ![w] = IdleTask] /\ IdleTask.op = "idle"
    BY <1>11 DEF HookConfirm, Finish, IdleTask
  <2>12. TaskOwnsPayment'
    <3>1. ASSUME NEW v \in Workers, task'[v].op \in {"pay", "hook"}
          PROVE  v # w /\ task'[v] = task[v] /\ task[v].pay \in Payments
      BY <2>11, <3>1 DEF TypeOK
    <3>2. payment[p].status # "absent"
      BY <1>11, <2>0 DEF HookConfirm, TypeOK
    <3>3. ASSUME NEW v \in Workers, task[v].op = "pay" PROVE task[v].pay # p
      BY <3>2, <3>3 DEF SettlementInv, TaskOwnsPayment
    <3> QED BY <2>1, <2>3, <2>4, <3>1, <3>3 DEF SettlementInv, TaskOwnsPayment
  <2>13. SawSettledSawPass'
    BY <2>1, <2>2, <2>11 DEF SettlementInv, SawSettledSawPass, NeedsPass, TypeOK
  <2> QED BY <2>7, <2>8, <2>9, <2>10, <2>12, <2>13 DEF SettlementInv
<1>12. CASE UNCHANGED vars
  <2>1. UNCHANGED <<order, payment, passes, task>>
    BY <1>12 DEF vars, db
  <2> QED BY <2>1, QuietStep DEF SettlementInv, Settled, TaskOwnsPayment,
                                 SawSettledSawPass, NeedsPass
<1> QED BY <1>1, <1>2, <1>3, <1>4, <1>5, <1>6, <1>7, <1>8, <1>9, <1>10, <1>11,
           <1>12 DEF Next, Commit, Deliver

LEMMA InvariantHolds == Spec => []SettlementInv
  BY InitInv, StepInv, PTL DEF Spec

\* No interleaving of any number of tills, webhooks, stations and guests shows
\* an order paid without its one exit pass and a confirmed payment behind it.
THEOREM PaidIsBacked == Spec => []SettledIsBacked
<1>1. SettlementInv => SettledIsBacked
  BY DEF SettlementInv, SettledHasPass, PassIsPaidFor, SettledIsBacked
<1> QED BY <1>1, InvariantHolds, PTL

\* Whoever has paid gets out: the order of a confirmed payment has its one pass.
THEOREM PayersGetOut == Spec => []ConfirmedHasPass
<1>1. SettlementInv => ConfirmedHasPass
  BY DEF SettlementInv
<1> QED BY <1>1, InvariantHolds, PTL

\* However many tills take money at once, an order has at most one confirmed
\* payment taken at a till.
THEOREM OneTillPayment == Spec => []TillTakesOnce
<1>1. SettlementInv => TillTakesOnce
  BY DEF SettlementInv
<1> QED BY <1>1, InvariantHolds, PTL

-----------------------------------------------------------------------------
\* The settlement implements Clearance.

\* What Clearance sees of a state.
Cleared == {o \in Orders : passes[o] > 0}
Settles == [p \in Payments |-> IF Confirmed(p) THEN payment[p].order ELSE None]

LEMMA InitClearing == Init => Clearing!Init
  BY DEF Init, Clearing!Init, Confirmed, NoPayment

\* A step that changes no pass and confirms nothing is invisible to Clearance.
LEMMA QuietClearing ==
  ASSUME UNCHANGED passes,
         \A p \in Payments : /\ Confirmed(p)' <=> Confirmed(p)
                             /\ Confirmed(p) => payment'[p].order = payment[p].order
  PROVE  UNCHANGED Clearing!vars
<1>1. Cleared' = Cleared
  BY DEF Cleared
<1>2. Settles' = Settles
  BY DEF Settles
<1> QED BY <1>1, <1>2 DEF Cleared, Settles, Clearing!vars

\* A step that confirms payment p of order o, and leaves o with its pass.
LEMMA ConfirmStep ==
  ASSUME SettlementInv, NEW p \in Payments, NEW o \in Orders,
         ~Confirmed(p), Confirmed(p)', payment'[p].order = o,
         \A q \in Payments \ {p} : payment'[q] = payment[q],
         passes' = [passes EXCEPT ![o] = 1]
  PROVE  Clearing!Next
<1>1. \A q \in Orders : passes[q] \in {0, 1}
  <2>1. \A q \in Orders : passes[q] \in Nat
    BY DEF SettlementInv, TypeOK
  <2>2. \A q \in Orders : passes[q] <= 1
    BY DEF SettlementInv, PassIsPaidFor
  <2> QED BY <2>1, <2>2
<1>2. Settles' = [Settles EXCEPT ![p] = o]
  BY DEF Settles, Confirmed
<1>3. Settles[p] = None
  BY DEF Settles
<1>4. CASE passes[o] = 0
  <2>1. o \notin Cleared /\ Cleared' = Cleared \union {o}
    BY <1>1, <1>4 DEF Cleared, SettlementInv, TypeOK
  <2>2. Clearing!Clear(p, o)
    BY <1>2, <1>3, <2>1 DEF Clearing!Clear, Cleared, Settles
  <2> QED BY <2>2 DEF Clearing!Next
<1>5. CASE passes[o] = 1
  <2>1. o \in Cleared /\ Cleared' = Cleared
    BY <1>1, <1>5 DEF Cleared, SettlementInv, TypeOK
  <2>2. Clearing!EnterLate(p, o)
    BY <1>2, <1>3, <2>1 DEF Clearing!EnterLate, Cleared, Settles
  <2> QED BY <2>2 DEF Clearing!Next
<1> QED BY <1>1, <1>4, <1>5

LEMMA StepClearing ==
  SettlementInv /\ [Next]_vars => [Clearing!Next]_Clearing!vars
<1> SUFFICES ASSUME SettlementInv, [Next]_vars
             PROVE  Clearing!Next \/ UNCHANGED Clearing!vars
  OBVIOUS
<1>1. ASSUME NEW w \in Workers,
             \/ PlaceRead(w) \/ PlaceCommit(w) \/ StatusRead(w) \/ StatusCommit(w)
             \/ PayRead(w) \/ PayRefused(w) \/ HookFlag(w) \/ HookRefused(w)
             \/ Abort(w)
      PROVE  UNCHANGED Clearing!vars
  <2>1. UNCHANGED <<payment, passes>>
    BY <1>1 DEF PlaceRead, PlaceCommit, StatusRead, StatusCommit, PayRead,
       PayRefused, HookFlag, HookRefused, Abort, db
  <2> QED BY <2>1, QuietClearing DEF Confirmed
<1>2. ASSUME NEW w \in Workers, PayCommit(w) PROVE Clearing!Next
  <2>1. PICK o \in Orders, p \in Payments : o = task[w].order /\ p = task[w].pay
    BY <1>2 DEF PayCommit, SettlementInv, TypeOK
  <2>2. ~Confirmed(p)
    BY <1>2, <2>1 DEF PayCommit, SettlementInv, TaskOwnsPayment, Confirmed
  <2>3. /\ Confirmed(p)' /\ payment'[p].order = o
        /\ passes' = [passes EXCEPT ![o] = 1]
    BY <1>2, <2>1 DEF PayCommit, PassInserts, Confirmed, SettlementInv, TypeOK
  <2>4. \A q \in Payments \ {p} : payment'[q] = payment[q]
    BY <1>2, <2>1 DEF PayCommit, SettlementInv, TypeOK
  <2> QED BY <2>2, <2>3, <2>4, ConfirmStep
<1>3. CASE Checkout
  <2>1. PICK p \in Payments :
          /\ ~Confirmed(p) /\ ~Confirmed(p)'
          /\ \A q \in Payments \ {p} : payment'[q] = payment[q]
    BY <1>3 DEF Checkout, SettlementInv, TypeOK, FreshPayment, Confirmed
  <2>2. \A q \in Payments : /\ Confirmed(q)' <=> Confirmed(q)
                            /\ Confirmed(q) => payment'[q].order = payment[q].order
    BY <2>1 DEF Confirmed
  <2>3. UNCHANGED passes
    BY <1>3 DEF Checkout
  <2> QED BY <2>2, <2>3, QuietClearing
<1>4. ASSUME NEW p \in Payments, Charge(p) \/ Redeliver(p) \/ Deliver(p)
      PROVE  UNCHANGED Clearing!vars
  <2>1. UNCHANGED <<payment, passes>>
    BY <1>4 DEF Charge, Redeliver, Deliver, HookSeen, HookRead, db
  <2> QED BY <2>1, QuietClearing DEF Confirmed
<1>5. ASSUME NEW w \in Workers, HookConfirm(w)
      PROVE  Clearing!Next \/ UNCHANGED Clearing!vars
  <2>1. PICK o \in Orders, p \in Payments : o = task[w].order /\ p = task[w].pay
    BY <1>5 DEF HookConfirm, SettlementInv, TypeOK
  <2>2. payment[p].order = o
    BY <1>5, <2>1 DEF HookConfirm, SettlementInv, TaskOwnsPayment
  <2>3. passes' = [passes EXCEPT ![o] = 1]
    BY <1>5, <2>1, HookConfirmPass
  <2>4. payment'[p] = [payment[p] EXCEPT !.status = "confirmed"]
        /\ \A q \in Payments \ {p} : payment'[q] = payment[q]
    BY <1>5, <2>1 DEF HookConfirm, SettlementInv, TypeOK
  <2>5. payment'[p].order = o /\ Confirmed(p)'
    <3>1. payment[p] \in PaymentRow
      BY DEF SettlementInv, TypeOK
    <3> QED BY <2>2, <2>4, <3>1 DEF Confirmed, PaymentRow
  <2>6. CASE Confirmed(p)
    <3>1. passes[o] = 1
      BY <2>2, <2>6 DEF SettlementInv, ConfirmedHasPass
    <3>2. UNCHANGED passes
      BY <2>3, <3>1 DEF SettlementInv, TypeOK
    <3>3. \A q \in Payments : /\ Confirmed(q)' <=> Confirmed(q)
                              /\ Confirmed(q) => payment'[q].order = payment[q].order
      BY <2>2, <2>4, <2>5, <2>6 DEF Confirmed
    <3> QED BY <3>2, <3>3, QuietClearing
  <2>7. CASE ~Confirmed(p)
    BY <2>3, <2>4, <2>5, <2>7, ConfirmStep
  <2> QED BY <2>6, <2>7
<1>6. CASE UNCHANGED vars
  <2>1. UNCHANGED <<payment, passes>>
    BY <1>6 DEF vars, db
  <2> QED BY <2>1, QuietClearing DEF Confirmed
<1> QED BY <1>1, <1>2, <1>3, <1>4, <1>5, <1>6 DEF Next, Commit

\* The handlers implement Clearance: whatever they interleave with, an order is
\* let out once, for good, in the step that confirms a payment of it, and every
\* later payment of it only joins the books.
THEOREM SettlementImplementsClearance == Spec => ImplementsClearance
<1>1. Spec => Clearing!Init /\ [][Clearing!Next]_Clearing!vars
  BY InitClearing, StepClearing, InvariantHolds, PTL DEF Spec
<1> QED BY <1>1 DEF ImplementsClearance, Clearing!Spec

-----------------------------------------------------------------------------
\* The money, on every order no two handlers have met on.

\* What changing the total of a bill does.
LEMMA WithTotalFields ==
  ASSUME NEW bill \in OrderRow, NEW total \in Nat
  PROVE  /\ WithTotal(bill, total).total = total
         /\ WithTotal(bill, total).charges = ChargesFor(total)
         /\ WithTotal(bill, total).status = bill.status
         /\ WithTotal(bill, total).session = bill.session
  BY DEF WithTotal, OrderRow

\* What the ORM writes of a row that is as it was read.
LEMMA WrittenFresh ==
  ASSUME NEW row \in OrderRow, NEW new \in OrderRow
  PROVE  Written(row, row, new) = new
<1>1. Written(row, row, new) = [status |-> new.status, session |-> new.session,
                                total |-> new.total, charges |-> new.charges]
  BY DEF Written, Dirty
<1> QED BY <1>1 DEF OrderRow

LEMMA SubtotalOfNone == Subtotal[{}] = 0
<1> DEFINE z == Subtotal[{}]
<1>1. z \in Nat
  BY SubtotalAssumption
<1>2. z = z + z
  <2>1. Subtotal[{} \union {}] = Subtotal[{}] + Subtotal[{}]
    BY SubtotalIsSum
  <2>2. {} \union {} = {}
    OBVIOUS
  <2> QED BY <2>1, <2>2
<1> HIDE DEF z
<1>3. z = 0
  BY <1>1, <1>2
<1> QED BY <1>3 DEF z

\* No line has been revived, and no order is there, before the first request.
LEMMA MoneyInit == Init => MoneyInv
<1> SUFFICES ASSUME Init PROVE MoneyInv
  OBVIOUS
<1>1. \A o \in Orders : ~Placed(o) /\ ~Settled(o) /\ order[o] = NoOrder
  BY DEF Init, Placed, Settled, NoOrder
<1>2. MoneyAddsUp
  BY <1>1 DEF MoneyAddsUp, PaidInFull, BillMatchesLines
<1>3. BlankRows /\ PassIsSettled /\ KnowsRows /\ RefusedWhenOvertaken
  BY <1>1 DEF Init, BlankRows, PassIsSettled, KnowsRows, Knows, NoItem, NoPayment, IdleTask,
              RefusedWhenOvertaken
<1> QED BY <1>2, <1>3, InitInv DEF MoneyInv

\* What no step ever does to the rows: an order or a line once there is there for
\* good, with its owner, and so is a payment with its amount; and only the
\* handler of worker w inserts an order or a line.
Lasting(w) ==
  /\ \A q \in Orders : Placed(q) => Placed(q)'
  /\ \A q \in Orders : Placed(q)' => Placed(q) \/ task[w].order = q
  /\ \A i \in Items : item[i].order # None => item'[i].order = item[i].order
  /\ \A i \in Items : item[i].order = None => item'[i].order = None \/ i \in task[w].items
  /\ \A p \in Payments : payment[p].status # "absent" =>
       /\ payment'[p].status # "absent"
       /\ payment'[p].order = payment[p].order
       /\ payment'[p].amount = payment[p].amount

\* The other workers still know what they knew.
LEMMA OthersKnow ==
  ASSUME TypeOK, KnowsRows, NEW w \in Workers, Lasting(w),
         \A u \in Workers \ {w} : task'[u] = task[u],
         \A u \in Workers \ {w} : task[u].op = "place" =>
           /\ \A i \in task'[w].items : i \notin task[u].items
           /\ ~Placed(task[u].order) => task'[w].order # task[u].order,
         NEW v \in Workers, v # w
  PROVE  Knows(v)'
<1>1. task'[v] = task[v] /\ Knows(v)
  BY DEF KnowsRows
<1>2. task[v].op # "idle" => task[v].order \in Orders
  BY DEF TypeOK
<1>3. ASSUME task[v].op = "place" PROVE PlaceKnows(v)'
  <2>1. /\ \A i \in task[v].items : /\ item[i].order = None
                                    /\ \A u \in Workers \ {v} : i \notin task[u].items
        /\ \/ /\ ~Placed(task[v].order)
              /\ \E s \in Sessions : task[v].bill = [NoOrder EXCEPT !.session = s]
              /\ \A u \in Workers \ {v} : task[u].order # task[v].order
           \/ Placed(task[v].order) /\ task[v].bill.status \in {"open", "partially_served"}
    BY <1>1, <1>3 DEF Knows, PlaceKnows
  <2>2. task[v].items \subseteq Items /\ task[v].order \in Orders
    <3>1. task[v] \in Task
      BY DEF TypeOK
    <3> QED BY <1>2, <1>3, <3>1 DEF Task
  <2>3. ASSUME NEW i \in task[v].items
        PROVE  item'[i].order = None /\ \A u \in Workers \ {v} : i \notin task'[u].items
    <3>1. item[i].order = None /\ i \notin task[w].items /\ i \in Items
      BY <2>1, <2>2, <2>3
    <3>2. item'[i].order = None
      BY <3>1 DEF Lasting
    <3>3. i \notin task'[w].items
      BY <1>3, <2>3
    <3> QED BY <1>1, <2>1, <2>3, <3>2, <3>3
  <2>4. CASE Placed(task[v].order)
    <3>1. Placed(task[v].order)'
      BY <1>1, <2>2, <2>4 DEF Lasting, Placed
    <3>2. task[v].bill.status \in {"open", "partially_served"}
      BY <2>1, <2>4
    <3> QED BY <1>1, <2>3, <3>1, <3>2 DEF PlaceKnows, Placed
  <2>5. CASE ~Placed(task[v].order)
    <3>1. task[w].order # task[v].order
      BY <2>1, <2>5
    <3>2. ~Placed(task[v].order)'
      BY <1>1, <2>2, <2>5, <3>1 DEF Lasting, Placed
    <3>3. \A u \in Workers \ {v} : task'[u].order # task[v].order
      BY <1>1, <1>3, <2>1, <2>5
    <3> QED BY <1>1, <2>1, <2>3, <2>5, <3>2, <3>3 DEF PlaceKnows, Placed, NoOrder
  <2> QED BY <2>4, <2>5
<1>4. ASSUME task[v].op = "status" PROVE StatusKnows(task[v])'
  BY <1>1, <1>2, <1>4 DEF Knows, StatusKnows, Lasting, Placed, TypeOK
<1>5. ASSUME task[v].op = "pay" PROVE PayKnows(task[v])'
  BY <1>1, <1>2, <1>5 DEF Knows, PayKnows, Lasting, Placed, GrandTotal
<1>6. ASSUME task[v].op = "hook" PROVE HookKnows(task[v])'
  <2>1. payment[task[v].pay].status # "absent" /\ task[v].pay \in Payments
    BY <1>6 DEF TypeOK
  <2> QED BY <1>1, <1>2, <1>6, <2>1 DEF Knows, HookKnows, Lasting, Placed
<1> QED BY <1>1, <1>3, <1>4, <1>5, <1>6
        DEF Knows, StatusKnows, PayKnows, HookKnows, Placed, GrandTotal

\* A handler that ends leaves the rest knowing what they knew.
LEMMA FinishKnows ==
  ASSUME MoneyInv, NEW w \in Workers, Lasting(w), Finish(w)
  PROVE  KnowsRows'
<1>1. TypeOK /\ KnowsRows
  BY DEF MoneyInv, SettlementInv
<1>2. /\ task'[w].op = "idle" /\ task'[w].items = {} /\ task'[w].order = None
      /\ \A u \in Workers \ {w} : task'[u] = task[u]
  BY <1>1 DEF Finish, TypeOK, IdleTask
<1>3. \A u \in Workers : task[u].op = "place" => task[u].order # None
  BY <1>1, IdsAssumption DEF TypeOK
<1>4. Knows(w)'
  BY <1>2 DEF Knows
<1>5. \A v \in Workers : v # w => Knows(v)'
  BY <1>1, <1>2, <1>3, OthersKnow
<1> QED BY <1>4, <1>5 DEF KnowsRows

\* A handler that begins, writing nothing, and knows what it read.
LEMMA BeginKnows ==
  ASSUME MoneyInv, NEW w \in Workers, NEW t, Begin(w, t),
         UNCHANGED <<order, item, payment>>, Knows(w)',
         \A u \in Workers \ {w} : task[u].op = "place" =>
           /\ \A i \in t.items : i \notin task[u].items
           /\ ~Placed(task[u].order) => t.order # task[u].order
  PROVE  KnowsRows'
<1>1. TypeOK /\ KnowsRows
  BY DEF MoneyInv, SettlementInv
<1>2. task'[w] = t /\ \A u \in Workers \ {w} : task'[u] = task[u]
  BY <1>1 DEF Begin, TypeOK
<1>3. Lasting(w)
  BY <1>1 DEF Lasting, Placed
<1>4. \A v \in Workers : v # w => Knows(v)'
  BY <1>1, <1>2, <1>3, OthersKnow
<1> QED BY <1>4 DEF KnowsRows

\* While the rows stay, so does what they say.
LEMMA SameRows ==
  ASSUME MoneyInv, UNCHANGED <<order, item, payment, passes, revived, revoided>>,
         overtaken \subseteq overtaken'
  PROVE  MoneyAddsUp' /\ BlankRows' /\ PassIsSettled'
<1>1. PaidInFull'
  BY DEF MoneyInv, MoneyAddsUp, PaidInFull, Settled, Confirmed, GrandTotal
<1>2. \A o \in Orders : Charged(o)' = Charged(o) /\ (Accounted(o)' => Accounted(o))
  BY DEF Charged, OnBill, Accounted
<1>3. BillMatchesLines'
  <2>1. ASSUME NEW o \in Orders, Placed(o)', Accounted(o)'
        PROVE  order'[o].total = Subtotal[Charged(o)'] /\ order'[o].charges = ChargesFor(order'[o].total)
    <3>1. order[o].total = Subtotal[Charged(o)] /\ order[o].charges = ChargesFor(order[o].total)
      BY <1>2, <2>1 DEF MoneyInv, MoneyAddsUp, BillMatchesLines, Placed
    <3>2. Subtotal[Charged(o)'] = Subtotal[Charged(o)]
      BY <1>2
    <3> QED BY <3>1, <3>2
  <2> QED BY <2>1 DEF BillMatchesLines, ChargesFor
<1>4. BlankRows'
  BY DEF MoneyInv, BlankRows, Placed, NoOrder
<1>5. PassIsSettled'
  BY DEF MoneyInv, PassIsSettled, Settled
<1> QED BY <1>1, <1>3, <1>4, <1>5 DEF MoneyAddsUp

\* Errors stay explained while payments and marks stay.
LEMMA StillExplained ==
  ASSUME MoneyInv, UNCHANGED refused, overtaken \subseteq overtaken', NEW w, Lasting(w)
  PROVE  RefusedWhenOvertaken'
  BY DEF MoneyInv, RefusedWhenOvertaken, Lasting, SettlementInv, TypeOK

\* What a handler writes that only ends.
LEMMA NothingWritten ==
  ASSUME MoneyInv, UNCHANGED <<order, item, payment>>, NEW w
  PROVE  Lasting(w)
  BY DEF MoneyInv, SettlementInv, TypeOK, Lasting, Placed

\* A handler that begins, and knows the rows.
LEMMA BeginMoney ==
  ASSUME MoneyInv, SettlementInv', NEW w \in Workers, NEW t, Begin(w, t),
         UNCHANGED <<order, item, payment, passes, refused, history>>, Knows(w)',
         \A u \in Workers \ {w} : task[u].op = "place" =>
           /\ \A i \in t.items : i \notin task[u].items
           /\ ~Placed(task[u].order) => t.order # task[u].order
  PROVE  MoneyInv'
<1>1. UNCHANGED <<overtaken, revived, revoided>>
  BY DEF history
<1>2. KnowsRows'
  BY BeginKnows
<1>3. MoneyAddsUp' /\ BlankRows' /\ PassIsSettled'
  BY <1>1, SameRows
<1>4. RefusedWhenOvertaken'
  BY <1>1, NothingWritten, StillExplained
<1> QED BY <1>2, <1>3, <1>4 DEF MoneyInv

\* A handler that ends without writing a row.
LEMMA EndMoney ==
  ASSUME MoneyInv, SettlementInv', NEW w \in Workers, Finish(w),
         UNCHANGED <<order, item, payment, passes, refused, history>>
  PROVE  MoneyInv'
<1>1. UNCHANGED <<overtaken, revived, revoided>>
  BY DEF history
<1>2. Lasting(w)
  BY NothingWritten
<1>3. KnowsRows'
  BY <1>2, FinishKnows
<1>4. MoneyAddsUp' /\ BlankRows' /\ PassIsSettled'
  BY <1>1, SameRows
<1>5. RefusedWhenOvertaken'
  BY <1>1, <1>2, StillExplained
<1> QED BY <1>3, <1>4, <1>5 DEF MoneyInv

LEMMA PlaceReadMoney ==
  ASSUME MoneyInv, SettlementInv', NEW w \in Workers, PlaceRead(w)
  PROVE  MoneyInv'
<1>1. PICK s \in Sessions, o \in Orders, S \in (SUBSET Items) \ {{}} :
        /\ \A i \in S : FreshItem(i)
        /\ JoinsOrder(s, o) \/ OpensOrder(s, o)
        /\ Begin(w, [IdleTask EXCEPT !.op = "place", !.order = o, !.items = S,
                                     !.bill = [order[o] EXCEPT !.session = s]])
  BY DEF PlaceRead
<1>2. PICK t :
        /\ t.op = "place" /\ t.order = o /\ t.items = S
        /\ t.bill = [order[o] EXCEPT !.session = s] /\ Begin(w, t)
  BY <1>1 DEF IdleTask
<1>3. UNCHANGED <<order, item, payment, passes, refused, history>>
  BY DEF PlaceRead, db, gateway
<1>4. TypeOK /\ task'[w] = t /\ \A v \in Workers \ {w} : task'[v] = task[v]
  BY <1>2 DEF MoneyInv, SettlementInv, TypeOK, Begin
<1>5. \A i \in S : item[i].order = None /\ \A v \in Workers : i \notin task[v].items
  BY <1>1 DEF FreshItem
<1>6. \/ Placed(o) /\ order[o].status \in {"open", "partially_served"}
      \/ /\ ~Placed(o) /\ order[o] = NoOrder
         /\ \A v \in Workers : task[v].order # o
  BY <1>1 DEF JoinsOrder, OpensOrder, FreshOrder, Receives, Placed, MoneyInv, BlankRows
<1>7. order[o] \in OrderRow
  BY <1>4 DEF TypeOK
<1>8. PlaceKnows(w)'
  <2>1. \A i \in S : item'[i].order = None /\ \A v \in Workers \ {w} : i \notin task'[v].items
    BY <1>3, <1>4, <1>5
  <2>2. CASE Placed(o) /\ order[o].status \in {"open", "partially_served"}
    <3>1. t.bill.status = order[o].status
      BY <1>2, <1>7 DEF OrderRow
    <3> QED BY <1>2, <1>3, <1>4, <2>1, <2>2, <3>1 DEF PlaceKnows, Placed
  <2>3. CASE /\ ~Placed(o) /\ order[o] = NoOrder
             /\ \A v \in Workers : task[v].order # o
    BY <1>2, <1>3, <1>4, <2>1, <2>3 DEF PlaceKnows, Placed, NoOrder
  <2> QED BY <1>6, <2>2, <2>3
<1>9. Knows(w)'
  BY <1>2, <1>4, <1>8 DEF Knows
<1>10. \A u \in Workers \ {w} : task[u].op = "place" =>
         /\ \A i \in t.items : i \notin task[u].items
         /\ ~Placed(task[u].order) => t.order # task[u].order
  BY <1>2, <1>5, <1>6
<1> QED BY <1>2, <1>3, <1>9, <1>10, BeginMoney

\* A handler of an order that is there disturbs no round that opens one.
LEMMA ApartFromRounds ==
  ASSUME MoneyInv, NEW w \in Workers, NEW t, Placed(t.order),
         \A i \in t.items : item[i].order # None
  PROVE  \A u \in Workers \ {w} : task[u].op = "place" =>
           /\ \A i \in t.items : i \notin task[u].items
           /\ ~Placed(task[u].order) => t.order # task[u].order
  BY DEF MoneyInv, KnowsRows, Knows, PlaceKnows

LEMMA StatusReadMoney ==
  ASSUME MoneyInv, SettlementInv', NEW w \in Workers, StatusRead(w)
  PROVE  MoneyInv'
<1>1. PICK i \in Items, target \in ItemStatus :
          /\ item[i].order # None
          /\ ~VoidRefused(item[i].order, target)
          /\ Begin(w, [IdleTask EXCEPT !.op = "status", !.order = item[i].order,
                         !.items = {i}, !.target = target,
                         !.bill = order[item[i].order],
                         !.lines = LinesOf(item[i].order)])
  BY DEF StatusRead
<1>2. PICK t :
        /\ t.op = "status" /\ t.order = item[i].order /\ t.items = {i} /\ t.target = target
        /\ t.bill = order[item[i].order] /\ Begin(w, t)
  BY <1>1 DEF IdleTask
<1>3. UNCHANGED <<order, item, payment, passes, refused, history>>
  BY DEF StatusRead, db, gateway
<1>4. task'[w] = t
  BY <1>2 DEF MoneyInv, SettlementInv, TypeOK, Begin
<1>5. Placed(t.order)
  BY <1>1, <1>2 DEF MoneyInv, BlankRows
<1>6. StatusKnows(t)
  BY <1>1, <1>2, <1>5 DEF StatusKnows, VoidRefused, Placed
<1>7. Knows(w)'
  BY <1>2, <1>3, <1>4, <1>6 DEF Knows, StatusKnows, Placed
<1>8. \A j \in t.items : item[j].order # None
  BY <1>1, <1>2
<1> QED BY <1>2, <1>3, <1>5, <1>7, <1>8, ApartFromRounds, BeginMoney

LEMMA PayReadMoney ==
  ASSUME MoneyInv, SettlementInv', NEW w \in Workers, PayRead(w)
  PROVE  MoneyInv'
<1>1. PICK o \in Orders, p \in Payments, amount \in Tendered, split \in BOOLEAN :
        /\ Placed(o) /\ order[o].status # "paid"
        /\ split \/ amount >= GrandTotal(order[o])
        /\ Begin(w, [IdleTask EXCEPT !.op = "pay", !.order = o, !.pay = p,
                      !.amount = amount, !.split = split, !.bill = order[o]])
  BY DEF PayRead
<1>2. PICK t : /\ t.op = "pay" /\ t.order = o /\ t.amount = amount /\ t.items = {}
               /\ t.split = split /\ t.bill = order[o] /\ Begin(w, t)
  BY <1>1 DEF IdleTask
<1>3. UNCHANGED <<order, item, payment, passes, refused, history>>
  BY DEF PayRead, db, gateway
<1>4. task'[w] = t
  BY <1>2 DEF MoneyInv, SettlementInv, TypeOK, Begin
<1>5. PayKnows(t) /\ Placed(t.order)
  BY <1>1, <1>2 DEF PayKnows
<1>6. Knows(w)'
  BY <1>2, <1>3, <1>4, <1>5 DEF Knows, PayKnows, Placed, GrandTotal
<1>7. \A j \in t.items : item[j].order # None
  BY <1>2
<1> QED BY <1>2, <1>3, <1>5, <1>6, <1>7, ApartFromRounds, BeginMoney

LEMMA HookReadMoney ==
  ASSUME MoneyInv, SettlementInv', NEW w \in Workers, NEW p \in Payments, HookRead(w, p)
  PROVE  MoneyInv'
<1>1. payment[p].status = "pending"
  BY DEF HookRead
<1>2. PICK t : /\ t.op = "hook" /\ t.order = payment[p].order /\ t.pay = p /\ t.items = {}
               /\ t.amount = payment[p].amount /\ Begin(w, t)
  BY DEF HookRead, IdleTask
<1>3. UNCHANGED <<order, item, payment, passes, refused, history>>
  BY DEF HookRead, db, gateway
<1>4. task'[w] = t
  BY <1>2 DEF MoneyInv, SettlementInv, TypeOK, Begin
<1>5. HookKnows(t) /\ Placed(t.order)
  BY <1>1, <1>2 DEF HookKnows, MoneyInv, BlankRows
<1>6. Knows(w)'
  BY <1>2, <1>3, <1>4, <1>5 DEF Knows, HookKnows, Placed
<1>7. \A j \in t.items : item[j].order # None
  BY <1>2
<1> QED BY <1>2, <1>3, <1>5, <1>6, <1>7, ApartFromRounds, BeginMoney

\* A handler that writes one order leaves the money of the others alone, and what
\* it writes of its own order counts only if no other handler came between.
LEMMA OrderCommit ==
  ASSUME MoneyInv, NEW w \in Workers, Lasting(w), NEW o \in Orders,
         \A q \in Orders \ {o} : /\ order'[q] = order[q] /\ Charged(q)' = Charged(q)
                                 /\ passes'[q] = passes[q],
         overtaken \subseteq overtaken', revoided \subseteq revoided',
         \A p \in Payments : Confirmed(p) => payment'[p] = payment[p],
         Placed(o)' /\ Accounted(o)' =>
           order'[o].total = Subtotal[Charged(o)'] /\ order'[o].charges = ChargesFor(order'[o].total),
         o \notin overtaken' /\ Settled(o)' =>
           \E p \in Payments :
             /\ payment'[p].status = "confirmed" /\ payment'[p].order = o
             /\ payment'[p].split \/ payment'[p].amount >= GrandTotal(order'[o]),
         o \notin overtaken' /\ passes'[o] # 0 => Settled(o)'
  PROVE  MoneyAddsUp' /\ PassIsSettled'
<1>1. \A q \in Orders : Accounted(q)' => Accounted(q)
  <2>1. \A i \in revoided : i \in Items /\ item[i].order # None
    BY DEF MoneyInv, SettlementInv, TypeOK, BlankRows
  <2> QED BY <2>1 DEF Accounted, Lasting
<1>2. BillMatchesLines'
  <2>1. ASSUME NEW q \in Orders, Placed(q)', Accounted(q)'
        PROVE  order'[q].total = Subtotal[Charged(q)'] /\ order'[q].charges = ChargesFor(order'[q].total)
    <3>1. CASE q = o
      BY <2>1, <3>1
    <3>2. CASE q # o
      <4>1. order'[q] = order[q] /\ Charged(q)' = Charged(q) /\ Accounted(q) /\ Placed(q)
        BY <1>1, <2>1, <3>2 DEF Placed
      <4>2. order[q].total = Subtotal[Charged(q)] /\ order[q].charges = ChargesFor(order[q].total)
        BY <4>1 DEF MoneyInv, MoneyAddsUp, BillMatchesLines
      <4>3. Subtotal[Charged(q)'] = Subtotal[Charged(q)]
        BY <4>1
      <4> QED BY <4>1, <4>2, <4>3
    <3> QED BY <3>1, <3>2
  <2> QED BY <2>1 DEF BillMatchesLines, ChargesFor
<1>3. PaidInFull'
  <2>1. ASSUME NEW q \in Orders \ overtaken', Settled(q)'
        PROVE  \E r \in Payments :
                 /\ payment'[r].status = "confirmed" /\ payment'[r].order = q
                 /\ payment'[r].split \/ payment'[r].amount >= GrandTotal(order'[q])
    <3>1. CASE q = o
      BY <2>1, <3>1
    <3>2. CASE q # o
      <4>1. order'[q] = order[q] /\ Settled(q) /\ q \in Orders \ overtaken
        BY <2>1, <3>2 DEF Settled
      <4>2. PICK r \in Payments :
              /\ Confirmed(r) /\ payment[r].order = q
              /\ payment[r].split \/ payment[r].amount >= GrandTotal(order[q])
        BY <4>1 DEF MoneyInv, MoneyAddsUp, PaidInFull
      <4>3. payment'[r] = payment[r]
        BY <4>2
      <4> QED BY <4>1, <4>2, <4>3 DEF Confirmed
    <3> QED BY <3>1, <3>2
  <2> QED BY <2>1 DEF PaidInFull, Settled, Confirmed, GrandTotal
<1>4. PassIsSettled'
  <2>1. ASSUME NEW q \in Orders \ overtaken', passes'[q] # 0 PROVE order'[q].status = "paid"
    BY <2>1 DEF MoneyInv, PassIsSettled, Settled
  <2> QED BY <2>1 DEF PassIsSettled, Settled
<1> QED BY <1>2, <1>3, <1>4 DEF MoneyAddsUp

\* The rows a handler has not inserted stay blank.
LEMMA StillBlank ==
  ASSUME MoneyInv, NEW w \in Workers, Lasting(w), NEW o \in Orders, Placed(o)',
         \A q \in Orders \ {o} : order'[q] = order[q],
         \A i \in Items : item'[i].order # None => item[i].order # None \/ item'[i].order = o,
         \A p \in Payments : payment'[p].status # "absent" =>
           payment[p].status # "absent" \/ payment'[p].order = o,
         \A i \in revived' \union revoided' : i \in Items /\ item'[i].order # None
  PROVE  BlankRows'
<1>1. \A q \in Orders : order'[q].status = "absent" => order'[q] = NoOrder
  BY DEF MoneyInv, BlankRows, Placed
<1>2. ASSUME NEW i \in Items, item'[i].order # None
      PROVE  order'[item'[i].order].status # "absent"
  <2>1. CASE item[i].order # None
    <3>1. item'[i].order = item[i].order /\ item[i].order \in Orders /\ Placed(item[i].order)
      BY <2>1 DEF Lasting, MoneyInv, BlankRows, SettlementInv, TypeOK
    <3> QED BY <3>1 DEF Lasting, Placed
  <2>2. CASE item'[i].order = o
    BY <2>2 DEF Placed
  <2> QED BY <1>2, <2>1, <2>2
<1>3. ASSUME NEW p \in Payments, payment'[p].status # "absent"
      PROVE  order'[payment'[p].order].status # "absent"
  <2>1. CASE payment[p].status # "absent"
    <3>1. /\ payment'[p].order = payment[p].order /\ payment[p].order \in Orders
          /\ Placed(payment[p].order)
      BY <2>1 DEF Lasting, MoneyInv, BlankRows, SettlementInv, TypeOK
    <3> QED BY <3>1 DEF Lasting, Placed
  <2>2. CASE payment'[p].order = o
    BY <2>2 DEF Placed
  <2> QED BY <1>3, <2>1, <2>2
<1> QED BY <1>1, <1>2, <1>3 DEF BlankRows, Placed, NoOrder

\* A handler that read what is still there.
LEMMA ReadInTime ==
  ASSUME NEW t, ~Stale(t), Placed(t.order)
  PROVE  t.bill = order[t.order] /\ (t.op = "status" => t.lines = LinesOf(t.order))
  BY DEF Stale

\* The lines of a new round join the charged lines of its order and no other's.
LEMMA RoundOnBill ==
  ASSUME MoneyInv, NEW o \in Orders, NEW S \in SUBSET Items, \A i \in S : item[i].order = None,
         \A i \in Items : item'[i] = IF i \in S THEN [order |-> o, status |-> "pending"]
                                               ELSE item[i],
         UNCHANGED revived
  PROVE  /\ Charged(o) \intersect S = {} /\ Charged(o) \subseteq Items
         /\ Charged(o)' = Charged(o) \union S
         /\ \A q \in Orders \ {o} : Charged(q)' = Charged(q)
<1>1. \A q \in Orders : q # None
  BY IdsAssumption
<1>2. \A i \in S : i \notin revived
  BY DEF MoneyInv, BlankRows
<1>3. ASSUME NEW q \in Orders
      PROVE  /\ Charged(q) = {i \in Items : item[i].order = q /\ item[i].status # "cancelled"
                                             /\ i \notin revived}
             /\ Charged(q)' = {i \in Items : item'[i].order = q /\ item'[i].status # "cancelled"
                                             /\ i \notin revived}
  BY DEF Charged, OnBill
<1>4. ASSUME NEW q \in Orders, NEW i \in Items
      PROVE  i \in Charged(q)' <=> i \in Charged(q) \/ (q = o /\ i \in S)
  <2>1. CASE i \in S
    <3>1. item'[i].order = o /\ item'[i].status = "pending" /\ item[i].order # q
      BY <1>1, <2>1
    <3> QED BY <1>2, <1>3, <2>1, <3>1
  <2>2. CASE i \notin S
    <3>1. item'[i] = item[i]
      BY <2>2
    <3> QED BY <1>3, <2>2, <3>1
  <2> QED BY <2>1, <2>2
<1>5. \A q \in Orders : Charged(q) \subseteq Items /\ Charged(q)' \subseteq Items
  BY <1>3
<1>6. \A i \in S : i \notin Charged(o)
  BY <1>1, <1>3
<1> HIDE DEF Charged
<1> QED BY <1>4, <1>5, <1>6

\* A round puts its lines and their price on the bill.
LEMMA PlaceCommitMoney ==
  ASSUME MoneyInv, SettlementInv', NEW w \in Workers, PlaceCommit(w)
  PROVE  MoneyInv'
<1>0. PICK t \in Task : t = task[w]
  BY DEF MoneyInv, SettlementInv, TypeOK
<1> DEFINE o   == t.order
           sum == t.bill.total + Subtotal[t.items]
           new == WithTotal(t.bill, sum)
<1>1. t.op = "place" /\ PlaceKnows(w) /\ o \in Orders
  BY <1>0 DEF PlaceCommit, MoneyInv, KnowsRows, Knows, SettlementInv, TypeOK
<1>2. t.bill \in OrderRow /\ t.items \subseteq Items /\ order[o] \in OrderRow
  BY <1>1 DEF Task, MoneyInv, SettlementInv, TypeOK
<1>3. sum \in Nat /\ Subtotal[t.items] \in Nat
  BY <1>2, SubtotalAssumption DEF OrderRow
<1>4. /\ new \in OrderRow /\ new.total = sum /\ new.charges = ChargesFor(sum)
      /\ new.status = t.bill.status
  BY <1>2, <1>3, WithTotalType, WithTotalFields
<1>5. /\ order' = [order EXCEPT ![o] = IF t.bill.status = "absent"
                                       THEN [new EXCEPT !.status = "open"]
                                       ELSE Written(order[o], t.bill, new)]
      /\ item' = [i \in Items |-> IF i \in t.items
                                  THEN [order |-> o, status |-> "pending"] ELSE item[i]]
      /\ Finish(w) /\ Overtakes(t) /\ UNCHANGED <<payment, passes, refused, revived, revoided>>
  BY <1>0 DEF PlaceCommit, gateway
<1>6. /\ \A i \in t.items : item[i].order = None
      /\ \/ ~Placed(o) /\ t.bill.status = "absent" /\ t.bill.total = 0
         \/ Placed(o) /\ t.bill.status \in {"open", "partially_served"}
  BY <1>0, <1>1 DEF PlaceKnows, NoOrder
<1> HIDE DEF new, sum, o
<1>7. /\ \A q \in Orders \ {o} : order'[q] = order[q]
      /\ \A i \in Items : item'[i] = IF i \in t.items THEN [order |-> o, status |-> "pending"]
                                                      ELSE item[i]
  BY <1>5 DEF MoneyInv, SettlementInv, TypeOK
<1>8. /\ order'[o].status \notin {"absent"}
      /\ ~Placed(o) => order'[o].total = sum /\ order'[o].charges = ChargesFor(sum)
                       /\ order'[o].status = "open"
      /\ Placed(o) => order'[o].status = order[o].status
  <2>1. CASE ~Placed(o)
    <3>1. order'[o] = [new EXCEPT !.status = "open"]
      BY <1>1, <1>5, <1>6, <2>1 DEF MoneyInv, SettlementInv, TypeOK
    <3> QED BY <1>4, <2>1, <3>1 DEF OrderRow
  <2>2. CASE Placed(o)
    <3>1. order'[o] = Written(order[o], t.bill, new)
      BY <1>1, <1>5, <1>6, <2>2 DEF MoneyInv, SettlementInv, TypeOK
    <3>2. Written(order[o], t.bill, new).status = order[o].status
      BY <1>4 DEF Written, Dirty
    <3> QED BY <2>2, <3>1, <3>2 DEF Placed
  <2> QED BY <2>1, <2>2
<1>9. overtaken \subseteq overtaken' /\ (o \notin overtaken' => ~Stale(t))
  BY <1>5, OvertakesType DEF o
<1>10. ASSUME ~Stale(t), Placed(o)
       PROVE  order'[o] = new /\ t.bill = order[o]
  <2>1. t.bill = order[o]
    BY <1>10, ReadInTime DEF o
  <2>2. order'[o] = Written(order[o], t.bill, new)
    BY <1>1, <1>5, <1>6, <1>10 DEF MoneyInv, SettlementInv, TypeOK
  <2> QED BY <1>2, <1>4, <2>1, <2>2, WrittenFresh
<1>11. /\ Charged(o) \intersect t.items = {} /\ Charged(o) \subseteq Items
       /\ Charged(o)' = Charged(o) \union t.items
       /\ \A q \in Orders \ {o} : Charged(q)' = Charged(q)
  BY <1>1, <1>2, <1>5, <1>6, <1>7, RoundOnBill
<1>12. Lasting(w)
  <2>1. \A q \in Orders : Placed(q) => Placed(q)'
    BY <1>7, <1>8 DEF Placed
  <2>2. \A q \in Orders : Placed(q)' => Placed(q) \/ task[w].order = q
    BY <1>0, <1>7 DEF Placed, o
  <2>3. \A i \in Items : item[i].order # None => item'[i].order = item[i].order
    BY <1>6, <1>7
  <2>4. \A i \in Items : item[i].order = None => item'[i].order = None \/ i \in task[w].items
    BY <1>0, <1>7
  <2> QED BY <1>5, <2>1, <2>2, <2>3, <2>4 DEF Lasting
<1>13. ASSUME Placed(o)', Accounted(o)'
       PROVE  order'[o].total = Subtotal[Charged(o)'] /\ order'[o].charges = ChargesFor(order'[o].total)
  <2>1. Accounted(o) /\ ~Stale(t)
    <3>1. \A i \in revoided : i \in Items /\ item[i].order # None
      BY DEF MoneyInv, SettlementInv, TypeOK, BlankRows
    <3> QED BY <1>5, <1>9, <1>12, <1>13, <3>1 DEF Accounted, Lasting
  <2>2. Subtotal[Charged(o)'] = Subtotal[Charged(o)] + Subtotal[t.items]
    BY <1>2, <1>11, SubtotalIsSum
  <2>3. CASE Placed(o)
    <3>1. order[o].total = Subtotal[Charged(o)]
      BY <1>1, <2>1, <2>3 DEF MoneyInv, MoneyAddsUp, BillMatchesLines
    <3> QED BY <1>4, <1>10, <2>1, <2>2, <2>3, <3>1 DEF sum
  <2>4. CASE ~Placed(o)
    <3>1. Charged(o) = {}
      <4>1. \A i \in Items : item[i].order # o
        BY <1>1, <2>4, IdsAssumption DEF MoneyInv, BlankRows
      <4> QED BY <4>1 DEF Charged, OnBill
    <3>2. Subtotal[Charged(o)'] = Subtotal[t.items]
      BY <1>11, <3>1
    <3>3. sum = Subtotal[t.items]
      BY <1>3, <1>6, <2>4 DEF sum
    <3> QED BY <1>8, <2>4, <3>2, <3>3
  <2> QED BY <2>3, <2>4
<1>14. ASSUME o \notin overtaken' PROVE ~Settled(o)' /\ passes[o] = 0
  <2>1. ~Stale(t) /\ o \notin overtaken
    BY <1>9, <1>14
  <2>2. ~Settled(o)' /\ ~Settled(o)
    BY <1>6, <1>8, <1>10, <2>1 DEF Settled, Placed
  <2> QED BY <1>1, <2>1, <2>2 DEF MoneyInv, PassIsSettled
<1>15. MoneyAddsUp' /\ PassIsSettled'
  <2>1. \A p \in Payments : Confirmed(p) => payment'[p] = payment[p]
    BY <1>5
  <2>2. \A q \in Orders \ {o} : /\ order'[q] = order[q] /\ Charged(q)' = Charged(q)
                                /\ passes'[q] = passes[q]
    BY <1>5, <1>7, <1>11
  <2>3. o \notin overtaken' /\ passes'[o] # 0 => Settled(o)'
    BY <1>5, <1>14
  <2>4. o \notin overtaken' /\ Settled(o)' =>
           \E p \in Payments :
             /\ payment'[p].status = "confirmed" /\ payment'[p].order = o
             /\ payment'[p].split \/ payment'[p].amount >= GrandTotal(order'[o])
    BY <1>14
  <2>5. revoided \subseteq revoided'
    BY <1>5
  <2> QED BY <1>1, <1>9, <1>12, <1>13, <2>1, <2>2, <2>3, <2>4, <2>5, OrderCommit
<1>16. BlankRows'
  <2>1. \A i \in Items : item'[i].order # None => item[i].order # None \/ item'[i].order = o
    BY <1>7
  <2>2. \A p \in Payments : payment'[p].status # "absent" =>
          payment[p].status # "absent" \/ payment'[p].order = o
    BY <1>5
  <2>3. \A i \in revived' \union revoided' : i \in Items /\ item'[i].order # None
    BY <1>5, <1>12 DEF Lasting, MoneyInv, SettlementInv, TypeOK, BlankRows
  <2>4. Placed(o)'
    BY <1>8 DEF Placed
  <2> QED BY <1>1, <1>7, <1>12, <2>1, <2>2, <2>3, <2>4, StillBlank
<1>17. KnowsRows' /\ RefusedWhenOvertaken'
  BY <1>5, <1>9, <1>12, FinishKnows, StillExplained
<1> QED BY <1>15, <1>16, <1>17 DEF MoneyInv

\* Voiding a line that is on the bill takes its price off, and never more than
\* the bill holds.
LEMMA VoidTakesPrice ==
  ASSUME NEW S \in SUBSET Items, NEW i \in S
  PROVE  /\ Subtotal[S] \in Nat /\ Subtotal[{i}] \in Nat /\ Subtotal[S \ {i}] \in Nat
         /\ Subtotal[S] = Subtotal[S \ {i}] + Subtotal[{i}]
<1>1. Subtotal[S] \in Nat /\ Subtotal[{i}] \in Nat /\ Subtotal[S \ {i}] \in Nat
  BY SubtotalAssumption
<1>2. (S \ {i}) \union {i} = S /\ (S \ {i}) \intersect {i} = {}
  OBVIOUS
<1>3. S \ {i} \in SUBSET Items /\ {i} \in SUBSET Items
  OBVIOUS
<1>4. Subtotal[(S \ {i}) \union {i}] = Subtotal[S \ {i}] + Subtotal[{i}]
  BY <1>2, <1>3, SubtotalIsSum
<1> QED BY <1>1, <1>2, <1>4

\* What a tap on line i of order o does to the charged lines: a void takes the line
\* off, unless it had been brought back; bringing it back does not put it on again.
LEMMA LineCharged ==
  ASSUME MoneyInv, NEW o \in Orders, NEW i \in Items, item[i].order = o, item'[i].order = o,
         \A j \in Items \ {i} : item'[j] = item[j],
         revived \subseteq revived', revived' \subseteq revived \union {i}
  PROVE  /\ \A q \in Orders \ {o} : Charged(q)' = Charged(q)
         /\ Charged(o) \subseteq Items /\ Charged(o) \ {i} = Charged(o)' \ {i}
         /\ i \in Charged(o) <=> item[i].status # "cancelled" /\ i \notin revived
         /\ i \in Charged(o)' <=> item'[i].status # "cancelled" /\ i \notin revived'
<1>1. ASSUME NEW q \in Orders
      PROVE  /\ Charged(q) = {j \in Items : item[j].order = q /\ item[j].status # "cancelled"
                                             /\ j \notin revived}
             /\ Charged(q)' = {j \in Items : item'[j].order = q /\ item'[j].status # "cancelled"
                                             /\ j \notin revived'}
  BY DEF Charged, OnBill
<1>2. ASSUME NEW q \in Orders, NEW j \in Items, j # i
      PROVE  j \in Charged(q)' <=> j \in Charged(q)
  <2>1. item'[j] = item[j] /\ (j \in revived' <=> j \in revived)
    BY <1>2
  <2> QED BY <1>1, <2>1
<1>3. \A q \in Orders \ {o} : i \notin Charged(q) /\ i \notin Charged(q)'
  BY <1>1
<1>4. \A q \in Orders : Charged(q) \subseteq Items /\ Charged(q)' \subseteq Items
  BY <1>1
<1>5. /\ i \in Charged(o) <=> item[i].status # "cancelled" /\ i \notin revived
      /\ i \in Charged(o)' <=> item'[i].status # "cancelled" /\ i \notin revived'
  BY <1>1
<1> HIDE DEF Charged
<1>6. \A q \in Orders \ {o} : Charged(q)' = Charged(q)
  BY <1>2, <1>3, <1>4
<1>7. Charged(o) \ {i} = Charged(o)' \ {i}
  BY <1>2, <1>4
<1> QED BY <1>4, <1>5, <1>6, <1>7

\* What is settled stays settled across a step, and its lines unvoided, unless a tap
\* ends that read its order before.
SettledKept ==
  \A o \in Orders : Settled(o) /\ ~LateTap(o) =>
    /\ Settled(o)'
    /\ \A i \in Items : item[i].order = o /\ item'[i].status = "cancelled"
                          => item[i].status = "cancelled"

\* A station's tap takes a line it voids off the bill, and leaves an order be that
\* it saw paid.
LEMMA StatusCommitMoney ==
  ASSUME MoneyInv, SettlementInv', NEW w \in Workers, StatusCommit(w)
  PROVE  MoneyInv' /\ SettledKept
<1>0. PICK t \in Task : t = task[w]
  BY DEF MoneyInv, SettlementInv, TypeOK
<1> DEFINE o     == t.order
           lines == [j \in Items |-> IF j \in t.items THEN t.target ELSE t.lines[j]]
           bill  == Voided(t)
           new   == [bill EXCEPT !.status = Advanced(@, lines)]
<1>1. /\ StatusKnows(t) /\ t.op = "status" /\ o \in Orders /\ t.target \in ItemStatus
      /\ Finish(w) /\ Overtakes(t) /\ UNCHANGED <<payment, passes, refused>>
      /\ order' = [order EXCEPT ![o] = Written(@, t.bill, new)]
      /\ item' = [j \in Items |-> IF j \in t.items
                    THEN [item[j] EXCEPT !.status = Dirty(@, t.lines[j], t.target)]
                    ELSE item[j]]
      /\ revived' = revived \union Revives(t)
      /\ revoided' = revoided \union (Voids(t) \intersect revived)
  BY <1>0 DEF StatusCommit, MoneyInv, KnowsRows, Knows, SettlementInv, TypeOK, Task, gateway
<1>2. PICK i \in Items : t.items = {i} /\ item[i].order = o
  BY <1>1 DEF StatusKnows
<1>3. /\ t.bill \in OrderRow /\ t.bill.status # "absent" /\ order[o] \in OrderRow
      /\ item[i] \in [order : Orders \union {None}, status : LineStatus]
      /\ Placed(o) /\ (t.bill.status = "paid" => t.target # "cancelled")
  BY <1>1 DEF StatusKnows, MoneyInv, SettlementInv, TypeOK, Task
<1>4. bill \in OrderRow /\ bill.status = t.bill.status
  BY VoidedType
<1>5. /\ new \in OrderRow /\ new.status # "absent"
      /\ (new.status = "paid" <=> t.bill.status = "paid")
      /\ new.total = bill.total /\ new.charges = bill.charges
  <2>1. /\ Advanced(bill.status, lines) \in OrderStatus
        /\ (Advanced(bill.status, lines) = "paid" <=> t.bill.status = "paid")
    BY <1>3, <1>4 DEF Advanced, OrderStatus, OrderRow
  <2> HIDE DEF bill, lines
  <2> QED BY <1>4, <2>1 DEF OrderRow, OrderStatus
<1>6. order'[o] = Written(order[o], t.bill, new) /\ \A q \in Orders \ {o} : order'[q] = order[q]
  BY <1>1 DEF MoneyInv, SettlementInv, TypeOK
<1> HIDE DEF new, bill
<1>7. /\ order'[o].status # "absent"
      /\ order'[o].status = "paid" => order[o].status = "paid"
      /\ order[o].status = "paid" /\ t.bill.status = "paid" => order'[o].status = "paid"
  BY <1>3, <1>5, <1>6 DEF Written, Dirty, Placed
<1>8. /\ item'[i].order = o /\ item'[i].status = Dirty(item[i].status, t.lines[i], t.target)
      /\ \A j \in Items \ {i} : item'[j] = item[j]
  BY <1>1, <1>2, <1>3
<1>9. /\ revived \subseteq revived' /\ revived' \subseteq revived \union {i}
      /\ revoided \subseteq revoided' /\ revoided' \subseteq revoided \union {i}
  BY <1>1, <1>2 DEF Voids, Revives
<1>10. /\ \A q \in Orders \ {o} : Charged(q)' = Charged(q)
       /\ Charged(o) \in SUBSET Items /\ Charged(o) \ {i} = Charged(o)' \ {i}
       /\ i \in Charged(o) <=> item[i].status # "cancelled" /\ i \notin revived
       /\ i \in Charged(o)' <=> item'[i].status # "cancelled" /\ i \notin revived'
  BY <1>1, <1>2, <1>8, <1>9, LineCharged
<1>11. /\ overtaken \subseteq overtaken'
       /\ o \notin overtaken' => t.bill = order[o] /\ t.lines[i] = item[i].status
  <2>1. overtaken \subseteq overtaken' /\ (o \notin overtaken' => ~Stale(t))
    BY <1>1, OvertakesType
  <2>2. ~Stale(t) => t.bill = order[o] /\ t.lines = LinesOf(o)
    BY <1>1, <1>3, ReadInTime
  <2>3. LinesOf(o)[i] = item[i].status
    BY <1>2 DEF LinesOf
  <2> QED BY <2>1, <2>2, <2>3
<1>12. Lasting(w)
  <2>1. \A q \in Orders : (Placed(q) <=> Placed(q)')
    BY <1>3, <1>6, <1>7 DEF Placed
  <2>2. \A j \in Items : item'[j].order = item[j].order
    BY <1>2, <1>8
  <2> QED BY <1>1, <2>1, <2>2 DEF Lasting
<1>13. ASSUME o \notin overtaken'
       PROVE  order'[o] = new /\ t.bill = order[o] /\ item'[i].status = t.target
              /\ t.lines[i] = item[i].status
  <2>1. t.bill = order[o] /\ t.lines[i] = item[i].status
    BY <1>11, <1>13
  <2>2. Written(order[o], t.bill, new) = new
    BY <1>3, <1>5, <2>1, WrittenFresh
  <2> QED BY <1>6, <1>8, <2>1, <2>2 DEF Dirty
<1>14. ASSUME Accounted(o)'
       PROVE  order'[o].total = Subtotal[Charged(o)'] /\ order'[o].charges = ChargesFor(order'[o].total)
  <2>1. o \notin overtaken' /\ i \notin revoided' /\ Accounted(o)
    <3>1. \A j \in revoided : j \in Items /\ item[j].order # None
      BY DEF MoneyInv, SettlementInv, TypeOK, BlankRows
    <3> QED BY <1>8, <1>9, <1>11, <1>12, <1>14, <3>1 DEF Accounted, Lasting
  <2>2. order[o].total = Subtotal[Charged(o)] /\ order[o].charges = ChargesFor(order[o].total)
    BY <1>1, <1>3, <2>1 DEF MoneyInv, MoneyAddsUp, BillMatchesLines
  <2>3. CASE t.target = "cancelled" /\ item[i].status # "cancelled"
    <3>1. Voids(t) = {i}
      BY <1>2, <1>13, <2>1, <2>3 DEF Voids
    <3>2. i \in Charged(o) /\ Charged(o)' = Charged(o) \ {i}
      BY <1>1, <1>10, <1>13, <2>1, <2>3, <3>1
    <3>3. /\ Subtotal[Charged(o)] \in Nat /\ Subtotal[{i}] \in Nat
          /\ Subtotal[Charged(o) \ {i}] \in Nat
          /\ Subtotal[Charged(o)] = Subtotal[Charged(o) \ {i}] + Subtotal[{i}]
      BY <1>10, <3>2, VoidTakesPrice
    <3>4. bill = WithTotal(order[o], Subtotal[Charged(o) \ {i}])
      <4>1. t.bill.total - Subtotal[t.items] = Subtotal[Charged(o) \ {i}]
            /\ ~(t.bill.total < Subtotal[t.items])
        BY <1>2, <1>13, <2>1, <2>2, <3>3
      <4> QED BY <1>13, <2>1, <3>1, <4>1 DEF Voided, bill
    <3>5. bill.total = Subtotal[Charged(o) \ {i}] /\ bill.charges = ChargesFor(bill.total)
      BY <1>3, <3>3, <3>4, WithTotalFields
    <3> QED BY <1>5, <1>13, <2>1, <3>2, <3>5
  <2>4. CASE ~(t.target = "cancelled" /\ item[i].status # "cancelled")
    <3>1. Voids(t) = {} /\ bill = order[o]
      <4>1. Voids(t) = {}
        BY <1>2, <1>13, <2>1, <2>4 DEF Voids
      <4> QED BY <1>13, <2>1, <4>1 DEF Voided, bill
    <3>2. i \in Charged(o)' <=> i \in Charged(o)
      <4>1. CASE item[i].status = "cancelled"
        <5>1. t.target # "cancelled" => i \in revived'
          BY <1>1, <1>2, <1>13, <2>1, <4>1 DEF Revives
        <5> QED BY <1>10, <1>13, <2>1, <4>1, <5>1
      <4>2. CASE item[i].status # "cancelled"
        <5>1. revived' = revived
          BY <1>1, <1>2, <1>13, <2>1, <4>2 DEF Revives
        <5> QED BY <1>10, <1>13, <2>1, <2>4, <4>2, <5>1
      <4> QED BY <4>1, <4>2
    <3>3. Charged(o)' = Charged(o)
      BY <1>10, <3>2
    <3>4. Subtotal[Charged(o)'] = Subtotal[Charged(o)]
      BY <3>3
    <3> QED BY <1>5, <1>13, <2>1, <2>2, <3>1, <3>4
  <2> QED BY <2>3, <2>4
<1>15. ASSUME o \notin overtaken', Settled(o)'
       PROVE  \E p \in Payments :
                /\ payment'[p].status = "confirmed" /\ payment'[p].order = o
                /\ payment'[p].split \/ payment'[p].amount >= GrandTotal(order'[o])
  <2>1. order'[o] = new /\ t.bill = order[o]
    BY <1>13, <1>15
  <2>2. Settled(o) /\ o \notin overtaken /\ t.bill.status = "paid"
    BY <1>7, <1>11, <1>15, <2>1 DEF Settled
  <2>3. bill = order[o]
    <3>1. Voids(t) = {}
      BY <1>3, <2>2 DEF Voids
    <3> QED BY <2>1, <3>1 DEF Voided, bill
  <2>4. GrandTotal(order'[o]) = GrandTotal(order[o])
    BY <1>5, <2>1, <2>3 DEF GrandTotal
  <2>5. PICK p \in Payments :
          /\ Confirmed(p) /\ payment[p].order = o
          /\ payment[p].split \/ payment[p].amount >= GrandTotal(order[o])
    BY <1>1, <2>2 DEF MoneyInv, MoneyAddsUp, PaidInFull
  <2> QED BY <1>1, <2>4, <2>5 DEF Confirmed
<1>16. o \notin overtaken' /\ passes'[o] # 0 => Settled(o)'
  BY <1>1, <1>7, <1>11 DEF MoneyInv, PassIsSettled, Settled
<1>17. MoneyAddsUp' /\ PassIsSettled'
  <2>1. \A q \in Orders \ {o} : /\ order'[q] = order[q] /\ Charged(q)' = Charged(q)
                                /\ passes'[q] = passes[q]
    BY <1>1, <1>6, <1>10
  <2>2. \A p \in Payments : Confirmed(p) => payment'[p] = payment[p]
    BY <1>1
  <2> QED BY <1>1, <1>9, <1>11, <1>12, <1>14, <1>15, <1>16, <2>1, <2>2, OrderCommit
<1>18. BlankRows'
  <2>1. \A j \in Items : item'[j].order = item[j].order
    BY <1>2, <1>8
  <2>2. \A j \in revived' \union revoided' : j \in Items /\ item'[j].order # None
    <3>1. \A j \in revived \union revoided : j \in Items /\ item[j].order # None
      BY DEF MoneyInv, SettlementInv, TypeOK, BlankRows
    <3>2. item[i].order # None
      BY <1>1, <1>2, IdsAssumption
    <3> QED BY <1>9, <2>1, <3>1, <3>2
  <2>3. Placed(o)'
    BY <1>7 DEF Placed
  <2> QED BY <1>1, <1>6, <1>12, <2>1, <2>2, <2>3, StillBlank
<1>19. KnowsRows' /\ RefusedWhenOvertaken'
  BY <1>1, <1>11, <1>12, FinishKnows, StillExplained
<1>20. SettledKept
  <2>1. ASSUME NEW q \in Orders, Settled(q), ~LateTap(q), q = o
        PROVE  /\ Settled(q)'
               /\ \A j \in Items : item[j].order = q /\ item'[j].status = "cancelled"
                          => item[j].status = "cancelled"
    <3>1. task'[w].op = "idle"
      BY <1>1 DEF Finish, IdleTask, MoneyInv, SettlementInv, TypeOK
    <3>2. t.bill.status = "paid"
      BY <1>0, <1>1, <2>1, <3>1 DEF LateTap
    <3>3. Settled(q)'
      BY <1>7, <2>1, <3>2 DEF Settled
    <3>4. t.target # "cancelled"
      BY <1>3, <3>2
    <3>5. item'[i].status = "cancelled" => item[i].status = "cancelled"
      BY <1>8, <3>4 DEF Dirty
    <3> QED BY <1>8, <3>3, <3>5
  <2>2. ASSUME NEW q \in Orders, Settled(q), q # o
        PROVE  /\ Settled(q)'
               /\ \A j \in Items : item[j].order = q /\ item'[j].status = "cancelled"
                          => item[j].status = "cancelled"
    <3>1. Settled(q)'
      BY <1>6, <2>2 DEF Settled
    <3> QED BY <1>2, <1>8, <2>2, <3>1
  <2> QED BY <2>1, <2>2 DEF SettledKept
<1> QED BY <1>17, <1>18, <1>19, <1>20 DEF MoneyInv

LEMMA RowsUntouched ==
  ASSUME UNCHANGED <<order, item>>
  PROVE  SettledKept
  BY DEF SettledKept, Settled

\* An order is marked paid, and a payment of it is confirmed, which covers the bill
\* as it was read.
LEMMA PaidMoney ==
  ASSUME MoneyInv, NEW w \in Workers, NEW o \in Orders, Placed(o), task[w].order = o,
         NEW p \in Payments, NEW row \in PaymentRow, NEW t \in Task, t.order = o,
         row.status = "confirmed", row.order = o,
         payment[p].status # "absent" => payment[p].order = o /\ payment[p].amount = row.amount,
         Confirmed(p) => row = payment[p],
         row.split \/ row.amount >= GrandTotal(t.bill),
         payment'[p] = row, \A q \in Payments \ {p} : payment'[q] = payment[q],
         order'[o].status = Dirty(order[o].status, t.bill.status, "paid"),
         order'[o].total = order[o].total, order'[o].charges = order[o].charges,
         \A q \in Orders \ {o} : order'[q] = order[q],
         \A q \in Orders \ {o} : passes'[q] = passes[q],
         t.bill.status = "paid" => passes'[o] = passes[o],
         Overtakes(t), UNCHANGED <<item, revived, revoided>>
  PROVE  MoneyAddsUp' /\ BlankRows' /\ PassIsSettled' /\ Lasting(w) /\ SettledKept
<1> TypeOK
  BY DEF MoneyInv, SettlementInv
<1>1. /\ order'[o].status # "absent"
      /\ t.bill.status # "paid" => order'[o].status = "paid"
      /\ t.bill.status = "paid" => order'[o].status = order[o].status
      /\ order[o].status = "paid" => order'[o].status = "paid"
  BY DEF Dirty, Placed
<1>2. \A q \in Orders : Charged(q)' = Charged(q)
  BY DEF Charged, OnBill
<1>3. /\ overtaken \subseteq overtaken'
      /\ o \notin overtaken' => t.bill = order[o] /\ o \notin overtaken
  BY OvertakesType, ReadInTime
<1>4. Lasting(w)
  <2>1. \A q \in Orders : Placed(q) <=> Placed(q)'
    BY <1>1 DEF Placed
  <2>2. \A q \in Payments : payment[q].status # "absent" =>
           /\ payment'[q].status # "absent"
           /\ payment'[q].order = payment[q].order
           /\ payment'[q].amount = payment[q].amount
    OBVIOUS
  <2> QED BY <2>1, <2>2 DEF Lasting
<1>5. \A q \in Payments : Confirmed(q) => payment'[q] = payment[q]
  OBVIOUS
<1>6. ASSUME Accounted(o)'
      PROVE  order'[o].total = Subtotal[Charged(o)'] /\ order'[o].charges = ChargesFor(order'[o].total)
  <2>1. Accounted(o)
    BY <1>3, <1>6 DEF Accounted
  <2>2. order[o].total = Subtotal[Charged(o)] /\ order[o].charges = ChargesFor(order[o].total)
    BY <2>1 DEF MoneyInv, MoneyAddsUp, BillMatchesLines
  <2>3. Subtotal[Charged(o)'] = Subtotal[Charged(o)]
    BY <1>2
  <2> QED BY <2>2, <2>3
<1>7. ASSUME o \notin overtaken'
      PROVE  /\ payment'[p].status = "confirmed" /\ payment'[p].order = o
             /\ payment'[p].split \/ payment'[p].amount >= GrandTotal(order'[o])
  BY <1>3, <1>7 DEF GrandTotal
<1>8. o \notin overtaken' /\ passes'[o] # 0 => Settled(o)'
  BY <1>1, <1>3 DEF MoneyInv, PassIsSettled, Settled
<1>9. MoneyAddsUp' /\ PassIsSettled'
  <2>1. \A q \in Orders \ {o} : /\ order'[q] = order[q] /\ Charged(q)' = Charged(q)
                                /\ passes'[q] = passes[q]
    BY <1>2
  <2>2. revoided \subseteq revoided'
    OBVIOUS
  <2> QED BY <1>3, <1>4, <1>5, <1>6, <1>7, <1>8, <2>1, <2>2, OrderCommit
<1>10. BlankRows'
  <2>1. \A i \in Items : item'[i].order # None => item[i].order # None \/ item'[i].order = o
    OBVIOUS
  <2>2. \A q \in Payments : payment'[q].status # "absent" =>
          payment[q].status # "absent" \/ payment'[q].order = o
    OBVIOUS
  <2>3. \A i \in revived' \union revoided' : i \in Items /\ item'[i].order # None
    BY DEF MoneyInv, BlankRows, TypeOK
  <2>4. Placed(o)'
    BY <1>1 DEF Placed
  <2> QED BY <1>4, <2>1, <2>2, <2>3, <2>4, StillBlank
<1>11. SettledKept
  <2>1. \A q \in Orders : Settled(q) => Settled(q)'
    BY <1>1 DEF Settled
  <2> QED BY <2>1 DEF SettledKept
<1> QED BY <1>4, <1>9, <1>10, <1>11

LEMMA PayCommitMoney ==
  ASSUME MoneyInv, SettlementInv', NEW w \in Workers, PayCommit(w)
  PROVE  MoneyInv' /\ SettledKept
<1>0. PICK t \in Task : t = task[w]
  BY DEF MoneyInv, SettlementInv, TypeOK
<1>1. /\ PayKnows(t) /\ t.order \in Orders /\ t.pay \in Payments /\ t.op = "pay"
      /\ Finish(w) /\ Overtakes(t) /\ UNCHANGED <<item, refused, revived, revoided>>
      /\ order' = [order EXCEPT ![t.order].status = Dirty(@, t.bill.status, "paid")]
      /\ payment' = [payment EXCEPT ![t.pay] =
                       [order |-> t.order, status |-> "confirmed", amount |-> t.amount,
                        source |-> "till", split |-> t.split]]
      /\ passes' = [passes EXCEPT ![t.order] = @ + 1]
  BY <1>0 DEF PayCommit, MoneyInv, KnowsRows, Knows, SettlementInv, TypeOK, gateway
<1>2. PICK row \in PaymentRow :
        /\ row.status = "confirmed" /\ row.order = t.order /\ row.amount = t.amount
        /\ row.split = t.split /\ payment' = [payment EXCEPT ![t.pay] = row]
  BY <1>1 DEF PaymentRow, Task
<1>3. \A q \in Orders \ {t.order} : passes'[q] = passes[q]
  BY <1>1 DEF MoneyInv, SettlementInv, TypeOK
<1>4. payment[t.pay].status = "absent" /\ ~Confirmed(t.pay)
  BY <1>0, <1>1 DEF MoneyInv, SettlementInv, TaskOwnsPayment, Confirmed
<1>5. /\ Placed(t.order) /\ t.bill.status # "paid"
      /\ row.split \/ row.amount >= GrandTotal(t.bill)
  BY <1>1, <1>2 DEF PayKnows
<1>6. MoneyAddsUp' /\ BlankRows' /\ PassIsSettled' /\ Lasting(w) /\ SettledKept
  <2>1. PICK o \in Orders, p \in Payments : o = t.order /\ p = t.pay
    BY <1>1
  <2>2. /\ task[w].order = o /\ Placed(o) /\ row.order = o /\ t.bill.status # "paid"
        /\ payment[p].status # "absent" => payment[p].order = o /\ payment[p].amount = row.amount
        /\ Confirmed(p) => row = payment[p]
    BY <1>0, <1>2, <1>4, <1>5, <2>1
  <2>3. /\ payment'[p] = row /\ \A q \in Payments \ {p} : payment'[q] = payment[q]
        /\ order'[o].status = Dirty(order[o].status, t.bill.status, "paid")
        /\ order'[o].total = order[o].total /\ order'[o].charges = order[o].charges
        /\ \A q \in Orders \ {o} : order'[q] = order[q]
        /\ \A q \in Orders \ {o} : passes'[q] = passes[q]
    BY <1>1, <1>2, <1>3, <2>1 DEF MoneyInv, SettlementInv, TypeOK, OrderRow
  <2> QED BY <1>1, <1>2, <1>5, <2>1, <2>2, <2>3, PaidMoney
<1>7. overtaken \subseteq overtaken'
  BY <1>1, OvertakesType
<1>8. KnowsRows' /\ RefusedWhenOvertaken'
  BY <1>1, <1>6, <1>7, FinishKnows, StillExplained
<1> QED BY <1>6, <1>8 DEF MoneyInv

LEMMA HookConfirmMoney ==
  ASSUME MoneyInv, SettlementInv', NEW w \in Workers, HookConfirm(w)
  PROVE  MoneyInv' /\ SettledKept
<1>0. PICK t \in Task : t = task[w]
  BY DEF MoneyInv, SettlementInv, TypeOK
<1>1. /\ HookKnows(t) /\ t.order \in Orders /\ t.pay \in Payments /\ ~Underpaid(t)
      /\ t.op = "hook" /\ payment[t.pay].status # "absent"
      /\ Finish(w) /\ Overtakes(t) /\ UNCHANGED <<item, refused, revived, revoided>>
      /\ order' = [order EXCEPT ![t.order].status = Dirty(@, t.bill.status, "paid")]
      /\ payment' = [payment EXCEPT ![t.pay].status = "confirmed"]
      /\ passes' = [passes EXCEPT ![t.order] = IF NeedsPass(t) THEN @ + 1 ELSE @]
  BY <1>0 DEF HookConfirm, MoneyInv, KnowsRows, Knows, SettlementInv, TypeOK
<1>2. payment[t.pay] \in PaymentRow /\ payment[t.pay].order = t.order
  BY <1>0, <1>1 DEF MoneyInv, SettlementInv, TypeOK, TaskOwnsPayment
<1>3. PICK row \in PaymentRow : row = [payment[t.pay] EXCEPT !.status = "confirmed"]
  BY <1>2, ConfirmedRowType
<1>4. /\ row.status = "confirmed" /\ row.order = t.order /\ row.amount = t.amount
      /\ payment[t.pay].amount = row.amount
      /\ payment' = [payment EXCEPT ![t.pay] = row]
  BY <1>1, <1>2, <1>3 DEF HookKnows, PaymentRow
<1>5. Confirmed(t.pay) => row = payment[t.pay]
  BY <1>2, <1>3 DEF Confirmed, PaymentRow
<1>6. /\ \A q \in Orders \ {t.order} : passes'[q] = passes[q]
      /\ t.bill.status = "paid" => passes'[t.order] = passes[t.order]
  BY <1>1 DEF NeedsPass, MoneyInv, SettlementInv, TypeOK
<1>7. row.amount >= GrandTotal(t.bill)
  <2>1. t.bill \in OrderRow /\ t.amount \in Nat
    BY DEF Task
  <2>2. GrandTotal(t.bill) \in Nat
    BY <2>1 DEF GrandTotal, OrderRow
  <2> QED BY <1>1, <1>4, <2>1, <2>2 DEF Underpaid
<1>8. Placed(t.order)
  BY <1>1 DEF HookKnows
<1>9. MoneyAddsUp' /\ BlankRows' /\ PassIsSettled' /\ Lasting(w) /\ SettledKept
  <2>1. PICK o \in Orders, p \in Payments : o = t.order /\ p = t.pay
    BY <1>1
  <2>2. /\ task[w].order = o /\ Placed(o) /\ row.order = o
        /\ payment[p].status # "absent" => payment[p].order = o /\ payment[p].amount = row.amount
        /\ Confirmed(p) => row = payment[p]
        /\ t.bill.status = "paid" => passes'[o] = passes[o]
    BY <1>0, <1>2, <1>4, <1>5, <1>6, <1>8, <2>1
  <2>3. /\ payment'[p] = row /\ \A q \in Payments \ {p} : payment'[q] = payment[q]
        /\ order'[o].status = Dirty(order[o].status, t.bill.status, "paid")
        /\ order'[o].total = order[o].total /\ order'[o].charges = order[o].charges
        /\ \A q \in Orders \ {o} : order'[q] = order[q]
        /\ \A q \in Orders \ {o} : passes'[q] = passes[q]
    BY <1>1, <1>4, <1>6, <2>1 DEF MoneyInv, SettlementInv, TypeOK, OrderRow
  <2> QED BY <1>1, <1>4, <1>7, <2>1, <2>2, <2>3, PaidMoney
<1>10. overtaken \subseteq overtaken'
  BY <1>1, OvertakesType
<1>11. KnowsRows' /\ RefusedWhenOvertaken'
  BY <1>1, <1>9, <1>10, FinishKnows, StillExplained
<1> QED BY <1>9, <1>11 DEF MoneyInv

\* A webhook fails that would insert a second pass: it saw its order unpaid, and the
\* pass says that it has been paid since, or that it was written over before.
LEMMA HookRefusedMoney ==
  ASSUME MoneyInv, SettlementInv', NEW w \in Workers, HookRefused(w)
  PROVE  MoneyInv'
<1>0. PICK t \in Task : t = task[w]
  BY DEF MoneyInv, SettlementInv, TypeOK
<1>1. /\ HookKnows(t) /\ t.order \in Orders /\ t.pay \in Payments /\ t.op = "hook"
      /\ payment[t.pay].status # "absent" /\ payment[t.pay].order = t.order
      /\ NeedsPass(t) /\ ~PassInserts(t.order)
      /\ refused' = refused \union {t.pay} /\ Finish(w) /\ Overtakes(t)
      /\ UNCHANGED <<order, item, payment, passes, revived, revoided>>
  BY <1>0 DEF HookRefused, MoneyInv, KnowsRows, Knows, SettlementInv, TypeOK,
              TaskOwnsPayment, db
<1>2. overtaken \subseteq overtaken' /\ (Stale(t) => t.order \in overtaken')
  BY <1>1, OvertakesType
<1>3. t.order \in overtaken'
  <2>1. CASE t.order \in overtaken
    BY <1>2, <2>1
  <2>2. CASE t.order \notin overtaken
    <3>1. order[t.order].status = "paid" /\ t.bill.status # "paid" /\ Placed(t.order)
      BY <1>1, <2>2 DEF PassInserts, MoneyInv, PassIsSettled, NeedsPass, Settled, HookKnows
    <3> QED BY <1>2, <3>1 DEF Stale
  <2> QED BY <2>1, <2>2
<1>4. Lasting(w)
  BY <1>1, NothingWritten
<1>5. MoneyAddsUp' /\ BlankRows' /\ PassIsSettled' /\ KnowsRows'
  BY <1>1, <1>2, <1>4, SameRows, FinishKnows
<1>6. RefusedWhenOvertaken'
  BY <1>1, <1>2, <1>3 DEF MoneyInv, RefusedWhenOvertaken
<1> QED BY <1>5, <1>6 DEF MoneyInv

\* A round touches neither the status of the order it joins nor a line that is there.
LEMMA PlaceCommitKeeps ==
  ASSUME MoneyInv, NEW w \in Workers, PlaceCommit(w)
  PROVE  SettledKept
<1>0. PICK t \in Task : t = task[w]
  BY DEF MoneyInv, SettlementInv, TypeOK
<1> DEFINE new == WithTotal(t.bill, t.bill.total + Subtotal[t.items])
<1>1. PlaceKnows(w) /\ t.order \in Orders
  BY <1>0 DEF PlaceCommit, MoneyInv, KnowsRows, Knows, SettlementInv, TypeOK
<1>2. /\ \A q \in Orders \ {t.order} : order'[q] = order[q]
      /\ \A i \in Items : item'[i].status = "cancelled" => item[i].status = "cancelled"
      /\ t.bill.status # "absent" => order'[t.order] = Written(order[t.order], t.bill, new)
  BY <1>0, <1>1 DEF PlaceCommit, MoneyInv, SettlementInv, TypeOK
<1>3. Settled(t.order) => t.bill.status # "absent"
  BY <1>0, <1>1 DEF PlaceKnows, Settled, Placed
<1>4. new.status = t.bill.status
  <2>1. t.bill \in OrderRow /\ t.items \in SUBSET Items
    BY DEF Task
  <2>2. t.bill.total \in Nat /\ Subtotal[t.items] \in Nat
    BY <2>1, SubtotalAssumption DEF OrderRow
  <2>3. t.bill.total + Subtotal[t.items] \in Nat
    BY <2>2
  <2> QED BY <2>1, <2>3, WithTotalType
<1> HIDE DEF new
<1>5. Settled(t.order) => Settled(t.order)'
  BY <1>2, <1>3, <1>4 DEF Written, Dirty, Settled
<1> QED BY <1>2, <1>5 DEF SettledKept, Settled

\* A checkout inserts a payment of its own.
LEMMA CheckoutMoney ==
  ASSUME MoneyInv, SettlementInv', Checkout
  PROVE  MoneyInv'
<1> TypeOK
  BY DEF MoneyInv, SettlementInv
<1>1. PICK o \in Orders, p \in Payments :
        /\ Placed(o) /\ FreshPayment(p)
        /\ payment' = [payment EXCEPT ![p] =
                         [order |-> o, status |-> "pending",
                          amount |-> GrandTotal(order[o]), source |-> "gateway",
                          split |-> FALSE]]
        /\ UNCHANGED <<order, item, passes, task, refused, overtaken, revived, revoided>>
  BY DEF Checkout, gateway, history
<1>2. /\ payment'[p].status = "pending" /\ payment'[p].order = o
      /\ \A q \in Payments \ {p} : payment'[q] = payment[q]
      /\ payment[p].status = "absent"
  BY <1>1 DEF TypeOK, FreshPayment
<1>3. \A q \in Payments : payment[q].status # "absent" => payment'[q] = payment[q]
  BY <1>2
<1>4. PaidInFull'
  <2>1. ASSUME NEW q \in Orders \ overtaken, Settled(q)
        PROVE  \E r \in Payments :
                 /\ payment'[r].status = "confirmed" /\ payment'[r].order = q
                 /\ payment'[r].split \/ payment'[r].amount >= GrandTotal(order[q])
    <3>1. PICK r \in Payments :
            /\ Confirmed(r) /\ payment[r].order = q
            /\ payment[r].split \/ payment[r].amount >= GrandTotal(order[q])
      BY <2>1 DEF MoneyInv, MoneyAddsUp, PaidInFull
    <3> QED BY <1>3, <3>1 DEF Confirmed
  <2> QED BY <1>1, <2>1 DEF PaidInFull, Settled, Confirmed, GrandTotal
<1>5. BillMatchesLines'
  BY <1>1 DEF MoneyInv, MoneyAddsUp, BillMatchesLines, Placed, Charged, OnBill, Accounted,
              ChargesFor
<1>6. BlankRows'
  <2>1. \A r \in Payments : payment'[r].status # "absent" => Placed(payment'[r].order)
    BY <1>1, <1>2 DEF MoneyInv, BlankRows
  <2> QED BY <1>1, <2>1 DEF MoneyInv, BlankRows, Placed, NoOrder
<1>7. PassIsSettled'
  BY <1>1 DEF MoneyInv, PassIsSettled, Settled
<1>8. KnowsRows'
  <2>1. ASSUME NEW v \in Workers, task[v].op = "hook"
        PROVE  payment'[task[v].pay] = payment[task[v].pay]
    BY <1>3, <2>1 DEF TypeOK
  <2> QED BY <1>1, <2>1 DEF MoneyInv, KnowsRows, Knows, PlaceKnows, StatusKnows, PayKnows,
                            HookKnows, Placed, GrandTotal, NoOrder
<1>9. RefusedWhenOvertaken'
  <2>1. \A q \in refused : q \in Payments
    BY DEF TypeOK
  <2> QED BY <1>1, <1>3, <2>1 DEF MoneyInv, RefusedWhenOvertaken
<1> QED BY <1>4, <1>5, <1>6, <1>7, <1>8, <1>9 DEF MoneyInv, MoneyAddsUp

\* What only Paystack and the webhook's answer change.
LEMMA GatewayMoney ==
  ASSUME MoneyInv, SettlementInv', UNCHANGED <<order, item, payment, passes, task, refused, history>>
  PROVE  MoneyInv'
<1>1. UNCHANGED <<overtaken, revived, revoided>>
  BY DEF history
<1>2. MoneyAddsUp' /\ BlankRows' /\ PassIsSettled'
  BY <1>1, SameRows
<1>3. KnowsRows'
  BY DEF MoneyInv, KnowsRows, Knows, PlaceKnows, StatusKnows, PayKnows, HookKnows, Placed,
         GrandTotal, NoOrder
<1>4. RefusedWhenOvertaken'
  BY <1>1 DEF MoneyInv, RefusedWhenOvertaken
<1> QED BY <1>2, <1>3, <1>4 DEF MoneyInv

LEMMA MoneyStep == MoneyInv /\ [Next]_vars => MoneyInv' /\ SettledKept
<1> SUFFICES ASSUME MoneyInv, [Next]_vars PROVE MoneyInv' /\ SettledKept
  OBVIOUS
<1>0. SettlementInv'
  BY StepInv DEF MoneyInv
<1>1. ASSUME NEW w \in Workers, PlaceRead(w) \/ StatusRead(w) \/ PayRead(w)
      PROVE  MoneyInv' /\ SettledKept
  <2>1. MoneyInv'
    BY <1>0, <1>1, PlaceReadMoney, StatusReadMoney, PayReadMoney
  <2>2. UNCHANGED <<order, item>>
    BY <1>1 DEF PlaceRead, StatusRead, PayRead, db
  <2> QED BY <2>1, <2>2, RowsUntouched
<1>2. ASSUME NEW w \in Workers, PlaceCommit(w) PROVE MoneyInv' /\ SettledKept
  BY <1>0, <1>2, PlaceCommitMoney, PlaceCommitKeeps
<1>3. ASSUME NEW w \in Workers, StatusCommit(w) PROVE MoneyInv' /\ SettledKept
  BY <1>0, <1>3, StatusCommitMoney
<1>4. ASSUME NEW w \in Workers, PayCommit(w) \/ HookConfirm(w) PROVE MoneyInv' /\ SettledKept
  BY <1>0, <1>4, PayCommitMoney, HookConfirmMoney
<1>5. ASSUME NEW w \in Workers, PayRefused(w) \/ HookFlag(w) \/ Abort(w)
      PROVE  MoneyInv' /\ SettledKept
  <2>1. Finish(w) /\ UNCHANGED <<order, item, payment, passes, refused, history>>
    BY <1>5 DEF PayRefused, HookFlag, Abort, db, gateway
  <2> QED BY <1>0, <2>1, EndMoney, RowsUntouched
<1>6. ASSUME NEW w \in Workers, HookRefused(w) PROVE MoneyInv' /\ SettledKept
  <2>1. MoneyInv'
    BY <1>0, <1>6, HookRefusedMoney
  <2>2. UNCHANGED <<order, item>>
    BY <1>6 DEF HookRefused, db
  <2> QED BY <2>1, <2>2, RowsUntouched
<1>7. ASSUME Checkout PROVE MoneyInv' /\ SettledKept
  <2>1. UNCHANGED <<order, item>>
    BY <1>7 DEF Checkout
  <2> QED BY <1>0, <1>7, <2>1, CheckoutMoney, RowsUntouched
<1>8. ASSUME NEW p \in Payments, Charge(p) \/ Redeliver(p) \/ HookSeen(p)
      PROVE  MoneyInv' /\ SettledKept
  <2>1. UNCHANGED <<order, item, payment, passes, task, refused, history>>
    BY <1>8 DEF Charge, Redeliver, HookSeen, db
  <2> QED BY <1>0, <2>1, GatewayMoney, RowsUntouched
<1>9. ASSUME NEW p \in Payments, NEW w \in Workers, HookRead(w, p)
      PROVE  MoneyInv' /\ SettledKept
  <2>1. MoneyInv'
    BY <1>0, <1>9, HookReadMoney
  <2>2. UNCHANGED <<order, item>>
    BY <1>9 DEF HookRead, db
  <2> QED BY <2>1, <2>2, RowsUntouched
<1>10. ASSUME UNCHANGED vars PROVE MoneyInv' /\ SettledKept
  <2>1. UNCHANGED <<order, item, payment, passes, task, refused, history>>
    BY <1>10 DEF vars, db, gateway
  <2> QED BY <1>0, <2>1, GatewayMoney, RowsUntouched
<1> QED BY <1>1, <1>2, <1>3, <1>4, <1>5, <1>6, <1>7, <1>8, <1>9, <1>10
        DEF Next, Commit, Deliver

LEMMA MoneyHolds == Spec => []MoneyInv
  BY MoneyInit, MoneyStep, PTL DEF Spec

\* However many handlers interleave, and whatever stations tap: the bill of every
\* order is the sum of its lines but those brought back from the void, with its
\* charges, and a paid order was paid for in full, unless a handler wrote the order
\* back over what another had changed, or a line of it was voided twice.
THEOREM MoneyAlwaysAddsUp == Spec => []MoneyAddsUp
<1>1. MoneyInv => MoneyAddsUp
  BY DEF MoneyInv
<1> QED BY <1>1, MoneyHolds, PTL

\* Only a tap that read its order before the payment reopens a paid order or voids
\* a line of it: no round, payment, webhook or later tap does, whatever it meets.
THEOREM SettlementStands == Spec => SettledForGood
<1>1. MoneyInv /\ [Next]_vars => SettledKept
  BY MoneyStep
<1>2. SettledKept => [\A o \in Orders : Settled(o) /\ ~LateTap(o) =>
                        /\ Settled(o)'
                        /\ \A i \in Items : item[i].order = o /\ item'[i].status = "cancelled"
                                              => item[i].status = "cancelled"]_vars
  BY DEF SettledKept
<1> QED BY <1>1, <1>2, MoneyHolds, PTL DEF Spec, SettledForGood

\* The webhook is answered 200 (payments.py:75) but over an order on which handlers
\* have met: every payment it failed is for such an order.
THEOREM ErrorsNeedMeeting == Spec => []RefusedWhenOvertaken
<1>1. MoneyInv => RefusedWhenOvertaken
  BY DEF MoneyInv
<1> QED BY <1>1, MoneyHolds, PTL
=============================================================================
