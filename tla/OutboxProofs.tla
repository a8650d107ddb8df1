----------------------------- MODULE OutboxProofs -----------------------------
(***************************************************************************)
(* Theorems about the outbox, for any number of events, retransmitters and *)
(* loops, any limit, any queue and any number of faults: the type          *)
(* invariant, what is delivered, in which order and how often, and the     *)
(* refinement of AtLeastOnce.                                              *)
(***************************************************************************)
EXTENDS Outbox, FiniteSetTheorems, TLAPS

USE DEF vars, configVars, rowVars, loopVars, busVars

\* There is a row when there is a transaction that was not rolled back; created_at
\* orders the rows, and what was committed before an event was published is older.
RowInv ==
    /\ \A e \in Events : tx[e] \in {"none", "aborted"} <=> status[e] = "none"
    /\ \A e, f \in Events : e \in older[f] => status[e] # "none" /\ f \notin older[e]
    /\ \A e, f \in Events : e \in earlier[f] => e \in older[f] /\ tx[e] = "committed"

\* A Fetch and its batch hold committed events, what is about to be marked was delivered.
DeliveryInv ==
    /\ \A g \in Loops : \A e \in scan[g] : tx[e] = "committed"
    /\ \A g \in Loops : \A e \in batch[g] : tx[e] = "committed"
    /\ \A g \in Loops : \A e \in processedIDs[g] : deliveries[e] > 0
    /\ OnlyCommittedDelivered
    /\ ProcessedWasDelivered

\* It was delivered, or need not be before what is younger.
Settled(e) == deliveries[e] > 0 \/ e \in unreadable \cup leftOut

\* What is earlier than a message of a batch is in front of it, or was settled: so it
\* is since its Fetch saw the rows.
OrderInv ==
    /\ \A g \in Loops : \A f \in scan[g] : \A e \in earlier[f] :
          e \in scan[g] \/ e \in batch[g] \/ Settled(e)
    /\ \A g \in Loops : \A f \in batch[g] : \A e \in earlier[f] : e \in batch[g] \/ Settled(e)
    /\ \A f \in Events : deliveries[f] > 0 => \A e \in earlier[f] : Settled(e)

\* The loops that may deliver e once more before the next fault.
MayDeliver(e) ==
    {g \in Loops : e \in batch[g] \/ (e \notin processedIDs[g] /\ status[e] # "PROCESSED")}

\* They have each a delivery left.
CountInv ==
    \A e \in Events :
        deliveries[e] + Cardinality(MayDeliver(e)) <= Cardinality(Loops) * (1 + faults)

Inv == TypeOK /\ RowInv /\ DeliveryInv /\ OrderInv

-----------------------------------------------------------------------------
(* Types.                                                                  *)

\* The variables have their types initially.
LEMMA TypeInit == Init => TypeOK
  BY OutboxAssumption DEF Init, TypeOK

\* Every step keeps them.
LEMMA TypeStep == TypeOK /\ [Next]_vars => TypeOK'
<1> SUFFICES ASSUME TypeOK, [Next]_vars PROVE TypeOK'
  OBVIOUS
<1>0. QueueSize \in Nat /\ MaxFaults \in Nat /\ None \notin Retransmitters
  BY OutboxAssumption
<1> USE <1>0 DEF TypeOK, Fault, Goto
<1>1. ASSUME NEW e \in Events, Publish(e)
      PROVE  TypeOK'
  BY <1>1 DEF Publish, Rows, Committed
<1>2. ASSUME NEW e \in Events, PublishFails(e)
      PROVE  TypeOK'
  BY <1>2 DEF PublishFails
<1>3. ASSUME NEW e \in Events, Commit(e)
      PROVE  TypeOK'
  BY <1>3 DEF Commit
<1>4. ASSUME NEW e \in Events, Rollback(e)
      PROVE  TypeOK'
  BY <1>4 DEF Rollback, RollBack
<1>5. ASSUME NEW r \in Retransmitters, NEW g \in Loops, Start(r, g)
      PROVE  TypeOK'
  BY <1>5 DEF Start
<1>6. ASSUME NEW r \in Retransmitters, Stop(r)
      PROVE  TypeOK'
  BY <1>6 DEF Stop
<1>7. CASE BusShutdown
  BY <1>7 DEF BusShutdown
<1>8. ASSUME NEW g \in Loops, FetchCall(g)
      PROVE  TypeOK'
  BY <1>8 DEF FetchCall, Visible, Committed
<1>9. ASSUME NEW g \in Loops, FetchFails(g)
      PROVE  TypeOK'
  BY <1>9 DEF FetchFails
<1>21. ASSUME NEW g \in Loops, NEW e \in Events, LockRow(g, e)
       PROVE  TypeOK'
  BY <1>21 DEF LockRow, AtRow
<1>22. ASSUME NEW g \in Loops, NEW e \in Events, SkipRow(g, e)
       PROVE  TypeOK'
  BY <1>22 DEF SkipRow, AtRow, LeaveOut
<1>23. ASSUME NEW g \in Loops, FetchReturn(g)
       PROVE  TypeOK'
  BY <1>23 DEF FetchReturn
<1>10. ASSUME NEW g \in Loops, NEW e \in Events, SkipUnreadable(g, e)
       PROVE  TypeOK'
  BY <1>10 DEF SkipUnreadable, AtMessage
<1>11. ASSUME NEW g \in Loops, NEW e \in Events, Deliver(g, e)
       PROVE  TypeOK'
  <2>1. /\ queue' \in Seq(Events)
        /\ Len(queue') <= IF ~async THEN 0 ELSE IF bus = "up" THEN QueueSize + 1 ELSE QueueSize
    <3>1. CASE async
      <4>1. queue' = Append(queue, e) /\ Len(queue) < QueueSize + (IF bus = "up" THEN 1 ELSE 0)
        BY <1>11, <3>1 DEF Deliver, Room
      <4>2. queue' \in Seq(Events) /\ Len(queue') = Len(queue) + 1 /\ Len(queue) \in Nat
        BY <4>1
      <4>3. CASE bus = "up"
        BY <3>1, <4>1, <4>2, <4>3
      <4>4. CASE bus # "up"
        BY <3>1, <4>1, <4>2, <4>4
      <4>5. QED
        BY <4>3, <4>4
    <3>2. CASE ~async
      BY <1>11, <3>2 DEF Deliver
    <3>3. QED
      BY <3>1, <3>2
  <2>2. UNCHANGED <<configVars, rowVars, pc, owner, scan, done, bus, faults>>
    BY <1>11 DEF Deliver, AtMessage
  <2>3. /\ batch' = [batch EXCEPT ![g] = @ \ {e}]
        /\ processedIDs' = [processedIDs EXCEPT ![g] = @ \cup {e}]
        /\ deliveries' = [deliveries EXCEPT ![e] = @ + 1]
        /\ pc[g] = "batch"
        /\ handled' = handled \/ handled' = handled \cup {e}
        /\ leftOut' = leftOut \ {e}
    BY <1>11 DEF Deliver, AtMessage, Published, Delivered
  <2>4. /\ batch' \in [Loops -> SUBSET Events]
        /\ processedIDs' \in [Loops -> SUBSET Events]
        /\ deliveries' \in [Events -> Nat]
        /\ handled' \subseteq Events /\ leftOut' \subseteq Events
    BY <2>3
  <2>5. \A h \in Loops :
           /\ pc'[h] # "fetch" => scan'[h] = {}
           /\ pc'[h] \notin {"fetch", "batch"} => batch'[h] = {}
           /\ pc'[h] # "batch" => processedIDs'[h] = {}
           /\ pc'[h] # "new" => owner'[h] # None
    BY <2>2, <2>3
  <2>6. QED
    BY <2>1, <2>2, <2>4, <2>5
<1>12. ASSUME NEW g \in Loops, NEW e \in Events, DeliverFails(g, e)
       PROVE  TypeOK'
  BY <1>12 DEF DeliverFails, AtMessage, LeaveOut
<1>13. ASSUME NEW g \in Loops, Mark(g)
       PROVE  TypeOK'
  BY <1>13 DEF Mark, EndBatch, Processed
<1>14. ASSUME NEW g \in Loops, MarkFails(g)
       PROVE  TypeOK'
  BY <1>14 DEF MarkFails, EndBatch, Processed
<1>15. ASSUME NEW g \in Loops, EndLoop(g)
       PROVE  TypeOK'
  BY <1>15 DEF EndLoop
<1>16. CASE Handle
  BY <1>16 DEF Handle
<1>17. CASE Crash
  BY <1>17 DEF Crash, Dies, RollBack
<1>18. ASSUME NEW g \in Loops, NEW e \in Events, SyncPanics(g, e)
       PROVE  TypeOK'
  BY <1>18 DEF SyncPanics, Dies, RollBack, Delivered
<1>19. CASE AsyncPanics
  BY <1>19 DEF AsyncPanics, Dies, RollBack
<1>20. CASE UNCHANGED vars
  BY <1>20
<1>24. QED
  BY <1>1, <1>2, <1>3, <1>4, <1>5, <1>6, <1>7, <1>8, <1>9, <1>10, <1>11, <1>12, <1>13,
     <1>14, <1>15, <1>16, <1>17, <1>18, <1>19, <1>20, <1>21, <1>22, <1>23
     DEF Next, Program, LoopStep, ProcessDies

\* The counters are numbers.
LEMMA Counts ==
    ASSUME TypeOK
    PROVE  deliveries \in [Events -> Nat] /\ faults \in Nat /\ queue \in Seq(Events)
<1>1. faults \in 0..MaxFaults
  BY DEF TypeOK
<1>2. faults \in Nat
  BY <1>1, OutboxAssumption
<1>3. deliveries \in [Events -> Nat] /\ queue \in Seq(Events)
  BY DEF TypeOK
<1>4. QED
  BY <1>2, <1>3

\* The variables keep their types.
THEOREM TypeCorrect == Spec => []TypeOK
  BY TypeInit, TypeStep, PTL DEF Spec

-----------------------------------------------------------------------------
(* The rows.                                                               *)

\* The table is empty initially.
LEMMA RowInit == Init => RowInv
  BY DEF Init, RowInv

\* Every step keeps the order of the rows.
LEMMA RowStep == Inv /\ [Next]_vars => RowInv'
<1> SUFFICES ASSUME TypeOK, RowInv, DeliveryInv, [Next]_vars PROVE RowInv'
  BY DEF Inv
<1>0. /\ tx \in [Events -> {"none", "open", "committed", "aborted"}]
      /\ status \in [Events -> {"none", "PENDING", "PROCESSED"}]
      /\ older \in [Events -> SUBSET Events] /\ earlier \in [Events -> SUBSET Events]
      /\ processedIDs \in [Loops -> SUBSET Events]
  BY DEF TypeOK
<1>a. \A g \in Loops : \A e \in processedIDs[g] : tx[e] = "committed"
  BY <1>0 DEF DeliveryInv, OnlyCommittedDelivered
<1> USE <1>0 DEF RowInv
<1>1. ASSUME NEW e \in Events, Publish(e)
      PROVE  RowInv'
  BY <1>1 DEF Publish, Rows, Committed
<1>2. ASSUME NEW e \in Events, PublishFails(e)
      PROVE  RowInv'
  BY <1>2 DEF PublishFails
<1>3. ASSUME NEW e \in Events, Commit(e)
      PROVE  RowInv'
  BY <1>3 DEF Commit
<1>4. ASSUME NEW e \in Events, Rollback(e)
      PROVE  RowInv'
  BY <1>4 DEF Rollback, RollBack
<1>5. ASSUME NEW r \in Retransmitters, NEW g \in Loops, Start(r, g)
      PROVE  RowInv'
  BY <1>5 DEF Start
<1>6. ASSUME NEW r \in Retransmitters, Stop(r)
      PROVE  RowInv'
  BY <1>6 DEF Stop
<1>7. CASE BusShutdown
  BY <1>7 DEF BusShutdown
<1>8. ASSUME NEW g \in Loops, FetchCall(g)
      PROVE  RowInv'
  BY <1>8 DEF FetchCall
<1>9. ASSUME NEW g \in Loops, FetchFails(g)
      PROVE  RowInv'
  BY <1>9 DEF FetchFails
<1>21. ASSUME NEW g \in Loops, NEW e \in Events, LockRow(g, e)
       PROVE  RowInv'
  BY <1>21 DEF LockRow, AtRow
<1>22. ASSUME NEW g \in Loops, NEW e \in Events, SkipRow(g, e)
       PROVE  RowInv'
  BY <1>22 DEF SkipRow, AtRow, LeaveOut
<1>23. ASSUME NEW g \in Loops, FetchReturn(g)
       PROVE  RowInv'
  BY <1>23 DEF FetchReturn
<1>10. ASSUME NEW g \in Loops, NEW e \in Events, SkipUnreadable(g, e)
       PROVE  RowInv'
  BY <1>10 DEF SkipUnreadable, AtMessage
<1>11. ASSUME NEW g \in Loops, NEW e \in Events, Deliver(g, e)
       PROVE  RowInv'
  BY <1>11 DEF Deliver, AtMessage, Published, Delivered
<1>12. ASSUME NEW g \in Loops, NEW e \in Events, DeliverFails(g, e)
       PROVE  RowInv'
  BY <1>12 DEF DeliverFails, AtMessage, LeaveOut
<1>13. ASSUME NEW g \in Loops, Mark(g)
       PROVE  RowInv'
  BY <1>13, <1>a DEF Mark, EndBatch, Processed
<1>14. ASSUME NEW g \in Loops, MarkFails(g)
       PROVE  RowInv'
  BY <1>14, <1>a DEF MarkFails, EndBatch, Processed
<1>15. ASSUME NEW g \in Loops, EndLoop(g)
       PROVE  RowInv'
  BY <1>15 DEF EndLoop
<1>16. CASE Handle
  BY <1>16 DEF Handle
<1>17. CASE Crash
  BY <1>17 DEF Crash, Dies, RollBack
<1>18. ASSUME NEW g \in Loops, NEW e \in Events, SyncPanics(g, e)
       PROVE  RowInv'
  BY <1>18 DEF SyncPanics, Dies, RollBack, Delivered
<1>19. CASE AsyncPanics
  BY <1>19 DEF AsyncPanics, Dies, RollBack
<1>20. CASE UNCHANGED vars
  BY <1>20
<1>24. QED
  BY <1>1, <1>2, <1>3, <1>4, <1>5, <1>6, <1>7, <1>8, <1>9, <1>10, <1>11, <1>12, <1>13,
     <1>14, <1>15, <1>16, <1>17, <1>18, <1>19, <1>20, <1>21, <1>22, <1>23
     DEF Next, Program, LoopStep, ProcessDies

-----------------------------------------------------------------------------
(* What is delivered.                                                      *)

\* Nothing is delivered initially.
LEMMA DeliveryInit == Init => DeliveryInv
  BY DEF Init, DeliveryInv, OnlyCommittedDelivered, ProcessedWasDelivered

\* Every step delivers what is committed and marks what is delivered.
LEMMA DeliveryStep == Inv /\ [Next]_vars => DeliveryInv'
<1> SUFFICES ASSUME TypeOK, DeliveryInv, [Next]_vars PROVE DeliveryInv'
  BY DEF Inv
<1>0. /\ tx \in [Events -> {"none", "open", "committed", "aborted"}]
      /\ status \in [Events -> {"none", "PENDING", "PROCESSED"}]
      /\ scan \in [Loops -> SUBSET Events]
      /\ batch \in [Loops -> SUBSET Events] /\ processedIDs \in [Loops -> SUBSET Events]
      /\ deliveries \in [Events -> Nat]
  BY DEF TypeOK
<1> USE <1>0 DEF DeliveryInv, OnlyCommittedDelivered, ProcessedWasDelivered
<1>1. ASSUME NEW e \in Events, Publish(e)
      PROVE  DeliveryInv'
  BY <1>1 DEF Publish
<1>2. ASSUME NEW e \in Events, PublishFails(e)
      PROVE  DeliveryInv'
  BY <1>2 DEF PublishFails
<1>3. ASSUME NEW e \in Events, Commit(e)
      PROVE  DeliveryInv'
  BY <1>3 DEF Commit
<1>4. ASSUME NEW e \in Events, Rollback(e)
      PROVE  DeliveryInv'
  BY <1>4 DEF Rollback, RollBack
<1>5. ASSUME NEW r \in Retransmitters, NEW g \in Loops, Start(r, g)
      PROVE  DeliveryInv'
  BY <1>5 DEF Start
<1>6. ASSUME NEW r \in Retransmitters, Stop(r)
      PROVE  DeliveryInv'
  BY <1>6 DEF Stop
<1>7. CASE BusShutdown
  BY <1>7 DEF BusShutdown
<1>8. ASSUME NEW g \in Loops, FetchCall(g)
      PROVE  DeliveryInv'
  BY <1>8 DEF FetchCall, Visible, Committed
<1>9. ASSUME NEW g \in Loops, FetchFails(g)
      PROVE  DeliveryInv'
  BY <1>9 DEF FetchFails
<1>21. ASSUME NEW g \in Loops, NEW e \in Events, LockRow(g, e)
       PROVE  DeliveryInv'
  BY <1>21 DEF LockRow, AtRow, First
<1>22. ASSUME NEW g \in Loops, NEW e \in Events, SkipRow(g, e)
       PROVE  DeliveryInv'
  BY <1>22 DEF SkipRow, AtRow, LeaveOut
<1>23. ASSUME NEW g \in Loops, FetchReturn(g)
       PROVE  DeliveryInv'
  BY <1>23 DEF FetchReturn
<1>10. ASSUME NEW g \in Loops, NEW e \in Events, SkipUnreadable(g, e)
       PROVE  DeliveryInv'
  BY <1>10 DEF SkipUnreadable, AtMessage
<1>11. ASSUME NEW g \in Loops, NEW e \in Events, Deliver(g, e)
       PROVE  DeliveryInv'
  BY <1>11 DEF Deliver, AtMessage, First, Published, Delivered
<1>12. ASSUME NEW g \in Loops, NEW e \in Events, DeliverFails(g, e)
       PROVE  DeliveryInv'
  BY <1>12 DEF DeliverFails, AtMessage, LeaveOut
<1>13. ASSUME NEW g \in Loops, Mark(g)
       PROVE  DeliveryInv'
  BY <1>13 DEF Mark, EndBatch, Processed
<1>14. ASSUME NEW g \in Loops, MarkFails(g)
       PROVE  DeliveryInv'
  BY <1>14 DEF MarkFails, EndBatch, Processed
<1>15. ASSUME NEW g \in Loops, EndLoop(g)
       PROVE  DeliveryInv'
  BY <1>15 DEF EndLoop
<1>16. CASE Handle
  BY <1>16 DEF Handle
<1>17. CASE Crash
  BY <1>17 DEF Crash, Dies, RollBack
<1>18. ASSUME NEW g \in Loops, NEW e \in Events, SyncPanics(g, e)
       PROVE  DeliveryInv'
  BY <1>18 DEF SyncPanics, First, Dies, RollBack, Delivered
<1>19. CASE AsyncPanics
  BY <1>19 DEF AsyncPanics, Dies, RollBack
<1>20. CASE UNCHANGED vars
  BY <1>20
<1>24. QED
  BY <1>1, <1>2, <1>3, <1>4, <1>5, <1>6, <1>7, <1>8, <1>9, <1>10, <1>11, <1>12, <1>13,
     <1>14, <1>15, <1>16, <1>17, <1>18, <1>19, <1>20, <1>21, <1>22, <1>23
     DEF Next, Program, LoopStep, ProcessDies

-----------------------------------------------------------------------------
(* The order of deliveries.                                                *)

\* Nothing is earlier than anything initially.
LEMMA OrderInit == Init => OrderInv
  BY DEF Init, OrderInv

\* Every step keeps the order.
LEMMA OrderStep == Inv /\ [Next]_vars => OrderInv'
<1> SUFFICES ASSUME TypeOK, RowInv, DeliveryInv, OrderInv, [Next]_vars PROVE OrderInv'
  BY DEF Inv
<1>0. /\ tx \in [Events -> {"none", "open", "committed", "aborted"}]
      /\ status \in [Events -> {"none", "PENDING", "PROCESSED"}]
      /\ older \in [Events -> SUBSET Events] /\ earlier \in [Events -> SUBSET Events]
      /\ scan \in [Loops -> SUBSET Events] /\ batch \in [Loops -> SUBSET Events]
      /\ \A g \in Loops : pc[g] # "fetch" => scan[g] = {}
      /\ deliveries \in [Events -> Nat] /\ leftOut \subseteq Events
  BY DEF TypeOK
<1>a. \A g \in Loops : (\A f \in scan[g] : tx[f] = "committed") /\ (\A f \in batch[g] : tx[f] = "committed")
  BY DEF DeliveryInv
<1>b. \A f \in Events : deliveries[f] > 0 => tx[f] = "committed"
  BY DEF DeliveryInv, OnlyCommittedDelivered
<1>c. \A e, f \in Events : e \in earlier[f] => e \in older[f] /\ f \notin older[e] /\ tx[e] = "committed"
  BY DEF RowInv
<1>d. \A e \in Events : tx[e] = "committed" => status[e] = "PENDING" \/ deliveries[e] > 0
  BY <1>0 DEF RowInv, DeliveryInv, ProcessedWasDelivered
<1>e. \A g \in Loops : \A e \in processedIDs[g] : deliveries[e] > 0
  BY DEF DeliveryInv
<1> USE <1>0 DEF OrderInv, Settled
<1>1. ASSUME NEW e \in Events, Publish(e)
      PROVE  OrderInv'
  BY <1>1, <1>a, <1>b DEF Publish
<1>2. ASSUME NEW e \in Events, PublishFails(e)
      PROVE  OrderInv'
  BY <1>2 DEF PublishFails
<1>3. ASSUME NEW e \in Events, Commit(e)
      PROVE  OrderInv'
  BY <1>3 DEF Commit
<1>4. ASSUME NEW e \in Events, Rollback(e)
      PROVE  OrderInv'
  BY <1>4, <1>a, <1>b DEF Rollback, RollBack
<1>5. ASSUME NEW r \in Retransmitters, NEW g \in Loops, Start(r, g)
      PROVE  OrderInv'
  BY <1>5 DEF Start
<1>6. ASSUME NEW r \in Retransmitters, Stop(r)
      PROVE  OrderInv'
  BY <1>6 DEF Stop
<1>7. CASE BusShutdown
  BY <1>7 DEF BusShutdown
<1>8. ASSUME NEW g \in Loops, FetchCall(g)
      PROVE  OrderInv'
  <2>1. scan' = [scan EXCEPT ![g] = Visible] /\ UNCHANGED <<configVars, rowVars, batch, busVars, leftOut>>
    BY <1>8 DEF FetchCall
  <2>2. ASSUME NEW f \in Visible, NEW e \in earlier[f]
        PROVE  e \in Visible \/ Settled(e)
    BY <1>c, <1>d DEF Visible, Committed, Pending
  <2>3. QED
    BY <2>1, <2>2
<1>9. ASSUME NEW g \in Loops, FetchFails(g)
      PROVE  OrderInv'
  BY <1>9 DEF FetchFails
<1>21. ASSUME NEW g \in Loops, NEW e \in Events, LockRow(g, e)
       PROVE  OrderInv'
  <2>1. /\ scan' = [scan EXCEPT ![g] = @ \ {e}]
        /\ batch' = [batch EXCEPT ![g] = @ \cup {e}]
        /\ UNCHANGED <<configVars, rowVars, busVars, leftOut>>
    BY <1>21 DEF LockRow, AtRow
  <2>2. e \in scan[g] /\ \A x \in earlier[e] : x \notin scan[g]
    BY <1>21, <1>c DEF LockRow, AtRow, First
  <2>3. \A x \in earlier[e] : x \in batch[g] \/ Settled(x)
    BY <2>2
  <2>4. \A h \in Loops : \A f \in scan'[h] : f \in scan[h]
    BY <2>1
  <2>5. \A h \in Loops : \A f \in batch'[h] : f \in batch[h] \/ (h = g /\ f = e)
    BY <2>1
  <2>6. \A h \in Loops : \A x \in Events :
           /\ x \in batch[h] => x \in batch'[h]
           /\ x \in scan[h] => x \in scan'[h] \/ x \in batch'[h]
    BY <2>1
  <2>7. \A x \in Events : Settled(x)' <=> Settled(x)
    BY <2>1
  <2>8. \A h \in Loops : \A f \in scan'[h] : \A x \in earlier'[f] :
           x \in scan'[h] \/ x \in batch'[h] \/ Settled(x)'
    BY <2>1, <2>4, <2>6, <2>7
  <2>9. \A h \in Loops : \A f \in batch'[h] : \A x \in earlier'[f] :
           x \in batch'[h] \/ Settled(x)'
    BY <2>1, <2>3, <2>5, <2>6, <2>7
  <2>10. QED
    BY <2>1, <2>7, <2>8, <2>9
<1>22. ASSUME NEW g \in Loops, NEW e \in Events, SkipRow(g, e)
       PROVE  OrderInv'
  <2>1. scan' = [scan EXCEPT ![g] = @ \ {e}]
        /\ UNCHANGED <<configVars, rowVars, batch, busVars>>
        /\ leftOut \subseteq leftOut'
    BY <1>22 DEF SkipRow, AtRow, LeaveOut
  <2>2. Settled(e)'
    <3>1. CASE LockedByFetch(g, e)
      <4>1. leftOut' = leftOut \cup {f \in {e} : deliveries[f] = 0}
        BY <1>22, <3>1 DEF SkipRow, LeaveOut
      <4>2. deliveries[e] = 0 \/ deliveries[e] > 0
        BY Counts
      <4>3. QED
        BY <2>1, <4>1, <4>2
    <3>2. CASE ~Pending(e)
      BY <1>22, <1>a, <1>d, <3>2 DEF SkipRow, AtRow, First, Pending
    <3>3. CASE UnderUpdate(g, e)
      BY <1>22, <1>e, <3>3 DEF SkipRow, AtRow, UnderUpdate
    <3>4. QED
      BY <1>22, <3>1, <3>2, <3>3 DEF SkipRow, LeaveOut
  <2>3. \A x \in Events : Settled(x) => Settled(x)'
    BY <2>1
  <2>4. QED
    BY <2>1, <2>2, <2>3
<1>23. ASSUME NEW g \in Loops, FetchReturn(g)
       PROVE  OrderInv'
  BY <1>23 DEF FetchReturn
<1>10. ASSUME NEW g \in Loops, NEW e \in Events, SkipUnreadable(g, e)
       PROVE  OrderInv'
  BY <1>10 DEF SkipUnreadable, AtMessage
<1>11. ASSUME NEW g \in Loops, NEW e \in Events, Deliver(g, e)
       PROVE  OrderInv'
  <2>1. \A x \in earlier[e] : x \notin batch[g]
    BY <1>11, <1>c DEF Deliver, AtMessage, First, Delivered
  <2>2. \A x \in earlier[e] : Settled(x)
    BY <1>11, <2>1 DEF Deliver, AtMessage, First, Delivered
  <2>3. /\ deliveries' = [deliveries EXCEPT ![e] = @ + 1]
        /\ leftOut' = leftOut \ {e}
        /\ batch' = [batch EXCEPT ![g] = @ \ {e}]
        /\ UNCHANGED <<configVars, earlier, pc, scan>>
        /\ pc[g] = "batch"
    BY <1>11 DEF Deliver, AtMessage, Delivered
  <2>4. \A x \in Events : (Settled(x) => Settled(x)') /\ Settled(e)'
    BY <2>3
  <2>5. \A f \in Events : deliveries'[f] > 0 => f = e \/ deliveries[f] > 0
    BY <2>3
  <2>6. \A h \in Loops : \A f \in scan'[h] : \A x \in earlier'[f] :
           x \in scan'[h] \/ x \in batch'[h] \/ Settled(x)'
    BY <2>3, <2>4
  <2>7. \A h \in Loops : \A f \in batch'[h] : \A x \in earlier'[f] :
           x \in batch'[h] \/ Settled(x)'
    BY <2>3, <2>4
  <2>8. \A f \in Events : deliveries'[f] > 0 => \A x \in earlier'[f] : Settled(x)'
    BY <2>2, <2>3, <2>4, <2>5
  <2>9. QED
    BY <2>6, <2>7, <2>8
<1>12. ASSUME NEW g \in Loops, NEW e \in Events, DeliverFails(g, e)
       PROVE  OrderInv'
  <2>1. /\ leftOut' = leftOut \cup {f \in {e} : deliveries[f] = 0}
        /\ batch' = [batch EXCEPT ![g] = @ \ {e}]
        /\ UNCHANGED <<configVars, earlier, scan, deliveries>>
    BY <1>12 DEF DeliverFails, AtMessage, LeaveOut
  <2>2. deliveries[e] = 0 \/ deliveries[e] > 0
    BY Counts
  <2>3. \A x \in Events : (Settled(x) => Settled(x)') /\ Settled(e)'
    BY <2>1, <2>2
  <2>4. QED
    BY <2>1, <2>3
<1>13. ASSUME NEW g \in Loops, Mark(g)
       PROVE  OrderInv'
  BY <1>13 DEF Mark, EndBatch, Processed
<1>14. ASSUME NEW g \in Loops, MarkFails(g)
       PROVE  OrderInv'
  BY <1>14 DEF MarkFails, EndBatch, Processed
<1>15. ASSUME NEW g \in Loops, EndLoop(g)
       PROVE  OrderInv'
  BY <1>15 DEF EndLoop
<1>16. CASE Handle
  BY <1>16 DEF Handle
<1>17. CASE Crash
  BY <1>17, <1>b DEF Crash, Dies, RollBack
<1>18. ASSUME NEW g \in Loops, NEW e \in Events, SyncPanics(g, e)
       PROVE  OrderInv'
  <2>1. \A x \in earlier[e] : x \notin batch[g]
    BY <1>18, <1>c DEF SyncPanics, First, Delivered
  <2>2. \A x \in earlier[e] : Settled(x)
    BY <1>18, <2>1 DEF SyncPanics, First, Delivered
  <2>7. /\ deliveries' = [deliveries EXCEPT ![e] = @ + 1]
        /\ leftOut' = leftOut \ {e} /\ UNCHANGED configVars
    BY <1>18 DEF SyncPanics, Dies, Delivered
  <2>3. /\ \A x \in Events : Settled(x) => Settled(x)'
        /\ \A f \in Events : deliveries'[f] > 0 => f = e \/ deliveries[f] > 0
    BY <2>7
  <2>4. \A f \in Events : earlier'[f] \subseteq earlier[f]
    BY <1>18 DEF SyncPanics, Dies, RollBack, Delivered
  <2>5. batch' = [h \in Loops |-> {}] /\ scan' = [h \in Loops |-> {}]
    BY <1>18 DEF SyncPanics, Dies
  <2>6. \A f \in Events : deliveries'[f] > 0 => \A x \in earlier'[f] : Settled(x)'
    BY <2>2, <2>3, <2>4
  <2>8. QED
    BY <2>5, <2>6
<1>19. CASE AsyncPanics
  BY <1>19, <1>b DEF AsyncPanics, Dies, RollBack
<1>20. CASE UNCHANGED vars
  BY <1>20
<1>24. QED
  BY <1>1, <1>2, <1>3, <1>4, <1>5, <1>6, <1>7, <1>8, <1>9, <1>10, <1>11, <1>12, <1>13,
     <1>14, <1>15, <1>16, <1>17, <1>18, <1>19, <1>20, <1>21, <1>22, <1>23
     DEF Next, Program, LoopStep, ProcessDies

-----------------------------------------------------------------------------
(* The invariant and what follows from it.                                 *)

LEMMA InvInit == Init => Inv
  BY TypeInit, RowInit, DeliveryInit, OrderInit DEF Inv

LEMMA InvStep == Inv /\ [Next]_vars => Inv'
  BY TypeStep, RowStep, DeliveryStep, OrderStep DEF Inv

\* An event of a transaction that did not commit never reaches the bus,
\* whenever and however often the process crashes.
THEOREM NoGhostEvents == Spec => []OnlyCommittedDelivered
<1>1. Inv => OnlyCommittedDelivered
  BY DEF Inv, DeliveryInv
<1>2. QED
  BY <1>1, InvInit, InvStep, PTL DEF Spec

\* Nothing is marked PROCESSED that the bus did not accept.
THEOREM MarkedAfterDelivery == Spec => []ProcessedWasDelivered
<1>1. Inv => ProcessedWasDelivered
  BY DEF Inv, DeliveryInv
<1>2. QED
  BY <1>1, InvInit, InvStep, PTL DEF Spec

\* The bus takes an effect before its cause only if it had refused the cause, nobody
\* can read that, or a Fetch passed over its row while another Fetch under way had
\* it locked: overlapping batches, failures and crashes alone never do it.
THEOREM CausalOrder == Spec => []DeliveredInOrder
<1>1. Inv => DeliveredInOrder
  BY DEF Inv, OrderInv, DeliveredInOrder, Settled
<1>2. QED
  BY <1>1, InvInit, InvStep, PTL DEF Spec

-----------------------------------------------------------------------------
(* How often an event is delivered.                                        *)

\* Fewer loops have a delivery left when none has gained one.
LEMMA CountFrame ==
    ASSUME TypeOK, TypeOK', CountInv, UNCHANGED deliveries,
           faults' = faults,
           \A e \in Events : MayDeliver(e)' \subseteq MayDeliver(e)
    PROVE  CountInv'
<1> SUFFICES ASSUME NEW e \in Events
             PROVE  deliveries'[e] + Cardinality(MayDeliver(e)') <= Cardinality(Loops) * (1 + faults')
  BY DEF CountInv
<1>1. IsFiniteSet(MayDeliver(e)) /\ IsFiniteSet(MayDeliver(e)')
  BY OutboxAssumption, FS_Subset DEF MayDeliver
<1>2. Cardinality(MayDeliver(e)') <= Cardinality(MayDeliver(e))
  BY <1>1, FS_Subset
<1>3. /\ Cardinality(MayDeliver(e)) \in Nat /\ Cardinality(MayDeliver(e)') \in Nat
      /\ Cardinality(Loops) \in Nat
  BY <1>1, OutboxAssumption, FS_CardinalityType
<1>4. deliveries[e] \in Nat /\ faults \in Nat
  BY Counts
<1>5. deliveries[e] + Cardinality(MayDeliver(e)) <= Cardinality(Loops) * (1 + faults)
  BY DEF CountInv
<1>6. Cardinality(Loops) * (1 + faults) \in Nat
  BY <1>3, <1>4
<1>7. QED
  BY <1>2, <1>3, <1>4, <1>5, <1>6

\* A fault gives every loop another delivery, whatever the loops have in hand; the
\* fault may come with a delivery by a loop that had one left.
LEMMA CountFault ==
    ASSUME TypeOK, TypeOK', CountInv, faults' = faults + 1,
           \A e \in Events :
              \/ deliveries'[e] = deliveries[e]
              \/ deliveries'[e] = deliveries[e] + 1 /\ MayDeliver(e) # {}
    PROVE  CountInv'
<1> SUFFICES ASSUME NEW e \in Events
             PROVE  deliveries'[e] + Cardinality(MayDeliver(e)') <= Cardinality(Loops) * (1 + faults')
  BY DEF CountInv
<1> DEFINE K == Cardinality(Loops)
           M == Cardinality(MayDeliver(e))
           MM == Cardinality(MayDeliver(e)')
<1>1. IsFiniteSet(MayDeliver(e)) /\ IsFiniteSet(MayDeliver(e)')
  BY OutboxAssumption, FS_Subset DEF MayDeliver
<1>2. MM <= K
  BY OutboxAssumption, FS_Subset DEF MayDeliver
<1>3. K \in Nat /\ M \in Nat /\ MM \in Nat
  BY <1>1, OutboxAssumption, FS_CardinalityType
<1>4. MayDeliver(e) # {} => M > 0
  BY <1>1, <1>3, FS_EmptySet
<1>5. deliveries[e] \in Nat /\ faults \in Nat
  BY Counts
<1>6. deliveries[e] + M <= K * (1 + faults)
  BY DEF CountInv
<1>7. deliveries'[e] <= deliveries[e] + M
  BY <1>3, <1>4, <1>5
<1> HIDE DEF K, M, MM
<1>8. K * (1 + (faults + 1)) = K * (1 + faults) + K /\ K * (1 + faults) \in Nat
  BY <1>3, <1>5
<1>9. deliveries'[e] + MM <= K * (1 + faults')
  BY <1>2, <1>3, <1>5, <1>6, <1>7, <1>8
<1>10. QED
  BY <1>9 DEF K, MM

\* A delivery uses up the one that its loop had left.
LEMMA CountDeliver ==
    ASSUME TypeOK, TypeOK', CountInv, NEW g \in Loops, NEW e \in Events, Deliver(g, e)
    PROVE  CountInv'
<1> SUFFICES ASSUME NEW f \in Events
             PROVE  deliveries'[f] + Cardinality(MayDeliver(f)') <= Cardinality(Loops) * (1 + faults')
  BY DEF CountInv
<1> DEFINE K == Cardinality(Loops) * (1 + faults)
           M == Cardinality(MayDeliver(f))
           MM == Cardinality(MayDeliver(f)')
<1>1. /\ IsFiniteSet(MayDeliver(f)) /\ IsFiniteSet(MayDeliver(f)')
      /\ IsFiniteSet(MayDeliver(f) \ {g})
  BY OutboxAssumption, FS_Subset, FS_RemoveElement DEF MayDeliver
<1>2. Cardinality(Loops) \in Nat /\ M \in Nat /\ MM \in Nat
  BY <1>1, OutboxAssumption, FS_CardinalityType
<1>3. deliveries[f] \in Nat /\ faults \in Nat /\ faults' = faults
  BY Counts DEF Deliver
<1>4. deliveries[f] + M <= K
  BY DEF CountInv
<1>5. K \in Nat
  BY <1>2, <1>3
<1>6. /\ e \in batch[g] /\ status' = status
      /\ batch' = [batch EXCEPT ![g] = @ \ {e}]
      /\ processedIDs' = [processedIDs EXCEPT ![g] = @ \cup {e}]
      /\ deliveries' = [deliveries EXCEPT ![e] = @ + 1]
  BY DEF Deliver, AtMessage, First, Published, Delivered
<1>7. batch \in [Loops -> SUBSET Events] /\ processedIDs \in [Loops -> SUBSET Events]
      /\ deliveries \in [Events -> Nat]
  BY DEF TypeOK
<1>8. MayDeliver(f)' \subseteq MayDeliver(f)
  BY <1>6, <1>7 DEF MayDeliver
<1>9. CASE f = e
  <2>1. g \in MayDeliver(f) /\ g \notin MayDeliver(f)'
    BY <1>6, <1>7, <1>9 DEF MayDeliver
  <2>2. Cardinality(MayDeliver(f) \ {g}) = M - 1
    BY <1>1, <2>1, FS_RemoveElement
  <2>3. MM <= M - 1
    BY <1>1, <1>8, <2>1, <2>2, FS_Subset
  <2>4. deliveries'[f] = deliveries[f] + 1
    BY <1>6, <1>7, <1>9
  <2>5. QED
    BY <1>2, <1>3, <1>4, <1>5, <2>3, <2>4
<1>10. CASE f # e
  <2>1. MM <= M
    BY <1>1, <1>8, FS_Subset
  <2>2. deliveries'[f] = deliveries[f]
    BY <1>6, <1>7, <1>10
  <2>3. QED
    BY <1>2, <1>3, <1>4, <1>5, <2>1, <2>2
<1>11. QED
  BY <1>9, <1>10

\* Every loop has one delivery of every event initially.
LEMMA CountInit == Init => CountInv
<1> SUFFICES ASSUME Init, NEW e \in Events
             PROVE  deliveries[e] + Cardinality(MayDeliver(e)) <= Cardinality(Loops) * (1 + faults)
  BY DEF CountInv
<1>1. deliveries[e] = 0 /\ faults = 0
  BY DEF Init
<1>2. Cardinality(MayDeliver(e)) <= Cardinality(Loops)
  BY OutboxAssumption, FS_Subset DEF MayDeliver
<1>3. Cardinality(MayDeliver(e)) \in Nat /\ Cardinality(Loops) \in Nat
  BY OutboxAssumption, FS_Subset, FS_CardinalityType DEF MayDeliver
<1>4. Cardinality(Loops) * (1 + 0) = Cardinality(Loops)
  BY <1>3
<1>5. QED
  BY <1>1, <1>2, <1>3, <1>4

\* Every step keeps the count.
LEMMA CountStep == Inv /\ CountInv /\ [Next]_vars => CountInv'
<1> SUFFICES ASSUME Inv, TypeOK, CountInv, [Next]_vars PROVE CountInv'
  BY DEF Inv
<1>0. TypeOK'
  BY TypeStep
<1>a. /\ status \in [Events -> {"none", "PENDING", "PROCESSED"}]
      /\ pc \in [Loops -> {"new", "select", "fetch", "batch", "ended"}]
      /\ batch \in [Loops -> SUBSET Events] /\ processedIDs \in [Loops -> SUBSET Events]
      /\ deliveries \in [Events -> Nat]
      /\ \A g \in Loops : pc[g] # "batch" => processedIDs[g] = {}
      /\ \A e \in Events : status[e] = "PROCESSED" => tx[e] = "committed"
  BY DEF TypeOK, Inv, DeliveryInv, OnlyCommittedDelivered, ProcessedWasDelivered
<1>1. ASSUME NEW e \in Events, Publish(e)
      PROVE  CountInv'
  <2>1. \A f \in Events : MayDeliver(f)' \subseteq MayDeliver(f)
    BY <1>a, <1>1 DEF Publish, Goto, MayDeliver
  <2>2. deliveries' = deliveries /\ faults' = faults
    BY <1>1 DEF Publish
  <2>3. QED
    BY <1>0, <2>1, <2>2, CountFrame
<1>2. ASSUME NEW e \in Events, PublishFails(e)
      PROVE  CountInv'
  <2>1. deliveries' = deliveries /\ faults' = faults + 1
    BY <1>2 DEF PublishFails, Fault
  <2>2. QED
    BY <1>0, <2>1, CountFault
<1>3. ASSUME NEW e \in Events, Commit(e)
      PROVE  CountInv'
  <2>1. \A f \in Events : MayDeliver(f)' \subseteq MayDeliver(f)
    BY <1>a, <1>3 DEF Commit, Goto, MayDeliver
  <2>2. deliveries' = deliveries /\ faults' = faults
    BY <1>3 DEF Commit
  <2>3. QED
    BY <1>0, <2>1, <2>2, CountFrame
<1>4. ASSUME NEW e \in Events, Rollback(e)
      PROVE  CountInv'
  <2>1. \A f \in Events : MayDeliver(f)' \subseteq MayDeliver(f)
    BY <1>a, <1>4 DEF Rollback, RollBack, Goto, MayDeliver
  <2>2. deliveries' = deliveries /\ faults' = faults
    BY <1>4 DEF Rollback
  <2>3. QED
    BY <1>0, <2>1, <2>2, CountFrame
<1>5. ASSUME NEW r \in Retransmitters, NEW g \in Loops, Start(r, g)
      PROVE  CountInv'
  <2>1. \A f \in Events : MayDeliver(f)' \subseteq MayDeliver(f)
    BY <1>a, <1>5 DEF Start, Goto, MayDeliver
  <2>2. deliveries' = deliveries /\ faults' = faults
    BY <1>5 DEF Start
  <2>3. QED
    BY <1>0, <2>1, <2>2, CountFrame
<1>6. ASSUME NEW r \in Retransmitters, Stop(r)
      PROVE  CountInv'
  <2>1. \A f \in Events : MayDeliver(f)' \subseteq MayDeliver(f)
    BY <1>a, <1>6 DEF Stop, Goto, MayDeliver
  <2>2. deliveries' = deliveries /\ faults' = faults
    BY <1>6 DEF Stop
  <2>3. QED
    BY <1>0, <2>1, <2>2, CountFrame
<1>7. CASE BusShutdown
  <2>1. \A f \in Events : MayDeliver(f)' \subseteq MayDeliver(f)
    BY <1>a, <1>7 DEF BusShutdown, Goto, MayDeliver
  <2>2. deliveries' = deliveries /\ faults' = faults
    BY <1>7 DEF BusShutdown
  <2>3. QED
    BY <1>0, <2>1, <2>2, CountFrame
<1>8. ASSUME NEW g \in Loops, FetchCall(g)
      PROVE  CountInv'
  <2>1. \A f \in Events : MayDeliver(f)' \subseteq MayDeliver(f)
    BY <1>a, <1>8 DEF FetchCall, MayDeliver
  <2>2. deliveries' = deliveries /\ faults' = faults
    BY <1>8 DEF FetchCall
  <2>3. QED
    BY <1>0, <2>1, <2>2, CountFrame
<1>9. ASSUME NEW g \in Loops, FetchFails(g)
      PROVE  CountInv'
  <2>1. deliveries' = deliveries /\ faults' = faults + 1
    BY <1>9 DEF FetchFails, Fault
  <2>2. QED
    BY <1>0, <2>1, CountFault
<1>21. ASSUME NEW g \in Loops, NEW e \in Events, LockRow(g, e)
       PROVE  CountInv'
  <2>1. pc[g] = "fetch" /\ status[e] # "PROCESSED" /\ batch' = [batch EXCEPT ![g] = @ \cup {e}]
    BY <1>21 DEF LockRow, AtRow, Pending
  <2>2. UNCHANGED <<status, processedIDs, deliveries, faults>>
    BY <1>21 DEF LockRow, AtRow
  <2>3. \A f \in Events : MayDeliver(f)' \subseteq MayDeliver(f)
    BY <1>a, <2>1, <2>2 DEF MayDeliver
  <2>4. QED
    BY <1>0, <2>2, <2>3, CountFrame
<1>22. ASSUME NEW g \in Loops, NEW e \in Events, SkipRow(g, e)
       PROVE  CountInv'
  <2>1. \A f \in Events : MayDeliver(f)' \subseteq MayDeliver(f)
    BY <1>a, <1>22 DEF SkipRow, AtRow, MayDeliver, LeaveOut
  <2>2. deliveries' = deliveries /\ faults' = faults
    BY <1>22 DEF SkipRow, AtRow, LeaveOut
  <2>3. QED
    BY <1>0, <2>1, <2>2, CountFrame
<1>23. ASSUME NEW g \in Loops, FetchReturn(g)
       PROVE  CountInv'
  <2>1. \A f \in Events : MayDeliver(f)' \subseteq MayDeliver(f)
    BY <1>a, <1>23 DEF FetchReturn, MayDeliver
  <2>2. deliveries' = deliveries /\ faults' = faults
    BY <1>23 DEF FetchReturn
  <2>3. QED
    BY <1>0, <2>1, <2>2, CountFrame
<1>10. ASSUME NEW g \in Loops, NEW e \in Events, SkipUnreadable(g, e)
       PROVE  CountInv'
  <2>1. \A f \in Events : MayDeliver(f)' \subseteq MayDeliver(f)
    BY <1>a, <1>10 DEF SkipUnreadable, AtMessage, Goto, MayDeliver
  <2>2. deliveries' = deliveries /\ faults' = faults
    BY <1>10 DEF SkipUnreadable, AtMessage
  <2>3. QED
    BY <1>0, <2>1, <2>2, CountFrame
<1>11. ASSUME NEW g \in Loops, NEW e \in Events, Deliver(g, e)
       PROVE  CountInv'
  BY <1>0, <1>11, CountDeliver
<1>12. ASSUME NEW g \in Loops, NEW e \in Events, DeliverFails(g, e)
       PROVE  CountInv'
  <2>1. deliveries' = deliveries /\ faults' = faults + 1
    BY <1>12 DEF DeliverFails, Fault, LeaveOut
  <2>2. QED
    BY <1>0, <2>1, CountFault
<1>13. ASSUME NEW g \in Loops, Mark(g)
       PROVE  CountInv'
  <2>1. \A f \in Events : MayDeliver(f)' \subseteq MayDeliver(f)
    BY <1>a, <1>13 DEF Mark, EndBatch, Processed, Goto, MayDeliver
  <2>2. deliveries' = deliveries /\ faults' = faults
    BY <1>13 DEF Mark, EndBatch
  <2>3. QED
    BY <1>0, <2>1, <2>2, CountFrame
<1>14. ASSUME NEW g \in Loops, MarkFails(g)
       PROVE  CountInv'
  <2>1. deliveries' = deliveries /\ faults' = faults + 1
    BY <1>14 DEF MarkFails, EndBatch, Fault
  <2>2. QED
    BY <1>0, <2>1, CountFault
<1>15. ASSUME NEW g \in Loops, EndLoop(g)
       PROVE  CountInv'
  <2>1. \A f \in Events : MayDeliver(f)' \subseteq MayDeliver(f)
    BY <1>a, <1>15 DEF EndLoop, Goto, MayDeliver
  <2>2. deliveries' = deliveries /\ faults' = faults
    BY <1>15 DEF EndLoop
  <2>3. QED
    BY <1>0, <2>1, <2>2, CountFrame
<1>16. CASE Handle
  <2>1. \A f \in Events : MayDeliver(f)' \subseteq MayDeliver(f)
    BY <1>a, <1>16 DEF Handle, Goto, MayDeliver
  <2>2. deliveries' = deliveries /\ faults' = faults
    BY <1>16 DEF Handle
  <2>3. QED
    BY <1>0, <2>1, <2>2, CountFrame
<1>17. CASE Crash
  <2>1. deliveries' = deliveries /\ faults' = faults + 1
    BY <1>17 DEF Crash, Dies, Fault
  <2>2. QED
    BY <1>0, <2>1, CountFault
<1>18. ASSUME NEW g \in Loops, NEW e \in Events, SyncPanics(g, e)
       PROVE  CountInv'
  <2>1. /\ deliveries' = [deliveries EXCEPT ![e] = @ + 1] /\ faults' = faults + 1
        /\ g \in MayDeliver(e)
    BY <1>18 DEF SyncPanics, First, Dies, Fault, MayDeliver, Delivered
  <2>2. \A f \in Events :
           \/ deliveries'[f] = deliveries[f]
           \/ deliveries'[f] = deliveries[f] + 1 /\ MayDeliver(f) # {}
    BY <1>a, <2>1
  <2>3. QED
    BY <1>0, <2>1, <2>2, CountFault
<1>19. CASE AsyncPanics
  <2>1. deliveries' = deliveries /\ faults' = faults + 1
    BY <1>19 DEF AsyncPanics, Dies, Fault
  <2>2. QED
    BY <1>0, <2>1, CountFault
<1>20. CASE UNCHANGED vars
  <2>1. \A f \in Events : MayDeliver(f)' \subseteq MayDeliver(f)
    BY <1>20 DEF MayDeliver
  <2>2. QED
    BY <1>0, <1>20, <2>1, CountFrame
<1>24. QED
  BY <1>1, <1>2, <1>3, <1>4, <1>5, <1>6, <1>7, <1>8, <1>9, <1>10, <1>11, <1>12, <1>13,
     <1>14, <1>15, <1>16, <1>17, <1>18, <1>19, <1>20, <1>21, <1>22, <1>23
     DEF Next, Program, LoopStep, ProcessDies

\* Between two faults a loop delivers an event once, however many loops race.
THEOREM DeliveryCount == Spec => []DeliveriesBounded
<1>1. Inv /\ CountInv => DeliveriesBounded
  <2> SUFFICES ASSUME TypeOK, CountInv, NEW e \in Events
               PROVE  deliveries[e] <= Cardinality(Loops) * (1 + faults)
    BY DEF Inv, DeliveriesBounded
  <2>1. Cardinality(MayDeliver(e)) \in Nat /\ Cardinality(Loops) \in Nat
    BY OutboxAssumption, FS_Subset, FS_CardinalityType DEF MayDeliver
  <2>2. deliveries[e] \in Nat /\ faults \in Nat
    BY Counts
  <2>3. Cardinality(Loops) * (1 + faults) \in Nat
    BY <2>1, <2>2
  <2>4. QED
    BY <2>1, <2>2, <2>3 DEF CountInv
<1>2. QED
  BY <1>1, InvInit, InvStep, CountInit, CountStep, PTL DEF Spec

-----------------------------------------------------------------------------
(* What is lost.                                                           *)

\* There are no more events in the queue than tasks.
LEMMA QueuedCount ==
    ASSUME queue \in Seq(Events)
    PROVE  IsFiniteSet(Queued) /\ Cardinality(Queued) <= Len(queue)
<1> DEFINE f == [i \in 1..Len(queue) |-> queue[i]]
<1>1. Len(queue) \in Nat
  OBVIOUS
<1>2. f \in Surjection(1..Len(queue), Queued)
  BY DEF Surjection, Queued
<1>3. IsFiniteSet(1..Len(queue)) /\ Cardinality(1..Len(queue)) = Len(queue)
  BY <1>1, FS_Interval
<1>4. QED
  BY <1>2, <1>3, FS_Surjection

\* A task that is added waits in the queue, and so does what waited before.
LEMMA QueuedAppend ==
    ASSUME queue \in Seq(Events), NEW e \in Events, queue' = Append(queue, e)
    PROVE  Queued' = Queued \cup {e}
<1>1. /\ Len(queue') = Len(queue) + 1 /\ Len(queue) \in Nat
      /\ \A i \in 1..Len(queue) : queue'[i] = queue[i]
      /\ queue'[Len(queue) + 1] = e
  OBVIOUS
<1>2. \A i \in 1..Len(queue') : i \in 1..Len(queue) \/ i = Len(queue) + 1
  BY <1>1
<1>3. Len(queue) + 1 \in 1..Len(queue') /\ 1..Len(queue) \subseteq 1..Len(queue')
  BY <1>1
<1>4. QED
  BY <1>1, <1>2, <1>3 DEF Queued

\* Only the task that is taken leaves the queue.
LEMMA QueuedTail ==
    ASSUME queue \in Seq(Events), queue # <<>>, queue' = Tail(queue)
    PROVE  Queued \subseteq Queued' \cup {Head(queue)}
<1> SUFFICES ASSUME NEW i \in 1..Len(queue)
             PROVE  queue[i] \in Queued' \cup {Head(queue)}
  BY DEF Queued
<1>1. CASE i = 1
  BY <1>1
<1>2. CASE i # 1
  <2>1. i - 1 \in 1..Len(queue') /\ queue'[i - 1] = queue[i]
    BY <1>2
  <2>2. QED
    BY <2>1 DEF Queued
<1>3. QED
  BY <1>1, <1>2

\* What was lost can be counted.
LEMMA LostIsFinite == IsFiniteSet(Lost) /\ Cardinality(Lost) \in Nat
<1>1. IsFiniteSet(Lost)
  BY OutboxAssumption, FS_Subset DEF Lost
<1>2. QED
  BY <1>1, FS_CardinalityType

\* A step that loses nothing keeps the bound, with a fault or without.
LEMMA LossFrame ==
    ASSUME TypeOK, LossBounded, UNCHANGED async, Lost' \subseteq Lost,
           faults' = faults \/ faults' = faults + 1
    PROVE  LossBounded'
<1>1. Cardinality(Lost') <= Cardinality(Lost)
  BY LostIsFinite, FS_Subset
<1>2. Cardinality(Lost) \in Nat /\ Cardinality(Lost') \in Nat
  BY LostIsFinite, FS_Subset, FS_CardinalityType
<1> DEFINE Q == QueueSize + 1
<1>3. Q \in Nat /\ faults \in Nat
  BY OutboxAssumption, Counts
<1>4. Cardinality(Lost) <= Q * faults
  BY DEF LossBounded
<1> HIDE DEF Q
<1>5. Cardinality(Lost') <= Q * faults'
  <2>1. Q * (faults + 1) = Q * faults + Q /\ Q * faults \in Nat
    BY <1>3
  <2>2. QED
    BY <1>1, <1>2, <1>3, <1>4, <2>1
<1>6. async' \/ Lost' = {}
  BY DEF LossBounded
<1>7. QED
  BY <1>5, <1>6 DEF LossBounded, Q

\* When the process dies, the queue is lost, and a synchronous subscriber has none.
LEMMA LossFault ==
    ASSUME TypeOK, LossBounded, UNCHANGED async, Lost' \subseteq Lost \cup Queued,
           faults' = faults + 1
    PROVE  LossBounded'
<1> DEFINE Q == QueueSize + 1
<1>1. queue \in Seq(Events) /\ Len(queue) <= Q /\ (async \/ Len(queue) = 0)
  BY OutboxAssumption DEF TypeOK
<1>2. IsFiniteSet(Queued) /\ Cardinality(Queued) <= Len(queue)
  BY <1>1, QueuedCount
<1>3. Q \in Nat /\ faults \in Nat /\ Len(queue) \in Nat /\ Cardinality(Queued) \in Nat
  BY <1>1, <1>2, OutboxAssumption, Counts, FS_CardinalityType
<1>8. Cardinality(Lost) <= Q * faults
  BY DEF LossBounded
<1> HIDE DEF Q
<1>4. Cardinality(Queued) <= Q
  BY <1>1, <1>2, <1>3
<1>5. /\ IsFiniteSet(Lost \cup Queued)
      /\ Cardinality(Lost \cup Queued) <= Cardinality(Lost) + Cardinality(Queued)
  <2>1. Cardinality(Lost \cap Queued) \in Nat
    BY <1>2, FS_Subset, FS_CardinalityType
  <2>2. /\ IsFiniteSet(Lost \cup Queued)
        /\ Cardinality(Lost \cup Queued)
             = Cardinality(Lost) + Cardinality(Queued) - Cardinality(Lost \cap Queued)
    BY <1>2, LostIsFinite, FS_Union
  <2>3. QED
    BY <1>3, <2>1, <2>2, LostIsFinite
<1>6. Cardinality(Lost') <= Cardinality(Lost \cup Queued) /\ Cardinality(Lost') \in Nat
      /\ Cardinality(Lost \cup Queued) \in Nat
  BY <1>5, FS_Subset, FS_CardinalityType
<1>7. Q * (faults + 1) = Q * faults + Q /\ Q * faults \in Nat
  BY <1>3
<1>9. Cardinality(Lost') <= Q * faults'
  BY <1>3, <1>4, <1>5, <1>6, <1>7, <1>8, LostIsFinite
<1>10. async' \/ Lost' = {}
  <2>1. ~async => Queued = {}
    BY <1>1, <1>3 DEF Queued
  <2>2. QED
    BY <2>1 DEF LossBounded
<1>11. QED
  BY <1>9, <1>10 DEF LossBounded, Q

\* Nothing is lost initially.
LEMMA LossInit == Init => LossBounded
<1> SUFFICES ASSUME Init PROVE LossBounded
  OBVIOUS
<1>1. Lost = {}
  BY DEF Init, Lost
<1>2. (QueueSize + 1) * 0 = 0 /\ faults = 0
  BY OutboxAssumption DEF Init
<1>3. QED
  BY <1>1, <1>2, FS_EmptySet DEF LossBounded

\* Every step keeps the bound.
LEMMA LossStep == TypeOK /\ LossBounded /\ [Next]_vars => LossBounded'
<1> SUFFICES ASSUME TypeOK, LossBounded, [Next]_vars PROVE LossBounded'
  OBVIOUS
<1>0. deliveries \in [Events -> Nat] /\ queue \in Seq(Events)
  BY DEF TypeOK
<1>a. UNCHANGED <<deliveries, handled, queue>> => Lost' = Lost
  BY DEF Lost, Queued
<1>1. ASSUME NEW e \in Events, Publish(e)
      PROVE  LossBounded'
  BY <1>a, <1>1, LossFrame DEF Publish
<1>2. ASSUME NEW e \in Events, PublishFails(e)
      PROVE  LossBounded'
  BY <1>a, <1>2, LossFrame DEF PublishFails, Fault
<1>3. ASSUME NEW e \in Events, Commit(e)
      PROVE  LossBounded'
  BY <1>a, <1>3, LossFrame DEF Commit
<1>4. ASSUME NEW e \in Events, Rollback(e)
      PROVE  LossBounded'
  BY <1>a, <1>4, LossFrame DEF Rollback
<1>5. ASSUME NEW r \in Retransmitters, NEW g \in Loops, Start(r, g)
      PROVE  LossBounded'
  BY <1>a, <1>5, LossFrame DEF Start
<1>6. ASSUME NEW r \in Retransmitters, Stop(r)
      PROVE  LossBounded'
  BY <1>a, <1>6, LossFrame DEF Stop
<1>7. CASE BusShutdown
  BY <1>a, <1>7, LossFrame DEF BusShutdown
<1>8. ASSUME NEW g \in Loops, FetchCall(g)
      PROVE  LossBounded'
  BY <1>a, <1>8, LossFrame DEF FetchCall
<1>9. ASSUME NEW g \in Loops, FetchFails(g)
      PROVE  LossBounded'
  BY <1>a, <1>9, LossFrame DEF FetchFails, Fault
<1>21. ASSUME NEW g \in Loops, NEW e \in Events, LockRow(g, e)
       PROVE  LossBounded'
  BY <1>a, <1>21, LossFrame DEF LockRow, AtRow
<1>22. ASSUME NEW g \in Loops, NEW e \in Events, SkipRow(g, e)
       PROVE  LossBounded'
  BY <1>a, <1>22, LossFrame DEF SkipRow, AtRow, LeaveOut
<1>23. ASSUME NEW g \in Loops, FetchReturn(g)
       PROVE  LossBounded'
  BY <1>a, <1>23, LossFrame DEF FetchReturn
<1>10. ASSUME NEW g \in Loops, NEW e \in Events, SkipUnreadable(g, e)
       PROVE  LossBounded'
  BY <1>a, <1>10, LossFrame DEF SkipUnreadable, AtMessage
<1>11. ASSUME NEW g \in Loops, NEW e \in Events, Deliver(g, e)
       PROVE  LossBounded'
  <2>1. /\ deliveries' = [deliveries EXCEPT ![e] = @ + 1]
        /\ UNCHANGED <<async, faults>>
    BY <1>11 DEF Deliver, AtMessage, Delivered
  <2>2. e \in handled' \cup Queued' /\ handled \cup Queued \subseteq handled' \cup Queued'
    <3>1. CASE async
      BY <1>0, <1>11, <3>1, QueuedAppend DEF Deliver, Delivered
    <3>2. CASE ~async
      BY <1>11, <3>2 DEF Deliver, Queued, Delivered
    <3>3. QED
      BY <3>1, <3>2
  <2>3. Lost' \subseteq Lost
    BY <1>0, <2>1, <2>2 DEF Lost
  <2>4. QED
    BY <1>a, <2>1, <2>3, LossFrame
<1>12. ASSUME NEW g \in Loops, NEW e \in Events, DeliverFails(g, e)
       PROVE  LossBounded'
  BY <1>a, <1>12, LossFrame DEF DeliverFails, AtMessage, Fault, LeaveOut
<1>13. ASSUME NEW g \in Loops, Mark(g)
       PROVE  LossBounded'
  BY <1>a, <1>13, LossFrame DEF Mark, EndBatch
<1>14. ASSUME NEW g \in Loops, MarkFails(g)
       PROVE  LossBounded'
  BY <1>a, <1>14, LossFrame DEF MarkFails, EndBatch, Fault
<1>15. ASSUME NEW g \in Loops, EndLoop(g)
       PROVE  LossBounded'
  BY <1>a, <1>15, LossFrame DEF EndLoop
<1>16. CASE Handle
  <2>1. handled \cup Queued \subseteq handled' \cup Queued'
    BY <1>0, <1>16, QueuedTail DEF Handle
  <2>2. Lost' \subseteq Lost
    BY <1>16, <2>1 DEF Lost, Handle
  <2>3. QED
    BY <1>a, <1>16, <2>2, LossFrame DEF Handle
<1>17. CASE Crash
  <2>1. Lost' \subseteq Lost \cup Queued
    BY <1>17 DEF Crash, Lost
  <2>2. UNCHANGED async /\ faults' = faults + 1
    BY <1>17 DEF Crash, Dies, Fault
  <2>3. QED
    BY <1>a, <2>1, <2>2, LossFault
<1>18. ASSUME NEW g \in Loops, NEW e \in Events, SyncPanics(g, e)
       PROVE  LossBounded'
  <2>1. /\ deliveries' = [deliveries EXCEPT ![e] = @ + 1]
        /\ handled' = handled \cup {e}
    BY <1>18 DEF SyncPanics, Delivered
  <2>2. Lost' \subseteq Lost \cup Queued
    BY <1>0, <2>1 DEF Lost
  <2>3. UNCHANGED async /\ faults' = faults + 1
    BY <1>18 DEF SyncPanics, Dies, Fault, Delivered
  <2>4. QED
    BY <1>a, <2>2, <2>3, LossFault
<1>19. CASE AsyncPanics
  <2>1. UNCHANGED deliveries /\ handled \subseteq handled'
    BY <1>19 DEF AsyncPanics
  <2>2. Lost' \subseteq Lost \cup Queued
    BY <2>1 DEF Lost
  <2>3. UNCHANGED async /\ faults' = faults + 1
    BY <1>19 DEF AsyncPanics, Dies, Fault
  <2>4. QED
    BY <1>a, <2>2, <2>3, LossFault
<1>20. CASE UNCHANGED vars
  BY <1>20 DEF LossBounded, Lost, Queued
<1>24. QED
  BY <1>1, <1>2, <1>3, <1>4, <1>5, <1>6, <1>7, <1>8, <1>9, <1>10, <1>11, <1>12, <1>13,
     <1>14, <1>15, <1>16, <1>17, <1>18, <1>19, <1>20, <1>21, <1>22, <1>23
     DEF Next, Program, LoopStep, ProcessDies

\* What a loop hands to the bus is handled, or it is in the queue, or it was there
\* when the process died: a fault loses no more than the queue holds and the worker
\* has in its hand, and a synchronous subscriber loses nothing.
THEOREM LossIsBounded == Spec => []LossBounded
  BY TypeInit, TypeStep, LossInit, LossStep, PTL DEF Spec

-----------------------------------------------------------------------------
(* The order of the rows.                                                  *)

\* The members of V are ordered by ord, where ord[e] are those before e.
IsOrder(V, ord) ==
    /\ \A e, f \in V : e # f => e \in ord[f] \/ f \in ord[e]
    /\ \A e, f \in V : e \in ord[f] => f \notin ord[e]
    /\ \A e, f, g \in V : e \in ord[f] /\ f \in ord[g] => e \in ord[g]

\* Of a finite set in order there are the first n, for every n up to its size.
LEMMA FirstOfOrder ==
    ASSUME NEW V, NEW ord, IsFiniteSet(V), IsOrder(V, ord),
           NEW n \in Nat, n <= Cardinality(V)
    PROVE  \E S \in SUBSET V :
              /\ IsFiniteSet(S) /\ Cardinality(S) = n
              /\ \A e \in S, f \in V \ S : e \in ord[f]
<1> DEFINE N == Cardinality(V)
           Before(e) == {f \in V : f \in ord[e]}
           rank == [e \in V |-> Cardinality(Before(e))]
           S == {e \in V : rank[e] < n}
<1>1. N \in Nat
  BY FS_CardinalityType
<1>2. \A e \in V : e \notin Before(e)
  BY DEF IsOrder
<1>3. \A e \in V : IsFiniteSet(Before(e)) /\ Cardinality(Before(e)) \in 0..(N - 1)
  <2> SUFFICES ASSUME NEW e \in V
               PROVE  IsFiniteSet(Before(e)) /\ Cardinality(Before(e)) \in 0..(N - 1)
    OBVIOUS
  <2>1. Before(e) \in SUBSET V
    OBVIOUS
  <2> HIDE DEF Before
  <2>2. /\ IsFiniteSet(Before(e)) /\ Cardinality(Before(e)) <= N
        /\ N = Cardinality(Before(e)) => V = Before(e)
    BY <2>1, FS_Subset
  <2>3. Cardinality(Before(e)) \in Nat
    BY <2>2, FS_CardinalityType
  <2>4. N # Cardinality(Before(e))
    BY <1>2, <2>2
  <2>5. QED
    BY <1>1, <2>2, <2>3, <2>4
<1>4. \A e, f \in V : e \in ord[f] => rank[e] < rank[f]
  <2> SUFFICES ASSUME NEW e \in V, NEW f \in V, e \in ord[f]
               PROVE  Cardinality(Before(e)) < Cardinality(Before(f))
    OBVIOUS
  <2>1. Before(e) \in SUBSET Before(f)
    BY DEF IsOrder
  <2>2. e \in Before(f)
    OBVIOUS
  <2>3. e \notin Before(e)
    BY <1>2
  <2> HIDE DEF Before
  <2>4. /\ Cardinality(Before(e)) <= Cardinality(Before(f))
        /\ Cardinality(Before(f)) = Cardinality(Before(e)) => Before(f) = Before(e)
    BY <1>3, <2>1, FS_Subset
  <2>5. QED
    BY <1>3, <2>2, <2>3, <2>4
<1>5. rank \in [V -> 0..(N - 1)]
  BY <1>3
<1>6. \A e, f \in V : e # f => rank[e] # rank[f]
  <2> HIDE DEF rank
  <2>1. \A e \in V : rank[e] \in Nat
    BY <1>1, <1>5
  <2>2. QED
    BY <1>4, <2>1 DEF IsOrder
<1> HIDE DEF rank, Before
<1>7. IsFiniteSet(0..(N - 1)) /\ Cardinality(0..(N - 1)) = N
  <2>1. 0 \in Int /\ N - 1 \in Int /\ (0 > N - 1 <=> N = 0)
    BY <1>1
  <2>2. /\ IsFiniteSet(0..(N - 1))
        /\ Cardinality(0..(N - 1)) = IF 0 > N - 1 THEN 0 ELSE N - 1 - 0 + 1
    BY <2>1, FS_Interval
  <2>3. QED
    BY <1>1, <2>1, <2>2
<1>8. rank \in Injection(V, 0..(N - 1))
  BY <1>5, <1>6 DEF Injection, IsInjective
<1>9. rank \in Surjection(V, 0..(N - 1))
  BY <1>7, <1>8, FS_Injection
<1>10. IsFiniteSet(S)
  BY FS_Subset
<1>11. Cardinality(S) = n
  <2> DEFINE r == [e \in S |-> rank[e]]
  <2>1. IsFiniteSet(0..(n - 1)) /\ Cardinality(0..(n - 1)) = n
    BY FS_Interval
  <2>2. r \in Injection(S, 0..(n - 1))
    <3>1. r \in [S -> 0..(n - 1)]
      BY <1>1, <1>5
    <3>2. \A e, f \in S : e # f => r[e] # r[f]
      BY <1>6
    <3>3. QED
      BY <3>1, <3>2 DEF Injection, IsInjective
  <2>3. r \in Surjection(S, 0..(n - 1))
    <3>1. ASSUME NEW m \in 0..(n - 1)
          PROVE  \E e \in S : r[e] = m
      <4>1. m \in 0..(N - 1)
        BY <1>1
      <4>2. PICK e \in V : rank[e] = m
        BY <1>9, <4>1 DEF Surjection
      <4>3. e \in S
        BY <4>2
      <4>4. QED
        BY <4>2, <4>3
    <3>2. r \in [S -> 0..(n - 1)]
      BY <2>2 DEF Injection
    <3>3. QED
      BY <3>1, <3>2 DEF Surjection
  <2>4. QED
    BY <2>1, <2>2, <2>3, FS_Injection
<1>12. \A e \in S, f \in V \ S : e \in ord[f]
  <2> SUFFICES ASSUME NEW e \in S, NEW f \in V \ S PROVE e \in ord[f]
    OBVIOUS
  <2>1. rank[e] \in Nat /\ rank[f] \in Nat /\ rank[e] < n /\ ~(rank[f] < n)
    BY <1>1, <1>5
  <2>2. e # f
    OBVIOUS
  <2>3. ~(rank[f] < rank[e])
    BY <2>1
  <2>4. QED
    BY <1>4, <2>2, <2>3 DEF IsOrder
<1>13. QED
  BY <1>10, <1>11, <1>12

\* The rows are ordered by created_at.
SortedInv ==
    /\ \A e \in Events : status[e] = "none" => older[e] = {}
    /\ IsOrder(Rows, older)

\* There are no rows initially.
LEMMA SortedInit == Init => SortedInv
  BY DEF Init, SortedInv, IsOrder, Rows

\* Whatever leaves the order and the set of the rows alone keeps it.
LEMMA SortedFrame ==
    ASSUME SortedInv, older' = older,
           \A e \in Events : status'[e] = "none" <=> status[e] = "none"
    PROVE  SortedInv'
<1>1. Rows' = Rows
  BY DEF Rows
<1>2. QED
  BY <1>1 DEF SortedInv

\* So does a rollback, which takes rows away.
LEMMA SortedRollback ==
    ASSUME TypeOK, SortedInv, NEW S \in SUBSET Events, RollBack(S)
    PROVE  SortedInv'
<1>1. /\ Rows' = Rows \ S
      /\ \A e \in Events : older'[e] = IF e \in S THEN {} ELSE older[e] \ S
  BY DEF RollBack, Rows, TypeOK
<1>2. \A e \in Rows' : e \in Rows /\ older'[e] = older[e] \ S
  BY <1>1 DEF Rows
<1>3. IsOrder(Rows', older')
  BY <1>1, <1>2 DEF SortedInv, IsOrder
<1>4. \A e \in Events : status'[e] = "none" => older'[e] = {}
  BY <1>1 DEF SortedInv, RollBack, TypeOK
<1>5. QED
  BY <1>3, <1>4 DEF SortedInv

\* Every step keeps it: a new row is younger than all others.
LEMMA SortedStep == Inv /\ SortedInv /\ [Next]_vars => SortedInv'
<1> SUFFICES ASSUME TypeOK, RowInv, DeliveryInv, SortedInv, [Next]_vars PROVE SortedInv'
  BY DEF Inv
<1>0. /\ status \in [Events -> {"none", "PENDING", "PROCESSED"}]
      /\ older \in [Events -> SUBSET Events]
      /\ processedIDs \in [Loops -> SUBSET Events]
  BY DEF TypeOK
<1>a. \A g \in Loops : \A e \in processedIDs[g] : status[e] # "none"
  BY <1>0 DEF DeliveryInv, OnlyCommittedDelivered, RowInv
<1>1. ASSUME NEW e \in Events, Publish(e)
      PROVE  SortedInv'
  <2>1. status[e] = "none" /\ e \notin Rows
    BY <1>1 DEF Publish, RowInv, Rows
  <2>2. Rows' = Rows \cup {e} /\ older'[e] = Rows
    BY <1>0, <1>1 DEF Publish, Rows
  <2>3. \A f \in Rows : older'[f] = older[f] /\ e \notin older[f]
    BY <1>0, <1>1, <2>1 DEF Publish, RowInv, Rows
  <2>4. IsOrder(Rows', older')
    BY <2>1, <2>2, <2>3 DEF SortedInv, IsOrder
  <2>5. \A f \in Events : status'[f] = "none" => older'[f] = {}
    BY <1>0, <1>1 DEF Publish, SortedInv
  <2>6. QED
    BY <2>4, <2>5 DEF SortedInv
<1>2. ASSUME NEW e \in Events, Rollback(e)
      PROVE  SortedInv'
  BY <1>2, SortedRollback DEF Rollback
<1>3. CASE ProcessDies
  <2>1. RollBack({e \in Events : tx[e] = "open"})
    BY <1>3 DEF ProcessDies, Crash, SyncPanics, AsyncPanics, Dies
  <2>2. QED
    BY <2>1, SortedRollback
<1>4. ASSUME NEW g \in Loops, Mark(g) \/ MarkFails(g)
      PROVE  SortedInv'
  <2>1. older' = older
    BY <1>4 DEF Mark, MarkFails, EndBatch
  <2>2. status' = status \/ status' = Processed(processedIDs[g])
    BY <1>4 DEF Mark, MarkFails
  <2>3. \A e \in Events : status'[e] = "none" <=> status[e] = "none"
    BY <1>0, <1>a, <2>2 DEF Processed
  <2>4. QED
    BY <2>1, <2>3, SortedFrame
<1>5. CASE UNCHANGED <<older, status>>
  BY <1>5, SortedFrame
<1>6. ASSUME NEW e \in Events, PublishFails(e) \/ Commit(e)
      PROVE  UNCHANGED <<older, status>>
  BY <1>6 DEF PublishFails, Commit
<1>7. ASSUME NEW r \in Retransmitters, Stop(r) \/ \E g \in Loops : Start(r, g)
      PROVE  UNCHANGED <<older, status>>
  BY <1>7 DEF Stop, Start
<1>8. ASSUME NEW g \in Loops, FetchCall(g) \/ FetchReturn(g) \/ FetchFails(g) \/ EndLoop(g)
      PROVE  UNCHANGED <<older, status>>
  BY <1>8 DEF FetchCall, FetchReturn, FetchFails, EndLoop
<1>9. ASSUME NEW g \in Loops, NEW e \in Events,
             \/ LockRow(g, e) \/ SkipRow(g, e)
             \/ SkipUnreadable(g, e) \/ Deliver(g, e) \/ DeliverFails(g, e)
      PROVE  UNCHANGED <<older, status>>
  BY <1>9 DEF LockRow, SkipRow, AtRow, SkipUnreadable, Deliver, DeliverFails, AtMessage
<1>10. ASSUME BusShutdown \/ Handle \/ UNCHANGED vars
       PROVE  UNCHANGED <<older, status>>
  BY <1>10 DEF BusShutdown, Handle
<1>11. QED
  BY <1>1, <1>2, <1>3, <1>4, <1>5, <1>6, <1>7, <1>8, <1>9, <1>10 DEF Next, Program, LoopStep

\* A statement that is not done has a next row, and a batch that is not empty a first
\* message: no loop gets stuck on the order of the rows.
LoopsGoOn ==
    \A g \in Loops :
        /\ scan[g] # {} => \E e \in scan[g] : First(e, scan[g])
        /\ batch[g] # {} => \E e \in batch[g] : First(e, batch[g])

\* A set of rows is in order.
LEMMA OrderOfSome ==
    ASSUME SortedInv, NEW V, V \subseteq Rows
    PROVE  IsFiniteSet(V) /\ IsOrder(V, older)
<1>1. V \in SUBSET Events
  BY DEF Rows
<1>2. IsFiniteSet(V)
  BY <1>1, OutboxAssumption, FS_Subset
<1>3. QED
  BY <1>2 DEF SortedInv, IsOrder

\* Where the rows are in order, every statement and every batch can go on.
LEMMA GoOn ==
    ASSUME Inv, SortedInv
    PROVE  LoopsGoOn
<1>1. \A e \in Events : tx[e] = "committed" => e \in Rows
  BY DEF Inv, RowInv, Rows
<1>2. ASSUME NEW V \in SUBSET Rows, V # {}
      PROVE  \E e \in V : First(e, V)
  <2>1. IsFiniteSet(V) /\ IsOrder(V, older)
    BY OrderOfSome
  <2>2. Cardinality(V) \in Nat /\ Cardinality(V) # 0
    BY <1>2, <2>1, FS_CardinalityType, FS_EmptySet
  <2>3. PICK S \in SUBSET V :
           /\ IsFiniteSet(S) /\ Cardinality(S) = 1
           /\ \A e \in S, f \in V \ S : e \in older[f]
    <3>1. 1 \in Nat /\ 1 <= Cardinality(V)
      BY <2>2
    <3>2. QED
      BY <2>1, <3>1, FirstOfOrder
  <2>4. PICK e : S = {e}
    BY <2>3, FS_Singleton
  <2>5. QED
    BY <2>3, <2>4 DEF First
<1>3. \A g \in Loops : scan[g] \subseteq Rows /\ batch[g] \subseteq Rows
  BY <1>1 DEF Inv, DeliveryInv, TypeOK
<1>4. QED
  BY <1>2, <1>3 DEF LoopsGoOn

\* A Fetch under way has a next row and a batch in hand a next message, whichever rows
\* were rolled back, marked or added since: with the worker of the bus at work, or
\* room in its queue, every loop under way can go on.
THEOREM NoLoopStuck == Spec => []LoopsGoOn
<1>1. Inv /\ SortedInv => LoopsGoOn
  BY GoOn
<1>2. Inv /\ SortedInv /\ [Next]_vars => SortedInv'
  BY SortedStep
<1>3. QED
  BY <1>1, <1>2, InvInit, InvStep, SortedInit, PTL DEF Spec

-----------------------------------------------------------------------------
(* The promise.                                                            *)

\* Nothing is accepted initially.
LEMMA PromiseInit == Init => Promise!Init
  BY DEF Init, Promise!Init, Committed

\* Every step accepts, delivers or acknowledges, or leaves all that as it is.
LEMMA PromiseStep == Inv /\ [Next]_vars => [Promise!Next]_(Promise!vars)
<1> SUFFICES ASSUME TypeOK, RowInv, DeliveryInv, [Next]_vars
             PROVE  [Promise!Next]_(Promise!vars)
  BY DEF Inv
<1>0. /\ tx \in [Events -> {"none", "open", "committed", "aborted"}]
      /\ status \in [Events -> {"none", "PENDING", "PROCESSED"}]
      /\ batch \in [Loops -> SUBSET Events] /\ processedIDs \in [Loops -> SUBSET Events]
      /\ deliveries \in [Events -> Nat]
  BY DEF TypeOK
<1>a. \A g \in Loops : \A e \in batch[g] : tx[e] = "committed"
  BY DEF DeliveryInv
<1>b. \A g \in Loops : \A e \in processedIDs[g] : deliveries[e] > 0
  BY DEF DeliveryInv
<1>c. \A e \in Events : status[e] = "PROCESSED" => tx[e] = "committed"
  BY DEF DeliveryInv, OnlyCommittedDelivered, ProcessedWasDelivered
<1> USE DEF Promise!vars
<1>1. ASSUME NEW e \in Events, Publish(e)
      PROVE  [Promise!Next]_(Promise!vars)
  BY <1>0, <1>c, <1>1 DEF Publish, Committed
<1>2. ASSUME NEW e \in Events, PublishFails(e)
      PROVE  [Promise!Next]_(Promise!vars)
  BY <1>2 DEF PublishFails, Committed
<1>3. ASSUME NEW e \in Events, Commit(e)
      PROVE  [Promise!Next]_(Promise!vars)
  <2>1. e \notin Committed /\ Committed' = Committed \cup {e}
    BY <1>0, <1>3 DEF Commit, Committed
  <2>2. Promise!Accept(e)
    BY <2>1, <1>3 DEF Promise!Accept, Commit
  <2>3. QED
    BY <2>2 DEF Promise!Next
<1>4. ASSUME NEW e \in Events, Rollback(e)
      PROVE  [Promise!Next]_(Promise!vars)
  BY <1>0, <1>c, <1>4 DEF Rollback, RollBack, Committed
<1>5. ASSUME NEW r \in Retransmitters, NEW g \in Loops, Start(r, g)
      PROVE  [Promise!Next]_(Promise!vars)
  BY <1>5 DEF Start, Committed
<1>6. ASSUME NEW r \in Retransmitters, Stop(r)
      PROVE  [Promise!Next]_(Promise!vars)
  BY <1>6 DEF Stop, Committed
<1>7. CASE BusShutdown
  BY <1>7 DEF BusShutdown, Committed
<1>8. ASSUME NEW g \in Loops, FetchCall(g)
      PROVE  [Promise!Next]_(Promise!vars)
  BY <1>8 DEF FetchCall, Committed
<1>9. ASSUME NEW g \in Loops, FetchFails(g)
      PROVE  [Promise!Next]_(Promise!vars)
  BY <1>9 DEF FetchFails, Committed
<1>21. ASSUME NEW g \in Loops, NEW e \in Events, LockRow(g, e)
       PROVE  [Promise!Next]_(Promise!vars)
  BY <1>21 DEF LockRow, AtRow, Committed
<1>22. ASSUME NEW g \in Loops, NEW e \in Events, SkipRow(g, e)
       PROVE  [Promise!Next]_(Promise!vars)
  BY <1>22 DEF SkipRow, AtRow, Committed, LeaveOut
<1>23. ASSUME NEW g \in Loops, FetchReturn(g)
       PROVE  [Promise!Next]_(Promise!vars)
  BY <1>23 DEF FetchReturn, Committed
<1>10. ASSUME NEW g \in Loops, NEW e \in Events, SkipUnreadable(g, e)
       PROVE  [Promise!Next]_(Promise!vars)
  BY <1>10 DEF SkipUnreadable, AtMessage, Committed
<1>11. ASSUME NEW g \in Loops, NEW e \in Events, Deliver(g, e)
       PROVE  [Promise!Next]_(Promise!vars)
  <2>1. deliveries' = [deliveries EXCEPT ![e] = @ + 1] /\ UNCHANGED <<tx, status>>
        /\ e \in batch[g]
    BY <1>11 DEF Deliver, AtMessage, First, Delivered
  <2>2. /\ {x \in Events : deliveries'[x] > 0} = {x \in Events : deliveries[x] > 0} \cup {e}
        /\ Committed' = Committed /\ e \in Committed
    BY <1>0, <1>a, <2>1 DEF Committed
  <2>3. Promise!Deliver(e)
    BY <2>1, <2>2 DEF Promise!Deliver
  <2>4. QED
    BY <2>3 DEF Promise!Next
<1>12. ASSUME NEW g \in Loops, NEW e \in Events, DeliverFails(g, e)
       PROVE  [Promise!Next]_(Promise!vars)
  BY <1>12 DEF DeliverFails, AtMessage, Committed, LeaveOut
<1>13. ASSUME NEW g \in Loops, Mark(g)
       PROVE  [Promise!Next]_(Promise!vars)
  <2>1. UNCHANGED <<tx, deliveries>>
        /\ status' \in {status, Processed(processedIDs[g])}
    BY <1>13 DEF Mark, EndBatch
  <2>2. CASE status' = status
    BY <2>1, <2>2 DEF Committed
  <2>3. CASE status' = Processed(processedIDs[g])
    <3>1. processedIDs[g] \subseteq {e \in Events : deliveries[e] > 0}
      BY <1>0, <1>b
    <3>2. {e \in Events : status'[e] = "PROCESSED"}
             = {e \in Events : status[e] = "PROCESSED"} \cup processedIDs[g]
      BY <1>0, <2>3 DEF Processed
    <3>3. PICK S \in SUBSET Events : S = processedIDs[g]
      BY <1>0
    <3>4. Promise!Ack(S)
      BY <2>1, <3>1, <3>2, <3>3 DEF Promise!Ack, Committed
    <3>5. QED
      BY <3>4 DEF Promise!Next
  <2>4. QED
    BY <2>1, <2>2, <2>3
<1>14. ASSUME NEW g \in Loops, MarkFails(g)
       PROVE  [Promise!Next]_(Promise!vars)
  <2>1. UNCHANGED <<tx, deliveries>>
        /\ status' \in {status, Processed(processedIDs[g])}
    BY <1>14 DEF MarkFails, EndBatch
  <2>2. CASE status' = status
    BY <2>1, <2>2 DEF Committed
  <2>3. CASE status' = Processed(processedIDs[g])
    <3>1. processedIDs[g] \subseteq {e \in Events : deliveries[e] > 0}
      BY <1>0, <1>b
    <3>2. {e \in Events : status'[e] = "PROCESSED"}
             = {e \in Events : status[e] = "PROCESSED"} \cup processedIDs[g]
      BY <1>0, <2>3 DEF Processed
    <3>3. PICK S \in SUBSET Events : S = processedIDs[g]
      BY <1>0
    <3>4. Promise!Ack(S)
      BY <2>1, <3>1, <3>2, <3>3 DEF Promise!Ack, Committed
    <3>5. QED
      BY <3>4 DEF Promise!Next
  <2>4. QED
    BY <2>1, <2>2, <2>3
<1>15. ASSUME NEW g \in Loops, EndLoop(g)
       PROVE  [Promise!Next]_(Promise!vars)
  BY <1>15 DEF EndLoop, Committed
<1>16. CASE Handle
  BY <1>16 DEF Handle, Committed
<1>17. CASE Crash
  BY <1>0, <1>c, <1>17 DEF Crash, Dies, RollBack, Committed
<1>18. ASSUME NEW g \in Loops, NEW e \in Events, SyncPanics(g, e)
       PROVE  [Promise!Next]_(Promise!vars)
  <2>1. deliveries' = [deliveries EXCEPT ![e] = @ + 1] /\ e \in batch[g]
        /\ RollBack({f \in Events : tx[f] = "open"})
    BY <1>18 DEF SyncPanics, First, Dies, Delivered
  <2>2. {x \in Events : deliveries'[x] > 0} = {x \in Events : deliveries[x] > 0} \cup {e}
    BY <1>0, <2>1
  <2>3. Committed' = Committed /\ e \in Committed
    BY <1>0, <1>a, <2>1 DEF Committed, RollBack
  <2>4. {x \in Events : status'[x] = "PROCESSED"} = {x \in Events : status[x] = "PROCESSED"}
    BY <1>0, <1>c, <2>1 DEF RollBack
  <2>5. Promise!Deliver(e)
    BY <2>2, <2>3, <2>4 DEF Promise!Deliver
  <2>6. QED
    BY <2>5 DEF Promise!Next
<1>19. CASE AsyncPanics
  BY <1>0, <1>c, <1>19 DEF AsyncPanics, Dies, RollBack, Committed
<1>20. CASE UNCHANGED vars
  BY <1>20 DEF Committed
<1>24. QED
  BY <1>1, <1>2, <1>3, <1>4, <1>5, <1>6, <1>7, <1>8, <1>9, <1>10, <1>11, <1>12, <1>13,
     <1>14, <1>15, <1>16, <1>17, <1>18, <1>19, <1>20, <1>21, <1>22, <1>23
     DEF Next, Program, LoopStep, ProcessDies

\* The table, the racing loops and the crashes implement AtLeastOnce.
THEOREM Implements == Spec => DeliversAtLeastOnce
<1>1. Init => Promise!Init
  BY PromiseInit
<1>2. Inv /\ [Next]_vars => [Promise!Next]_(Promise!vars)
  BY PromiseStep
<1>3. QED
  BY <1>1, <1>2, InvInit, InvStep, PTL DEF Spec, DeliversAtLeastOnce, Promise!Spec

=============================================================================
