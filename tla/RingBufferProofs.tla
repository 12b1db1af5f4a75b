-------------------------- MODULE RingBufferProofs --------------------------
(***************************************************************************)
(* Proofs about the lock-free ring, for every capacity and any number of   *)
(* pushes and clears: the types, and, as long as no two overlaps have met  *)
(* in one call, that items are delivered once and in order, that the       *)
(* newest ones are kept, and that losses are counted.                      *)
(*                                                                         *)
(* The argument replaces the modulus by the distance from one slot to      *)
(* another round the ring: the slot that is d places behind the tail holds *)
(* the item that was pushed as the d-th last one.                          *)
(***************************************************************************)
EXTENDS RingBuffer, TLAPS

\* The steps from slot h to slot t round the ring; Size is Dist(head, tail).
Dist(h, t) == IF t >= h THEN t - h ELSE Capacity - (h - t)

\* How many pushes ago slot s was filled, when the tail is at t.
Age(s, t) == IF s = t THEN Capacity ELSE Dist(s, t)

\* The calls of Push that have stored tail_.
Done == IF prod.at = "idle" THEN pushed ELSE pushed - 1

\* The consumer is between its two uses of head_.
Busy == cons.at \in {"loaded", "move", "moving", "store"}

\* The consumer's slot holds, or held, an item that it may take.
Taking == Busy /\ ~(head = cons.head /\ head = tail)

\* Where the threads stand: at most one drop beside a Pop and one Pop beside a
\* drop, so that whichever stores head_ last stores what the other one did.
Places ==
  /\ drops \in {0, 1}
  /\ prod.at # "idle" => prod.tail = tail
  /\ prod.at = "drop" => /\ prod.head = Inc(tail)
                         /\ pops = 0 => head = prod.head
                         /\ pops = 1 => head \in {prod.head, Inc(prod.head)}
  /\ prod.at \in {"fill", "filling", "store"} => Inc(tail) # head
  /\ Busy => /\ drops = 0 => head = cons.head
             /\ head \in {cons.head, Inc(cons.head)}
  /\ cons.at \in {"move", "moving", "store"} => Taking
  /\ cons.at = "clear" => prod.at = "idle" /\ head = 0

\* What the slots hold: the queue its items in order, the slot being filled the
\* new one, and the consumer's slot the item it takes, even when it was dropped.
Contents ==
  /\ cons.at # "clear" =>
       /\ Dist(head, tail) <= Done
       /\ \A s \in Slots :
            Dist(head, s) < Dist(head, tail) /\ ~(cons.at = "store" /\ s = cons.head)
            => buffer[s] = Done + 1 - Dist(s, tail)
  /\ prod.at = "store" => buffer[tail] = pushed
  /\ Taking => Age(cons.head, tail) <= Done
  /\ Taking /\ cons.at # "store" => buffer[cons.head] = Done + 1 - Age(cons.head, tail)
  /\ cons.at = "moving" => cons.item = buffer[cons.head]
  /\ cons.at = "store" => cons.item = Done + 1 - Age(cons.head, tail)

\* What was delivered is older than all that is queued and all that is being taken.
Delivered ==
  /\ \A i \in DOMAIN popped : popped[i] \in Items /\ popped[i] <= Done
  /\ \A i, j \in DOMAIN popped : i < j => popped[i] < popped[j]
  /\ cons.at # "clear" => \A i \in DOMAIN popped : popped[i] <= Done - Dist(head, tail)
  /\ Taking => \A i \in DOMAIN popped : popped[i] <= Done - Age(cons.head, tail)

\* Every item is queued or accounted for.
Counted ==
  Done <= Len(popped) + droppedCount + cleared.items
          + (IF cons.at = "clear" THEN 0 ELSE Dist(head, tail))

\* What holds as long as no two overlaps have met.
Good == Places /\ Contents /\ Delivered /\ Counted

\* The inductive invariant.
IInv == TypeOK /\ (~raced => Good)

\* The modulus of Inc and of NewestKept is a wrap at the end of the ring.
LEMMA Wraps ==
  ASSUME NEW a \in Nat, a < 2 * Capacity
  PROVE  a % Capacity = IF a < Capacity THEN a ELSE a - Capacity
  BY RingAssumption

\* The slot i places after slot h.
LEMMA SlotAfter ==
  ASSUME NEW h \in Slots, NEW i \in 0 .. Capacity - 1
  PROVE  (h + i) % Capacity = IF h + i < Capacity THEN h + i ELSE h + i - Capacity
  BY Wraps, RingAssumption DEF Slots

\* Inc is the next slot, and the first one after the last.
LEMMA IncNext ==
  ASSUME NEW i \in Slots
  PROVE  /\ Inc(i) \in Slots
         /\ Inc(i) = IF i = Capacity - 1 THEN 0 ELSE i + 1
  BY Wraps, RingAssumption DEF Inc, Slots


\* The distance between two slots, and how it changes with a step of either one.
LEMMA Distances ==
  ASSUME NEW h \in Slots, NEW t \in Slots
  PROVE  /\ Dist(h, t) \in 0 .. Capacity - 1
         /\ Dist(h, t) = 0 <=> h = t
         /\ Age(h, t) \in 1 .. Capacity
         /\ h # t => Age(h, t) = Dist(h, t)
         /\ Dist(Inc(h), t) = Age(h, t) - 1
         /\ Inc(t) # h => Dist(h, Inc(t)) = Dist(h, t) + 1
         /\ Inc(t) = h => Dist(h, t) = Capacity - 1
         /\ Inc(h) # h
         /\ h # t => Age(h, Inc(t)) = Age(h, t) + 1
         /\ Age(t, Inc(t)) = 1
  <1>1. Inc(h) \in Slots /\ Inc(h) = IF h = Capacity - 1 THEN 0 ELSE h + 1
    BY IncNext
  <1>2. Inc(t) \in Slots /\ Inc(t) = IF t = Capacity - 1 THEN 0 ELSE t + 1
    BY IncNext
  <1>. QED  BY <1>1, <1>2, RingAssumption DEF Slots, Dist, Age

\* The slots of the queue: neither the tail's nor the one before the head.
LEMMA QueueSlots ==
  ASSUME NEW h \in Slots, NEW t \in Slots, NEW s \in Slots
  PROVE  /\ Dist(h, s) < Dist(h, t) => s # t /\ Inc(s) # h /\ Dist(s, t) <= Dist(h, t)
         /\ Inc(t) # h => (Dist(h, s) < Dist(h, Inc(t)) <=> Dist(h, s) < Dist(h, t) \/ s = t)
         /\ s # t /\ Inc(t) # h /\ Dist(h, s) < Dist(h, t) => Dist(s, Inc(t)) = Dist(s, t) + 1
         /\ h # t => (Dist(Inc(h), s) < Dist(Inc(h), t) => s # h /\ Dist(h, s) < Dist(h, t))
  <1>1. Inc(h) \in Slots /\ Inc(h) = IF h = Capacity - 1 THEN 0 ELSE h + 1
    BY IncNext
  <1>2. Inc(t) \in Slots /\ Inc(t) = IF t = Capacity - 1 THEN 0 ELSE t + 1
    BY IncNext
  <1>3. Inc(s) \in Slots /\ Inc(s) = IF s = Capacity - 1 THEN 0 ELSE s + 1
    BY IncNext
  <1>. QED  BY <1>1, <1>2, <1>3, RingAssumption DEF Slots, Dist

\* The ring starts in a state of the invariant.
LEMMA InitHolds == Init => IInv
  <1>. SUFFICES ASSUME Init PROVE IInv
    OBVIOUS
  <1>1. 0 \in Slots /\ 0 \in 0 .. MaxPushes /\ 0 \in 0 .. MaxClears
    BY RingAssumption DEF Slots
  <1>2. TypeOK
    <2>1. <<>> \in Seq(Items \cup {Moved, Torn})
      OBVIOUS
    <2>2. Moved \in Items \cup {Moved, Torn}
      OBVIOUS
    <2>3. raced \in BOOLEAN
      BY DEF Init
    <2>. QED  BY <1>1, <2>1, <2>2, <2>3 DEF Init, TypeOK
  <1>3. Dist(0, 0) = 0
    BY DEF Dist
  <1>4. Places
    BY DEF Init, Places, Busy
  <1>5. Contents
    <2>1. \A s \in Slots : Dist(0, s) \in Nat
      BY <1>1, Distances
    <2>. QED  BY <1>3, <2>1 DEF Init, Contents, Done, Taking, Busy
  <1>6. Delivered
    BY DEF Init, Delivered, Taking, Busy
  <1>7. Counted
    BY <1>3 DEF Init, Counted, Done
  <1>. QED  BY <1>2, <1>4, <1>5, <1>6, <1>7 DEF IInv, Good


-----------------------------------------------------------------------------
(* Types *)

\* Every step keeps the types.
LEMMA TypesKept == TypeOK /\ [Next]_vars => TypeOK'
  <1>. SUFFICES ASSUME TypeOK, [Next]_vars PROVE TypeOK'
    OBVIOUS
  <1>. DEFINE Values == Items \cup {Moved, Torn}
  <1>a. /\ buffer \in [Slots -> Values]
        /\ head \in Slots /\ tail \in Slots /\ droppedCount \in Nat
        /\ pushed \in 0 .. MaxPushes /\ popped \in Seq(Values)
        /\ cleared \in [calls : 0 .. MaxClears, items : Nat]
        /\ drops \in Nat /\ pops \in Nat
    BY DEF TypeOK
  <1>b. /\ prod \in [at : {"idle", "drop", "fill", "filling", "store"}, tail : Slots, head : Slots]
        /\ cons \in [at : {"idle", "loaded", "move", "moving", "store", "clear"}, head : Slots,
                     item : Values]
    BY DEF TypeOK
  <1>c. raced \in BOOLEAN
    BY DEF TypeOK
  <1>d. Moved \in Values /\ Torn \in Values
    OBVIOUS
  <1>e. prod.tail \in Slots /\ prod.head \in Slots /\ cons.head \in Slots /\ cons.item \in Values
    BY <1>b
  <1>f. Inc(prod.tail) \in Slots /\ Inc(prod.head) \in Slots /\ Inc(cons.head) \in Slots
    BY <1>e, IncNext
  <1>g. 0 \in Slots
    BY RingAssumption DEF Slots
  <1>h. Size \in Nat
    BY <1>a, RingAssumption DEF Size, Slots
  <1>. HIDE DEF Values
  <1>. USE DEF Slot
  <1>1. CASE PushLoad
    <2>1. prod' \in [at : {"idle", "drop", "fill", "filling", "store"}, tail : Slots, head : Slots]
      BY <1>1, <1>a DEF PushLoad
    <2>2. pushed' \in 0 .. MaxPushes
      BY <1>1, <1>a, RingAssumption DEF PushLoad
    <2>3. raced' \in BOOLEAN
      BY <1>1, <1>c DEF PushLoad
    <2>. QED  BY <1>1, <1>a, <1>b, <2>1, <2>2, <2>3 DEF PushLoad, TypeOK, indices, Values
  <1>2. CASE PushDrop
    <2>1. prod' \in [at : {"idle", "drop", "fill", "filling", "store"}, tail : Slots, head : Slots]
      BY <1>2, <1>b DEF PushDrop
    <2>2. droppedCount' \in Nat /\ drops' \in Nat
      BY <1>2, <1>a DEF PushDrop
    <2>3. raced' \in BOOLEAN
      BY <1>2, <1>c DEF PushDrop
    <2>. QED  BY <1>2, <1>a, <1>b, <1>f, <2>1, <2>2, <2>3 DEF PushDrop, TypeOK, Values
  <1>3. CASE PushFill
    <2>1. prod' \in [at : {"idle", "drop", "fill", "filling", "store"}, tail : Slots, head : Slots]
      BY <1>3, <1>b DEF PushFill
    <2>2. buffer' \in [Slots -> Values]
      <3>1. prod.at = "filling" => pushed \in Values \/ pushed = 0
        BY <1>a DEF Values, Items
      <3>2. 0 \in Values
        BY DEF Values, Moved
      <3>. QED  BY <1>3, <1>a, <1>d, <1>e, <3>1, <3>2 DEF PushFill
    <2>. QED  BY <1>3, <1>a, <1>b, <1>c, <2>1, <2>2 DEF PushFill, TypeOK, indices, history, Values
  <1>4. CASE PushStore
    <2>1. prod' \in [at : {"idle", "drop", "fill", "filling", "store"}, tail : Slots, head : Slots]
      BY <1>4, <1>b DEF PushStore
    <2>. QED  BY <1>4, <1>a, <1>b, <1>c, <1>f, <2>1 DEF PushStore, TypeOK, history, Values
  <1>5. CASE PopLoadHead
    <2>1. cons' \in [at : {"idle", "loaded", "move", "moving", "store", "clear"}, head : Slots,
                     item : Values]
      BY <1>5, <1>a, <1>d DEF PopLoadHead
    <2>. QED  BY <1>5, <1>a, <1>b, <1>c, <2>1 DEF PopLoadHead, TypeOK, indices, Values
  <1>6. CASE PopLoadTail
    <2>1. cons' \in [at : {"idle", "loaded", "move", "moving", "store", "clear"}, head : Slots,
                     item : Values]
      BY <1>6, <1>b DEF PopLoadTail
    <2>. QED  BY <1>6, <1>a, <1>b, <1>c, <2>1 DEF PopLoadTail, TypeOK, indices, history, Values
  <1>7. CASE PopMove
    <2>1. buffer[cons.head] \in Values
      BY <1>a, <1>e
    <2>2. cons' \in [at : {"idle", "loaded", "move", "moving", "store", "clear"}, head : Slots,
                     item : Values]
      <3>1. CASE cons.at = "move"
        BY <1>7, <3>1, <1>b, <2>1 DEF PopMove
      <3>2. CASE cons.at = "moving"
        <4>. DEFINE it == IF buffer[cons.head] = cons.item THEN cons.item ELSE Torn
        <4>1. it \in Values
          BY <1>d, <1>e
        <4>2. cons' = [cons EXCEPT !.at = "store", !.item = it]
          BY <1>7, <3>2 DEF PopMove
        <4>. HIDE DEF it
        <4>. QED  BY <4>1, <4>2, <1>b
      <3>. QED  BY <1>7, <3>1, <3>2 DEF PopMove
    <2>3. buffer' \in [Slots -> Values]
      BY <1>7, <1>a, <1>d, <1>e DEF PopMove
    <2>. QED  BY <1>7, <1>a, <1>b, <1>c, <2>2, <2>3 DEF PopMove, TypeOK, indices, history, Values
  <1>8. CASE PopStore
    <2>1. cons' \in [at : {"idle", "loaded", "move", "moving", "store", "clear"}, head : Slots,
                     item : Values]
      BY <1>8, <1>b DEF PopStore
    <2>2. popped' \in Seq(Values)
      BY <1>8, <1>a, <1>e DEF PopStore
    <2>3. pops' \in Nat
      BY <1>8, <1>a DEF PopStore
    <2>. QED  BY <1>8, <1>a, <1>b, <1>c, <1>f, <2>1, <2>2, <2>3 DEF PopStore, TypeOK, Values
  <1>9. CASE Clear
    <2>1. cons' \in [at : {"idle", "loaded", "move", "moving", "store", "clear"}, head : Slots,
                     item : Values]
      BY <1>9, <1>b DEF Clear
    <2>2. cleared' \in [calls : 0 .. MaxClears, items : Nat]
      <3>1. cleared.calls \in 0 .. MaxClears /\ cleared.items \in Nat
        BY <1>a
      <3>2. CASE cons.at = "idle"
        <4>1. cleared.calls + 1 \in 0 .. MaxClears /\ cleared.items + Size \in Nat
          BY <1>9, <3>1, <3>2, <1>h, RingAssumption DEF Clear
        <4>. QED  BY <1>9, <3>2, <4>1 DEF Clear
      <3>3. CASE cons.at = "clear"
        BY <1>9, <3>3, <1>a DEF Clear, history
      <3>. QED  BY <1>9, <3>2, <3>3 DEF Clear
    <2>3. raced' \in BOOLEAN
      BY <1>9, <1>c DEF Clear, history
    <2>4. /\ head' \in Slots /\ tail' \in Slots /\ prod' = prod /\ buffer' = buffer
          /\ droppedCount' = droppedCount /\ pushed' = pushed /\ popped' = popped
          /\ drops' = drops /\ pops' = pops
      BY <1>9, <1>a, <1>g DEF Clear, history
    <2>. QED  BY <1>a, <1>b, <2>1, <2>2, <2>3, <2>4 DEF TypeOK, Values
  <1>10. CASE UNCHANGED vars
    BY <1>10 DEF vars, TypeOK
  <1>. QED  BY <1>1, <1>2, <1>3, <1>4, <1>5, <1>6, <1>7, <1>8, <1>9, <1>10 DEF Next


-----------------------------------------------------------------------------
(* Order, contents and losses, while no two overlaps have met *)

\* The indices the threads hold are slots, and the counters are numbers.
LEMMA Ranges ==
  ASSUME TypeOK
  PROVE  /\ head \in Slots /\ tail \in Slots
         /\ prod.tail \in Slots /\ prod.head \in Slots /\ cons.head \in Slots
         /\ pushed \in Nat /\ Done \in Int /\ droppedCount \in Nat /\ cleared.items \in Nat
         /\ drops \in Nat /\ pops \in Nat
         /\ Len(popped) \in Nat
  <1>1. cleared \in [calls : 0 .. MaxClears, items : Nat]
    BY DEF TypeOK
  <1>2. cleared.items \in Nat
    BY <1>1
  <1>3. popped \in Seq(Items \cup {Moved, Torn})
    BY DEF TypeOK
  <1>4. Len(popped) \in Nat
    BY <1>3
  <1>. QED  BY <1>2, <1>4 DEF TypeOK, Done

\* Loading the indices: the drop that may follow is of the head just seen.
LEMMA PushLoadKeeps ==
  ASSUME TypeOK, Good, PushLoad, ~raced'
  PROVE  Good'
  <1>1. /\ prod.at = "idle" /\ prod'.tail = tail /\ prod'.head = head
        /\ prod'.at = IF Inc(tail) = head THEN "drop" ELSE "fill"
        /\ pushed' = pushed + 1 /\ pops' = 0 /\ cons.at # "clear"
    BY DEF PushLoad, Full
  <1>2. /\ buffer' = buffer /\ head' = head /\ tail' = tail /\ droppedCount' = droppedCount
        /\ cons' = cons /\ popped' = popped /\ cleared' = cleared /\ drops' = drops
    BY DEF PushLoad, indices
  <1>3. Done' = Done
    BY <1>1, Ranges DEF Done
  <1>4. Places'
    BY <1>1, <1>2 DEF Good, Places, Busy, Taking
  <1>5. Contents'
    BY <1>1, <1>2, <1>3 DEF Good, Contents, Busy, Taking
  <1>6. Delivered'
    BY <1>1, <1>2, <1>3 DEF Good, Delivered, Busy, Taking
  <1>7. Counted'
    BY <1>1, <1>2, <1>3 DEF Good, Counted
  <1>. QED  BY <1>4, <1>5, <1>6, <1>7 DEF Good

\* Dropping: the head moves on by one, or a Pop has moved it there already.
LEMMA PushDropKeeps ==
  ASSUME TypeOK, Good, PushDrop, ~raced'
  PROVE  Good'
  <1>1. /\ prod.at = "drop" /\ prod'.at = "fill" /\ prod'.tail = prod.tail
        /\ head' = Inc(prod.head) /\ droppedCount' = droppedCount + 1
        /\ drops' <= 1 /\ pops <= 1 /\ drops' = IF cons.at = "idle" THEN drops ELSE drops + 1
    <2>1. prod \in [at : {"idle", "drop", "fill", "filling", "store"}, tail : Slots, head : Slots]
      BY DEF TypeOK
    <2>2. prod' = [prod EXCEPT !.at = "fill"]
      BY DEF PushDrop
    <2>3. prod'.at = "fill" /\ prod'.tail = prod.tail
      BY <2>1, <2>2
    <2>4. drops' \in Nat
      BY Ranges DEF PushDrop
    <2>5. ~(drops' > 1) /\ ~(pops > 1)
      BY DEF PushDrop
    <2>6. drops' <= 1 /\ pops <= 1
      BY <2>4, <2>5, Ranges
    <2>. QED  BY <2>3, <2>6 DEF PushDrop
  <1>2. /\ buffer' = buffer /\ tail' = tail /\ pushed' = pushed
        /\ cons' = cons /\ popped' = popped /\ cleared' = cleared /\ pops' = pops
    BY DEF PushDrop
  <1>3. Done' = Done
    BY <1>1, <1>2 DEF Done
  <1>4. /\ head \in Slots /\ tail \in Slots /\ prod.head \in Slots /\ cons.head \in Slots
        /\ Done \in Int /\ drops \in Nat /\ pops \in Nat
    BY Ranges
  <1>5. prod.tail = tail /\ prod.head = Inc(tail) /\ cons.at # "clear"
    BY <1>1 DEF Good, Places
  <1>6. head = prod.head \/ head = Inc(prod.head)
    BY <1>1, <1>4 DEF Good, Places
  <1>7. Dist(prod.head, tail) = Capacity - 1 /\ prod.head # tail /\ Inc(prod.head) # prod.head
    BY <1>4, <1>5, Distances, RingAssumption
  <1>8. Busy => drops = 0 /\ drops' = 1 /\ head = cons.head
    BY <1>1, <1>4 DEF Busy, Good, Places
  <1>9. Dist(head', tail) <= Dist(head, tail) /\ Dist(head, tail) <= Dist(head', tail) + 1
    <2>1. Dist(Inc(prod.head), tail) = Dist(prod.head, tail) - 1
      BY <1>4, <1>7, Distances
    <2>2. Dist(head, tail) \in Int /\ Dist(prod.head, tail) \in Int
      BY <1>4, Distances
    <2>. QED  BY <1>1, <1>6, <2>1, <2>2
  <1>10. \A s \in Slots : Dist(head', s) < Dist(head', tail) => Dist(head, s) < Dist(head, tail)
    BY <1>1, <1>4, <1>6, <1>7, QueueSlots
  <1>11. Taking' => Taking
    BY <1>1, <1>2, <1>6, <1>7, <1>8 DEF Taking, Busy
  <1>12. Places'
    <2>1. Inc(tail) # head'
      BY <1>1, <1>5, <1>7
    <2>2. cons.at \in {"move", "moving", "store"} => Taking'
      BY <1>1, <1>2, <1>6, <1>7, <1>8 DEF Taking, Busy, Good, Places
    <2>3. drops' \in {0, 1}
      BY <1>1, <1>4
    <2>4. Busy => head' \in {cons.head, Inc(cons.head)}
      BY <1>1, <1>6, <1>8
    <2>. QED  BY <1>1, <1>2, <1>5, <1>8, <2>1, <2>2, <2>3, <2>4 DEF Places, Busy
  <1>a. Dist(head, tail) \in Int /\ Dist(head', tail) \in Int
    <2>1. head' \in Slots
      BY <1>1, <1>4, IncNext
    <2>. QED  BY <1>4, <2>1, Distances
  <1>b. \A s \in Slots : Age(cons.head, s) \in Int /\ Dist(s, tail) \in Int
    BY <1>4, Distances
  <1>13. Contents'
    <2>1. Dist(head', tail) <= Done
      BY <1>4, <1>5, <1>9, <1>a DEF Good, Contents
    <2>2. \A s \in Slots :
            Dist(head', s) < Dist(head', tail) /\ ~(cons.at = "store" /\ s = cons.head)
            => buffer[s] = Done + 1 - Dist(s, tail)
      BY <1>5, <1>10 DEF Good, Contents
    <2>3. /\ Taking' => Age(cons.head, tail) <= Done
          /\ Taking' /\ cons.at # "store" => buffer[cons.head] = Done + 1 - Age(cons.head, tail)
          /\ cons.at = "moving" => cons.item = buffer[cons.head]
          /\ cons.at = "store" => cons.item = Done + 1 - Age(cons.head, tail)
      BY <1>11, Zenon DEF Good, Contents
    <2>. QED  BY <1>1, <1>2, <1>3, <2>1, <2>2, <2>3 DEF Contents
  <1>14. Delivered'
    <2>1. \A i \in DOMAIN popped : popped[i] \in Int
      BY DEF Good, Delivered, Items
    <2>2. \A i \in DOMAIN popped : popped[i] <= Done - Dist(head', tail)
      BY <1>4, <1>5, <1>9, <1>a, <2>1 DEF Good, Delivered
    <2>. QED  BY <1>1, <1>2, <1>3, <1>11, <2>2 DEF Good, Delivered
  <1>15. Counted'
    <2>. DEFINE n == Len(popped)  k == cleared.items
    <2>1. Done <= n + droppedCount + k + Dist(head, tail)
      BY <1>5 DEF Good, Counted
    <2>2. n \in Nat /\ k \in Nat /\ droppedCount \in Nat
      BY Ranges
    <2>3. Done' <= n + (droppedCount + 1) + k + Dist(head', tail)
      <3>. HIDE DEF n, k
      <3>. QED  BY <1>3, <1>4, <1>9, <1>a, <2>1, <2>2
    <2>. QED  BY <1>1, <1>2, <1>5, <2>3 DEF Counted
  <1>. QED  BY <1>12, <1>13, <1>14, <1>15 DEF Good


\* A Push never fills the slot that the consumer takes an item from.
LEMMA Apart ==
  ASSUME TypeOK, Good, prod.at \in {"fill", "filling", "store"}
  PROVE  /\ cons.at # "clear" /\ prod.tail = tail /\ Inc(tail) # head
         /\ Taking => cons.head # tail
  BY DEF Good, Places, Taking, Busy

\* Filling a slot: it is outside of the queue and not the consumer's.
LEMMA PushFillKeeps ==
  ASSUME TypeOK, Good, PushFill, ~raced'
  PROVE  Good'
  <1>1. /\ prod.at \in {"fill", "filling"}
        /\ prod'.tail = prod.tail /\ prod'.head = prod.head
        /\ prod'.at \in {"filling", "store"}
        /\ prod'.at = "store" <=> prod.at = "filling"
    <2>1. prod \in [at : {"idle", "drop", "fill", "filling", "store"}, tail : Slots, head : Slots]
      BY DEF TypeOK
    <2>2. CASE prod.at = "fill"
      <3>1. prod' = [prod EXCEPT !.at = "filling"]
        BY <2>2 DEF PushFill
      <3>. QED  BY <2>1, <2>2, <3>1
    <2>3. CASE prod.at = "filling"
      <3>1. prod' = [prod EXCEPT !.at = "store"]
        BY <2>3 DEF PushFill
      <3>. QED  BY <2>1, <2>3, <3>1
    <2>. QED  BY <2>2, <2>3 DEF PushFill
  <1>2. /\ head' = head /\ tail' = tail /\ droppedCount' = droppedCount /\ cons' = cons
        /\ pushed' = pushed /\ popped' = popped /\ cleared' = cleared
        /\ drops' = drops /\ pops' = pops
    BY DEF PushFill, indices, history
  <1>3. Done' = Done
    BY <1>1, <1>2 DEF Done
  <1>4. head \in Slots /\ tail \in Slots /\ cons.head \in Slots
    BY Ranges
  <1>5. /\ cons.at # "clear" /\ prod.tail = tail /\ Inc(tail) # head
        /\ Taking => cons.head # tail
    BY <1>1, Apart
  <1>6. /\ \A s \in Slots : s # tail => buffer'[s] = buffer[s]
        /\ prod.at = "filling" => buffer'[tail] = pushed
    <2>1. buffer \in [Slots -> Items \cup {Moved, Torn}]
      BY DEF TypeOK
    <2>. QED  BY <1>4, <1>5, <2>1 DEF PushFill, Slot
  <1>7. Taking' <=> Taking
    BY <1>2 DEF Taking, Busy
  <1>8. Places'
    BY <1>1, <1>2, <1>5 DEF Good, Places, Busy, Taking
  <1>9. Contents'
    <2>1. \A s \in Slots :
            Dist(head, s) < Dist(head, tail) /\ ~(cons.at = "store" /\ s = cons.head)
            => buffer'[s] = Done + 1 - Dist(s, tail)
      <3>. SUFFICES ASSUME NEW s \in Slots, Dist(head, s) < Dist(head, tail),
                           ~(cons.at = "store" /\ s = cons.head)
                    PROVE  buffer'[s] = Done + 1 - Dist(s, tail)
        OBVIOUS
      <3>1. s # tail
        BY <1>4, QueueSlots
      <3>. QED  BY <1>5, <1>6, <3>1 DEF Good, Contents
    <2>2. Taking => buffer'[cons.head] = buffer[cons.head]
      BY <1>4, <1>5, <1>6
    <2>3. cons.at = "moving" => Taking
      BY DEF Good, Places
    <2>4. Dist(head, tail) <= Done
      BY <1>5 DEF Good, Contents
    <2>5. /\ Taking => Age(cons.head, tail) <= Done
          /\ Taking /\ cons.at # "store" => buffer'[cons.head] = Done + 1 - Age(cons.head, tail)
          /\ cons.at = "moving" => cons.item = buffer'[cons.head]
          /\ cons.at = "store" => cons.item = Done + 1 - Age(cons.head, tail)
      BY <2>2, <2>3, Zenon DEF Good, Contents
    <2>6. prod'.at = "store" => buffer'[tail] = pushed
      BY <1>1, <1>6
    <2>. QED  BY <1>2, <1>3, <1>7, <2>1, <2>4, <2>5, <2>6 DEF Contents
  <1>10. Delivered'
    BY <1>2, <1>3, <1>7 DEF Good, Delivered
  <1>11. Counted'
    BY <1>2, <1>3 DEF Good, Counted
  <1>. QED  BY <1>8, <1>9, <1>10, <1>11 DEF Good

\* Storing the tail: the item just filled in joins the queue.
LEMMA PushStoreKeeps ==
  ASSUME TypeOK, Good, PushStore, ~raced'
  PROVE  Good'
  <1>1. prod.at = "store" /\ prod'.at = "idle" /\ tail' = Inc(prod.tail)
    <2>1. prod \in [at : {"idle", "drop", "fill", "filling", "store"}, tail : Slots, head : Slots]
      BY DEF TypeOK
    <2>2. prod' = [prod EXCEPT !.at = "idle"]
      BY DEF PushStore
    <2>3. prod'.at = "idle"
      BY <2>1, <2>2
    <2>. QED  BY <2>3 DEF PushStore
  <1>2. /\ buffer' = buffer /\ head' = head /\ droppedCount' = droppedCount /\ cons' = cons
        /\ pushed' = pushed /\ popped' = popped /\ cleared' = cleared
        /\ drops' = drops /\ pops' = pops
    BY DEF PushStore, history
  <1>3. /\ head \in Slots /\ tail \in Slots /\ cons.head \in Slots /\ pushed \in Nat
        /\ Done \in Int
    BY Ranges
  <1>4. Done' = pushed /\ Done' = Done + 1
    BY <1>1, <1>2, <1>3 DEF Done
  <1>5. /\ cons.at # "clear" /\ tail' = Inc(tail) /\ Inc(tail) # head
        /\ Taking => cons.head # tail
    BY <1>1, Apart
  <1>6. tail' \in Slots /\ Dist(head, tail') = Dist(head, tail) + 1
    BY <1>3, <1>5, Distances, IncNext
  <1>7. Dist(head, tail) \in Int /\ Age(cons.head, tail) \in Int /\ Age(cons.head, tail') \in Int
    BY <1>3, <1>6, Distances
  <1>8. Taking => Taking' /\ Age(cons.head, tail') = Age(cons.head, tail) + 1
    <2>1. cons.head # tail => Age(cons.head, tail') = Age(cons.head, tail) + 1
      BY <1>3, <1>5, Distances
    <2>. QED  BY <1>2, <1>5, <2>1 DEF Taking, Busy
  <1>9. Taking' /\ ~Taking => cons.head = head /\ head = tail /\ cons.at = "loaded"
                              /\ Age(cons.head, tail') = 1
    <2>1. Age(tail, tail') = 1
      BY <1>3, <1>5, Distances
    <2>. QED  BY <1>2, <2>1 DEF Taking, Busy, Good, Places
  <1>10. Places'
    <2>1. cons.at \in {"move", "moving", "store"} => Taking'
      BY <1>8 DEF Good, Places
    <2>. QED  BY <1>1, <1>2, <1>5, <2>1 DEF Good, Places, Busy
  <1>11. buffer[tail] = pushed
    BY <1>1 DEF Good, Contents
  <1>12. Contents'
    <2>1. Dist(head, tail) <= Done
      BY <1>5 DEF Good, Contents
    <2>2. Dist(head, tail') <= Done'
      BY <2>1, <1>3, <1>4, <1>6, <1>7
    <2>3. \A s \in Slots :
            Dist(head, s) < Dist(head, tail') /\ ~(cons.at = "store" /\ s = cons.head)
            => buffer[s] = Done' + 1 - Dist(s, tail')
      <3>. SUFFICES ASSUME NEW s \in Slots, Dist(head, s) < Dist(head, tail'),
                           ~(cons.at = "store" /\ s = cons.head)
                    PROVE  buffer[s] = Done' + 1 - Dist(s, tail')
        OBVIOUS
      <3>1. CASE s = tail
        <4>1. Dist(tail, tail') = 1
          BY <1>3, <1>5, <1>6, Distances
        <4>2. Dist(s, tail') = 1 /\ buffer[s] = pushed
          BY <3>1, <4>1, <1>11
        <4>3. pushed = Done' + 1 - 1
          BY <1>3, <1>4
        <4>. QED  BY <4>2, <4>3, Zenon
      <3>2. CASE s # tail
        <4>1. Dist(head, s) < Dist(head, tail) /\ Dist(s, tail') = Dist(s, tail) + 1
          BY <3>2, <1>3, <1>5, QueueSlots
        <4>2. buffer[s] = Done + 1 - Dist(s, tail)
          BY <4>1, <1>5 DEF Good, Contents
        <4>3. Dist(s, tail) \in Int
          BY <1>3, Distances
        <4>. QED  BY <4>1, <4>2, <4>3, <1>3, <1>4
      <3>. QED  BY <3>1, <3>2
    <2>4. Taking' => Age(cons.head, tail') <= Done'
      <3>1. CASE Taking
        <4>1. Age(cons.head, tail) <= Done
          BY <3>1 DEF Good, Contents
        <4>. QED  BY <4>1, <3>1, <1>3, <1>4, <1>7, <1>8
      <3>2. CASE ~Taking
        <4>1. Dist(head, tail) >= 0
          BY <1>3, Distances
        <4>. QED  BY <3>2, <4>1, <2>1, <1>3, <1>4, <1>7, <1>9
      <3>. QED  BY <3>1, <3>2
    <2>5. Taking' /\ cons.at # "store" => buffer[cons.head] = Done' + 1 - Age(cons.head, tail')
      <3>1. CASE Taking
        <4>1. cons.at # "store" => buffer[cons.head] = Done + 1 - Age(cons.head, tail)
          BY <3>1 DEF Good, Contents
        <4>. QED  BY <4>1, <3>1, <1>3, <1>4, <1>7, <1>8
      <3>2. CASE ~Taking
        BY <3>2, <1>3, <1>4, <1>9, <1>11
      <3>. QED  BY <3>1, <3>2
    <2>6. cons.at = "store" => cons.item = Done' + 1 - Age(cons.head, tail')
      <3>1. cons.at = "store" => Taking /\ cons.item = Done + 1 - Age(cons.head, tail)
        BY DEF Good, Contents, Places
      <3>. QED  BY <3>1, <1>3, <1>4, <1>7, <1>8
    <2>7. cons.at = "moving" => cons.item = buffer[cons.head]
      BY DEF Good, Contents
    <2>. QED  BY <1>1, <1>2, <2>2, <2>3, <2>4, <2>5, <2>6, <2>7 DEF Contents
  <1>13. Delivered'
    <2>1. \A i \in DOMAIN popped : /\ popped[i] \in Int
                                   /\ popped[i] <= Done
                                   /\ popped[i] <= Done - Dist(head, tail)
                                   /\ Taking => popped[i] <= Done - Age(cons.head, tail)
      BY <1>5 DEF Good, Delivered, Items
    <2>2. \A i \in DOMAIN popped : /\ popped[i] <= Done'
                                   /\ popped[i] <= Done' - Dist(head, tail')
      BY <2>1, <1>3, <1>4, <1>6, <1>7
    <2>3. Taking' => \A i \in DOMAIN popped : popped[i] <= Done' - Age(cons.head, tail')
      BY <2>1, <1>3, <1>4, <1>7, <1>8, <1>9
    <2>. QED  BY <1>2, <2>2, <2>3 DEF Good, Delivered
  <1>14. Counted'
    <2>. DEFINE n == Len(popped) + droppedCount + cleared.items
    <2>1. Done <= n + Dist(head, tail)
      BY <1>5 DEF Good, Counted
    <2>2. n \in Nat
      BY Ranges
    <2>3. Done' <= n + Dist(head, tail')
      <3>. HIDE DEF n
      <3>. QED  BY <1>3, <1>4, <1>6, <1>7, <2>1, <2>2
    <2>. QED  BY <1>2, <1>5, <2>3 DEF Counted
  <1>. QED  BY <1>10, <1>12, <1>13, <1>14 DEF Good


\* Loading the head: the consumer stands at the oldest item.
LEMMA PopLoadHeadKeeps ==
  ASSUME TypeOK, Good, PopLoadHead, ~raced'
  PROVE  Good'
  <1>1. cons.at = "idle" /\ cons'.at = "loaded" /\ cons'.head = head /\ drops' = 0
    BY DEF PopLoadHead
  <1>2. /\ buffer' = buffer /\ head' = head /\ tail' = tail /\ droppedCount' = droppedCount
        /\ prod' = prod /\ pushed' = pushed /\ popped' = popped /\ cleared' = cleared
        /\ pops' = pops
    BY DEF PopLoadHead, indices
  <1>3. Done' = Done
    BY <1>2 DEF Done
  <1>4. head \in Slots /\ tail \in Slots /\ Done \in Int
    BY Ranges
  <1>5. Taking' => head # tail /\ Age(head, tail) = Dist(head, tail)
    BY <1>1, <1>2, <1>4, Distances DEF Taking, Busy
  <1>6. Places'
    BY <1>1, <1>2 DEF Good, Places, Busy
  <1>7. Contents'
    <2>1. head # tail => buffer[head] = Done + 1 - Dist(head, tail)
      <3>1. Dist(head, head) = 0 /\ Dist(head, tail) \in Nat /\ (Dist(head, tail) = 0 <=> head = tail)
        BY <1>4, Distances
      <3>2. head # tail => Dist(head, head) < Dist(head, tail)
        BY <3>1
      <3>. QED  BY <1>1, <1>4, <3>2 DEF Good, Contents
    <2>2. /\ Dist(head, tail) <= Done
          /\ \A s \in Slots : Dist(head, s) < Dist(head, tail)
                              => buffer[s] = Done + 1 - Dist(s, tail)
          /\ prod.at = "store" => buffer[tail] = pushed
      BY <1>1 DEF Good, Contents
    <2>. QED  BY <1>1, <1>2, <1>3, <1>5, <2>1, <2>2 DEF Contents
  <1>8. Delivered'
    <2>1. \A i \in DOMAIN popped : popped[i] <= Done - Dist(head, tail)
      BY <1>1 DEF Good, Delivered
    <2>. QED  BY <1>1, <1>2, <1>3, <1>5, <2>1 DEF Good, Delivered
  <1>9. Counted'
    BY <1>1, <1>2, <1>3 DEF Good, Counted
  <1>. QED  BY <1>6, <1>7, <1>8, <1>9 DEF Good

\* Loading the tail: an empty ring ends the Pop, and so does a ring that a drop
\* has filled up to the consumer's slot.
LEMMA PopLoadTailKeeps ==
  ASSUME TypeOK, Good, PopLoadTail, ~raced'
  PROVE  Good'
  <1>1. /\ cons.at = "loaded" /\ cons'.head = cons.head /\ cons'.item = cons.item
        /\ cons'.at = IF cons.head = tail THEN "idle" ELSE "move"
    <2>1. cons \in [at : {"idle", "loaded", "move", "moving", "store", "clear"}, head : Slots,
                    item : Items \cup {Moved, Torn}]
      BY DEF TypeOK
    <2>. DEFINE a == IF cons.head = tail THEN "idle" ELSE "move"
    <2>2. cons' = [cons EXCEPT !.at = a]
      BY DEF PopLoadTail
    <2>3. cons'.at = a /\ cons'.head = cons.head /\ cons'.item = cons.item
      <3>. HIDE DEF a
      <3>. QED  BY <2>1, <2>2
    <2>. QED  BY <2>3 DEF PopLoadTail
  <1>2. /\ buffer' = buffer /\ head' = head /\ tail' = tail /\ droppedCount' = droppedCount
        /\ prod' = prod /\ pushed' = pushed /\ popped' = popped /\ cleared' = cleared
        /\ drops' = drops /\ pops' = pops
    BY DEF PopLoadTail, indices, history
  <1>3. Done' = Done
    BY <1>2 DEF Done
  <1>4. Taking' => Taking
    BY <1>1, <1>2 DEF Taking, Busy
  <1>5. Places'
    BY <1>1, <1>2 DEF Good, Places, Busy, Taking
  <1>6. Contents'
    BY <1>1, <1>2, <1>3, <1>4 DEF Good, Contents
  <1>7. Delivered'
    BY <1>1, <1>2, <1>3, <1>4 DEF Good, Delivered
  <1>8. Counted'
    BY <1>1, <1>2, <1>3 DEF Good, Counted
  <1>. QED  BY <1>5, <1>6, <1>7, <1>8 DEF Good

\* Moving the item out: nothing but the consumer's own slot changes, and that
\* is the oldest of the queue or no longer in it.
LEMMA PopMoveKeeps ==
  ASSUME TypeOK, Good, PopMove, ~raced'
  PROVE  Good'
  <1>. DEFINE it == Done + 1 - Age(cons.head, tail)
  <1>1. cons \in [at : {"idle", "loaded", "move", "moving", "store", "clear"}, head : Slots,
                  item : Items \cup {Moved, Torn}]
    BY DEF TypeOK
  <1>2. /\ head' = head /\ tail' = tail /\ droppedCount' = droppedCount
        /\ prod' = prod /\ pushed' = pushed /\ popped' = popped /\ cleared' = cleared
        /\ drops' = drops /\ pops' = pops
    BY DEF PopMove, indices, history
  <1>3. Done' = Done
    BY <1>2 DEF Done
  <1>4. cons.at \in {"move", "moving"} /\ Taking /\ buffer[cons.head] = it
    BY DEF PopMove, Good, Places, Contents
  <1>5. /\ cons'.head = cons.head
        /\ cons'.at = IF cons.at = "move" THEN "moving" ELSE "store"
        /\ cons'.item = it
        /\ cons.at = "move" => buffer' = buffer
        /\ cons.at = "moving" => buffer' = [buffer EXCEPT ![cons.head] = Moved]
    <2>1. CASE cons.at = "move"
      <3>1. cons' = [cons EXCEPT !.at = "moving", !.item = buffer[cons.head]] /\ buffer' = buffer
        BY <2>1 DEF PopMove
      <3>2. cons'.at = "moving" /\ cons'.head = cons.head /\ cons'.item = buffer[cons.head]
        BY <1>1, <3>1
      <3>. QED  BY <2>1, <3>1, <3>2, <1>4
    <2>2. CASE cons.at = "moving"
      <3>1. cons.item = buffer[cons.head]
        BY <2>2 DEF Good, Contents
      <3>2. cons' = [cons EXCEPT !.at = "store",
                                 !.item = IF buffer[cons.head] = @ THEN @ ELSE Torn]
        BY <2>2 DEF PopMove
      <3>3. cons' = [cons EXCEPT !.at = "store", !.item = buffer[cons.head]]
        BY <3>1, <3>2
      <3>4. cons'.at = "store" /\ cons'.head = cons.head /\ cons'.item = buffer[cons.head]
        BY <1>1, <3>3
      <3>5. buffer' = [buffer EXCEPT ![cons.head] = Moved]
        BY <2>2 DEF PopMove
      <3>. QED  BY <2>2, <3>4, <3>5, <1>4
    <2>. QED  BY <2>1, <2>2, <1>4
  <1>6. head \in Slots /\ tail \in Slots /\ cons.head \in Slots
    BY Ranges
  <1>7. \A s \in Slots : s # cons.head => buffer'[s] = buffer[s]
    <2>1. buffer \in [Slots -> Items \cup {Moved, Torn}]
      BY DEF TypeOK
    <2>. QED  BY <1>4, <1>5, <2>1
  <1>8. Taking'
    BY <1>2, <1>4, <1>5 DEF Taking, Busy
  <1>9. Places'
    BY <1>2, <1>4, <1>5, <1>8 DEF Good, Places, Busy
  <1>10. Contents'
    <2>1. Dist(head, tail) <= Done /\ Age(cons.head, tail) <= Done
      BY <1>4 DEF Good, Contents
    <2>2. \A s \in Slots :
            Dist(head, s) < Dist(head, tail) /\ ~(cons'.at = "store" /\ s = cons.head)
            => buffer'[s] = Done + 1 - Dist(s, tail)
      <3>. SUFFICES ASSUME NEW s \in Slots, Dist(head, s) < Dist(head, tail),
                           ~(cons'.at = "store" /\ s = cons.head)
                    PROVE  buffer'[s] = Done + 1 - Dist(s, tail)
        OBVIOUS
      <3>1. buffer[s] = Done + 1 - Dist(s, tail)
        BY <1>4 DEF Good, Contents
      <3>. QED  BY <3>1, <1>4, <1>5, <1>7
    <2>3. prod.at = "store" => buffer'[tail] = pushed
      <3>1. prod.at = "store" => cons.head # tail /\ buffer[tail] = pushed
        BY <1>4, Apart DEF Good, Contents
      <3>. QED  BY <3>1, <1>6, <1>7
    <2>4. cons'.at = "moving" => cons'.item = buffer'[cons.head] /\ buffer'[cons.head] = it
      BY <1>4, <1>5
    <2>5. cons'.at \in {"moving", "store"} /\ cons'.item = it
      BY <1>4, <1>5
    <2>. QED  BY <1>2, <1>3, <1>5, <2>1, <2>2, <2>3, <2>4, <2>5 DEF Contents
  <1>11. Delivered'
    BY <1>2, <1>3, <1>4, <1>5 DEF Good, Delivered
  <1>12. Counted'
    BY <1>2, <1>3, <1>4, <1>5 DEF Good, Counted
  <1>. QED  BY <1>9, <1>10, <1>11, <1>12 DEF Good

\* Storing the head: the item is delivered, and what stays queued is newer.
LEMMA PopStoreKeeps ==
  ASSUME TypeOK, Good, PopStore, ~raced'
  PROVE  Good'
  <1>. DEFINE it == Done + 1 - Age(cons.head, tail)
  <1>1. /\ cons.at = "store" /\ cons'.at = "idle" /\ head' = Inc(cons.head)
        /\ popped' = Append(popped, cons.item)
        /\ pops' = IF prod.at = "drop" THEN pops + 1 ELSE pops
    <2>1. cons \in [at : {"idle", "loaded", "move", "moving", "store", "clear"}, head : Slots,
                    item : Items \cup {Moved, Torn}]
      BY DEF TypeOK
    <2>2. cons' = [cons EXCEPT !.at = "idle"]
      BY DEF PopStore
    <2>3. cons'.at = "idle"
      BY <2>1, <2>2
    <2>. QED  BY <2>3 DEF PopStore
  <1>2. /\ buffer' = buffer /\ tail' = tail /\ droppedCount' = droppedCount
        /\ prod' = prod /\ pushed' = pushed /\ cleared' = cleared /\ drops' = drops
    BY DEF PopStore
  <1>3. Done' = Done
    BY <1>2 DEF Done
  <1>4. /\ head \in Slots /\ tail \in Slots /\ cons.head \in Slots /\ Done \in Int
        /\ pushed \in Nat /\ pops \in Nat
    BY Ranges
  <1>5. Taking /\ cons.item = it /\ (head = cons.head \/ head = Inc(cons.head))
    BY <1>1 DEF Good, Places, Contents, Busy
  <1>6. Age(cons.head, tail) \in 1 .. Capacity /\ Age(cons.head, tail) <= Done
    BY <1>4, <1>5, Distances DEF Good, Contents
  <1>7. head' \in Slots /\ Dist(head', tail) = Age(cons.head, tail) - 1
    BY <1>1, <1>4, Distances, IncNext
  <1>8. head = cons.head => head # tail /\ Age(cons.head, tail) = Dist(head, tail)
    BY <1>4, <1>5, Distances DEF Taking
  <1>9. it \in Items /\ it \in Int /\ it <= Done /\ it = Done - Dist(head', tail)
    <2>1. Done <= MaxPushes
      <3>1. pushed \in 0 .. MaxPushes
        BY DEF TypeOK
      <3>. QED  BY <3>1, RingAssumption DEF Done
    <2>2. Capacity \in Int /\ MaxPushes \in Int
      BY RingAssumption
    <2>. QED  BY <1>4, <1>6, <1>7, <2>1, <2>2 DEF Items
  <1>10. Places'
    <2>1. prod.at \in {"fill", "filling", "store"} => Inc(tail) # head'
      <3>1. cons.head # tail => Inc(cons.head) # Inc(tail)
        BY <1>4, IncNext, RingAssumption DEF Slots
      <3>. QED  BY <1>1, <1>5, <3>1, Apart
    <2>2. prod.at = "drop" => (pops' = 1 => head' \in {prod.head, Inc(prod.head)}) /\ pops' # 0
      BY <1>1, <1>4, <1>5 DEF Good, Places
    <2>. QED  BY <1>1, <1>2, <2>1, <2>2 DEF Good, Places, Busy
  <1>11. Contents'
    <2>1. Dist(head', tail) <= Done
      BY <1>4, <1>6, <1>7
    <2>2. \A s \in Slots : Dist(head', s) < Dist(head', tail)
                           => buffer[s] = Done + 1 - Dist(s, tail)
      <3>. SUFFICES ASSUME NEW s \in Slots, Dist(head', s) < Dist(head', tail)
                    PROVE  buffer[s] = Done + 1 - Dist(s, tail)
        OBVIOUS
      <3>1. s # cons.head
        BY <1>1, <1>4, <1>7, QueueSlots
      <3>2. Dist(head, s) < Dist(head, tail)
        BY <1>1, <1>4, <1>5, <1>8, QueueSlots
      <3>. QED  BY <1>1, <3>1, <3>2 DEF Good, Contents
    <2>3. prod.at = "store" => buffer[tail] = pushed
      BY DEF Good, Contents
    <2>. QED  BY <1>1, <1>2, <1>3, <2>1, <2>2, <2>3 DEF Contents, Taking, Busy
  <1>12. popped \in Seq(Items \cup {Moved, Torn}) /\ Len(popped) \in Nat
    BY Ranges DEF TypeOK
  <1>13. /\ DOMAIN popped = 1 .. Len(popped) /\ DOMAIN popped' = 1 .. Len(popped) + 1
         /\ \A i \in DOMAIN popped : popped'[i] = popped[i]
         /\ popped'[Len(popped) + 1] = cons.item
         /\ Len(popped') = Len(popped) + 1
    <2>1. cons.item \in Items \cup {Moved, Torn}
      BY DEF TypeOK
    <2>. QED  BY <1>1, <1>12, <2>1
  <1>. HIDE DEF it
  <1>14. Delivered'
    <2>1. \A i \in DOMAIN popped : popped[i] \in Items /\ popped[i] <= Done /\ popped[i] < it
      <3>1. \A i \in DOMAIN popped : /\ popped[i] \in Items /\ popped[i] \in Int
                                     /\ popped[i] <= Done
                                     /\ popped[i] <= Done - Age(cons.head, tail)
        BY <1>5 DEF Good, Delivered, Items
      <3>. QED  BY <3>1, <1>4, <1>6, <1>9 DEF it
    <2>2. \A i \in DOMAIN popped' : i \in DOMAIN popped \/ i = Len(popped) + 1
      BY <1>12, <1>13
    <2>3. \A i \in DOMAIN popped' : popped'[i] \in Items /\ popped'[i] <= Done /\ popped'[i] <= it
      <3>1. \A i \in DOMAIN popped : popped[i] <= it
        BY <2>1, <1>9 DEF Items
      <3>. QED  BY <2>1, <2>2, <3>1, <1>5, <1>9, <1>13
    <2>4. \A i, j \in DOMAIN popped' : i < j => popped'[i] < popped'[j]
      <3>. SUFFICES ASSUME NEW i \in DOMAIN popped', NEW j \in DOMAIN popped', i < j
                    PROVE  popped'[i] < popped'[j]
        OBVIOUS
      <3>1. i \in DOMAIN popped
        BY <1>12, <1>13
      <3>2. CASE j \in DOMAIN popped
        BY <3>1, <3>2, <1>13 DEF Good, Delivered
      <3>3. CASE j = Len(popped) + 1
        BY <3>1, <3>3, <2>1, <1>5, <1>13
      <3>. QED  BY <3>2, <3>3, <2>2
    <2>. QED  BY <1>1, <1>2, <1>3, <1>9, <2>3, <2>4 DEF Delivered, Taking, Busy
  <1>15. Counted'
    <2>. DEFINE n == Len(popped)
    <2>1. Done <= n + droppedCount + cleared.items + Dist(head, tail)
      BY <1>1 DEF Good, Counted
    <2>2. n \in Nat /\ droppedCount \in Nat /\ cleared.items \in Nat
      BY Ranges
    <2>3. Dist(head, tail) <= Dist(head', tail) + 1 /\ Dist(head, tail) \in Int
          /\ Dist(head', tail) \in Int
      <3>1. Dist(head, tail) \in Int /\ Dist(head', tail) \in Int
        BY <1>4, <1>7, Distances
      <3>2. head = cons.head => Dist(head, tail) = Dist(head', tail) + 1
        BY <1>6, <1>7, <1>8
      <3>3. head = head' => Dist(head, tail) <= Dist(head', tail) + 1
        BY <3>1
      <3>. QED  BY <1>1, <1>5, <3>1, <3>2, <3>3
    <2>4. Done <= (n + 1) + droppedCount + cleared.items + Dist(head', tail)
      <3>. DEFINE c == cleared.items
      <3>. HIDE DEF n, c
      <3>. QED  BY <2>1, <2>2, <2>3, <1>4 DEF c
    <2>. QED  BY <1>1, <1>2, <1>3, <1>13, <2>4 DEF Counted
  <1>. QED  BY <1>10, <1>11, <1>14, <1>15 DEF Good

\* Clearing, with no Push beside it: what was queued counts as cleared.
LEMMA ClearKeeps ==
  ASSUME TypeOK, Good, Clear, ~raced'
  PROVE  Good'
  <1>1. cons \in [at : {"idle", "loaded", "move", "moving", "store", "clear"}, head : Slots,
                  item : Items \cup {Moved, Torn}]
    BY DEF TypeOK
  <1>2. /\ buffer' = buffer /\ droppedCount' = droppedCount /\ prod' = prod /\ pushed' = pushed
        /\ popped' = popped /\ drops' = drops /\ pops' = pops
    BY DEF Clear, history
  <1>3. Done' = Done
    BY <1>2 DEF Done
  <1>4. /\ head \in Slots /\ tail \in Slots /\ Done \in Int /\ droppedCount \in Nat
        /\ cleared.items \in Nat /\ Len(popped) \in Nat /\ pushed \in Nat
    BY Ranges
  <1>5. CASE cons.at = "idle"
    <2>1. /\ prod.at = "idle" /\ head' = 0 /\ tail' = tail
          /\ cleared' = [calls |-> cleared.calls + 1, items |-> cleared.items + Size]
      BY <1>5 DEF Clear
    <2>2. cons' = [cons EXCEPT !.at = "clear"]
      BY <1>5 DEF Clear
    <2>3. cons'.at = "clear"
      BY <1>1, <2>2
    <2>4. cleared'.items = cleared.items + Dist(head, tail)
      BY <2>1 DEF Size, Dist
    <2>5. Places'
      BY <1>2, <2>1, <2>3 DEF Good, Places, Busy
    <2>6. Contents'
      BY <1>2, <2>1, <2>3 DEF Contents, Taking, Busy
    <2>7. Delivered'
      BY <1>2, <1>3, <2>3 DEF Good, Delivered, Taking, Busy
    <2>8. Counted'
      <3>1. Done <= Len(popped) + droppedCount + cleared.items + Dist(head, tail)
        BY <1>5 DEF Good, Counted
      <3>2. Dist(head, tail) \in Nat
        BY <1>4, Distances
      <3>3. Done <= Len(popped) + droppedCount + (cleared.items + Dist(head, tail)) + 0
        BY <3>1, <3>2, <1>4
      <3>. QED  BY <3>3, <1>2, <1>3, <2>3, <2>4 DEF Counted
    <2>. QED  BY <2>5, <2>6, <2>7, <2>8 DEF Good
  <1>6. CASE cons.at = "clear"
    <2>1. head' = head /\ tail' = 0 /\ cleared' = cleared
      BY <1>6 DEF Clear, history
    <2>2. cons' = [cons EXCEPT !.at = "idle"]
      BY <1>6 DEF Clear
    <2>3. cons'.at = "idle"
      BY <1>1, <2>2
    <2>4. prod.at = "idle" /\ head = 0 /\ Done = pushed
      BY <1>6 DEF Good, Places, Done
    <2>5. Dist(head', tail') = 0 /\ \A s \in Slots : Dist(0, s) \in Nat
      <3>1. 0 \in Slots
        BY RingAssumption DEF Slots
      <3>. QED  BY <2>1, <2>4, <3>1, Distances
    <2>6. Places'
      BY <1>2, <2>1, <2>3, <2>4 DEF Good, Places, Busy
    <2>7. Contents'
      BY <1>2, <1>3, <1>4, <2>1, <2>3, <2>4, <2>5 DEF Contents, Taking, Busy
    <2>8. Delivered'
      <3>1. \A i \in DOMAIN popped : popped[i] <= Done - 0
        BY <1>4 DEF Good, Delivered
      <3>. QED  BY <1>2, <1>3, <2>3, <2>5, <3>1 DEF Good, Delivered, Taking, Busy
    <2>9. Counted'
      BY <1>2, <1>3, <1>6, <2>1, <2>3, <2>5 DEF Good, Counted
    <2>. QED  BY <2>6, <2>7, <2>8, <2>9 DEF Good
  <1>. QED  BY <1>5, <1>6 DEF Clear


\* Every step of either thread keeps what holds while no two overlaps have met.
LEMMA GoodKept ==
  ASSUME TypeOK, Good, [Next]_vars, ~raced'
  PROVE  Good'
  <1>1. CASE PushLoad
    BY <1>1, PushLoadKeeps
  <1>2. CASE PushDrop
    BY <1>2, PushDropKeeps
  <1>3. CASE PushFill
    BY <1>3, PushFillKeeps
  <1>4. CASE PushStore
    BY <1>4, PushStoreKeeps
  <1>5. CASE PopLoadHead
    BY <1>5, PopLoadHeadKeeps
  <1>6. CASE PopLoadTail
    BY <1>6, PopLoadTailKeeps
  <1>7. CASE PopMove
    BY <1>7, PopMoveKeeps
  <1>8. CASE PopStore
    BY <1>8, PopStoreKeeps
  <1>9. CASE Clear
    BY <1>9, ClearKeeps
  <1>10. CASE UNCHANGED vars
    BY <1>10 DEF vars, Good, Places, Contents, Delivered, Counted, Taking, Busy, Done
  <1>. QED  BY <1>1, <1>2, <1>3, <1>4, <1>5, <1>6, <1>7, <1>8, <1>9, <1>10 DEF Next

\* Two overlaps that have met are never forgotten.
LEMMA RacedStays == [Next]_vars /\ ~raced' => ~raced
  BY DEF Next, PushLoad, PushDrop, PushFill, PushStore, PopLoadHead, PopLoadTail, PopMove,
         PopStore, Clear, history, vars

-----------------------------------------------------------------------------
(* Theorems *)

\* The inductive invariant holds in every reachable state of the ring, whatever
\* its capacity and however its two threads interleave.
THEOREM RingCorrect == Spec => []IInv
  <1>1. IInv /\ [Next]_vars => IInv'
    <2>. SUFFICES ASSUME IInv, [Next]_vars PROVE IInv'
      OBVIOUS
    <2>1. TypeOK /\ TypeOK'
      BY TypesKept DEF IInv
    <2>2. ~raced' => Good'
      BY <2>1, RacedStays, GoodKept DEF IInv
    <2>. QED  BY <2>1, <2>2 DEF IInv
  <1>. QED  BY <1>1, InitHolds, PTL DEF Spec

\* Types of the ring: both indices stay inside of the buffer, raced or not.
THEOREM RingTypeCorrect == Spec => []TypeOK
  <1>1. IInv => TypeOK
    BY DEF IInv
  <1>. QED  BY <1>1, RingCorrect, PTL

\* Pop returns whole items, each once and in the order of Push, for every
\* capacity, although an overflowing Push stores the consumer's index.
THEOREM RingInOrder == Spec => []PoppedInOrder
  <1>1. IInv => PoppedInOrder
    BY DEF IInv, Good, Delivered, PoppedInOrder
  <1>. QED  BY <1>1, RingCorrect, PTL

\* Stale drop policy: at rest the ring holds the newest items, in order.
THEOREM RingKeepsNewest == Spec => []NewestKept
  <1>1. IInv => NewestKept
    <2>. SUFFICES ASSUME IInv, AtRest, ~raced, NEW i \in 0 .. Size - 1
                  PROVE  buffer[(head + i) % Capacity] = pushed - Size + 1 + i
      BY DEF NewestKept
    <2>. DEFINE s == (head + i) % Capacity
    <2>1. TypeOK /\ Good
      BY DEF IInv
    <2>2. head \in Slots /\ tail \in Slots /\ pushed \in Nat
      BY <2>1, Ranges
    <2>3. Size = Dist(head, tail) /\ Size \in 0 .. Capacity - 1
      BY <2>2, Distances DEF Size, Dist
    <2>4. s = IF head + i < Capacity THEN head + i ELSE head + i - Capacity
      <3>1. i \in 0 .. Capacity - 1
        BY <2>3, RingAssumption
      <3>. QED  BY <2>2, <3>1, SlotAfter
    <2>5. /\ s \in Slots /\ Dist(head, s) < Dist(head, tail)
          /\ Dist(s, tail) = Size - i
      <3>. HIDE DEF s
      <3>. QED  BY <2>2, <2>3, <2>4, RingAssumption DEF Slots, Dist
    <2>6. Done = pushed /\ cons.at = "idle"
      BY DEF AtRest, Done
    <2>7. buffer[s] = pushed + 1 - Dist(s, tail)
      <3>. HIDE DEF s
      <3>. QED  BY <2>1, <2>5, <2>6 DEF Good, Contents
    <2>8. pushed + 1 - Dist(s, tail) = pushed - Size + 1 + i
      <3>. HIDE DEF s
      <3>. QED  BY <2>2, <2>3, <2>5
    <2>. QED  BY <2>7, <2>8
  <1>. QED  BY <1>1, RingCorrect, PTL

\* Every item that is neither delivered, queued nor cleared is in droppedCount_.
THEOREM RingCountsLosses == Spec => []LossesAreCounted
  <1>1. IInv => LossesAreCounted
    <2>. SUFFICES ASSUME IInv, AtRest, ~raced
                  PROVE  pushed <= Len(popped) + Size + droppedCount + cleared.items
      BY DEF LossesAreCounted
    <2>1. TypeOK /\ Good
      BY DEF IInv
    <2>2. Size = Dist(head, tail)
      BY DEF Size, Dist
    <2>3. /\ head \in Slots /\ tail \in Slots /\ pushed \in Nat
          /\ droppedCount \in Nat /\ cleared.items \in Nat /\ Len(popped) \in Nat
      BY <2>1, Ranges
    <2>4. Dist(head, tail) \in Nat
      BY <2>3, Distances
    <2>5. pushed <= Len(popped) + droppedCount + cleared.items + Dist(head, tail)
      BY <2>1 DEF AtRest, Good, Counted, Done
    <2>. DEFINE n == Len(popped)  c == cleared.items
    <2>6. pushed <= n + Dist(head, tail) + droppedCount + c
      <3>1. n \in Nat /\ c \in Nat /\ pushed <= n + droppedCount + c + Dist(head, tail)
        BY <2>3, <2>5
      <3>. HIDE DEF n, c
      <3>. QED  BY <3>1, <2>3, <2>4
    <2>. QED  BY <2>2, <2>6
  <1>. QED  BY <1>1, RingCorrect, PTL

=============================================================================
