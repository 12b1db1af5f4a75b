------------------------------ MODULE RingBuffer ------------------------------
(***************************************************************************)
(* LockFreeRingBuffer: one producer thread calls Push, one consumer thread *)
(* calls Pop and Clear, and no lock is taken.  A load or a store that the  *)
(* other thread can come between is a step of its own; filling a slot and  *)
(* moving an item out of one take two steps, so that the two threads can   *)
(* meet in a slot.                                                         *)
(*                                                                         *)
(* head_ is meant to be the consumer's, but an overflowing Push stores it  *)
(* too.  One such overlap is harmless: both threads store the same value.  *)
(* Two in one call are not, and history variable raced remembers them; the *)
(* properties say what holds as long as that has not happened.             *)
(*                                                                         *)
(* Items are numbered in the order they are pushed.                        *)
(***************************************************************************)
EXTENDS Integers, Sequences

CONSTANTS
  Capacity,      \* slots of the ring, of which one stays free
  MaxPushes,     \* bound: items pushed
  MaxClears      \* bound: calls of Clear

ASSUME RingAssumption ==
  /\ Capacity \in Nat \ {0, 1}
  /\ MaxPushes \in Nat /\ MaxClears \in Nat

VARIABLES
  buffer,        \* slot -> item, Moved or Torn
  head, tail,
  droppedCount,
  prod,          \* the producer: where it is in Push, the tail and head it loaded
  cons,          \* the consumer: where it is, the head it loaded, its item
  pushed,        \* history: calls of Push
  popped,        \* history: what Pop returned, in order
  cleared,       \* history: calls of Clear, and items they threw away
  drops,         \* history: overflow drops since the consumer's call began
  pops,          \* history: Pops that ended since the producer loaded head_
  raced          \* history: more than one of them met in one call

vars == <<buffer, head, tail, droppedCount, prod, cons, pushed, popped, cleared,
          drops, pops, raced>>

indices == <<head, tail, droppedCount>>
history == <<pushed, popped, cleared, drops, pops, raced>>

Slots == 0 .. Capacity - 1
Moved == 0       \* never filled, or moved from
Torn  == -1      \* read or written by both threads at once
Items == 1 .. MaxPushes

\* Mutant: the index does not wrap.
IncUnwrapped(i) == i + 1

Inc(i) == (i + 1) % Capacity

\* Mutant: a ring with one free slot is not full.
FullNever(t, h) == FALSE

Full(t, h) == Inc(t) = h

\* Mutant: the slot is chosen after the index has moved on.
SlotAdvanced(p) == Inc(p.tail)

\* The slot a Push fills.
Slot(p) == p.tail

\* Size(), as a thread at rest sees it; IsEmpty() is Size = 0.
Size == IF tail >= head THEN tail - head ELSE Capacity - (head - tail)

Init ==
  /\ buffer = [i \in Slots |-> Moved]
  /\ head = 0 /\ tail = 0 /\ droppedCount = 0
  /\ prod = [at |-> "idle", tail |-> 0, head |-> 0]
  /\ cons = [at |-> "idle", head |-> 0, item |-> Moved]
  /\ pushed = 0 /\ popped = <<>> /\ cleared = [calls |-> 0, items |-> 0]
  /\ drops = 0 /\ pops = 0 /\ raced = FALSE

-----------------------------------------------------------------------------
(* Push: load both indices; when the ring is full store head_ and count the *)
(* drop; fill the slot; store tail_.                                        *)

\* The two loads are one step: only the producer stores tail_, so its value is
\* still the same at the load of head_, unless Clear is in between, and a Push
\* beside a Clear is a race in any case.
PushLoad ==
  /\ prod.at = "idle" /\ pushed < MaxPushes
  /\ prod' = [at |-> IF Full(tail, head) THEN "drop" ELSE "fill", tail |-> tail, head |-> head]
  /\ pushed' = pushed + 1 /\ pops' = 0
  /\ raced' = (raced \/ cons.at = "clear")
  /\ UNCHANGED <<buffer, indices, cons, popped, cleared, drops>>

PushDrop ==
  /\ prod.at = "drop"
  /\ head' = Inc(prod.head)
  /\ droppedCount' = droppedCount + 1
  /\ prod' = [prod EXCEPT !.at = "fill"]
  /\ drops' = IF cons.at = "idle" THEN drops ELSE drops + 1
  /\ raced' = (raced \/ drops' > 1 \/ pops > 1)
  /\ UNCHANGED <<buffer, tail, cons, pushed, popped, cleared, pops>>

PushFill ==
  /\ \/ /\ prod.at = "fill"
        /\ buffer' = [buffer EXCEPT ![Slot(prod)] = Torn]
        /\ prod' = [prod EXCEPT !.at = "filling"]
     \/ /\ prod.at = "filling"
        /\ buffer' = [buffer EXCEPT ![Slot(prod)] = pushed]
        /\ prod' = [prod EXCEPT !.at = "store"]
  /\ UNCHANGED <<indices, cons, history>>

PushStore ==
  /\ prod.at = "store"
  /\ tail' = Inc(prod.tail)
  /\ prod' = [prod EXCEPT !.at = "idle"]
  /\ UNCHANGED <<buffer, head, droppedCount, cons, history>>

-----------------------------------------------------------------------------
(* Pop: load head_, load tail_, move the item out, store head_.             *)

PopLoadHead ==
  /\ cons.at = "idle"
  /\ cons' = [at |-> "loaded", head |-> head, item |-> Moved]
  /\ drops' = 0
  /\ UNCHANGED <<buffer, indices, prod, pushed, popped, cleared, pops, raced>>

\* Mutant: an empty ring is not noticed.
PopLoadTailUnchecked ==
  /\ cons.at = "loaded"
  /\ cons' = [cons EXCEPT !.at = "move"]
  /\ UNCHANGED <<buffer, indices, prod, history>>

PopLoadTail ==
  /\ cons.at = "loaded"
  /\ cons' = [cons EXCEPT !.at = IF cons.head = tail THEN "idle" ELSE "move"]
  /\ UNCHANGED <<buffer, indices, prod, history>>

\* An item that changes while it is moved out is torn.
PopMove ==
  /\ \/ /\ cons.at = "move"
        /\ cons' = [cons EXCEPT !.at = "moving", !.item = buffer[cons.head]]
        /\ UNCHANGED buffer
     \/ /\ cons.at = "moving"
        /\ cons' = [cons EXCEPT !.at = "store",
                                !.item = IF buffer[cons.head] = @ THEN @ ELSE Torn]
        /\ buffer' = [buffer EXCEPT ![cons.head] = Moved]
  /\ UNCHANGED <<indices, prod, history>>

PopStore ==
  /\ cons.at = "store"
  /\ head' = Inc(cons.head)
  /\ popped' = Append(popped, cons.item)
  /\ cons' = [cons EXCEPT !.at = "idle"]
  /\ pops' = IF prod.at = "drop" THEN pops + 1 ELSE pops
  /\ UNCHANGED <<buffer, tail, droppedCount, prod, pushed, cleared, drops, raced>>

\* Clear stores both indices, one after the other.  A Push beside it is a race.
Clear ==
  \/ /\ cons.at = "idle" /\ cleared.calls < MaxClears
     /\ cleared' = [calls |-> cleared.calls + 1, items |-> cleared.items + Size]
     /\ head' = 0
     /\ cons' = [cons EXCEPT !.at = "clear"]
     /\ raced' = (raced \/ prod.at # "idle")
     /\ UNCHANGED <<buffer, tail, droppedCount, prod, pushed, popped, drops, pops>>
  \/ /\ cons.at = "clear"
     /\ tail' = 0
     /\ cons' = [cons EXCEPT !.at = "idle"]
     /\ UNCHANGED <<buffer, head, droppedCount, prod, history>>

Next ==
  \/ PushLoad \/ PushDrop \/ PushFill \/ PushStore
  \/ PopLoadHead \/ PopLoadTail \/ PopMove \/ PopStore
  \/ Clear

Spec == Init /\ [][Next]_vars

-----------------------------------------------------------------------------
(* Properties *)

AtRest == prod.at = "idle" /\ cons.at = "idle"

TypeOK ==
  /\ buffer \in [Slots -> Items \cup {Moved, Torn}]
  /\ head \in Slots /\ tail \in Slots /\ droppedCount \in Nat
  /\ prod \in [at : {"idle", "drop", "fill", "filling", "store"}, tail : Slots, head : Slots]
  /\ cons \in [at : {"idle", "loaded", "move", "moving", "store", "clear"}, head : Slots,
               item : Items \cup {Moved, Torn}]
  /\ pushed \in 0 .. MaxPushes /\ popped \in Seq(Items \cup {Moved, Torn})
  /\ cleared \in [calls : 0 .. MaxClears, items : Nat]
  /\ drops \in Nat /\ pops \in Nat /\ raced \in BOOLEAN

\* Until two overlaps meet in one call, Pop returns whole items, each once, in
\* the order they were pushed, although the producer may move head_ under it.
PoppedInOrder ==
  ~raced => /\ \A i \in DOMAIN popped : popped[i] \in Items
            /\ \A i, j \in DOMAIN popped : i < j => popped[i] < popped[j]

\* Stale drop policy: at rest, and as long as no two overlaps met, the ring
\* holds the newest items, whole, in order, and nothing else.
NewestKept ==
  AtRest /\ ~raced =>
    \A i \in 0 .. Size - 1 : buffer[(head + i) % Capacity] = pushed - Size + 1 + i

\* Every item that is neither delivered, queued nor cleared was counted as
\* dropped.  (Not conversely: an item that Pop takes while Push drops it is
\* counted and delivered.)
LossesAreCounted ==
  AtRest /\ ~raced => pushed <= Len(popped) + Size + droppedCount + cleared.items

=============================================================================
