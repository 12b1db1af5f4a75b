---------------------------- MODULE ReplayFilter ----------------------------
(***************************************************************************)
(* The sliding-window replay filter of the media path                      *)
(* (native/core, class ReplayFilter).  A filter is a record: seenAny_,     *)
(* highest_, and the 64-bit word bitmap_[0] as the set of the positions of *)
(* its one-bits.  Bit d stands for sequence number highest_ - d.           *)
(* Sequence numbers are taken within one period of the 32-bit counter.     *)
(***************************************************************************)
EXTENDS Integers

CONSTANT kWindow   \* width of the window, 64 in the code

ASSUME WindowAssumption == kWindow \in Nat \ {0}

Bits == 0 .. (kWindow - 1)

Filters == [seenAny : BOOLEAN, highest : Nat, bitmap : SUBSET Bits]

\* ReplayFilter{}: what the constructor and every reset leave.
FreshFilter == [seenAny |-> FALSE, highest |-> 0, bitmap |-> {}]

\* Mutant: the shifted bits are not cut to the width of the word.
ShiftUncut(bitmap, advance) == {d + advance : d \in bitmap}

\* bitmap_[0] <<= advance: bits pushed past the word are lost.
ShiftLeft(bitmap, advance) == {d \in Bits : d - advance \in bitmap}

\* Mutant: the window test is off by one, and a sequence one place behind
\* the window shifts out of the word and looks unseen.
AcceptsOnePastWindow(f, sequence) ==
  \/ ~f.seenAny
  \/ sequence > f.highest
  \/ f.highest - sequence <= kWindow /\ f.highest - sequence \notin f.bitmap

\* The verdict of Accept: fresh, or a replay.
Accepts(f, sequence) ==
  \/ ~f.seenAny
  \/ sequence > f.highest
  \/ f.highest - sequence < kWindow /\ f.highest - sequence \notin f.bitmap

\* What Accept leaves in the filter when it says yes.
Mark(f, sequence) ==
  CASE ~f.seenAny ->
         [seenAny |-> TRUE, highest |-> sequence, bitmap |-> {0}]
    [] f.seenAny /\ sequence > f.highest ->
         [f EXCEPT !.highest = sequence,
                   !.bitmap  = ShiftLeft(@, sequence - f.highest) \cup {0}]
    [] f.seenAny /\ sequence <= f.highest ->
         [f EXCEPT !.bitmap = @ \cup {f.highest - sequence}]

\* The filter knows that s was accepted: s is not above highest_, and inside
\* the window it has its bit.
Remembers(f, s) ==
  /\ f.seenAny
  /\ s <= f.highest
  /\ f.highest - s < kWindow => f.highest - s \in f.bitmap
=============================================================================
