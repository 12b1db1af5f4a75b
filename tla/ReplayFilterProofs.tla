------------------------- MODULE ReplayFilterProofs -------------------------
(***************************************************************************)
(* What ReplayFilter::Accept guarantees, for every window width, every     *)
(* state of the filter and every sequence number.                          *)
(***************************************************************************)
EXTENDS ReplayFilter, TLAPS

\* Accept leaves a well-formed filter: no bit is set outside the word.
LEMMA MarkType ==
  ASSUME NEW f \in Filters, NEW s \in Nat, Accepts(f, s)
  PROVE  Mark(f, s) \in Filters
<1>1. CASE ~f.seenAny
  BY <1>1, WindowAssumption DEF Mark, Filters, Bits
<1>2. CASE f.seenAny /\ s > f.highest
  <2>1. ShiftLeft(f.bitmap, s - f.highest) \cup {0} \in SUBSET Bits
    BY WindowAssumption DEF ShiftLeft, Bits
  <2>2. Mark(f, s) = [f EXCEPT !.highest = s,
                               !.bitmap  = ShiftLeft(@, s - f.highest) \cup {0}]
    BY <1>2 DEF Mark, Filters
  <2>. QED BY <2>1, <2>2 DEF Filters
<1>3. CASE f.seenAny /\ s <= f.highest
  <2>1. f.highest - s \in Bits
    BY <1>3, WindowAssumption DEF Accepts, Bits, Filters
  <2>2. Mark(f, s) = [f EXCEPT !.bitmap = @ \cup {f.highest - s}]
    BY <1>3 DEF Mark, Filters
  <2>. QED BY <2>1, <2>2 DEF Filters
<1>. QED BY <1>1, <1>2, <1>3 DEF Filters

\* An accepted sequence is remembered from then on.
LEMMA MarkAdds ==
  ASSUME NEW f \in Filters, NEW s \in Nat, Accepts(f, s)
  PROVE  Remembers(Mark(f, s), s)
<1>1. CASE ~f.seenAny
  BY <1>1 DEF Mark, Remembers
<1>2. CASE f.seenAny /\ s > f.highest
  <2>1. Mark(f, s) = [f EXCEPT !.highest = s,
                               !.bitmap  = ShiftLeft(@, s - f.highest) \cup {0}]
    BY <1>2 DEF Mark, Filters
  <2>. QED BY <1>2, <2>1 DEF Remembers, Filters
<1>3. CASE f.seenAny /\ s <= f.highest
  <2>1. Mark(f, s) = [f EXCEPT !.bitmap = @ \cup {f.highest - s}]
    BY <1>3 DEF Mark, Filters
  <2>. QED BY <1>3, <2>1 DEF Remembers, Filters
<1>. QED BY <1>1, <1>2, <1>3 DEF Filters

\* Accepting a sequence forgets none: the shift of the word keeps the bit of
\* every sequence that is still inside the window.
LEMMA MarkKeeps ==
  ASSUME NEW f \in Filters, NEW s \in Nat, Accepts(f, s),
         NEW c \in Nat, Remembers(f, c)
  PROVE  Remembers(Mark(f, s), c)
<1>1. CASE s > f.highest
  <2>1. Mark(f, s) = [f EXCEPT !.highest = s,
                               !.bitmap  = ShiftLeft(@, s - f.highest) \cup {0}]
    BY <1>1 DEF Mark, Filters, Remembers
  <2>2. ASSUME s - c < kWindow
        PROVE  s - c \in ShiftLeft(f.bitmap, s - f.highest)
    <3>1. f.highest - c \in f.bitmap
      BY <1>1, <2>2, WindowAssumption DEF Remembers, Filters
    <3>2. (s - c) - (s - f.highest) = f.highest - c
      BY DEF Filters
    <3>3. s - c \in Bits
      BY <1>1, <2>2, WindowAssumption DEF Remembers, Filters, Bits
    <3>. QED BY <3>1, <3>2, <3>3 DEF ShiftLeft
  <2>. QED BY <1>1, <2>1, <2>2 DEF Remembers, Filters
<1>2. CASE s <= f.highest
  <2>1. Mark(f, s) = [f EXCEPT !.bitmap = @ \cup {f.highest - s}]
    BY <1>2 DEF Mark, Filters, Remembers
  <2>. QED BY <2>1 DEF Remembers, Filters
<1>. QED BY <1>1, <1>2 DEF Filters

\* A remembered sequence is refused, wherever it lies: inside the window by
\* its bit, behind it by its age.
LEMMA RememberedIsRefused ==
  ASSUME NEW f \in Filters, NEW s \in Nat, Remembers(f, s)
  PROVE  ~Accepts(f, s)
BY WindowAssumption DEF Remembers, Accepts, Filters

\* A cleared filter accepts anything, and is well formed.
LEMMA FreshType == FreshFilter \in Filters
BY DEF FreshFilter, Filters
=============================================================================
