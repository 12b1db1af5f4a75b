---------------------------- MODULE MCRingBuffer ----------------------------
(* Three slots hold two items: the smallest ring in which a Push that drops *)
(* and the Pop it overlaps stand in different slots.                        *)
EXTENDS RingBuffer
=============================================================================
