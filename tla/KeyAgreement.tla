---------------------------- MODULE KeyAgreement ----------------------------
(***************************************************************************)
(* What pairing promises to the media path.  The PC installs keys it never *)
(* used before.  The phone arms its packetizer with nothing but the key    *)
(* the PC holds at that moment, at most once per key, and never with a key *)
(* that was agreed before it last restarted.                               *)
(*                                                                         *)
(* The control plane implements this specification; the media path starts  *)
(* from it, and takes its keys as it says.                                 *)
(***************************************************************************)
EXTENDS Naturals

CONSTANT NoKey

VARIABLES
  pcKey,      \* the key of the PC's reassembler
  phoneKey,   \* the key of the phone's packetizer
  fresh,      \* the phone may still arm itself with pcKey
  used        \* every key the PC has held

keyVars == <<pcKey, phoneKey, fresh, used>>

KeyInit ==
  /\ pcKey = NoKey
  /\ phoneKey = NoKey
  /\ fresh = FALSE
  /\ used = {}

\* The PC answers a challenge.
Install ==
  /\ pcKey' \notin used \cup {NoKey}
  /\ used' = used \cup {pcKey'}
  /\ fresh' \in BOOLEAN
  /\ UNCHANGED phoneKey

\* The phone accepts the answer.
Arm ==
  /\ fresh
  /\ phoneKey' = pcKey
  /\ fresh' = FALSE
  /\ UNCHANGED <<pcKey, used>>

\* The phone starts a new session.
Restart ==
  /\ phoneKey' = NoKey
  /\ fresh' = FALSE
  /\ UNCHANGED <<pcKey, used>>

\* The answer was lost or refused.
Forget ==
  /\ fresh' = FALSE
  /\ UNCHANGED <<pcKey, phoneKey, used>>

KeySpec == KeyInit /\ [][Install \/ Arm \/ Restart \/ Forget]_keyVars
=============================================================================
