--------------------------- MODULE PairingManager ---------------------------
(***************************************************************************)
(* The phone's PairingManager: the PIN and token state machine, as         *)
(* operators on one record.  Every method is @Synchronized, so each is one *)
(* step.  Time is only compared with lockUntilMs: cooling says that the    *)
(* lock-out has not run out yet.  A PIN is drawn by SecureRandom and a     *)
(* token is never drawn twice; 0 stands for null.                          *)
(***************************************************************************)
EXTENDS Integers

CONSTANTS
  Pins,          \* the PINs generatePin may draw (six digits in the code)
  MAX_ATTEMPTS   \* wrong PINs before the lock-out, 5 in the code

ASSUME PinAssumption ==
  /\ Pins \subseteq Nat \ {0}
  /\ MAX_ATTEMPTS \in Nat \ {0}

Managers == [state : {"IDLE", "AWAITING_PIN", "PAIRED", "LOCKED"},
             currentPin : Pins \cup {0}, authToken : Nat,
             failedAttempts : Nat, cooling : BOOLEAN]

\* What reset() leaves, and the state the manager is created in.
ResetManager ==
  [state |-> "IDLE", currentPin |-> 0, authToken |-> 0,
   failedAttempts |-> 0, cooling |-> FALSE]

LockedOut(m) == m.state = "LOCKED" /\ m.cooling

\* startPairing, when it is not refused.  The count of failures goes on.
StartPairing(m, pin) ==
  [m EXCEPT !.state = "AWAITING_PIN", !.currentPin = pin, !.authToken = 0]

\* verifyPin first lifts a lock-out that has run out.
Lifted(m) ==
  IF m.state = "LOCKED" /\ ~m.cooling
    THEN [m EXCEPT !.state = "AWAITING_PIN", !.failedAttempts = 0]
    ELSE m

\* The answer of verifyPin.
Verdict(m, input) ==
  CASE LockedOut(m) -> "LOCKED"
    [] ~LockedOut(m) /\ (Lifted(m).state # "AWAITING_PIN" \/ m.currentPin = 0) ->
         "NOT_AWAITING"
    [] OTHER -> IF input = m.currentPin THEN "OK" ELSE "INVALID_PIN"

Paired(m, token) ==
  [m EXCEPT !.state = "PAIRED", !.authToken = token, !.failedAttempts = 0]

\* Mutant: the failures are counted down.
CountedDown(m) == [m EXCEPT !.failedAttempts = @ - 1]

Failed(m) ==
  LET n == m.failedAttempts + 1
  IN  [m EXCEPT !.failedAttempts = n,
                !.state   = IF n >= MAX_ATTEMPTS THEN "LOCKED" ELSE @,
                !.cooling = IF n >= MAX_ATTEMPTS THEN TRUE ELSE @]

\* What verifyPin leaves; token is the one it draws if the PIN is right.
VerifyPin(m, input, token) ==
  CASE Verdict(m, input) = "OK"           -> Paired(Lifted(m), token)
    [] Verdict(m, input) = "INVALID_PIN"  -> Failed(Lifted(m))
    [] Verdict(m, input) = "NOT_AWAITING" -> Lifted(m)
    [] Verdict(m, input) = "LOCKED"       -> m

IsTokenValid(m, candidate) == m.authToken # 0 /\ candidate = m.authToken

\* getCurrentPin: what the phone's screen shows, 0 for nothing.
ShownPin(m) == IF m.state = "AWAITING_PIN" THEN m.currentPin ELSE 0
=============================================================================
