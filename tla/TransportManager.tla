-------------------------- MODULE TransportManager --------------------------
(***************************************************************************)
(* AutoTransportManager: the registered transports, the active one and the *)
(* preferred mode.  Every method runs under one mutex and is one step.  A  *)
(* transport is an object, a link here, that connects and disconnects on   *)
(* its own; two links may have the same type, and registering the second   *)
(* one takes the first out of the map but not out of use.                  *)
(***************************************************************************)
EXTENDS Integers, Sequences

CONSTANTS
  Links,           \* transport objects
  TypeOf,          \* link -> transport type
  Penalties,       \* what latency and loss may add to a link's score
  MaxLinkChanges   \* bound: connects and disconnects

BaseScore == [USB |-> 10, WIFI_LAN |-> 20, WIFI_DIRECT |-> 30, BLUETOOTH |-> 50]
Worst     == 99999       \* a link with this score or a higher one is never chosen
Types     == {TypeOf[l] : l \in Links}
NoLink    == "none"

\* A connected link has a round trip of less than the 99 seconds that would
\* bring its score up to Worst.
ASSUME TransportAssumption ==
  /\ TypeOf \in [Links -> DOMAIN BaseScore] /\ NoLink \notin Links
  /\ Penalties \subseteq Nat /\ Penalties # {} /\ MaxLinkChanges \in Nat
  /\ \A t \in DOMAIN BaseScore, p \in Penalties : BaseScore[t] + p < Worst

VARIABLES
  up,              \* links whose state is CONNECTED
  transports,      \* transports_: type -> link or NoLink
  active,          \* activeTransport_
  preferredMode,
  linkChanges,     \* history: connects and disconnects so far
  settled          \* history: evaluated in AUTO mode since a link last changed

transportVars == <<up, transports, active, preferredMode, linkChanges, settled>>

TransportInit ==
  /\ up = {} /\ transports = [t \in Types |-> NoLink] /\ active = NoLink
  /\ preferredMode = "AUTO" /\ linkChanges = 0 /\ settled = FALSE

\* The world outside: a link connects, or is lost.
LinkChange(l) ==
  /\ linkChanges < MaxLinkChanges
  /\ up' = IF l \in up THEN up \ {l} ELSE up \cup {l}
  /\ linkChanges' = linkChanges + 1
  /\ settled' = FALSE
  /\ UNCHANGED <<transports, active, preferredMode>>

RegisterTransport(l) ==
  /\ transports' = [transports EXCEPT ![TypeOf[l]] = l]
  /\ active' = IF active \notin up /\ l \in up THEN l ELSE active
  /\ UNCHANGED <<up, preferredMode, linkChanges, settled>>

\* Mutant: the mode is pinned to a link that is not connected.
PinAnyway(mode) == IF mode # "AUTO" /\ transports[mode] # NoLink THEN transports[mode] ELSE active

\* The link a mode selects: the current one, unless the mode's own is connected.
Pin(mode) == IF mode # "AUTO" /\ transports[mode] \in up THEN transports[mode] ELSE active

SetPreferredTransportMode(mode) ==
  /\ preferredMode' = mode
  /\ active' = Pin(mode)
  /\ UNCHANGED <<up, transports, linkChanges, settled>>

CalculateRank(t, penalty) == BaseScore[t] + penalty[t]

\* The types an evaluation may choose from.
Candidates(penalty) ==
  {t \in Types : transports[t] \in up /\ CalculateRank(t, penalty) < Worst}

\* The best candidate for some measurements; a tie goes to either.  The flag
\* isHandoffInProgress_ is set and cleared under the mutex: another caller that
\* sees it returns without a change.  onHandoffCompleted_ is called under the
\* mutex too; nothing in the repository registers one.
EvaluateAndHandoff ==
  /\ preferredMode = "AUTO"
  /\ \E penalty \in [Types -> Penalties] :
       active' \in IF Candidates(penalty) = {} THEN {active}
                   ELSE {transports[t] : t \in
                          {t \in Candidates(penalty) : \A s \in Candidates(penalty) :
                             CalculateRank(t, penalty) <= CalculateRank(s, penalty)}}
  /\ settled' = TRUE
  /\ UNCHANGED <<up, transports, preferredMode, linkChanges>>

\* Mutant: the type is kept instead of the link.
HandoffToType(target) ==
  /\ transports[target] \in up
  /\ active' = target
  /\ UNCHANGED <<up, transports, preferredMode, linkChanges, settled>>

InitiateHandoff(target) ==
  /\ transports[target] \in up
  /\ active' = transports[target]
  /\ UNCHANGED <<up, transports, preferredMode, linkChanges, settled>>

\* SendPacket delivers to the active link only while it is connected.
SendsOn == IF active \in up THEN active ELSE NoLink

TransportTypeOK ==
  /\ up \subseteq Links
  /\ transports \in [Types -> Links \cup {NoLink}]
  /\ active \in Links \cup {NoLink}
  /\ preferredMode \in Types \cup {"AUTO"}
  /\ linkChanges \in 0 .. MaxLinkChanges /\ settled \in BOOLEAN

\* After an evaluation in AUTO mode, and until a link connects or is lost, packets
\* go out on a connected link whenever some registered one is connected: neither
\* pinning, nor a hand-off, nor registering another link leaves a dead one active.
LiveAfterEvaluation ==
  settled /\ (\E t \in Types : transports[t] \in up) => SendsOn # NoLink

=============================================================================
