---------------------------- MODULE ControlPlane ----------------------------
(***************************************************************************)
(* The control plane: how the PC connects to the phone, pairs with it and  *)
(* sends it commands.  On the PC: the desktop controller (Dart), the       *)
(* ServiceManager and its TcpControlClient.  On the phone: UdpTransport's  *)
(* control thread, the PairingManager and the pairing half of              *)
(* NativeSenderContext.  Between them, TCP connections.                    *)
(*                                                                         *)
(* Three threads: the PC's isolate thread, which runs ConnectDevice and    *)
(* DisconnectDevice to their end before it looks at anything else; the     *)
(* PC's reader thread, one per connection; the phone's control thread,     *)
(* which serves one connection at a time.  The PC's UDP worker only sends  *)
(* commands (RequestIdr).                                                  *)
(*                                                                         *)
(* Abstractions: connections are numbered in the order they are dialled,   *)
(* and a key pair or a token made for a connection bears its number.  A    *)
(* session key is the pair of the two key pairs it is derived from.        *)
(***************************************************************************)
EXTENDS PairingManager, Sequences

CONSTANTS
  MaxConns,      \* bound: connections dialled
  MaxSessions,   \* bound: times the phone starts streaming
  MaxQueue,      \* bound: commands in flight on a connection
  MaxDrops       \* bound: connections the network loses

ASSUME ControlAssumption ==
  /\ MaxConns \in Nat /\ MaxSessions \in Nat \ {0}
  /\ MaxQueue \in Nat /\ MaxDrops \in Nat

VARIABLES
  dart,       \* the desktop controller's flags
  ui,         \* where the isolate thread is in which call
  events,     \* status callbacks posted to the isolate
  pc,         \* ServiceManager
  media,      \* the reassembler's key and pinned session
  client,     \* TcpControlClient: isConnected_ and socket_
  reader,     \* readThread_
  terminated, \* std::terminate was called
  conns,      \* the TCP connections
  phone,      \* the phone's control thread and native session
  pm,         \* the phone's PairingManager
  installed,  \* history: keys the reassembler was given
  wrongs,     \* history: wrong PINs since the last right one
  drops       \* history: connections the network lost

vars == <<dart, ui, events, pc, media, client, reader, terminated, conns, phone,
          pm, installed, wrongs, drops>>

pcVars    == <<dart, ui, events, pc, media, client, reader, terminated, installed>>
phoneVars == <<phone, pm, wrongs>>

-----------------------------------------------------------------------------
(* Keys, messages and connections *)

\* The key that both sides derive from the phone's key pair and the PC's:
\* the same one whichever side derives it, and a different one for every two
\* key pairs.
DeriveSessionKeys(s, c) == [server |-> s, client |-> c]

NoKey == DeriveSessionKeys(0, 0)

Keys == [server : Nat, client : Nat]

Challenge(c, s)  == [type |-> "pairing_challenge", key |-> c, session |-> s]
Ok(token)        == [type |-> "pairing_ok", token |-> token]
Error            == [type |-> "pairing_error"]
Capabilities     == [type |-> "capabilities"]
Response(pin, k) == [type |-> "pairing_response", pin |-> pin, key |-> k]
Command(n, t)    == [type |-> n, token |-> t]

\* Sending appends to the queue of an open connection; what is sent to a peer
\* that has closed is lost, and the phone's stop() may have closed the socket
\* under its control thread.
ToPc(cs, c, m) ==
  [cs EXCEPT ![c].toPc = IF cs[c].pcOpen /\ cs[c].phoneOpen THEN Append(@, m) ELSE @]

ToPhone(cs, c, m) ==
  [cs EXCEPT ![c].toPhone = IF cs[c].phoneOpen THEN Append(@, m) ELSE @]

\* TcpControlClient::SendControlMessage.
Send(cs, m) == IF client.isConnected THEN ToPhone(cs, client.socket, m) ELSE cs

-----------------------------------------------------------------------------
(* The PC's isolate thread *)

Idle == ui.pc = "idle" /\ ~terminated

\* Mutant: connectDevice does not look whether it is connected.
ConnectAnyway(pin) ==
  /\ Idle
  /\ Len(conns) < MaxConns
  /\ events' = << >>
  /\ pc' = [pc EXCEPT !.pin = pin, !.fromScreen = (pin = ShownPin(pm)),
                      !.token = 0, !.state = "AWAITING_CHALLENGE"]
  /\ ui' = [pc |-> "closing", call |-> "connect"]
  /\ UNCHANGED <<dart, media, client, reader, terminated, conns, phoneVars,
                 installed, drops>>

\* connectDevice, once more allowed after a pairing error: the new status
\* callback replaces the old one, and ConnectDevice resets the pairing state.
\* The PIN is typed before the connection exists.
ConnectDevice(pin) ==
  /\ Idle
  /\ ~dart.isConnected
  /\ Len(conns) < MaxConns
  /\ events' = << >>
  /\ pc' = [pc EXCEPT !.pin = pin, !.fromScreen = (pin = ShownPin(pm)),
                      !.token = 0, !.state = "AWAITING_CHALLENGE"]
  /\ ui' = [pc |-> "closing", call |-> "connect"]
  /\ UNCHANGED <<dart, media, client, reader, terminated, conns, phoneVars,
                 installed, drops>>

\* disconnectDevice reaches the native side only while it has a connection.
DisconnectDevice ==
  /\ Idle
  /\ dart.isConnected \/ dart.nativeConnected
  /\ IF dart.nativeConnected
       THEN ui' = [pc |-> "closing", call |-> "disconnect"] /\ UNCHANGED dart
       ELSE dart' = [dart EXCEPT !.isConnected = FALSE] /\ UNCHANGED ui
  /\ UNCHANGED <<events, pc, media, client, reader, terminated, conns, phoneVars,
                 installed, drops>>

\* Mutant: the flag is cleared but the socket is left open.
ClearFlagOnly ==
  /\ ui.pc = "closing"
  /\ IF client.isConnected
       THEN /\ client' = [isConnected |-> FALSE, socket |-> 0]
            /\ ui' = [ui EXCEPT !.pc = "joining"]
       ELSE /\ ui' = [ui EXCEPT !.pc = "closed"]
            /\ UNCHANGED client
  /\ UNCHANGED <<dart, events, pc, media, reader, terminated, conns, phoneVars,
                 installed, drops>>

\* TcpControlClient::Disconnect up to the join.  It returns at once if the
\* reader has already noticed the end of the connection.
CloseSocket ==
  /\ ui.pc = "closing"
  /\ IF client.isConnected
       THEN /\ client' = [isConnected |-> FALSE, socket |-> 0]
            /\ conns' = [conns EXCEPT ![client.socket].pcOpen = FALSE]
            /\ ui' = [ui EXCEPT !.pc = "joining"]
       ELSE /\ ui' = [ui EXCEPT !.pc = "closed"]
            /\ UNCHANGED <<client, conns>>
  /\ UNCHANGED <<dart, events, pc, media, reader, terminated, phoneVars,
                 installed, drops>>

\* Mutant: the join is left out.
DetachReader ==
  /\ ui.pc = "joining"
  /\ ui' = [ui EXCEPT !.pc = "closed"]
  /\ reader' = [reader EXCEPT !.joinable = FALSE]
  /\ UNCHANGED <<dart, events, pc, media, client, terminated, conns, phoneVars,
                 installed, drops>>

\* readThread_.join().
JoinReader ==
  /\ ui.pc = "joining"
  /\ reader.pc = "exited"
  /\ reader' = [reader EXCEPT !.joinable = FALSE]
  /\ ui' = [ui EXCEPT !.pc = "closed"]
  /\ UNCHANGED <<dart, events, pc, media, client, terminated, conns, phoneVars,
                 installed, drops>>

DialFails ==
  /\ ui = [pc |-> "closed", call |-> "connect"]
  /\ pc' = [pc EXCEPT !.state = "DISCONNECTED"]
  /\ dart' = [isConnected |-> FALSE, nativeConnected |-> FALSE]
  /\ ui' = [pc |-> "idle", call |-> "none"]
  /\ UNCHANGED <<events, media, client, reader, terminated, conns, phoneVars,
                 installed, drops>>

\* The phone's kernel completes the handshake, whatever its control thread is
\* doing.  Assigning to a thread object that was not joined ends the process.
DialSucceeds ==
  /\ ui = [pc |-> "closed", call |-> "connect"]
  /\ phone.running
  /\ conns' = Append(conns, [toPc |-> << >>, toPhone |-> << >>,
                             pcOpen |-> TRUE, phoneOpen |-> TRUE])
  /\ client' = [isConnected |-> TRUE, socket |-> Len(conns) + 1]
  /\ terminated' = reader.joinable
  /\ reader' = [pc |-> "reading", conn |-> Len(conns) + 1, joinable |-> TRUE,
                key |-> 0, session |-> 0]
  /\ dart' = [isConnected |-> TRUE, nativeConnected |-> TRUE]
  /\ ui' = [pc |-> "idle", call |-> "none"]
  /\ UNCHANGED <<events, pc, media, phoneVars, installed, drops>>

\* The rest of DisconnectDevice, under the mutex, and back in Dart.
ClearPairing ==
  /\ ui = [pc |-> "closed", call |-> "disconnect"]
  /\ pc' = [pc EXCEPT !.isStreaming = FALSE, !.state = "DISCONNECTED",
                      !.token = 0, !.peer = FALSE]
  /\ dart' = [isConnected |-> FALSE, nativeConnected |-> FALSE]
  /\ ui' = [pc |-> "idle", call |-> "none"]
  /\ UNCHANGED <<events, media, client, reader, terminated, conns, phoneVars,
                 installed, drops>>

\* What the isolate may make of a status.  A listener callback is handed a
\* pointer; the text of an error that the phone reported is freed by the time
\* it is read, so that one may look like no status at all.
Readings(event) ==
  CASE event = "paired"        -> {TRUE}
    [] event = "pairing_error" -> {FALSE}
    [] event = "freed_error"   -> {FALSE, dart.isConnected}

\* _handlePairingStatus.
HandleStatus ==
  /\ Idle
  /\ events # << >>
  /\ \E connected \in Readings(Head(events)) :
       dart' = [dart EXCEPT !.isConnected = connected]
  /\ events' = Tail(events)
  /\ UNCHANGED <<ui, pc, media, client, reader, terminated, conns, phoneVars,
                 installed, drops>>

\* RequestIdr of the UDP worker, which no call of the isolate holds up.
SendCommand ==
  /\ ~terminated
  /\ pc.isStreaming
  /\ client.isConnected
  /\ Len(conns[client.socket].toPhone) < MaxQueue
  /\ conns' = Send(conns, Command("requestIdr", pc.token))
  /\ UNCHANGED <<pcVars, phoneVars, drops>>

\* A control of the user's: NativeDesktopSession passes it on as long as it
\* believes to be connected.
UserCommand == Idle /\ dart.nativeConnected /\ SendCommand

-----------------------------------------------------------------------------
(* The PC's reader thread *)

\* A line of the reader's connection; lines already received are still
\* handled after the socket was closed.
Reads(type) ==
  /\ ~terminated
  /\ reader.pc = "reading"
  /\ conns[reader.conn].toPc # << >>
  /\ Head(conns[reader.conn].toPc).type = type

Line     == Head(conns[reader.conn].toPc)
Consumed == [conns EXCEPT ![reader.conn].toPc = Tail(@)]

\* HandlePairingChallenge, first critical section.
CheckChallenge ==
  /\ Reads("pairing_challenge")
  /\ conns' = Consumed
  /\ reader' = IF pc.state = "AWAITING_CHALLENGE"
                 THEN [reader EXCEPT !.pc = "deriving", !.key = Line.key,
                                       !.session = Line.session]
                 ELSE reader
  /\ UNCHANGED <<dart, ui, events, pc, media, client, terminated, phoneVars,
                 installed, drops>>

\* No usable public key, or the derivation fails: the pairing state stays.
DeriveFails ==
  /\ ~terminated
  /\ reader.pc = "deriving"
  /\ reader' = [reader EXCEPT !.pc = "reading"]
  /\ events' = Append(events, "pairing_error")
  /\ UNCHANGED <<dart, ui, pc, media, client, terminated, conns, phoneVars,
                 installed, drops>>

\* Mutant: the reassembler stays pinned to the first session it was given.
InstallPinOnce ==
  LET key == DeriveSessionKeys(reader.key, reader.conn)
  IN /\ ~terminated
     /\ reader.pc = "deriving"
     /\ media' = [key |-> key,
                  session |-> IF media.session = 0 THEN reader.session
                              ELSE media.session]
     /\ installed' = installed \cup {key}
     /\ pc' = [pc EXCEPT !.peer = TRUE, !.state = "AWAITING_PAIRING_OK"]
     /\ reader' = [reader EXCEPT !.pc = "responding"]
     /\ UNCHANGED <<dart, ui, events, client, terminated, conns, phoneVars, drops>>

\* Mutant: the PC answers before it has installed the key.
AnswerFirst ==
  /\ ~terminated
  /\ reader.pc = "deriving"
  /\ pc' = [pc EXCEPT !.peer = TRUE, !.state = "AWAITING_PAIRING_OK"]
  /\ reader' = [reader EXCEPT !.pc = "responding"]
  /\ UNCHANGED <<dart, ui, events, media, client, terminated, conns, phoneVars,
                 installed, drops>>

\* Second critical section: the state is not looked at again.
InstallKey ==
  LET key == DeriveSessionKeys(reader.key, reader.conn)
  IN /\ ~terminated
     /\ reader.pc = "deriving"
     /\ media' = [key |-> key, session |-> reader.session]
     /\ installed' = installed \cup {key}
     /\ pc' = [pc EXCEPT !.peer = TRUE, !.state = "AWAITING_PAIRING_OK"]
     /\ reader' = [reader EXCEPT !.pc = "responding"]
     /\ UNCHANGED <<dart, ui, events, client, terminated, conns, phoneVars, drops>>

\* The response goes out after the unlock, on whatever socket there is.
Respond ==
  /\ ~terminated
  /\ reader.pc = "responding"
  /\ conns' = Send(conns, Response(pc.pin, reader.conn))
  /\ reader' = [reader EXCEPT !.pc = "reading"]
  /\ UNCHANGED <<dart, ui, events, pc, media, client, terminated, phoneVars,
                 installed, drops>>

\* HandlePairingResult with a token.
HandlePairingOk ==
  /\ Reads("pairing_ok")
  /\ pc' = [pc EXCEPT !.token = Line.token, !.state = "PAIRED", !.isStreaming = TRUE]
  /\ events' = Append(events, "paired")
  /\ conns' = Send(Send(Consumed, Command("startStream", Line.token)),
                   Command("hello", Line.token))
  /\ UNCHANGED <<dart, ui, media, client, reader, terminated, phoneVars,
                 installed, drops>>

\* HandlePairingResult with a reason.  The socket and the token stay.
HandlePairingError ==
  /\ Reads("pairing_error")
  /\ pc' = [pc EXCEPT !.state = "DISCONNECTED", !.isStreaming = FALSE]
  /\ events' = Append(events, "freed_error")
  /\ conns' = Consumed
  /\ UNCHANGED <<dart, ui, media, client, reader, terminated, phoneVars,
                 installed, drops>>

ReadCapabilities ==
  /\ Reads("capabilities")
  /\ conns' = Consumed
  /\ UNCHANGED <<pcVars, phoneVars, drops>>

\* recv fails, on a socket closed at either end; nobody is told.
ReaderExits ==
  /\ ~terminated
  /\ reader.pc = "reading"
  /\ \/ ~conns[reader.conn].pcOpen
     \/ conns[reader.conn].toPc = << >> /\ ~conns[reader.conn].phoneOpen
  /\ reader' = [reader EXCEPT !.pc = "exited"]
  /\ client' = [client EXCEPT !.isConnected = FALSE]
  /\ UNCHANGED <<dart, ui, events, pc, media, terminated, conns, phoneVars,
                 installed, drops>>

-----------------------------------------------------------------------------
(* The phone's control thread *)

\* accept() and the head of handleConnection: a new PIN and a new key pair,
\* unless the manager is locked.
Accept(pin) ==
  LET c == phone.accepted + 1
  IN /\ phone.pc = "accepting"
     /\ phone.running
     /\ c <= Len(conns)
     /\ IF LockedOut(pm)
          THEN /\ conns' = [ToPc(conns, c, Error) EXCEPT ![c].phoneOpen = FALSE]
               /\ phone' = [phone EXCEPT !.accepted = c]
               /\ UNCHANGED pm
          ELSE /\ pm' = StartPairing(pm, pin)
               /\ phone' = [phone EXCEPT !.accepted = c, !.pc = "serving",
                                         !.authenticated = FALSE, !.pending = c]
               /\ conns' = ToPc(conns, c, Challenge(c, phone.session))
     /\ UNCHANGED <<pcVars, wrongs, drops>>

\* The next line of the connection that is served.
Serves ==
  /\ phone.pc = "serving"
  /\ phone.running
  /\ conns[phone.accepted].toPhone # << >>

Request  == Head(conns[phone.accepted].toPhone)
Received == [conns EXCEPT ![phone.accepted].toPhone = Tail(@)]

\* Mutant: the client is authenticated even if the key derivation failed.
AuthenticatedAnyway(keyOk) ==
  [phone EXCEPT !.armed = IF keyOk
                            THEN DeriveSessionKeys(phone.pending, Request.key)
                            ELSE @,
                !.pc = "answering"]

\* The phone after a right PIN: nativeCompletePairing derives the key and arms
\* the packetizer, and if that fails the client stays unauthenticated.
Authenticated(keyOk) ==
  IF keyOk
    THEN [phone EXCEPT !.armed = DeriveSessionKeys(phone.pending, Request.key),
                       !.pc = "answering"]
    ELSE phone

\* A pairing_response: verifyPin and what follows from its verdict.  LOCKED
\* ends the connection, and with it goes the lock.
VerifyResponse(keyOk) ==
  LET verdict == Verdict(pm, Request.pin)
      answer(m) == ToPc(Received, phone.accepted, m)
  IN /\ Serves
     /\ Request.type = "pairing_response"
     /\ ~phone.authenticated
     /\ pm' = IF verdict = "LOCKED" THEN ResetManager
              ELSE VerifyPin(pm, Request.pin, phone.accepted)
     /\ phone' = CASE verdict = "OK"     -> Authenticated(keyOk)
                   [] verdict = "LOCKED" -> [phone EXCEPT !.pc = "accepting"]
                   [] OTHER              -> phone
     /\ conns' = CASE verdict = "OK" /\ keyOk  -> Received
                   [] verdict = "NOT_AWAITING" -> Received
                   [] OTHER                    -> answer(Error)
     /\ wrongs' = CASE verdict = "OK"          -> 0
                    [] verdict = "INVALID_PIN" -> wrongs + 1
                    [] OTHER                   -> wrongs
     /\ UNCHANGED <<pcVars, drops>>

\* The packetizer is armed: the token goes to the PC, and from now on the
\* client is authenticated.
AnswerOk ==
  /\ phone.pc = "answering"
  /\ conns' = ToPc(conns, phone.accepted, Ok(phone.accepted))
  /\ phone' = [phone EXCEPT !.authenticated = TRUE, !.pc = "pointing"]
  /\ UNCHANGED <<pcVars, pm, wrongs, drops>>

\* onAuthenticated: ConfigureUdp gives up the old destination before it makes
\* the new one.  If there is no socket to be had, or the address is not an
\* IPv4 one, there is none, and nobody looks at the result.
ConfigureDestination ==
  /\ phone.pc = "pointing"
  /\ \E configured \in BOOLEAN :
       phone' = [phone EXCEPT !.destination = configured, !.pc = "serving"]
  /\ UNCHANGED <<pcVars, conns, pm, wrongs, drops>>

\* The service's handler: "hello" is answered with the capabilities, the
\* others set the camera and the encoder.
HandleControlCommand(cs, command) ==
  IF command.type = "hello" THEN ToPc(cs, phone.accepted, Capabilities) ELSE cs

\* A command runs if the client is authenticated and shows the token.  Any
\* other line is dropped.
ExecuteCommand ==
  /\ Serves
  /\ Request.type # "pairing_response" \/ phone.authenticated
  /\ conns' = IF /\ phone.authenticated
                 /\ Request.type # "pairing_response"
                 /\ IsTokenValid(pm, Request.token)
                THEN HandleControlCommand(Received, Request)
                ELSE Received
  /\ UNCHANGED <<pcVars, phoneVars, drops>>

\* The end of handleConnection: the client has gone, or stop() closed the
\* socket.  The socket is left as it is, and so is the UDP destination.
Leave ==
  /\ phone.pc = "serving"
  /\ \/ ~phone.running
     \/ conns[phone.accepted].toPhone = << >> /\ ~conns[phone.accepted].pcOpen
  /\ pm' = ResetManager
  /\ phone' = [phone EXCEPT !.pc = "accepting"]
  /\ UNCHANGED <<pcVars, conns, wrongs, drops>>

\* UdpTransport.stop(): the served socket and the server socket are closed,
\* and with the latter every connection not yet accepted.
StopPhone ==
  /\ phone.running
  /\ phone' = [phone EXCEPT !.running = FALSE]
  /\ conns' = [c \in DOMAIN conns |->
                 IF c >= phone.accepted
                   THEN [conns[c] EXCEPT !.phoneOpen = FALSE] ELSE conns[c]]
  /\ UNCHANGED <<pcVars, pm, wrongs, drops>>

\* The control thread has ended: the native session is destroyed, and the
\* next startStreaming makes a new one and a new UdpTransport.
RestartPhone ==
  /\ ~phone.running
  /\ phone.pc = "accepting"
  /\ phone.session < MaxSessions
  /\ phone' = [phone EXCEPT !.running = TRUE, !.session = @ + 1,
                            !.accepted = Len(conns), !.pending = 0,
                            !.armed = NoKey, !.destination = FALSE]
  /\ UNCHANGED <<pcVars, conns, pm, wrongs, drops>>

\* LOCKOUT_MS has passed.
CoolDown ==
  /\ pm.cooling
  /\ pm' = [pm EXCEPT !.cooling = FALSE]
  /\ UNCHANGED <<pcVars, conns, phone, wrongs, drops>>

\* The network loses a connection with all that is under way on it.
Drop(c) ==
  /\ drops < MaxDrops
  /\ conns[c].pcOpen /\ conns[c].phoneOpen
  /\ conns' = [conns EXCEPT ![c] = [toPc |-> << >>, toPhone |-> << >>,
                                    pcOpen |-> FALSE, phoneOpen |-> FALSE]]
  /\ drops' = drops + 1
  /\ UNCHANGED <<pcVars, phoneVars>>

-----------------------------------------------------------------------------
Init ==
  /\ dart = [isConnected |-> FALSE, nativeConnected |-> FALSE]
  /\ ui = [pc |-> "idle", call |-> "none"]
  /\ events = << >>
  /\ pc = [state |-> "DISCONNECTED", token |-> 0, isStreaming |-> FALSE,
           peer |-> FALSE, pin |-> 0, fromScreen |-> FALSE]
  /\ media = [key |-> NoKey, session |-> 0]
  /\ client = [isConnected |-> FALSE, socket |-> 0]
  /\ reader = [pc |-> "exited", conn |-> 0, joinable |-> FALSE,
               key |-> 0, session |-> 0]
  /\ terminated = FALSE
  /\ conns = << >>
  /\ phone = [running |-> TRUE, pc |-> "accepting", accepted |-> 0,
              authenticated |-> FALSE, pending |-> 0, armed |-> NoKey,
              destination |-> FALSE, session |-> 1]
  /\ pm = ResetManager
  /\ installed = {}
  /\ wrongs = 0
  /\ drops = 0

IsolateStep == CloseSocket \/ JoinReader \/ DialFails \/ DialSucceeds \/ ClearPairing

ReaderStep ==
  \/ CheckChallenge \/ DeriveFails \/ InstallKey \/ Respond
  \/ HandlePairingOk \/ HandlePairingError \/ ReadCapabilities \/ ReaderExits

PhoneStep ==
  \/ \E pin \in Pins : Accept(pin)
  \/ \E keyOk \in BOOLEAN : VerifyResponse(keyOk)
  \/ AnswerOk
  \/ ConfigureDestination
  \/ ExecuteCommand
  \/ Leave

Next ==
  \/ \E pin \in Pins : ConnectDevice(pin)
  \/ DisconnectDevice
  \/ HandleStatus
  \/ SendCommand
  \/ UserCommand
  \/ IsolateStep
  \/ ReaderStep
  \/ PhoneStep
  \/ StopPhone
  \/ RestartPhone
  \/ CoolDown
  \/ \E c \in DOMAIN conns : Drop(c)

\* Threads that can run do run; nothing obliges the user, the network or the
\* phone's owner to act.
Fairness ==
  /\ WF_vars(IsolateStep)
  /\ WF_vars(ReaderStep)
  /\ WF_vars(PhoneStep)

Spec == Init /\ [][Next]_vars /\ Fairness

-----------------------------------------------------------------------------
(* Properties *)

Lines == [type : {"pairing_challenge"}, key : Nat, session : Nat]
         \cup [type : {"pairing_ok"}, token : Nat]
         \cup [type : {"pairing_error", "capabilities"}]

Requests == [type : {"pairing_response"}, pin : Pins \cup {0}, key : Nat]
            \cup [type : {"startStream", "hello", "requestIdr"}, token : Nat]

Darts   == [isConnected : BOOLEAN, nativeConnected : BOOLEAN]
Uis     == [pc : {"idle", "closing", "joining", "closed"},
            call : {"none", "connect", "disconnect"}]
Statuses == {"paired", "pairing_error", "freed_error"}
Pcs     == [state : {"DISCONNECTED", "AWAITING_CHALLENGE", "AWAITING_PAIRING_OK", "PAIRED"},
            token : Nat, isStreaming : BOOLEAN, peer : BOOLEAN,
            pin : Pins \cup {0}, fromScreen : BOOLEAN]
Readers == [pc : {"reading", "deriving", "responding", "exited"},
            conn : Nat, joinable : BOOLEAN, key : Nat, session : Nat]
Connections == [toPc : Seq(Lines), toPhone : Seq(Requests),
                pcOpen : BOOLEAN, phoneOpen : BOOLEAN]
Phones  == [running : BOOLEAN, pc : {"accepting", "serving", "answering", "pointing"}, accepted : Nat,
            authenticated : BOOLEAN, pending : Nat, armed : Keys,
            destination : BOOLEAN, session : Nat]

\* Types of all the variables.
TypeOK ==
  /\ dart \in Darts /\ ui \in Uis /\ events \in Seq(Statuses) /\ pc \in Pcs
  /\ media \in [key : Keys, session : Nat]
  /\ client \in [isConnected : BOOLEAN, socket : Nat]
  /\ reader \in Readers /\ terminated \in BOOLEAN
  /\ conns \in Seq(Connections) /\ phone \in Phones /\ pm \in Managers
  /\ installed \subseteq Keys /\ wrongs \in Nat /\ drops \in Nat

\* "media UDP is only sent after pairing" and the packetizer is armed first:
\* whenever the phone has a UDP destination, its packets are sealed.
NeverPlaintext == phone.destination => phone.armed # NoKey

\* Pairing (HandlePairingChallenge against handleConnection): when the PC says
\* it is paired over the connection the phone has authenticated, both hold the
\* same key, the PC expects the session the phone streams, and the PC's token
\* is the one the phone asks for.
PairedMeansAgreed ==
  (/\ pc.state = "PAIRED"
   /\ client.isConnected
   /\ phone.pc # "accepting" /\ phone.running /\ phone.authenticated
   /\ client.socket = phone.accepted)
  => /\ media = [key |-> phone.armed, session |-> phone.session]
     /\ IsTokenValid(pm, pc.token)

\* What the PC believes comes from the connection it has now: no line of an
\* earlier connection, read late, decides a later attempt.
AnswersAreCurrent ==
  (/\ client.isConnected
   /\ pc.state \in {"AWAITING_PAIRING_OK", "PAIRED"})
  => media.key.server = client.socket

\* DisconnectDevice is final: once it has returned, the PC is not streaming
\* and no thread is left that could start it again.
DisconnectIsFinal ==
  (/\ Idle
   /\ ~dart.nativeConnected)
  => /\ ~pc.isStreaming
     /\ pc.state = "DISCONNECTED"
     /\ reader.pc = "exited"

\* ConnectDevice and DisconnectDevice block the user interface and wait for
\* the reader; they always return, or the process is gone.
CallsReturn == (ui.pc # "idle") ~> (ui.pc = "idle" \/ terminated)

\* The phone may arm itself with the reassembler's key as long as it still
\* has the key pair that the PC answered.
Fresh ==
  /\ media.key # NoKey
  /\ media.key.server = phone.pending
  /\ phone.armed # media.key

Agreement ==
  INSTANCE KeyAgreement WITH
    pcKey <- media.key, phoneKey <- phone.armed, fresh <- Fresh, used <- installed

\* The control plane keeps the promise of KeyAgreement.
ImplementsKeyAgreement == Agreement!KeySpec

\* "PIN badge appears ... enter IP + 6-digit PIN -> Connect" (README): a PIN
\* that was typed from the phone's screen is not refused.
ShownPinIsAccepted ==
  [][(/\ wrongs' > wrongs
      /\ Idle
      /\ client = [isConnected |-> TRUE, socket |-> phone.accepted])
     => ~pc.fromScreen]_vars

\* "wait or restart service to reset": after the phone's side has closed the
\* connection, the PC can connect again.
ReconnectIsSafe == ~terminated
=============================================================================
