-------------------------- MODULE ControlPlaneProofs --------------------------
(***************************************************************************)
(* Proofs about ControlPlane, for any number of connections, sessions,     *)
(* PINs, commands in flight and connections lost.                          *)
(*                                                                         *)
(* The code numbers nothing and checks little: HandlePairingChallenge does *)
(* not look at the state again before it installs the key, and a line read *)
(* late is handled like any other.  What makes pairing agree is that there *)
(* is one token on a connection (OneToken): a challenge in the PC's queue, *)
(* then the reader at work on it, then a response in the phone's queue,    *)
(* then a verdict in the PC's queue, and after that the connection is Used *)
(* and carries commands only.  The other half is that the PC's threads     *)
(* only ever look at the newest connection (Threads), because the isolate  *)
(* joins the reader before it dials again.  IInv says this, and what the   *)
(* two sides know while the token is where it is.                          *)
(***************************************************************************)
EXTENDS ControlPlane, SequenceTheorems, TLAPS

\* The newest connection: the only one the PC's threads ever look at, and what is
\* under way on it.
Cur == Len(conns)
In  == conns[Cur].toPc
Out == conns[Cur].toPhone

Quiet(q)   == \A i \in DOMAIN q : q[i].type = "capabilities"
NoReply(p) == \A i \in DOMAIN p : p[i].type # "pairing_response"

Resting == reader.pc \in {"reading", "exited"}

\* The phone has taken the newest connection, and PC and phone are through
\* with its pairing, one way or the other.
Used ==
  /\ Cur # 0 /\ phone.accepted = Cur /\ phone.pc # "answering"
  /\ Resting /\ Quiet(In) /\ NoReply(Out)

\* Pairing passes one token between the two sides of the newest connection:
\* a challenge, the key derived from it, a response, the phone at work on its
\* answer, a verdict.
OneToken ==
  Cur # 0 =>
    /\ phone.accepted < Cur => In = << >> /\ NoReply(Out) /\ Resting
    /\ phone.accepted = Cur /\ phone.pc = "answering" =>
         In = << >> /\ NoReply(Out) /\ Resting
    /\ reader.pc \in {"deriving", "responding"} => In = << >> /\ NoReply(Out)
    /\ ~Quiet(In) => Len(In) = 1 /\ NoReply(Out) /\ Resting
    /\ \A i \in DOMAIN Out : Out[i].type = "pairing_response" =>
         In = << >> /\ \A j \in DOMAIN Out : Out[j].type = "pairing_response" => j = i
    /\ \A i \in DOMAIN Out : Out[i].type = "hello" => Used

\* What the lines of a connection say is about that connection.
Numbered ==
  /\ \A c \in DOMAIN conns : \A i \in DOMAIN conns[c].toPhone :
       conns[c].toPhone[i].type = "pairing_response" =>
         conns[c].toPhone[i].key = c /\ c <= media.key.server
  /\ Cur # 0 => \A i \in DOMAIN In :
       /\ In[i].type = "pairing_challenge" => In[i].key = Cur /\ media.key.server < Cur
       /\ In[i].type = "pairing_ok" => In[i].token = Cur /\ media.key.server = Cur

\* Keys bear the number of their connection, and none comes back.
KeysGrow ==
  /\ media.key.client = media.key.server /\ media.key.server <= phone.accepted
  /\ \A k \in installed : k.client = k.server /\ k.server # 0 /\ k.server <= media.key.server
  /\ reader.pc = "deriving" => reader.key = Cur /\ media.key.server < Cur
  /\ reader.pc = "responding" => media.key.server = Cur

\* What the phone knows of the connection it serves.
Serving ==
  /\ phone.accepted <= Cur /\ phone.pending <= phone.accepted
  /\ phone.armed.client = phone.armed.server /\ phone.armed.server <= phone.accepted
  /\ phone.destination = TRUE => phone.armed.server # 0
  /\ phone.pc # "accepting" =>
       /\ phone.pending = phone.accepted /\ phone.accepted # 0
       /\ phone.authenticated = TRUE => phone.armed.server = phone.accepted
       /\ phone.armed.server = phone.accepted =>
            phone.authenticated = TRUE \/ phone.pc = "answering"
       /\ phone.authenticated = TRUE => pm.authToken = phone.accepted
  /\ phone.pc = "pointing" => phone.authenticated = TRUE
  /\ phone.pc = "answering" =>
       /\ phone.authenticated = FALSE /\ phone.armed.server = phone.accepted
       /\ pm.authToken = phone.accepted /\ media.key.server = phone.accepted

\* The session the phone streams in is the one the PC is told.
SameSession ==
  phone.pc # "accepting" /\ phone.accepted = Cur =>
    /\ \A i \in DOMAIN In :
         In[i].type = "pairing_challenge" => In[i].session = phone.session
    /\ reader.pc = "deriving" => reader.session = phone.session
    /\ media.key.server = Cur => media.session = phone.session

\* The connections and those who serve them.
Wire == OneToken /\ Numbered /\ KeysGrow /\ Serving /\ SameSession

\* The PC's threads and the newest connection.
Threads ==
  /\ reader.conn = Cur
  /\ client.isConnected = TRUE => client.socket = Cur /\ reader.pc # "exited"
  /\ reader.pc # "exited" => Cur # 0 /\ (client.isConnected = TRUE \/ ui.pc = "joining")
  /\ ui.pc = "closed" => reader.pc = "exited"
  /\ ui.pc = "joining" => client.isConnected = FALSE
  /\ ui.pc = "idle" <=> ui.call = "none"

\* The PC's view of its pairing.
PcState ==
  /\ pc.state \in {"AWAITING_PAIRING_OK", "PAIRED"} => media.key.server = Cur
  /\ pc.state = "PAIRED" => pc.token = Cur /\ Cur # 0
  /\ pc.isStreaming = TRUE => Used
  /\ ui.call = "connect" => events = << >> /\ pc.state = "AWAITING_CHALLENGE"

\* Once the user was told of an error, or is connecting again, the connection
\* has nothing to say any more.
ToldOnce ==
  (\/ dart.isConnected = FALSE \/ ui.call = "connect"
   \/ \E i \in DOMAIN events : events[i] # "paired")
  => pc.isStreaming = FALSE /\ (reader.pc = "exited" \/ Used)

\* DisconnectIsFinal, whether or not the process has been terminated.
Final ==
  ui.pc = "idle" /\ dart.nativeConnected = FALSE =>
    pc.isStreaming = FALSE /\ pc.state = "DISCONNECTED" /\ reader.pc = "exited"

\* The desktop's side.
Desk == Threads /\ PcState /\ ToldOnce /\ Final

IInv == TypeOK /\ Wire /\ Desk

-----------------------------------------------------------------------------
(* Types *)

\* The methods of PairingManager keep it one.
LEMMA ManagerTypes ==
  ASSUME NEW m \in Managers
  PROVE  /\ ResetManager \in Managers /\ Lifted(m) \in Managers /\ Failed(m) \in Managers
         /\ \A pin \in Pins : StartPairing(m, pin) \in Managers
         /\ \A t \in Nat : Paired(m, t) \in Managers
<1>1. ResetManager \in Managers
  BY DEF Managers, ResetManager
<1>2. Lifted(m) \in Managers
  BY DEF Managers, Lifted
<1>3. Failed(m) \in Managers
  <2>1. m.failedAttempts + 1 \in Nat
    BY DEF Managers
  <2> QED
    BY <2>1, PinAssumption DEF Managers, Failed
<1>4. \A pin \in Pins : StartPairing(m, pin) \in Managers
  BY DEF Managers, StartPairing
<1>5. \A t \in Nat : Paired(m, t) \in Managers
  BY DEF Managers, Paired
<1> QED
  BY <1>1, <1>2, <1>3, <1>4, <1>5

\* verifyPin has four verdicts, and stores the token it drew with an OK.
LEMMA VerifyPinEffect ==
  ASSUME NEW m \in Managers, NEW input, NEW t \in Nat
  PROVE  /\ Verdict(m, input) \in {"LOCKED", "NOT_AWAITING", "OK", "INVALID_PIN"}
         /\ VerifyPin(m, input, t) \in Managers
         /\ Verdict(m, input) = "OK" => VerifyPin(m, input, t).authToken = t
<1>1. Verdict(m, input) \in {"LOCKED", "NOT_AWAITING", "OK", "INVALID_PIN"}
  BY DEF Verdict
<1>2. Lifted(m) \in Managers
  BY ManagerTypes
<1>3. /\ Paired(Lifted(m), t) \in Managers /\ Paired(Lifted(m), t).authToken = t
      /\ Failed(Lifted(m)) \in Managers
  <2>1. ASSUME NEW l \in Managers PROVE Paired(l, t).authToken = t
    BY DEF Paired, Managers
  <2> QED
    BY <1>2, <2>1, ManagerTypes
<1>4. CASE Verdict(m, input) = "OK"
  BY <1>3, <1>4 DEF VerifyPin
<1>5. CASE Verdict(m, input) = "INVALID_PIN"
  BY <1>3, <1>5 DEF VerifyPin
<1>6. CASE Verdict(m, input) = "NOT_AWAITING"
  BY <1>2, <1>6 DEF VerifyPin
<1>7. CASE Verdict(m, input) = "LOCKED"
  BY <1>7 DEF VerifyPin
<1> QED
  BY <1>1, <1>4, <1>5, <1>6, <1>7

-----------------------------------------------------------------------------
(* What sending and receiving does to the connections *)

\* A queue after a line was appended, or lost.
LEMMA AppendedQueue ==
  ASSUME NEW S, NEW p \in Seq(S), NEW m \in S, NEW r, r \in {p, Append(p, m)}
  PROVE  /\ r \in Seq(S)
         /\ \A i \in DOMAIN r : (i \in DOMAIN p /\ r[i] = p[i]) \/ (i = Len(p) + 1 /\ r[i] = m)
OBVIOUS

\* A line to the PC is appended to the connection's queue, or lost.
LEMMA ToPcEffect ==
  ASSUME NEW cs \in Seq(Connections), NEW c \in DOMAIN cs, NEW m \in Lines
  PROVE  /\ ToPc(cs, c, m) \in Seq(Connections) /\ Len(ToPc(cs, c, m)) = Len(cs)
         /\ \A d \in DOMAIN cs : d # c => ToPc(cs, c, m)[d] = cs[d]
         /\ ToPc(cs, c, m)[c].toPhone = cs[c].toPhone
         /\ ToPc(cs, c, m)[c].toPc \in {cs[c].toPc, Append(cs[c].toPc, m)}
<1> DEFINE r == [cs[c] EXCEPT !.toPc = IF cs[c].pcOpen /\ cs[c].phoneOpen
                                           THEN Append(@, m) ELSE @]
<1>1. cs[c] \in Connections
  OBVIOUS
<1>2. /\ r \in Connections /\ r.toPhone = cs[c].toPhone
      /\ r.toPc \in {cs[c].toPc, Append(cs[c].toPc, m)}
  <2>1. Append(cs[c].toPc, m) \in Seq(Lines)
    BY <1>1 DEF Connections
  <2> QED
    BY <1>1, <2>1 DEF Connections
<1>3. ToPc(cs, c, m) = [cs EXCEPT ![c] = r]
  BY DEF ToPc
<1> HIDE DEF r
<1>4. c \in 1 .. Len(cs) /\ DOMAIN cs = 1 .. Len(cs)
  OBVIOUS
<1> QED
  BY <1>2, <1>3, <1>4, ExceptSeq

\* The same towards the phone.
LEMMA ToPhoneEffect ==
  ASSUME NEW cs \in Seq(Connections), NEW c \in DOMAIN cs, NEW m \in Requests
  PROVE  /\ ToPhone(cs, c, m) \in Seq(Connections) /\ Len(ToPhone(cs, c, m)) = Len(cs)
         /\ \A d \in DOMAIN cs : d # c => ToPhone(cs, c, m)[d] = cs[d]
         /\ ToPhone(cs, c, m)[c].toPc = cs[c].toPc
         /\ ToPhone(cs, c, m)[c].toPhone \in {cs[c].toPhone, Append(cs[c].toPhone, m)}
<1> DEFINE r == [cs[c] EXCEPT !.toPhone = IF cs[c].phoneOpen THEN Append(@, m) ELSE @]
<1>1. cs[c] \in Connections
  OBVIOUS
<1>2. /\ r \in Connections /\ r.toPc = cs[c].toPc
      /\ r.toPhone \in {cs[c].toPhone, Append(cs[c].toPhone, m)}
  <2>1. Append(cs[c].toPhone, m) \in Seq(Requests)
    BY <1>1 DEF Connections
  <2> QED
    BY <1>1, <2>1 DEF Connections
<1>3. ToPhone(cs, c, m) = [cs EXCEPT ![c] = r]
  BY DEF ToPhone
<1> HIDE DEF r
<1>4. c \in 1 .. Len(cs) /\ DOMAIN cs = 1 .. Len(cs)
  OBVIOUS
<1> QED
  BY <1>2, <1>3, <1>4, ExceptSeq

-----------------------------------------------------------------------------
(* Steps that send and receive nothing *)

\* No line is sent, received or lost.
SameLines ==
  /\ conns' \in Seq(Connections) /\ Len(conns') = Len(conns)
  /\ \A c \in DOMAIN conns :
       conns'[c].toPc = conns[c].toPc /\ conns'[c].toPhone = conns[c].toPhone

\* The newest connection looks the same to both sides.
LEMMA SameView ==
  ASSUME conns \in Seq(Connections), SameLines
  PROVE  /\ Cur' = Cur /\ Cur \in Nat
         /\ Cur # 0 => In' = In /\ Out' = Out
<1>1. Cur' = Cur /\ Cur \in Nat
  BY DEF SameLines, Cur
<1>2. Cur # 0 => Cur \in DOMAIN conns
  BY DEF Cur
<1> QED
  BY <1>1, <1>2 DEF SameLines, In, Out

\* What a step must keep for the connections to look the same to both sides.
SamePhone ==
  /\ phone'.pc = phone.pc /\ phone'.accepted = phone.accepted
  /\ phone'.authenticated = phone.authenticated /\ phone'.pending = phone.pending
  /\ phone'.armed = phone.armed /\ phone'.destination = phone.destination
  /\ phone'.session = phone.session

\* A step that keeps the lines, the phone, the keys and the reader keeps Wire.
LEMMA SameWire ==
  ASSUME TypeOK, Wire, SameLines, SamePhone, UNCHANGED <<media, installed, pm>>,
         reader'.pc = reader.pc, reader'.key = reader.key, reader'.session = reader.session
  PROVE  Wire' /\ (Used => Used') /\ (Used' => Used)
<1> USE DEF Wire
<1>1. conns \in Seq(Connections) /\ phone \in Phones
  BY DEF TypeOK
<1>2. /\ Cur' = Cur /\ Cur \in Nat
      /\ Cur # 0 => In' = In /\ Out' = Out
  BY <1>1, SameView
<1>3. Used' <=> Used
  BY <1>2 DEF Used, Resting, SamePhone, Quiet, NoReply
<1>4. OneToken'
  BY <1>2, <1>3 DEF OneToken, Resting, SamePhone, Quiet, NoReply
<1>5. Numbered'
  <2>1. DOMAIN conns' = DOMAIN conns
    BY <1>1 DEF SameLines, TypeOK
  <2> QED
    BY <1>2, <2>1 DEF Numbered, SameLines
<1>6. KeysGrow' /\ Serving'
  BY <1>2 DEF KeysGrow, Serving, SamePhone
<1>7. SameSession'
  <2> SUFFICES ASSUME phone.pc # "accepting", phone.accepted = Cur PROVE SameSession'
    BY <1>2 DEF SamePhone, SameSession
  <2>1. Cur # 0
    BY DEF Serving
  <2> QED
    BY <1>2, <2>1 DEF SamePhone, SameSession
<1> QED
  BY <1>3, <1>4, <1>5, <1>6, <1>7

\* A step that touches neither connections nor phone nor keys.
LEMMA StillWire ==
  ASSUME TypeOK, Wire, UNCHANGED <<conns, phone, pm, media, installed>>,
         reader'.pc = reader.pc, reader'.key = reader.key, reader'.session = reader.session
  PROVE  Wire' /\ (Used' <=> Used) /\ Cur' = Cur
<1>1. SameLines
  BY DEF SameLines, TypeOK
<1>2. SamePhone
  BY DEF SamePhone
<1> QED
  BY <1>1, <1>2, SameWire DEF Cur

\* A step of the phone or the network that leaves the desktop alone.
LEMMA SameDesk ==
  ASSUME Desk, UNCHANGED <<dart, ui, events, pc, media, client, reader>>, Cur' = Cur, Used => Used'
  PROVE  Desk'
BY DEF Desk, Threads, PcState, ToldOnce, Final

-----------------------------------------------------------------------------
(* The isolate thread *)

\* connectDevice: the connection before it has nothing left to say.
LEMMA ConnectDeviceStep ==
  ASSUME IInv, NEW pin \in Pins, ConnectDevice(pin) PROVE IInv'
<1> USE DEF IInv
<1>1. UNCHANGED <<dart, media, client, reader, terminated, conns, phone, pm, wrongs, installed, drops>>
  BY DEF ConnectDevice, phoneVars
<1>2. /\ ui.pc = "idle" /\ dart.isConnected = FALSE /\ events' = << >>
      /\ ui' = [pc |-> "closing", call |-> "connect"]
  BY DEF ConnectDevice, Idle, Darts, TypeOK
<1>3. /\ pc' \in Pcs /\ pc'.state = "AWAITING_CHALLENGE" /\ pc'.isStreaming = pc.isStreaming
  <2> DEFINE b == (pin = ShownPin(pm))
  <2>1. b \in BOOLEAN
    OBVIOUS
  <2>2. pc' = [pc EXCEPT !.pin = pin, !.fromScreen = b,
                         !.token = 0, !.state = "AWAITING_CHALLENGE"]
    BY DEF ConnectDevice
  <2>3. pc \in Pcs
    BY DEF TypeOK
  <2> HIDE DEF b
  <2> QED
    BY <2>1, <2>2, <2>3 DEF Pcs
<1>4. TypeOK'
  <2>1. ui' \in Uis /\ events' \in Seq(Statuses)
    BY <1>2 DEF Uis
  <2> QED
    BY <1>1, <1>3, <2>1 DEF TypeOK
<1>5. Wire' /\ (Used' <=> Used)
  BY <1>1, StillWire
<1>6. Cur' = Cur
  BY <1>1 DEF Cur
<1>7. ui'.pc = "closing" /\ ui'.call = "connect"
  BY <1>2
<1>8. Desk'
  <2>1. Threads'
    BY <1>1, <1>2, <1>6, <1>7 DEF Desk, Threads
  <2>2. pc.isStreaming = FALSE /\ (reader.pc = "exited" \/ Used)
    BY <1>2 DEF Desk, ToldOnce
  <2>3. PcState'
    BY <1>2, <1>3, <1>5, <1>6, <1>7, <2>2 DEF PcState
  <2>4. ToldOnce'
    BY <1>1, <1>3, <1>5, <2>2 DEF ToldOnce
  <2>5. Final'
    BY <1>7 DEF Final
  <2> QED
    BY <2>1, <2>3, <2>4, <2>5 DEF Desk
<1> QED
  BY <1>4, <1>5, <1>8

\* disconnectDevice, up to the native side or not.
LEMMA DisconnectDeviceStep == IInv /\ DisconnectDevice => IInv'
<1> SUFFICES ASSUME IInv, DisconnectDevice PROVE IInv'
  OBVIOUS
<1> USE DEF IInv
<1>1. UNCHANGED <<events, pc, media, client, reader, terminated, conns, phone, pm, wrongs,
                  installed, drops>>
  BY DEF DisconnectDevice, phoneVars
<1>2. Wire' /\ (Used' <=> Used) /\ Cur' = Cur
  BY <1>1, StillWire
<1>3. ui.pc = "idle"
  BY DEF DisconnectDevice, Idle
<1>4. CASE dart.nativeConnected
  <2>1. ui' = [pc |-> "closing", call |-> "disconnect"] /\ dart' = dart
    BY <1>4 DEF DisconnectDevice
  <2>2. ui'.pc = "closing" /\ ui'.call = "disconnect" /\ ui' \in Uis
    BY <2>1 DEF Uis
  <2>3. TypeOK'
    BY <1>1, <2>1, <2>2 DEF TypeOK
  <2>4. Desk'
    BY <1>1, <1>2, <1>3, <2>1, <2>2 DEF Desk, Threads, PcState, ToldOnce, Final
  <2> QED
    BY <1>2, <2>3, <2>4
<1>5. CASE ~dart.nativeConnected
  <2>1. dart' = [dart EXCEPT !.isConnected = FALSE] /\ ui' = ui /\ dart \in Darts
    BY <1>5 DEF DisconnectDevice, TypeOK
  <2>2. dart' \in Darts /\ dart.nativeConnected = FALSE /\ dart'.nativeConnected = FALSE
    BY <1>5, <2>1 DEF Darts
  <2>3. TypeOK'
    BY <1>1, <2>1, <2>2 DEF TypeOK
  <2>4. pc.isStreaming = FALSE /\ reader.pc = "exited"
    BY <1>3, <2>2 DEF Desk, Final
  <2>5. ui' = ui /\ dart'.nativeConnected = dart.nativeConnected
    BY <2>1, <2>2
  <2>6. Threads' /\ PcState'
    BY <1>1, <1>2, <2>5 DEF Desk, Threads, PcState
  <2>7. ToldOnce' /\ Final'
    BY <1>1, <1>2, <2>4, <2>5 DEF Desk, ToldOnce, Final
  <2> QED
    BY <1>2, <2>3, <2>6, <2>7 DEF Desk
<1> QED
  BY <1>4, <1>5

\* TcpControlClient::Disconnect up to the join.
LEMMA CloseSocketStep == IInv /\ CloseSocket => IInv'
<1> SUFFICES ASSUME IInv, CloseSocket PROVE IInv'
  OBVIOUS
<1> USE DEF IInv
<1>1. /\ UNCHANGED <<dart, events, pc, media, reader, terminated, phone, pm, wrongs, installed, drops>>
      /\ ui.pc = "closing"
  BY DEF CloseSocket, phoneVars
<1>2. CASE client.isConnected
  <2>1. /\ client' = [isConnected |-> FALSE, socket |-> 0]
        /\ conns' = [conns EXCEPT ![client.socket].pcOpen = FALSE]
        /\ ui' = [ui EXCEPT !.pc = "joining"]
    BY <1>2 DEF CloseSocket
  <2>2. ui' \in Uis /\ ui'.pc = "joining" /\ ui'.call = ui.call
    BY <2>1 DEF TypeOK, Uis
  <2>3. client' \in [isConnected : BOOLEAN, socket : Nat] /\ client'.isConnected = FALSE
    BY <2>1
  <2>4. client.socket = Cur /\ Cur # 0
    BY <1>2 DEF Desk, Threads, TypeOK
  <2>5. Cur \in 1 .. Len(conns) /\ conns[Cur] \in Connections
    BY <2>4 DEF Cur, TypeOK
  <2>6. SameLines
    <3> DEFINE r == [conns[Cur] EXCEPT !.pcOpen = FALSE]
    <3>1. r \in Connections /\ r.toPc = conns[Cur].toPc /\ r.toPhone = conns[Cur].toPhone
      BY <2>5 DEF Connections
    <3>2. conns' = [conns EXCEPT ![Cur] = r]
      BY <2>1, <2>4
    <3> HIDE DEF r
    <3> QED
      BY <2>5, <3>1, <3>2, ExceptSeq DEF SameLines, TypeOK
  <2>7. TypeOK'
    BY <1>1, <2>2, <2>3, <2>6 DEF TypeOK, SameLines
  <2>8. SamePhone
    BY <1>1 DEF SamePhone
  <2>9. Wire' /\ (Used' <=> Used) /\ Cur' = Cur
    BY <1>1, <2>6, <2>8, SameWire DEF Cur, SameLines
  <2>10. Desk'
    BY <1>1, <2>2, <2>3, <2>9 DEF Desk, Threads, PcState, ToldOnce, Final
  <2> QED
    BY <2>7, <2>9, <2>10
<1>3. CASE ~client.isConnected
  <2>1. ui' = [ui EXCEPT !.pc = "closed"] /\ UNCHANGED <<client, conns>>
    BY <1>3 DEF CloseSocket
  <2>2. ui' \in Uis /\ ui'.pc = "closed" /\ ui'.call = ui.call
    BY <2>1 DEF TypeOK, Uis
  <2>3. TypeOK'
    BY <1>1, <2>1, <2>2 DEF TypeOK
  <2>4. Wire' /\ (Used' <=> Used) /\ Cur' = Cur
    BY <1>1, <2>1, StillWire
  <2>5. client.isConnected = FALSE /\ reader.pc = "exited"
    BY <1>1, <1>3 DEF TypeOK, Desk, Threads
  <2>6. Desk'
    BY <1>1, <2>1, <2>2, <2>4, <2>5 DEF Desk, Threads, PcState, ToldOnce, Final
  <2> QED
    BY <2>3, <2>4, <2>6
<1> QED
  BY <1>2, <1>3

\* The join: from here on no reader is left.
LEMMA JoinReaderStep == IInv /\ JoinReader => IInv'
<1> SUFFICES ASSUME IInv, JoinReader PROVE IInv'
  OBVIOUS
<1> USE DEF IInv
<1>1. /\ UNCHANGED <<dart, events, pc, media, client, terminated, conns, phone, pm, wrongs, installed, drops>>
      /\ ui.pc = "joining" /\ reader.pc = "exited"
  BY DEF JoinReader, phoneVars
<1>2. reader' \in Readers /\ reader'.pc = reader.pc /\ reader'.conn = reader.conn
      /\ reader'.key = reader.key /\ reader'.session = reader.session
  BY DEF JoinReader, TypeOK, Readers
<1>3. ui' \in Uis /\ ui'.pc = "closed" /\ ui'.call = ui.call
  BY DEF JoinReader, TypeOK, Uis
<1>4. TypeOK'
  BY <1>1, <1>2, <1>3 DEF TypeOK
<1>5. Wire' /\ (Used' <=> Used) /\ Cur' = Cur
  BY <1>1, <1>2, StillWire
<1>6. Desk'
  BY <1>1, <1>2, <1>3, <1>5 DEF Desk, Threads, PcState, ToldOnce, Final
<1> QED
  BY <1>4, <1>5, <1>6

\* The phone cannot be reached.
LEMMA DialFailsStep == IInv /\ DialFails => IInv'
<1> SUFFICES ASSUME IInv, DialFails PROVE IInv'
  OBVIOUS
<1> USE DEF IInv
<1>1. /\ UNCHANGED <<events, media, client, reader, terminated, conns, phone, pm, wrongs, installed, drops>>
      /\ ui.pc = "closed" /\ ui.call = "connect"
  BY DEF DialFails, phoneVars
<1>2. pc' \in Pcs /\ pc'.state = "DISCONNECTED" /\ pc'.isStreaming = pc.isStreaming
  BY DEF DialFails, TypeOK, Pcs
<1>3. dart' \in Darts /\ dart'.isConnected = FALSE /\ dart'.nativeConnected = FALSE
  BY DEF DialFails, Darts
<1>4. ui' \in Uis /\ ui'.pc = "idle" /\ ui'.call = "none"
  BY DEF DialFails, Uis
<1>5. TypeOK'
  BY <1>1, <1>2, <1>3, <1>4 DEF TypeOK
<1>6. Wire' /\ (Used' <=> Used) /\ Cur' = Cur
  BY <1>1, StillWire
<1>7. Desk'
  BY <1>1, <1>2, <1>3, <1>4, <1>6 DEF Desk, Threads, PcState, ToldOnce, Final
<1> QED
  BY <1>5, <1>6, <1>7

\* The end of DisconnectDevice.
LEMMA ClearPairingStep == IInv /\ ClearPairing => IInv'
<1> SUFFICES ASSUME IInv, ClearPairing PROVE IInv'
  OBVIOUS
<1> USE DEF IInv
<1>1. /\ UNCHANGED <<events, media, client, reader, terminated, conns, phone, pm, wrongs, installed, drops>>
      /\ ui.pc = "closed" /\ ui.call = "disconnect"
  BY DEF ClearPairing, phoneVars
<1>2. pc' \in Pcs /\ pc'.state = "DISCONNECTED" /\ pc'.isStreaming = FALSE
  BY DEF ClearPairing, TypeOK, Pcs
<1>3. dart' \in Darts /\ dart'.isConnected = FALSE /\ dart'.nativeConnected = FALSE
  BY DEF ClearPairing, Darts
<1>4. ui' \in Uis /\ ui'.pc = "idle" /\ ui'.call = "none"
  BY DEF ClearPairing, Uis
<1>5. TypeOK'
  BY <1>1, <1>2, <1>3, <1>4 DEF TypeOK
<1>6. Wire' /\ (Used' <=> Used) /\ Cur' = Cur
  BY <1>1, StillWire
<1>7. Desk'
  BY <1>1, <1>2, <1>3, <1>4, <1>6 DEF Desk, Threads, PcState, ToldOnce, Final
<1> QED
  BY <1>5, <1>6, <1>7

\* The new connection is empty, and the phone has not seen it.
LEMMA DialSucceedsStep == IInv /\ DialSucceeds => IInv'
<1> SUFFICES ASSUME IInv, DialSucceeds PROVE IInv'
  OBVIOUS
<1> USE DEF IInv
<1> DEFINE new == [toPc |-> << >>, toPhone |-> << >>, pcOpen |-> TRUE, phoneOpen |-> TRUE]
<1>1. /\ UNCHANGED <<events, pc, media, phone, pm, wrongs, installed, drops>>
      /\ ui.pc = "closed" /\ ui.call = "connect"
  BY DEF DialSucceeds, phoneVars
<1>2. client' \in [isConnected : BOOLEAN, socket : Nat] /\ client'.isConnected = TRUE
      /\ client'.socket = Cur + 1
  BY DEF DialSucceeds, TypeOK, Cur
<1>3. reader' \in Readers /\ reader'.pc = "reading" /\ reader'.conn = Cur + 1
  BY DEF DialSucceeds, TypeOK, Cur, Readers
<1>4. dart' \in Darts /\ dart'.isConnected = TRUE /\ dart'.nativeConnected = TRUE
  BY DEF DialSucceeds, Darts
<1>5. ui' \in Uis /\ ui'.pc = "idle" /\ ui'.call = "none"
  BY DEF DialSucceeds, Uis
<1>6. terminated' \in BOOLEAN
  BY DEF DialSucceeds, TypeOK, Readers
<1>7. /\ conns' \in Seq(Connections) /\ Len(conns') = Len(conns) + 1
      /\ \A c \in DOMAIN conns' : c \in DOMAIN conns => conns'[c] = conns[c]
      /\ conns'[Len(conns) + 1] = new
      /\ \A c \in DOMAIN conns' : c \in DOMAIN conns \/ c = Len(conns) + 1
  <2>1. new \in Connections
    BY DEF Connections
  <2>2. conns' = Append(conns, new) /\ conns \in Seq(Connections)
    BY DEF DialSucceeds, TypeOK
  <2> HIDE DEF new
  <2> QED
    BY <2>1, <2>2
<1>8. Cur' = Cur + 1 /\ Cur \in Nat /\ In' = << >> /\ Out' = << >> /\ Cur' # 0
  BY <1>7 DEF Cur, In, Out, TypeOK
<1>9. TypeOK'
  BY <1>1, <1>2, <1>3, <1>4, <1>5, <1>6, <1>7 DEF TypeOK
<1>10. Wire'
  <2> USE DEF Wire
  <2>1. Quiet(<< >>) /\ NoReply(<< >>)
    BY DEF Quiet, NoReply
  <2>2. OneToken'
    BY <1>3, <1>8, <2>1 DEF OneToken, Resting
  <2>3. Numbered'
    <3>1. \A c \in DOMAIN conns' : c \notin DOMAIN conns => conns'[c].toPhone = << >>
      BY <1>7
    <3>2. \A c \in DOMAIN conns' : \A i \in DOMAIN conns'[c].toPhone :
            conns'[c].toPhone[i].type = "pairing_response" =>
              conns'[c].toPhone[i].key = c /\ c <= media.key.server
      BY <1>7, <3>1 DEF Numbered
    <3> QED
      BY <1>1, <1>8, <3>2 DEF Numbered
  <2>4. KeysGrow'
    BY <1>1, <1>3 DEF KeysGrow
  <2>5. Serving'
    BY <1>1, <1>8 DEF Serving, TypeOK, Phones
  <2>6. SameSession'
    BY <1>1, <1>8 DEF SameSession, Serving, TypeOK, Phones
  <2> QED
    BY <2>2, <2>3, <2>4, <2>5, <2>6
<1>11. Desk'
  <2>1. events = << >> /\ pc.state = "AWAITING_CHALLENGE" /\ pc.isStreaming = FALSE
    BY <1>1 DEF Desk, PcState, ToldOnce
  <2>2. Threads'
    BY <1>2, <1>3, <1>5, <1>8 DEF Threads
  <2>3. PcState' /\ Final'
    BY <1>1, <1>4, <1>5, <2>1 DEF PcState, Final
  <2>4. ToldOnce'
    BY <1>1, <1>4, <1>5, <2>1 DEF ToldOnce
  <2> QED
    BY <2>2, <2>3, <2>4 DEF Desk
<1> QED
  BY <1>9, <1>10, <1>11

\* A status tells of an error only if one was posted.
LEMMA HandleStatusStep == IInv /\ HandleStatus => IInv'
<1> SUFFICES ASSUME IInv, HandleStatus PROVE IInv'
  OBVIOUS
<1> USE DEF IInv
<1>1. /\ UNCHANGED <<ui, pc, media, client, reader, terminated, conns, phone, pm, wrongs, installed, drops>>
      /\ events # << >> /\ events' = Tail(events) /\ events \in Seq(Statuses)
  BY DEF HandleStatus, phoneVars, TypeOK
<1>2. /\ events' \in Seq(Statuses) /\ Head(events) = events[1] /\ 1 \in DOMAIN events
      /\ events[1] \in Statuses
      /\ \A i \in DOMAIN events' : i + 1 \in DOMAIN events /\ events'[i] = events[i + 1]
  BY <1>1
<1>3. PICK b \in Readings(Head(events)) : dart' = [dart EXCEPT !.isConnected = b]
  BY DEF HandleStatus
<1>4. b \in BOOLEAN /\ (b = FALSE => events[1] # "paired" \/ dart.isConnected = FALSE)
  BY <1>2, <1>3 DEF Readings, Statuses, TypeOK, Darts
<1>5. dart' \in Darts /\ dart'.isConnected = b /\ dart'.nativeConnected = dart.nativeConnected
  BY <1>3, <1>4 DEF TypeOK, Darts
<1>6. TypeOK'
  BY <1>1, <1>2, <1>5 DEF TypeOK
<1>7. Wire' /\ (Used' <=> Used) /\ Cur' = Cur
  BY <1>1, StillWire
<1>8. Desk'
  <2>1. Threads' /\ Final'
    BY <1>1, <1>5, <1>7 DEF Desk, Threads, Final
  <2>2. ui.pc = "idle" /\ ui.call # "connect"
    BY DEF HandleStatus, Idle, Desk, Threads
  <2>3. PcState'
    BY <1>1, <1>7, <2>2 DEF Desk, PcState
  <2>4. ToldOnce'
    BY <1>1, <1>2, <1>4, <1>5, <1>7 DEF Desk, ToldOnce
  <2> QED
    BY <2>1, <2>3, <2>4 DEF Desk
<1> QED
  BY <1>6, <1>7, <1>8

-----------------------------------------------------------------------------
(* Lines that come and go *)

\* A queue has lost its head, or everything, or nothing.
Shorter(q, r) == r = q \/ (q # << >> /\ r = Tail(q)) \/ r = << >>

\* Or it has gained a command that is not a part of the pairing.
Busier(p, r) == Shorter(p, r) \/ \E t \in Nat : r = Append(p, Command("requestIdr", t))

\* What is under way gets less, or more by commands; older connections may
\* have anything to say to a PC that no longer listens.
Calm ==
  /\ conns' \in Seq(Connections) /\ Len(conns') = Len(conns)
  /\ \A c \in DOMAIN conns : /\ c = Cur => Shorter(conns[c].toPc, conns'[c].toPc)
                             /\ Busier(conns[c].toPhone, conns'[c].toPhone)

\* What a shorter queue to the PC has left.
LEMMA ShorterQueue ==
  ASSUME NEW q \in Seq(Lines), NEW r, Shorter(q, r)
  PROVE  /\ Quiet(q) => Quiet(r)
         /\ q = << >> => r = << >>
         /\ Len(q) = 1 => r = q \/ r = << >>
<1>1. ASSUME q # << >>, r = Tail(q)
      PROVE  /\ \A i \in DOMAIN r : i + 1 \in DOMAIN q /\ r[i] = q[i + 1]
             /\ r \in Seq(Lines) /\ Len(r) = Len(q) - 1
  BY <1>1
<1>2. CASE r = q \/ r = << >>
  BY <1>2 DEF Quiet
<1>3. CASE q # << >> /\ r = Tail(q)
  <2>1. Len(q) = 1 => r = << >>
    BY <1>1, <1>3, EmptySeq
  <2> QED
    BY <1>1, <1>3, <2>1 DEF Quiet
<1> QED
  BY <1>2, <1>3 DEF Shorter

\* A busier queue to the phone has no responses and no greetings it had not before.
LEMMA BusierQueue ==
  ASSUME NEW p \in Seq(Requests), NEW r, Busier(p, r)
  PROVE  /\ NoReply(p) => NoReply(r)
         /\ \/ \A i \in DOMAIN r : r[i].type # "requestIdr" => i \in DOMAIN p /\ r[i] = p[i]
            \/ \A i \in DOMAIN r : i + 1 \in DOMAIN p /\ r[i] = p[i + 1]
<1>1. CASE r = p \/ r = << >>
  BY <1>1 DEF NoReply
<1>2. CASE p # << >> /\ r = Tail(p)
  <2>1. \A i \in DOMAIN r : i + 1 \in DOMAIN p /\ r[i] = p[i + 1]
    BY <1>2
  <2> QED
    BY <2>1 DEF NoReply
<1>3. CASE \E t \in Nat : r = Append(p, Command("requestIdr", t))
  <2> PICK t \in Nat : r = Append(p, Command("requestIdr", t))
    BY <1>3
  <2> DEFINE m == Command("requestIdr", t)
  <2>1. m.type = "requestIdr"
    BY DEF Command
  <2> HIDE DEF m
  <2>2. \A i \in DOMAIN r : (i \in DOMAIN p /\ r[i] = p[i]) \/ r[i] = m
    BY DEF m
  <2> QED
    BY <2>1, <2>2 DEF NoReply
<1> QED
  BY <1>1, <1>2, <1>3 DEF Busier, Shorter

\* Lines that only come and go this way keep Wire.
LEMMA CalmWire ==
  ASSUME TypeOK, Wire, Calm, SamePhone, UNCHANGED <<media, installed, pm, reader>>
  PROVE  Wire' /\ (Used => Used') /\ Cur' = Cur
<1> USE DEF Wire
<1>1. conns \in Seq(Connections) /\ phone \in Phones
  BY DEF TypeOK
<1>2. Cur' = Cur /\ Cur \in Nat /\ (Cur # 0 => Cur \in DOMAIN conns)
  BY <1>1 DEF Calm, Cur
<1>3. \A c \in DOMAIN conns :
        conns[c].toPc \in Seq(Lines) /\ conns[c].toPhone \in Seq(Requests)
  <2>1. \A c \in DOMAIN conns : conns[c] \in Connections
    BY <1>1
  <2> QED
    BY <2>1 DEF Connections
<1>4. Cur # 0 =>
        /\ Quiet(In) => Quiet(In')
        /\ In = << >> => In' = << >>
        /\ Len(In) = 1 => In' = In \/ In' = << >>
        /\ NoReply(Out) => NoReply(Out')
        /\ \/ \A i \in DOMAIN Out' : Out'[i].type # "requestIdr" => i \in DOMAIN Out /\ Out'[i] = Out[i]
           \/ \A i \in DOMAIN Out' : i + 1 \in DOMAIN Out /\ Out'[i] = Out[i + 1]
  <2> SUFFICES ASSUME Cur # 0
               PROVE  /\ Quiet(In) => Quiet(In')
                      /\ In = << >> => In' = << >>
                      /\ Len(In) = 1 => In' = In \/ In' = << >>
                      /\ NoReply(Out) => NoReply(Out')
                      /\ \/ \A i \in DOMAIN Out' : Out'[i].type # "requestIdr" => i \in DOMAIN Out /\ Out'[i] = Out[i]
                         \/ \A i \in DOMAIN Out' : i + 1 \in DOMAIN Out /\ Out'[i] = Out[i + 1]
    OBVIOUS
  <2>1. In \in Seq(Lines) /\ Out \in Seq(Requests)
    BY <1>2, <1>3 DEF In, Out
  <2>2. Shorter(In, In') /\ Busier(Out, Out')
    BY <1>2 DEF Calm, In, Out
  <2> QED
    BY <2>1, <2>2, ShorterQueue, BusierQueue
<1>5. Used => Used'
  BY <1>2, <1>4 DEF Used, Resting, SamePhone
<1>6. OneToken'
  <2> SUFFICES ASSUME Cur # 0 PROVE OneToken'
    BY <1>2 DEF OneToken
  <2>1. /\ phone'.accepted < Cur' => In' = << >> /\ NoReply(Out') /\ Resting'
        /\ phone'.accepted = Cur' /\ phone'.pc = "answering" =>
             In' = << >> /\ NoReply(Out') /\ Resting'
        /\ reader'.pc \in {"deriving", "responding"} => In' = << >> /\ NoReply(Out')
    BY <1>2, <1>4 DEF OneToken, Resting, SamePhone
  <2>2. ~Quiet(In') => Len(In') = 1 /\ NoReply(Out') /\ Resting'
    <3>1. ~Quiet(In') => ~Quiet(In) /\ In' = In
      <4>1. Quiet(<< >>)
        BY DEF Quiet
      <4> QED
        BY <1>4, <4>1 DEF OneToken
    <3> QED
      BY <1>4, <3>1 DEF OneToken, Resting
  <2>3. ASSUME NEW i \in DOMAIN Out', Out'[i].type = "pairing_response"
        PROVE  In' = << >> /\ \A j \in DOMAIN Out' : Out'[j].type = "pairing_response" => j = i
    <3>1. \E k \in DOMAIN Out : Out[k].type = "pairing_response"
      BY <1>4, <2>3
    <3>2. In' = << >>
      BY <1>4, <3>1 DEF OneToken
    <3>3. ASSUME NEW j \in DOMAIN Out', Out'[j].type = "pairing_response" PROVE j = i
      <4>1. CASE \A k \in DOMAIN Out' : Out'[k].type # "requestIdr" => k \in DOMAIN Out /\ Out'[k] = Out[k]
        BY <2>3, <3>3, <4>1 DEF OneToken
      <4>2. CASE \A k \in DOMAIN Out' : k + 1 \in DOMAIN Out /\ Out'[k] = Out[k + 1]
        <5>1. j + 1 = i + 1
          BY <2>3, <3>3, <4>2 DEF OneToken
        <5>2. i \in Int /\ j \in Int
          <6>1. conns'[Cur'] \in Connections
            BY <1>2 DEF Calm, Cur
          <6>2. Out' \in Seq(Requests)
            BY <6>1 DEF Out, Connections
          <6> QED
            BY <6>2
        <5> QED
          BY <5>1, <5>2
      <4> QED
        BY <1>4, <4>1, <4>2
    <3> QED
      BY <3>2, <3>3
  <2>4. ASSUME NEW i \in DOMAIN Out', Out'[i].type = "hello" PROVE Used'
    <3>1. \E k \in DOMAIN Out : Out[k].type = "hello"
      BY <1>4, <2>4
    <3> QED
      BY <1>5, <3>1 DEF OneToken
  <2> QED
    BY <2>1, <2>2, <2>3, <2>4 DEF OneToken
<1>7. Numbered'
  <2>1. ASSUME NEW c \in DOMAIN conns', NEW i \in DOMAIN conns'[c].toPhone,
               conns'[c].toPhone[i].type = "pairing_response"
        PROVE  conns'[c].toPhone[i].key = c /\ c <= media.key.server
    <3>1. c \in DOMAIN conns
      BY <1>1 DEF Calm
    <3>2. \E k \in DOMAIN conns[c].toPhone : conns[c].toPhone[k] = conns'[c].toPhone[i]
      <4>1. Busier(conns[c].toPhone, conns'[c].toPhone) /\ conns[c].toPhone \in Seq(Requests)
        BY <1>3, <3>1 DEF Calm
      <4> QED
        BY <2>1, <4>1, BusierQueue
    <3> QED
      BY <2>1, <3>1, <3>2 DEF Numbered
  <2>2. ASSUME Cur # 0, NEW i \in DOMAIN In', In'[i].type # "capabilities" PROVE In' = In
    <3>1. ~Quiet(In')
      BY <2>2 DEF Quiet
    <3>2. Quiet(<< >>)
      BY DEF Quiet
    <3> QED
      BY <1>4, <2>2, <3>1, <3>2 DEF OneToken
  <2> QED
    BY <1>2, <2>1, <2>2 DEF Numbered
<1>8. KeysGrow' /\ Serving'
  BY <1>2 DEF KeysGrow, Serving, SamePhone
<1>9. SameSession'
  <2> SUFFICES ASSUME phone.pc # "accepting", phone.accepted = Cur PROVE SameSession'
    BY <1>2 DEF SamePhone, SameSession
  <2>1. Cur # 0
    BY DEF Serving
  <2>2. ASSUME NEW i \in DOMAIN In', In'[i].type = "pairing_challenge" PROVE In' = In
    <3>1. ~Quiet(In')
      BY <2>2 DEF Quiet
    <3>2. Quiet(<< >>)
      BY DEF Quiet
    <3> QED
      BY <1>4, <2>1, <3>1, <3>2 DEF OneToken
  <2> QED
    BY <1>2, <2>1, <2>2 DEF SamePhone, SameSession
<1> QED
  BY <1>2, <1>5, <1>6, <1>7, <1>8, <1>9

\* The PC, or the phone, takes one line of a connection.
TakeIn(cs, c)  == [cs EXCEPT ![c].toPc = Tail(@)]
TakeOut(cs, c) == [cs EXCEPT ![c].toPhone = Tail(@)]

\* The connections after the PC took a line.
LEMMA TakeInEffect ==
  ASSUME NEW cs \in Seq(Connections), NEW c \in DOMAIN cs, cs[c].toPc # << >>
  PROVE  /\ TakeIn(cs, c) \in Seq(Connections) /\ Len(TakeIn(cs, c)) = Len(cs)
         /\ \A d \in DOMAIN cs : d # c => TakeIn(cs, c)[d] = cs[d]
         /\ TakeIn(cs, c)[c].toPhone = cs[c].toPhone /\ TakeIn(cs, c)[c].toPc = Tail(cs[c].toPc)
<1> DEFINE x == [cs[c] EXCEPT !.toPc = Tail(@)]
<1>1. cs[c] \in Connections /\ c \in 1 .. Len(cs)
  OBVIOUS
<1>2. x \in Connections /\ x.toPhone = cs[c].toPhone /\ x.toPc = Tail(cs[c].toPc)
  <2>1. Tail(cs[c].toPc) \in Seq(Lines)
    BY <1>1 DEF Connections
  <2> QED
    BY <1>1, <2>1 DEF Connections
<1>3. TakeIn(cs, c) = [cs EXCEPT ![c] = x]
  BY DEF TakeIn
<1> HIDE DEF x
<1> QED
  BY <1>1, <1>2, <1>3, ExceptSeq

\* The connections after the phone took a line.
LEMMA TakeOutEffect ==
  ASSUME NEW cs \in Seq(Connections), NEW c \in DOMAIN cs, cs[c].toPhone # << >>
  PROVE  /\ TakeOut(cs, c) \in Seq(Connections) /\ Len(TakeOut(cs, c)) = Len(cs)
         /\ \A d \in DOMAIN cs : d # c => TakeOut(cs, c)[d] = cs[d]
         /\ TakeOut(cs, c)[c].toPc = cs[c].toPc /\ TakeOut(cs, c)[c].toPhone = Tail(cs[c].toPhone)
<1> DEFINE x == [cs[c] EXCEPT !.toPhone = Tail(@)]
<1>1. cs[c] \in Connections /\ c \in 1 .. Len(cs)
  OBVIOUS
<1>2. x \in Connections /\ x.toPc = cs[c].toPc /\ x.toPhone = Tail(cs[c].toPhone)
  <2>1. Tail(cs[c].toPhone) \in Seq(Requests)
    BY <1>1 DEF Connections
  <2> QED
    BY <1>1, <2>1 DEF Connections
<1>3. TakeOut(cs, c) = [cs EXCEPT ![c] = x]
  BY DEF TakeOut
<1> HIDE DEF x
<1> QED
  BY <1>1, <1>2, <1>3, ExceptSeq

\* RequestIdr and the user's commands.
LEMMA SendCommandStep == IInv /\ SendCommand => IInv'
<1> SUFFICES ASSUME IInv, SendCommand PROVE IInv'
  OBVIOUS
<1> USE DEF IInv
<1>1. /\ UNCHANGED <<dart, ui, events, pc, media, client, reader, terminated, installed>>
      /\ UNCHANGED <<phone, pm, wrongs, drops>> /\ client.isConnected
      /\ conns' = Send(conns, Command("requestIdr", pc.token))
  BY DEF SendCommand, pcVars, phoneVars
<1>2. client.socket = Cur /\ Cur \in DOMAIN conns /\ pc.token \in Nat /\ conns \in Seq(Connections)
  BY <1>1 DEF Desk, Threads, TypeOK, Cur, Pcs
<1> DEFINE m == Command("requestIdr", pc.token)
<1>3. m \in Requests
  BY <1>2 DEF Command, Requests
<1>4. conns' = ToPhone(conns, Cur, m)
  BY <1>1, <1>2 DEF Send
<1>5. Calm
  <2>1. /\ conns' \in Seq(Connections) /\ Len(conns') = Len(conns)
        /\ \A d \in DOMAIN conns : d # Cur => conns'[d] = conns[d]
        /\ conns'[Cur].toPc = conns[Cur].toPc
        /\ conns'[Cur].toPhone \in {conns[Cur].toPhone, Append(conns[Cur].toPhone, m)}
    BY <1>2, <1>3, <1>4, ToPhoneEffect
  <2>2. Busier(conns[Cur].toPhone, conns'[Cur].toPhone)
    BY <1>2, <2>1 DEF Busier, Shorter
  <2>3. \A d \in DOMAIN conns : conns'[d].toPc = conns[d].toPc
                              /\ (d # Cur => conns'[d].toPhone = conns[d].toPhone)
    BY <2>1
  <2> QED
    BY <2>1, <2>2, <2>3 DEF Calm, Busier, Shorter
<1>6. TypeOK'
  BY <1>1, <1>5 DEF TypeOK, Calm
<1>7. Wire' /\ (Used => Used') /\ Cur' = Cur
  BY <1>1, <1>5, CalmWire DEF SamePhone
<1>8. Desk'
  BY <1>1, <1>7, SameDesk
<1> QED
  BY <1>6, <1>7, <1>8

\* A list of capabilities is read and forgotten.
LEMMA ReadCapabilitiesStep == IInv /\ ReadCapabilities => IInv'
<1> SUFFICES ASSUME IInv, ReadCapabilities PROVE IInv'
  OBVIOUS
<1> USE DEF IInv
<1>1. /\ UNCHANGED <<dart, ui, events, pc, media, client, reader, terminated, installed>>
      /\ UNCHANGED <<phone, pm, wrongs, drops>> /\ reader.pc = "reading"
      /\ conns[reader.conn].toPc # << >> /\ conns' = TakeIn(conns, reader.conn)
  BY DEF ReadCapabilities, Reads, Consumed, TakeIn, pcVars, phoneVars
<1>2. reader.conn = Cur /\ Cur \in DOMAIN conns /\ conns \in Seq(Connections)
  BY <1>1 DEF Desk, Threads, TypeOK, Cur
<1>3. Calm
  <2>1. /\ conns' \in Seq(Connections) /\ Len(conns') = Len(conns)
        /\ \A d \in DOMAIN conns : d # Cur => conns'[d] = conns[d]
        /\ conns'[Cur].toPhone = conns[Cur].toPhone /\ conns'[Cur].toPc = Tail(conns[Cur].toPc)
    BY <1>1, <1>2, TakeInEffect
  <2> QED
    BY <1>1, <1>2, <2>1 DEF Calm, Busier, Shorter
<1>4. TypeOK'
  BY <1>1, <1>3 DEF TypeOK, Calm
<1>5. Wire' /\ (Used => Used') /\ Cur' = Cur
  BY <1>1, <1>3, CalmWire DEF SamePhone
<1>6. Desk'
  BY <1>1, <1>5, SameDesk
<1> QED
  BY <1>4, <1>5, <1>6

\* The network loses a connection.
LEMMA DropStep == ASSUME IInv, NEW c \in DOMAIN conns, Drop(c) PROVE IInv'
<1> USE DEF IInv
<1> DEFINE lost == [toPc |-> << >>, toPhone |-> << >>, pcOpen |-> FALSE, phoneOpen |-> FALSE]
<1>1. /\ UNCHANGED <<dart, ui, events, pc, media, client, reader, terminated, installed>>
      /\ UNCHANGED <<phone, pm, wrongs>>
      /\ conns' = [conns EXCEPT ![c] = lost]
  BY DEF Drop, pcVars, phoneVars
<1>2. lost \in Connections /\ lost.toPc = << >> /\ lost.toPhone = << >>
  BY DEF Connections
<1>3. conns \in Seq(Connections) /\ c \in 1 .. Len(conns)
  BY DEF TypeOK
<1> HIDE DEF lost
<1>4. Calm
  BY <1>1, <1>2, <1>3, ExceptSeq DEF Calm, Busier, Shorter
<1>5. drops' \in Nat
  BY DEF Drop, TypeOK
<1>6. TypeOK'
  BY <1>1, <1>4, <1>5 DEF TypeOK, Calm
<1>7. Wire' /\ (Used => Used') /\ Cur' = Cur
  BY <1>1, <1>4, CalmWire DEF SamePhone
<1>8. Desk'
  BY <1>1, <1>7, SameDesk
<1> QED
  BY <1>6, <1>7, <1>8

-----------------------------------------------------------------------------
(* The reader thread *)

\* The line the reader takes is the first of the newest connection; unless it
\* is a mere list of capabilities it is the only one, and no response is out.
LEMMA ReaderLine ==
  ASSUME IInv, NEW t, Reads(t), conns' = TakeIn(conns, reader.conn)
  PROVE  /\ reader.pc = "reading" /\ reader.conn = Cur /\ Cur # 0 /\ Cur \in DOMAIN conns
         /\ Line = In[1] /\ 1 \in DOMAIN In /\ Line \in Lines /\ Line.type = t
         /\ conns' \in Seq(Connections) /\ Cur' = Cur
         /\ \A d \in DOMAIN conns : d # Cur => conns'[d] = conns[d]
         /\ Out' = Out /\ Out \in Seq(Requests)
         /\ t # "capabilities" =>
              /\ ~Quiet(In) /\ In' = << >> /\ NoReply(Out)
              /\ phone.accepted = Cur /\ phone.pc # "answering"
<1> USE DEF IInv
<1>1. reader.pc = "reading" /\ conns[reader.conn].toPc # << >> /\ Line.type = t
  BY DEF Reads, Line
<1>2. reader.conn = Cur /\ Cur # 0 /\ Cur \in DOMAIN conns /\ conns \in Seq(Connections)
  BY <1>1 DEF Desk, Threads, TypeOK, Cur
<1>3. In # << >> /\ In \in Seq(Lines) /\ Out \in Seq(Requests)
  <2>1. conns[Cur] \in Connections
    BY <1>2
  <2> QED
    BY <1>1, <1>2, <2>1 DEF In, Out, Connections
<1>4. Line = In[1] /\ 1 \in DOMAIN In /\ Line \in Lines
  <2>1. Line = Head(In)
    BY <1>2 DEF Line, In
  <2> QED
    BY <1>3, <2>1
<1>5. /\ conns' \in Seq(Connections) /\ Len(conns') = Len(conns)
      /\ \A d \in DOMAIN conns : d # Cur => conns'[d] = conns[d]
      /\ conns'[Cur].toPhone = conns[Cur].toPhone /\ conns'[Cur].toPc = Tail(conns[Cur].toPc)
  BY <1>1, <1>2, TakeInEffect
<1>6. Cur' = Cur /\ Out' = Out /\ In' = Tail(In)
  BY <1>5 DEF Cur, Out, In
<1>7. ASSUME t # "capabilities"
      PROVE  /\ ~Quiet(In) /\ In' = << >> /\ NoReply(Out)
             /\ phone.accepted = Cur /\ phone.pc # "answering"
  <2>1. ~Quiet(In)
    BY <1>1, <1>4, <1>7 DEF Quiet
  <2>2. Len(In) = 1 /\ NoReply(Out)
    BY <1>2, <2>1 DEF Wire, OneToken
  <2>3. Tail(In) \in Seq(Lines) /\ Len(Tail(In)) = 0
    BY <1>3, <2>2
  <2>4. In' = << >>
    BY <1>6, <2>3, EmptySeq
  <2>5. phone.accepted \in Nat /\ Cur \in Nat /\ phone.accepted <= Cur /\ ~(phone.accepted < Cur)
    BY <1>2, <1>3 DEF Wire, OneToken, Serving, TypeOK, Phones, Cur
  <2>6. phone.accepted = Cur
    BY <2>5
  <2>7. phone.pc # "answering"
    BY <1>2, <1>3, <2>6 DEF Wire, OneToken
  <2> QED
    BY <2>1, <2>2, <2>4, <2>6, <2>7
<1> QED
  BY <1>1, <1>2, <1>3, <1>4, <1>5, <1>6, <1>7

\* HandlePairingChallenge, first critical section.
LEMMA CheckChallengeStep == IInv /\ CheckChallenge => IInv'
<1> SUFFICES ASSUME IInv, CheckChallenge PROVE IInv'
  OBVIOUS
<1> USE DEF IInv
<1>1. /\ UNCHANGED <<dart, ui, events, pc, media, client, terminated, installed, phone, pm, wrongs, drops>>
      /\ Reads("pairing_challenge") /\ conns' = TakeIn(conns, reader.conn)
  BY DEF CheckChallenge, Consumed, TakeIn, phoneVars
<1>2. /\ reader.pc = "reading" /\ reader.conn = Cur /\ Cur # 0 /\ Cur \in DOMAIN conns
      /\ Line = In[1] /\ 1 \in DOMAIN In /\ Line \in Lines /\ Line.type = "pairing_challenge"
      /\ conns' \in Seq(Connections) /\ Cur' = Cur
      /\ \A d \in DOMAIN conns : d # Cur => conns'[d] = conns[d]
      /\ Out' = Out /\ ~Quiet(In) /\ In' = << >> /\ NoReply(Out) /\ phone.accepted = Cur
  BY <1>1, ReaderLine
<1>3. /\ Line.key = Cur /\ media.key.server < Cur /\ Line.session \in Nat
      /\ phone.pc # "accepting" => Line.session = phone.session
  <2>1. Line.session \in Nat
    BY <1>2 DEF Lines
  <2> QED
    BY <1>2, <2>1 DEF Wire, Numbered, SameSession
<1>4. /\ reader' \in Readers /\ reader'.conn = reader.conn /\ reader'.pc \in {"reading", "deriving"}
      /\ reader'.pc = "deriving" => reader'.key = Cur /\ reader'.session = Line.session
  <2>1. reader' = reader \/ reader' = [reader EXCEPT !.pc = "deriving", !.key = Line.key,
                                                    !.session = Line.session]
    BY DEF CheckChallenge
  <2>2. reader \in Readers /\ Cur \in Nat
    BY DEF TypeOK, Cur
  <2> QED
    BY <1>2, <1>3, <2>1, <2>2 DEF Readers
<1>5. TypeOK'
  BY <1>1, <1>2, <1>4 DEF TypeOK
<1>6. ~Used /\ \A i \in DOMAIN Out : Out[i].type # "hello"
  BY <1>2 DEF Wire, OneToken, Used
<1>7. Wire'
  <2> USE DEF Wire
  <2>1. Quiet(<< >>)
    BY DEF Quiet
  <2>2. OneToken'
    BY <1>1, <1>2, <1>6, <2>1 DEF OneToken, NoReply
  <2>3. Numbered'
    <3>1. DOMAIN conns' = DOMAIN conns
      BY <1>2 DEF Cur, TypeOK
    <3>2. \A d \in DOMAIN conns : conns'[d].toPhone = conns[d].toPhone
      BY <1>2 DEF Out
    <3> QED
      BY <1>1, <1>2, <3>1, <3>2 DEF Numbered
  <2>4. KeysGrow' /\ Serving'
    BY <1>1, <1>2, <1>3, <1>4 DEF KeysGrow, Serving
  <2>5. SameSession'
    BY <1>1, <1>2, <1>3, <1>4 DEF SameSession
  <2> QED
    BY <2>2, <2>3, <2>4, <2>5
<1>8. Desk'
  <2>1. Threads'
    BY <1>1, <1>2, <1>4 DEF Desk, Threads
  <2>2. pc.isStreaming # TRUE /\ reader.pc # "exited"
    BY <1>2, <1>6 DEF Desk, PcState
  <2>3. PcState' /\ ToldOnce' /\ Final'
    BY <1>1, <1>2, <1>6, <2>2 DEF Desk, PcState, ToldOnce, Final
  <2> QED
    BY <2>1, <2>3 DEF Desk
<1> QED
  BY <1>5, <1>7, <1>8

\* While the reader works on a challenge nothing else is under way, and the user
\* has been told nothing yet.
LEMMA ReaderBusy ==
  ASSUME IInv, reader.pc \in {"deriving", "responding"}
  PROVE  /\ Cur # 0 /\ Cur \in Nat /\ Cur \in DOMAIN conns /\ reader.conn = Cur
         /\ In = << >> /\ NoReply(Out) /\ phone.accepted = Cur /\ ~Used
         /\ phone.pc # "answering"
         /\ pc.isStreaming = FALSE /\ ui.call # "connect" /\ dart.isConnected = TRUE
         /\ \A i \in DOMAIN events : events[i] = "paired"
         /\ \A i \in DOMAIN Out : Out[i].type # "hello"
<1> USE DEF IInv
<1>1. Cur # 0 /\ reader.conn = Cur
  BY DEF Desk, Threads
<1>2. Cur \in Nat /\ Cur \in DOMAIN conns
  BY <1>1 DEF Cur, TypeOK
<1>3. ~Used /\ ~Resting
  BY DEF Used, Resting
<1>4. In = << >> /\ NoReply(Out) /\ ~(phone.accepted < Cur) /\ \A i \in DOMAIN Out : Out[i].type # "hello"
  BY <1>1, <1>3 DEF Wire, OneToken
<1>5. phone.accepted = Cur
  BY <1>2, <1>4 DEF Wire, Serving, TypeOK, Phones
<1>6. pc.isStreaming = FALSE
  BY <1>3 DEF Desk, PcState, TypeOK, Pcs
<1>7. ui.call # "connect" /\ dart.isConnected = TRUE /\ \A i \in DOMAIN events : events[i] = "paired"
  BY <1>3 DEF Desk, ToldOnce, TypeOK, Darts
<1>8. phone.pc # "answering"
  BY <1>1, <1>3, <1>5 DEF Wire, OneToken
<1> QED
  BY <1>1, <1>2, <1>3, <1>4, <1>5, <1>6, <1>7, <1>8

\* No key: the user is told, and the connection is used up.
LEMMA DeriveFailsStep == IInv /\ DeriveFails => IInv'
<1> SUFFICES ASSUME IInv, DeriveFails PROVE IInv'
  OBVIOUS
<1> USE DEF IInv
<1>1. /\ UNCHANGED <<dart, ui, pc, media, client, terminated, conns, phone, pm, wrongs, installed, drops>>
      /\ reader.pc = "deriving" /\ events' = Append(events, "pairing_error")
  BY DEF DeriveFails, phoneVars
<1>2. reader' \in Readers /\ reader'.pc = "reading" /\ reader'.conn = reader.conn
  BY DEF DeriveFails, TypeOK, Readers
<1>3. events' \in Seq(Statuses)
  BY <1>1 DEF TypeOK, Statuses
<1>4. TypeOK'
  BY <1>1, <1>2, <1>3 DEF TypeOK
<1>5. /\ Cur # 0 /\ Cur \in Nat /\ Cur \in DOMAIN conns /\ reader.conn = Cur
      /\ In = << >> /\ NoReply(Out) /\ phone.accepted = Cur /\ phone.pc # "answering"
      /\ pc.isStreaming = FALSE /\ ui.call # "connect"
      /\ \A i \in DOMAIN Out : Out[i].type # "hello"
  BY <1>1, ReaderBusy
<1>6. Cur' = Cur /\ In' = In /\ Out' = Out /\ Quiet(In) /\ Resting'
  BY <1>1, <1>2, <1>5 DEF Cur, In, Out, Quiet, Resting
<1>7. Used'
  BY <1>1, <1>5, <1>6 DEF Used
<1>8. Wire'
  <2> USE DEF Wire
  <2>1. OneToken'
    BY <1>1, <1>5, <1>6, <1>7 DEF OneToken, NoReply
  <2>2. Numbered'
    BY <1>1, <1>6 DEF Numbered
  <2>3. KeysGrow' /\ Serving' /\ SameSession'
    BY <1>1, <1>2, <1>6 DEF KeysGrow, Serving, SameSession
  <2> QED
    BY <2>1, <2>2, <2>3
<1>9. Desk'
  <2>1. Threads'
    BY <1>1, <1>2, <1>6 DEF Desk, Threads
  <2>2. PcState' /\ Final'
    BY <1>1, <1>5, <1>6 DEF Desk, PcState, Final
  <2>3. ToldOnce'
    BY <1>1, <1>5, <1>7 DEF ToldOnce
  <2> QED
    BY <2>1, <2>2, <2>3 DEF Desk
<1> QED
  BY <1>4, <1>8, <1>9

\* Second critical section: the key is one the reassembler never had.
LEMMA InstallKeyStep == IInv /\ InstallKey => IInv'
<1> SUFFICES ASSUME IInv, InstallKey PROVE IInv'
  OBVIOUS
<1> USE DEF IInv
<1> DEFINE key == DeriveSessionKeys(reader.key, reader.conn)
<1>1. /\ UNCHANGED <<dart, ui, events, client, terminated, conns, phone, pm, wrongs, drops>>
      /\ reader.pc = "deriving" /\ installed' = installed \cup {key}
      /\ media' = [key |-> key, session |-> reader.session]
  BY DEF InstallKey, phoneVars
<1>2. reader' \in Readers /\ reader'.pc = "responding" /\ reader'.conn = reader.conn
  BY DEF InstallKey, TypeOK, Readers
<1>3. pc' \in Pcs /\ pc'.state = "AWAITING_PAIRING_OK" /\ pc'.isStreaming = pc.isStreaming
  BY DEF InstallKey, TypeOK, Pcs
<1>4. /\ Cur # 0 /\ Cur \in Nat /\ Cur \in DOMAIN conns /\ reader.conn = Cur
      /\ In = << >> /\ NoReply(Out) /\ phone.accepted = Cur /\ ~Used /\ phone.pc # "answering"
      /\ pc.isStreaming = FALSE /\ ui.call # "connect" /\ dart.isConnected = TRUE
      /\ \A i \in DOMAIN events : events[i] = "paired"
      /\ \A i \in DOMAIN Out : Out[i].type # "hello"
  BY <1>1, ReaderBusy
<1>5. /\ key \in Keys /\ key.server = Cur /\ key.client = Cur /\ media.key.server < Cur
      /\ media.key.server \in Nat
  BY <1>1, <1>4 DEF Wire, KeysGrow, DeriveSessionKeys, Keys, TypeOK, Readers
<1> HIDE DEF key
<1>6. /\ media' \in [key : Keys, session : Nat] /\ installed' \subseteq Keys
      /\ media'.key = key /\ media'.session = reader.session
  BY <1>1, <1>5 DEF TypeOK, Readers
<1>7. TypeOK'
  BY <1>1, <1>2, <1>3, <1>6 DEF TypeOK
<1>8. Cur' = Cur /\ In' = In /\ Out' = Out /\ Quiet(In)
  BY <1>1, <1>4 DEF Cur, In, Out, Quiet
<1>9. Wire'
  <2> USE DEF Wire
  <2>1. OneToken'
    BY <1>1, <1>4, <1>8 DEF OneToken, NoReply
  <2>2. Numbered'
    <3>1. \A c \in DOMAIN conns : c \in Nat
      BY DEF TypeOK
    <3>2. \A c \in DOMAIN conns : c <= media.key.server => c <= Cur
      BY <1>4, <1>5, <3>1
    <3> QED
      BY <1>1, <1>4, <1>5, <1>6, <1>8, <3>2 DEF Numbered
  <2>3. KeysGrow'
    <3>1. \A k \in installed : k.server \in Nat
      BY DEF TypeOK, Keys
    <3>2. \A k \in installed' : k.client = k.server /\ k.server # 0 /\ k.server <= Cur
      BY <1>1, <1>4, <1>5, <3>1 DEF KeysGrow
    <3> QED
      BY <1>1, <1>2, <1>4, <1>5, <1>6, <1>8, <3>2 DEF KeysGrow
  <2>4. Serving'
    BY <1>1, <1>4, <1>8 DEF Serving
  <2>5. SameSession'
    BY <1>1, <1>2, <1>4, <1>6, <1>8 DEF SameSession
  <2> QED
    BY <2>1, <2>2, <2>3, <2>4, <2>5
<1>10. Desk'
  <2>1. Threads'
    BY <1>1, <1>2, <1>8 DEF Desk, Threads
  <2>2. PcState'
    BY <1>1, <1>3, <1>4, <1>5, <1>6, <1>8 DEF PcState
  <2>3. ToldOnce'
    BY <1>1, <1>4 DEF ToldOnce
  <2>4. Final'
    BY <1>1 DEF Desk, Final
  <2> QED
    BY <2>1, <2>2, <2>3, <2>4 DEF Desk
<1> QED
  BY <1>7, <1>9, <1>10

\* The response, on the connection the challenge came from.
LEMMA RespondStep == IInv /\ Respond => IInv'
<1> SUFFICES ASSUME IInv, Respond PROVE IInv'
  OBVIOUS
<1> USE DEF IInv
<1> DEFINE m == Response(pc.pin, Cur)
<1>1. /\ UNCHANGED <<dart, ui, events, pc, media, client, terminated, phone, pm, wrongs, installed, drops>>
      /\ reader.pc = "responding" /\ conns' = Send(conns, Response(pc.pin, reader.conn))
  BY DEF Respond, phoneVars
<1>2. reader' \in Readers /\ reader'.pc = "reading" /\ reader'.conn = reader.conn
  BY DEF Respond, TypeOK, Readers
<1>3. /\ Cur # 0 /\ Cur \in Nat /\ Cur \in DOMAIN conns /\ reader.conn = Cur
      /\ In = << >> /\ NoReply(Out) /\ phone.accepted = Cur /\ ~Used /\ phone.pc # "answering"
      /\ pc.isStreaming = FALSE /\ ui.call # "connect" /\ dart.isConnected = TRUE
      /\ \A i \in DOMAIN events : events[i] = "paired"
      /\ \A i \in DOMAIN Out : Out[i].type # "hello"
  BY <1>1, ReaderBusy
<1>4. m \in Requests /\ m.type = "pairing_response" /\ m.key = Cur
  BY <1>3 DEF Response, Requests, TypeOK, Pcs
<1> HIDE DEF m
<1>5. conns' = conns \/ conns' = ToPhone(conns, Cur, m)
  BY <1>1, <1>3 DEF Send, m, Desk, Threads, TypeOK
<1>6. /\ conns' \in Seq(Connections) /\ Cur' = Cur /\ DOMAIN conns' = DOMAIN conns
      /\ \A d \in DOMAIN conns : d # Cur => conns'[d] = conns[d]
      /\ In' = In /\ Out' \in {Out, Append(Out, m)} /\ Out \in Seq(Requests)
  <2>1. conns \in Seq(Connections) /\ conns[Cur] \in Connections
    BY <1>3 DEF TypeOK
  <2>2. /\ conns' \in Seq(Connections) /\ Len(conns') = Len(conns)
        /\ \A d \in DOMAIN conns : d # Cur => conns'[d] = conns[d]
        /\ conns'[Cur].toPc = conns[Cur].toPc
        /\ conns'[Cur].toPhone \in {conns[Cur].toPhone, Append(conns[Cur].toPhone, m)}
    BY <1>3, <1>4, <1>5, <2>1, ToPhoneEffect
  <2>3. Out \in Seq(Requests)
    BY <2>1 DEF Out, Connections
  <2>4. Cur' = Cur /\ DOMAIN conns' = DOMAIN conns
    BY <2>1, <2>2 DEF Cur
  <2> QED
    BY <2>2, <2>3, <2>4 DEF In, Out
<1>7. \A i \in DOMAIN Out' : (i \in DOMAIN Out /\ Out'[i] = Out[i]) \/ (i = Len(Out) + 1 /\ Out'[i] = m)
  BY <1>6
<1>8. TypeOK'
  BY <1>1, <1>2, <1>6 DEF TypeOK
<1>9. Wire'
  <2> USE DEF Wire
  <2>1. Quiet(In') /\ Resting'
    BY <1>2, <1>3, <1>6 DEF Quiet, Resting
  <2>2. \A i \in DOMAIN Out' : Out'[i].type = "pairing_response" => i = Len(Out) + 1
    BY <1>3, <1>7 DEF NoReply
  <2>3. \A i \in DOMAIN Out' : Out'[i].type # "hello"
    BY <1>3, <1>4, <1>7
  <2>4. OneToken'
    BY <1>1, <1>2, <1>3, <1>6, <2>1, <2>2, <2>3 DEF OneToken
  <2>5. Numbered'
    <3>1. media.key.server = Cur
      BY <1>1 DEF KeysGrow
    <3>2. \A i \in DOMAIN Out' : Out'[i].type = "pairing_response" => Out'[i].key = Cur
      BY <1>3, <1>4, <1>7 DEF NoReply
    <3>3. Out' = conns'[Cur].toPhone
      BY <1>6 DEF Out
    <3>4. ASSUME NEW c \in DOMAIN conns', NEW i \in DOMAIN conns'[c].toPhone,
                 conns'[c].toPhone[i].type = "pairing_response"
          PROVE  conns'[c].toPhone[i].key = c /\ c <= media.key.server
      <4>1. CASE c = Cur
        BY <1>3, <3>1, <3>2, <3>3, <3>4, <4>1
      <4>2. CASE c # Cur
        BY <1>6, <3>4, <4>2 DEF Numbered
      <4> QED
        BY <4>1, <4>2
    <3> QED
      BY <1>1, <1>3, <1>6, <3>4 DEF Numbered
  <2>6. KeysGrow' /\ Serving'
    BY <1>1, <1>2, <1>6 DEF KeysGrow, Serving
  <2>7. SameSession'
    BY <1>1, <1>2, <1>6 DEF SameSession
  <2> QED
    BY <2>4, <2>5, <2>6, <2>7
<1>10. Desk'
  <2>1. Threads'
    BY <1>1, <1>2, <1>6 DEF Desk, Threads
  <2>2. PcState' /\ ToldOnce' /\ Final'
    BY <1>1, <1>3, <1>6 DEF Desk, PcState, ToldOnce, Final
  <2> QED
    BY <2>1, <2>2 DEF Desk
<1> QED
  BY <1>8, <1>9, <1>10

\* A verdict finds a PC that has told the user nothing yet.
LEMMA VerdictIsNews ==
  ASSUME IInv, reader.pc = "reading", ~Used
  PROVE  /\ ui.call # "connect" /\ dart.isConnected = TRUE /\ pc.isStreaming = FALSE
         /\ \A i \in DOMAIN events : events[i] = "paired"
         /\ ~(ui.pc = "idle" /\ dart.nativeConnected = FALSE)
<1> USE DEF IInv
<1>1. pc.isStreaming = FALSE
  BY DEF Desk, PcState, TypeOK, Pcs
<1>2. ui.call # "connect" /\ dart.isConnected = TRUE /\ \A i \in DOMAIN events : events[i] = "paired"
  BY DEF Desk, ToldOnce, TypeOK, Darts
<1>3. ~(ui.pc = "idle" /\ dart.nativeConnected = FALSE)
  BY DEF Desk, Final
<1> QED
  BY <1>1, <1>2, <1>3

\* HandlePairingResult with a token: the two commands it sends find the pairing
\* over.
LEMMA HandlePairingOkStep == IInv /\ HandlePairingOk => IInv'
<1> SUFFICES ASSUME IInv, HandlePairingOk PROVE IInv'
  OBVIOUS
<1> USE DEF IInv
<1> DEFINE cs == TakeIn(conns, reader.conn)
           a  == Command("startStream", Line.token)
           b  == Command("hello", Line.token)
<1>1. /\ UNCHANGED <<dart, ui, media, client, reader, terminated, installed, phone, pm, wrongs, drops>>
      /\ Reads("pairing_ok") /\ events' = Append(events, "paired")
      /\ conns' = Send(Send(cs, a), b)
  BY DEF HandlePairingOk, Consumed, TakeIn, phoneVars
<1>2. /\ reader.pc = "reading" /\ reader.conn = Cur /\ Cur # 0 /\ Cur \in DOMAIN conns /\ Cur \in Nat
      /\ conns[Cur].toPc # << >> /\ Line = In[1] /\ Line.type = "pairing_ok"
      /\ conns \in Seq(Connections)
  <2>1. reader.pc = "reading" /\ conns[reader.conn].toPc # << >> /\ Line.type = "pairing_ok"
    BY <1>1 DEF Reads, Line
  <2>2. reader.conn = Cur /\ Cur # 0 /\ conns \in Seq(Connections)
    BY <2>1 DEF Desk, Threads, TypeOK
  <2>3. Cur \in DOMAIN conns /\ Cur \in Nat
    BY <2>2 DEF Cur
  <2>4. conns[Cur] \in Connections
    BY <2>2, <2>3
  <2>5. Line = In[1]
    BY <2>1, <2>2, <2>4 DEF Line, In, Connections
  <2> QED
    BY <2>1, <2>2, <2>3, <2>5
<1>3. /\ In \in Seq(Lines) /\ Out \in Seq(Requests) /\ 1 \in DOMAIN In
      /\ ~Quiet(In) /\ Len(In) = 1 /\ NoReply(Out) /\ phone.accepted = Cur /\ ~Used
      /\ phone.pc # "answering"
  <2>1. conns[Cur] \in Connections
    BY <1>2
  <2>2. In \in Seq(Lines) /\ Out \in Seq(Requests) /\ In # << >>
    BY <1>2, <2>1 DEF In, Out, Connections
  <2>3. 1 \in DOMAIN In
    BY <2>2
  <2>4. ~Quiet(In)
    BY <1>2, <2>3 DEF Quiet
  <2>5. Len(In) = 1 /\ NoReply(Out) /\ ~(phone.accepted < Cur)
    BY <1>2, <2>2, <2>4 DEF Wire, OneToken
  <2>6. phone.accepted = Cur
    BY <1>2, <2>5 DEF Wire, Serving, TypeOK, Phones
  <2>7. phone.pc # "answering"
    BY <1>2, <2>2, <2>6 DEF Wire, OneToken
  <2> QED
    BY <2>2, <2>3, <2>4, <2>5, <2>6, <2>7 DEF Used
<1>4. Line.token = Cur /\ media.key.server = Cur
  BY <1>2, <1>3 DEF Wire, Numbered
<1>5. a \in Requests /\ b \in Requests /\ a.type = "startStream" /\ b.type = "hello"
  BY <1>2, <1>4 DEF Command, Requests
<1>6. pc' \in Pcs /\ pc'.token = Cur /\ pc'.state = "PAIRED" /\ pc'.isStreaming = TRUE
  <2>1. pc' = [pc EXCEPT !.token = Cur, !.state = "PAIRED", !.isStreaming = TRUE]
    BY <1>4 DEF HandlePairingOk
  <2> QED
    BY <1>2, <2>1 DEF TypeOK, Pcs
<1>7. /\ cs \in Seq(Connections) /\ Len(cs) = Len(conns)
      /\ \A d \in DOMAIN conns : d # Cur => cs[d] = conns[d]
      /\ cs[Cur].toPhone = Out /\ cs[Cur].toPc = << >>
  <2>1. /\ cs \in Seq(Connections) /\ Len(cs) = Len(conns)
        /\ \A d \in DOMAIN conns : d # Cur => cs[d] = conns[d]
        /\ cs[Cur].toPhone = conns[Cur].toPhone /\ cs[Cur].toPc = Tail(conns[Cur].toPc)
    BY <1>2, TakeInEffect
  <2>2. Tail(In) = << >>
    <3>1. In \in Seq(Lines) /\ Len(In) = 1
      BY <1>3
    <3>2. \A q \in Seq(Lines) : Len(q) = 1 => Tail(q) \in Seq(Lines) /\ Len(Tail(q)) = 0
      OBVIOUS
    <3> QED
      BY <3>1, <3>2, EmptySeq
  <2> QED
    BY <2>1, <2>2 DEF In, Out
<1> HIDE DEF cs, a, b
<1>8. conns' = cs \/ conns' = ToPhone(ToPhone(cs, Cur, a), Cur, b)
  BY <1>1 DEF Send, Desk, Threads, TypeOK
<1>9. /\ conns' \in Seq(Connections) /\ Len(conns') = Len(conns)
      /\ \A d \in DOMAIN conns : d # Cur => conns'[d] = conns[d]
      /\ conns'[Cur].toPc = << >>
      /\ \A i \in DOMAIN conns'[Cur].toPhone :
           \/ i \in DOMAIN Out /\ conns'[Cur].toPhone[i] = Out[i]
           \/ conns'[Cur].toPhone[i] \in {a, b}
  <2>1. CASE conns' = cs
    BY <1>7, <2>1
  <2>2. CASE conns' = ToPhone(ToPhone(cs, Cur, a), Cur, b)
    <3> DEFINE ds == ToPhone(cs, Cur, a)
    <3>1. Cur \in DOMAIN cs /\ DOMAIN cs = DOMAIN conns
      BY <1>2, <1>7
    <3>2. /\ ds \in Seq(Connections) /\ Len(ds) = Len(cs)
          /\ \A d \in DOMAIN cs : d # Cur => ds[d] = cs[d]
          /\ ds[Cur].toPc = cs[Cur].toPc /\ ds[Cur].toPhone \in {Out, Append(Out, a)}
      BY <1>5, <1>7, <3>1, ToPhoneEffect
    <3> HIDE DEF ds
    <3>3. Cur \in DOMAIN ds /\ DOMAIN ds = DOMAIN conns
      BY <1>7, <3>1, <3>2
    <3>4. conns' = ToPhone(ds, Cur, b)
      BY <2>2 DEF ds
    <3>5. /\ conns' \in Seq(Connections) /\ Len(conns') = Len(ds)
          /\ \A d \in DOMAIN ds : d # Cur => conns'[d] = ds[d]
          /\ conns'[Cur].toPc = ds[Cur].toPc
          /\ conns'[Cur].toPhone \in {ds[Cur].toPhone, Append(ds[Cur].toPhone, b)}
      BY <1>5, <3>2, <3>3, <3>4, ToPhoneEffect
    <3>6. \A i \in DOMAIN conns'[Cur].toPhone :
            \/ i \in DOMAIN Out /\ conns'[Cur].toPhone[i] = Out[i]
            \/ conns'[Cur].toPhone[i] \in {a, b}
      <4>1. /\ ds[Cur].toPhone \in Seq(Requests)
            /\ \A i \in DOMAIN ds[Cur].toPhone :
                 (i \in DOMAIN Out /\ ds[Cur].toPhone[i] = Out[i]) \/ ds[Cur].toPhone[i] = a
        <5>1. Out \in Seq(Requests) /\ a \in Requests
          BY <1>3, <1>5
        <5>2. ds[Cur].toPhone \in {Out, Append(Out, a)}
          BY <3>2
        <5> QED
          BY <5>1, <5>2, AppendedQueue
      <4>2. \A i \in DOMAIN conns'[Cur].toPhone :
              \/ i \in DOMAIN ds[Cur].toPhone /\ conns'[Cur].toPhone[i] = ds[Cur].toPhone[i]
              \/ conns'[Cur].toPhone[i] = b
        <5> DEFINE p == ds[Cur].toPhone
                   r == conns'[Cur].toPhone
        <5>1. p \in Seq(Requests) /\ r \in {p, Append(p, b)}
          BY <3>5, <4>1
        <5> HIDE DEF p, r
        <5>2. \A i \in DOMAIN r : (i \in DOMAIN p /\ r[i] = p[i]) \/ r[i] = b
          BY <1>5, <5>1, AppendedQueue
        <5> QED
          BY <5>2 DEF p, r
      <4> QED
        BY <4>1, <4>2
    <3> QED
      BY <1>7, <3>1, <3>2, <3>3, <3>5, <3>6
  <2> QED
    BY <1>8, <2>1, <2>2
<1>10. Cur' = Cur /\ In' = << >> /\ DOMAIN conns' = DOMAIN conns /\ Out' = conns'[Cur].toPhone
  BY <1>2, <1>9 DEF Cur, In, Out
<1>11. /\ \A i \in DOMAIN Out' : Out'[i].type # "pairing_response"
       /\ Quiet(In') /\ NoReply(Out')
  <2>1. \A i \in DOMAIN Out' : Out'[i].type # "pairing_response"
    BY <1>3, <1>5, <1>9, <1>10 DEF NoReply
  <2> QED
    BY <1>10, <2>1 DEF Quiet, NoReply
<1>12. Used' /\ Resting'
  BY <1>1, <1>2, <1>3, <1>10, <1>11 DEF Used, Resting
<1>13. TypeOK'
  <2>1. events' \in Seq(Statuses)
    BY <1>1 DEF TypeOK, Statuses
  <2> QED
    BY <1>1, <1>6, <1>9, <2>1 DEF TypeOK
<1>14. Wire'
  <2> USE DEF Wire
  <2>1. OneToken'
    BY <1>10, <1>11, <1>12 DEF OneToken
  <2>2. Numbered'
    BY <1>1, <1>9, <1>10, <1>11 DEF Numbered
  <2>3. KeysGrow' /\ Serving' /\ SameSession'
    BY <1>1, <1>10 DEF KeysGrow, Serving, SameSession
  <2> QED
    BY <2>1, <2>2, <2>3
<1>15. Desk'
  <2>1. /\ ui.call # "connect" /\ dart.isConnected = TRUE
        /\ \A i \in DOMAIN events : events[i] = "paired"
        /\ ~(ui.pc = "idle" /\ dart.nativeConnected = FALSE)
    BY <1>2, <1>3, VerdictIsNews
  <2>2. \A i \in DOMAIN events' : events'[i] = "paired"
    BY <1>1, <2>1 DEF TypeOK
  <2>3. Threads'
    BY <1>1, <1>10 DEF Desk, Threads
  <2>4. PcState' /\ ToldOnce' /\ Final'
    BY <1>1, <1>2, <1>4, <1>6, <1>10, <1>12, <2>1, <2>2 DEF PcState, ToldOnce, Final
  <2> QED
    BY <2>3, <2>4 DEF Desk
<1> QED
  BY <1>13, <1>14, <1>15

\* HandlePairingResult with a reason.
LEMMA HandlePairingErrorStep == IInv /\ HandlePairingError => IInv'
<1> SUFFICES ASSUME IInv, HandlePairingError PROVE IInv'
  OBVIOUS
<1> USE DEF IInv
<1>1. /\ UNCHANGED <<dart, ui, media, client, reader, terminated, installed, phone, pm, wrongs, drops>>
      /\ Reads("pairing_error") /\ conns' = TakeIn(conns, reader.conn)
      /\ events' = Append(events, "freed_error")
  BY DEF HandlePairingError, Consumed, TakeIn, phoneVars
<1>2. /\ reader.pc = "reading" /\ reader.conn = Cur /\ Cur # 0 /\ Cur \in DOMAIN conns
      /\ conns' \in Seq(Connections) /\ Cur' = Cur
      /\ \A d \in DOMAIN conns : d # Cur => conns'[d] = conns[d]
      /\ Out' = Out /\ ~Quiet(In) /\ In' = << >> /\ NoReply(Out) /\ phone.accepted = Cur
      /\ phone.pc # "answering"
  BY <1>1, ReaderLine
<1>3. pc' \in Pcs /\ pc'.state = "DISCONNECTED" /\ pc'.isStreaming = FALSE
  BY DEF HandlePairingError, TypeOK, Pcs
<1>4. TypeOK'
  <2>1. events' \in Seq(Statuses)
    BY <1>1 DEF TypeOK, Statuses
  <2> QED
    BY <1>1, <1>2, <1>3, <2>1 DEF TypeOK
<1>5. ~Used /\ \A i \in DOMAIN Out : Out[i].type # "hello"
  BY <1>2 DEF Wire, OneToken, Used
<1>6. Quiet(In') /\ NoReply(Out') /\ Resting' /\ Used'
  <2>1. Quiet(In') /\ NoReply(Out') /\ Resting'
    BY <1>1, <1>2 DEF Quiet, NoReply, Resting
  <2> QED
    BY <1>1, <1>2, <2>1 DEF Used
<1>7. Wire'
  <2> USE DEF Wire
  <2>1. OneToken'
    BY <1>1, <1>2, <1>6 DEF OneToken, NoReply
  <2>2. Numbered'
    <3>1. DOMAIN conns' = DOMAIN conns
      BY <1>2 DEF Cur, TypeOK
    <3>2. \A d \in DOMAIN conns : conns'[d].toPhone = conns[d].toPhone
      BY <1>2 DEF Out
    <3> QED
      BY <1>1, <1>2, <3>1, <3>2 DEF Numbered
  <2>3. KeysGrow' /\ Serving' /\ SameSession'
    BY <1>1, <1>2 DEF KeysGrow, Serving, SameSession
  <2> QED
    BY <2>1, <2>2, <2>3
<1>8. Desk'
  <2>1. ui.call # "connect" /\ ~(ui.pc = "idle" /\ dart.nativeConnected = FALSE)
    BY <1>2, <1>5, VerdictIsNews
  <2>2. Threads'
    BY <1>1, <1>2 DEF Desk, Threads
  <2>3. PcState' /\ ToldOnce' /\ Final'
    BY <1>1, <1>3, <1>6, <2>1 DEF PcState, ToldOnce, Final
  <2> QED
    BY <2>2, <2>3 DEF Desk
<1> QED
  BY <1>4, <1>7, <1>8

\* The reader notices the end of the connection.
LEMMA ReaderExitsStep == IInv /\ ReaderExits => IInv'
<1> SUFFICES ASSUME IInv, ReaderExits PROVE IInv'
  OBVIOUS
<1> USE DEF IInv
<1>1. /\ UNCHANGED <<dart, ui, events, pc, media, terminated, conns, phone, pm, wrongs, installed, drops>>
      /\ reader.pc = "reading"
  BY DEF ReaderExits, phoneVars
<1>2. reader' \in Readers /\ reader'.pc = "exited" /\ reader'.conn = reader.conn
  BY DEF ReaderExits, TypeOK, Readers
<1>3. client' \in [isConnected : BOOLEAN, socket : Nat] /\ client'.isConnected = FALSE
  BY DEF ReaderExits, TypeOK
<1>4. TypeOK'
  BY <1>1, <1>2, <1>3 DEF TypeOK
<1>5. Cur' = Cur /\ In' = In /\ Out' = Out /\ Resting' /\ Resting
  BY <1>1, <1>2 DEF Cur, In, Out, Resting
<1>6. Used' <=> Used
  BY <1>1, <1>5 DEF Used
<1>7. Wire'
  <2> USE DEF Wire
  <2>1. OneToken'
    BY <1>1, <1>2, <1>5, <1>6 DEF OneToken, NoReply, Quiet
  <2>2. Numbered'
    BY <1>1, <1>5 DEF Numbered
  <2>3. KeysGrow' /\ Serving' /\ SameSession'
    BY <1>1, <1>2, <1>5 DEF KeysGrow, Serving, SameSession
  <2> QED
    BY <2>1, <2>2, <2>3
<1>8. Desk'
  <2>1. Threads'
    BY <1>1, <1>2, <1>3, <1>5 DEF Desk, Threads
  <2>2. PcState' /\ ToldOnce' /\ Final'
    BY <1>1, <1>2, <1>5, <1>6 DEF Desk, PcState, ToldOnce, Final
  <2> QED
    BY <2>1, <2>2 DEF Desk
<1> QED
  BY <1>4, <1>7, <1>8

-----------------------------------------------------------------------------
(* The phone's control thread *)

\* A step of the phone that leaves the connections alone, and the newest one
\* taken if it was, disturbs only what is said of the phone, unless it begins
\* to answer.
LEMMA PhoneAlone ==
  ASSUME IInv, UNCHANGED <<conns, media, installed, reader>>,
         phone'.accepted \in {phone.accepted, Cur},
         phone'.pc # "answering" \/ (phone'.pc = phone.pc /\ phone'.accepted = phone.accepted)
  PROVE  OneToken' /\ Numbered' /\ KeysGrow' /\ (Used => Used') /\ Cur' = Cur
<1> USE DEF IInv, Wire
<1>1. Cur' = Cur /\ In' = In /\ Out' = Out /\ Cur \in Nat
  BY DEF Cur, In, Out, TypeOK
<1>2. Used => Used'
  BY <1>1 DEF Used, Resting
<1>3. OneToken'
  BY <1>1, <1>2 DEF OneToken, NoReply, Quiet, Resting
<1>4. Numbered'
  BY <1>1 DEF Numbered
<1>5. KeysGrow'
  <2>1. media.key.server \in Nat /\ phone.accepted \in Nat
    BY DEF TypeOK, Keys, Phones
  <2>2. media.key.server <= phone'.accepted
    BY <1>1, <2>1 DEF KeysGrow, Serving
  <2> QED
    BY <1>1, <2>2 DEF KeysGrow
<1> QED
  BY <1>1, <1>2, <1>3, <1>4, <1>5

\* The end of handleConnection.
LEMMA LeaveStep == IInv /\ Leave => IInv'
<1> SUFFICES ASSUME IInv, Leave PROVE IInv'
  OBVIOUS
<1> USE DEF IInv
<1>1. /\ UNCHANGED <<dart, ui, events, pc, media, client, reader, terminated, installed>>
      /\ UNCHANGED <<conns, wrongs, drops>> /\ pm' = ResetManager
  BY DEF Leave, pcVars
<1>2. /\ phone' \in Phones /\ phone'.pc = "accepting" /\ phone'.accepted = phone.accepted
      /\ phone'.pending = phone.pending /\ phone'.armed = phone.armed
      /\ phone'.destination = phone.destination
  BY DEF Leave, TypeOK, Phones
<1>3. pm' \in Managers
  BY <1>1 DEF ResetManager, Managers
<1>4. TypeOK'
  BY <1>1, <1>2, <1>3 DEF TypeOK
<1>5. OneToken' /\ Numbered' /\ KeysGrow' /\ (Used => Used') /\ Cur' = Cur
  BY <1>1, <1>2, PhoneAlone
<1>6. Serving' /\ SameSession'
  BY <1>2, <1>5 DEF Wire, Serving, SameSession
<1>7. Desk'
  BY <1>1, <1>5, SameDesk
<1> QED
  BY <1>4, <1>5, <1>6, <1>7 DEF Wire

\* LOCKOUT_MS has passed.
LEMMA CoolDownStep == IInv /\ CoolDown => IInv'
<1> SUFFICES ASSUME IInv, CoolDown PROVE IInv'
  OBVIOUS
<1> USE DEF IInv
<1>1. /\ UNCHANGED <<dart, ui, events, pc, media, client, reader, terminated, installed>>
      /\ UNCHANGED <<conns, phone, wrongs, drops>>
  BY DEF CoolDown, pcVars
<1>2. pm' \in Managers /\ pm'.authToken = pm.authToken
  BY DEF CoolDown, TypeOK, Managers
<1>3. TypeOK'
  BY <1>1, <1>2 DEF TypeOK
<1>4. OneToken' /\ Numbered' /\ KeysGrow' /\ (Used => Used') /\ Cur' = Cur
  BY <1>1, PhoneAlone
<1>5. Serving' /\ SameSession'
  <2>1. In' = In
    BY <1>1 DEF In, Cur
  <2> QED
    BY <1>1, <1>2, <1>4, <2>1 DEF Wire, Serving, SameSession
<1>6. Desk'
  BY <1>1, <1>4, SameDesk
<1> QED
  BY <1>3, <1>4, <1>5, <1>6 DEF Wire

\* UdpTransport.stop(): connections are closed, and what is under way on them
\* can still be read.
LEMMA StopPhoneStep == IInv /\ StopPhone => IInv'
<1> SUFFICES ASSUME IInv, StopPhone PROVE IInv'
  OBVIOUS
<1> USE DEF IInv
<1> DEFINE shut(c) == [conns[c] EXCEPT !.phoneOpen = FALSE]
           x(c) == IF c >= phone.accepted THEN shut(c) ELSE conns[c]
<1>1. /\ UNCHANGED <<dart, ui, events, pc, media, client, reader, terminated, installed>>
      /\ UNCHANGED <<pm, wrongs, drops>> /\ conns' = [c \in DOMAIN conns |-> x(c)]
  BY DEF StopPhone, pcVars
<1>2. phone' \in Phones /\ SamePhone
  BY DEF StopPhone, TypeOK, Phones, SamePhone
<1>3. \A c \in DOMAIN conns :
        x(c) \in Connections /\ x(c).toPc = conns[c].toPc /\ x(c).toPhone = conns[c].toPhone
  <2>1. \A c \in DOMAIN conns : conns[c] \in Connections
    BY DEF TypeOK
  <2>2. \A c \in DOMAIN conns : shut(c) \in Connections
          /\ shut(c).toPc = conns[c].toPc /\ shut(c).toPhone = conns[c].toPhone
    BY <2>1 DEF Connections
  <2> HIDE DEF shut
  <2> QED
    BY <2>1, <2>2
<1> HIDE DEF x
<1>4. SameLines
  <2>1. DOMAIN conns = 1 .. Len(conns) /\ Len(conns) \in Nat
    BY DEF TypeOK
  <2>2. conns' \in Seq(Connections) /\ Len(conns') = Len(conns)
    BY <1>1, <1>3, <2>1
  <2> QED
    BY <1>1, <1>3, <2>2 DEF SameLines
<1>5. TypeOK'
  BY <1>1, <1>2, <1>4 DEF TypeOK, SameLines
<1>6. Wire' /\ (Used => Used')
  BY <1>1, <1>2, <1>4, SameWire
<1>7. Desk'
  BY <1>1, <1>4, <1>6, SameDesk DEF Cur, SameLines
<1> QED
  BY <1>5, <1>6, <1>7

\* The next startStreaming: the connections the old transport left behind are
\* never served.
LEMMA RestartPhoneStep == IInv /\ RestartPhone => IInv'
<1> SUFFICES ASSUME IInv, RestartPhone PROVE IInv'
  OBVIOUS
<1> USE DEF IInv
<1>1. /\ UNCHANGED <<dart, ui, events, pc, media, client, reader, terminated, installed>>
      /\ UNCHANGED <<conns, pm, wrongs, drops>> /\ phone.pc = "accepting"
      /\ phone' = [phone EXCEPT !.running = TRUE, !.session = @ + 1,
                            !.accepted = Len(conns), !.pending = 0,
                            !.armed = NoKey, !.destination = FALSE]
  BY DEF RestartPhone, pcVars
<1>2. /\ NoKey \in Keys /\ NoKey.client = 0 /\ NoKey.server = 0 /\ Len(conns) \in Nat
      /\ phone.session + 1 \in Nat /\ phone \in Phones
  BY DEF NoKey, DeriveSessionKeys, Keys, TypeOK, Phones
<1>3. /\ phone' \in Phones /\ phone'.pc = "accepting" /\ phone'.accepted = Cur
      /\ phone'.pending = 0 /\ phone'.armed = NoKey /\ phone'.destination = FALSE
  BY <1>1, <1>2 DEF Phones, Cur
<1>4. TypeOK'
  BY <1>1, <1>3 DEF TypeOK
<1>5. OneToken' /\ Numbered' /\ KeysGrow' /\ (Used => Used') /\ Cur' = Cur
  BY <1>1, <1>3, PhoneAlone
<1>6. Serving' /\ SameSession'
  BY <1>2, <1>3, <1>5 DEF Serving, SameSession, Cur
<1>7. Desk'
  BY <1>1, <1>5, SameDesk
<1> QED
  BY <1>4, <1>5, <1>6, <1>7 DEF Wire

\* accept() and the head of handleConnection: the first line of the connection.
LEMMA AcceptStep ==
  ASSUME IInv, NEW pin \in Pins, Accept(pin) PROVE IInv'
<1> USE DEF IInv
<1> DEFINE c == phone.accepted + 1
           m == IF LockedOut(pm) THEN Error ELSE Challenge(c, phone.session)
           cs == ToPc(conns, c, m)
<1>1. /\ UNCHANGED <<dart, ui, events, pc, media, client, reader, terminated, installed>>
      /\ UNCHANGED <<wrongs, drops>> /\ phone.pc = "accepting" /\ c <= Len(conns)
  BY DEF Accept, pcVars
<1>2. /\ conns \in Seq(Connections) /\ phone \in Phones /\ phone.accepted \in Nat /\ c \in Nat
      /\ phone.session \in Nat /\ Cur \in Nat /\ c <= Cur /\ c # 0 /\ c \in DOMAIN conns /\ Cur # 0
      /\ Cur \in DOMAIN conns /\ DOMAIN conns = 1 .. Cur
  BY <1>1 DEF TypeOK, Phones, Cur
<1>3. /\ m \in Lines
      /\ m = Error \/ m = Challenge(c, phone.session)
  BY <1>2 DEF Lines, Error, Challenge
<1> HIDE DEF m, cs
<1>4. /\ cs \in Seq(Connections) /\ Len(cs) = Len(conns)
      /\ \A d \in DOMAIN conns : d # c => cs[d] = conns[d]
      /\ cs[c].toPhone = conns[c].toPhone
      /\ cs[c].toPc \in {conns[c].toPc, Append(conns[c].toPc, m)}
  BY <1>2, <1>3, ToPcEffect DEF cs
<1>5. /\ conns' \in Seq(Connections) /\ Len(conns') = Len(conns)
      /\ \A d \in DOMAIN conns : d # c => conns'[d] = conns[d]
      /\ conns'[c].toPhone = conns[c].toPhone
      /\ conns'[c].toPc \in {conns[c].toPc, Append(conns[c].toPc, m)}
  <2> DEFINE x == [cs[c] EXCEPT !.phoneOpen = FALSE]
  <2>1. CASE LockedOut(pm)
    <3>1. conns' = [cs EXCEPT ![c].phoneOpen = FALSE]
      BY <2>1 DEF Accept, cs, m
    <3>2. conns' = [cs EXCEPT ![c] = x]
      BY <3>1
    <3>3. cs[c] \in Connections /\ c \in 1 .. Len(cs) /\ DOMAIN cs = DOMAIN conns
      BY <1>2, <1>4
    <3>4. x \in Connections /\ x.toPc = cs[c].toPc /\ x.toPhone = cs[c].toPhone
      BY <3>3 DEF Connections
    <3> HIDE DEF x
    <3>5. /\ conns' \in Seq(Connections) /\ Len(conns') = Len(cs)
          /\ \A d \in DOMAIN cs : d # c => conns'[d] = cs[d]
          /\ conns'[c] = x
      BY <1>4, <3>2, <3>3, <3>4, ExceptSeq
    <3> QED
      BY <1>4, <3>3, <3>4, <3>5
  <2>2. CASE ~LockedOut(pm)
    <3>1. conns' = cs
      BY <2>2 DEF Accept, cs, m
    <3> QED
      BY <1>4, <3>1
  <2> QED
    BY <2>1, <2>2
<1>6. /\ phone' \in Phones /\ phone'.accepted = c /\ phone'.armed = phone.armed
      /\ phone'.destination = phone.destination /\ phone'.session = phone.session
      /\ \/ phone'.pc = "accepting" /\ phone'.pending = phone.pending
         \/ phone'.pc = "serving" /\ phone'.pending = c /\ phone'.authenticated = FALSE
  <2>1. \/ phone' = [phone EXCEPT !.accepted = c]
        \/ phone' = [phone EXCEPT !.accepted = c, !.pc = "serving",
                                  !.authenticated = FALSE, !.pending = c]
    BY DEF Accept
  <2> QED
    BY <1>1, <1>2, <2>1 DEF Phones
<1>7. pm' \in Managers
  <2>1. pm' = pm \/ pm' = StartPairing(pm, pin)
    BY DEF Accept
  <2> QED
    BY <2>1, ManagerTypes DEF TypeOK
<1>8. TypeOK'
  BY <1>1, <1>5, <1>6, <1>7 DEF TypeOK
<1>9. /\ In = << >> /\ NoReply(Out) /\ Resting /\ ~Used
      /\ \A i \in DOMAIN Out : Out[i].type # "hello"
      /\ \A i \in DOMAIN Out : Out[i].type # "pairing_response"
  <2>1. phone.accepted < Cur /\ phone.accepted # Cur
    BY <1>2
  <2>2. ~Used
    BY <2>1 DEF Used
  <2> QED
    BY <1>2, <2>1, <2>2 DEF Wire, OneToken, NoReply
<1>10. /\ Cur' = Cur /\ DOMAIN conns' = DOMAIN conns
       /\ \A d \in DOMAIN conns : conns'[d].toPhone = conns[d].toPhone
       /\ c # Cur => In' = << >>
       /\ c = Cur => In' \in {<< >>, << m >>}
  <2>1. Cur' = Cur /\ DOMAIN conns' = DOMAIN conns
    BY <1>2, <1>5 DEF Cur
  <2>2. \A d \in DOMAIN conns : conns'[d].toPhone = conns[d].toPhone
    BY <1>5
  <2>3. c # Cur => In' = << >>
    BY <1>2, <1>5, <1>9, <2>1 DEF In
  <2>4. c = Cur => In' \in {<< >>, Append(<< >>, m)}
    BY <1>5, <1>9, <2>1 DEF In
  <2> QED
    BY <2>1, <2>2, <2>3, <2>4
<1>11. Out' = Out
  BY <1>2, <1>10 DEF Out
<1>12. /\ m.type \in {"pairing_error", "pairing_challenge"}
       /\ m.type = "pairing_challenge" => m.key = c /\ m.session = phone.session
  BY <1>3 DEF Error, Challenge
<1>13. \A i \in DOMAIN In' : c = Cur /\ i = 1 /\ In'[i] = m
  BY <1>10
<1>14. media.key.server \in Nat /\ media.key.server < c /\ phone.armed.server \in Nat /\ phone.armed.server < c
  BY <1>2 DEF Wire, KeysGrow, Serving, TypeOK, Keys, Phones
<1>15. Wire'
  <2> USE DEF Wire
  <2>1. OneToken'
    <3>1. ~Quiet(In') => In' = << m >> /\ c = Cur
      BY <1>10 DEF Quiet
    <3>2. Resting' /\ NoReply(Out')
      BY <1>1, <1>9, <1>11 DEF Resting
    <3>3. reader'.pc \notin {"deriving", "responding"}
      BY <3>2 DEF Resting
    <3>4. (phone'.accepted < Cur' => In' = << >>) /\ phone'.pc # "answering"
      BY <1>2, <1>6, <1>10
    <3> QED
      BY <1>9, <1>11, <3>1, <3>2, <3>3, <3>4 DEF OneToken
  <2>2. Numbered'
    BY <1>1, <1>10, <1>12, <1>13, <1>14 DEF Numbered
  <2>3. KeysGrow'
    BY <1>1, <1>2, <1>6, <1>10, <1>14 DEF KeysGrow
  <2>4. Serving'
    <3>1. phone.pending \in Nat /\ phone.pending <= c
      BY <1>2 DEF Serving, Phones
    <3> QED
      BY <1>2, <1>6, <1>10, <1>14, <3>1 DEF Serving
  <2>5. SameSession'
    <3>1. reader'.pc # "deriving"
      BY <1>1, <1>9 DEF Resting
    <3> QED
      BY <1>1, <1>2, <1>6, <1>10, <1>12, <1>13, <1>14, <3>1 DEF SameSession
  <2> QED
    BY <2>1, <2>2, <2>3, <2>4, <2>5
<1>16. Desk'
  BY <1>1, <1>9, <1>10, SameDesk
<1> QED
  BY <1>8, <1>15, <1>16

\* The phone takes the first line of the connection it serves.
LEMMA PhoneLine ==
  ASSUME IInv, Serves
  PROVE  /\ phone.pc = "serving" /\ phone.accepted # 0 /\ phone.accepted \in DOMAIN conns
         /\ phone.accepted \in Nat /\ phone.accepted <= Cur /\ Cur \in Nat /\ Cur # 0
         /\ conns \in Seq(Connections) /\ Cur \in DOMAIN conns
         /\ conns[phone.accepted].toPhone \in Seq(Requests)
         /\ conns[phone.accepted].toPhone # << >> /\ 1 \in DOMAIN conns[phone.accepted].toPhone
         /\ Request = conns[phone.accepted].toPhone[1] /\ Request \in Requests
         /\ Received \in Seq(Connections) /\ Len(Received) = Len(conns)
         /\ \A d \in DOMAIN conns : d # phone.accepted => Received[d] = conns[d]
         /\ Received[phone.accepted].toPc = conns[phone.accepted].toPc
         /\ Received[phone.accepted].toPhone = Tail(conns[phone.accepted].toPhone)
<1> USE DEF IInv
<1>1. phone.pc = "serving" /\ conns[phone.accepted].toPhone # << >>
  BY DEF Serves
<1>2. /\ phone.accepted # 0 /\ phone.accepted \in Nat /\ phone.accepted <= Cur /\ Cur \in Nat
      /\ conns \in Seq(Connections)
  BY <1>1 DEF Wire, Serving, TypeOK, Phones, Cur
<1>3. phone.accepted \in DOMAIN conns /\ Cur # 0 /\ Cur \in DOMAIN conns
  BY <1>2 DEF Cur
<1>4. conns[phone.accepted].toPhone \in Seq(Requests)
  <2>1. conns[phone.accepted] \in Connections
    BY <1>2, <1>3
  <2> QED
    BY <2>1 DEF Connections
<1>5. /\ 1 \in DOMAIN conns[phone.accepted].toPhone
      /\ Request = conns[phone.accepted].toPhone[1] /\ Request \in Requests
  BY <1>1, <1>4 DEF Request
<1>6. Received = TakeOut(conns, phone.accepted)
  BY DEF Received, TakeOut
<1> QED
  BY <1>1, <1>2, <1>3, <1>4, <1>5, <1>6, TakeOutEffect

\* A command is executed or dropped; "hello" is answered.
LEMMA ExecuteCommandStep == IInv /\ ExecuteCommand => IInv'
<1> SUFFICES ASSUME IInv, ExecuteCommand PROVE IInv'
  OBVIOUS
<1> USE DEF IInv
<1> DEFINE a == phone.accepted
<1>1. /\ UNCHANGED <<dart, ui, events, pc, media, client, reader, terminated, installed>>
      /\ UNCHANGED <<phone, pm, wrongs, drops>> /\ Serves
      /\ \/ conns' = Received
         \/ conns' = ToPc(Received, a, Capabilities) /\ Request.type = "hello"
  <2>1. /\ UNCHANGED <<dart, ui, events, pc, media, client, reader, terminated, installed>>
        /\ UNCHANGED <<phone, pm, wrongs, drops>> /\ Serves
    BY DEF ExecuteCommand, pcVars, phoneVars
  <2>2. conns' = Received \/ conns' = HandleControlCommand(Received, Request)
    BY DEF ExecuteCommand
  <2> QED
    BY <2>1, <2>2 DEF HandleControlCommand
<1>2. /\ a # 0 /\ a \in DOMAIN conns /\ a \in Nat /\ a <= Cur /\ Cur \in Nat /\ Cur # 0
      /\ conns \in Seq(Connections) /\ Cur \in DOMAIN conns
      /\ conns[a].toPhone \in Seq(Requests) /\ conns[a].toPhone # << >>
      /\ 1 \in DOMAIN conns[a].toPhone /\ Request = conns[a].toPhone[1]
      /\ Received \in Seq(Connections) /\ Len(Received) = Len(conns)
      /\ \A d \in DOMAIN conns : d # a => Received[d] = conns[d]
      /\ Received[a].toPc = conns[a].toPc /\ Received[a].toPhone = Tail(conns[a].toPhone)
  BY <1>1, PhoneLine
<1>3. /\ conns' \in Seq(Connections) /\ Len(conns') = Len(conns)
      /\ \A d \in DOMAIN conns : d # a => conns'[d] = conns[d]
      /\ conns'[a].toPhone = Tail(conns[a].toPhone)
      /\ \/ conns'[a].toPc = conns[a].toPc
         \/ conns'[a].toPc = Append(conns[a].toPc, Capabilities) /\ Request.type = "hello"
  <2>1. CASE conns' = Received
    BY <1>2, <2>1
  <2>2. CASE conns' = ToPc(Received, a, Capabilities) /\ Request.type = "hello"
    <3>1. a \in DOMAIN Received /\ DOMAIN Received = DOMAIN conns /\ Capabilities \in Lines
      BY <1>2 DEF Capabilities, Lines
    <3>2. /\ conns' \in Seq(Connections) /\ Len(conns') = Len(Received)
          /\ \A d \in DOMAIN Received : d # a => conns'[d] = Received[d]
          /\ conns'[a].toPhone = Received[a].toPhone
          /\ conns'[a].toPc \in {Received[a].toPc, Append(Received[a].toPc, Capabilities)}
      BY <1>2, <2>2, <3>1, ToPcEffect
    <3> QED
      BY <1>2, <2>2, <3>1, <3>2
  <2> QED
    BY <1>1, <2>1, <2>2
<1>4. TypeOK'
  BY <1>1, <1>3 DEF TypeOK
<1>5. CASE a # Cur \/ conns'[a].toPc = conns[a].toPc
  <2>1. Calm
    <3>1. \A d \in DOMAIN conns : Busier(conns[d].toPhone, conns'[d].toPhone)
      BY <1>2, <1>3 DEF Busier, Shorter
    <3>2. Shorter(conns[Cur].toPc, conns'[Cur].toPc)
      BY <1>2, <1>3, <1>5 DEF Shorter
    <3> QED
      BY <1>3, <3>1, <3>2 DEF Calm
  <2>2. Wire' /\ (Used => Used') /\ Cur' = Cur
    BY <1>1, <2>1, CalmWire DEF SamePhone
  <2>3. Desk'
    BY <1>1, <2>2, SameDesk
  <2> QED
    BY <1>4, <2>2, <2>3
<1>6. CASE a = Cur /\ conns'[a].toPc = Append(conns[a].toPc, Capabilities) /\ Request.type = "hello"
  <2>1. Used
    BY <1>2, <1>6 DEF Wire, OneToken, Out
  <2>2. /\ Cur' = Cur /\ DOMAIN conns' = DOMAIN conns /\ In' = Append(In, Capabilities)
        /\ Out' = Tail(Out) /\ Out \in Seq(Requests) /\ Out # << >> /\ In \in Seq(Lines)
    <3>1. conns[Cur] \in Connections
      BY <1>2
    <3>2. In \in Seq(Lines)
      BY <3>1 DEF In, Connections
    <3>3. Cur' = Cur /\ DOMAIN conns' = DOMAIN conns
      BY <1>2, <1>3 DEF Cur
    <3> QED
      BY <1>2, <1>3, <1>6, <3>2, <3>3 DEF In, Out
  <2>3. Quiet(In') /\ NoReply(Out') /\ Resting'
    <3>1. Capabilities.type = "capabilities"
      BY DEF Capabilities
    <3>2. \A i \in DOMAIN In' : (i \in DOMAIN In /\ In'[i] = In[i]) \/ In'[i] = Capabilities
      BY <2>2
    <3>3. \A i \in DOMAIN Out' : i + 1 \in DOMAIN Out /\ Out'[i] = Out[i + 1]
      BY <2>2
    <3> QED
      BY <1>1, <2>1, <3>1, <3>2, <3>3 DEF Used, Quiet, NoReply, Resting
  <2>4. Used'
    BY <1>1, <2>1, <2>2, <2>3 DEF Used
  <2>5. Wire'
    <3> USE DEF Wire
    <3>1. OneToken'
      <4>1. phone'.accepted = Cur' /\ ~(phone'.accepted < Cur') /\ phone'.pc # "answering"
        BY <1>1, <1>2, <1>6, <2>1, <2>2 DEF Used
      <4>2. \A i \in DOMAIN Out' : Out'[i].type # "pairing_response"
        BY <2>3 DEF NoReply
      <4>3. reader'.pc \notin {"deriving", "responding"}
        BY <2>3 DEF Resting
      <4> QED
        BY <2>3, <2>4, <4>1, <4>2, <4>3 DEF OneToken
    <3>2. Numbered'
      <4>1. \A i \in DOMAIN In' : In'[i].type = "capabilities"
        BY <2>3 DEF Quiet
      <4>2. \A i \in DOMAIN conns'[Cur].toPhone : conns'[Cur].toPhone[i].type # "pairing_response"
        BY <2>2, <2>3 DEF NoReply, Out
      <4>3. a = Cur /\ \A d \in DOMAIN conns : d # a => conns'[d] = conns[d]
        BY <1>3, <1>6
      <4>4. \A d \in DOMAIN conns' : \A i \in DOMAIN conns'[d].toPhone :
              conns'[d].toPhone[i].type = "pairing_response" =>
                conns'[d].toPhone[i].key = d /\ d <= media.key.server
        BY <2>2, <4>2, <4>3 DEF Numbered
      <4> QED
        BY <1>1, <4>1, <4>4 DEF Numbered
    <3>3. KeysGrow' /\ Serving'
      BY <1>1, <2>2 DEF KeysGrow, Serving
    <3>4. SameSession'
      BY <1>1, <2>2, <2>3 DEF SameSession, Quiet
    <3> QED
      BY <3>1, <3>2, <3>3, <3>4
  <2>6. Desk'
    BY <1>1, <2>2, <2>4, SameDesk
  <2> QED
    BY <1>4, <2>5, <2>6
<1> QED
  BY <1>3, <1>5, <1>6

\* A pairing_response: the phone refuses it with the one line it has for the
\* newest connection, or an older one that nobody listens to, or it arms the
\* packetizer and goes on to the answer.
LEMMA VerifyResponseStep ==
  ASSUME IInv, NEW keyOk \in BOOLEAN, VerifyResponse(keyOk) PROVE IInv'
<1> USE DEF IInv
<1> DEFINE a == phone.accepted
           armed == DeriveSessionKeys(phone.pending, Request.key)
           verdict == Verdict(pm, Request.pin)
<1>1. /\ UNCHANGED <<dart, ui, events, pc, media, client, reader, terminated, installed>>
      /\ drops' = drops /\ Serves /\ Request.type = "pairing_response" /\ ~phone.authenticated
  BY DEF VerifyResponse, pcVars
<1>2. /\ a # 0 /\ a \in DOMAIN conns /\ a \in Nat /\ a <= Cur /\ Cur \in Nat /\ Cur # 0
      /\ conns \in Seq(Connections) /\ Cur \in DOMAIN conns /\ phone.pc = "serving"
      /\ conns[a].toPhone \in Seq(Requests) /\ conns[a].toPhone # << >>
      /\ 1 \in DOMAIN conns[a].toPhone /\ Request = conns[a].toPhone[1] /\ Request \in Requests
      /\ Received \in Seq(Connections) /\ Len(Received) = Len(conns)
      /\ \A d \in DOMAIN conns : d # a => Received[d] = conns[d]
      /\ Received[a].toPc = conns[a].toPc /\ Received[a].toPhone = Tail(conns[a].toPhone)
  BY <1>1, PhoneLine
<1>3. Request.key = a /\ media.key.server = a
  <2>1. Request.key = a /\ a <= media.key.server
    BY <1>1, <1>2 DEF Wire, Numbered
  <2>2. media.key.server \in Nat /\ media.key.server <= a
    BY DEF Wire, KeysGrow, TypeOK, Keys
  <2> QED
    BY <1>2, <2>1, <2>2
<1>4. phone.pending = a /\ phone.authenticated = FALSE /\ phone.armed.server # a
  BY <1>1, <1>2 DEF Wire, Serving, TypeOK, Phones
<1>5. armed \in Keys /\ armed.server = a /\ armed.client = a
  BY <1>2, <1>3, <1>4 DEF DeriveSessionKeys, Keys
<1>6. /\ verdict \in {"LOCKED", "NOT_AWAITING", "OK", "INVALID_PIN"} /\ pm' \in Managers
      /\ verdict = "OK" => pm'.authToken = a
  <2>1. pm \in Managers
    BY DEF TypeOK
  <2>2. /\ verdict \in {"LOCKED", "NOT_AWAITING", "OK", "INVALID_PIN"}
        /\ VerifyPin(pm, Request.pin, a) \in Managers
        /\ verdict = "OK" => VerifyPin(pm, Request.pin, a).authToken = a
    BY <1>2, <2>1, VerifyPinEffect
  <2>3. pm' = IF verdict = "LOCKED" THEN ResetManager ELSE VerifyPin(pm, Request.pin, a)
    BY DEF VerifyResponse
  <2>4. ResetManager \in Managers
    BY <2>1, ManagerTypes
  <2> HIDE DEF verdict
  <2> QED
    BY <2>2, <2>3, <2>4
<1>7. \/ phone' = phone
      \/ phone' = [phone EXCEPT !.pc = "accepting"]
      \/ /\ verdict = "OK" /\ conns' = Received
         /\ phone' = [phone EXCEPT !.armed = armed, !.pc = "answering"]
  BY DEF VerifyResponse, Authenticated
<1>8. \/ conns' = Received
      \/ conns' = ToPc(Received, a, Error)
  BY DEF VerifyResponse
<1>9. wrongs' \in Nat
  BY DEF VerifyResponse, TypeOK
<1> HIDE DEF verdict, armed
<1>10. /\ phone' \in Phones /\ phone'.accepted = a /\ phone'.pending = a
       /\ phone'.session = phone.session
       /\ phone'.destination = phone.destination /\ phone'.authenticated = FALSE
       /\ \/ phone'.pc \in {"accepting", "serving"} /\ phone'.armed = phone.armed
          \/ /\ phone'.pc = "answering" /\ phone'.armed = armed /\ verdict = "OK"
             /\ conns' = Received
  <2>1. phone \in Phones
    BY DEF TypeOK
  <2> QED
    BY <1>2, <1>4, <1>5, <1>7, <2>1 DEF Phones
<1>11. /\ conns' \in Seq(Connections) /\ Len(conns') = Len(conns)
       /\ \A d \in DOMAIN conns : d # a => conns'[d] = conns[d]
       /\ conns'[a].toPhone = Tail(conns[a].toPhone)
       /\ conns'[a].toPc \in {conns[a].toPc, Append(conns[a].toPc, Error)}
       /\ phone'.pc = "answering" => conns'[a].toPc = conns[a].toPc
  <2>1. a \in DOMAIN Received /\ DOMAIN Received = DOMAIN conns /\ Error \in Lines
    BY <1>2 DEF Error, Lines
  <2>2. CASE conns' = Received
    BY <1>2, <2>1, <2>2
  <2>3. CASE conns' = ToPc(Received, a, Error) /\ conns' # Received
    <3>1. /\ conns' \in Seq(Connections) /\ Len(conns') = Len(Received)
          /\ \A d \in DOMAIN Received : d # a => conns'[d] = Received[d]
          /\ conns'[a].toPhone = Received[a].toPhone
          /\ conns'[a].toPc \in {Received[a].toPc, Append(Received[a].toPc, Error)}
      BY <1>2, <2>1, <2>3, ToPcEffect
    <3>2. phone'.pc # "answering"
      BY <1>10, <2>3
    <3> QED
      BY <1>2, <2>1, <3>1, <3>2
  <2> QED
    BY <1>8, <2>2, <2>3
<1> DEFINE m == Error
<1>12. /\ conns' \in Seq(Connections) /\ Len(conns') = Len(conns)
       /\ \A d \in DOMAIN conns : d # a => conns'[d] = conns[d]
       /\ conns'[a].toPhone = Tail(conns[a].toPhone)
       /\ conns'[a].toPc \in {conns[a].toPc, Append(conns[a].toPc, m)}
  BY <1>11
<1>13. m.type = "pairing_error"
  BY DEF Error
<1> HIDE DEF m
<1>14. TypeOK'
  BY <1>1, <1>6, <1>9, <1>10, <1>12 DEF TypeOK
<1>15. Cur' = Cur /\ DOMAIN conns' = DOMAIN conns
  BY <1>2, <1>12 DEF Cur
<1>16. ~Used
  BY <1>1, <1>2 DEF Used, NoReply, Out
<1>17. OneToken' /\ \A i \in DOMAIN In' : a = Cur => In'[i] = m
  <2>1. CASE a # Cur
    <3>1. In' = In /\ Out' = Out
      BY <1>2, <1>12, <1>15, <2>1 DEF In, Out
    <3> QED
      BY <1>1, <1>10, <1>15, <1>16, <2>1, <3>1 DEF Wire, OneToken, Quiet, NoReply, Resting
  <2>2. CASE a = Cur
    <3>1. Out = conns[a].toPhone /\ Out' = Tail(Out)
      BY <1>12, <1>15, <2>2 DEF Out
    <3>2. In = << >> /\ \A j \in DOMAIN Out : Out[j].type = "pairing_response" => j = 1
      BY <1>1, <1>2, <3>1 DEF Wire, OneToken
    <3>3. \A i \in DOMAIN Out' : i \in Nat \ {0} /\ i + 1 \in DOMAIN Out /\ Out'[i] = Out[i + 1]
      BY <1>2, <3>1
    <3>4. ASSUME NEW i \in DOMAIN Out' PROVE Out'[i].type # "pairing_response" /\ Out'[i].type # "hello"
      <4>1. i + 1 # 1
        BY <3>3
      <4>2. \A j \in DOMAIN Out : Out[j].type # "hello"
        BY <1>2, <1>16 DEF Wire, OneToken
      <4> QED
        BY <3>2, <3>3, <4>1, <4>2
    <3>5. In' \in {<< >>, << m >>}
      BY <1>12, <1>15, <2>2, <3>2 DEF In
    <3>10. phone'.pc = "answering" => In' = << >>
      BY <1>11, <1>15, <2>2, <3>2 DEF In
    <3>6. reader.pc \notin {"deriving", "responding"} /\ Resting'
      <4>1. ~NoReply(Out)
        BY <1>1, <1>2, <3>1 DEF NoReply
      <4>2. reader.pc \notin {"deriving", "responding"}
        BY <1>2, <4>1 DEF Wire, OneToken
      <4> QED
        BY <1>1, <4>2 DEF Resting, TypeOK, Readers
    <3>7. NoReply(Out') /\ (~Quiet(In') => Len(In') = 1)
      BY <3>4, <3>5 DEF NoReply, Quiet
    <3>8. ~(phone'.accepted < Cur')
      BY <1>2, <1>10, <1>15, <2>2
    <3>9. \A i \in DOMAIN In' : In'[i] = m
      BY <3>5
    <3> QED
      BY <1>1, <3>4, <3>6, <3>7, <3>8, <3>9, <3>10 DEF OneToken
  <2> QED
    BY <2>1, <2>2
<1>18. Numbered'
  <2>1. ASSUME NEW d \in DOMAIN conns', NEW i \in DOMAIN conns'[d].toPhone,
               conns'[d].toPhone[i].type = "pairing_response"
        PROVE  conns'[d].toPhone[i].key = d /\ d <= media.key.server
    <3>1. \E k \in DOMAIN conns[d].toPhone : conns[d].toPhone[k] = conns'[d].toPhone[i]
      <4>1. CASE d = a
        <5>1. \A j \in DOMAIN Tail(conns[a].toPhone) :
                j + 1 \in DOMAIN conns[a].toPhone /\ Tail(conns[a].toPhone)[j] = conns[a].toPhone[j + 1]
          BY <1>2
        <5> QED
          BY <1>12, <2>1, <4>1, <5>1
      <4>2. CASE d # a
        BY <1>12, <1>15, <2>1, <4>2
      <4> QED
        BY <4>1, <4>2
    <3> QED
      BY <1>15, <2>1, <3>1 DEF Wire, Numbered
  <2>2. CASE a = Cur
    BY <1>1, <1>3, <1>13, <1>15, <1>17, <2>1, <2>2 DEF Numbered
  <2>3. CASE a # Cur
    <3>1. In' = In
      BY <1>2, <1>12, <1>15, <2>3 DEF In
    <3> QED
      BY <1>1, <1>15, <2>1, <3>1 DEF Wire, Numbered
  <2> QED
    BY <2>2, <2>3
<1>19. KeysGrow'
  BY <1>1, <1>10, <1>15 DEF Wire, KeysGrow
<1>20. Serving'
  <2>1. a <= a /\ phone.armed.client = phone.armed.server /\ phone.armed.server <= a
    BY <1>2 DEF Wire, Serving
  <2> QED
    BY <1>1, <1>2, <1>3, <1>4, <1>5, <1>6, <1>10, <1>15, <2>1 DEF Wire, Serving
<1>21. SameSession'
  <2> SUFFICES ASSUME a = Cur PROVE SameSession'
    BY <1>10, <1>15 DEF SameSession
  <2>1. reader.pc # "deriving"
    <3>1. ~NoReply(Out)
      BY <1>1, <1>2 DEF NoReply, Out
    <3> QED
      BY <1>2, <3>1 DEF Wire, OneToken
  <2>2. media.key.server = Cur => media.session = phone.session
    BY <1>2 DEF Wire, SameSession
  <2> QED
    BY <1>1, <1>10, <1>13, <1>15, <1>17, <2>1, <2>2 DEF SameSession
<1>22. Desk'
  BY <1>1, <1>15, <1>16, SameDesk
<1> QED
  BY <1>14, <1>17, <1>18, <1>19, <1>20, <1>21, <1>22 DEF Wire

\* The token goes out on a connection that is waiting for nothing else.
LEMMA AnswerOkStep == IInv /\ AnswerOk => IInv'
<1> SUFFICES ASSUME IInv, AnswerOk PROVE IInv'
  OBVIOUS
<1> USE DEF IInv
<1> DEFINE a == phone.accepted
           m == Ok(a)
<1>1. /\ UNCHANGED <<dart, ui, events, pc, media, client, reader, terminated, installed>>
      /\ UNCHANGED <<pm, wrongs, drops>> /\ phone.pc = "answering"
      /\ phone' = [phone EXCEPT !.authenticated = TRUE, !.pc = "pointing"]
      /\ conns' = ToPc(conns, a, m)
  BY DEF AnswerOk, pcVars
<1>2. /\ a # 0 /\ a \in Nat /\ a <= Cur /\ Cur \in Nat /\ Cur # 0
      /\ conns \in Seq(Connections) /\ phone \in Phones
      /\ phone.pending = a /\ phone.armed.server = a /\ pm.authToken = a /\ media.key.server = a
  BY <1>1 DEF Wire, Serving, TypeOK, Phones, Cur
<1>3. a \in DOMAIN conns /\ Cur \in DOMAIN conns
  BY <1>2 DEF Cur
<1>4. m \in Lines /\ m.type = "pairing_ok" /\ m.token = a
  BY <1>2 DEF Ok, Lines
<1> HIDE DEF m
<1>5. /\ conns' \in Seq(Connections) /\ Len(conns') = Len(conns)
      /\ \A d \in DOMAIN conns : d # a => conns'[d] = conns[d]
      /\ conns'[a].toPhone = conns[a].toPhone
      /\ conns'[a].toPc \in {conns[a].toPc, Append(conns[a].toPc, m)}
  BY <1>1, <1>2, <1>3, <1>4, ToPcEffect
<1>6. /\ phone' \in Phones /\ phone'.pc = "pointing" /\ phone'.authenticated = TRUE
      /\ phone'.accepted = a /\ phone'.pending = a /\ phone'.armed = phone.armed
      /\ phone'.destination = phone.destination /\ phone'.session = phone.session
  BY <1>1, <1>2 DEF Phones
<1>7. TypeOK'
  BY <1>1, <1>5, <1>6 DEF TypeOK
<1>8. Cur' = Cur /\ DOMAIN conns' = DOMAIN conns /\ Out' = Out
      /\ \A d \in DOMAIN conns : conns'[d].toPhone = conns[d].toPhone
  BY <1>2, <1>3, <1>5 DEF Cur, Out
<1>9. a # Cur => In' = In
  BY <1>3, <1>5, <1>8 DEF In
<1>10. a = Cur => /\ In = << >> /\ NoReply(Out) /\ Resting /\ In' \in {<< >>, << m >>}
                  /\ \A i \in DOMAIN Out : Out[i].type # "hello" /\ Out[i].type # "pairing_response"
  <2> SUFFICES ASSUME a = Cur
               PROVE  /\ In = << >> /\ NoReply(Out) /\ Resting /\ In' \in {<< >>, << m >>}
                      /\ \A i \in DOMAIN Out : Out[i].type # "hello" /\ Out[i].type # "pairing_response"
    OBVIOUS
  <2>1. In = << >> /\ NoReply(Out) /\ Resting
    BY <1>1, <1>2 DEF Wire, OneToken
  <2>2. In' \in {<< >>, Append(<< >>, m)}
    BY <1>5, <1>8, <2>1 DEF In
  <2>3. ~Used
    BY <1>1 DEF Used
  <2>4. \A i \in DOMAIN Out : Out[i].type # "hello"
    BY <1>2, <2>3 DEF Wire, OneToken
  <2> QED
    BY <2>1, <2>2, <2>4 DEF NoReply
<1>11. OneToken'
  <2>1. CASE a # Cur
    <3>1. ~Used
      BY <2>1 DEF Used
    <3> QED
      BY <1>1, <1>2, <1>6, <1>8, <1>9, <2>1, <3>1 DEF Wire, OneToken, Quiet, NoReply, Resting
  <2>2. CASE a = Cur
    <3>1. Resting' /\ NoReply(Out') /\ reader'.pc \notin {"deriving", "responding"}
      BY <1>1, <1>8, <1>10, <2>2 DEF Resting
    <3>2. ~Quiet(In') => Len(In') = 1
      BY <1>10, <2>2 DEF Quiet
    <3>3. ~(phone'.accepted < Cur') /\ phone'.pc # "answering"
      BY <1>2, <1>6, <1>8, <2>2
    <3>4. \A i \in DOMAIN Out' : Out'[i].type # "hello" /\ Out'[i].type # "pairing_response"
      BY <1>8, <1>10, <2>2
    <3> QED
      BY <3>1, <3>2, <3>3, <3>4 DEF OneToken
  <2> QED
    BY <2>1, <2>2
<1>12. Numbered'
  <2>1. \A d \in DOMAIN conns' : \A i \in DOMAIN conns'[d].toPhone :
          conns'[d].toPhone[i].type = "pairing_response" =>
            conns'[d].toPhone[i].key = d /\ d <= media.key.server
    BY <1>8 DEF Wire, Numbered
  <2>2. CASE a = Cur
    <3>1. \A i \in DOMAIN In' : In'[i] = m
      BY <1>10, <2>2
    <3> QED
      BY <1>1, <1>2, <1>4, <1>8, <2>1, <2>2, <3>1 DEF Numbered
  <2>3. CASE a # Cur
    BY <1>1, <1>8, <1>9, <2>1, <2>3 DEF Wire, Numbered
  <2> QED
    BY <2>2, <2>3
<1>13. KeysGrow'
  BY <1>1, <1>6, <1>8 DEF Wire, KeysGrow
<1>14. Serving'
  <2>1. phone.armed.client = phone.armed.server
    BY DEF Wire, Serving
  <2> QED
    BY <1>1, <1>2, <1>6, <1>8, <2>1 DEF Serving
<1>15. SameSession'
  <2> SUFFICES ASSUME a = Cur PROVE SameSession'
    BY <1>6, <1>8 DEF SameSession
  <2>1. reader.pc # "deriving"
    BY <1>10 DEF Resting
  <2>2. media.session = phone.session
    BY <1>1, <1>2 DEF Wire, SameSession
  <2>3. \A i \in DOMAIN In' : In'[i].type # "pairing_challenge"
    BY <1>4, <1>10
  <2> QED
    BY <1>1, <1>6, <1>8, <2>1, <2>2, <2>3 DEF SameSession
<1>16. Used => Used'
  <2> SUFFICES ASSUME Used PROVE FALSE
    OBVIOUS
  <2> QED
    BY <1>1 DEF Used
<1>17. Desk'
  BY <1>1, <1>8, <1>16, SameDesk
<1> QED
  BY <1>7, <1>11, <1>12, <1>13, <1>14, <1>15, <1>17 DEF Wire

\* ConfigureUdp: the packetizer has been armed by the time there is a
\* destination.
LEMMA ConfigureDestinationStep == IInv /\ ConfigureDestination => IInv'
<1> SUFFICES ASSUME IInv, ConfigureDestination PROVE IInv'
  OBVIOUS
<1> USE DEF IInv
<1>1. /\ UNCHANGED <<dart, ui, events, pc, media, client, reader, terminated, installed>>
      /\ UNCHANGED <<conns, pm, wrongs, drops>> /\ phone.pc = "pointing"
  BY DEF ConfigureDestination, pcVars
<1>2. /\ phone' \in Phones /\ phone'.pc = "serving" /\ phone'.accepted = phone.accepted
      /\ phone'.authenticated = phone.authenticated /\ phone'.pending = phone.pending
      /\ phone'.armed = phone.armed /\ phone'.session = phone.session
  BY DEF ConfigureDestination, TypeOK, Phones
<1>3. TypeOK'
  BY <1>1, <1>2 DEF TypeOK
<1>4. OneToken' /\ Numbered' /\ KeysGrow' /\ (Used => Used') /\ Cur' = Cur
  BY <1>1, <1>2, PhoneAlone
<1>5. phone.armed.server = phone.accepted /\ phone.accepted # 0
  BY <1>1 DEF Wire, Serving
<1>6. Serving' /\ SameSession'
  <2>1. In' = In
    BY <1>1 DEF In, Cur
  <2> QED
    BY <1>1, <1>2, <1>4, <1>5, <2>1 DEF Wire, Serving, SameSession
<1>7. Desk'
  BY <1>1, <1>4, SameDesk
<1> QED
  BY <1>3, <1>4, <1>6, <1>7 DEF Wire

-----------------------------------------------------------------------------
(* The invariant *)

\* Nothing is connected in the beginning.
LEMMA InitIInv == Init => IInv
<1> SUFFICES ASSUME Init PROVE IInv
  OBVIOUS
<1>1. NoKey \in Keys /\ NoKey.server = 0 /\ NoKey.client = 0
  BY DEF NoKey, DeriveSessionKeys, Keys
<1>2. TypeOK
  <2>1. media \in [key : Keys, session : Nat]
    BY <1>1 DEF Init
  <2>2. phone \in Phones
    BY <1>1 DEF Init, Phones
  <2>3. pm \in Managers
    BY DEF Init, Managers, ResetManager
  <2>4. conns \in Seq(Connections) /\ events \in Seq(Statuses)
    BY DEF Init
  <2>5. dart \in Darts /\ ui \in Uis /\ pc \in Pcs /\ reader \in Readers
    BY DEF Init, Darts, Uis, Pcs, Readers
  <2>6. client \in [isConnected : BOOLEAN, socket : Nat] /\ terminated \in BOOLEAN
    BY DEF Init
  <2>7. installed \subseteq Keys /\ wrongs \in Nat /\ drops \in Nat
    BY DEF Init
  <2> QED
    BY <2>1, <2>2, <2>3, <2>4, <2>5, <2>6, <2>7 DEF TypeOK
<1>3. Cur = 0 /\ DOMAIN conns = {} /\ DOMAIN events = {}
  BY DEF Init, Cur
<1>4. /\ media.key.server = 0 /\ media.key.client = 0 /\ phone.armed.server = 0 /\ phone.armed.client = 0
      /\ phone.accepted = 0 /\ phone.pending = 0 /\ phone.destination = FALSE
      /\ phone.pc = "accepting" /\ reader.pc = "exited" /\ reader.conn = 0 /\ installed = {}
  BY <1>1 DEF Init
<1>5. Wire
  BY <1>3, <1>4 DEF Wire, OneToken, Numbered, KeysGrow, Serving, SameSession
<1>6. Desk
  <2>1. /\ ui.pc = "idle" /\ ui.call = "none" /\ pc.state = "DISCONNECTED" /\ pc.isStreaming = FALSE
        /\ client.isConnected = FALSE
    BY DEF Init
  <2> QED
    BY <1>3, <1>4, <2>1 DEF Desk, Threads, PcState, ToldOnce, Final
<1> QED
  BY <1>2, <1>5, <1>6 DEF IInv

\* Every step keeps it.
LEMMA NextIInv == IInv /\ [Next]_vars => IInv'
<1> SUFFICES ASSUME IInv, [Next]_vars PROVE IInv'
  OBVIOUS
<1>1. CASE \E pin \in Pins : ConnectDevice(pin)
  BY <1>1, ConnectDeviceStep
<1>2. CASE DisconnectDevice \/ HandleStatus \/ SendCommand \/ UserCommand
  BY <1>2, DisconnectDeviceStep, HandleStatusStep, SendCommandStep DEF UserCommand
<1>3. CASE IsolateStep
  BY <1>3, CloseSocketStep, JoinReaderStep, DialFailsStep, DialSucceedsStep, ClearPairingStep
     DEF IsolateStep
<1>4. CASE ReaderStep
  BY <1>4, CheckChallengeStep, DeriveFailsStep, InstallKeyStep, RespondStep, HandlePairingOkStep,
     HandlePairingErrorStep, ReadCapabilitiesStep, ReaderExitsStep DEF ReaderStep
<1>5. CASE PhoneStep
  BY <1>5, AcceptStep, VerifyResponseStep, AnswerOkStep, ConfigureDestinationStep,
     ExecuteCommandStep, LeaveStep DEF PhoneStep
<1>6. CASE StopPhone \/ RestartPhone \/ CoolDown
  BY <1>6, StopPhoneStep, RestartPhoneStep, CoolDownStep
<1>7. CASE \E c \in DOMAIN conns : Drop(c)
  BY <1>7, DropStep
<1>8. CASE UNCHANGED vars
  <2>1. UNCHANGED <<dart, ui, events, pc, media, client, reader, terminated, conns, phone, pm,
                    installed, wrongs, drops>>
    BY <1>8 DEF vars
  <2>2. TypeOK'
    BY <2>1 DEF IInv, TypeOK
  <2>3. Wire' /\ (Used' <=> Used) /\ Cur' = Cur
    BY <2>1, StillWire DEF IInv
  <2>4. Desk'
    BY <2>1, <2>3, SameDesk DEF IInv
  <2> QED
    BY <2>2, <2>3, <2>4 DEF IInv
<1> QED
  BY <1>1, <1>2, <1>3, <1>4, <1>5, <1>6, <1>7, <1>8 DEF Next

\* The inductive invariant holds in every reachable state.
LEMMA ControlCorrect == Spec => []IInv
BY InitIInv, NextIInv, PTL DEF Spec

-----------------------------------------------------------------------------
(* What follows from it *)

\* The variables of the control plane keep their types.
THEOREM ControlTypeCorrect == Spec => []TypeOK
<1>1. IInv => TypeOK
  BY DEF IInv
<1> QED
  BY <1>1, ControlCorrect, PTL

\* UdpTransport never has a destination while the packetizer has no key: a
\* packet that leaves the phone is sealed, however often it was paired,
\* stopped and restarted.
THEOREM PhoneNeverPlaintext == Spec => []NeverPlaintext
<1>1. IInv => NeverPlaintext
  BY DEF IInv, Wire, Serving, NeverPlaintext, NoKey, DeriveSessionKeys, TypeOK, Phones
<1> QED
  BY <1>1, ControlCorrect, PTL

\* Pairing agrees: a PC that holds itself paired over the connection the phone
\* has authenticated has the phone's key, its session and its token.
THEOREM PairingAgrees == Spec => []PairedMeansAgreed
<1>1. IInv => PairedMeansAgreed
  <2> SUFFICES ASSUME IInv, pc.state = "PAIRED", client.isConnected, phone.pc # "accepting",
                      phone.authenticated, client.socket = phone.accepted
               PROVE  /\ media = [key |-> phone.armed, session |-> phone.session]
                      /\ IsTokenValid(pm, pc.token)
    BY DEF PairedMeansAgreed
  <2> USE DEF IInv
  <2>1. media.key.server = Cur /\ pc.token = Cur /\ Cur # 0 /\ phone.accepted = Cur
    BY DEF Desk, PcState, Threads, TypeOK
  <2>2. phone.armed.server = Cur /\ phone.armed.client = Cur /\ pm.authToken = Cur
    BY <2>1 DEF Wire, Serving, TypeOK, Phones
  <2>3. media.key.client = Cur /\ media.session = phone.session
    BY <2>1 DEF Wire, KeysGrow, SameSession
  <2>4. media.key = phone.armed
    <3>1. media.key \in Keys /\ phone.armed \in Keys
      BY DEF TypeOK, Phones
    <3> QED
      BY <2>1, <2>2, <2>3, <3>1 DEF Keys
  <2>5. media = [key |-> phone.armed, session |-> phone.session]
    <3>1. media \in [key : Keys, session : Nat]
      BY DEF TypeOK
    <3> QED
      BY <2>3, <2>4, <3>1
  <2> QED
    BY <2>1, <2>2, <2>5 DEF IsTokenValid
<1> QED
  BY <1>1, ControlCorrect, PTL

\* No line of an earlier connection, read late, decides a later attempt.
THEOREM AnswersCurrent == Spec => []AnswersAreCurrent
<1>1. IInv => AnswersAreCurrent
  BY DEF IInv, Desk, Threads, PcState, TypeOK, AnswersAreCurrent
<1> QED
  BY <1>1, ControlCorrect, PTL

\* Once disconnectDevice has returned nothing streams and no thread is left
\* that could start it again.
THEOREM DisconnectFinal == Spec => []DisconnectIsFinal
<1>1. IInv => DisconnectIsFinal
  BY DEF IInv, Desk, Final, TypeOK, Darts, DisconnectIsFinal, Idle
<1> QED
  BY <1>1, ControlCorrect, PTL

-----------------------------------------------------------------------------
(* The refinement: one action of KeyAgreement, or a stuttering step, for     *)
(* every step of the control plane                                           *)

\* A step of the abstract specification.
KeyStep == [Agreement!Install \/ Agreement!Arm \/ Agreement!Restart \/ Agreement!Forget]_(Agreement!keyVars)

\* Steps that touch no key stutter.
LEMMA KeysAlone ==
  ASSUME UNCHANGED <<media, installed>>, phone'.armed = phone.armed, phone'.pending = phone.pending
  PROVE  KeyStep
<1>1. media'.key = media.key
  OBVIOUS
<1>2. Fresh' <=> Fresh
  BY <1>1 DEF Fresh
<1>3. Fresh' = Fresh
  BY <1>2 DEF Fresh
<1> QED
  BY <1>1, <1>3 DEF KeyStep, Agreement!keyVars

\* InstallKey installs a key that the reassembler never had.
LEMMA InstallKeyInstalls == IInv /\ InstallKey => KeyStep
<1> SUFFICES ASSUME IInv, InstallKey PROVE KeyStep
  OBVIOUS
<1> USE DEF IInv
<1> DEFINE key == DeriveSessionKeys(reader.key, reader.conn)
<1>1. /\ phone' = phone /\ reader.pc = "deriving" /\ installed' = installed \cup {key}
      /\ media' = [key |-> key, session |-> reader.session]
  BY DEF InstallKey, phoneVars
<1>2. key.server = Cur /\ media.key.server < Cur /\ media.key.server \in Nat /\ Cur \in Nat
  BY <1>1 DEF Wire, KeysGrow, DeriveSessionKeys, TypeOK, Keys, Cur
<1> HIDE DEF key
<1>3. \A k \in installed : k.server # key.server
  <2>1. \A k \in installed : k.server \in Nat /\ k.server <= media.key.server
    BY DEF Wire, KeysGrow, TypeOK, Keys
  <2> QED
    BY <1>2, <2>1
<1>4. key # NoKey
  BY <1>2 DEF NoKey, DeriveSessionKeys
<1>5. media'.key = key
  BY <1>1
<1>6. media'.key \notin installed \cup {NoKey} /\ installed' = installed \cup {media'.key}
  BY <1>1, <1>3, <1>4, <1>5
<1>7. Fresh' \in BOOLEAN
  BY DEF Fresh
<1>8. Agreement!Install
  BY <1>1, <1>6, <1>7 DEF Agreement!Install
<1> QED
  BY <1>8 DEF KeyStep

\* A right PIN arms the phone with the reassembler's key, once.
LEMMA VerifyResponseArms ==
  ASSUME IInv, NEW keyOk \in BOOLEAN, VerifyResponse(keyOk) PROVE KeyStep
<1> USE DEF IInv
<1> DEFINE a == phone.accepted
           armed == DeriveSessionKeys(phone.pending, Request.key)
<1>1. /\ UNCHANGED <<media, installed>> /\ Serves /\ Request.type = "pairing_response"
      /\ ~phone.authenticated
  BY DEF VerifyResponse, pcVars
<1>2. \/ phone' = phone
      \/ phone' = [phone EXCEPT !.pc = "accepting"]
      \/ phone' = [phone EXCEPT !.armed = armed, !.pc = "answering"]
  BY DEF VerifyResponse, Authenticated
<1>3. /\ a # 0 /\ a \in DOMAIN conns /\ a \in Nat /\ phone.pc = "serving"
      /\ 1 \in DOMAIN conns[a].toPhone /\ Request = conns[a].toPhone[1]
  BY <1>1, PhoneLine
<1>4. Request.key = a /\ media.key.server = a /\ media.key.client = a
  <2>1. Request.key = a /\ a <= media.key.server
    BY <1>1, <1>3 DEF Wire, Numbered
  <2>2. media.key.server \in Nat /\ media.key.server <= a /\ media.key.client = media.key.server
    BY DEF Wire, KeysGrow, TypeOK, Keys
  <2> QED
    BY <1>3, <2>1, <2>2
<1>5. phone.pending = a /\ phone.armed.server # a
  BY <1>1, <1>3 DEF Wire, Serving, TypeOK, Phones
<1>6. armed = media.key
  <2>1. media.key \in Keys
    BY DEF TypeOK
  <2> QED
    BY <1>3, <1>4, <1>5, <2>1 DEF DeriveSessionKeys, Keys
<1>7. phone \in Phones
  BY DEF TypeOK
<1> HIDE DEF armed
<1>8. CASE phone' = phone \/ phone' = [phone EXCEPT !.pc = "accepting"]
  <2>1. phone'.armed = phone.armed /\ phone'.pending = phone.pending
    BY <1>7, <1>8 DEF Phones
  <2> QED
    BY <1>1, <2>1, KeysAlone
<1>9. CASE phone' = [phone EXCEPT !.armed = armed, !.pc = "answering"]
  <2>1. phone'.armed = media.key
    BY <1>6, <1>7, <1>9 DEF Phones
  <2>2. media.key # NoKey
    BY <1>3, <1>4 DEF NoKey, DeriveSessionKeys
  <2>3. Fresh
    BY <1>4, <1>5, <2>2 DEF Fresh
  <2>4. ~Fresh' /\ Fresh' \in BOOLEAN
    BY <1>1, <2>1 DEF Fresh
  <2>5. Fresh' = FALSE
    BY <2>4
  <2>6. media'.key = media.key /\ installed' = installed
    BY <1>1
  <2>7. Agreement!Arm
    BY <2>1, <2>3, <2>5, <2>6 DEF Agreement!Arm
  <2> QED
    BY <2>7 DEF KeyStep
<1> QED
  BY <1>2, <1>8, <1>9

\* A new connection makes a new key pair, and the old answer is void.
LEMMA AcceptForgets ==
  ASSUME IInv, NEW pin \in Pins, Accept(pin) PROVE KeyStep
<1> USE DEF IInv
<1> DEFINE c == phone.accepted + 1
<1>1. UNCHANGED <<media, installed>> /\ phone \in Phones /\ c \in Nat
  BY DEF Accept, pcVars, TypeOK, Phones
<1>2. \/ phone' = [phone EXCEPT !.accepted = c]
      \/ phone' = [phone EXCEPT !.accepted = c, !.pc = "serving",
                                !.authenticated = FALSE, !.pending = c]
  BY DEF Accept
<1> HIDE DEF c
<1>3. phone'.armed = phone.armed /\ phone'.pending \in {phone.pending, c}
  BY <1>1, <1>2 DEF Phones
<1>4. CASE phone'.pending = phone.pending
  BY <1>1, <1>3, <1>4, KeysAlone
<1>5. CASE phone'.pending = c
  <2>1. media.key.server # c
    BY DEF Wire, KeysGrow, TypeOK, Keys, Phones, c
  <2>2. ~Fresh' /\ Fresh' \in BOOLEAN
    BY <1>1, <1>5, <2>1 DEF Fresh
  <2>3. Fresh' = FALSE
    BY <2>2
  <2>4. media'.key = media.key /\ installed' = installed
    BY <1>1
  <2>5. Agreement!Forget
    BY <1>3, <2>3, <2>4 DEF Agreement!Forget
  <2> QED
    BY <2>5 DEF KeyStep
<1> QED
  BY <1>3, <1>4, <1>5

\* A new native session has no key and waits for none.
LEMMA RestartPhoneRestarts == IInv /\ RestartPhone => KeyStep
<1> SUFFICES ASSUME IInv, RestartPhone PROVE KeyStep
  OBVIOUS
<1> USE DEF IInv
<1>1. UNCHANGED <<media, installed>>
  BY DEF RestartPhone, pcVars
<1>2. phone'.armed = NoKey /\ phone'.pending = 0
  <2>1. phone' = [phone EXCEPT !.running = TRUE, !.session = @ + 1,
                            !.accepted = Len(conns), !.pending = 0,
                            !.armed = NoKey, !.destination = FALSE]
    BY DEF RestartPhone
  <2> QED
    BY <2>1 DEF TypeOK, Phones
<1>3. media.key # NoKey => media.key.server # 0
  <2>1. media.key \in Keys /\ media.key.client = media.key.server
    BY DEF TypeOK, Wire, KeysGrow
  <2> QED
    BY <2>1 DEF Keys, NoKey, DeriveSessionKeys
<1>4. ~Fresh' /\ Fresh' \in BOOLEAN
  BY <1>1, <1>2, <1>3 DEF Fresh
<1>5. Fresh' = FALSE
  BY <1>4
<1>6. media'.key = media.key /\ installed' = installed
  BY <1>1
<1>7. Agreement!Restart
  BY <1>2, <1>5, <1>6 DEF Agreement!Restart
<1> QED
  BY <1>7 DEF KeyStep

\* Every step of the control plane is a step of KeyAgreement.
LEMMA NextKeyStep == IInv /\ [Next]_vars => KeyStep
<1> SUFFICES ASSUME IInv, [Next]_vars PROVE KeyStep
  OBVIOUS
<1>1. CASE InstallKey
  BY <1>1, InstallKeyInstalls
<1>2. CASE \E keyOk \in BOOLEAN : VerifyResponse(keyOk)
  BY <1>2, VerifyResponseArms
<1>3. CASE \E pin \in Pins : Accept(pin)
  BY <1>3, AcceptForgets
<1>4. CASE RestartPhone
  BY <1>4, RestartPhoneRestarts
<1>5. CASE Leave \/ StopPhone \/ AnswerOk \/ ConfigureDestination
  <2>1. UNCHANGED <<media, installed>>
    BY <1>5 DEF Leave, StopPhone, AnswerOk, ConfigureDestination, pcVars
  <2>2. \/ phone' = [phone EXCEPT !.pc = "accepting"] \/ phone' = [phone EXCEPT !.running = FALSE]
        \/ phone' = [phone EXCEPT !.authenticated = TRUE, !.pc = "pointing"]
        \/ \E b \in BOOLEAN : phone' = [phone EXCEPT !.destination = b, !.pc = "serving"]
    BY <1>5 DEF Leave, StopPhone, AnswerOk, ConfigureDestination
  <2>3. phone'.armed = phone.armed /\ phone'.pending = phone.pending
    BY <2>2 DEF IInv, TypeOK, Phones
  <2> QED
    BY <2>1, <2>3, KeysAlone
<1>6. CASE UNCHANGED <<media, installed, phone>>
  BY <1>6, KeysAlone
<1>7. \A pin \in Pins : ConnectDevice(pin) => UNCHANGED <<media, installed, phone>>
  BY DEF ConnectDevice, phoneVars
<1>8. DisconnectDevice \/ HandleStatus \/ SendCommand \/ UserCommand \/ CoolDown \/ ExecuteCommand
      => UNCHANGED <<media, installed, phone>>
  BY DEF DisconnectDevice, HandleStatus, SendCommand, UserCommand, CoolDown, ExecuteCommand,
         phoneVars, pcVars
<1>9. IsolateStep => UNCHANGED <<media, installed, phone>>
  BY DEF IsolateStep, CloseSocket, JoinReader, DialFails, DialSucceeds, ClearPairing, phoneVars
<1>10. CheckChallenge \/ DeriveFails \/ Respond \/ HandlePairingOk \/ HandlePairingError
       \/ ReadCapabilities \/ ReaderExits => UNCHANGED <<media, installed, phone>>
  BY DEF CheckChallenge, DeriveFails, Respond, HandlePairingOk, HandlePairingError,
         ReadCapabilities, ReaderExits, phoneVars, pcVars
<1>11. \A c \in DOMAIN conns : Drop(c) => UNCHANGED <<media, installed, phone>>
  BY DEF Drop, phoneVars, pcVars
<1>12. UNCHANGED vars => UNCHANGED <<media, installed, phone>>
  BY DEF vars
<1> QED
  BY <1>1, <1>2, <1>3, <1>4, <1>5, <1>6, <1>7, <1>8, <1>9, <1>10, <1>11, <1>12
     DEF Next, ReaderStep, PhoneStep

\* The control plane implements KeyAgreement: the phone is armed with nothing
\* but the key the PC holds at that moment, once, and no key comes back.
THEOREM ControlRefinesKeyAgreement == Spec => ImplementsKeyAgreement
<1>1. Init => Agreement!KeyInit
  <2> SUFFICES ASSUME Init PROVE Agreement!KeyInit
    OBVIOUS
  <2>1. media.key = NoKey /\ phone.armed = NoKey /\ installed = {}
    BY DEF Init
  <2>2. Fresh = FALSE
    BY <2>1 DEF Fresh
  <2> QED
    BY <2>1, <2>2 DEF Agreement!KeyInit
<1>2. IInv /\ [Next]_vars =>
        [Agreement!Install \/ Agreement!Arm \/ Agreement!Restart \/ Agreement!Forget]_(Agreement!keyVars)
  BY NextKeyStep DEF KeyStep
<1> QED
  BY <1>1, <1>2, ControlCorrect, PTL DEF Spec, ImplementsKeyAgreement, Agreement!KeySpec
=============================================================================
