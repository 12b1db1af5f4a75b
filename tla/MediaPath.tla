------------------------------ MODULE MediaPath ------------------------------
(***************************************************************************)
(* The media path: the phone's sender (NativeSenderContext and its         *)
(* Packetizer), the UDP network, and the PC's FrameReassembler with the    *)
(* replay filter, session pinning and keyframe gate in front of it.        *)
(*                                                                         *)
(* Three threads meet here.  The encoder and microphone callbacks of the   *)
(* phone send under one mutex.  The UDP worker of the PC runs PushPacket,  *)
(* whose authentication and replay check run before the mutex is taken     *)
(* (steps Examine, Decrypt and Commit) and whose assembly runs under it.   *)
(* The control thread of the PC runs SetCrypto, SetExpectedSessionId and   *)
(* Reset under the mutex, at any point of PushPacket.                      *)
(*                                                                         *)
(* The network keeps every packet ever sent: a packet may be delivered     *)
(* late, out of order, many times or never.                                *)
(*                                                                         *)
(* Abstractions: a payload is the place it was cut from: stream, session,  *)
(* frame and index.  A key is a number, 0 for no key (plaintext), in the   *)
(* order of the pairing rounds; a packet is authentic under exactly the    *)
(* key it was sealed with.  Pairing itself is ControlPlane's: here the PC  *)
(* gets a key and the phone gets it after the PC has it.  A failed         *)
(* encryption is a packet never delivered.  Frame and sequence counters    *)
(* stay within one period of their 32 bits, so the wrap-around arm of the  *)
(* age test is never taken.                                                *)
(***************************************************************************)
EXTENDS ReplayFilter, FiniteSets

CONSTANTS
  kMaxPending,   \* cap on pendingFrames_, 16 in the code
  MaxPackets,    \* bound: packets sent
  MaxFrames,     \* bound: video frames of a phone session
  MaxAudio,      \* bound: audio frames of a phone session (0: no microphone)
  FragCounts,    \* bound: how many fragments a video frame may have
  MaxKey,        \* bound: pairing rounds
  MaxClears,     \* bound: times the control thread clears the filter
  MaxSessions    \* bound: times the phone starts streaming

ASSUME BoundsAssumption ==
  /\ kMaxPending \in Nat \ {0}
  /\ MaxPackets \in Nat /\ MaxFrames \in Nat /\ MaxAudio \in Nat /\ FragCounts \subseteq Nat \ {0}
  /\ MaxKey \in Nat /\ MaxClears \in Nat /\ MaxSessions \in Nat \ {0}

VARIABLES
  sender,        \* the phone: session id, counters, key of the packetizer
  net,           \* every packet handed to sendto
  idrWanted,     \* a REQUEST_IDR is on its way to the encoder
  crypto,        \* the reassembler's key, 0 for none
  filter,        \* replayFilter_
  session,       \* sessionLocked_ and expectedSessionId_
  waitingForKeyframe,
  lastEmittedFrameId,
  pendingFrames, \* frame id -> partly received frame
  pump,          \* where the UDP worker is in PushPacket, and its packet
  pinning,       \* session id SetExpectedSessionId is about to be given, or 0
  committed,     \* history: sequences accepted since the filter was cleared
  clears,        \* history: how often that happened
  out            \* the frame the last step gave to onFrameReady_, if any

vars == <<sender, net, idrWanted, crypto, filter, session, waitingForKeyframe,
          lastEmittedFrameId, pendingFrames, pump, pinning, committed, clears, out>>

senderVars == <<sender, net>>
filterVars == <<crypto, filter, committed, clears>>
frameVars  == <<waitingForKeyframe, lastEmittedFrameId, pendingFrames>>

-----------------------------------------------------------------------------
(* Packets and frames *)

Streams == {"video", "audio"}

Packets == [stream : Streams, session : Nat, frameId : Nat, sequence : Nat,
            index : Nat, count : Nat, isKeyframe : BOOLEAN, key : Nat]

\* What a fragment's bytes were cut from.
Source(p) == <<p.stream, p.session, p.frameId, p.index>>

\* Nothing received, nothing in the worker's hands, nothing emitted yet.
NoFragments == [i \in {} |-> <<"video", 0, 0, 0>>]
NoPacket    == "none"
IdlePump    == [pc |-> "idle", packet |-> NoPacket, key |-> 0]
NoFrame     == [frameId |-> 0, isKeyframe |-> FALSE, total |-> 0,
                data |-> NoFragments]
NoPending   == [g \in {} |-> NoFrame]

-----------------------------------------------------------------------------
(* The phone *)

Senders == [session : Nat, frameCounter : Nat, audioCounter : Nat,
            packetSequence : Nat, key : Nat, rounds : Nat]

\* A fresh NativeSenderContext.  rounds is the last pairing round begun before
\* now: each round has its own key pair, so older keys can never be derived.
NewSession(id, rounds) ==
  [session |-> id, frameCounter |-> 0, audioCounter |-> 0,
   packetSequence |-> 0, key |-> 0, rounds |-> rounds]

\* sendto, once a client is paired: the packetizer is armed before the UDP
\* destination is set, so nothing leaves the phone in plaintext.
Transmit(packets) == net' = IF sender.key = 0 THEN net ELSE net \cup packets

\* SendVideoNal: number the frame, cut it into n packets, send them.
SendVideo(isKeyframe, n) ==
  /\ sender.frameCounter < MaxFrames
  /\ Cardinality(net) + n <= MaxPackets
  /\ sender' = [sender EXCEPT !.frameCounter   = @ + 1,
                              !.packetSequence = @ + n]
  /\ Transmit(
       {[stream     |-> "video",
         session    |-> sender.session,
         frameId    |-> sender.frameCounter + 1,
         sequence   |-> sender.packetSequence + i,
         index      |-> i,
         count      |-> n,
         isKeyframe |-> isKeyframe,
         key        |-> sender.key] : i \in 0 .. (n - 1)})
  /\ idrWanted' = (idrWanted /\ ~isKeyframe)
  /\ out' = NoFrame
  /\ UNCHANGED <<filterVars, session, frameVars, pump, pinning>>

\* SendAudioFrame: one packet, numbered by a counter of its own.
SendAudio ==
  /\ sender.audioCounter < MaxAudio
  /\ Cardinality(net) < MaxPackets
  /\ sender' = [sender EXCEPT !.audioCounter   = @ + 1,
                              !.packetSequence = @ + 1]
  /\ Transmit(
       {[stream     |-> "audio",
         session    |-> sender.session,
         frameId    |-> sender.audioCounter + 1,
         sequence   |-> sender.packetSequence,
         index      |-> 0,
         count      |-> 1,
         isKeyframe |-> FALSE,
         key        |-> sender.key]})
  /\ out' = NoFrame
  /\ UNCHANGED <<idrWanted, filterVars, session, frameVars, pump, pinning>>

\* CompletePairing: the phone derives the key the PC already holds and arms
\* the packetizer with it.  That it never gets another one is what ControlPlane
\* shows (ImplementsKeyAgreement) and this module starts from.  Sequence and
\* frame counters go on.
ArmSender ==
  /\ crypto > sender.rounds
  /\ sender' = [sender EXCEPT !.key = crypto, !.rounds = crypto]
  /\ out' = NoFrame
  /\ UNCHANGED <<net, idrWanted, filterVars, session, frameVars, pump, pinning>>

\* The phone stops streaming and starts again: a new NativeSenderContext with
\* a fresh session id, counters from zero and no key.
RestartSender ==
  /\ sender.session < MaxSessions
  /\ sender' = NewSession(sender.session + 1, crypto)
  /\ idrWanted' = FALSE
  /\ out' = NoFrame
  /\ UNCHANGED <<net, filterVars, session, frameVars, pump, pinning>>

-----------------------------------------------------------------------------
(* The PC's UDP worker: PushPacket *)

\* Header checks and the first look at crypto_, outside the lock: a packet
\* sealed when there is no key, or plain when there is one, is dropped.
Examine(p) ==
  /\ pump.pc = "idle"
  /\ (p.key = 0) = (crypto = 0)
  /\ pump' = [pc |-> "decrypting", packet |-> p, key |-> crypto]
  /\ out' = NoFrame
  /\ UNCHANGED <<senderVars, idrWanted, filterVars, session, frameVars, pinning>>

\* The second look at crypto_, still outside the lock, and the decryption.  If
\* SetCrypto has replaced the context since, the worker may have the old one or
\* the new one; a packet sealed with another key is dropped without a trace.
Decrypt ==
  /\ pump.pc = "decrypting"
  /\ LET keys == pump.key .. crypto
     IN \/ /\ pump.packet.key \in keys
           /\ pump' = [pump EXCEPT !.pc = "accepting"]
        \/ /\ keys # {pump.packet.key}
           /\ pump' = IdlePump
  /\ out' = NoFrame
  /\ UNCHANGED <<senderVars, idrWanted, filterVars, session, frameVars, pinning>>

\* replayFilter_.Accept, outside the lock.
Commit ==
  /\ pump.pc = "accepting"
  /\ IF Accepts(filter, pump.packet.sequence)
       THEN /\ filter' = Mark(filter, pump.packet.sequence)
            /\ committed' = committed \cup {pump.packet.sequence}
            /\ pump' = [pump EXCEPT !.pc = "locking"]
       ELSE /\ pump' = IdlePump
            /\ UNCHANGED <<filter, committed>>
  /\ out' = NoFrame
  /\ UNCHANGED <<senderVars, idrWanted, crypto, clears, session, frameVars, pinning>>

\* The worker holds the lock and leaves PushPacket by the end of the step.
Locked ==
  /\ pump.pc = "locking"
  /\ pump' = IdlePump

\* Adopt-and-lock: the first packet after a reset chooses the session.
Adopt(p) ==
  session' = [locked |-> TRUE,
              id     |-> IF session.locked THEN session.id ELSE p.session]

OtherSession(p) == session.locked /\ p.session # session.id

\* Mutant: the keyframe gate is left out.
NeverMissing(p) == FALSE

\* Behind the gate only keyframe packets pass.
MissingKeyframe(p) == waitingForKeyframe /\ ~p.isKeyframe

\* Mutant: the age test lets the emitted frame itself in again.
StrictlyOlder(p) == ~waitingForKeyframe /\ p.frameId < lastEmittedFrameId

\* The frame is not newer than the one last shown.
OlderThanEmitted(p) == ~waitingForKeyframe /\ p.frameId <= lastEmittedFrameId

DropOtherSession ==
  /\ Locked
  /\ OtherSession(pump.packet)
  /\ out' = NoFrame
  /\ UNCHANGED <<senderVars, idrWanted, filterVars, session, frameVars, pinning>>

\* onMissingKeyframe_ asks the phone for a keyframe, if the PC is streaming
\* and connected.
DropUntilKeyframe ==
  /\ Locked
  /\ ~OtherSession(pump.packet)
  /\ MissingKeyframe(pump.packet)
  /\ Adopt(pump.packet)
  /\ idrWanted' \in {idrWanted, TRUE}
  /\ out' = NoFrame
  /\ UNCHANGED <<senderVars, filterVars, frameVars, pinning>>

DropOlder ==
  /\ Locked
  /\ ~OtherSession(pump.packet)
  /\ OlderThanEmitted(pump.packet)
  /\ Adopt(pump.packet)
  /\ out' = NoFrame
  /\ UNCHANGED <<senderVars, idrWanted, filterVars, frameVars, pinning>>

\* The pending frame a packet belongs to, made on its first fragment.
PendingFor(p) ==
  IF p.frameId \in DOMAIN pendingFrames
    THEN pendingFrames[p.frameId]
    ELSE [isKeyframe |-> p.isKeyframe, total |-> p.count, received |-> 0,
          fragments |-> NoFragments]

\* Mutant: a fragment is counted without looking whether it is there.
CountAlways(f, p) ==
  [f EXCEPT !.received = @ + 1,
            !.fragments = [i \in DOMAIN @ \cup {p.index} |->
                             IF i \in DOMAIN @ THEN @[i] ELSE Source(p)]]

\* A fragment is stored, and counted, the first time its index arrives.
WithFragment(f, p) ==
  IF p.index \in DOMAIN f.fragments
    THEN f
    ELSE [f EXCEPT !.received  = @ + 1,
                   !.fragments = [i \in DOMAIN @ \cup {p.index} |->
                                    IF i \in DOMAIN @ THEN @[i] ELSE Source(p)]]

Complete(f) == f.received = f.total /\ f.total > 0

\* The buffer handed on: the stored fragments in index order.
Reassembled(frameId, f) ==
  [frameId    |-> frameId,
   isKeyframe |-> f.isKeyframe,
   total      |-> f.total,
   data       |-> [i \in (0 .. (f.total - 1)) \cap DOMAIN f.fragments |->
                     f.fragments[i]]]

\* Mutant: the cleanup stops short of the emitted frame itself.
KeepFrom(frameId) ==
  [g \in {h \in DOMAIN pendingFrames : h >= frameId} |-> pendingFrames[g]]

\* Cleanup after an emission: every pending frame up to it is erased.
NewerThan(frameId) ==
  [g \in {h \in DOMAIN pendingFrames : h > frameId} |-> pendingFrames[g]]

Stored(frameId, f) ==
  [g \in DOMAIN pendingFrames \cup {frameId} |->
     IF g = frameId THEN f ELSE pendingFrames[g]]

\* Over the cap, the oldest pending frame goes, be it the one just touched.
Trimmed(frames) ==
  IF Cardinality(DOMAIN frames) > kMaxPending
    THEN [g \in {h \in DOMAIN frames : \E e \in DOMAIN frames : e < h} |->
            frames[g]]
    ELSE frames

\* The packet is one to assemble.
Wanted(p) ==
  /\ ~OtherSession(p)
  /\ ~MissingKeyframe(p)
  /\ ~OlderThanEmitted(p)

StoreFragment ==
  /\ Locked
  /\ Wanted(pump.packet)
  /\ Adopt(pump.packet)
  /\ LET p == pump.packet
         f == WithFragment(PendingFor(p), p)
     IN /\ ~Complete(f)
        /\ pendingFrames' = Trimmed(Stored(p.frameId, f))
  /\ out' = NoFrame
  /\ UNCHANGED <<senderVars, idrWanted, filterVars, waitingForKeyframe,
                 lastEmittedFrameId, pinning>>

EmitFrame ==
  /\ Locked
  /\ Wanted(pump.packet)
  /\ Adopt(pump.packet)
  /\ LET p == pump.packet
         f == WithFragment(PendingFor(p), p)
     IN /\ Complete(f)
        /\ out' = Reassembled(p.frameId, f)
        /\ lastEmittedFrameId' = p.frameId
        /\ pendingFrames' = NewerThan(p.frameId)
  /\ waitingForKeyframe' = FALSE
  /\ UNCHANGED <<senderVars, idrWanted, filterVars, pinning>>

-----------------------------------------------------------------------------
(* The PC's control thread *)

\* Clearing the filter holds the lock, but Accept does not take it.  If the
\* worker is inside Accept the two race, and each field ends with the cleared
\* value or with the one Accept wrote, having read the old or the cleared
\* filter; the verdict is anyone's.  With seenAny_ unset the other fields are
\* overwritten before they are read, so those outcomes are FreshFilter.
RacedFilters(f, s) ==
  LET written == {Mark(FreshFilter, s)} \cup
                 (IF Accepts(f, s) THEN {Mark(f, s)} ELSE {})
      ends    == {FreshFilter} \cup written
  IN  {FreshFilter} \cup [seenAny : {TRUE},
                          highest : {g.highest : g \in ends},
                          bitmap  : {g.bitmap : g \in ends}]

ClearFilter ==
  /\ clears < MaxClears
  /\ clears' = clears + 1
  /\ committed' = {}
  /\ \/ filter' = FreshFilter /\ UNCHANGED pump
     \/ /\ pump.pc = "accepting"
        /\ filter' \in RacedFilters(filter, pump.packet.sequence)
        /\ pump' \in {[pump EXCEPT !.pc = "locking"],
                     IdlePump}

\* SetCrypto, with the key of a new pairing round (HandlePairingChallenge) or
\* with the one already held (StartSession).  id is the session id the
\* challenge named and the caller will pin next, 0 when there is none; the
\* phone may have restarted since it sent the challenge.
SetCrypto(key, id) ==
  /\ pinning = 0
  /\ crypto' = key
  /\ ClearFilter
  /\ session' = [session EXCEPT !.locked = FALSE]
  /\ pinning' = id
  /\ out' = NoFrame
  /\ UNCHANGED <<senderVars, idrWanted, frameVars>>

SetExpectedSessionId ==
  /\ pinning # 0
  /\ session' = [locked |-> TRUE, id |-> pinning]
  /\ pinning' = 0
  /\ out' = NoFrame
  /\ UNCHANGED <<senderVars, idrWanted, filterVars, frameVars, pump>>

\* Reset, as StopSession calls it.
Reset ==
  /\ pinning = 0
  /\ pendingFrames' = NoPending
  /\ lastEmittedFrameId' = 0
  /\ waitingForKeyframe' = TRUE
  /\ ClearFilter
  /\ session' = [session EXCEPT !.locked = FALSE]
  /\ out' = NoFrame
  /\ UNCHANGED <<senderVars, idrWanted, crypto, pinning>>

-----------------------------------------------------------------------------
Init ==
  /\ sender = NewSession(1, 0)
  /\ net = {}
  /\ idrWanted = FALSE
  /\ crypto = 0
  /\ filter = FreshFilter
  /\ session = [locked |-> FALSE, id |-> 0]
  /\ waitingForKeyframe = TRUE
  /\ lastEmittedFrameId = 0
  /\ pendingFrames = NoPending
  /\ pump = IdlePump
  /\ pinning = 0
  /\ committed = {}
  /\ clears = 0
  /\ out = NoFrame

Next ==
  \/ \E isKeyframe \in BOOLEAN, n \in FragCounts : SendVideo(isKeyframe, n)
  \/ SendAudio
  \/ ArmSender
  \/ RestartSender
  \/ \E p \in net : Examine(p)
  \/ Decrypt
  \/ Commit
  \/ DropOtherSession
  \/ DropUntilKeyframe
  \/ DropOlder
  \/ StoreFragment
  \/ EmitFrame
  \/ \E key \in {crypto, crypto + 1} \cap (1 .. MaxKey), id \in 0 .. sender.session :
       SetCrypto(key, id)
  \/ SetExpectedSessionId
  \/ Reset

Spec == Init /\ [][Next]_vars

-----------------------------------------------------------------------------
(* Properties *)

IsPartialFrame(f) ==
  /\ f = [isKeyframe |-> f.isKeyframe, total |-> f.total,
          received |-> f.received, fragments |-> f.fragments]
  /\ f.isKeyframe \in BOOLEAN /\ f.total \in Nat /\ f.received \in Nat
  /\ f.fragments = [i \in DOMAIN f.fragments |-> f.fragments[i]]
  /\ DOMAIN f.fragments \subseteq Nat

\* Types of all the variables.
TypeOK ==
  /\ sender \in Senders
  /\ net \subseteq Packets
  /\ idrWanted \in BOOLEAN
  /\ crypto \in Nat
  /\ filter \in Filters
  /\ session \in [locked : BOOLEAN, id : Nat]
  /\ waitingForKeyframe \in BOOLEAN
  /\ lastEmittedFrameId \in Nat
  /\ DOMAIN pendingFrames \subseteq Nat
  /\ \A g \in DOMAIN pendingFrames : IsPartialFrame(pendingFrames[g])
  /\ pump = [pc |-> pump.pc, packet |-> pump.packet, key |-> pump.key]
  /\ pump.pc \in {"idle", "decrypting", "accepting", "locking"} /\ pump.key \in Nat
  /\ pump.pc # "idle" => pump.packet \in net
  /\ pinning \in Nat
  /\ committed \subseteq Nat
  /\ clears \in Nat

\* Replay protection (ReplayFilter::Accept and its call in PushPacket): a
\* sequence number that was accepted since the filter was last cleared is
\* never accepted again, however often and however late its packet arrives.
AcceptedOnce ==
  [][(/\ pump.pc = "accepting"
      /\ pump.packet.sequence \in committed
      /\ committed \subseteq committed')
     => pump'.pc # "locking"]_vars

\* The keyframe gate (waitingForKeyframe_): the frame that opens the gate
\* after a start or a Reset is a keyframe, so the decoder never begins with
\* a frame it has no reference for.
KeyframeFirst ==
  [][waitingForKeyframe /\ ~waitingForKeyframe' => out'.isKeyframe]_vars

\* "Ignore frames older than our last emitted frame to prevent jitter
\* inversion": between Resets, emitted frame ids only grow, and so no frame
\* is handed to the decoder twice.
NoJitterInversion ==
  [][(/\ out' # NoFrame
      /\ ~waitingForKeyframe)
     => lastEmittedFrameId' > lastEmittedFrameId]_vars

\* Pending frames are bounded (the cap of 16) and are all still of use: none
\* is as old as the frame already shown.
PendingIsUseful ==
  /\ Cardinality(DOMAIN pendingFrames) <= kMaxPending
  /\ ~waitingForKeyframe =>
       \A g \in DOMAIN pendingFrames : g > lastEmittedFrameId

\* A frame record f holds exactly the fragments that the sender cut that frame
\* into, each in its place.
Whole(f) ==
  /\ DOMAIN f.data = 0 .. (f.total - 1)
  /\ \A i \in DOMAIN f.data :
       \E p \in net : /\ p.stream = "video"
                      /\ p.frameId = f.frameId
                      /\ p.index = i
                      /\ p.count = f.total
                      /\ p.isKeyframe = f.isKeyframe
                      /\ f.data[i] = Source(p)

\* Only one phone session has sent, and it has sent no audio.
OneVideoSource == \A p \in net : p.stream = "video" /\ p.session = 1

\* Reassembly (PushPacket): as long as a single phone session sends video
\* only, every emitted frame is whole, whatever was lost, repeated, reordered,
\* trimmed, re-keyed or reset on the way.
FrameIntegrity == OneVideoSource => Whole(out)

\* "streamId: 0 for Video, 1 for Audio" (protocol.h): a VideoFrame given to
\* the decoder holds no audio payload.
VideoFramesHoldVideo ==
  \A i \in DOMAIN out.data : out.data[i][1] = "video"

-----------------------------------------------------------------------------
(* The inductive invariant behind the properties *)

\* The filter knows of every sequence accepted since it was cleared.
FilterInv == \A s \in committed : Remembers(filter, s)

\* The packets of one frame of one source agree on how the frame was cut, and
\* a frame number is used once in a session.
NetInv ==
  /\ \A p \in net :
       /\ p.index < p.count
       /\ p.session <= sender.session
       /\ p.session = sender.session /\ p.stream = "video" =>
            p.frameId <= sender.frameCounter
  /\ \A p, q \in net :
       p.session = q.session /\ p.stream = "video" /\ q.stream = "video"
         /\ p.frameId = q.frameId =>
            p.count = q.count /\ p.isKeyframe = q.isKeyframe

\* Bookkeeping of one partly received frame.
CountInv ==
  \A g \in DOMAIN pendingFrames :
    /\ IsFiniteSet(DOMAIN pendingFrames[g].fragments)
    /\ DOMAIN pendingFrames[g].fragments # {}
    /\ pendingFrames[g].received = Cardinality(DOMAIN pendingFrames[g].fragments)

\* Behind the keyframe gate only keyframes are collected.
GateInv ==
  waitingForKeyframe =>
    \A g \in DOMAIN pendingFrames : pendingFrames[g].isKeyframe

\* Fragment i of pending frame g, held in record f, is a video packet's.
FragmentSent(g, f, i) ==
  \E p \in net : /\ p.stream = "video"
                 /\ p.frameId = g
                 /\ p.index = i
                 /\ p.count = f.total
                 /\ p.isKeyframe = f.isKeyframe
                 /\ f.fragments[i] = Source(p)

SourceInv ==
  OneVideoSource =>
    \A g \in DOMAIN pendingFrames :
      \A i \in DOMAIN pendingFrames[g].fragments :
        FragmentSent(g, pendingFrames[g], i)

PendingFinite == IsFiniteSet(DOMAIN pendingFrames)

\* The conjunction that every step preserves.
IInv ==
  /\ TypeOK
  /\ FilterInv
  /\ NetInv
  /\ CountInv
  /\ GateInv
  /\ PendingFinite
  /\ PendingIsUseful
  /\ SourceInv
  /\ FrameIntegrity
=============================================================================
