---------------------------- MODULE VeyraSession ----------------------------
(***************************************************************************)
(* VeyraSession, the receiving session of the core library: its state, the *)
(* crypto it hands to packetizer and reassembler, its transports, and the  *)
(* way of a frame from the reassembler through the AdaptiveJitterBuffer to *)
(* the frame callback.                                                     *)
(*                                                                         *)
(* Two threads: the network thread carries a frame under the reassembler's *)
(* mutex (PushFrame, PopNextFrame and the callback are steps of their own, *)
(* since the buffer has a mutex of its own); the application's thread      *)
(* calls everything else, and StopSession in three steps.                  *)
(*                                                                         *)
(* The reassembler is replaced by what MediaPath shows of it: frames come  *)
(* in the order they were captured, and the first after a Reset is a       *)
(* keyframe.  A codec configuration is flagged keyframe and carries        *)
(* timestamp 0; other timestamps grow.                                     *)
(***************************************************************************)
EXTENDS TransportManager

CONSTANTS
  maxQueueFrames,  \* JitterBufferConfig, 10 in the session
  MaxFrames,       \* bound: frames captured
  MaxCalls         \* bound: calls of the application

ASSUME SessionAssumption ==
  maxQueueFrames \in Nat \ {0} /\ MaxFrames \in Nat /\ MaxCalls \in Nat

VARIABLES
  state,           \* state_
  encrypted,       \* config_.enableEncryption
  crypto,          \* crypto_, and the ones installed in packetizer and reassembler
  queue,           \* queue_ of the jitter buffer
  waitingForInitialKeyframe,
  droppedFrames,
  gate,            \* the reassembler waits for a keyframe
  net,             \* where the network thread is, and the frame it carries
  stop,            \* where the application is in StopSession
  captured,        \* history: frames captured
  calls,           \* history: calls of the application
  first,           \* history: kind of the first frame let out since the last Flush
  last,            \* history: number of the last picture shown
  wire             \* the command the last step gave to a link, if any

sessionVars == <<state, encrypted, crypto>>
jitterVars  == <<queue, waitingForInitialKeyframe, droppedFrames>>
shownVars   == <<first, last>>
vars == <<transportVars, sessionVars, jitterVars, gate, net, stop, captured,
          calls, shownVars, wire>>

Kinds   == {"config", "key", "delta"}
Frames  == [n : 1 .. MaxFrames, kind : Kinds]
NoFrame == [n |-> 0, kind |-> "none"]

timestamp(f)  == IF f.kind = "config" THEN 0 ELSE f.n
isKeyframe(f) == f.kind # "delta"

\* Crypto contexts: none, without a key, with one.
Cryptos == {"null", "unkeyed", "keyed"}

Init ==
  /\ TransportInit
  /\ state = "IDLE" /\ encrypted = FALSE
  /\ crypto = [own |-> "unkeyed", tx |-> "null", rx |-> "null"]
  /\ queue = <<>> /\ waitingForInitialKeyframe = TRUE /\ droppedFrames = 0
  /\ gate = TRUE /\ net = [at |-> "idle", frame |-> NoFrame] /\ stop = "no"
  /\ captured = 0 /\ calls = 0 /\ first = "none" /\ last = 0 /\ wire = "none"

Modes == Types \cup {"AUTO"}

Call ==
  /\ stop = "no" /\ calls < MaxCalls
  /\ calls' = calls + 1
  /\ UNCHANGED <<jitterVars, gate, net, stop, captured, shownVars>>

\* A command goes out on the active link, or nowhere.
Send(op) == wire' = IF SendsOn = NoLink THEN "none" ELSE op

-----------------------------------------------------------------------------
(* The application *)

\* Mutant: a session without a key starts all the same.
StartUnkeyed(enc, mode) ==
  /\ Call
  /\ SetPreferredTransportMode(mode)
  /\ encrypted' = enc
  /\ state' = "STREAMING" /\ UNCHANGED crypto
  /\ wire' = "none"

\* With encryption and a null crypto_ the code dereferences the null pointer.
StartSession(enc, mode) ==
  /\ Call
  /\ enc => crypto.own # "null"
  /\ SetPreferredTransportMode(mode)
  /\ encrypted' = enc
  /\ \/ /\ enc /\ crypto.own = "unkeyed"
        /\ state' = "ERROR_STATE" /\ UNCHANGED crypto
     \/ /\ enc /\ crypto.own = "keyed"
        /\ state' = "STREAMING"
        /\ crypto' = [crypto EXCEPT !.tx = crypto.own, !.rx = crypto.own]
     \/ /\ ~enc /\ state' = "STREAMING" /\ UNCHANGED crypto
  /\ wire' = "none"

SetCrypto(c) ==
  /\ Call
  /\ crypto' = IF c # "null" /\ encrypted /\ state # "IDLE"
               THEN [own |-> c, tx |-> c, rx |-> c] ELSE [crypto EXCEPT !.own = c]
  /\ wire' = "none"
  /\ UNCHANGED <<transportVars, state, encrypted>>

PauseSession ==
  /\ Call /\ state = "STREAMING"
  /\ state' = "PAUSED" /\ wire' = "none"
  /\ UNCHANGED <<transportVars, encrypted, crypto>>

ResumeSession ==
  /\ Call /\ state = "PAUSED"
  /\ state' = "STREAMING"
  /\ Send("REQUEST_IDR")
  /\ UNCHANGED <<transportVars, encrypted, crypto>>

\* SetZoom, SetExposure, SetFocus, UpdateBitrate, RequestIdr and SwitchCamera, which
\* only asks for a keyframe; SetTorch stores its value and sends nothing.
Command(op) ==
  /\ Call
  /\ Send(op)
  /\ UNCHANGED <<transportVars, sessionVars>>

\* RegisterTransport, SetPreferredTransport, and the manager's own entries.
Transports ==
  /\ Call
  /\ \/ \E l \in Links : RegisterTransport(l)
     \/ \E m \in Modes : SetPreferredTransportMode(m)
     \/ EvaluateAndHandoff
     \/ \E t \in Types : InitiateHandoff(t)
  /\ wire' = "none"
  /\ UNCHANGED sessionVars

LinkStep ==
  /\ \E l \in Links : LinkChange(l)
  /\ wire' = "none"
  /\ UNCHANGED <<sessionVars, jitterVars, gate, net, stop, captured, calls, shownVars>>

\* Mutant: the flushed buffer takes any frame next.
FlushUngated == queue' = <<>> /\ first' = "none" /\ UNCHANGED waitingForInitialKeyframe

Flush == queue' = <<>> /\ first' = "none" /\ waitingForInitialKeyframe' = TRUE

\* StopSession: the state, then Flush under the buffer's mutex, then Reset
\* under the reassembler's, which waits for a frame under way.
StopSession ==
  /\ wire' = "none"
  /\ UNCHANGED <<transportVars, encrypted, crypto, droppedFrames, net, captured, last>>
  /\ \/ /\ stop = "no" /\ calls < MaxCalls
        /\ state \notin {"IDLE", "DISCONNECTED"}
        /\ state' = "DISCONNECTED" /\ stop' = "flush" /\ calls' = calls + 1
        /\ UNCHANGED <<queue, waitingForInitialKeyframe, first, gate>>
     \/ /\ stop = "flush" /\ stop' = "reset"
        /\ Flush
        /\ UNCHANGED <<state, gate, calls>>
     \/ /\ stop = "reset" /\ net.at = "idle" /\ stop' = "no"
        /\ gate' = TRUE
        /\ UNCHANGED <<state, queue, waitingForInitialKeyframe, first, calls>>

-----------------------------------------------------------------------------
(* The network thread *)

\* The reassembler completes a frame, or refuses it and asks for a keyframe.
Receive(kind) ==
  LET f == [n |-> captured + 1, kind |-> kind] IN
  /\ net.at = "idle" /\ captured < MaxFrames
  /\ captured' = captured + 1
  /\ IF gate /\ ~isKeyframe(f)
     THEN Send("REQUEST_IDR") /\ UNCHANGED <<gate, net>>
     ELSE gate' = FALSE /\ net' = [at |-> "push", frame |-> f] /\ wire' = "none"
  /\ UNCHANGED <<transportVars, sessionVars, jitterVars, stop, calls, shownVars>>

\* Mutant: not sorted.
InsertFront(q, f) == <<f>> \o q

\* Insert before the first entry that is not older.
Insert(q, f) ==
  LET older == {i \in DOMAIN q : timestamp(q[i]) < timestamp(f)}
      k     == CHOOSE i \in 0 .. Len(q) : \A j \in DOMAIN q : j <= i <=> j \in older
  IN  SubSeq(q, 1, k) \o <<f>> \o SubSeq(q, k + 1, Len(q))

\* What the while loop of PushFrame drops.
Excess == IF Len(queue) >= maxQueueFrames THEN Len(queue) - maxQueueFrames + 1 ELSE 0

PushFrame ==
  /\ net.at = "push"
  /\ net' = [net EXCEPT !.at = "pop"]
  /\ IF waitingForInitialKeyframe /\ ~isKeyframe(net.frame)
     THEN Send("REQUEST_IDR") /\ UNCHANGED jitterVars
     ELSE /\ waitingForInitialKeyframe' = FALSE
          /\ droppedFrames' = droppedFrames + Excess
          /\ queue' = Insert(SubSeq(queue, Excess + 1, Len(queue)), net.frame)
          /\ wire' = "none"
  /\ UNCHANGED <<transportVars, sessionVars, gate, stop, captured, calls, shownVars>>

\* Mutant: only a full queue is let out.
FillingUpLate == Len(queue) >= maxQueueFrames

FillingUp == Len(queue) >= maxQueueFrames \div 2

\* The front frame leaves when it is old enough, which is the clock's choice, or
\* when the queue is filling up.
PopNextFrame ==
  /\ net.at = "pop"
  /\ \/ /\ queue # <<>>
        /\ net' = [at |-> "show", frame |-> Head(queue)]
        /\ queue' = Tail(queue)
        /\ first' = IF first = "none" THEN Head(queue).kind ELSE first
     \/ /\ queue = <<>> \/ ~FillingUp
        /\ net' = [at |-> "idle", frame |-> NoFrame] /\ UNCHANGED <<queue, first>>
  /\ wire' = "none"
  /\ UNCHANGED <<transportVars, sessionVars, waitingForInitialKeyframe, droppedFrames,
                 gate, stop, captured, calls, last>>

\* frameCallback_, in whatever state the session is.
Show ==
  /\ net.at = "show"
  /\ last' = IF net.frame.kind = "config" THEN last ELSE net.frame.n
  /\ net' = [at |-> "idle", frame |-> NoFrame] /\ wire' = "none"
  /\ UNCHANGED <<transportVars, sessionVars, jitterVars, gate, stop, captured, calls, first>>

Next ==
  \/ \E enc \in BOOLEAN, mode \in Modes : StartSession(enc, mode)
  \/ \E c \in Cryptos : SetCrypto(c)
  \/ PauseSession \/ ResumeSession \/ StopSession
  \/ \E op \in {"SET_ZOOM", "REQUEST_IDR"} : Command(op)
  \/ Transports \/ LinkStep
  \/ \E kind \in Kinds : Receive(kind)
  \/ PushFrame \/ PopNextFrame \/ Show

Spec == Init /\ [][Next]_vars

-----------------------------------------------------------------------------
(* Properties *)

TypeOK ==
  /\ TransportTypeOK
  /\ state \in {"IDLE", "STREAMING", "PAUSED", "DISCONNECTED", "ERROR_STATE"}
  /\ encrypted \in BOOLEAN /\ crypto \in [own : Cryptos, tx : Cryptos, rx : Cryptos]
  /\ queue \in Seq(Frames) /\ waitingForInitialKeyframe \in BOOLEAN
  /\ droppedFrames \in Nat /\ gate \in BOOLEAN
  /\ net \in [at : {"idle", "push", "pop", "show"}, frame : Frames \cup {NoFrame}]
  /\ stop \in {"no", "flush", "reset"} /\ captured \in 0 .. MaxFrames
  /\ calls \in 0 .. MaxCalls /\ first \in Kinds \cup {"none"} /\ last \in 0 .. MaxFrames
  /\ wire \in {"none", "REQUEST_IDR", "SET_ZOOM"}

\* The first frame the buffer lets out, in a new session or after StopSession
\* has flushed it, is a keyframe or a codec configuration and never a delta frame,
\* although frames still come in until the reassembler is reset.
StartsWithKeyframe == first # "delta"

\* The backlog stays below the cap, so the buffer never drops a frame: each frame
\* pushed lets one out as soon as half of the cap is waiting.
BacklogIsShort ==
  /\ droppedFrames = 0
  /\ net.at = "idle" => Len(queue) <= maxQueueFrames \div 2

\* A picture is never shown after one captured later, nor ahead of a codec
\* configuration that came before it.  A configuration bears timestamp 0 and
\* may itself be shown before pictures captured earlier.
ShownInOrder ==
  \A i \in DOMAIN queue : last < queue[i].n

\* A session that streams encrypted never sends or accepts plaintext, whatever
\* crypto contexts it has been given meanwhile.
NeverPlaintext ==
  encrypted /\ state \in {"STREAMING", "PAUSED"} => crypto.tx # "null" /\ crypto.rx # "null"

=============================================================================
