-------------------------- MODULE VeyraSessionProofs --------------------------
(***************************************************************************)
(* Proofs about VeyraSession and its transport manager, for any size of    *)
(* the jitter buffer, any stream and any set of links: packets go out on a *)
(* live link, an encrypted session never works in plaintext, the backlog   *)
(* stays below the cap, and what leaves the buffer starts with a keyframe  *)
(* and is shown in order.                                                  *)
(*                                                                         *)
(* What the invariants need is the shape of the queue: configurations      *)
(* first, then pictures by number, every one captured before the frame the *)
(* network thread is about to push.  In such a queue the sorted insertion  *)
(* has only two outcomes, the front and the end.                           *)
(***************************************************************************)
EXTENDS VeyraSession, TLAPS

-----------------------------------------------------------------------------
(* The transport manager *)

\* The live link after an evaluation is the active one.
Live == settled = TRUE /\ (\E t \in Types : transports[t] \in up) => active \in up

TransportInv == TransportTypeOK /\ Live

\* Every operation of the manager, one of its links changing included.
TransportStep ==
  \/ \E l \in Links : LinkChange(l)
  \/ \E l \in Links : RegisterTransport(l)
  \/ \E m \in Modes : SetPreferredTransportMode(m)
  \/ EvaluateAndHandoff
  \/ \E t \in Types : InitiateHandoff(t)
  \/ UNCHANGED transportVars

\* No operation of AutoTransportManager leaves the types, nor a dead link active
\* after an evaluation.
LEMMA TransportPreserved == TransportInv /\ TransportStep => TransportInv'
<1> SUFFICES ASSUME TransportInv, TransportStep PROVE TransportInv'
  OBVIOUS
<1> USE DEF TransportInv
<1>1. ASSUME NEW l \in Links, LinkChange(l) PROVE TransportInv'
  <2>1. up' \subseteq Links
    BY <1>1 DEF LinkChange, TransportTypeOK
  <2>2. linkChanges' \in 0 .. MaxLinkChanges
    BY <1>1, TransportAssumption DEF LinkChange, TransportTypeOK
  <2>3. settled' = FALSE /\ UNCHANGED <<transports, active, preferredMode>>
    BY <1>1 DEF LinkChange
  <2> QED
    BY <2>1, <2>2, <2>3 DEF TransportTypeOK, Live
<1>2. ASSUME NEW l \in Links, RegisterTransport(l) PROVE TransportInv'
  <2>1. TransportTypeOK'
    BY <1>2 DEF RegisterTransport, TransportTypeOK, Types
  <2>2. Live'
    <3> SUFFICES ASSUME settled = TRUE, NEW t \in Types, transports'[t] \in up
                 PROVE  active' \in up
      BY <1>2 DEF RegisterTransport, Live
    <3>1. CASE TypeOf[l] = t
      <4>1. l \in up
        BY <1>2, <3>1 DEF RegisterTransport, TransportTypeOK
      <4> QED
        BY <1>2, <4>1 DEF RegisterTransport
    <3>2. CASE TypeOf[l] # t
      <4>1. transports[t] \in up
        BY <1>2, <3>2 DEF RegisterTransport, TransportTypeOK
      <4>2. active \in up
        BY <4>1 DEF Live
      <4> QED
        BY <1>2, <4>2 DEF RegisterTransport
    <3> QED
      BY <3>1, <3>2
  <2> QED
    BY <2>1, <2>2
<1>3. ASSUME NEW m \in Modes, SetPreferredTransportMode(m) PROVE TransportInv'
  <2>1. active' = active \/ (m \in Types /\ transports[m] \in up /\ active' = transports[m])
    BY <1>3 DEF SetPreferredTransportMode, Pin, Modes
  <2>2. TransportTypeOK'
    BY <1>3, <2>1 DEF SetPreferredTransportMode, TransportTypeOK, Modes
  <2>3. Live'
    BY <1>3, <2>1 DEF SetPreferredTransportMode, Live
  <2> QED
    BY <2>2, <2>3
<1>4. CASE EvaluateAndHandoff
  <2>1. PICK penalty \in [Types -> Penalties] :
          IF Candidates(penalty) = {} THEN active' = active
          ELSE \E t \in Candidates(penalty) : active' = transports[t]
    BY <1>4 DEF EvaluateAndHandoff
  <2>2. active' = active \/ \E t \in Types : active' = transports[t]
    BY <2>1 DEF Candidates
  <2>3. TransportTypeOK'
    BY <1>4, <2>2 DEF EvaluateAndHandoff, TransportTypeOK
  <2>4. Live'
    <3> SUFFICES ASSUME NEW t \in Types, transports[t] \in up PROVE active' \in up
      BY <1>4 DEF EvaluateAndHandoff, Live
    <3>1. t \in DOMAIN BaseScore /\ penalty[t] \in Penalties
      BY TransportAssumption DEF Types
    <3>2. CalculateRank(t, penalty) < Worst
      BY <3>1, TransportAssumption DEF CalculateRank
    <3>3. t \in Candidates(penalty)
      BY <3>2 DEF Candidates
    <3>4. \E u \in Candidates(penalty) : active' = transports[u]
      BY <2>1, <3>3
    <3> QED
      BY <3>4 DEF Candidates
  <2> QED
    BY <2>3, <2>4
<1>5. ASSUME NEW t \in Types, InitiateHandoff(t) PROVE TransportInv'
  BY <1>5 DEF InitiateHandoff, TransportTypeOK, Live
<1>6. CASE UNCHANGED transportVars
  BY <1>6 DEF transportVars, TransportTypeOK, Live
<1> QED
  BY <1>1, <1>2, <1>3, <1>4, <1>5, <1>6 DEF TransportStep

\* Every step of the session is at most one operation of the manager.
LEMMA SessionStepsTransports == [Next]_vars => TransportStep
<1> SUFFICES ASSUME [Next]_vars PROVE TransportStep
  OBVIOUS
<1>1. ASSUME NEW enc \in BOOLEAN, NEW mode \in Modes, StartSession(enc, mode)
      PROVE TransportStep
  BY <1>1 DEF StartSession, TransportStep
<1>2. CASE Transports
  BY <1>2 DEF Transports, TransportStep
<1>3. CASE LinkStep
  BY <1>3 DEF LinkStep, TransportStep
<1>4. ASSUME NEW c \in Cryptos, SetCrypto(c) PROVE TransportStep
  BY <1>4 DEF SetCrypto, TransportStep
<1>5. CASE PauseSession \/ ResumeSession \/ StopSession
  BY <1>5 DEF PauseSession, ResumeSession, StopSession, TransportStep
<1>6. ASSUME NEW op, Command(op) PROVE TransportStep
  BY <1>6 DEF Command, TransportStep
<1>7. ASSUME NEW kind, Receive(kind) PROVE TransportStep
  BY <1>7 DEF Receive, TransportStep
<1>8. CASE PushFrame \/ PopNextFrame \/ Show
  BY <1>8 DEF PushFrame, PopNextFrame, Show, TransportStep
<1>9. CASE UNCHANGED vars
  BY <1>9 DEF vars, TransportStep
<1> QED
  BY <1>1, <1>2, <1>3, <1>4, <1>5, <1>6, <1>7, <1>8, <1>9 DEF Next

\* The manager's invariant holds throughout.
LEMMA TransportCorrect == Spec => []TransportInv
<1>1. Init => TransportInv
  <2> SUFFICES ASSUME TransportInit PROVE TransportInv
    BY DEF Init
  <2>1. linkChanges \in 0 .. MaxLinkChanges
    BY TransportAssumption DEF TransportInit
  <2>2. transports \in [Types -> Links \cup {NoLink}]
    BY DEF TransportInit
  <2> QED
    BY <2>1, <2>2 DEF TransportInit, TransportInv, TransportTypeOK, Live
<1>2. TransportInv /\ [Next]_vars => TransportInv'
  BY TransportPreserved, SessionStepsTransports
<1> QED
  BY <1>1, <1>2, PTL DEF Spec

\* AutoTransportManager: whatever pinning, hand-off or registration follows an
\* evaluation in AUTO mode, packets go out on a connected link as long as some
\* registered one is connected and no link changes.
THEOREM PacketsReachALiveLink == Spec => []LiveAfterEvaluation
<1>1. TransportInv => LiveAfterEvaluation
  BY TransportAssumption DEF TransportInv, TransportTypeOK, Live, LiveAfterEvaluation, SendsOn
<1> QED
  BY <1>1, TransportCorrect, PTL

-----------------------------------------------------------------------------
(* Types *)

SessionTypes ==
  /\ state \in {"IDLE", "STREAMING", "PAUSED", "DISCONNECTED", "ERROR_STATE"}
  /\ encrypted \in BOOLEAN /\ crypto \in [own : Cryptos, tx : Cryptos, rx : Cryptos]

QueueTypes ==
  /\ queue \in Seq(Frames) /\ waitingForInitialKeyframe \in BOOLEAN
  /\ droppedFrames \in Nat /\ first \in Kinds \cup {"none"}

ThreadTypes ==
  /\ gate \in BOOLEAN
  /\ net \in [at : {"idle", "push", "pop", "show"}, frame : Frames \cup {NoFrame}]
  /\ stop \in {"no", "flush", "reset"} /\ captured \in 0 .. MaxFrames
  /\ calls \in 0 .. MaxCalls /\ last \in 0 .. MaxFrames
  /\ wire \in {"none", "REQUEST_IDR", "SET_ZOOM"}

\* The type invariant in the parts the proofs work with.
LEMMA TypeParts ==
  TypeOK <=> TransportTypeOK /\ SessionTypes /\ QueueTypes /\ ThreadTypes
BY DEF TypeOK, SessionTypes, QueueTypes, ThreadTypes

\* Where the network thread is, the frame it carries is one it received.
Carrying == net.at \in {"push", "show"} => net.frame \in Frames

\* The configurations, then the pictures by number.
Ordered(q) ==
  \A i, j \in DOMAIN q :
    i < j /\ q[i].kind # "config" => q[j].kind # "config" /\ q[i].n < q[j].n

\* Everything in the buffer was captured later than what is shown and before
\* what the network thread is about to push.
Between ==
  /\ last <= captured
  /\ \A i \in DOMAIN queue : last < queue[i].n /\ queue[i].n <= captured
  /\ net.at = "push" => /\ net.frame.n = captured /\ last < captured
                        /\ \A i \in DOMAIN queue : queue[i].n < captured
  /\ net.at = "show" => /\ net.frame.n <= captured
                        /\ net.frame.kind # "config" =>
                             \A i \in DOMAIN queue :
                               queue[i].kind # "config" /\ net.frame.n < queue[i].n

\* Half of the cap, and one more between PushFrame and PopNextFrame.
Backlog ==
  /\ droppedFrames = 0
  /\ Len(queue) <= (maxQueueFrames \div 2) + (IF net.at = "pop" THEN 1 ELSE 0)

\* Until something has been let out, the front is a keyframe.
Startable ==
  /\ waitingForInitialKeyframe = TRUE => queue = <<>>
  /\ first = "none" /\ waitingForInitialKeyframe = FALSE =>
       queue # <<>> /\ queue[1].kind # "delta"
  /\ first # "delta"

StreamInv == Carrying /\ Ordered(queue) /\ Between /\ Backlog /\ Startable

-----------------------------------------------------------------------------
(* The session and its crypto *)

\* StartSession, SetCrypto, PauseSession and ResumeSession never leave a session
\* that streams encrypted without a context in packetizer and reassembler.
LEMMA SessionSafe ==
  SessionTypes /\ NeverPlaintext /\ [Next]_vars => SessionTypes' /\ NeverPlaintext'
<1> SUFFICES ASSUME SessionTypes, NeverPlaintext, [Next]_vars
             PROVE  SessionTypes' /\ NeverPlaintext'
  OBVIOUS
<1> USE DEF SessionTypes, NeverPlaintext
<1>1. ASSUME NEW enc \in BOOLEAN, NEW mode \in Modes, StartSession(enc, mode)
      PROVE  SessionTypes' /\ NeverPlaintext'
  BY <1>1 DEF StartSession, Cryptos
<1>2. ASSUME NEW c \in Cryptos, SetCrypto(c) PROVE SessionTypes' /\ NeverPlaintext'
  BY <1>2 DEF SetCrypto, Cryptos
<1>3. CASE PauseSession
  BY <1>3 DEF PauseSession
<1>4. CASE ResumeSession
  BY <1>4 DEF ResumeSession
<1>5. CASE StopSession
  BY <1>5 DEF StopSession
<1>6. CASE UNCHANGED sessionVars
  BY <1>6 DEF sessionVars
<1>7. ASSUME NEW op, Command(op) PROVE UNCHANGED sessionVars
  BY <1>7 DEF Command
<1>8. ASSUME NEW kind, Receive(kind) PROVE UNCHANGED sessionVars
  BY <1>8 DEF Receive
<1>9. CASE Transports \/ LinkStep \/ PushFrame \/ PopNextFrame \/ Show \/ UNCHANGED vars
  <2>1. UNCHANGED sessionVars
    BY <1>9 DEF Transports, LinkStep, PushFrame, PopNextFrame, Show, vars
  <2> QED
    BY <1>6, <2>1
<1> QED
  BY <1>1, <1>2, <1>3, <1>4, <1>5, <1>6, <1>7, <1>8, <1>9 DEF Next

\* The session's own invariant holds throughout.
LEMMA SessionCorrect == Spec => [](SessionTypes /\ NeverPlaintext)
<1>1. Init => SessionTypes /\ NeverPlaintext
  <2> SUFFICES ASSUME state = "IDLE", encrypted = FALSE,
                      crypto = [own |-> "unkeyed", tx |-> "null", rx |-> "null"]
               PROVE  SessionTypes /\ NeverPlaintext
    BY DEF Init
  <2> QED
    BY DEF SessionTypes, NeverPlaintext, Cryptos
<1> QED
  BY <1>1, SessionSafe, PTL DEF Spec

\* VeyraSession: a session that streams encrypted has a crypto context in its
\* packetizer and in its reassembler, whatever SetCrypto was given meanwhile.
THEOREM SessionNeverPlaintext == Spec => []NeverPlaintext
BY SessionCorrect, PTL

-----------------------------------------------------------------------------
(* Inserting into the queue *)

\* A configuration is no newer than anything: it goes to the front.
LEMMA InsertConfig ==
  ASSUME NEW q \in Seq(Frames), NEW f \in Frames, f.kind = "config"
  PROVE  Insert(q, f) = <<f>> \o q
<1> DEFINE older == {i \in DOMAIN q : timestamp(q[i]) < timestamp(f)}
<1>1. older = {}
  <2>1. \A i \in DOMAIN q : q[i] \in Frames
    OBVIOUS
  <2>2. \A i \in DOMAIN q : timestamp(q[i]) \in Nat
    BY <2>1 DEF timestamp, Frames
  <2>3. timestamp(f) = 0
    BY DEF timestamp
  <2>4. \A i \in DOMAIN q : ~ (timestamp(q[i]) < 0)
    BY <2>2
  <2> QED
    BY <2>3, <2>4
<1>2. 0 \in 0 .. Len(q) /\ \A j \in DOMAIN q : j <= 0 <=> j \in older
  BY <1>1
<1>3. \A k \in 0 .. Len(q) : (\A j \in DOMAIN q : j <= k <=> j \in older) => k = 0
  <2> SUFFICES ASSUME NEW k \in 0 .. Len(q), \A j \in DOMAIN q : ~ (j <= k)
               PROVE  k = 0
    BY <1>1
  <2>1. k # 0 => 1 \in DOMAIN q /\ 1 <= k
    OBVIOUS
  <2> QED
    BY <2>1
<1>4. (CHOOSE k \in 0 .. Len(q) : \A j \in DOMAIN q : j <= k <=> j \in older) = 0
  BY <1>2, <1>3
<1>5. SubSeq(q, 1, 0) = <<>> /\ SubSeq(q, 0 + 1, Len(q)) = q
  OBVIOUS
<1>6. Insert(q, f) = SubSeq(q, 1, 0) \o <<f>> \o SubSeq(q, 0 + 1, Len(q))
  BY <1>4 DEF Insert
<1> QED
  BY <1>5, <1>6

\* A picture newer than the whole queue goes to its end.
LEMMA InsertPicture ==
  ASSUME NEW q \in Seq(Frames), NEW f \in Frames, f.kind # "config",
         \A i \in DOMAIN q : q[i].n < f.n
  PROVE  Insert(q, f) = Append(q, f)
<1> DEFINE older == {i \in DOMAIN q : timestamp(q[i]) < timestamp(f)}
<1>1. \A i \in DOMAIN q : timestamp(q[i]) < timestamp(f)
  BY SessionAssumption DEF timestamp, Frames
<1>2. older = DOMAIN q
  BY <1>1
<1>3. \A j \in DOMAIN q : j <= Len(q) <=> j \in older
  BY <1>2
<1>4. \A k \in 0 .. Len(q) : (\A j \in DOMAIN q : j <= k <=> j \in older) => k = Len(q)
  <2> SUFFICES ASSUME NEW k \in 0 .. Len(q), \A j \in DOMAIN q : j <= k
               PROVE  k = Len(q)
    BY <1>2
  <2> QED
    OBVIOUS
<1>5. (CHOOSE k \in 0 .. Len(q) : \A j \in DOMAIN q : j <= k <=> j \in older) = Len(q)
  <2>1. Len(q) \in 0 .. Len(q)
    OBVIOUS
  <2> QED
    BY <1>3, <1>4, <2>1
<1>6. Insert(q, f) = SubSeq(q, 1, Len(q)) \o <<f>> \o SubSeq(q, Len(q) + 1, Len(q))
  BY <1>5 DEF Insert
<1>7. SubSeq(q, 1, Len(q)) = q /\ SubSeq(q, Len(q) + 1, Len(q)) = <<>>
  OBVIOUS
<1>8. q \o <<f>> = Append(q, f) /\ Append(q, f) \o <<>> = Append(q, f)
  OBVIOUS
<1> QED
  BY <1>6, <1>7, <1>8

-----------------------------------------------------------------------------
(* The way of a frame *)

Half == maxQueueFrames \div 2

\* Half of the cap leaves room for one more frame.
LEMMA HalfBelowCap == Half \in Nat /\ Half < maxQueueFrames
BY SessionAssumption DEF Half

\* Except between PushFrame and PopNextFrame, at most half of the cap waits.
LEMMA ShortBacklog ==
  QueueTypes /\ Backlog /\ net.at # "pop" => Len(queue) <= Half /\ Len(queue) \in Nat
<1> SUFFICES ASSUME queue \in Seq(Frames), net.at # "pop",
                    Len(queue) <= Half + (IF net.at = "pop" THEN 1 ELSE 0)
             PROVE  Len(queue) <= Half /\ Len(queue) \in Nat
  BY DEF QueueTypes, Backlog, Half
<1>1. Len(queue) \in Nat
  OBVIOUS
<1> QED
  BY <1>1, HalfBelowCap

\* What waits is a frame with a number.
LEMMA FrameNumbers ==
  QueueTypes => \A i \in DOMAIN queue : queue[i] \in Frames /\ queue[i].n \in Nat
<1> SUFFICES ASSUME queue \in Seq(Frames), NEW i \in DOMAIN queue
             PROVE  queue[i] \in Frames /\ queue[i].n \in Nat
  BY DEF QueueTypes
<1>1. queue[i] \in Frames
  OBVIOUS
<1> QED
  BY <1>1, SessionAssumption DEF Frames

\* All the types but the manager's, and the shape of queue and thread.
StreamIInv == QueueTypes /\ ThreadTypes /\ StreamInv

\* StopSession, wherever the network thread is: an empty queue has every shape.
LEMMA StopKeepsStream == StreamIInv /\ StopSession => StreamIInv'
<1> SUFFICES ASSUME StreamIInv, StopSession PROVE StreamIInv'
  OBVIOUS
<1> USE DEF StreamIInv, StreamInv
<1>1. UNCHANGED <<droppedFrames, net, captured, last>> /\ wire' = "none"
  BY DEF StopSession
<1>2. CASE stop = "no" /\ calls < MaxCalls /\ calls' = calls + 1 /\ stop' = "flush"
           /\ UNCHANGED <<queue, waitingForInitialKeyframe, first, gate>>
  <2>1. calls' \in 0 .. MaxCalls
    BY <1>2, SessionAssumption DEF ThreadTypes
  <2>2. ThreadTypes'
    BY <1>1, <1>2, <2>1 DEF ThreadTypes
  <2> QED
    BY <1>1, <1>2, <2>2 DEF QueueTypes, Carrying, Ordered, Between, Backlog, Startable
<1>3. CASE Flush /\ stop' = "reset" /\ UNCHANGED <<gate, calls>>
  <2>1. ThreadTypes'
    BY <1>1, <1>3 DEF ThreadTypes
  <2>2. queue' = <<>> /\ first' = "none" /\ waitingForInitialKeyframe' = TRUE
    BY <1>3 DEF Flush
  <2>3. QueueTypes' /\ DOMAIN queue' = {} /\ Len(queue') = 0
    BY <1>1, <2>2 DEF QueueTypes
  <2>4. Ordered(queue')
    BY <2>3 DEF Ordered
  <2>5. Between' /\ Carrying'
    BY <1>1, <2>3 DEF Between, Carrying
  <2>6. Backlog' /\ Startable'
    BY <1>1, <2>2, <2>3, HalfBelowCap DEF Backlog, Startable, Half
  <2> QED
    BY <2>1, <2>3, <2>4, <2>5, <2>6
<1>4. CASE stop' = "no" /\ gate' = TRUE
           /\ UNCHANGED <<queue, waitingForInitialKeyframe, first, calls>>
  <2>1. ThreadTypes'
    BY <1>1, <1>4 DEF ThreadTypes
  <2> QED
    BY <1>1, <1>4, <2>1 DEF QueueTypes, Carrying, Ordered, Between, Backlog, Startable
<1> QED
  BY <1>2, <1>3, <1>4 DEF StopSession

\* The reassembler hands over the newest frame there is.
LEMMA ReceiveKeepsStream ==
  ASSUME StreamIInv, NEW kind \in Kinds, Receive(kind) PROVE StreamIInv'
<1> USE DEF StreamIInv, StreamInv
<1> DEFINE f == [n |-> captured + 1, kind |-> kind]
<1>1. UNCHANGED <<queue, waitingForInitialKeyframe, droppedFrames, stop, calls, first, last>>
  BY DEF Receive, jitterVars, shownVars
<1>2. net.at = "idle" /\ captured' = captured + 1 /\ captured < MaxFrames
      /\ captured \in Nat /\ captured + 1 \in 1 .. MaxFrames
  BY SessionAssumption DEF Receive, ThreadTypes
<1>3. f \in Frames /\ f.n = captured'
  BY <1>2 DEF Frames
<1>4. \/ net' = net /\ gate' = gate /\ wire' \in {"none", "REQUEST_IDR"}
      \/ net' = [at |-> "push", frame |-> f] /\ gate' = FALSE /\ wire' = "none"
  BY DEF Receive, Send
<1>5. ThreadTypes'
  <2>1. captured' \in 0 .. MaxFrames
    BY <1>2
  <2>2. net' \in [at : {"idle", "push", "pop", "show"}, frame : Frames \cup {NoFrame}]
    BY <1>3, <1>4 DEF ThreadTypes
  <2>3. gate' \in BOOLEAN /\ wire' \in {"none", "REQUEST_IDR", "SET_ZOOM"}
    BY <1>4 DEF ThreadTypes
  <2> QED
    BY <1>1, <2>1, <2>2, <2>3 DEF ThreadTypes
<1>6. QueueTypes' /\ Ordered(queue') /\ Startable'
  BY <1>1 DEF QueueTypes, Startable, Ordered
<1>7. Carrying'
  BY <1>2, <1>3, <1>4 DEF Carrying
<1>8. Between'
  <2>1. last \in Nat /\ \A i \in DOMAIN queue : queue[i].n \in Nat
    BY FrameNumbers DEF ThreadTypes
  <2>2. last < captured' /\ \A i \in DOMAIN queue : queue[i].n < captured'
    BY <1>2, <2>1 DEF Between
  <2>3. net'.at \in {"idle", "push"} /\ (net'.at = "push" => net'.frame.n = captured')
    BY <1>2, <1>3, <1>4
  <2>4. last <= captured' /\ \A i \in DOMAIN queue : last < queue[i].n /\ queue[i].n <= captured'
    BY <1>2, <2>1, <2>2 DEF Between
  <2> QED
    BY <1>1, <2>2, <2>3, <2>4 DEF Between
<1>9. Backlog'
  BY <1>1, <1>2, <1>4 DEF Backlog
<1> QED
  BY <1>5, <1>6, <1>7, <1>8, <1>9

\* PushFrame: nothing is dropped, and the frame goes to the front or to the end.
LEMMA PushKeepsStream == StreamIInv /\ PushFrame => StreamIInv'
<1> SUFFICES ASSUME StreamIInv, PushFrame PROVE StreamIInv'
  OBVIOUS
<1> USE DEF StreamIInv, StreamInv
<1> DEFINE f == net.frame
<1>1. UNCHANGED <<gate, stop, captured, calls, first, last>>
  BY DEF PushFrame, shownVars
<1>2. net.at = "push" /\ net'.at = "pop"
  BY DEF PushFrame, ThreadTypes
<1>3. f \in Frames /\ f.n = captured /\ last < f.n
      /\ \A i \in DOMAIN queue : queue[i].n < f.n
  BY <1>2 DEF Carrying, Between
<1>4. ThreadTypes'
  <2>1. wire' \in {"none", "REQUEST_IDR"}
    BY DEF PushFrame, Send
  <2>2. net' \in [at : {"idle", "push", "pop", "show"}, frame : Frames \cup {NoFrame}]
    BY DEF ThreadTypes, PushFrame
  <2> QED
    BY <1>1, <2>1, <2>2 DEF ThreadTypes
<1>5. Carrying'
  BY <1>2 DEF Carrying
<1>6. CASE waitingForInitialKeyframe /\ ~isKeyframe(f)
  <2>1. UNCHANGED <<queue, waitingForInitialKeyframe, droppedFrames>>
    BY <1>6 DEF PushFrame, jitterVars
  <2>2. QueueTypes' /\ Ordered(queue') /\ Startable'
    BY <1>1, <2>1 DEF QueueTypes, Startable, Ordered
  <2>3. Between'
    BY <1>1, <1>2, <2>1 DEF Between
  <2>4. Backlog'
    <3>1. Len(queue) <= Half /\ Len(queue) \in Nat
      BY <1>2, ShortBacklog
    <3> QED
      BY <1>2, <2>1, <3>1, HalfBelowCap DEF Backlog, Half
  <2> QED
    BY <1>4, <1>5, <2>2, <2>3, <2>4
<1>7. CASE ~(waitingForInitialKeyframe /\ ~isKeyframe(f))
  <2>1. Len(queue) <= Half /\ Len(queue) \in Nat
    BY <1>2, ShortBacklog
  <2>2. Excess = 0
    BY <2>1, HalfBelowCap, SessionAssumption DEF Excess
  <2>3. SubSeq(queue, 0 + 1, Len(queue)) = queue
    BY DEF QueueTypes
  <2>4. /\ waitingForInitialKeyframe' = FALSE
        /\ droppedFrames' = 0
        /\ queue' = Insert(queue, f)
    <3>1. /\ waitingForInitialKeyframe' = FALSE
          /\ droppedFrames' = droppedFrames + Excess
          /\ queue' = Insert(SubSeq(queue, Excess + 1, Len(queue)), f)
      BY <1>7, Zenon DEF PushFrame
    <3>2. droppedFrames = 0
      BY DEF Backlog
    <3>3. droppedFrames' = 0
      BY <2>2, <3>1, <3>2
    <3>4. SubSeq(queue, Excess + 1, Len(queue)) = queue
      BY <2>2, <2>3
    <3> QED
      BY <3>1, <3>3, <3>4
  <2>5. queue \in Seq(Frames)
    BY DEF QueueTypes
  <2>6. CASE f.kind = "config"
    <3>1. queue' = <<f>> \o queue
      BY <1>3, <2>4, <2>5, <2>6, InsertConfig
    <3>2. /\ queue' \in Seq(Frames) /\ Len(queue') = Len(queue) + 1
          /\ queue'[1] = f
          /\ \A i \in DOMAIN queue' : i # 1 => i - 1 \in DOMAIN queue /\ queue'[i] = queue[i - 1]
      BY <1>3, <2>5, <3>1
    <3>3. QueueTypes'
      BY <1>1, <2>4, <3>2 DEF QueueTypes
    <3>4. Ordered(queue')
      <4> SUFFICES ASSUME NEW i \in DOMAIN queue', NEW j \in DOMAIN queue', i < j,
                          queue'[i].kind # "config"
                   PROVE  queue'[j].kind # "config" /\ queue'[i].n < queue'[j].n
        BY DEF Ordered
      <4>1. i # 1 /\ j # 1 /\ i - 1 < j - 1
        BY <2>6, <3>2
      <4> QED
        BY <3>2, <4>1 DEF Ordered
    <3>5. Between'
      <4>1. \A i \in DOMAIN queue' : last < queue'[i].n /\ queue'[i].n <= captured
        <5> SUFFICES ASSUME NEW i \in DOMAIN queue'
                     PROVE  last < queue'[i].n /\ queue'[i].n <= captured
          OBVIOUS
        <5>1. CASE i = 1
          BY <1>3, <3>2, <5>1 DEF ThreadTypes
        <5>2. CASE i # 1
          BY <3>2, <5>2 DEF Between
        <5> QED
          BY <5>1, <5>2
      <4> QED
        BY <1>1, <1>2, <4>1 DEF Between
    <3>6. Startable'
      BY <1>1, <2>4, <2>6, <3>2 DEF Startable
    <3>7. Backlog'
      BY <1>2, <2>1, <2>4, <3>2, HalfBelowCap DEF Backlog, Half
    <3> QED
      BY <1>4, <1>5, <3>3, <3>4, <3>5, <3>6, <3>7
  <2>7. CASE f.kind # "config"
    <3>1. queue' = Append(queue, f)
      BY <1>3, <2>4, <2>5, <2>7, InsertPicture
    <3>2. /\ queue' \in Seq(Frames) /\ Len(queue') = Len(queue) + 1
          /\ queue'[Len(queue) + 1] = f
          /\ \A i \in DOMAIN queue' :
               i # Len(queue) + 1 => i \in DOMAIN queue /\ queue'[i] = queue[i]
      BY <1>3, <2>5, <3>1
    <3>3. QueueTypes'
      BY <1>1, <2>4, <3>2 DEF QueueTypes
    <3>4. Ordered(queue')
      <4> SUFFICES ASSUME NEW i \in DOMAIN queue', NEW j \in DOMAIN queue', i < j,
                          queue'[i].kind # "config"
                   PROVE  queue'[j].kind # "config" /\ queue'[i].n < queue'[j].n
        BY DEF Ordered
      <4>1. i # Len(queue) + 1
        BY <3>2
      <4>2. CASE j = Len(queue) + 1
        BY <1>3, <2>7, <3>2, <4>1, <4>2
      <4>3. CASE j # Len(queue) + 1
        BY <3>2, <4>1, <4>3 DEF Ordered
      <4> QED
        BY <4>2, <4>3
    <3>5. Between'
      <4>1. \A i \in DOMAIN queue' : last < queue'[i].n /\ queue'[i].n <= captured
        <5> SUFFICES ASSUME NEW i \in DOMAIN queue'
                     PROVE  last < queue'[i].n /\ queue'[i].n <= captured
          OBVIOUS
        <5>1. CASE i = Len(queue) + 1
          BY <1>3, <3>2, <5>1 DEF ThreadTypes
        <5>2. CASE i # Len(queue) + 1
          BY <3>2, <5>2 DEF Between
        <5> QED
          BY <5>1, <5>2
      <4> QED
        BY <1>1, <1>2, <4>1 DEF Between
    <3>6. Startable'
      <4>1. queue' # <<>>
        BY <2>1, <3>2
      <4>2. first = "none" => queue'[1].kind # "delta"
        <5>1. CASE queue = <<>>
          <6>1. first = "none" => waitingForInitialKeyframe
            BY <5>1 DEF Startable, QueueTypes
          <6>2. first = "none" => f.kind # "delta"
            BY <1>7, <6>1 DEF isKeyframe
          <6> QED
            BY <3>2, <5>1, <6>2
        <5>2. CASE queue # <<>>
          <6>1. 1 \in DOMAIN queue' /\ 1 # Len(queue) + 1
            BY <2>1, <2>5, <3>2, <5>2
          <6> QED
            BY <3>2, <5>2, <6>1 DEF Startable, QueueTypes
        <5> QED
          BY <5>1, <5>2
      <4> QED
        BY <1>1, <2>4, <4>1, <4>2 DEF Startable
    <3>7. Backlog'
      BY <1>2, <2>1, <2>4, <3>2, HalfBelowCap DEF Backlog, Half
    <3> QED
      BY <1>4, <1>5, <3>3, <3>4, <3>5, <3>6, <3>7
  <2> QED
    BY <2>6, <2>7
<1> QED
  BY <1>6, <1>7

\* PopNextFrame: the front is a keyframe if it is the first to leave, and older
\* than every picture behind it.
LEMMA PopKeepsStream == StreamIInv /\ PopNextFrame => StreamIInv'
<1> SUFFICES ASSUME StreamIInv, PopNextFrame PROVE StreamIInv'
  OBVIOUS
<1> USE DEF StreamIInv, StreamInv
<1>1. /\ UNCHANGED <<waitingForInitialKeyframe, droppedFrames, gate, stop, captured, calls, last>>
      /\ wire' = "none" /\ net.at = "pop"
  BY DEF PopNextFrame
<1>2. queue \in Seq(Frames) /\ Len(queue) \in Nat
  BY DEF QueueTypes
<1>3. CASE /\ queue # <<>>
           /\ net' = [at |-> "show", frame |-> Head(queue)]
           /\ queue' = Tail(queue)
           /\ first' = IF first = "none" THEN Head(queue).kind ELSE first
  <2>1. /\ queue' \in Seq(Frames) /\ Len(queue') = Len(queue) - 1
        /\ Head(queue) = queue[1] /\ queue[1] \in Frames /\ 1 \in DOMAIN queue
        /\ \A i \in DOMAIN queue' : i + 1 \in DOMAIN queue /\ queue'[i] = queue[i + 1]
                                   /\ i + 1 > 1
    BY <1>2, <1>3
  <2>2. net'.at = "show" /\ net'.frame = queue[1]
    BY <1>3, <2>1
  <2>3. ThreadTypes'
    <3>1. net' \in [at : {"idle", "push", "pop", "show"}, frame : Frames \cup {NoFrame}]
      BY <1>3, <2>1
    <3> QED
      BY <1>1, <3>1 DEF ThreadTypes
  <2>4. QueueTypes'
    <3>1. first' \in Kinds \cup {"none"}
      BY <1>3, <2>1 DEF QueueTypes, Frames
    <3> QED
      BY <1>1, <2>1, <3>1 DEF QueueTypes
  <2>5. Carrying'
    BY <2>1, <2>2 DEF Carrying
  <2>6. Ordered(queue')
    <3> SUFFICES ASSUME NEW i \in DOMAIN queue', NEW j \in DOMAIN queue', i < j,
                        queue'[i].kind # "config"
                 PROVE  queue'[j].kind # "config" /\ queue'[i].n < queue'[j].n
      BY DEF Ordered
    <3>1. i + 1 < j + 1
      BY <2>1
    <3> QED
      BY <2>1, <3>1 DEF Ordered
  <2>7. Between'
    <3>1. \A i \in DOMAIN queue' : last < queue'[i].n /\ queue'[i].n <= captured
      BY <2>1 DEF Between
    <3>2. ASSUME queue[1].kind # "config", NEW i \in DOMAIN queue'
          PROVE  queue'[i].kind # "config" /\ queue[1].n < queue'[i].n
      BY <2>1, <3>2 DEF Ordered
    <3>3. queue[1].n <= captured
      BY <2>1 DEF Between
    <3> QED
      BY <1>1, <2>2, <3>1, <3>2, <3>3 DEF Between
  <2>8. Backlog'
    <3>1. Len(queue) <= Half + 1
      BY <1>1 DEF Backlog, Half
    <3>2. Len(queue') <= Half
      BY <1>2, <2>1, <3>1, HalfBelowCap
    <3> QED
      BY <1>1, <2>2, <3>2, HalfBelowCap DEF Backlog, Half
  <2>9. Startable'
    <3>1. waitingForInitialKeyframe = FALSE
      BY <1>3 DEF Startable, QueueTypes
    <3>2. queue[1].kind \in Kinds
      BY <2>1 DEF Frames
    <3>3. first' # "none" /\ first' # "delta"
      BY <1>3, <2>1, <3>1, <3>2 DEF Startable, Kinds
    <3> QED
      BY <1>1, <3>1, <3>3 DEF Startable
  <2> QED
    BY <2>3, <2>4, <2>5, <2>6, <2>7, <2>8, <2>9
<1>4. CASE /\ queue = <<>> \/ ~FillingUp
           /\ net' = [at |-> "idle", frame |-> NoFrame] /\ UNCHANGED <<queue, first>>
  <2>1. net'.at = "idle"
    BY <1>4
  <2>2. ThreadTypes'
    <3>1. net' \in [at : {"idle", "push", "pop", "show"}, frame : Frames \cup {NoFrame}]
      BY <1>4
    <3> QED
      BY <1>1, <3>1 DEF ThreadTypes
  <2>3. QueueTypes' /\ Ordered(queue') /\ Startable'
    BY <1>1, <1>4 DEF QueueTypes, Startable, Ordered
  <2>4. Carrying' /\ Between'
    BY <1>1, <1>4, <2>1 DEF Carrying, Between
  <2>5. Backlog'
    <3>1. queue = <<>> => Len(queue) = 0
      OBVIOUS
    <3>2. Len(queue) <= Half
      BY <1>2, <1>4, <3>1, HalfBelowCap DEF FillingUp, Half
    <3> QED
      BY <1>1, <1>4, <2>1, <3>2, HalfBelowCap DEF Backlog, Half
  <2> QED
    BY <2>2, <2>3, <2>4, <2>5
<1> QED
  BY <1>3, <1>4 DEF PopNextFrame

\* The frame callback.
LEMMA ShowKeepsStream == StreamIInv /\ Show => StreamIInv'
<1> SUFFICES ASSUME StreamIInv, Show PROVE StreamIInv'
  OBVIOUS
<1> USE DEF StreamIInv, StreamInv
<1>1. /\ UNCHANGED <<queue, waitingForInitialKeyframe, droppedFrames, gate, stop, captured, calls, first>>
      /\ wire' = "none" /\ net.at = "show" /\ net' = [at |-> "idle", frame |-> NoFrame]
      /\ last' = IF net.frame.kind = "config" THEN last ELSE net.frame.n
  BY DEF Show, jitterVars
<1>2. net'.at = "idle" /\ net.frame \in Frames
  BY <1>1 DEF Carrying
<1>3. ThreadTypes'
  <2>1. net' \in [at : {"idle", "push", "pop", "show"}, frame : Frames \cup {NoFrame}]
    BY <1>1
  <2>2. last' \in 0 .. MaxFrames
    BY <1>1, <1>2, SessionAssumption DEF ThreadTypes, Frames
  <2> QED
    BY <1>1, <2>1, <2>2 DEF ThreadTypes
<1>4. QueueTypes' /\ Ordered(queue') /\ Startable'
  BY <1>1 DEF QueueTypes, Startable, Ordered
<1>5. Carrying'
  BY <1>2 DEF Carrying
<1>6. Between'
  <2>1. last' <= captured /\ \A i \in DOMAIN queue : last' < queue[i].n /\ queue[i].n <= captured
    BY <1>1 DEF Between
  <2> QED
    BY <1>1, <1>2, <2>1 DEF Between
<1>7. Backlog'
  <2>1. Len(queue) <= Half
    BY <1>1, ShortBacklog
  <2> QED
    BY <1>1, <1>2, <2>1, HalfBelowCap DEF Backlog, Half
<1> QED
  BY <1>3, <1>4, <1>5, <1>6, <1>7

\* Everything else leaves the way of a frame alone.
LEMMA QuietKeepsStream ==
  /\ StreamIInv
  /\ UNCHANGED <<jitterVars, gate, net, stop, captured, shownVars>>
  /\ calls' \in 0 .. MaxCalls /\ wire' \in {"none", "REQUEST_IDR", "SET_ZOOM"}
  => StreamIInv'
<1> SUFFICES ASSUME StreamIInv,
                    UNCHANGED <<jitterVars, gate, net, stop, captured, shownVars>>,
                    calls' \in 0 .. MaxCalls, wire' \in {"none", "REQUEST_IDR", "SET_ZOOM"}
             PROVE  StreamIInv'
  OBVIOUS
<1>1. UNCHANGED <<queue, waitingForInitialKeyframe, droppedFrames, gate, net, stop, captured,
                  first, last>>
  BY DEF jitterVars, shownVars
<1>2. QueueTypes' /\ ThreadTypes'
  BY <1>1 DEF StreamIInv, QueueTypes, ThreadTypes
<1>3. StreamInv'
  BY <1>1 DEF StreamIInv, StreamInv, Carrying, Ordered, Between, Backlog, Startable
<1> QED
  BY <1>2, <1>3 DEF StreamIInv

\* No step of the two threads disturbs the order, the backlog or the start.
LEMMA StreamPreserved == StreamIInv /\ [Next]_vars => StreamIInv'
<1> SUFFICES ASSUME StreamIInv, [Next]_vars PROVE StreamIInv'
  OBVIOUS
<1>1. CASE Call /\ wire' \in {"none", "REQUEST_IDR", "SET_ZOOM"}
  <2>1. calls' \in 0 .. MaxCalls
    BY <1>1, SessionAssumption DEF Call, StreamIInv, ThreadTypes
  <2>2. UNCHANGED <<jitterVars, gate, net, stop, captured, shownVars>>
    BY <1>1 DEF Call
  <2> QED
    BY <1>1, <2>1, <2>2, QuietKeepsStream
<1>2. ASSUME NEW enc \in BOOLEAN, NEW mode \in Modes, StartSession(enc, mode) PROVE StreamIInv'
  <2>1. Call /\ wire' = "none"
    BY <1>2, Zenon DEF StartSession
  <2> QED
    BY <1>1, <2>1
<1>3. ASSUME NEW c \in Cryptos, SetCrypto(c) PROVE StreamIInv'
  <2>1. Call /\ wire' = "none"
    BY <1>3, Zenon DEF SetCrypto
  <2> QED
    BY <1>1, <2>1
<1>4. CASE PauseSession \/ ResumeSession \/ Transports
  <2>1. Call /\ wire' \in {"none", "REQUEST_IDR"}
    BY <1>4 DEF PauseSession, ResumeSession, Transports, Send
  <2> QED
    BY <1>1, <2>1
<1>5. ASSUME NEW op \in {"SET_ZOOM", "REQUEST_IDR"}, Command(op) PROVE StreamIInv'
  <2>1. Call /\ wire' \in {"none", "REQUEST_IDR", "SET_ZOOM"}
    BY <1>5 DEF Command, Send
  <2> QED
    BY <1>1, <2>1
<1>6. CASE LinkStep
  <2>1. wire' = "none" /\ calls' \in 0 .. MaxCalls
        /\ UNCHANGED <<jitterVars, gate, net, stop, captured, shownVars>>
    BY <1>6 DEF LinkStep, StreamIInv, ThreadTypes
  <2> QED
    BY <2>1, QuietKeepsStream
<1>7. CASE UNCHANGED vars
  <2>1. calls' \in 0 .. MaxCalls /\ wire' \in {"none", "REQUEST_IDR", "SET_ZOOM"}
        /\ UNCHANGED <<jitterVars, gate, net, stop, captured, shownVars>>
    BY <1>7 DEF vars, StreamIInv, ThreadTypes
  <2> QED
    BY <2>1, QuietKeepsStream
<1> QED
  BY <1>2, <1>3, <1>4, <1>5, <1>6, <1>7, StopKeepsStream, ReceiveKeepsStream,
     PushKeepsStream, PopKeepsStream, ShowKeepsStream DEF Next

\* The invariant of the buffer and the network thread holds throughout.
LEMMA StreamCorrect == Spec => []StreamIInv
<1>1. Init => StreamIInv
  <2> SUFFICES ASSUME Init PROVE StreamIInv
    OBVIOUS
  <2>1. queue = <<>> /\ DOMAIN queue = {} /\ Len(queue) = 0 /\ queue \in Seq(Frames)
    BY DEF Init
  <2>2. net.at = "idle" /\ net \in [at : {"idle", "push", "pop", "show"},
                                    frame : Frames \cup {NoFrame}]
    BY DEF Init
  <2>3. ThreadTypes
    BY <2>2, SessionAssumption DEF Init, ThreadTypes
  <2>4. QueueTypes /\ Ordered(queue)
    BY <2>1 DEF Init, QueueTypes, Ordered
  <2>5. Between /\ Carrying
    BY <2>1, <2>2 DEF Init, Between, Carrying
  <2>6. Backlog /\ Startable
    BY <2>1, <2>2, HalfBelowCap DEF Init, Backlog, Startable, Half
  <2> QED
    BY <2>3, <2>4, <2>5, <2>6 DEF StreamIInv, StreamInv
<1> QED
  BY <1>1, StreamPreserved, PTL DEF Spec

\* All variables of session, buffer, threads and manager keep their types.
THEOREM SessionTypeCorrect == Spec => []TypeOK
<1>1. TransportInv /\ SessionTypes /\ StreamIInv => TypeOK
  BY TypeParts DEF TransportInv, StreamIInv
<1> QED
  BY <1>1, TransportCorrect, SessionCorrect, StreamCorrect, PTL

\* AdaptiveJitterBuffer: the first frame it lets out, of a new session or after
\* StopSession flushed it, is a keyframe, however StopSession and the frames
\* still under way interleave.
THEOREM FirstFrameIsKeyframe == Spec => []StartsWithKeyframe
<1>1. StreamIInv => StartsWithKeyframe
  BY DEF StreamIInv, StreamInv, Startable, StartsWithKeyframe
<1> QED
  BY <1>1, StreamCorrect, PTL

\* AdaptiveJitterBuffer: for every cap, PushFrame never drops a frame and at most
\* half of the cap waits between two frames.
THEOREM BufferNeverDrops == Spec => []BacklogIsShort
<1>1. StreamIInv => BacklogIsShort
  <2> SUFFICES ASSUME StreamIInv PROVE BacklogIsShort
    OBVIOUS
  <2>1. net.at = "idle" => Len(queue) <= Half
    BY ShortBacklog DEF StreamIInv, StreamInv
  <2> QED
    BY <2>1 DEF StreamIInv, StreamInv, Backlog, BacklogIsShort, Half
<1> QED
  BY <1>1, StreamCorrect, PTL

\* AdaptiveJitterBuffer: nothing that still waits is older than what was shown.
THEOREM FramesShownInOrder == Spec => []ShownInOrder
<1>1. StreamIInv => ShownInOrder
  BY DEF StreamIInv, StreamInv, Between, ShownInOrder
<1> QED
  BY <1>1, StreamCorrect, PTL

=============================================================================
