--------------------------- MODULE MediaPathProofs ---------------------------
(***************************************************************************)
(* Proofs about the media path, for every window width, every cap on the   *)
(* pending frames and every bound of the model.                            *)
(***************************************************************************)
EXTENDS MediaPath, ReplayFilterProofs, FiniteSetTheorems

-----------------------------------------------------------------------------
(* Types *)

\* A data race on the filter (SetCrypto or Reset against Accept) still leaves
\* one flag, one number and one word.
LEMMA RacedType ==
  ASSUME NEW f \in Filters, NEW s \in Nat
  PROVE  RacedFilters(f, s) \subseteq Filters
<1> DEFINE written == {Mark(FreshFilter, s)} \cup
                        (IF Accepts(f, s) THEN {Mark(f, s)} ELSE {})
           ends    == {FreshFilter} \cup written
<1>1. Accepts(FreshFilter, s)
  BY DEF Accepts, FreshFilter
<1>2. ends \subseteq Filters
  BY <1>1, MarkType, FreshType
<1>3. \A g \in ends : g.highest \in Nat /\ g.bitmap \in SUBSET Bits
  BY <1>2 DEF Filters
<1>. HIDE DEF ends
<1>4. [seenAny : {TRUE}, highest : {g.highest : g \in ends},
       bitmap : {g.bitmap : g \in ends}] \subseteq Filters
  BY <1>3 DEF Filters
<1>. QED BY <1>4, FreshType DEF RacedFilters, ends

\* The frame a packet belongs to is a partly received frame.
LEMMA PendingForType ==
  ASSUME TypeOK, NEW p \in Packets
  PROVE  IsPartialFrame(PendingFor(p))
<1>1. CASE p.frameId \in DOMAIN pendingFrames
  BY <1>1 DEF TypeOK, PendingFor
<1>2. CASE p.frameId \notin DOMAIN pendingFrames
  BY <1>2 DEF PendingFor, IsPartialFrame, NoFragments, Packets
<1>. QED BY <1>1, <1>2

\* Storing a fragment keeps it one.
LEMMA WithFragmentType ==
  ASSUME NEW f, IsPartialFrame(f), NEW p \in Packets
  PROVE  IsPartialFrame(WithFragment(f, p))
<1>1. CASE p.index \in DOMAIN f.fragments
  BY <1>1 DEF WithFragment
<1>2. CASE p.index \notin DOMAIN f.fragments
  <2> DEFINE frs == [i \in DOMAIN f.fragments \cup {p.index} |->
                       IF i \in DOMAIN f.fragments THEN f.fragments[i] ELSE Source(p)]
  <2>1. WithFragment(f, p) =
          [isKeyframe |-> f.isKeyframe, total |-> f.total,
           received |-> f.received + 1, fragments |-> frs]
    BY <1>2 DEF WithFragment, IsPartialFrame
  <2>2. DOMAIN frs \subseteq Nat
    BY DEF IsPartialFrame, Packets
  <2>3. frs = [i \in DOMAIN frs |-> frs[i]]
    OBVIOUS
  <2>. HIDE DEF frs
  <2>. QED BY <2>1, <2>2, <2>3 DEF IsPartialFrame
<1>. QED BY <1>1, <1>2

\* The state of the UDP worker that holds the lock.
LEMMA LockedType ==
  ASSUME TypeOK, Locked
  PROVE  /\ pump.packet \in net
         /\ pump.packet \in Packets
         /\ pump' = IdlePump
BY DEF TypeOK, Locked

\* Every step keeps the types.
LEMMA TypeStep == TypeOK /\ [Next]_vars => TypeOK'
<1> SUFFICES ASSUME TypeOK, [Next]_vars
             PROVE  TypeOK'
  OBVIOUS
<1> USE DEF senderVars, filterVars, frameVars
<1>1. ASSUME NEW isKeyframe \in BOOLEAN, NEW n \in FragCounts, SendVideo(isKeyframe, n)
      PROVE  TypeOK'
  <2>1. n \in Nat
    BY BoundsAssumption
  <2>2. sender' \in Senders
    <3>1. /\ sender \in Senders
          /\ sender' = [sender EXCEPT !.frameCounter   = @ + 1,
                                      !.packetSequence = @ + n]
      BY <1>1 DEF SendVideo, TypeOK
    <3>2. sender.frameCounter + 1 \in Nat /\ sender.packetSequence + n \in Nat
      BY <2>1, <3>1 DEF Senders
    <3>3. [sender EXCEPT !.frameCounter = sender.frameCounter + 1] \in Senders
      BY <3>1, <3>2 DEF Senders
    <3>. QED BY <3>1, <3>2, <3>3 DEF Senders
  <2>3. net \subseteq net' /\ net' \subseteq Packets
    <3>1. sender \in Senders /\ net \subseteq Packets
      BY DEF TypeOK
    <3>. QED BY <1>1, <2>1, <3>1 DEF SendVideo, Transmit, Senders, Packets, Streams
  <2>4. idrWanted' \in BOOLEAN
    BY <1>1 DEF SendVideo
  <2>. QED BY <1>1, <2>2, <2>3, <2>4 DEF SendVideo, TypeOK
<1>2. CASE SendAudio
  <2>2. sender' \in Senders
    <3>1. /\ sender \in Senders
          /\ sender' = [sender EXCEPT !.audioCounter   = @ + 1,
                                      !.packetSequence = @ + 1]
      BY <1>2 DEF SendAudio, TypeOK
    <3>2. sender.audioCounter + 1 \in Nat /\ sender.packetSequence + 1 \in Nat
      BY <3>1 DEF Senders
    <3>3. [sender EXCEPT !.audioCounter = sender.audioCounter + 1] \in Senders
      BY <3>1, <3>2 DEF Senders
    <3>. QED BY <3>1, <3>2, <3>3 DEF Senders
  <2>3. net \subseteq net' /\ net' \subseteq Packets
    <3>1. sender \in Senders /\ net \subseteq Packets
      BY DEF TypeOK
    <3> DEFINE q == [stream     |-> "audio",
                     session    |-> sender.session,
                     frameId    |-> sender.audioCounter + 1,
                     sequence   |-> sender.packetSequence,
                     index      |-> 0,
                     count      |-> 1,
                     isKeyframe |-> FALSE,
                     key        |-> sender.key]
    <3>2. q \in Packets
      BY <3>1 DEF Senders, Packets, Streams
    <3>3. net' = net \/ net' = net \cup {q}
      BY <1>2 DEF SendAudio, Transmit
    <3>. QED BY <3>1, <3>2, <3>3
  <2>. QED BY <1>2, <2>2, <2>3 DEF SendAudio, TypeOK
<1>3. CASE ArmSender
  <2>1. sender' \in Senders
    BY <1>3 DEF ArmSender, TypeOK, Senders
  <2>. QED BY <1>3, <2>1 DEF ArmSender, TypeOK
<1>4. CASE RestartSender
  <2>1. sender' \in Senders
    <3>1. sender \in Senders /\ crypto \in Nat
      BY DEF TypeOK
    <3>2. sender' = NewSession(sender.session + 1, crypto)
      BY <1>4 DEF RestartSender
    <3>. QED BY <3>1, <3>2 DEF NewSession, Senders
  <2>. QED BY <1>4, <2>1 DEF RestartSender, TypeOK
<1>5. ASSUME NEW p \in net, Examine(p)
      PROVE  TypeOK'
  BY <1>5 DEF Examine, TypeOK
<1>18. CASE Decrypt
  <2>1. /\ pump' = [pc |-> pump'.pc, packet |-> pump'.packet, key |-> pump'.key]
        /\ pump'.pc \in {"idle", "decrypting", "accepting", "locking"} /\ pump'.key \in Nat
        /\ pump'.pc # "idle" => pump'.packet \in net
    BY <1>18 DEF Decrypt, TypeOK, IdlePump
  <2>. QED BY <1>18, <2>1 DEF Decrypt, TypeOK, IsPartialFrame
<1>6. CASE Commit
  <2>1. filter' \in Filters /\ committed' \subseteq Nat
    BY <1>6, MarkType DEF Commit, TypeOK, Packets
  <2>2. /\ pump' = [pc |-> pump'.pc, packet |-> pump'.packet, key |-> pump'.key]
        /\ pump'.pc \in {"idle", "decrypting", "accepting", "locking"} /\ pump'.key \in Nat
        /\ pump'.pc # "idle" => pump'.packet \in net
    BY <1>6 DEF Commit, TypeOK, IdlePump
  <2>. QED BY <1>6, <2>1, <2>2 DEF Commit, TypeOK
<1>7. CASE DropOtherSession
  BY <1>7, LockedType DEF DropOtherSession, TypeOK, IdlePump
<1>8. CASE DropUntilKeyframe
  <2>1. idrWanted' \in BOOLEAN
    BY <1>8, Zenon DEF DropUntilKeyframe, TypeOK
  <2>. QED BY <1>8, <2>1, LockedType DEF DropUntilKeyframe, Adopt, TypeOK, IdlePump, Packets
<1>9. CASE DropOlder
  BY <1>9, LockedType DEF DropOlder, Adopt, TypeOK, IdlePump, Packets
<1>10. CASE StoreFragment
  <2> DEFINE p == pump.packet
             f == WithFragment(PendingFor(p), p)
  <2>1. Locked /\ p \in net /\ p \in Packets
    BY <1>10, LockedType DEF StoreFragment
  <2>2. IsPartialFrame(f)
    BY <2>1, PendingForType, WithFragmentType
  <2>3. session' \in [locked : BOOLEAN, id : Nat]
    BY <1>10, <2>1 DEF StoreFragment, Adopt, TypeOK, Packets
  <2>4. /\ DOMAIN Stored(p.frameId, f) \subseteq Nat
        /\ \A g \in DOMAIN Stored(p.frameId, f) : IsPartialFrame(Stored(p.frameId, f)[g])
    <3>. HIDE DEF f
    <3>. QED BY <2>1, <2>2 DEF Stored, TypeOK, Packets
  <2>5. pendingFrames' = Trimmed(Stored(p.frameId, f))
    BY <1>10 DEF StoreFragment
  <2>6. /\ DOMAIN pendingFrames' \subseteq Nat
        /\ \A g \in DOMAIN pendingFrames' : IsPartialFrame(pendingFrames'[g])
    <3> DEFINE S == Stored(p.frameId, f)
    <3>. HIDE DEF S, f
    <3>. QED BY <2>4, <2>5 DEF Trimmed, S
  <2>. QED BY <1>10, <2>1, <2>3, <2>6, LockedType DEF StoreFragment, TypeOK, IdlePump, IsPartialFrame
<1>11. CASE EmitFrame
  <2> DEFINE p == pump.packet
  <2>1. Locked /\ p \in net /\ p \in Packets
    BY <1>11, LockedType DEF EmitFrame
  <2>2. session' \in [locked : BOOLEAN, id : Nat]
    BY <1>11, <2>1 DEF EmitFrame, Adopt, TypeOK, Packets
  <2>3. pendingFrames' = NewerThan(p.frameId) /\ lastEmittedFrameId' \in Nat
    BY <1>11, <2>1 DEF EmitFrame, Packets
  <2>4. /\ DOMAIN pendingFrames' \subseteq Nat
        /\ \A g \in DOMAIN pendingFrames' : IsPartialFrame(pendingFrames'[g])
    BY <2>3 DEF NewerThan, TypeOK
  <2>5. /\ UNCHANGED <<sender, net, idrWanted, filterVars, pinning>>
        /\ waitingForKeyframe' \in BOOLEAN
        /\ pump' = IdlePump
    BY <1>11, <2>1, LockedType DEF EmitFrame
  <2>. QED BY <2>2, <2>3, <2>4, <2>5 DEF TypeOK, IdlePump, IsPartialFrame
<1>12. ASSUME ClearFilter
       PROVE  /\ filter' \in Filters
              /\ committed' \subseteq Nat
              /\ clears' \in Nat
              /\ pump' = [pc |-> pump'.pc, packet |-> pump'.packet, key |-> pump'.key]
              /\ pump'.pc \in {"idle", "decrypting", "accepting", "locking"} /\ pump'.key \in Nat
              /\ pump'.pc # "idle" => pump'.packet \in net
  <2>1. filter' \in Filters
    <3>1. CASE filter' = FreshFilter
      BY <3>1, FreshType
    <3>2. CASE /\ pump.pc = "accepting"
               /\ filter' \in RacedFilters(filter, pump.packet.sequence)
      BY <3>2, RacedType DEF TypeOK, Packets
    <3>. QED BY <1>12, <3>1, <3>2 DEF ClearFilter
  <2>2. /\ pump' = [pc |-> pump'.pc, packet |-> pump'.packet, key |-> pump'.key]
        /\ pump'.pc \in {"idle", "decrypting", "accepting", "locking"} /\ pump'.key \in Nat
        /\ pump'.pc # "idle" => pump'.packet \in net
    BY <1>12 DEF ClearFilter, TypeOK, IdlePump
  <2>. QED BY <1>12, <2>1, <2>2 DEF ClearFilter, TypeOK
<1>13. ASSUME NEW key \in Nat, NEW id \in 0 .. sender.session, SetCrypto(key, id)
       PROVE  TypeOK'
  <2>1. /\ crypto' \in Nat
        /\ ClearFilter
        /\ pinning' \in Nat
        /\ UNCHANGED <<sender, net, idrWanted, frameVars>>
    BY <1>13 DEF SetCrypto, TypeOK, Senders
  <2>2. session' \in [locked : BOOLEAN, id : Nat]
    BY <1>13 DEF SetCrypto, TypeOK
  <2>. QED BY <1>12, <2>1, <2>2 DEF TypeOK, IsPartialFrame
<1>14. CASE SetExpectedSessionId
  BY <1>14 DEF SetExpectedSessionId, TypeOK
<1>15. CASE Reset
  BY <1>12, <1>15 DEF Reset, TypeOK, NoPending
<1>16. CASE UNCHANGED vars
  BY <1>16 DEF vars, TypeOK, IsPartialFrame
<1>17. \A key \in {crypto, crypto + 1} \cap (1 .. MaxKey) : key \in Nat
  BY DEF TypeOK
<1>. QED BY <1>1, <1>2, <1>3, <1>4, <1>5, <1>6, <1>7, <1>8, <1>9, <1>10, <1>11,
            <1>13, <1>14, <1>15, <1>16, <1>17, <1>18 DEF Next

-----------------------------------------------------------------------------
(* What the steps leave alone *)

\* Only the phone's senders add packets, none is ever taken back, and each
\* session numbers its video frames upwards.
LEMMA NetStep == TypeOK /\ NetInv /\ [Next]_vars => NetInv' /\ net \subseteq net'
<1> SUFFICES ASSUME TypeOK, NetInv, [Next]_vars
             PROVE  NetInv' /\ net \subseteq net'
  OBVIOUS
<1> USE DEF senderVars, filterVars, frameVars
<1>1. ASSUME NEW isKeyframe \in BOOLEAN, NEW n \in FragCounts, SendVideo(isKeyframe, n)
      PROVE  NetInv' /\ net \subseteq net'
  <2> DEFINE P(i) == [stream     |-> "video",
                      session    |-> sender.session,
                      frameId    |-> sender.frameCounter + 1,
                      sequence   |-> sender.packetSequence + i,
                      index      |-> i,
                      count      |-> n,
                      isKeyframe |-> isKeyframe,
                      key        |-> sender.key]
             new == {P(i) : i \in 0 .. (n - 1)}
  <2>1. /\ n \in Nat
        /\ sender \in Senders
        /\ net \subseteq Packets
    BY BoundsAssumption DEF TypeOK
  <2>2. net' \subseteq net \cup new /\ net \subseteq net'
    BY <1>1 DEF SendVideo, Transmit
  <2>3. /\ sender'.session = sender.session
        /\ sender'.frameCounter = sender.frameCounter + 1
    <3>1. sender' = [sender EXCEPT !.frameCounter   = @ + 1,
                                   !.packetSequence = @ + n]
      BY <1>1 DEF SendVideo
    <3>. QED BY <2>1, <3>1 DEF Senders
  <2>4. \A p \in new : /\ p.stream = "video"
                       /\ p.session = sender.session
                       /\ p.frameId = sender.frameCounter + 1
                       /\ p.index < n
                       /\ p.count = n
                       /\ p.isKeyframe = isKeyframe
    BY <2>1
  <2>. HIDE DEF new
  <2>5. sender.session \in Nat /\ sender.frameCounter \in Nat
    BY <2>1 DEF Senders
  <2>6. ASSUME NEW p \in net'
        PROVE  /\ p.index < p.count
               /\ p.session <= sender'.session
               /\ p.session = sender'.session /\ p.stream = "video" =>
                    p.frameId <= sender'.frameCounter
    <3>1. CASE p \in net
      <4>1. p.frameId \in Nat
        BY <2>1, <3>1 DEF Packets
      <4>. QED BY <2>3, <2>5, <3>1, <4>1 DEF NetInv
    <3>2. CASE p \in new
      BY <2>3, <2>4, <2>5, <3>2
    <3>. QED BY <2>2, <2>6, <3>1, <3>2
  <2>7. ASSUME NEW p \in net', NEW q \in net',
               p.session = q.session, p.stream = "video", q.stream = "video",
               p.frameId = q.frameId
        PROVE  p.count = q.count /\ p.isKeyframe = q.isKeyframe
    <3>1. \A r \in net : r.session = sender.session /\ r.stream = "video" =>
                           r.frameId # sender.frameCounter + 1
      BY <2>1, <2>5 DEF NetInv, Packets
    <3>. QED BY <2>2, <2>4, <2>7, <3>1 DEF NetInv
  <2>. QED BY <2>2, <2>6, <2>7 DEF NetInv
<1>2. CASE SendAudio
  <2> DEFINE q == [stream     |-> "audio",
                   session    |-> sender.session,
                   frameId    |-> sender.audioCounter + 1,
                   sequence   |-> sender.packetSequence,
                   index      |-> 0,
                   count      |-> 1,
                   isKeyframe |-> FALSE,
                   key        |-> sender.key]
  <2>1. sender \in Senders
    BY DEF TypeOK
  <2>2. net' \subseteq net \cup {q} /\ net \subseteq net'
    BY <1>2 DEF SendAudio, Transmit
  <2>3. /\ sender'.session = sender.session
        /\ sender'.frameCounter = sender.frameCounter
    <3>1. sender' = [sender EXCEPT !.audioCounter   = @ + 1,
                                   !.packetSequence = @ + 1]
      BY <1>2 DEF SendAudio
    <3>. QED BY <2>1, <3>1 DEF Senders
  <2>4. /\ q.stream = "audio" /\ q.index < q.count
        /\ q.session <= sender.session
    BY <2>1 DEF Senders
  <2>. HIDE DEF q
  <2>5. q.stream # "video"
    BY <2>4
  <2>. QED BY <2>2, <2>3, <2>4, <2>5 DEF NetInv
<1>3. CASE RestartSender
  <2>1. /\ sender'.session = sender.session + 1
        /\ net' = net
        /\ sender.session \in Nat
    BY <1>3 DEF RestartSender, NewSession, TypeOK, Senders
  <2>2. \A p \in net : p.session \in Nat
    BY DEF TypeOK, Packets
  <2>. QED BY <2>1, <2>2 DEF NetInv
<1>4. CASE ArmSender
  <2>1. /\ sender'.session = sender.session
        /\ sender'.frameCounter = sender.frameCounter
        /\ net' = net
    BY <1>4 DEF ArmSender, TypeOK, Senders
  <2>. QED BY <2>1 DEF NetInv
<1>5. ASSUME UNCHANGED <<sender, net>>
      PROVE  NetInv' /\ net \subseteq net'
  BY <1>5 DEF NetInv
<1>. QED
  BY <1>1, <1>2, <1>3, <1>4, <1>5
     DEF Next, vars, Examine, Decrypt, Commit, DropOtherSession, DropUntilKeyframe,
         DropOlder, StoreFragment, EmitFrame, SetCrypto, SetExpectedSessionId, Reset

\* The filter goes on remembering what was accepted since it was cleared.
LEMMA FilterStep == TypeOK /\ FilterInv /\ [Next]_vars => FilterInv'
<1> SUFFICES ASSUME TypeOK, FilterInv, [Next]_vars
             PROVE  FilterInv'
  OBVIOUS
<1>1. CASE Commit
  <2>1. filter \in Filters /\ committed \subseteq Nat /\ pump.packet.sequence \in Nat
    BY <1>1 DEF Commit, TypeOK, Packets
  <2>2. CASE Accepts(filter, pump.packet.sequence)
    <3>1. /\ filter' = Mark(filter, pump.packet.sequence)
          /\ committed' = committed \cup {pump.packet.sequence}
      BY <1>1, <2>2 DEF Commit
    <3>2. \A s \in committed : Remembers(filter, s)
      BY DEF FilterInv
    <3>3. \A s \in committed' : Remembers(Mark(filter, pump.packet.sequence), s)
      BY <2>1, <2>2, <3>1, <3>2, MarkAdds, MarkKeeps
    <3>. QED BY <3>1, <3>3 DEF FilterInv
  <2>3. CASE ~Accepts(filter, pump.packet.sequence)
    BY <1>1, <2>3 DEF Commit, FilterInv
  <2>. QED BY <2>2, <2>3
<1>2. CASE committed' = {}
  BY <1>2 DEF FilterInv
<1>3. CASE UNCHANGED filterVars
  BY <1>3 DEF FilterInv, filterVars
<1>. QED
  BY <1>1, <1>2, <1>3
     DEF Next, vars, filterVars, SendVideo, SendAudio, ArmSender, RestartSender,
         Examine, Decrypt, DropOtherSession, DropUntilKeyframe, DropOlder, StoreFragment,
         EmitFrame, SetCrypto, ClearFilter, SetExpectedSessionId, Reset

-----------------------------------------------------------------------------
(* The pending frames *)

\* A non-empty set of frame ids has an oldest one.
LEMMA OldestFrame ==
  ASSUME NEW D, D \subseteq Nat, D # {}
  PROVE  \E m \in D : \A e \in D : ~(e < m)
<1> DEFINE T == {0 .. m : m \in D}
           R == StrictSubsetOrdering(Nat)
           S == FiniteSubsetsOf(Nat)
<1>1. IsWellFoundedOn(R, S)
  BY FS_StrictSubsetOrderingWellFounded
<1>2. T \subseteq S
  <2>1. \A m \in Nat : IsFiniteSet(0 .. m) /\ 0 .. m \in SUBSET Nat
    BY FS_Interval
  <2>. QED BY <2>1 DEF FiniteSubsetsOf
<1>3. T # {}
  OBVIOUS
<1> HIDE DEF R, S
<1>4. PICK x \in T : \A y \in T : ~(<<y, x>> \in R)
  <2>. HIDE DEF T
  <2>. QED BY <1>1, <1>2, <1>3, WFMin
<1>5. PICK m \in D : x = 0 .. m
  OBVIOUS
<1>6. ASSUME NEW e \in D, e < m
      PROVE  FALSE
  <2>1. 0 .. e \in T
    OBVIOUS
  <2>2. /\ 0 .. e \in SUBSET Nat /\ 0 .. m \in SUBSET Nat
        /\ 0 .. e \subseteq 0 .. m
        /\ m \in 0 .. m /\ m \notin 0 .. e
    BY <1>6
  <2>3. <<0 .. e, 0 .. m>> \in R
    BY <2>2 DEF R, StrictSubsetOrdering
  <2>. QED BY <1>4, <1>5, <2>1, <2>3
<1>. QED BY <1>6

\* The cap: the map of pending frames never outgrows it by more than the one
\* entry that the trim takes away.
LEMMA TrimmedBound ==
  ASSUME TypeOK, PendingFinite, PendingIsUseful, NEW g \in Nat, NEW f
  PROVE  LET T == Trimmed(Stored(g, f))
         IN  /\ IsFiniteSet(DOMAIN T)
             /\ Cardinality(DOMAIN T) <= kMaxPending
             /\ DOMAIN T \subseteq DOMAIN pendingFrames \cup {g}
             /\ \A h \in DOMAIN T : T[h] = IF h = g THEN f ELSE pendingFrames[h]
<1> DEFINE D == DOMAIN pendingFrames \cup {g}
           S == Stored(g, f)
           K == {h \in D : \E e \in D : e < h}
<1>1. IsFiniteSet(D) /\ Cardinality(D) <= kMaxPending + 1 /\ Cardinality(D) \in Nat
  <2>1. Cardinality(DOMAIN pendingFrames) \in Nat
    BY FS_CardinalityType DEF PendingFinite
  <2>2. IsFiniteSet(D) /\ Cardinality(D) = IF g \in DOMAIN pendingFrames
                            THEN Cardinality(DOMAIN pendingFrames)
                            ELSE Cardinality(DOMAIN pendingFrames) + 1
    BY FS_AddElement DEF PendingFinite
  <2>. HIDE DEF D
  <2>. QED BY <2>1, <2>2, BoundsAssumption DEF PendingIsUseful
<1>2. DOMAIN S = D /\ \A h \in D : S[h] = IF h = g THEN f ELSE pendingFrames[h]
  BY DEF Stored
<1>3. D \subseteq Nat /\ D # {}
  BY DEF TypeOK
<1>. HIDE DEF D, S
<1>4. CASE Cardinality(D) > kMaxPending
  <2>1. Trimmed(S) = [h \in K |-> S[h]]
    BY <1>2, <1>4 DEF Trimmed
  <2>2. K \in SUBSET D /\ K # D
    <3>1. PICK m \in D : \A e \in D : ~(e < m)
      BY <1>3, OldestFrame
    <3>2. m \notin K
      BY <3>1
    <3>. QED BY <3>2
  <2>. HIDE DEF K
  <2>3. IsFiniteSet(K) /\ Cardinality(K) <= Cardinality(D) /\ Cardinality(K) # Cardinality(D)
    BY <1>1, <2>2, FS_Subset
  <2>4. Cardinality(K) \in Nat
    BY <2>3, FS_CardinalityType
  <2>5. Cardinality(K) <= kMaxPending
    BY <1>1, <2>3, <2>4, BoundsAssumption
  <2>. QED BY <1>2, <2>1, <2>2, <2>3, <2>5 DEF D, S
<1>5. CASE ~(Cardinality(D) > kMaxPending)
  <2>1. Trimmed(S) = S
    BY <1>2, <1>5 DEF Trimmed
  <2>2. Cardinality(D) <= kMaxPending
    BY <1>1, <1>5, BoundsAssumption
  <2>. QED BY <1>1, <1>2, <2>1, <2>2 DEF D, S
<1>. QED BY <1>4, <1>5

\* What the worker holds after storing the fragment of a wanted packet p: the
\* fragments are counted, each is one that was sent, and behind the keyframe
\* gate the frame is a keyframe.
LEMMA Collected ==
  ASSUME IInv, NEW p \in net, Wanted(p)
  PROVE  LET f == WithFragment(PendingFor(p), p)
         IN  /\ IsPartialFrame(f)
             /\ IsFiniteSet(DOMAIN f.fragments)
             /\ DOMAIN f.fragments # {}
             /\ f.received = Cardinality(DOMAIN f.fragments)
             /\ waitingForKeyframe => f.isKeyframe
             /\ OneVideoSource =>
                  \A i \in DOMAIN f.fragments : FragmentSent(p.frameId, f, i)
<1> DEFINE c == PendingFor(p)
           f == WithFragment(c, p)
<1>1. p \in Packets /\ TypeOK
  BY DEF IInv, TypeOK
<1>2. IsPartialFrame(c) /\ IsPartialFrame(f)
  BY <1>1, PendingForType, WithFragmentType
<1>3. /\ IsFiniteSet(DOMAIN c.fragments)
      /\ c.received = Cardinality(DOMAIN c.fragments)
  <2>1. CASE p.frameId \in DOMAIN pendingFrames
    BY <2>1 DEF PendingFor, IInv, CountInv
  <2>2. CASE p.frameId \notin DOMAIN pendingFrames
    <3>1. DOMAIN c.fragments = {} /\ c.received = 0
      BY <2>2 DEF PendingFor, NoFragments
    <3>. QED BY <3>1, FS_EmptySet
  <2>. QED BY <2>1, <2>2
<1>4. waitingForKeyframe => c.isKeyframe
  BY DEF PendingFor, Wanted, MissingKeyframe, IInv, GateInv
<1>5. OneVideoSource => /\ c.total = p.count /\ c.isKeyframe = p.isKeyframe
                        /\ \A i \in DOMAIN c.fragments : FragmentSent(p.frameId, c, i)
  <2>1. CASE p.frameId \in DOMAIN pendingFrames
    <3> SUFFICES ASSUME OneVideoSource
                 PROVE  /\ c.total = p.count /\ c.isKeyframe = p.isKeyframe
                        /\ \A i \in DOMAIN c.fragments : FragmentSent(p.frameId, c, i)
      OBVIOUS
    <3>1. c = pendingFrames[p.frameId] /\ DOMAIN c.fragments # {}
      BY <2>1 DEF PendingFor, IInv, CountInv
    <3>2. \A i \in DOMAIN c.fragments : FragmentSent(p.frameId, c, i)
      BY <2>1, <3>1 DEF IInv, SourceInv
    <3>. HIDE DEF c
    <3>3. PICK q \in net : /\ q.stream = "video" /\ q.frameId = p.frameId
                           /\ q.count = c.total /\ q.isKeyframe = c.isKeyframe
      BY <3>1, <3>2 DEF FragmentSent
    <3>4. /\ p.stream = "video" /\ p.session = q.session
      BY DEF OneVideoSource
    <3>5. q.count = p.count /\ q.isKeyframe = p.isKeyframe
      BY <3>3, <3>4 DEF IInv, NetInv
    <3>. QED BY <3>2, <3>3, <3>5
  <2>2. CASE p.frameId \notin DOMAIN pendingFrames
    BY <2>2 DEF PendingFor, NoFragments
  <2>. QED BY <2>1, <2>2
<1>6. CASE p.index \in DOMAIN c.fragments
  <2>1. f = c
    BY <1>6 DEF WithFragment
  <2>. HIDE DEF c, f
  <2>2. /\ IsPartialFrame(f)
        /\ IsFiniteSet(DOMAIN f.fragments)
        /\ DOMAIN f.fragments # {}
        /\ f.received = Cardinality(DOMAIN f.fragments)
        /\ waitingForKeyframe => f.isKeyframe
        /\ OneVideoSource =>
             \A i \in DOMAIN f.fragments : FragmentSent(p.frameId, f, i)
    BY <1>2, <1>3, <1>4, <1>5, <1>6, <2>1
  <2>. QED BY <2>2 DEF f, c
<1>7. CASE p.index \notin DOMAIN c.fragments
  <2> DEFINE frs == [i \in DOMAIN c.fragments \cup {p.index} |->
                       IF i \in DOMAIN c.fragments THEN c.fragments[i] ELSE Source(p)]
  <2>1. /\ f.isKeyframe = c.isKeyframe
        /\ f.total = c.total
        /\ f.received = c.received + 1
        /\ f.fragments = frs
    <3>. HIDE DEF c
    <3>. QED BY <1>2, <1>7 DEF WithFragment, IsPartialFrame
  <2>2. /\ DOMAIN frs = DOMAIN c.fragments \cup {p.index}
        /\ frs[p.index] = Source(p)
        /\ \A i \in DOMAIN c.fragments : frs[i] = c.fragments[i]
    BY <1>7
  <2>. HIDE DEF c, f, frs
  <2>3. /\ IsFiniteSet(DOMAIN frs)
        /\ Cardinality(DOMAIN frs) = Cardinality(DOMAIN c.fragments) + 1
    BY <1>3, <1>7, <2>2, FS_AddElement
  <2>4. OneVideoSource =>
          \A i \in DOMAIN f.fragments : FragmentSent(p.frameId, f, i)
    <3> SUFFICES ASSUME OneVideoSource, NEW i \in DOMAIN frs
                 PROVE  FragmentSent(p.frameId, f, i)
      BY <2>1
    <3>1. CASE i = p.index
      BY <1>5, <2>1, <2>2, <3>1 DEF FragmentSent, OneVideoSource
    <3>2. CASE i \in DOMAIN c.fragments
      BY <1>5, <2>1, <2>2, <3>2 DEF FragmentSent
    <3>. QED BY <2>2, <3>1, <3>2
  <2>5. /\ IsPartialFrame(f)
        /\ IsFiniteSet(DOMAIN f.fragments)
        /\ DOMAIN f.fragments # {}
        /\ f.received = Cardinality(DOMAIN f.fragments)
        /\ waitingForKeyframe => f.isKeyframe
    BY <1>2, <1>3, <1>4, <2>1, <2>2, <2>3
  <2>. QED BY <2>4, <2>5 DEF f, c
<1>. QED BY <1>6, <1>7

\* A complete frame is whole: as many fragments as the frame has, all of them
\* in range, can only be every one of them.
LEMMA CompleteIsWhole ==
  ASSUME IInv, NEW p \in net, Wanted(p), OneVideoSource,
         Complete(WithFragment(PendingFor(p), p))
  PROVE  Whole(Reassembled(p.frameId, WithFragment(PendingFor(p), p)))
<1> DEFINE f == WithFragment(PendingFor(p), p)
           r == Reassembled(p.frameId, f)
<1>1. /\ IsPartialFrame(f)
      /\ IsFiniteSet(DOMAIN f.fragments)
      /\ f.received = Cardinality(DOMAIN f.fragments)
      /\ \A i \in DOMAIN f.fragments : FragmentSent(p.frameId, f, i)
  BY Collected
<1>2. f.total \in Nat /\ f.total > 0 /\ f.received = f.total
  BY <1>1 DEF Complete, IsPartialFrame
<1>. HIDE DEF f
<1>3. DOMAIN f.fragments \in SUBSET (0 .. (f.total - 1))
  <2> SUFFICES ASSUME NEW i \in DOMAIN f.fragments
               PROVE  i \in 0 .. (f.total - 1)
    OBVIOUS
  <2>1. PICK q \in net : q.index = i /\ q.count = f.total
    BY <1>1 DEF FragmentSent
  <2>2. q.index < q.count /\ q.index \in Nat
    BY DEF IInv, NetInv, TypeOK, Packets
  <2>. QED BY <1>2, <2>1, <2>2
<1>4. DOMAIN f.fragments = 0 .. (f.total - 1)
  <2>1. IsFiniteSet(0 .. (f.total - 1)) /\ Cardinality(0 .. (f.total - 1)) = f.total
    <3>1. f.total - 1 \in Int /\ 0 \in Int
      BY <1>2
    <3>2. /\ IsFiniteSet(0 .. (f.total - 1))
          /\ Cardinality(0 .. (f.total - 1)) =
               IF 0 > f.total - 1 THEN 0 ELSE (f.total - 1) - 0 + 1
      BY <3>1, FS_Interval
    <3>. QED BY <1>2, <3>2
  <2>. QED BY <1>1, <1>2, <1>3, <2>1, FS_Subset
<1>5. /\ DOMAIN r.data = 0 .. (f.total - 1)
      /\ \A i \in DOMAIN r.data : r.data[i] = f.fragments[i]
      /\ r.total = f.total /\ r.frameId = p.frameId /\ r.isKeyframe = f.isKeyframe
  BY <1>4 DEF Reassembled
<1>. HIDE DEF r
<1>6. Whole(r)
  BY <1>1, <1>4, <1>5 DEF Whole, FragmentSent
<1>. QED BY <1>6 DEF r, f

\* The pending frames and the frame handed on, after every step.
LEMMA PendingStep ==
  IInv /\ [Next]_vars => /\ CountInv' /\ GateInv' /\ PendingFinite'
                         /\ PendingIsUseful' /\ SourceInv' /\ FrameIntegrity'
<1> SUFFICES ASSUME IInv, [Next]_vars
             PROVE  /\ CountInv' /\ GateInv' /\ PendingFinite'
                    /\ PendingIsUseful' /\ SourceInv' /\ FrameIntegrity'
  OBVIOUS
<1>1. TypeOK /\ net \subseteq net' /\ (OneVideoSource' => OneVideoSource)
  BY NetStep DEF IInv, OneVideoSource
<1>2. ASSUME out' = NoFrame
      PROVE  FrameIntegrity'
  <2>1. DOMAIN NoFrame.data = {} /\ NoFrame.total = 0
    BY DEF NoFrame, NoFragments
  <2>2. 0 .. (0 - 1) = {}
    OBVIOUS
  <2>. QED BY <1>2, <2>1, <2>2 DEF FrameIntegrity, Whole
<1>3. ASSUME UNCHANGED frameVars, out' = NoFrame
      PROVE  /\ CountInv' /\ GateInv' /\ PendingFinite'
             /\ PendingIsUseful' /\ SourceInv' /\ FrameIntegrity'
  <2>1. CountInv' /\ GateInv' /\ PendingFinite' /\ PendingIsUseful'
    BY <1>3 DEF IInv, CountInv, GateInv, PendingFinite, PendingIsUseful, frameVars
  <2>2. SourceInv'
    <3> SUFFICES ASSUME OneVideoSource',
                        NEW g \in DOMAIN pendingFrames',
                        NEW i \in DOMAIN pendingFrames'[g].fragments
                 PROVE  FragmentSent(g, pendingFrames[g], i)'
      BY DEF SourceInv
    <3>1. pendingFrames' = pendingFrames
      BY <1>3 DEF frameVars
    <3>2. FragmentSent(g, pendingFrames[g], i)
      BY <1>1, <3>1 DEF IInv, SourceInv
    <3>. QED BY <1>1, <3>1, <3>2 DEF FragmentSent
  <2>. QED BY <1>2, <1>3, <2>1, <2>2
<1>4. CASE StoreFragment
  <2> DEFINE p == pump.packet
             f == WithFragment(PendingFor(p), p)
             T == Trimmed(Stored(p.frameId, f))
  <2>1. p \in net /\ p \in Packets /\ Wanted(p)
    BY <1>1, <1>4, LockedType DEF StoreFragment
  <2>2. /\ pendingFrames' = T
        /\ UNCHANGED <<sender, net, waitingForKeyframe, lastEmittedFrameId>>
        /\ out' = NoFrame
    BY <1>4 DEF StoreFragment, senderVars
  <2>3. /\ IsFiniteSet(DOMAIN f.fragments)
        /\ DOMAIN f.fragments # {}
        /\ f.received = Cardinality(DOMAIN f.fragments)
        /\ waitingForKeyframe => f.isKeyframe
        /\ OneVideoSource =>
             \A i \in DOMAIN f.fragments : FragmentSent(p.frameId, f, i)
    BY <2>1, Collected
  <2>4. p.frameId \in Nat
    BY <2>1 DEF Packets
  <2>. HIDE DEF f
  <2>5. /\ IsFiniteSet(DOMAIN T)
        /\ Cardinality(DOMAIN T) <= kMaxPending
        /\ DOMAIN T \subseteq DOMAIN pendingFrames \cup {p.frameId}
        /\ \A h \in DOMAIN T : T[h] = IF h = p.frameId THEN f ELSE pendingFrames[h]
    BY <1>1, <2>4, TrimmedBound DEF IInv
  <2>. HIDE DEF T
  <2>6. CountInv' /\ GateInv' /\ PendingFinite'
    BY <2>2, <2>3, <2>5 DEF IInv, CountInv, GateInv, PendingFinite
  <2>7. PendingIsUseful'
    <3>1. ~waitingForKeyframe => p.frameId > lastEmittedFrameId
      BY <1>1, <2>1, <2>4 DEF Wanted, OlderThanEmitted, TypeOK
    <3>. QED BY <2>2, <2>5, <3>1 DEF IInv, PendingIsUseful
  <2>8. SourceInv'
    <3> SUFFICES ASSUME OneVideoSource,
                        NEW g \in DOMAIN T,
                        NEW i \in DOMAIN T[g].fragments
                 PROVE  FragmentSent(g, T[g], i)
      BY <1>1, <2>2 DEF SourceInv, FragmentSent
    <3>. QED BY <2>3, <2>5 DEF IInv, SourceInv
  <2>. QED BY <1>2, <2>2, <2>6, <2>7, <2>8
<1>5. CASE EmitFrame
  <2> DEFINE p == pump.packet
             f == WithFragment(PendingFor(p), p)
             N == NewerThan(p.frameId)
  <2>1. p \in net /\ p \in Packets /\ Wanted(p) /\ Complete(f)
    BY <1>1, <1>5, LockedType DEF EmitFrame
  <2>2. /\ pendingFrames' = N
        /\ net' = net
        /\ waitingForKeyframe' = FALSE
        /\ lastEmittedFrameId' = p.frameId
        /\ out' = Reassembled(p.frameId, f)
    BY <1>5 DEF EmitFrame, senderVars
  <2>3. /\ DOMAIN N \in SUBSET DOMAIN pendingFrames
        /\ \A g \in DOMAIN N : N[g] = pendingFrames[g] /\ g > p.frameId
    BY DEF NewerThan
  <2>4. FrameIntegrity'
    <3>1. OneVideoSource => Whole(Reassembled(p.frameId, f))
      BY <2>1, CompleteIsWhole
    <3>. QED BY <2>2, <3>1 DEF FrameIntegrity, Whole, OneVideoSource
  <2>. HIDE DEF N, f
  <2>5. CountInv' /\ GateInv'
    BY <2>2, <2>3 DEF IInv, CountInv, GateInv
  <2>6. /\ IsFiniteSet(DOMAIN N)
        /\ Cardinality(DOMAIN N) <= Cardinality(DOMAIN pendingFrames)
        /\ Cardinality(DOMAIN N) \in Nat /\ Cardinality(DOMAIN pendingFrames) \in Nat
    BY <2>3, FS_Subset, FS_CardinalityType DEF IInv, PendingFinite
  <2>7. PendingFinite' /\ PendingIsUseful'
    BY <2>2, <2>3, <2>6, BoundsAssumption DEF IInv, PendingFinite, PendingIsUseful
  <2>8. SourceInv'
    <3> SUFFICES ASSUME OneVideoSource,
                        NEW g \in DOMAIN N,
                        NEW i \in DOMAIN N[g].fragments
                 PROVE  FragmentSent(g, N[g], i)
      BY <1>1, <2>2 DEF SourceInv, FragmentSent
    <3>. QED BY <2>3 DEF IInv, SourceInv
  <2>. QED BY <2>4, <2>5, <2>7, <2>8
<1>6. CASE Reset
  <2>1. pendingFrames' = NoPending /\ waitingForKeyframe' = TRUE /\ out' = NoFrame
    BY <1>6 DEF Reset
  <2>2. DOMAIN NoPending = {}
    BY DEF NoPending
  <2>3. PendingFinite' /\ PendingIsUseful'
    BY <2>1, <2>2, FS_EmptySet, BoundsAssumption DEF PendingFinite, PendingIsUseful
  <2>4. CountInv' /\ GateInv' /\ SourceInv'
    BY <2>1, <2>2 DEF CountInv, GateInv, SourceInv
  <2>. QED BY <1>2, <2>1, <2>3, <2>4
<1>7. CASE UNCHANGED vars
  <2>1. UNCHANGED <<net, frameVars, out>>
    BY <1>7 DEF vars, frameVars
  <2>. QED
    BY <2>1 DEF IInv, CountInv, GateInv, PendingFinite, PendingIsUseful, SourceInv,
                FrameIntegrity, OneVideoSource, FragmentSent, Whole, frameVars
<1>. QED
  BY <1>3, <1>4, <1>5, <1>6, <1>7
     DEF Next, SendVideo, SendAudio, ArmSender, RestartSender, Examine, Decrypt, Commit,
         DropOtherSession, DropUntilKeyframe, DropOlder, SetCrypto, SetExpectedSessionId

-----------------------------------------------------------------------------
(* The theorems *)

\* The first state: nothing sent, nothing pending, the gate closed.
LEMMA InitIInv == Init => IInv
<1> SUFFICES ASSUME Init PROVE IInv
  OBVIOUS
<1>1. DOMAIN pendingFrames = {} /\ net = {} /\ committed = {}
  BY DEF Init, NoPending
<1>2. TypeOK
  BY <1>1, FreshType DEF Init, TypeOK, IdlePump, NewSession, Senders
<1>3. FilterInv /\ NetInv /\ CountInv /\ GateInv /\ SourceInv
  BY <1>1 DEF FilterInv, NetInv, CountInv, GateInv, SourceInv
<1>4. PendingFinite /\ PendingIsUseful
  BY <1>1, FS_EmptySet, BoundsAssumption DEF PendingFinite, PendingIsUseful
<1>5. FrameIntegrity
  <2>1. DOMAIN out.data = {} /\ out.total = 0
    BY DEF Init, NoFrame, NoFragments
  <2>2. 0 .. (0 - 1) = {}
    OBVIOUS
  <2>. QED BY <2>1, <2>2 DEF FrameIntegrity, Whole
<1>. QED BY <1>2, <1>3, <1>4, <1>5 DEF IInv

\* The types of the media path: in particular the worker only ever holds a
\* packet that was sent, and a raced filter is still a filter.
THEOREM TypeCorrect == Spec => []TypeOK
<1>1. Init => TypeOK
  BY InitIInv DEF IInv
<1>2. TypeOK /\ [Next]_vars => TypeOK'
  BY TypeStep
<1>. QED BY <1>1, <1>2, PTL DEF Spec

\* IInv is inductive.
THEOREM Invariance == Spec => []IInv
<1>1. Init => IInv
  BY InitIInv
<1>2. IInv /\ [Next]_vars => IInv'
  BY TypeStep, NetStep, FilterStep, PendingStep DEF IInv
<1>. QED BY <1>1, <1>2, PTL DEF Spec

\* PushPacket hands on whole frames, for any number of packets, fragments,
\* losses, repetitions, re-keyings and resets, while one session sends video.
THEOREM FramesAreWhole == Spec => []FrameIntegrity
<1>1. IInv => FrameIntegrity
  BY DEF IInv
<1>. QED BY <1>1, Invariance, PTL

\* pendingFrames_ is bounded by its cap and holds no frame that is too old.
THEOREM PendingBounded == Spec => []PendingIsUseful
<1>1. IInv => PendingIsUseful
  BY DEF IInv
<1>. QED BY <1>1, Invariance, PTL

\* ReplayFilter and its use in PushPacket: no sequence is accepted twice
\* between two clears, for any window width and any order of arrival.
THEOREM NoReplay == Spec => AcceptedOnce
<1> DEFINE A == /\ pump.pc = "accepting"
                /\ pump.packet.sequence \in committed
                /\ committed \subseteq committed'
<1>1. ASSUME IInv, [Next]_vars, A
      PROVE  pump'.pc # "locking"
  <2>1. CASE Commit
    <3>1. /\ filter \in Filters /\ pump.packet.sequence \in Nat
          /\ Remembers(filter, pump.packet.sequence)
      BY <1>1 DEF IInv, TypeOK, FilterInv
    <3>2. ~Accepts(filter, pump.packet.sequence)
      BY <3>1, RememberedIsRefused
    <3>3. pump' = IdlePump
      BY <2>1, <3>2 DEF Commit
    <3>. QED BY <3>3 DEF IdlePump
  <2>2. ASSUME pump' = pump \/ pump.pc = "locking" \/ pump.pc = "idle"
               \/ committed' = {}
        PROVE  pump'.pc # "locking"
    BY <1>1, <2>2
  <2>. QED
    BY <1>1, <2>1, <2>2
       DEF Next, vars, filterVars, SendVideo, SendAudio, ArmSender, RestartSender,
           Examine, Decrypt, Locked, DropOtherSession, DropUntilKeyframe, DropOlder,
           StoreFragment, EmitFrame, SetCrypto, ClearFilter, SetExpectedSessionId, Reset
<1>2. IInv /\ [Next]_vars => [A => pump'.pc # "locking"]_vars
  BY <1>1
<1>. QED BY <1>2, Invariance, PTL DEF Spec, AcceptedOnce

\* The step that emits is EmitFrame; every other step emits nothing, and only
\* Reset closes the gate again.
LEMMA EmitSteps ==
  ASSUME [Next]_vars
  PROVE  \/ EmitFrame
         \/ UNCHANGED vars
         \/ out' = NoFrame /\ (waitingForKeyframe' = waitingForKeyframe \/ waitingForKeyframe' = TRUE)
BY DEF Next, frameVars, SendVideo, SendAudio, ArmSender, RestartSender,
       Examine, Decrypt, Commit, DropOtherSession, DropUntilKeyframe, DropOlder,
       StoreFragment, SetCrypto, SetExpectedSessionId, Reset

\* The decoder's first frame after a start or a Reset is a keyframe.
THEOREM GateOpensOnKeyframe == Spec => KeyframeFirst
<1>1. ASSUME IInv, [Next]_vars, waitingForKeyframe, ~waitingForKeyframe'
      PROVE  out'.isKeyframe
  <2>1. CASE EmitFrame
    <3>1. /\ pump.packet \in net /\ Wanted(pump.packet)
          /\ out' = Reassembled(pump.packet.frameId,
                                WithFragment(PendingFor(pump.packet), pump.packet))
      BY <1>1, <2>1, LockedType DEF EmitFrame, IInv
    <3>2. WithFragment(PendingFor(pump.packet), pump.packet).isKeyframe
      BY <1>1, <3>1, Collected
    <3>. QED BY <3>1, <3>2 DEF Reassembled
  <2>2. CASE UNCHANGED vars
    BY <1>1, <2>2 DEF vars
  <2>. QED BY <1>1, <2>1, <2>2, EmitSteps
<1>2. IInv /\ [Next]_vars =>
        [waitingForKeyframe /\ ~waitingForKeyframe' => out'.isKeyframe]_vars
  BY <1>1
<1>. QED BY <1>2, Invariance, PTL DEF Spec, KeyframeFirst

\* Frames reach the decoder in increasing order of their ids.
THEOREM FramesInOrder == Spec => NoJitterInversion
<1>1. ASSUME IInv, [Next]_vars, ~UNCHANGED vars, out' # NoFrame, ~waitingForKeyframe
      PROVE  lastEmittedFrameId' > lastEmittedFrameId
  <2>1. EmitFrame
    BY <1>1, EmitSteps
  <2>2. /\ pump.packet \in Packets /\ Wanted(pump.packet)
        /\ lastEmittedFrameId' = pump.packet.frameId
    BY <1>1, <2>1, LockedType DEF EmitFrame, IInv
  <2>3. pump.packet.frameId \in Nat /\ lastEmittedFrameId \in Nat
    BY <1>1, <2>2 DEF IInv, TypeOK, Packets
  <2>. QED BY <1>1, <2>2, <2>3 DEF Wanted, OlderThanEmitted
<1>2. IInv /\ [Next]_vars =>
        [(/\ out' # NoFrame
          /\ ~waitingForKeyframe)
         => lastEmittedFrameId' > lastEmittedFrameId]_vars
  BY <1>1
<1>. QED BY <1>2, Invariance, PTL DEF Spec, NoJitterInversion

-----------------------------------------------------------------------------
(* The media path uses keys as pairing hands them out *)
=============================================================================
