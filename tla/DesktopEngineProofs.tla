------------------------- MODULE DesktopEngineProofs -------------------------
(***************************************************************************)
(* Proofs about DesktopEngine, for any number of Initialize calls and any  *)
(* size of the jitter buffer: no thread ever calls a part that was freed,  *)
(* and Shutdown leaves nothing running.                                    *)
(*                                                                         *)
(* Neither is inductive.  What makes them so is where the isolate is in    *)
(* its call: which threads have been joined by then, which parts exist,    *)
(* and that isStreaming_ is clear from Disconnect until the next pairing.  *)
(***************************************************************************)
EXTENDS DesktopEngine, TLAPS

Building  == {"parts", "udp", "tcp"}
Dropping  == {"sinks", "decoder", "renderer"}
Stopping  == {"stopUdp", "joinWorker"} \cup Dropping

\* Without an initialized engine no connection lives and none is asked for.
NoEngine ==
  initialized = FALSE =>
    /\ pc \in {"idle"} \cup Building
    /\ reader \in {"off", "ended"} /\ connected = FALSE /\ isStreaming = FALSE
    /\ worker # "ask"
    /\ pc # "tcp" => worker = "off" /\ listening = FALSE
    /\ pc = "idle" => udp = 0 /\ sinks = 0 /\ decoder = 0 /\ renderer = 0

\* What each stage of a call may rely on.
Stages ==
  /\ pc \in Building => initialized = FALSE /\ inits # 0
  /\ pc \in {"joinReader", "clear"} \cup Stopping => connected = FALSE
  /\ pc \in {"clear"} \cup Stopping => reader \in {"off", "ended"}
  /\ pc \in Stopping => isStreaming = FALSE
  /\ pc \in {"joinWorker"} \cup Dropping => listening = FALSE
  /\ pc \in Dropping => worker = "off" /\ udp = 0
  /\ pc \in {"decoder", "renderer"} => sinks = 0
  /\ pc = "renderer" => decoder = 0

\* The parts exist from CreateParts on until the worker has been joined.
PartsExist ==
  (initialized = TRUE \/ pc \in {"udp", "tcp"}) /\ pc \notin Dropping =>
    renderer # 0 /\ sinks # 0 /\ reassembler # 0

\* The reader reads as long as the connection is up or is being closed, and
\* the worker has the reassembler's mutex exactly during the callbacks.
Threads ==
  /\ reader \in {"reading", "keys"} => connected = TRUE \/ pc = "joinReader"
  /\ lock = "worker" <=> worker \in {"push", "decode", "render", "jitter", "ask"}

\* The part of the invariant that is about the engine's life.
Lives == NoUseAfterFree /\ NoEngine /\ Stages /\ PartsExist /\ Threads

IInv == TypeOK /\ Lives

-----------------------------------------------------------------------------
\* Before the first Initialize there is no engine, and the invariant holds.
LEMMA InitEstablishes == Init => IInv
<1> SUFFICES ASSUME Init PROVE IInv
  OBVIOUS
<1>1. Flags
  BY DEF Init, Flags
<1>2. Places
  BY DEF Init, Places
<1>3. Numbers
  BY EngineAssumption DEF Init, Numbers, Generations
<1>4. Lives
  BY DEF Init, Lives, NoUseAfterFree, NoEngine, Stages, PartsExist, Threads,
         Building, Dropping, Stopping
<1> QED
  BY <1>1, <1>2, <1>3, <1>4 DEF IInv, TypeOK

\* Calls from Dart: types.
LEMMA DartTypes == TypeOK /\ Dart => TypeOK'
<1> SUFFICES ASSUME TypeOK, Dart PROVE TypeOK'
  OBVIOUS
<1> USE DEF TypeOK, Dart, isolateVars, mediaVars, workerVars, udpVars, tcpVars, Up,
            Enter,
            Initialize, Connect, Disconnect, Shutdown
<1>1. Flags'
  BY DEF Flags
<1>2. Places'
  BY DEF Places
<1>3. Numbers'
  BY EngineAssumption DEF Numbers, Generations
<1> QED
  BY <1>1, <1>2, <1>3

\* Calls from Dart.
LEMMA DartLives == IInv /\ Dart => Lives'
<1> SUFFICES ASSUME IInv, Dart PROVE Lives'
  OBVIOUS
<1> USE EngineAssumption DEF IInv, TypeOK, Flags, Places, Numbers, Generations, Lives,
            NoUseAfterFree, NoEngine, Stages, PartsExist, Threads, Building, Dropping,
            Stopping, isolateVars, mediaVars, workerVars, udpVars, tcpVars, Up,
            Enter
<1>1. CASE Initialize
  BY <1>1 DEF Initialize
<1>2. CASE Connect
  BY <1>2 DEF Connect
<1>3. CASE Disconnect
  BY <1>3 DEF Disconnect
<1>4. CASE Shutdown
  BY <1>4 DEF Shutdown
<1> QED
  BY <1>1, <1>2, <1>3, <1>4 DEF Dart

\* The isolate inside native code: types.
LEMMA NativeTypes == TypeOK /\ Native => TypeOK'
<1> SUFFICES ASSUME TypeOK, Native PROVE TypeOK'
  OBVIOUS
<1> USE DEF TypeOK, Native, isolateVars, mediaVars, workerVars, udpVars, tcpVars, Up,
            At, Goto, ReturnToDart,
            CreateParts, InitRenderer, RegisterCameras, InitDecoder,
            StartUdp, CreateTcp, CloseSocket, JoinReader, ClearSession,
            StopUdp, JoinWorker, DropSinks, DropDecoder, DropRenderer
<1>1. Flags'
  BY DEF Flags
<1>2. Places'
  BY DEF Places
<1>3. Numbers'
  BY EngineAssumption DEF Numbers, Generations
<1> QED
  BY <1>1, <1>2, <1>3

\* The isolate inside native code.
LEMMA NativeLives == IInv /\ Native => Lives'
<1> SUFFICES ASSUME IInv, Native PROVE Lives'
  OBVIOUS
<1> USE EngineAssumption DEF IInv, TypeOK, Flags, Places, Numbers, Generations, Lives,
            NoUseAfterFree, NoEngine, Stages, PartsExist, Threads, Building, Dropping,
            Stopping, isolateVars, mediaVars, workerVars, udpVars, tcpVars, Up,
            At, Goto, ReturnToDart
<1>1. CASE CreateParts
  BY <1>1 DEF CreateParts, InitRenderer, RegisterCameras, InitDecoder
<1>2. CASE StartUdp
  BY <1>2 DEF StartUdp
<1>3. CASE CreateTcp
  BY <1>3 DEF CreateTcp
<1>4. CASE CloseSocket
  BY <1>4 DEF CloseSocket
<1>5. CASE JoinReader
  BY <1>5 DEF JoinReader
<1>6. CASE ClearSession
  BY <1>6 DEF ClearSession
<1>7. CASE StopUdp
  BY <1>7 DEF StopUdp
<1>8. CASE JoinWorker
  BY <1>8 DEF JoinWorker
<1>9. CASE DropSinks
  BY <1>9 DEF DropSinks
<1>10. CASE DropDecoder
  BY <1>10 DEF DropDecoder
<1>11. CASE DropRenderer
  BY <1>11 DEF DropRenderer
<1> QED
  BY <1>1, <1>2, <1>3, <1>4, <1>5, <1>6, <1>7, <1>8, <1>9, <1>10, <1>11 DEF Native

\* The UDP worker: types.
LEMMA WorkerTypes == TypeOK /\ Worker => TypeOK'
<1> SUFFICES ASSUME TypeOK, Worker PROVE TypeOK'
  OBVIOUS
<1> USE DEF TypeOK, Worker, isolateVars, mediaVars, workerVars, udpVars, tcpVars, Up,
            WorkerUnchanged, PacketDone,
            Receive, WorkerExits, PushPacket, Incomplete, FrameReady, DecodeFrame,
            Rendered, PushFrame, MissingKeyframe, RequestIdr
<1>1. Flags'
  BY DEF Flags
<1>2. Places'
  BY DEF Places
<1>3. Numbers'
  BY EngineAssumption DEF Numbers, Generations
<1> QED
  BY <1>1, <1>2, <1>3

\* The UDP worker.
LEMMA WorkerLives == IInv /\ Worker => Lives'
<1> SUFFICES ASSUME IInv, Worker PROVE Lives'
  OBVIOUS
<1> USE EngineAssumption DEF IInv, TypeOK, Flags, Places, Numbers, Generations, Lives,
            NoUseAfterFree, NoEngine, Stages, PartsExist, Threads, Building, Dropping,
            Stopping, isolateVars, mediaVars, workerVars, udpVars, tcpVars, Up,
            WorkerUnchanged, PacketDone
<1>1. CASE Receive
  BY <1>1 DEF Receive
<1>2. CASE WorkerExits
  BY <1>2 DEF WorkerExits
<1>3. CASE PushPacket
  BY <1>3 DEF PushPacket
<1>4. CASE Incomplete
  BY <1>4 DEF Incomplete
<1>5. CASE FrameReady
  BY <1>5 DEF FrameReady
<1>6. CASE DecodeFrame
  BY <1>6 DEF DecodeFrame
<1>7. CASE Rendered
  BY <1>7 DEF Rendered
<1>8. CASE PushFrame
  BY <1>8 DEF PushFrame
<1>9. CASE MissingKeyframe
  BY <1>9 DEF MissingKeyframe
<1>10. CASE RequestIdr
  BY <1>10 DEF RequestIdr
<1> QED
  BY <1>1, <1>2, <1>3, <1>4, <1>5, <1>6, <1>7, <1>8, <1>9, <1>10 DEF Worker

\* The reader: types.
LEMMA ReaderTypes == TypeOK /\ Reader => TypeOK'
<1> SUFFICES ASSUME TypeOK, Reader PROVE TypeOK'
  OBVIOUS
<1> USE DEF TypeOK, Reader, isolateVars, mediaVars, workerVars, udpVars, tcpVars, Up,
            ReaderUnchanged,
            ReadChallenge, InstallKey, PairingOk, PairingError, ReaderEnds
<1>1. Flags'
  BY DEF Flags
<1>2. Places'
  BY DEF Places
<1>3. Numbers'
  BY EngineAssumption DEF Numbers, Generations
<1> QED
  BY <1>1, <1>2, <1>3

\* The reader.
LEMMA ReaderLives == IInv /\ Reader => Lives'
<1> SUFFICES ASSUME IInv, Reader PROVE Lives'
  OBVIOUS
<1> USE EngineAssumption DEF IInv, TypeOK, Flags, Places, Numbers, Generations, Lives,
            NoUseAfterFree, NoEngine, Stages, PartsExist, Threads, Building, Dropping,
            Stopping, isolateVars, mediaVars, workerVars, udpVars, tcpVars, Up,
            ReaderUnchanged
<1>1. CASE ReadChallenge
  BY <1>1 DEF ReadChallenge
<1>2. CASE InstallKey
  BY <1>2 DEF InstallKey
<1>3. CASE PairingOk
  BY <1>3 DEF PairingOk
<1>4. CASE PairingError
  BY <1>4 DEF PairingError
<1>5. CASE ReaderEnds
  BY <1>5 DEF ReaderEnds
<1> QED
  BY <1>1, <1>2, <1>3, <1>4, <1>5 DEF Reader

\* A step of nobody, or the end of the process, changes nothing.
LEMMA StutterPreserves == IInv /\ UNCHANGED vars => IInv'
<1> SUFFICES ASSUME IInv, UNCHANGED vars PROVE IInv'
  OBVIOUS
<1>1. Flags'
  BY DEF IInv, TypeOK, Flags, vars
<1>2. Places'
  BY DEF IInv, TypeOK, Places, vars
<1>3. Numbers'
  BY DEF IInv, TypeOK, Numbers, vars
<1>4. Lives'
  BY DEF IInv, Lives, NoUseAfterFree, NoEngine, Stages, PartsExist, Threads, vars
<1> QED
  BY <1>1, <1>2, <1>3, <1>4 DEF IInv, TypeOK

\* The inductive invariant holds in every state of the engine.
THEOREM Invariance == Spec => []IInv
<1>1. Init => IInv
  BY InitEstablishes
<1>2. IInv /\ [Next]_vars => IInv'
  <2> SUFFICES ASSUME IInv, [Next]_vars PROVE IInv'
    OBVIOUS
  <2>1. CASE Dart
    BY <2>1, DartTypes, DartLives DEF IInv
  <2>2. CASE Native
    BY <2>2, NativeTypes, NativeLives DEF IInv
  <2>3. CASE Worker
    BY <2>3, WorkerTypes, WorkerLives DEF IInv
  <2>4. CASE Reader
    BY <2>4, ReaderTypes, ReaderLives DEF IInv
  <2>5. CASE Ended
    BY <2>5, StutterPreserves DEF Ended
  <2>6. CASE UNCHANGED vars
    BY <2>6, StutterPreserves
  <2> QED
    BY <2>1, <2>2, <2>3, <2>4, <2>5, <2>6 DEF Next
<1> QED
  BY <1>1, <1>2, PTL DEF Spec

\* The engine is type-correct and its jitter buffer stays within
\* maxQueueFrames.
THEOREM TypeCorrect == Spec => []TypeOK
<1>1. IInv => TypeOK
  BY DEF IInv
<1> QED
  BY Invariance, <1>1, PTL

\* The UDP worker never calls into a reassembler, decoder, renderer, virtual
\* camera or control client that Initialize replaced or Shutdown freed.
THEOREM PartsOutliveCalls == Spec => []NoUseAfterFree
<1>1. IInv => NoUseAfterFree
  BY DEF IInv, Lives
<1> QED
  BY Invariance, <1>1, PTL

\* After Shutdown has returned, no thread of the engine runs and no part is
\* in use.
THEOREM ShutdownIsComplete == Spec => []QuietAfterShutdown
<1>1. IInv => QuietAfterShutdown
  BY DEF IInv, TypeOK, Flags, Places, Lives, NoEngine, Threads, QuietAfterShutdown
<1> QED
  BY Invariance, <1>1, PTL
=============================================================================
