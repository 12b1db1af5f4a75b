---------------------------- MODULE DesktopEngine ----------------------------
(***************************************************************************)
(* The PC's media engine as a whole: how ServiceManager builds its parts,  *)
(* feeds them from the network and takes them down again.                  *)
(*                                                                         *)
(* Three threads share the parts without a lock around the pointers.  The  *)
(* Dart isolate makes the calls of the C interface, one at a time; the     *)
(* worker of IocpUdpServer pushes packets through the reassembler into the *)
(* decoder, the sinks and the jitter buffer; the reader of                 *)
(* TcpControlClient installs keys and starts the stream.                   *)
(*                                                                         *)
(* A part bears the number of the Initialize that made it, 0 is a null     *)
(* pointer, and a part is freed when its pointer changes.  What pairing    *)
(* and reassembly compute is in ControlPlane and MediaPath.                *)
(***************************************************************************)
EXTENDS Naturals

CONSTANTS
  MaxInits,       \* bound: calls of Initialize
  maxQueueFrames  \* JitterBufferConfig, 10 in the code

ASSUME EngineAssumption ==
  /\ MaxInits \in Nat
  /\ maxQueueFrames \in Nat /\ maxQueueFrames > 0

VARIABLES
  initialized,   \* NativeDesktopSession's _isInitialized
  call, pc,      \* the isolate's call of the C interface, and where it is
  inits,         \* Initialize calls so far
  udp, sinks, decoder, renderer, reassembler, tcp,  \* ServiceManager's pointers
  decoderUp,     \* MFDecoder's initialized_
  listening,     \* IocpUdpServer's isRunning_, and its socket is open
  worker,        \* where the UDP worker is
  held,          \* the part the worker is calling
  lock,          \* who holds the reassembler's mutex
  queue,         \* frames in the jitter buffer
  connected,     \* TcpControlClient's isConnected_
  reader,        \* where the reader is; "ended" threads are joinable
  isStreaming,
  down           \* how the process came to an end

vars == <<initialized, call, pc, inits, udp, sinks, decoder, renderer, reassembler, tcp,
          decoderUp, listening, worker, held, lock, queue, connected, reader,
          isStreaming, down>>

isolateVars == <<initialized, call, pc, inits>>
mediaVars   == <<sinks, decoder, renderer, reassembler, decoderUp, queue>>
workerVars  == <<worker, held, lock>>
udpVars     == <<udp, listening>>
tcpVars     == <<tcp, connected, reader, isStreaming>>

-----------------------------------------------------------------------------
Up == down = "no"

\* The isolate calls into native code, goes on in it, or returns.
Enter(c, l)   == Up /\ pc = "idle" /\ call' = c /\ pc' = l
At(l)         == Up /\ pc = l
Goto(l)       == pc' = l /\ UNCHANGED call
ReturnToDart  == pc' = "idle" /\ call' = "none"

-----------------------------------------------------------------------------
(* Initialize *)

\* NativeDesktopSession.initialize calls native code once per shutdown.
Initialize ==
  /\ ~initialized /\ inits < MaxInits
  /\ Enter("init", "parts")
  /\ inits' = inits + 1
  /\ UNCHANGED <<initialized, mediaVars, workerVars, udpVars, tcpVars, down>>

\* Neither the renderer nor the virtual cameras can keep Initialize from
\* going on.
InitRenderer    == renderer' = inits
RegisterCameras == sinks' = inits

\* Initialize takes no notice of a decoder that could not be set up.  One
\* that refuses its media types never returns: it calls Shutdown with its
\* own mutex held.
InitDecoder ==
  /\ decoder' = inits
  /\ \/ decoderUp' \in BOOLEAN /\ UNCHANGED down
     \/ decoderUp' = FALSE /\ down' = "hung"

\* The parts, with an empty jitter buffer and a new reassembler.
CreateParts ==
  /\ At("parts")
  /\ InitRenderer /\ RegisterCameras /\ InitDecoder
  /\ reassembler' = inits /\ queue' = 0
  /\ Goto("udp")
  /\ UNCHANGED <<initialized, inits, workerVars, udpVars, tcpVars>>

\* IocpUdpServer.Start starts its worker, unless the port is taken.
StartUdp ==
  /\ At("udp")
  /\ udp' = inits
  /\ \/ listening' = TRUE /\ worker' = "recv"
     \/ UNCHANGED <<listening, worker>>
  /\ Goto("tcp")
  /\ UNCHANGED <<initialized, inits, mediaVars, held, lock, tcpVars, down>>

\* A new TcpControlClient takes the place of the old one, whose destructor
\* ends the process if its reader was never joined.
CreateTcp ==
  /\ At("tcp")
  /\ tcp' = inits
  /\ down' = IF reader = "ended" THEN "terminated" ELSE down
  /\ initialized' = TRUE
  /\ ReturnToDart
  /\ UNCHANGED <<inits, mediaVars, workerVars, udpVars, connected, reader, isStreaming>>

-----------------------------------------------------------------------------
(* Connect, DisconnectDevice and Shutdown *)

\* ConnectDevice of an engine that is not connected; a joinable reader ends
\* the process.  Connecting over a live connection is in ControlPlane.
Connect ==
  /\ Up /\ pc = "idle" /\ initialized /\ ~connected
  /\ IF reader = "ended"
       THEN down' = "terminated" /\ UNCHANGED <<connected, reader>>
       ELSE connected' = TRUE /\ reader' = "reading" /\ UNCHANGED down
  /\ UNCHANGED <<isolateVars, mediaVars, workerVars, udpVars, tcp, isStreaming>>

Disconnect ==
  /\ initialized
  /\ Enter("disconnect", "close")
  /\ UNCHANGED <<initialized, inits, mediaVars, workerVars, udpVars, tcpVars, down>>

Shutdown ==
  /\ initialized
  /\ Enter("shutdown", "close")
  /\ UNCHANGED <<initialized, inits, mediaVars, workerVars, udpVars, tcpVars, down>>

\* TcpControlClient.Disconnect does nothing if the reader has given up the
\* connection itself.
CloseSocket ==
  /\ At("close")
  /\ connected' = FALSE
  /\ IF connected THEN Goto("joinReader") ELSE Goto("clear")
  /\ UNCHANGED <<initialized, inits, mediaVars, workerVars, udpVars, tcp, reader,
                 isStreaming, down>>

JoinReader ==
  /\ At("joinReader")
  /\ reader = "ended"
  /\ reader' = "off"
  /\ Goto("clear")
  /\ UNCHANGED <<initialized, inits, mediaVars, workerVars, udpVars, tcp, connected,
                 isStreaming, down>>

\* Mutant: only the pairing is forgotten.
KeepStreaming ==
  /\ At("clear")
  /\ IF call = "shutdown" THEN Goto("stopUdp") ELSE ReturnToDart
  /\ UNCHANGED <<initialized, inits, mediaVars, workerVars, udpVars, tcpVars, down>>

\* The rest of DisconnectDevice, under the manager's mutex.
ClearSession ==
  /\ At("clear")
  /\ isStreaming' = FALSE
  /\ IF call = "shutdown" THEN Goto("stopUdp") ELSE ReturnToDart
  /\ UNCHANGED <<initialized, inits, mediaVars, workerVars, udpVars, tcp, connected,
                 reader, down>>

\* Mutant: the socket stays open, and the worker in recvfrom.
StopWithoutClose ==
  /\ At("stopUdp")
  /\ Goto("joinWorker")
  /\ UNCHANGED <<initialized, inits, mediaVars, workerVars, udpVars, tcpVars, down>>

\* IocpUdpServer.Stop clears isRunning_ and closes the socket ...
StopUdp ==
  /\ At("stopUdp")
  /\ listening' = FALSE
  /\ Goto("joinWorker")
  /\ UNCHANGED <<initialized, inits, mediaVars, workerVars, udp, tcpVars, down>>

\* Mutant: the worker is detached.
DetachWorker ==
  /\ At("joinWorker")
  /\ udp' = 0
  /\ Goto("sinks")
  /\ UNCHANGED <<initialized, inits, mediaVars, workerVars, listening, tcpVars, down>>

\* ... and waits for the worker.
JoinWorker ==
  /\ At("joinWorker")
  /\ worker = "off"
  /\ udp' = 0
  /\ Goto("sinks")
  /\ UNCHANGED <<initialized, inits, mediaVars, workerVars, listening, tcpVars, down>>

\* The virtual cameras are stopped and unregistered.
DropSinks ==
  /\ At("sinks")
  /\ sinks' = 0
  /\ Goto("decoder")
  /\ UNCHANGED <<initialized, inits, decoder, renderer, reassembler, decoderUp, queue,
                 workerVars, udpVars, tcpVars, down>>

\* MFDecoder.Shutdown waits for its mutex, which DecodeFrame holds.
DropDecoder ==
  /\ At("decoder")
  /\ worker # "render"
  /\ decoder' = 0 /\ decoderUp' = FALSE
  /\ Goto("renderer")
  /\ UNCHANGED <<initialized, inits, sinks, renderer, reassembler, queue, workerVars,
                 udpVars, tcpVars, down>>

\* The renderer goes last; reassembler, jitter buffer and control client stay
\* until the next Initialize.
DropRenderer ==
  /\ At("renderer")
  /\ renderer' = 0
  /\ initialized' = FALSE
  /\ ReturnToDart
  /\ UNCHANGED <<inits, sinks, decoder, reassembler, decoderUp, queue, workerVars,
                 udpVars, tcpVars, down>>

-----------------------------------------------------------------------------
(* The UDP worker *)

WorkerUnchanged == UNCHANGED <<isolateVars, sinks, decoder, renderer, reassembler,
                               decoderUp, udpVars, tcpVars, down>>

\* A datagram of the paired phone goes to the reassembler; others are dropped.
Receive ==
  /\ Up /\ worker = "recv" /\ listening
  /\ worker' = "packet" /\ held' = reassembler
  /\ UNCHANGED <<lock, queue>> /\ WorkerUnchanged

WorkerExits ==
  /\ Up /\ worker = "recv" /\ ~listening
  /\ worker' = "off"
  /\ UNCHANGED <<held, lock, queue>> /\ WorkerUnchanged

\* PushPacket takes its mutex and keeps it during the callbacks.
PushPacket ==
  /\ Up /\ worker = "packet" /\ lock = "free"
  /\ worker' = "push" /\ lock' = "worker"
  /\ UNCHANGED <<held, queue>> /\ WorkerUnchanged

PacketDone == worker' = "recv" /\ lock' = "free" /\ held' = 0

\* No frame is complete.
Incomplete ==
  /\ Up /\ worker = "push"
  /\ PacketDone
  /\ UNCHANGED queue /\ WorkerUnchanged

\* A complete frame goes to the decoder, which looks at initialized_ before
\* it takes its mutex.
FrameReady ==
  /\ Up /\ worker = "push"
  /\ IF decoder # 0 /\ decoderUp THEN worker' = "decode" /\ held' = decoder
                                 ELSE worker' = "jitter" /\ UNCHANGED held
  /\ UNCHANGED <<lock, queue>> /\ WorkerUnchanged

\* DecodeFrame under the mutex: the output, if there is any, goes to the
\* renderer and the virtual cameras.
DecodeFrame ==
  /\ Up /\ worker = "decode"
  /\ worker' \in {"render", "jitter"}
  /\ UNCHANGED <<held, lock, queue>> /\ WorkerUnchanged

Rendered ==
  /\ Up /\ worker = "render"
  /\ worker' = "jitter"
  /\ UNCHANGED <<held, lock, queue>> /\ WorkerUnchanged

\* Mutant: the oldest frame is dropped one frame late.
DropLate ==
  /\ Up /\ worker = "jitter"
  /\ queue' = IF queue > maxQueueFrames THEN queue ELSE queue + 1
  /\ PacketDone /\ WorkerUnchanged

\* PushFrame drops the oldest frame of a full queue.  Nothing takes frames
\* out; the first frame the reassembler emits is a keyframe, so that the
\* buffer's own keyframe gate lets all of them in.
PushFrame ==
  /\ Up /\ worker = "jitter"
  /\ queue' = IF queue >= maxQueueFrames THEN maxQueueFrames ELSE queue + 1
  /\ PacketDone /\ WorkerUnchanged

\* A missing keyframe: RequestIdr looks at tcpClient_ and isStreaming_ ...
MissingKeyframe ==
  /\ Up /\ worker = "push"
  /\ tcp # 0 /\ isStreaming
  /\ worker' = "ask" /\ held' = tcp
  /\ UNCHANGED <<lock, queue>> /\ WorkerUnchanged

\* ... and sends.
RequestIdr ==
  /\ Up /\ worker = "ask"
  /\ PacketDone
  /\ UNCHANGED queue /\ WorkerUnchanged

-----------------------------------------------------------------------------
(* The reader of the control connection; lines it has already received are  *)
(* handled after Disconnect has closed the socket, too.                     *)

ReaderUnchanged == UNCHANGED <<isolateVars, mediaVars, worker, held, udpVars, tcp, down>>

\* A challenge: the reader is about to lock the reassembler for SetCrypto.
ReadChallenge ==
  /\ Up /\ reader = "reading"
  /\ reader' = "keys"
  /\ UNCHANGED <<lock, connected, isStreaming>> /\ ReaderUnchanged

InstallKey ==
  /\ Up /\ reader = "keys" /\ lock = "free"
  /\ reader' = "reading"
  /\ UNCHANGED <<lock, connected, isStreaming>> /\ ReaderUnchanged

PairingOk ==
  /\ Up /\ reader = "reading"
  /\ isStreaming' = TRUE
  /\ UNCHANGED <<lock, connected, reader>> /\ ReaderUnchanged

\* The phone refuses the pairing.
PairingError ==
  /\ Up /\ reader = "reading"
  /\ isStreaming' = FALSE
  /\ UNCHANGED <<lock, connected, reader>> /\ ReaderUnchanged

\* recv fails, because the phone or Disconnect has closed the connection.
ReaderEnds ==
  /\ Up /\ reader = "reading"
  /\ reader' = "ended" /\ connected' = FALSE
  /\ UNCHANGED <<lock, isStreaming>> /\ ReaderUnchanged

\* The process has ended, or the isolate hangs in Initialize.
Ended == ~Up /\ UNCHANGED vars

-----------------------------------------------------------------------------
Init ==
  /\ initialized = FALSE /\ call = "none" /\ pc = "idle" /\ inits = 0
  /\ udp = 0 /\ sinks = 0 /\ decoder = 0 /\ renderer = 0 /\ reassembler = 0 /\ tcp = 0
  /\ decoderUp = FALSE /\ listening = FALSE
  /\ worker = "off" /\ held = 0 /\ lock = "free" /\ queue = 0
  /\ connected = FALSE /\ reader = "off" /\ isStreaming = FALSE
  /\ down = "no"

Dart == Initialize \/ Connect \/ Disconnect \/ Shutdown

Native ==
  \/ CreateParts \/ StartUdp \/ CreateTcp
  \/ CloseSocket \/ JoinReader \/ ClearSession
  \/ StopUdp \/ JoinWorker \/ DropSinks \/ DropDecoder \/ DropRenderer

Worker ==
  \/ Receive \/ WorkerExits \/ PushPacket \/ Incomplete \/ FrameReady \/ DecodeFrame
  \/ Rendered \/ PushFrame \/ MissingKeyframe \/ RequestIdr

Reader == ReadChallenge \/ InstallKey \/ PairingOk \/ PairingError \/ ReaderEnds

Next == Dart \/ Native \/ Worker \/ Reader \/ Ended

\* Runnable threads run.  A worker in recvfrom is only obliged to go on once
\* the socket is closed, and what a closed connection had received is used
\* up in the end.
Fairness ==
  /\ WF_vars(Native)
  /\ WF_vars(worker # "recv" /\ Worker) /\ WF_vars(WorkerExits)
  /\ SF_vars(InstallKey) /\ SF_vars(~connected /\ ReaderEnds)

Spec == Init /\ [][Next]_vars /\ Fairness

-----------------------------------------------------------------------------
(* Properties *)

Generations == 0 .. MaxInits

\* The state of the engine; the jitter buffer stays within its limit.
Flags ==
  /\ initialized \in BOOLEAN /\ decoderUp \in BOOLEAN /\ listening \in BOOLEAN
  /\ connected \in BOOLEAN /\ isStreaming \in BOOLEAN
Places ==
  /\ call \in {"none", "init", "disconnect", "shutdown"}
  /\ pc \in {"idle", "parts", "udp", "tcp", "close", "joinReader", "clear", "stopUdp",
             "joinWorker", "sinks", "decoder", "renderer"}
  /\ worker \in {"off", "recv", "packet", "push", "decode", "render", "jitter", "ask"}
  /\ lock \in {"free", "worker"}
  /\ reader \in {"off", "reading", "keys", "ended"}
  /\ down \in {"no", "hung", "terminated"}
Numbers ==
  /\ inits \in Generations /\ udp \in Generations /\ sinks \in Generations
  /\ decoder \in Generations /\ renderer \in Generations /\ reassembler \in Generations
  /\ tcp \in Generations /\ held \in Generations
  /\ queue \in 0 .. maxQueueFrames
TypeOK == Flags /\ Places /\ Numbers

\* The worker never calls a part that was freed: the reassembler whose mutex
\* it takes, the decoder, the renderer and the virtual cameras it draws to,
\* and the control client RequestIdr sends with, although none of these
\* pointers is guarded.
NoUseAfterFree ==
  /\ worker \in {"packet", "push"} => held = reassembler /\ reassembler # 0
  /\ worker = "decode" => held = decoder /\ decoder # 0
  /\ worker = "render" => held = decoder /\ decoder # 0 /\ renderer # 0 /\ sinks # 0
  /\ worker = "ask" => held = tcp /\ tcp # 0

\* After Shutdown nothing runs and nothing is left but what the next
\* Initialize replaces: no worker, no reader that reads, no socket, and
\* isStreaming_ is not set, which is what keeps a worker of the next
\* Initialize from the control client that Initialize replaces under it.
QuietAfterShutdown ==
  ~initialized /\ pc = "idle" =>
    /\ worker = "off" /\ ~listening /\ lock = "free"
    /\ reader \in {"off", "ended"} /\ ~connected /\ ~isStreaming
    /\ udp = 0 /\ sinks = 0 /\ decoder = 0 /\ renderer = 0

\* Every call of the C interface returns to Dart, Shutdown and Disconnect
\* with their joins among them, unless the decoder hung or the process ended.
CallsReturn == pc # "idle" ~> (pc = "idle" \/ ~Up)
=============================================================================
