# VeyraCam in TLA+

VeyraCam turns a phone into a webcam: the app *VeyraCam* (Android: Kotlin, C++, Flutter)
captures, encodes, seals and sends; the program *VeyraLink* (Windows: C++, Flutter) pairs with
the phone, receives, opens, reassembles and decodes, and shows the picture in a window and a
virtual camera. This directory models that system in TLA+: what is checked with TLC on small
instances, and what is proved with TLAPS for every value of the constants. `PROJECT.json` says
which lines of the repository each definition stands for.

## 1. Inventory

### Parts, their state and their operations

| Part | State | Operations |
|---|---|---|
| `Packetizer`, `FrameReassembler` (`native/core/src/packetizer.cpp`) | frame and packet counters; replay window, pinned session, keyframe gate, pending frames, last emitted frame | `PacketizeFrame`, `PushPacket`, `SetCrypto`, `SetExpectedSessionId`, `Reset` |
| `NativeSenderContext` (`veyra_jni_bridge.cpp`) | key pair, packetizer key, UDP destination | create, destroy, `CompletePairing`, `SetUdpDestination`, `SendVideoNal`, `SendAudioFrame` |
| `UdpTransport`, `PairingManager` (Kotlin) | server socket, control thread; PIN, attempts, lock-out, token | accept, `handleConnection`, `stop`; `startPairing`, `verifyPin`, `isTokenValid`, `reset` |
| `VeyraStreamingService` with `Camera2Controller`, `H264Encoder`, `AudioEngine`, `ThermalController` (Kotlin) | native handle, camera device, lock and thread, codecs and threads, recorder; capture session, request, settings, bitrate, tier | start, roll-back, stop, switch camera, screen changes, destroy; settings, bitrates, tiers |
| Flutter plugin and camera controller of the phone | pending result, retries, `isStreaming`, `isConnecting` | `startStreaming`, `stopStreaming` |
| `ServiceManager`, `TcpControlClient` (`native/windows`) | pairing state, token, key; socket, reader thread | `ConnectDevice`, `DisconnectDevice`, the pairing messages, commands |
| `ServiceManager::Initialize`/`Shutdown`, `IocpUdpServer`, `MFDecoder`, renderer, virtual cameras, jitter buffer | pointers to the parts; UDP worker; decoder mutex; queue | build, receive, decode, draw, take down |
| Desktop controller and `NativeDesktopSession` (Dart) | connection flags, native callback | connect, disconnect, status events, shutdown |
| `VeyraSession`, `AutoTransportManager`, `AdaptiveJitterBuffer` (`native/core`; the session is not yet used by either program) | session state, crypto contexts; transports, active one, preferred mode; queue, keyframe gate | start, stop, pause, resume, `SetCrypto`, commands; register, pin, evaluate, hand over; `PushFrame`, `PopNextFrame`, `Flush` |
| `LockFreeRingBuffer` (`native/core`; used by its test only) | slots, head, tail, drop count | `Push`, `Pop`, `Size`, `Clear` |

### How they interact

    phone                                              PC
    main thread ---- starts/stops ----+                Dart isolate -- C interface --+
    camera, encoder, recording threads|                UDP worker, TCP reader        |
          | SendVideoNal/AudioFrame   |                      |                       |
    NativeSenderContext ==== UDP, sealed ============> FrameReassembler -> decoder -> sinks
    UdpTransport <========== TCP, JSON lines ========> TcpControlClient -> ServiceManager

Calls go down through JNI and the C interface; answers come back as callbacks on other threads
(the camera's, the encoder's, the control thread on the phone; the UDP worker and the TCP reader
on the PC). The key agreed over TCP is the one thing that both channels share.

### What is hard

* the reassembler authenticates and checks for replay **before** it takes its mutex, while the
  control thread clears filter and key;
* packets are lost, duplicated and reordered, fragments of several frames interleave, audio and
  video share one number space, and the phone may start again with counters at zero;
* the PC's pairing drops its mutex between looking at its state and installing a key, and a blocking
  join waits for a thread that may be in a callback;
* five kinds of threads of the phone use one native session that the main thread destroys;
* a start may fail in its middle, the camera may be lost at any time, joins give up after a second;
* the PC's engine is built and freed around raw pointers that two threads use;
* three threads of the phone read and write the camera's session, request, settings and bitrate
  without a lock;
* the ring buffer's producer stores the consumer's index when it overflows;
* `StopSession` clears two buffers one after the other while frames arrive.

The list with source lines is `hazards` in `PROJECT.json`.

### What makes each part correct

* media path: nothing accepted twice, frames whole and in order, the first one a keyframe, a
  bounded number pending;
* pairing: no media in plaintext, both sides agree on key, session and token when the PC says
  "paired", no answer of an old connection counts, calls return, disconnecting is final;
* streaming service: no use of a destroyed session, the camera's lock works, every start is
  answered, the main thread never hangs, a stop or a failed start leaves nothing behind;
* engine of the PC: no use of a freed part, shutting down is complete, calls return;
* camera controls: the encoder is fed whatever the screen does, and no setting or bitrate that was
  replaced comes back;
* core session: no delta frame first, then pictures in order, with a short backlog, never in plaintext, on a live
  link;
* ring buffer: items whole, once and in order, the newest kept, losses counted.

## 2. Modules

| Module | Models | Proofs |
|---|---|---|
| `ReplayFilter` | the sliding window, as operators on a record | `ReplayFilterProofs` |
| `MediaPath` (extends `ReplayFilter`) | sender, network, UDP worker, reassembler | `MediaPathProofs` |
| `KeyAgreement` | abstract: what pairing promises to the media path | (implemented by `ControlPlane`, proved there) |
| `PairingManager` | the phone's PIN, attempts, lock-out and token, as operators on a record | (in `ControlPlaneProofs`) |
| `ControlPlane` (extends `PairingManager`) | isolate, TCP reader, connections, the phone's control thread | `ControlPlaneProofs` |
| `StreamingService` | the phone's service and its threads | `StreamingServiceProofs` |
| `CameraControls` | camera and bitrate of a running stream: settings, screen, heat, camera switch | `CameraControlsProofs` |
| `DesktopEngine` | life cycle of the PC's engine | `DesktopEngineProofs` |
| `TransportManager` | the core library's transports, the active one, pinning and hand-off | (in `VeyraSessionProofs`) |
| `VeyraSession` (extends `TransportManager`) | the core library's receiving session with its jitter buffer | `VeyraSessionProofs` |
| `RingBuffer` | the lock-free ring, producer and consumer | `RingBufferProofs` |
| `MC...` | instances for TLC | |

**MediaPath.** `sender` is `NativeSenderContext` with its packetizer, `net` every packet ever sent
(so that any packet can arrive late, repeatedly or never). `pump` is the UDP worker inside
`PushPacket`: before the mutex come `Examine` and `Decrypt`, which look at `crypto_` once each (if
`SetCrypto` has replaced the context in between, the second look may find the old or the new one), and
`Commit`; one of `DropOtherSession`, `DropUntilKeyframe`, `DropOlder`, `StoreFragment`, `EmitFrame` is the locked
part. `SetCrypto` then `SetExpectedSessionId` is the control thread; `ClearFilter` gives a filter
that is cleared while `Accept` runs every value the race can leave. A payload is where it came from
(stream, session, frame and fragment), a key is a number. The steps in which a key comes about are those
of `KeyAgreement`, which `ControlPlane` shows of the code.

**ControlPlane.** `ui` is the isolate thread inside `ConnectDevice` or `DisconnectDevice` (close,
join, dial, clear), `reader` the TCP reader (`CheckChallenge`, then `InstallKey` after the mutex
was released, then `Respond`), `phone` the control thread and native session, `conns` the two
queues of each connection and who has closed it. After a right PIN the phone takes three steps:
`VerifyResponse` derives the key and arms the packetizer (or fails), `AnswerOk` sends the token,
`ConfigureDestination` opens the UDP socket (or fails, which nobody notices). A key pair or token bears the number of its
connection, a session key is the pair of the two key pairs it was derived from: X25519, HKDF and
ChaCha20-Poly1305 are taken as ideal.

**KeyAgreement** ties the two together. Pairing promises that the PC installs only new keys
and that the phone arms its packetizer only with the key the PC holds, once, and never after it
has started again. `ControlPlane` implements it (`media.key`, `phone.armed`); the pairing steps of
`MediaPath` (`SetCrypto`, `ArmSender`) assume it, so nothing is checked of them there.

**StreamingService.** `main` is the call the main thread is in; each wait (camera lock, joins)
is a step. `cam`, `enc`/`codecs`/`loops`, `audio`/`mic`, `udp`/`ctl`/`port` are the components
with their threads, `calls` the native calls in progress with the handle each has read, `live` the
native sessions that exist. An exception nobody catches sets `dead`: a codec that `stop` has released
throws on the encoder's output thread (between `OnOutputBufferAvailable` and `SendVideoNal`) and on the
recording thread (`UseAudioCodec`). `join(1000)` may always return with the thread still running;
`unjoined` names the threads given up on.

**DesktopEngine.** A part bears the number of the `Initialize` that made it, so that a pointer that
is not the current one is a freed one. `call`/`pc` is the isolate inside the C interface, `worker`
the UDP worker with the part it is calling in `held`, `lock` the reassembler's mutex, which the
worker keeps during the callbacks. A decoder that refuses its media types calls `Shutdown` with
its own mutex held: `down = "hung"`. A reader that was never joined ends the process when its
client is replaced: `down = "terminated"`.

**CameraControls.** `thread` is where the main, control and camera threads are in
`createCaptureSession` (`CreateRead`, `Create`), `applyCameraControls` (`ApplyLoad`, `ApplySession`,
`ApplyValue`, `ApplySubmit`: builder, session and setting are read one after the other), `onConfigured`
(`OnConfigured`, `Build`, apply, `Repeat`), `closeCaptureSession` and `updateBitrate` (`StoreRate`,
`SetCodecRate`), with the values each has read. `openCamera` may be refused or answered by `onOpened`,
`onDisconnected` or `onError`, and an open camera be lost at any time (`OnCameraLost`). `made` and
`pending` are Camera2's side: the newest session, and the `onConfigured` calls still to come. Zoom,
exposure, focus and torch are written and applied in the same way and are one setting, numbered by the
event that set it. Threads write without a lock, so of two settings or bitrates brought at the same time
either may win. The properties are those of a regular register: history variable `asked` has the setting
made last on the controller and those made while another thread had an older one in hand, `ordered` the
bitrates likewise, and nothing else may be in force at rest. `asked` starts anew with the defaults when
`switchCamera` makes a new controller, and a `startStream` with the bitrate of the last one is no order:
that is what the code does (section 6). `clash` names the one race the code loses for good: the screen
changes while `onOpened` is making its session, and the encoder may stay without pictures until the next
change. Without these histories TLC finds each race within seconds.

**TransportManager, VeyraSession.** A link is a transport object; two links may be of one type, and
the second registered replaces the first in the map while the first may stay active. The network
thread carries one frame at a time (it holds the reassembler's mutex): `Receive`, `PushFrame`,
`PopNextFrame`, `Show`. The reassembler is idealised to what `MediaPath` shows of it for a session that
sends video only (frames in order, the first after `Reset` a keyframe or a configuration, which the phone
flags alike); the audio packets that `media_audio` shows to come out as frames are left out here. The application's thread makes every other call; `StopSession`
is three steps, so frames arrive between its flush and its reset. `EvaluateAndHandoff` and
`InitiateHandoff` may be called at any time, which is more than `VeyraSession` lets its users do. A link
is a candidate only if its score is below `Worst`, the 99999 that `bestScore` starts from;
`TransportAssumption` says that no penalty reaches it. The hand-off callback, which runs under the
manager's mutex, is part of the step, as nobody sets one.

**RingBuffer.** Each atomic load and store is a step, but for the two loads at the head of `Push`, of which
the first reads what only the producer itself (and `Clear`) writes; filling and emptying a slot take two, so that a
slot both threads are in becomes `Torn`. History variable `raced` says that two overlaps of an
overflowing `Push` with a `Pop` met in one call (or a `Push` met `Clear`).

## 3. Runs

| Run | Checks | Shows |
|---|---|---|
| `media_path` | `TypeOK`, `PendingIsUseful`, `FrameIntegrity`, `AcceptedOnce`, `KeyframeFirst`, `NoJitterInversion` | hold under loss, duplication, reordering, re-keying, a restart of the phone and the race on the filter |
| `media_audio` | `VideoFramesHoldVideo` | violated: an audio packet is handed to the decoder as a frame |
| `control_plane` | `TypeOK`, `NeverPlaintext`, `PairedMeansAgreed`, `AnswersAreCurrent`, `DisconnectIsFinal`, `CallsReturn`, `ImplementsKeyAgreement` | hold for all interleavings of isolate, reader and phone, with a lost connection and a restart |
| `control_pin` | `ShownPinIsAccepted` | violated: connecting draws a new PIN, the one on the screen is refused |
| `control_reconnect` | `ReconnectIsSafe` | violated: after the phone has closed, connecting again ends the PC's process |
| `service` | `TypeOK`, `NoUseAfterDestroy`, `NoCloseWhileOpening`, `StartAnswered`, `MainReturns` | hold for a stream with a failed start or a camera switch, whether joins give up or not |
| `service_rollback` | `FailedStartLeavesNothing` | violated: the roll-back of a failed start returns before it does anything |
| `service_stop` | `StoppedCompletely` | violated: the encoder's or the recording thread may use the released codec, and the process ends |
| `engine` | `TypeOK`, `NoUseAfterFree`, `QuietAfterShutdown`, `CallsReturn` | hold for two life cycles of the engine |
| `camera_controls` | `TypeOK`, `EncoderFed`, `SettingsShown`, `RateKept` | hold for any three events of users, screen, heat and camera switch, with refused openings and losses of the camera, outside of the race named `clash` |
| `core_session` | `TypeOK`, `StartsWithKeyframe`, `BacklogIsShort`, `ShownInOrder`, `NeverPlaintext`, `LiveAfterEvaluation` | hold for four calls around three frames, with links that come and go |
| `ring_buffer` | `TypeOK`, `PoppedInOrder`, `NewestKept`, `LossesAreCounted` | hold as long as no two overlaps meet in one call |

Each violated property is what a comment, a document or a log line of the repository says; the
quotations are under `findings` in `PROJECT.json`. For each property that holds, a mutated
definition (an operator whose comment begins with "Mutant") is known to break it.

More exceptions are written into properties, because the code does not give more: `NoUseAfterDestroy`
excepts the threads that `join(1000)` gave up on and encoder threads that `switchCamera` replaced without
stopping them (both really may use a destroyed session), `ShownInOrder` lets a configuration overtake
pictures, `FrameIntegrity`
assumes one session that sends video only (`media_audio` shows why for audio; section 6 for sessions), and
those of `CameraControls` and `RingBuffer` allow for the races named in section 2.

### Bounds, and why they are enough

* `media_path`: window of 2 and cap of 1 (64 and 16 in the code), four packets, two frames
  of two fragments, one audio packet, two keys, two sessions: a packet can fall out of the window, a
  frame out of the pending ones, and a fragment can meet one of another session. Counters stay in one
  period of their 32 bits. The theorems lift every other bound.
* `control_plane`: two connections, two phone sessions, one lost connection, two PINs, one command in
  flight. Two connections are what a late answer needs, two sessions a stale session id.
  `MAX_ATTEMPTS = 1` because the PC sends one PIN per connection, so that the lock can be reached
  here; the violation runs use 2.
* `service`: `MaxStarts` counts the starts that do not fail, `MaxMishaps` failed starts and switches
  together: one of each lets a start follow a failed one. `MaxCalls = 1` native call at a time (a
  use after destroy needs one). `MaxTries = 1` retry instead of 5. With about 620,000 states and two
  liveness properties it is the longest run, some minutes.
* `engine`: two life cycles, so that the second `Initialize` meets what the first `Shutdown` left;
  a jitter buffer of two frames (10 in the code) is full after two.
* `camera_controls`: three events, of which any two can overlap and the third repairs or not, and any number of losses of
  the camera; two
  thermal tiers, one of them below every other bitrate, a start bitrate that is no tier's, one bitrate
  asked for that is also the normal tier's.
* `core_session`: four calls (start, stop, and two that interfere; or two registrations, an evaluation
  and a pin), three frames, a queue of four (10 in the code): two frames reach the half at which one is
  let out, the third would pass it, three links of two types, two changes of links,
  penalties that do and do not turn the order of two types around. The two links of one type are
  interchangeable, and symmetry is used for them.
* `ring_buffer`: three slots, six items, one `Clear`: the ring goes round twice and overflows several
  times in the middle of one `Pop`.

### Fairness, and why the code justifies it

* `ControlPlane`: weak fairness of isolate, reader and phone threads: none waits for anything but a
  message or a join, and a closed socket wakes up `recv`. The user and the network owe nothing.
* `StreamingService`: weak fairness of the main and camera threads, and of each encoder thread inside
  its callback (the only thread but the camera's that is joined without a limit); strong fairness of `TryStart` and
  `ReplyDelayed`, which the main looper holds as posted messages and reaches in spite of whatever
  else is posted.
* `DesktopEngine`: weak fairness of the isolate inside native code, of the worker outside `recvfrom` and of its exit once
  the socket is closed; strong fairness of the reader at the reassembler's mutex, and of its end
  after the socket was closed, since what a closed connection had received is finite. Nobody is
  obliged to send a packet or to call.
* `CameraControls`, `VeyraSession` and `RingBuffer` have no liveness property: nothing in them waits.

Deadlock is checked in `ring_buffer`, whose consumer can always look again, and in no other run: an
idle service, a phone without a PC or an engine that was shut down may stop for ever. That nothing waits in vain is what `CallsReturn`, `StartAnswered` and `MainReturns` say.

## 4. Proofs

From `WindowAssumption` (the window is positive) and `BoundsAssumption` (the other constants are
natural numbers, the cap positive), `MediaPathProofs` shows for **every** window, cap and number of
packets, frames, keys and sessions:

* `TypeCorrect`, `FramesAreWhole`, `PendingBounded`: `TypeOK`, `FrameIntegrity`, `PendingIsUseful`;
* `NoReplay`, `GateOpensOnKeyframe`, `FramesInOrder`: the action properties `AcceptedOnce`,
  `KeyframeFirst`, `NoJitterInversion`.

The inductive invariant `IInv` of `MediaPath` adds to them: the filter remembers every sequence number accepted
since it was cleared (`FilterInv`: without it a replay is not refused; the race on the filter keeps
it because a clear also empties `committed`); packets of one frame agree on how it was cut, and a
number is used once in a session (`NetInv`); a pending frame's count is the number of its
fragments (`CountInv`: otherwise "complete" says nothing); behind the gate only keyframes are
collected (`GateInv`: they may become complete after it has opened for a newer one); and each pending
fragment came from a packet of its frame (`SourceInv`). `ReplayFilterProofs` has the facts about the
window (`RememberedIsRefused`: what the filter remembers it refuses, and marking forgets
nothing it does not then refuse as too old).

From `EngineAssumption`, `DesktopEngineProofs` shows for any number of life cycles and any
`maxQueueFrames`: `TypeCorrect`, `PartsOutliveCalls` (`NoUseAfterFree`), `ShutdownIsComplete`
(`QuietAfterShutdown`). The invariant is about where the isolate is in its call: `Stages` (from which
step on the connection is closed, the reader gone, `isStreaming_` clear, the worker joined),
`NoEngine` (what holds between a `Shutdown` and the end of the next `Initialize`), `PartsExist`, and
`Threads` (the worker holds the mutex exactly during callbacks, a reader reads only while connected or
being closed). The argument that matters: `Initialize` starts the UDP worker **before** it replaces
the control client, and what keeps the worker from the client being freed is only that
`DisconnectDevice` cleared `isStreaming_` and had joined or lost the reader before.

From `ControlAssumption` and `PinAssumption`, `ControlPlaneProofs` shows for any number of connections,
phone sessions, PINs, commands in flight and lost connections: `ControlTypeCorrect`,
`PhoneNeverPlaintext`, `PairingAgrees` (`PairedMeansAgreed`), `AnswersCurrent`, `DisconnectFinal`, and
`ControlRefinesKeyAgreement`: every step of pairing is a step of `KeyAgreement` or changes none of its
variables. `HandlePairingChallenge` installs a key without looking at the state again, and lines bear
no number; what saves it is `OneToken` (a connection carries one thing of the pairing at a time:
challenge, the reader at work, response, verdict, then commands only) and `Threads` (the PC's threads
look at the newest connection only, because the isolate joins the reader before it dials again). Neither
is visible in the properties, and none of them is inductive without both. `KeysGrow` makes the keys
new that `KeyAgreement` wants to be new; `SameSession` ties the session the PC expects to the one the
phone streams.

From `SessionAssumption` and `TransportAssumption`, `VeyraSessionProofs` shows for any stream, any
`maxQueueFrames` and any links, types and penalties: `SessionTypeCorrect`, `SessionNeverPlaintext`,
`PacketsReachALiveLink` (`LiveAfterEvaluation`, for penalties below `Worst`), `FirstFrameIsKeyframe`
(never a delta frame first), `BufferNeverDrops`, `FramesShownInOrder` (pictures in order). The last three need the shape of the queue: configurations first, then pictures
by number (`Ordered`), all of them after what was shown and before what the network thread carries
(`Between`), so that the sorted insertion of `PushFrame` puts an entry in front or at the end; never
more than half of the cap and one (`Backlog`); and a keyframe in front until one was let out
(`Startable`).

From `ControlsAssumption`, `CameraControlsProofs` shows for any bitrates, tiers and number of events:
`ControlsTypeCorrect`, `EncoderAlwaysFed`, `SettingsAlwaysShown`, `BitrateKept`. Three threads write
without a lock; what puts the fields right is that sessions come back in the order they were made
(`Sessions`), so that the `onConfigured` of the newest one is the last to write. The invariant says what
is true once no session is being made or pending (`Feeding`), that whatever a thread has read or will
still submit is in `asked` (`Settings`), and that every bitrate in a thread's hands is in `ordered`,
as are field and codec unless such a thread is still to write them (`Rates`).

From `ServiceAssumption`, `StreamingServiceProofs` shows for any number of starts, mishaps, tries and
calls: `ServiceTypeCorrect`, `CameraLockHolds` (`NoCloseWhileOpening`) and `NativeSessionSafe`
(`NoUseAfterDestroy`: of the threads the stop has waited for; none of the three assumes that threads
end within the second of their join). `Places` says where each
call of the main thread may be, `Locked` who holds the camera's lock, `Handles` that the service's handle
is for a session that exists, `Recording` and `Controlling` that only the last start's threads run and
are joined before the session is destroyed, or are named in `unjoined`.

From `RingAssumption` (at least two slots), `RingBufferProofs` shows for every capacity and any number
of pushes and clears: `RingTypeCorrect`, `RingInOrder`, `RingKeepsNewest`, `RingCountsLosses`. `Dist`, the
way from one slot to another round the ring, takes the place of the modulus: the slot `d` places behind
the tail holds the `d`-th last item (`Contents`), also the consumer's slot after a drop has taken it out
of the queue. `Places` has the reason why a single overlap is harmless: with one drop beside a `Pop`, or one
`Pop` beside a drop, both threads store the same head. All but the types is under `~raced`, as
in the properties.

Every inductive invariant was checked by TLC on small instances before it was proved.

**Only model-checked:** everything temporal with fairness (`CallsReturn` of `ControlPlane` and of
`DesktopEngine`, `StartAnswered`, `MainReturns`): liveness under fairness and `ENABLED` are
beyond the proof system used. The five violated properties are refuted by TLC's counterexamples. Every
invariant and action property of the passing runs is also a theorem. The proofs take the bounds
`Max...` as arbitrary natural numbers; that the code has no such bounds is not lost, since each
behaviour of finite length is one of an instance.

## 5. Not modelled

* the primitives of `crypto.cpp`, H.264, Media Foundation, Direct3D, COM: taken as working;
* layout of packets and JSON, telemetry, logging, widgets, settings, notifications, wake locks;
* Bluetooth and USB beyond their start and stop: the phone opens and closes both transports with the
  service (`links` in `StreamingService`), and no media goes through them yet; Wi-Fi Direct and the
  PC's side of Bluetooth and USB are not called by the engine;
* wrap-around of 32-bit counters (years at 30 frames per second);
* the datagram filter by address: the model has one phone;
* `MemoryPool`: a free list under one mutex, without a caller; `Telemetry`: sums and JSON text;
  `UpdateNetworkStats` of the jitter buffer, which nobody calls;
* in `CameraControls`: `onConfigureFailed` (it only logs), a camera that is closed between `onOpened`'s
  release of the lock and its store of the device, and the stop of the stream; `StreamingService` has all three;
* the unsynchronised copy of the shared pointer `crypto_` beyond which context it yields;
* `win32_window.cpp` and its neighbours, which Flutter generates.

## 6. Where code and documents differ

Those that a run shows are under `findings`. Others met while modelling, which no run asks about:

* re-pairing keeps the pending frames (`packetizer.cpp:199`), so fragments of the session before can
  complete a frame of the new one, although "packet from a different session -> drop" (line 270);
* a keyframe that lost a fragment is given up without `REQUEST_IDR` (`packetizer.cpp:325`; specification
  000, line 670);
* the end of every connection resets the `PairingManager` (`UdpTransport.kt:158`), and the PC sends one
  PIN per connection: "5 wrong PINs -> LOCKED" (`PairingManager.kt:14`) is never reached from the PC;
* torch and camera switch moved on the PC have no operation code on the phone and are ignored
  (`UdpTransport.kt:135-147`; README line 89 has them);
* of a thermal recommendation only the bitrate is used, not size and rate (README line 79), the comment
  on `ThermalTier` gives other numbers than `applyTier`, and a bitrate ordered by the PC replaces the
  tier's until the tier changes;
* `startStream` is compared with `currentBitrateBps`, which `setBitrate` and heat do not update: asking
  for the first bitrate again is ignored (`VeyraStreamingService.kt:291`);
* `switchCamera` makes a new controller with default zoom, exposure, focus and torch, while both user
  interfaces keep showing theirs;
* `VeyraSession` never calls `EvaluateAndHandoff`: when its active link dies it stays on it (README line
  86; specification 000, section 8.7). A pin to a type that connects later is not applied then;
* after `StopSession` has returned, frames that came in between its flush and its reset are in the
  jitter buffer, and nothing on the frame path looks at the session's state: they are shown. Frames
  leave the jitter buffer only when another enters, so `maxDelayMs` bounds nothing when frames stop;
* `StartSession` with encryption after `SetCrypto(nullptr)` dereferences the null pointer;
* in the ring buffer, a `Pop` whose two loads are around a drop may find a full ring empty, an item may be
  counted as dropped and delivered, and two overlaps in one call may tear or repeat items.

## 7. How to run

In this directory: `tlc -config MediaPath.cfg MCMediaPath` and likewise for the other
configurations (`PROJECT.json` names the module of each); `tlapm MediaPathProofs.tla` and likewise for the
other seven `...Proofs` modules. `ControlPlaneProofs` and `StreamingServiceProofs` take longest, some
minutes each.

## 8. Plan

Done, in this order: media path; key agreement; control plane with pairing; streaming service; engine of
the PC; proofs of the first and the last; ring buffer; core session with transports and jitter buffer;
camera controls with heat; proofs about all of them.

Next:

1. Facts the proofs use and no property says yet, worth stating as properties of their own: that the
   lines on a connection follow the protocol (`OneToken`), that a thread of the phone's encoder outlives
   its service only after `switchCamera`.
2. The safety half of `CallsReturn` and `MainReturns`, which can be proved: whoever is waited for in a join
   or for a lock stands at a step whose guard holds, so that nobody waits for someone who waits.
