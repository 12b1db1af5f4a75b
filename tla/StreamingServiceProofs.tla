----------------------- MODULE StreamingServiceProofs -----------------------
(***************************************************************************)
(* Proofs about StreamingService, for any number of starts, mishaps, tries *)
(* and calls.                                                              *)
(*                                                                         *)
(* The main thread does one thing after the other, so most of the argument *)
(* is where it is: a call that stops the service passes by the join of the *)
(* recording thread and of the control thread before it destroys the       *)
(* native session, and no call that starts it comes by without a stop that *)
(* went to its end, or a start that failed before there was a thread.      *)
(***************************************************************************)
EXTENDS StreamingService, TLAPS

StartPcs  == {"native", "encoder", "camera", "audio", "transports"}
ClosePcs  == {"close", "surface", "joinCamera"}
StopPcs   == {"stopEncoder", "joinEncoder", "stopAudio", "releaseAudio", "joinAudio", "stopUdp",
              "joinUdp", "stopBluetooth", "stopUsb", "destroy", "return"}
StopCalls == {"stop", "halt", "destroy"}

\* Where each call of the main thread may be, and isStreaming meanwhile.
Places ==
  /\ \/ main.call = "none" /\ main.pc = "idle"
     \/ main.call = "reply" /\ main.pc = "reply"
     \/ main.call = "start" /\ main.pc \in StartPcs /\ svc.isStreaming = TRUE
     \/ main.call = "switch" /\ main.pc \in ClosePcs \cup {"restart", "camera"}
     \/ main.call \in StopCalls /\ main.pc \in ClosePcs \cup StopPcs /\ svc.isStreaming = FALSE
  /\ svc.instance = FALSE => svc.isStreaming = FALSE

\* cameraOpenCloseLock: held while the camera is being opened and while it is
\* being closed; onDisconnected and onError release it once more than it was taken.
Locked ==
  /\ cam.os = "opening" => cam.lock = 0 /\ main.pc # "surface"
  /\ cam.os = "open" => cam.lock = IF main.pc = "surface" THEN 0 ELSE 1
  /\ cam.os = "closed" => cam.lock \in IF main.pc = "surface" THEN {0, 1} ELSE {1, 2}

\* An encoder that is being started, or will be by the switch that is under way.
Encoding == main.pc = "encoder" \/ (main.call = "switch" /\ main.pc # "camera")

\* The bounds leave room for what is under way.
Bounded ==
  /\ count.failed <= count.mishaps /\ count.starts <= MaxStarts + count.failed
  /\ main.pc = "native" \/ (app.start = "trying" /\ svc.isStreaming = FALSE) =>
       count.starts < MaxStarts + count.failed
  /\ count.encoders + (IF Encoding THEN 1 ELSE 0) + count.failed + count.failed
       <= count.starts + count.mishaps

\* The encoder's own threads live, and none runs while the last one is joined.
Looping ==
  /\ enc.threads \subseteq loops /\ enc.thread \in enc.threads \cup {0}
  /\ main.pc = "joinEncoder" => enc.threads \cap running = {}

\* The service's handle is for a session that exists, and the encoder threads that
\* are in a callback live.
Handles ==
  /\ svc.nativeHandle = 0 \/ svc.nativeHandle \in live
  /\ ready \subseteq loops
  /\ \A c \in calls : c.thread[1] = "video" => c.thread[2] \in loops

\* The main thread is where there is neither a recorder nor a control server.
Resting ==
  \/ main.pc \in {"native", "encoder", "audio", "stopBluetooth", "stopUsb", "destroy", "return"}
  \/ main.pc = "camera" /\ main.call = "start"
  \/ main.call \in {"none", "reply", "switch"} /\ svc.isStreaming = FALSE

\* A join(1000) gave up on the thread.
Abandoned(kind, n) == <<kind, n>> \in unjoined

\* Of the recording threads that are not abandoned, only that of the last start is
\* there, and only with its engine or while stop waits for it.
Recording ==
  /\ audio.n \in {0, count.starts}
  /\ main.pc = "joinAudio" => count.starts # 0
  /\ \A n \in Starts : mic[n] # "off" =>
       Abandoned("audio", n) \/ (n = count.starts /\ (audio.n = n \/ main.pc = "joinAudio"))
  /\ Resting \/ main.pc \in {"joinAudio", "stopUdp", "joinUdp"} => audio.n = 0
  /\ \A c \in calls : c.thread[1] = "audio" =>
       \/ Abandoned("audio", c.thread[2])
       \/ mic[c.thread[2]] = "sending" /\ c.handle = svc.nativeHandle

\* Of the control threads that are not abandoned, only the server's is there.
Controlling ==
  /\ udp.n \in {0, count.starts}
  /\ \A n \in Starts : ctl[n] # "off" => Abandoned("control", n) \/ udp.n = n
  /\ Resting \/ main.pc = "transports" => udp.n = 0
  /\ \A c \in calls : c.thread[1] = "control" =>
       \/ Abandoned("control", c.thread[2])
       \/ ctl[c.thread[2]] = "pairing" /\ c.handle = svc.nativeHandle

IInv ==
  /\ TypeOK /\ Places /\ Locked /\ Bounded /\ Looping /\ Handles
  /\ Recording /\ Controlling

-----------------------------------------------------------------------------
(* What a step leaves alone *)

\* The lock, outside closeCamera.
LEMMA LockedKept ==
  ASSUME Locked, UNCHANGED cam, (main.pc = "surface") <=> (main'.pc = "surface")
  PROVE  Locked'
BY DEF Locked

\* The bounds, in a step that begins nothing.
LEMMA BoundedKept ==
  ASSUME Bounded, UNCHANGED count, app'.start = app.start, svc'.isStreaming = svc.isStreaming,
         main'.pc # "native", Encoding' <=> Encoding
  PROVE  Bounded'
BY DEF Bounded

\* The encoder's threads.
LEMMA LoopingKept ==
  ASSUME Looping, UNCHANGED <<enc, loops, running>>, main'.pc = "joinEncoder" => main.pc = "joinEncoder"
  PROVE  Looping'
BY DEF Looping

\* The handle and the encoder threads in native code.
LEMMA HandlesKept ==
  ASSUME Handles, UNCHANGED <<live, loops, ready, calls>>, svc'.nativeHandle = svc.nativeHandle
  PROVE  Handles'
BY DEF Handles

\* The recording thread.
LEMMA RecordingKept ==
  ASSUME Recording, UNCHANGED <<mic, calls>>, unjoined \subseteq unjoined', audio'.n = audio.n,
         count'.starts = count.starts, svc'.nativeHandle = svc.nativeHandle,
         main.pc = "joinAudio" <=> main'.pc = "joinAudio",
         Resting' \/ main'.pc \in {"joinAudio", "stopUdp", "joinUdp"} =>
           Resting \/ main.pc \in {"joinAudio", "stopUdp", "joinUdp"}
  PROVE  Recording'
<1>1. \A n : Abandoned("audio", n) => Abandoned("audio", n)'
  BY DEF Abandoned
<1> QED
  BY <1>1 DEF Recording

\* The control thread.
LEMMA ControllingKept ==
  ASSUME Controlling, UNCHANGED <<ctl, calls>>, unjoined \subseteq unjoined', udp'.n = udp.n,
         count'.starts = count.starts, svc'.nativeHandle = svc.nativeHandle,
         Resting' \/ main'.pc = "transports" => Resting \/ main.pc = "transports"
  PROVE  Controlling'
<1>1. \A n : Abandoned("control", n) => Abandoned("control", n)'
  BY DEF Abandoned
<1> QED
  BY <1>1 DEF Controlling

-----------------------------------------------------------------------------
(* The camera's thread *)

\* A step of the camera's thread disturbs nothing but the camera.
LEMMA CameraStep ==
  ASSUME IInv, CameraUnchanged, app' \in Apps, app'.start = app.start, cam' \in Cameras, Locked'
  PROVE  IInv'
<1> USE DEF IInv
<1>1. /\ UNCHANGED <<svc, main, enc, codecs, loops, running, ready, audio, mic, udp, ctl, port, links>>
      /\ UNCHANGED <<calls, live, receivers, lost, unjoined, count, dead>>
  BY DEF CameraUnchanged, encoderVars, audioVars, udpVars, nativeVars, history
<1>2. TypeOK'
  BY <1>1 DEF TypeOK
<1>3. Places' /\ (Encoding' <=> Encoding) /\ (Resting' <=> Resting)
  BY <1>1 DEF Places, Encoding, Resting
<1>4. Looping' /\ Handles'
  BY <1>1, LoopingKept, HandlesKept
<1>5. Bounded'
  BY <1>1, <1>3 DEF Bounded
<1>6. Recording' /\ Controlling'
  BY <1>1, <1>3, RecordingKept, ControllingKept
<1> QED
  BY <1>2, <1>3, <1>4, <1>5, <1>6

\* onOpened, its three steps.
LEMMA OnOpenedStep == IInv /\ (OnOpened \/ StoreDevice \/ CreateCaptureSession) => IInv'
<1> SUFFICES ASSUME IInv, OnOpened \/ StoreDevice \/ CreateCaptureSession PROVE IInv'
  OBVIOUS
<1>1. app \in Apps /\ cam \in Cameras /\ Locked
  BY DEF IInv, TypeOK
<1>2. UNCHANGED app /\ CameraUnchanged
  BY DEF OnOpened, StoreDevice, CreateCaptureSession
<1>3. main' = main
  BY <1>2 DEF CameraUnchanged
<1>4. CASE OnOpened
  <2>1. cam.os = "opening" /\ cam.lock = 0 /\ main.pc # "surface"
    BY <1>1, <1>4 DEF OnOpened, Locked
  <2> DEFINE l == cam.lock + 1
  <2>2. cam' = [cam EXCEPT !.lock = l, !.os = "open", !.thread = "opened"]
    BY <1>4 DEF OnOpened
  <2>3. l \in 0 .. 2 /\ l = 1
    BY <2>1
  <2> HIDE DEF l
  <2>4. cam' \in Cameras /\ cam'.os = "open" /\ cam'.lock = l
    BY <1>1, <2>2, <2>3 DEF Cameras
  <2>5. Locked'
    BY <1>3, <2>1, <2>3, <2>4 DEF Locked
  <2> QED
    BY <1>1, <1>2, <2>4, <2>5, CameraStep
<1>5. CASE StoreDevice \/ CreateCaptureSession
  <2>1. cam' \in Cameras /\ cam'.os = cam.os /\ cam'.lock = cam.lock
    <3>1. CASE StoreDevice
      BY <1>1, <3>1 DEF StoreDevice, Cameras
    <3>2. CASE CreateCaptureSession
      <4>1. \/ cam' = [cam EXCEPT !.thread = "idle", !.session = "configuring",
                                  !.notify = cam.starting, !.starting = FALSE]
            \/ cam' = [cam EXCEPT !.thread = "idle"]
        BY <3>2 DEF CreateCaptureSession
      <4> QED
        BY <1>1, <4>1 DEF Cameras
    <3> QED
      BY <1>5, <3>1, <3>2
  <2>2. Locked'
    BY <1>1, <1>3, <2>1 DEF Locked
  <2> QED
    BY <1>1, <1>2, <2>1, <2>2, CameraStep
<1> QED
  BY <1>4, <1>5

\* onDisconnected and onError.
LEMMA OnCameraLostStep == IInv /\ OnCameraLost => IInv'
<1> SUFFICES ASSUME IInv, OnCameraLost PROVE IInv'
  OBVIOUS
<1>1. app \in Apps /\ cam \in Cameras /\ Locked
  BY DEF IInv, TypeOK
<1>2. UNCHANGED app /\ CameraUnchanged /\ main' = main
  BY DEF OnCameraLost, CameraUnchanged
<1>3. cam.os \in {"open", "opening"} /\ cam.lock \in {0, 1}
  BY <1>1 DEF OnCameraLost, Locked, Cameras
<1> DEFINE l == cam.lock + 1
<1>4. cam' = [cam EXCEPT !.lock = l, !.os = "closed", !.device = FALSE, !.session = "none"]
  BY DEF OnCameraLost
<1>5. l \in 0 .. 2 /\ l = cam.lock + 1
  BY <1>3
<1> HIDE DEF l
<1>6. cam' \in Cameras /\ cam'.os = "closed" /\ cam'.lock = l
  BY <1>1, <1>4, <1>5 DEF Cameras
<1>7. Locked'
  BY <1>1, <1>2, <1>3, <1>5, <1>6 DEF Locked
<1> QED
  BY <1>1, <1>2, <1>6, <1>7, CameraStep

\* A reply, to Dart's call.
LEMMA RepliedEffect ==
  ASSUME app \in Apps, NEW shown \in BOOLEAN, NEW s \in {"none", "trying", "posted"},
         Replied(shown, s)
  PROVE  app' \in Apps /\ app'.start = s
<1>1. 0 \in 0 .. MaxTries
  BY ServiceAssumption
<1> QED
  BY <1>1 DEF Replied, Apps

\* The rest of the camera's thread, and the screen.
LEMMA CameraThreadStep ==
  IInv /\ (OnConfigured \/ OnConfigureFailed \/ OnStarted \/ CameraThreadExits \/ ScreenChanged)
    => IInv'
<1> SUFFICES ASSUME IInv, OnConfigured \/ OnConfigureFailed \/ OnStarted \/ CameraThreadExits
                            \/ ScreenChanged
             PROVE  IInv'
  OBVIOUS
<1>1. app \in Apps /\ cam \in Cameras /\ Locked
  BY DEF IInv, TypeOK
<1>2. CameraUnchanged /\ main' = main
  BY DEF OnConfigured, OnConfigureFailed, OnStarted, CameraThreadExits, ScreenChanged,
         CameraUnchanged
<1>3. app' \in Apps /\ app'.start = app.start
  <2>1. app.start \in {"none", "trying", "posted"}
    BY <1>1 DEF Apps
  <2>2. CASE OnStarted
    BY <1>1, <2>1, <2>2, RepliedEffect DEF OnStarted
  <2>3. CASE ~OnStarted
    BY <1>1, <2>3 DEF OnConfigured, OnConfigureFailed, CameraThreadExits, ScreenChanged
  <2> QED
    BY <2>2, <2>3
<1>4. cam' \in Cameras /\ cam'.os = cam.os /\ cam'.lock = cam.lock
  <2>1. CASE OnConfigured
    <3> DEFINE s == IF cam.device THEN "active" ELSE "none"
               t == IF cam.device /\ cam.notify /\ ~app.replied THEN "reply" ELSE "idle"
    <3>1. cam' = [cam EXCEPT !.session = s, !.thread = t, !.notify = FALSE]
      BY <2>1 DEF OnConfigured
    <3>2. s \in {"active", "none"} /\ t \in {"reply", "idle"}
      OBVIOUS
    <3> HIDE DEF s, t
    <3> QED
      BY <1>1, <3>1, <3>2 DEF Cameras
  <2>2. CASE OnConfigureFailed \/ OnStarted \/ CameraThreadExits
    BY <1>1, <2>2 DEF OnConfigureFailed, OnStarted, CameraThreadExits, Cameras
  <2>3. CASE ScreenChanged
    BY <1>1, <2>3 DEF ScreenChanged, Cameras
  <2> QED
    BY <2>1, <2>2, <2>3
<1>5. Locked'
  BY <1>1, <1>2, <1>4 DEF Locked
<1> QED
  BY <1>2, <1>3, <1>4, <1>5, CameraStep

-----------------------------------------------------------------------------
(* The threads that call native code *)

\* A thread goes into native code with the handle of now.
LEMMA EnteredEffect ==
  ASSUME TypeOK, NEW kind \in {"video", "audio", "control"}, NEW n \in Starts,
         svc.nativeHandle # 0, Entered(kind, n)
  PROVE  /\ calls' \subseteq NativeCalls
         /\ \A c \in calls' : \/ c \in calls
                              \/ c.thread[1] = kind /\ c.thread[2] = n /\ c.handle = svc.nativeHandle
<1>1. svc.nativeHandle \in Starts /\ calls \subseteq NativeCalls
  BY DEF TypeOK, Services
<1> DEFINE d == Call(kind, n)
<1>2. d \in NativeCalls /\ d.thread[1] = kind /\ d.thread[2] = n /\ d.handle = svc.nativeHandle
  BY <1>1 DEF Call, NativeCalls
<1>3. calls' = calls \cup {d}
  BY DEF Entered
<1> HIDE DEF d
<1> QED
  BY <1>1, <1>2, <1>3

\* A thread comes back from native code.
LEMMA LeftEffect ==
  ASSUME TypeOK, NEW kind \in {"video", "audio", "control"}, NEW n \in Starts, Left(kind, n)
  PROVE  calls' \subseteq calls /\ \A c \in calls' : c.thread[1] = kind => c.thread[2] # n
<1>1. calls' = {c \in calls : c.thread # <<kind, n>>} /\ calls \subseteq NativeCalls
  BY DEF Left, TypeOK
<1>2. ASSUME NEW c \in NativeCalls, c.thread[1] = kind, c.thread[2] = n PROVE c.thread = <<kind, n>>
  <2>1. c.thread \in {"video", "audio", "control"} \X Starts
    BY DEF NativeCalls
  <2> QED
    BY <1>2, <2>1
<1> QED
  BY <1>1, <1>2

\* What the invariant says of the native calls.
CallsKept ==
  /\ calls' \subseteq NativeCalls
  /\ \A c \in calls' : c.thread[1] = "video" => c.thread[2] \in loops
  /\ \A c \in calls' :
       /\ c.thread[1] = "audio" =>
            \/ Abandoned("audio", c.thread[2])
            \/ mic'[c.thread[2]] = "sending" /\ c.handle = svc.nativeHandle
       /\ c.thread[1] = "control" =>
            \/ Abandoned("control", c.thread[2])
            \/ ctl'[c.thread[2]] = "pairing" /\ c.handle = svc.nativeHandle

\* A step of such a thread: it may go on or leave.
LEMMA ThreadStep ==
  ASSUME IInv, CallsKept, ready' \subseteq loops,
         UNCHANGED <<app, svc, main, cam, enc, codecs, loops, running, audio, udp, links>>,
         UNCHANGED <<live, receivers, lost, unjoined, count>>, dead' \in BOOLEAN, port' \in Starts \cup {0},
         mic' \in [Starts -> {"off", "top", "codec", "sending"}],
         ctl' \in [Starts -> {"off", "starting", "accepting", "pairing", "serving"}],
         \A n \in Starts : mic[n] = "off" => mic'[n] = "off",
         \A n \in Starts : ctl[n] = "off" => ctl'[n] = "off"
  PROVE  IInv'
<1> USE DEF IInv
<1>1. TypeOK'
  BY DEF TypeOK, CallsKept
<1>2. Places' /\ (Encoding' <=> Encoding) /\ (Resting' <=> Resting)
  BY DEF Places, Encoding, Resting
<1>3. Looping' /\ Locked'
  BY LoopingKept, LockedKept
<1>4. Handles'
  BY DEF Handles, CallsKept
<1>5. Bounded'
  BY <1>2 DEF Bounded
<1>6. \A k, n : Abandoned(k, n)' <=> Abandoned(k, n)
  BY DEF Abandoned
<1>7. Recording'
  BY <1>2, <1>6 DEF Recording, CallsKept
<1>8. Controlling'
  BY <1>2, <1>6 DEF Controlling, CallsKept
<1> QED
  BY <1>1, <1>2, <1>3, <1>4, <1>5, <1>7, <1>8

\* The calls there are, seen as what CallsKept asks for.
LEMMA CallsNow ==
  ASSUME IInv
  PROVE  /\ calls \subseteq NativeCalls
         /\ \A c \in calls : c.thread[1] = "video" => c.thread[2] \in loops
         /\ \A c \in calls :
              /\ c.thread[1] = "audio" =>
                   \/ Abandoned("audio", c.thread[2])
                   \/ mic[c.thread[2]] = "sending" /\ c.handle = svc.nativeHandle
              /\ c.thread[1] = "control" =>
                   \/ Abandoned("control", c.thread[2])
                   \/ ctl[c.thread[2]] = "pairing" /\ c.handle = svc.nativeHandle
         /\ \A c \in NativeCalls : c.thread[2] \in Starts
         /\ ready \subseteq loops
<1>1. calls \subseteq NativeCalls
  BY DEF IInv, TypeOK
<1>2. (\A c \in calls : c.thread[1] = "video" => c.thread[2] \in loops) /\ ready \subseteq loops
  BY DEF IInv, Handles
<1>3. \A c \in calls : c.thread[1] = "audio" =>
        \/ Abandoned("audio", c.thread[2])
        \/ mic[c.thread[2]] = "sending" /\ c.handle = svc.nativeHandle
  BY DEF IInv, Recording
<1>4. \A c \in calls : c.thread[1] = "control" =>
        \/ Abandoned("control", c.thread[2])
        \/ ctl[c.thread[2]] = "pairing" /\ c.handle = svc.nativeHandle
  BY DEF IInv, Controlling
<1>5. \A c \in NativeCalls : c.thread[2] \in Starts
  BY DEF NativeCalls
<1> QED
  BY <1>1, <1>2, <1>3, <1>4, <1>5

\* onOutputBufferAvailable.
LEMMA EncoderThreadStep == ASSUME IInv, NEW n \in Starts, EncoderThread(n) PROVE IInv'
<1>1. /\ UNCHANGED <<app, svc, main, cam, enc, codecs, loops, running, audio, mic, udp, ctl, port>>
      /\ UNCHANGED <<links, live, receivers, lost, unjoined, count>>
  BY DEF EncoderThread, OnOutputBufferAvailable, SendVideoNal, SentVideoNal, EncoderUnchanged,
         audioVars, udpVars, history
<1>2. TypeOK /\ dead \in BOOLEAN
  BY DEF IInv, TypeOK
<1>3. CallsKept /\ ready' \subseteq loops /\ dead' \in BOOLEAN
  <2>1. CASE SendVideoNal(n) /\ svc.nativeHandle # 0 /\ Entered("video", n) /\ dead' = dead
    <3>1. n \in loops /\ ready' \subseteq loops
      BY <2>1, CallsNow DEF SendVideoNal
    <3>2. /\ calls' \subseteq NativeCalls
          /\ \A c \in calls' : c \in calls \/ (c.thread[1] = "video" /\ c.thread[2] = n)
      BY <1>2, <2>1, EnteredEffect
    <3>3. \A c \in calls' : c.thread[1] = "video" => c.thread[2] \in loops
      BY <3>1, <3>2, CallsNow
    <3>4. \A c \in calls' : c.thread[1] \in {"audio", "control"} => c \in calls
      BY <3>2
    <3>5. mic' = mic /\ ctl' = ctl
      BY <1>1
    <3> QED
      BY <1>2, <2>1, <3>1, <3>2, <3>3, <3>4, <3>5, CallsNow DEF CallsKept
  <2>2. CASE SentVideoNal(n)
    <3>1. calls' \subseteq calls /\ ready' = ready /\ dead' = dead
      BY <1>2, <2>2, LeftEffect DEF SentVideoNal
    <3> QED
      BY <1>1, <1>2, <3>1, CallsNow DEF CallsKept
  <2>3. CASE calls' = calls /\ ready' \subseteq ready \cup (loops \cap {n}) /\ dead' \in BOOLEAN
    BY <1>1, <2>3, CallsNow DEF CallsKept
  <2>4. CASE OnOutputBufferAvailable(n)
    BY <1>2, <2>3, <2>4 DEF OnOutputBufferAvailable
  <2>5. CASE SendVideoNal(n)
    BY <1>2, <2>1, <2>3, <2>5 DEF SendVideoNal
  <2> QED
    BY <2>2, <2>4, <2>5 DEF EncoderThread
<1>4. /\ port \in Starts \cup {0}
      /\ mic \in [Starts -> {"off", "top", "codec", "sending"}]
      /\ ctl \in [Starts -> {"off", "starting", "accepting", "pairing", "serving"}]
  BY <1>2 DEF TypeOK
<1> QED
  BY <1>1, <1>3, <1>4, ThreadStep

\* processAudioLoop.
LEMMA AudioThreadStep == ASSUME IInv, NEW n \in Starts, AudioThread(n) PROVE IInv'
<1>1. /\ UNCHANGED <<app, svc, main, cam, enc, codecs, loops, running, ready, audio, udp, ctl, port>>
      /\ UNCHANGED <<links, live, receivers, lost, unjoined, count>>
  BY DEF AudioThread, AudioLoop, UseAudioCodec, SentAudioFrame, AudioUnchanged, encoderVars,
         udpVars, history
<1>2. /\ TypeOK /\ dead \in BOOLEAN /\ port \in Starts \cup {0} /\ ready' \subseteq loops
      /\ mic \in [Starts -> {"off", "top", "codec", "sending"}]
      /\ ctl \in [Starts -> {"off", "starting", "accepting", "pairing", "serving"}]
  BY <1>1, CallsNow DEF IInv, TypeOK
<1>3. ASSUME NEW x \in {"off", "top", "codec", "sending"}, mic' = [mic EXCEPT ![n] = x]
      PROVE  /\ mic' \in [Starts -> {"off", "top", "codec", "sending"}] /\ mic'[n] = x
             /\ \A u \in Starts : u # n => mic'[u] = mic[u]
  BY <1>2, <1>3
<1>4. CASE AudioLoop(n)
  <2> DEFINE x == IF audio.n = n /\ audio.isRunning THEN "codec" ELSE "off"
  <2>1. /\ mic[n] = "top" /\ mic' = [mic EXCEPT ![n] = x] /\ UNCHANGED <<calls, dead>>
    BY <1>4 DEF AudioLoop
  <2>2. x \in {"off", "top", "codec", "sending"}
    OBVIOUS
  <2> HIDE DEF x
  <2>3. /\ mic' \in [Starts -> {"off", "top", "codec", "sending"}]
        /\ \A u \in Starts : u # n => mic'[u] = mic[u]
    BY <1>3, <2>1, <2>2
  <2>4. CallsKept
    BY <1>1, <2>1, <2>3, CallsNow DEF CallsKept
  <2> QED
    BY <1>1, <1>2, <2>1, <2>3, <2>4, ThreadStep
<1>5. CASE UseAudioCodec(n)
  <2>1. CASE dead' = TRUE /\ UNCHANGED <<mic, calls>>
    <3>1. CallsKept
      BY <1>1, <2>1, CallsNow DEF CallsKept
    <3> QED
      BY <1>1, <1>2, <2>1, <3>1, ThreadStep
  <2>2. CASE /\ mic[n] = "codec" /\ svc.nativeHandle # 0 /\ mic' = [mic EXCEPT ![n] = "sending"]
             /\ Entered("audio", n) /\ UNCHANGED dead
    <3>1. /\ mic' \in [Starts -> {"off", "top", "codec", "sending"}] /\ mic'[n] = "sending"
          /\ \A u \in Starts : u # n => mic'[u] = mic[u]
      BY <1>3, <2>2
    <3>2. /\ calls' \subseteq NativeCalls
          /\ \A c \in calls' :
               \/ c \in calls
               \/ c.thread[1] = "audio" /\ c.thread[2] = n /\ c.handle = svc.nativeHandle
      BY <1>2, <2>2, EnteredEffect
    <3>3. CallsKept
      BY <1>1, <3>1, <3>2, CallsNow DEF CallsKept
    <3> QED
      BY <1>1, <1>2, <2>2, <3>1, <3>3, ThreadStep
  <2>3. CASE mic[n] = "codec" /\ mic' = [mic EXCEPT ![n] = "top"] /\ UNCHANGED <<calls, dead>>
    <3>1. /\ mic' \in [Starts -> {"off", "top", "codec", "sending"}] /\ mic'[n] = "top"
          /\ \A u \in Starts : u # n => mic'[u] = mic[u]
      BY <1>3, <2>3
    <3>2. CallsKept
      BY <1>1, <2>3, <3>1, CallsNow DEF CallsKept
    <3> QED
      BY <1>1, <1>2, <2>3, <3>1, <3>2, ThreadStep
  <2> QED
    BY <1>5, <2>1, <2>2, <2>3 DEF UseAudioCodec
<1>6. CASE SentAudioFrame(n)
  <2>1. mic[n] = "sending" /\ mic' = [mic EXCEPT ![n] = "codec"] /\ Left("audio", n) /\ dead' = dead
    BY <1>6 DEF SentAudioFrame
  <2>2. /\ mic' \in [Starts -> {"off", "top", "codec", "sending"}] /\ mic'[n] = "codec"
        /\ \A u \in Starts : u # n => mic'[u] = mic[u]
    BY <1>3, <2>1
  <2>3. calls' \subseteq calls /\ \A c \in calls' : c.thread[1] = "audio" => c.thread[2] # n
    BY <1>2, <2>1, LeftEffect
  <2>4. CallsKept
    BY <1>1, <2>2, <2>3, CallsNow DEF CallsKept
  <2> QED
    BY <1>1, <1>2, <2>1, <2>2, <2>4, ThreadStep
<1> QED
  BY <1>4, <1>5, <1>6 DEF AudioThread

\* handleConnection may go into native code, with the handle it reads.
LEMMA PairKeeps ==
  ASSUME IInv, NEW n \in Starts, Pair(n), ctl[n] \in {"accepting", "serving"},
         UNCHANGED <<loops, svc, mic>>
  PROVE  /\ CallsKept /\ ctl' \in [Starts -> {"off", "starting", "accepting", "pairing", "serving"}]
         /\ \A u \in Starts : ctl[u] = "off" => ctl'[u] = "off"
<1>1. TypeOK /\ ctl \in [Starts -> {"off", "starting", "accepting", "pairing", "serving"}]
  BY DEF IInv, TypeOK
<1>2. CASE svc.nativeHandle # 0
  <2>1. ctl' = [ctl EXCEPT ![n] = "pairing"] /\ Entered("control", n)
    BY <1>2 DEF Pair
  <2>2. /\ ctl' \in [Starts -> {"off", "starting", "accepting", "pairing", "serving"}]
        /\ ctl'[n] = "pairing" /\ \A u \in Starts : u # n => ctl'[u] = ctl[u]
    BY <1>1, <2>1
  <2>3. /\ calls' \subseteq NativeCalls
        /\ \A c \in calls' :
             \/ c \in calls
             \/ c.thread[1] = "control" /\ c.thread[2] = n /\ c.handle = svc.nativeHandle
    BY <1>1, <1>2, <2>1, EnteredEffect
  <2>4. CallsKept
    BY <2>2, <2>3, CallsNow DEF CallsKept
  <2> QED
    BY <2>2, <2>4
<1>3. CASE svc.nativeHandle = 0
  <2>1. ctl' = [ctl EXCEPT ![n] = "serving"] /\ calls' = calls
    BY <1>3 DEF Pair
  <2>2. /\ ctl' \in [Starts -> {"off", "starting", "accepting", "pairing", "serving"}]
        /\ ctl'[n] = "serving" /\ \A u \in Starts : u # n => ctl'[u] = ctl[u]
    BY <1>1, <2>1
  <2>3. CallsKept
    BY <2>1, <2>2, CallsNow DEF CallsKept
  <2> QED
    BY <2>2, <2>3
<1> QED
  BY <1>2, <1>3

\* The control server's thread.
LEMMA ControlThreadStep == ASSUME IInv, NEW n \in Starts, ControlThread(n) PROVE IInv'
<1>1. /\ UNCHANGED <<app, svc, main, cam, enc, codecs, loops, running, ready, audio, mic, udp>>
      /\ UNCHANGED <<links, live, receivers, lost, unjoined, count, dead>>
  BY DEF ControlThread, Bind, Accept, CompletePairing, PairingReturns, ConnectionEnds,
         ControlUnchanged, encoderVars, audioVars, history
<1>2. /\ TypeOK /\ dead \in BOOLEAN /\ port \in Starts \cup {0} /\ ready' \subseteq loops
      /\ mic \in [Starts -> {"off", "top", "codec", "sending"}]
      /\ ctl \in [Starts -> {"off", "starting", "accepting", "pairing", "serving"}]
  BY <1>1, CallsNow DEF IInv, TypeOK
<1>3. port' \in Starts \cup {0}
  BY <1>2 DEF ControlThread, Bind, Accept, CompletePairing, PairingReturns, ConnectionEnds
<1>4. ASSUME NEW x \in {"off", "accepting"}, ctl' = [ctl EXCEPT ![n] = x], calls' = calls,
             ctl[n] \in {"starting", "accepting", "serving"}
      PROVE  IInv'
  <2>1. /\ ctl' \in [Starts -> {"off", "starting", "accepting", "pairing", "serving"}]
        /\ \A u \in Starts : u # n => ctl'[u] = ctl[u]
    BY <1>2, <1>4
  <2>2. CallsKept
    BY <1>1, <1>4, <2>1, CallsNow DEF CallsKept
  <2> QED
    BY <1>1, <1>2, <1>3, <1>4, <2>1, <2>2, ThreadStep
<1>5. ASSUME Pair(n), ctl[n] \in {"accepting", "serving"} PROVE IInv'
  <2>1. /\ CallsKept /\ ctl' \in [Starts -> {"off", "starting", "accepting", "pairing", "serving"}]
        /\ \A u \in Starts : ctl[u] = "off" => ctl'[u] = "off"
    BY <1>1, <1>5, PairKeeps
  <2> QED
    BY <1>1, <1>2, <1>3, <2>1, ThreadStep
<1>6. CASE Bind(n)
  BY <1>4, <1>6 DEF Bind
<1>7. CASE Accept(n)
  BY <1>4, <1>5, <1>7 DEF Accept
<1>8. CASE CompletePairing(n)
  BY <1>5, <1>8 DEF CompletePairing
<1>9. CASE ConnectionEnds(n)
  BY <1>4, <1>9 DEF ConnectionEnds
<1>10. CASE PairingReturns(n)
  <2>1. ctl[n] = "pairing" /\ ctl' = [ctl EXCEPT ![n] = "serving"] /\ Left("control", n)
    BY <1>10 DEF PairingReturns
  <2>2. /\ ctl' \in [Starts -> {"off", "starting", "accepting", "pairing", "serving"}]
        /\ ctl'[n] = "serving" /\ \A u \in Starts : u # n => ctl'[u] = ctl[u]
    BY <1>2, <2>1
  <2>3. calls' \subseteq calls /\ \A c \in calls' : c.thread[1] = "control" => c.thread[2] # n
    BY <1>2, <2>1, LeftEffect
  <2>4. CallsKept
    BY <1>1, <2>2, <2>3, CallsNow DEF CallsKept
  <2> QED
    BY <1>1, <1>2, <1>3, <2>1, <2>2, <2>4, ThreadStep
<1> QED
  BY <1>6, <1>7, <1>8, <1>9, <1>10 DEF ControlThread

-----------------------------------------------------------------------------
(* The main thread between two calls *)

\* The counters are numbers, and so is what they are compared with.
LEMMA CountFacts ==
  ASSUME count \in Counts
  PROVE  /\ count.starts \in Nat /\ count.encoders \in Nat /\ count.mishaps \in Nat
         /\ count.failed \in Nat /\ MaxStarts \in Nat /\ MaxMishaps \in Nat
         /\ RoomForStart <=> count.starts < MaxStarts + count.failed
<1>1. MaxStarts \in Nat /\ MaxMishaps \in Nat
  BY ServiceAssumption
<1>2. /\ count.starts \in Starts \cup {0} /\ count.encoders \in Starts \cup {0}
      /\ count.mishaps \in 0 .. MaxMishaps /\ count.failed \in 0 .. MaxMishaps
  BY DEF Counts
<1>3. /\ count.starts \in Nat /\ count.encoders \in Nat
      /\ count.mishaps \in Nat /\ count.failed \in Nat
  BY <1>1, <1>2 DEF Starts
<1> QED
  BY <1>1, <1>3 DEF RoomForStart

\* A message on the main thread that touches neither camera nor threads.
LEMMA MessageStep ==
  ASSUME IInv, UNCHANGED <<cam, enc, codecs, loops, running, ready, audio, mic, udp, ctl, port, links>>,
         UNCHANGED <<calls, live, receivers, lost, unjoined>>,
         app' \in Apps, svc' \in Services, main' \in Mains, count' \in Counts, dead' \in BOOLEAN,
         svc'.nativeHandle = svc.nativeHandle, count'.starts = count.starts,
         main.pc \in {"idle", "reply", "return"},
         main'.pc \in {"idle", "reply", "native", "close", "return"},
         Resting' => Resting, Places', Bounded'
  PROVE  IInv'
<1> USE DEF IInv
<1>1. TypeOK'
  BY DEF TypeOK
<1>2. Locked' /\ Looping' /\ Handles'
  BY LockedKept, LoopingKept, HandlesKept
<1>3. Recording' /\ Controlling'
  BY RecordingKept, ControllingKept
<1> QED
  BY <1>1, <1>2, <1>3

\* What holds when the main thread is idle.
LEMMA IdleFacts ==
  ASSUME IInv, main.pc = "idle"
  PROVE  main.call = "none" /\ main \in Mains /\ (svc.isStreaming = FALSE => Resting) /\ ~Encoding
BY DEF IInv, TypeOK, Places, Resting, Encoding, StartPcs, ClosePcs, StopPcs

\* The app asks for a start; the system makes the service; the app begins anew.
LEMMA AppStep == IInv /\ (AppStart \/ AppRestart \/ OnCreate) => IInv'
<1> SUFFICES ASSUME IInv, AppStart \/ AppRestart \/ OnCreate PROVE IInv'
  OBVIOUS
<1> USE DEF IInv
<1>1. /\ UNCHANGED <<cam, enc, codecs, loops, running, ready, audio, mic, udp, ctl, port, links>>
      /\ UNCHANGED <<calls, live, receivers, lost, unjoined, count, dead, main>> /\ main.pc = "idle"
  BY DEF AppStart, AppRestart, OnCreate, MainIdle, encoderVars, audioVars, udpVars, nativeVars,
         history
<1>2. app \in Apps /\ svc \in Services /\ main \in Mains /\ count \in Counts /\ dead \in BOOLEAN
  BY DEF TypeOK
<1>3. 0 \in 0 .. MaxTries
  BY ServiceAssumption
<1>4. app' \in Apps /\ svc' \in Services /\ svc'.nativeHandle = svc.nativeHandle
  <2>1. CASE AppStart
    <3> DEFINE w == ~svc.instance \/ svc.stopping
    <3>1. /\ app' = [app EXCEPT !.isConnecting = TRUE, !.start = "trying", !.tries = 0,
                                !.replied = FALSE]
          /\ svc' = [svc EXCEPT !.wanted = w]
      BY <2>1 DEF AppStart
    <3>2. w \in BOOLEAN
      OBVIOUS
    <3> HIDE DEF w
    <3>3. app' \in Apps
      BY <1>2, <1>3, <3>1 DEF Apps
    <3>4. svc' \in Services /\ svc'.nativeHandle = svc.nativeHandle
      BY <1>2, <3>1, <3>2 DEF Services
    <3> QED
      BY <3>3, <3>4
  <2>2. CASE AppRestart
    BY <1>2, <1>3, <2>2 DEF AppRestart, NewApp, Apps
  <2>3. CASE OnCreate
    <3>1. svc' \in Services /\ svc'.nativeHandle = svc.nativeHandle
      BY <1>2, <2>3 DEF OnCreate, Services
    <3> QED
      BY <1>2, <2>3, <3>1 DEF OnCreate
  <2> QED
    BY <2>1, <2>2, <2>3
<1>5. /\ svc'.isStreaming = svc.isStreaming
      /\ svc'.instance = FALSE => svc.instance = FALSE
  BY <1>2 DEF AppStart, AppRestart, OnCreate, Services
<1>6. app'.start = "trying" => app.start = "trying" \/ RoomForStart \/ svc.isStreaming
  <2>1. CASE AppStart
    BY <2>1 DEF AppStart
  <2>2. CASE AppRestart
    BY <2>2 DEF AppRestart, NewApp
  <2>3. CASE OnCreate
    BY <2>3 DEF OnCreate
  <2> QED
    BY <2>1, <2>2, <2>3
<1>7. Places' /\ (Resting' <=> Resting) /\ (Encoding' <=> Encoding)
  BY <1>1, <1>5, IdleFacts DEF Places, Resting, Encoding
<1>8. Bounded'
  BY <1>1, <1>2, <1>5, <1>6, <1>7, CountFacts DEF Bounded, Services
<1> QED
  BY <1>1, <1>2, <1>4, <1>7, <1>8, MessageStep

\* tryStart.
LEMMA TryStartStep == IInv /\ TryStart => IInv'
<1> SUFFICES ASSUME IInv, TryStart PROVE IInv'
  OBVIOUS
<1> USE DEF IInv
<1>1. /\ UNCHANGED <<cam, enc, codecs, loops, running, ready, audio, mic, udp, ctl, port, links>>
      /\ UNCHANGED <<calls, live, receivers, lost, unjoined, count, dead>>
      /\ main.pc = "idle" /\ app.start = "trying"
  BY DEF TryStart, MainIdle, encoderVars, audioVars, udpVars, nativeVars, history
<1>2. app \in Apps /\ svc \in Services /\ main \in Mains /\ count \in Counts /\ dead \in BOOLEAN
  BY DEF TypeOK
<1>3. 0 \in 0 .. MaxTries /\ MaxTries \in Nat /\ app.tries \in 0 .. MaxTries
  BY <1>2, ServiceAssumption DEF Apps
<1>4. CASE /\ svc.instance /\ ~svc.isStreaming /\ svc' = [svc EXCEPT !.isStreaming = TRUE]
           /\ main' = [call |-> "start", pc |-> "native"] /\ app' = app
  <2>1. /\ svc' \in Services /\ svc'.nativeHandle = svc.nativeHandle /\ svc'.isStreaming = TRUE
        /\ main' \in Mains /\ main'.pc = "native" /\ main'.call = "start" /\ svc.isStreaming = FALSE
        /\ svc'.instance = TRUE
    BY <1>2, <1>4 DEF Services, Mains
  <2>2. Resting /\ Places' /\ ~Encoding /\ ~Encoding'
    BY <1>1, <2>1, IdleFacts DEF Places, Encoding, StartPcs
  <2>3. Bounded'
    BY <1>1, <1>2, <2>1, <2>2, CountFacts DEF Bounded
  <2> QED
    BY <1>1, <1>2, <1>4, <2>1, <2>2, <2>3, MessageStep
<1>5. CASE app' \in Apps /\ UNCHANGED <<svc, main>>
  <2>1. Places' /\ (Resting' <=> Resting) /\ (Encoding' <=> Encoding)
    BY <1>5 DEF Places, Resting, Encoding
  <2>2. Bounded'
    BY <1>1, <1>5, <2>1 DEF Bounded
  <2> QED
    BY <1>1, <1>2, <1>5, <2>1, <2>2, MessageStep
<1>6. app' \in Apps \/ svc' # svc
  <2>1. CASE app' = [app EXCEPT !.start = "posted", !.tries = 0]
    BY <1>2, <1>3, <2>1 DEF Apps
  <2>2. CASE Replied(FALSE, "none")
    BY <1>2, <2>2, RepliedEffect
  <2>3. CASE app.tries < MaxTries /\ app' = [app EXCEPT !.tries = @ + 1]
    <3> DEFINE n == app.tries + 1
    <3>1. n \in 0 .. MaxTries /\ app' = [app EXCEPT !.tries = n]
      BY <1>3, <2>3
    <3> HIDE DEF n
    <3> QED
      BY <1>2, <3>1 DEF Apps
  <2>4. CASE app' = app
    BY <1>2, <2>4
  <2> QED
    BY <2>1, <2>2, <2>3, <2>4 DEF TryStart
<1>7. UNCHANGED <<svc, main>> \/ (/\ svc.instance /\ ~svc.isStreaming
           /\ svc' = [svc EXCEPT !.isStreaming = TRUE]
           /\ main' = [call |-> "start", pc |-> "native"] /\ app' = app)
  BY DEF TryStart
<1> QED
  BY <1>4, <1>5, <1>6, <1>7

\* The delayed reply.
LEMMA ReplyStep == IInv /\ (ReplyDelayed \/ Reply) => IInv'
<1> SUFFICES ASSUME IInv, ReplyDelayed \/ Reply PROVE IInv'
  OBVIOUS
<1> USE DEF IInv
<1>1. /\ UNCHANGED <<cam, enc, codecs, loops, running, ready, audio, mic, udp, ctl, port, links>>
      /\ UNCHANGED <<calls, live, receivers, lost, unjoined, count, svc>>
  BY DEF ReplyDelayed, Reply, encoderVars, audioVars, udpVars, nativeVars, history
<1>2. app \in Apps /\ svc \in Services /\ main \in Mains /\ count \in Counts /\ dead \in BOOLEAN
  BY DEF TypeOK
<1>3. app' \in Apps /\ (app'.start = "trying" => app.start = "trying")
  <2>1. CASE app' = [app EXCEPT !.start = "none"]
    BY <1>2, <2>1 DEF Apps
  <2>2. CASE Replied(TRUE, "none")
    BY <1>2, <2>2, RepliedEffect
  <2>3. CASE app' = app
    BY <1>2, <2>3
  <2> QED
    BY <2>1, <2>2, <2>3 DEF ReplyDelayed, Reply
<1>4. dead' \in BOOLEAN
  BY <1>2 DEF ReplyDelayed, Reply, Apps
<1>5. /\ main' \in Mains /\ main.pc \in {"idle", "reply"} /\ main.call \in {"none", "reply"}
      /\ \/ main'.pc = "idle" /\ main'.call = "none"
         \/ main'.pc = "reply" /\ main'.call = "reply"
  <2>1. main.pc \in {"idle", "reply"} /\ main.call \in {"none", "reply"}
    BY DEF ReplyDelayed, Reply, MainIdle, At, Places, StartPcs, ClosePcs, StopPcs
  <2>2. (main' = main /\ main.pc = "idle") \/ main' = Idle \/ main' = [call |-> "reply", pc |-> "reply"]
    BY DEF ReplyDelayed, Reply, MainIdle
  <2>3. main.pc = "idle" => main.call = "none"
    BY IdleFacts
  <2> QED
    BY <1>2, <2>1, <2>2, <2>3 DEF Mains, Idle
<1>6. Places' /\ (Resting' <=> Resting) /\ ~Encoding /\ ~Encoding'
  BY <1>1, <1>5 DEF Places, Resting, Encoding
<1>7. Bounded'
  BY <1>1, <1>3, <1>5, <1>6 DEF Bounded
<1> QED
  BY <1>1, <1>2, <1>3, <1>4, <1>5, <1>6, <1>7, MessageStep

\* stopStreaming begins, or returns at once.
LEMMA StopStep == IInv /\ (AppStop \/ NotificationStop \/ OnDestroy) => IInv'
<1> SUFFICES ASSUME IInv, AppStop \/ NotificationStop \/ OnDestroy PROVE IInv'
  OBVIOUS
<1> USE DEF IInv
<1>1. PICK call \in StopCalls : Stop(call) /\ main.pc = "idle"
  BY DEF AppStop, NotificationStop, OnDestroy, MainIdle, StopCalls
<1>2. /\ UNCHANGED <<cam, enc, codecs, loops, running, ready, audio, mic, udp, ctl, port, links>>
      /\ UNCHANGED <<calls, live, receivers, lost, unjoined, count, dead, app>>
      /\ app.start = "trying" => RoomForStart
  BY <1>1 DEF Stop, encoderVars, audioVars, udpVars, nativeVars, history
<1>3. app \in Apps /\ svc \in Services /\ main \in Mains /\ count \in Counts /\ dead \in BOOLEAN
  BY DEF TypeOK
<1>4. /\ svc' \in Services /\ svc'.isStreaming = FALSE /\ svc'.nativeHandle = svc.nativeHandle
  BY <1>1, <1>3 DEF Stop, Services
<1>5. /\ main' \in Mains /\ main'.call = call
      /\ \/ main'.pc = "close"
         \/ main'.pc = "return" /\ svc.isStreaming = FALSE
  <2> DEFINE p == IF svc.instance /\ svc.isStreaming THEN "close" ELSE "return"
  <2>1. main' = [call |-> call, pc |-> p]
    BY <1>1 DEF Stop
  <2>2. p = "close" \/ (p = "return" /\ svc.isStreaming = FALSE)
    BY <1>3 DEF Places, Services
  <2> HIDE DEF p
  <2> QED
    BY <2>1, <2>2 DEF Mains, StopCalls
<1>6. Places' /\ ~Encoding /\ ~Encoding'
  BY <1>1, <1>4, <1>5, IdleFacts DEF Places, Encoding, StopCalls, ClosePcs, StopPcs
<1>7. Resting' => Resting
  BY <1>1, <1>5, IdleFacts DEF Resting, StopCalls
<1>8. Bounded'
  BY <1>2, <1>3, <1>5, <1>6, CountFacts DEF Bounded
<1> QED
  BY <1>1, <1>2, <1>3, <1>4, <1>5, <1>6, <1>7, <1>8, MessageStep

\* switchCamera begins.
LEMMA SwitchCameraStep == IInv /\ SwitchCamera => IInv'
<1> SUFFICES ASSUME IInv, SwitchCamera PROVE IInv'
  OBVIOUS
<1> USE DEF IInv
<1>1. /\ UNCHANGED <<cam, enc, codecs, loops, running, ready, audio, mic, udp, ctl, port, links>>
      /\ UNCHANGED <<calls, live, receivers, lost, unjoined, dead, app, svc>>
      /\ main.pc = "idle" /\ count.mishaps < MaxMishaps
      /\ main' = [call |-> "switch", pc |-> "close"]
  BY DEF SwitchCamera, MainIdle, encoderVars, audioVars, udpVars, nativeVars
<1>2. app \in Apps /\ svc \in Services /\ count \in Counts /\ dead \in BOOLEAN
  BY DEF TypeOK
<1>3. main' \in Mains /\ main'.call = "switch" /\ main'.pc = "close"
  BY <1>1 DEF Mains
<1>4. /\ count' \in Counts /\ count'.starts = count.starts /\ count'.encoders = count.encoders
      /\ count'.failed = count.failed /\ count'.mishaps = count.mishaps + 1
  <2> DEFINE m == count.mishaps + 1
  <2>1. count' = [count EXCEPT !.mishaps = m]
    BY DEF SwitchCamera
  <2>2. m \in 0 .. MaxMishaps /\ m = count.mishaps + 1
    BY <1>1, <1>2, CountFacts
  <2> HIDE DEF m
  <2> QED
    BY <1>2, <2>1, <2>2 DEF Counts
<1>5. Places' /\ ~Encoding
  BY <1>1, <1>3, IdleFacts DEF Places, ClosePcs
<1>6. Resting' => Resting
  BY <1>1, <1>3, IdleFacts DEF Resting
<1>7. Bounded'
  BY <1>1, <1>2, <1>3, <1>4, <1>5, CountFacts DEF Bounded
<1> QED
  BY <1>1, <1>2, <1>3, <1>4, <1>5, <1>6, <1>7, MessageStep

-----------------------------------------------------------------------------
(* startStreaming *)

\* The main thread goes on in its call.
LEMMA GotoEffect ==
  ASSUME main \in Mains, NEW p, p \in {"encoder", "camera", "audio", "transports", "surface",
           "joinCamera", "restart", "stopEncoder", "joinEncoder", "stopAudio", "releaseAudio",
           "joinAudio", "stopUdp", "joinUdp", "stopBluetooth", "stopUsb", "destroy", "return"},
         Goto(p)
  PROVE  main' \in Mains /\ main'.pc = p /\ main'.call = main.call
BY DEF Goto, Mains

\* Where there is neither recorder nor control server there is no thread of theirs,
\* and none of them is in native code.
LEMMA RestingFacts ==
  ASSUME IInv, Resting
  PROVE  /\ audio.n = 0 /\ udp.n = 0 /\ main.pc # "joinAudio"
         /\ \A n \in Starts : mic[n] = "off" \/ Abandoned("audio", n)
         /\ \A n \in Starts : ctl[n] = "off" \/ Abandoned("control", n)
         /\ \A c \in calls : /\ c.thread[1] = "audio" => Abandoned("audio", c.thread[2])
                             /\ c.thread[1] = "control" => Abandoned("control", c.thread[2])
<1>1. Recording /\ Controlling /\ Places /\ TypeOK
  BY DEF IInv
<1>2. main.pc # "joinAudio"
  BY <1>1 DEF Places, Resting, StopCalls, ClosePcs, StopPcs, StartPcs
<1>3. audio.n = 0 /\ udp.n = 0
  BY <1>1 DEF Recording, Controlling
<1>4. 0 \notin Starts
  BY ServiceAssumption DEF Starts
<1>5. \A n \in Starts : mic[n] = "off" \/ Abandoned("audio", n)
  BY <1>1, <1>2, <1>3, <1>4 DEF Recording
<1>6. \A n \in Starts : ctl[n] = "off" \/ Abandoned("control", n)
  BY <1>1, <1>3, <1>4 DEF Controlling
<1>7. \A c \in calls : c.thread[2] \in Starts
  BY CallsNow
<1>8. \A c \in calls : c.thread[1] = "audio" => Abandoned("audio", c.thread[2])
  BY <1>1, <1>5, <1>7 DEF Recording
<1>9. \A c \in calls : c.thread[1] = "control" => Abandoned("control", c.thread[2])
  BY <1>1, <1>6, <1>7 DEF Controlling
<1> QED
  BY <1>2, <1>3, <1>5, <1>6, <1>8, <1>9

\* A step there, whatever it does to the handle and the counters.
LEMMA RestingKept ==
  ASSUME IInv, Resting, UNCHANGED <<mic, ctl, calls, unjoined>>, main'.pc # "joinAudio",
         audio'.n = 0 \/ audio'.n = audio.n, udp'.n = 0 \/ udp'.n = udp.n
  PROVE  Recording' /\ Controlling'
<1>1. /\ audio.n = 0 /\ udp.n = 0
      /\ \A n \in Starts : mic[n] = "off" \/ Abandoned("audio", n)
      /\ \A n \in Starts : ctl[n] = "off" \/ Abandoned("control", n)
      /\ \A c \in calls : /\ c.thread[1] = "audio" => Abandoned("audio", c.thread[2])
                          /\ c.thread[1] = "control" => Abandoned("control", c.thread[2])
  BY RestingFacts
<1>2. \A k, n : Abandoned(k, n)' <=> Abandoned(k, n)
  BY DEF Abandoned
<1>3. Recording'
  BY <1>1, <1>2 DEF Recording
<1>4. Controlling'
  BY <1>1, <1>2 DEF Controlling
<1> QED
  BY <1>3, <1>4

\* nativeCreateSession.
LEMMA CreateNativeStep == IInv /\ CreateNative => IInv'
<1> SUFFICES ASSUME IInv, CreateNative PROVE IInv'
  OBVIOUS
<1> USE DEF IInv
<1> DEFINE n == count.starts + 1
<1>1. /\ UNCHANGED <<app, cam, enc, codecs, loops, running, ready, audio, mic, udp, ctl, port, links>>
      /\ UNCHANGED <<calls, lost, unjoined, dead>> /\ main.pc = "native" /\ Goto("encoder")
      /\ live' = live \cup {n} /\ receivers' = receivers \cup {n}
  BY DEF CreateNative, At, encoderVars, audioVars, udpVars
<1>2. svc \in Services /\ main \in Mains /\ count \in Counts /\ live \subseteq Starts /\ receivers \subseteq Starts
  BY DEF TypeOK
<1>3. n \in Starts /\ n = count.starts + 1
  <2>1. count.starts < MaxStarts + count.failed /\ count.failed <= MaxMishaps
    BY <1>1, <1>2 DEF Bounded, Counts
  <2> QED
    BY <1>2, <2>1, CountFacts DEF Starts
<1>4. main' \in Mains /\ main'.pc = "encoder" /\ main'.call = main.call
  BY <1>1, <1>2, GotoEffect
<1>5. count' = [count EXCEPT !.starts = n] /\ svc' = [svc EXCEPT !.nativeHandle = n, !.thermal = n]
  BY DEF CreateNative
<1> HIDE DEF n
<1>6. /\ count' \in Counts /\ count'.starts = n /\ count'.encoders = count.encoders
      /\ count'.mishaps = count.mishaps /\ count'.failed = count.failed
  BY <1>2, <1>3, <1>5 DEF Counts
<1>7. /\ svc' \in Services /\ svc'.nativeHandle = n /\ svc'.isStreaming = svc.isStreaming
      /\ svc'.instance = svc.instance
  BY <1>2, <1>3, <1>5 DEF Services
<1>8. TypeOK'
  <2>1. live' \subseteq Starts /\ receivers' \subseteq Starts
    BY <1>1, <1>2, <1>3
  <2> QED
    BY <1>1, <1>4, <1>6, <1>7, <2>1 DEF TypeOK
<1>9. main.call = "start" /\ svc.isStreaming = TRUE
  BY <1>1 DEF Places, StopCalls, ClosePcs, StopPcs
<1>10. Places'
  BY <1>4, <1>7, <1>9 DEF Places, StartPcs
<1>11. Locked' /\ Looping'
  BY <1>1, <1>4, LockedKept, LoopingKept
<1>12. Bounded'
  <2>1. ~Encoding /\ Encoding'
    BY <1>1, <1>4, <1>9 DEF Encoding
  <2> QED
    BY <1>1, <1>2, <1>3, <1>4, <1>6, <1>7, <1>9, <2>1, CountFacts DEF Bounded
<1>13. Handles'
  BY <1>1, <1>7 DEF Handles
<1>14. Resting
  BY <1>1 DEF Resting
<1>15. Recording' /\ Controlling'
  BY <1>1, <1>3, <1>4, <1>14, RestingKept
<1> QED
  BY <1>8, <1>10, <1>11, <1>12, <1>13, <1>15

\* A start that fails before there is a session.
LEMMA NativeFailsStep == IInv /\ NativeFails => IInv'
<1> SUFFICES ASSUME IInv, NativeFails PROVE IInv'
  OBVIOUS
<1> USE DEF IInv
<1>1. /\ UNCHANGED <<cam, enc, codecs, loops, running, ready, audio, mic, udp, ctl, port, links>>
      /\ UNCHANGED <<calls, live, receivers, lost, unjoined, dead>> /\ main.pc = "native"
      /\ count.mishaps < MaxMishaps /\ Replied(FALSE, "none") /\ main' = Idle
  BY DEF NativeFails, At, encoderVars, audioVars, udpVars, nativeVars
<1>2. app \in Apps /\ svc \in Services /\ count \in Counts /\ 0 \in Starts \cup {0}
  BY DEF TypeOK
<1>3. main' \in Mains /\ main'.pc = "idle" /\ main'.call = "none"
  BY <1>1 DEF Mains, Idle
<1>4. app' \in Apps /\ app'.start = "none"
  BY <1>1, <1>2, RepliedEffect
<1>5. svc' \in Services /\ svc'.nativeHandle = 0 /\ svc'.isStreaming = FALSE
  BY <1>2 DEF NativeFails, Services
<1>6. /\ count' \in Counts /\ count'.starts = count.starts /\ count'.encoders = count.encoders
      /\ count'.failed = count.failed /\ count'.mishaps = count.mishaps + 1
  <2> DEFINE m == count.mishaps + 1
  <2>1. count' = [count EXCEPT !.mishaps = m]
    BY DEF NativeFails
  <2>2. m \in 0 .. MaxMishaps /\ m = count.mishaps + 1
    BY <1>1, <1>2, CountFacts
  <2> HIDE DEF m
  <2> QED
    BY <1>2, <2>1, <2>2 DEF Counts
<1>7. TypeOK'
  BY <1>1, <1>3, <1>4, <1>5, <1>6 DEF TypeOK
<1>8. Places' /\ Locked' /\ Looping'
  BY <1>1, <1>3, <1>5, LockedKept, LoopingKept DEF Places
<1>9. Bounded'
  <2>1. ~Encoding'
    BY <1>3 DEF Encoding
  <2> QED
    BY <1>2, <1>3, <1>4, <1>6, <2>1, CountFacts DEF Bounded
<1>10. Handles'
  BY <1>1, <1>5 DEF Handles
<1>11. Resting
  BY <1>1 DEF Resting
<1>12. Recording' /\ Controlling'
  BY <1>1, <1>3, <1>11, RestingKept
<1> QED
  BY <1>7, <1>8, <1>9, <1>10, <1>12

\* H264Encoder.start: the new thread runs beside those the encoder had.
LEMMA EncoderStartedEffect ==
  ASSUME IInv, NEW e \in {NoEncoder, enc}, Encoding, EncoderStarted(e)
  PROVE  /\ enc' \in Encoders /\ codecs' \subseteq Starts /\ loops' \subseteq Starts
         /\ running' \subseteq loops' /\ loops \subseteq loops'
         /\ enc'.threads \subseteq loops' /\ enc'.thread \in enc'.threads
         /\ count' \in Counts /\ count'.starts = count.starts /\ count'.failed = count.failed
         /\ count'.mishaps = count.mishaps /\ count'.encoders = count.encoders + 1
         /\ ready' = ready
<1> USE DEF IInv
<1> DEFINE n == count.encoders + 1
           ts == e.threads \cup {n}
<1>1. /\ count \in Counts /\ enc \in Encoders /\ codecs \subseteq Starts /\ loops \subseteq Starts
      /\ running \subseteq loops /\ enc.threads \subseteq loops
  BY DEF TypeOK, Looping
<1>2. n \in Starts /\ n = count.encoders + 1
  <2>1. /\ count.encoders + 1 + count.failed + count.failed <= count.starts + count.mishaps
        /\ count.starts <= MaxStarts + count.failed /\ count.failed <= count.mishaps
        /\ count.mishaps <= MaxMishaps
    BY <1>1 DEF Bounded, Counts
  <2> QED
    BY <1>1, <2>1, CountFacts DEF Starts
<1>3. e.threads \subseteq loops
  BY <1>1 DEF NoEncoder
<1>4. /\ count' = [count EXCEPT !.encoders = n]
      /\ enc' = [exists |-> TRUE, codec |-> n, thread |-> n, threads |-> ts]
      /\ codecs' = codecs \cup {n} /\ loops' = loops \cup {n}
      /\ running' = running \cup e.threads \cup {n} /\ ready' = ready
  BY DEF EncoderStarted
<1>5. ts \subseteq loops' /\ ts \in SUBSET Starts /\ n \in ts
  BY <1>1, <1>2, <1>3, <1>4
<1>6. codecs' \subseteq Starts /\ loops' \subseteq Starts /\ running' \subseteq loops' /\ loops \subseteq loops'
  BY <1>1, <1>2, <1>3, <1>4
<1> HIDE DEF n, ts
<1>7. enc' \in Encoders /\ enc'.threads = ts /\ enc'.thread = n
  BY <1>2, <1>4, <1>5 DEF Encoders
<1>8. /\ count' \in Counts /\ count'.starts = count.starts /\ count'.failed = count.failed
      /\ count'.mishaps = count.mishaps /\ count'.encoders = n
  BY <1>1, <1>2, <1>4 DEF Counts
<1> QED
  BY <1>2, <1>4, <1>5, <1>6, <1>7, <1>8

\* H264Encoder.start throws.
LEMMA EncoderFailedEffect ==
  ASSUME IInv, NEW e \in {NoEncoder, enc}, EncoderFailed(e)
  PROVE  /\ enc' \in Encoders /\ codecs' \subseteq Starts /\ UNCHANGED <<loops, running, ready>>
         /\ enc'.threads \subseteq loops /\ enc'.thread = 0
<1> USE DEF IInv
<1>1. /\ enc \in Encoders /\ codecs \subseteq Starts /\ loops \subseteq Starts /\ enc.threads \subseteq loops
  BY DEF TypeOK, Looping
<1> DEFINE ts == e.threads
<1>2. /\ enc' = [exists |-> TRUE, codec |-> 0, thread |-> 0, threads |-> ts]
      /\ codecs' \in {codecs, codecs \ {e.codec}} /\ UNCHANGED <<loops, running, ready>>
  BY DEF EncoderFailed
<1>3. ts \subseteq loops /\ ts \in SUBSET Starts
  BY <1>1 DEF NoEncoder
<1> HIDE DEF ts
<1> QED
  BY <1>1, <1>2, <1>3 DEF Encoders

\* The encoder of a new session.
LEMMA StartEncoderStep == IInv /\ StartEncoder => IInv'
<1> SUFFICES ASSUME IInv, StartEncoder PROVE IInv'
  OBVIOUS
<1> USE DEF IInv
<1>1. /\ UNCHANGED <<app, svc, cam, audio, mic, udp, ctl, port, links, calls, live>>
      /\ UNCHANGED <<receivers, lost, unjoined, dead>> /\ main.pc = "encoder" /\ Goto("camera")
      /\ EncoderStarted(NoEncoder)
  BY DEF StartEncoder, At, audioVars, udpVars, nativeVars
<1>2. main \in Mains /\ count \in Counts
  BY DEF TypeOK
<1>3. main' \in Mains /\ main'.pc = "camera" /\ main'.call = main.call
  BY <1>1, <1>2, GotoEffect
<1>4. main.call = "start" /\ svc.isStreaming = TRUE
  BY <1>1 DEF Places, StopCalls, ClosePcs, StopPcs
<1>5. Encoding /\ ~Encoding' /\ Resting
  BY <1>1, <1>3, <1>4 DEF Encoding, Resting
<1>6. /\ enc' \in Encoders /\ codecs' \subseteq Starts /\ loops' \subseteq Starts
      /\ running' \subseteq loops' /\ loops \subseteq loops'
      /\ enc'.threads \subseteq loops' /\ enc'.thread \in enc'.threads
      /\ count' \in Counts /\ count'.starts = count.starts /\ count'.failed = count.failed
      /\ count'.mishaps = count.mishaps /\ count'.encoders = count.encoders + 1 /\ ready' = ready
  BY <1>1, <1>5, EncoderStartedEffect
<1>7. TypeOK'
  BY <1>1, <1>3, <1>6 DEF TypeOK
<1>8. Places' /\ Locked'
  BY <1>1, <1>3, <1>4, LockedKept DEF Places, StartPcs
<1>9. Bounded'
  BY <1>1, <1>2, <1>3, <1>4, <1>5, <1>6, CountFacts DEF Bounded
<1>10. Looping' /\ Handles'
  BY <1>1, <1>3, <1>6 DEF Looping, Handles
<1>11. Recording' /\ Controlling'
  BY <1>1, <1>3, <1>5, RestingKept
<1> QED
  BY <1>7, <1>8, <1>9, <1>10, <1>11

\* The encoder cannot be started.
LEMMA StartFailsStep == IInv /\ StartFails => IInv'
<1> SUFFICES ASSUME IInv, StartFails PROVE IInv'
  OBVIOUS
<1> USE DEF IInv
<1>1. /\ UNCHANGED <<cam, audio, mic, udp, ctl, port, links, calls, live>>
      /\ UNCHANGED <<receivers, lost, unjoined, dead>> /\ main.pc = "encoder" /\ main' = Idle
      /\ EncoderFailed(NoEncoder) /\ count.mishaps < MaxMishaps /\ Replied(FALSE, "none")
  BY DEF StartFails, At, audioVars, udpVars, nativeVars
<1>2. app \in Apps /\ svc \in Services /\ count \in Counts
  BY DEF TypeOK
<1>3. main' \in Mains /\ main'.pc = "idle" /\ main'.call = "none"
  BY <1>1 DEF Mains, Idle
<1>4. app' \in Apps /\ app'.start = "none"
  BY <1>1, <1>2, RepliedEffect
<1>5. svc' \in Services /\ svc'.nativeHandle = svc.nativeHandle /\ svc'.isStreaming = FALSE
  BY <1>2 DEF StartFails, Services
<1>6. /\ count' \in Counts /\ count'.starts = count.starts /\ count'.encoders = count.encoders
      /\ count'.failed = count.failed + 1 /\ count'.mishaps = count.mishaps + 1
  <2> DEFINE m == count.mishaps + 1
             f == count.failed + 1
  <2>1. count' = [count EXCEPT !.mishaps = m, !.failed = f]
    BY DEF StartFails
  <2>2. m \in 0 .. MaxMishaps /\ m = count.mishaps + 1 /\ f \in 0 .. MaxMishaps /\ f = count.failed + 1
    BY <1>1, <1>2, CountFacts DEF Bounded
  <2> HIDE DEF m, f
  <2> QED
    BY <1>2, <2>1, <2>2 DEF Counts
<1>7. /\ enc' \in Encoders /\ codecs' \subseteq Starts /\ UNCHANGED <<loops, running, ready>>
      /\ enc'.threads \subseteq loops /\ enc'.thread = 0
  BY <1>1, EncoderFailedEffect
<1>8. TypeOK'
  BY <1>1, <1>3, <1>4, <1>5, <1>6, <1>7 DEF TypeOK
<1>9. Places' /\ Locked' /\ Handles'
  BY <1>1, <1>3, <1>5, <1>7, LockedKept, HandlesKept DEF Places
<1>10. Bounded'
  <2>1. Encoding /\ ~Encoding'
    BY <1>1, <1>3 DEF Encoding
  <2>2. count.failed <= count.mishaps /\ count.starts <= MaxStarts + count.failed
        /\ count.encoders + 1 + count.failed + count.failed <= count.starts + count.mishaps
    BY <2>1 DEF Bounded
  <2> QED
    BY <1>2, <1>3, <1>4, <1>6, <2>1, <2>2, CountFacts DEF Bounded
<1>11. Looping'
  BY <1>3, <1>7 DEF Looping
<1>12. Resting
  BY <1>1 DEF Resting
<1>13. Recording' /\ Controlling'
  BY <1>1, <1>3, <1>4, <1>12, RestingKept
<1> QED
  BY <1>8, <1>9, <1>10, <1>11, <1>13

\* A new controller opens its camera.
LEMMA OpenCameraStep == IInv /\ OpenCamera => IInv'
<1> SUFFICES ASSUME IInv, OpenCamera PROVE IInv'
  OBVIOUS
<1> USE DEF IInv
<1>1. /\ UNCHANGED <<app, svc, enc, codecs, loops, running, ready, audio, mic, udp, ctl, port, links>>
      /\ UNCHANGED <<calls, live, receivers, unjoined, count, dead>> /\ main.pc = "camera"
      /\ lost' = (lost \/ CameraOpen)
      /\ IF main.call = "start" THEN Goto("audio") ELSE main' = Idle
  BY DEF OpenCamera, At, encoderVars, audioVars, udpVars, nativeVars
<1>2. main \in Mains /\ lost \in BOOLEAN
  BY DEF TypeOK
<1>3. \/ main.call = "start" /\ svc.isStreaming = TRUE
      \/ main.call = "switch"
  BY <1>1 DEF Places, StopCalls, ClosePcs, StopPcs
<1>4. /\ main' \in Mains
      /\ \/ main.call = "start" /\ main'.pc = "audio" /\ main'.call = "start"
         \/ main.call = "switch" /\ main'.pc = "idle" /\ main'.call = "none"
  <2>1. CASE main.call = "start"
    BY <1>1, <1>2, <2>1, GotoEffect
  <2>2. CASE main.call = "switch"
    BY <1>1, <2>2 DEF Idle, Mains
  <2> QED
    BY <1>3, <2>1, <2>2
<1>5. /\ cam' \in Cameras
      /\ \/ cam'.os = "opening" /\ cam'.lock = 0
         \/ cam'.os = "closed" /\ cam'.lock = 1
  <2>1. PICK os \in {"opening", "closed"} :
          cam' = [NoCamera EXCEPT !.lock = IF os = "opening" THEN 0 ELSE 1, !.os = os,
                                  !.surface = TRUE, !.thread = "idle",
                                  !.starting = (main.call = "start")]
    BY DEF OpenCamera
  <2> DEFINE l == IF os = "opening" THEN 0 ELSE 1
             s == main.call = "start"
  <2>2. NoCamera \in Cameras
    BY DEF NoCamera, Cameras
  <2>3. l \in 0 .. 2 /\ s \in BOOLEAN /\ (os = "opening" => l = 0) /\ (os = "closed" => l = 1)
    OBVIOUS
  <2>4. cam' = [NoCamera EXCEPT !.lock = l, !.os = os, !.surface = TRUE, !.thread = "idle",
                                !.starting = s]
    BY <2>1
  <2> HIDE DEF l, s
  <2>5. cam' \in Cameras /\ cam'.os = os /\ cam'.lock = l
    BY <2>2, <2>3, <2>4 DEF Cameras
  <2> QED
    BY <2>3, <2>5
<1>6. lost' \in BOOLEAN
  BY <1>1, <1>2
<1>7. TypeOK'
  BY <1>1, <1>4, <1>5, <1>6 DEF TypeOK
<1>8. Places'
  BY <1>1, <1>3, <1>4 DEF Places, StartPcs
<1>9. Locked'
  BY <1>4, <1>5 DEF Locked
<1>10. Looping' /\ Handles'
  BY <1>1, <1>4, LoopingKept, HandlesKept
<1>11. Encoding' <=> Encoding
  BY <1>1, <1>4 DEF Encoding
<1>12. Bounded'
  BY <1>1, <1>4, <1>11, BoundedKept
<1>13. Resting' => Resting
  BY <1>1, <1>3, <1>4 DEF Resting
<1>14. Recording' /\ Controlling'
  BY <1>1, <1>4, <1>13, RecordingKept, ControllingKept
<1> QED
  BY <1>7, <1>8, <1>9, <1>10, <1>12, <1>14

\* AudioEngine.start.
LEMMA StartAudioStep == IInv /\ StartAudio => IInv'
<1> SUFFICES ASSUME IInv, StartAudio PROVE IInv'
  OBVIOUS
<1> USE DEF IInv
<1> DEFINE n == count.starts
<1>1. /\ UNCHANGED <<app, svc, cam, enc, codecs, loops, running, ready, udp, ctl, port, links>>
      /\ UNCHANGED <<calls, live, receivers, lost, unjoined, count, dead>> /\ main.pc = "audio"
      /\ Goto("transports")
  BY DEF StartAudio, At, encoderVars, udpVars, nativeVars, history
<1>2. /\ main \in Mains /\ mic \in [Starts -> {"off", "top", "codec", "sending"}]
      /\ n \in Starts \cup {0}
  BY DEF TypeOK, Counts
<1>3. main' \in Mains /\ main'.pc = "transports" /\ main'.call = main.call
  BY <1>1, <1>2, GotoEffect
<1>4. main.call = "start" /\ svc.isStreaming = TRUE
  BY <1>1 DEF Places, StopCalls, ClosePcs, StopPcs
<1>5. /\ audio' \in Engines /\ audio'.n \in {0, n}
      /\ mic' \in [Starts -> {"off", "top", "codec", "sending"}]
      /\ \A u \in Starts : mic'[u] # mic[u] => u = n /\ audio'.n = n
  <2>1. CASE audio' = [n |-> n, isRunning |-> TRUE] /\ mic' = [mic EXCEPT ![n] = "top"]
    <3>1. /\ mic' \in [Starts -> {"off", "top", "codec", "sending"}]
          /\ \A u \in Starts : mic'[u] # mic[u] => u = n
      BY <1>2, <2>1
    <3>2. audio' \in Engines /\ audio'.n = n
      BY <1>2, <2>1 DEF Engines
    <3> QED
      BY <3>1, <3>2
  <2>2. CASE audio' = NoEngine /\ mic' = mic
    BY <1>2, <2>2 DEF NoEngine, Engines
  <2> QED
    BY <2>1, <2>2 DEF StartAudio
<1>6. TypeOK'
  BY <1>1, <1>3, <1>5 DEF TypeOK
<1>7. Places' /\ Locked' /\ Looping' /\ Handles'
  BY <1>1, <1>3, <1>4, LockedKept, LoopingKept, HandlesKept DEF Places, StartPcs
<1>8. Resting /\ ~Resting' /\ ~Encoding /\ ~Encoding'
  BY <1>1, <1>3, <1>4 DEF Resting, Encoding
<1>9. Bounded'
  BY <1>1, <1>3, <1>8, BoundedKept
<1>10. Recording' /\ Controlling'
  <2>1. /\ udp.n = 0 /\ \A u \in Starts : mic[u] = "off" \/ Abandoned("audio", u)
        /\ \A c \in calls : c.thread[1] = "audio" => Abandoned("audio", c.thread[2])
    BY <1>8, RestingFacts
  <2>2. Recording'
    <3>1. \A u : Abandoned("audio", u)' <=> Abandoned("audio", u)
      BY <1>1 DEF Abandoned
    <3> QED
      BY <1>1, <1>3, <1>5, <1>8, <2>1, <3>1 DEF Recording
  <2>3. Controlling'
    BY <1>1, <1>8, ControllingKept
  <2> QED
    BY <2>2, <2>3
<1> QED
  BY <1>6, <1>7, <1>9, <1>10

\* The transports are started.
LEMMA StartTransportsStep == IInv /\ StartTransports => IInv'
<1> SUFFICES ASSUME IInv, StartTransports PROVE IInv'
  OBVIOUS
<1> USE DEF IInv
<1> DEFINE n == count.starts
<1>1. /\ UNCHANGED <<svc, cam, enc, codecs, loops, running, ready, audio, mic, port>>
      /\ UNCHANGED <<calls, live, receivers, lost, unjoined, count, dead>> /\ main.pc = "transports"
      /\ udp' = [n |-> n, isRunning |-> TRUE] /\ ctl' = [ctl EXCEPT ![n] = "starting"]
      /\ links' = {"bluetooth", "usb"} /\ main' = Idle
  BY DEF StartTransports, At, encoderVars, audioVars, nativeVars, history, StartLinks
<1>2. /\ app \in Apps /\ n \in Starts \cup {0}
      /\ ctl \in [Starts -> {"off", "starting", "accepting", "pairing", "serving"}]
  BY DEF TypeOK, Counts
<1>3. main' \in Mains /\ main'.pc = "idle" /\ main'.call = "none"
  BY <1>1 DEF Mains, Idle
<1>4. main.call = "start" /\ svc.isStreaming = TRUE
  BY <1>1 DEF Places, StopCalls, ClosePcs, StopPcs
<1>5. app' \in Apps /\ app'.start = "posted"
  <2>1. 0 \in 0 .. MaxTries /\ app' = [app EXCEPT !.start = "posted", !.tries = 0]
    BY ServiceAssumption DEF StartTransports
  <2> QED
    BY <1>2, <2>1 DEF Apps
<1>6. udp' \in Engines /\ udp'.n = n
  BY <1>1, <1>2 DEF Engines
<1>7. /\ ctl' \in [Starts -> {"off", "starting", "accepting", "pairing", "serving"}]
      /\ \A u \in Starts : u # n => ctl'[u] = ctl[u]
  BY <1>1, <1>2
<1>8. TypeOK'
  BY <1>1, <1>3, <1>5, <1>6, <1>7 DEF TypeOK
<1>9. Places' /\ Locked' /\ Looping' /\ Handles'
  BY <1>1, <1>3, <1>4, LockedKept, LoopingKept, HandlesKept DEF Places
<1>10. ~Resting' /\ ~Encoding /\ ~Encoding'
  BY <1>1, <1>3, <1>4 DEF Resting, Encoding
<1>11. Bounded'
  BY <1>1, <1>3, <1>5, <1>10 DEF Bounded
<1>12. Recording' /\ Controlling'
  <2>1. Recording /\ Controlling
    OBVIOUS
  <2>2. Recording'
    BY <1>1, <1>3, <1>10, <2>1, RecordingKept
  <2>3. udp.n = 0 /\ 0 \notin Starts
    BY <1>1, <2>1, ServiceAssumption DEF Controlling, Starts
  <2>4. \A u \in Starts : ctl[u] = "off" \/ Abandoned("control", u)
    BY <2>1, <2>3 DEF Controlling
  <2>5. \A c \in calls : c.thread[1] = "control" => Abandoned("control", c.thread[2])
    <3>1. \A c \in calls : c.thread[2] \in Starts
      BY CallsNow
    <3> QED
      BY <2>1, <2>4, <3>1 DEF Controlling
  <2>6. Controlling'
    <3>1. \A u : Abandoned("control", u)' <=> Abandoned("control", u)
      BY <1>1 DEF Abandoned
    <3> QED
      BY <1>1, <1>3, <1>6, <1>7, <1>10, <2>4, <2>5, <3>1 DEF Controlling
  <2> QED
    BY <2>2, <2>6
<1> QED
  BY <1>8, <1>9, <1>11, <1>12

-----------------------------------------------------------------------------
(* closeCamera and switchCamera *)

\* closeCamera takes the lock.
LEMMA CloseDeviceStep == IInv /\ CloseDevice => IInv'
<1> SUFFICES ASSUME IInv, CloseDevice PROVE IInv'
  OBVIOUS
<1> USE DEF IInv
<1>1. /\ UNCHANGED <<app, svc, enc, codecs, loops, running, ready, audio, mic, udp, ctl, port, links>>
      /\ UNCHANGED <<calls, live, receivers, lost, unjoined, count, dead>> /\ main.pc = "close"
      /\ Goto("surface") /\ cam.lock > 0
  BY DEF CloseDevice, At, encoderVars, audioVars, udpVars, nativeVars, history
<1>2. main \in Mains /\ cam \in Cameras
  BY DEF TypeOK
<1>3. main' \in Mains /\ main'.pc = "surface" /\ main'.call = main.call
  BY <1>1, <1>2, GotoEffect
<1>4. /\ cam' \in Cameras /\ cam'.os \in {cam.os, "closed"} /\ cam'.lock = cam.lock - 1
      /\ cam.os # "opening" /\ cam.lock \in {1, 2} /\ (cam.os = "open" => cam.lock = 1)
  <2>1. cam.os # "opening" /\ cam.lock \in {1, 2} /\ (cam.os = "open" => cam.lock = 1)
    BY <1>1, <1>2 DEF Locked, Cameras
  <2> DEFINE l == cam.lock - 1
             os == IF cam.device THEN "closed" ELSE cam.os
  <2>2. cam' = [cam EXCEPT !.lock = l, !.session = "none", !.device = FALSE, !.os = os]
    BY DEF CloseDevice
  <2>3. l \in 0 .. 2 /\ l = cam.lock - 1
    BY <2>1
  <2>4. os \in {cam.os, "closed"} /\ os \in {"closed", "opening", "open"}
    BY <1>2 DEF Cameras
  <2> HIDE DEF l, os
  <2>5. cam' \in Cameras /\ cam'.os = os /\ cam'.lock = l
    BY <1>2, <2>2, <2>3, <2>4 DEF Cameras
  <2> QED
    BY <2>1, <2>3, <2>4, <2>5
<1>5. TypeOK'
  BY <1>1, <1>3, <1>4 DEF TypeOK
<1>6. Locked'
  BY <1>2, <1>3, <1>4 DEF Locked, Cameras
<1>7. Places'
  BY <1>1, <1>3 DEF Places, StartPcs, ClosePcs, StopPcs
<1>8. (Encoding' <=> Encoding) /\ (Resting' => Resting)
  BY <1>1, <1>3 DEF Encoding, Resting
<1>9. Bounded' /\ Looping' /\ Handles'
  BY <1>1, <1>3, <1>8, BoundedKept, LoopingKept, HandlesKept
<1>10. Recording' /\ Controlling'
  BY <1>1, <1>3, <1>8, RecordingKept, ControllingKept
<1> QED
  BY <1>5, <1>6, <1>7, <1>9, <1>10

\* ... and lets go of it.
LEMMA DropSurfaceStep == IInv /\ DropSurface => IInv'
<1> SUFFICES ASSUME IInv, DropSurface PROVE IInv'
  OBVIOUS
<1> USE DEF IInv
<1>1. /\ UNCHANGED <<app, svc, enc, codecs, loops, running, ready, audio, mic, udp, ctl, port, links>>
      /\ UNCHANGED <<calls, live, receivers, lost, unjoined, count, dead>> /\ main.pc = "surface"
      /\ Goto("joinCamera")
  BY DEF DropSurface, At, encoderVars, audioVars, udpVars, nativeVars, history
<1>2. main \in Mains /\ cam \in Cameras
  BY DEF TypeOK
<1>3. main' \in Mains /\ main'.pc = "joinCamera" /\ main'.call = main.call
  BY <1>1, <1>2, GotoEffect
<1>4. /\ cam' \in Cameras /\ cam'.os = cam.os /\ cam'.lock = cam.lock + 1
      /\ cam.os # "opening" /\ cam.lock \in {0, 1} /\ (cam.os = "open" => cam.lock = 0)
  <2>1. cam.os # "opening" /\ cam.lock \in {0, 1} /\ (cam.os = "open" => cam.lock = 0)
    BY <1>1, <1>2 DEF Locked, Cameras
  <2> DEFINE l == cam.lock + 1
  <2>2. cam' = [cam EXCEPT !.surface = FALSE, !.lock = l, !.quit = TRUE]
    BY DEF DropSurface
  <2>3. l \in 0 .. 2 /\ l = cam.lock + 1
    BY <2>1
  <2> HIDE DEF l
  <2>4. cam' \in Cameras /\ cam'.os = cam.os /\ cam'.lock = l
    BY <1>2, <2>2, <2>3 DEF Cameras
  <2> QED
    BY <2>1, <2>3, <2>4
<1>5. TypeOK'
  BY <1>1, <1>3, <1>4 DEF TypeOK
<1>6. Locked'
  BY <1>2, <1>3, <1>4 DEF Locked, Cameras
<1>7. Places'
  BY <1>1, <1>3 DEF Places, StartPcs, ClosePcs, StopPcs
<1>8. (Encoding' <=> Encoding) /\ (Resting' => Resting)
  BY <1>1, <1>3 DEF Encoding, Resting
<1>9. Bounded' /\ Looping' /\ Handles'
  BY <1>1, <1>3, <1>8, BoundedKept, LoopingKept, HandlesKept
<1>10. Recording' /\ Controlling'
  BY <1>1, <1>3, <1>8, RecordingKept, ControllingKept
<1> QED
  BY <1>5, <1>6, <1>7, <1>9, <1>10

\* A service without a camera.
LEMMA NoCameraFacts == NoCamera \in Cameras /\ NoCamera.os = "closed" /\ NoCamera.lock = 1
BY DEF NoCamera, Cameras

\* stopBackgroundThread.
LEMMA JoinCameraStep == IInv /\ JoinCamera => IInv'
<1> SUFFICES ASSUME IInv, JoinCamera PROVE IInv'
  OBVIOUS
<1> USE DEF IInv
<1>1. /\ UNCHANGED <<app, svc, enc, codecs, loops, running, ready, audio, mic, udp, ctl, port, links>>
      /\ UNCHANGED <<calls, live, receivers, unjoined, count, dead>> /\ main.pc = "joinCamera"
      /\ \/ main.call = "switch" /\ Goto("restart") /\ UNCHANGED <<cam, lost>>
         \/ /\ main.call # "switch" /\ Goto("stopEncoder") /\ cam' = NoCamera
            /\ lost' = (lost \/ CameraOpen)
  BY DEF JoinCamera, At, encoderVars, audioVars, udpVars, nativeVars
<1>2. main \in Mains /\ cam \in Cameras /\ lost \in BOOLEAN
  BY DEF TypeOK
<1>3. /\ main' \in Mains /\ main'.call = main.call
      /\ \/ main.call = "switch" /\ main'.pc = "restart"
         \/ main.call # "switch" /\ main'.pc = "stopEncoder"
  BY <1>1, <1>2, GotoEffect
<1>4. cam' \in Cameras /\ lost' \in BOOLEAN
  BY <1>1, <1>2, NoCameraFacts
<1>5. TypeOK'
  BY <1>1, <1>3, <1>4 DEF TypeOK
<1>6. Locked'
  <2>1. CASE cam' = cam
    BY <1>1, <1>3, <2>1, LockedKept
  <2>2. CASE cam' = NoCamera
    BY <1>3, <2>2, NoCameraFacts DEF Locked
  <2> QED
    BY <1>1, <2>1, <2>2
<1>7. Places'
  BY <1>1, <1>3 DEF Places, StartPcs, ClosePcs, StopPcs, StopCalls
<1>8. (Encoding' <=> Encoding) /\ (Resting' => Resting)
  BY <1>1, <1>3 DEF Encoding, Resting
<1>9. Bounded' /\ Looping' /\ Handles'
  BY <1>1, <1>3, <1>8, BoundedKept, LoopingKept, HandlesKept
<1>10. Recording' /\ Controlling'
  BY <1>1, <1>3, <1>8, RecordingKept, ControllingKept
<1> QED
  BY <1>5, <1>6, <1>7, <1>9, <1>10

\* switchCamera starts the encoder again.
LEMMA RestartEncoderStep == IInv /\ RestartEncoder => IInv'
<1> SUFFICES ASSUME IInv, RestartEncoder PROVE IInv'
  OBVIOUS
<1> USE DEF IInv
<1>1. /\ UNCHANGED <<app, svc, cam, audio, mic, udp, ctl, port, links, calls, live>>
      /\ UNCHANGED <<receivers, lost, unjoined, dead>> /\ main.pc = "restart"
      /\ \/ EncoderStarted(enc) /\ Goto("camera")
         \/ EncoderFailed(enc) /\ main' = Idle /\ UNCHANGED count
  BY DEF RestartEncoder, At, audioVars, udpVars, nativeVars
<1>2. main \in Mains /\ count \in Counts
  BY DEF TypeOK
<1>3. main.call = "switch"
  BY <1>1 DEF Places, StartPcs, ClosePcs, StopPcs
<1>4. Encoding
  BY <1>1, <1>3 DEF Encoding
<1>5. /\ main' \in Mains
      /\ \/ main'.pc = "camera" /\ main'.call = "switch"
         \/ main'.pc = "idle" /\ main'.call = "none"
  BY <1>1, <1>2, <1>3, GotoEffect DEF Idle, Mains
<1>6. /\ enc' \in Encoders /\ codecs' \subseteq Starts /\ loops' \subseteq Starts
      /\ running' \subseteq loops' /\ loops \subseteq loops'
      /\ enc'.threads \subseteq loops' /\ enc'.thread \in enc'.threads \cup {0}
      /\ count' \in Counts /\ count'.starts = count.starts /\ count'.failed = count.failed
      /\ count'.mishaps = count.mishaps /\ count'.encoders \in {count.encoders, count.encoders + 1}
      /\ ready' = ready
  <2>1. CASE EncoderStarted(enc)
    BY <1>4, <2>1, EncoderStartedEffect
  <2>2. CASE EncoderFailed(enc) /\ UNCHANGED count
    <3>1. running \subseteq loops /\ loops \subseteq Starts
      BY DEF TypeOK
    <3> QED
      BY <1>2, <2>2, <3>1, EncoderFailedEffect
  <2> QED
    BY <1>1, <2>1, <2>2
<1>7. TypeOK'
  BY <1>1, <1>5, <1>6 DEF TypeOK
<1>8. Places' /\ Locked'
  BY <1>1, <1>3, <1>5, LockedKept DEF Places
<1>9. ~Encoding' /\ (Resting' => Resting)
  BY <1>1, <1>3, <1>5 DEF Encoding, Resting
<1>10. Bounded'
  BY <1>1, <1>2, <1>4, <1>5, <1>6, <1>9, CountFacts DEF Bounded
<1>11. Looping' /\ Handles'
  BY <1>1, <1>5, <1>6 DEF Looping, Handles
<1>12. Recording' /\ Controlling'
  BY <1>1, <1>5, <1>6, <1>9, RecordingKept, ControllingKept
<1> QED
  BY <1>7, <1>8, <1>10, <1>11, <1>12

-----------------------------------------------------------------------------
(* stopStreaming *)

\* A step of stopStreaming after closeCamera.
LEMMA StoppingKept ==
  ASSUME IInv, main.pc \in StopPcs, main'.pc \in StopPcs, main'.call = main.call,
         UNCHANGED <<cam, count, app>>, svc'.isStreaming = svc.isStreaming,
         svc'.instance = svc.instance
  PROVE  Places' /\ Locked' /\ Bounded' /\ main.call \in StopCalls
<1> USE DEF IInv
<1>1. main.call \in StopCalls /\ svc.isStreaming = FALSE
  BY DEF Places, StartPcs, ClosePcs, StopPcs
<1>2. Places'
  BY <1>1 DEF Places, StopCalls
<1>3. ~Encoding /\ ~Encoding'
  BY <1>1 DEF Encoding, StopPcs, StopCalls
<1>4. Locked' /\ Bounded'
  BY <1>3, LockedKept, BoundedKept DEF StopPcs
<1> QED
  BY <1>1, <1>2, <1>4

\* H264Encoder.stop: flag and codec.
LEMMA StopEncoderStep == IInv /\ StopEncoder => IInv'
<1> SUFFICES ASSUME IInv, StopEncoder PROVE IInv'
  OBVIOUS
<1> USE DEF IInv
<1>1. /\ UNCHANGED <<app, svc, cam, enc, loops, ready, audio, mic, udp, ctl, port, links>>
      /\ UNCHANGED <<calls, live, receivers, lost, unjoined, count, dead>> /\ main.pc = "stopEncoder"
      /\ Goto("joinEncoder") /\ running' = running \ enc.threads /\ codecs' = codecs \ {enc.codec}
  BY DEF StopEncoder, At, audioVars, udpVars, nativeVars, history
<1>2. main \in Mains /\ running \subseteq loops /\ codecs \subseteq Starts
  BY DEF TypeOK
<1>3. main' \in Mains /\ main'.pc = "joinEncoder" /\ main'.call = main.call
  BY <1>1, <1>2, GotoEffect
<1>4. running' \subseteq loops /\ codecs' \subseteq Starts /\ enc.threads \cap running' = {}
  BY <1>1, <1>2
<1>5. TypeOK'
  BY <1>1, <1>3, <1>4 DEF TypeOK
<1>6. Places' /\ Locked' /\ Bounded' /\ main.call \in StopCalls
  BY <1>1, <1>3, StoppingKept DEF StopPcs
<1>7. Looping' /\ Handles'
  BY <1>1, <1>4, HandlesKept DEF Looping
<1>8. Resting' => Resting
  BY <1>3, <1>6 DEF Resting, StopCalls
<1>9. Recording' /\ Controlling'
  BY <1>1, <1>3, <1>8, RecordingKept, ControllingKept
<1> QED
  BY <1>5, <1>6, <1>7, <1>9

\* ... and the join of its last thread.
LEMMA JoinEncoderStep == IInv /\ JoinEncoder => IInv'
<1> SUFFICES ASSUME IInv, JoinEncoder PROVE IInv'
  OBVIOUS
<1> USE DEF IInv
<1>1. /\ UNCHANGED <<app, svc, cam, codecs, running, ready, audio, mic, udp, ctl, port, links>>
      /\ UNCHANGED <<calls, live, receivers, lost, unjoined, count, dead>> /\ main.pc = "joinEncoder"
      /\ Goto("stopAudio") /\ loops' = loops \ {enc.thread} /\ enc' = NoEncoder
      /\ ~InCall("video", enc.thread) /\ enc.thread \notin ready
  BY DEF JoinEncoder, At, audioVars, udpVars, nativeVars, history
<1>2. main \in Mains /\ running \subseteq loops /\ loops \subseteq Starts /\ calls \subseteq NativeCalls
  BY DEF TypeOK
<1>3. main' \in Mains /\ main'.pc = "stopAudio" /\ main'.call = main.call
  BY <1>1, <1>2, GotoEffect
<1>4. running \subseteq loops' /\ loops' \subseteq Starts
  <2>1. 0 \notin Starts
    BY ServiceAssumption DEF Starts
  <2>2. enc.thread \notin running
    BY <1>1, <1>2, <2>1 DEF Looping
  <2> QED
    BY <1>1, <1>2, <2>2
<1>5. enc' \in Encoders /\ enc'.threads = {} /\ enc'.thread = 0
  BY <1>1 DEF NoEncoder, Encoders
<1>6. TypeOK'
  BY <1>1, <1>3, <1>4, <1>5 DEF TypeOK
<1>7. Places' /\ Locked' /\ Bounded' /\ main.call \in StopCalls
  BY <1>1, <1>3, StoppingKept DEF StopPcs
<1>8. Looping'
  BY <1>3, <1>5 DEF Looping
<1>9. Handles'
  <2>1. ASSUME NEW c \in calls, c.thread[1] = "video" PROVE c.thread[2] # enc.thread
    <3>1. c.thread \in {"video", "audio", "control"} \X Starts
      BY <1>2 DEF NativeCalls
    <3>2. c.thread = <<c.thread[1], c.thread[2]>>
      BY <3>1
    <3> QED
      BY <1>1, <2>1, <3>2 DEF InCall
  <2> QED
    BY <1>1, <2>1 DEF Handles
<1>10. Resting' => Resting
  BY <1>3, <1>7 DEF Resting, StopCalls
<1>11. Recording' /\ Controlling'
  BY <1>1, <1>3, <1>10, RecordingKept, ControllingKept
<1> QED
  BY <1>6, <1>7, <1>8, <1>9, <1>11

\* AudioEngine.stop: the flag.
LEMMA StopAudioStep == IInv /\ StopAudio => IInv'
<1> SUFFICES ASSUME IInv, StopAudio PROVE IInv'
  OBVIOUS
<1> USE DEF IInv
<1>1. /\ UNCHANGED <<app, svc, cam, enc, codecs, loops, running, ready, mic, udp, ctl, port, links>>
      /\ UNCHANGED <<calls, live, receivers, lost, unjoined, count, dead>> /\ main.pc = "stopAudio"
      /\ Goto("releaseAudio")
  BY DEF StopAudio, At, encoderVars, udpVars, nativeVars, history
<1>2. main \in Mains /\ audio \in Engines
  BY DEF TypeOK
<1>3. main' \in Mains /\ main'.pc = "releaseAudio" /\ main'.call = main.call
  BY <1>1, <1>2, GotoEffect
<1>4. audio' \in Engines /\ audio'.n = audio.n
  BY <1>2 DEF StopAudio, Engines
<1>5. TypeOK'
  BY <1>1, <1>3, <1>4 DEF TypeOK
<1>6. Places' /\ Locked' /\ Bounded' /\ main.call \in StopCalls
  BY <1>1, <1>3, StoppingKept DEF StopPcs
<1>7. Looping' /\ Handles'
  BY <1>1, <1>3, LoopingKept, HandlesKept
<1>8. Resting' => Resting
  BY <1>3, <1>6 DEF Resting, StopCalls
<1>9. Recording' /\ Controlling'
  BY <1>1, <1>3, <1>4, <1>8, RecordingKept, ControllingKept
<1> QED
  BY <1>5, <1>6, <1>7, <1>9

\* ... the codec; then the thread is waited for, if there was an engine.
LEMMA ReleaseAudioCodecStep == IInv /\ ReleaseAudioCodec => IInv'
<1> SUFFICES ASSUME IInv, ReleaseAudioCodec PROVE IInv'
  OBVIOUS
<1> USE DEF IInv
<1>1. /\ UNCHANGED <<app, svc, cam, enc, codecs, loops, running, ready, mic, udp, ctl, port, links>>
      /\ UNCHANGED <<calls, live, receivers, lost, unjoined, count, dead>> /\ main.pc = "releaseAudio"
  BY DEF ReleaseAudioCodec, At, encoderVars, udpVars, nativeVars, history
<1>2. main \in Mains /\ audio \in Engines /\ 0 \notin Starts
  BY ServiceAssumption DEF TypeOK, Starts
<1>3. /\ main' \in Mains /\ main'.call = main.call
      /\ \/ audio.n = 0 /\ main'.pc = "stopUdp"
         \/ audio.n # 0 /\ main'.pc = "joinAudio"
  <2> DEFINE p == IF audio.n = 0 THEN "stopUdp" ELSE "joinAudio"
  <2>1. main' = [main EXCEPT !.pc = p]
    BY DEF ReleaseAudioCodec
  <2>2. (audio.n = 0 /\ p = "stopUdp") \/ (audio.n # 0 /\ p = "joinAudio")
    OBVIOUS
  <2> HIDE DEF p
  <2> QED
    BY <1>2, <2>1, <2>2 DEF Mains
<1>4. audio' \in Engines /\ audio'.n = 0
  BY <1>2 DEF ReleaseAudioCodec, Engines
<1>5. TypeOK'
  BY <1>1, <1>3, <1>4 DEF TypeOK
<1>6. Places' /\ Locked' /\ Bounded' /\ main.call \in StopCalls
  BY <1>1, <1>3, StoppingKept DEF StopPcs
<1>7. Looping' /\ Handles'
  BY <1>1, <1>3, LoopingKept, HandlesKept
<1>8. Resting' => Resting
  BY <1>3, <1>6 DEF Resting, StopCalls
<1>9. Recording' /\ Controlling'
  <2>1. Recording /\ Controlling
    OBVIOUS
  <2>2. /\ \A n \in Starts : mic[n] # "off" =>
             Abandoned("audio", n) \/ (n = count.starts /\ main'.pc = "joinAudio")
        /\ main'.pc = "joinAudio" => count.starts # 0
    BY <1>1, <1>2, <1>3, <2>1 DEF Recording
  <2>3. Recording'
    <3>1. \A n : Abandoned("audio", n)' <=> Abandoned("audio", n)
      BY <1>1 DEF Abandoned
    <3> QED
      BY <1>1, <1>4, <2>1, <2>2, <3>1 DEF Recording
  <2>4. Controlling'
    BY <1>1, <1>3, <1>8, <2>1, ControllingKept
  <2> QED
    BY <2>3, <2>4
<1> QED
  BY <1>5, <1>6, <1>7, <1>9

\* join(1000) of the recording thread.
LEMMA JoinAudioStep == IInv /\ JoinAudio => IInv'
<1> SUFFICES ASSUME IInv, JoinAudio PROVE IInv'
  OBVIOUS
<1> USE DEF IInv
<1> DEFINE n == count.starts
<1>1. /\ UNCHANGED <<app, svc, cam, enc, codecs, loops, running, ready, audio, mic, udp, ctl, port>>
      /\ UNCHANGED <<links, calls, live, receivers, lost, count, dead>> /\ main.pc = "joinAudio"
      /\ Goto("stopUdp") /\ GivesUpOn("audio", n, mic[n] # "off")
  BY DEF JoinAudio, At, encoderVars, audioVars, udpVars, nativeVars
<1>2. main \in Mains /\ unjoined \subseteq {"audio", "control"} \X Starts /\ n \in Starts
  BY <1>1 DEF TypeOK, Recording, Counts
<1>3. main' \in Mains /\ main'.pc = "stopUdp" /\ main'.call = main.call
  BY <1>1, <1>2, GotoEffect
<1>4. unjoined' \subseteq {"audio", "control"} \X Starts /\ unjoined \subseteq unjoined'
  BY <1>1, <1>2 DEF GivesUpOn
<1>5. TypeOK'
  BY <1>1, <1>3, <1>4 DEF TypeOK
<1>6. Places' /\ Locked' /\ Bounded' /\ main.call \in StopCalls
  BY <1>1, <1>3, StoppingKept DEF StopPcs
<1>7. Looping' /\ Handles'
  BY <1>1, <1>3, LoopingKept, HandlesKept
<1>8. Resting' => Resting
  BY <1>3, <1>6 DEF Resting, StopCalls
<1>9. Recording'
  <2>1. Recording /\ audio.n = 0
    BY <1>1 DEF Recording
  <2>2. \A u : Abandoned("audio", u) => Abandoned("audio", u)'
    BY <1>4 DEF Abandoned
  <2>3. \A u : u = n /\ mic[u] # "off" => Abandoned("audio", u)'
    BY <1>1 DEF GivesUpOn, Abandoned
  <2>4. 0 \notin Starts
    BY ServiceAssumption DEF Starts
  <2>5. \A u \in Starts : mic[u] # "off" => Abandoned("audio", u)'
    BY <2>1, <2>2, <2>3, <2>4 DEF Recording
  <2>6. \A c \in calls : c.thread[1] = "audio" => Abandoned("audio", c.thread[2])'
    <3>1. \A c \in calls : c.thread[2] \in Starts
      BY CallsNow
    <3> QED
      BY <2>1, <2>2, <2>5, <3>1 DEF Recording
  <2> QED
    BY <1>1, <1>3, <2>1, <2>5, <2>6 DEF Recording
<1>10. Controlling'
  BY <1>1, <1>3, <1>4, <1>8, ControllingKept
<1> QED
  BY <1>5, <1>6, <1>7, <1>9, <1>10

\* UdpTransport.stop up to its join.
LEMMA StopUdpStep == IInv /\ StopUdp => IInv'
<1> SUFFICES ASSUME IInv, StopUdp PROVE IInv'
  OBVIOUS
<1> USE DEF IInv
<1>1. /\ UNCHANGED <<app, cam, enc, codecs, loops, running, ready, audio, mic, ctl, links>>
      /\ UNCHANGED <<calls, live, lost, unjoined, count, dead>> /\ main.pc = "stopUdp"
      /\ Goto("joinUdp") /\ receivers' = receivers \ {svc.thermal}
      /\ port' = IF port = udp.n THEN 0 ELSE port
  BY DEF StopUdp, At, encoderVars, audioVars, nativeVars
<1>2. /\ main \in Mains /\ svc \in Services /\ udp \in Engines /\ receivers \subseteq Starts
      /\ port \in Starts \cup {0}
  BY DEF TypeOK
<1>3. main' \in Mains /\ main'.pc = "joinUdp" /\ main'.call = main.call
  BY <1>1, <1>2, GotoEffect
<1>4. /\ svc' \in Services /\ svc'.isStreaming = svc.isStreaming /\ svc'.instance = svc.instance
      /\ svc'.nativeHandle = svc.nativeHandle
  BY <1>2 DEF StopUdp, Services
<1>5. udp' \in Engines /\ udp'.n = udp.n
  BY <1>2 DEF StopUdp, Engines
<1>6. TypeOK'
  <2>1. receivers' \subseteq Starts /\ port' \in Starts \cup {0}
    BY <1>1, <1>2
  <2> QED
    BY <1>1, <1>3, <1>4, <1>5, <2>1 DEF TypeOK
<1>7. Places' /\ Locked' /\ Bounded' /\ main.call \in StopCalls
  BY <1>1, <1>3, <1>4, StoppingKept DEF StopPcs
<1>8. Looping' /\ Handles'
  BY <1>1, <1>3, <1>4, LoopingKept, HandlesKept
<1>9. Resting' => Resting
  BY <1>3, <1>7 DEF Resting, StopCalls
<1>10. Recording' /\ Controlling'
  BY <1>1, <1>3, <1>4, <1>5, <1>9, RecordingKept, ControllingKept
<1> QED
  BY <1>6, <1>7, <1>8, <1>10

\* join(1000) of the control thread.
LEMMA JoinUdpStep == IInv /\ JoinUdp => IInv'
<1> SUFFICES ASSUME IInv, JoinUdp PROVE IInv'
  OBVIOUS
<1> USE DEF IInv
<1> DEFINE n == udp.n
<1>1. /\ UNCHANGED <<app, svc, cam, enc, codecs, loops, running, ready, audio, mic, ctl, port, links>>
      /\ UNCHANGED <<calls, live, receivers, lost, count, dead>> /\ main.pc = "joinUdp"
      /\ Goto("stopBluetooth") /\ GivesUpOn("control", n, n # 0 /\ ctl[n] # "off") /\ udp' = NoEngine
  BY DEF JoinUdp, At, encoderVars, audioVars, nativeVars
<1>2. main \in Mains /\ unjoined \subseteq {"audio", "control"} \X Starts /\ (n # 0 => n \in Starts)
  BY DEF TypeOK, Engines
<1>3. main' \in Mains /\ main'.pc = "stopBluetooth" /\ main'.call = main.call
  BY <1>1, <1>2, GotoEffect
<1>4. udp' \in Engines /\ udp'.n = 0
  BY <1>1 DEF NoEngine, Engines
<1>5. unjoined' \subseteq {"audio", "control"} \X Starts /\ unjoined \subseteq unjoined'
  BY <1>1, <1>2 DEF GivesUpOn
<1>6. TypeOK'
  BY <1>1, <1>3, <1>4, <1>5 DEF TypeOK
<1>7. Places' /\ Locked' /\ Bounded' /\ main.call \in StopCalls
  BY <1>1, <1>3, StoppingKept DEF StopPcs
<1>8. Looping' /\ Handles'
  BY <1>1, <1>3, LoopingKept, HandlesKept
<1>9. Recording'
  BY <1>1, <1>3, <1>5, RecordingKept
<1>10. Controlling'
  <2>1. Controlling /\ 0 \notin Starts
    BY ServiceAssumption DEF Starts
  <2>2. \A u : Abandoned("control", u) => Abandoned("control", u)'
    BY <1>5 DEF Abandoned
  <2>3. \A u : u = n /\ u # 0 /\ ctl[u] # "off" => Abandoned("control", u)'
    BY <1>1 DEF GivesUpOn, Abandoned
  <2>4. \A u \in Starts : ctl[u] # "off" => Abandoned("control", u)'
    BY <2>1, <2>2, <2>3 DEF Controlling
  <2>5. \A c \in calls : c.thread[1] = "control" => Abandoned("control", c.thread[2])'
    <3>1. \A c \in calls : c.thread[2] \in Starts
      BY CallsNow
    <3> QED
      BY <2>1, <2>2, <2>4, <3>1 DEF Controlling
  <2> QED
    BY <1>1, <1>4, <2>4, <2>5 DEF Controlling
<1> QED
  BY <1>6, <1>7, <1>8, <1>9, <1>10

\* BluetoothTransport.stop and UsbTransport.stop.
LEMMA StopLinksStep == IInv /\ (StopBluetooth \/ StopUsb) => IInv'
<1> SUFFICES ASSUME IInv, StopBluetooth \/ StopUsb PROVE IInv'
  OBVIOUS
<1> USE DEF IInv
<1>1. /\ UNCHANGED <<app, svc, cam, enc, codecs, loops, running, ready, audio, mic, udp, ctl, port>>
      /\ UNCHANGED <<calls, live, receivers, lost, unjoined, count, dead>>
      /\ main.pc \in {"stopBluetooth", "stopUsb"} /\ links' \subseteq links
  BY DEF StopBluetooth, StopUsb, At, encoderVars, audioVars, nativeVars, history
<1>2. PICK p \in {"stopUsb", "destroy"} : Goto(p)
  BY DEF StopBluetooth, StopUsb
<1>3. main \in Mains /\ links \subseteq {"bluetooth", "usb"}
  BY DEF TypeOK
<1>4. main' \in Mains /\ main'.pc = p /\ main'.call = main.call
  BY <1>2, <1>3, GotoEffect
<1>5. links' \subseteq {"bluetooth", "usb"}
  BY <1>1, <1>3
<1>6. TypeOK'
  BY <1>1, <1>4, <1>5 DEF TypeOK
<1>7. Places' /\ Locked' /\ Bounded' /\ main.call \in StopCalls
  BY <1>1, <1>4, StoppingKept DEF StopPcs
<1>8. Looping' /\ Handles' /\ Resting
  BY <1>1, <1>4, LoopingKept, HandlesKept DEF Resting
<1>9. Recording' /\ Controlling'
  BY <1>1, <1>3, <1>4, <1>8, RestingKept
<1> QED
  BY <1>6, <1>7, <1>8, <1>9

\* nativeDestroySession.
LEMMA DestroyNativeStep == IInv /\ DestroyNative => IInv'
<1> SUFFICES ASSUME IInv, DestroyNative PROVE IInv'
  OBVIOUS
<1> USE DEF IInv
<1>1. /\ UNCHANGED <<app, cam, enc, codecs, loops, running, ready, audio, mic, udp, ctl, port, links>>
      /\ UNCHANGED <<calls, receivers, lost, unjoined, count, dead>> /\ main.pc = "destroy"
      /\ Goto("return") /\ live' = live \ {svc.nativeHandle}
  BY DEF DestroyNative, At, encoderVars, audioVars, udpVars, history
<1>2. main \in Mains /\ svc \in Services /\ live \subseteq Starts
  BY DEF TypeOK
<1>3. main' \in Mains /\ main'.pc = "return" /\ main'.call = main.call
  BY <1>1, <1>2, GotoEffect
<1>4. /\ svc' \in Services /\ svc'.isStreaming = svc.isStreaming /\ svc'.instance = svc.instance
      /\ svc'.nativeHandle = 0
  BY <1>2 DEF DestroyNative, Services
<1>5. live' \subseteq Starts
  BY <1>1, <1>2
<1>6. TypeOK'
  BY <1>1, <1>3, <1>4, <1>5 DEF TypeOK
<1>7. Places' /\ Locked' /\ Bounded' /\ main.call \in StopCalls
  BY <1>1, <1>3, <1>4, StoppingKept DEF StopPcs
<1>8. Looping' /\ Resting
  BY <1>1, <1>3, LoopingKept DEF Resting
<1>9. Handles'
  BY <1>1, <1>4 DEF Handles
<1>10. Recording' /\ Controlling'
  BY <1>1, <1>3, <1>4, <1>8, RestingKept
<1> QED
  BY <1>6, <1>7, <1>8, <1>9, <1>10

\* What follows stopStreaming in its callers.
LEMMA ReturnStep == IInv /\ Return => IInv'
<1> SUFFICES ASSUME IInv, Return PROVE IInv'
  OBVIOUS
<1> USE DEF IInv
<1>1. /\ UNCHANGED <<codecs, loops, running, ready, mic, ctl, port, links, calls, live>>
      /\ UNCHANGED <<receivers, unjoined, count, dead>> /\ main.pc = "return" /\ main' = Idle
  BY DEF Return, At, nativeVars
<1>2. /\ app \in Apps /\ svc \in Services /\ cam \in Cameras /\ lost \in BOOLEAN /\ count \in Counts
      /\ dead \in BOOLEAN
  BY DEF TypeOK
<1>3. main' \in Mains /\ main'.pc = "idle" /\ main'.call = "none"
  BY <1>1 DEF Idle, Mains
<1>4. main.call \in StopCalls /\ svc.isStreaming = FALSE
  BY <1>1 DEF Places, StartPcs, ClosePcs
<1>5. Resting /\ ~Encoding /\ ~Encoding'
  BY <1>1, <1>3, <1>4 DEF Resting, Encoding, StopCalls
<1>6. CASE /\ app' \in Apps /\ app'.start = app.start /\ svc' \in Services
           /\ svc'.isStreaming = FALSE /\ svc'.nativeHandle = svc.nativeHandle
           /\ UNCHANGED <<cam, enc, audio, udp, lost>>
  <2>1. Places'
    BY <1>3, <1>6 DEF Places
  <2>2. Bounded'
    BY <1>1, <1>3, <1>4, <1>5, <1>6, BoundedKept
  <2> QED
    BY <1>1, <1>2, <1>3, <1>5, <1>6, <2>1, <2>2, MessageStep
<1>7. CASE /\ main.call = "destroy" /\ svc' = [NoService EXCEPT !.wanted = svc.wanted]
           /\ cam' = NoCamera /\ enc' = NoEncoder /\ audio' = NoEngine /\ udp' = NoEngine
           /\ lost' = (lost \/ CameraOpen) /\ app' = app
  <2>1. svc' \in Services /\ svc'.isStreaming = FALSE /\ svc'.nativeHandle = 0
    BY <1>2, <1>7 DEF NoService, Services
  <2>2. enc' \in Encoders /\ enc'.threads = {} /\ enc'.thread = 0
    BY <1>7 DEF NoEncoder, Encoders
  <2>3. audio' \in Engines /\ udp' \in Engines /\ audio'.n = 0 /\ udp'.n = 0
    BY <1>7 DEF NoEngine, Engines
  <2>4. cam' \in Cameras /\ cam'.os = "closed" /\ cam'.lock = 1 /\ lost' \in BOOLEAN
    BY <1>2, <1>7, NoCameraFacts
  <2>5. TypeOK'
    BY <1>1, <1>2, <1>3, <1>7, <2>1, <2>2, <2>3, <2>4 DEF TypeOK
  <2>6. Places' /\ Locked' /\ Looping' /\ Handles'
    BY <1>1, <1>3, <2>1, <2>2, <2>4 DEF Places, Locked, Looping, Handles
  <2>7. Bounded'
    BY <1>1, <1>3, <1>4, <1>5, <1>7, <2>1, BoundedKept
  <2>8. Recording' /\ Controlling'
    BY <1>1, <1>3, <1>5, <2>3, RestingKept
  <2> QED
    BY <2>5, <2>6, <2>7, <2>8
<1>8. CASE main.call = "stop" /\ app' = [app EXCEPT !.isStreaming = FALSE]
           /\ UNCHANGED <<svc, cam, enc, audio, udp, lost>>
  <2>1. app' \in Apps /\ app'.start = app.start
    BY <1>2, <1>8 DEF Apps
  <2> QED
    BY <1>2, <1>4, <1>6, <1>8, <2>1
<1>9. CASE main.call = "halt" /\ svc' = [svc EXCEPT !.stopping = TRUE]
           /\ UNCHANGED <<app, cam, enc, audio, udp, lost>>
  <2>1. /\ svc' \in Services /\ svc'.isStreaming = svc.isStreaming
        /\ svc'.nativeHandle = svc.nativeHandle
    BY <1>2, <1>9 DEF Services
  <2> QED
    BY <1>2, <1>4, <1>6, <1>9, <2>1
<1> QED
  BY <1>7, <1>8, <1>9 DEF Return

-----------------------------------------------------------------------------
(* The theorems *)

\* The app has just been opened.
LEMMA InitIInv == Init => IInv
<1> SUFFICES ASSUME Init PROVE IInv
  OBVIOUS
<1>1. MaxStarts \in Nat /\ MaxMishaps \in Nat /\ MaxTries \in Nat
  BY ServiceAssumption
<1>2. app \in Apps /\ app.start = "none"
  BY <1>1 DEF Init, NewApp, Apps
<1>3. svc \in Services /\ svc.isStreaming = FALSE /\ svc.nativeHandle = 0
  BY DEF Init, NoService, Services
<1>4. main \in Mains /\ main.pc = "idle" /\ main.call = "none"
  BY DEF Init, Idle, Mains
<1>5. cam \in Cameras /\ cam.os = "closed" /\ cam.lock = 1
  BY NoCameraFacts DEF Init
<1>6. enc \in Encoders /\ enc.threads = {} /\ enc.thread = 0
  BY DEF Init, NoEncoder, Encoders
<1>7. audio \in Engines /\ udp \in Engines /\ audio.n = 0 /\ udp.n = 0
  BY DEF Init, NoEngine, Engines
<1>8. /\ mic \in [Starts -> {"off", "top", "codec", "sending"}]
      /\ ctl \in [Starts -> {"off", "starting", "accepting", "pairing", "serving"}]
      /\ \A n \in Starts : mic[n] = "off" /\ ctl[n] = "off"
  BY DEF Init
<1>9. /\ count \in Counts /\ count.starts = 0 /\ count.encoders = 0 /\ count.mishaps = 0
      /\ count.failed = 0
  <2>1. 0 \in Starts \cup {0} /\ 0 \in 0 .. MaxMishaps
    BY <1>1
  <2> QED
    BY <2>1 DEF Init, Counts
<1>10. /\ codecs = {} /\ loops = {} /\ running = {} /\ ready = {} /\ port = 0 /\ links = {} /\ calls = {}
       /\ live = {} /\ receivers = {} /\ lost = FALSE /\ dead = FALSE /\ unjoined = {}
  BY DEF Init
<1>11. TypeOK
  BY <1>2, <1>3, <1>4, <1>5, <1>6, <1>7, <1>8, <1>9, <1>10 DEF TypeOK
<1>12. Places /\ Locked /\ Looping /\ Handles
  BY <1>3, <1>4, <1>5, <1>6, <1>10 DEF Places, Locked, Looping, Handles
<1>13. Bounded
  BY <1>1, <1>2, <1>4, <1>9 DEF Bounded, Encoding
<1>14. Recording /\ Controlling
  BY <1>4, <1>7, <1>8, <1>10 DEF Recording, Controlling
<1> QED
  BY <1>11, <1>12, <1>13, <1>14 DEF IInv

\* Every step keeps the invariant.
LEMMA NextIInv == IInv /\ [Next]_vars => IInv'
<1> SUFFICES ASSUME IInv, [Next]_vars PROVE IInv'
  OBVIOUS
<1>1. CASE User
  BY <1>1, AppStep, StopStep, SwitchCameraStep, CameraThreadStep DEF User
<1>2. CASE MainThread
  BY <1>2, AppStep, StopStep, TryStartStep, ReplyStep, CreateNativeStep, NativeFailsStep,
     StartEncoderStep, StartFailsStep, OpenCameraStep, StartAudioStep, StartTransportsStep,
     ReturnStep, CloseDeviceStep, DropSurfaceStep, JoinCameraStep, RestartEncoderStep,
     StopEncoderStep, JoinEncoderStep, StopAudioStep, ReleaseAudioCodecStep, JoinAudioStep,
     StopUdpStep, JoinUdpStep, StopLinksStep, DestroyNativeStep DEF MainThread
<1>3. CASE CameraThread
  BY <1>3, OnOpenedStep, OnCameraLostStep, CameraThreadStep DEF CameraThread
<1>4. CASE \E n \in Starts : EncoderThread(n) \/ AudioThread(n) \/ ControlThread(n)
  BY <1>4, EncoderThreadStep, AudioThreadStep, ControlThreadStep
<1>5. CASE UNCHANGED vars
  <2>1. /\ UNCHANGED <<app, svc, main, cam, enc, codecs, loops, running, ready, audio, udp, links>>
        /\ UNCHANGED <<live, receivers, lost, unjoined, count, mic, ctl, port, calls, dead>>
    BY <1>5 DEF vars
  <2>2. /\ dead \in BOOLEAN /\ port \in Starts \cup {0}
        /\ mic \in [Starts -> {"off", "top", "codec", "sending"}]
        /\ ctl \in [Starts -> {"off", "starting", "accepting", "pairing", "serving"}]
    BY DEF IInv, TypeOK
  <2>3. CallsKept /\ ready' \subseteq loops
    BY <2>1, CallsNow DEF CallsKept
  <2> QED
    BY <2>1, <2>2, <2>3, ThreadStep
<1> QED
  BY <1>1, <1>2, <1>3, <1>4, <1>5 DEF Next, Crashed

\* The invariant holds however often the stream is started, stopped and switched.
THEOREM ServiceCorrect == Spec => []IInv
<1>1. Init => IInv
  BY InitIInv
<1>2. IInv /\ [Next]_vars => IInv'
  BY NextIInv
<1> QED
  BY <1>1, <1>2, PTL DEF Spec

\* Every variable keeps its type: in particular cameraOpenCloseLock never has more
\* than two permits, and only threads that live have isRunning set.
THEOREM ServiceTypeCorrect == Spec => []TypeOK
<1>1. IInv => TypeOK
  BY DEF IInv
<1> QED
  BY <1>1, ServiceCorrect, PTL

\* stopStreaming waits for what calls native code before nativeDestroySession: no
\* thread is ever in native code with a destroyed session but one that join(1000)
\* gave up on, or an encoder thread that switchCamera replaced.
THEOREM NativeSessionSafe == Spec => []NoUseAfterDestroy
<1>1. IInv => NoUseAfterDestroy
  <2> SUFFICES ASSUME IInv, NEW c \in calls
               PROVE  \/ c.handle \in live
                      \/ c.thread \in unjoined
                      \/ c.thread[1] = "video" /\ c.thread[2] \in loops
    BY DEF NoUseAfterDestroy
  <2>1. Handles /\ Recording /\ Controlling /\ calls \subseteq NativeCalls
    BY DEF IInv, TypeOK
  <2>2. c.thread \in {"video", "audio", "control"} \X Starts /\ c.handle \in Starts
    BY <2>1 DEF NativeCalls
  <2>3. c.thread[1] \in {"video", "audio", "control"} /\ c.thread = <<c.thread[1], c.thread[2]>>
    BY <2>2
  <2>4. c.handle # 0
    BY <2>2, ServiceAssumption DEF Starts
  <2>5. \A k : c.thread[1] = k /\ Abandoned(k, c.thread[2]) => c.thread \in unjoined
    BY <2>3 DEF Abandoned
  <2> QED
    BY <2>1, <2>3, <2>4, <2>5 DEF Handles, Recording, Controlling
<1> QED
  BY <1>1, ServiceCorrect, PTL

\* closeCamera never works on a camera that is still being opened, although
\* onDisconnected and onError release a lock that onOpened has released.
THEOREM CameraLockHolds == Spec => []NoCloseWhileOpening
<1>1. IInv => NoCloseWhileOpening
  BY DEF IInv, Locked, NoCloseWhileOpening
<1> QED
  BY <1>1, ServiceCorrect, PTL
=============================================================================
