-------------------------- MODULE StreamingService --------------------------
(***************************************************************************)
(* The phone's streaming service: how VeyraStreamingService starts, stops  *)
(* and switches the camera, the encoder, the microphone and the control    *)
(* server around one native session, and how the app asks it to.           *)
(*                                                                         *)
(* The service, the Flutter plugin and every broadcast run on the main     *)
(* thread, one message after the other; a message that has to wait (for    *)
(* the camera's lock, for a thread to end) is several steps.  Around it    *)
(* run the camera's background thread, one encoder thread per start of the *)
(* encoder, one recording thread and one control thread per session.       *)
(*                                                                         *)
(* Native sessions, recorders and control servers bear the number of the   *)
(* start they were made in; codecs and their threads the number of the     *)
(* encoder start.  The thermal tiers are left out.                         *)
(***************************************************************************)
EXTENDS Integers, FiniteSets

CONSTANTS
  MaxStarts,    \* bound: starts that do not fail
  MaxMishaps,   \* bound: starts that fail and camera switches, together
  MaxTries,     \* how often tryStart looks for the service again (5 in the code)
  MaxCalls      \* bound: native calls in progress at once

ASSUME ServiceAssumption ==
  /\ MaxStarts \in Nat /\ MaxMishaps \in Nat /\ MaxTries \in Nat
  /\ MaxCalls \in Nat

VARIABLES
  app,       \* the app: Dart's flags and the plugin's pending start
  svc,       \* the service: instance, isStreaming, nativeHandle, thermalController
  main,      \* the call the main thread is in, and where
  cam,       \* cameraController, its thread and its device
  enc,       \* encoder: its codec, its thread, all its threads
  codecs,    \* video codecs that run
  loops,     \* encoder threads that live
  running,   \* encoder threads whose encoder has isRunning set
  ready,     \* encoder threads that are about to take an output buffer
  audio,     \* audioEngine: its number and isRunning
  mic,       \* recording threads
  udp,       \* udpTransport: its number and isRunning
  ctl,       \* control threads
  port,      \* the control server that holds port 5150
  links,     \* the other transports that were started and not stopped
  calls,     \* native calls in progress
  live,      \* native sessions that exist
  receivers, \* thermal controllers that are registered
  lost,      \* history: a camera was left open or its thread running
  unjoined,  \* history: threads that join(1000) has given up on
  count,     \* history: starts, encoder starts, mishaps and failed starts so far
  dead       \* the process was ended by an uncaught exception

vars == <<app, svc, main, cam, enc, codecs, loops, running, ready, audio, mic, udp,
          ctl, port, links, calls, live, receivers, lost, unjoined, count, dead>>

encoderVars == <<enc, codecs, loops, running, ready>>
audioVars   == <<audio, mic>>
udpVars     == <<udp, ctl, port, links>>
nativeVars  == <<calls, live>>
history     == <<receivers, lost, unjoined, count>>

-----------------------------------------------------------------------------
NoEncoder == [exists |-> FALSE, codec |-> 0, thread |-> 0, threads |-> {}]
NoEngine  == [n |-> 0, isRunning |-> FALSE]
NoCamera  == [lock |-> 1, device |-> FALSE, surface |-> FALSE, thread |-> "none",
              quit |-> FALSE, os |-> "closed", session |-> "none", starting |-> FALSE,
              notify |-> FALSE]
NewApp    == [isStreaming |-> FALSE, isConnecting |-> FALSE, start |-> "none",
              tries |-> 0, replied |-> TRUE]
NoService == [instance |-> FALSE, wanted |-> FALSE, stopping |-> FALSE,
              isStreaming |-> FALSE, nativeHandle |-> 0, thermal |-> 0]
Idle      == [call |-> "none", pc |-> "idle"]

\* The bound on starts; nothing stops a stream under a start it leaves no
\* room for.
RoomForStart == count.starts - count.failed < MaxStarts

MainIdle == main.pc = "idle" /\ ~dead

At(pc) == main.pc = pc /\ ~dead

Goto(pc) == main' = [main EXCEPT !.pc = pc]

CameraOpen == cam.os # "closed" \/ cam.thread # "none"

\* A thread is inside a native function with the handle it has read.
Call(kind, n) == [thread |-> <<kind, n>>, handle |-> svc.nativeHandle]
InCall(kind, n) == \E c \in calls : c.thread = <<kind, n>>

-----------------------------------------------------------------------------
(* The app: Dart's controller and the plugin's tryStart *)

\* Dart's startStreaming up to the plugin's, which asks the system for the
\* service.  A refused permission or texture ends it before that.
AppStart ==
  /\ MainIdle
  /\ ~app.isStreaming /\ ~app.isConnecting
  /\ RoomForStart \/ svc.isStreaming
  /\ app' = [app EXCEPT !.isConnecting = TRUE, !.start = "trying", !.tries = 0,
                        !.replied = FALSE]
  /\ svc' = [svc EXCEPT !.wanted = ~svc.instance \/ svc.stopping]
  /\ UNCHANGED <<main, cam, encoderVars, audioVars, udpVars, nativeVars, history, dead>>

\* The user closes the app and opens it again: Dart begins anew, the service
\* goes on.
AppRestart ==
  /\ MainIdle
  /\ app.start = "none" /\ app # NewApp
  /\ app' = NewApp
  /\ UNCHANGED <<svc, main, cam, encoderVars, audioVars, udpVars, nativeVars, history, dead>>

\* onCreate of a new service.
OnCreate ==
  /\ MainIdle
  /\ svc.wanted /\ ~svc.instance
  /\ svc' = [svc EXCEPT !.instance = TRUE, !.wanted = FALSE]
  /\ UNCHANGED <<app, main, cam, encoderVars, audioVars, udpVars, nativeVars, history, dead>>

\* A reply as Dart takes it; start is what is left of the plugin's call.
Replied(shown, start) ==
  app' = [app EXCEPT !.replied = TRUE, !.start = start, !.tries = 0,
                     !.isConnecting = FALSE, !.isStreaming = shown]

\* tryStart: startStreaming returns at once if the service is streaming, and
\* the delayed reply is posted all the same.  Without its permissions it
\* throws before it has begun.
TryStart ==
  /\ MainIdle
  /\ app.start = "trying"
  /\ \/ /\ svc.instance /\ svc.isStreaming
        /\ app' = [app EXCEPT !.start = "posted", !.tries = 0]
        /\ UNCHANGED <<svc, main>>
     \/ /\ svc.instance /\ ~svc.isStreaming
        /\ svc' = [svc EXCEPT !.isStreaming = TRUE]
        /\ main' = [call |-> "start", pc |-> "native"]
        /\ UNCHANGED app
     \/ /\ svc.instance /\ ~svc.isStreaming
        /\ Replied(FALSE, "none")
        /\ UNCHANGED <<svc, main>>
     \/ /\ ~svc.instance
        /\ IF app.tries < MaxTries
             THEN app' = [app EXCEPT !.tries = @ + 1]
             ELSE Replied(FALSE, "none")
        /\ UNCHANGED <<svc, main>>
  /\ UNCHANGED <<cam, encoderVars, audioVars, udpVars, nativeVars, history, dead>>

\* The delayed reply.  resultReplied is read here and set in Reply, and the
\* camera's thread does the same.
ReplyDelayed ==
  /\ MainIdle
  /\ app.start = "posted"
  /\ IF app.replied THEN app' = [app EXCEPT !.start = "none"] /\ UNCHANGED main
                    ELSE main' = [call |-> "reply", pc |-> "reply"] /\ UNCHANGED app
  /\ UNCHANGED <<svc, cam, encoderVars, audioVars, udpVars, nativeVars, history, dead>>

\* A second reply throws on the main thread.
Reply ==
  /\ At("reply")
  /\ dead' = app.replied
  /\ IF app.replied THEN app' = [app EXCEPT !.start = "none"] ELSE Replied(TRUE, "none")
  /\ main' = Idle
  /\ UNCHANGED <<svc, cam, encoderVars, audioVars, udpVars, nativeVars, history>>

-----------------------------------------------------------------------------
(* startStreaming *)

\* nativeCreateSession, nativeGetSessionId and the thermal controller.
CreateNative ==
  /\ At("native")
  /\ LET n == count.starts + 1
     IN /\ count' = [count EXCEPT !.starts = n]
        /\ live' = live \cup {n}
        /\ svc' = [svc EXCEPT !.nativeHandle = n, !.thermal = n]
        /\ receivers' = receivers \cup {n}
  /\ Goto("encoder")
  /\ UNCHANGED <<app, cam, encoderVars, audioVars, udpVars, calls, lost, unjoined, dead>>

\* There is no native library, or no native session: nothing was started.
NativeFails ==
  /\ At("native")
  /\ count.mishaps < MaxMishaps
  /\ count' = [count EXCEPT !.mishaps = @ + 1]
  /\ svc' = [svc EXCEPT !.isStreaming = FALSE, !.nativeHandle = 0]
  /\ Replied(FALSE, "none")
  /\ main' = Idle
  /\ UNCHANGED <<cam, encoderVars, audioVars, udpVars, nativeVars, receivers, lost, unjoined,
                 dead>>

\* H264Encoder.start of encoder e: a new thread and a new codec, whatever the
\* encoder has already.
EncoderStarted(e) ==
  LET n == count.encoders + 1
  IN /\ count' = [count EXCEPT !.encoders = n]
     /\ enc' = [exists |-> TRUE, codec |-> n, thread |-> n, threads |-> e.threads \cup {n}]
     /\ codecs' = codecs \cup {n}
     /\ loops' = loops \cup {n}
     /\ running' = running \cup e.threads \cup {n}
     /\ UNCHANGED ready

\* H264Encoder.start throws: it releases mediaCodec, which is the old codec
\* if no new one could be created and the new one if it could not be started.
EncoderFailed(e) ==
  /\ enc' = [exists |-> TRUE, codec |-> 0, thread |-> 0, threads |-> e.threads]
  /\ codecs' \in {codecs, codecs \ {e.codec}}
  /\ UNCHANGED <<loops, running, ready>>

\* The encoder of a new session.
StartEncoder ==
  /\ At("encoder")
  /\ EncoderStarted(NoEncoder)
  /\ Goto("camera")
  /\ UNCHANGED <<app, svc, cam, audioVars, udpVars, nativeVars, receivers, lost, unjoined, dead>>

\* The encoder cannot be started: the handler at the end of startStreaming
\* clears isStreaming, so that its stopStreaming returns at once.
StartFails ==
  /\ At("encoder")
  /\ count.mishaps < MaxMishaps
  /\ count' = [count EXCEPT !.mishaps = @ + 1, !.failed = @ + 1]
  /\ EncoderFailed(NoEncoder)
  /\ svc' = [svc EXCEPT !.isStreaming = FALSE]
  /\ Replied(FALSE, "none")
  /\ main' = Idle
  /\ UNCHANGED <<cam, audioVars, udpVars, nativeVars, receivers, lost, unjoined, dead>>

\* A new Camera2Controller opens its camera, or the system refuses and the
\* lock is free again.  Whatever the old controller still has is out of reach.
OpenCamera ==
  /\ At("camera")
  /\ \E os \in {"opening", "closed"} :
       cam' = [NoCamera EXCEPT !.lock = IF os = "opening" THEN 0 ELSE 1, !.os = os,
                               !.surface = TRUE, !.thread = "idle",
                               !.starting = (main.call = "start")]
  /\ lost' = (lost \/ CameraOpen)
  /\ IF main.call = "start" THEN Goto("audio") ELSE main' = Idle
  /\ UNCHANGED <<app, svc, encoderVars, audioVars, udpVars, nativeVars, receivers,
                 unjoined, count, dead>>

\* AudioEngine.start; a failure leaves no thread and is not fatal.
StartAudio ==
  /\ At("audio")
  /\ \/ /\ audio' = [n |-> count.starts, isRunning |-> TRUE]
        /\ mic' = [mic EXCEPT ![count.starts] = "top"]
     \/ audio' = NoEngine /\ UNCHANGED mic
  /\ Goto("transports")
  /\ UNCHANGED <<app, svc, cam, encoderVars, udpVars, nativeVars, history, dead>>

\* The RFCOMM server, which does nothing if Bluetooth is off, and the USB
\* receiver.  What the one receives and the other is told is thrown away.
StartLinks == links' = {"bluetooth", "usb"}

\* Mutant: nobody posts the delayed reply.
NoDelayedReply ==
  /\ At("transports")
  /\ udp' = [n |-> count.starts, isRunning |-> TRUE]
  /\ ctl' = [ctl EXCEPT ![count.starts] = "starting"]
  /\ app' = [app EXCEPT !.start = "none", !.tries = 0]
  /\ StartLinks
  /\ main' = Idle
  /\ UNCHANGED <<svc, cam, encoderVars, audioVars, port, nativeVars, history, dead>>

\* UdpTransport.start, and the delayed reply is posted.
StartTransports ==
  /\ At("transports")
  /\ udp' = [n |-> count.starts, isRunning |-> TRUE]
  /\ ctl' = [ctl EXCEPT ![count.starts] = "starting"]
  /\ app' = [app EXCEPT !.start = "posted", !.tries = 0]
  /\ StartLinks
  /\ main' = Idle
  /\ UNCHANGED <<svc, cam, encoderVars, audioVars, port, nativeVars, history, dead>>

-----------------------------------------------------------------------------
(* stopStreaming, switchCamera and the end of the service *)

\* stopStreaming returns at once if nothing is streaming.
Stop(call) ==
  /\ app.start = "trying" => RoomForStart
  /\ svc' = [svc EXCEPT !.isStreaming = FALSE]
  /\ main' = [call |-> call, pc |-> IF svc.instance /\ svc.isStreaming THEN "close" ELSE "return"]
  /\ UNCHANGED <<app, cam, encoderVars, audioVars, udpVars, nativeVars, history, dead>>

\* Dart's stopStreaming through the plugin.
AppStop == MainIdle /\ app.isStreaming /\ Stop("stop")

\* The Stop button of the notification: ACTION_STOP_STREAMING.
NotificationStop == MainIdle /\ svc.instance /\ Stop("halt")

\* onDestroy, some time after stopSelf.
OnDestroy == MainIdle /\ svc.instance /\ svc.stopping /\ Stop("destroy")

\* What follows stopStreaming in its three callers.  Dart is told of its own
\* stop only; a destroyed service takes its fields with it.
Return ==
  /\ At("return")
  /\ main' = Idle
  /\ \/ /\ main.call = "stop"
        /\ app' = [app EXCEPT !.isStreaming = FALSE]
        /\ UNCHANGED <<svc, cam, enc, audio, udp, lost>>
     \/ /\ main.call = "halt"
        /\ svc' = [svc EXCEPT !.stopping = TRUE]
        /\ UNCHANGED <<app, cam, enc, audio, udp, lost>>
     \/ /\ main.call = "destroy"
        /\ svc' = [NoService EXCEPT !.wanted = svc.wanted]
        /\ cam' = NoCamera /\ enc' = NoEncoder /\ audio' = NoEngine /\ udp' = NoEngine
        /\ lost' = (lost \/ CameraOpen)
        /\ UNCHANGED app
  /\ UNCHANGED <<codecs, loops, running, ready, mic, ctl, port, links, nativeVars, receivers,
                 unjoined, count, dead>>

\* switchCamera: only a missing encoder ends it, not a stopped stream.
SwitchCamera ==
  /\ MainIdle
  /\ svc.instance /\ enc.exists
  /\ count.mishaps < MaxMishaps
  /\ count' = [count EXCEPT !.mishaps = @ + 1]
  /\ main' = [call |-> "switch", pc |-> "close"]
  /\ UNCHANGED <<app, svc, cam, encoderVars, audioVars, udpVars, nativeVars, receivers,
                 lost, unjoined, dead>>

\* Mutant: closeCamera does not wait for the lock.
CloseAnyway ==
  /\ At("close")
  /\ cam' = [cam EXCEPT !.session = "none", !.device = FALSE,
                        !.os = IF cam.device THEN "closed" ELSE @]
  /\ Goto("surface")
  /\ UNCHANGED <<app, svc, encoderVars, audioVars, udpVars, nativeVars, history, dead>>

\* closeCamera up to cameraDevice = null, once it has the lock.
CloseDevice ==
  /\ At("close")
  /\ cam.lock > 0
  /\ cam' = [cam EXCEPT !.lock = @ - 1, !.session = "none", !.device = FALSE,
                        !.os = IF cam.device THEN "closed" ELSE @]
  /\ Goto("surface")
  /\ UNCHANGED <<app, svc, encoderVars, audioVars, udpVars, nativeVars, history, dead>>

\* Mutant: the lock is released in the try block and in the finally block.
ReleaseTwice ==
  /\ At("surface")
  /\ cam' = [cam EXCEPT !.surface = FALSE, !.lock = @ + 2, !.quit = TRUE]
  /\ Goto("joinCamera")
  /\ UNCHANGED <<app, svc, encoderVars, audioVars, udpVars, nativeVars, history, dead>>

\* The rest of closeCamera up to the join.
DropSurface ==
  /\ At("surface")
  /\ cam' = [cam EXCEPT !.surface = FALSE, !.lock = @ + 1, !.quit = TRUE]
  /\ Goto("joinCamera")
  /\ UNCHANGED <<app, svc, encoderVars, audioVars, udpVars, nativeVars, history, dead>>

\* stopBackgroundThread waits without a limit.  stopStreaming then drops the
\* controller, switchCamera keeps it until it has a new one.
JoinCamera ==
  /\ At("joinCamera")
  /\ cam.thread = "none"
  /\ IF main.call = "switch"
       THEN Goto("restart") /\ UNCHANGED <<cam, lost>>
       ELSE Goto("stopEncoder") /\ cam' = NoCamera /\ lost' = (lost \/ CameraOpen)
  /\ UNCHANGED <<app, svc, encoderVars, audioVars, udpVars, nativeVars, receivers,
                 unjoined, count, dead>>

\* switchCamera starts the running encoder again.  If that throws, the
\* plugin's caller gets the error and the stream has no camera.
RestartEncoder ==
  /\ At("restart")
  /\ \/ EncoderStarted(enc) /\ Goto("camera")
     \/ EncoderFailed(enc) /\ main' = Idle /\ UNCHANGED count
  /\ UNCHANGED <<app, svc, cam, audioVars, udpVars, nativeVars, receivers, lost, unjoined, dead>>

\* H264Encoder.stop up to its join: the codec it knows of is released.
StopEncoder ==
  /\ At("stopEncoder")
  /\ running' = running \ enc.threads
  /\ codecs' = codecs \ {enc.codec}
  /\ Goto("joinEncoder")
  /\ UNCHANGED <<app, svc, cam, enc, loops, ready, audioVars, udpVars, nativeVars, history, dead>>

\* Mutant: quitSafely without the join.
QuitWithoutJoin ==
  /\ At("joinEncoder")
  /\ loops' = loops \ {enc.thread}
  /\ enc' = NoEncoder
  /\ Goto("stopAudio")
  /\ UNCHANGED <<app, svc, cam, codecs, running, ready, audioVars, udpVars, nativeVars, history,
                 dead>>

\* The join has no limit either; it is for the latest thread only, which may
\* be in the middle of a callback.
JoinEncoder ==
  /\ At("joinEncoder")
  /\ enc.thread \notin ready /\ ~InCall("video", enc.thread)
  /\ loops' = loops \ {enc.thread}
  /\ enc' = NoEncoder
  /\ Goto("stopAudio")
  /\ UNCHANGED <<app, svc, cam, codecs, running, ready, audioVars, udpVars, nativeVars, history,
                 dead>>

\* AudioEngine.stop: the flag and the recorder ...
StopAudio ==
  /\ At("stopAudio")
  /\ audio' = [audio EXCEPT !.isRunning = FALSE]
  /\ Goto("releaseAudio")
  /\ UNCHANGED <<app, svc, cam, encoderVars, mic, udpVars, nativeVars, history, dead>>

\* ... then the codec, which the recording thread may be using ...
ReleaseAudioCodec ==
  /\ At("releaseAudio")
  /\ audio' = [audio EXCEPT !.n = 0]
  /\ main' = [main EXCEPT !.pc = IF audio.n = 0 THEN "stopUdp" ELSE "joinAudio"]
  /\ UNCHANGED <<app, svc, cam, encoderVars, mic, udpVars, nativeVars, history, dead>>

\* join(1000) returns after a second at the latest, with the thread ended or not.
GivesUpOn(kind, n, runs) ==
  unjoined' = IF runs THEN unjoined \cup {<<kind, n>>} ELSE unjoined

\* ... then join(1000).
JoinAudio ==
  /\ At("joinAudio")
  /\ GivesUpOn("audio", count.starts, mic[count.starts] # "off")
  /\ Goto("stopUdp")
  /\ UNCHANGED <<app, svc, cam, encoderVars, audioVars, udpVars, nativeVars, receivers, lost,
                 count, dead>>

\* ThermalController.stop and UdpTransport.stop up to its join.  The server
\* socket is closed if the control thread has got as far as making it.
StopUdp ==
  /\ At("stopUdp")
  /\ receivers' = receivers \ {svc.thermal}
  /\ svc' = [svc EXCEPT !.thermal = 0]
  /\ udp' = [udp EXCEPT !.isRunning = FALSE]
  /\ port' = IF port = udp.n THEN 0 ELSE port
  /\ Goto("joinUdp")
  /\ UNCHANGED <<app, cam, encoderVars, audioVars, ctl, links, nativeVars, lost,
                 unjoined, count, dead>>

\* join(1000) again.
JoinUdp ==
  /\ At("joinUdp")
  /\ GivesUpOn("control", udp.n, udp.n # 0 /\ ctl[udp.n] # "off")
  /\ udp' = NoEngine
  /\ Goto("stopBluetooth")
  /\ UNCHANGED <<app, svc, cam, encoderVars, audioVars, ctl, port, links, nativeVars, receivers,
                 lost, count, dead>>

\* BluetoothTransport.stop closes the sockets its thread waits at, and joins it.
StopBluetooth ==
  /\ At("stopBluetooth")
  /\ links' = links \ {"bluetooth"}
  /\ Goto("stopUsb")
  /\ UNCHANGED <<app, svc, cam, encoderVars, audioVars, udp, ctl, port, nativeVars, history,
                 dead>>

StopUsb ==
  /\ At("stopUsb")
  /\ links' = links \ {"usb"}
  /\ Goto("destroy")
  /\ UNCHANGED <<app, svc, cam, encoderVars, audioVars, udp, ctl, port, nativeVars, history,
                 dead>>

\* nativeDestroySession.
DestroyNative ==
  /\ At("destroy")
  /\ live' = live \ {svc.nativeHandle}
  /\ svc' = [svc EXCEPT !.nativeHandle = 0]
  /\ Goto("return")
  /\ UNCHANGED <<app, cam, encoderVars, audioVars, udpVars, calls, history, dead>>

-----------------------------------------------------------------------------
(* The camera's background thread and the system's camera service *)

CameraUnchanged ==
  UNCHANGED <<svc, main, encoderVars, audioVars, udpVars, nativeVars, history, dead>>

\* onOpened lets go of the lock first ...
OnOpened ==
  /\ ~dead /\ cam.thread = "idle" /\ cam.os = "opening"
  /\ cam' = [cam EXCEPT !.lock = @ + 1, !.os = "open", !.thread = "opened"]
  /\ UNCHANGED app /\ CameraUnchanged

\* ... stores the device ...
StoreDevice ==
  /\ ~dead /\ cam.thread = "opened"
  /\ cam' = [cam EXCEPT !.device = TRUE, !.thread = "stored"]
  /\ UNCHANGED app /\ CameraUnchanged

\* ... and asks for a capture session into the encoder's surface.
CreateCaptureSession ==
  /\ ~dead /\ cam.thread = "stored"
  /\ cam' = IF cam.device /\ cam.surface /\ cam.os = "open"
              THEN [cam EXCEPT !.thread = "idle", !.session = "configuring",
                               !.notify = cam.starting, !.starting = FALSE]
              ELSE [cam EXCEPT !.thread = "idle"]
  /\ UNCHANGED app /\ CameraUnchanged

\* Mutant: onError keeps the lock.
KeepLock ==
  /\ ~dead /\ cam.thread = "idle" /\ cam.os # "closed"
  /\ cam' = [cam EXCEPT !.os = "closed", !.device = FALSE, !.session = "none"]
  /\ UNCHANGED app /\ CameraUnchanged

\* onDisconnected and onError, before or after onOpened.
OnCameraLost ==
  /\ ~dead /\ cam.thread = "idle" /\ cam.os # "closed"
  /\ cam' = [cam EXCEPT !.lock = @ + 1, !.os = "closed", !.device = FALSE,
                        !.session = "none"]
  /\ UNCHANGED app /\ CameraUnchanged

\* onConfigured: the repeating request, and, for the camera that
\* startStreaming opened, onStarted, which looks whether it was answered.
OnConfigured ==
  /\ ~dead /\ cam.thread = "idle" /\ cam.session = "configuring"
  /\ cam' = [cam EXCEPT !.session = IF cam.device THEN "active" ELSE "none",
                        !.thread = IF cam.device /\ cam.notify /\ ~app.replied
                                     THEN "reply" ELSE "idle",
                        !.notify = FALSE]
  /\ UNCHANGED app /\ CameraUnchanged

\* onConfigureFailed only logs.
OnConfigureFailed ==
  /\ ~dead /\ cam.thread = "idle" /\ cam.session = "configuring"
  /\ cam' = [cam EXCEPT !.session = "none"]
  /\ UNCHANGED app /\ CameraUnchanged

\* The reply of the camera's thread; a second one throws into onConfigured's
\* own handler.
OnStarted ==
  /\ ~dead /\ cam.thread = "reply"
  /\ cam' = [cam EXCEPT !.thread = "idle"]
  /\ IF app.replied THEN UNCHANGED app ELSE Replied(TRUE, app.start)
  /\ CameraUnchanged

\* The looper has been told to quit and is through with what was posted.
CameraThreadExits ==
  /\ ~dead /\ cam.thread = "idle" /\ cam.quit
  /\ cam' = [cam EXCEPT !.thread = "none"]
  /\ UNCHANGED app /\ CameraUnchanged

\* Screen off or on: updatePreviewSurface makes a new capture session.
ScreenChanged ==
  /\ MainIdle
  /\ cam.device /\ cam.surface /\ cam.os = "open"
  /\ cam' = [cam EXCEPT !.session = "configuring", !.notify = FALSE]
  /\ UNCHANGED app /\ CameraUnchanged

-----------------------------------------------------------------------------
(* The threads that call native code *)

Entered(kind, n) ==
  /\ Cardinality(calls) < MaxCalls
  /\ calls' = calls \cup {Call(kind, n)}
Left(kind, n)    == calls' = {c \in calls : c.thread # <<kind, n>>}

EncoderUnchanged == UNCHANGED <<app, svc, main, cam, enc, codecs, loops, running, audioVars,
                                udpVars, live, history>>

\* onOutputBufferAvailable of a codec that runs, up to its test of isRunning.
OnOutputBufferAvailable(n) ==
  /\ ~dead /\ n \in loops \cap running \cap codecs
  /\ n \notin ready /\ ~InCall("video", n)
  /\ ready' = ready \cup {n}
  /\ EncoderUnchanged /\ UNCHANGED <<calls, dead>>

\* Then getOutputBuffer.  A released codec throws, nothing catches it, and the
\* process ends; otherwise nativeSendVideoNal with the handle of now, unless
\* there is no handle or nothing in the buffer.
SendVideoNal(n) ==
  /\ ~dead /\ n \in ready
  /\ ready' = ready \ {n}
  /\ \/ /\ n \notin codecs
        /\ dead' = TRUE
        /\ UNCHANGED calls
     \/ /\ n \in codecs /\ svc.nativeHandle # 0
        /\ Entered("video", n)
        /\ UNCHANGED dead
     \/ /\ n \in codecs
        /\ UNCHANGED <<calls, dead>>
  /\ EncoderUnchanged

SentVideoNal(n) ==
  /\ ~dead /\ InCall("video", n)
  /\ Left("video", n)
  /\ EncoderUnchanged /\ UNCHANGED <<ready, dead>>

AudioUnchanged == UNCHANGED <<app, svc, main, cam, encoderVars, audio, udpVars, live, history>>

\* processAudioLoop, the test at its head; then it reads from the recorder.
AudioLoop(n) ==
  /\ ~dead /\ mic[n] = "top"
  /\ mic' = [mic EXCEPT ![n] = IF audio.n = n /\ audio.isRunning THEN "codec" ELSE "off"]
  /\ AudioUnchanged /\ UNCHANGED <<calls, dead>>

\* It uses the codec.  A released codec throws, nothing catches it, and the
\* process ends; otherwise there is output to send, or it loops.
UseAudioCodec(n) ==
  /\ ~dead /\ mic[n] = "codec"
  /\ \/ /\ audio.n # n
        /\ dead' = TRUE
        /\ UNCHANGED <<mic, calls>>
     \/ /\ audio.n = n /\ svc.nativeHandle # 0
        /\ mic' = [mic EXCEPT ![n] = "sending"]
        /\ Entered("audio", n)
        /\ UNCHANGED dead
     \/ /\ audio.n = n
        /\ mic' = [mic EXCEPT ![n] = "top"]
        /\ UNCHANGED <<calls, dead>>
  /\ AudioUnchanged

\* After nativeSendAudioFrame the buffer goes back to the codec.
SentAudioFrame(n) ==
  /\ ~dead /\ mic[n] = "sending"
  /\ mic' = [mic EXCEPT ![n] = "codec"]
  /\ Left("audio", n)
  /\ AudioUnchanged /\ UNCHANGED dead

ControlUnchanged == UNCHANGED <<app, svc, main, cam, encoderVars, audioVars, udp, links,
                                live, history, dead>>

Serving(n) == udp.n = n /\ udp.isRunning

\* The control thread makes its server socket, unless the port is taken, and
\* looks at isRunning.  If that is over it leaves, and the socket stays.
Bind(n) ==
  /\ ~dead /\ ctl[n] = "starting"
  /\ port' = IF port = 0 THEN n ELSE port
  /\ ctl' = [ctl EXCEPT ![n] = IF port = 0 /\ Serving(n) THEN "accepting" ELSE "off"]
  /\ UNCHANGED calls /\ ControlUnchanged

\* handleConnection calls native code to pair, if there is a session.
Pair(n) ==
  IF svc.nativeHandle # 0
    THEN ctl' = [ctl EXCEPT ![n] = "pairing"] /\ Entered("control", n)
    ELSE ctl' = [ctl EXCEPT ![n] = "serving"] /\ UNCHANGED calls

\* accept throws because stop has closed the socket, or returns a connection;
\* the challenge is made whatever isRunning says.
Accept(n) ==
  /\ ~dead /\ ctl[n] = "accepting"
  /\ IF port = n THEN Pair(n) ELSE ctl' = [ctl EXCEPT ![n] = "off"] /\ UNCHANGED calls
  /\ UNCHANGED port /\ ControlUnchanged

\* What the PC answers is handled while isRunning is set.
CompletePairing(n) ==
  /\ ~dead /\ ctl[n] = "serving" /\ Serving(n)
  /\ Pair(n)
  /\ UNCHANGED port /\ ControlUnchanged

PairingReturns(n) ==
  /\ ~dead /\ ctl[n] = "pairing"
  /\ ctl' = [ctl EXCEPT ![n] = "serving"]
  /\ Left("control", n)
  /\ UNCHANGED port /\ ControlUnchanged

\* The connection ends, and the thread waits for another or leaves.
ConnectionEnds(n) ==
  /\ ~dead /\ ctl[n] = "serving"
  /\ ctl' = [ctl EXCEPT ![n] = IF Serving(n) THEN "accepting" ELSE "off"]
  /\ UNCHANGED <<calls, port>> /\ ControlUnchanged

\* An uncaught exception has ended the process.
Crashed == dead /\ UNCHANGED vars

-----------------------------------------------------------------------------
Starts == 1 .. MaxStarts + MaxMishaps

Init ==
  /\ app = NewApp
  /\ svc = NoService
  /\ main = Idle
  /\ cam = NoCamera
  /\ enc = NoEncoder /\ codecs = {} /\ loops = {} /\ running = {} /\ ready = {}
  /\ audio = NoEngine /\ mic = [n \in Starts |-> "off"]
  /\ udp = NoEngine /\ ctl = [n \in Starts |-> "off"] /\ port = 0 /\ links = {}
  /\ calls = {} /\ live = {} /\ receivers = {} /\ lost = FALSE /\ unjoined = {}
  /\ count = [starts |-> 0, encoders |-> 0, mishaps |-> 0, failed |-> 0]
  /\ dead = FALSE

User == AppStart \/ AppRestart \/ AppStop \/ NotificationStop \/ SwitchCamera \/ ScreenChanged

MainThread ==
  \/ OnCreate \/ OnDestroy \/ TryStart \/ ReplyDelayed \/ Reply
  \/ CreateNative \/ NativeFails \/ StartEncoder \/ StartFails
  \/ OpenCamera \/ StartAudio \/ StartTransports
  \/ Return \/ CloseDevice \/ DropSurface \/ JoinCamera \/ RestartEncoder
  \/ StopEncoder \/ JoinEncoder \/ StopAudio \/ ReleaseAudioCodec \/ JoinAudio
  \/ StopUdp \/ JoinUdp \/ StopBluetooth \/ StopUsb \/ DestroyNative

CameraThread ==
  \/ OnOpened \/ StoreDevice \/ CreateCaptureSession \/ OnCameraLost
  \/ OnConfigured \/ OnConfigureFailed \/ OnStarted \/ CameraThreadExits

EncoderThread(n) == OnOutputBufferAvailable(n) \/ SendVideoNal(n) \/ SentVideoNal(n)

AudioThread(n) == AudioLoop(n) \/ UseAudioCodec(n) \/ SentAudioFrame(n)

ControlThread(n) ==
  Bind(n) \/ Accept(n) \/ CompletePairing(n) \/ PairingReturns(n) \/ ConnectionEnds(n)

Next ==
  \/ User \/ MainThread \/ CameraThread
  \/ \E n \in Starts : EncoderThread(n) \/ AudioThread(n) \/ ControlThread(n)
  \/ Crashed

\* The main thread and the camera's thread run, a camera that is being opened
\* answers, an encoder callback comes to its end, and the main thread's queue
\* gets to every message posted to it however many others come in.  Nobody
\* waits without a limit for the recording and the control thread, so they owe
\* nothing, and neither does the user.
Fairness ==
  /\ WF_vars(MainThread) /\ SF_vars(TryStart \/ ReplyDelayed)
  /\ WF_vars(CameraThread)
  /\ \A n \in Starts : WF_vars(SendVideoNal(n) \/ SentVideoNal(n))

Spec == Init /\ [][Next]_vars /\ Fairness

-----------------------------------------------------------------------------
(* Properties *)

Engines == [n : Starts \cup {0}, isRunning : BOOLEAN]
Apps    == [isStreaming : BOOLEAN, isConnecting : BOOLEAN, start : {"none", "trying", "posted"},
            tries : 0 .. MaxTries, replied : BOOLEAN]
Services == [instance : BOOLEAN, wanted : BOOLEAN, stopping : BOOLEAN, isStreaming : BOOLEAN,
             nativeHandle : Starts \cup {0}, thermal : Starts \cup {0}]
Mains   == [call : {"none", "start", "stop", "halt", "destroy", "switch", "reply"},
            pc : {"idle", "reply", "native", "encoder", "camera", "audio", "transports",
                  "close", "surface", "joinCamera", "restart", "stopEncoder", "joinEncoder",
                  "stopAudio", "releaseAudio", "joinAudio", "stopUdp", "joinUdp",
                  "stopBluetooth", "stopUsb", "destroy", "return"}]
Cameras == [lock : 0 .. 2, device : BOOLEAN, surface : BOOLEAN,
            thread : {"none", "idle", "opened", "stored", "reply"}, quit : BOOLEAN,
            os : {"closed", "opening", "open"}, session : {"none", "configuring", "active"},
            starting : BOOLEAN, notify : BOOLEAN]
Encoders == [exists : BOOLEAN, codec : Starts \cup {0}, thread : Starts \cup {0},
             threads : SUBSET Starts]
NativeCalls == [thread : {"video", "audio", "control"} \X Starts, handle : Starts]
Counts  == [starts : Starts \cup {0}, encoders : Starts \cup {0}, mishaps : 0 .. MaxMishaps,
            failed : 0 .. MaxMishaps]

\* The state the service, its threads and the app can be in.
TypeOK ==
  /\ app \in Apps /\ svc \in Services /\ main \in Mains /\ cam \in Cameras
  /\ enc \in Encoders /\ codecs \subseteq Starts
  /\ running \subseteq loops /\ loops \subseteq Starts /\ ready \subseteq Starts
  /\ audio \in Engines /\ mic \in [Starts -> {"off", "top", "codec", "sending"}]
  /\ udp \in Engines
  /\ ctl \in [Starts -> {"off", "starting", "accepting", "pairing", "serving"}]
  /\ port \in Starts \cup {0} /\ links \subseteq {"bluetooth", "usb"}
  /\ calls \subseteq NativeCalls /\ live \subseteq Starts /\ receivers \subseteq Starts
  /\ lost \in BOOLEAN /\ unjoined \subseteq {"audio", "control"} \X Starts
  /\ count \in Counts /\ dead \in BOOLEAN

\* No thread that stopStreaming has waited for is inside native code with a
\* session that was destroyed.  Two kinds of thread it has not waited for, and
\* of these the code makes no such promise: those join(1000) gave up on, and
\* the encoder threads that switchCamera replaced, which nobody joins.
NoUseAfterDestroy ==
  \A c \in calls : \/ c.handle \in live
                   \/ c.thread \in unjoined
                   \/ c.thread[1] = "video" /\ c.thread[2] \in loops

\* closeCamera never works on a camera that is still being opened: that is
\* what cameraOpenCloseLock is for, although onOpened and onError both
\* release it.
NoCloseWhileOpening == main.pc = "surface" => cam.os # "opening"

\* Whatever fails or is slow, the plugin answers every startStreaming.
StartAnswered == app.isConnecting ~> (~app.isConnecting \/ dead)

\* The main thread never hangs: every lock it waits for is released, every
\* thread it joins without a limit ends.
MainReturns == []<>(main.pc = "idle" \/ dead)

Stopped == main.pc = "idle" /\ ~svc.isStreaming

\* "Roll back partial init so next start can retry": after a start that
\* failed, no native session and no thermal receiver is left.
FailedStartLeavesNothing ==
  Stopped /\ count.failed > 0 => live = {} /\ receivers = {}

\* "Streaming stopped completely": stopStreaming gets to its end, and the
\* service is left with no camera, no codec, no encoder thread, no other
\* transport and no port.
StoppedCompletely ==
  /\ main.call \in {"stop", "halt", "destroy"} => ~dead
  /\ Stopped => ~lost /\ codecs = {} /\ loops = {} /\ links = {}
              /\ (port # 0 => ctl[port] # "off")
=============================================================================
