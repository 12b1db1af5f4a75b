--------------------------- MODULE CameraControls ---------------------------
(***************************************************************************)
(* The camera and the bitrate of a running stream: what the user sets on   *)
(* the phone or on the PC, the screen going off and on, the phone getting  *)
(* hot, and the camera switched, as they reach Camera2Controller and       *)
(* H264Encoder.                                                            *)
(*                                                                         *)
(* Three threads share the controller's fields without a lock: the main    *)
(* thread (local settings, screen, thermal tiers, switchCamera), the       *)
(* control thread (commands of the PC) and the camera's background thread  *)
(* (onOpened, onConfigured).  Each is cut where it reads or writes what    *)
(* another one does.                                                       *)
(*                                                                         *)
(* Camera2 as the code uses it: creating a session closes the one before,  *)
(* onConfigured comes later on the background thread, in order; a request  *)
(* is refused unless its session is open and was made for its surfaces; a  *)
(* session for a released surface, or on a lost camera, is not made at     *)
(* all.  Opening the camera may be refused, and an open camera be lost.    *)
(*                                                                         *)
(* Zoom, exposure, focus and torch are one setting here, numbered by the   *)
(* event that set it: they are written and applied alike.                  *)
(***************************************************************************)
EXTENDS Integers, Sequences

CONSTANTS
  TierRate,      \* bitrate of each thermal tier
  StartRate,     \* bitrateBps of startStreaming
  CommandRates,  \* bitrates a client asks for
  MaxEvents      \* bound: what users, screen and heat do

Tiers == DOMAIN TierRate

ASSUME ControlsAssumption ==
  /\ "NORMAL" \in Tiers /\ \A t \in Tiers : TierRate[t] \in Nat
  /\ StartRate \in Nat /\ CommandRates \subseteq Nat /\ MaxEvents \in Nat

VARIABLES
  thread,        \* what each thread is doing, and the values it has read
  wire,          \* commands of the PC on their way to the phone
  camera,        \* number of the controller; its device, previewSurface and setting;
                 \* openCamera called and not answered
  surfaces,      \* surfaces made so far, and the released ones
  captureSession, builder,
  made,          \* the session made last: number, preview surface, open
  pending,       \* sessions whose onConfigured is still to come
  request,       \* the repeating request the camera works on
  rate,          \* bitrateBps; number and bitrate of the codec; currentBitrateBps
  tier,          \* currentTier
  asked,         \* history: the setting made last, and those being applied meanwhile
  ordered,       \* history: the bitrate ordered last, and those in hand meanwhile
  clash,         \* history: preview changed under a session being made
  events         \* history: number of events

cameraVars == <<camera, surfaces, captureSession, builder, made, pending, request>>
rateVars   == <<rate, tier, ordered>>
vars == <<thread, wire, cameraVars, rateVars, asked, clash, events>>

Threads   == {"main", "control", "camera"}
Free      == [at |-> "idle", object |-> 0, builder |-> 0, surface |-> 0,
              session |-> 0, configured |-> 0, value |-> 0]
NoBuilder == [n |-> 0, surface |-> 0, value |-> 0]
NoRequest == [session |-> 0, value |-> 0]

IsAt(t, pc) == thread[t].at = pc
Goto(t, pc) == thread' = [thread EXCEPT ![t].at = pc]
Return(t)   == thread' = [thread EXCEPT ![t] = Free]

Event ==
  /\ events < MaxEvents
  /\ events' = events + 1

\* startStreaming has opened the camera with a preview and started the encoder.
Init ==
  /\ thread = [t \in Threads |-> Free] /\ wire = <<>>
  /\ camera = [n |-> 1, opening |-> TRUE, device |-> FALSE, preview |-> 1, setting |-> 0]
  /\ surfaces = [made |-> 1, released |-> {}]
  /\ captureSession = 0 /\ builder = NoBuilder
  /\ made = [n |-> 0, surface |-> 0, open |-> FALSE] /\ pending = <<>>
  /\ request = NoRequest
  /\ rate = [field |-> StartRate, n |-> 1, codec |-> StartRate, current |-> StartRate]
  /\ tier = "NORMAL" /\ ordered = {StartRate} /\ asked = {0}
  /\ clash = FALSE /\ events = 0

-----------------------------------------------------------------------------
(* createCaptureSession: read the surfaces, then make the session *)

\* Mutant: without a preview no session is made.
CreateReadPreviewed(t) ==
  /\ IsAt(t, "read")
  /\ IF camera.device /\ camera.preview # 0
     THEN thread' = [thread EXCEPT ![t].at = "create", ![t].surface = camera.preview]
     ELSE Return(t)
  /\ UNCHANGED <<wire, cameraVars, rateVars, asked, clash, events>>

CreateRead(t) ==
  /\ IsAt(t, "read")
  /\ IF camera.device
     THEN thread' = [thread EXCEPT ![t].at = "create", ![t].surface = camera.preview]
     ELSE Return(t)
  /\ UNCHANGED <<wire, cameraVars, rateVars, asked, clash, events>>

Create(t) ==
  LET n == made.n + 1 IN
  /\ IsAt(t, "create")
  /\ Return(t)
  /\ IF thread[t].surface \in surfaces.released \/ ~camera.device
     THEN UNCHANGED <<made, pending, clash>>
     ELSE /\ made' = [n |-> n, surface |-> thread[t].surface, open |-> TRUE]
          /\ pending' = Append(pending, n)
          /\ clash' = (clash /\ IsAt("camera", "create"))
  /\ UNCHANGED <<wire, camera, surfaces, captureSession, builder, request, rateVars, asked, events>>

-----------------------------------------------------------------------------
(* The answer to openCamera, and the loss of the camera *)

OnOpened ==
  /\ IsAt("camera", "idle") /\ camera.opening
  /\ camera' = [camera EXCEPT !.opening = FALSE, !.device = TRUE]
  /\ Goto("camera", "read")
  /\ UNCHANGED <<wire, surfaces, captureSession, builder, made, pending, request, rateVars,
                 asked, clash, events>>

\* onDisconnected or onError, instead of onOpened or after it.
OnCameraLost ==
  /\ IsAt("camera", "idle") /\ (camera.opening \/ camera.device)
  /\ camera' = [camera EXCEPT !.opening = FALSE, !.device = FALSE]
  /\ made' = [made EXCEPT !.open = FALSE]
  /\ request' = NoRequest
  /\ UNCHANGED <<thread, wire, surfaces, captureSession, builder, pending, rateVars, asked,
                 clash, events>>

-----------------------------------------------------------------------------
(* applyCameraControls: read builder, session and setting, then submit *)

\* Back to the caller.
Applied(t) == IF t = "camera" THEN Goto(t, "repeat") ELSE Return(t)

\* Mutant: the settings are not applied.
ApplyNothing(t) ==
  /\ IsAt(t, "apply")
  /\ Applied(t)
  /\ UNCHANGED <<wire, cameraVars, rateVars, asked, clash, events>>

\* A controller that was replaced has no session.
ApplyLoad(t) ==
  LET own    == thread[t]
      read   == [own EXCEPT !.at = "session", !.builder = builder.n, !.surface = builder.surface]
      usable == builder # NoBuilder /\ own.object = camera.n IN
  /\ IsAt(t, "apply")
  /\ \/ usable /\ thread' = [thread EXCEPT ![t] = read]
     \/ ~usable /\ Applied(t)
  /\ UNCHANGED <<wire, cameraVars, rateVars, asked, clash, events>>

ApplySession(t) ==
  LET usable == captureSession # 0 /\ thread[t].object = camera.n IN
  /\ IsAt(t, "session")
  /\ \/ usable /\ thread' = [thread EXCEPT ![t].at = "value", ![t].session = captureSession]
     \/ ~usable /\ Applied(t)
  /\ UNCHANGED <<wire, cameraVars, rateVars, asked, clash, events>>

\* The setting of a replaced controller is of no use: nothing accepts it.
ApplyValue(t) ==
  LET value == IF thread[t].object = camera.n THEN camera.setting ELSE 0 IN
  /\ IsAt(t, "value")
  /\ thread' = [thread EXCEPT ![t].at = "submit", ![t].value = value]
  /\ UNCHANGED <<wire, cameraVars, rateVars, asked, clash, events>>

Accepted(session, surface) ==
  made.open /\ session = made.n /\ surface \in {0, made.surface}

\* builder.set of the value read, and setRepeatingRequest.  What another thread
\* sets between the two it has read as well, and submits itself.
ApplySubmit(t) ==
  LET own == thread[t] IN
  /\ IsAt(t, "submit")
  /\ builder' = IF own.object = camera.n /\ own.builder = builder.n
                THEN [builder EXCEPT !.value = own.value] ELSE builder
  /\ request' = IF own.object = camera.n /\ Accepted(own.session, own.surface)
                THEN [session |-> own.session, value |-> own.value] ELSE request
  /\ Applied(t)
  /\ UNCHANGED <<wire, camera, surfaces, captureSession, made, pending, rateVars, asked, clash, events>>

-----------------------------------------------------------------------------
(* onConfigured: the session, the builder, the settings, and once more *)

OnConfigured ==
  /\ IsAt("camera", "idle") /\ pending # <<>>
  /\ pending' = Tail(pending)
  /\ \/ /\ camera.device
        /\ captureSession' = Head(pending)
        /\ thread' = [thread EXCEPT !["camera"].at = "build", !["camera"].object = camera.n,
                                  !["camera"].configured = Head(pending)]
     \/ ~camera.device /\ UNCHANGED <<captureSession, thread>>
  /\ UNCHANGED <<wire, camera, surfaces, builder, made, request, rateVars, asked, clash, events>>

Build ==
  /\ IsAt("camera", "build")
  /\ builder' = [n |-> thread["camera"].configured, surface |-> camera.preview, value |-> 0]
  /\ Goto("camera", "apply")
  /\ UNCHANGED <<wire, camera, surfaces, captureSession, made, pending, request, rateVars,
                 asked, clash, events>>

Repeat ==
  /\ IsAt("camera", "repeat")
  /\ request' = IF Accepted(thread["camera"].configured, builder.surface)
                THEN [session |-> thread["camera"].configured, value |-> builder.value] ELSE request
  /\ Return("camera")
  /\ UNCHANGED <<wire, camera, surfaces, captureSession, builder, made, pending, rateVars,
                 asked, clash, events>>

-----------------------------------------------------------------------------
(* The main thread *)

\* updatePreviewSurface, for a screen that goes off (the surface is released) or on.
UpdatePreviewSurface(on) ==
  /\ Event /\ IsAt("main", "idle")
  /\ camera' = [camera EXCEPT !.preview = IF on THEN surfaces.made + 1 ELSE 0]
  /\ surfaces' = IF on THEN [surfaces EXCEPT !.made = @ + 1]
                 ELSE [surfaces EXCEPT !.released = @ \cup ({camera.preview} \ {0})]
  /\ clash' = (clash \/ IsAt("camera", "create"))
  /\ Goto("main", "close")
  /\ UNCHANGED <<wire, captureSession, builder, made, pending, request, rateVars, asked>>

\* closeCaptureSession: close, then forget.
CloseCaptureSession ==
  \/ /\ IsAt("main", "close")
     /\ made' = IF captureSession = made.n THEN [made EXCEPT !.open = FALSE] ELSE made
     /\ Goto("main", "forget")
     /\ UNCHANGED <<wire, camera, surfaces, captureSession, builder, pending, request, rateVars,
                    asked, clash, events>>
  \/ /\ IsAt("main", "forget")
     /\ captureSession' = 0
     /\ Goto("main", "read")
     /\ UNCHANGED <<wire, camera, surfaces, builder, made, pending, request, rateVars,
                    asked, clash, events>>

\* A setter called on the current controller, by the user or by the PC.  A thread
\* that has read an earlier setting and not submitted it may still do so later.
Set(t, v) ==
  LET meanwhile == \E u \in Threads \ {t} : IsAt(u, "submit") /\ thread[u].object = camera.n IN
  /\ camera' = [camera EXCEPT !.setting = v]
  /\ asked' = IF meanwhile THEN asked \cup {v} ELSE {v}
  /\ thread' = [thread EXCEPT ![t].at = "apply", ![t].object = camera.n]

LocalSet ==
  /\ Event /\ IsAt("main", "idle")
  /\ Set("main", events')
  /\ UNCHANGED <<wire, surfaces, captureSession, builder, made, pending, request, rateVars,
                 clash>>

\* Some thread other than t is at one of these places.
InHand(t, places) == \E u \in Threads \ {t} : thread[u].at \in places

\* switchCamera: closeCamera, which ends with the background thread joined; the
\* encoder reads its bitrate for a new codec.
SwitchCamera ==
  /\ Event /\ IsAt("main", "idle") /\ IsAt("camera", "idle") /\ ~camera.opening
  /\ camera' = [camera EXCEPT !.device = FALSE, !.preview = 0]
  /\ surfaces' = [surfaces EXCEPT !.released = @ \cup ({camera.preview} \ {0})]
  /\ captureSession' = 0 /\ request' = NoRequest
  /\ made' = [made EXCEPT !.open = FALSE] /\ pending' = <<>>
  /\ thread' = [thread EXCEPT !["main"].at = "restart", !["main"].value = rate.field]
  /\ ordered' = IF InHand("main", {"store", "rate"}) THEN ordered \cup {rate.field} ELSE ordered
  /\ clash' = FALSE
  /\ UNCHANGED <<wire, builder, rate, tier, asked>>

\* Mutant: the new codec starts at the bitrate of the last startStream.
RestartRateCurrent == rate.current

RestartRate == thread["main"].value

\* The new codec starts, and a new controller, with no settings yet, opens the
\* camera; an exception of openCamera is caught.
Restart ==
  /\ IsAt("main", "restart")
  /\ rate' = [rate EXCEPT !.codec = RestartRate, !.n = @ + 1]
  /\ \E opening \in BOOLEAN :
       camera' = [n |-> camera.n + 1, opening |-> opening, device |-> FALSE,
                  preview |-> surfaces.made + 1, setting |-> 0]
  /\ surfaces' = [surfaces EXCEPT !.made = @ + 1]
  /\ builder' = NoBuilder
  /\ asked' = {0}
  /\ Return("main")
  /\ UNCHANGED <<wire, captureSession, made, pending, request, tier, ordered, clash, events>>

\* updateBitrate: read the codec; store the field; set the codec, which a restart
\* may have replaced.
UpdateBitrate(t, r) ==
  thread' = [thread EXCEPT ![t].at = "store", ![t].object = rate.n, ![t].value = r]

\* History: thread t is told to bring bitrate r.
Order(t, r) ==
  ordered' = IF InHand(t, {"store", "rate", "restart"}) THEN ordered \cup {r} ELSE {r}

StoreRate(t) ==
  /\ IsAt(t, "store")
  /\ rate' = [rate EXCEPT !.field = thread[t].value]
  /\ Goto(t, "rate")
  /\ UNCHANGED <<wire, cameraVars, tier, ordered, asked, clash, events>>

SetCodecRate(t) ==
  /\ IsAt(t, "rate")
  /\ rate' = IF thread[t].object = rate.n THEN [rate EXCEPT !.codec = thread[t].value] ELSE rate
  /\ Return(t)
  /\ UNCHANGED <<wire, cameraVars, tier, ordered, asked, clash, events>>

\* Mutant: the change is handed on instead of the bitrate.
TierAsChange(t) == TierRate[t] - rate.field

\* The bitrate a tier is handed on with.
Recommended(t) == TierRate[t]

\* Of a recommendation only the bitrate is used.
OnThermalAdjustment(t) == UpdateBitrate("main", Recommended(t))

\* applyTier: only a change of tier is handed on.
ApplyTier(t) ==
  /\ Event /\ IsAt("main", "idle") /\ t # tier
  /\ tier' = t
  /\ OnThermalAdjustment(t)
  /\ Order("main", TierRate[t])
  /\ UNCHANGED <<wire, cameraVars, rate, asked, clash>>

-----------------------------------------------------------------------------
(* The PC, and the phone's control thread *)

Commands == [op : {"set", "ignored"}, rate : {0}] \cup [op : {"start", "bitrate"}, rate : CommandRates]

\* A control moved on the PC.  Torch and camera switch have no operation code on
\* the phone.
PcCommand(c) ==
  /\ Event
  /\ wire' = Append(wire, [c |-> c, n |-> events'])
  /\ UNCHANGED <<thread, cameraVars, rateVars, asked, clash>>

\* A bitrate the phone already has as currentBitrateBps is ignored, and no order.
HandleControlCommand ==
  LET c == Head(wire).c IN
  /\ IsAt("control", "idle") /\ wire # <<>>
  /\ wire' = Tail(wire)
  /\ UNCHANGED <<surfaces, captureSession, builder, made, pending, request, tier, clash, events>>
  /\ \/ c.op = "set" /\ Set("control", Head(wire).n) /\ UNCHANGED <<rate, ordered>>
     \/ /\ \/ c.op = "ignored"
           \/ c.op = "start" /\ c.rate = rate.current
        /\ UNCHANGED <<thread, camera, rate, asked, ordered>>
     \/ /\ \/ c.op = "start" /\ c.rate # rate.current /\ rate' = [rate EXCEPT !.current = c.rate]
           \/ c.op = "bitrate" /\ UNCHANGED rate
        /\ UpdateBitrate("control", c.rate)
        /\ Order("control", c.rate)
        /\ UNCHANGED <<camera, asked>>

-----------------------------------------------------------------------------
Steps(t) ==
  \/ CreateRead(t) \/ Create(t)
  \/ ApplyLoad(t) \/ ApplySession(t) \/ ApplyValue(t) \/ ApplySubmit(t)
  \/ StoreRate(t) \/ SetCodecRate(t)

CameraThread  == Steps("camera") \/ OnOpened \/ OnCameraLost \/ OnConfigured \/ Build \/ Repeat
MainThread    == Steps("main") \/ CloseCaptureSession \/ Restart
ControlThread == Steps("control") \/ HandleControlCommand

\* The phone's user; its screen; its temperature or thermal status; the PC's user.
PhoneUser     == LocalSet \/ SwitchCamera
ScreenState   == \E on \in BOOLEAN : UpdatePreviewSurface(on)
ThermalStatus == \E t \in Tiers : ApplyTier(t)
PcUser        == \E c \in Commands : PcCommand(c)

World == PhoneUser \/ ScreenState \/ ThermalStatus \/ PcUser

Next == CameraThread \/ MainThread \/ ControlThread \/ World

Spec == Init /\ [][Next]_vars

-----------------------------------------------------------------------------
(* Properties *)

ThreadStates == [at : {"idle", "read", "create", "apply", "session", "value", "submit", "build", "repeat",
                       "close", "forget", "restart", "store", "rate"},
                 object : Nat, builder : Nat, surface : Nat, session : Nat,
                 configured : Nat, value : Nat]

TypeOK ==
  /\ thread \in [Threads -> ThreadStates]
  /\ wire \in Seq([c : Commands, n : Nat])
  /\ camera \in [n : Nat, opening : BOOLEAN, device : BOOLEAN, preview : Nat, setting : Nat]
  /\ surfaces.made \in Nat /\ surfaces.released \subseteq 1 .. surfaces.made
  /\ captureSession \in 0 .. made.n /\ builder \in [n : Nat, surface : Nat, value : Nat]
  /\ made \in [n : Nat, surface : Nat, open : BOOLEAN] /\ pending \in Seq(1 .. made.n)
  /\ request \in [session : 0 .. made.n, value : Nat]
  /\ rate \in [field : Nat, n : Nat, codec : Nat, current : Nat]
  /\ tier \in Tiers /\ asked \subseteq Nat /\ ordered \subseteq Nat /\ clash \in BOOLEAN
  /\ events \in 0 .. MaxEvents

\* The camera works for the newest session, whose request feeds the encoder.
Fed == made.open /\ request.session = made.n

\* Nothing is left to be done for the events so far.
Quiet == pending = <<>> /\ \A t \in Threads : IsAt(t, "idle")

\* Screen-Off Mode: turning the preview off or on, in the middle of anything,
\* leaves the open camera feeding the encoder, unless the preview was changed
\* while onOpened was making its session and not since.
EncoderFed == Quiet /\ camera.device /\ ~clash => Fed

\* The open camera shows the setting made last on its controller, by the phone's
\* user or by the PC's, or one that another thread had in hand when that one was
\* made: however setters, onConfigured and preview changes interleave, a setting
\* is never lost to one applied before it (applyCameraControls without a lock).
\* A controller made by switchCamera starts from the defaults.
SettingsShown == Quiet /\ camera.device /\ ~clash => request.value \in asked

\* When no order is being carried out, the encoder runs at, and would restart at,
\* the bitrate ordered last, by a thermal tier or by the PC, or one that another
\* thread had in hand when that one was given: updateBitrate on two threads, or
\* beside the restart of switchCamera, never brings back an older bitrate.
RateKept ==
  (\A t \in Threads : thread[t].at \notin {"store", "rate", "restart"}) =>
    rate.codec \in ordered /\ rate.field \in ordered

=============================================================================
