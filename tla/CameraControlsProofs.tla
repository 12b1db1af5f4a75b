------------------------ MODULE CameraControlsProofs ------------------------
(***************************************************************************)
(* Proofs about CameraControls, for any bitrates and thermal tiers and any *)
(* number of events.                                                       *)
(*                                                                         *)
(* The fields of the controller are written by three threads without a     *)
(* lock.  What holds them together is that a session which is made comes   *)
(* back, in order, on the camera's thread: whatever the other threads did  *)
(* to captureSession and the builder meanwhile, onConfigured of the newest *)
(* session puts them right.  So the invariant speaks of the time when      *)
(* nobody is making a session and none is pending (Settled); a step into   *)
(* that time is always an onConfigured, which starts from what is true.    *)
(***************************************************************************)
EXTENDS CameraControls, SequenceTheorems, TLAPS

\* A session is going to be made.
Making ==
  \/ thread["main"].at \in {"close", "forget", "read", "create"}
  \/ thread["camera"].at \in {"read", "create"}

\* The camera is open and every session that was made has come back.
Settled == camera.device = TRUE /\ clash = FALSE /\ ~Making /\ pending = << >>

\* The camera's thread is in onConfigured.
Configuring == thread["camera"].at \in {"build", "apply", "session", "value", "submit", "repeat"}

\* What thread t submits, or is going to, is for the newest session.
Current(t) ==
  /\ thread[t].object = camera.n
  /\ thread[t].at \in {"session", "value", "submit"} =>
       thread[t].surface = made.surface /\ thread[t].builder = made.n
  /\ thread[t].at \in {"value", "submit"} => thread[t].session = made.n

\* A thread is going to submit the setting to the newest session.
Submits ==
  \/ thread["camera"].at = "build"
  \/ \E t \in Threads : thread[t].at \in {"apply", "session", "value", "submit"} /\ Current(t)

\* Where each thread may be.
Ranges ==
  /\ thread["main"].at \notin {"build", "repeat"}
  /\ thread["control"].at \in {"idle", "apply", "session", "value", "submit", "store", "rate"}
  /\ thread["camera"].at \in {"idle", "read", "create", "build", "apply", "session", "value",
                              "submit", "repeat"}
  /\ thread["main"].at = "restart" =>
       /\ thread["camera"].at = "idle" /\ pending = << >>
       /\ camera.device = FALSE /\ camera.opening = FALSE

\* No thread makes a session for a surface that is gone, save in a clash.
Previews ==
  /\ surfaces \in [made : Nat, released : SUBSET Nat]
  /\ camera.preview <= surfaces.made /\ camera.preview \notin surfaces.released
  /\ thread["main"].at = "create" => thread["main"].surface = camera.preview
  /\ thread["camera"].at = "create" /\ clash = FALSE => thread["camera"].surface = camera.preview

\* Sessions come back in the order they were made.
Sessions ==
  /\ pending # << >> => pending[Len(pending)] = made.n
  /\ Configuring => thread["camera"].configured # 0
                    /\ (pending = << >> => thread["camera"].configured = made.n)
  /\ thread["camera"].at \in {"build", "apply", "session", "value", "submit"} =>
       thread["camera"].object = camera.n
  /\ thread["camera"].at \in {"apply", "session", "value", "submit", "repeat"} =>
       builder.n = thread["camera"].configured
  /\ thread["camera"].at \in {"session", "value", "submit"} => thread["camera"].builder = builder.n

\* The newest session is open and for the surface of now, and once it has come
\* back the camera works for it.
Feeding ==
  /\ camera.device = TRUE /\ clash = FALSE /\ ~Making =>
       made.open = TRUE /\ made.surface = camera.preview /\ made.n # 0
  /\ Settled =>
       /\ captureSession = made.n
       /\ thread["camera"].at # "build" => builder.n = made.n /\ builder.surface = camera.preview
       /\ ~Configuring => request.session = made.n

\* A setting that counts is shown, or a thread is going to submit one.
Settings ==
  /\ camera.setting \in asked
  /\ \A t \in Threads : thread[t].at = "submit" /\ thread[t].object = camera.n =>
       thread[t].value \in asked
  /\ Settled =>
       \/ Submits
       \/ request.value \in asked /\ (thread["camera"].at = "repeat" => builder.value \in asked)

\* The bitrate: what a thread has in hand was ordered; the field was, unless an
\* order is about to be stored; the codec was, unless its bitrate is about to be
\* set or a new one is about to start.
Rates ==
  /\ \A t \in Threads : thread[t].at \in {"store", "rate", "restart"} => thread[t].value \in ordered
  /\ (\A t \in Threads : thread[t].at # "store") => rate.field \in ordered
  /\ \/ rate.codec \in ordered
     \/ \E t \in Threads : thread[t].at \in {"store", "rate"} /\ thread[t].object = rate.n
     \/ \E t \in Threads : thread[t].at = "restart"

\* No thread applies settings to a controller that is not made yet.
Objects ==
  \A t \in Threads : thread[t].at \in {"apply", "session", "value", "submit"} =>
    thread[t].object <= camera.n

IInv == TypeOK /\ Ranges /\ Previews /\ Sessions /\ Feeding /\ Settings /\ Rates

-----------------------------------------------------------------------------
(* Threads *)

\* One thread moves, the others stay where they are.
Moves(t, x) == thread'[t] = x /\ \A u \in Threads \ {t} : thread'[u] = thread[u]

\* The effect of a thread's step on the function of all threads.
LEMMA Moved ==
  ASSUME thread \in [Threads -> ThreadStates], NEW t \in Threads, NEW x \in ThreadStates,
         thread' = [thread EXCEPT ![t] = x]
  PROVE  thread' \in [Threads -> ThreadStates] /\ Moves(t, x)
BY DEF Moves

\* A thread goes on to another place in the code.
LEMMA GotoEffect ==
  ASSUME thread \in [Threads -> ThreadStates], NEW t \in Threads, NEW p,
         p \in {"idle", "read", "create", "apply", "session", "value", "submit", "build", "repeat",
                "close", "forget", "restart", "store", "rate"},
         Goto(t, p)
  PROVE  /\ thread' \in [Threads -> ThreadStates] /\ Moves(t, thread'[t])
         /\ thread'[t].at = p /\ thread'[t].object = thread[t].object
         /\ thread'[t].builder = thread[t].builder /\ thread'[t].surface = thread[t].surface
         /\ thread'[t].session = thread[t].session /\ thread'[t].value = thread[t].value
         /\ thread'[t].configured = thread[t].configured
<1> DEFINE x == [thread[t] EXCEPT !.at = p]
<1>1. thread' = [thread EXCEPT ![t] = x]
  BY DEF Goto
<1>2. thread[t] \in ThreadStates
  OBVIOUS
<1>3. /\ x \in ThreadStates /\ x.at = p /\ x.object = thread[t].object
      /\ x.builder = thread[t].builder /\ x.surface = thread[t].surface
      /\ x.session = thread[t].session /\ x.value = thread[t].value
      /\ x.configured = thread[t].configured
  BY <1>2 DEF ThreadStates
<1> HIDE DEF x
<1>4. thread' \in [Threads -> ThreadStates] /\ Moves(t, x)
  BY <1>1, <1>3, Moved
<1>5. thread'[t] = x
  BY <1>4 DEF Moves
<1> QED
  BY <1>3, <1>4, <1>5

\* A thread is through with what it did.
LEMMA ReturnEffect ==
  ASSUME thread \in [Threads -> ThreadStates], NEW t \in Threads, Return(t)
  PROVE  thread' \in [Threads -> ThreadStates] /\ Moves(t, Free)
<1>1. Free \in ThreadStates
  BY DEF Free, ThreadStates
<1> QED
  BY <1>1, Moved DEF Return

-----------------------------------------------------------------------------
(* Steps about one half of the state *)

\* No thread comes to or from the bitrate.
RateThreads ==
  \A t \in Threads : \/ thread'[t] = thread[t]
                     \/ /\ thread[t].at \notin {"store", "rate", "restart"}
                        /\ thread'[t].at \notin {"store", "rate", "restart"}

\* Steps of the camera do not disturb the bitrate.
LEMMA RatesKept ==
  ASSUME Rates, RateThreads, ordered' = ordered,
         rate'.field = rate.field, rate'.n = rate.n, rate'.codec = rate.codec
  PROVE  Rates'
<1>1. \A t \in Threads : thread'[t].at \in {"store", "rate", "restart"} => thread'[t] = thread[t]
  BY DEF RateThreads
<1>2. \A t \in Threads : thread[t].at \in {"store", "rate", "restart"} => thread'[t] = thread[t]
  BY DEF RateThreads
<1>3. \A t \in Threads :
        thread'[t].at \in {"store", "rate", "restart"} => thread'[t].value \in ordered'
  BY <1>1 DEF Rates
<1>4. (\A t \in Threads : thread'[t].at # "store") => rate'.field \in ordered'
  BY <1>2 DEF Rates
<1>5. \/ rate'.codec \in ordered'
      \/ \E t \in Threads : thread'[t].at \in {"store", "rate"} /\ thread'[t].object = rate'.n
      \/ \E t \in Threads : thread'[t].at = "restart"
  BY <1>2 DEF Rates
<1> QED
  BY <1>3, <1>4, <1>5 DEF Rates

\* No thread but the bitrate's moves.
CameraThreads ==
  /\ thread'["camera"] = thread["camera"]
  /\ \A t \in Threads : \/ thread'[t] = thread[t]
                        \/ /\ thread[t].at \in {"idle", "store", "rate"}
                           /\ thread'[t].at \in {"idle", "store", "rate"}

\* Steps of the bitrate do not disturb the camera.
LEMMA CameraKept ==
  ASSUME Ranges, Previews, Sessions, Feeding, Settings, CameraThreads,
         UNCHANGED <<camera, surfaces, captureSession, builder, made, pending, request, asked, clash>>
  PROVE  Ranges' /\ Previews' /\ Sessions' /\ Feeding' /\ Settings'
<1> USE DEF Threads
<1>1. Ranges'
  BY DEF Ranges, CameraThreads
<1>2. Making' <=> Making
  BY DEF Making, CameraThreads
<1>3. Settled' <=> Settled
  BY <1>2 DEF Settled
<1>4. Configuring' <=> Configuring
  BY DEF Configuring, CameraThreads
<1>5. Previews'
  BY DEF Previews, CameraThreads
<1>6. Sessions'
  BY <1>4 DEF Sessions, CameraThreads
<1>7. Feeding'
  BY <1>2, <1>3, <1>4 DEF Feeding, CameraThreads
<1>8. \A t \in Threads : thread[t].at \in {"apply", "session", "value", "submit"}
                            \/ thread'[t].at \in {"apply", "session", "value", "submit"} =>
                          thread'[t] = thread[t]
  BY DEF CameraThreads
<1>9. Submits => Submits'
  BY <1>8 DEF Submits, Current, CameraThreads
<1>10. Settings'
  BY <1>3, <1>8, <1>9 DEF Settings, CameraThreads
<1> QED
  BY <1>1, <1>5, <1>6, <1>7, <1>10

\* A step that leaves or brings a session in the making does not disturb the settings.
LEMMA SettingsKept ==
  ASSUME Settings, ~Settled', camera'.n = camera.n, camera'.setting = camera.setting,
         asked' = asked, \A t \in Threads : thread'[t].at = "submit" => thread'[t] = thread[t]
  PROVE  Settings'
BY DEF Settings

-----------------------------------------------------------------------------
(* The bitrate *)

\* updateBitrate stores the field.
LEMMA StoreRateStep == ASSUME IInv, NEW t \in Threads, StoreRate(t) PROVE IInv'
<1> USE DEF IInv
<1>1. /\ UNCHANGED <<wire, camera, surfaces, captureSession, builder, made, pending, request>>
      /\ UNCHANGED <<tier, ordered, asked, clash, events>> /\ thread[t].at = "store"
  BY DEF StoreRate, IsAt, cameraVars
<1>2. Goto(t, "rate") /\ thread \in [Threads -> ThreadStates] /\ rate \in [field : Nat, n : Nat, codec : Nat, current : Nat]
  BY DEF StoreRate, TypeOK
<1>3. /\ thread' \in [Threads -> ThreadStates] /\ Moves(t, thread'[t]) /\ thread'[t].at = "rate"
      /\ thread'[t].object = thread[t].object /\ thread'[t].value = thread[t].value
  BY <1>2, GotoEffect
<1>4. /\ rate' \in [field : Nat, n : Nat, codec : Nat, current : Nat]
      /\ rate'.field = thread[t].value /\ rate'.n = rate.n /\ rate'.codec = rate.codec
  <2>1. thread[t].value \in Nat
    BY <1>2 DEF ThreadStates
  <2> QED
    BY <1>2, <2>1 DEF StoreRate
<1>6. TypeOK'
  BY <1>1, <1>3, <1>4 DEF TypeOK
<1>7. t \in {"main", "control"}
  BY <1>1 DEF Ranges, Threads
<1>8. CameraThreads
  BY <1>1, <1>3, <1>7 DEF CameraThreads, Moves, Threads
<1>9. Ranges' /\ Previews' /\ Sessions' /\ Feeding' /\ Settings'
  BY <1>1, <1>8, CameraKept
<1>10. Rates'
  <2>1. \A u \in Threads : u # t => thread'[u] = thread[u]
    BY <1>3 DEF Moves
  <2>2. thread[t].value \in ordered
    BY <1>1 DEF Rates
  <2>3. \A u \in Threads : thread'[u].at \in {"store", "rate", "restart"} => thread'[u].value \in ordered
    BY <1>3, <2>1, <2>2 DEF Rates
  <2>4. \/ rate'.codec \in ordered
        \/ \E u \in Threads : thread'[u].at \in {"store", "rate"} /\ thread'[u].object = rate'.n
        \/ \E u \in Threads : thread'[u].at = "restart"
    BY <1>1, <1>3, <1>4, <2>1 DEF Rates
  <2> QED
    BY <1>1, <1>4, <2>2, <2>3, <2>4 DEF Rates
<1> QED
  BY <1>6, <1>9, <1>10

\* updateBitrate sets the codec it had read.
LEMMA SetCodecRateStep == ASSUME IInv, NEW t \in Threads, SetCodecRate(t) PROVE IInv'
<1> USE DEF IInv
<1>1. /\ UNCHANGED <<wire, camera, surfaces, captureSession, builder, made, pending, request>>
      /\ UNCHANGED <<tier, ordered, asked, clash, events>> /\ thread[t].at = "rate"
  BY DEF SetCodecRate, IsAt, cameraVars
<1>2. Return(t) /\ thread \in [Threads -> ThreadStates] /\ rate \in [field : Nat, n : Nat, codec : Nat, current : Nat]
  BY DEF SetCodecRate, TypeOK
<1>3. thread' \in [Threads -> ThreadStates] /\ Moves(t, Free) /\ Free.at = "idle"
  BY <1>2, ReturnEffect DEF Free
<1>4. /\ rate' \in [field : Nat, n : Nat, codec : Nat, current : Nat]
      /\ rate'.field = rate.field /\ rate'.n = rate.n
      /\ rate'.codec = IF thread[t].object = rate.n THEN thread[t].value ELSE rate.codec
  <2>1. thread[t].value \in Nat
    BY <1>2 DEF ThreadStates
  <2> QED
    BY <1>2, <2>1 DEF SetCodecRate
<1>5. TypeOK'
  BY <1>1, <1>3, <1>4 DEF TypeOK
<1>6. t \in {"main", "control"}
  BY <1>1 DEF Ranges, Threads
<1>7. CameraThreads
  BY <1>1, <1>3, <1>6 DEF CameraThreads, Moves, Threads
<1>8. Ranges' /\ Previews' /\ Sessions' /\ Feeding' /\ Settings'
  BY <1>1, <1>7, CameraKept
<1>9. Rates'
  <2>1. /\ \A u \in Threads : u # t => thread'[u] = thread[u]
        /\ thread'[t].at = "idle"
    BY <1>3 DEF Moves
  <2>2. thread[t].value \in ordered
    BY <1>1 DEF Rates
  <2>3. \A u \in Threads : thread'[u].at \in {"store", "rate", "restart"} => thread'[u].value \in ordered
    BY <2>1 DEF Rates
  <2>4. (\A u \in Threads : thread'[u].at # "store") => rate'.field \in ordered
    BY <1>1, <1>4, <2>1 DEF Rates
  <2>5. \/ rate'.codec \in ordered
        \/ \E u \in Threads : thread'[u].at \in {"store", "rate"} /\ thread'[u].object = rate'.n
        \/ \E u \in Threads : thread'[u].at = "restart"
    BY <1>1, <1>4, <2>1, <2>2 DEF Rates
  <2> QED
    BY <1>1, <2>3, <2>4, <2>5 DEF Rates
<1> QED
  BY <1>5, <1>8, <1>9

\* A thread that begins updateBitrate.
LEMMA UpdateBitrateEffect ==
  ASSUME thread \in [Threads -> ThreadStates], NEW t \in Threads, NEW r \in Nat, rate.n \in Nat,
         UpdateBitrate(t, r)
  PROVE  /\ thread' \in [Threads -> ThreadStates] /\ Moves(t, thread'[t])
         /\ thread'[t].at = "store" /\ thread'[t].object = rate.n /\ thread'[t].value = r
<1> DEFINE x == [thread[t] EXCEPT !.at = "store", !.object = rate.n, !.value = r]
<1>1. thread' = [thread EXCEPT ![t] = x]
  BY DEF UpdateBitrate
<1>2. thread[t] \in ThreadStates
  OBVIOUS
<1>3. x \in ThreadStates /\ x.at = "store" /\ x.object = rate.n /\ x.value = r
  BY <1>2 DEF ThreadStates
<1> HIDE DEF x
<1>4. thread' \in [Threads -> ThreadStates] /\ Moves(t, x)
  BY <1>1, <1>3, Moved
<1>5. thread'[t] = x
  BY <1>4 DEF Moves
<1> QED
  BY <1>3, <1>4, <1>5

\* An order: it, and what is in hand beside it, count from now on.
LEMMA OrderKeeps ==
  ASSUME Rates, NEW t \in Threads, NEW r \in Nat, thread[t].at = "idle", ordered \subseteq Nat,
         Order(t, r), Moves(t, thread'[t]), thread'[t].at = "store",
         thread'[t].object = rate.n, thread'[t].value = r, rate'.field = rate.field,
         rate'.n = rate.n, rate'.codec = rate.codec
  PROVE  Rates' /\ ordered' \subseteq Nat
<1>1. \A u \in Threads : u # t => thread'[u] = thread[u]
  BY DEF Moves
<1>2. r \in ordered' /\ ordered' \subseteq Nat
  BY DEF Order
<1>3. \A u \in Threads \ {t} : thread[u].at \in {"store", "rate", "restart"} => ordered \subseteq ordered'
  BY DEF Order, InHand
<1>4. \A u \in Threads : thread'[u].at \in {"store", "rate", "restart"} => thread'[u].value \in ordered'
  <2> TAKE u \in Threads
  <2>1. CASE u = t
    BY <1>2, <2>1
  <2>2. CASE u # t
    BY <1>1, <1>3, <2>2 DEF Rates
  <2> QED
    BY <2>1, <2>2
<1>5. \E u \in Threads : thread'[u].at \in {"store", "rate"} /\ thread'[u].object = rate'.n
  OBVIOUS
<1>6. ~\A u \in Threads : thread'[u].at # "store"
  OBVIOUS
<1> QED
  BY <1>2, <1>4, <1>5, <1>6 DEF Rates

\* applyTier.
LEMMA ApplyTierStep == ASSUME IInv, NEW t \in Tiers, ApplyTier(t) PROVE IInv'
<1> USE DEF IInv
<1>1. /\ UNCHANGED <<wire, camera, surfaces, captureSession, builder, made, pending, request>>
      /\ UNCHANGED <<rate, asked, clash>> /\ thread["main"].at = "idle"
      /\ tier' = t /\ UpdateBitrate("main", TierRate[t]) /\ Order("main", TierRate[t]) /\ Event
  BY DEF ApplyTier, IsAt, cameraVars, OnThermalAdjustment, Recommended
<1>2. /\ thread \in [Threads -> ThreadStates] /\ rate.n \in Nat /\ TierRate[t] \in Nat
      /\ "main" \in Threads /\ ordered \subseteq Nat
  BY ControlsAssumption DEF TypeOK, Threads
<1>3. /\ thread' \in [Threads -> ThreadStates] /\ Moves("main", thread'["main"])
      /\ thread'["main"].at = "store" /\ thread'["main"].object = rate.n
      /\ thread'["main"].value = TierRate[t]
  BY <1>1, <1>2, UpdateBitrateEffect
<1>4. events' \in 0 .. MaxEvents
  BY <1>1, ControlsAssumption DEF Event, TypeOK
<1>5. Rates' /\ ordered' \subseteq Nat
  BY <1>1, <1>2, <1>3, OrderKeeps
<1>6. TypeOK'
  BY <1>1, <1>3, <1>4, <1>5 DEF TypeOK
<1>7. CameraThreads
  BY <1>1, <1>3 DEF CameraThreads, Moves, Threads
<1>8. Ranges' /\ Previews' /\ Sessions' /\ Feeding' /\ Settings'
  BY <1>1, <1>7, CameraKept
<1> QED
  BY <1>5, <1>6, <1>8

\* A control moved on the PC.
LEMMA PcCommandStep == ASSUME IInv, NEW c \in Commands, PcCommand(c) PROVE IInv'
<1> USE DEF IInv
<1>1. /\ UNCHANGED <<thread, camera, surfaces, captureSession, builder, made, pending, request>>
      /\ UNCHANGED <<rate, tier, ordered, asked, clash>> /\ Event
      /\ wire' = Append(wire, [c |-> c, n |-> events'])
  BY DEF PcCommand, cameraVars, rateVars
<1>2. events' \in 0 .. MaxEvents /\ wire' \in Seq([c : Commands, n : Nat])
  BY <1>1, ControlsAssumption DEF Event, TypeOK
<1>3. TypeOK'
  BY <1>1, <1>2 DEF TypeOK
<1>4. CameraThreads /\ RateThreads
  BY <1>1 DEF CameraThreads, RateThreads
<1>5. Ranges' /\ Previews' /\ Sessions' /\ Feeding' /\ Settings'
  BY <1>1, <1>4, CameraKept
<1>6. Rates'
  BY <1>1, <1>4, RatesKept
<1> QED
  BY <1>3, <1>5, <1>6

-----------------------------------------------------------------------------
(* Settings *)

\* A setter: the setting is unread until its thread gets to it.
LEMMA SetKeeps ==
  ASSUME IInv, NEW t \in {"main", "control"}, NEW v \in Nat, thread[t].at = "idle", Set(t, v),
         UNCHANGED <<surfaces, captureSession, builder, made, pending, request, clash>>
  PROVE  /\ thread' \in [Threads -> ThreadStates] /\ RateThreads /\ asked' \subseteq Nat
         /\ camera' \in [n : Nat, opening : BOOLEAN, device : BOOLEAN, preview : Nat, setting : Nat]
         /\ Ranges' /\ Previews' /\ Sessions' /\ Feeding' /\ Settings'
<1> USE DEF IInv
<1>1. /\ thread \in [Threads -> ThreadStates] /\ t \in Threads /\ t # "camera" /\ "camera" \in Threads
      /\ camera \in [n : Nat, opening : BOOLEAN, device : BOOLEAN, preview : Nat, setting : Nat]
  BY DEF TypeOK, Threads
<1>2. /\ camera' \in [n : Nat, opening : BOOLEAN, device : BOOLEAN, preview : Nat, setting : Nat]
      /\ camera'.n = camera.n /\ camera'.device = camera.device /\ camera'.preview = camera.preview
      /\ camera'.opening = camera.opening /\ camera'.setting = v
  BY <1>1 DEF Set
<1>3. /\ thread' \in [Threads -> ThreadStates] /\ Moves(t, thread'[t])
      /\ thread'[t].at = "apply" /\ thread'[t].object = camera.n
  <2> DEFINE x == [thread[t] EXCEPT !.at = "apply", !.object = camera.n]
  <2>1. thread' = [thread EXCEPT ![t] = x]
    BY DEF Set
  <2>2. thread[t] \in ThreadStates
    BY <1>1
  <2>3. x \in ThreadStates /\ x.at = "apply" /\ x.object = camera.n
    BY <1>1, <2>2 DEF ThreadStates
  <2> HIDE DEF x
  <2>4. thread' \in [Threads -> ThreadStates] /\ Moves(t, x)
    BY <1>1, <2>1, <2>3, Moved
  <2>5. thread'[t] = x
    BY <2>4 DEF Moves
  <2> QED
    BY <2>3, <2>4, <2>5
<1>4. \A u \in Threads : u # t => thread'[u] = thread[u]
  BY <1>3 DEF Moves
<1>5. thread'["camera"] = thread["camera"]
  BY <1>1, <1>4
<1>6. RateThreads
  BY <1>3, <1>4 DEF RateThreads
<1>7. Ranges'
  BY <1>2, <1>3, <1>4, <1>5 DEF Ranges, Threads
<1>8. Making' <=> Making
  BY <1>3, <1>4, <1>5 DEF Making, Threads
<1>9. (Settled' <=> Settled) /\ (Configuring' <=> Configuring)
  BY <1>2, <1>5, <1>8 DEF Settled, Configuring
<1>10. Previews'
  BY <1>2, <1>3, <1>4, <1>5 DEF Previews, Threads
<1>11. Sessions'
  BY <1>2, <1>5, <1>9 DEF Sessions
<1>12. Feeding'
  BY <1>2, <1>5, <1>8, <1>9 DEF Feeding
<1>13. asked' \subseteq Nat /\ v \in asked'
  BY DEF Set, TypeOK
<1>14. \A u \in Threads : thread'[u].at = "submit" /\ thread'[u].object = camera.n =>
         thread'[u].value \in asked'
  <2> SUFFICES ASSUME NEW u \in Threads, thread'[u].at = "submit", thread'[u].object = camera.n
               PROVE  thread'[u].value \in asked'
    OBVIOUS
  <2>1. u # t /\ thread'[u] = thread[u]
    BY <1>3, <1>4
  <2>2. thread[u].value \in asked
    BY <2>1 DEF Settings
  <2>3. asked' = asked \cup {v}
    BY <2>1 DEF Set, IsAt
  <2> QED
    BY <2>1, <2>2, <2>3
<1>15. Submits'
  BY <1>1, <1>2, <1>3 DEF Submits, Current
<1>16. Settings'
  BY <1>2, <1>13, <1>14, <1>15 DEF Settings
<1> QED
  BY <1>2, <1>3, <1>6, <1>7, <1>10, <1>11, <1>12, <1>13, <1>16

\* The phone's user.
LEMMA LocalSetStep == IInv /\ LocalSet => IInv'
<1> SUFFICES ASSUME IInv, LocalSet PROVE IInv'
  OBVIOUS
<1> USE DEF IInv
<1>1. /\ UNCHANGED <<wire, surfaces, captureSession, builder, made, pending, request>>
      /\ UNCHANGED <<rate, tier, ordered, clash>>
      /\ thread["main"].at = "idle" /\ Event /\ Set("main", events')
  BY DEF LocalSet, IsAt, rateVars
<1>2. events' \in 0 .. MaxEvents /\ events' \in Nat
  <2>1. Event /\ events \in 0 .. MaxEvents
    BY <1>1 DEF TypeOK
  <2> QED
    BY <2>1, ControlsAssumption DEF Event
<1>3. /\ thread' \in [Threads -> ThreadStates] /\ RateThreads /\ asked' \subseteq Nat
      /\ camera' \in [n : Nat, opening : BOOLEAN, device : BOOLEAN, preview : Nat, setting : Nat]
      /\ Ranges' /\ Previews' /\ Sessions' /\ Feeding' /\ Settings'
  BY <1>1, <1>2, SetKeeps
<1>4. TypeOK'
  BY <1>1, <1>2, <1>3 DEF TypeOK
<1>5. Rates'
  BY <1>1, <1>3, RatesKept
<1> QED
  BY <1>3, <1>4, <1>5

\* A command of the PC.
LEMMA HandleControlCommandStep == IInv /\ HandleControlCommand => IInv'
<1> SUFFICES ASSUME IInv, HandleControlCommand PROVE IInv'
  OBVIOUS
<1> USE DEF IInv
<1> DEFINE c == Head(wire).c
<1>1. /\ UNCHANGED <<surfaces, captureSession, builder, made, pending, request, tier, clash, events>>
      /\ thread["control"].at = "idle" /\ wire # << >> /\ wire' = Tail(wire)
  BY DEF HandleControlCommand, IsAt
<1>2. \/ Set("control", Head(wire).n) /\ UNCHANGED <<rate, ordered>>
      \/ UNCHANGED <<thread, camera, rate, asked, ordered>>
      \/ /\ UpdateBitrate("control", c.rate) /\ Order("control", c.rate)
         /\ UNCHANGED <<camera, asked>>
         /\ rate' = rate \/ rate' = [rate EXCEPT !.current = c.rate]
  BY DEF HandleControlCommand
<1>3. /\ Head(wire) \in [c : Commands, n : Nat] /\ wire' \in Seq([c : Commands, n : Nat])
      /\ thread \in [Threads -> ThreadStates] /\ "control" \in Threads
      /\ rate \in [field : Nat, n : Nat, codec : Nat, current : Nat]
  <2>1. wire \in Seq([c : Commands, n : Nat]) /\ wire # << >>
    BY <1>1 DEF TypeOK
  <2>2. Head(wire) \in [c : Commands, n : Nat] /\ Tail(wire) \in Seq([c : Commands, n : Nat])
    BY <2>1, HeadTailProperties
  <2> QED
    BY <1>1, <2>2 DEF TypeOK, Threads
<1>4. Head(wire).n \in Nat /\ c.rate \in Nat
  <2>1. Head(wire).n \in Nat /\ Head(wire).c \in Commands
    BY <1>3
  <2>2. ASSUME NEW d \in Commands PROVE d.rate \in Nat
    <3>1. CASE d \in [op : {"set", "ignored"}, rate : {0}]
      BY <3>1
    <3>2. CASE d \in [op : {"start", "bitrate"}, rate : CommandRates]
      BY <3>2, ControlsAssumption
    <3> QED
      BY <3>1, <3>2 DEF Commands
  <2> QED
    BY <2>1, <2>2
<1> HIDE DEF c
<1>5. CASE Set("control", Head(wire).n) /\ UNCHANGED <<rate, ordered>>
  <2>1. /\ thread' \in [Threads -> ThreadStates] /\ RateThreads /\ asked' \subseteq Nat
        /\ camera' \in [n : Nat, opening : BOOLEAN, device : BOOLEAN, preview : Nat, setting : Nat]
        /\ Ranges' /\ Previews' /\ Sessions' /\ Feeding' /\ Settings'
    BY <1>1, <1>4, <1>5, SetKeeps
  <2>2. TypeOK'
    BY <1>1, <1>3, <1>5, <2>1 DEF TypeOK
  <2>3. Rates'
    BY <1>1, <1>5, <2>1, RatesKept
  <2> QED
    BY <2>1, <2>2, <2>3
<1>6. CASE UNCHANGED <<thread, camera, rate, asked, ordered>>
  <2>1. CameraThreads /\ RateThreads
    BY <1>6 DEF CameraThreads, RateThreads
  <2>2. Ranges' /\ Previews' /\ Sessions' /\ Feeding' /\ Settings'
    BY <1>1, <1>6, <2>1, CameraKept
  <2>3. TypeOK'
    BY <1>1, <1>3, <1>6 DEF TypeOK
  <2>4. Rates'
    BY <1>1, <1>6, <2>1, RatesKept
  <2> QED
    BY <2>2, <2>3, <2>4
<1>7. CASE /\ UpdateBitrate("control", c.rate) /\ Order("control", c.rate)
           /\ UNCHANGED <<camera, asked>>
           /\ rate' = rate \/ rate' = [rate EXCEPT !.current = c.rate]
  <2>1. /\ rate' \in [field : Nat, n : Nat, codec : Nat, current : Nat]
        /\ rate'.field = rate.field /\ rate'.n = rate.n /\ rate'.codec = rate.codec
    BY <1>3, <1>4, <1>7
  <2>2. /\ thread' \in [Threads -> ThreadStates] /\ Moves("control", thread'["control"])
        /\ thread'["control"].at = "store" /\ thread'["control"].object = rate.n
        /\ thread'["control"].value = c.rate
    BY <1>3, <1>4, <1>7, UpdateBitrateEffect
  <2>3. Rates' /\ ordered' \subseteq Nat
    <3>1. ordered \subseteq Nat
      BY DEF TypeOK
    <3> QED
      BY <1>1, <1>3, <1>4, <1>7, <2>1, <2>2, <3>1, OrderKeeps
  <2>4. TypeOK'
    BY <1>1, <1>3, <1>7, <2>1, <2>2, <2>3 DEF TypeOK
  <2>5. CameraThreads
    BY <1>1, <2>2 DEF CameraThreads, Moves, Threads
  <2>6. Ranges' /\ Previews' /\ Sessions' /\ Feeding' /\ Settings'
    BY <1>1, <1>7, <2>5, CameraKept
  <2> QED
    BY <2>3, <2>4, <2>6
<1> QED
  BY <1>2, <1>5, <1>6, <1>7

-----------------------------------------------------------------------------
(* createCaptureSession *)

\* The surfaces are read.
LEMMA CreateReadStep == ASSUME IInv, NEW t \in Threads, CreateRead(t) PROVE IInv'
<1> USE DEF IInv
<1>1. /\ UNCHANGED <<wire, camera, surfaces, captureSession, builder, made, pending, request>>
      /\ UNCHANGED <<rate, tier, ordered, asked, clash, events>> /\ thread[t].at = "read"
  BY DEF CreateRead, IsAt, cameraVars, rateVars
<1>2. /\ thread \in [Threads -> ThreadStates] /\ t \in {"main", "camera"}
      /\ camera \in [n : Nat, opening : BOOLEAN, device : BOOLEAN, preview : Nat, setting : Nat]
  BY <1>1 DEF TypeOK, Ranges, Threads
<1>3. /\ thread' \in [Threads -> ThreadStates] /\ Moves(t, thread'[t])
      /\ \/ camera.device = TRUE /\ thread'[t].at = "create" /\ thread'[t].surface = camera.preview
         \/ camera.device = FALSE /\ thread'[t].at = "idle"
  <2>1. CASE camera.device
    <3> DEFINE x == [thread[t] EXCEPT !.at = "create", !.surface = camera.preview]
    <3>1. thread' = [thread EXCEPT ![t] = x]
      BY <2>1 DEF CreateRead
    <3>2. thread[t] \in ThreadStates
      BY <1>2
    <3>3. x \in ThreadStates /\ x.at = "create" /\ x.surface = camera.preview
      BY <1>2, <3>2 DEF ThreadStates
    <3> HIDE DEF x
    <3>4. thread' \in [Threads -> ThreadStates] /\ Moves(t, x)
      BY <1>2, <3>1, <3>3, Moved
    <3>5. thread'[t] = x
      BY <3>4 DEF Moves
    <3> QED
      BY <1>2, <2>1, <3>3, <3>4, <3>5
  <2>2. CASE ~camera.device
    <3>1. Return(t)
      BY <2>2 DEF CreateRead
    <3>2. thread' \in [Threads -> ThreadStates] /\ Moves(t, Free)
      BY <1>2, <3>1, ReturnEffect
    <3>3. thread'[t] = Free /\ Free.at = "idle"
      BY <3>2 DEF Moves, Free
    <3> QED
      BY <1>2, <2>2, <3>2, <3>3
  <2> QED
    BY <2>1, <2>2
<1>4. \A u \in Threads : u # t => thread'[u] = thread[u]
  BY <1>3 DEF Moves
<1>5. TypeOK'
  BY <1>1, <1>3 DEF TypeOK
<1>6. RateThreads
  BY <1>1, <1>3, <1>4 DEF RateThreads
<1>7. Rates'
  BY <1>1, <1>6, RatesKept
<1>8. Ranges'
  BY <1>1, <1>2, <1>3, <1>4 DEF Ranges, Threads
<1>9. Previews'
  BY <1>1, <1>2, <1>3, <1>4 DEF Previews, Threads
<1>10. ~(camera.device = TRUE /\ ~Making')
  BY <1>2, <1>3 DEF Making
<1>11. Feeding'
  BY <1>1, <1>10 DEF Feeding, Settled
<1>12. Sessions'
  <2>1. Configuring' => thread'["camera"] = thread["camera"]
    BY <1>2, <1>3, <1>4 DEF Configuring, Threads
  <2>2. thread'["camera"].at \in {"build", "apply", "session", "value", "submit", "repeat"} => Configuring /\ Configuring'
    BY <2>1 DEF Configuring
  <2> QED
    BY <1>1, <2>1, <2>2 DEF Sessions, Configuring
<1>13. Settings'
  <2>1. \A u \in Threads : thread'[u].at = "submit" => thread'[u] = thread[u]
    BY <1>3, <1>4
  <2>2. ~Settled'
    BY <1>1, <1>10 DEF Settled
  <2> QED
    BY <1>1, <2>1, <2>2, SettingsKept
<1> QED
  BY <1>5, <1>7, <1>8, <1>9, <1>11, <1>12, <1>13

\* The session is made; the camera will come back with it.
LEMMA CreateStep == ASSUME IInv, NEW t \in Threads, Create(t) PROVE IInv'
<1> USE DEF IInv
<1>1. /\ UNCHANGED <<wire, camera, surfaces, captureSession, builder, request>>
      /\ UNCHANGED <<rate, tier, ordered, asked, events>>
      /\ thread[t].at = "create" /\ Return(t)
  BY DEF Create, IsAt, rateVars
<1>2. /\ thread \in [Threads -> ThreadStates] /\ t \in {"main", "camera"} /\ clash \in BOOLEAN
      /\ camera.device \in BOOLEAN
      /\ made \in [n : Nat, surface : Nat, open : BOOLEAN] /\ thread[t].surface \in Nat
  BY <1>1 DEF TypeOK, Ranges, Threads, ThreadStates
<1>3. /\ thread' \in [Threads -> ThreadStates] /\ Moves(t, Free) /\ Free.at = "idle"
  BY <1>1, <1>2, ReturnEffect DEF Free
<1>4. thread'[t].at = "idle" /\ \A u \in Threads : u # t => thread'[u] = thread[u]
  BY <1>3 DEF Moves
<1>5. RateThreads
  BY <1>1, <1>4 DEF RateThreads
<1>6. Rates'
  BY <1>1, <1>5, RatesKept
<1>7. \A u \in Threads : thread'[u].at = "submit" => thread'[u] = thread[u]
  BY <1>4
<1>8. Configuring' => thread'["camera"] = thread["camera"] /\ Configuring
  BY <1>2, <1>4 DEF Configuring, Threads
<1>9. CASE thread[t].surface \in surfaces.released \/ ~camera.device
  <2>1. UNCHANGED <<made, pending, clash>>
    BY <1>9 DEF Create
  <2>2. camera.device = FALSE \/ (t = "camera" /\ clash = TRUE)
    BY <1>1, <1>2, <1>9 DEF Previews
  <2>3. TypeOK'
    BY <1>1, <1>3, <2>1 DEF TypeOK
  <2>4. Ranges' /\ Previews'
    BY <1>1, <1>2, <1>4, <2>1 DEF Ranges, Previews, Threads
  <2>5. Sessions'
    BY <1>1, <1>8, <2>1 DEF Sessions, Configuring
  <2>6. ~Settled' /\ (camera'.device = FALSE \/ clash' = TRUE)
    BY <1>1, <2>1, <2>2 DEF Settled
  <2>7. Feeding'
    BY <2>6 DEF Feeding
  <2>8. Settings'
    BY <1>1, <1>7, <2>6, SettingsKept
  <2> QED
    BY <1>6, <2>3, <2>4, <2>5, <2>7, <2>8
<1>10. CASE thread[t].surface \notin surfaces.released /\ camera.device
  <2> DEFINE n == made.n + 1
  <2>1. /\ made' = [n |-> n, surface |-> thread[t].surface, open |-> TRUE]
        /\ pending' = Append(pending, n)
    BY <1>10 DEF Create
  <2>2. clash' \in BOOLEAN /\ (clash' = FALSE => clash = FALSE \/ thread["camera"].at # "create")
    BY <1>2, <1>10 DEF Create, IsAt
  <2>3. n \in Nat /\ n # 0 /\ made.n \in Nat
    BY <1>2
  <2>4. /\ made' \in [n : Nat, surface : Nat, open : BOOLEAN]
        /\ made'.n = n /\ made'.surface = thread[t].surface /\ made'.open = TRUE
    BY <1>2, <2>1, <2>3
  <2>5. /\ pending' \in Seq(1 .. n) /\ pending' # << >> /\ pending'[Len(pending')] = n
    <3>1. pending \in Seq(1 .. made.n)
      BY DEF TypeOK
    <3>2. pending \in Seq(1 .. n)
      BY <2>3, <3>1
    <3> QED
      BY <2>1, <2>3, <3>2
  <2>6. captureSession \in 0 .. n /\ request \in [session : 0 .. n, value : Nat]
    <3>1. captureSession \in 0 .. made.n /\ request \in [session : 0 .. made.n, value : Nat]
      BY DEF TypeOK
    <3>2. 0 .. made.n \subseteq 0 .. n
      BY <2>3
    <3> HIDE DEF n
    <3> QED
      BY <3>1, <3>2
  <2> HIDE DEF n
  <2>7. TypeOK'
    BY <1>1, <1>3, <2>2, <2>4, <2>5, <2>6 DEF TypeOK
  <2>8. Ranges'
    BY <1>1, <1>2, <1>4, <2>5 DEF Ranges, Threads
  <2>9. Previews'
    BY <1>1, <1>2, <1>4, <2>2 DEF Previews, Threads
  <2>10. Sessions'
    BY <1>1, <1>8, <2>4, <2>5 DEF Sessions, Configuring
  <2>11. Feeding'
    <3>1. ~Settled'
      BY <2>5 DEF Settled
    <3>2. ASSUME clash' = FALSE, ~Making' PROVE thread[t].surface = camera.preview
      <4>1. thread'["camera"].at # "create"
        BY <3>2 DEF Making
      <4>2. t = "main" \/ clash = FALSE
        BY <1>1, <1>2, <2>2, <3>2
      <4> QED
        BY <1>1, <1>2, <4>2 DEF Previews
    <3> QED
      BY <1>1, <2>3, <2>4, <3>1, <3>2 DEF Feeding
  <2>12. Settings'
    <3>1. ~Settled'
      BY <2>5 DEF Settled
    <3> QED
      BY <1>1, <1>7, <3>1, SettingsKept
  <2> QED
    BY <1>6, <2>7, <2>8, <2>9, <2>10, <2>11, <2>12
<1> QED
  BY <1>9, <1>10

\* onOpened.
LEMMA OnOpenedStep == IInv /\ OnOpened => IInv'
<1> SUFFICES ASSUME IInv, OnOpened PROVE IInv'
  OBVIOUS
<1> USE DEF IInv
<1>1. /\ UNCHANGED <<wire, surfaces, captureSession, builder, made, pending, request>>
      /\ UNCHANGED <<rate, tier, ordered, asked, clash, events>>
      /\ thread["camera"].at = "idle" /\ camera.opening /\ Goto("camera", "read")
  BY DEF OnOpened, IsAt, rateVars
<1>2. thread \in [Threads -> ThreadStates] /\ "camera" \in Threads
  BY DEF TypeOK, Threads
<1>3. /\ thread' \in [Threads -> ThreadStates] /\ Moves("camera", thread'["camera"])
      /\ thread'["camera"].at = "read"
  BY <1>1, <1>2, GotoEffect
<1>4. \A u \in Threads : u # "camera" => thread'[u] = thread[u]
  BY <1>3 DEF Moves
<1>5. /\ camera' \in [n : Nat, opening : BOOLEAN, device : BOOLEAN, preview : Nat, setting : Nat]
      /\ camera'.preview = camera.preview /\ camera'.n = camera.n
      /\ camera'.setting = camera.setting
  BY DEF OnOpened, TypeOK
<1>6. TypeOK'
  BY <1>1, <1>3, <1>5 DEF TypeOK
<1>7. RateThreads
  BY <1>1, <1>3, <1>4 DEF RateThreads
<1>8. Rates'
  BY <1>1, <1>7, RatesKept
<1>9. Making'
  BY <1>3 DEF Making
<1>10. Ranges' /\ Previews'
  BY <1>1, <1>3, <1>4, <1>5 DEF Ranges, Previews, Threads
<1>11. Sessions' /\ Feeding'
  BY <1>1, <1>3, <1>9 DEF Sessions, Feeding, Settled, Configuring
<1>12. Settings'
  <2>1. \A u \in Threads : thread'[u].at = "submit" => thread'[u] = thread[u]
    BY <1>3, <1>4
  <2>2. ~Settled'
    BY <1>9 DEF Settled
  <2> QED
    BY <1>1, <1>5, <2>1, <2>2, SettingsKept
<1> QED
  BY <1>6, <1>8, <1>10, <1>11, <1>12

\* onDisconnected, onError.
LEMMA OnCameraLostStep == IInv /\ OnCameraLost => IInv'
<1> SUFFICES ASSUME IInv, OnCameraLost PROVE IInv'
  OBVIOUS
<1> USE DEF IInv
<1>1. /\ UNCHANGED <<thread, wire, surfaces, captureSession, builder, pending>>
      /\ UNCHANGED <<rate, tier, ordered, asked, clash, events>>
      /\ thread["camera"].at = "idle" /\ request' = NoRequest
  BY DEF OnCameraLost, IsAt, rateVars
<1>2. /\ camera' \in [n : Nat, opening : BOOLEAN, device : BOOLEAN, preview : Nat, setting : Nat]
      /\ camera'.preview = camera.preview /\ camera'.n = camera.n
      /\ camera'.setting = camera.setting /\ camera'.device = FALSE /\ camera'.opening = FALSE
  BY DEF OnCameraLost, TypeOK
<1>3. made' \in [n : Nat, surface : Nat, open : BOOLEAN] /\ made'.n = made.n /\ made.n \in Nat
  BY DEF OnCameraLost, TypeOK
<1>4. request' \in [session : 0 .. made.n, value : Nat]
  BY <1>1, <1>3 DEF NoRequest
<1>5. TypeOK'
  BY <1>1, <1>2, <1>3, <1>4 DEF TypeOK
<1>6. RateThreads
  BY <1>1 DEF RateThreads
<1>7. Rates'
  BY <1>1, <1>6, RatesKept
<1>8. Ranges' /\ Previews'
  BY <1>1, <1>2 DEF Ranges, Previews
<1>9. Sessions'
  BY <1>1, <1>3 DEF Sessions, Configuring
<1>10. ~Settled' /\ Feeding'
  BY <1>2 DEF Feeding, Settled
<1>11. Settings'
  BY <1>1, <1>2, <1>10, SettingsKept
<1> QED
  BY <1>5, <1>7, <1>8, <1>9, <1>10, <1>11

-----------------------------------------------------------------------------
(* applyCameraControls *)

\* A thread leaves applyCameraControls.
LEMMA AppliedEffect ==
  ASSUME thread \in [Threads -> ThreadStates], NEW t \in Threads, Applied(t)
  PROVE  /\ thread' \in [Threads -> ThreadStates]
         /\ \A u \in Threads : u # t => thread'[u] = thread[u]
         /\ t # "camera" => thread'[t].at = "idle"
         /\ t = "camera" => thread'[t].at = "repeat" /\ thread'[t].configured = thread[t].configured
                            /\ thread'[t].object = thread[t].object
<1>1. CASE t = "camera"
  <2>1. Goto(t, "repeat")
    BY <1>1 DEF Applied
  <2> QED
    BY <1>1, <2>1, GotoEffect DEF Moves
<1>2. CASE t # "camera"
  <2>1. thread' \in [Threads -> ThreadStates] /\ Moves(t, Free)
    BY <1>2, ReturnEffect DEF Applied
  <2> QED
    BY <1>2, <2>1 DEF Moves, Free
<1> QED
  BY <1>1, <1>2

\* Thread t is in applyCameraControls before, and perhaps after, the step.
ApplyMoves(t) ==
  /\ \A u \in Threads : u # t => thread'[u] = thread[u]
  /\ thread[t].at \in {"apply", "session", "value", "submit"}
  /\ t # "camera" => thread'[t].at \in {"session", "value", "submit", "idle"}
  /\ t = "camera" => /\ thread'[t].at \in {"session", "value", "submit", "repeat"}
                     /\ thread'[t].configured = thread[t].configured
                     /\ thread'[t].object = thread[t].object
                     /\ thread'[t].at # "repeat" => thread'[t].builder = builder.n

\* What the settings do not disturb.
LEMMA ApplyKeeps ==
  ASSUME IInv, NEW t \in Threads, ApplyMoves(t),
         UNCHANGED <<camera, surfaces, captureSession, made, pending, clash>>,
         builder'.n = builder.n, builder'.surface = builder.surface,
         request'.session \in {request.session, made.n}
  PROVE  Ranges' /\ Previews' /\ Sessions' /\ Feeding' /\ RateThreads /\ (Settled' <=> Settled)
<1> USE DEF IInv
<1>1. RateThreads
  BY DEF RateThreads, ApplyMoves, Ranges, Threads
<1>2. Ranges'
  BY DEF Ranges, ApplyMoves, Threads
<1>3. Previews'
  BY DEF Previews, ApplyMoves, Threads
<1>4. Making' <=> Making
  BY DEF Making, ApplyMoves, Threads
<1>5. Settled' <=> Settled
  BY <1>4 DEF Settled
<1>6. Configuring' <=> Configuring
  BY DEF Configuring, ApplyMoves, Threads
<1>7. /\ (thread'["camera"].at = "build") <=> (thread["camera"].at = "build")
      /\ thread'["camera"].configured = thread["camera"].configured
      /\ thread'["camera"].object = thread["camera"].object
      /\ thread'["camera"].at \in {"build", "apply", "session", "value", "submit"} =>
           thread["camera"].at \in {"build", "apply", "session", "value", "submit"}
      /\ thread'["camera"].at \in {"apply", "session", "value", "submit", "repeat"} =>
           thread["camera"].at \in {"apply", "session", "value", "submit", "repeat"}
      /\ thread'["camera"].at \in {"session", "value", "submit"} =>
           thread'["camera"].builder = builder.n
  BY DEF ApplyMoves, Threads, Sessions
<1>8. Sessions'
  BY <1>6, <1>7 DEF Sessions
<1>9. Feeding'
  BY <1>4, <1>5, <1>6, <1>7 DEF Feeding
<1> QED
  BY <1>1, <1>2, <1>3, <1>5, <1>8, <1>9

\* Thread t reads: what is for the newest session stays so.
LEMMA ReadKeeps ==
  ASSUME IInv, NEW t \in Threads, NEW x \in ThreadStates, thread' = [thread EXCEPT ![t] = x],
         UNCHANGED <<wire, camera, surfaces, captureSession, builder, made, pending, request>>,
         UNCHANGED <<rate, tier, ordered, asked, clash, events>>,
         thread[t].at \in {"apply", "session", "value"}, x.at \in {"session", "value", "submit"},
         x.object = thread[t].object, x.configured = thread[t].configured,
         x.at = "submit" /\ x.object = camera.n => x.value \in asked,
         t = "camera" => x.builder = builder.n,
         Settled /\ thread["camera"].at # "build" /\ Current(t) =>
           /\ x.surface = made.surface /\ x.builder = made.n
           /\ x.at \in {"value", "submit"} => x.session = made.n
  PROVE  IInv'
<1> USE DEF IInv
<1>1. thread' \in [Threads -> ThreadStates] /\ Moves(t, x)
  BY Moved DEF TypeOK
<1>2. thread'[t] = x /\ \A u \in Threads : u # t => thread'[u] = thread[u]
  BY <1>1 DEF Moves
<1>3. ApplyMoves(t)
  BY <1>2 DEF ApplyMoves
<1>4. Ranges' /\ Previews' /\ Sessions' /\ Feeding' /\ RateThreads /\ (Settled' <=> Settled)
  BY <1>3, ApplyKeeps
<1>5. Rates'
  BY <1>4, RatesKept
<1>6. TypeOK'
  BY <1>1 DEF TypeOK
<1>7. \A u \in Threads : u # t /\ Current(u) => Current(u)'
  BY <1>2 DEF Current
<1>8. Settled /\ thread["camera"].at # "build" /\ Current(t) => Current(t)'
  BY <1>2 DEF Current
<1>9. thread["camera"].at = "build" => Submits'
  BY <1>2 DEF Submits, Threads
<1>10. Settled /\ Submits => Submits'
  <2> SUFFICES ASSUME Settled, Submits, thread["camera"].at # "build" PROVE Submits'
    BY <1>9
  <2>1. PICK u \in Threads :
          thread[u].at \in {"apply", "session", "value", "submit"} /\ Current(u)
    BY DEF Submits
  <2>2. thread'[u].at \in {"apply", "session", "value", "submit"}
    BY <1>2, <2>1
  <2>3. Current(u)'
    BY <1>7, <1>8, <2>1
  <2> QED
    BY <2>2, <2>3 DEF Submits
<1>11. \A u \in Threads : thread'[u].at = "submit" /\ thread'[u].object = camera.n =>
         thread'[u].value \in asked
  BY <1>2 DEF Settings
<1>12. thread'["camera"].at = "repeat" => thread["camera"].at = "repeat"
  BY <1>2 DEF Threads
<1>13. Settings'
  BY <1>4, <1>10, <1>11, <1>12 DEF Settings
<1> QED
  BY <1>4, <1>5, <1>6, <1>13

\* Thread t finds nothing to apply to: the camera is between two sessions, or t
\* holds a controller that was replaced.
LEMMA LeaveKeeps ==
  ASSUME IInv, NEW t \in Threads, Applied(t), thread[t].at \in {"apply", "session"},
         UNCHANGED <<wire, camera, surfaces, captureSession, builder, made, pending, request>>,
         UNCHANGED <<rate, tier, ordered, asked, clash, events>>,
         builder = NoBuilder \/ captureSession = 0 \/ thread[t].object # camera.n
  PROVE  IInv'
<1> USE DEF IInv
<1>1. /\ thread' \in [Threads -> ThreadStates]
      /\ \A u \in Threads : u # t => thread'[u] = thread[u]
      /\ t # "camera" => thread'[t].at = "idle"
      /\ t = "camera" => thread'[t].at = "repeat" /\ thread'[t].configured = thread[t].configured
                         /\ thread'[t].object = thread[t].object
  BY AppliedEffect DEF TypeOK
<1>2. ApplyMoves(t)
  BY <1>1 DEF ApplyMoves
<1>3. Ranges' /\ Previews' /\ Sessions' /\ Feeding' /\ RateThreads /\ (Settled' <=> Settled)
  BY <1>2, ApplyKeeps
<1>4. Rates'
  BY <1>3, RatesKept
<1>5. TypeOK'
  BY <1>1 DEF TypeOK
<1>6. ASSUME Settled, thread["camera"].at # "build"
      PROVE  thread[t].object # camera.n /\ t # "camera"
  <2>1. builder.n # 0 /\ captureSession # 0
    BY <1>6 DEF Feeding, Settled
  <2>2. builder # NoBuilder
    BY <2>1 DEF NoBuilder
  <2>3. thread[t].object # camera.n
    BY <2>1, <2>2
  <2> QED
    BY <2>3 DEF Sessions
<1>7. thread["camera"].at = "build" => Submits'
  BY <1>1 DEF Submits, Threads
<1>8. \A u \in Threads : u # t /\ Current(u) => Current(u)'
  BY <1>1 DEF Current
<1>9. Settled /\ Submits => Submits'
  <2> SUFFICES ASSUME Settled, Submits, thread["camera"].at # "build" PROVE Submits'
    BY <1>7
  <2>1. PICK u \in Threads :
          thread[u].at \in {"apply", "session", "value", "submit"} /\ Current(u)
    BY DEF Submits
  <2>2. u # t
    BY <1>6, <2>1 DEF Current
  <2> QED
    BY <1>1, <1>8, <2>1, <2>2 DEF Submits
<1>10. \A u \in Threads : thread'[u].at = "submit" => thread'[u] = thread[u]
  BY <1>1
<1>11. Settled /\ thread["camera"].at # "build" => thread'["camera"] = thread["camera"]
  BY <1>1, <1>6 DEF Threads
<1>12. Settings'
  BY <1>3, <1>7, <1>9, <1>10, <1>11 DEF Settings
<1> QED
  BY <1>3, <1>4, <1>5, <1>12

\* The builder is read.
LEMMA ApplyLoadStep == ASSUME IInv, NEW t \in Threads, ApplyLoad(t) PROVE IInv'
<1> DEFINE x == [thread[t] EXCEPT !.at = "session", !.builder = builder.n,
                                  !.surface = builder.surface]
<1>1. /\ UNCHANGED <<wire, camera, surfaces, captureSession, builder, made, pending, request>>
      /\ UNCHANGED <<rate, tier, ordered, asked, clash, events>> /\ thread[t].at = "apply"
  BY DEF ApplyLoad, IsAt, cameraVars, rateVars
<1>2. \/ thread' = [thread EXCEPT ![t] = x]
      \/ Applied(t) /\ (builder = NoBuilder \/ thread[t].object # camera.n)
  BY DEF ApplyLoad
<1>3. /\ thread[t] \in ThreadStates /\ builder \in [n : Nat, surface : Nat, value : Nat]
  BY DEF IInv, TypeOK
<1>4. /\ x \in ThreadStates /\ x.at = "session" /\ x.object = thread[t].object
      /\ x.builder = builder.n /\ x.surface = builder.surface
      /\ x.configured = thread[t].configured
  BY <1>3 DEF ThreadStates
<1> HIDE DEF x
<1>5. Settled /\ thread["camera"].at # "build" => builder.n = made.n /\ builder.surface = made.surface
  BY DEF IInv, Feeding, Settled
<1>6. CASE thread' = [thread EXCEPT ![t] = x]
  BY <1>1, <1>4, <1>5, <1>6, ReadKeeps
<1>7. CASE Applied(t) /\ (builder = NoBuilder \/ thread[t].object # camera.n)
  BY <1>1, <1>7, LeaveKeeps
<1> QED
  BY <1>2, <1>6, <1>7

\* The session is read.
LEMMA ApplySessionStep == ASSUME IInv, NEW t \in Threads, ApplySession(t) PROVE IInv'
<1> DEFINE x == [thread[t] EXCEPT !.at = "value", !.session = captureSession]
<1>1. /\ UNCHANGED <<wire, camera, surfaces, captureSession, builder, made, pending, request>>
      /\ UNCHANGED <<rate, tier, ordered, asked, clash, events>> /\ thread[t].at = "session"
  BY DEF ApplySession, IsAt, cameraVars, rateVars
<1>2. \/ thread' = [thread EXCEPT ![t] = x]
      \/ Applied(t) /\ (captureSession = 0 \/ thread[t].object # camera.n)
  BY DEF ApplySession
<1>3. thread[t] \in ThreadStates /\ captureSession \in Nat
  BY DEF IInv, TypeOK
<1>4. /\ x \in ThreadStates /\ x.at = "value" /\ x.object = thread[t].object
      /\ x.builder = thread[t].builder /\ x.surface = thread[t].surface
      /\ x.session = captureSession /\ x.configured = thread[t].configured
  BY <1>3 DEF ThreadStates
<1> HIDE DEF x
<1>5. Settled => captureSession = made.n
  BY DEF IInv, Feeding
<1>6. CASE thread' = [thread EXCEPT ![t] = x]
  <2>1. Current(t) => x.surface = made.surface /\ x.builder = made.n
    BY <1>1, <1>4 DEF Current
  <2>2. t = "camera" => x.builder = builder.n
    BY <1>1, <1>4 DEF IInv, Sessions
  <2> QED
    BY <1>1, <1>4, <1>5, <1>6, <2>1, <2>2, ReadKeeps
<1>7. CASE Applied(t) /\ (captureSession = 0 \/ thread[t].object # camera.n)
  BY <1>1, <1>7, LeaveKeeps
<1> QED
  BY <1>2, <1>6, <1>7

\* The setting is read.
LEMMA ApplyValueStep == ASSUME IInv, NEW t \in Threads, ApplyValue(t) PROVE IInv'
<1> DEFINE v == IF thread[t].object = camera.n THEN camera.setting ELSE 0
           x == [thread[t] EXCEPT !.at = "submit", !.value = v]
<1>1. /\ UNCHANGED <<wire, camera, surfaces, captureSession, builder, made, pending, request>>
      /\ UNCHANGED <<rate, tier, ordered, asked, clash, events>> /\ thread[t].at = "value"
      /\ thread' = [thread EXCEPT ![t] = x]
  BY DEF ApplyValue, IsAt, cameraVars, rateVars
<1>2. /\ thread[t] \in ThreadStates /\ v \in Nat
      /\ thread[t].object = camera.n => v \in asked
  BY DEF IInv, TypeOK, Settings
<1> HIDE DEF v
<1>3. /\ x \in ThreadStates /\ x.at = "submit" /\ x.object = thread[t].object
      /\ x.builder = thread[t].builder /\ x.surface = thread[t].surface
      /\ x.session = thread[t].session /\ x.configured = thread[t].configured /\ x.value = v
  BY <1>2 DEF ThreadStates
<1> HIDE DEF x
<1>4. Current(t) => x.surface = made.surface /\ x.builder = made.n /\ x.session = made.n
  BY <1>1, <1>3 DEF Current
<1>5. t = "camera" => x.builder = builder.n
  BY <1>1, <1>3 DEF IInv, Sessions
<1> QED
  BY <1>1, <1>2, <1>3, <1>4, <1>5, ReadKeeps

\* The value read is set, and the request made.
LEMMA ApplySubmitStep == ASSUME IInv, NEW t \in Threads, ApplySubmit(t) PROVE IInv'
<1> USE DEF IInv
<1>1. /\ UNCHANGED <<wire, camera, surfaces, captureSession, made, pending>>
      /\ UNCHANGED <<rate, tier, ordered, asked, clash, events>>
      /\ thread[t].at = "submit" /\ Applied(t)
  BY DEF ApplySubmit, IsAt, rateVars
<1>2. /\ thread \in [Threads -> ThreadStates] /\ thread[t].value \in Nat
      /\ builder \in [n : Nat, surface : Nat, value : Nat] /\ made.n \in Nat
      /\ request \in [session : 0 .. made.n, value : Nat]
  BY DEF TypeOK, ThreadStates
<1>3. /\ builder' \in [n : Nat, surface : Nat, value : Nat]
      /\ builder'.n = builder.n /\ builder'.surface = builder.surface
      /\ builder'.value = IF thread[t].object = camera.n /\ thread[t].builder = builder.n
                          THEN thread[t].value ELSE builder.value
  BY <1>2 DEF ApplySubmit
<1>4. /\ request' \in [session : 0 .. made.n, value : Nat]
      /\ request'.session \in {request.session, made.n}
      /\ request'.value = IF thread[t].object = camera.n
                               /\ Accepted(thread[t].session, thread[t].surface)
                          THEN thread[t].value ELSE request.value
  <2>1. CASE thread[t].object = camera.n /\ Accepted(thread[t].session, thread[t].surface)
    <3>1. request' = [session |-> thread[t].session, value |-> thread[t].value]
      BY <2>1 DEF ApplySubmit
    <3>2. thread[t].session = made.n /\ made.n \in 0 .. made.n
      BY <1>2, <2>1 DEF Accepted
    <3> QED
      BY <1>2, <2>1, <3>1, <3>2
  <2>2. CASE ~(thread[t].object = camera.n /\ Accepted(thread[t].session, thread[t].surface))
    <3>1. request' = request
      BY <2>2 DEF ApplySubmit
    <3> QED
      BY <1>2, <2>2, <3>1
  <2> QED
    BY <2>1, <2>2
<1>5. /\ thread' \in [Threads -> ThreadStates]
      /\ \A u \in Threads : u # t => thread'[u] = thread[u]
      /\ t # "camera" => thread'[t].at = "idle"
      /\ t = "camera" => thread'[t].at = "repeat" /\ thread'[t].configured = thread[t].configured
                         /\ thread'[t].object = thread[t].object
  BY <1>1, <1>2, AppliedEffect
<1>6. ApplyMoves(t)
  BY <1>1, <1>5 DEF ApplyMoves
<1>7. Ranges' /\ Previews' /\ Sessions' /\ Feeding' /\ RateThreads /\ (Settled' <=> Settled)
  BY <1>1, <1>3, <1>4, <1>6, ApplyKeeps
<1>8. Rates'
  BY <1>1, <1>7, RatesKept
<1>9. TypeOK'
  BY <1>1, <1>3, <1>4, <1>5 DEF TypeOK
<1>10. \A u \in Threads : thread'[u].at = "submit" => thread'[u] = thread[u]
  BY <1>5
<1>11. thread[t].object = camera.n => thread[t].value \in asked
  BY <1>1 DEF Settings
<1>12. /\ request.value \in asked => request'.value \in asked
       /\ builder.value \in asked => builder'.value \in asked
  BY <1>3, <1>4, <1>11
<1>13. ASSUME Settled, Current(t), thread["camera"].at # "build"
       PROVE  request'.value \in asked /\ builder'.value \in asked
  <2>1. builder.n = made.n /\ made.open
    BY <1>13 DEF Feeding, Settled
  <2>2. Accepted(thread[t].session, thread[t].surface) /\ thread[t].builder = made.n
    BY <1>1, <1>13, <2>1 DEF Accepted, Current
  <2>3. thread[t].object = camera.n
    BY <1>13 DEF Current
  <2> QED
    BY <1>3, <1>4, <1>11, <2>1, <2>2, <2>3
<1>14. thread["camera"].at = "build" => Submits'
  BY <1>1, <1>5 DEF Submits, Threads
<1>15. ASSUME NEW u \in Threads, u # t, Current(u),
              thread[u].at \in {"apply", "session", "value", "submit"}
       PROVE  Submits'
  <2>1. Current(u)'
    BY <1>1, <1>5, <1>15 DEF Current
  <2> QED
    BY <1>5, <1>15, <2>1 DEF Submits
<1>16. ASSUME Settled, ~Submits'
       PROVE  /\ request'.value \in asked
              /\ thread'["camera"].at = "repeat" => builder'.value \in asked
  <2>1. CASE Current(t)
    BY <1>13, <1>14, <1>16, <2>1
  <2>2. CASE ~Current(t)
    <3>1. ~Submits
      BY <1>14, <1>15, <1>16, <2>2 DEF Submits
    <3>2. /\ request.value \in asked
          /\ thread["camera"].at = "repeat" => builder.value \in asked
      BY <1>16, <3>1 DEF Settings
    <3>3. t = "camera" => builder'.value \in asked
      BY <1>1, <1>3, <1>11 DEF Sessions
    <3> QED
      BY <1>5, <1>12, <3>2, <3>3 DEF Threads
  <2> QED
    BY <2>1, <2>2
<1>17. Settings'
  BY <1>1, <1>7, <1>10, <1>16 DEF Settings
<1> QED
  BY <1>7, <1>8, <1>9, <1>17

-----------------------------------------------------------------------------
(* onConfigured *)

\* The oldest session comes back.
LEMMA OnConfiguredStep == IInv /\ OnConfigured => IInv'
<1> SUFFICES ASSUME IInv, OnConfigured PROVE IInv'
  OBVIOUS
<1> USE DEF IInv
<1> DEFINE h == Head(pending)
<1>1. /\ UNCHANGED <<wire, camera, surfaces, builder, made, request>>
      /\ UNCHANGED <<rate, tier, ordered, asked, clash, events>>
      /\ thread["camera"].at = "idle" /\ pending # << >> /\ pending' = Tail(pending)
  BY DEF OnConfigured, IsAt, rateVars
<1>2. /\ thread \in [Threads -> ThreadStates] /\ "camera" \in Threads /\ made.n \in Nat
      /\ camera \in [n : Nat, opening : BOOLEAN, device : BOOLEAN, preview : Nat, setting : Nat]
      /\ pending \in Seq(1 .. made.n)
  BY DEF TypeOK, Threads
<1>3. h \in 1 .. made.n /\ Tail(pending) \in Seq(1 .. made.n)
  BY <1>1, <1>2, HeadTailProperties
<1>4. pending[Len(pending)] = made.n
  BY <1>1 DEF Sessions
<1>5. /\ Tail(pending) = << >> => h = made.n
      /\ Tail(pending) # << >> => Tail(pending)[Len(Tail(pending))] = made.n
  <2>1. Len(pending) \in Nat \ {0} /\ Len(Tail(pending)) = Len(pending) - 1 /\ h = pending[1]
    BY <1>1, <1>2
  <2>2. Tail(pending) = << >> => Len(pending) = 1
    BY <2>1
  <2>3. Tail(pending) # << >> => Len(Tail(pending)) >= 1
    BY <1>1, <1>2
  <2>4. Tail(pending) # << >> => Tail(pending)[Len(Tail(pending))] = pending[Len(pending)]
    BY <1>1, <1>2, <2>1, <2>3
  <2> QED
    BY <1>4, <2>1, <2>2, <2>4
<1> HIDE DEF h
<1>6. CASE camera.device
  <2>5. captureSession' = h
    BY <1>6 DEF OnConfigured, h
  <2>6. /\ thread' \in [Threads -> ThreadStates] /\ Moves("camera", thread'["camera"])
        /\ thread'["camera"].at = "build" /\ thread'["camera"].object = camera.n
        /\ thread'["camera"].configured = h
    <3> DEFINE x == [thread["camera"] EXCEPT !.at = "build", !.object = camera.n, !.configured = h]
    <3>1. thread' = [thread EXCEPT !["camera"] = x]
      BY <1>6 DEF OnConfigured, h
    <3>2. thread["camera"] \in ThreadStates /\ h \in Nat
      BY <1>2, <1>3
    <3>3. x \in ThreadStates /\ x.at = "build" /\ x.object = camera.n /\ x.configured = h
      BY <1>2, <3>2 DEF ThreadStates
    <3> HIDE DEF x
    <3>4. thread' \in [Threads -> ThreadStates] /\ Moves("camera", x)
      BY <1>2, <3>1, <3>3, Moved
    <3>5. thread'["camera"] = x
      BY <3>4 DEF Moves
    <3> QED
      BY <3>3, <3>4, <3>5
  <2>7. \A u \in Threads : u # "camera" => thread'[u] = thread[u]
    BY <2>6 DEF Moves
  <2>8. TypeOK'
    <3>1. captureSession' \in 0 .. made.n
      BY <1>2, <1>3, <2>5
    <3> QED
      BY <1>1, <1>3, <2>6, <3>1 DEF TypeOK
  <2>9. RateThreads
    BY <1>1, <2>6, <2>7 DEF RateThreads
  <2>10. Rates'
    BY <1>1, <2>9, RatesKept
  <2>11. Ranges' /\ Previews'
    BY <1>1, <2>6, <2>7 DEF Ranges, Previews, Threads
  <2>12. h # 0
    BY <1>2, <1>3
  <2>13. Sessions'
    BY <1>1, <1>5, <2>6, <2>12 DEF Sessions
  <2>14. Making' <=> Making
    BY <1>1, <2>6, <2>7 DEF Making, Threads
  <2>15. Feeding'
    BY <1>1, <1>5, <2>5, <2>6, <2>14 DEF Feeding, Settled, Configuring
  <2>16. Settings'
    <3>1. Submits'
      BY <2>6 DEF Submits
    <3>2. \A u \in Threads : thread'[u].at = "submit" => thread'[u] = thread[u]
      BY <2>6, <2>7
    <3> QED
      BY <1>1, <3>1, <3>2 DEF Settings
  <2> QED
    BY <2>8, <2>10, <2>11, <2>13, <2>15, <2>16
<1>7. CASE ~camera.device
  <2>1. UNCHANGED <<captureSession, thread>>
    BY <1>7 DEF OnConfigured
  <2>2. TypeOK'
    BY <1>1, <1>3, <2>1 DEF TypeOK
  <2>3. RateThreads
    BY <2>1 DEF RateThreads
  <2>4. Rates'
    BY <1>1, <2>3, RatesKept
  <2>5. Ranges' /\ Previews'
    BY <1>1, <2>1 DEF Ranges, Previews
  <2>6. Sessions'
    BY <1>1, <1>5, <2>1 DEF Sessions, Configuring
  <2>7. ~Settled' /\ Feeding'
    BY <1>1, <1>2, <1>7 DEF Settled, Feeding
  <2>8. Settings'
    BY <1>1, <2>1, <2>7, SettingsKept
  <2> QED
    BY <2>2, <2>4, <2>5, <2>6, <2>7, <2>8
<1> QED
  BY <1>6, <1>7

\* The builder for the session that came back.
LEMMA BuildStep == IInv /\ Build => IInv'
<1> SUFFICES ASSUME IInv, Build PROVE IInv'
  OBVIOUS
<1> USE DEF IInv
<1>1. /\ UNCHANGED <<wire, camera, surfaces, captureSession, made, pending, request>>
      /\ UNCHANGED <<rate, tier, ordered, asked, clash, events>>
      /\ thread["camera"].at = "build" /\ Goto("camera", "apply")
      /\ builder' = [n |-> thread["camera"].configured, surface |-> camera.preview, value |-> 0]
  BY DEF Build, IsAt, rateVars
<1>2. /\ thread \in [Threads -> ThreadStates] /\ "camera" \in Threads
      /\ camera \in [n : Nat, opening : BOOLEAN, device : BOOLEAN, preview : Nat, setting : Nat]
      /\ thread["camera"].configured \in Nat
  BY DEF TypeOK, Threads, ThreadStates
<1>3. /\ thread' \in [Threads -> ThreadStates] /\ Moves("camera", thread'["camera"])
      /\ thread'["camera"].at = "apply" /\ thread'["camera"].object = thread["camera"].object
      /\ thread'["camera"].configured = thread["camera"].configured
  BY <1>1, <1>2, GotoEffect
<1>4. \A u \in Threads : u # "camera" => thread'[u] = thread[u]
  BY <1>3 DEF Moves
<1>5. /\ builder' \in [n : Nat, surface : Nat, value : Nat]
      /\ builder'.n = thread["camera"].configured /\ builder'.surface = camera.preview
  BY <1>1, <1>2
<1>6. TypeOK'
  BY <1>1, <1>3, <1>5 DEF TypeOK
<1>7. RateThreads
  BY <1>1, <1>3, <1>4 DEF RateThreads
<1>8. Rates'
  BY <1>1, <1>7, RatesKept
<1>9. Ranges' /\ Previews'
  BY <1>1, <1>3, <1>4 DEF Ranges, Previews, Threads
<1>10. Sessions'
  BY <1>1, <1>3, <1>5 DEF Sessions, Configuring
<1>11. Making' <=> Making
  BY <1>1, <1>3, <1>4 DEF Making, Threads
<1>12. Feeding'
  BY <1>1, <1>3, <1>5, <1>11 DEF Feeding, Settled, Configuring, Sessions
<1>13. Settings'
  <2>1. Submits'
    BY <1>1, <1>2, <1>3 DEF Submits, Current, Sessions
  <2>2. \A u \in Threads : thread'[u].at = "submit" => thread'[u] = thread[u]
    BY <1>3, <1>4
  <2> QED
    BY <1>1, <2>1, <2>2 DEF Settings
<1> QED
  BY <1>6, <1>8, <1>9, <1>10, <1>12, <1>13

\* onConfigured makes the request once more.
LEMMA RepeatStep == IInv /\ Repeat => IInv'
<1> SUFFICES ASSUME IInv, Repeat PROVE IInv'
  OBVIOUS
<1> USE DEF IInv
<1> DEFINE c == thread["camera"].configured
<1>1. /\ UNCHANGED <<wire, camera, surfaces, captureSession, builder, made, pending>>
      /\ UNCHANGED <<rate, tier, ordered, asked, clash, events>>
      /\ thread["camera"].at = "repeat" /\ Return("camera")
      /\ request' = IF Accepted(c, builder.surface)
                    THEN [session |-> c, value |-> builder.value] ELSE request
  BY DEF Repeat, IsAt, rateVars
<1>2. /\ thread \in [Threads -> ThreadStates] /\ "camera" \in Threads /\ made.n \in Nat
      /\ builder \in [n : Nat, surface : Nat, value : Nat]
      /\ request \in [session : 0 .. made.n, value : Nat]
  BY DEF TypeOK, Threads
<1>3. thread' \in [Threads -> ThreadStates] /\ Moves("camera", Free) /\ Free.at = "idle"
  BY <1>1, <1>2, ReturnEffect DEF Free
<1>4. /\ thread'["camera"].at = "idle"
      /\ \A u \in Threads : u # "camera" => thread'[u] = thread[u]
  BY <1>3 DEF Moves
<1>5. request' \in [session : 0 .. made.n, value : Nat]
  <2>1. Accepted(c, builder.surface) => c \in 0 .. made.n
    BY <1>2 DEF Accepted
  <2> HIDE DEF c
  <2> QED
    BY <1>1, <1>2, <2>1
<1>6. TypeOK'
  BY <1>1, <1>3, <1>5 DEF TypeOK
<1>7. RateThreads
  BY <1>1, <1>4 DEF RateThreads
<1>8. Rates'
  BY <1>1, <1>7, RatesKept
<1>9. Ranges' /\ Previews'
  BY <1>1, <1>4 DEF Ranges, Previews, Threads
<1>10. Sessions'
  BY <1>1, <1>4 DEF Sessions, Configuring
<1>11. Making' <=> Making
  BY <1>1, <1>4 DEF Making, Threads
<1>12. Settled' <=> Settled
  BY <1>1, <1>11 DEF Settled
<1>13. ASSUME Settled PROVE request'.session = made.n /\ request'.value = builder.value
  <2>1. c = made.n /\ made.open /\ builder.surface = made.surface
    BY <1>1, <1>13 DEF Feeding, Settled, Sessions, Configuring
  <2>2. Accepted(c, builder.surface)
    BY <2>1 DEF Accepted
  <2> HIDE DEF c
  <2> QED
    BY <1>1, <2>1, <2>2
<1>14. Feeding'
  BY <1>1, <1>4, <1>11, <1>12, <1>13 DEF Feeding
<1>15. Settings'
  <2>1. \A u \in Threads : thread'[u].at = "submit" => thread'[u] = thread[u]
    BY <1>4
  <2>2. Submits => Submits'
    BY <1>1, <1>4 DEF Submits, Current
  <2>3. Settled /\ ~Submits => request'.value \in asked
    BY <1>1, <1>13 DEF Settings
  <2> QED
    BY <1>1, <1>4, <1>12, <2>1, <2>2, <2>3 DEF Settings
<1> QED
  BY <1>6, <1>8, <1>9, <1>10, <1>14, <1>15

-----------------------------------------------------------------------------
(* Screen and camera switch *)

\* The preview goes off or on: a new session is going to be made.
LEMMA UpdatePreviewSurfaceStep ==
  ASSUME IInv, NEW on \in BOOLEAN, UpdatePreviewSurface(on) PROVE IInv'
<1> USE DEF IInv
<1>1. /\ UNCHANGED <<wire, captureSession, builder, made, pending, request>>
      /\ UNCHANGED <<rate, tier, ordered, asked>>
      /\ thread["main"].at = "idle" /\ Goto("main", "close") /\ Event
      /\ clash' = (clash \/ IsAt("camera", "create"))
      /\ camera' = [camera EXCEPT !.preview = IF on THEN surfaces.made + 1 ELSE 0]
  BY DEF UpdatePreviewSurface, IsAt, rateVars
<1>2. /\ thread \in [Threads -> ThreadStates] /\ "main" \in Threads /\ clash \in BOOLEAN
      /\ camera \in [n : Nat, opening : BOOLEAN, device : BOOLEAN, preview : Nat, setting : Nat]
      /\ surfaces \in [made : Nat, released : SUBSET Nat]
      /\ surfaces.made \in Nat /\ surfaces.released \subseteq 1 .. surfaces.made
      /\ camera.preview \in Nat /\ camera.preview <= surfaces.made
  BY DEF TypeOK, Threads, Previews
<1>3. /\ thread' \in [Threads -> ThreadStates] /\ Moves("main", thread'["main"])
      /\ thread'["main"].at = "close"
  BY <1>1, <1>2, GotoEffect
<1>4. \A u \in Threads : u # "main" => thread'[u] = thread[u]
  BY <1>3 DEF Moves
<1>5. thread'["camera"] = thread["camera"]
  BY <1>4 DEF Threads
<1>6. /\ camera' \in [n : Nat, opening : BOOLEAN, device : BOOLEAN, preview : Nat, setting : Nat]
      /\ camera'.n = camera.n /\ camera'.device = camera.device
      /\ camera'.opening = camera.opening /\ camera'.setting = camera.setting
      /\ camera'.preview = IF on THEN surfaces.made + 1 ELSE 0
  BY <1>1, <1>2
<1>7. /\ surfaces' \in [made : Nat, released : SUBSET Nat]
      /\ surfaces'.released \subseteq 1 .. surfaces'.made
      /\ camera'.preview <= surfaces'.made /\ camera'.preview \notin surfaces'.released
  <2>1. CASE on
    <3>1. surfaces' = [surfaces EXCEPT !.made = surfaces.made + 1]
      BY <2>1 DEF UpdatePreviewSurface
    <3>2. /\ surfaces' \in [made : Nat, released : SUBSET Nat]
          /\ surfaces'.made = surfaces.made + 1 /\ surfaces'.released = surfaces.released
      BY <1>2, <3>1
    <3> QED
      BY <1>2, <1>6, <2>1, <3>2
  <2>2. CASE ~on
    <3> DEFINE r == surfaces.released \cup ({camera.preview} \ {0})
    <3>1. surfaces' = [surfaces EXCEPT !.released = r]
      BY <2>2 DEF UpdatePreviewSurface
    <3>2. r \subseteq 1 .. surfaces.made /\ r \in SUBSET Nat /\ 0 \notin r
      BY <1>2
    <3> HIDE DEF r
    <3>3. /\ surfaces' \in [made : Nat, released : SUBSET Nat]
          /\ surfaces'.made = surfaces.made /\ surfaces'.released = r
      BY <1>2, <3>1, <3>2
    <3> QED
      BY <1>2, <1>6, <2>2, <3>2, <3>3
  <2> QED
    BY <2>1, <2>2
<1>8. clash' \in BOOLEAN /\ (thread["camera"].at = "create" => clash' = TRUE)
  BY <1>1, <1>2 DEF IsAt
<1>9. events' \in 0 .. MaxEvents
  <2>1. Event /\ events \in 0 .. MaxEvents
    BY <1>1 DEF TypeOK
  <2> QED
    BY <2>1, ControlsAssumption DEF Event
<1>10. TypeOK'
  BY <1>1, <1>3, <1>6, <1>7, <1>8, <1>9 DEF TypeOK
<1>11. RateThreads
  BY <1>1, <1>3, <1>4 DEF RateThreads
<1>12. Rates'
  BY <1>1, <1>11, RatesKept
<1>13. Making'
  BY <1>3 DEF Making
<1>14. Ranges'
  BY <1>1, <1>3, <1>4, <1>5 DEF Ranges, Threads
<1>15. Previews'
  BY <1>3, <1>5, <1>7, <1>8 DEF Previews
<1>16. Sessions' /\ Feeding'
  BY <1>1, <1>5, <1>6, <1>13 DEF Sessions, Feeding, Settled, Configuring
<1>17. Settings'
  <2>1. \A u \in Threads : thread'[u].at = "submit" => thread'[u] = thread[u]
    BY <1>3, <1>4
  <2>2. ~Settled'
    BY <1>13 DEF Settled
  <2> QED
    BY <1>1, <1>6, <2>1, <2>2, SettingsKept
<1> QED
  BY <1>10, <1>12, <1>14, <1>15, <1>16, <1>17

\* The old session is closed, then forgotten.
LEMMA CloseCaptureSessionStep == IInv /\ CloseCaptureSession => IInv'
<1> SUFFICES ASSUME IInv, CloseCaptureSession PROVE IInv'
  OBVIOUS
<1> USE DEF IInv
<1>1. /\ UNCHANGED <<wire, camera, surfaces, builder, pending, request>>
      /\ UNCHANGED <<rate, tier, ordered, asked, clash, events>>
  BY DEF CloseCaptureSession, rateVars
<1>2. PICK p \in {"forget", "read"} :
        Goto("main", p) /\ thread["main"].at \in {"close", "forget"}
  BY DEF CloseCaptureSession, IsAt
<1>3. /\ thread \in [Threads -> ThreadStates] /\ "main" \in Threads
      /\ made \in [n : Nat, surface : Nat, open : BOOLEAN] /\ captureSession \in 0 .. made.n
  BY DEF TypeOK, Threads
<1>4. /\ thread' \in [Threads -> ThreadStates] /\ Moves("main", thread'["main"])
      /\ thread'["main"].at = p
  BY <1>2, <1>3, GotoEffect
<1>5. \A u \in Threads : u # "main" => thread'[u] = thread[u]
  BY <1>4 DEF Moves
<1>6. thread'["camera"] = thread["camera"]
  BY <1>5 DEF Threads
<1>7. /\ made' \in [n : Nat, surface : Nat, open : BOOLEAN] /\ made'.n = made.n
      /\ captureSession' \in 0 .. made.n
  <2>1. made' \in {made, [made EXCEPT !.open = FALSE]}
    BY DEF CloseCaptureSession
  <2>2. captureSession' \in {captureSession, 0}
    BY DEF CloseCaptureSession
  <2>3. made.n \in Nat
    BY <1>3
  <2>4. captureSession' \in 0 .. made.n
    BY <1>3, <2>2, <2>3
  <2>5. made' \in [n : Nat, surface : Nat, open : BOOLEAN] /\ made'.n = made.n
    BY <1>3, <2>1
  <2> QED
    BY <2>4, <2>5
<1>8. TypeOK'
  BY <1>1, <1>4, <1>7 DEF TypeOK
<1>9. RateThreads
  BY <1>2, <1>4, <1>5 DEF RateThreads
<1>10. Rates'
  BY <1>1, <1>9, RatesKept
<1>11. Making'
  BY <1>4 DEF Making
<1>12. Ranges' /\ Previews'
  BY <1>1, <1>4, <1>5, <1>6 DEF Ranges, Previews, Threads
<1>13. Sessions' /\ Feeding'
  BY <1>1, <1>6, <1>7, <1>11 DEF Sessions, Feeding, Settled, Configuring
<1>14. Settings'
  <2>1. \A u \in Threads : thread'[u].at = "submit" => thread'[u] = thread[u]
    BY <1>2, <1>4, <1>5
  <2>2. ~Settled'
    BY <1>11 DEF Settled
  <2> QED
    BY <1>1, <2>1, <2>2, SettingsKept
<1> QED
  BY <1>8, <1>10, <1>12, <1>13, <1>14

\* The camera is closed for a switch.
LEMMA SwitchCameraStep == IInv /\ SwitchCamera => IInv'
<1> SUFFICES ASSUME IInv, SwitchCamera PROVE IInv'
  OBVIOUS
<1> USE DEF IInv
<1> DEFINE r == surfaces.released \cup ({camera.preview} \ {0})
<1>1. /\ UNCHANGED <<wire, builder, rate, tier, asked>>
      /\ thread["main"].at = "idle" /\ thread["camera"].at = "idle" /\ Event
      /\ captureSession' = 0 /\ request' = NoRequest /\ pending' = << >> /\ clash' = FALSE
      /\ camera.opening = FALSE
      /\ ordered' = IF InHand("main", {"store", "rate"}) THEN ordered \cup {rate.field} ELSE ordered
  BY DEF SwitchCamera, IsAt, TypeOK
<1>2. /\ thread \in [Threads -> ThreadStates] /\ "main" \in Threads
      /\ camera \in [n : Nat, opening : BOOLEAN, device : BOOLEAN, preview : Nat, setting : Nat]
      /\ surfaces \in [made : Nat, released : SUBSET Nat]
      /\ surfaces.made \in Nat /\ surfaces.released \subseteq 1 .. surfaces.made
      /\ camera.preview \in Nat /\ camera.preview <= surfaces.made
      /\ made \in [n : Nat, surface : Nat, open : BOOLEAN] /\ rate.field \in Nat
  BY DEF TypeOK, Threads, Previews
<1>3. /\ thread' \in [Threads -> ThreadStates] /\ Moves("main", thread'["main"])
      /\ thread'["main"].at = "restart" /\ thread'["main"].value = rate.field
  <2> DEFINE x == [thread["main"] EXCEPT !.at = "restart", !.value = rate.field]
  <2>1. thread' = [thread EXCEPT !["main"] = x]
    BY DEF SwitchCamera
  <2>2. thread["main"] \in ThreadStates
    BY <1>2
  <2>3. x \in ThreadStates /\ x.at = "restart" /\ x.value = rate.field
    BY <1>2, <2>2 DEF ThreadStates
  <2> HIDE DEF x
  <2>4. thread' \in [Threads -> ThreadStates] /\ Moves("main", x)
    BY <1>2, <2>1, <2>3, Moved
  <2>5. thread'["main"] = x
    BY <2>4 DEF Moves
  <2> QED
    BY <2>3, <2>4, <2>5
<1>4. \A u \in Threads : u # "main" => thread'[u] = thread[u]
  BY <1>3 DEF Moves
<1>5. thread'["camera"] = thread["camera"]
  BY <1>4 DEF Threads
<1>6. /\ camera' \in [n : Nat, opening : BOOLEAN, device : BOOLEAN, preview : Nat, setting : Nat]
      /\ camera'.device = FALSE /\ camera'.preview = 0 /\ camera'.n = camera.n
      /\ camera'.setting = camera.setting /\ camera'.opening = camera.opening
  BY <1>2 DEF SwitchCamera
<1>7. r \subseteq 1 .. surfaces.made /\ r \in SUBSET Nat /\ 0 \notin r
  BY <1>2
<1>8. surfaces' = [surfaces EXCEPT !.released = r]
  BY DEF SwitchCamera
<1> HIDE DEF r
<1>9. /\ surfaces' \in [made : Nat, released : SUBSET Nat]
      /\ surfaces'.made = surfaces.made /\ surfaces'.released = r
  BY <1>2, <1>7, <1>8
<1>10. made' \in [n : Nat, surface : Nat, open : BOOLEAN] /\ made'.n = made.n /\ made.n \in Nat
  BY <1>2 DEF SwitchCamera
<1>11. /\ request' \in [session : 0 .. made.n, value : Nat] /\ captureSession' \in 0 .. made.n
       /\ pending' \in Seq(1 .. made.n)
  <2>1. 0 \in 0 .. made.n
    BY <1>10
  <2>2. request' \in [session : 0 .. made.n, value : Nat]
    BY <1>1, <2>1 DEF NoRequest
  <2> QED
    BY <1>1, <2>1, <2>2
<1>12. events' \in 0 .. MaxEvents
  BY <1>1, ControlsAssumption DEF Event, TypeOK
<1>13. /\ ordered' \subseteq Nat /\ ordered \subseteq ordered' /\ rate.field \in ordered'
  <2>1. ordered \subseteq Nat /\ ordered' \subseteq Nat /\ ordered \subseteq ordered'
    BY <1>1, <1>2 DEF TypeOK
  <2>2. CASE InHand("main", {"store", "rate"})
    BY <1>1, <2>1, <2>2
  <2>3. CASE ~InHand("main", {"store", "rate"})
    <3>1. \A t \in Threads : thread[t].at # "store"
      BY <1>1, <2>3 DEF InHand
    <3> QED
      BY <2>1, <3>1 DEF Rates
  <2> QED
    BY <2>1, <2>2, <2>3
<1>14. TypeOK'
  BY <1>1, <1>2, <1>3, <1>6, <1>7, <1>9, <1>10, <1>11, <1>12, <1>13 DEF TypeOK
<1>15. Rates'
  <2>1. \A t \in Threads :
          thread'[t].at \in {"store", "rate", "restart"} => thread'[t].value \in ordered'
    BY <1>3, <1>4, <1>13 DEF Rates
  <2>2. \E t \in Threads : thread'[t].at = "restart"
    BY <1>2, <1>3
  <2> QED
    BY <1>1, <1>13, <2>1, <2>2 DEF Rates
<1>16. Ranges'
  BY <1>1, <1>3, <1>4, <1>5, <1>6 DEF Ranges, Threads
<1>17. Previews'
  BY <1>1, <1>2, <1>3, <1>5, <1>6, <1>7, <1>9 DEF Previews
<1>18. Sessions' /\ Feeding'
  BY <1>1, <1>5, <1>6 DEF Sessions, Feeding, Settled, Configuring
<1>19. Settings'
  <2>1. \A u \in Threads : thread'[u].at = "submit" => thread'[u] = thread[u]
    BY <1>3, <1>4
  <2>2. ~Settled'
    BY <1>6 DEF Settled
  <2> QED
    BY <1>1, <1>6, <2>1, <2>2, SettingsKept
<1> QED
  BY <1>14, <1>15, <1>16, <1>17, <1>18, <1>19

\* A new codec and a new controller.
LEMMA RestartStep == IInv /\ Objects /\ Restart => IInv'
<1> SUFFICES ASSUME IInv, Objects, Restart PROVE IInv'
  OBVIOUS
<1> USE DEF IInv
<1> DEFINE v == thread["main"].value
<1>1. /\ UNCHANGED <<wire, captureSession, made, pending, request, tier, ordered, clash, events>>
      /\ thread["main"].at = "restart" /\ Return("main") /\ builder' = NoBuilder /\ asked' = {0}
  BY DEF Restart, IsAt
<1>2. /\ thread \in [Threads -> ThreadStates] /\ "main" \in Threads /\ v \in Nat
      /\ camera.n \in Nat /\ rate \in [field : Nat, n : Nat, codec : Nat, current : Nat]
      /\ surfaces \in [made : Nat, released : SUBSET Nat]
      /\ surfaces.made \in Nat /\ surfaces.released \subseteq 1 .. surfaces.made
  BY DEF TypeOK, Threads, Previews, ThreadStates
<1>3. thread' \in [Threads -> ThreadStates] /\ Moves("main", Free) /\ Free.at = "idle"
  BY <1>1, <1>2, ReturnEffect DEF Free
<1>4. /\ thread'["main"].at = "idle"
      /\ \A u \in Threads : u # "main" => thread'[u] = thread[u]
  BY <1>3 DEF Moves
<1>5. thread'["camera"].at = "idle"
  BY <1>1, <1>4 DEF Ranges, Threads
<1>6. /\ rate' \in [field : Nat, n : Nat, codec : Nat, current : Nat]
      /\ rate'.field = rate.field /\ rate'.codec = v /\ rate'.n = rate.n + 1
  <2>1. rate' = [rate EXCEPT !.codec = v, !.n = rate.n + 1]
    BY DEF Restart, RestartRate
  <2>2. rate \in [field : Nat, n : Nat, codec : Nat, current : Nat] /\ v \in Nat
    BY <1>2
  <2>3. rate.n + 1 \in Nat
    BY <2>2
  <2> HIDE DEF v
  <2> QED
    BY <2>1, <2>2, <2>3
<1>7. /\ camera' \in [n : Nat, opening : BOOLEAN, device : BOOLEAN, preview : Nat, setting : Nat]
      /\ camera'.device = FALSE /\ camera'.preview = surfaces.made + 1 /\ camera'.setting = 0
      /\ camera'.n = camera.n + 1
  BY <1>2 DEF Restart
<1>8. /\ surfaces' \in [made : Nat, released : SUBSET Nat]
      /\ surfaces'.made = surfaces.made + 1 /\ surfaces'.released = surfaces.released
  BY <1>2 DEF Restart
<1>9. surfaces'.released \subseteq 1 .. surfaces'.made /\ camera'.preview \notin surfaces'.released
  BY <1>2, <1>7, <1>8
<1>10. builder' \in [n : Nat, surface : Nat, value : Nat]
  BY <1>1 DEF NoBuilder
<1>11. TypeOK'
  BY <1>1, <1>3, <1>6, <1>7, <1>8, <1>9, <1>10 DEF TypeOK
<1>12. Ranges'
  BY <1>4, <1>5 DEF Ranges, Threads
<1>13. Previews'
  BY <1>2, <1>4, <1>5, <1>7, <1>8, <1>9 DEF Previews
<1>14. Sessions' /\ Feeding'
  BY <1>1, <1>5, <1>7 DEF Sessions, Feeding, Settled, Configuring
<1>15. Settings'
  <2>1. ~Settled'
    BY <1>7 DEF Settled
  <2>2. \A u \in Threads : thread'[u].at = "submit" => thread'[u] = thread[u]
    BY <1>4
  <2>3. \A u \in Threads : thread[u].at = "submit" => thread[u].object # camera.n + 1
    <3>1. \A u \in Threads : thread[u].object \in Nat
      BY <1>2 DEF ThreadStates
    <3> QED
      BY <1>2, <3>1 DEF Objects
  <2> QED
    BY <1>1, <1>7, <2>1, <2>2, <2>3 DEF Settings
<1>16. Rates'
  <2>1. v \in ordered
    BY <1>1, <1>2 DEF Rates
  <2>2. \A u \in Threads :
          thread'[u].at \in {"store", "rate", "restart"} => thread'[u] = thread[u]
    BY <1>4
  <2>3. (\A u \in Threads : thread'[u].at # "store") => rate.field \in ordered
    BY <1>1, <1>4 DEF Rates
  <2> HIDE DEF v
  <2> QED
    BY <1>1, <1>6, <2>1, <2>2, <2>3 DEF Rates
<1> QED
  BY <1>11, <1>12, <1>13, <1>14, <1>15, <1>16

-----------------------------------------------------------------------------
(* The theorems *)

\* Streaming has just started.
LEMMA InitIInv == Init => IInv
<1> SUFFICES ASSUME Init PROVE IInv
  OBVIOUS
<1> USE DEF Init
<1>1. Free \in ThreadStates /\ Free.at = "idle"
  BY DEF Free, ThreadStates
<1>2. thread \in [Threads -> ThreadStates] /\ \A t \in Threads : thread[t].at = "idle"
  BY <1>1
<1>3. /\ camera \in [n : Nat, opening : BOOLEAN, device : BOOLEAN, preview : Nat, setting : Nat]
      /\ camera.device = FALSE /\ camera.preview = 1 /\ camera.setting = 0
  OBVIOUS
<1>4. /\ surfaces \in [made : Nat, released : SUBSET Nat] /\ surfaces.made = 1 /\ surfaces.released = {}
  OBVIOUS
<1>5. made \in [n : Nat, surface : Nat, open : BOOLEAN] /\ made.n = 0
  OBVIOUS
<1>6. request \in [session : 0 .. made.n, value : Nat] /\ builder \in [n : Nat, surface : Nat, value : Nat]
  <2>1. 0 \in 0 .. made.n
    BY <1>5
  <2> QED
    BY <2>1 DEF NoRequest, NoBuilder
<1>7. /\ rate \in [field : Nat, n : Nat, codec : Nat, current : Nat]
      /\ rate.field = StartRate /\ rate.codec = StartRate
  BY ControlsAssumption
<1>8. pending = << >> /\ wire = << >> /\ captureSession = 0 /\ events = 0 /\ tier = "NORMAL"
      /\ clash = FALSE /\ asked = {0} /\ ordered = {StartRate}
  OBVIOUS
<1>9. TypeOK
  <2>1. captureSession \in 0 .. made.n /\ events \in 0 .. MaxEvents /\ tier \in Tiers
    BY <1>5, <1>8, ControlsAssumption
  <2>2. pending \in Seq(1 .. made.n) /\ wire \in Seq([c : Commands, n : Nat])
    BY <1>8
  <2>3. surfaces.made \in Nat /\ surfaces.released \subseteq 1 .. surfaces.made
    BY <1>4
  <2>4. asked \subseteq Nat /\ ordered \subseteq Nat
    BY <1>8, ControlsAssumption
  <2> HIDE DEF Init
  <2> QED
    BY <1>2, <1>3, <1>5, <1>6, <1>7, <1>8, <2>1, <2>2, <2>3, <2>4 DEF TypeOK
<1> HIDE DEF Init
<1>10. Ranges /\ Previews
  BY <1>2, <1>3, <1>4, <1>8 DEF Ranges, Previews, Threads
<1>11. Sessions /\ Feeding /\ Settings
  BY <1>2, <1>3, <1>8 DEF Sessions, Feeding, Settings, Settled, Configuring, Threads
<1>12. Rates
  BY <1>2, <1>7, <1>8 DEF Rates, Threads
<1> QED
  BY <1>9, <1>10, <1>11, <1>12 DEF IInv

\* Every step keeps the invariant.
LEMMA NextIInv == IInv /\ Objects /\ [Next]_vars => IInv'
<1> SUFFICES ASSUME IInv, Objects, [Next]_vars PROVE IInv'
  OBVIOUS
<1>1. ASSUME NEW t \in Threads, Steps(t) PROVE IInv'
  BY <1>1, CreateReadStep, CreateStep, ApplyLoadStep, ApplySessionStep, ApplyValueStep,
     ApplySubmitStep, StoreRateStep, SetCodecRateStep DEF Steps
<1>2. CASE CameraThread
  BY <1>1, <1>2, OnOpenedStep, OnCameraLostStep, OnConfiguredStep, BuildStep, RepeatStep
     DEF CameraThread, Threads
<1>3. CASE MainThread
  BY <1>1, <1>3, CloseCaptureSessionStep, RestartStep DEF MainThread, Threads
<1>4. CASE ControlThread
  BY <1>1, <1>4, HandleControlCommandStep DEF ControlThread, Threads
<1>5. CASE World
  BY <1>5, LocalSetStep, SwitchCameraStep, UpdatePreviewSurfaceStep, ApplyTierStep, PcCommandStep
     DEF World, PhoneUser, ScreenState, ThermalStatus, PcUser
<1>6. CASE UNCHANGED vars
  <2>1. /\ UNCHANGED <<thread, wire, camera, surfaces, captureSession, builder, made, pending>>
        /\ UNCHANGED <<request, rate, tier, ordered, asked, clash, events>>
    BY <1>6 DEF vars, cameraVars, rateVars
  <2>2. CameraThreads /\ RateThreads
    BY <2>1 DEF CameraThreads, RateThreads
  <2>3. Ranges' /\ Previews' /\ Sessions' /\ Feeding' /\ Settings' /\ Rates'
    BY <2>1, <2>2, CameraKept, RatesKept DEF IInv
  <2>4. TypeOK'
    BY <2>1 DEF IInv, TypeOK
  <2> QED
    BY <2>3, <2>4 DEF IInv
<1> QED
  BY <1>2, <1>3, <1>4, <1>5, <1>6 DEF Next

\* A thread gets its controller from the current one.
LEMMA NextObjects == IInv /\ Objects /\ [Next]_vars => Objects'
<1> SUFFICES ASSUME IInv, Objects, [Next]_vars PROVE Objects'
  OBVIOUS
<1> DEFINE A == {"apply", "session", "value", "submit"}
           Keep(t) == \/ thread'[t].at \in A => thread[t].at \in A
                                             /\ thread'[t].object = thread[t].object
                      \/ thread'[t].object = camera.n
<1>1. /\ thread \in [Threads -> ThreadStates] /\ camera.n \in Nat
      /\ \A t \in Threads : thread[t] \in ThreadStates /\ thread[t].object \in Nat
      /\ camera \in [n : Nat, opening : BOOLEAN, device : BOOLEAN, preview : Nat, setting : Nat]
  BY DEF IInv, TypeOK, ThreadStates
<1>2. ASSUME \A t \in Threads : Keep(t), camera'.n = camera.n \/ camera'.n = camera.n + 1
      PROVE  Objects'
  BY <1>1, <1>2 DEF Objects
<1>3. ASSUME NEW t \in Threads, NEW p, p \notin {"apply", "session", "value", "submit"},
             Goto(t, p) \/ Return(t)
      PROVE  \A u \in Threads : Keep(u)
  BY <1>1, <1>3 DEF Goto, Return, Free, ThreadStates
<1>4. ASSUME NEW t \in Threads, Applied(t) PROVE \A u \in Threads : Keep(u)
  BY <1>3, <1>4 DEF Applied
<1>5. thread' = thread => \A u \in Threads : Keep(u)
  OBVIOUS
<1>6. ASSUME NEW t \in Threads, Steps(t)
      PROVE  (\A u \in Threads : Keep(u)) /\ camera' = camera
  <2>1. camera' = camera
    BY <1>6 DEF Steps, CreateRead, Create, ApplyLoad, ApplySession, ApplyValue, ApplySubmit,
       StoreRate, SetCodecRate, cameraVars
  <2>2. CASE CreateRead(t)
    BY <1>1, <1>3, <2>1, <2>2 DEF CreateRead, ThreadStates
  <2>3. CASE Create(t) \/ SetCodecRate(t)
    BY <1>3, <2>1, <2>3 DEF Create, SetCodecRate
  <2>4. CASE ApplyLoad(t)
    <3>1. CASE Applied(t)
      BY <1>4, <2>1, <3>1
    <3>2. CASE thread' = [thread EXCEPT ![t] = [thread[t] EXCEPT !.at = "session",
                            !.builder = builder.n, !.surface = builder.surface]]
      BY <1>1, <2>1, <2>4, <3>2 DEF ApplyLoad, IsAt, ThreadStates
    <3> QED
      BY <2>4, <3>1, <3>2 DEF ApplyLoad
  <2>5. CASE ApplySession(t)
    BY <1>1, <1>4, <2>1, <2>5 DEF ApplySession, IsAt, ThreadStates
  <2>6. CASE ApplyValue(t)
    BY <1>1, <2>1, <2>6 DEF ApplyValue, IsAt, ThreadStates
  <2>7. CASE ApplySubmit(t)
    BY <1>4, <2>1, <2>7 DEF ApplySubmit
  <2>8. CASE StoreRate(t)
    BY <1>3, <2>1, <2>8 DEF StoreRate
  <2> QED
    BY <1>6, <2>1, <2>2, <2>3, <2>4, <2>5, <2>6, <2>7, <2>8 DEF Steps
<1>7. "main" \in Threads /\ "control" \in Threads /\ "camera" \in Threads
  BY DEF Threads
<1>8. ASSUME NEW t \in Threads, NEW v, Set(t, v)
      PROVE  (\A u \in Threads : Keep(u)) /\ camera'.n = camera.n
  BY <1>1, <1>8 DEF Set, ThreadStates
<1>9. ASSUME NEW t \in Threads, NEW v, UpdateBitrate(t, v) PROVE \A u \in Threads : Keep(u)
  BY <1>1, <1>9 DEF UpdateBitrate, ThreadStates
<1>10. CASE CameraThread
  <2>1. CASE OnOpened \/ Repeat
    <3>1. camera'.n = camera.n
      BY <1>1, <2>1 DEF OnOpened, Repeat
    <3>2. Goto("camera", "read") \/ Return("camera")
      BY <2>1 DEF OnOpened, Repeat
    <3> QED
      BY <1>2, <1>3, <1>7, <3>1, <3>2
  <2>2. CASE OnCameraLost
    BY <1>1, <1>2, <1>5, <2>2 DEF OnCameraLost
  <2>3. CASE OnConfigured
    <3>1. camera' = camera
      BY <2>3 DEF OnConfigured
    <3>2. CASE camera.device
      <4> DEFINE x == [thread["camera"] EXCEPT !.at = "build", !.object = camera.n,
                                               !.configured = Head(pending)]
      <4>1. thread' = [thread EXCEPT !["camera"] = x]
        BY <2>3, <3>2 DEF OnConfigured
      <4>2. x.at = "build"
        BY <1>1, <1>7 DEF ThreadStates
      <4> HIDE DEF x
      <4>3. /\ thread'["camera"].at = "build"
            /\ \A u \in Threads : u # "camera" => thread'[u] = thread[u]
        BY <1>1, <1>7, <4>1, <4>2
      <4>4. \A u \in Threads : Keep(u)
        BY <4>3
      <4> QED
        BY <1>2, <3>1, <4>4
    <3>3. CASE ~camera.device
      BY <1>2, <1>5, <2>3, <3>1, <3>3 DEF OnConfigured
    <3> QED
      BY <3>2, <3>3
  <2>4. CASE Build
    <3>1. camera' = camera /\ thread["camera"].object = camera.n
      BY <2>4 DEF Build, IsAt, IInv, Sessions
    <3>2. \A u \in Threads : Keep(u)
      BY <1>1, <1>7, <2>4, <3>1 DEF Build, Goto, ThreadStates
    <3> QED
      BY <1>2, <3>1, <3>2
  <2> QED
    BY <1>2, <1>6, <1>7, <1>10, <2>1, <2>2, <2>3, <2>4 DEF CameraThread
<1>11. CASE MainThread
  <2>1. CASE CloseCaptureSession
    BY <1>2, <1>3, <1>7, <2>1 DEF CloseCaptureSession
  <2>2. CASE Restart
    <3>1. camera'.n = camera.n + 1
      BY <2>2 DEF Restart
    <3> QED
      BY <1>2, <1>3, <1>7, <2>2, <3>1 DEF Restart
  <2> QED
    BY <1>2, <1>6, <1>7, <1>11, <2>1, <2>2 DEF MainThread
<1>12. CASE ControlThread
  <2>1. CASE HandleControlCommand
    BY <1>2, <1>5, <1>7, <1>8, <1>9, <2>1 DEF HandleControlCommand
  <2> QED
    BY <1>2, <1>6, <1>7, <1>12, <2>1 DEF ControlThread
<1>13. CASE World
  <2>1. CASE LocalSet
    BY <1>2, <1>7, <1>8, <2>1 DEF LocalSet
  <2>2. CASE SwitchCamera
    BY <1>1, <1>2, <1>7, <2>2 DEF SwitchCamera, ThreadStates
  <2>3. ASSUME NEW on \in BOOLEAN, UpdatePreviewSurface(on) PROVE Objects'
    <3>1. camera'.n = camera.n
      BY <1>1, <2>3 DEF UpdatePreviewSurface
    <3>2. Goto("main", "close")
      BY <2>3 DEF UpdatePreviewSurface
    <3> QED
      BY <1>2, <1>3, <1>7, <3>1, <3>2
  <2>4. ASSUME NEW t \in Tiers, ApplyTier(t) PROVE Objects'
    BY <1>2, <1>7, <1>9, <2>4 DEF ApplyTier, OnThermalAdjustment, cameraVars
  <2>5. ASSUME NEW c \in Commands, PcCommand(c) PROVE Objects'
    BY <1>2, <1>5, <2>5 DEF PcCommand, cameraVars
  <2> QED
    BY <1>13, <2>1, <2>2, <2>3, <2>4, <2>5
       DEF World, PhoneUser, ScreenState, ThermalStatus, PcUser
<1>14. CASE UNCHANGED vars
  BY <1>2, <1>5, <1>14 DEF vars, cameraVars
<1> QED
  BY <1>10, <1>11, <1>12, <1>13, <1>14 DEF Next

\* The invariant holds for every tier table, bitrate and number of events.
THEOREM ControlsCorrect == Spec => []IInv
<1>1. Init => IInv /\ Objects
  BY InitIInv DEF Init, Objects, Free, Threads
<1>2. IInv /\ Objects /\ [Next]_vars => IInv' /\ Objects'
  BY NextIInv, NextObjects
<1> QED
  BY <1>1, <1>2, PTL DEF Spec

\* Every variable keeps its type: the sessions pending and working were made, and
\* only surfaces that were made are released.
THEOREM ControlsTypeCorrect == Spec => []TypeOK
<1>1. IInv => TypeOK
  BY DEF IInv
<1> QED
  BY <1>1, ControlsCorrect, PTL

\* updatePreviewSurface in the middle of anything, and switchCamera: once every
\* callback has come the open camera feeds the encoder, save after a clash.
THEOREM EncoderAlwaysFed == Spec => []EncoderFed
<1>1. IInv => EncoderFed
  <2> SUFFICES ASSUME IInv, Quiet, camera.device, ~clash PROVE Fed
    BY DEF EncoderFed
  <2>1. camera.device = TRUE /\ clash = FALSE
    BY DEF IInv, TypeOK
  <2>2. ~Making /\ ~Configuring /\ pending = << >>
    BY DEF Quiet, IsAt, Making, Configuring, Threads
  <2> QED
    BY <2>1, <2>2 DEF IInv, Feeding, Settled, Fed
<1> QED
  BY <1>1, ControlsCorrect, PTL

\* applyCameraControls, called without a lock by user, PC and onConfigured: the
\* camera shows the setting made last on its controller, or one that was being
\* applied when that one was made.
THEOREM SettingsAlwaysShown == Spec => []SettingsShown
<1>1. IInv => SettingsShown
  <2> SUFFICES ASSUME IInv, Quiet, camera.device, ~clash PROVE request.value \in asked
    BY DEF SettingsShown
  <2>1. camera.device = TRUE /\ clash = FALSE
    BY DEF IInv, TypeOK
  <2>2. ~Making /\ pending = << >> /\ \A t \in Threads : thread[t].at = "idle"
    BY DEF Quiet, IsAt, Making, Threads
  <2>3. ~Submits
    BY <2>2 DEF Submits, Threads
  <2> QED
    BY <2>1, <2>2, <2>3 DEF IInv, Settings, Settled
<1> QED
  BY <1>1, ControlsCorrect, PTL

\* updateBitrate on two threads and beside camera switches: the codec runs at the
\* bitrate ordered last, or at one that was in hand when that one was given.
THEOREM BitrateKept == Spec => []RateKept
<1>1. IInv => RateKept
  <2> SUFFICES ASSUME IInv, \A t \in Threads : thread[t].at \notin {"store", "rate", "restart"}
               PROVE  rate.codec \in ordered /\ rate.field \in ordered
    BY DEF RateKept
  <2> QED
    BY DEF IInv, Rates
<1> QED
  BY <1>1, ControlsCorrect, PTL
=============================================================================
