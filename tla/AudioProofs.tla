----------------------------- MODULE AudioProofs -----------------------------
(***************************************************************************)
(* What holds of a stream's audio for any number of playit contexts, any   *)
(* buffer size and any number of seeks.                                    *)
(*                                                                         *)
(* The argument has two halves.  The device's hooks name a context that is *)
(* live and knows of the last seek, and no frame is queued by a context    *)
(* that was not created yet: so a context that is hooked anew finds no     *)
(* frame of its own, and one that stays hooked finds none from before a    *)
(* seek, which drops them all.  And a paused rkt has the device paused:    *)
(* rkt took the control before anybody could unpause, so main never does.  *)
(***************************************************************************)
EXTENDS Audio, TLAPS

Rkts == [present : BOOLEAN, paused : BOOLEAN, last_scene : Playits \cup {Silent, Missing}]
Pcs == {"open", "create", "contexts", "created", "control", "start", "frame", "sync", "scene",
        "render", "end", "destroy", "done", "exited", "aborted"}
Devices == [open : BOOLEAN, paused : BOOLEAN, queue : Seq(Frames),
            hooks : BOOLEAN, hooks_context : Playits \cup {None}]

(* what is hooked knows of the last seek *)
HookedKnows == audio.hooks => playits[audio.hooks_context].seeks = seeks

(* whoever queued a frame was created before *)
QueuedBy == \A i \in DOMAIN audio.queue : playits[audio.queue[i].by].state # "none"

(* the first half, of the device, the contexts and the seeks alone *)
Sound ==
    /\ audio \in Devices
    /\ playits \in [Playits -> Contexts]
    /\ seeks \in 0 .. MaxSeeks
    /\ HooksLive /\ HookedKnows /\ QueuedBy /\ NoStaleFrames

(* what was created stays so: no address is used again *)
Made == \A p \in Playits : playits[p].state # "none" => playits'[p].state # "none"

(* the second half *)
Places ==
    /\ audio_control \in {None, "rkt", "main"}
    /\ rkt \in Rkts
    /\ pc \in Pcs
    /\ todo \in SUBSET Playits
TodoMade == \A p \in todo : playits[p].state # "none"
Controlled ==
    /\ pc \in {"open", "create"} => audio_control = None
    /\ rkt.present /\ pc \notin {"open", "create", "exited"} => audio_control = "rkt"
    /\ pc \in {"created", "sync"} => rkt.present
    /\ ~rkt.present => ~rkt.paused
    /\ pc # "open" => (rkt.paused => audio.paused)
    /\ pc = "open" => ~rkt.paused
HookedPlays == audio.hooks => ~playits[audio.hooks_context].paused
Playing == ~audio.paused /\ HookedPlays
PlaysWithRkt ==
    /\ pc = "end" /\ rkt.present /\ ~rkt.paused => Playing
    /\ pc = "frame" /\ rkt.present /\ ~rkt.paused => Playing

(* The inductive invariant. *)
IInv == Sound /\ Places /\ TodoMade /\ Controlled /\ PlaysWithRkt

----------------------------------------------------------------------------
(* A new device. *)
LEMMA NewDevice ==
    ASSUME NEW open \in BOOLEAN, NEW audioOf,
           audioOf = [open |-> open, paused |-> TRUE, queue |-> <<>>, hooks |-> FALSE,
                      hooks_context |-> None]
    PROVE  audioOf \in Devices
<1>1. \A queue \in Seq(Frames), context \in Playits \cup {None} :
          [open |-> open, paused |-> TRUE, queue |-> queue, hooks |-> FALSE,
           hooks_context |-> context] \in Devices
  BY DEF Devices
<1>2. <<>> \in Seq(Frames) /\ None \in Playits \cup {None}
  OBVIOUS
<1> QED
  BY <1>1, <1>2, Zenon

LEMMA InitIInv == Init => IInv
<1> SUFFICES ASSUME Init PROVE IInv
  OBVIOUS
<1> USE AudioAssumption
<1>1. audio = [open |-> FALSE, paused |-> TRUE, queue |-> <<>>, hooks |-> FALSE,
               hooks_context |-> None]
  BY DEF Init, til_audio_context_new
<1>2. audio \in Devices
  BY <1>1, NewDevice
<1>3. playits \in [Playits -> Contexts]
  <2>1. 0 \in 0 .. MaxSeeks
    OBVIOUS
  <2>2. [state : {"none"}, seekable : BOOLEAN, paused : {FALSE}, seeks : {0}] \subseteq Contexts
    BY <2>1 DEF Contexts
  <2> QED
    BY <2>2 DEF Init
<1>4. Places /\ TodoMade
  BY DEF Init, Places, Rkts, Pcs, TodoMade
<1>5. Sound
  BY <1>1, <1>2, <1>3 DEF Init, Sound, HooksLive, HookedKnows, QueuedBy, NoStaleFrames
<1>6. Controlled /\ PlaysWithRkt
  BY DEF Init, Controlled, PlaysWithRkt
<1> QED
  BY <1>4, <1>5, <1>6 DEF IInv

----------------------------------------------------------------------------
(* The operations keep the first half. *)

(* A device's frames are of contexts. *)
LEMMA FramesTyped ==
    ASSUME Sound, NEW i \in DOMAIN audio.queue
    PROVE  audio.queue[i] \in Frames /\ audio.queue[i].by \in Playits
<1>1. audio.queue \in Seq(Frames)
  BY DEF Sound, Devices
<1>2. audio.queue[i] \in Frames
  BY <1>1
<1> QED
  BY <1>2 DEF Frames

(* Pausing and unpausing changes who is paused and nothing else. *)
LEMMA PausingSound ==
    ASSUME Sound, NEW flag \in BOOLEAN, audio' = [audio EXCEPT !.paused = flag],
           playits' = IF audio.hooks
                      THEN [playits EXCEPT ![audio.hooks_context] = [@ EXCEPT !.paused = flag]]
                      ELSE playits,
           UNCHANGED seeks
    PROVE  Sound' /\ audio'.paused = flag
                  /\ (audio'.hooks => playits'[audio'.hooks_context].paused = flag) /\ Made
<1>1. /\ audio \in Devices /\ playits \in [Playits -> Contexts]
      /\ seeks \in 0 .. MaxSeeks
  BY DEF Sound
<1>2. /\ audio' \in Devices /\ audio'.queue = audio.queue /\ audio'.hooks = audio.hooks
      /\ audio'.hooks_context = audio.hooks_context /\ audio'.paused = flag
  BY <1>1 DEF Devices
<1>3. audio.hooks => audio.hooks_context \in Playits
  BY DEF Sound, HooksLive, Live
<1>4. playits' \in [Playits -> Contexts]
  BY <1>1, <1>3 DEF Contexts
<1>5. \A p \in Playits : /\ playits'[p].state = playits[p].state
                         /\ playits'[p].seeks = playits[p].seeks
  BY <1>1, <1>3 DEF Contexts
<1>6. audio'.hooks => playits'[audio'.hooks_context].paused = flag
  BY <1>1, <1>2, <1>3 DEF Contexts
<1>7. HooksLive'
  BY <1>2, <1>5 DEF Sound, HooksLive, Live
<1>8. HookedKnows'
  BY <1>2, <1>3, <1>5 DEF Sound, HookedKnows
<1>9. QueuedBy'
  BY <1>2, <1>5, FramesTyped DEF Sound, QueuedBy
<1>10. NoStaleFrames'
  BY <1>2 DEF Sound, NoStaleFrames
<1>11. Made
  BY <1>5 DEF Made
<1> QED
  BY <1>1, <1>2, <1>4, <1>6, <1>7, <1>8, <1>9, <1>10, <1>11 DEF Sound

LEMMA PauseSound ==
    ASSUME Sound, til_audio_pause, UNCHANGED seeks
    PROVE  Sound' /\ audio'.paused /\ Made
BY PausingSound DEF til_audio_pause, DevicePaused, Hooked, HookedContext

LEMMA UnpauseSound ==
    ASSUME Sound, til_audio_unpause, UNCHANGED seeks
    PROVE  Sound' /\ Playing' /\ Made
BY PausingSound DEF til_audio_unpause, DeviceUnpaused, Hooked, HookedContext, Playing, HookedPlays

(* A seek leaves no frame, and what is hooked knows of it. *)
LEMMA SeekSound ==
    ASSUME Sound, seeks < MaxSeeks, til_audio_seek
    PROVE  Sound' /\ audio'.paused /\ pc' \in {pc, "aborted"} /\ Made
<1> USE AudioAssumption
<1>1. /\ audio \in Devices /\ playits \in [Playits -> Contexts]
      /\ seeks \in 0 .. MaxSeeks
  BY DEF Sound
<1>2. audio' = [[audio EXCEPT !.paused = TRUE] EXCEPT !.queue = <<>>]
  BY DEF til_audio_seek, DeviceDropped, DevicePaused
<1>3. /\ audio' \in Devices /\ audio'.queue = <<>> /\ audio'.hooks = audio.hooks
      /\ audio'.hooks_context = audio.hooks_context /\ audio'.paused
  <2>1. <<>> \in Seq(Frames)
    OBVIOUS
  <2> QED
    BY <1>1, <1>2, <2>1 DEF Devices
<1>4. QueuedBy' /\ NoStaleFrames'
  BY <1>3 DEF QueuedBy, NoStaleFrames
<1>5. audio.hooks => audio.hooks_context \in Playits
  BY DEF Sound, HooksLive, Live
<1>6. CASE audio.hooks /\ ~playits[audio.hooks_context].seekable
  <2>1. pc' = "aborted" /\ UNCHANGED <<playits, seeks>>
    BY <1>6 DEF til_audio_seek, HookedContext
  <2> QED
    BY <1>1, <1>3, <1>4, <2>1 DEF Sound, HooksLive, HookedKnows, Live, Made
<1>7. CASE ~(audio.hooks /\ ~playits[audio.hooks_context].seekable)
  <2>1. /\ pc' = pc /\ seeks' = seeks + 1 /\ seeks' \in 0 .. MaxSeeks
        /\ playits' = IF audio.hooks
                      THEN [playits EXCEPT ![audio.hooks_context] = [@ EXCEPT !.seeks = seeks + 1]]
                      ELSE playits
    BY <1>1, <1>7 DEF til_audio_seek, Hooked, HookedContext
  <2>2. playits' \in [Playits -> Contexts]
    BY <1>1, <1>5, <2>1 DEF Contexts
  <2>3. \A p \in Playits : playits'[p].state = playits[p].state
    BY <1>1, <1>5, <2>1 DEF Contexts
  <2>4. audio.hooks => playits'[audio.hooks_context].seeks = seeks'
    BY <1>1, <1>5, <2>1 DEF Contexts
  <2>5. HooksLive'
    BY <1>3, <2>3 DEF Sound, HooksLive, Live
  <2> QED
    BY <1>3, <1>4, <2>1, <2>2, <2>3, <2>4, <2>5 DEF Sound, HookedKnows, Made
<1> QED
  BY <1>6, <1>7

(* A context hooks the device when it is created; it has no frame queued. *)
LEMMA CreateSound ==
    ASSUME Sound, NEW p \in Playits, NEW opens \in BOOLEAN, playit_create_context(p, opens),
           UNCHANGED seeks
    PROVE  Sound' /\ audio'.paused = audio.paused /\ Made
<1> USE AudioAssumption
<1>1. /\ audio \in Devices /\ playits \in [Playits -> Contexts]
      /\ seeks \in 0 .. MaxSeeks /\ playits[p].state = "none"
  BY DEF Sound, playit_create_context
<1>2. /\ audio' \in Devices /\ audio'.queue = audio.queue /\ audio'.paused = audio.paused
      /\ audio'.hooks = opens
      /\ audio'.hooks_context = IF opens THEN p ELSE None
  BY <1>1 DEF playit_create_context, til_audio_set_hooks, til_audio_unset_hooks, Devices
<1>3. playits' = [playits EXCEPT ![p] = [[@ EXCEPT !.state = IF opens THEN "live" ELSE "freed"]
                                            EXCEPT !.seeks = seeks]]
  BY <1>1 DEF playit_create_context, Contexts
<1>4. playits' \in [Playits -> Contexts]
  BY <1>1, <1>3 DEF Contexts
<1>5. /\ playits'[p].state = (IF opens THEN "live" ELSE "freed") /\ playits'[p].seeks = seeks
      /\ \A q \in Playits \ {p} : playits'[q] = playits[q]
  BY <1>1, <1>3 DEF Contexts
<1>6. \A i \in DOMAIN audio.queue : audio.queue[i].by \in Playits \ {p}
  BY <1>1, FramesTyped DEF Sound, QueuedBy
<1>7. HooksLive'
  BY <1>2, <1>5 DEF HooksLive, Live
<1>8. HookedKnows'
  BY <1>2, <1>5 DEF HookedKnows
<1>9. QueuedBy'
  BY <1>2, <1>5, <1>6 DEF Sound, QueuedBy
<1>10. NoStaleFrames'
  BY <1>2, <1>6 DEF NoStaleFrames
<1>11. Made
  BY <1>1, <1>5 DEF Made
<1> QED
  BY <1>1, <1>2, <1>4, <1>7, <1>8, <1>9, <1>10, <1>11 DEF Sound

(* A context that goes takes its hooks off the device. *)
LEMMA DestroySound ==
    ASSUME Sound, NEW p \in Playits, playit_destroy_context(p), UNCHANGED seeks
    PROVE  Sound' /\ audio'.paused = audio.paused /\ Made
<1> USE AudioAssumption
<1>1. /\ audio \in Devices /\ playits \in [Playits -> Contexts]
      /\ seeks \in 0 .. MaxSeeks
  BY DEF Sound
<1>2. /\ audio' \in Devices /\ audio'.queue = audio.queue /\ audio'.paused = audio.paused
      /\ audio'.hooks = (audio.hooks /\ audio.hooks_context # p)
      /\ audio'.hooks_context = IF audio.hooks_context = p THEN None ELSE audio.hooks_context
  BY <1>1 DEF playit_destroy_context, til_audio_unset_hooks, Devices
<1>3. playits' = [playits EXCEPT ![p] = [@ EXCEPT !.state = "freed"]]
  BY <1>1 DEF playit_destroy_context, Contexts
<1>4. playits' \in [Playits -> Contexts]
  BY <1>1, <1>3 DEF Contexts
<1>5. /\ playits'[p].state = "freed"
      /\ \A q \in Playits \ {p} : playits'[q] = playits[q]
  BY <1>1, <1>3 DEF Contexts
<1>6. HooksLive'
  BY <1>2, <1>5 DEF Sound, HooksLive, Live
<1>7. HookedKnows'
  BY <1>2, <1>5 DEF Sound, HookedKnows, HooksLive, Live
<1>8. QueuedBy'
  BY <1>2, <1>5, FramesTyped DEF Sound, QueuedBy
<1>9. NoStaleFrames'
  BY <1>2, FramesTyped DEF Sound, NoStaleFrames
<1>10. Made
  BY <1>5 DEF Made
<1> QED
  BY <1>1, <1>2, <1>4, <1>6, <1>7, <1>8, <1>9, <1>10 DEF Sound

(* A context queues frames of after the last seek it was told of. *)
LEMMA QueueSound ==
    ASSUME Sound, NEW p \in Playits, playit_render_audio(p), playits[p].state # "none"
    PROVE  Sound' /\ audio'.paused = audio.paused /\ audio'.hooks = audio.hooks
                  /\ audio'.hooks_context = audio.hooks_context
<1> USE AudioAssumption
<1>1. /\ audio \in Devices /\ playits \in [Playits -> Contexts]
      /\ seeks \in 0 .. MaxSeeks /\ UNCHANGED <<playits, seeks>>
  BY DEF Sound, playit_render_audio
<1> DEFINE tomix == BufSize - Len(audio.queue)
           frame == [by |-> p, seeks |-> playits[p].seeks]
           frames == [i \in 1 .. tomix |-> frame]
<1>2. CASE UNCHANGED audio
  BY <1>1, <1>2 DEF Sound, HooksLive, Live, HookedKnows, QueuedBy, NoStaleFrames
<1>3. CASE tomix > 0 /\ audio' = [audio EXCEPT !.queue = @ \o frames]
  <2>1. frame \in Frames
    BY <1>1 DEF Frames, Contexts
  <2>2. audio.queue \in Seq(Frames) /\ tomix \in Nat
    BY <1>1, <1>3 DEF Devices
  <2>3. frames \in Seq(Frames) /\ Len(frames) = tomix
    BY <2>1, <2>2
  <2>4. /\ audio' \in Devices /\ audio'.queue = audio.queue \o frames
        /\ audio'.paused = audio.paused /\ audio'.hooks = audio.hooks
        /\ audio'.hooks_context = audio.hooks_context
    <3>1. audio.queue \o frames \in Seq(Frames)
      BY <2>2, <2>3
    <3> HIDE DEF frames
    <3> QED
      BY <1>1, <1>3, <3>1 DEF Devices
  <2>5. \A i \in DOMAIN audio'.queue :
            \/ i \in DOMAIN audio.queue /\ audio'.queue[i] = audio.queue[i]
            \/ audio'.queue[i] = frame
    <3> SUFFICES ASSUME NEW i \in DOMAIN audio'.queue
                 PROVE  \/ i \in DOMAIN audio.queue /\ audio'.queue[i] = audio.queue[i]
                        \/ audio'.queue[i] = frame
      OBVIOUS
    <3>1. i \in 1 .. Len(audio.queue) + tomix
      BY <2>2, <2>3, <2>4
    <3>2. CASE i <= Len(audio.queue)
      BY <2>2, <2>3, <2>4, <3>1, <3>2
    <3>3. CASE i > Len(audio.queue)
      <4>1. i - Len(audio.queue) \in 1 .. tomix
        BY <2>2, <3>1, <3>3
      <4>2. audio'.queue[i] = frames[i - Len(audio.queue)]
        BY <2>2, <2>3, <2>4, <3>1, <3>3
      <4> QED
        BY <4>1, <4>2
    <3> QED
      BY <2>2, <3>1, <3>2, <3>3
  <2> HIDE DEF frames, tomix
  <2>6. HooksLive' /\ HookedKnows'
    BY <1>1, <2>4 DEF Sound, HooksLive, Live, HookedKnows
  <2>7. QueuedBy'
    BY <1>1, <2>5 DEF Sound, QueuedBy
  <2>8. NoStaleFrames'
    <3> SUFFICES ASSUME NEW i \in DOMAIN audio'.queue,
                        audio'.queue[i].by = audio'.hooks_context
                 PROVE  audio'.queue[i].seeks = seeks'
      BY DEF NoStaleFrames
    <3>1. CASE i \in DOMAIN audio.queue /\ audio'.queue[i] = audio.queue[i]
      BY <1>1, <2>4, <3>1 DEF Sound, NoStaleFrames
    <3>2. CASE audio'.queue[i] = frame
      BY <1>1, <2>4, <3>2 DEF Sound, HookedKnows, HooksLive
    <3> QED
      BY <2>5, <3>1, <3>2
  <2> QED
    BY <1>1, <2>4, <2>6, <2>7, <2>8 DEF Sound
<1> QED
  BY <1>2, <1>3 DEF playit_render_audio, DeviceQueueLength, DeviceQueued

(* The device plays its first frame. *)
LEMMA PlaysSound ==
    ASSUME Sound, Plays
    PROVE  Sound' /\ audio'.paused = audio.paused /\ audio'.hooks = audio.hooks
                  /\ audio'.hooks_context = audio.hooks_context
<1>1. /\ audio \in Devices /\ playits \in [Playits -> Contexts]
      /\ seeks \in 0 .. MaxSeeks /\ UNCHANGED <<playits, seeks>>
      /\ audio.queue \in Seq(Frames) /\ audio.queue # <<>>
      /\ audio' = [audio EXCEPT !.queue = Tail(audio.queue)]
  BY DEF Sound, Plays, Devices
<1>2. /\ audio' \in Devices /\ audio'.queue = Tail(audio.queue)
      /\ audio'.paused = audio.paused /\ audio'.hooks = audio.hooks
      /\ audio'.hooks_context = audio.hooks_context
  <2>1. Tail(audio.queue) \in Seq(Frames)
    BY <1>1
  <2> QED
    BY <1>1, <2>1 DEF Devices
<1>3. \A i \in DOMAIN audio'.queue :
          i + 1 \in DOMAIN audio.queue /\ audio'.queue[i] = audio.queue[i + 1]
  <2>1. \A s \in Seq(Frames) : s # <<>> =>
            \A i \in DOMAIN Tail(s) : i + 1 \in DOMAIN s /\ Tail(s)[i] = s[i + 1]
    OBVIOUS
  <2> QED
    BY <1>1, <1>2, <2>1
<1>4. HooksLive' /\ HookedKnows'
  BY <1>1, <1>2 DEF Sound, HooksLive, Live, HookedKnows
<1>5. QueuedBy' /\ NoStaleFrames'
  BY <1>1, <1>2, <1>3 DEF Sound, QueuedBy, NoStaleFrames
<1> QED
  BY <1>1, <1>2, <1>4, <1>5 DEF Sound
----------------------------------------------------------------------------
(* Every step keeps both halves. *)

(* A step that leaves the device and the contexts alone keeps the first. *)
LEMMA SameSound ==
    ASSUME Sound, UNCHANGED <<audio, playits, seeks>>
    PROVE  Sound' /\ Made
BY DEF Sound, HooksLive, Live, HookedKnows, QueuedBy, NoStaleFrames, Made

LEMMA OpenKeepsIInv == IInv /\ til_audio_open => IInv'
<1> SUFFICES ASSUME IInv, til_audio_open PROVE IInv'
  OBVIOUS
<1> USE AudioAssumption
<1>1. /\ pc = "open" /\ pc' \in {"create", "exited"} /\ Sound /\ Places /\ Controlled
      /\ UNCHANGED <<audio_control, playits, rkt, todo, seeks>>
  BY DEF IInv, til_audio_open, mem_audio_init, sdl_audio_init_fails
<1>2. CASE sdl_audio_init_fails
  BY <1>1, <1>2, SameSound
     DEF IInv, Places, Pcs, TodoMade, Controlled, PlaysWithRkt, sdl_audio_init_fails
<1>3. CASE mem_audio_init
  <2>1. audio' = [open |-> TRUE, paused |-> TRUE, queue |-> <<>>, hooks |-> FALSE,
                  hooks_context |-> None]
    BY <1>3 DEF mem_audio_init, til_audio_context_new
  <2>2. audio' \in Devices
    BY <2>1, NewDevice
  <2>3. Sound'
    BY <1>1, <2>1, <2>2 DEF Sound, HooksLive, HookedKnows, QueuedBy, NoStaleFrames
  <2> QED
    BY <1>1, <2>3 DEF IInv, Places, Pcs, TodoMade, Controlled, PlaysWithRkt
<1> QED
  BY <1>2, <1>3 DEF til_audio_open

LEMMA PlaysKeepsIInv == IInv /\ Plays => IInv'
<1> SUFFICES ASSUME IInv, Plays PROVE IInv'
  OBVIOUS
<1>1. Sound' /\ audio'.paused = audio.paused /\ audio'.hooks = audio.hooks
      /\ audio'.hooks_context = audio.hooks_context
  BY PlaysSound DEF IInv
<1> QED
  BY <1>1 DEF IInv, Plays, Places, TodoMade, Controlled, PlaysWithRkt, Playing, HookedPlays

(* Control is given out before anybody could take it from rkt. *)
LEMMA ControlKeepsIInv == IInv /\ (rkt_create_context \/ OtherModule \/ main_control) => IInv'
<1> SUFFICES ASSUME IInv, rkt_create_context \/ OtherModule \/ main_control PROVE IInv'
  OBVIOUS
<1> USE AudioAssumption
<1>1. Sound'
  BY SameSound DEF IInv, rkt_create_context, OtherModule, main_control
<1> USE DEF IInv, Places, Pcs, TodoMade, Controlled, PlaysWithRkt,
            til_stream_get_audio_context_control
<1>2. CASE rkt_create_context
  BY <1>1, <1>2 DEF rkt_create_context
<1>3. CASE OtherModule
  BY <1>1, <1>3 DEF OtherModule
<1>4. CASE main_control
  BY <1>1, <1>4 DEF main_control
<1> QED
  BY <1>2, <1>3, <1>4

LEMMA CreateNestedKeepsIInv == IInv /\ CreateNested => IInv'
<1> SUFFICES ASSUME IInv, CreateNested PROVE IInv'
  OBVIOUS
<1>1. /\ pc = "contexts" /\ pc' \in {"contexts", "created", "control", "exited"}
      /\ (pc' = "created" => rkt.present)
      /\ UNCHANGED <<audio_control, rkt, todo, seeks>>
  BY DEF CreateNested
<1>2. Sound' /\ audio'.paused = audio.paused /\ Made
  <2>1. CASE UNCHANGED <<audio, playits>>
    BY <1>1, <2>1, SameSound DEF IInv
  <2>2. ASSUME NEW p \in Playits, NEW opens \in BOOLEAN, playit_create_context(p, opens)
        PROVE  Sound' /\ audio'.paused = audio.paused /\ Made
    BY <1>1, <2>2, CreateSound DEF IInv
  <2> QED
    BY <2>1, <2>2 DEF CreateNested
<1> QED
  BY <1>1, <1>2 DEF IInv, Places, Pcs, TodoMade, Controlled, PlaysWithRkt, Made

LEMMA BeginFrameKeepsIInv == IInv /\ (BeginFrame \/ StreamEnds) => IInv'
<1> SUFFICES ASSUME IInv, BeginFrame \/ StreamEnds PROVE IInv'
  OBVIOUS
<1>1. Sound'
  BY SameSound DEF IInv, BeginFrame, StreamEnds
<1> QED
  BY <1>1 DEF IInv, Places, Pcs, TodoMade, Controlled, PlaysWithRkt, BeginFrame, StreamEnds

LEMMA UpdateKeepsIInv == IInv /\ rkt_update_rocket => IInv'
<1> SUFFICES ASSUME IInv, rkt_update_rocket PROVE IInv'
  OBVIOUS
<1> USE DEF IInv, Places, Pcs, TodoMade, Controlled, PlaysWithRkt, Made
<1>1. pc \in {"created", "sync"} /\ UNCHANGED <<audio_control, todo>> /\ Sound
      /\ rkt \in Rkts
  BY DEF rkt_update_rocket
<1>2. ASSUME NEW flag \in BOOLEAN, rkt_sync_pause(flag) PROVE IInv'
  <2>1. rkt' = [rkt EXCEPT !.paused = flag] /\ UNCHANGED <<pc, seeks>>
    BY <1>2 DEF rkt_sync_pause
  <2>2. rkt' \in Rkts /\ rkt'.present = rkt.present /\ rkt'.paused = flag
    BY <1>1, <2>1 DEF Rkts
  <2>3. CASE flag
    <3>1. Sound' /\ audio'.paused /\ Made
      <4>1. til_audio_pause
        BY <1>2, <2>3 DEF rkt_sync_pause
      <4> QED
        BY <1>1, <2>1, <4>1, PauseSound
    <3>2. rkt' \in Rkts /\ rkt'.present = rkt.present
      BY <2>2
    <3> QED
      BY <1>1, <2>1, <3>1, <3>2
  <2>4. CASE ~flag
    <3>1. Sound' /\ Made
      BY <1>1, <1>2, <2>1, <2>4, UnpauseSound DEF rkt_sync_pause
    <3> QED
      BY <1>1, <2>1, <2>2, <2>4, <3>1
  <2> QED
    BY <2>3, <2>4
<1>3. CASE rkt_sync_set_row
  <2>1. Sound' /\ audio'.paused /\ pc' \in {pc, "aborted"} /\ Made /\ rkt' = rkt
    BY <1>1, <1>3, SeekSound DEF rkt_sync_set_row
  <2> QED
    BY <1>1, <2>1
<1>4. CASE /\ pc' = (IF pc = "created" THEN "control" ELSE "scene")
           /\ UNCHANGED <<audio, playits, rkt, seeks>>
  <2>1. Sound'
    BY <1>1, <1>4, SameSound
  <2> QED
    BY <1>1, <1>4, <2>1
<1> QED
  BY <1>2, <1>3, <1>4 DEF rkt_update_rocket

LEMMA NestedKeepsIInv == IInv /\ NestedComeAndGo => IInv'
<1> SUFFICES ASSUME IInv, NestedComeAndGo PROVE IInv'
  OBVIOUS
<1>1. pc = "scene" /\ UNCHANGED <<audio_control, rkt, pc, todo, seeks>>
  BY DEF NestedComeAndGo
<1>2. Sound' /\ audio'.paused = audio.paused /\ Made
  <2>1. ASSUME NEW p \in Playits, NEW opens \in BOOLEAN, playit_create_context(p, opens)
        PROVE  Sound' /\ audio'.paused = audio.paused /\ Made
    BY <1>1, <2>1, CreateSound DEF IInv
  <2>2. ASSUME NEW p \in Playits, playit_destroy_context(p)
        PROVE  Sound' /\ audio'.paused = audio.paused /\ Made
    BY <1>1, <2>2, DestroySound DEF IInv
  <2> QED
    BY <2>1, <2>2 DEF NestedComeAndGo
<1> QED
  BY <1>1, <1>2 DEF IInv, Places, TodoMade, Controlled, PlaysWithRkt, Made

(* What a frame renders was created: a scene's playit is live. *)
LEMMA ShowSceneKeepsIInv == IInv /\ ShowScene => IInv'
<1> SUFFICES ASSUME IInv, ShowScene PROVE IInv'
  OBVIOUS
<1> USE AudioAssumption
<1> USE DEF IInv, Places, Pcs, TodoMade, Controlled, PlaysWithRkt, Made
<1>1. pc = "scene" /\ pc' = "render" /\ UNCHANGED <<audio_control, seeks>> /\ Sound
      /\ rkt \in Rkts
  BY DEF ShowScene
<1>2. ASSUME NEW scene \in Live \cup {Silent, Missing}, rkt_render_fragment(scene)
      PROVE  IInv'
  <2>1. rkt.present /\ todo' \in SUBSET Live /\ scene \in Playits \cup {Silent, Missing}
    BY <1>2 DEF rkt_render_fragment, Live
  <2>2. \A p \in todo' : p \in Playits /\ playits[p].state # "none"
    BY <2>1 DEF Live
  <2>3. CASE PausesAt(scene)
    <3>1. til_audio_pause /\ rkt' = [rkt EXCEPT !.paused = TRUE, !.last_scene = scene]
      BY <1>2, <2>3 DEF rkt_render_fragment
    <3>2. Sound' /\ audio'.paused /\ Made
      BY <1>1, <3>1, PauseSound
    <3>3. rkt' \in Rkts /\ rkt'.present
      BY <1>1, <2>1, <3>1 DEF Rkts
    <3> QED
      BY <1>1, <2>1, <2>2, <3>2, <3>3
  <2>4. CASE ~PausesAt(scene)
    <3>1. rkt' = [rkt EXCEPT !.last_scene = scene] /\ UNCHANGED <<audio, playits>>
      BY <1>2, <2>4 DEF rkt_render_fragment
    <3>2. Sound'
      BY <1>1, <3>1, SameSound
    <3>3. rkt' \in Rkts /\ rkt'.present = rkt.present /\ rkt'.paused = rkt.paused
      BY <1>1, <2>1, <3>1 DEF Rkts
    <3> QED
      BY <1>1, <2>2, <3>1, <3>2, <3>3
  <2> QED
    BY <2>3, <2>4
<1>3. CASE ~rkt.present /\ todo' \in SUBSET Live /\ UNCHANGED <<audio, playits, rkt>>
  <2>1. Sound'
    BY <1>1, <1>3, SameSound
  <2>2. \A p \in todo' : p \in Playits /\ playits[p].state # "none"
    BY <1>3 DEF Live
  <2> QED
    BY <1>1, <1>3, <2>1, <2>2
<1> QED
  BY <1>2, <1>3 DEF ShowScene

LEMMA RenderKeepsIInv == IInv /\ (\E p \in Playits : playit_render_audio(p)) => IInv'
<1> SUFFICES ASSUME IInv, NEW p \in Playits, playit_render_audio(p) PROVE IInv'
  OBVIOUS
<1>1. p \in todo /\ todo' = todo \ {p} /\ UNCHANGED <<audio_control, playits, rkt, pc, seeks>>
      /\ pc = "render"
  BY DEF playit_render_audio
<1>2. Sound' /\ audio'.paused = audio.paused
  BY <1>1, QueueSound DEF IInv, TodoMade
<1> QED
  BY <1>1, <1>2 DEF IInv, Places, TodoMade, Controlled, PlaysWithRkt

(* A frame of rkt that is not paused ends with a device that plays. *)
LEMMA RenderedKeepsIInv == IInv /\ Rendered => IInv'
<1> SUFFICES ASSUME IInv, Rendered PROVE IInv'
  OBVIOUS
<1> USE DEF IInv, Places, Pcs, TodoMade, Controlled, PlaysWithRkt, Made
<1>1. pc = "render" /\ pc' = "end" /\ UNCHANGED <<audio_control, rkt, todo, seeks>> /\ Sound
  BY DEF Rendered
<1>2. CASE rkt.present /\ ~rkt.paused
  <2>1. Sound' /\ Playing' /\ Made
    BY <1>1, <1>2, UnpauseSound DEF Rendered
  <2> QED
    BY <1>1, <1>2, <2>1
<1>3. CASE ~(rkt.present /\ ~rkt.paused)
  <2>1. Sound' /\ UNCHANGED <<audio, playits>>
    BY <1>1, <1>3, SameSound DEF Rendered
  <2> QED
    BY <1>1, <1>3, <2>1
<1> QED
  BY <1>2, <1>3

(* main's thread unpauses only when rkt does not control. *)
LEMMA MainKeepsIInv == IInv /\ rototiller_thread => IInv'
<1> SUFFICES ASSUME IInv, rototiller_thread PROVE IInv'
  OBVIOUS
<1> USE AudioAssumption
<1> USE DEF IInv, Places, Pcs, TodoMade, Controlled, PlaysWithRkt, Made
<1>1. pc = "end" /\ pc' = "frame" /\ UNCHANGED <<audio_control, rkt, todo, seeks>> /\ Sound
      /\ (rkt.present => audio_control = "rkt")
  BY DEF rototiller_thread
<1>2. CASE audio_control = "main" /\ DeviceQueueLength(audio) > 0
  <2>1. Sound' /\ Made
    BY <1>1, <1>2, UnpauseSound DEF rototiller_thread
  <2> QED
    BY <1>1, <1>2, <2>1
<1>3. CASE ~(audio_control = "main" /\ DeviceQueueLength(audio) > 0)
  <2>1. Sound' /\ UNCHANGED <<audio, playits>>
    BY <1>1, <1>3, SameSound DEF rototiller_thread
  <2> QED
    BY <1>1, <1>3, <2>1 DEF Playing, HookedPlays
<1> QED
  BY <1>2, <1>3

LEMMA ShutdownKeepsIInv == IInv /\ Shutdown => IInv'
<1> SUFFICES ASSUME IInv, Shutdown PROVE IInv'
  OBVIOUS
<1> USE DEF IInv, Places, Pcs, TodoMade, Controlled, PlaysWithRkt, Made
<1>1. pc = "destroy" /\ UNCHANGED <<audio_control, rkt, todo, seeks>> /\ Sound
  BY DEF Shutdown
<1>2. ASSUME NEW p \in Playits, playit_destroy_context(p), pc' = pc PROVE IInv'
  <2>1. Sound' /\ audio'.paused = audio.paused /\ Made
    BY <1>1, <1>2, DestroySound
  <2> QED
    BY <1>1, <1>2, <2>1
<1>3. CASE pc' = "done" /\ til_audio_shutdown /\ UNCHANGED playits
  <2>1. audio' = [audio EXCEPT !.open = FALSE] /\ audio \in Devices
    BY <1>1, <1>3 DEF til_audio_shutdown, Sound
  <2>2. audio' \in Devices /\ audio'.queue = audio.queue /\ audio'.paused = audio.paused
        /\ audio'.hooks = audio.hooks /\ audio'.hooks_context = audio.hooks_context
    BY <2>1 DEF Devices
  <2>3. Sound'
    BY <1>1, <1>3, <2>2 DEF Sound, HooksLive, Live, HookedKnows, QueuedBy, NoStaleFrames
  <2> QED
    BY <1>1, <1>3, <2>2, <2>3
<1> QED
  BY <1>2, <1>3 DEF Shutdown

----------------------------------------------------------------------------
LEMMA StepIInv == IInv /\ [Next]_vars => IInv'
<1> SUFFICES ASSUME IInv, [Next]_vars PROVE IInv'
  OBVIOUS
<1>1. CASE UNCHANGED vars
  BY <1>1, SameSound
     DEF vars, IInv, Places, TodoMade, Controlled, PlaysWithRkt, Playing, HookedPlays
<1> QED
  BY <1>1, OpenKeepsIInv, PlaysKeepsIInv, ControlKeepsIInv, CreateNestedKeepsIInv,
     BeginFrameKeepsIInv, UpdateKeepsIInv, NestedKeepsIInv, ShowSceneKeepsIInv,
     RenderKeepsIInv, RenderedKeepsIInv, MainKeepsIInv, ShutdownKeepsIInv DEF Next

(* The inductive invariant holds of every stream. *)
LEMMA InvariantCorrect == AudioSpec => []IInv
BY InitIInv, StepIInv, PTL DEF AudioSpec

(* The audio's state keeps its types (til_audio.c, playit.c, rkt.c). *)
THEOREM TypeCorrect == AudioSpec => []TypeOK
<1>1. IInv => TypeOK
  BY DEF IInv, TypeOK, Sound, Places, Devices, Rkts, Pcs
<1> QED
  BY <1>1, InvariantCorrect, PTL

(* The device never has a hook with a context that was freed
   (til_audio_set_hooks(), til_audio_unset_hooks()). *)
THEOREM HooksLiveCorrect == AudioSpec => []HooksLive
<1>1. IInv => HooksLive
  BY DEF IInv, Sound
<1> QED
  BY <1>1, InvariantCorrect, PTL

(* No frame of the hooked song from before the last seek is still queued
   (til_audio_seek(), playit_audio_seeked()). *)
THEOREM NoStaleFramesCorrect == AudioSpec => []NoStaleFrames
<1>1. IInv => NoStaleFrames
  BY DEF IInv, Sound
<1> QED
  BY <1>1, InvariantCorrect, PTL

(* After each frame of rkt the device is paused exactly when rkt is
   (rkt_render_fragment(), main.c's rototiller_thread()). *)
THEOREM PausedWithRktCorrect == AudioSpec => []PausedWithRkt
<1>1. IInv => PausedWithRkt
  <2> SUFFICES ASSUME IInv, pc = "frame", rkt.present
               PROVE  /\ audio.paused = rkt.paused
                      /\ audio.hooks /\ ~rkt.paused => ~playits[audio.hooks_context].paused
    BY DEF PausedWithRkt
  <2>1. audio.paused \in BOOLEAN /\ rkt.paused \in BOOLEAN
    BY DEF IInv, Sound, Devices, Places, Rkts
  <2>2. CASE rkt.paused
    BY <2>1, <2>2 DEF IInv, Controlled
  <2>3. CASE ~rkt.paused
    BY <2>1, <2>3 DEF IInv, PlaysWithRkt, Playing, HookedPlays
  <2> QED
    BY <2>2, <2>3
<1> QED
  BY <1>1, InvariantCorrect, PTL
=============================================================================
