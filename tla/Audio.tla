------------------------------- MODULE Audio -------------------------------
(***************************************************************************)
(* The audio of a stream: the device (src/til_audio.c with its mem and sdl *)
(* backends), the one who controls it (rkt, or main's thread), and playit  *)
(* contexts that queue frames and hook the device's events.                *)
(*                                                                         *)
(* A queued frame is kept as who queued it and how many seeks the position *)
(* in the song follows: what tells a frame of before a seek from one of    *)
(* after it.  A device plays any number of frames between two questions,   *)
(* so the time it takes is not modelled.  Of a scene of rkt what counts is *)
(* whether it is a playit, another module, or missing.                     *)
(***************************************************************************)
EXTENDS Integers, Sequences

CONSTANTS
    Playits,        \* the playit contexts that may be created
    BufSize,        \* frames playit keeps queued, its setting "bufsize"
    MaxSeeks        \* bound: rows set by the rocket editor

CONSTANTS None, Silent, Missing     \* no context; a scene without audio; no scene

ASSUME AudioAssumption ==
    /\ BufSize \in Nat \ {0} /\ MaxSeeks \in Nat
    /\ None \notin Playits /\ Silent \notin Playits /\ Missing \notin Playits
    /\ None \notin {"rkt", "main"}

VARIABLES
    audio,          \* the device, its queue, and the hooks set on it
    audio_control,  \* who controls it, if anybody
    playits,        \* the playit contexts
    rkt,            \* is main's module rkt, is it paused, its last scene
    pc,             \* where main() and the thread that renders are
    todo,           \* playits still to be rendered in this frame
    seeks           \* rows set so far

vars == <<audio, audio_control, playits, rkt, pc, todo, seeks>>

Frames == [by : Playits, seeks : 0 .. MaxSeeks]
Contexts ==
    [state : {"none", "live", "freed"}, seekable : BOOLEAN, paused : BOOLEAN, seeks : 0 .. MaxSeeks]

TypeOK ==
    /\ audio \in [open : BOOLEAN, paused : BOOLEAN, queue : Seq(Frames),
                  hooks : BOOLEAN, hooks_context : Playits \cup {None}]
    /\ audio_control \in {None, "rkt", "main"}
    /\ playits \in [Playits -> Contexts]
    /\ rkt \in [present : BOOLEAN, paused : BOOLEAN, last_scene : Playits \cup {Silent, Missing}]
    /\ pc \in {"open", "create", "contexts", "created", "control", "start", "frame", "sync", "scene",
               "render", "end", "destroy", "done", "exited", "aborted"}
    /\ todo \in SUBSET Playits
    /\ seeks \in 0 .. MaxSeeks

Live == {p \in Playits : playits[p].state = "live"}

til_audio_context_new ==
    [open |-> TRUE, paused |-> TRUE, queue |-> <<>>, hooks |-> FALSE, hooks_context |-> None]

Init ==
    /\ audio = [til_audio_context_new EXCEPT !.open = FALSE]
    /\ audio_control = None
    /\ playits \in [Playits -> [state : {"none"}, seekable : BOOLEAN, paused : {FALSE}, seeks : {0}]]
    /\ rkt \in [present : BOOLEAN, paused : {FALSE}, last_scene : {Silent}]
    /\ pc = "open" /\ todo = {} /\ seeks = 0

----------------------------------------------------------------------------
(* the device; an sdl device plays at any time, the mem one when it is asked *)

DevicePaused(a) == [a EXCEPT !.paused = TRUE]
DeviceUnpaused(a) == [a EXCEPT !.paused = FALSE]
DeviceQueued(a, frames) == [a EXCEPT !.queue = @ \o frames]
BugDropped(a) == a
DeviceDropped(a) == [a EXCEPT !.queue = <<>>]
DeviceQueueLength(a) == Len(a.queue)

Plays ==
    /\ audio.open /\ ~audio.paused /\ audio.queue # <<>>
    /\ audio' = [audio EXCEPT !.queue = Tail(@)]
    /\ UNCHANGED <<audio_control, playits, rkt, pc, todo, seeks>>

(* a device that starts paused and empty; sdl's may not be had *)
sdl_audio_init_fails == pc' = "exited" /\ UNCHANGED audio
mem_audio_init == pc' = "create" /\ audio' = til_audio_context_new

til_audio_open ==
    /\ pc = "open"
    /\ mem_audio_init \/ sdl_audio_init_fails
    /\ UNCHANGED <<audio_control, playits, rkt, todo, seeks>>

----------------------------------------------------------------------------
(* the operations of til_audio.c: the device's, then the hook for it, which
   is given the context it was set with *)

HookedContext == playits[audio.hooks_context]

Hooked(context) ==
    IF audio.hooks THEN [playits EXCEPT ![audio.hooks_context] = context] ELSE playits

til_audio_pause ==
    /\ audio' = DevicePaused(audio)
    /\ playits' = Hooked([HookedContext EXCEPT !.paused = TRUE])

til_audio_unpause ==
    /\ audio' = DeviceUnpaused(audio)
    /\ playits' = Hooked([HookedContext EXCEPT !.paused = FALSE])

(* pauses the device without the hook of a pause, drops what is queued, and
   tells the hooked context, which asserts that it is seekable *)
til_audio_seek ==
    /\ audio' = DeviceDropped(DevicePaused(audio))
    /\ IF audio.hooks /\ ~HookedContext.seekable
       THEN pc' = "aborted" /\ UNCHANGED <<playits, seeks>>
       ELSE /\ pc' = pc /\ seeks' = seeks + 1
            /\ playits' = Hooked([HookedContext EXCEPT !.seeks = seeks + 1])

(* the hooks of every playit are the same, so a second context is not
   refused: it takes the place of the first *)
til_audio_set_hooks(a, p) == [a EXCEPT !.hooks = TRUE, !.hooks_context = p]

BugUnset(a, p) == a
til_audio_unset_hooks(a, p) ==
    IF a.hooks_context = p THEN [a EXCEPT !.hooks = FALSE, !.hooks_context = None] ELSE a

----------------------------------------------------------------------------
(* contexts *)

BugControl(who) == who
til_stream_get_audio_context_control(who) ==
    IF audio_control = None THEN who ELSE audio_control

(* rkt takes control before its scenes are created *)
rkt_create_context ==
    /\ pc = "create" /\ rkt.present
    /\ audio_control' = til_stream_get_audio_context_control("rkt")
    /\ pc' = "contexts"
    /\ UNCHANGED <<audio, playits, rkt, todo, seeks>>

OtherModule ==
    /\ pc = "create" /\ ~rkt.present
    /\ pc' = "contexts"
    /\ UNCHANGED <<audio, audio_control, playits, rkt, todo, seeks>>

(* the hooks are set before the file is opened: when it cannot be, they are
   unset with the context, and nobody is hooked any more *)
playit_create_context(p, opens) ==
    /\ playits[p].state = "none"
    /\ LET a == til_audio_set_hooks(audio, p) IN
       audio' = IF opens THEN a ELSE til_audio_unset_hooks(a, p)
    /\ playits' = [playits EXCEPT ![p].state = IF opens THEN "live" ELSE "freed", ![p].seeks = seeks]

playit_destroy_context(p) ==
    /\ p \in Live
    /\ audio' = til_audio_unset_hooks(audio, p)
    /\ playits' = [playits EXCEPT ![p].state = "freed"]

(* the contexts main's module nests; one that cannot be created ends main *)
CreateNested ==
    /\ pc = "contexts"
    /\ \/ \E p \in Playits, opens \in BOOLEAN :
            playit_create_context(p, opens) /\ pc' = IF opens THEN pc ELSE "exited"
       \/ pc' = (IF rkt.present THEN "created" ELSE "control") /\ UNCHANGED <<audio, playits>>
    /\ UNCHANGED <<audio_control, rkt, todo, seeks>>

main_control ==
    /\ pc = "control"
    /\ audio_control' = til_stream_get_audio_context_control("main")
    /\ pc' = "start"
    /\ UNCHANGED <<audio, playits, rkt, todo, seeks>>

----------------------------------------------------------------------------
(* frames *)

BeginFrame ==
    /\ pc \in {"start", "frame"}
    /\ pc' = IF rkt.present THEN "sync" ELSE "scene"
    /\ UNCHANGED <<audio, audio_control, playits, rkt, todo, seeks>>

rkt_sync_pause(flag) ==
    /\ rkt' = [rkt EXCEPT !.paused = flag]
    /\ IF flag THEN til_audio_pause ELSE til_audio_unpause
    /\ UNCHANGED <<pc, seeks>>

rkt_sync_set_row ==
    /\ seeks < MaxSeeks
    /\ til_audio_seek
    /\ UNCHANGED rkt

(* the editor's calls: when rkt's context was created, and in each frame *)
rkt_update_rocket ==
    /\ pc \in {"created", "sync"}
    /\ \/ \E flag \in BOOLEAN : rkt_sync_pause(flag)
       \/ rkt_sync_set_row
       \/ pc' = (IF pc = "created" THEN "control" ELSE "scene") /\ UNCHANGED <<audio, playits, rkt, seeks>>
    /\ UNCHANGED <<audio_control, todo>>

(* between frames rkt's editor of scenes creates contexts and destroys those
   it replaces, as modules like rtv do with theirs *)
NestedComeAndGo ==
    /\ pc = "scene"
    /\ \/ \E p \in Playits, opens \in BOOLEAN : (rkt.present \/ opens) /\ playit_create_context(p, opens)
       \/ \E p \in Playits : playit_destroy_context(p)
    /\ UNCHANGED <<audio_control, rkt, pc, todo, seeks>>

(* rkt pauses when it comes to a scene it does not have; a second one missing
   is another scene *)
PausesAt(scene) == scene = Missing /\ rkt.last_scene # Missing

rkt_render_fragment(scene) ==
    /\ rkt.present
    /\ todo' = {scene} \cap Playits
    /\ IF PausesAt(scene)
       THEN til_audio_pause /\ rkt' = [rkt EXCEPT !.paused = TRUE, !.last_scene = scene]
       ELSE rkt' = [rkt EXCEPT !.last_scene = scene] /\ UNCHANGED <<audio, playits>>

ShowScene ==
    /\ pc = "scene"
    /\ \/ \E scene \in Live \cup {Silent, Missing} : rkt_render_fragment(scene)
       \/ ~rkt.present /\ todo' \in SUBSET Live /\ UNCHANGED <<audio, playits, rkt>>
    /\ pc' = "render"
    /\ UNCHANGED <<audio_control, seeks>>

(* queues what is missing of a full buffer, unless the song has ended *)
playit_render_audio(p) ==
    /\ pc = "render" /\ p \in todo
    /\ todo' = todo \ {p}
    /\ LET tomix == BufSize - DeviceQueueLength(audio)
           frame == [by |-> p, seeks |-> playits[p].seeks] IN
       \/ /\ ~playits[p].paused /\ tomix > 0
          /\ audio' = DeviceQueued(audio, [i \in 1 .. tomix |-> frame])
       \/ UNCHANGED audio
    /\ UNCHANGED <<audio_control, playits, rkt, pc, seeks>>

Rendered ==
    /\ pc = "render" /\ todo = {}
    /\ pc' = "end"
    /\ IF rkt.present /\ ~rkt.paused THEN til_audio_unpause ELSE UNCHANGED <<audio, playits>>
    /\ UNCHANGED <<audio_control, rkt, todo, seeks>>

(* main's thread unpauses, when it controls, what anybody has queued *)
rototiller_thread ==
    /\ pc = "end"
    /\ pc' = "frame"
    /\ IF audio_control = "main" /\ DeviceQueueLength(audio) > 0
       THEN til_audio_unpause
       ELSE UNCHANGED <<audio, playits>>
    /\ UNCHANGED <<audio_control, rkt, todo, seeks>>

----------------------------------------------------------------------------
(* the stream ended: main frees the contexts, then closes the device *)

til_audio_shutdown == audio' = [audio EXCEPT !.open = FALSE]

StreamEnds ==
    /\ pc \in {"start", "frame"}
    /\ pc' = "destroy"
    /\ UNCHANGED <<audio, audio_control, playits, rkt, todo, seeks>>

Shutdown ==
    /\ pc = "destroy"
    /\ \/ \E p \in Playits : playit_destroy_context(p) /\ pc' = pc
       \/ Live = {} /\ pc' = "done" /\ til_audio_shutdown /\ UNCHANGED playits
    /\ UNCHANGED <<audio_control, rkt, todo, seeks>>

Next ==
    \/ til_audio_open \/ Plays
    \/ rkt_create_context \/ OtherModule \/ CreateNested \/ main_control
    \/ BeginFrame \/ rkt_update_rocket \/ NestedComeAndGo \/ ShowScene
    \/ \E p \in Playits : playit_render_audio(p)
    \/ Rendered \/ rototiller_thread
    \/ StreamEnds \/ Shutdown

AudioSpec == Init /\ [][Next]_vars

----------------------------------------------------------------------------
(* The device never calls a hook with a context that was freed: two contexts
   that hook it one after the other, in whatever order they go and whichever
   could not be opened, leave nothing behind (til_audio_set_hooks(),
   til_audio_unset_hooks(), playit_destroy_context()). *)
HooksLive ==
    IF audio.hooks THEN audio.hooks_context \in Live ELSE audio.hooks_context = None

(* What is heard after a seek was rendered after it: no frame of the hooked
   song that is still queued is from before the last seek (til_audio_seek()
   pauses, drops and tells, in this order, and playit renders later). *)
NoStaleFrames ==
    \A i \in DOMAIN audio.queue : audio.queue[i].by = audio.hooks_context => audio.queue[i].seeks = seeks

(* After each frame of rkt the device is paused exactly when rkt is: neither
   a seek nor main's own unpausing of a device with frames queued gets in
   the way, and the song that hooked it does not stay paused while it plays
   (main.c takes control only when rkt has not). *)
PausedWithRkt ==
    pc = "frame" /\ rkt.present =>
        /\ audio.paused = rkt.paused
        /\ audio.hooks /\ ~rkt.paused => ~playits[audio.hooks_context].paused
=============================================================================
