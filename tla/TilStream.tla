------------------------------ MODULE TilStream ------------------------------
(***************************************************************************)
(* The pipes of a stream (til_stream.c): the table through which module    *)
(* contexts share the variables they tap, and the rkt module, which takes  *)
(* pipes over to drive them from its tracks.                               *)
(*                                                                         *)
(* A variable is identified with the tap bound to it, <<owner, name>>.     *)
(* The contexts of Ctx share a path, as clones and successive contexts of  *)
(* one setup do, so that a name is one pipe for all of them; the pipes of  *)
(* other paths are independent of these.  Contexts render concurrently.    *)
(***************************************************************************)
EXTENDS Integers

CONSTANTS
  Ctx,         \* the module contexts at the path
  Name,        \* the names they tap
  Scalar,      \* those of a type rkt can drive
  Keyed,       \* those whose rkt track may have keys
  Rkt,         \* the rkt context
  NoPipe,
  RktFirst,    \* does rkt render before the contexts do?
  MaxFails,    \* bound on how often calloc() returns NULL
  MaxFrame     \* bound on stream->frame

ASSUME RktAssumption == Rkt \notin Ctx
ASSUME NameAssumption == Keyed \subseteq Scalar /\ Scalar \subseteq Name
ASSUME BoundAssumption == MaxFrame \in Nat /\ MaxFails \in Nat

VARIABLES
  frame,     \* stream->frame
  pipe,      \* the pipe of each name: its owner, driving_tap and frame
  locked,    \* is stream->mutex held, by nobody who will release it?
  alive,     \* the contexts that exist
  ptr,       \* the variable *tap->ptr is, for each tap of a context
  pc,        \* where each context is: not rendering, rendering, returning
             \* from til_stream_tap(), or using the variable it tapped
  arg, res,  \* what it tapped, and what til_stream_tap() returned
  keys,      \* the names whose track has keys
  inactive,  \* the rkt taps with inactive set
  rktPipes,  \* how many rkt_pipe_t of each name are allocated
  rktDue,    \* is rkt yet to render in this frame?
  ended,     \* did main() start to free the stream?
  tapped,    \* what each context tapped in this frame
  fails      \* how often calloc() returned NULL

callVars == <<pc, arg, res>>
rktVars == <<keys, inactive, rktPipes, rktDue>>
vars == <<frame, pipe, locked, alive, ptr, callVars, rktVars, ended, tapped,
          fails>>

Owner == Ctx \union {Rkt}
Tap == Owner \X Name
Pipe == [owner : Owner, driver : Tap, frame : 0 .. MaxFrame]

ASSUME NoPipeAssumption == NoPipe \notin Pipe

OwnerOf(tap) == tap[1]
NoOneRenders == \A c \in Ctx : pc[c] = "out"

-----------------------------------------------------------------------------
\* til_stream_new().  rkt, if any, was created first, and has hooked the
\* creation of pipes; til_tap_init() has each tap use its own variable.
Init ==
  /\ frame = 0
  /\ pipe = [n \in Name |-> NoPipe]
  /\ locked = FALSE
  /\ alive \in {{}, {Rkt}}
  /\ ptr = [t \in Ctx \X Name |-> t]
  /\ pc = [c \in Ctx |-> "out"]
  /\ arg \in [Ctx -> Name]
  /\ res = [c \in Ctx |-> 0]
  /\ keys \in SUBSET Keyed
  /\ inactive = {}
  /\ rktPipes = [n \in Name |-> 0]
  /\ rktDue = FALSE
  /\ ended = FALSE
  /\ tapped = [c \in Ctx |-> {}]
  /\ fails = 0

-----------------------------------------------------------------------------
(* til_stream_tap(), under the mutex.  The definitions named Bug... are       *)
(* plausible mistakes in the one they precede: each breaks a property below.  *)

\* Every frame's a race for who's driving, and an inactive driver lost it.
BugDriverAfter(tap, p) == IF p.driver \in inactive THEN tap ELSE p.driver
DriverAfter(tap, p) ==
  IF p.driver \in inactive \/ p.frame # frame THEN tap ELSE p.driver

BugTapped(p, driver) == [p EXCEPT !.driver = driver]
Tapped(p, driver) == [p EXCEPT !.driver = driver, !.frame = frame]

Hooked(n) == Rkt \in alive /\ n \in Scalar

\* What a new pipe is created with: rkt_stream_pipe_ctor() makes it rkt's, and
\* has rkt drive it if its track has keys.
NewPipe(c, n) ==
  [owner  |-> IF Hooked(n) THEN Rkt ELSE c,
   driver |-> IF Hooked(n) /\ n \in keys THEN <<Rkt, n>> ELSE <<c, n>>,
   frame  |-> frame]

TapCalled(c, n) ==
  /\ ~locked
  /\ pc[c] \in {"render", "use"}
  /\ arg' = [arg EXCEPT ![c] = n]
  /\ tapped' = [tapped EXCEPT ![c] = @ \union {n}]
  /\ UNCHANGED <<frame, alive, keys, inactive, rktDue, ended>>

\* This is the pipe, and its tap is driving.
TapDriving(c, n) ==
  /\ TapCalled(c, n)
  /\ pipe[n] # NoPipe
  /\ pipe[n].driver = <<c, n>>
  /\ pipe' = [pipe EXCEPT ![n] = Tapped(@, <<c, n>>)]
  /\ ptr' = [ptr EXCEPT ![<<c, n>>] = <<c, n>>]
  /\ res' = [res EXCEPT ![c] = 0]
  /\ pc' = [pc EXCEPT ![c] = "use"]
  /\ UNCHANGED <<locked, rktPipes, fails>>

\* This is the pipe, and its tap is not driving: should it be?
TapFound(c, n) ==
  /\ TapCalled(c, n)
  /\ pipe[n] # NoPipe
  /\ pipe[n].driver # <<c, n>>
  /\ LET driver == DriverAfter(<<c, n>>, pipe[n]) IN
       /\ pipe' = [pipe EXCEPT ![n] = Tapped(@, driver)]
       /\ ptr' = [ptr EXCEPT ![<<c, n>>] = driver]
  /\ pc' = [pc EXCEPT ![c] = "return"]
  /\ UNCHANGED <<locked, res, rktPipes, fails>>

\* The driver is read once more, after the mutex was released.
TapReturn(c) ==
  /\ pc[c] = "return"
  /\ LET driving == pipe[arg[c]].driver = <<c, arg[c]>> IN
       res' = [res EXCEPT ![c] = IF driving THEN 0 ELSE 1]
  /\ pc' = [pc EXCEPT ![c] = "use"]
  /\ UNCHANGED <<frame, pipe, locked, alive, ptr, arg, rktVars, ended, tapped,
                 fails>>

\* There is no pipe: one is created.
TapNew(c, n) ==
  /\ TapCalled(c, n)
  /\ pipe[n] = NoPipe
  /\ pipe' = [pipe EXCEPT ![n] = NewPipe(c, n)]
  /\ ptr' = [ptr EXCEPT ![<<c, n>>] = NewPipe(c, n).driver]
  /\ rktPipes' = [rktPipes EXCEPT ![n] = IF Hooked(n) THEN @ + 1 ELSE @]
  /\ res' = [res EXCEPT ![c] = 0]
  /\ pc' = [pc EXCEPT ![c] = "use"]
  /\ UNCHANGED <<locked, fails>>

\* The hook's allocation fails, and the mutex is left locked, or the pipe's
\* own does, and the hook's is left allocated.  Modules take the error for
\* another tap driving, and use the variable they used before.
TapFails(c, n) ==
  /\ fails < MaxFails
  /\ fails' = fails + 1
  /\ TapCalled(c, n)
  /\ pipe[n] = NoPipe
  /\ \/ /\ Hooked(n)
        /\ locked' = TRUE
        /\ UNCHANGED rktPipes
     \/ /\ rktPipes' = [rktPipes EXCEPT ![n] = IF Hooked(n) THEN @ + 1 ELSE @]
        /\ UNCHANGED locked
  /\ res' = [res EXCEPT ![c] = -1]
  /\ pc' = [pc EXCEPT ![c] = "use"]
  /\ UNCHANGED <<pipe, ptr>>

-----------------------------------------------------------------------------
(* Rendering a frame *)

\* til_stream_render() counts the frames.
NextFrame ==
  /\ NoOneRenders
  /\ ~ended
  /\ ~rktDue
  /\ frame < MaxFrame
  /\ frame' = frame + 1
  /\ rktDue' = (Rkt \in alive)
  /\ tapped' = [c \in Ctx |-> {}]
  /\ UNCHANGED <<pipe, locked, alive, ptr, callVars, keys, inactive, rktPipes,
                 ended, fails>>

BeginRender(c) ==
  /\ c \in alive
  /\ pc[c] = "out"
  /\ frame > 0
  /\ RktFirst => ~rktDue
  /\ ~ended
  /\ pc' = [pc EXCEPT ![c] = "render"]
  /\ UNCHANGED <<frame, pipe, locked, alive, ptr, arg, res, rktVars, ended,
                 tapped, fails>>

EndRender(c) ==
  /\ pc[c] \in {"render", "use"}
  /\ pc' = [pc EXCEPT ![c] = "out"]
  /\ UNCHANGED <<frame, pipe, locked, alive, ptr, arg, res, rktVars, ended,
                 tapped, fails>>

\* rkt_pipe_update() drives the pipe from its track, unless that has no keys.
BugRktUpdated(p, n) ==
  IF n \in keys' THEN [p EXCEPT !.driver = <<Rkt, n>>] ELSE p
RktUpdated(p, n) == IF n \in keys' THEN Tapped(p, <<Rkt, n>>) ELSE p

InactiveAfter(owned) ==
  (inactive \ {<<Rkt, n>> : n \in owned})
    \union {<<Rkt, n>> : n \in owned \ keys'}

\* rkt_render_fragment(): the editor may have added or removed keys; then each
\* pipe rkt owns is updated, under the mutex.
RktRender ==
  /\ rktDue
  /\ NoOneRenders
  /\ ~locked
  /\ keys' \in SUBSET Keyed
  /\ LET owned == {n \in Name : pipe[n] # NoPipe /\ pipe[n].owner = Rkt} IN
       /\ pipe' = [n \in Name |-> IF n \in owned THEN RktUpdated(pipe[n], n)
                                                 ELSE pipe[n]]
       /\ inactive' = InactiveAfter(owned)
  /\ rktDue' = FALSE
  /\ UNCHANGED <<frame, locked, alive, ptr, callVars, rktPipes, ended, tapped,
                 fails>>

-----------------------------------------------------------------------------
(* Contexts come and go, while none is rendering. *)

\* A new context may have the address of one that was freed.
Create(c) ==
  /\ c \notin alive
  /\ NoOneRenders
  /\ ~ended
  /\ alive' = alive \union {c}
  /\ ptr' = [t \in Ctx \X Name |-> IF OwnerOf(t) = c THEN t ELSE ptr[t]]
  /\ tapped' = [tapped EXCEPT ![c] = {}]
  /\ UNCHANGED <<frame, pipe, locked, callVars, rktVars, ended, fails>>

\* til_stream_untap_owner() removes the pipes o owns, and those it drives.
BugUntaps(o, p) == p.owner = o
Untaps(o, p) == p.owner = o \/ OwnerOf(p.driver) = o

\* rkt_stream_pipe_dtor() ignores the pipes rkt does not own.
BugDtorFrees(p) == TRUE
DtorFrees(p) == p.owner = Rkt

\* module_context_free() untaps the context, and rkt_stream_pipe_dtor() frees
\* what the hook had allocated for the pipe, with its tap.
Destroy(o) ==
  /\ o \in alive
  /\ NoOneRenders
  /\ o = Rkt => ended
  /\ alive' = alive \ {o}
  /\ LET gone == {n \in Name : pipe[n] # NoPipe /\ Untaps(o, pipe[n])}
         freed == {n \in gone : DtorFrees(pipe[n])}
     IN /\ pipe' = [n \in Name |-> IF n \in gone THEN NoPipe ELSE pipe[n]]
        /\ rktPipes' = [n \in Name |-> IF n \in freed THEN rktPipes[n] - 1
                                                      ELSE rktPipes[n]]
        /\ inactive' = inactive \ {<<Rkt, n>> : n \in freed}
  /\ rktDue' = (rktDue /\ o # Rkt)
  /\ UNCHANGED <<frame, locked, ptr, callVars, keys, ended, tapped, fails>>

\* main() stops rendering: til_stream_free() collects the contexts.
End ==
  /\ NoOneRenders
  /\ ~rktDue
  /\ ~ended
  /\ ended' = TRUE
  /\ UNCHANGED <<frame, pipe, locked, alive, ptr, callVars, rktVars, tapped,
                 fails>>

Ended == ended /\ alive = {} /\ UNCHANGED vars

Next ==
  \/ NextFrame \/ RktRender \/ End \/ Ended
  \/ \E c \in Ctx : BeginRender(c) \/ EndRender(c) \/ TapReturn(c) \/ Create(c)
  \/ \E c \in Ctx, n \in Name :
       TapDriving(c, n) \/ TapFound(c, n) \/ TapNew(c, n) \/ TapFails(c, n)
  \/ \E o \in Owner : Destroy(o)

Spec == Init /\ [][Next]_vars

-----------------------------------------------------------------------------
(* Properties *)

TypeOK ==
  /\ frame \in 0 .. MaxFrame
  /\ pipe \in [Name -> Pipe \union {NoPipe}]
  /\ locked \in BOOLEAN
  /\ alive \subseteq Owner
  /\ ptr \in [Ctx \X Name -> Tap]
  /\ pc \in [Ctx -> {"out", "render", "return", "use"}]
  /\ arg \in [Ctx -> Name]
  /\ res \in [Ctx -> {-1, 0, 1}]
  /\ keys \subseteq Keyed
  /\ inactive \subseteq {Rkt} \X Name
  /\ rktPipes \in [Name -> Nat]
  /\ rktDue \in BOOLEAN
  /\ ended \in BOOLEAN
  /\ tapped \in [Ctx -> SUBSET Name]
  /\ fails \in 0 .. MaxFails

Uses(c, n) == pc[c] = "use" /\ arg[c] = n /\ res[c] >= 0

\* The comment of module_context_free(): by always untapping the context, no
\* dangling reference is left.  The stream never follows a pipe to the tap or
\* the hook data of a context that was freed.
PipesLive ==
  \A n \in Name : pipe[n] # NoPipe =>
    pipe[n].owner \in alive /\ OwnerOf(pipe[n].driver) \in alive

\* The variable a context uses is of somebody who takes part in this frame:
\* rkt, while its track has keys for the name, or a context that was not freed
\* and tapped the name in this same frame, itself included.  Nobody follows the
\* pointer to a driver that was freed, is no longer rendered, or lost its pipe.
\* This is not about the value: a driver writes after til_stream_tap()
\* returned, and until then whoever renders at the same time reads what was
\* there before, which for a pipe rkt made in this frame is what calloc() gave.
DriverTapped ==
  \A c \in Ctx, n \in Name : Uses(c, n) =>
    LET driver == ptr[<<c, n>>] IN
      /\ OwnerOf(driver) \in alive
      /\ IF OwnerOf(driver) = Rkt THEN n \in keys
                                   ELSE n \in tapped[OwnerOf(driver)]

\* Contexts that render at the same time use the same variable, whichever of
\* them won the race for the pipe.
SameVariable ==
  \A c, d \in Ctx, n \in Name :
    Uses(c, n) /\ Uses(d, n) => ptr[<<c, n>>] = ptr[<<d, n>>]

\* At most one of them is told to drive it: two would write it concurrently.
OneWriter ==
  \A c, d \in Ctx, n \in Name :
    Uses(c, n) /\ Uses(d, n) /\ res[c] = 0 /\ res[d] = 0 => c = d

\* The comment of rkt_pipe_update(): rkt always wins the race to drive for the
\* pipes under its purview.  While its track has keys, what is used is rkt's.
RktWins ==
  \A c \in Ctx, n \in Name :
    Uses(c, n) /\ n \in keys /\ pipe[n].owner = Rkt
      => ptr[<<c, n>>] = <<Rkt, n>>

\* What the hook allocates for a pipe is freed with it: exactly the pipes rkt
\* owns have theirs, to the last when the stream is freed.  (A pipe's own
\* allocation that fails leaks the hook's.)
RktPipesFreed ==
  fails = 0 => \A n \in Name :
    rktPipes[n] = IF pipe[n] # NoPipe /\ pipe[n].owner = Rkt THEN 1 ELSE 0

\* The comment of til_stream_tap(): 0 is returned when the tap is driving, 1
\* when it is a passenger.
ResultTellsDriver ==
  \A c \in Ctx, n \in Name :
    Uses(c, n) => (res[c] = 0 <=> ptr[<<c, n>>] = <<c, n>>)

\* The same comment: -errno is returned on error.  The call is over then, and
\* so is its hold of the mutex.
MutexReleased == ~locked
=============================================================================
