----------------------------- MODULE TilContexts -----------------------------
(***************************************************************************)
(* Module contexts (til_module_context.c) and the stream's table of them   *)
(* (til_stream.c): how contexts are created with the contexts they render, *)
(* registered at their path, found there by the "ref" builtin, replaced,   *)
(* collected, and freed by reference counts.  main() creates the context   *)
(* of the setup Root; when that is rtv it switches channels as it renders. *)
(*                                                                         *)
(* A pointer that counts as a reference is a slot <<holder, index, n>>:    *)
(* <<c, i, n>> is the nth context that c made for its part i, <<c, 0, 1>>  *)
(* what a ref c found, <<"stream", p, n>> the nth context registered at p, *)
(* and Main is main()'s.  til_module_create_contexts() is a call stack.    *)
(***************************************************************************)
EXTENDS Naturals, Sequences, FiniteSets

CONSTANTS
  Obj,         \* what contexts are allocated from
  None,        \* NULL
  Setup,       \* the setups contexts are created with
  Path,
  PathOf,      \* the path of each setup
  Parts,       \* the setups of the contexts a context of it creates
  Clones,      \* how many contexts of it are created at once
  Target,      \* the path a setup of "ref" names, NoPath for the others
  NoPath,
  Pre,         \* the setups of the "pre" builtin
  Careless,    \* those that ignore that a part could not be created
  Root,        \* main()'s
  Rtv,         \* that of rtv: part 1 is its snow, the others its channels
  MaxClones,
  MaxFails     \* bound on how often calloc() returns NULL

Clone == 1 .. MaxClones
Index == UNION {0 .. Len(Parts[s]) : s \in Setup}

Main == <<"main", 0, 1>>
Registered(p) == {"stream"} \X {p} \X Clone
Held(c) == {c} \X Index \X Clone
Slot == {Main} \union ({"stream"} \X Path \X Clone) \union (Obj \X Index \X Clone)

ASSUME SetupAssumption ==
  /\ PathOf \in [Setup -> Path] /\ Parts \in [Setup -> Seq(Setup)]
  /\ Clones \in [Setup -> Clone] /\ Target \in [Setup -> Path \union {NoPath}]
  /\ Pre \subseteq Setup /\ Careless \subseteq Setup
  /\ Root \in Setup /\ Rtv \in Setup /\ Clones[Root] = 1
ASSUME NoneAssumption == None \notin Obj \union Setup /\ NoPath \notin Path
ASSUME RtvAssumption ==
  /\ \A s \in Setup : \A i \in DOMAIN Parts[s] : Parts[s][i] # Rtv
  /\ Rtv \in Careless \ Pre /\ Len(Parts[Rtv]) > 1 /\ Target[Rtv] = NoPath
  /\ \A i \in DOMAIN Parts[Rtv] : Clones[Parts[Rtv][i]] = 1
ASSUME HolderAssumption == Obj \intersect {"main", "stream"} = {}
ASSUME BoundAssumption == MaxClones \in Nat \ {0} /\ MaxFails \in Nat
ASSUME FiniteAssumption == IsFiniteSet(Obj) /\ IsFiniteSet(Setup) /\ IsFiniteSet(Path)

VARIABLES
  ptr,       \* what each slot points to
  refcount,
  setup,     \* the setup of each context, None when it is not allocated
  pre,       \* stream->pre_module_contexts
  stack,     \* the calls of til_module_create_contexts(), the innermost first
  failing,   \* is the innermost to return an error?
  todo,      \* the slots to call til_module_context_free() on
  gc,        \* is til_stream_gc_module_contexts() running?
  on,        \* the part that is rtv's current channel
  switching, \* is rtv in setup_next_channel()?
  snow,      \* does rtv have a snow module?
  retains,   \* may a channel outlive its turn, its context_duration not over?
  phase,     \* where main() is
  fails      \* how often calloc() returned NULL

heapVars == <<ptr, refcount, setup, pre, todo>>
callVars == <<stack, failing>>
rtvVars == <<on, switching, snow, retains>>
vars == <<heapVars, callVars, gc, rtvVars, phase, fails>>

Live == {c \in Obj : setup[c] # None}

\* A call of til_module_create_contexts(): its setup, whose slots it fills, how
\* many contexts it made, and the parts the last still has to make.
Call(s, holder, index) ==
  [setup |-> s, holder |-> holder, index |-> index, made |-> 0, parts |-> {},
   registered |-> 0, reuse |-> FALSE]
CallType ==
  [setup : Setup, holder : Obj \union {"main"}, index : Index, made : 0 .. MaxClones,
   parts : SUBSET Index, registered : 0 .. MaxClones, reuse : BOOLEAN]

top == Head(stack)
Into(call, n) == <<call.holder, call.index, n>>
Latest == ptr[Into(top, top.made)]

-----------------------------------------------------------------------------
Init ==
  /\ ptr = [s \in Slot |-> None]
  /\ refcount = [c \in Obj |-> 0]
  /\ setup = [c \in Obj |-> None]
  /\ pre = {}
  /\ stack = <<>>
  /\ failing = FALSE
  /\ todo = {}
  /\ gc = FALSE
  /\ on = 0
  /\ switching = FALSE
  /\ snow \in BOOLEAN
  /\ retains \in BOOLEAN
  /\ phase = "start"
  /\ fails = 0

Start ==
  /\ phase = "start"
  /\ phase' = "run"
  /\ stack' = <<Call(Root, "main", 0)>>
  /\ UNCHANGED <<heapVars, failing, gc, rtvVars, fails>>

-----------------------------------------------------------------------------
(* Creation.  The definitions named Bug... are plausible mistakes in the one  *)
(* they precede: each breaks a property below.                                *)

Creating == stack # <<>> /\ ~failing /\ todo = {}

\* What rtv has on after the channel i: its snow between any two channels.
After(i) == IF snow /\ i # 1 THEN {1} ELSE DOMAIN Parts[Rtv] \ {1}

\* Before its first channel rtv makes its snow, which will be that channel.
PartsOf(s) ==
  IF s # Rtv THEN DOMAIN Parts[s] ELSE IF snow THEN {1} ELSE {}

\* "pre" lists its context last of all, which takes an allocation.
Listed == top.made > 0 /\ top.setup \in Pre => Latest \in pre

\* til_module_context_new(), called by create_context().
New(c) ==
  /\ Creating
  /\ top.parts = {} /\ Listed /\ top.made < Clones[top.setup]
  /\ setup[c] = None
  /\ setup' = [setup EXCEPT ![c] = top.setup]
  /\ ptr' = [s \in Slot |-> IF s \in Held(c) THEN None
                            ELSE IF s = Into(top, top.made + 1) THEN c
                            ELSE ptr[s]]
  /\ refcount' = [refcount EXCEPT ![c] = 1]
  /\ stack' = [stack EXCEPT ![1].made = @ + 1, ![1].parts = PartsOf(top.setup)]
  /\ IF top.setup = Rtv THEN on' \in After(on) /\ switching' = TRUE
                        ELSE UNCHANGED <<on, switching>>
  /\ UNCHANGED <<pre, todo, failing, gc, snow, retains, phase, fails>>

\* create_context() creates the contexts of the nested setups, in their order.
MakePart ==
  /\ Creating
  /\ \E i \in top.parts :
       /\ \A j \in top.parts : i <= j
       /\ stack' = <<Call(Parts[top.setup][i], Latest, i)>>
                     \o [stack EXCEPT ![1].parts = @ \ {i}]
  /\ UNCHANGED <<heapVars, failing, gc, rtvVars, phase, fails>>

AddPre ==
  /\ Creating
  /\ top.parts = {} /\ ~Listed
  /\ pre' = pre \union {Latest}
  /\ UNCHANGED <<ptr, refcount, setup, todo, callVars, gc, rtvVars, phase, fails>>

\* All are made: til_stream_register_module_contexts() frees what is at the path.
MadeAll ==
  /\ Creating
  /\ top.parts = {} /\ Listed /\ top.made = Clones[top.setup]
  /\ top.setup = Rtv => ~switching
Occupied(p) == {s \in Registered(p) : ptr[s] # None}

Displace ==
  /\ MadeAll
  /\ top.registered = 0
  /\ Occupied(PathOf[top.setup]) # {}
  /\ todo' = Occupied(PathOf[top.setup])
  /\ stack' = [stack EXCEPT ![1].reuse =
                 Cardinality(Occupied(PathOf[top.setup])) >= top.made]
  /\ UNCHANGED <<ptr, refcount, setup, pre, failing, gc, rtvVars, phase, fails>>

BugReferenced(c) == refcount
Referenced(c) == [refcount EXCEPT ![c] = @ + 1]

\* It references each context that was made; then the call returns.
Register ==
  /\ MadeAll
  /\ top.registered = 0 => Occupied(PathOf[top.setup]) = {}
  /\ LET n == top.registered + 1
         c == ptr[Into(top, n)]
     IN /\ ptr' = [ptr EXCEPT ![<<"stream", PathOf[top.setup], n>>] = c]
        /\ refcount' = Referenced(c)
        /\ stack' = IF n = top.made THEN Tail(stack)
                                    ELSE [stack EXCEPT ![1].registered = n]
  /\ UNCHANGED <<setup, pre, todo, failing, gc, rtvVars, phase, fails>>

\* An allocation fails: of a context, of a pre's list entry, or of a stream's
\* entry that could not reuse the one it displaced.
Allocates ==
  \/ top.parts = {} /\ (~Listed \/ top.made < Clones[top.setup])
  \/ MadeAll /\ top.registered = 0 /\ ~top.reuse
       /\ Occupied(PathOf[top.setup]) = {}

Fail ==
  /\ Creating
  /\ fails < MaxFails
  /\ Allocates
  /\ fails' = fails + 1
  /\ failing' = TRUE
  /\ UNCHANGED <<heapVars, stack, gc, rtvVars, phase>>

\* What was made is freed, and the caller frees its context and returns an
\* error too: up to main(), which exits, or to a caller that does not care.
Unwind ==
  /\ failing /\ todo = {}
  /\ todo' = {Into(top, n) : n \in 1 .. top.made}
  /\ stack' = Tail(stack)
  /\ failing' = (Tail(stack) # <<>> /\ Head(Tail(stack)).setup \notin Careless)
  /\ phase' = IF top.holder = "main" THEN "exited" ELSE phase
  /\ UNCHANGED <<ptr, refcount, setup, pre, gc, rtvVars, fails>>

-----------------------------------------------------------------------------
(* til_module_context_free(): the count goes down, and at zero the context is *)
(* destroyed, with all it holds.                                              *)

Unref(s) ==
  /\ s \in todo
  /\ refcount[ptr[s]] > 1
  /\ refcount' = [refcount EXCEPT ![ptr[s]] = @ - 1]
  /\ ptr' = [ptr EXCEPT ![s] = None]
  /\ todo' = todo \ {s}
  /\ UNCHANGED <<setup, pre, callVars, gc, rtvVars, phase, fails>>

BugDelisted(c) == pre
Delisted(c) == IF setup[c] \in Pre THEN pre \ {c} ELSE pre

\* The slots its destroy_context() frees: rtv's only that of the channel on.
BugDestroys(c) == {s \in Held(c) : ptr[s] # None /\ s[2] # 0}
Destroys(c) == {s \in Held(c) : ptr[s] # None /\ (setup[c] = Rtv => s[2] = on)}

Destroy(s) ==
  /\ s \in todo
  /\ refcount[ptr[s]] = 1
  /\ refcount' = [refcount EXCEPT ![ptr[s]] = 0]
  /\ setup' = [setup EXCEPT ![ptr[s]] = None]
  /\ pre' = Delisted(ptr[s])
  /\ ptr' = [ptr EXCEPT ![s] = None]
  /\ todo' = (todo \ {s}) \union Destroys(ptr[s])
  /\ UNCHANGED <<callVars, gc, rtvVars, phase, fails>>

\* til_stream_gc_module_contexts() frees the sets that only the stream refers
\* to, again and again until there is none.
BugUnused(p) == \E s \in Occupied(p) : refcount[ptr[s]] = 1
Unused(p) == \A s \in Occupied(p) : refcount[ptr[s]] = 1
Collectable == {p \in Path : Occupied(p) # {} /\ Unused(p)}

Gc(p) ==
  /\ gc /\ todo = {}
  /\ p \in Collectable
  /\ todo' = Occupied(p)
  /\ UNCHANGED <<ptr, refcount, setup, pre, callVars, gc, rtvVars, phase, fails>>

GcDone ==
  /\ gc /\ todo = {}
  /\ Collectable = {}
  /\ gc' = FALSE
  /\ UNCHANGED <<heapVars, callVars, rtvVars, phase, fails>>

-----------------------------------------------------------------------------
(* Rendering *)

Idle ==
  /\ phase = "run"
  /\ stack = <<>> /\ todo = {} /\ ~gc /\ ~switching

\* What rendering these contexts reaches: what they hold, and what those hold,
\* of rtv only the channel that is on.
Reached(roots) ==
  LET held(c) == {ptr[s] : s \in Destroys(c) \ todo}
      after[n \in Nat] ==
        IF n = 0 THEN roots
        ELSE LET R == after[n - 1] IN R \union UNION {held(c) : c \in R}
  IN after[Cardinality(Obj)]

ByMain == Reached({ptr[Main]} \intersect Live)

\* _ref_render_proxy() finds the context when it is first rendered.
RefFind(c) ==
  /\ Idle
  /\ c \in Live /\ Target[setup[c]] # NoPath
  /\ ptr[<<c, 0, 1>>] = None
  /\ c \in ByMain \union Reached(pre)
  /\ LET found == ptr[<<"stream", Target[setup[c]], 1>>] IN
       /\ found # None
       /\ ptr' = [ptr EXCEPT ![<<c, 0, 1>>] = found]
       /\ refcount' = Referenced(found)
  /\ UNCHANGED <<setup, pre, todo, callVars, gc, rtvVars, phase, fails>>

rtv == ptr[Main]
Channel == <<rtv, on, 1>>

\* setup_next_channel(): the channel that was on is freed and collected, unless
\* its context lasts longer, and the next is on.
Switch ==
  /\ Idle
  /\ setup[rtv] = Rtv /\ ptr[Channel] # None
  /\ gc' \in IF retains THEN BOOLEAN ELSE {TRUE}
  /\ todo' = IF gc' THEN {Channel} ELSE {}
  /\ on' \in After(on)
  /\ switching' = TRUE
  /\ UNCHANGED <<ptr, refcount, setup, pre, callVars, snow, retains, phase, fails>>

\* Then its context is created, unless it lasted since it was on before.  rtv
\* ignores an error, and renders NULL.
Tune ==
  /\ switching
  /\ ~gc /\ todo = {}
  /\ stack # <<>> => Creating /\ top.setup = Rtv /\ top.parts = {}
  /\ switching' = FALSE
  /\ LET c == IF stack = <<>> THEN rtv ELSE Latest IN
       stack' = IF ptr[<<c, on, 1>>] = None
                THEN <<Call(Parts[Rtv][on], c, on)>> \o stack
                ELSE stack
  /\ UNCHANGED <<heapVars, failing, gc, on, snow, retains, phase, fails>>

Crash ==
  /\ Idle
  /\ setup[rtv] = Rtv /\ ptr[Channel] = None
  /\ phase' = "crashed"
  /\ UNCHANGED <<heapVars, callVars, gc, rtvVars, fails>>

\* main() joined the renderer: it frees its context, and then the stream.
Quit ==
  /\ Idle
  /\ phase' = "quit"
  /\ todo' = {Main}
  /\ UNCHANGED <<ptr, refcount, setup, pre, callVars, gc, rtvVars, fails>>

FreeStream ==
  /\ phase = "quit" /\ todo = {}
  /\ phase' = "collect"
  /\ gc' = TRUE
  /\ UNCHANGED <<heapVars, callVars, rtvVars, fails>>

FreedStream ==
  /\ phase = "collect" /\ ~gc
  /\ phase' = "done"
  /\ UNCHANGED <<heapVars, callVars, gc, rtvVars, fails>>

Stopped ==
  /\ phase \in {"done", "crashed"} \/ (phase = "exited" /\ todo = {})
  /\ UNCHANGED vars

Next ==
  \/ Start \/ MakePart \/ AddPre \/ Displace \/ Register \/ Fail \/ Unwind
  \/ \E c \in Obj : New(c) \/ RefFind(c)
  \/ \E s \in todo : Unref(s) \/ Destroy(s)
  \/ \E p \in Path : Gc(p)
  \/ GcDone \/ Switch \/ Tune \/ Crash \/ Quit \/ FreeStream \/ FreedStream
  \/ Stopped

Spec == Init /\ [][Next]_vars

-----------------------------------------------------------------------------
\* Every variable has its type.
TypeOK ==
  /\ ptr \in [Slot -> Obj \union {None}]
  /\ refcount \in [Obj -> Nat]
  /\ setup \in [Obj -> Setup \union {None}]
  /\ pre \subseteq Obj
  /\ stack \in Seq(CallType)
  /\ failing \in BOOLEAN
  /\ todo \subseteq Slot
  /\ gc \in BOOLEAN
  /\ on \in 0 .. Len(Parts[Rtv])
  /\ switching \in BOOLEAN
  /\ snow \in BOOLEAN /\ retains \in BOOLEAN
  /\ phase \in {"start", "run", "exited", "crashed", "quit", "collect", "done"}
  /\ fails \in 0 .. MaxFails

Pointing(c) == {s \in Slot : ptr[s] = c}

\* A context has at least the references that point to it, so that none of them
\* is left dangling: not main()'s, the stream's, those of the contexts that
\* render it, nor those of refs that found it at its path, however contexts
\* are replaced there, collected, or freed by a creation that failed.
NoDangling == \A c \in Obj : Cardinality(Pointing(c)) <= refcount[c]

\* The contexts the stream renders before main()'s, which it does not count a
\* reference to, are contexts of pre that have not been freed.
PreListed == \A c \in pre : setup[c] \in Pre

\* Collecting the contexts only the stream refers to leaves those that main()'s
\* context renders, as it does while rtv collects, where refs will look for them.
GcSpares ==
  [][gc => \A p \in Path : \A s \in Occupied(p) :
             ptr[s] \in ByMain => ptr'[s] = ptr[s]]_vars

\* No context renders itself: the paths can be given depths, so that what a
\* context renders, as a part or as what a ref finds, is deeper than itself.
Layered ==
  \E depth \in [Path -> 0 .. Cardinality(Path)] : \A s \in Setup :
    /\ \A i \in DOMAIN Parts[s] : depth[PathOf[s]] < depth[PathOf[Parts[s][i]]]
    /\ Target[s] # NoPath => depth[PathOf[s]] < depth[Target[s]]

\* Unless rtv had channels outlive their turns, everything created has been
\* freed when main() has freed its context and the stream.
NoLeak == phase = "done" /\ ~retains => Live = {}

\* "leaked = til_stream_gc_module_contexts(stream); assert(!leaked);"
LeakAsserted == phase = "done" => \A p \in Path : Occupied(p) = {}
=============================================================================
