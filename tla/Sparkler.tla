------------------------------ MODULE Sparkler ------------------------------
(***************************************************************************)
(* The particle system of src/modules/sparkler: a hierarchy of particles   *)
(* of five kinds that spawn each other, allocated by a chunker and indexed *)
(* by an octree that bursts look for their victims in.                     *)
(*                                                                         *)
(* A particle is its address.  Particles are simulated one step each, for  *)
(* the walk over the lists goes on while they spawn, die and hand their    *)
(* children over; the other passes over them are a step each.  Speeds,     *)
(* colours and lifetimes are abstracted: a particle may die of age in any  *)
(* frame, and those that move in a frame move alike.                       *)
(***************************************************************************)
EXTENDS Bsp

CONSTANTS
    MaxParticles,       \* a bound: what more would be spawned is not
    MaxFrames,          \* a bound: the frames of a context
    ChunkSize,          \* of the particles' chunks
    ROCKETS_MAX,
    INIT_PARTS, FRAME_PARTS,    \* added to a new context, and in each frame
    SIMPLE_MIN_SPAWN, SIMPLE_MAX_SPAWN,
    Sparks, Xplodes,    \* numbers of what rockets spawn while they fly, and at last
    Velocities,         \* how far a particle moves in a frame
    Screen,             \* the positions whose projection falls into the frame
    Duration, Shell     \* of a burst: its steps, and how far its spheres are apart

ASSUME SparklerAssumption ==
    /\ MaxParticles \in Nat \ {0} /\ MaxFrames \in Nat /\ ChunkSize \in Nat \ {0, 1}
    /\ INIT_PARTS \in Nat /\ FRAME_PARTS \in Nat /\ Sparks \subseteq Nat /\ Xplodes \subseteq Nat
    /\ SIMPLE_MIN_SPAWN \in Nat /\ SIMPLE_MAX_SPAWN \in Nat
    /\ ROCKETS_MAX \in Nat /\ Velocities \subseteq Int /\ Screen \subseteq [Dims -> Int] /\ Duration \in Nat \ {0} /\ Shell \in Nat \ {0}

VARIABLES
    w,              \* the particles: a record of what particles_t reaches
    rockets_cnt,    \* static in rocket.c
    walk,           \* the walk of particles_sim(), innermost list last
    phase,          \* none (no context), frame (between frames) or sim
    frames          \* rendered so far

vars == <<w, rockets_cnt, walk, phase, frames>>

Chunks == 1 .. MaxParticles + 1
Ids == Chunks \X (0 .. ChunkSize - 1)
End == <<"end">>        \* where a list ends
Kinds == {"simple", "rocket", "spark", "xplode", "burst"}
context_size(ops) == IF ops = "rocket" THEN 2 ELSE 1
Alive(x) == {p \in Ids : x.ops[p] # "none"}
size(p) == context_size(w.ops[p])

----------------------------------------------------------------------------
(* lists *)

(* a list is a particle's, or that of the top level *)
Owners(x) == Alive(x) \cup {End}
ListOf(x, o) == IF o = End THEN x.active ELSE x.children[o]

(* the successor in whatever list an entry is in *)
NextOf(x, p) ==
    LET owner == CHOOSE o \in Owners(x) : p \in ToSet(ListOf(x, o))
        list == ListOf(x, owner)
        i == CHOOSE j \in 1 .. Len(list) : list[j] = p
    IN  IF i = Len(list) THEN End ELSE list[i + 1]

Unlinked(list, p) ==
    IF p \in ToSet(list) THEN RemoveAt(list, CHOOSE j \in 1 .. Len(list) : list[j] = p) ELSE list

(* an iteration that is safe against the removal of its entry has read the
   next one *)
Enter(x, p) == [p |-> p, next |-> NextOf(x, p)]

----------------------------------------------------------------------------
(* particles come and go *)

Center0 == [d \in Dims |-> Side \div 2]

particles_new ==
    [chunker |-> chunker_new(Chunks),
     bsp |-> bsp_new(Ids),
     active |-> <<>>,
     children |-> [p \in Ids |-> <<>>],
     ops |-> [p \in Ids |-> "none"],
     position |-> [p \in Ids |-> Center0],
     expired |-> [p \in Ids |-> FALSE],     \* longevity is 0: it left the frame
     thrust |-> [p \in Ids |-> FALSE],      \* accelerated by a burst since it was simulated
     age |-> [p \in Ids |-> 0],             \* steps of a burst
     moved |-> [p \in Ids |-> FALSE],       \* since it was added to the octree
     rockets |-> 0]                         \* rockets_cnt, while a step counts

(* a rocket too many fails to initialise *)
particle_init(x, ops) == ops # "rocket" \/ x.rockets < ROCKETS_MAX

Placed(x, a, parent, ops, position) ==
    LET p == a.mem
        positions == [x.position EXCEPT ![p] = position]
        b == bsp_add_occupant(x.bsp, p, positions)
    IN  IF ~particle_init(x, ops) THEN [x EXCEPT !.chunker = chunker_free(a.chunker, p)]
        ELSE IF Cardinality(Alive(x)) = MaxParticles THEN x
        ELSE [x EXCEPT !.chunker = a.chunker, !.bsp = b, !.position = positions,
                !.moved[p] = FALSE,
                !.ops[p] = ops, !.expired[p] = FALSE, !.thrust[p] = FALSE, !.age[p] = 0,
                !.rockets = IF ops = "rocket" THEN @ + 1 ELSE @,
                !.active = IF parent = End THEN <<p>> \o @ ELSE @,
                !.children = [q \in Ids |-> IF q = p THEN <<>>
                                            ELSE IF q = parent THEN <<p>> \o x.children[q]
                                            ELSE x.children[q]]]

_particles_add_particle(x, parent, ops, position) ==
    Placed(x, chunker_alloc(x.chunker, context_size(ops), ChunkSize), parent, ops, position)

(* several, one after the other *)
Added(x, parent, kinds, position) ==
    LET added[i \in 0 .. Len(kinds)] ==
            IF i = 0 THEN x ELSE _particles_add_particle(added[i - 1], parent, kinds[i], position)
    IN  added[Len(kinds)]

Several(n, ops) == [i \in 1 .. n |-> ops]
particles_add_particles(x, n) == Added(x, End, Several(n, "simple"), Center0)
particles_spawn_particle(x, parent, kinds) == Added(x, parent, kinds, x.position[parent])

(* children outlive their parent: they become particles of the top level *)
BugReap(x, p) ==
    [x EXCEPT !.active = Unlinked(@, p),
        !.children = [q \in Ids |-> IF q = p THEN <<>> ELSE Unlinked(x.children[q], p)],
        !.bsp = bsp_delete_occupant(@, p),
        !.chunker = chunker_free(@, p), !.ops[p] = "none",
        !.position[p] = Center0, !.expired[p] = FALSE, !.thrust[p] = FALSE, !.age[p] = 0, !.moved[p] = FALSE,
        !.rockets = IF x.ops[p] = "rocket" THEN @ - 1 ELSE @]
particles_reap_particle(x, p) ==
    [x EXCEPT !.active = x.children[p] \o Unlinked(@, p),
        !.children = [q \in Ids |-> IF q = p THEN <<>> ELSE Unlinked(x.children[q], p)],
        !.bsp = bsp_delete_occupant(@, p),
        !.chunker = chunker_free(@, p), !.ops[p] = "none",
        !.position[p] = Center0, !.expired[p] = FALSE, !.thrust[p] = FALSE, !.age[p] = 0, !.moved[p] = FALSE,
        !.rockets = IF x.ops[p] = "rocket" THEN @ - 1 ELSE @]

(* every particle that is listed, or a child of one, is cleaned up, and counts
   no more *)
Closed(x, S) == \A p \in S : ToSet(x.children[p]) \subseteq S
Listed(x, list) ==
    {p \in Ids : \A S \in SUBSET Alive(x) : ToSet(list) \subseteq S /\ Closed(x, S) => p \in S}
particles_free == rockets_cnt - Cardinality({p \in Listed(w, w.active) : w.ops[p] = "rocket"})

----------------------------------------------------------------------------
(* what kinds do when they are simulated: what they spawn, and whether they
   live on *)

Lives(spawned) == [dead |-> FALSE, spawned |-> spawned]
Dies(spawned) == [dead |-> TRUE, spawned |-> spawned]

simple_sim(p) == IF w.expired[p] THEN {Dies(<<>>)}
    ELSE {Dies(<<>>), Lives(<<>>)} \cup
         {Lives([i \in 1 .. n |-> IF i = SIMPLE_MAX_SPAWN - 1 THEN "rocket" ELSE "simple"]) :
            n \in SIMPLE_MIN_SPAWN .. SIMPLE_MAX_SPAWN}

(* a rocket bursts and explodes when it is done, or was pushed *)
rocket_sim(p) ==
    LET explodes == {Dies(<<"burst">> \o Several(n, "xplode")) : n \in Xplodes}
    IN  IF w.expired[p] \/ w.thrust[p] THEN explodes
        ELSE explodes \cup {Lives(Several(n, "spark")) : n \in Sparks}

spark_sim(p) == IF w.expired[p] THEN {Dies(<<>>)} ELSE {Dies(<<>>), Lives(<<>>)}

xplode_sim(p) == IF w.expired[p] THEN {Dies(<<>>)}
    ELSE {Dies(<<>>), Lives(<<>>), Lives(<<"xplode">>)}

burst_sim(p) == IF w.age[p] = Duration THEN {Dies(<<>>)} ELSE {Lives(<<>>)}

sim(p) == CASE w.ops[p] = "simple" -> simple_sim(p)
            [] w.ops[p] = "rocket" -> rocket_sim(p)
            [] w.ops[p] = "spark" -> spark_sim(p)
            [] w.ops[p] = "xplode" -> xplode_sim(p)
            [] w.ops[p] = "burst" -> burst_sim(p)

(* a burst pushes who is between its spheres, if the octree finds them there *)
InShell(x, center, radius, p) ==
    LET d2 == SumFunction([d \in Dims |-> Squared(x.position[p][d] - center[d])]) IN
    x.ops[p] \notin {"none", "burst"} /\ d2 > Squared(radius) /\ d2 < Squared(radius + Shell)
burst_cb(x, p) ==
    LET radius == x.age[p] + 1
        found == bsp_search_sphere(x.bsp, x.position[p], radius, radius + Shell)
    IN  [x EXCEPT !.age[p] = @ + 1,
            !.thrust = [q \in Ids |-> x.thrust[q] \/
                (/\ \E l \in found.leaves : q \in x.bsp.occupants[l]
                 /\ InShell(x, x.position[p], radius, q))]]

(* a particle's own step *)
Outcome(x, p, dead) ==
    IF dead THEN particles_reap_particle(x, p)
    ELSE IF x.ops[p] = "burst" THEN burst_cb(x, p)
    ELSE [x EXCEPT !.thrust[p] = FALSE]
Simulated(x, p, s) == Outcome(particles_spawn_particle(x, p, s.spawned), p, s.dead)

----------------------------------------------------------------------------
(* a frame *)

Init ==
    /\ w = particles_new
    /\ rockets_cnt = 0 /\ walk = <<>> /\ phase = "none" /\ frames = 0

sparkler_create_context ==
    /\ phase = "none"
    /\ w' = particles_add_particles([particles_new EXCEPT !.rockets = rockets_cnt], INIT_PARTS)
    /\ phase' = "frame" /\ frames' = 0
    /\ UNCHANGED <<rockets_cnt, walk>>

sparkler_destroy_context ==
    /\ phase = "frame"
    /\ w' = particles_new
    /\ rockets_cnt' = particles_free
    /\ phase' = "none"
    /\ UNCHANGED <<walk, frames>>

(* on to the next entry, in the innermost list that has one *)
Advance(x, k) ==
    LET more == {i \in 1 .. Len(k) : k[i].next # End}
        i == CHOOSE j \in more : \A l \in more : l <= j
    IN  IF more = {} THEN <<>> ELSE Append(SubSeq(k, 1, i - 1), Enter(x, k[i].next))

particles_sim ==
    /\ phase = "frame" /\ frames < MaxFrames
    /\ walk' = IF w.active = <<>> THEN <<>> ELSE <<Enter(w, w.active[1])>>
    /\ phase' = "sim"
    /\ UNCHANGED <<w, rockets_cnt, frames>>

(* the children of a particle that lives are simulated before its siblings,
   those it has just spawned among them *)
_particles_sim ==
    /\ phase = "sim" /\ walk # <<>>
    /\ LET p == Last(walk).p IN
       \E s \in sim(p) :
          /\ w' = Simulated(w, p, s)
          /\ walk' = IF ~s.dead /\ w'.children[p] # <<>>
                     THEN Append(walk, Enter(w', w'.children[p][1]))
                     ELSE Advance(w', walk)
    /\ rockets_cnt' = w'.rockets
    /\ UNCHANGED <<phase, frames>>

(* bsp_move_occupant() is given the position that the occupant points to
   already: it finds it unchanged, and the octree does as well *)
bsp_move_occupant(bsp) == bsp

Steps == [Dims -> Velocities]
Virtual(x) == {p \in Ids : x.ops[p] = "burst"}
particles_age(x, movers, step) ==
    [x EXCEPT
        !.bsp = bsp_move_occupant(@),
        !.moved = [p \in Ids |-> @[p] \/ p \in movers],
        !.position = [p \in Ids |-> IF p \in movers
                                    THEN [d \in Dims |-> @[p][d] + step[d]] ELSE @[p]]]

(* who is drawn outside of the frame is to die; a burst is not drawn.  The
   frame is no part of the cube nor the cube of the frame: what is far away is
   seen beyond the cube's sides, what is near is not seen within them. *)
offscreen(position) == position \notin Screen
particles_draw(x) ==
    [x EXCEPT !.expired = [p \in Ids |->
        @[p] \/ (x.ops[p] \notin {"none", "burst"} /\ offscreen(x.position[p]))]]

(* all that are not virtual move, and are drawn *)
AgedAndDrawn(x) ==
    \E movers \in SUBSET (Alive(x) \ Virtual(x)), step \in Steps :
       w' = particles_draw(particles_age(x, movers, step))

sparkler_render ==
    /\ phase = "sim" /\ walk = <<>>
    /\ AgedAndDrawn(particles_add_particles(w, FRAME_PARTS))
    /\ phase' = "frame" /\ frames' = frames + 1
    /\ UNCHANGED <<rockets_cnt, walk>>

Next ==
    \/ sparkler_create_context \/ sparkler_destroy_context
    \/ particles_sim \/ _particles_sim \/ sparkler_render

SparklerSpec == Init /\ [][Next]_vars

----------------------------------------------------------------------------
Live == Alive(w)

TypeOK ==
    /\ w.ops \in [Ids -> Kinds \cup {"none"}]
    /\ rockets_cnt \in 0 .. ROCKETS_MAX
    /\ phase \in {"none", "frame", "sim"}
    /\ \A i \in 1 .. Len(walk) : walk[i].p \in Ids /\ walk[i].next \in Ids \cup {End}

(* No chunk is reused while something of it lives, be it a particle or a
   cluster of the octree's nodes, and no two of them overlap: chunks are
   freed by their count of references alone (chunker.c). *)
ChunksPinned ==
    /\ Holds(w.chunker, Live, size)
    /\ LET Inner == {n \in Paths : w.bsp.octrants[n] # Leaf} IN
          /\ Holds(w.bsp.chunker, {w.bsp.octrants[n] : n \in Inner}, LAMBDA m : 1)
          /\ \A m, n \in Inner : m # n => w.bsp.octrants[m] # w.bsp.octrants[n]

(* Every particle is in the one list of whoever spawned it, or of the top
   level; nothing that is listed or that a walk will come to has been freed;
   and rockets are counted, so that the cap is not used up by the dead. *)
TreeWhole ==
    /\ Listed(w, w.active) = Live
    /\ \A o \in Owners(w) : IsInjective(ListOf(w, o))
    /\ \A o, q \in Owners(w) : o # q => ToSet(ListOf(w, o)) \cap ToSet(ListOf(w, q)) = {}
    /\ \A i \in 1 .. Len(walk) : walk[i].p \in Live /\ walk[i].next \in Live \cup {End}
    /\ rockets_cnt = Cardinality({p \in Live : w.ops[p] = "rocket"})

(* Every particle is an occupant of the leaf it points to, which is in the
   tree, as is the cached node; and one that did not move since is in the
   volume of its leaf, even if its position was on a border - if it was added
   in the octree's cube: what is added outside is put into some leaf. *)
InCube(position) == \A d \in Dims : position[d] \in 0 .. Side
InTree(n) == n \in Paths /\ (n = <<>> \/ w.bsp.octrants[Front(n)] # Leaf)
LeavesLive ==
    /\ InTree(w.bsp.cache)
    /\ \A p \in Live :
          LET l == w.bsp.leaf[p] IN
          /\ InTree(l) /\ w.bsp.octrants[l] = Leaf
          /\ {n \in Paths : p \in w.bsp.occupants[n]} = {l}
          /\ ~w.moved[p] /\ InCube(w.position[p]) => Within(l, w.position[p])
    /\ \A n \in Paths : w.bsp.occupants[n] \subseteq Live

(* A burst's shock wave is felt by all between its spheres that are in the
   octree's cube and have not moved since they were added: the search's short
   cuts miss none.  Who is outside of the cube may be missed. *)
ShockFelt ==
    [][\A p \in Live : w'.age[p] = w.age[p] + 1 =>
          \A q \in Live :
             ~w.moved[q] /\ InCube(w.position[q]) /\ InShell(w, w.position[p], w'.age[p], q)
             => w'.thrust[q]]_vars
=============================================================================
