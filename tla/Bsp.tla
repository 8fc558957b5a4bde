-------------------------------- MODULE Bsp --------------------------------
(***************************************************************************)
(* The octree of src/modules/sparkler/bsp.c that sparkler's particles are  *)
(* found by.  A node is the path of octrants that leads to it; Dims is the *)
(* set of dimensions, three in the code.  Space is a grid of integers, the *)
(* root's cube reaching from 0 to Side; a center that falls between two is *)
(* rounded, as one between two floats would be.                            *)
(*                                                                         *)
(* A tree is a record: octrants holds where a node's cluster of octrants   *)
(* is allocated (Leaf if it is none), occupants those of a leaf, leaf each *)
(* occupant's, and cache the node of the cached lookup.                    *)
(***************************************************************************)
EXTENDS Chunker, SequencesExt

CONSTANTS
    Dims,
    Side,
    BSP_MAX_OCCUPANTS, BSP_MAX_DEPTH,
    Clusters        \* clusters of octrants to a chunk of the tree's chunker

ASSUME BspAssumption ==
    /\ Dims # {} /\ IsFiniteSet(Dims) /\ Side \in Nat
    /\ BSP_MAX_OCCUPANTS \in Nat \ {0} /\ BSP_MAX_DEPTH \in Nat \ {0} /\ Clusters \in Nat \ {0}

Octrants == [Dims -> {0, 1}]        \* 0 is left, or below, or before
Paths == BoundedSeq(Octrants, BSP_MAX_DEPTH)
Leaf == <<0, 0>>                    \* no cluster of octrants
NoNode == <<"none">>

(* an octrant reaches from a corner of its node to the node's center *)
Middle(v, d) == (v.low[d] + v.high[d]) \div 2
Octrant(v, q) ==
    [low |-> [d \in Dims |-> IF q[d] = 0 THEN v.low[d] ELSE Middle(v, d)],
     high |-> [d \in Dims |-> IF q[d] = 0 THEN Middle(v, d) ELSE v.high[d]]]
Root == [low |-> [d \in Dims |-> 0], high |-> [d \in Dims |-> Side]]
Volume[path \in Paths] == IF path = <<>> THEN Root ELSE Octrant(Volume[Front(path)], Last(path))

Low(path, d) == Volume[path].low[d]
High(path, d) == Volume[path].high[d]
Center(path, d) == Middle(Volume[path], d)

bsp_new(occupants) ==
    [chunker |-> chunker_new(1 .. Cardinality(Paths)),
     octrants |-> [n \in Paths |-> Leaf],
     occupants |-> [n \in Paths |-> {}],
     leaf |-> [o \in occupants |-> NoNode],
     cache |-> <<>>]

----------------------------------------------------------------------------
(* lookups *)

(* a position on the partitioning plane is left of it *)
OctrantOf(path, position) == [d \in Dims |-> IF position[d] <= Center(path, d) THEN 0 ELSE 1]

Within(path, position) == \A d \in Dims : position[d] \in Low(path, d) .. High(path, d)

Descend(bsp, path, position) ==
    LET at[i \in 0 .. BSP_MAX_DEPTH] ==
            IF i = 0 THEN path
            ELSE LET n == at[i - 1] IN
                 IF bsp.octrants[n] = Leaf THEN n ELSE Append(n, OctrantOf(n, position))
    IN  at[BSP_MAX_DEPTH]

(* the cached node is where to start if the position falls in its volume: the
   borders count as of either side *)
bsp_lookup_position(bsp, position) ==
    Descend(bsp, IF Within(bsp.cache, position) THEN bsp.cache ELSE <<>>, position)

----------------------------------------------------------------------------
(* occupants come and go *)

(* a full leaf becomes eight, and its occupants find their place again, by
   where they are now *)
Subdivide(bsp, path, positions) ==
    LET a == chunker_alloc(bsp.chunker, 1, Clusters)
        Place(o) == Append(path, OctrantOf(path, positions[o]))
    IN  [bsp EXCEPT !.chunker = a.chunker, !.octrants[path] = a.mem,
            !.occupants = [n \in Paths |->
                IF n = path THEN {}
                ELSE bsp.occupants[n] \cup {o \in bsp.occupants[path] : Place(o) = n}],
            !.leaf = [o \in DOMAIN @ |-> IF o \in bsp.occupants[path] THEN Place(o) ELSE @[o]]]

(* the cache stays at the leaf that was looked up, its octrants notwithstanding *)
bsp_add_occupant(bsp, o, positions) ==
    LET found == bsp_lookup_position(bsp, positions[o])
        full == Cardinality(bsp.occupants[found]) >= BSP_MAX_OCCUPANTS /\ Len(found) < BSP_MAX_DEPTH
        b == IF full THEN Subdivide(bsp, found, positions) ELSE bsp
        at == IF full THEN Append(found, OctrantOf(found, positions[o])) ELSE found
    IN  [b EXCEPT !.leaf[o] = at, !.occupants[at] = @ \cup {o}, !.cache = found]

(* eight empty leaves become one again, and so may their parent's: the cache
   could be any of them *)
BugInvalidate(bsp) == bsp
bsp_invalidate_lookup_cache(bsp) == [bsp EXCEPT !.cache = <<>>]

Merged(bsp, n) ==
    IF \E q \in Octrants : LET c == Append(n, q) IN bsp.octrants[c] # Leaf \/ bsp.occupants[c] # {}
    THEN bsp
    ELSE bsp_invalidate_lookup_cache(
            [bsp EXCEPT !.chunker = chunker_free(@, bsp.octrants[n]), !.octrants[n] = Leaf])

(* up from a node to the root: one that stays keeps its parent from merging *)
Collapse(bsp, path) ==
    LET up[i \in 0 .. Len(path) + 1] ==
            IF i = 0 THEN bsp ELSE Merged(up[i - 1], SubSeq(path, 1, Len(path) + 1 - i))
    IN  up[Len(path) + 1]

bsp_delete_occupant(bsp, o) ==
    LET l == bsp.leaf[o]
        b == [bsp EXCEPT !.occupants[l] = @ \ {o}, !.leaf[o] = NoNode]
    IN  IF b.occupants[l] = {} /\ l # <<>> THEN Collapse(b, Front(l)) ELSE b

----------------------------------------------------------------------------
(* searching the space between two spheres *)

Squared(x) == x * x

(* how the volume of a node meets a sphere, by the squares of the distances
   of its faces: of "partly" and "none" the first is more than geometry says *)
aabb_overlaps_sphere(path, center, radius) ==
    LET a(d) == Squared(center[d] - Low(path, d))
        b(d) == Squared(center[d] - High(path, d))
        Inside(d) == center[d] \in Low(path, d) .. High(path, d)
        dmax == SumFunction([d \in Dims |-> IF a(d) > b(d) THEN a(d) ELSE b(d)])
        dmin == SumFunction([d \in Dims |->
                    IF Inside(d) THEN 0 ELSE IF a(d) < b(d) THEN a(d) ELSE b(d)])
    IN  IF dmax < Squared(radius) THEN "box in sphere"
        ELSE IF \A d \in Dims : Inside(d) /\ a(d) > Squared(radius) /\ b(d) > Squared(radius)
        THEN "sphere in box"
        ELSE IF dmin <= Squared(radius) THEN "partly" ELSE "none"

(* what a node is to the space between the spheres, that is how the outer and
   the inner one meet it *)
BugMeets(outer, inner) == IF outer = "box in sphere" /\ inner # "none" THEN "none" ELSE outer
Meets(outer, inner) ==
    IF outer # "box in sphere" THEN outer
    ELSE IF inner = "box in sphere" THEN "none"
    ELSE IF inner = "none" THEN "box in sphere" ELSE "partly"
Between(path, center, radius_min, radius_max) ==
    Meets(aabb_overlaps_sphere(path, center, radius_max),
          aabb_overlaps_sphere(path, center, radius_min))

(* Octrants in the order they are searched: the two that need no composing
   come first, and the search is over when a sphere lies within an octrant *)
SearchOrder ==
    LET Corners == <<[d \in Dims |-> 0], [d \in Dims |-> 1]>>
    IN  Corners \o SetToSeq(Octrants \ {Corners[1], Corners[2]})

(* the search of a node's octrants, search being what it finds in each node *)
search_octrants(search, path) ==
    LET child(i) == search[Append(path, SearchOrder[i])]
        over(i) == child(i).res = "sphere in box"
        searched == {i \in DOMAIN SearchOrder : \A j \in 1 .. i - 1 : ~over(j)}
    IN  [leaves |-> UNION {child(i).leaves : i \in searched},
         res |-> IF \E i \in searched : over(i) THEN "sphere in box" ELSE "partly"]

_bsp_search_sphere(search, bsp, path, res) ==
    IF res = "none" THEN [leaves |-> {}, res |-> res]
    ELSE IF bsp.octrants[path] = Leaf THEN [leaves |-> {path}, res |-> res]
    ELSE search_octrants(search, path)

bsp_search_sphere(bsp, center, radius_min, radius_max) ==
    LET search[path \in Paths] ==
            _bsp_search_sphere(search, bsp, path, Between(path, center, radius_min, radius_max))
    IN  search[<<>>]
=============================================================================
