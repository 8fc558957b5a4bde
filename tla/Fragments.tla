----------------------------- MODULE Fragments -----------------------------
(***************************************************************************)
(* How a frame is cut for the render threads: til's fragmenters (til.c)    *)
(* and the functions of til_fb.c they are made of.  A fragmenter is asked  *)
(* for one numbered fragment after another till there is none.             *)
(*                                                                         *)
(* A fragment is where it is in the frame, its size, and its pixels: from  *)
(* buf on, pitch apart from row to row and stride after the end of a row.  *)
(***************************************************************************)
EXTENDS Integers, FiniteSets

CONSTANTS
    TileSize,       \* 64, of til_fragmenter_tile64()
    PerCpu,         \* 16, of til_fragmenter_slice_per_cpu_x16()
    Sizes, Cpus     \* bounds: sizes of frames, and numbers of CPUs or of tiles, that are tried

ASSUME FragmentsAssumption ==
    /\ TileSize \in Nat \ {0} /\ PerCpu \in Nat \ {0}
    /\ Sizes \subseteq Nat \ {0} /\ Cpus \subseteq Nat \ {0}

None == [width |-> 0]       \* there is no such fragment

AtMost(a, b) == IF a < b THEN a ELSE b
AtLeast(a, b) == IF a > b THEN a ELSE b

til_fb_fragment_noop_single(fragment, n_fragments, number) ==
    IF number >= n_fragments THEN None ELSE fragment

til_fb_fragment_slice_single(fragment, n_fragments, number) ==
    LET slice == AtLeast(fragment.height \div n_fragments, 1)
        yoff == slice * number
    IN  IF yoff >= fragment.height THEN None
        ELSE [fragment EXCEPT !.buf = @ + yoff * fragment.pitch, !.y = @ + yoff,
                              !.height = AtMost(@ - yoff, slice)]

(* as many tiles as it takes, the last ones narrower *)
BugTiles(size, tile_size) == AtLeast(size \div tile_size, 1)
Tiles(size, tile_size) == size \div tile_size + (IF size % tile_size = 0 THEN 0 ELSE 1)

til_fb_fragment_tile_single(fragment, tile_size, number) ==
    LET w == Tiles(fragment.width, tile_size)
        h == Tiles(fragment.height, tile_size)
        xoff == (number % w) * tile_size
        yoff == (number \div w) * tile_size
        width == AtMost(fragment.width - xoff, tile_size)
    IN  IF number \div w >= h THEN None
        ELSE [fragment EXCEPT !.buf = @ + yoff * fragment.pitch + xoff,
                              !.x = @ + xoff, !.y = @ + yoff, !.width = width,
                              !.height = AtMost(@ - yoff, tile_size),
                              !.stride = @ + (fragment.width - width)]

til_fragmenter_noop_per_cpu(n_cpus, fragment, number) ==
    til_fb_fragment_noop_single(fragment, n_cpus, number)
til_fragmenter_slice_per_cpu(n_cpus, fragment, number) ==
    til_fb_fragment_slice_single(fragment, n_cpus, number)
til_fragmenter_slice_per_cpu_x16(n_cpus, fragment, number) ==
    til_fb_fragment_slice_single(fragment, n_cpus * PerCpu, number)
til_fragmenter_tile64(n_cpus, fragment, number) ==
    til_fb_fragment_tile_single(fragment, TileSize, number)

----------------------------------------------------------------------------
(* the fragmenters of modules that make a fragment a frame of its own *)

(* checkers shifts its tiles so that the borders clip those on both sides; x
   and y say where the tile's frame is clipped *)
checkers_fragment_tile_single(fragment, tile_size, number) ==
    LET numw == Tiles(fragment.width, tile_size)
        numh == Tiles(fragment.height, tile_size)
        xshift == (numw * tile_size - fragment.width) \div 2
        yshift == (numh * tile_size - fragment.height) \div 2
        x == number % numw
        y == number \div numw
        left == IF x = 0 THEN 0 ELSE x * tile_size - xshift
        top == IF y = 0 THEN 0 ELSE y * tile_size - yshift
        width == AtMost(fragment.width - left, IF x = 0 THEN tile_size - xshift ELSE tile_size)
    IN  IF y >= numh THEN None
        ELSE [fragment EXCEPT !.buf = @ + top * fragment.pitch + left,
                !.x = IF x = 0 THEN xshift ELSE 0, !.y = IF y = 0 THEN yshift ELSE 0,
                !.width = width, !.stride = @ + (fragment.width - width),
                !.height = AtMost(@ - top, IF y = 0 THEN tile_size - yshift ELSE tile_size)]

(* montage leaves gaps on the far sides *)
montage_fragment_tile(fragment, tile_width, tile_height, number) ==
    LET w == fragment.width \div tile_width
        xoff == (number % w) * tile_width
        yoff == (number \div w) * tile_height
    IN  IF number \div w >= fragment.height \div tile_height THEN None
        ELSE [fragment EXCEPT !.buf = @ + yoff * fragment.pitch + xoff, !.x = 0, !.y = 0,
                !.width = tile_width, !.height = tile_height,
                !.stride = @ + (fragment.width - tile_width)]

(* the square root of the number of tiles, rounded up and to the nearest *)
Ceil(n) == CHOOSE k \in 1 .. n : n <= k * k /\ (k - 1) * (k - 1) < n
Rint(n) == CHOOSE k \in 1 .. n : k * k - k < n /\ n <= k * k + k

montage_fragmenter(n_tiles, fragment, number) ==
    montage_fragment_tile(fragment, fragment.width \div Ceil(n_tiles),
                          fragment.height \div Rint(n_tiles), number)

----------------------------------------------------------------------------
Offsets(fragment) == (0 .. fragment.width - 1) \X (0 .. fragment.height - 1)
Address(fragment, offset) == fragment.buf + offset[2] * fragment.pitch + offset[1]
Memory(fragment) == {Address(fragment, offset) : offset \in Offsets(fragment)}

(* the fragments there are before the first number that is refused *)
Parts(Part(_), whole) ==
    LET Numbers == 0 .. whole.width * whole.height
        last == CHOOSE n \in Numbers : Part(n) # None /\ Part(n + 1) = None
    IN  [n \in 0 .. last |-> Part(n)]

(* no pixel of the whole is in two parts, and the parts' rows are as far apart *)
Apart(parts, whole) ==
    \A n \in DOMAIN parts :
        /\ Memory(parts[n]) # {} /\ Memory(parts[n]) \subseteq Memory(whole)
        /\ parts[n].width + parts[n].stride = parts[n].pitch
        /\ \A m \in DOMAIN parts : m # n => Memory(parts[m]) \cap Memory(parts[n]) = {}

CutsWell(Part(_), whole) ==
    LET parts == Parts(Part, whole) IN
    /\ Apart(parts, whole)
    /\ Memory(whole) = UNION {Memory(parts[n]) : n \in DOMAIN parts}
    /\ \A n \in DOMAIN parts : Part(n + Cardinality(DOMAIN parts)) = None

(* the pixel at x, y of the frame is at the address it has in the whole *)
InPlace(Part(_), whole) ==
    LET parts == Parts(Part, whole) IN
    \A n \in DOMAIN parts :
        Address(parts[n], <<0, 0>>) = Address(whole, <<parts[n].x - whole.x, parts[n].y - whole.y>>)

(* part of a page, margin pixels wider than it is *)
Whole(width, height, margin) ==
    [x |-> 2 * margin, y |-> margin, width |-> width, height |-> height, buf |-> 0,
     pitch |-> width + margin, stride |-> margin]

CutWell(width, height, margin, n_cpus) ==
    LET whole == Whole(width, height, margin)
        Slices(n) == til_fragmenter_slice_per_cpu(n_cpus, whole, n)
        Slices16(n) == til_fragmenter_slice_per_cpu_x16(n_cpus, whole, n)
        Tiles64(n) == til_fragmenter_tile64(n_cpus, whole, n)
        Checkers(n) == checkers_fragment_tile_single(whole, TileSize, n)
        Montage(n) == montage_fragmenter(n_cpus, whole, n)
    IN  /\ CutsWell(Slices, whole) /\ InPlace(Slices, whole)
        /\ CutsWell(Slices16, whole) /\ InPlace(Slices16, whole)
        /\ CutsWell(Tiles64, whole) /\ InPlace(Tiles64, whole)
        /\ CutsWell(Checkers, whole)
        /\ \A n \in DOMAIN Parts(Checkers, whole) :
              Checkers(n).x + Checkers(n).width <= TileSize /\ Checkers(n).y + Checkers(n).height <= TileSize
        /\ \A n \in 0 .. n_cpus : (til_fragmenter_noop_per_cpu(n_cpus, whole, n) = whole) = (n < n_cpus)
        \* as many tiles as a montage has modules, in a frame that is not too small
        /\ width >= Ceil(n_cpus) /\ height >= Rint(n_cpus) =>
              Apart(Parts(Montage, whole), whole) /\ n_cpus - 1 \in DOMAIN Parts(Montage, whole)

AllCutWell ==
    \A width, height \in Sizes, margin \in {0, 3}, n_cpus \in Cpus : CutWell(width, height, margin, n_cpus)
=============================================================================
