------------------------------- MODULE Submit -------------------------------
(***************************************************************************)
(* The game module submit draws: the cellular automaton of src/libs/grid,  *)
(* a board that players plan moves on, and src/modules/submit, which       *)
(* plays a frame's worth of random moves, keeps a copy of the board to     *)
(* draw from, and starts over when somebody has won.                       *)
(*                                                                         *)
(* A turn is one player's part of grid_tick().  Which cells a player plans *)
(* is random in the code and any cells here; a plan is kept as its cell.   *)
(***************************************************************************)
EXTENDS Fragments, Sequences, FiniteSets

CONSTANTS
    NumPlayers,     \* NUM_PLAYERS
    Width, Height,  \* GRID_SIZE
    TicksPerFrame   \* TICKS_PER_FRAME

ASSUME SubmitAssumption ==
    /\ NumPlayers \in Nat \ {0} /\ TicksPerFrame \in Nat \ {0}
    /\ Width \in Nat \ {0} /\ Height \in Nat \ {0}

VARIABLES
    cells,          \* the grid's: who owns each, 0 for blank
    n_cells,        \* how many each player owns, as counted by the grid
    plans,          \* each player's queue of planned moves
    drawn,          \* submit's copy of the cells
    game_winner,    \* 0 till somebody won
    tick, turn      \* ticks left in this frame, the player whose turn it is

vars == <<cells, n_cells, plans, drawn, game_winner, tick, turn>>

Players == 1 .. NumPlayers
Cells == (0 .. Width - 1) \X (0 .. Height - 1)
Blank == [c \in Cells |-> 0]
NoPlans == [p \in Players |-> <<>>]

TypeOK ==
    /\ cells \in [Cells -> 0 .. NumPlayers]
    /\ drawn \in [Cells -> 0 .. NumPlayers]
    /\ n_cells \in [Players -> Int]
    /\ plans \in [Players -> Seq(Cells)]
    /\ game_winner \in 0 .. NumPlayers
    /\ tick \in 0 .. TicksPerFrame
    /\ turn \in 0 .. NumPlayers

(* a new grid with its players, none of whom owns a cell or plans a move *)
grid_new ==
    /\ cells = Blank
    /\ n_cells = [p \in Players |-> 0]
    /\ plans = NoPlans

Init ==
    /\ grid_new
    /\ drawn = Blank
    /\ game_winner = 0
    /\ tick = 0 /\ turn = 0

(* a won game is given up at the next frame: plans nobody executed would be
   lost with its grid, which frees its players only *)
setup_grid ==
    /\ cells' = Blank
    /\ n_cells' = [p \in Players |-> 0]
    /\ drawn' = Blank
    /\ game_winner' = 0

----------------------------------------------------------------------------
(* grid_tick() *)

(* the player owns the n cells that follow c in a direction *)
Chained(p, c, dx, dy, n) ==
    \A i \in 1 .. n :
        LET d == <<c[1] + i * dx, c[2] + i * dy>> IN d \in Cells /\ cells[d] = p

Directions == {<<-1, 0>>, <<1, 0>>, <<0, -1>>, <<0, 1>>}

(* a blank cell is anybody's who owns none, and theirs who own a neighbour;
   a cell is taken from its owner by two in a row *)
execute_plan(p, c) ==
    /\ cells[c] # p
    /\ \/ cells[c] = 0 /\ n_cells[p] = 0
       \/ cells[c] = 0 /\ \E d \in Directions : Chained(p, c, d[1], d[2], 1)
       \/ \E d \in Directions : Chained(p, c, d[1], d[2], 2)

(* the owner of a cell that is taken has one less *)
BugTaken(p, c) == [n_cells EXCEPT ![p] = @ + 1]
Taken(p, c) ==
    [q \in Players |->
        IF q = p THEN n_cells[p] + 1
        ELSE IF q = cells[c] THEN n_cells[q] - 1
        ELSE n_cells[q]]

(* the players are listed last first *)
NextTurn ==
    IF turn > 1
    THEN turn' = turn - 1 /\ tick' = tick
    ELSE turn' = NumPlayers /\ tick' = tick - 1

Takes(p, c) ==
    /\ n_cells' = Taken(p, c)
    /\ cells' = [cells EXCEPT ![c] = p]
    /\ drawn' = [drawn EXCEPT ![c] = p]
    /\ game_winner' = IF n_cells'[p] = Width * Height THEN p ELSE game_winner

grid_tick ==
    /\ tick > 0
    /\ NextTurn
    /\ IF plans[turn] = <<>>
       THEN UNCHANGED <<cells, n_cells, plans, drawn, game_winner>>
       ELSE /\ plans' = [plans EXCEPT ![turn] = Tail(@)]
            /\ IF execute_plan(turn, Head(plans[turn]))
               THEN Takes(turn, Head(plans[turn]))
               ELSE UNCHANGED <<cells, n_cells, drawn, game_winner>>

----------------------------------------------------------------------------
(* a frame: random moves for each player, fewer than there are ticks, or as
   many for a player whose colour is transparent where submit overlays *)

Moves(most) == UNION {[1 .. n -> Cells] : n \in 0 .. most}

BugMoves == TicksPerFrame + 1
MostMoves == TicksPerFrame

submit_prepare_frame ==
    /\ tick = 0
    /\ IF game_winner # 0 THEN setup_grid ELSE UNCHANGED <<cells, n_cells, drawn, game_winner>>
    /\ \E planned \in [Players -> Moves(MostMoves)] :
          plans' = [p \in Players |-> (IF game_winner # 0 THEN <<>> ELSE plans[p]) \o planned[p]]
    /\ tick' = TicksPerFrame /\ turn' = NumPlayers

Next == submit_prepare_frame \/ grid_tick

SubmitSpec == Init /\ [][Next]_vars

----------------------------------------------------------------------------
(* Drawing: where a pixel of a frame falls on the board.  Coordinates are
   fractions, counted in halves of a frame's size; a sample between cells mixes
   the four around it. *)

(* half a cell into the first one, to half a cell before the end of the last *)
draw_grid(at, frame, cells_a_side) == frame + 2 * at * (cells_a_side - 1)
(* a cell into the board, to a cell before its end *)
draw_grid_bilerp(at, frame, cells_a_side) == 2 * frame + 2 * at * (cells_a_side - 2)

sample_grid(position, frame) == {position \div (2 * frame)}
sample_grid_bilerp(position, frame) ==
    LET cell == position \div (2 * frame) IN
    IF position % (2 * frame) > frame THEN {cell, cell + 1} ELSE {cell - 1, cell}

(* no pixel is sampled off the board, nor a cell mixed with the next row's *)
AllSampledOnBoard ==
    \A frame \in Sizes, side \in 2 .. AtLeast(Width, Height) : \A at \in 0 .. frame - 1 :
        /\ sample_grid(draw_grid(at, frame, side), frame) \subseteq 0 .. side - 1
        /\ sample_grid_bilerp(draw_grid_bilerp(at, frame, side), frame) \subseteq 0 .. side - 1

(* When a new game is drawn, and whatever the size of the frame: slices and
   tiles, of parts of other fragments as well, leave no pixel out and let no two
   CPUs draw the same one; checkers' and montage's tiles do not overlap and
   show all there is; and the cells at the board's borders are sampled and
   nothing beyond them (til_fb.c's *_single(), checkers.c, montage.c, submit.c's
   draw_grid()). *)
FramesDrawnWhole == tick = 0 /\ cells = Blank => AllCutWell /\ AllSampledOnBoard

----------------------------------------------------------------------------
(* The grid's count of a player's cells is the number it owns, whoever they
   were taken from, and submit's copy is the board: a count that drifts ends
   a game that nobody has won, or none (grid_tick(), taken()). *)
Accounted ==
    /\ \A p \in Players : n_cells[p] = Cardinality({c \in Cells : cells[c] = p})
    /\ drawn = cells

(* When a grid is freed no plan is left on it: grid_free() frees the players
   and not what they planned (grid.c, submit.c's number of moves and ticks). *)
PlansExecuted == tick = 0 => plans = NoPlans

(* Who wins owns the whole board, and till the next game nobody takes a cell
   off it: neither a count of cells nor the order of turns in the frame of the
   win makes a winner of who is none (grid_tick(), taken()). *)
WinnerOwnsAll == game_winner # 0 => \A c \in Cells : cells[c] = game_winner
=============================================================================
