---------------------------- MODULE SubmitProofs ----------------------------
(***************************************************************************)
(* What holds of submit's game for any number of players, any board and    *)
(* any number of turns per frame.                                          *)
(*                                                                         *)
(* The argument: a player never has more plans than there are turns left   *)
(* for it in the frame, so none is left when the next frame may give up    *)
(* the grid.  Counts and cells change together, and since a count is the   *)
(* cardinality of what is counted, who has as many cells as the board has  *)
(* all of them; nobody else has two in a row to take one with.             *)
(*                                                                         *)
(* A frame is cut as a grid: its columns and its rows are each cut in      *)
(* pieces that follow one another, so no two parts of the grid share an    *)
(* offset of the frame, and no two offsets share an address, the pitch     *)
(* being at least the width.  Nothing is left out when nothing is left out *)
(* of either side.                                                         *)
(***************************************************************************)
EXTENDS Submit, FiniteSetTheorems, WellFoundedInduction, TLAPS

Owned(p) == {c \in Cells : cells[c] = p}

(* the turns a player still has in the frame *)
TurnsLeft(p) == IF tick = 0 \/ p <= turn THEN tick ELSE tick - 1
PlansInTime ==
    /\ tick > 0 => turn \in Players
    /\ \A p \in Players : Len(plans[p]) <= TurnsLeft(p)

(* The inductive invariant. *)
IInv ==
    /\ TypeOK
    /\ Accounted
    /\ PlansInTime
    /\ WinnerOwnsAll

----------------------------------------------------------------------------
(* The board has Width * Height cells. *)
LEMMA CellsCount ==
    /\ IsFiniteSet(Cells)
    /\ Cardinality(Cells) = Width * Height
<1>1. ASSUME NEW n \in Nat \ {0}
      PROVE  IsFiniteSet(0 .. n - 1) /\ Cardinality(0 .. n - 1) = n
  <2>1. 0 \in Int /\ n - 1 \in Int /\ ~(0 > n - 1)
    OBVIOUS
  <2>2. /\ IsFiniteSet(0 .. n - 1)
        /\ Cardinality(0 .. n - 1) = IF 0 > n - 1 THEN 0 ELSE n - 1 - 0 + 1
    BY <2>1, FS_Interval, Zenon
  <2> QED
    BY <2>1, <2>2
<1>2. IsFiniteSet(0 .. Width - 1) /\ IsFiniteSet(0 .. Height - 1)
  BY <1>1, SubmitAssumption
<1>3. Cardinality(0 .. Width - 1) = Width /\ Cardinality(0 .. Height - 1) = Height
  BY <1>1, SubmitAssumption
<1>4. /\ IsFiniteSet(Cells)
      /\ Cardinality(Cells) = Cardinality(0 .. Width - 1) * Cardinality(0 .. Height - 1)
  BY <1>2, FS_Product, Zenon DEF Cells
<1> QED
  BY <1>3, <1>4

LEMMA OwnedFinite == \A p : IsFiniteSet(Owned(p)) /\ Cardinality(Owned(p)) \in Nat
<1> SUFFICES ASSUME NEW p PROVE IsFiniteSet(Owned(p)) /\ Cardinality(Owned(p)) \in Nat
  OBVIOUS
<1>1. Owned(p) \in SUBSET Cells
  BY DEF Owned
<1> QED
  BY <1>1, CellsCount, FS_Subset, FS_CardinalityType

LEMMA InitIInv == Init => IInv
<1> SUFFICES ASSUME Init PROVE IInv
  OBVIOUS
<1> USE SubmitAssumption
<1>1. TypeOK
  BY SMT DEF Init, grid_new, Blank, NoPlans, TypeOK, Players
<1>2. Accounted
  <2>1. \A p \in Players : Owned(p) = {}
    BY DEF Init, grid_new, Blank, Owned, Players
  <2>2. \A p \in Players : n_cells[p] = Cardinality(Owned(p))
    BY <2>1, FS_EmptySet DEF Init, grid_new
  <2> QED
    BY <2>2 DEF Accounted, Owned, Init, grid_new
<1>3. PlansInTime
  BY SMT DEF Init, grid_new, NoPlans, PlansInTime, TurnsLeft
<1> QED
  BY <1>1, <1>2, <1>3 DEF IInv, WinnerOwnsAll, Init

----------------------------------------------------------------------------
(* A frame begins: a new game starts from the blank board, an old one goes on. *)
LEMMA PrepareKeepsIInv == IInv /\ submit_prepare_frame => IInv'
<1> SUFFICES ASSUME IInv, submit_prepare_frame PROVE IInv'
  OBVIOUS
<1> USE SubmitAssumption
<1>0. /\ TypeOK /\ Accounted /\ PlansInTime /\ WinnerOwnsAll /\ tick = 0
      /\ tick' = TicksPerFrame /\ turn' = NumPlayers
  BY DEF IInv, submit_prepare_frame
<1>1. PICK planned \in [Players -> Moves(MostMoves)] :
        plans' = [p \in Players |-> (IF game_winner # 0 THEN <<>> ELSE plans[p]) \o planned[p]]
  BY DEF submit_prepare_frame
<1>2. \A p \in Players : plans[p] = <<>>
  <2> SUFFICES ASSUME NEW p \in Players PROVE plans[p] = <<>>
    OBVIOUS
  <2>1. plans[p] \in Seq(Cells) /\ Len(plans[p]) <= 0
    BY <1>0 DEF TypeOK, PlansInTime, TurnsLeft
  <2> QED
    BY <2>1
<1>3. \A p \in Players : planned[p] \in Seq(Cells) /\ Len(planned[p]) <= TicksPerFrame
  <2> SUFFICES ASSUME NEW p \in Players
               PROVE planned[p] \in Seq(Cells) /\ Len(planned[p]) <= TicksPerFrame
    OBVIOUS
  <2>1. PICK n \in 0 .. TicksPerFrame : planned[p] \in [1 .. n -> Cells]
    BY <1>1 DEF Moves, MostMoves
  <2> QED
    BY <2>1
<1>4. \A p \in Players : plans'[p] = planned[p]
  BY <1>1, <1>2, <1>3
<1>5. plans' \in [Players -> Seq(Cells)]
  BY <1>1, <1>3, <1>4
<1>6. PlansInTime'
  BY <1>0, <1>3, <1>4 DEF PlansInTime, TurnsLeft, Players
<1>7. CASE game_winner # 0
  <2>1. /\ cells' = Blank /\ drawn' = Blank /\ game_winner' = 0
        /\ n_cells' = [p \in Players |-> 0]
    BY <1>7 DEF submit_prepare_frame, setup_grid
  <2>2. \A p \in Players : {c \in Cells : cells'[c] = p} = {}
    BY <2>1 DEF Blank, Players
  <2>3. Accounted'
    BY <2>1, <2>2, FS_EmptySet DEF Accounted
  <2>4. TypeOK'
    BY <1>0, <1>5, <2>1 DEF TypeOK, Blank
  <2> QED
    BY <1>6, <2>1, <2>3, <2>4 DEF IInv, WinnerOwnsAll
<1>8. CASE game_winner = 0
  <2>1. UNCHANGED <<cells, n_cells, drawn, game_winner>>
    BY <1>8 DEF submit_prepare_frame
  <2>2. TypeOK'
    BY <1>0, <1>5, <2>1 DEF TypeOK
  <2> QED
    BY <1>0, <1>6, <2>1, <2>2 DEF IInv, Accounted, WinnerOwnsAll
<1> QED
  BY <1>7, <1>8

(* A cell that is taken is in one count more and in one less. *)
LEMMA TakesKeepsAccounted ==
    ASSUME TypeOK, Accounted, NEW p \in Players, NEW c \in Cells, cells[c] # p, Takes(p, c)
    PROVE  Accounted' /\ n_cells' \in [Players -> Int]
<1> USE SubmitAssumption
<1>1. /\ cells' = [cells EXCEPT ![c] = p]
      /\ drawn' = [drawn EXCEPT ![c] = p]
      /\ n_cells' = Taken(p, c)
      /\ cells \in [Cells -> 0 .. NumPlayers] /\ drawn = cells
      /\ n_cells \in [Players -> Int]
  BY DEF Takes, TypeOK, Accounted
<1>2. n_cells' \in [Players -> Int]
  BY <1>1 DEF Taken
<1>3. ASSUME NEW q \in Players
      PROVE  n_cells'[q] = Cardinality({d \in Cells : cells'[d] = q})
  <2> DEFINE Before == Owned(q)
             After == {d \in Cells : cells'[d] = q}
  <2>1. n_cells[q] = Cardinality(Before) /\ IsFiniteSet(Before) /\ Cardinality(Before) \in Nat
    BY OwnedFinite DEF Accounted, Owned
  <2>2. CASE q = p
    <3>1. After = Before \cup {c} /\ c \notin Before
      BY <1>1, <2>2 DEF Owned
    <3>2. Cardinality(After) = Cardinality(Before) + 1
      BY <2>1, <3>1, FS_AddElement
    <3> QED
      BY <1>1, <2>1, <2>2, <3>2 DEF Taken
  <2>3. CASE q # p /\ q = cells[c]
    <3>1. After = Before \ {c} /\ c \in Before
      BY <1>1, <2>3 DEF Owned
    <3>2. Cardinality(After) = Cardinality(Before) - 1
      BY <2>1, <3>1, FS_RemoveElement
    <3> QED
      BY <1>1, <2>1, <2>3, <3>2 DEF Taken
  <2>4. CASE q # p /\ q # cells[c]
    <3>1. After = Before
      BY <1>1, <2>4 DEF Owned
    <3> QED
      BY <1>1, <2>1, <2>4, <3>1 DEF Taken
  <2> QED
    BY <2>2, <2>3, <2>4
<1> QED
  BY <1>1, <1>2, <1>3 DEF Accounted

(* Who has as many cells as the board has them all. *)
LEMMA AllCounted ==
    ASSUME Accounted, NEW p \in Players, n_cells[p] = Width * Height
    PROVE  \A c \in Cells : cells[c] = p
<1>1. Owned(p) \in SUBSET Cells /\ Cardinality(Owned(p)) = Cardinality(Cells)
  BY CellsCount DEF Accounted, Owned
<1>2. Owned(p) = Cells
  BY <1>1, CellsCount, FS_Subset
<1> QED
  BY <1>2 DEF Owned

(* On a board that is all another's a plan fails. *)
LEMMA WinnerKeepsAll ==
    ASSUME WinnerOwnsAll, NEW p \in Players, NEW c \in Cells, game_winner # 0,
           game_winner \in Nat, execute_plan(p, c)
    PROVE  FALSE
<1>1. cells[c] = game_winner /\ game_winner # p
  BY DEF WinnerOwnsAll, execute_plan
<1>2. \A d \in Directions : ~Chained(p, c, d[1], d[2], 2)
  BY <1>1 DEF WinnerOwnsAll, Chained
<1> QED
  BY <1>1, <1>2 DEF execute_plan

(* A turn. *)
LEMMA TickKeepsIInv == IInv /\ grid_tick => IInv'
<1> SUFFICES ASSUME IInv, grid_tick PROVE IInv'
  OBVIOUS
<1> USE SubmitAssumption
<1>0. /\ TypeOK /\ Accounted /\ PlansInTime /\ WinnerOwnsAll
      /\ tick > 0 /\ tick \in Nat /\ turn \in Players /\ NextTurn
  BY DEF IInv, grid_tick, PlansInTime, TypeOK
<1>1. turn' \in Players /\ tick' \in 0 .. TicksPerFrame
  BY <1>0 DEF NextTurn, Players, TypeOK
<1>2. plans[turn] \in Seq(Cells) /\ plans \in [Players -> Seq(Cells)]
  BY <1>0 DEF TypeOK
<1>3. \A p \in Players : TurnsLeft(p)' >= IF p = turn THEN TurnsLeft(p) - 1 ELSE TurnsLeft(p)
  BY <1>0 DEF NextTurn, TurnsLeft, Players
<1>4. CASE plans[turn] = <<>>
  <2>1. UNCHANGED <<cells, n_cells, plans, drawn, game_winner>>
    BY <1>4 DEF grid_tick
  <2>2. \A p \in Players : Len(plans'[p]) <= TurnsLeft(p)'
    <3> SUFFICES ASSUME NEW p \in Players PROVE Len(plans[p]) <= TurnsLeft(p)'
      BY <2>1
    <3>1. Len(plans[p]) \in Nat /\ Len(plans[p]) <= TurnsLeft(p)
      BY <1>0, <1>2 DEF PlansInTime
    <3>2. TurnsLeft(p) \in Int /\ TurnsLeft(p)' \in Int /\ TurnsLeft(turn) >= 1
      BY <1>0, <1>1 DEF TurnsLeft, Players
    <3> QED
      BY <1>3, <1>4, <3>1, <3>2
  <2> QED
    BY <1>0, <1>1, <2>1, <2>2 DEF IInv, TypeOK, Accounted, PlansInTime, WinnerOwnsAll, Players
<1>5. CASE plans[turn] # <<>>
  <2> DEFINE c == Head(plans[turn])
  <2>1. /\ c \in Cells
        /\ plans' = [plans EXCEPT ![turn] = Tail(@)]
        /\ plans' \in [Players -> Seq(Cells)]
        /\ Len(plans'[turn]) = Len(plans[turn]) - 1
    <3>1. c \in Cells /\ Tail(plans[turn]) \in Seq(Cells)
          /\ Len(Tail(plans[turn])) = Len(plans[turn]) - 1
      BY <1>2, <1>5
    <3>2. plans' = [plans EXCEPT ![turn] = Tail(plans[turn])]
      BY <1>5 DEF grid_tick
    <3> QED
      BY <1>0, <1>2, <3>1, <3>2
  <2>2. PlansInTime'
    <3> SUFFICES ASSUME NEW p \in Players PROVE Len(plans'[p]) <= TurnsLeft(p)'
      BY <1>1 DEF PlansInTime
    <3>1. Len(plans[p]) \in Nat /\ Len(plans[p]) <= TurnsLeft(p)
      BY <1>0, <1>2 DEF PlansInTime
    <3>2. TurnsLeft(p) \in Int /\ TurnsLeft(p)' \in Int
      BY <1>0, <1>1 DEF TurnsLeft, Players
    <3>3. Len(plans'[p]) = IF p = turn THEN Len(plans[p]) - 1 ELSE Len(plans[p])
      BY <1>0, <1>2, <2>1
    <3> QED
      BY <1>3, <3>1, <3>2, <3>3
  <2>3. CASE execute_plan(turn, c)
    <3>1. Takes(turn, c) /\ cells[c] # turn
      BY <1>5, <2>3 DEF grid_tick, execute_plan
    <3>2. Accounted' /\ n_cells' \in [Players -> Int]
      BY <1>0, <2>1, <3>1, TakesKeepsAccounted
    <3>3. /\ cells' \in [Cells -> 0 .. NumPlayers]
          /\ drawn' \in [Cells -> 0 .. NumPlayers]
          /\ game_winner' \in 0 .. NumPlayers
      BY <1>0, <2>1, <3>1 DEF Takes, TypeOK, Players
    <3>4. WinnerOwnsAll'
      <4>1. game_winner = 0
        BY <1>0, <2>1, <2>3, WinnerKeepsAll DEF TypeOK
      <4>2. game_winner' = (IF n_cells'[turn] = Width * Height THEN turn ELSE 0)
        BY <3>1, <4>1 DEF Takes
      <4>3. n_cells'[turn] = Width * Height => \A d \in Cells : cells'[d] = turn
        <5> DEFINE S == {d \in Cells : cells'[d] = turn}
        <5>1. S \in SUBSET Cells /\ Cardinality(S) = n_cells'[turn]
          BY <1>0, <3>2 DEF Accounted
        <5>2. ASSUME n_cells'[turn] = Width * Height
              PROVE  S = Cells
          <6>1. Cardinality(Cells) = Cardinality(S)
            BY <5>1, <5>2, CellsCount
          <6> QED
            BY <5>1, <6>1, CellsCount, FS_Subset, Zenon
        <5> QED
          BY <5>2
      <4> QED
        BY <1>0, <4>2, <4>3 DEF WinnerOwnsAll
    <3>5. TypeOK'
      <4>1. turn' \in 0 .. NumPlayers
        BY <1>1 DEF Players
      <4> QED
        BY <1>1, <2>1, <3>2, <3>3, <4>1, Zenon DEF TypeOK
    <3> QED
      BY <2>2, <3>2, <3>4, <3>5 DEF IInv
  <2>4. CASE ~execute_plan(turn, c)
    <3>1. UNCHANGED <<cells, n_cells, drawn, game_winner>>
      BY <1>5, <2>4 DEF grid_tick
    <3>2. TypeOK'
      <4>1. /\ cells' \in [Cells -> 0 .. NumPlayers]
            /\ drawn' \in [Cells -> 0 .. NumPlayers]
            /\ n_cells' \in [Players -> Int]
            /\ game_winner' \in 0 .. NumPlayers
        BY <1>0, <3>1 DEF TypeOK
      <4>2. turn' \in 0 .. NumPlayers
        BY <1>1 DEF Players
      <4> QED
        BY <1>1, <2>1, <4>1, <4>2, Zenon DEF TypeOK
    <3> QED
      BY <1>0, <2>2, <3>1, <3>2 DEF IInv, Accounted, WinnerOwnsAll
  <2> QED
    BY <2>3, <2>4
<1> QED
  BY <1>4, <1>5

----------------------------------------------------------------------------
LEMMA StepIInv == IInv /\ [Next]_vars => IInv'
<1> SUFFICES ASSUME IInv, [Next]_vars PROVE IInv'
  OBVIOUS
<1>1. CASE UNCHANGED vars
  BY <1>1 DEF vars, IInv, TypeOK, Accounted, PlansInTime, TurnsLeft, WinnerOwnsAll
<1> QED
  BY <1>1, PrepareKeepsIInv, TickKeepsIInv DEF Next

(* The inductive invariant holds of every game. *)
LEMMA InvariantCorrect == SubmitSpec => []IInv
BY InitIInv, StepIInv, PTL DEF SubmitSpec

(* The game's state keeps its types (submit.c, grid.c). *)
THEOREM TypeCorrect == SubmitSpec => []TypeOK
<1>1. IInv => TypeOK
  BY DEF IInv
<1> QED
  BY <1>1, InvariantCorrect, PTL

(* Every player's count is the number of its cells, and submit's copy is the
   board (grid_tick(), taken()). *)
THEOREM AccountedCorrect == SubmitSpec => []Accounted
<1>1. IInv => Accounted
  BY DEF IInv
<1> QED
  BY <1>1, InvariantCorrect, PTL

(* No plan is left when a grid may be given up (grid_free()). *)
THEOREM PlansExecutedCorrect == SubmitSpec => []PlansExecuted
<1>1. IInv => PlansExecuted
  <2> SUFFICES ASSUME IInv, tick = 0 PROVE plans = NoPlans
    BY DEF PlansExecuted
  <2>1. plans \in [Players -> Seq(Cells)]
    BY DEF IInv, TypeOK
  <2>2. \A p \in Players : Len(plans[p]) <= 0
    BY DEF IInv, PlansInTime, TurnsLeft
  <2>3. \A p \in Players : plans[p] = <<>>
    BY <2>1, <2>2
  <2> QED
    BY <2>1, <2>3 DEF NoPlans
<1> QED
  BY <1>1, InvariantCorrect, PTL

(* Whoever is declared the winner owns the whole board till the next game. *)
THEOREM WinnerOwnsAllCorrect == SubmitSpec => []WinnerOwnsAll
<1>1. IInv => WinnerOwnsAll
  BY DEF IInv
<1> QED
  BY <1>1, InvariantCorrect, PTL

----------------------------------------------------------------------------
(* Division *)

LEMMA DivMod ==
  ASSUME NEW a \in Nat, NEW b \in Nat \ {0}
  PROVE  a \div b \in Nat /\ a % b \in 0 .. b - 1 /\ a = (a \div b) * b + (a % b)
BY SMT

LEMMA DivModOf ==
  ASSUME NEW q \in Nat, NEW b \in Nat \ {0}, NEW r \in 0 .. b - 1
  PROVE  (q * b + r) \div b = q /\ (q * b + r) % b = r
BY SMT

(* One more makes at least as much more. *)
LEMMA Scaled ==
  ASSUME NEW a \in Nat, NEW b \in Nat, NEW c \in Nat, a < b
  PROVE  a * c + c <= b * c /\ a * c \in Nat /\ b * c \in Nat
BY SMT

(* The numbers of a grid of parts are those of its columns and rows. *)
LEMMA Numbered ==
  ASSUME NEW C \in Nat \ {0}, NEW R \in Nat \ {0}
  PROVE  /\ C * R \in Nat \ {0}
         /\ \A n \in 0 .. C * R - 1 : n % C \in 0 .. C - 1 /\ n \div C \in 0 .. R - 1
         /\ \A x \in 0 .. C - 1, y \in 0 .. R - 1 :
              y * C + x \in 0 .. C * R - 1 /\ (y * C + x) % C = x /\ (y * C + x) \div C = y
         /\ \A n \in Nat : n \div C < R <=> n < C * R
<1>1. C * R \in Nat \ {0} /\ C * R = R * C
  BY SMT
<1>2. ASSUME NEW n \in Nat
      PROVE  n \div C < R <=> n < C * R
  <2> DEFINE q == n \div C
             r == n % C
  <2>1. q \in Nat /\ r \in 0 .. C - 1 /\ n = q * C + r
    BY DivMod
  <2> HIDE DEF q, r
  <2>2. CASE q < R
    <3>1. q * C + C <= R * C /\ q * C \in Nat /\ R * C \in Nat
      BY <2>1, <2>2, Scaled
    <3> DEFINE s == q * C
               t == R * C
    <3>2. s + C <= t /\ s \in Nat /\ t \in Nat /\ n = s + r /\ C * R = t
      BY <1>1, <2>1, <3>1
    <3> HIDE DEF s, t
    <3>3. n < t
      BY <2>1, <3>2
    <3> QED BY <2>2, <3>2, <3>3 DEF q
  <2>3. CASE ~(q < R)
    <3>1. R * C <= q * C
      <4>1. CASE q = R
        BY <1>1, <4>1
      <4>2. CASE R < q
        <5>1. R * C + C <= q * C /\ R * C \in Nat /\ q * C \in Nat
          BY <2>1, <4>2, Scaled
        <5> QED BY <5>1
      <4> QED BY <2>1, <2>3, <4>1, <4>2
    <3> DEFINE s == q * C
               t == R * C
    <3>2. t <= s /\ s \in Nat /\ t \in Nat /\ n = s + r /\ C * R = t
      BY <1>1, <2>1, <3>1
    <3> HIDE DEF s, t
    <3>3. ~(n < t)
      BY <2>1, <3>2
    <3> QED BY <2>3, <3>2, <3>3 DEF q
  <2> QED BY <2>2, <2>3
<1>3. ASSUME NEW n \in 0 .. C * R - 1
      PROVE  n % C \in 0 .. C - 1 /\ n \div C \in 0 .. R - 1
  <2>1. n \in Nat /\ n < C * R
    BY <1>1
  <2>2. n \div C < R /\ n \div C \in Nat /\ n % C \in 0 .. C - 1
    BY <1>2, <2>1, DivMod
  <2> QED BY <2>2
<1>4. ASSUME NEW x \in 0 .. C - 1, NEW y \in 0 .. R - 1
      PROVE  y * C + x \in 0 .. C * R - 1 /\ (y * C + x) % C = x /\ (y * C + x) \div C = y
  <2>1. (y * C + x) % C = x /\ (y * C + x) \div C = y
    BY DivModOf
  <2> DEFINE n == y * C + x
  <2>2. n \in Nat
    BY SMT
  <2>3. n < C * R
    BY <1>2, <2>1, <2>2
  <2> HIDE DEF n
  <2>4. n \in 0 .. C * R - 1
    BY <1>1, <2>2, <2>3
  <2> QED BY <2>1, <2>4 DEF n
<1> QED BY <1>1, <1>2, <1>3, <1>4

----------------------------------------------------------------------------
(* Parts of a frame *)

(* A frame, whose rows do not overlap. *)
IsFrame(f) ==
  /\ f.width \in Nat \ {0} /\ f.height \in Nat \ {0}
  /\ f.buf \in Nat /\ f.pitch \in Nat /\ f.stride \in Nat
  /\ f.width + f.stride = f.pitch

(* What is a frame's from a column and a row on. *)
IsPart(part, f, left, top) ==
  /\ part.width \in Nat \ {0} /\ part.height \in Nat \ {0}
  /\ left + part.width <= f.width /\ top + part.height <= f.height
  /\ part.pitch = f.pitch /\ part.width + part.stride = part.pitch
  /\ part.buf = f.buf + top * f.pitch + left

(* Pixels are at different addresses. *)
LEMMA Injective ==
  ASSUME NEW f, IsFrame(f), NEW o \in Offsets(f), NEW q \in Offsets(f),
         Address(f, o) = Address(f, q)
  PROVE  o = q
<1> DEFINE p == f.pitch
<1>1. /\ o = <<o[1], o[2]>> /\ q = <<q[1], q[2]>>
      /\ o[1] \in Nat /\ o[2] \in Nat /\ q[1] \in Nat /\ q[2] \in Nat
      /\ o[1] < p /\ q[1] < p /\ p \in Nat \ {0} /\ f.buf \in Nat
  BY DEF IsFrame, Offsets
<1>2. f.buf + o[2] * p + o[1] = f.buf + q[2] * p + q[1]
  BY DEF Address
<1> HIDE DEF p
<1>3. ASSUME NEW a \in Nat, NEW b \in Nat, NEW x \in Nat, NEW y \in Nat, NEW u \in Nat,
             x < p, y < p, u + a * p + x = u + b * p + y
      PROVE  a = b /\ x = y
  <2>1. x \in 0 .. p - 1 /\ y \in 0 .. p - 1
    BY <1>1, <1>3
  <2>2. a * p + x = b * p + y
    <3>1. a * p \in Nat /\ b * p \in Nat
      BY <1>1
    <3> DEFINE s == a * p
               t == b * p
    <3> HIDE DEF s, t
    <3>2. s \in Nat /\ t \in Nat /\ u + s + x = u + t + y
      BY <1>3, <3>1 DEF s, t
    <3>3. s + x = t + y
      BY <3>2
    <3> QED BY <3>3 DEF s, t
  <2>3. (a * p + x) \div p = a /\ (a * p + x) % p = x
    BY <1>1, <2>1, DivModOf
  <2>4. (b * p + y) \div p = b /\ (b * p + y) % p = y
    BY <1>1, <2>1, DivModOf
  <2> QED BY <2>2, <2>3, <2>4
<1>4. o[2] = q[2] /\ o[1] = q[1]
  BY <1>1, <1>2, <1>3
<1> QED BY <1>1, <1>4

(* A part has the frame's pixels from its column and row on. *)
LEMMA PartMemory ==
  ASSUME NEW f, IsFrame(f), NEW left \in Nat, NEW top \in Nat,
         NEW part, IsPart(part, f, left, top)
  PROVE  /\ Offsets(part) # {}
         /\ \A o \in Offsets(part) :
              /\ <<left + o[1], top + o[2]>> \in Offsets(f)
              /\ Address(part, o) = Address(f, <<left + o[1], top + o[2]>>)
<1>1. /\ part.width \in Nat \ {0} /\ part.height \in Nat \ {0}
      /\ left + part.width <= f.width /\ top + part.height <= f.height
      /\ part.pitch = f.pitch /\ f.pitch \in Nat /\ f.buf \in Nat
      /\ part.buf = f.buf + top * f.pitch + left
      /\ f.width \in Nat /\ f.height \in Nat
  BY DEF IsPart, IsFrame
<1>2. <<0, 0>> \in Offsets(part)
  BY <1>1 DEF Offsets
<1>3. ASSUME NEW o \in Offsets(part)
      PROVE  /\ <<left + o[1], top + o[2]>> \in Offsets(f)
             /\ Address(part, o) = Address(f, <<left + o[1], top + o[2]>>)
  <2>1. o[1] \in 0 .. part.width - 1 /\ o[2] \in 0 .. part.height - 1
    BY DEF Offsets
  <2>2. left + o[1] \in 0 .. f.width - 1 /\ top + o[2] \in 0 .. f.height - 1
    BY <1>1, <2>1
  <2> DEFINE p == f.pitch
             b == f.buf
             x == o[1]
             y == o[2]
  <2>3. p \in Nat /\ b \in Nat /\ x \in Nat /\ y \in Nat
    BY <1>1, <2>1
  <2> HIDE DEF p, b, x, y
  <2>4. (b + top * p + left) + y * p + x = b + (top + y) * p + (left + x)
    BY <2>3
  <2>5. Address(part, o) = Address(f, <<left + o[1], top + o[2]>>)
    BY <1>1, <2>4 DEF Address, p, b, x, y
  <2> QED BY <2>2, <2>5 DEF Offsets
<1> QED BY <1>2, <1>3

----------------------------------------------------------------------------
(* Cutting a side *)

(* Pieces of a side, one after another: the first pixel of each, and how many. *)
IsCut(left, len, size, n) ==
  /\ \A i \in 0 .. n - 1 :
       left[i] \in Nat /\ len[i] \in Nat \ {0} /\ left[i] + len[i] <= size
  /\ \A i, j \in 0 .. n - 1 : i < j => left[i] + len[i] <= left[j]

(* They leave nothing out. *)
IsWhole(left, len, size, n) ==
  \A p \in 0 .. size - 1 : \E i \in 0 .. n - 1 : left[i] <= p /\ p < left[i] + len[i]

(* A grid of parts, each of a column and a row. *)
IsGrid(parts, f, left, wid, C, top, hgt, R) ==
  /\ DOMAIN parts = 0 .. C * R - 1
  /\ \A n \in 0 .. C * R - 1 :
       /\ IsPart(parts[n], f, left[n % C], top[n \div C])
       /\ parts[n].width = wid[n % C] /\ parts[n].height = hgt[n \div C]

(* No two parts of a grid share a pixel. *)
LEMMA GridApart ==
  ASSUME NEW f, IsFrame(f), NEW C \in Nat \ {0}, NEW R \in Nat \ {0},
         NEW left, NEW wid, NEW top, NEW hgt, NEW parts,
         IsCut(left, wid, f.width, C), IsCut(top, hgt, f.height, R),
         IsGrid(parts, f, left, wid, C, top, hgt, R)
  PROVE  Apart(parts, f)
<1>1. DOMAIN parts = 0 .. C * R - 1 /\ C * R \in Nat \ {0}
  BY Numbered DEF IsGrid
<1> DEFINE col(n) == n % C
           row(n) == n \div C
<1>2. ASSUME NEW n \in DOMAIN parts
      PROVE  /\ col(n) \in 0 .. C - 1 /\ row(n) \in 0 .. R - 1 /\ n = row(n) * C + col(n)
             /\ left[col(n)] \in Nat /\ top[row(n)] \in Nat
             /\ IsPart(parts[n], f, left[col(n)], top[row(n)])
             /\ parts[n].width = wid[col(n)] /\ parts[n].height = hgt[row(n)]
  <2>1. n \in 0 .. C * R - 1
    BY <1>1
  <2>2. col(n) \in 0 .. C - 1 /\ row(n) \in 0 .. R - 1
    BY <2>1, Numbered
  <2>3. n = row(n) * C + col(n)
    <3>1. n \in Nat
      BY <1>1, <2>1
    <3> QED BY <3>1, DivMod
  <2>4. left[col(n)] \in Nat /\ top[row(n)] \in Nat
    BY <2>2 DEF IsCut
  <2> QED BY <2>1, <2>2, <2>3, <2>4 DEF IsGrid
<1> HIDE DEF col, row
<1>3. ASSUME NEW n \in DOMAIN parts
      PROVE  Memory(parts[n]) # {} /\ Memory(parts[n]) \subseteq Memory(f)
  <2> DEFINE l == left[col(n)]
             t == top[row(n)]
             part == parts[n]
  <2>1. l \in Nat /\ t \in Nat /\ IsPart(part, f, l, t)
    BY <1>2
  <2> HIDE DEF l, t, part
  <2>2. /\ Offsets(part) # {}
        /\ \A o \in Offsets(part) :
              /\ <<l + o[1], t + o[2]>> \in Offsets(f)
              /\ Address(part, o) = Address(f, <<l + o[1], t + o[2]>>)
    BY <2>1, PartMemory
  <2>3. Memory(part) # {}
    BY <2>2 DEF Memory
  <2>4. Memory(part) \subseteq Memory(f)
    <3>1. ASSUME NEW o \in Offsets(part)
          PROVE  Address(part, o) \in Memory(f)
      BY <2>2, Zenon DEF Memory
    <3> QED BY <3>1 DEF Memory
  <2> QED BY <2>3, <2>4 DEF part
<1>4. ASSUME NEW n \in DOMAIN parts
      PROVE  parts[n].width + parts[n].stride = parts[n].pitch
  BY <1>2 DEF IsPart
<1>5. ASSUME NEW n \in DOMAIN parts, NEW m \in DOMAIN parts, m # n,
             NEW a \in Memory(parts[m]), a \in Memory(parts[n])
      PROVE  FALSE
  <2> DEFINE l(k) == left[col(k)]
             t(k) == top[row(k)]
  <2>1. ASSUME NEW k \in DOMAIN parts, a \in Memory(parts[k])
        PROVE  \E o \in Offsets(f) :
                 /\ a = Address(f, o)
                 /\ l(k) <= o[1] /\ o[1] < l(k) + wid[col(k)]
                 /\ t(k) <= o[2] /\ o[2] < t(k) + hgt[row(k)]
    <3>1. PICK o \in Offsets(parts[k]) : a = Address(parts[k], o)
      BY <2>1 DEF Memory
    <3>2. l(k) \in Nat /\ t(k) \in Nat /\ IsPart(parts[k], f, l(k), t(k))
          /\ parts[k].width = wid[col(k)] /\ parts[k].height = hgt[row(k)]
      BY <1>2
    <3>3. /\ <<l(k) + o[1], t(k) + o[2]>> \in Offsets(f)
          /\ Address(parts[k], o) = Address(f, <<l(k) + o[1], t(k) + o[2]>>)
      <4> DEFINE lk == l(k)
                 tk == t(k)
                 part == parts[k]
      <4>1. lk \in Nat /\ tk \in Nat /\ IsPart(part, f, lk, tk) /\ o \in Offsets(part)
        BY <3>2
      <4> HIDE DEF lk, tk, part
      <4>2. /\ <<lk + o[1], tk + o[2]>> \in Offsets(f)
            /\ Address(part, o) = Address(f, <<lk + o[1], tk + o[2]>>)
        BY <4>1, PartMemory
      <4> QED BY <4>2 DEF lk, tk, part
    <3>4. /\ o[1] \in 0 .. wid[col(k)] - 1 /\ o[2] \in 0 .. hgt[row(k)] - 1
          /\ wid[col(k)] \in Nat /\ hgt[row(k)] \in Nat
      BY <3>2 DEF Offsets, IsPart
    <3> DEFINE q == <<l(k) + o[1], t(k) + o[2]>>
    <3>5. /\ l(k) <= q[1] /\ q[1] < l(k) + wid[col(k)]
          /\ t(k) <= q[2] /\ q[2] < t(k) + hgt[row(k)]
      <4> HIDE DEF l, t
      <4> QED BY <3>2, <3>4
    <3>6. q \in Offsets(f) /\ a = Address(f, q)
      BY <3>1, <3>3
    <3> HIDE DEF q, l, t
    <3> QED BY <3>5, <3>6
  <2>2. PICK o \in Offsets(f) : a = Address(f, o) /\ l(n) <= o[1] /\ o[1] < l(n) + wid[col(n)]
                                /\ t(n) <= o[2] /\ o[2] < t(n) + hgt[row(n)]
    BY <1>5, <2>1
  <2>3. PICK q \in Offsets(f) : a = Address(f, q) /\ l(m) <= q[1] /\ q[1] < l(m) + wid[col(m)]
                                /\ t(m) <= q[2] /\ q[2] < t(m) + hgt[row(m)]
    BY <1>5, <2>1
  <2>4. o = q
    BY <2>2, <2>3, Injective
  <2>5. o[1] \in Nat /\ o[2] \in Nat
    BY DEF Offsets
  <2>6. ASSUME NEW at, NEW len, NEW size, NEW count \in Nat, IsCut(at, len, size, count),
               NEW i \in 0 .. count - 1, NEW j \in 0 .. count - 1, NEW p \in Nat,
               at[i] <= p, p < at[i] + len[i], at[j] <= p, p < at[j] + len[j]
        PROVE  i = j
    <3>1. /\ at[i] \in Nat /\ len[i] \in Nat /\ at[j] \in Nat /\ len[j] \in Nat
          /\ i < j => at[i] + len[i] <= at[j]
          /\ j < i => at[j] + len[j] <= at[i]
      BY <2>6 DEF IsCut
    <3>2. ~(i < j) /\ ~(j < i)
      BY <2>6, <3>1
    <3> QED BY <3>2
  <2>7. /\ col(n) \in 0 .. C - 1 /\ row(n) \in 0 .. R - 1 /\ n = row(n) * C + col(n)
        /\ col(m) \in 0 .. C - 1 /\ row(m) \in 0 .. R - 1 /\ m = row(m) * C + col(m)
    BY <1>2
  <2>8. col(n) = col(m)
    BY <2>2, <2>3, <2>4, <2>5, <2>6, <2>7
  <2>9. row(n) = row(m)
    BY <2>2, <2>3, <2>4, <2>5, <2>6, <2>7
  <2> QED BY <1>5, <2>7, <2>8, <2>9
<1> QED BY <1>3, <1>4, <1>5 DEF Apart

(* Nor do they leave one out, when the columns and the rows do not. *)
LEMMA GridWhole ==
  ASSUME NEW f, IsFrame(f), NEW C \in Nat \ {0}, NEW R \in Nat \ {0},
         NEW left, NEW wid, NEW top, NEW hgt, NEW parts,
         IsCut(left, wid, f.width, C), IsCut(top, hgt, f.height, R),
         IsWhole(left, wid, f.width, C), IsWhole(top, hgt, f.height, R),
         IsGrid(parts, f, left, wid, C, top, hgt, R)
  PROVE  Memory(f) = UNION {Memory(parts[n]) : n \in DOMAIN parts}
<1>1. Apart(parts, f)
  BY GridApart
<1>2. ASSUME NEW o \in Offsets(f)
      PROVE  \E n \in DOMAIN parts : Address(f, o) \in Memory(parts[n])
  <2>1. o[1] \in 0 .. f.width - 1 /\ o[2] \in 0 .. f.height - 1 /\ o = <<o[1], o[2]>>
    BY DEF Offsets
  <2>2. PICK x \in 0 .. C - 1 : left[x] <= o[1] /\ o[1] < left[x] + wid[x]
    BY <2>1 DEF IsWhole
  <2>3. PICK y \in 0 .. R - 1 : top[y] <= o[2] /\ o[2] < top[y] + hgt[y]
    BY <2>1 DEF IsWhole
  <2> DEFINE n == y * C + x
  <2>4. n \in 0 .. C * R - 1 /\ n % C = x /\ n \div C = y
    <3>1. \A i \in 0 .. C - 1, j \in 0 .. R - 1 :
            j * C + i \in 0 .. C * R - 1 /\ (j * C + i) % C = i /\ (j * C + i) \div C = j
      BY Numbered
    <3> QED BY <3>1, Zenon
  <2> HIDE DEF n
  <2>5. /\ n \in DOMAIN parts /\ IsPart(parts[n], f, left[x], top[y])
        /\ parts[n].width = wid[x] /\ parts[n].height = hgt[y]
    BY <2>4 DEF IsGrid
  <2>6. /\ left[x] \in Nat /\ top[y] \in Nat /\ wid[x] \in Nat /\ hgt[y] \in Nat
    BY DEF IsCut
  <2> DEFINE l == left[x]
             t == top[y]
             part == parts[n]
             q == <<o[1] - l, o[2] - t>>
  <2>7. q \in Offsets(part)
    <3>1. o[1] - l \in 0 .. wid[x] - 1 /\ o[2] - t \in 0 .. hgt[y] - 1
      BY <2>1, <2>2, <2>3, <2>6
    <3> QED BY <2>5, <3>1 DEF Offsets
  <2>8. l + q[1] = o[1] /\ t + q[2] = o[2]
    BY <2>1, <2>6
  <2>9. l \in Nat /\ t \in Nat /\ IsPart(part, f, l, t)
    BY <2>5, <2>6
  <2> HIDE DEF l, t, part, q
  <2>10. Address(part, q) = Address(f, <<l + q[1], t + q[2]>>)
    BY <2>7, <2>9, PartMemory
  <2>11. Address(part, q) = Address(f, o)
    BY <2>1, <2>8, <2>10
  <2>12. Address(f, o) \in Memory(part)
    BY <2>7, <2>11 DEF Memory
  <2> QED BY <2>5, <2>12 DEF part
<1>3. Memory(f) \subseteq UNION {Memory(parts[n]) : n \in DOMAIN parts}
  BY <1>2 DEF Memory
<1>4. \A n \in DOMAIN parts : Memory(parts[n]) \subseteq Memory(f)
  BY <1>1 DEF Apart
<1> QED BY <1>3, <1>4

(* Tiles of a side, clipped by a shift at its start and by its end. *)
Lefts(t, shift) == [i \in Nat |-> IF i = 0 THEN 0 ELSE i * t - shift]
Lens(size, t, shift) ==
  [i \in Nat |-> AtMost(size - Lefts(t, shift)[i], IF i = 0 THEN t - shift ELSE t)]

(* There are as many tiles as begin on the side, and at least one. *)
LEMMA TilesCount ==
  ASSUME NEW size \in Nat \ {0}, NEW t \in Nat \ {0}
  PROVE  /\ Tiles(size, t) \in Nat \ {0} /\ Tiles(size, t) <= size
         /\ \A i \in Nat : i < Tiles(size, t) <=> i * t < size
         /\ Tiles(size, t) * t - size \in 0 .. t - 1
<1> DEFINE q == size \div t
           r == size % t
           n == Tiles(size, t)
           u == q * t
<1>1. q \in Nat /\ r \in 0 .. t - 1 /\ size = u + r /\ n = q + (IF r = 0 THEN 0 ELSE 1)
  BY DivMod DEF Tiles
<1> HIDE DEF q, r, n
<1>2. u \in Nat
  BY <1>1
<1>3. ASSUME NEW i \in Nat
      PROVE  i < n <=> i * t < size
  <2>1. CASE i < q
    <3>1. i * t + t <= u /\ i * t \in Nat
      BY <1>1, <2>1, Scaled
    <3> DEFINE v == i * t
    <3>2. v + t <= u /\ v \in Nat
      BY <3>1
    <3> HIDE DEF u, v
    <3>3. v < size
      BY <1>1, <1>2, <3>2
    <3> QED BY <1>1, <2>1, <3>3 DEF v
  <2>2. CASE i = q
    <3>1. i * t = u
      BY <2>2
    <3> HIDE DEF u
    <3> QED BY <1>1, <1>2, <2>2, <3>1
  <2>3. CASE q < i
    <3>1. u + t <= i * t /\ i * t \in Nat
      BY <1>1, <2>3, Scaled
    <3> DEFINE v == i * t
    <3>2. u + t <= v /\ v \in Nat
      BY <3>1
    <3> HIDE DEF u, v
    <3>3. ~(v < size) /\ ~(i < n)
      BY <1>1, <1>2, <2>3, <3>2
    <3> QED BY <3>3 DEF v
  <2> QED BY <1>1, <2>1, <2>2, <2>3
<1>4. n * t - size \in 0 .. t - 1
  <2>1. n * t = u + (IF r = 0 THEN 0 ELSE t)
    BY <1>1
  <2> HIDE DEF u
  <2> QED BY <1>1, <1>2, <2>1
<1>5. n \in Nat \ {0} /\ n <= size
  <2>1. n \in Nat
    BY <1>1
  <2>2. 0 < n
    BY <1>3
  <2>3. (n - 1) * t < size /\ n - 1 \in Nat
    BY <1>3, <2>1, <2>2
  <2>4. n - 1 <= (n - 1) * t /\ (n - 1) * t \in Nat
    <3>1. \A i \in Nat : i <= i * t /\ i * t \in Nat
      BY SMT
    <3> QED BY <2>3, <3>1
  <2> DEFINE v == (n - 1) * t
  <2>5. v < size /\ n - 1 <= v /\ v \in Nat
    BY <2>3, <2>4
  <2> HIDE DEF v
  <2> QED BY <2>1, <2>2, <2>5
<1> QED BY <1>3, <1>4, <1>5 DEF n

(* However the first is clipped, if the last is clipped no more than at the end. *)
LEMMA TilesCut ==
  ASSUME NEW size \in Nat \ {0}, NEW t \in Nat \ {0},
         NEW shift \in 0 .. Tiles(size, t) * t - size
  PROVE  /\ IsCut(Lefts(t, shift), Lens(size, t, shift), size, Tiles(size, t))
         /\ IsWhole(Lefts(t, shift), Lens(size, t, shift), size, Tiles(size, t))
<1> DEFINE n == Tiles(size, t)
           end == n * t
           left == Lefts(t, shift)
           len == Lens(size, t, shift)
<1>1. /\ n \in Nat \ {0} /\ \A i \in Nat : i < n <=> i * t < size
      /\ end - size \in 0 .. t - 1 /\ shift \in 0 .. end - size
  BY TilesCount
<1>2. end \in Nat /\ shift \in Nat /\ shift < t /\ size + shift <= end
  <2>1. end \in Nat
    BY <1>1
  <2> HIDE DEF end
  <2> QED BY <1>1, <2>1
<1>3. ASSUME NEW i \in Nat
      PROVE  /\ left[i] = IF i = 0 THEN 0 ELSE i * t - shift
             /\ len[i] = AtMost(size - left[i], IF i = 0 THEN t - shift ELSE t)
  BY DEF Lefts, Lens
<1> HIDE DEF n, left, len
<1>4. ASSUME NEW i \in 0 .. n - 1
      PROVE  left[i] \in Nat /\ len[i] \in Nat \ {0} /\ left[i] + len[i] <= size
  <2> DEFINE v == i * t
  <2>1. v \in Nat /\ v < size /\ i \in Nat /\ (i # 0 => t <= v)
    <3>1. i \in Nat /\ i < n
      BY <1>1
    <3>2. i # 0 => t <= i * t
      <4>1. ASSUME i # 0 PROVE t <= i * t
        <5>1. i - 1 \in Nat /\ i * t = (i - 1) * t + t /\ (i - 1) * t \in Nat
          BY <3>1, <4>1
        <5> DEFINE w == (i - 1) * t
        <5>2. i * t = w + t /\ w \in Nat
          BY <5>1
        <5> HIDE DEF w
        <5> QED BY <5>2
      <4> QED BY <4>1
    <3> QED BY <1>1, <3>1, <3>2
  <2>2. /\ left[i] = IF i = 0 THEN 0 ELSE v - shift
        /\ len[i] = AtMost(size - left[i], IF i = 0 THEN t - shift ELSE t)
    BY <1>3, <2>1
  <2> HIDE DEF v, end
  <2> QED BY <1>2, <2>1, <2>2 DEF AtMost
<1>5. ASSUME NEW i \in 0 .. n - 1, NEW j \in 0 .. n - 1, i < j
      PROVE  left[i] + len[i] <= left[j]
  <2> DEFINE v == i * t
             w == j * t
  <2>1. v + t <= w /\ v \in Nat /\ w \in Nat /\ i \in Nat /\ j \in Nat /\ j # 0 /\ (i = 0 => v = 0)
    <3>1. i \in Nat /\ j \in Nat
      BY <1>1
    <3>2. i * t + t <= j * t /\ i * t \in Nat /\ j * t \in Nat
      BY <1>5, <3>1, Scaled
    <3> QED BY <1>5, <3>1, <3>2
  <2>2. /\ left[i] = (IF i = 0 THEN 0 ELSE v - shift) /\ left[j] = w - shift
        /\ len[i] = AtMost(size - left[i], IF i = 0 THEN t - shift ELSE t)
    BY <1>3, <2>1
  <2>3. len[i] \in Nat /\ left[i] \in Nat
    BY <1>4
  <2> HIDE DEF v, w, end
  <2>4. len[i] <= (IF i = 0 THEN t - shift ELSE t)
    BY <1>2, <2>2, <2>3 DEF AtMost
  <2> QED BY <1>2, <2>1, <2>2, <2>3, <2>4
<1>6. ASSUME NEW p \in 0 .. size - 1
      PROVE  \E i \in 0 .. n - 1 : left[i] <= p /\ p < left[i] + len[i]
  <2> DEFINE i == (p + shift) \div t
             r == (p + shift) % t
             v == i * t
  <2>1. i \in Nat /\ r \in 0 .. t - 1 /\ p + shift = v + r /\ v \in Nat /\ (i = 0 => v = 0)
    <3>1. p + shift \in Nat
      BY <1>2
    <3>2. i \in Nat /\ r \in 0 .. t - 1 /\ p + shift = i * t + r
      BY <3>1, DivMod
    <3> HIDE DEF i
    <3> QED BY <3>2
  <2> HIDE DEF i, r
  <2>2. i < n
    <3>1. CASE n <= i
      <4>1. end <= v
        <5>1. CASE n = i
          BY <1>1, <1>2, <2>1, <5>1
        <5>2. CASE n < i
          <6>1. n * t + t <= i * t /\ n * t \in Nat /\ i * t \in Nat
            BY <1>1, <2>1, <5>2, Scaled
          <6> QED BY <6>1
        <5> QED BY <1>1, <2>1, <3>1, <5>1, <5>2
      <4> HIDE DEF end, v
      <4> QED BY <1>2, <2>1, <4>1
    <3> QED BY <1>1, <2>1, <3>1
  <2>3. /\ left[i] = IF i = 0 THEN 0 ELSE v - shift
        /\ len[i] = AtMost(size - left[i], IF i = 0 THEN t - shift ELSE t)
    BY <1>3, <2>1
  <2>4. i \in 0 .. n - 1 /\ left[i] \in Nat /\ len[i] \in Nat
    <3>1. i \in 0 .. n - 1
      BY <1>1, <2>1, <2>2
    <3> QED BY <1>4, <3>1
  <2> HIDE DEF v, end
  <2>5. left[i] <= p
    BY <1>2, <2>1, <2>3
  <2>6. p < left[i] + (IF i = 0 THEN t - shift ELSE t)
    BY <1>2, <2>1, <2>3
  <2>7. p < left[i] + len[i]
    BY <1>2, <2>3, <2>4, <2>5, <2>6 DEF AtMost
  <2> QED BY <2>4, <2>5, <2>7
<1>7. IsCut(left, len, size, n)
  BY <1>4, <1>5 DEF IsCut
<1>8. IsWhole(left, len, size, n)
  BY <1>6 DEF IsWhole
<1> QED BY <1>7, <1>8 DEF n, left, len

----------------------------------------------------------------------------
(* The fragmenters *)

Frames ==
  {f \in [x : Nat, y : Nat, width : Nat, height : Nat, buf : Nat, pitch : Nat, stride : Nat] : IsFrame(f)}

(* til_fb_fragment_slice_single() leaves no row out, and gives none to two slices. *)
LEMMA SlicesCutWell ==
  ASSUME NEW whole \in Frames, NEW k \in Nat \ {0}
  PROVE  LET Slices(n) == til_fb_fragment_slice_single(whole, k, n)
         IN  CutsWell(Slices, whole) /\ InPlace(Slices, whole)
<1> DEFINE Slices(n) == til_fb_fragment_slice_single(whole, k, n)
           W == whole.width
           H == whole.height
           t == AtLeast(H \div k, 1)
           R == Tiles(H, t)
           left == Lefts(W, 0)
           wid == Lens(W, W, 0)
           top == Lefts(t, 0)
           hgt == Lens(H, t, 0)
           parts == [n \in 0 .. R - 1 |-> Slices(n)]
<1>1. /\ W \in Nat \ {0} /\ H \in Nat \ {0} /\ IsFrame(whole)
      /\ whole \in [x : Nat, y : Nat, width : Nat, height : Nat, buf : Nat, pitch : Nat, stride : Nat]
  BY DEF Frames, IsFrame
<1>2. t \in Nat \ {0}
  <2>1. H \div k \in Nat
    BY <1>1, DivMod
  <2> QED BY <2>1 DEF AtLeast
<1>3. ASSUME NEW n \in Nat
      PROVE  Slices(n) = IF n * t >= H THEN None
                         ELSE [whole EXCEPT !.buf = @ + (n * t) * whole.pitch, !.y = @ + n * t,
                                            !.height = AtMost(@ - n * t, t)]
  <2>1. t * n = n * t
    BY <1>2
  <2> QED BY <2>1 DEF til_fb_fragment_slice_single
<1> HIDE DEF t, Slices
<1>4. /\ R \in Nat \ {0} /\ R <= H /\ \A n \in Nat : n < R <=> n * t < H
      /\ 0 \in 0 .. R * t - H
  <2>1. /\ R \in Nat \ {0} /\ R <= H /\ \A n \in Nat : n < R <=> n * t < H
        /\ R * t - H \in 0 .. t - 1
    BY <1>1, <1>2, TilesCount
  <2> DEFINE e == R * t - H
  <2> HIDE DEF e
  <2>2. 0 \in 0 .. e
    BY <1>2, <2>1 DEF e
  <2> QED BY <2>1, <2>2 DEF e
<1>5. Tiles(W, W) = 1 /\ 0 \in 0 .. 1 * W - W
  <2>1. W \div W = 1 /\ W % W = 0
    <3>1. (1 * W + 0) \div W = 1 /\ (1 * W + 0) % W = 0
      BY <1>1, DivModOf
    <3>2. 1 * W + 0 = W
      BY <1>1
    <3> QED BY <3>1, <3>2
  <2> QED BY <1>1, <2>1 DEF Tiles
<1>6. /\ IsCut(left, wid, W, 1) /\ IsWhole(left, wid, W, 1)
      /\ IsCut(top, hgt, H, R) /\ IsWhole(top, hgt, H, R)
  BY <1>1, <1>2, <1>4, <1>5, TilesCut
<1>7. left[0] = 0 /\ wid[0] = W
  BY <1>1 DEF Lefts, Lens, AtMost
<1>8. ASSUME NEW n \in 0 .. R - 1
      PROVE  /\ n \in Nat /\ n < R /\ n * t < H /\ n * t \in Nat
             /\ top[n] = n * t /\ hgt[n] = AtMost(H - n * t, t)
             /\ top[n] \in Nat /\ hgt[n] \in Nat \ {0} /\ top[n] + hgt[n] <= H
  <2>1. n \in Nat /\ n < R
    BY <1>4
  <2>2. n * t < H /\ n * t \in Nat
    BY <1>2, <1>4, <2>1
  <2>3. top[n] = (IF n = 0 THEN 0 ELSE n * t - 0) /\ hgt[n] = AtMost(H - top[n], IF n = 0 THEN t - 0 ELSE t)
    BY <2>1 DEF Lefts, Lens
  <2>4. top[n] = n * t /\ hgt[n] = AtMost(H - n * t, t)
    <3>1. n = 0 => n * t = 0
      BY <1>2
    <3> DEFINE v == n * t
    <3> HIDE DEF v
    <3> QED BY <1>2, <2>2, <2>3, <3>1 DEF v
  <2>5. top[n] \in Nat /\ hgt[n] \in Nat \ {0} /\ top[n] + hgt[n] <= H
    BY <1>6 DEF IsCut
  <2> QED BY <2>1, <2>2, <2>4, <2>5
<1> HIDE DEF R, left, wid, top, hgt
<1>9. ASSUME NEW n \in 0 .. R - 1
      PROVE  /\ IsPart(Slices(n), whole, 0, top[n])
             /\ Slices(n).width = W /\ Slices(n).height = hgt[n]
             /\ Slices(n).x = whole.x /\ Slices(n).y = whole.y + top[n]
             /\ Slices(n) # None
  <2> DEFINE v == n * t
             h == hgt[n]
             b == whole.buf + v * whole.pitch
  <2>1. v \in Nat /\ v < H /\ v + h <= H /\ h \in Nat \ {0} /\ top[n] = v /\ h = AtMost(H - v, t) /\ n \in Nat
    BY <1>8
  <2>2. Slices(n) = [whole EXCEPT !.buf = b, !.y = whole.y + v, !.height = h]
    <3>1. ~(v >= H)
      <4> HIDE DEF v
      <4> QED BY <1>1, <2>1
    <3>2. Slices(n) = [whole EXCEPT !.buf = @ + v * whole.pitch, !.y = @ + v, !.height = AtMost(@ - v, t)]
      BY <1>3, <2>1, <3>1
    <3> HIDE DEF v, h
    <3> QED BY <1>1, <2>1, <3>2
  <2>3. b = whole.buf + v * whole.pitch + 0
    <3>1. b \in Nat
      BY <1>1, <2>1
    <3> HIDE DEF b
    <3>2. b = b + 0
      BY <3>1
    <3> QED BY <3>2 DEF b
  <2> HIDE DEF v, h, b
  <2>4. /\ Slices(n).width = W /\ Slices(n).height = h /\ Slices(n).pitch = whole.pitch
        /\ Slices(n).stride = whole.stride /\ Slices(n).buf = b
        /\ Slices(n).x = whole.x /\ Slices(n).y = whole.y + v
    BY <1>1, <2>2
  <2>5. Slices(n) # None
    BY <1>1, <2>4 DEF None
  <2>6. IsPart(Slices(n), whole, 0, v)
    BY <1>1, <2>1, <2>3, <2>4 DEF IsPart, IsFrame
  <2> QED BY <2>1, <2>4, <2>5, <2>6 DEF h
<1>10. ASSUME NEW n \in Nat, R <= n
       PROVE  Slices(n) = None
  <2> DEFINE v == n * t
  <2>1. ~(v < H) /\ v \in Nat
    <3>1. ~(n < R)
      BY <1>4, <1>10
    <3> QED BY <1>2, <1>4, <3>1
  <2>2. v >= H
    <3> HIDE DEF v
    <3> QED BY <1>1, <2>1
  <2> QED BY <1>3, <2>2
<1>11. IsGrid(parts, whole, left, wid, 1, top, hgt, R)
  <2>1. 1 * R - 1 = R - 1
    BY <1>4
  <2>2. ASSUME NEW n \in 0 .. R - 1
        PROVE  n % 1 = 0 /\ n \div 1 = n
    <3>1. n \in Nat /\ 0 \in 0 .. 1 - 1
      BY <1>8
    <3>2. (n * 1 + 0) \div 1 = n /\ (n * 1 + 0) % 1 = 0
      BY <3>1, DivModOf
    <3>3. n * 1 + 0 = n
      BY <3>1
    <3> QED BY <3>2, <3>3
  <2> QED BY <1>7, <1>9, <2>1, <2>2 DEF IsGrid
<1>12. Apart(parts, whole) /\ Memory(whole) = UNION {Memory(parts[n]) : n \in DOMAIN parts}
  <2> HIDE DEF parts
  <2>1. 1 \in Nat \ {0}
    OBVIOUS
  <2>2. Apart(parts, whole)
    BY <1>1, <1>4, <1>6, <1>11, <2>1, GridApart
  <2>3. Memory(whole) = UNION {Memory(parts[n]) : n \in DOMAIN parts}
    BY <1>1, <1>4, <1>6, <1>11, <2>1, GridWhole
  <2> QED BY <2>2, <2>3
<1>13. Parts(Slices, whole) = parts
  <2> DEFINE last == CHOOSE n \in 0 .. W * H : Slices(n) # None /\ Slices(n + 1) = None
  <2>1. R - 1 \in 0 .. W * H
    <3>1. H <= W * H /\ W * H \in Nat
      BY <1>1
    <3> DEFINE a == W * H
    <3> HIDE DEF a
    <3>2. R - 1 \in 0 .. a
      BY <1>1, <1>4, <3>1 DEF a
    <3> QED BY <3>2 DEF a
  <2>2. Slices(R - 1) # None /\ Slices(R - 1 + 1) = None
    <3>1. R - 1 \in 0 .. R - 1 /\ R - 1 + 1 \in Nat /\ R <= R - 1 + 1
      BY <1>4
    <3> QED BY <1>9, <1>10, <3>1
  <2>3. last \in 0 .. W * H /\ Slices(last) # None /\ Slices(last + 1) = None
    BY <2>1, <2>2
  <2> HIDE DEF last
  <2>4. last \in Nat
    BY <1>1, <2>3
  <2>5. last < R
    BY <1>4, <1>10, <2>3, <2>4
  <2>6. ~(last + 1 < R)
    <3>1. last + 1 < R => last + 1 \in 0 .. R - 1
      BY <1>4, <2>4
    <3> QED BY <1>9, <2>3, <3>1
  <2>7. last = R - 1
    BY <1>4, <2>4, <2>5, <2>6
  <2> QED BY <2>7 DEF Parts, last
<1>14. ASSUME NEW n \in DOMAIN parts
       PROVE  Slices(n + Cardinality(DOMAIN parts)) = None
  <2>1. Cardinality(DOMAIN parts) = R
    <3>1. 0 \in Int /\ R - 1 \in Int /\ ~(0 > R - 1) /\ R - 1 - 0 + 1 = R
      BY <1>4
    <3>2. Cardinality(0 .. R - 1) = IF 0 > R - 1 THEN 0 ELSE R - 1 - 0 + 1
      BY <3>1, FS_Interval, Zenon
    <3> QED BY <3>1, <3>2
  <2>2. n + R \in Nat /\ R <= n + R
    BY <1>4
  <2> QED BY <1>10, <2>1, <2>2
<1>15. CutsWell(Slices, whole)
  BY <1>12, <1>13, <1>14 DEF CutsWell
<1>16. ASSUME NEW n \in DOMAIN parts
       PROVE  Address(parts[n], <<0, 0>>) = Address(whole, <<parts[n].x - whole.x, parts[n].y - whole.y>>)
  <2>1. parts[n] = Slices(n) /\ n \in 0 .. R - 1
    OBVIOUS
  <2>2. /\ parts[n].x = whole.x /\ parts[n].y = whole.y + top[n]
        /\ IsPart(parts[n], whole, 0, top[n]) /\ top[n] \in Nat
    BY <1>8, <1>9, <2>1
  <2>3. parts[n].x - whole.x = 0 /\ parts[n].y - whole.y = top[n]
    BY <1>1, <2>2
  <2> DEFINE part == parts[n]
             v == top[n]
  <2>4. IsPart(part, whole, 0, v) /\ v \in Nat
    BY <2>2
  <2> HIDE DEF part, v
  <2>5. <<0, 0>> \in Offsets(part)
    BY <2>4 DEF IsPart, Offsets
  <2>6. Address(part, <<0, 0>>) = Address(whole, <<0 + 0, v + 0>>)
    BY <1>1, <2>4, <2>5, PartMemory
  <2>7. v + 0 = v
    BY <2>4
  <2> QED BY <2>3, <2>6, <2>7 DEF part, v
<1>17. InPlace(Slices, whole)
  BY <1>13, <1>16 DEF InPlace
<1> QED BY <1>15, <1>17 DEF Slices

(* Tiles that are not shifted. *)
LEMMA Unshifted ==
  ASSUME NEW size \in Nat \ {0}, NEW t \in Nat \ {0}, NEW i \in Nat
  PROVE  /\ 0 \in 0 .. Tiles(size, t) * t - size
         /\ i * t \in Nat
         /\ Lefts(t, 0)[i] = i * t /\ Lens(size, t, 0)[i] = AtMost(size - i * t, t)
<1> DEFINE v == i * t
           e == Tiles(size, t) * t - size
<1>1. e \in Nat
  <2>1. e \in 0 .. t - 1
    BY TilesCount
  <2> HIDE DEF e
  <2> QED BY <2>1
<1>2. v \in Nat /\ (i = 0 => v = 0)
  OBVIOUS
<1>3. Lefts(t, 0)[i] = IF i = 0 THEN 0 ELSE v - 0
  BY DEF Lefts
<1>4. Lens(size, t, 0)[i] = AtMost(size - Lefts(t, 0)[i], IF i = 0 THEN t - 0 ELSE t)
  BY DEF Lens
<1> HIDE DEF v, e
<1>5. Lefts(t, 0)[i] = v
  BY <1>2, <1>3
<1>6. Lens(size, t, 0)[i] = AtMost(size - v, t)
  BY <1>4, <1>5
<1>7. 0 \in 0 .. e
  BY <1>1
<1> QED BY <1>2, <1>5, <1>6, <1>7 DEF v, e

(* Numbers from zero on. *)
LEMMA NumbersCount ==
  ASSUME NEW a \in Nat \ {0}
  PROVE  Cardinality(0 .. a - 1) = a
<1>1. 0 \in Int /\ a - 1 \in Int /\ ~(0 > a - 1) /\ a - 1 - 0 + 1 = a
  OBVIOUS
<1>2. Cardinality(0 .. a - 1) = IF 0 > a - 1 THEN 0 ELSE a - 1 - 0 + 1
  BY <1>1, FS_Interval, Zenon
<1> QED BY <1>1, <1>2

(* There are no more parts than pixels. *)
LEMMA FewParts ==
  ASSUME NEW w \in Nat \ {0}, NEW h \in Nat \ {0}, NEW C \in Nat \ {0}, NEW R \in Nat \ {0},
         C <= w, R <= h
  PROVE  C * R \in Nat \ {0} /\ C * R <= w * h /\ C * R - 1 \in 0 .. w * h
<1> DEFINE a == C * R
           b == w * R
           c == w * h
<1>1. a \in Nat \ {0} /\ b \in Nat /\ c \in Nat
  OBVIOUS
<1>2. a <= b
  <2>1. CASE C < w
    <3>1. C * R + R <= w * R /\ C * R \in Nat /\ w * R \in Nat
      BY <2>1, Scaled
    <3> HIDE DEF a, b
    <3>2. a + R <= b
      BY <3>1 DEF a, b
    <3> QED BY <1>1, <3>2
  <2>2. CASE C = w
    BY <1>1, <2>2
  <2> QED BY <2>1, <2>2
<1>3. b <= c
  <2>1. CASE R < h
    <3>1. R * w + w <= h * w /\ R * w \in Nat /\ h * w \in Nat
      BY <2>1, Scaled
    <3>2. b = R * w /\ c = h * w
      OBVIOUS
    <3> HIDE DEF b, c
    <3>3. b + w <= c
      BY <3>1, <3>2
    <3> QED BY <1>1, <3>3
  <2>2. CASE R = h
    BY <1>1, <2>2
  <2> QED BY <2>1, <2>2
<1> HIDE DEF a, b, c
<1>4. a <= c /\ a - 1 \in 0 .. c
  BY <1>1, <1>2, <1>3
<1> QED BY <1>1, <1>4 DEF a, c

(* til_fb_fragment_tile_single() leaves no pixel out, and gives none to two tiles. *)
LEMMA TilesCutWell ==
  ASSUME NEW whole \in Frames, NEW t \in Nat \ {0}
  PROVE  LET Tile(n) == til_fb_fragment_tile_single(whole, t, n)
         IN  CutsWell(Tile, whole) /\ InPlace(Tile, whole)
<1> DEFINE Tile(n) == til_fb_fragment_tile_single(whole, t, n)
           W == whole.width
           H == whole.height
           C == Tiles(W, t)
           R == Tiles(H, t)
           left == Lefts(t, 0)
           wid == Lens(W, t, 0)
           top == Lefts(t, 0)
           hgt == Lens(H, t, 0)
           N == C * R
           parts == [n \in 0 .. N - 1 |-> Tile(n)]
<1>1. /\ W \in Nat \ {0} /\ H \in Nat \ {0} /\ IsFrame(whole)
      /\ whole \in [x : Nat, y : Nat, width : Nat, height : Nat, buf : Nat, pitch : Nat, stride : Nat]
  BY DEF Frames, IsFrame
<1>2. C \in Nat \ {0} /\ C <= W /\ R \in Nat \ {0} /\ R <= H
  BY <1>1, TilesCount
<1>3. /\ IsCut(left, wid, W, C) /\ IsWhole(left, wid, W, C)
      /\ IsCut(top, hgt, H, R) /\ IsWhole(top, hgt, H, R)
  BY <1>1, TilesCut, Unshifted
<1>4. ASSUME NEW n \in Nat
      PROVE  Tile(n) = LET xoff == (n % C) * t
                           yoff == (n \div C) * t
                           width == AtMost(W - xoff, t)
                       IN  IF n \div C >= R THEN None
                           ELSE [whole EXCEPT !.buf = @ + yoff * whole.pitch + xoff,
                                              !.x = @ + xoff, !.y = @ + yoff, !.width = width,
                                              !.height = AtMost(@ - yoff, t),
                                              !.stride = @ + (W - width)]
  BY DEF til_fb_fragment_tile_single
<1>5. ASSUME NEW i \in Nat
      PROVE  /\ left[i] = i * t /\ wid[i] = AtMost(W - i * t, t)
             /\ top[i] = i * t /\ hgt[i] = AtMost(H - i * t, t)
  BY <1>1, Unshifted
<1> HIDE DEF Tile, C, R, left, wid, top, hgt
<1>6. N \in Nat \ {0} /\ N - 1 \in 0 .. W * H
  BY <1>1, <1>2, FewParts
<1>7. /\ \A n \in 0 .. N - 1 : n % C \in 0 .. C - 1 /\ n \div C \in 0 .. R - 1
      /\ \A n \in Nat : n \div C < R <=> n < N
  BY <1>2, Numbered
<1>8. ASSUME NEW n \in 0 .. N - 1
      PROVE  /\ IsPart(Tile(n), whole, left[n % C], top[n \div C])
             /\ Tile(n).width = wid[n % C] /\ Tile(n).height = hgt[n \div C]
             /\ Tile(n).x = whole.x + left[n % C] /\ Tile(n).y = whole.y + top[n \div C]
             /\ left[n % C] \in Nat /\ top[n \div C] \in Nat
             /\ Tile(n) # None
  <2> DEFINE i == n % C
             j == n \div C
             l == i * t
             u == j * t
             w == wid[i]
             h == hgt[j]
             b == whole.buf + u * whole.pitch + l
  <2>1. i \in 0 .. C - 1 /\ j \in 0 .. R - 1
    BY <1>7
  <2>2. i \in Nat /\ j \in Nat /\ j < R /\ n \in Nat
    <3> HIDE DEF i, j, N
    <3> QED BY <1>2, <1>6, <2>1
  <2>3. /\ left[i] = l /\ w = AtMost(W - l, t) /\ top[j] = u /\ h = AtMost(H - u, t)
    BY <1>5, <2>2
  <2>4. /\ l \in Nat /\ w \in Nat \ {0} /\ l + w <= W /\ u \in Nat /\ h \in Nat \ {0} /\ u + h <= H
    <3>1. left[i] \in Nat /\ wid[i] \in Nat \ {0} /\ left[i] + wid[i] <= W
      BY <1>3, <2>1 DEF IsCut
    <3>2. top[j] \in Nat /\ hgt[j] \in Nat \ {0} /\ top[j] + hgt[j] <= H
      BY <1>3, <2>1 DEF IsCut
    <3> QED BY <2>3, <3>1, <3>2
  <2>5. Tile(n) = [whole EXCEPT !.buf = b, !.x = whole.x + l, !.y = whole.y + u, !.width = w,
                                !.height = h, !.stride = whole.stride + (W - w)]
    <3>1. ~(j >= R)
      BY <1>2, <2>2
    <3>2. Tile(n) = [whole EXCEPT !.buf = @ + u * whole.pitch + l,
                                  !.x = @ + l, !.y = @ + u, !.width = AtMost(W - l, t),
                                  !.height = AtMost(@ - u, t),
                                  !.stride = @ + (W - AtMost(W - l, t))]
      BY <1>4, <2>2, <3>1
    <3> HIDE DEF i, j, l, u, w, h
    <3> QED BY <1>1, <2>3, <3>2
  <2> HIDE DEF i, j, l, u, w, h, b
  <2>6. /\ Tile(n).width = w /\ Tile(n).height = h /\ Tile(n).pitch = whole.pitch
        /\ Tile(n).stride = whole.stride + (W - w) /\ Tile(n).buf = b
        /\ Tile(n).x = whole.x + l /\ Tile(n).y = whole.y + u
    BY <1>1, <2>5
  <2>7. Tile(n) # None
    BY <2>4, <2>6 DEF None
  <2>8. IsPart(Tile(n), whole, l, u)
    BY <1>1, <2>4, <2>6 DEF IsPart, IsFrame, b
  <2> QED BY <2>3, <2>4, <2>6, <2>7, <2>8 DEF i, j, w, h
<1>9. ASSUME NEW n \in Nat, N <= n
      PROVE  Tile(n) = None
  <2>1. ~(n \div C < R) /\ n \div C \in Nat
    <3>1. ~(n < N)
      <4> HIDE DEF N
      <4> QED BY <1>6, <1>9
    <3> QED BY <1>2, <1>7, <3>1, DivMod
  <2>2. n \div C >= R
    <3> DEFINE j == n \div C
    <3> HIDE DEF j
    <3>1. j >= R
      BY <1>2, <2>1 DEF j
    <3> QED BY <3>1 DEF j
  <2> QED BY <1>4, <2>2
<1>10. IsGrid(parts, whole, left, wid, C, top, hgt, R)
  BY <1>8 DEF IsGrid
<1>11. Apart(parts, whole)
  <2> HIDE DEF parts
  <2> QED BY <1>1, <1>2, <1>3, <1>10, GridApart
<1>12. Memory(whole) = UNION {Memory(parts[n]) : n \in DOMAIN parts}
  <2> HIDE DEF parts
  <2> QED BY <1>1, <1>2, <1>3, <1>10, GridWhole
<1>13. Parts(Tile, whole) = parts
  <2> DEFINE last == CHOOSE n \in 0 .. W * H : Tile(n) # None /\ Tile(n + 1) = None
             pixels == W * H
  <2>1. Tile(N - 1) # None /\ Tile(N - 1 + 1) = None
    <3> HIDE DEF N
    <3>1. N - 1 \in 0 .. N - 1 /\ N - 1 + 1 \in Nat /\ N <= N - 1 + 1
      BY <1>6
    <3> QED BY <1>8, <1>9, <3>1
  <2>2. last \in 0 .. pixels /\ Tile(last) # None /\ Tile(last + 1) = None
    BY <1>6, <2>1
  <2>3. pixels \in Nat
    BY <1>1
  <2> HIDE DEF last, pixels, N
  <2>4. last \in Nat
    BY <2>2, <2>3
  <2>5. last < N
    BY <1>6, <1>9, <2>2, <2>4
  <2>6. ~(last + 1 < N)
    <3>1. last + 1 < N => last + 1 \in 0 .. N - 1
      BY <1>6, <2>4
    <3> QED BY <1>8, <2>2, <3>1
  <2>7. last = N - 1
    BY <1>6, <2>4, <2>5, <2>6
  <2> QED BY <2>7 DEF Parts, last
<1>14. ASSUME NEW n \in DOMAIN parts
       PROVE  Tile(n + Cardinality(DOMAIN parts)) = None
  <2>1. DOMAIN parts = 0 .. N - 1
    OBVIOUS
  <2> HIDE DEF N, parts
  <2>2. Cardinality(DOMAIN parts) = N
    BY <1>6, <2>1, NumbersCount
  <2>3. n + N \in Nat /\ N <= n + N
    BY <1>6, <2>1
  <2> QED BY <1>9, <2>2, <2>3
<1>15. CutsWell(Tile, whole)
  <2> HIDE DEF parts
  <2> QED BY <1>11, <1>12, <1>13, <1>14 DEF CutsWell
<1>16. ASSUME NEW n \in DOMAIN parts
       PROVE  Address(parts[n], <<0, 0>>) = Address(whole, <<parts[n].x - whole.x, parts[n].y - whole.y>>)
  <2> DEFINE part == parts[n]
             l == left[n % C]
             u == top[n \div C]
  <2>1. parts[n] = Tile(n) /\ n \in 0 .. N - 1
    OBVIOUS
  <2>2. /\ part.x = whole.x + l /\ part.y = whole.y + u
        /\ IsPart(part, whole, l, u) /\ l \in Nat /\ u \in Nat
    BY <1>8, <2>1
  <2> HIDE DEF part, l, u
  <2>3. part.x - whole.x = l /\ part.y - whole.y = u /\ l + 0 = l /\ u + 0 = u
    BY <1>1, <2>2
  <2>4. <<0, 0>> \in Offsets(part)
    BY <2>2 DEF IsPart, Offsets
  <2>5. Address(part, <<0, 0>>) = Address(whole, <<l + 0, u + 0>>)
    BY <1>1, <2>2, <2>4, PartMemory
  <2> QED BY <2>3, <2>5 DEF part
<1>17. InPlace(Tile, whole)
  <2> HIDE DEF parts
  <2> QED BY <1>13, <1>16 DEF InPlace
<1> QED BY <1>15, <1>17 DEF Tile
(* checkers' tiles are clipped on both sides, and what is left of each is within it. *)
LEMMA CheckersCutWell ==
  ASSUME NEW whole \in Frames, NEW t \in Nat \ {0}
  PROVE  LET Tile(n) == checkers_fragment_tile_single(whole, t, n)
         IN  /\ CutsWell(Tile, whole)
             /\ \A n \in DOMAIN Parts(Tile, whole) :
                   Tile(n).x + Tile(n).width <= t /\ Tile(n).y + Tile(n).height <= t
<1> DEFINE Tile(n) == checkers_fragment_tile_single(whole, t, n)
           W == whole.width
           H == whole.height
           C == Tiles(W, t)
           R == Tiles(H, t)
           sx == (C * t - W) \div 2
           sy == (R * t - H) \div 2
           left == Lefts(t, sx)
           wid == Lens(W, t, sx)
           top == Lefts(t, sy)
           hgt == Lens(H, t, sy)
           N == C * R
           parts == [n \in 0 .. N - 1 |-> Tile(n)]
<1>1. /\ W \in Nat \ {0} /\ H \in Nat \ {0} /\ IsFrame(whole)
      /\ whole \in [x : Nat, y : Nat, width : Nat, height : Nat, buf : Nat, pitch : Nat, stride : Nat]
  BY DEF Frames, IsFrame
<1>2. C \in Nat \ {0} /\ C <= W /\ R \in Nat \ {0} /\ R <= H
  BY <1>1, TilesCount
<1>3. /\ IsCut(left, wid, W, C) /\ IsWhole(left, wid, W, C)
      /\ IsCut(top, hgt, H, R) /\ IsWhole(top, hgt, H, R)
      /\ sx \in Nat /\ sy \in Nat /\ sx < t /\ sy < t
  <2>1. ASSUME NEW size \in Nat \ {0}
        PROVE  /\ (Tiles(size, t) * t - size) \div 2 \in 0 .. Tiles(size, t) * t - size
               /\ (Tiles(size, t) * t - size) \div 2 < t
    <3> DEFINE e == Tiles(size, t) * t - size
    <3>1. e \in 0 .. t - 1
      BY TilesCount
    <3> HIDE DEF e
    <3>2. e \div 2 \in 0 .. e /\ e \div 2 < t
      BY <3>1
    <3> QED BY <3>2 DEF e
  <2>2. sx \in 0 .. C * t - W /\ sx < t /\ sy \in 0 .. R * t - H /\ sy < t
    BY <1>1, <2>1
  <2> HIDE DEF sx, sy
  <2>3. /\ IsCut(left, wid, W, C) /\ IsWhole(left, wid, W, C)
        /\ IsCut(top, hgt, H, R) /\ IsWhole(top, hgt, H, R)
    BY <1>1, <2>2, TilesCut
  <2>4. sx \in Nat /\ sy \in Nat
    BY <2>2
  <2> QED BY <2>2, <2>3, <2>4
<1>4. ASSUME NEW n \in Nat
      PROVE  Tile(n) = LET x == n % C
                           y == n \div C
                           l == IF x = 0 THEN 0 ELSE x * t - sx
                           u == IF y = 0 THEN 0 ELSE y * t - sy
                           width == AtMost(W - l, IF x = 0 THEN t - sx ELSE t)
                       IN  IF y >= R THEN None
                           ELSE [whole EXCEPT !.buf = @ + u * whole.pitch + l,
                                   !.x = IF x = 0 THEN sx ELSE 0, !.y = IF y = 0 THEN sy ELSE 0,
                                   !.width = width, !.stride = @ + (W - width),
                                   !.height = AtMost(@ - u, IF y = 0 THEN t - sy ELSE t)]
  BY DEF checkers_fragment_tile_single
<1>5. ASSUME NEW i \in Nat
      PROVE  /\ left[i] = IF i = 0 THEN 0 ELSE i * t - sx
             /\ wid[i] = AtMost(W - left[i], IF i = 0 THEN t - sx ELSE t)
             /\ top[i] = IF i = 0 THEN 0 ELSE i * t - sy
             /\ hgt[i] = AtMost(H - top[i], IF i = 0 THEN t - sy ELSE t)
  BY DEF Lefts, Lens
<1> HIDE DEF Tile, C, R, sx, sy, left, wid, top, hgt
<1>6. N \in Nat \ {0} /\ N - 1 \in 0 .. W * H
  BY <1>1, <1>2, FewParts
<1>7. /\ \A n \in 0 .. N - 1 : n % C \in 0 .. C - 1 /\ n \div C \in 0 .. R - 1
      /\ \A n \in Nat : n \div C < R <=> n < N
  BY <1>2, Numbered
<1>8. ASSUME NEW n \in 0 .. N - 1
      PROVE  /\ IsPart(Tile(n), whole, left[n % C], top[n \div C])
             /\ Tile(n).width = wid[n % C] /\ Tile(n).height = hgt[n \div C]
             /\ Tile(n).x + Tile(n).width <= t /\ Tile(n).y + Tile(n).height <= t
             /\ Tile(n) # None
  <2> DEFINE i == n % C
             j == n \div C
             l == left[i]
             u == top[j]
             w == wid[i]
             h == hgt[j]
             b == whole.buf + u * whole.pitch + l
             x == IF i = 0 THEN sx ELSE 0
             y == IF j = 0 THEN sy ELSE 0
  <2>1. i \in 0 .. C - 1 /\ j \in 0 .. R - 1
    BY <1>7
  <2>2. i \in Nat /\ j \in Nat /\ j < R /\ n \in Nat
    <3> HIDE DEF i, j, N
    <3> QED BY <1>2, <1>6, <2>1
  <2>3. /\ l = (IF i = 0 THEN 0 ELSE i * t - sx) /\ u = (IF j = 0 THEN 0 ELSE j * t - sy)
        /\ w = AtMost(W - l, IF i = 0 THEN t - sx ELSE t)
        /\ h = AtMost(H - u, IF j = 0 THEN t - sy ELSE t)
    BY <1>5, <2>2
  <2>4. /\ l \in Nat /\ w \in Nat \ {0} /\ l + w <= W /\ u \in Nat /\ h \in Nat \ {0} /\ u + h <= H
    <3>1. left[i] \in Nat /\ wid[i] \in Nat \ {0} /\ left[i] + wid[i] <= W
      BY <1>3, <2>1 DEF IsCut
    <3>2. top[j] \in Nat /\ hgt[j] \in Nat \ {0} /\ top[j] + hgt[j] <= H
      BY <1>3, <2>1 DEF IsCut
    <3> QED BY <3>1, <3>2
  <2>5. Tile(n) = [whole EXCEPT !.buf = b, !.x = x, !.y = y, !.width = w,
                                !.stride = whole.stride + (W - w), !.height = h]
    <3> DEFINE li == IF i = 0 THEN 0 ELSE i * t - sx
               uj == IF j = 0 THEN 0 ELSE j * t - sy
               wi == AtMost(W - li, IF i = 0 THEN t - sx ELSE t)
    <3>1. ~(j >= R)
      BY <1>2, <2>2
    <3>2. Tile(n) = [whole EXCEPT !.buf = @ + uj * whole.pitch + li, !.x = x, !.y = y,
                                  !.width = wi, !.stride = @ + (W - wi),
                                  !.height = AtMost(@ - uj, IF j = 0 THEN t - sy ELSE t)]
      BY <1>4, <2>2, <3>1
    <3>3. li = l /\ uj = u
      BY <2>3
    <3>4. wi = w /\ AtMost(H - uj, IF j = 0 THEN t - sy ELSE t) = h
      BY <2>3, <3>3
    <3> HIDE DEF i, j, l, u, w, h, li, uj, wi, x, y
    <3> QED BY <1>1, <3>2, <3>3, <3>4 DEF b
  <2>6. x \in Nat /\ y \in Nat /\ x + w <= t /\ y + h <= t
    <3>1. w <= (IF i = 0 THEN t - sx ELSE t) /\ h <= (IF j = 0 THEN t - sy ELSE t)
      <4> HIDE DEF i, j, l, u, w, h
      <4> QED BY <1>1, <1>3, <2>3, <2>4 DEF AtMost
    <3> HIDE DEF i, j, w, h
    <3> QED BY <1>3, <2>4, <3>1
  <2> HIDE DEF i, j, l, u, w, h, b, x, y
  <2>7. /\ Tile(n).width = w /\ Tile(n).height = h /\ Tile(n).pitch = whole.pitch
        /\ Tile(n).stride = whole.stride + (W - w) /\ Tile(n).buf = b
        /\ Tile(n).x = x /\ Tile(n).y = y
    BY <1>1, <2>5
  <2>8. Tile(n) # None
    BY <2>4, <2>7 DEF None
  <2>9. IsPart(Tile(n), whole, l, u)
    BY <1>1, <2>4, <2>7 DEF IsPart, IsFrame, b
  <2> QED BY <2>6, <2>7, <2>8, <2>9 DEF i, j, l, u, w, h
<1>9. ASSUME NEW n \in Nat, N <= n
      PROVE  Tile(n) = None
  <2>1. ~(n \div C < R) /\ n \div C \in Nat
    <3>1. ~(n < N)
      <4> HIDE DEF N
      <4> QED BY <1>6, <1>9
    <3> QED BY <1>2, <1>7, <3>1, DivMod
  <2>2. n \div C >= R
    <3> DEFINE j == n \div C
    <3> HIDE DEF j
    <3>1. j >= R
      BY <1>2, <2>1 DEF j
    <3> QED BY <3>1 DEF j
  <2> QED BY <1>4, <2>2
<1>10. IsGrid(parts, whole, left, wid, C, top, hgt, R)
  BY <1>8 DEF IsGrid
<1>11. Apart(parts, whole)
  <2> HIDE DEF parts
  <2> QED BY <1>1, <1>2, <1>3, <1>10, GridApart
<1>12. Memory(whole) = UNION {Memory(parts[n]) : n \in DOMAIN parts}
  <2> HIDE DEF parts
  <2> QED BY <1>1, <1>2, <1>3, <1>10, GridWhole
<1>13. Parts(Tile, whole) = parts
  <2> DEFINE last == CHOOSE n \in 0 .. W * H : Tile(n) # None /\ Tile(n + 1) = None
             pixels == W * H
  <2>1. Tile(N - 1) # None /\ Tile(N - 1 + 1) = None
    <3> HIDE DEF N
    <3>1. N - 1 \in 0 .. N - 1 /\ N - 1 + 1 \in Nat /\ N <= N - 1 + 1
      BY <1>6
    <3> QED BY <1>8, <1>9, <3>1
  <2>2. last \in 0 .. pixels /\ Tile(last) # None /\ Tile(last + 1) = None
    BY <1>6, <2>1
  <2>3. pixels \in Nat
    BY <1>1
  <2> HIDE DEF last, pixels, N
  <2>4. last \in Nat
    BY <2>2, <2>3
  <2>5. last < N
    BY <1>6, <1>9, <2>2, <2>4
  <2>6. ~(last + 1 < N)
    <3>1. last + 1 < N => last + 1 \in 0 .. N - 1
      BY <1>6, <2>4
    <3> QED BY <1>8, <2>2, <3>1
  <2>7. last = N - 1
    BY <1>6, <2>4, <2>5, <2>6
  <2> QED BY <2>7 DEF Parts, last
<1>14. ASSUME NEW n \in DOMAIN parts
       PROVE  Tile(n + Cardinality(DOMAIN parts)) = None
  <2>1. DOMAIN parts = 0 .. N - 1
    OBVIOUS
  <2> HIDE DEF N, parts
  <2>2. Cardinality(DOMAIN parts) = N
    BY <1>6, <2>1, NumbersCount
  <2>3. n + N \in Nat /\ N <= n + N
    BY <1>6, <2>1
  <2> QED BY <1>9, <2>2, <2>3
<1>15. CutsWell(Tile, whole)
  <2> HIDE DEF parts
  <2> QED BY <1>11, <1>12, <1>13, <1>14 DEF CutsWell
<1>16. \A n \in DOMAIN Parts(Tile, whole) :
          Tile(n).x + Tile(n).width <= t /\ Tile(n).y + Tile(n).height <= t
  BY <1>8, <1>13
<1> QED BY <1>15, <1>16 DEF Tile

(* A set of numbers has a least one. *)
LEMMA LeastNumber ==
  ASSUME NEW T \in SUBSET Nat, T # {}
  PROVE  \E m \in T : \A k \in T : m <= k
<1> DEFINE Up(k) == 0 .. k
           Ups == {Up(k) : k \in T}
<1>1. IsWellFoundedOn(StrictSubsetOrdering(Nat), FiniteSubsetsOf(Nat))
  BY FS_StrictSubsetOrderingWellFounded
<1>2. Ups \subseteq FiniteSubsetsOf(Nat) /\ Ups # {}
  <2>1. \A k \in T : IsFiniteSet(Up(k)) /\ Up(k) \in SUBSET Nat
    BY FS_Interval
  <2> QED BY <2>1 DEF FiniteSubsetsOf
<1>3. PICK U \in Ups : \A V \in Ups : <<V, U>> \notin StrictSubsetOrdering(Nat)
  <2> HIDE DEF Ups
  <2> QED BY <1>1, <1>2, WFMin
<1>4. PICK m \in T : U = Up(m)
  OBVIOUS
<1>5. ASSUME NEW k \in T, ~(m <= k) PROVE FALSE
  <2>1. Up(k) \subseteq Up(m) /\ Up(k) # Up(m)
    BY <1>5
  <2>2. <<Up(k), Up(m)>> \in StrictSubsetOrdering(Nat)
    BY <2>1 DEF StrictSubsetOrdering
  <2> QED BY <1>3, <1>4, <2>2
<1> QED BY <1>5

(* The rounded roots exist, and so many rows of so many tiles are enough. *)
LEMMA Roots ==
  ASSUME NEW n \in Nat \ {0}
  PROVE  Ceil(n) \in Nat \ {0} /\ Rint(n) \in Nat \ {0} /\ n <= Ceil(n) * Rint(n)
<1>1. \E k \in 1 .. n : n <= k * k /\ (k - 1) * (k - 1) < n
  <2> DEFINE T == {k \in Nat : n <= k * k}
  <2>1. n \in T
    BY SMT
  <2>2. PICK k \in T : \A j \in T : k <= j
    BY <2>1, LeastNumber
  <2>3. k \in Nat /\ n <= k * k /\ k <= n
    BY <2>1, <2>2
  <2>4. k # 0
    BY <2>3
  <2>5. k - 1 \in Nat /\ k - 1 \notin T
    BY <2>2, <2>3, <2>4
  <2>6. (k - 1) * (k - 1) < n
    BY <2>5
  <2> QED BY <2>3, <2>4, <2>6
<1>2. \E k \in 1 .. n : k * k - k < n /\ n <= k * k + k
  <2> DEFINE T == {k \in Nat : n <= k * k + k}
  <2>1. n \in T
    BY SMT
  <2>2. PICK k \in T : \A j \in T : k <= j
    BY <2>1, LeastNumber
  <2>3. k \in Nat /\ n <= k * k + k /\ k <= n
    BY <2>1, <2>2
  <2>4. k # 0
    BY <2>3
  <2>5. k - 1 \in Nat /\ k - 1 \notin T
    BY <2>2, <2>3, <2>4
  <2>6. (k - 1) * (k - 1) + (k - 1) < n
    BY <2>5
  <2>7. (k - 1) * (k - 1) + (k - 1) = k * k - k
    BY <2>3
  <2> QED BY <2>3, <2>4, <2>6, <2>7
<1> DEFINE c == Ceil(n)
           r == Rint(n)
<1>3. c \in 1 .. n /\ n <= c * c
  BY <1>1 DEF Ceil
<1>4. r \in 1 .. n /\ n <= r * r + r
  BY <1>2 DEF Rint
<1> HIDE DEF c, r
<1>5. c \in Nat \ {0} /\ r \in Nat \ {0}
  BY <1>3, <1>4
<1>6. CASE c <= r
  <2>1. c * c <= c * r
    BY <1>5, <1>6
  <2>2. c * c \in Nat /\ c * r \in Nat
    BY <1>5
  <2> QED BY <1>3, <1>5, <2>1, <2>2 DEF c, r
<1>7. CASE r < c
  <2>1. r * r + r <= c * r /\ r * r \in Nat /\ c * r \in Nat
    BY <1>5, <1>7, Scaled
  <2> QED BY <1>4, <1>5, <2>1 DEF c, r
<1> QED BY <1>5, <1>6, <1>7

(* Tiles as large as fit so often fit so often, one after another. *)
LEMMA FitCut ==
  ASSUME NEW size \in Nat \ {0}, NEW c \in Nat \ {0}, c <= size
  PROVE  LET t == size \div c
             n == size \div t
         IN  /\ t \in Nat \ {0} /\ n \in Nat \ {0} /\ c <= n /\ n <= size
             /\ \A i \in 0 .. n - 1 : i * t \in Nat /\ i * t + t <= size
             /\ \A i, j \in 0 .. n - 1 : i < j => i * t + t <= j * t
<1> DEFINE t == size \div c
           n == size \div t
           u == n * t
<1>1. t \in Nat \ {0} /\ t * c <= size /\ t * c \in Nat
  <2> DEFINE r == size % c
             v == t * c
  <2>1. t \in Nat /\ r \in 0 .. c - 1 /\ size = v + r /\ v \in Nat
    <3>1. t \in Nat /\ r \in 0 .. c - 1 /\ size = t * c + r
      BY DivMod
    <3> HIDE DEF t, r
    <3> QED BY <3>1
  <2>2. t = 0 => v = 0
    OBVIOUS
  <2> HIDE DEF t, r, v
  <2>3. t # 0 /\ v <= size
    BY <2>1, <2>2
  <2> QED BY <2>1, <2>3 DEF v
<1> HIDE DEF t
<1>2. n \in Nat /\ u \in Nat /\ u <= size /\ size < u + t
  <2> DEFINE r == size % t
  <2>1. n \in Nat /\ r \in 0 .. t - 1 /\ size = u + r /\ u \in Nat
    <3>1. n \in Nat /\ r \in 0 .. t - 1 /\ size = n * t + r
      BY <1>1, DivMod
    <3> HIDE DEF n, r
    <3> QED BY <1>1, <3>1
  <2> HIDE DEF n, r, u
  <2> QED BY <1>1, <2>1
<1> HIDE DEF n
<1>3. c <= n
  <2> SUFFICES ASSUME n < c PROVE FALSE
    BY <1>2
  <2> DEFINE v == c * t
  <2>1. u + t <= v /\ v \in Nat
    <3>1. n * t + t <= c * t /\ n * t \in Nat /\ c * t \in Nat
      BY <1>1, <1>2, Scaled
    <3> QED BY <3>1
  <2>2. v <= size
    <3>1. c * t = t * c
      BY <1>1
    <3> QED BY <1>1, <3>1
  <2> HIDE DEF u, v
  <2> QED BY <1>1, <1>2, <2>1, <2>2
<1>4. n <= size
  <2>1. n <= u
    <3>1. \A a \in Nat, b \in Nat \ {0} : a <= a * b
      BY SMT
    <3> QED BY <1>1, <1>2, <3>1
  <2> HIDE DEF u
  <2> QED BY <1>2, <2>1
<1>5. ASSUME NEW i \in Nat, NEW j \in Nat, i < j
      PROVE  i * t \in Nat /\ j * t \in Nat /\ i * t + t <= j * t
  BY <1>1, <1>5, Scaled
<1>6. ASSUME NEW i \in 0 .. n - 1
      PROVE  i * t \in Nat /\ i * t + t <= size
  <2>1. i \in Nat /\ i < n
    BY <1>2
  <2>2. i * t \in Nat /\ i * t + t <= u
    BY <1>2, <1>5, <2>1
  <2> DEFINE v == i * t
  <2>3. v \in Nat /\ v + t <= u
    BY <2>2
  <2> HIDE DEF u, v
  <2>4. v + t <= size
    BY <1>1, <1>2, <2>3
  <2> QED BY <2>3, <2>4 DEF v
<1>7. \A i, j \in 0 .. n - 1 : i < j => i * t + t <= j * t
  BY <1>2, <1>5
<1>8. n \in Nat \ {0}
  BY <1>2, <1>3
<1> QED BY <1>1, <1>3, <1>4, <1>6, <1>7, <1>8 DEF t, n

(* A montage in a frame that is not too small has a tile for each module. *)
LEMMA MontageApart ==
  ASSUME NEW whole \in Frames, NEW modules \in Nat \ {0},
         whole.width >= Ceil(modules), whole.height >= Rint(modules)
  PROVE  LET Tile(n) == montage_fragmenter(modules, whole, n)
         IN  Apart(Parts(Tile, whole), whole) /\ modules - 1 \in DOMAIN Parts(Tile, whole)
<1> DEFINE Tile(n) == montage_fragmenter(modules, whole, n)
           W == whole.width
           H == whole.height
           tw == W \div Ceil(modules)
           th == H \div Rint(modules)
           C == W \div tw
           R == H \div th
           left == [i \in Nat |-> i * tw]
           wid == [i \in Nat |-> tw]
           top == [i \in Nat |-> i * th]
           hgt == [i \in Nat |-> th]
           N == C * R
           parts == [n \in 0 .. N - 1 |-> Tile(n)]
<1>1. /\ W \in Nat \ {0} /\ H \in Nat \ {0} /\ IsFrame(whole)
      /\ whole \in [x : Nat, y : Nat, width : Nat, height : Nat, buf : Nat, pitch : Nat, stride : Nat]
  BY DEF Frames, IsFrame
<1>2. /\ Ceil(modules) \in Nat \ {0} /\ Rint(modules) \in Nat \ {0}
      /\ modules <= Ceil(modules) * Rint(modules)
  BY Roots
<1>3. /\ tw \in Nat \ {0} /\ C \in Nat \ {0} /\ Ceil(modules) <= C /\ C <= W
      /\ \A i \in 0 .. C - 1 : i * tw \in Nat /\ i * tw + tw <= W
      /\ \A i, j \in 0 .. C - 1 : i < j => i * tw + tw <= j * tw
  <2>1. Ceil(modules) <= W
    BY <1>1, <1>2
  <2> QED BY <1>1, <1>2, <2>1, FitCut
<1>4. /\ th \in Nat \ {0} /\ R \in Nat \ {0} /\ Rint(modules) <= R /\ R <= H
      /\ \A i \in 0 .. R - 1 : i * th \in Nat /\ i * th + th <= H
      /\ \A i, j \in 0 .. R - 1 : i < j => i * th + th <= j * th
  <2>1. Rint(modules) <= H
    BY <1>1, <1>2
  <2> QED BY <1>1, <1>2, <2>1, FitCut
<1>5. ASSUME NEW n \in Nat
      PROVE  Tile(n) = LET xoff == (n % C) * tw
                           yoff == (n \div C) * th
                       IN  IF n \div C >= R THEN None
                           ELSE [whole EXCEPT !.buf = @ + yoff * whole.pitch + xoff, !.x = 0, !.y = 0,
                                              !.width = tw, !.height = th,
                                              !.stride = @ + (W - tw)]
  BY DEF montage_fragmenter, montage_fragment_tile
<1> HIDE DEF Tile, C, R, tw, th
<1>6. IsCut(left, wid, W, C) /\ IsCut(top, hgt, H, R)
  <2>1. 0 .. C - 1 \subseteq Nat /\ 0 .. R - 1 \subseteq Nat
    BY <1>3, <1>4
  <2>2. IsCut(left, wid, W, C)
    BY <1>3, <2>1 DEF IsCut
  <2>3. IsCut(top, hgt, H, R)
    BY <1>4, <2>1 DEF IsCut
  <2> QED BY <2>2, <2>3
<1>7. N \in Nat \ {0} /\ N - 1 \in 0 .. W * H
  BY <1>1, <1>3, <1>4, FewParts
<1>8. /\ \A n \in 0 .. N - 1 : n % C \in 0 .. C - 1 /\ n \div C \in 0 .. R - 1
      /\ \A n \in Nat : n \div C < R <=> n < N
  BY <1>3, <1>4, Numbered
<1>9. ASSUME NEW n \in 0 .. N - 1
      PROVE  /\ IsPart(Tile(n), whole, left[n % C], top[n \div C])
             /\ Tile(n).width = wid[n % C] /\ Tile(n).height = hgt[n \div C]
             /\ Tile(n) # None
  <2> DEFINE i == n % C
             j == n \div C
             l == i * tw
             u == j * th
             b == whole.buf + u * whole.pitch + l
  <2>1. i \in 0 .. C - 1 /\ j \in 0 .. R - 1
    BY <1>8
  <2>2. i \in Nat /\ j \in Nat /\ j < R /\ n \in Nat
    <3> HIDE DEF i, j, N
    <3> QED BY <1>3, <1>4, <1>7, <2>1
  <2>3. left[i] = l /\ wid[i] = tw /\ top[j] = u /\ hgt[j] = th
    BY <2>2
  <2>4. l \in Nat /\ l + tw <= W /\ u \in Nat /\ u + th <= H
    BY <1>3, <1>4, <2>1
  <2>5. Tile(n) = [whole EXCEPT !.buf = b, !.x = 0, !.y = 0, !.width = tw, !.height = th,
                                !.stride = whole.stride + (W - tw)]
    <3>1. ~(j >= R)
      BY <1>4, <2>2
    <3>2. Tile(n) = [whole EXCEPT !.buf = @ + u * whole.pitch + l, !.x = 0, !.y = 0,
                                  !.width = tw, !.height = th, !.stride = @ + (W - tw)]
      BY <1>5, <2>2, <3>1
    <3> HIDE DEF i, j, l, u
    <3> QED BY <1>1, <3>2
  <2> HIDE DEF i, j, l, u, b, left, wid, top, hgt
  <2>6. /\ Tile(n).width = tw /\ Tile(n).height = th /\ Tile(n).pitch = whole.pitch
        /\ Tile(n).stride = whole.stride + (W - tw) /\ Tile(n).buf = b
    BY <1>1, <2>5
  <2>7. Tile(n) # None
    BY <1>3, <2>6 DEF None
  <2>8. IsPart(Tile(n), whole, l, u)
    BY <1>1, <1>3, <1>4, <2>4, <2>6 DEF IsPart, IsFrame, b
  <2> QED BY <2>3, <2>6, <2>7, <2>8 DEF i, j
<1>10. ASSUME NEW n \in Nat, N <= n
       PROVE  Tile(n) = None
  <2>1. ~(n \div C < R) /\ n \div C \in Nat
    <3>1. ~(n < N)
      <4> HIDE DEF N
      <4> QED BY <1>7, <1>10
    <3> QED BY <1>3, <1>8, <3>1, DivMod
  <2>2. n \div C >= R
    <3> DEFINE j == n \div C
    <3> HIDE DEF j
    <3>1. j >= R
      BY <1>4, <2>1 DEF j
    <3> QED BY <3>1 DEF j
  <2> QED BY <1>5, <2>2
<1>11. Apart(parts, whole)
  <2> HIDE DEF left, wid, top, hgt
  <2>1. IsGrid(parts, whole, left, wid, C, top, hgt, R)
    BY <1>9 DEF IsGrid
  <2> HIDE DEF parts
  <2> QED BY <1>1, <1>3, <1>4, <1>6, <2>1, GridApart
<1>12. Parts(Tile, whole) = parts
  <2> DEFINE last == CHOOSE n \in 0 .. W * H : Tile(n) # None /\ Tile(n + 1) = None
             pixels == W * H
  <2>1. Tile(N - 1) # None /\ Tile(N - 1 + 1) = None
    <3> HIDE DEF N
    <3>1. N - 1 \in 0 .. N - 1 /\ N - 1 + 1 \in Nat /\ N <= N - 1 + 1
      BY <1>7
    <3> QED BY <1>9, <1>10, <3>1
  <2>2. last \in 0 .. pixels /\ Tile(last) # None /\ Tile(last + 1) = None
    BY <1>7, <2>1
  <2>3. pixels \in Nat
    BY <1>1
  <2> HIDE DEF last, pixels, N
  <2>4. last \in Nat
    BY <2>2, <2>3
  <2>5. last < N
    BY <1>7, <1>10, <2>2, <2>4
  <2>6. ~(last + 1 < N)
    <3>1. last + 1 < N => last + 1 \in 0 .. N - 1
      BY <1>7, <2>4
    <3> QED BY <1>9, <2>2, <3>1
  <2>7. last = N - 1
    BY <1>7, <2>4, <2>5, <2>6
  <2> QED BY <2>7 DEF Parts, last
<1>13. modules - 1 \in 0 .. N - 1
  <2>1. ASSUME NEW a \in Nat \ {0}, NEW b \in Nat \ {0}, NEW c \in Nat \ {0}, NEW d \in Nat \ {0},
               a <= c, b <= d
        PROVE  a * b \in Nat /\ a * b <= c * d
    BY <2>1, FewParts
  <2>2. Ceil(modules) * Rint(modules) \in Nat /\ Ceil(modules) * Rint(modules) <= N
    BY <1>2, <1>3, <1>4, <2>1
  <2> DEFINE a == Ceil(modules) * Rint(modules)
  <2> HIDE DEF a, N
  <2> QED BY <1>2, <1>7, <2>2 DEF a
<1> QED BY <1>11, <1>12, <1>13 DEF Tile

(* How one frame is cut, by each of the fragmenters. *)
LEMMA FrameCutWell ==
  ASSUME NEW width \in Nat \ {0}, NEW height \in Nat \ {0}, NEW n_cpus \in Nat \ {0},
         NEW margin \in Nat
  PROVE  CutWell(width, height, margin, n_cpus)
<1> DEFINE whole == Whole(width, height, margin)
<1>1. whole \in Frames /\ whole.width = width /\ whole.height = height
  BY DEF Whole, Frames, IsFrame
<1> HIDE DEF whole
<1>2. TileSize \in Nat \ {0} /\ n_cpus * PerCpu \in Nat \ {0}
  BY FragmentsAssumption
<1>3. LET Slices(n) == til_fragmenter_slice_per_cpu(n_cpus, whole, n)
      IN  CutsWell(Slices, whole) /\ InPlace(Slices, whole)
  BY <1>1, SlicesCutWell DEF til_fragmenter_slice_per_cpu
<1>4. LET Slices16(n) == til_fragmenter_slice_per_cpu_x16(n_cpus, whole, n)
      IN  CutsWell(Slices16, whole) /\ InPlace(Slices16, whole)
  BY <1>1, <1>2, SlicesCutWell DEF til_fragmenter_slice_per_cpu_x16
<1>5. LET Tiles64(n) == til_fragmenter_tile64(n_cpus, whole, n)
      IN  CutsWell(Tiles64, whole) /\ InPlace(Tiles64, whole)
  BY <1>1, <1>2, TilesCutWell DEF til_fragmenter_tile64
<1>6. LET Checkers(n) == checkers_fragment_tile_single(whole, TileSize, n)
      IN  /\ CutsWell(Checkers, whole)
          /\ \A n \in DOMAIN Parts(Checkers, whole) :
                Checkers(n).x + Checkers(n).width <= TileSize /\ Checkers(n).y + Checkers(n).height <= TileSize
  BY <1>1, <1>2, CheckersCutWell
<1>7. ASSUME NEW n \in 0 .. n_cpus
      PROVE  (til_fragmenter_noop_per_cpu(n_cpus, whole, n) = whole) = (n < n_cpus)
  <2>1. None # whole
    BY <1>1 DEF None
  <2>2. n >= n_cpus <=> ~(n < n_cpus)
    OBVIOUS
  <2> QED BY <2>1, <2>2 DEF til_fragmenter_noop_per_cpu, til_fb_fragment_noop_single
<1>8. LET Montage(n) == montage_fragmenter(n_cpus, whole, n)
      IN  width >= Ceil(n_cpus) /\ height >= Rint(n_cpus) =>
             Apart(Parts(Montage, whole), whole) /\ n_cpus - 1 \in DOMAIN Parts(Montage, whole)
  BY <1>1, MontageApart
<1> QED BY <1>3, <1>4, <1>5, <1>6, <1>7, <1>8 DEF CutWell, whole

(* Half a cell, or one, is left on both sides of what is sampled. *)
LEMMA SampledOnBoard ==
  ASSUME NEW frame \in Nat \ {0}, NEW side \in Nat, 2 <= side, NEW at \in 0 .. frame - 1
  PROVE  /\ sample_grid(draw_grid(at, frame, side), frame) \subseteq 0 .. side - 1
         /\ sample_grid_bilerp(draw_grid_bilerp(at, frame, side), frame) \subseteq 0 .. side - 1
<1> DEFINE d == 2 * frame
<1>1. d \in Nat \ {0} /\ at \in Nat /\ at < frame
  OBVIOUS
(* a position in the m-th cell, which is less than a cell wide *)
<1>2. ASSUME NEW p \in Nat, NEW m \in Nat, p < m * d
      PROVE  p \div d < m
  <2> DEFINE q == p \div d
             r == p % d
  <2>1. q \in Nat /\ r \in 0 .. d - 1 /\ p = q * d + r
    BY <1>1, DivMod
  <2> HIDE DEF d, q, r
  <2>2. CASE m <= q
    <3>1. m * d <= q * d
      <4>1. CASE m < q
        <5>1. m * d + d <= q * d /\ m * d \in Nat /\ q * d \in Nat
          BY <1>1, <2>1, <4>1, Scaled
        <5> QED BY <1>1, <5>1
      <4>2. CASE m = q
        BY <1>1, <2>1, <4>2
      <4> QED BY <2>1, <2>2, <4>1, <4>2
    <3> DEFINE u == m * d
               v == q * d
    <3>2. u \in Nat /\ v \in Nat /\ u <= v /\ p < u /\ p = v + r
      BY <1>1, <1>2, <2>1, <3>1
    <3> HIDE DEF u, v
    <3> QED BY <1>1, <2>1, <3>2
  <2> QED BY <2>1, <2>2 DEF q
<1>3. ASSUME NEW m \in Nat
      PROVE  at * m \in Nat /\ frame * m \in Nat /\ at * m + m <= frame * m
  BY <1>1, Scaled
<1>4. sample_grid(draw_grid(at, frame, side), frame) \subseteq 0 .. side - 1
  <2> DEFINE m == side - 1
             a == at * m
             f == frame * m
             p == draw_grid(at, frame, side)
  <2>1. m \in Nat /\ a \in Nat /\ f \in Nat /\ a + m <= f
    <3>1. m \in Nat
      OBVIOUS
    <3> HIDE DEF m
    <3> QED BY <1>3, <3>1
  <2>2. p = frame + 2 * a /\ side * d = 2 * f + 2 * frame
    <3>1. 2 * at * (side - 1) = 2 * (at * m)
      OBVIOUS
    <3>2. side * (2 * frame) = 2 * (frame * m) + 2 * frame
      OBVIOUS
    <3> QED BY <3>1, <3>2 DEF draw_grid
  <2> HIDE DEF m, a, f, p
  <2>3. p \in Nat /\ p < side * d
    BY <2>1, <2>2
  <2>4. p \div d < side /\ p \div d \in Nat
    BY <1>1, <1>2, <2>3, DivMod
  <2> QED BY <2>4 DEF sample_grid, p
<1>5. sample_grid_bilerp(draw_grid_bilerp(at, frame, side), frame) \subseteq 0 .. side - 1
  <2> DEFINE m == side - 2
             a == at * m
             f == frame * m
             p == draw_grid_bilerp(at, frame, side)
             cell == p \div d
             r == p % d
  <2>1. m \in Nat /\ a \in Nat /\ f \in Nat /\ a + m <= f
    <3>1. m \in Nat
      OBVIOUS
    <3> HIDE DEF m
    <3> QED BY <1>3, <3>1
  <2>2. p = d + 2 * a /\ side * d = 2 * f + 2 * d /\ (side - 1) * d = 2 * f + d
    <3>1. 2 * at * (side - 2) = 2 * (at * m)
      OBVIOUS
    <3>2. side * (2 * frame) = 2 * (frame * m) + 2 * (2 * frame)
      OBVIOUS
    <3>3. (side - 1) * (2 * frame) = 2 * (frame * m) + 2 * frame
      OBVIOUS
    <3> QED BY <3>1, <3>2, <3>3 DEF draw_grid_bilerp
  <2> HIDE DEF a, f, p, d
  <2>3. p \in Nat /\ p < side * d /\ d <= p /\ p <= (side - 1) * d
    <3> DEFINE u == side * d
               v == (side - 1) * d
    <3> HIDE DEF u, v
    <3>1. u = 2 * f + 2 * d /\ v = 2 * f + d
      BY <2>2 DEF u, v
    <3>2. p \in Nat /\ p < u /\ d <= p /\ p <= v
      <4> HIDE DEF m
      <4> QED BY <1>1, <2>1, <2>2, <3>1
    <3> QED BY <3>2 DEF u, v
  <2>4. cell \in Nat /\ r \in 0 .. d - 1 /\ p = cell * d + r
    BY <1>1, <2>3, DivMod
  <2>5. cell < side
    BY <1>2, <2>3
  <2> HIDE DEF cell, r
  <2>6. cell # 0
    <3>1. cell = 0 => cell * d = 0
      BY <1>1
    <3> DEFINE u == cell * d
    <3> HIDE DEF u
    <3>2. cell = 0 => u = 0
      BY <3>1 DEF u
    <3> QED BY <1>1, <2>3, <2>4, <3>2 DEF u
  <2>7. r > frame => cell + 1 < side
    <3> SUFFICES ASSUME r > frame, cell = side - 1 PROVE FALSE
      BY <2>4, <2>5
    <3> DEFINE u == cell * d
    <3>1. u \in Nat
      BY <1>1, <2>4
    <3>2. p <= u
      BY <2>3
    <3> HIDE DEF u
    <3>3. p = u + r
      BY <2>4 DEF u
    <3> QED BY <1>1, <2>3, <2>4, <3>1, <3>2, <3>3
  <2>8. sample_grid_bilerp(p, frame) = IF r > frame THEN {cell, cell + 1} ELSE {cell - 1, cell}
    BY DEF sample_grid_bilerp, cell, r, d
  <2>9. sample_grid_bilerp(p, frame) \subseteq 0 .. side - 1
    <3> HIDE DEF m
    <3>1. CASE r > frame
      BY <2>4, <2>5, <2>7, <2>8, <3>1
    <3>2. CASE ~(r > frame)
      BY <2>4, <2>5, <2>6, <2>8, <3>2
    <3> QED BY <3>1, <3>2
  <2> QED BY <2>9 DEF p
<1> QED BY <1>4, <1>5

(* Whatever the sizes of frames and of their tiles, the number of CPUs and the
   size of the board: a fragmenter leaves no pixel of a frame out and gives none
   to two CPUs, and no cell beyond the board is sampled (til_fb.c's *_single(),
   checkers.c, montage.c, submit.c's draw_grid()). *)
THEOREM FramesDrawnWholeCorrect == SubmitSpec => []FramesDrawnWhole
<1>1. AllCutWell
  <2>1. ASSUME NEW width \in Sizes, NEW height \in Sizes, NEW n_cpus \in Cpus, NEW margin \in {0, 3}
        PROVE  /\ width \in Nat \ {0} /\ height \in Nat \ {0} /\ n_cpus \in Nat \ {0} /\ margin \in Nat
    BY FragmentsAssumption
  <2> QED BY <2>1, FrameCutWell DEF AllCutWell
<1>2. AllSampledOnBoard
  <2>1. ASSUME NEW frame \in Sizes, NEW side \in 2 .. AtLeast(Width, Height)
        PROVE  frame \in Nat \ {0} /\ side \in Nat /\ 2 <= side
    BY FragmentsAssumption, SubmitAssumption DEF AtLeast
  <2> QED BY <2>1, SampledOnBoard DEF AllSampledOnBoard
<1>3. FramesDrawnWhole
  BY <1>1, <1>2 DEF FramesDrawnWhole
<1> QED BY <1>3, PTL
=============================================================================
