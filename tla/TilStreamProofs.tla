--------------------------- MODULE TilStreamProofs ---------------------------
(***************************************************************************)
(* Proofs about TilStream, for any number of contexts and of names.  The   *)
(* argument: a pipe tapped in this frame has a driver that tapped in this  *)
(* frame, and keeps it while any context uses it, since all that could     *)
(* replace it waits for the rendering to be over.                          *)
(***************************************************************************)
EXTENDS TilStream, TLAPS

\* The pipe was tapped in this frame, and its driver is not to be replaced.
Current(n) ==
  /\ pipe[n] # NoPipe
  /\ pipe[n].frame = frame
  /\ pipe[n].driver \notin inactive

Fresh(tap) ==
  IF OwnerOf(tap) = Rkt THEN tap[2] \in keys ELSE tap[2] \in tapped[OwnerOf(tap)]

RendererLives == \A c \in Ctx : pc[c] # "out" => c \in alive

PipesOK ==
  \A n \in Name : pipe[n] # NoPipe =>
    /\ pipe[n].frame <= frame
    /\ pipe[n].driver[2] = n
    /\ pipe[n].owner = Rkt => rktPipes[n] > 0
    /\ OwnerOf(pipe[n].driver) = Rkt => pipe[n].owner = Rkt

CurrentFresh == \A n \in Name : Current(n) => Fresh(pipe[n].driver)

\* A call that found or made a pipe.
Called(c) == pc[c] = "return" \/ (pc[c] = "use" /\ res[c] >= 0)

CalledCurrent ==
  \A c \in Ctx : Called(c) =>
    Current(arg[c]) /\ ptr[<<c, arg[c]>>] = pipe[arg[c]].driver

WriterDrives ==
  \A c \in Ctx : pc[c] = "use" /\ res[c] = 0 =>
    pipe[arg[c]].driver \in {<<c, arg[c]>>, <<Rkt, arg[c]>>}

\* rkt sets inactive only in the taps of the pipes it owns.
InactiveOwned ==
  \A n \in Name : <<Rkt, n>> \in inactive =>
    pipe[n] # NoPipe /\ pipe[n].owner = Rkt /\ n \notin keys

IInv ==
  /\ TypeOK
  /\ InactiveOwned
  /\ RendererLives
  /\ PipesLive
  /\ PipesOK
  /\ CurrentFresh
  /\ CalledCurrent
  /\ WriterDrives
  /\ OneWriter

-----------------------------------------------------------------------------
LEMMA InitIInv == Init => IInv
<1> SUFFICES ASSUME Init PROVE IInv
  OBVIOUS
<1> USE NameAssumption, BoundAssumption
<1>1. TypeOK
  <2>1. ptr \in [Ctx \X Name -> Tap]
    <3>1. Ctx \X Name \subseteq Tap
      BY DEF Tap, Owner
    <3> QED
      BY <3>1 DEF Init
  <2>2. pipe \in [Name -> Pipe \union {NoPipe}]
    BY DEF Init
  <2>3. alive \subseteq Owner
    BY DEF Init, Owner
  <2>4. tapped \in [Ctx -> SUBSET Name] /\ rktPipes \in [Name -> Nat]
    BY DEF Init
  <2>5. pc \in [Ctx -> {"out", "render", "return", "use"}]
    BY DEF Init
  <2>6. res \in [Ctx -> {-1, 0, 1}] /\ arg \in [Ctx -> Name]
    BY DEF Init
  <2>7. frame \in 0 .. MaxFrame /\ fails \in 0 .. MaxFails
    BY DEF Init
  <2>8. /\ keys \subseteq Keyed /\ inactive \subseteq {Rkt} \X Name
        /\ locked \in BOOLEAN /\ rktDue \in BOOLEAN /\ ended \in BOOLEAN
    BY DEF Init
  <2> QED
    BY <2>1, <2>2, <2>3, <2>4, <2>5, <2>6, <2>7, <2>8 DEF TypeOK
<1>2. \A n \in Name : pipe[n] = NoPipe
  BY DEF Init
<1>3. \A c \in Ctx : pc[c] = "out"
  BY DEF Init
<1>4. PipesLive /\ PipesOK /\ CurrentFresh
  BY <1>2 DEF PipesLive, PipesOK, CurrentFresh, Current
<1>6. InactiveOwned
  BY DEF Init, InactiveOwned
<1>5. RendererLives /\ CalledCurrent /\ WriterDrives /\ OneWriter
  BY <1>3 DEF RendererLives, CalledCurrent, Called, WriterDrives, OneWriter, Uses
<1> QED
  BY <1>1, <1>4, <1>5, <1>6 DEF IInv

\* What the records of a pipe are.
LEMMA PipeFields ==
  ASSUME TypeOK, NEW n \in Name, pipe[n] # NoPipe
  PROVE  /\ pipe[n] \in Pipe
         /\ pipe[n].owner \in Owner
         /\ pipe[n].driver \in Tap
         /\ pipe[n].frame \in 0 .. MaxFrame
BY DEF TypeOK, Pipe

LEMMA TappedPipe ==
  ASSUME TypeOK, NEW p \in Pipe, NEW driver \in Tap
  PROVE  /\ Tapped(p, driver) \in Pipe
         /\ Tapped(p, driver) # NoPipe
         /\ Tapped(p, driver).owner = p.owner
         /\ Tapped(p, driver).driver = driver
         /\ Tapped(p, driver).frame = frame
BY NoPipeAssumption DEF Tapped, Pipe, TypeOK

LEMMA NewPipeType ==
  ASSUME TypeOK, NEW c \in Ctx, NEW n \in Name
  PROVE  /\ NewPipe(c, n) \in Pipe
         /\ NewPipe(c, n) # NoPipe
         /\ NewPipe(c, n).owner = IF Hooked(n) THEN Rkt ELSE c
         /\ NewPipe(c, n).driver =
              IF Hooked(n) /\ n \in keys THEN <<Rkt, n>> ELSE <<c, n>>
         /\ NewPipe(c, n).frame = frame
BY NoPipeAssumption DEF NewPipe, Pipe, TypeOK, Owner, Tap

-----------------------------------------------------------------------------
(* Types *)

LEMMA StepTypeOK == IInv /\ [Next]_vars => TypeOK'
<1> SUFFICES ASSUME IInv, [Next]_vars
             PROVE  TypeOK'
  OBVIOUS
<1> USE NameAssumption, BoundAssumption DEF IInv
<1>1. CASE NextFrame
  BY <1>1 DEF NextFrame, TypeOK, callVars
<1>2. CASE RktRender
  <2> DEFINE owned == {n \in Name : pipe[n] # NoPipe /\ pipe[n].owner = Rkt}
  <2>1. pipe' \in [Name -> Pipe \union {NoPipe}]
    <3>1. \A n \in owned : RktUpdated(pipe[n], n) \in Pipe
      <4>1. SUFFICES ASSUME NEW n \in owned
                     PROVE  RktUpdated(pipe[n], n) \in Pipe
        OBVIOUS
      <4>2. pipe[n] \in Pipe
        BY PipeFields
      <4>3. <<Rkt, n>> \in Tap
        BY DEF Tap, Owner
      <4> QED
        BY <4>2, <4>3, TappedPipe DEF RktUpdated
    <3>2. pipe' = [n \in Name |-> IF n \in owned THEN RktUpdated(pipe[n], n)
                                                 ELSE pipe[n]]
      BY <1>2 DEF RktRender
    <3> QED
      BY <3>1, <3>2 DEF TypeOK
  <2>2. inactive' \subseteq {Rkt} \X Name
    <3>1. inactive' = InactiveAfter(owned)
      BY <1>2 DEF RktRender
    <3> QED
      BY <3>1 DEF InactiveAfter, TypeOK
  <2> QED
    BY <1>2, <2>1, <2>2 DEF RktRender, TypeOK, callVars
<1>3. CASE End \/ Ended \/ UNCHANGED vars
  BY <1>3 DEF End, Ended, vars, TypeOK, callVars, rktVars
<1>4. ASSUME NEW c \in Ctx, BeginRender(c) \/ EndRender(c)
      PROVE  TypeOK'
  BY <1>4 DEF BeginRender, EndRender, TypeOK, rktVars
<1>5. ASSUME NEW c \in Ctx, TapReturn(c)
      PROVE  TypeOK'
  BY <1>5 DEF TapReturn, TypeOK, rktVars
<1>6. ASSUME NEW c \in Ctx, Create(c)
      PROVE  TypeOK'
  <2>1. ptr' \in [Ctx \X Name -> Tap]
    <3>1. Ctx \X Name \subseteq Tap
      BY DEF Tap, Owner
    <3> QED
      BY <1>6, <3>1 DEF Create, TypeOK
  <2>2. alive' \subseteq Owner
    BY <1>6 DEF Create, TypeOK, Owner
  <2> QED
    BY <1>6, <2>1, <2>2 DEF Create, TypeOK, callVars, rktVars
<1>7. ASSUME NEW c \in Ctx, NEW n \in Name, TapCalled(c, n),
             pipe' \in [Name -> Pipe \union {NoPipe}],
             ptr' \in [Ctx \X Name -> Tap],
             locked' \in BOOLEAN, rktPipes' \in [Name -> Nat],
             pc' \in [Ctx -> {"out", "render", "return", "use"}],
             res' \in [Ctx -> {-1, 0, 1}], fails' \in 0 .. MaxFails
      PROVE  TypeOK'
  <2>1. arg' \in [Ctx -> Name] /\ tapped' \in [Ctx -> SUBSET Name]
    BY <1>7 DEF TapCalled, TypeOK
  <2> QED
    BY <1>7, <2>1 DEF TapCalled, TypeOK
<1>8. ASSUME NEW c \in Ctx, NEW n \in Name, TapDriving(c, n)
      PROVE  TypeOK'
  <2>1. <<c, n>> \in Tap /\ Tapped(pipe[n], <<c, n>>) \in Pipe
    BY <1>8, PipeFields, TappedPipe DEF TapDriving
  <2> QED
    BY <1>7, <1>8, <2>1 DEF TapDriving, TypeOK
<1>9. ASSUME NEW c \in Ctx, NEW n \in Name, TapFound(c, n)
      PROVE  TypeOK'
  <2> DEFINE driver == DriverAfter(<<c, n>>, pipe[n])
  <2>1. driver \in Tap
    BY <1>9, PipeFields DEF TapFound, DriverAfter, Tap, Owner
  <2>2. Tapped(pipe[n], driver) \in Pipe
    BY <1>9, <2>1, PipeFields, TappedPipe DEF TapFound
  <2> HIDE DEF driver
  <2> QED
    BY <1>7, <1>9, <2>1, <2>2 DEF TapFound, TypeOK, driver
<1>10. ASSUME NEW c \in Ctx, NEW n \in Name, TapNew(c, n)
       PROVE  TypeOK'
  <2>1. NewPipe(c, n) \in Pipe /\ NewPipe(c, n).driver \in Tap
    BY NewPipeType DEF Pipe
  <2>2. /\ pipe' \in [Name -> Pipe \union {NoPipe}]
        /\ ptr' \in [Ctx \X Name -> Tap]
    BY <1>10, <2>1 DEF TapNew, TypeOK
  <2>3. rktPipes' \in [Name -> Nat]
    BY <1>10 DEF TapNew, TypeOK
  <2>4. TapCalled(c, n) /\ locked' \in BOOLEAN /\ fails' \in 0 .. MaxFails
    BY <1>10 DEF TapNew, TypeOK
  <2>5. pc' \in [Ctx -> {"out", "render", "return", "use"}]
    BY <1>10 DEF TapNew, TypeOK
  <2>6. res' \in [Ctx -> {-1, 0, 1}]
    BY <1>10 DEF TapNew, TypeOK
  <2> QED
    BY <1>7, <2>2, <2>3, <2>4, <2>5, <2>6
<1>11. ASSUME NEW c \in Ctx, NEW n \in Name, TapFails(c, n)
       PROVE  TypeOK'
  <2>1. locked' \in BOOLEAN /\ rktPipes' \in [Name -> Nat]
    <3>1. CASE locked' = TRUE /\ rktPipes' = rktPipes
      BY <3>1 DEF TypeOK
    <3>2. CASE ~(locked' = TRUE /\ rktPipes' = rktPipes)
      <4>1. /\ rktPipes' = [rktPipes EXCEPT ![n] = IF Hooked(n) THEN @ + 1 ELSE @]
            /\ locked' = locked
        BY <1>11, <3>2 DEF TapFails
      <4> QED
        BY <4>1 DEF TypeOK
    <3> QED
      BY <3>1, <3>2
  <2>2. TapCalled(c, n) /\ pipe' = pipe /\ ptr' = ptr
    BY <1>11 DEF TapFails
  <2>3. fails' \in 0 .. MaxFails
    BY <1>11 DEF TapFails, TypeOK
  <2>4. pc' \in [Ctx -> {"out", "render", "return", "use"}]
    BY <1>11 DEF TapFails, TypeOK
  <2>5. res' \in [Ctx -> {-1, 0, 1}]
    BY <1>11 DEF TapFails, TypeOK
  <2> QED
    BY <1>7, <2>1, <2>2, <2>3, <2>4, <2>5 DEF TypeOK
<1>12. ASSUME NEW o \in Owner, Destroy(o)
       PROVE  TypeOK'
  <2> DEFINE gone == {n \in Name : pipe[n] # NoPipe /\ Untaps(o, pipe[n])}
             freed == {n \in gone : DtorFrees(pipe[n])}
  <2>1. /\ pipe' = [n \in Name |-> IF n \in gone THEN NoPipe ELSE pipe[n]]
        /\ rktPipes' = [n \in Name |-> IF n \in freed THEN rktPipes[n] - 1
                                                      ELSE rktPipes[n]]
        /\ inactive' = inactive \ {<<Rkt, n>> : n \in freed}
    BY <1>12 DEF Destroy
  <2>2. \A n \in freed : n \in Name /\ rktPipes[n] > 0
    BY DEF PipesOK, DtorFrees
  <2>3. pipe' \in [Name -> Pipe \union {NoPipe}]
    BY <2>1 DEF TypeOK
  <2> HIDE DEF freed
  <2>4. rktPipes' \in [Name -> Nat]
    BY <2>1, <2>2 DEF TypeOK
  <2> QED
    BY <1>12, <2>1, <2>3, <2>4 DEF Destroy, TypeOK, callVars
<1> QED
  BY <1>1, <1>2, <1>3, <1>4, <1>5, <1>6, <1>8, <1>9, <1>10, <1>11, <1>12 DEF Next

LEMMA StepInactiveOwned == IInv /\ [Next]_vars => InactiveOwned'
<1> SUFFICES ASSUME IInv, [Next]_vars
             PROVE  InactiveOwned'
  OBVIOUS
<1>1. CASE RktRender
  <2> DEFINE owned == {n \in Name : pipe[n] # NoPipe /\ pipe[n].owner = Rkt}
  <2>1. /\ pipe' = [n \in Name |-> IF n \in owned THEN RktUpdated(pipe[n], n)
                                                 ELSE pipe[n]]
        /\ inactive' = InactiveAfter(owned)
    BY <1>1 DEF RktRender
  <2>2. \A n \in Name : <<Rkt, n>> \in inactive => n \in owned
    BY DEF IInv, InactiveOwned
  <2>3. \A n \in Name : <<Rkt, n>> \in inactive' => n \in owned \ keys'
    BY <2>1, <2>2 DEF InactiveAfter
  <2>4. \A n \in owned \ keys' : pipe'[n] = pipe[n]
    BY <2>1 DEF RktUpdated
  <2> QED
    BY <2>3, <2>4 DEF InactiveOwned
<1>2. ASSUME NEW o \in Owner, Destroy(o)
      PROVE  InactiveOwned'
  <2> DEFINE gone == {n \in Name : pipe[n] # NoPipe /\ Untaps(o, pipe[n])}
             freed == {n \in gone : DtorFrees(pipe[n])}
  <2>1. /\ pipe' = [n \in Name |-> IF n \in gone THEN NoPipe ELSE pipe[n]]
        /\ inactive' = inactive \ {<<Rkt, n>> : n \in freed}
        /\ keys' = keys
    BY <1>2 DEF Destroy
  <2>2. ASSUME NEW n \in Name, <<Rkt, n>> \in inactive'
        PROVE  pipe'[n] # NoPipe /\ pipe'[n].owner = Rkt /\ n \notin keys'
    <3>1. pipe[n] # NoPipe /\ pipe[n].owner = Rkt /\ n \notin keys /\ n \notin freed
      BY <2>1, <2>2 DEF IInv, InactiveOwned
    <3>2. n \notin gone
      BY <3>1 DEF DtorFrees
    <3> QED
      BY <2>1, <3>1, <3>2
  <2> QED
    BY <2>2 DEF InactiveOwned
<1>3. ASSUME NEW c \in Ctx, NEW n \in Name, NEW driver \in Tap,
             TapCalled(c, n), pipe[n] # NoPipe,
             pipe' = [pipe EXCEPT ![n] = Tapped(@, driver)]
      PROVE  InactiveOwned'
  <2>1. /\ pipe'[n] # NoPipe /\ pipe'[n].owner = pipe[n].owner
        /\ \A m \in Name \ {n} : pipe'[m] = pipe[m]
    <3>1. pipe[n] \in Pipe /\ pipe'[n] = Tapped(pipe[n], driver)
      BY <1>3, PipeFields DEF IInv, TypeOK
    <3> QED
      BY <1>3, <3>1, TappedPipe DEF IInv, TypeOK
  <2> QED
    BY <1>3, <2>1 DEF TapCalled, IInv, InactiveOwned
<1>4. ASSUME NEW c \in Ctx, NEW n \in Name, TapDriving(c, n)
      PROVE  InactiveOwned'
  <2>1. <<c, n>> \in Tap
    BY DEF Tap, Owner
  <2> QED
    BY <1>3, <1>4, <2>1 DEF TapDriving
<1>5. ASSUME NEW c \in Ctx, NEW n \in Name, TapFound(c, n)
      PROVE  InactiveOwned'
  <2> DEFINE driver == DriverAfter(<<c, n>>, pipe[n])
  <2>1. driver \in Tap
    BY <1>5, PipeFields DEF TapFound, DriverAfter, Tap, Owner, IInv
  <2>2. pipe' = [pipe EXCEPT ![n] = Tapped(@, driver)]
    BY <1>5 DEF TapFound
  <2> HIDE DEF driver
  <2> QED
    BY <1>3, <1>5, <2>1, <2>2 DEF TapFound
<1>6. ASSUME NEW c \in Ctx, NEW n \in Name, TapNew(c, n)
      PROVE  InactiveOwned'
  <2>1. /\ inactive' = inactive /\ keys' = keys
        /\ <<Rkt, n>> \notin inactive
        /\ \A m \in Name \ {n} : pipe'[m] = pipe[m]
    BY <1>6 DEF TapNew, TapCalled, IInv, InactiveOwned, TypeOK
  <2> QED
    BY <2>1 DEF IInv, InactiveOwned
<1>7. ASSUME UNCHANGED <<pipe, keys, inactive>>
      PROVE  InactiveOwned'
  BY <1>7 DEF IInv, InactiveOwned
<1>8. CASE NextFrame \/ End \/ Ended \/ UNCHANGED vars
  BY <1>7, <1>8 DEF NextFrame, End, Ended, vars, rktVars
<1>9. ASSUME NEW c \in Ctx,
             BeginRender(c) \/ EndRender(c) \/ TapReturn(c) \/ Create(c)
      PROVE  InactiveOwned'
  BY <1>7, <1>9 DEF BeginRender, EndRender, TapReturn, Create, rktVars
<1>10. ASSUME NEW c \in Ctx, NEW n \in Name, TapFails(c, n)
       PROVE  InactiveOwned'
  BY <1>7, <1>10 DEF TapFails, TapCalled
<1> QED
  BY <1>1, <1>2, <1>4, <1>5, <1>6, <1>8, <1>9, <1>10 DEF Next

-----------------------------------------------------------------------------
(* The steps that change no pipe, and tap none *)

\* Beginning and ending to render: no new call, no pipe and no driver change.
LEMMA StepRender ==
  ASSUME IInv, TypeOK', InactiveOwned', NEW c \in Ctx, BeginRender(c) \/ EndRender(c)
  PROVE  IInv'
<1>1. /\ UNCHANGED <<frame, pipe, alive, ptr, arg, res, rktVars, tapped>>
      /\ pc' = [pc EXCEPT ![c] = pc'[c]] /\ pc'[c] \in {"render", "out"}
      /\ pc'[c] # "out" => c \in alive
  BY DEF BeginRender, EndRender, IInv, TypeOK, RendererLives
<1>2. \A d \in Ctx : (pc'[d] \in {"use", "return"} => pc'[d] = pc[d])
                    /\ (pc'[d] # "out" => d \in alive)
  BY <1>1 DEF IInv, TypeOK, RendererLives
<1>3. RendererLives' /\ PipesLive' /\ PipesOK' /\ CurrentFresh'
  BY <1>1, <1>2
  DEF IInv, RendererLives, PipesLive, PipesOK, CurrentFresh, Current, Fresh, rktVars
<1>4. CalledCurrent'
  BY <1>1, <1>2 DEF IInv, CalledCurrent, Called, Current, rktVars
<1>5. WriterDrives' /\ OneWriter'
  BY <1>1, <1>2 DEF IInv, WriterDrives, OneWriter, Uses
<1> QED
  BY <1>3, <1>4, <1>5 DEF IInv

LEMMA StepReturn ==
  ASSUME IInv, TypeOK', InactiveOwned', NEW c \in Ctx, TapReturn(c)
  PROVE  IInv'
<1> DEFINE n == arg[c]
<1>1. /\ UNCHANGED <<frame, pipe, alive, ptr, arg, rktVars, tapped>>
      /\ pc[c] = "return" /\ pc' = [pc EXCEPT ![c] = "use"]
      /\ \A d \in Ctx \ {c} : res'[d] = res[d] /\ pc'[d] = pc[d]
      /\ pc'[c] = "use" /\ res'[c] \in {0, 1}
      /\ res'[c] = 0 => pipe[n].driver = <<c, n>>
      /\ n \in Name
  BY DEF TapReturn, IInv, TypeOK
<1>2. RendererLives' /\ PipesLive' /\ PipesOK' /\ CurrentFresh'
  BY <1>1
  DEF IInv, RendererLives, PipesLive, PipesOK, CurrentFresh, Current, Fresh, rktVars
<1>3. CalledCurrent'
  BY <1>1 DEF IInv, CalledCurrent, Called, Current, rktVars
<1>4. WriterDrives'
  BY <1>1 DEF IInv, WriterDrives
<1>5. OneWriter'
  <2> SUFFICES ASSUME NEW d \in Ctx, NEW e \in Ctx, NEW m \in Name,
                      Uses(d, m)', Uses(e, m)', res'[d] = 0, res'[e] = 0
               PROVE  d = e
    BY DEF OneWriter
  <2>1. pipe[m].driver \in {<<d, m>>, <<Rkt, m>>} \intersect {<<e, m>>, <<Rkt, m>>}
    BY <1>1, <1>4 DEF WriterDrives, Uses
  <2>2. CASE d # c /\ e # c
    BY <1>1, <2>2 DEF IInv, OneWriter, Uses
  <2>3. CASE d = c \/ e = c
    BY <1>1, <2>1, <2>3, RktAssumption DEF Uses
  <2> QED
    BY <2>2, <2>3
<1> QED
  BY <1>2, <1>3, <1>4, <1>5 DEF IInv

LEMMA StepNextFrame ==
  ASSUME IInv, TypeOK', InactiveOwned', NextFrame
  PROVE  IInv'
<1>1. /\ UNCHANGED <<pipe, alive, ptr, pc, arg, res, keys, inactive, rktPipes>>
      /\ frame' = frame + 1 /\ frame \in Nat
      /\ \A c \in Ctx : pc[c] = "out"
  BY DEF NextFrame, NoOneRenders, callVars, IInv, TypeOK
<1>2. RendererLives' /\ CalledCurrent' /\ WriterDrives' /\ OneWriter'
  BY <1>1 DEF RendererLives, CalledCurrent, Called, WriterDrives, OneWriter, Uses
<1>3. PipesLive' /\ PipesOK'
  <2>1. \A n \in Name : pipe[n] # NoPipe => pipe[n].frame <= frame'
    BY <1>1, PipeFields, BoundAssumption DEF IInv, PipesOK
  <2> QED
    BY <1>1, <2>1 DEF IInv, PipesLive, PipesOK
<1>4. CurrentFresh'
  <2>1. \A n \in Name : pipe[n] # NoPipe => pipe[n].frame # frame'
    BY <1>1, PipeFields, BoundAssumption DEF IInv, PipesOK
  <2> QED
    BY <1>1, <2>1 DEF CurrentFresh, Current
<1> QED
  BY <1>2, <1>3, <1>4 DEF IInv

LEMMA StepRktRender ==
  ASSUME IInv, TypeOK', InactiveOwned', RktRender
  PROVE  IInv'
<1> DEFINE owned == {n \in Name : pipe[n] # NoPipe /\ pipe[n].owner = Rkt}
<1>1. /\ UNCHANGED <<frame, alive, ptr, pc, arg, res, rktPipes, tapped>>
      /\ \A c \in Ctx : pc[c] = "out"
      /\ pipe' = [n \in Name |-> IF n \in owned THEN RktUpdated(pipe[n], n)
                                               ELSE pipe[n]]
      /\ inactive' = InactiveAfter(owned)
  BY DEF RktRender, NoOneRenders, callVars
<1>2. RendererLives' /\ CalledCurrent' /\ WriterDrives' /\ OneWriter'
  BY <1>1 DEF RendererLives, CalledCurrent, Called, WriterDrives, OneWriter, Uses
<1>3. ASSUME NEW n \in Name, pipe'[n] # NoPipe
      PROVE  /\ pipe'[n].frame <= frame
             /\ pipe'[n].driver[2] = n
             /\ pipe'[n].owner = Rkt => rktPipes[n] > 0
             /\ OwnerOf(pipe'[n].driver) = Rkt => pipe'[n].owner = Rkt
             /\ pipe'[n].owner \in alive /\ OwnerOf(pipe'[n].driver) \in alive
             /\ Current(n)' => Fresh(pipe[n].driver)'
  <2>1. /\ pipe[n] # NoPipe /\ pipe[n] \in Pipe
        /\ pipe[n].frame <= frame
        /\ pipe[n].driver[2] = n
        /\ pipe[n].owner = Rkt => rktPipes[n] > 0
        /\ OwnerOf(pipe[n].driver) = Rkt => pipe[n].owner = Rkt
        /\ pipe[n].owner \in alive /\ OwnerOf(pipe[n].driver) \in alive
        /\ n \in owned <=> pipe[n].owner = Rkt
    <3>1. pipe[n] # NoPipe
      BY <1>1, <1>3
    <3> QED
      BY <3>1, PipeFields DEF IInv, PipesOK, PipesLive
  <2>2. CASE n \in owned /\ n \in keys'
    <3>1. <<Rkt, n>> \in Tap
      BY DEF Tap, Owner
    <3>2. pipe'[n] = Tapped(pipe[n], <<Rkt, n>>)
      BY <1>1, <2>2 DEF RktUpdated
    <3>3. /\ pipe'[n].owner = Rkt /\ pipe'[n].driver = <<Rkt, n>>
          /\ pipe'[n].frame = frame
      BY <2>1, <2>2, <3>1, <3>2, TappedPipe DEF IInv
    <3>4. frame <= frame
      BY BoundAssumption DEF IInv, TypeOK
    <3> QED
      BY <1>1, <2>1, <2>2, <3>3, <3>4 DEF Fresh, OwnerOf
  <2>3. CASE n \in owned /\ n \notin keys'
    <3>1. pipe'[n] = pipe[n] /\ <<Rkt, n>> \in inactive'
      BY <1>1, <2>3 DEF RktUpdated, InactiveAfter
    <3>2. Current(n)' => Fresh(pipe[n].driver)'
      <4> SUFFICES ASSUME Current(n)' PROVE Fresh(pipe[n].driver)'
        OBVIOUS
      <4>1. pipe[n].driver # <<Rkt, n>>
        BY <3>1 DEF Current
      <4>2. pipe[n].driver \in Tap
        BY <2>1 DEF Pipe
      <4>3. OwnerOf(pipe[n].driver) # Rkt
        BY <2>1, <4>1, <4>2 DEF OwnerOf, Tap
      <4>4. pipe[n].driver \notin inactive
        BY <4>3 DEF IInv, TypeOK, OwnerOf
      <4>5. Current(n)
        BY <1>1, <2>1, <3>1, <4>4 DEF Current
      <4> QED
        BY <1>1, <3>1, <4>3, <4>5 DEF IInv, CurrentFresh, Fresh
    <3> QED
      BY <1>1, <2>1, <3>1, <3>2
  <2>4. CASE n \notin owned
    <3>1. pipe'[n] = pipe[n] /\ OwnerOf(pipe[n].driver) # Rkt
      BY <1>1, <2>1, <2>4
    <3>2. Current(n)' => Fresh(pipe[n].driver)'
      <4> SUFFICES ASSUME Current(n)' PROVE Fresh(pipe[n].driver)'
        OBVIOUS
      <4>1. pipe[n].driver \notin inactive
        BY <3>1 DEF IInv, TypeOK, OwnerOf
      <4>2. Current(n)
        BY <1>1, <2>1, <3>1, <4>1 DEF Current
      <4> QED
        BY <1>1, <3>1, <4>2 DEF IInv, CurrentFresh, Fresh
    <3> QED
      BY <1>1, <2>1, <3>1, <3>2
  <2> QED
    BY <2>2, <2>3, <2>4
<1>4. PipesLive' /\ PipesOK'
  BY <1>1, <1>3 DEF PipesLive, PipesOK
<1>5. CurrentFresh'
  <2> SUFFICES ASSUME NEW n \in Name, Current(n)'
               PROVE  Fresh(pipe[n].driver)'
    BY DEF CurrentFresh
  <2>1. pipe'[n] # NoPipe
    BY DEF Current
  <2> QED
    BY <1>3, <2>1
<1> QED
  BY <1>2, <1>4, <1>5 DEF IInv

-----------------------------------------------------------------------------
(* Contexts come and go *)

LEMMA StepCreate ==
  ASSUME IInv, TypeOK', InactiveOwned', NEW c \in Ctx, Create(c)
  PROVE  IInv'
<1>1. /\ UNCHANGED <<frame, pipe, pc, arg, res, keys, inactive, rktPipes>>
      /\ \A d \in Ctx : pc[d] = "out"
      /\ alive' = alive \union {c} /\ c \notin alive
      /\ \A d \in Ctx \ {c} : tapped'[d] = tapped[d]
  BY DEF Create, NoOneRenders, callVars, rktVars, IInv, TypeOK
<1>2. RendererLives' /\ CalledCurrent' /\ WriterDrives' /\ OneWriter'
  BY <1>1 DEF RendererLives, CalledCurrent, Called, WriterDrives, OneWriter, Uses
<1>3. PipesLive' /\ PipesOK'
  BY <1>1 DEF IInv, PipesLive, PipesOK
<1>4. CurrentFresh'
  <2> SUFFICES ASSUME NEW n \in Name, Current(n)'
               PROVE  Fresh(pipe[n].driver)'
    BY DEF CurrentFresh
  <2>1. Current(n) /\ pipe[n] # NoPipe
    BY <1>1 DEF Current
  <2>2. OwnerOf(pipe[n].driver) \in Owner \ {c}
    BY <1>1, <2>1, PipeFields DEF IInv, PipesLive, Tap, OwnerOf
  <2> QED
    BY <1>1, <2>1, <2>2 DEF IInv, CurrentFresh, Fresh, Owner
<1> QED
  BY <1>2, <1>3, <1>4 DEF IInv

LEMMA StepDestroy ==
  ASSUME IInv, TypeOK', InactiveOwned', NEW o \in Owner, Destroy(o)
  PROVE  IInv'
<1> DEFINE gone == {n \in Name : pipe[n] # NoPipe /\ Untaps(o, pipe[n])}
           freed == {n \in gone : DtorFrees(pipe[n])}
<1>1. /\ UNCHANGED <<frame, ptr, pc, arg, res, keys, tapped>>
      /\ \A d \in Ctx : pc[d] = "out"
      /\ alive' = alive \ {o}
      /\ pipe' = [n \in Name |-> IF n \in gone THEN NoPipe ELSE pipe[n]]
      /\ rktPipes' = [n \in Name |-> IF n \in freed THEN rktPipes[n] - 1
                                                   ELSE rktPipes[n]]
      /\ inactive' = inactive \ {<<Rkt, n>> : n \in freed}
  BY DEF Destroy, NoOneRenders, callVars
<1>2. RendererLives' /\ CalledCurrent' /\ WriterDrives' /\ OneWriter'
  BY <1>1 DEF RendererLives, CalledCurrent, Called, WriterDrives, OneWriter, Uses
<1>3. \A n \in Name : pipe'[n] # NoPipe =>
         /\ n \notin gone /\ pipe'[n] = pipe[n] /\ rktPipes'[n] = rktPipes[n]
         /\ pipe[n].owner # o /\ OwnerOf(pipe[n].driver) # o
  BY <1>1 DEF Untaps
<1>4. PipesLive' /\ PipesOK'
  BY <1>1, <1>3 DEF IInv, PipesLive, PipesOK
<1>5. CurrentFresh'
  <2> SUFFICES ASSUME NEW n \in Name, Current(n)'
               PROVE  Fresh(pipe[n].driver)'
    BY DEF CurrentFresh
  <2>1. pipe'[n] # NoPipe /\ pipe'[n] = pipe[n] /\ n \notin freed
    BY <1>3 DEF Current
  <2>2. pipe[n].driver \notin inactive
    <3>1. pipe[n].driver \in inactive => pipe[n].driver = <<Rkt, n>>
      <4>1. pipe[n].driver[2] = n
        BY <2>1 DEF IInv, PipesOK
      <4> QED
        BY <4>1 DEF IInv, TypeOK
    <3>2. <<Rkt, n>> \notin {<<Rkt, m>> : m \in freed}
      BY <2>1
    <3> QED
      BY <1>1, <2>1, <3>1, <3>2 DEF Current
  <2>3. Current(n)
    BY <1>1, <2>1, <2>2 DEF Current
  <2> QED
    BY <1>1, <2>1, <2>3 DEF IInv, CurrentFresh, Fresh
<1> QED
  BY <1>2, <1>4, <1>5 DEF IInv

-----------------------------------------------------------------------------
(* til_stream_tap() *)

\* What every call leaves alone, and does.
LEMMA CallEffect ==
  ASSUME IInv, NEW c \in Ctx, NEW n \in Name, TapCalled(c, n)
  PROVE  /\ UNCHANGED <<frame, alive, keys, inactive>>
         /\ c \in alive /\ c # Rkt
         /\ arg' = [arg EXCEPT ![c] = n] /\ arg'[c] = n
         /\ \A d \in Ctx : tapped[d] \subseteq tapped'[d]
         /\ n \in tapped'[c]
         /\ \A d \in Ctx \ {c} : arg'[d] = arg[d]
BY RktAssumption DEF TapCalled, IInv, TypeOK, RendererLives

\* The pipe was found, and has the driver it is to have.
LEMMA StepFound ==
  ASSUME IInv, TypeOK', InactiveOwned', NEW c \in Ctx, NEW n \in Name, TapCalled(c, n),
         pipe[n] # NoPipe, NEW driver \in Tap,
         driver = <<c, n>> \/ driver = pipe[n].driver,
         Current(n) => driver = pipe[n].driver,
         driver \notin inactive,
         driver = <<c, n>> \/ Current(n),
         pipe' = [pipe EXCEPT ![n] = Tapped(@, driver)],
         ptr' = [ptr EXCEPT ![<<c, n>>] = driver],
         rktPipes' = rktPipes,
         \A d \in Ctx \ {c} : pc'[d] = pc[d] /\ res'[d] = res[d],
         \/ pc'[c] = "return"
         \/ pc'[c] = "use" /\ res'[c] = 0 /\ driver = <<c, n>>
  PROVE  IInv'
<1>1. /\ UNCHANGED <<frame, alive, keys, inactive>>
      /\ c \in alive /\ c # Rkt
      /\ arg'[c] = n /\ n \in tapped'[c]
      /\ \A d \in Ctx \ {c} : arg'[d] = arg[d]
  BY CallEffect
<1>2. /\ pipe[n] \in Pipe /\ pipe[n].driver \in Tap
      /\ pipe[n].driver[2] = n
      /\ pipe[n].owner = Rkt => rktPipes[n] > 0
      /\ OwnerOf(pipe[n].driver) = Rkt => pipe[n].owner = Rkt
      /\ pipe[n].owner \in alive /\ OwnerOf(pipe[n].driver) \in alive
  BY PipeFields DEF IInv, PipesOK, PipesLive
<1>3. /\ pipe'[n] # NoPipe /\ pipe'[n].owner = pipe[n].owner
      /\ pipe'[n].driver = driver /\ pipe'[n].frame = frame
      /\ \A m \in Name \ {n} : pipe'[m] = pipe[m]
  <2>1. pipe'[n] = Tapped(pipe[n], driver) /\ \A m \in Name \ {n} : pipe'[m] = pipe[m]
    BY DEF IInv, TypeOK
  <2>2. TypeOK /\ pipe[n] \in Pipe /\ driver \in Tap
    BY <1>2 DEF IInv
  <2>3. /\ Tapped(pipe[n], driver) # NoPipe
        /\ Tapped(pipe[n], driver).owner = pipe[n].owner
        /\ Tapped(pipe[n], driver).driver = driver
        /\ Tapped(pipe[n], driver).frame = frame
    BY <2>2, TappedPipe
  <2> QED
    BY <2>1, <2>3
<1>4. driver[2] = n /\ OwnerOf(driver) \in alive
      /\ (OwnerOf(driver) = Rkt => pipe[n].owner = Rkt)
  BY <1>1, <1>2 DEF OwnerOf
<1>5. RendererLives'
  BY <1>1 DEF IInv, RendererLives
<1>6. PipesLive' /\ PipesOK'
  <2>1. frame <= frame
    BY BoundAssumption DEF IInv, TypeOK
  <2> QED
    BY <1>1, <1>2, <1>3, <1>4, <2>1 DEF IInv, PipesLive, PipesOK
<1>7. CurrentFresh'
  <2> SUFFICES ASSUME NEW m \in Name, Current(m)'
               PROVE  Fresh(pipe[m].driver)'
    BY DEF CurrentFresh
  <2>1. CASE m # n
    <3>1. Current(m) /\ pipe'[m] = pipe[m] /\ pipe[m].driver \in Tap
      BY <1>1, <1>3, <2>1, PipeFields DEF Current, IInv
    <3>2. Fresh(pipe[m].driver)
      BY <3>1 DEF IInv, CurrentFresh
    <3> DEFINE tap == pipe[m].driver
    <3>3. Fresh(tap) /\ tap \in Tap /\ pipe'[m].driver = tap
      BY <3>1, <3>2
    <3> HIDE DEF tap
    <3>4. OwnerOf(tap) \in Owner
      BY <3>3 DEF Tap, OwnerOf
    <3> QED
      BY <1>1, <3>3, <3>4, CallEffect DEF Fresh, Owner
  <2>2. CASE m = n
    <3>1. CASE driver = <<c, n>>
      BY <1>1, <1>3, <2>2, <3>1 DEF Fresh, OwnerOf
    <3>2. CASE Current(n) /\ driver = pipe[n].driver
      <4>1. Fresh(driver) /\ OwnerOf(driver) \in Owner
        BY <1>2, <3>2 DEF IInv, CurrentFresh, Tap, OwnerOf
      <4> QED
        BY <1>1, <1>3, <2>2, <4>1, CallEffect DEF Fresh, Owner
    <3> QED
      BY <3>1, <3>2
  <2> QED
    BY <2>1, <2>2
<1>8. CalledCurrent'
  <2> SUFFICES ASSUME NEW d \in Ctx, Called(d)'
               PROVE  /\ Current(arg[d])'
                      /\ ptr'[<<d, arg'[d]>>] = pipe'[arg'[d]].driver
    BY DEF CalledCurrent
  <2>1. CASE d = c
    BY <1>1, <1>3, <2>1 DEF Current, IInv, TypeOK
  <2>2. CASE d # c
    <3>1. /\ Called(d) /\ arg'[d] = arg[d] /\ arg[d] \in Name
          /\ ptr'[<<d, arg[d]>>] = ptr[<<d, arg[d]>>]
      BY <1>1, <2>2 DEF Called, IInv, TypeOK
    <3>2. Current(arg[d]) /\ ptr[<<d, arg[d]>>] = pipe[arg[d]].driver
      BY <3>1 DEF IInv, CalledCurrent
    <3> QED
      BY <1>1, <1>3, <3>1, <3>2 DEF Current
  <2> QED
    BY <2>1, <2>2
<1>9. WriterDrives'
  <2> SUFFICES ASSUME NEW d \in Ctx, pc'[d] = "use", res'[d] = 0
               PROVE  pipe'[arg'[d]].driver \in {<<d, arg'[d]>>, <<Rkt, arg'[d]>>}
    BY DEF WriterDrives
  <2>1. CASE d = c
    BY <1>1, <1>3, <2>1
  <2>2. CASE d # c
    <3>1. /\ Called(d) /\ arg'[d] = arg[d] /\ arg[d] \in Name
          /\ pipe[arg[d]].driver \in {<<d, arg[d]>>, <<Rkt, arg[d]>>}
      BY <1>1, <2>2 DEF Called, IInv, TypeOK, WriterDrives
    <3>2. Current(arg[d])
      BY <3>1 DEF IInv, CalledCurrent
    <3> QED
      BY <1>1, <1>3, <3>1, <3>2
  <2> QED
    BY <2>1, <2>2
<1>10. OneWriter'
  <2> SUFFICES ASSUME NEW d \in Ctx, NEW e \in Ctx, NEW m \in Name,
                      Uses(d, m)', Uses(e, m)', res'[d] = 0, res'[e] = 0
               PROVE  d = e
    BY DEF OneWriter
  <2>1. CASE d # c /\ e # c
    BY <1>1, <2>1 DEF IInv, OneWriter, Uses
  <2>2. CASE d = c \/ e = c
    <3>1. m = n /\ driver = <<c, n>> /\ pipe'[m].driver = <<c, n>>
      BY <1>1, <1>3, <2>2 DEF Uses
    <3>2. \A x \in {d, e} : pipe'[m].driver \in {<<x, m>>, <<Rkt, m>>}
      BY <1>9 DEF WriterDrives, Uses
    <3> QED
      BY <1>1, <3>1, <3>2
  <2> QED
    BY <2>1, <2>2
<1> QED
  BY <1>5, <1>6, <1>7, <1>8, <1>9, <1>10 DEF IInv
LEMMA StepTapDriving ==
  ASSUME IInv, TypeOK', InactiveOwned', NEW c \in Ctx, NEW n \in Name,
         TapDriving(c, n)
  PROVE  IInv'
<1>1. <<c, n>> \in Tap /\ <<c, n>> \notin inactive
  BY RktAssumption DEF Tap, Owner, IInv, TypeOK
<1>2. /\ TapCalled(c, n) /\ pipe[n] # NoPipe
      /\ pipe' = [pipe EXCEPT ![n] = Tapped(@, <<c, n>>)]
      /\ ptr' = [ptr EXCEPT ![<<c, n>>] = <<c, n>>]
      /\ rktPipes' = rktPipes
      /\ pipe[n].driver = <<c, n>>
  BY DEF TapDriving
<1>3. /\ \A d \in Ctx \ {c} : pc'[d] = pc[d] /\ res'[d] = res[d]
      /\ pc'[c] = "use" /\ res'[c] = 0
  BY DEF TapDriving, IInv, TypeOK
<1> QED
  BY <1>1, <1>2, <1>3, StepFound

LEMMA StepTapFound ==
  ASSUME IInv, TypeOK', InactiveOwned', NEW c \in Ctx, NEW n \in Name,
         TapFound(c, n)
  PROVE  IInv'
<1> DEFINE driver == DriverAfter(<<c, n>>, pipe[n])
<1>1. <<c, n>> \in Tap /\ <<c, n>> \notin inactive
  BY RktAssumption DEF Tap, Owner, IInv, TypeOK
<1>2. /\ TapCalled(c, n) /\ pipe[n] # NoPipe
      /\ pipe' = [pipe EXCEPT ![n] = Tapped(@, driver)]
      /\ ptr' = [ptr EXCEPT ![<<c, n>>] = driver]
      /\ rktPipes' = rktPipes
  BY DEF TapFound
<1>3. /\ \A d \in Ctx \ {c} : pc'[d] = pc[d] /\ res'[d] = res[d]
      /\ pc'[c] = "return"
  BY DEF TapFound, IInv, TypeOK
<1>4. /\ driver \in Tap /\ driver \notin inactive
      /\ driver = <<c, n>> \/ driver = pipe[n].driver
      /\ driver = <<c, n>> \/ Current(n)
      /\ Current(n) => driver = pipe[n].driver
  <2>1. pipe[n].driver \in Tap
    BY <1>2, PipeFields DEF IInv
  <2> QED
    BY <1>1, <1>2, <2>1 DEF DriverAfter, Current
<1> HIDE DEF driver
<1> QED
  BY <1>2, <1>3, <1>4, StepFound

\* The pipe was not found: nobody used it, and it is made as it is to be.
LEMMA StepNew ==
  ASSUME IInv, TypeOK', InactiveOwned', NEW c \in Ctx, NEW n \in Name,
         TapNew(c, n)
  PROVE  IInv'
<1> DEFINE driver == NewPipe(c, n).driver
<1>1. TapCalled(c, n)
  BY DEF TapNew
<1>2. /\ UNCHANGED <<frame, alive, keys, inactive>>
      /\ c \in alive /\ c # Rkt
      /\ arg'[c] = n /\ n \in tapped'[c]
      /\ \A d \in Ctx \ {c} : arg'[d] = arg[d]
  BY <1>1, CallEffect
<1>3. /\ pipe[n] = NoPipe
      /\ pipe'[n] = NewPipe(c, n)
      /\ \A m \in Name \ {n} : pipe'[m] = pipe[m] /\ rktPipes'[m] = rktPipes[m]
      /\ ptr' = [ptr EXCEPT ![<<c, n>>] = driver]
  BY DEF TapNew, IInv, TypeOK
<1>4. /\ pc'[c] = "use" /\ res'[c] = 0
      /\ \A d \in Ctx \ {c} : pc'[d] = pc[d] /\ res'[d] = res[d]
  BY DEF TapNew, IInv, TypeOK
<1>5. /\ pipe'[n] # NoPipe
      /\ pipe'[n].owner = IF Hooked(n) THEN Rkt ELSE c
      /\ pipe'[n].driver = driver
      /\ driver = IF Hooked(n) /\ n \in keys THEN <<Rkt, n>> ELSE <<c, n>>
      /\ pipe'[n].frame = frame
  BY <1>3, NewPipeType DEF IInv
<1>6. pipe'[n].owner = Rkt => rktPipes'[n] > 0
  <2>1. pipe'[n].owner = Rkt => Hooked(n)
    BY <1>2, <1>5
  <2>2. Hooked(n) => rktPipes'[n] = rktPipes[n] + 1
    BY DEF TapNew, IInv, TypeOK
  <2>3. rktPipes[n] \in Nat
    BY DEF IInv, TypeOK
  <2> QED
    BY <2>1, <2>2, <2>3
<1>7. /\ pipe'[n].owner \in alive /\ OwnerOf(driver) \in alive
      /\ driver[2] = n /\ (OwnerOf(driver) = Rkt => pipe'[n].owner = Rkt)
  BY <1>2, <1>5 DEF Hooked, OwnerOf
<1>8. driver \in {<<c, n>>, <<Rkt, n>>} /\ driver \notin inactive
  <2>1. <<c, n>> \notin inactive
    BY RktAssumption DEF IInv, TypeOK
  <2>2. <<Rkt, n>> \notin inactive
    BY <1>3 DEF IInv, InactiveOwned
  <2> QED
    BY <1>5, <2>1, <2>2
<1>9. \A d \in Ctx \ {c} : Called(d)' => Called(d) /\ arg[d] # n
  <2> SUFFICES ASSUME NEW d \in Ctx \ {c}, Called(d)'
               PROVE  Called(d) /\ arg[d] # n
    OBVIOUS
  <2>1. Called(d)
    BY <1>4 DEF Called
  <2>2. Current(arg[d])
    BY <2>1 DEF IInv, CalledCurrent
  <2> QED
    BY <1>3, <2>1, <2>2 DEF Current
<1> HIDE DEF driver
<1>10. RendererLives'
  BY <1>2, <1>4 DEF IInv, RendererLives
<1>11. PipesLive' /\ PipesOK'
  <2>1. frame <= frame
    BY BoundAssumption DEF IInv, TypeOK
  <2> QED
    BY <1>2, <1>3, <1>5, <1>6, <1>7, <2>1 DEF IInv, PipesLive, PipesOK
<1>12. CurrentFresh'
  <2> SUFFICES ASSUME NEW m \in Name, Current(m)'
               PROVE  Fresh(pipe[m].driver)'
    BY DEF CurrentFresh
  <2>1. CASE m # n
    <3>1. Current(m) /\ pipe'[m] = pipe[m] /\ pipe[m].driver \in Tap
      BY <1>2, <1>3, <2>1, PipeFields DEF Current, IInv
    <3>2. Fresh(pipe[m].driver)
      BY <3>1 DEF IInv, CurrentFresh
    <3> DEFINE tap == pipe[m].driver
    <3>3. Fresh(tap) /\ tap \in Tap /\ pipe'[m].driver = tap
      BY <3>1, <3>2
    <3> HIDE DEF tap
    <3>4. OwnerOf(tap) \in Owner
      BY <3>3 DEF Tap, OwnerOf
    <3> QED
      BY <1>1, <1>2, <3>3, <3>4, CallEffect DEF Fresh, Owner
  <2>2. CASE m = n
    BY <1>2, <1>5, <2>2 DEF Fresh, OwnerOf
  <2> QED
    BY <2>1, <2>2
<1>13. CalledCurrent'
  <2> SUFFICES ASSUME NEW d \in Ctx, Called(d)'
               PROVE  /\ Current(arg[d])'
                      /\ ptr'[<<d, arg'[d]>>] = pipe'[arg'[d]].driver
    BY DEF CalledCurrent
  <2>1. CASE d = c
    BY <1>2, <1>3, <1>5, <1>8, <2>1 DEF Current, IInv, TypeOK
  <2>2. CASE d # c
    <3>1. /\ Called(d) /\ arg'[d] = arg[d] /\ arg[d] \in Name \ {n}
          /\ ptr'[<<d, arg[d]>>] = ptr[<<d, arg[d]>>]
      BY <1>2, <1>3, <1>9, <2>2 DEF IInv, TypeOK
    <3>2. Current(arg[d]) /\ ptr[<<d, arg[d]>>] = pipe[arg[d]].driver
      BY <3>1 DEF IInv, CalledCurrent
    <3> QED
      BY <1>2, <1>3, <3>1, <3>2 DEF Current
  <2> QED
    BY <2>1, <2>2
<1>14. WriterDrives'
  <2> SUFFICES ASSUME NEW d \in Ctx, pc'[d] = "use", res'[d] = 0
               PROVE  pipe'[arg'[d]].driver \in {<<d, arg'[d]>>, <<Rkt, arg'[d]>>}
    BY DEF WriterDrives
  <2>1. CASE d = c
    BY <1>2, <1>5, <1>8, <2>1
  <2>2. CASE d # c
    BY <1>2, <1>3, <1>4, <1>9, <2>2 DEF Called, IInv, TypeOK, WriterDrives
  <2> QED
    BY <2>1, <2>2
<1>15. OneWriter'
  <2> SUFFICES ASSUME NEW d \in Ctx, NEW e \in Ctx, NEW m \in Name,
                      Uses(d, m)', Uses(e, m)', res'[d] = 0, res'[e] = 0
               PROVE  d = e
    BY DEF OneWriter
  <2>1. CASE d # c /\ e # c
    BY <1>2, <1>4, <2>1 DEF IInv, OneWriter, Uses
  <2>2. \A x \in {d, e} \ {c} : arg'[x] # n
    BY <1>2, <1>9 DEF Called, Uses
  <2>3. CASE d = c \/ e = c
    BY <1>2, <2>2, <2>3 DEF Uses
  <2> QED
    BY <2>1, <2>3
<1> QED
  BY <1>10, <1>11, <1>12, <1>13, <1>14, <1>15 DEF IInv

LEMMA StepFails ==
  ASSUME IInv, TypeOK', InactiveOwned', NEW c \in Ctx, NEW n \in Name,
         TapFails(c, n)
  PROVE  IInv'
<1>1. TapCalled(c, n) /\ UNCHANGED <<pipe, ptr>>
  BY DEF TapFails
<1>2. /\ UNCHANGED <<frame, alive, keys, inactive>>
      /\ c \in alive
      /\ \A d \in Ctx \ {c} : arg'[d] = arg[d]
  BY <1>1, CallEffect
<1>3. /\ pc'[c] = "use" /\ res'[c] = -1
      /\ \A d \in Ctx \ {c} : pc'[d] = pc[d] /\ res'[d] = res[d]
  BY DEF TapFails, IInv, TypeOK
<1>4. \A m \in Name : rktPipes[m] > 0 => rktPipes'[m] > 0
  <2>1. \/ rktPipes' = rktPipes
        \/ rktPipes' = [rktPipes EXCEPT ![n] = IF Hooked(n) THEN @ + 1 ELSE @]
    BY DEF TapFails
  <2> QED
    BY <2>1 DEF IInv, TypeOK
<1>5. RendererLives' /\ PipesLive' /\ PipesOK'
  BY <1>1, <1>2, <1>3, <1>4 DEF IInv, RendererLives, PipesLive, PipesOK
<1>6. CurrentFresh'
  <2> SUFFICES ASSUME NEW m \in Name, Current(m)'
               PROVE  Fresh(pipe[m].driver)'
    BY DEF CurrentFresh
  <2>1. Current(m) /\ pipe[m].driver \in Tap
    BY <1>1, <1>2, PipeFields DEF Current, IInv
  <2>2. Fresh(pipe[m].driver) /\ OwnerOf(pipe[m].driver) \in Owner
    BY <2>1 DEF IInv, CurrentFresh, Tap, OwnerOf
  <2> DEFINE tap == pipe[m].driver
  <2>3. Fresh(tap) /\ OwnerOf(tap) \in Owner /\ pipe'[m].driver = tap
    BY <1>1, <2>2
  <2> HIDE DEF tap
  <2> QED
    BY <1>1, <1>2, <2>3, CallEffect DEF Fresh, Owner
<1>7. \A d \in Ctx : Called(d)' => d # c
  BY <1>3 DEF Called
<1>8. CalledCurrent' /\ WriterDrives' /\ OneWriter'
  <2>1. CalledCurrent'
    BY <1>1, <1>2, <1>3, <1>7 DEF IInv, CalledCurrent, Called, Current
  <2>2. WriterDrives'
    BY <1>1, <1>2, <1>3 DEF IInv, WriterDrives
  <2>3. OneWriter'
    BY <1>1, <1>2, <1>3 DEF IInv, OneWriter, Uses
  <2> QED
    BY <2>1, <2>2, <2>3
<1> QED
  BY <1>5, <1>6, <1>8 DEF IInv

-----------------------------------------------------------------------------
(* The invariant, and what follows from it *)

LEMMA StepIInv == IInv /\ [Next]_vars => IInv'
<1> SUFFICES ASSUME IInv, [Next]_vars
             PROVE  IInv'
  OBVIOUS
<1>1. TypeOK' /\ InactiveOwned'
  BY StepTypeOK, StepInactiveOwned
<1>2. ASSUME UNCHANGED <<frame, pipe, alive, ptr, callVars, rktVars, tapped>>
      PROVE  IInv'
  <2>1. RendererLives' /\ PipesLive' /\ PipesOK' /\ CurrentFresh'
    BY <1>2
    DEF IInv, RendererLives, PipesLive, PipesOK, CurrentFresh, Current, Fresh,
        callVars, rktVars
  <2>2. CalledCurrent' /\ WriterDrives' /\ OneWriter'
    BY <1>2
    DEF IInv, CalledCurrent, Called, Current, WriterDrives, OneWriter, Uses,
        callVars, rktVars
  <2> QED
    BY <1>1, <2>1, <2>2 DEF IInv
<1>3. CASE End \/ Ended \/ UNCHANGED vars
  BY <1>2, <1>3 DEF End, Ended, vars
<1>4. CASE NextFrame \/ RktRender
  BY <1>1, <1>4, StepNextFrame, StepRktRender
<1>5. ASSUME NEW c \in Ctx,
             BeginRender(c) \/ EndRender(c) \/ TapReturn(c) \/ Create(c)
      PROVE  IInv'
  BY <1>1, <1>5, StepRender, StepReturn, StepCreate
<1>6. ASSUME NEW c \in Ctx, NEW n \in Name,
             TapDriving(c, n) \/ TapFound(c, n) \/ TapNew(c, n) \/ TapFails(c, n)
      PROVE  IInv'
  BY <1>1, <1>6, StepTapDriving, StepTapFound, StepNew, StepFails
<1>7. ASSUME NEW o \in Owner, Destroy(o)
      PROVE  IInv'
  BY <1>1, <1>7, StepDestroy
<1> QED
  BY <1>3, <1>4, <1>5, <1>6, <1>7 DEF Next

LEMMA Invariance == Spec => []IInv
BY InitIInv, StepIInv, PTL DEF Spec

\* Each variable of the stream has its type in every reachable state.
THEOREM TypeCorrect == Spec => []TypeOK
<1>1. IInv => TypeOK
  BY DEF IInv
<1> QED
  BY <1>1, Invariance, PTL

\* No pipe of the stream belongs to, or is driven by, a context that was
\* freed: what til_stream_untap_owner() is called for by every free.
THEOREM PipesLiveCorrect == Spec => []PipesLive
<1>1. IInv => PipesLive
  BY DEF IInv
<1> QED
  BY <1>1, Invariance, PTL

\* The driver a context found with til_stream_tap() was not freed and tapped the
\* name in this frame, or is rkt's and its track has keys: no stale driver is
\* followed.  (Whether it has written yet is not part of this.)
THEOREM DriverTappedCorrect == Spec => []DriverTapped
<1>1. IInv => DriverTapped
  <2> SUFFICES ASSUME IInv, NEW c \in Ctx, NEW n \in Name, Uses(c, n)
               PROVE  LET driver == ptr[<<c, n>>] IN
                      /\ OwnerOf(driver) \in alive
                      /\ IF OwnerOf(driver) = Rkt
                           THEN n \in keys
                           ELSE n \in tapped[OwnerOf(driver)]
    BY DEF DriverTapped
  <2>1. Current(n) /\ ptr[<<c, n>>] = pipe[n].driver
    BY DEF IInv, CalledCurrent, Called, Uses
  <2>2. Fresh(pipe[n].driver) /\ pipe[n].driver[2] = n
    BY <2>1 DEF IInv, CurrentFresh, PipesOK, Current
  <2>3. OwnerOf(pipe[n].driver) \in alive
    BY <2>1 DEF IInv, PipesLive, Current
  <2> QED
    BY <2>1, <2>2, <2>3 DEF Fresh
<1> QED
  BY <1>1, Invariance, PTL

\* Contexts that use a name at the same time use the same variable, however
\* their calls of til_stream_tap() were ordered.
THEOREM SameVariableCorrect == Spec => []SameVariable
<1>1. IInv => SameVariable
  BY DEF IInv, CalledCurrent, Called, SameVariable, Uses
<1> QED
  BY <1>1, Invariance, PTL

\* til_stream_tap() tells at most one of them to drive it, though it reads the
\* driver once more without the mutex.
THEOREM OneWriterCorrect == Spec => []OneWriter
<1>1. IInv => OneWriter
  BY DEF IInv
<1> QED
  BY <1>1, Invariance, PTL
-----------------------------------------------------------------------------
(* rkt *)

\* rkt has had its turn in this frame, and drives all it has keys for.
RktDrives ==
  /\ rktDue => NoOneRenders
  /\ ~rktDue => \A n \in Name :
       pipe[n] # NoPipe /\ pipe[n].owner = Rkt /\ n \in keys =>
         pipe[n].driver = <<Rkt, n>> /\ pipe[n].frame = frame

LEMMA StepRktDrives ==
  ASSUME RktFirst, IInv, RktDrives, [Next]_vars
  PROVE  RktDrives'
<1>1. CASE NextFrame
  <2>1. /\ pipe' = pipe /\ alive' = alive /\ NoOneRenders'
        /\ rktDue' = (Rkt \in alive)
    BY <1>1 DEF NextFrame, NoOneRenders, callVars
  <2>2. ~rktDue' => \A n \in Name : pipe[n] # NoPipe => pipe[n].owner # Rkt
    BY <2>1 DEF IInv, PipesLive
  <2> QED
    BY <2>1, <2>2 DEF RktDrives
<1>2. CASE RktRender
  <2> DEFINE owned == {n \in Name : pipe[n] # NoPipe /\ pipe[n].owner = Rkt}
  <2>1. /\ frame' = frame /\ rktDue' = FALSE
        /\ pipe' = [n \in Name |-> IF n \in owned THEN RktUpdated(pipe[n], n)
                                                 ELSE pipe[n]]
    BY <1>2 DEF RktRender
  <2>2. ASSUME NEW n \in Name, pipe'[n] # NoPipe, pipe'[n].owner = Rkt, n \in keys'
        PROVE  pipe'[n].driver = <<Rkt, n>> /\ pipe'[n].frame = frame
    <3>1. n \in owned
      BY <2>1, <2>2
    <3>2. pipe'[n] = Tapped(pipe[n], <<Rkt, n>>)
      BY <2>1, <2>2, <3>1 DEF RktUpdated
    <3>3. pipe[n] \in Pipe /\ <<Rkt, n>> \in Tap
      BY <3>1, PipeFields DEF IInv, Tap, Owner
    <3> QED
      BY <3>2, <3>3, TappedPipe DEF IInv
  <2> QED
    BY <2>1, <2>2 DEF RktDrives
<1>3. CASE End \/ Ended \/ UNCHANGED vars
  BY <1>3 DEF End, Ended, vars, callVars, rktVars, RktDrives, NoOneRenders
<1>4. ASSUME NEW c \in Ctx, BeginRender(c)
      PROVE  RktDrives'
  BY <1>4 DEF BeginRender, rktVars, RktDrives, NoOneRenders
<1>5. ASSUME NEW c \in Ctx, EndRender(c)
      PROVE  RktDrives'
  BY <1>5 DEF EndRender, rktVars, RktDrives, NoOneRenders
<1>6. ASSUME NEW c \in Ctx, TapReturn(c)
      PROVE  RktDrives'
  BY <1>6 DEF TapReturn, rktVars, RktDrives, NoOneRenders
<1>7. ASSUME NEW c \in Ctx, Create(c)
      PROVE  RktDrives'
  BY <1>7 DEF Create, rktVars, callVars, RktDrives, NoOneRenders
<1>8. ASSUME NEW c \in Ctx, NEW n \in Name, TapCalled(c, n),
             \A m \in Name \ {n} : pipe'[m] = pipe[m],
             \/ pipe'[n] = pipe[n]
             \/ pipe'[n] # NoPipe /\ pipe'[n].owner = Rkt /\ n \in keys
                  => pipe'[n].driver = <<Rkt, n>> /\ pipe'[n].frame = frame
      PROVE  RktDrives'
  <2>1. ~rktDue
    BY <1>8 DEF TapCalled, RktDrives, NoOneRenders
  <2>2. UNCHANGED <<frame, keys, rktDue>>
    BY <1>8 DEF TapCalled
  <2>3. ASSUME NEW m \in Name, pipe'[m] # NoPipe, pipe'[m].owner = Rkt, m \in keys
        PROVE  pipe'[m].driver = <<Rkt, m>> /\ pipe'[m].frame = frame
    <3>1. CASE pipe'[m] = pipe[m]
      BY <2>1, <2>3, <3>1 DEF RktDrives
    <3>2. CASE pipe'[m] # pipe[m]
      BY <1>8, <2>3, <3>2
    <3> QED
      BY <3>1, <3>2
  <2> QED
    BY <2>1, <2>2, <2>3 DEF RktDrives
<1>9. ASSUME NEW c \in Ctx, NEW n \in Name, TapDriving(c, n)
      PROVE  RktDrives'
  <2>1. TapCalled(c, n) /\ ~rktDue
    BY <1>9 DEF TapDriving, TapCalled, RktDrives, NoOneRenders
  <2>2. /\ pipe[n] \in Pipe /\ <<c, n>> \in Tap /\ c # Rkt
        /\ pipe'[n] = Tapped(pipe[n], <<c, n>>)
        /\ \A m \in Name \ {n} : pipe'[m] = pipe[m]
    BY <1>9, PipeFields, RktAssumption DEF TapDriving, IInv, TypeOK, Tap, Owner
  <2>3. pipe'[n].owner = pipe[n].owner
    BY <2>2, TappedPipe DEF IInv
  <2>4. ~(pipe[n].owner = Rkt /\ n \in keys)
    BY <1>9, <2>1, <2>2 DEF RktDrives, TapDriving
  <2> QED
    BY <1>8, <2>1, <2>2, <2>3, <2>4
<1>10. ASSUME NEW c \in Ctx, NEW n \in Name, TapFound(c, n)
       PROVE  RktDrives'
  <2> DEFINE driver == DriverAfter(<<c, n>>, pipe[n])
  <2>1. TapCalled(c, n) /\ ~rktDue /\ pipe[n] # NoPipe
    BY <1>10 DEF TapFound, TapCalled, RktDrives, NoOneRenders
  <2>2. pipe[n] \in Pipe /\ driver \in Tap
    BY <2>1, PipeFields DEF DriverAfter, IInv, Tap, Owner
  <2>3. /\ pipe'[n] = Tapped(pipe[n], driver)
        /\ \A m \in Name \ {n} : pipe'[m] = pipe[m]
    BY <1>10 DEF TapFound, IInv, TypeOK
  <2>4. ASSUME pipe[n].owner = Rkt, n \in keys
        PROVE  driver = <<Rkt, n>>
    <3>1. pipe[n].driver = <<Rkt, n>> /\ pipe[n].frame = frame
      BY <2>1, <2>4 DEF RktDrives
    <3>2. <<Rkt, n>> \notin inactive
      BY <2>4 DEF IInv, InactiveOwned
    <3> QED
      BY <3>1, <3>2 DEF DriverAfter
  <2> HIDE DEF driver
  <2>5. /\ pipe'[n].owner = pipe[n].owner /\ pipe'[n].driver = driver
        /\ pipe'[n].frame = frame
    BY <2>2, <2>3, TappedPipe DEF IInv
  <2> QED
    BY <1>8, <2>1, <2>3, <2>4, <2>5
<1>11. ASSUME NEW c \in Ctx, NEW n \in Name, TapNew(c, n)
       PROVE  RktDrives'
  <2>1. /\ TapCalled(c, n) /\ pipe'[n] = NewPipe(c, n) /\ c # Rkt
        /\ \A m \in Name \ {n} : pipe'[m] = pipe[m]
    BY <1>11, RktAssumption DEF TapNew, IInv, TypeOK
  <2>2. pipe'[n].owner = Rkt /\ n \in keys
          => pipe'[n].driver = <<Rkt, n>> /\ pipe'[n].frame = frame
    <3>1. TypeOK
      BY DEF IInv
    <3>2. /\ pipe'[n].owner = IF Hooked(n) THEN Rkt ELSE c
          /\ pipe'[n].driver = IF Hooked(n) /\ n \in keys THEN <<Rkt, n>> ELSE <<c, n>>
          /\ pipe'[n].frame = frame
      BY <2>1, <3>1, NewPipeType
    <3> QED
      BY <2>1, <3>2
  <2> QED
    BY <1>8, <2>1, <2>2
<1>12. ASSUME NEW c \in Ctx, NEW n \in Name, TapFails(c, n)
       PROVE  RktDrives'
  BY <1>8, <1>12 DEF TapFails
<1>13. ASSUME NEW o \in Owner, Destroy(o)
       PROVE  RktDrives'
  <2> DEFINE gone == {n \in Name : pipe[n] # NoPipe /\ Untaps(o, pipe[n])}
  <2>1. /\ UNCHANGED <<frame, keys, pc>> /\ NoOneRenders
        /\ rktDue' = (rktDue /\ o # Rkt)
        /\ pipe' = [n \in Name |-> IF n \in gone THEN NoPipe ELSE pipe[n]]
    BY <1>13 DEF Destroy, callVars
  <2>2. \A n \in Name : pipe'[n] # NoPipe => pipe'[n] = pipe[n] /\ pipe[n].owner # o
    BY <2>1 DEF Untaps
  <2>3. NoOneRenders'
    BY <2>1 DEF NoOneRenders
  <2>4. ASSUME ~rktDue', NEW n \in Name,
               pipe'[n] # NoPipe, pipe'[n].owner = Rkt, n \in keys'
        PROVE  pipe'[n].driver = <<Rkt, n>> /\ pipe'[n].frame = frame'
    <3>1. pipe'[n] = pipe[n] /\ pipe[n].owner # o
      BY <2>2, <2>4
    <3>2. ~rktDue
      BY <2>1, <2>4, <3>1
    <3> QED
      BY <2>1, <2>4, <3>1, <3>2 DEF RktDrives
  <2> QED
    BY <2>3, <2>4 DEF RktDrives
<1> QED
  BY <1>1, <1>2, <1>3, <1>4, <1>5, <1>6, <1>7, <1>9, <1>10, <1>11, <1>12, <1>13
  DEF Next

\* rkt wins the race to drive every pipe it has keys for: when it renders
\* before the contexts that tap them do, as its update of the pipes needs.
THEOREM RktWinsCorrect == ASSUME RktFirst PROVE Spec => []RktWins
<1>1. Init => RktDrives
  BY DEF Init, RktDrives, NoOneRenders
<1>2. IInv /\ RktDrives /\ [Next]_vars => RktDrives'
  BY StepRktDrives
<1>3. IInv /\ RktDrives => RktWins
  <2> SUFFICES ASSUME IInv, RktDrives, NEW c \in Ctx, NEW n \in Name,
                      Uses(c, n), n \in keys, pipe[n].owner = Rkt
               PROVE  ptr[<<c, n>>] = <<Rkt, n>>
    BY DEF RktWins
  <2>1. pipe[n] # NoPipe /\ ptr[<<c, n>>] = pipe[n].driver
    BY DEF IInv, CalledCurrent, Called, Current, Uses
  <2>2. ~rktDue
    BY DEF RktDrives, NoOneRenders, Uses
  <2> QED
    BY <2>1, <2>2 DEF RktDrives
<1> QED
  BY <1>1, <1>2, <1>3, Invariance, PTL DEF Spec
Exact ==
  \A n \in Name :
    rktPipes[n] = IF pipe[n] # NoPipe /\ pipe[n].owner = Rkt THEN 1 ELSE 0

\* While no allocation fails, what the hook allocated is allocated for exactly
\* the pipes rkt owns: none leaks, and none is freed twice.
THEOREM RktPipesFreedCorrect == Spec => []RktPipesFreed
<1>1. Init => RktPipesFreed
  BY DEF Init, RktPipesFreed
<1>2. ASSUME IInv, [Next]_vars, Exact, fails' = 0
      PROVE  Exact'
  <2>1. ASSUME UNCHANGED <<pipe, rktPipes>>
        PROVE  Exact'
    BY <1>2, <2>1 DEF Exact
  <2>2. CASE NextFrame \/ End \/ Ended \/ UNCHANGED vars
    BY <2>1, <2>2 DEF NextFrame, End, Ended, vars, rktVars
  <2>3. ASSUME NEW c \in Ctx,
               BeginRender(c) \/ EndRender(c) \/ TapReturn(c) \/ Create(c)
        PROVE  Exact'
    BY <2>1, <2>3 DEF BeginRender, EndRender, TapReturn, Create, rktVars
  <2>4. CASE RktRender
    <3> DEFINE owned == {n \in Name : pipe[n] # NoPipe /\ pipe[n].owner = Rkt}
    <3>1. /\ rktPipes' = rktPipes
          /\ pipe' = [n \in Name |-> IF n \in owned THEN RktUpdated(pipe[n], n)
                                                   ELSE pipe[n]]
      BY <2>4 DEF RktRender
    <3>2. ASSUME NEW n \in owned
          PROVE  pipe'[n] # NoPipe /\ pipe'[n].owner = Rkt
      <4>1. pipe[n] \in Pipe /\ <<Rkt, n>> \in Tap /\ TypeOK
        BY <1>2, PipeFields DEF IInv, Tap, Owner
      <4>2. pipe'[n] = pipe[n] \/ pipe'[n] = Tapped(pipe[n], <<Rkt, n>>)
        BY <3>1 DEF RktUpdated
      <4> QED
        BY <4>1, <4>2, TappedPipe
    <3> QED
      BY <1>2, <3>1, <3>2 DEF Exact
  <2>5. ASSUME NEW c \in Ctx, NEW n \in Name, NEW driver \in Tap,
               pipe[n] # NoPipe, rktPipes' = rktPipes,
               pipe' = [pipe EXCEPT ![n] = Tapped(@, driver)]
        PROVE  Exact'
    <3>1. /\ pipe'[n] = Tapped(pipe[n], driver)
          /\ \A m \in Name \ {n} : pipe'[m] = pipe[m]
      BY <1>2, <2>5 DEF IInv, TypeOK
    <3>2. pipe'[n] # NoPipe /\ pipe'[n].owner = pipe[n].owner
      BY <1>2, <2>5, <3>1, PipeFields, TappedPipe DEF IInv
    <3> QED
      BY <1>2, <2>5, <3>1, <3>2 DEF Exact
  <2>6. ASSUME NEW c \in Ctx, NEW n \in Name, TapDriving(c, n)
        PROVE  Exact'
    <3>1. <<c, n>> \in Tap
      BY DEF Tap, Owner
    <3> QED
      BY <2>5, <2>6, <3>1 DEF TapDriving
  <2>7. ASSUME NEW c \in Ctx, NEW n \in Name, TapFound(c, n)
        PROVE  Exact'
    <3> DEFINE driver == DriverAfter(<<c, n>>, pipe[n])
    <3>1. driver \in Tap
      BY <1>2, <2>7, PipeFields DEF TapFound, DriverAfter, Tap, Owner, IInv
    <3>2. pipe' = [pipe EXCEPT ![n] = Tapped(@, driver)]
      BY <2>7 DEF TapFound
    <3> HIDE DEF driver
    <3> QED
      BY <2>5, <2>7, <3>1, <3>2 DEF TapFound
  <2>8. ASSUME NEW c \in Ctx, NEW n \in Name, TapNew(c, n)
        PROVE  Exact'
    <3>1. /\ pipe'[n] = NewPipe(c, n) /\ c # Rkt /\ rktPipes[n] = 0
          /\ \A m \in Name \ {n} : pipe'[m] = pipe[m] /\ rktPipes'[m] = rktPipes[m]
          /\ rktPipes'[n] = IF Hooked(n) THEN 1 ELSE 0
      BY <1>2, <2>8, RktAssumption DEF TapNew, Exact, IInv, TypeOK
    <3>2. /\ pipe'[n] # NoPipe
          /\ pipe'[n].owner = IF Hooked(n) THEN Rkt ELSE c
      BY <1>2, <3>1, NewPipeType DEF IInv
    <3> QED
      BY <1>2, <3>1, <3>2 DEF Exact
  <2>9. ASSUME NEW c \in Ctx, NEW n \in Name, TapFails(c, n)
        PROVE  FALSE
    BY <1>2, <2>9, BoundAssumption DEF TapFails, IInv, TypeOK
  <2>10. ASSUME NEW o \in Owner, Destroy(o)
         PROVE  Exact'
    <3> DEFINE gone == {n \in Name : pipe[n] # NoPipe /\ Untaps(o, pipe[n])}
               freed == {n \in gone : DtorFrees(pipe[n])}
    <3>1. /\ pipe' = [n \in Name |-> IF n \in gone THEN NoPipe ELSE pipe[n]]
          /\ rktPipes' = [n \in Name |-> IF n \in freed THEN rktPipes[n] - 1
                                                       ELSE rktPipes[n]]
      BY <2>10 DEF Destroy
    <3>2. \A n \in freed : n \in gone /\ rktPipes[n] = 1
      BY <1>2 DEF Exact, DtorFrees
    <3>3. \A n \in gone \ freed : rktPipes[n] = 0
      BY <1>2 DEF Exact, DtorFrees
    <3> HIDE DEF freed, gone
    <3> QED
      BY <1>2, <3>1, <3>2, <3>3 DEF Exact
  <2> QED
    BY <1>2, <2>2, <2>3, <2>4, <2>6, <2>7, <2>8, <2>9, <2>10 DEF Next
<1>3. IInv /\ [Next]_vars /\ fails' = 0 => fails = 0
  <2> SUFFICES ASSUME IInv, [Next]_vars, fails' = 0
               PROVE  fails = 0
    OBVIOUS
  <2>1. fails' = fails \/ fails' = fails + 1
    BY DEF Next, NextFrame, RktRender, End, Ended, BeginRender, EndRender,
           TapReturn, Create, TapDriving, TapFound, TapNew, TapFails, Destroy, vars
  <2>2. fails \in Nat
    BY BoundAssumption DEF IInv, TypeOK
  <2> QED
    BY <2>1, <2>2
<1>4. IInv /\ RktPipesFreed /\ [Next]_vars => RktPipesFreed'
  <2>1. RktPipesFreed <=> (fails = 0 => Exact)
    BY DEF RktPipesFreed, Exact
  <2>2. RktPipesFreed' <=> (fails' = 0 => Exact')
    BY DEF RktPipesFreed, Exact
  <2> QED
    BY <1>2, <1>3, <2>1, <2>2
<1> QED
  BY <1>1, <1>4, Invariance, PTL DEF Spec
=============================================================================
