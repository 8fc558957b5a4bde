--------------------------- MODULE TilThreadsProofs ---------------------------
(***************************************************************************)
(* What holds of the render threads for any number of them, of fragments   *)
(* and of frames.                                                          *)
(*                                                                         *)
(* The argument: n_idle counts the threads that are Done.  Whenever the    *)
(* caller is not waiting for a frame they all are, so a frame can only be  *)
(* published to threads that are through with the one before, and from     *)
(* then on none is Done until it has noted the new frame's number.         *)
(***************************************************************************)
EXTENDS TilThreads, TLAPS, FiniteSetTheorems

\* A thread that is at work is at work on the current frame.
WorksOnCurrent ==
  \A t \in Thread : pc[t] \notin {"test", "sleep"} => prevFrameNum[t] = frameNum

\* Unless the caller waits for a frame, every thread is through with it.
IdleUnlessWaiting ==
  callerPc \notin {"wait", "wait_sleep"} => Done = Thread

\* The inductive invariant.
IInv ==
  /\ TypeOK
  /\ IdleCount
  /\ WorksOnCurrent
  /\ IdleUnlessWaiting

-----------------------------------------------------------------------------
\* There are NThreads threads.
LEMMA ThreadCount ==
  /\ IsFiniteSet(Thread)
  /\ Cardinality(Thread) = NThreads
BY NThreadsAssumption, FS_Interval, SMT DEF Thread

\* The threads that are done can be counted, and there are no more than NThreads.
LEMMA DoneCount ==
  /\ IsFiniteSet(Done)
  /\ Cardinality(Done) \in 0 .. NThreads
  /\ Cardinality(Done) = NThreads => Done = Thread
<1>1. Done \in SUBSET Thread
  BY DEF Done
<1>2. IsFiniteSet(Done) /\ Cardinality(Done) <= Cardinality(Thread)
      /\ (Cardinality(Thread) = Cardinality(Done) => Thread = Done)
  BY <1>1, ThreadCount, FS_Subset
<1>3. Cardinality(Done) \in Nat
  BY <1>2, FS_CardinalityType
<1> QED
  BY <1>2, <1>3, ThreadCount, NThreadsAssumption

\* All threads idle means all threads done.
LEMMA AllIdleDone == IdleCount /\ AllIdle => Done = Thread
BY DoneCount, NThreadsAssumption DEF IdleCount, AllIdle

-----------------------------------------------------------------------------
LEMMA InitIInv == Init => IInv
<1> SUFFICES ASSUME Init PROVE IInv
  OBVIOUS
<1> USE NThreadsAssumption, MaxFragmentsAssumption, NFrameNumsAssumption
<1>1. Done = Thread
  BY DEF Init, Done
<1>2. TypeOK
  BY SMT DEF Init, TypeOK, Plan, Thread, Fragment, FrameNum
<1>3. IdleCount
  BY <1>1, ThreadCount DEF Init, IdleCount
<1> QED
  BY <1>1, <1>2, <1>3 DEF Init, IInv, WorksOnCurrent, IdleUnlessWaiting

\* What a thread does but Report leaves the threads that are done as they are.
LEMMA ThreadKeepsDone ==
  ASSUME IInv, NEW t \in Thread,
         \/ Sleep(t) \/ Wake(t) \/ Begin(t) \/ ClaimOwn(t) \/ ClaimNext(t)
         \/ Fragmented(t) \/ Render(t)
  PROVE  Done' = Done
<1>1. CASE Sleep(t)
  BY <1>1 DEF IInv, TypeOK, Sleep, Done, sharedVars
<1>2. CASE Wake(t)
  BY <1>2 DEF IInv, TypeOK, Wake, Done, sharedVars
<1>3. CASE Begin(t) \/ ClaimOwn(t) \/ ClaimNext(t) \/ Fragmented(t) \/ Render(t)
  BY <1>3 DEF IInv, TypeOK, Begin, ClaimOwn, ClaimNext, Fragmented, Render,
              Done, sharedVars
<1> QED
  BY <1>1, <1>2, <1>3

LEMMA ThreadKeepsType ==
  ASSUME TypeOK, NEW t \in Thread,
         \/ Sleep(t) \/ Wake(t) \/ Begin(t) \/ ClaimOwn(t) \/ ClaimNext(t)
         \/ Fragmented(t) \/ Render(t)
  PROVE  TypeOK'
<1> USE NThreadsAssumption, MaxFragmentsAssumption, NFrameNumsAssumption
    DEF TypeOK, callerVars
<1>1. CASE Sleep(t)
  BY <1>1 DEF Sleep, sharedVars
<1>2. CASE Wake(t)
  BY <1>2 DEF Wake, sharedVars
<1>3. CASE Begin(t)
  BY <1>3 DEF Begin, sharedVars, Thread
<1>4. CASE ClaimOwn(t)
  BY <1>4 DEF ClaimOwn
<1>5. CASE ClaimNext(t)
  BY <1>5 DEF ClaimNext
<1>6. CASE Fragmented(t)
  BY <1>6 DEF Fragmented, sharedVars
<1>7. CASE Render(t)
  <2>1. \A f \in Fragment : renders'[f] \in Nat
    BY <1>7 DEF Render
  <2>2. renders' \in [Fragment -> Nat]
    BY <1>7, <2>1 DEF Render
  <2>3. fragNum' \in [Thread -> Nat]
    BY <1>7 DEF Render, NextOwn, Thread
  <2> QED
    BY <1>7, <2>2, <2>3 DEF Render, sharedVars
<1> QED
  BY <1>1, <1>2, <1>3, <1>4, <1>5, <1>6, <1>7

LEMMA ThreadIInv ==
  ASSUME IInv, NEW t \in Thread, ThreadFunc(t)
  PROVE  IInv'
<1> USE DEF IInv
<1>1. CASE Report(t)
  <2>1. t \notin Done /\ Done' = Done \union {t}
    BY <1>1 DEF Report, Done, TypeOK, WorksOnCurrent
  <2>2. IdleCount'
    BY <1>1, <2>1, DoneCount, FS_AddElement DEF Report, IdleCount
  <2>3. Cardinality(Done') \in 0 .. NThreads
    <3>1. IsFiniteSet(Done') /\ Done' \in SUBSET Thread
      <4>1. Done' \in SUBSET Thread
        BY DEF Done
      <4>2. IsFiniteSet(Done')
        BY <2>1, DoneCount, FS_AddElement, Zenon
      <4> QED
        BY <4>1, <4>2
    <3> QED
      BY <3>1, ThreadCount, FS_Subset, FS_CardinalityType, NThreadsAssumption
  <2>4. callerPc' \in {callerPc, "submit", "wait"}
        /\ (callerPc' \notin {"wait", "wait_sleep"}
              => callerPc \notin {"wait", "wait_sleep"})
    BY <1>1 DEF Report, LastSignals, CallerSignalled
  <2>5. TypeOK'
    BY <1>1, <2>2, <2>3, <2>4 DEF Report, TypeOK, IdleCount
  <2>6. WorksOnCurrent'
    BY <1>1 DEF Report, WorksOnCurrent, TypeOK
  <2>7. IdleUnlessWaiting'
    BY <2>1, <2>4 DEF IdleUnlessWaiting
  <2> QED
    BY <2>2, <2>5, <2>6, <2>7
<1>2. CASE ~Report(t)
  <2>1. \/ Sleep(t) \/ Wake(t) \/ Begin(t) \/ ClaimOwn(t) \/ ClaimNext(t)
        \/ Fragmented(t) \/ Render(t)
    BY <1>2 DEF ThreadFunc
  <2>2. TypeOK' /\ Done' = Done
    BY <2>1, ThreadKeepsType, ThreadKeepsDone
  <2>3. nIdle' = nIdle /\ callerPc' = callerPc /\ frameNum' = frameNum
    BY <2>1 DEF Sleep, Wake, Begin, ClaimOwn, ClaimNext, Fragmented, Render,
                sharedVars, callerVars
  <2>4. WorksOnCurrent'
    <3>1. CASE Wake(t)
      BY <3>1 DEF Wake, WorksOnCurrent, TypeOK, sharedVars
    <3>2. CASE ~Wake(t)
      BY <2>1, <3>2 DEF Sleep, Begin, ClaimOwn, ClaimNext, Fragmented, Render,
                        WorksOnCurrent, TypeOK, sharedVars
    <3> QED
      BY <3>1, <3>2
  <2> QED
    BY <2>2, <2>3, <2>4 DEF IdleCount, IdleUnlessWaiting
<1> QED
  BY <1>1, <1>2

\* No thread has noted the number of the frame that is just being published.
LEMMA FrameSubmitDone ==
  ASSUME IInv, FrameSubmit
  PROVE  Done' = {} /\ frameNum' \in FrameNum
<1> USE NFrameNumsAssumption DEF IInv
<1>1. Done = Thread
  BY DEF FrameSubmit, IdleUnlessWaiting
<1>2. frameNum' # frameNum /\ frameNum' \in FrameNum
  <2>1. frameNum \in Nat /\ frameNum < NFrameNums
    BY DEF TypeOK, FrameNum
  <2>2. CASE frameNum + 1 = NFrameNums
    <3>1. (frameNum + 1) % NFrameNums = 0
      BY <2>2
    <3> QED
      BY <2>1, <2>2, <3>1 DEF FrameSubmit, FrameNum
  <2>3. CASE frameNum + 1 < NFrameNums
    <3>1. (frameNum + 1) % NFrameNums = frameNum + 1
      BY <2>1, <2>3
    <3> QED
      BY <2>1, <2>3, <3>1 DEF FrameSubmit, FrameNum
  <2> QED
    BY <2>1, <2>2, <2>3
<1>3. Done' = {}
  BY <1>1, <1>2 DEF FrameSubmit, Done
<1> QED
  BY <1>2, <1>3

\* Publishing a frame is where the idle count and the threads change together.
LEMMA FrameSubmitIInv ==
  ASSUME IInv, FrameSubmit
  PROVE  IInv'
<1> USE NFrameNumsAssumption DEF IInv
<1>1. Done = Thread
  BY DEF FrameSubmit, IdleUnlessWaiting
<1>2. frameNum' \in FrameNum
  BY FrameSubmitDone
<1>3. Done' = {}
  BY FrameSubmitDone
<1>4. IdleCount'
  BY <1>3, FS_EmptySet DEF FrameSubmit, IdleCount
<1>5. TypeOK'
  BY <1>2, NThreadsAssumption DEF FrameSubmit, TypeOK
<1>6. WorksOnCurrent'
  BY <1>1 DEF FrameSubmit, WorksOnCurrent, Done, TypeOK
<1> QED
  BY <1>4, <1>5, <1>6 DEF FrameSubmit, IdleUnlessWaiting

LEMMA CallerIInv ==
  ASSUME IInv, Caller
  PROVE  IInv'
<1>1. CASE FrameSubmit
  BY <1>1, FrameSubmitIInv
<1>2. CASE ~FrameSubmit
  <2>1. UNCHANGED <<sharedVars, threadVars>>
    BY <1>2 DEF Caller, Prepare, WaitIdle, SubmitIdle, FinishFrame, RenderAlone
  <2>2. Done' = Done
    BY <2>1 DEF Done, sharedVars, threadVars
  <2>3. IdleCount' /\ WorksOnCurrent'
    BY <2>1, <2>2 DEF IInv, IdleCount, WorksOnCurrent, sharedVars, threadVars
  <2>4. TypeOK'
    BY <1>2, <2>1, MaxFragmentsAssumption
    DEF IInv, TypeOK, Caller, Prepare, WaitIdle, SubmitIdle, FinishFrame,
        RenderAlone, Plan, Fragmenter, sharedVars, threadVars
  <2>5. callerPc' \notin {"wait", "wait_sleep"} => Done = Thread
    BY <1>2, AllIdleDone
    DEF IInv, IdleUnlessWaiting, Caller, Prepare, WaitIdle, SubmitIdle,
        FinishFrame, RenderAlone
  <2> QED
    BY <2>2, <2>3, <2>4, <2>5 DEF IInv, IdleUnlessWaiting
<1> QED
  BY <1>1, <1>2

LEMMA StepIInv == IInv /\ [Next]_vars => IInv'
<1>1. ASSUME IInv, UNCHANGED vars PROVE IInv'
  BY <1>1 DEF IInv, TypeOK, IdleCount, WorksOnCurrent, IdleUnlessWaiting, Done,
              vars, sharedVars, threadVars, callerVars
<1> QED
  BY <1>1, ThreadIInv, CallerIInv DEF Next

THEOREM Invariance == Spec => []IInv
BY InitIInv, StepIInv, PTL DEF Spec

-----------------------------------------------------------------------------
\* Types, for any number of threads, fragments and frame numbers.
THEOREM TypeCorrect == Spec => []TypeOK
BY Invariance, PTL DEF IInv

\* The idle count is the number of threads through with the frame, though it
\* is reset under another mutex than the one it is counted under.
THEOREM IdleCountCorrect == Spec => []IdleCount
BY Invariance, PTL DEF IInv

\* No thread is rendering while the caller renders a frame by itself.
THEOREM AloneIsAloneCorrect == Spec => []AloneIsAlone
<1>1. IInv => AloneIsAlone
  BY DEF IInv, IdleUnlessWaiting, AloneIsAlone
<1> QED
  BY <1>1, Invariance, PTL

\* A frame is only ever published to threads that are through with the one
\* before, so the plan they read with no lock held never changes under them.
THEOREM NoLateThreadCorrect == Spec => NoLateThread
<1>1. IInv /\ [Next]_vars => [frameNum' # frameNum => Done = Thread]_vars
  <2> SUFFICES ASSUME IInv, Next, frameNum' # frameNum
               PROVE  Done = Thread
    OBVIOUS
  <2>1. FrameSubmit
    BY DEF Next, Caller, ThreadFunc, Sleep, Wake, Begin, ClaimOwn, ClaimNext,
           Fragmented, Render, Report, Prepare, WaitIdle, SubmitIdle,
           FinishFrame, RenderAlone, sharedVars
  <2> QED
    BY <2>1 DEF IInv, FrameSubmit, IdleUnlessWaiting
<1> QED
  BY <1>1, Invariance, PTL DEF Spec, NoLateThread

-----------------------------------------------------------------------------
(***************************************************************************)
(* The refinement of FrameRender.  A fragment of a published frame is       *)
(* rendered when it has been claimed and its claimant has moved on.  With   *)
(* cpu affinity no two threads ever claim the same number because each      *)
(* thread's next one lies in the window of NThreads numbers that starts at  *)
(* next_fragment, and no two of them coincide there; without, because the   *)
(* number is taken and advanced in one step.  A thread gives up on a        *)
(* frame only past its last fragment.                                       *)
(***************************************************************************)
Claims(t) == pc[t] \in {"fragment", "render"}

\* The number thread t claims next, when it has affinity; once through with
\* the frame, the one it would have.
Own(t) ==
  CASE pc[t] = "claim" -> fragNum[t]
    [] pc[t] \in {"fragment", "render", "report"} \/ t \in Done
         -> NextOwn(fragNum[t])
    [] OTHER -> t

ModeOfPlan ==
  \A t \in Thread : pc[t] \in {"claim", "fragment", "render", "report"}
                      => mode[t] = IF plan.affinity THEN "cpu" ELSE "turn"
RendersOfFrame ==
  \A t \in Thread : pc[t] = "render" => fragNum[t] < plan.fragments
GivesUpPastLast ==
  \A t \in Thread : pc[t] = "report" \/ t \in Done => plan.fragments < nextFragment
ClaimsPast ==
  \A t \in Thread : Claims(t) => fragNum[t] < nextFragment
ClaimsApart ==
  \A s, t \in Thread : Claims(s) /\ Claims(t) /\ s # t => fragNum[s] # fragNum[t]
OwnInWindow ==
  plan.affinity
    => \A t \in Thread : nextFragment <= Own(t) /\ Own(t) < nextFragment + NThreads
OwnApart ==
  plan.affinity => \A s, t \in Thread : s # t => Own(s) # Own(t)

Rendered(f) ==
  /\ f < nextFragment /\ f < plan.fragments
  /\ \A t \in Thread : Claims(t) => fragNum[t] # f
RenderedOnce ==
  \A f \in Fragment : renders[f] = IF Rendered(f) THEN 1 ELSE 0

FramePublished ==
  /\ plan = job /\ ModeOfPlan /\ RendersOfFrame /\ GivesUpPastLast
  /\ ClaimsPast /\ ClaimsApart /\ OwnInWindow /\ OwnApart /\ RenderedOnce

\* The inductive invariant of the refinement, beside IInv.
RInv ==
  /\ callerPc \in {"wait", "wait_sleep"} => FramePublished
  /\ callerPc \in {"submit", "submit_sleep", "publish"}
       => \A f \in Fragment : renders[f] = 0
  /\ callerPc = "alone"
       => /\ fragnum <= job.fragments
          /\ \A f \in Fragment : renders[f] = IF f < fragnum THEN 1 ELSE 0

-----------------------------------------------------------------------------
\* A thread at work is not done, so the caller is waiting for the frame.
LEMMA WorkingMeansPublished ==
  ASSUME IInv, RInv, NEW t \in Thread,
         t \notin Done
  PROVE  callerPc \in {"wait", "wait_sleep"} /\ FramePublished
BY DEF IInv, RInv, IdleUnlessWaiting

\* What a plan and a thread's number are, for the arithmetic below.
LEMMA FrameTypes ==
  ASSUME TypeOK
  PROVE  /\ plan.fragments \in 0 .. MaxFragments /\ plan.affinity \in BOOLEAN
         /\ job.fragments \in 0 .. MaxFragments
         /\ nextFragment \in Nat /\ fragnum \in Nat
         /\ \A t \in Thread : fragNum[t] \in Nat /\ t \in Nat /\ t < NThreads
         /\ \A t \in Thread : Own(t) \in Nat
<1> USE NThreadsAssumption DEF TypeOK
<1>1. \A t \in Thread : fragNum[t] \in Nat /\ t \in Nat /\ t < NThreads
  BY DEF Thread
<1>2. plan.fragments \in 0 .. MaxFragments /\ plan.affinity \in BOOLEAN
      /\ job.fragments \in 0 .. MaxFragments
  BY DEF Plan
<1>3. fragnum \in Nat
  BY MaxFragmentsAssumption
<1>4. \A t \in Thread : Own(t) \in Nat
  BY <1>1 DEF Own, NextOwn
<1> QED
  BY <1>1, <1>2, <1>3, <1>4

\* A thread that claims a fragment, with affinity or without, claims the next
\* one and takes no other thread's.
LEMMA ClaimKeepsFrame ==
  ASSUME IInv, FramePublished, NEW t \in Thread, ClaimOwn(t) \/ ClaimNext(t),
         Done' = Done
  PROVE  FramePublished'
<1> USE NThreadsAssumption DEF IInv
<1>1. pc[t] = "claim" /\ t \notin Done
  BY DEF ClaimOwn, ClaimNext, Done
<1>2. /\ pc' = [pc EXCEPT ![t] = "fragment"]
      /\ nextFragment' = nextFragment + 1
      /\ plan' = plan /\ job' = job /\ mode' = mode /\ renders' = renders
      /\ fragNum' = [fragNum EXCEPT ![t] = nextFragment]
  <2>1. CASE ClaimOwn(t)
    BY <2>1 DEF ClaimOwn, callerVars, TypeOK
  <2>2. CASE ClaimNext(t)
    BY <2>2 DEF ClaimNext, callerVars
  <2> QED
    BY <2>1, <2>2
<1>3. /\ pc'[t] = "fragment" /\ fragNum'[t] = nextFragment
      /\ \A s \in Thread : s # t => pc'[s] = pc[s] /\ fragNum'[s] = fragNum[s]
  BY <1>2 DEF TypeOK
<1>4. /\ Claims(t)' /\ ~Claims(t)
      /\ \A s \in Thread : s # t => Claims(s)' = Claims(s) /\ Own(s)' = Own(s)
  BY <1>1, <1>3 DEF Claims, Own
<1>5. plan.affinity => Own(t) = nextFragment /\ Own(t)' = nextFragment + NThreads
  <2> HAVE plan.affinity
  <2>1. ClaimOwn(t)
    BY <1>1 DEF ClaimNext, FramePublished, ModeOfPlan
  <2> QED
    BY <1>1, <1>3, <2>1 DEF ClaimOwn, Own, NextOwn
<1>6. plan'.affinity = plan.affinity /\ plan'.fragments = plan.fragments
  BY <1>2
<1>7. ModeOfPlan'
  BY <1>1, <1>2, <1>3 DEF FramePublished, ModeOfPlan
<1>8. RendersOfFrame'
  BY <1>3, <1>6 DEF FramePublished, RendersOfFrame
<1>9. GivesUpPastLast'
  BY <1>2, <1>3, FrameTypes DEF FramePublished, GivesUpPastLast
<1>10. ClaimsPast' /\ ClaimsApart'
  BY <1>2, <1>3, <1>4, FrameTypes DEF FramePublished, ClaimsPast, ClaimsApart
<1>11. OwnInWindow'
  <2> SUFFICES ASSUME plan.affinity, NEW s \in Thread
               PROVE  nextFragment + 1 <= Own(s)'
                      /\ Own(s)' < nextFragment + 1 + NThreads
    BY <1>2, <1>6 DEF OwnInWindow
  <2>1. CASE s = t
    BY <1>5, <2>1, FrameTypes
  <2>2. CASE s # t
    <3>1. Own(s) # nextFragment
      BY <1>5, <2>2 DEF FramePublished, OwnApart
    <3>2. Own(s) \in Nat /\ nextFragment \in Nat
          /\ nextFragment <= Own(s) /\ Own(s) < nextFragment + NThreads
      BY FrameTypes DEF FramePublished, OwnInWindow
    <3> QED
      BY <1>4, <2>2, <3>1, <3>2
  <2> QED
    BY <2>1, <2>2
<1>12. OwnApart'
  <2> SUFFICES ASSUME plan.affinity, NEW s \in Thread, NEW u \in Thread, s # u
               PROVE  Own(s)' # Own(u)'
    BY <1>6 DEF OwnApart
  <2>1. \A v \in Thread : Own(v) \in Nat /\ Own(v) < nextFragment + NThreads
    BY FrameTypes DEF FramePublished, OwnInWindow
  <2>2. \A v \in Thread : v # t => Own(v)' # Own(t)'
    BY <1>4, <1>5, <2>1, FrameTypes
  <2>3. CASE s # t /\ u # t
    BY <1>4, <2>3 DEF FramePublished, OwnApart
  <2> QED
    BY <2>2, <2>3
<1>13. RenderedOnce'
  <2> SUFFICES ASSUME NEW f \in Fragment
               PROVE  Rendered(f)' <=> Rendered(f)
    BY <1>2 DEF FramePublished, RenderedOnce
  <2>1. f \in Int /\ nextFragment \in Nat
    BY FrameTypes DEF Fragment
  <2> QED
    BY <1>2, <1>3, <1>4, <1>6, <2>1 DEF Rendered
<1> QED
  BY <1>2, <1>7, <1>8, <1>9, <1>10, <1>11, <1>12, <1>13 DEF FramePublished

\* Rendering a claimed fragment lets go of it, and nothing else changes hands.
LEMMA RenderKeepsFrame ==
  ASSUME IInv, FramePublished, NEW t \in Thread, Render(t), Done' = Done
  PROVE  /\ FramePublished'
         /\ fragNum[t] \in Fragment /\ fragNum[t] < plan.fragments
         /\ renders[fragNum[t]] = 0
         /\ renders' = [renders EXCEPT ![fragNum[t]] = 1]
<1> USE NThreadsAssumption DEF IInv
<1>1. /\ pc[t] = "render" /\ t \notin Done
      /\ UNCHANGED <<plan, nextFragment, job, mode>>
  BY DEF Render, Done, sharedVars, callerVars
<1>2. fragNum[t] < plan.fragments /\ fragNum[t] < nextFragment
  BY <1>1 DEF FramePublished, RendersOfFrame, ClaimsPast, Claims
<1>3. fragNum[t] \in Fragment
  BY <1>2, FrameTypes, MaxFragmentsAssumption DEF Fragment
<1>4. ~Rendered(fragNum[t]) /\ renders[fragNum[t]] = 0
  BY <1>1, <1>3 DEF Rendered, Claims, FramePublished, RenderedOnce
<1>5. renders' = [renders EXCEPT ![fragNum[t]] = 1]
  BY <1>3, <1>4 DEF Render, TypeOK
<1>6. /\ pc'[t] = "claim"
      /\ fragNum'[t] = IF plan.affinity THEN NextOwn(fragNum[t]) ELSE fragNum[t]
      /\ \A s \in Thread : s # t => pc'[s] = pc[s] /\ fragNum'[s] = fragNum[s]
  BY <1>1 DEF Render, TypeOK, FramePublished, ModeOfPlan
<1>7. /\ ~Claims(t)'
      /\ \A s \in Thread : s # t => Claims(s)' = Claims(s) /\ Own(s)' = Own(s)
      /\ plan.affinity => Own(t)' = Own(t)
  BY <1>1, <1>6 DEF Claims, Own
<1>8. ModeOfPlan' /\ RendersOfFrame' /\ GivesUpPastLast'
  BY <1>1, <1>6 DEF FramePublished, ModeOfPlan, RendersOfFrame, GivesUpPastLast
<1>9. ClaimsPast' /\ ClaimsApart'
  BY <1>1, <1>6, <1>7 DEF FramePublished, ClaimsPast, ClaimsApart
<1>10. OwnInWindow' /\ OwnApart'
  BY <1>1, <1>7 DEF FramePublished, OwnInWindow, OwnApart
<1>11. RenderedOnce'
  <2> SUFFICES ASSUME NEW f \in Fragment
               PROVE  renders'[f] = IF Rendered(f)' THEN 1 ELSE 0
    BY DEF RenderedOnce
  <2>1. CASE f = fragNum[t]
    <3>1. \A s \in Thread : Claims(s)' => fragNum'[s] # f
      BY <1>1, <1>6, <1>7, <2>1 DEF FramePublished, ClaimsApart, Claims
    <3> QED
      BY <1>1, <1>2, <1>5, <2>1, <3>1 DEF Rendered, TypeOK
  <2>2. CASE f # fragNum[t]
    <3>1. Rendered(f)' <=> Rendered(f)
      BY <1>1, <1>6, <1>7, <2>2 DEF Rendered, Claims
    <3> QED
      BY <1>5, <2>2, <3>1 DEF TypeOK, FramePublished, RenderedOnce
  <2> QED
    BY <2>1, <2>2
<1> QED
  BY <1>1, <1>2, <1>3, <1>4, <1>5, <1>8, <1>9, <1>10, <1>11 DEF FramePublished

\* The steps that neither claim nor render.
LEMMA OtherKeepsFrame ==
  ASSUME IInv, FramePublished, NEW t \in Thread,
         Sleep(t) \/ Wake(t) \/ Begin(t) \/ Fragmented(t), Done' = Done
  PROVE  FramePublished' /\ renders' = renders
<1> USE NThreadsAssumption DEF IInv
<1>1. UNCHANGED <<plan, nextFragment, job, renders>>
  BY DEF Sleep, Wake, Begin, Fragmented, sharedVars, callerVars
<1>2. \A s \in Thread : s # t => /\ pc'[s] = pc[s] /\ fragNum'[s] = fragNum[s]
                                 /\ mode'[s] = mode[s]
  BY DEF Sleep, Wake, Begin, Fragmented, TypeOK
<1>3. \A s \in Thread : s # t => Claims(s)' = Claims(s) /\ Own(s)' = Own(s)
  BY <1>2 DEF Claims, Own
<1>4. CASE Sleep(t) \/ Wake(t)
  <2>1. /\ pc'[t] \in {"sleep", "begin"} /\ pc[t] = "test"
        /\ fragNum' = fragNum /\ mode' = mode
    BY <1>4 DEF Sleep, Wake, TypeOK
  <2>2. ~Claims(t)' /\ ~Claims(t) /\ Own(t)' = Own(t)
    BY <2>1 DEF Claims, Own
  <2> QED
    BY <1>1, <1>2, <1>3, <2>1, <2>2
    DEF FramePublished, ModeOfPlan, RendersOfFrame, GivesUpPastLast, ClaimsPast,
        ClaimsApart, OwnInWindow, OwnApart, RenderedOnce, Rendered
<1>5. CASE Begin(t)
  <2>1. /\ pc'[t] = "claim" /\ pc[t] = "begin"
        /\ fragNum'[t] = IF plan.affinity THEN t ELSE fragNum[t]
        /\ mode'[t] = IF plan.affinity THEN "cpu" ELSE "turn"
    BY <1>5 DEF Begin, TypeOK
  <2>2. ~Claims(t)' /\ ~Claims(t) /\ (plan.affinity => Own(t)' = Own(t))
    BY <2>1 DEF Claims, Own, Done
  <2>3. ModeOfPlan' /\ RendersOfFrame' /\ GivesUpPastLast'
    BY <1>1, <1>2, <2>1
    DEF FramePublished, ModeOfPlan, RendersOfFrame, GivesUpPastLast
  <2>4. ClaimsPast' /\ ClaimsApart' /\ RenderedOnce'
    BY <1>1, <1>2, <1>3, <2>2
    DEF FramePublished, ClaimsPast, ClaimsApart, RenderedOnce, Rendered
  <2>5. OwnInWindow' /\ OwnApart'
    BY <1>1, <1>3, <2>2 DEF FramePublished, OwnInWindow, OwnApart
  <2> QED
    BY <1>1, <2>3, <2>4, <2>5 DEF FramePublished
<1>6. CASE Fragmented(t)
  <2>1. /\ pc'[t] \in {"render", "report"} /\ pc[t] = "fragment"
        /\ pc'[t] = "render" <=> fragNum[t] < plan.fragments
        /\ fragNum' = fragNum /\ mode' = mode
    BY <1>6 DEF Fragmented, Fragmenter, TypeOK
  <2>2. /\ Claims(t) /\ (Claims(t)' <=> fragNum[t] < plan.fragments)
        /\ Own(t)' = Own(t)
    BY <2>1 DEF Claims, Own
  <2>3. ModeOfPlan' /\ RendersOfFrame' /\ ClaimsPast' /\ ClaimsApart'
    BY <1>1, <1>2, <1>3, <2>1, <2>2
    DEF FramePublished, ModeOfPlan, RendersOfFrame, ClaimsPast, ClaimsApart
  <2>4. GivesUpPastLast'
    <3>1. ~(fragNum[t] < plan.fragments) => plan.fragments < nextFragment
      BY <2>2, FrameTypes DEF FramePublished, ClaimsPast
    <3> QED
      BY <1>1, <1>2, <2>1, <3>1 DEF FramePublished, GivesUpPastLast
  <2>5. OwnInWindow' /\ OwnApart'
    BY <1>1, <1>3, <2>2 DEF FramePublished, OwnInWindow, OwnApart
  <2>6. \A f \in Fragment : Rendered(f)' <=> Rendered(f)
    BY <1>1, <1>3, <2>1, <2>2 DEF Rendered
  <2> QED
    BY <1>1, <2>3, <2>4, <2>5, <2>6 DEF FramePublished, RenderedOnce
<1> QED
  BY <1>1, <1>4, <1>5, <1>6

\* A thread that is through with the frame changes nothing of it.
LEMMA ReportKeepsFrame ==
  ASSUME IInv, FramePublished, NEW t \in Thread, Report(t)
  PROVE  FramePublished' /\ renders' = renders
<1> USE DEF IInv
<1>1. UNCHANGED <<plan, nextFragment, job, renders, fragNum, mode>>
  BY DEF Report
<1>2. /\ pc'[t] = "test" /\ pc[t] = "report"
      /\ \A s \in Thread : s # t => pc'[s] = pc[s]
  BY DEF Report, TypeOK
<1>3. t \notin Done /\ Done' = Done \union {t}
  BY DEF Report, Done, TypeOK, WorksOnCurrent
<1>4. \A s \in Thread : Claims(s)' = Claims(s) /\ Own(s)' = Own(s)
  BY <1>1, <1>2, <1>3 DEF Claims, Own
<1>5. ModeOfPlan' /\ RendersOfFrame' /\ GivesUpPastLast'
  BY <1>1, <1>2, <1>3
  DEF FramePublished, ModeOfPlan, RendersOfFrame, GivesUpPastLast
<1> QED
  BY <1>1, <1>4, <1>5
  DEF FramePublished, ClaimsPast, ClaimsApart, OwnInWindow, OwnApart,
      RenderedOnce, Rendered

\* Publishing starts with nothing claimed and every thread's own number ahead.
LEMMA SubmitMakesFrame ==
  ASSUME IInv, RInv, FrameSubmit
  PROVE  FramePublished' /\ renders' = renders
<1> USE NThreadsAssumption DEF IInv
<1>1. Done = Thread /\ Done' = {}
  BY FrameSubmitDone DEF FrameSubmit, IdleUnlessWaiting
<1>2. /\ plan' = job /\ job' = job /\ nextFragment' = 0 /\ renders' = renders
      /\ \A t \in Thread : pc'[t] \in {"test", "sleep"}
      /\ \A f \in Fragment : renders[f] = 0
  BY <1>1 DEF FrameSubmit, TypeOK, Done, RInv
<1>3. \A t \in Thread : ~Claims(t)' /\ Own(t)' = t
  BY <1>1, <1>2 DEF Claims, Own
<1>4. OwnInWindow' /\ OwnApart'
  BY <1>2, <1>3, FrameTypes DEF OwnInWindow, OwnApart
<1>5. RenderedOnce'
  <2>1. \A f \in Fragment : ~Rendered(f)'
    BY <1>2 DEF Rendered, Fragment
  <2> QED
    BY <1>2, <2>1 DEF RenderedOnce
<1> QED
  BY <1>1, <1>2, <1>3, <1>4, <1>5
  DEF FramePublished, ModeOfPlan, RendersOfFrame, GivesUpPastLast, ClaimsPast,
      ClaimsApart

LEMMA ThreadRInv ==
  ASSUME IInv, RInv, NEW t \in Thread, ThreadFunc(t)
  PROVE  RInv'
<1>1. CASE t \in Done
  <2>1. Sleep(t)
    BY <1>1 DEF Done, ThreadFunc, Sleep, Wake, Begin, ClaimOwn, ClaimNext,
                Fragmented, Render, Report
  <2>2. UNCHANGED <<callerPc, job, fragnum, renders>> /\ Done' = Done
    BY <2>1, ThreadKeepsDone DEF Sleep, callerVars
  <2>3. FramePublished => FramePublished'
    BY <2>1, <2>2, OtherKeepsFrame
  <2> QED
    BY <2>2, <2>3 DEF RInv
<1>2. CASE t \notin Done
  <2>1. callerPc \in {"wait", "wait_sleep"} /\ FramePublished
    BY <1>2, WorkingMeansPublished
  <2>2. FramePublished'
    <3>1. CASE Report(t)
      BY <2>1, <3>1, ReportKeepsFrame
    <3>2. CASE ~Report(t)
      <4>1. Done' = Done
        BY <3>2, ThreadKeepsDone DEF ThreadFunc
      <4> QED
        BY <2>1, <3>2, <4>1, ClaimKeepsFrame, RenderKeepsFrame, OtherKeepsFrame
        DEF ThreadFunc
    <3> QED
      BY <3>1, <3>2
  <2>3. callerPc' \in {"wait", "wait_sleep"}
    BY <2>1
    DEF ThreadFunc, Sleep, Wake, Begin, ClaimOwn, ClaimNext, Fragmented, Render,
        Report, LastSignals, CallerSignalled, sharedVars, callerVars
  <2> QED
    BY <2>2, <2>3 DEF RInv
<1> QED
  BY <1>1, <1>2

LEMMA CallerRInv ==
  ASSUME IInv, RInv, Caller
  PROVE  RInv'
<1>1. CASE Prepare
  BY <1>1, FrameTypes DEF Prepare, RInv, Plan, IInv, TypeOK, Fragment
<1>2. CASE WaitIdle \/ SubmitIdle
  <2>1. UNCHANGED <<sharedVars, threadVars, job, fragnum, renders>>
        /\ (callerPc' \in {"wait", "wait_sleep"} => callerPc \in {"wait", "wait_sleep"})
        /\ (callerPc' \in {"submit", "submit_sleep", "publish"}
              => callerPc \in {"submit", "submit_sleep", "publish"})
        /\ callerPc' # "alone"
    BY <1>2 DEF WaitIdle, SubmitIdle
  <2>2. FramePublished => FramePublished'
    BY <2>1 DEF FramePublished, ModeOfPlan, RendersOfFrame, GivesUpPastLast,
                ClaimsPast, ClaimsApart, OwnInWindow, OwnApart, RenderedOnce,
                Rendered, Claims, Own, Done, sharedVars, threadVars
  <2> QED
    BY <2>1, <2>2 DEF RInv
<1>3. CASE FrameSubmit
  BY <1>3, SubmitMakesFrame DEF FrameSubmit, RInv
<1>4. CASE FinishFrame
  BY <1>4 DEF FinishFrame, RInv
<1>5. CASE RenderAlone
  <2>1. \A f \in Fragment : f \in Int
    BY DEF Fragment
  <2>2. fragnum \in Nat /\ job.fragments \in Nat
    BY FrameTypes DEF IInv
  <2>3. fragnum' <= job'.fragments
    BY <1>5, <2>2 DEF RenderAlone, Fragmenter
  <2>4. \A f \in Fragment : renders'[f] = IF f < fragnum' THEN 1 ELSE 0
    BY <1>5, <2>1, <2>2 DEF RenderAlone, RInv, IInv, TypeOK
  <2> QED
    BY <1>5, <2>3, <2>4 DEF RenderAlone, RInv
<1> QED
  BY <1>1, <1>2, <1>3, <1>4, <1>5 DEF Caller

\* Initially nothing is published.
LEMMA InitRInv == Init => RInv
BY DEF Init, RInv

LEMMA StepRInv == IInv /\ RInv /\ [Next]_vars => RInv'
<1>1. ASSUME IInv, RInv, UNCHANGED vars PROVE RInv'
  BY <1>1
  DEF RInv, FramePublished, ModeOfPlan, RendersOfFrame, GivesUpPastLast,
      ClaimsPast, ClaimsApart, OwnInWindow, OwnApart, RenderedOnce, Rendered,
      Claims, Own, Done, vars, sharedVars, threadVars, callerVars
<1> QED
  BY <1>1, ThreadRInv, CallerRInv DEF Next

\* Whatever the affinity, a fragment of the published frame is rendered as
\* often as it has been claimed and let go of, which is at most once.
THEOREM RendersInvariance == Spec => [](IInv /\ RInv)
BY InitIInv, StepIInv, InitRInv, StepRInv, PTL DEF Spec

-----------------------------------------------------------------------------
\* When all threads are idle every fragment of the frame has been rendered.
LEMMA AllIdleAllRendered ==
  ASSUME IInv, RInv, callerPc = "wait", AllIdle
  PROVE  \A f \in 0 .. job.fragments - 1 : renders[f] = 1
<1> USE NThreadsAssumption DEF IInv
<1>1. FramePublished /\ Done = Thread
  BY AllIdleDone DEF RInv
<1>2. 0 \in Thread /\ plan.fragments < nextFragment /\ plan = job
  BY <1>1 DEF Thread, FramePublished, GivesUpPastLast
<1>3. \A t \in Thread : ~Claims(t)
  BY <1>1 DEF Done, Claims
<1> SUFFICES ASSUME NEW f \in 0 .. job.fragments - 1
             PROVE  renders[f] = 1
  OBVIOUS
<1>4. f \in Fragment /\ f < plan.fragments /\ f < nextFragment
  BY <1>2, FrameTypes, MaxFragmentsAssumption DEF Fragment
<1> QED
  BY <1>1, <1>3, <1>4 DEF FramePublished, RenderedOnce, Rendered

LEMMA ThreadImplements ==
  ASSUME IInv, RInv, NEW t \in Thread, ThreadFunc(t)
  PROVE  [FR!Next]_FR!vars
<1>1. CASE Render(t)
  <2>1. t \notin Done
    BY <1>1 DEF Render, Done
  <2>2. callerPc \in {"wait", "wait_sleep"} /\ FramePublished
    BY <2>1, WorkingMeansPublished
  <2>3. Done' = Done
    BY <1>1, ThreadKeepsDone
  <2>4. /\ fragNum[t] \in Fragment /\ fragNum[t] < plan.fragments
        /\ renders[fragNum[t]] = 0
        /\ renders' = [renders EXCEPT ![fragNum[t]] = 1]
    BY <1>1, <2>2, <2>3, RenderKeepsFrame
  <2>5. fragNum[t] \in 0 .. job.fragments - 1
    BY <2>2, <2>4, FrameTypes DEF IInv, FramePublished, Fragment
  <2>6. UNCHANGED <<callerPc, job>>
    BY <1>1 DEF Render, callerVars
  <2> QED
    BY <2>2, <2>4, <2>5, <2>6 DEF FR!Next, FR!RenderFragment
<1>2. CASE ~Render(t)
  <2>1. UNCHANGED <<job, renders>> /\ (callerPc' = "prepare" <=> callerPc = "prepare")
    BY <1>2
    DEF ThreadFunc, Sleep, Wake, Begin, ClaimOwn, ClaimNext, Fragmented, Report,
        LastSignals, CallerSignalled, callerVars
  <2> QED
    BY <2>1 DEF FR!vars
<1> QED
  BY <1>1, <1>2

LEMMA CallerImplements ==
  ASSUME IInv, RInv, Caller
  PROVE  [FR!Next]_FR!vars
<1>1. CASE Prepare
  <2>1. job'.fragments \in 0 .. MaxFragments /\ callerPc' # "prepare"
    BY <1>1 DEF Prepare, Plan
  <2> QED
    BY <1>1, <2>1 DEF Prepare, FR!Next, FR!Prepare, FR!Fragment, Fragment
<1>2. CASE WaitIdle \/ SubmitIdle \/ FrameSubmit
  BY <1>2 DEF WaitIdle, SubmitIdle, FrameSubmit, FR!vars
<1>3. CASE FinishFrame
  <2>1. \A f \in 0 .. job.fragments - 1 : renders[f] = 1
    <3>1. CASE callerPc = "wait" /\ AllIdle
      BY <3>1, AllIdleAllRendered
    <3>2. CASE callerPc = "alone" /\ ~Fragmenter(job, fragnum)
      BY <3>2, FrameTypes, MaxFragmentsAssumption
      DEF IInv, RInv, Fragmenter, Fragment
    <3> QED
      BY <1>3, <3>1, <3>2 DEF FinishFrame
  <2> QED
    BY <1>3, <2>1 DEF FinishFrame, FR!Next, FR!Finish
<1>4. CASE RenderAlone
  <2>1. /\ fragnum \in 0 .. job.fragments - 1 /\ fragnum \in Fragment
        /\ renders[fragnum] = 0
    BY <1>4, FrameTypes, MaxFragmentsAssumption
    DEF RenderAlone, IInv, RInv, Fragmenter, Fragment
  <2>2. renders' = [renders EXCEPT ![fragnum] = 1]
    BY <1>4, <2>1 DEF RenderAlone, IInv, TypeOK
  <2> QED
    BY <1>4, <2>1, <2>2 DEF RenderAlone, FR!Next, FR!RenderFragment
<1> QED
  BY <1>1, <1>2, <1>3, <1>4 DEF Caller

\* Between a module's prepare_frame() and its finish_frame() every fragment is
\* rendered, and rendered once: by the caller alone, by threads that take
\* turns, or by threads that wait for their own.
THEOREM RendersEachOnceCorrect == Spec => RendersEachOnce
<1>1. Init => FR!Init
  BY DEF Init, FR!Init, FR!Fragment, Fragment
<1>2. IInv /\ RInv /\ [Next]_vars => [FR!Next]_FR!vars
  <2>1. ASSUME UNCHANGED vars PROVE UNCHANGED FR!vars
    BY <2>1 DEF vars, callerVars, FR!vars
  <2> QED
    BY <2>1, ThreadImplements, CallerImplements DEF Next
<1> QED
  BY <1>1, <1>2, RendersInvariance, PTL DEF Spec, RendersEachOnce, FR!Spec
=============================================================================
