------------------------------ MODULE TilThreads ------------------------------
(***************************************************************************)
(* The render threads of til_threads.c and their one user, the thread in   *)
(* module_render_fragment() of til.c.  It has the module prepare a frame,  *)
(* publishes the frame's plan to the threads (or, on one cpu, renders the  *)
(* fragments itself), waits till all threads are idle and has the module   *)
(* finish the frame.                                                       *)
(*                                                                         *)
(* The threads read the plan and claim fragments with no lock held: what   *)
(* keeps a frame's fragments apart from the next frame's is the count of   *)
(* idle threads alone.                                                     *)
(***************************************************************************)
EXTENDS Integers, FiniteSets

CONSTANTS
  NThreads,      \* threads->n_threads, one per cpu
  MaxFragments,  \* bound on the fragments a fragmenter produces
  NFrameNums     \* frame_num counts modulo NFrameNums, 2^32 in the code

ASSUME NThreadsAssumption == NThreads \in Nat \ {0}
ASSUME MaxFragmentsAssumption == MaxFragments \in Nat
ASSUME NFrameNumsAssumption == NFrameNums \in Nat /\ NFrameNums > 1

VARIABLES
  nIdle,         \* threads->n_idle
  plan,          \* threads->frame_plan and what is published with it
  nextFragment,  \* threads->next_fragment
  frameNum,      \* threads->frame_num
  pc,            \* where each thread is
  prevFrameNum,  \* its prev_frame_num
  mode,          \* the branch of thread_func() it is in, by cpu or by turn
  fragNum,       \* its frag_num
  callerPc,      \* where module_render_fragment() is
  job,           \* the plan the caller's module prepared
  fragnum,       \* the caller's fragnum, when it renders by itself
  renders        \* how often each fragment of the frame was rendered

threadVars == <<pc, prevFrameNum, mode, fragNum>>
callerVars == <<callerPc, job, fragnum>>
sharedVars == <<nIdle, plan, nextFragment, frameNum>>
vars == <<sharedVars, threadVars, callerVars, renders>>

Thread == 0 .. NThreads - 1
Fragment == 0 .. MaxFragments - 1
FrameNum == 0 .. NFrameNums - 1

\* What a module's prepare_frame() returns, with the n_cpus its context has
\* and the number of fragments its fragmenter produces.
Plan == [affinity : BOOLEAN, fragments : 0 .. MaxFragments, cpus : 1 .. NThreads]

Fragmenter(p, number) == number < p.fragments

\* The definitions named Bug... are plausible mistakes in the one they precede:
\* each breaks a property below.

\* What til_threads_wait_idle() waits for.
BugAllIdle == nIdle >= NThreads - 1
AllIdle == nIdle >= NThreads

\* The fragment a thread with affinity renders after its fragment f.
NextOwn(f) == f + NThreads

\* The last thread to finish a frame signals idle_cond.
CallerSignalled ==
  CASE callerPc = "submit_sleep" -> "submit"
    [] callerPc = "wait_sleep"   -> "wait"
    [] OTHER                     -> callerPc

BugLastSignals == IF nIdle = NThreads THEN CallerSignalled ELSE callerPc
LastSignals == IF nIdle + 1 = NThreads THEN CallerSignalled ELSE callerPc

-----------------------------------------------------------------------------
\* til_threads_create(): all threads count as idle, started or not.
Init ==
  /\ nIdle = NThreads
  /\ plan = [affinity |-> FALSE, fragments |-> 0, cpus |-> 1]
  /\ nextFragment = 0
  /\ frameNum = 0
  /\ pc = [t \in Thread |-> "test"]
  /\ prevFrameNum = [t \in Thread |-> 0]
  /\ mode = [t \in Thread |-> "turn"]
  /\ fragNum = [t \in Thread |-> 0]
  /\ callerPc = "prepare"
  /\ job = plan
  /\ fragnum = 0
  /\ renders = [f \in Fragment |-> 0]

-----------------------------------------------------------------------------
(* thread_func() *)

\* Under frame_mutex: sleep while the frame is the one already rendered...
Sleep(t) ==
  /\ pc[t] = "test"
  /\ frameNum = prevFrameNum[t]
  /\ pc' = [pc EXCEPT ![t] = "sleep"]
  /\ UNCHANGED <<sharedVars, prevFrameNum, mode, fragNum, callerVars, renders>>

\* ...and note the number of a new one.
Wake(t) ==
  /\ pc[t] = "test"
  /\ frameNum # prevFrameNum[t]
  /\ prevFrameNum' = [prevFrameNum EXCEPT ![t] = frameNum]
  /\ pc' = [pc EXCEPT ![t] = "begin"]
  /\ UNCHANGED <<sharedVars, mode, fragNum, callerVars, renders>>

\* From here on no lock is held.
Begin(t) ==
  /\ pc[t] = "begin"
  /\ mode' = [mode EXCEPT ![t] = IF plan.affinity THEN "cpu" ELSE "turn"]
  /\ fragNum' = [fragNum EXCEPT ![t] = IF plan.affinity THEN t ELSE @]
  /\ pc' = [pc EXCEPT ![t] = "claim"]
  /\ UNCHANGED <<sharedVars, prevFrameNum, callerVars, renders>>

\* With cpu affinity, spin till next_fragment is the thread's own...
ClaimOwn(t) ==
  /\ pc[t] = "claim"
  /\ mode[t] = "cpu"
  /\ nextFragment = fragNum[t]
  /\ nextFragment' = fragNum[t] + 1
  /\ pc' = [pc EXCEPT ![t] = "fragment"]
  /\ UNCHANGED <<nIdle, plan, frameNum, prevFrameNum, mode, fragNum,
                 callerVars, renders>>

\* ...and without, take whatever fragment is next.
ClaimNext(t) ==
  /\ pc[t] = "claim"
  /\ mode[t] = "turn"
  /\ fragNum' = [fragNum EXCEPT ![t] = nextFragment]
  /\ nextFragment' = nextFragment + 1
  /\ pc' = [pc EXCEPT ![t] = "fragment"]
  /\ UNCHANGED <<nIdle, plan, frameNum, prevFrameNum, mode, callerVars, renders>>

\* The fragmenter has the last word on whether there is such a fragment.
Fragmented(t) ==
  /\ pc[t] = "fragment"
  /\ pc' = [pc EXCEPT ![t] = IF Fragmenter(plan, fragNum[t]) THEN "render"
                                                             ELSE "report"]
  /\ UNCHANGED <<sharedVars, prevFrameNum, mode, fragNum, callerVars, renders>>

\* The next fragment of a thread with affinity is n_threads further on.
Render(t) ==
  /\ pc[t] = "render"
  /\ renders' = [renders EXCEPT ![fragNum[t]] = @ + 1]
  /\ fragNum' = [fragNum EXCEPT ![t] = IF mode[t] = "cpu" THEN NextOwn(@) ELSE @]
  /\ pc' = [pc EXCEPT ![t] = "claim"]
  /\ UNCHANGED <<sharedVars, prevFrameNum, mode, callerVars>>

\* Under idle_mutex: the last thread to finish signals the caller.
Report(t) ==
  /\ pc[t] = "report"
  /\ nIdle' = nIdle + 1
  /\ callerPc' = LastSignals
  /\ pc' = [pc EXCEPT ![t] = "test"]
  /\ UNCHANGED <<plan, nextFragment, frameNum, prevFrameNum, mode, fragNum,
                 job, fragnum, renders>>

ThreadFunc(t) ==
  \/ Sleep(t) \/ Wake(t) \/ Begin(t) \/ ClaimOwn(t) \/ ClaimNext(t)
  \/ Fragmented(t) \/ Render(t) \/ Report(t)

-----------------------------------------------------------------------------
(* module_render_fragment() *)

\* The module's prepare_frame(), and the way its frame is then rendered.
Prepare ==
  /\ callerPc = "prepare"
  /\ \E p \in Plan :
       /\ job' = p
       /\ callerPc' = IF p.cpus > 1 THEN "submit" ELSE "alone"
  /\ fragnum' = 0
  /\ renders' = [f \in Fragment |-> 0]
  /\ UNCHANGED <<sharedVars, threadVars>>

\* til_threads_wait_idle() sleeps on idle_cond: on entry to
\* til_threads_frame_submit(), and again after it.
WaitIdle ==
  /\ callerPc \in {"submit", "wait"}
  /\ ~AllIdle
  /\ callerPc' = IF callerPc = "submit" THEN "submit_sleep" ELSE "wait_sleep"
  /\ UNCHANGED <<sharedVars, threadVars, job, fragnum, renders>>

\* All are idle: the lock the count was read under is released...
SubmitIdle ==
  /\ callerPc = "submit"
  /\ AllIdle
  /\ callerPc' = "publish"
  /\ UNCHANGED <<sharedVars, threadVars, job, fragnum, renders>>

\* ...and the rest of til_threads_frame_submit() runs under frame_mutex, where
\* n_idle is reset without the mutex its other readers and writers take.


FrameSubmit ==
  /\ callerPc = "publish"
  /\ plan' = job
  /\ frameNum' = (frameNum + 1) % NFrameNums
  /\ nIdle' = 0
  /\ nextFragment' = 0
  /\ pc' = [t \in Thread |-> IF pc[t] = "sleep" THEN "test" ELSE pc[t]]
  /\ callerPc' = "wait"
  /\ UNCHANGED <<prevFrameNum, mode, fragNum, job, fragnum, renders>>

\* The wait for the frame is over, and finish_frame() either ends it or has it
\* rendered again: both lead back to prepare_frame().
FinishFrame ==
  /\ \/ callerPc = "wait" /\ AllIdle
     \/ callerPc = "alone" /\ ~Fragmenter(job, fragnum)
  /\ callerPc' = "prepare"
  /\ UNCHANGED <<sharedVars, threadVars, job, fragnum, renders>>

\* On one cpu the caller renders the fragments in turn.
RenderAlone ==
  /\ callerPc = "alone"
  /\ Fragmenter(job, fragnum)
  /\ renders' = [renders EXCEPT ![fragnum] = @ + 1]
  /\ fragnum' = fragnum + 1
  /\ UNCHANGED <<sharedVars, threadVars, callerPc, job>>

Caller ==
  \/ Prepare \/ WaitIdle \/ SubmitIdle \/ FrameSubmit \/ FinishFrame
  \/ RenderAlone

Next == Caller \/ \E t \in Thread : ThreadFunc(t)

\* The kernel runs every thread, and no module's function takes forever.
Fairness == WF_vars(Caller) /\ \A t \in Thread : WF_vars(ThreadFunc(t))

Spec == Init /\ [][Next]_vars
FairSpec == Spec /\ Fairness

-----------------------------------------------------------------------------
(* Properties *)

TypeOK ==
  /\ nIdle \in 0 .. NThreads
  /\ plan \in Plan
  /\ nextFragment \in Nat
  /\ frameNum \in FrameNum
  /\ pc \in [Thread -> {"test", "sleep", "begin", "claim", "fragment", "render",
                        "report"}]
  /\ prevFrameNum \in [Thread -> FrameNum]
  /\ mode \in [Thread -> {"cpu", "turn"}]
  /\ fragNum \in [Thread -> Nat]
  /\ callerPc \in {"prepare", "submit", "submit_sleep", "publish", "wait",
                   "wait_sleep", "alone"}
  /\ job \in Plan
  /\ fragnum \in 0 .. MaxFragments
  /\ renders \in [Fragment -> Nat]

\* Threads that are through with the frame frameNum, or had none yet.
Done == {t \in Thread :
           pc[t] \in {"test", "sleep"} /\ prevFrameNum[t] = frameNum}

\* n_idle counts the threads that are done, though frame_submit() resets it
\* under another mutex than theirs.
IdleCount == nIdle = Cardinality(Done)

\* A frame is published only when every thread is through with the one before:
\* none reads the new plan for a fragment it claimed of the old one, and none
\* sleeps through a whole frame and is mistaken for one that rendered it.
NoLateThread == [][frameNum' # frameNum => Done = Thread]_vars

\* While the caller renders a frame by itself, as cpu 0, no thread is still
\* rendering: the state a module keeps per cpu has one user at a time.
AloneIsAlone == callerPc = "alone" => Done = Thread

FR == INSTANCE FrameRender WITH
  phase <- IF callerPc = "prepare" THEN "prepare" ELSE "render",
  fragments <- job.fragments

\* Each fragment of a frame is rendered exactly once between the module's
\* prepare_frame() and its finish_frame(), whichever way it is rendered.
RendersEachOnce == FR!Spec

\* ...and every frame is finished.
FinishesFrames == FR!FairSpec

\* HACKING.txt on n_cpus: the cpu given to render_fragment() is always less.
CpuInRange == \A t \in Thread : pc[t] = "render" => t < plan.cpus
=============================================================================
