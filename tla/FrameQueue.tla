------------------------------ MODULE FrameQueue ------------------------------
(***************************************************************************)
(* What til_fb promises its two users, with the pages left out: a bounded  *)
(* FIFO of frames between the renderer, which til_fb_fragment_submit()s    *)
(* them, and the screen, which til_fb_flip() shows them on.                *)
(***************************************************************************)
EXTENDS Integers, Sequences

CONSTANTS
  NFrames,   \* frames are numbered modulo NFrames
  NoFrame,   \* what a released screen shows
  Capacity   \* frames that can be submitted and not yet shown

VARIABLES
  queue,     \* frames submitted and not yet shown
  shown,     \* the frame on the screen
  frame,     \* the frame to submit next
  open       \* does main() still flip?

vars == <<queue, shown, frame, open>>

Init ==
  /\ queue = <<>>
  /\ shown = NFrames - 1
  /\ frame = 0
  /\ open = TRUE

Submit ==
  /\ Len(queue) < Capacity
  /\ queue' = Append(queue, frame)
  /\ frame' = (frame + 1) % NFrames
  /\ UNCHANGED <<shown, open>>

Show ==
  /\ open
  /\ queue # <<>>
  /\ shown' = Head(queue)
  /\ queue' = Tail(queue)
  /\ UNCHANGED <<frame, open>>

\* main() stops flipping: the stream ended, or the flip of the head failed.
Close ==
  /\ open
  /\ open' = FALSE
  /\ \/ UNCHANGED queue
     \/ queue # <<>> /\ queue' = Tail(queue)
  /\ UNCHANGED <<shown, frame>>

\* The screen is released and what was not shown is discarded.
Free ==
  /\ ~open
  /\ queue' = <<>>
  /\ shown' = NoFrame
  /\ UNCHANGED <<frame, open>>

Next == Submit \/ Show \/ Close \/ Free

Spec == Init /\ [][Next]_vars
FairSpec == Spec /\ WF_vars(Show)

TypeOK ==
  /\ queue \in Seq(0 .. NFrames - 1)
  /\ Len(queue) <= Capacity
  /\ shown \in (0 .. NFrames - 1) \union {NoFrame}
  /\ frame \in 0 .. NFrames - 1
  /\ open \in BOOLEAN

\* While main() flips, the frame shown, the frames queued and the frame the
\* renderer is at are consecutive: none is skipped, repeated or reordered.
Consecutive ==
  open =>
    LET line == <<shown>> \o queue \o <<frame>>
    IN \A i \in 1 .. Len(line) - 1 : line[i + 1] = (line[i] + 1) % NFrames
=============================================================================
