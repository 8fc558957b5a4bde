-------------------------------- MODULE TilFb --------------------------------
(***************************************************************************)
(* The page queue of til_fb.c, with the two threads main.c runs over it:   *)
(* the main thread, which flips ready pages onto the screen, and           *)
(* rototiller_thread, which takes inactive pages, renders a frame into     *)
(* each and submits it.                                                    *)
(*                                                                         *)
(* A critical section that never sleeps is one action.  _til_fb_page_get() *)
(* is three (test, sleep, retest), because til_fb_halt() changes what it   *)
(* tests without taking the mutex it holds.                                *)
(***************************************************************************)
EXTENDS Integers, Sequences, FiniteSets, SequencesExt

CONSTANTS
  Page,          \* every address a page can have
  NoPage,        \* the NULL page
  NPages,        \* n_pages given to til_fb_new(), NUM_FB_PAGES in main.c
  NFrames,       \* frames are numbered modulo NFrames
  FlipMayFail,   \* may the backend's page_flip() return an error?
  Resizes,       \* does a client call til_fb_rebuild()?
  Snapshotting,  \* do the modules snapshot whole pages?
  Spurious       \* does pthread_cond_wait() return without a signal?

ASSUME PageAssumption == NoPage \notin Page
ASSUME NPagesAssumption == NPages \in Nat /\ NPages > 1
ASSUME NFramesAssumption == NFrames \in Nat /\ NFrames > 0

VARIABLES
  ready,         \* fb->ready_pages, head first
  inactive,      \* fb->inactive_pages, head first
  active,        \* fb->active_page
  all,           \* fb->all_pages
  rebuildPages,  \* fb->rebuild_pages
  halted,        \* fb->halted
  ended,         \* stream->ended
  mainPc,        \* where the main thread is
  next,          \* its next_active_page
  rendPc,        \* where rototiller_thread is
  page,          \* the page behind rt->fragment, while the renderer owns it
  frame,         \* number of the frame the renderer is at
  snapshots,     \* whole-page snapshots the modules hold
  content,       \* the frame drawn in each page
  visible,       \* what the backend scans out
  unpresented,   \* pages with submitted_ticks later than presented_ticks
  stale,         \* pages allocated before the latest til_fb_rebuild()
  lost           \* pages a failed page_flip() left in no list

fbVars == <<ready, inactive, active, all, rebuildPages, halted>>
mainVars == <<mainPc, next>>
rendVars == <<rendPc, page, frame, snapshots, content>>
ghostVars == <<unpresented, stale, lost>>
vars == <<fbVars, mainVars, rendVars, ghostVars, ended, visible>>

Frame == 0 .. NFrames - 1

\* The renderer owns its page from til_fb_page_get() to til_fb_fragment_submit().
Held == IF rendPc \in {"render", "drawn"} THEN {page} ELSE {}

\* The pages the main thread has to itself.  fb->active_page is assigned after
\* the page it replaces was put on the inactive list, hence "activate".
Flipping ==
  CASE mainPc \in {"flip", "retire"} -> {active, next}
    [] mainPc = "activate" -> {next}
    [] mainPc = "done" -> {}
    [] OTHER -> {active}

-----------------------------------------------------------------------------
\* til_fb_new() left one page acquired and the others inactive, then main()
\* created the renderer and entered its flip loop.
Init ==
  /\ \E s \in [1 .. NPages - 1 -> Page], p \in Page :
       /\ IsInjective(s)
       /\ p \notin ToSet(s)
       /\ inactive = s
       /\ active = p
       /\ all = ToSet(s) \union {p}
  /\ ready = <<>>
  /\ rebuildPages = 0
  /\ halted = FALSE
  /\ ended = FALSE
  /\ mainPc = "check"
  /\ next = NoPage
  /\ rendPc = "check"
  /\ page = NoPage
  /\ frame = 0
  /\ snapshots = {}
  /\ content = [p \in Page |-> NFrames - 1]
  /\ visible = active
  /\ unpresented = {}
  /\ stale = {}
  /\ lost = {}

-----------------------------------------------------------------------------
(* What the two threads do to each other, and to a list, under a mutex.  The  *)
(* definitions named Bug... are plausible mistakes in the one they precede:   *)
(* each breaks a property below.                                              *)

\* pthread_cond_signal(&fb->inactive_cond) and (&fb->ready_cond).
RendSignalled == IF rendPc = "wait" THEN "take" ELSE rendPc

BugMainNotSignalled == mainPc
MainSignalled == IF mainPc = "wait" THEN "take" ELSE mainPc

\* The page replaced on the screen becomes the head of the inactive pages.
BugRetiredNext == Cons(next, inactive)
Retired == Cons(active, inactive)

\* As many inactive pages as need it are rebuilt, from the head.
BugRebuiltNext(s) == {s[i] : i \in {j \in DOMAIN s : j <= rebuildPages}} \union {next}
Rebuilt(s) == {s[i] : i \in {j \in DOMAIN s : j <= rebuildPages}}

RebuildsLeft(s) == IF rebuildPages > Len(s) THEN rebuildPages - Len(s) ELSE 0

\* page_flip() done, presented_ticks is set to no earlier than submitted_ticks.
BugPresented == unpresented
Presented == unpresented \ {next}

NoneInactive == inactive = <<>>

\* A submitted page becomes the tail of the ready pages.
Queued(p) == Append(ready, p)

\* _til_fb_page_free() unlinks the page from fb->all_pages.
BugFreed(pages) == all
Freed(pages) == all \ pages

-----------------------------------------------------------------------------
(* The main thread: main()'s flip loop and til_fb_flip(). *)

MainCheck ==
  /\ mainPc = "check"
  /\ mainPc' = IF ended THEN "halt" ELSE "take"
  /\ UNCHANGED <<fbVars, next, rendVars, ghostVars, ended, visible>>

\* Under ready_mutex: sleep until there is a ready page...
FlipWait ==
  /\ mainPc = "take"
  /\ ready = <<>>
  /\ mainPc' = "wait"
  /\ UNCHANGED <<fbVars, next, rendVars, ghostVars, ended, visible>>

\* ...and pop the head.
FlipTake ==
  /\ mainPc = "take"
  /\ ready # <<>>
  /\ next' = Head(ready)
  /\ ready' = Tail(ready)
  /\ mainPc' = "flip"
  /\ UNCHANGED <<inactive, active, all, rebuildPages, halted, rendVars,
                 ghostVars, ended, visible>>

\* ops->page_flip() blocks till the new page is scanned out.
PageFlip ==
  /\ mainPc = "flip"
  /\ visible' = next
  /\ unpresented' = Presented
  /\ mainPc' = "retire"
  /\ UNCHANGED <<fbVars, next, rendVars, stale, lost, ended>>

\* On failure til_fb_flip() returns at once, and main() leaves its loop.
PageFlipFails ==
  /\ FlipMayFail
  /\ mainPc = "flip"
  /\ lost' = lost \union {next}
  /\ next' = NoPage
  /\ mainPc' = "halt"
  /\ UNCHANGED <<fbVars, rendVars, unpresented, stale, ended, visible>>

\* Under inactive_mutex: the replaced page is made inactive, inactive pages are
\* rebuilt, and the renderer is signalled.
FlipRetire ==
  /\ mainPc = "retire"
  /\ rendPc # "block"
  /\ inactive' = Retired
  /\ stale' = stale \ Rebuilt(Retired)
  /\ rebuildPages' = RebuildsLeft(Retired)
  /\ rendPc' = RendSignalled
  /\ mainPc' = "activate"
  /\ UNCHANGED <<ready, active, all, halted, next, page, frame, snapshots,
                 content, unpresented, lost, ended, visible>>

FlipActivate ==
  /\ mainPc = "activate"
  /\ active' = next
  /\ next' = NoPage
  /\ mainPc' = "check"
  /\ UNCHANGED <<ready, inactive, all, rebuildPages, halted, rendVars,
                 ghostVars, ended, visible>>

\* til_fb_halt() takes no mutex: its signal wakes a renderer that sleeps, and
\* is lost on one that tested halted and is about to.
Halt ==
  /\ mainPc = "halt"
  /\ halted' = TRUE
  /\ rendPc' = RendSignalled
  /\ mainPc' = "join"
  /\ UNCHANGED <<ready, inactive, active, all, rebuildPages, next, page,
                 frame, snapshots, content, ghostVars, ended, visible>>

\* pthread_join(), then til_module_context_free() and til_stream_free() have
\* the modules reclaim the snapshots they still hold.
Join ==
  /\ mainPc = "join"
  /\ rendPc = "end"
  /\ all' = Freed(snapshots)
  /\ stale' = stale \ snapshots
  /\ snapshots' = {}
  /\ mainPc' = "free"
  /\ UNCHANGED <<ready, inactive, active, rebuildPages, halted, next, rendPc,
                 page, frame, content, unpresented, lost, ended, visible>>

\* til_fb_free() releases the active page and frees every page there is.
FbFree ==
  /\ mainPc = "free"
  /\ all' = {}
  /\ ready' = <<>>
  /\ inactive' = <<>>
  /\ active' = NoPage
  /\ visible' = NoPage
  /\ unpresented' = {}
  /\ stale' = {}
  /\ lost' = {}
  /\ mainPc' = "done"
  /\ UNCHANGED <<rebuildPages, halted, next, rendVars, ended>>

Main ==
  \/ MainCheck \/ FlipWait \/ FlipTake \/ PageFlip \/ PageFlipFails
  \/ FlipRetire \/ FlipActivate \/ Halt \/ Join \/ FbFree

-----------------------------------------------------------------------------
(* The renderer: rototiller_thread() and what it calls. *)

RendCheck ==
  /\ rendPc = "check"
  /\ rendPc' = IF ended THEN "end" ELSE "take"
  /\ UNCHANGED <<fbVars, mainVars, page, frame, snapshots, content, ghostVars,
                 ended, visible>>

\* _til_fb_page_get() pops the tail of the inactive pages.
GetPage ==
  /\ rendPc = "take"
  /\ inactive # <<>>
  /\ page' = Last(inactive)
  /\ inactive' = Front(inactive)
  /\ rendPc' = "render"
  /\ UNCHANGED <<ready, active, all, rebuildPages, halted, mainVars, frame,
                 snapshots, content, ghostVars, ended, visible>>

\* None left and halted: NULL, so the renderer ends the stream.
BugGetNothing ==
  /\ rendPc = "take"
  /\ NoneInactive
  /\ halted
  /\ rendPc' = "check"
  /\ UNCHANGED <<fbVars, mainVars, page, frame, snapshots, content, ghostVars,
                 ended, visible>>

GetNothing ==
  /\ rendPc = "take"
  /\ NoneInactive
  /\ halted
  /\ ended' = TRUE
  /\ rendPc' = "check"
  /\ UNCHANGED <<fbVars, mainVars, page, frame, snapshots, content, ghostVars,
                 visible>>

\* None left: the loop's test is over, with inactive_mutex still held...
GetTest ==
  /\ rendPc = "take"
  /\ NoneInactive
  /\ ~halted
  /\ rendPc' = "block"
  /\ UNCHANGED <<fbVars, mainVars, page, frame, snapshots, content, ghostVars,
                 ended, visible>>

\* ...and pthread_cond_wait() releases it and sleeps.
GetWait ==
  /\ rendPc = "block"
  /\ rendPc' = "wait"
  /\ UNCHANGED <<fbVars, mainVars, page, frame, snapshots, content, ghostVars,
                 ended, visible>>

\* til_stream_render(): the frame is drawn, and a module may end the stream.
Draw ==
  /\ rendPc = "render"
  /\ content' = [content EXCEPT ![page] = frame]
  /\ ended' \in {ended, TRUE}
  /\ rendPc' = "drawn"
  /\ UNCHANGED <<fbVars, mainVars, page, frame, snapshots, ghostVars, visible>>

\* _til_fb_page_snapshot(): the page becomes the snapshot, and the renderer
\* goes on with a new one.  Before the frame is drawn modules do not preserve
\* the original (pan, drizzle), after it they do (droste).
Snapshot ==
  /\ Snapshotting
  /\ rendPc \in {"render", "drawn"}
  /\ \E new \in Page \ all :
       /\ all' = all \union {new}
       /\ page' = new
       /\ content' = IF rendPc = "drawn"
                       THEN [content EXCEPT ![new] = content[page]]
                       ELSE content
       /\ unpresented' = unpresented \ {new}
       /\ stale' = stale \ {new}
  /\ snapshots' = snapshots \union {page}
  /\ UNCHANGED <<ready, inactive, active, rebuildPages, halted, mainVars,
                 rendPc, frame, lost, ended, visible>>

\* _til_fb_page_reclaim(): a module is done with its snapshot.
Reclaim ==
  /\ rendPc \in {"render", "drawn"}
  /\ \E p \in snapshots :
       /\ snapshots' = snapshots \ {p}
       /\ all' = Freed({p})
       /\ stale' = stale \ {p}
  /\ UNCHANGED <<ready, inactive, active, rebuildPages, halted, mainVars,
                 rendPc, page, frame, content, unpresented, lost, ended, visible>>

\* _til_fb_page_submit(): under ready_mutex the page becomes the tail of the
\* ready pages, and the main thread is signalled.
Submit ==
  /\ rendPc = "drawn"
  /\ ready' = Queued(page)
  /\ unpresented' = unpresented \union {page}
  /\ page' = NoPage
  /\ frame' = (frame + 1) % NFrames
  /\ rendPc' = "check"
  /\ mainPc' = MainSignalled
  /\ UNCHANGED <<inactive, active, all, rebuildPages, halted, next, snapshots,
                 content, stale, lost, ended, visible>>

Renderer ==
  \/ RendCheck \/ GetPage \/ GetNothing \/ GetTest \/ GetWait
  \/ Draw \/ Snapshot \/ Reclaim \/ Submit

-----------------------------------------------------------------------------
(* What neither thread does. *)

\* til_fb_rebuild(), from whoever learns of a window resize.
FbRebuild ==
  /\ Resizes
  /\ mainPc \notin {"free", "done"}
  /\ rebuildPages' = NPages
  /\ stale' = all
  /\ UNCHANGED <<ready, inactive, active, all, halted, mainVars, rendVars,
                 unpresented, lost, ended, visible>>

\* POSIX lets a condition wait return with no signal.
SpuriousWakeup ==
  /\ Spurious
  /\ \/ mainPc = "wait" /\ mainPc' = "take" /\ UNCHANGED rendPc
     \/ rendPc = "wait" /\ rendPc' = "take" /\ UNCHANGED mainPc
  /\ UNCHANGED <<fbVars, next, page, frame, snapshots, content, ghostVars,
                 ended, visible>>

\* main() returned.
Exited == mainPc = "done" /\ UNCHANGED vars

Next == Main \/ Renderer \/ FbRebuild \/ SpuriousWakeup \/ Exited

\* The kernel runs both threads, the backend completes its page flips, and a
\* module snapshots a frame only so often before it is submitted.  Nothing
\* obliges a wakeup with no signal, a resize or an end of the stream.
Fairness ==
  /\ WF_vars(Main)
  /\ WF_vars(RendCheck \/ GetPage \/ GetNothing \/ GetTest \/ GetWait \/ Draw
             \/ Submit)

Spec == Init /\ [][Next]_vars
FairSpec == Spec /\ Fairness

-----------------------------------------------------------------------------
(* Properties *)

TypeOK ==
  /\ ready \in Seq(Page)
  /\ inactive \in Seq(Page)
  /\ active \in Page \union {NoPage}
  /\ all \subseteq Page
  /\ rebuildPages \in 0 .. NPages
  /\ halted \in BOOLEAN
  /\ ended \in BOOLEAN
  /\ mainPc \in {"check", "take", "wait", "flip", "retire", "activate", "halt",
                 "join", "free", "done"}
  /\ next \in Page \union {NoPage}
  /\ rendPc \in {"check", "take", "block", "wait", "render", "drawn", "end"}
  /\ page \in Page \union {NoPage}
  /\ frame \in Frame
  /\ snapshots \subseteq Page
  /\ content \in [Page -> Frame]
  /\ visible \in Page \union {NoPage}
  /\ unpresented \subseteq Page
  /\ stale \subseteq Page
  /\ lost \subseteq Page

\* A page is in one place at a time: once in one of the two lists, with the
\* main thread, with the renderer, stowed as a snapshot, or lost to a failed
\* flip.  The two threads move pages with plain pointer assignments, so a page
\* in two places would be drawn on while it is queued or shown.
OneOwner ==
  /\ IsInjective(ready)
  /\ IsInjective(inactive)
  /\ LET Place == <<ToSet(ready), ToSet(inactive), Flipping, Held, snapshots,
                    lost>>
     IN \A i, j \in DOMAIN Place : i # j => Place[i] \intersect Place[j] = {}

\* No page leaks: each page of fb->all_pages is in one of those places, and
\* nothing else is.
NoLeak ==
  all = ToSet(ready) \union ToSet(inactive) \union Flipping \union Held
          \union snapshots \union lost

\* The renderer never draws on the page the backend scans out, nor on the one
\* a page_flip() in progress is about to.
NoTearing == Held \intersect {visible, next} = {}

\* The assertion of til_fb_page_get(): a page the renderer can be given was
\* presented since it was last submitted.
DelayDefined == ToSet(inactive) \intersect unpresented = {}

\* The assertion of til_fb_free(): as many pages are freed as til_fb_new()
\* made, whatever was snapshotted, reclaimed or lost to a failed flip.
FreesAllPages == mainPc = "free" => Cardinality(all) = NPages

\* A page is rebuilt only while it is idle: its memory is never replaced
\* under the renderer, under a queued frame, or under the scanout.
RebuildsOnlyIdle ==
  [][\A p \in (stale \ stale') \intersect all' :
       p \notin Held \union {visible, next} \union ToSet(ready)
                  \union snapshots]_vars

\* The comment of til_fb_rebuild(): the fb reconstructs its pages as they
\* become inactive.  Once none is left to rebuild, none is of the old size.
RebuildsAllPages == rebuildPages = 0 => stale \ snapshots = {}

\* The frames in the pages: those of the ready pages are queued, after that of
\* the page the main thread is flipping to.
FlippedTo == IF mainPc = "flip" THEN <<content[next]>> ELSE <<>>
Queue == FlippedTo \o [i \in DOMAIN ready |-> content[ready[i]]]
Shown == IF visible = NoPage THEN NFrames ELSE content[visible]
Open == mainPc \notin {"halt", "join", "free", "done"}

FQ == INSTANCE FrameQueue WITH
  NoFrame <- NFrames,
  Capacity <- NPages - 1,
  queue <- Queue,
  shown <- Shown,
  open <- Open

\* The screen shows the frames in the order they were rendered, each once, and
\* what it shows never changes but by a flip: every step of the two threads is
\* one of the frame queue, or none.
ShowsInOrder == FQ!Spec

\* While main() flips, no frame is skipped, repeated or reordered between the
\* renderer and the screen.
FramesConsecutive == FQ!Consecutive

\* A submitted frame reaches the screen, unless the main thread stops flipping.
ShowsEventually == FQ!FairSpec

\* When a module ends the stream the program exits: the last page is always
\* submitted, so the main thread is never left asleep in til_fb_flip().  After a
\* failed flip the join is HaltExits's concern.
EndExits == ended ~> mainPc = "done" \/ lost # {}

\* The comment of _til_fb_page_get(): it waits if necessary, which once halted
\* it is not, as the loop's condition has it.
HaltWakes == halted ~> rendPc \notin {"block", "wait"}

\* til_fb_halt() lets the join complete, except when the renderer was between
\* its test of halted and its sleep, where the signal is lost on it.
HaltExits ==
  mainPc = "join" /\ rendPc \notin {"block", "wait"} ~> mainPc = "done"
=============================================================================
