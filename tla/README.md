# A verification of rototiller

rototiller renders a tree of *modules* into the pages of a framebuffer, frame
after frame. This directory holds TLA+ models of the parts of it in which several
things happen at once or in an order nobody fixed - the page queue between the
rendering and the flipping thread, the render threads, the pipes through which
module contexts share variables, the life of module contexts, rkt's scene editor,
the audio - and of those whose data structures or tables are easily wrong: settings and
the modules' setup functions, the cutting of frames, submit's game, sparkler's particles.
TLC checks each on small instances, and TLAPS proves the safety properties of most of them,
and two refinements, for every value of the constants.

Paths below are relative to the repository's `src/` directory. `PROJECT.json` maps
every definition to the lines it stands for.

- [The system](#the-system)
- [The modules](#the-modules)
- [The runs](#the-runs)
- [What the runs found](#what-the-runs-found)
- [The proofs](#the-proofs)
- [What is not modelled](#what-is-not-modelled)
- [Plan](#plan)

## The system

`main.c` parses the arguments, negotiates settings, creates the stream, the root
module's context and the framebuffer, and starts two activities: its own loop of
`til_fb_flip()`, and `rototiller_thread()`, which gets a page, renders the root
context into it and submits it. A module renders by itself, on the render threads
or by rendering contexts of other modules.

| part | state it keeps | operations | used by |
|---|---|---|---|
| page queue (`til_fb.c`) | ready and inactive lists, active page, all pages, `rebuild_pages`, `halted`; two mutexes and condition variables | get, submit, flip, snapshot, reclaim, rebuild, halt, free | both threads; modules (snapshots); backends |
| threads of the program (`main.c`) | where each thread is, `stream->ended` | start, flip loop, halt, join, free | - |
| render threads (`til_threads.c`) | `n_idle`, `frame_num`, `next_fragment`, the frame's plan; two mutexes | submit a frame, wait till idle, `thread_func()`, destroy | `module_render_fragment()` (`til.c`) |
| stream pipes and taps (`til_stream.c`, `til_tap.h`) | the table of pipes, each with owner, driving tap and frame; one mutex | tap, untap an owner, set the hooks, count frames | contexts, concurrently; rkt |
| rkt's driving of pipes (`rkt.c`) | per pipe: its own tap, whether the track has keys | the hooks `pipe_ctor()` and `pipe_dtor()`, the update of the pipes at each frame | stream |
| module contexts (`til_module_context.c`, `til.c`, `til_stream.c`, `til_builtins.c`) | reference counts, the stream's table from paths to contexts, the list of "pre" contexts | create, register, displace, find, reference, unreference, destroy, collect | main, every module that nests others, rtv |
| settings and setups (`til_settings.c`, `til_setup.c`, `setup.c`, `til.c`, `main.c`) | a tree of key/value settings, parsed and edited; the setting asked for, the one a failure is blamed on | parse, get or describe the next missing, answer, randomize, finalize, print as arguments | main, each module's `setup()`, rtv, the scener |
| modules' setup functions (each module's own, the backends') | none: tables of specifications and conditions | ask for the next setting, accept or refuse the values | settings |
| fragments (`til_fb.c`, `til.c`; checkers, montage) | none: pure functions | slice, tile, no cut, slice per cpu | render threads, modules |
| rkt's scenes and scener (`rkt.c`, `rkt_scener.c`) | the scenes' settings and contexts, a telnet session with a state per prompt | listen, send, receive, add, edit, randomize and pin scenes | rkt, once per frame |
| audio (`til_audio.c`, its context, backends, playit, rkt) | the queue of frames, the hooks, paused or not, who controls it | open, queue, count, pause, unpause, seek, set and unset hooks | playit, rkt, main |
| submit and its grid (`submit.c`, `libs/grid`) | cells, counts, each player's plans, the copy that is drawn | plan, tick, win, start over | - |
| sparkler (`particles.c`, `bsp.c`, `chunker.c` and five kinds of particles) | lists of lists of particles, an octree with a cached lookup, chunks with counts of references | spawn, age, move, die, search, allocate | - |
| video backends (`drm_fb.c`, `mem_fb.c`, `sdl_fb.c`) | their pages and spare pages | acquire, release, allocate, free, flip | page queue |
| overlay, nesting and drawing modules | snapshots, pictures | render | - |
| libraries, counters and helpers | - | pictures, sound analysis, text, hashes, strings | modules |

### How they interact

- *Calls.* `main()` -> `til_stream_render()` -> root context ->
  `til_module_render()` of nested contexts; `til_module_create_contexts()` calls
  itself through `create_context()`, and `til_module_context_free()` through
  `destroy_context()`.
- *Shared state under a mutex*: the two lists of pages, the plan of a frame, the
  table of pipes. *Shared state without one*: `fb->halted`, `stream->ended`, the
  frame's plan while it is rendered, a pipe's driving tap after
  `til_stream_tap()` unlocked, the table of contexts, which only the
  rendering thread changes.
- *Callbacks*: the backends' `page_flip()`, the stream's hooks, the modules'
  functions, the snapshot's reclaim.

### What is hard, and what makes each part correct

- *Page queue.* Two threads hand pages to each other by plain pointer assignments
  in two critical sections, and a page may also be stowed by a module as a snapshot
  for any number of frames. It is correct if a page is in one place at a time, none
  leaks, the renderer never draws on what is shown, and the screen shows the
  submitted frames once each and in order - and if the threads stop when asked to.
- *Render threads.* The threads claim fragments with no lock; only the count of
  idle threads keeps one frame apart from the next, and that is reset
  under another mutex than the one it is counted under. It is correct if each fragment of a
  frame is rendered once, between `prepare_frame()` and `finish_frame()`, and
  every frame is finished.
- *Pipes.* Clones race for who drives, drivers are destroyed, rkt takes over.
  It is correct if whatever a context uses is alive, has a driver that takes part in this
  frame, is what other contexts use, and is written by one.
- *Contexts.* Replaced at their path while others still refer to them, collected
  while a tree is between two channels, created by a recursion any allocation of which
  may fail. It is correct if no counted pointer dangles, the collection spares what is
  rendered, and nothing is left in the end.
- *Settings.* A negotiation in turns between a front-end and some 40 setup functions that
  nest each other. It is correct if it ends, if what it offers is what it accepts, if a
  failure is blamed on a setting there is, and if the flags it prints give the same
  settings again, as far as no value holds a comma or a backslash.
- *Scenes.* A session that keeps a scene's number, a prompt and half negotiated settings
  from frame to frame while it changes the scenes that are rendered, and that may lose its
  peer in any state. It is correct if nothing missing is used, settings and contexts agree,
  and it always comes back to a prompt.
- *Audio.* Three parties pause one device, and songs take over its one pair of hooks. It is
  correct if no hook names what was freed, nothing from before a seek is heard after it, and rkt's
  pause is the device's.
- *Fragments.* Correct if whatever the sizes each pixel is in one fragment, inside the page.
- *Submit.* Correct if counts are counts, a grid is given up with nothing planned on
  it, and the board that is drawn is sampled inside.
- *Sparkler.* Particles die in any order, in the middle of walks and searches. It is correct
  if chunks stay as long as what is in them, and lists and leaves hold what is alive,
  once.

`PROJECT.json` lists every hazard at its line, with the properties that watch it or the
reason why none does.

## The modules

```
TilFb ----------- implements -> FrameQueue           TilThreads -- implements -> FrameRender
  MCTilFb      (TLC)                                   MCTilThreads     (TLC)
  TilFbProofs  (invariants and                         TilThreadsProofs (invariants and
                refinement)                                              refinement)

TilStream                                            TilContexts
  MCTilStream     (TLC)                                MCTilContexts (TLC)
  TilStreamProofs (invariants)                         TilContextsProofs (invariants, GcSpares, NoLeak)

TilSettings <- ModuleSetups <- Setup                 RktScener
                 MCSetup (TLC)                         MCRktScener     (TLC)
                                                       RktScenerProofs (invariants)

Audio                                                Fragments <- Submit
  MCAudio     (TLC)                                    MCSubmit     (TLC)
  AudioProofs (invariants)                             SubmitProofs (invariants, the cutting of frames)

Chunker <- Bsp <- Sparkler
                    MCSparkler      (TLC)
                    SparklerProofs  (invariants)
```

(`A <- B`: B extends A.)

A critical section that does not sleep is one action. Whatever code reads or writes
outside of one, where another thread may interfere, is an action of its own.
Definitions named `Bug...` stand before the one they are a plausible mistake in;
nothing uses them, and with them in its place the property they are meant for
fails.

### TilFb: the page queue and the program's two threads

| state | in the code |
|---|---|
| `ready`, `inactive`, `active`, `all`, `rebuildPages`, `halted` | the members of `til_fb_t` of these names; lists are sequences from the head |
| `mainPc`, `next` | where `main()`'s loop and `til_fb_flip()` are, and `next_active_page` |
| `rendPc`, `page`, `frame`, `snapshots` | where `rototiller_thread()` and what it calls are, the page behind `rt->fragment`, the frame's number, the snapshots modules hold |
| `content`, `visible` | the frame drawn in each page, the page the backend scans out |
| `unpresented`, `stale`, `lost` | ticks compared, pages of the old size, pages no list has after a failed flip |

`til_fb_flip()` is `FlipWait`/`FlipTake` (ready mutex), `PageFlip` or
`PageFlipFails` (the backend), `FlipRetire` (inactive mutex: the replaced page, the
rebuilds, the signal) and `FlipActivate`, which comes after the replaced page was
given away. `_til_fb_page_get()` is `GetTest`, `GetWait`, `GetPage`/`GetNothing`: the test and
the sleep are apart, with the mutex held in between (`FlipRetire` waits for that),
because `til_fb_halt()` (`Halt`) changes what is tested without the mutex. `Draw`,
`Snapshot`, `Reclaim` and `Submit` are the renderer's; `Join` and `FbFree` the end of
`main()`. `FbRebuild` comes from outside at any time, `SpuriousWakeup` from POSIX.

`FrameQueue` is what is promised: a bounded FIFO of frames. The refinement maps its
queue to the frames in the page being flipped to and in the ready pages, and what it shows to the
frame in the visible page.

### TilThreads: the render threads

`pc[t]` is where each thread is in `thread_func()`: `Sleep`/`Wake` under
`frame_mutex`, then without any lock `Begin` (it reads the plan), `ClaimOwn` (the spin
on `next_fragment`, with cpu affinity) or `ClaimNext` (`fetch_add`), `Fragmented`,
`Render`, and `Report` under `idle_mutex`. `callerPc` is where
`module_render_fragment()` is: `Prepare`, then `RenderAlone` when the context has one
cpu, or `til_threads_frame_submit()` as `WaitIdle`, `SubmitIdle`, `FrameSubmit`
(the window between reading the count and resetting it is between the last two), and
`FinishFrame`. A fragmenter is the number of fragments it produces.
`FrameRender` is what is promised to a module.

### TilStream: pipes, taps, and rkt

A pipe is `[owner, driver, frame]`; the variable a tap points to is named by the
tap it belongs to. `til_stream_tap()` is one action for each of its outcomes
(`TapDriving`, `TapFound`, `TapNew`, `TapFails`) and `TapReturn`, the second read of the driver after
the unlock. `NewPipe` has rkt's `pipe_ctor()` hook inside, `Destroy` has
`til_stream_untap_owner()` and the `pipe_dtor()` hook. `RktRender` is rkt's update of
the pipes it owns. `tapped` is a history variable: what each context tapped in this
frame. A failed tap leaves the context with the variable it used before, as modules do.

### TilContexts: the life of module contexts

A pointer that counts is a slot `<<holder, index, n>>`, and `ptr` says what each
points to: `main()`'s, the stream's (`<<"stream", path, n>>`), those of a context
to its parts and of a ref to what it found. The recursion of
`til_module_create_contexts()` is `stack`; `MakePart`, `New`, `AddPre`, `Displace`,
`Register` are what it does, `Fail` and `Unwind` its error paths.
`til_module_context_free()` is `Unref` or `Destroy`, over the work list `todo`,
which is the recursion through `destroy_context()`. `Gc` is
`til_stream_gc_module_contexts()`, `RefFind` the lookup in `_ref_render_proxy()`, `Switch` and `Tune`
are rtv's `setup_next_channel()`, `Crash` is its rendering of a channel that could
not be created. `Quit`, `FreeStream`, `FreedStream` are the end of `main()`.

### TilSettings, ModuleSetups, Setup: negotiating settings

`TilSettings` has `til_settings.c` as operators on an instance, a sequence of entries
`[key, value, nocheck, desc, nested]`: parsing (`til_settings_new`), looking up, describing, printing
(`til_settings_as_arg`), paths. A string is a sequence of characters, each with the number of backslashes in front
of it, and a word that holds no separator is one character: that is all the scanner and the printer tell apart. The
scanner halves these numbers, an odd one hides a separator; the printer puts `2^depth - 1` in front of a separator.
`ModuleSetups` is the table of what each module asks for
(`asc_setup` to `voronoi_setup`, the backends' too): the specifications in their order, under the
conditions of the code, and what the final parsing accepts. `Setup` runs them as `til.c`,
`setup.c` and `main.c` do: `Negotiate` is one turn of the front-end, which either adds a
setting that is missing, describes one that is there, blames, or bakes; `RunAgain` starts the
program with the flags it printed. What a value is of is kept (one of those offered, the preferred
one, one that was typed with or without the check, with a separator or a backslash in it or not), the number it
stands for is not. A
setup function returns a *request*: the path and the specification of what it wants.

### RktScener: rkt's scenes and their editor

`state` and `next_state` are the session's; each handler of `rkt_scener_update()` is an
action of this name, `Sending`, `Recving` and `Listening` the transport, which may lose the peer
at any time. A scene is an entry of the settings (`entries`: are its nested settings
allocated?) and a context (`contexts`); `new_scene` is what is negotiated. The modules' setup functions are
here a list of needs of which the first is the module's name: `Setup` has the rest.

### Audio: the device, its hooks, rkt, playit and main

`audio` is the device with its queue and hooks, `playits` the contexts of playit, `rkt` what
counts of rkt. A frame goes through `pc`: `BeginFrame`, `rkt_update_rocket` (the rocket
editor's callbacks, any number of them), `NestedComeAndGo`, `ShowScene`,
`playit_render_audio` of each playit in the scene, `Rendered` (rkt unpauses), `rototiller_thread` (main
unpauses). `Plays` is the device, at any time. Queued frames are kept as who queued them and how many seeks
came before. An assertion that fails (a seek of a song that cannot seek) ends in `"aborted"`.

### Fragments and Submit: cutting frames, and a game

`Fragments` has the fragmenters as functions from a fragment and a number to a fragment, with
the pitch and the stride its pixels are found by; checkers' and montage's own
are among them. `Submit` is the grid (`grid_tick`, one turn of one player per step) and `submit_prepare_frame`,
which plans a frame's random moves and starts over when somebody has won; and where the two ways to
draw sample the board.

### Chunker, Bsp, Sparkler: particles

`Chunker` and `Bsp` are records with operators, named as in `chunker.c` and `bsp.c`. In
`Sparkler` a frame is `particles_sim`, which starts the recursive walk, `_particles_sim`,
a step for each particle of it, and `sparkler_render`, the passes over all particles that
follow. `walk` is the call stack of the walk: each level keeps the next particle it read
before it went on, which is what deaths could invalidate. Space is the grid of integers,
the octree's cube reaching from 0 to `Side` in any number of dimensions. What is seen of space is
another part of it (`Screen`), for the projection widens with the distance: who is drawn outside of it is expired.
A particle's step spawns as many as its kind may, and lets it live or die.

## The runs

Every run lists its properties in its `.cfg`. A run in **bold** is expected to find
its one property violated, see the next section.

| run | shows | bounds |
|---|---|---|
| `fb_safety` | pages have one owner, no tearing, the assertions of `til_fb_page_get()` and `til_fb_free()` hold, pages are rebuilt only while idle, and `TilFb` implements `FrameQueue` | 3 pages (`NUM_FB_PAGES`) and 2 more addresses for snapshots, so that one can be held while another is taken, resizes, spurious wakeups and failing flips; frames modulo 4, as many as can be told apart at once (2 queued, 1 shown, 1 drawn), so that a frame skipped or repeated shows |
| `fb_exit` | no submitted frame is forgotten while `main()` flips; a stream that ends, and a flip that fails, lead to an exit, unless the renderer was between its test of `halted` and its sleep | the same without resizes, 1 snapshot; flips may fail |
| **`fb_halt_lost`** | the halt's signal is lost | 2 pages |
| `threads` | no thread is late for a frame, every fragment is rendered once, every frame is finished | 3 threads and up to 4 fragments: fewer, as many and more fragments than threads, so that threads get none, one or two; frame numbers modulo 2, the least in which a missed frame looks like none |
| `stream_taps` | the pipes' properties | two clones of a context at one path, two names of which rkt may drive one, one failed allocation, three frames: a pipe made, taken over and idle; contexts destroyed and created again at the same address in any order |
| `contexts` | no dangling pointer, no leak, what the collection spares | rtv with snow, a composition with a ref, and a montage with two clones and a pre, at the same path, two addresses for each (four for the clones), so that the old and the new exist at once; one failed allocation anywhere |
| `settings` | what is offered is accepted, printed flags reproduce the settings, paths are distinct, negotiations end, blame falls on what exists | each module (montage only where it is chosen), the audio's and video's backends; by a user who once, for shapes and asc twice, gives an answer other than the preferred one, or by the randomizer; two runs. Once is enough for what depends on one setting; the two modules are those whose settings or checks depend on two others |
| `rkt_scenes` | nothing missing is used, entries and contexts agree, the session prompts or ends | one scene, up to three; two needs, so that a module's name and a setting of its own can each be refused; one context that cannot be created; a connection lost in any state |
| **`rkt_scenes_freed`** | settings of a scene freed | the same |
| `audio` | hooks, seeks and pauses | three playits, so that the hooks pass twice; a buffer of two frames, so that it is empty, part played and full; two seeks |
| `submit` | counts, plans, what is drawn | two players, 3 x 2 cells, two moves a frame; frames up to 9 x 9, up to 7 cpus or tiles, tiles of 4 pixels: fewer rows than cpus, sizes that divide and do not |
| `sparkler` | chunks, lists, leaves, searches | three frames, three particles, chunks of two, one dimension with leaves of one particle and two levels: enough for a split, a merge, a chunk retired and reused, a particle that goes off the screen within the cube, and one that is seen, and spawns, beyond it |

`SYMMETRY` (pages of `fb_safety`) is used with safety properties only. In
`MCTilContexts` the action constraint `Canonical` picks, of the addresses a setup's
contexts can have, the first free one, and of the references freed in one loop, one
order: neither can be told apart by any property.

*Deadlock* is checked in `fb_safety`, `threads`, `contexts`, `submit` and `sparkler`, where only
the states of a finished (or crashed) program stutter. It is not in `fb_exit` and
`fb_halt_lost`, where the program can really hang, nor where a bound stops the model or a program that has
ended has no step: `stream_taps` (frames; a mutex left locked), `settings`, `rkt_scenes`, `audio`.

*Fairness.* The liveness runs assume that the kernel runs each thread
that can run (weak fairness of each thread as a whole, never of one branch of it),
that the backend completes a flip, that no module's function takes forever and that modules take finitely many
snapshots of a frame. `rkt_scenes` assumes that rkt goes on rendering frames (weak fairness of
`rkt_render_fragment`, one poll of the session each), and nothing of what the peer sends: no line need ever
come. But a message that is being sent is taken or its connection lost: `Sending` has no step for a socket that stays
full (`EAGAIN`), so a peer that neither reads nor leaves is assumed away. Nothing is assumed about wakeups without a signal, resizes, a
stream that ends, flips that fail: these may happen or not.

*Mutants.* For every property `PROJECT.json` names a definition and a mistake in it
(the `Bug...` definitions, most of the time) with which the same run finds the
property violated.

*Reproductions.* Five more configurations of the modules above show, with `tlc -config`,
findings of the list below that are not runs of the project: `MCTilFbRebuild.cfg` (`RebuildsAllPages`),
`MCTilThreadsCpu.cfg` (`CpuInRange`), `MCTilStreamLock.cfg` (`MutexReleased`),
`MCTilStreamResult.cfg` (`ResultTellsDriver`) and `MCTilContextsLeak.cfg` (`LeakAsserted`). TLC
finds the one property of each violated.

## What the runs found

1. **A resize can miss a page** (`MCTilFbRebuild.cfg`). `til_fb_flip()` counts
   `rebuild_pages` down for each page at the head of the inactive list, also for those
   an earlier flip rebuilt (`til_fb.c:248`). The comment of `til_fb_rebuild()` promises that pages are
   reconstructed as they become inactive. What does hold is `RebuildsOnlyIdle`.
2. **A halt can be lost** (`fb_halt_lost`). `til_fb_halt()` signals without the
   mutex (`til_fb.c:690`): a renderer that tested `halted` and is about to sleep sleeps for good, and
   `main()` in `pthread_join()`. It takes a flip that fails with no inactive page left.
   `HaltExits` shows that this window is the only way to hang.
3. **A cpu number past `n_cpus`** (`MCTilThreadsCpu.cfg`). A context created for fewer cpus
   than there are threads, but more than one, is rendered by all threads (`til.c:270`),
   against `HACKING.txt:373`.
4. **A passenger is told it drives** (`MCTilStreamResult.cfg`): `til_stream_tap()` returns 0 to
   the creator of a pipe even when rkt's hook put its own driver in (`til_stream.c:345`),
   so that the creator writes to rkt's variable in that frame. `OneWriter` holds nonetheless: it is
   one context that does.
5. **The mutex stays locked** when the hook fails (`til_stream.c:319`, `MCTilStreamLock.cfg`).
6. **rtv leaks channels that outlive their turn** (`MCTilContextsLeak.cfg`), so that
   `assert(!leaked)` in `til_stream_free()` fails at exit (`rtv.c:307`).
7. **A lost connection frees a scene's settings** (`rkt_scenes_freed`): when it is lost while a value that was
   refused at finalization is prompted for again, `rkt_scener.c:848` frees settings that already hang in
   rkt's list of scenes; an addition that is cut off leaves an entry without a context.
   `CrashesOnlyAfterAbort` and `EntriesAccounted` hold with this counted.
8. **Blame on a setting never fetched**: `shapes_setup()` blames a `pinch_spin` that does not
   parse on `spin` (`shapes.c:825`), an uninitialised pointer for a shape without one. `CulpritExists`
   names this exception and holds otherwise.
9. **A seek does not call the hook of a pause** though it pauses (`til_audio.c:86`): playit's own flag lags till rkt
   pauses or unpauses again, at the end of that frame. `PausedWithRkt` shows that it does.
10. **Particles stay in the leaf they were born in**: `bsp_move_occupant()` compares a position with
    itself (`bsp.c:380`). Therefore `LeavesLive` and `ShockFelt` speak only of particles that did not move
    about where in space a leaf's occupants are; and only of those added inside of the octree's cube (`InCube`), for
    what a particle outside of it spawns there is put into a leaf whose volume it is not in.
11. **Division by zero in montage** for frames narrower or lower than its tiles are many
    (`montage.c:162`); `FramesDrawnWhole` is of larger ones.

12. **Values with a comma or a backslash do not survive**: `settings_as_arg()` escapes a value as deep as the
    separators beside it, though it is scanned once more (`til_settings.c:730`). The model does so too, and
    `Reproduces` excepts the runs in which a value with one of them was printed (`garbled`); without
    the exception TLC finds a text that comes apart.

Found while reading, in code that is mapped but where no property is violated in the model, since it abstracts
the detail: a seed of an odd number of digits is not read back as printed (`main.c:298`); rtv's empty `channels` (`rtv.c:244`) and
stdin that is no tty (`main.c:523`) are not handled as the comments say; `til_module_settings_randomize()`
returns success on errors (`til.c:534`); the mem audio device subtracts what was played again and again
(`mem_audio.c:56`); `grid_player_say()` tests one player's function and calls another's (`grid.c:363`);
`chunker_new_chunk()` does not test `malloc()` (`chunker.c:108`).

## The proofs

TLAPS proves the following for every value of the constants, from the assumptions on
constants stated in the modules (two pages or more, one thread or more, at least one frame
number, two for the threads' counter; `NoPage` no page, `Rkt` no context; at least one player, cell and
turn; a buffer of at least one frame). Each
specification has an inductive invariant `IInv`; the theorems follow from `Init => IInv`, `IInv /\ [Next]_vars =>
IInv'`, and `IInv =>` the property.

- **TilFbProofs**: `TypeOK`, `OneOwner`, `NoLeak`, `NoTearing`, `DelayDefined`,
  `FreesAllPages`, `RebuildsOnlyIdle`. `OneOwner` alone is not inductive: which
  pages the main thread owns depends on where it is, so `IInv` says that the page on
  the screen is the active one or the next, as `mainPc` has it (`Screen`), that the renderer
  has a page exactly while it renders (`RendererPage`), and that only ready or
  lost pages, or the one being flipped to, were not presented (`Unpresented`).
  `FreesAllPages` needs a count besides: `PageCount` has the pages other than the
  snapshots be `NPages`.
  `TilFb` also implements `FrameQueue` (`ShowsInOrder`): every step is one
  of the abstract queue or a stutter. That rests on `OneOwner` - what is drawn is
  neither queued nor shown, so that drawing changes nothing the queue sees - and on `QueueRoom`, that the
  lists of distinct pages cannot be longer than the pages there are. `FramesConsecutive` is shown of
  the abstract queue alone (`QueueIInv`), and so holds of `TilFb`, which implements it.
- **TilThreadsProofs**: `TypeOK`, `IdleCount`, `AloneIsAlone`, `NoLateThread`. The
  count is right only as long as every thread that works, works on the current frame
  (`WorksOnCurrent`), and that in turn because a frame is published only when all are idle
  (`IdleUnlessWaiting`): the invariant is their conjunction.
  `TilThreads` also implements `FrameRender` (`RendersEachOnce`): each fragment is rendered once, between the
  frame's preparation and its finish. With an affinity, the number a thread will claim next lies in the
  window of `NThreads` numbers that starts at `next_fragment`, and no two threads' coincide (`OwnInWindow`, `OwnApart`);
  without, a number is taken and counted in one step. Either way what is claimed is claimed by one, and what is below
  `next_fragment` and claimed by nobody was rendered once (`RenderedOnce`); a thread gives up past the last fragment only.
- **TilStreamProofs**: `TypeOK`, `PipesLive`, `DriverTapped`, `SameVariable`,
  `OneWriter`, for any number of contexts and names and any failures; `RktWins` when rkt renders first;
  `RktPipesFreed` while no allocation fails. The invariant says that a pipe tapped in this
  frame has a fresh driver (`CurrentFresh`), that whoever came back from a tap
  follows the driver of a current pipe (`CalledCurrent`), and that whoever was told to write drives it
  (`WriterDrives`).
- **TilContextsProofs**: `TypeOK`, `NoDangling`, `PreListed`, for any finite set of
  addresses, any tree of setups, any number of clones and any failures. It assumes that
  rtv is nobody's part, ignores a channel that could not be created, is neither a "pre" nor a ref, and
  has a snow and a channel at least, each of which it creates one context of (`rtv.c:231`, `rtv.c:291`).
  `NoDangling` is inductive only together with the call stack: what a call made must not
  have been freed when the call goes on. `Calls` says that it is in slots nobody is
  giving up, that its context is referenced once until the stream has it (so that
  no other slot can point to it), and that the context a call makes a part of is held by
  the call before it or by `main()` (`Anchor`). `Apart` (no two calls are for one context) and
  `PartsApart` (none is its own part) keep a step of one call from the slots of the others. `Failing` and
  `Switching` say why a creation that fails never leaves rtv between two channels.
  `GcSpares`: while contexts are collected nothing is created, and the stream's slots under way point to contexts
  with one reference, that slot's; but whatever main()'s context renders is pointed to by a slot that is not the
  stream's (`RenderedHeld`), so that it has another. That goes through a chain of contexts of any length, by the
  least length at which it would fail (`ReachedWithin`).
  `NoLeak` takes `Layered`, that no context renders itself: the code does not stop a ref from naming a path it is
  itself rendered from, and contexts that refer to each other in a circle are never freed. TLC checks that
  the instance it runs is `Layered`. Without retained channels `LInv` is inductive with `IInv`: a context
  has exactly as many references as pointers (`Counted`), only what is allocated holds anything (`HoldersLive`), and what
  a slot points to has the setup, or the path, that the slot is for (`Fits`); rtv holds one channel, the one that is on
  (`OneChannel`), so that destroying it gives up all it holds. For that no slot may be filled twice, which would
  lose what it pointed to: the slots a call has yet to fill, of its holder, of the context it makes, and in the stream,
  point to nothing (`Placed`, `Registering`). At the end nothing is left to collect (`AtEnd`), and of what would be
  left the context of the least depth is pointed to by nothing but the stream, all the set at its path with it, so that
  it could be collected (`NothingLeft`).
- **SubmitProofs**: `TypeOK`, `Accounted`, `PlansExecuted`, and `WinnerOwnsAll` (who wins owns
  the board till the next game), for any board, any number of players and of turns a frame.
  That nothing is planned when a grid is given up is inductive as `PlansInTime`: nobody has more plans than turns left
  in the frame. That the winner owns all rests on cardinalities: whose count is that of the board has the board,
  and who has nothing can take nothing.
  `FramesDrawnWhole` too, for frames, tiles, boards of any size and any number of CPUs or modules: slices, tiles and checkers'
  clipped tiles leave no pixel out and give none to two, a montage has a tile for each module
  (the product of its two roots, one rounded up and one to the nearest, is enough), and no cell beyond the board is sampled. All of them
  are grids (`IsGrid`) of columns and rows, which are cut in pieces that follow one another (`IsCut`); pixels of a frame have
  addresses of their own (`Injective`). The lemmas of slices and tiles are of any frame whose pitch is its
  width and stride, so of parts of parts as well.
- **AudioProofs**: `TypeOK`, `HooksLive`, `NoStaleFrames`, `PausedWithRkt`, for any number of playits, any
  buffer and any number of seeks. What is hooked knows of the last seek (`HookedKnows`), and whoever
  queued a frame was created before (`QueuedBy`), so that a context that hooks the device anew finds no frame of its own.
  rkt has the control before anybody unpauses (`Controlled`), and ends each frame it is not paused in with a
  device that plays (`PlaysWithRkt`).
- **RktScenerProofs**: `TypeOK`, `EntriesAccounted`, `CrashesOnlyAfterAbort`, for any number of scenes and of
  settings a scene needs, any answers and a connection lost anywhere. The session negotiates a setup in three of its
  dialogs and in no other; the settings being negotiated hang in rkt's list exactly when the dialog comes back
  from a finalization that was refused, so that an addition enters them once; and while nothing was cut off, each
  scene's number the session keeps is that of a scene.

- **SparklerProofs**: `TypeOK`, `ChunksPinned`, `TreeWhole`, `LeavesLive`, `ShockFelt`, for any number of particles, of dimensions and of
  what is spawned at once, any depth of the octree and any size of its leaves and of the chunks. The constants are
  those of `SparklerAssumption` and `BspAssumption`: a chunk has room for the largest particle, and numbers are numbers.
  `IInv` is of the particles (`WorldOK`) and of the walk over them (`WalkOK`).
  *Chunkers* (`ChunkerOK`): `Holds`, and that a chunk that is free or unasked for counts nothing. An allocation adds one
  to the chunk it is of, wherever that comes from (`AllocKeeps`), and freeing takes one (`FreeKeeps`). That there is a chunk to
  take is a matter of counting: fewer are live than there are chunks (`SpareChunk`, `SpareCluster`).
  *The octree* (`TreeOK`): a node with octrants hangs together with the root, no two share a cluster of octrants, and each
  occupant is in the one leaf it points to. A descent ends at a leaf and stays in the volumes the
  position is in (`DescendFinds`), whether it starts at the root or at the cached node; a split moves occupants to octrants that
  contain them (`SubdivideKeeps`), but those who moved since; a merge takes octrants nobody is in, and what is above them in
  turn (`CollapseKeeps`), and forgets the cache. The functions those are written with recurse on paths, on sets or on
  numbers; that they exist and take their values step by step is shown first, by induction over sets of numbers (`Upward`,
  `Recursion`), for whatever recurses to what is of a lower rank (`Fixpoint`, `ByRank`).
  *The lists* (`Forest`): lists are apart, without repetition, and no set of particles but all of them holds the top level and is
  closed under children, which leaves no room for an orphan or a circle. A particle that is added is in one list
  and has no children; one that is reaped gives its children to the top level (`JoinsKeeps`, `LeavesKeeps`).
  *The walk* (`Trail`): entry by entry it goes down from the top level to a child, and what an entry holds as its next is
  another member of the same list. A reaped particle is the walk's last entry and none other's next, because lists are apart and
  the entries are of different lists (`Levels`); so the nexts stay live, though the reaped one's list has changed.
  *The search* (`SearchFinds`), by which `ShockFelt` holds: a leaf is found if its volume holds a position between the two
  spheres. A node that a position between them is in is not skipped: the nearest corner is no farther than the position, the
  farthest no nearer, dimension by dimension, and sums and squares keep that (`SumBounds`, `SquareGrows`, `Nearness`). A search
  that stops early has come by a node around the whole outer sphere (`Encloses`), all faces of which are farther from the
  centre than the radius: no position within the sphere is in another octrant of the parent, nor on a face they
  share (`Elsewhere`). Nobody but the burst itself ages in its step (`WhoAges`), and it spawns nothing,
  so that the octree it searches is the one `IInv` is of. `WorldOK` says therefore also that positions are
  points of space, and ages numbers: a burst's age plus one is another age.

*Only model-checked*: liveness (`ShowsEventually`, `EndExits`, `HaltExits`,
`FinishesFrames`, `Prompted`), which with `ENABLED` is beyond the prover; and all of `Setup`: settings nest, and what
recursive operators compute is not provable here.

## What is not modelled

- Pixels, sounds, and the drawing modules and libraries that compute them (`libs/sig`, `libs/ascii`,
  `libs/txt`, `libs/din`, `libs/puddle`, `libs/ray`): they have little control
  state. Of the modules that only draw, their setup functions are modelled.
- Numbers that settings stand for, the seed, the reading of a line, the parsing of the
  command line, and what is printed.
- The backends: the page queue takes from them that a flip returns when the page is
  shown, or fails; the audio that frames are played while it is not paused. The rocket client is external: its
  callbacks come in any order.
- `til_threads_destroy()` and its asynchronous cancellation, which the program calls only when it exits; the
  lock-free iteration of the tables for display; the wall clock
  (ticks are modelled by the order of submission and presentation); the wrap of the
  frame counter of a stream.
- The values of taps: who may write a variable and who follows it is modelled, the writing is not. A driver writes
  after `til_stream_tap()` returned, so that a clone rendering at the same time may see the value of the frame before, and
  a variable of a pipe rkt has just made what `calloc()` left (`til_stream.c:62`).
- In `TilStream` names do not collide by their hash, and a path has one set of pipes. In
  `TilContexts` there is one rendering thread, and rtv is the root.
- In `RktScener` there is one session, as in the code, and what a scene renders does not matter. In `Audio` no
  time passes but by frames, and an allocation does not fail. In `Sparkler` neither does one; its three
  dimensions are one in the run.
- Failing allocations are modelled where the code handles them and something is shared: pipes, contexts,
  scenes.

## Plan

What could come next, in this order:

1. `Setup` written with recursive functions, as `Bsp` is, so that what it checks can be proved for all modules at once.
2. `til_threads_destroy()` added to `TilThreads`.
3. The spare pages of `drm_fb.c` and `sdl_fb.c`, composed with `TilFb`.
