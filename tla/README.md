# LynxRDP: TLA+ models

LynxRDP is a remote desktop for Linux hosts: a root daemon (`lynxrdpd`) that
signs users on and keeps one desktop session for each of them, a session
process (`lynxrdp-session`) that serves an X display to one client at a time,
and a client with a window, a clipboard and file transfers. This directory
holds TLA+ modules of its core logic, the TLC configurations that check them,
and TLAPS proofs of some of their properties. Paths below are under `src/`.

`PROJECT.json` is the index: components, runs, the source lines of every
definition that models code, the hazards, the theorems, and for every checked
property a mutant, a definition changed the way a plausible bug would change
the code, under which TLC finds the property violated.

- [1. The system](#1-the-system)
- [2. The plan](#2-the-plan)
- [3. The modules and the code](#3-the-modules-and-the-code)
- [4. The runs](#4-the-runs)
- [5. Fairness](#5-fairness)
- [6. The proofs](#6-the-proofs)
- [7. Where the code and its comments part](#7-where-the-code-and-its-comments-part)
- [8. What is not modelled](#8-what-is-not-modelled)

## 1. The system

A client reaches the host through an ssh tunnel, a Unix socket or TCP. The
daemon identifies its user and hands the connection's descriptor to the user's
session over the control socket `<uid>.sock`, starting a session if none
answers. From then on the two processes that talk are client and session.

```
client  --socket-->  lynxrdpd --(<uid>.sock, SCM_RIGHTS)-->  lynxrdp-session -- X server
                        |  fork                                    ^
                        v                                          | fork, exec
                    supervisor (PAM session, signals) -------------'
```

### The daemon (`crates/server/src/daemon`, `bin/lynxrdpd.rs`)

| Component | State | Operations | Hard here |
|---|---|---|---|
| Session manager, `manager.rs` | table of sessions (at most one record per uid, owned or adopted), start latches, `stopping`, the sessions directory | `handoff_with` (connect, pass, wait for a reply, terminate what does not answer, bind, spawn, record), `reap`, `adopt`, `stop_all` | two workers and the reaper on one uid; a name unlinked after the table was unlocked; records that outlive what they describe; the daemon's death between any two steps |
| Handoff pool, `manager.rs` | bounded queue, places in flight per uid | `submit`, the worker's loop, `begin_shutdown`, `shutdown` | a place leaked on an error path; a shutdown that waits for workers that wait |
| Supervisor, `supervisor.rs` | PAM session, child, `CHILD_PID`, `STOP_REQUESTED` | set up, fork, exec, wait, forward, grace, kill, close | the instruction at which a signal lands; the death of the parent around `fork` |
| Listeners and sign-on, `handoff.rs`, `peer.rs`, `pam.rs`, `users.rs`, `access.rs` | none that lasts | accept, identify, authorise | system calls; not modelled |

Correct means: a user has at most one desktop and the name leads to it as long
as it runs; nothing is locked out for ever; the daemon forgets no session it
started and stops none that an earlier daemon started, except one it found
dead; a stop signal is never lost and no session outlives its supervisor.

### The session (`crates/server/src/session`, `x11`)

| Component | State | Operations | Hard here |
|---|---|---|---|
| Screen core, `session/engine.rs`, `x11/capture.rs`, `x11/resize.rs`, `proto/codec.rs` | damage, encoder's reference frame, served size, frames in flight, the client and its generation | hello, refresh, resize (either side), acknowledgement, capture, pump, drop | events of a client already replaced; a root that changes under a capture; a message lost on a full queue after the state moved on; resize before the greeting |
| Transfers, `engine.rs`, `proto/transfer.rs` | outgoing, incoming and pending records, windows | offer, request, accept, data, ack, end, cancel, poll | one global window for transfers that end independently; cancellation crossing what it cancels; publication failing after the last acknowledgement |
| File worker, `fileio.rs`, `proto/atomic_file.rs` | bounded queue of opens and publications | open, flush, rename, with time limits | an answer after its time limit, or after whoever asked has gone |
| Clipboard, `x11/clipboard.rs`, `engine.rs` | what the bridge owns, the conversion in flight and the queue behind it, the records against echoes | offers, requests, conversions, deadline, in both directions | text that comes back; an owner's event handled after the next owner took over; a program that never answers |
| Drag and drop, `drop.rs`, `desktop_drop.rs`, `x11/drop.rs` | staging directories, the XDND exchange | stage, drop, grace, delete | a target that answers late |
| Input, `x11/input.rs` | keymap, keys held, spare keycodes bound anew, auto-repeat | key, button, release all, reload | press and release under different bindings; a layout that changes while keys are down |
| Start-up, `lynxrdp-session.rs`, `desktop.rs`, `xserver.rs` | X server and desktop processes | start, stop | order of ends |

Correct means: the reference the encoder has is what the client shows or will
show, so nothing stays wrong on screen; every change of the picture is still
known to somebody; the frame window never waits for a frame nobody will
acknowledge; no message reaches a client in a state where it ends the
connection; every transfer ends, at both ends, with the same verdict, and that verdict is
what is on disk; what was copied last is on both clipboards and nothing goes
round between them; a key pressed is typed as it was meant and is let go of.

### The client (`crates/client/src`)

| Component | State | Operations | Hard here |
|---|---|---|---|
| Connection, `connection.rs`, `outbound.rs` | decoder, transfers, backlog, wakes, outbound queue | reader, writer and window threads; poll, send, close | the backlog and the wakes between threads; who waits for whom when it closes |
| Window, `app.rs`, `app/*` | the link, attempts, what is held down, the picture, the wanted size | drain, reconnect, adopt, exit; keys and buttons | state of the last connection used on the next; a press and its release that go different ways |
| Clipboard, `app.rs`, `clipchange.rs`, `fileclip*.rs` | last text and image seen, the image on offer | poll, set | echo; what was seen last need not be what is there |
| Tunnel, `tunnel.rs`, `askpass*` | the ssh child, the endpoint, the kill handle | start, register, kill, close | a kill before the child is registered |
| Updater, `update/*`, `launcher.rs` | the installed application, leftovers beside it, the update's state | check, download, verify, swap, sweep, hand over | death between any two steps of the swap; two launchers in one directory |
| Launcher, profiles, settings, reports | files with one writer | edit, save | none across steps |

Correct means: no thread waits for one that waits for it, no message sleeps in
a queue, no ssh outlives its window; a client that was replaced does not come
back by itself; there is a whole application to start, wherever an update was cut
off, and the user is told what happened to it.

`PROJECT.json` lists all components with what is and is not modelled of each,
and 40 hazards, each at its line, with the properties that watch it.

## 2. The plan

Modules, the most important behaviour first:

1. **`SessionManager`, `UserDesktop`** (done): the daemon's concurrency, its
   crashes and restarts, and the abstract promise it implements.
2. **`Supervisor`** (done): signals and process death.
3. **`Transfer`** (done but for the end of a connection): both managers,
   what flows between them, and the session's file worker.
4. **`Screen`** (done but for the cursor and pacing): picture, sizes, frame window, client
   generations.
5. **`Clipboard`** (done for text and images): the session's selection, the
   bridge, both echo records and the client's poll. Left: copies of files and
   their batches, INCR, a client that goes and comes back.
6. **`Connection`, `Link`** (done): the client's threads, and the window that
   loses its link, reconnects and closes, with the ssh processes under it.
7. **`Updater`** (done): check, swap, sweep and hand-over.
8. **`Keyboard`, `Input`** (done but for Level3, Num Lock and the pointer's
   motion): keys and buttons from the user's hands to the desktop.
9. **`FrameWindow`**: `adapt_in_flight` and `frames_per_rtt` as a small module
   that `Screen`'s window refines, with bounds proved for every round trip.
10. Drops (staging, XDND and its grace) on top of `Transfer`; lazy clipboard
    batches; the session's order of shutdown; version negotiation.

Pure algorithms (`split_frame_within`, damage coalescing, `detect_scroll_runs`,
`plan_batches`, negotiation) are to be operators compared with a reference
definition over bounded inputs, each with the run of the module that uses it.

Composition: `SessionManager` uses of a supervisor only that SIGTERM is
eventually followed by its end and that its session ends with it, which is
what `Supervisor` shows (`StopEnds`, `NoOrphan`). `Screen` and `Transfer` share
one connection and no state: the write queue is the only thing one can take
from the other, and `Screen` lets it be full at any time. `Link` is
composed with two instances of a connection (the old and the new one), `Input`
with the keyboard it types on; what `Link` calls a message `Screen`, `Transfer`
and `Clipboard` give a meaning.

Theorems, in this order:

1. `SessionManager`: typing, one latch holder, no stranded desktop, own
   sessions recorded; the refinement of `UserDesktop`; then, over one more
   layer of invariant, `ServedSessionsRecorded`, `NothingLeaked` and the action
   properties (done: every safety property of the `sessions` run).
2. `Supervisor`: no orphan, stops forwarded, leaks explained (done).
3. `Link`: `SshOwned`, over the places of window and worker;
   `NoSleepOnMessages` (done).
4. `Updater`: `AloneKeepsABuild`, from what is where at each step of the swap;
   `SweptIsInPlace`; `OutcomeTrue` (done).
5. `Input`: `OnRecord`, over what is on its way; `TypedRight`, for layouts that
   leave Shift and the spare keycodes be (done: both properties of the `input` run).
6. `Screen`: `RacesSurvived`, `NothingMissed`, then `NeverBroken` and
   `NobodyForgotten`, over what is in each queue, `FlightAccounted`, over the
   positions of frames and acknowledgements on their way, and `ReferenceIsShown`
   (done: every safety property of the two `screen` runs).
7. `Clipboard`: `ConvertedOnce`, inductive but for a type; `LatestEverywhere`,
   over where a copy is on its way (done: both safety properties of the
   `clipboard` run).
8. `Transfer`: typing, `WindowsKept`, `ChunksInOrder`, `EndsAgree`,
   `NobodyWaitsAlone` and the action property `ToldOnce`, over what the two
   streams say of each transfer (done: every safety property of the
   `transfers` run).
9. `FrameWindow`: the window stays between floor and cap for every input.

## 3. The modules and the code

A step of a model is what one thread or process does between two points where
another can see it: one lock section, one system call, one message handled. An
operator whose comment begins "Fault:", and which no next-state relation uses,
is a mutant of the definition after it.

### `SessionManager` and `UserDesktop`

State: `sessions`, `busy`, `inFlight`, `queue` and `stopping` are the fields
of the same or a like name in `manager.rs`; `pc`, `cur`, `victim`, `ended` and `copies`
are the threads' program counters and locals; `name` is the sessions directory
(which session's listener each `<uid>.sock` was bound for); `sess` and `sup`
are the processes, which outlive the daemon. `mine` and `served` are history.
A session is named by the connection it was spawned for and a record by the
connection that inserted it, standing for pids and `Instant`s.

Actions: `Submit`, `Refuse` (accept loop); `Scan`, `SkipUnlink`,
`ClaimUnlink`, `Unlink`, `ProbeRead`, `ProbeDrop` (the three parts of `reap`:
under the lock, the unlink under a start latch, `/proc/net/unix` and the
removal of adopted records); `Recv` ... `Answer` (a handoff worker, one action
for each place where `handoff_with`, `terminate` and `spawn` touch shared state
or wait); `BeginShutdown` ... `StopUnlink` (the end of `main`, `stop_all`);
`Crash`, `Start` (the daemon, at any moment); `SessionEnds`,
`SupervisorExits`, `SupervisorKilled` (the processes). A wait has an outcome
for its answer and one for its timeout, and both are open at any time, which
covers an answer racing its timeout.

Descriptors and frames of the handoff, credentials, PAM and logging are
abstracted: of a handoff the model keeps whether the session took the client.
Pid reuse is not modelled: the code signals children it has not waited for.

`UserDesktop` is the promise: per user one desktop and a door, opened only
where there is no desktop, moved only where nothing is behind it.
`SessionManager` implements it with the desktop of a user being the session
that is live and whose supervisor nobody has told to stop.

### `Supervisor`

State: the supervisor's place, the PAM session, the child (from `none` through
`forked`, `armed`, `running`, `told`, `zombie` to `reaped`), the statics
`CHILD_PID` and `STOP_REQUESTED`, the signal on its way, the daemon's and the
supervisor's clocks in ticks, and `fate`, a history variable that names what
kept a signal from being answered. Actions follow `run` (`OpenPam` to
`Install`), the waits (`Check`, `Enter`, `Reaped`, `GraceOver`, `Clear`,
`Close`), the child's side of `fork` (`Arm`, `Exec`), the handler (`Handle`),
the default action of a signal with no handler yet (`Terminated`) and the
daemon (`Ask`, `DaemonKills`). Time passes only while the supervisor is
blocked: its own instructions are taken to fit the margin between
`SESSION_STOP_GRACE` and the manager's `SUPERVISOR_EXIT_GRACE`
(`GraceAssumption`), 10 and 13 s in the code.

### `Transfer`

Both ends' `TransferManager` as sets of identifiers and counters (`sending`,
`receiving`, `pending`, `sent`, `acked`, `got`), the two streams (`net`), what
the client and the session keep beside them (`wanted`, `opening`), what has become of the
file each transfer is received into (`file`) and, as history, what each end was
last told (`verdict`). One action for each message handler (`RecvRequest`,
`RecvOffer`, `RecvAccept`, `RecvData`, `RecvAck`, `RecvEnd`), including the
replies, the pump and the completion each makes; `Offer`, `Request`, `Cancel`
for the calls; `Poll` for the session's regular poll.
`Pump` is the round robin of `pump`, under both windows, with sources of the
session that may have nothing ready (a pipe or a file still being read): `Turn`
is one identifier's, `Rounds` the loop over them from whichever one the
cursor stands at (`Turns`).
`Forget` is what a cancellation or an end lets go of: one end's records of an
identifier, since the other end has its own.
Chunks are numbered; bytes, names and directories are left out. An i/o error,
refusal or cancellation costs one of `MaxFaults`.

The file worker is a third process. `Opened` and `OpenFailed` are its answers
to opens; a file it receives goes from `staged` (`AtomicFile::new`) to `queued`
(the `Flush` job), `publishing` (the worker has seen that the adapter lives),
`placed` (it has its name) and `published`, or to `refused`. `Take` is the look
at `life`, `Persist` the rename, `Answer` the reply to whoever is left to read
it. A file whose adapter is dropped loses what is staged, its job is
cancelled if the worker has not come to it, and it becomes a `stray` if the worker
was at it, or past it and silent. A poll settles what is answered, and may give
up what is not (`WORKER_TIMEOUT`) at each of these places, so a transfer may be
failed while the file is renamed or after it has its name. The writes before a publication
are one with it: a write that failed is found with the next chunk or there.
The client publishes its own files in the step that completes them.

### `Screen`

A screen is a column of rows, each of one colour. That keeps what the code's
correctness hangs on: damage as a set of rows, copies between rows (a scroll
run), tiles as rows with their colours, sizes, and overlap of copies. State:
the X server (`root`, `pix`, `damage`, `notes`), the core (`size`, `served`,
`ref`, `dirty`, `stale`, `client`), its event channel and the queues to each
client, and the client programs (`phase`, `shown`).

Actions: `Paint`, `Scroll`, `SessionResizes` (programs in the session);
`HandleNew`, `HandleClosed`, `HandleRefused`, `HandleHello`, `HandleResize`,
`HandleRefresh`, `HandleAck`, `HandleStale` (the core's events, with every call
they make: a resize sets the root, the capture size, the served size, the
reference, the flag for a whole frame and the notice to the client);
`NoteDamage`, `NoteResize` (X events); `SendFrame`, `CaptureRaces`,
`CaptureFails` (`send_frame`); `DropDead`, `Expire`, `Quit`; `Connect`,
`Hello`, `Ask`, `Leave`, `Greeted`, `Receive`, `SeesEnd` (client and its
reader at the session). Whether a message fits a client's queue is open
whenever the queue may be full (`CanLose`). Frame identifiers are taken in a
ring longer than the window. A capture is one step: its races are those between the
core's knowledge of the root and the root.

### `Clipboard`

Text and images between the selection CLIPBOARD of the session's X server and
the client's native clipboard. State: the selection's owner, what programs
offer and the conversions they have been asked for; the property
`LYNXRDP_CLIP`, which every conversion shares; the bridge's `owned_*`, `fetch`,
`queue` (which can hold only PNG here), `available`, `last_text`; the core's
`ClipboardEcho`; the messages and image transfers on their way; the client's
`last_clipboard`, `last_image`, `pending_image`. Programs answer what they are
asked in order, and may refuse, wedge, answer after the deadline or exit, each
at the cost of one of `MaxFaults`; a clipboard manager may take over what the
bridge offers at any time.

Actions: `OwnerChanges`, `LateAnswer`, `Refused`, `HaveTargets`, `HaveText`,
`HaveImage`, `AsksItself` (`handle_event`, each with the `start_next` that ends
it); `Expire` (the deadline, on an event or the tick) and `Tick` (an event or a
tick that finds something waiting behind nothing); `TextFromClient`,
`OfferFromClient`, `RequestFromClient`, `ImageFromClient` (the core);
`TextFromSession`, `OfferFromSession`, `RequestFromSession`,
`ImageFromSession`, `Poll` (the client); the rest are people and programs.
`XError` and `ClientXError` leave a handler by its `?`: at the property it reads
(`ReadFails`), at the conversion it asks for (`RequestFails`, `StartFails`), at
the selection it takes (`OfferedInVain`). The engine logs the error and goes on
(`engine.rs:705`); what the handler had to report is lost, and its tail, which
would have begun what waits, is not reached: the queue then outlives the fetch
(`clipboard.rs:328`) until the next event or tick. Each costs a fault. The loss
of the X connection itself ends the session and is not followed.
A transfer of an image may be overtaken by text. `SelectionClear` comes with
the owner's event and does nothing that event does not do.

### `Connection` and `Link`

`Connection` has operators for one connection: its reader thread (`Read`, `Admit` for the
wait for room in the backlog, `Notify` for the wake-up, `LeaveReader`), its
writer (`Write`), and the calls of the window: `Sent`, `Polled` (one
`poll_event`, with everything it may come back with, the writer's error
before the queue), `Closed` and `Joined`. A message is its kind: its weight in
the backlog (a frame may be larger than all of it), whether it is answered,
whether it ends the connection.

`Link` says who calls them. `win` is the event loop's place: `drain`, `join` (of an
abandoned connection), `house` (`poll_reconnect`: `Adopt`, `AttemptFailed`,
`StartAttempt`), `rest`, `sleep`, and from `exit` on the steps of
`App::exiting`. `wk` is the reconnection worker's: `Connect`, `Spawn` and
`Register` of the ssh child (two steps, with a kill possible between), `AwaitReady`,
`Handshake`, `Report`. `ep` is who has the `Endpoint`, `tun` its ssh, `reg`
and `killed` the `KillHandle`. Children are taken to outlive the process, as
they do but on Linux, where the kernel takes ssh down with the client. An
abandoned connection is cleared when its threads are joined. `Prompt` is an
assumption on time: the worker's steps that wait for nobody fit the 250 ms
`exiting` waits for it. The liveness timeout fires only on a peer that is silent.

### `Updater`

State: what is at the application's name and at each staging name (`disk`),
and per launcher process the step of its sweep (`sw`), of its update thread
(`wk`), the thread's channel (`mail`), `Updater.state` (`st`) and the sessions it has
opened. `shape` is the `Plan` of the installation: one binary, a macOS bundle, a
bundle on a volume that cannot exchange, a Windows exe, or the Windows
installer. A step is one system call, and a launcher may be closed or die
(`Close`) between any two. `Exchange`, `Aside`, `Place`, `PutBack`, `Clean` and
`Tidy` are the swap of each platform; `SweepRead`, `SweepLook`, `SweepMove` and
`SweepDelete` the start of a launcher; deletions may leave part (`Deletions`).
A file whose name is deleted goes on being written, a directory is made again with what
is left to write, as `create_dir_all` and open descriptors have it. Checksums
and downloads are one answer; `Pick` chooses among releases as `pick` does.

### `Keyboard` and `Input`

`Keyboard` is the injector and the X server: `map`, `down`, `caps`, `repeat`
are the server's, `lookup`, `pressed`, `mods`, `dynamic`, `spares`, `original`
the fields of `Keymap` and `InputInjector`. `Press` is `key` with all it calls: `find`, the
plan of Shift around the press, a spare keycode bound (`Bind`) where the
layout has no place for the keysym; `Release` goes by what was recorded, under
any spelling (`Counterparts`). `Reload` follows a `MappingNotify`; the desktop
changes the layout, Caps Lock and auto-repeat when it likes. `mistyped` is
history: `Press` compares what the server would type with what was asked, and a
press dropped for want of a keycode counts as mistyped if the server had one to
give. A recycled keycode is forgotten for the keysym that loses it and for no
other (`Rebound`). The lock is asked for and the key pressed in one step, at
whose end the lock may be another than was answered (`LockMeanwhile`).
`Surviving` is the loop of `reload_keymap` over its bindings.

`Input` is the user's hands, the window (`focused`, `uiKeyboard`,
`pressedKeys`, `swallowed`, `remoteButtons`, `onBar`, `barPress` are fields
of `App`), the stream and the session's side of a client. `Strike` and `Click`
are what the user does, `KeyDown`, `KeyUp` what the window makes of it,
`FocusLost`, `OpenPanel`, `LinkLost`, `Connect`, `Drop`, `Exit` what comes
between a press and its release. Control and Alt are one key here (`Chord`),
as only their conjunction matters; Level3 goes through the steps of Shift.
A desktop that sets its own layout wipes the bindings of spare keycodes.

## 4. The runs

Times are of one run with two workers of TLC.

| Run | Instance | States | Shows |
|---|---|---|---|
| `sessions` | 1 user, 3 connections, 2 workers, queue 1, cap 2, 1 restart | 161 000, 7 s | types; latches exclusive; no latch and no place leaked; no desktop stranded; own and served sessions recorded; adopted ones left alone; `stop_all` stops all; refinement of `UserDesktop` |
| `liveness` | the same, no restart, no symmetry | 362 000, 2 min | every admitted client is answered; shutdown ends |
| `supervisor` | graces 3 and 4 ticks | 300, 1 s | signals forwarded, no orphan, leaks explained, a stop ends |
| `transfers` | a download of 2 chunks, a clipboard image of 1, an empty file the session fetches; windows 1 and 1; 1 fault | 50 000, 30 s | windows, order, agreement of both ends and the disk, no record waits alone, told once, all end |
| `transfer_uploads` | 3 uploads of 1 chunk, windows 1 and 2, 2 faults | violation, 65 s | an upload that nobody resumes |
| `screen_picture` | 1 client, roots of 1 to 3 rows, 2 changes, 1 resize by programs, 1 request | 797 000, 95 s | the reference is what the client shows; no change missed; the picture converges |
| `screen_clients` | 2 clients, one too old, roots of 1 to 2 rows, 1 change, 1 resize, 1 fault, queue 2 | 3 700 000, 55 s | frames accounted for, no client broken or forgotten, races survived |
| `clipboard` | 2 programs, 2 texts, 1 image, 2 copies anywhere, 1 fault | 646 000, 36 s | a copy made in peace is on both clipboards; nothing goes round; no request is stuck, or converted twice, behind a conversion or behind nothing |
| `updater` | 2 launchers, all five kinds of installation, 1 release, 1 session each, 1 fault | 567 000, 2 min | one launcher at a time always leaves a whole build; the sweep puts it in place; outcomes are true; no spinner for ever |
| `link` | ssh and direct, backlog of 2, 3 messages a connection, 2 attempts and 1 asked for | 182 000, 30 s | no ssh left behind, no sleep on messages, no waiting in a circle |
| `link_replaced` | a text and an eviction, 1 attempt | violation, 1 s | a replaced window that takes the session back |
| `input` | 4 keys, 1 button, 2 layouts, 1 spare keycode, 5 things the user does, 1 the desktop does | 4 560 000, 97 s | everything down has somebody who will let go of it; a press types what was meant, but for the exceptions below |

`TypeOK` of the modules other than `SessionManager` is stated, and holds in
these instances, but is not among the runs' properties: the others say more.

Why these bounds are enough to mean something:

- The hazards of the daemon are between two threads on one uid, and between
  an incarnation and the next. Two workers beside the reaper's thread, one user with
  more connections than the queue or the cap takes, and a restart bring out
  each pair. Users share the queue, the workers and `stop_all` and nothing else:
  two users, one of whom connects twice, with a queue of two, pass the same
  checks (943 000 states), and the proofs are for any number of users.
- `Supervisor` is finite as it stands; the margin between graces is one tick,
  the smallest, so a kill one tick late shows.
- `Transfer` needs transfers that contend for the global window, a size above
  the window, size 0 (complete on its offer, and through the file worker), one kept in memory, and
  one thing going wrong anywhere. Three uploads, two that fill the window and fail, are
  what the second run needs.
- `Screen` needs three rows for copies that overlap (a two-row scroll), a
  root larger and smaller than what is served, a window of one that may grow to two,
  which a frame of two parts exceeds, and a second client to take over from the first at every
  point of its life. `StaleLimit` is small so that the limit is reached.
- `Clipboard` needs two copies that cross (one at each end, or two owners in
  the session), a second program so that an answer may come from an owner since
  replaced, and one program that does not answer. Three copies with one program
  and no fault also pass (786 000 states).
- `Updater` needs a second launcher: the one that finds what the first left,
  and the one that sweeps while the first unpacks. One fault is one rename or write
  that fails at any step.
- `Link` needs a frame larger than the backlog (it is admitted alone), more
  messages than fit it, and an attempt after one that failed, with the
  window closed at any step of either.
- `Input` needs a letter with its capital on one key, a keysym that only one of the layouts
  has, so that it lands on the spare keycode under the other, an accelerator, and
  actions enough for a second press to come while the first is held (5). The accelerator is
  the one that sends Ctrl+Alt+Delete, which the bar sends as well: with the spare
  keycode held, its Delete is a press that no keycode is left for.
- Deadlock checking is off in the runs whose systems do stop: a daemon
  that is down with no restarts left, a supervisor that has gone, transfers
  that are all over, clients that have all left, clipboards at rest, a window
that has closed, launchers that are gone, a user at rest.

What `TypedRight` excepts is in the code and in this run: a keysym on no key is
dropped when no keycode is empty and each that was bound is held
(`input.rs:676`), and a letter comes out in the other case when the lock is
toggled between the query (`input.rs:704`) and the press. `OnRecord` accepts, with
no client, any repeat setting that was there before it or chosen meanwhile: a user
who turns repeat off during a connection finds it on again afterwards if it was on
before, since the session cannot tell that choice from its own suppression.

Every property of a passing run is violated under the mutant `PROJECT.json` names for
it, under the run's own configuration: the bounds reach the cases the
properties are about.

## 5. Fairness

Fairness is weak and only of steps the code or the kernel does take.

- `SessionManager!FairSpec`: each worker, the reaper and, once begun, the
  shutdown. No process owes the daemon anything: each of its waits has a
  timeout, whose step is the worker's own. Crash, restart, new clients and
  the ends of processes are never forced.
- `Supervisor!FairSpec`: the two processes run, the kernel delivers a signal,
  time passes while blocked, and the daemon kills at its deadline. The session
  never has to exit.
- `Transfer!FairSpec`: both ends read what reaches them; the file worker
  answers an open, or its limit passes; the session
  polls, on `FileReady` and in its 250 ms housekeeping, and gives up a publication that takes
  too long, so the worker itself need never come to one. The client is given
  no poll because it makes none.
- `Screen!FairSpec`: the core handles what is queued, reads X events, tries a
  frame after every event and every 250 ms, drops a dead client; clients write
  and read. Programs, resizes, timeouts and departures are never forced.

- `Clipboard!FairSpec`: core and client handle what reaches them, transfers go
  on (`Transfer`), the core's tick ends a conversion nobody will answer and begins
  one that waits behind nothing (`Tick`: every 250 ms, `engine.rs:1859`), a
  program that has not wedged answers, and the client polls: it polls while its
  window has the focus, so it is assumed to get the focus now and then. Nobody
  has to copy anything.

- `Link!FairSpec`: the event loop, the reconnection worker (each of its waits is
  bounded by a timeout of its own or by the socket's), the timer of the next
  attempt and the readers run. The user need not do anything, the network may
  die or not, and ssh may never authenticate: the worker's limit ends that.
- `Updater!FairSpec`: a launcher that is up goes on with its sweep, polls, and its
  thread runs. It may be closed instead at any time.
- `Input` states no fairness: both its properties are of states.

`Supervisor!StopEnds` assumes nothing of the session, and the daemon's liveness
nothing of the supervisor, so neither rests on the other.

## 6. The proofs

Checked by TLAPS for every value of the constants that satisfies the modules'
assumptions: any numbers of users, connections, workers and restarts, any caps,
any two graces with the session's the shorter, any launchers, releases and
kinds of installation, any keys, spellings and layouts, any clients, sizes,
colours and limits, any transfers of any sizes and any windows.

| Theorem | Module | Says |
|---|---|---|
| `Typing` | `SessionManagerProofs` | `Spec => []TypeOK` |
| `OneLatchHolder` | `SessionManagerProofs` | `Spec => []LatchExclusion` |
| `Reachable` | `SessionManagerProofs` | `Spec => []NoStrandedDesktop` |
| `Remembered` | `SessionManagerProofs` | `Spec => []OwnSessionsRecorded` |
| `Promised` | `SessionManagerProofs` | `Spec => ImplementsUserDesktop` |
| `ServedRemembered` | `SessionManagerProofs` | `Spec => []ServedSessionsRecorded` |
| `NoLeak` | `SessionManagerProofs` | `Spec => []NothingLeaked` |
| `AdoptedSafe`, `StopEndsAll` | `SessionManagerProofs` | `Spec => AdoptedLeftAlone`, `Spec => StopAllStops`: action properties |
| `AlwaysForwarded`, `NeverOrphaned`, `LeaksExplained` | `SupervisorProofs` | the safety properties of the `supervisor` run |
| `OwnedSsh`, `NeverSleepsOnMessages` | `LinkProofs` | `Spec => []SshOwned`, `Spec => []NoSleepOnMessages` |
| `NeverWithoutABuild`, `SweptInPlace` | `UpdaterProofs` | `Spec => []AloneKeepsABuild`, `Spec => []SweptIsInPlace` |
| `Outcomes` | `UpdaterProofs` | `Spec => OutcomeTrue`, an action property |
| `Recorded` | `InputProofs` | `Spec => []OnRecord` |
| `Typed` | `InputProofs` | `ShiftStays` and `SparesStay` give `Spec => []TypedRight` |
| `RacesForgiven`, `NothingLost` | `ScreenProofs` | `Spec => []RacesSurvived`, `Spec => []NothingMissed` |
| `NobodyBroken`, `NoneForgotten` | `ScreenProofs` | `Spec => []NeverBroken`, `Spec => []NobodyForgotten` |
| `NoFrameStrays` | `ScreenProofs` | `Spec => []FlightAccounted` |
| `SameAsReference` | `ScreenProofs` | `Spec => []ReferenceIsShown` |
| `NeverTwice`, `LatestIsEverywhere` | `ClipboardProofs` | `Spec => []ConvertedOnce`, `Spec => []LatestEverywhere` |
| `Typing`, `BothWindowsKept`, `OrderKept` | `TransferProofs` | `Spec => []TypeOK`, `Spec => []WindowsKept`, `Spec => []ChunksInOrder` |
| `Agreement`, `NoRecordAlone` | `TransferProofs` | `Spec => []EndsAgree`, `Spec => []NobodyWaitsAlone` |
| `ToldButOnce` | `TransferProofs` | `Spec => ToldOnce`, an action property |

**The session manager** is proved in four layers, each inductive given
those before it.

1. `BaseInv`. Types; `ControlOK` (a worker has a job exactly while it runs
   one); `LatchTaken` (whoever is where the code holds a latch has its uid
   in `busy`) and `LatchExclusion`, which need each other: exclusion is kept
   because `Acquire` and `ClaimUnlink` find the uid free, and it was taken if anyone
   held it; `WorkersGone` (after the join no worker runs); `NameHeld` (a name is
   still what a handoff connected to, or bound, as long as it holds the latch);
   `RecordsOK`.
2. `IdInv`. Whose is what: a connection is one job (`JobsOK`), has no session
   before its worker binds a name (`FreshOK`), and a record that was adopted is
   named by a connection that will never spawn (`AdoptersOK`), so that the record
   the reaper removes after reading `/proc/net/unix` cannot be one that
   a worker inserted meanwhile. This is the `started` comparison in `reap`.
3. `DeskInv`. The two properties and why they hold where a record is taken out, a
   name unlinked or bound: no desktop is behind the name there
   (`NobodyBehind`, `NobodyReaped`), because the desktop would be on record
   (`OwnSessionsRecorded`), and the record says its supervisor has exited or it
   has just been told to stop; a desktop of an earlier daemon and one of this
   never exist for one user (`OneDaemon`); and `stop_all` has told all of them
   (`NobodyLeft`), because it drains the table after the workers are joined.
   Neither property is inductive without the other: a stranded desktop comes from
   a forgotten record, and a forgotten record from a name that led elsewhere.
4. `LedgerInv`. Records, names and supervisors stay in step. A session is on record
   before it is served (`ServedOK`); a record is taken out only when its
   session is dead, or its supervisor has exited, or it answers nobody
   (`ProbedGone`); while a session of an earlier daemon has its name, none of this
   one's exists for that user (`AdoptedAlone`), so neither the reaper nor `stop_all`
   can take the name from it (`AdoptedKept`); and every session of this daemon
   is on record, or in the hands of a worker about to record or end it, or its
   supervisor has exited (`Accounted`), which is why draining the table after the
   workers are joined is enough for `stop_all` (`Stopped`). `NothingLeaked` is
   apart: the count of a user is the cardinality of that user's jobs, kept through
   each path a job can leave the pool by.

**The refinement.** `Promised` maps a user's desktop to the one session that is
bound for the user, alive and not told to stop (`OpenDesktop`), and the name to the name. Under `DesktopInv`
there is at most one such session, so a step of the daemon opens one where none
was, closes the one there is, moves the name only while nothing is open, or
leaves both alone. It is a theorem of the safety part; that a desktop is opened
for whoever asks is the `liveness` run's.

**The supervisor**: `PhaseOK` says what has been done by each place, and
`HeardOK` carries the clocks: while nothing has gone wrong (`fate = "none"`)
every tick since the daemon asked was one of the supervisor's own grace, so
the grace ends first (`StopGrace < ExitGrace`), the session is killed, and the
PAM session is closed before the daemon's SIGKILL. That is the only place the
assumption is used, and the only reason why a slow session leaks nothing.

**The link.** `EndpointOK` and `TunnelOK` say for each place of the window and of the
worker who has the endpoint, whether there is an ssh, whether the kill handle
names it and whether it has been used. The case that matters is a kill
between `Spawn` and `Register`: `register` finds the handle used and kills what it is
given, so `killed` with an ssh alive is possible for the worker at `Register` only.
`WokenOK` gives each wait of the reader its wake-up: a message in the backlog
was put there before its `Notify`.

**The updater.** `Kept` is the heart: what is at the application's name is
whole or nothing, and while it is nothing every build on disk is whole and there
is one more than the failures to come. `Building` follows the new build from
its first byte; `Swapping` says where alone the name is empty (between two
renames of one launcher) and that half a build is then only in its own hands;
`Swept` says that a sweep has seen all there is and deletes only after it has found
or put something in place. `AloneKeepsABuild` and `OutcomeTrue` are about at most one
failed file operation, and it cannot be more: with the name empty and two
leftovers, a sweep whose two renames both fail goes on to delete the only
copies there are (`install.rs:524`), which its comment means to avoid.

**The input.** A press is recorded by the window and read later by the session, so
neither record can be compared with what is down. `KeysOK` relates them over the
stream: a keysym that is not on the window's record is let go of by a message
still to be read, and each press of it in the stream has its release behind
it. `HeldOK` goes on from the session's record to the keycodes down, whichever
keycode a layout gave them, and `RepeatOK` carries auto-repeat. What is sent to
release a whole record is a sequence over a set
(`SetToSeqCovers`: nobody is left out).

That a press types its keysym (`Typed`) is about the session alone. The plan of
Shift around a press trusts `held_modifiers`, the X server looks at the keycodes
that are down, and neither asks the other: `ShiftOK` says that the two agree, that is,
Shift is remembered exactly while its keycode is down. For that nothing else may
come to be on Shift's keycode, whether it is found there (`TableOK`), bound there
(`BindingsOK`), held there (`HeldRight`) or released there under another spelling
(`ReleaseTypes`). `Agrees` is the other half: a table that is not out of date has
of every location what the server has. A spare keycode that is recycled is forgotten for
one keysym alone, so that one must be all there is at it (`ReboundFact`): no keycode
that can be bound has two keysyms (`Single`), no two bindings share one
(`Distinct`), and what is bound is what the server has there (`BindingsAgree`, which
`Surviving` keeps over a reload, `SurvivingOK`). Then one lemma about `PutDown` serves every
press (`PutDownTypes`), for the lock that was answered and, in the other case, for
the lock there is.

It holds under two hypotheses about layouts. `ShiftStays`: every layout has Shift on
one and the same keycode, with nothing else there. PC layouts do, and it is needed:
TLC finds that if a layout puts a letter
where a held Shift is, and Shift elsewhere, then pressing the letter
lets go of the keycode while `held_modifiers` keeps the Shift. `SparesStay`: a
keycode that is empty in one layout has at most one keysym in any other. That it
is needed is shown in section 7. The layouts of the `input` run satisfy both
(`DesksAreOrdinary`).

**The screen** has four invariants. `PictureInv` is the core's view of the X server:
damage that is not empty is known or about to be (`FrameOK`); each capture that
raced since the last frame was another shrink, one more being due while the
root is smaller than what is served (`RaceOK`), which is what makes the limit on
stale captures a limit on shrinks. `FrameOK` is stronger than `NothingMissed`: it
holds of a client that was greeted whether or not it still lives, and of rows
by position and not by the smaller of two sizes.

`TalkInv` is about what is between core and clients, and is stated over positions
in queues. `Once`: a client connects once and says hello once, and nothing is in
its queue before (so that the greeting finds room: the only way to lose it is a
client that has left, `HelloTold`). `Lawful`: a greeting or a refusal is the first thing in
a queue, and nothing else but an end is. `Fitting`: an update touches only rows
of the size last told before it in the queue, or, if none was, of the size the
client has; `EndsAt`: that size, at the end of the queue of a client not yet marked
dead, is what the core serves. What a queue loses is its end (`PrefixFits`), and a message
lost marks the client, to which nothing more is sent: so nothing that depends on
a lost size is ever said. `Waits` gives each client that waits its reason, and is
kept by a drop because what is dropped is shut down.

`FlightInv` is about the frames in flight. Those on their way to a client and the
acknowledgements on their way back are one sequence (`Way`, acknowledgements
first), which the frames in flight follow (`Follows`): each has a place in it, nothing else
has, and in the same order. Every kind of step keeps that: a queue that grows at
its end grows together with the flight; what is acknowledged first is the first of
both; a frame that is read leaves its place to its acknowledgement, which is
put behind those before it; anything else has no place. That a new frame is not taken for an old one
is `InRing`: the identifiers in flight are the last ones before `next`, in a ring
longer than a full window and a frame of two parts. Three facts say that nothing
else disturbs it: a client that was not greeted has no frame in flight (`Idle`),
only one that was acknowledges (`Greeting`), and the socket of the present or coming
client has not been shut down (`Open`).

`ShownInv` is about the picture. What a client will show is a recursion over its
queue (`Pictures`). The prover has no induction, but a set of numbers
that has 0 and the next of each of its members is all of them
(`FirstMissing`, from the library's theorem that `<` on the naturals is well-founded),
which gives the recursion a value (`PicturesExist`) and makes
two recursions over the same messages agree (`SamePictures`). From these: a
message added is read last (`ShowsOneMore`), and one that the client reads changes
nothing of what it will show (`ShowsAfterOne`). So only the core can
change it, and what the core says changes the reference alike: a
frame because a copied row was looked for in the reference and the other rows that
differ are tiles (`FrameMatches`), in one part or in two
(`FrameDraws`); a size and a greeting because the reference is then invalid
in every row. A frame that is cut short by a full queue does break the
agreement, and `Send` marks that client dead.

The constants' assumptions: clients are `1..n` for some `n`, every client's
queue holds something, the captured size fits the root, the window's floor is not
above its cap, and frame identifiers outnumber a full window and a frame of two
parts (`FrameIds > Cap + 1`; the code's are of 32 bits and its cap is 8).

**The clipboard.** `ConvertedOnce` is inductive together with a fact of types
(`QueueInv`): each step that ends a conversion begins the next target's, serves what
waits (`ConcludeServes`) or, left by an X error, leaves it waiting with nothing in
flight (`XErrorQueue`), where a request finds it (`ClientQueue`) and an event's
end begins it (`EventEnds`). That it is begun is liveness, and the run's (`ComesToRest`).

`LatestEverywhere` compares the two ends when nothing is on its way, so its invariant
(`CopyInv`) says of everything on its way what it is for. As long as each copy was
of something new, made when the one before had gone across, and nothing
failed (`Calm`), the last copy is in one of three phases. `Upward`: the client
has it and will find it (`Found`), or has sent the text (`TextSent`) or offered the
image (`ImageOffered`), while the bridge has nothing to do. `Held`: the
bridge owns the selection with it. `Downward`: a program owns the selection with it, because it
was copied there or because it took over what the bridge held, and the bridge
has the change before it (`Announced`) or asks for what there is, then the text,
then the image (`Fetching`). All that is between the two ends in that phase is of the copy (`Streams`). Three
facts say why the client gets it: a text that it has not got will be news to the bridge
(`News`: neither `last_text` nor the echo record holds it, since neither holds
anything that was not copied before, `MemoryOK`), it is on its way once the
conversion is over (`TextCame`), and an image is offered, asked for, waiting, being
converted or being transferred until the client has it (`ImageComes`). `Polled` is why it
does not come back: the client remembers what it has set. The invariant does
not depend on how many texts or images a copy offers, nor on `MaxCopies`. The prover
needs from the constants that programs, contents, targets and the value for
"none" are different things, and no text is an image.

**The transfers.** `TransferInv` is `TypeOK`, both windows (`WindowOK`), and one
statement for each transfer (`AllWell`), because transfers share the windows and
the streams and nothing else. Of a stream only what it says of a transfer matters:
whether there is a message of a kind (`Has`, `Says`), which of two kinds comes
first (`Precedes`), and which numbers its chunks and acknowledgements carry
(`Counts`). The parts of `AllWell` go with the life of a transfer: `FreshOK` (nothing
is said of one that has not begun), `StepOK` (one step of the handshake at a
time, and each kind of message goes one way), `BeforeOK` (no bytes and no file
before the offer is answered), `RecordOK` (who has a record has been told nothing),
`AnswerOK` and `GivenUpOK` (what an end or a refusal under way implies about the records
and verdicts at either side, and that acknowledgements come before the end
behind them), `OtherEndOK` (every record's counterpart), `ChunksOK` and `SettledOK`
(verdicts and disk). None of the properties is inductive without the others: that the ends
agree needs that an end says what the receiver did, that needs that no end
is under way while there is a record, and that needs the order of the handshake.

A step concerns one transfer, and the lemmas follow that. What the head of
a stream says goes (`OneLess`), what is added comes last (`OneMore`), and for
every other transfer both streams say the same as before (`SameFor`, `Unmoved`), so it
stays well by one lemma (`ReplyKeeps`). For the transfer itself there is one
lemma for each branch of each handler (`OfferTakenOwn`, `DataLastOwn`,
`EndAtSenderOwn` and so on), with one step for each part. A pump concerns many
transfers at once. What it does is first said without its loop: `RoundOK` relates the
state of the loop after any number of turns to that before, for each transfer that
has had its turn and each that has not, and is kept by a turn (`TurnKeeps`). As with
the screen's pictures, well-foundedness of the naturals stands in for the induction
over the turns, and `PumpDoes` gives the result (`PumpSays`): chunks numbered
from what was sent before, no more in all than the budget. That the windows
hold afterwards is a fact about the cardinality of the set of chunks in flight
(`InFlightMore`, `InFlightLess`). Handlers that pump, and the poll, use `PumpSays` alone.

The constants' assumptions: identifiers are finitely many numbers, an asked-for
transfer is not an image, and one transfer's window fits the global one (in the code 8
and 16 chunks).

Checked by TLC only: liveness throughout, and with it `ENABLED`, which the
prover cannot reason about. Every safety property of a passing run, states' and
steps', is a theorem.

## 7. Where the code and its comments part

Shown by a run, with the lines in `PROJECT.json`:

- **An upload that nobody resumes** (`transfer_uploads`). A `TransferEnd` frees
  global window without pumping, and the client never polls. Two uploads that
  fill the window and both fail at the session leave a third with nothing in
  flight. It needs failures on chunks in flight (a full disk) at the
  session, and enough uploads at once for the global window to matter. The
  session itself is immune: it polls (`transfers`).

- **A replaced window takes the session back** (`link_replaced`). `poll_event`
  asks for the writer's error before it takes what the reader has queued. The
  server closes the socket behind its `Disconnect`, so a key pressed meanwhile
  fails to be written, and the word already in the queue is never read: the link ends
  with an error that `classify` retries. The comment (`app.rs:258`) says that
  this is the case the classifier exists for.

Stated in a module, with a counterexample TLC finds when the property is added
to a configuration, but not among the runs:

- `Clipboard!LaterCopyIsNews`: a text goes across, an image goes across after it,
  and then the same text is copied again: the client's `last_clipboard` (or, the
  other way, the bridge's `last_text`) still names that text, and the copy is
  dropped. `ClipboardEcho`, between the two, was written for this case and its
  unit test names it; the records on either side of it are not cleared when an
  image replaces the text. `LatestEverywhere` holds because it asks for copies
  not made before.
- `Input!NothingStuck`: the user holds an accelerator (its press is swallowed),
  lets go of Ctrl first, and the key repeats: `key_input` sends the repeat to the
  session as a press, and then the release is eaten as the accelerator's own.
  The key stays down until the next press or loss of focus (`app.rs:2399`). The test
  at `app.rs:5346` guards against "leaving Return held on the session". `OnRecord`, which the run
  checks, says that somebody still has such a key on record.
- `Transfer!FailedLeavesNothing`: the worker is at the rename, or has made it and
  not answered, when its time limit passes: both ends are told that the transfer
  failed, and the file is there (`fileio.rs:202`), where `atomic_file.rs:1` has a
  file published "only after the entire transfer has succeeded". One upload of one
  chunk shows it, with no fault, in 8 states. A cancellation can meet the same moment. `EndsAgree` is
  what holds: both ends are told the same, what was completed is there, and what
  the worker has answered for in time is told.
- `Input!TypedRight`, without `SparesStay`: a keysym is bound to a spare keycode,
  the desktop sets a layout that has it and its capital on that very keycode, and
  the reload keeps the binding. When the keycode is recycled, only the evicted
  keysym is forgotten there (`input.rs:606`); the capital is still found there and
  types the new keysym, until the next `MappingNotify` is read: what the comment
  above that line sets out to prevent. Layouts `<<Shift, Shift>>`, `<<Control,
  Control>>` and either nothing or `<<a, A>>` on the third keycode, and keys for a,
  A and a third keysym, show it in 12 states.
- `Updater!NothingHalf`: with two launchers, the sweep of one that starts
  deletes the staging of one that is unpacking, which goes on and swaps in what
  it has (`install.rs:11, 119`). `AloneKeepsABuild` is what holds with one at
  a time.
- `Updater!NoSessionAtHandOver`: a session may be opened while the installer is
  downloaded; the refusal (`launcher.rs:751`) comes before the download.
- `SessionManager!NoSpawnAfterShutdown`: `handoff_with` looks at `is_stopping`
  once, before it reaps, connects and waits, so a session may be started after
  `begin_shutdown`; the comments (`manager.rs:202, 254`) say none is. Such a
  session is still stopped: `StopAllStops` holds.
- `Supervisor!SigtermClosesPam`: `run` installs its handlers after the PAM
  session is open and the session spawned; before that SIGTERM kills. The
  comment (`manager.rs:133`) says the PAM session is closed. `LeakExplained`
  lists all the ways it can stay open.
- `Clipboard!OwnsWhatItOffers`: a copy in the session and one on the client
  cross. `acquire` takes the selection while the event of the session's owner
  is still queued; `dispatch` takes that event for a newer owner and clears what
  was just put on offer. The bridge owns the selection and has nothing to give,
  and the session's clipboard is empty until the next copy.

Met while reading or modelling, without a run:

- The bridge's conversions share one property and are told apart by target. An
  answer of the owner before this one, for the same target, is taken for the
  new owner's; and a text conversion may find what another target left there.
- A client replaced before its hello gets `Disconnect` (`engine.rs:1175`),
  while `proto/message.rs:10` says a hello is answered by `ServerHello` or
  `Rejected`. `NobodyForgotten` therefore asks for an answer or an end.
- The bar eats the release of whichever button comes next, not of the one that
  was pressed on it (`app.rs:3176`).
- `level3_held` counts Alt_R (`input.rs:703`), though `from_reply` takes a map
  that has ISO_Level3_Shift to have no use for it.
- A reader's decoding error ends the link with a message that `classify`
  retries, though its comment lists protocol errors among what is final; and
  `adopt` sets the attempts back to 0, so that a peer that fails each time
  after the handshake is tried for ever.
- Whoever starts a leftover by hand is to have it put in place
  (`install.rs:532`). A bundle's leftover does not end in `.app`, so `bundle_of` does not
  know it, and its sweep looks inside the bundle: `InPlace` in `Updater`.
- A download cancelled while its offer is on the way is reported as failed:
  the offer arrives unsolicited, is refused, and the refusal reported
  (`connection.rs:1122`), against the comment at `connection.rs:924`.
  `ToldOnce` allows this one second word and no other.

## 8. What is not modelled

- Components with status `not_modelled` in `PROJECT.json`, each with its reason:
  system interfaces with no state of ours (PAM, NSS, peer credentials,
  descriptor passing, FUSE, DAV, native clipboards), byte encodings covered by the
  repository's property tests, forms and files with one writer, and
  components that are next in the plan.
- Of `Screen`: the cursor, pings, input, pixel encodings and frame pacing in
  time. An acknowledgement may move the window by a slot either way, between
  floor and cap: the measurements that decide which are not modelled.
- Of `Transfer`: the end of a connection (`clear`), size limits, paths, and
  the reads and writes of the file worker one by one.
- Of `Link` and `Connection`: the handshake's fields, the contents of messages,
  pings but for their time limit, captured ssh diagnostics and the askpass helper.
- Of `Updater`: downloads in pieces, checksums, archives and their paths, the
  permissions of what is installed, and the restart's command line.
- Of `Input`: pointer motion and scrolling, clicks that a panel takes, Level3,
  the keypad under Num Lock.
- Of `Clipboard`: files, INCR, size limits, the notices for a format that turned
  out unavailable, and the end of a connection (a client that reconnects forgets
  its records, `app.rs:1334`).
- Of `SessionManager`: joins of threads of clients dropped by the accept loop, pid reuse,
  and time: a timeout may fire at any moment, which admits more behaviours than the code has.
- Of `Supervisor`: several signals at once. One SIGTERM is what the daemon
  sends; a second finds `STOP_REQUESTED` set and does the same again.
