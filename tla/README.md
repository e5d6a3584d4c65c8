# A verification project for mux

mux keeps shells alive in a daemon, `muxd`, and lets clients (the macOS app, the
`mux-attach` relay, command-line queries) attach to them, lose them and find them
again, on this machine or, over QUIC, on another. This directory holds TLA+ models
of the daemon, of the relay and of the protocols between them, the TLC runs that
check the models, and theorems about eight of them that TLAPS checks.

1. [Inventory](#inventory)
2. [The modules](#the-modules)
3. [The runs](#the-runs)
4. [What does not hold](#what-does-not-hold)
5. [Fairness](#fairness)
6. [The theorems](#the-theorems)
7. [Plan](#plan)
8. [Not modelled](#not-modelled)

## Inventory

Paths are relative to the repository. State in *italics* is shared between tasks.

| Component | State | Operations | What makes it hard | What must hold |
| --- | --- | --- | --- | --- |
| Pty table, `muxd/src/manager.rs`, `pty.rs` | *`ptys` map*; per session `exited`, *`close_deadline`*, child pid, `adopted`; sleeping close timers | open, adopt_many, kill, close_for, reopen, schedule_close, read_loop's EOF, reap, list | kill, expiry, exit and a new shell under the same name overlap; timers outlive the lease they were armed for | the table is exact; no shell leaks; a lease is honoured once, never moved; the limit holds |
| Output stream, `manager.rs`, `server.rs` (`handle_open`, `resize`) | *the VT*, *the client slot*, a bounded channel per client, `live_output` | attach_on, detach, read_loop, reap's Exit, forward, resize with re-dump, tell_foreground | attach steals the slot between the read and the send; bounded sends time out on clients that have been replaced; a dump is rendered under a lock and queued outside it | no chunk lost, repeated or reordered; exit last; the newest client keeps the pty; slow clients hold nothing up |
| Live upgrade, `migrate.rs`, `main.rs`, `server::bind` | two socket paths, pty masters in flight, *terminal locks* | adopt_from_predecessor, accept_handoff, hand_off, await_ack, bind | two processes, three timeouts, crash at any point, requests served meanwhile, rival daemons | no shell, byte or lease lost; one reader per pty; one server; freezes end; users notice nothing |
| Request dispatch, `server.rs` | connection count, admission policy | handle_connection, one arm per request | versions, tokens and targets decide together | a request is served where it belongs, relayed once, or refused readably |
| Terminal control, `control.rs` | *`revision`*, *`input_revision`*, *input lock* | inspect, checked_input, write_input, observe | time of check to time of use; a timeout cancels a partial write; observers coalesce | checked input is applied at most once, to the state that was inspected; the last change is seen |
| Event watch, `manager.rs`, `server.rs` (`watch`) | broadcast ring, *last event* per session | schedule_agent, emit, watch, lag recovery | a lagging receiver resynchronises from a snapshot and then reads older events | a watcher converges to the table |
| Broker, `broker.rs`, `quic.rs` | *connection cache*, *pins file*, streams | dial, check pin, open stream, evict, splice, audio bridge | a failure on an old connection evicts a new one; a slow dial meets a filled cache | one connection per alias; a pin never changes silently; streams recover |
| Audio, `audio.rs`, `audio/*`, `mux-proto/src/audio.rs` | *routes*, *permits*, *registrations*, device owners, epochs | register, acquire, join, expire, request, ready, activate, capture, playback | expiry races joining; both ends time out on their own; datagrams are lost and reordered | no expiry under a device; hardware is released; nothing is replayed or leaked from another recording |
| Relay, `mux-attach` | uplink, reconnect state, stdin and winsize threads | run_attach, pump, reconnect, respawn, re-exec | a reconnect must not respawn a closed shell or a daemon that is being replaced | a terminal is reopened once, never replaced silently; every outage ends |
| Frames and versions, `mux-proto` | decoder position | read/write lanes, messages, handshake | short reads, lengths at the limit, mixed versions | readers take what writers send; skew is diagnosed |
| Agent detection, `crates/agents` | manifest rules | compile, regions, evaluate | nested gates, regions that must agree on one line | no vacuous rule; the first of the best rules decides |
| App tiling and state, `app/Sources/Mux` | split tree, prefix engine, snapshot files, closed-pane history, audio generations | split, close, reopen, save, restore | a crash between rotating and writing; late callbacks | a readable snapshot always exists; the tree stays well formed |
| ghostty-vt | terminal emulator | feed, render, resize | a vendored library | assumed: a dump repaints the state after the output fed so far |

How they interact: `main` starts a daemon, which first adopts
(`adopt_from_predecessor`), then binds the control socket, then installs the
handoff signal handler and serves. Each request is a task on a multi-threaded
runtime. Requests share the table by its mutex; a session is shared by its read
loop, the handlers attached to it, a foreground reporter, the agent's evaluation,
close timers and kills, through the terminal lock, the client-slot lock and bounded
channels. A request with a target goes through the broker to another host's daemon,
which serves it as if it were local. A relay is a client like any other, on either
side. Audio runs backwards: a program on a host opens a device, the host's daemon
asks the Mac that is attached to its pane, and the Mac's helper opens the hardware
and a route back.

## The modules

**`Manager`** - the table and how each shell ends. The `ptys` mutex makes a lookup
and the change that follows one step; what the code does after dropping the guard
is a step of its own: `Kill` (unlist) / `KillTerminate` (SIGKILL) / `KillRelease`
(exited, event), and `Eof` / `WaitChild` or `WaitAdopted` / `ReapRemove`. A
`Session` is one allocation, i.e. one `generation`, never reused; `name` says which
name it was allocated for, so an old session and its replacement are told apart
as `Arc::ptr_eq` and the generation comparison do. `OpenHangsUp` is an open that
fails after the fork: the master is closed, the shell is hung up and nothing of the
daemon knows it (`killer` is "hungup"). `timers` are the sleeping
`schedule_close` tasks. `AdoptMany` is the successor's side of a handoff, with any
batch, leases and already dead children the payload may hold.

**`Attach`** - one pty, its read loop and reap, and the connections that attach.
The data are numbers: chunk *k* of the output is *k*, a VT is the number of chunks
it was fed, a dump is that number at the time it was rendered, and each queued
message carries the number of chunks a correct screen shows after it. `slot` is
`PtySession.client`; `hpc` where each `handle_open` is; `sendTo`, `nameTo` and
`redump` are the clones of a client's sender that are alive outside the slot, which
is what decides when a channel closes. A bounded send that does not succeed at once
may time out at any moment: `SlowClient`, the second disjuncts of `ReapTell` and
`NameSend`. `latest`, `dropped` and `redumped` are history for the properties. At
most one foreground report is in flight: evaluations are at least 200 ms apart
(`AGENT_SETTLE`) and a report's send gives up after 100 ms. `Resizers` are the
clients that may resize before their first live output, the only case in which
`resize` sends anything; the stream properties are about `Plain`, the clients no
such re-dump was ever meant for.

**`Handoff`** - processes, two socket paths, and the shells. `ctl` and `mig` are
whose listener a path names (a file stays when its owner dies); `link` is the
handoff message on a successor's socket; `table`, `vt` and `lease` are each
process's own. A pty's output is consumed by whoever reads it, so a VT is a *set*
of chunks: a second reader shows as a hole. `wanted` is what users were told about
closes. Modelling decisions:

- `AskPredecessor` joins `socket_owner` and the `SIGUSR1`; `Send` joins connect,
  locking, snapshot and `sendmsg`, which `hand_off` runs back to back on one thread
  with nothing observable in between but requests, and those are allowed from
  `Collect` on.
- `Accept` (receive and `adopt_many`, after which the read loops run) and `Ack` are
  two steps; the predecessor may give up, and the successor die, in between.
- `Crash` is a successor dying at any point before it serves. In the weather
  "desert" that is any point; else it dies only while it is dispensable, i.e. has not
  acked, and others have its shells and all the output it has read: nothing could
  save those. An ack that was written can still be read after its writer's death
  (`Remains`).
- The fd cap of `hand_off` (256) equals the table's limit, so it is never reached.
  A payload that cannot be decoded, including another version, is `AcceptFails`.
- The `weather` of a behaviour is what happens around its upgrades: "busy" (requests
  are served between `live_sessions()` and `exit(0)`), "stall" (a process is slower
  than its peer's timeout), "desert" (a successor dies when it has the shells for
  itself), "rivals" (a daemon is started while another is starting). The code excludes
  none of them. Each property says in which weathers
  it holds; all the others were seen to break it (see below).

**`Terminals`** - what users are promised: terminals that open, show their output
chunk by chunk, and are closed and reopened, as if one daemon ran for ever.
`Handoff!Transparent` is this specification under a refinement mapping: a terminal's
screen and lease are those of its reader who has missed nothing, in good weather.

**`Control`** - one terminal, its controllers (inspect, then checked input) and its
typists, with the write lock, the 2 s timeout and the partial writes it leaves. The
screen's text and its revision change in two steps, the inspection reads the text
under the terminal lock and everything else after it, and a controller may still
hold an inspection of a former terminal of the same name (`generation`). `basis` is
what a checked input was let through on, `sent` how many of its bytes are out.

**`Observe`** - what a session tells its callers. The agent a detector would read
off a screen is the screen's number. One evaluation of a session runs at a time
(`agent_pending`); reading, storing and emitting are separate steps, beside the
reaper's and the killer's own (`KillExited`, `KillClear`, `KillEmit`). The broadcast ring keeps `Backlog` events per
receiver and then a `gap`. A watcher is subscribe, snapshot, write, receive; an
observer is mark, look, send, sleep.

**`Relay`** - one `mux-attach` process with its two input threads, against a daemon
that crashes, is upgraded, drops the link, and whose shell exits (the client is told),
is killed or expires (it is dropped and not told) or is closed.
Shells are numbered, so "the same terminal" means something; time is in ticks, of
which a handoff takes fewer than the respawn window. A re-exec keeps the socket and
nothing else.

**`Broker`** - the connections of one alias. A connection is "silent" before it is
"closed": QUIC notices a dead peer only at its idle timeout. Every step between two
locks of the cache is an action: look, dial, check the pin, insert, open a stream,
evict, and the audio bridge's second lookup. The host goes away, comes back and
changes its key. A write of the pin may fail, with or without half a line in the file
(`None` among the pins), and a request may be too large, which evicts nothing.

**`AudioLease`** - automatic audio up to the moment sound may flow: attachments that
bring a provider, devices that acquire, permits, the request to the Mac and its
answer, the helper's dial and grace period, routes and their expiry. A request, its
permit and its route share an id.

**`AudioMedia`** - one open route: devices that start and stop, the host's `State`
and its epochs, the bridge, the helper. The reliable lane is a sequence, the
datagrams are sets from which packets are taken any number of times or never. A
packet the bridge has let through waits for the writer (`held`) while States go by.

**`Wire`** - pure functions under their source names: lane frames and messages as
sequences of bytes in a small base, the handshake, admission and relaying.
**`Peers`** puts them at the two ends of a connection: a writer of frames and the
loop that reads them, a connection that is cut after any byte; a reader and any
header; a client and a daemon of another version.

**`Agents`** - the regions of a screen as functions, and two loops as steps. A rule's
gates are compiled one call of `compile_gate` at a time: a gate says how many nested
ones each of its lists has, and the calls for these are put in front of those still
to come, which is the order of the recursion; `gates` numbers them as `total_gates`
does, and `total_matchers` counts their needles. A needle stands for an entry of
`contains`, `regex` or `line_regex`, a text for the set of needles found in it, which
for an empty screen need not be the empty set (`regex = ['^$']`); `Unfit` needles are
too long or no regular expressions. Matching goes through the numbers from the last
to the first, so that a gate's nested ones are done when it is looked at: what the
recursion returns, without one. `evaluate` takes a manifest's rules in order and keeps
the best.

The `MC` modules name the constants of the small instances. Four of them hold two
instances that share a question: **`MCSession`** has `Attach` and `Control`, what a
terminal's clients see and write; **`MCLive`** `Broker` and `Attach`, what becomes of
links and clients that stop answering; **`MCLink`** `Relay` and `Peers`, a client and
its connection; **`MCWatch`** `Observe` and `Agents`, what is seen on a screen and who
is told. A behaviour is one of the module that is its `subject`, to which the fairness
is due, and the other's variables stay as they were at first: the models are put side
by side, not composed.

`ManagerProofs`,
`AttachProofs`, `HandoffProofs`, `ControlProofs`, `BrokerProofs`,
`AudioLeaseProofs` and `AudioMediaProofs` hold the theorems about the modules they
are named for; `ClientProofs` has those about what a client of the daemon relies on:
`Relay`, `Observe`, `Peers` (with `Wire`) and `Agents`. As these are extended
together, the names of `Attach`, `Observe`, `Peers` and `Agents` that other modules use
too have the module's in front (`AttachInit`, `ObserveInit`, `PeersNext`, `AgentsSpec`),
and no client is `Nobody` in `Attach`, `None` elsewhere. Definitions called "Mutant of ..." are
plausible bugs of the definition they precede. They are in no specification: each
shows that some property notices the bug.

## The runs

States are distinct states. `CHECK_DEADLOCK FALSE` except in `live`, where the broker
may never stop: the other models may, for good (all shells ended, all clients gone,
bounds used up).

| Run | Instance | Shows |
| --- | --- | --- |
| `manager` | 2 names, 2 sessions, table of 1, retention 1, clock to 1; 170 000 | `TypeOK`, `TableExact`, `NoShellLeaked`, `WithinLimit`, `ExpiryIsDue`, `LeaseNeverMoves`, `TerminalsEnd` |
| `manager_adopted` | the same | violated: `ExpiryTerminates` |
| `session` | `Attach`: 2 clients, one of them resizing early, 2 chunks, channel of 1. `Control`: 2 controllers, symmetric, 1 typist, inputs of 2 bytes, 2 screens, 2 inputs. 5.8 million | `InSync`, `NoGap`, `ExitComesLast`, `LatestKeepsSlot`; `AppliedOnce`, `AppliedToSeen`, `Consistent`, `NoInterleaving` |
| `attach_redump` | 2 clients, early resizes, channel of 2 | violated: `NothingLost` |
| `live` | `Broker`: 1 pane and 1 with audio, 2 keys, 2 streams per connection, 4 connections, 4 faults. `Attach`: 2 clients, 2 chunks, channel of 1, no early resize. 319 000 | `Consistent`, `PinHolds`, `Recovers`, no deadlock; `SlowHoldsNothing` with clients that may never read, `LoserEnds` once they do |
| `handoff` | 3 daemons, 1 shell, 2 chunks, in good weather, in each bad one and in all at once; 204 000 | `HandoffIsExact`, `TerminalsSurvive`, `NoSecondReader`, `Transparent`, `UpgradeEnds` |
| `handoff_rivals` | the same, with rivals | violated: `OneServer` |
| `link` | `Relay`: 2 sizes, 2 programs, window of 2 ticks, 2 faults, 1 change, 3 shells. `Peers`: base 3, lengths to 4, 2 frames. 1.7 million | `TerminalIsKept`, `SparesHandoff`, `ExitJustified`, `ClosedStaysClosed`, `Reattaches`; `PeersUnderstand` |
| `relay_reply` | the same relay | violated: `LostShellIsSaid` |
| `watch` | `Observe`: 1 session, 1 caller, ring of 2, 2 screens. `Agents`: 6 lines, 4 gates to depth 2, 1 needle a gate and 2 in all, 3 rules. 883 000 | `Informed`, `AgentIsCurrent`, `CallersCatchUp`; `DetectionIsExact` |
| `audio_lease` | 2 panes, 2 devices, 2 requests, 2 attachments, 1 registration each; 380 000 | `LeaseIsAgreed`, `HardwareIsReleased` |
| `audio_media` | 1 recorder, 2 players, channel of 1, 2 starts each, 2 packets; 532 000 | `RouteIsTold`, `SoundIsFresh`, `MicrophoneFollows` |

Some properties are conjunctions of named parts, each with a comment of its own
where it is defined: `TerminalsEnd`, `SlowHoldsNothing`, `HandoffIsExact` (with the
types), `TerminalsSurvive`, `UpgradeEnds`, both `Consistent`,
`Informed`, `CallersCatchUp`, `TerminalIsKept`, `LeaseIsAgreed`, `RouteIsTold`,
`SoundIsFresh`,
`PeersUnderstand`, `DetectionIsExact`. Each part has a mutant that breaks it.

Why the bounds are enough to meet the interesting cases:

- Two sessions are an old shell and the one that takes its name while the old one's
  reap, kill and timers are still under way; a table of one makes the second wait
  for the first, and two names make the batch check of `AdoptMany` matter. A clock
  of one with a retention of one lets a lease run out; a terminal that is closed,
  reopened and closed again has two timers with one deadline. That an old timer meets
  a later deadline is left to `LeasesAreHonoured`, which is about all clocks.
- Two clients are the thief of the slot and its victim. A channel of one fills at
  once, which is the timeout path, and two chunks leave one after a gap. One
  resizing client can address its re-dump to itself or to its thief. Longer
  channels are the theorems' business.
- Three daemons are a predecessor, a successor and either a second successor after
  a failed first, or a rival. One shell can be opened before, during or after; two
  chunks leave one to be read by the wrong process.
- Two controllers hold the same inspection; two inputs are one and its retry, and
  two bytes make a partial write. Two screens are the inspected one and the next.
- A ring of two holds an event and the one that must come after it, and loses one as
  soon as three are sent. The caller may be either a watcher or an observer.
- Two faults are an outage, and another during the recovery from it; the third shell
  is the one that must not appear.
- Four connections are one, the one that replaces it, the one dialled meanwhile, and
  another after the first eviction. With two panes a limit of two streams is never
  met: what a full connection does is in the list of limits below.
- Two devices and two panes are a joining and a leaving user of one route and of
  different ones; two requests are a cancelled one and its successor. Each pane has
  one registration: that a provider comes back is only in the theorem (whose invariant
  TLC checked with two), not in `HardwareIsReleased`. Two starts of
  a device are two epochs, and two players compete for one speaker.
- A base of 3 makes lengths of several bytes short; the limits are met exactly and
  exceeded by one. Four gates are a rule's own and, say, a not in a not beside an
  all; three rules are two equal ones and one that beats or covers them.

## What does not hold

Four runs are expected to fail: in each the code, or a document, says otherwise of the
program.

- *Re-dump* (`attach_redump`). `resize` renders its dump under the terminal lock and
  queues it after releasing it. A chunk read in between is queued first, and the
  older dump then repaints the screen without it; nothing repairs that until more
  output comes. `session` shows that the stream is right for every client this
  does not happen to.
- *Adopted shells outlive their lease* (`manager_adopted`). `wait_adopted`
  (manager.rs:730) only waits. A shell that was handed over, has closed its terminal
  and outlives the grace period is unlisted without a signal, so a close that was
  armed for it finds nothing to terminate, against docs/closed-tabs.md:86. What holds
  of inherited terminals is `ClosedLeaves`: they leave the table.
- *Two servers* (`handoff_rivals`). `bind` checks, unlinks and binds in three steps, so
  of two daemons that both passed the check the second takes the path from the first
  and both serve; main.rs:135 and mux-attach main.rs:125 say that the loser exits.
  `OneServerWhenCalm` shows that it takes rivals or deserters.
- *A lost reply* (`relay_reply`). A daemon that created a shell and whose reply is lost
  is found by the retry as an existing terminal, and the notice is not shown, against
  mux-attach main.rs:15. `FreshShellIsSaid` says that this is the only case.
The rest are limits of the promises, and are conditions of the properties above.
Each was seen to be necessary: TLC finds a counterexample when the property is stated
without it.

- *A shell opened during a handoff* after `live_sessions()` dies with the predecessor,
  against migrate.rs:2 ("replacing the binary never kills a shell"): `NoShellLost` is
  about handoffs during which no request is served.
- *A relay that has waited long.* "Past this window no handoff is in flight"
  (mux-attach main.rs:89) is true of the handoff that started the wait, which is what
  `SparesHandoff` says; a relay that is already past its window when an upgrade begins
  may start a rival daemon into it.
- *Two first pins.* Two dials that both find no pin both append one, and a host that
  changed its key in between is trusted with both, against broker.rs:12. `PinHolds` is
  about files with at most one line for the alias.
- *Eviction of a live connection.* `open_stream` takes any failure to open a stream for
  a dead connection (broker.rs:213-218), and evicts what the alias has by then. A
  failure that comes late evicts the connection that was dialled since. And the 65th
  stream (`MAX_STREAMS`, quic.rs:33) waits until the timeout and then evicts the
  connection under the other 64; repeated, nobody keeps a stream. `Recovers` assumes
  that in the end only corpses are evicted: it is about outages and says nothing of
  either case.
- *End of a stream in a header.* `read_lane`'s comment says `Ok(None)` on an end at a
  frame boundary; an end within a header gives `None` too (frame.rs:113-123).
  `FramesSurviveCuts` says that an end at a boundary is clean, one within a payload
  an error, and nothing of one within a header.
- *Attach to a dead pty.* Between `reap` taking the client and removing the name
  (manager.rs:675) an open or reopen attaches to the dead session and never gets an
  `Exit`; its channel stays until the client leaves.
- *A shell whose open failed after the fork* is hung up and not killed (pty.rs:209-212,
  manager.rs:432): one that ignores the hangup lives on unlisted. `NoShellLeaked` is
  about every other shell; nothing the code says of these is left to state.
- *Weather of an upgrade.* With "busy" a close or reopen acknowledged after the
  deadlines were copied is forgotten. With "stall", `accept_handoff` adopts what a
  predecessor has given up on, and until the successor's bind is refused both read the
  same ptys. With "desert" what only the dead successor had is gone, and its
  predecessor may leave on its ack. With "rivals" a `SIGUSR1` between bind and the
  installation of the handler ends a daemon that holds shells, and, with more daemons
  than the run has, a successor can adopt from another daemon than the one it
  signalled. So `NoShellLost` and `LeaseSurvives` stand in good weather and in stalls,
  `Lossless` and `NoSecondReader` in good weather and when busy; `HandoffIsExact` and
  the ends of freezes and successors hold in every weather.
- *Resizes without an uplink.* A size polled while there is none is not sent again
  (main.rs:643). A reconnect reads the size anew when it dials, so what can be
  missed is a change between that and the uplink.

## Fairness

Weak fairness of a program's own steps: tokio polls every task that is ready, each
await in question is bounded (a `send_timeout`, a sleep, a socket or idle timeout, a
grace period) and blocking calls return. Nothing is assumed of shells, of users'
requests, of crashes or of lost packets.

- `Manager`: the tasks, and that time passes.
- `Attach`: `DaemonFairness` assumes nothing of clients, which may never read again;
  `ReaderFairness` says that clients read their sockets, without which `forward` may
  stay in a write forever, and is a premise of `LoserEnds` only.
- `Handoff`: of `Startup(d)` and `HandOff(d)` for each process, as wholes: a process
  that has a step to take takes one, whichever.
- `Observe`: evaluation, reap and kill of each session, and each caller's handler;
  callers that stay connected read.
- `Relay`: the main loop, both threads, time, a daemon that is up serves, and an
  upgrade ends.
- `Broker`: each pane's handler and the idle timeout; a host may stay away.
- `AudioLease`: the handlers of devices, provider, helper and routes, with their
  deadlines and the grace period.
- `AudioMedia`: the handlers, and strong fairness for those who wait to tell of a
  start or a stop: tokio's bounded channel serves waiting senders in order, ahead of
  media, which is only ever tried.
- `Control`, `Peers` and `Agents` are checked for safety only and assume nothing.

## The theorems

TLC looks at the instances above; the theorems are for every value of the
constants.

`ManagerProofs`, from `ManagerAssumption` (the table's capacity is positive, the
names are finitely many, `None` is none of the values):

- `TypeCorrect`; `TableStaysExact`, `ShellsStayReachable`, `LeasesAreHonoured`
  (both `ExpiryIsDue` and `LeaseHasTimer`), `LeaseStands` (`LeaseNeverMoves`),
  `LimitHolds` (`WithinLimit`).
- None of these is inductive by itself. `Inductive` proves the invariant that is:
  besides the properties it says where a session's tasks can be for each way of its
  ending (a fresh session has none; a session with a kill under way is unlisted;
  one that is listed has neither a kill nor a finished reap), which is what a step
  of `FireTimer`, `Kill` or `ReapRemove` needs to know of the *other* two.
- `LimitHolds` needs cardinality: opening adds one name to a finite set, and a batch
  adds as many as it has names.

`AttachProofs`, from `AttachAssumption`:

- `TypeCorrect`, early resizes included.
- `StreamInSync`, `StreamHasNoGap`, `ExitIsLast`, of every client in `Plain`; for
  the others `attach_redump` refutes the claim. The invariant of `StreamCorrect`
  says of each attached client's channel that it *continues* the client's screen:
  the first message goes on from what is shown, each next one from the one before,
  and the last is stamped with the VT's count for the client in the slot, less the
  chunk in the read loop's hand; that the read loop's target has the property even
  after it lost the slot; and that an `Exit` is queued only behind everything.
  `Links` ties `slot`, `sendTo` and `nameTo` to attached handlers, and `RedumpLink`
  keeps re-dumps out of the channels of `Plain`.

- `LatestClientKeepsThePty` (`LatestKeepsSlot`) is inductive given the types: every
  step that empties or fills the slot compares the client it is about with the one
  that is there.

`ControlProofs`, from `ControlAssumption` (an input has at least one byte, there is
a revision, controllers and typists are different):

- `InputIsAppliedOnce`, `InputMeetsSeenScreen`, `RepliesAreTrue` (`Consistent`, with
  the types) and `InputsDoNotMix` (`NoInterleaving`, an action property).
- `Inductive` adds what these rest on: the revision counts viewports, one behind
  while one is fed and one ahead after the exit (`RevisionCounts`); a snapshot's
  revision names its text (`SnapshotsFit`); who is between check and write holds the
  lock, and its number is the current input revision (`LockHeld`); and an input that
  was let through has used up the input revision it was checked against
  (`BasisIsUsedUp`), which is why no other can pass on the same one.

`HandoffProofs`, from `HandoffAssumption` (the first daemon is one, `None` is neither
a daemon nor a message), for any number of daemons, shells and chunks:

- `HandoffsAreExact`, `UpgradesKeepTerminals`, `TerminalsHaveOneReader`
  (`NoSecondReader`), `OneServerWhenCalm` (`OneServer`, but for the weathers that break
  it), and `UpgradesAreInvisible`: the refinement of `Terminals`.
- The invariant has three layers. In any weather: `Handing`, `Messages` (a message
  that stands has a sender who waits for its ack, or was acked before the sender
  left), `Holders`, `NothingInvented`, and `SnapshotIsCurrent` itself. Without
  rivals and deserters (`Calm`): one process starts at a time, whoever serves owns the socket, and
  the server a successor meets is its predecessor, who stays until it is answered
  and whose message it has. On both rest, when the weather is at most busy,
  `NobodyLate` and `OutputKept` (who has not handed a pty over has all its output),
  and, when it is at most stalls, `ShellsKept` and `LeasesKept`.
- For the refinement, `Mapping` shows that the mapped screen and lease of a terminal
  are well defined, and `Refines` goes through the steps: those of users are steps of
  `Terminals`, those of daemons change nothing that is mapped.

`BrokerProofs`, from `BrokerAssumption`:

- `OneConnectionPerHost` (`Consistent`) and `PinsAreKept` (`PinHolds`). Both are
  inductive together with the types and `Places`, what a relay holds where it is:
  a pin is only appended by the dial that found none, so a second line, and with it
  the end of the promise, is the only way to a second key. Connections only age
  (`ConnSteps`), which leaves `Insert`, `Evict` and the bridge's second lookup as
  the steps that matter.

`ClientProofs`, of `Relay`, from `RelayAssumption`:

- `PanesKeepTheirTerminal` (`TerminalIsKept`), `HandoffsAreSpared` (`SparesHandoff`),
  `ExitsAreJustified`, `ReconnectsDoNotReopen` (`ClosedStaysClosed`, an action property).
- The invariant adds that a handoff is shorter than the window (`InTime`), that a
  reply is under way only to a relay that asked and only one saying `created` parts
  the shell there is from the one the user knows (`Told`), and that nothing follows
  an exit event and the threads have the socket only during the pump (`Over`).

Of `Observe`, from `ObserveAssumption`, for any sessions, watchers and observers and
any size of the ring:

- `CallersAreInformed` (`Informed`): exits come last, and a watcher with an empty ring
  or an observer asleep knows the terminal's present state. The invariant,
  `EventsInv`, follows an event on its way. `Settled`: unless an evaluation, a reap or a
  kill is between a change and its emit, the last event is the present state. `Rings`: of a session's
  events in a ring the newest is the last one, and nothing but exits follows an exit.
  `WatcherKnows` and `ObserverKnows` say the same of what was received: who has
  nothing to come, and missed nothing, knows it, or the evaluation that stored the
  news is about to emit it. A push into a full ring drops the oldest and leaves the
  gap, which is why the implication survives it.

Of `Peers`, from `PeersAssumption`, for any base, any limits, any
frames and versions:

- `PeersAlwaysUnderstand` (`PeersUnderstand`). Numbers first: `LengthSurvives` and
  `BytesSurvive` show that the bytes of a length give it back, in any base. The
  invariant, `LinkInv`, lays the frames out on the stream: each begins where the one
  before ends (`Laid`), the stream goes as far as the last one unless it was cut
  (`Extent`), the reader stands at the end of a frame and has those before it
  (`Reading`), and its loop ends only at a frame that was cut (`LoopEnd`). Headers,
  relaying and versions are cases, of which the theorem takes all.

Of `Agents`, from `AgentsAssumption`, for any screens, needles and priorities and any
limits of a manifest:

- `DetectionStaysExact` (`DetectionIsExact`). What it says of regions is about any
  sequence of lines; the least and greatest elements it needs come from the
  well-foundedness of the naturals (`LeastOf`), which takes the place of an induction
  over the lines. `CountUp`: if fewer than n lines that are not blank were kept, the
  least of those that were not would be among the first n. Of gates, the invariant
  says that each list of a gate that is not empty has a gate compiled or a call to
  come (`AllSound`) and that on a text with none of the needles the gates ask for
  (`Asked`) only negated gates match (`OnlyNegated`): the matcher that `compile_gate` demands of every other gate fails,
  by itself or through a nested gate that is not negated. `BestSoFar` is what the loop
  over rules keeps.

`AudioLeaseProofs`, from `AudioLeaseAssumption`:

- `LeasesAreAgreed` (`LeaseIsAgreed`). The hard part is that `acquire` joins whatever
  route its pane has, and yet always gets its own. This follows from `OneWaits` (the
  gate lets one acquisition of a registration through, with a number nobody refers
  to), `OneRequest` (its request is at one place only: on the wire, in the helper's
  hands, waiting there, or answered) and `OwnRoute` (once the helper has opened the
  hardware, the route in the pane is the request's or gone). The invariant was also
  checked by TLC, with two registrations.

`AudioMediaProofs`, from `AudioMediaAssumption`:

- `SoundStaysFresh` (`SoundIsFresh`, two action properties). `Behind`: every State
  and sample on its way is of the present recording or an earlier one, and no sample
  is older than its label. `InOrder`: the packets in the lane lie between the one
  played last and the one let through last, in order, also while that one waits for
  the writer. The types of the invariant are
  without the model's bounds, which the argument does not need.
- `RouteStaysTold` (`RouteIsTold`, with the types): one player has the speaker, and
  when no event or State is on its way the Mac's microphone and speaker are what the
  programs do. `ToldInv` reads each channel as a path from what its receiver knows to
  what its sender is: the event channel from `serve_route`'s clients to the devices,
  but for those whose last word still waits for room (`ClientsTold`), the control
  stream and the lane from the helper's State to `serve_route`'s (`MacTold`).

Only model-checked:

- all liveness (the prover has no fairness): `TerminalsEnd`, `SlowHoldsNothing`,
  `LoserEnds`, `UpgradeEnds`, `AgentIsCurrent`, `CallersCatchUp`, `Reattaches`,
  `Recovers`, `HardwareIsReleased`, `MicrophoneFollows`.

Every invariant and every safety action property of the runs that pass is a theorem.

## Plan

1. `SnapshotStore` and `AutomaticAudio`, of the app.
2. The attach between `reap` taking the client and removing the name
   (manager.rs:675), in a module that has both the table and the stream.

## Not modelled

- The macOS app: tiling and the prefix engine are sequential data structures; the
  snapshot store and automatic audio are state machines of their own (see the plan);
  the rest is AppKit.
- ghostty-vt, the emulator: vendored; what the models use of it is stated above.
- The explicit audio share (`serve`, audio.rs:192-204), a route without a permit;
  the chain of parents a device's owner is found by (`process.rs`), reads of `/proc`.
- The ALSA plug-in and CoreAudio callbacks: their host libraries decide the
  interleaving; what they say on their sockets is in `AudioMedia`.
- TLS files and tokens: file formats; a token is admitted or not in `Wire`, and the
  pins of known hosts are in `Broker`.
- Forwarding: two byte copies. systemd notification, paths, printing, manifests: I/O
  and data. QUIC and TLS themselves: libraries.
