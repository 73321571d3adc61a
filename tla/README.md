# Verification of mdrv-ds in TLA+

mdrv-ds puts a *virtual* DualSense (or DualShock 4) pad between a real one and
the games: a proxy process owns the real pad, a holder daemon owns the virtual
one, and overlays, audio and a second XInput pad hang off the proxy.  This
directory models the parts of it whose correctness depends on the order in
which processes, sockets, the kernel and the user act, checks the models with
TLC on small instances, and proves some of the results with TLAPS for all
instances.  Line numbers refer to `src/` (`holder.rs`, `proxy.rs`, ... are in
`src/crates/linux/src/`).

## 1. Inventory of the system

| component | state | operations | interacts with |
|---|---|---|---|
| holder daemon (`holder.rs`) | `uhid` fd, create `key`, `neutral` report, `started`; one client; a listener | one poll loop: accept, one client frame, one uhid event; exit on SIGTERM | the kernel's uhid device through the fd; proxies through a unix socket |
| holder ipc (`ipc.rs`, `uhid.rs`) | socket buffers | length-prefixed tagged frames, blocking `send`/`recv`; connect or spawn | both ends of the socket |
| proxy session (`proxy.rs` `run`, `relay_loop`) | socket, real pad fd, last reports, per-session flags | find the pad, hide its nodes, connect, CREATE, NEUTRAL, relay both ways, tear down, retry after 1 s | holder, real pad, overlays, sink, XInput relay |
| XInput relay (`XiRelay`, `xinput.rs`) | socket to the `xi` holder | raise, lower, park, translate, rumble back | the second holder, the sink's rumble |
| overlay bridge (`audiobridge.rs`) | client list with modes, previous buttons, the global pause flag | accept and negotiate, mode switch, end of file, fan-out of edges | overlays, the relay loop's pause |
| pidfile, SIGHUP (`proxy.rs` 116-157, `main.rs` 98-115) | the pidfile, its flock | write, lock, remove, signal | every command that reloads the proxy |
| chord recognizer (`proxy.rs` 159-352) | `ChordState`: held buttons, armed chord, swallowed PS | feed, strip, replace on reload | the input path, notification commands |
| input path (`proxy.rs` 1404-1645) | pause edge, hold-break, gate, pacing clock | drop, rewrite or forward a report | bridge, chords, holder, XInput |
| jack detection (`proxy.rs` 564-587, 1427-1474) | a process-wide flag, debounce counter | sample, debounce, re-route the audio | the sink |
| audio sink (`sink.rs`) | shared link to the pad with a generation, output queue, sequence counter, handles | attach, detach, enqueue, writer thread, forward thread, PipeWire thread | the proxy session, the real pad, PipeWire |
| L2CAP transport (`l2cap.rs`) | two channels, feature cache | accept, probe features, restore, serve | the real pad, the feature relay |
| feature relay (`proxy.rs` 1756-2006) | cache, outstanding request | GET_REQ, SET_REQ | holder, real pad |
| node hiding (`proxy.rs` 474-514) | bind mounts | hide, clean up what a crash left | udev nodes, games |
| configuration (`config.rs`) | the parsed file and override files | load, reload, default on error | everything |
| touchpad mouse (`mouse.rs`) | grab, uinput device, pidfile | toggle | evdev |
| audio, HID discovery, command line | - | tone, volume, sysfs walk, arguments | - |
| overlay shell library (`crates/shell`) | focus order, configuration sections, daemon lifecycle | toggle, save, navigate | overlays, the bridge |

What is hard: the holder asks poll() once and acts three times on the answer,
while a client frame may replace the very fd the answer was about; proxies die
at any point with frames still in their socket; a proxy that comes back may be
seen before its predecessor's end; the kernel adds and stops the device in its
own time; CREATE destroys before it creates; the daemon itself may go and come
back.  Elsewhere: flags shared between threads (pause, generation, jack), fds
used as names, timeouts, and caches that outlive what they describe.

## 2. Plan

Done, in this order: `VirtualPad`, `Holder`, `HolderSession` (the core: the
daemon and its sessions), `Bridge` (the overlays), `Chords` and `InputPath` (the
way of an input report), `PadSession` (the pad's side of a session), `Sink` (the
persistent audio sink) and `Startup` (pidfile, SIGHUP, daemons), each but the
abstract ones with its runs, and with a proofs module (`HolderSession` has two:
`HolderProofs` about the daemon, `SessionProofs` about what the proxies send).
`FeatureServer` is the abstract specification of a part of `PadSession`.  Every
safety property that a passing run checks is proved.  Left:

1. The session-scoped sink of hidraw pads and the forward thread (`sink.rs`).
2. The debouncing of the jack, the node hiding with its crash recovery, the
   focus order and the configuration sections of the shell library.
3. A composition of `PadSession` with `Sink`: one `run` cycle from the open of
   the channels to the detach.

Abstract specifications: `VirtualPad` for the daemon, `FeatureServer` for what the
relay owes the driver of the virtual pad.  What the others promise is short enough
to be stated as a property: at most one proxy (`Exclusive`), one sender with one
numbering (`OneWriter`, `SeqUnified`).

## 3. The modules

### Holder

One pass of `holder::run` (holder.rs:252-317) in stages, kept in `pc`: `Poll`
takes the answer of poll() into `ready`; `Admit`/`Refuse` are the accept
(283-297); `CreateReuse`, `CreateFail`, `CreateNew`, `Destroy`, `Input`,
`StoreNeutral`, `ForwardReply` are the tags of `Holder::frame` (54-154), one
frame per pass; `ClientGone` is end of file (310, 204-213); `EventStart`,
`EventStop`, `EventForward` and `EventNone` are `Holder::uhid_event` (158-201).
`ready` is not refreshed between stages, as in the code.  `HolderDown` is EXIT
at the top of the loop or a crash anywhere, `HolderStart` the next start.

| TLA+ | code |
|---|---|
| `key`, `neutral`, `started` | the fields of `Holder` (33-40) |
| `devPhase = "closed"` | `uhid` is `None`; any other value: the fd is held |
| `devPhase`, `devShape`, `devInput`, `devEvents` | the kernel's side of that fd |
| `client`, `backlog`, `link`, `rx`, `tx` | the served stream, the listen queue, and each connection with its two buffers |

A create payload is a member of `Shapes`; a report is its transport's shape and
whether anything is pressed (`held`) or not (`rest`).  The kernel is modelled
from what the holder relies on: a device is added some time after CREATE2, and
posts START; DESTROY of an added device posts STOP, of one not added nothing;
input reaches a device that was added only; the event ring drops what does not
fit.

### HolderSession

The proxies.  A session is a connection from `ipc::ensure_holder_for` to its
loss: `Connect`, `SendCreate`, `RecvAck`/`RecvOther`, `SendNeutral`, then
`SendInput` and `RelayRecv` until `LinkLost`, `Hangup` or (XInput) `Lower`.
With `Instance = "ds"` it is the session of `proxy::run` (proxy.rs:750-826) and
`relay_loop`; with `"xi"` that of `XiRelay`, which does not wait for an answer.
What a dead proxy sent stays in its socket and is served before its end of
file, as with a unix stream.  The probe connection of `holder::run` (234) and
of `ensure_holder_for` is a session that connects and hangs up.

### VirtualPad

What the daemon promises (holder.rs:1-14) with no loop, sockets or events: a
pad changes only for the proxy being served, with the kernel or with the
daemon, and is never replaced by one of its own shape.  `KeepsPromise` is the
refinement, with `up <- pc # "down"`, the live device as `pad` and the served
connection as `owner`.

### Bridge

The three kinds of threads of `audiobridge.rs` on one list behind a mutex; each
critical section is an action.  `Accept`, `ProbeFails`, `AdmitRead` and
`AdmitMute` are the accept thread (105-178): it takes one connection at a time,
negotiates the mode with it, and lists it; the clone for the reader thread may
fail, which leaves a client nobody reads ("mute").  `ReadLine` and `ReadEnd` are
a reader thread (181-203), which finds its client by fd number.  `Feed` is the
relay thread writing to some or all clients (222-304) and dropping those that
fail or take more than 20 ms.  What the line says is not modelled; that there is
something to say is a choice, and only a `Feed` that drops somebody is a step.
A dropped client's stream is closed in the list but lives on in its reader
thread, so the number may be given to the next connection (`Taken`), which that
reader (`Orphan`) then switches or removes.  `Freed` are streams that close with
their entry, because nobody reads them.

| TLA+ | code |
|---|---|
| `clients`, `paused` | `BridgeState.clients`, `PAUSED` |
| `fd`, `srv` | the `key` and the place in the code of a connection's thread |
| `app`, `wire`, `backlog` | the overlay's end, its unread lines, the listen queue |
| `mine` | ghost: the mode the bridge last took from an overlay |
| `lost` | ghost: the overlays a failed write dropped, and those that were given the number of an `Orphan` |

### Chords

`ChordState` (proxy.rs:159-352) as operators: `Runs` is what `feed` starts,
`Fed` what it remembers, `Strip` what `strip` removes.  A report is the set of
buttons that are down and one of four levels of a trigger, as far apart as the
thresholds 0x10, 0x30 and 0x40 of the code.  The two triggers are treated alike
by the code, and there is one.  The d-pad is a set of directions.

### InputPath

A report's way through `relay_loop` (1404-1645), as one action of four
alternatives: `Suppress` (an overlay holds the input), `HoldBack` (it is gone but
something is still down), `SkipReport` (the pace window of an L2CAP session is
not over) and `Forward`; all of them go through `Recognize`, because the
recognizer sees every report.  `Out` is the gate and its break (1587-1602).
`PauseFlips` and `GateFlips` are the bridge's and the gate's threads,
`ThreeSeconds` and `PaceOver` the clock, `Reload` SIGHUP (1357-1391), `XiLost`
the loss of the XInput holder (2026-2081), `SessionStart` and `SessionEnd` the
edges of a session, with what outlives it (the recognizer, `psSwallow`) and what
does not (both breaks, the gate, the pace window, the tap).

| TLA+ | code |
|---|---|
| `cs`, `psSwallow` | `chords`, `ps_swallow` of `run` |
| `long` | three seconds since `ps_held_since` |
| `paused`, `gate` | `audiobridge::paused()`, the gate thread's flag |
| `pauseBreak`, `gateBreak`, `pace` | `pause_break`, `gate_break`, `last_fwd` |
| `game`, `xiPad` | what the two virtual pads show, by what their holders do on input and end of file |
| `taken`, `spent`, `under`, `alone`, `clean` | ghosts: what a chord took, what ran, what was pressed behind an overlay or the gate, whether PS is alone, and whether the pad was at rest since the last reload or reconnect |

A report whose `send` to the holder fails ends the session; it is modelled as a
`SessionEnd` that did not read it, for what the recognizer makes of it is
followed by a reconnect, after which `clean` starts again.

### PadSession

One pad after the other on the listeners, and what main does with it.
`Connect`, `IntrTimeout` and `IntrAccept` are the accepts of `l2cap::open`
(l2cap.rs:229-259, 389-405); `AskRead` and `AskGivesUp` are `get_feature` (314-344), one
frame read or one timeout (2 s, 321) at a time, with `Rest` the list of reports
still to ask for, DualShock 4 branch included (405-441); `Opened` and
`NotOpened` the rest of it.  In the relay loop, `GetCached`, `GetMiss`,
`FetchRead`, `FetchFails`, `GetHidraw` and `SetReport` are the arms of
`uhid::GET_REQ` and `SET_REQ` (proxy.rs:1756-2006) and `Drain` the control
channel's (2086-2122); `PadGone` is the end of the session.  `frames` and
`asked` are the two directions of the control channel: FIFO, but what the pad
puts there is a choice: the answer, another report, a handshake, nothing.  A write
is the packets it makes: a feature SET over L2CAP is two (1964-1966), of which the
pad makes nothing.  The driver of the virtual pad waits for one answer at a time.

| TLA+ | code |
|---|---|
| `mode` | L2CAP or hidraw, presented over Bluetooth or (L2CAP and `force_bus`) as USB |
| `UsbView` | `usb_view` (738): a DualShock 4 is never presented as USB |
| `cache` | `Session.features` |
| `todo`, `tries`, `reads` | what `open` still asks for, the counters of a GET |
| `ds4` | the negation of the local `ds5` of `open` (404), by which it builds one kind of session or the other (437) |
| `data.mac`, `data.crc` | whose MAC a report names (proxy.rs:1775-1794), and which convention its last four bytes follow (2220-2267) |

### FeatureServer

What `relay_loop` promises the driver of the virtual pad (proxy.rs:1756-2006),
with neither cache, channels nor a real pad: the driver has one request
outstanding; a GET is answered once, by the report it names or by an error, a SET
once, by success or failure and never by a report; the end of a session takes the
request with it.  `ServesDriver` is the refinement: `request` and `answer` of
`PadSession` are its variables, and a step that takes a frame nobody waits for, or
fills the cache, stutters.

### Sink

Main, the writer and the PipeWire thread of the sink that L2CAP sessions share
(sink.rs, with the calls of `run`, proxy.rs:929-1012).  Main: `StartL2cap` is
`ensure_started` (with `Spawn`), `AttachFd` and `AttachGen` the two assignments
of `attach_pad` (478-497), which the writer may read in between; `EndSession`
and `Exit` call `detach_pad`; `StartOther`, `RaiseStop` and `Join` are `Sink::stop`
(588-620).  The writer is one action per stage of its loop: `ReadGen` and `TakeFd`
(1588-1610, the generation before the fd), `Hello`, `Engage` (the jack),
`KeepAlive`, `Flush` (`flush_kernel_outputs`, one queued output per step),
`QuietWindow` and `LoudWindow` (1740-2000).  How a report is written matters: the
HIDP prefix and the report in one buffer are one packet (`Send`: a relayed output,
1304-1309, and the 0x36, 1921-1925); written one after the other they are two on a
socket that keeps packet boundaries (l2cap.rs:186), and neither is a report
(`SendSplit`: the handshake, 1574-1577, the answer to a jack edge, 1680, and the
keep-alive, 1698, which take a number and change nothing at the pad).  `Route` is
the path of this turn of the loop (1672); a relayed output applies it or not, as
the game's own flags say.  The capture thread publishes the
pointer to its main loop and then looks at the stop flag (`CaptureStep`), which
`Sink::stop` does in the other order.

| TLA+ | code |
|---|---|
| `relay` | `OUT_RELAY`, `MODE_RELAY`, `SINK_STOP` hold this sink |
| `intr`, `gen`, `queue` | `Shared.intr`, `Shared.gen`, `Shared.out_q` |
| `wanted`, `mirror` | `state63`, `last_state47` |
| `engaged`, `primed`, `silent` | the locals of `writer_thread` with these meanings |
| `alive`, `pad` | the links the pad keeps open; how many numbered reports were written on each, and the state and path the pad applied |

An output report is the number of its write; the state it asks for is its
parity, so that two outputs may ask for the same.  Memory is sequentially
consistent, although the atomics are Relaxed: generation and fd are ordered by
the mutex of `Shared.intr` between them, but a processor that delays the store of
`quit_ptr` (1012) past the load of the stop flag (1013) is not modelled.

### Startup

Processes, inodes and sockets.  A proxy: `Open`, `Lock`, `WritePid` are
`write_pidfile` (proxy.rs:116-148), three steps with everybody else's between
them; `Load`, `PadComes`, `Connect`, `Spawn`, `PadGoes`, `HolderLost` its cycle;
`TakeReload` and `Reload` the flag SIGHUP sets and what the loop does with it;
`Exit` and `RemovePidfile` the end; `Killed` a SIGKILL or a fatal error anywhere,
which leaves the file behind.  A command (`Truncate`, `WriteText`,
`ResetOverride`, `Edit`, `ReadPid`, `Hup`) writes the override in two steps (open
with truncation, then the text) and signals whoever the file names, who may be
somebody else by then.  A holder daemon (`StartHolder`, `Probe`, `Remove`, `Bind`)
probes the socket, unlinks it, and binds (holder.rs:234-246), again in steps.
A file has an inode; the lock is the inode's, the name is not.

## 4. The runs

| run | instance | shows |
|---|---|---|
| `holder` | one proxy at a time over 2 connections, a USB and a BT shape, 1 refused CREATE, 1 failed probe, 1 restart | `TypeOK`, `KnowsDevice`, `HeldInputMatchesPad`, `ParkedWithoutProxy`, `StoredNeutralFits`, `KeepsPromise` |
| `holder_fair` | fair, two proxies at once, one shape, 1 restart | `DeadHandLetsGo`, `EventuallyServed` |
| `holder_xi` | the XInput instance, 3 connections, 1 restart | `ReusedIsLive` |
| `bridge` | fair, 2 overlays, 3 fd numbers, 2 lines each, 2 failed writes, 1 failed clone | `TypeOK`, `PauseFollowsList`, `HoldMeansPaused`, `Resumed` |
| `input` | 9 reports with PS, a button, a direction and a trigger at every level; a gated session with XInput, and a paced one | `TypeOK`, `NoRefire`, `SoloMeansSolo`, `ClosingPressHidden`, `XiFaithful` |
| `input_live` | fair, 3 reports, the same sessions | `LetsGo` |
| `pad_session` | fair, all four links, 2 tries, 2 reads, 2 fetches, 2 packets in each direction | `TypeOK`, `DriverTakesIt`, `NoPhantom`, `ServesDriver`, `OpenEnds`, `Answered` |
| `sink` | fair, 2 L2CAP sessions and any others, 2 outputs, a queue of 1, numbers modulo 2, 2 quiet windows, 1 jack edge | `TypeOK`, `SeqUnified`, `MirrorTruthful`, `InOrder`, `NewestKept`, `OneWriter`, `StopHeard`, `AttachSeen`, `StopReturns`, `LinkFollowsJack` |
| `startup` | fair, 2 proxies, a command, 2 daemons; 2 pidfiles, 2 starts, 1 kill | `TypeOK`, `Exclusive`, `ReloadOwed`, `Followed`, `HolderComesUp` |
| `sink_effect`, `pid_two`, `reload_lost` | violations | see "Findings" |

Bounds.  *Holder.* Two connections are enough for one dying session and its
successor, three for sessions of the XInput relay that overlap.  `SockCap = 2`
frames per direction lets a dead session leave a CREATE and an input, or an input
and a neutral report, unread (1 in the fair run, where only progress matters);
`EvCap = 2` holds a START and a STOP, or an output in front of either, and makes
the ring overflow.  `MaxLive` is the number of proxies at once; `MaxRefused`,
`MaxDied` and `MaxRestarts` bound the faults of one behaviour.  The safety runs
use symmetry of the connections; the fair runs do not.
*Bridge.* Two overlays let one end, stall or switch while the other holds; three
numbers let a new connection take that of a dropped one or another; two failed
writes are both overlays dropped, or one dropped twice.
*Input.* Every threshold of the code lies between two of the levels, and one
button, one direction and one trigger meet all the cases of the recognizer:
bound and not bound, command and ps:toggle, alone and with PS.  Nothing else is
bounded: behaviours are of any length.
*PadSession.* Two tries and two reads per try are enough for the answer to one
GET to arrive during the next, with a frame of another report before it; two
packets let the channel hold a late answer and an unasked report, or both halves
of a SET.  Pads come and go without bound.
*Sink.* Two L2CAP sessions are an old link and a new one, and sessions of other
pads between them are not bounded; a queue of one drops with the second output,
modulo 2 wraps with the second report, two quiet windows tell "still streaming"
from "idle again".  The order inside a longer queue is left to `InOrderHolds`.
*Startup.* A second pidfile needs the first unlinked while it is open, and two
proxies that are both started again; `pid_two` has a third start.  One of the two
daemons comes from systemd and the other from a proxy.

Fairness.  *Holder.* The loop, the kernel's worker and every proxy are processes
that run: weak fairness of the loop's enabled step, of adding the device, of a
session's next step and of a proxy's retry (proxy.rs:755-823 sleeps a second and
continues), and of the daemon's restart (the systemd unit, or the spawn in
`ensure_holder_for`).  Nobody has to press a button, to die, to talk or to fail.
`EventuallyServed` assumes that proxies stop dying and the game stops talking: an
output in front of the answer ends a session (see "Seen and not checked").
*Bridge.* The accept thread and the readers run; the negotiation waits for a
line, but not for longer than 250 ms (audiobridge.rs:132-135).  No overlay has to
do anything, and no report has to come.
*Input.* A pad that is there keeps reporting its state, which pads of both kinds
do several hundred times a second, and time passes.
*PadSession.* Main's steps run; each read has a timeout, which is a step of its
own.  The pad owes nothing.
*Sink.* Each of the three threads runs.  An idle writer's keep-alive (2 s) comes
again and again (strong fairness, because the loop's stage that may send it is
left and entered for ever).  A pad drops a link whose control channel main has
closed; nothing else makes a pad hang up.
*Startup.* Every process that was started goes on, unless it is killed; nobody
has to start one, to plug a pad in, or to stop anything.

## 5. What is proved

`HolderProofs`, for any sets of connections and shapes and any bounds (from
`HolderAssumption` and `SessionAssumption` only):

- `TypeCorrect`: `Spec => []TypeOK`, by `TypeInv == TypeOK /\ LoopOK`: the
  stage "accept" has a connection to take, and no other stage still has the
  listener among its fds.
- `KnowsCorrect`: `Spec => []KnowsDevice`, that is `LiveMeansKey` and
  `StartedMeansAdded`.  Neither is inductive: an unread STOP would
  reset the key of a live device, and an unread START would be taken for the
  new device's.  `KeyInv` adds that a live device has no STOP on its fd and
  that a device not yet added has nothing on it and `started` is off, which is
  what replacing the fd in CREATE (holder.rs:105-107) is for.
- `PromiseKept`: `Spec => KeepsPromise`, the refinement of `VirtualPad`: every
  step of the loop, the kernel and the sessions is one of its actions or a
  stutter; the CREATE of a new shape needs `LiveMeansKey`.

`SessionProofs`, from the same assumptions, follows what a proxy sends.  The
properties are about the daemon's state; what makes them true is the order of the
frames in sockets whose proxies may be dead, so `SessionInv` ties the two:

- `Placed` (a connection in the queue is open, in it once, and not the served
  one) and `Streams`: a socket holds at most one CREATE, first; a NEUTRAL right
  behind it; every frame of one shape; and this as far as the session is.
- `Unheard`: of a connection that is still queued the daemon has not read the
  CREATE.  This is what "one client at a time" (holder.rs:283-297) gives.
- `Served`: once the CREATE of the served connection was read (`Heard`), a live
  pad is of its shape, and so is everything still in its socket; once its NEUTRAL
  was (`Prepared`), the stored report is the pad's own, or none.
- `Padded`: a pad with something pressed got it in its own shape, and while it has
  a neutral report it has a proxy.

`HeldInputBelongs` (`HeldInputMatchesPad`), `ParkedHolds` (`ParkedWithoutProxy`)
and `StoredFitsPad` (`StoredNeutralFits`) follow.  Neither of the first two is
inductive: each depends on frames that were sent before the pad was there.

- `ReuseFindsPad`: `ReusedIsLive`, if the kernel neither refuses a CREATE nor gives
  up a device (`Calm`, which `holder_xi` assumes as well).  Then a key always has
  a live device (`NoCorpse`).  The assumption cannot be dropped: `MCHolderCorpse.cfg`.

`BridgeProofs`, for any overlays, numbers and bounds (from `BridgeAssumption`):

- `BridgeTypeCorrect` and `PauseCorrect`: types, and the flag that follows the
  list.
- `NamesCorrect`: no two clients share a number, because a number in the list is
  that of an open stream; a lemma of the next one.
- `HoldPauses`: `HoldMeansPaused`, whatever writes fail.  An overlay that is served
  and not `lost` is listed under its number and in the mode it asked for (`Kept`,
  `Own`), and no reader that outlived its own entry has that number (`Apart`): so
  switching and removing by number meet the right client, and nobody else's end,
  late or not, resumes the game.  What `lost` leaves out is false (section 6: the
  wrong overlay removed, and the slow one dropped).

`InputProofs`, for any buttons, directions, bindings, reports, and options (from
`ChordAssumption` and `PathAssumption`):

- `PathTypeCorrect`: types.
- `XiCorrect`: `XiFaithful` (`XiParked` and `XiFollows`), with "a pad whose link is
  down is at rest".
- `OneRunPerPress`: `NoRefire`.  What ran and was not let go of is among what the
  recognizer remembers as pressed (`SpentInv`); for a trigger this is where the
  second threshold is needed.  A recognizer that a reload put in place skips its first
  report, and after that remembers all that is down of what is bound.
- `SoloCorrect`: `SoloMeansSolo`.  A recognizer that holds PS for unpaired is right
  about it, new or not, and once the pad was at rest its flags say exactly whether
  PS is alone (`SoloInv`); a chord cannot fire without counting as
  pairing (`FiredPairs`), since the threshold is the same.
- `ClosingPressCorrect`: `ClosingPressHidden`.  What is down since an overlay or
  the gate was on has a break to wait for, or is a filtered PS (`UnderInv`); the
  toggle of the filter is safe because the chord that toggles it takes PS.

`PadSessionProofs`, for any links, tries, reads and queue (from
`SessionAssumption`):

- `SessionTypeCorrect`: types.
- `RightReportHolds`: `RightReport`, whose half about answers is a part of
  `ServesDriver` in the run.  Every report on the channel starts with its own id
  (`Own`), and what is cached under an id was compared with it before it was kept
  (`Cached`).
- `NoPhantomHolds`: `NoPhantom`.  While it is being asked, a pad that is not a
  DualSense has no serial report on the channel, and `open` has gone past the
  serial report as a DualSense only if it got one (`Probed`).
- `DriverTakesItHolds`: `DriverTakesIt`.  What is on the channel and what is cached
  was made by the pad (`Genuine`: with the CRC the kernel checks, and the real MAC
  only in the serial report, which `Presented` rewrites), so all three ways of a report to
  the driver show one it accepts (`GInv`); and how the pad is presented is settled
  before the driver has an answer (`Silent`).
- `ProbeAdvancesHolds`: `ProbeAdvances`, on which `OpenEnds` rests.  What is left to ask for is one of three
  lists (`Stage`); the way from the DualSense list to the DualShock 4 list counts
  as progress, and there is none back.
- `ImplementsFeatureServer`: `ServesDriver`, step by step; the case of a report
  needs what `RightReportHolds` is proved from.

`SinkProofs`, for any number of sessions, outputs and jack edges, any queue and
any modulus (from `SinkAssumption`):

- `SinkTypeCorrect`: types, in five parts (`Flags`, `Control`, `Queued`,
  `Streamed`, `Padded`), and that the generation stays within the sessions.
- `OneWriterHolds`: `OneWriter`, by `Life`: while sessions come and go, a sink
  that is reachable is not being stopped and one that is not runs no thread.
- `SeqUnifiedHolds`: `SeqUnified`, by `Ends` (an fd in `Shared.intr` is the
  current session's, and the writer's link is not a later one) and `Numbers` (the
  writer's number is the one its link expects; a link it has still to serve
  expects 0).  This is where it matters that a link is only left dead or for good.
- `MirrorHolds`: `MirrorTruthful`, inductive with `Ends`.
- `InOrderHolds`: `InOrder`, by `Ahead` (from the tracked state over the queue to
  the last write, everything is in order, the drop of the oldest included) and
  `Behind` (the pad has nothing newer than the tracked state).
- `NewestKeptHolds`: `NewestKept`, inductive.  It is the other half of a queue that
  drops: dropping the newest output would keep the order and lose the end of a
  rumble.
- `StopHeardHolds`: `StopHeard`, by `Told`: a capture thread that is about to look
  at the stop flag has published its handle, and `Sink::stop` has raised the flag
  before it looks for the handle.
- `AttachSeenHolds`: `AttachSeen`, by `Attached`: the writer knows no generation
  that is still to come, and in a session the shared fd is that session's.  The
  writer may take the new fd under the old generation, but never the reverse.

`StartupProofs`, for any sets of processes and any bounds (from
`StartupAssumption`):

- `StartupTypeCorrect`: types.
- `OneProxyRuns`: `Exclusive`, if no proxy is started while another one shuts
  down (`~Overlap`).  No two proxies hold the lock of one file (`Locks`), a proxy
  between its open and its shutdown has the file that has the name (`Name`), and
  one that shuts down is the only one there (`Alone`).  The assumption cannot be dropped: run `pid_two`.
- `ReloadIsOwed`: `ReloadOwed`, under the same assumption.  The file that has the
  name names the proxy that runs (`Written`), and a proxy that serves, or will
  again without reading the settings, is owed a reload while it differs from the
  override (`Debts`; `Unsunk`: a proxy that has not read its settings has no sink).

Model-checked only: liveness, for which the prover has no rules (fairness and
ENABLED).  Of five of these properties the safety half is proved:

| liveness | what is proved of it |
|---|---|
| `LinkFollowsJack` | of its link half, `AttachSeen`: the writer never rests on another link |
| `StopReturns` | `StopHeard`: nobody waits for a loop that was not told to quit |
| `OpenEnds` | `ProbeAdvances`: no frame and no silence sets the probe back |
| `Answered` | `ServesDriver`: one answer per request, and in kind |
| `Followed` | `ReloadOwed`: a change is never forgotten |
| `DeadHandLetsGo`, `EventuallyServed`, `Resumed`, `LetsGo`, `HolderComesUp` | - |

## 6. Findings

Three disagreements of the code with its documentation that a run shows:

1. *Lost effect* (`sink_effect`): while audio streams, an output is only copied
   into the state that rides the next audio report (sink.rs:1333-1338); if the
   stream goes idle before one leaves, rumble, light or triggers never reach the
   pad, although sink.rs:1274-1277 promises that rumble never waits.
2. *Two proxies* (`pid_two`): a proxy that shuts down unlinks the pidfile by name
   (proxy.rs:152), also one that a successor has opened and locked; a third proxy
   then locks a new file.  proxy.rs:112-115 says the second one exits.
3. *Reload undone* (`reload_lost`): a reload applies the new `xinput` setting and
   forgets it; the next session of the pad decides by the configuration of the
   proxy's start (proxy.rs:832, 1358; deploy/conf/config.toml:6).

Further ones, each with a configuration that finds it (`tlc -config X.cfg` on the
MC module with that prefix):

- *Frozen BT pad* (`MCHolderFrozen.cfg`): a BT-native pad has no neutral report
  (proxy.rs:591-606, 825), so what was pressed stays pressed when its proxy is
  gone; the comments (holder.rs:12-14, proxy.rs:2125-2128) promise otherwise.
- *Neutral report of another transport* (`MCHolderStaleNeutral.cfg`): CREATE
  leaves the stored report of the former pad (holder.rs:105-107); a proxy that
  dies before its NEUTRAL has it relayed to a pad of the other layout.  It does not
  outlive that: once the NEUTRAL was read, `StoredNeutralFits` holds.
- *Reused corpse* (`MCHolderCorpse.cfg`): CREATE of another shape destroys the
  pad and, when creating fails, keeps the key.  If the old device was not added
  yet, no STOP comes to reset it, and its shape is later "reused".
- *Wrong overlay removed* (`MCBridgeNumber.cfg`): an overlay that was dropped for
  a failed write ends later, and its reader removes by number
  (audiobridge.rs:200) a hold overlay that got the number meanwhile.
- *Half-pulled triggers* (`MCInputGateNeutral.cfg`): gate_input writes the centre
  of a stick to the triggers as well (proxy.rs:2164).
- *A chord's button leaks* (`MCInputChordInvisible.cfg`): PS let go before the
  button, which then shows as a fresh press of the game's (proxy.rs:325-329).
- *Idle jack engage* (`MCSinkIdleJack.cfg`): an edge of the jack while nothing
  streams is answered by a prefix and a report in two writes (sink.rs:1680), two
  packets of which neither is a report, where "works while idle too — the pad needs
  the ack even when no audio is streaming" (sink.rs:1673-1675) promises otherwise.
  `LinkFollowsJack` is therefore about streams, whose 0x36 is one buffer.
- *CRC of a feature reply* (`MCPadSessionCrc.cfg`): a Bluetooth feature report
  fetched over hidraw is stamped again with the seed of a SET
  (proxy.rs:2223-2244, used at 1870), where the kernel checks that of a GET.

Seen and not checked, since a run would only restate them: outputs of the running
pad can precede the answer to CREATE, and the proxy drops the session over them
(proxy.rs:818-822); a hold overlay that takes more than 20 ms for a line is
dropped and the game resumes under it (audiobridge.rs:291-301 against 7-9); a
second mode line sent with the first is lost in the negotiation's reader
(136-147 against 17-20); a config.toml that does not parse gives the defaults on
reload and not the previous configuration (config.rs:264-276 against 9-10); a
DualSense whose 0x09 is late is served as a DualShock 4 (l2cap.rs:405-441); the
cache keeps its answer to an id the game has SET since; a feature SET over L2CAP is
acknowledged although the pad gets two packets of it that are no SET
(proxy.rs:1964-1966), and the handshake and the keep-alive reach it in the same
way (sink.rs:1574-1577, 1698); a SET_REPORT of a hidraw
pad is written as an output report; after the first L2CAP session the sink's
handle is a stub, so a session over USB stops the sink only if there was exactly
one (sink.rs:632-637); a re-attach does not replay the tracked state
(sink.rs:1616-1618); rumble of the XInput pad is queued and dropped in a session
without a sink; an override file seen between truncation and text reads as "off"
where xinput.rs:40-41 says it falls back; a proxy that waits for a holder does
not look at SIGTERM (proxy.rs:752-762); on a processor that delays stores, a stop during the start of
the capture thread may find no `quit_ptr` and not be found itself, and the join
waits for ever (sink.rs:1012-1013 against 601-610).

## 7. What is not modelled

Listed with reasons in `PROJECT.json` ("components").  Of the holder: the
payload codecs, log output, and replies to GET/SET requests, which change no
state of it; and the wait of both ends on full socket buffers, since a session
that relays always reads.  Of the bridge: the previous report that decides which
edges there are, and the text of the lines.  Of the input path: sticks and their
dead zones, the touchpad, the re-coding of reports for a pad presented on another
bus, the layout of a DualShock 4, and the notification commands.  Of the pad's
session: binding the listeners, addresses, and the content of the report
descriptors.  Of the sink: the sink of a hidraw pad, which lives as long as its
session, the forward thread, samples and codecs, and the debouncing of the jack's
bit.  Of the processes: a directory where the pidfile cannot be written (the
proxy then runs without a lock), the mounts that hide nodes, and the mouse's
pidfile.  Drawing, tone generation, sysfs discovery and parsing are sequential
and keep no state of interest.
