# Verification of libdvb

libdvb is a Rust interface to Linux DVB adapters. The part with a life of its own is
`src/src/ca/`, the EN 50221 stack that runs a Common Interface (CI) device: transport
connections to conditional-access modules (CAMs), sessions, resources, and the
selection of the programs a CAM shall descramble. The rest translates requests to
`ioctl` calls: satellite equipment, tuning and statistics, demultiplexing, network
interfaces, modulators, and the scan that finds them all. This directory models both
in TLA+, checks the models with TLC on small instances, and proves the most important
properties with TLAPS for every instance.

Contents: [inventory](#inventory), [modules](#modules), [runs](#runs),
[fairness](#fairness), [proofs](#proofs), [findings](#findings),
[not modelled](#what-is-not-modelled), [plan](#plan).

Paths below are relative to the repository (`src/` here).

## Inventory

### The CI stack

| Part | Code | State | Operations | What makes it correct |
|---|---|---|---|---|
| Async driver | `src/ca/driver.rs` | receiver of commands, readiness watch, reset retry time | select loop: readable, tick, command; drains a batch of frames; retries an internal CA_RESET; publishes readiness | the watch says what the gate says whenever the loop waits; no frame is left behind without a wake-up; a failed CA_RESET is retried until one succeeds; after the loop ended nothing is ready |
| Controller (slot manager) | `src/ca/controller.rs` | per slot: status, CAM status, present/ready, four timers, pending RCV; globally: suspension, recovery and status-check times, deferred failure, last tick, the pacer, events | `tick`, `poll_event`, `reset`, program and MMI commands | a module that falls silent is given up; one CA_RESET recovers everything and leaves nothing behind; a slot without a connection is silent; announced data is asked for; the CAM status is what the sessions confirmed |
| CA_PMT pacer | `src/ca/pacer.rs` | queue of changes, readiness gate with its stamp, interval | `push_set`, `push_remove`, `arm_*`, `reset_gate`, `set_interval`, `poll` | changes are a full interval apart; requests coalesce and the last one wins; nobody is starved |
| Session layer | `src/ca/session.rs` | table of sessions, events, the resources | open, close, dispatch of objects, `tick_at`, `drop_slot` | every session is answered; numbers are unique and capped per slot; a number is not confused with its predecessor; an error reaches the controller |
| Transport | `src/ca/transport.rs` | per slot: busy, queue, reassembly buffer, data indicator | `send_apdu`, `send_spdu`, `send_tpdu`, `flush`, `recv_apdu`, `clear_slot` | one command at a time; SPDUs arrive in order, and whole unless an error that dropped a piece of them was swallowed; what is handed over is what was sent, or a loss was reported |
| Conditional Access | `src/ca/resource/conditional_access.rs`, `src/ca/capmt.rs` | desired programs; per session: CA systems, selected programs | `set_program`, `remove_program`, CA_INFO, open, close | every CAM works on exactly the desired programs it can descramble, and its own list agrees with what the host believes |
| Application Information, Date-Time, MMI, Host Control, Resource Manager | `src/ca/resource/` | open sessions, the information and its revision, intervals, collected parts of a dialogue | objects, commands, timers | the information is the latest of a live session; what is shown is what the module composed; the time goes out at its interval and is the time |
| Codecs | `tpdu.rs`, `spdu.rs`, `apdu.rs`, `asn1.rs` in `src/ca/` | none | parse and build | objects arrive one by one, a malformed one is reported and nothing of it taken; answers fit the frames they are cut into |
| CA device | `src/ca/mod.rs`, `sys.rs` | a descriptor | `read`, `write`, CA_RESET, CA_GET_SLOT_INFO | - |

They interact by calls, downwards and never back: driver, controller, session
layer, resources, transport. Results come back as return values and as events
(`CiSession` to `CiController` to the driver's event channel). There are no locks:
the driver's task owns the controller. What makes the stack hard is not
parallelism inside it but the order in which frames, ticks, commands and failures
reach it: every call can meet a module that answers late, wrongly or not at all, a
write that is refused, cut short or fails, and a reset that itself fails, and
each leaves state behind for the next call.

One failure runs through all layers. A write that is cut short is an error
(`src/ca/mod.rs:198`), and `flush_slot` has by then dropped the frame at the head of the
slot's queue (`src/ca/transport.rs:263-269`). Outside the resources the error reaches the
controller, which resets the interface. Met by a send inside a resource's callback
(`on_open`, `on_apdu`) it becomes a `Malformed` event (`resource_result`,
`src/ca/session.rs:727-741`) and nobody resets anything: the callback does not send the
rest of its own object, and the dropped frame may be of any SPDU that was queued before
it. Here this is called a *swallowed short write*. `CiTransport` shows what it does to
SPDUs, `CiSession` to openings and closings, `ConditionalAccess` to CA_PMTs,
`CiController` to the CAM status; each property says what holds in spite of it.

### The rest

| Part | Code | State | Operations | What makes it correct |
|---|---|---|---|---|
| SEC and DiSEqC | `src/fe/sec.rs`, `src/fe/mod.rs` | none kept; the cable keeps its tone and voltage | LNB arithmetic, the sequences of each kind of switch, running one | nothing is sent over the tone or before the voltage has settled; what the cable and the equipment are left with is the transponder asked for, and the frequency returned is the one it arrives at |
| Tuning | `src/fe/tune.rs`, `src/fe/mod.rs` | API version; the kernel keeps a cache of properties and a queue of events | `clear`, `tune`, `get_event`, `drain_events` | a tune after a clear acts on its request and nothing else; a drain leaves no old event |
| Statistics | `src/fe/stats.rs` | none | `get_stats` | levels are percents and rise with the level; the values belong together |
| Demux, DVR | `src/dmx/`, `src/dvr/` | descriptor | open, tap, start, stop, drop | nothing stays open |
| Network interfaces | `src/net/` | the interface it created | add, read the address, remove | an interface goes with its owner and only then |
| Scan and probe | `src/scan.rs`, `sysfs.rs` | none | list, probe | a probe leaves nothing behind and reports how far it got |
| CI TS device | `src/ca/ts.rs` | two descriptors, a vendor | open, bitrate, drop | both ends are of one node, whatever comes and goes |
| Modulator | `src/modulator/` | a descriptor | plan of channels, commands, `write_all` | the card gets a plan with one beginning and one end, and the stream that was written |
| Errors, descriptors | `error.rs`, `fd.rs` | none | non-blocking guard | flags are set back |

These parts share nothing inside the library; they meet in the kernel. Two threads, or
two processes, open the same nodes, nodes appear and disappear, any call may fail half
way, and what an earlier user left in the frontend or on the cable is still there.

The hazards, each at its line and with the properties that watch it, are in
`PROJECT.json`.

## Modules

| Module | Models | Of |
|---|---|---|
| `CaPmtPacer` | the pacer and the calls the controller makes to it | `pacer.rs`, parts of `controller.rs` |
| `ProgramRequests` | what a caller of `set_program`/`remove_program` is promised | abstract; `CaPmtPacer` implements it |
| `TransportSlot` | one slot's transport state, and what each operation does to it | `transport.rs`; used by the next two |
| `CiTransport` | the transport, a link, and modules that answer | `transport.rs`, `tpdu.rs` |
| `CiController` | slots, connections, timers, recovery, CAM status; sessions as far as the manager looks at them | `controller.rs`, `session.rs`, the resources' answers |
| `CiSession` | the table of session numbers, opening and closing from both sides, objects, chains, events | `session.rs`, parts of `mmi.rs` |
| `ConditionalAccess` | registry, selections, CA_INFO, and the list in the module | `conditional_access.rs`, `capmt.rs` |
| `CiDriver` | the select loop: commands, ticks, drains, readiness of the descriptor, CA_RESET retries | `driver.rs` |
| `Wire` | lengths, objects, session headers and frames, to the byte | `asn1.rs`, `apdu.rs`, `spdu.rs`, `tpdu.rs`; no state |
| `ResourceObjects` | the bodies of the resources' objects | `application_info.rs`, `date_time.rs`, `host_control.rs`, `mmi.rs`; no state |
| `Resources` | the five resources besides Conditional Access, and the calls that reach them | `resource/`, parts of `session.rs` |
| `Sec` | LNB and Unicable arithmetic, the sequence of each configuration, the parser of hand-written ones | `sec.rs`; no state |
| `FrontendSec` | running these sequences on a cable | `fe/mod.rs` |
| `TuneRequests`, `SignalLevels` | requests to properties; what drivers report to percents and counters | `tune.rs`, `stats.rs`; no state |
| `Frontend` | clear, tune, events, drain and statistics over a kernel | `fe/mod.rs`, `stats.rs` |
| `Devices` | nodes, descriptors and the threads that use them: scan, probe, network interface, tap, TS pair, modulator | `scan.rs`, `net/`, `dmx/`, `dvr/`, `ca/ts.rs`, `modulator/dd/` |
| `ProgramsProofs` | theorems about `CaPmtPacer`, `ProgramRequests` and `ConditionalAccess` | - |
| `CiTransportProofs`, `CiControllerProofs`, `CiSessionProofs`, `CiDriverProofs`, `FrontendProofs`, `DevicesProofs` | theorems about the module each is named after (`FrontendProofs`: also `FrontendSec`) | - |
| `ResourcesProofs` | theorems about `Resources`, `ResourceObjects` and `Wire` | - |
| `MC...` | the small sets TLC uses | - |

### CaPmtPacer

`queue` is the pacer's `VecDeque` of changes, `gate` its `Gate` with the stamp,
`interval` its interval, `programs` the registry in the Conditional Access
resource, `sinceTick` the controller's `last_tick`. Instants appear only as ages:
the time that has passed since them, negative for the settle hold that lies in the
future, no longer counted above `Cap`, which exceeds every finite interval. A
duration that no `Instant` can be advanced by (`Duration::MAX` is the code's own
"hold everything") is `Overflow`: as an interval it gates every pass, as a settle
it falls back to the tick. `deadline == now` counts as gated, as `now <= deadline`
does in the code, so an interval of zero still costs an instant. `Kept` is what
`VecDeque::retain` leaves: the changes at the places it is given, in their order. Actions are the
calls: `PushSet`, `PushRemove`, `SetInterval`, `ArmApplicationInfo`, `ArmCaInfo`,
`ResetGate`, `Tick` (up to `dispatch_ca_pmt`, including the registry update) and
`TickWithoutDispatch` (a tick that returns earlier). `Elapse` is the passing of
one unit of time.

### TransportSlot and CiTransport

SPDUs are numbered and cut into pieces, one per TPDU, so that a piece in the wrong place,
a lost one or a repeated one is visible. The link may refuse a write (`FlushOk` with
nothing written) or break it (`FlushFails`, after which the slot is `resetOwed` until
`ClearSlot`). `SendSwallowed` is the send of a callback that meets a short write: the head
of the queue is gone, the later pieces of its own SPDU are never queued, no reset is owed
and what is queued goes out. The observer `holed` has the SPDUs that lost a piece so;
`CamGotWhole` lets the module put together a broken SPDU only where one of these is in it.
The module answers each command with one frame (external definitions `CamTakes`,
`Answer...`), a status, a TT_CTC_REPLY, an unexpected tag or the next piece of its own
SPDU, and any frame may be damaged in a way that leaves only the slot byte readable.
`Recv` is `recv_apdu` with its early returns in order. `received` holds what it returned;
`reported` remembers, as an observer, a `Malformed` since the last SPDU.

A loop of `send_spdu` that queues pieces and flushes after each is one action: the
link can accept at most one frame before the slot is busy, so the loop is the same
as queueing all pieces (or, if a write fails, a prefix) and one flush.

### CiController

All stored instants are times of a tick, so timers are kept as the distance from
the last tick: ages up to the timeout that looks at them, remaining times down to
zero. `tick()` is split where it looks at the outside: `Tick` (deferred failure,
suspension, status check due), `Refresh` (all CA_GET_SLOT_INFO answers, then
`apply_slot_info` for all), `Resources` (`session.tick_at`), `Drive` per slot
(`drive_slot`), `Dispatch` (`dispatch_ca_pmt`). The caller holds the controller in
between, so reads and commands need `pc = "Idle"`; properties about what the caller
finds say so. `poll_event` for one frame is one of `ReadStatus`, `ReadCtcReply`,
`ReadError`, or, on an active slot, `OpenSession`, `CloseSession`,
`ApplicationInfo`, `CaInfo`, `OtherObject`; each ends in `Settle`: take the data
indicator, flush a pending RCV, mark what is outstanding, collect events.
`Recover` is `recover_all` with a CA_RESET that succeeds or fails.

Abstractions: an SPDU is one frame here, `CiTransport` does the cutting; one
session each of Application Information and Conditional Access stands for all of
a slot, the other resources send and receive SPDUs that change nothing the manager
looks at; a due pass of the pacer is a choice, `CaPmtPacer` has the clock; the event
queue is left out (draining it changes nothing else). An error of a write in a
resource's answer is passed on, except a short write, which `resource_result`
turns into a `Malformed` event: `Dispatched` has that case (`Shortened`), and the
observer `swallowed` remembers it.

### CiSession

`sessions` is the `Vec<Option<Session>>`, which grows when no number is vacant and
never shrinks; `fragments` the chains the MMI resource keeps under session numbers;
`events` the sessions an application counts from `SessionOpened` and
`SessionClosed`. `toHost` and `toModule` are the SPDUs on their way, in order
(`CiTransport` shows that), `modules` what each module believes (external). A
number is used again at once, so every opening has an identity, `opening`, that
entries and SPDUs carry and no decision of the model looks at. `Handle` is
`dispatch_spdu`, one definition for each outcome of its handlers; an answer of a
resource in `on_open` or `on_apdu` is part of the handler. Both sides may close the
same session at the same time; a module that is closing a session itself may answer
the host's request or ignore it; it may deny a close; its SPDUs may be damaged
(`Lose`). An SPDU carries one object here. A write that fails is one of two things:
met outside the callbacks, or for good, its error reaches the controller before anything
else happens and ends in `RecoverAll`; a short write met by a callback's answer
(`OpenGranted`, `ObjectAnswered`) is swallowed and takes one of the SPDUs queued for the
module with it, `Swallows`, be it the answer, an `opened`, a `closed` or a close request.
Which were written by then is left open. `lost` counts what was lost in either direction;
the agreement at rest and the end of closes are claimed while it is zero, everything else
whatever is lost. A session whose `opened` was dropped is one the host has and the module
never hears of.

### ConditionalAccess

`desired` is the registry, `caids` and `selected` the fields of each session,
`list` what the module keeps for a session according to the CA_PMTs it was sent:
`Told` is the list management of EN 50221 (external): "only" replaces the list,
"add" extends it, "update" changes an entry it has. A program is the version and the
CA systems of its section; `CaPmt` restricts it to the systems of the module, as
`build_ca_pmt` does with CA descriptors. Commands reach the module in the order
they were queued (`CiTransport`); a failing write ends in `Recovered`, the reset by
the controller, at which the module forgets everything. A short write that any
callback swallows may drop a CA_PMT instead: in `Commands` and `CaInfo` the modules of
some sessions (of `Lossy`, a bound) never get theirs, and the observer `missed` has the
programs of a session this happened to, until a later CA_PMT makes up for it (an "only"
for all, an "add" or a withdrawal for its own program, an "update" for none: the module
may not have the entry) or a CA_INFO, a close or a reset does. What becomes of a command
is decided when it is queued; that is sound because commands are taken in order. One that
lost a frame in the middle is one the module does not get.
`CaInfo` is the whole answer to CA_INFO, whose own commands may be dropped behind its
back; `CaInfoCut` is the one that meets the short write itself: the session keeps its CA
systems, nothing counts as selected, and the commands queued before may or may not get
out. `cut` marks a session in that state, until a complete answer to a new CA_INFO, a
close or a reset. `SelectionComplete` is about sessions not cut, `ModuleFollows` about
every program that is not `missed`, on cut sessions too; what the exceptions cost is
among the [findings](#findings).

### CiDriver

The task of `run_loop`, which waits in one of its two `select!`s (`pc = "Select"`)
and otherwise runs alone; the device, tokio's reactor, the owners of handles and the
clock act at any moment. `drain_events` is therefore a step per `poll_event`
(`Forward`, `ReadQuiet`, `ReadEvent`, `ReadFails`), ended by `DrainEmpty` or
`BatchFull`; `Publish` is `publish_ready` and what the caller does next, which `pass`
remembers (a tick, a read, a command, or the tick inside a reset command). `readiness`
is tokio's mark on the `AsyncFd`, `edge` an edge the reactor has not yet looked at,
`fresh` says that the mark is younger than the guard in use, in which case
`clear_ready` leaves it (external). Of the controller the driver sees its gate, its
suspension and its queue of events; each call takes any of its outcomes
(`ControllerTick`, `ResetAndTick`, `Recovers`), as `CiController` describes them. A
recovery met while reading counts from the last tick, so its remaining time is a
choice. The events the driver emits are output only.

### Wire, ResourceObjects and Resources

Here bytes go all the way. What a module writes is built as objects, put into an SPDU
and a frame, perhaps damaged, and then read by the host's own functions: `ParseFrame`,
`ParseSpdu`, `Apdus` (the iterator of `apdu.rs`, which yields one error and ends). A
byte is a number, and the thresholds of the length field, 128 and 256, are the
constants `Half` and `Base`, so that short objects meet all three forms of it. Each
resource's `on_open` and `on_apdu` is a function on a record of what the host keeps
(`Host`), the events and the objects sent; `Handle` is one turn of the loop of
`dispatch_apdu`, `DispatchApdu` all of them, a recursive function over the objects of an
SPDU, and `Commit` makes the result the next state.
`Result` is `resource_result`: a short write loses the answer, keeps what the callback
had changed and reports a `Malformed`. What the code drops with it is the head of the
slot's queue, which may be an earlier frame; the queue is not part of this module, and its
properties are about objects that are sent, whichever of them arrive. `TakeObject` and
`MmiObject` are the chains of the MMI resource with their limit `MaxObjectSize`,
`InfoSession` and `MenuSession` the choice among several Application Information sessions
of a slot, `Tick` is `on_tick` of Date-Time. The clock of the day (`Walls`) is not the
monotonic one and may be set back.

Opening and closing is one step each (`CiSession` has the handshake), objects are not
cut into TPDUs on the way in (`CiTransport` does), on the way out the frames are
computed and looked at by `RepliesReadable`. `speaking` is the dialogue a module is in
the middle of (external); `heard`, `supplied`, `objects` and `gaps` are observers.
`supplied` is every application info in the order it came, with the ones that no longer
count blanked (`None`), so that the latest is the last that is left.

### Sec and FrontendSec

`Sec` has what `setup_sec` computes: `Sequence(setup)` is the commands of a
configuration and the frequency in kHz, with `u32` arithmetic (`% Word` where the code
does not check, an error where it does). `FrontendSec` runs it: `line` is the cable
with its tone, its voltage and whether both have had time to settle, `heard` the last
burst or message with the state of the cable when it was sent. Each command is a step
(`RunCommand`) and may fail (`CommandFails`), which ends the sequence where it is.
`SetupSec` and `RunSecSequence` are the two ways in. `Typed` is what the types of the
arguments say (`IsConfig`, `IsLnb`, `IsSequence`: numbers of the widths the fields have),
and nothing about their values.

### TuneRequests, SignalLevels and Frontend

`Properties` is the sequence of DVBv5 properties a request becomes; parameters that are
only copied are one value, the request's `id`. `PlsState` is the shift register of the
PLS code, as a recursive function. `Frontend` has the kernel's side as external state:
`cache` (the property cache), `old`, `new` and `overflow` (the event queue, first in
first out, split at the last drain), `lockedOn`. `SetProperties` applies a sequence in
order and may fail at each property; `StartDrain`, `DrainRead`, `DrainEnds` and
`DrainBreaks` are `drain_events` with its non-blocking guard. A second thread runs
`get_stats` in its three stages, `ReadStatus`, `GetProperties`, `Fallback`.

### Devices

Every system call is a step; `job[c]` is where thread `c` is in its function and what
its locals hold, `opened` are the descriptors, one record per thread, node and mode.
An open succeeds only where `Allowed` says so (one writer at a time on frontend, ci, sec
and mod) and may fail anyway; any ioctl may fail. `Plug` takes nodes away and brings
them back. The scan reads the directory once (`Scan`) and probes what it found one by
one in any order; `ProbeOpen`, `ProbeInfo`, `NetOpen`, `AddIf`, `ReadMac`, `RemoveIf` are
`probe` and `read_mac` with the drops at the end of each scope, in their order.
`FdIn`, `FdOut`, `PciIds` are `CiTsDevice::open`, `Accept`, `Fail` and `Written` one
turn of the loop of `write_all`. `interfaces` are the network interfaces with the
thread that made them; `stuck`, an observer, those whose NET_REMOVE_IF failed, an error
the drop ignores. At most one of the devices is a modulator: `stream` is what it
took since it was last closed, the pieces of each `Buffer` being told apart by the
buffer and the place they are from. `Configured` remembers, beside the plan the card got,
the regions it was asked for with the flags they came with.

## Runs

All with two workers, in half a minute to four minutes; the two that are expected
to be violated stop in seconds.

| Run | Question | Bounds |
|---|---|---|
| `pacer` | are releases spaced, does the queue coalesce, does the last request win (`LastRequestWins` is `ProgramRequests!Spec`), is a queued change ever starved (`SpacedRelease`, `LastRequestWins`, `QueueDrains`) | two programs and two versions meet in the queue; intervals 0, 1 and `Overflow`, settle 1, `Cap` 2: stamps before, at and after every deadline. A settle of `Overflow` is left to the proofs |
| `transport` | command-response, whole SPDUs in order both ways, losses reported, every SPDU leaves its queue (`CommandResponse`, `CamGotWhole`, `CamGotInOrder`, `LossIsReported`, `SpdusLeave`) | one slot (slots share nothing); SPDUs of the module of up to 3 pieces with a buffer of 2, so that one can overflow, be glued to its predecessor and lose its first, middle or last piece; SPDUs of the host of up to 2, so that one can lose either half and be glued to the next; two SPDUs each way and one control frame queued beside them; any number of writes that fail or are swallowed |
| `transport_hole` | is every SPDU that is handed over complete (`DeliveredWhole`: no) | as `transport` |
| `controller` | a slot that waits has a timer (`TimersRunning`); an unconnected slot is silent, only CREATE_TC is queued while creating, RCV does not pile up, a suspension resets (`SlotsOrderly`); `CamStatusTrue`; silence ends, creation is decided, a suspended link resumes, announced data is asked for (`SilenceEnds`, `ConnectionDecided`, `LinkResumes`, `DataIsAskedFor`) | one slot; all eight slot informations; response timeout 2 and creation timeout 3 with steps of 0 to 2, so that ticks land before, at and after a deadline; at most two frames are queued before the host sends more, up to two CA_PMTs restored |
| `session` | do both sides agree on the sessions, are numbers never confused, do closes end, do the events tell the truth (`SidesAgree`, `NumbersNeverCross`, `TableShared`, `ClosesEnd`, `EventsTellTheTable`) | two slots with one session each, so that a number changes hands within a slot and between them; two openings, at most two SPDUs on their way before anybody starts another, one of them lost, on the link or by a swallowed short write; a module that names a session it does not have does so while it has none |
| `driver` | does the watch tell the gate, is a frame ever stranded, can events keep the tick away, is a failed CA_RESET retried (`WatchTellsGate`, `NoStrandedFrame`, `TicksGoOn`, `ResetsRetried`) | batches of two, so that a batch fills and one does not; two frames, so that one is left behind; tick 1 and retry 2, so that ticks and retries interleave; one event, one command queued at a time |
| `access` | do sessions work on the desired programs and do the modules' lists follow (`SelectionComplete`, `ModuleFollows`) | two programs, two sessions, two CA systems; a section may change its version, its systems or both; the CA_PMTs of one of the sessions may be dropped, any number of them |
| `resources` | are objects read as they were written, alone, together, cut short or in damaged frames (`ApdusArrive`); whose information is shown and whose menu entered (`InfoFromLatest`); is the time told when it should be, and right (`TimeIsTold`); is a dialogue shown as composed (`ObjectsWhole`); do answers fit their frames (`RepliesReadable`) | `Base` 8, `Half` 4, so that bodies of up to a dozen bytes take all three forms of the length; frames of 44 bytes, with an answer that fills one exactly and one byte more; `MaxObjectSize` 12, which one dialogue exceeds; two slots, two sessions, three seconds, three introductions. A behaviour has one of four sets of modules (`Interests`), for resources share nothing but the table; one fault at a time; time passes only where it is told; a user answers between dialogues |
| `frontend_sec` | is the cable silent while it is talked over, and does it end up right (`SilentWhileTalking`, `LineServesTune`) | every kind of configuration with ports, slots and positions at both ends of their ranges and beyond, frequencies on both sides of the band edge and at the limits of a `u32`; `Word` is 2^30, a width TLC's integers can multiply in |
| `frontend` | does a drain leave nothing (`DrainLeavesNoTrace`), is a tune what was asked (`TunedExactly`), are levels right (`RelativeLevels`) | an event queue of two, so that it overflows before, during and after a drain; the two API versions on both sides of the change; two requests of different kinds, one with a root PLS code that the register (5 bits, tap 2) reaches last; levels on both sides of every clamp; `DbUnit` 100; one FE_SET_PROPERTY after a clear |
| `fe_stats` | do all values of a `FeStats` belong to one point in time (`StatsConsistent`: no) | as `frontend` |
| `devices` | is anything left behind (`NothingLeft`), does a report tell how far the probe got (`ReportTells`), is a pair of one node (`PairMatches`), are plan and stream whole (`ModulatorServed`) | two threads, interchangeable (symmetry; no liveness is checked here); two devices: one with all nodes and a `ci` that comes and goes over a `sec` of the other vendor, one whose driver does not survive NET_ADD_IF and whose demux comes and goes; room for two interfaces; plans of 0, 1, 4 and 5 regions, and one of 3 that comes with the flags in the wrong places; PIDs 8192 and 8193; three buffers, an empty one between two |

Why the bounds are enough to be interesting: each counts the actors that must
meet. Coalescing, overtaking and wiping another program out all need two programs;
confusing a session with its successor needs two openings; a hole in an SPDU needs three
pieces; a timer that restarts needs two ticks before its limit; two scans that could take
each other's interface need two threads and room for both. `MaxQueue`, `MaxSent`,
`MaxAnswered`, `MaxControl` bound what a caller or a module does, not what the code
does with it, except that the code has no limit of its own on its queues.

Type correctness is not among the properties of these runs: it is proved, for every
value of the constants, for the six stateful modules of the CI stack with a proof module.

The definitions marked "Seeded fault" are mutated forms of the definition below
them, one or more per property; `PROJECT.json` pairs them with the property each
breaks. They are not part of any specification.

Deadlock is checked in every run; none can stop, for time or a caller can always
take a step.

## Fairness

* `CaPmtPacer`: weak fairness of `Elapse` and `Tick`. The driver's interval timer
  ticks for as long as the loop lives. Callers, modules and failures owe nothing:
  `QueueDrains` excuses a program re-requested for ever, a gate that keeps closing
  and an interval nothing is released in.
* `CiTransport`: weak fairness of a flush that writes (the loop flushes after every
  read and on every tick, and a descriptor is eventually writable), of the module's
  answer, of the read and of the reset owed after a failed write. Without the answer
  the transport itself may wait for ever: that a silent module is given up is the
  controller's business.
* `CiDriver`: weak fairness of the task (the runtime polls it), of the reactor and of
  time. Frames and commands come or not; commands without end excuse the loop, which
  takes them first on purpose, and so does a link no CA_RESET brings back.
* `CiSession`: weak fairness of the host reading what arrived and of each module
  taking what it was sent. A module need not agree to a close: `ClosesEnd` is content
  with a denial, and with a lost SPDU (damaged, or dropped by a swallowed short write), for
  the host does not repeat a request.
* `Resources`, `FrontendSec`, `Frontend` and `Devices` have none and check safety only:
  their callers may stop after any step.
* `CiController`: strong fairness of a tick that advances the clock, because the
  tick is not enabled while another runs; weak fairness of `TickDeferred` and of the
  steps of a tick in progress, which run without waiting for anybody. Modules may be
  silent for ever, writes refused for ever, and CA_RESET fail every time, hence the
  shape of `SilenceEnds` and `LinkResumes`.

## Proofs

Checked by `tlapm`, all to the last leaf; assumptions are only the named `ASSUME`s of
the modules: finite intervals below `Cap`, `Overflow` not a number, positive bounds,
markers such as `None` distinct from the values they stand beside, arguments of the
types the signatures give them (`Typed` of the cable), parameters of a tune only with the
kind that has them (`RequestAssumption`), a shift register of maximal length
(`RegisterAssumption`: it goes through every code but 0, as the program's 18 bits with the
tap at 7 do and the 5 bits with the tap at 2 of the run), and, for the modulator, buffers
whose pieces can be told apart (`ModAssumption`; regions come with any flags). `Sizes`,
which `Wire` assumes, is a byte base above both thresholds of the length field, a frame
limit that two bytes can hold, and an error that is none of the values that can be read.
`Resources` assumes of what modules write (`InputsAssumption`, `DialoguesAssumption`) and
of what users answer (`AnswersAssumption`) that a length field can tell how long it is,
and that the parts of a dialogue come from `Speaks` alone, of sessions and slots that they
are numbers of the width they have (`SlotsAssumption`), and of the host's clock a day that
the two bytes of a Modified Julian Date can tell, which is so until April 2038
(`WallsAssumption`).

* **Pacer.** `StampIsLatestHolds`: the stamp of an open gate is not older than the
  last release or handshake. It is inductive together with the types of the clocks
  and needs nothing about the queue. `ReleasesAreSpaced` follows: a release needs
  `Ready` and a stamp more than an interval old, and both observers are at least
  as old as the stamp.
  `PacerServesRequests`: the pacer implements `ProgramRequests`, and with it what
  `set_program` and `remove_program` promise. The invariant is `QueueCoalesces`, a program
  has at most a remove and, behind it, a select in the queue. From it, a program's first
  queued change is its withdrawal or all there is of it, so that a release is an
  `ApplyWithdrawal` or an `ApplySelection` of that program and changes nothing of what is
  wanted of any; and a request takes the place of all queued ones but a remove before a
  select, so that it is what is wanted from then on. Every other step stutters (`FourSteps`).
  `KeptPicks` is what makes this provable: `Kept` is an injection in order onto the places
  it keeps, a fact about the cardinality of initial segments of them.
* **Transport.** `TransportTypes`, `OneCommand`, `WireIntact`. That the module only
  ever completes whole SPDUs, but for those with a hole, is not inductive as it stands:
  it depends on what is still queued. The invariant `ChainIntact` is about what the
  module has collected followed by what is queued. `Linked`: every piece there has its
  neighbours of the same SPDU beside it, unless that SPDU is `holed`. `Begun`: what is
  collected is the beginning of one SPDU, or has a piece of a holed one. A dropped head
  and a tail that was never queued leave gaps exactly beside pieces of SPDUs that become
  holed, so that a swallowed short write keeps both. They are broken only between a write
  that fails and the reset, when the slot is `resetOwed` and nothing more is written. The
  lemmas about `Linked` (writing the head, dropping it, appending fragments or a part of
  them, appending a control frame) carry the induction. `CompletedInOrder` does without
  `holed`: `OrderIntact` says that what is queued is later than the last SPDU the module
  completed and stands in the order it was sent, which holes do not disturb.
  The other way, `LossReported` needs `StreamIntact`: until a loss is reported, the
  reassembly buffer and the frame on its way are together the pieces the module has sent
  of its SPDU so far; `OneCommand` is why there is at most one such frame.
* **Bytes.** `ObjectsReadBack`: the parser reads an object as it was built whatever
  follows it, and refuses every proper prefix of one, for every base of bytes, every
  threshold and all three forms of the length. `FramesReadBack`: the body of a module's
  frame is read back, whatever the slot. `FramesFit`: the frames an object is cut into
  fit the link, continue each other and reach the end. They rest on four lemmas about
  joined byte strings, on `LengthRead` and `LengthCut` for `asn1.rs`, and on
  `CutInPieces`, a division with remainder.
  `WholeAreRead` is what the iterator of `apdu.rs` makes of the bytes of any objects,
  cut anywhere: the ones that are whole, in order, and one error if something is left.
  `Apdus` is a function defined from the end of the data down; that it exists is a
  well-founded induction of its own (`FromAbove`), and what it returns an induction down
  from the first object that is not whole (`Downwards`, over the places `StandsAt` gives).
  Both are stated about one function on an interval of numbers, which is what the prover
  can do.
* **Resources.** `ApdusAlwaysArrive`: `WhatIsRead` takes a module's objects through the
  frame, the session header and the iterator; `ArriveInv` adds who is on which session and
  what of a dialogue is left, so that everything that is written fits a length field.
  `RepliesAlwaysReadable`, `TimeIsAlwaysTold`: `ToldInv` says that all that is sent is an
  object with a length to tell, on an open session (`OutTold`), and of a clock that its
  interval runs from the first tick after the last telling (`ClockAgrees`: the anchor the
  resource keeps is that tick, and no earlier than the telling). From the first the frames
  of an answer are joined again and read (`PiecesJoin`, `AnswerReadable`); from the second
  no telling comes sooner than asked. `TimeReadsBack` undoes the days, the divisions by 60
  and the decimal digits.
  `InfoIsAlwaysTheLatest`: revisions grow with every info, so `InfoInv` relates each place
  of the history that still counts to the session it came from: its revision is larger than
  that of every earlier place's session, and the last place of a session is the info that
  is kept (`Agree`). Blanking a closed session, or one that introduces itself again,
  leaves that true; the largest revision is then the last place (`LatestIsFound`).
  `DialoguesAreWhole`: `DialogueReadBack` takes a menu or list, cut anywhere, through the
  texts of `parse_menu` and the chains they are in (`WholeTextsAreRead`, `TextsIterate`, and
  `TextChain` for one text of two parts). How it got there is `ShowInv`: what is collected
  of a dialogue and what its module has left to say are together the dialogue, unless a loss
  was reported, and nothing is collected where no dialogue is under way. Without the second
  part the property is not inductive: a chain left behind would stand before the next
  dialogue (`Underway`). Every step but a part of a dialogue leaves what is collected alone
  (`DispatchKeeps`) or takes its session along.
  All of these need to know what any number of objects in one SPDU can do, with a short write
  at any of them. `HandlesStep` says what one can: each callback reports, replies, restarts a
  clock or takes an info (`Steps`), and a short write takes back the reply alone;
  `DispatchAfter` and `DispatchInfos` carry an invariant of the record `Host` along the
  function `DispatchApdu`.
* **Controller.** `ControllerTypes`, `UnconnectedIsSilent`, `CreatingIsExclusive`,
  `PollsDoNotPileUp`, `SuspensionResets` (together `SlotsStayOrderly`),
  `CamStatusFollows`, for any number of slots and any timeouts. None of them is inductive
  alone: whether a frame may be queued depends on the status, the status on what a tick in
  progress has still to look at. The invariant is a predicate `Good` of one slot, for
  every slot (a resting slot is quiescent, nothing but CREATE_TC is queued while creating,
  polls are never behind, no sessions means no CAM status, an empty slot is `Absent`),
  with `SuspendedIsReset` and the fact that a suspension stops a tick in progress. One
  lemma per action shows that it leaves the slots it touches `Good` and the others alone.
  Several slots are covered by these proofs, not by a run. `TimersKeepRunning`: a slot
  that waits has a clock. That is false in the middle of a tick, where a resource has
  queued an answer and the slot's turn in `Drive` is still to come, so `TimersHold` claims
  it for an active slot only once `Drive` has passed it, and for a connection in the
  making always; `mark_outstanding` (`MarkedTimed`) restores it whatever was left on the
  slot.
* **Driver.** `DriverTypes`, `WatchIsTrue`, `FramesAreAnnounced`. The watch is
  inductive as it stands, with the end of the loop beside it. That no frame is stranded
  is not: whether readiness may be cleared is decided when the buffer is found empty,
  a step before it is cleared. `Announced` adds that a frame that arrives between the
  two brings an edge later than the guard.
* **Sessions.** `SessionTypes`, `TableStaysBounded`, `EventsAreTrue`. That the table
  never outgrows all limits together is a counting argument: if it grows, every
  number is in use, each slot ranks its own numbers below its limit
  (`SlotsShareTheTable`), and the pairs of slot and rank are as many as the limits
  allow. An allocation, a release and a change of state each have a lemma about the
  table (`GrantTidy`, `FreedTidy`, `SetStateTidy`).
  `NumbersStayApart` and `BothSidesAgree` need an invariant over everything on its way,
  `Fit`, a predicate of one slot: what is on its way to the host and to the module, what
  the module believes and the slot's entries in the table. `Safe` holds whatever is lost:
  a session the module has not heard of yet is announced to it once and has nothing else
  on its way, one it works with is in the table and nothing on its way ends it, what it
  said of a session arrives while the session exists, a response finds the session it
  is about closing, what the host said of an earlier session arrives before the number
  is announced again, and there is one close request at a time. Since an announcement may
  be dropped, what names a session the host has but the module does not may also be of one
  it never hears of: `Unheard`, nothing of the module names that number and it believes in
  no session of it. `Whole` holds while
  nothing is lost: a session is announced, joined or about to end, and every close is
  on its way, answered or overtaken. `Old` keeps openings below the counter, so that the
  next is new. Each step of one slot has a lemma (`FitRead`, `FitGrant`, ...), one of them for
  an SPDU that is dropped from anywhere in a queue (`FitDrop`); the other
  slots keep theirs because a number belongs to one slot.
* **Conditional Access.** `AccessTypes`, `NoInternalError`, `SessionsComplete`,
  `ModulesFollow`, from one invariant: the types, that only a live session has CA systems,
  `SelectionComplete`, and of each session `Faithful`: what is selected matches its CA systems,
  and the module's list follows the selection but for the programs `missed`. The latter
  cannot do without the former (a program that is withdrawn when no program matches any
  more is found by the old CA systems). The central lemmas are `SendKept` and `DropKept`:
  on a list that follows but for what is missed, the management code `set_program` chooses
  and a withdrawal change exactly one entry, and one that does not arrive adds exactly that
  program to what is missed. `RestoredIs` says what the answer to CA_INFO leaves of the
  module's list, whichever of its commands arrive; `OneSessionIInv` that a step of one
  session leaves the others alone.

* **Frontend.** `DrainIsComplete`: a drain that runs to its end leaves none of the
  events it found, for an event queue of any size and any number of arrivals meanwhile.
  The invariant is a count: the events still to be taken, and the report of an overflow
  that comes before the next of them, never exceed the reads that are left. One read
  more than the queue holds is exactly enough, since an arrival at a full queue sets the
  overflow by dropping one of the events counted.
  `LevelsAreRelative`: percent are percent and rise with the decibels, for any unit, any
  full scale and every delivery system with full marks: two divisions, each monotone.
  `TunesAsAsked`: after a clear the cache holds the defaults until the next
  FE_SET_PROPERTY (`TunedInv`), so a tune acts on those and on its own sequence. `Layout`
  gives the sequence by places, `EachOnce` that no name is at two of them, so that none
  overwrites another and what is not named keeps its default (`CachedAt`, `CachedElse`).
  The search for a root PLS code finds the least place that matches (`RootFound`), which
  exists because the natural numbers are well-founded (`LeastOf`).
  `NobodyTalksOverTheTone` and `CableServes`: the invariant `CableInv` is about the
  commands that are left (`Ready`): what the cable will carry (`Stands`) and whether it
  will have settled (`Settles`) when the turn of a burst or a message comes, and at the
  end. It claims nothing of what the cable carries now: a sequence that is not refused
  sets everything itself before it talks (`AcceptedPlan`, `ReadyFirst`), so that an
  earlier one may have broken off anywhere. `MessageSelects` takes the bytes of each
  message apart again, for any width `Word` of the arithmetic: no field spills into its
  neighbour.
* **Devices.** `NothingIsLeft`, `ReportsTell`, `PairsMatch`, from `Invariant`, for any
  number of threads, devices and interfaces, with any node coming and going. `Fine` says
  of one thread which nodes it has open, and in which mode, given what it is doing; it
  speaks of that thread alone, so that a step of another cannot disturb it, and the
  lemmas `GoesFine`, `OpensFine` and `ClosesFine` reduce an action to the job it goes on
  to. What is shared is the interfaces: one that was not given up is the one its thread
  has in hand, and no two have the same number, which is why dropping one's own never
  takes another's. That a report is not repeated rests on the frontends still to be
  probed not being among those reported.
  `ModulatorIsServed`, for any buffers and plans, from `ModHolds`: one thread at a time
  feeds the modulator, since it has the one modulator node open for writing, and what the
  modulator took is told by how far that thread has got. Between two writes the stream is
  of buffers before the next one (`Before`); during one, it also ends in as much of the
  buffer as is no longer in hand (`During`: what the modulator has and what is left are
  together the buffer). A write that fails leaves the beginning of a buffer there, and the
  next one goes on behind it.

Only model-checked, because they are beyond what the prover can do:

* liveness (`QueueDrains`, `SpdusLeave`, `ClosesEnd`, `SilenceEnds`, ...);
* that the register of 18 bits is of maximal length: an assumption of `TunesAsAsked`,
  which TLC evaluates for the register of the run.

## Findings

Disagreements between the code and what it says of itself, each shown by a run:

* `transport_hole`: the reassembly buffer survives a damaged frame, and after an
  overflow collection starts in the middle of an SPDU, so that an SPDU with a
  missing piece is handed over as `TransportRecv::Spdu`, "A complete reassembled
  SPDU" (`src/ca/transport.rs:49`). `LossIsReported` holds: a `Malformed` was returned
  before.
* `fe_stats`: `get_stats` reads the status, the properties and up to four DVBv3 values
  one after another, so that a tune in between leaves a lock beside the delivery system
  and the levels of another transponder, where `src/fe/mod.rs:379-380` says that "all
  values in the returned [`FeStats`] belong to the same point in time".

Met while modelling, kept as notes without a run:

* A re-selected program goes to the back of the pacer's queue (`src/ca/pacer.rs:82`),
  where `set_program` says it is "replaced in place" (`src/ca/controller.rs:352-353`).
* A short write in a resource's callback is taken for a malformed object and nobody resets
  the slot (`src/ca/session.rs:727-741`), where the transport says of such an error that
  "the slot manager is expected to reset the slot in that case"
  (`src/ca/transport.rs:228-230`). The dropped frame may be of any SPDU in the slot's queue.
  The module may complete an SPDU with a missing piece; a session may exist that only the
  host knows, or stay `Closing`; a program may stay selected, or not, on one side only; and
  when it is CA_INFO that is answered, the session is confirmed and the CAM status never
  learns of it. `CamGotWhole`, `SidesAgree`, `ClosesEnd`, `ModuleFollows` and
  `CamStatusTrue` are stated with these exceptions (`holed`, `lost`, `missed`, `swallowed`).
* A slot failed for its interface stays `Failed`, without a retry, when a usable module
  appears between two status checks (`src/ca/controller.rs:801`).
* `poll_event` reads frames without events in a loop of its own
  (`src/ca/controller.rs:498`), so a module that keeps sending them keeps ticks and
  commands away; the driver's limit of 64 counts events. `TicksGoOn` holds: frames with
  events do not.
* After a restore that was cut short, a program the module may still hold is removed
  without a NOT_SELECTED (`src/ca/resource/conditional_access.rs:184`).
* `setup_channels_cmd` only adds flags, so a FIRST or LAST the caller set stays, where it
  says "The builder owns the region flags" (`src/modulator/dd/mod.rs:109-128`), so that a
  region in the middle may open or close the plan. `PlanFramed` allows that to such regions
  and to no others.
* A probe reports a frontend as busy for whatever reason the read-write open failed
  (`src/scan.rs:98`).

## What is not modelled

* The parsing of program map sections and the layout of a CA_PMT (`capmt.rs`), the name of
  a text's character table: pure functions without state, which the repository's tests
  cover example by example. `ConditionalAccess` has what they decide.
* The byte forms of the SPDUs that open and close sessions and of the TPDUs that create
  and delete connections: records in `CiSession`, `CiTransport` and `CiController`.
* Bit rates, clock dividers and the layout of commands of the modulator: pure arithmetic on
  integers of up to 64 bits, beyond TLC's 32.
* Calls that pass their arguments on to one `ioctl`: buffer sizes, filters made by the
  caller, `set_params` and `set_properties` of the caller's own making.
* The numbers of properties, flags and requests (`sys.rs`): they are names here.
* System calls: their results are choices of the actions that make them.
* Two threads in one `write_all` of a shared handle; a Unicable cable shared by several
  receivers, where one may hold the bus at 18 V for as long as its sequence takes, or
  longer if the sequence fails: the code has no arbitration to model.
* One module that always times out takes the connections of the healthy ones with it at
  every retry: a CA_RESET is for the whole interface, so this is by design of the device.
* Logging, `Display` texts, construction of configurations.
* In `CiController`, its event queue and the order of events in it (draining it changes
  nothing else), session numbers, the limit of sessions per slot and the closing
  handshake: `CiSession` has them. There, what objects mean, several objects in one SPDU,
  and a user of `CiSession` without a controller who goes on after an error.

## Plan

In order of importance; 1 to 9 are modelled and checked, with proofs as stated.

1. `CaPmtPacer`, `ProgramRequests`: safety and the refinement proved.
2. `TransportSlot`, `CiTransport`: safety proved, both ways.
3. `CiController`: safety proved. Next: an abstract connection life cycle it implements (a
  slot is connected only after CREATE_TC was answered; a failure of one is a failure of
  all), as a refinement.
4. `ConditionalAccess`: safety proved.
5. `CiSession`: safety proved.
6. `CiDriver`: safety proved. Next: that `CiController` takes only the steps
   `ControllerTick`, `ResetAndTick` and `Recovers` allow, as a refinement.
7. `Wire`, `ResourceObjects`, `Resources`: checked; all of it proved, down to the bytes.
8. `Sec`, `FrontendSec`, `TuneRequests`, `SignalLevels`, `Frontend`: checked; the drain,
   the tune, the levels and everything about the cable proved.
9. `Devices`: checked; probes, pairs and the modulator proved.
10. Event order of the controller, and its composition with `CaPmtPacer`.
