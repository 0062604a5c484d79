# Verification of libobsbot

libobsbot controls OBSBOT cameras over USB Video Class: a Rust core
(`src/crates/libobsbot-core`), a C ABI over it (`src/crates/libobsbot-ffi`) and
a few examples. This directory holds TLA+ modules translated from that source,
TLC runs that check them on small instances, and TLAPS proofs for every value
of the constants. In the following, paths are relative to
`src/crates/libobsbot-core/src/`.

## 1. The system: inventory

| component | source | state | operations |
|---|---|---|---|
| Hot-plug watcher | `discovery.rs` (`Devices`, `hotplug_loop`, `device_key`, `linux::enumerate`) | stop flag, join handle, the maps `known` and `current`, the walk over `/sys/class/video4linux` | `Devices::new`, one enumeration every 2 s, `DeviceAdded` / `DeviceRemoved`, `Drop` |
| Status poller | `device.rs` (`Device`, `poll_loop`, `sample_status`), `types.rs` (`Cadence`) | `poller_stop`, `cadence_ms`, the snapshot, the sleep in progress, the shared `Arc<dyn Transport>` | `Device::new`, `set_status_cadence`, one sample per period, `Drop` |
| RPC channel | `device.rs` (`learn_mac`, `rpc_request_then_reply`, `set_face_focus`), `devices/meet2.rs` | one request queue and one reply buffer inside the camera | firmware, serial and MAC queries, face focus |
| Event channel | the crossbeam channel of `discovery.rs` and everyone who holds an end of it | queue, senders, receivers | `events`, `recv`, `recv_timeout`, sends of both thread kinds, drops |
| Opening | `discovery.rs` (`list`, `by_serial`, `open`), `transport/uvcvideo.rs::open_for`, `transport/usb.rs`, `learn_mac` | none of its own; a `DeviceInfo` outlives the enumeration it comes from | `list`, `by_serial`, `open` |
| Controls | `device.rs` setters and getters, `transport/usb.rs`, `transport/uvcvideo.rs` | the camera's controls, and the automatisms that move some of them | each setter and getter, in one or two transfers |
| Values | the setters and getters of `device.rs`, the tables of `libobsbot-ffi/src/lib.rs`, `cid_for` and `payload_to_i32` of `transport/uvcvideo.rs`, `types.rs` | none: pure functions | C integer to enumeration to bytes to kernel number, and back |
| Frames | `devices/meet2.rs` (`build_rpc_frame`, `crc16_usb`, `parse_rpc_reply`, the decoders) | none: pure functions | four requests, three replies |
| C ABI | `libobsbot-ffi/src/lib.rs` | the two handles, the caller's buffers and structures | one function per control and direction, texts, status, `poll_event`, opening and closing |
| macOS transport | `transport/macos.rs` | IOKit references, the device interface behind a mutex | `enumerate`, `open`, requests, `Drop` |

How they interact. `Devices::new` makes the event channel and starts the
watcher, which holds a sender. `Devices::open` opens a transport, asks the
camera for its MAC over the RPC channel and makes a `Device`, whose poller
holds another sender and shares the transport. Subscribers hold clones of the
receiver. `Devices` and each `Device` stop and join their own thread when they
are dropped, in any order; a `Device` may outlive `Devices`.

What is hard here: three kinds of threads around two stop flags and one channel
whose ends come and go; an enumeration that is a walk and not a snapshot; keys
and serials that identify a camera only as well as the host lets them; a camera
that answers later, through a buffer that it shares between all callers; periods
that are read at one moment and slept for seconds. The list, line by line, is
under `hazards` in `PROJECT.json`.

What makes each part correct. Watcher: what is announced follows what is there,
alternating per key, and nothing after `Drop`. Poller: a status is of one recent
sample, a cadence is taken up in bounded time, the transport is released. RPC: a
success is the answer to one's own command. Channel: each event once, in order,
and an end that is told when and only when it has come. Controls: a call that
succeeds undisturbed has done, or seen, all of it at one moment. Opening: what is at
the address one asked for, or none. Values and the C ABI: what is asked for is what
the camera holds, what is read is what it holds, and an error leaves everything
alone. Frames: the camera understands them, and nothing else is taken for an answer. macOS:
every reference is released once, on every return.

## 2. Modules

| module | models | against |
|---|---|---|
| `Presence` | what the watcher promises a subscriber: announcements per key | abstract specification |
| `Hotplug` | the watcher step by step, the bus it walks, `Drop` | refines `Presence` |
| `StatusPoller` | one `Device`, its poller, the controls it samples | |
| `RpcChannel` | callers of the RPC channel and the camera's end of it | |
| `EventChannel` | composes registry, watcher, pollers and subscribers over the one channel | |
| `Controls` | setters and getters as sequences of transfers, and the camera that obeys or ignores them | |
| `OpenPath` | `list` and `open` step by step, on a bus that changes | |
| `ControlValues` | what a value is as a C argument, an enumeration, bytes and a kernel number, and back | |
| `Meet2Frame` | the frames of the RPC channel byte by byte, with both checksums | |
| `Ffi` | composes `ControlValues` and `Meet2Frame`: the C interface down to the camera's registers | |
| `Macos` | the IOKit references of threads that list, open, use and drop | |
| `MC...` | the values of constants that a `.cfg` cannot write | |
| `...Proofs` | theorems about the module of that name | |

### Presence and Hotplug

`Hotplug` has the two maps of `hotplug_loop` as functions from the keys that
`device_key` can return to serials. `ByAddress` chooses between the key of Linux
(bus and device number) and that of the other hosts (vendor, product, serial).
An enumeration is one step per video node (`VisitNode`), because cameras come
and go while it runs; `or_insert` keeps the first node of a device. A read may
fail in the three ways the code tells apart: the directory (`ReadDirFails`: an
empty list, not an error), the attributes of a node (`NodeFails`: the node is
passed over), the serial alone (`VisitNode`, third disjunct: the serial is "").
Then one step per event sent (`SendAdded`, `SendRemoved`), `known = current`
(`RemovedDone`) and the sleep in chunks with a look at the flag before each.
`Drop` raises the flag and joins (`DropBegin`, `DropReturn`). The order in which
a `HashMap` is iterated is a free choice. The bus is external (`Plug`,
`Unplug`): what an address holds changes at any moment. Two history variables let the
properties say that an event was justified: `sighted`, what each address held at some
moment of the walk in progress; and `readings`, what could be read as the serial of each
key since the walk began that announced it. A subscriber sees no keys and pairs events by
their serials. A removal need not name the serial of its addition: a
read of the serial may fail once (`unwrap_or_default`), and an address may pass to another
camera between two walks, and then `known = current` replaces the serial that was announced.
What the code does keep to is `PairsNameWhoWasThere`: both serials are `readings` of that key.

All reads of one node (`canonicalize` and the five attributes) are one step. A device that is
replaced between two of these reads, and so leaves an entry made of two devices, is not modelled.

The promise, `Presence`, is that events about one key alternate, beginning with
an addition. `Hotplug` implements it: `ImplementsPresence` with the refinement
mapping `Announced`, read off `pc`, `known`, `current` and `pending`.

### StatusPoller

One step per read of `sample_status`, with controls changing and the camera
going in between (pan and tilt are one read here; on Linux they are two ioctls); the send; the load of the cadence; one step per tick slept.
`holders` says who has the `Arc` of the transport, hence the device file. The
history variables say what each control held during this sample (`held`),
whether `stop` found a sample in progress (`inProgress`), what was sent since,
and how many ticks were slept since the cadence was last set.

### RpcChannel

A call is a SET of the request and up to `RPC_REPLY_POLL_ATTEMPTS` GETs of the
reply buffer, each a step of its own; two callers (two threads with one
`Device`, or two `Device`s on one camera) interleave between any two transfers,
since nothing in the code locks the exchange. The camera is external: it works
requests off in order, later, and each answer replaces the buffer; a responsive
camera does so within `MaxLag` GETs, another may lose requests. The buffer starts with
whatever an earlier session left. Frames are reduced to what
`parse_rpc_reply` and the decoders look at: marker, echoed command, payload and
its length.

### EventChannel

The composition: the loops of `Hotplug` and `StatusPoller` reduced to their
sends and their looks at the stop flag, `Devices` with `open`, `events` and the
order in which its fields are dropped, `Device`s that close before or after it,
and subscribers that take a clone, receive (also through
`obsbot_devices_poll_event`), give up or never come. The channel is external:
an unbounded FIFO whose send fails without receivers and whose recv fails when it
is empty and without senders.

### Controls

A setter or getter is a sequence of one or two transfers (`Operations`); each
transfer is a step, and other callers, failures and the camera's own automatisms
come in between. The transport decides how many: `PanTilt` is one UVC
control, but two V4L2 controls on Linux (`pantilt_set`, `pantilt_get`). The camera
is external: it ignores a write to a part that an automatism governs
(`Governed`), and the automatism may move that part at any time (`Drift`).
Range checks return before any transfer (`OutOfRange`). `disturbed` remembers
that someone else wrote a part during the call: the code promises nothing then,
since no lock holds a call's transfers together. Values are opaque here: how they are
encoded is in `ControlValues`.

### OpenPath

`list` and `open` on Linux, one caller (they share no state). A step is one node
of either walk, the sort, the `open(2)` by name, and `learn_mac`, which is
`RpcChannel` seen from outside: only a camera that is still there answers, and no other
maker's webcam answers an OBSBOT query (an assumption, and no property rests on it). The
info to open is no more than its address, from this list or an older one. The
bus changes between any two steps, gives free addresses and node names to whoever
comes next, and has webcams of other makers on it. All attributes of a node
are read in one step. Names are ordered as the strings "video<n>" for n below
100 (`Lexical`). History variables say who may be opened: whoever had the address at some
moment since `open` began (`there`), and whoever was given the name of a node that had been
matched, before that node was opened (`heirs`); nothing in the code tells such a one from the
camera asked for. `gap` says that the address was free during the walk.

### ControlValues and Meet2Frame

Functions only. `ControlValues` has the tables of both crates as functions on the
integers and names they are defined for (`from_int`, `encode`, `decode`,
`to_int`), where each control is (`Address`: entity and selector, and the
register behind the mode register), which arguments a setter takes (`Accepts`), its
bytes (`Bytes`), what a getter makes of them (`Decode`), and the two routes: by V4L2
the kernel holds a number that `payload_to_i32` made and `v4l2_get` cuts to bytes again
(`Held`, `Fetched`). An f32 is counted in steps of `1/Den`, so that truncation is modelled;
the rounding of f32 arithmetic is not.

`Meet2Frame` keeps the source's offsets. `crc16_usb` is a fold over the bytes whose
inner loop is a table of eight shifts, with an exclusive or of its own: the one of the library is
recursive, which the prover cannot follow. A reply is `<<>>` where the code returns `None`.

### Ffi

One action per function of the C interface, or per family of functions that
differ in the control alone (`set`, `get`, `copy_string_out`). Each has the
returns of the code in its order: argument, handle, output pointer, transfer,
decoding. The camera is external, a value per address: what a SET leaves there is what
`Held` makes of it, AutoFrame and the framing modes choose an AI mode too
(`devices/meet2.rs`:145-149), a request in the RPC buffer may be answered or not, and a button or
another program may change any value at any time (`Changed`). `asked` remembers what a
setter was last called with, as long as nobody else touched what it wrote;
`call` the last call with all it wrote to the caller's memory. What the properties
compare with (`Number`, `BytesOf`, `TwosComplement`, the captured frames) is
written from the UVC class, the C header's comments and the captures in the tests,
and not with the functions of `ControlValues` and `Meet2Frame`.

`Instances` says which functions are looked at together: the state of three dozen
controls is a product that no run could enumerate, but a property about one
control can be broken by that control, or by one other.

### Macos

Each IOKit reference is a record of its kind and the thread that took it; every step
says which it uses, takes and releases (`References`), and whatever is used or
released without being held, or taken over one still held, is remembered in `misused`.
The guards (`IOObject`, `ServiceRelease`) are the releases at the end of a scope, on each
of the returns; the device interface is released by hand where `open` fails late.
Devices vanish at any moment, any call that can report failure may fail, also the read of a
property or of the id of a camera that is there (`unread` remembers which), and the transport is
shared through its `Arc`. IOKit's iterator is taken to be a snapshot that stays valid, as for
`IOServiceGetMatchingServices`.

## 3. Runs

| run | question | bounds | size |
|---|---|---|---|
| `hotplug_linux` | safety, refinement and pairing of events, Linux keys | 2 cameras, 2 reused addresses, 2 nodes each, 3 changes, 1 failed read of any kind, 2 sleep chunks | 958 k states |
| `hotplug_live` | convergence, `Drop` | 3 addresses without reuse, 2 changes, 1 failed read | 533 k |
| `hotplug_twins` | doc claim: one addition per device at startup; violated for keys by serial | 2 cameras without serial | small |
| `poller` | safety and liveness of the poller | 2 reads, 2 values, Slow 2 ticks, Fast 1 | 147 k |
| `rpc` | two callers, leftover replies, lost and late answers | 3 attempts, lag 2, 2 requests queued | 340 k |
| `channel` | lifetimes, delivery, end and both Drops | 1 Device, 2 subscribers, 2 watcher events, 1 Status | 276 k |
| `channel_broadcast` | doc claim: events are broadcast to every clone; violated | 1 event per thread | small |
| `controls` | calls of several transfers against other callers, failures and automatisms | 2 callers, 5 parts, 2 values, both transports | 314 k |
| `open_path` | what `open` opens on a changing bus | 2 cameras, 1 foreign webcam, 2 addresses, 3 names, 4 changes, 1 failed read | 996 k |
| `ffi` | every control alone and with every other, on both routes; texts, status, events, handles | 698 instances; arguments at and beyond each boundary; buffers of 0, 3, 4, 10, 11 and 64 bytes; 6 leftovers in the reply buffer; `Den` 2 | 55 k |
| `ffi_status` | doc claim: a status event is filled like a status; violated | 1 event queued | small |
| `macos` | references and lists, on every return | 2 threads, 1 camera, 1 other device, each comes and goes once | 96 k |

Why the bounds are enough. Two cameras and two addresses are the fewest for
which an address changes hands, two cameras share a key, and a camera moves
during a walk; three changes are unplug, replug elsewhere and a second camera
in its place. Two chunks (ticks) tell a look at the flag before the first sleep
from one after it. Two reads let a control change between them. Three attempts
above a lag of two is the code's margin of one; the proofs cover any number. Two
callers suffice for one to overwrite the other's answer; two queued requests for
one to be answered after the other. Two events of one thread and one of another
are the fewest that can be out of order in two ways; two subscribers the fewest
that can compete. Five parts are a pair that goes together (pan and tilt), a
pair of an automatism and what it governs, and one control alone; two callers
and two values are enough for a mixture. The names 2, 3 and 10 are the fewest on which
the order of strings and that of numbers differ and a third name is to spare; four
changes let a camera go, a stranger take its address and node, go again, and the
camera come back. In `ffi`, two controls suffice since a setter writes one or two
addresses and forgets nothing: whether one disturbs another does not depend on
a third. The arguments are the last accepted and the first refused of each type and
table, negative and odd numbers, and flags beyond 1; that the round trip holds for those in
between is proved (`FfiProofs`). Of the transfers of a status none, all or any
one fails (`Failures`): they do not depend on one another. The buffers lie
on both sides of the two texts (3 and 10 characters, with NUL 4 and 11). In
`macos` two threads are the fewest to share a transport, and one device that is no camera
is enough to be passed over; two cameras make more than ten million states and were not worth the
time. Where a bound leaves a safety property in doubt, the theorem
holds without it.

### Disagreements between code and text

* `hotplug_twins`: `hotplug_loop` is documented to emit one `DeviceAdded` per
  device present at startup. Outside Linux the key is vendor, product and serial,
  and the comment in `device_key` itself says that the serial is empty on
  these cameras: two of them give one event.
* `channel_broadcast`: `Devices::events` says that events are broadcast to every
  clone. Clones of a crossbeam receiver compete: each event reaches one of them.
* `ffi_status`: the comment on `ObsbotEvent` says that a status event is filled exactly
  as by `obsbot_device_status`. The poller sends what `sample_status` reads, which is without
  firmware and serial; only `Device::status` adds them.

Others were met while reading and have no run:

* `DeviceAdded` and `DeviceRemoved` are documented (`status.rs`:12 and 17) to carry the serial of the
  device that connected or disconnected. When one read of a serial fails, `known` takes the empty
  one in its place and tells nobody; the removal then names no serial that was ever announced. What
  holds instead is `PairsNameWhoWasThere`.
* `open_for` is documented to take the lowest-numbered node; the names are sorted as
  strings, and video10 comes before video2. The choice is deterministic all the
  same (`SameNodeEachTime`).
* The module comment of `uvcvideo.rs` says that Camera Terminal and Processing Unit
  controls go through V4L2 ioctls; `cid_for` knows only some of them, and the
  others (hue, sharpness, gain, ...) take the extension-unit path.
* The smoke example sets `Cadence::Fast` and expects "a couple of samples" within 150 ms;
  `poll_loop` loads the cadence only between two sleeps, up to 2.5 s later (`CadenceTakenUp`).
* `obsbot_device_firmware` is documented to return `OBSBOT_ERR_OUT_OF_RANGE` when the buffer is too
  small; for one of no bytes it returns `OBSBOT_ERR_NOT_FOUND`.
* `obsbot_devices_poll_event` is documented to return `OBSBOT_ERR_NOT_FOUND` for a closed channel;
  it returns `OBSBOT_ERR_TIMEOUT`.
* The comments on `obsbot_device_set_zoom` and `obsbot_device_set_focus` call the value
  u16-clamped; one out of range is refused.
* `AeMode` is documented as a reply that may have several bits set; `Device::ae_mode`
  takes one with exactly one bit and calls any other a bad response.

## 4. Fairness

Weak fairness of a thread's whole loop (`Watcher`, `Poller`, `Loop(t)`, `Step(t)`):
the operating system schedules it, and no step of it blocks. Weak fairness of
what follows the join in `Drop`: once `drop` is called it runs on. In
`EventChannel` also of a subscriber that sits in `recv` and has something to
wake for; none need ever call `recv`. In `RpcChannel` the camera takes requests
off its queue, answered or not. Nothing is assumed of owners (they need not drop
anything), of the bus (it need not rest; `Converges` is about the case that it
does, and `MaxChanges` is what makes it), or of the success of a read.

## 5. Proofs

All are for arbitrary sets of cameras, addresses, nodes, subscribers, callers and
values, and any bounds allowed by `ConstantsAssumption` of the module.

* `HotplugProofs`: of the abstract specification, that events of a key alternate
  (`PresenceAlternates`; not inductive by itself: `LogTellsAnnounced` ties the set of announced
  keys to the log). Of the watcher, types; `Refinement` (every step of the watcher is a `Presence` step or
  a stutter, which needs that the keys still `pending` are differences between
  the maps, `PendingOK`); `Alternation` follows from it. `EventsReal` rests on a second invariant, `ScanInv`: what is in `current` was
  sighted during this walk, and every node visited without a failed read is
  accounted for in `current`. `DropIsFinal`: nothing is sent after `Drop` returned.
  `PairsAreExplained` is about the serials: each event names one of the `readings` of its key, and so
  does the event about that key before it. It has no hypothesis: failed reads and reused addresses
  are in it. Its invariant, `ReadInv`, says where serials come from: those of the cameras on the
  bus, of either map and of the last event about an announced key are all `readings`. That the walk
  which begins may forget them for the other keys needs `LogTellsAnnounced` of `Presence`: the
  last event about a key that does not stand announced has been taken back.
* `StatusPollerProofs`: types, and `Inv` with four parts: who holds the
  transport (`LifecycleInv`), what the sample holds (`SampleInv`), what may still
  be sent after stop (`StopInv`), how old a cadence may be (`CadenceInv`).
  From it follow `SnapshotsAreRecent`, `LastStatus` (`StopIsFinal`: after stop at most the
  sample in progress is sent, and after `Drop` nobody holds the transport),
  `CadenceBound` and `ClosedIsSilent`.
* `RpcChannelProofs`: `AnswersAreTrue` for any number of callers; `AttemptsSuffice` for
  every `MaxLag` below `Attempts`. The invariant behind it, `PollInv`: as long as
  nobody disturbs a polling call, either its request is the only one queued and
  it has polled no longer than the camera's lag, or its answer is in the buffer.
* `EventChannelProofs`: `LifeInv` (who holds which end, by owner and thread state)
  gives `WatcherIsHeard` and `EndIsTrue`; `PlacesInv` (each event sent is in one
  place, and the queue is younger than anything received) gives `Delivery`.
* `ControlsProofs`: an undisturbed call has written what its past transfers were
  to write, and what it read is of one moment (`SettersAreDone`,
  `GettersAreConsistent`), for any callers, values and either transport. The
  strengthening, `HalfwayInv`, says of a call between its two transfers that what
  the first wrote or read still stands; that needs that no automatism governs what a
  first transfer is about (`FirstUngoverned`), which is why the mode comes
  before the temperature.
* `OpenPathProofs`: `BusInv` (an address has one device, a device that is there
  has a node) and `SafeInv`: whoever is at the address is remembered (`ThereInv`), a matched
  node belongs to one of these, to an heir of its name or to nobody (`MatchInv`), and so does the open
  file (`HandleInv`); hence `OpenedWasThere`. `FindInv`: whoever kept the address during
  the walk has every node matched or still to be visited, so that an empty match
  means a gap (`NotFoundIsTheTruth`). `RestInv`: while the bus rests and all can be read,
  the matches are the nodes of the address except those still to be visited, the chosen one is
  the first of them, and the open file is its device's (`FirstNodeEachTime`).

* `MacosProofs`: for any threads, devices and cameras among them, no reference is misused or
  left over (`Balance`) and a list is right (`Listing`). `ReferencesBalanced` speaks only of
  threads between two calls. What makes it inductive is `Balanced`: at every place of every call,
  exactly which kinds of reference the thread carries. The device interface outlives the call that
  took it, so the invariant also says that a transport is there as long as it has a holder
  (`HeldWhileOpen`), that a thread opens one (`OpensOne`), and that whoever is in a transfer is
  a holder and owns the Mutex (`UserHolds`). `Walks` is the middle of `enumerate`: a camera that
  stayed is listed, at hand, still to come, or could not be read.
* `FfiProofs`, on values: what a getter returns for the bytes a setter was given, through either
  route. For every number of sixteen bits, signed (`SignedReadBack`: on Linux because
  brightness alone is signed there and hue does not go that way) and unsigned
  (`UnsignedReadBack`); for zoom, focus, pan and tilt at any resolution `Den`
  (`FocalsReadBack`, `PanTiltReadBack`: what is lost is the truncation, and no more). The lemmas
  are about `Le2`, `Le4` and their inverses, as two's complement.
  `PayloadHoldsTheValue` is about the payload of the mode register, for values of any length, and
  `SettersReachTheirAddress` compares each setter with the number its document means.
* `FfiProofs`, on the interface: for every instance, in particular the one with all three dozen
  setters and getters at once that no run could enumerate, and for every argument the C types allow.
  The invariant is `Core`: the camera has a value at every place the functions use, of the kind
  that place holds (`CameraOK`); what was asked for was accepted (`AskedOK`); and it is there
  (`KeptOK`, by the numbers of the UVC class and the bytes of the wire). `CameraHoldsWhatWasAsked`
  alone does not say that a value is of the right kind and was ever accepted, which reading it back
  needs. That two setters are not in each other's way is that the addresses differ
  (`AddressesDiffer`), but for the groups that share one, and those forget each other.
  From `Core` follow `CameraIsAsAsked`, `GettersReadBack` and, with `HandlesOK`, `TypeCorrect`;
  `FailuresLeaveAlone` needs only the shape of each call.
* `TextsStayWhole`: the invariant is `TextInv`: what is in the reply buffer, if it reads as a
  text at all, reads as the camera's own (`BufferOK`), through which both decoders are followed byte
  by byte (`ReplyIsRead`, `FirmwareRead`, `SerialRead`). Its hypothesis, `OthersAskIt`, is about the other
  programs: whatever they leave in that buffer reads as no other camera's text. Without it the
  property is false, since nothing in a reply says which camera it is from. The leftovers of the
  run satisfy it, requests, corrupted and overlong replies among them.
* `FramesAreUnderstood`: offsets, lengths, order and places of both checksums are proved, byte for
  byte (`FirmwareFrame`, `SerialFrame`, `FaceFocusFrameIs`). Its hypotheses are the recorded MAC, without which
  there is no record to compare with, and `ChecksumsKnown`: the values of `crc16_usb` for five
  strings of bytes. They are a fold and TLC's to compute, which `RequestsUnderstood` in the run does.

Assumptions on constants are those of `ConstantsAssumption` or its like in each module. In `Ffi`
(`FfiAssumption`): arguments are what the C types can hold (`Argument`), what others write to an
address is of the kind that address holds (`Values`), the serial is graphic and fits the reply, and the
version is four bytes.

Only model-checked: the liveness properties (`Converges`, both `DropReturns` and
`DropsReturn`, `CallsReturn`, `ThreadEnds`, `SamplesKeepComing`,
`NobodyIsLeftWaiting`), which are out of the prover's reach; the values of the checksums, which
are folds, and therefore induction; and the three claims of the documents that the runs refute.
Every safety property that a passing run checks has a theorem.

## 6. Plan

The order was: the watcher against its abstract promise, the poller, the RPC
channel, their composition over the event channel, controls and opening, and then
values, frames, the C interface and the macOS transport. What is left:

1. The rounding of f32 in pan and tilt.
2. Proofs: what the abstract composition in `EventChannel` takes of `Hotplug` and
   `StatusPoller` (their sends and looks at the flag) as refinements of the two modules.

## 7. Not modelled

Examples, tests, the recording transport of `testing.rs` and build files: they have no
behaviour of the library. `obsbot_devices_count` and `obsbot_version`, which change nothing.
What the `*_range` getters decode. The bytes of an IOKit request, and
the CF objects inside one property read, which the function that creates them releases. A device
replaced between two reads of one sysfs node, and a change between the two ioctls for pan and tilt of
one sample. A reply of the
right command with a corrupted payload: the camera answers what it was asked. A GET
that returns fewer bytes than the control has. Rounding of f32 arithmetic. Wording of logs and errors.
