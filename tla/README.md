# A TLA+ model of the wge100 camera driver

This directory holds TLA+ specifications of the WGE100 Ethernet camera: the
host library that talks to it (`wge100_camera/src/wge100lib`), the ROS driver
node on top of it (`wge100_camera/src/nodes`) and the Forth firmware inside the
camera (`wge100_camera_firmware/src/firmware`). TLC checks them on small
instances; TLAPS proves theorems about all of them for every instance: the video path,
flash and register access, the driver's states, the frame handler, the wait for packets,
discovery, the setting up of the imager and the firmware upload.

Paths below are relative to the repository; `wge100lib.c`, `host_netutil.c`,
`wge100_camera_node.cpp`, `mt9v.cpp`, `upload_mcs.cpp`, `mt9v.fs`, `wge.fs`,
`flash.fs` and `main.fs` are named without their directories.

## 1. Inventory

The driver (one process) and the camera talk UDP over a local network. Commands
are single packets, each answered by one reply to the port it came from. Video
is a stream of one packet per image row, then an XOR row and an end-of-frame
(EOF) packet, from the camera to a port the host names when it starts the
stream. Nothing in this protocol is acknowledged except by the replies, and the
video is not acknowledged at all.

| Component | State | Operations | What makes it hard | What makes it correct |
|---|---|---|---|---|
| Video reassembly, `wge100VidReceiveSocket` | frame buffer, row count, gaps, XOR row, last packet, `eof`, `firstPacket` | one per packet kind; select timeout; handover of a frame | lost rows, lost EOF, lost XOR row; carry-over of the packet that reveals a lost EOF; 16 bit frame numbers | rows of different frames are never mixed; a frame called complete is the image; what is recoverable is delivered; reports move forward |
| Camera video, `mt9v.fs` | `frame_number`, `line_number`, XOR RAM, pixel FIFO, `running` | `mt9v-live`, `capture`, `sendline`, `nextframe` | FIFO overflow, a frame starting inside a frame | one number per frame; the XOR row covers exactly the rows of the frame |
| Reliable flash access, `wge100ReliableFlashRead/Write` | `*retries`, `retval`, the page read back | read, write, compare | lost commands and replies, replies that come after the host gave up, writes that take effect late, one retry counter in two loops | a verified write is stored; reads are current; the number of commands is bounded; every call returns |
| Reliable register access, `wge100ReliableSensorRead/Write` | the same | the same | the same, and I2C transfers that fail silently | the same |
| Discovery and configuration, `wge100FindByUrl/Discover/Configure`, `list.c` | the list of cameras, the caller's camera struct; the address of each camera | search, configure | many cameras, several interfaces, lost and late announcements, orders that take effect late, sockets that fail | one matching camera is found or none; a camera that was configured has the address asked for; every search ends |
| Other commands (trigger, resolution, sensor selection, board configuration, reset) | none between calls | one request each | lost replies | the camera is as the driver believes |
| Socket helpers, `host_netutil.c` | none between calls | socket per request, wait for a packet of one type | remaining time, foreign packets, closing twice | a wait ends in bounded time; a reply to another request is not taken |
| Driver states, `doOpen/doClose/doStart/doStop`, `imageThread` | `state_`, `image_thread_`, `mutex_`, `lost_image_thread_count_` | open, close, start, stop; `set_camera_info`, `board_config` | an image thread that ends by itself and writes `state_` without the mutex; a join with the mutex held | one image thread; no thread disturbs a later run; the flash is written in `OPENED` only; stopping returns |
| Frame handler, filters, diagnostics | counters, `FrameTimeFilter`, `SlowTriggerFilter`, `next_is_alternate_` | `frameHandler`, `cameraStatus` | frame number arithmetic, filters across lost frames, unlocked readers | counters agree with what was lost |
| Imager registers, `mt9v.cpp`, set up by `doOpen` | two register contexts that share some registers, caches of these | `setMode`, `setExposure`, ... | failure in the middle of thirty writes; bit fields written from caches; resets of the camera | an open driver has window, blanking, exposure and switches that belong together and agree with the firmware |
| Camera command loop, ARP, DHCP, watchdogs | ARP cache, IP address, alarms | `camera-handler`, `arp-handler`, `dhcp-*`, `net-watch-expired?` | cache eviction and ageing, retries with back-off, restarts | replies reach their sender; an address is obtained |
| Persistent configuration | configuration pages of the flash | `atmel-cfg-rd`, `handle-sysconfig` | power loss in the middle | the camera boots with a valid configuration |
| Firmware upload, `upload_mcs.cpp` | the image, the page, the attempt | parse, write, verify, restart | writes that fail or take effect late; addresses in the file | success means that the flash holds the file |
| Multi camera configurator | configuration per camera | reconfiguration callbacks | ordering | every camera gets its own |
| Simulator, `wge100_sim.cc` | registers, flash, frame number | as the firmware | different line numbers | as the firmware |

Interactions: the image thread runs the video reassembly and calls the frame
handler from it; callers (the main loop of driver_base, services, the self test)
hold `mutex_` and change `state_`, which the frame handler reads without the
mutex; both sides send commands through the same library; the camera handles one
packet at a time and only between frames.

`PROJECT.json` lists the hazards of this code with the line where each bites and
the properties that watch it.

## 2. The modules

| Module | Models |
|---|---|
| `VideoPackets` | rows as vectors over GF(2), reserved line numbers, frame bits |
| `VideoSource` | the camera's video transmission (the simulator's with `FrameBits`) |
| `VidReceive` | `wge100VidReceiveSocket`, one action per packet kind |
| `FrameChannel` | abstract: the imager takes images, the receiver is shown pictures of them in order, each at most once, when the image is over |
| `VideoStream` | camera, lossy network and reassembly together; the video properties |
| `ReceiveLoop` | the reassembly on a stream that never ends by itself: when it returns |
| `CommandChannel` | a socket per request, commands and replies in flight |
| `PageStore` | abstract: a good end of a flash call speaks of the page as it is, a write follows a look at other data |
| `FlashAccess` | the reliable flash functions over that channel, with the camera's handlers |
| `SensorAccess` | the reliable register functions over that channel, with the camera's handlers |
| `DriverLifecycle` | driver states, callers and image threads |
| `FrameHandler` | the frame handler of the driver: time filter, statistics, context flag, warning filter |
| `PacketWait` | `wge100WaitForPacket` in the loop of its callers, with time |
| `Discovery` | search and configuration over that wait: list, URL, sockets, cameras, orders in flight |
| `Imager` | registers, limits, caches, the search of `setMode`; the writes for given settings |
| `CameraOpen` | `config_update`, `doOpen` and `doStart` with their commands, and the camera they set up |
| `FirmwareUpload` | `upload_mcs`: reading the file, writing, verifying, attempts |
| `VideoStreamProofs` | theorems about `VideoStream`: the video properties, and that it implements `FrameChannel` |
| `FlashAccessProofs`, `SensorAccessProofs` | theorems about the accesses, and that `FlashAccess` implements `PageStore` |
| `DriverLifecycleProofs`, `FrameHandlerProofs` | theorems about the driver |
| `DiscoveryProofs` | theorems about the wait, and about the search that contains it |
| `CameraOpenProofs` | theorems about the setting up of the imager |
| `FirmwareUploadProofs` | theorems about the firmware upload |
| `MC...` | instances for TLC |

**State and actions of the video path.** `frame` of `VidReceive` is `frameInfo`
with the locals that belong to one frame (`lineCount`, `has_xor`, `xorline`,
`frame_buf`). `eof` is whether the pointer of that name is set; `status` and
`return_value` are the way out of the function. A packet is handled by exactly
one of `ReceiveMisfit`, `ReceiveFailure`, `ReceiveNextFrame`, `ReceiveXor`,
`ReceiveEof` and `ReceiveRow`, in the order of the branches of the code; the ones
that end a frame call the handler (`HandOver`) and prepare the next frame
(`NewFrame`) in the same step. The pixels of a row are one symbolic vector; the
repair is the real XOR over these vectors, so a wrong repair is visible as a
wrong set of coordinates. On the camera side a frame start, a FIFO overflow and
one round of the loop in `capture` are the steps. The last row brings the XOR row
and EOF in the same step, as in the code. `exposure` counts the images the imager
begins and gives the rows their contents; `frame_number` is what the firmware puts
into the packets. That the two agree is a property of the firmware, which must give
a number up with every frame it abandons (`NumberAbandoned`). `handed` and `delivered`
are history. `handed` is the image the receiver takes the last report for: it is
counted on from the 16 bit numbers that were reported, by the signed difference of
`wge100_camera_node.cpp:1044` (`FrameAfter`), and looks at nothing inside the network.
`FrameChannel` reads it, the buffer and the flags given to the handler.

`ReceiveLoop` puts the same `VidReceive` behind frames that follow each other for ever
(their numbers wrap), with losses, requests to stop, silences that begin and end, and the `errno` of the
image thread, which `select` leaves alone when it times out (`wge100lib.c:1725`). The
contents of rows do not matter there, so they are all black.

**State and actions of the accesses.** `pc` names the loop test or the wait the
host is at. `SendRead` and `SendWrite` are `wge100FlashRead`/`wge100FlashWrite`
up to the wait, `PageArrives`, `StatusArrives` and `NoReply` the ends of the wait.
`CameraHandles` handles the oldest command in flight, whenever it arrives.
A reply carries the socket that asked for it and is received on this socket only.
`mismatch`, `verified`, `budget` and `sent` are history: the code does not have
them and no guard reads them. `SensorAccess` is built the same way (with `verified`
only); its camera may
fail any I2C transfer silently, since `mt9v@` and `mt9v!` drop the acknowledge bits.

**State and actions of the driver.** A caller takes the mutex and works through a
job, a list of target states; each `doOpen`, `doClose`, `doStart`, `doStop` is a
step towards the next target, and `doStop` is two, the state change and the join.
An image thread starts the stream, receives, stops the stream, and then reads and
writes `state_` in two steps (`Check`, `SetOpened`), since nothing protects them.
`stream` is the run the camera sends to: a stop command ends the stream whoever
sent it. The whole of `doOpen` is one step that succeeds or leaves `CLOSED`; what it
sends is the subject of `CameraOpen`.

**State and actions of the frame handler.** `filter` is `FrameTimeFilter`, `warn` is
`SlowTriggerFilter`, the counters keep their names. `Handle` is the whole handler
for a frame (`wge100_camera_node.cpp:998-1094`) with both imager contexts enabled,
`Silence` the call with `NULL` while the trigger is external, `NewRun` a start of the
driver. Which frames arrive, how late and how damaged is open, as is whether the
trigger matcher knows a time; the camera takes its frames at a fixed period, a
little shorter than the one the filter assumes (`max_skew`). The sign that
`FrameTimeFilter::run` gives an early time is dropped, because the caller does.
`seen`, `run` and `real` are history.

**State and actions of the wait and of discovery.** `PacketWait` counts time in ticks.
`wait_us` is the argument the callers pass by reference, `started` is `timestarted`,
`wake` the moment at which the `select` of now gives up; each action is one way
through the loop of `wge100WaitForPacket` (`host_netutil.c:510-572`) or out of it.
`Discovery` extends it: a search begins the wait, each announcement is a
`PacketInTime`, and `Decide` is all of `wge100lib.c:210-270` in the step in which the
wait ends. `inbox` holds every announcement on its way to the open sockets; one that
is lost is one the host never takes, so loss needs no action. `orders` are configure
orders in flight; when the host gives one up its socket is closed (`live`), but the
camera may still obey it. A camera is its serial number, since the list and the
configuration look at nothing else.

**State and actions of an opening.** `regs` maps the registers of both contexts, and
those they share, to values; a register of bit fields is a record. `Settings` is
`setImagerSettings` as the sequence of its register writes, computed from the
settings with the integer arithmetic of `setMode`, `setExposure` and
`setMaxExposure`; `WriteRegister` makes one of them, confirmed, unconfirmed or
failed, with the early return of each place. `doubtful` (history) are the registers whose
last write was not confirmed, and `restarted` (history) that the camera lost its settings
afterwards.

**State and actions of the upload.** A file is the sequence of its lines, and each round
of the loop of `read_mcs` is a step: `ReadData`, `ReadSegment` and `ReadEof` take a line,
`Refuse` is every way out with -1. `firmware`, `firmwarelen`, `linenum` and `curseg` are
the variables of those names. `Orient` is `main` between reading and writing, with
`bitswap`; one page is written or compared per step. A write that was given up may
take effect at any later moment (`LateWrite`), which is what `PageStore` says of it and
`FlashAccess` is proved to implement. What the file says
(`FileByte`, `LastByte`, `Whole`) is defined from its lines alone, and not from what was
read.

## 3. What is checked

| Run | Shows |
|---|---|
| `video_stream` | frames are not mixed (`NoFrameMixing`); complete ones are the image, the repaired ones too (`CompleteIsIntact`); frame numbers go forward across the wrap-around (`NumbersAdvance`); short ones count their losses (`ShortFramesCounted`); recoverable ones arrive (`RecoverableDelivered`); what the handler is given shows the images in order, none twice, told apart by their numbers (`ImplementsChannel`) |
| `receive_loop` | on a stream of the simulator's packets without an end, reception ends once the handler is asked to stop: by the end of a frame while frames come, by a timeout when none do (`StopsWhenAsked`) |
| `flash_access` | a verified write is stored and stays (`VerifiedWriteStored`), reads are current (`ReadsAreCurrent`), at most `2 * retries + 1` commands, every call returns; the functions, the camera and the network implement `PageStore` (`ImplementsPageStore`) |
| `sensor_access` | a verified register write is stored and stays, with silent I2C failures; the value the idle bus reads as is the exception, which no compare can detect |
| `driver_lifecycle` | one image thread at a time, a running driver has its thread, a thread ends only its own run and stops no later stream, flash writes are quiet, stopping returns, threads end |
| `frame_handler` | filtered times lie between the taking and the arrival of a frame (`StampsInWindow`), do not go back (`StampsAdvance`) and follow a lasting delay (`LateRunBounded`); counters agree with what was lost (`StatisticsTruthful`); frames published in a row carry their own imager context (`AlternateFollowsEof`); warnings are rare as promised (`WarningsApart`) |
| `discovery` | a caller is held for a bounded time whatever arrives (`WaitBounded`); the search ends as the cameras that are there demand (`SearchDecides`), and ends (`SearchEnds`); a camera reported as configured has the address asked for (`ConfiguredAsAsked`) |
| `camera_open` | an open driver has imager and firmware in agreement on window and trigger (`FirmwareAgrees`), and every context in use as configured (`ContextsAsConfigured`), after partial failures and reopening too |
| `firmware_upload` | success and restart only with the whole file in flash, the right way round (`UploadedMeansStored`); the flash is touched only for a file that is whole, and only where it belongs (`OnlyWholeFiles`) |
| `video_stream_last_row` | disagreement: losing the last row makes the repair write in front of the buffer |
| `flash_access_unverified` | disagreement: the write returns 0 after a failed compare on the last retry |
| `driver_lifecycle_lost` | disagreement: the image thread "which should not happen" to be lost can be |

The repair has a second fault, which the properties except. After a lost EOF the row
that reveals it is put into the new frame (`wge100lib.c:1693-1697`), but the gap before
it is not noted until the next row (`1852`): when row 0 was lost with the EOF,
`lastMissingLine` becomes the carried row's own number, and the repair overwrites a row
that arrived. `CompleteIsIntact` and `RecoverableDelivered` except a repaired frame
whose first or last row was lost; all other complete frames are the image. And the
carried row's number is compared with the height before its frame bits are masked
(`1694`, `1840`): with the numbers of `wge100_sim.cc:206` it is not carried over, and a
frame that lost nothing is reported short. `video_stream` has the packets of the camera,
which carry no frame bits.

The comment above the test of `errno` (`wge100lib.c:1724`) says "Call the frame handler
with NULL to see if we should bail out", but the guard `errno != EINTR` cannot see an
interrupted `select`, which has left the function with -1 by then. It sees what an
earlier call of the image thread left in `errno`, which a timeout does not change. No
call of this repository that the thread goes on after leaves `EINTR` there; the handler
logs and publishes with libraries that are outside of it, so in the model any value is
possible after it, and before the loop. On a silent line only the timeout calls the handler,
and without the call a stop is not seen. `StopsWhenAsked` excepts a line that stays silent
for ever with `EINTR` in `errno`, and nothing else; without the exception TLC finds this
behaviour.

`wge100ReliableSensorWrite` has the fault of `flash_access_unverified` too
(`wge100lib.c:1273`), and both read functions return the value of their last
attempt and not -2 when the retries are used up (`wge100lib.c:900`, `923`).

Two facts of the frame handler show in its model and are promised nowhere. The
context flag of a published frame stems from the frame published before it, so after
a dropped frame it may be wrong; `AlternateFollowsEof` covers frames in a row only.
And `unlocked_count_` is cleared by an early frame only, while the comment at
`wge100_camera_node.cpp:144-149` speaks of late frames "in a row": a late frame that
comes after some that were on time still counts, and after one recovery every late
frame recovers at once. The stamps keep their window all the same.

Other facts show in the models and are excepted where a property says so:

- A wait that fails (`wge100lib.c:990` and the like) leaves `wait_us` as it was, and its
  caller repeats it without a pause for as long as it fails. `WaitBounded` counts the
  failures, which the run limits; a failure that lasts is not bounded by anything.
- A discover request that cannot be sent leaves a closed socket in the set
  (`host_netutil.c:446`, `wge100lib.c:345`). `select` then fails at once with `wait_us`
  unchanged, and the loop of `wge100Discover` never ends. `broken` marks this, and
  `SearchEnds` excepts it.
- The network watchdog of the firmware (`main.fs:346`) resets the imager after ten
  seconds without a packet. An open driver does not notice: the next trigger command
  succeeds and the stream runs with the imager at its reset values, although the comment
  at `wge100_camera_node.cpp:725` expects a failure. `restarted` marks this.
- With both contexts on, the longest automatic exposure is limited to 2047 rows by the
  object of the alternate context (`mt9v.cpp:115`, `456`), and the alternate exposure is
  not limited to the frame period (`wge100_camera_node.cpp:473`).
- Writes of the constructors of `mt9v.cpp` that fail are only warned of, and a width of
  752 is always refused, since the first column is 57 (`mt9v.cpp:290`).
- The upload computes the checksum of every line and never compares it
  (`upload_mcs.cpp:105-111`), does not look at the result of the restart (`332`), and
  cannot use the last byte of the reserved half (`154`). Before the first segment line
  `curseg` is -1 (`80`): without one, data at address 0 is refused and data at address 1
  taken for the first byte.

**Bounds.** Three rows per frame are the fewest with a first, an inner and a last
one. `video_stream` lets the camera send up to six frames, loses three packets,
cuts one frame short inside the camera, and compares frame numbers modulo five, so
that the number of the last one is that of the first again; three losses are enough to lose an
EOF, the row before and the row after, and no five-packet frame can vanish as a
whole, which is what `ImplementsChannel` and `NumbersAdvance` need of the real 16 bit
numbers (32768 frames in a row). Three packets in flight hold the longest burst, the last row
with its trailer; one packet that ends the stream is in flight at a time, a packet of another
resolution, while `receive_loop` has every kind. `receive_loop` has no bound on frames: numbers
are kept modulo four, and up to three packets in a row are lost, enough for the end of a frame
with the rows around it. `flash_access` has one page, two values, up to two retries and two calls:
enough for a command of the first call to arrive in the second. `driver_lifecycle`
has three image threads and four jobs: a lost thread, its successor and one more.
`frame_handler` takes seven frames in each of two runs, with frame numbers modulo six
and gaps of up to one frame, one frame that the handler drops, delays under and over the late threshold, recovery after
one late frame and a reset after one frame skipped: a lock, a loss of lock and a
recovery fit in, before and after the wrap-around. `discovery` has three cameras (two of
one name, one with an old firmware), two interfaces, seven URLs and two searches,
so that an order of the first is late in the second; a wait of two ticks and one
failing call, since the argument about time does not depend on either (it is proved).
`camera_open` has seven configurations that cover one context, both, binning, mirroring,
a window that is refused, slow and external triggers, three imagers, two openings and
two faults: one fault leaves a register in doubt, the other fails a later write or the
reopening. `firmware_upload` has pages of two bytes, eight of them, and twelve files:
whole ones with one and two segments, without any, and with the bits the other way round,
and one for each way of being refused; three attempts of two searches each.

**Fairness.** `receive_loop` assumes that the receiving thread runs: as long as the line is
not quiet packets come and are read, and on a quiet line `select` returns after a second
(`wge100lib.c:1708`). Nothing is assumed of how long a silence lasts, of losses or of
failures. `flash_access` assumes that the calling
thread runs and that a wait ends after `STD_REPLY_TIMEOUT` (0.2 s); nothing is assumed of the camera
or the network. `driver_lifecycle` assumes that the caller holding the mutex goes
on, that a join that cannot succeed ends after two seconds (`timed_join`), and that
image threads run and get the mutex when it is free; whether a reception fails is
left open. `discovery` assumes that the calling thread runs and time passes (`HostStep`);
that foreign packets keep coming is bounded by the time they take, not by fairness. A join times out in the model only when the thread waits for the mutex,
because otherwise it needs at most 1.2 s to end (one `select`, one reply timeout).

**Assumptions.** The local network keeps the order of packets and does not
duplicate them. A new socket has a port no earlier request used (the system hands
out ephemeral ports in turn). `DriverLifecycle` assumes that an image thread sees a stop
(`SeesStop`), that is, that no old `EINTR` in `errno` keeps its timeouts from calling the
handler (section 3); `receive_loop` shows that this is all it takes. driver_base is not part of the repository: that its
callers hold `mutex_` and move one state at a time is taken from how the driver
uses it, and so is that the configuration changes only while the driver is closed. The
pixel FIFO is reset at every frame start. A wait's caller sees what `select` returned at
most one tick later. The imager's reset values other than window, modes and the cached
registers are one arbitrary value.

## 4. What is proved

All with TLAPS, for every value of the constants that meets the assumptions of the
modules (TLC evaluates these as `ASSUME`s on every run). No safety property below is
inductive alone; each module begins with the invariant that is.

### The video path (`VideoStreamProofs`)

For every height, frame number width, number of frames, network and build of the
camera:

| Theorem | Property |
|---|---|
| `TypeCorrect`, `NoMixing`, `CompleteIntact` | `TypeOK`, `NoFrameMixing`, `CompleteIsIntact` |
| `ShortCounted`, `Recovered` | `ShortFramesCounted`, `RecoverableDelivered`, when rows carry no frame bits |
| `ReportsAdvance` | `NumbersAdvance` |
| `IsChannel` | `ImplementsChannel`: every call of the handler shows the image its number is taken for, a later one than before and one that is over; other steps are steps of the camera or leave the channel alone |

The invariant (`Inductive`) says how the parts stand to each other:

- `NetInv`: a packet in flight is one of a frame the camera has got to, with that
  frame's number and data (`Genuine`), and packets are in the order of frames and, in
  a frame, of rows, XOR row and EOF (`Ordered`). So a packet that arrives tells which
  packets no longer can. `LostInv` says the same of the packets lost, and that there
  are at most `MaxLost`.
- `FrameAt`: the buffer of the frame under assembly holds rows of one frame `h` only,
  `lineCount` is their number, the XOR row is that of `h`, and `GapsNoted` relates
  `missingLines` and `lastMissingLine` to the rows held. The last part has two cases,
  because the code notes the gap before the first row only if that row was not carried
  over; where row 0 was held the one missing row is `lastMissingLine`, which is why
  the repair is right there.
- `Accounted`: every packet of `h` that was sent is held, lost or in flight. With
  `Ahead` (nothing was received of a frame after `h`) it makes the missing rows of a
  short frame the lost ones, and carries the accounting over to the next frame.
- `Settled`: of the frames before `h` all that could be delivered were; this is
  `RecoverableDelivered` without its guard on the packets in flight.
- `SourceInv`: the firmware's number is that of the image it sends rows of (`exposure`),
  whatever was abandoned before; so the XOR row is that of one image.
- `Receiving` also keeps the distance from `handed`, the image of the last report as the
  receiver counts them, to `h`. A frame between two
  reports was cut short in the camera or lost every packet with its EOF, so the
  number of frames skipped is bounded by counting the packets lost (`GapBound`): this
  is where `AliasAssumption` is needed, and the only place. `CountsOn` (with
  `MaskedDistance`) says that within this distance the signed difference of two wrapped
  numbers finds the frame meant, and `HandedOver` that `handed` becomes `h` therefore.
- `ReportInv`: the last report is of `handed` and shows rows of that image only
  (`OneFrame`, `Shown`); this is what the steps of `FrameChannel` are taken from.

`AliasAssumption` says that fewer frames are missing in a row than half of the frame
numbers. No host could tell more from the number, and the driver's signed 16 bit
difference reads an advance of half the range as a step back; at 30 frames a second
it takes 18 minutes of silence to get there, while reception is given up after a
second. `BuildAssumption` says that rows carry frame bits or are followed by an XOR row,
but not both: `mt9v.fs` sends no frame bits, `wge100_sim.cc` no XOR row. The two
theorems without frame bits exclude the simulator, for which they are false (section 3).
`FailuresAssumption` says what a packet that ends the stream looks like.

### Flash and register access (`FlashAccessProofs`, `SensorAccessProofs`)

For every set of values, every number of pages, every retry budget and any number of
calls:

- `TypeCorrect`: `Spec => []TypeOK` of flash access;
- `VerifiedWritesAreStored`, `CommandsAreBounded`: the invariants of the run
  `flash_access`;
- `IsPageStore`: its refinement, `ImplementsPageStore`;
- `ReadsReturnThePage`: its action property `ReadsAreCurrent`;
- `Inductive`: the inductive invariant they follow from;
- `VerifiedRegisterIsStored`: `VerifiedWriteStored` of `SensorAccess`.

`VerifiedWriteStored` needs that no write
is in flight when a compare succeeds. `ChannelInv` provides this: commands in flight
carry increasing sockets and the camera answers them in order, so a reply
to the newest socket exists only when no command is left. `AnswerInv` says that
such a reply holds what the page holds now (nothing in flight can change it), and
`VerifiedInv` that after the compare nothing is in flight. `MismatchInv` follows the
proof that a write was found necessary from the failed compare to the write, and
`BudgetInv` relates the commands sent to the retries left at each place of the two
loops. For `IsPageStore` every step is mapped to a step of `PageStore` or to a stutter:
sockets, replies and retries are what it leaves out, and the write commands in flight
are its pending writes (`WritesAppend`, `WritesTail`: what sending and taking a command
does to them). That a write is ordered only after a look at other data is `MismatchInv`
and `BudgetInv`: the function begins with a read, and a read that fails uses up every
retry, so the loop ends instead of writing. That a call that gives up is not taken for a
good end needs one fact more, `ReturnInv`: a read that runs out of retries never returns
0. A write that returns 0 without a compare (the run `flash_access_unverified`) is
mapped to `GiveUp`, and promises nothing. `NextInv` has one step per action and under it one per part of the invariant.
The register proof has the same argument (`NewestIsLast`, `AnswerTrue`), where an answer
may also be the value of the idle bus.

### The driver (`DriverLifecycleProofs`)

For any number of runs and jobs: `TypeCorrect`, `OneThread`, `RunningHasThread`,
`QuietWrites`, `OwnRunEnds` and `LaterStreamsGoOn`, that is all safety properties of
the run `driver_lifecycle`. `RunHasItsThread` holds always; the others, as the properties
say, until a join times out (`lost` is not empty: `driver_lifecycle_lost` shows
that it can). `ThreadsNumbered` says that threads are numbered in the order they are
created and the camera streams to none that was not; `CallerInv` that a caller in a
join or a flash write has brought the driver to `OPENED`; `QuietInv` that without a timed
out join the only living thread is the newest, and that none lives when the driver
neither runs nor joins. The last is what a start relies on: `state_` alone does
not say that the thread before has ended.

### The frame handler (`FrameHandlerProofs`)

For every period, set of delays, threshold and gap: `TypeCorrect`, `WithinWindow`,
`TimesAdvance`, `LateBounded`, `Truthful`, `AlternateRight`, `WarnApart`, all properties
of the run `frame_handler`. `RunCases` gives the four outcomes of
`FrameTimeFilter::run`; `FilterInv` keeps both times of the filter at or after the time
the last frame was taken, and the stamp within `late_locked_threshold_` of what is expected,
so that it cannot go back when the filter moves; `LateInv` relates the late frames in a
row to `unlocked_count_`, with a second case after one recovery; `StatisticsInv` needs
that wrapped differences are the real ones (`FrameDeltaExact`);
`WarnInv` says what the countdown of the warning filter counts. `ThresholdAssumption`
asks that the late threshold is at most a frame period, since a later arrival could
otherwise be stamped before the frame before it. `InfAssumption` makes `INF`, the doubles' infinity,
larger than every time of a run, and `WarnAssumption` takes the two thresholds of the
warning filter as equal, as the driver has them (10 and 10).

### The wait and discovery (`DiscoveryProofs`)

Of the wait, for every time asked for and any number of failing calls, `WaitsAreBounded`: `WaitSpec => [](WaitTypeOK /\ WaitBounded)`. The
bound is not inductive: `Deadline` says that each call's `started + wait_us` is at most
the time asked for, plus as much as a failing call can add for each failure; that
`select` wakes at most `wait_us` after that moment, and that the clock is at most a tick
further.

Of discovery, for any cameras, interfaces, URLs and number of searches:

- `SearchWaits`: `Spec => WaitSpec`, every step of discovery is a step of the wait or
  leaves it alone; `SearchWaitsAreBounded` follows;
- `SearchTyped`: `Spec => []TypeOK`, with the wait going on exactly where the program
  waits;
- `ConfiguredCamerasAreAsAsked`: `Spec => ConfiguredAsAsked`. The invariant has to say
  of every order in flight: only the newest can be live (`OrdersInv`), and a live one is
  for the camera chosen and its address (`LastOrder`, `Chosen`). Since the camera
  works through the orders one after the other, an answer to the live one exists only
  when all late orders before it have been obeyed.
- `SearchesDecide`: `Spec => SearchDecides`, a search that is over with no announcement
  left to come is decided by the cameras that are there. `SearchInv`: every camera that
  a socket of the search can reach has its announcement still to be taken or is in the
  list, which has no other camera and none twice. So the entries of the list that match
  and the cameras that match correspond one to one (`MatchesAreCandidates`), and there
  are several of one when there are several of the other (`SeveralCandidates`).
  `AddressAssumption` takes the address that a URL leaves out and the address that cannot
  be read for two different things.

### Setting up a camera (`CameraOpenProofs`)

For every configuration that dynamic reconfigure lets through (`ConfigsAssumption`: the
ranges in `common_parameters.py`), every imager, and any number of openings and failures:

| Theorem | Property |
|---|---|
| `TypeCorrect` | `TypeOK` |
| `Agreement` | `FirmwareAgrees` |
| `Configured` | `ContextsAsConfigured` |

`Invariant` is the inductive invariant. Its main part, `SettingsInv`, says of every
register that the settings decide that it is `Provided`: it holds what is wanted, or its
write is still in the plan, or its last write was not confirmed. That is inductive only
with `LastWanted`: what the plan writes to a register at last is what is wanted. It is
not enough that each write is right. `read_mode` is written without the mirror bits
before it is written with them, and the switches of both contexts (companding, automatic
gain, automatic exposure) share registers, so that the writes for the first context still have the bits of the
second as they were after the reset; those for the second keep the bits of the first since
its object starts with the caches of the first (`FirstSwitches`, `SecondSwitches`). `PlanJoined`
puts the plans of the constructors and of both contexts together, and
`PlanSuffix` follows a plan through its steps, a skipped rest of a condition included.
`PatternInv` says the same of the test pattern, which is off until its own plan;
`SizeInv` and `FirmwareInv` are about the size, context report and trigger that the
firmware was told.

What is wanted is arithmetic, not the code's own formula. The search of `setMode` finds a
horizontal blanking, since the longest one fits the data rate of every window it accepts
(`LongestFits`, `HblankFound`), and the vertical blanking that goes with it gives a frame
period within half a row of the one asked for, or is the shortest or longest there is
(`VblankBounds`). An exposure is within a row of the one asked for (`LinesBounds`), and
one that dynamic reconfigure lets through fits the register in the shortest row
(`ExposureFits`). An exposure shorter than a row gives one row, the least `mt9v.cpp` writes,
which `Timing` and `Longest` allow (`Near`).

### The firmware upload (`FirmwareUploadProofs`)

For every file, every size of pages, flash and segments, and any number of attempts:

| Theorem | Property |
|---|---|
| `OnlyWholeFilesTouchFlash` | `OnlyWholeFiles` |
| `SuccessMeansStored` | `UploadedMeansStored` |

The inductive invariant (`Invariant`) has three parts:

- `FileInv` follows the reading. `Contiguous` says that the data lines read cover the
  addresses below `firmwarelen`, each once, and each line only after all addresses before
  its own; with that `FileByte`, which chooses a line that covers an address, has no choice
  (`CoveredOnce`), and `firmwarelen - 1` is the last byte of the file (`LastByteRead`). It is inductive
  because a line is refused unless it begins where the last one ended; that gaps are
  refused, too, is what the mutant of `OnlyWholeFiles` takes away.
- `ContentInv`: until the end of the file the image is what the lines read so far say, and
  255 elsewhere (`Copied`); after `Orient` it is the whole file, turned round when its sync
  byte is (`Upright`). That byte is 85 or 170 and so not one of the 255s: a file
  that is oriented has bytes, and a page to write.
- `FlashInv`: only pages of the image are written, now or late, and those that the verify
  loop has passed hold the image (`Verified`). A late write changes no verified page, since the
  image is fixed by then and every write in flight carries a page of it.

`SwappedTurned` is that `bitswap` turns the bits of every byte round; it rests on the binary
digits of a byte (`BytesHaveBits`, `BitsOf`). `PagesOfImage` is the arithmetic of the two
page loops: their pages are those that begin in the image, and no byte of them lies outside
the array. For that `PagesAssumption` takes half of the flash as whole pages (4096 pages in
`ipcam_packet.h`), `SyncAssumption` puts the sync byte into the array (address 4), and
`FilesAssumption` says that lines have types, addresses and bytes.

### Only model-checked

All liveness (`StopsWhenAsked`, `StopReturns`, `SearchEnds` and the other properties with
a `~>`): TLAPS does not prove it here. `ReceiveLoop` exists for the sake of one such property
and has no theorem. Every safety property of a passing run is a theorem.

## 5. Plan

In this order, the behaviour that matters most first:

1. *done* `VideoPackets`, `VideoSource`, `VidReceive`, `FrameChannel`, `VideoStream`,
   `ReceiveLoop`.
2. *done* `CommandChannel`, `FlashAccess`, `PageStore`, `SensorAccess`, `FlashAccessProofs`.
3. *done* `DriverLifecycle`.
4. *done* `FrameHandler`.
5. *done* `PacketWait`, `Discovery`, with their proofs.
6. *done* `Imager`, `CameraOpen`.
7. *done* `FirmwareUpload`.

8. *done* `VideoStreamProofs`, `SensorAccessProofs`, `DriverLifecycleProofs`,
   `FrameHandlerProofs`.
9. *done* `SearchesDecide` in `DiscoveryProofs`, `CameraOpenProofs`,
   `FirmwareUploadProofs`.

Left: the firmware's main loop with its ARP cache and DHCP, and the order in which
`boardConfig` looks at `state_`, stops and configures, which would need a module each.

## 6. What is not modelled

The Ethernet MAC, the J1 processor and the other hardware (register transfer
level, with vendor cores); the Forth cross compiler and kernel; the TCP and HTTP
words, which are not built (`build-tcp?` is 0); the command line tools that wrap one
library call; the multi camera configurator, a Python node between reconfigure services;
the firmware's main loop, ARP cache and DHCP, word by word code over the packet buffer
(the watchdog's reset excepted); `boardConfig` and the board configuration command; the
self tests; formatting, logging, calibration parsing and image publishing; ARP
table access and interface look-up of the host, which are operating system calls.
EOF time stamps and sensor values are carried along by the code and not looked at
by the reassembly.
