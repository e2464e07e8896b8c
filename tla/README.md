# TLA+ models of libsigrokdecode

libsigrokdecode feeds logic-analyser samples to protocol decoders written in
Python or C and hands their annotations to a frontend. This directory models
the library core (`instance.c`, `c_decoder_api.c`, `type_decoder.c`,
`session.c`, `ann_batch.c`, `decoder.c`, `dll_registry.c`, `srd.c`), what the C
decoders declare to it, and 70 of the C decoders themselves, alone and stacked;
it checks the models with TLC and proves the central ones with TLAPS. `PROJECT.json` maps
every definition to its lines and lists runs, mutants, findings, hazards and
theorems.

## Inventory

| Part | State | Operations | What is hard, and what must hold |
|---|---|---|---|
| Decode handshake (`instance.c`, wait in `type_decoder.c` and `c_decoder_api.c`) | sample numbers, lent buffer, `got_new_samples`, `handled_all_samples`, `want_wait_terminate`, worker thread, `data_mutex`, two condition variables, the GIL | start, metadata, decode, terminate_reset, free; wait, fetch/consume; end of the worker | two threads and a borrowed buffer: samples are only touched while lent, none lost between calls, sends and terminations return, failures are reported |
| Condition matching (`find_match`) | scan position, `abs_cur_matched`, `old_pins_array`, condition list, skip counters | wait with conditions, without, again; next chunk | off-by-ones at matches, chunk borders, sample 0 and constant channels: wait() returns the first matching sample |
| Annotation batch (`ann_batch.c`) | items, arena chain, pool, callbacks | add callback, put, flush, destroy | unlocked and shared by all workers of a session: each annotation delivered once, in order, with live strings |
| Sessions (`session.c`) | session list, instances, callbacks | new, start, send, end, terminate_reset, destroy | order of termination, flushing and freeing |
| Decoder and library registries (`decoder.c`, `dll_registry.c`) | `pd_list`, `sys.modules`, DLL status | load, unload, reload, C load and unload | ownership over long call sequences: nothing freed is used, nothing leaks |
| Instances and stacks (`instance.c`) | `di_list`, `next_di`, IDs | new, stack, find, free | one feed per instance, unique IDs |
| Library (`srd.c`) | initialised or not | init, exit | order of destruction, reinitialisation |
| C decoder declarations (`srd_c_decoder_register`, `srd_inst_channel_set_all`, `c_opt_*`) | copied tables, channel map, options | register, new instance, connect channels, start, free | nothing is validated: counts, orders, types and defaults are the decoder's word against the library's |
| I2C decoder (`c_decoders/i2c_c.c`) | state, bits, packet under construction | one pass per line change | conditions where they do not belong, captures that begin inside a transfer: in step again after two transfers |
| Decoders stacked on I2C (27) | state, pointers, byte buffers | one packet | transfers cut short, repeated STARTs to other chips, pointers that wrap: nothing is carried over, mixed up or shown for another register |
| Decoders stacked on UART (17) | framing state, buffers, sync windows | one packet, end() | two lines, gaps, wrong stop bits, breaks, noise: frames are found, bytes are shown once |
| Bus and line decoders (25) | state machines on pins, bits or pulse lengths | one return of c_wait | captures that begin anywhere, cut and disturbed frames: correct frames are reported, the decoder finds back |
| Other C decoders | | | declarations only |
| Python decoders, IRMP, errors, log, util, version | | | not modelled, see below |

The frontend calls a session; the session calls its instances one by one;
`srd_inst_decode` posts a chunk to the instance's worker thread and blocks; the
worker runs `decode()`, which pulls samples with wait() and calls put(), which
appends to the session's batch; the batch calls back into the frontend. A C
decoder hands protocol packets to the C decoders stacked on it with `c_proto`,
which calls their `decode_upper` on the same thread before it returns.

## Modules

* **DecodeHandshake** is the monitor between the feeding thread, the worker and
  the terminating thread. The fields of `struct srd_decoder_inst` are variables
  of the same name; `cpc`, `wpc`, `tpc` are the program counters. A critical
  section that does not block is one action; the variable `data_mutex` records
  the one section that blocks inside (Python's wait() re-acquires the GIL).
  `blocked` holds the threads in `g_cond_wait`; wake-ups may be spurious. What
  the scan finds is left open: any sample from the scan position on.
* **SendService** is what feeding promises, without threads: a call lends
  samples, the decoder takes them in order, the call returns when all are taken
  or the decoder has stopped. `ImplementsService` maps the handshake to it.
* **ConditionScan** is `find_match` at the detail of the code, one action per
  call of `term_matches` and per end of a pass, over a capture that arrives in
  chunks, for the term lists that `c_wait` and Python's `create_term_list`
  build; `at_cond` and `at_term` are the positions of its two loops. A reference definition (`RefConds`,
  `NoneBefore`) says what a wait should return, from the capture alone.
* **AnnBatch** is the path of annotations: callback list, batch, arena, pool,
  and the session loops that decide which threads run decoder code at the same
  time. Reading `n`, storing the item, calling back, recycling and resetting are
  separate steps, since nothing locks them.
* **Registry** is the sequential part: which decoders, libraries, sessions and
  instances exist, who holds a reference, and whether a call uses a freed one.
  `srd_inst_stack` takes any two instances, as the code does; `StacksAnywhere`
  says whether the client hands it any two, or only an instance that is in the
  session's list and does not have the other one below it. `GivenIds` are the IDs
  a client may pass to `srd_inst_new`; `given` holds the instances that have one.
* **Declared** is `struct srd_c_decoder`; **CatalogueLogicA**,
  **CatalogueLogicB** (decoders on channels, uart among the latter) and
  **CatalogueStacked** (decoders on other decoders) hold the tables, counts, defaults and option reads of 214
  C decoders as their files declare them. **Catalogue** is what the library does
  with one of them: register, new instance, `srd_inst_channel_set_all` (the hash
  table's order is left open where two channels share a slot), start and the
  four ways of reading an option.
* **I2cEvents** is what the I2C decoder promises to the decoders above it: the
  order of its packets. **I2cBus** is `i2c_c.c` on two wires, together with a
  reading of the wires by the bus's own rules (`bus`, `said`); it is shown to
  implement I2cEvents.
* **I2cDevices** composes I2cEvents with one stacked decoder out of
  **I2cSensors**, **I2cChips** (memories among them) and **I2cHosts** (with the
  decoders that pass transfers on). A decoder X is a pair of `X_reset` and
  `X_recv(s, packet)`; what it puts out in a step is `s.rep` (and `s.sent` for
  relays). **Stacked** holds what they share. Besides the decoder there are the
  transfer on the bus (`xfer`, part by part), its packets (`seen`, for decoders
  that hand them on), the register pointer of a DS1307 (`ptr`) and the bytes the
  bus has carried for its registers (`carried`). A report's `reg` is a register,
  a command, `Warning` (the address is another chip's) or `Summary` (put
  together from values the decoder has kept).
* **SerialDevices** composes the characters of two serial lines with one decoder
  out of **SerialFrames**, **SerialPackets** and **SerialTrace**.
* **Captures** runs one bus or line decoder on a capture that begins anywhere and
  holds noise, idle time and frames that are whole, cut off or disturbed. A
  decoder is `X_reset` and `X_step(s, event)`, an event being what one return of
  `c_wait` finds. They are in **SerialLines** (uart, uart_fast, spi, spi_fast,
  qspi, spi_dual_quad), **LineBuses** (can, can_fd, dcc), **DeviceBuses** (mdio,
  lpc, ac97, iso7816), **CardBuses** (emmc_sd, sdcard_sd, sdio),
  **SequenceBuses** (avr_pdi, mipi_rffe, sle44xx, ieee488, ps2, swd),
  **HostBuses** (fsi, usb_power_delivery, z80); **Wires** has the words,
  checksums and edges they share.
* **MCHandshake, MCConditionScan, MCAnnBatch, MCRegistry, MCCatalogue, MCI2cBus,
  MCI2cDevices, MCSerialDevices, MCBusDecoders** instantiate them; the last four
  also hold the bytes and frames each decoder is fed with.
* **DecodeHandshakeProofs, ConditionScanProofs, AnnBatchProofs, RegistryProofs,
  CatalogueProofs, I2cBusProofs** prove about the module they are named for, and
  so does **I2cDevicesProofs**; it extends **I2cStackProofs**, which has what all
  decoders stacked on I2C need and the proofs about relays. See Proofs below.

Operators named `...Bug` are deliberately wrong variants of the definition
after them, used to show that the properties notice such mistakes. `TypeOK` of
ConditionScan, AnnBatch, Registry and I2cBus is no property of a run, which
spends its time on the others; it is proved (`TypeCorrect` of the four proof
modules).

## Runs

| Run | Shows |
|---|---|
| `handshake` | C and Python decoders, four samples, chunks of one or two, one terminate_reset: types, `Accounting` (the inductive invariant), pointer validity, quiet reset, sends and terminations return, failures of decode() are reported until the instance is first told to stop, refinement of SendService |
| `scan_chunks` | wait() agrees with the reference for every capture of four samples on two channels, chunks of one and three, all term types, conjunctions, alternatives, skips and initial pins, as long as the scanner has not met the two cases of `Upset`; with and without unchanging channels passed as constants (then for waits on single edges and levels) |
| `ann_single` | arena and pool limits; everything is delivered before the session is gone |
| `ann_python` | two Python stacks, resets during sends: order and live strings rest on the GIL; a worker leaves nothing behind |
| `registry_stacks` | no use after free, usable stacks, one feed per instance, chosen IDs that are new where IDs are looked up, release of unstacked instances, for clients that unload only without instances, stack only what is unstacked and build no circle; they may give IDs |
| `catalogue` | 203 of 214 C decoders: tables are read within their bounds, every connected channel arrives at the index the code reads, every option and its default at the code that reads it. The other eleven are named in MCCatalogue with the reason |
| `i2c_bus` | `i2c_c.c` implements I2cEvents whatever the lines do; two transfers after a disturbance it sends exactly what happened on the bus; PACKET is what `data_str` and `packet_str` hold of the list of the transfer's parts, with bytes of fixed and of varying width, and with the packet format `none`, which leaves the list as it is |
| `i2c_devices` | decoders are at rest when the bus is free, warn in parts for other chips and report nothing else of them, show the bytes of the part on the bus, or, in the DS1307's date, bytes the bus has carried for that register, keep the DS1307's pointer, and relay all packets of what they let through, their data as C_BYTES |
| `serial_devices` | bytes are shown in order and once, a synchronization pattern once more as a whole; frames that begin while the decoder is at rest, after a gap or behind another frame, and synchronization patterns in any state, are shown with their last byte; lin, streletz, pn532 and sbus_futaba keep to the arrays they index without a test |
| `bus_decoders` | a correct frame that begins while the decoder is at rest is reported; after enough idle time the decoder is at rest, whatever came before |

These runs violate what a comment of the code says; `findings` quotes it:

| Run | What the code does |
|---|---|
| `handshake_abort_hang` | an aborted send may wait for ever: the reset clears the flags before it looks |
| `catalogue_wiring` | counter, iec and usb_power_delivery declare an optional channel with order 0: connecting it overwrites the first channel's input, and its own index stays unconnected |

### Further counterexamples

Statements of the modules that the code violates, without a run of their own.
TLC finds each within a minute when the configuration is changed as described
and only the statement is checked:

| Statement | Configuration | What the code does |
|---|---|---|
| `PointersValid` | HandshakeAbortHang.cfg | an aborted send returns while a C decoder still reads the packed buffer, which c_decoder_api.c:169-173 calls safe (instance.c:1689) |
| `FailureReported` | MCHandshake.cfg, `Kinds = {"python"}` | after a reset, exceptions of decode() are dropped: `is_task_stop_signal` stays set (instance.c:952; instance.c:1719 promises a fresh instance) |
| `ConsecutiveAccepted` | MCHandshake.cfg, `InclusiveEnd = TRUE` | the inclusive chunk ends of the example at session.c:269 are refused |
| `MatchIsFirst` | ScanChunks.cfg, `Waits <- EdgeWaits`, one channel | after a match on a chunk's last sample the next chunk's first sample is passed over (instance.c:1378), although session.c:275 lets chunks be of any size |
| `MatchIsFirstInside` | ScanChunks.cfg, `Waits <- GatedWaits`, without `WaitsAreSoundHere` | when a conjunction fails on a constant channel, the jump to the end of the chunk leaves `old_pins_array` at the sample jumped from (instance.c:1405, 1410): the next chunk begins with an edge of another channel that was one or more samples ago |
| `NothingMissedInside` | ScanChunks.cfg, `Waits <- SteadyWaits`, without `WaitsAreSoundHere` | the first sample of a constant stretch is an edge, so `no_edge` fails there, and the jump passes over the samples after it, where it holds |
| `DeliversNext` | AnnSingle.cfg, `N = 2`, `Lang <- TwoCStacks` | two C workers stopped together by destroy flush the batch twice (instance.c:1566; session.c:457) |
| `SafeMemory` | RegistryStacks.cfg, `UnloadsInUse = TRUE` | unloading with instances leaves dangling `di_list` entries (instance.c:1806; decoder.c:957) |
| `OneFeed`, `UniqueFound`, `UniqueIds`, `StacksUsable` | RegistryStacks.cfg, `StacksAnywhere = TRUE` | an instance that is on another is stacked once more, or below itself, with SRD_OK: it is taken off the session's list only if it is there, and always appended (instance.c:1000, 1014); it is then fed twice, or the circle is lost to the session |
| `AllReleased` | RegistryStacks.cfg | stacked instances are never freed (session.c:369 says all are) |
| `LoadLists` | RegistryStacks.cfg | a second load returns SRD_OK without listing the decoder (decoder.c:694, 711) |
| `UniqueIds` | RegistryStacks.cfg, `MaxInsts = 4` | generated IDs repeat above the second layer of a stack (instance.c:857, 1059) |
| `Validated` | Catalogue.cfg, `Loadable <- LateLabels` | emmc_sd and sdcard_sd fill their labels in start() (emmc_sd_c.c:895, sdcard_sd_c.c:1076), after register has copied NULL |
| `OptionsHonoured` | Catalogue.cfg, `Loadable <- DeadOption` | options that are never read (arm_etmv3, cyrf6936, iebus, pn532, usb_packet), and sdio's io_block_len, declared as a string and read as a number (sdio_c.c:357) |
| `ClockReported` | I2cDevices.cfg, `Uppers <- Clock` | ds3231 tests the value of the BITS packet for its address and sleeps through every transfer (ds3231_c.c:514) |
| `FieldsInCache` | I2cDevices.cfg, `Uppers <- Monitor`, `DataOf <- Block`, `MaxDataOf <- LongestBlock` | edid shows a field before it has the block |
| `Quoted` | SerialDevices.cfg, `Uppers = {"ufcs"}`, a frame `<<170, 0, 1, 2, 1, 7, 7>>` in MCSerialDevices, without `"ufcs"` in `Misquoting` | ufcs shows the data of a message by its type whatever length the packet has: its checksum and what earlier packets have left in `datapkt` (ufcs_c.c:239, 366) |
| `PacketFits` | SerialDevices.cfg, `Uppers = {"ufcs"}`, a frame of 138 bytes that begins with 170, 0, 1, 2, 132, no noise | ufcs reads the checksum at the length that the packet gives, up to 260, in an array of 136 (ufcs_c.c:349) |
| `FooterShown` | SerialDevices.cfg, `Uppers <- Futaba`, `FramesOf <- Messages`, `FaultsOf <- Valid` | sbus_futaba does not show the footer of a message that is valid |
| `FrameReported` | BusDecoders.cfg, `Decoders <- FastDecoder` | uart_fast waits for falling edges only and finishes a character late or never (uart_fast_c.c:638) |

What was seen while the decoders were modelled, is in the models as the code has
it and is not a property: opentherm's `edges` has 64 entries for 66 edges; swd
stops collecting bits when `bits` is full (swd_c.c:279); qspi shows IO0 for
reads and puts the BITS of the first bit only; spi_dual_quad in SQI mode never
leaves SPI; z80 misses every second instruction of a run of fetches
(z80_c.c:1191); fsi takes the address of any slave's answer for the next relative
one; mdio keeps `clause45_addr` over frames; sle44xx's busy state never ends;
sdcard_sd never clears `is_acmd`; SPI decoders send DATA as one C_BYTES field
(spi_c.c:324) where decoders above them ask for 17 fields; hdmi_scdc's
`databytes` (16) and eeprom24xx's `bytebuf` (1024) are filled without a test;
nunchuk and atsha204a ignore START REPEAT; lin finds only the first BREAK;
j1708 filters the line of DATA packets only; scs never resynchronizes; crsf never
verifies its checksum; pan1321 stays stuck with a full buffer; i2cfilter and
i2cdemux send every packet on as one C_BYTES field, a pointer and a length, cut
to eight fields (i2cfilter_c.c:97, i2cdemux_c.c:93), so that a decoder above
them that reads `fields[0].u8` as after i2c gets a byte of a pointer, and
`c_proto` ignores the output it is called for (c_decoder_api.c:634), so that all
decoders above i2cdemux get all of its streams; i2c's PACKET has some 40 bytes
of a part (i2c_c.c:273), and with the packet format `none` the data of all
transfers are collected until the next reset (i2c_c.c:296); the warnings of
tmp102 and bh1750 name the address kept from before, not the foreign one;
ds1307's date shows a byte that was carried for the register, though not always
the last one; rtc8564 shows at the STOP what earlier transfers have left, or the
-1 and zeros it began with (rtc8564_c.c:222); iso7816 fills `atr_bytes[64]`
without a test and overwrites its own counter with byte 65 (iso7816_c.c:93, 481;
the model's state `OVERRUN`, which no frame of the run reaches).

### Bounds

Four samples in chunks of at most two give a first, a middle and a last chunk,
matches on first and last samples and partly consumed chunks; one reset gives
reuse. Four samples also leave room for a match, a skip of two and an edge on
either side of a border; whether the initial pins are high or taken from sample
0 is tried per channel (low is the mirror image of high). Batches of two with five annotations flush twice and leave a rest;
blocks of three units with strings of 1, 2, 3 and 4 units fit, straddle and
exceed a block; a pool of two overflows. Three instances make a stack of two
plus one beside it, or three layers; one given ID meets the first number that
srd_inst_new chooses. Python and
C decoders differ in code, so both languages occur. Sessions and arena blocks
are interchangeable, hence symmetry sets in runs without liveness.

On the I2C bus bytes with few different bits, one data byte per address and two
addresses per transfer reach every state of the decoder at every bit; buffers of
11 and 12 characters (`DataStr`, `PacketStr`; 128 and 2048 in the code) are full
after two bytes, so both cuts of the PACKET happen, and `MaxKept` transfers are
collected with the packet format `none`; another
disturbance comes only when the decoder has settled (`Rare`). Stacked decoders
get two parts of two or three bytes (as many as their longest command; a whole
block for xfp and edid), their own address and a foreign one; counters that run
on over STOP stop at `MaxCounter`. The register pointer of the DS1307 goes on to 7
where its date is complete. ds3231's summaries are not reached, since it sleeps
(`ClockReported`); the theorem covers them. A serial line sends one to five noise bytes
and two frames. A capture has two frames and one fault, which is a noise
event between frames, a wrong event anywhere in a frame or a frame that is cut
off; `FsiLimit` shortens the break of FSI, which is 256 bits in the code. Decoders are chosen in Init, so one run
holds them all without multiplying their states.

CHECK_DEADLOCK is FALSE where a capture may end.

### Fairness

Threads that can run do run (weak fairness of the worker, of the pending call
and of the termination): mutexes and threads are GLib's and scheduling is the
operating system's. The client is never forced to call. One assumption is the
decoder's, not the library's: it does not wait in place for ever (strong
fairness of `WaitMoves`); a decoder that does blocks its send, and nothing in
the library prevents it. The other modules have no liveness property and no
fairness: a decoder's step is taken whenever a capture goes on.

## Proofs

The eight proof modules hold for every value of the constants: any number of
samples, channels, chunks, stacks, decoders, sessions, instances, bytes and
transfers. Most invariants that matter are not inductive; each proof module
defines the strengthening it needs and has, per part of it, one lemma with one
case per action. The hypotheses of a theorem are assumptions about the client or
about what the author of a decoder writes, named below with what happens without
them.

**DecodeHandshake.** `TypeCorrect`, `OnlyLentScanned` and
`FirstFailureIsReported` hold for every client, one whose second thread calls
`srd_session_terminate_reset` during a send included. So do `PackedUntilStopped`
(packed pointers are into the chunk of the blocked send until termination is
requested) and `JoinedIsGone` (a reset never meets the worker).
`AccountingInvariant`, `WholeChunkTaken` and `NeverRefused` assume that chunk
ends are exclusive (`InclusiveEnd = FALSE`); `PackedPointersValid` and
`ResetIsQuiet` that terminations wait for the pending send
(`ConcurrentAbort = FALSE`); `StepsImplementService` both.
`handshake_abort_hang` and the table of counterexamples show that they are
needed. *Ownership* adds who holds the mutex, that the handle tells whether a
worker exists, where threads can sleep, that a stop request stands exactly while
the worker has ended or a termination is under way, and that new samples belong
to the pending call (`SamplesLent`): a worker in possession of samples implies an
unhandled chunk of a caller that still waits, unless a stop was requested
meanwhile. *Patient* is what a client that waits adds: termination starts
between calls and so never while pointers are held, and a call returns to the
instance it was begun on. *Accounting* adds where the scanner is: inside the
chunk while it is lent (strictly before its end after a match, otherwise the
next scan would run past it), at the chunk's end once it is handed back, and at
the client's next sample between calls and after a reset. *Watched* holds until
the instance is first told to stop: a worker that has failed and not yet told so
has a caller to tell. `StepsImplementService` is the refinement without its
fairness: Init maps to the Init of SendService, and under `Accounting` and
`Patient` each action maps to a step of it or to a stutter.

**ConditionScan.** `NothingMissed` and `MatchIsFirstProved`: wait() returns the
first sample after the previous match that is due, with exactly the conditions
that hold there and its pins, and a chunk is handed back only when nothing in it
was due - for every capture, any cut into chunks, C and Python decoders, with
and without constant channels. *Shaped* holds always: positions stay inside the
lists and the chunk, and a SKIP term never counts past its goal. *OnTrack* holds
until `Upset` and says where a scanner can be: it has not seen a sample
(`Fresh`), has returned (`Returned`), is about to find and take back a skip of
zero (`Rewinding`, `Rewound`), or is `Searching`: `old_pins_array` holds what the
capture has before the current sample, each SKIP term has counted the samples
since the wait began, `match_array` holds those of the conditions tried that the
reference accepts, and `all_skip_allow` stands only as long as every condition
tried failed on a channel that is constant in this chunk, which is what makes
the jump to the end of the chunk (`StuckInChunk`) sound. The waits are those of
`WaitsAreSound`: a SKIP term is the only term of its condition, a skip of zero
the only condition of its wait, and a client that passes constant channels
serves conditions of one term that is no `no_edge`. Without constant channels,
conjunctions of levels and edges are covered; with them, the table of
counterexamples has both restrictions: `old_pins_array` stays behind for the
channels of a conjunction that do change, and `no_edge` begins to hold on the
second constant sample. Outside WaitsAreSound the meaning of SKIP is the code's
alone: next to other terms it counts only the samples it is asked about, and a
skip of zero beside another condition is taken back after or before that one has
been tried, depending on their order.
`MCConditionScan` lets TLC evaluate `WaitsAreSound` for the waits of the run.

**AnnBatch.** `BlocksFitInvariant`, `PoolBoundedInvariant` and `SoundInvariant`
hold in every session, also when workers race. `Control` says which threads can
be inside a put or a flush: the loops of session.c, the GIL, or one stack.
Where that is at most one (`Calm`), `LedgerInvariant` has the batch hold exactly
what was put and not delivered, in order, at every step of a flush; from it
follow `TypeCorrect`, `DeliversNextInvariant`, `TextsLiveInvariant`,
`DrainedInvariant` and `WorkersLeaveNothing` for one stack or for Python stacks
only, and `RightUntilDestroyed` for all others, as long as terminate_reset does
not run beside a send. Two C stacks that are destroyed are the counterexample of
the table.

**Registry.** `StructureInvariant`, `TypeCorrect` and
`UnstackedReleasedInvariant` hold for every client, one that stacks an instance
twice or in a circle included. *Structure* is what the library keeps by itself:
lists hold made instances of existing sessions, listed C decoders have their
library open, shutdown has its order. That stacks are trees without shared parts
(`Forest`) is the client's doing, since srd_inst_stack tests nothing:
`OneFeedInvariant` and `UniqueFoundInvariant` assume `StacksAnywhere = FALSE`,
`SafeMemoryInvariant` and `StacksUsableInvariant` also that decoders are unloaded
only without instances; `UniqueIdsUnstacked` and `AllReleasedUnstacked` are for
clients that do not stack. The table shows that they are needed. `UniqueFound`
says of a client that gives IDs itself that two can be equal only if the younger
one was given. What a session reaches at any depth is the smallest set closed
under `next_di`, so a bound on it is proved by exhibiting a closed set, and
nothing rests on the depth of a stack.

**Catalogue.** `ChannelsWiredInvariant` and `OptionsHonouredInvariant` say what
the author of a C decoder has to take care of, since registering checks nothing:
orders that are the indices of the list (`OrderIsIndex`), and option calls that
agree with the options declared (`ReadsAgree`). TLC evaluates both for the
decoders of the run (`AuthorsTookCare`). *Made* relates the copied tables and
the channel map to the declaration, *Chosen* the stored options to what the host
set.

**I2cBus.** `TypeCorrect` and `EventsImplemented` (the refinement of I2cEvents,
complete: it has no fairness) follow from *Sound*, for any bytes, transfers of
any length and lines that do anything. `TranscriptKept` and
`PacketsAreTransfers` need *InStep* and *Mirror*: a decoder that missed a
condition sees the same clock pulses as the bus, so it is k pulses ahead in its
count (`Ahead`), `Lags` bounds k by the transfers since the disturbance, and
after two of them k is 0; then decoder and bus hold the same bits, parts and
direction. `PacketsAreTransfers` is for buffers of any size and any packet
format: the text is a function of the parts, each cut where `data_str` is full
and all together where `packet_str` is (`IsTextOf`).

**I2cDevices.** All five properties of the run, for any addresses, bytes,
transfers of any length, and resets at any moment. `DevicesHold` is
`BusOK /\ DecoderOK /\ Respects`: *BusOK* says that behind an address there is a
part of the direction announced, *Respects* is the conjunction of `AtRest`,
`OnlyItsOwn` and `BytesOfPart`, and *DecoderOK* has an invariant per decoder,
`tmp102_OK` and so on, which says in which states the decoder can be in each
phase of the bus, whose part it then takes it for, and what its buffer holds:
the last bytes of the part (`Fills`, up to the size of the array), or none.
Reports put together from kept values are apart from this: for ds1307 the
invariant adds that each value it keeps for a register was `carried` for it. From
it follow `RestsWhenFree`, `ReportsItsOwn`, `ReportsBusBytes` and, for ds1307
with its pointer, `RegisterFollows`. Every decoder has three lemmas: it begins
there (`_Begin`), a step of the bus keeps it there (`_Step`, one case per packet
and state), and nothing else happens (`_Idle`). The decoders that the properties
name are covered (`Followed`), of which three (`Plain`) need no more than their
state. `OnlyItsOwn` says of the seven that check the address of every part
that they warn exactly in parts for other chips. `RelaysHold` and
`WhatWasOnTheBus` do the same for relays, packet by packet in the form in which
they are sent on (`Resent`). i2cdemux finds
a stream for every address because its table holds different addresses of seven
bits and has 128 places (`Different`, `RoomForSlaves`: a counting argument);
i2cfilter's buffer has the packets since the START or the last repeated START
(`Since`); i2c_packet's list has the parts with data in their order
(`ListsUpTo`: an embedding into the transfer that grows with it). `Relayed` keeps
to the sizes of the arrays: i2cdemux and i2cfilter drop what comes after packet
1024, and what i2c_packet writes after its text buffer is full is not modelled
(`Fits`).

Where a model was changed for its proof, it became closer to the code. Cases
that overlapped in I2cBus and in stacked decoders, of which TLC takes the first,
are disjoint or IFs in the order of the code; the scan, once a fold over
conditions and terms, has an action per term; the handlers of the relays are
operators of their own, one per branch. `RegisterIsDevices` compares the report
with the pointer before the step, as an action property.

Only model-checked:

* `SendReturns`, `TerminateReturns` and the fairness of `ImplementsService`:
  liveness and ENABLED are outside what the provers handle.
* `Validated` of Catalogue, a statement about 214 tables: as a theorem its
  hypothesis would be the statement itself.
* SerialDevices and Captures with the decoders they run: their words, checksums
  and reports are recursive operators and folds over data of any length, and need
  induction over an operator.

## Not modelled

* The `read_sample` callback of `term_matches`, `c_pin_cache`, widths of
  `match_array` (a set here; from the 32nd condition on the shift at
  instance.c:1400 is undefined, and no decoder has that many).
* Options and metadata of Python decoders and their parsing; `register()` and
  `has_channel()` of the Python binding: conversions without shared state.
* put() of binary, logic, meta and analog data: it calls the callback at once.
* Out-of-memory paths (GLib aborts), logging, error texts, version numbers; the
  session counter, which is not locked (session.c:78) and only logged.
* A C decoder that puts after handing back its chunk, and Python builds without
  a GIL: both turn `ann_python`'s argument into the race of two C stacks. A
  Python decoder that puts while its session is destroyed is refused, in the
  model as in the code (type_decoder.c:588).
* A zero-length chunk, which `srd_inst_decode` accepts when start equals end.
* Of the decoders: texts of annotations, with them the buffers i2c_packet
  builds its text in (8192 and 4096 characters, i2c_packet_c.c:50; nothing tests
  that a transfer fits), units, sample numbers and bit rates;
  the parallel mode of ieee488; times, where a decoder only measures them.
  Decoders of pulse lengths, analog values and of further stacked protocols have
  only their declarations in the models; pwm_waveform and numbers_and_state
  build even these at run time. Python decoders are the originals of the C
  decoders and are not modelled a second time; IRMP is vendored.

## Plan

1. Done: handshake, service, matching, batch, registry; first theorems.
2. Done: declarations of the C decoders with channels and options; the I2C
   decoder and its specification; the decoders stacked on I2C and UART; the bus
   and line decoders.
3. Done: the safety properties of the runs about the core, the I2C decoder and
   the decoders stacked on it, as theorems, and the safety parts of both
   refinements.
4. Prove: `NothingMissed` for SKIP terms in conjunctions, against a reference
   that counts as the code does; a service like SendService that a send which is
   aborted implements, too.
5. Extend: 1-Wire and JTAG with the decoders stacked on them, SPI devices,
   zero-length chunks, stacks in the termination loops of DecodeHandshake.
