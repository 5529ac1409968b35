# mm-iot-zephyr: TLA+ models and proofs

`mm-iot-zephyr` is a Zephyr module that drives Morse Micro's Wi-Fi HaLow chips.
The radio stack itself (`morselib`, seen as the `mmwlan` API) is a binary; the
repository holds the driver that joins it to Zephyr's network stack, the shims
that give it an operating system and a bus, and sample applications. This
directory models the parts of that code whose behaviour depends on the order of
events, checks the models with TLC and proves the central results with TLAPS.

File names below are relative to `src/drivers/wifi/morsemicro/` unless they
start with `src/`.

## Components

| component | state | operations | hard behaviour | what makes it correct |
|---|---|---|---|---|
| Station management (`wifi_mgmt.c`, `net_mgmt.c`) | `mmwlan_state`, `channel_list`, `sta.status`, `sta.scan_prev_state`, `sta.sta_args`; up and dormant flags of the interface | scan, connect, disconnect, reg_domain, iface_status, get_version, interface initialisation; scan and link callbacks | callbacks on the library's event loop between any two statements of a handler, no lock; a start-up of seven steps each of which may fail | the radio obeys the region reported; the status follows the link; a switch that returns 0 has taken effect; nothing is delivered after a withdrawal |
| AP management (`wifi_mgmt.c`) | `ap.status`, `ap.ap_args`, `ap.s1g_bw_mhz` | ap_enable, ap_disable, config_params, s1g_bandwidth; AP station events | channel derivation with wrap-around and division; arguments written before they are validated | a derived channel is the regulatory channel that contains the primary |
| Packet path (`net_mgmt.c`) | packets in flight | `mmnetif_tx`, `mmnetif_rx` | blocking wait after the state check; ownership on error paths | every packet is released exactly once |
| Deep-sleep vetoes (`shims/mmhal_core.c`, `morsemicro_common.c`) | `deep_sleep_vetos`, the PM busy flag | set, clear, PM action | two words updated separately | a veto that is set shows in the flag; never busy without one |
| OS abstraction (`shims/mmosal.c`) | tasks, mutexes, semaphores, queues, timers | create, delete, wait, give, join | owner recorded outside the lock; task memory freed by an abort hook | owner and lock agree; a deleted object is not used |
| Bus and interrupt shims (`morsemicro_spi.c`, `morsemicro_sdio.c`, `shims/mmhal_wlan.c`) | handler, interrupt enable, poll interval | arm, disarm, query, reset | look-then-arm against arm-then-look | no wake-up is lost for ever |
| Firmware and BCF readers (`shims/mmhal_wlan_binaries.c`) | none | read a slice | arithmetic at the end | a slice is inside the image |
| STM32 SPI driver (`src/drivers/spi/spi_ll_stm32_optim.c`) | context lock, status flags, PM policy lock | transceive, DMA, ISR | time-out racing completion; error exits | locks are given back; a transfer's result is its own |
| Sample applications (`src/samples`) | event semaphores, `done`, `mqtt_is_connected` | blocking connect, disconnect, scan; MQTT session; UDP echo | late events after a time-out | an answer belongs to its request |
| Porting assistant (`src/samples/porting_assistant`) | none across tests | SDIO-over-SPI framing, TLV walk | splitting at block and 64 KiB boundaries | the pieces are the whole |
| EdgeZ policies (inline functions under `src/submodules/edgez-halow-mesh-prebuilt/include`) | scan deadline, scan busy flag, recovery slots | defer, submit, forward, recover | compare-and-swap over wrapping ticks; completion before enqueue returns | a granted hold holds to its end; one scan at a time; at most three attempts |

How they interact. Zephyr's `net_mgmt` calls a handler on the thread of the
caller (the shell, an application). The handler calls `mmwlan`, which works on
an event-loop thread made by `mmosal_task_create`; that thread calls back into
`scan_callback`, `scan_complete_callback`, `mmnetif_vif_state` and `mmnetif_rx`.
Handler and callbacks share `struct morsemicro_data` without a lock. The library
reaches the chip through the bus shims, is woken by their interrupt callback,
and holds off system sleep through the vetoes. Applications see only events and
the status.

Not modelled: `morselib` and the EdgeZ archives (binaries), the hostap, mbedTLS,
regdb and build glue, boards and device-tree bindings, host-side scripts, the
tests (used as statements of intent). Of the modelled components these parts have
no state, or none that anything else depends on, and are left out: `mmosal`'s
wrappers of allocation, formatting, sleep and time; the MAC address, device id
and random numbers of `mmhal`; `wifi_scan_blocking`, which no sample calls; the
register-level set-up and the slave mode of the SPI driver; the frame layout and
reassembly of `edgez_pawr_bulk.h`, whose only user is a closed library.
`PROJECT.json` lists each component with its reason.

## Modules

| module | models |
|---|---|
| `WifiSta` | station management: handlers, start-up sequence, callbacks |
| `RadioPermit` | what the region switch promises of the radio; `WifiSta` implements it |
| `MCWifiSta` | the instances of `WifiSta` for TLC |
| `WifiStaProofs` | theorems about `WifiSta` |
| `ApChannel` | the functions that derive an access point's operating channel |
| `ApMode` | access-point management: requests, region switch, callback; extends `ApChannel` |
| `MCApMode` | its instance for TLC, with two small regulatory databases |
| `ApModeProofs` | the theorems of both |
| `DeepSleepVeto` | vetoes, busy flag, suspend and resume |
| `OsalMutex`, `OsalCritical`, `OsalTask`, `OsalSignal`, `OsalTimer` | the services of the OS abstraction, one module each |
| `MCOsal` | the five and `DeepSleepVeto` side by side, for TLC |
| `OsalProofs` | theorems about each of them and about `DeepSleepVeto` |
| `LevelIrq` | what the driver wants of the chip's interrupt line |
| `ChipIrq` | how the shims arm and look at the line; implements `LevelIrq` |
| `ChipBus` | reset, wake, the training sequence and the shared SPI bus |
| `PacketPath` | who owns a packet between the stack and the library |
| `EdgezPolicies` | the inline policies of the mesh |
| `MCDriver` | those four (without `LevelIrq`) side by side, for TLC |
| `DriverProofs` | theorems about `ChipIrq`, `ChipBus`, `PacketPath`, `EdgezPolicies` |
| `SpiStm32`, `SpiProofs` | the STM32 SPI driver and its theorems |
| `SampleWifi` | the Wi-Fi helpers of the station samples and the events they wait for |
| `SampleApps`, `SampleProofs` | the mains of the samples, extending `SampleWifi`; their theorems |
| `SdioSpi` | access to chip memory over SDIO |
| `BlobReader` | the readers of firmware and BCF, and the walk that validates an image |
| `PortingTests` | the steps of the porting assistant |
| `MCPorting` | the last three side by side, for TLC |
| `PortingProofs` | theorems about each of the three |
| `ArithmeticLemmas` | division by an unknown number and least members, for the proofs |

Parts that share no state are put side by side in one MC module and a behaviour
is about one of them, chosen in its first state (`service`, `part`): the
behaviours of each are then those of its own specification, which is what the
proofs are about.

### WifiSta

State. The fields of `struct morsemicro_data` keep their names; `channel_list`
is the region of the list it points to, `None` for NULL; `ssid` is
`sta.sta_args.ssid`. `if_up` and `dormant` are the flags of the Zephyr
interface. `pc` is the point a handler has reached, `region` and `ret` its
argument and result. The library is `lib` (off, initialised, booted, stopping,
stopped), the list it was given, whether the link-state callback is registered,
the scan in flight, the network it is to join (`goal`), the network it is linked
to (`link`), and the callback its event loop is in (`ev`). `notified` and
`stale` record what an observer sees: the last result event and the error of
`scan_callback`. `early` and `moved` are history variables, used in properties
only.

Steps. One request runs at a time; the event loop runs between any two of its
steps. The steps are cut where a handler writes something a callback reads, or
calls something that can fail or lets a callback run:

- `morsemicro_mgmt_scan`: `Scan` (library call), `ScanSavePrev`, `ScanSetStatus`;
- `morsemicro_mgmt_connect` and `_disconnect`: one action each, as nothing they
  write is read by a callback;
- `morsemicro_mgmt_reg_domain` SET: `SetRegion` (abort the scan), `SetShutdown`
  and `SetStopped` (call and return of `mmwlan_shutdown`), `SetClear` (drop the
  list; "00" releases the library), the start-up, `SetEnd` (interface down);
- `morsemicro_wlan_start`: `StartLookup`, `StartBoot`, `StartBooted`,
  `StartSetAddr`, `StartRegister`, `StartVersion`, shared by reg_domain and by
  `morsemicro_iface_init`; each that may fail has a disjunct in which it does;
- callbacks: `ScanResult`, `ScanComplete`, and `mmnetif_vif_state` in two steps
  (`LinkLost`, `AttemptFails` or `LinkUp` up to the event raised, then
  `LinkDownStatus` or `LinkUpStatus`), since the code raises the event before it
  assigns the status.

Assumed of `mmwlan`: its callbacks run one after the other on one thread; one
scan at a time; scans, attempts and links exist only while it is booted; when
`mmwlan_shutdown` returns 0 the scan has ended, the link is down and no callback
is running; `mmwlan_init` forgets registered callbacks. A failed shutdown leaves
things as they were.

Left out: the contents of scan results and of the status report beyond state
and SSID, credentials, the AP interface (`ApMode`), `net_if_set_link_addr` failing (logged
and ignored by the code). reg_domain GET and get_version change nothing and
appear as the operators `ReportedRegion` and `VersionKnown`.

### ApChannel

One operator per C function: `PrimaryIdx` (`calc_primary_chan_idx`),
`OperatingChannel` (`find_operating_channel`), `Derive`
(`derive_operating_channel`, `NoOperation` for `-ENOENT`) and `ChannelIsValid`.
A loop that stops at the first match is `FirstOf` the indices that match. `/`
on `int32_t` is `Quotient`, rounding towards zero; the casts between the signed
class of an entry and `uint16_t` are `ToUnsigned` and `ToSigned`. What the
functions are meant to compute is stated apart from them in terms of band edges:
`Carries` (an entry carries an operation for a primary) and `HasOperation` (the
band has one).

### ApMode

The driver's fields keep their names; `ap_args` keeps the operating channel and
`max_stas`. The library is `booted`, the access point it was asked to run
(`goal`), the one on air, and the callback about to run. An access point also
remembers the primary and the bandwidth that were asked for, for the properties.

- `SetBandwidth`, `ConfigParams`, `ApEnable`, `ApDisable`: one action per
  handler, whose exits are its disjuncts. Modelled is the build for an unpatched
  Zephyr (`CONFIG_WIFI_MORSEMICRO_UNPATCHED_WORKAROUNDS`), where a request of
  its own stages the bandwidth.
- `SetRegion`, `Stopped`, then `Release` or one of `StartUnknown`, `StartFails`,
  `StartAp`: the region switch. `WifiSta` has its steps one by one; here they
  are grouped by what they leave of the access point, since between the shutdown
  and the end of the switch the library has nothing to call back about.
- `ApUp`, `ApDown`: the library; `VifState`: `mmnetif_vif_state` on the AP
  interface, where no event is raised.

Left out: credentials and SSID, forwarding of station events, result events,
the down/up bracket around the MAC address, a station and an access point at the
same time.

### DeepSleepVeto

Each identifier belongs to one client, as morselib's veto identifiers do.
`mmhal_set_deep_sleep_veto` is two steps, bit then flag;
`mmhal_clear_deep_sleep_veto` three: bit, second look at the mask, flag.
`Suspend` is what the idle thread does: a busy device is passed over, any other
is asked through `morsemicro_pm_action`. As the idle thread runs only when no
other can, no client is inside a call then, and none runs before `Resume`.
`stale` remembers clients that have seen the mask empty and that a set has
overtaken before they clear the flag, `lost` that one of them has cleared the
flag of a veto and nobody has set it since. That a device with a veto is not
suspended is `morsemicro_pm_action`'s own test and needs no property.

### OsalMutex, OsalCritical, OsalTask, OsalSignal, OsalTimer

The kernel objects (`k_mutex`, `irq_lock`, threads, `k_sem`, `k_msgq`, `k_timer`)
are external: their atomic operations are the steps, and what `mmosal.c` does
before and after them is a step of its own.

- `OsalMutex`: `mmosal_mutex_get` is `MutexGet` and then `MutexSetOwner`;
  `mmosal_mutex_release` is `MutexRelease` and then `MutexClearOwner`, so that
  other tasks run between the lock and the owner. `blurred` remembers that the
  last store was a release's `NULL` over a mutex that was held.
- `OsalCritical`: enter and exit with the one key they share. `nested` remembers
  that a section was entered inside another.
- `OsalTask`: block, stack, thread, custom data and start in the order of
  `mmosal_task_create`; the abort hook; joins, which may come after the hook has
  freed what they look at (`late`). What such a join returns is not stated: the
  kernel's wake-up is external, and nothing in the repository says.
- `OsalSignal`: producers that push and give, a consumer that waits and empties
  the queue; the look at the count and the give are two steps.
- `OsalTimer`: the requested period and reload beside the kernel's own counter.

### ChipIrq, LevelIrq, ChipBus

`ChipIrq` has the line (a level, held by the chip while it has something to be
retrieved), the edge detector (`armed`), the pending interrupt, and the shims'
orders: `SpiLook` then `SpiArm`, `SdioArm` then `SdioLook`, and for BUSY `BusyArm`
and the look of its user. A look may fail to read the pin and counts as not
asserted then, and a controller may fail to arm or to disarm: the shims do not
look at what it answers. `missed` names why the library has not been told: the line rose
in the `window` between look and arming, there was no `handler`, the pin could
not be `read`, the `controller` raises no interrupt. That the library disables
the interrupt, retrieves and enables again is how it uses the shims; the poll is
its own, and `mmhal_spi_irq_poll_interval` tells it how often.

`LevelIrq` is the comment in `mmhal_wlan_set_spi_irq_enabled`, "Ideally the
interrupt pin would be configured as a low level interrupt": two variables,
`line` and `told`. `ChipIrq` implements it with the library taken to know of the
line when it has been told and while it enables or serves.

`ChipBus` follows the pins and the lock of the SPI controller from
`mmhal_wlan_init` to `mmhal_wlan_deinit`, one step per exit of
`mmhal_wlan_send_training_seq`. Assumed of the library: it trains the chip
before the driver's first transfer, as a training that waits for the driver's
own lock would wait for ever.

### PacketPath

`mmnetif_tx`, `mmnetif_tx_ap` and `mmnetif_rx` cut at every call that can fail or
wait; `tx_pkt`, `rx_mmpkt` and `rx_pkt` say whose each buffer is. The region
switch is two steps that may come anywhere (`WifiSta` has all of them).

### EdgezPolicies

The deferral of scans is its compare-and-swap loop (`DeferStart`, `DeferLoad`,
`DeferTry`), the submission of scans is cut around the enqueue, the forwarding of
a frame is one step per attempt, the recovery of peers one step per frame. Ticks
are numbers modulo `Wrap` compared by the sign of their difference, and time runs
round and round. `WrapAssumption` is what the code asks for: holds of less than
`INT32_MAX` ticks (`edgez_scan_policy.h:12`), a cooldown that is positive as
`int32_t`. The one bound is that a call of `edgez_scan_defer` lasts less than half
the range, 24 days at 1 kHz. A scan may complete, or be aborted, before the call
that queued it has returned, and that call may fail nevertheless.

The histories say what has been promised and where the code cannot keep it:

- `ends`: ticks until the hold ends that a caller was granted. A swap by a caller
  whose clock is half the range behind the deadline (`Stale`) sees a hold that
  has passed and cuts it short: `LeftBy` takes the promise back;
- `lapsed`: the deadline was half the range back, and may seem to lie ahead;
- `uncovered`: callers whose scan `busy` does not stand for, as another's failure
  cleared it;
- `cooling`: ticks until a peer may be recovered; `aged`: slots whose tick was half
  the range back.

### SpiStm32

`mode` is the build: interrupt-driven, polled, or DMA. Clients go through lock,
`spi_stm32_configure`, the build's own way of moving frames, `spi_stm32_complete`
and `spi_context_release`; `Isr`, `DmaCallback` and `Clocked` (the controller)
interleave with them; the system suspends when every thread waits and the policy
lock is not held. `mishaps` is a history of what the driver does not undo:

- `leak`: an error exit of the interrupt or polled build skipped
  `spi_stm32_complete`, and the policy lock stays until the next completion;
- `timeout`: a transfer timed out with the controller left running, and its
  completion may come into a later transfer;
- `late`: the DMA build gave the policy lock back a second time after it had
  released the context, during another client's transfer;
- `dark`: a power-management call failed and left the clock stopped;
- `evicted`: `spi_release` took the lock from another client. The model stops
  there, as two clients may then use the controller at once.

A polled or interrupt-driven build moves frames with or without FIFO
(`ShiftFrames`). In the DMA build a transfer may send and receive different
lengths: a segment is of as many frames as both have left, or the one that has
any. Left out: the asynchronous transfers of the
interrupt build, and `CONFIG_SPI_STM32_ERRATA_BUSY`, under which the wait for the
busy flag is bounded and the transfer goes on.

### SampleWifi, SampleApps

`program` is the sample. A `main` goes through its helpers call by call, any of
which may fail; the driver brings the link up and down and raises events; the
event thread delivers them in order to the callbacks that are registered at that
time. Semaphores are binary, as `K_SEM_DEFINE(.., 0, 1)`, and every `k_sem_take`
may time out when the semaphore is empty. `wait_for_network` registers its
callback (MQTT), looks at the address, then waits. The MQTT main shows two more
things: the wait for `mqtt_conn_sem` in `init_mqtt` always runs out, as only the
waiting thread reads the socket; and the time-out of the handshake is returned
as `rc`, which is 0, after which `main` publishes. A disconnect request raises one
result; what the link-down raises once more comes to a semaphore that nobody
takes again, as each program disconnects once, and is left out.

### SdioSpi, BlobReader, PortingTests

`SdioSpi` is `sdio_startup` and the four access functions over the three window
registers, each CMD52 and CMD53 a step that may fail. What the chip sees of a
CMD53 is computed from the window and the lower 16 bits of the address.
`BlobReader` keeps the readers' unsigned arithmetic (modulo `Wrap`) and walks any
image, cut off at any byte. `PortingTests` runs the thirteen steps in order on
boards whose BUSY line is wired rightly or wrongly; a step is given by what it
does to the state that outlives it and its possible results. `irq_counter` counts
modulo 256, as `uint8_t`. A line that raises too many interrupts raises two for
each pulse; boards whose surplus is a multiple of 256, which the count cannot
tell from a healthy line, are left out.

## Runs

| run | module, configuration | result |
|---|---|---|
| `sta_lifecycle` | `MCWifiSta`, `StaLifecycle.cfg` | passes, 268,033 states |
| `sta_disconnect` | `MCWifiSta`, `StaDisconnect.cfg` | violated: finding 1 |
| `sta_ssid` | `MCWifiSta`, `StaSsid.cfg` | violated: finding 2 |
| `ap_mode` | `MCApMode`, `ApMode.cfg` | passes, 91,665 states |
| `ap_limit` | `MCApMode`, `ApLimit.cfg` | violated: finding 3 |
| `osal` | `MCOsal`, `Osal.cfg` | passes, 74,731 states |
| `driver_parts` | `MCDriver`, `Driver.cfg` | passes, 626,222 states |
| `scan_hold` | `MCDriver`, `ScanHold.cfg` | violated: finding 5 |
| `spi_stm32` | `SpiStm32`, `SpiStm32.cfg` | passes, 126,971 states |
| `samples` | `SampleApps`, `Samples.cfg` | passes, 20,174 states |
| `porting` | `MCPorting`, `Porting.cfg` | passes, 131,569 states |
| `porting_errors` | `MCPorting`, `PortingErrors.cfg` | violated: finding 4 |

Bounds. Four regions give every outcome of the lookup: "AU" and "JP" complete,
so that a switch between two valid regions happens, "NoList" missing from
mmregdb, "NoBcf" missing from the BCF. One SSID suffices where only linked or
not matters; `StaSsid.cfg` has two because the finding is about telling them
apart. No counter is bounded: the state spaces are finite as they are, and
the tick counter wraps round. The two
databases of `MCApMode` have an aligned band, as real ones are, and one whose
1 MHz channels hang over the edges of wider ones by half a megahertz and by a
kilohertz, which is where the rounding of a negative quotient shows; one entry
has a class that is negative as `int16_t`, one is not to be compared. Requests
name a channel of each band and one of 4 MHz, which is no primary. Three
veto clients allow a clear and a set to overlap with a third party's veto
present or absent.

`Osal.cfg`: three mutex tasks let two overtake a third inside its release; two
levels of nesting show an inner release and an overwritten key; three producers
with two items each fill a queue of three and a semaphore of two; a joiner may
come early or late to each of two tasks; two periods are one change of period.
`Driver.cfg`: all three lines; a tick counter of 10 values runs round and round,
with holds of 1 and of 3 ticks, the longest allowed there, so that a stale clock,
a lapsed deadline and an aged slot occur; two callers race for one hold and one
scan; three peers compete for two recovery slots, so that one is evicted.
`SpiStm32.cfg`: the three builds, a client that keeps the lock and one that does
not, two frames and a FIFO of two, enough for a frame on its way while another is
sent, and for a second DMA segment. `Samples.cfg`: three waiting events are one
of each kind; two packets are a first and a last. `Porting.cfg`: one call starts
at 0 and one eight bytes before the end of a window that is followed by a change
of the higher register byte; lengths are none, odd, 1496 (blocks and a rest) and
66,560, more than 128 blocks and more than a window; images of up to three fields
with `MAX_TLVS` 2, so that the limit is met; `Wrap` is 64, larger than any image.

Deadlock is not checked where a model may end: a deleted semaphore has no users
left (`Osal`), `SpiStm32` stops when the lock is taken away, and its polled build
can only wait when the clock is gone, a `main` returns (`Samples`), the
assistant's steps come to an end (`Porting`). In the first two, that what should
go on does go on is what `ItemsAreHandled` and `TransferEnds` say.

Fairness (`FairSpec`). A handler that has begun runs on, and a callback that
has begun ends, because both are straight-line code on threads the kernel
schedules; a scan ends or is aborted, and a link the station was told to leave
goes down, because the library promises it. Nobody is obliged to issue a
request and no attempt to join has to succeed.

In `ApMode` the same holds of the switch, of the callback, and of `ApDown`: the
library takes down an access point it was told to disable or to shut down. No
access point has to come up.

In `Osal` a producer that has pushed gives its signal and the consumer's task
runs. In `ChipIrq` an interrupt is taken and the library's task runs; the poll
is relied on for known misses only, so that a wake-up lost for another reason would show. In `SpiStm32`
the system resumes (weak), and clients and the controller's clock go on whenever
the system is awake again and again (strong: it may suspend between any two
steps). In the samples `main` and the event thread run, and the 8 s of
`init_mqtt` pass. No driver has to succeed and no event has to come.

What `sta_lifecycle` shows:

- `NoStaleResult`: no scan result reaches `scan_callback` once the region is
  withdrawn (`test_reg_domain_switch_during_scan`);
- `RadioObeysReportedRegion`: a running radio uses the list that GET reports,
  also after a start-up that failed half-way;
- `ReleasedIsDisabled`: after "00" the interface stays disabled;
- `OperationalHasLink`: not dormant implies linked, so DHCP has a link;
- `StatusFollowsLink`: at rest COMPLETED means linked, unless since the last
  successful start a scan outran its request or the link moved during a scan;
- `SuccessfulSetTakesEffect`: what a switch that returns 0 guarantees;
- `FailedAttemptReported`: a failed attempt raises the disconnect event a
  blocked caller waits for, with the same two exceptions;
- `ImplementsRadioPermit`: the dozen steps of a switch, any of which may fail with
  the event loop at work between them, are to the outside the six of
  `RadioPermit`: the radio opens under the region GET reports, that region is
  withdrawn or exchanged only when the radio is closed, and a radio told to close
  begins nothing new and does close;
- `SwitchEnds`, `ScanningEnds`: liveness of the region switch and of SCANNING.

The exceptions are the code's own windows. They are named in the properties
instead of being assumed away, and two of them are findings or hazards:

1. `scan_complete_callback` restores the state saved when the scan began. A
   disconnect during a scan ends with COMPLETED and no link.
2. `connect` writes `sta_args` before it validates the request. A rejected
   connect while linked changes the SSID that the status reports.

What `ap_mode` shows:

- `OnAirAsRequested`: the access point on air lies in the active channel list
  and carries the primary asked for, through every region switch;
- `EnableFollowsRegdb`: `ap_enable` refuses a channel exactly when the band has
  no operating channel of the staged width around it;
- `StatusFollowsAp`, `ReleasedIsDisabled`: `ap.status` and the dormant flag
  follow the access point although the start-up never assigns them;
- `DisableTakesEffect`: a disabled access point ceases to be reported.

`ap_limit` checks the comment on `ap_config_params`, "Takes effect on the next
ap_enable", as `MaxStasTakesEffect`:

3. `morsemicro_wlan_start` copies `MMWLAN_AP_ARGS_INIT` over `ap_args`. A region
   switch between `ap_config_params` and `ap_enable` silently restores the
   default limit.

What `osal` shows:

- `HeldAnswerSound`: `mmosal_mutex_is_held_by_active_task` never says yes to a
  task that does not hold the mutex, and says no to one that does only when a
  release's late store came over its own (`blurred`);
- `OneKeySuffices`: one static key restores interrupts, unless sections nest;
- `EndedTaskOwnsNothing`: whichever allocation failed, a task that is gone has
  given its memory back;
- `ItemsAreHandled`: a give refused because the semaphore looked full, or
  saturated, loses no item: what is in the queue is popped;
- `TimerFiresWhenDue`: after any sequence of start, stop and change of period
  the callback comes when the last of them asks for it, and never otherwise;
- `FlagLostOnlyByOvertaking`: a veto whose set has returned is in the busy flag,
  unless a clear that saw the mask empty was overtaken by a set and reached the
  flag after it (`lost`), the window in `mmhal_clear_deep_sleep_veto`;
- `BusyNotStuck`: two clears at once do not each leave the flag to the other.

What `driver_parts` shows:

- `OnlyKnownMisses`: while the interrupt is enabled an asserted line is known,
  or about to be, except for the four named reasons;
- `ImplementsLevelIrq`: with the poll for those reasons, edge and look together
  are as good as a level interrupt;
- `BusUsable`: after a training and after `mmhal_wlan_deinit` chip select and bus
  are as others expect them, unless a step of a training failed, and apart from
  a `spi_release` that interrupts the other device (`evicted`);
- `BuffersSettled`: each packet buffer is released or handed on once on every
  path, whenever the library is shut down;
- `HoldKept`: a hold that was granted holds until its end, unless a stale clock
  has cut it short, and none holds that nobody was granted, until the deadline has
  lapsed by half the range;
- `PoliciesKept`: `OneScan` (a second scan runs only beside one that another's
  failure uncovered), `ForwardedOnce`, and `CooldownKept` (a peer is refused while
  it cools down unless evicted, and no longer unless its tick has aged).

`scan_hold` checks the comment on `edgez_scan_defer`, "CAS prevents a shorter
concurrent request from overwriting a longer hold", as `LongerHoldKept`:

5. The function tells a deadline that has passed by its difference to a clock that
   was read before. A deadline that another caller has set, less than `INT32_MAX`
   ticks ahead of a later clock, may lie more than that ahead of this one; it
   looks past, and the shorter request is swapped in.

What `spi_stm32` shows: `SectionExclusive` (one client at a time, with its own
configuration), `ResultIsOwn` (success means that its own frames are done, unless
an earlier transfer timed out), `PolicyFollowsTransfer` (the policy lock is held
while frames move and given back after, with the named mishaps), `TransferEnds`.

What `samples` shows: `TruthfulAnswers` (what a `main` takes for done has been
done, whatever events of failed attempts are pending), `NoLostWakeup` (no wait
misses its event), `MainEnds` (every `main` reaches its end or its loop).

What `porting` shows:

- `TransfersRight`: each access goes where the caller meant, inside one window
  and inside the range asked for, also after calls that failed half-way through
  the window's registers; success means that all bytes have moved. The one call
  left out of the last part is `sdio_spi_read_multi_byte`, which does not look
  at the result of its reads;
- `ImagesJudgedRight`: an image passes the walk if and only if it is whole,
  wherever it is cut, and no reader hands out a byte beyond its end;
- `StepsSound`: steps rely on what earlier ones have established, and the BUSY
  step passes on a healthy line only and cleans up after itself.

`porting_errors` checks the comment on `process_sdio_spi_multi_byte_return`
(`test_wlan_io.c:245`), which promises false for every code but success, as
`ErrorsFailTheStep`:

4. The function is a `bool` and returns `TEST_FAILED`, which is 3. Its callers see
   true for every code, and a step whose access failed compares what an earlier
   access left behind, and may pass.

## Proofs

`WifiStaProofs` proves, for any set of regions and SSIDs under
`WifiStaAssumption`, that `TypeOK`, `NoStaleResult`,
`RadioObeysReportedRegion`, `ReleasedIsDisabled` and `OperationalHasLink` hold
in every reachable state. None of the last four is inductive. The invariant
`Inv` adds what carries them across a region switch:

- `StoppedIsQuiet`: a library that is off, initialised or stopped has no scan,
  no link, no network to join and no callback running;
- `HandlerSeesLibrary`: between the shutdown and the boot a handler sees a
  stopped library, after the boot a running one with nothing in flight, since
  nobody has asked it for anything yet;
- `HeldWhileUsed`: the library runs, and is used by a scan or a start-up step,
  only while `mmwlan_state` says so, but for the moment between the boot and
  the assignment;
- `DormantBeforeCallback`: the interface is dormant from the address change to
  the registration of the callback.

`TypeStep` proves that every action preserves `TypeOK`, `SafeStep` the rest,
one step per action; `InvInit` and the two lemmas give `Invariance`, and each
theorem follows from it.

`OsalProofs` proves `FlagLostOnlyByOvertaking` and `BusyNotStuck` for any set of
veto clients. The strengthening is that a client about to raise the flag still
holds its veto and one about to clear it holds none (`SetterHolds`), that a client
which has seen the mask empty was overtaken or sees it empty still
(`ClearersKnown`), and that a raised flag over an empty mask has a client on its
way to clear it (`ClearPending`).

`ApModeProofs` begins with the pure functions of `ApChannel`, for any channel list whose
numbers are unique (`Regular`). `DeriveFound` reduces `Derive` to the existence
of two entries; `DeriveSound` then says that the result is an entry around the
primary with the primary's slots inside it, which `ChannelIsValid` accepts;
`DeriveComplete`, that there is a result whenever the band allows one. The index
is found by `SlotInRange`, from the bounds on the quotient. `DeriveExact` adds
what an `Aligned` band gives: no rounding happens at all. That the least index
of a match exists rests on the well-foundedness of the naturals (`FirstOfMember`).

It then proves `TypeOK`, `OnAirAsRequested`, `StatusFollowsAp`,
`ReleasedIsDisabled` and `EnableFollowsRegdb`, under `ApModeAssumption`: any
regions and any database of `Regular` lists. `OnAirAsRequested` is not inductive
on its own; the invariant adds that whatever is wanted meets its request too
(`OnlyMeeting`), and that the list is exchanged only with nothing wanted, nothing
on air and no callback pending (`SwitchIsQuiet`, `StoppedIsQuiet`).
`StatusShown` strengthens `StatusFollowsAp` by what is left where the library
has forgotten the callback: an inactive, dormant interface.

`Regular` is assumed because the lists are data of `mmregdb`, outside the
repository; a second entry of a number could hide the one that fits.

`WifiStaProofs` also proves what the invariant says of the status and of the
switch. `StatusFollowsLink` needs `StatusKept` (between two callbacks the status,
or during a scan the saved state, is right; a callback in progress is about to
make it right) and `ScanningKept` (SCANNING is never the saved state), and the
same two give the action property `FailedAttemptReported`.
`SuccessfulSetTakesEffect` rests on `StartProgress`, what `wlan_start` has done so
far, and on `SwitchDone`, that nothing undoes a start before the handler returns.

`ImplementsRadioPermitSafely` maps every step of `WifiSta` to a step or a stutter of
`RadioPermit` (`PermitStep`), from `Inv` alone: the radio is what the library is
between boot and the return of `mmwlan_shutdown`, and `HandlerSeesLibrary` is what
makes a change of the channel list one of a closed radio.

`OsalProofs` also has an invariant per service. For `HeldAnswerSound` a task that is
storing itself as the owner holds the mutex (`StorerHolds`), one that deletes the
mutex is alone (`DeleterAlone`), and the nesting count is zero exactly when
nobody holds it (`NestingCounts`). `OneKeySuffices` adds `FlatSections`.
`ItemsAlwaysSignalled` is the safety half of `ItemsAreHandled`: an item in the
queue has a token, a give in progress or an active consumer behind it.
`EndedTaskOwnsNothing` says of each state of a task what it owns (`TaskOwns`), and
`TimerFiresWhenDue` needs that a running kernel timer repeats with the timer's
period, or has not fired yet (`KernelAgrees`).

`DriverProofs`: `OnlyKnownMisses` needs that what the SPI shim saw before it arms
is still known when it does (`SeenBeforeArmed`). `ImplementsLevelSafely` maps every step of
`ChipIrq` to a step or a stutter of `LevelIrq`; its liveness half stays with TLC.
`BusUsable` needs what each stage of a training has done (`TrainingProgress`),
`BuffersSettled` what each stage of the packet functions owns.

`SpiProofs`: `SectionExclusive` and `ResultIsOwn` rest on `BuildsApart` (each build
has its own places in the code), `IrqProgress` (interrupts and completions are
for a client that waits) and `DmaProgress` (a segment is on its way exactly
while the controller is busy). `PolicyFollowsTransfer` adds a second invariant
over the first: who needs the policy lock has it (`PolicyHeld`), the controller
is on for a transfer that has begun (`OnForTransfer`), a lock that is held has
a client that will give it back (`PolicyOwned`), and the system is never
suspended under it (`SuspendedUnlocked`).

`SampleProofs` proves `TruthfulAnswers` and `NoLostWakeup` for any number of
packets and any bound on the events that wait: the callback is registered before
anything is waited for (`ListensFirst`), a connect result stands for a link that
came up since the request (`ResultIsRecent`), and a wait has its event coming
(`Woken`). What delivery and raising do to a queue are the lemmas `WaitsAppend`
and `WaitsTail`.

`DriverProofs` also proves `HoldKept` and `PoliciesKept`, for any even `Wrap`, any
durations and cooldown the code allows, and any numbers of callers, peers and
slots, with a clock that runs round and round. Ticks are told by `To`, how far
ahead of now they lie as a signed number: one tick of the counter lowers it by one
until it wraps (`Nearer`), what the code adds to the clock lies as far ahead
(`Ahead`), and two ticks compare as their distances do while these differ by less
than half the range (`Apart`); where they differ by more the comparison is off by
the whole range (`ApartRound`), which is what the stale swap and the lapsed
deadline are made of. `HoldInv` says what a deferral asks for (`Asked`: a clock
less than half the range back, a proposal less than that ahead of it), that no
promise reaches beyond the deadline, and that a deadline ahead was granted to
somebody (`Covered`). What the loop's condition tells of the deadline is `Compared`,
whatever has happened to it meanwhile. `RecoveryInv`
says that a slot's tick is what is left of its peer's cooldown. The
code's search is a recursive function over the slots; that it exists is proved by
its prefixes (`ChoicesExist`), and that it yields a slot is `OldestIs`. `RequestInv`
names the one caller that `busy` stands for,
`ForwardInv` ties the attempts counted to the attempts made.

`PortingProofs` proves the three invariants of the `porting` run. `TransfersRight`
needs what is left to move of a call (`CallProgress`) and what the window's
registers hold at each point of setting them (`WindowProgress`); when the chunk
is taken the registers select the wanted window (`SelectedIsWanted`), whatever an
earlier failure had left there. `ImagesJudgedRight` needs where the walk stands in
the image (`WalkProgress`). The offsets of the fields are a recursive function;
that it exists and grows is proved by a smallest counterexample (`StartsExist`,
`StartsGrow`), as no induction principle of the library can be used here.
`StepsSound` needs which boards the counts of the BUSY step still allow
(`BusyCounts`).

`ArithmeticLemmas` holds what the provers have no theory of: quotient and
remainder by an unknown number (`DivModInt`, `InWindow`), multiples (`Multiples`,
`Between`), and that a set of naturals has a least member (`Smallest`).

The theorems hold under the assumptions on constants, which TLC evaluates on its
instances: `WrapAssumption` (an even counter, durations less than `INT32_MAX` and a
positive cooldown as `int32_t`, at least one slot, "none" is no peer), `WindowAssumption` (windows
of a multiple of 512 bytes, addresses aligned to words, addresses and lengths
within the 16 bits of the window's registers), `BlobAssumption` and
`SizeAssumption` (`size_t` holds the size of every image), `BoardAssumption` (the
wirings considered), and those named above.

Only model-checked: the liveness properties (`SwitchEnds`, `ScanningEnds`,
`DisableTakesEffect`, `ItemsAreHandled`, `TransferEnds`, `MainEnds`)
and the liveness halves of the refinements `ImplementsLevelIrq` and
`ImplementsRadioPermit`, which rest on fairness and so on ENABLED. Every invariant and every action property of a
passing run is a theorem.

## What is left

1. A second handler thread in `WifiSta`, once the locking that Zephyr's
   `net_mgmt` gives is stated.
2. The reassembly of `edgez_pawr_bulk.h`.
3. An abstract station that `WifiSta` implements and `SampleWifi` is written
   over; at present the two agree by their comments only.
