# TLA+ models of the Innovusion lidar driver

This directory holds TLA+ specifications of the Innovusion lidar driver for
Apollo (`src/driver/...`). They are checked with TLC. Each module is
translated from the C++ source named in `PROJECT.json` ("map"). Each run in
`PROJECT.json` ("runs") names a module, a `.cfg` and the properties it checks.

## 1. The system

| Part | Source | Runs on |
|---|---|---|
| Frame Dispatch (`InnovusionComponent`) | `adapter_component.{h,cc}` | Apollo's component thread (`Init`), then the SDK callback thread of the lidar handle (`data_callback_`, `status_callback_`) |
| Driver State Machine (`DriverJaguar`, base `DriverFactory`) | `jaguar/driver_jaguar.{h,cc}` | the owner thread (`start`/`pause`/`stop`) and the SDK callback thread (`message_callback_s_`, `data_callback_s_`) |
| Lidar SDK API contract | `jaguar/sdk/src/inno_lidar_api.h` | the closed-source SDK: one callback thread per handle, no callback after `inno_lidar_stop` returns, `inno_lidar_close` after stop |
| Streaming Transport Reader and Wire Frame Codec | `jaguar/sdk/apps/pointcloud_server/pointcloud_client.cpp` | a single-threaded CLI: connect, read length-prefixed segments (TCP) or datagrams (UDP), validate each cframe (`process_cframe`), keep-alive reconnect loop |
| Example supervisors | `jaguar/sdk/examples/example1.cpp`, `example2.cpp` | main thread polling `is_alive[]`, SDK callback threads clearing it on critical alarms; `example2` uses blocking `inno_lidar_sync_read` |
| Duplicate-point filter plug-in | `jaguar/sdk/filters/dup_filter.cpp` | SDK filter callback: returns the input frame and a filtered copy |
| CRC32 and utilities | `falcon/sdk/src/utils/utils.cpp` | pure functions (CRC32C, HTTP CRC header check) and I/O helpers (thread priority, file open/list, UDP bind) |

How the parts interact. `InnovusionComponent::Init` reads the config, creates
the writers, selects a driver by the lidar model string and calls
`driver_->start()`. `DriverJaguar::start` opens the SDK handle and starts it.
The SDK then calls `message_callback_s_` with alarms and `data_callback_s_`
with cframes on the handle's own thread. `data_callback_s_` forwards each
cframe to `InnovusionComponent::data_callback_`, which converts and publishes
it. An alarm stores a run state in `DriverFactory::is_running_` under
`DriverFactory::mtx` and notifies `cv`. An owner waits on `cv` and answers a
negative run state with `stop()`, and restarts after a critical alarm.
`DriverFactory`, the owner loop and the Falcon driver are not in this
repository; the owner is modelled from the spec (4.5, 7) and marked
`spec_modelled` in the map.

### Hard behaviours in this code

- **Interleaving of alarms.** Two alarms can be delivered between two
  supervisor wake-ups. Each one overwrites `is_running_`.
- **stop() and the callback thread.** `inno_lidar_stop` joins the in-flight
  callback, and that callback takes `mtx`.
- **Handle lifecycle.** open, start, stop (join), close, with restarts and a
  failing open.
- **Destruction order.** `InnovusionComponent` declares `driver_` first, so
  the writers and message buffers are destroyed before `~DriverJaguar`
  calls `stop()` and joins the callback.
- **Init ordering.** Writers are created before the model is checked. The
  config is copied into the driver before `start()`.
- **Numeric edges.**
  - `idx % UINT_MAX` at the wrap of the 32-bit header field.
  - The timestamp correction stores seconds in a microsecond field.
  - The point timestamp is `ts_100us * 1e5` plus the frame start.
  - `len - point_offset` is unsigned in the UDP reader.
  - The CRC is formatted with `%8x` and compared with `strcmp`.
- **Stream reader.**
  - Partial reads and EINTR.
  - The zero-length terminal read.
  - A per-frame error ends the connection (TCP) or is skipped (UDP).
  - The keep-alive reconnect loop and its error codes.
- **example1.**
  - The start/`is_alive` ordering.
  - Restart retries.
  - Cleanup of handles whose alarm came after the last poll.

## 2. Plan and module order

Done:

1. `DriverJaguar`: the driver state machine and the SDK handle life cycle. It also
   models the owner/supervisor, with the alarm and data callbacks of every handle.
2. `InnovusionComponent`: `Init`, `data_callback_`/`status_callback_` on the
   SDK thread, and the destruction of the members against an in-flight callback.
3. `PointcloudClient`: the TCP reader of `pointcloud_client.cpp`. It covers
   segments, partial reads, the `process_cframe` checks, the error codes, the
   keep-alive loop and socket ownership.
4. `PointcloudUdp`: the UDP reader of the same program.
5. `Example1`: the multi-instance polling supervisor against the SDK
   callback threads.
6. `HttpCrc32`: `crc32_do` (both paths), `calculate_http_crc32` and
   `verify_http_crc32`.
7. `SdkSession`: the abstract contract of an SDK session, from
   `inno_lidar_api.h`. `DriverJaguar` is checked to refine it.
8. `PointcloudMain`: `main` of `pointcloud_client.cpp`, which runs either
   the TCP reader or the UDP reader. It composes `PointcloudClient` and
   `PointcloudUdp`.
9. `Example2`: the `inno_lidar_sync_read` example. `ExamplePrograms` puts it
   and `Example1` in one run.
10. `ApolloDriver`: `DriverJaguar` and `InnovusionComponent` side by side
    in one run (`driver_package`). A behaviour runs one of the two models.
    The component sees its driver only through the state of the SDK handle.

Left for later:

- The per-frame arithmetic of `data_callback_` as operators. This covers the
  timestamp correction, the header sequence number and the point timestamps,
  checked against reference definitions.

## 3. Modules and runs

### DriverJaguar (`DriverJaguar.tla`, `MC_DriverJaguar.tla`)

State:

| Variable | Models |
|---|---|
| `handle_`, `is_running_` | the `DriverFactory` fields |
| `mtx` | who holds `DriverFactory::mtx` |
| `sdk[h]` | the SDK state of handle `h` |
| `cb[h]` | what the callback thread of `h` is doing |
| `pending[h]` | the value an alarm callback is about to store |
| `owner` | the owner thread's program counter |
| `seen`, `restarts`, `pauses` | what the owner woke on, and two bounds |

Actions:

- `Start`, `Pause`/`PauseJoin` and `Stop`/`StopJoin` are `start()`,
  `pause()` and `stop()`. The join of `inno_lidar_stop` is a separate step,
  because a callback can be in flight.
- `AlarmCallback`/`AlarmLocked` are `message_callback_s_`: it classifies the
  alarm, then stores the value under the lock.
- `DataCallback`/`DataReturn` are `data_callback_s_`.
- `SupervisorWake`/`SupervisorUnlock` are the owner's predicate wait on
  `cv`.

Runs:

- `driver_package` (pass, `MC_ApolloDriver.tla`, `ApolloDriver_live.cfg`;
  see below), on the driver side: a live sensor, two restarts, one pause, and alarms of the
  levels {WARNING, CRITICAL} and the codes {CANNOT_READ, SENSOR_ERROR,
  LIB_VERSION_MISMATCH}. It checks:
  - `NoLeakedHandle`: every open handle is the one in `handle_`.
  - `CallbackOnLiveHandle`: no callback runs on a handle that is stopped or
    closed.
  - `RunStateOfCurrentHandle`: no run state survives `stop()`.
- `lost_error` (violation of `ErrorLeadsToStop`): a critical alarm is
  followed by a warning before the supervisor takes the mutex. The warning
  stores 1 over -1, and the failed handle is never stopped. Finding:
  `driver_jaguar.cc:30`.

- `driver_package` also checks `SessionSpec`: `DriverJaguar` implements the abstract
  session of `SdkSession.tla`. The refinement mapping (`SessionOf`) maps:
  - `handle_ <= 0` to `off`;
  - the SDK states started, stopping and stopped of `handle_` to `on`,
    `draining` and `paused`;
  - a callback in flight on any handle to `inflight`;
  - `is_running_` to `status`.

  The abstract spec has these properties:
  - callbacks run one at a time and only on a started session;
  - a stop is followed by no new callback, and it returns only once no
    callback is in flight;
  - the run state changes only when a callback reports one, and is cleared
    when the session is closed.

  Its weak fairness says that a callback that has entered returns, and that
  a stop returns. Checking the abstract spec as a `PROPERTY` therefore also
  checks those liveness promises.

Bounds: `MaxRestarts = 2` gives three sessions, so a leak or stale state can
be carried from one session into the next. `MaxPauses = 1` lets
pause/resume happen without an unbounded loop.

Fairness: weak fairness on the owner's steps and on a callback that has
already started. A callback thread that has entered cannot block forever
unless the mutex is held. The sensor is never obliged to raise an alarm.

Deadlock checking is off: the owner really does stop for good after a
graceful stop or once its restarts are spent, and it waits on `cv` forever
when no alarm comes.

### InnovusionComponent (`InnovusionComponent.tla`, `MC_InnovusionComponent.tla`)

State:

| Variable | Models |
|---|---|
| `comp` | the component's life: new, failed, running, destroying, freed |
| `writers`, `driver_`, `drv` | the writers `Init` created, the driver object and its SDK handle |
| `alive` | the members not yet destroyed, in declaration order (`adapter_component.h`) |
| `cbpc`, `frame`, `used` | the SDK callback thread's program counter, its cframe, and the members its last step touched |
| `buf`, `pub` | the message buffer of each channel, and what was written on it |

Actions:

- `InitConfigFailed` and `InitComponent` are the two outcomes of `Init`.
- `DataCallback`, `Fill` and `Write` are `data_callback_`. The callback
  resets the buffer, fills it and writes it.
- `StatusCallback` is `status_callback_`.
- `DestroyMember`, `DestroyDriver` and `DriverJoin` are the C++ destructor.
  It destroys members in reverse declaration order. `~DriverJaguar` calls
  `stop()` and joins the callback.

Runs:

- `driver_package` (pass), on the component side, covers every config, three cframes, a status string
  and destruction. It checks two properties:
  - `OneMessagePerCpointFrame`: each channel gets exactly one message per
    CPOINT cframe, in order.
  - `NoCallbackAfterFree`: no callback runs once the component is freed.
  - `DestructionCompletes`: destruction, once begun, ends with the
    component freed. This holds because `~DriverJaguar` stops the handle
    before it joins the callback in flight.

  Fairness is weak fairness on the destructor's steps and on `Fill`/`Write`,
  so a callback that has entered returns. The SDK's callback thread shares
  no lock with the component thread. `Init` and the delivery of cframes get
  no fairness: the framework and the sensor are never obliged to act.
- `teardown_race` (violation of `NoUseAfterDestroy`) is finding
  `adapter_component.h:46`. `driver_` is declared first, so it is destroyed
  last, and a callback in flight uses writers and buffers that are already
  destroyed.

### PointcloudClient, PointcloudUdp and PointcloudMain (`PointcloudMain.tla`, `MC_PointcloudMain.tla`)

`main` picks the TCP or the UDP reader from its options. `PointcloudMain`
instantiates both reader modules. `Tcp` uses the TCP variables, and `Udp`
uses the UDP variables renamed to `upc`, `uret` and `uaccepted`. The
variable `use_udp` is chosen once in `Init`; each step is a step of the
chosen reader, and the other reader's state is left unchanged. Every run of
the pointcloud client uses `MC_PointcloudMain.tla`. That module gives the
frame and datagram sets as literals, because the `-coverage` mode of TLC
cannot evaluate constant substitutions that go through an instance.

#### The TCP reader (`PointcloudClient.tla`)

The TCP stream is a sequence of tokens that the server sends one at a time
(`ServerSend`). The server may close (`ServerClose`) or stall.

The client is modelled like this:

- `ReadSome` reads 1..4 tokens at a time, which is how
  `read_buffer_from_fd_full` reassembles partial reads.
- `ReadFail` is a zero read, or an `SO_RCVTIMEO` timeout.
- `Complete` finishes a segment: the magic, a length prefix or a body.
- `AfterSegment` follows `read_cframes_tcp` through the four segments of a
  cframe and `process_cframe`.
- `Connect` covers the outcomes of `get_source_fd`, and which socket each
  one leaves open.
- `EndSession` is the keep-alive loop of `main`.

Fairness is weak fairness on the client's steps only. The client thread
always runs, but the server is never obliged to send or to close.

Runs:

- `readers` (pass, `PointcloudMain_readers.cfg`) covers both readers in one
  run, about 310,000 states. On the TCP side it uses a CPOINT frame, an
  empty BBOX frame and a frame whose item count does not match. It allows
  two frames per stream and two connections. It checks two TCP properties:
  - `AcceptedAreSent`: the accepted frames are a well-formed prefix of what
    was sent.
  - `SessionTerminates`: every session ends, because `connect` sets
    `SO_RCVTIMEO`.
- `client_recovery` (`PointcloudMain_recovery.cfg`, violation of `FramingErrorRecoverable`) is finding
  `:837`. One mismatched cframe ends the connection. The spec says a
  framing error is recoverable.
- `client_socket_leak` (`PointcloudMain_socket_leak.cfg`, violation of `NoSocketLeak`) is finding `:160`. An
  `inet_pton` error returns without closing the socket.

#### The UDP reader (`PointcloudUdp.tla`)

Each 4-byte field of a datagram is one token of W = 8 bits, so unsigned
arithmetic wraps mod 2^8 as the code's wraps mod 2^32. The cframe header is
two tokens: type and item_number.

Each loop pass of `read_and_process_udp` is one `Recv` step. It does three
things:

- The datagram overwrites the front of `buff`. Bytes past `n` keep the
  previous datagram's contents, since `char buff[1500]` is never cleared.
- `read_cframe_udp` reads its three length fields at fixed offsets.
- It then calls `process_cframe`, with C int arithmetic for the possibly
  negative payload length.

`RecvError` is a failed `recvfrom`.

Runs:

- `readers` (pass) covers three datagrams per run on the UDP side. Each one is
  well-formed, too long for the buffer, has a wrong length field, has the
  wrong magic, or is 8 bytes long. It checks `AcceptsExactlyWellFormed`:
  the frames passed on are exactly the well-formed datagrams received.
- `udp_stale_header` (`PointcloudMain_stale_header.cfg`, violation) adds two crafted datagrams and is finding
  `:808`. The first is rejected, but it leaves item_number 2^W-1 and
  points length 2^W-2 in `buff`. The second ends after the header type and
  is read with those stale fields. `len - point_offset` wraps to the same
  value, so `process_cframe` accepts a payload of length -2. In the real
  program, `process_cframe_cpoint` then reads 2^32-1 points past the
  datagram.

### Example1 (`Example1.tla`, `MC_Example1.tla`)

`main`'s loops are a program counter over five phases: open, alive, poll,
cleanup, done. `AlarmCallback` may fire on any started handle at any time.
The SDK never calls back after `inno_lidar_stop`.

The model uses two instances, two rounds, two polls and two alarms. Handles
are never reused. There is no fairness: the runs check only invariants.

Runs:

- `examples_run` (pass, `MC_ExamplePrograms.tla`,
  `ExamplePrograms_run.cfg`; see below) checks `AliveMeansRunning`: an instance marked
  alive always runs on a started handle whose context is that instance.
- `example1_alarm_lost` (violation of `AlarmNotLost`) is finding `:300`. An
  alarm between `inno_lidar_start` and `is_alive[i] = true` is overwritten.
- `example1_handle_leak` (violation of `NoHandleLeak`) is finding `:338`.
  Between rounds and at exit, every handle the program opened should be
  closed. The clean-up stops and closes only instances with `is_alive[i]`
  set. A handle whose critical alarm came after the last poll (clearing
  `is_alive[i]`) stays open and started, and its callbacks, which share
  context `i`, can clear `is_alive[i]` of the next round's instance.

### Example2 and ExamplePrograms (`Example2.tla`, `ExamplePrograms.tla`, `MC_ExamplePrograms.tla`)

`example2.cpp` reads one handle with the blocking `inno_lidar_sync_read`
instead of callbacks. Its actions are:

- `StartUp(fopenOk)`: with `-w`, the CSV file is opened, and a failed
  `fopen` returns 2. Then `GetNewLidarHandle` opens the handle. Its SDK calls
  are asserted, so the open succeeds, as in `Example1`.
- `SyncRead(r, fills)`: one pass of the do-while loop.
  - `cframe` is reset to NULL first.
  - The SDK returns one of `SyncReadReturns`, and may leave `cframe` unfilled
    on success (the "impossible" branch).
  - A returned cframe is processed and freed.
  - A timeout continues; anything else breaks.
- `CloseAll`: `inno_lidar_close` (start was never called, so no stop is
  needed), `fclose`, return 0.
- `PrintLoop`: `process_cframe`'s loop that prints the first and last point,
  as a recursive operator with unsigned wrap (narrowed to 8 bits).

A cframe is the number of the read that returned it. `MaxReads = 4`
allows a cframe, a timeout, an unfilled success and an error in one run.
No property is stated about freeing cframes: `SyncRead` never reads the
previous cframe (line 281 resets it to NULL before every read), so any
such property would hold by the shape of the action.

Fairness is weak fairness on `main`'s steps: `sync_read` returns within its
timeout.

`ExamplePrograms` instantiates `Example1` and `Example2`. `prog`, chosen at
the start, says which program the behaviour runs. The run `examples_run`
checks `Example1`'s `AliveMeansRunning` and these `Example2` properties:

- `ReadErrorEndsProgram`: a bad-handle (1) or error (-1) read leads to
  `main` returning 0, with the handle and the output file closed.
- `NothingOpenAtExit`: no return path leaves the handle or the file open.
- `PrintsFirstAndLast`: for item counts 0..5, exactly the first and last
  indexes are printed, never one outside the frame.

Timeouts are retried without bound, and `-k` is parsed but never used.
These are listed as hazards at `example2.cpp:298`.

### HttpCrc32 (`HttpCrc32.tla`, `MC_HttpCrc32.tla`)

The CRC is reflected with width W = 16 and polynomial 0x8408, and `"%8x"`
becomes W/4 digits. At full width TLC's integers would overflow. Each
hardware step over k bytes is the byte-wise CRC of those bytes, so what is
checked is which bytes each path feeds to the CRC, and in which order.

The state is just the inputs: a url (or NULL), a body of bytes {65, 200}
up to length 7, and a buffer length up to 1100 for the aarch64 cascade.

Run `crc_paths` (pass) checks four properties:

- `CrcDoIsBytewise`: x86 `crc32_do` is byte-wise.
- `ComputeVerifyRoundTrip`: a header made by `calculate_http_crc32`
  verifies.
- `CorruptionDetected`: any one changed body byte fails verification.
- `ArmConsumesAll`: the aarch64 cascade consumes exactly n bytes. The range
  up to 1100 covers two passes of the 512-byte loop and every cascade block.

Run `crc_spec_header` (violation of `AcceptsSpecFormattedCrc`) is finding
`utils.cpp:294`. Spec 35 and 87 describe an 8-hex-digit checksum, compared
case-insensitively. `verify_http_crc32` prints its CRC with `"%8x"`, which is
space-padded and lower case, and compares with `strcmp`. So a header written
as the spec describes fails verification in two cases:

- the CRC has a leading zero digit (TLC's counterexample is the empty
  payload, whose CRC is 0);
- the header uses upper-case hex letters.

### ApolloDriver (`ApolloDriver.tla`, `MC_ApolloDriver.tla`)

`ApolloDriver` instantiates `DriverJaguar` (`D`) and `InnovusionComponent`
(`C`). The two share no variable. `part` is chosen at the start and says
which model the behaviour runs; the other model's variables keep their
initial values. The fairness is each model's own fairness, restricted to
the behaviours that run that model. The run `driver_package` checks the
properties of both modules, as described above. It covers about 306,000
states in about two and a half minutes.

Deadlock checking is off for the whole run, because the driver's owner may
really stop for good. The component's `Freed` step stutters, so the
component side cannot deadlock anyway.

## 4. Not modelled

- Coordinate conversion (`fast_sine`, `fast_cosine`, the `sin`/`cos`
  path): floating-point error bounds are outside TLC's reach.
- Logging, CSV output and option parsing in the CLI programs.
- Thread priority, file and directory helpers and UDP bind in `utils.cpp`:
  pure OS I/O.
- `bind_udp_addr_port`: it exits the program on failure and holds no state.
- `example2.cpp` option parsing, and the printing and CSV lines of
  `process_cframe`.
- The CSV output of `pointcloud_client.cpp` (`setup_csv_fd`, the
  `write_*_to_csv_file` helpers): the readers abstract a cframe's payload.
  The header-once logic is listed as a hazard at line 476.
- `dup_filter.cpp`: the plug-in's only behaviour is a memory hand-off
  (`process_frame` returns the source frame and a `malloc`'d copy). The
  other side of that hand-off, the SDK's filter loader
  (`inno_lidar_load_filter`), is not in the repository. A model of it would
  state whatever ownership it assumed, so its properties would hold by
  construction.
- `api_internal.h` and `inno_lidar_api_experimental.h`: declarations only.
  The contract of `inno_lidar_api.h` is modelled as `SdkSession`.
- The Falcon driver and `DriverFactory`: not in the repository.
  `SupervisorWake`/`SupervisorUnlock` stand in for the owner's wait on
  `cv`, written from the spec. Whether `stop()` can block while the owner
  holds `DriverFactory::mtx` depends on that owner, so no property about
  `stop()` returning is checked: against the stand-in, which always
  releases `mtx` first, it would hold by construction.
