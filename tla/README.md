# Verification of the Maxspect integration

TLA+ specifications of the Home Assistant integration for Maxspect aquarium
devices (`src/custom_components/maxspect`), with the TLC configurations that
check them on small instances and proofs, checked by TLAPS, of what matters
most for every instance.

## The system

The integration runs in Home Assistant's single asyncio loop.  A Gyre pump
controller is watched and commanded over its LAN protocol (a TCP connection)
and, when that fails or is not wanted, through the Gizwits cloud.  Other
Gizwits devices are handled through the cloud alone.  An ICV6 hub has a
protocol of its own, served by blocking workers in threads.

| Part | Code | State it keeps | Operations |
|---|---|---|---|
| LAN client | `api.py`, `MaxspectClient` | connection, listener task, cached `MaxspectDeviceState`, last reported mode, wake-up events, clock | connect and handshake, disconnect, listen (merge reports, poll, heartbeat), request a status, confirmed mode write |
| report codec | `api.py`, module functions | none | LEB128, frames, attribute flags, telemetry, clock |
| mode coordinator | `coordinator.py`, `MaxspectCoordinator` | pending mode, write cooldown, mode awaiting LAN confirmation, control lock | command (LAN, then cloud), push callback, 30 s refresh with cloud fallback |
| saved settings | same class | store, `saved_settings`, generation of the schedule, `refresh_status` | load, remember, delayed save, schedule refresh |
| cloud client | `cloud.py` | token and its expiry, device id | login, discover, control, status |
| Gyre programmes | `gyre_program.py` | none | decode, active entry, serial number |
| ICV6 client and hub | `icv6_api.py`, `icv6_coordinator.py` | cached child devices, time of last discovery | discover, read, set power, set brightness |
| setup, config flow | `__init__.py`, `config_flow.py` | config entry | set up, unload, reload; forms |
| entities | `switch.py`, `button.py`, `sensor.py`, `binary_sensor.py`, `entity.py` | what was last written to Home Assistant | show, command |

How they meet: the listener calls `_process_push`, which merges a report in the
shared state object and calls the coordinator's `_on_device_push`; that either
publishes the state to the entities or, during a cooldown, undoes the merge.
The coordinator awaits the client and the cloud client from three kinds of
task: commands (one at a time, under `_control_lock`), the refresh, and the
schedule button.  All of them read and write the same state object, so every
await is a point where another may have changed it.

What is hard: reports, cloud deliveries and cloud answers are late and out of
order with respect to commands; a command that timed out on the LAN may have
been carried out and is sent again through the cloud; the entities show an
optimistic state that stale data must not disturb; the LAN link may be lost,
refused or silent at any point; connects may overlap; settings outlive the
process while the model check that guards them does not.

What makes each part correct:

- mode control: a cloud write is held on the entities until it is confirmed or
  its cooldown ends; a command that succeeded shows a mode that answers it; a
  command ends; the entities end up showing the controller's mode; no default
  state is shown.
- LAN client: a client that counts as connected is listened to; a connect
  always ends; nothing is left open after a shutdown; a link that is lost or
  silent is noticed.
- saved settings: a pump model never changes once read; what is saved is valid
  and survives a restart; a schedule refresh ends, and "received" means received after
  the request.
- cloud client: a request carries a token that lives as long as the request, or
  ends in an error; one device per entry; no waiter is left behind the first
  login; a device without a LAN is shown as it is in the end.
- ICV6: the entities converge to the devices; a right cached state is not replaced
  by a wrong one; a device that is gone is unavailable (the code does not make it
  so, see Findings); a search wakes a bus that sleeps.
- what comes over the wire: decoding undoes encoding or refuses, offsets agree
  with lengths, a stream that lost its place yields nothing nobody sent, the
  active entry is the one the clock is in, levels follow the schedule.
- setup, config flow and entities: one entry per device; entities are made once
  and retired ones removed; a value that was reported is shown, and what the
  user has hidden stays hidden.

## Modules

| Module | What it is |
|---|---|
| `GyreModes` | modes, reports, the merge of a report, the matching of a report with a request |
| `GyreControl` | mode control: coordinator, LAN client, cloud and controller |
| `HeldMode` | the abstract promise: how the entities' view is held around a cloud write |
| `GyreControlProperties` | the properties of `GyreControl`, and its refinement mapping to `HeldMode` |
| `GyreControlAcked` | `GyreControl` with a history variable, whether the last command ended with the cloud's acknowledgement, and what is promised from then on |
| `MCGyreControl`, `MCGyreControlAcked` | constants for TLC |
| `GyreControl_proofs` | type correctness, the invariant behind the hold, and the refinement of `HeldMode` |
| `GyreControlLan_proofs` | the optimistic state is intact and a success is shown while the LAN works; no default state is shown; the last acknowledged write stays visible |
| `GyreSettings` | saved settings: store, lives of the process, pump model, refresh button |
| `GyreSettingsProperties`, `MCGyreSettings` | its properties, and constants for TLC |
| `GyreSettings_proofs` | its theorems |
| `Icv6Hub` | the ICV6 hub: discovery, cached child devices, power commands |
| `Icv6HubProperties`, `MCIcv6Hub` | its properties, and constants for TLC |
| `Icv6Hub_proofs` | its theorems, and that of `Icv6Search` |
| `CloudSession` | the requests of an entry to the cloud: token, first login, device id, and the devices controlled through the cloud alone |
| `CloudSessionProperties`, `MCCloudSession` | its properties, and the module for TLC |
| `CloudSession_proofs` | its theorems |
| `LanClient` | the connection of the LAN client and its listener, taken apart at every await, with all who connect at once |
| `LanClientProperties`, `MCLanClient` | its properties, and the module for TLC |
| `LanClient_proofs` | its theorems |
| `GyreReports` | the payload of a report: flags, offsets, values, writes |
| `GyreStream` | frames in a stream of bytes that timeouts cut |
| `Timetable` | the stable sort by minute that a programme and an ICV6 schedule share |
| `GyreProgram` | decoding of a programme, and its active entry |
| `Icv6Packets` | packets, search results, full reads and schedule levels of an ICV6 hub |
| `Decoding` | the decoders of the three at work, with the devices' encoders and what must come out |
| `Icv6Search` | a search that wakes a sleeping bus |
| `MCWire` | `GyreStream`, `Decoding` and `Icv6Search` for TLC, with their inputs |
| `Wire_proofs` | the theorems of `GyreStream` and `Decoding` |
| `ConfigFlow` | config flows and the entries they make |
| `Entities` | the entities of an entry over its lives |
| `MCEntries`, `Entries_proofs` | both for TLC, and their theorems |

How the modules meet: `GyreControl` takes a connect and a cloud request as one
step each, which `LanClient` and `CloudSession` take apart; it takes a frame as
a report of the mode, which `GyreStream` and `GyreReports` read from bytes;
`GyreSettings` takes a programme as one that decodes or not, which `GyreProgram`
decides; `Icv6Hub` takes a search as one step of its worker, which `Icv6Search`
and `Icv6Packets` take apart; `Entities` takes cooldown, refresh and report as
`GyreControl` has them.

### GyreControl and the code

Each action is what runs between two awaits.  The command that holds
`_control_lock` is `cmd`, the refresh is `poll`, the press of the schedule button
that holds `_program_refresh_lock` is `press`; their `step` says where they await.

| Model | Code |
|---|---|
| `connected`, `reported_mode`, `mode_event`, `status_event`, `state` | the fields of `MaxspectClient`; `state` keeps `mode`, `is_on` and `generic_attrs["Mode"]` |
| `pending_mode`, `local_pending_mode` | `_pending_mode`, `_local_pending_mode` |
| `cooldown` | `time.monotonic() < _write_lock_until`; `CooldownEnds` is the passing of the 8 s |
| `heard` | `received_attribute_names`, as far as `Mode` and the telemetry go; no connect clears it |
| `shown`, `available` | what `async_set_updated_data`, or the end of a refresh, last made the entities write |
| `ProcessPush` | one frame in `_listen_loop`, through `_process_push`, `apply_attributes` and `_on_device_push` |
| `BeginCommand`, `CommandConnects`, `LanWakes`, `LanTimesOut` | `async_set_mode` of coordinator and client: connect if needed, write data point 18, wait 8 s for a matching report |
| `CloudAccepts`, `CloudAcks`, `CloudFails` | the cloud command: taken by the service, acknowledged (optimistic update and cooldown), or failed, with or without effect |
| `RefreshServed`, `RefreshAsks`, `RefreshConnects`, `StatusArrives`, `StatusTimesOut` | `_async_update_data`, `async_initialize` and `async_request_status` |
| `CloudAnswers`, `SeedFromCloud`, `FetchFails` | `async_seed_from_cloud(fallback=True)`: the answer is read by the service in one step and merged in a later one |
| `BeginPress`, `PressConnects`, `PressServed`, `PressAsksCloud` | `async_refresh_program` and the `async_request_full_status` it awaits, up to its own cloud request, which looks at no cooldown |
| `CloudAnswersPress`, `PressSeeds`, `PressFetchFails` | `async_seed_from_cloud(fallback=False)`: of the answer only what was not heard is merged (`Unheard`), and the state is published whatever cools down |
| `SetupRetries` | `async_shutdown` after a failed first refresh, and the next attempt of Home Assistant with a new coordinator and client (`SetUpAfresh`) |
| `Abandoned`, `OwnerReloads` | an error of aiohttp at the first refresh, which ends the setup without a next attempt, and a reload by hand |
| `DeviceReports...`, `DeviceTakes...`, `OwnerChangesMode`, `CloudHearsDevice`, `LinkLost` | the controller, its owner, the network and the cloud; modelled from how the code reads and writes them |

Data is abstracted to the mode.  A report is the pair of its `Mode` attribute
and the mode byte of its telemetry, each present or absent; speeds, voltages,
settings and clock are left out.  Reports reach the client in order, as on a
TCP stream, and are dropped with it.  A write on the LAN may outlive the link.
The controller carries out On and Exit Feed by resuming one of its programmes,
which is what `_mode_matches_request` expects, and its telemetry says On for
either programme, which is what `apply_attributes` expects.  A press of the
button is followed for what it does to the mode; whether a schedule came is left
open here (`PressServed` or `PressAsksCloud` at any time after the request), and is
`GyreSettings`' affair.  Where the LAN is taken to be free of faults it has answered
the read of all settings within the 10 s the press waits, as it has for a refresh
(`PressAsksCloud`); what it answered may be without a valid schedule.

`GyreControlAcked` watches the same steps and remembers in `acked` whether the
last command ended with the cloud's acknowledgement.  A command whose answer was
lost ends in the same state of the program as one that was refused, yet its write
may still be delivered: only of an acknowledged write does the code know, and only
of those is anything promised.

A connect is one step here, so the refresh and a command never overlap inside
one; `LanClient` has the hazards of that overlap.  Handshake errors are outcomes
of the step.  The cloud request for a login is
part of the request it serves; `CloudSession` takes it apart.

### GyreSettings and the code

The other half of the coordinator, over several lives of the process.  What it
shares with mode control is the listener and the cloud request, which here bring
attributes of any age and content: nothing is assumed of them, so no property
rests on how old a report or an answer is.

| Model | Code |
|---|---|
| `model`, `heard` | `client.state.model_a` with `_initialized_models`, `received_attribute_names` |
| `saved`, `generation`, `refresh_status` | the fields of the coordinator, for the keys `Auto` and `Model_A` |
| `received` | `settings_received["Auto"]`, kept as its order with the last press of the button: never, before it or since |
| `save_pending`, `store` | the delayed save of `_program_store`, and its file |
| `refresh` | where `async_refresh_program` awaits, with its local `before` |
| `ReportArrives`, `FallbackSeeds` | `_process_push` with `_on_device_push`; the fallback of mode control |
| `Press` to `SeedBreaks` | `async_refresh_program` and the `async_seed_from_cloud` it awaits, with each way it may fail |
| `Crash`, `Reload` | a new coordinator after a crash, or after `async_shutdown`: `__init__`, then `async_load_settings` |
| `leaving`, `Unload` | the time between the write of the store in `async_shutdown` and the disconnect, in which reports still arrive |
| `old`, `OldRemembers`, `OldSaves`, `OldEnds` | the coordinator before a reload, as long as a press, a command or a delayed write of it is not done |

A programme is one that `decode_program` accepts, one it does not, or absent.
One schedule and one pump model stand for the eight keys; the others are kept
like the schedule, without its generation.  The await at the end of setup is
left to mode control, so the button may be pressed at once.

Nothing cancels a button press, a command or a delayed write when an entry is
reloaded.  The old coordinator may then connect its client again or ask the
cloud, remember what comes, and write it over the store of the new one.  What it
is told is arbitrary, so the filter of a cloud answer by what was heard is left
out for it; its status is shown by nobody.  One old coordinator at a time is
followed.

### Icv6Hub and the code

Nothing serialises the coordinator's commands, its refresh and the threads that
do the work, so the model takes each coroutine apart at its awaits.

| Model | Code |
|---|---|
| `known`, `is_on` | the keys of `coordinator.data`, and `is_on` of the shared `ICV6ChildDevice` objects |
| `due`, `TimePasses` | 300 s since `_last_discovery` |
| `success`, `shown` | `last_update_success`, and what the entities last wrote |
| `RefreshCached`, `RefreshSearches`, `DiscoveryFails`, `DiscoveryMerges`, `ReadsEnd` | `_async_update_data` up to its return, each await and each way out |
| `SearchAnswers` | the worker `_sync_discover`, with `async_discover_devices` around it |
| `BeginCommand`, `CommandReturns` | `async_set_power` before and after its worker |
| `CommandRuns`, `CommandErrs` | the worker `_sync_set_power` |

The merge changes the shared objects in place before the full reads, and the
entities are told after them; the model keeps that order.  Only the power of a
device is modelled: mode, channels and schedule are cached in the same way, and
no platform calls `async_set_brightness`.  A search sees all devices at one
instant, the last at which it may look; a hub or a bus that fails hides devices
from it.  There is one refresh at a time, as in Home Assistant's
`DataUpdateCoordinator`.  Setup ends with a reachable hub and empty data.

`usage` is an assumption on the surroundings.  In `"free"` use searches,
commands and the vendor's app overlap at will; in `"serial"` use nothing changes a
device while a search or a command for it is under way.  In either use devices come
and go, replies are lost and the hub fails.  The second is not what the code
enforces: it is what `RightStaysRight` needs.  Without it the code can put an older
state over a newer one (a search that began before a command is merged after
it), and `Converges` says that the next discovery repairs this.  With it a right
state is still made wrong in one way, which `RightStaysRight` names (`Believed`): a
command whose device has left, or whose bytes the bus has dropped, counts as a
success, since no reply is looked at.

### CloudSession and the code

The coroutines of an entry share one `GizwitsCloudClient` and are serialised by
nothing but the lock of the first login.  A task is such a coroutine: the
periodic refresh, or a user's command.

| Model | Code |
|---|---|
| `held`, `believed` | `_token`, with the life it has left at the service, and the time until `_token_expiry` |
| `gyre`, `did`, `ready`, `lock` | `device_type`, `_cloud_did`, `_cloud_ready`, `_cloud_login_lock` |
| `tasks` | where each coroutine awaits: the lock (`gate`), a login under way or issued, the bindings, a request sent or answered |
| `NeedsLogin`, `Ensured` | `_ensure_token` before a request, which then is on its way with the token of that moment |
| `Proceed`, `Starts`, `LockGranted` | `_ensure_cloud_ready`; `asyncio.Lock` lets nobody pass a waiter |
| `LoggedIn`, `Discovered` | the rest of `async_login`, and of `async_cloud_login` when it is the first |
| `Served`, `Answered` | a control or a status request at the service, and what the coordinator does with its answer |
| `Ends`, `Refused`, `Breaks` | the ways out with an error |

A Gyre and another device differ in two ways.  A Gyre's coordinator is set up
over the LAN and may not have needed the cloud, and its commands pass
`_ensure_cloud_ready` under `_control_lock`; another device's first refresh went
through the cloud before there were entities, and its commands go straight to
`async_set_attr` and may overlap.  What a Gyre shows is `GyreControl`'s affair,
so `shown` is followed for other devices only.

A token has `left` units of life at the service, which issued it `slip` units
before the client received it and began to count: the client believes in it
that much too long.  The device id is read when a coroutine starts or passes the
lock, which is when the code reads `self._cloud_did`.  Looking for a device is one
exchange; which of several bound devices is taken is left open, since the
bindings may change.  An error of `cloud.py` and one of aiohttp or of a timeout
both end the coroutine and leave the client as it is.  The HTTP session belongs
to Home Assistant, so closing it does nothing.

### LanClient and the code

`MaxspectClient` has no lock: whoever finds it not connected runs
`async_connect`.  The callers are the refresh, users' coroutines (a command, the
schedule button) and `async_shutdown`; each step is what one of them, or a
listener, does between two awaits.

| Model | Code |
|---|---|
| `stream`, `connected`, `listener_task` | `_reader` with `_writer`, `_connected`, `_listener_task` |
| `links` | the TCP connections: up, silent (half open) or lost, which also says closed |
| `tasks` | where each coroutine awaits: the cancelled listener, `wait_closed`, `open_connection`, the three reads of `_handshake` |
| `listeners` | where each listener task is: not there, about to run, or in the read of a link |
| `Connect`, `ListenerStopped`, `TransportClosed`, `Opened`, `OpenFails` | `async_connect` up to the handshake, with `_async_close_transport` |
| `InfoArrives`, `BindAcked`, `HandshakeEnds`, `HandshakeBreaks` | `_handshake`, the start of the listener, and the disconnect when any of it raises |
| `Disconnect`, `Shutdown` | `async_disconnect`, by a handshake that failed, a validation or the end of the entry |
| `Listens` | `_listen_loop`, from one read to the next |

`usage` is an assumption on the callers.  In `"free"` use they overlap at will;
in `"serial"` use nobody starts while another is under way; `"probe"` is
`async_validate_connection` on a client of its own, which nobody shares.
`ConnectedIsHeard`, `CallersEnd` and `Recovers` hold in free use.
`NothingOutlives` is about the other two: in free use it does not hold, because a
coroutine that is still connecting when the entry is unloaded opens its
connection afterwards, and nothing closes that.

Of Python the model knows three things.  A `StreamReader` raises when a second
coroutine reads from it while one waits.  A connection whose writer is dropped
without a close is closed by the garbage collector (Python 3.12 and later), so a
connect that overwrites another's writer does not leak it.  The loop runs the
tasks that are ready before it looks at the network again (`Settled`), so that a
coroutine whose connection was taken away learns this before the next answer
arrives.

Connects that overlap may both fail, one may return normally while the client is
not connected, and a listener may die of the error of a read that is taken; none
of this lasts, as `Recovers` shows, because the next refresh finds the client not
connected.

### The wire: GyreReports, GyreStream, GyreProgram, Icv6Packets, Icv6Search

Here bytes matter, so bytes are modelled.  `GyreReports`, `GyreProgram` and
`Icv6Packets` are pure: an operator for each function of the code, and a program
error of Python (an index out of range, a failed conversion) is what the code
makes of it.  `Decoding` gives each an input, as the device encodes it and then
perhaps damaged, and states what must come out by a definition of its own that
does not use the decoder.  `GyreStream` is a state machine, since a read that
times out forgets the bytes it has consumed; `weight` is 2 to the power of
`shift` in `_read_frame`.  A programme and a schedule are put in order by the same
stable sort (`Timetable`), which gives each entry its place: how many do not come
after it.

| Model | Code |
|---|---|
| `Flagged`, `AttrFlags`, `DataOffset`, `WritePayload`, `ProcessPush` | `_dp_is_flagged`, `_dp_attr_flags`, `_dp_data_offset`, `_build_write_payload`, `_process_push` up to `apply_attributes` |
| `Leb128`, `BuildFrame` | `_encode_leb128`, `_build_frame` |
| `ReadsHeader`, `ReadsLength`, `ReadsData`, `TimesOut` | the three reads of `_read_frame`, and the timeout of each |
| `PushedBy` | the cases of `_listen_loop` |
| `DecodeProgram`, `ActiveEntry` | `decode_program`, `active_entry` |
| `BuildNew`, `FindNewPacket`, `ParseSearchResult`, `OfKnownType`, `ReadDevice`, `CurrentLevels` | `_build_new`, `_find_new_packet`, `_parse_search_result`, `async_discover_devices`, `_sync_read_device_all`, `compute_current_levels` |
| `BurstPrimes`, `Primes`, `Queries`, `AsksArea` | the phases of `_sync_discover` |

What the devices send is taken from the encoders in the tests and from what the
decoders expect, and stays within what the repository shows of it:

- The header of a frame, `00 00 00 03`, also occurs inside frames: in the
  telemetry of a pump that is off and in the answer to a read.  `GyreStream`
  cuts such frames, and what follows the false header is no report.  A value
  that held a whole frame would be taken for one; no data point is known to.
  Where all frames are of a length divisible by four and one is cut at another
  place, the listener, which looks at four bytes at a time, finds its place again
  only with a new connection.
- A type code of zero is skipped as padding by `_parse_search_result`.  Hubs with
  and without such codes are among the inputs: `DevicesFoundAsListed` says what is
  found either way, and what is not is among the findings below.
- A schedule point at midnight with every channel off is taken for an empty slot,
  which looks the same and which the tests want dropped.  Such points are among
  the inputs, and `LevelsFollowSchedule` has the channels follow the others.
- `compute_current_levels` interpolates with floating-point numbers and rounds
  half to even.  The model does so with exact fractions; `LevelsFollowSchedule`
  allows either neighbour at a half.

In `Icv6Search` a prime or a query may fail by its connection or by an answer that comes
later than 0.5 s after the wait, which is when the code stops reading.  Primes are
4 before the first query and one with each of the 12 attempts.  Areas 2 to 4 are
asked once area 1 has listed a device, each once and without another attempt.  By
the code's pauses a search in vain of a hub that can be reached takes about 60 s
(4 × 1.5 + 12 × 4.5), where the docstrings of `icv6_api.py` speak of 35 and 40 s;
time is not modelled.

### ConfigFlow, Entities and the code

| Model | Code |
|---|---|
| `flow` | the step each flow shows or waits in, and the host entered |
| `entries` | the entries of Home Assistant by unique id |
| `Submits`, `CheckFails`, `LanChecked`, `Finishes` | `async_step_icv6`, `async_step_gizwits_lan`, `async_step_cloud` before and after the validation they await |
| `registry`, `added` | visibility of each entity in Home Assistant's registry, and the entities that listen to the coordinator |
| `SetsUp`, `AddsEntity`, `SetupEnds`, `Unloads` | `async_setup_entry`, `async_added_to_hass`, the removal of retired entities, `async_unload_entry` |
| `Reports`, `Seeds`, `CommandWritten`, `Refreshes` | what merges a value and what publishes: a report is not published in a cooldown, a cloud answer not when it raises |
| `PlatformSetsUp`, `Discovers` | the `known_ids` of each platform of a hub and its listener |

Looking for an entry with the unique id and making the new one are one step,
because nothing is awaited between them; Home Assistant's own check for flows in
progress is left out, so `OneEntryPerAddress` does not rest on it.  "Reported"
means that the entity has a value: for data point 17 the option counts, and a
serial number must decode.  An entity that the user shows although it is missing
is hidden again at the next update, which `HiddenByUserStays` does not forbid.
Disabled entities, which Home Assistant does not load, are left out.  The options
flow stores one form and leads to a reload, which is `Unloads` and `SetsUp`.

## Runs

The runs `gyre_...` use `MCGyreControl`, the runs `settings_...`
`MCGyreSettings`, and the others the module of their part.

| Run | Configuration | Question | Result |
|---|---|---|---|
| `gyre_faults` | `GyreControl_faults.cfg` | With every fault allowed, a change by the owner and a press of the schedule button, which may ask the cloud and publish its answer during a cooldown: is a cloud write held as `HeldMode` says (`HeldSpec`, by the invariant `HeldInv`), are types kept (`TypeOK`), and is a default state never shown (`NeverTheDefaultState`)? | holds, 2.6 million states |
| `gyre_spaced` | `GyreControl_spaced.cfg` | While the LAN link works, and each command waits for the one before to settle, with a press of the schedule button at any point: does the optimistic state survive its cooldown (`HeldStateIsPending`), does a LAN command that succeeds show its mode (`LanSuccessShowsRequest`), does the last acknowledged cloud write stay visible until the controller takes it (`LastWriteStaysVisible`)? | holds, 2.5 million states |
| `gyre_live` | `GyreControl_live.cfg` | Do commands end (`CommandsEnd`), and do the entities converge (`Converges`)? | holds under fairness |
| `gyre_rapid` | `GyreControl_rapid.cfg` | Does the last acknowledged cloud write stay visible with two commands in quick succession? | violated: a finding |
| `gyre_setup` | `GyreControl_setup.cfg` | Is an entry set up in the end when faults stop (`SetupComesBack`)? | violated under fairness: a finding |
| `settings_saved` | `GyreSettings_saved.cfg` | Over crashes and reloads, are only valid schedules kept (`TypeOK`), is the store current (`StoreIsCurrent`), is a configured model in use (`ConfiguredModelWins`), does a reported schedule win over the cloud's answer to a press (`LanBeatsCloudSeed`), and do status and timestamp agree (`HonestStatus`)? | holds, 0.7 million states |
| `settings_model` | `GyreSettings_model.cfg` | Does a pump model ever change (`ModelNeverFlips`)? | violated: a finding |
| `icv6_cache` | `Icv6Hub_cache.cfg` | Do the entities converge to the devices in either use (`Converges`), is a right state kept in serial use (`RightStaysRight`), and are types kept (`TypeOK`)? | holds, 0.72 million states, liveness under fairness |
| `cloud_requests` | `CloudSession_requests.cfg` | Is the refresh buffer of a token enough (`ExpiredOnlyIfSlow`), are all requests about one device (`OneDevice`), do coroutines end (`TasksEnd`), is a cloud-only device shown as it is in the end (`Converges`), and are types kept (`TypeOK`)? | holds, 0.24 million states, liveness under fairness |
| `lan_link` | `LanClient_link.cfg` | However callers overlap and links fail: does a connected client listen (`ConnectedIsHeard`), do connects end (`CallersEnd`), is a loaded client connected in the end (`Recovers`); in serial use and in a validation, is nothing left open (`NothingOutlives`); and are types kept (`TypeOK`)? | holds, 60 thousand states, liveness under fairness |
| `wire` | `Wire.cfg` | Is what a cut stream yields what was reported (`MergedWasReported`, `NothingLostInStep`); are reports and writes (`ReadsBack`), programmes (`NeverInPart`), the active entry (`ActiveBeganLast`), search results (`DevicesFoundAsListed`) and schedules (`LevelsFollowSchedule`) read as the device means them; is a cold bus woken (`ColdBusIsFound`)? | holds, 0.26 million states |
| `entries` | `Entries.cfg` | Do flows make one entry per device (`OneEntryPerAddress`), does a loaded entry have its entities once (`EntitiesFit`), does a user's hiding last (`HiddenByUserStays`), does a reported value come to be shown (`ReportedIsShown`)? | holds, 76 thousand states, liveness under fairness |

### Bounds

`MaxCommands` (1 or 2; none in `gyre_setup`), `MaxFaults` (1; 2 in `gyre_setup` and `gyre_spaced`), `MaxOwnerChanges` (0 or 1),
`MaxPresses` (1 in `gyre_faults` and `gyre_spaced`, else 0) and `MaxReports` (1 or 2
frames in flight) bound the runs.  Two commands are enough
for the reports and writes of one to meet the cooldown of the other, which is
all the state the coordinator keeps of the past (one pending mode and one
deadline); `gyre_spaced` and `gyre_rapid` have two.  A press keeps nothing of the one
before, so one is enough to fall between any two of their steps.  Three modes in
`gyre_spaced` let a report belong to neither of two successive commands, and its
two faults let a write whose acknowledgement was lost be followed by a link that
fails.  One fault reaches every error path, and one fault within a command is followed by
its cloud fallback.  Two frames let a stale report be followed by another stale
one, which the first finding needs.  `gyre_faults` has one command and one
interference of the user besides, the owner's or a press (`OneInterference`, a
constraint), with one frame in flight, which still interleaves any
number of frames and refreshes with all the steps of a command; its properties
are proved without a bound.  Its refresh can always run, as that of every
module but two, so deadlock is checked.  It is not checked in `lan_link`, where a
client that was unloaded or validated rightly stops, and in `wire`,
where a decoder is done after its input and a search after its attempts.

In `GyreSettings`, `MaxGeneration` (1; 2 in `settings_model`) bounds the valid
schedules reported in one life; lives, presses, cloud answers and what an old
coordinator is told are not bounded.  A press looks at one difference of the
generation, and an earlier report leaves its timestamp in the store of an earlier
life, so one report in a life suffices; two schedules and two models suffice to see a
replacement.  The schedules are symmetric (`SYMMETRY`): no entry and no property
tells them apart.

In `Icv6Hub`, two commands on two devices let two threads work on one device
or on different ones; one change by the owner and one fault of network or bus
(`MaxChanges`, `MaxFaults`) fall between any two of their steps.  Refreshes,
discoveries and the return of hub and devices are not bounded.

In `CloudSession` the unit of time is the refresh buffer, 300 s, which is also
aiohttp's total timeout (`Buffer` = `Patience` = 1); a token of three units
outlives a login and a request, as the default of two hours does.  One command
coroutine and the refresh are two tasks, enough for two logins or two claims to
the lock to cross; `MaxCommands` (2) counts commands and changes with the
vendor's app, `MaxFaults` (1) errors and revoked tokens.  Refreshes, logins and
time are not bounded, so tokens age and are renewed for ever.

In `LanClient` two users' coroutines, the refresh and the end of the entry are
all who connect; with `MaxCommands` = 2 either user comes twice or both come
once, in between the steps of the refresh, which is not bounded.  Three links
let one be opened while two others are given up, and two listeners let an old
one still run when the next is started.  One link is lost or goes silent, or one
open or answer fails (`MaxFaults`), at any step.  Four links, two faults and
three commands have been checked as well and show nothing new.

In `MCWire` three frames with two cuts reach a listener that lost its place
inside a frame, went on at a false header and is cut again there; frames are
chosen so that false headers occur, so that a frame read four bytes late would
be a valid report, and so that the LEB128 length takes two bytes.  Reports are
those of 448 selections of data points, programmes those with blocks of every
length in one or two entries, and each with a byte changed or length and count made wrong.
Searches list up to three devices, with type codes of zero and of one, padded by up
to three zeros, and come
behind up to two of three parts: stray bytes, a packet of the old protocol, the
answer to something else.  `PrimesNeeded` has a bus that is awake, one the burst
wakes, one only a ninth attempt wakes and the last counts a search reaches and
does not; `MaxFailures` = 12 lets every attempt fail.

In `MCEntries` three flows for two hosts let two race and a third come after;
two diagnostics, a flag and a retired entity are one of each kind and one more,
and registries start in every state an older version may have left.  Nothing
there is bounded.

### Fairness

`FairSpec` assumes that the event loop runs the tasks that can run and that
timers fire (`WF` on the steps of a command, of the refresh, of the listener
and of the cooldown), that the controller carries out what reached it, and that
the cloud keeps delivering and hearing of the controller.  Strong fairness is
asked of one action only, the controller's answer to a read of its settings:
the client sends such a read every minute on a working connection
(`CONFIG_POLL_INTERVAL`), so the chance to answer comes back again and again
even though the link may be down in between.  Nothing is assumed of users,
owners and faults; those are finite by their bounds, so a behaviour ends with a
quiet suffix in which convergence is asked for.  Nobody is obliged to reload an
entry by hand (`OwnerReloads`), so `Converges` is asked only of behaviours that
do not end with setup abandoned; that such an end exists is the second finding.

In `Icv6Hub` the workers end, because every socket operation and every wait in
`icv6_api.py` has a timeout and the attempts are counted; the refresh timer and
the clock go on.  Nothing is assumed of the hub or of the bus: `Converges` is
asked where they answer again for good.

In `CloudSession` exchanges end, by an answer or by the timeout of aiohttp, the
refresh comes every 30 s and time passes.  Strong fairness of `LockGranted`
stands for the order in which `asyncio.Lock` serves its waiters: the lock may be
taken between two chances, but not for ever by others.  `Converges` asks that
the device be available again and again and not for good, because an exchange
that always takes as long as it may can be refused as `ExpiredOnlyIfSlow`
allows.

In `LanClient` every step of a coroutine is fair, since each of its waits has a
timeout (open and handshake 10 s, late reports 1 s) or is for a task that was
cancelled; the listener's read times out and polls; the refresh comes every 30 s.
`TcpGivesUp` is TCP, which gives up a link on which the listener's polls are not
acknowledged.  Nothing is assumed of users and of links; their interference
ends with its bounds.

`MCEntries` assumes one thing: the coordinator's poll, every 30 s, gets its answer
and updates the entities in the end (`RefreshFair`).

### Findings

1. *Rapid commands.*  `_on_device_push` lifts the cooldown on any report that
   matches the pending mode.  Off, then a command On, then a command Off: a
   report of the first Off that is still in flight matches the second, lifts
   the cooldown, and the next report, of the On in between, turns the entity on
   while the second Off has yet to be delivered.  `test_coordinator_behaviour.py`
   says of a rapid double write that only the last optimistic state should be
   visible.
2. *Setup abandoned.*  When the first refresh finds the LAN refused and the
   cloud answers with an error, `_async_cloud_fallback` raises `UpdateFailed`
   and Home Assistant tries again.  When the cloud cannot be reached at all,
   `cloud.py` lets the error of aiohttp through, nothing on the way catches it,
   and setup ends for good: no retry, and the client is not shut down.
   `test_init.py` asserts a retry when both channels fail, but only raises a
   `GizwitsCloudError`.
3. *Pump model.*  `apply_attributes` refuses a model that differs from the
   cached one, but returns it among the accepted attributes, and
   `_remember_settings` saves it.  After the next restart it is the model,
   although the instructions of the repository say that a model is set once and
   never updated.

Also met while modelling, and shown by no run of its own:

- *Cloud answers and cooldown.*  `_async_update_data` looks at the cooldown
  before it asks the cloud for a status and `async_seed_from_cloud` merges the
  answer without looking again.  A command given while the request is under
  way starts a cooldown, and the older answer overwrites its optimistic state.
  The schedule button does not look at the cooldown at all: it asks during one and
  publishes the answer, from which only the attributes that the controller has
  reported itself are kept out.  So a write that went through the cloud before
  the controller reported anything (its LAN connects and stays silent) may be
  overwritten.
  `HeldMode` has these as its two exceptions (`Fetched`, `Pressed`), and the proof of
  `ImplementsHeldMode` shows that there is no other.
- *Devices that are gone.*  A discovery of an ICV6 hub starts from the devices it
  knows and only adds, and an error of the search is an empty list.  A child
  device that is taken away keeps its last state and stays available until the
  entry is reloaded, though the hub answers and does not list it; `entity.py:130` says
  of `available`: "Mark unavailable if the coordinator failed or the device is gone."
- *Type codes.*  `_parse_search_result` passes over the type code of a device as
  "unused here", yet when it is zero it is skipped as padding of the device before:
  the id is then read one byte late and the device dropped.  The replies of
  `test_icv6.py` have such codes, but one device each; what codes hubs send, the
  repository does not show.
- *Work after the end.*  An entry that is unloaded while a coroutine connects
  leaves that connection open (see `LanClient`), and what a press or a command
  under way remembers is written over the store of the entry's next coordinator,
  until that saves again (`old.memory` in `StoreIsCurrent`).
- *Areas.*  `async_discover_devices` is to "discover all devices", but areas 2 to 4
  of a hub are searched only when area 1 has a device; `ColdBusIsFound` asks for one.

## Proofs

TLAPS checks the following, for every set of requests and controller modes,
every combination of faults and entries, and every bound, under
`GyreControlAssumption` alone (requests and modes are modes of data point 18, a
controller can be in the modes that are asked for and has something to
resume).

- `TypeCorrect == Spec => []TypeOK`.
- `HeldInvariant == Spec => []HeldInv`.  `HeldInv` is inductive with `TypeOK`.
  It says why publishing the shared state is safe during a cooldown: the state
  shows the pending mode or what is shown already (`ShowsPendingOrSame`); a
  confirmation the waiter has not seen yet has already ended the cooldown
  (`ConfirmedIsLifted`), because the listener ends it before the waiter runs;
  `_local_pending_mode` is the mode of the command on the LAN
  (`AskedIsTheCommand`); and nothing cools down before setup is done
  (`CoolingIsReady`).
- `ImplementsHeldMode == Spec => HeldSpec`: the refinement, with its two
  exceptions: an answer to a refresh that asked before the hold (`Fetched`), and one to
  a press while the controller has not reported all that says its mode (`Pressed`, `known`).  Under
  the mapping of `GyreControlProperties` every step of mode control is a step of
  `HeldMode`, or a stutter; the proof has one lemma for a publication, one for
  a push and one for the refresh without LAN status, and uses `HeldInv`.
- `HeldOnHealthyLan`: with `~LanFaulty`, `Spec => []HeldStateIsPending`.  The
  invariant adds that no refresh ever asks the cloud, and that a press asks it only
  after the controller has reported its mode, so that its answer brings nothing of
  it (`PressBringsNothing`).
- `LanSuccess`: with `~LanFaulty`, `Spec => LanSuccessShowsRequest`.  The
  invariant is `WaiterPublishesMatch`: as long as what woke the waiter confirms
  its command, the cached state answers the command too, so that publishing it,
  later, shows the right mode.
- `LastWriteVisible`: with `~LanFaulty`, `~RapidCommands`, `~SlowDelivery` and no
  change by the owner, `AckedSpec => []LastWriteStaysVisible`.  These are the
  conditions of the run `gyre_spaced`; without the second it is false
  (`gyre_rapid`).  The invariant is `SpacedInv`, in `GyreControlAcked`: one mode is
  being written at a time (`OneModeWritten`); no report that answers it comes
  before one from before the write (`ReportsInOrder`); and once such a report has
  lifted the cooldown, all that is in flight or cached belongs to that mode
  (`LiftedForGood`), so no later publication can show another.
- `NoDefaultState == Spec => []NeverTheDefaultState`: the invariant
  (`RealInv`) is that the cached state, once anything counts as a status, and
  what is shown agree on whether the pump is on, which the default state does not.

`GyreSettings_proofs` needs `GyreSettingsAssumption` only (a programme that does
not decode is no schedule, and None is neither a schedule nor a model).

- `SettingsTypeCorrect == Spec => []TypeOK`, where the type of `saved` says that
  an invalid schedule is never kept.
- `StoreKeepsUp == Spec => []StoreIsCurrent`: what is remembered without a write
  falling due is what was there (`RememberSaves`), in this coordinator and in the
  one before it.
- `ConfiguredModelStays == Spec => []ConfiguredModelWins`.
- `StatusIsHonest == Spec => HonestStatus`.  The invariant is `GenerationTells`:
  while a press awaits its end, the generation has moved just when the
  timestamp is later than the press.
- `ReportedScheduleStays == Spec => LanBeatsCloudSeed`.

`Icv6Hub_proofs` needs a device to exist and the bounds to be numbers.

- `HubTypeCorrect == Spec => []TypeOK`.
- `HubRightStaysRight == Spec => RightStaysRight`.  The invariant is
  `SerialInv`: what a search has found and what a device has taken still hold
  when they reach the cache, since commands of one device never overlap, nor a
  command and a search.  Devices may go and replies be lost: the one completion
  that is excepted is that of a command its device did not take.

`CloudSession_proofs` needs `CloudSessionAssumption`: the refresh is not a
command, and a token lives longer than the buffer.

- `CloudTypeCorrect == Spec => []TypeOK`.
- `TokenBuffer == Spec => []ExpiredOnlyIfSlow`.  The invariant is `TokenInv`:
  the client believes in a token for no longer than its life and its slip, and
  life, slip and waiting of a request exceed the buffer together.
- `OneDeviceAlways == Spec => []OneDevice`.  The invariant is `DeviceInv`: only
  the holder of the lock looks for a device, only while there is none, and
  nobody logs in who neither holds the lock nor found the cloud ready.
- `LockAlwaysInUse == Spec => []LockIsInUse`, which is inductive beside `DeviceInv`:
  who holds the lock is in an exchange of the first login, and whatever ends the
  exchange lets the lock go or goes on to the next one.  It holds for any number
  of coroutines.  It is the safety in `TasksEnd`, which `cloud_requests` checks: a
  lock left behind would end no waiter; that the holder's exchange ends needs
  fairness besides.

`LanClient_proofs` needs `LanClientAssumption`: callers are told apart, and None is
no link and no listener.

- `LanTypeCorrect == Spec => []TypeOK`.
- `ConnectedAlwaysHeard == Spec => []ConnectedIsHeard`.  The invariant is `HeardInv`:
  a client that counts as connected has a listener on its connection, or a
  coroutine still in its handshake, whose end starts one or clears the flag.
- `NothingEverOutlives == Spec => []NothingOutlives`.  The invariant is `SerialInv`:
  one coroutine at a time, and where it awaits tells which of connection, flag
  and listener are still there.

`Icv6Hub_proofs` also has the search, with `SearchAssumption` (numbers).

- `ColdBusAlwaysFound == SearchSpec => []ColdBusIsFound`.  The invariant is
  `SearchInv`: an attempt that found nothing either failed itself or came with too
  few primes (`Fruitless`), and a prime that is missing has failed, so failures
  and primes needed account for the attempts used up.

`Entries_proofs` needs `KeysAreDisjoint` for the entities, and nothing for the flows.

- `NeverTwice == FlowSpec => []OneEntryPerAddress`.
- `EntitiesAlwaysFit == EntitiesSpec => []EntitiesFit`.  The invariant says what a
  platform knows, has made and listens to at each point of setup and discovery.
- `UserDecides == EntitiesSpec => HiddenByUserStays`.

`Wire_proofs` needs `FramesAssumption` (a command has two bytes, a payload is made
of bytes, and the length of a frame fits in two groups of seven bits, as that of
every report the data points allow) and `InputsAssumption` (an attribute of a report
is a boolean, a byte or as many bytes as its data point has, and a report may be cut
or lengthened by any number of bytes; a write is of a data point of one byte; a
programme that is looked up has entries, at minutes of the day; a controller's own has entries with a
number, a time of day and two whole blocks of patterns that pumps have, one entry
only where it is no schedule, and `bytes` are bytes; a hub lists at most 255 slots,
as many as its count can say, and a point has a time of day and four channels; an answer to a search lists at most 255 devices,
whose ids are at most 11 bytes and do not end with what pads them, and before it come
whole packets of the old protocol, whole answers to something else, and stray bytes
among which every header that begins is broken off).

- `NothingLost == StreamSpec => []NothingLostInStep`, for any frames, any number of
  them and any cuts.  The invariant `InStep` names what no variable holds: while
  nothing was cut, there is a sequence of frames still to be read (`Left`), whose
  reports, merged behind those applied, give those reported (`Owed`), and the
  listener is at a known place in the first of them (`InFrame`).
- `ActiveEntryBeganLast == DecodingSpec => []ActiveBeganLast`, for programmes of any
  length in any order.  The places are a permutation that respects the order of
  time (`InOrderOfTime`), and the last entry not after the minute is found by an
  induction over its place (`HasLast`).
- `ProgrammeNeverInPart == DecodingSpec => []NeverInPart`, for bytes of any length
  and programmes of any.  What is accepted (`ProgramRead`): the turns of the loop go
  on from one another, each entry written down again is the bytes between two turns
  (`EntryRead`, `TurnsRead`), and what is joined of those parts is the whole
  (`JoinsExist`, `FlatIs`).  What a controller writes (`ProgramThere`): each entry
  keeps its place in the whole (`PartsOfJoined`), and an entry is read as itself
  wherever it is (`BlockThere`, `EntryThere`), so every turn ends where the next
  entry begins.  That the loop can be reasoned about is due to `Turns`, a function
  from the number of turns to how far it came.
- `SchedulesFollowed == DecodingSpec => []LevelsFollowSchedule`, for any points in any
  order, those at midnight with every channel off among them (they are left out, as
  empty slots are), any number of empty slots and any manual levels.  A packet is what
  `_build_new` says it is byte by byte (`PacketIs`); the search for it, a function
  from the place to what is found from there on, is well founded because it only
  ever goes on (`OnwardIsLater`, `FoundFromIs`), so the answer is found whole and its
  payload is the one sent (`AnswerIs`); each slot stands at its place (`ListingIs`)
  and is read as its point (`SlotRead`, `PointsAre`).
- `DevicesAlwaysFound == DecodingSpec => []DevicesFoundAsListed`, for any devices with
  any type codes, any padding behind them and any number of parts before the answer.  The search for a
  packet passes each of those parts (`StrayPassed`, `OldPassed`, `OtherPassed`,
  `NoisePassed`) and stops at the answer wherever it stands (`AnswerAt`,
  `AnswerBehind`); in its payload each device has its place (`DirectoryIs`), is read
  as listed (`StrippedIs`, `DeviceThere`), and what is skipped behind it are its zeros
  and no more when the next device begins with a type code other than zero
  (`ZerosPassed`), so every turn of the loop up to the first such zero ends where the
  next device begins (`Parsed`).
- `ReportsReadBack == DecodingSpec => []ReadsBack`, for any attributes of any of the 47
  data points and any damage.  The booleans of a report have places of their own
  (`BooleansIn`), a byte has just the bits it is made of (`ByteHas`, `BytesHave`), so
  flags select the data points they were made for (`FlagsSelect`) and a bit is the
  boolean at its place (`BooleansPacked`); the other values stand where the lengths of
  those before them end (`LengthsAre`, `ValuesAre`), which is where both
  `_process_push` and `_dp_data_offset` look (`ValueThere`, `AttrRead`,
  `OffsetThere`); and a payload that begins like a report has its length only when
  nothing was cut off or added (`DamagedIs`, `PushRead`).  Flags and booleans are
  bits by place here and no sums of powers of two, and the lengths are a recursive
  function, so that they can be reasoned about.
- `LevelsFollow`: `CurrentLevels` follows every schedule, whichever its points, their
  order and the number of channels; the nearest percent is `BetweenIsNearest`.

Only model-checked: `MergedWasReported`, which is true of the frames a controller
sends and not of every payload (a value that held a whole frame would be merged
after a cut); and liveness (`CommandsEnd`, `Converges`, `TasksEnd`, `CallersEnd`,
`Recovers`, `ReportedIsShown`), which is out of the prover's reach.

## What is left

The plan of this project is carried out but for the following.

- The controller's clock as the client keeps it (late, repeated and cloud reports
  of it), and through it the schedule entry shown: any bound on its lag rests on
  the age of the cloud's status, for which the code has none.
- That `CloudSession` with one task implements the cloud request of `GyreControl`.
- The retries of an ICV6 full read, which repeat one exchange up to three times.

Runs stay few: about one passing run per module, and one for each finding.

## Not modelled

- What a cached value looks like: units, texts and attributes of sensors, other
  than the mode's, and the scaling of speeds and voltages.
- The schemas in `models`, translations, tests and workflows: data without
  state.
- The fields of the options form.
- `decode_serial_number`: a serial number decodes or does not.
- `async_set_brightness` of an ICV6 device, which no platform calls.
- Which of several bound devices the cloud client takes: left open in
  `CloudSession`.
- Closing the cloud session, which belongs to Home Assistant.

`PROJECT.json` lists every part with its state of modelling, and every hazard with
the properties that cover it.
