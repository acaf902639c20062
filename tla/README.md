# A TLA+ model of bluez_media_native

`bluez_media_native` is a Dart package with a C++ core that controls BlueZ
media (players, browsing, transports, cover art) over D-Bus. Its hard part is
not any one call but the number of threads that meet in it: Dart isolates, the
finalizer, two event loops, two workers per client and two workers per process,
with BlueZ, obexd and the kernel's descriptor table on the other side. These
modules model that part, and the data that crosses it, check both on small
instances with TLC, and prove every invariant of those runs for every size with
TLAPS.

Paths below are relative to the repository. `client.cpp` stands for
`native/src/bluez_media_client.cpp`, `client.dart` for
`lib/src/bluez_media_client.dart`.

## 1. Inventory

### Threads

| Thread | Runs |
|---|---|
| isolates (one or more) | the C ABI entry points, Dart proxies, finalizers |
| `registry().connections` | the creation of clients (`OperationQueue`) |
| `registry().reaper` | the destruction of clients (`OperationQueue`) |
| a client's `operations` | asynchronous calls, removals, invalidations |
| a client's `cover_operations` | cover-art calls, registrations, resets |
| system-bus event loop of a client | `MediaObjectManager` handlers and their callbacks |
| session-bus event loop of a client | `CoverArtService` signals of obexd |

### Components

**Client lifecycle** (`client.cpp`). State: `ClientRegistry` (map of handles to
`shared_ptr` contexts), the contexts, their two queues. Operations: create,
asynchronous calls, synchronous entry points, destroy, destroy_async, the
callbacks that post work. Hard: the context is destroyed by whoever drops the
last reference, queued operations keep raw pointers, `post()` drops work once
`stopping_` is set, the destructor stops the queues one after the other, and
one reaper serves all clients. Correct when no destroyed context is used, every
port is answered exactly once, and a close is reported after the cleanup.

**Descriptor ownership** (`client.cpp`, `client.dart`,
`bluez_media_transport.dart`). State: tokens in the registry, the pending set
of each client, the finalizer of each result, the process's descriptor table.
Operations: acquire, retain, post, claim, refuse, close by number, finalize,
release at destruction. Hard: the kernel reuses a number as soon as it is
closed; the message that carries it may never be read; the claim races with the
destructor. Correct when nothing leaks, nothing is closed twice, and nobody
else's descriptor is closed.

**Object manager** (`media_object_manager.cpp`). State: the cached tree, one
revision per interface, the owner generation, deferred updates. Operations:
InterfacesAdded, InterfacesRemoved, PropertiesChanged, owner change, the
replacement snapshot, GetAll replies. Hard: signals arrive while a snapshot is
awaited and are replayed over it; replies arrive after the object went away, or
from an owner that was replaced. Correct when the events add up to the cache
and the cache converges to BlueZ's tree.

**Cover-art sessions** (`cover_art_service.cpp`, callbacks of
`create_context`). State: `players_`, `sessions_` with a use count and an
ownership flag. Operations: register, unregister, reset, reconnect after an
obexd restart, the session side of a fetch. Hard: three threads meet at one
mutex that is released between steps; tasks reach the service by two routes.
Correct when a player's device has one living session, and a session is closed
with its last player.

**Local players** (`media_client.cpp`, `local_player.cpp`). State: `players_`,
BlueZ's registrations. Operations: register, unregister (queued and
synchronous), invalidation after the loss of an adapter or of BlueZ. Hard: a
registration that succeeds just after the loss; an answer that comes too late.
Correct when both sides agree.

**Dart client and proxies** (`client.dart` and the proxies beside it). State:
the maps of proxies, their properties and revisions, streams. Operations:
events, get by path, refresh, listItems, search, close. Hard: a fetch's reply
arrives after a newer event, after a removal, after the close. Correct when
the proxies end with BlueZ's latest properties and never go back.

**Cover-art transfers** (`cover_art_service.cpp`, `get_impl` and what it
calls). State: the request that holds `transfer_mutex_`, its deadline, its
attempt, the transfer it waits for, the target file, obexd's transfers.
Operations: source, address, session, image handle, thumbnail, native format,
image, second attempt; Cancel; removal of partial files. Hard: one deadline for
everything; obexd answers late, not at all, or for a transfer that is gone;
a Cancel or a reply with a path is lost, and that transfer goes on writing into
the file of the next attempt. Correct when every request is answered, a success
has its whole image, and a failure leaves neither a transfer nor a file.

**MPRIS artwork** (`cover_art_service.cpp`, `get_mpris_cover_art`). State: the
names left to ask, the open file. Hard: players and their files come, go and
change between the steps. Correct when an offered image is found and the bytes
are one file's.

**Native D-Bus proxies** (`media_player_proxy.cpp`, `media_control_proxy.cpp`,
`media_browser_proxy.cpp`, `media_transport_proxy.cpp`, `media_client.cpp`,
`media_utils.cpp`). No state; they make structs of dictionaries of variants.

**C ABI calls** (`client.cpp`, `client.dart`). State: the caller's buffer, the
allocations, the message on a port, open descriptors. Each operation is written
twice, blocking and queued, with its own checks and its own mapping of errors.
Hard: a failure between BlueZ's reply and the caller; keeping the two in step.
Correct when both report the same, and no buffer or descriptor is lost.

**Wire codec** (`glaze_meta.h`, `bluez_media_types.h`, `codec.dart`). No state;
field lists in C++ and constructor calls in Dart, both written by hand. Correct
when Dart decodes what C++ encoded, at every edge of a width.

**Not modelled**: the generated FFI bindings and the vendored Dart DL API
(generated and third-party code), library loading, the build hook and the
scripts (no behaviour over time), and the example application (a consumer of the
library).

### How they interact

An event-loop handler of the object manager updates its cache, posts an event
to Dart, and calls the callbacks that `create_context` installed: these post a
cover-art registration to `cover_operations`, and a removal to `operations`,
which invalidates local players and then posts the cover half to
`cover_operations`. Calls of Dart enter the C ABI, take a reference from the
registry, and post to one of the two queues; the answer goes to a result port.
The isolate orders events with events and answers with answers, but not the
two with each other.

### Hazards

`PROJECT.json` lists them at their lines, with the properties that watch them.

## 2. Modules

| Module | Models | Source |
|---|---|---|
| `ClientLifecycle` | registry, references, queues, reaper | `client.cpp` |
| `ClientContract` | what a client promises; `ClientLifecycle` implements it | (abstract) |
| `FdRegistry` | descriptor tokens and the kernel's table | `client.cpp`, `client.dart`, `bluez_media_transport.dart` |
| `MediaObjectManager` | the copy of BlueZ's tree | `media_object_manager.cpp` |
| `CoverArtSessions` | OBEX sessions of cover art | `cover_art_service.cpp`, `client.cpp` |
| `CoverArtTransfers` | fetching an image over OBEX | `cover_art_service.cpp` |
| `MprisArt` | reading artwork of mpris-proxy | `cover_art_service.cpp` |
| `LocalPlayers` | players registered with BlueZ | `media_client.cpp`, `local_player.cpp`, `client.cpp` |
| `MediaProxy` | the Dart proxies | `client.dart` and the proxies |
| `WireCodec` | encoding and decoding of every struct | `glaze_meta.h`, `bluez_media_types.h`, `codec.dart` |
| `DbusProxies` | structs made of BlueZ's properties | `media_*_proxy.cpp`, `media_utils.cpp` |
| `MediaCalls` | every operation through both surfaces | `client.cpp`, `client.dart` |
| `ClientLifecycleProofs`, `FdRegistryProofs`, `MediaObjectManagerProofs`, `CoverArtSessionsProofs`, `CoverArtFetchesProofs`, `LocalPlayersProofs`, `MediaProxyProofs`, `MediaCallsProofs` | inductive invariants and theorems | |
| `MCMediaObjectManager`, `MCCoverArtSessions`, `MCCoverArtFetches`, `MCMediaCalls` | instances for TLC | |

`MediaCalls` extends `DbusProxies`, which extends `WireCodec`.
`MCCoverArtFetches` puts `CoverArtTransfers` and `MprisArt`, the two ways to an
image, side by side. The other modules meet at named actions: a `Settle`
of `FdRegistry` and a queued call of `MediaCalls` are one `FinishCall` of
`ClientLifecycle`; `GetSession` of `CoverArtTransfers` is `GetRegister` of
`CoverArtSessions`.

`PROJECT.json` maps each definition to its lines. Definitions named
`X_<Fault>` are broken variants of `X`; no specification uses them. They show
that a property depends on the code: with the variant in the place of `X`, TLC
finds the property violated.

**ClientLifecycle.** A context is identified with its handle, a call or close
request with its result port. `clients` is the registry map; `phase` how far a
context got in construction or destruction; `queue` and `running` the two
`OperationQueue`s of a context; `job` what a thread is doing and which
`shared_ptr` its frame holds; `reaperQueue` the reaper's tasks. An entry point
is split where another thread can come between: `StartCall` is `get_context`,
`Dispatch` the posting, `Return` the release of the reference. `Drop` is
`shared_ptr::reset`: the last owner, whoever it is, runs the destructor, which
is `OperationsJoined` and then `CoverJoined`, in the order of the code. `Posted`
drops work when the queue is stopping, as `post()` does. `Signal` is a callback
of an event loop; the two loops end with the destructor.

**FdRegistry.** An acquisition goes through the stages of `Stages`, from the
D-Bus reply through the registry and the port to the Dart object or its
finalizer; the synchronous C ABI gives the number to its caller instead
(`raw`). `open` is the kernel's table, in which other code opens and closes
numbers at any time (`ForeignOpen`, `ForeignClose`). A token is identified with
its acquisition, since `next_fd_token` only grows.

**MediaObjectManager.** Each handler is one action, because all run on one
event loop. `calls` and `inbox` are the connection's two directions; both are
FIFO, as D-Bus is between two peers. `Apply` is `apply_update`'s argument,
deferred or not. A replacement snapshot replays the deferred updates with the
same operator, in one step, as the code does. Destroying a path's property
proxy cancels its pending GetAll (`Uncancelled`). `view` is what the events
posted so far amount to for a listener, `callbacks` the callbacks of the last
handler. The constructor subscribes before the first snapshot is asked for and
the loop runs after it, so signals from before are handled after (`Start`).

**CoverArtSessions.** A critical section of `mutex_` is a function of a record
of the state (`Unregistered`, `Registered`, `Close`), an action is one critical
section. The D-Bus calls inside `register_player` are part of its step, because
`mutex_` is held across them. `todo` holds the registrations left in the task
the worker executes, so signals may be handled between two registrations of
`reconnect_players`. A removal goes through `operations` (`Forward`), an
addition goes straight to `tasks`. obexd may be started by the bus for a method
call; in the model it starts at any time, before its signal is handled.
`port[p]` is `None` for a player BlueZ does not have and 0 for one without
ObexPort. A registration that fails may leave its CreateSession with obexd
(`pending`), which makes the session later (`LateSession`, `late`); obexd may
not remove a session it is asked to (`Refuse`, `deaf`), or only later, and
`remove_session` hears nothing of either. A fetch registers its player, looks
its session up again (`GetLooks`), and when the transfer fails forgets every
player of the device with the session (`GetFails`), whatever a signal or a
removal did in between. `layout` is the device of each player with the bounds of a behaviour;
it never changes, and lets one run cover several small worlds.

**CoverArtTransfers.** One action is one D-Bus call with what the code does
with its outcome, up to the next call. A call succeeds, fails with the peer
(`faults`), or ends with the deadline; `CallFails` is what every call may meet.
`Wait` is a poll of the transfer's Status, `Retry` the second attempt, `Return`
every way out of `get_impl`, which removes the partial file (`PartialFile`) and
cancels the transfer (`TransferCleanup`). obexd opens, writes, finishes, forgets
and drops its transfers at any time. An unlinked file goes on being written by
those that have it open, and a path may name a file two transfers write to
(`torn`). `stray` and `lost` remember transfers nobody can cancel any more.

**MprisArt.** A player is the process that owns its name, the track it shows
and its file; a file is an inode, which holds pieces of one item's image. The
parsing of the URL and of `/proc` is a choice between its outcomes. `steady`
and `touched` remember what did not change while the request ran, `refused` the
names a call failed for; any call may fail at any time. A name whose process
cannot be looked at, or whose file is not good, ends the search, because neither
is a D-Bus error that the loop over the names handles.

**WireCodec**, **DbusProxies**, **MediaCalls.** A byte has `ByteBase` values, so
that lengths of several bytes and edges of widths are small numbers. `Fields`
is the field list of each `glz::meta`, `Reads` the constructor calls of
`codec.dart`, in the order of each: nothing else ties them. A struct holds
lists of structs at most three deep, so `Encode` and `Read` are three layers of
one operator and need no recursion; `Holds` says what the C++ types can hold.
The operators that take the layer below as their argument (`EncodeField`,
`EncodeStruct`, `ReadField`, `ReadStruct`, `HoldsField`, `HoldsStruct`) are mapped
at the layers made of them (`Encode1`, `Read1`, `Holds1` and so on).
`Made` is the
struct the proxies make of a dictionary. In `MediaCalls` one request goes
through its blocking entry point and through `call_async` at the same time; each
gets any reply of `Replies`, and the client may be closed between all steps.

**LocalPlayers.** `busy` is the request whose D-Bus call is under way under
`players_mutex_`; the worker and a synchronous caller exclude each other
there. BlueZ may answer (`Answer`), answer after the timeout (`AnswerLate`),
refuse or never handle the call (`CallFails`), or lose it with its process
(`CallLost`). The destructor of a `LocalPlayer` only logs a failed
UnregisterPlayer (`local_player.cpp:108`), so BlueZ keeps a player that is gone
from `players_`; `late` remembers that, as it does an answer that came late. `events` are the signals on their
way to the event loop, which posts an invalidation to `operations`.

**MediaProxy.** A version is the number of the BlueZ change that gave an object
its properties. `events` and the pair `asked`, `replies` are not ordered with
each other. A proxy has an identity (`made`), so a reply that arrives for a
disposed proxy is not confused with one for its successor. The five kinds of
proxies treat properties alike and are one kind here.

## 3. Runs

| Run | Configuration | Shows |
|---|---|---|
| `client_lifecycle` | `ClientLifecycle.cfg` | no use after destruction, each call in exactly one place, the destructor's order, every port answered, and the refinement of `ClientContract` with its liveness |
| `client_early_close` | `ClientLifecycleEarlyClose.cfg` | a close reported before the cleanup (disagreement) |
| `fd_registry` | `FdRegistry.cfg` | ownership of descriptors; every unclaimed one is closed |
| `objects` | `MediaObjectManager.cfg` | the events add up to the cache, nothing is shown while the service is away, the cache converges, the client settles |
| `cover_sessions` | `CoverArtSessions.cfg` | a player alone on its device keeps a session; use counts, records and sessions agree |
| `cover_undercount` | `CoverArtSessionsUndercount.cfg` | a player left without session (disagreement) |
| `cover_other_adapter` | `CoverArtSessionsOtherAdapter.cfg` | another adapter's players reset (disagreement) |
| `cover_fetches` | `CoverArtFetches.cfg` | images are whole, failures leave nothing, offered artwork is found, every request is answered |
| `local_players` | `LocalPlayers.cfg` | registrations do not outlive adapter or BlueZ |
| `local_players_left` | `LocalPlayersLeftBehind.cfg` | a registration left with BlueZ (disagreement) |
| `proxies` | `MediaProxy.cfg` | proxies end with the latest properties, never go back by a refresh, and none survives the close |
| `calls` | `MediaCalls.cfg` | both surfaces report the same, Dart decodes what C++ encoded, nothing is lost |

### Bounds

- `client_lifecycle`: two threads and one client, so that a look-up, a
  retirement and a finalizer can overlap; two calls, one on each queue; one
  post of a callback, which is a removal (that continues on the other queue) or
  cover work. The contexts share nothing but the registry and the reaper, and
  the proofs cover every size.
- `fd_registry`: two acquisitions and two numbers are enough for a number to be
  closed and reused by the other acquisition or by foreign code; two clients
  for a claim after the other's destruction. The proofs cover every size.
- `objects`: a player and a folder on one path (a removal of one, then of both,
  is what the cancellation depends on), one or two properties (one value is
  sent, the other invalidated), two owners, two changes on top of the initial
  trees of `MCTrees`, one refused request.
- `cover_sessions`: the layouts of `MCLayouts`. An error is a registration that
  fails, a creation that times out here only, a session that is not removed, or
  a transfer that fails although its session lives. Players of one device, which
  may ask for different ports, so that a session is replaced: ports with a
  restart of obexd; a fetch with a restart; an error with a restart; an error
  with ports; an error with a fetch. Players of two devices: an error with a
  restart and a session dropped by obexd; an error with a fetch. Three session
  paths, one of which may be another client's. `SoleIsServed` says something in
  the layouts of two devices only; the undercount of the second disagreement
  below needs a shared device, and is the subject of `RegisteredIsServed`.
- `cover_fetches`: two OBEX requests, of which one may only use an existing
  session; one fault of obexd. At most three transfers are stray when a request
  makes its last one (two attempts of two requests), hence four. An image of two
  pieces can be partly written. The MPRIS request meets two names and two files,
  one change while it runs, any number of refused calls; the sizes 0 to 3 against a limit of 2 are
  empty, short, at the limit and too large. The OBEX and the MPRIS requests share
  only the worker that takes them one after the other, so they are explored from
  initial states of their own.
- `calls`: every operation with valid, missing and unknown arguments; every
  dictionary that differs in one property from a full one: missing, of another
  type, empty, at 0, at a byte's edge and at its width. `ByteBase` 16 makes a
  text of 17 bytes need the second byte of its length.
- `local_players`: two players, two adapters, three requests, two losses and
  one call that fails or is answered late: a registration, its loss and its
  repetition fit.
- `proxies`: an item and a folder, four changes (appear, change, disappear,
  appear again), two refreshes, one listing, one proxy asked for by path.

`CHECK_DEADLOCK FALSE` is used where the bounds end the environment
(`MediaObjectManager`, `CoverArtSessions`, `LocalPlayers`, `MediaProxy`,
`MediaCalls`): a program with nothing left to do waits for its next message.
`ClientLifecycle` says explicitly when it waits (`Quiescent`), and
`CoverArtTransfers` when everything is answered (`Stop`), so a real deadlock of
their threads would be found. Symmetry (`PathSymmetry`) is used in the runs of
`CoverArtSessions`, which have invariants only: session paths are only compared.

### Fairness

- `ClientLifecycle`: every thread runs until it blocks, and a D-Bus call ends
  with its reply or sdbus-c++'s timeout, so that an operation that started
  finishes. Nothing obliges a caller to make a call or to close a client.
- `FdRegistry`: a worker or isolate goes on with a reply it has (`Settle`); a
  retired client is destroyed, which `ClientLifecycle` shows. Nothing obliges
  the user to close a descriptor or the collector to run, and
  `UnclaimedIsClosed` does not depend on it.
- `MediaObjectManager`: the event loop runs, and each call is answered by
  BlueZ, by the bus when its callee is gone, or by the timeout.
- `CoverArtTransfers` and `MprisArt`: the fetching thread runs, and the clock
  goes on. Nothing is asked of obexd, of BlueZ or of players: the deadline alone
  has to end a request.
- The other specifications have no fairness; their properties are about the
  states in which nothing is under way. That calls are answered is shown in
  `ClientLifecycle`.

### Where the code and its documentation disagree

1. `destroy_async` promises to "report completion after queued calls and
   cleanup finish" (`native/include/bluez_media_native.h`). The reaper's task
   drops its own reference and reports. When another thread is inside an entry
   point for this client, that thread destroys the context, later.
2. The early return of `register_player` does not count its player. A player is
   registered; obexd restarts, and the handler of its end clears `sessions_` but
   not `players_`. A second player of the device is registered before the queued
   `reconnect_players` runs: it makes a new session, with one user. Then
   `reconnect_players` registers the first player, which is still in `players_`,
   finds a record with its port and returns. When the first player is removed,
   the count reaches 0 and the session is closed, although the second is
   registered. Hence the violated `RegisteredIsServed`, which asks only that
   obexd has some session to the device of every registered player, and
   `SoleIsServed`, which holds, for players that share their device with no
   other.
3. The removal of any adapter's `Media1` resets the cover-art sessions of all
   adapters. The players of the others are registered again only with their
   next property change. `PresentIsServed` states the promise for the players
   BlueZ shows.
4. An invalidation runs when the operations queue reaches it. A player
   registered with the new owner in the meantime is forgotten here without
   UnregisterPlayer, and BlueZ refuses to register it again.

More behaviours were met that delimit what is stated. A player that is
removed and added again at once is unregistered last, because the two take
different queues. A registration that fails, also while obexd is away, is not
repeated; `SoleIsServed` therefore speaks of the players in `players_`, and of
behaviours in which no registration failed with a living obexd. A listing writes
properties without comparing revisions, so `RefreshNeverOlder` is about
refreshes, and `ProxiesMatchBluez` about behaviours without a listing. A proxy
asked for by path suppresses its object's `Added` event;
`PresentIsAnnounced` is about the others. After an obexd restart a session may
be recorded as found and not as ours; `OwnSessionsRecorded` holds until then.
Before a restart, two kinds of sessions stay behind without a record: one that
obexd makes after `create_session` has timed out (`cover_art_service.cpp:193`),
and one that it does not remove within the 200 ms of `remove_session`, which
swallows the failure (231). `OwnSessionsRecorded` is about the sessions the
service was told it made and that obexd removes when asked, and a late session
may be the second of its device and port (`NoSecondSession`). A transfer that
fails, for whatever reason, makes `get_impl` forget all players of the device,
and its second attempt registers only the one it fetches for; the others are
registered again with their next property change.

`Converged` holds until BlueZ refuses a request: a failed snapshot leaves the
client unavailable until the next owner change, a failed GetAll leaves the old
value, and the code asks again in neither case. Signals that come after a failed
snapshot are applied and posted although the service was never announced as
available (0x31).

Smaller disagreements, without a run of their own:

- `README.md:356` says that incomplete MPRIS files are rejected. A file that
  grows is read at the size it had when it was opened, and accepted;
  `BytesAreOneFile` says which bytes a caller gets.
- `CHANGELOG.md` says that incomplete fast-finished transfers are rejected. A
  transfer that is gone counts as completed, and when it had told no Size the
  file is accepted as it is. `SuccessIsImage` exempts exactly that.
- `bluez_media_types.h:12` lists 0x10 as the acquire result and 0xFF as the end
  of a stream. The code posts acquire results as 0x11, any other payload as
  0x10, and an empty answer as 0xFF; so does `MediaCalls`.
- `bluez_media_register_player_async` refuses a null name, type or subtype; the
  blocking entry point takes it for an empty text. `MediaCalls` has both.
- A setting of Repeat or Shuffle that BlueZ refuses is `UNSUPPORTED_SETTING` from
  the blocking call (`client.cpp:1012`, `1040`). `post_status` pairs that status
  with `org.bluez.Error.NotSupported` (334), but `dispatch_async` never makes
  it: the queued call posts BlueZ's own `org.bluez.Error.Failed` (593).
  `SameOutcome` exempts the name of this one error (`SettingRefused`).
- An empty object path is `OPERATION_FAILED` from the blocking call, which
  catches the exception of the proxy's constructor with all others, and
  `InvalidArguments` from the queued one. `SameOutcome` allows for each call
  that asked nothing of BlueZ to say so in its own way.

## 4. Proofs

Each proof module proves its theorems for any values of the constants, infinite
sets included. The assumptions are the named ASSUMEs of the component: that the
model values which mean "none", "free" or "foreign" are none of the things they
stand beside, that bounds are numbers, that what is counted or put in an order
is finite (players and devices in `CoverArtSessions`, objects in
`MediaObjectManager`), and what C++'s types hold (`MediaCalls`, below). Each has
an inductive invariant `IInv` that contains the invariants of the runs, or from
which they follow, a lemma for its preservation with one step for each action,
and theorems that combine the two. Every state invariant and action property of
a passing run is a theorem. TLC checked every `IInv` on the instance of the
run before it was proved.

**ClientLifecycleProofs.** `TypeCorrect`, `NothingDangles`
(`NoUseAfterDestroy`), `CoverHalf` (`CoverHalfAccepted`), `Accounts`
(`CallAccounted`) and `Implements`, the safety half of `ImplementsContract`:
under the same mapping the initial states are those of `ClientContract`, and
every step is one of its steps or leaves it unchanged. None of these is
inductive alone. Whoever holds a `shared_ptr` holds one to a live context
(`Referenced`), so only the last one out can begin the destruction. Only the
connections worker creates (`Creating`), and what a thread carries into the next
stage is well formed (`Carrying`). A joined queue stays empty, because `post()`
refuses work once `stopping_` is set (`Joined`). A call whose answer is due is
at its client (`DueIsLocated`), in one place only (`InOnePlace`): therefore a
context that goes has answered all its calls, which is the guard of the
contract's `Forget`.

**FdRegistryProofs.** `TypeCorrect`, `Invariance`, `Ownership` (`RegistryOwns`),
`NoneLeaks` (`NoOrphan`) and `ForeignUntouched` (`NeverClosesForeign`). From a
state in which a token is right but the pending set names a token somebody has
claimed, the next destructor closes a descriptor in use; from one in which the
number of an acquisition differs from the one it is open under, a close by
number hits another. `IInv` excludes these states: an acquisition is open under
its number and no other (`OpenIsNumber`); a descriptor that is in a reply, in
its caller's hands or claimed is open (`HeldIsOpen`); an entry is the number of
an acquisition past `retain_fd` (`EntryIsNumber`); the client of running work is
not destroyed (`MadeByClient`); pending tokens are unclaimed, and unclaimed
entries are pending (`PendingUnclaimed`, `UnclaimedIsPending`); a claimed result
keeps its entry (`LiveHasEntry`); an open descriptor is held (`OpenIsHeld`).

**MediaObjectManagerProofs.** `TypeCorrect`, `EventsAddUp` (`EventsMatchCache`)
and `CacheConverges` (`Converged`). That the cache is right when nothing is
under way says nothing about the states before. `IInv` says what is under way:
each cached interface agrees with BlueZ, or a signal in the inbox or a GetAll
call puts it right (`Tracked`). For a handler to keep this, what a queued or
deferred message says must itself be right, or put right by the messages behind
it (`AllSound`): the older of two `PropertiesChanged` relies on the newer, and a
GetAll that failed because its object is gone on the addition that brings it
back. The rest says which messages can be there at all. A GetAll is under way
only while its path has an interface, because destroying the path's proxy
cancels it (`Anchored`); otherwise a late reply could bring a removed object
back. At most one snapshot request of the current generation is under way, and
only during a resynchronisation (`Snapshots`); one that no owner change will end
has its snapshot coming (`Awaited`). The last owner change in the inbox tells of
the present owner, and without one the requests are addressed to it (`Owners`).
Nothing is cached while a snapshot is awaited, and nothing deferred otherwise
(`Resyncs`); no signal is applied from a name without an owner (`Silent`);
before the start there are only signals and owner changes (`NotStarted`); and
the events posted add up to the cache (`Shown`, which contains
`EventsMatchCache`). The two recursive functions, the cancellation
(`Uncancelled`) and the replay of deferred updates (`Replayed`), work on queues
of any length; see "Induction" below.

**CoverArtFetchesProofs.** For `CoverArtTransfers`: `TypeCorrect`,
`NothingLeftRunning` (`RunningIsOurs`), `AnswerHasFile` (`FileIsAnswer`) and
`Successes` (`SuccessIsImage`). `IInv` adds that a stray transfer is a lost one
(`StrayIsLost`), that the request in progress has no answer yet and no earlier
one succeeded (`NothingAnswered`), and that a request knows a transfer exactly
while it waits for one (`MineWhileWaiting`). `Successes` needs more: as long as
no transfer was lost, obexd has none but the one the request waits for, which
writes the file it will find (`LoneWriter`); so no file is torn, and a transfer
that is complete has left all of the image in it.
For `MprisArt`: `MprisTypeCorrect` (`MprisTypeOK`), `OneFile`
(`BytesAreOneFile`) and `Found` (`OfferIsFound`). A name that has offered the
artwork throughout and refused no call is still ahead of the search, or the one
it has come to, until the deadline or an end of the search by another name
(`OfferIsAhead`); what has been read is the file
as it was opened, until it is rewritten (`PiecesAreFile`).

**CoverArtSessionsProofs.** `TypeCorrect`, `Users` (`UsersBounded`),
`OneSession` (`NoSecondSession`), `OwnRecorded` (`OwnSessionsRecorded`) and
`SoleServed` (`SoleIsServed`). A critical section of `mutex_` is a function of a
record of the state, so the lemmas say first what each does to the fields of any
record, then that it keeps the record sound (`Sound`: the counts, and no two
sessions to one device and port); an action applies them to its own record. A
count stays below the number of registered players because a player is counted
when it is registered or not at all (`Counted`). `OwnRecorded` is proved in a
second round (`OursKept`), on top of `IInv`: until the second start of obexd, a
signal is about a session that has ended and whose path is not given again, a
recorded path is a session of that device and port while it lives, and a session
of ours (`Own`: neither late nor one that obexd does not remove) is recorded as
owned. A signal can therefore never drop the record of a
session that lives. `SoleServed` takes a third round, which holds after restarts
too. A record is of a session made for its device and no other's, unless obexd
has ended unseen (`OwnPaths`); a recorded session that is gone has its end told,
unless obexd has started unseen (`EndsTold`); and an end is told before the
start that follows it (`Ordered`). While no request failed and obexd runs, a
registered player that shares its device with none is recorded, or about to be
looked for: a start is untold, a reconnection queued, or its registration left
in the task under way (`WillServe`, `Awaits`). When nothing is left to do only
the record remains, and it is of a session that lives.

**LocalPlayersProofs.** `TypeCorrect`, `NoneOutlives` (`KnownIsRegistered`) and
`Agrees` (`AgreeWhenStable`). A player that BlueZ has lost has a signal on its
way, or an invalidation in the queue (`LostIsWarned`); before the first loss
there is nothing of either (`NothingLost`), and the two sides agree but for the
player that is being unregistered (`Agreement`).

**MediaProxyProofs.** `TypeCorrect`, `Converges` (`ProxiesMatchBluez`),
`Announces` (`PresentIsAnnounced`), `RefreshesForward` (`RefreshNeverOlder`) and
`ClosedStaysEmpty` (`ClosedIsEmpty`). The proof follows a version from BlueZ to
the proxy: nothing under way is newer than BlueZ (`Delivered`); the last event
queued for an object carries its latest version (`LastEvent`); a fetch knows no
later revision than its proxy has (`Asked`), so a reply that may still be
installed is not older than what it replaces (`Current`); and a proxy whose
events have been handled is BlueZ's object (`Followed`).

**MediaCallsProofs.** First the codec: `RoundTrip` says that for every type
Dart decodes, whatever a struct of that type holds within the widths of its
fields is decoded from what C++ encodes, wherever it begins. Its lemmas go the
way the code does, from integers (`WriteInteger` and `ReadInteger`, two's
complement included) over texts and lists to structs, and rest on the agreement
of `Fields` with `Reads`, step by step (`Steps`). Then the two calls:
`TypeCorrect`, `NothingIsLost` (`NothingLost`), `Agreement` (`SameOutcome`) and
`ViewIsTheReply` (`ViewIsReply`). The invariants compare what Dart sees with
BlueZ's reply, several steps apart; `IInv` says what is in between: how far each
call can have got with which checks passed (`SyncStates`, `AsyncStates`), what
is in the buffer of a call that returned (`SyncReturned`), who holds which
descriptor and allocation (`Owned`), which bytes were posted for which reply
(`MessageSent`) and what the future completed with (`ViewShown`). That both
calls have the replies their operation may get (`Answers`) is proved on top of
it. The assumptions: the values of a request are within the types of C++, with
lengths below D-Bus's limit (`RequestAssumption`), a descriptor is a
non-negative `int32_t` (`FdAssumption`), "none" is none of the values it stands
beside (`NoneAssumption`, `ViewAssumption`), and a byte has the values that stand
for texts (`StandInAssumption`).

**Induction.** The library's induction theorems take an operator as their
parameter, which no installed prover can instantiate. `MediaObjectManagerProofs`
and `MediaCallsProofs` do without: a set of numbers that has 0, and `n` when it
has `n - 1`, has every number (`Counting`, `CountingTo`, from `WFMin` for the
least number outside it). A recursive function is a CHOOSE, which says nothing
until a function that obeys its equation is shown to exist (`KeptExists`,
`ReplayExists`, `Recursion`), by such an induction over its domain. For the same
reason no module of the project has a RECURSIVE operator.

Model-checked only: everything under fairness (`EveryPortAnswered`,
`UnclaimedIsClosed`, `Settles`, `EveryRequestAnswered`, the liveness of
`ImplementsContract`), because it needs `ENABLED`, which the prover does not
reach. About `DbusProxies` no theorem is stated: the proofs use what it makes of
a dictionary as a value of the struct's type, and that each conversion makes such
a value is `RequestAssumption`, evaluated by TLC for the requests of the run.

## 5. Not modelled, and what is next

- A client's construction is one step of `ClientLifecycle`. The window in which
  the reconnect callback may run before `cover_art` is assigned
  (`client.cpp:243`), and a failed construction whose worker still waits
  (`client.cpp:285`), are hazards without a property.
- Whether a blocking call under `mutex_` and a handler of the session bus can
  wait for each other (`cover_art_service.cpp:231`) depends on sdbus-c++, which
  is not in the repository; the model lets handlers run when `mutex_` is free.
- The destruction of the registry at process exit, the streams of changed
  property names, `BluezMediaClient.create`, the volume argument of
  `transportSetVolume`, and the components listed as not modelled in section 1.
- Result ports that are closed early are in `FdRegistry` and, for creations, in
  `ClientLifecycle`; a queued call of `MediaCalls` keeps its port.

In this order:

1. The construction of a context in steps, in a module of its own: callbacks
   against unassigned members, failure after the first snapshot.
2. Compositions: the callbacks of `MediaObjectManager` driving
   `CoverArtSessions` and `LocalPlayers`, and its events driving `MediaProxy`,
   with an abstract "mirror of BlueZ" specification that both sides implement.
3. The Dart side of creating, calling and closing a client, with the events
   port, on top of `ClientContract`.

## 6. Running

    tlc -workers 2 -config ClientLifecycle.cfg ClientLifecycle.tla
    tlc -workers 2 -config CoverArtFetches.cfg MCCoverArtFetches.tla
    tlapm ClientLifecycleProofs.tla

The module of each configuration is in `PROJECT.json`. A run takes between a
second and three minutes, a proof module up to about ten minutes.
