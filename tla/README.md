# Verification of the swift pilot client

swift connects a flight simulator to an online flight network. A *core* process
talks to the network (FSD protocol), to the voice servers and to the simulator;
other processes (GUI, launcher, data tool) talk to the core over DBus. Nearly
every object of these programs reads settings and downloaded data through value
caches and does its long work in worker objects with threads of their own. This
directory models those mechanisms in TLA+, checks them with TLC and proves their
central invariants with TLAPS.

Source paths are relative to the root of the repository. `PROJECT.json` maps every
definition to the lines it models.

## 1. The system

| Part | State | Operations | Interaction | What is hard | What makes it correct |
|---|---|---|---|---|---|
| Value cache (`src/blackmisc/valuecache.cpp`) | elements with value, timestamp, pending counter and saved flag, in one cache per process and in one page per owner object | set, save, batches, ratification of changes made elsewhere | queued or direct signals between page and cache | changes cross on the way; an own change must not be overwritten and counters must return to zero | counters are exact, settled pages and caches agree |
| Settings (`settingscache.cpp`, `src/blackcore/context/contextapplication*.cpp`) | settings files, one cache per process | relay, synchronise, save, load | DBus method calls to the core and signals from it | processes join while changes are relayed; the core echoes a change to its originator | all processes converge to the values of the core |
| Data cache (`datacache.cpp`) | memory per process, revision file, value files, lock file | load and save tasks, admit, pin, watch | files shared by processes, a worker thread per process | two threads and several processes work on snapshots of each other's state | timestamps tell which value is newer, every process gets the newest value |
| Workers (`worker.h`, `worker.cpp`) | finished flag and mutex, thread affinity, timer, thread | start, then, wait, abandon, quit, finish | event queues of two threads | an object moves between threads while both use it | each functor is called once, no use after deletion, every wait ends |
| Shared state (`sharedstate/`) | journals, observers, subscriptions and requests of a link | subscribe, post, request, reconstruct, reconnect | DBus messages, one ordered queue per direction | a requested list races with events; the core ends and starts again | an observer shows what the journal holds for its filter |
| FSD client (`src/blackcore/fsd/fsdclient.cpp`) | connection status, socket, queue of messages, timers | connect, disconnect, rehost, time out, send | calls posted by the network context, socket, token service | timers, tokens and sockets of an earlier connection act on a later one | a pending connection ends, a closed one is quiet, messages stay with their connection |
| Airspace monitor (`airspacemonitor.cpp`) | aircraft in range, readiness flags, timers | add, update, match, verify, remove, re-initialize | signals of the FSD client, simulator context | timers of a callsign that has left and returned | every aircraft that stays is announced for matching; nothing survives its connection |
| FSX/P3D driver and simulator base class (`simulator.cpp`, `plugins/simulator/fsxcommon/`) | objects, pending aircraft, aircraft to add again, timers | add, remove, change, verify, retry | simulator context, SimConnect messages | an aircraft is removed or changed at any moment of an asynchronous creation that may fail or never end | one creation at a time, no aircraft lost, no object left behind |
| Voice client (`afv/`) | login, connection, heartbeats, token, retries | connect, disconnect, retry, renew, log off | calls posted by the audio context, HTTP replies, nested event loops | late replies and nested calls meet another session | keeps trying while the FSD connection lasts, logs off without it |
| Readers, matcher, contexts, other drivers, GUI | see `PROJECT.json` | | | | |

`PROJECT.json` lists all components with the reason why one is not modelled, and
under `hazards` the places in the code where these difficulties bite.

## 2. Modules

| Module | Models | Status |
|---|---|---|
| `ValueCache` | `CValueCache`, `CValuePage`, `CSettingsCache`, relay of settings by the application context | checked, all its safety properties proved |
| `Lists` | selecting entries of a list (`findBy`, `removeIf`) | |
| `QueueLemmas` | lemmas on queues and lists that the proof modules share | proved |
| `ValueCacheProofs` | the proofs about `ValueCache` | proved |
| `Worker` | `CWorkerBase`, `CWorker`, `CContinuousWorker` | checked, all its invariants proved |
| `WorkerProofs` | the proofs about `Worker` | proved |
| `DataCache`, `DataCacheProofs` | `CDataCache`, `CDataCacheSerializer`, `CDataCacheRevision` | checked; proved: types, and the only ways in which memory and revision go back |
| `SharedList` | what a list journal promises its observers (abstract) | |
| `SharedState` | `CDataLinkDBus`, `CHub`, `CDuplex`, list journal and observers | checked, its safety properties proved but for `ShownOnce` |
| `SharedStateProofs` | the proofs about `SharedState`, the refinement of `SharedList` among them | proved |
| `FsdConnection` | the connection of `CFSDClient` | checked, all its invariants proved |
| `Airspace`, `AirspaceProofs` | remote aircraft in `CAirspaceMonitor` | checked, all its invariants proved |
| `SimConnectTraffic`, `SimConnectTrafficProofs` | remote aircraft in `CSimulatorFsxCommon` and `ISimulator` | checked, all its invariants proved |
| `VoiceConnection` | `CAfvClient`, `CClientConnection`, `CApiServerConnection` | checked, its invariants proved but for `AnnouncedStatus` |
| `ConnectionProofs` | the proofs about `FsdConnection` and `VoiceConnection` | proved |
| `MC*` | model values and instances for TLC | |

### ValueCache

A process has one cache, which lives in its main thread, and pages. A page of the
main thread is connected to the cache directly, so that its delivery is part of the
step that emits the signal; a page in `Threaded` has a queue in each direction
(`toCache`, `fromCache`). The core relays each change to all processes
(`fromHub`), which send theirs in `toHub`; the bus keeps the order of messages
between two processes. A member of `Value` stands for a value together with its
timestamp, which the code stores, compares and sends together.

Requests are `CreateElement`, `SetValue`, `SaveUnchanged`, `SetBatched`,
`BeginBatch`, `AbandonBatch`, `EndBatch`; deliveries are `CacheTakes` (`changeValues`),
`PageTakes` (`setValuesFromCache`), `HubTakes` and `ProxyTakes`
(`changeValuesFromRemote` in the core and elsewhere). `SynchronizeLocalSettings`
lets a process join, `SaveToStore` and `LoadFromStore` work on the settings files.
`SameStamp` allows two requests within one millisecond (the code then treats a
change as unchanged), `DiskFails` lets writing fail.

### Worker

The variable `lives` is `QObject::thread()`. It is read up to three times in one call
of `quitAndWait()`, and `finish()` changes it in the other thread, so each read is a
step of its own (`QuitCalled`, `GetThread`, `QuitAgain`, `QuitThread`, `Wait`). The same
holds for `abandon()` and `abandonAndWait()` (`AbandonCalled`, `Interrupt`, `WaitAgain`).
`then()` and `setFinished()` take two steps each, with the mutex in between. `thr` is
the progress of the worker's thread from start to end: the loop or the task, cleanup,
setFinished, deleteLater, moveToThread. The owner's event loop delivers queued
functors, drops shifted calls that come too late, deletes the worker and reaps the
thread (`CallQueued`, `DropPosted`, `DeleteWorker`, `ReapThread`). `StartUpdating` is shifted to the
worker's thread as long as the worker lives there, also after `quit()`; once the worker has
moved back, the owner's call runs directly. The owner makes at
most `MaxCalls` calls and does not use the worker after its deletion (owners hold
`QPointer`s). That a wait for a thread may time out is part of `Wait`.

### DataCache

Each process runs a main thread (`Set`, `Admit`, `FileChanged`) and a serializer that
executes tasks one by one: `BeginTask` takes the snapshot of the memory, `LockAndRead`
obtains the lock file and reads the revision (`beginUpdate` and the reading of the files),
`FinishLoad` applies what was loaded, `SaveRevision` and `SaveFiles` write. The steps
are cut where the main thread or another process can interfere. `Start` is the
constructor with its synchronous load of pinned values, `Stop` the destructor.
`Overtake` allows a process to set a value while its serializer has work to do,
`Repeat` allows setting a value that was set before, with a new timestamp.

### SharedState and SharedList

A client's data link calls its `CDuplex` in the core (`toHub`) and receives the signals
and replies of that object (`toClient`); the actions `Connect`, `Ready`, `Announce`, `Disconnect`
follow `CDataLinkDBus`, `Handle` is the core's side (`HubOpen`, `HubSubscribe`,
`HubRequest`, `HubEvent`, ...). `SetFilter`, `Post`, `PostCore` are calls of the programs; every
process may post, the one that observes too, as the GUI does. `CoreStop` and `CoreStart` are the
end and the restart of the core.

A reply that arrives (`Receive`) only fulfils a promise (`arrived`); the list is replaced
turns of the event loop later (`Replace`), after `chainResult` and `doAfter`. What reaches the
observer in between is appended and then overwritten, and what its own process posts is shown before
the journal has it. Two history variables name these elements, from one request of the observer to the
next: `late`, what reached it while a request was open, and `own`, what its process has posted.
`Followed` are the elements of its filter without these.

`SharedList` knows no messages: an attached observer shows a prefix of what the journal holds of the
elements it follows and only moves forward; when its process adds an element itself this is not
followed any more (`Disclaim`), when it asks for the list anew anything may happen to it until it is
attached again (`Detach`, `Attach`). The refinement maps `Followed`, the part of the list that is
followed, and "connected with no open request" to `want`, `view` and `attached`.

### FsdConnection

The client's thread handles posted calls, socket signals, messages of the server, replies
of the token service and timers one by one; each is an action, and the network context's
check of the status is a step of its own before the call is posted (`AskConnect`,
`AskDisconnect`). A connection has a number that the code does not have: results of an
earlier connection that are applied to a later one set the history variable `late`.
`Tick` is the passing of time; timers have a time left.

### Airspace

One record per callsign holds readiness flags, their age and the check timers, which are
never cancelled. `AddNewAircraft`, `StoreSituation`, `OnIcaoCodesReceived`,
`OnFsInnPacketReceived`, `LeaveRange` and `OnPilotDisconnected` are signals of the
network, `CheckReadiness`, `VerifyReceivedIcaoData` and `ReInitialize` timers. The end of
the connection takes two steps, `Drop` and `Clear`, since its signal is queued. `known`
is what the simulator was told to match and has not removed: an aircraft that leaves the range is
removed from the provider without a word to the simulator (`LeaveRange`), and the driver removes its
object when it looks for aircraft that are not in the provider (`DriverRemoves`). The readiness
survives `LeaveRange`; if matching was sent, the mark `strayed` beside it says that this was in
an earlier visit. No action reads the mark. `ghosts` are aircraft a re-initialization adds without a connection.

### SimConnectTraffic

`objects`, `pending` and `again` are the three lists of the driver; `adds`, `removals`,
`retries` and `verifies` are its single shot timers, by what they do. An addition
(`AddAircraft`) is one of `AddOutdated`, `AddSameModel`, `AddOtherModel`, `AddLater`,
`AddNotInRange`, `AddNow`, as the branches of `physicallyAddRemoteAircraftImpl`. The
simulator answers a request with `Assigned` or `CreateFails`, or never; `ObjectRemoved` may
come unasked. The history variables `stranded`, `crossed` and `givenUp` mark the cases
section 5 lists, which the properties except.

### VoiceConnection

All of it is one thread whose state is the record `afv`. Synchronous requests run nested
event loops, in which any event can be handled: the stack `frames` holds the calls that
wait inside one, and only the innermost may return. Timers that nothing cancels are
counted (`checks`, `reconnects`, `resumes`). Its specification is `VoiceSpec`, from `VoiceInit`
and `VoiceNext`: `ConnectionProofs` extends this module together with `FsdConnection`.

## 3. Runs

Every passing run has a mutant for each of its properties: a variant of one
definition with a plausible mistake that makes TLC find the property violated.
The type invariants and inductive invariants are proved (section 4) and not checked again
by the runs.

| Run | Checks | Shows |
|---|---|---|
| `pages` | `PagePendingExact`, `PagesAgree`, `OwnChangeKept` | a page in a thread and one with a validator in the main thread, two keys, nested batches, equal timestamps, failing disks: counters are exact, no own change is lost to another's, settled pages agree with the cache |
| `settings` | `CachePendingExact`, `CachesAgree`, `SavedOnDisk`, `EventuallyConverged` | a core and two processes with a page each, joining and changing a setting concurrently: all converge when requests stop, what counts as saved is on file |
| `worker_life` | `CalledOnce`, `NoTouchAfterDelete`, `WaitedForEnd`, `LateStartDropped`, `CallsReturn`, `DeletedAtEnd` | tasks and continuous workers whose owner registers functors, abandons, waits, starts updates at any time and quits up to twice |
| `data_distributed` | `StampsTellValues`, `EventuallyDistributed` | a process that does not set a value while its serializer is busy shares its values reliably with the others |
| `shared_viewers` | `LinkInv`, `ViewTracksJournal`, `ShownOnce`, `EventuallyComplete`, `ImplementsSharedList` | a process that observes and posts, another one that posts, a change of the filter and a restart of the core: snapshots and events fit together, nothing is shown twice, the list ends up complete but for late elements, `SharedList` is implemented |
| `fsd_connection` | `PendingIsWatched`, `DisconnectedIsQuiet`, `MessagesOfThisConnection`, `ConnectedIsOpen`, `PendingEnds` | two connections to any kind of server with everything that can end them |
| `airspace` | `NotForgotten`, `CleanOffline`, `SentMeansKnown`, `EventuallyKnown` | an aircraft that leaves and returns while timers of its first visit run, a driver that removes what has left, one loss of the connection, one re-initialization |
| `traffic` | `OnePendingAdd`, `RenderedIsShown`, `NoGhosts`, `NotLost`, `EventuallyAdded`, `EventuallyRemoved` | one aircraft on its way into the simulator, changed or removed at any moment, while another is added; one failure of the simulator or the network |
| `voice_sessions` | `ConnectedBeats`, `AlwaysTrying`, `EventuallyConnected`, `EventuallyLoggedOff` | two FSD sessions with logins that fail or come late, a silent server, nested event loops |
| `worker_two_quits` (violation) | `OwnerKeepsRunning` | a second `quit()` can stop the event loop of the owner |
| `data_overtake` (violation) | `EventuallyDistributed` | a value set while a save is queued may never reach another process |
| `voice_status` (violation) | `AnnouncedStatus` | a disconnect handled inside the callback of a login: Connected is announced last |

The violations are described with the lines of code and documentation under
`findings` in `PROJECT.json`. Section 5 lists further deviations and how to see them.

### Bounds

* `MaxChanges`, `MaxSets`, `MaxCalls`, `MaxQuits`, `MaxStops`, `MaxLoads`, `MaxNesting`,
  `MaxFilters`, `MaxPosted`, `MaxAsks` bound how often somebody makes a request; deliveries,
  timers and replies are not bounded. Three or four requests are enough for two crossing
  changes and a third one that meets their echoes; counters reach two, which distinguishes
  a counter from a flag. Six calls suffice for a start, two functors, a startUpdating, a
  quit and a wait on one worker, or for a second quit and a startUpdating after the end.
* Two values are enough to tell an own value from another's; the data cache needs three,
  for the old, the overtaken and the new one. Values that have not been used are
  interchangeable there, so `Set` takes a fixed one of them unless `Repeat`.
* Two keys show packets that are treated differently per key; three keys in
  `data_distributed` are one pinned, one plain and one deferred, and the process that writes
  them as well as the one that reads them may end and start again. `settings` has an
  originator, the core and a bystander.
* `shared_viewers`: two elements, one of which a filter leaves out, each posted by the observer's
  process, the other one or the core; one change of the filter and one restart of the core can meet any
  request, reply, replacement or event.
* `fsd_connection`: an earlier and a current connection; timeout and check keep the ratio of
  the code (7.5 s and 9.375 s as 4 and 5 ticks). `airspace`: two visits of one callsign (aircraft
  do not influence each other) and times in the order of the code's 2, 6, 20 and 24 s.
* `traffic`: aircraft `a` gets two calls and `b` one, since one call adds and the second one
  meets every stage of the addition; `MaxFaults` bounds failed creations, objects that
  disappear, stops of the simulation and ends of the network connection. Three object
  numbers per callsign are never used up. The thresholds for failures are 1 and 1
  (1 and 2 in the code). All invariants also hold with three calls for `a` and with two
  faults, each with a single model (1.4 and 1.1 million states).
* `voice_sessions`: two sessions, so that everything of the first can meet the second, two
  chains of attempts and two nested calls.
* Deadlock is checked for `airspace` and the voice client, where time or the periodic timer
  goes on for ever. Elsewhere a state in which all requests have been made and everything has
  been delivered is a proper end.

### Fairness

* `ValueCache`: weak fairness of each delivery. Event loops dispatch what is queued,
  and DBus delivers. Nobody is obliged to make a request or to join.
* `Worker`: weak fairness of the steps of each thread and of the owner's event loop.
  A blocked owner has no enabled event step, as in the code.
* `DataCache`: weak fairness of tasks and file watchers, strong fairness of
  obtaining the lock file: `QLockFile::lock()` retries until it succeeds, and
  serializers release it between tasks. Processes need not start, set or stop.
* `SharedState`: weak fairness of the link's timer, of connecting, of each queue and of the
  callbacks that replace lists.
* `FsdConnection`, `Airspace`: time passes and timers run; nothing has to come from the
  user, a socket or a server.
* `SimConnectTraffic`: the driver's timers run and the simulator removes what it is told to
  remove. It need not answer a request to create an object.
* `VoiceConnection`: posted calls, timers and replies come in the end; strong fairness of
  `LoginSucceeds`, that is, of the logins that are tried again and again some succeed.

## 4. Proofs

TLAPS proves for every value of the constants that satisfies the named
assumptions (`ConstAssumption`, `WorkerAssumption`, `TimeAssumption`, `TimesAssumption`,
`BoundAssumption`, `VoiceBounds`, `DataCacheAssumption`):

* `ValueCacheProofs`, counters: `PendingCorrect`, and from it `TypeCorrect`,
  `PagePendingCorrect`, `CachePendingCorrect`. That a counter never becomes negative, which the code asserts, is not inductive: one needs to
  know that each acknowledgement in a queue is counted. `PendingInv` says that the
  counter *equals* the number of own changes in the two queues, that pages of the main
  thread and the core have empty queues (their changes are acknowledged within the
  step), and that a page sends only keys it has an element for. The lemmas of
  `QueueLemmas` say how the number of positions with a property changes when a
  queue is appended to or its head is taken; `EmitCounts`, `RelayCounts`,
  `ChangeValuesCounts` and `RatifyCounts` carry this over to the operators of the
  model, and one lemma per action combines them.
* `ValueCacheProofs`, values: `PagesConsistent`, `CachesConsistent`, `OwnChangesKept` and
  `SavedIsOnDisk`. That two copies agree when nothing is under way says nothing about the
  steps before, so `PagesInv` describes the queues: for each page and key, the last message
  to the page carries the value of the cache, the last change the page has sent carries the
  value of the page, and once the cache has taken all of them the last echo to the page
  carries the page's value. The last point is what a page relies on when it leaves its value
  alone while its echoes return. `ProcsInv` says the same of a process and the core, and
  that a key without a value in the core is in no signal, which is needed where a process
  joins: the answer of `synchronizeLocalSettings` overtakes the signals of the core.
  `OwnChangesKept` is an action property; it uses only that `PendingInv` holds before the step.
  `SavedIsOnDisk` assumes `SameStamp = FALSE` and `DiskFails = FALSE`: then no request asks for
  saving an unchanged value (`SavedInv`). Section 5 shows that it is false without either.
* `SharedStateProofs`: `LinkIsSound`, `ViewsTrackTheJournal`, `LinkImplementsSharedList`, for any
  number of processes, each of which may observe and post.
  `ConnectionInv` relates the state of a connection to the number of openings,
  requests and replies under way. The heart of `SharedInv` is what an observer will show, not
  what it shows: while its last call under way is a request for its filter, sent after
  that filter was announced, nothing is demanded of its list; from the moment the core has
  handled it, the messages on their way back, handled in order (`Outcome`) from the last reply that has
  arrived or the present list (`Base`), lead to the journal's list of the elements that are
  followed. An event between the subscription and the request is delivered before the reply,
  which replaces it. Of an own event that is still on its way to the core, `OwnEvents` says that it is marked `own` or
  that a request follows it, whose snapshot will have it. In the refinement each action maps to an
  action of `SharedList` or to a stutter; a request sent detaches the observer, the last replacement
  attaches it.
* `SimConnectTrafficProofs`: `TrafficIsSound`, and from it `OneObjectAtATime`,
  `RenderedAircraftAreShown`, `NoObjectIsLeftBehind`, `NoAircraftIsLost`, for any number of
  aircraft, models, calls and failures. `ObjectInv` says for each callsign that a request
  under way, an object in the simulator and the driver's entry are those of the same number and
  exclude each other, with `stranded` for what the driver has forgotten. `NotLost` is not
  inductive: a removal that was put off may find an aircraft that is only pending and take
  it from the list. `WayInv` adds that while such a removal is due, a timer adds the aircraft
  again afterwards.
* `WorkerProofs`: `WorkerInvariant`, and from it `FunctorsCalledOnce`, `DeletionSafe`,
  `WaitMeansEnd` and the action property `LateStartsDropped`. `FinishedInv` gives the number of calls of each functor
  as a function of the state: one if the worker's thread has left `setFinished()` and the functor
  is connected, except while the owner is inside `then()` with it. `LifeInv` ties
  `lives`, `deletion`, `reaper` and `timer` to the progress of the thread.
* `ConnectionProofs`, FSD: `FsdTypesHold`, `PendingWatched`, `DisconnectedQuiet`, `MessagesStay`,
  `ConnectedOpen`. The checks of earlier connections are harmless and the own one is always
  there because the inductive invariant ties the age of the login to the timers: a pending
  connection of age `age` has a check that is due in `CheckAfter - age`. It needs
  `Timeout <= CheckAfter`, the reason for the factor 1.25 in the code.
* `AirspaceProofs`: `AirspaceTypes`, `NoneForgotten`, `OfflineIsClean`, `SentIsKnown`, for any
  set of callsigns and any times in the code's order. `NoneForgotten` and `SentIsKnown` except the
  aircraft that was matched before it left the range, which the code does forget (section 5). `AirspaceInv` adds to the properties
  that undelivered disconnections, readiness and situations belong to aircraft that are in
  range or still to be cleared.
* `ConnectionProofs`, voice: `VoiceTypes`, `VoiceBeats`, `VoiceTries`. The operators on the state
  of the thread preserve `Good` and, where they end an attempt, provide `Work` for the next
  one; lemmas on the stack of nested calls carry this through their returns.
* `DataCacheProofs`: `DataCacheTypes`, which includes that only the process with the lock file is
  between reading the revision and the end of its task, then `ForwardButForRaces` (`BackOnlyInRaces`) and
  `RevisionForwardButForOlder` (`RevisionBackOnlyByOlder`). Neither assumes anything of who writes, what is
  set twice or who waits for a serializer: they say in which step, and after which race, a value in
  memory or a timestamp in the revision goes back, and that it does so in no other way. All timestamps are
  bounded by the clock (`StampInv`), and `JobInv` says of a task under way that what it has found on file is
  newer than its snapshot; so what is loaded can only be older than a value set since the snapshot.
  These two properties belong to no run: where they say something, the values of `data_distributed` are
  no longer distributed. TLC finds no error with two processes that know and write different keys,
  `Overtake` and `Repeat` (2.1 million states).

Some facts need induction over the positions of a list: what `Matching` selects
when an entry is appended or the head is taken, or what `Outcome` makes of a queue of
events. `QueueLemmas` states induction for a *set* of numbers or of sequences (`NatSetInduction`,
`SeqSetInduction`, from the least element of the complement), which the provers can
instantiate, unlike the library's theorems on predicates. `NoneIn` and `LastIn` (no entry of
a kind in a queue; if there is one, the last of them is in a given set) have one lemma for each
way in which a queue changes, and all of `PagesInv`, `ProcsInv` and `SavedInv` is stated with them.

`PagesInv`, `ProcsInv`, `SharedInv` and `TrafficInv` also hold as invariants of TLC on
the configurations of the runs of their modules.

Only model-checked: the liveness properties, since TLAPS handles neither fairness nor `ENABLED`;
`ShownOnce`, which needs that an element is under way once in all; and `StampsTellValues`, which holds for
one writer that waits for its serializer, as in `data_distributed`, and not in general (section 5).

## 5. Deviations and what is not modelled

### Deviations without a run

Each can be seen with the change of a configuration or property that is given; without
one, it is visible in the model as an exception of a property.

* `ValueCache_settings.cfg` with `SameStamp = TRUE`: `SavedOnDisk` fails. A request to
  save an unchanged value that meets a newer value of another page marks the newer
  one as saved and writes the older one (`valuecache.cpp:271` and `288`). With
  `DiskFails = TRUE` it fails since a failed write is only logged (`settingscache.cpp:86`).
* `Worker_life.cfg` with the invariant `finished => ~enabled`: a `startUpdating()`
  shifted before `quit()` enables the worker again (`worker.cpp:255`). With `finished => ~timer`: called by
  the owner once the worker is back in its thread, `startUpdating()` does not ask whether it has finished
  and starts its timer (`worker.cpp:247-256`). `LateStartDropped` says that no shifted call does so.
* `DataCache_distributed.cfg` with `Key = {k1, k2}`, `Deferred = {}`, `Knows <- KnowsSome`,
  `Writes <- WritesOwn`: `PinnedLoaded` (here and below, the expectations that are not promises of the
  code are in `MCDataCache`) fails. A process that does not use a pinned key writes a revision without
  the pin (`datacache.cpp:493`), and the value is not loaded at the next start, against `datacache.h:465`: "If
  true, then value will be synchronously loaded when CDataCache is constructed."
* The same file with two writers, `Writes <- WritesOwn`, `Key = {k1, k2}`, `Deferred = {}`: with
  `Value = {v1, v2, v3, v4}` and `MaxSets = 4`, `RevisionKeepsKeys` fails. A snapshot that was taken
  before another process saved puts the old timestamp of the other key back into the revision
  (`datacache.cpp:480`); the newer value is then loaded under the older timestamp, and a later load takes
  it for missing. With `Proc = {a, b, c}`, `Pinned = {}` and `MaxStops = 0`, `StampsTellValues` fails
  for the same reason: the third process has the old value with the timestamp that came back.
* The same file with two writers of one key, `Key = {k1}`, `Deferred = {}`, `Writes <- KnowsAll`:
  `EventuallyDistributed` fails. Of two values set at the same time the older may be saved last; the
  process with the newer one keeps it, and the file has the older.
* `DataCache_overtake.cfg` with `Proc = {a, b, c}`, `Key = {k1, k2}`, three values, `MaxSets = 3`,
  `Overtake = FALSE`: saving one key can hide a newer value of another from a third process,
  because the revision is overwritten with the timestamps of the snapshot (`datacache.cpp:480`;
  `datacache.h:220` promises "that remote changes to unrelated values are not lost").
* `DataCache_overtake.cfg` with `Overtake = FALSE`, `Repeat = TRUE` and `RevisionKeepsKeys`: a value written again
  with a new timestamp counts as missing and its key leaves the revision (`datacache.cpp:311`).
* The same file with `Key = {k1, k2}`, `MaxStops = 1`, `MaxLoads = 1` and `MemoryForward`: a load
  under way replaces a value that was set meanwhile (`datacache.cpp:328`).
* `SharedState_viewers.cfg` with `late[c]` left out of `EventuallyComplete` or of `Followed`: both
  `EventuallyComplete` and `ViewTracksJournal` fail. An element that arrives, or that the process posts itself
  (`datalinkdbus.cpp:88`), between the request and the replacement of the list is overwritten
  (`listobserver.cpp:35`) unless the snapshot has it, and stays missing until the next request.
* `FsdConnection`: `CanReconnect` fails after a failed rehost (`fsdclient.cpp:1676`): Disconnected with an
  open socket, so that `connectToServer()` returns at once and a disconnect is answered with
  "Already disconnected". Late results (`late`): a token that arrives for a closed connection
  sets Connected over a closed socket (1013), a rehost socket that connects after the user has
  disconnected replaces the socket (1661), a rehost that fails late ends a later connection.
  `QObject::disconnect(newSocket)` (1665) is the member function, so the lambdas of a rehost stay
  connected to the new socket.
* `Airspace_visits.cfg` with `strayed` left out of `NotForgotten` or `EventuallyKnown`: an aircraft that is matched,
  leaves the range (`airspacemonitor.cpp:1173`), is removed by the driver (`simulatorfsxcommon.cpp:1200`) and
  returns while its client sends no more data is never announced again: the mark of its first visit makes
  `verifyReceivedIcaoData` return (698).
* `Airspace`: `RemovalAnnounced` fails for aircraft that leave the range (`airspacemonitor.cpp:1173`). A
  re-initialization adds aircraft of pilots who have left or of a closed connection (`ghosts`, 1131).
* `SimConnectTraffic`: `crossed`: an aircraft added again with the same model while its removal is put off or
  under way, or whose model changes before its object is confirmed, is lost (`simulatorfsxcommon.cpp:1569`, 1580).
  `givenUp`: one that the simulator removes too often is neither shown nor disabled; the branch
  meant for it (1304) repeats the condition of the branch before and is never taken. `stranded`: outdated
  objects (1531), objects whose id is not known when they are removed, and those forgotten at
  the end of the connection stay in the simulator. A retry that fires for an aircraft added meanwhile
  makes it pending for good, and as the oldest entry it keeps the others waiting (1106, see `EventuallyAdded`).
* `VoiceConnection`: `ReLogin` fails: a renewal of the token that is not answered with success is not
  repeated. Retries that are pending at a disconnect are not cancelled and log in again
  (`EventuallyLoggedOff` bounds this).

### Not modelled

* Notification slots that set values again while a change is being delivered
  (`valuecache.cpp:794`), and `clearAllValues`.
* Of the data cache: times to live and `overrideTimestamp`, session values,
  `synchronize()` with its promises, the queue in front of a page, a missing or
  corrupt revision file, and a crash between revision and files.
* Workers that are used by more than one other thread, and a thread that ends so late that
  the reaping lambda gives up after five seconds.
* Shared state: scalar journals and observers, the link within one process, a core that
  restarts within the second between two looks of the watch.
* FSD client: the contents of messages, state per callsign. Airspace monitor: ATC stations,
  bookings, queries, flight plans, the analyzer.
* FSX/P3D driver: terrain probes, objects added as simulated objects, errors SimConnect returns at
  once, restricted rendering, highlighting, test mode, and an aircraft with an invalid position.
* Voice: encryption and sequence numbers, audio, transceivers. FSD sessions on servers outside of VATSIM, for which
  `connectAudioWithNetworkCredentials()` returns at once: they never reach the voice client.
* The contents of values, files and messages everywhere.
* The components marked `not_modelled` in `PROJECT.json`: parsing, tables of matching rules,
  numerical code, presentation, and interfaces of software outside the repository.

## 6. Plan

1. `DataCache`: a crash between `SaveRevision` and `SaveFiles`, regeneration of the
   revision, times to live and renewed timestamps, `synchronize()` and promises.
2. The composition of `FsdConnection`, `Airspace` and `SimConnectTraffic`, which today meet in
   nondeterministic calls: `Drop` stands for the end of a connection, `LeaveRange(c, told)` for what the
   airspace monitor announces or does not.
3. `SequenceWindow` (`CCryptoDtoChannel`) and `TokenBucket`: small modules with proofs.
