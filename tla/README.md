# Models of the indoor navigation app

TLA+ modules, model-checking instances and machine-checked proofs for the
Android client in this repository. The built program is what `settings.gradle`
lists: `IndoorNaviLib` (the library) and `IndoorNaviDemo` (the activities), with
`TouchImageView` vendored. All other top-level directories are separate apps,
prototypes, third-party libraries or IDE state.

Paths below are relative to `IndoorNaviLib/src/com/SmartParking` (LIB) and
`IndoorNaviDemo/src/com/SmartParking/Demo/Sampling` (DEMO).

## 1. Inventory

| Component | State | Operations | What makes it correct | Hard about it |
|---|---|---|---|---|
| Task, LIB `Task/Task.java` | action list, four flags, results, exceptions; serial executor, looper | Create, continueWith, Start, cancel, waitUntil, waitAll; doInBackground, onActionFinished, onPostExecute | actions in order, none lost; a settled task is quiet; the listener learns of the end | flags read and written by several threads without a lock; per-action calls read task-level state |
| BleFingerprintCollector, LIB `Sampling` | two switches, scanner, what was heard, listeners, scan thread | TurnOn, TurnOff, StartSampling, StopSampling, listeners; Bluetooth callback; scan loop | each advertisement given out once, no mixing of rounds, radio and threads end | a process-wide singleton; switches without a lock; threads that are not joined |
| Upload, DEMO `MainActivity.java` 513-541, 561-796 | FlushedToWeb per point, progress dialog, tasks in flight; the web service | click; five kinds of listener | what is marked as flushed is stored exactly; nothing fails silently | partial failure, lost answers, retries, nested callbacks, overlapping passes |
| REST actions, LIB `Task/RestAction`, `WebService/*` | one request each | GET, POST, DELETE, bulk DELETE | an error status or a timeout throws | timeouts after the request was served |
| Sampling rounds, DEMO `MainActivity.java` | collectedSample, timers, dialogs, InMemPositionDescriptors | touch, timer, load, batch listener | a sample holds what was heard in its round | overlapping rounds, late batches |
| Navigation, DEMO `NaviActivity.java` | sample buffer, candidates, board polling, orders, life cycle | lifecycle calls, batches, poll answers, order and revert | the best point is drawn; what is drawn is known; no dialog waits for nothing | lists shared by two threads, pause/resume, faults that end polling, answers out of order |
| Overall map, DEMO `OverallMapActivity.java` | boards, polling timer | load, poll | one polling loop | completion heard twice |
| Similarity, LIB `Util/Util.java`, DEMO `SimilarityComparator.java` | none | score, distinct and average, sort | scores within 0..100, the best one last | 0/0, boxed comparison |
| Map view, LIB `UI/MarkableTouchImageView.java` | circles and images drawn | draw, diff-draw | what is shown is what was asked | identity comparison, remove by boxed index |
| Entry, logon, data view, entities, tuples, adapter | preferences, lists, records | I/O and layout | - | a stale map of an earlier choice |
| Redpin (`RedpinAndroid`) | requests with retries, synchronisation, connectivity, WiFi scan | - | retries end, one synchronisation at a time | callbacks and delayed messages |
| Notification proxies, prototypes, vendored code | - | - | - | not part of the built program |

Interaction: every web request of an activity is a Task; its listener runs on
the UI thread. The collector calls the activities that registered with it from
its scan thread. Both library classes are used by several activities at once,
the collector through one static instance.

`PROJECT.json` lists every component with its sources, and under `hazards` each
behaviour that is hard to test, at its line, with the properties that cover it.
Where the code itself runs into a hazard and no document says that it should not,
the model has it, the properties leave it out, and a note at the hazard says so.

## 2. Modules

| Module | Models |
|---|---|
| `TaskPromise` | what a Task promises those who start it; `TaskChain` implements it |
| `TaskChain` | Task, and the executor and looper it uses |
| `BleCollector` | BleFingerprintCollector, the Bluetooth stack's callbacks, calls of the activities in any order |
| `ScanStream` | what BleFingerprintCollector promises its users; `BleCollector` implements it |
| `Sampling` | the life cycles of MainActivity and NaviActivity and the rounds of sampling; composes `ScanStream` by `INSTANCE` |
| `Similarity` | averaging, score and comparator, as functions |
| `Positioning` | from batches to the position drawn, two threads of NaviActivity; uses `Similarity` |
| `BoardPolling` | polling loops of NaviActivity and OverallMapActivity, drawing of boards, orders |
| `SampleUpload` | the upload of sampling points; composes `TaskChain` by `INSTANCE` |
| `MCTaskChain`, `MCBleCollector`, `MCSampling`, `MCPositioning`, `MCBoardPolling`, `MCSampleUpload` | instances for TLC |
| `TaskChainProofs` | theorems about tasks: they keep `TaskPromise`, and what listeners and waiters learn of them |
| `BleCollectorProofs`, `SamplingProofs`, `BoardPollingProofs` | theorems about those modules |
| `SimilarityProofs`, `PositioningProofs` | what the functions compute for every input; theorems about the search for the position |
| `SampleUploadProofs`, `UploadExactProofs` | theorems about the upload; about what it leaves in the service |

### TaskChain

`given` and `continuation` are the actions, numbered in the order given.
`queue` is the serial executor: a job is a task and an action, the one in front
runs. `at` is the place of the background thread between two accesses to shared
fields: execute, return or throw, set the flags (a fault sets two, in two
steps), store the result, post the message. `uiQueue` holds the onPostExecute
messages. A listener call reads one flag, then, later, another;
`CompletedFirst` says in which order, since the activities differ
(`OverallMapActivity.java:256-258` and `MainActivity.java:689-700`).
The two threads interleave between any of these steps. `heard` and `begun` are
history variables. Waiters are threads inside waitUntil or waitAll, one of which
may be the background thread itself.

Left out: what an action computes (it returns or throws), state objects (one
action per state object, none of them null), interruption of a waiting thread
(nothing interrupts). No caller starts a task twice or extends one it started,
so `Start` and `ContinueWith` require a task that was not started. The memory
model is that of sequential steps: a field read sees the last write.

`Promise == INSTANCE TaskPromise` is the refinement mapping: `Outcome` is what
the flags tell once isCompleted is set, `Executing` the task in front of the
executor from the beginning of its action until the flags tell how it went on,
`begun` becomes a number and `asked` is `isCancelling`. `ImplementsPromise` is
`Promise!Spec`.

### TaskPromise

The task without executor, looper, listeners, waits and flags: of all tasks one
action executes at a time, the actions of a task begin one after another, and
the last one ends the task, once, with one of three outcomes. A success needs
all actions begun, and neither success nor another action (`GoesOn`) comes after
`Cancel` was called while an action executes. A fault may win against a cancel
that comes at the same time: which branch of onActionFinished is taken is decided
before its flags are set (`Task.java:226-243`).

### BleCollector

The two switches, the scanner as the stack sees it (`scanning`), what was heard
and not taken (`fingerprints`), the listener list, and per scan thread its place
in the loop with the batch it holds and its iterator over the listeners.
`lollipop` is chosen at the start: from Android 5 on each window opens the
scanner, before it is opened once by TurnOn. TurnOff and StartSampling are
split where a scan thread can come between. Bluetooth being disabled, an
adapter that is missing, StartSampling before TurnOn, and a list changed under
an iterator are modelled; the last three end the process. So does a scanner that
is asked to start or stop when Bluetooth was switched off (`ScannerThrows`), from
Android 5 on. Both behaviours of
`ArrayList`'s iterator in Android's versions are admitted.

An advertisement is a number; `heardIn` is the round in which it was heard.
Parsing and the UUID filter are abstracted to "an advertisement that matched".
A window's pieces of sleep are one step that ends the window at any time.

What the model shows of the code besides its properties: from Android 5 on each
window opens a scanner that is open already, since the inner loop never shuts it
(`BleFingerprintCollector.java:305-309` and `:347`).

`Seen` is the refinement mapping: of a scan thread's place those who listen see
only whether it has ended, runs, or hands out a batch. `Stream == INSTANCE
ScanStream WITH stream <- [th \in Threads |-> Seen(scan[th])]`, and
`ImplementsScanStream` is `Stream!Spec`.

### ScanStream

The collector without scanner, windows and loops: a thread that runs may take
what was heard at any time (`Take`), hands it out (`Fires`), and may end when
the collector is off. The calls of the UI thread are those of `BleCollector`,
each with the exception that it may throw, as a thread's window may (`Breaks`).

### Sampling

`Collector == INSTANCE ScanStream WITH Listeners <- Activities`. An activity's
callback is the sequence of calls (`OnCreate`, `OnRestart`, `OnPause`, `OnStop`,
`OnDestroy`) that it makes; `todo` holds those that are left, and scan threads
run between them. `stack` is Android's; `Hide` and `Destroy` come at any time after
an activity was left, as Android allows itself. `Rotate` replaces
the instance on top. A round is `Touch`, its timer (`RoundEnds`) and `Average`;
`collected` and `averaged` are the advertisements in collectedSample and in the
points made of it. `stuck` is a dialog that a second touch replaced: nothing
closes it any more. `napped` marks a NaviActivity that was paused and resumed
without onStop: its onResume does not start sampling again. `late`, `refused`,
`twoThreads` and `cause` record what the properties exclude.

What the model shows of the code besides its properties: the onStop of an
earlier NaviActivity that comes late (`NaviActivity.java:636-638`) stops
sampling under the next; a timer of a destroyed MainActivity does so too;
onStop throws when onCreate returned before the wake lock was made (`:636`). A
question asked after the activity was destroyed throws (`AverageThrows`), and so do
the calls into a collector whose Bluetooth was switched off (`TurnOffThrows`,
`ScannerThrows`).

Left out: RSSI values, the names of points, the questions that are asked while
a point is made, but for the exception (the answer "No", `MainActivity.java:448`,
has no effect).

### Similarity and Positioning

`Similarity` has DistinctAndAvgFingerprint, CaculateSimilarity and the
comparator with exact fractions for floating point; 0/0 is NaN and Java's
`Double` comparison of NaN is kept: less than nothing, so `compare` answers -1
or 1 and the sort follows it. `Sort` is the binary insertion that Java uses for
lists shorter than 32.

`Positioning` runs the scan thread and the UI thread over
rawFingerprints, loadedBuildInSampleData and allCandidatesWithText at the grain
of single list operations: an iterator fails when its list was changed
(`ComparesThrows`), the UI thread reads the last candidate twice and may find
the list emptied (`ReadThrows`). `foundBest` is the set of points that no other
outscored; `raced` tells that the list was refilled before it was drawn.

### BoardPolling

OverallMapActivity has any number of loops, counted by `mapRequests` and
`mapTimers`, since both calls for a chain of two actions may find it completed
and start a timer each. NaviActivity has one, `poll`, with the answer it got.
`boards` is the service. `drawImages` are the icons in the map view:
drawMultipleCirclesAndImages replaces all by those that were added or changed,
and drawImagesWithRemove removes none. Orders are POST, and GET then DELETE;
each answer closes whatever progress dialog there is. A request that fails may
have been carried out.

What the model shows besides its properties: a board that did not change
disappears from the map when another one changes; a loop is never started again
after a pause and ends with the first fault; cancelling deletes the first order
found, whoever made it; a report to an activity that was destroyed, of an answer or
of a map that could not be loaded, throws; the answer to a deletion may close the
dialog of the next order.

### SampleUpload

`Chain == INSTANCE TaskChain` with one task for each request or chain of a
pass ("run"): find, create, erase, describe. Each action of the module is a step
of `Chain` together with what the listener or the request does besides, so the
interleaving of the upload with the executor and the looper is the one of
`TaskChain`. `next` is what the handler of the current message has still to do
before the UI thread takes another one. `server` is the web service, which is
not in the repository: GET, POST and DELETE have their usual meaning, and a
request that fails may have been served, a bulk deletion up to any of its parts.

Left out: points are fixed during a check (no sampling or loading meanwhile).
The guard for points without fingerprints (567-577) is never true: a point gets
into the list with at least one fingerprint or already flushed. Hence
`Devices[p] >= 1`. `cancel` is not called by this code. No two points have the same
whole coordinates: the service is asked for them (`MainActivity.java:582-583`), and
of two such points one would find the other's sample.

## 3. Runs

Safety and liveness that hold:

- `task_chain` (two tasks, up to three actions each, no waiters): order
  (`ChainInOrder`), no loss (`NoActionLost`), silence after the end
  (`SettledTaskIsQuiet`), the results of an action and of all before it present when
  the listener is called for it, though they are stored after the flags
  (`ListenerFindsResult`), the end is heard
  (`CompletionIsHeard`, `StartedTaskSettles`), all of it implements the abstract
  task, whose outcome is final (`ImplementsPromise`), and a listener that reads isCompleted first does not take
  a fault for a success (`FaultNotHeardAsSuccess`).
- `task_wait` (one action each; a thread and the background thread wait): every
  wait returns, and one inside an action that had to sleep only times out.
- `ble_collector` (two scan threads, one listener, two advertisements, two
  rounds): each advertisement in one batch (`AdvertTakenOnce`), batches of one
  round (`BatchOfOneRound`), one late batch at most (`OneLateBatch`); all of it
  implements the abstract stream (`ImplementsScanStream`).
- `ble_liveness` (the same with one advertisement, under fairness): the scanner
  is shut and the threads end when they should (`StoppedSamplingShutsScan`,
  `ThreadsEnd`); sampling keeps firing (`SamplingKeepsFiring`).
- `sampling` (two MainActivities, two NaviActivities, two scan threads, one
  advertisement, three rounds, three moves of the user): an advertisement counts
  in one sampling point, and in points of two instances only if one was
  destroyed (`AdvertInOnePoint`); a collector that is on has a thread, unless
  Bluetooth was off (`StartedHasThread`); starting throws only after a late
  onDestroy (`ThrowsOnlyAfterLateDestroy`); a NaviActivity that stays shown is
  given batches again and again (`ShownNaviIsGiven`, with the exceptions it
  names).
- `positioning` (four sampling points, two of them alike and one of which gives NaN,
  four scans, nine batches): what was buffered waits for no fifth batch
  (`NothingWaitsLonger`); what a similarity of 100 stands for and when it is not a
  number (`SimilarityIsFair`); the point drawn is one that none outscores, though
  the sort never finds two equal (`HighestIsDrawn`).
- `board_polling` (two boards that change twice, two orders, two loops, three
  moves): `DrawnIsKnown`, `NoStuckProgress`; as long as the loop goes on every
  change is found out (`KeptUpToDate`), and a hidden activity stops asking
  (`PollingCeases`).
- `sample_upload` (points with two and one fingerprints, three passes, two
  contents of the service): `FlushedIsExact`, `NoDuplicateSample`,
  `FlushedInOrder`, `FlushedByWholeChain`, `NoSilentLoss`, `ProgressGoesAway`.

Statements of the repository that do not hold (each run checks one and ends in
a counterexample; details under `findings`):

- `task_wait_doc`: a wait that returns true does not mean success.
- `task_cancel_doc`: an action handed over before cancel still begins.
- `ble_thread_doc`: TurnOff then TurnOn runs two scan threads.
- `upload_doc`: a point is marked as uploaded although one of its descriptors
  failed, because the listener reads isFaulted before isCompleted while the
  chain goes on.

Known conditions in the properties, each a fact of the code: `FlushedIsExact` and
`NoDuplicateSample` exclude passes that overlapped (the dialog is dismissed by the
first call, `MainActivity.java:765`), the former also calls that misheard a fault
(`:689`);
`ProgressGoesAway` and `NoSilentLoss` exclude a GET that finds two samples
(`:712`, no branch). The properties of the collector that say something
eventually happens hold while the process lives. `StartedHasThread` and
`ShownNaviIsGiven` exclude a TurnOn that found Bluetooth off. `HighestIsDrawn`
excludes a list that was refilled before it was drawn, and
batches with a NaN: a point heard at -25 that is compared with a scan at -50
ignores its only device, the score is 0/0, and the sort then leaves a lower
point last although "only draw the highest similarity point"
(`NaviActivity.java:797`) is the intention.

### Bounds

| Bound | Value | Why it is enough |
|---|---|---|
| `Tasks`, `MaxActions` | 2, 3 (1 with waiters, 2 for cancel) | two tasks share the executor; first, middle and last action differ |
| `Waiters` | a thread and the background thread | a wait inside an action, and beside one |
| one wait per waiter | - | a second wait starts from a state a first one can start from |
| `Threads` | 2 | one thread that was left over and one that TurnOn created |
| `MaxAds`, `MaxRounds` | 2, 2 | two advertisements in the same or in different rounds, one before and one after a restart |
| `MaxAds` of `ble_liveness` | 1 | windows that end with and without something heard; the loops do not depend on how much |
| symmetry of `Threads` in `ble_collector` | - | no definition distinguishes a thread; not used with liveness |
| `late` | counts to 2 | the property is about the second one |
| `Mains`, `Navis`, `MaxMoves` of `Sampling` | 2, 2, 3 | an instance, the one that replaces it or is opened over it, and a move back; three moves make every callback come late for another instance |
| `MaxAds`, `MaxRounds` of `Sampling` | 1, 3 | the same advertisement in two points is the question; a second touch, and a NaviActivity after it |
| `Scans`, `MaxBatches` | 4 scans, 9 | two full buffers of four and one batch more; nothing heard, a point met exactly, nearly and not at all |
| `Boards`, `MaxChanges` | 2, 2 | a board that changes beside one that does not; put up and taken away again |
| `MaxOrders`, `MaxLoops`, `MaxMoves` of `BoardPolling` | 2, 2, 3 | an answer that comes during the next order; the doubled loop; leave, return and leave |
| `Devices` | <<2, 1>> | a chain with a continuation, a single action, and an order of points |
| `MaxRuns` | 3 | a failed pass, a retry, the next point, or two overlapping passes and one more |
| `Before` | nothing; or one sample with a descriptor for the first point and two samples for the second | the three branches of the answer to the GET |

Deadlock is not checked: a program whose tasks have all ended and whose user
does nothing more really stops, and so does a dead process.

### Fairness

`TaskChain`: the looper and the executor's thread never stop, an action returns
or throws (every connection has timeouts, `RestClient.java:169-170`), a sleep
ends: weak fairness of the UI thread's message steps, of the background thread
and of each polling wait. Building, starting and cancelling are the user's and
get none. `BleCollector`: weak fairness of each scan thread and of a UI call
that has begun; no call has to be made and nothing has to be heard.
`SampleUpload`: weak fairness of the UI thread and of the background thread;
none for the click. `Sampling`: a callback returns, timers fire, a dialog gets
the focus, and threads do what `ScanStream` promises. `BoardPolling`: requests
are answered or fail, callbacks run, timers fire. None for the user, for
changes of the boards and for the Bluetooth stack.

## 4. Proofs

`TaskChainProofs`, for any set of tasks, any waiters and any number of actions,
from `TaskChainAssumption` (MaxActions is a positive number, CompletedFirst a
Boolean):

- `TypeCorrect`: Spec => []TypeOK.
- `Inductive` (lemma): Spec => []IInv, with IInv == TypeOK /\ Safety /\ ClaimInv.
- `OrderCorrect` (ChainInOrder), `NothingLost` (NoActionLost) and `SettledQuiet`
  (SettledTaskIsQuiet) follow from it.
- `KeepsPromise` (ImplementsPromise): each step maps to one of `TaskPromise` or
  to a stutter. Besides `IInv` it needs `FlagsInv`: a task that has not ended has
  neither flag set, but for the moment between the two that a fault sets.

Why the strengthening: none of the invariants is inductive. That actions begin
in order rests on how the remaining list relates to what was handed over
(`ContinuationInv`); that results are complete when an action begins, on the
executor being serial and on there being at most one job of a task that is not
past its flags (`QueueInv`), with begun and results counting the same actions
(`HistoryInv`); that nothing is lost, on the flags following from how the last
action ended (`OutcomeInv`). `ClaimInv` says that a task which waitAll is about
to start has not been started, so that it is started once. The proof of a step
has one lemma per action that disturbs these parts, and frame lemmas for the
others.

Its second half builds on that invariant; these theorems hold with any mixture of
waiters:

- `ResultAlwaysFound` (ListenerFindsResult): a message in the looper is posted
  after its result was stored (`ResultsHeld`), results only grow, and actions come
  in order, so that those of all earlier ones are there too.
- `CompletionHeard` (CompletionIsHeard): inductive with `EarlyReadInv`: a call
  that read isCompleted before the flag was set is not the last of its task,
  since the background thread has still to post (`MoreToCome`).
- `FaultIsHeard`: Spec => [](CompletedFirst => FaultNotHeardAsSuccess). The
  order of the reads is a constant of the model and the hypothesis of the
  theorem; for the other order the run `upload_doc` has a counterexample.
- `WaitInsideAction` (WaitInsideActionTimesOut): while the background thread
  waits it is in execute, so no flag changes but by cancel, which does not
  complete a task (`WorkerWaitInv`).

`BleCollectorProofs`, for any threads, listeners and numbers of advertisements
and rounds, from `BleCollectorAssumption` (the bounds are natural numbers):
`TypeCorrect`, `TakenOnce` (AdvertTakenOnce), `OneRound` (BatchOfOneRound),
`LateOnce` (OneLateBatch), and `Implements`: Spec => ImplementsScanStream. The
inductive invariant adds to these that what waits was heard in the round that
runs (`OfThisRound`), that batches hold what was heard (`BatchHeard`), that a
thread which fired after the stop is not in a window again (`LateInv`), and that
a thread which has ended holds nothing (`EndedIsNoThread`; without it a new
thread would not look new in the stream). `StepShape` says once what a step can
make of a thread; each part is proved from it instead of from each action.

`BoardPollingProofs`, for any boards and bounds, from `BoardPollingAssumption`:
`TypeCorrect`, `DrawnIsAlwaysKnown` (DrawnIsKnown), `ProgressNeverStuck`
(NoStuckProgress). The last two are inductive together with the types, which
need more than `TypeOK`: loops and timers are bounded as a sum, and a dialog is
open only when an order is left.

`SamplingProofs`, for any activities, scan threads and bounds, from
`SamplingAssumption` (MainActivities and NaviActivities are different, bounds are
natural numbers):

- `UsesStream`: Spec => Collector!Spec, and `StartedAlwaysHasThread`
  (StartedHasThread). The first rests on every call that is left being one of an
  activity (`TodoInv`: those on the stack are activities, and the stack is not
  empty while the user is away). Together with `Implements`, whose right-hand
  side is the same specification, it ties the activities to the collector's
  code: each callback step is a step of the stream, and each step of the
  collector one of the stream.
- `ThrowsOnlyIfLate` (ThrowsOnlyAfterLateDestroy). The invariant, `OnInv`, is
  about the calls that are left: as long as no onDestroy came late, an activity
  that lives implies a collector that is on or a turnOn to come, and each start
  to come has a turnOn before it or a collector that stays on (`PowerInv`). That
  onDestroy's turnOff comes first in its callback (`OffFirst`), and that a
  MainActivity is only at the bottom of the stack (`StackInv`), is why no other
  callback runs between.
- `TypeCorrect`. The types need the same facts of the stack, and that a timer
  belongs to a round: `timers` exceeds `round` by one at most, while the call
  that counts the round is still to be made (`RoundInv`).
- `OnePointOnly` (AdvertInOnePoint). Its invariant, `OnePointInv`, follows an
  advertisement from the radio to the point: what waits, the batches of the
  threads and what was heard so far are apart (`BatchesApart`); what a thread
  has still to hand to an activity is new to it (`GivenOnce`, with `ToGive`, by
  the thread's place in the list of listeners); and what one activity made
  points of is apart from what any other on the stack has, and from what is
  still to be given to it (`PointsInv`). The last
  needs to know who can make a point at all: a timer keeps its dialog, so its
  activity stays on the stack or is destroyed (`TimerInv`), a call or listener
  is of an activity that was created (`CallsKnown`, `ListenersKnown`), an
  activity not yet created has nothing (`NewHasNothing`), and only one
  MainActivity is on the stack.

`SimilarityProofs`, for every input:

- `SimilarityBounds`: a similarity that is a number is within 0..100, it is 100 for
  what is just as it was sampled, and it is 100 only if no device is missing and
  one is exact. The sum of the offsets is at most the number of devices it is
  over, and 0 just when each of them is exact (`OffsetsBounds`); that fractions are
  reduced changes none of these comparisons (`ReducedBounds`), since Euclid's
  algorithm returns a positive common divisor (`GcdDivides`).
- `WhenNotANumber`: a similarity is 0/0 just when the point has no device or all of
  its devices that were heard are ignored, each at least its whole RSSI off
  (`CountedNear`).
- `SortOrders`: the sort keeps all elements and their number, and leaves them in
  order if all similarities are numbers. The comparator is an order of the numbers
  (`LessOrder`), the binary search finds the place (`PlaceFacts`), an insertion
  there keeps the order (`InsertKeeps`), and the run at the start is in order
  whether it ascends or is reversed (`StartIs`).

These are about recursive functions and folds. A library theorem on induction
takes an operator, which the provers do not instantiate; `Induction` states it of a
set of natural numbers instead and follows from `WFMin` and
`NatLessThanWellFounded`. A recursive function is `CHOOSE f : f = [...]`; so of each
one it is proved that there is such a function (`DividingExists`, `PlacingExists`,
`InsertingExists`, `FoldingExists`), and from then on only its equation is used.

`PositioningProofs`, for any sampling points and scans, from
`PositioningAssumption` (points and batches are sequences, a point has finitely
many devices, an RSSI is a whole number):

- `NothingEverWaitsLonger` (NothingWaitsLonger), inductive once it is known that
  marking an iterator leaves the scan thread where it is.
- `TypeCorrect`. Its invariant, `Typed`, also says that the scan thread has one
  candidate for each point it has passed (so that the last of the sorted list
  exists), that the points are loaded once, which is why they are not emptied
  under a comparison, and that positions to be drawn and a scan that goes on are
  no more than the batches given (`BatchesCounted`).
- `TheHighestIsDrawn` (HighestIsDrawn), from `Typed` and `Drawn`: unless the list
  was refilled too early nothing waits to be drawn while it is filled, its last
  element is one of the best (`HighestComesLast`, from `SortOrders`), and the X that
  was read belongs to it.
- `SimilaritiesAreFair` (SimilarityIsFair), from `Typed` and `Scores`: a scan starts
  with something that was heard, and each candidate's score is the similarity to
  its average, before the sort and after it; the rest is `SimilarityBounds` and
  `WhenNotANumber`.

`SampleUploadProofs` proves `UploadUsesTasks`: Spec => Chain!Spec, for any
points, bounds and contents of the service. It rests on `CallerInv`: the runs are
a sequence and the pending work of the UI thread names a run. So what is proved
of `TaskChain` holds of the upload's tasks: `Thm == INSTANCE TaskChainProofs`
with the substitution of `Chain` brings in its theorems, and the invariant of the
tasks, `Thm!IInv`, becomes a part of the one of the upload (`TypedInv`). From it:

- `TypeCorrect`.
- `FlushedOrder` (FlushedInOrder): a run is for the first point that is not
  marked when it begins, and marks are not taken back.
- `MarkedByWholeChain` (FlushedByWholeChain): a call marks a point only if it
  read isCompleted, so the chain has completed; it has not faulted, or the call
  misheard; its outcome stays (`OutcomeStep` of `TaskChainProofs`); and a task
  that completed without a fault has begun all its actions, one of each device
  (`StartedWhole`).
- `NothingSilentlyLost` (NoSilentLoss): a run goes on, has shown a failure, or
  found two samples. That a run whose tasks have all ended was told so is
  `CompletionIsHeard` of the tasks.

`UploadExactProofs`, from the same assumption: `SamplesAreNotDoubled`
(NoDuplicateSample) and `FlushedExactly` (FlushedIsExact). As long as runs do not
overlap the last run is the only one in progress, and its stage says what is in
the service: `StageInv` is "before its chain", where one request is asked
(`Asking`), answered (`Answered`) or to be decided on (`Deciding`), or "in its
chain", where the descriptors stored are those of the actions that have returned
(`InChain`, as long as none failed). A request that failed may have been served,
so each stage is about what was there before it and what is there after it
succeeded (`Pending`, `Done`): after a failure nothing more is asked in that run
and the next run begins with a GET. The chain's samples then stay as they are,
since a marked point is not uploaded again.

Only model-checked:

- Liveness under fairness, which is beyond this prover: `StartedTaskSettles`,
  `EveryWaitReturns`, `StoppedSamplingShutsScan`, `ThreadsEnd`,
  `SamplingKeepsFiring`, `ShownNaviIsGiven`, `KeptUpToDate`, `PollingCeases`,
  `ProgressGoesAway`.
- The runs against the statements of the repository that do not hold: a
  counterexample on a small instance is the result.

Every safety invariant and every action property that a passing run checks is
also a theorem.

The leaves of the proofs are kept small: all modules also check with a third of
the time that the prover allows by default.

## 5. Not modelled, and the plan

Not modelled, of what is built:

- `MainActivity`: the test button (1120-1197), which runs rounds of its own;
  loading of points (974-1105), which replaces the list; the menu of a point;
  its own polling of boards, which repeats NaviActivity's.
- `NaviActivity`: advertising the own position (268-333), which nothing calls;
  the requests that load sampling points, but for what they do to the list.
- `OverallMapActivity`: markers, location service, address search: what they
  show depends on other services.
- `EntryActivity`: nothing starts it. `LogOnActivity`, `Helper`,
  `ViewSamplingDataActivity`, the list adapter: I/O and layout.
- `Lookup`: the algorithms have no caller. Byte and image conversions of `Util`.
- In `Util.java:196` the average is written into an object that other listeners
  hold too; the models keep one caller's values apart.

Not modelled, of what is not built: Redpin (`RedpinAndroid`), notification
proxies, prototype apps, vendored libraries. The only C sources of the
repository are third-party headers (`Apache2.2/include`) and generated
makefiles; no Java source refers to them.

Left of the plan: loading of points in `MainActivity` beside rounds and upload.
