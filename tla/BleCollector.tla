---------------------------- MODULE BleCollector ----------------------------
(***************************************************************************)
(* com.SmartParking.Sampling.BleFingerprintCollector: the process-wide     *)
(* collector of Bluetooth LE advertisements.                               *)
(*                                                                         *)
(* The UI thread turns it on and off, starts and stops sampling and adds   *)
(* and removes listeners.  TurnOn creates a scan thread, which opens the   *)
(* scanner, waits for one window, takes what was heard and hands it to the *)
(* listeners, as long as shouldStartSampling is set.  The Bluetooth stack  *)
(* calls back with one advertisement at a time.  Only fingerprints is      *)
(* protected by a lock: isStarted, shouldStartSampling and the ArrayList   *)
(* of listeners are shared without one.                                    *)
(*                                                                         *)
(* Advertisements are numbered as they are heard; a round is what happens  *)
(* between two calls of StartSampling.                                     *)
(***************************************************************************)
EXTENDS Naturals, Sequences, SequencesExt, FiniteSets

CONSTANTS Threads,    \* bound: scan threads running at the same time
          Listeners,  \* activities that listen
          MaxAds,     \* bound: advertisements heard
          MaxRounds   \* bound: calls of StartSampling

ASSUME BleCollectorAssumption == MaxAds \in Nat /\ MaxRounds \in Nat

VARIABLES
  process,              \* "dead" after an exception nobody catches
  lollipop,             \* Android 5 or later: the scanner is opened and shut
  adapter,              \* mBluetoothAdapter is set
  isStarted, shouldStartSampling,
  scanning,             \* the scanner reports advertisements
  fingerprints,         \* advertisements heard and not taken yet
  listeners,            \* the ArrayList, in the order of registration
  scan,                 \* the scan threads
  uiAt,                 \* where the UI thread is in StartSampling or TurnOff
  round, heardIn,       \* history: rounds, and the round of every advertisement
  late                  \* history: batches fired by a thread after the stop

switches == <<isStarted, shouldStartSampling>>
radio == <<scanning, fingerprints, heardIn>>
history == <<round, late>>
device == <<process, lollipop, adapter>>
vars == <<device, switches, radio, listeners, scan, uiAt, history>>

Ads == 1..MaxAds
ThreadPlaces == {"none", "outer", "inner", "open", "window", "copy", "fire",
                 "close"}

\* The iterator of the loop over listeners: the next position, the size when
\* it was made, and whether the list was changed since.
ScanThreads == [at : ThreadPlaces, early : BOOLEAN, batch : SUBSET Ads,
                next : Nat \ {0}, size : Nat, changed : BOOLEAN]
NoThread == [at |-> "none", early |-> FALSE, batch |-> {},
             next |-> 1, size |-> 0, changed |-> FALSE]

Running(th) == scan[th].at # "none"
-----------------------------------------------------------------------------
Init ==
  /\ process = "alive" /\ lollipop \in BOOLEAN /\ adapter = FALSE
  /\ isStarted = FALSE /\ shouldStartSampling = FALSE
  /\ scanning = FALSE /\ fingerprints = {} /\ heardIn = <<>>
  /\ listeners = <<>>
  /\ scan = [th \in Threads |-> NoThread]
  /\ uiAt = "idle"
  /\ round = 0
  /\ late = [th \in Threads |-> 0]
-----------------------------------------------------------------------------
(* The UI thread.                                                          *)

\* Every structural change of the list invalidates the iterators in use.
ChangeListeners(ls) ==
  /\ listeners' = ls
  /\ scan' = [th \in Threads |-> IF scan[th].at = "fire"
                                 THEN [scan[th] EXCEPT !.changed = TRUE]
                                 ELSE scan[th]]

\* No activity adds itself a second time before it removed itself.
AddListener(l) ==
  /\ uiAt = "idle" /\ ~Contains(listeners, l)
  /\ ChangeListeners(Append(listeners, l))
  /\ UNCHANGED <<device, switches, radio, uiAt, history>>

\* A list holds a listener once at most.
RemoveListener(l) ==
  /\ uiAt = "idle"
  /\ \E i \in DOMAIN listeners :
       listeners[i] = l /\ ChangeListeners(RemoveAt(listeners, i))
  /\ UNCHANGED <<device, switches, radio, uiAt, history>>

TurnOn(th) ==
  /\ uiAt = "idle" /\ ~isStarted /\ ~Running(th)
  /\ isStarted' = TRUE /\ adapter' = TRUE
  /\ fingerprints' = {}
  /\ scanning' = (scanning \/ ~lollipop)
  /\ scan' = [scan EXCEPT ![th] = [NoThread EXCEPT !.at = "outer"]]
  /\ UNCHANGED <<process, lollipop, shouldStartSampling, heardIn, listeners,
                 uiAt, history>>

\* Bluetooth is disabled: TurnOn returns false after IsStarted was set.
TurnOnFails ==
  /\ uiAt = "idle" /\ ~isStarted
  /\ isStarted' = TRUE
  /\ UNCHANGED <<device, shouldStartSampling, radio, listeners, scan, uiAt,
                 history>>

\* An exception that nobody catches ends the process.
Dies ==
  /\ process' = "dead"
  /\ UNCHANGED <<lollipop, adapter, switches, radio, listeners, scan, uiAt,
                 history>>

\* The device has no Bluetooth: TurnOn is called without an adapter.
TurnOnThrows == uiAt = "idle" /\ ~isStarted /\ Dies

\* turnOffNote2 does not look whether there is an adapter; stopScan does not
\* expect Bluetooth to be switched off.
TurnOffThrows == uiAt = "idle" /\ (lollipop <=> adapter) /\ Dies

TurnOff ==
  /\ uiAt = "idle" /\ (lollipop \/ adapter)
  /\ scanning' = FALSE
  /\ uiAt' = "clearing"
  /\ UNCHANGED <<device, switches, fingerprints, heardIn, listeners, scan,
                 history>>

TurnOffClears ==
  /\ uiAt = "clearing"
  /\ ChangeListeners(<<>>)
  /\ uiAt' = "stopping"
  /\ UNCHANGED <<device, switches, radio, history>>

TurnOffEnds ==
  /\ uiAt = "stopping"
  /\ isStarted' = FALSE
  /\ uiAt' = "idle"
  /\ UNCHANGED <<device, shouldStartSampling, radio, listeners, scan, history>>

\* Mutant: what was heard before the round is kept.
StartSamplingKeeps ==
  /\ uiAt = "idle" /\ isStarted
  /\ round < MaxRounds
  /\ round' = round + 1
  /\ uiAt' = "sampling"
  /\ UNCHANGED <<device, switches, radio, listeners, scan, late>>

\* The collector is not turned on, which the callers do not expect.
StartSamplingThrows == uiAt = "idle" /\ ~isStarted /\ Dies

StartSampling ==
  /\ uiAt = "idle" /\ isStarted
  /\ round < MaxRounds
  /\ round' = round + 1
  /\ fingerprints' = {}
  /\ uiAt' = "sampling"
  /\ UNCHANGED <<device, switches, scanning, heardIn, listeners, scan,
                 late>>

StartSamplingEnds ==
  /\ uiAt = "sampling"
  /\ shouldStartSampling' = TRUE
  /\ late' = [th \in Threads |-> 0]
  /\ uiAt' = "idle"
  /\ UNCHANGED <<device, isStarted, radio, listeners, scan, round>>

StopSampling ==
  /\ uiAt = "idle" /\ isStarted
  /\ shouldStartSampling' = FALSE
  /\ UNCHANGED <<device, isStarted, radio, listeners, scan, uiAt, history>>
-----------------------------------------------------------------------------
(* The Bluetooth stack: onScanResult and onLeScan.  What is parsed before  *)
(* the lock is taken concerns nobody else; an advertisement belongs to the *)
(* round in which it is added.                                             *)

OnScanResult ==
  /\ scanning /\ Len(heardIn) < MaxAds
  /\ heardIn' = Append(heardIn, round)
  /\ fingerprints' = fingerprints \cup {Len(heardIn) + 1}
  /\ UNCHANGED <<device, switches, scanning, listeners, scan, uiAt, history>>
-----------------------------------------------------------------------------
(* A scan thread.                                                          *)

Goes(th, place) == scan' = [scan EXCEPT ![th].at = place]

\* Mutant: the outer loop never ends.
WhileForever == TRUE

WhileStarted == isStarted

Outer(th) ==
  /\ scan[th].at = "outer"
  /\ scan' = [scan EXCEPT ![th] = IF WhileStarted
                                  THEN [@ EXCEPT !.at = "inner"]
                                  ELSE NoThread]
  /\ UNCHANGED <<device, switches, radio, listeners, uiAt, history>>

\* Mutant: the inner loop looks at the wrong switch.
WhileSamplingOrOn == isStarted

WhileSampling == shouldStartSampling

Inner(th) ==
  /\ scan[th].at = "inner"
  /\ Goes(th, IF WhileSampling THEN "open" ELSE "close")
  /\ UNCHANGED <<device, switches, radio, listeners, uiAt, history>>

OpenScan(th) ==
  /\ scan[th].at = "open"
  /\ scanning' = (scanning \/ lollipop)
  /\ Goes(th, "window")
  /\ UNCHANGED <<device, switches, fingerprints, heardIn, listeners, uiAt,
                 history>>

\* Mutant: a window ends only when sampling is stopped.
WindowEndsByStop(th) ==
  /\ scan[th].at = "window" /\ ~shouldStartSampling
  /\ scan' = [scan EXCEPT ![th].at = "copy", ![th].early = TRUE]
  /\ UNCHANGED <<device, switches, radio, listeners, uiAt, history>>

\* A window ends after its last piece of sleep, or after any piece at the end
\* of which sampling is found to be stopped.
WindowEnds(th) ==
  /\ scan[th].at = "window"
  /\ scan' = [scan EXCEPT ![th].at = "copy",
                          ![th].early = ~shouldStartSampling]
  /\ UNCHANGED <<device, switches, radio, listeners, uiAt, history>>

\* Mutant: fingerprints is copied and not cleared.
CopyKeepsFingerprints(th) ==
  /\ scan[th].at = "copy"
  /\ scan' = [scan EXCEPT ![th] = [@ EXCEPT !.at = "fire",
                !.batch = fingerprints, !.next = 1, !.size = Len(listeners),
                !.changed = FALSE]]
  /\ UNCHANGED <<device, switches, radio, listeners, uiAt, history>>

\* Mutant: the loop over listeners starts one too early.
CopyStartsAtZero(th) ==
  /\ scan[th].at = "copy"
  /\ scan' = [scan EXCEPT ![th] = [@ EXCEPT !.at = "fire",
                !.batch = fingerprints, !.next = 0, !.size = Len(listeners),
                !.changed = FALSE]]
  /\ fingerprints' = {}
  /\ UNCHANGED <<device, switches, scanning, heardIn, listeners, uiAt, history>>

\* Under the lock; the iterator over listeners is made right after it.
CopyFingerprints(th) ==
  /\ scan[th].at = "copy"
  /\ scan' = [scan EXCEPT ![th] = [@ EXCEPT !.at = "fire",
                !.batch = fingerprints, !.next = 1, !.size = Len(listeners),
                !.changed = FALSE]]
  /\ fingerprints' = {}
  /\ UNCHANGED <<device, switches, scanning, heardIn, listeners, uiAt, history>>

FireNext(th) ==
  /\ scan[th].at = "fire" /\ ~scan[th].changed
  /\ scan[th].next <= Len(listeners)
  /\ scan' = [scan EXCEPT ![th].next = @ + 1]
  /\ UNCHANGED <<device, switches, radio, listeners, uiAt, history>>

\* ArrayList.Iterator.hasNext: up to Android 6 it counts down from the size
\* the list had, later it compares the position with the size the list has.
HasNext(th) == {scan[th].next <= scan[th].size, scan[th].next # Len(listeners) + 1}

FireEnds(th) ==
  /\ scan[th].at = "fire" /\ FALSE \in HasNext(th)
  /\ late' = IF shouldStartSampling \/ late[th] = 2 THEN late
                                    ELSE [late EXCEPT ![th] = @ + 1]
  /\ scan' = [scan EXCEPT ![th] =
                [NoThread EXCEPT !.at = IF scan[th].early THEN "close" ELSE "inner"]]
  /\ UNCHANGED <<device, switches, radio, listeners, uiAt, round>>

\* ConcurrentModificationException ends the thread and with it the process.
FireThrows(th) ==
  /\ scan[th].at = "fire" /\ scan[th].changed /\ TRUE \in HasNext(th)
  /\ Dies

\* Mutant: the scanner is left open when sampling stops.
CloseScanForgets(th) ==
  /\ scan[th].at = "close"
  /\ Goes(th, "outer")
  /\ UNCHANGED <<device, switches, radio, listeners, uiAt, history>>

CloseScan(th) ==
  /\ scan[th].at = "close"
  /\ scanning' = (scanning /\ ~lollipop)
  /\ Goes(th, "outer")
  /\ UNCHANGED <<device, switches, fingerprints, heardIn, listeners, uiAt,
                 history>>
\* startScan and stopScan do not expect Bluetooth to be switched off.
ScannerThrows(th) ==
  /\ lollipop /\ scan[th].at \in {"open", "close"}
  /\ Dies
-----------------------------------------------------------------------------
UICall ==
  \/ \E l \in Listeners : AddListener(l) \/ RemoveListener(l)
  \/ \E th \in Threads : TurnOn(th)
  \/ TurnOnFails \/ TurnOnThrows \/ TurnOff \/ TurnOffThrows
  \/ StartSampling \/ StartSamplingThrows \/ StopSampling

UIContinues == TurnOffClears \/ TurnOffEnds \/ StartSamplingEnds

ScanStep(th) ==
  \/ Outer(th) \/ Inner(th) \/ OpenScan(th) \/ WindowEnds(th)
  \/ CopyFingerprints(th) \/ FireNext(th) \/ FireEnds(th) \/ FireThrows(th)
  \/ CloseScan(th) \/ ScannerThrows(th)

Next ==
  /\ process = "alive"
  /\ UICall \/ UIContinues \/ OnScanResult \/ \E th \in Threads : ScanStep(th)

(* A running thread goes on: sleeps end and the lock is held only briefly. *)
(* Nobody has to call the collector, and nothing has to be heard.          *)
Fairness ==
  /\ WF_vars(process = "alive" /\ UIContinues)
  /\ \A th \in Threads : WF_vars(process = "alive" /\ ScanStep(th))

Spec == Init /\ [][Next]_vars
FairSpec == Spec /\ Fairness
-----------------------------------------------------------------------------
TypeOK ==
  /\ process \in {"alive", "dead"}
  /\ lollipop \in BOOLEAN /\ adapter \in BOOLEAN
  /\ isStarted \in BOOLEAN /\ shouldStartSampling \in BOOLEAN
  /\ scanning \in BOOLEAN /\ fingerprints \in SUBSET DOMAIN heardIn
  /\ heardIn \in Seq(0..MaxRounds) /\ Len(heardIn) <= MaxAds
  /\ listeners \in Seq(Listeners)
  /\ scan \in [Threads -> ScanThreads]
  /\ uiAt \in {"idle", "clearing", "stopping", "sampling"}
  /\ round \in 0..MaxRounds
  /\ late \in [Threads -> 0..2]

(* BleFingerprintCollector.java:329-340. Copying and clearing under the    *)
(* lock gives every advertisement to one scan thread at most, and so to    *)
(* every listener at most once, also when two scan threads are running.    *)
AdvertTakenOnce ==
  \A th \in Threads :
    /\ fingerprints \cap scan[th].batch = {}
    /\ \A other \in Threads \ {th} : scan[th].batch \cap scan[other].batch = {}

(* BleFingerprintCollector.java:540-551. What a listener gets in one call  *)
(* was heard in one round: StartSampling keeps what was heard before out   *)
(* of the next window, whatever a scan thread was doing meanwhile.         *)
BatchOfOneRound ==
  \A th \in Threads : \A a, b \in scan[th].batch : heardIn[a] = heardIn[b]

(* BleFingerprintCollector.java:570-573, "the latest scanned data still    *)
(* could be fired out one time after you called this function": a scan     *)
(* thread fires at most one batch after StopSampling.                      *)
OneLateBatch == \A th \in Threads : late[th] <= 1

(* BleFingerprintCollector.java:345-350. When sampling is stopped for good *)
(* the scanner is shut for good, also when several scan threads, each with *)
(* its own startScan and stopScan, shared it. Before Android 5 the scanner *)
(* stays open by design.                                                   *)
StoppedSamplingShutsScan ==
  <>[](process = "alive" /\ lollipop /\ ~shouldStartSampling)
    => <>[](~scanning)

(* BleFingerprintCollector.java:300, 514-524. When the collector is turned *)
(* off for good and was not left sampling, every scan thread ends.         *)
ThreadsEnd ==
  <>[](process = "alive" /\ ~isStarted /\ ~shouldStartSampling)
    => <>[](\A th \in Threads : ~Running(th))

(* BleFingerprintCollector.java:537-551, "The OnBleSampleCollectedListener *)
(* will be fired in each ble scan cycle": while the collector and sampling *)
(* stay on, every scan thread there is fires batches again and again.      *)
SamplingKeepsFiring ==
  \A th \in Threads :
    <>[](process = "alive" /\ isStarted /\ shouldStartSampling /\ Running(th))
      => []<>(scan[th].at = "fire")
-----------------------------------------------------------------------------
(* What the activities see of a scan thread: whether it is handing out a   *)
(* batch, and how far it got.                                              *)
Seen(t) ==
  [at |-> IF t.at = "none" THEN "none" ELSE IF t.at = "fire" THEN "fires"
          ELSE "runs",
   batch |-> t.batch, next |-> t.next, size |-> t.size, changed |-> t.changed]

Stream == INSTANCE ScanStream WITH stream <- [th \in Threads |-> Seen(scan[th])]

(* BleFingerprintCollector.java:300-351 and 417-582. With its scanner,     *)
(* windows, loops and locks, every step of the collector is one of the     *)
(* stream of batches that the activities count on, or invisible to them.   *)
ImplementsScanStream == Stream!Spec
-----------------------------------------------------------------------------
(* BleFingerprintCollector.java:466-467, TurnOn refuses with "Previous     *)
(* process is still running, stop it first and then re-try": no two scan   *)
(* threads run at the same time.                                           *)
OneScanThread == Cardinality({th \in Threads : Running(th)}) <= 1
=============================================================================
