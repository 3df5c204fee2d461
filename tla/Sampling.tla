------------------------------ MODULE Sampling ------------------------------
(***************************************************************************)
(* The activities that sample: MainActivity, which collects one round of   *)
(* advertisements per touch and averages it to a sampling point, and       *)
(* NaviActivity, which samples as long as it is shown.  Both drive the     *)
(* process-wide collector from their life-cycle callbacks, so this module  *)
(* composes ScanStream, which BleCollector implements: a callback is the   *)
(* sequence of the calls it makes, which run one after the other on the UI *)
(* thread while the scan threads and the Bluetooth stack go on.            *)
(*                                                                         *)
(* OverallMapActivity lies at the bottom of the stack and opens both;      *)
(* MainActivity also opens NaviActivity.  Android may stop and destroy an  *)
(* activity that was left long after the next one is shown.  Every element *)
(* of Mains and Navis is one instance, created once.  The device has       *)
(* Bluetooth LE, which may be switched off, and Android 5 or later.        *)
(***************************************************************************)
EXTENDS Naturals, Sequences, SequencesExt, FiniteSets

CONSTANTS Threads, MaxAds, MaxRounds,  \* as in ScanStream
          Mains, Navis,                \* instances of the two activities
          MaxMoves                     \* bound: moves of the user

Activities == Mains \cup Navis

ASSUME SamplingAssumption ==
  /\ Mains \cap Navis = {} /\ "map" \notin Mains \cup Navis
  /\ MaxAds \in Nat /\ MaxRounds \in Nat /\ MaxMoves \in Nat

VARIABLES
  process, isStarted, shouldStartSampling, fingerprints, heardIn, listeners,
  uiAt, round, stream,  \* as in ScanStream
  life,       \* of each instance, as Android has told it
  stack,      \* the activities above the map, the last on top
  away,       \* the user is in another app
  moves,      \* moves of the user so far
  todo,       \* calls that the current callback has still to make
  bare,       \* instances whose onCreate returned early
  timers,     \* round timers of each MainActivity that are pending
  progress,   \* its samplingProgressDialog is showing
  stuck,      \* a dialog it showed earlier and no longer knows is showing
  focused,    \* touches go to the dialog
  collected,  \* collectedSample of each MainActivity
  averaged,   \* advertisements in the sampling points that it made
  refused, late, twoThreads, cause, napped  \* history

Collector == INSTANCE ScanStream WITH Listeners <- Activities

collector == <<process, isStarted, shouldStartSampling, fingerprints, heardIn,
               listeners, uiAt, round, stream>>
shown == <<life, stack, away, moves>>
dialogs == <<progress, stuck, focused>>
samples == <<collected, averaged>>
history == <<refused, late, twoThreads, cause, napped>>
vars == <<collector, shown, todo, bare, timers, dialogs, samples, history>>

Ready == todo = <<>> /\ uiAt = "idle"
Top == Last(stack)
Modal(a) == a \in Mains /\ (progress[a] \/ stuck[a])

Init ==
  /\ Collector!Init
  /\ life = [a \in Activities |-> "new"] /\ stack = <<>> /\ away = FALSE
  /\ moves = 0
  /\ todo = <<>> /\ bare = {}
  /\ timers = [m \in Mains |-> 0]
  /\ progress = [m \in Mains |-> FALSE] /\ stuck = [m \in Mains |-> FALSE]
  /\ focused = FALSE
  /\ collected = [m \in Mains |-> {}] /\ averaged = [m \in Mains |-> {}]
  /\ refused = FALSE /\ late = {} /\ twoThreads = FALSE
  /\ cause = "none" /\ napped = [n \in Navis |-> FALSE]
-----------------------------------------------------------------------------
(* What each callback calls.                                               *)

Calls(a, names) == [i \in DOMAIN names |-> [do |-> names[i], who |-> a]]

OnCreate(a) == Calls(a, IF a \in Mains THEN <<"turnOn", "add">>
                                       ELSE <<"turnOn", "add", "start">>)
OnRestart(a) == Calls(a, IF a \in Mains THEN <<"turnOn">>
                                        ELSE <<"add", "start", "turnOn">>)
OnPause(a) == Calls(a, IF a \in Mains THEN <<>> ELSE <<"stop">>)
\* Mutant: a MainActivity, too, stops sampling when it is hidden.
OnStopAll(a) == Calls(a, IF a \in Mains THEN <<"stop">>
                         ELSE <<"stop", "remove">>)

\* Without its wake lock the onStop of a NaviActivity throws.
OnStop(a) == Calls(a, IF a \in Mains THEN <<>>
                      ELSE IF a \in bare THEN <<"release">>
                      ELSE <<"stop", "remove">>)
\* Mutant: a NaviActivity turns the collector off, too.
OnDestroyAny(a) == Calls(a, <<"turnOff">>)

OnDestroy(a) == Calls(a, IF a \in Mains THEN <<"turnOff">> ELSE <<>>)

\* The bound on rounds must not hide a call of StartSampling.
MayShow(a) == a \in Navis => round < MaxRounds
-----------------------------------------------------------------------------
(* The user and Android.                                                   *)

Moves(calls, from, to) ==
  /\ Ready /\ moves < MaxMoves /\ moves' = moves + 1
  /\ todo' = calls
  /\ life' = [a \in Activities |-> IF a = to THEN "resumed"
                                   ELSE IF a = from THEN "paused"
                                   ELSE life[a]]
  /\ napped' = [n \in Navis |-> IF n = from THEN TRUE
                                ELSE IF n = to /\ life[n] # "paused" THEN FALSE
                                ELSE napped[n]]
  /\ UNCHANGED <<collector, bare, timers, dialogs, samples, refused, late,
                 twoThreads, cause>>

\* Instances are alike: the next one of a class is any that is new.
NextNew(class) == CHOOSE a \in class : life[a] = "new"
New(a) ==
  /\ ~away /\ life[a] = "new" /\ MayShow(a)
  /\ \E class \in {Mains, Navis} : a \in class /\ a = NextNew(class)

\* From the map, or a NaviActivity from the MainActivity on top.
Open(a) ==
  /\ New(a)
  /\ \/ stack = <<>> /\ Moves(OnCreate(a), "map", a)
     \/ /\ stack # <<>> /\ Top \in Mains \ bare /\ a \in Navis
        /\ ~Modal(Top) /\ Moves(OnPause(Top) \o OnCreate(a), Top, a)
  /\ stack' = Append(stack, a) /\ UNCHANGED away

Back ==
  /\ ~away /\ stack # <<>> /\ ~Modal(Top)
  /\ LET below == Front(stack)
     IN IF below = <<>> THEN Moves(OnPause(Top), Top, "map")
        ELSE Moves(OnPause(Top) \o
                     IF life[Last(below)] = "stopped"
                     THEN OnRestart(Last(below)) ELSE <<>>,
                   Top, Last(below))
  /\ stack' = Front(stack) /\ UNCHANGED away

\* To another app, or to something that covers the activity in part.
Leave ==
  /\ ~away /\ stack # <<>>
  /\ Moves(OnPause(Top), Top, "map")
  /\ away' = TRUE /\ UNCHANGED stack

Return ==
  /\ away /\ (life[Top] = "stopped" => MayShow(Top))
  /\ Moves(IF life[Top] = "stopped" THEN OnRestart(Top) ELSE <<>>, "map", Top)
  /\ away' = FALSE /\ UNCHANGED stack

\* The screen turns: the instance on top is replaced, dialogs included.
Rotate(b) ==
  /\ New(b) /\ stack # <<>> /\ (Top \in Mains <=> b \in Mains)
  /\ Ready /\ moves < MaxMoves /\ moves' = moves + 1
  /\ todo' = OnPause(Top) \o OnStop(Top) \o OnDestroy(Top) \o OnCreate(b)
  /\ life' = [life EXCEPT ![Top] = "destroyed", ![b] = "resumed"]
  /\ stack' = Append(Front(stack), b)
  /\ UNCHANGED <<collector, away, bare, timers, dialogs, samples, history>>

Hide(a) ==
  /\ Ready /\ life[a] = "paused"
  /\ life' = [life EXCEPT ![a] = "stopped"]
  /\ todo' = OnStop(a)
  /\ late' = IF a \in Navis /\ \E n \in Navis : life[n] = "resumed"
             THEN late \cup {"stop"} ELSE late
  /\ UNCHANGED <<collector, stack, away, moves, bare, timers, dialogs, samples,
                 refused, twoThreads, cause, napped>>

Living(a) == life[a] \notin {"new", "destroyed"}

Destroy(a) ==
  /\ Ready /\ life[a] = "stopped" /\ ~Contains(stack, a)
  /\ life' = [life EXCEPT ![a] = "destroyed"]
  /\ todo' = OnDestroy(a)
  /\ late' = IF a \in Mains /\ \E b \in Activities \ {a} : Living(b)
             THEN late \cup {"off"} ELSE late
  /\ UNCHANGED <<collector, stack, away, moves, bare, timers, dialogs, samples,
                 refused, twoThreads, cause, napped>>
-----------------------------------------------------------------------------
(* The UI thread: the calls of a callback.                                 *)

Calling(call) == todo # <<>> /\ uiAt = "idle" /\ todo[1].do = call
Who == todo[1].who
own == <<shown, timers, dialogs>>

Skip(call) ==
  /\ Calling(call) /\ todo' = Tail(todo)
  /\ UNCHANGED <<collector, own, bare, samples, history>>

TurnOn ==
  \/ isStarted /\ Skip("turnOn")
  \/ /\ Calling("turnOn") /\ todo' = Tail(todo)
     /\ \E th \in Threads : Collector!TurnOn(th)
     /\ twoThreads' = (twoThreads \/ \E th \in Threads : Collector!Running(th))
     /\ UNCHANGED <<own, bare, samples, refused, late, cause, napped>>

\* The rest of the callback is not executed; no other is due after it.
TurnOnRefused ==
  /\ Calling("turnOn") /\ Collector!TurnOnFails
  /\ todo' = <<>>
  /\ bare' = IF Tail(todo) = <<>> THEN bare ELSE bare \cup {Who}
  /\ refused' = TRUE
  /\ UNCHANGED <<own, samples, late, twoThreads, cause, napped>>

AddListener ==
  /\ Calling("add") /\ todo' = Tail(todo) /\ Collector!AddListener(Who)
  /\ UNCHANGED <<own, bare, samples, history>>

RemoveListener ==
  \/ Calling("remove") /\ ~Contains(listeners, Who) /\ Skip("remove")
  \/ /\ Calling("remove") /\ todo' = Tail(todo)
     /\ Collector!RemoveListener(Who)
     /\ UNCHANGED <<own, bare, samples, history>>

StartSampling ==
  /\ Calling("start") /\ todo' = Tail(todo) /\ Collector!StartSampling
  /\ UNCHANGED <<own, bare, samples, history>>

StopSampling ==
  \/ ~isStarted /\ Skip("stop")
  \/ /\ Calling("stop") /\ todo' = Tail(todo) /\ Collector!StopSampling
     /\ UNCHANGED <<own, bare, samples, history>>

TurnOff ==
  /\ Calling("turnOff") /\ todo' = Tail(todo) /\ Collector!TurnOff
  /\ UNCHANGED <<own, bare, samples, history>>

Continues ==
  /\ Collector!UIContinues
  /\ UNCHANGED <<own, todo, bare, samples, history>>

Throws(why) ==
  /\ cause' = why
  /\ UNCHANGED <<own, todo, bare, samples, refused, late, twoThreads,
                 napped>>

StartSamplingThrows ==
  Calling("start") /\ Collector!StartSamplingThrows /\ Throws("not on")

ReleaseThrows == Calling("release") /\ Collector!Dies /\ Throws("no lock")

\* Bluetooth was switched off meanwhile.
TurnOffThrows ==
  Calling("turnOff") /\ Collector!CallThrows /\ Throws("scanner")
-----------------------------------------------------------------------------
(* A round of sampling.                                                    *)

\* A touch of the sampling button, also a second one before the dialog gets
\* the touches.
Touch(m) ==
  /\ Ready /\ ~away /\ stack # <<>> /\ Top = m /\ life[m] = "resumed"
  /\ m \notin bare /\ ~stuck[m] /\ (progress[m] => ~focused)
  /\ round < MaxRounds
  /\ todo' = Calls(m, <<"start">>)
  /\ timers' = [timers EXCEPT ![m] = @ + 1]
  /\ stuck' = [stuck EXCEPT ![m] = progress[m]]
  /\ progress' = [progress EXCEPT ![m] = TRUE]
  /\ focused' = FALSE
  /\ UNCHANGED <<collector, shown, bare, samples, history>>

DialogFocused ==
  /\ ~focused /\ \E m \in Mains : progress[m]
  /\ focused' = TRUE
  /\ UNCHANGED <<collector, shown, todo, bare, timers, progress, stuck,
                 samples, history>>

\* Mutant: the timer of a round goes on for as long as its dialog shows.
RoundEndsAgain(m) ==
  /\ Ready /\ focused /\ (timers[m] > 0 \/ stuck[m])
  /\ timers' = [timers EXCEPT ![m] = @ - 1]
  /\ progress' = [progress EXCEPT ![m] = FALSE]
  /\ todo' = Calls(m, <<"stop", "average">>)
  /\ UNCHANGED <<collector, shown, bare, stuck, focused, samples, history>>

\* The timer of a round, after the dialog got the touches.
RoundEnds(m) ==
  /\ Ready /\ timers[m] > 0 /\ (life[m] # "destroyed" \/ ~progress[m])
  /\ focused
  /\ timers' = [timers EXCEPT ![m] = @ - 1]
  /\ progress' = [progress EXCEPT ![m] = FALSE]
  /\ todo' = Calls(m, <<"stop", "average">>)
  /\ late' = IF life[m] = "destroyed" THEN late \cup {"stop"} ELSE late
  /\ UNCHANGED <<collector, shown, bare, stuck, focused, samples, refused,
                 twoThreads, cause, napped>>

\* Its dialog is not attached to a window any more.
RoundEndsThrows(m) ==
  /\ Ready /\ timers[m] > 0 /\ life[m] = "destroyed" /\ progress[m]
  /\ Collector!Dies /\ Throws("no window")

\* Under the lock.  That the user does not want to keep a point of poor
\* selectivity is asked, and the answer has no effect: shouldIgnore is
\* reset and read in this same callback.
Average ==
  /\ Calling("average") /\ todo' = Tail(todo)
  /\ averaged' = [averaged EXCEPT ![Who] = @ \cup collected[Who]]
  /\ collected' = [collected EXCEPT ![Who] = {}]
  /\ UNCHANGED <<collector, own, bare, history>>

\* The question is asked in a dialog, which an activity that is destroyed
\* cannot show.
AverageThrows ==
  /\ Calling("average") /\ life[Who] = "destroyed" /\ collected[Who] # {}
  /\ Collector!Dies /\ Throws("no window")

Receiver(th) == listeners[stream[th].next]

\* onSampleCollected of a MainActivity, under the lock; what NaviActivity
\* does with a batch is the subject of Positioning.
OnSampleCollected(th) ==
  collected' = [m \in Mains |-> IF m = Receiver(th)
                                THEN collected[m] \cup stream[th].batch
                                ELSE collected[m]]

Fire(th) ==
  /\ Collector!FireNext(th) /\ OnSampleCollected(th)
  /\ UNCHANGED <<own, todo, bare, averaged, history>>

FireThrows(th) == Collector!FireThrows(th) /\ Throws("iterator")

ScannerThrows(th) == Collector!Breaks(th) /\ Throws("scanner")

Take(th) ==
  /\ Collector!Take(th)
  /\ UNCHANGED <<own, todo, bare, samples, history>>

Ends(th) ==
  /\ Collector!Ends(th)
  /\ UNCHANGED <<own, todo, bare, samples, history>>

FireEnds(th) ==
  /\ Collector!FireEnds(th)
  /\ UNCHANGED <<own, todo, bare, samples, history>>

Hear ==
  /\ Collector!Hear
  /\ UNCHANGED <<own, todo, bare, samples, history>>
-----------------------------------------------------------------------------
User ==
  \/ \E a \in Activities : Open(a) \/ Rotate(a)
  \/ Back \/ Leave \/ Return
  \/ \E m \in Mains : Touch(m)

System == DialogFocused \/ \E a \in Activities : Hide(a) \/ Destroy(a)

UIStep ==
  \/ TurnOn \/ TurnOnRefused \/ AddListener \/ RemoveListener
  \/ StartSampling \/ StopSampling \/ TurnOff \/ Continues \/ StartSamplingThrows
  \/ ReleaseThrows \/ TurnOffThrows \/ Average \/ AverageThrows
  \/ \E m \in Mains : RoundEnds(m) \/ RoundEndsThrows(m)

Fires(th) == Fire(th) \/ FireEnds(th) \/ FireThrows(th)

Next ==
  /\ process = "alive"
  /\ \/ User \/ System \/ UIStep \/ Hear
     \/ \E th \in Threads :
          Take(th) \/ Fires(th) \/ ScannerThrows(th) \/ Ends(th)

(* Callbacks return, timers fire and the scan threads do what ScanStream   *)
(* says; neither the user nor the Bluetooth stack has to do anything.      *)
Fairness ==
  /\ WF_vars(process = "alive" /\ UIStep)
  /\ WF_vars(process = "alive" /\ DialogFocused)
  /\ \A th \in Threads :
       /\ WF_vars(process = "alive" /\ Fires(th))
       /\ WF_vars(process = "alive" /\ isStarted /\ shouldStartSampling
                    /\ Take(th))

Spec == Init /\ [][Next]_vars
FairSpec == Spec /\ Fairness
-----------------------------------------------------------------------------
TypeOK ==
  /\ Collector!TypeOK
  /\ life \in [Activities -> {"new", "resumed", "paused", "stopped",
                              "destroyed"}]
  /\ stack \in Seq(Activities) /\ away \in BOOLEAN /\ moves \in 0..MaxMoves
  /\ todo \in Seq([do : {"turnOn", "add", "start", "stop", "remove",
                         "release", "turnOff", "average"},
                   who : Activities])
  /\ bare \subseteq Activities
  /\ timers \in [Mains -> 0..MaxRounds]
  /\ progress \in [Mains -> BOOLEAN] /\ stuck \in [Mains -> BOOLEAN]
  /\ focused \in BOOLEAN
  /\ collected \in [Mains -> SUBSET (1..MaxAds)]
  /\ averaged \in [Mains -> SUBSET (1..MaxAds)]
  /\ refused \in BOOLEAN /\ late \subseteq {"stop", "off"} /\ twoThreads \in BOOLEAN
  /\ cause \in {"none", "not on", "no lock", "no window",
                "iterator", "scanner"}
  /\ napped \in [Navis -> BOOLEAN]

(* MainActivity.java:385-409 and 1241-1250. However batches, timers, other *)
(* instances and second touches interleave: what a MainActivity was given  *)
(* goes into one of its sampling points at most, and two instances have an *)
(* advertisement in common only after one was destroyed with a round       *)
(* running.                                                                *)
AdvertInOnePoint ==
  \A m \in Mains :
    /\ averaged[m] \cap collected[m] = {}
    /\ \A n \in Mains \ {m} :
         averaged[m] \cap averaged[n] # {} => "destroyed" \in {life[m], life[n]}

(* BleFingerprintCollector.java:435-457. Whatever order the callbacks of   *)
(* several instances come in: a collector that claims to be started has a  *)
(* scan thread, unless a TurnOn found Bluetooth switched off.              *)
StartedHasThread ==
  process = "alive" /\ isStarted /\ ~refused
    => \E th \in Threads : Collector!Running(th)

(* MainActivity.java:1232-1235, NaviActivity.java:263 and 650. An activity *)
(* starts sampling without asking whether the collector is on; that throws *)
(* only after the onDestroy of a MainActivity came late, when another      *)
(* activity was already using the collector.                               *)
ThrowsOnlyAfterLateDestroy == cause = "not on" => "off" \in late

Gives(n) == \E th \in Threads : Fire(th) /\ Receiver(th) = n

(* NaviActivity.java:260-263 and 644-658. A NaviActivity that stays shown  *)
(* after its onCreate or onRestart is given batches again and again: no    *)
(* timer or callback of a MainActivity stops sampling under it.  Left out, *)
(* because then it may not be: it was only paused and resumed (:661-672),  *)
(* the onDestroy of a MainActivity or the onStop of an earlier             *)
(* NaviActivity (:636) came late, a second timer of a MainActivity that    *)
(* was rotated away ran out, or Bluetooth was off.                         *)
ShownNaviIsGiven ==
  \A n \in Navis :
    <>[](/\ process = "alive" /\ late = {} /\ ~refused
         /\ life[n] = "resumed" /\ ~napped[n])
      => []<><<Gives(n)>>_vars
=============================================================================
