----------------------------- MODULE ScanStream -----------------------------
(***************************************************************************)
(* What BleFingerprintCollector promises to those who use it, without the  *)
(* scanner: a stream of batches.  A scan thread takes what was heard and   *)
(* was not taken before, at any time, and hands it to one listener after   *)
(* the other.  When and how often the scanner is opened, how long a window *)
(* is and where in its loops a thread is are left out; BleCollector has    *)
(* them and implements this module.                                        *)
(***************************************************************************)
EXTENDS Naturals, Sequences, SequencesExt

CONSTANTS Threads,    \* bound: scan threads running at the same time
          Listeners,  \* activities that listen
          MaxAds,     \* bound: advertisements heard
          MaxRounds   \* bound: calls of StartSampling

VARIABLES
  process,                         \* "dead" after an uncaught exception
  isStarted, shouldStartSampling,
  fingerprints,                    \* heard and not taken
  heardIn,                         \* history: the round of what was heard
  listeners, uiAt, round,
  stream                           \* what each scan thread is handing out

vars == <<process, isStarted, shouldStartSampling, fingerprints, heardIn,
          listeners, uiAt, round, stream>>

NoThread == [at |-> "none", batch |-> {}, next |-> 1, size |-> 0,
             changed |-> FALSE]
Streams == [at : {"none", "runs", "fires"}, batch : SUBSET (1..MaxAds),
            next : Nat \ {0}, size : Nat, changed : BOOLEAN]
Running(th) == stream[th].at # "none"

Init ==
  /\ process = "alive"
  /\ isStarted = FALSE /\ shouldStartSampling = FALSE
  /\ fingerprints = {} /\ heardIn = <<>>
  /\ listeners = <<>> /\ uiAt = "idle" /\ round = 0
  /\ stream = [th \in Threads |-> NoThread]
-----------------------------------------------------------------------------
(* Calls on the UI thread.                                                 *)

ChangeListeners(ls) ==
  /\ listeners' = ls
  /\ stream' = [th \in Threads |->
                  [stream[th] EXCEPT !.changed = @ \/ stream[th].at = "fires"]]
  /\ UNCHANGED <<process, isStarted, shouldStartSampling, fingerprints,
                 heardIn, round>>

AddListener(l) ==
  /\ uiAt = "idle" /\ ~Contains(listeners, l)
  /\ ChangeListeners(Append(listeners, l)) /\ UNCHANGED uiAt

\* A list holds a listener once at most.
RemoveListener(l) ==
  /\ uiAt = "idle"
  /\ \E i \in DOMAIN listeners :
       listeners[i] = l /\ ChangeListeners(RemoveAt(listeners, i))
  /\ UNCHANGED uiAt

TurnOn(th) ==
  /\ uiAt = "idle" /\ ~isStarted /\ ~Running(th)
  /\ isStarted' = TRUE /\ fingerprints' = {}
  /\ stream' = [stream EXCEPT ![th].at = "runs"]
  /\ UNCHANGED <<process, shouldStartSampling, heardIn, listeners, uiAt, round>>

\* Bluetooth is switched off: the call fails, yet leaves isStarted set.
TurnOnFails ==
  /\ uiAt = "idle" /\ ~isStarted
  /\ isStarted' = TRUE
  /\ UNCHANGED <<process, shouldStartSampling, fingerprints, heardIn,
                 listeners, uiAt, round, stream>>

TurnOff ==
  /\ uiAt = "idle" /\ uiAt' = "clearing"
  /\ UNCHANGED <<process, isStarted, shouldStartSampling, fingerprints,
                 heardIn, listeners, round, stream>>

TurnOffClears ==
  /\ uiAt = "clearing" /\ ChangeListeners(<<>>) /\ uiAt' = "stopping"

TurnOffEnds ==
  /\ uiAt = "stopping" /\ uiAt' = "idle"
  /\ isStarted' = FALSE
  /\ UNCHANGED <<process, shouldStartSampling, fingerprints, heardIn,
                 listeners, round, stream>>

StartSampling ==
  /\ uiAt = "idle" /\ isStarted /\ round < MaxRounds
  /\ uiAt' = "sampling" /\ round' = round + 1 /\ fingerprints' = {}
  /\ UNCHANGED <<process, isStarted, shouldStartSampling, heardIn, listeners,
                 stream>>

StartSamplingEnds ==
  /\ uiAt = "sampling" /\ uiAt' = "idle"
  /\ shouldStartSampling' = TRUE
  /\ UNCHANGED <<process, isStarted, fingerprints, heardIn, listeners, round,
                 stream>>

StopSampling ==
  /\ uiAt = "idle" /\ isStarted
  /\ shouldStartSampling' = FALSE
  /\ UNCHANGED <<process, isStarted, fingerprints, heardIn, listeners, uiAt,
                 round, stream>>

\* An exception that nobody catches ends the process.
Dies ==
  /\ process' = "dead"
  /\ UNCHANGED <<isStarted, shouldStartSampling, fingerprints, heardIn,
                 listeners, uiAt, round, stream>>

\* A call that the collector does not expect in its state.
CallThrows == uiAt = "idle" /\ Dies
StartSamplingThrows == ~isStarted /\ CallThrows

UIContinues == TurnOffClears \/ TurnOffEnds \/ StartSamplingEnds
-----------------------------------------------------------------------------
(* The Bluetooth stack and the scan threads.                               *)

Hear ==
  /\ Len(heardIn) < MaxAds
  /\ heardIn' = Append(heardIn, round)
  /\ fingerprints' = fingerprints \cup {Len(heardIn) + 1}
  /\ UNCHANGED <<process, isStarted, shouldStartSampling, listeners, uiAt,
                 round, stream>>

\* Mutant: what was taken is not removed.
TakeKeeps(th) ==
  /\ stream[th].at = "runs"
  /\ stream' = [stream EXCEPT ![th] =
                  [at |-> "fires", batch |-> fingerprints, next |-> 1,
                   size |-> Len(listeners), changed |-> FALSE]]
  /\ UNCHANGED <<process, isStarted, shouldStartSampling, fingerprints,
                 heardIn, listeners, uiAt, round>>

Take(th) ==
  /\ stream[th].at = "runs"
  /\ stream' = [stream EXCEPT ![th] =
                  [at |-> "fires", batch |-> fingerprints, next |-> 1,
                   size |-> Len(listeners), changed |-> FALSE]]
  /\ fingerprints' = {}
  /\ UNCHANGED <<process, isStarted, shouldStartSampling, heardIn, listeners,
                 uiAt, round>>

FireNext(th) ==
  /\ stream[th].at = "fires" /\ ~stream[th].changed
  /\ stream[th].next <= Len(listeners)
  /\ stream' = [stream EXCEPT ![th].next = @ + 1]
  /\ UNCHANGED <<process, isStarted, shouldStartSampling, fingerprints,
                 heardIn, listeners, uiAt, round>>

HasNext(th) ==
  {stream[th].next <= stream[th].size, stream[th].next # Len(listeners) + 1}

FireEnds(th) ==
  /\ stream[th].at = "fires" /\ FALSE \in HasNext(th)
  /\ stream' = [stream EXCEPT ![th] = [NoThread EXCEPT !.at = "runs"]]
  /\ UNCHANGED <<process, isStarted, shouldStartSampling, fingerprints,
                 heardIn, listeners, uiAt, round>>

FireThrows(th) ==
  /\ stream[th].at = "fires" /\ stream[th].changed /\ TRUE \in HasNext(th)
  /\ Dies

\* Mutant: a thread also ends when it finds sampling stopped.
EndsUnlessSampling(th) ==
  /\ stream[th].at = "runs" /\ ~(isStarted /\ shouldStartSampling)
  /\ stream' = [stream EXCEPT ![th] = NoThread]
  /\ UNCHANGED <<process, isStarted, shouldStartSampling, fingerprints,
                 heardIn, listeners, uiAt, round>>

Ends(th) ==
  /\ stream[th].at = "runs" /\ ~isStarted
  /\ stream' = [stream EXCEPT ![th] = NoThread]
  /\ UNCHANGED <<process, isStarted, shouldStartSampling, fingerprints,
                 heardIn, listeners, uiAt, round>>

\* Outside of the loop over listeners: Bluetooth was switched off meanwhile.
Breaks(th) == stream[th].at = "runs" /\ Dies

Fires(th) == FireNext(th) \/ FireEnds(th) \/ FireThrows(th)
-----------------------------------------------------------------------------
Call ==
  \/ \E l \in Listeners : AddListener(l) \/ RemoveListener(l)
  \/ \E th \in Threads : TurnOn(th)
  \/ TurnOnFails \/ TurnOff \/ StartSampling \/ StopSampling \/ CallThrows

Next ==
  /\ process = "alive"
  /\ \/ Call \/ UIContinues \/ Hear
     \/ \E th \in Threads : Take(th) \/ Fires(th) \/ Breaks(th) \/ Ends(th)

(* Batches that were begun are handed out, new ones are taken as long as   *)
(* sampling is on, and a thread that is not needed any more ends.          *)
Fairness ==
  /\ WF_vars(process = "alive" /\ UIContinues)
  /\ \A th \in Threads :
       /\ WF_vars(process = "alive" /\ Fires(th))
       /\ WF_vars(process = "alive" /\ isStarted /\ shouldStartSampling
                    /\ Take(th))
       /\ WF_vars(process = "alive" /\ ~isStarted /\ ~shouldStartSampling
                    /\ Ends(th))

Spec == Init /\ [][Next]_vars
FairSpec == Spec /\ Fairness

TypeOK ==
  /\ process \in {"alive", "dead"}
  /\ isStarted \in BOOLEAN /\ shouldStartSampling \in BOOLEAN
  /\ fingerprints \in SUBSET DOMAIN heardIn
  /\ heardIn \in Seq(0..MaxRounds) /\ Len(heardIn) <= MaxAds
  /\ listeners \in Seq(Listeners)
  /\ uiAt \in {"idle", "clearing", "stopping", "sampling"}
  /\ round \in 0..MaxRounds
  /\ stream \in [Threads -> Streams]
=============================================================================
