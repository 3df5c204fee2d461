------------------------- MODULE BleCollectorProofs -------------------------
(* The collector keeps what it promises for any number of scan threads,    *)
(* listeners, advertisements and rounds, and every step of it is one of    *)
(* the stream of batches that the activities rely on.                      *)
EXTENDS BleCollector, SequenceTheorems, TLAPS

(* What is waiting was heard in the round that runs: StartSampling clears  *)
(* it, and nothing but the stack adds to it.                               *)
OfThisRound == \A a \in fingerprints : heardIn[a] = round

(* What a scan thread holds was heard.                                     *)
BatchHeard == \A th \in Threads : scan[th].batch \subseteq DOMAIN heardIn

(* While sampling is on no thread is late, and one that fired after the    *)
(* stop does not go into a window again.                                   *)
InWindow == {"open", "window", "copy", "fire"}
LateInv ==
  \A th \in Threads :
    /\ shouldStartSampling => late[th] = 0
    /\ late[th] > 0 => late[th] = 1 /\ scan[th].at \notin InWindow

(* A thread that has ended left nothing behind.                            *)
EndedIsNoThread == \A th \in Threads : ~Running(th) => scan[th] = NoThread

Heard == OfThisRound /\ BatchHeard /\ AdvertTakenOnce /\ BatchOfOneRound
IInv == TypeOK /\ Heard /\ LateInv /\ EndedIsNoThread

\* What java.util.List.remove leaves.
LEMMA RemoveKeepsSeq ==
  ASSUME NEW S, NEW q \in Seq(S), NEW i \in DOMAIN q
  PROVE  RemoveAt(q, i) \in Seq(S)
<1>1. Len(q) \in Nat /\ i \in 1..Len(q)
  BY LenProperties
<1>2. SubSeq(q, 1, i - 1) \in Seq(S) /\ SubSeq(q, i + 1, Len(q)) \in Seq(S)
  BY <1>1, SubSeqProperties
<1> QED
  BY <1>2, ConcatProperties DEF RemoveAt

PlainType ==
  /\ process \in {"alive", "dead"}
  /\ lollipop \in BOOLEAN /\ adapter \in BOOLEAN
  /\ isStarted \in BOOLEAN /\ shouldStartSampling \in BOOLEAN
  /\ scanning \in BOOLEAN
  /\ uiAt \in {"idle", "clearing", "stopping", "sampling"}
HeardType ==
  /\ fingerprints \in SUBSET DOMAIN heardIn
  /\ heardIn \in Seq(0..MaxRounds) /\ Len(heardIn) <= MaxAds
RoundType == round \in 0..MaxRounds
ListenersType == listeners \in Seq(Listeners)
ScanType == scan \in [Threads -> ScanThreads]
LateType == late \in [Threads -> 0..2]

LEMMA TypeParts ==
  TypeOK <=> PlainType /\ HeardType /\ RoundType /\ ListenersType /\ ScanType
               /\ LateType
BY DEF TypeOK, PlainType, HeardType, RoundType, ListenersType, ScanType, LateType

LEMMA PlainStep ==
  ASSUME PlainType, Next
  PROVE  PlainType'
<1>1. ASSUME NEW l \in Listeners, AddListener(l) \/ RemoveListener(l)
      PROVE  PlainType'
  BY <1>1 DEF AddListener, RemoveListener, PlainType, device, switches, radio
<1>2. ASSUME NEW th \in Threads, TurnOn(th)  PROVE PlainType'
  BY <1>2 DEF TurnOn, PlainType
<1>3. CASE TurnOnFails \/ TurnOff \/ StartSampling \/ StopSampling
  BY <1>3 DEF TurnOnFails, TurnOff, StartSampling, StopSampling, PlainType,
              device, switches, radio
<1>4. CASE TurnOnThrows \/ TurnOffThrows \/ StartSamplingThrows
  BY <1>4 DEF TurnOnThrows, TurnOffThrows, StartSamplingThrows, Dies, PlainType,
              switches, radio
<1>5. CASE TurnOffClears \/ TurnOffEnds \/ StartSamplingEnds \/ OnScanResult
  BY <1>5 DEF TurnOffClears, TurnOffEnds, StartSamplingEnds, OnScanResult,
              PlainType, device, switches, radio
<1>6. ASSUME NEW th \in Threads, Outer(th) \/ Inner(th) \/ WindowEnds(th)
        \/ CopyFingerprints(th) \/ FireNext(th) \/ FireEnds(th)
      PROVE  PlainType'
  BY <1>6 DEF Outer, Inner, WindowEnds, CopyFingerprints, FireNext, FireEnds,
              PlainType, device, switches, radio
<1>7. ASSUME NEW th \in Threads, OpenScan(th) \/ FireThrows(th) \/ CloseScan(th)
        \/ ScannerThrows(th)
      PROVE  PlainType'
  BY <1>7 DEF OpenScan, FireThrows, CloseScan, ScannerThrows, Dies, PlainType,
              device, switches, radio
<1> QED
  BY <1>1, <1>2, <1>3, <1>4, <1>5, <1>6, <1>7
     DEF Next, UICall, UIContinues, ScanStep

\* Only the stack adds to what was heard; the others may only clear it.
LEMMA HeardSummary ==
  ASSUME Next
  PROVE  \/ OnScanResult
         \/ UNCHANGED heardIn /\ (UNCHANGED fingerprints \/ fingerprints' = {})
<1>1. ASSUME NEW l \in Listeners, AddListener(l) \/ RemoveListener(l)
      PROVE  UNCHANGED <<heardIn, fingerprints>>
  BY <1>1 DEF AddListener, RemoveListener, radio
<1>2. ASSUME NEW th \in Threads, TurnOn(th) \/ CopyFingerprints(th)
      PROVE  UNCHANGED heardIn /\ fingerprints' = {}
  BY <1>2 DEF TurnOn, CopyFingerprints
<1>3. CASE StartSampling
  BY <1>3 DEF StartSampling
<1>4. CASE TurnOnFails \/ TurnOff \/ StopSampling \/ TurnOnThrows
        \/ TurnOffThrows \/ StartSamplingThrows \/ TurnOffClears
        \/ TurnOffEnds \/ StartSamplingEnds
  BY <1>4 DEF TurnOnFails, TurnOff, StopSampling, TurnOnThrows, TurnOffThrows,
              StartSamplingThrows, TurnOffClears, TurnOffEnds,
              StartSamplingEnds, Dies, radio
<1>5. ASSUME NEW th \in Threads, Outer(th) \/ Inner(th) \/ OpenScan(th)
        \/ WindowEnds(th) \/ FireNext(th) \/ FireEnds(th) \/ FireThrows(th)
        \/ CloseScan(th) \/ ScannerThrows(th)
      PROVE  UNCHANGED <<heardIn, fingerprints>>
  BY <1>5 DEF Outer, Inner, OpenScan, WindowEnds, FireNext, FireEnds,
              FireThrows, CloseScan, ScannerThrows, Dies, radio
<1> QED
  BY <1>1, <1>2, <1>3, <1>4, <1>5 DEF Next, UICall, UIContinues, ScanStep

LEMMA HeardStep ==
  ASSUME HeardType, RoundType, Next
  PROVE  HeardType'
<1> USE BleCollectorAssumption
<1>1. CASE OnScanResult
  <2>1. /\ heardIn' = Append(heardIn, round) /\ Len(heardIn) \in Nat
        /\ DOMAIN heardIn = 1..Len(heardIn) /\ Len(heardIn) < MaxAds
        /\ fingerprints' = fingerprints \cup {Len(heardIn) + 1}
    BY <1>1, LenProperties DEF OnScanResult, HeardType
  <2>2. heardIn' \in Seq(0..MaxRounds) /\ Len(heardIn') = Len(heardIn) + 1
    BY <2>1, AppendProperties DEF HeardType, RoundType
  <2>3. DOMAIN heardIn' = 1..Len(heardIn')
    BY <2>2, LenProperties
  <2> QED
    BY <2>1, <2>2, <2>3 DEF HeardType
<1>2. CASE UNCHANGED heardIn /\ (UNCHANGED fingerprints \/ fingerprints' = {})
  BY <1>2 DEF HeardType
<1> QED
  BY <1>1, <1>2, HeardSummary

LEMMA RoundStep ==
  ASSUME RoundType, Next
  PROVE  RoundType'
<1>1. CASE StartSampling
  BY <1>1, BleCollectorAssumption DEF StartSampling, RoundType
<1>2. CASE UNCHANGED round
  BY <1>2 DEF RoundType
<1> QED
  BY <1>1, <1>2
     DEF Next, UICall, UIContinues, ScanStep, AddListener, RemoveListener,
         TurnOn, TurnOnFails, TurnOnThrows, TurnOff, TurnOffThrows, Dies,
         StartSamplingThrows, StopSampling, TurnOffClears, TurnOffEnds,
         StartSamplingEnds, OnScanResult, Outer, Inner, OpenScan, WindowEnds,
         CopyFingerprints, FireNext, FireEnds, FireThrows, CloseScan, ScannerThrows, history

\* What a step does to the listeners and, with them, to the iterators.
LEMMA ListenersSummary ==
  ASSUME ListenersType, Next
  PROVE  \/ \E ls \in Seq(Listeners) : ChangeListeners(ls)
         \/ UNCHANGED listeners
<1>1. ASSUME NEW l \in Listeners, AddListener(l)
      PROVE  \E ls \in Seq(Listeners) : ChangeListeners(ls)
  BY <1>1, AppendProperties DEF AddListener, ListenersType
<1>2. ASSUME NEW l \in Listeners, RemoveListener(l)
      PROVE  \E ls \in Seq(Listeners) : ChangeListeners(ls)
  BY <1>2, RemoveKeepsSeq DEF RemoveListener, ListenersType
<1>3. CASE TurnOffClears
  <2>1. <<>> \in Seq(Listeners)
    OBVIOUS
  <2> QED
    BY <1>3, <2>1 DEF TurnOffClears
<1> QED
  BY <1>1, <1>2, <1>3
     DEF Next, UICall, UIContinues, ScanStep,
         TurnOn, TurnOnFails, TurnOnThrows, TurnOff, TurnOffThrows, Dies,
         StartSampling, StartSamplingThrows, StopSampling, TurnOffEnds,
         StartSamplingEnds, OnScanResult, Outer, Inner, OpenScan, WindowEnds,
         CopyFingerprints, FireNext, FireEnds, FireThrows, CloseScan,
         ScannerThrows

\* What a step does to the scan threads.
ScanChanges ==
  \/ \E ls \in Seq(Listeners) : ChangeListeners(ls)
  \/ \E th \in Threads : TurnOn(th) \/ ScanStep(th)
  \/ UNCHANGED scan

LEMMA ScanSummary ==
  ASSUME ListenersType, Next
  PROVE  ScanChanges
<1>1. ASSUME NEW l \in Listeners, AddListener(l) \/ RemoveListener(l)
      PROVE  ScanChanges
  BY <1>1, AppendProperties, RemoveKeepsSeq
     DEF AddListener, RemoveListener, ListenersType, ScanChanges
<1>2. CASE TurnOffClears
  <2>1. <<>> \in Seq(Listeners)
    OBVIOUS
  <2> QED
    BY <1>2, <2>1 DEF TurnOffClears, ScanChanges
<1>3. CASE TurnOnFails \/ TurnOnThrows \/ TurnOff \/ TurnOffThrows
             \/ StartSampling \/ StartSamplingThrows \/ StopSampling
             \/ TurnOffEnds \/ StartSamplingEnds \/ OnScanResult
  <2>1. UNCHANGED scan
    BY <1>3 DEF TurnOnFails, TurnOnThrows, TurnOff, TurnOffThrows, Dies,
                StartSampling, StartSamplingThrows, StopSampling, TurnOffEnds,
                StartSamplingEnds, OnScanResult
  <2> QED
    BY <2>1 DEF ScanChanges
<1>4. ASSUME NEW th \in Threads, TurnOn(th) \/ ScanStep(th)
      PROVE  ScanChanges
  BY <1>4 DEF ScanChanges
<1> QED
  BY <1>1, <1>2, <1>3, <1>4 DEF Next, UICall, UIContinues

LEMMA NoThreadType == NoThread \in ScanThreads
<1>1. {} \in SUBSET Ads /\ 1 \in Nat \ {0} /\ 0 \in Nat
  OBVIOUS
<1> QED
  BY <1>1, Zenon DEF ScanThreads, ThreadPlaces, NoThread

LEMMA ScanThreadTypes ==
  ASSUME NEW r \in ScanThreads, NEW p \in ThreadPlaces, NEW b \in BOOLEAN
  PROVE  /\ [r EXCEPT !.at = p] \in ScanThreads
         /\ [r EXCEPT !.early = b] \in ScanThreads
         /\ [r EXCEPT !.changed = b] \in ScanThreads
         /\ [r EXCEPT !.next = @ + 1] \in ScanThreads
<1>1. [r EXCEPT !.at = p] \in ScanThreads
  BY Zenon DEF ScanThreads
<1>2. [r EXCEPT !.early = b] \in ScanThreads
  BY Zenon DEF ScanThreads
<1>3. [r EXCEPT !.changed = b] \in ScanThreads
  BY Zenon DEF ScanThreads
<1>4. [r EXCEPT !.next = @ + 1] \in ScanThreads
  <2>1. r.next + 1 \in Nat \ {0}
    BY DEF ScanThreads
  <2> QED
    BY <2>1, Zenon DEF ScanThreads
<1> QED
  BY <1>1, <1>2, <1>3, <1>4

LEMMA BatchType ==
  ASSUME NEW r \in ScanThreads, NEW batch \in SUBSET Ads, NEW size \in Nat
  PROVE  [r EXCEPT !.at = "fire", !.batch = batch, !.next = 1, !.size = size,
                   !.changed = FALSE] \in ScanThreads
<1> "fire" \in ThreadPlaces /\ 1 \in Nat \ {0}
  BY DEF ThreadPlaces
<1> QED
  BY Zenon DEF ScanThreads

LEMMA ScanTypeStep ==
  ASSUME PlainType, HeardType, ListenersType, ScanType, Next
  PROVE  ScanType'
<1>1. ASSUME NEW ls \in Seq(Listeners), ChangeListeners(ls)
      PROVE  ScanType'
  BY <1>1, ScanThreadTypes DEF ChangeListeners, ScanType, ThreadPlaces
<1>2. ASSUME NEW th \in Threads, NEW r \in ScanThreads,
             scan' = [scan EXCEPT ![th] = r]
      PROVE  ScanType'
  BY <1>2 DEF ScanType
<1>3. ASSUME NEW th \in Threads, TurnOn(th)  PROVE ScanType'
  <2>1. [NoThread EXCEPT !.at = "outer"] \in ScanThreads
    BY NoThreadType, ScanThreadTypes DEF ThreadPlaces
  <2> QED
    BY <1>2, <1>3, <2>1 DEF TurnOn
<1>4. ASSUME NEW th \in Threads, ScanStep(th)  PROVE ScanType'
  <2> DEFINE r == scan[th]
  <2>1. r \in ScanThreads /\ NoThread \in ScanThreads
    BY NoThreadType DEF ScanType
  <2>2. CASE Outer(th)
    BY <1>2, <2>1, <2>2, ScanThreadTypes DEF Outer, ThreadPlaces
  <2>3. CASE Inner(th) \/ OpenScan(th) \/ CloseScan(th)
    <3>1. PICK p \in ThreadPlaces : scan' = [scan EXCEPT ![th].at = p]
      BY <2>3 DEF Inner, OpenScan, CloseScan, Goes, ThreadPlaces
    <3> QED
      BY <1>2, <2>1, <3>1, ScanThreadTypes
  <2>4. CASE WindowEnds(th)
    <3>1. (~shouldStartSampling) \in BOOLEAN
      BY DEF PlainType
    <3>2. [[r EXCEPT !.at = "copy"] EXCEPT !.early = ~shouldStartSampling]
            \in ScanThreads
      BY <2>1, <3>1, ScanThreadTypes DEF ThreadPlaces
    <3>3. scan' = [scan EXCEPT ![th] =
            [[r EXCEPT !.at = "copy"] EXCEPT !.early = ~shouldStartSampling]]
      BY <2>4 DEF WindowEnds, ScanType
    <3> QED
      BY <1>2, <3>2, <3>3
  <2>5. CASE CopyFingerprints(th)
    <3>1. fingerprints \in SUBSET Ads /\ Len(listeners) \in Nat
      BY LenProperties, BleCollectorAssumption
         DEF HeardType, ListenersType, Ads
    <3>2. scan' = [scan EXCEPT ![th] =
            [r EXCEPT !.at = "fire", !.batch = fingerprints, !.next = 1,
                      !.size = Len(listeners), !.changed = FALSE]]
      BY <2>5 DEF CopyFingerprints
    <3>3. [r EXCEPT !.at = "fire", !.batch = fingerprints, !.next = 1,
             !.size = Len(listeners), !.changed = FALSE] \in ScanThreads
      BY <2>1, <3>1, BatchType
    <3> QED
      BY <1>2, <3>2, <3>3
  <2>6. CASE FireNext(th)
    <3>1. [r EXCEPT !.next = @ + 1] \in ScanThreads
      BY <2>1, ScanThreadTypes DEF ThreadPlaces
    <3> QED
      BY <1>2, <2>6, <3>1 DEF FireNext
  <2>7. CASE FireEnds(th)
    <3>1. PICK p \in ThreadPlaces :
            scan' = [scan EXCEPT ![th] = [NoThread EXCEPT !.at = p]]
      BY <2>7 DEF FireEnds, ThreadPlaces
    <3> QED
      BY <1>2, <2>1, <3>1, ScanThreadTypes
  <2>8. CASE FireThrows(th) \/ ScannerThrows(th)
    BY <2>8 DEF FireThrows, ScannerThrows, Dies, ScanType
  <2> QED
    BY <1>4, <2>2, <2>3, <2>4, <2>5, <2>6, <2>7, <2>8 DEF ScanStep
<1> QED
  BY <1>1, <1>3, <1>4, ScanSummary DEF ScanChanges, ScanType
-----------------------------------------------------------------------------
(* What a step makes of one scan thread: nothing, a mark that the list was *)
(* changed, a new thread, no thread, another place, or a new batch.        *)
Stays(t) == scan'[t] = scan[t]
IsMarked(t) == scan[t].at = "fire"
                 /\ scan'[t] = [scan[t] EXCEPT !.changed = TRUE]
IsCreated(t) == ~Running(t) /\ scan'[t] = [NoThread EXCEPT !.at = "outer"]
IsEnded(t) == scan[t].at = "outer" /\ scan'[t] = NoThread
IsMoved(t, p) == /\ scan[t].at # "none" /\ p # "none"
                 /\ p = "fire" <=> scan[t].at = "fire"
                 /\ p \in InWindow => scan[t].at \in InWindow
                                       \/ shouldStartSampling
                 /\ \E b \in BOOLEAN : scan'[t] = [scan[t] EXCEPT !.at = p,
                                                                 !.early = b]
IsServed(t) == scan[t].at = "fire" /\ scan'[t] = [scan[t] EXCEPT !.next = @ + 1]
HasFired(t) == /\ scan[t].at = "fire"
               /\ \E p \in {"close", "inner"} :
                    scan'[t] = [NoThread EXCEPT !.at = p]
HasTaken(t) == /\ scan[t].at = "copy"
               /\ scan'[t] = [scan[t] EXCEPT !.at = "fire",
                    !.batch = fingerprints, !.next = 1,
                    !.size = Len(listeners), !.changed = FALSE]

Shape(t) ==
  \/ Stays(t) \/ IsMarked(t) \/ IsCreated(t) \/ IsEnded(t) \/ IsServed(t)
  \/ HasFired(t) \/ (\E p \in ThreadPlaces : IsMoved(t, p))

LEMMA SameEarly ==
  ASSUME NEW r \in ScanThreads, NEW p \in ThreadPlaces
  PROVE  [r EXCEPT !.at = p] = [r EXCEPT !.at = p, !.early = r.early]
BY DEF ScanThreads

LEMMA ScanStepShape ==
  ASSUME PlainType, ScanType, NEW th \in Threads, ScanStep(th)
  PROVE  /\ \A t \in Threads \ {th} : Stays(t)
         /\ Shape(th) \/ (CopyFingerprints(th) /\ HasTaken(th))
<1> DEFINE r == scan[th]
<1>1. r \in ScanThreads /\ r.early \in BOOLEAN
  BY DEF ScanType, ScanThreads
<1>2. ASSUME NEW q, scan' = [scan EXCEPT ![th] = q]
      PROVE  (\A t \in Threads \ {th} : Stays(t)) /\ scan'[th] = q
  BY <1>2 DEF ScanType, Stays
<1>3. CASE Outer(th)
  <2>1. PICK q : /\ q = (IF isStarted THEN [r EXCEPT !.at = "inner"] ELSE NoThread)
                 /\ scan' = [scan EXCEPT ![th] = q]
    BY <1>3 DEF Outer, WhileStarted
  <2>2. scan'[th] = q /\ \A t \in Threads \ {th} : Stays(t)
    BY <1>2, <2>1
  <2>3. CASE isStarted
    <3>1. q = [r EXCEPT !.at = "inner", !.early = r.early]
      BY <1>1, <2>1, <2>3, SameEarly DEF ThreadPlaces
    <3>2. IsMoved(th, "inner")
      BY <1>1, <1>3, <2>2, <3>1 DEF Outer, IsMoved, InWindow
    <3> QED
      BY <2>2, <3>2 DEF Shape, ThreadPlaces
  <2>4. CASE ~isStarted
    BY <1>3, <2>1, <2>2, <2>4 DEF Outer, Shape, IsEnded
  <2> QED
    BY <2>3, <2>4
<1>4. CASE Inner(th) \/ OpenScan(th) \/ CloseScan(th)
  <2>1. PICK p \in ThreadPlaces \ {"none", "fire"} :
          /\ r.at \in {"inner", "open", "close"}
          /\ p \in InWindow => r.at \in InWindow \/ shouldStartSampling
          /\ scan' = [scan EXCEPT ![th].at = p]
    BY <1>4 DEF Inner, OpenScan, CloseScan, Goes, ThreadPlaces, InWindow,
                WhileSampling
  <2>2. /\ scan'[th] = [r EXCEPT !.at = p]
        /\ \A t \in Threads \ {th} : Stays(t)
    BY <1>2, <2>1
  <2>3. IsMoved(th, p)
    BY <1>1, <2>1, <2>2, SameEarly DEF IsMoved
  <2> QED
    BY <2>1, <2>2, <2>3 DEF Shape
<1>5. CASE WindowEnds(th)
  <2>1. /\ r.at = "window"
        /\ scan' = [scan EXCEPT ![th] =
             [r EXCEPT !.at = "copy", !.early = ~shouldStartSampling]]
    BY <1>5 DEF WindowEnds, ScanType
  <2>2. /\ scan'[th] = [r EXCEPT !.at = "copy", !.early = ~shouldStartSampling]
        /\ \A t \in Threads \ {th} : Stays(t)
    BY <1>2, <2>1
  <2>3. (~shouldStartSampling) \in BOOLEAN
    BY DEF PlainType
  <2>4. IsMoved(th, "copy")
    BY <2>1, <2>2, <2>3 DEF IsMoved, InWindow
  <2> QED
    BY <2>2, <2>4 DEF Shape, ThreadPlaces
<1>6. CASE CopyFingerprints(th)
  <2>1. scan' = [scan EXCEPT ![th] = [r EXCEPT !.at = "fire",
                   !.batch = fingerprints, !.next = 1,
                   !.size = Len(listeners), !.changed = FALSE]]
    BY <1>6 DEF CopyFingerprints
  <2> QED
    BY <1>2, <1>6, <2>1 DEF HasTaken, CopyFingerprints
<1>7. CASE FireNext(th)
  <2>1. r.at = "fire" /\ scan' = [scan EXCEPT ![th] = [r EXCEPT !.next = @ + 1]]
    BY <1>7 DEF FireNext
  <2> QED
    BY <1>2, <2>1 DEF Shape, IsServed
<1>8. CASE FireEnds(th)
  <2>1. PICK p \in {"close", "inner"} :
          r.at = "fire" /\ scan' = [scan EXCEPT ![th] = [NoThread EXCEPT !.at = p]]
    BY <1>8 DEF FireEnds
  <2> QED
    BY <1>2, <2>1 DEF Shape, HasFired
<1>9. CASE FireThrows(th) \/ ScannerThrows(th)
  BY <1>9 DEF FireThrows, ScannerThrows, Dies, Shape, Stays
<1> QED
  BY <1>3, <1>4, <1>5, <1>6, <1>7, <1>8, <1>9 DEF ScanStep

LEMMA StepShape ==
  ASSUME PlainType, ListenersType, ScanType, Next
  PROVE  \/ \A t \in Threads : Shape(t)
         \/ \E th \in Threads :
              /\ CopyFingerprints(th) /\ HasTaken(th)
              /\ \A t \in Threads \ {th} : Stays(t)
<1>1. ASSUME NEW ls \in Seq(Listeners), ChangeListeners(ls)
      PROVE  \A t \in Threads : Shape(t)
  BY <1>1 DEF ChangeListeners, Shape, Stays, IsMarked
<1>2. ASSUME NEW th \in Threads, TurnOn(th)
      PROVE  \A t \in Threads : Shape(t)
  <2>1. \A t \in Threads \ {th} : Stays(t)
    BY <1>2 DEF TurnOn, Stays, ScanType
  <2>2. IsCreated(th)
    BY <1>2 DEF TurnOn, IsCreated, ScanType
  <2> QED
    BY <2>1, <2>2 DEF Shape
<1>3. CASE UNCHANGED scan
  BY <1>3 DEF Shape, Stays
<1>4. ASSUME NEW th \in Threads, ScanStep(th), Shape(th)
      PROVE  \A t \in Threads : Shape(t)
  BY <1>4, ScanStepShape DEF Shape
<1> QED
  BY <1>1, <1>2, <1>3, <1>4, ScanSummary, ScanStepShape DEF ScanChanges
-----------------------------------------------------------------------------
(* No thread's batch but the one of the thread that copies changes, other  *)
(* than to nothing; and the places follow the loops.                       *)
LEMMA ShapeKeeps ==
  ASSUME ScanType, NEW t \in Threads, Shape(t)
  PROVE  /\ scan'[t].batch \in {scan[t].batch, {}}
         /\ scan'[t].at \in InWindow
              => scan[t].at \in InWindow \/ shouldStartSampling
         /\ (scan[t].at # "none" \/ scan[t] = NoThread)
              => (scan'[t].at # "none" \/ scan'[t] = NoThread)
<1>1. scan[t] \in ScanThreads
  BY DEF ScanType
<1>2. CASE Stays(t)
  BY <1>2 DEF Stays
<1>3. CASE IsMarked(t) \/ IsServed(t)
  BY <1>1, <1>3 DEF IsMarked, IsServed, ScanThreads
<1>4. CASE IsCreated(t) \/ IsEnded(t) \/ HasFired(t)
  BY <1>4 DEF IsCreated, IsEnded, HasFired, NoThread, InWindow
<1>5. ASSUME NEW p \in ThreadPlaces, IsMoved(t, p)
      PROVE  /\ scan'[t].batch = scan[t].batch /\ scan'[t].at = p
             /\ p # "none"
             /\ p \in InWindow => scan[t].at \in InWindow
                                   \/ shouldStartSampling
  BY <1>1, <1>5 DEF IsMoved, ScanThreads
<1> QED
  BY <1>2, <1>3, <1>4, <1>5 DEF Shape

LEMMA TakenKeeps ==
  ASSUME ScanType, NEW t \in Threads, HasTaken(t)
  PROVE  /\ scan'[t].batch = fingerprints
         /\ scan'[t].at = "fire" /\ scan[t].at = "copy"
<1>1. scan[t] \in ScanThreads
  BY DEF ScanType
<1> QED
  BY <1>1 DEF HasTaken, ScanThreads

LEMMA EndedStep ==
  ASSUME PlainType, ListenersType, ScanType, EndedIsNoThread, Next
  PROVE  EndedIsNoThread'
<1>1. ASSUME NEW t \in Threads, Shape(t)
      PROVE  scan'[t].at # "none" \/ scan'[t] = NoThread
  BY <1>1, ShapeKeeps DEF EndedIsNoThread, Running
<1>2. ASSUME NEW t \in Threads, HasTaken(t)
      PROVE  scan'[t].at # "none"
  BY <1>2, TakenKeeps
<1>3. \A t \in Threads : Stays(t) => Shape(t)
  BY DEF Shape
<1>4. \A t \in Threads : Shape(t) \/ HasTaken(t)
  BY <1>3, StepShape
<1> QED
  BY <1>1, <1>2, <1>4 DEF EndedIsNoThread, Running
-----------------------------------------------------------------------------
(* What was heard, and who has it.                                         *)

LEMMA FingerprintsOfRound ==
  ASSUME HeardType, RoundType, OfThisRound, Next
  PROVE  OfThisRound'
<1>1. CASE OnScanResult
  <2>1. /\ heardIn' = Append(heardIn, round) /\ Len(heardIn) \in Nat
        /\ DOMAIN heardIn = 1..Len(heardIn) /\ UNCHANGED round
        /\ fingerprints' = fingerprints \cup {Len(heardIn) + 1}
    BY <1>1, LenProperties DEF OnScanResult, HeardType, history
  <2>2. heardIn'[Len(heardIn) + 1] = round
    BY <2>1, AppendProperties DEF HeardType, RoundType
  <2>3. \A a \in DOMAIN heardIn : heardIn'[a] = heardIn[a]
    BY <2>1, AppendProperties DEF HeardType, RoundType
  <2> QED
    BY <2>1, <2>2, <2>3 DEF OfThisRound, HeardType
<1>2. CASE fingerprints' = {}
  BY <1>2 DEF OfThisRound
<1>3. CASE UNCHANGED <<heardIn, fingerprints>>
  <2>1. CASE StartSampling
    BY <2>1 DEF StartSampling, OfThisRound
  <2>2. CASE UNCHANGED round
    BY <1>3, <2>2 DEF OfThisRound
  <2>3. StartSampling \/ UNCHANGED round
    BY DEF Next, UICall, UIContinues, ScanStep, AddListener, RemoveListener,
         TurnOn, TurnOnFails, TurnOnThrows, TurnOff, TurnOffThrows, Dies,
         StartSamplingThrows, StopSampling, TurnOffClears, TurnOffEnds,
         StartSamplingEnds, OnScanResult, Outer, Inner, OpenScan, WindowEnds,
         CopyFingerprints, FireNext, FireEnds, FireThrows, CloseScan, ScannerThrows, history
  <2> QED
    BY <2>1, <2>2, <2>3
<1> QED
  BY <1>1, <1>2, <1>3, HeardSummary

\* Hearing adds one number that nobody has, and keeps the rounds of the rest.
LEMMA HeardGrows ==
  ASSUME HeardType, RoundType, BatchHeard, Next
  PROVE  /\ DOMAIN heardIn \subseteq DOMAIN heardIn'
         /\ \A a \in DOMAIN heardIn : heardIn'[a] = heardIn[a]
         /\ \A a \in fingerprints' : a \in fingerprints \/ a \notin DOMAIN heardIn
<1>1. CASE OnScanResult
  <2>1. /\ heardIn' = Append(heardIn, round) /\ Len(heardIn) \in Nat
        /\ DOMAIN heardIn = 1..Len(heardIn)
        /\ fingerprints' = fingerprints \cup {Len(heardIn) + 1}
    BY <1>1, LenProperties DEF OnScanResult, HeardType
  <2>2. DOMAIN heardIn' = 1..(Len(heardIn) + 1)
    BY <2>1, AppendProperties, LenProperties DEF HeardType, RoundType
  <2>3. \A a \in DOMAIN heardIn : heardIn'[a] = heardIn[a]
    BY <2>1, AppendProperties DEF HeardType, RoundType
  <2> QED
    BY <2>1, <2>2, <2>3
<1>2. CASE UNCHANGED heardIn /\ (UNCHANGED fingerprints \/ fingerprints' = {})
  BY <1>2
<1> QED
  BY <1>1, <1>2, HeardSummary

\* A thread's batch after the step: its own or nothing, unless it copies.
BatchKept(t) == scan'[t].batch \in {scan[t].batch, {}}

LEMMA BatchSummary ==
  ASSUME PlainType, ListenersType, ScanType, Next
  PROVE  \/ \A t \in Threads : BatchKept(t)
         \/ \E th \in Threads :
              /\ scan'[th].batch = fingerprints /\ fingerprints' = {}
              /\ UNCHANGED heardIn
              /\ \A t \in Threads \ {th} : BatchKept(t)
<1>1. CASE \A t \in Threads : Shape(t)
  BY <1>1, ShapeKeeps DEF BatchKept
<1>2. ASSUME NEW th \in Threads, CopyFingerprints(th), HasTaken(th),
             \A t \in Threads \ {th} : Stays(t)
      PROVE  /\ scan'[th].batch = fingerprints /\ fingerprints' = {}
             /\ UNCHANGED heardIn
             /\ \A t \in Threads \ {th} : BatchKept(t)
  BY <1>2, TakenKeeps DEF CopyFingerprints, BatchKept, Stays
<1> QED
  BY <1>1, <1>2, StepShape

LEMMA HeardInv ==
  ASSUME TypeOK, Heard, Next
  PROVE  Heard'
<1> USE DEF Heard
<1>1. /\ PlainType /\ HeardType /\ RoundType /\ ListenersType /\ ScanType
      /\ OfThisRound /\ BatchHeard /\ AdvertTakenOnce /\ BatchOfOneRound
  BY TypeParts
<1>2. OfThisRound'
  BY <1>1, FingerprintsOfRound
<1>3. /\ DOMAIN heardIn \subseteq DOMAIN heardIn'
      /\ \A a \in DOMAIN heardIn : heardIn'[a] = heardIn[a]
      /\ \A a \in fingerprints' : a \in fingerprints \/ a \notin DOMAIN heardIn
  BY <1>1, HeardGrows
<1>4. CASE \A t \in Threads : BatchKept(t)
  <2>1. \A t \in Threads : scan'[t].batch \subseteq scan[t].batch
    BY <1>4 DEF BatchKept
  <2>2. BatchHeard'
    BY <1>1, <1>3, <2>1 DEF BatchHeard
  <2>3. AdvertTakenOnce'
    BY <1>1, <1>3, <2>1 DEF AdvertTakenOnce, BatchHeard
  <2>4. BatchOfOneRound'
    BY <1>1, <1>3, <2>1 DEF BatchOfOneRound, BatchHeard
  <2> QED
    BY <1>2, <2>2, <2>3, <2>4
<1>5. ASSUME NEW th \in Threads,
             scan'[th].batch = fingerprints, fingerprints' = {},
             UNCHANGED heardIn,
             \A t \in Threads \ {th} : BatchKept(t)
      PROVE  Heard'
  <2>1. \A t \in Threads \ {th} : scan'[t].batch \subseteq scan[t].batch
    BY <1>5 DEF BatchKept
  <2>2. BatchHeard'
    BY <1>1, <1>5, <2>1 DEF BatchHeard, HeardType
  <2>3. AdvertTakenOnce'
    BY <1>1, <1>5, <2>1 DEF AdvertTakenOnce
  <2>4. BatchOfOneRound'
    <3>1. \A a, b \in fingerprints : heardIn'[a] = heardIn'[b]
      BY <1>1, <1>5 DEF OfThisRound
    <3>2. \A t \in Threads \ {th} : \A a, b \in scan'[t].batch :
            heardIn'[a] = heardIn'[b]
      BY <1>1, <1>5, <2>1 DEF BatchOfOneRound
    <3> QED
      BY <1>5, <3>1, <3>2 DEF BatchOfOneRound
  <2> QED
    BY <1>2, <2>2, <2>3, <2>4
<1> QED
  BY <1>1, <1>4, <1>5, BatchSummary
-----------------------------------------------------------------------------
(* What is fired after sampling was stopped.                               *)

LEMMA PlaceStep ==
  ASSUME PlainType, ListenersType, ScanType, Next, NEW t \in Threads
  PROVE  scan'[t].at \in InWindow => scan[t].at \in InWindow
                                       \/ shouldStartSampling
<1>1. HasTaken(t) => scan[t].at \in InWindow
  BY DEF HasTaken, InWindow
<1>2. Shape(t) \/ HasTaken(t)
  BY StepShape DEF Shape
<1> QED
  BY <1>1, <1>2, ShapeKeeps

LEMMA LateSummary ==
  ASSUME Next
  PROVE  \/ UNCHANGED late /\ (shouldStartSampling' => shouldStartSampling)
         \/ late' = [th \in Threads |-> 0]
         \/ \E th \in Threads : FireEnds(th)
<1>1. CASE StartSamplingEnds
  BY <1>1 DEF StartSamplingEnds
<1>2. CASE StopSampling
  BY <1>2 DEF StopSampling, history
<1> QED
  BY <1>1, <1>2
     DEF Next, UICall, UIContinues, ScanStep, AddListener, RemoveListener,
         TurnOn, TurnOnFails, TurnOnThrows, TurnOff, TurnOffThrows, Dies,
         StartSampling, StartSamplingThrows, TurnOffClears, TurnOffEnds,
         OnScanResult, Outer, Inner, OpenScan, WindowEnds, CopyFingerprints,
         FireNext, FireThrows, CloseScan, ScannerThrows, history, switches

LEMMA FireEndsLate ==
  ASSUME LateType, LateInv, ScanType, NEW th \in Threads, FireEnds(th)
  PROVE  LateType' /\ LateInv'
<1>1. late[th] = 0
  BY DEF FireEnds, LateInv, LateType, InWindow
<1>2. UNCHANGED shouldStartSampling
  BY DEF FireEnds, switches
<1>3. /\ \A t \in Threads \ {th} : scan'[t] = scan[t]
      /\ scan'[th].at \in {"close", "inner"}
  BY DEF FireEnds, ScanType, NoThread
<1>4. CASE shouldStartSampling
  <2>1. UNCHANGED late
    BY <1>4 DEF FireEnds
  <2> QED
    BY <1>1, <1>2, <1>3, <2>1 DEF LateInv, LateType
<1>5. CASE ~shouldStartSampling
  <2>1. late' = [late EXCEPT ![th] = 1]
    BY <1>1, <1>5 DEF FireEnds
  <2> QED
    BY <1>2, <1>3, <1>5, <2>1 DEF LateInv, LateType, InWindow
<1> QED
  BY <1>4, <1>5

LEMMA LateStep ==
  ASSUME TypeOK, LateInv, Next
  PROVE  LateType' /\ LateInv'
<1>1. PlainType /\ ListenersType /\ ScanType /\ LateType
  BY TypeParts
<1>2. CASE UNCHANGED late /\ (shouldStartSampling' => shouldStartSampling)
  <2>1. ASSUME NEW t \in Threads, late[t] > 0
        PROVE  late[t] = 1 /\ scan'[t].at \notin InWindow
                 /\ ~shouldStartSampling
    BY <1>1, <2>1, PlaceStep DEF LateInv, LateType
  <2>2. \A t \in Threads : late[t] \in Nat
    BY <1>1 DEF LateType
  <2> QED
    BY <1>1, <1>2, <2>1, <2>2 DEF LateInv, LateType
<1>3. CASE late' = [th \in Threads |-> 0]
  BY <1>3 DEF LateInv, LateType
<1>4. CASE \E th \in Threads : FireEnds(th)
  BY <1>1, <1>4, FireEndsLate
<1> QED
  BY <1>2, <1>3, <1>4, LateSummary
-----------------------------------------------------------------------------
LEMMA InitInv == Init => IInv
<1> SUFFICES ASSUME Init PROVE IInv
  OBVIOUS
<1> USE BleCollectorAssumption DEF Init
<1>1. PlainType /\ RoundType /\ LateType
  <2>1. PlainType
    BY Zenon DEF PlainType
  <2>2. RoundType /\ LateType
    BY DEF RoundType, LateType
  <2> QED
    BY <2>1, <2>2
<1>2. HeardType /\ ListenersType
  BY DEF HeardType, ListenersType
<1>3. ScanType
  BY NoThreadType DEF ScanType
<1>4. \A th \in Threads : scan[th].batch = {} /\ scan[th].at = "none"
  BY DEF NoThread
<1>5. Heard
  BY <1>4 DEF Heard, OfThisRound, BatchHeard, AdvertTakenOnce, BatchOfOneRound
<1>6. LateInv /\ EndedIsNoThread
  BY DEF LateInv, EndedIsNoThread
<1> QED
  BY <1>1, <1>2, <1>3, <1>5, <1>6, TypeParts DEF IInv

LEMMA StepInv ==
  ASSUME IInv, [Next]_vars
  PROVE  IInv'
<1>1. CASE Next
  <2>1. PlainType /\ HeardType /\ RoundType /\ ListenersType /\ ScanType
    BY TypeParts DEF IInv
  <2>2. LateType' /\ LateInv'
    BY <1>1, LateStep DEF IInv
  <2>3. ListenersType'
    BY <1>1, <2>1, ListenersSummary DEF ChangeListeners, ListenersType
  <2>4. PlainType' /\ HeardType' /\ RoundType' /\ ScanType'
    BY <1>1, <2>1, PlainStep, HeardStep, RoundStep, ScanTypeStep
  <2>5. TypeOK'
    BY <2>2, <2>3, <2>4
       DEF TypeOK, PlainType, HeardType, RoundType, ListenersType, ScanType,
           LateType
  <2> QED
    BY <1>1, <2>1, <2>2, <2>5, HeardInv, EndedStep DEF IInv
<1>2. CASE UNCHANGED vars
  BY <1>2 DEF vars, device, switches, radio, history, IInv, TypeOK, Heard,
              OfThisRound, BatchHeard, AdvertTakenOnce, BatchOfOneRound,
              LateInv, EndedIsNoThread, Running
<1> QED
  BY <1>1, <1>2

LEMMA Inductive == Spec => []IInv
BY InitInv, StepInv, PTL DEF Spec

(* Every variable keeps the values that the code gives it, with any number *)
(* of scan threads and whatever the order of calls.                        *)
THEOREM TypeCorrect == Spec => []TypeOK
<1>1. IInv => TypeOK
  BY DEF IInv
<1> QED
  BY <1>1, Inductive, PTL

(* BleFingerprintCollector.java:329-340. An advertisement goes to one scan *)
(* thread at most, also when TurnOn made several of them run.              *)
THEOREM TakenOnce == Spec => []AdvertTakenOnce
<1>1. IInv => AdvertTakenOnce
  BY DEF IInv, Heard
<1> QED
  BY <1>1, Inductive, PTL

(* BleFingerprintCollector.java:540-551. What is handed out together was   *)
(* heard in one round.                                                     *)
THEOREM OneRound == Spec => []BatchOfOneRound
<1>1. IInv => BatchOfOneRound
  BY DEF IInv, Heard
<1> QED
  BY <1>1, Inductive, PTL

(* BleFingerprintCollector.java:570-573. A scan thread fires at most one   *)
(* batch after StopSampling.                                               *)
THEOREM LateOnce == Spec => []OneLateBatch
<1>1. IInv => OneLateBatch
  <2>1. IInv => \A th \in Threads : late[th] \in 0..2
    BY DEF IInv, TypeOK
  <2> QED
    BY <2>1 DEF IInv, LateInv, OneLateBatch
<1> QED
  BY <1>1, Inductive, PTL
-----------------------------------------------------------------------------
(* The refinement: what the activities see of each step.                   *)

LEMMA SeenUnchanged ==
  ASSUME NEW r \in ScanThreads, NEW p \in ThreadPlaces, NEW b \in BOOLEAN,
         r.at # "none", p # "none", p = "fire" <=> r.at = "fire"
  PROVE  Seen([r EXCEPT !.at = p, !.early = b]) = Seen(r)
BY DEF Seen, ScanThreads

\* What is seen of NoThread at another place.
LEMMA SeenNoThread ==
  ASSUME NEW p, p \notin {"none", "fire"}
  PROVE  Seen([NoThread EXCEPT !.at = p]) = [Stream!NoThread EXCEPT !.at = "runs"]
<1>1. [NoThread EXCEPT !.at = p] = [at |-> p, early |-> FALSE, batch |-> {},
                                    next |-> 1, size |-> 0, changed |-> FALSE]
  <2>1. \A r \in ScanThreads : [r EXCEPT !.at = p] =
          [at |-> p, early |-> r.early, batch |-> r.batch, next |-> r.next,
           size |-> r.size, changed |-> r.changed]
    BY DEF ScanThreads
  <2>2. /\ NoThread.early = FALSE /\ NoThread.batch = {} /\ NoThread.next = 1
        /\ NoThread.size = 0 /\ NoThread.changed = FALSE
    BY Zenon DEF NoThread
  <2> QED
    BY <2>1, <2>2, NoThreadType
<1>2. Seen([NoThread EXCEPT !.at = p]) = [at |-> "runs", batch |-> {},
                                 next |-> 1, size |-> 0, changed |-> FALSE]
  BY <1>1 DEF Seen
<1>3. [Stream!NoThread EXCEPT !.at = "runs"] = [at |-> "runs", batch |-> {},
                                 next |-> 1, size |-> 0, changed |-> FALSE]
  <2>1. ASSUME NEW r, NEW b,
               r = [at |-> "none", batch |-> {}, next |-> 1, size |-> 0,
                    changed |-> b]
        PROVE  [r EXCEPT !.at = "runs"] = [at |-> "runs", batch |-> {},
                                 next |-> 1, size |-> 0, changed |-> b]
    BY <2>1
  <2> QED
    BY <2>1, Zenon DEF Stream!NoThread
<1> QED
  BY <1>2, <1>3

LEMMA SeenChanged == \A r : Seen(r).changed = r.changed
BY DEF Seen

LEMMA SeenIdle == Seen(NoThread) = Stream!NoThread
BY DEF Seen, NoThread, Stream!NoThread

streams == [th \in Threads |-> Seen(scan[th])]

\* What one thread's change is for those who see the stream.
LEMMA StreamOfOne ==
  ASSUME ScanType, NEW th \in Threads,
         \A t \in Threads \ {th} : Stays(t)
  PROVE  streams' = [streams EXCEPT ![th] = Seen(scan'[th])]
BY DEF streams, Stays

LEMMA StreamOfList ==
  ASSUME ScanType, NEW ls, ChangeListeners(ls)
  PROVE  streams' = [th \in Threads |-> [streams[th] EXCEPT !.changed =
                                           @ \/ streams[th].at = "fires"]]
<1>1. ASSUME NEW t \in Threads
      PROVE  Seen(scan'[t]) = [Seen(scan[t]) EXCEPT !.changed =
                                 @ \/ Seen(scan[t]).at = "fires"]
  <2>1. scan[t] \in ScanThreads /\ scan[t].changed \in BOOLEAN
    BY DEF ScanType, ScanThreads
  <2>2. CASE scan[t].at = "fire"
    <3>1. scan'[t] = [scan[t] EXCEPT !.changed = TRUE]
      BY <2>2 DEF ChangeListeners
    <3>2. (Seen(scan[t]).changed \/ Seen(scan[t]).at = "fires") = TRUE
      BY <2>2 DEF Seen
    <3>3. Seen(scan'[t]) = [Seen(scan[t]) EXCEPT !.changed = TRUE]
      <4>1. scan'[t] = [at |-> scan[t].at, early |-> scan[t].early,
                        batch |-> scan[t].batch, next |-> scan[t].next,
                        size |-> scan[t].size, changed |-> TRUE]
        BY <2>1, <3>1 DEF ScanThreads
      <4>2. Seen(scan'[t]) = [at |-> "fires", batch |-> scan[t].batch,
              next |-> scan[t].next, size |-> scan[t].size, changed |-> TRUE]
        BY <2>2, <4>1 DEF Seen
      <4>3. [Seen(scan[t]) EXCEPT !.changed = TRUE] =
              [at |-> "fires", batch |-> scan[t].batch,
               next |-> scan[t].next, size |-> scan[t].size, changed |-> TRUE]
        <5>1. Seen(scan[t]) =
                [at |-> "fires", batch |-> scan[t].batch, next |-> scan[t].next,
                 size |-> scan[t].size, changed |-> scan[t].changed]
          BY <2>2 DEF Seen
        <5>2. ASSUME NEW r, r = Seen(scan[t]), NEW b
              PROVE  [r EXCEPT !.changed = b] =
                [at |-> "fires", batch |-> scan[t].batch, next |-> scan[t].next,
                 size |-> scan[t].size, changed |-> b]
          BY <5>1, <5>2
        <5> QED
          BY <5>2, Zenon
      <4> QED
        BY <4>2, <4>3
    <3> QED
      BY <3>2, <3>3, Zenon
  <2>3. CASE scan[t].at # "fire"
    <3>1. scan'[t] = scan[t]
      BY <2>3 DEF ChangeListeners
    <3>2. Seen(scan[t]).at # "fires"
      BY <2>3 DEF Seen
    <3>3. Seen(scan[t]) = [Seen(scan[t]) EXCEPT !.changed = scan[t].changed]
      BY DEF Seen
    <3>4. (Seen(scan[t]).changed \/ Seen(scan[t]).at = "fires") = scan[t].changed
      BY <2>1, <3>2, Zenon DEF Seen
    <3> QED
      BY <3>1, <3>3, <3>4, Zenon
  <2> QED
    BY <2>2, <2>3
<1> QED
  BY <1>1, Zenon DEF streams

\* Places that look alike from outside.
LEMMA InvisibleStep ==
  ASSUME ScanType, NEW th \in Threads, NEW p \in ThreadPlaces, IsMoved(th, p),
         \A t \in Threads \ {th} : Stays(t)
  PROVE  UNCHANGED streams
<1>1. Seen(scan'[th]) = Seen(scan[th])
  <2>1. PICK b \in BOOLEAN :
          scan'[th] = [scan[th] EXCEPT !.at = p, !.early = b]
    BY DEF IsMoved
  <2>2. scan[th] \in ScanThreads /\ scan[th].at # "none" /\ p # "none"
    BY DEF IsMoved, ScanType
  <2>3. p = "fire" <=> scan[th].at = "fire"
    BY DEF IsMoved
  <2>4. Seen([scan[th] EXCEPT !.at = p, !.early = b]) = Seen(scan[th])
    BY <2>2, <2>3, SeenUnchanged
  <2> QED
    BY <2>1, <2>4
<1> QED
  BY <1>1, StreamOfOne DEF streams

LEMMA RefineCalls ==
  ASSUME IInv, process = "alive",
         \/ \E l \in Listeners : AddListener(l) \/ RemoveListener(l)
         \/ TurnOffClears
  PROVE  Stream!Next
<1>1. ScanType
  BY TypeParts DEF IInv
<1>2. ASSUME NEW l \in Listeners, AddListener(l)
      PROVE  Stream!AddListener(l)
  <2>1. ChangeListeners(Append(listeners, l))
    BY <1>2 DEF AddListener
  <2>2. Stream!ChangeListeners(Append(listeners, l))
    <3>1. listeners' = Append(listeners, l)
      BY <2>1 DEF ChangeListeners
    <3>2. UNCHANGED <<process, isStarted, shouldStartSampling, fingerprints,
                      heardIn, round>>
      BY <1>2 DEF AddListener, device, switches, radio, history
    <3> QED
      BY <1>1, <2>1, <3>1, <3>2, StreamOfList
         DEF Stream!ChangeListeners, streams
  <2> QED
    BY <1>2, <2>2 DEF AddListener, Stream!AddListener, Contains, Stream!Contains
<1>3. ASSUME NEW l \in Listeners, RemoveListener(l)
      PROVE  Stream!RemoveListener(l)
  <2>1. PICK i \in DOMAIN listeners :
          listeners[i] = l /\ ChangeListeners(RemoveAt(listeners, i))
    BY <1>3 DEF RemoveListener
  <2>2. Stream!ChangeListeners(Stream!RemoveAt(listeners, i))
    <3>1. listeners' = Stream!RemoveAt(listeners, i)
      BY <2>1 DEF ChangeListeners, RemoveAt, Stream!RemoveAt
    <3>2. UNCHANGED <<process, isStarted, shouldStartSampling, fingerprints,
                      heardIn, round>>
      BY <1>3 DEF RemoveListener, device, switches, radio, history
    <3> QED
      BY <1>1, <2>1, <3>1, <3>2, StreamOfList
         DEF Stream!ChangeListeners, streams
  <2> QED
    BY <1>3, <2>1, <2>2 DEF RemoveListener, Stream!RemoveListener
<1>4. ASSUME TurnOffClears
      PROVE  Stream!TurnOffClears
  BY <1>1, <1>4, StreamOfList
     DEF TurnOffClears, Stream!TurnOffClears, Stream!ChangeListeners,
         streams, ChangeListeners, device, switches, radio, history
<1> QED
  BY <1>2, <1>3, <1>4 DEF Stream!Next, Stream!Call, Stream!UIContinues

LEMMA RefineTurnOn ==
  ASSUME IInv, process = "alive", NEW th \in Threads, TurnOn(th)
  PROVE  Stream!Next
<1>1. ScanType /\ scan[th] = NoThread
  BY TypeParts DEF IInv, TurnOn, EndedIsNoThread
<1>2. /\ \A t \in Threads \ {th} : Stays(t)
      /\ scan'[th] = [NoThread EXCEPT !.at = "outer"]
  BY <1>1 DEF TurnOn, ScanType, Stays
<1>3. Seen(scan'[th]) = [Seen(scan[th]) EXCEPT !.at = "runs"]
  BY <1>1, <1>2, SeenNoThread, SeenIdle
<1>4. streams' = [streams EXCEPT ![th].at = "runs"]
  BY <1>1, <1>2, <1>3, StreamOfOne DEF streams
<1>5. streams[th].at = "none"
  BY <1>1 DEF streams, Seen, NoThread
<1>6. Stream!TurnOn(th)
  BY <1>4, <1>5 DEF TurnOn, Stream!TurnOn, Stream!Running, streams, history
<1> QED
  BY <1>6 DEF Stream!Next, Stream!Call

\* The steps that leave the scan threads alone.
LEMMA RefineOthers ==
  ASSUME process = "alive",
         \/ TurnOnFails \/ TurnOnThrows \/ TurnOff \/ TurnOffThrows
         \/ StartSampling \/ StartSamplingThrows \/ StopSampling
         \/ TurnOffEnds \/ StartSamplingEnds \/ OnScanResult
  PROVE  Stream!Next
<1> USE DEF device, switches, radio, history
<1>1. CASE TurnOnFails
  BY <1>1 DEF TurnOnFails, Stream!TurnOnFails, Stream!Next, Stream!Call
<1>2. CASE TurnOnThrows \/ TurnOffThrows \/ StartSamplingThrows
  <2>1. Stream!CallThrows
    BY <1>2 DEF TurnOnThrows, TurnOffThrows, StartSamplingThrows, Dies,
                Stream!CallThrows, Stream!Dies
  <2> QED
    BY <2>1 DEF Stream!Next, Stream!Call
<1>3. CASE TurnOff
  BY <1>3 DEF TurnOff, Stream!TurnOff, Stream!Next, Stream!Call
<1>4. CASE StartSampling
  BY <1>4 DEF StartSampling, Stream!StartSampling, Stream!Next, Stream!Call
<1>5. CASE StopSampling
  BY <1>5 DEF StopSampling, Stream!StopSampling, Stream!Next, Stream!Call
<1>6. CASE TurnOffEnds
  BY <1>6 DEF TurnOffEnds, Stream!TurnOffEnds, Stream!Next, Stream!UIContinues
<1>7. CASE StartSamplingEnds
  BY <1>7 DEF StartSamplingEnds, Stream!StartSamplingEnds, Stream!Next,
              Stream!UIContinues
<1>8. CASE OnScanResult
  BY <1>8 DEF OnScanResult, Stream!Hear, Stream!Next
<1> QED
  BY <1>1, <1>2, <1>3, <1>4, <1>5, <1>6, <1>7, <1>8

(* Opening and shutting the scanner, windows and loops are invisible; the  *)
(* rest of what a scan thread does is what the stream does.                *)
LEMMA RefineThread ==
  ASSUME IInv, process = "alive", NEW th \in Threads, ScanStep(th)
  PROVE  Stream!Next \/ UNCHANGED Stream!vars
<1> USE DEF device, switches, radio, history
<1>1. PlainType /\ ListenersType /\ ScanType /\ scan[th] \in ScanThreads
  BY TypeParts DEF IInv, ScanType
<1>2. \A t \in Threads \ {th} : Stays(t)
  BY <1>1, ScanStepShape
<1>3. streams' = [streams EXCEPT ![th] = Seen(scan'[th])]
  BY <1>1, <1>2, StreamOfOne
<1>4. streams[th] = Seen(scan[th])
  BY DEF streams
<1>5. CASE Inner(th) \/ OpenScan(th) \/ WindowEnds(th) \/ CloseScan(th)
  <2>1. UNCHANGED <<process, isStarted, shouldStartSampling, fingerprints,
                    heardIn, listeners, uiAt, round>>
    BY <1>5 DEF Inner, OpenScan, WindowEnds, CloseScan
  <2>2. scan[th].at \in {"inner", "open", "window", "close"}
    BY <1>5 DEF Inner, OpenScan, WindowEnds, CloseScan
  <2>3. scan'[th].at \in {"open", "window", "copy", "close", "outer"}
    BY <1>1, <1>5 DEF Inner, OpenScan, WindowEnds, CloseScan, Goes, ScanType,
                      ScanThreads
  <2>4. Shape(th)
    <3>1. ~HasTaken(th)
      BY <2>2 DEF HasTaken
    <3> QED
      BY <1>1, <3>1, ScanStepShape
  <2>5. CASE Stays(th)
    BY <1>2, <2>5, <2>1 DEF Stays, Stream!vars
  <2>6. ASSUME NEW p \in ThreadPlaces, IsMoved(th, p)
        PROVE  UNCHANGED Stream!vars
    <3>1. UNCHANGED streams
      BY <1>1, <1>2, <2>6, InvisibleStep
    <3> QED
      BY <2>1, <3>1 DEF streams, Stream!vars
  <2>7. ~IsMarked(th) /\ ~IsCreated(th) /\ ~IsEnded(th) /\ ~IsServed(th)
          /\ ~HasFired(th)
    BY <2>2 DEF IsMarked, IsCreated, IsEnded, IsServed, HasFired, Running
  <2> QED
    BY <2>4, <2>5, <2>6, <2>7 DEF Shape
<1>6. CASE Outer(th)
  <2>1. UNCHANGED <<process, isStarted, shouldStartSampling, fingerprints,
                    heardIn, listeners, uiAt, round>>
    BY <1>6 DEF Outer
  <2>2. scan[th].at = "outer" /\ streams[th].at = "runs"
    BY <1>4, <1>6 DEF Outer, Seen
  <2>3. CASE isStarted
    <3>1. scan'[th] = [scan[th] EXCEPT !.at = "inner"]
      BY <1>1, <1>6, <2>3 DEF Outer, WhileStarted, ScanType
    <3>2. Seen(scan'[th]) = Seen(scan[th])
      BY <1>1, <2>2, <3>1 DEF Seen, ScanThreads
    <3>3. UNCHANGED streams
      BY <1>3, <1>4, <3>2 DEF streams
    <3> QED
      BY <2>1, <3>3 DEF streams, Stream!vars
  <2>4. CASE ~isStarted
    <3>1. scan'[th] = NoThread
      BY <1>1, <1>6, <2>4 DEF Outer, WhileStarted, ScanType
    <3>2. Seen(scan'[th]) = Stream!NoThread
      BY <3>1 DEF Seen, NoThread, Stream!NoThread
    <3>3. streams' = [streams EXCEPT ![th] = Stream!NoThread]
      BY <1>3, <3>2
    <3>4. Stream!Ends(th)
      BY <2>1, <2>2, <2>4, <3>3 DEF Stream!Ends, streams
    <3> QED
      BY <3>4 DEF Stream!Next
  <2> QED
    BY <2>3, <2>4
<1>7. CASE CopyFingerprints(th)
  <2>1. HasTaken(th)
    BY <1>1, <1>7 DEF CopyFingerprints, HasTaken, ScanType
  <2>2. Seen(scan'[th]) = [at |-> "fires", batch |-> fingerprints, next |-> 1,
                           size |-> Len(listeners), changed |-> FALSE]
    BY <1>1, <2>1 DEF HasTaken, Seen, ScanThreads
  <2>3. streams[th].at = "runs"
    BY <1>4, <2>1 DEF HasTaken, Seen
  <2>4. streams' = [streams EXCEPT ![th] =
            [at |-> "fires", batch |-> fingerprints, next |-> 1,
             size |-> Len(listeners), changed |-> FALSE]]
    BY <1>3, <2>2
  <2>5. Stream!Take(th)
    BY <1>7, <2>3, <2>4 DEF CopyFingerprints, Stream!Take, streams
  <2> QED
    BY <2>5 DEF Stream!Next
<1>8. CASE FireNext(th) \/ FireEnds(th) \/ FireThrows(th)
  <2>1. /\ streams[th].at = "fires"
        /\ streams[th].changed = scan[th].changed
        /\ streams[th].next = scan[th].next
        /\ streams[th].size = scan[th].size
    <3>1. scan[th].at = "fire"
      BY <1>8 DEF FireNext, FireEnds, FireThrows
    <3> QED
      <4>1. streams[th].at = "fires"
        BY <1>4, <3>1 DEF Seen
      <4>2. streams[th].changed = scan[th].changed
        BY <1>4, SeenChanged
      <4>3. streams[th].next = scan[th].next /\ streams[th].size = scan[th].size
        BY <1>4 DEF Seen
      <4> QED
        BY <4>1, <4>2, <4>3
  <2>2. CASE FireNext(th)
    <3>1. scan'[th] = [scan[th] EXCEPT !.next = @ + 1]
      BY <1>1, <2>2 DEF FireNext, ScanType
    <3>2. Seen(scan'[th]) = [streams[th] EXCEPT !.next = @ + 1]
      BY <1>1, <1>4, <2>2, <3>1 DEF FireNext, Seen, ScanThreads
    <3>3. streams' = [streams EXCEPT ![th].next = @ + 1]
      BY <1>3, <3>2
    <3>4. Stream!FireNext(th)
      BY <2>1, <2>2, <3>3 DEF FireNext, Stream!FireNext, streams
    <3> QED
      BY <3>4 DEF Stream!Next, Stream!Fires
  <2>3. CASE FireEnds(th)
    <3>1. PICK p \in {"close", "inner"} :
            scan'[th] = [NoThread EXCEPT !.at = p]
      BY <1>1, <2>3 DEF FireEnds, ScanType
    <3>2. Seen(scan'[th]) = [Stream!NoThread EXCEPT !.at = "runs"]
      BY <3>1, SeenNoThread
    <3>3. streams' = [streams EXCEPT ![th] = [Stream!NoThread EXCEPT !.at = "runs"]]
      BY <1>3, <3>2
    <3>4. Stream!FireEnds(th)
      BY <2>1, <2>3, <3>3
         DEF FireEnds, HasNext, Stream!FireEnds, Stream!HasNext, streams
    <3> QED
      BY <3>4 DEF Stream!Next, Stream!Fires
  <2>4. CASE FireThrows(th)
    <3>1. Stream!FireThrows(th)
      BY <2>1, <2>4 DEF FireThrows, HasNext, Dies, Stream!FireThrows,
                        Stream!HasNext, Stream!Dies, streams
    <3> QED
      BY <3>1 DEF Stream!Next, Stream!Fires
  <2> QED
    BY <1>8, <2>2, <2>3, <2>4
<1>9. CASE ScannerThrows(th)
  <2>1. Stream!Breaks(th)
    BY <1>4, <1>9 DEF ScannerThrows, Seen, Dies, Stream!Breaks, Stream!Dies,
                      streams
  <2> QED
    BY <2>1 DEF Stream!Next
<1> QED
  BY <1>5, <1>6, <1>7, <1>8, <1>9 DEF ScanStep

LEMMA RefineInit == Init => Stream!Init
<1> SUFFICES ASSUME Init PROVE Stream!Init
  OBVIOUS
<1>1. \A th \in Threads : Seen(scan[th]) = Stream!NoThread
  BY DEF Init, Seen, NoThread, Stream!NoThread
<1> QED
  BY <1>1 DEF Init, Stream!Init

LEMMA RefineStep ==
  ASSUME IInv, [Next]_vars
  PROVE  Stream!Next \/ UNCHANGED Stream!vars
<1>1. CASE UNCHANGED vars
  BY <1>1 DEF vars, device, switches, radio, history, Stream!vars
<1>2. CASE Next
  BY <1>2, RefineCalls, RefineTurnOn, RefineOthers, RefineThread
     DEF Next, UICall, UIContinues
<1> QED
  BY <1>1, <1>2

(* BleFingerprintCollector.java:300-351 and 417-582. Every step of the     *)
(* collector is one of the stream of batches or invisible in it: what is   *)
(* built on the stream holds with the collector below.                     *)
THEOREM Implements == Spec => ImplementsScanStream
<1>1. IInv /\ [Next]_vars => [Stream!Next]_(Stream!vars)
  BY RefineStep
<1> QED
  BY <1>1, RefineInit, Inductive, PTL DEF Spec, Stream!Spec, ImplementsScanStream
=============================================================================
