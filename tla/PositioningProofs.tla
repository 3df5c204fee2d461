------------------------- MODULE PositioningProofs --------------------------
(***************************************************************************)
(* Whatever the points, the scans and the interleaving of the two threads: *)
(* what NaviActivity has buffered never waits for a fifth batch, what it   *)
(* draws is the most similar point, and the similarities are fair.         *)
(***************************************************************************)
EXTENDS Positioning, SimilarityProofs
-----------------------------------------------------------------------------
(* The buffer.                                                             *)

(* Inductive with NothingWaitsLonger: what marks the scan does not move it.*)
ScanIsPlaced == "at" \in DOMAIN scan
IInv == ScanIsPlaced /\ NothingWaitsLonger

\* The UI thread at most marks the scan.
LEMMA UIStep ==
  ASSUME IInv,
         \/ LoadStarts \/ Loads \/ DrawStarts \/ ReadsX \/ ReadsY \/ ReadThrows
  PROVE  IInv'
<1>1. scan' \in {scan, Changed} /\ UNCHANGED <<rawFingerprints, currentBufferTimes>>
  BY DEF LoadStarts, Loads, DrawStarts, ReadsX, ReadsY, ReadThrows, sampling,
         buffer
<1>2. Changed.at = scan.at /\ "at" \in DOMAIN Changed
  BY DEF IInv, ScanIsPlaced, Changed
<1> QED
  BY <1>1, <1>2 DEF IInv, ScanIsPlaced, NothingWaitsLonger

LEMMA ScanStep ==
  ASSUME IInv,
         \/ NothingLoaded \/ Starts \/ Compares \/ ComparesThrows \/ Sorts
         \/ Fills \/ Posts
  PROVE  IInv'
<1> USE DEF IInv, ScanIsPlaced, NothingWaitsLonger
<1>1. CASE NothingLoaded \/ Posts
  BY <1>1 DEF NothingLoaded, Posts, Finished, Idle
<1>2. CASE Starts
  BY <1>2 DEF Starts, Idle, buffer
<1>3. CASE Compares \/ Fills
  <2>1. scan'.at = scan.at /\ "at" \in DOMAIN scan' /\ scan.at # "idle"
    BY <1>3 DEF Compares, Fills
  <2> QED
    BY <2>1
<1>4. CASE ComparesThrows
  BY <1>4 DEF ComparesThrows, buffer
<1>5. CASE Sorts
  <2>1. \/ scan' = Idle /\ currentBufferTimes' = 0
        \/ scan'.at = "fills" /\ "at" \in DOMAIN scan'
    BY <1>5 DEF Sorts
  <2> QED
    BY <2>1 DEF Idle
<1> QED
  BY <1>1, <1>2, <1>3, <1>4, <1>5

\* A full buffer is handed over at once, unless there is nothing in it.
LEMMA BatchStep ==
  ASSUME IInv, NEW samples \in Batches, OnSampleCollected(samples)
  PROVE  IInv'
<1>1. CASE IsFull(currentBufferTimes') /\ rawFingerprints' # <<>>
  BY <1>1 DEF OnSampleCollected, Idle, IInv, ScanIsPlaced, NothingWaitsLonger
<1>2. CASE ~(IsFull(currentBufferTimes') /\ rawFingerprints' # <<>>)
  <2>1. UNCHANGED scan
    BY <1>2 DEF OnSampleCollected
  <2> QED
    BY <1>2, <2>1 DEF IsFull, bufferTimes, IInv, ScanIsPlaced,
                      NothingWaitsLonger
<1> QED
  BY <1>1, <1>2

LEMMA BufferInductive == Spec => []IInv
<1>1. Init => IInv
  BY DEF Init, Idle, IInv, ScanIsPlaced, NothingWaitsLonger
<1>2. IInv /\ [Next]_vars => IInv'
  <2>1. IInv /\ Next => IInv'
    BY UIStep, ScanStep, BatchStep DEF Next
  <2>2. IInv /\ UNCHANGED vars => IInv'
    BY DEF vars, IInv, ScanIsPlaced, NothingWaitsLonger
  <2> QED
    BY <2>1, <2>2
<1> QED
  BY <1>1, <1>2, PTL DEF Spec

(* NaviActivity.java:105 and 682-698, "every 4 scan cycle will trigger a   *)
(* position draw". When more than four batches were given since the last   *)
(* position, all of them but the one just given were empty.                *)
THEOREM NothingEverWaitsLonger == Spec => []NothingWaitsLonger
<1>1. IInv => NothingWaitsLonger
  BY DEF IInv
<1> QED
  BY <1>1, BufferInductive, PTL
-----------------------------------------------------------------------------
(* The list of the candidates.                                             *)

\* What may be on the list that is sorted.
Candidates == [score : Fractions, point : Points]

Best(list, sorted) == IF \E e \in Range(sorted) : IsNaN(e.score) THEN Points
                      ELSE Highest(list)

LEMMA HighestComesLast ==
  ASSUME NEW list \in Seq(Candidates), Len(list) > 0
  PROVE  /\ Sort(list) \in Seq(Candidates) /\ Len(Sort(list)) = Len(list)
         /\ Last(Sort(list)).point \in Best(list, Sort(list))
         /\ Best(list, Sort(list)) \subseteq Points
<1>1. PICK n \in Nat : /\ n = Len(list) /\ DOMAIN list = 1..n /\ n > 0
                       /\ \A i \in 1..n : list[i] \in Candidates
  OBVIOUS
<1>2. \A i \in 1..n : list[i].score \in Fractions /\ list[i].point \in Points
  BY <1>1 DEF Candidates
<1> DEFINE E == Range(list)
<1>3. E = {list[i] : i \in 1..n} /\ list \in Seq(E)
  BY <1>1 DEF Range
<1>4. PICK s : /\ s = Sort(list) /\ s \in Seq(E) /\ Len(s) = n
               /\ \A i \in 1..n : Has(s, list[i])
               /\ AllNumbers(E) => Sorted(s)
  <2> HIDE DEF E
  <2> QED
    BY <1>1, <1>3, SortOrders
<1>5. DOMAIN s = 1..n /\ \A i \in 1..n : s[i] \in E
  BY <1>4
<1>6. PICK k \in 1..n : list[k] = s[n]
  <2>1. n \in 1..n
    BY <1>1
  <2>2. s[n] \in E
    BY <1>5, <2>1
  <2> HIDE DEF E
  <2> QED
    BY <1>3, <2>2
<1>7. Last(s).point = list[k].point
  BY <1>4, <1>6 DEF Last
<1>8. Highest(list) \subseteq Points
  BY <1>1, <1>2 DEF Highest
<1>9. ASSUME \A e \in Range(s) : ~IsNaN(e.score)
      PROVE  list[k].point \in Highest(list)
  <2>1. \A i \in 1..n : list[i] \in Range(s)
    BY <1>4 DEF Has, Range
  <2>2. \A i \in 1..n : list[i].score \in Numbers
    BY <1>2, <1>9, <2>1 DEF IsNaN, Fractions, Numbers
  <2>3. AllNumbers(E)
    BY <1>3, <2>2 DEF AllNumbers
  <2>4. ASSUME NEW l \in 1..n PROVE ~Less(list[k].score, list[l].score)
    <3>1. PICK j \in 1..n : s[j] = list[l]
      BY <1>4, <1>5 DEF Has
    <3>2. CASE j = n
      BY <1>6, <2>2, <3>1, <3>2, LessOrder
    <3>3. CASE j < n
      <4>1. ~Before(s[n], s[j])
        BY <1>1, <1>4, <1>5, <2>3, <3>3 DEF Sorted
      <4> QED
        BY <1>6, <3>1, <4>1 DEF Before
    <3> QED
      BY <3>2, <3>3
  <2> QED
    BY <1>1, <2>4 DEF Highest
<1>10. s \in Seq(Candidates)
  <2>1. \A i \in 1..n : s[i] \in Candidates
    BY <1>1, <1>3, <1>5
  <2> QED
    BY <1>4, <2>1
<1>11. list[k].point \in Best(list, s) /\ Best(list, s) \subseteq Points
  BY <1>2, <1>8, <1>9 DEF Best
<1> QED
  BY <1>1, <1>4, <1>7, <1>10, <1>11

-----------------------------------------------------------------------------
(* The state.                                                              *)

Shaped(s) == DOMAIN s = {"at", "averaged", "next", "list", "changed"}

ScanTyped ==
  /\ Shaped(scan)
  /\ scan.at \in {"idle", "starts", "compares", "fills"}
  /\ scan.next \in Nat \ {0}
  /\ scan.list \in Seq(Candidates)
  /\ scan.at = "compares" =>
       /\ Scanned(scan.averaged)
       /\ loadedBuildInSampleData # <<>>
       /\ scan.next = Len(scan.list) + 1
       /\ scan.next <= Len(loadedBuildInSampleData) + 1
  /\ scan.at = "fills" =>
       /\ scan.list # <<>> /\ scan.next <= Len(scan.list) + 1
       /\ Last(scan.list).point \in foundBest

UITyped ==
  /\ ui.at \in {"idle", "loads", "reads X", "reads Y"} /\ ui.next \in Nat
  /\ {"at", "next"} \subseteq DOMAIN ui
  /\ ui.at = "reads Y" => ui.x \in Points
  /\ ui.at = "loads" \/ loadedBuildInSampleData # <<>> => ui.next > 0

\* What was drawn or waits to be was given as batches.
BatchesCounted ==
  /\ given \in 0..MaxBatches /\ currentBufferTimes \in 0..given
  /\ posted \in Nat /\ posted + (IF scan.at = "idle" THEN 0 ELSE 1) <= given

ScannedDevices == UNION {Range(samples) : samples \in Batches}

ListsTyped ==
  /\ loadedBuildInSampleData \in Seq(Points)
  /\ rawFingerprints \in Seq(ScannedDevices)
  /\ allCandidatesWithText \in Seq(Points)
  /\ scan.at = "fills" =>
       /\ Len(allCandidatesWithText) = scan.next - 1
       /\ \A i \in 1..(scan.next - 1) :
            allCandidatesWithText[i] = scan.list[i].point
  /\ position \in Seq(Points) /\ Len(position) \in {0, 2}

Typed ==
  /\ process \in {"alive", "dead"} /\ foundBest \subseteq Points
  /\ raced \in BOOLEAN
  /\ ScanTyped /\ UITyped /\ BatchesCounted /\ ListsTyped

Reading == ui.at \in {"reads X", "reads Y"}

(* Unless the list was refilled before it was drawn, it is not refilled    *)
(* while it waits to be, its last is the best, and what was read is that.  *)
Drawn ==
  ~raced =>
    /\ scan.at = "fills" => posted = 0 /\ ~Reading
    /\ scan.at # "fills" /\ allCandidatesWithText # <<>>
         => Last(allCandidatesWithText) \in foundBest
    /\ ui.at = "reads Y" => allCandidatesWithText # <<>>
                            /\ ui.x = Last(allCandidatesWithText)

LEMMA PointsAre ==
  /\ Points = 1..Len(SamplePoints) /\ Len(SamplePoints) \in Nat
  /\ \A i \in Points : Sampled(SamplePoints[i])
  /\ \A h \in ScannedDevices : h.rssi \in Int
  /\ \A samples \in Batches : samples \in Seq(ScannedDevices)
<1>1. Points = 1..Len(SamplePoints) /\ Len(SamplePoints) \in Nat
  BY PositioningAssumption DEF Points
<1>2. \A i \in Points : Sampled(SamplePoints[i])
  BY PositioningAssumption DEF Points, Range, Sampled
<1>3. \A h \in ScannedDevices : h.rssi \in Int
  BY PositioningAssumption DEF ScannedDevices
<1>4. ASSUME NEW samples \in Batches PROVE samples \in Seq(ScannedDevices)
  <2>1. samples \in Seq(Range(samples)) /\ Range(samples) \subseteq ScannedDevices
    BY PositioningAssumption DEF ScannedDevices
  <2>2. \A i \in 1..Len(samples) : samples[i] \in ScannedDevices
    BY <2>1
  <2> QED
    BY <2>1, <2>2
<1> QED
  BY <1>1, <1>2, <1>3, <1>4

LEMMA IdleIs ==
  /\ Idle.at = "idle" /\ Idle.next = 1 /\ Idle.list = <<>>
  /\ Idle.list \in Seq(Candidates)
  /\ Shaped(Idle)
BY DEF Idle, Shaped

LEMMA InitTyped == Init => Typed /\ Drawn
<1> SUFFICES ASSUME Init PROVE Typed /\ Drawn
  OBVIOUS
<1>1. ScanTyped
  BY IdleIs DEF Init, ScanTyped
<1>2. UITyped
  BY DEF Init, UITyped
<1>3. BatchesCounted
  BY IdleIs, PositioningAssumption DEF Init, BatchesCounted
<1>4. ListsTyped
  BY IdleIs DEF Init, ListsTyped
<1>5. Drawn
  BY IdleIs DEF Init, Drawn, Reading
<1> QED
  BY <1>1, <1>2, <1>3, <1>4, <1>5 DEF Init, Typed

\* The steps of the scan thread.
LEMMA BatchTyped ==
  ASSUME Typed, Drawn, NEW samples \in Batches, OnSampleCollected(samples)
  PROVE  Typed' /\ Drawn'
<1> DEFINE new == [Idle EXCEPT !.at = "starts"]
<1>0. /\ scan.at = "idle" /\ scan' \in {scan, new} /\ given' = given + 1
      /\ given < MaxBatches
      /\ UNCHANGED <<process, loadedBuildInSampleData, ui,
                     allCandidatesWithText, posted, position, foundBest, raced>>
  BY DEF OnSampleCollected, loading, drawing
<1>1. new.at = "starts" /\ new.next = 1 /\ new.list = <<>>
      /\ new.list \in Seq(Candidates) /\ Shaped(new)
  BY IdleIs DEF Shaped
<1> HIDE DEF new
<1>2. scan'.at \in {"idle", "starts"}
  BY <1>0, <1>1
<1>3. ScanTyped'
  <2>1. CASE scan' = scan
    BY <1>0, <2>1 DEF Typed, ScanTyped
  <2>2. CASE scan' = new
    <3>1. new.at \notin {"compares", "fills"} /\ new.next \in Nat \ {0}
      BY <1>1
    <3> QED
      BY <1>1, <2>2, <3>1, Zenon DEF ScanTyped
  <2> QED
    BY <1>0, <2>1, <2>2
<1>4. UITyped'
  BY <1>0 DEF Typed, UITyped
<1>5. BatchesCounted'
  <2>1. currentBufferTimes' = currentBufferTimes + 1
    BY DEF OnSampleCollected
  <2> QED
    BY <1>0, <1>2, <2>1, PositioningAssumption DEF Typed, BatchesCounted
<1>6. ListsTyped'
  <2>1. rawFingerprints' = rawFingerprints \o samples
    BY DEF OnSampleCollected
  <2>2. rawFingerprints' \in Seq(ScannedDevices)
    BY <2>1, PointsAre, ConcatProperties DEF Typed, ListsTyped
  <2> QED
    BY <1>0, <1>2, <2>2 DEF Typed, ListsTyped
<1>7. Drawn'
  BY <1>0, <1>2 DEF Drawn, Reading
<1> QED
  BY <1>0, <1>3, <1>4, <1>5, <1>6, <1>7 DEF Typed

\* Those that only move the scan.
LEMMA StartTyped ==
  ASSUME Typed, Drawn, NothingLoaded \/ Starts
  PROVE  Typed' /\ Drawn'
<1> DEFINE new == [Idle EXCEPT !.at = "compares", !.averaged =
                     DistinctAndAvgFingerprint(rawFingerprints)]
<1>0. /\ scan.at = "starts"
      /\ UNCHANGED <<process, loadedBuildInSampleData, ui, given,
                     allCandidatesWithText, posted, position, foundBest, raced>>
  BY DEF NothingLoaded, Starts, loading, drawing
<1>1. CASE NothingLoaded
  <2>1. scan' = Idle /\ rawFingerprints' = <<>> /\ currentBufferTimes' = 0
    BY <1>1 DEF NothingLoaded, Finished
  <2>2. ScanTyped'
    BY <2>1, IdleIs DEF ScanTyped
  <2>3. UITyped'
    BY <1>0 DEF Typed, UITyped
  <2>4. BatchesCounted'
    BY <1>0, <2>1, IdleIs DEF Typed, BatchesCounted
  <2>5. ListsTyped'
    BY <1>0, <2>1, IdleIs DEF Typed, ListsTyped
  <2>6. Drawn'
    BY <1>0, <2>1, IdleIs DEF Drawn, Reading
  <2> QED
    BY <1>0, <2>2, <2>3, <2>4, <2>5, <2>6 DEF Typed
<1>2. CASE Starts
  <2>1. /\ scan' = new /\ loadedBuildInSampleData # <<>>
        /\ UNCHANGED <<rawFingerprints, currentBufferTimes>>
    BY <1>2 DEF Starts, buffer
  <2>2. /\ new.at = "compares" /\ new.next = 1 /\ new.list = <<>>
        /\ new.averaged = DistinctAndAvgFingerprint(rawFingerprints)
        /\ new.list \in Seq(Candidates) /\ Shaped(new)
    BY IdleIs DEF Shaped
  <2> HIDE DEF new
  <2>3. Scanned(DistinctAndAvgFingerprint(rawFingerprints))
    <3>1. rawFingerprints \in Seq(ScannedDevices)
      BY DEF Typed, ListsTyped
    <3>2. Heard(rawFingerprints)
      BY <3>1, PointsAre DEF Heard
    <3> QED
      BY <3>2, AverageIs
  <2>4. ScanTyped'
    <3>1. Len(loadedBuildInSampleData) \in Nat
      BY DEF Typed, ListsTyped
    <3> QED
      BY <1>0, <2>1, <2>2, <2>3, <3>1 DEF ScanTyped
  <2>5. UITyped'
    BY <1>0 DEF Typed, UITyped
  <2>6. BatchesCounted'
    BY <1>0, <2>1, <2>2 DEF Typed, BatchesCounted
  <2>7. ListsTyped'
    BY <1>0, <2>1, <2>2 DEF Typed, ListsTyped
  <2>8. Drawn'
    BY <1>0, <2>1, <2>2 DEF Drawn, Reading
  <2> QED
    BY <1>0, <2>4, <2>5, <2>6, <2>7, <2>8 DEF Typed
<1> QED
  BY <1>1, <1>2

LEMMA CompareTyped ==
  ASSUME Typed, Drawn, Compares \/ ComparesThrows
  PROVE  Typed' /\ Drawn'
<1>0. /\ scan.at = "compares" /\ HasNext
      /\ UNCHANGED <<loadedBuildInSampleData, ui, rawFingerprints,
                     currentBufferTimes, given, allCandidatesWithText, posted,
                     position, foundBest, raced>>
  BY DEF Compares, ComparesThrows, loading, buffer, drawing
<1>1. /\ Shaped(scan') /\ scan'.at = "compares"
      /\ process' \in {"alive", "dead"}
      /\ ScanTyped'
  <2>1. CASE Compares
    <3>1. PICK i \in Nat \ {0}, n \in Nat :
            /\ i = scan.next /\ n = Len(loadedBuildInSampleData) /\ i <= n
            /\ i = Len(scan.list) + 1
      BY <1>0 DEF Typed, ScanTyped, ListsTyped, HasNext
    <3>2. PICK point \in Points : point = loadedBuildInSampleData[i]
      BY <3>1 DEF Typed, ListsTyped
    <3>3. PICK score \in Fractions :
            score = CaculateSimilarity(scan.averaged, SamplePoints[point])
      BY <1>0, PointsAre, SimilarityIs DEF Typed, ScanTyped
    <3>4. PICK c \in Candidates : c = [score |-> score, point |-> point]
      BY DEF Candidates
    <3>5. scan' = [scan EXCEPT !.next = i + 1, !.list = Append(scan.list, c)]
      BY <2>1, <3>1, <3>2, <3>3, <3>4 DEF Compares
    <3>6. /\ Shaped(scan') /\ scan'.at = "compares"
          /\ scan'.averaged = scan.averaged /\ scan'.next = i + 1
          /\ scan'.list = Append(scan.list, c)
      BY <1>0, <3>5 DEF Typed, ScanTyped, Shaped
    <3>7. /\ Append(scan.list, c) \in Seq(Candidates)
          /\ Len(Append(scan.list, c)) = i
      BY <3>1 DEF Typed, ScanTyped
    <3>8. process' \in {"alive", "dead"}
      BY <2>1 DEF Compares, Typed
    <3>9. Scanned(scan.averaged) /\ loadedBuildInSampleData # <<>>
      BY <1>0 DEF Typed, ScanTyped
    <3> QED
      BY <1>0, <3>1, <3>6, <3>7, <3>8, <3>9 DEF ScanTyped
  <2>2. CASE ComparesThrows
    <3>1. UNCHANGED scan /\ process' = "dead"
      BY <2>2 DEF ComparesThrows
    <3> QED
      BY <1>0, <3>1 DEF Typed, ScanTyped
  <2> QED
    BY <2>1, <2>2
<1>2. UITyped'
  BY <1>0 DEF Typed, UITyped
<1>3. BatchesCounted'
  BY <1>0, <1>1 DEF Typed, BatchesCounted
<1>4. ListsTyped'
  BY <1>0, <1>1 DEF Typed, ListsTyped
<1>5. Drawn'
  BY <1>0, <1>1 DEF Drawn, Reading
<1> QED
  BY <1>0, <1>1, <1>2, <1>3, <1>4, <1>5 DEF Typed

LEMMA SortTyped ==
  ASSUME Typed, Drawn, Sorts
  PROVE  Typed' /\ Drawn'
<1> DEFINE sorted == Sort(scan.list)
           good == IntValue(Last(sorted).score) >= similarityThreashold
           filled == [scan EXCEPT !.at = "fills", !.next = 1, !.list = sorted]
<1>0. /\ scan.at = "compares" /\ ~HasNext
      /\ allCandidatesWithText' = <<>>
      /\ UNCHANGED <<process, loadedBuildInSampleData, ui, given, posted, position>>
  BY DEF Sorts, loading
<1>1. /\ raced' \in BOOLEAN
      /\ ~raced' => ~raced /\ posted = 0 /\ ~Reading
  <2>1. raced' = (raced \/ posted > 0 \/ ui.at \in {"reads X", "reads Y"})
    BY DEF Sorts
  <2>2. posted \in Nat
    BY DEF Typed, BatchesCounted
  <2>3. ~(posted > 0) => posted = 0
    BY <2>2
  <2> QED
    BY <2>1, <2>3, Zenon DEF Reading
<1>2. /\ scan.list \in Seq(Candidates) /\ Len(scan.list) > 0
      /\ sorted \in Seq(Candidates) /\ Len(sorted) = Len(scan.list)
      /\ Last(sorted).point \in Best(scan.list, sorted)
      /\ Best(scan.list, sorted) \subseteq Points
  <2>1. Len(loadedBuildInSampleData) > 0
    BY <1>0 DEF Typed, ScanTyped, ListsTyped
  <2>2. scan.list \in Seq(Candidates) /\ Len(scan.list) > 0
    BY <1>0, <2>1 DEF Typed, ScanTyped, HasNext
  <2> QED
    BY <2>2, HighestComesLast
<1>3. CASE good
  <2>1. /\ scan' = filled /\ foundBest' = Best(scan.list, sorted)
        /\ UNCHANGED <<rawFingerprints, currentBufferTimes>>
    BY <1>3 DEF Sorts, Best
  <2> HIDE DEF good
  <2>2. /\ Shaped(filled) /\ filled.at = "fills" /\ filled.next = 1
        /\ filled.list = sorted
    BY DEF Typed, ScanTyped, Shaped
  <2> HIDE DEF filled, sorted
  <2>3. sorted # <<>>
    BY <1>2
  <2>4. ScanTyped'
    BY <1>2, <2>1, <2>2, <2>3 DEF ScanTyped
  <2>5. UITyped'
    BY <1>0 DEF Typed, UITyped
  <2>6. BatchesCounted'
    BY <1>0, <2>1, <2>2 DEF Typed, BatchesCounted
  <2>7. ListsTyped'
    BY <1>0, <2>1, <2>2 DEF Typed, ListsTyped
  <2>8. Drawn'
    <3>1. ~raced' => posted' = 0 /\ ~Reading'
      BY <1>0, <1>1, Zenon DEF Reading
    <3> QED
      BY <2>1, <2>2, <3>1 DEF Drawn, Reading
  <2> QED
    BY <1>0, <1>1, <1>2, <2>1, <2>4, <2>5, <2>6, <2>7, <2>8 DEF Typed
<1>4. CASE ~good
  <2>1. /\ scan' = Idle /\ rawFingerprints' = <<>> /\ currentBufferTimes' = 0
        /\ UNCHANGED foundBest
    BY <1>4 DEF Sorts
  <2> HIDE DEF good, sorted
  <2>2. ScanTyped'
    BY <2>1, IdleIs DEF ScanTyped
  <2>3. UITyped'
    BY <1>0 DEF Typed, UITyped
  <2>4. BatchesCounted'
    BY <1>0, <2>1, IdleIs DEF Typed, BatchesCounted
  <2>5. ListsTyped'
    BY <1>0, <2>1, IdleIs DEF Typed, ListsTyped
  <2>6. Drawn'
    BY <1>0, <1>1, <2>1, IdleIs DEF Drawn, Reading
  <2> QED
    BY <1>0, <1>1, <2>1, <2>2, <2>3, <2>4, <2>5, <2>6 DEF Typed
<1> QED
  BY <1>3, <1>4

LEMMA FillTyped ==
  ASSUME Typed, Drawn, Fills
  PROVE  Typed' /\ Drawn'
<1>0. /\ scan.at = "fills" /\ scan.next <= Len(scan.list)
      /\ UNCHANGED <<process, loadedBuildInSampleData, ui, rawFingerprints,
                     currentBufferTimes, given, posted, position, foundBest, raced>>
  BY DEF Fills, loading, buffer
<1>1. PICK i \in Nat \ {0} : i = scan.next
  BY DEF Typed, ScanTyped
<1>2. PICK point \in Points : point = scan.list[i].point
  <2>1. scan.list[i] \in Candidates
    BY <1>0, <1>1 DEF Typed, ScanTyped
  <2> QED
    BY <2>1 DEF Candidates
<1>3. /\ Shaped(scan') /\ scan'.at = "fills" /\ scan'.next = i + 1
      /\ scan'.list = scan.list
  BY <1>0, <1>1 DEF Fills, Typed, ScanTyped, Shaped
<1>4. PICK s \in Seq(Points) :
        /\ s = allCandidatesWithText /\ Len(s) = i - 1
        /\ \A k \in 1..(i - 1) : s[k] = scan.list[k].point
  BY <1>0, <1>1 DEF Typed, ListsTyped
<1>5. allCandidatesWithText' = Append(s, point)
  BY <1>1, <1>2, <1>4 DEF Fills
<1>6. /\ Append(s, point) \in Seq(Points) /\ Len(Append(s, point)) = i
      /\ \A k \in 1..i : Append(s, point)[k] = scan.list[k].point
  BY <1>2, <1>4
<1>7. ScanTyped'
  <2>1. /\ scan.list \in Seq(Candidates) /\ scan.list # <<>>
        /\ Last(scan.list).point \in foundBest /\ Len(scan.list) \in Nat
    BY <1>0 DEF Typed, ScanTyped
  <2> QED
    BY <1>0, <1>1, <1>3, <2>1 DEF ScanTyped
<1>8. UITyped'
  BY <1>0 DEF Typed, UITyped
<1>9. BatchesCounted'
  BY <1>0, <1>3 DEF Typed, BatchesCounted
<1>10. ListsTyped'
  <2>1. scan'.next - 1 = i
    BY <1>3
  <2> QED
    BY <1>0, <1>3, <1>5, <1>6, <2>1 DEF Typed, ListsTyped
<1>11. Drawn'
  BY <1>0, <1>3 DEF Drawn, Reading
<1> QED
  BY <1>0, <1>7, <1>8, <1>9, <1>10, <1>11 DEF Typed

LEMMA PostTyped ==
  ASSUME Typed, Drawn, Posts
  PROVE  Typed' /\ Drawn'
<1>0. /\ scan.at = "fills" /\ scan.next > Len(scan.list)
      /\ scan' = Idle /\ rawFingerprints' = <<>> /\ currentBufferTimes' = 0
      /\ posted' = posted + 1
      /\ UNCHANGED <<process, loadedBuildInSampleData, ui, given,
                     allCandidatesWithText, position, foundBest, raced>>
  BY DEF Posts, Finished, loading
<1>1. ScanTyped'
  BY <1>0, IdleIs DEF ScanTyped
<1>2. UITyped'
  BY <1>0 DEF Typed, UITyped
<1>3. BatchesCounted'
  BY <1>0, IdleIs DEF Typed, BatchesCounted
<1>4. ListsTyped'
  BY <1>0, IdleIs DEF Typed, ListsTyped
<1>5. Last(allCandidatesWithText) \in foundBest
  <2>1. PICK n \in Nat \ {0} : n = Len(scan.list) /\ scan.next = n + 1
    BY <1>0 DEF Typed, ScanTyped
  <2>2. Len(allCandidatesWithText) = n
        /\ allCandidatesWithText[n] = scan.list[n].point
    BY <1>0, <2>1 DEF Typed, ListsTyped
  <2>3. Last(scan.list).point \in foundBest
    BY <1>0 DEF Typed, ScanTyped
  <2> QED
    BY <2>1, <2>2, <2>3 DEF Last
<1>6. Drawn'
  BY <1>0, <1>5, IdleIs DEF Drawn, Reading
<1> QED
  BY <1>0, <1>1, <1>2, <1>3, <1>4, <1>6 DEF Typed

\* The steps of the UI thread: at most, they mark the scan.
LEMMA ChangedIs ==
  ASSUME Typed, scan' \in {scan, Changed},
         loadedBuildInSampleData' \in Seq(Points), loadedBuildInSampleData' # <<>>
           \/ scan.at # "compares",
         Len(loadedBuildInSampleData') >= Len(loadedBuildInSampleData)
           \/ scan.at # "compares",
         UNCHANGED foundBest
  PROVE  /\ ScanTyped'
         /\ scan'.at = scan.at /\ scan'.next = scan.next /\ scan'.list = scan.list
<1>1. /\ Shaped(scan') /\ scan'.at = scan.at /\ scan'.next = scan.next
      /\ scan'.list = scan.list /\ scan'.averaged = scan.averaged
  <2>1. CASE scan' = scan
    BY <2>1 DEF Typed, ScanTyped
  <2>2. CASE scan' = Changed
    BY <2>2 DEF Typed, ScanTyped, Shaped, Changed
  <2> QED
    BY <2>1, <2>2
<1>2. scan.at = "compares" =>
        /\ loadedBuildInSampleData' # <<>>
        /\ scan.next <= Len(loadedBuildInSampleData') + 1
  <2>1. Len(loadedBuildInSampleData) \in Nat /\ Len(loadedBuildInSampleData') \in Nat
    BY DEF Typed, ListsTyped
  <2> QED
    BY <2>1 DEF Typed, ScanTyped
<1>3. ScanTyped'
  BY <1>1, <1>2 DEF Typed, ScanTyped
<1> QED
  BY <1>1, <1>3

LEMMA LoadTyped ==
  ASSUME Typed, Drawn, LoadStarts \/ Loads
  PROVE  Typed' /\ Drawn'
<1>0. UNCHANGED <<process, rawFingerprints, currentBufferTimes, given, foundBest,
                  raced, allCandidatesWithText, posted, position>>
  BY DEF LoadStarts, Loads, drawing, sampling, buffer
<1>1. /\ scan' \in {scan, Changed} /\ loadedBuildInSampleData' \in Seq(Points)
      /\ loadedBuildInSampleData' # <<>> \/ scan.at # "compares"
      /\ \/ Len(loadedBuildInSampleData') >= Len(loadedBuildInSampleData)
         \/ scan.at # "compares"
      /\ UITyped' /\ ~Reading /\ ~Reading'
  <2>1. CASE LoadStarts
    <3>1. scan.at # "compares"
      BY <2>1 DEF LoadStarts, Typed, ScanTyped, UITyped
    <3>2. scan' = Changed /\ loadedBuildInSampleData' = <<>>
      BY <2>1 DEF LoadStarts
    <3>3. ui = [at |-> "idle", next |-> 0] /\ ui' = [at |-> "loads", next |-> 1]
      BY <2>1 DEF LoadStarts
    <3> QED
      BY <3>1, <3>2, <3>3 DEF UITyped, Reading
  <2>2. CASE Loads
    <3>1. PICK n \in Nat \ {0} : n = ui.next /\ ui.at = "loads"
      BY <2>2 DEF Loads, Typed, UITyped
    <3>2. {"at", "next"} \subseteq DOMAIN ui
      BY DEF Typed, UITyped
    <3>3. CASE n > Len(SamplePoints)
      <4>1. /\ ui' = [ui EXCEPT !.at = "idle"] /\ scan' = scan
            /\ loadedBuildInSampleData' = loadedBuildInSampleData
        BY <2>2, <3>1, <3>3 DEF Loads
      <4>2. ui'.at = "idle" /\ ui'.next = n /\ {"at", "next"} \subseteq DOMAIN ui'
        BY <3>1, <3>2, <4>1
      <4>3. UITyped' /\ ~Reading /\ ~Reading'
        BY <3>1, <4>2 DEF UITyped, Reading
      <4> QED
        BY <4>1, <4>3 DEF Typed, ListsTyped, ScanTyped
    <3>4. CASE n <= Len(SamplePoints)
      <4>1. PICK s \in Seq(Points) : s = loadedBuildInSampleData
        BY DEF Typed, ListsTyped
      <4>2. /\ ui' = [ui EXCEPT !.next = n + 1] /\ scan' = Changed
            /\ loadedBuildInSampleData' = Append(s, n)
        <5>1. ~(ui.next > Len(SamplePoints))
          BY <3>1, <3>4, PointsAre
        <5> QED
          BY <2>2, <3>1, <4>1, <5>1 DEF Loads
      <4>3. n \in Points
        BY <3>4, PointsAre
      <4>4. /\ Append(s, n) \in Seq(Points) /\ Append(s, n) # <<>>
            /\ Len(Append(s, n)) >= Len(s)
        <5>1. /\ Append(s, n) \in Seq(Points) /\ Len(s) \in Nat
              /\ Len(Append(s, n)) = Len(s) + 1
          BY <4>3
        <5>2. Len(<<>>) = 0
          OBVIOUS
        <5> QED
          BY <5>1, <5>2
      <4>5. /\ ui'.at = "loads" /\ ui'.next = n + 1
            /\ {"at", "next"} \subseteq DOMAIN ui'
        BY <3>1, <3>2, <4>2
      <4>6. UITyped' /\ ~Reading /\ ~Reading'
        BY <3>1, <4>5 DEF UITyped, Reading
      <4> QED
        BY <4>1, <4>2, <4>4, <4>6
    <3> QED
      BY <3>3, <3>4, PointsAre
  <2> QED
    BY <2>1, <2>2
<1>2. /\ ScanTyped' /\ scan'.at = scan.at /\ scan'.next = scan.next
      /\ scan'.list = scan.list
  BY <1>0, <1>1, ChangedIs
<1>3. BatchesCounted'
  BY <1>0, <1>2 DEF Typed, BatchesCounted
<1>4. ListsTyped'
  BY <1>0, <1>1, <1>2 DEF Typed, ListsTyped
<1>5. Drawn'
  BY <1>0, <1>1, <1>2 DEF Drawn, Reading
<1> QED
  BY <1>0, <1>1, <1>2, <1>3, <1>4, <1>5 DEF Typed

LEMMA HighestIsPoint ==
  ASSUME Typed, allCandidatesWithText # <<>>
  PROVE  HighestDrawn \in Points
<1>1. PICK s \in Seq(Points) : s = allCandidatesWithText
  BY DEF Typed, ListsTyped
<1>2. s[Len(s)] \in Points
  BY <1>1
<1> QED
  BY <1>1, <1>2 DEF HighestDrawn, Last

LEMMA DrawTyped ==
  ASSUME Typed, Drawn, DrawStarts \/ ReadsX \/ ReadsY \/ ReadThrows
  PROVE  Typed' /\ Drawn'
<1>0. /\ UNCHANGED <<loadedBuildInSampleData, allCandidatesWithText, scan,
                     rawFingerprints, currentBufferTimes, given, foundBest, raced>>
      /\ process' \in {"alive", "dead"}
  BY DEF DrawStarts, ReadsX, ReadsY, ReadThrows, loading, drawing, sampling,
         buffer, Typed
<1>1. ScanTyped'
  BY <1>0 DEF Typed, ScanTyped
<1>2. {"at", "next"} \subseteq DOMAIN ui /\ ui.next \in Nat
      /\ (loadedBuildInSampleData # <<>> => ui.next > 0)
  BY DEF Typed, UITyped
<1>3. CASE DrawStarts
  <2>1. /\ ui.at = "idle" /\ UNCHANGED position
        /\ \/ ui' = ui
           \/ ui' = [ui EXCEPT !.at = "reads X"]
    BY <1>3 DEF DrawStarts
  <2>2. posted > 0 /\ posted # 0 /\ posted' = posted - 1
    <3>1. posted > 0 /\ posted' = posted - 1
      BY <1>3 DEF DrawStarts
    <3>2. posted \in Nat
      BY DEF Typed, BatchesCounted
    <3> QED
      BY <3>1, <3>2
  <2>3. /\ ui'.at \in {"idle", "reads X"} /\ ui'.next = ui.next
        /\ {"at", "next"} \subseteq DOMAIN ui'
    BY <1>2, <2>1
  <2>4. UITyped'
    BY <1>0, <1>2, <2>3 DEF UITyped
  <2>5. BatchesCounted'
    BY <1>0, <2>2 DEF Typed, BatchesCounted
  <2>6. ListsTyped'
    BY <1>0, <2>1 DEF Typed, ListsTyped
  <2>7. Drawn'
    <3>1. ~raced => scan.at # "fills"
      BY <2>2 DEF Drawn
    <3> QED
      BY <1>0, <2>3, <3>1 DEF Drawn, Reading
  <2> QED
    BY <1>0, <1>1, <2>4, <2>5, <2>6, <2>7 DEF Typed
<1>4. CASE ReadsX
  <2>1. /\ ui.at = "reads X" /\ allCandidatesWithText # <<>>
        /\ ui' = [at |-> "reads Y", next |-> ui.next, x |-> HighestDrawn]
        /\ UNCHANGED <<posted, position>>
    BY <1>4 DEF ReadsX, drawing
  <2>2. HighestDrawn \in Points
    BY <2>1, HighestIsPoint
  <2>3. UITyped'
    BY <1>0, <1>2, <2>1, <2>2 DEF UITyped
  <2>4. BatchesCounted'
    BY <1>0, <2>1 DEF Typed, BatchesCounted
  <2>5. ListsTyped'
    BY <1>0, <2>1 DEF Typed, ListsTyped
  <2>6. Drawn'
    BY <1>0, <2>1 DEF Drawn, Reading, HighestDrawn
  <2> QED
    BY <1>0, <1>1, <2>3, <2>4, <2>5, <2>6 DEF Typed
<1>5. CASE ReadsY
  <2>1. /\ ui.at = "reads Y" /\ allCandidatesWithText # <<>>
        /\ ui' = [at |-> "idle", next |-> ui.next]
        /\ position' = <<ui.x, HighestDrawn>> /\ UNCHANGED posted
    BY <1>5 DEF ReadsY
  <2>2. HighestDrawn \in Points /\ ui.x \in Points
    BY <2>1, HighestIsPoint DEF Typed, UITyped
  <2>3. UITyped'
    BY <1>0, <1>2, <2>1 DEF UITyped
  <2>4. BatchesCounted'
    BY <1>0, <2>1 DEF Typed, BatchesCounted
  <2>5. ListsTyped'
    <3>1. PICK p : p = <<ui.x, HighestDrawn>>
      OBVIOUS
    <3>2. p \in Seq(Points) /\ Len(p) = 2
      BY <2>2, <3>1
    <3> QED
      BY <1>0, <2>1, <3>1, <3>2 DEF Typed, ListsTyped
  <2>6. Drawn'
    BY <1>0, <2>1 DEF Drawn, Reading
  <2> QED
    BY <1>0, <1>1, <2>3, <2>4, <2>5, <2>6 DEF Typed
<1>6. CASE ReadThrows
  <2>1. UNCHANGED <<ui, posted, position>>
    BY <1>6 DEF ReadThrows, loading, drawing
  <2>2. UITyped'
    BY <1>0, <2>1 DEF Typed, UITyped
  <2>3. BatchesCounted'
    BY <1>0, <2>1 DEF Typed, BatchesCounted
  <2>4. ListsTyped'
    BY <1>0, <2>1 DEF Typed, ListsTyped
  <2>5. Drawn'
    BY <1>0, <2>1 DEF Drawn, Reading
  <2> QED
    BY <1>0, <1>1, <2>2, <2>3, <2>4, <2>5 DEF Typed
<1> QED
  BY <1>3, <1>4, <1>5, <1>6

LEMMA TypedInductive == Spec => [](Typed /\ Drawn)
<1>1. Typed /\ Drawn /\ [Next]_vars => (Typed /\ Drawn)'
  <2>1. Typed /\ Drawn /\ Next => (Typed /\ Drawn)'
    BY BatchTyped, StartTyped, CompareTyped, SortTyped, FillTyped, PostTyped,
       LoadTyped, DrawTyped DEF Next
  <2>2. Typed /\ Drawn /\ UNCHANGED vars => (Typed /\ Drawn)'
    <3> SUFFICES ASSUME Typed, Drawn, UNCHANGED vars PROVE Typed' /\ Drawn'
      OBVIOUS
    <3> USE DEF vars
    <3>1. ScanTyped'
      BY DEF Typed, ScanTyped
    <3>2. UITyped'
      BY DEF Typed, UITyped
    <3>3. BatchesCounted'
      BY DEF Typed, BatchesCounted
    <3>4. ListsTyped'
      BY DEF Typed, ListsTyped
    <3>5. Drawn'
      BY DEF Drawn, Reading
    <3> QED
      BY <3>1, <3>2, <3>3, <3>4, <3>5 DEF Typed
  <2> QED
    BY <2>1, <2>2
<1> QED
  BY <1>1, InitTyped, PTL DEF Spec

(* NaviActivity.java:676-831. The lists hold indexes of sampling points,   *)
(* what is buffered was in a batch, and there are never more positions to  *)
(* draw than batches were given.                                           *)
THEOREM TypeCorrect == Spec => []TypeOK
<1>1. Typed => TypeOK
  <2> SUFFICES ASSUME Typed PROVE TypeOK
    OBVIOUS
  <2>1. currentBufferTimes \in 0..MaxBatches /\ posted \in 0..MaxBatches
    BY PositioningAssumption DEF Typed, BatchesCounted
  <2> QED
    BY <2>1 DEF Typed, ScanTyped, UITyped, ListsTyped, ScannedDevices, TypeOK
<1> QED
  BY <1>1, TypedInductive, PTL

(* NaviActivity.java:797, "only draw the highest similarity point". Unless *)
(* the list was refilled before it was drawn, both coordinates drawn are   *)
(* of one point, and no other is more similar to what was scanned last.    *)
THEOREM TheHighestIsDrawn == Spec => HighestIsDrawn
<1>1. Typed /\ Drawn /\ [Next]_vars =>
        [position' # position /\ ~raced
           => position'[1] = position'[2] /\ position'[1] \in foundBest]_vars
  <2> SUFFICES ASSUME Typed, Drawn, Next, position' # position, ~raced
               PROVE  position'[1] = position'[2] /\ position'[1] \in foundBest
    BY DEF vars
  <2>1. ReadsY
    BY DEF Next, OnSampleCollected, NothingLoaded, Starts, Compares,
           ComparesThrows, Sorts, Fills, Posts, LoadStarts, Loads, DrawStarts,
           ReadsX, ReadThrows, drawing
  <2>2. /\ ui.at = "reads Y" /\ allCandidatesWithText # <<>>
        /\ position' = <<ui.x, Last(allCandidatesWithText)>>
    BY <2>1 DEF ReadsY, HighestDrawn
  <2>3. ui.x = Last(allCandidatesWithText) /\ scan.at # "fills"
    BY <2>2 DEF Drawn, Reading
  <2>4. Last(allCandidatesWithText) \in foundBest
    BY <2>2, <2>3 DEF Drawn
  <2> QED
    BY <2>2, <2>3, <2>4
<1> QED
  BY <1>1, TypedInductive, PTL DEF Spec, HighestIsDrawn

-----------------------------------------------------------------------------
(* The scores of the candidates.                                           *)

\* What a sampling point is given for what was scanned.
Scored(averaged) ==
  {c \in Candidates :
     c.score = CaculateSimilarity(averaged, SamplePoints[c.point])}

(* A scan starts with something that was scanned; whoever is listed while  *)
(* it is compared and listed has the similarity to the average of that.    *)
Scores ==
  /\ scan.at = "starts" => rawFingerprints # <<>>
  /\ scan.at \in {"idle", "starts"} => scan.list = <<>>
  /\ scan.at \in {"compares", "fills"} =>
       /\ Scanned(scan.averaged) /\ DOMAIN scan.averaged # {}
       /\ scan.list \in Seq(Scored(scan.averaged))

LEMMA InitScores == Init => Scores
BY IdleIs DEF Init, Scores

\* A scan that did not move.
LEMMA SameScores ==
  ASSUME Typed, Scores, UNCHANGED rawFingerprints, scan' \in {scan, Changed}
  PROVE  Scores'
<1>1. /\ scan'.at = scan.at /\ scan'.list = scan.list
      /\ scan'.averaged = scan.averaged
  BY DEF Typed, ScanTyped, Shaped, Changed
<1> QED
  BY <1>1 DEF Scores

\* What was scanned has an average when there is something.
LEMMA AverageOfSome ==
  ASSUME NEW s \in Seq(ScannedDevices), s # <<>>
  PROVE  /\ Scanned(DistinctAndAvgFingerprint(s))
         /\ DOMAIN DistinctAndAvgFingerprint(s) # {}
<1>1. Heard(s)
  BY PointsAre DEF Heard
<1>2. DOMAIN DistinctAndAvgFingerprint(s) = {s[i].device : i \in DOMAIN s}
  BY DEF DistinctAndAvgFingerprint
<1>3. 1 \in DOMAIN s
  OBVIOUS
<1> QED
  BY <1>1, <1>2, <1>3, AverageIs

LEMMA BatchScores ==
  ASSUME Typed, Scores, NEW samples \in Batches, OnSampleCollected(samples)
  PROVE  Scores'
<1>1. /\ scan.at = "idle"
      /\ scan' = IF IsFull(currentBufferTimes') /\ rawFingerprints' # <<>>
                 THEN [Idle EXCEPT !.at = "starts"] ELSE scan
  BY DEF OnSampleCollected
<1>2. CASE scan' = scan
  BY <1>1, <1>2 DEF Scores
<1>3. CASE scan' # scan
  <2>1. rawFingerprints' # <<>> /\ scan' = [Idle EXCEPT !.at = "starts"]
    BY <1>1, <1>3
  <2>2. scan'.at = "starts" /\ scan'.list = <<>>
    BY <2>1, IdleIs DEF Shaped
  <2> QED
    BY <2>1, <2>2 DEF Scores
<1> QED
  BY <1>2, <1>3

LEMMA StartScores ==
  ASSUME Typed, Scores, NothingLoaded \/ Starts \/ Posts
  PROVE  Scores'
<1>1. CASE NothingLoaded \/ Posts
  BY <1>1, IdleIs DEF NothingLoaded, Posts, Finished, Scores
<1>2. CASE Starts
  <2>1. PICK a : a = DistinctAndAvgFingerprint(rawFingerprints)
    OBVIOUS
  <2>2. scan.at = "starts" /\ scan' = [Idle EXCEPT !.at = "compares", !.averaged = a]
    BY <1>2, <2>1 DEF Starts
  <2>3. scan'.at = "compares" /\ scan'.averaged = a /\ scan'.list = <<>>
    BY <2>2, IdleIs DEF Shaped
  <2>4. Scanned(a) /\ DOMAIN a # {}
    BY <2>1, <2>2, AverageOfSome DEF Scores, Typed, ListsTyped
  <2> QED
    BY <2>3, <2>4 DEF Scores
<1> QED
  BY <1>1, <1>2

LEMMA CompareScores ==
  ASSUME Typed, Scores, Compares
  PROVE  Scores'
<1>1. PICK i, point, score :
        /\ i = scan.next /\ point = loadedBuildInSampleData[i]
        /\ score = CaculateSimilarity(scan.averaged, SamplePoints[point])
        /\ scan' = [scan EXCEPT !.next = @ + 1,
                                !.list = Append(@, [score |-> score,
                                                    point |-> point])]
  BY DEF Compares
<1>2. PICK c : c = [score |-> score, point |-> point]
  OBVIOUS
<1>3. scan.at = "compares" /\ HasNext
  BY DEF Compares
<1>4. i \in 1..Len(loadedBuildInSampleData)
  BY <1>1, <1>3 DEF Typed, ScanTyped, ListsTyped, HasNext
<1>5. point \in Points
  BY <1>1, <1>4 DEF Typed, ListsTyped
<1>6. score \in Fractions
  BY <1>1, <1>3, <1>5, PointsAre, SimilarityIs DEF Typed, ScanTyped
<1>7. c \in Scored(scan.averaged)
  BY <1>1, <1>2, <1>5, <1>6 DEF Scored, Candidates
<1>8. /\ scan'.at = "compares" /\ scan'.averaged = scan.averaged
      /\ scan'.list = Append(scan.list, c)
  BY <1>1, <1>2, <1>3 DEF Typed, ScanTyped, Shaped
<1>9. /\ Scanned(scan.averaged) /\ DOMAIN scan.averaged # {}
      /\ scan.list \in Seq(Scored(scan.averaged))
  BY <1>3 DEF Scores
<1>10. Append(scan.list, c) \in Seq(Scored(scan.averaged))
  BY <1>7, <1>9
<1> QED
  BY <1>8, <1>9, <1>10 DEF Scores

LEMMA SortScores ==
  ASSUME Typed, Scores, Sorts
  PROVE  Scores'
<1>1. PICK sorted : sorted = Sort(scan.list)
  OBVIOUS
<1>2. scan.at = "compares"
  BY DEF Sorts
<1>3. \/ scan' = Idle
      \/ scan' = [scan EXCEPT !.at = "fills", !.next = 1, !.list = sorted]
  BY <1>1 DEF Sorts
<1>4. /\ Scanned(scan.averaged) /\ DOMAIN scan.averaged # {}
      /\ scan.list \in Seq(Scored(scan.averaged))
  BY <1>2 DEF Scores
<1>5. sorted \in Seq(Scored(scan.averaged))
  BY <1>1, <1>4, SortOrders
<1>6. CASE scan' = Idle
  BY <1>6, IdleIs DEF Scores
<1>7. CASE scan' # Idle
  <2>1. /\ scan'.at = "fills" /\ scan'.averaged = scan.averaged
        /\ scan'.list = sorted
    BY <1>3, <1>7 DEF Typed, ScanTyped, Shaped
  <2> QED
    BY <1>4, <1>5, <2>1 DEF Scores
<1> QED
  BY <1>6, <1>7

LEMMA FillScores ==
  ASSUME Typed, Scores, Fills
  PROVE  Scores'
<1>1. /\ scan'.at = scan.at /\ scan'.list = scan.list
      /\ scan'.averaged = scan.averaged
  BY DEF Fills, Typed, ScanTyped, Shaped
<1>2. UNCHANGED rawFingerprints
  BY DEF Fills, buffer
<1> QED
  BY <1>1, <1>2 DEF Scores

LEMMA OtherScores ==
  ASSUME Typed, Scores,
         \/ ComparesThrows \/ LoadStarts \/ Loads \/ DrawStarts \/ ReadsX
         \/ ReadsY \/ ReadThrows \/ UNCHANGED vars
  PROVE  Scores'
<1>1. UNCHANGED rawFingerprints /\ scan' \in {scan, Changed}
  BY DEF ComparesThrows, LoadStarts, Loads, DrawStarts, ReadsX, ReadsY,
         ReadThrows, vars, buffer, sampling
<1> QED
  BY <1>1, SameScores

LEMMA ScoresInductive == Spec => [](Typed /\ Scores)
<1>1. Typed /\ Scores /\ [Next]_vars => Scores'
  BY BatchScores, StartScores, CompareScores, SortScores, FillScores,
     OtherScores DEF Next
<1> QED
  BY <1>1, InitScores, TypedInductive, PTL DEF Spec

(* Util.java:216-291. Each candidate's similarity is within 0..100, if it  *)
(* is a number; it is 100 for a point that was scanned just as it was      *)
(* sampled; and a point with 100 misses no device and has an exact one. It *)
(* is not a number just when the point has no device or each of its that   *)
(* was heard is at least its whole RSSI off.                               *)
THEOREM SimilaritiesAreFair == Spec => []SimilarityIsFair
<1>1. Typed /\ Scores => SimilarityIsFair
  <2> SUFFICES ASSUME Typed, Scores, NEW i \in DOMAIN scan.list
               PROVE  LET score == scan.list[i].score
                          scanned == scan.averaged
                          sampled == SamplePoints[scan.list[i].point]
                          ExactIs(d) == scanned[d][1] = sampled[d] * scanned[d][2]
                          Is(n) == score[1] = n * score[2]
                          IsFar(d) == Size(scanned[d][1] - sampled[d] * scanned[d][2])
                                        >= Size(sampled[d]) * scanned[d][2]
                          common == DOMAIN scanned \cap DOMAIN sampled
                      IN /\ IsNaN(score) <=>
                              \/ DOMAIN sampled = {}
                              \/ common # {} /\ \A d \in common : IsFar(d)
                         /\ ~IsNaN(score) =>
                           /\ ~Less(score, <<0, 1>>) /\ ~Less(<<100, 1>>, score)
                           /\ DOMAIN scanned = DOMAIN sampled
                                /\ (\A d \in DOMAIN scanned : ExactIs(d)) => Is(100)
                           /\ Is(100) => /\ DOMAIN sampled \subseteq DOMAIN scanned
                                         /\ \E d \in DOMAIN sampled : ExactIs(d)
    BY DEF SimilarityIsFair
  <2>1. PICK c, f, b : c = scan.list[i] /\ f = scan.averaged
                       /\ b = SamplePoints[c.point]
    OBVIOUS
  <2>2. scan.at \in {"compares", "fills"}
    <3>1. scan.list # <<>>
      OBVIOUS
    <3> QED
      BY <3>1 DEF Scores, Typed, ScanTyped
  <2>3. Scanned(f) /\ DOMAIN f # {} /\ scan.list \in Seq(Scored(f))
    BY <2>1, <2>2 DEF Scores
  <2>4. c \in Scored(f)
    BY <2>1, <2>3
  <2>5. c.point \in Points /\ c.score = CaculateSimilarity(f, b)
    BY <2>1, <2>4 DEF Scored, Candidates
  <2>6. Sampled(b)
    BY <2>1, <2>5, PointsAre
  <2>7. IsNaN(c.score) <=>
           \/ DOMAIN b = {}
           \/ Matched(f, b) # {} /\ \A d \in Matched(f, b) : Far(f, b, d)
    BY <2>3, <2>5, <2>6, WhenNotANumber
  <2>8. ASSUME ~IsNaN(c.score)
        PROVE  /\ ~Less(c.score, <<0, 1>>) /\ ~Less(<<100, 1>>, c.score)
               /\ DOMAIN f = DOMAIN b /\ (\A d \in DOMAIN f : Exact(f, b, d))
                    => c.score[1] = 100 * c.score[2]
               /\ c.score[1] = 100 * c.score[2]
                    => /\ DOMAIN b \subseteq DOMAIN f
                       /\ \E d \in DOMAIN b : Exact(f, b, d)
    <3>1. PICK x \in Numbers : x = c.score
      BY <2>3, <2>5, <2>6, <2>8, SimilarityBounds
    <3>2. /\ AtLeast(x, 0) /\ AtMost(x, 100)
          /\ DOMAIN f = DOMAIN b /\ (\A d \in DOMAIN f : Exact(f, b, d))
               => AtLeast(x, 100)
          /\ AtLeast(x, 100) => /\ DOMAIN b \subseteq DOMAIN f
                                /\ \E d \in DOMAIN b : Exact(f, b, d)
      BY <2>3, <2>5, <2>6, <2>8, <3>1, SimilarityBounds
    <3>3. ~Less(x, <<0, 1>>) /\ ~Less(<<100, 1>>, x)
      BY <3>2 DEF Less, AtLeast, AtMost, Numbers
    <3>4. AtLeast(x, 100) <=> x[1] = 100 * x[2]
      BY <3>2 DEF AtLeast, AtMost, Numbers
    <3> QED
      BY <3>1, <3>2, <3>3, <3>4
  <2> QED
    BY <2>1, <2>7, <2>8 DEF Exact, Far, Matched
<1> QED
  BY <1>1, ScoresInductive, PTL
=============================================================================
