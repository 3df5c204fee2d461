---------------------------- MODULE Positioning ----------------------------
(***************************************************************************)
(* How a NaviActivity finds where it is.  The scan thread hands it batches *)
(* and, after four, averages them, compares them with the sampling points  *)
(* that were loaded, sorts these and fills the list of candidates.  The UI *)
(* thread loads the sampling points and draws the last of the candidates.  *)
(* Nothing protects either list, so every step of one thread on a list may *)
(* come between two steps of the other.                                    *)
(*                                                                         *)
(* One scan thread runs.  The points are loaded once.                      *)
(***************************************************************************)
EXTENDS Similarity

CONSTANTS SamplePoints,  \* what the service has, a sequence of fingerprints
          Batches,       \* bound: the batches that may be given
          MaxBatches     \* bound: batches given

\* An RSSI is a whole number, of a finite number of devices.
ASSUME PositioningAssumption ==
  /\ MaxBatches \in Nat
  /\ SamplePoints \in Seq(Range(SamplePoints))
  /\ \A point \in Range(SamplePoints) :
       /\ IsFiniteSet(DOMAIN point)
       /\ \A d \in DOMAIN point : point[d] \in Int
  /\ \A samples \in Batches :
       /\ samples \in Seq(Range(samples))
       /\ \A heard \in Range(samples) : heard.rssi \in Int

bufferTimes == 4
similarityThreashold == 75

VARIABLES
  process,
  loadedBuildInSampleData,  \* indexes of SamplePoints
  ui,                       \* where the UI thread is
  rawFingerprints, currentBufferTimes,
  scan,                     \* where the scan thread is
  allCandidatesWithText,    \* likewise indexes
  posted,                   \* runnables that wait for the UI thread
  position,                 \* the points whose X and whose Y are drawn
  given, foundBest, raced   \* history

vars == <<process, loadedBuildInSampleData, ui, rawFingerprints,
          currentBufferTimes, scan, allCandidatesWithText, posted, position,
          given, foundBest, raced>>

Points == DOMAIN SamplePoints
Idle == [at |-> "idle", averaged |-> <<>>, next |-> 1, list |-> <<>>,
         changed |-> FALSE]

Init ==
  /\ process = "alive"
  /\ loadedBuildInSampleData = <<>> /\ ui = [at |-> "idle", next |-> 0]
  /\ rawFingerprints = <<>> /\ currentBufferTimes = 0
  /\ scan = Idle
  /\ allCandidatesWithText = <<>> /\ posted = 0 /\ position = <<>>
  /\ given = 0 /\ foundBest = {} /\ raced = FALSE
-----------------------------------------------------------------------------
(* The scan thread.                                                        *)

buffer == <<rawFingerprints, currentBufferTimes>>
drawing == <<allCandidatesWithText, posted, position>>
loading == <<loadedBuildInSampleData, ui>>

\* Mutant: waits for a fifth batch.
IsFullLate(times) == times > bufferTimes

IsFull(times) == times >= bufferTimes

\* Nothing was collected: the counter goes on from where it is.
OnSampleCollected(samples) ==
  /\ scan.at = "idle" /\ given < MaxBatches
  /\ given' = given + 1
  /\ rawFingerprints' = rawFingerprints \o samples
  /\ currentBufferTimes' = currentBufferTimes + 1
  /\ scan' = IF IsFull(currentBufferTimes') /\ rawFingerprints' # <<>>
             THEN [Idle EXCEPT !.at = "starts"] ELSE scan
  /\ UNCHANGED <<process, loading, drawing, foundBest, raced>>

Finished ==
  /\ scan' = Idle
  /\ rawFingerprints' = <<>> /\ currentBufferTimes' = 0

\* HandleScannedRawFingerprints: without sampling points there is nothing to do.
NothingLoaded ==
  /\ scan.at = "starts" /\ loadedBuildInSampleData = <<>> /\ Finished
  /\ UNCHANGED <<process, loading, drawing, given, foundBest, raced>>

Starts ==
  /\ scan.at = "starts" /\ loadedBuildInSampleData # <<>>
  /\ scan' = [Idle EXCEPT !.at = "compares", !.averaged =
                DistinctAndAvgFingerprint(rawFingerprints)]
  /\ UNCHANGED <<process, loading, buffer, drawing, given, foundBest, raced>>

HasNext == scan.next # Len(loadedBuildInSampleData) + 1

Compares ==
  /\ scan.at = "compares" /\ HasNext /\ ~scan.changed
  /\ LET point == loadedBuildInSampleData[scan.next]
         score == CaculateSimilarity(scan.averaged, SamplePoints[point])
     IN scan' = [scan EXCEPT !.next = @ + 1,
                             !.list = Append(@, [score |-> score,
                                                 point |-> point])]
  /\ UNCHANGED <<process, loading, buffer, drawing, given, foundBest, raced>>

\* The points were being loaded: ConcurrentModificationException.
ComparesThrows ==
  /\ scan.at = "compares" /\ HasNext /\ scan.changed
  /\ process' = "dead"
  /\ UNCHANGED <<loading, buffer, scan, drawing, given, foundBest, raced>>

\* The points with no point scored above, for reference.
Highest(list) ==
  {list[i].point : i \in {k \in DOMAIN list :
     \A l \in DOMAIN list : ~Less(list[k].score, list[l].score)}}

Sorts ==
  /\ scan.at = "compares" /\ ~HasNext
  /\ LET sorted == Sort(scan.list)
         good == IntValue(Last(sorted).score) >= similarityThreashold
     IN /\ scan' = IF good THEN [scan EXCEPT !.at = "fills", !.next = 1,
                                             !.list = sorted]
                   ELSE Idle
        /\ rawFingerprints' = IF good THEN rawFingerprints ELSE <<>>
        /\ currentBufferTimes' = IF good THEN currentBufferTimes ELSE 0
        /\ foundBest' = IF ~good THEN foundBest
                        ELSE IF \E e \in Range(sorted) : IsNaN(e.score)
                             THEN Points ELSE Highest(scan.list)
  /\ allCandidatesWithText' = <<>>
  /\ raced' = (raced \/ posted > 0 \/ ui.at \in {"reads X", "reads Y"})
  /\ UNCHANGED <<process, loading, posted, position, given>>

Fills ==
  /\ scan.at = "fills" /\ scan.next <= Len(scan.list)
  /\ scan' = [scan EXCEPT !.next = @ + 1]
  /\ allCandidatesWithText' =
       Append(allCandidatesWithText, scan.list[scan.next].point)
  /\ UNCHANGED <<process, loading, buffer, posted, position, given,
                 foundBest, raced>>

Posts ==
  /\ scan.at = "fills" /\ scan.next > Len(scan.list)
  /\ Finished /\ posted' = posted + 1
  /\ UNCHANGED <<process, loading, allCandidatesWithText, position, given,
                 foundBest, raced>>
-----------------------------------------------------------------------------
(* The UI thread.                                                          *)

sampling == <<buffer, given, foundBest, raced>>
Changed == [scan EXCEPT !.changed = @ \/ scan.at = "compares"]

\* What the service sent is put in place of what was loaded, one by one.
LoadStarts ==
  /\ ui = [at |-> "idle", next |-> 0]
  /\ ui' = [at |-> "loads", next |-> 1]
  /\ loadedBuildInSampleData' = <<>> /\ scan' = Changed
  /\ UNCHANGED <<process, drawing, sampling>>

Loads ==
  /\ ui.at = "loads"
  /\ LET ends == ui.next > Len(SamplePoints)
     IN /\ ui' = IF ends THEN [ui EXCEPT !.at = "idle"]
                 ELSE [ui EXCEPT !.next = @ + 1]
        /\ loadedBuildInSampleData' =
             IF ends THEN loadedBuildInSampleData
             ELSE Append(loadedBuildInSampleData, ui.next)
        /\ scan' = IF ends THEN scan ELSE Changed
  /\ UNCHANGED <<process, drawing, sampling>>

\* Mutant: a runnable runs more than once.
DrawStartsAgain ==
  /\ ui.at = "idle" /\ posted' = posted - 1
  /\ ui' = IF allCandidatesWithText = <<>> THEN ui
           ELSE [ui EXCEPT !.at = "reads X"]
  /\ UNCHANGED <<process, loadedBuildInSampleData, allCandidatesWithText,
                 position, scan, sampling>>

DrawStarts ==
  /\ ui.at = "idle" /\ posted > 0 /\ posted' = posted - 1
  /\ ui' = IF allCandidatesWithText = <<>> THEN ui
           ELSE [ui EXCEPT !.at = "reads X"]
  /\ UNCHANGED <<process, loadedBuildInSampleData, allCandidatesWithText,
                 position, scan, sampling>>

\* Mutant: draws the first of the candidates.
HighestFirst == allCandidatesWithText[1]

HighestDrawn == Last(allCandidatesWithText)

ReadsX ==
  /\ ui.at = "reads X" /\ allCandidatesWithText # <<>>
  /\ ui' = [at |-> "reads Y", next |-> ui.next, x |-> HighestDrawn]
  /\ UNCHANGED <<process, loadedBuildInSampleData, drawing, scan, sampling>>

ReadsY ==
  /\ ui.at = "reads Y" /\ allCandidatesWithText # <<>>
  /\ position' = <<ui.x, HighestDrawn>>
  /\ ui' = [at |-> "idle", next |-> ui.next]
  /\ UNCHANGED <<process, loadedBuildInSampleData, allCandidatesWithText,
                 posted, scan, sampling>>

\* The scan thread has emptied the list in the meantime.
ReadThrows ==
  /\ ui.at \in {"reads X", "reads Y"} /\ allCandidatesWithText = <<>>
  /\ process' = "dead"
  /\ UNCHANGED <<loading, drawing, scan, sampling>>
-----------------------------------------------------------------------------
Next ==
  /\ process = "alive"
  /\ \/ \E samples \in Batches : OnSampleCollected(samples)
     \/ NothingLoaded \/ Starts \/ Compares \/ ComparesThrows \/ Sorts
     \/ Fills \/ Posts
     \/ LoadStarts \/ Loads \/ DrawStarts \/ ReadsX \/ ReadsY \/ ReadThrows

Spec == Init /\ [][Next]_vars
-----------------------------------------------------------------------------
TypeOK ==
  /\ process \in {"alive", "dead"}
  /\ loadedBuildInSampleData \in Seq(Points)
  /\ ui.at \in {"idle", "loads", "reads X", "reads Y"}
  /\ rawFingerprints \in Seq(UNION {Range(samples) : samples \in Batches})
  /\ currentBufferTimes \in 0..MaxBatches
  /\ scan.at \in {"idle", "starts", "compares", "fills"}
  /\ allCandidatesWithText \in Seq(Points)
  /\ posted \in 0..MaxBatches
  /\ position \in Seq(Points) /\ Len(position) \in {0, 2}
  /\ foundBest \subseteq Points /\ raced \in BOOLEAN

(* NaviActivity.java:105, "every 4 scan cycle will trigger a position      *)
(* draw", and 682-698. When more than four batches were given since the    *)
(* last position, all of them but the one just given were empty: nothing   *)
(* that was scanned waits for a fifth batch.                               *)
NothingWaitsLonger ==
  scan.at = "idle" /\ currentBufferTimes >= 4 => rawFingerprints = <<>>

(* Util.java:216-291. A similarity is within 0..100, if it is a number; a  *)
(* point that was scanned just as it was sampled gets 100; and who gets    *)
(* 100 had every device of its scanned, and one with the very RSSI.  It is *)
(* not a number just when all devices of the point that were heard are     *)
(* ignored, each at least its whole RSSI off, or the point has none.       *)
SimilarityIsFair ==
  \A i \in DOMAIN scan.list :
    LET score == scan.list[i].score
        scanned == scan.averaged
        sampled == SamplePoints[scan.list[i].point]
        Exact(d) == scanned[d][1] = sampled[d] * scanned[d][2]
        Is(n) == score[1] = n * score[2]
        Far(d) == Size(scanned[d][1] - sampled[d] * scanned[d][2])
                    >= Size(sampled[d]) * scanned[d][2]
        common == DOMAIN scanned \cap DOMAIN sampled
    IN /\ IsNaN(score) <=>
            \/ DOMAIN sampled = {}
            \/ common # {} /\ \A d \in common : Far(d)
       /\ ~IsNaN(score) =>
         /\ ~Less(score, <<0, 1>>) /\ ~Less(<<100, 1>>, score)
         /\ DOMAIN scanned = DOMAIN sampled /\ (\A d \in DOMAIN scanned : Exact(d))
              => Is(100)
         /\ Is(100) => /\ DOMAIN sampled \subseteq DOMAIN scanned
                       /\ \E d \in DOMAIN sampled : Exact(d)

(* NaviActivity.java:797, "only draw the highest similarity point". Sorted *)
(* by a comparator that never says equal, put in a list that the next      *)
(* batches refill and read from there twice, what is drawn is one point,   *)
(* and none is more similar to what was scanned last: unless the list was  *)
(* refilled before it was drawn, or a similarity was not a number, which   *)
(* the sort does not get over.                                             *)
HighestIsDrawn ==
  [][position' # position /\ ~raced
       => position'[1] = position'[2] /\ position'[1] \in foundBest]_vars
=============================================================================
