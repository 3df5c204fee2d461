---------------------------- MODULE BoardPolling ----------------------------
(***************************************************************************)
(* How the app follows the boards of the service: OverallMapActivity and,  *)
(* above it, one NaviActivity each ask for them in a loop of request,      *)
(* answer and timer, as long as a flag of theirs says so.  NaviActivity    *)
(* compares every answer with the one before, draws what has changed, and  *)
(* orders boards or cancels orders on behalf of its user.                  *)
(*                                                                         *)
(* Answers are given by the service from what it has at some time between  *)
(* request and callback; requests may fail, and what they bring may not be *)
(* understood.  Dialogs that only report something are closed at once.     *)
(***************************************************************************)
EXTENDS Naturals, FiniteSets, SequencesExt

CONSTANTS Boards,      \* board identities
          MaxChanges,  \* bound: changes of the boards, orders included
          MaxOrders,   \* bound: orders made or cancelled by the user
          MaxLoops,    \* bound: loops of OverallMapActivity at a time
          MaxMoves     \* bound: moves of the user

ASSUME BoardPollingAssumption ==
  MaxLoops \in Nat \ {0} /\ MaxChanges \in Nat /\ MaxOrders \in Nat
    /\ MaxMoves \in Nat

VARIABLES
  process,
  boards,            \* the service: what it has, a function of some Boards
  changes,
  shown, gone, moves, \* the activity on top; NaviActivity is destroyed
  keepPolling,       \* of each activity
  mapRequests, mapTimers, \* of the loops of OverallMapActivity
  poll,              \* where the loop of NaviActivity is, and its answer
  boardsInBuilding,
  drawImages,        \* the boards that are drawn, and how
  dialog,            \* the board that the order dialog is about
  progress,          \* orderingProgressDialog is showing
  requests,          \* requests for orders and their answers
  orders

vars == <<process, boards, changes, shown, gone, moves, keepPolling,
          mapRequests, mapTimers, poll, boardsInBuilding, drawImages, dialog,
          progress, requests, orders>>

None == "none"
Statuses == [IsCovered : BOOLEAN, OrderDetailUrl : 0..MaxChanges]
Empty == [b \in {} |-> None]
Activities == {"map", "navi"}

Init ==
  /\ process = "alive"
  /\ boards \in [Boards -> [IsCovered : {FALSE}, OrderDetailUrl : {0}]]
  /\ changes = 0
  /\ shown = "map" /\ gone = FALSE /\ moves = 0
  /\ keepPolling = [a \in Activities |-> TRUE]
  /\ mapRequests = 1 /\ mapTimers = 0
  /\ poll = [at |-> "new", with |-> None, found |-> Empty]
  /\ boardsInBuilding = Empty /\ drawImages = Empty
  /\ dialog = None /\ progress = FALSE /\ requests = {} /\ orders = 0

app == <<shown, gone, moves, keepPolling>>
service == <<boards, changes>>
map == <<mapRequests, mapTimers>>
navi == <<poll, boardsInBuilding, drawImages>>
ordering == <<dialog, progress, requests, orders>>
-----------------------------------------------------------------------------
(* The service, external.                                                  *)

Changes(to) ==
  /\ changes < MaxChanges /\ changes' = changes + 1 /\ boards' = to
  /\ UNCHANGED <<process, app, map, navi, ordering>>

\* A board is covered or not any more, put up or taken away.
BoardChanges(b) ==
  \/ b \in DOMAIN boards /\ Changes([boards EXCEPT ![b].IsCovered = ~@])
  \/ b \in DOMAIN boards
     /\ Changes([c \in DOMAIN boards \ {b} |-> boards[c]])
  \/ b \notin DOMAIN boards
     /\ Changes([c \in DOMAIN boards \cup {b} |->
                   IF c = b THEN [IsCovered |-> FALSE, OrderDetailUrl |-> 0]
                   ELSE boards[c]])

\* The answer to the request of NaviActivity.
PollIsAnswered ==
  /\ poll.at = "asked"
  /\ \E with \in {"boards", "fault", "garbled"} :
       poll' = [at |-> "answered", with |-> with,
                found |-> IF with = "boards" THEN boards ELSE Empty]
  /\ UNCHANGED <<process, app, service, map, boardsInBuilding, drawImages,
                 ordering>>
-----------------------------------------------------------------------------
(* The user and Android.                                                   *)

Shows(a) ==
  /\ shown' = a
  /\ keepPolling' = [b \in Activities |->
                       IF b = a THEN TRUE
                       ELSE IF b = shown THEN FALSE ELSE keepPolling[b]]

Moves == moves < MaxMoves /\ moves' = moves + 1

\* The indoor map is being loaded.
OpenNavi ==
  /\ Moves /\ shown = "map" /\ poll.at = "new" /\ Shows("navi")
  /\ poll' = [poll EXCEPT !.at = "loads"]
  /\ UNCHANGED <<process, service, gone, map, boardsInBuilding, drawImages,
                 ordering>>

Leave ==
  /\ Moves /\ shown # "away" /\ Shows("away")
  /\ UNCHANGED <<process, service, gone, map, navi, ordering>>

Return ==
  /\ Moves /\ shown = "away"
  /\ Shows(IF poll.at # "new" /\ ~gone THEN "navi" ELSE "map")
  /\ UNCHANGED <<process, service, gone, map, navi, ordering>>

Back ==
  /\ Moves /\ shown = "navi" /\ ~progress /\ dialog = None
  /\ Shows("map") /\ gone' = TRUE
  /\ UNCHANGED <<process, service, map, navi, ordering>>
-----------------------------------------------------------------------------
(* OverallMapActivity.                                                     *)

\* Mutant: goes on whether it is shown or not.
MapPollsAlways == TRUE

MapPolls == keepPolling["map"]

(* The chain of two requests calls back once per action.  Only after the   *)
(* last it is complete, but the first callback may run late and find it so *)
(* as well; then each of the two starts a timer.  Buildings that are not   *)
(* understood end the loop, everything else goes on.                       *)
MapIsAnswered ==
  /\ mapRequests > 0 /\ mapRequests' = mapRequests - 1
  /\ \E understood \in BOOLEAN, calls \in 1..2 :
       /\ mapTimers' = IF understood /\ MapPolls THEN mapTimers + calls
                       ELSE mapTimers
       /\ mapTimers' + mapRequests' <= MaxLoops
  /\ UNCHANGED <<process, app, service, navi, ordering>>

\* Mutant: a timer runs out more than once.
MapTimerAgain ==
  /\ mapTimers' = mapTimers - 1 /\ mapRequests' = mapRequests + 1
  /\ UNCHANGED <<process, app, service, navi, ordering>>

MapTimer ==
  /\ mapTimers > 0 /\ mapTimers' = mapTimers - 1
  /\ mapRequests' = mapRequests + 1
  /\ UNCHANGED <<process, app, service, navi, ordering>>
-----------------------------------------------------------------------------
(* The loop of NaviActivity.                                               *)

\* In a dialog, which an activity can neither show nor dismiss any more once,
\* some time after it was left, it is destroyed.
Reports == process' \in IF gone THEN {"alive", "dead"} ELSE {"alive"}

\* Or not; the dialog that shows meanwhile is dismissed first.
MapBitmapLoaded ==
  /\ poll.at = "loads"
  /\ \E with \in {"asked", "ended"} : poll' = [poll EXCEPT !.at = with]
  /\ Reports
  /\ UNCHANGED <<app, service, map, boardsInBuilding, drawImages, ordering>>

Added(remote) == DOMAIN remote \ DOMAIN boardsInBuilding
Updated(remote) == {b \in DOMAIN remote \cap DOMAIN boardsInBuilding :
                      remote[b] # boardsInBuilding[b]}
Deleted(remote) == DOMAIN boardsInBuilding \ DOMAIN remote

\* ConvertRestBoardsToDrawImages: the icon of a board.
Icon(board) == IF board.IsCovered THEN "busy"
               ELSE IF board.OrderDetailUrl = 0 THEN "idle" ELSE "ordered"

\* Mutant: the images are added to those that are there.
DrawAdds(images, deleted) ==
  [b \in DOMAIN images \cup DOMAIN drawImages |->
     IF b \in DOMAIN images THEN images[b] ELSE drawImages[b]]

(* drawMultipleCirclesAndImages replaces all images.  The call of          *)
(* drawImagesWithRemove before it removes none: it looks for the index, a  *)
(* boxed number, among the images.                                         *)
Draw(images, deleted) == images

\* Mutant: the set is not cleared, so that equal boards are not replaced.
BoardsKept(remote) ==
  [b \in DOMAIN remote \cup DOMAIN boardsInBuilding |->
     IF b \in DOMAIN boardsInBuilding THEN boardsInBuilding[b] ELSE remote[b]]

BoardsLoaded(remote) == remote

\* Also when NaviActivity is not shown any more.
PollSucceeds ==
  /\ poll.at = "answered" /\ poll.with = "boards"
  /\ poll' = [at |-> "waits", with |-> None, found |-> Empty]
  /\ boardsInBuilding' = BoardsLoaded(poll.found)
  /\ LET changed == Added(poll.found) \cup Updated(poll.found)
         deleted == Deleted(poll.found)
         images == [b \in changed |-> Icon(poll.found[b])]
     IN drawImages' = IF changed \cup deleted = {} THEN drawImages
                      ELSE Draw(images, deleted)
  /\ UNCHANGED <<process, app, service, map, ordering>>

PollFails ==
  /\ poll.at = "answered" /\ poll.with # "boards"
  /\ poll' = [at |-> "ended", with |-> None, found |-> Empty]
  /\ Reports
  /\ UNCHANGED <<app, service, map, boardsInBuilding, drawImages, ordering>>

PollTimer ==
  /\ poll.at = "waits"
  /\ poll' = [poll EXCEPT !.at = IF keepPolling["navi"] THEN "asked"
                                 ELSE "ended"]
  /\ UNCHANGED <<process, app, service, map, boardsInBuilding, drawImages,
                 ordering>>
-----------------------------------------------------------------------------
(* Orders.  Request and answer share a record: an answer is still to come  *)
(* while its result is None.                                               *)

Request(no, kind, b, order) ==
  [no |-> no, kind |-> kind, board |-> b, order |-> order, result |-> None]

onlyOrdering == <<process, app, service, map, navi>>

\* On an icon, and then on the button that appears above it.
BitMapClicked(b) ==
  /\ shown = "navi" /\ dialog = None /\ ~progress /\ orders < MaxOrders
  /\ b \in DOMAIN drawImages
  /\ dialog' = b
  /\ UNCHANGED <<onlyOrdering, progress, requests, orders>>

DialogClosed ==
  /\ shown = "navi" /\ dialog # None /\ dialog' = None
  /\ \/ UNCHANGED <<progress, requests, orders>>
     \/ /\ progress' = TRUE /\ orders' = orders + 1
        /\ \E kind \in {"POST", "GET"} :
             requests' = requests \cup {Request(orders', kind, dialog, 0)}
  /\ UNCHANGED onlyOrdering

Answered(r, result) ==
  requests' = (requests \ {r}) \cup {[r EXCEPT !.result = result]}

\* The service, external: an order of a board that has one is refused.  What
\* the service did may be answered, or the answer may be lost.
OrderIsAnswered(r) ==
  /\ r.result = None
  /\ LET has == r.board \in DOMAIN boards
         order == IF has THEN boards[r.board].OrderDetailUrl ELSE 0
         Put(n) == boards' = [boards EXCEPT ![r.board].OrderDetailUrl = n]
     IN \/ Answered(r, "fault") /\ UNCHANGED service
        \/ /\ r.kind = "POST" /\ has /\ order = 0 /\ changes < MaxChanges
           /\ changes' = changes + 1 /\ Put(changes')
           /\ Answered(r, "ok") \/ Answered(r, "fault")
        \/ /\ r.kind = "POST" /\ order # 0 /\ Answered(r, "409")
           /\ UNCHANGED service
        \/ /\ r.kind = "GET" /\ UNCHANGED service
           /\ requests' = (requests \ {r}) \cup
                {[r EXCEPT !.result = IF order = 0 THEN "empty" ELSE "ok",
                           !.order = order]}
        \/ /\ r.kind = "DELETE" /\ (Answered(r, "ok") \/ Answered(r, "fault"))
           /\ IF order = r.order
              THEN Put(0) /\ UNCHANGED changes ELSE UNCHANGED service
  /\ UNCHANGED <<process, app, map, navi, dialog, progress, orders>>

\* Mutant: the progress dialog is closed only when all went well.
DismissedOnSuccess(r) == progress /\ r.result # "ok"

DismissedBy(r) == FALSE

(* Every callback closes the progress dialog, and reports.  The one of GET *)
(* goes on with the order it found first, whoever made it.                 *)
OrderFinished(r) ==
  /\ r.result # None
  /\ progress' = DismissedBy(r)
  /\ requests' = (requests \ {r}) \cup
       (IF r.kind = "GET" /\ r.result = "ok"
        THEN {Request(r.no, "DELETE", r.board, r.order)} ELSE {})
  /\ IF r.kind = "GET" /\ r.result = "ok" THEN UNCHANGED process ELSE Reports
  /\ UNCHANGED <<app, service, map, navi, dialog, orders>>
-----------------------------------------------------------------------------
MapLoop == MapIsAnswered \/ MapTimer
NaviLoop == MapBitmapLoaded \/ PollIsAnswered \/ PollSucceeds \/ PollFails
              \/ PollTimer

Next ==
  /\ process = "alive"
  /\ \/ \E b \in Boards : BoardChanges(b) \/ BitMapClicked(b)
     \/ OpenNavi \/ Leave \/ Return \/ Back \/ DialogClosed
     \/ MapLoop \/ NaviLoop
     \/ \E r \in requests : OrderIsAnswered(r) \/ OrderFinished(r)

(* Requests are answered or fail (a connection times out), callbacks run   *)
(* and timers fire; the user does not have to do anything.                 *)
Fairness ==
  /\ WF_vars(process = "alive" /\ MapIsAnswered)
  /\ WF_vars(process = "alive" /\ MapTimer)
  /\ WF_vars(process = "alive" /\ NaviLoop)

Spec == Init /\ [][Next]_vars
FairSpec == Spec /\ Fairness
-----------------------------------------------------------------------------
TypeOK ==
  /\ process \in {"alive", "dead"}
  /\ DOMAIN boards \subseteq Boards /\ Range(boards) \subseteq Statuses
  /\ changes \in 0..MaxChanges
  /\ shown \in Activities \cup {"away"} /\ gone \in BOOLEAN
  /\ moves \in 0..MaxMoves /\ keepPolling \in [Activities -> BOOLEAN]
  /\ mapRequests \in 0..MaxLoops /\ mapTimers \in 0..MaxLoops
  /\ poll.at \in {"new", "loads", "asked", "answered", "waits", "ended"}
  /\ poll.with \in {None, "boards", "fault", "garbled"}
  /\ Range(poll.found) \cup Range(boardsInBuilding) \subseteq Statuses
  /\ Range(drawImages) \subseteq {"busy", "idle", "ordered"}
  /\ dialog \in Boards \cup {None} /\ progress \in BOOLEAN
  /\ orders \in 0..MaxOrders
  /\ \A r \in requests :
       /\ r.kind \in {"POST", "GET", "DELETE"} /\ r.board \in Boards
       /\ r.result \in {None, "ok", "fault", "409", "empty"}

(* NaviActivity.java:504-569. Every board that is drawn is one that        *)
(* boardsInBuilding holds, and looks as it does there: although nothing    *)
(* removes the image of a board that was taken away, and images of boards  *)
(* that did not change are neither drawn again nor kept.                   *)
DrawnIsKnown ==
  \A b \in DOMAIN drawImages :
    b \in DOMAIN boardsInBuilding /\ drawImages[b] = Icon(boardsInBuilding[b])

(* NaviActivity.java:809-955. While the progress dialog shows, which the   *)
(* user cannot cancel, the answer to the order it was opened for is still  *)
(* to come.  All orders share the field of the dialog, and answers, among  *)
(* them those of deletions, come in any order and after the dialog closed. *)
NoStuckProgress ==
  progress => \E r \in requests : r.kind \in {"POST", "GET"} /\ r.no = orders

(* NaviActivity.java:128-130, "all boards in current building, will be     *)
(* updated periodically". As long as its loop does not end, NaviActivity   *)
(* finds out about every change of the boards in the end.                  *)
KeptUpToDate ==
  <>[](process = "alive" /\ poll.at \in {"asked", "answered", "waits"})
    => <>[](boardsInBuilding = boards)

(* NaviActivity.java:637 and 664, OverallMapActivity.java:486 and 498. An  *)
(* activity that stays hidden stops asking, however many loops it has.     *)
PollingCeases ==
  /\ <>[](process = "alive" /\ shown # "map")
       => <>[](mapRequests = 0 /\ mapTimers = 0)
  /\ <>[](process = "alive" /\ shown = "map")
       => <>[](poll.at \in {"new", "ended"})
=============================================================================
