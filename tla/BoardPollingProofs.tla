------------------------ MODULE BoardPollingProofs ------------------------
(***************************************************************************)
(* Proofs about BoardPolling, for any boards and any bounds: types, that   *)
(* what is drawn is known, and that the user never waits for nothing.      *)
(***************************************************************************)
EXTENDS BoardPolling, TLAPS

IsMap(f) == DOMAIN f \in SUBSET Boards /\ f \in [DOMAIN f -> Statuses]

AppType ==
  /\ process \in {"alive", "dead"}
  /\ shown \in Activities \cup {"away"} /\ gone \in BOOLEAN
  /\ moves \in 0..MaxMoves /\ keepPolling \in [Activities -> BOOLEAN]

ServiceType == IsMap(boards) /\ changes \in 0..MaxChanges

LoopsType == /\ mapRequests \in Nat /\ mapTimers \in Nat
             /\ mapRequests + mapTimers <= MaxLoops

Places == {"new", "loads", "asked", "answered", "waits", "ended"}
Answers == {None, "boards", "fault", "garbled"}

PollType == /\ poll = [at |-> poll.at, with |-> poll.with, found |-> poll.found]
            /\ poll.at \in Places /\ poll.with \in Answers
            /\ IsMap(poll.found)

Icons == {"busy", "idle", "ordered"}

DrawType == /\ IsMap(boardsInBuilding)
            /\ DOMAIN drawImages \in SUBSET Boards
            /\ drawImages \in [DOMAIN drawImages -> Icons]

Results == {None, "ok", "fault", "409", "empty"}
Requests == [no : Nat, kind : {"POST", "GET", "DELETE"}, board : Boards,
             order : 0..MaxChanges, result : Results]

OrderType ==
  /\ dialog \in Boards \cup {None} /\ progress \in BOOLEAN
  /\ orders \in 0..MaxOrders /\ requests \in SUBSET Requests
  /\ dialog # None => orders < MaxOrders

(* The inductive invariant: TypeOK does not say that what is counted in    *)
(* loops is bounded as a whole, nor that a dialog leaves room for an order. *)
IInv ==
  /\ AppType /\ ServiceType /\ LoopsType /\ PollType /\ DrawType /\ OrderType
  /\ DrawnIsKnown /\ NoStuckProgress

USE BoardPollingAssumption
-----------------------------------------------------------------------------
LEMMA InitInv == Init => IInv
<1> SUFFICES ASSUME Init PROVE IInv
  OBVIOUS
<1> USE DEF Init
<1>1. AppType
  <2>1. keepPolling \in [Activities -> BOOLEAN]
    BY Zenon
  <2>2. moves \in 0..MaxMoves
    OBVIOUS
  <2> QED
    BY <2>1, <2>2, Zenon DEF AppType, Activities
<1>2. ServiceType
  <2>1. [IsCovered : {FALSE}, OrderDetailUrl : {0}] \subseteq Statuses
    <3>1. 0 \in 0..MaxChanges
      OBVIOUS
    <3> QED
      BY <3>1, Zenon DEF Statuses
  <2>2. IsMap(boards)
    BY <2>1 DEF IsMap
  <2> QED
    BY <2>2 DEF ServiceType
<1>3. LoopsType
  BY DEF LoopsType
<1>4. PollType /\ DrawType
  BY DEF PollType, DrawType, IsMap, Empty, Places, Answers
<1>5. OrderType
  <2>1. orders \in 0..MaxOrders /\ requests \in SUBSET Requests
    OBVIOUS
  <2> QED
    BY <2>1, Zenon DEF OrderType
<1>6. DrawnIsKnown /\ NoStuckProgress
  BY DEF DrawnIsKnown, NoStuckProgress, Empty
<1> QED
  BY <1>1, <1>2, <1>3, <1>4, <1>5, <1>6 DEF IInv

LEMMA TypeParts ==
  ASSUME IInv
  PROVE  TypeOK
<1>1. Range(boards) \subseteq Statuses
  BY DEF IInv, ServiceType, IsMap, Range
<1>2. Range(poll.found) \subseteq Statuses
  BY DEF IInv, PollType, IsMap, Range
<1>3. Range(boardsInBuilding) \subseteq Statuses
  BY DEF IInv, DrawType, IsMap, Range
<1>4. Range(drawImages) \subseteq {"busy", "idle", "ordered"}
  BY DEF IInv, DrawType, Icons, Range
<1>5. mapRequests \in 0..MaxLoops /\ mapTimers \in 0..MaxLoops
  BY DEF IInv, LoopsType
<1>6. \A r \in requests :
        /\ r.kind \in {"POST", "GET", "DELETE"} /\ r.board \in Boards
        /\ r.result \in {None, "ok", "fault", "409", "empty"}
  BY DEF IInv, OrderType, Requests, Results
<1>7. DOMAIN boards \subseteq Boards
  BY DEF IInv, ServiceType, IsMap
<1> QED
  BY <1>1, <1>2, <1>3, <1>4, <1>5, <1>6, <1>7
     DEF IInv, TypeOK, AppType, ServiceType, PollType, OrderType, Places, Answers
-----------------------------------------------------------------------------
(* What a step leaves alone stays as it was.                               *)

LEMMA Frames ==
  /\ AppType /\ UNCHANGED <<process, app>> => AppType'
  /\ ServiceType /\ UNCHANGED service => ServiceType'
  /\ LoopsType /\ UNCHANGED map => LoopsType'
  /\ PollType /\ UNCHANGED poll => PollType'
  /\ DrawType /\ UNCHANGED <<boardsInBuilding, drawImages>>
       => DrawType'
  /\ DrawnIsKnown /\ UNCHANGED <<boardsInBuilding, drawImages>>
       => DrawnIsKnown'
  /\ OrderType /\ UNCHANGED ordering => OrderType'
  /\ NoStuckProgress /\ UNCHANGED ordering => NoStuckProgress'
<1>1. AppType /\ UNCHANGED <<process, app>> => AppType'
  BY DEF AppType, app
<1>2. ServiceType /\ UNCHANGED service => ServiceType'
  BY DEF ServiceType, service, IsMap
<1>3. LoopsType /\ UNCHANGED map => LoopsType'
  BY DEF LoopsType, map
<1>4. PollType /\ UNCHANGED poll => PollType'
  BY DEF PollType, IsMap
<1>5. DrawType /\ UNCHANGED <<boardsInBuilding, drawImages>> => DrawType'
  BY DEF DrawType, IsMap
<1>6. DrawnIsKnown /\ UNCHANGED <<boardsInBuilding, drawImages>>
        => DrawnIsKnown'
  BY DEF DrawnIsKnown
<1>7. OrderType /\ UNCHANGED ordering => OrderType'
  BY DEF OrderType, ordering
<1>8. NoStuckProgress /\ UNCHANGED ordering => NoStuckProgress'
  BY DEF NoStuckProgress, ordering
<1> QED
  BY <1>1, <1>2, <1>3, <1>4, <1>5, <1>6, <1>7, <1>8

LEMMA BoardChangesInv ==
  ASSUME IInv, NEW b \in Boards, BoardChanges(b)
  PROVE  IInv'
<1> DEFINE covered == [boards EXCEPT ![b].IsCovered = ~@]
           without == [c \in DOMAIN boards \ {b} |-> boards[c]]
           with == [c \in DOMAIN boards \cup {b} |->
                      IF c = b THEN [IsCovered |-> FALSE, OrderDetailUrl |-> 0]
                      ELSE boards[c]]
<1>1. IsMap(boards)
  BY DEF IInv, ServiceType
<1>2. b \in DOMAIN boards => IsMap(covered)
  <2> SUFFICES ASSUME b \in DOMAIN boards PROVE IsMap(covered)
    OBVIOUS
  <2>1. boards[b] \in Statuses
    BY <1>1 DEF IsMap
  <2>2. [boards[b] EXCEPT !.IsCovered = ~boards[b].IsCovered] \in Statuses
    BY <2>1, Zenon DEF Statuses
  <2>3. covered = [boards EXCEPT ![b] =
                     [boards[b] EXCEPT !.IsCovered = ~boards[b].IsCovered]]
    BY Zenon
  <2> HIDE DEF covered
  <2> QED
    BY <1>1, <2>2, <2>3 DEF IsMap
<1>3. IsMap(without)
  BY <1>1 DEF IsMap
<1>4. IsMap(with)
  BY <1>1 DEF IsMap, Statuses
<1>5. \E to : Changes(to) /\ IsMap(to)
  BY <1>2, <1>3, <1>4 DEF BoardChanges
<1>6. ServiceType'
  BY <1>5 DEF Changes, ServiceType, IInv, IsMap
<1>7. UNCHANGED <<process, app, map, navi, ordering>>
  BY <1>5 DEF Changes
<1> QED
  BY <1>6, <1>7, Frames DEF IInv, navi
-----------------------------------------------------------------------------
(* The user and the loops.                                                 *)

LEMMA MovesInv ==
  ASSUME IInv, OpenNavi \/ Leave \/ Return \/ Back
  PROVE  IInv'
<1>1. UNCHANGED <<process, service, map, boardsInBuilding, drawImages, ordering>>
  BY DEF OpenNavi, Leave, Return, Back, navi
<1>2. PollType'
  <2>1. CASE OpenNavi
    BY <2>1 DEF OpenNavi, IInv, PollType, Places, IsMap
  <2>2. CASE Leave \/ Return \/ Back
    BY <2>2, Frames DEF Leave, Return, Back, navi, IInv
  <2> QED
    BY <2>1, <2>2
<1>3. ASSUME NEW a \in Activities \cup {"away"}, Shows(a)
      PROVE  shown' \in Activities \cup {"away"}
               /\ keepPolling' \in [Activities -> BOOLEAN]
  <2>1. \A b \in Activities : (IF b = a THEN TRUE
            ELSE IF b = shown THEN FALSE ELSE keepPolling[b]) \in BOOLEAN
    BY DEF IInv, AppType
  <2> QED
    BY <1>3, <2>1, Zenon DEF Shows
<1>4. \E a \in Activities \cup {"away"} : Shows(a)
  BY DEF OpenNavi, Leave, Return, Back, Activities
<1>5. moves' \in 0..MaxMoves
  BY DEF OpenNavi, Leave, Return, Back, Moves, IInv, AppType
<1>6. gone' \in BOOLEAN
  BY DEF OpenNavi, Leave, Return, Back, IInv, AppType
<1>7. AppType'
  BY <1>1, <1>3, <1>4, <1>5, <1>6 DEF AppType, IInv
<1> QED
  BY <1>1, <1>2, <1>7, Frames DEF IInv

LEMMA MapLoopInv ==
  ASSUME IInv, MapLoop
  PROVE  IInv'
<1>1. UNCHANGED <<process, app, service, navi, ordering>>
  BY DEF MapLoop, MapIsAnswered, MapTimer
<1>2. LoopsType'
  BY DEF MapLoop, MapIsAnswered, MapTimer, IInv, LoopsType
<1> QED
  BY <1>1, <1>2, Frames DEF IInv, navi

LEMMA NaviWaitsInv ==
  ASSUME IInv, MapBitmapLoaded \/ PollIsAnswered \/ PollTimer
  PROVE  IInv'
<1>1. UNCHANGED <<app, service, map, boardsInBuilding, drawImages, ordering>>
  BY DEF MapBitmapLoaded, PollIsAnswered, PollTimer
<1>2. IsMap(Empty)
  BY DEF IsMap, Empty
<1>3. PollType'
  BY <1>2 DEF MapBitmapLoaded, PollIsAnswered, PollTimer, IInv, PollType,
              ServiceType, Places, Answers
<1>4. process' \in {"alive", "dead"}
  BY DEF MapBitmapLoaded, PollIsAnswered, PollTimer, Reports, IInv, AppType
<1>5. AppType'
  BY <1>1, <1>4 DEF AppType, IInv, app
<1> QED
  BY <1>1, <1>3, <1>5, Frames DEF IInv

LEMMA PollFailsInv ==
  ASSUME IInv, PollFails
  PROVE  IInv'
<1>1. UNCHANGED <<app, service, map, boardsInBuilding, drawImages, ordering>>
  BY DEF PollFails
<1>2. IsMap(Empty)
  BY DEF IsMap, Empty
<1>3. PollType'
  BY <1>2 DEF PollFails, PollType, Places, Answers
<1>4. AppType'
  BY <1>1 DEF PollFails, Reports, IInv, AppType, app
<1> QED
  BY <1>1, <1>3, <1>4, Frames DEF IInv

(* The answer becomes what is known.  A board that is drawn afterwards was *)
(* drawn from the answer; or nothing was drawn, since nothing differed.    *)
LEMMA PollSucceedsInv ==
  ASSUME IInv, PollSucceeds
  PROVE  IInv'
<1> DEFINE found == poll.found
           changed == Added(found) \cup Updated(found)
           images == [b \in changed |-> Icon(found[b])]
<1>1. UNCHANGED <<process, app, service, map, ordering>>
  BY DEF PollSucceeds
<1>2. PollType'
  <2>1. IsMap(Empty)
    BY DEF IsMap, Empty
  <2> QED
    BY <2>1 DEF PollSucceeds, PollType, Places, Answers
<1>3. boardsInBuilding' = found /\ IsMap(found)
  BY DEF PollSucceeds, BoardsLoaded, IInv, PollType
<1>4. changed \subseteq DOMAIN found /\ DOMAIN found \subseteq Boards
  BY <1>3 DEF Added, Updated, IsMap
<1>5. CASE changed \cup Deleted(found) = {}
  <2>1. drawImages' = drawImages
    BY <1>5 DEF PollSucceeds
  <2>2. ASSUME NEW b \in DOMAIN boardsInBuilding
        PROVE  b \in DOMAIN found /\ found[b] = boardsInBuilding[b]
    BY <1>5, <2>2 DEF Added, Updated, Deleted
  <2>3. DrawnIsKnown'
    BY <1>3, <2>1, <2>2 DEF IInv, DrawnIsKnown
  <2>4. DrawType'
    BY <1>3, <2>1 DEF IInv, DrawType, IsMap
  <2> QED
    BY <1>1, <1>2, <2>3, <2>4, Frames DEF IInv
<1>6. CASE changed \cup Deleted(found) # {}
  <2>1. drawImages' = images
    BY <1>6 DEF PollSucceeds, Draw
  <2>2. DrawnIsKnown'
    BY <1>3, <1>4, <2>1 DEF DrawnIsKnown
  <2>3. \A b : Icon(found[b]) \in Icons
    BY DEF Icon, Icons
  <2>4. DrawType'
    BY <1>3, <1>4, <2>1, <2>3 DEF DrawType, IsMap
  <2> QED
    BY <1>1, <1>2, <2>2, <2>4, Frames DEF IInv
<1> QED
  BY <1>5, <1>6
-----------------------------------------------------------------------------
(* Orders.                                                                 *)

LEMMA ClickInv ==
  ASSUME IInv, NEW b \in Boards, BitMapClicked(b)
  PROVE  IInv'
<1>1. UNCHANGED <<process, app, service, map, navi>>
  BY DEF BitMapClicked, onlyOrdering
<1>2. OrderType' /\ NoStuckProgress'
  BY DEF BitMapClicked, IInv, OrderType, NoStuckProgress
<1> QED
  BY <1>1, <1>2, Frames DEF IInv, navi

LEMMA DialogInv ==
  ASSUME IInv, DialogClosed
  PROVE  IInv'
<1>1. UNCHANGED <<process, app, service, map, navi>>
  BY DEF DialogClosed, onlyOrdering
<1>2. CASE UNCHANGED <<progress, requests, orders>>
  <2>1. OrderType' /\ NoStuckProgress'
    BY <1>2 DEF DialogClosed, IInv, OrderType, NoStuckProgress
  <2> QED
    BY <1>1, <2>1, Frames DEF IInv, navi
<1>3. ASSUME NEW kind \in {"POST", "GET"}, progress' = TRUE,
             orders' = orders + 1,
             requests' = requests \cup {Request(orders', kind, dialog, 0)}
      PROVE  IInv'
  <2>1. dialog \in Boards /\ dialog' = None
    BY DEF DialogClosed, IInv, OrderType
  <2>2. orders' \in 0..MaxOrders /\ orders' \in Nat
    BY <1>3 DEF DialogClosed, IInv, OrderType
  <2>3. Request(orders', kind, dialog, 0) \in Requests
    BY <2>1, <2>2 DEF Request, Requests, Results
  <2>4. OrderType'
    BY <1>3, <2>1, <2>2, <2>3 DEF IInv, OrderType
  <2>5. NoStuckProgress'
    BY <1>3, <2>3 DEF NoStuckProgress, Request
  <2> QED
    BY <1>1, <2>4, <2>5, Frames DEF IInv, navi
<1> QED
  BY <1>2, <1>3 DEF DialogClosed

\* An answer replaces a request of the same kind, result and order apart.
LEMMA AnsweredInv ==
  ASSUME IInv, NEW r \in requests, NEW n \in 0..MaxChanges,
         NEW result \in Results,
         requests' = (requests \ {r})
                       \cup {[r EXCEPT !.result = result, !.order = n]},
         UNCHANGED <<dialog, progress, orders>>
  PROVE  OrderType' /\ NoStuckProgress'
<1>1. r \in Requests
  BY DEF IInv, OrderType
<1>2. PICK q : q = [r EXCEPT !.result = result, !.order = n]
  OBVIOUS
<1>3. q \in Requests /\ q.kind = r.kind /\ q.no = r.no
  BY <1>1, <1>2 DEF Requests
<1>4. requests' = (requests \ {r}) \cup {q}
  BY <1>2
<1>5. requests' \in SUBSET Requests
  BY <1>3, <1>4 DEF IInv, OrderType
<1>6. OrderType'
  BY <1>5 DEF IInv, OrderType
<1>7. NoStuckProgress'
  BY <1>3, <1>4 DEF IInv, NoStuckProgress
<1> QED
  BY <1>6, <1>7

LEMMA OrderIsAnsweredInv ==
  ASSUME IInv, NEW r \in requests, OrderIsAnswered(r)
  PROVE  IInv'
<1> DEFINE has == r.board \in DOMAIN boards
           order == IF has THEN boards[r.board].OrderDetailUrl ELSE 0
           Put(n) == boards' = [boards EXCEPT ![r.board].OrderDetailUrl = n]
<1>1. UNCHANGED <<process, app, map, navi>>
         /\ UNCHANGED <<dialog, progress, orders>>
  BY DEF OrderIsAnswered
<1>2. r \in Requests /\ IsMap(boards) /\ changes \in 0..MaxChanges
  BY DEF IInv, OrderType, ServiceType
<1>3. order \in 0..MaxChanges
  BY <1>2 DEF IsMap, Statuses
<1>4. OrderType' /\ NoStuckProgress'
  <2>1. \A result : [r EXCEPT !.result = result]
                      = [r EXCEPT !.result = result, !.order = r.order]
    BY <1>2 DEF Requests
  <2>2. \E result \in Results, n \in 0..MaxChanges :
          requests' = (requests \ {r})
                        \cup {[r EXCEPT !.result = result, !.order = n]}
    BY <1>2, <1>3, <2>1 DEF OrderIsAnswered, Answered, Results, Requests
  <2> QED
    BY <1>1, <2>2, AnsweredInv
<1>5. ASSUME NEW n \in 0..MaxChanges, Put(n)
      PROVE  IsMap(boards')
  <2>1. ASSUME has
        PROVE  [boards[r.board] EXCEPT !.OrderDetailUrl = n] \in Statuses
    <3>1. boards[r.board] \in Statuses
      BY <1>2, <2>1 DEF IsMap
    <3> QED
      BY <3>1, Zenon DEF Statuses
  <2>2. boards' = [boards EXCEPT ![r.board] =
                     [boards[r.board] EXCEPT !.OrderDetailUrl = n]]
    BY <1>5, Zenon
  <2> QED
    BY <1>2, <2>1, <2>2 DEF IsMap
<1>6. ServiceType'
  <2>1. \/ UNCHANGED service
        \/ changes < MaxChanges /\ changes' = changes + 1 /\ Put(changes')
        \/ Put(0) /\ UNCHANGED changes
    BY DEF OrderIsAnswered
  <2> HIDE DEF Put
  <2> QED
    BY <1>2, <1>5, <2>1 DEF ServiceType, service, IsMap
<1> QED
  BY <1>1, <1>4, <1>6, Frames DEF IInv, navi

(* Every callback closes the dialog, so what it removes from the requests  *)
(* nobody waits for.                                                       *)
LEMMA OrderFinishedInv ==
  ASSUME IInv, NEW r \in requests, OrderFinished(r)
  PROVE  IInv'
<1>1. UNCHANGED <<app, service, map, navi, dialog, orders>>
        /\ progress' = FALSE
  BY DEF OrderFinished, DismissedBy
<1>2. NoStuckProgress'
  BY <1>1 DEF NoStuckProgress
<1>3. r \in Requests
  BY DEF IInv, OrderType
<1>4. Request(r.no, "DELETE", r.board, r.order) \in Requests
  BY <1>3 DEF Request, Requests, Results
<1>5. requests' \in SUBSET Requests
  BY <1>4 DEF OrderFinished, IInv, OrderType
<1>6. OrderType'
  BY <1>1, <1>5, Zenon DEF IInv, OrderType
<1>7. process' \in {"alive", "dead"}
  BY DEF OrderFinished, Reports, IInv, AppType
<1>8. AppType'
  BY <1>1, <1>7 DEF AppType, IInv, app
<1> QED
  BY <1>1, <1>2, <1>6, <1>8, Frames DEF IInv, navi
-----------------------------------------------------------------------------
LEMMA StepInv ==
  ASSUME IInv, [Next]_vars
  PROVE  IInv'
<1>1. CASE UNCHANGED vars
  BY <1>1, Frames DEF vars, IInv, app, service, map, ordering
<1>2. CASE \E b \in Boards : BoardChanges(b) \/ BitMapClicked(b)
  BY <1>2, BoardChangesInv, ClickInv
<1>3. CASE OpenNavi \/ Leave \/ Return \/ Back
  BY <1>3, MovesInv
<1>4. CASE DialogClosed
  BY <1>4, DialogInv
<1>5. CASE MapLoop
  BY <1>5, MapLoopInv
<1>6. CASE NaviLoop
  BY <1>6, NaviWaitsInv, PollSucceedsInv, PollFailsInv DEF NaviLoop
<1>7. CASE \E r \in requests : OrderIsAnswered(r) \/ OrderFinished(r)
  BY <1>7, OrderIsAnsweredInv, OrderFinishedInv
<1> QED
  BY <1>1, <1>2, <1>3, <1>4, <1>5, <1>6, <1>7 DEF Next

LEMMA Inductive == Spec => []IInv
<1> USE DEF Spec
<1> QED
  BY InitInv, StepInv, PTL

(* Every variable keeps the values that the code gives it, whatever the    *)
(* order of polls, changes of the boards, moves of the user and answers.   *)
THEOREM TypeCorrect == Spec => []TypeOK
BY Inductive, TypeParts, PTL

(* NaviActivity.java:504-569. Every board that is drawn is one that        *)
(* boardsInBuilding holds, and looks as it does there.                     *)
THEOREM DrawnIsAlwaysKnown == Spec => []DrawnIsKnown
<1>1. IInv => DrawnIsKnown
  BY DEF IInv
<1> QED
  BY <1>1, Inductive, PTL

(* NaviActivity.java:809-955. The progress dialog, which cannot be         *)
(* cancelled, shows only while the answer to its own order is to come.     *)
THEOREM ProgressNeverStuck == Spec => []NoStuckProgress
<1>1. IInv => NoStuckProgress
  BY DEF IInv
<1> QED
  BY <1>1, Inductive, PTL
=============================================================================
