--------------------------- MODULE TaskChainProofs ---------------------------
(* Theorems about TaskChain, for any set of tasks and waiting threads and  *)
(* any number of actions per task.                                         *)
EXTENDS TaskChain, SequenceTheorems, TLAPS

-----------------------------------------------------------------------------
(* Queues.                                                                 *)

LEMMA AppendFacts ==
  ASSUME NEW S, NEW q \in Seq(S), NEW e \in S
  PROVE  /\ Append(q, e) \in Seq(S) /\ Append(q, e) # <<>>
         /\ Len(q) \in Nat /\ Len(Append(q, e)) = Len(q) + 1
         /\ DOMAIN q = 1..Len(q) /\ DOMAIN Append(q, e) = 1..(Len(q) + 1)
         /\ \A i \in 1..Len(q) : Append(q, e)[i] = q[i]
         /\ Append(q, e)[Len(q) + 1] = e
<1>1. /\ Append(q, e) \in Seq(S) /\ Len(Append(q, e)) = Len(q) + 1
      /\ \A i \in 1..Len(q) : Append(q, e)[i] = q[i]
      /\ Append(q, e)[Len(q) + 1] = e
  OBVIOUS
<1>2. Len(q) \in Nat /\ DOMAIN q = 1..Len(q)
  BY LenProperties
<1>3. DOMAIN Append(q, e) = 1..(Len(q) + 1)
  BY <1>1, LenProperties
<1>4. Append(q, e) # <<>>
  BY <1>1, <1>2, EmptySeq
<1> QED
  BY <1>1, <1>2, <1>3, <1>4

LEMMA FrontFacts ==
  ASSUME NEW S, NEW q \in Seq(S), q # <<>>
  PROVE  /\ q[1] \in S /\ Tail(q) \in Seq(S)
         /\ Len(q) \in Nat /\ Len(q) >= 1 /\ Len(Tail(q)) = Len(q) - 1
         /\ DOMAIN q = 1..Len(q) /\ DOMAIN Tail(q) = 1..(Len(q) - 1)
         /\ \A i \in 1..(Len(q) - 1) : Tail(q)[i] = q[i + 1]
<1>1. Len(q) \in Nat \ {0} /\ DOMAIN q = 1..Len(q)
  BY EmptySeq, LenProperties
<1>2. q[1] \in S
  BY <1>1, ElementOfSeq
<1>3. /\ Tail(q) \in Seq(S) /\ Len(Tail(q)) = Len(q) - 1
      /\ \A i \in 1..Len(Tail(q)) : Tail(q)[i] = q[i + 1]
  BY HeadTailProperties
<1>4. DOMAIN Tail(q) = 1..(Len(q) - 1)
  BY <1>3, LenProperties
<1> QED
  BY <1>1, <1>2, <1>3, <1>4
-----------------------------------------------------------------------------
(* Types.                                                                  *)

LEMMA TypeInit == Init => TypeOK
<1> SUFFICES ASSUME Init PROVE TypeOK
  OBVIOUS
<1>1. 1 \in Actions
  BY TaskChainAssumption DEF Actions
<1>2. NoWait \in Waits
  BY DEF NoWait, Waits
<1>3. /\ <<>> \in Seq(Actions) /\ <<>> \in Seq(Jobs) /\ <<>> \in Seq(Calls)
  OBVIOUS
<1>4. /\ given \in [Tasks -> Actions]
      /\ continuation \in [Tasks -> Seq(Actions)]
      /\ started \in SUBSET Tasks /\ listening \in SUBSET started
      /\ results \in [Tasks -> Seq(Actions)]
      /\ exceptions \in [Tasks -> SUBSET Actions]
      /\ heard \in [Tasks -> Seq(Calls)]
      /\ begun \in [Tasks -> Seq(Actions)]
  BY <1>1, <1>3 DEF Init
<1>5. /\ isCompleted \in [Tasks -> BOOLEAN] /\ isFaulted \in [Tasks -> BOOLEAN]
      /\ isCancelling \in [Tasks -> BOOLEAN]
      /\ isCancelled \in [Tasks -> BOOLEAN]
      /\ wait \in [Waiters -> Waits] /\ firstRead \in BOOLEAN
  BY <1>2, Zenon DEF Init
<1>6. /\ queue \in Seq(Jobs) /\ at \in WorkerPlaces
      /\ at # "idle" => queue # <<>>
      /\ uiQueue \in Seq(Jobs) /\ uiAt \in UIPlaces
      /\ uiAt = "listener" => uiQueue # <<>>
  BY <1>3 DEF Init, WorkerPlaces, UIPlaces
<1> QED
  BY <1>4, <1>5, <1>6 DEF TypeOK

LEMMA TypeLaunch ==
  ASSUME TypeOK, NEW t \in Tasks, Launch(t),
         listening' \in SUBSET started', wait' \in [Waiters -> Waits],
         UNCHANGED <<given, continuation, isFaulted, isCancelling, isCancelled,
                     stored, at, begun, ui>>
  PROVE  TypeOK'
<1>1. Job(t, 1) \in Jobs
  BY TaskChainAssumption DEF Job, Jobs, Actions
<1>2. queue \in Seq(Jobs) /\ queue' = Append(queue, Job(t, 1))
  BY DEF Launch, TypeOK
<1>3. queue' \in Seq(Jobs) /\ queue' # <<>>
  BY <1>1, <1>2, AppendFacts
<1> QED
  BY <1>3 DEF TypeOK, Launch, stored, ui

LEMMA TypeUser ==
  ASSUME TypeOK, UserStep
  PROVE  TypeOK'
<1> USE DEF ui, stored, flags, background, built
<1> PICK t \in Tasks : \/ ContinueWith(t)
                       \/ \E l \in BOOLEAN : Start(t, l)
                       \/ Cancel(t)
  BY DEF UserStep
<1>1. CASE ContinueWith(t)
  <2>1. given[t] + 1 \in Actions
    BY <1>1, TaskChainAssumption DEF ContinueWith, Actions, TypeOK
  <2>2. given' \in [Tasks -> Actions] /\ continuation' \in [Tasks -> Seq(Actions)]
    BY <1>1, <2>1 DEF ContinueWith, TypeOK
  <2> QED
    BY <1>1, <2>2 DEF ContinueWith, TypeOK
<1>2. ASSUME NEW l \in BOOLEAN, Start(t, l) PROVE TypeOK'
  <2>1. Launch(t)
    BY <1>2 DEF Start
  <2>2. listening' \in SUBSET started' /\ UNCHANGED <<given, continuation,
          isFaulted, isCancelling, isCancelled, stored, at, begun, ui, wait>>
    BY <1>2 DEF Start, Launch, TypeOK
  <2>3. wait' \in [Waiters -> Waits]
    BY <2>2 DEF TypeOK
  <2> QED
    BY <2>1, <2>2, <2>3, TypeLaunch
<1>3. CASE Cancel(t)
  BY <1>3 DEF Cancel, TypeOK
<1> QED
  BY <1>1, <1>2, <1>3

LEMMA TypeUI ==
  ASSUME TypeOK, UIStep
  PROVE  TypeOK'
<1> USE DEF ui, stored, flags, background, built
<1>0. uiQueue # <<>> => /\ uiQueue[1] \in Jobs /\ Tail(uiQueue) \in Seq(Jobs)
                        /\ uiQueue[1].task \in Tasks
                        /\ uiQueue[1].action \in Actions
  <2>1. uiQueue \in Seq(Jobs)
    BY DEF TypeOK
  <2>2. uiQueue # <<>> => uiQueue[1] \in Jobs /\ Tail(uiQueue) \in Seq(Jobs)
    BY <2>1, FrontFacts
  <2> QED
    BY <2>2 DEF Jobs
<1>1. CASE DropMessage
  BY <1>0, <1>1 DEF DropMessage, TypeOK
<1>2. CASE ListenerReadsFirst
  <2>1. firstRead' \in BOOLEAN
    BY <1>0, <1>2 DEF ListenerReadsFirst, TypeOK
  <2> QED
    BY <1>2, <2>1 DEF ListenerReadsFirst, TypeOK, UIPlaces
<1>3. CASE ListenerReadsSecond
  <2> DEFINE m == uiQueue[1]
  <2>1. uiQueue # <<>>
    BY <1>3 DEF ListenerReadsSecond, TypeOK
  <2>2. CallSeen(m.task, m.action) \in Calls
    BY <1>0, <2>1 DEF CallSeen, Calls, TypeOK
  <2>3. heard' \in [Tasks -> Seq(Calls)]
    BY <1>0, <1>3, <2>1, <2>2 DEF ListenerReadsSecond, TypeOK
  <2> QED
    BY <1>0, <1>3, <2>1, <2>3 DEF ListenerReadsSecond, TypeOK, UIPlaces
<1> QED
  BY <1>1, <1>2, <1>3 DEF UIStep

LEMMA TypeWorker ==
  ASSUME TypeOK, WorkerStep
  PROVE  TypeOK'
<1> USE DEF ui, stored, flags, background, built
<1>0. queue # <<>> => /\ Front \in Jobs /\ Tail(queue) \in Seq(Jobs)
                      /\ Front.task \in Tasks /\ Front.action \in Actions
  <2>1. queue \in Seq(Jobs)
    BY DEF TypeOK
  <2>2. queue # <<>> => Front \in Jobs /\ Tail(queue) \in Seq(Jobs)
    BY <2>1, FrontFacts DEF Front
  <2> QED
    BY <2>2 DEF Jobs
<1>1. CASE Begin
  <2>1. begun' \in [Tasks -> Seq(Actions)]
    BY <1>0, <1>1 DEF Begin, TypeOK
  <2> QED
    BY <1>1, <2>1 DEF Begin, TypeOK, WorkerPlaces
<1>2. CASE ExecuteReturns
  BY <1>2 DEF ExecuteReturns, TypeOK, WorkerPlaces
<1>3. CASE ExecuteThrows
  BY <1>0, <1>3 DEF ExecuteThrows, TypeOK, WorkerPlaces
<1>4. CASE FinishCancelled
  BY <1>0, <1>4 DEF FinishCancelled, TypeOK, WorkerPlaces
<1>5. CASE FinishWithNext
  <2> DEFINE t == Front.task
  <2>1. t \in Tasks /\ continuation[t] \in Seq(Actions)
    BY <1>0, <1>5 DEF FinishWithNext, TypeOK
  <2>2. continuation[t][1] \in Actions /\ Tail(continuation[t]) \in Seq(Actions)
    BY <1>5, <2>1, FrontFacts DEF FinishWithNext
  <2>3. Job(t, continuation[t][1]) \in Jobs
    BY <2>1, <2>2 DEF Job, Jobs
  <2>4. queue' \in Seq(Jobs) /\ queue' # <<>>
    <3>1. queue \in Seq(Jobs) /\ queue' = Append(queue, Job(t, continuation[t][1]))
      BY <1>5 DEF FinishWithNext, TypeOK
    <3> QED
      BY <2>3, <3>1, AppendFacts
  <2>5. continuation' \in [Tasks -> Seq(Actions)]
    BY <1>5, <2>2 DEF FinishWithNext, TypeOK
  <2> QED
    BY <1>5, <2>4, <2>5 DEF FinishWithNext, TypeOK, WorkerPlaces
<1>6. CASE FinishLast
  BY <1>0, <1>6 DEF FinishLast, TypeOK, WorkerPlaces
<1>7. CASE FinishFaulted
  BY <1>0, <1>7 DEF FinishFaulted, TypeOK, WorkerPlaces
<1>8. CASE FinishFaultedCompletes
  BY <1>0, <1>8 DEF FinishFaultedCompletes, TypeOK, WorkerPlaces
<1>9. CASE StoreResult
  <2>1. results' \in [Tasks -> Seq(Actions)]
    BY <1>0, <1>9 DEF StoreResult, TypeOK
  <2> QED
    BY <1>9, <2>1 DEF StoreResult, TypeOK, WorkerPlaces
<1>10. CASE Post
  <2>1. queue # <<>> /\ uiQueue \in Seq(Jobs)
    BY <1>10 DEF Post, TypeOK
  <2>2. Append(uiQueue, Front) \in Seq(Jobs) /\ Append(uiQueue, Front) # <<>>
    BY <1>0, <2>1, AppendFacts
  <2> QED
    BY <1>0, <1>10, <2>1, <2>2 DEF Post, TypeOK, WorkerPlaces
<1> QED
  BY <1>1, <1>2, <1>3, <1>4, <1>5, <1>6, <1>7, <1>8, <1>9, <1>10
     DEF WorkerStep

LEMMA TypeWait ==
  ASSUME TypeOK, NEW w \in Waiters, WaitStep(w)
  PROVE  TypeOK'
<1> USE DEF ui, stored, flags, background, built
<1>0. wait[w] \in Waits /\ wait \in [Waiters -> Waits]
  BY DEF TypeOK
<1>1. ASSUME NEW t \in Tasks, WaitUntil(w, t) PROVE TypeOK'
  <2>1. wait' \in [Waiters -> Waits]
    BY <1>0, <1>1 DEF WaitUntil, NoWait, Waits
  <2> QED
    BY <1>1, <2>1 DEF WaitUntil, TypeOK
<1>2. ASSUME NEW ts \in SUBSET Tasks, WaitAll(w, ts) PROVE TypeOK'
  <2>1. wait' \in [Waiters -> Waits]
    BY <1>0, <1>2 DEF WaitAll, NoWait, Waits
  <2> QED
    BY <1>2, <2>1 DEF WaitAll, TypeOK
<1>3. ASSUME NEW t \in Tasks, WaitAllStarts(w, t) PROVE TypeOK'
  <2>1. Launch(t) /\ wait' \in [Waiters -> Waits]
    BY <1>0, <1>3 DEF WaitAllStarts, Waits
  <2>2. listening' \in SUBSET started' /\ UNCHANGED <<given, continuation,
          isFaulted, isCancelling, isCancelled, stored, at, begun, ui>>
    BY <1>3 DEF WaitAllStarts, Launch, TypeOK
  <2> QED
    BY <2>1, <2>2, TypeLaunch
<1>4. CASE PollReturnsTrue(w)
  <2>1. wait' \in [Waiters -> Waits]
    BY <1>0, <1>4 DEF PollReturnsTrue, Waits
  <2> QED
    BY <1>4, <2>1 DEF PollReturnsTrue, TypeOK
<1>5. CASE PollSleeps(w)
  <2>1. wait' \in [Waiters -> Waits]
    BY <1>0, <1>5 DEF PollSleeps, Waits
  <2> QED
    BY <1>5, <2>1 DEF PollSleeps, TypeOK
<1>6. CASE PollTimesOut(w)
  <2>1. wait' \in [Waiters -> Waits]
    BY <1>0, <1>6 DEF PollTimesOut, Waits
  <2> QED
    BY <1>6, <2>1 DEF PollTimesOut, TypeOK
<1> QED
  BY <1>1, <1>2, <1>3, <1>4, <1>5, <1>6 DEF WaitStep, PollStep

(* Every variable keeps its type, whatever the interleaving.               *)
THEOREM TypeCorrect == Spec => []TypeOK
<1>1. TypeOK /\ [Next]_vars => TypeOK'
  <2> SUFFICES ASSUME TypeOK, [Next]_vars PROVE TypeOK'
    OBVIOUS
  <2>1. CASE UNCHANGED vars
    BY <2>1 DEF TypeOK, vars, ui, stored, flags, background, built
  <2> QED
    BY <2>1, TypeUI, TypeUser, TypeWorker, TypeWait DEF Next
<1> QED
  BY <1>1, TypeInit, PTL DEF Spec
-----------------------------------------------------------------------------
(* The inductive invariant. Every action given to a task is in exactly one *)
(* place: executed or executing (begun), in the executor (at most one      *)
(* Fresh job), or still in continuationActions.                            *)

Early == {"execute", "returned", "threw", "faulted"}
Fresh(i) == i \in DOMAIN queue /\ (i = 1 => at = "idle")
HandedOver(t) == given[t] - Len(continuation[t])
Running(t) == at # "idle" /\ Front.task = t

ContinuationInv ==
  \A t \in Tasks :
    /\ Len(continuation[t]) < given[t]
    /\ \A i \in 1..Len(continuation[t]) : continuation[t][i] = HandedOver(t) + i
    /\ t \notin started => /\ HandedOver(t) = 1
                           /\ Len(begun[t]) = 0 /\ ~isCompleted[t]

HistoryInv ==
  \A t \in Tasks :
    /\ \A i \in 1..Len(begun[t]) : begun[t][i] = i
    /\ \A i \in 1..Len(results[t]) : results[t][i] = i
    /\ Len(begun[t]) = IF Running(t) /\ at # "post" THEN Len(results[t]) + 1
                                                    ELSE Len(results[t])

QueueInv ==
  /\ \A i \in DOMAIN queue :
       LET t == queue[i].task
       IN /\ t \in started
          /\ Fresh(i) => /\ queue[i].action = Len(begun[t]) + 1
                         /\ HandedOver(t) = Len(begun[t]) + 1
          /\ i # 1 /\ at \in Early => t # Front.task
  /\ \A i, j \in DOMAIN queue :
       Fresh(i) /\ Fresh(j) /\ queue[i].task = queue[j].task => i = j
  /\ at # "idle" => Front.action = Len(begun[Front.task])
  /\ \A t \in started :
       \/ HandedOver(t) = Len(begun[t])
       \/ \E i \in DOMAIN queue : Fresh(i) /\ queue[i].task = t

OutcomeInv ==
  /\ \A t \in started : ~isCompleted[t] =>
       \E i \in DOMAIN queue : Unsettled(i) /\ queue[i].task = t
  /\ \A t \in started : isCompleted[t] =>
       \/ isFaulted[t] \/ isCancelled[t] \/ Len(continuation[t]) = 0
  /\ at = "faulted" => isFaulted[Front.task]

Safety == ContinuationInv /\ HistoryInv /\ QueueInv /\ OutcomeInv
            /\ SettledTaskIsQuiet

\* A task that some waitAll is still to start has not been started yet.
ClaimInv ==
  /\ \A w \in Waiters : \A t \in wait[w].todo : t \notin started
  /\ \A v, w \in Waiters : v # w => wait[v].todo \cap wait[w].todo = {}

IInv == TypeOK /\ Safety /\ ClaimInv

core == <<given, continuation, started, isCompleted, isFaulted, isCancelled,
          results, queue, at, begun>>

\* The types that the arithmetic of the invariant needs.
CoreTyped ==
  /\ queue \in Seq(Jobs) /\ Len(queue) \in Nat /\ DOMAIN queue = 1..Len(queue)
  /\ \A i \in 1..Len(queue) : queue[i].task \in Tasks /\ queue[i].action \in Nat
  /\ at # "idle" => /\ 1 \in DOMAIN queue /\ Front.task \in Tasks
                    /\ Front = queue[1]
  /\ \A t \in Tasks :
       /\ given[t] \in Nat
       /\ Len(continuation[t]) \in Nat /\ Len(begun[t]) \in Nat
       /\ Len(results[t]) \in Nat
       /\ DOMAIN begun[t] = 1..Len(begun[t])
       /\ DOMAIN results[t] = 1..Len(results[t])
  /\ started \subseteq Tasks

LEMMA CoreTypes == ASSUME TypeOK PROVE CoreTyped
<1>1. queue \in Seq(Jobs) /\ started \subseteq Tasks /\ (at # "idle" => queue # <<>>)
  BY DEF TypeOK
<1>2. Len(queue) \in Nat /\ DOMAIN queue = 1..Len(queue)
  BY <1>1, LenProperties
<1>3. \A i \in 1..Len(queue) : queue[i] \in Jobs
  BY <1>1, ElementOfSeq
<1>4. \A i \in 1..Len(queue) : queue[i].task \in Tasks /\ queue[i].action \in Nat
  BY <1>3, TaskChainAssumption DEF Jobs, Actions
<1>5. at # "idle" => 1 \in DOMAIN queue
  BY <1>1, <1>2, FrontFacts
<1>6. ASSUME NEW t \in Tasks
      PROVE  /\ given[t] \in Nat
             /\ Len(continuation[t]) \in Nat /\ Len(begun[t]) \in Nat
             /\ Len(results[t]) \in Nat
             /\ DOMAIN begun[t] = 1..Len(begun[t])
             /\ DOMAIN results[t] = 1..Len(results[t])
  <2>1. /\ continuation[t] \in Seq(Actions) /\ begun[t] \in Seq(Actions)
        /\ results[t] \in Seq(Actions) /\ given[t] \in Actions
    BY DEF TypeOK
  <2> QED
    BY <2>1, LenProperties, TaskChainAssumption DEF Actions
<1> QED
  BY <1>1, <1>2, <1>4, <1>5, <1>6 DEF Front, CoreTyped

LEMMA SafetyInit == Init => Safety
<1> SUFFICES ASSUME Init PROVE Safety
  OBVIOUS
<1>1. /\ queue = <<>> /\ Len(queue) = 0 /\ DOMAIN queue = {} /\ at = "idle"
      /\ started = {}
  BY DEF Init
<1>2. \A t \in Tasks : /\ continuation[t] = <<>> /\ begun[t] = <<>>
                       /\ results[t] = <<>> /\ given[t] = 1 /\ ~isCompleted[t]
  BY DEF Init
<1>3. Len(<<>>) = 0
  OBVIOUS
<1>4. ContinuationInv /\ HistoryInv
  BY <1>1, <1>2, <1>3 DEF ContinuationInv, HistoryInv, HandedOver, Running
<1> QED
  BY <1>1, <1>2, <1>4 DEF Safety, QueueInv, OutcomeInv, SettledTaskIsQuiet

LEMMA SafetyFrame == Safety /\ UNCHANGED core => Safety'
BY DEF Safety, core, ContinuationInv, HistoryInv, QueueInv, OutcomeInv,
       SettledTaskIsQuiet, HandedOver, Running, Fresh, Unsettled, Front

LEMMA SafetyContinueWith ==
  ASSUME IInv, NEW t \in Tasks, ContinueWith(t)
  PROVE  Safety'
<1>0. TypeOK /\ ContinuationInv /\ HistoryInv /\ QueueInv /\ OutcomeInv
        /\ SettledTaskIsQuiet /\ CoreTyped
  BY CoreTypes DEF IInv, Safety
<1>1. /\ t \notin started
      /\ given' = [given EXCEPT ![t] = @ + 1]
      /\ continuation' = [continuation EXCEPT ![t] = Append(@, given[t] + 1)]
      /\ UNCHANGED <<started, isCompleted, isFaulted, isCancelled, results,
                     queue, at, begun>>
  BY DEF ContinueWith, built, flags, stored, background
<1>2. continuation[t] \in Seq(Nat) /\ given[t] + 1 \in Nat
  <2>1. continuation[t] \in Seq(Actions) /\ given[t] \in Nat
    BY <1>0 DEF TypeOK, CoreTyped
  <2>2. Actions \subseteq Nat
    BY TaskChainAssumption DEF Actions
  <2>3. continuation[t] \in Seq(Nat)
    BY <2>1, <2>2, SeqMonotonic, Zenon
  <2> QED
    BY <2>1, <2>3
<1>3. /\ continuation'[t] = Append(continuation[t], given[t] + 1)
      /\ given'[t] = given[t] + 1
      /\ \A u \in Tasks : u # t => continuation'[u] = continuation[u]
                                   /\ given'[u] = given[u]
  BY <1>0, <1>1 DEF TypeOK
<1>4. /\ Len(continuation'[t]) = Len(continuation[t]) + 1
      /\ \A i \in 1..Len(continuation[t]) : continuation'[t][i] = continuation[t][i]
      /\ continuation'[t][Len(continuation[t]) + 1] = given[t] + 1
  BY <1>2, <1>3, AppendFacts
<1>5. \A u \in Tasks : HandedOver(u)' = HandedOver(u)
  <2>1. given[t] \in Nat /\ Len(continuation[t]) \in Nat
    BY <1>0 DEF CoreTyped
  <2>2. HandedOver(t)' = HandedOver(t)
    <3>1. /\ given'[t] = given[t] + 1
          /\ Len(continuation'[t]) = Len(continuation[t]) + 1
      BY <1>3, <1>4
    <3>2. given'[t] - Len(continuation'[t]) = given[t] - Len(continuation[t])
      BY <2>1, <3>1
    <3> QED
      BY <3>2 DEF HandedOver
  <2>3. \A u \in Tasks : u # t => HandedOver(u)' = HandedOver(u)
    BY <1>3 DEF HandedOver
  <2> QED
    BY <2>2, <2>3
<1>6. ContinuationInv'
  <2> SUFFICES ASSUME NEW u \in Tasks
               PROVE  /\ Len(continuation'[u]) < given'[u]
                      /\ \A i \in 1..Len(continuation'[u]) :
                           continuation'[u][i] = HandedOver(u)' + i
                      /\ u \notin started' => /\ HandedOver(u)' = 1
                                              /\ Len(begun'[u]) = 0
                                              /\ ~isCompleted'[u]
    BY DEF ContinuationInv
  <2>1. CASE u # t
    BY <1>0, <1>1, <1>3, <1>5, <2>1 DEF ContinuationInv
  <2>2. CASE u = t
    <3>1. given[t] \in Nat /\ Len(continuation[t]) \in Nat
      BY <1>0 DEF CoreTyped
    <3>2. given[t] + 1 = HandedOver(t) + (Len(continuation[t]) + 1)
      BY <3>1 DEF HandedOver
    <3>3. /\ Len(continuation[t]) < given[t] /\ HandedOver(t) = 1
          /\ \A i \in 1..Len(continuation[t]) :
               continuation[t][i] = HandedOver(t) + i
          /\ Len(begun[t]) = 0 /\ ~isCompleted[t]
      BY <1>0, <1>1 DEF ContinuationInv
    <3> QED
      BY <1>1, <1>3, <1>4, <1>5, <2>2, <3>1, <3>2, <3>3
  <2> QED
    BY <2>1, <2>2
<1>7. HistoryInv' /\ SettledTaskIsQuiet'
  BY <1>0, <1>1 DEF HistoryInv, SettledTaskIsQuiet, Running, Front, Unsettled
<1>8. QueueInv'
  BY <1>0, <1>1, <1>5 DEF QueueInv, Fresh, Front, CoreTyped
<1>9. OutcomeInv'
  BY <1>0, <1>1, <1>3 DEF OutcomeInv, Unsettled, Front
<1> QED
  BY <1>6, <1>7, <1>8, <1>9 DEF Safety

LEMMA SafetyLaunch ==
  ASSUME IInv, NEW t \in Tasks, t \notin started, Launch(t),
         UNCHANGED <<given, continuation, isFaulted, isCancelled, results, at,
                     begun>>
  PROVE  Safety'
<1>0. TypeOK /\ ContinuationInv /\ HistoryInv /\ QueueInv /\ OutcomeInv
        /\ SettledTaskIsQuiet /\ CoreTyped
  BY CoreTypes DEF IInv, Safety
<1>a. /\ queue \in Seq(Jobs) /\ Len(queue) \in Nat
      /\ DOMAIN queue = 1..Len(queue) /\ started \subseteq Tasks
  BY <1>0 DEF CoreTyped
<1>1. Job(t, 1) \in Jobs /\ Job(t, 1).task = t /\ Job(t, 1).action = 1
  BY TaskChainAssumption DEF Job, Jobs, Actions
<1>2. /\ queue' = Append(queue, Job(t, 1))
      /\ isCompleted'[t] = FALSE
      /\ \A u \in Tasks : u # t => isCompleted'[u] = isCompleted[u]
      /\ \A u : u \in started' <=> u \in started \/ u = t
  BY <1>0 DEF Launch, TypeOK
<1> PICK n \in Nat : n = Len(queue) + 1
  BY <1>a
<1>3. /\ n \in Nat /\ n = Len(queue) + 1 /\ n \in 1..n
      /\ DOMAIN queue' = 1..n /\ DOMAIN queue = 1..Len(queue)
      /\ \A i \in 1..Len(queue) : queue'[i] = queue[i] /\ i \in 1..n /\ i # n
      /\ \A i \in 1..n : i = n \/ i \in 1..Len(queue)
      /\ queue'[n] = Job(t, 1)
  <2>2. /\ DOMAIN queue' = 1..(Len(queue) + 1) /\ DOMAIN queue = 1..Len(queue)
        /\ \A i \in 1..Len(queue) : queue'[i] = queue[i]
        /\ queue'[Len(queue) + 1] = Job(t, 1)
    BY <1>a, <1>1, <1>2, AppendFacts
  <2> QED
    BY <1>a, <2>2
<1>4. \A i \in 1..Len(queue) : queue[i].task \in Tasks /\ queue[i].task # t
  BY <1>0, <1>a DEF QueueInv
<1>5. /\ HandedOver(t) = 1 /\ Len(begun[t]) = 0 /\ ~isCompleted[t]
      /\ at # "idle" => n # 1 /\ Front' = Front
  BY <1>0, <1>a, <1>3 DEF ContinuationInv, Front, CoreTyped
<1>6. ContinuationInv'
  BY <1>0, <1>2 DEF ContinuationInv, HandedOver
<1>7. HistoryInv'
  BY <1>0, <1>5 DEF HistoryInv, Running
<1>b. \A u \in Tasks : HandedOver(u)' = HandedOver(u)
  BY DEF HandedOver
<1>c. \A i \in 1..Len(queue) : /\ Fresh(i)' <=> Fresh(i)
                               /\ Unsettled(i)' <=> Unsettled(i)
  BY <1>a, <1>3 DEF Fresh, Unsettled
<1>d. Fresh(n)' /\ Unsettled(n)'
  BY <1>3, <1>5 DEF Fresh, Unsettled
<1>8. QueueInv'
  <2>4. ASSUME NEW i \in DOMAIN queue', NEW u, u = queue'[i].task
        PROVE  /\ u \in started' /\ u \in Tasks
               /\ Fresh(i)' => /\ queue'[i].action = Len(begun'[u]) + 1
                               /\ HandedOver(u)' = Len(begun'[u]) + 1
               /\ i # 1 /\ at' \in Early => u # Front'.task
    <3>1. CASE i = n
      <4>1. at' \in Early => Front'.task # t
        BY <1>0, <1>4, <1>5 DEF Early, CoreTyped
      <4>2. u = t /\ queue'[i].action = 1 /\ t \in started'
        BY <1>1, <1>2, <1>3, <2>4, <3>1
      <4>3. HandedOver(t)' = 1 /\ Len(begun'[t]) = 0
        BY <1>5, <1>b
      <4> QED
        BY <4>1, <4>2, <4>3
    <3>2. CASE i \in 1..Len(queue)
      <4>1. queue'[i] = queue[i] /\ u = queue[i].task /\ u \in Tasks
        BY <1>3, <1>4, <2>4, <3>2
      <4>2. /\ u \in started
            /\ Fresh(i) => /\ queue[i].action = Len(begun[u]) + 1
                           /\ HandedOver(u) = Len(begun[u]) + 1
            /\ i # 1 /\ at \in Early => u # Front.task
        BY <1>0, <1>a, <3>2, <4>1 DEF QueueInv
      <4>3. at' \in Early => Front' = Front
        BY <1>5 DEF Early
      <4> QED
        BY <1>2, <1>b, <1>c, <3>2, <4>1, <4>2, <4>3
    <3> QED
      BY <1>3, <3>1, <3>2
  <2>5. \A i, j \in DOMAIN queue' :
          Fresh(i)' /\ Fresh(j)' /\ queue'[i].task = queue'[j].task => i = j
    BY <1>0, <1>a, <1>1, <1>3, <1>4, <1>c DEF QueueInv
  <2>6. at' # "idle" => Front'.action = Len(begun'[Front'.task])
    BY <1>0, <1>5 DEF QueueInv
  <2>7. ASSUME NEW u \in started'
        PROVE  \/ HandedOver(u)' = Len(begun'[u])
               \/ \E i \in DOMAIN queue' : Fresh(i)' /\ queue'[i].task = u
    <3>1. CASE u = t
      BY <1>1, <1>3, <1>d, <3>1
    <3>2. CASE u # t
      <4>1. u \in started /\ u \in Tasks
        BY <1>a, <1>2, <3>2
      <4>2. \/ HandedOver(u) = Len(begun[u])
            \/ \E i \in 1..Len(queue) : Fresh(i) /\ queue[i].task = u
        BY <1>0, <1>a, <4>1 DEF QueueInv
      <4> QED
        BY <1>3, <1>b, <1>c, <4>1, <4>2
    <3> QED
      BY <3>1, <3>2
  <2> QED
    BY <2>4, <2>5, <2>6, <2>7 DEF QueueInv, HandedOver
<1>9. OutcomeInv'
  <2>3. ASSUME NEW u \in started', ~isCompleted'[u]
        PROVE  \E i \in DOMAIN queue' : Unsettled(i)' /\ queue'[i].task = u
    <3>1. CASE u = t
      BY <1>1, <1>3, <1>d, <3>1
    <3>2. CASE u # t
      <4>1. u \in started /\ ~isCompleted[u]
        BY <1>a, <1>2, <2>3, <3>2
      <4>2. \E i \in 1..Len(queue) : Unsettled(i) /\ queue[i].task = u
        BY <1>0, <1>a, <4>1 DEF OutcomeInv
      <4> QED
        BY <1>3, <1>c, <4>2
    <3> QED
      BY <3>1, <3>2
  <2>4. ASSUME NEW u \in started', isCompleted'[u]
        PROVE  isFaulted'[u] \/ isCancelled'[u] \/ Len(continuation'[u]) = 0
    <3>1. u \in started /\ isCompleted[u]
      BY <1>a, <1>2, <2>4
    <3> QED
      BY <1>0, <3>1 DEF OutcomeInv
  <2>5. at' = "faulted" => isFaulted'[Front'.task]
    BY <1>0, <1>5 DEF OutcomeInv
  <2> QED
    BY <2>3, <2>4, <2>5 DEF OutcomeInv
<1>10. SettledTaskIsQuiet'
  BY <1>0, <1>a, <1>1, <1>2, <1>3, <1>c DEF SettledTaskIsQuiet
<1> QED
  BY <1>6, <1>7, <1>8, <1>9, <1>10 DEF Safety

\* Steps of the background thread inside one job that leave the queue alone.
LEMMA SafetyInPlace ==
  ASSUME IInv, at # "idle", at' # "idle", at' \in Early => at \in Early,
         UNCHANGED <<given, continuation, started, queue, begun>>
  PROVE  /\ QueueInv' /\ Front.task \in started
         /\ (at # "post" /\ at' # "post" /\ UNCHANGED results) => HistoryInv'
         /\ (\A t \in Tasks : t \notin started => ~isCompleted'[t])
              => ContinuationInv'
<1>0. TypeOK /\ ContinuationInv /\ HistoryInv /\ QueueInv /\ CoreTyped
  BY CoreTypes DEF IInv, Safety
<1>1. Front' = Front /\ Front.task \in started
  BY <1>0 DEF CoreTyped, QueueInv, Front
<1>2. \A i : Fresh(i)' <=> Fresh(i)
  BY DEF Fresh
<1>3. \A t : HandedOver(t)' = HandedOver(t)
  BY DEF HandedOver
<1>4. QueueInv'
  BY <1>0, <1>1, <1>2, <1>3 DEF QueueInv
<1>5. (at # "post" /\ at' # "post" /\ UNCHANGED results) => HistoryInv'
  BY <1>0, <1>1 DEF HistoryInv, Running
<1>6. (\A t \in Tasks : t \notin started => ~isCompleted'[t]) => ContinuationInv'
  BY <1>0, <1>3 DEF ContinuationInv
<1> QED
  BY <1>1, <1>4, <1>5, <1>6

LEMMA SafetyExecute ==
  ASSUME IInv, at = "execute", at' \in {"returned", "threw"},
         UNCHANGED <<given, continuation, started, isCompleted, isFaulted,
                     isCancelled, results, queue, begun>>
  PROVE  Safety'
<1>0. TypeOK /\ ContinuationInv /\ OutcomeInv /\ SettledTaskIsQuiet
  BY DEF IInv, Safety
<1>1. QueueInv' /\ HistoryInv' /\ ContinuationInv'
  BY <1>0, SafetyInPlace DEF Early, ContinuationInv
<1>2. \A i : Unsettled(i)' <=> Unsettled(i)
  BY DEF Unsettled
<1>3. OutcomeInv' /\ SettledTaskIsQuiet'
  BY <1>0, <1>2 DEF OutcomeInv, SettledTaskIsQuiet
<1> QED
  BY <1>1, <1>3 DEF Safety

\* The last or only flag that onActionFinished sets is isCompleted.
LEMMA SafetyComplete ==
  ASSUME IInv, at \in Early \ {"execute"}, at' = "store",
         isCompleted' = [isCompleted EXCEPT ![Front.task] = TRUE],
         \A t \in Tasks : isCancelled[t] => isCancelled'[t],
         \/ isFaulted[Front.task] \/ isCancelled'[Front.task]
         \/ continuation[Front.task] = <<>>,
         UNCHANGED <<given, continuation, started, isFaulted, results, queue,
                     begun>>
  PROVE  Safety'
<1>0. TypeOK /\ ContinuationInv /\ HistoryInv /\ QueueInv /\ OutcomeInv
        /\ SettledTaskIsQuiet /\ CoreTyped
  BY CoreTypes DEF IInv, Safety
<1> PICK k \in Tasks : k = Front.task
  BY <1>0 DEF CoreTyped, Early
<1>1. /\ isCompleted'[k] /\ k \in started
      /\ \A t \in Tasks : t # k => isCompleted'[t] = isCompleted[t]
  BY <1>0, SafetyInPlace DEF TypeOK, Early
<1>2. QueueInv' /\ HistoryInv' /\ ContinuationInv'
  BY <1>0, <1>1, SafetyInPlace DEF Early, ContinuationInv
<1>3. /\ \A i : i # 1 => (Unsettled(i)' <=> Unsettled(i))
      /\ ~Unsettled(1)'
      /\ DOMAIN queue = 1..Len(queue) /\ queue[1].task = k
      /\ \A i \in DOMAIN queue : i # 1 => queue[i].task # k
  BY <1>0 DEF Unsettled, CoreTyped, Early, QueueInv, Front
<1>4. OutcomeInv'
  <2>1. ASSUME NEW t \in started, ~isCompleted'[t]
        PROVE  \E i \in DOMAIN queue : Unsettled(i)' /\ queue[i].task = t
    BY <1>0, <1>1, <1>3, <2>1 DEF OutcomeInv, CoreTyped
  <2>2. ASSUME NEW t \in started, isCompleted'[t]
        PROVE  isFaulted'[t] \/ isCancelled'[t] \/ Len(continuation'[t]) = 0
    <3>1. CASE t = k
      BY <3>1, EmptySeq
    <3>2. CASE t # k
      BY <1>0, <1>1, <2>2, <3>2 DEF OutcomeInv, CoreTyped
    <3> QED
      BY <3>1, <3>2
  <2> QED
    BY <2>1, <2>2 DEF OutcomeInv
<1>5. SettledTaskIsQuiet'
  BY <1>0, <1>1, <1>3 DEF SettledTaskIsQuiet, CoreTyped
<1> QED
  BY <1>2, <1>4, <1>5 DEF Safety

LEMMA SafetyFinishFaulted ==
  ASSUME IInv, FinishFaulted
  PROVE  Safety'
<1>0. TypeOK /\ ContinuationInv /\ HistoryInv /\ QueueInv /\ OutcomeInv
        /\ SettledTaskIsQuiet /\ CoreTyped
  BY CoreTypes DEF IInv, Safety
<1>1. /\ at = "threw" /\ at' = "faulted"
      /\ isFaulted' = [isFaulted EXCEPT ![Front.task] = TRUE]
      /\ UNCHANGED <<given, continuation, started, isCompleted, isCancelled,
                     results, queue, begun>>
  BY DEF FinishFaulted, built, stored
<1>2. QueueInv' /\ HistoryInv' /\ ContinuationInv'
  BY <1>0, <1>1, SafetyInPlace DEF Early, ContinuationInv
<1>3. \A i : Unsettled(i)' <=> Unsettled(i)
  BY <1>1 DEF Unsettled
<1>4. Front' = Front /\ Front.task \in Tasks
  BY <1>0, <1>1 DEF Front, CoreTyped
<1>5. /\ isFaulted'[Front.task]
      /\ \A t \in Tasks : isFaulted[t] => isFaulted'[t]
  BY <1>0, <1>1, <1>4 DEF TypeOK
<1>6. OutcomeInv' /\ SettledTaskIsQuiet'
  BY <1>0, <1>1, <1>3, <1>4, <1>5
     DEF OutcomeInv, SettledTaskIsQuiet, CoreTyped
<1> QED
  BY <1>2, <1>6 DEF Safety

LEMMA SafetyStoreResult ==
  ASSUME IInv, StoreResult
  PROVE  Safety'
<1>0. TypeOK /\ ContinuationInv /\ HistoryInv /\ QueueInv /\ OutcomeInv
        /\ SettledTaskIsQuiet /\ CoreTyped
  BY CoreTypes DEF IInv, Safety
<1>1. /\ at = "store" /\ at' = "post"
      /\ results' = [results EXCEPT ![Front.task] = Append(@, Front.action)]
      /\ UNCHANGED <<given, continuation, started, isCompleted, isFaulted,
                     isCancelled, queue, begun>>
  BY DEF StoreResult, built, flags
<1> PICK k \in Tasks : k = Front.task
  BY <1>0, <1>1 DEF CoreTyped
<1>2. QueueInv' /\ ContinuationInv'
  BY <1>0, <1>1, SafetyInPlace DEF Early, ContinuationInv
<1>3. /\ results[k] \in Seq(Actions) /\ Front.action \in Actions
      /\ Len(results[k]) \in Nat /\ Len(begun[k]) \in Nat
      /\ results'[k] = Append(results[k], Front.action)
      /\ \A t \in Tasks : t # k => results'[t] = results[t]
  <2>1. Front \in Jobs
    BY <1>0, <1>1, FrontFacts DEF TypeOK, Front
  <2> QED
    BY <1>0, <1>1, <2>1 DEF TypeOK, Jobs, CoreTyped
<1>4. /\ Len(results'[k]) = Len(results[k]) + 1
      /\ \A i \in 1..Len(results[k]) : results'[k][i] = results[k][i]
      /\ results'[k][Len(results[k]) + 1] = Front.action
  BY <1>3, AppendFacts
<1>5. /\ Front.action = Len(begun[k]) /\ Len(begun[k]) = Len(results[k]) + 1
      /\ \A i \in 1..Len(results[k]) : results[k][i] = i
  BY <1>0, <1>1 DEF QueueInv, HistoryInv, Running
<1>6. HistoryInv'
  <2>1. ASSUME NEW t \in Tasks
        PROVE  /\ \A i \in 1..Len(begun'[t]) : begun'[t][i] = i
               /\ \A i \in 1..Len(results'[t]) : results'[t][i] = i
               /\ Len(begun'[t]) = Len(results'[t])
    <3>1. CASE t = k
      <4>1. \A i \in 1..Len(results'[k]) : results'[k][i] = i
        BY <1>3, <1>4, <1>5
      <4> QED
        BY <1>0, <1>1, <1>4, <1>5, <3>1, <4>1 DEF HistoryInv
    <3>2. CASE t # k
      BY <1>0, <1>1, <1>3, <3>2 DEF HistoryInv, Running
    <3> QED
      BY <3>1, <3>2
  <2> QED
    BY <1>1, <2>1 DEF HistoryInv, Running
<1>7. \A i : Unsettled(i)' <=> Unsettled(i)
  BY <1>1 DEF Unsettled
<1>8. OutcomeInv' /\ SettledTaskIsQuiet'
  BY <1>0, <1>1, <1>7 DEF OutcomeInv, SettledTaskIsQuiet
<1> QED
  BY <1>2, <1>6, <1>8 DEF Safety

LEMMA SafetyBegin ==
  ASSUME IInv, Begin
  PROVE  Safety'
<1>0. TypeOK /\ ContinuationInv /\ HistoryInv /\ QueueInv /\ OutcomeInv
        /\ SettledTaskIsQuiet /\ CoreTyped
  BY CoreTypes DEF IInv, Safety
<1>1. /\ at = "idle" /\ at' = "execute" /\ queue # <<>>
      /\ begun' = [begun EXCEPT ![Front.task] = Append(@, Front.action)]
      /\ UNCHANGED <<given, continuation, started, isCompleted, isFaulted,
                     isCancelled, results, queue>>
  BY DEF Begin, built, flags, stored
<1>2. /\ queue[1] \in Jobs /\ Front = queue[1] /\ Front' = Front
      /\ 1 \in DOMAIN queue
  BY <1>0, <1>1, FrontFacts DEF CoreTyped, Front
<1> PICK k \in Tasks : k = Front.task
  BY <1>2 DEF Jobs
<1>3. /\ begun[k] \in Seq(Actions) /\ Front.action \in Actions
      /\ Len(results[k]) \in Nat /\ Len(begun[k]) \in Nat
      /\ begun'[k] = Append(begun[k], Front.action)
      /\ \A t \in Tasks : t # k => begun'[t] = begun[t]
  BY <1>0, <1>1, <1>2 DEF TypeOK, Jobs, CoreTyped
<1>4. /\ Len(begun'[k]) = Len(begun[k]) + 1
      /\ \A i \in 1..Len(begun[k]) : begun'[k][i] = begun[k][i]
      /\ begun'[k][Len(begun[k]) + 1] = Front.action
  BY <1>3, AppendFacts
<1>5. /\ k \in started /\ Front.action = Len(begun[k]) + 1
      /\ HandedOver(k) = Len(begun[k]) + 1
      /\ Len(begun[k]) = Len(results[k])
      /\ \A i \in 1..Len(begun[k]) : begun[k][i] = i
      /\ \A i \in DOMAIN queue : Fresh(i) /\ (i # 1 => queue[i].task # k)
  BY <1>0, <1>1, <1>2 DEF QueueInv, HistoryInv, Running, Fresh
<1>6. \A t : HandedOver(t)' = HandedOver(t)
  BY <1>1 DEF HandedOver
<1>7. ContinuationInv'
  BY <1>0, <1>1, <1>3, <1>5, <1>6 DEF ContinuationInv
<1>8. HistoryInv'
  <2>1. ASSUME NEW t \in Tasks
        PROVE  /\ \A i \in 1..Len(begun'[t]) : begun'[t][i] = i
               /\ \A i \in 1..Len(results'[t]) : results'[t][i] = i
               /\ Len(begun'[t]) = IF k = t THEN Len(results'[t]) + 1
                                            ELSE Len(results'[t])
    <3>1. CASE t = k
      <4>1. \A i \in 1..Len(begun'[k]) : begun'[k][i] = i
        BY <1>3, <1>4, <1>5
      <4> QED
        BY <1>0, <1>1, <1>4, <1>5, <3>1, <4>1 DEF HistoryInv
    <3>2. CASE t # k
      BY <1>0, <1>1, <1>3, <3>2 DEF HistoryInv, Running
    <3> QED
      BY <3>1, <3>2
  <2> QED
    BY <1>1, <1>2, <2>1 DEF HistoryInv, Running
<1>9. QueueInv'
  <2>1. \A i : Fresh(i)' <=> i # 1 /\ i \in DOMAIN queue
    BY <1>1 DEF Fresh
  <2>2. ASSUME NEW i \in DOMAIN queue, NEW u, u = queue[i].task
        PROVE  /\ u \in started
               /\ Fresh(i)' => /\ queue[i].action = Len(begun'[u]) + 1
                               /\ HandedOver(u)' = Len(begun'[u]) + 1
               /\ i # 1 => u # k
    <3>1. u \in Tasks /\ u \in started /\ (i # 1 => u # k)
      BY <1>0, <1>5, <2>2 DEF QueueInv, CoreTyped
    <3>2. queue[i].action = Len(begun[u]) + 1 /\ HandedOver(u) = Len(begun[u]) + 1
      BY <1>0, <1>5, <2>2 DEF QueueInv
    <3> QED
      BY <1>3, <1>6, <2>1, <3>1, <3>2
  <2>3. ASSUME NEW u \in started
        PROVE  \/ HandedOver(u)' = Len(begun'[u])
               \/ \E i \in DOMAIN queue : Fresh(i)' /\ queue[i].task = u
    <3>1. CASE u = k
      BY <1>4, <1>5, <1>6, <3>1
    <3>2. CASE u # k
      <4>1. u \in Tasks
        BY <1>0 DEF CoreTyped
      <4>2. \/ HandedOver(u) = Len(begun[u])
            \/ \E i \in DOMAIN queue : i # 1 /\ queue[i].task = u
        BY <1>0, <1>2, <3>2 DEF QueueInv
      <4> QED
        BY <1>3, <1>6, <2>1, <3>2, <4>1, <4>2
    <3> QED
      BY <3>1, <3>2
  <2>4. \A i, j \in DOMAIN queue : queue[i].task = queue[j].task => i = j
    BY <1>0, <1>5 DEF QueueInv
  <2>5. Front.action = Len(begun'[k])
    BY <1>4, <1>5
  <2> QED
    BY <1>1, <1>2, <2>2, <2>3, <2>4, <2>5 DEF QueueInv, HandedOver
<1>10. \A i : Unsettled(i)' <=> Unsettled(i)
  BY <1>1 DEF Unsettled
<1>11. OutcomeInv' /\ SettledTaskIsQuiet'
  BY <1>0, <1>1, <1>10 DEF OutcomeInv, SettledTaskIsQuiet
<1> QED
  BY <1>7, <1>8, <1>9, <1>11 DEF Safety

LEMMA SafetyPost ==
  ASSUME IInv, Post
  PROVE  Safety'
<1>0. TypeOK /\ ContinuationInv /\ HistoryInv /\ QueueInv /\ OutcomeInv
        /\ SettledTaskIsQuiet /\ CoreTyped
  BY CoreTypes DEF IInv, Safety
<1>1. /\ at = "post" /\ at' = "idle" /\ queue # <<>> /\ queue' = Tail(queue)
      /\ UNCHANGED <<given, continuation, started, isCompleted, isFaulted,
                     isCancelled, results, begun>>
  BY <1>0 DEF Post, built, flags, stored, TypeOK
<1>2. /\ Len(queue) \in Nat /\ DOMAIN queue = 1..Len(queue)
      /\ DOMAIN queue' = 1..(Len(queue) - 1)
      /\ \A i \in 1..(Len(queue) - 1) :
           queue'[i] = queue[i + 1] /\ i + 1 \in 1..Len(queue) /\ i + 1 # 1
      /\ \A i \in 1..Len(queue) : i # 1 =>
           i - 1 \in 1..(Len(queue) - 1) /\ queue'[i - 1] = queue[i]
  <2>1. queue \in Seq(Jobs)
    BY <1>0 DEF CoreTyped
  <2> QED
    BY <1>1, <2>1, FrontFacts
<1>3. \A t : HandedOver(t)' = HandedOver(t)
  BY <1>1 DEF HandedOver
<1>4. \A i \in 1..(Len(queue) - 1) : /\ Fresh(i)' /\ Unsettled(i)'
                                     /\ Fresh(i + 1) /\ Unsettled(i + 1)
  BY <1>1, <1>2 DEF Fresh, Unsettled
<1>5. ~Fresh(1) /\ ~Unsettled(1)
  BY <1>1 DEF Fresh, Unsettled
<1>6. ContinuationInv' /\ HistoryInv'
  BY <1>0, <1>1, <1>3 DEF ContinuationInv, HistoryInv, Running
<1>7. QueueInv'
  <2>1. ASSUME NEW i \in DOMAIN queue', NEW u, u = queue'[i].task
        PROVE  /\ u \in started /\ queue'[i].action = Len(begun[u]) + 1
               /\ HandedOver(u) = Len(begun[u]) + 1
    <3>1. i + 1 \in DOMAIN queue /\ Fresh(i + 1) /\ u = queue[i + 1].task
          /\ queue'[i] = queue[i + 1]
      BY <1>2, <1>4, <2>1
    <3> QED
      BY <1>0, <3>1 DEF QueueInv
  <2>2. \A i, j \in DOMAIN queue' : queue'[i].task = queue'[j].task => i = j
    <3> SUFFICES ASSUME NEW i \in DOMAIN queue', NEW j \in DOMAIN queue',
                        queue'[i].task = queue'[j].task
                 PROVE  i = j
      OBVIOUS
    <3>1. i + 1 \in DOMAIN queue /\ j + 1 \in DOMAIN queue
      BY <1>2
    <3>2. /\ Fresh(i + 1) /\ Fresh(j + 1)
          /\ queue[i + 1].task = queue[j + 1].task
      BY <1>2, <1>4
    <3>3. i + 1 = j + 1
      BY <1>0, <3>1, <3>2 DEF QueueInv
    <3> QED
      BY <1>2, <3>3
  <2>3. ASSUME NEW u \in started
        PROVE  \/ HandedOver(u) = Len(begun[u])
               \/ \E i \in DOMAIN queue' : Fresh(i)' /\ queue'[i].task = u
    <3>1. ASSUME NEW i \in DOMAIN queue, Fresh(i), queue[i].task = u
          PROVE  \E j \in DOMAIN queue' : Fresh(j)' /\ queue'[j].task = u
      BY <1>2, <1>4, <1>5, <3>1
    <3> QED
      BY <1>0, <3>1 DEF QueueInv
  <2> QED
    BY <1>1, <2>1, <2>2, <2>3 DEF QueueInv, HandedOver, Early
<1>8. OutcomeInv'
  <2>1. ASSUME NEW u \in started, ~isCompleted[u]
        PROVE  \E j \in DOMAIN queue' : Unsettled(j)' /\ queue'[j].task = u
    <3>1. PICK i \in DOMAIN queue : Unsettled(i) /\ queue[i].task = u
      BY <1>0, <2>1 DEF OutcomeInv
    <3> QED
      BY <1>2, <1>4, <1>5, <3>1
  <2> QED
    BY <1>0, <1>1, <2>1 DEF OutcomeInv
<1>9. SettledTaskIsQuiet'
  BY <1>0, <1>1, <1>2, <1>4 DEF SettledTaskIsQuiet
<1> QED
  BY <1>6, <1>7, <1>8, <1>9 DEF Safety

LEMMA SafetyFinishWithNext ==
  ASSUME IInv, FinishWithNext
  PROVE  Safety'
<1>0. TypeOK /\ ContinuationInv /\ HistoryInv /\ QueueInv /\ OutcomeInv
        /\ SettledTaskIsQuiet /\ CoreTyped
  BY CoreTypes DEF IInv, Safety
<1>a. at = "returned" /\ at' = "store"
  BY DEF FinishWithNext
<1> PICK k \in Tasks : k = Front.task
  BY <1>0, <1>a DEF CoreTyped
<1> PICK succ : succ = continuation[k][1]
  OBVIOUS
<1>1. /\ continuation[k] # <<>>
      /\ continuation' = [continuation EXCEPT ![k] = Tail(@)]
      /\ queue' = Append(queue, Job(k, succ))
      /\ UNCHANGED <<given, started, isCompleted, isFaulted, isCancelled,
                     results, begun>>
  BY DEF FinishWithNext, flags, stored
<1>2. /\ continuation[k] \in Seq(Actions)
      /\ given[k] \in Nat /\ Len(begun[k]) \in Nat
      /\ continuation'[k] = Tail(continuation[k])
      /\ \A t \in Tasks : t # k => continuation'[t] = continuation[t]
  BY <1>0, <1>1 DEF TypeOK, CoreTyped
<1>3. /\ succ \in Actions
      /\ Len(continuation[k]) \in Nat /\ Len(continuation[k]) >= 1
      /\ Len(continuation'[k]) = Len(continuation[k]) - 1
      /\ \A i \in 1..(Len(continuation[k]) - 1) :
           continuation'[k][i] = continuation[k][i + 1]
  <2> PICK c \in Seq(Actions) : c = continuation[k]
    BY <1>2
  <2>1. /\ c[1] \in Actions /\ Len(c) \in Nat /\ Len(c) >= 1
        /\ Len(Tail(c)) = Len(c) - 1
        /\ \A i \in 1..(Len(c) - 1) : Tail(c)[i] = c[i + 1]
    BY <1>1, FrontFacts
  <2> QED
    BY <1>2, <2>1
<1>4. /\ Job(k, succ) \in Jobs
      /\ Job(k, succ).task = k /\ Job(k, succ).action = succ
  BY <1>3 DEF Job, Jobs
<1> PICK n \in Nat : n = Len(queue) + 1
  BY <1>0 DEF CoreTyped
<1>5. /\ Len(queue) \in Nat /\ DOMAIN queue = 1..Len(queue)
      /\ n \in 1..n /\ n # 1 /\ 1 \in 1..Len(queue) /\ DOMAIN queue' = 1..n
      /\ \A i \in 1..Len(queue) : queue'[i] = queue[i] /\ i \in 1..n /\ i # n
      /\ \A i \in 1..n : i = n \/ i \in 1..Len(queue)
      /\ queue'[n] = Job(k, succ)
  <2>1. /\ queue \in Seq(Jobs) /\ Len(queue) \in Nat /\ 1 \in DOMAIN queue
        /\ DOMAIN queue = 1..Len(queue)
    BY <1>0, <1>a DEF CoreTyped
  <2>2. /\ DOMAIN queue' = 1..(Len(queue) + 1)
        /\ \A i \in 1..Len(queue) : queue'[i] = queue[i]
        /\ queue'[Len(queue) + 1] = Job(k, succ)
    BY <1>1, <1>4, <2>1, AppendFacts
  <2> QED
    BY <2>1, <2>2
<1>6. /\ Front = queue[1] /\ Front' = Front /\ k \in started
      /\ \A i \in 1..Len(queue) : queue[i].task \in Tasks
      /\ \A i \in 1..Len(queue) : i # 1 => queue[i].task # k
  BY <1>0, <1>a, <1>5 DEF CoreTyped, QueueInv, Front, Early
<1>7. HandedOver(k) = Len(begun[k])
  <2>1. ~\E i \in DOMAIN queue : Fresh(i) /\ queue[i].task = k
    BY <1>a, <1>5, <1>6 DEF Fresh
  <2> QED
    BY <1>0, <1>6, <2>1 DEF QueueInv
<1>8. /\ HandedOver(k)' = Len(begun[k]) + 1 /\ succ = Len(begun[k]) + 1
      /\ \A t \in Tasks : t # k => HandedOver(t)' = HandedOver(t)
  <2>1. HandedOver(k)' = HandedOver(k) + 1
    BY <1>1, <1>2, <1>3 DEF HandedOver
  <2>2. succ = HandedOver(k) + 1
    BY <1>0, <1>3 DEF ContinuationInv
  <2>3. \A t \in Tasks : t # k => HandedOver(t)' = HandedOver(t)
    BY <1>1, <1>2 DEF HandedOver
  <2> QED
    BY <1>7, <2>1, <2>2, <2>3
<1>9. ~isCompleted[k]
  <2>1. Unsettled(1)
    BY <1>a, <1>5 DEF Unsettled
  <2> QED
    BY <1>0, <1>5, <1>6, <2>1 DEF SettledTaskIsQuiet
<1>10. ContinuationInv'
  <2>1. ASSUME NEW t \in Tasks
        PROVE  /\ Len(continuation'[t]) < given[t]
               /\ \A i \in 1..Len(continuation'[t]) :
                    continuation'[t][i] = HandedOver(t)' + i
               /\ t \notin started => /\ HandedOver(t)' = 1
                                      /\ Len(begun[t]) = 0 /\ ~isCompleted[t]
    <3>1. CASE t = k
      <4>1. /\ Len(continuation[k]) < given[k]
            /\ \A i \in 1..Len(continuation[k]) :
                 continuation[k][i] = HandedOver(k) + i
        BY <1>0 DEF ContinuationInv
      <4>2. Len(continuation'[k]) < given[k]
        BY <1>2, <1>3, <4>1
      <4>3. ASSUME NEW i \in 1..Len(continuation'[k])
            PROVE  continuation'[k][i] = HandedOver(k)' + i
        <5>1. /\ i \in 1..(Len(continuation[k]) - 1)
              /\ i + 1 \in 1..Len(continuation[k])
          BY <1>3, <4>3
        <5>2. continuation'[k][i] = HandedOver(k) + (i + 1)
          BY <1>3, <4>1, <5>1
        <5>3. HandedOver(k) \in Nat /\ HandedOver(k)' = HandedOver(k) + 1
          BY <1>2, <1>7, <1>8
        <5> QED
          BY <5>1, <5>2, <5>3
      <4> QED
        BY <1>6, <3>1, <4>2, <4>3
    <3>2. CASE t # k
      BY <1>0, <1>2, <1>8, <3>2 DEF ContinuationInv
    <3> QED
      BY <3>1, <3>2
  <2> QED
    BY <1>1, <2>1 DEF ContinuationInv
<1>11. HistoryInv'
  BY <1>0, <1>1, <1>6, <1>a DEF HistoryInv, Running
<1>12. /\ \A i \in 1..Len(queue) : Fresh(i)' <=> Fresh(i)
       /\ \A i \in 1..Len(queue) : Unsettled(i)' => Unsettled(i)
       /\ \A i \in 1..Len(queue) : i # 1 => (Unsettled(i)' <=> Unsettled(i))
       /\ Fresh(n)' /\ Unsettled(n)'
  BY <1>5, <1>a DEF Fresh, Unsettled
<1>13. QueueInv'
  <2>1. ASSUME NEW i \in DOMAIN queue', NEW u, u = queue'[i].task
        PROVE  /\ u \in started
               /\ Fresh(i)' => /\ queue'[i].action = Len(begun[u]) + 1
                               /\ HandedOver(u)' = Len(begun[u]) + 1
    <3>1. CASE i = n
      BY <1>4, <1>5, <1>6, <1>8, <2>1, <3>1
    <3>2. CASE i \in 1..Len(queue)
      <4>1. queue'[i] = queue[i] /\ u = queue[i].task /\ u \in Tasks
        BY <1>5, <1>6, <2>1, <3>2
      <4>2. /\ u \in started
            /\ Fresh(i) => /\ queue[i].action = Len(begun[u]) + 1
                           /\ HandedOver(u) = Len(begun[u]) + 1
        BY <1>0, <1>5, <3>2, <4>1 DEF QueueInv
      <4>3. Fresh(i) => u # k
        BY <1>6, <1>a, <3>2, <4>1 DEF Fresh
      <4>4. Fresh(i)' => Fresh(i) /\ HandedOver(u)' = HandedOver(u)
        BY <1>8, <1>12, <3>2, <4>1, <4>3
      <4> QED
        BY <4>1, <4>2, <4>4
    <3> QED
      BY <1>5, <3>1, <3>2
  <2>2. ASSUME NEW i \in DOMAIN queue', NEW j \in DOMAIN queue',
               Fresh(i)', Fresh(j)', queue'[i].task = queue'[j].task
        PROVE  i = j
    <3>1. \A m \in 1..Len(queue) : Fresh(m) => queue[m].task # k
      BY <1>6, <1>a DEF Fresh
    <3>2. CASE i = n \/ j = n
      <4>1. \A m \in 1..Len(queue) : Fresh(m)' => queue'[m].task # k
        BY <1>5, <1>12, <3>1
      <4>2. queue'[n].task = k
        BY <1>4, <1>5
      <4> QED
        BY <1>5, <2>2, <3>2, <4>1, <4>2
    <3>3. CASE i # n /\ j # n
      <4>1. i \in 1..Len(queue) /\ j \in 1..Len(queue)
        BY <1>5, <2>2, <3>3
      <4>2. Fresh(i) /\ Fresh(j) /\ queue[i].task = queue[j].task
        BY <1>5, <1>12, <2>2, <4>1
      <4> QED
        BY <1>0, <1>5, <4>1, <4>2 DEF QueueInv
    <3> QED
      BY <3>2, <3>3
  <2>3. ASSUME NEW u \in started
        PROVE  \/ HandedOver(u)' = Len(begun[u])
               \/ \E i \in DOMAIN queue' : Fresh(i)' /\ queue'[i].task = u
    <3>1. CASE u = k
      BY <1>4, <1>5, <1>12, <3>1
    <3>2. CASE u # k
      <4>1. u \in Tasks
        BY <1>0 DEF CoreTyped
      <4>2. \/ HandedOver(u) = Len(begun[u])
            \/ \E i \in 1..Len(queue) : Fresh(i) /\ queue[i].task = u
        BY <1>0, <1>5 DEF QueueInv
      <4>3. ASSUME NEW i \in 1..Len(queue), Fresh(i), queue[i].task = u
            PROVE  \E j \in DOMAIN queue' : Fresh(j)' /\ queue'[j].task = u
        <5>1. i \in DOMAIN queue' /\ queue'[i] = queue[i]
          BY <1>5
        <5> QED
          BY <1>12, <4>3, <5>1
      <4> QED
        BY <1>8, <3>2, <4>1, <4>2, <4>3
    <3> QED
      BY <3>1, <3>2
  <2>4. Front.action = Len(begun[Front.task])
    BY <1>0, <1>a DEF QueueInv
  <2> QED
    <3>2. at' \notin Early /\ UNCHANGED <<started, begun>>
      BY <1>1, <1>a DEF Early
    <3> QED
      BY <1>6, <2>1, <2>2, <2>3, <2>4, <3>2 DEF QueueInv, HandedOver
<1>14. OutcomeInv'
  <2>1. ASSUME NEW u \in started, ~isCompleted[u]
        PROVE  \E i \in DOMAIN queue' : Unsettled(i)' /\ queue'[i].task = u
    <3>1. CASE u = k
      BY <1>4, <1>5, <1>12, <3>1
    <3>2. CASE u # k
      <4>1. PICK i \in 1..Len(queue) : Unsettled(i) /\ queue[i].task = u
        BY <1>0, <1>5, <2>1 DEF OutcomeInv
      <4>2. i # 1
        BY <1>6, <3>2, <4>1
      <4>3. i \in DOMAIN queue' /\ queue'[i] = queue[i] /\ Unsettled(i)'
        BY <1>5, <1>12, <4>1, <4>2
      <4> QED
        BY <4>1, <4>3
    <3> QED
      BY <3>1, <3>2
  <2>2. ASSUME NEW u \in started, isCompleted[u]
        PROVE  isFaulted[u] \/ isCancelled[u] \/ Len(continuation'[u]) = 0
    BY <1>0, <1>2, <1>9, <2>2 DEF OutcomeInv, CoreTyped
  <2> QED
    BY <1>1, <1>a, <2>1, <2>2 DEF OutcomeInv
<1>15. SettledTaskIsQuiet'
  <2>1. ASSUME NEW t \in Tasks, NEW i \in DOMAIN queue', isCompleted[t],
               Unsettled(i)'
        PROVE  queue'[i].task # t
    <3>1. CASE i = n
      BY <1>4, <1>5, <1>9, <2>1, <3>1
    <3>2. CASE i \in 1..Len(queue)
      <4>1. Unsettled(i) /\ i \in DOMAIN queue /\ queue'[i] = queue[i]
        BY <1>5, <1>12, <2>1, <3>2
      <4> QED
        BY <1>0, <2>1, <4>1 DEF SettledTaskIsQuiet
    <3> QED
      BY <1>5, <3>1, <3>2
  <2> QED
    BY <1>1, <2>1 DEF SettledTaskIsQuiet
<1> QED
  BY <1>10, <1>11, <1>13, <1>14, <1>15 DEF Safety
-----------------------------------------------------------------------------
LEMMA ClaimFrame ==
  ASSUME ClaimInv, UNCHANGED <<started, wait>>
  PROVE  ClaimInv'
BY DEF ClaimInv

LEMMA ClaimStart ==
  ASSUME TypeOK, ClaimInv, NEW t \in Tasks, NEW l \in BOOLEAN, Start(t, l)
  PROVE  ClaimInv'
BY DEF TypeOK, ClaimInv, Start, Launch, Claimed

LEMMA ClaimWait ==
  ASSUME IInv, NEW w \in Waiters, WaitStep(w)
  PROVE  /\ ClaimInv'
         /\ \/ UNCHANGED core
            \/ \E t \in Tasks : t \notin started /\ WaitAllStarts(w, t)
<1>0. ClaimInv /\ wait \in [Waiters -> Waits]
  BY DEF IInv, TypeOK
<1> USE DEF core, built, flags, stored, background
<1>1. CASE wait'[w].todo \subseteq wait[w].todo /\ UNCHANGED core
           /\ \A v \in Waiters : v # w => wait'[v] = wait[v]
  BY <1>0, <1>1 DEF ClaimInv
<1>2. ASSUME NEW t \in Tasks, WaitUntil(w, t)
      PROVE  wait'[w].todo = {} /\ UNCHANGED core
             /\ \A v \in Waiters : v # w => wait'[v] = wait[v]
  BY <1>0, <1>2 DEF WaitUntil, NoWait, Waits
<1>3. ASSUME NEW ts \in SUBSET Tasks, WaitAll(w, ts)
      PROVE  ClaimInv' /\ UNCHANGED core
  <2>1. /\ wait'[w].todo = ts
        /\ \A v \in Waiters : v # w => wait'[v] = wait[v]
    BY <1>0, <1>3 DEF WaitAll, NoWait
  <2>2. /\ ts \cap started = {}
        /\ \A v \in Waiters : ts \cap wait[v].todo = {}
        /\ UNCHANGED core
    BY <1>3 DEF WaitAll, Claimed
  <2> QED
    BY <1>0, <2>1, <2>2 DEF ClaimInv
<1>4. ASSUME NEW t \in Tasks, WaitAllStarts(w, t)
      PROVE  ClaimInv' /\ t \notin started
  <2>1. /\ t \in wait[w].todo /\ wait'[w].todo = wait[w].todo \ {t}
        /\ \A v \in Waiters : v # w => wait'[v] = wait[v]
        /\ started' = started \cup {t}
    BY <1>0, <1>4 DEF WaitAllStarts, Launch, Waits
  <2> QED
    BY <1>0, <2>1 DEF ClaimInv
<1>5. CASE PollReturnsTrue(w) \/ PollSleeps(w) \/ PollTimesOut(w)
  <2>1. wait'[w].todo = wait[w].todo /\ UNCHANGED core
        /\ \A v \in Waiters : v # w => wait'[v] = wait[v]
    BY <1>0, <1>5 DEF PollReturnsTrue, PollSleeps, PollTimesOut, Waits
  <2> QED
    BY <1>1, <2>1
<1> QED
  BY <1>1, <1>2, <1>3, <1>4, <1>5 DEF WaitStep, PollStep

LEMMA SafetyUser ==
  ASSUME IInv, UserStep
  PROVE  Safety' /\ ClaimInv'
<1>0. TypeOK /\ Safety /\ ClaimInv
  BY DEF IInv
<1> PICK t \in Tasks : \/ ContinueWith(t)
                       \/ \E l \in BOOLEAN : Start(t, l)
                       \/ Cancel(t)
  BY DEF UserStep
<1>1. CASE ContinueWith(t)
  <2>1. UNCHANGED <<started, wait>>
    BY <1>1 DEF ContinueWith
  <2> QED
    BY <1>0, <1>1, <2>1, SafetyContinueWith, ClaimFrame
<1>2. ASSUME NEW l \in BOOLEAN, Start(t, l)
      PROVE  Safety' /\ ClaimInv'
  <2>1. /\ Launch(t) /\ t \notin started
        /\ UNCHANGED <<given, continuation, isFaulted, isCancelled, results,
                       at, begun>>
    BY <1>2 DEF Start, stored
  <2>2. Safety'
    BY <2>1, SafetyLaunch
  <2> QED
    BY <1>0, <1>2, <2>2, ClaimStart
<1>3. CASE Cancel(t)
  <2>1. UNCHANGED core /\ UNCHANGED <<started, wait>>
    BY <1>3 DEF Cancel, core, built, stored, background
  <2> QED
    BY <1>0, <2>1, SafetyFrame, ClaimFrame
<1> QED
  BY <1>1, <1>2, <1>3

LEMMA SafetyWorker ==
  ASSUME IInv, WorkerStep
  PROVE  Safety'
<1>0. TypeOK /\ CoreTyped
  BY CoreTypes DEF IInv
<1> USE DEF built, flags, stored, background
<1>1. CASE ExecuteReturns \/ ExecuteThrows
  <2>1. /\ at = "execute" /\ at' \in {"returned", "threw"}
        /\ UNCHANGED <<given, continuation, started, isCompleted, isFaulted,
                       isCancelled, results, queue, begun>>
    BY <1>1 DEF ExecuteReturns, ExecuteThrows
  <2> QED
    BY <2>1, SafetyExecute
<1>2. CASE FinishCancelled
  <2>1. /\ at \in Early \ {"execute"} /\ at' = "store"
        /\ isCompleted' = [isCompleted EXCEPT ![Front.task] = TRUE]
        /\ isCancelled' = [isCancelled EXCEPT ![Front.task] = TRUE]
        /\ UNCHANGED <<given, continuation, started, isFaulted, results, queue,
                       begun>>
    BY <1>2 DEF FinishCancelled, Early
  <2>2. Front.task \in Tasks
    BY <1>0, <2>1 DEF CoreTyped, Early
  <2>3. /\ isCancelled'[Front.task]
        /\ \A t \in Tasks : isCancelled[t] => isCancelled'[t]
    BY <1>0, <2>1, <2>2 DEF TypeOK
  <2> QED
    BY <2>1, <2>3, SafetyComplete
<1>3. CASE FinishLast
  <2>1. /\ at \in Early \ {"execute"} /\ at' = "store"
        /\ isCompleted' = [isCompleted EXCEPT ![Front.task] = TRUE]
        /\ continuation[Front.task] = <<>>
        /\ UNCHANGED <<given, continuation, started, isFaulted, isCancelled,
                       results, queue, begun>>
    BY <1>3 DEF FinishLast, Early
  <2> QED
    BY <2>1, SafetyComplete
<1>4. CASE FinishFaultedCompletes
  <2>1. /\ at = "faulted" /\ at \in Early \ {"execute"} /\ at' = "store"
        /\ isCompleted' = [isCompleted EXCEPT ![Front.task] = TRUE]
        /\ UNCHANGED <<given, continuation, started, isFaulted, isCancelled,
                       results, queue, begun>>
    BY <1>4 DEF FinishFaultedCompletes, Early
  <2>2. isFaulted[Front.task]
    BY <2>1 DEF IInv, Safety, OutcomeInv
  <2> QED
    BY <2>1, <2>2, SafetyComplete
<1> QED
  BY <1>1, <1>2, <1>3, <1>4, SafetyBegin, SafetyFinishWithNext,
     SafetyFinishFaulted, SafetyStoreResult, SafetyPost DEF WorkerStep

LEMMA SafetyNext ==
  ASSUME IInv, [Next]_vars
  PROVE  Safety' /\ ClaimInv'
<1>0. Safety /\ ClaimInv
  BY DEF IInv
<1> USE DEF built, flags, stored, background, core
<1>1. CASE UIStep \/ UNCHANGED vars
  <2>1. UNCHANGED core /\ UNCHANGED <<started, wait>>
    BY <1>1 DEF UIStep, DropMessage, ListenerReadsFirst, ListenerReadsSecond,
                vars
  <2> QED
    BY <1>0, <2>1, SafetyFrame, ClaimFrame
<1>2. CASE WorkerStep
  <2>1. UNCHANGED <<started, wait>>
    BY <1>2 DEF WorkerStep, Begin, ExecuteReturns, ExecuteThrows,
       FinishCancelled, FinishWithNext, FinishLast, FinishFaulted,
       FinishFaultedCompletes, StoreResult, Post
  <2> QED
    BY <1>0, <1>2, <2>1, SafetyWorker, ClaimFrame
<1>3. ASSUME NEW w \in Waiters, WaitStep(w)
      PROVE  Safety' /\ ClaimInv'
  <2>1. ASSUME NEW t \in Tasks, t \notin started, WaitAllStarts(w, t)
        PROVE  Safety'
    <3>1. /\ Launch(t)
          /\ UNCHANGED <<given, continuation, isFaulted, isCancelled, results,
                         at, begun>>
      BY <2>1 DEF WaitAllStarts
    <3> QED
      BY <2>1, <3>1, SafetyLaunch
  <2>2. UNCHANGED core => Safety'
    BY <1>0, SafetyFrame
  <2> QED
    BY <1>3, <2>1, <2>2, ClaimWait
<1> QED
  BY <1>1, <1>2, <1>3, SafetyUser DEF Next

LEMMA Inductive == Spec => []IInv
<1>1. Init => IInv
  BY TypeInit, SafetyInit DEF IInv, ClaimInv, Init, NoWait
<1>2. IInv /\ [Next]_vars => IInv'
  <2> SUFFICES ASSUME IInv, [Next]_vars PROVE IInv'
    OBVIOUS
  <2>1. TypeOK'
    <3>1. CASE UNCHANGED vars
      BY <3>1 DEF IInv, TypeOK, vars, built, flags, stored, background, ui
    <3> QED
      BY <3>1, TypeUI, TypeUser, TypeWorker, TypeWait DEF IInv, Next
  <2> QED
    BY <2>1, SafetyNext DEF IInv
<1> QED
  BY <1>1, <1>2, PTL DEF Spec
-----------------------------------------------------------------------------
(* What the invariant gives.                                               *)

(* Task.java:91-104. In every execution, with any number of tasks, the     *)
(* actions of a task begin in the order in which they were given, and one  *)
(* that executes finds the results of all the earlier ones.                *)
THEOREM OrderCorrect == Spec => []ChainInOrder
<1>1. ASSUME IInv PROVE ChainInOrder
  <2>0. HistoryInv /\ QueueInv /\ CoreTyped
    BY <1>1, CoreTypes DEF IInv, Safety
  <2>1. ASSUME at = "execute"
        PROVE  Len(results[Front.task]) = Front.action - 1
    <3>1. Front.task \in Tasks /\ Front.action = Len(begun[Front.task])
      BY <2>0, <2>1 DEF QueueInv, CoreTyped
    <3>2. Len(begun[Front.task]) = Len(results[Front.task]) + 1
      BY <2>0, <2>1, <3>1 DEF HistoryInv, Running
    <3> QED
      BY <2>0, <3>1, <3>2 DEF CoreTyped
  <2> QED
    BY <2>0, <2>1 DEF ChainInOrder, HistoryInv, CoreTyped
<1> QED
  BY <1>1, Inductive, PTL

(* Task.java:224-243. A started task that is not completed always has a    *)
(* job in the executor, and one that completed without a fault or a        *)
(* cancellation has begun all the actions it was given.                    *)
THEOREM NothingLost == Spec => []NoActionLost
<1>1. ASSUME IInv PROVE NoActionLost
  <2>0. QueueInv /\ OutcomeInv /\ SettledTaskIsQuiet /\ CoreTyped
    BY <1>1, CoreTypes DEF IInv, Safety
  <2>1. ASSUME NEW t \in started, isCompleted[t], ~isFaulted[t], ~isCancelled[t]
        PROVE  Len(begun[t]) = given[t]
    <3>1. t \in Tasks /\ Len(continuation[t]) = 0
      BY <2>0, <2>1 DEF OutcomeInv, CoreTyped
    <3>2. \A i \in DOMAIN queue : Fresh(i) => Unsettled(i)
      BY DEF Fresh, Unsettled
    <3>3. ~\E i \in DOMAIN queue : Fresh(i) /\ queue[i].task = t
      BY <2>0, <2>1, <3>1, <3>2 DEF SettledTaskIsQuiet
    <3>4. HandedOver(t) = Len(begun[t])
      BY <2>0, <3>3 DEF QueueInv
    <3> QED
      BY <2>0, <3>1, <3>4 DEF HandedOver, CoreTyped
  <2> QED
    BY <2>0, <2>1 DEF NoActionLost, OutcomeInv
<1> QED
  BY <1>1, Inductive, PTL

(* Task.java:91-92. No action of a completed task, however it ended, is    *)
(* running or waiting in the executor.                                     *)
THEOREM SettledQuiet == Spec => []SettledTaskIsQuiet
<1>1. IInv => SettledTaskIsQuiet
  BY DEF IInv, Safety
<1> QED
  BY <1>1, Inductive, PTL

\* A completed task is changed by no step.
Final ==
  \A t \in Tasks : isCompleted[t] =>
    /\ isCompleted'[t]
    /\ isFaulted'[t] = isFaulted[t] /\ isCancelled'[t] = isCancelled[t]

LEMMA OutcomeStep ==
  ASSUME IInv, [Next]_vars
  PROVE  Final
<1> USE DEF Final
<1>0. TypeOK /\ CoreTyped /\ ContinuationInv /\ SettledTaskIsQuiet /\ ClaimInv
  BY CoreTypes DEF IInv, Safety
<1> USE DEF built, flags, stored, background
<1>1. CASE UNCHANGED <<isCompleted, isFaulted, isCancelled>>
  BY <1>1
<1>2. ASSUME NEW t \in Tasks, t \notin started, Launch(t),
             UNCHANGED <<isFaulted, isCancelled>>
      PROVE  Final
  <2>1. ~isCompleted[t]
    BY <1>0, <1>2 DEF ContinuationInv
  <2> QED
    BY <1>0, <1>2, <2>1 DEF Launch, TypeOK
<1>3. CASE FinishCancelled \/ FinishLast \/ FinishFaulted
             \/ FinishFaultedCompletes
  <2>1. at \in Early
    BY <1>3 DEF FinishCancelled, FinishLast, FinishFaulted,
                FinishFaultedCompletes, Early
  <2>2. Front.task \in Tasks /\ 1 \in DOMAIN queue /\ Front = queue[1]
    BY <1>0, <2>1 DEF CoreTyped, Early
  <2>3. ~isCompleted[Front.task]
    BY <1>0, <2>1, <2>2 DEF SettledTaskIsQuiet, Unsettled, Early
  <2> QED
    BY <1>0, <1>3, <2>2, <2>3 DEF FinishCancelled, FinishLast, FinishFaulted,
                FinishFaultedCompletes, TypeOK
<1>4. CASE UIStep \/ UNCHANGED vars
  BY <1>1, <1>4 DEF UIStep, DropMessage, ListenerReadsFirst,
                    ListenerReadsSecond, vars
<1>5. CASE UserStep
  <2>1. PICK t \in Tasks : \/ ContinueWith(t)
                           \/ \E l \in BOOLEAN : Start(t, l)
                           \/ Cancel(t)
    BY <1>5 DEF UserStep
  <2>2. CASE ContinueWith(t) \/ Cancel(t)
    BY <1>1, <2>2 DEF ContinueWith, Cancel
  <2>3. CASE \E l \in BOOLEAN : Start(t, l)
    BY <1>2, <2>3 DEF Start
  <2> QED
    BY <2>1, <2>2, <2>3
<1>6. CASE WorkerStep
  <2>1. CASE Begin \/ ExecuteReturns \/ ExecuteThrows \/ FinishWithNext
               \/ StoreResult \/ Post
    BY <1>1, <2>1 DEF Begin, ExecuteReturns, ExecuteThrows, FinishWithNext,
                      StoreResult, Post
  <2> QED
    BY <1>3, <1>6, <2>1 DEF WorkerStep
<1>7. ASSUME NEW w \in Waiters, WaitStep(w) PROVE Final
  <2>1. UNCHANGED core \/ \E t \in Tasks : t \notin started /\ WaitAllStarts(w, t)
    BY <1>7, ClaimWait
  <2>2. UNCHANGED core => Final
    BY <1>1 DEF core
  <2>3. ASSUME NEW t \in Tasks, t \notin started, WaitAllStarts(w, t)
        PROVE  Final
    BY <1>2, <2>3 DEF WaitAllStarts
  <2> QED
    BY <2>1, <2>2, <2>3
<1> QED
  BY <1>4, <1>5, <1>6, <1>7 DEF Next
-----------------------------------------------------------------------------
(* The promise.                                                            *)

\* What the promise sees of the tasks, but for what their users asked for.
seen == <<begun, isCompleted, isFaulted, isCancelled>>

LEMMA PromiseInit == Init => Promise!Init
BY DEF Init, Promise!Init, Outcome, Executing

\* Nothing that can be seen happened.
LEMMA PromiseStutter ==
  ASSUME UNCHANGED seen, UNCHANGED <<given, started, isCancelling>>,
         Executing' = Executing
  PROVE  UNCHANGED Promise!vars
BY DEF seen, Promise!vars, Outcome

\* Who builds, starts or cancels a task, also a waitAll, leaves the job in
\* front alone.
LEMMA PromiseLaunch ==
  ASSUME IInv, NEW t \in Tasks, t \notin started, Launch(t),
         UNCHANGED <<given, isCancelling, isFaulted, isCancelled, begun, at>>
  PROVE  Promise!Next
<1>1. TypeOK /\ ContinuationInv
  BY DEF IInv, Safety
<1>2. UNCHANGED isCompleted
  <2>1. ~isCompleted[t] /\ isCompleted \in [Tasks -> BOOLEAN]
    BY <1>1 DEF ContinuationInv, TypeOK
  <2> QED
    BY <2>1 DEF Launch
<1>3. Executing' = Executing
  <2>1. CASE at = "idle"
    BY <2>1 DEF Executing
  <2>2. CASE at # "idle"
    <3>1. queue \in Seq(Jobs) /\ queue # <<>> /\ queue' = Append(queue, Job(t, 1))
      BY <1>1, <2>2 DEF TypeOK, Launch
    <3>2. queue'[1] = queue[1]
      BY <3>1
    <3> QED
      BY <3>2 DEF Executing, Front
  <2> QED
    BY <2>1, <2>2
<1>4. Promise!Start(t)
  BY <1>2, <1>3 DEF Promise!Start, Launch, Outcome
<1> QED
  BY <1>4 DEF Promise!Next

LEMMA PromiseUser ==
  ASSUME IInv, UserStep
  PROVE  Promise!Next
<1> PICK t \in Tasks : \/ ContinueWith(t)
                       \/ \E l \in BOOLEAN : Start(t, l)
                       \/ Cancel(t)
  BY DEF UserStep
<1> USE DEF ui, stored, flags, background, built
<1>1. CASE ContinueWith(t)
  <2>1. Promise!ContinueWith(t)
    BY <1>1 DEF ContinueWith, Promise!ContinueWith, Outcome, Executing, Front
  <2> QED
    BY <2>1 DEF Promise!Next
<1>2. CASE \E l \in BOOLEAN : Start(t, l)
  BY <1>2, PromiseLaunch DEF Start
<1>3. CASE Cancel(t)
  <2>1. Promise!Cancel(t)
    BY <1>3 DEF Cancel, Promise!Cancel, Outcome, Executing, Front
  <2> QED
    BY <2>1 DEF Promise!Next
<1> QED
  BY <1>1, <1>2, <1>3

\* The job in front, while there is one.
LEMMA FrontJob ==
  ASSUME TypeOK, queue # <<>>
  PROVE  /\ Front.task \in Tasks /\ Front.action \in Actions
         /\ 1 \in DOMAIN queue /\ Front = queue[1]
<1>1. queue \in Seq(Jobs) /\ Front = queue[1]
  BY DEF TypeOK, Front
<1>2. Front \in Jobs /\ 1 \in DOMAIN queue
  BY <1>1, FrontFacts
<1> QED
  BY <1>1, <1>2 DEF Jobs

\* An action begins: its task was started, has not ended and has it to begin.
LEMMA PromiseBegin ==
  ASSUME IInv, Begin
  PROVE  Promise!Next
<1>0. TypeOK /\ queue # <<>>
  BY DEF IInv, Begin
<1>1. PICK t \in Tasks : t = Front.task
  BY <1>0, FrontJob
<1>2. /\ at = "idle" /\ 1 \in DOMAIN queue /\ Front = queue[1]
      /\ Fresh(1) /\ Unsettled(1)
  BY <1>0, FrontJob DEF Begin, Fresh, Unsettled
<1>3. t \in started /\ HandedOver(t) = Len(begun[t]) + 1
  BY <1>1, <1>2 DEF IInv, Safety, QueueInv
<1>4. Outcome(t) = "none"
  BY <1>1, <1>2 DEF IInv, Safety, SettledTaskIsQuiet, Outcome
<1>5. Len(begun[t]) < given[t]
  BY <1>3, CoreTypes DEF IInv, CoreTyped, HandedOver
<1>6. Executing = {} /\ Executing' = {t}
  BY <1>1, <1>2 DEF Begin, Executing, Front
<1>7. [u \in Tasks |-> Len(begun[u])]'
        = [[u \in Tasks |-> Len(begun[u])] EXCEPT ![t] = @ + 1]
  <2>1. /\ begun \in [Tasks -> Seq(Actions)] /\ Front.action \in Actions
        /\ begun' = [begun EXCEPT ![t] = Append(@, Front.action)]
    BY <1>0, <1>1, FrontJob DEF Begin, TypeOK
  <2>2. Len(Append(begun[t], Front.action)) = Len(begun[t]) + 1
    BY <2>1, AppendFacts
  <2>3. \A u \in Tasks :
          Len(begun'[u]) = IF u = t THEN Len(begun[u]) + 1 ELSE Len(begun[u])
    BY <2>1, <2>2
  <2> QED
    BY <2>3
<1>8. Promise!Begins(t)
  BY <1>3, <1>4, <1>5, <1>6, <1>7
     DEF Begin, Promise!Begins, Outcome, flags, built
<1> QED
  BY <1>8 DEF Promise!Next

\* What is known of the task whose action has executed.
LEMMA FrontExecutes ==
  ASSUME IInv, at \in Early
  PROVE  /\ Front.task \in Tasks /\ Executing = {Front.task}
         /\ Len(begun[Front.task]) \in Nat /\ given[Front.task] \in Nat
         /\ Len(continuation[Front.task]) \in Nat
         /\ Len(begun[Front.task])
              = given[Front.task] - Len(continuation[Front.task])
<1>0. TypeOK /\ queue # <<>>
  BY DEF IInv, TypeOK, Early
<1>1. PICK t \in Tasks : t = Front.task
  BY <1>0, FrontJob
<1>2. at # "idle" /\ 1 \in DOMAIN queue /\ Front = queue[1]
  BY <1>0, FrontJob DEF Early
<1>3. \A i \in DOMAIN queue : Fresh(i) => i # 1 /\ queue[i].task # t
  BY <1>1, <1>2 DEF IInv, Safety, QueueInv, Fresh
<1>4. HandedOver(t) = Len(begun[t])
  BY <1>1, <1>2, <1>3 DEF IInv, Safety, QueueInv
<1>5. /\ Len(begun[t]) \in Nat /\ given[t] \in Nat
      /\ Len(continuation[t]) \in Nat
  BY DEF IInv, TypeOK, Actions
<1> QED
  BY <1>1, <1>4, <1>5 DEF HandedOver, Executing, Early

LEMMA PromiseFinish ==
  ASSUME IInv, NEW how \in {"success", "fault", "cancelled"},
         at \in Early, at' = "store",
         UNCHANGED <<given, started, isCancelling, begun>>,
         [t \in Tasks |-> Outcome(t)]'
           = [[t \in Tasks |-> Outcome(t)] EXCEPT ![Front.task] = how],
         how = "success" => /\ ~isCancelling[Front.task]
                            /\ continuation[Front.task] = <<>>,
         how = "cancelled" => isCancelling[Front.task]
  PROVE  Promise!Next
<1>1. PICK t \in Tasks :
        /\ t = Front.task /\ Executing = {t}
        /\ Len(begun[t]) = given[t] - Len(continuation[t]) /\ given[t] \in Nat
  BY FrontExecutes
<1>2. continuation[t] = <<>> => Len(begun[t]) = given[t]
  BY <1>1
<1>3. Executing' = {}
  BY DEF Executing
<1>4. Promise!Ends(t, how)
  BY <1>1, <1>2, <1>3 DEF Promise!Ends
<1> QED
  BY <1>4 DEF Promise!Next, Promise!Outcomes

\* A task that has not ended is neither cancelled nor faulted, unless the
\* background thread is between the two flags of a fault.
FlagsInv ==
  \A t \in Tasks : ~isCompleted[t] =>
    /\ ~isCancelled[t]
    /\ isFaulted[t] => at = "faulted" /\ Front.task = t

\* A task that is handed over, while the one in front stays there.
LEMMA FlagsLaunch ==
  ASSUME IInv, FlagsInv, NEW t \in Tasks, t \notin started, Launch(t),
         UNCHANGED <<isFaulted, isCancelled, at>>
  PROVE  FlagsInv'
<1>1. TypeOK /\ ContinuationInv
  BY DEF IInv, Safety
<1>2. UNCHANGED isCompleted
  <2>1. ~isCompleted[t] /\ isCompleted \in [Tasks -> BOOLEAN]
    BY <1>1 DEF ContinuationInv, TypeOK
  <2> QED
    BY <2>1 DEF Launch
<1>3. at = "faulted" => Front' = Front
  <2>1. ASSUME at = "faulted" PROVE Front' = Front
    <3>1. queue \in Seq(Jobs) /\ queue # <<>> /\ queue' = Append(queue, Job(t, 1))
      BY <1>1, <2>1 DEF TypeOK, Launch
    <3> QED
      BY <3>1 DEF Front
  <2> QED
    BY <2>1
<1> QED
  BY <1>2, <1>3 DEF FlagsInv

LEMMA FlagsWorker ==
  ASSUME IInv, FlagsInv, WorkerStep
  PROVE  FlagsInv'
<1> USE DEF built, flags, stored, background
<1>0. TypeOK
  BY DEF IInv
<1>1. CASE Begin \/ ExecuteReturns \/ ExecuteThrows \/ FinishWithNext
             \/ StoreResult \/ Post
  <2>1. at # "faulted" /\ UNCHANGED <<isCompleted, isFaulted, isCancelled>>
    BY <1>1 DEF Begin, ExecuteReturns, ExecuteThrows, FinishWithNext,
                StoreResult, Post
  <2> QED
    BY <2>1 DEF FlagsInv
<1>2. CASE FinishCancelled \/ FinishLast
  <2>1. at # "faulted" /\ UNCHANGED isFaulted
    BY <1>2 DEF FinishCancelled, FinishLast
  <2>2. /\ isCompleted' = [isCompleted EXCEPT ![Front.task] = TRUE]
        /\ \/ isCancelled' = [isCancelled EXCEPT ![Front.task] = TRUE]
           \/ UNCHANGED isCancelled
    BY <1>2 DEF FinishCancelled, FinishLast
  <2> QED
    BY <1>0, <2>1, <2>2 DEF FlagsInv, TypeOK
<1>3. CASE FinishFaulted
  <2>1. at' = "faulted" /\ at # "faulted" /\ UNCHANGED <<isCompleted, isCancelled>>
        /\ Front' = Front /\ isFaulted' = [isFaulted EXCEPT ![Front.task] = TRUE]
    BY <1>3 DEF FinishFaulted, Front
  <2> QED
    BY <1>0, <2>1 DEF FlagsInv, TypeOK
<1>4. CASE FinishFaultedCompletes
  <2>1. UNCHANGED <<isFaulted, isCancelled>>
        /\ isCompleted' = [isCompleted EXCEPT ![Front.task] = TRUE]
    BY <1>4 DEF FinishFaultedCompletes
  <2> QED
    BY <1>0, <2>1 DEF FlagsInv, TypeOK
<1> QED
  BY <1>1, <1>2, <1>3, <1>4 DEF WorkerStep

LEMMA FlagsStep ==
  ASSUME IInv, FlagsInv, [Next]_vars
  PROVE  FlagsInv'
<1> USE DEF built, flags, stored, background
<1>1. CASE UNCHANGED <<isCompleted, isFaulted, isCancelled, at, queue>>
  BY <1>1 DEF FlagsInv, Front
<1>2. CASE UIStep \/ UNCHANGED vars
  BY <1>1, <1>2 DEF UIStep, DropMessage, ListenerReadsFirst,
                    ListenerReadsSecond, vars
<1>3. CASE UserStep
  <2>1. PICK t \in Tasks : \/ ContinueWith(t)
                           \/ \E l \in BOOLEAN : Start(t, l)
                           \/ Cancel(t)
    BY <1>3 DEF UserStep
  <2>2. CASE ContinueWith(t) \/ Cancel(t)
    BY <1>1, <2>2 DEF ContinueWith, Cancel
  <2>3. CASE \E l \in BOOLEAN : Start(t, l)
    BY <2>3, FlagsLaunch DEF Start
  <2> QED
    BY <2>1, <2>2, <2>3
<1>4. CASE WorkerStep
  BY <1>4, FlagsWorker
<1>5. ASSUME NEW w \in Waiters, WaitStep(w) PROVE FlagsInv'
  <2>1. UNCHANGED core \/ \E t \in Tasks : t \notin started /\ WaitAllStarts(w, t)
    BY <1>5, ClaimWait DEF IInv
  <2>2. CASE UNCHANGED core
    BY <1>1, <2>2 DEF core
  <2>3. CASE \E t \in Tasks : t \notin started /\ WaitAllStarts(w, t)
    BY <2>3, FlagsLaunch DEF WaitAllStarts
  <2> QED
    BY <2>1, <2>2, <2>3
<1> QED
  BY <1>2, <1>3, <1>4, <1>5 DEF Next

LEMMA PromiseWorker ==
  ASSUME IInv, FlagsInv, WorkerStep
  PROVE  Promise!Next \/ UNCHANGED Promise!vars
<1> USE DEF built, flags, stored, background
<1>0. TypeOK /\ SettledTaskIsQuiet
  BY DEF IInv, Safety
<1>1. CASE Begin
  BY <1>1, PromiseBegin
<1>2. CASE ExecuteReturns \/ ExecuteThrows \/ FinishFaulted
  <2>1. /\ at \in Early /\ at' \in Early /\ UNCHANGED queue
        /\ UNCHANGED <<given, started, isCancelling, begun, isCompleted,
                       isCancelled>>
    BY <1>2 DEF ExecuteReturns, ExecuteThrows, FinishFaulted, Early
  <2>2. Executing' = Executing
    BY <2>1 DEF Executing, Front, Early
  <2>3. CASE UNCHANGED isFaulted
    BY <2>1, <2>2, <2>3, PromiseStutter DEF seen
  <2>4. CASE FinishFaulted
    <3>1. PICK t \in Tasks : t = Front.task /\ ~isCompleted[t]
      <4>1. Front.task \in Tasks /\ 1 \in DOMAIN queue /\ Front = queue[1]
        <5>1. queue # <<>>
          BY <1>0, <2>1 DEF TypeOK, Early
        <5> QED
          BY <1>0, <5>1, FrontJob
      <4> QED
        BY <1>0, <2>1, <4>1 DEF SettledTaskIsQuiet, Unsettled, Early
    <3>2. isFaulted' = [isFaulted EXCEPT ![t] = TRUE]
      BY <2>4, <3>1 DEF FinishFaulted
    <3>3. \A u \in Tasks : Outcome(u)' = Outcome(u)
      BY <1>0, <2>1, <3>1, <3>2 DEF Outcome, TypeOK
    <3> QED
      BY <2>1, <2>2, <3>3 DEF Promise!vars
  <2> QED
    BY <1>2, <2>3, <2>4 DEF ExecuteReturns, ExecuteThrows
<1>3. CASE FinishWithNext
  <2>1. at \in Early /\ at' = "store" /\ continuation[Front.task] # <<>>
    BY <1>3 DEF FinishWithNext, Early
  <2>2. PICK t \in Tasks :
          /\ t = Front.task /\ Executing = {t} /\ Len(begun[t]) < given[t]
    <3>1. Len(continuation[Front.task]) > 0
      BY <1>0, <2>1, FrontExecutes DEF TypeOK
    <3> QED
      BY <2>1, <3>1, FrontExecutes
  <2>3. Executing' = {}
    BY <2>1 DEF Executing
  <2>4. Promise!GoesOn(t)
    BY <1>3, <2>2, <2>3 DEF FinishWithNext, Promise!GoesOn, Outcome
  <2> QED
    BY <2>4 DEF Promise!Next
<1>4. CASE FinishCancelled \/ FinishLast \/ FinishFaultedCompletes
  <2>1. at \in Early /\ at' = "store"
    BY <1>4 DEF FinishCancelled, FinishLast, FinishFaultedCompletes, Early
  <2>2. PICK t \in Tasks : /\ t = Front.task /\ 1 \in DOMAIN queue
                           /\ queue[1].task = t /\ ~isCompleted[t]
    <3>1. Front.task \in Tasks /\ 1 \in DOMAIN queue /\ Front = queue[1]
      <4>1. queue # <<>>
        BY <1>0, <2>1 DEF TypeOK, Early
      <4> QED
        BY <1>0, <4>1, FrontJob
    <3> QED
      BY <1>0, <2>1, <3>1 DEF SettledTaskIsQuiet, Unsettled, Early
  <2> DEFINE Becomes(how) == [u \in Tasks |-> Outcome(u)]'
                 = [[u \in Tasks |-> Outcome(u)] EXCEPT ![Front.task] = how]
  <2>3. CASE FinishCancelled
    <3>1. Becomes("cancelled")
      BY <1>0, <2>2, <2>3 DEF FinishCancelled, Outcome, TypeOK
    <3> QED
      BY <2>1, <2>3, <3>1, PromiseFinish DEF FinishCancelled
  <2>4. CASE FinishLast
    <3>1. ~isFaulted[t] /\ ~isCancelled[t]
      BY <2>2, <2>4 DEF FlagsInv, FinishLast
    <3>2. Becomes("success")
      BY <1>0, <2>2, <2>4, <3>1 DEF FinishLast, Outcome, TypeOK
    <3> QED
      BY <2>1, <2>4, <3>2, PromiseFinish DEF FinishLast
  <2>5. CASE FinishFaultedCompletes
    <3>1. isFaulted[t] /\ ~isCancelled[t]
      BY <2>2, <2>5 DEF FlagsInv, FinishFaultedCompletes, IInv, Safety, OutcomeInv
    <3>2. Becomes("fault")
      BY <1>0, <2>2, <2>5, <3>1 DEF FinishFaultedCompletes, Outcome, TypeOK
    <3> QED
      BY <2>1, <2>5, <3>2, PromiseFinish DEF FinishFaultedCompletes
  <2> QED
    BY <1>4, <2>3, <2>4, <2>5
<1>5. CASE StoreResult \/ Post
  <2>1. Executing = {} /\ Executing' = {}
    BY <1>5 DEF StoreResult, Post, Executing
  <2> QED
    BY <1>5, <2>1, PromiseStutter DEF StoreResult, Post, seen
<1> QED
  BY <1>1, <1>2, <1>3, <1>4, <1>5 DEF WorkerStep

LEMMA PromiseStep ==
  ASSUME IInv, FlagsInv, [Next]_vars
  PROVE  [Promise!Next]_(Promise!vars)
<1>1. CASE UIStep \/ UNCHANGED vars
  <2>1. UNCHANGED <<seen, given, started, isCancelling, at, queue>>
    BY <1>1 DEF UIStep, DropMessage, ListenerReadsFirst, ListenerReadsSecond,
                vars, built, flags, background, seen
  <2> QED
    BY <2>1, PromiseStutter DEF Executing, Front
<1>2. CASE UserStep
  BY <1>2, PromiseUser
<1>3. CASE WorkerStep
  BY <1>3, PromiseWorker
<1>4. ASSUME NEW w \in Waiters, WaitStep(w)
      PROVE  Promise!Next \/ UNCHANGED Promise!vars
  <2>1. \/ UNCHANGED core /\ UNCHANGED isCancelling
        \/ \E t \in Tasks : t \notin started /\ WaitAllStarts(w, t)
    <3>1. UNCHANGED core \/ \E t \in Tasks : t \notin started /\ WaitAllStarts(w, t)
      BY <1>4, ClaimWait
    <3>2. CASE \E t \in Tasks : WaitAllStarts(w, t)
      BY <3>1, <3>2 DEF WaitAllStarts
    <3>3. CASE ~ \E t \in Tasks : WaitAllStarts(w, t)
      BY <1>4, <3>1, <3>3
         DEF WaitStep, PollStep, WaitUntil, WaitAll, PollReturnsTrue,
             PollSleeps, PollTimesOut, flags
    <3> QED
      BY <3>2, <3>3
  <2>2. CASE UNCHANGED core /\ UNCHANGED isCancelling
    BY <2>2, PromiseStutter DEF core, seen, Executing, Front
  <2>3. CASE \E t \in Tasks : t \notin started /\ WaitAllStarts(w, t)
    BY <2>3, PromiseLaunch DEF WaitAllStarts
  <2> QED
    BY <2>1, <2>2, <2>3
<1> QED
  BY <1>1, <1>2, <1>3, <1>4 DEF Next

(* Task.java:85-149 and 219-243. Every step of any number of tasks that    *)
(* share the executor is one of the promise or invisible in it: one action *)
(* executes at a time, and a task ends once, with the outcome that its     *)
(* flags tell, a success only when all of its actions have begun.          *)
THEOREM KeepsPromise == Spec => ImplementsPromise
<1>1. Init => FlagsInv
  BY DEF Init, FlagsInv
<1>2. Spec => []FlagsInv
  BY <1>1, FlagsStep, Inductive, PTL DEF Spec
<1>3. IInv /\ FlagsInv /\ [Next]_vars => [Promise!Next]_(Promise!vars)
  BY PromiseStep
<1> QED
  BY <1>2, <1>3, PromiseInit, Inductive, PTL
     DEF Spec, Promise!Spec, ImplementsPromise
-----------------------------------------------------------------------------
(* What listeners and waiting threads learn of a task.                     *)

\* Every step leaves the looper's queue alone, takes the message in front
\* off it, or posts one for the job in front.
LEMMA UIQueueStep ==
  ASSUME TypeOK, [Next]_vars
  PROVE  \/ UNCHANGED uiQueue
         \/ uiQueue # <<>> /\ uiQueue' = Tail(uiQueue)
         \/ Post
<1> USE DEF ui
<1>1. UIStep => \/ UNCHANGED uiQueue
                \/ uiQueue # <<>> /\ uiQueue' = Tail(uiQueue)
  BY DEF UIStep, DropMessage, ListenerReadsFirst, ListenerReadsSecond, TypeOK
<1>2. ASSUME WorkerStep, ~Post PROVE UNCHANGED uiQueue
  BY <1>2 DEF WorkerStep, Begin, ExecuteReturns, ExecuteThrows,
       FinishCancelled, FinishWithNext, FinishLast, FinishFaulted,
       FinishFaultedCompletes, StoreResult
<1>3. UserStep => UNCHANGED uiQueue
  BY DEF UserStep, ContinueWith, Start, Cancel
<1>4. ASSUME NEW w \in Waiters, WaitStep(w) PROVE UNCHANGED uiQueue
  BY <1>4 DEF WaitStep, PollStep, WaitAllStarts, WaitUntil, WaitAll,
              PollReturnsTrue, PollSleeps, PollTimesOut
<1> QED
  BY <1>1, <1>2, <1>3, <1>4 DEF Next, vars
-----------------------------------------------------------------------------
(* Results.                                                                *)

(* ListenerFindsResult, by position: results[t][i] is i.                   *)
ResultsHeld ==
  \A i \in DOMAIN uiQueue :
    uiQueue[i].action \in 1..Len(results[uiQueue[i].task])

LEMMA ResultsGrow ==
  ASSUME IInv, [Next]_vars
  PROVE  \A t \in Tasks : /\ Len(results[t]) \in Nat /\ Len(results'[t]) \in Nat
                          /\ Len(results[t]) <= Len(results'[t])
<1>0. TypeOK /\ CoreTyped
  BY CoreTypes DEF IInv
<1>1. CASE UNCHANGED results
  BY <1>0, <1>1 DEF CoreTyped
<1>2. CASE StoreResult
  <2>1. Front.task \in Tasks /\ Front.action \in Actions
    <3>1. Front \in Jobs
      BY <1>0, <1>2, FrontFacts DEF TypeOK, Front, StoreResult
    <3> QED
      BY <3>1 DEF Jobs
  <2>2. /\ results[Front.task] \in Seq(Actions)
        /\ results'[Front.task] = Append(results[Front.task], Front.action)
        /\ \A t \in Tasks : t # Front.task => results'[t] = results[t]
    BY <1>0, <1>2, <2>1 DEF StoreResult, TypeOK
  <2>3. Len(results'[Front.task]) = Len(results[Front.task]) + 1
    BY <2>1, <2>2, AppendFacts
  <2> QED
    BY <1>0, <2>1, <2>2, <2>3 DEF CoreTyped
<1>3. UNCHANGED results \/ StoreResult
  BY DEF Next, UIStep, DropMessage, ListenerReadsFirst, ListenerReadsSecond,
         UserStep, ContinueWith, Start, Cancel, WorkerStep, Begin,
         ExecuteReturns, ExecuteThrows, FinishCancelled, FinishWithNext,
         FinishLast, FinishFaulted, FinishFaultedCompletes, Post, WaitStep,
         PollStep, WaitAllStarts, WaitUntil, WaitAll, PollReturnsTrue,
         PollSleeps, PollTimesOut, vars, stored
<1> QED
  BY <1>1, <1>2, <1>3

LEMMA PostFacts ==
  ASSUME TypeOK, Post
  PROVE  /\ Front \in Jobs /\ uiQueue \in Seq(Jobs)
         /\ uiQueue' = Append(uiQueue, Front)
         /\ queue' = Tail(queue)
         /\ Len(uiQueue) \in Nat /\ DOMAIN uiQueue = 1..Len(uiQueue)
         /\ DOMAIN uiQueue' = 1..(Len(uiQueue) + 1)
         /\ \A i \in 1..Len(uiQueue) : uiQueue'[i] = uiQueue[i]
         /\ uiQueue'[Len(uiQueue) + 1] = Front
<1>1. Front \in Jobs /\ uiQueue \in Seq(Jobs) /\ uiQueue' = Append(uiQueue, Front)
  BY FrontFacts DEF TypeOK, Front, Post
<1> QED
  BY <1>1, AppendFacts DEF Post

LEMMA ResultsHeldStep ==
  ASSUME IInv, ResultsHeld, [Next]_vars
  PROVE  ResultsHeld'
<1>0. TypeOK /\ CoreTyped /\ HistoryInv /\ QueueInv
  BY CoreTypes DEF IInv, Safety
<1>1. uiQueue \in Seq(Jobs) /\ \A i \in DOMAIN uiQueue : uiQueue[i] \in Jobs
  BY <1>0, ElementOfSeq, LenProperties DEF TypeOK
<1>2. ASSUME NEW i \in DOMAIN uiQueue
      PROVE  uiQueue[i].action \in 1..Len(results'[uiQueue[i].task])
  <2>1. uiQueue[i].task \in Tasks /\ uiQueue[i].action \in 1..Len(results[uiQueue[i].task])
    BY <1>1 DEF ResultsHeld, Jobs
  <2> QED
    BY <2>1, ResultsGrow
<1>3. CASE UNCHANGED uiQueue
  BY <1>2, <1>3 DEF ResultsHeld
<1>4. CASE uiQueue # <<>> /\ uiQueue' = Tail(uiQueue)
  <2>1. /\ Len(uiQueue) \in Nat /\ DOMAIN uiQueue = 1..Len(uiQueue)
        /\ DOMAIN uiQueue' = 1..(Len(uiQueue) - 1)
        /\ \A i \in 1..(Len(uiQueue) - 1) : uiQueue'[i] = uiQueue[i + 1]
    BY <1>1, <1>4, FrontFacts
  <2>2. ASSUME NEW i \in DOMAIN uiQueue'
        PROVE  uiQueue'[i].action \in 1..Len(results'[uiQueue'[i].task])
    <3>1. i + 1 \in DOMAIN uiQueue /\ uiQueue'[i] = uiQueue[i + 1]
      BY <2>1
    <3> QED
      BY <1>2, <3>1
  <2> QED
    BY <2>2 DEF ResultsHeld
<1>5. CASE Post
  <2>1. Front.task \in Tasks /\ at = "post" /\ UNCHANGED results
    BY <1>0, <1>5 DEF CoreTyped, Post, stored
  <2>2. Front.action = Len(begun[Front.task])
    BY <1>0, <2>1 DEF QueueInv
  <2>3. Len(begun[Front.task]) = Len(results[Front.task])
    BY <1>0, <2>1 DEF HistoryInv
  <2>4. Front.action \in 1..Len(results'[Front.task])
    BY <1>0, <1>5, <2>1, <2>2, <2>3, PostFacts, TaskChainAssumption
       DEF Jobs, Actions
  <2> QED
    BY <1>0, <1>2, <1>5, <2>4, PostFacts DEF ResultsHeld
<1> QED
  BY <1>0, <1>3, <1>4, <1>5, UIQueueStep

(* Task.java:94-104 and 280-285. Results are stored after the flags and    *)
(* after the next action was handed over; still a listener call for an     *)
(* action always finds the entries of that action and of all before it.    *)
THEOREM ResultAlwaysFound == Spec => []ListenerFindsResult
<1>1. Init => ResultsHeld
  BY DEF Init, ResultsHeld
<1>2. ASSUME IInv, ResultsHeld PROVE ListenerFindsResult
  <2>1. ASSUME NEW i \in DOMAIN uiQueue
        PROVE  \A k \in 1..uiQueue[i].action :
                 /\ k \in DOMAIN results[uiQueue[i].task]
                 /\ results[uiQueue[i].task][k] = k
    <3>0. TypeOK /\ CoreTyped /\ HistoryInv
      BY <1>2, CoreTypes DEF IInv, Safety
    <3>1. uiQueue[i].task \in Tasks
      <4>1. uiQueue \in Seq(Jobs)
        BY <3>0 DEF TypeOK
      <4>2. uiQueue[i] \in Jobs
        BY <4>1, ElementOfSeq, LenProperties
      <4> QED
        BY <4>2 DEF Jobs
    <3>2. uiQueue[i].action \in 1..Len(results[uiQueue[i].task])
      BY <1>2 DEF ResultsHeld
    <3> QED
      BY <3>0, <3>1, <3>2 DEF HistoryInv, CoreTyped
  <2> QED
    BY <2>1 DEF ListenerFindsResult
<1> QED
  BY <1>1, <1>2, ResultsHeldStep, Inductive, PTL DEF Spec
-----------------------------------------------------------------------------
(* Steps, by what they do to the listener call in progress and to the      *)
(* executor's queue.                                                       *)

LEMMA ListenerStep ==
  ASSUME [Next]_vars
  PROVE  \/ ListenerReadsFirst
         \/ ListenerReadsSecond
         \/ /\ UNCHANGED <<uiAt, firstRead, heard>>
            /\ \/ UNCHANGED uiQueue
               \/ Post
               \/ DropMessage
<1> USE DEF ui
<1>1. ASSUME WorkerStep, ~Post
      PROVE  UNCHANGED <<uiAt, firstRead, heard, uiQueue>>
  BY <1>1 DEF WorkerStep, Begin, ExecuteReturns, ExecuteThrows,
       FinishCancelled, FinishWithNext, FinishLast, FinishFaulted,
       FinishFaultedCompletes, StoreResult
<1>2. Post => UNCHANGED <<uiAt, firstRead, heard>>
  BY DEF Post
<1>3. UserStep => UNCHANGED <<uiAt, firstRead, heard, uiQueue>>
  BY DEF UserStep, ContinueWith, Start, Cancel
<1>4. ASSUME NEW w \in Waiters, WaitStep(w)
      PROVE  UNCHANGED <<uiAt, firstRead, heard, uiQueue>>
  BY <1>4 DEF WaitStep, PollStep, WaitAllStarts, WaitUntil, WaitAll,
              PollReturnsTrue, PollSleeps, PollTimesOut
<1>5. DropMessage => UNCHANGED <<uiAt, firstRead, heard>>
  BY DEF DropMessage
<1> QED
  BY <1>1, <1>2, <1>3, <1>4, <1>5 DEF Next, UIStep, vars

LEMMA QueueStep ==
  ASSUME TypeOK, [Next]_vars
  PROVE  \/ UNCHANGED queue
         \/ \E j \in Jobs : queue' = Append(queue, j)
         \/ Post
<1>0. CoreTyped
  BY CoreTypes
<1> USE DEF background
<1>1. ASSUME NEW t \in Tasks, Launch(t)
      PROVE  \E j \in Jobs : queue' = Append(queue, j)
  BY <1>1, TaskChainAssumption DEF Launch, Job, Jobs, Actions
<1>2. UIStep => UNCHANGED queue
  BY DEF UIStep, DropMessage, ListenerReadsFirst, ListenerReadsSecond
<1>3. CASE UserStep
  BY <1>1, <1>3 DEF UserStep, ContinueWith, Start, Cancel
<1>4. CASE FinishWithNext
  <2> DEFINE t == Front.task
  <2>1. t \in Tasks /\ continuation[t] \in Seq(Actions) /\ continuation[t] # <<>>
    BY <1>0, <1>4 DEF FinishWithNext, CoreTyped, TypeOK
  <2>2. Job(t, continuation[t][1]) \in Jobs
    BY <2>1, FrontFacts DEF Job, Jobs
  <2> QED
    BY <1>4, <2>2 DEF FinishWithNext
<1>5. ASSUME WorkerStep, ~Post, ~FinishWithNext PROVE UNCHANGED queue
  BY <1>5 DEF WorkerStep, Begin, ExecuteReturns, ExecuteThrows,
       FinishCancelled, FinishLast, FinishFaulted, FinishFaultedCompletes,
       StoreResult
<1>6. ASSUME NEW w \in Waiters, WaitStep(w)
      PROVE  UNCHANGED queue \/ \E j \in Jobs : queue' = Append(queue, j)
  BY <1>1, <1>6 DEF WaitStep, PollStep, WaitAllStarts, WaitUntil, WaitAll,
              PollReturnsTrue, PollSleeps, PollTimesOut
<1> QED
  BY <1>2, <1>3, <1>4, <1>5, <1>6 DEF Next, vars

HasJob(t) == \E i \in DOMAIN queue : queue[i].task = t

\* A job stays in the executor's queue until it becomes a message, the last.
LEMMA JobKept ==
  ASSUME TypeOK, [Next]_vars, NEW t \in Tasks, HasJob(t), ~HasJob(t)'
  PROVE  Post /\ Front.task = t
<1>1. queue \in Seq(Jobs) /\ Len(queue) \in Nat /\ DOMAIN queue = 1..Len(queue)
  BY CoreTypes DEF CoreTyped
<1>2. PICK i \in 1..Len(queue) : queue[i].task = t
  BY <1>1 DEF HasJob
<1>3. ASSUME NEW j \in Jobs, queue' = Append(queue, j) PROVE FALSE
  <2>1. i \in DOMAIN queue' /\ queue'[i] = queue[i]
    BY <1>1, <1>2, <1>3, AppendFacts
  <2> QED
    BY <1>2, <2>1 DEF HasJob
<1>4. ~UNCHANGED queue
  BY DEF HasJob
<1>5. Post
  BY <1>3, <1>4, QueueStep
<1>6. ASSUME i # 1 PROVE FALSE
  <2>1. queue' = Tail(queue) /\ queue # <<>>
    BY <1>5 DEF Post, TypeOK
  <2>2. i - 1 \in DOMAIN queue' /\ queue'[i - 1] = queue[i]
    <3>1. /\ DOMAIN Tail(queue) = 1..(Len(queue) - 1)
          /\ \A k \in 1..(Len(queue) - 1) : Tail(queue)[k] = queue[k + 1]
      BY <1>1, <2>1, FrontFacts
    <3>2. i - 1 \in 1..(Len(queue) - 1) /\ (i - 1) + 1 = i
      BY <1>1, <1>2, <1>6
    <3> QED
      BY <2>1, <3>1, <3>2
  <2> QED
    BY <1>2, <2>2 DEF HasJob
<1> QED
  BY <1>2, <1>5, <1>6 DEF Front
-----------------------------------------------------------------------------
(* Messages.                                                               *)

\* Only tasks that were started call their listeners.
MessagesStarted == \A i \in DOMAIN uiQueue : uiQueue[i].task \in started

LEMMA StartedGrows ==
  ASSUME [Next]_vars
  PROVE  started \subseteq started'
BY DEF Next, vars, built, UIStep, DropMessage, ListenerReadsFirst,
   ListenerReadsSecond, UserStep, ContinueWith, Start, Launch, Cancel,
   WorkerStep, Begin, ExecuteReturns, ExecuteThrows, FinishCancelled,
   FinishWithNext, FinishLast, FinishFaulted, FinishFaultedCompletes,
   StoreResult, Post, WaitStep, PollStep, WaitAllStarts, WaitUntil, WaitAll,
   PollReturnsTrue, PollSleeps, PollTimesOut

LEMMA MessagesStartedStep ==
  ASSUME IInv, MessagesStarted, [Next]_vars
  PROVE  MessagesStarted'
<1>0. TypeOK /\ CoreTyped /\ QueueInv /\ uiQueue \in Seq(Jobs)
  BY CoreTypes DEF IInv, Safety, TypeOK
<1>1. \A i \in DOMAIN uiQueue : uiQueue[i].task \in started'
  BY StartedGrows DEF MessagesStarted
<1>2. CASE UNCHANGED uiQueue
  BY <1>1, <1>2 DEF MessagesStarted
<1>3. CASE uiQueue # <<>> /\ uiQueue' = Tail(uiQueue)
  <2>1. /\ Len(uiQueue) \in Nat /\ DOMAIN uiQueue = 1..Len(uiQueue)
        /\ DOMAIN uiQueue' = 1..(Len(uiQueue) - 1)
        /\ \A i \in 1..(Len(uiQueue) - 1) : uiQueue'[i] = uiQueue[i + 1]
    BY <1>0, <1>3, FrontFacts
  <2>2. ASSUME NEW i \in DOMAIN uiQueue' PROVE uiQueue'[i].task \in started'
    <3>1. i + 1 \in DOMAIN uiQueue /\ uiQueue'[i] = uiQueue[i + 1]
      BY <2>1
    <3> QED
      BY <1>1, <3>1
  <2> QED
    BY <2>2 DEF MessagesStarted
<1>4. CASE Post
  <2>1. Front.task \in started'
    BY <1>0, <1>4, StartedGrows DEF CoreTyped, Post, QueueInv
  <2> QED
    BY <1>0, <1>1, <1>4, <2>1, PostFacts DEF MessagesStarted
<1> QED
  BY <1>0, <1>2, <1>3, <1>4, UIQueueStep

LEMMA MessagesOfStarted == Spec => []MessagesStarted
<1>1. Init => MessagesStarted
  BY DEF Init, MessagesStarted
<1> QED
  BY <1>1, MessagesStartedStep, Inductive, PTL DEF Spec

\* A call that was heard, and a fault, stay in the record.
LEMMA HeardGrows ==
  ASSUME TypeOK, [Next]_vars, NEW t \in Tasks
  PROVE  /\ isFaulted[t] => isFaulted'[t]
         /\ \A i \in DOMAIN heard[t] : /\ i \in DOMAIN heard'[t]
                                       /\ heard'[t][i] = heard[t][i]
<1> USE DEF flags, ui
<1>1. CASE ListenerReadsSecond
  <2> DEFINE m == uiQueue[1]
  <2>1. m.task \in Tasks /\ m.action \in Actions
    <3>1. m \in Jobs
      BY <1>1, FrontFacts DEF ListenerReadsSecond, TypeOK
    <3> QED
      BY <3>1 DEF Jobs
  <2>2. CallSeen(m.task, m.action) \in Calls
    BY <2>1 DEF CallSeen, Calls, TypeOK
  <2>3. /\ heard[t] \in Seq(Calls)
        /\ heard'[t] = heard[t] \/ heard'[t] = Append(heard[t], CallSeen(m.task, m.action))
    BY <1>1, <2>1 DEF ListenerReadsSecond, TypeOK
  <2>4. ASSUME NEW i \in DOMAIN heard[t]
        PROVE  i \in DOMAIN heard'[t] /\ heard'[t][i] = heard[t][i]
    BY <2>2, <2>3, AppendFacts
  <2> QED
    BY <1>1, <2>4 DEF ListenerReadsSecond
<1>2. CASE FinishFaulted
  BY <1>2 DEF FinishFaulted, TypeOK
<1>3. CASE UNCHANGED <<heard, isFaulted>>
  BY <1>3
<1>4. \/ ListenerReadsSecond \/ FinishFaulted
      \/ UNCHANGED <<heard, isFaulted>>
  BY DEF Next, vars, UIStep, DropMessage, ListenerReadsFirst, UserStep,
     ContinueWith, Start, Cancel, WorkerStep, Begin, ExecuteReturns,
     ExecuteThrows, FinishCancelled, FinishWithNext, FinishLast,
     FinishFaultedCompletes, StoreResult, Post, WaitStep, PollStep,
     WaitAllStarts, WaitUntil, WaitAll, PollReturnsTrue, PollSleeps,
     PollTimesOut
<1> QED
  BY <1>1, <1>2, <1>3, <1>4
-----------------------------------------------------------------------------
(* Completion.                                                             *)

HasMessage(t) == \E i \in DOMAIN uiQueue : uiQueue[i].task = t

\* Something more of task t is to be handled after the message in front.
MoreToCome(t) ==
  HasJob(t) \/ \E i \in DOMAIN uiQueue : i # 1 /\ uiQueue[i].task = t

\* A call that read isCompleted too early is not the last one of its task.
EarlyReadInv ==
  uiAt = "listener" /\ CompletedFirst /\ ~firstRead
    => MoreToCome(uiQueue[1].task)

LEMMA UnsettledHasJob ==
  ASSUME IInv, NEW t \in listening, ~isCompleted[t]
  PROVE  HasJob(t) /\ t \in Tasks
<1>1. t \in started /\ t \in Tasks
  BY DEF IInv, TypeOK
<1> QED
  BY <1>1 DEF IInv, Safety, OutcomeInv, HasJob

\* While the call in front is not taken off, what follows it stays.
LEMMA MoreKept ==
  ASSUME IInv, [Next]_vars, UNCHANGED uiQueue \/ Post,
         uiQueue # <<>>, NEW t \in Tasks, MoreToCome(t)
  PROVE  MoreToCome(t)' /\ uiQueue'[1] = uiQueue[1]
<1>0. TypeOK
  BY DEF IInv
<1>1. CASE UNCHANGED uiQueue
  <2>1. CASE HasJob(t) /\ ~HasJob(t)'
    <3>1. Post /\ uiQueue \in Seq(Jobs)
      BY <1>0, <2>1, JobKept DEF TypeOK
    <3>2. Len(uiQueue') = Len(uiQueue) + 1 /\ Len(uiQueue) \in Nat
      BY <1>0, <3>1, PostFacts, AppendFacts
    <3> QED
      BY <1>1, <3>2
  <2> QED
    BY <1>1, <2>1 DEF MoreToCome
<1>2. CASE Post
  <2>1. /\ Len(uiQueue) \in Nat \ {0} /\ DOMAIN uiQueue = 1..Len(uiQueue)
        /\ DOMAIN uiQueue' = 1..(Len(uiQueue) + 1)
        /\ \A i \in 1..Len(uiQueue) : uiQueue'[i] = uiQueue[i]
        /\ uiQueue'[Len(uiQueue) + 1] = Front
    BY <1>0, <1>2, PostFacts, FrontFacts
  <2>2. uiQueue'[1] = uiQueue[1]
    BY <2>1
  <2>3. CASE HasJob(t) /\ ~HasJob(t)'
    <3>1. Front.task = t
      BY <1>0, <2>3, JobKept
    <3>2. Len(uiQueue) + 1 \in DOMAIN uiQueue' /\ Len(uiQueue) + 1 # 1
      BY <2>1
    <3> QED
      BY <2>1, <2>2, <3>1, <3>2 DEF MoreToCome
  <2>4. ASSUME NEW i \in DOMAIN uiQueue, i # 1, uiQueue[i].task = t
        PROVE  MoreToCome(t)'
    BY <2>1, <2>4 DEF MoreToCome
  <2> QED
    BY <2>2, <2>3, <2>4 DEF MoreToCome
<1> QED
  BY <1>1, <1>2

LEMMA EarlyReadStep ==
  ASSUME IInv, EarlyReadInv, [Next]_vars
  PROVE  EarlyReadInv'
<1>0. TypeOK
  BY DEF IInv
<1>1. CASE ListenerReadsFirst
  <2> DEFINE t == uiQueue[1].task
  <2> SUFFICES ASSUME CompletedFirst, ~firstRead' PROVE MoreToCome(t)'
    BY <1>1 DEF EarlyReadInv, ListenerReadsFirst
  <2>1. t \in listening /\ ~isCompleted[t]
    BY <1>1 DEF ListenerReadsFirst, ReadsCompletedFirst
  <2>2. HasJob(t) /\ UNCHANGED queue
    BY <1>1, <2>1, UnsettledHasJob DEF ListenerReadsFirst, background
  <2> QED
    BY <1>1, <2>2 DEF MoreToCome, HasJob, ListenerReadsFirst
<1>2. CASE ListenerReadsSecond \/ DropMessage
  BY <1>2 DEF EarlyReadInv, ListenerReadsSecond, DropMessage
<1>3. CASE UNCHANGED <<uiAt, firstRead>> /\ (UNCHANGED uiQueue \/ Post)
  <2> SUFFICES ASSUME uiAt = "listener", CompletedFirst, ~firstRead
               PROVE  MoreToCome(uiQueue[1].task)'
    BY <1>3 DEF EarlyReadInv
  <2>1. uiQueue # <<>> /\ uiQueue \in Seq(Jobs)
    BY <1>0 DEF TypeOK
  <2>2. uiQueue[1].task \in Tasks
    <3>1. uiQueue[1] \in Jobs
      BY <2>1, FrontFacts
    <3> QED
      BY <3>1 DEF Jobs
  <2>3. PICK t \in Tasks : t = uiQueue[1].task
    BY <2>2
  <2>4. MoreToCome(t)
    BY <2>3 DEF EarlyReadInv
  <2>5. MoreToCome(t)' /\ uiQueue'[1].task = t
    BY <1>3, <2>1, <2>3, <2>4, MoreKept
  <2> QED
    BY <2>5 DEF MoreToCome, HasJob
<1> QED
  BY <1>1, <1>2, <1>3, ListenerStep

\* A message in front that is not for t is taken off: those for t stay.
LEMMA MessageKept ==
  ASSUME uiQueue \in Seq(Jobs), uiQueue # <<>>, uiQueue' = Tail(uiQueue),
         NEW t, NEW i \in DOMAIN uiQueue, i # 1, uiQueue[i].task = t
  PROVE  HasMessage(t)'
<1>1. /\ Len(uiQueue) \in Nat /\ DOMAIN uiQueue = 1..Len(uiQueue)
      /\ DOMAIN uiQueue' = 1..(Len(uiQueue) - 1)
      /\ \A k \in 1..(Len(uiQueue) - 1) : uiQueue'[k] = uiQueue[k + 1]
  BY FrontFacts
<1>2. i - 1 \in 1..(Len(uiQueue) - 1) /\ (i - 1) + 1 = i
  BY <1>1
<1> QED
  BY <1>1, <1>2 DEF HasMessage

HeardInv == CompletionIsHeard /\ EarlyReadInv

LEMMA HeardStep ==
  ASSUME IInv, HeardInv, [Next]_vars, NEW t \in listening'
  PROVE  HasJob(t)' \/ HasMessage(t)' \/ (heard'[t] # <<>> /\ LastHeard(t)'.completed)
<1>0. TypeOK /\ t \in Tasks
  <2>1. TypeOK'
    BY TypeUI, TypeUser, TypeWorker, TypeWait DEF IInv, Next, vars, built,
       flags, stored, background, ui, TypeOK
  <2> QED
    BY <2>1 DEF IInv, TypeOK
<1>1. CASE t \notin listening
  <2>1. UserStep
    BY <1>1 DEF Next, vars, built, UIStep, DropMessage, ListenerReadsFirst,
       ListenerReadsSecond, WorkerStep, Begin, ExecuteReturns, ExecuteThrows,
       FinishCancelled, FinishWithNext, FinishLast, FinishFaulted,
       FinishFaultedCompletes, StoreResult, Post, WaitStep, PollStep,
       WaitAllStarts, WaitUntil, WaitAll, PollReturnsTrue, PollSleeps,
       PollTimesOut
  <2>2. Launch(t)
    BY <1>1, <2>1 DEF UserStep, ContinueWith, Start, Cancel, built
  <2>3. /\ queue \in Seq(Jobs) /\ queue' = Append(queue, Job(t, 1))
        /\ Job(t, 1) \in Jobs /\ Job(t, 1).task = t
    BY <1>0, <2>2, TaskChainAssumption DEF Launch, TypeOK, Job, Jobs, Actions
  <2>4. /\ Len(queue) \in Nat /\ DOMAIN queue' = 1..(Len(queue) + 1)
        /\ queue'[Len(queue) + 1].task = t
    BY <2>3, AppendFacts
  <2> QED
    BY <2>4 DEF HasJob
<1>2. CASE t \in listening /\ HasJob(t) /\ ~HasJob(t)'
  <2>1. Post /\ Front.task = t
    BY <1>0, <1>2, JobKept
  <2>2. /\ Len(uiQueue) \in Nat /\ DOMAIN uiQueue' = 1..(Len(uiQueue) + 1)
        /\ uiQueue'[Len(uiQueue) + 1] = Front
    BY <1>0, <2>1, PostFacts
  <2> QED
    BY <2>1, <2>2 DEF HasMessage
<1>3. CASE t \in listening /\ ~HasJob(t)
  <2>1. HasMessage(t) \/ (heard[t] # <<>> /\ LastHeard(t).completed)
    BY <1>3 DEF HeardInv, CompletionIsHeard, HasJob, HasMessage
  <2>2. CASE ListenerReadsFirst
    BY <2>1, <2>2 DEF ListenerReadsFirst, HasMessage, LastHeard
  <2>3. CASE ListenerReadsSecond
    <3> DEFINE m == uiQueue[1]
    <3>1. uiQueue \in Seq(Jobs) /\ uiQueue # <<>> /\ uiQueue' = Tail(uiQueue)
      BY <1>0, <2>3 DEF ListenerReadsSecond, TypeOK
    <3>2. m.task \in Tasks /\ m.action \in Actions
      <4>1. m \in Jobs
        BY <3>1, FrontFacts
      <4> QED
        BY <4>1 DEF Jobs
    <3>3. CASE m.task # t
      <4>1. UNCHANGED heard[t]
        BY <1>0, <2>3, <3>3 DEF ListenerReadsSecond, TypeOK
      <4>2. HasMessage(t) => HasMessage(t)'
        BY <3>1, <3>3, MessageKept DEF HasMessage
      <4> QED
        BY <2>1, <4>1, <4>2 DEF LastHeard
    <3>4. CASE m.task = t
      <4>1. CASE MoreToCome(t)
        BY <1>3, <3>1, <4>1, MessageKept DEF MoreToCome
      <4>2. CASE ~MoreToCome(t)
        <5>1. CallSeen(t, m.action).completed
          <6>1. CompletedFirst => firstRead
            BY <2>3, <3>4, <4>2 DEF HeardInv, EarlyReadInv, ListenerReadsSecond
          <6>2. ~CompletedFirst => isCompleted[t]
            BY <1>3, UnsettledHasJob
          <6> QED
            BY <6>1, <6>2 DEF CallSeen, ReadsCompletedFirst
        <5>2. heard[t] \in Seq(Calls) /\ CallSeen(t, m.action) \in Calls
          BY <1>0, <3>2 DEF TypeOK, CallSeen, Calls
        <5>3. heard'[t] = Append(heard[t], CallSeen(t, m.action))
          BY <1>0, <2>3, <3>4 DEF ListenerReadsSecond, TypeOK
        <5>4. heard'[t] # <<>> /\ heard'[t][Len(heard'[t])] = CallSeen(t, m.action)
          BY <5>2, <5>3, AppendFacts
        <5> QED
          BY <5>1, <5>4 DEF LastHeard
      <4> QED
        BY <4>1, <4>2
    <3> QED
      BY <3>3, <3>4
  <2>4. CASE DropMessage
    <3>1. uiQueue \in Seq(Jobs) /\ uiQueue # <<>> /\ uiQueue' = Tail(uiQueue)
          /\ uiQueue[1].task # t /\ UNCHANGED heard
      BY <1>0, <1>3, <2>4 DEF DropMessage, TypeOK
    <3>2. HasMessage(t) => HasMessage(t)'
      BY <3>1, MessageKept DEF HasMessage
    <3> QED
      BY <2>1, <3>1, <3>2 DEF LastHeard
  <2>5. CASE UNCHANGED heard /\ UNCHANGED uiQueue
    BY <2>1, <2>5 DEF HasMessage, LastHeard
  <2>6. CASE UNCHANGED heard /\ Post
    <3>1. HasMessage(t) => HasMessage(t)'
      BY <1>0, <2>6, PostFacts DEF HasMessage
    <3> QED
      BY <2>1, <2>6, <3>1 DEF LastHeard
  <2> QED
    BY <2>2, <2>3, <2>4, <2>5, <2>6, ListenerStep
<1> QED
  BY <1>1, <1>2, <1>3

(* Task.java:280-285. The flags are set and the message is posted in       *)
(* separate steps and a listener reads while the executor goes on; still   *)
(* no listener misses the completion of its task: either more of the task  *)
(* is to come, or the last call saw isCompleted. In either order of reads. *)
THEOREM CompletionHeard == Spec => []CompletionIsHeard
<1>1. Init => HeardInv
  BY DEF Init, HeardInv, CompletionIsHeard, EarlyReadInv
<1>2. ASSUME IInv, HeardInv, [Next]_vars PROVE HeardInv'
  <2>1. \A t \in listening' : \/ HasJob(t)'
                              \/ HasMessage(t)'
                              \/ heard'[t] # <<>> /\ LastHeard(t)'.completed
    BY <1>2, HeardStep
  <2>2. CompletionIsHeard'
    BY <2>1 DEF CompletionIsHeard, HasJob, HasMessage
  <2> QED
    BY <1>2, <2>2, EarlyReadStep DEF HeardInv
<1> QED
  BY <1>1, <1>2, Inductive, PTL DEF Spec, HeardInv
-----------------------------------------------------------------------------
(* Faults. What a listener read as completed is completed for good, so the *)
(* isFaulted that it reads after that is the final one.                    *)

CompletedReads ==
  /\ \A t \in Tasks : \A i \in DOMAIN heard[t] :
       heard[t][i].completed =>
         /\ isCompleted[t]
         /\ ~heard[t][i].faulted => ~isFaulted[t]
  /\ uiAt = "listener" /\ firstRead => isCompleted[uiQueue[1].task]

LEMMA CompletedReadsStep ==
  ASSUME IInv, CompletedFirst, CompletedReads, [Next]_vars
  PROVE  CompletedReads'
<1>0. TypeOK /\ Final
  BY OutcomeStep DEF IInv
<1>1. uiQueue # <<>> => /\ uiQueue \in Seq(Jobs) /\ uiQueue[1] \in Jobs
                        /\ uiQueue[1].task \in Tasks
                        /\ uiQueue[1].action \in Actions
  <2>1. uiQueue # <<>> => uiQueue \in Seq(Jobs) /\ uiQueue[1] \in Jobs
    BY <1>0, FrontFacts DEF TypeOK
  <2> QED
    BY <2>1 DEF Jobs
<1>2. ASSUME NEW t \in Tasks, NEW i \in DOMAIN heard[t], heard[t][i].completed
      PROVE  isCompleted'[t] /\ (~heard[t][i].faulted => ~isFaulted'[t])
  BY <1>0, <1>2 DEF CompletedReads, Final
<1>3. CASE ListenerReadsFirst
  <2>1. firstRead' => isCompleted'[uiQueue'[1].task]
    BY <1>3 DEF ListenerReadsFirst, ReadsCompletedFirst, flags
  <2> QED
    BY <1>2, <1>3, <2>1 DEF CompletedReads, ListenerReadsFirst
<1>4. CASE ListenerReadsSecond
  <2> DEFINE m == uiQueue[1]
             c == CallSeen(m.task, m.action)
  <2>1. m.task \in Tasks /\ m.action \in Actions
    BY <1>0, <1>1, <1>4 DEF ListenerReadsSecond, TypeOK
  <2>2. c.completed => isCompleted[m.task] /\ (~c.faulted => ~isFaulted[m.task])
    BY <1>4 DEF ListenerReadsSecond, CompletedReads, CallSeen,
                ReadsCompletedFirst
  <2>3. UNCHANGED <<isCompleted, isFaulted>>
    BY <1>4 DEF ListenerReadsSecond, flags
  <2>4. ASSUME NEW t \in Tasks, NEW i \in DOMAIN heard'[t],
               heard'[t][i].completed
        PROVE  /\ isCompleted'[t]
               /\ ~heard'[t][i].faulted => ~isFaulted'[t]
    <3>1. CASE t # m.task
      <4>1. heard'[t] = heard[t]
        BY <1>0, <1>4, <2>1, <3>1 DEF ListenerReadsSecond, TypeOK
      <4> QED
        BY <1>2, <2>4, <4>1
    <3>2. CASE t = m.task
      <4>1. heard[t] \in Seq(Calls) /\ c \in Calls
        BY <1>0, <2>1 DEF TypeOK, CallSeen, Calls
      <4>2. heard'[t] = Append(heard[t], c)
        BY <1>0, <1>4, <2>1, <3>2 DEF ListenerReadsSecond, TypeOK
      <4>3. /\ Len(heard[t]) \in Nat /\ DOMAIN heard[t] = 1..Len(heard[t])
            /\ DOMAIN heard'[t] = 1..(Len(heard[t]) + 1)
            /\ \A k \in 1..Len(heard[t]) : heard'[t][k] = heard[t][k]
            /\ heard'[t][Len(heard[t]) + 1] = c
        BY <4>1, <4>2, AppendFacts
      <4>4. CASE i \in 1..Len(heard[t])
        BY <1>2, <2>4, <4>3, <4>4
      <4>5. CASE i = Len(heard[t]) + 1
        BY <2>2, <2>3, <2>4, <3>2, <4>3, <4>5
      <4> QED
        BY <2>4, <4>3, <4>4, <4>5
    <3> QED
      BY <3>1, <3>2
  <2> QED
    BY <1>4, <2>4 DEF CompletedReads, ListenerReadsSecond
<1>5. CASE /\ UNCHANGED <<uiAt, firstRead, heard>>
           /\ UNCHANGED uiQueue \/ Post \/ DropMessage
  <2>1. ASSUME uiAt' = "listener", firstRead'
        PROVE  isCompleted'[uiQueue'[1].task]
    <3>1. uiQueue # <<>> /\ isCompleted[uiQueue[1].task] /\ ~DropMessage
      BY <1>0, <1>5, <2>1 DEF CompletedReads, TypeOK, DropMessage
    <3>2. uiQueue'[1] = uiQueue[1]
      <4>1. CASE Post
        <5>1. 1 \in 1..Len(uiQueue)
          BY <1>1, <3>1, FrontFacts
        <5> QED
          BY <1>0, <4>1, <5>1, PostFacts
      <4> QED
        BY <1>5, <3>1, <4>1
    <3> QED
      BY <1>0, <1>1, <3>1, <3>2 DEF Final
  <2> QED
    BY <1>2, <1>5, <2>1 DEF CompletedReads
<1> QED
  BY <1>3, <1>4, <1>5, ListenerStep

(* OverallMapActivity.java:256-258. A listener that reads isCompleted and  *)
(* then isFaulted never takes a faulted task for a success, wherever the   *)
(* background thread is between the two reads. It rests on OutcomeStep,    *)
(* and fails for a listener that reads the two in the other order.         *)
THEOREM FaultIsHeard == Spec => [](CompletedFirst => FaultNotHeardAsSuccess)
<1> DEFINE FaultInv == CompletedFirst => CompletedReads
<1>1. Init => FaultInv
  BY DEF Init, CompletedReads
<1>2. IInv /\ FaultInv /\ [Next]_vars => FaultInv'
  BY CompletedReadsStep
<1>3. FaultInv => (CompletedFirst => FaultNotHeardAsSuccess)
  BY DEF CompletedReads, FaultNotHeardAsSuccess
<1> QED
  BY <1>1, <1>2, <1>3, Inductive, PTL DEF Spec
-----------------------------------------------------------------------------
(* A wait inside an action. While the background thread waits it is in     *)
(* execute, so nothing completes, and a task seen incomplete stays so.     *)

WorkerWaitInv ==
  Worker \in Waiters =>
    /\ wait[Worker].phase \in {"starting", "polling"} => at = "execute"
    /\ wait[Worker].phase # "polling" /\ wait[Worker].phase # "false"
         => ~wait[Worker].slept
    /\ wait[Worker].phase = "polling" /\ wait[Worker].slept
         => \E t \in wait[Worker].on : ~isCompleted[t]

\* While at is execute and stays so, no flag is set but by a launch.
LEMMA NothingCompletes ==
  ASSUME TypeOK, [Next]_vars, at = "execute", at' = "execute"
  PROVE  \A t \in Tasks : ~isCompleted[t] => ~isCompleted'[t]
<1> USE DEF flags, background
<1>1. WorkerStep => UNCHANGED isCompleted
  BY DEF WorkerStep, Begin, ExecuteReturns, ExecuteThrows,
       FinishCancelled, FinishWithNext, FinishLast, FinishFaulted,
       FinishFaultedCompletes, StoreResult, Post
<1>2. ASSUME NEW t \in Tasks, Launch(t)
      PROVE  \A u \in Tasks : ~isCompleted[u] => ~isCompleted'[u]
  BY <1>2 DEF Launch, TypeOK
<1>3. UIStep => UNCHANGED isCompleted
  BY DEF UIStep, DropMessage, ListenerReadsFirst, ListenerReadsSecond
<1>4. UserStep => UNCHANGED isCompleted \/ \E t \in Tasks : Launch(t)
  BY DEF UserStep, ContinueWith, Start, Cancel
<1>5. ASSUME NEW w \in Waiters, WaitStep(w)
      PROVE  UNCHANGED isCompleted \/ \E t \in Tasks : Launch(t)
  BY <1>5 DEF WaitStep, PollStep, WaitAllStarts, WaitUntil, WaitAll,
              PollReturnsTrue, PollSleeps, PollTimesOut
<1> QED
  BY <1>1, <1>2, <1>3, <1>4, <1>5 DEF Next, vars

LEMMA WorkerWaitStep ==
  ASSUME IInv, WorkerWaitInv, [Next]_vars, Worker \in Waiters
  PROVE  WorkerWaitInv'
<1>0. TypeOK /\ wait \in [Waiters -> Waits] /\ wait[Worker] \in Waits
  BY DEF IInv, TypeOK
<1> USE DEF background, Blocked
<1>1. CASE wait'[Worker] = wait[Worker]
  <2>1. wait[Worker].phase \in {"starting", "polling"} => at' = at
    <3>1. WorkerStep => ~Blocked
      BY DEF WorkerWaitInv, WorkerStep, Begin, ExecuteReturns, ExecuteThrows,
         FinishCancelled, FinishWithNext, FinishLast, FinishFaulted,
         FinishFaultedCompletes, StoreResult, Post
    <3>2. ~WorkerStep => at' = at
      BY DEF Next, vars, UIStep, DropMessage, ListenerReadsFirst,
         ListenerReadsSecond, UserStep, ContinueWith, Start, Cancel, WaitStep,
         PollStep, WaitAllStarts, WaitUntil, WaitAll, PollReturnsTrue,
         PollSleeps, PollTimesOut
    <3> QED
      BY <3>1, <3>2
  <2>2. wait[Worker].on \subseteq Tasks
    BY <1>0 DEF Waits
  <2> QED
    BY <1>0, <1>1, <2>1, <2>2, NothingCompletes DEF WorkerWaitInv
<1>2. ASSUME NEW w \in Waiters, WaitStep(w)
      PROVE  wait'[Worker] = wait[Worker] \/ w = Worker
  BY <1>0, <1>2 DEF WaitStep, PollStep, WaitAllStarts, WaitUntil, WaitAll,
              PollReturnsTrue, PollSleeps, PollTimesOut
<1>3. \/ wait' = wait
      \/ \E w \in Waiters : WaitStep(w)
  BY DEF Next, vars, UIStep, DropMessage, ListenerReadsFirst,
     ListenerReadsSecond, UserStep, ContinueWith, Start, Cancel,
     WorkerStep, Begin, ExecuteReturns, ExecuteThrows,
     FinishCancelled, FinishWithNext, FinishLast, FinishFaulted,
     FinishFaultedCompletes, StoreResult, Post
<1>4. CASE WaitStep(Worker)
  <2> USE DEF NoWait
  <2>1. ASSUME NEW t \in Tasks, WaitUntil(Worker, t) PROVE WorkerWaitInv'
    BY <1>0, <2>1 DEF WaitUntil, MayWait, WorkerWaitInv
  <2>2. ASSUME NEW ts \in SUBSET Tasks, WaitAll(Worker, ts) PROVE WorkerWaitInv'
    BY <1>0, <2>2 DEF WaitAll, MayWait, WorkerWaitInv
  <2>3. ASSUME NEW t \in Tasks, WaitAllStarts(Worker, t) PROVE WorkerWaitInv'
    BY <1>0, <2>3 DEF WaitAllStarts, WorkerWaitInv, Waits
  <2>4. CASE PollReturnsTrue(Worker)
    BY <1>0, <2>4 DEF PollReturnsTrue, WorkerWaitInv, Waits
  <2>5. CASE PollSleeps(Worker)
    BY <1>0, <2>5 DEF PollSleeps, WorkerWaitInv, Waits, flags
  <2>6. CASE PollTimesOut(Worker)
    BY <1>0, <2>6 DEF PollTimesOut, WorkerWaitInv, Waits
  <2> QED
    BY <1>4, <2>1, <2>2, <2>3, <2>4, <2>5, <2>6 DEF WaitStep, PollStep
<1> QED
  BY <1>1, <1>2, <1>3, <1>4

(* Task.java:192-217. A waitUntil or waitAll inside an action holds the    *)
(* only background thread, so it returns true only at its first look.      *)
THEOREM WaitInsideAction == Spec => []WaitInsideActionTimesOut
<1>1. Init => WorkerWaitInv
  BY DEF Init, WorkerWaitInv, NoWait
<1>2. IInv /\ WorkerWaitInv /\ [Next]_vars => WorkerWaitInv'
  <2>1. ASSUME Worker \notin Waiters PROVE WorkerWaitInv'
    BY <2>1 DEF WorkerWaitInv
  <2> QED
    BY <2>1, WorkerWaitStep
<1>3. WorkerWaitInv => WaitInsideActionTimesOut
  BY DEF WorkerWaitInv, WaitInsideActionTimesOut
<1> QED
  BY <1>1, <1>2, <1>3, Inductive, PTL DEF Spec
=============================================================================
