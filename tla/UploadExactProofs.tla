-------------------------- MODULE UploadExactProofs --------------------------
(* What the web service holds after an upload: theorems about the samples  *)
(* and descriptors that runs of the upload leave, for any points and any   *)
(* contents of the web service, whatever requests fail.                    *)
EXTENDS SampleUploadProofs, FiniteSetTheorems, FunctionTheorems

(* As long as no two runs overlap, only the last run is going on, and      *)
(* where it is says what the web service holds at its point.               *)
Last == Len(run)
Cur == run[Last]

\* What the GET of the last run found is what is there.
Found == /\ Cur.found = SamplesAt(Cur.point)
         /\ Cur.known = UNION {server[s].descs : s \in Cur.found}
One == SamplesAt(Cur.point) = {Cur.sample}
Empty == One /\ server[Cur.sample].descs = {}

\* What holds before a request of step s, and what after it succeeded.
Pending(s) ==
  /\ s = "create" => SamplesAt(Cur.point) = {}
  /\ s = "erase" => One /\ Found
  /\ s = "describe" => Empty
Done(s) ==
  /\ s = "find" => Found
  /\ s \in {"create", "erase"} => Empty

\* The one job is that of step s; or the one message is.
Asking(s) ==
  /\ Len(queue) = 1 /\ Front.task = <<Last, s>> /\ uiQueue = <<>>
  /\ at \in {"idle", "execute"} => Pending(s)
  /\ at \in {"returned", "store", "post"} /\ ~isFaulted[<<Last, s>>] => Done(s)
Answered(s) ==
  /\ queue = <<>> /\ Len(uiQueue) = 1 /\ uiQueue[1].task = <<Last, s>>
  /\ ~isFaulted[<<Last, s>>] => Done(s)
  /\ uiAt = "listener" => firstRead = isFaulted[<<Last, s>>]
Deciding ==
  /\ ~Going /\ next.run = Last
  /\ next.do \in {"create", "erase", "describe"} /\ Pending(next.do)

BeforeChain ==
  /\ progress /\ Last # 0 /\ ChainOf(Last) \notin started
  /\ \/ \E s \in {"find", "create", "erase"} :
          next = Nothing /\ (Asking(s) \/ Answered(s))
     \/ Deciding

\* The actions of the chain of the last run that have returned or failed.
Executed == Len(begun[ChainOf(Last)])
              - (IF at = "execute" /\ Front.task = ChainOf(Last) THEN 1 ELSE 0)
Posted == {<<Last, k>> : k \in 1..Executed}

\* The last run is in its chain, or over.
InChain ==
  /\ next.do \in {"nothing", "persist"}
  /\ \A i \in DOMAIN queue : queue[i].task = ChainOf(Last)
  /\ \A i \in DOMAIN uiQueue : uiQueue[i].task = ChainOf(Last)
  /\ ChainOf(Last) \in started =>
       /\ One
       /\ exceptions[ChainOf(Last)] = {} => server[Cur.sample].descs = Posted

StageInv == ~overlap => BeforeChain \/ InChain

\* Only chains have more than one action, and a failure is not forgotten.
OneAction == \A t \in Uploads : t[2] # "describe" => continuation[t] = <<>>
FaultRecorded ==
  \A t \in Uploads : exceptions[t] # {} =>
    isFaulted[t] \/ (at = "threw" /\ Front.task = t)

\* When the point of the last run is marked, its chain has completed.
MarkedDone ==
  ~overlap /\ Last # 0 /\ flushed[Cur.point] =>
    ChainOf(Last) \in started /\ isCompleted[ChainOf(Last)]
-----------------------------------------------------------------------------
(* Which steps can be taken.                                               *)

LEMMA WorkerHasJob ==
  ASSUME TypedInv, WorkerStep
  PROVE  /\ queue # <<>> /\ 1 \in DOMAIN queue /\ Front = queue[1]
         /\ Front \in Thm!Jobs
<1>1. queue \in Seq(Thm!Jobs) /\ (at # "idle" => queue # <<>>)
  BY DEF TypedInv, Thm!IInv, Thm!TypeOK
<1>2. queue # <<>>
  BY <1>1 DEF WorkerStep, FindReturns, CreateReturns, EraseReturns,
     DescribeReturns, RequestFails, TaskStep, Chain!Begin,
     Chain!ExecuteReturns, Chain!ExecuteThrows, Chain!FinishWithNext,
     Chain!FinishLast, Chain!FinishFaulted, Chain!FinishFaultedCompletes,
     Chain!StoreResult, Chain!Post
<1> QED
  BY <1>1, <1>2, Thm!FrontFacts, ThmAssumption DEF Front

\* The steps of the background thread, with what they require of at.
LEMMA WorkerKinds ==
  ASSUME WorkerStep
  PROVE  \/ Chain!Begin /\ UNCHANGED own
         \/ FindReturns \/ CreateReturns \/ EraseReturns \/ DescribeReturns
         \/ RequestFails
         \/ Chain!FinishWithNext /\ UNCHANGED own
         \/ Chain!FinishLast /\ UNCHANGED own
         \/ Chain!FinishFaulted /\ UNCHANGED own
         \/ Chain!FinishFaultedCompletes /\ UNCHANGED own
         \/ Chain!StoreResult /\ UNCHANGED own
         \/ Chain!Post /\ UNCHANGED own
BY DEF WorkerStep, TaskStep

LEMMA OneActionStep ==
  ASSUME TypedInv, OneAction, [Next]_vars
  PROVE  OneAction'
<1>0. continuation \in [Uploads -> Seq(Thm!Actions)]
  BY DEF TypedInv, Thm!IInv, Thm!TypeOK
<1>1. CASE BuildChain
  <2>1. continuation' = [continuation EXCEPT ![ChainOf(next.run)] =
                           Append(@, given[ChainOf(next.run)] + 1)]
    BY <1>1 DEF BuildChain, Chain!ContinueWith
  <2> QED
    BY <1>0, <2>1 DEF OneAction, ChainOf
<1>2. CASE Chain!FinishWithNext
  <2>1. /\ continuation[Front.task] # <<>>
        /\ continuation' = [continuation EXCEPT ![Front.task] = Tail(@)]
    BY <1>2 DEF Chain!FinishWithNext, Chain!Front, Front
  <2> QED
    BY <1>0, <2>1 DEF OneAction
<1>3. CASE UNCHANGED continuation
  BY <1>3 DEF OneAction
<1>4. BuildChain \/ Chain!FinishWithNext \/ UNCHANGED continuation
  <2>1. (\E r \in Runs : Listener(r)) => UNCHANGED continuation
    BY ListenerIsChainStep DEF Chain!ListenerReadsSecond, Chain!built
  <2> QED
    BY <2>1 DEF Next, UIStep, WorkerStep, ClickPersist, Persist,
       PersistEnds, PostSample, DeleteDescriptors, StartChain, CallBegins,
       FindReturns, CreateReturns, EraseReturns, DescribeReturns,
       RequestFails, TaskStep, Chain!Begin, Chain!ExecuteReturns,
       Chain!ExecuteThrows, Chain!FinishLast, Chain!FinishFaulted,
       Chain!FinishFaultedCompletes, Chain!StoreResult, Chain!Post,
       Chain!Start, Chain!Launch, Chain!ListenerReadsFirst, Chain!built,
       vars, task
<1> QED
  BY <1>1, <1>2, <1>3, <1>4

LEMMA FaultRecordedStep ==
  ASSUME TypedInv, FaultRecorded, [Next]_vars
  PROVE  FaultRecorded'
<1> USE DEF Chain!flags, Chain!stored, Chain!background
<1>0. /\ exceptions \in [Uploads -> SUBSET Thm!Actions]
      /\ isFaulted \in [Uploads -> BOOLEAN]
      /\ at # "idle" => Front.task \in Uploads
  BY FrontJob, TypedFacts DEF TypedInv, Thm!IInv, Thm!TypeOK
<1>1. CASE Chain!ExecuteThrows
  <2>1. /\ at = "execute" /\ at' = "threw" /\ UNCHANGED <<queue, isFaulted>>
        /\ exceptions' = [exceptions EXCEPT ![Front.task] = @ \cup {Front.action}]
    BY <1>1 DEF Chain!ExecuteThrows, Chain!Front, Front
  <2> QED
    BY <1>0, <2>1 DEF FaultRecorded, Front
<1>2. CASE Chain!FinishFaulted
  <2>1. /\ at = "threw" /\ UNCHANGED <<queue, exceptions>>
        /\ isFaulted' = [isFaulted EXCEPT ![Front.task] = TRUE]
    BY <1>2 DEF Chain!FinishFaulted, Chain!Front, Front
  <2> QED
    BY <1>0, <2>1 DEF FaultRecorded
<1>3. CASE UNCHANGED <<exceptions, isFaulted>> /\ at # "threw"
  BY <1>3 DEF FaultRecorded
<1>4. CASE UNCHANGED <<exceptions, isFaulted, at>> /\ (at = "threw" => Front' = Front)
  BY <1>4 DEF FaultRecorded
<1>5. CASE WorkerStep
  <2>1. \/ Chain!ExecuteThrows \/ Chain!FinishFaulted
        \/ UNCHANGED <<exceptions, isFaulted>> /\ at # "threw"
    BY <1>5 DEF WorkerStep, FindReturns, CreateReturns, EraseReturns,
       DescribeReturns, RequestFails, TaskStep, Chain!Begin,
       Chain!ExecuteReturns, Chain!FinishWithNext, Chain!FinishLast,
       Chain!FinishFaultedCompletes, Chain!StoreResult, Chain!Post
  <2> QED
    BY <1>1, <1>2, <1>3, <2>1
<1>6. CASE ~WorkerStep
  <2>1. UNCHANGED <<exceptions, isFaulted, at>>
    <3>1. (\E r \in Runs : Listener(r)) => UNCHANGED <<exceptions, isFaulted, at>>
      BY ListenerIsChainStep DEF Chain!ListenerReadsSecond
    <3> QED
      BY <1>6, <3>1 DEF Next, UIStep, ClickPersist, Persist, PersistEnds,
         PostSample, DeleteDescriptors, BuildChain, StartChain, CallBegins,
         Chain!Start, Chain!ContinueWith, Chain!ListenerReadsFirst, vars, task
  <2>2. at = "threw" => Front' = Front
    <3>1. \/ UNCHANGED queue
          \/ \E t : queue' = Append(queue, Chain!Job(t, 1)) /\ t \in Uploads
      <4>1. (\E r \in Runs : Listener(r)) => UNCHANGED queue
        BY ListenerIsChainStep DEF Chain!ListenerReadsSecond
      <4>2. Persist => <<Len(run) + 1, "find">> \in Uploads
        BY TypedFacts DEF Persist, Uploads, Runs, Steps
      <4>3. PostSample \/ DeleteDescriptors \/ StartChain =>
              /\ <<next.run, "create">> \in Uploads
              /\ <<next.run, "erase">> \in Uploads /\ ChainOf(next.run) \in Uploads
        BY TypedFacts DEF PostSample, DeleteDescriptors, StartChain, TypedInv,
           TasksHaveRuns, Uploads, Steps, ChainOf
      <4> QED
        BY <1>6, <4>1, <4>2, <4>3 DEF Next, UIStep, ClickPersist, Persist,
           PersistEnds, PostSample, DeleteDescriptors, BuildChain, StartChain,
           CallBegins, Chain!Start, Chain!Launch, Chain!ContinueWith,
           Chain!ListenerReadsFirst, vars, task
    <3>2. queue \in Seq(Thm!Jobs) /\ (at = "threw" => queue # <<>>)
      BY DEF TypedInv, Thm!IInv, Thm!TypeOK
    <3>3. \A t \in Uploads : Chain!Job(t, 1) \in Thm!Jobs
      BY SampleUploadAssumption DEF Chain!Job, Thm!Jobs, Thm!Actions
    <3>4. at = "threw" => 1 \in 1..Len(queue)
      BY <3>2, Thm!FrontFacts, ThmAssumption
    <3> QED
      BY <3>1, <3>2, <3>3, <3>4, Thm!AppendFacts, ThmAssumption DEF Front
  <2> QED
    BY <1>4, <2>1, <2>2
<1> QED
  BY <1>5, <1>6
-----------------------------------------------------------------------------
(* A request of the last run: steps while its job or its message is the    *)
(* only one.                                                               *)

\* SamplesAt after a step that changes no point.
LEMMA SamesPoints ==
  ASSUME NEW p, DOMAIN server' = DOMAIN server,
         \A s \in DOMAIN server : server'[s].point = server[s].point
  PROVE  SamplesAt(p)' = SamplesAt(p)
BY DEF SamplesAt

\* What the steps before the last run is asked about leave alone.
LEMMA AnswersFrame ==
  ASSUME NEW s, UNCHANGED <<run, server>>
  PROVE  /\ Pending(s)' <=> Pending(s)
         /\ Done(s)' <=> Done(s)
BY DEF Pending, Done, Found, One, Empty, SamplesAt, Last, Cur

\* The last run stays the last one in every step but Persist.
LEMMA LastStays ==
  ASSUME TypedInv, [Next]_vars, ~Persist
  PROVE  /\ Last' = Last /\ Len(run) \in Nat /\ DOMAIN run = 1..Len(run)
         /\ Last \in DOMAIN run =>
              /\ Last \in DOMAIN run' /\ run[Last] \in RunRecords
              /\ run'[Last].point = run[Last].point
BY RunsEdited, TypedFacts DEF Last

LEMMA FindAnswers ==
  ASSUME TypedInv, FindReturns, FrontRun = Last
  PROVE  Done("find")'
<1> DEFINE there == {s \in DOMAIN server : server[s].point = run[Last].point}
           known == UNION {server[s].descs : s \in there}
<1>1. /\ Last \in DOMAIN run /\ UNCHANGED server /\ at = "execute" /\ at' = "returned"
      /\ run' = [run EXCEPT ![Last].found = there, ![Last].known = known]
  BY FrontJob DEF FindReturns, Chain!ExecuteReturns
<1>2. /\ Last' = Last /\ run[Last] \in RunRecords
      /\ run'[Last].point = run[Last].point
  <2>1. ~Persist /\ [Next]_vars
    BY <1>1 DEF Persist, Chain!Start, Next, WorkerStep
  <2> QED
    BY <1>1, <2>1, LastStays
<1>3. there = SamplesAt(run[Last].point)
  BY DEF SamplesAt
<1> HIDE DEF there, known
<1>4. run'[Last].found = there /\ run'[Last].known = known
  BY <1>1, <1>2 DEF RunRecords
<1>5. SamplesAt(Cur.point)' = there
  BY <1>1, <1>2, <1>3 DEF SamplesAt, Cur
<1>6. known = UNION {server'[s].descs : s \in there}
  BY <1>1 DEF known
<1>7. Cur'.found = there /\ Cur'.known = known
  BY <1>2, <1>4 DEF Cur
<1>8. Found'
  BY <1>5, <1>6, <1>7 DEF Found
<1> QED
  BY <1>8 DEF Done

LEMMA CreateAnswers ==
  ASSUME TypedInv, CreateReturns, FrontRun = Last, SamplesAt(Cur.point) = {}
  PROVE  Empty'
<1>1. /\ Last \in DOMAIN run /\ at = "execute" /\ at' = "returned"
      /\ run' = [run EXCEPT ![Last].sample = Len(server) + 1]
      /\ server' = Append(server, [point |-> run[Last].point, descs |-> {}])
  BY FrontJob DEF CreateReturns, Chain!ExecuteReturns, Created
<1>2. /\ Last' = Last /\ run[Last] \in RunRecords
      /\ run'[Last].point = run[Last].point
  <2>1. ~Persist /\ [Next]_vars
    BY <1>1 DEF Persist, Chain!Start, Next, WorkerStep, CreateReturns
  <2> QED
    BY <1>1, <2>1, LastStays
<1>3. run'[Last].sample = Len(server) + 1
  BY <1>1, <1>2 DEF RunRecords
<1>4. /\ Len(server) \in Nat /\ DOMAIN server = 1..Len(server)
      /\ DOMAIN server' = 1..(Len(server) + 1)
      /\ \A s \in 1..Len(server) : server'[s] = server[s]
      /\ server'[Len(server) + 1] = [point |-> run[Last].point, descs |-> {}]
  <2>1. server \in Seq(Samples) /\ [point |-> run[Last].point, descs |-> {}] \in Samples
    BY <1>2 DEF TypedInv, OwnTyped, RunRecords, Samples
  <2> QED
    BY <1>1, <2>1, Thm!AppendFacts, ThmAssumption
<1>5. \A s \in DOMAIN server : server[s].point # run[Last].point
  BY DEF SamplesAt, Cur
<1>6. SamplesAt(Cur.point)' = {Len(server) + 1}
  <2>1. {s \in DOMAIN server' : server'[s].point = run[Last].point}
          = {Len(server) + 1}
    BY <1>4, <1>5
  <2> QED
    BY <1>2, <2>1 DEF SamplesAt, Cur
<1> QED
  BY <1>2, <1>3, <1>4, <1>6 DEF Empty, One, Cur

\* Editing the descriptors of the one sample at the point of the last run.
LEMMA EditOne ==
  ASSUME TypedInv, One, NEW D,
         server' = [server EXCEPT ![Cur.sample].descs = D], UNCHANGED run
  PROVE  /\ One' /\ server'[Cur'.sample].descs = D
         /\ Cur.sample \in DOMAIN server /\ DOMAIN server' = DOMAIN server
         /\ \A s \in DOMAIN server :
              /\ server'[s].point = server[s].point
              /\ s # Cur.sample => server'[s] = server[s]
<1> DEFINE i == Cur.sample
<1>1. i \in DOMAIN server /\ \A s \in DOMAIN server : server[s] \in Samples
  <2>1. server \in Seq(Samples)
    BY DEF TypedInv, OwnTyped
  <2> QED
    BY <2>1, ElementOfSeq, LenProperties DEF One, SamplesAt
<1>2. Cur' = Cur
  BY DEF Cur, Last
<1> HIDE DEF i
<1>3. /\ DOMAIN server' = DOMAIN server /\ server'[i].descs = D
      /\ \A s \in DOMAIN server :
           /\ server'[s].point = server[s].point
           /\ s # i => server'[s] = server[s]
  BY <1>1 DEF Samples, i
<1>4. SamplesAt(Cur.point)' = SamplesAt(Cur.point)
  BY <1>2, <1>3 DEF SamplesAt
<1> QED
  BY <1>1, <1>2, <1>3, <1>4 DEF One, i

LEMMA EraseAnswers ==
  ASSUME TypedInv, EraseReturns, FrontRun = Last, One, Found
  PROVE  Empty'
<1> DEFINE i == Cur.sample
<1>1. /\ server' = [server EXCEPT ![i].descs = @ \ Cur.known] /\ UNCHANGED run
  BY DEF EraseReturns, Erased, Cur
<1>2. Cur.known = server[i].descs
  BY DEF One, Found
<1>3. server' = [server EXCEPT ![i].descs = server[i].descs \ Cur.known]
  BY <1>1
<1>4. One' /\ server'[Cur'.sample].descs = server[i].descs \ Cur.known
  BY <1>1, <1>3, EditOne
<1> QED
  BY <1>2, <1>4 DEF Empty
-----------------------------------------------------------------------------
\* Nothing but the background thread moves while a request is out.
LEMMA AskingIsWorker ==
  ASSUME TypedInv, uiQueue = <<>>, next = Nothing, progress, Next
  PROVE  WorkerStep
<1>1. uiAt # "listener"
  BY CalledTask
<1>2. ~\E r \in Runs : Listener(r)
  BY <1>1, ListenerIsChainStep DEF Chain!ListenerReadsSecond
<1> QED
  BY <1>2 DEF Next, UIStep, ClickPersist, Persist, PersistEnds, PostSample,
     DeleteDescriptors, BuildChain, StartChain, CallBegins,
     Chain!ListenerReadsFirst, Nothing, Do

LEMMA AskingStep ==
  ASSUME TypedInv, OneAction, progress, Last # 0, ChainOf(Last) \notin started,
         next = Nothing, NEW s \in {"find", "create", "erase"}, Asking(s),
         WorkerStep
  PROVE  BeforeChain'
<1> DEFINE t == <<Last, s>>
<1> USE DEF Chain!flags, Chain!stored, Chain!background, Chain!Front
<1>0. /\ Front = queue[1] /\ Front \in Thm!Jobs /\ queue \in Seq(Thm!Jobs)
      /\ queue # <<>> /\ Len(queue) = 1 /\ Front.task = t /\ uiQueue = <<>>
      /\ t \in Uploads /\ FrontRun = Last /\ Front.task[2] = s
      /\ isFaulted \in [Uploads -> BOOLEAN]
      /\ Last \in Nat /\ Last \in DOMAIN run
  <2>1. Front.task \in Uploads
    BY WorkerHasJob DEF Thm!Jobs
  <2> QED
    BY <2>1, WorkerHasJob, TypedFacts DEF Asking, FrontRun, TypedInv, Thm!IInv,
       Thm!TypeOK, Last
<1>1. /\ Last' = Last /\ progress' /\ next' = Nothing
      /\ ChainOf(Last)' = ChainOf(Last) /\ ChainOf(Last) \notin started'
  <2>1. ~Persist /\ ~PostSample /\ ~DeleteDescriptors /\ ~StartChain
    BY DEF Persist, PostSample, DeleteDescriptors, StartChain, Nothing, Do
  <2>2. Last' = Last
    BY <2>1, LastStays DEF Next
  <2>3. UNCHANGED <<progress, next>>
    BY DEF WorkerStep, FindReturns, CreateReturns, EraseReturns,
       DescribeReturns, RequestFails, TaskStep, own
  <2>4. \A u \in started' : u \in started
    BY <2>1, StartedStep DEF Next
  <2> QED
    BY <2>2, <2>3, <2>4 DEF ChainOf
<1>2. CASE ~Chain!Post
  <2>1. ~Chain!FinishWithNext
    <3>1. continuation[t] = <<>>
      BY <1>0 DEF OneAction
    <3> QED
      BY <1>0, <3>1 DEF Chain!FinishWithNext, Front
  <2>2. UNCHANGED <<queue, uiQueue>>
    BY <1>2, <2>1 DEF WorkerStep, FindReturns, CreateReturns, EraseReturns,
       DescribeReturns, RequestFails, TaskStep, Chain!Begin,
       Chain!ExecuteReturns, Chain!ExecuteThrows, Chain!FinishLast,
       Chain!FinishFaulted, Chain!FinishFaultedCompletes, Chain!StoreResult,
       Chain!ui
  <2> SUFFICES Asking(s)'
    BY <1>1 DEF BeforeChain
  <2>3. Len(queue') = 1 /\ Front'.task = <<Last', s>> /\ uiQueue' = <<>>
    BY <1>0, <1>1, <2>2 DEF Front
  <2>5. CASE Chain!Begin /\ UNCHANGED own
    <3>1. Pending(s)'
      BY <2>5, AnswersFrame DEF Asking, Chain!Begin, own
    <3> QED
      BY <2>3, <2>5, <3>1 DEF Asking, Chain!Begin
  <2>6. CASE FindReturns
    <3>1. s = "find" /\ Done(s)' /\ at' = "returned"
      BY <1>0, <2>6, FindAnswers DEF FindReturns, Asks, Chain!ExecuteReturns
    <3> QED
      BY <2>3, <3>1 DEF Asking
  <2>7. CASE CreateReturns
    <3>1. s = "create" /\ at' = "returned" /\ SamplesAt(Cur.point) = {}
      BY <1>0, <2>7 DEF CreateReturns, Asks, Chain!ExecuteReturns, Asking,
                        Pending
    <3>2. Done(s)'
      BY <1>0, <2>7, <3>1, CreateAnswers DEF Done
    <3> QED
      BY <2>3, <3>1, <3>2 DEF Asking
  <2>8. CASE EraseReturns
    <3>1. s = "erase" /\ at' = "returned" /\ One /\ Found
      BY <1>0, <2>8 DEF EraseReturns, Asks, Chain!ExecuteReturns, Asking,
                        Pending
    <3>2. Done(s)'
      BY <1>0, <2>8, <3>1, EraseAnswers DEF Done
    <3> QED
      BY <2>3, <3>1, <3>2 DEF Asking
  <2>9. CASE DescribeReturns
    BY <1>0, <2>9 DEF DescribeReturns, Asks
  <2>10. CASE RequestFails
    BY <2>3, <2>10 DEF RequestFails, Chain!ExecuteThrows, Asking
  <2>11. CASE (Chain!FinishLast \/ Chain!StoreResult) /\ UNCHANGED own
    <3>1. Done(s)' <=> Done(s)
      BY <2>11, AnswersFrame DEF own
    <3>2. /\ at \in {"returned", "store"} /\ at' \in {"store", "post"}
          /\ UNCHANGED isFaulted
      BY <2>11 DEF Chain!FinishLast, Chain!StoreResult
    <3> QED
      BY <1>1, <2>3, <3>1, <3>2 DEF Asking
  <2>12. CASE Chain!FinishFaulted /\ UNCHANGED own
    BY <2>3, <2>12 DEF Chain!FinishFaulted, Asking
  <2>13. CASE Chain!FinishFaultedCompletes /\ UNCHANGED own
    <3>1. at = "faulted" /\ at' = "store" /\ UNCHANGED isFaulted
      BY <2>13 DEF Chain!FinishFaultedCompletes
    <3>2. isFaulted[t]
      BY <1>0, <3>1 DEF TypedInv, Thm!IInv, Thm!Safety, Thm!OutcomeInv,
                        Thm!Front, Front
    <3> QED
      BY <1>1, <2>3, <3>1, <3>2 DEF Asking
  <2> QED
    BY <1>2, <2>1, <2>5, <2>6, <2>7, <2>8, <2>9, <2>10, <2>11, <2>12, <2>13,
       WorkerKinds
<1>3. CASE Chain!Post
  <2>1. /\ at = "post" /\ uiQueue' = Append(uiQueue, Front)
        /\ queue' = Tail(queue) /\ UNCHANGED <<isFaulted, uiAt>>
    BY <1>3 DEF Chain!Post, Front
  <2>2. Len(queue') = 0 /\ queue' \in Seq(Thm!Jobs)
    BY <1>0, <2>1, Thm!FrontFacts, ThmAssumption
  <2>3. queue' = <<>>
    BY <2>2, EmptySeq
  <2>4. <<>> \in Seq(Thm!Jobs) /\ Len(<<>>) = 0
    OBVIOUS
  <2>5. Len(uiQueue') = 1 /\ uiQueue'[1] = Front
    BY <1>0, <2>1, <2>4, Thm!AppendFacts, ThmAssumption
  <2>6. uiAt' # "listener"
    BY <1>0, <2>1, CalledTask
  <2>7. Done(s)' <=> Done(s)
    <3>1. UNCHANGED own
      BY <1>3, <2>1 DEF Chain!Post, WorkerStep, FindReturns, CreateReturns,
         EraseReturns, DescribeReturns, RequestFails, TaskStep,
         Chain!ExecuteReturns, Chain!ExecuteThrows
    <3> QED
      BY <3>1, AnswersFrame DEF own
  <2>8. Answered(s)'
    BY <1>0, <1>1, <2>1, <2>3, <2>5, <2>6, <2>7 DEF Answered, Asking
  <2> QED
    BY <1>1, <2>8 DEF BeforeChain
<1> QED
  BY <1>2, <1>3

\* Between two runs, or when one has ended: nothing of it is left.
LEMMA RunEnds ==
  ASSUME queue' = <<>>, uiQueue' = <<>>, ChainOf(Last)' \notin started',
         next'.do \in {"nothing", "persist"}
  PROVE  InChain'
BY DEF InChain

LEMMA AnsweredStep ==
  ASSUME TypedInv, progress, Last # 0, ChainOf(Last) \notin started,
         next = Nothing, NEW s \in {"find", "create", "erase"}, Answered(s),
         Next
  PROVE  BeforeChain' \/ InChain'
<1> DEFINE t == <<Last, s>>
<1> USE DEF Chain!flags, Chain!stored, Chain!background
<1>0. /\ ~WorkerStep /\ Last \in Nat /\ Last \in DOMAIN run
      /\ uiQueue \in Seq(Thm!Jobs) /\ Len(uiQueue) = 1 /\ uiQueue # <<>>
      /\ queue = <<>> /\ uiQueue[1].task = t
      /\ run[Last] \in RunRecords
  <2>1. uiQueue \in Seq(Thm!Jobs) /\ Last \in Nat /\ DOMAIN run = 1..Last
        /\ \A r \in DOMAIN run : run[r] \in RunRecords
    BY TypedFacts DEF Last
  <2>2. queue = <<>> /\ Len(uiQueue) = 1 /\ uiQueue[1].task = t
    BY DEF Answered
  <2>3. ~WorkerStep
    BY <2>2, WorkerHasJob
  <2>4. uiQueue # <<>>
    <3>1. Len(uiQueue) # Len(<<>>)
      BY <2>2
    <3> QED
      BY <3>1
  <2>5. Last \in DOMAIN run /\ run[Last] \in RunRecords
    BY <2>1
  <2> QED
    BY <2>1, <2>2, <2>3, <2>4, <2>5
<1>1. CASE CallBegins
  <2>1. /\ UNCHANGED <<queue, uiQueue, isFaulted, started>> /\ uiAt' = "listener"
        /\ firstRead' = isFaulted[t] /\ UNCHANGED own
    BY <1>0, <1>1 DEF CallBegins, Chain!ListenerReadsFirst, Chain!built,
                      Chain!ReadsCompletedFirst
  <2>2. Last' = Last /\ (Done(s)' <=> Done(s))
    BY <2>1, AnswersFrame DEF own, Last
  <2>3. Answered(s)'
    BY <1>0, <2>1, <2>2 DEF Answered
  <2> QED
    BY <2>1, <2>2, <2>3 DEF BeforeChain, own, ChainOf
<1>2. ASSUME NEW r \in Runs, Listener(r)
      PROVE  BeforeChain' \/ InChain'
  <2>1. /\ uiAt = "listener" /\ uiQueue' = Tail(uiQueue)
        /\ UNCHANGED <<queue, isFaulted, started>>
        /\ firstRead = isFaulted[t] /\ uiAt' = "idle"
    BY <1>2, ListenerIsChainStep DEF Chain!ListenerReadsSecond, Chain!built,
                                     Answered
  <2>2. queue' = <<>> /\ uiQueue' = <<>>
    <3>1. Tail(uiQueue) \in Seq(Thm!Jobs) /\ Len(Tail(uiQueue)) = 0
      BY <1>0, Thm!FrontFacts, ThmAssumption
    <3> QED
      BY <1>0, <2>1, <3>1, EmptySeq
  <2>3. Last' = Last /\ ChainOf(Last)' \notin started' /\ ~Going'
    <3>1. ~Persist
      BY DEF Persist, Nothing, Do
    <3>2. Last' = Last
      BY <3>1, LastStays
    <3> QED
      BY <2>1, <2>2, <3>2 DEF ChainOf, Going
  <2>4. \A u \in Steps : \A f : Call(r, u, f) =>
          r = Last /\ u = s /\ (f = FALSE => Done(s))
    BY <1>0, <2>1 DEF Call, Answered
  <2>5. CASE FaultHeard(r) \/ NotParsed(r) \/ FoundMore(r)
    <3>1. next' = Nothing
      BY <2>5 DEF FaultHeard, NotParsed, FoundMore, own
    <3> QED
      BY <2>2, <2>3, <3>1, RunEnds DEF Nothing, Do
  <2>6. CASE FoundNone(r)
    <3>1. r = Last /\ Found /\ run[r].found = {} /\ next' = Do("create", r)
      BY <2>4, <2>6 DEF FoundNone, Done, Steps
    <3>2. UNCHANGED <<run, server, progress>>
      BY <2>6 DEF FoundNone
    <3>3. Pending("create")
      BY <3>1 DEF Pending, Found, Cur
    <3>4. Pending("create")' /\ next'.do = "create" /\ next'.run = Last'
      BY <2>3, <3>1, <3>2, <3>3, AnswersFrame DEF Do
    <3> QED
      BY <2>3, <3>2, <3>4 DEF BeforeChain, Deciding
  <2>7. CASE FoundOne(r)
    <3>1. r = Last /\ Found /\ next' = Do("erase", r) /\ UNCHANGED <<server, progress>>
      BY <2>4, <2>7 DEF FoundOne, Done, Steps
    <3>2. PICK i \in Cur.found : /\ Cur.found = {i}
                                 /\ run' = [run EXCEPT ![Last].sample = i]
      BY <2>7, <3>1 DEF FoundOne, Cur
    <3>3. /\ Cur'.sample = i /\ Cur'.point = Cur.point
          /\ Cur'.found = {i} /\ Cur'.known = Cur.known
      BY <1>0, <2>3, <3>2 DEF Cur, RunRecords
    <3>4. SamplesAt(Cur.point)' = {i}
      BY <3>1, <3>2, <3>3 DEF Found, SamplesAt
    <3>5. One' /\ Found'
      <4>1. One'
        BY <3>3, <3>4 DEF One
      <4>2. UNION {server'[j].descs : j \in Cur'.found}
              = UNION {server[j].descs : j \in Cur.found}
        BY <3>1, <3>2, <3>3
      <4>3. Found'
        BY <3>1, <3>2, <3>3, <3>4, <4>2 DEF Found
      <4> QED
        BY <4>1, <4>3
    <3>6. Pending("erase")' /\ next'.do = "erase" /\ next'.run = Last'
      BY <2>3, <3>1, <3>5 DEF Do, Pending
    <3> QED
      BY <2>3, <3>1, <3>6 DEF BeforeChain, Deciding
  <2>8. CASE SampleCreated(r) \/ DescriptorsDeleted(r)
    <3>1. r = Last /\ Empty /\ next' = Do("describe", r)
      BY <2>4, <2>8 DEF SampleCreated, DescriptorsDeleted, Done, Steps
    <3>2. UNCHANGED <<run, server>> /\ progress'
      BY <2>8 DEF SampleCreated, DescriptorsDeleted
    <3>3. Pending("describe")
      BY <3>1 DEF Pending
    <3>4. Pending("describe")' /\ next'.do = "describe" /\ next'.run = Last'
      BY <2>3, <3>1, <3>2, <3>3, AnswersFrame DEF Do
    <3> QED
      BY <2>3, <3>2, <3>4 DEF BeforeChain, Deciding
  <2>9. ~Described(r) /\ ~DescribeGoesOn(r)
    BY <2>4 DEF Described, DescribeGoesOn, Steps
  <2> QED
    BY <1>2, <2>5, <2>6, <2>7, <2>8, <2>9 DEF Listener
<1> QED
  BY <1>0, <1>1, <1>2 DEF Next, UIStep, ClickPersist, Persist, PersistEnds,
     PostSample, DeleteDescriptors, BuildChain, StartChain, Nothing, Do

\* A task that is started when nothing is going on is the only job.
LEMMA OnlyJob ==
  ASSUME TypedInv, ~Going, NEW t \in Uploads, Chain!Start(t, TRUE)
  PROVE  /\ Len(queue') = 1 /\ queue'[1].task = t /\ DOMAIN queue' = {1}
         /\ uiQueue' = <<>> /\ at = "idle" /\ at' = "idle"
         /\ started' = started \cup {t}
<1>1. /\ queue = <<>> /\ uiQueue = <<>> /\ at = "idle"
  BY DEF Going, TypedInv, Thm!IInv, Thm!TypeOK
<1>2. /\ queue' = Append(queue, Chain!Job(t, 1))
      /\ UNCHANGED <<at, uiQueue>> /\ started' = started \cup {t}
  BY DEF Chain!Start, Chain!Launch, Chain!ui
<1>3. Chain!Job(t, 1) \in Thm!Jobs /\ Chain!Job(t, 1).task = t
  BY SampleUploadAssumption DEF Chain!Job, Thm!Jobs, Thm!Actions
<1>4. <<>> \in Seq(Thm!Jobs) /\ Len(<<>>) = 0
  OBVIOUS
<1>5. /\ Len(queue') = 1 /\ queue'[1] = Chain!Job(t, 1)
      /\ DOMAIN queue' = 1..1
  BY <1>1, <1>2, <1>3, <1>4, Thm!AppendFacts, ThmAssumption
<1> QED
  BY <1>1, <1>2, <1>3, <1>5

\* The listener has decided on the next request, and starts its task.
LEMMA DecidingStep ==
  ASSUME TypedInv, progress, Last # 0, ChainOf(Last) \notin started, Deciding,
         Next
  PROVE  BeforeChain' \/ InChain'
<1> USE DEF Chain!flags, Chain!stored, Chain!background
<1>0. /\ queue = <<>> /\ uiQueue = <<>> /\ next.run = Last
      /\ next.do \in {"create", "erase", "describe"} /\ Last \in Runs
      /\ Last \in Nat
  BY TypedFacts DEF Deciding, Going, TypedInv, TasksHaveRuns, Last
<1>1. ~WorkerStep /\ ~CallBegins /\ ~\E r \in Runs : Listener(r)
  <2>1. ~WorkerStep
    BY <1>0, WorkerHasJob
  <2>2. ~\E r \in Runs : Listener(r)
    BY <1>0, CalledTask, ListenerIsChainStep DEF Chain!ListenerReadsSecond
  <2> QED
    BY <1>0, <2>1, <2>2 DEF CallBegins, Chain!ListenerReadsFirst
<1>2. ASSUME NEW s \in {"create", "erase"}, next.do = s,
             Chain!Start(<<next.run, s>>, TRUE), next' = Nothing,
             UNCHANGED <<run, server, progress>>
      PROVE  BeforeChain'
  <2>1. <<Last, s>> \in Uploads
    BY <1>0 DEF Uploads, Steps
  <2>2. /\ Len(queue') = 1 /\ queue'[1].task = <<Last, s>> /\ uiQueue' = <<>>
        /\ at' = "idle" /\ started' = started \cup {<<Last, s>>}
    BY <1>0, <1>2, <2>1, OnlyJob DEF Deciding
  <2>3. Pending(s)'
    BY <1>2, AnswersFrame DEF Deciding
  <2>4. Last' = Last /\ ChainOf(Last)' \notin started'
    BY <1>2, <2>2 DEF Last, ChainOf
  <2>5. Asking(s)'
    BY <2>2, <2>3, <2>4 DEF Asking, Front
  <2> QED
    BY <1>2, <2>4, <2>5 DEF BeforeChain
<1>3. CASE BuildChain
  <2>1. UNCHANGED <<own, started, queue, uiQueue>>
    BY <1>3 DEF BuildChain, Chain!ContinueWith, Chain!ui
  <2>2. Pending(next.do)' <=> Pending(next.do)
    <3>1. next' = next
      BY <2>1 DEF own
    <3>2. UNCHANGED <<run, server>>
      BY <2>1 DEF own
    <3> QED
      BY <3>1, <3>2 DEF Pending, Found, One, Empty, SamplesAt, Last, Cur
  <2> QED
    BY <2>1, <2>2 DEF BeforeChain, Deciding, Going, own, Last, ChainOf
<1>4. CASE StartChain
  <2> DEFINE c == ChainOf(Last)
  <2>1. c \in Uploads /\ Chain!Start(c, TRUE) /\ next' = Nothing
    BY <1>0, <1>4 DEF StartChain, ChainOf, Uploads, Steps
  <2>2. /\ DOMAIN queue' = {1} /\ queue'[1].task = c /\ uiQueue' = <<>>
        /\ at' = "idle"
    BY <2>1, OnlyJob DEF Deciding
  <2>3. UNCHANGED <<run, server, begun, exceptions>>
    BY <1>4, <2>1 DEF StartChain, Chain!Start
  <2>4. Len(begun[c]) = 0
    BY <2>1 DEF TypedInv, Thm!IInv, Thm!Safety, Thm!ContinuationInv
  <2>5. Last' = Last /\ c' = c
    BY <2>3 DEF Last, ChainOf
  <2>6. Executed' = 0
    BY <2>2, <2>3, <2>4, <2>5 DEF Executed
  <2>7. Posted' = {}
    BY <2>6 DEF Posted
  <2>8. next.do = "describe" /\ Empty
    BY <1>4 DEF StartChain, Deciding, Pending
  <2>9. One' /\ server'[Cur'.sample].descs = {}
    BY <2>3, <2>8 DEF Empty, One, SamplesAt, Cur, Last
  <2> HIDE DEF c
  <2>10. /\ \A i \in DOMAIN queue' : queue'[i].task = c'
         /\ \A i \in DOMAIN uiQueue' : uiQueue'[i].task = c'
    BY <2>2, <2>5
  <2> USE DEF c
  <2> QED
    BY <2>1, <2>7, <2>9, <2>10 DEF InChain, Nothing, Do
<1>5. CASE PostSample
  BY <1>2, <1>5 DEF PostSample
<1>6. CASE DeleteDescriptors
  BY <1>2, <1>6 DEF DeleteDescriptors
<1> QED
  BY <1>0, <1>1, <1>3, <1>4, <1>5, <1>6 DEF Next, UIStep, ClickPersist,
     Persist, PersistEnds, Nothing, Do
-----------------------------------------------------------------------------
(* The chain of the last run.                                              *)

LEMMA InChainFrame ==
  ASSUME InChain, next'.do \in {"nothing", "persist"},
         UNCHANGED <<run, server, started, exceptions>>, Executed' = Executed,
         \A i \in DOMAIN queue' : queue'[i].task = ChainOf(Last),
         \A i \in DOMAIN uiQueue' : uiQueue'[i].task = ChainOf(Last)
  PROVE  InChain'
<1>1. Last' = Last /\ ChainOf(Last)' = ChainOf(Last) /\ Cur' = Cur
  BY DEF Last, ChainOf, Cur
<1>2. (One' <=> One) /\ Posted' = Posted
  BY <1>1 DEF One, SamplesAt, Posted
<1> HIDE DEF InChain
<1>3. /\ \A i \in DOMAIN queue' : queue'[i].task = ChainOf(Last)'
      /\ \A i \in DOMAIN uiQueue' : uiQueue'[i].task = ChainOf(Last)'
  BY <1>1
<1> QED
  BY <1>1, <1>2, <1>3 DEF InChain

LEMMA PersistStep ==
  ASSUME TypedInv, Persist, ~overlap'
  PROVE  BeforeChain'
<1> DEFINE n == Len(run) + 1
<1>1. /\ ~Going /\ Chain!Start(<<n, "find">>, TRUE) /\ progress'
      /\ next' = Nothing
  BY DEF Persist
<1>2. <<n, "find">> \in Uploads
  BY TypedFacts DEF Persist, Uploads, Runs, Steps
<1>3. /\ Len(queue') = 1 /\ queue'[1].task = <<n, "find">> /\ uiQueue' = <<>>
      /\ at' = "idle" /\ started' = started \cup {<<n, "find">>}
  BY <1>1, <1>2, OnlyJob
<1>4. Last' = n /\ n # 0 /\ n \notin DOMAIN run
  BY AppendRun, TypedFacts DEF Last
<1>5. ChainOf(Last)' \notin started'
  <2>1. ChainOf(n) \notin started
    BY <1>4 DEF TypedInv, TasksHaveRuns, ChainOf
  <2> QED
    BY <1>3, <1>4, <2>1 DEF ChainOf
<1>6. Asking("find")'
  BY <1>3, <1>4 DEF Asking, Front, Pending
<1> QED
  BY <1>1, <1>4, <1>5, <1>6 DEF BeforeChain

\* In its chain, every call is one of the chain of the last run.
LEMMA ChainListener ==
  ASSUME TypedInv, InChain, NEW r \in Runs, Listener(r)
  PROVE  /\ FaultHeard(r) \/ Described(r) \/ DescribeGoesOn(r)
         /\ r = Last /\ InChain'
<1>1. Chain!ListenerReadsSecond /\ uiAt = "listener"
  BY ListenerIsChainStep DEF Chain!ListenerReadsSecond
<1>2. /\ uiQueue # <<>> /\ uiQueue \in Seq(Thm!Jobs)
      /\ uiQueue[1].task = ChainOf(Last)
  <2>1. uiQueue # <<>> /\ uiQueue \in Seq(Thm!Jobs)
    BY <1>1, CalledTask, TypedFacts
  <2>2. 1 \in DOMAIN uiQueue
    BY <2>1, Thm!FrontFacts, ThmAssumption
  <2> QED
    BY <2>1, <2>2 DEF InChain
<1>3. \A s \in Steps : \A f : Call(r, s, f) => r = Last /\ s = "describe"
  BY <1>2 DEF Call, ChainOf
<1>4. /\ FaultHeard(r) \/ Described(r) \/ DescribeGoesOn(r)
      /\ r = Last
  BY <1>3 DEF Listener, FaultHeard, NotParsed, FoundNone, FoundOne, FoundMore,
     SampleCreated, DescriptorsDeleted, Described, DescribeGoesOn, Steps
<1>5. /\ uiQueue' = Tail(uiQueue)
      /\ UNCHANGED <<queue, at, begun, started, exceptions>>
  BY <1>1 DEF Chain!ListenerReadsSecond, Chain!built, Chain!stored,
              Chain!background
<1>6. UNCHANGED <<run, server>> /\ next'.do \in {"nothing", "persist"}
  <2>1. /\ UNCHANGED <<run, server>>
        /\ next' = next \/ next' = Do("persist", 0)
    BY <1>4 DEF FaultHeard, Described, DescribeGoesOn
  <2>2. next.do \in {"nothing", "persist"}
    BY DEF InChain
  <2> QED
    BY <2>1, <2>2 DEF Do
<1>7. \A i \in DOMAIN uiQueue' : uiQueue'[i].task = ChainOf(Last)
  <2>1. /\ DOMAIN uiQueue = 1..Len(uiQueue) /\ Len(uiQueue) \in Nat
        /\ DOMAIN uiQueue' = 1..(Len(uiQueue) - 1)
        /\ \A i \in 1..(Len(uiQueue) - 1) : uiQueue'[i] = uiQueue[i + 1]
    BY <1>2, <1>5, Thm!FrontFacts, ThmAssumption
  <2>2. \A i \in 1..(Len(uiQueue) - 1) : i + 1 \in DOMAIN uiQueue
    BY <2>1
  <2> QED
    BY <2>1, <2>2 DEF InChain
<1>8. Executed' = Executed
  BY <1>5, <1>6 DEF Executed, Last, Front, ChainOf
<1>9. \A i \in DOMAIN queue' : queue'[i].task = ChainOf(Last)
  BY <1>5 DEF InChain
<1> QED
  BY <1>4, <1>5, <1>6, <1>7, <1>8, <1>9, InChainFrame

\* What a request of the chain makes of the one sample.
LEMMA ChainDescribes ==
  ASSUME TypedInv, InChain, at = "execute", Front.task = ChainOf(Last),
         server' = Extended, UNCHANGED <<run, begun>>, at' # "execute"
  PROVE  /\ One'
         /\ exceptions[ChainOf(Last)] = {} =>
              server'[Cur'.sample].descs = Posted'
<1> DEFINE c == ChainOf(Last)
           n == Len(begun[c])
           D == server[Cur.sample].descs \cup {<<Last, n>>}
<1>1. /\ c \in started /\ c \in Uploads /\ FrontRun = Last
      /\ Front.action = n /\ n \in 1..MaxDevices
      /\ MaxDevices \in Nat
  <2>1. /\ Front \in Thm!Jobs /\ Front.task \in started
        /\ Front.action \in 1..MaxDevices
    BY FrontJob
  <2>2. Front.action = Len(begun[Front.task])
    BY DEF TypedInv, Thm!IInv, Thm!Safety, Thm!QueueInv, Thm!Front, Front
  <2> QED
    BY <2>1, <2>2, TypedFacts DEF FrontRun, ChainOf
<1>2. One /\ (exceptions[c] = {} => server[Cur.sample].descs = Posted)
  BY <1>1 DEF InChain
<1>3. server' = [server EXCEPT ![Cur.sample].descs = D]
  BY <1>1 DEF Extended, Cur
<1>4. One' /\ server'[Cur'.sample].descs = D
  BY <1>2, <1>3, EditOne
<1>5. Executed = n - 1 /\ Executed' = n /\ Last' = Last
  BY <1>1 DEF Executed, Last, ChainOf
<1> HIDE DEF n
<1>6. Posted' = Posted \cup {<<Last, n>>}
  <2>1. 1..n = (1..(n - 1)) \cup {n}
    BY <1>1
  <2>2. Posted' = {<<Last, k>> : k \in 1..n}
    BY <1>5 DEF Posted
  <2>3. Posted = {<<Last, k>> : k \in 1..(n - 1)}
    BY <1>5 DEF Posted
  <2> HIDE DEF Posted
  <2> QED
    BY <2>1, <2>2, <2>3
<1> QED
  BY <1>2, <1>4, <1>6

\* A background step in the chain of the last run.
LEMMA ChainWorker ==
  ASSUME TypedInv, InChain, WorkerStep
  PROVE  InChain'
<1> DEFINE c == ChainOf(Last)
<1> USE DEF Chain!flags, Chain!stored, Chain!background, Chain!built,
            Chain!Front
<1>0. /\ queue \in Seq(Thm!Jobs) /\ queue # <<>> /\ Front \in Thm!Jobs
      /\ uiQueue \in Seq(Thm!Jobs)
      /\ Front = queue[1] /\ Front.task = c /\ Front.task[2] = "describe"
      /\ c \in started /\ c \in Uploads
      /\ begun \in [Uploads -> Seq(Thm!Actions)]
      /\ exceptions \in [Uploads -> SUBSET Thm!Actions]
  <2>1. 1 \in DOMAIN queue /\ Front = queue[1] /\ Front \in Thm!Jobs
        /\ queue # <<>>
    BY WorkerHasJob
  <2>2. Front.task = c
    BY <2>1 DEF InChain
  <2>3. queue[1].task \in started
    BY <2>1 DEF TypedInv, Thm!IInv, Thm!Safety, Thm!QueueInv
  <2> QED
    BY <2>1, <2>2, <2>3, TypedFacts DEF ChainOf, TypedInv, Thm!IInv,
       Thm!TypeOK
<1>1. /\ UNCHANGED <<run, started, next>> /\ next'.do \in {"nothing", "persist"}
      /\ Last' = Last /\ c' = c /\ Cur' = Cur
  <2>1. UNCHANGED <<run, started, next>>
    BY <1>0, WorkerKinds DEF FindReturns, CreateReturns, Asks, EraseReturns,
       DescribeReturns, RequestFails, own, Chain!Begin, Chain!ExecuteReturns,
       Chain!ExecuteThrows, Chain!FinishWithNext, Chain!FinishLast,
       Chain!FinishFaulted, Chain!FinishFaultedCompletes, Chain!StoreResult,
       Chain!Post
  <2> QED
    BY <2>1 DEF InChain, Last, ChainOf, Cur
<1>2. CASE Chain!Begin /\ UNCHANGED own
  <2>1. /\ at = "idle" /\ at' = "execute"
        /\ begun' = [begun EXCEPT ![c] = Append(@, Front.action)]
        /\ UNCHANGED <<queue, uiQueue, exceptions, server>>
    BY <1>0, <1>2 DEF Chain!Begin, Chain!ui, own
  <2>2. begun'[c] = Append(begun[c], Front.action) /\ begun[c] \in Seq(Thm!Actions)
        /\ Front.action \in Thm!Actions
    BY <1>0, <2>1 DEF Thm!Jobs
  <2>3. Len(begun'[c]) = Len(begun[c]) + 1 /\ Len(begun[c]) \in Nat
    BY <2>2, Thm!AppendFacts, ThmAssumption
  <2>4. Front' = Front /\ Front'.task = c'
    BY <1>0, <1>1, <2>1 DEF Front
  <2>5. Executed = Len(begun[c]) - 0 /\ Executed' = Len(begun'[c]) - 1
    BY <1>0, <1>1, <2>1, <2>4 DEF Executed
  <2>6. Executed' = Executed
    BY <2>3, <2>5
  <2> QED
    BY <1>1, <2>1, <2>6, InChainFrame DEF InChain
<1>3. CASE FindReturns \/ CreateReturns \/ EraseReturns
  BY <1>0, <1>3 DEF FindReturns, CreateReturns, EraseReturns, Asks
<1>4. CASE DescribeReturns \/ RequestFails
  <2>1. /\ at = "execute" /\ at' # "execute"
        /\ UNCHANGED <<queue, uiQueue, begun>>
        /\ server' = Extended \/ server' = server
        /\ exceptions'[c] = {} => server' = Extended /\ exceptions[c] = {}
    <3>1. CASE DescribeReturns
      BY <3>1 DEF DescribeReturns, Chain!ExecuteReturns, Chain!ui
    <3>2. CASE RequestFails
      <4>1. exceptions'[c] # {}
        BY <1>0, <3>2 DEF RequestFails, Chain!ExecuteThrows, Front
      <4> QED
        BY <1>0, <3>2, <4>1 DEF RequestFails, Chain!ExecuteThrows, Asks,
                                Chain!ui
    <3> QED
      BY <1>4, <3>1, <3>2
  <2>2. /\ One' 
        /\ exceptions'[c] = {} => server'[Cur'.sample].descs = Posted'
    <3>1. CASE server' = Extended
      BY <1>0, <1>1, <2>1, <3>1, ChainDescribes
    <3>2. CASE server' = server
      <4>1. One'
        BY <1>0, <1>1, <3>2 DEF InChain, One, SamplesAt
      <4> QED
        BY <1>0, <1>1, <2>1, <3>1, <4>1, ChainDescribes
    <3> QED
      BY <2>1, <3>1, <3>2
  <2>3. /\ \A i \in DOMAIN queue' : queue'[i].task = c'
        /\ \A i \in DOMAIN uiQueue' : uiQueue'[i].task = c'
    BY <1>1, <2>1 DEF InChain
  <2> QED
    BY <1>1, <2>2, <2>3 DEF InChain
<1>5. CASE Chain!FinishWithNext /\ UNCHANGED own
  <2>1. /\ at = "returned" /\ at' = "store"
        /\ queue' = Append(queue, Chain!Job(c, continuation[c][1]))
        /\ continuation[c] # <<>>
        /\ UNCHANGED <<uiQueue, exceptions, server, begun>>
    BY <1>0, <1>5 DEF Chain!FinishWithNext, Chain!ui, own
  <2>2. /\ Chain!Job(c, continuation[c][1]) \in Thm!Jobs
        /\ Chain!Job(c, continuation[c][1]).task = c
    <3>1. continuation[c] \in Seq(Thm!Actions)
      BY <1>0 DEF TypedInv, Thm!IInv, Thm!TypeOK
    <3>2. continuation[c][1] \in Thm!Actions
      BY <2>1, <3>1, Thm!FrontFacts, ThmAssumption
    <3> QED
      BY <1>0, <3>2 DEF Chain!Job, Thm!Jobs
  <2>3. \A i \in DOMAIN queue' : queue'[i].task = c
    <3>1. /\ DOMAIN queue = 1..Len(queue) /\ Len(queue) \in Nat
          /\ DOMAIN queue' = 1..(Len(queue) + 1)
          /\ \A i \in 1..Len(queue) : queue'[i] = queue[i]
          /\ queue'[Len(queue) + 1].task = c
      BY <1>0, <2>1, <2>2, Thm!AppendFacts, ThmAssumption
    <3> QED
      BY <3>1 DEF InChain
  <2>4. Executed' = Executed
    BY <1>1, <2>1 DEF Executed
  <2> QED
    BY <1>1, <2>1, <2>3, <2>4, InChainFrame DEF InChain
<1>6. CASE /\ \/ Chain!FinishLast \/ Chain!FinishFaulted
              \/ Chain!FinishFaultedCompletes \/ Chain!StoreResult
           /\ UNCHANGED own
  <2>1. /\ at # "execute" /\ at' # "execute"
        /\ UNCHANGED <<queue, uiQueue, exceptions, server, begun>>
    BY <1>6 DEF Chain!FinishLast, Chain!FinishFaulted, Chain!ui, own,
       Chain!FinishFaultedCompletes, Chain!StoreResult
  <2>2. Executed' = Executed
    BY <1>1, <2>1 DEF Executed
  <2> QED
    BY <1>1, <2>1, <2>2, InChainFrame DEF InChain
<1>7. CASE Chain!Post /\ UNCHANGED own
  <2>1. /\ at = "post" /\ at' = "idle" /\ uiQueue' = Append(uiQueue, Front)
        /\ queue' = Tail(queue) /\ UNCHANGED <<exceptions, server, begun>>
    BY <1>7 DEF Chain!Post, Front, own
  <2>2. Executed' = Executed
    BY <1>1, <2>1 DEF Executed
  <2>3. \A i \in DOMAIN queue' : queue'[i].task = c
    <3>1. /\ DOMAIN queue = 1..Len(queue) /\ Len(queue) \in Nat
          /\ DOMAIN queue' = 1..(Len(queue) - 1)
          /\ \A i \in 1..(Len(queue) - 1) : queue'[i] = queue[i + 1]
      BY <1>0, <2>1, Thm!FrontFacts, ThmAssumption
    <3>2. \A i \in 1..(Len(queue) - 1) : i + 1 \in DOMAIN queue
      BY <3>1
    <3> QED
      BY <3>1, <3>2 DEF InChain
  <2>4. \A i \in DOMAIN uiQueue' : uiQueue'[i].task = c
    <3>1. /\ DOMAIN uiQueue = 1..Len(uiQueue) /\ Len(uiQueue) \in Nat
          /\ DOMAIN uiQueue' = 1..(Len(uiQueue) + 1)
          /\ \A i \in 1..Len(uiQueue) : uiQueue'[i] = uiQueue[i]
          /\ uiQueue'[Len(uiQueue) + 1] = Front
      BY <1>0, <2>1, Thm!AppendFacts, ThmAssumption
    <3> QED
      BY <1>0, <3>1 DEF InChain
  <2> QED
    BY <1>1, <2>1, <2>2, <2>3, <2>4, InChainFrame
<1> QED
  BY <1>2, <1>3, <1>4, <1>5, <1>6, <1>7, WorkerKinds

LEMMA InChainStep ==
  ASSUME TypedInv, InChain, Next, ~overlap'
  PROVE  BeforeChain' \/ InChain'
<1>1. CASE ClickPersist \/ PersistEnds \/ CallBegins
  <2>1. /\ UNCHANGED <<run, server, started, exceptions, queue, uiQueue, begun, at>>
        /\ next' \in {next, Nothing, Do("persist", 0)}
    BY <1>1 DEF ClickPersist, PersistEnds, CallBegins, own, task,
       Chain!ListenerReadsFirst, Chain!built, Chain!stored, Chain!background
  <2>2. Executed' = Executed
    BY <2>1 DEF Executed, Last, ChainOf, Front
  <2>3. next'.do \in {"nothing", "persist"}
    BY <2>1 DEF InChain, Nothing, Do
  <2> QED
    BY <2>1, <2>2, <2>3, InChainFrame DEF InChain
<1>2. ~PostSample /\ ~DeleteDescriptors /\ ~BuildChain /\ ~StartChain
  BY DEF InChain, PostSample, DeleteDescriptors, BuildChain, StartChain
<1> QED
  BY <1>1, <1>2, PersistStep, ChainListener, ChainWorker DEF Next, UIStep

\* Where the last run is, after any step.
LEMMA StageStep ==
  ASSUME TypedInv, OneAction, StageInv, [Next]_vars
  PROVE  StageInv'
<1> SUFFICES ASSUME ~overlap' PROVE BeforeChain' \/ InChain'
  BY DEF StageInv
<1>1. ~overlap
  BY DEF Next, UIStep, WorkerStep, ClickPersist, Persist, PersistEnds,
     PostSample, DeleteDescriptors, BuildChain, StartChain, CallBegins,
     Listener, FaultHeard, NotParsed, FoundNone, FoundOne, FoundMore,
     SampleCreated, DescriptorsDeleted, Described, DescribeGoesOn,
     FindReturns, CreateReturns, EraseReturns, DescribeReturns,
     RequestFails, TaskStep, own, vars
<1>2. CASE UNCHANGED vars
  <2>1. UNCHANGED task /\ UNCHANGED own
    BY <1>2 DEF vars
  <2>2. /\ UNCHANGED <<started, isFaulted, exceptions, queue, at, uiQueue, uiAt,
                       firstRead, begun, progress, next, run, server>>
        /\ Last' = Last /\ Cur' = Cur /\ Front' = Front
        /\ ChainOf(Last)' = ChainOf(Last)
    BY <2>1 DEF task, own, Last, Cur, Front, ChainOf
  <2>3. /\ \A s : (Pending(s)' <=> Pending(s)) /\ (Done(s)' <=> Done(s))
        /\ Pending(next.do)' <=> Pending(next.do)
    BY <2>2 DEF Pending, Done, Found, One, Empty, SamplesAt
  <2>4. \A s : (Asking(s)' <=> Asking(s)) /\ (Answered(s)' <=> Answered(s))
    BY <2>2, <2>3 DEF Asking, Answered
  <2>5. Deciding' <=> Deciding
    BY <2>2, <2>3 DEF Deciding, Going
  <2>6. BeforeChain' <=> BeforeChain
    BY <2>2, <2>4, <2>5 DEF BeforeChain
  <2>7. InChain' <=> InChain
    BY <2>2 DEF InChain, One, SamplesAt, Posted, Executed
  <2> QED
    BY <1>1, <2>6, <2>7 DEF StageInv
<1>3. CASE BeforeChain /\ Next
  <2>1. CASE Deciding
    BY <1>3, <2>1, DecidingStep DEF BeforeChain
  <2>2. ASSUME NEW s \in {"find", "create", "erase"}, next = Nothing, Asking(s)
        PROVE  BeforeChain'
    BY <1>3, <2>2, AskingIsWorker, AskingStep DEF BeforeChain, Asking
  <2>3. ASSUME NEW s \in {"find", "create", "erase"}, next = Nothing, Answered(s)
        PROVE  BeforeChain' \/ InChain'
    BY <1>3, <2>3, AnsweredStep DEF BeforeChain
  <2> QED
    BY <1>3, <2>1, <2>2, <2>3 DEF BeforeChain
<1> QED
  BY <1>1, <1>2, <1>3, InChainStep DEF StageInv

\* A point is marked only by a call for the chain of the last run.
LEMMA MarkedByLast ==
  ASSUME TypedInv, StageInv, ~overlap, NEW r \in DOMAIN run, Described(r)
  PROVE  r = Last /\ InChain /\ ChainOf(Last) \in started
<1>1. /\ uiAt = "listener" /\ uiQueue[1].task = ChainOf(r)
      /\ uiQueue # <<>> /\ ChainOf(r) \in started /\ r \in Runs
  BY CalledTask, TypedFacts DEF Described, Call, Chain!ListenerReadsSecond,
                                ChainOf
<1>2. ~BeforeChain
  BY <1>1 DEF BeforeChain, Asking, Answered, Deciding, Going, ChainOf
<1>3. InChain
  BY <1>2 DEF StageInv
<1>4. r = Last
  BY <1>1, <1>3, ChainListener DEF Listener
<1> QED
  BY <1>1, <1>3, <1>4

LEMMA MarkedDoneStep ==
  ASSUME TypedInv, StageInv, MarkedDone, [Next]_vars
  PROVE  MarkedDone'
<1> SUFFICES ASSUME ~overlap', Last' # 0, flushed'[Cur'.point]
             PROVE  ChainOf(Last)' \in started' /\ isCompleted'[ChainOf(Last)']
  BY DEF MarkedDone
<1>0. /\ Thm!Final /\ started \subseteq started' /\ started \subseteq Uploads
      /\ flushed \in [Points -> BOOLEAN] /\ DOMAIN run = 1..Len(run)
      /\ Len(run) \in Nat
  <2>1. [Thm!Next]_(Thm!vars) /\ Thm!IInv
    BY CallerStep DEF TypedInv
  <2> QED
    BY <2>1, ThmAssumption, Thm!OutcomeStep, Thm!StartedGrows, TypedFacts
       DEF TypedInv, OwnTyped
<1>1. ~Persist
  <2> SUFFICES ASSUME Persist PROVE FALSE
    OBVIOUS
  <2>1. Last' = Len(run) + 1 /\ UNCHANGED flushed
    BY AppendRun DEF Last, Persist
  <2>2. Cur' = run'[Len(run) + 1]
    BY <2>1 DEF Cur
  <2>3. ~flushed[Cur'.point]
    BY <2>2, AppendRun DEF FirstUnflushed, Unflushed
  <2> QED
    BY <2>1, <2>3
<1>2. /\ Last' = Last /\ Last \in DOMAIN run /\ Cur'.point = Cur.point
      /\ Cur.point \in Points
  <2>1. Last' = Last /\ Last \in DOMAIN run
    BY <1>0, <1>1, LastStays DEF Last
  <2> QED
    BY <2>1, <1>1, LastStays DEF Cur, RunRecords
<1>3. ~overlap
  BY <1>1 DEF Next, UIStep, WorkerStep, ClickPersist, PersistEnds,
     PostSample, DeleteDescriptors, BuildChain, StartChain, CallBegins,
     Listener, FaultHeard, NotParsed, FoundNone, FoundOne, FoundMore,
     SampleCreated, DescriptorsDeleted, Described, DescribeGoesOn,
     FindReturns, CreateReturns, EraseReturns, DescribeReturns,
     RequestFails, TaskStep, own, vars
<1>4. ChainOf(Last) \in started /\ isCompleted[ChainOf(Last)]
  <2>1. CASE flushed[Cur.point]
    BY <1>0, <1>2, <1>3, <2>1 DEF MarkedDone
  <2>2. CASE ~flushed[Cur.point]
    <3>1. PICK r \in DOMAIN run : Described(r)
      BY <1>2, <2>2, FlushedStep
    <3> QED
      BY <1>3, <3>1, MarkedByLast DEF Described
  <2> QED
    BY <2>1, <2>2
<1> QED
  BY <1>0, <1>2, <1>4 DEF Thm!Final, ChainOf
-----------------------------------------------------------------------------
(* What a step changes on the web service.                                 *)

\* A sample is created at the point of the last run, which has none, or
\* the descriptors of its one sample change, before or in its chain.
CreatesAt(p) ==
  /\ Last # 0 /\ ChainOf(Last) \notin started
  /\ p = Cur.point /\ SamplesAt(p) = {}
  /\ server' = Append(server, [point |-> p, descs |-> {}])
EditsAt(p) ==
  /\ Last # 0 /\ p = Cur.point /\ One /\ UNCHANGED run
  /\ \E D : server' = [server EXCEPT ![Cur.sample].descs = D]
  /\ \/ ChainOf(Last) \notin started
     \/ at = "execute" /\ Front.task = ChainOf(Last)

LEMMA ServerEdits ==
  ASSUME TypedInv, StageInv, ~overlap, [Next]_vars
  PROVE  UNCHANGED server \/ CreatesAt(Cur.point) \/ EditsAt(Cur.point)
<1> SUFFICES ASSUME server' # server
             PROVE  CreatesAt(Cur.point) \/ EditsAt(Cur.point)
  OBVIOUS
<1>1. WorkerStep
  BY DEF Next, UIStep, ClickPersist, Persist, PersistEnds, PostSample,
     DeleteDescriptors, BuildChain, StartChain, CallBegins, Listener,
     FaultHeard, NotParsed, FoundNone, FoundOne, FoundMore, SampleCreated,
     DescriptorsDeleted, Described, DescribeGoesOn, vars, own
<1>2. /\ at = "execute"
      /\ \/ Asks("create") /\ server' = Created
         \/ /\ Asks("erase") /\ UNCHANGED run
            /\ \E ids : server' = Erased(ids)
         \/ Asks("describe") /\ server' = Extended /\ UNCHANGED run
  BY <1>1 DEF WorkerStep, FindReturns, CreateReturns, EraseReturns,
     DescribeReturns, RequestFails, TaskStep, own, Chain!ExecuteReturns,
     Chain!ExecuteThrows
<1>3. /\ 1 \in DOMAIN queue /\ Front = queue[1] /\ queue # <<>>
      /\ Front.task \in started /\ FrontRun \in DOMAIN run
      /\ DOMAIN run = 1..Last /\ Last \in Nat
  BY <1>1, <1>2, WorkerHasJob, FrontJob, TypedFacts DEF Last
<1>4. Last # 0
  BY <1>3
<1>5. CASE BeforeChain
  <2>1. PICK s \in {"find", "create", "erase"} : Asking(s)
    BY <1>3, <1>5 DEF BeforeChain, Answered, Deciding, Going
  <2>2. FrontRun = Last /\ Front.task[2] = s /\ Pending(s)
    BY <1>2, <2>1 DEF Asking, FrontRun
  <2>3. CASE s = "create"
    BY <1>2, <1>4, <1>5, <2>2, <2>3 DEF Asks, Created, Pending, CreatesAt, Cur,
                                        BeforeChain
  <2>4. CASE s = "erase"
    <3>1. UNCHANGED run /\ \E ids : server' = Erased(ids)
      BY <1>2, <2>2, <2>4 DEF Asks
    <3>2. \E D : server' = [server EXCEPT ![Cur.sample].descs = D]
      BY <2>2, <3>1 DEF Erased, Cur
    <3> QED
      BY <1>4, <1>5, <2>2, <2>4, <3>1, <3>2 DEF EditsAt, Pending, BeforeChain
  <2> QED
    BY <1>2, <2>2, <2>3, <2>4 DEF Asks
<1>6. CASE InChain
  <2>1. Front.task = ChainOf(Last)
    BY <1>3, <1>6 DEF InChain
  <2>2. One /\ FrontRun = Last
    BY <1>3, <1>6, <2>1 DEF InChain, FrontRun, ChainOf
  <2>3. server' = Extended /\ UNCHANGED run
    BY <1>2, <2>1 DEF Asks, ChainOf
  <2>4. \E D : server' = [server EXCEPT ![Cur.sample].descs = D]
    BY <2>2, <2>3 DEF Extended, Cur
  <2> QED
    BY <1>2, <1>4, <2>1, <2>2, <2>3, <2>4 DEF EditsAt
<1> QED
  BY <1>5, <1>6 DEF StageInv

\* So the samples of the other points are left as they are.
LEMMA SamplesStay ==
  ASSUME TypedInv, NEW p \in Points,
         UNCHANGED server \/ CreatesAt(Cur.point) \/ EditsAt(Cur.point)
  PROVE  \/ /\ SamplesAt(p)' = SamplesAt(p)
            /\ \A s \in SamplesAt(p) : server'[s] = server[s]
         \/ p = Cur.point /\ CreatesAt(p)
         \/ p = Cur.point /\ EditsAt(p) /\ SamplesAt(p)' = SamplesAt(p)
<1>0. server \in Seq(Samples) /\ \A s \in DOMAIN server : server[s] \in Samples
  <2>1. server \in Seq(Samples)
    BY DEF TypedInv, OwnTyped
  <2> QED
    BY <2>1, ElementOfSeq, LenProperties
<1>1. CASE UNCHANGED server
  BY <1>1 DEF SamplesAt
<1>2. CASE CreatesAt(Cur.point)
  <2> DEFINE e == [point |-> Cur.point, descs |-> {}]
  <2>1. e \in Samples
    <3>1. Last # 0
      BY <1>2 DEF CreatesAt
    <3>2. Last \in DOMAIN run /\ run[Last] \in RunRecords
      BY <3>1, TypedFacts DEF Last
    <3> QED
      BY <3>2 DEF Cur, RunRecords, Samples
  <2>2. /\ Len(server) \in Nat /\ DOMAIN server = 1..Len(server)
        /\ DOMAIN server' = 1..(Len(server) + 1)
        /\ \A s \in 1..Len(server) : server'[s] = server[s]
        /\ server'[Len(server) + 1] = e
    BY <1>0, <1>2, <2>1, Thm!AppendFacts, ThmAssumption DEF CreatesAt
  <2>3. CASE p # Cur.point
    <3>1. {s \in DOMAIN server' : server'[s].point = p}
            = {s \in DOMAIN server : server[s].point = p}
      <4>1. \A s \in DOMAIN server' :
              s \in DOMAIN server \/ server'[s] = e
        BY <2>2
      <4>2. \A s \in DOMAIN server' :
              server'[s].point = p =>
                s \in DOMAIN server /\ server[s].point = p
        BY <2>2, <2>3, <4>1
      <4>3. \A s \in DOMAIN server :
              s \in DOMAIN server' /\ server'[s] = server[s]
        BY <2>2
      <4> QED
        BY <4>2, <4>3
    <3> QED
      BY <2>2, <3>1 DEF SamplesAt
  <2> QED
    BY <1>2, <2>3
<1>3. CASE EditsAt(Cur.point)
  <2>1. PICK D : server' = [server EXCEPT ![Cur.sample].descs = D]
    BY <1>3 DEF EditsAt
  <2>2. /\ DOMAIN server' = DOMAIN server
        /\ \A s \in DOMAIN server :
             /\ server'[s].point = server[s].point
             /\ s # Cur.sample => server'[s] = server[s]
    BY <1>3, <2>1, EditOne DEF EditsAt
  <2>3. SamplesAt(p)' = SamplesAt(p)
    BY <2>2, SamesPoints
  <2>4. CASE p # Cur.point
    <3>1. Cur.sample \notin SamplesAt(p)
      BY <1>3, <2>4 DEF EditsAt, One, SamplesAt
    <3> QED
      BY <2>2, <2>3, <3>1 DEF SamplesAt
  <2> QED
    BY <1>3, <2>3, <2>4
<1> QED
  BY <1>1, <1>2, <1>3
-----------------------------------------------------------------------------
(* The theorems.                                                           *)

ExactInv == OneAction /\ FaultRecorded /\ StageInv /\ MarkedDone

LEMMA ExactInvariant == Spec => []ExactInv
<1>1. Init => ExactInv
  <2> SUFFICES ASSUME Init PROVE ExactInv
    OBVIOUS
  <2>1. OneAction /\ FaultRecorded
    BY DEF Init, Chain!Init, OneAction, FaultRecorded
  <2>2. StageInv
    BY DEF Init, Chain!Init, StageInv, InChain, Nothing, Do
  <2>3. Last = 0
    BY DEF Init, Last
  <2> QED
    BY <2>1, <2>2, <2>3 DEF ExactInv, MarkedDone
<1>2. TypedInv /\ ExactInv /\ [Next]_vars => ExactInv'
  BY OneActionStep, FaultRecordedStep, StageStep, MarkedDoneStep DEF ExactInv
<1> QED
  BY <1>1, <1>2, TypedInvariant, PTL DEF Spec

(* MainActivity.java:617-712. However many runs follow each other and      *)
(* whatever requests fail after they took effect, a run creates a sample   *)
(* only for a point that has none, unless runs overlapped.                 *)
THEOREM SamplesAreNotDoubled == Spec => NoDuplicateSample
<1>1. ASSUME TypedInv, ExactInv, [Next]_vars, NEW p \in Points, ~overlap,
             SamplesAt(p)' # SamplesAt(p)
      PROVE  SamplesAt(p) = {}
  BY <1>1, ServerEdits, SamplesStay DEF ExactInv, CreatesAt
<1>2. TypedInv /\ ExactInv /\ [Next]_vars =>
        [\A p \in Points :
           ~overlap /\ SamplesAt(p)' # SamplesAt(p) => SamplesAt(p) = {}]_vars
  BY <1>1
<1> QED
  BY <1>2, TypedInvariant, ExactInvariant, PTL DEF Spec, NoDuplicateSample

LEMMA CountPairs ==
  ASSUME NEW n \in Nat, NEW r
  PROVE  Cardinality({<<r, k>> : k \in 1..n}) = n
<1> DEFINE T == {<<r, k>> : k \in 1..n}
           f == [k \in 1..n |-> <<r, k>>]
<1>1. /\ f \in [1..n -> T] /\ \A a, b \in 1..n : f[a] = f[b] => a = b
      /\ \A t \in T : \E k \in 1..n : f[k] = t
  OBVIOUS
<1> HIDE DEF f, T
<1>2. f \in Bijection(1..n, T)
  BY <1>1, Fun_IsBij
<1>3. ExistsBijection(1..n, T)
  BY <1>2, Fun_ExistsBij
<1>4. IsFiniteSet(1..n) /\ Cardinality(1..n) = n
  BY FS_Interval
<1> QED
  BY <1>3, <1>4, FS_Bijection DEF T

\* When the listener marks the point, its sample has all its descriptors.
LEMMA MarkedExact ==
  ASSUME TypedInv, ExactInv, MarksInv, Thm!NoActionLost, ~overlap, ~Misheard',
         NEW r \in DOMAIN run, Described(r)
  PROVE  SamplesAt(run[r].point) = {Cur.sample} /\ Exact(Cur.sample)
<1> DEFINE c == ChainOf(Last)
           p == Cur.point
<1>1. r = Last /\ InChain /\ c \in started /\ c \in Uploads
      /\ Last \in DOMAIN run
  BY MarkedByLast, TypedFacts DEF ExactInv
<1>2. isCompleted[c] /\ ~isFaulted[c]
  BY <1>1, HeardUnfaulted DEF Described
<1>3. at \in {"execute", "threw"} => Front.task # c
  <2> SUFFICES ASSUME at \in {"execute", "threw"} PROVE Front.task # c
    OBVIOUS
  <2>1. queue # <<>> /\ queue \in Seq(Thm!Jobs)
    BY DEF TypedInv, Thm!IInv, Thm!TypeOK
  <2>2. 1 \in DOMAIN queue
    BY <2>1, Thm!FrontFacts, ThmAssumption
  <2> QED
    BY <1>1, <1>2, <2>2 DEF TypedInv, Thm!IInv, Thm!Safety,
       Thm!SettledTaskIsQuiet, Thm!Unsettled, Front
<1>4. exceptions[c] = {}
  BY <1>1, <1>2, <1>3 DEF ExactInv, FaultRecorded
<1>5. One /\ server[Cur.sample].descs = Posted
  BY <1>1, <1>4 DEF InChain
<1>6. /\ p \in Points /\ Devices[p] \in Nat
      /\ server[Cur.sample].point = p
  <2>1. p \in Points
    BY <1>1, TypedFacts DEF Cur, RunRecords
  <2>2. Devices[p] \in 1..MaxDevices /\ MaxDevices \in Nat
    BY <2>1, TypedFacts
  <2> QED
    BY <1>5, <2>1, <2>2 DEF One, SamplesAt
<1>7. Len(begun[c]) = Devices[p]
  <2>1. Len(begun[c]) = given[c]
    BY <1>1, <1>2 DEF Thm!NoActionLost, MarksInv, NeverCancelled
  <2>2. given[c] = Devices[p]
    BY <1>1 DEF MarksInv, StartedWhole, WholeChain, Cur
  <2> QED
    BY <2>1, <2>2
<1>8. Executed = Devices[p]
  BY <1>3, <1>6, <1>7 DEF Executed
<1>9. server[Cur.sample].descs = {<<Last, k>> : k \in 1..Devices[p]}
  BY <1>5, <1>8 DEF Posted
<1>10. Exact(Cur.sample)
  <2>0. PICK n \in Nat : n = Devices[p]
    BY <1>6
  <2>1. PICK l, D : l = Last /\ D = server[Cur.sample].descs
    OBVIOUS
  <2>2. D = {<<l, k>> : k \in 1..n}
    BY <1>9, <2>0, <2>1
  <2>3. Cardinality(D) = n
    BY <2>2, CountPairs
  <2>4. {d[2] : d \in D} = 1..n
    <3>1. \A k : <<l, k>>[2] = k
      OBVIOUS
    <3>2. \A d \in D : d[2] \in 1..n
      BY <2>2, <3>1
    <3>3. \A k \in 1..n : <<l, k>> \in D /\ <<l, k>>[2] = k
      BY <2>2, <3>1
    <3>4. \A k \in 1..n : \E d \in D : d[2] = k
      BY <3>3
    <3> QED
      BY <3>2, <3>4
  <2> QED
    BY <1>6, <2>0, <2>1, <2>3, <2>4 DEF Exact
<1> QED
  BY <1>1, <1>5, <1>10 DEF One, Cur

LEMMA ExactStep ==
  ASSUME TypedInv, ExactInv, MarksInv, Thm!NoActionLost, FlushedIsExact,
         [Next]_vars
  PROVE  FlushedIsExact'
<1> SUFFICES ASSUME NEW p \in Points, flushed'[p], ~overlap', ~Misheard'
             PROVE  \E s \in DOMAIN server' :
                      SamplesAt(p)' = {s} /\ Exact(s)'
  BY DEF FlushedIsExact
<1>0. ~overlap /\ ~Misheard /\ flushed \in [Points -> BOOLEAN]
  <2>1. ~overlap
    BY DEF Next, UIStep, WorkerStep, ClickPersist, Persist, PersistEnds,
       PostSample, DeleteDescriptors, BuildChain, StartChain, CallBegins,
       Listener, FaultHeard, NotParsed, FoundNone, FoundOne, FoundMore,
       SampleCreated, DescriptorsDeleted, Described, DescribeGoesOn,
       FindReturns, CreateReturns, EraseReturns, DescribeReturns,
       RequestFails, TaskStep, own, vars
  <2> QED
    BY <2>1, MisheardStays DEF TypedInv, OwnTyped
<1>1. CASE flushed[p]
  <2>1. PICK s \in DOMAIN server : SamplesAt(p) = {s} /\ Exact(s)
    BY <1>0, <1>1 DEF FlushedIsExact
  <2>2. ~CreatesAt(p)
    BY <2>1 DEF CreatesAt
  <2>3. ~(p = Cur.point /\ EditsAt(p))
    <3> SUFFICES ASSUME p = Cur.point, EditsAt(p) PROVE FALSE
      OBVIOUS
    <3>1. ChainOf(Last) \in started /\ isCompleted[ChainOf(Last)]
      BY <1>0, <1>1 DEF ExactInv, MarkedDone, EditsAt
    <3>2. at = "execute" /\ Front.task = ChainOf(Last)
      BY <3>1 DEF EditsAt
    <3>3. 1 \in DOMAIN queue /\ ChainOf(Last) \in Uploads
      <4>1. queue # <<>> /\ queue \in Seq(Thm!Jobs)
        BY <3>2 DEF TypedInv, Thm!IInv, Thm!TypeOK
      <4> QED
        BY <3>1, <4>1, Thm!FrontFacts, ThmAssumption, TypedFacts
    <3> QED
      BY <3>1, <3>2, <3>3 DEF TypedInv, Thm!IInv, Thm!Safety,
         Thm!SettledTaskIsQuiet, Thm!Unsettled, Front
  <2>4. SamplesAt(p)' = SamplesAt(p) /\ server'[s] = server[s]
    BY <1>0, <2>1, <2>2, <2>3, ServerEdits, SamplesStay DEF ExactInv
  <2>5. s \in SamplesAt(p)'
    BY <2>1, <2>4
  <2>6. s \in DOMAIN server'
    BY <2>5 DEF SamplesAt
  <2>7. Exact(s)'
    BY <2>1, <2>4 DEF Exact
  <2> QED
    BY <2>1, <2>4, <2>6, <2>7
<1>2. CASE ~flushed[p]
  <2>1. PICK r \in DOMAIN run : Described(r) /\ p = run[r].point
    BY <1>0, <1>2, FlushedStep
  <2>2. SamplesAt(p) = {Cur.sample} /\ Exact(Cur.sample)
    BY <1>0, <2>1, MarkedExact
  <2>3. UNCHANGED server
    BY <2>1 DEF Described
  <2>4. PICK i : i = Cur.sample
    OBVIOUS
  <2>5. SamplesAt(p)' = {i} /\ Exact(i)'
    BY <2>2, <2>3, <2>4 DEF SamplesAt, Exact
  <2>6. i \in DOMAIN server'
    BY <2>5 DEF SamplesAt
  <2> QED
    BY <2>5, <2>6
<1> QED
  BY <1>1, <1>2

(* MainActivity.java:585-796. Whatever requests failed, served or not, and *)
(* however often the user tried again: a point that is marked FlushedToWeb *)
(* is stored as one sample with one descriptor per fingerprint, unless two *)
(* runs overlapped or a call misheard a fault.                             *)
THEOREM FlushedExactly == Spec => []FlushedIsExact
<1>1. Init => FlushedIsExact
  BY DEF Init, FlushedIsExact
<1>2. TypedInv /\ ExactInv /\ MarksInv /\ Thm!NoActionLost /\ FlushedIsExact
        /\ [Next]_vars => FlushedIsExact'
  BY ExactStep
<1> QED
  BY <1>1, <1>2, TypedInvariant, ExactInvariant, MarksInvariant, NothingLost,
     PTL DEF Spec
=============================================================================
