------------------------- MODULE SampleUploadProofs -------------------------
(* The upload uses Task as TaskChain describes it, for any points, bounds  *)
(* and contents of the web service: every step of the upload is a step of  *)
(* the task component or leaves all its variables alone.  So what is       *)
(* proved of TaskChain holds of the tasks of the upload.                   *)
EXTENDS SampleUpload, SequenceTheorems, TLAPS

(* What Start and continueWith rest on: the pending work of the UI thread  *)
(* names a run, and the runs are counted by a natural number.              *)
RunIsSeq == \E S : run \in Seq(S)
NextNamesRun == next.do \in {"create", "erase", "describe"} => next.run \in Runs
CallerInv == RunIsSeq /\ NextNamesRun

LEMMA ReplaceKeepsSeq ==
  ASSUME NEW S, NEW q \in Seq(S), NEW i, NEW e
  PROVE  [q EXCEPT ![i] = e] \in Seq(S \cup {e})
<1>1. Len(q) \in Nat /\ q \in [1..Len(q) -> S]
  BY LenProperties
<1>2. [q EXCEPT ![i] = e] \in [1..Len(q) -> S \cup {e}]
  BY <1>1
<1> QED
  BY <1>1, <1>2, SeqDef

LEMMA AppendKeepsSeq ==
  ASSUME NEW S, NEW q \in Seq(S), NEW e
  PROVE  Append(q, e) \in Seq(S \cup {e})
<1>1. q \in Seq(S \cup {e})
  <2>1. Len(q) \in Nat /\ q \in [1..Len(q) -> S]
    BY LenProperties
  <2> QED
    BY <2>1, SeqDef
<1> QED
  BY <1>1, AppendProperties

\* A listener call ends as one step of the task component.
LEMMA ListenerIsChainStep ==
  ASSUME NEW r \in Runs, Listener(r)
  PROVE  Chain!ListenerReadsSecond
BY DEF Listener, FaultHeard, NotParsed, FoundNone, FoundOne, FoundMore,
       SampleCreated, DescriptorsDeleted, Described, DescribeGoesOn, Call

\* The UI thread takes one of its task steps, or none.
LEMMA UIIsChainStep ==
  ASSUME CallerInv, UIStep
  PROVE  Chain!Next \/ UNCHANGED task
<1>1. CASE Persist
  <2>1. Len(run) \in Nat /\ Len(run) < MaxRuns
    BY <1>1, LenProperties DEF CallerInv, RunIsSeq, Persist
  <2>2. <<Len(run) + 1, "find">> \in Uploads
    BY <2>1, SampleUploadAssumption DEF Uploads, Runs, Steps
  <2> QED
    BY <1>1, <2>2 DEF Persist, Chain!Next, Chain!UserStep
<1>2. CASE PersistEnds
  BY <1>2 DEF PersistEnds
<1>3. CASE PostSample
  <2>1. <<next.run, "create">> \in Uploads
    BY <1>3 DEF CallerInv, NextNamesRun, PostSample, Uploads, Steps
  <2> QED
    BY <1>3, <2>1 DEF PostSample, Chain!Next, Chain!UserStep
<1>4. CASE DeleteDescriptors
  <2>1. <<next.run, "erase">> \in Uploads
    BY <1>4 DEF CallerInv, NextNamesRun, DeleteDescriptors, Uploads, Steps
  <2> QED
    BY <1>4, <2>1 DEF DeleteDescriptors, Chain!Next, Chain!UserStep
<1>5. CASE BuildChain \/ StartChain
  <2>1. ChainOf(next.run) \in Uploads
    BY <1>5 DEF CallerInv, NextNamesRun, BuildChain, StartChain, ChainOf,
                Uploads, Steps
  <2> QED
    BY <1>5, <2>1 DEF BuildChain, StartChain, Chain!Next, Chain!UserStep
<1>6. CASE CallBegins
  BY <1>6 DEF CallBegins, Chain!Next, Chain!UIStep
<1>7. CASE \E r \in Runs : Listener(r)
  BY <1>7, ListenerIsChainStep DEF Chain!Next, Chain!UIStep
<1> QED
  BY <1>1, <1>2, <1>3, <1>4, <1>5, <1>6, <1>7 DEF UIStep

\* The background thread takes one of its task steps.
LEMMA WorkerIsChainStep ==
  ASSUME WorkerStep
  PROVE  Chain!Next
<1>1. Chain!WorkerStep
  BY DEF WorkerStep, FindReturns, CreateReturns, EraseReturns,
         DescribeReturns, RequestFails, TaskStep, Chain!WorkerStep
<1> QED
  BY <1>1 DEF Chain!Next

\* A listener call keeps the runs a sequence and names its own run.
LEMMA CallerInvListener ==
  ASSUME CallerInv, NEW r \in Runs, Listener(r)
  PROVE  CallerInv'
<1>1. CASE FoundOne(r)
  <2>1. PICK S, s : run \in Seq(S) /\ run' = [run EXCEPT ![r].sample = s]
    BY <1>1 DEF CallerInv, RunIsSeq, FoundOne
  <2>2. RunIsSeq'
    BY <2>1, ReplaceKeepsSeq DEF RunIsSeq
  <2> QED
    BY <1>1, <2>2 DEF CallerInv, NextNamesRun, FoundOne, Do
<1>2. CASE ~FoundOne(r)
  <2>1. UNCHANGED run
    BY <1>2 DEF Listener, FaultHeard, NotParsed, FoundNone, FoundMore,
                SampleCreated, DescriptorsDeleted, Described, DescribeGoesOn,
                own
  <2>2. \/ UNCHANGED next
        \/ \E what : next' = Do(what, r)
        \/ next' = Do("persist", 0)
    BY <1>2 DEF Listener, FaultHeard, NotParsed, FoundNone, FoundMore,
                SampleCreated, DescriptorsDeleted, Described, DescribeGoesOn,
                own
  <2>3. NextNamesRun'
    BY <2>2 DEF CallerInv, NextNamesRun, Do
  <2> QED
    BY <2>1, <2>3 DEF CallerInv, RunIsSeq
<1> QED
  BY <1>1, <1>2

\* So does every other step.
LEMMA CallerInvNext ==
  ASSUME CallerInv, [Next]_vars
  PROVE  CallerInv'
<1>1. CASE ClickPersist
  BY <1>1 DEF ClickPersist, CallerInv, RunIsSeq, NextNamesRun, Do
<1>2. CASE Persist
  <2>1. PICK S, e : run \in Seq(S) /\ run' = Append(run, e)
    BY <1>2 DEF CallerInv, RunIsSeq, Persist
  <2>2. RunIsSeq'
    BY <2>1, AppendKeepsSeq DEF RunIsSeq
  <2> QED
    BY <1>2, <2>2 DEF CallerInv, NextNamesRun, Persist, Nothing, Do
<1>3. CASE PersistEnds \/ PostSample \/ DeleteDescriptors \/ StartChain
  <2>1. UNCHANGED run /\ next' = Nothing
    BY <1>3 DEF PersistEnds, PostSample, DeleteDescriptors, StartChain
  <2>2. NextNamesRun'
    BY <2>1 DEF NextNamesRun, Nothing, Do
  <2> QED
    BY <2>1, <2>2 DEF CallerInv, RunIsSeq
<1>4. CASE UNCHANGED own
  BY <1>4 DEF own, CallerInv, RunIsSeq, NextNamesRun
<1>5. CASE \E r \in Runs : Listener(r)
  BY <1>5, CallerInvListener
<1>6. CASE FindReturns
  <2>1. PICK S, a, b : /\ run \in Seq(S)
                       /\ run' = [run EXCEPT ![FrontRun].found = a,
                                             ![FrontRun].known = b]
    BY <1>6 DEF CallerInv, RunIsSeq, FindReturns
  <2> DEFINE q == [run EXCEPT ![FrontRun].found = a]
  <2>2. PICK T : q \in Seq(T)
    BY <2>1, ReplaceKeepsSeq
  <2>3. RunIsSeq'
    BY <2>1, <2>2, ReplaceKeepsSeq DEF RunIsSeq
  <2> QED
    BY <1>6, <2>3 DEF CallerInv, NextNamesRun, FindReturns
<1>7. CASE CreateReturns
  <2>1. PICK S, s : /\ run \in Seq(S)
                    /\ run' = [run EXCEPT ![FrontRun].sample = s]
    BY <1>7 DEF CallerInv, RunIsSeq, CreateReturns
  <2>2. RunIsSeq'
    BY <2>1, ReplaceKeepsSeq DEF RunIsSeq
  <2> QED
    BY <1>7, <2>2 DEF CallerInv, NextNamesRun, CreateReturns
<1>8. CASE EraseReturns \/ DescribeReturns \/ RequestFails
  BY <1>8 DEF EraseReturns, DescribeReturns, RequestFails, CallerInv,
              RunIsSeq, NextNamesRun
<1> QED
  BY <1>1, <1>2, <1>3, <1>4, <1>5, <1>6, <1>7, <1>8
     DEF Next, UIStep, WorkerStep, TaskStep, BuildChain, CallBegins, vars

(* Task.java as MainActivity.java:582-792 uses it. Every behaviour of the  *)
(* upload is one of the task component: it starts each task once, adds     *)
(* actions only before, and waits for none of them.                        *)
THEOREM UploadUsesTasks == Spec => Chain!Spec
<1>1. Init => Chain!Init /\ CallerInv
  <2>1. <<>> \in Seq({})
    OBVIOUS
  <2> QED
    BY <2>1 DEF Init, CallerInv, RunIsSeq, NextNamesRun, Nothing, Do
<1>2. CallerInv /\ [Next]_vars => CallerInv'
  BY CallerInvNext
<1>3. CallerInv /\ [Next]_vars => [Chain!Next]_(Chain!vars)
  <2> SUFFICES ASSUME CallerInv, [Next]_vars
               PROVE  Chain!Next \/ UNCHANGED Chain!vars
    OBVIOUS
  <2>1. UNCHANGED task => UNCHANGED Chain!vars
    BY DEF task, Chain!vars, Chain!built, Chain!flags, Chain!stored,
           Chain!background, Chain!ui
  <2>2. Chain!Next \/ UNCHANGED task
    BY UIIsChainStep, WorkerIsChainStep DEF Next, ClickPersist, vars
  <2> QED
    BY <2>1, <2>2
<1> QED
  BY <1>1, <1>2, <1>3, PTL DEF Spec, Chain!Spec
-----------------------------------------------------------------------------
(* What is proved of TaskChain, for the tasks of the upload.               *)

Thm == INSTANCE TaskChainProofs
  WITH Tasks <- Uploads, MaxActions <- MaxDevices, Waiters <- {},
       Worker <- "worker", CompletedFirst <- FALSE

LEMMA ThmAssumption == Thm!TaskChainAssumption
BY SampleUploadAssumption DEF Thm!TaskChainAssumption

\* Chain and Thm are two instances of the same definitions.
LEMMA SameTask ==
  /\ Chain!Init => Thm!Init
  /\ [Chain!Next]_(Chain!vars) => [Thm!Next]_(Thm!vars)
  /\ Chain!TypeOK <=> Thm!TypeOK
<1>1. Chain!Init => Thm!Init
  BY DEF Chain!Init, Thm!Init, Chain!NoWait, Thm!NoWait
<1>2. Chain!TypeOK <=> Thm!TypeOK
  BY DEF Chain!TypeOK, Thm!TypeOK, Chain!Actions, Thm!Actions, Chain!Jobs,
         Thm!Jobs, Chain!Calls, Thm!Calls, Chain!Waits, Thm!Waits,
         Chain!WorkerPlaces, Thm!WorkerPlaces, Chain!UIPlaces, Thm!UIPlaces
<1> USE DEF Chain!flags, Chain!built, Chain!stored, Chain!background, Chain!ui,
            Thm!flags, Thm!built, Thm!stored, Thm!background, Thm!ui,
            Chain!Front, Thm!Front, Chain!Job, Thm!Job
<1>3. UNCHANGED Chain!vars => UNCHANGED Thm!vars
  BY DEF Chain!vars, Thm!vars
<1>4. Chain!UIStep => Thm!UIStep
  BY DEF Chain!UIStep, Thm!UIStep, Chain!DropMessage, Thm!DropMessage,
         Chain!ListenerReadsFirst, Thm!ListenerReadsFirst,
         Chain!ListenerReadsSecond, Thm!ListenerReadsSecond, Chain!CallSeen,
         Thm!CallSeen, Chain!ReadsCompletedFirst, Thm!ReadsCompletedFirst
<1>5. Chain!UserStep => Thm!UserStep
  BY DEF Chain!UserStep, Thm!UserStep, Chain!ContinueWith, Thm!ContinueWith,
         Chain!Start, Thm!Start, Chain!Cancel, Thm!Cancel, Chain!Launch,
         Thm!Launch, Chain!Claimed, Thm!Claimed
<1>6. Chain!WorkerStep => Thm!WorkerStep
  BY DEF Chain!WorkerStep, Chain!Begin, Chain!ExecuteReturns,
         Chain!ExecuteThrows, Chain!FinishCancelled, Chain!FinishWithNext,
         Chain!FinishLast, Chain!FinishFaulted, Chain!FinishFaultedCompletes,
         Chain!StoreResult, Chain!Post, Chain!Blocked, Thm!WorkerStep,
         Thm!Begin, Thm!ExecuteReturns, Thm!ExecuteThrows,
         Thm!FinishCancelled, Thm!FinishWithNext, Thm!FinishLast,
         Thm!FinishFaulted, Thm!FinishFaultedCompletes, Thm!StoreResult,
         Thm!Post, Thm!Blocked
<1>7. Chain!Next => Thm!Next
  BY <1>4, <1>5, <1>6 DEF Chain!Next, Thm!Next
<1> QED
  BY <1>1, <1>2, <1>3, <1>7

LEMMA CallerStep ==
  ASSUME CallerInv, [Next]_vars
  PROVE  [Thm!Next]_(Thm!vars)
<1>1. UNCHANGED task => UNCHANGED Chain!vars
  BY DEF task, Chain!vars, Chain!built, Chain!flags, Chain!stored,
         Chain!background, Chain!ui
<1>2. Chain!Next \/ UNCHANGED task
  BY UIIsChainStep, WorkerIsChainStep DEF Next, ClickPersist, vars
<1> QED
  BY <1>1, <1>2, SameTask

LEMMA TaskInvariant == Spec => [](CallerInv /\ Thm!IInv /\ Thm!MessagesStarted)
<1>1. Init => CallerInv
  <2>1. <<>> \in Seq({})
    OBVIOUS
  <2> QED
    BY <2>1 DEF Init, CallerInv, RunIsSeq, NextNamesRun, Nothing, Do
<1>2. CallerInv /\ [Next]_vars => CallerInv'
  BY CallerInvNext
<1>3. Chain!Spec => Thm!Spec
  BY SameTask, PTL DEF Chain!Spec, Thm!Spec
<1> QED
  BY <1>1, <1>2, <1>3, ThmAssumption, UploadUsesTasks, Thm!Inductive,
     Thm!MessagesOfStarted, PTL DEF Spec
-----------------------------------------------------------------------------
(* Types, and the runs of the tasks.                                       *)

RunRecords == [point : Points, found : SUBSET DOMAIN server,
               known : SUBSET Descriptors, sample : 0..Len(server)]

OwnTyped ==
  /\ flushed \in [Points -> BOOLEAN]
  /\ progress \in BOOLEAN /\ told \in BOOLEAN /\ overlap \in BOOLEAN
  /\ next \in [do : {"nothing", "persist", "create", "erase", "describe"},
               run : 0..Len(run)]
  /\ run \in Seq(RunRecords) /\ Len(run) <= MaxRuns
  /\ server \in Seq(Samples)

\* A started task belongs to a run, and so does the task started next.
TasksHaveRuns ==
  /\ \A t \in started : t[1] \in DOMAIN run
  /\ next.do \in {"create", "erase", "describe"} => next.run \in DOMAIN run

TypedInv == /\ CallerInv /\ Thm!IInv /\ Thm!MessagesStarted
            /\ OwnTyped /\ TasksHaveRuns

\* What the lemmas below need of the types.
LEMMA TypedFacts ==
  ASSUME TypedInv
  PROVE  /\ started \subseteq Uploads /\ queue \in Seq(Thm!Jobs)
         /\ uiQueue \in Seq(Thm!Jobs)
         /\ Len(run) \in Nat /\ DOMAIN run = 1..Len(run)
         /\ \A r \in DOMAIN run : r \in Runs /\ run[r] \in RunRecords
         /\ Len(server) \in Nat /\ DOMAIN server = 1..Len(server)
         /\ Points = 1..Len(Devices) /\ Len(Devices) \in Nat
         /\ \A p \in Points : Devices[p] \in 1..MaxDevices
         /\ MaxDevices \in Nat /\ MaxRuns \in Nat
<1>1. started \subseteq Uploads /\ queue \in Seq(Thm!Jobs) /\ uiQueue \in Seq(Thm!Jobs)
  BY DEF TypedInv, Thm!IInv, Thm!TypeOK
<1>2. run \in Seq(RunRecords) /\ Len(run) <= MaxRuns /\ server \in Seq(Samples)
  BY DEF TypedInv, OwnTyped
<1>3. Len(run) \in Nat /\ DOMAIN run = 1..Len(run)
  BY <1>2, LenProperties
<1>4. \A r \in 1..Len(run) : run[r] \in RunRecords
  BY <1>2, ElementOfSeq
<1>5. Len(server) \in Nat /\ DOMAIN server = 1..Len(server)
  BY <1>2, LenProperties
<1>6. Devices \in Seq(1..MaxDevices) /\ MaxDevices \in Nat /\ MaxRuns \in Nat
  BY SampleUploadAssumption
<1>7. Len(Devices) \in Nat /\ Points = 1..Len(Devices)
  BY <1>6, LenProperties DEF Points
<1>8. \A p \in Points : Devices[p] \in 1..MaxDevices
  BY <1>6, <1>7, ElementOfSeq
<1> QED
  BY <1>1, <1>2, <1>3, <1>4, <1>5, <1>6, <1>7, <1>8 DEF Runs

\* The job in front, when the background thread is at it.
LEMMA FrontJob ==
  ASSUME TypedInv, at # "idle"
  PROVE  /\ Front \in Thm!Jobs /\ Front.task \in started
         /\ Front.task = <<FrontRun, Front.task[2]>>
         /\ FrontRun \in DOMAIN run /\ FrontRun \in Runs
         /\ Front.action \in 1..MaxDevices
<1>1. queue # <<>> /\ queue \in Seq(Thm!Jobs)
  BY DEF TypedInv, Thm!IInv, Thm!TypeOK
<1>2. 1 \in DOMAIN queue /\ Front \in Thm!Jobs
  BY <1>1, Thm!FrontFacts, ThmAssumption DEF Front
<1>3. Front.task \in started
  BY <1>2 DEF TypedInv, Thm!IInv, Thm!Safety, Thm!QueueInv, Front
<1>4. Front.task \in Uploads /\ Front.action \in 1..MaxDevices
  BY <1>2 DEF Thm!Jobs, Thm!Actions
<1> QED
  BY <1>2, <1>3, <1>4, TypedFacts DEF TypedInv, TasksHaveRuns, FrontRun, Uploads

\* The message that the UI thread handles.
LEMMA CalledTask ==
  ASSUME TypedInv, uiAt = "listener"
  PROVE  /\ uiQueue # <<>> /\ uiQueue[1] \in Thm!Jobs
         /\ uiQueue[1].task \in started /\ uiQueue[1].task[1] \in DOMAIN run
<1>1. uiQueue # <<>> /\ uiQueue \in Seq(Thm!Jobs)
  BY DEF TypedInv, Thm!IInv, Thm!TypeOK
<1>2. 1 \in DOMAIN uiQueue /\ uiQueue[1] \in Thm!Jobs
  BY <1>1, Thm!FrontFacts, ThmAssumption
<1> QED
  BY <1>1, <1>2 DEF TypedInv, Thm!MessagesStarted, TasksHaveRuns

\* Which tasks a step starts.
LEMMA StartedStep ==
  ASSUME [Next]_vars, NEW t \in started', t \notin started
  PROVE  \/ Persist /\ t = <<Len(run) + 1, "find">>
         \/ /\ PostSample \/ DeleteDescriptors \/ StartChain
            /\ t[1] = next.run
            /\ next.do = "create" => t = <<next.run, "create">>
            /\ next.do = "erase" => t = <<next.run, "erase">>
            /\ next.do = "describe" => t = ChainOf(next.run)
<1> USE DEF Chain!built
<1>1. WorkerStep => UNCHANGED started
  BY DEF WorkerStep, FindReturns, CreateReturns, EraseReturns,
         DescribeReturns, RequestFails, TaskStep, Chain!Begin,
         Chain!ExecuteReturns, Chain!ExecuteThrows, Chain!FinishWithNext,
         Chain!FinishLast, Chain!FinishFaulted, Chain!FinishFaultedCompletes,
         Chain!StoreResult, Chain!Post
<1>2. (\E r \in Runs : Listener(r)) => UNCHANGED started
  BY ListenerIsChainStep DEF Chain!ListenerReadsSecond
<1>3. ClickPersist \/ PersistEnds \/ CallBegins \/ BuildChain \/ UNCHANGED vars
        => UNCHANGED started
  BY DEF ClickPersist, PersistEnds, CallBegins, BuildChain, vars, task,
         Chain!ListenerReadsFirst, Chain!ContinueWith
<1>4. CASE Persist
  BY <1>4 DEF Persist, Chain!Start, Chain!Launch
<1>5. CASE PostSample \/ DeleteDescriptors \/ StartChain
  BY <1>5 DEF PostSample, DeleteDescriptors, StartChain, Chain!Start,
              Chain!Launch, ChainOf
<1> QED
  BY <1>1, <1>2, <1>3, <1>4, <1>5 DEF Next, UIStep

\* A run is appended to the others, or one of them is edited.
LEMMA AppendRun ==
  ASSUME TypedInv, Persist
  PROVE  /\ run' \in Seq(RunRecords) /\ Len(run') = Len(run) + 1
         /\ Len(run') <= MaxRuns /\ DOMAIN run' = 1..(Len(run) + 1)
         /\ \A r \in DOMAIN run : run'[r] = run[r]
         /\ run'[Len(run) + 1] \in RunRecords
         /\ FirstUnflushed(run'[Len(run) + 1].point)
         /\ run'[Len(run) + 1].found = {} /\ run'[Len(run) + 1].point \in Points
<1>1. PICK p \in Points :
        /\ FirstUnflushed(p)
        /\ run' = Append(run, [point |-> p, found |-> {}, known |-> {},
                               sample |-> 0])
  BY DEF Persist
<1> DEFINE e == [point |-> p, found |-> {}, known |-> {}, sample |-> 0]
<1>2. e \in RunRecords
  BY TypedFacts DEF RunRecords
<1>3. run \in Seq(RunRecords) /\ Len(run) < MaxRuns
  BY DEF TypedInv, OwnTyped, Persist
<1>4. /\ run' \in Seq(RunRecords) /\ Len(run') = Len(run) + 1
      /\ DOMAIN run = 1..Len(run) /\ DOMAIN run' = 1..(Len(run) + 1)
      /\ \A r \in 1..Len(run) : run'[r] = run[r]
      /\ run'[Len(run) + 1] = e
  BY <1>1, <1>2, <1>3, Thm!AppendFacts, ThmAssumption
<1> QED
  BY <1>1, <1>2, <1>3, <1>4, TypedFacts

LEMMA EditSeq ==
  ASSUME NEW S, NEW q \in Seq(S), NEW f \in [DOMAIN q -> S]
  PROVE  f \in Seq(S) /\ Len(f) = Len(q) /\ DOMAIN f = DOMAIN q
<1>1. Len(q) \in Nat /\ DOMAIN q = 1..Len(q)
  BY LenProperties
<1>2. f \in Seq(S)
  BY <1>1, SeqDef
<1> QED
  BY <1>1, <1>2, LenProperties

\* What the requests make of the server.
LEMMA ServerStep ==
  ASSUME TypedInv, at # "idle",
         NEW new, \/ new = server
                  \/ new = Created
                  \/ \E ids : new = Erased(ids)
                  \/ new = Extended
  PROVE  /\ new \in Seq(Samples) /\ Len(new) \in Nat /\ Len(server) <= Len(new)
         /\ DOMAIN server \subseteq DOMAIN new
         /\ \A s \in DOMAIN server : new[s].point = server[s].point
<1>0. /\ server \in Seq(Samples) /\ Len(server) \in Nat
      /\ DOMAIN server = 1..Len(server)
      /\ \A s \in 1..Len(server) : server[s] \in Samples
  <2>1. server \in Seq(Samples)
    BY DEF TypedInv, OwnTyped
  <2> QED
    BY <2>1, LenProperties, ElementOfSeq
<1>1. /\ FrontRun \in DOMAIN run /\ run[FrontRun] \in RunRecords
      /\ <<FrontRun, Front.action>> \in Descriptors
  <2>1. MaxRuns \in Nat /\ Runs = 1..MaxRuns
    BY SampleUploadAssumption DEF Runs
  <2> QED
    BY <2>1, FrontJob, TypedFacts DEF Descriptors
<1>2. CASE new = server
  BY <1>0, <1>2
<1>3. CASE new = Created
  <2> DEFINE e == [point |-> run[FrontRun].point, descs |-> {}]
  <2>1. e \in Samples
    BY <1>1 DEF RunRecords, Samples
  <2>2. /\ new \in Seq(Samples) /\ Len(new) = Len(server) + 1
        /\ DOMAIN new = 1..(Len(server) + 1)
        /\ \A s \in 1..Len(server) : new[s] = server[s]
    BY <1>0, <1>3, <2>1, Thm!AppendFacts, ThmAssumption DEF Created
  <2> QED
    BY <1>0, <2>2
<1>4. CASE (\E ids : new = Erased(ids)) \/ new = Extended
  <2> DEFINE i == run[FrontRun].sample
  <2>1. PICK D : /\ new = [server EXCEPT ![i].descs = D]
                 /\ \/ D = server[i].descs \cup {<<FrontRun, Front.action>>}
                    \/ \E ids : D = server[i].descs \ ids
    BY <1>4 DEF Erased, Extended
  <2>2. i \in DOMAIN server => D \in SUBSET Descriptors
    BY <1>0, <1>1, <2>1 DEF Samples
  <2> HIDE DEF i
  <2>3. /\ new \in [DOMAIN server -> Samples]
        /\ \A s \in DOMAIN server : new[s].point = server[s].point
    BY <1>0, <2>1, <2>2 DEF Samples
  <2> QED
    BY <1>0, <2>3, EditSeq
<1> QED
  BY <1>2, <1>3, <1>4

\* What a background step does to the server, if anything.
LEMMA WorkerServer ==
  ASSUME TypedInv, WorkerStep
  PROVE  /\ server' \in Seq(Samples) /\ Len(server') \in Nat
         /\ Len(server) <= Len(server') /\ DOMAIN server \subseteq DOMAIN server'
         /\ \A s \in DOMAIN server : server'[s].point = server[s].point
<1>1. at # "idle" \/ UNCHANGED server
  BY DEF WorkerStep, FindReturns, CreateReturns, EraseReturns,
         DescribeReturns, RequestFails, TaskStep, own, Chain!ExecuteReturns,
         Chain!ExecuteThrows
<1>2. \/ server' = server
      \/ server' = Created
      \/ \E ids : server' = Erased(ids)
      \/ server' = Extended
  BY DEF WorkerStep, FindReturns, CreateReturns, EraseReturns,
         DescribeReturns, RequestFails, TaskStep, own
<1>3. CASE UNCHANGED server
  BY <1>3, TypedFacts DEF TypedInv, OwnTyped
<1> QED
  BY <1>1, <1>2, <1>3, ServerStep

\* The records of the runs after a step that appends none.
LEMMA RunsEdited ==
  ASSUME TypedInv, [Next]_vars, ~Persist
  PROVE  /\ run' \in Seq(RunRecords') /\ Len(run') = Len(run)
         /\ DOMAIN run' = DOMAIN run
         /\ \A r \in DOMAIN run : run'[r].point = run[r].point
<1>0. /\ run \in Seq(RunRecords) /\ Len(run) \in Nat /\ DOMAIN run = 1..Len(run)
      /\ \A r \in 1..Len(run) : run[r] \in RunRecords
  BY TypedFacts DEF TypedInv, OwnTyped
<1>a. \A r \in DOMAIN run : run[r] \in RunRecords
  BY <1>0
<1>1. /\ Len(server') \in Nat /\ Len(server) \in Nat /\ Len(server) <= Len(server')
      /\ DOMAIN server \subseteq DOMAIN server'
  <2>1. CASE UNCHANGED server
    BY <2>1, TypedFacts
  <2>2. CASE WorkerStep
    BY <2>2, WorkerServer, TypedFacts
  <2>3. UNCHANGED server \/ WorkerStep
    BY DEF Next, UIStep, ClickPersist, Persist, PersistEnds, PostSample,
       DeleteDescriptors, BuildChain, StartChain, CallBegins, Listener,
       FaultHeard, NotParsed, FoundNone, FoundOne, FoundMore, SampleCreated,
       DescriptorsDeleted, Described, DescribeGoesOn, vars, own
  <2> QED
    BY <2>1, <2>2, <2>3
<1>2. RunRecords \subseteq RunRecords'
  BY <1>1 DEF RunRecords
<1>3. CASE UNCHANGED run
  <2>1. run \in [DOMAIN run -> RunRecords']
    BY <1>0, <1>2, LenProperties
  <2> QED
    BY <1>0, <1>3, <2>1, EditSeq
<1>4. CASE \E r \in Runs : FoundOne(r)
  <2>1. PICK r \in Runs : FoundOne(r)
    BY <1>4
  <2>2. r \in DOMAIN run
    BY <2>1, CalledTask DEF FoundOne, Call, Chain!ListenerReadsSecond
  <2>3. PICK t \in run[r].found : run' = [run EXCEPT ![r].sample = t]
    BY <2>1 DEF FoundOne
  <2>4. t \in 0..Len(server')
    BY <1>a, <1>1, <2>2, <2>3, TypedFacts DEF RunRecords
  <2>5. /\ run' \in [DOMAIN run -> RunRecords']
        /\ \A k \in DOMAIN run : run'[k].point = run[k].point
    BY <1>a, <1>2, <2>2, <2>3, <2>4 DEF RunRecords
  <2> QED
    BY <1>0, <2>5, EditSeq
<1>5. CASE FindReturns
  <2> DEFINE there == {s \in DOMAIN server : server[s].point = run[FrontRun].point}
             known == UNION {server[s].descs : s \in there}
  <2>1. run' = [run EXCEPT ![FrontRun].found = there, ![FrontRun].known = known]
    BY <1>5 DEF FindReturns
  <2>2. FrontRun \in DOMAIN run
    BY <1>5, FrontJob DEF FindReturns, Chain!ExecuteReturns
  <2>3. \A s \in DOMAIN server : server[s].descs \in SUBSET Descriptors
    <3>1. \A s \in DOMAIN server : server[s] \in Samples
      BY TypedFacts, ElementOfSeq DEF TypedInv, OwnTyped
    <3> QED
      BY <3>1 DEF Samples
  <2>4. there \in SUBSET DOMAIN server' /\ known \in SUBSET Descriptors
    BY <1>1, <2>3
  <2> HIDE DEF there, known
  <2>5. /\ run' \in [DOMAIN run -> RunRecords']
        /\ \A k \in DOMAIN run : run'[k].point = run[k].point
    BY <1>a, <1>2, <2>1, <2>2, <2>4 DEF RunRecords
  <2> QED
    BY <1>0, <2>5, EditSeq
<1>6. CASE CreateReturns
  <2>1. run' = [run EXCEPT ![FrontRun].sample = Len(server) + 1]
    BY <1>6 DEF CreateReturns
  <2>2. Len(server) + 1 \in 0..Len(server')
    <3>1. server' = Created /\ server \in Seq(Samples)
      BY <1>6 DEF CreateReturns, TypedInv, OwnTyped
    <3>2. [point |-> run[FrontRun].point, descs |-> {}] \in Samples
      BY <1>a, <1>6, FrontJob DEF CreateReturns, Chain!ExecuteReturns,
         RunRecords, Samples
    <3>3. Len(server') = Len(server) + 1
      BY <3>1, <3>2, Thm!AppendFacts, ThmAssumption DEF Created
    <3> QED
      BY <1>1, <3>3
  <2>3. FrontRun \in DOMAIN run
    BY <1>6, FrontJob DEF CreateReturns, Chain!ExecuteReturns
  <2>4. /\ run' \in [DOMAIN run -> RunRecords']
        /\ \A k \in DOMAIN run : run'[k].point = run[k].point
    BY <1>a, <1>2, <2>1, <2>2, <2>3 DEF RunRecords
  <2> QED
    BY <1>0, <2>4, EditSeq
<1>7. \/ UNCHANGED run \/ FindReturns \/ CreateReturns
      \/ \E r \in Runs : FoundOne(r)
  BY DEF Next, UIStep, WorkerStep, ClickPersist, PersistEnds, PostSample,
     DeleteDescriptors, BuildChain, StartChain, CallBegins, Listener,
     FaultHeard, NotParsed, FoundNone, FoundMore, SampleCreated,
     DescriptorsDeleted, Described, DescribeGoesOn, EraseReturns,
     DescribeReturns, RequestFails, TaskStep, vars, own
<1> QED
  BY <1>3, <1>4, <1>5, <1>6, <1>7

\* What the UI thread may still have to do names a run that there is.
LEMMA NextStep ==
  ASSUME TypedInv, [Next]_vars
  PROVE  \/ UNCHANGED next \/ next' = Nothing \/ next' = Do("persist", 0)
         \/ \E r \in DOMAIN run, what \in {"create", "erase", "describe"} :
              next' = Do(what, r)
<1>1. ASSUME NEW r \in Runs, Listener(r)
      PROVE  \/ UNCHANGED next \/ next' = Do("persist", 0)
             \/ \E what \in {"create", "erase", "describe"} : next' = Do(what, r)
  BY <1>1 DEF Listener, FaultHeard, NotParsed, FoundNone, FoundOne, FoundMore,
     SampleCreated, DescriptorsDeleted, Described, DescribeGoesOn, own
<1>2. ASSUME NEW r \in Runs, Listener(r) PROVE r \in DOMAIN run
  <2>1. \E s \in Steps, f \in BOOLEAN : Call(r, s, f)
    BY <1>2 DEF Listener, FaultHeard, NotParsed, FoundNone, FoundOne,
       FoundMore, SampleCreated, DescriptorsDeleted, Described,
       DescribeGoesOn, Steps
  <2> QED
    BY <2>1, CalledTask DEF Call, Chain!ListenerReadsSecond
<1>3. CASE \E r \in Runs : Listener(r)
  BY <1>1, <1>2, <1>3
<1>4. CASE ~\E r \in Runs : Listener(r)
  BY <1>4 DEF Next, UIStep, WorkerStep, ClickPersist, Persist, PersistEnds,
     PostSample, DeleteDescriptors, BuildChain, StartChain, CallBegins,
     FindReturns, CreateReturns, EraseReturns, DescribeReturns, RequestFails,
     TaskStep, vars, own
<1> QED
  BY <1>3, <1>4

LEMMA TypedStep ==
  ASSUME TypedInv, [Next]_vars
  PROVE  OwnTyped' /\ TasksHaveRuns'
<1>0. OwnTyped
  BY DEF TypedInv
<1>1. /\ Len(run) \in Nat /\ Len(run') \in Nat /\ Len(run) <= Len(run')
      /\ Len(run') <= MaxRuns /\ DOMAIN run \subseteq DOMAIN run'
      /\ DOMAIN run = 1..Len(run)
      /\ run' \in Seq(RunRecords')
      /\ Persist => Len(run) + 1 \in DOMAIN run'
  <2>1. CASE Persist
    <3>1. UNCHANGED server
      BY <2>1 DEF Persist
    <3>2. RunRecords' = RunRecords
      BY <3>1 DEF RunRecords
    <3> QED
      BY <2>1, <3>2, AppendRun, TypedFacts
  <2>2. CASE ~Persist
    BY <1>0, <2>2, RunsEdited, TypedFacts DEF OwnTyped
  <2> QED
    BY <2>1, <2>2
<1>2. server' \in Seq(Samples)
  <2>1. UNCHANGED server \/ WorkerStep
    BY DEF Next, UIStep, ClickPersist, Persist, PersistEnds, PostSample,
       DeleteDescriptors, BuildChain, StartChain, CallBegins, Listener,
       FaultHeard, NotParsed, FoundNone, FoundOne, FoundMore, SampleCreated,
       DescriptorsDeleted, Described, DescribeGoesOn, vars, own
  <2> QED
    BY <1>0, <2>1, WorkerServer DEF OwnTyped
<1>3. /\ next' \in [do : {"nothing", "persist", "create", "erase", "describe"},
                    run : 0..Len(run')]
      /\ next'.do \in {"create", "erase", "describe"} => next'.run \in DOMAIN run'
  <2>1. CASE UNCHANGED next
    BY <1>0, <1>1, <2>1 DEF OwnTyped, TypedInv, TasksHaveRuns
  <2>2. CASE next' = Nothing \/ next' = Do("persist", 0)
    BY <1>1, <2>2 DEF Nothing, Do
  <2>3. CASE \E r \in DOMAIN run, what \in {"create", "erase", "describe"} :
               next' = Do(what, r)
    BY <1>1, <2>3 DEF Do
  <2> QED
    BY <2>1, <2>2, <2>3, NextStep
<1>4. /\ flushed' \in [Points -> BOOLEAN]
      /\ progress' \in BOOLEAN /\ told' \in BOOLEAN /\ overlap' \in BOOLEAN
  <2>1. CASE Next
    BY <1>0, <2>1 DEF OwnTyped, Next, UIStep, WorkerStep, ClickPersist,
       Persist, PersistEnds, PostSample, DeleteDescriptors, BuildChain,
       StartChain, CallBegins, Listener, FaultHeard, NotParsed, FoundNone,
       FoundOne, FoundMore, SampleCreated, DescriptorsDeleted, Described,
       DescribeGoesOn, FindReturns, CreateReturns, EraseReturns,
       DescribeReturns, RequestFails, TaskStep, own
  <2>2. CASE UNCHANGED vars
    BY <1>0, <2>2 DEF OwnTyped, vars, own
  <2> QED
    BY <2>1, <2>2
<1>5. ASSUME NEW t \in started' PROVE t[1] \in DOMAIN run'
  <2>1. CASE t \in started
    BY <1>1, <2>1 DEF TypedInv, TasksHaveRuns
  <2>2. CASE Persist /\ t = <<Len(run) + 1, "find">>
    BY <1>1, <2>2
  <2>3. CASE (PostSample \/ DeleteDescriptors \/ StartChain) /\ t[1] = next.run
    BY <1>1, <2>3 DEF TypedInv, TasksHaveRuns, PostSample, DeleteDescriptors,
                      StartChain
  <2> QED
    BY <2>1, <2>2, <2>3, StartedStep
<1> QED
  BY <1>1, <1>2, <1>3, <1>4, <1>5 DEF OwnTyped, TasksHaveRuns

LEMMA TypedInvariant == Spec => []TypedInv
<1> DEFINE Own == OwnTyped /\ TasksHaveRuns
           Task == CallerInv /\ Thm!IInv /\ Thm!MessagesStarted
<1>1. Init => Own
  <2> SUFFICES ASSUME Init PROVE Own
    OBVIOUS
  <2>1. /\ run = <<>> /\ Len(run) = 0 /\ run \in Seq(RunRecords)
        /\ started = {} /\ next = Nothing
    BY DEF Init, Chain!Init
  <2>2. server \in Seq(Samples) /\ 0 <= MaxRuns
    BY SampleUploadAssumption DEF Init
  <2>3. /\ flushed \in [Points -> BOOLEAN]
        /\ progress \in BOOLEAN /\ told \in BOOLEAN /\ overlap \in BOOLEAN
    BY Zenon DEF Init
  <2>4. next \in [do : {"nothing", "persist", "create", "erase", "describe"},
                  run : 0..Len(run)]
    BY <2>1 DEF Nothing, Do
  <2>5. Len(run) <= MaxRuns
    BY <2>1, <2>2
  <2>6. TasksHaveRuns
    BY <2>1 DEF TasksHaveRuns, Nothing, Do
  <2> QED
    BY <2>1, <2>2, <2>3, <2>4, <2>5, <2>6 DEF OwnTyped
<1>2. Task /\ Own /\ [Next]_vars => Own'
  BY TypedStep DEF TypedInv
<1>3. Task /\ Own <=> TypedInv
  BY DEF TypedInv
<1>4. Spec => []Task
  BY TaskInvariant
<1> QED
  BY <1>1, <1>2, <1>3, <1>4, PTL DEF Spec

(* Every variable of the upload, of its tasks and of the web service keeps *)
(* its type; each run and each sample that is named exists.                *)
THEOREM TypeCorrect == Spec => []TypeOK
<1>1. TypedInv => TypeOK
  BY SameTask DEF TypedInv, Thm!IInv, OwnTyped, TypeOK, RunRecords
<1> QED
  BY <1>1, TypedInvariant, PTL
-----------------------------------------------------------------------------
(* Which points are marked FlushedToWeb.                                   *)

\* A mark is never taken back, and set by the listener of a chain only.
LEMMA FlushedStep ==
  ASSUME TypedInv, [Next]_vars
  PROVE  \/ UNCHANGED flushed
         \/ \E r \in DOMAIN run :
              Described(r) /\ flushed' = [flushed EXCEPT ![run[r].point] = TRUE]
<1>1. ASSUME NEW r \in Runs, Described(r)
      PROVE  r \in DOMAIN run /\ flushed' = [flushed EXCEPT ![run[r].point] = TRUE]
  BY <1>1, CalledTask DEF Described, Call, Chain!ListenerReadsSecond
<1>2. ASSUME ~\E r \in Runs : Described(r) PROVE UNCHANGED flushed
  BY <1>2 DEF Next, UIStep, WorkerStep, ClickPersist, Persist, PersistEnds,
     PostSample, DeleteDescriptors, BuildChain, StartChain, CallBegins,
     Listener, FaultHeard, NotParsed, FoundNone, FoundOne, FoundMore,
     SampleCreated, DescriptorsDeleted, DescribeGoesOn, FindReturns,
     CreateReturns, EraseReturns, DescribeReturns, RequestFails, TaskStep,
     vars, own
<1> QED
  BY <1>1, <1>2

\* The points before that of a run were flushed when it began.
RunsInOrder ==
  \A r \in DOMAIN run : \A q \in Points : q < run[r].point => flushed[q]

LEMMA OrderStep ==
  ASSUME TypedInv, FlushedInOrder, RunsInOrder, [Next]_vars
  PROVE  FlushedInOrder' /\ RunsInOrder'
<1>0. /\ flushed \in [Points -> BOOLEAN] /\ DOMAIN run = 1..Len(run)
      /\ \A r \in DOMAIN run : run[r].point \in Points
  BY TypedFacts DEF TypedInv, OwnTyped, RunRecords
<1>1. \A q \in Points : flushed[q] => flushed'[q]
  BY <1>0, FlushedStep
<1>2. RunsInOrder'
  <2>1. CASE Persist
    <3>1. /\ DOMAIN run' = 1..(Len(run) + 1)
          /\ \A r \in DOMAIN run : run'[r] = run[r]
          /\ FirstUnflushed(run'[Len(run) + 1].point)
          /\ run'[Len(run) + 1].point \in Points
      BY <2>1, AppendRun
    <3>2. ASSUME NEW q \in Points, q < run'[Len(run) + 1].point PROVE flushed'[q]
      <4>1. q \in Nat /\ run'[Len(run) + 1].point \in Nat
        BY <3>1, TypedFacts
      <4>2. q \notin Unflushed
        BY <3>1, <3>2, <4>1 DEF FirstUnflushed
      <4> QED
        BY <1>1, <4>2 DEF Unflushed
    <3>3. ASSUME NEW r \in DOMAIN run', NEW q \in Points, q < run'[r].point
          PROVE  flushed'[q]
      <4>1. r \in DOMAIN run \/ r = Len(run) + 1
        BY <1>0, <3>1, TypedFacts
      <4>2. CASE r \in DOMAIN run
        BY <1>1, <3>1, <3>3, <4>2 DEF RunsInOrder
      <4> QED
        BY <3>2, <3>3, <4>1, <4>2
    <3> QED
      BY <3>3 DEF RunsInOrder
  <2>2. CASE ~Persist
    <3>1. /\ DOMAIN run' = DOMAIN run
          /\ \A r \in DOMAIN run : run'[r].point = run[r].point
      BY <2>2, RunsEdited
    <3> QED
      BY <1>1, <3>1 DEF RunsInOrder
  <2> QED
    BY <2>1, <2>2
<1>3. FlushedInOrder'
  <2>1. CASE UNCHANGED flushed
    BY <2>1 DEF FlushedInOrder
  <2>2. ASSUME NEW r \in DOMAIN run,
               flushed' = [flushed EXCEPT ![run[r].point] = TRUE]
        PROVE  FlushedInOrder'
    BY <1>0, <1>1, <2>2 DEF FlushedInOrder, RunsInOrder
  <2> QED
    BY <2>1, <2>2, FlushedStep
<1> QED
  BY <1>2, <1>3

(* MainActivity.java:563-566 and 793-794. Points are marked in the order   *)
(* of InMemPositionDescriptors, however many runs of the upload overlap.   *)
THEOREM FlushedOrder == Spec => []FlushedInOrder
<1> DEFINE Order == FlushedInOrder /\ RunsInOrder
<1>1. Init => Order
  BY DEF Init, FlushedInOrder, RunsInOrder
<1>2. TypedInv /\ Order /\ [Next]_vars => Order'
  BY OrderStep
<1> QED
  BY <1>1, <1>2, TypedInvariant, PTL DEF Spec
-----------------------------------------------------------------------------
(* A marked point had a chain that ran as a whole.                         *)

NeverCancelled == \A t \in Uploads : ~isCancelling[t] /\ ~isCancelled[t]

\* A chain is started with one action per fingerprint.
StartedWhole == \A r \in DOMAIN run : ChainOf(r) \in started => WholeChain(r)

\* A run that marked point p, and did not fault.
MarkedBy(r, p) ==
  /\ run[r].point = p /\ ChainOf(r) \in started
  /\ isCompleted[ChainOf(r)] /\ ~isFaulted[ChainOf(r)]

MarkedInv == \A p \in Points : flushed[p] /\ ~Misheard =>
               \E r \in DOMAIN run : MarkedBy(r, p)

LEMMA NeverCancelledStep ==
  ASSUME NeverCancelled, [Next]_vars
  PROVE  NeverCancelled'
<1> USE DEF Chain!flags
<1>1. UNCHANGED <<isCancelling, isCancelled>>
  <2>1. WorkerStep => UNCHANGED <<isCancelling, isCancelled>>
    BY DEF WorkerStep, FindReturns, CreateReturns, EraseReturns,
       DescribeReturns, RequestFails, TaskStep, Chain!Begin,
       Chain!ExecuteReturns, Chain!ExecuteThrows, Chain!FinishWithNext,
       Chain!FinishLast, Chain!FinishFaulted, Chain!FinishFaultedCompletes,
       Chain!StoreResult, Chain!Post
  <2>2. (\E r \in Runs : Listener(r)) => UNCHANGED <<isCancelling, isCancelled>>
    BY ListenerIsChainStep DEF Chain!ListenerReadsSecond
  <2> QED
    BY <2>1, <2>2 DEF Next, UIStep, ClickPersist, Persist, PersistEnds,
       PostSample, DeleteDescriptors, BuildChain, StartChain, CallBegins,
       Chain!Start, Chain!Launch, Chain!ContinueWith,
       Chain!ListenerReadsFirst, vars, task
<1> QED
  BY <1>1 DEF NeverCancelled

LEMMA StartedWholeStep ==
  ASSUME TypedInv, StartedWhole, [Next]_vars
  PROVE  StartedWhole'
<1>0. /\ given \in [Uploads -> Thm!Actions] /\ started \subseteq Uploads
  BY DEF TypedInv, Thm!IInv, Thm!TypeOK
<1>1. \A t \in started : given'[t] = given[t]
  <2>1. UNCHANGED given \/ BuildChain
    <3>1. (\E r \in Runs : Listener(r)) => UNCHANGED given
      BY ListenerIsChainStep DEF Chain!ListenerReadsSecond, Chain!built
    <3> QED
      BY <3>1 DEF Next, UIStep, WorkerStep, ClickPersist, Persist,
         PersistEnds, PostSample, DeleteDescriptors, StartChain, CallBegins,
         FindReturns, CreateReturns, EraseReturns, DescribeReturns,
         RequestFails, TaskStep, Chain!Begin, Chain!ExecuteReturns,
         Chain!ExecuteThrows, Chain!FinishWithNext, Chain!FinishLast,
         Chain!FinishFaulted, Chain!FinishFaultedCompletes,
         Chain!StoreResult, Chain!Post, Chain!Start, Chain!Launch,
         Chain!ListenerReadsFirst, Chain!built, vars, task
  <2>2. CASE BuildChain
    BY <1>0, <2>2 DEF BuildChain, Chain!ContinueWith
  <2> QED
    BY <2>1, <2>2
<1>2. ASSUME NEW r \in DOMAIN run', ChainOf(r) \in started'
      PROVE  given'[ChainOf(r)] = Devices[run'[r].point]
  <2>1. CASE ChainOf(r) \in started
    <3>1. r \in DOMAIN run
      BY <2>1 DEF TypedInv, TasksHaveRuns, ChainOf
    <3>2. run'[r].point = run[r].point
      BY <3>1, RunsEdited, AppendRun
    <3> QED
      BY <1>1, <2>1, <3>1, <3>2 DEF StartedWhole, WholeChain
  <2>2. CASE ChainOf(r) \notin started
    <3>1. /\ PostSample \/ DeleteDescriptors \/ StartChain
          /\ next.do = "create" => ChainOf(r) = <<next.run, "create">>
          /\ next.do = "erase" => ChainOf(r) = <<next.run, "erase">>
          /\ next.do = "describe" => ChainOf(r) = ChainOf(next.run)
      BY <1>2, <2>2, StartedStep DEF ChainOf
    <3>2. StartChain /\ r = next.run
      BY <3>1 DEF PostSample, DeleteDescriptors, StartChain, ChainOf
    <3> QED
      BY <3>2 DEF StartChain, WholeChain, Chain!Start
  <2> QED
    BY <2>1, <2>2
<1> QED
  BY <1>2 DEF StartedWhole, WholeChain, ChainOf

LEMMA MisheardStays ==
  ASSUME TypedInv, [Next]_vars, Misheard
  PROVE  Misheard'
<1>1. [Thm!Next]_(Thm!vars) /\ Thm!TypeOK
  BY CallerStep DEF TypedInv, Thm!IInv
<1>2. PICK t \in Uploads : \E i \in DOMAIN heard[t] :
        heard[t][i].completed /\ ~heard[t][i].faulted /\ isFaulted[t]
  BY DEF Misheard
<1>3. /\ isFaulted[t] => isFaulted'[t]
      /\ \A i \in DOMAIN heard[t] : i \in DOMAIN heard'[t]
                                    /\ heard'[t][i] = heard[t][i]
  BY <1>1, ThmAssumption, Thm!HeardGrows
<1> QED
  BY <1>2, <1>3 DEF Misheard

\* A call that marks a point and mishears nothing is one of a good chain.
LEMMA HeardUnfaulted ==
  ASSUME TypedInv, NEW r, Described(r), ~Misheard'
  PROVE  ~isFaulted[ChainOf(r)]
<1> DEFINE t == ChainOf(r)
           m == uiQueue[1]
           c == Chain!CallSeen(m.task, m.action)
<1>1. /\ Chain!ListenerReadsSecond /\ m.task = t /\ firstRead = FALSE
      /\ isCompleted[t]
  BY DEF Described, Call, ChainOf
<1>2. m \in Thm!Jobs /\ heard \in [Uploads -> Seq(Thm!Calls)]
      /\ isCompleted[t] \in BOOLEAN /\ t \in Uploads
  <2>1. uiAt = "listener" /\ started \subseteq Uploads
    BY <1>1, TypedFacts DEF Chain!ListenerReadsSecond
  <2>2. t \in Uploads /\ m \in Thm!Jobs
    BY <1>1, <2>1, CalledTask
  <2> QED
    BY <2>2 DEF TypedInv, Thm!IInv, Thm!TypeOK
<1>3. /\ c = [action |-> m.action, completed |-> isCompleted[t], faulted |-> FALSE]
      /\ c \in Thm!Calls
  BY <1>1, <1>2 DEF Chain!CallSeen, Chain!ReadsCompletedFirst, Thm!Calls,
                    Thm!Jobs
<1>4. heard'[t] = Append(heard[t], c) /\ heard[t] \in Seq(Thm!Calls)
  BY <1>1, <1>2 DEF Chain!ListenerReadsSecond
<1>5. \E i \in DOMAIN heard'[t] : heard'[t][i] = c
  BY <1>3, <1>4, Thm!AppendFacts, ThmAssumption
<1>6. UNCHANGED isFaulted
  BY <1>1 DEF Chain!ListenerReadsSecond, Chain!flags
<1> QED
  BY <1>1, <1>2, <1>3, <1>5, <1>6 DEF Misheard

LEMMA MarkedStep ==
  ASSUME TypedInv, MarkedInv, [Next]_vars
  PROVE  MarkedInv'
<1> SUFFICES ASSUME NEW p \in Points, flushed'[p], ~Misheard'
             PROVE  \E r \in DOMAIN run' : MarkedBy(r, p)'
  BY DEF MarkedInv
<1>0. /\ flushed \in [Points -> BOOLEAN] /\ started \subseteq Uploads
      /\ Thm!Final /\ started \subseteq started'
  <2>1. [Thm!Next]_(Thm!vars) /\ Thm!IInv
    BY CallerStep DEF TypedInv
  <2> QED
    BY <2>1, ThmAssumption, Thm!OutcomeStep, Thm!StartedGrows, TypedFacts
       DEF TypedInv, OwnTyped
<1>1. CASE flushed[p]
  <2>1. PICK r \in DOMAIN run : MarkedBy(r, p)
    BY <1>1, MisheardStays DEF MarkedInv
  <2>2. r \in DOMAIN run' /\ run'[r].point = run[r].point
    BY RunsEdited, AppendRun, TypedFacts
  <2>3. MarkedBy(r, p)'
    BY <1>0, <2>1, <2>2 DEF MarkedBy, Thm!Final, ChainOf
  <2> QED
    BY <2>2, <2>3
<1>2. CASE ~flushed[p]
  <2>1. PICK r \in DOMAIN run : Described(r) /\ p = run[r].point
    BY <1>0, <1>2, FlushedStep
  <2> DEFINE t == ChainOf(r)
  <2>2. /\ Chain!ListenerReadsSecond /\ uiQueue[1].task = t
        /\ isCompleted[t] /\ UNCHANGED run
    BY <2>1 DEF Described, Call, ChainOf
  <2>3. t \in started /\ t \in Uploads
    BY <1>0, <2>2, CalledTask DEF Chain!ListenerReadsSecond
  <2>4. ~isFaulted[t]
    BY <2>1, HeardUnfaulted
  <2>5. MarkedBy(r, p)'
    <3>1. r \in DOMAIN run' /\ run'[r].point = p
      BY <2>1, <2>2
    <3> QED
      BY <1>0, <2>2, <2>3, <2>4, <3>1 DEF MarkedBy, Thm!Final, ChainOf
  <2> QED
    BY <2>1, <2>2, <2>5
<1> QED
  BY <1>1, <1>2

MarksInv == NeverCancelled /\ StartedWhole /\ MarkedInv

LEMMA MarksInvariant == Spec => []MarksInv
<1>1. Init => MarksInv
  <2> SUFFICES ASSUME Init PROVE MarksInv
    OBVIOUS
  <2>1. NeverCancelled /\ StartedWhole
    BY DEF Init, Chain!Init, NeverCancelled, StartedWhole
  <2>2. MarkedInv
    BY DEF Init, MarkedInv
  <2> QED
    BY <2>1, <2>2 DEF MarksInv
<1>2. TypedInv /\ MarksInv /\ [Next]_vars => MarksInv'
  BY NeverCancelledStep, StartedWholeStep, MarkedStep DEF MarksInv
<1> QED
  BY <1>1, <1>2, TypedInvariant, PTL DEF Spec

LEMMA NothingLost == Spec => []Thm!NoActionLost
<1>1. Chain!Spec => Thm!Spec
  BY SameTask, PTL DEF Chain!Spec, Thm!Spec
<1> QED
  BY <1>1, ThmAssumption, UploadUsesTasks, Thm!NothingLost, PTL

(* MainActivity.java:700-703 and 776-778. The listener of a chain is       *)
(* called once per action and marks the point in any call that reads       *)
(* isCompleted; still a marked point had a chain of which every action     *)
(* ran and none failed, unless a call read isFaulted before the fault and  *)
(* isCompleted after it.                                                   *)
THEOREM MarkedByWholeChain == Spec => []FlushedByWholeChain
<1>1. ASSUME TypedInv, MarksInv, Thm!NoActionLost PROVE FlushedByWholeChain
  <2>1. ASSUME NEW p \in Points, NEW r \in DOMAIN run, MarkedBy(r, p)
        PROVE  Len(begun[ChainOf(r)]) = Devices[p]
    <3>1. ChainOf(r) \in Uploads
      BY <1>1, <2>1, TypedFacts DEF MarkedBy
    <3>2. Len(begun[ChainOf(r)]) = given[ChainOf(r)]
      BY <1>1, <2>1, <3>1 DEF MarkedBy, Thm!NoActionLost, MarksInv,
                              NeverCancelled
    <3>3. given[ChainOf(r)] = Devices[p]
      BY <1>1, <2>1 DEF MarkedBy, MarksInv, StartedWhole, WholeChain
    <3> QED
      BY <3>2, <3>3
  <2> QED
    BY <1>1, <2>1 DEF FlushedByWholeChain, MarksInv, MarkedInv, MarkedBy
<1> QED
  BY <1>1, TypedInvariant, MarksInvariant, NothingLost, PTL
-----------------------------------------------------------------------------
(* Nothing is lost without a word: as long as something is left to do      *)
(* after a click, something is queued, posted or kept in next.             *)

LEMMA WorkGoesOn ==
  ASSUME TypedInv, WorkerStep
  PROVE  Going'
<1>1. TypedInv => queue \in Seq(Thm!Jobs) /\ uiQueue \in Seq(Thm!Jobs)
                  /\ (at # "idle" => queue # <<>>)
  BY DEF TypedInv, Thm!IInv, Thm!TypeOK
<1>2. queue # <<>> /\ Thm!TypeOK /\ [Thm!Next]_(Thm!vars)
  <2>1. queue # <<>>
    BY <1>1 DEF WorkerStep, FindReturns, CreateReturns, EraseReturns,
       DescribeReturns, RequestFails, TaskStep, Chain!Begin,
       Chain!ExecuteReturns, Chain!ExecuteThrows, Chain!FinishWithNext,
       Chain!FinishLast, Chain!FinishFaulted, Chain!FinishFaultedCompletes,
       Chain!StoreResult, Chain!Post
  <2> QED
    BY <2>1, CallerStep DEF TypedInv, Thm!IInv, Next
<1>3. CASE UNCHANGED queue
  BY <1>2, <1>3 DEF Going
<1>4. ASSUME NEW j \in Thm!Jobs, queue' = Append(queue, j) PROVE Going'
  BY <1>1, <1>4, Thm!AppendFacts, ThmAssumption DEF Going
<1>5. CASE Thm!Post
  <2>1. uiQueue' = Append(uiQueue, Front) /\ Front \in Thm!Jobs
    BY <1>2, <1>5, Thm!PostFacts, ThmAssumption DEF Thm!Front, Front
  <2> QED
    BY <1>1, <2>1, Thm!AppendFacts, ThmAssumption DEF Going
<1> QED
  BY <1>2, <1>3, <1>4, <1>5, Thm!QueueStep, ThmAssumption

LEMMA StartGoesOn ==
  ASSUME TypedInv, NEW t \in Uploads, Chain!Start(t, TRUE)
  PROVE  Going'
<1>1. queue \in Seq(Thm!Jobs) /\ Chain!Job(t, 1) \in Thm!Jobs
  BY TypedFacts, SampleUploadAssumption DEF Chain!Job, Thm!Jobs, Thm!Actions
<1>2. queue' = Append(queue, Chain!Job(t, 1))
  BY DEF Chain!Start, Chain!Launch
<1> QED
  BY <1>1, <1>2, Thm!AppendFacts, ThmAssumption DEF Going

LEMMA LossStep ==
  ASSUME TypedInv, Thm!NoActionLost, NoSilentLoss, [Next]_vars
  PROVE  NoSilentLoss'
<1>0. flushed \in [Points -> BOOLEAN]
  BY DEF TypedInv, OwnTyped
<1>1. CASE WorkerStep
  BY <1>1, WorkGoesOn DEF NoSilentLoss
<1>2. CASE ClickPersist
  BY <1>2 DEF ClickPersist, NoSilentLoss, Do, Nothing
<1>3. CASE Persist
  <2>1. <<Len(run) + 1, "find">> \in Uploads
    BY <1>3, TypedFacts DEF Persist, Uploads, Runs, Steps
  <2> QED
    BY <1>3, <2>1, StartGoesOn DEF Persist, NoSilentLoss
<1>4. CASE PersistEnds
  BY <1>4 DEF PersistEnds, NoSilentLoss, Unflushed
<1>5. CASE PostSample \/ DeleteDescriptors \/ StartChain
  <2>1. next.run \in Runs
    BY <1>5, TypedFacts DEF PostSample, DeleteDescriptors, StartChain,
                            TypedInv, TasksHaveRuns
  <2>2. /\ <<next.run, "create">> \in Uploads /\ <<next.run, "erase">> \in Uploads
        /\ ChainOf(next.run) \in Uploads
    BY <2>1 DEF Uploads, Steps, ChainOf
  <2> QED
    BY <1>5, <2>2, StartGoesOn DEF PostSample, DeleteDescriptors, StartChain,
                                   NoSilentLoss
<1>6. CASE BuildChain
  <2>1. next.do = "describe" /\ next' = next
    BY <1>6 DEF BuildChain, own
  <2> QED
    BY <2>1 DEF NoSilentLoss, Nothing, Do
<1>7. CASE CallBegins
  BY <1>7 DEF CallBegins, NoSilentLoss, own, Going, Chain!ListenerReadsFirst
<1>8. ASSUME NEW r \in Runs, Listener(r) PROVE NoSilentLoss'
  <2>1. CASE FaultHeard(r) \/ NotParsed(r)
    BY <2>1 DEF FaultHeard, NotParsed, NoSilentLoss
  <2>2. CASE \/ FoundNone(r) \/ FoundOne(r) \/ SampleCreated(r)
             \/ DescriptorsDeleted(r) \/ Described(r)
    <3>1. \E what \in {"create", "erase", "describe", "persist"} : \E n :
            next' = Do(what, n)
      BY <2>2 DEF FoundNone, FoundOne, SampleCreated, DescriptorsDeleted,
                  Described
    <3>2. next' # Nothing
      BY <3>1 DEF Nothing, Do
    <3> QED
      BY <3>2 DEF NoSilentLoss, Nothing, Do
  <2>3. CASE FoundMore(r)
    <3>1. r \in DOMAIN run
      BY <2>3, CalledTask DEF FoundMore, Call, Chain!ListenerReadsSecond
    <3> QED
      BY <2>3, <3>1 DEF FoundMore, NoSilentLoss, Stalled, own
  <2>4. CASE DescribeGoesOn(r)
    <3>1. /\ Chain!ListenerReadsSecond /\ uiQueue[1].task = ChainOf(r)
          /\ ~isCompleted[ChainOf(r)]
      BY <2>4 DEF DescribeGoesOn, Call, ChainOf
    <3>2. ChainOf(r) \in started
      BY <3>1, CalledTask DEF Chain!ListenerReadsSecond
    <3>3. 1 \in DOMAIN queue
      BY <3>1, <3>2, TypedFacts, LenProperties DEF Thm!NoActionLost
    <3>4. queue # <<>>
      BY <3>3
    <3> QED
      BY <3>1, <3>4 DEF NoSilentLoss, Going, Chain!ListenerReadsSecond,
                        Chain!background
  <2> QED
    BY <1>8, <2>1, <2>2, <2>3, <2>4 DEF Listener
<1>9. CASE UNCHANGED vars
  BY <1>9 DEF vars, own, task, NoSilentLoss, Going, Unflushed, Stalled
<1> QED
  BY <1>1, <1>2, <1>3, <1>4, <1>5, <1>6, <1>7, <1>8, <1>9 DEF Next, UIStep

(* MainActivity.java:563-796. After a click there is always work left, or  *)
(* every point is flushed, or a failure was shown, or a GET found two      *)
(* samples: wherever a request fails or an answer makes no sense, the run  *)
(* does not end without a word.                                            *)
THEOREM NothingSilentlyLost == Spec => []NoSilentLoss
<1>1. Init => NoSilentLoss
  BY DEF Init, NoSilentLoss
<1>2. TypedInv /\ Thm!NoActionLost /\ NoSilentLoss /\ [Next]_vars => NoSilentLoss'
  BY LossStep
<1> QED
  BY <1>1, <1>2, TypedInvariant, NothingLost, PTL DEF Spec
=============================================================================
