------------------------------ MODULE TaskChain ------------------------------
(***************************************************************************)
(* com.SmartParking.Task.Task: a chain of actions run one after another on *)
(* the background thread of AsyncTask, with a listener called on the UI    *)
(* thread once per action, and threads that block until a task completes.  *)
(*                                                                         *)
(* Three kinds of thread take steps here:                                  *)
(*   - the UI thread builds tasks, starts them, cancels them and runs the  *)
(*     listener calls that the background thread posted;                   *)
(*   - the background thread, AsyncTask.SERIAL_EXECUTOR, runs the actions  *)
(*     of all tasks in the order they were handed over, one at a time;     *)
(*   - Waiters are threads inside waitUntil or waitAll; the background     *)
(*     thread is one of them while an action it runs is inside waitUntil.  *)
(* The fields of a Task are read and written by all of them without a lock.*)
(***************************************************************************)
EXTENDS Naturals, Sequences

CONSTANTS Tasks,          \* the Task objects
          MaxActions,     \* bound: actions given to one task
          Waiters,        \* threads that call waitUntil or waitAll
          Worker,         \* the background thread, which may be a waiter
          CompletedFirst  \* the listener reads isCompleted before isFaulted

ASSUME TaskChainAssumption ==
  /\ MaxActions \in Nat \ {0}
  /\ CompletedFirst \in BOOLEAN

VARIABLES
  given,          \* number of actions given to Create and continueWith
  continuation,   \* continuationActions, actions numbered in the order given
  started,        \* tasks whose Start was called
  listening,      \* tasks started with a listener
  isCompleted, isFaulted, isCancelling, isCancelled,
  results,        \* the actions whose result was put into results, in order
  exceptions,     \* the actions recorded in aggregatedException
  queue,          \* jobs of the serial executor, the running one in front
  at,             \* where the background thread is in the job in front
  uiQueue,        \* onPostExecute messages, the one being handled in front
  uiAt,           \* where the UI thread is in the listener call in front
  firstRead,      \* the flag that the listener call read first
  heard,          \* history: what each listener call read, per task
  begun,          \* history: the actions that began to execute, per task
  wait            \* the one wait of each waiting thread

flags == <<isCompleted, isFaulted, isCancelling, isCancelled>>
built == <<given, continuation, started, listening>>
stored == <<results, exceptions>>
background == <<queue, at, begun>>
ui == <<uiQueue, uiAt, firstRead, heard>>
vars == <<built, flags, stored, background, ui, wait>>

Actions == 1..MaxActions
Jobs == [task : Tasks, action : Actions]
Job(t, a) == [task |-> t, action |-> a]
Calls == [action : Actions, completed : BOOLEAN, faulted : BOOLEAN]

\* Where another thread can come between two shared accesses of
\* doInBackground and onActionFinished.
WorkerPlaces == {"idle", "execute", "returned", "threw", "faulted",
                 "store", "post"}
UIPlaces == {"idle", "listener"}

Waits == [phase : {"none", "starting", "polling", "true", "false"},
          todo : SUBSET Tasks, on : SUBSET Tasks, slept : BOOLEAN]
NoWait == [phase |-> "none", todo |-> {}, on |-> {}, slept |-> FALSE]

Front == queue[1]
-----------------------------------------------------------------------------
(* Task.Create for every task: one action, nothing started. *)
Init ==
  /\ given = [t \in Tasks |-> 1]
  /\ continuation = [t \in Tasks |-> <<>>]
  /\ started = {} /\ listening = {}
  /\ isCompleted = [t \in Tasks |-> FALSE]
  /\ isFaulted = [t \in Tasks |-> FALSE]
  /\ isCancelling = [t \in Tasks |-> FALSE]
  /\ isCancelled = [t \in Tasks |-> FALSE]
  /\ results = [t \in Tasks |-> <<>>]
  /\ exceptions = [t \in Tasks |-> {}]
  /\ queue = <<>> /\ at = "idle"
  /\ uiQueue = <<>> /\ uiAt = "idle" /\ firstRead = FALSE
  /\ heard = [t \in Tasks |-> <<>>]
  /\ begun = [t \in Tasks |-> <<>>]
  /\ wait = [w \in Waiters |-> NoWait]

Claimed(t) == \E w \in Waiters : t \in wait[w].todo
-----------------------------------------------------------------------------
(* The UI thread, between two messages of its looper. No caller starts a   *)
(* task twice, or gives actions to one that was started.                   *)

ContinueWith(t) ==
  /\ uiAt = "idle" /\ t \notin started
  /\ given[t] < MaxActions
  /\ given' = [given EXCEPT ![t] = @ + 1]
  /\ continuation' = [continuation EXCEPT ![t] = Append(@, given[t] + 1)]
  /\ UNCHANGED <<started, listening, flags, stored, background, ui, wait>>

\* Mutant: the first action is handed over with the wrong index.
LaunchFromZero(t) ==
  /\ started' = started \cup {t}
  /\ isCompleted' = [isCompleted EXCEPT ![t] = FALSE]
  /\ queue' = Append(queue, Job(t, 0))

\* What Start does whoever calls it: reset the flag, hand over action 1.
Launch(t) ==
  /\ started' = started \cup {t}
  /\ isCompleted' = [isCompleted EXCEPT ![t] = FALSE]
  /\ queue' = Append(queue, Job(t, 1))

Start(t, withListener) ==
  /\ uiAt = "idle" /\ t \notin started /\ ~Claimed(t)
  /\ Launch(t)
  /\ listening' = IF withListener THEN listening \cup {t} ELSE listening
  /\ UNCHANGED <<given, continuation, isFaulted, isCancelling, isCancelled,
                 stored, at, begun, ui, wait>>

\* Mutant: cancel settles the task at once, also one that has ended.
CancelAtOnce(t) ==
  /\ uiAt = "idle"
  /\ isCancelling' = [isCancelling EXCEPT ![t] = TRUE]
  /\ isCancelled' = [isCancelled EXCEPT ![t] = TRUE]
  /\ UNCHANGED <<built, isCompleted, isFaulted, stored, background, ui, wait>>

Cancel(t) ==
  /\ uiAt = "idle"
  /\ isCancelling' = [isCancelling EXCEPT ![t] = TRUE]
  /\ UNCHANGED <<built, isCompleted, isFaulted, isCancelled, stored,
                 background, ui, wait>>

\* onPostExecute goes over the listeners: none, or the one given to Start.
DropMessage ==
  /\ uiAt = "idle" /\ uiQueue # <<>>
  /\ uiQueue[1].task \notin listening
  /\ uiQueue' = Tail(uiQueue)
  /\ UNCHANGED <<built, flags, stored, background, uiAt, firstRead, heard,
                 wait>>

\* Mutant: the two reads of the listener swapped.
ReadsFaultedFirst == ~CompletedFirst

\* The listener reads one flag of the task, and later the other one.
ReadsCompletedFirst == CompletedFirst

ListenerReadsFirst ==
  /\ uiAt = "idle" /\ uiQueue # <<>>
  /\ uiQueue[1].task \in listening
  /\ uiAt' = "listener"
  /\ firstRead' = LET t == uiQueue[1].task
                  IN IF ReadsCompletedFirst THEN isCompleted[t]
                                         ELSE isFaulted[t]
  /\ UNCHANGED <<built, flags, stored, background, uiQueue, heard, wait>>

CallSeen(t, a) ==
  [action |-> a,
   completed |-> IF ReadsCompletedFirst THEN firstRead ELSE isCompleted[t],
   faulted |-> IF ReadsCompletedFirst THEN isFaulted[t] ELSE firstRead]

ListenerReadsSecond ==
  /\ uiAt = "listener"
  /\ LET m == uiQueue[1]
     IN heard' = [heard EXCEPT ![m.task] =
                    Append(@, CallSeen(m.task, m.action))]
  /\ uiAt' = "idle" /\ firstRead' = FALSE
  /\ uiQueue' = Tail(uiQueue)
  /\ UNCHANGED <<built, flags, stored, background, wait>>
-----------------------------------------------------------------------------
(* The background thread: SerialExecutor, doInBackground, onActionFinished.*)

Begin ==
  /\ at = "idle" /\ queue # <<>>
  /\ at' = "execute"
  /\ begun' = [begun EXCEPT ![Front.task] = Append(@, Front.action)]
  /\ UNCHANGED <<built, flags, stored, queue, ui, wait>>

\* Mutant: waiting does not occupy the thread that waits.
NeverBlocked == FALSE

Blocked == Worker \in Waiters /\ wait[Worker].phase \in {"starting", "polling"}

\* The call of onActionFinished that follows stands in the same try block; it
\* does not throw itself, since no action is without a state object and the
\* executor's queue has no limit.
ExecuteReturns ==
  /\ at = "execute" /\ ~Blocked
  /\ at' = "returned"
  /\ UNCHANGED <<built, flags, stored, queue, begun, ui, wait>>

ExecuteThrows ==
  /\ at = "execute" /\ ~Blocked
  /\ exceptions' = [exceptions EXCEPT ![Front.task] = @ \cup {Front.action}]
  /\ at' = "threw"
  /\ UNCHANGED <<built, flags, results, queue, begun, ui, wait>>

\* Mutant: a cancelled task hands over its next action all the same.
FinishCancelledContinues ==
  /\ at \in {"returned", "threw"} /\ isCancelling[Front.task]
  /\ isCancelled' = [isCancelled EXCEPT ![Front.task] = TRUE]
  /\ isCompleted' = [isCompleted EXCEPT ![Front.task] = TRUE]
  /\ LET t == Front.task
     IN IF continuation[t] = <<>>
        THEN UNCHANGED <<continuation, queue>>
        ELSE /\ continuation' = [continuation EXCEPT ![t] = Tail(@)]
             /\ queue' = Append(queue, Job(t, continuation[t][1]))
  /\ at' = "store"
  /\ UNCHANGED <<given, started, listening, isFaulted, isCancelling, stored,
                 begun, ui, wait>>

\* onActionFinished reads isCancelling before it looks at the outcome.
FinishCancelled ==
  /\ at \in {"returned", "threw"} /\ isCancelling[Front.task]
  /\ isCancelled' = [isCancelled EXCEPT ![Front.task] = TRUE]
  /\ isCompleted' = [isCompleted EXCEPT ![Front.task] = TRUE]
  /\ at' = "store"
  /\ UNCHANGED <<built, isFaulted, isCancelling, stored, queue, begun, ui,
                 wait>>

\* Mutant: the action handed over stays in continuationActions.
FinishKeepsNext ==
  /\ at = "returned" /\ ~isCancelling[Front.task]
  /\ LET t == Front.task
     IN /\ continuation[t] # <<>>
        /\ queue' = Append(queue, Job(t, continuation[t][1]))
  /\ at' = "store"
  /\ UNCHANGED <<built, flags, stored, begun, ui, wait>>

\* Mutant: the action taken from continuationActions is not handed over.
FinishDropsNext ==
  /\ at = "returned" /\ ~isCancelling[Front.task]
  /\ LET t == Front.task
     IN /\ continuation[t] # <<>>
        /\ continuation' = [continuation EXCEPT ![t] = Tail(@)]
  /\ at' = "store"
  /\ UNCHANGED <<given, started, listening, flags, stored, queue, begun, ui,
                 wait>>

FinishWithNext ==
  /\ at = "returned" /\ ~isCancelling[Front.task]
  /\ LET t == Front.task
     IN /\ continuation[t] # <<>>
        /\ continuation' = [continuation EXCEPT ![t] = Tail(@)]
        /\ queue' = Append(queue, Job(t, continuation[t][1]))
  /\ at' = "store"
  /\ UNCHANGED <<given, started, listening, flags, stored, begun, ui, wait>>

FinishLast ==
  /\ at = "returned" /\ ~isCancelling[Front.task]
  /\ continuation[Front.task] = <<>>
  /\ isCompleted' = [isCompleted EXCEPT ![Front.task] = TRUE]
  /\ at' = "store"
  /\ UNCHANGED <<built, isFaulted, isCancelling, isCancelled, stored, queue,
                 begun, ui, wait>>

FinishFaulted ==
  /\ at = "threw" /\ ~isCancelling[Front.task]
  /\ isFaulted' = [isFaulted EXCEPT ![Front.task] = TRUE]
  /\ at' = "faulted"
  /\ UNCHANGED <<built, isCompleted, isCancelling, isCancelled, stored, queue,
                 begun, ui, wait>>

\* Mutant: a fault leaves isCompleted alone.
FinishFaultedOnly ==
  /\ at = "faulted"
  /\ at' = "store"
  /\ UNCHANGED <<built, flags, stored, queue, begun, ui, wait>>

FinishFaultedCompletes ==
  /\ at = "faulted"
  /\ isCompleted' = [isCompleted EXCEPT ![Front.task] = TRUE]
  /\ at' = "store"
  /\ UNCHANGED <<built, isFaulted, isCancelling, isCancelled, stored, queue,
                 begun, ui, wait>>

\* Mutant: an action that threw leaves no entry in results.
StoreResultUnlessFaulted ==
  /\ at = "store"
  /\ results' = IF Front.action \in exceptions[Front.task]
                THEN results
                ELSE [results EXCEPT ![Front.task] = Append(@, Front.action)]
  /\ at' = "post"
  /\ UNCHANGED <<built, flags, exceptions, queue, begun, ui, wait>>

\* results is filled after the flags were set, a faulted action included.
StoreResult ==
  /\ at = "store"
  /\ results' = [results EXCEPT ![Front.task] = Append(@, Front.action)]
  /\ at' = "post"
  /\ UNCHANGED <<built, flags, exceptions, queue, begun, ui, wait>>

\* Mutant: a cancelled task does not call its listeners.
PostUnlessCancelled ==
  /\ at = "post"
  /\ uiQueue' = IF isCancelled[Front.task] THEN uiQueue
                                           ELSE Append(uiQueue, Front)
  /\ queue' = Tail(queue)
  /\ at' = "idle"
  /\ UNCHANGED <<built, flags, stored, begun, uiAt, firstRead, heard, wait>>

Post ==
  /\ at = "post"
  /\ uiQueue' = Append(uiQueue, Front)
  /\ queue' = Tail(queue)
  /\ at' = "idle"
  /\ UNCHANGED <<built, flags, stored, begun, uiAt, firstRead, heard, wait>>
-----------------------------------------------------------------------------
(* Threads inside waitUntil and waitAll. Bound: each waits once. *)

MayWait(w) ==
  /\ wait[w].phase = "none"
  /\ w = Worker => at = "execute"

WaitUntil(w, t) ==
  /\ MayWait(w)
  /\ wait' = [wait EXCEPT ![w] = [NoWait EXCEPT !.phase = "polling",
                                                !.on = {t}]]
  /\ UNCHANGED <<built, flags, stored, background, ui>>

WaitAll(w, ts) ==
  /\ MayWait(w)
  /\ ts \cap started = {} /\ \A t \in ts : ~Claimed(t)
  /\ wait' = [wait EXCEPT ![w] = [NoWait EXCEPT !.phase = "starting",
                                                !.todo = ts, !.on = ts]]
  /\ UNCHANGED <<built, flags, stored, background, ui>>

WaitAllStarts(w, t) ==
  /\ wait[w].phase = "starting" /\ t \in wait[w].todo
  /\ Launch(t)
  /\ wait' = [wait EXCEPT ![w].todo = @ \ {t},
                          ![w].phase = IF wait[w].todo = {t} THEN "polling"
                                                             ELSE "starting"]
  /\ UNCHANGED <<given, continuation, listening, isFaulted, isCancelling,
                 isCancelled, stored, at, begun, ui>>

PollReturnsTrue(w) ==
  /\ wait[w].phase = "polling"
  /\ \A t \in wait[w].on : isCompleted[t]
  /\ wait' = [wait EXCEPT ![w].phase = "true"]
  /\ UNCHANGED <<built, flags, stored, background, ui>>

PollSleeps(w) ==
  /\ wait[w].phase = "polling" /\ ~wait[w].slept
  /\ \E t \in wait[w].on : ~isCompleted[t]
  /\ wait' = [wait EXCEPT ![w].slept = TRUE]
  /\ UNCHANGED <<built, flags, stored, background, ui>>

\* Mutant: the timeout is looked at only once the tasks have completed.
PollTimesOutLate(w) ==
  /\ wait[w].phase = "polling" /\ wait[w].slept
  /\ \A t \in wait[w].on : isCompleted[t]
  /\ wait' = [wait EXCEPT ![w].phase = "false"]
  /\ UNCHANGED <<built, flags, stored, background, ui>>

\* The timeout is looked at after a sleep, whatever happened meanwhile.
PollTimesOut(w) ==
  /\ wait[w].phase = "polling" /\ wait[w].slept
  /\ wait' = [wait EXCEPT ![w].phase = "false"]
  /\ UNCHANGED <<built, flags, stored, background, ui>>
-----------------------------------------------------------------------------
UIStep ==
  \/ DropMessage \/ ListenerReadsFirst \/ ListenerReadsSecond

UserStep ==
  \E t \in Tasks :
    \/ ContinueWith(t)
    \/ \E l \in BOOLEAN : Start(t, l)
    \/ Cancel(t)

WorkerStep ==
  \/ Begin \/ ExecuteReturns \/ ExecuteThrows
  \/ FinishCancelled \/ FinishWithNext \/ FinishLast
  \/ FinishFaulted \/ FinishFaultedCompletes
  \/ StoreResult \/ Post

PollStep(w) ==
  \/ \E t \in Tasks : WaitAllStarts(w, t)
  \/ PollReturnsTrue(w) \/ PollSleeps(w) \/ PollTimesOut(w)

WaitStep(w) ==
  \/ \E t \in Tasks : WaitUntil(w, t)
  \/ \E ts \in SUBSET Tasks \ {{}} : WaitAll(w, ts)
  \/ PollStep(w)

Next == UIStep \/ UserStep \/ WorkerStep \/ \E w \in Waiters : WaitStep(w)

(* The looper and the executor never stop, an action returns or throws     *)
(* (every connection has a timeout) and a sleeping thread wakes up.        *)
Fairness ==
  /\ WF_vars(UIStep)
  /\ WF_vars(WorkerStep)
  /\ \A w \in Waiters : WF_vars(PollStep(w))

Spec == Init /\ [][Next]_vars
FairSpec == Spec /\ Fairness
-----------------------------------------------------------------------------
TypeOK ==
  /\ given \in [Tasks -> Actions]
  /\ continuation \in [Tasks -> Seq(Actions)]
  /\ started \in SUBSET Tasks /\ listening \in SUBSET started
  /\ isCompleted \in [Tasks -> BOOLEAN] /\ isFaulted \in [Tasks -> BOOLEAN]
  /\ isCancelling \in [Tasks -> BOOLEAN] /\ isCancelled \in [Tasks -> BOOLEAN]
  /\ results \in [Tasks -> Seq(Actions)]
  /\ exceptions \in [Tasks -> SUBSET Actions]
  /\ queue \in Seq(Jobs) /\ at \in WorkerPlaces
  /\ at # "idle" => queue # <<>>
  /\ uiQueue \in Seq(Jobs) /\ uiAt \in UIPlaces
  /\ uiAt = "listener" => uiQueue # <<>>
  /\ firstRead \in BOOLEAN
  /\ heard \in [Tasks -> Seq(Calls)]
  /\ begun \in [Tasks -> Seq(Actions)]
  /\ wait \in [Waiters -> Waits]

\* queue[i] is a job that has not been handled up to its flags yet.
Unsettled(i) ==
  /\ i \in DOMAIN queue
  /\ i = 1 => at \notin {"store", "post"}

(* Task.java:91-104. The actions of a task run in the order in which they  *)
(* were given, none twice and none skipped, and an action that runs finds  *)
(* the results of all the earlier ones: results are stored after the next  *)
(* action was handed over, so this rests on the executor being serial.     *)
ChainInOrder ==
  /\ \A t \in Tasks :
       /\ \A i \in DOMAIN begun[t] : begun[t][i] = i
       /\ \A i \in DOMAIN results[t] : results[t][i] = i
  /\ at = "execute" => Len(results[Front.task]) = Front.action - 1

(* Task.java:224-243. No action is lost: a task that was started and is    *)
(* not completed has a job in the executor, and one that completed with    *)
(* neither a fault nor a cancellation has begun every action it was given. *)
NoActionLost ==
  \A t \in started :
    /\ ~isCompleted[t] => \E i \in DOMAIN queue : Unsettled(i) /\ queue[i].task = t
    /\ isCompleted[t] /\ ~isFaulted[t] /\ ~isCancelled[t]
         => Len(begun[t]) = given[t]

(* Task.java:91-92, "any action in task exceptioned will cause all stopped *)
(* to executing": once isCompleted is set, by the last action, a fault or  *)
(* a cancellation, no action of the task runs or waits to run any more.    *)
SettledTaskIsQuiet ==
  \A t \in Tasks : \A i \in DOMAIN queue :
    isCompleted[t] /\ Unsettled(i) => queue[i].task # t

(* Task.java:94-104 and 280-285. A listener call for an action finds the   *)
(* entries of all actions up to that one, each at its position, although   *)
(* flags are set and the next action is handed over before results is      *)
(* written.  The entry of a later action it may miss, even of the last one *)
(* when it already reads isCompleted.                                      *)
ListenerFindsResult ==
  \A i \in DOMAIN uiQueue :
    LET m == uiQueue[i]
    IN \A k \in 1..m.action :
         k \in DOMAIN results[m.task] /\ results[m.task][k] = k

LastHeard(t) == heard[t][Len(heard[t])]

(* Task.java:280-285. When nothing of a started task is left in the        *)
(* executor or in the looper, its listener has been called at least once   *)
(* with isCompleted: no call site can miss the completion of its task.     *)
CompletionIsHeard ==
  \A t \in listening :
    \/ \E i \in DOMAIN queue : queue[i].task = t
    \/ \E i \in DOMAIN uiQueue : uiQueue[i].task = t
    \/ heard[t] # <<>> /\ LastHeard(t).completed

(* OverallMapActivity.java:256-258. A listener that looks at isCompleted   *)
(* first and at isFaulted later never takes a faulted task for a success,  *)
(* even if the background thread sets the flags between the two reads.     *)
FaultNotHeardAsSuccess ==
  \A t \in Tasks : \A i \in DOMAIN heard[t] :
    heard[t][i].completed /\ ~heard[t][i].faulted => ~isFaulted[t]

(* Task.java:192-217. waitUntil or waitAll called inside an action blocks  *)
(* the only background thread: unless the tasks had completed before, such *)
(* a wait can only time out.                                               *)
WaitInsideActionTimesOut ==
  Worker \in Waiters /\ wait[Worker].phase = "true" => ~wait[Worker].slept

\* How a task ended, as the flags tell once isCompleted is set.
Outcome(t) == IF ~isCompleted[t] THEN "none"
              ELSE IF isCancelled[t] THEN "cancelled"
              ELSE IF isFaulted[t] THEN "fault" ELSE "success"

\* The task of the action whose outcome is still to be told by the flags.
Executing == IF at \in {"execute", "returned", "threw", "faulted"}
             THEN {Front.task} ELSE {}

Promise == INSTANCE TaskPromise
             WITH asked <- isCancelling, executing <- Executing,
                  begun <- [t \in Tasks |-> Len(begun[t])],
                  outcome <- [t \in Tasks |-> Outcome(t)]

(* Task.java:85-149 and 219-243. With four flags that are set one by one,  *)
(* listeners, waits and an executor that tasks share, every step of a task *)
(* is one that the promise allows, or invisible in it: the outcome that    *)
(* the flags tell comes once, and not another one later.                   *)
ImplementsPromise == Promise!Spec

(* Task.java:91-104. Every task that is started ends, and one that has a   *)
(* listener tells it so, for good: the last call is one that saw the end.  *)
(* A task that was started stays so, hence no ~> is needed.                *)
StartedTaskSettles ==
  \A t \in Tasks :
    /\ []<>(t \in started => isCompleted[t])
    /\ []<>(t \in listening => heard[t] # <<>> /\ LastHeard(t).completed)

(* Task.java:193-217. waitUntil and waitAll always return: whoever waits   *)
(* is found out of the wait again.                                         *)
EveryWaitReturns ==
  \A w \in Waiters : []<>(wait[w].phase \notin {"starting", "polling"})
-----------------------------------------------------------------------------
(* Task.java:195, "True for finished successfully, otherwise timeout       *)
(* occured": a task that a wait returned true for did not fault.           *)
TrueWaitMeansSuccess ==
  \A w \in Waiters : wait[w].phase = "true" =>
    \A t \in wait[w].on : ~isFaulted[t]

(* Task.java:185, "cancel the task, the rest of actions will not be        *)
(* executed": when a task is cancelled after its first action began, none  *)
(* of its other actions begins any more.                                   *)
NoActionBeginsAfterCancel ==
  [][\A t \in Tasks :
       isCancelling[t] /\ begun[t] # <<>> => begun'[t] = begun[t]]_vars
=============================================================================
