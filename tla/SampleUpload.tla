---------------------------- MODULE SampleUpload ----------------------------
(***************************************************************************)
(* MainActivity's upload of sampling points to the web service: for each   *)
(* point that is not flushed, GET the samples stored at its coordinates,   *)
(* then either POST a new sample or DELETE the descriptors of the one that *)
(* exists, then POST one descriptor per fingerprint, and go on with the    *)
(* next point.                                                             *)
(*                                                                         *)
(* Every request runs as a Task, so this module composes TaskChain: each   *)
(* action below is one of its steps with what the listener or the request  *)
(* does besides.  One pass of the upload over one point is a run; it has   *)
(* up to three tasks, and only the last has more than one action.          *)
(*                                                                         *)
(* The web service is not part of the repository: server is what the       *)
(* requests make of it.  A request may fail after it took effect.          *)
(***************************************************************************)
EXTENDS Naturals, Sequences, FiniteSets

CONSTANTS Devices,     \* Devices[p]: number of fingerprints of point p
          MaxDevices,  \* bound: fingerprints of one point
          MaxRuns,     \* bound: runs of the upload
          Before       \* what the web service may hold at first

Points == DOMAIN Devices
Runs == 1..MaxRuns
Steps == {"find", "create", "erase", "describe"}
Uploads == Runs \X Steps

\* A descriptor, as its DetailUrl names it: who posted it (0: somebody
\* else, before), and for which device.
Descriptors == (0..MaxRuns) \X (1..MaxDevices)
Samples == [point : Points, descs : SUBSET Descriptors]

ASSUME SampleUploadAssumption ==
  /\ MaxDevices \in Nat \ {0} /\ MaxRuns \in Nat \ {0}
  /\ Devices \in Seq(1..MaxDevices)
  /\ Before \subseteq Seq(Samples)

VARIABLES
  given, continuation, started, listening, isCompleted, isFaulted,
  isCancelling, isCancelled, results, exceptions, queue, at, uiQueue, uiAt,
  firstRead, heard, begun, wait,  \* as in TaskChain
  flushed,   \* FlushedToWeb of each point
  progress,  \* persistLocalPositionsToWebProgress is showing
  told,      \* a failure dialog came up since the last click
  next,      \* what the message that the UI thread handles has still to do
  run,       \* the runs, in the order in which they began
  server,    \* the samples of the web service, in the order of creation
  overlap    \* history: a run began while another was going on

Chain == INSTANCE TaskChain
  WITH Tasks <- Uploads, MaxActions <- MaxDevices, Waiters <- {},
       Worker <- "worker", CompletedFirst <- FALSE

task == <<given, continuation, started, listening, isCompleted, isFaulted,
          isCancelling, isCancelled, results, exceptions, queue, at, uiQueue,
          uiAt, firstRead, heard, begun, wait>>
own == <<flushed, progress, told, next, run, server, overlap>>
vars == <<task, own>>

Do(what, r) == [do |-> what, run |-> r]
Nothing == Do("nothing", 0)
Going == uiQueue # <<>> \/ queue # <<>>

Init ==
  /\ Chain!Init
  /\ flushed = [p \in Points |-> FALSE]
  /\ progress = FALSE /\ told = FALSE
  /\ next = Nothing /\ run = <<>> /\ overlap = FALSE
  /\ server \in Before
-----------------------------------------------------------------------------
(* The UI thread: the click, and what a message does after its reads.      *)

Unflushed == {p \in Points : ~flushed[p]}

ClickPersist ==
  /\ uiAt = "idle" /\ next = Nothing /\ ~progress
  /\ Unflushed # {}
  /\ next' = Do("persist", 0) /\ told' = FALSE
  /\ UNCHANGED <<task, flushed, progress, run, server, overlap>>

\* Mutant: the loop does not break at the first point to be saved.
AnyUnflushed(p) == p \in Unflushed

FirstUnflushed(p) == p \in Unflushed /\ \A q \in Unflushed : p <= q

\* persistLocalPositionsToWebWithProgressShown up to the first request.
Persist ==
  /\ next.do = "persist" /\ Len(run) < MaxRuns
  /\ \E p \in Points :
       /\ FirstUnflushed(p)
       /\ run' = Append(run, [point |-> p, found |-> {}, known |-> {},
                              sample |-> 0])
  /\ Chain!Start(<<Len(run) + 1, "find">>, TRUE)
  /\ progress' = TRUE /\ next' = Nothing
  /\ overlap' = (overlap \/ Going)
  /\ UNCHANGED <<flushed, told, server>>

PersistEnds ==
  /\ next.do = "persist" /\ Unflushed = {}
  /\ next' = Nothing
  /\ UNCHANGED <<task, flushed, progress, told, run, server, overlap>>

PostSample ==
  /\ next.do = "create" /\ Chain!Start(<<next.run, "create">>, TRUE)
  /\ next' = Nothing
  /\ UNCHANGED <<flushed, progress, told, run, server, overlap>>

DeleteDescriptors ==
  /\ next.do = "erase" /\ Chain!Start(<<next.run, "erase">>, TRUE)
  /\ next' = Nothing
  /\ UNCHANGED <<flushed, progress, told, run, server, overlap>>

ChainOf(r) == <<r, "describe">>
WholeChain(r) == given[ChainOf(r)] = Devices[run[r].point]

\* Task.Create for the first fingerprint, continueWith for the others.
BuildChain ==
  /\ next.do = "describe" /\ ~WholeChain(next.run)
  /\ Chain!ContinueWith(ChainOf(next.run))
  /\ UNCHANGED own

StartChain ==
  /\ next.do = "describe" /\ WholeChain(next.run)
  /\ Chain!Start(ChainOf(next.run), TRUE)
  /\ next' = Nothing
  /\ UNCHANGED <<flushed, progress, told, run, server, overlap>>
-----------------------------------------------------------------------------
(* The UI thread: the listeners, which read isFaulted, then isCompleted.   *)

CallBegins ==
  /\ next = Nothing /\ Chain!ListenerReadsFirst
  /\ UNCHANGED own

\* The call in front is one of step s of run r, and saw a fault or none.
Call(r, s, sawFault) ==
  /\ Chain!ListenerReadsSecond
  /\ uiQueue[1].task = <<r, s>> /\ firstRead = sawFault

\* Mutant: a failed request leaves the progress dialog showing.
FaultHeardKeepsProgress(r) ==
  /\ \E s \in Steps : Call(r, s, TRUE)
  /\ told' = TRUE
  /\ UNCHANGED <<flushed, progress, next, run, server, overlap>>

\* Mutant: a failed request closes the progress dialog without a message.
FaultHeardSilently(r) ==
  /\ \E s \in Steps : Call(r, s, TRUE)
  /\ progress' = FALSE
  /\ UNCHANGED <<flushed, told, next, run, server, overlap>>

\* All five listeners answer a fault alike.
FaultHeard(r) ==
  /\ \E s \in Steps : Call(r, s, TRUE)
  /\ progress' = FALSE /\ told' = TRUE
  /\ UNCHANGED <<flushed, next, run, server, overlap>>

\* The answer to the GET or to the POST of a sample is no JSON.
NotParsed(r) ==
  /\ \E s \in {"find", "create"} : Call(r, s, FALSE)
  /\ progress' = FALSE /\ told' = TRUE
  /\ UNCHANGED <<flushed, next, run, server, overlap>>

\* Mutant: a sample that exists is created once more.
FoundAny(r) ==
  /\ Call(r, "find", FALSE)
  /\ next' = Do("create", r)
  /\ UNCHANGED <<flushed, progress, told, run, server, overlap>>

FoundNone(r) ==
  /\ Call(r, "find", FALSE) /\ run[r].found = {}
  /\ next' = Do("create", r)
  /\ UNCHANGED <<flushed, progress, told, run, server, overlap>>

\* Mutant: the descriptors that exist are not deleted first.
FoundOneKeepsDescriptors(r) ==
  /\ Call(r, "find", FALSE)
  /\ \E s \in run[r].found :
       /\ run[r].found = {s}
       /\ run' = [run EXCEPT ![r].sample = s]
  /\ next' = Do("describe", r)
  /\ UNCHANGED <<flushed, progress, told, server, overlap>>

FoundOne(r) ==
  /\ Call(r, "find", FALSE)
  /\ \E s \in run[r].found :
       /\ run[r].found = {s}
       /\ run' = [run EXCEPT ![r].sample = s]
  /\ next' = Do("erase", r)
  /\ UNCHANGED <<flushed, progress, told, server, overlap>>

\* Neither branch: the progress dialog stays and nothing follows.
FoundMore(r) ==
  /\ Call(r, "find", FALSE) /\ Cardinality(run[r].found) > 1
  /\ UNCHANGED own

\* The dialog is dismissed and shown anew.
SampleCreated(r) ==
  /\ Call(r, "create", FALSE)
  /\ progress' = TRUE /\ next' = Do("describe", r)
  /\ UNCHANGED <<flushed, told, run, server, overlap>>

DescriptorsDeleted(r) ==
  /\ Call(r, "erase", FALSE) /\ isCompleted[<<r, "erase">>]
  /\ next' = Do("describe", r)
  /\ UNCHANGED <<flushed, progress, told, run, server, overlap>>

\* Mutant: the completion of one action is taken for that of the task.
DescribedByOneCall(r) ==
  /\ Call(r, "describe", FALSE)
  /\ progress' = FALSE
  /\ flushed' = [flushed EXCEPT ![run[r].point] = TRUE]
  /\ next' = Do("persist", 0)
  /\ UNCHANGED <<told, run, server, overlap>>

\* Any call that finds the task completed, not only the last one.
Described(r) ==
  /\ Call(r, "describe", FALSE) /\ isCompleted[ChainOf(r)]
  /\ progress' = FALSE
  /\ flushed' = [flushed EXCEPT ![run[r].point] = TRUE]
  /\ next' = Do("persist", 0)
  /\ UNCHANGED <<told, run, server, overlap>>

\* Only the listener of a point that existed dismisses the dialog early.
DescribeGoesOn(r) ==
  /\ Call(r, "describe", FALSE) /\ ~isCompleted[ChainOf(r)]
  /\ progress' = (progress /\ run[r].found = {})
  /\ UNCHANGED <<flushed, told, next, run, server, overlap>>
-----------------------------------------------------------------------------
(* The background thread: the requests, and the rest of TaskChain's steps. *)

Front == queue[1]
FrontRun == Front.task[1]
Asks(s) == queue # <<>> /\ Front.task[2] = s

Created == Append(server, [point |-> run[FrontRun].point, descs |-> {}])
Erased(ids) == [server EXCEPT ![run[FrontRun].sample].descs = @ \ ids]
Extended == [server EXCEPT ![run[FrontRun].sample].descs =
               @ \cup {<<FrontRun, Front.action>>}]

\* The service is asked for a point's whole coordinates (MainActivity.java:
\* 582-583), which no two points are taken to share.
FindReturns ==
  /\ Asks("find") /\ Chain!ExecuteReturns
  /\ LET there == {s \in DOMAIN server :
                     server[s].point = run[FrontRun].point}
     IN run' = [run EXCEPT ![FrontRun].found = there,
                           ![FrontRun].known =
                             UNION {server[s].descs : s \in there}]
  /\ UNCHANGED <<flushed, progress, told, next, server, overlap>>

\* Mutant: the new sample is taken for the one after it.
CreateReturnsBeyond ==
  /\ Asks("create") /\ Chain!ExecuteReturns
  /\ server' = Created
  /\ run' = [run EXCEPT ![FrontRun].sample = Len(server) + 2]
  /\ UNCHANGED <<flushed, progress, told, next, overlap>>

CreateReturns ==
  /\ Asks("create") /\ Chain!ExecuteReturns
  /\ server' = Created
  /\ run' = [run EXCEPT ![FrontRun].sample = Len(server) + 1]
  /\ UNCHANGED <<flushed, progress, told, next, overlap>>

\* Deleting what is gone already is answered by 404, which throws.
EraseReturns ==
  /\ Asks("erase") /\ Chain!ExecuteReturns
  /\ run[FrontRun].known \subseteq server[run[FrontRun].sample].descs
  /\ server' = Erased(run[FrontRun].known)
  /\ UNCHANGED <<flushed, progress, told, next, run, overlap>>

DescribeReturns ==
  /\ Asks("describe") /\ Chain!ExecuteReturns
  /\ server' = Extended
  /\ UNCHANGED <<flushed, progress, told, next, run, overlap>>

\* An error answer, or no answer in time: the request was served or not,
\* and the DELETEs of a BulkRestClient up to any of them.
RequestFails ==
  /\ Chain!ExecuteThrows
  /\ \/ UNCHANGED server
     \/ Asks("create") /\ server' = Created
     \/ Asks("erase") /\ \E ids \in SUBSET run[FrontRun].known :
                           server' = Erased(ids)
     \/ Asks("describe") /\ server' = Extended
  /\ UNCHANGED <<flushed, progress, told, next, run, overlap>>

\* Nobody cancels these tasks: FinishCancelled has no part here.
TaskStep ==
  /\ \/ Chain!Begin
     \/ Chain!FinishWithNext \/ Chain!FinishLast
     \/ Chain!FinishFaulted \/ Chain!FinishFaultedCompletes
     \/ Chain!StoreResult \/ Chain!Post
  /\ UNCHANGED own
-----------------------------------------------------------------------------
Listener(r) ==
  \/ FaultHeard(r) \/ NotParsed(r)
  \/ FoundNone(r) \/ FoundOne(r) \/ FoundMore(r)
  \/ SampleCreated(r) \/ DescriptorsDeleted(r)
  \/ Described(r) \/ DescribeGoesOn(r)

UIStep ==
  \/ Persist \/ PersistEnds \/ PostSample \/ DeleteDescriptors
  \/ BuildChain \/ StartChain
  \/ CallBegins \/ \E r \in Runs : Listener(r)

WorkerStep ==
  \/ FindReturns \/ CreateReturns \/ EraseReturns \/ DescribeReturns
  \/ RequestFails \/ TaskStep

Next == ClickPersist \/ UIStep \/ WorkerStep

(* The looper and the executor never stop and every request has timeouts;  *)
(* the user may never click.                                               *)
Fairness == WF_vars(UIStep) /\ WF_vars(WorkerStep)

Spec == Init /\ [][Next]_vars
FairSpec == Spec /\ Fairness
-----------------------------------------------------------------------------
TypeOK ==
  /\ Chain!TypeOK
  /\ flushed \in [Points -> BOOLEAN]
  /\ progress \in BOOLEAN /\ told \in BOOLEAN /\ overlap \in BOOLEAN
  /\ next \in [do : {"nothing", "persist", "create", "erase", "describe"},
               run : 0..Len(run)]
  /\ run \in Seq([point : Points, found : SUBSET DOMAIN server,
                  known : SUBSET Descriptors, sample : 0..Len(server)])
  /\ Len(run) <= MaxRuns
  /\ server \in Seq(Samples)

SamplesAt(p) == {s \in DOMAIN server : server[s].point = p}

\* One descriptor of each device and no other.
Exact(s) ==
  /\ Cardinality(server[s].descs) = Devices[server[s].point]
  /\ {d[2] : d \in server[s].descs} = 1..Devices[server[s].point]

\* A listener read isFaulted, the task faulted, it read isCompleted.
Misheard ==
  \E t \in Uploads : \E i \in DOMAIN heard[t] :
    heard[t][i].completed /\ ~heard[t][i].faulted /\ isFaulted[t]

Stalled == \E r \in DOMAIN run : Cardinality(run[r].found) > 1

(* MainActivity.java:585-796. Whatever requests failed, half done or with  *)
(* their answer lost, and however often the user tried again: a point that *)
(* is marked FlushedToWeb is stored as one sample with one descriptor per  *)
(* fingerprint, unless two runs overlapped or a call misheard a fault.     *)
FlushedIsExact ==
  \A p \in Points : flushed[p] /\ ~overlap /\ ~Misheard =>
    \E s \in DOMAIN server : SamplesAt(p) = {s} /\ Exact(s)

(* MainActivity.java:617-712. A sample is created for a point that has     *)
(* none, also after a POST that failed although it was served: only        *)
(* overlapping runs create a second one.                                   *)
NoDuplicateSample ==
  [][\A p \in Points :
       ~overlap /\ SamplesAt(p)' # SamplesAt(p) => SamplesAt(p) = {}]_vars

(* MainActivity.java:563-566 and 793-794. The points are flushed in their  *)
(* order in InMemPositionDescriptors, also by overlapping runs.            *)
FlushedInOrder ==
  \A p, q \in Points : p < q /\ flushed[q] => flushed[p]

(* MainActivity.java:700-703 and 776-778. A point is marked only for a     *)
(* chain that ran all its actions, one per fingerprint, although each      *)
(* action has a call of its own; a misheard fault is the only exception.   *)
FlushedByWholeChain ==
  \A p \in Points : flushed[p] /\ ~Misheard =>
    \E r \in DOMAIN run :
      /\ run[r].point = p
      /\ Len(begun[ChainOf(r)]) = Devices[p]
      /\ isCompleted[ChainOf(r)] /\ ~isFaulted[ChainOf(r)]

(* MainActivity.java:563-796. Nothing fails silently: when nothing is left *)
(* to happen after a click, all points are flushed or a failure was shown, *)
(* except that a GET that found two samples ends its run without a word.   *)
NoSilentLoss ==
  run # <<>> /\ ~Going /\ next = Nothing => Unflushed = {} \/ told \/ Stalled

(* MainActivity.java:579-720. The progress dialog, which the user cannot   *)
(* close, goes away, unless a GET found two samples for a point.           *)
ProgressGoesAway == []<>(~progress \/ Stalled)
-----------------------------------------------------------------------------
(* MainActivity.java:702, "here indicate the sample and its                *)
(* SampleDescriptor had been all uploaded to Web": a point marked          *)
(* FlushedToWeb has a sample with a descriptor of every device.            *)
FlushedMeansUploaded ==
  \A p \in Points : flushed[p] =>
    \E s \in SamplesAt(p) : {d[2] : d \in server[s].descs} = 1..Devices[p]
=============================================================================
