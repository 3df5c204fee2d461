-------------------------- MODULE SamplingProofs --------------------------
(***************************************************************************)
(* Whatever activities there are and whatever their callbacks do, they use *)
(* the collector as ScanStream describes it, which BleCollector implements *)
(* (BleCollectorProofs). A collector that is on has a scan thread,         *)
(* starting throws only after a late onDestroy, and an advertisement       *)
(* counts in one sampling point.                                           *)
(***************************************************************************)
EXTENDS Sampling, SequenceTheorems, TLAPS

CallNames == {"turnOn", "add", "start", "stop", "remove", "release", "turnOff",
              "average"}
CallsOf == [do : CallNames, who : Activities]

(* Every call that is left is one of an activity, since those on the stack *)
(* are, and there is one when its user comes back.                         *)
TodoInv ==
  todo \in Seq(CallsOf) /\ stack \in Seq(Activities) /\ (away => stack # <<>>)

LEMMA CallsType ==
  ASSUME NEW a \in Activities, NEW names \in Seq(CallNames)
  PROVE  Calls(a, names) \in Seq(CallsOf)
<1>1. Len(names) \in Nat /\ names \in [1..Len(names) -> CallNames]
        /\ DOMAIN names = 1..Len(names)
  BY LenProperties
<1>2. Calls(a, names) \in [1..Len(names) -> CallsOf]
  BY <1>1 DEF Calls, CallsOf
<1> QED
  BY <1>1, <1>2, SeqDef

LEMMA CallbacksType ==
  ASSUME NEW a \in Activities
  PROVE  /\ OnCreate(a) \in Seq(CallsOf) /\ OnRestart(a) \in Seq(CallsOf)
         /\ OnPause(a) \in Seq(CallsOf) /\ OnStop(a) \in Seq(CallsOf)
         /\ OnDestroy(a) \in Seq(CallsOf)
<1>1. /\ <<>> \in Seq(CallNames) /\ <<"turnOn">> \in Seq(CallNames)
      /\ <<"stop">> \in Seq(CallNames) /\ <<"release">> \in Seq(CallNames)
      /\ <<"turnOff">> \in Seq(CallNames)
  BY DEF CallNames
<1>2. /\ <<"turnOn", "add">> \in Seq(CallNames)
      /\ <<"stop", "remove">> \in Seq(CallNames)
  BY DEF CallNames
<1>3. /\ <<"turnOn", "add", "start">> \in Seq(CallNames)
      /\ <<"add", "start", "turnOn">> \in Seq(CallNames)
  BY DEF CallNames
<1> QED
  BY <1>1, <1>2, <1>3, CallsType
     DEF OnCreate, OnRestart, OnPause, OnStop, OnDestroy

LEMMA LastType ==
  ASSUME NEW S, NEW q \in Seq(S), q # <<>>
  PROVE  /\ Last(q) \in S /\ Front(q) \in Seq(S) /\ Tail(q) \in Seq(S)
         /\ q[1] \in S
<1>1. Len(q) \in Nat /\ Len(q) >= 1 /\ q \in [1..Len(q) -> S]
  BY LenProperties, EmptySeq
<1>2. Last(q) \in S
  BY <1>1 DEF Last
<1>3. Front(q) \in Seq(S)
  BY <1>1, SubSeqProperties DEF Front
<1>4. Tail(q) \in Seq(S)
  BY HeadTailProperties
<1> QED
  BY <1>1, <1>2, <1>3, <1>4
-----------------------------------------------------------------------------
(* The calls that are left.                                                *)

LEMMA TodoUser ==
  ASSUME TodoInv, User
  PROVE  TodoInv'
<1> USE DEF TodoInv
<1>0. stack # <<>> => Top \in Activities /\ Front(stack) \in Seq(Activities)
  BY LastType DEF Top
<1>1. ASSUME NEW a \in Activities, Open(a)
      PROVE  TodoInv'
  <2>1. stack' \in Seq(Activities)
    BY <1>1, AppendProperties DEF Open, New
  <2>3. ~away'
    BY <1>1 DEF Open, New
  <2>2. todo' = OnCreate(a) \/ (stack # <<>> /\ todo' = OnPause(Top) \o OnCreate(a))
    BY <1>1 DEF Open, Moves
  <2> QED
    BY <1>0, <2>1, <2>2, <2>3, CallbacksType, ConcatProperties
<1>2. ASSUME NEW b \in Activities, Rotate(b)
      PROVE  TodoInv'
  <2>1. stack' = Append(Front(stack), b) /\ stack # <<>>
    BY <1>2 DEF Rotate
  <2>2. todo' = OnPause(Top) \o OnStop(Top) \o OnDestroy(Top) \o OnCreate(b)
    BY <1>2 DEF Rotate
  <2>3. todo' \in Seq(CallsOf)
    BY <1>0, <2>1, <2>2, CallbacksType, ConcatProperties
  <2> QED
    BY <1>0, <1>2, <2>1, <2>3, AppendProperties DEF Rotate, New
<1>3. CASE Back
  <2>1. stack # <<>> /\ stack' = Front(stack)
    BY <1>3 DEF Back
  <2>2. Front(stack) # <<>> => Last(Front(stack)) \in Activities
    BY <1>0, <2>1, LastType
  <2>3. <<>> \in Seq(CallsOf)
    OBVIOUS
  <2>4. \/ todo' = OnPause(Top)
        \/ /\ Front(stack) # <<>>
           /\ todo' \in {OnPause(Top) \o OnRestart(Last(Front(stack))),
                         OnPause(Top) \o <<>>}
    BY <1>3 DEF Back, Moves
  <2>5. OnPause(Top) \in Seq(CallsOf)
          /\ OnPause(Top) \o <<>> \in Seq(CallsOf)
    BY <1>0, <2>1, <2>3, CallbacksType, ConcatProperties
  <2>6. Front(stack) # <<>>
          => OnPause(Top) \o OnRestart(Last(Front(stack))) \in Seq(CallsOf)
    BY <2>2, <2>5, CallbacksType, ConcatProperties
  <2> QED
    BY <1>0, <1>3, <2>1, <2>4, <2>5, <2>6 DEF Back
<1>4. CASE Leave
  <2>1. stack # <<>> /\ stack' = stack /\ todo' = OnPause(Top)
    BY <1>4 DEF Leave, Moves
  <2> QED
    BY <1>0, <2>1, CallbacksType
<1>5. CASE Return
  <2>1. stack' = stack /\ stack # <<>> /\ away' = FALSE
    BY <1>5 DEF Return
  <2>2. todo' = OnRestart(Top) \/ todo' = <<>>
    BY <1>5 DEF Return, Moves
  <2> QED
    <3>1. <<>> \in Seq(CallsOf)
      OBVIOUS
    <3> QED
      BY <1>0, <2>1, <2>2, <3>1, CallbacksType
<1>6. ASSUME NEW m \in Mains, Touch(m)
      PROVE  TodoInv'
  <2>1. <<"start">> \in Seq(CallNames)
    BY DEF CallNames
  <2> QED
    BY <1>6, <2>1, CallsType DEF Touch, Activities, shown
<1> QED
  BY <1>1, <1>2, <1>3, <1>4, <1>5, <1>6 DEF User

\* Other steps leave the stack alone, and the calls but for the first.
LEMMA TodoOthers ==
  ASSUME TodoInv, Next, ~User
  PROVE  TodoInv'
<1> USE DEF TodoInv
<1>1. UNCHANGED <<stack, away>>
  BY DEF Next, System, UIStep, Fires, DialogFocused, Hide, Destroy, Skip,
         TurnOn, TurnOnRefused, AddListener, RemoveListener, StartSampling,
         StopSampling, TurnOff, Continues, StartSamplingThrows, ReleaseThrows,
         TurnOffThrows, AverageThrows, Throws, Average, RoundEnds,
         RoundEndsThrows, Hear, Take, Ends, Fire, FireEnds, FireThrows,
         ScannerThrows, own, shown
<1>2. CASE todo # <<>> /\ todo' = Tail(todo)
  BY <1>1, <1>2, LastType
<1>3. ASSUME NEW a \in Activities, Hide(a) \/ Destroy(a)
      PROVE  todo' \in Seq(CallsOf)
  BY <1>3, CallbacksType DEF Hide, Destroy
<1>4. ASSUME NEW m \in Mains, RoundEnds(m)
      PROVE  todo' \in Seq(CallsOf)
  <2>1. <<"stop", "average">> \in Seq(CallNames)
    BY DEF CallNames
  <2> QED
    BY <1>4, <2>1, CallsType DEF RoundEnds, Activities
<1>5. CASE TurnOnRefused
  <2>1. <<>> \in Seq(CallsOf)
    OBVIOUS
  <2> QED
    BY <1>1, <1>5, <2>1 DEF TurnOnRefused
<1>6. \/ todo # <<>> /\ todo' = Tail(todo)
      \/ UNCHANGED todo
      \/ TurnOnRefused
      \/ \E a \in Activities : Hide(a) \/ Destroy(a)
      \/ \E m \in Mains : RoundEnds(m)
  BY DEF Next, System, UIStep, Fires, DialogFocused, Skip, Calling, TurnOn,
         AddListener, RemoveListener, StartSampling, StopSampling, TurnOff,
         Continues, StartSamplingThrows, ReleaseThrows, TurnOffThrows,
         AverageThrows, Throws, Average, RoundEndsThrows, Hear, Take, Ends,
         Fire, FireEnds, FireThrows, ScannerThrows
<1> QED
  BY <1>1, <1>2, <1>3, <1>4, <1>5, <1>6
-----------------------------------------------------------------------------
(* The composition: a step of the activities is a step of the stream, or   *)
(* leaves it alone.                                                        *)

LEMMA CollectorStep ==
  ASSUME TodoInv, Next
  PROVE  Collector!Next \/ UNCHANGED collector
<1> USE DEF Next
<1>1. CASE User \/ System
  <2>1. ASSUME NEW c, NEW a, NEW b, Moves(c, a, b)
        PROVE  UNCHANGED collector
    BY <2>1 DEF Moves
  <2>2. UNCHANGED collector
    BY <1>1, <2>1 DEF User, Open, Back, Leave, Return, Rotate, Touch, System,
                      DialogFocused, Hide, Destroy
  <2> QED
    BY <2>2
<1>2. CASE \/ TurnOnRefused \/ StartSampling \/ StopSampling \/ TurnOff
           \/ Continues \/ StartSamplingThrows \/ ReleaseThrows
           \/ TurnOffThrows \/ Average \/ AverageThrows \/ TurnOn
  BY <1>2 DEF TurnOnRefused, StartSampling, StopSampling, TurnOff, Continues,
              StartSamplingThrows, ReleaseThrows, TurnOffThrows, AverageThrows,
              Average, TurnOn, Skip, Calling, Collector!Next, Collector!Call,
              Collector!CallThrows, Collector!StartSamplingThrows
<1>3. CASE AddListener \/ RemoveListener
  <2>1. CASE Skip("remove")
    BY <2>1 DEF Skip
  <2>2. CASE ~Skip("remove")
    <3>1. todo # <<>>
      BY <1>3, <2>2 DEF AddListener, RemoveListener, Calling
    <3>2. Who \in Activities
      <4>1. todo[1] \in CallsOf
        BY <3>1, LastType DEF TodoInv
      <4> QED
        BY <4>1 DEF Who, CallsOf
    <3> QED
      BY <1>3, <2>2, <3>2 DEF AddListener, RemoveListener, Collector!Next,
                              Collector!Call
  <2> QED
    BY <2>1, <2>2
<1>4. ASSUME NEW m \in Mains, RoundEnds(m) \/ RoundEndsThrows(m)
      PROVE  Collector!Next \/ UNCHANGED collector
  BY <1>4 DEF RoundEnds, RoundEndsThrows, Ready, Collector!Next,
              Collector!Call, Collector!CallThrows
<1>5. CASE Hear
  BY <1>5 DEF Hear, Collector!Next
<1>6. ASSUME NEW th \in Threads,
             Take(th) \/ Fires(th) \/ ScannerThrows(th) \/ Ends(th)
      PROVE  Collector!Next
  BY <1>6 DEF Take, Fires, Fire, FireEnds, FireThrows, ScannerThrows, Ends,
              Collector!Next, Collector!Fires
<1> QED
  BY <1>1, <1>2, <1>3, <1>4, <1>5, <1>6 DEF UIStep
-----------------------------------------------------------------------------
(* A collector that is on has a scan thread.                               *)

(* The stream of each thread is known by its place.                        *)
StreamsArePlaced ==
  DOMAIN stream = Threads /\ \A th \in Threads : "at" \in DOMAIN stream[th]

HasThread ==
  isStarted /\ ~refused => \E th \in Threads : stream[th].at # "none"

LEMMA PlacedStep ==
  ASSUME StreamsArePlaced, Collector!Next
  PROVE  /\ StreamsArePlaced'
         /\ \A th \in Threads : stream[th].at # "none" =>
              stream'[th].at # "none" \/ (~isStarted /\ UNCHANGED isStarted)
<1> USE DEF StreamsArePlaced
<1>1. ASSUME NEW ls, Collector!ChangeListeners(ls)
      PROVE  /\ StreamsArePlaced'
             /\ \A th \in Threads : stream'[th].at = stream[th].at
  BY <1>1 DEF Collector!ChangeListeners
<1>2. CASE UNCHANGED stream
  BY <1>2
<1>3. ASSUME NEW th \in Threads, Collector!TurnOn(th)
      PROVE  /\ StreamsArePlaced'
             /\ \A t \in Threads : stream'[t].at \in {stream[t].at, "runs"}
  BY <1>3 DEF Collector!TurnOn
<1>4. ASSUME NEW th \in Threads, Collector!FireNext(th)
      PROVE  /\ StreamsArePlaced'
             /\ \A t \in Threads : stream'[t].at = stream[t].at
  BY <1>4 DEF Collector!FireNext
<1>5. ASSUME NEW th \in Threads, Collector!Take(th)
      PROVE  /\ StreamsArePlaced'
             /\ \A t \in Threads : stream'[t].at \in {stream[t].at, "fires"}
  BY <1>5 DEF Collector!Take
<1>6. ASSUME NEW th \in Threads, Collector!FireEnds(th)
      PROVE  /\ StreamsArePlaced'
             /\ \A t \in Threads : stream'[t].at \in {stream[t].at, "runs"}
  BY <1>6 DEF Collector!FireEnds, Collector!NoThread
<1>7. ASSUME NEW th \in Threads, Collector!Ends(th)
      PROVE  StreamsArePlaced' /\ ~isStarted /\ UNCHANGED isStarted
  BY <1>7 DEF Collector!Ends, Collector!NoThread
<1>8. \/ \E ls : Collector!ChangeListeners(ls)
      \/ UNCHANGED stream
      \/ \E th \in Threads : \/ Collector!TurnOn(th) \/ Collector!FireNext(th)
                             \/ Collector!Take(th) \/ Collector!FireEnds(th)
                             \/ Collector!Ends(th)
  BY DEF Collector!Next, Collector!Call, Collector!UIContinues,
         Collector!AddListener, Collector!RemoveListener,
         Collector!TurnOffClears, Collector!TurnOnFails, Collector!TurnOff,
         Collector!StartSampling, Collector!StopSampling, Collector!CallThrows,
         Collector!Dies, Collector!TurnOffEnds, Collector!StartSamplingEnds,
         Collector!Hear, Collector!Fires, Collector!FireThrows,
         Collector!Breaks
<1> QED
  BY <1>1, <1>2, <1>3, <1>4, <1>5, <1>6, <1>7, <1>8

\* The collector is turned on together with a thread, or refused.
LEMMA TurnedOn ==
  ASSUME StreamsArePlaced, Next
  PROVE  \/ isStarted' => isStarted
         \/ refused'
         \/ \E th \in Threads : stream'[th].at # "none"
<1>1. ASSUME NEW th \in Threads, Collector!TurnOn(th)
      PROVE  stream'[th].at # "none"
  BY <1>1 DEF Collector!TurnOn, StreamsArePlaced
<1>2. CASE TurnOnRefused
  BY <1>2 DEF TurnOnRefused
<1>3. CASE ~TurnOnRefused /\ ~(\E th \in Threads : Collector!TurnOn(th))
  <2>1. isStarted' => isStarted
    BY <1>3
       DEF Next, User, System, UIStep, Fires, Open, Moves, Back, Leave, Return,
           Rotate, Touch, DialogFocused, Hide, Destroy, Skip, TurnOn,
           AddListener, RemoveListener, StartSampling, StopSampling, TurnOff,
           Continues, StartSamplingThrows, ReleaseThrows, TurnOffThrows,
           AverageThrows, Throws, Average, RoundEnds, RoundEndsThrows, Hear,
           Take, Ends, Fire, FireEnds, FireThrows, ScannerThrows, collector,
           Collector!ChangeListeners, Collector!AddListener,
           Collector!RemoveListener, Collector!UIContinues,
           Collector!TurnOffClears, Collector!TurnOff, Collector!StartSampling,
           Collector!StopSampling, Collector!Dies, Collector!CallThrows,
           Collector!StartSamplingThrows, Collector!TurnOffEnds,
           Collector!StartSamplingEnds, Collector!Hear, Collector!FireThrows,
           Collector!Breaks, Collector!FireNext, Collector!FireEnds,
           Collector!Take, Collector!Ends
  <2> QED
    BY <2>1
<1> QED
  BY <1>1, <1>2, <1>3

LEMMA RefusedStays ==
  ASSUME Next
  PROVE  refused => refused'
BY DEF Next, User, System, UIStep, Fires, Open, Moves, Back, Leave, Return,
       Rotate, Touch, DialogFocused, Hide, Destroy, Skip, TurnOn,
       TurnOnRefused, AddListener, RemoveListener, StartSampling, StopSampling,
       TurnOff, Continues, StartSamplingThrows, ReleaseThrows, TurnOffThrows,
       AverageThrows, Throws, Average, RoundEnds, RoundEndsThrows, Hear, Take,
       Ends, Fire, FireEnds, FireThrows, ScannerThrows, history

IInv == TodoInv /\ StreamsArePlaced /\ HasThread

LEMMA InitInv == Init => IInv
<1> SUFFICES ASSUME Init PROVE IInv
  OBVIOUS
<1>1. <<>> \in Seq(CallsOf) /\ <<>> \in Seq(Activities)
  OBVIOUS
<1>2. TodoInv
  BY <1>1 DEF Init, TodoInv
<1>3. StreamsArePlaced /\ HasThread
  BY DEF Init, Collector!Init, Collector!NoThread, StreamsArePlaced, HasThread
<1> QED
  BY <1>2, <1>3 DEF IInv

LEMMA StepInv ==
  ASSUME IInv, [Next]_vars
  PROVE  IInv'
<1> USE DEF IInv
<1>1. CASE UNCHANGED vars
  BY <1>1 DEF vars, collector, shown, history, TodoInv, StreamsArePlaced,
              HasThread
<1>2. CASE Next
  <2>1. TodoInv'
    BY <1>2, TodoUser, TodoOthers
  <2>2. CASE UNCHANGED collector
    BY <1>2, <2>1, <2>2, RefusedStays
       DEF collector, StreamsArePlaced, HasThread
  <2>3. CASE Collector!Next
    <3>1. StreamsArePlaced'
      BY <2>3, PlacedStep
    <3>2. HasThread'
      BY <1>2, <2>3, PlacedStep, TurnedOn, RefusedStays DEF HasThread
    <3> QED
      BY <2>1, <3>1, <3>2
  <2> QED
    BY <1>2, <2>2, <2>3, CollectorStep
<1> QED
  BY <1>1, <1>2

LEMMA Inductive == Spec => []IInv
BY InitInv, StepInv, PTL DEF Spec

(* BleFingerprintCollector.java:435-457. Whatever order the callbacks of   *)
(* any number of instances come in: a collector that claims to be started  *)
(* has a scan thread, unless a TurnOn found Bluetooth switched off.        *)
THEOREM StartedAlwaysHasThread == Spec => []StartedHasThread
<1>1. IInv => StartedHasThread
  BY DEF IInv, HasThread, StartedHasThread, Collector!Running
<1> QED
  BY <1>1, Inductive, PTL

(* MainActivity.java:143-239 and 1232-1250, NaviActivity.java:205-265 and  *)
(* 633-673. The activities use the collector as ScanStream describes it,   *)
(* so what holds of every behaviour of ScanStream holds under them.        *)
THEOREM UsesStream == Spec => Collector!Spec
<1>1. Init => Collector!Init
  BY DEF Init
<1>2. IInv /\ [Next]_vars => [Collector!Next]_(Collector!vars)
  <2> SUFFICES ASSUME IInv, [Next]_vars
               PROVE  Collector!Next \/ UNCHANGED Collector!vars
    OBVIOUS
  <2>1. CASE UNCHANGED vars
    BY <2>1 DEF vars, collector, Collector!vars
  <2>2. CASE Next
    BY <2>2, CollectorStep DEF IInv, collector, Collector!vars
  <2> QED
    BY <2>1, <2>2
<1> QED
  BY <1>1, <1>2, Inductive, PTL DEF Spec, Collector!Spec
-----------------------------------------------------------------------------
(* What throws.                                                            *)

(* The activities on the stack were created and not destroyed, each once,  *)
(* and only the lowest can be a MainActivity.                              *)
OnStack(a) == \E i \in DOMAIN stack : stack[i] = a
StackInv ==
  /\ \A i \in DOMAIN stack : life[stack[i]] \notin {"new", "destroyed"}
  /\ \A i, j \in DOMAIN stack : stack[i] = stack[j] => i = j
  /\ \A i \in DOMAIN stack : stack[i] \in Mains => i = 1

LifeInv ==
  life \in [Activities -> {"new", "resumed", "paused", "stopped", "destroyed"}]

(* A callback turns the collector off first if at all, and turns it on     *)
(* before it starts sampling, or else relies on another that did.          *)
NoOff(q) == \A i \in DOMAIN q : q[i].do # "turnOff"
HasOn(q) == \E i \in DOMAIN q : q[i].do = "turnOn"
OffFirst(q) == \A i \in DOMAIN q : q[i].do = "turnOff" => i = 1
Guarded(q) ==
  \A i \in DOMAIN q :
    q[i].do = "start" => \E j \in DOMAIN q : j < i /\ q[j].do = "turnOn"
IsOn == isStarted /\ uiAt \notin {"clearing", "stopping"}

PowerInv ==
  /\ OffFirst(todo)
  /\ "off" \notin late =>
       /\ (\E a \in Activities : Living(a)) => (IsOn /\ NoOff(todo)) \/ HasOn(todo)
       /\ Guarded(todo) \/ (IsOn /\ NoOff(todo))

LEMMA ConcatCalls ==
  ASSUME NEW p \in Seq(CallsOf), NEW q \in Seq(CallsOf)
  PROVE  /\ NoOff(p) /\ NoOff(q) => NoOff(p \o q)
         /\ HasOn(p) \/ HasOn(q) => HasOn(p \o q)
         /\ Guarded(p) /\ Guarded(q) => Guarded(p \o q)
         /\ OffFirst(p) /\ NoOff(q) => OffFirst(p \o q)
         /\ p = <<>> => p \o q = q
<1> DEFINE pq == p \o q
<1>1. /\ Len(p) \in Nat /\ Len(q) \in Nat /\ DOMAIN p = 1..Len(p)
      /\ DOMAIN q = 1..Len(q)
  BY LenProperties
<1>2. pq \in Seq(CallsOf) /\ DOMAIN pq = 1..(Len(p) + Len(q))
  BY ConcatProperties, LenProperties
<1>3. \A i \in DOMAIN pq : pq[i] = IF i <= Len(p) THEN p[i] ELSE q[i - Len(p)]
  BY <1>1, <1>2, ConcatProperties
<1>4. \A i \in DOMAIN p : i \in DOMAIN pq /\ pq[i] = p[i]
  BY <1>1, <1>2, <1>3
<1>5. \A i \in DOMAIN q : i + Len(p) \in DOMAIN pq /\ pq[i + Len(p)] = q[i]
  BY <1>1, <1>2, <1>3
<1>6. \A k \in DOMAIN pq : k \in DOMAIN p \/ k - Len(p) \in DOMAIN q
  BY <1>1, <1>2
<1>7. p = <<>> => pq = q
  BY ConcatEmptySeq
<1> HIDE DEF pq
<1>8. \A k \in DOMAIN pq : (k \in DOMAIN p /\ pq[k] = p[k])
                           \/ (k - Len(p) \in DOMAIN q /\ pq[k] = q[k - Len(p)])
  <2> TAKE k \in DOMAIN pq
  <2>1. CASE k \in DOMAIN p
    BY <1>4, <2>1
  <2>2. CASE k - Len(p) \in DOMAIN q
    <3>1. (k - Len(p)) + Len(p) = k
      BY <1>1, <1>2
    <3> QED
      BY <1>5, <2>2, <3>1
  <2> QED
    BY <1>6, <2>1, <2>2
<1>9. NoOff(p) /\ NoOff(q) => NoOff(pq)
  BY <1>8 DEF NoOff
<1>10. HasOn(p) \/ HasOn(q) => HasOn(pq)
  BY <1>4, <1>5 DEF HasOn
<1>11. OffFirst(p) /\ NoOff(q) => OffFirst(pq)
  BY <1>8 DEF OffFirst, NoOff
<1>12. ASSUME Guarded(p), Guarded(q)
       PROVE  Guarded(pq)
  <2> SUFFICES ASSUME NEW k \in DOMAIN pq, pq[k].do = "start"
               PROVE  \E j \in DOMAIN pq : j < k /\ pq[j].do = "turnOn"
    BY DEF Guarded
  <2>1. CASE k \in DOMAIN p /\ pq[k] = p[k]
    <3>1. PICK j \in DOMAIN p : j < k /\ p[j].do = "turnOn"
      BY <1>12, <2>1 DEF Guarded
    <3> QED
      BY <1>4, <3>1
  <2>2. CASE k - Len(p) \in DOMAIN q /\ pq[k] = q[k - Len(p)]
    <3>1. PICK j \in DOMAIN q : j < k - Len(p) /\ q[j].do = "turnOn"
      BY <1>12, <2>2 DEF Guarded
    <3>2. j + Len(p) < k
      BY <1>1, <1>2, <3>1
    <3> QED
      BY <1>5, <3>1, <3>2
  <2> QED
    BY <1>8, <2>1, <2>2
<1> QED
  BY <1>7, <1>9, <1>10, <1>11, <1>12 DEF pq

LEMMA TailCalls ==
  ASSUME NEW q \in Seq(CallsOf), q # <<>>
  PROVE  /\ OffFirst(q) => NoOff(Tail(q))
         /\ NoOff(q) => NoOff(Tail(q))
         /\ q[1].do # "turnOn" => (HasOn(q) => HasOn(Tail(q)))
                                  /\ (Guarded(q) => Guarded(Tail(q)))
<1> DEFINE t == Tail(q)
<1>1. Len(q) \in Nat /\ Len(q) >= 1 /\ DOMAIN q = 1..Len(q)
  BY LenProperties, EmptySeq
<1>2. /\ t \in Seq(CallsOf) /\ Len(t) = Len(q) - 1
      /\ \A i \in 1..Len(t) : t[i] = q[i + 1]
  BY <1>1, HeadTailProperties
<1>3. DOMAIN t = 1..(Len(q) - 1)
  BY <1>2, LenProperties
<1> HIDE DEF t
<1>4. \A i \in DOMAIN t : i + 1 \in DOMAIN q /\ t[i] = q[i + 1] /\ i + 1 # 1
  BY <1>1, <1>2, <1>3
<1>5. \A i \in DOMAIN q : i # 1 => i - 1 \in DOMAIN t /\ t[i - 1] = q[i]
  <2> TAKE i \in DOMAIN q
  <2>1. i # 1 => i - 1 \in DOMAIN t /\ (i - 1) + 1 = i
    BY <1>1, <1>3
  <2> QED
    BY <1>4, <2>1
<1>6. (OffFirst(q) => NoOff(t)) /\ (NoOff(q) => NoOff(t))
  BY <1>4 DEF OffFirst, NoOff
<1>7. ASSUME q[1].do # "turnOn", HasOn(q)
      PROVE  HasOn(t)
  BY <1>5, <1>7 DEF HasOn
<1>8. ASSUME q[1].do # "turnOn", Guarded(q), NEW i \in DOMAIN t,
             t[i].do = "start"
      PROVE  \E j \in DOMAIN t : j < i /\ t[j].do = "turnOn"
  <2>1. PICK j \in DOMAIN q : j < i + 1 /\ q[j].do = "turnOn"
    BY <1>4, <1>8 DEF Guarded
  <2>2. j # 1 /\ j - 1 < i
    BY <1>1, <1>3, <1>8, <2>1
  <2> QED
    BY <1>5, <2>1, <2>2
<1> QED
  BY <1>6, <1>7, <1>8 DEF Guarded, t

LEMMA CallsAre ==
  ASSUME NEW a \in Activities, NEW names \in Seq(CallNames)
  PROVE  /\ DOMAIN Calls(a, names) = DOMAIN names
         /\ \A i \in DOMAIN names : Calls(a, names)[i] = [do |-> names[i], who |-> a]
         /\ names = <<>> => Calls(a, names) = <<>>
<1>1. DOMAIN Calls(a, names) = DOMAIN names
        /\ \A i \in DOMAIN names : Calls(a, names)[i] = [do |-> names[i], who |-> a]
  BY DEF Calls
<1>2. Calls(a, names) \in Seq(CallsOf)
  BY CallsType
<1>3. ASSUME names = <<>>
      PROVE  Calls(a, names) = <<>>
  <2>1. DOMAIN names = 1..0
    BY <1>3
  <2>2. Len(Calls(a, names)) \in Nat
          /\ DOMAIN Calls(a, names) = 1..Len(Calls(a, names))
    BY <1>2, LenProperties
  <2>3. Len(Calls(a, names)) = 0
    BY <1>1, <2>1, <2>2
  <2> QED
    BY <1>2, <2>3, EmptySeq
<1> QED
  BY <1>1, <1>3

\* The same, for a name given to the list of calls.
LEMMA CallsGiven ==
  ASSUME NEW a \in Activities, NEW names \in Seq(CallNames), NEW c,
         c = Calls(a, names)
  PROVE  /\ DOMAIN c = DOMAIN names /\ (names = <<>> => c = <<>>)
         /\ \A i \in DOMAIN c : c[i] = [do |-> names[i], who |-> a]
<1>1. /\ DOMAIN Calls(a, names) = DOMAIN names
      /\ \A i \in DOMAIN names : Calls(a, names)[i] = [do |-> names[i], who |-> a]
      /\ names = <<>> => Calls(a, names) = <<>>
  BY CallsAre
<1> HIDE DEF Calls
<1> QED
  BY <1>1, Zenon

LEMMA Names ==
  /\ <<>> \in Seq(CallNames) /\ <<"turnOn">> \in Seq(CallNames)
  /\ <<"stop">> \in Seq(CallNames) /\ <<"release">> \in Seq(CallNames)
  /\ <<"turnOff">> \in Seq(CallNames) /\ <<"start">> \in Seq(CallNames)
  /\ <<"turnOn", "add">> \in Seq(CallNames)
  /\ <<"stop", "remove">> \in Seq(CallNames)
  /\ <<"stop", "average">> \in Seq(CallNames)
  /\ <<"turnOn", "add", "start">> \in Seq(CallNames)
  /\ <<"add", "start", "turnOn">> \in Seq(CallNames)
<1>1. /\ <<>> \in Seq(CallNames) /\ <<"turnOn">> \in Seq(CallNames)
      /\ <<"stop">> \in Seq(CallNames) /\ <<"release">> \in Seq(CallNames)
      /\ <<"turnOff">> \in Seq(CallNames) /\ <<"start">> \in Seq(CallNames)
  BY DEF CallNames
<1>2. /\ <<"turnOn", "add">> \in Seq(CallNames)
      /\ <<"stop", "remove">> \in Seq(CallNames)
      /\ <<"stop", "average">> \in Seq(CallNames)
  BY DEF CallNames
<1>3. /\ <<"turnOn", "add", "start">> \in Seq(CallNames)
      /\ <<"add", "start", "turnOn">> \in Seq(CallNames)
  BY DEF CallNames
<1> QED
  BY <1>1, <1>2, <1>3

LEMMA NoCalls ==
  NoOff(<<>>) /\ Guarded(<<>>) /\ OffFirst(<<>>)
BY DEF NoOff, Guarded, OffFirst

LEMMA CallsPower ==
  ASSUME NEW a \in Activities, NEW names \in Seq(CallNames)
  PROVE  /\ (\A i \in DOMAIN names : names[i] # "turnOff")
              => NoOff(Calls(a, names))
         /\ (\A i \in DOMAIN names : names[i] # "start")
              => Guarded(Calls(a, names))
<1>1. PICK c : c = Calls(a, names)
  OBVIOUS
<1>2. /\ DOMAIN c = DOMAIN names /\ (names = <<>> => c = <<>>)
      /\ \A i \in DOMAIN c : c[i] = [do |-> names[i], who |-> a]
  BY <1>1, CallsGiven
<1>3. \A i \in DOMAIN c : c[i].do = names[i]
  BY <1>2
<1>4. /\ (\A i \in DOMAIN names : names[i] # "turnOff") => NoOff(c)
      /\ (\A i \in DOMAIN names : names[i] # "start") => Guarded(c)
  BY <1>2, <1>3 DEF NoOff, Guarded
<1> QED
  BY <1>1, <1>2, <1>4

LEMMA CallbackPower ==
  ASSUME NEW a \in Activities
  PROVE  /\ NoOff(OnCreate(a)) /\ HasOn(OnCreate(a)) /\ Guarded(OnCreate(a))
         /\ NoOff(OnRestart(a))
         /\ NoOff(OnPause(a)) /\ Guarded(OnPause(a))
         /\ NoOff(OnStop(a)) /\ Guarded(OnStop(a))
         /\ OffFirst(OnDestroy(a)) /\ Guarded(OnDestroy(a))
         /\ a \in Mains => OnPause(a) = <<>> /\ OnStop(a) = <<>>
         /\ a \notin Mains => OnDestroy(a) = <<>>
<1>1. /\ Calls(a, <<>>) = <<>>
      /\ NoOff(Calls(a, <<"stop">>)) /\ Guarded(Calls(a, <<"stop">>))
      /\ NoOff(Calls(a, <<"release">>)) /\ Guarded(Calls(a, <<"release">>))
      /\ NoOff(Calls(a, <<"turnOn">>))
      /\ NoOff(Calls(a, <<"stop", "remove">>))
      /\ Guarded(Calls(a, <<"stop", "remove">>))
      /\ NoOff(Calls(a, <<"turnOn", "add">>))
      /\ Guarded(Calls(a, <<"turnOn", "add">>))
      /\ NoOff(Calls(a, <<"turnOn", "add", "start">>))
      /\ NoOff(Calls(a, <<"add", "start", "turnOn">>))
  <2>1. Calls(a, <<>>) = <<>>
    BY CallsAre, Names
  <2>2. /\ NoOff(Calls(a, <<"stop">>)) /\ Guarded(Calls(a, <<"stop">>))
        /\ NoOff(Calls(a, <<"release">>)) /\ Guarded(Calls(a, <<"release">>))
        /\ NoOff(Calls(a, <<"turnOn">>))
    <3>1. \A n \in {<<"stop">>, <<"release">>, <<"turnOn">>} :
            \A i \in DOMAIN n : n[i] \notin {"turnOff", "start"}
      OBVIOUS
    <3> QED
      BY <3>1, CallsPower, Names
  <2>3. /\ NoOff(Calls(a, <<"stop", "remove">>))
        /\ Guarded(Calls(a, <<"stop", "remove">>))
        /\ NoOff(Calls(a, <<"turnOn", "add">>))
        /\ Guarded(Calls(a, <<"turnOn", "add">>))
    <3>1. \A n \in {<<"stop", "remove">>, <<"turnOn", "add">>} :
            \A i \in DOMAIN n : n[i] \notin {"turnOff", "start"}
      OBVIOUS
    <3> QED
      BY <3>1, CallsPower, Names
  <2>4. /\ NoOff(Calls(a, <<"turnOn", "add", "start">>))
        /\ NoOff(Calls(a, <<"add", "start", "turnOn">>))
    <3>1. \A n \in {<<"turnOn", "add", "start">>, <<"add", "start", "turnOn">>} :
            \A i \in DOMAIN n : n[i] # "turnOff"
      OBVIOUS
    <3> QED
      BY <3>1, CallsPower, Names
  <2> QED
    BY <2>1, <2>2, <2>3, <2>4
<1>2. Guarded(Calls(a, <<"turnOn", "add", "start">>))
  <2> DEFINE n == <<"turnOn", "add", "start">>
  <2>1. DOMAIN n = 1..3 /\ n[1] = "turnOn" /\ n[2] = "add"
    OBVIOUS
  <2>2. \A i \in DOMAIN n : n[i] = "start" => 1 < i /\ 1 \in DOMAIN n
    BY <2>1
  <2> HIDE DEF n
  <2> QED
    <3>1. n \in Seq(CallNames)
      BY Names DEF n
    <3>2. PICK c : c = Calls(a, n)
      OBVIOUS
    <3>3. DOMAIN c = DOMAIN n /\ \A i \in DOMAIN c : c[i] = [do |-> n[i], who |-> a]
      BY <3>1, <3>2, CallsGiven
    <3>4. \A i \in DOMAIN c : c[i].do = n[i]
      BY <3>3
    <3>5. Guarded(c)
      BY <2>1, <2>2, <3>3, <3>4 DEF Guarded
    <3> QED
      BY <3>2, <3>5 DEF n
<1>3. HasOn(Calls(a, <<"turnOn", "add", "start">>))
        /\ HasOn(Calls(a, <<"turnOn", "add">>))
  <2>1. \A n \in {<<"turnOn", "add", "start">>, <<"turnOn", "add">>} :
          1 \in DOMAIN n /\ n[1] = "turnOn"
    OBVIOUS
  <2>2. ASSUME NEW n \in Seq(CallNames), 1 \in DOMAIN n /\ n[1] = "turnOn"
        PROVE  HasOn(Calls(a, n))
    <3>1. PICK c : c = Calls(a, n)
      OBVIOUS
    <3>2. DOMAIN c = DOMAIN n /\ \A i \in DOMAIN c : c[i] = [do |-> n[i], who |-> a]
      BY <3>1, CallsGiven
    <3>3. HasOn(c)
      BY <2>2, <3>2 DEF HasOn
    <3> QED
      BY <3>1, <3>3
  <2> QED
    BY <2>1, <2>2, Names
<1>4. OffFirst(Calls(a, <<"turnOff">>)) /\ Guarded(Calls(a, <<"turnOff">>))
  <2>0. PICK n : n = <<"turnOff">>
    OBVIOUS
  <2>1. n \in Seq(CallNames) /\ \A i \in DOMAIN n : i = 1 /\ n[i] = "turnOff"
    BY <2>0, Names
  <2>2. PICK c : c = Calls(a, n)
    OBVIOUS
  <2>3. /\ DOMAIN c = DOMAIN n
        /\ \A i \in DOMAIN c : c[i] = [do |-> n[i], who |-> a]
    BY <2>1, <2>2, CallsGiven
  <2>4. \A i \in DOMAIN c : i = 1 /\ c[i].do = "turnOff"
    BY <2>1, <2>3
  <2>5. OffFirst(c) /\ Guarded(c)
    BY <2>4 DEF OffFirst, Guarded
  <2> QED
    BY <2>0, <2>2, <2>5
<1>5. OffFirst(<<>>) /\ Guarded(<<>>) /\ NoOff(<<>>)
  BY NoCalls
<1>6. NoOff(OnCreate(a)) /\ HasOn(OnCreate(a)) /\ Guarded(OnCreate(a))
  BY <1>1, <1>2, <1>3 DEF OnCreate
<1>7. NoOff(OnRestart(a)) /\ NoOff(OnPause(a)) /\ Guarded(OnPause(a))
        /\ NoOff(OnStop(a)) /\ Guarded(OnStop(a))
  BY <1>1, <1>5 DEF OnRestart, OnPause, OnStop
<1>8. OffFirst(OnDestroy(a)) /\ Guarded(OnDestroy(a))
        /\ (a \in Mains => OnPause(a) = <<>> /\ OnStop(a) = <<>>)
        /\ (a \notin Mains => OnDestroy(a) = <<>>)
  BY <1>1, <1>4, <1>5 DEF OnDestroy, OnPause, OnStop
<1> QED
  BY <1>6, <1>7, <1>8
-----------------------------------------------------------------------------
(* The life of the activities.                                             *)

LEMMA FrontIs ==
  ASSUME NEW S, NEW q \in Seq(S), q # <<>>
  PROVE  /\ Len(q) \in Nat \ {0} /\ DOMAIN q = 1..Len(q)
         /\ Front(q) \in Seq(S) /\ DOMAIN Front(q) = 1..(Len(q) - 1)
         /\ \A i \in DOMAIN Front(q) : i \in DOMAIN q /\ Front(q)[i] = q[i]
         /\ Len(q) \in DOMAIN q /\ Last(q) = q[Len(q)]
<1>1. Len(q) \in Nat /\ Len(q) >= 1 /\ DOMAIN q = 1..Len(q)
  BY LenProperties, EmptySeq
<1>2. Front(q) \in Seq(S) /\ Len(Front(q)) = Len(q) - 1
        /\ \A i \in 1..(Len(q) - 1) : Front(q)[i] = q[i]
  BY <1>1, SubSeqProperties DEF Front
<1>3. DOMAIN Front(q) = 1..(Len(q) - 1)
  BY <1>2, LenProperties
<1>4. Last(q) = q[Len(q)]
  BY DEF Last
<1> QED
  BY <1>1, <1>2, <1>3, <1>4

LEMMA AppendIs ==
  ASSUME NEW S, NEW q \in Seq(S), NEW x \in S
  PROVE  /\ Append(q, x) \in Seq(S) /\ DOMAIN Append(q, x) = 1..(Len(q) + 1)
         /\ Len(q) \in Nat /\ DOMAIN q = 1..Len(q)
         /\ Append(q, x)[Len(q) + 1] = x
         /\ \A i \in DOMAIN q : Append(q, x)[i] = q[i]
<1>1. Len(q) \in Nat /\ DOMAIN q = 1..Len(q)
  BY LenProperties
<1>2. Append(q, x) \in Seq(S) /\ Len(Append(q, x)) = Len(q) + 1
  BY AppendProperties
<1>3. DOMAIN Append(q, x) = 1..(Len(q) + 1)
  BY <1>2, LenProperties
<1>4. Append(q, x)[Len(q) + 1] = x /\ \A i \in 1..Len(q) : Append(q, x)[i] = q[i]
  BY <1>1, AppendProperties
<1> QED
  BY <1>1, <1>2, <1>3, <1>4

(* A step only moves the life of an activity on, and one that leaves the   *)
(* stack is destroyed at once or shows no dialog.                          *)
Ages ==
  \A a \in Activities :
    /\ life[a] = "destroyed" => life'[a] = "destroyed"
    /\ life[a] # "new" => life'[a] # "new"
    /\ OnStack(a)' => OnStack(a) \/ life[a] = "new"
    /\ OnStack(a) => OnStack(a)' \/ life'[a] = "destroyed" \/ ~Modal(a)

LEMMA StackAlone ==
  ASSUME LifeInv, StackInv, UNCHANGED <<life, stack>>
  PROVE  LifeInv' /\ StackInv' /\ Ages
<1>1. \A a : OnStack(a)' <=> OnStack(a)
  BY DEF OnStack
<1> QED
  BY <1>1 DEF LifeInv, StackInv, Ages, Living

LEMMA StackOpens ==
  ASSUME TodoInv, LifeInv, StackInv, NEW a \in Activities, Open(a)
  PROVE  LifeInv' /\ StackInv' /\ Ages
<1>1. life[a] = "new" /\ stack' = Append(stack, a)
        /\ (stack = <<>> \/ a \in Navis)
  BY DEF Open, New
<1>2. PICK f \in {"map", Top} :
        /\ f \in Activities => stack # <<>> /\ f = Top
        /\ life' = [b \in Activities |-> IF b = a THEN "resumed"
                                         ELSE IF b = f THEN "paused"
                                         ELSE life[b]]
  BY SamplingAssumption DEF Open, Moves, Activities
<1>3. stack # <<>> => Top \in Activities /\ Top = stack[Len(stack)]
                      /\ Len(stack) \in DOMAIN stack
  BY FrontIs, LastType DEF Top, TodoInv
<1>4. f \in Activities => life[f] \notin {"new", "destroyed"}
  BY <1>2, <1>3 DEF StackInv
<1>5. PICK n : n = Len(stack)
  OBVIOUS
<1>6. /\ n \in Nat /\ DOMAIN stack = 1..n /\ DOMAIN stack' = 1..(n + 1)
      /\ stack'[n + 1] = a /\ \A i \in 1..n : stack'[i] = stack[i]
  BY <1>1, <1>5, AppendIs DEF TodoInv
<1>7. \A b \in Activities : /\ life[b] = "destroyed" => life'[b] = "destroyed"
                            /\ life[b] # "new" => life'[b] # "new"
                            /\ life[b] \notin {"new", "destroyed"}
                                 => life'[b] \notin {"new", "destroyed"}
  BY <1>1, <1>2, <1>4
<1>8. life'[a] = "resumed" /\ \A i \in 1..n : stack[i] \in Activities /\ stack[i] # a
  <2>1. \A i \in 1..n : stack[i] \in Activities
    BY <1>6, ElementOfSeq, <1>5 DEF TodoInv
  <2> QED
    BY <1>1, <1>2, <1>6, <2>1 DEF StackInv
<1>9. LifeInv'
  BY <1>2 DEF LifeInv
<1>10. StackInv'
  <2>1. n > 0 => a \notin Mains
    <3>1. n > 0 => stack # <<>>
      BY <1>6, EmptySeq, <1>5 DEF TodoInv
    <3> QED
      BY <1>1, <3>1, SamplingAssumption
  <2>2. \A i \in 1..(n + 1) : i = n + 1 \/ i \in 1..n
    BY <1>6
  <2>3. \A i \in DOMAIN stack' : life'[stack'[i]] \notin {"new", "destroyed"}
    BY <1>6, <1>7, <1>8, <2>2 DEF StackInv
  <2>4. \A i, j \in DOMAIN stack' : stack'[i] = stack'[j] => i = j
    BY <1>6, <1>8, <2>2 DEF StackInv
  <2>5. \A i \in DOMAIN stack' : stack'[i] \in Mains => i = 1
    BY <1>6, <2>1, <2>2 DEF StackInv
  <2> QED
    BY <2>3, <2>4, <2>5 DEF StackInv
<1>11. \A b \in Activities : /\ OnStack(b)' => OnStack(b) \/ life[b] = "new"
                             /\ OnStack(b) => OnStack(b)'
  <2>1. \A i \in 1..(n + 1) : i = n + 1 \/ i \in 1..n
    BY <1>6
  <2>2. 1..n \subseteq 1..(n + 1)
    BY <1>6
  <2> QED
    BY <1>1, <1>6, <2>1, <2>2 DEF OnStack
<1> QED
  BY <1>7, <1>9, <1>10, <1>11 DEF Ages

LEMMA StackCloses ==
  ASSUME TodoInv, LifeInv, StackInv, Back
  PROVE  LifeInv' /\ StackInv' /\ Ages
<1>1. PICK n : n = Len(stack)
  OBVIOUS
<1>2. PICK top : top = Top
  OBVIOUS
<1>3. stack # <<>> /\ stack' = Front(stack) /\ ~Modal(top)
  BY <1>2 DEF Back
<1>4. /\ n \in Nat \ {0} /\ DOMAIN stack = 1..n /\ DOMAIN stack' = 1..(n - 1)
      /\ \A i \in 1..(n - 1) : i \in 1..n /\ stack'[i] = stack[i]
      /\ top = stack[n] /\ n \in 1..n
  BY <1>1, <1>2, <1>3, FrontIs DEF TodoInv, Top
<1>5. \A i \in 1..n : stack[i] \in Activities
  BY <1>1, <1>4, ElementOfSeq DEF TodoInv
<1>6. PICK t : /\ t \in Activities => \E i \in 1..n : stack[i] = t
               /\ life' = [b \in Activities |-> IF b = t THEN "resumed"
                                                ELSE IF b = top THEN "paused"
                                                ELSE life[b]]
  <2>1. CASE Front(stack) = <<>>
    <3>1. life' = [b \in Activities |-> IF b = "map" THEN "resumed"
                                        ELSE IF b = top THEN "paused"
                                        ELSE life[b]]
      BY <1>2, <2>1 DEF Back, Moves
    <3> QED
      BY <3>1, SamplingAssumption DEF Activities
  <2>2. CASE Front(stack) # <<>>
    <3>1. life' = [b \in Activities |-> IF b = Last(stack') THEN "resumed"
                                        ELSE IF b = top THEN "paused"
                                        ELSE life[b]]
      BY <1>2, <1>3, <2>2 DEF Back, Moves
    <3>2. \E i \in DOMAIN stack' : Last(stack') = stack'[i]
      <4>1. stack' \in Seq(Activities)
        BY <1>3, FrontIs DEF TodoInv
      <4> QED
        BY <1>3, <2>2, <4>1, FrontIs
    <3> QED
      BY <1>4, <3>1, <3>2
  <2> QED
    BY <2>1, <2>2
<1>7. \A b \in Activities : /\ life[b] = "destroyed" => life'[b] = "destroyed"
                            /\ life[b] # "new" => life'[b] # "new"
                            /\ life[b] \notin {"new", "destroyed"}
                                 => life'[b] \notin {"new", "destroyed"}
  <2>1. \A i \in 1..n : life[stack[i]] \notin {"new", "destroyed"}
    BY <1>4 DEF StackInv
  <2> QED
    BY <1>4, <1>6, <2>1 DEF Living
<1>8. LifeInv'
  BY <1>6 DEF LifeInv
<1>9. StackInv'
  <2>1. \A i \in DOMAIN stack' : life'[stack'[i]] \notin {"new", "destroyed"}
    BY <1>4, <1>5, <1>7 DEF StackInv
  <2>2. /\ \A i, j \in DOMAIN stack' : stack'[i] = stack'[j] => i = j
        /\ \A i \in DOMAIN stack' : stack'[i] \in Mains => i = 1
    BY <1>4 DEF StackInv
  <2> QED
    BY <2>1, <2>2 DEF StackInv
<1>10. \A b \in Activities : /\ OnStack(b)' => OnStack(b)
                             /\ OnStack(b) => OnStack(b)' \/ b = top
  <2>1. \A i \in 1..n : i = n \/ i \in 1..(n - 1)
    BY <1>4
  <2> QED
    BY <1>4, <2>1 DEF OnStack
<1>11. \A b \in Activities : OnStack(b) => OnStack(b)' \/ ~Modal(b)
  BY <1>3, <1>10
<1> QED
  BY <1>7, <1>8, <1>9, <1>10, <1>11 DEF Ages

LEMMA StackRotates ==
  ASSUME TodoInv, LifeInv, StackInv, NEW b \in Activities, Rotate(b)
  PROVE  LifeInv' /\ StackInv' /\ Ages
<1>1. PICK n : n = Len(stack)
  OBVIOUS
<1>2. PICK top : top = Top
  OBVIOUS
<1>3. /\ stack # <<>> /\ stack' = Append(Front(stack), b) /\ life[b] = "new"
      /\ (top \in Mains <=> b \in Mains)
      /\ life' = [life EXCEPT ![top] = "destroyed", ![b] = "resumed"]
  BY <1>2 DEF Rotate, New
<1>4. /\ n \in Nat \ {0} /\ DOMAIN stack = 1..n /\ Front(stack) \in Seq(Activities)
      /\ DOMAIN Front(stack) = 1..(n - 1)
      /\ \A i \in 1..(n - 1) : i \in 1..n /\ Front(stack)[i] = stack[i]
      /\ top = stack[n] /\ n \in 1..n
  BY <1>1, <1>2, <1>3, FrontIs DEF TodoInv, Top
<1>5. Len(Front(stack)) = n - 1
  BY <1>4, LenProperties
<1>6. /\ DOMAIN stack' = 1..n /\ stack'[n] = b
      /\ \A i \in 1..(n - 1) : stack'[i] = stack[i]
  <2>1. (n - 1) + 1 = n
    BY <1>4
  <2> QED
    BY <1>3, <1>4, <1>5, <2>1, AppendIs
<1>7. \A i \in 1..n : stack[i] \in Activities /\ stack[i] # b
  <2>1. \A i \in 1..n : stack[i] \in Activities
    BY <1>1, <1>4, ElementOfSeq DEF TodoInv
  <2> QED
    BY <1>3, <1>4, <2>1 DEF StackInv
<1>8. \A i \in 1..(n - 1) : stack[i] # top /\ i \in 1..n
  <2>1. \A i \in 1..(n - 1) : i # n
    BY <1>4
  <2> QED
    BY <1>4, <2>1 DEF StackInv
<1>9. top \in Activities /\ top # b
  BY <1>4, <1>7
<1>10. \A a \in Activities : life'[a] = IF a = b THEN "resumed"
                                        ELSE IF a = top THEN "destroyed"
                                        ELSE life[a]
  BY <1>3, <1>9 DEF LifeInv
<1>11. LifeInv'
  BY <1>3, <1>9 DEF LifeInv
<1>12. \A i \in 1..n : i = n \/ i \in 1..(n - 1)
  BY <1>4
<1>13. \A i \in DOMAIN stack' : life'[stack'[i]] \notin {"new", "destroyed"}
  <2>1. \A i \in 1..(n - 1) : life'[stack[i]] = life[stack[i]]
    BY <1>7, <1>8, <1>10
  <2> QED
    BY <1>4, <1>6, <1>8, <1>10, <1>12, <2>1 DEF StackInv
<1>14. \A i, j \in DOMAIN stack' : stack'[i] = stack'[j] => i = j
  <2>1. \A i \in 1..(n - 1) : stack'[i] # b
    BY <1>6, <1>7, <1>8
  <2>2. \A i, j \in 1..(n - 1) : stack'[i] = stack'[j] => i = j
    BY <1>4, <1>6, <1>8 DEF StackInv
  <2> QED
    BY <1>6, <1>12, <2>1, <2>2
<1>15. \A i \in DOMAIN stack' : stack'[i] \in Mains => i = 1
  <2>1. b \in Mains => n = 1
    BY <1>3, <1>4 DEF StackInv
  <2> QED
    BY <1>4, <1>6, <1>8, <1>12, <2>1 DEF StackInv
<1>16. \A a \in Activities :
         /\ life[a] = "destroyed" => life'[a] = "destroyed"
         /\ life[a] # "new" => life'[a] # "new"
  <2>1. life[b] = "new"
    BY <1>3
  <2> QED
    BY <1>10, <2>1
<1>17. \A a \in Activities : OnStack(a)' => OnStack(a) \/ life[a] = "new"
  <2>1. \A a \in Activities : \A i \in 1..n :
          stack'[i] = a => OnStack(a) \/ life[a] = "new"
    BY <1>3, <1>4, <1>6, <1>8, <1>12 DEF OnStack
  <2> QED
    BY <1>6, <2>1 DEF OnStack
<1>18. \A a \in Activities : OnStack(a) => OnStack(a)' \/ life'[a] = "destroyed"
  <2>1. \A a \in Activities : \A i \in 1..n :
          stack[i] = a => (\E j \in DOMAIN stack' : stack'[j] = a)
                          \/ life'[a] = "destroyed"
    BY <1>4, <1>6, <1>8, <1>9, <1>10, <1>12
  <2> QED
    BY <1>4, <2>1 DEF OnStack
<1> QED
  BY <1>11, <1>13, <1>14, <1>15, <1>16, <1>17, <1>18 DEF StackInv, Ages

LEMMA StackStays ==
  ASSUME TodoInv, LifeInv, StackInv, UNCHANGED stack,
         \/ Leave \/ Return
         \/ \E a \in Activities : Hide(a) \/ Destroy(a)
  PROVE  LifeInv' /\ StackInv' /\ Ages
<1>1. \A a : OnStack(a)' <=> OnStack(a)
  BY DEF OnStack
<1>2. \A i \in DOMAIN stack : stack[i] \in Activities
  BY ElementOfSeq, LenProperties DEF TodoInv
<1>3. SUFFICES /\ LifeInv'
               /\ \A a \in Activities :
                    /\ life[a] = "destroyed" => life'[a] = "destroyed"
                    /\ life[a] # "new" => life'[a] # "new"
                    /\ OnStack(a) => life'[a] \notin {"new", "destroyed"}
  <2>1. \A i \in DOMAIN stack : OnStack(stack[i])
    BY DEF OnStack
  <2> QED
    BY <1>1, <1>2, <2>1 DEF StackInv, Ages
<1>4. CASE Leave \/ Return
  <2>1. stack # <<>>
    BY <1>4 DEF Leave, Return, TodoInv
  <2>2. Top \in Activities /\ life[Top] \notin {"new", "destroyed"}
    BY <2>1, FrontIs, LastType DEF TodoInv, StackInv, Top
  <2>3. life' = [a \in Activities |-> IF a = Top THEN "resumed" ELSE life[a]]
          \/ life' = [a \in Activities |-> IF a = Top THEN "paused" ELSE life[a]]
    <3>1. CASE Leave
      <4>1. \A a \in Activities : a # "map"
        BY SamplingAssumption DEF Activities
      <4>2. life' = [a \in Activities |-> IF a = "map" THEN "resumed"
                                          ELSE IF a = Top THEN "paused"
                                          ELSE life[a]]
        BY <3>1 DEF Leave, Moves
      <4> QED
        BY <4>1, <4>2
    <3>2. CASE Return
      <4>1. \A a \in Activities : a # "map"
        BY SamplingAssumption DEF Activities
      <4>2. life' = [a \in Activities |-> IF a = Top THEN "resumed"
                                          ELSE IF a = "map" THEN "paused"
                                          ELSE life[a]]
        BY <3>2 DEF Return, Moves
      <4> QED
        BY <4>1, <4>2
    <3> QED
      BY <1>4, <3>1, <3>2
  <2> QED
    BY <2>2, <2>3 DEF LifeInv, StackInv, OnStack
<1>5. ASSUME NEW a \in Activities, Hide(a)
      PROVE  /\ LifeInv'
             /\ \A b \in Activities :
                  /\ life[b] = "destroyed" => life'[b] = "destroyed"
                  /\ life[b] # "new" => life'[b] # "new"
                  /\ OnStack(b) => life'[b] \notin {"new", "destroyed"}
  BY <1>5 DEF Hide, LifeInv, StackInv, OnStack
<1>6. ASSUME NEW a \in Activities, Destroy(a)
      PROVE  /\ LifeInv'
             /\ \A b \in Activities :
                  /\ life[b] = "destroyed" => life'[b] = "destroyed"
                  /\ life[b] # "new" => life'[b] # "new"
                  /\ OnStack(b) => life'[b] \notin {"new", "destroyed"}
  <2>1. ~OnStack(a)
    BY <1>6, LenProperties DEF Destroy, Contains, OnStack, TodoInv
  <2> QED
    BY <1>6, <2>1 DEF Destroy, LifeInv, StackInv, OnStack
<1> QED
  BY <1>4, <1>5, <1>6

LEMMA StackStep ==
  ASSUME TodoInv, LifeInv, StackInv, Next
  PROVE  LifeInv' /\ StackInv' /\ Ages
<1>1. CASE UNCHANGED <<life, stack>>
  BY <1>1, StackAlone
<1>2. CASE Leave \/ Return \/ \E a \in Activities : Hide(a) \/ Destroy(a)
  <2>1. UNCHANGED stack
    BY <1>2 DEF Leave, Return, Hide, Destroy
  <2> QED
    BY <1>2, <2>1, StackStays
<1>3. CASE Back \/ \E a \in Activities : Open(a) \/ Rotate(a)
  BY <1>3, StackCloses, StackOpens, StackRotates
<1>4. \/ UNCHANGED <<life, stack>>
      \/ Leave \/ Return \/ \E a \in Activities : Hide(a) \/ Destroy(a)
      \/ Back \/ \E a \in Activities : Open(a) \/ Rotate(a)
  BY DEF Next, User, System, UIStep, Fires, Touch, DialogFocused, Skip, TurnOn,
         TurnOnRefused, AddListener, RemoveListener, StartSampling,
         StopSampling, TurnOff, Continues, StartSamplingThrows, ReleaseThrows,
         TurnOffThrows, AverageThrows, Throws, Average, RoundEnds,
         RoundEndsThrows, Hear, Take, Ends, Fire, FireEnds, FireThrows,
         ScannerThrows, own, shown
<1> QED
  BY <1>1, <1>2, <1>3, <1>4
-----------------------------------------------------------------------------
(* The collector is on while an activity that lives has not to turn it on. *)

Lives == \E a \in Activities : Living(a)

\* What the new calls of a callback have to be.
LEMMA PowerNew ==
  ASSUME UNCHANGED late,
         OffFirst(todo)', (HasOn(todo) /\ Guarded(todo))'
                          \/ ("off" \notin late => (IsOn /\ NoOff(todo))')
  PROVE  PowerInv'
BY DEF PowerInv

LEMMA IdleIsOn ==
  ASSUME PowerInv, Ready, "off" \notin late, Lives
  PROVE  IsOn
BY DEF PowerInv, Ready, HasOn, Lives

LEMMA TopLives ==
  ASSUME TodoInv, StackInv, stack # <<>>
  PROVE  Lives /\ Top \in Activities
<1>1. Top \in Activities /\ life[Top] \notin {"new", "destroyed"}
  BY FrontIs, LastType DEF TodoInv, StackInv, Top
<1> QED
  BY <1>1 DEF Lives, Living

LEMMA OffIsFirst ==
  ASSUME NEW q
  PROVE  NoOff(q) => OffFirst(q)
BY DEF NoOff, OffFirst

LEMMA PowerUser ==
  ASSUME TodoInv, LifeInv, StackInv, PowerInv, User
  PROVE  PowerInv'
<1>1. UNCHANGED <<isStarted, uiAt, late>> /\ Ready
  BY DEF User, Open, Back, Leave, Return, Rotate, Touch, Moves, collector,
         history
<1>2. ASSUME NEW q, todo' = q, OffFirst(q), HasOn(q), Guarded(q)
      PROVE  PowerInv'
  BY <1>1, <1>2, PowerNew
<1>3. ASSUME NEW q, todo' = q, NoOff(q), Lives
      PROVE  PowerInv'
  <2>1. OffFirst(q)
    BY <1>3, OffIsFirst
  <2>2. "off" \notin late => IsOn'
    BY <1>1, <1>3, IdleIsOn DEF IsOn
  <2> QED
    BY <1>1, <1>3, <2>1, <2>2, PowerNew
<1>4. ASSUME NEW a \in Activities, Open(a)
      PROVE  PowerInv'
  <2>1. PICK c : c = OnCreate(a)
    OBVIOUS
  <2>2. c \in Seq(CallsOf) /\ NoOff(c) /\ HasOn(c) /\ Guarded(c)
    BY <2>1, CallbacksType, CallbackPower
  <2>3. CASE todo' = c
    BY <1>2, <2>2, <2>3, OffIsFirst
  <2>4. CASE stack # <<>> /\ todo' = OnPause(Top) \o c
    <3>1. PICK p : p = OnPause(Top)
      OBVIOUS
    <3>2. p \in Seq(CallsOf) /\ NoOff(p) /\ Guarded(p)
      BY <2>4, <3>1, TopLives, CallbacksType, CallbackPower
    <3>3. NoOff(p \o c) /\ HasOn(p \o c) /\ Guarded(p \o c)
      BY <2>2, <3>2, ConcatCalls
    <3> QED
      BY <1>2, <2>4, <3>1, <3>3, OffIsFirst
  <2> QED
    BY <1>4, <2>1, <2>3, <2>4 DEF Open, Moves
<1>5. ASSUME NEW b \in Activities, Rotate(b)
      PROVE  PowerInv'
  <2>1. stack # <<>> /\ Top \in Activities
    BY <1>5, TopLives DEF Rotate
  <2>2. PICK p : p = OnPause(Top)
    OBVIOUS
  <2>3. PICK s : s = OnStop(Top)
    OBVIOUS
  <2>4. PICK d : d = OnDestroy(Top)
    OBVIOUS
  <2>5. PICK c : c = OnCreate(b)
    OBVIOUS
  <2>6. todo' = p \o s \o d \o c
    BY <1>5, <2>2, <2>3, <2>4, <2>5 DEF Rotate
  <2>7. /\ p \in Seq(CallsOf) /\ NoOff(p) /\ Guarded(p)
        /\ s \in Seq(CallsOf) /\ NoOff(s) /\ Guarded(s)
        /\ d \in Seq(CallsOf) /\ OffFirst(d) /\ Guarded(d)
        /\ Top \in Mains => p = <<>> /\ s = <<>>
        /\ Top \notin Mains => d = <<>>
    BY <2>1, <2>2, <2>3, <2>4, CallbacksType, CallbackPower
  <2>8. c \in Seq(CallsOf) /\ NoOff(c) /\ HasOn(c) /\ Guarded(c)
    BY <2>5, CallbacksType, CallbackPower
  <2>9. p \o s \in Seq(CallsOf) /\ NoOff(p \o s) /\ Guarded(p \o s)
          /\ (Top \in Mains => p \o s = <<>>)
    BY <2>7, ConcatCalls, ConcatProperties
  <2>10. (p \o s) \o d \in Seq(CallsOf) /\ OffFirst((p \o s) \o d)
           /\ Guarded((p \o s) \o d)
    <3>1. CASE Top \in Mains
      BY <2>7, <2>9, <3>1, ConcatCalls, ConcatProperties
    <3>2. CASE Top \notin Mains
      <4>1. NoOff(d)
        BY <2>7, <3>2, NoCalls
      <4> QED
        BY <2>7, <2>9, <4>1, ConcatCalls, ConcatProperties, OffIsFirst
    <3> QED
      BY <3>1, <3>2
  <2>11. PICK q : q = (p \o s) \o d
    OBVIOUS
  <2>12. OffFirst(q \o c) /\ HasOn(q \o c) /\ Guarded(q \o c)
    BY <2>8, <2>10, <2>11, ConcatCalls
  <2> QED
    BY <1>2, <2>6, <2>11, <2>12
<1>6. CASE Back
  <2>1. stack # <<>> /\ Lives /\ Top \in Activities
    BY <1>6, TopLives DEF Back
  <2>2. PICK p : p = OnPause(Top)
    OBVIOUS
  <2>3. p \in Seq(CallsOf) /\ NoOff(p)
    BY <2>1, <2>2, CallbacksType, CallbackPower
  <2>4. <<>> \in Seq(CallsOf) /\ NoOff(<<>>)
    BY NoCalls
  <2>5. \/ todo' = p
        \/ \E r \in Seq(CallsOf) : NoOff(r) /\ todo' = p \o r
    <3>1. CASE Front(stack) = <<>>
      BY <1>6, <2>2, <3>1 DEF Back, Moves
    <3>2. CASE Front(stack) # <<>>
      <4>1. Last(Front(stack)) \in Activities
        BY <2>1, <3>2, FrontIs, LastType DEF TodoInv
      <4>2. PICK r : r = OnRestart(Last(Front(stack)))
        OBVIOUS
      <4>3. r \in Seq(CallsOf) /\ NoOff(r)
        BY <4>1, <4>2, CallbacksType, CallbackPower
      <4>4. todo' = p \o r \/ todo' = p \o <<>>
        BY <1>6, <2>2, <3>2, <4>2 DEF Back, Moves
      <4> QED
        BY <2>4, <4>3, <4>4
    <3> QED
      BY <3>1, <3>2
  <2>6. \A r \in Seq(CallsOf) : NoOff(r) => NoOff(p \o r)
    BY <2>3, ConcatCalls
  <2> QED
    BY <1>3, <2>1, <2>3, <2>5, <2>6
<1>7. CASE Leave \/ Return
  <2>1. Lives /\ Top \in Activities
    BY <1>7, TopLives DEF Leave, Return, TodoInv
  <2>2. PICK p : p = OnPause(Top)
    OBVIOUS
  <2>3. PICK r : r = OnRestart(Top)
    OBVIOUS
  <2>4. NoOff(p) /\ NoOff(r) /\ NoOff(<<>>)
    BY <2>1, <2>2, <2>3, CallbackPower, NoCalls
  <2>5. todo' = p \/ todo' = r \/ todo' = <<>>
    BY <1>7, <2>2, <2>3 DEF Leave, Return, Moves
  <2> QED
    BY <1>3, <2>1, <2>4, <2>5
<1>8. ASSUME NEW m \in Mains, Touch(m)
      PROVE  PowerInv'
  <2>1. Lives
    BY <1>8, TopLives DEF Touch
  <2>2. PICK c : c = Calls(m, <<"start">>)
    OBVIOUS
  <2>3. \A i \in DOMAIN <<"start">> : <<"start">>[i] = "start"
    OBVIOUS
  <2>4. m \in Activities
    BY DEF Activities
  <2>5. NoOff(c)
    BY <2>2, <2>3, <2>4, CallsPower, Names
  <2> QED
    BY <1>3, <1>8, <2>1, <2>2, <2>5 DEF Touch
<1> QED
  BY <1>4, <1>5, <1>6, <1>7, <1>8 DEF User

\* One name for the call that a step of the UI thread makes.
CallStep(call) == Calling(call) /\ todo' = Tail(todo)

LEMMA CallSteps ==
  ASSUME Next, ~User
  PROVE  \/ /\ CallStep("turnOn") /\ isStarted' = TRUE /\ UNCHANGED <<uiAt, late>>
         \/ /\ Calling("turnOn") /\ todo' = <<>> /\ isStarted' = TRUE
            /\ UNCHANGED <<uiAt, late>>
         \/ CallStep("turnOff") /\ uiAt' = "clearing" /\ UNCHANGED late
         \/ /\ \E c \in {"add", "remove", "start", "stop", "average"} : CallStep(c)
            /\ uiAt' \in {uiAt, "sampling"} /\ UNCHANGED <<isStarted, late>>
         \/ /\ UNCHANGED <<todo, late>>
            /\ IsOn => isStarted' /\ uiAt' \in {uiAt, "idle"}
         \/ \E a \in Activities : Hide(a) \/ Destroy(a)
         \/ \E m \in Mains : RoundEnds(m)
<1>1. CASE TurnOn
  <2>1. ASSUME NEW th \in Threads, Collector!TurnOn(th)
        PROVE  isStarted' = TRUE /\ UNCHANGED uiAt
    BY <2>1 DEF Collector!TurnOn
  <2> QED
    BY <1>1, <2>1 DEF TurnOn, Skip, CallStep, Calling, collector, history
<1>2. CASE TurnOnRefused
  BY <1>2 DEF TurnOnRefused, Collector!TurnOnFails
<1>3. CASE TurnOff
  BY <1>3 DEF TurnOff, Collector!TurnOff, CallStep, history
<1>4. CASE AddListener \/ RemoveListener
  BY <1>4 DEF AddListener, RemoveListener, Collector!AddListener,
              Collector!RemoveListener, Collector!ChangeListeners, Skip,
              Calling, CallStep, collector, history
<1>5. CASE StartSampling \/ StopSampling \/ Average
  BY <1>5 DEF StartSampling, StopSampling, Average, Collector!StartSampling,
              Collector!StopSampling, Skip, Calling, CallStep, collector, history
<1>6. CASE Continues
  BY <1>6 DEF Continues, Collector!UIContinues, Collector!TurnOffClears,
              Collector!TurnOffEnds, Collector!StartSamplingEnds, IsOn, history,
              Collector!ChangeListeners
<1>7. CASE StartSamplingThrows \/ ReleaseThrows \/ TurnOffThrows
        \/ AverageThrows
        \/ \E m \in Mains : RoundEndsThrows(m)
  BY <1>7 DEF StartSamplingThrows, ReleaseThrows, TurnOffThrows, AverageThrows,
              RoundEndsThrows, Throws, Collector!StartSamplingThrows,
              Collector!CallThrows, Collector!Dies, IsOn
<1>8. CASE DialogFocused \/ Hear
  BY <1>8 DEF DialogFocused, Hear, Collector!Hear, collector, history, IsOn
<1>9. ASSUME NEW th \in Threads,
             Take(th) \/ Fires(th) \/ ScannerThrows(th) \/ Ends(th)
      PROVE  UNCHANGED <<todo, late, isStarted, uiAt>>
  BY <1>9 DEF Take, Fires, Fire, FireEnds, FireThrows, ScannerThrows, Ends,
              Throws, Collector!Take, Collector!FireNext, Collector!FireEnds,
              Collector!FireThrows, Collector!Breaks, Collector!Dies,
              Collector!Ends, history
<1> QED
  BY <1>1, <1>2, <1>3, <1>4, <1>5, <1>6, <1>7, <1>8, <1>9
     DEF Next, UIStep, System, IsOn

LEMMA LivesOnly ==
  ASSUME Next, ~User, LifeInv
  PROVE  \A a \in Activities : life'[a] \notin {"new", "destroyed"}
                                 => life[a] \notin {"new", "destroyed"}
<1>1. ASSUME NEW a \in Activities, Hide(a) \/ Destroy(a)
      PROVE  \A b \in Activities : life'[b] \notin {"new", "destroyed"}
                                     => life[b] \notin {"new", "destroyed"}
  BY <1>1 DEF Hide, Destroy, LifeInv
<1>2. \/ UNCHANGED life
      \/ \E a \in Activities : Hide(a) \/ Destroy(a)
  BY DEF Next, System, UIStep, Fires, DialogFocused, Skip, TurnOn,
         TurnOnRefused, AddListener, RemoveListener, StartSampling,
         StopSampling, TurnOff, Continues, StartSamplingThrows, ReleaseThrows,
         TurnOffThrows, AverageThrows, Throws, Average, RoundEnds,
         RoundEndsThrows, Hear, Take, Ends, Fire, FireEnds, FireThrows,
         ScannerThrows, own, shown
<1> QED
  BY <1>1, <1>2

LEMMA PowerOthers ==
  ASSUME TodoInv, LifeInv, PowerInv, Next, ~User
  PROVE  PowerInv'
<1>1. Lives' => Lives
  BY LivesOnly DEF Lives, Living
<1>2. todo # <<>> =>
        /\ NoOff(Tail(todo)) /\ OffFirst(Tail(todo))
        /\ todo[1].do # "turnOn" => (HasOn(todo) => HasOn(Tail(todo)))
                                    /\ (Guarded(todo) => Guarded(Tail(todo)))
        /\ todo[1].do # "turnOff" => NoOff(todo)
  <2>1. todo # <<>> =>
        /\ NoOff(Tail(todo))
        /\ todo[1].do # "turnOn" => (HasOn(todo) => HasOn(Tail(todo)))
                                    /\ (Guarded(todo) => Guarded(Tail(todo)))
    BY TailCalls DEF PowerInv, TodoInv
  <2>2. todo[1].do # "turnOff" => NoOff(todo)
    BY DEF PowerInv, OffFirst, NoOff
  <2> QED
    BY <2>1, <2>2, OffIsFirst
<1>3. PICK t : t = Tail(todo)
  OBVIOUS
<1>4. ASSUME CallStep("turnOn"), isStarted' = TRUE, UNCHANGED <<uiAt, late>>
      PROVE  PowerInv'
  BY <1>2, <1>3, <1>4 DEF CallStep, Calling, PowerInv, IsOn
<1>5. ASSUME Calling("turnOn"), todo' = <<>>, isStarted' = TRUE,
             UNCHANGED <<uiAt, late>>
      PROVE  PowerInv'
  <2>1. PICK e : e = <<>>
    OBVIOUS
  <2>2. NoOff(e) /\ OffFirst(e) /\ todo' = e
    BY <1>5, <2>1, NoCalls
  <2> QED
    BY <1>5, <2>2 DEF Calling, PowerInv, IsOn
<1>6. ASSUME CallStep("turnOff"), uiAt' = "clearing", UNCHANGED late
      PROVE  PowerInv'
  <2>1. t = todo' /\ OffFirst(t) /\ todo # <<>> /\ ~NoOff(todo)
          /\ todo[1].do = "turnOff"
    <3>1. 1 \in DOMAIN todo
      <4>1. todo # <<>> /\ todo \in Seq(CallsOf)
        BY <1>6 DEF CallStep, Calling, TodoInv
      <4> QED
        BY <4>1, LenProperties, EmptySeq
    <3> QED
      BY <1>2, <1>3, <1>6, <3>1 DEF CallStep, Calling, NoOff
  <2>2. "off" \notin late => Guarded(t) /\ (Lives => HasOn(t))
    BY <1>2, <1>3, <2>1 DEF PowerInv, Lives
  <2> QED
    BY <1>1, <1>6, <2>1, <2>2 DEF PowerInv, Lives
<1>7. ASSUME NEW c \in {"add", "remove", "start", "stop", "average"},
             CallStep(c), uiAt' \in {uiAt, "sampling"},
             UNCHANGED <<isStarted, late>>
      PROVE  PowerInv'
  <2>1. /\ t = todo' /\ OffFirst(t) /\ NoOff(t)
        /\ HasOn(todo) => HasOn(t)
        /\ Guarded(todo) => Guarded(t)
    BY <1>2, <1>3, <1>7 DEF CallStep, Calling
  <2>2. IsOn => IsOn'
    BY <1>7 DEF IsOn
  <2> QED
    BY <1>1, <1>7, <2>1, <2>2 DEF PowerInv, Lives
<1>8. ASSUME UNCHANGED <<todo, late>>,
             IsOn => isStarted' /\ uiAt' \in {uiAt, "idle"}
      PROVE  PowerInv'
  <2>1. IsOn => IsOn'
    BY <1>8 DEF IsOn
  <2> QED
    BY <1>1, <1>8, <2>1 DEF PowerInv, Lives
<1>9. ASSUME NEW q, todo' = q, NoOff(q), Guarded(q), Ready,
             UNCHANGED <<isStarted, uiAt>>, "off" \in late => "off" \in late'
      PROVE  PowerInv'
  <2>1. "off" \notin late' /\ Lives' => IsOn'
    <3>1. "off" \notin late' /\ Lives' => IsOn
      BY <1>1, <1>9, IdleIsOn
    <3> QED
      BY <1>9, <3>1 DEF IsOn
  <2>2. OffFirst(q)
    BY <1>9, OffIsFirst
  <2> QED
    BY <1>9, <2>1, <2>2 DEF PowerInv, Lives
<1>10. ASSUME NEW a \in Activities, Hide(a)
       PROVE  PowerInv'
  <2>1. PICK q : q = OnStop(a)
    OBVIOUS
  <2>2. NoOff(q) /\ Guarded(q)
    BY <2>1, CallbackPower
  <2>3. todo' = q /\ Ready /\ UNCHANGED <<isStarted, uiAt>>
          /\ ("off" \in late => "off" \in late')
    BY <1>10, <2>1 DEF Hide, collector
  <2> QED
    BY <1>9, <2>2, <2>3
<1>11. ASSUME NEW a \in Activities, Destroy(a)
       PROVE  PowerInv'
  <2>1. PICK q : q = OnDestroy(a)
    OBVIOUS
  <2>2. OffFirst(q) /\ Guarded(q) /\ (a \notin Mains => NoOff(q))
    BY <2>1, CallbackPower, NoCalls
  <2>3. todo' = q /\ Ready /\ UNCHANGED <<isStarted, uiAt>>
          /\ ("off" \in late => "off" \in late')
    BY <1>11, <2>1 DEF Destroy, collector
  <2>4. CASE a \notin Mains
    BY <1>9, <2>2, <2>3, <2>4
  <2>5. CASE a \in Mains
    <3>1. "off" \notin late' => \A b \in Activities \ {a} : ~Living(b)
      BY <1>11, <2>5 DEF Destroy
    <3>2. life'[a] = "destroyed"
      BY <1>11 DEF Destroy, LifeInv
    <3>3. \A b \in Activities \ {a} : life'[b] = life[b]
      BY <1>11 DEF Destroy, LifeInv
    <3>4. "off" \notin late' => ~Lives'
      BY <3>1, <3>2, <3>3 DEF Lives, Living
    <3> QED
      BY <2>2, <2>3, <3>4 DEF PowerInv, Lives
  <2> QED
    BY <2>4, <2>5
<1>12. ASSUME NEW m \in Mains, RoundEnds(m)
       PROVE  PowerInv'
  <2>1. PICK q : q = Calls(m, <<"stop", "average">>)
    OBVIOUS
  <2>2. \A i \in DOMAIN <<"stop", "average">> :
          <<"stop", "average">>[i] \notin {"turnOff", "start"}
    OBVIOUS
  <2>3. m \in Activities
    BY DEF Activities
  <2>4. NoOff(q) /\ Guarded(q)
    BY <2>1, <2>2, <2>3, CallsPower, Names
  <2>5. todo' = q /\ Ready /\ UNCHANGED <<isStarted, uiAt>>
          /\ ("off" \in late => "off" \in late')
    BY <1>12, <2>1 DEF RoundEnds, collector
  <2> QED
    BY <1>9, <2>4, <2>5
<1> QED
  BY <1>4, <1>5, <1>6, <1>7, <1>8, <1>10, <1>11, <1>12, CallSteps

LEMMA FirstIs ==
  ASSUME NEW S, NEW q \in Seq(S), q # <<>>
  PROVE  1 \in DOMAIN q /\ \A j \in DOMAIN q : ~(j < 1)
<1>1. Len(q) \in Nat /\ Len(q) >= 1 /\ DOMAIN q = 1..Len(q)
  BY LenProperties, EmptySeq
<1> QED
  BY <1>1

LEMMA ThrowStep ==
  ASSUME TodoInv, PowerInv, ThrowsOnlyAfterLateDestroy, Next
  PROVE  ThrowsOnlyAfterLateDestroy'
<1> USE DEF ThrowsOnlyAfterLateDestroy
<1>1. "off" \in late => "off" \in late'
  BY DEF Next, User, System, UIStep, Fires, Open, Moves, Back, Leave, Return,
         Rotate, Touch, DialogFocused, Hide, Destroy, Skip, TurnOn,
         TurnOnRefused, AddListener, RemoveListener, StartSampling,
         StopSampling, TurnOff, Continues, StartSamplingThrows, ReleaseThrows,
         TurnOffThrows, AverageThrows, Throws, Average, RoundEnds,
         RoundEndsThrows, Hear, Take, Ends, Fire, FireEnds, FireThrows,
         ScannerThrows, history
<1>2. CASE StartSamplingThrows
  <2>1. todo # <<>> /\ todo[1].do = "start" /\ ~isStarted /\ UNCHANGED late
    BY <1>2 DEF StartSamplingThrows, Calling, Collector!StartSamplingThrows,
                Throws
  <2>2. 1 \in DOMAIN todo /\ \A j \in DOMAIN todo : ~(j < 1)
    BY <2>1, FirstIs DEF TodoInv
  <2>3. ~Guarded(todo) /\ ~IsOn
    BY <2>1, <2>2 DEF Guarded, IsOn
  <2> QED
    BY <2>1, <2>3 DEF PowerInv
<1>3. CASE ~StartSamplingThrows
  <2>1. cause' = "not on" => cause = "not on"
    BY <1>3
       DEF Next, User, System, UIStep, Fires, Open, Moves, Back, Leave, Return,
           Rotate, Touch, DialogFocused, Hide, Destroy, Skip, TurnOn,
           TurnOnRefused, AddListener, RemoveListener, StartSampling,
           StopSampling, TurnOff, Continues, ReleaseThrows, TurnOffThrows,
           AverageThrows, Throws, Average, RoundEnds, RoundEndsThrows, Hear,
           Take, Ends, Fire, FireEnds, FireThrows, ScannerThrows, history
  <2> QED
    BY <1>1, <2>1
<1> QED
  BY <1>2, <1>3

OnInv ==
  TodoInv /\ LifeInv /\ StackInv /\ PowerInv /\ ThrowsOnlyAfterLateDestroy

LEMMA OnInductive == Spec => []OnInv
<1>1. Init => OnInv
  <2> SUFFICES ASSUME Init PROVE OnInv
    OBVIOUS
  <2>1. TodoInv
    BY InitInv DEF IInv
  <2>2. LifeInv /\ StackInv /\ ThrowsOnlyAfterLateDestroy
    BY DEF Init, LifeInv, StackInv, ThrowsOnlyAfterLateDestroy
  <2>3. PowerInv
    <3>1. PICK e : e = <<>>
      OBVIOUS
    <3>2. OffFirst(e) /\ Guarded(e) /\ todo = e
      BY <3>1, NoCalls DEF Init
    <3>3. ~Lives
      BY DEF Init, Lives, Living
    <3> QED
      BY <3>2, <3>3 DEF PowerInv, Lives
  <2> QED
    BY <2>1, <2>2, <2>3 DEF OnInv
<1>2. OnInv /\ [Next]_vars => OnInv'
  <2> SUFFICES ASSUME OnInv, [Next]_vars PROVE OnInv'
    OBVIOUS
  <2> USE DEF OnInv
  <2>1. CASE UNCHANGED vars
    <3>1. UNCHANGED <<todo, stack, away, life, late, cause, isStarted, uiAt>>
      BY <2>1 DEF vars, collector, shown, history
    <3>2. IsOn' <=> IsOn
      BY <3>1 DEF IsOn
    <3>3. TodoInv' /\ LifeInv' /\ StackInv' /\ ThrowsOnlyAfterLateDestroy'
      BY <3>1 DEF TodoInv, LifeInv, StackInv, ThrowsOnlyAfterLateDestroy
    <3>4. PowerInv'
      BY <3>1, <3>2 DEF PowerInv, Living
    <3> QED
      BY <3>3, <3>4
  <2>2. CASE Next
    <3>1. TodoInv'
      BY <2>2, TodoUser, TodoOthers
    <3>2. LifeInv' /\ StackInv'
      BY <2>2, StackStep
    <3>3. PowerInv'
      BY <2>2, PowerUser, PowerOthers
    <3> QED
      BY <2>2, <3>1, <3>2, <3>3, ThrowStep
  <2> QED
    BY <2>1, <2>2
<1> QED
  BY <1>1, <1>2, PTL DEF Spec

(* MainActivity.java:1232-1235, NaviActivity.java:263 and 650. However     *)
(* many activities there are and in whatever order Android stops and       *)
(* destroys them, starting to sample without asking whether the collector  *)
(* is on throws only after the onDestroy of a MainActivity came late.      *)
THEOREM ThrowsOnlyIfLate == Spec => []ThrowsOnlyAfterLateDestroy
BY OnInductive, PTL DEF OnInv
-----------------------------------------------------------------------------
(* Types: those of the stream first, whoever calls the collector.          *)

HeardType ==
  /\ fingerprints \in SUBSET DOMAIN heardIn
  /\ heardIn \in Seq(0..MaxRounds) /\ Len(heardIn) <= MaxAds
StreamType == stream \in [Threads -> Collector!Streams]

\* What java.util.List.remove leaves.
LEMMA RemoveKeepsSeq ==
  ASSUME NEW S, NEW q \in Seq(S), NEW i \in DOMAIN q
  PROVE  RemoveAt(q, i) \in Seq(S)
<1>1. Len(q) \in Nat /\ i \in 1..Len(q)
  BY LenProperties
<1>2. SubSeq(q, 1, i - 1) \in Seq(S) /\ SubSeq(q, i + 1, Len(q)) \in Seq(S)
  BY <1>1, SubSeqProperties
<1> QED
  BY <1>2, ConcatProperties DEF RemoveAt

\* The steps of the stream, one by one.
LEMMA StreamSteps ==
  ASSUME Collector!Next
  PROVE  \/ \E l \in Activities : Collector!AddListener(l)
                                    \/ Collector!RemoveListener(l)
         \/ \E th \in Threads : Collector!TurnOn(th)
         \/ Collector!TurnOnFails \/ Collector!TurnOff
         \/ Collector!StartSampling \/ Collector!StopSampling
         \/ Collector!Dies
         \/ Collector!TurnOffClears \/ Collector!TurnOffEnds
         \/ Collector!StartSamplingEnds \/ Collector!Hear
         \/ \E th \in Threads : Collector!Take(th) \/ Collector!FireNext(th)
                                  \/ Collector!FireEnds(th) \/ Collector!Ends(th)
BY DEF Collector!Next, Collector!Call, Collector!UIContinues, Collector!Fires,
       Collector!CallThrows, Collector!FireThrows, Collector!Breaks

LEMMA HeardStep ==
  ASSUME HeardType, round \in 0..MaxRounds, Collector!Next
  PROVE  HeardType'
<1>1. CASE Collector!Hear
  <2>1. /\ heardIn' = Append(heardIn, round) /\ Len(heardIn) \in Nat
        /\ DOMAIN heardIn = 1..Len(heardIn) /\ Len(heardIn) < MaxAds
        /\ fingerprints' = fingerprints \cup {Len(heardIn) + 1}
    BY <1>1, LenProperties DEF Collector!Hear, HeardType
  <2>2. heardIn' \in Seq(0..MaxRounds) /\ Len(heardIn') = Len(heardIn) + 1
    BY <2>1, AppendProperties DEF HeardType
  <2>3. DOMAIN heardIn' = 1..Len(heardIn')
    BY <2>2, LenProperties
  <2> QED
    BY <2>1, <2>2, <2>3, SamplingAssumption DEF HeardType
<1>2. CASE UNCHANGED heardIn /\ (UNCHANGED fingerprints \/ fingerprints' = {})
  BY <1>2 DEF HeardType
<1>3. \/ Collector!Hear
      \/ UNCHANGED heardIn /\ (UNCHANGED fingerprints \/ fingerprints' = {})
  <2>1. ASSUME NEW th \in Threads, Collector!TurnOn(th) \/ Collector!Take(th)
               \/ Collector!FireNext(th) \/ Collector!FireEnds(th)
               \/ Collector!Ends(th)
        PROVE  UNCHANGED heardIn
                 /\ (UNCHANGED fingerprints \/ fingerprints' = {})
    BY <2>1 DEF Collector!TurnOn, Collector!Take, Collector!FireNext,
                Collector!FireEnds, Collector!Ends
  <2> QED
    BY <2>1, StreamSteps
       DEF Collector!AddListener, Collector!RemoveListener,
           Collector!ChangeListeners, Collector!TurnOnFails,
           Collector!TurnOff, Collector!StartSampling,
           Collector!StopSampling, Collector!Dies, Collector!TurnOffClears,
           Collector!TurnOffEnds, Collector!StartSamplingEnds
<1> QED
  BY <1>1, <1>2, <1>3

LEMMA HeardAds ==
  ASSUME HeardType
  PROVE  fingerprints \in SUBSET (1..MaxAds) /\ Len(heardIn) \in Nat
         /\ DOMAIN heardIn = 1..Len(heardIn)
<1>1. Len(heardIn) \in Nat /\ DOMAIN heardIn = 1..Len(heardIn)
  BY LenProperties DEF HeardType
<1>2. \A i \in 1..Len(heardIn) : i \in 1..MaxAds
  BY <1>1, SamplingAssumption DEF HeardType
<1> QED
  BY <1>1, <1>2 DEF HeardType

LEMMA StreamRecords ==
  /\ Collector!NoThread \in Collector!Streams
  /\ [Collector!NoThread EXCEPT !.at = "runs"] \in Collector!Streams
  /\ \A r \in Collector!Streams : [r EXCEPT !.next = @ + 1] \in Collector!Streams
<1>1. {} \in SUBSET (1..MaxAds) /\ 1 \in Nat \ {0} /\ 0 \in Nat
  OBVIOUS
<1>2. Collector!NoThread \in Collector!Streams
  BY <1>1, Zenon DEF Collector!Streams, Collector!NoThread
<1>3. \A r \in Collector!Streams : [r EXCEPT !.at = "runs"] \in Collector!Streams
  BY DEF Collector!Streams
<1>4. ASSUME NEW r \in Collector!Streams
      PROVE  [r EXCEPT !.next = @ + 1] \in Collector!Streams
  <2>1. r.next \in Nat \ {0}
    BY DEF Collector!Streams
  <2>2. PICK n : n = r.next + 1
    OBVIOUS
  <2>3. n \in Nat \ {0}
    BY <2>1, <2>2
  <2>4. [r EXCEPT !.next = n] \in Collector!Streams
    BY <2>3 DEF Collector!Streams
  <2> QED
    BY <2>2, <2>4
<1> QED
  BY <1>2, <1>3, <1>4

LEMMA StreamTypeStep ==
  ASSUME StreamType, HeardType, listeners \in Seq(Activities), Collector!Next
  PROVE  StreamType' /\ listeners' \in Seq(Activities)
<1> USE DEF StreamType
<1>1. ASSUME NEW ls, Collector!ChangeListeners(ls)
      PROVE  StreamType'
  <2>1. stream' = [th \in Threads |->
                     [stream[th] EXCEPT !.changed = @ \/ stream[th].at = "fires"]]
    BY <1>1 DEF Collector!ChangeListeners
  <2>2. ASSUME NEW th \in Threads
        PROVE  [stream[th] EXCEPT !.changed = @ \/ stream[th].at = "fires"]
                 \in Collector!Streams
    <3>1. stream[th] \in Collector!Streams
      OBVIOUS
    <3>2. PICK b \in BOOLEAN : b = (stream[th].changed \/ stream[th].at = "fires")
      OBVIOUS
    <3>3. [stream[th] EXCEPT !.changed = b] \in Collector!Streams
      BY <3>1 DEF Collector!Streams
    <3> QED
      BY <3>2, <3>3
  <2> QED
    BY <2>1, <2>2
<1>2. ASSUME NEW l \in Activities, Collector!AddListener(l)
      PROVE  StreamType' /\ listeners' \in Seq(Activities)
  <2>1. Collector!ChangeListeners(Append(listeners, l))
    BY <1>2 DEF Collector!AddListener
  <2>2. listeners' = Append(listeners, l)
    BY <2>1 DEF Collector!ChangeListeners
  <2> QED
    BY <1>1, <2>1, <2>2, AppendProperties
<1>3. ASSUME NEW l \in Activities, Collector!RemoveListener(l)
      PROVE  StreamType' /\ listeners' \in Seq(Activities)
  <2>1. PICK i \in DOMAIN listeners :
               Collector!ChangeListeners(RemoveAt(listeners, i))
    BY <1>3 DEF Collector!RemoveListener, Collector!RemoveAt, RemoveAt
  <2>2. listeners' = RemoveAt(listeners, i)
    BY <2>1 DEF Collector!ChangeListeners
  <2> QED
    BY <1>1, <2>1, <2>2, RemoveKeepsSeq
<1>4. CASE Collector!TurnOffClears
  <2>1. listeners' = <<>>
    BY <1>4 DEF Collector!TurnOffClears, Collector!ChangeListeners
  <2>2. <<>> \in Seq(Activities)
    OBVIOUS
  <2> QED
    BY <1>1, <1>4, <2>1, <2>2 DEF Collector!TurnOffClears
<1>5. ASSUME NEW th \in Threads, NEW r \in Collector!Streams,
             stream' = [stream EXCEPT ![th] = r], UNCHANGED listeners
      PROVE  StreamType' /\ listeners' \in Seq(Activities)
  BY <1>5
<1>6. ASSUME NEW th \in Threads, Collector!TurnOn(th)
      PROVE  StreamType' /\ listeners' \in Seq(Activities)
  <2>1. [stream[th] EXCEPT !.at = "runs"] \in Collector!Streams
    BY DEF Collector!Streams
  <2> QED
    BY <1>5, <1>6, <2>1 DEF Collector!TurnOn
<1>7. ASSUME NEW th \in Threads, Collector!Take(th)
      PROVE  StreamType' /\ listeners' \in Seq(Activities)
  <2>1. PICK r : r = [at |-> "fires", batch |-> fingerprints, next |-> 1,
                      size |-> Len(listeners), changed |-> FALSE]
    OBVIOUS
  <2>2. Len(listeners) \in Nat
    BY LenProperties
  <2>3. r \in Collector!Streams
    BY <2>1, <2>2, HeardAds DEF Collector!Streams
  <2> QED
    BY <1>5, <1>7, <2>1, <2>3 DEF Collector!Take
<1>8. ASSUME NEW th \in Threads, Collector!FireNext(th)
      PROVE  StreamType' /\ listeners' \in Seq(Activities)
  <2>1. PICK r \in Collector!Streams : r = stream[th]
    OBVIOUS
  <2>2. [r EXCEPT !.next = @ + 1] \in Collector!Streams
    BY StreamRecords
  <2> QED
    BY <1>5, <1>8, <2>1, <2>2 DEF Collector!FireNext
<1>9. ASSUME NEW th \in Threads, Collector!FireEnds(th) \/ Collector!Ends(th)
      PROVE  StreamType' /\ listeners' \in Seq(Activities)
  <2>1. Collector!NoThread \in Collector!Streams
          /\ [Collector!NoThread EXCEPT !.at = "runs"] \in Collector!Streams
    BY StreamRecords
  <2> QED
    BY <1>5, <1>9, <2>1 DEF Collector!FireEnds, Collector!Ends
<1>10. ASSUME UNCHANGED <<stream, listeners>>
       PROVE  StreamType' /\ listeners' \in Seq(Activities)
  BY <1>10
<1>11. CASE \/ Collector!TurnOnFails \/ Collector!TurnOff
            \/ Collector!StartSampling \/ Collector!StopSampling
            \/ Collector!Dies \/ Collector!TurnOffEnds
            \/ Collector!StartSamplingEnds \/ Collector!Hear
  BY <1>10, <1>11
     DEF Collector!TurnOnFails, Collector!TurnOff, Collector!StartSampling,
         Collector!StopSampling, Collector!Dies, Collector!TurnOffEnds,
         Collector!StartSamplingEnds, Collector!Hear
<1> QED
  BY <1>2, <1>3, <1>4, <1>6, <1>7, <1>8, <1>9, <1>11, StreamSteps

LEMMA CollectorType ==
  ASSUME Collector!TypeOK, Collector!Next
  PROVE  Collector!TypeOK'
<1>1. /\ HeardType /\ StreamType /\ listeners \in Seq(Activities)
      /\ round \in 0..MaxRounds
  BY DEF Collector!TypeOK, HeardType, StreamType
<1>2. HeardType'
  BY <1>1, HeardStep
<1>3. StreamType' /\ listeners' \in Seq(Activities)
  BY <1>1, StreamTypeStep
<1>4. round' \in 0..MaxRounds
  <2>1. UNCHANGED round \/ (round < MaxRounds /\ round' = round + 1)
    BY StreamSteps
       DEF Collector!AddListener, Collector!RemoveListener,
           Collector!ChangeListeners, Collector!TurnOn, Collector!TurnOnFails,
           Collector!TurnOff, Collector!StartSampling, Collector!StopSampling,
           Collector!Dies, Collector!TurnOffClears, Collector!TurnOffEnds,
           Collector!StartSamplingEnds, Collector!Hear, Collector!Take,
           Collector!FireNext, Collector!FireEnds, Collector!Ends
  <2> QED
    BY <1>1, <2>1, SamplingAssumption
<1>5. /\ process' \in {"alive", "dead"}
      /\ isStarted' \in BOOLEAN /\ shouldStartSampling' \in BOOLEAN
      /\ uiAt' \in {"idle", "clearing", "stopping", "sampling"}
  BY StreamSteps
     DEF Collector!TypeOK, Collector!AddListener, Collector!RemoveListener,
         Collector!ChangeListeners, Collector!TurnOn, Collector!TurnOnFails,
         Collector!TurnOff, Collector!StartSampling, Collector!StopSampling,
         Collector!Dies, Collector!TurnOffClears, Collector!TurnOffEnds,
         Collector!StartSamplingEnds, Collector!Hear, Collector!Take,
         Collector!FireNext, Collector!FireEnds, Collector!Ends
<1> QED
  BY <1>2, <1>3, <1>4, <1>5 DEF Collector!TypeOK, HeardType, StreamType

(* What the activities keep for themselves.                                *)
ShownType == away \in BOOLEAN /\ moves \in 0..MaxMoves
DialogType ==
  /\ timers \in [Mains -> Nat]
  /\ progress \in [Mains -> BOOLEAN] /\ stuck \in [Mains -> BOOLEAN]
  /\ focused \in BOOLEAN
SampleType ==
  /\ collected \in [Mains -> SUBSET (1..MaxAds)]
  /\ averaged \in [Mains -> SUBSET (1..MaxAds)]
HistoryType ==
  /\ refused \in BOOLEAN /\ late \subseteq {"stop", "off"} /\ twoThreads \in BOOLEAN
  /\ cause \in {"none", "not on", "no lock", "no window", "iterator",
                "scanner"}
  /\ napped \in [Navis -> BOOLEAN]

(* A timer is set together with a round; the one that was set last may     *)
(* wait for its round.                                                     *)
RoundInv ==
  \A m \in Mains :
    \/ timers[m] <= round
    \/ /\ timers[m] <= round + 1 /\ round < MaxRounds
       /\ todo # <<>> /\ todo[1].do = "start"

LEMMA Changes ==
  ASSUME Next
  PROVE  /\ UNCHANGED <<timers, progress>>
              \/ \E m \in Mains : Touch(m) \/ RoundEnds(m)
         /\ UNCHANGED stuck \/ \E m \in Mains : Touch(m)
         /\ UNCHANGED averaged \/ Average
         /\ UNCHANGED collected \/ Average \/ \E th \in Threads : Fire(th)
         /\ UNCHANGED bare \/ TurnOnRefused
         /\ UNCHANGED focused \/ focused' \in BOOLEAN
         /\ UNCHANGED <<moves, away>>
              \/ (moves' = moves + 1 /\ moves < MaxMoves
                    /\ (UNCHANGED away \/ away' \in BOOLEAN))
<1> USE DEF Next, User, System, UIStep, Fires, Open, Moves, Back, Leave,
            Return, Rotate, DialogFocused, Hide, Destroy, Skip, TurnOn,
            AddListener, RemoveListener, StartSampling, StopSampling, TurnOff,
            Continues, StartSamplingThrows, ReleaseThrows, TurnOffThrows,
            AverageThrows, Throws, RoundEndsThrows, Hear, Take, Ends, FireEnds,
            FireThrows, ScannerThrows, own, shown, dialogs, samples
<1>1. \/ UNCHANGED <<timers, progress>>
      \/ \E m \in Mains : Touch(m) \/ RoundEnds(m)
  BY DEF TurnOnRefused, Average, Fire
<1>2. UNCHANGED stuck \/ \E m \in Mains : Touch(m)
  BY DEF TurnOnRefused, Average, Fire, RoundEnds
<1>3. UNCHANGED averaged \/ Average
  BY DEF TurnOnRefused, Fire, RoundEnds, Touch
<1>4. UNCHANGED collected \/ Average \/ \E th \in Threads : Fire(th)
  BY DEF TurnOnRefused, RoundEnds, Touch
<1>5. UNCHANGED bare \/ TurnOnRefused
  BY DEF Average, Fire, RoundEnds, Touch
<1>6. UNCHANGED focused \/ focused' \in BOOLEAN
  BY DEF TurnOnRefused, Average, Fire, RoundEnds, Touch
<1>7. \/ UNCHANGED <<moves, away>>
      \/ /\ moves' = moves + 1 /\ moves < MaxMoves
         /\ UNCHANGED away \/ away' \in BOOLEAN
  BY DEF TurnOnRefused, Average, Fire, RoundEnds, Touch
<1> QED
  BY <1>1, <1>2, <1>3, <1>4, <1>5, <1>6, <1>7

LEMMA HistoryStep ==
  ASSUME HistoryType, Next
  PROVE  HistoryType'
<1> USE DEF HistoryType
<1>1. CASE User \/ System
  <2>1. late' \subseteq {"stop", "off"} /\ UNCHANGED <<refused, twoThreads, cause>>
    BY <1>1 DEF User, System, Open, Back, Leave, Return, Moves, Rotate, Touch,
                DialogFocused, Hide, Destroy, history
  <2>2. napped' \in [Navis -> BOOLEAN]
    BY <1>1 DEF User, System, Open, Back, Leave, Return, Moves, Rotate, Touch,
                DialogFocused, Hide, Destroy, history
  <2> QED
    BY <2>1, <2>2
<1>2. CASE TurnOn
  <2>1. twoThreads' \in BOOLEAN /\ UNCHANGED <<refused, late, cause, napped>>
    BY <1>2 DEF TurnOn, Skip, history
  <2> QED
    BY <2>1
<1>3. CASE ~User /\ ~System /\ ~TurnOn
  <2>1. /\ UNCHANGED refused \/ refused' = TRUE
        /\ UNCHANGED late \/ late' = late \cup {"stop"}
        /\ UNCHANGED <<twoThreads, napped>>
        /\ UNCHANGED cause
             \/ cause' \in {"not on", "no lock", "no window", "iterator",
                            "scanner"}
    BY <1>3
       DEF Next, UIStep, Fires, Skip, TurnOnRefused, AddListener,
           RemoveListener, StartSampling, StopSampling, TurnOff, Continues,
           StartSamplingThrows, ReleaseThrows, TurnOffThrows, AverageThrows,
           Throws, Average, RoundEnds, RoundEndsThrows, Hear, Take, Ends, Fire,
           FireEnds, FireThrows, ScannerThrows, history
  <2> QED
    BY <2>1
<1> QED
  BY <1>1, <1>2, <1>3

LEMMA WhoIs ==
  ASSUME TodoInv, todo # <<>>
  PROVE  Who \in Activities /\ todo[1].do \in CallNames
<1>1. todo[1] \in CallsOf
  BY LastType DEF TodoInv
<1> QED
  BY <1>1 DEF Who, CallsOf

LEMMA DialogStep ==
  ASSUME DialogType, Next
  PROVE  DialogType'
<1> USE DEF DialogType
<1>1. ASSUME NEW m \in Mains, Touch(m)
      PROVE  DialogType'
  <2>1. PICK b \in BOOLEAN : b = progress[m]
    OBVIOUS
  <2>2. stuck' \in [Mains -> BOOLEAN]
    <3>1. stuck' = [stuck EXCEPT ![m] = b]
      BY <1>1, <2>1 DEF Touch
    <3> QED
      BY <3>1
  <2>3. timers' \in [Mains -> Nat]
    <3>1. timers' = [timers EXCEPT ![m] = @ + 1]
      BY <1>1 DEF Touch
    <3> QED
      BY <3>1
  <2>4. progress' \in [Mains -> BOOLEAN]
    <3>1. progress' = [progress EXCEPT ![m] = TRUE]
      BY <1>1 DEF Touch
    <3> QED
      BY <3>1
  <2>5. focused' \in BOOLEAN
    BY <1>1 DEF Touch
  <2> QED
    BY <2>2, <2>3, <2>4, <2>5
<1>2. ASSUME NEW m \in Mains, RoundEnds(m)
      PROVE  DialogType'
  BY <1>2 DEF RoundEnds
<1>3. ASSUME UNCHANGED <<timers, progress>>, UNCHANGED stuck
      PROVE  DialogType'
  BY <1>3, Changes
<1> QED
  BY <1>1, <1>2, <1>3, Changes

LEMMA SampleTypeStep ==
  ASSUME SampleType, StreamType, Next
  PROVE  SampleType'
<1> USE DEF SampleType
<1>1. CASE Average
  BY <1>1 DEF Average
<1>2. ASSUME NEW th \in Threads, Fire(th)
      PROVE  SampleType'
  <2>1. stream[th].batch \in SUBSET (1..MaxAds)
    BY DEF StreamType, Collector!Streams
  <2> QED
    BY <1>2, <2>1 DEF Fire, OnSampleCollected
<1>3. CASE UNCHANGED <<collected, averaged>>
  BY <1>3
<1> QED
  BY <1>1, <1>2, <1>3, Changes

LEMMA RoundStep ==
  ASSUME TodoInv, DialogType, Collector!TypeOK, RoundInv, Next
  PROVE  RoundInv'
<1> USE DEF RoundInv
<1>1. round \in Nat /\ \A m \in Mains : timers[m] \in Nat
  BY SamplingAssumption DEF Collector!TypeOK, DialogType
<1>2. CASE StartSampling
  <2>1. round' = round + 1 /\ UNCHANGED timers
    BY <1>2 DEF StartSampling, Collector!StartSampling, own
  <2> QED
    BY <1>1, <2>1
<1>3. ASSUME NEW m \in Mains, Touch(m)
      PROVE  RoundInv'
  <2>1. /\ todo = <<>> /\ round < MaxRounds /\ round' = round
        /\ timers' = [timers EXCEPT ![m] = @ + 1]
        /\ todo' = Calls(m, <<"start">>)
    BY <1>3 DEF Touch, Ready, collector
  <2>2. PICK c : c = Calls(m, <<"start">>)
    OBVIOUS
  <2>3. c # <<>> /\ c[1].do = "start"
    <3>1. m \in Activities
      BY DEF Activities
    <3>2. PICK n : n = <<"start">>
      OBVIOUS
    <3>3. n \in Seq(CallNames) /\ 1 \in DOMAIN n /\ n[1] = "start" /\ c = Calls(m, n)
      BY <2>2, <3>2, Names
    <3>4. DOMAIN c = DOMAIN n /\ \A i \in DOMAIN c : c[i] = [do |-> n[i], who |-> m]
      BY <3>1, <3>3, CallsGiven
    <3> QED
      BY <3>3, <3>4
  <2> QED
    BY <1>1, <2>1, <2>2, <2>3 DEF DialogType
<1>4. ASSUME NEW m \in Mains, RoundEnds(m)
      PROVE  RoundInv'
  <2>1. /\ todo = <<>> /\ UNCHANGED round /\ timers[m] > 0
        /\ timers' = [timers EXCEPT ![m] = @ - 1]
    BY <1>4 DEF RoundEnds, Ready, collector
  <2> QED
    BY <1>1, <2>1 DEF DialogType
<1>5. ASSUME UNCHANGED <<timers, round>>,
             UNCHANGED todo \/ todo = <<>> \/ todo[1].do # "start"
      PROVE  RoundInv'
  BY <1>5
<1>6. \/ StartSampling
      \/ \E m \in Mains : Touch(m) \/ RoundEnds(m)
      \/ /\ UNCHANGED <<timers, round>>
         /\ UNCHANGED todo \/ todo = <<>> \/ todo[1].do # "start"
  <2>1. ASSUME NEW th \in Threads, Collector!TurnOn(th)
        PROVE  UNCHANGED round
    BY <2>1 DEF Collector!TurnOn
  <2>2. ASSUME NEW th \in Threads,
             Take(th) \/ Fires(th) \/ ScannerThrows(th) \/ Ends(th)
        PROVE  UNCHANGED <<timers, round, todo>>
    BY <2>2 DEF Take, Fires, Fire, FireEnds, FireThrows, ScannerThrows, Ends,
                Throws, own, Collector!Take, Collector!FireNext,
                Collector!FireEnds, Collector!FireThrows, Collector!Breaks,
                Collector!Dies, Collector!Ends
  <2>3. CASE User \/ System
    BY <2>3 DEF User, System, Open, Moves, Back, Leave, Return, Rotate, Hide,
                Destroy, DialogFocused, Ready, collector
  <2>4. CASE UIStep \/ Hear
    BY <2>1, <2>4
       DEF UIStep, Skip, Calling, TurnOn, TurnOnRefused, AddListener,
           RemoveListener, StopSampling, TurnOff, Continues,
           StartSamplingThrows, ReleaseThrows, TurnOffThrows, AverageThrows,
           Throws, Average, RoundEndsThrows, Hear, own, collector,
           Collector!ChangeListeners, Collector!AddListener,
           Collector!RemoveListener, Collector!TurnOnFails,
           Collector!UIContinues, Collector!TurnOffClears, Collector!TurnOff,
           Collector!StopSampling, Collector!Dies, Collector!CallThrows,
           Collector!StartSamplingThrows, Collector!TurnOffEnds,
           Collector!StartSamplingEnds, Collector!Hear
  <2> QED
    BY <2>2, <2>3, <2>4 DEF Next
<1> QED
  BY <1>2, <1>3, <1>4, <1>5, <1>6

TypeInv ==
  /\ TodoInv /\ LifeInv /\ StackInv /\ Collector!TypeOK
  /\ ShownType /\ bare \subseteq Activities /\ DialogType /\ SampleType
  /\ HistoryType /\ RoundInv

LEMMA TypeInvStep ==
  ASSUME TypeInv, Next
  PROVE  TypeInv'
<1> USE DEF TypeInv
<1>1. TodoInv'
  BY TodoUser, TodoOthers
<1>2. LifeInv' /\ StackInv'
  BY StackStep
<1>3. Collector!TypeOK'
  <2>1. CASE UNCHANGED collector
    BY <2>1 DEF collector, Collector!TypeOK
  <2> QED
    BY <2>1, CollectorStep, CollectorType
<1>4. ShownType'
  BY Changes, SamplingAssumption DEF ShownType
<1>5. bare' \subseteq Activities
  <2>1. CASE TurnOnRefused
    BY <2>1, WhoIs DEF TurnOnRefused, Calling
  <2> QED
    BY <2>1, Changes
<1>6. DialogType'
  BY DialogStep
<1>7. SampleType'
  <2>1. StreamType
    BY DEF Collector!TypeOK, StreamType
  <2> QED
    BY <2>1, SampleTypeStep
<1>8. HistoryType' /\ RoundInv'
  BY HistoryStep, RoundStep
<1> QED
  BY <1>1, <1>2, <1>3, <1>4, <1>5, <1>6, <1>7, <1>8

LEMMA InitTypes == Init => TypeInv
<1> SUFFICES ASSUME Init PROVE TypeInv
  OBVIOUS
<1>1. TodoInv
  BY InitInv DEF IInv
<1>2. LifeInv /\ StackInv /\ bare \subseteq Activities
  BY DEF Init, LifeInv, StackInv
<1>3. HistoryType
  BY DEF Init, HistoryType
<1>4. Collector!TypeOK
  <2>1. heardIn = <<>> /\ fingerprints = {} /\ listeners = <<>>
          /\ <<>> \in Seq(0..MaxRounds) /\ <<>> \in Seq(Activities)
          /\ Len(<<>>) = 0
    BY DEF Init, Collector!Init
  <2>2. stream \in [Threads -> Collector!Streams]
    BY StreamRecords DEF Init, Collector!Init
  <2>3. round = 0 /\ 0 \in 0..MaxRounds /\ 0 <= MaxAds
    BY SamplingAssumption DEF Init, Collector!Init
  <2> QED
    BY <2>1, <2>2, <2>3 DEF Init, Collector!Init, Collector!TypeOK
<1>5. ShownType
  <2>1. away = FALSE /\ moves = 0 /\ 0 \in 0..MaxMoves
    BY SamplingAssumption DEF Init
  <2> QED
    BY <2>1 DEF ShownType
<1>6. DialogType /\ RoundInv
  <2>1. timers = [m \in Mains |-> 0] /\ round = 0 /\ focused = FALSE
    BY DEF Init, Collector!Init
  <2>2. progress \in [Mains -> BOOLEAN] /\ stuck \in [Mains -> BOOLEAN]
    BY DEF Init
  <2>3. timers \in [Mains -> Nat] /\ RoundInv
    BY <2>1 DEF RoundInv
  <2>4. focused \in BOOLEAN
    BY <2>1
  <2> QED
    BY <2>2, <2>3, <2>4 DEF DialogType
<1>7. SampleType
  <2>1. collected = [m \in Mains |-> {}] /\ averaged = [m \in Mains |-> {}]
    BY DEF Init
  <2> QED
    BY <2>1 DEF SampleType
<1> QED
  BY <1>1, <1>2, <1>3, <1>4, <1>5, <1>6, <1>7 DEF TypeInv

LEMMA TypesStep ==
  ASSUME TypeInv, [Next]_vars
  PROVE  TypeInv'
<1>1. CASE UNCHANGED vars
  <2> USE <1>1 DEF vars, TypeInv
  <2>1. TodoInv' /\ LifeInv' /\ StackInv'
    BY DEF TodoInv, LifeInv, StackInv, collector, shown
  <2>2. Collector!TypeOK'
    BY DEF collector, Collector!TypeOK
  <2>3. /\ ShownType' /\ bare' \subseteq Activities /\ DialogType' /\ SampleType'
        /\ HistoryType' /\ RoundInv'
    BY DEF collector, shown, dialogs, samples, history, ShownType,
           DialogType, SampleType, HistoryType, RoundInv
  <2> QED
    BY <2>1, <2>2, <2>3
<1> QED
  BY <1>1, TypeInvStep

LEMMA TypeInductive == Spec => []TypeInv
BY InitTypes, TypesStep, PTL DEF Spec

(* MainActivity.java:385-409, NaviActivity.java:633-673. Every variable    *)
(* keeps its range; in particular no MainActivity has more timers running  *)
(* than rounds were started, which needs that a timer is set only together *)
(* with one.                                                               *)
THEOREM TypeCorrect == Spec => []TypeOK
<1>1. TypeInv => TypeOK
  <2> SUFFICES ASSUME TypeInv PROVE TypeOK
    OBVIOUS
  <2> USE DEF TypeInv
  <2>1. timers \in [Mains -> 0..MaxRounds]
    <3>1. round \in Nat /\ round <= MaxRounds /\ MaxRounds \in Nat
      BY SamplingAssumption DEF Collector!TypeOK
    <3>2. \A m \in Mains : timers[m] \in 0..MaxRounds
      BY <3>1 DEF DialogType, RoundInv
    <3> QED
      BY <3>2 DEF DialogType
  <2>2. todo \in Seq([do : {"turnOn", "add", "start", "stop", "remove",
                            "release", "turnOff", "average"},
                      who : Activities])
    BY DEF TodoInv, CallsOf, CallNames
  <2>3. stack \in Seq(Activities)
    BY DEF TodoInv
  <2>4. /\ life \in [Activities -> {"new", "resumed", "paused", "stopped",
                                    "destroyed"}]
        /\ away \in BOOLEAN /\ moves \in 0..MaxMoves
    BY DEF LifeInv, ShownType
  <2>5. /\ progress \in [Mains -> BOOLEAN] /\ stuck \in [Mains -> BOOLEAN]
        /\ focused \in BOOLEAN
        /\ collected \in [Mains -> SUBSET (1..MaxAds)]
        /\ averaged \in [Mains -> SUBSET (1..MaxAds)]
    BY DEF DialogType, SampleType
  <2>6. /\ refused \in BOOLEAN /\ late \subseteq {"stop", "off"}
        /\ twoThreads \in BOOLEAN
        /\ cause \in {"none", "not on", "no lock", "no window", "iterator",
                      "scanner"}
        /\ napped \in [Navis -> BOOLEAN]
    BY DEF HistoryType
  <2> QED
    BY <2>1, <2>2, <2>3, <2>4, <2>5, <2>6 DEF TypeOK
<1> QED
  BY <1>1, TypeInductive, PTL
-----------------------------------------------------------------------------
(* What a MainActivity is given and averages.                              *)

(* A timer that runs belongs to a dialog: the one it knows or, after two   *)
(* touches, one it forgot.  So Back cannot take the activity away.         *)
TimerInv ==
  \A m \in Mains :
    /\ timers[m] > 0 => progress[m] \/ stuck[m]
    /\ timers[m] > 1 => stuck[m]
    /\ ~OnStack(m) /\ life[m] # "destroyed" => timers[m] = 0

(* Calls and listeners are of activities that were created, listeners are  *)
(* registered once, and a point is made by a MainActivity that is on the   *)
(* stack or destroyed.                                                     *)
CallsKnown ==
  \A i \in DOMAIN todo :
    /\ life[todo[i].who] # "new"
    /\ todo[i].do = "average" =>
         /\ todo[i].who \in Mains
         /\ OnStack(todo[i].who) \/ life[todo[i].who] = "destroyed"
ListenersKnown ==
  /\ \A i \in DOMAIN listeners : life[listeners[i]] # "new"
  /\ \A i, j \in DOMAIN listeners : listeners[i] = listeners[j] => i = j
NewHasNothing ==
  \A m \in Mains : life[m] = "new" => collected[m] = {} /\ averaged[m] = {}

LEMMA TimerStep ==
  ASSUME TypeInv, TimerInv, Next
  PROVE  TimerInv'
<1>1. Ages /\ DialogType
  BY StackStep DEF TypeInv
<1>2. \A m \in Mains : m \in Activities
  BY DEF Activities
<1>3. \A m \in Mains :
        ~OnStack(m)' /\ life'[m] # "destroyed" =>
          timers[m] = 0
  <2> SUFFICES ASSUME NEW m \in Mains, ~OnStack(m)', life'[m] # "destroyed"
               PROVE  timers[m] = 0
    OBVIOUS
  <2>1. life[m] # "destroyed" /\ (OnStack(m) => ~Modal(m))
    BY <1>1, <1>2 DEF Ages
  <2>2. OnStack(m) => ~(timers[m] > 0)
    BY <2>1 DEF TimerInv, Modal
  <2>3. timers[m] \in Nat
    BY <1>1 DEF DialogType
  <2> QED
    BY <2>1, <2>2, <2>3 DEF TimerInv
<1>4. ASSUME NEW m \in Mains, Touch(m)
      PROVE  TimerInv'
  <2>1. ~stuck[m] /\ timers[m] \in Nat /\ OnStack(m)
    <3>1. stack # <<>> /\ Top = m /\ stack \in Seq(Activities)
      BY <1>4 DEF Touch, TypeInv, TodoInv
    <3>2. OnStack(m)
      BY <3>1, FrontIs DEF OnStack, Top
    <3> QED
      BY <1>1, <1>4, <3>2 DEF Touch, DialogType
  <2>2. timers[m] <= 1 /\ (timers[m] > 0 => progress[m])
    BY <2>1 DEF TimerInv
  <2>3. OnStack(m)'
    BY <1>4, <2>1 DEF Touch, shown, OnStack
  <2>4. timers'[m] = timers[m] + 1 /\ progress'[m] = TRUE
    BY <1>1, <1>4 DEF Touch, DialogType
  <2>5. timers[m] > 0 => stuck'[m]
    <3>1. stuck' = [stuck EXCEPT ![m] = progress[m]] /\ m \in DOMAIN stuck
      BY <1>1, <1>4 DEF Touch, DialogType
    <3>2. stuck'[m] = progress[m]
      BY <3>1
    <3> QED
      BY <2>2, <3>2
  <2>6. \A n \in Mains \ {m} : /\ timers'[n] = timers[n]
                               /\ progress'[n] = progress[n]
                               /\ stuck'[n] = stuck[n]
    <3>1. /\ timers' = [timers EXCEPT ![m] = @ + 1]
          /\ progress' = [progress EXCEPT ![m] = TRUE]
          /\ stuck' = [stuck EXCEPT ![m] = progress[m]]
      BY <1>4 DEF Touch
    <3> QED
      BY <1>1, <3>1 DEF DialogType
  <2>7. ASSUME NEW n \in Mains
        PROVE  /\ timers'[n] > 0 => progress'[n] \/ stuck'[n]
               /\ timers'[n] > 1 => stuck'[n]
               /\ ~OnStack(n)' /\ life'[n] # "destroyed" => timers'[n] = 0
    <3>1. CASE n = m
      <4>1. timers'[m] > 1 => timers[m] > 0
        BY <2>1, <2>4
      <4> QED
        BY <2>3, <2>4, <2>5, <3>1, <4>1
    <3>2. CASE n # m
      BY <1>3, <2>6, <3>2 DEF TimerInv
    <3> QED
      BY <3>1, <3>2
  <2> QED
    BY <2>7 DEF TimerInv
<1>5. ASSUME NEW m \in Mains, RoundEnds(m)
      PROVE  TimerInv'
  <2>1. timers' = [timers EXCEPT ![m] = @ - 1] /\ timers[m] > 0
          /\ progress' = [progress EXCEPT ![m] = FALSE] /\ stuck' = stuck
    BY <1>5 DEF RoundEnds
  <2>2. \A n \in Mains \ {m} : /\ timers'[n] = timers[n]
                               /\ progress'[n] = progress[n]
    BY <1>1, <2>1 DEF DialogType
  <2>3. timers'[m] = timers[m] - 1 /\ timers[m] \in Nat
    BY <1>1, <2>1 DEF DialogType
  <2>4. /\ timers'[m] > 0 => stuck'[m]
        /\ ~OnStack(m)' /\ life'[m] # "destroyed" => timers'[m] = 0
    <3>1. timers'[m] > 0 => timers[m] > 1
      BY <2>3
    <3>2. ~(timers[m] = 0)
      BY <2>1, <2>3
    <3> QED
      BY <1>3, <2>1, <3>1, <3>2 DEF TimerInv
  <2>5. timers'[m] > 1 => timers'[m] > 0
    BY <2>3
  <2>6. ASSUME NEW n \in Mains
        PROVE  /\ timers'[n] > 0 => progress'[n] \/ stuck'[n]
               /\ timers'[n] > 1 => stuck'[n]
               /\ ~OnStack(n)' /\ life'[n] # "destroyed" => timers'[n] = 0
    <3>1. CASE n = m
      BY <2>4, <2>5, <3>1
    <3>2. CASE n # m
      BY <1>3, <2>1, <2>2, <3>2 DEF TimerInv
    <3> QED
      BY <3>1, <3>2
  <2> QED
    BY <2>6 DEF TimerInv
<1>6. ASSUME UNCHANGED <<timers, progress>>, UNCHANGED stuck
      PROVE  TimerInv'
  BY <1>3, <1>6 DEF TimerInv
<1> QED
  BY <1>4, <1>5, <1>6, Changes

\* The calls of a callback are those of its activity, and make no point.
Only(q, S) == \A i \in DOMAIN q : q[i].who \in S /\ q[i].do # "average"

LEMMA CallsWho ==
  ASSUME NEW a \in Activities, NEW names \in Seq(CallNames)
  PROVE  \A i \in DOMAIN Calls(a, names) : Calls(a, names)[i].who = a
<1>1. PICK c : c = Calls(a, names)
  OBVIOUS
<1>2. \A i \in DOMAIN c : c[i] = [do |-> names[i], who |-> a]
  BY <1>1, CallsGiven
<1>3. \A i \in DOMAIN c : c[i].who = a
  BY <1>2
<1> QED
  BY <1>1, <1>3

LEMMA CallbackOnly ==
  ASSUME NEW a \in Activities
  PROVE  /\ Only(OnCreate(a), {a}) /\ Only(OnRestart(a), {a})
         /\ Only(OnPause(a), {a}) /\ Only(OnStop(a), {a})
         /\ Only(OnDestroy(a), {a}) /\ Only(Calls(a, <<"start">>), {a})
<1>1. ASSUME NEW names \in Seq(CallNames),
             \A i \in DOMAIN names : names[i] # "average"
      PROVE  Only(Calls(a, names), {a})
  <2>1. PICK c : c = Calls(a, names)
    OBVIOUS
  <2>2. /\ DOMAIN c = DOMAIN names
        /\ \A i \in DOMAIN c : c[i] = [do |-> names[i], who |-> a]
    BY <2>1, CallsGiven
  <2>3. \A i \in DOMAIN c : c[i].do = names[i] /\ c[i].who = a
    BY <2>2
  <2>4. Only(c, {a})
    BY <1>1, <2>2, <2>3 DEF Only
  <2> QED
    BY <2>1, <2>4
<1>2. \A n \in {<<"start">>, <<"stop">>, <<"release">>, <<"turnOn">>, <<"turnOff">>} :
        \A i \in DOMAIN n : n[i] # "average"
  OBVIOUS
<1>3. \A n \in {<<"stop", "remove">>, <<"turnOn", "add">>} :
        \A i \in DOMAIN n : n[i] # "average"
  OBVIOUS
<1>4. \A n \in {<<"turnOn", "add", "start">>, <<"add", "start", "turnOn">>} :
        \A i \in DOMAIN n : n[i] # "average"
  OBVIOUS
<1>5. /\ Only(Calls(a, <<"start">>), {a}) /\ Only(Calls(a, <<"stop">>), {a})
      /\ Only(Calls(a, <<"release">>), {a}) /\ Only(Calls(a, <<"turnOn">>), {a})
      /\ Only(Calls(a, <<"turnOff">>), {a})
  BY <1>1, <1>2, Names
<1>6. /\ Only(Calls(a, <<"stop", "remove">>), {a})
      /\ Only(Calls(a, <<"turnOn", "add">>), {a})
  BY <1>1, <1>3, Names
<1>7. /\ Only(Calls(a, <<"turnOn", "add", "start">>), {a})
      /\ Only(Calls(a, <<"add", "start", "turnOn">>), {a})
  BY <1>1, <1>4, Names
<1>8. Only(Calls(a, <<>>), {a}) /\ Only(<<>>, {a})
  <2>1. \A i \in DOMAIN <<>> : FALSE
    OBVIOUS
  <2> QED
    BY <1>1, <2>1, Names DEF Only
<1> QED
  BY <1>5, <1>6, <1>7, <1>8
     DEF OnCreate, OnRestart, OnPause, OnStop, OnDestroy

LEMMA ConcatOnly ==
  ASSUME NEW p \in Seq(CallsOf), NEW q \in Seq(CallsOf), NEW S, NEW T, NEW U,
         Only(p, S), Only(q, T), S \subseteq U, T \subseteq U
  PROVE  p \o q \in Seq(CallsOf) /\ Only(p \o q, U)
<1>1. /\ Len(p) \in Nat /\ Len(q) \in Nat /\ DOMAIN p = 1..Len(p)
      /\ DOMAIN q = 1..Len(q)
  BY LenProperties
<1>2. PICK r : r = p \o q
  OBVIOUS
<1>3. r \in Seq(CallsOf) /\ DOMAIN r = 1..(Len(p) + Len(q))
  BY <1>2, ConcatProperties, LenProperties
<1>4. \A i \in DOMAIN r : r[i] = IF i <= Len(p) THEN p[i] ELSE q[i - Len(p)]
  BY <1>1, <1>2, <1>3, ConcatProperties
<1>5. \A i \in DOMAIN r : (i \in DOMAIN p /\ r[i] = p[i])
                          \/ (i - Len(p) \in DOMAIN q /\ r[i] = q[i - Len(p)])
  BY <1>1, <1>3, <1>4
<1>6. Only(r, U)
  BY <1>5 DEF Only
<1> QED
  BY <1>2, <1>3, <1>6

\* A move of the user leaves calls of activities that were created.
LEMMA UserCalls ==
  ASSUME TypeInv, Next, User
  PROVE  \A i \in DOMAIN todo' : /\ life'[todo'[i].who] # "new"
                                 /\ todo'[i].do # "average"
<1>1. PICK U : U = {a \in Activities : life'[a] # "new"}
  OBVIOUS
<1>2. TodoInv /\ LifeInv /\ StackInv
  BY DEF TypeInv
<1>3. \A a \in Activities : life[a] # "new" => a \in U
  BY <1>1, <1>2, StackStep DEF Ages
<1>4. stack # <<>> => Top \in U /\ Top \in Activities
  <2>1. stack # <<>> => Top \in Activities /\ life[Top] # "new"
    BY <1>2, FrontIs, LastType DEF TodoInv, StackInv, Top
  <2> QED
    BY <1>3, <2>1
<1>5. SUFFICES Only(todo', U)
  BY <1>1 DEF Only
<1>6. ASSUME NEW a \in U, NEW q, Only(q, {a})
      PROVE  Only(q, U)
  BY <1>6 DEF Only
<1>7. ASSUME NEW a \in Activities, Open(a)
      PROVE  Only(todo', U)
  <2>1. a \in U
    BY <1>1, <1>7 DEF Open, Moves
  <2>2. PICK c : c = OnCreate(a)
    OBVIOUS
  <2>3. c \in Seq(CallsOf) /\ Only(c, {a})
    BY <2>2, CallbacksType, CallbackOnly
  <2>4. CASE todo' = c
    BY <1>6, <2>1, <2>3, <2>4
  <2>5. CASE stack # <<>> /\ todo' = OnPause(Top) \o c
    <3>1. PICK p : p = OnPause(Top)
      OBVIOUS
    <3>2. p \in Seq(CallsOf) /\ Only(p, {Top}) /\ {Top} \subseteq U
      BY <1>4, <2>5, <3>1, CallbacksType, CallbackOnly
    <3>3. {a} \subseteq U
      BY <2>1
    <3>4. Only(p \o c, U)
      BY <2>3, <3>2, <3>3, ConcatOnly
    <3> QED
      BY <2>5, <3>1, <3>4
  <2> QED
    BY <1>7, <2>2, <2>4, <2>5 DEF Open, Moves
<1>8. ASSUME NEW b \in Activities, Rotate(b)
      PROVE  Only(todo', U)
  <2>1. stack # <<>> /\ Top \in Activities /\ {Top} \subseteq U
    BY <1>4, <1>8 DEF Rotate
  <2>2. {b} \subseteq U
    <3>1. life' = [life EXCEPT ![Top] = "destroyed", ![b] = "resumed"]
      BY <1>8 DEF Rotate
    <3>2. life'[b] = "resumed"
      BY <1>2, <2>1, <3>1 DEF LifeInv
    <3> QED
      BY <1>1, <3>2
  <2>3. PICK p : p = OnPause(Top)
    OBVIOUS
  <2>4. PICK s : s = OnStop(Top)
    OBVIOUS
  <2>5. PICK d : d = OnDestroy(Top)
    OBVIOUS
  <2>6. PICK c : c = OnCreate(b)
    OBVIOUS
  <2>7. todo' = p \o s \o d \o c
    BY <1>8, <2>3, <2>4, <2>5, <2>6 DEF Rotate
  <2>8. /\ p \in Seq(CallsOf) /\ Only(p, {Top})
        /\ s \in Seq(CallsOf) /\ Only(s, {Top})
        /\ d \in Seq(CallsOf) /\ Only(d, {Top})
    BY <2>1, <2>3, <2>4, <2>5, CallbacksType, CallbackOnly
  <2>9. c \in Seq(CallsOf) /\ Only(c, {b})
    BY <2>6, CallbacksType, CallbackOnly
  <2>10. PICK ps : ps = p \o s
    OBVIOUS
  <2>11. ps \in Seq(CallsOf) /\ Only(ps, {Top})
    BY <2>8, <2>10, ConcatOnly
  <2>12. PICK psd : psd = ps \o d
    OBVIOUS
  <2>13. psd \in Seq(CallsOf) /\ Only(psd, {Top})
    BY <2>8, <2>11, <2>12, ConcatOnly
  <2>14. Only(psd \o c, U)
    BY <2>1, <2>2, <2>9, <2>13, ConcatOnly
  <2> QED
    BY <2>7, <2>10, <2>12, <2>14
<1>9. CASE Back
  <2>1. stack # <<>> /\ Top \in Activities /\ Top \in U /\ {Top} \subseteq U
    BY <1>4, <1>9 DEF Back
  <2>2. PICK p : p = OnPause(Top)
    OBVIOUS
  <2>3. p \in Seq(CallsOf) /\ Only(p, {Top})
    BY <2>1, <2>2, CallbacksType, CallbackOnly
  <2>4. CASE todo' = p
    BY <1>6, <2>1, <2>3, <2>4
  <2>5. CASE Front(stack) # <<>>
    <3>1. PICK f : f = Last(Front(stack))
      OBVIOUS
    <3>2. f \in Activities /\ f \in U
      <4>1. /\ Front(stack) \in Seq(Activities)
            /\ \A i \in DOMAIN Front(stack) :
                 i \in DOMAIN stack /\ Front(stack)[i] = stack[i]
        BY <1>2, <2>1, FrontIs DEF TodoInv
      <4>2. \E i \in DOMAIN stack : f = stack[i]
        <5>1. Len(Front(stack)) \in DOMAIN Front(stack)
                /\ f = Front(stack)[Len(Front(stack))]
          BY <2>5, <3>1, <4>1, FrontIs
        <5> QED
          BY <4>1, <5>1
      <4>3. f \in Activities
        BY <2>5, <3>1, <4>1, LastType
      <4>4. life[f] # "new"
        BY <1>2, <4>2 DEF StackInv
      <4> QED
        BY <1>3, <4>3, <4>4
    <3>3. PICK r : r = OnRestart(f)
      OBVIOUS
    <3>4. r \in Seq(CallsOf) /\ Only(r, {f}) /\ {f} \subseteq U
      BY <3>2, <3>3, CallbacksType, CallbackOnly
    <3>5. <<>> \in Seq(CallsOf) /\ Only(<<>>, {f})
      BY DEF Only
    <3>6. Only(p \o r, U)
      BY <2>1, <2>3, <3>4, ConcatOnly
    <3>7. PICK e : e = <<>>
      OBVIOUS
    <3>8. e \in Seq(CallsOf) /\ Only(e, {f})
      BY <3>5, <3>7
    <3>9. Only(p \o e, U)
      BY <2>1, <2>3, <3>4, <3>8, ConcatOnly
    <3>10. todo' = p \o r \/ todo' = p \o <<>>
      BY <1>9, <2>2, <2>5, <3>1, <3>3 DEF Back, Moves
    <3> QED
      BY <3>6, <3>7, <3>9, <3>10
  <2>6. Front(stack) = <<>> => todo' = p
    BY <1>9, <2>2 DEF Back, Moves
  <2> QED
    BY <2>4, <2>5, <2>6
<1>10. CASE Leave \/ Return
  <2>1. Top \in Activities /\ Top \in U
    BY <1>2, <1>4, <1>10 DEF Leave, Return, TodoInv
  <2>2. PICK p : p = OnPause(Top)
    OBVIOUS
  <2>3. PICK r : r = OnRestart(Top)
    OBVIOUS
  <2>4. Only(p, U) /\ Only(r, U) /\ Only(<<>>, U)
    <3>1. Only(p, {Top}) /\ Only(r, {Top})
      BY <2>1, <2>2, <2>3, CallbackOnly
    <3>2. Only(<<>>, U)
      BY DEF Only
    <3> QED
      BY <1>6, <2>1, <3>1, <3>2
  <2>5. todo' = p \/ todo' = r \/ todo' = <<>>
    BY <1>10, <2>2, <2>3 DEF Leave, Return, Moves
  <2> QED
    BY <2>4, <2>5
<1>11. ASSUME NEW m \in Mains, Touch(m)
       PROVE  Only(todo', U)
  <2>1. m \in U /\ m \in Activities
    BY <1>4, <1>11 DEF Touch
  <2>2. PICK c : c = Calls(m, <<"start">>)
    OBVIOUS
  <2>3. Only(c, {m})
    BY <2>1, <2>2, CallbackOnly
  <2>4. todo' = c
    BY <1>11, <2>2 DEF Touch
  <2> QED
    BY <1>6, <2>1, <2>3, <2>4
<1> QED
  BY <1>7, <1>8, <1>9, <1>10, <1>11 DEF User

LEMMA TailElems ==
  ASSUME NEW S, NEW q \in Seq(S), q # <<>>
  PROVE  \A i \in DOMAIN Tail(q) : \E j \in DOMAIN q : Tail(q)[i] = q[j]
<1>1. Len(q) \in Nat /\ Len(q) >= 1 /\ DOMAIN q = 1..Len(q)
  BY LenProperties, EmptySeq
<1>2. /\ Tail(q) \in Seq(S) /\ Len(Tail(q)) = Len(q) - 1
      /\ \A i \in 1..Len(Tail(q)) : Tail(q)[i] = q[i + 1]
  BY <1>1, HeadTailProperties
<1>3. DOMAIN Tail(q) = 1..(Len(q) - 1)
  BY <1>2, LenProperties
<1>4. \A i \in DOMAIN Tail(q) : i + 1 \in DOMAIN q /\ Tail(q)[i] = q[i + 1]
  BY <1>1, <1>2, <1>3
<1> QED
  BY <1>4

LEMMA CallsKnownStep ==
  ASSUME TypeInv, TimerInv, CallsKnown, Next
  PROVE  CallsKnown'
<1>1. TodoInv /\ DialogType /\ Ages
  BY StackStep DEF TypeInv
<1>2. CASE User
  BY <1>2, UserCalls DEF CallsKnown
<1>3. CASE ~User
  <2>1. UNCHANGED stack
    BY <1>3
       DEF Next, System, UIStep, Fires, DialogFocused, Hide, Destroy, Skip,
           TurnOn, TurnOnRefused, AddListener, RemoveListener, StartSampling,
           StopSampling, TurnOff, Continues, StartSamplingThrows,
           ReleaseThrows, TurnOffThrows, AverageThrows, Throws, Average,
           RoundEnds, RoundEndsThrows, Hear, Take, Ends, Fire, FireEnds,
           FireThrows, ScannerThrows, own, shown
  <2>2. \A a \in Activities : OnStack(a)' <=> OnStack(a)
    BY <2>1 DEF OnStack
  <2>3. \A i \in DOMAIN todo : todo[i].who \in Activities
    <3>1. \A i \in DOMAIN todo : todo[i] \in CallsOf
      BY <1>1, ElementOfSeq, LenProperties DEF TodoInv
    <3> QED
      BY <3>1 DEF CallsOf
  <2>4. ASSUME \A i \in DOMAIN todo' : \E j \in DOMAIN todo : todo'[i] = todo[j]
        PROVE  CallsKnown'
    <3> SUFFICES ASSUME NEW i \in DOMAIN todo'
                 PROVE  /\ life'[todo'[i].who] # "new"
                        /\ todo'[i].do = "average" =>
                             /\ todo'[i].who \in Mains
                             /\ \/ \E k \in DOMAIN stack' : stack'[k] = todo'[i].who
                                \/ life'[todo'[i].who] = "destroyed"
      BY DEF CallsKnown, OnStack
    <3>1. PICK j \in DOMAIN todo : todo'[i] = todo[j]
      BY <2>4
    <3>2. todo[j].who \in Activities
      BY <2>3
    <3> QED
      BY <1>1, <2>1, <3>1, <3>2 DEF CallsKnown, Ages, OnStack
  <2>5. ASSUME NEW a \in Activities, NEW q, todo' = q, Only(q, {a}),
               life'[a] # "new"
        PROVE  CallsKnown'
    BY <2>5 DEF CallsKnown, Only
  <2>6. ASSUME NEW a \in Activities, Hide(a) \/ Destroy(a)
        PROVE  CallsKnown'
    <3>1. life'[a] # "new"
      BY <2>6 DEF Hide, Destroy, TypeInv, LifeInv
    <3>2. PICK s : s = OnStop(a)
      OBVIOUS
    <3>3. PICK d : d = OnDestroy(a)
      OBVIOUS
    <3>4. (todo' = s \/ todo' = d) /\ Only(s, {a}) /\ Only(d, {a})
      BY <2>6, <3>2, <3>3, CallbackOnly DEF Hide, Destroy
    <3> QED
      BY <2>5, <3>1, <3>4
  <2>7. ASSUME NEW m \in Mains, RoundEnds(m)
        PROVE  CallsKnown'
    <3>1. m \in Activities /\ timers[m] > 0 /\ timers[m] \in Nat
            /\ UNCHANGED life
      BY <1>1, <2>7 DEF RoundEnds, Activities, DialogType, shown
    <3>2. OnStack(m) \/ life[m] = "destroyed"
      BY <3>1 DEF TimerInv
    <3>3. life[m] # "new"
      BY <3>2 DEF TypeInv, StackInv, OnStack
    <3>4. PICK c : c = Calls(m, <<"stop", "average">>)
      OBVIOUS
    <3>5. <<"stop", "average">> \in Seq(CallNames)
      BY Names
    <3>6. \A i \in DOMAIN c : c[i].who = m
      BY <3>1, <3>4, <3>5, CallsWho
    <3>7. todo' = c
      BY <2>7, <3>4 DEF RoundEnds
    <3> QED
      BY <2>1, <3>1, <3>2, <3>3, <3>6, <3>7 DEF CallsKnown, OnStack
  <2>8. CASE todo # <<>> /\ todo' = Tail(todo)
    BY <1>1, <2>4, <2>8, TailElems DEF TodoInv
  <2>9. CASE todo' = <<>>
    BY <2>4, <2>9
  <2>10. CASE UNCHANGED todo
    BY <2>4, <2>10
  <2> QED
    BY <1>3, <2>6, <2>7, <2>8, <2>9, <2>10, CallSteps DEF CallStep, Calling
<1> QED
  BY <1>2, <1>3

(* What a MainActivity was given, and which scan thread is going to give   *)
(* it a batch.                                                             *)
Given(m) == collected[m] \cup averaged[m]
ToGive(th, m) ==
  /\ stream[th].at = "fires" /\ ~stream[th].changed
  /\ \E k \in DOMAIN listeners : k >= stream[th].next /\ listeners[k] = m

(* What is waiting, the batches and what is going to be given are new to   *)
(* whom they are going to.                                                 *)
BatchesApart ==
  /\ \A th \in Threads : /\ fingerprints \cap stream[th].batch = {}
                         /\ stream[th].batch \subseteq 1..Len(heardIn)
  /\ \A th, u \in Threads : th # u => stream[th].batch \cap stream[u].batch = {}
GivenOnce ==
  /\ \A m \in Mains : /\ Given(m) \cap fingerprints = {}
                      /\ Given(m) \subseteq 1..Len(heardIn)
  /\ \A m \in Mains, th \in Threads :
       ToGive(th, m) => stream[th].batch \cap Given(m) = {}

(* The points of one activity have nothing in common with what another,    *)
(* which is on the stack, is given: it was put there after they were made. *)
PointsInv ==
  /\ \A m \in Mains : averaged[m] \cap collected[m] = {}
  /\ \A m, n \in Mains :
       m # n /\ life[m] # "destroyed" /\ life[n] # "destroyed" =>
         /\ averaged[m] \cap averaged[n] = {}
         /\ OnStack(n) =>
              /\ averaged[m] \cap collected[n] = {}
              /\ \A th \in Threads :
                   ToGive(th, n) => stream[th].batch \cap averaged[m] = {}

(* Nothing is heard, taken or given.                                       *)
Quiet ==
  /\ UNCHANGED heardIn /\ fingerprints' \in {fingerprints, {}}
  /\ \A th \in Threads : stream'[th].batch \in {stream[th].batch, {}}
  /\ \A th \in Threads, m \in Mains : ToGive(th, m)' => ToGive(th, m)

LEMMA SameStream ==
  ASSUME UNCHANGED <<stream, listeners, heardIn>>,
         fingerprints' \in {fingerprints, {}}
  PROVE  Quiet
BY DEF Quiet, ToGive

LEMMA SameCollector ==
  ASSUME UNCHANGED collector
  PROVE  Quiet
BY SameStream DEF collector

LEMMA QuietThreads ==
  ASSUME StreamType, NEW th \in Threads,
         Collector!TurnOn(th) \/ Collector!FireEnds(th) \/ Collector!Ends(th)
  PROVE  Quiet
<1>1. /\ UNCHANGED <<heardIn, listeners>> /\ fingerprints' \in {fingerprints, {}}
      /\ \A u \in Threads \ {th} : stream'[u] = stream[u]
      /\ stream'[th].at # "fires" /\ stream'[th].batch \in {stream[th].batch, {}}
  <2>1. CASE Collector!TurnOn(th)
    <3>1. stream' = [stream EXCEPT ![th] = [stream[th] EXCEPT !.at = "runs"]]
      BY <2>1 DEF Collector!TurnOn
    <3>2. PICK r : r = [stream[th] EXCEPT !.at = "runs"]
      OBVIOUS
    <3>3. r.at = "runs" /\ r.batch = stream[th].batch
      BY <3>2 DEF StreamType, Collector!Streams
    <3>4. stream'[th] = r /\ \A u \in Threads \ {th} : stream'[u] = stream[u]
      BY <3>1, <3>2 DEF StreamType
    <3> QED
      BY <2>1, <3>3, <3>4 DEF Collector!TurnOn
  <2>2. CASE Collector!FireEnds(th) \/ Collector!Ends(th)
    <3>1. PICK r : /\ r.at # "fires" /\ r.batch = {}
                   /\ stream' = [stream EXCEPT ![th] = r]
      BY <2>2 DEF Collector!FireEnds, Collector!Ends, Collector!NoThread
    <3>2. stream'[th] = r /\ \A u \in Threads \ {th} : stream'[u] = stream[u]
      BY <3>1 DEF StreamType
    <3> QED
      BY <2>2, <3>1, <3>2 DEF Collector!FireEnds, Collector!Ends
  <2> QED
    BY <2>1, <2>2
<1>2. \A u \in Threads : stream'[u].batch \in {stream[u].batch, {}}
  BY <1>1
<1>3. \A u \in Threads, m \in Mains : ToGive(u, m)' => ToGive(u, m)
  BY <1>1 DEF ToGive
<1> QED
  BY <1>1, <1>2, <1>3 DEF Quiet

LEMMA QuietListeners ==
  ASSUME StreamType, NEW ls, Collector!ChangeListeners(ls)
  PROVE  Quiet
<1>1. ASSUME NEW th \in Threads
      PROVE  /\ stream'[th].batch = stream[th].batch
             /\ stream'[th].at = "fires" => stream'[th].changed
  <2>1. PICK b : b = (stream[th].changed \/ stream[th].at = "fires")
    OBVIOUS
  <2>2. stream'[th] = [stream[th] EXCEPT !.changed = b]
    BY <2>1, <1>1 DEF Collector!ChangeListeners
  <2>3. stream[th] \in Collector!Streams
    BY DEF StreamType
  <2>4. /\ stream'[th].batch = stream[th].batch /\ stream'[th].at = stream[th].at
        /\ stream'[th].changed = b
    BY <2>2, <2>3 DEF Collector!Streams
  <2> QED
    BY <2>1, <2>4
<1>2. \A th \in Threads, m \in Mains : ~ToGive(th, m)'
  BY <1>1 DEF ToGive
<1>3. UNCHANGED <<heardIn, fingerprints>>
  BY DEF Collector!ChangeListeners
<1> QED
  BY <1>1, <1>2, <1>3 DEF Quiet

LEMMA GiveSteps ==
  ASSUME StreamType, Next
  PROVE  \/ Quiet /\ UNCHANGED <<collected, averaged>>
         \/ Quiet /\ Average
         \/ Hear
         \/ \E th \in Threads : Take(th) \/ Fire(th)
<1>1. CASE User \/ System
  <2>1. UNCHANGED collector /\ UNCHANGED samples
    BY <1>1 DEF User, System, Open, Moves, Back, Leave, Return, Rotate, Touch,
                DialogFocused, Hide, Destroy
  <2> QED
    BY <2>1, SameCollector DEF samples
<1>2. CASE TurnOn
  <2>1. UNCHANGED samples
    BY <1>2 DEF TurnOn, Skip
  <2>2. CASE UNCHANGED collector
    BY <2>1, <2>2, SameCollector DEF samples
  <2>3. ~(UNCHANGED collector) => \E th \in Threads : Collector!TurnOn(th)
    BY <1>2 DEF TurnOn, Skip
  <2> QED
    BY <2>1, <2>2, <2>3, QuietThreads DEF samples
<1>3. CASE AddListener \/ RemoveListener
  <2>1. UNCHANGED samples
    BY <1>3 DEF AddListener, RemoveListener, Skip
  <2>2. \/ UNCHANGED collector
        \/ \E ls : Collector!ChangeListeners(ls)
    BY <1>3 DEF AddListener, RemoveListener, Skip, Collector!AddListener,
                Collector!RemoveListener
  <2> QED
    BY <2>1, <2>2, SameCollector, QuietListeners DEF samples
<1>4. CASE TurnOnRefused \/ StartSampling \/ StopSampling \/ TurnOff
             \/ StartSamplingThrows \/ ReleaseThrows \/ TurnOffThrows
             \/ AverageThrows
             \/ \E m \in Mains : RoundEnds(m) \/ RoundEndsThrows(m)
  <2>1. UNCHANGED samples
    BY <1>4 DEF TurnOnRefused, StartSampling, StopSampling, TurnOff, Skip,
                StartSamplingThrows, ReleaseThrows, TurnOffThrows,
                AverageThrows, Throws, RoundEnds, RoundEndsThrows
  <2>2. UNCHANGED <<stream, listeners, heardIn>>
          /\ fingerprints' \in {fingerprints, {}}
    BY <1>4 DEF TurnOnRefused, StartSampling, StopSampling, TurnOff, Skip,
                StartSamplingThrows, ReleaseThrows, TurnOffThrows,
                AverageThrows, RoundEnds, RoundEndsThrows,
                Collector!TurnOnFails, Collector!StartSampling,
                Collector!StopSampling, Collector!TurnOff,
                Collector!StartSamplingThrows, Collector!CallThrows,
                Collector!Dies, collector
  <2> QED
    BY <2>1, <2>2, SameStream DEF samples
<1>5. CASE Continues
  <2>1. UNCHANGED samples
    BY <1>5 DEF Continues
  <2>2. \/ \E ls : Collector!ChangeListeners(ls)
        \/ UNCHANGED <<stream, listeners, heardIn, fingerprints>>
    BY <1>5 DEF Continues, Collector!UIContinues, Collector!TurnOffClears,
                Collector!TurnOffEnds, Collector!StartSamplingEnds
  <2> QED
    BY <2>1, <2>2, SameStream, QuietListeners DEF samples
<1>6. CASE Average
  BY <1>6, SameCollector DEF Average
<1>7. ASSUME NEW th \in Threads, Ends(th) \/ FireEnds(th)
      PROVE  Quiet /\ UNCHANGED <<collected, averaged>>
  BY <1>7, QuietThreads DEF Ends, FireEnds, samples
<1>8. ASSUME NEW th \in Threads, FireThrows(th) \/ ScannerThrows(th)
      PROVE  Quiet /\ UNCHANGED <<collected, averaged>>
  <2>1. UNCHANGED <<stream, listeners, heardIn, fingerprints>>
          /\ UNCHANGED samples
    BY <1>8 DEF FireThrows, ScannerThrows, Throws, Collector!FireThrows,
                Collector!Breaks, Collector!Dies
  <2> QED
    BY <2>1, SameStream DEF samples
<1> QED
  BY <1>1, <1>2, <1>3, <1>4, <1>5, <1>6, <1>7, <1>8 DEF Next, UIStep, Fires

LEMMA RemoveIs ==
  ASSUME NEW S, NEW q \in Seq(S), NEW i \in DOMAIN q
  PROVE  /\ DOMAIN q = 1..Len(q) /\ Len(q) \in Nat
         /\ DOMAIN RemoveAt(q, i) = 1..(Len(q) - 1)
         /\ \A k \in DOMAIN RemoveAt(q, i) :
              RemoveAt(q, i)[k] = IF k < i THEN q[k] ELSE q[k + 1]
<1>1. Len(q) \in Nat /\ i \in 1..Len(q) /\ DOMAIN q = 1..Len(q)
  BY LenProperties
<1>2. PICK a : a = SubSeq(q, 1, i - 1)
  OBVIOUS
<1>3. PICK b : b = SubSeq(q, i + 1, Len(q))
  OBVIOUS
<1>4. /\ a \in Seq(S) /\ Len(a) = i - 1 /\ \A k \in 1..(i - 1) : a[k] = q[k]
  BY <1>1, <1>2, SubSeqProperties
<1>5. /\ b \in Seq(S) /\ Len(b) = Len(q) - i
      /\ \A k \in 1..(Len(q) - i) : b[k] = q[i + k]
  BY <1>1, <1>3, SubSeqProperties
<1>6. PICK r : r = RemoveAt(q, i)
  OBVIOUS
<1>7. r = a \o b
  BY <1>2, <1>3, <1>6 DEF RemoveAt
<1>8. r \in Seq(S) /\ Len(r) = Len(a) + Len(b)
        /\ \A k \in 1..Len(r) : r[k] = IF k <= Len(a) THEN a[k] ELSE b[k - Len(a)]
  BY <1>4, <1>5, <1>7, ConcatProperties
<1>9. DOMAIN r = 1..(Len(q) - 1)
  <2>1. Len(r) = Len(q) - 1
    BY <1>1, <1>4, <1>5, <1>8
  <2> QED
    BY <1>8, <2>1, LenProperties
<1>10. ASSUME NEW k \in DOMAIN r
       PROVE  r[k] = IF k < i THEN q[k] ELSE q[k + 1]
  <2>1. k \in 1..Len(r) /\ k \in Nat /\ k <= Len(q) - 1 /\ k >= 1
    BY <1>1, <1>4, <1>5, <1>8, <1>9
  <2>2. CASE k < i
    <3>1. k <= Len(a) /\ k \in 1..(i - 1)
      BY <1>1, <1>4, <2>1, <2>2
    <3> QED
      BY <1>4, <1>8, <2>1, <2>2, <3>1
  <2>3. CASE ~(k < i)
    <3>1. ~(k <= Len(a)) /\ k - Len(a) \in 1..(Len(q) - i)
            /\ i + (k - Len(a)) = k + 1
      BY <1>1, <1>4, <2>1, <2>3
    <3>2. r[k] = b[k - Len(a)]
      BY <1>8, <2>1, <3>1
    <3>3. b[k - Len(a)] = q[i + (k - Len(a))]
      BY <1>5, <3>1
    <3>4. q[i + (k - Len(a))] = q[k + 1]
      BY <3>1
    <3> QED
      BY <2>3, <3>2, <3>3, <3>4
  <2> QED
    BY <2>2, <2>3
<1> QED
  BY <1>1, <1>6, <1>9, <1>10

LEMMA ListenersKnownStep ==
  ASSUME TypeInv, CallsKnown, ListenersKnown, Next
  PROVE  ListenersKnown'
<1>1. TodoInv /\ Ages /\ listeners \in Seq(Activities)
  BY StackStep DEF TypeInv, Collector!TypeOK
<1>2. \A i \in DOMAIN listeners : life'[listeners[i]] # "new"
  <2>1. \A i \in DOMAIN listeners : listeners[i] \in Activities
    BY <1>1, ElementOfSeq, LenProperties
  <2> QED
    BY <1>1, <2>1 DEF Ages, ListenersKnown
<1>3. CASE UNCHANGED listeners
  BY <1>2, <1>3 DEF ListenersKnown
<1>4. CASE listeners' = <<>>
  BY <1>4 DEF ListenersKnown
<1>5. ASSUME todo # <<>>, ~Contains(listeners, Who),
             listeners' = Append(listeners, Who)
      PROVE  ListenersKnown'
  <2>1. Who \in Activities /\ life'[Who] # "new"
    <3>1. 1 \in DOMAIN todo
      BY <1>1, <1>5, FirstIs DEF TodoInv
    <3>2. Who \in Activities /\ life[Who] # "new"
      BY <1>1, <1>5, <3>1, WhoIs DEF CallsKnown, Who
    <3> QED
      BY <1>1, <3>2 DEF Ages
  <2>2. PICK w : w = Who
    OBVIOUS
  <2>3. PICK n : n = Len(listeners)
    OBVIOUS
  <2>4. /\ n \in Nat /\ DOMAIN listeners = 1..n /\ DOMAIN listeners' = 1..(n + 1)
        /\ listeners'[n + 1] = w
        /\ \A i \in 1..n : listeners'[i] = listeners[i]
    BY <1>1, <1>5, <2>1, <2>2, <2>3, AppendIs
  <2>5. \A i \in 1..(n + 1) : i = n + 1 \/ i \in 1..n
    BY <2>4
  <2>6. \A i \in 1..n : listeners[i] # w
    BY <1>5, <2>2, <2>3 DEF Contains
  <2>7. \A i, j \in 1..n : listeners[i] = listeners[j] => i = j
    BY <2>4 DEF ListenersKnown
  <2>8. \A i, j \in 1..(n + 1) : listeners'[i] = listeners'[j] => i = j
    BY <2>4, <2>5, <2>6, <2>7
  <2>9. \A i \in 1..(n + 1) : life'[listeners'[i]] # "new"
    BY <1>2, <2>1, <2>2, <2>4, <2>5
  <2> QED
    BY <2>4, <2>8, <2>9 DEF ListenersKnown
<1>6. ASSUME NEW i \in DOMAIN listeners, listeners' = RemoveAt(listeners, i)
      PROVE  ListenersKnown'
  <2>1. PICK n : n = Len(listeners)
    OBVIOUS
  <2>2. /\ n \in Nat /\ DOMAIN listeners = 1..n /\ DOMAIN listeners' = 1..(n - 1)
        /\ \A k \in 1..(n - 1) : listeners'[k] = IF k < i THEN listeners[k]
                                                 ELSE listeners[k + 1]
    BY <1>1, <1>6, <2>1, RemoveIs
  <2>3. \A k \in 1..(n - 1) : k \in 1..n /\ k + 1 \in 1..n
    BY <2>2
  <2>4. \A k \in 1..(n - 1) : life'[listeners'[k]] # "new"
    BY <1>2, <2>2, <2>3
  <2>5. ASSUME NEW j \in 1..(n - 1), NEW k \in 1..(n - 1),
               listeners'[j] = listeners'[k]
        PROVE  j = k
    <3>1. PICK a \in 1..n : a = (IF j < i THEN j ELSE j + 1)
                              /\ listeners'[j] = listeners[a]
      BY <2>2, <2>3
    <3>2. PICK b \in 1..n : b = (IF k < i THEN k ELSE k + 1)
                              /\ listeners'[k] = listeners[b]
      BY <2>2, <2>3
    <3>3. a = b
      BY <2>2, <2>5, <3>1, <3>2 DEF ListenersKnown
    <3> QED
      BY <2>2, <3>1, <3>2, <3>3
  <2> QED
    BY <2>2, <2>4, <2>5 DEF ListenersKnown
<1>7. \/ UNCHANGED listeners \/ listeners' = <<>>
      \/ /\ todo # <<>> /\ ~Contains(listeners, Who)
         /\ listeners' = Append(listeners, Who)
      \/ \E i \in DOMAIN listeners : listeners' = RemoveAt(listeners, i)
  <2>1. CASE AddListener
    BY <2>1 DEF AddListener, Calling, Collector!AddListener,
                Collector!ChangeListeners, Collector!Contains, Contains
  <2>2. CASE RemoveListener
    BY <2>2 DEF RemoveListener, Skip, collector, Collector!RemoveListener,
                Collector!ChangeListeners, Collector!RemoveAt, RemoveAt
  <2>3. CASE Continues
    BY <2>3 DEF Continues, Collector!UIContinues, Collector!TurnOffClears,
                Collector!ChangeListeners, Collector!TurnOffEnds,
                Collector!StartSamplingEnds
  <2>4. CASE User \/ System
    BY <2>4 DEF User, System, Open, Moves, Back, Leave, Return, Rotate, Touch,
                DialogFocused, Hide, Destroy, collector
  <2>5. CASE TurnOn
    <3>1. ASSUME NEW th \in Threads, Collector!TurnOn(th)
          PROVE  UNCHANGED listeners
      BY <3>1 DEF Collector!TurnOn
    <3> QED
      BY <2>5, <3>1 DEF TurnOn, Skip, collector
  <2>6. ASSUME NEW th \in Threads,
             Take(th) \/ Fires(th) \/ ScannerThrows(th) \/ Ends(th)
        PROVE  UNCHANGED listeners
    BY <2>6 DEF Take, Fires, Fire, FireEnds, FireThrows, ScannerThrows, Ends,
                Collector!Take, Collector!FireNext, Collector!FireEnds,
                Collector!FireThrows, Collector!Breaks, Collector!Dies,
                Collector!Ends
  <2>7. CASE Hear \/ (UIStep /\ ~TurnOn /\ ~AddListener /\ ~RemoveListener
                       /\ ~Continues)
    BY <2>7 DEF UIStep, Skip, TurnOnRefused, StartSampling, StopSampling,
                TurnOff, StartSamplingThrows, ReleaseThrows, TurnOffThrows,
                AverageThrows, Average, RoundEnds, RoundEndsThrows, Hear,
                collector, Collector!Hear, Collector!TurnOnFails,
                Collector!TurnOff, Collector!StartSampling,
                Collector!StopSampling, Collector!Dies, Collector!CallThrows,
                Collector!StartSamplingThrows
  <2> QED
    BY <2>1, <2>2, <2>3, <2>4, <2>5, <2>6, <2>7 DEF Next
<1> QED
  BY <1>3, <1>4, <1>5, <1>6, <1>7

LEMMA TakeEffect ==
  ASSUME StreamType, NEW th \in Threads, Take(th)
  PROVE  /\ fingerprints' = {} /\ stream'[th].batch = fingerprints
         /\ \A u \in Threads \ {th} : stream'[u] = stream[u]
         /\ UNCHANGED <<heardIn, listeners, collected, averaged, life, stack>>
<1>1. PICK r : /\ r.batch = fingerprints
               /\ stream' = [stream EXCEPT ![th] = r]
  BY DEF Take, Collector!Take
<1>2. stream'[th] = r /\ \A u \in Threads \ {th} : stream'[u] = stream[u]
  BY <1>1 DEF StreamType
<1> QED
  BY <1>1, <1>2 DEF Take, Collector!Take, own, shown, samples

LEMMA FireEffect ==
  ASSUME StreamType, SampleType, listeners \in Seq(Activities),
         NEW th \in Threads, Fire(th)
  PROVE  /\ stream[th].next \in DOMAIN listeners
         /\ Receiver(th) = listeners[stream[th].next]
         /\ stream[th].at = "fires" /\ ~stream[th].changed
         /\ stream'[th].batch = stream[th].batch
         /\ stream'[th].next = stream[th].next + 1
         /\ stream'[th].at = stream[th].at
         /\ stream'[th].changed = stream[th].changed
         /\ \A u \in Threads \ {th} : stream'[u] = stream[u]
         /\ \A m \in Mains : collected'[m] = IF m = Receiver(th)
                                             THEN collected[m] \cup stream[th].batch
                                             ELSE collected[m]
         /\ UNCHANGED <<fingerprints, heardIn, listeners, averaged, life, stack>>
<1>1. /\ stream[th].at = "fires" /\ ~stream[th].changed
      /\ stream[th].next <= Len(listeners)
      /\ stream' = [stream EXCEPT ![th] = [stream[th] EXCEPT !.next = @ + 1]]
      /\ UNCHANGED <<fingerprints, heardIn, listeners>>
  BY DEF Fire, Collector!FireNext
<1>2. stream[th].next \in Nat \ {0} /\ Len(listeners) \in Nat
        /\ DOMAIN listeners = 1..Len(listeners)
  BY LenProperties DEF StreamType, Collector!Streams
<1>3. stream[th].next \in DOMAIN listeners
  BY <1>1, <1>2
<1>4. PICK n : n = stream[th].next + 1
  OBVIOUS
<1>5. PICK r : r = [stream[th] EXCEPT !.next = n]
  OBVIOUS
<1>6. /\ r.batch = stream[th].batch /\ r.next = n
      /\ r.at = stream[th].at /\ r.changed = stream[th].changed
  BY <1>5 DEF StreamType, Collector!Streams
<1>7. stream'[th] = r /\ \A u \in Threads \ {th} : stream'[u] = stream[u]
  BY <1>1, <1>4, <1>5 DEF StreamType
<1>8. /\ \A m \in Mains : collected'[m] = IF m = Receiver(th)
                                          THEN collected[m] \cup stream[th].batch
                                          ELSE collected[m]
      /\ UNCHANGED <<averaged, life, stack>>
  BY DEF Fire, OnSampleCollected, own, shown
<1> QED
  BY <1>1, <1>3, <1>4, <1>6, <1>7, <1>8 DEF Receiver

LEMMA HearEffect ==
  ASSUME HeardType, Hear
  PROVE  /\ Len(heardIn) \in Nat /\ Len(heardIn') = Len(heardIn) + 1
         /\ fingerprints' = fingerprints \cup {Len(heardIn) + 1}
         /\ fingerprints \subseteq 1..Len(heardIn)
         /\ UNCHANGED <<stream, listeners, collected, averaged, life, stack>>
<1>1. /\ heardIn' = Append(heardIn, round)
      /\ fingerprints' = fingerprints \cup {Len(heardIn) + 1}
      /\ UNCHANGED <<stream, listeners>>
  BY DEF Hear, Collector!Hear
<1>2. Len(heardIn) \in Nat /\ DOMAIN heardIn = 1..Len(heardIn)
  BY LenProperties DEF HeardType
<1>3. Len(heardIn') = Len(heardIn) + 1
  <2>1. heardIn \in Seq(0..MaxRounds \cup {round})
    <3>1. heardIn \in [1..Len(heardIn) -> 0..MaxRounds]
      BY LenProperties DEF HeardType
    <3>2. heardIn \in [1..Len(heardIn) -> 0..MaxRounds \cup {round}]
      BY <3>1
    <3> QED
      BY <1>2, <3>2, SeqDef
  <2> QED
    BY <1>1, <2>1, AppendProperties
<1> QED
  BY <1>1, <1>2, <1>3 DEF Hear, HeardType, own, shown, samples

\* The activity that makes a point is on the stack or destroyed.
LEMMA AverageEffect ==
  ASSUME TodoInv, SampleType, CallsKnown, Average
  PROVE  /\ Who \in Mains /\ life[Who] # "new"
         /\ OnStack(Who) \/ life[Who] = "destroyed"
         /\ averaged'[Who] = averaged[Who] \cup collected[Who]
         /\ collected'[Who] = {}
         /\ \A m \in Mains \ {Who} : /\ averaged'[m] = averaged[m]
                                     /\ collected'[m] = collected[m]
         /\ UNCHANGED <<life, stack>>
<1>1. todo # <<>> /\ todo[1].do = "average"
  BY DEF Average, Calling
<1>2. 1 \in DOMAIN todo
  BY <1>1, FirstIs DEF TodoInv
<1>3. /\ Who \in Mains /\ life[Who] # "new"
      /\ OnStack(Who) \/ life[Who] = "destroyed"
  BY <1>1, <1>2 DEF CallsKnown, Who
<1>4. /\ averaged' = [averaged EXCEPT ![Who] = @ \cup collected[Who]]
      /\ collected' = [collected EXCEPT ![Who] = {}]
      /\ UNCHANGED <<life, stack>>
  BY DEF Average, own, shown
<1>5. PICK w : w = Who
  OBVIOUS
<1>6. w \in Mains /\ averaged' = [averaged EXCEPT ![w] = @ \cup collected[w]]
        /\ collected' = [collected EXCEPT ![w] = {}]
  BY <1>3, <1>4, <1>5
<1>7. /\ averaged'[w] = averaged[w] \cup collected[w] /\ collected'[w] = {}
      /\ \A m \in Mains \ {w} : /\ averaged'[m] = averaged[m]
                                /\ collected'[m] = collected[m]
  BY <1>6 DEF SampleType
<1> QED
  BY <1>3, <1>4, <1>5, <1>7

LEMMA NewHasNothingStep ==
  ASSUME TypeInv, CallsKnown, ListenersKnown, NewHasNothing, Next
  PROVE  NewHasNothing'
<1>1. /\ TodoInv /\ StreamType /\ SampleType /\ HeardType /\ Ages
      /\ listeners \in Seq(Activities)
  BY StackStep DEF TypeInv, Collector!TypeOK, StreamType, HeardType
<1>2. \A m \in Mains : life'[m] = "new" => life[m] = "new"
  BY <1>1 DEF Ages, Activities
<1>3. CASE UNCHANGED <<collected, averaged>>
  BY <1>2, <1>3 DEF NewHasNothing
<1>4. CASE Average
  BY <1>1, <1>2, <1>4, AverageEffect DEF NewHasNothing
<1>5. ASSUME NEW th \in Threads, Fire(th)
      PROVE  NewHasNothing'
  <2>1. life[Receiver(th)] # "new"
    BY <1>1, <1>5, FireEffect DEF ListenersKnown
  <2> QED
    BY <1>1, <1>2, <1>5, <2>1, FireEffect DEF NewHasNothing
<1>6. CASE Hear
  BY <1>1, <1>3, <1>6, HearEffect
<1>7. ASSUME NEW th \in Threads, Take(th)
      PROVE  NewHasNothing'
  BY <1>1, <1>3, <1>7, TakeEffect
<1> QED
  BY <1>1, <1>3, <1>4, <1>5, <1>6, <1>7, GiveSteps

LEMMA ApartStep ==
  ASSUME TypeInv, BatchesApart, Next
  PROVE  BatchesApart'
<1>1. /\ StreamType /\ SampleType /\ HeardType
      /\ listeners \in Seq(Activities)
  BY DEF TypeInv, Collector!TypeOK, StreamType, HeardType
<1>2. CASE Quiet
  BY <1>2 DEF Quiet, BatchesApart
<1>3. CASE Hear
  <2>1. PICK n : n = Len(heardIn)
    OBVIOUS
  <2>2. /\ n \in Nat /\ Len(heardIn') = n + 1 /\ UNCHANGED stream
        /\ fingerprints' = fingerprints \cup {n + 1}
    BY <1>1, <1>3, <2>1, HearEffect
  <2>3. n + 1 \notin 1..n /\ 1..n \subseteq 1..(n + 1)
    BY <2>2
  <2> QED
    BY <2>1, <2>2, <2>3 DEF BatchesApart
<1>4. ASSUME NEW th \in Threads, Take(th)
      PROVE  BatchesApart'
  <2>1. fingerprints \subseteq 1..Len(heardIn)
    BY <1>1, LenProperties DEF HeardType
  <2> QED
    BY <1>1, <1>4, <2>1, TakeEffect DEF BatchesApart
<1>5. ASSUME NEW th \in Threads, Fire(th)
      PROVE  BatchesApart'
  BY <1>1, <1>5, FireEffect DEF BatchesApart
<1> QED
  BY <1>1, <1>2, <1>3, <1>4, <1>5, GiveSteps

\* Who is still to be given a batch after a listener got it was to before,
\* and is another.
LEMMA FireToGive ==
  ASSUME StreamType, SampleType, listeners \in Seq(Activities), ListenersKnown,
         NEW th \in Threads, Fire(th), NEW u \in Threads, NEW m \in Mains,
         ToGive(u, m)'
  PROVE  ToGive(u, m) /\ (u = th => m # Receiver(th))
<1>1. CASE u = th
  <2>1. PICK k \in DOMAIN listeners : k >= stream[th].next + 1 /\ listeners[k] = m
    BY <1>1, FireEffect DEF ToGive
  <2>2. stream[th].next \in Nat /\ k \in Nat
    BY LenProperties DEF StreamType, Collector!Streams
  <2>3. k >= stream[th].next /\ k # stream[th].next
    BY <2>1, <2>2
  <2>4. m # Receiver(th)
    BY <2>1, <2>3, FireEffect DEF ListenersKnown
  <2> QED
    BY <1>1, <2>1, <2>3, <2>4, FireEffect DEF ToGive
<1>2. CASE u # th
  <2>1. stream'[u] = stream[u] /\ UNCHANGED listeners
    BY <1>2, FireEffect
  <2> QED
    BY <1>2, <2>1 DEF ToGive
<1> QED
  BY <1>1, <1>2

LEMMA ReceiverToGive ==
  ASSUME StreamType, SampleType, listeners \in Seq(Activities),
         NEW th \in Threads, Fire(th), Receiver(th) \in Mains
  PROVE  ToGive(th, Receiver(th))
<1>1. stream[th].next \in Nat
  BY DEF StreamType, Collector!Streams
<1>2. stream[th].next >= stream[th].next
  BY <1>1
<1> QED
  BY <1>2, FireEffect DEF ToGive

LEMMA GivenStep ==
  ASSUME TypeInv, CallsKnown, ListenersKnown, BatchesApart, GivenOnce, Next
  PROVE  GivenOnce'
<1>1. /\ TodoInv /\ StreamType /\ SampleType /\ HeardType
      /\ listeners \in Seq(Activities)
  BY DEF TypeInv, Collector!TypeOK, StreamType, HeardType
<1>2. ASSUME Quiet, \A m \in Mains : collected'[m] \cup averaged'[m] = Given(m)
      PROVE  GivenOnce'
  <2>1. \A m \in Mains : Given(m)' = Given(m)
    BY <1>2 DEF Given
  <2>2. \A m \in Mains : /\ Given(m)' \cap fingerprints' = {}
                         /\ Given(m)' \subseteq 1..Len(heardIn')
    BY <1>2, <2>1 DEF Quiet, GivenOnce
  <2>3. \A m \in Mains, th \in Threads :
          ToGive(th, m)' => stream'[th].batch \cap Given(m)' = {}
    BY <1>2, <2>1 DEF Quiet, GivenOnce
  <2> QED
    BY <2>2, <2>3 DEF GivenOnce
<1>3. ASSUME Quiet, UNCHANGED <<collected, averaged>>
      PROVE  GivenOnce'
  BY <1>2, <1>3 DEF Given
<1>4. ASSUME Quiet, Average
      PROVE  GivenOnce'
  <2>1. \A m \in Mains : collected'[m] \cup averaged'[m] = Given(m)
    BY <1>1, <1>4, AverageEffect DEF Given
  <2> QED
    BY <1>2, <1>4, <2>1
<1>5. CASE Hear
  <2>1. PICK n : n = Len(heardIn)
    OBVIOUS
  <2>2. /\ n \in Nat /\ Len(heardIn') = n + 1
        /\ UNCHANGED <<stream, listeners, collected, averaged>>
        /\ fingerprints' = fingerprints \cup {n + 1}
    BY <1>1, <1>5, <2>1, HearEffect
  <2>3. n + 1 \notin 1..n /\ 1..n \subseteq 1..(n + 1)
    BY <2>2
  <2>4. \A m \in Mains : Given(m)' = Given(m)
    BY <2>2 DEF Given
  <2>5. \A m \in Mains : /\ Given(m)' \cap fingerprints' = {}
                         /\ Given(m)' \subseteq 1..Len(heardIn')
    BY <2>1, <2>2, <2>3, <2>4 DEF GivenOnce
  <2>6. \A m \in Mains, th \in Threads : ToGive(th, m)' => ToGive(th, m)
    BY <2>2 DEF ToGive
  <2>7. \A m \in Mains, th \in Threads :
          ToGive(th, m)' => stream'[th].batch \cap Given(m)' = {}
    BY <2>2, <2>4, <2>6 DEF GivenOnce
  <2> QED
    BY <2>5, <2>7 DEF GivenOnce
<1>6. ASSUME NEW th \in Threads, Take(th)
      PROVE  GivenOnce'
  <2>1. /\ fingerprints' = {} /\ stream'[th].batch = fingerprints
        /\ \A u \in Threads \ {th} : stream'[u] = stream[u]
        /\ UNCHANGED <<heardIn, listeners, collected, averaged>>
    BY <1>1, <1>6, TakeEffect
  <2>2. \A m \in Mains : Given(m)' = Given(m)
    BY <2>1 DEF Given
  <2>3. \A m \in Mains : /\ Given(m)' \cap fingerprints' = {}
                         /\ Given(m)' \subseteq 1..Len(heardIn')
    BY <2>1, <2>2 DEF GivenOnce
  <2>4. ASSUME NEW m \in Mains, NEW u \in Threads, ToGive(u, m)'
        PROVE  stream'[u].batch \cap Given(m)' = {}
    <3>1. CASE u = th
      BY <2>1, <2>2, <3>1 DEF GivenOnce
    <3>2. CASE u # th
      <4>1. ToGive(u, m)
        BY <2>1, <2>4, <3>2 DEF ToGive
      <4> QED
        BY <2>1, <2>2, <3>2, <4>1 DEF GivenOnce
    <3> QED
      BY <3>1, <3>2
  <2> QED
    BY <2>3, <2>4 DEF GivenOnce
<1>7. ASSUME NEW th \in Threads, Fire(th)
      PROVE  GivenOnce'
  <2>1. PICK b : b = stream[th].batch
    OBVIOUS
  <2>2. \A m \in Mains : Given(m)' = IF m = Receiver(th) THEN Given(m) \cup b
                                     ELSE Given(m)
    BY <1>1, <1>7, <2>1, FireEffect DEF Given
  <2>3. UNCHANGED <<fingerprints, heardIn>>
          /\ \A u \in Threads : stream'[u].batch = stream[u].batch
    BY <1>1, <1>7, FireEffect
  <2>4. b \cap fingerprints = {} /\ b \subseteq 1..Len(heardIn)
          /\ \A u \in Threads \ {th} : stream[u].batch \cap b = {}
    BY <2>1 DEF BatchesApart
  <2>5. \A m \in Mains : /\ Given(m)' \cap fingerprints' = {}
                         /\ Given(m)' \subseteq 1..Len(heardIn')
    BY <2>2, <2>3, <2>4 DEF GivenOnce
  <2>6. ASSUME NEW m \in Mains, NEW u \in Threads, ToGive(u, m)'
        PROVE  stream'[u].batch \cap Given(m)' = {}
    <3>1. ToGive(u, m) /\ (u = th => m # Receiver(th))
      BY <1>1, <1>7, <2>6, FireToGive
    <3>2. stream[u].batch \cap Given(m) = {}
      BY <3>1 DEF GivenOnce
    <3> QED
      BY <2>2, <2>3, <2>4, <3>1, <3>2
  <2> QED
    BY <2>5, <2>6 DEF GivenOnce
<1> QED
  BY <1>1, <1>3, <1>4, <1>5, <1>6, <1>7, GiveSteps

\* At most one MainActivity is on the stack.
LEMMA OneMain ==
  ASSUME StackInv, NEW m \in Mains, NEW n \in Mains, OnStack(m), OnStack(n)
  PROVE  m = n
BY DEF StackInv, OnStack

LEMMA PointsStep ==
  ASSUME TypeInv, CallsKnown, ListenersKnown, NewHasNothing, BatchesApart,
         GivenOnce, PointsInv, Next
  PROVE  PointsInv'
<1>1. /\ TodoInv /\ StackInv /\ StreamType /\ SampleType /\ HeardType /\ Ages
      /\ listeners \in Seq(Activities)
  BY StackStep DEF TypeInv, Collector!TypeOK, StreamType, HeardType
<1>2. \A m \in Mains : /\ life'[m] # "destroyed" => life[m] # "destroyed"
                       /\ OnStack(m)' => OnStack(m) \/ life[m] = "new"
  BY <1>1 DEF Ages, Activities
<1>3. \A m \in Mains, th \in Threads : life[m] = "new" => ~ToGive(th, m)
  BY DEF ToGive, ListenersKnown
<1> DEFINE Apart(m, n) ==
      /\ averaged[m] \cap averaged[n] = {}
      /\ OnStack(n) \/ life[n] = "new" =>
           /\ averaged[m] \cap collected[n] = {}
           /\ \A th \in Threads :
                ToGive(th, n) => stream[th].batch \cap averaged[m] = {}
<1>4. \A m, n \in Mains :
        m # n /\ life'[m] # "destroyed" /\ life'[n] # "destroyed"
          => Apart(m, n) /\ Apart(n, m)
  <2>1. \A m, n \in Mains :
          m # n /\ life[m] # "destroyed" /\ life[n] # "destroyed" => Apart(m, n)
    BY <1>3 DEF PointsInv, NewHasNothing
  <2> QED
    BY <1>2, <2>1
<1>5. \A m \in Mains : averaged[m] \cap collected[m] = {}
  BY DEF PointsInv
<1>6. ASSUME UNCHANGED <<collected, averaged>>,
             \A th \in Threads, m \in Mains : ToGive(th, m)' =>
               ToGive(th, m) /\ stream'[th].batch \in {stream[th].batch, {}}
      PROVE  PointsInv'
  <2>1. ASSUME NEW m \in Mains, NEW n \in Mains, m # n, life'[m] # "destroyed",
               life'[n] # "destroyed"
        PROVE  /\ averaged'[m] \cap averaged'[n] = {}
               /\ OnStack(n)' =>
                    /\ averaged'[m] \cap collected'[n] = {}
                    /\ \A th \in Threads : ToGive(th, n)' =>
                         stream'[th].batch \cap averaged'[m] = {}
    <3>1. Apart(m, n)
      BY <1>4, <2>1
    <3> QED
      BY <1>2, <1>6, <3>1
  <2> QED
    BY <1>5, <1>6, <2>1 DEF PointsInv
<1>7. ASSUME Quiet, UNCHANGED <<collected, averaged>>
      PROVE  PointsInv'
  BY <1>6, <1>7 DEF Quiet
<1>8. CASE Hear
  <2>1. UNCHANGED <<stream, listeners, collected, averaged>>
    BY <1>1, <1>8, HearEffect
  <2> QED
    BY <1>6, <2>1 DEF ToGive
<1>9. ASSUME NEW th \in Threads, Take(th)
      PROVE  PointsInv'
  <2>1. /\ stream'[th].batch = fingerprints
        /\ \A u \in Threads \ {th} : stream'[u] = stream[u]
        /\ UNCHANGED <<listeners, collected, averaged>>
    BY <1>1, <1>9, TakeEffect
  <2>2. ASSUME NEW m \in Mains, NEW n \in Mains, m # n, life'[m] # "destroyed",
               life'[n] # "destroyed"
        PROVE  /\ averaged'[m] \cap averaged'[n] = {}
               /\ OnStack(n)' =>
                    /\ averaged'[m] \cap collected'[n] = {}
                    /\ \A u \in Threads : ToGive(u, n)' =>
                         stream'[u].batch \cap averaged'[m] = {}
    <3>1. Apart(m, n)
      BY <1>4, <2>2
    <3>2. averaged[m] \cap fingerprints = {}
      BY DEF GivenOnce, Given
    <3>3. \A u \in Threads \ {th} : ToGive(u, n)' => ToGive(u, n)
      BY <2>1 DEF ToGive
    <3> QED
      BY <1>2, <2>1, <3>1, <3>2, <3>3
  <2> QED
    BY <1>5, <2>1, <2>2 DEF PointsInv
<1>10. ASSUME NEW th \in Threads, Fire(th)
       PROVE  PointsInv'
  <2>1. PICK b : b = stream[th].batch
    OBVIOUS
  <2>2. PICK r : r = Receiver(th)
    OBVIOUS
  <2>3. /\ \A u \in Threads : stream'[u].batch = stream[u].batch
        /\ \A m \in Mains : collected'[m] = IF m = r THEN collected[m] \cup b
                                            ELSE collected[m]
        /\ UNCHANGED averaged
    BY <1>1, <1>10, <2>1, <2>2, FireEffect
  <2>4. r \in Mains => ToGive(th, r)
    BY <1>1, <1>10, <2>2, ReceiverToGive
  <2>5. \A m \in Mains : averaged'[m] \cap collected'[m] = {}
    <3>1. r \in Mains => b \cap averaged[r] = {}
      BY <2>1, <2>4 DEF GivenOnce, Given
    <3> QED
      BY <1>5, <2>3, <3>1
  <2>6. ASSUME NEW m \in Mains, NEW n \in Mains, m # n, life'[m] # "destroyed",
               life'[n] # "destroyed"
        PROVE  /\ averaged'[m] \cap averaged'[n] = {}
               /\ OnStack(n)' =>
                    /\ averaged'[m] \cap collected'[n] = {}
                    /\ \A u \in Threads : ToGive(u, n)' =>
                         stream'[u].batch \cap averaged'[m] = {}
    <3>1. Apart(m, n)
      BY <1>4, <2>6
    <3>2. \A u \in Threads : ToGive(u, n)' => ToGive(u, n)
      BY <1>1, <1>10, FireToGive
    <3>3. OnStack(n)' => averaged[m] \cap collected'[n] = {}
      BY <1>2, <2>1, <2>3, <2>4, <3>1
    <3> QED
      BY <1>2, <2>3, <3>1, <3>2, <3>3
  <2> QED
    BY <2>5, <2>6 DEF PointsInv
<1>11. ASSUME Quiet, Average
       PROVE  PointsInv'
  <2>1. PICK w : w = Who
    OBVIOUS
  <2>2. /\ w \in Mains /\ UNCHANGED <<life, stack>>
        /\ OnStack(w) \/ life[w] = "destroyed"
        /\ averaged'[w] = averaged[w] \cup collected[w] /\ collected'[w] = {}
        /\ \A m \in Mains \ {w} : /\ averaged'[m] = averaged[m]
                                  /\ collected'[m] = collected[m]
    BY <1>1, <1>11, <2>1, AverageEffect
  <2>3. \A m \in Mains : averaged'[m] \cap collected'[m] = {}
    BY <1>5, <2>2
  <2>4. \A m \in Mains : OnStack(m)' <=> OnStack(m)
    BY <2>2 DEF OnStack
  <2>5. ASSUME NEW m \in Mains, NEW n \in Mains, m # n, life'[m] # "destroyed",
               life'[n] # "destroyed"
        PROVE  /\ averaged'[m] \cap averaged'[n] = {}
               /\ OnStack(n)' =>
                    /\ averaged'[m] \cap collected'[n] = {}
                    /\ \A u \in Threads : ToGive(u, n)' =>
                         stream'[u].batch \cap averaged'[m] = {}
    <3>1. Apart(m, n) /\ Apart(n, m)
      BY <1>4, <2>5
    <3>2. (w = m => OnStack(m)) /\ (w = n => OnStack(n))
      BY <2>2, <2>5
    <3>3. averaged'[m] \cap averaged'[n] = {}
      BY <2>2, <2>5, <3>1, <3>2
    <3>4. OnStack(n) => averaged'[m] = averaged[m]
      BY <1>1, <2>2, <2>5, <3>2, OneMain
    <3>5. collected'[n] \subseteq collected[n]
      BY <2>2
    <3>6. \A u \in Threads : ToGive(u, n)' =>
            ToGive(u, n) /\ stream'[u].batch \in {stream[u].batch, {}}
      BY <1>11 DEF Quiet
    <3> QED
      BY <2>4, <3>1, <3>3, <3>4, <3>5, <3>6
  <2> QED
    BY <2>3, <2>5 DEF PointsInv
<1> QED
  BY <1>1, <1>7, <1>8, <1>9, <1>10, <1>11, GiveSteps

OnePointInv ==
  /\ TypeInv /\ TimerInv /\ CallsKnown /\ ListenersKnown /\ NewHasNothing
  /\ BatchesApart /\ GivenOnce /\ PointsInv

LEMMA OnePointInductive == Spec => []OnePointInv
<1>1. Init => OnePointInv
  <2> SUFFICES ASSUME Init PROVE OnePointInv
    OBVIOUS
  <2>1. TypeInv
    BY InitTypes
  <2>2. TimerInv
    BY DEF Init, TimerInv
  <2>3. CallsKnown /\ ListenersKnown
    BY DEF Init, Collector!Init, CallsKnown, ListenersKnown
  <2>4. \A m \in Mains : collected[m] = {} /\ averaged[m] = {}
    BY DEF Init
  <2>5. fingerprints = {} /\ \A th \in Threads : /\ stream[th].batch = {}
                                                 /\ stream[th].at = "none"
    BY DEF Init, Collector!Init, Collector!NoThread
  <2>6. NewHasNothing
    BY <2>4 DEF NewHasNothing
  <2>7. BatchesApart
    BY <2>5 DEF BatchesApart
  <2>8. GivenOnce
    BY <2>4, <2>5 DEF GivenOnce, Given
  <2>9. PointsInv
    BY <2>4 DEF PointsInv
  <2> QED
    BY <2>1, <2>2, <2>3, <2>6, <2>7, <2>8, <2>9 DEF OnePointInv
<1>2. OnePointInv /\ [Next]_vars => OnePointInv'
  <2> SUFFICES ASSUME OnePointInv, [Next]_vars PROVE OnePointInv'
    OBVIOUS
  <2> USE DEF OnePointInv
  <2>1. CASE UNCHANGED vars
    <3>1. UNCHANGED <<todo, stack, life, timers, progress, stuck, listeners,
                      collected, averaged, fingerprints, heardIn, stream>>
      BY <2>1 DEF vars, collector, shown, dialogs, samples
    <3>2. TypeInv'
      BY TypesStep
    <3>3. TimerInv' /\ CallsKnown' /\ ListenersKnown' /\ NewHasNothing'
      BY <3>1 DEF TimerInv, CallsKnown, ListenersKnown, NewHasNothing, OnStack
    <3>4. BatchesApart' /\ GivenOnce'
      BY <3>1 DEF BatchesApart, GivenOnce, Given, ToGive
    <3>5. PointsInv'
      BY <3>1 DEF PointsInv, OnStack, ToGive
    <3> QED
      BY <3>2, <3>3, <3>4, <3>5
  <2>2. CASE Next
    BY <2>2, TypeInvStep, TimerStep, CallsKnownStep, ListenersKnownStep,
       NewHasNothingStep, ApartStep, GivenStep, PointsStep
  <2> QED
    BY <2>1, <2>2
<1> QED
  BY <1>1, <1>2, PTL DEF Spec

(* MainActivity.java:385-409 and 1241-1250. However many batches, timers,  *)
(* instances and second touches interleave: what a MainActivity was given  *)
(* goes into one of its sampling points at most, and two instances have an *)
(* advertisement in common only after one was destroyed with a round       *)
(* running.                                                                *)
THEOREM OnePointOnly == Spec => []AdvertInOnePoint
<1>1. OnePointInv => AdvertInOnePoint
  BY DEF OnePointInv, PointsInv, AdvertInOnePoint
<1> QED
  BY <1>1, OnePointInductive, PTL
=============================================================================
