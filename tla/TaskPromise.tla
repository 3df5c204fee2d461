---------------------------- MODULE TaskPromise ----------------------------
(***************************************************************************)
(* What a Task promises to those who start it, without the executor, the   *)
(* looper and the flags: of all tasks one action executes at a time; a     *)
(* task's actions begin one after another; and a task ends once, when one  *)
(* of its actions does.  It succeeds only when all of its actions have     *)
(* begun, and neither succeeds nor goes on once it was asked to end while  *)
(* an action executes.  TaskChain implements this module.                  *)
(***************************************************************************)
EXTENDS Naturals

CONSTANTS Tasks,      \* the Task objects
          MaxActions  \* bound: actions given to one task

VARIABLES
  given,      \* how many actions a task has
  started,
  asked,      \* cancel was called
  begun,      \* how many of its actions have begun
  executing,  \* the task of the action that executes, if there is one
  outcome     \* how a task ended

vars == <<given, started, asked, begun, executing, outcome>>

Outcomes == {"none", "success", "fault", "cancelled"}

Init ==
  /\ given = [t \in Tasks |-> 1] /\ started = {}
  /\ asked = [t \in Tasks |-> FALSE]
  /\ begun = [t \in Tasks |-> 0] /\ executing = {}
  /\ outcome = [t \in Tasks |-> "none"]
-----------------------------------------------------------------------------
(* Whoever uses the task.                                                  *)

ContinueWith(t) ==
  /\ t \notin started /\ given[t] < MaxActions
  /\ given' = [given EXCEPT ![t] = @ + 1]
  /\ UNCHANGED <<started, asked, begun, executing, outcome>>

Start(t) ==
  /\ t \notin started /\ started' = started \cup {t}
  /\ UNCHANGED <<given, asked, begun, executing, outcome>>

Cancel(t) ==
  /\ asked' = [asked EXCEPT ![t] = TRUE]
  /\ UNCHANGED <<given, started, begun, executing, outcome>>
-----------------------------------------------------------------------------
(* The background thread.                                                  *)

Begins(t) ==
  /\ executing = {} /\ t \in started
  /\ outcome[t] = "none" /\ begun[t] < given[t]
  /\ executing' = {t} /\ begun' = [begun EXCEPT ![t] = @ + 1]
  /\ UNCHANGED <<given, started, asked, outcome>>

GoesOn(t) ==
  /\ executing = {t} /\ executing' = {}
  /\ ~asked[t] /\ begun[t] < given[t]
  /\ UNCHANGED <<given, started, asked, begun, outcome>>

\* Who throws just when it is asked may end either way.
Ends(t, how) ==
  /\ executing = {t} /\ executing' = {}
  /\ how = "success" => ~asked[t] /\ begun[t] = given[t]
  /\ how = "cancelled" => asked[t]
  /\ outcome' = [outcome EXCEPT ![t] = how]
  /\ UNCHANGED <<given, started, asked, begun>>

Next ==
  \E t \in Tasks :
    \/ ContinueWith(t) \/ Start(t) \/ Cancel(t)
    \/ Begins(t) \/ GoesOn(t)
    \/ \E how \in Outcomes \ {"none"} : Ends(t, how)

Spec == Init /\ [][Next]_vars
=============================================================================
