------------------------------- MODULE KEvent -------------------------------
(***************************************************************************)
(* The event object (kernel/ipc/kevent.{h,cpp}): auto-reset events pass a  *)
(* Set to one waiter, manual-reset events stay signaled until Reset.       *)
(***************************************************************************)
EXTENDS CondvarObject

VARIABLES
  signaled,
  manual_reset   \* chosen when the event is created

fields == <<signaled, manual_reset>>
eventVars == <<schedVars, callVars, fields>>

EventOps == {"wait", "set", "reset", "peek", "clear"}
EventTypeOK == CallTypeOK(EventOps, {}, {}) /\ signaled \in [Objects -> BOOLEAN] /\ manual_reset \in [Objects -> BOOLEAN]

\* KEventCreate with either kind and either initial state.
EventInit == CallInit /\ signaled \in [Objects -> BOOLEAN] /\ manual_reset \in [Objects -> BOOLEAN]

-----------------------------------------------------------------------------
WakeForSet(o) == IF manual_reset[o] THEN CondvarBroadcast(o) ELSE CondvarSignal(o)

SetBody(t) ==
  LET o == call[t].obj IN
  /\ BodyDone(t) /\ call[t].op = "set"
  /\ signaled' = [signaled EXCEPT ![o] = TRUE] /\ UNCHANGED manual_reset
  /\ WakeForSet(o)

ResetBody(t) ==
  LET o == call[t].obj IN
  /\ BodyDone(t) /\ call[t].op = "reset"
  /\ signaled' = [signaled EXCEPT ![o] = @ /\ ~manual_reset[o]]
  /\ UNCHANGED <<schedVars, manual_reset>>

\* Mutant: the signal is left for the next waiter too.
KeepsSignal(o) == TRUE

\* What a satisfied wait leaves behind.
AfterWait(o) == manual_reset[o]

WaitStep(t) ==
  LET o == call[t].obj IN
  \/ WaitGranted(t, signaled[o]) /\ signaled' = [signaled EXCEPT ![o] = AfterWait(o)] /\ UNCHANGED manual_reset
  \/ /\ WaitCancelled(t, signaled[o]) \/ WaitTimedOut(t, signaled[o]) \/ WaitPark(t, signaled[o])
     /\ UNCHANGED fields

KEventWait(t, o) == \E tick \in Timeouts : EnterCall(t, o, "wait", 0, tick)
KEventSet(t, o) == EnterCall(t, o, "set", 0, "none")
KEventReset(t, o) == EnterCall(t, o, "reset", 0, "none")

EventCall(t, o) == (KEventWait(t, o) \/ KEventSet(t, o) \/ KEventReset(t, o)) /\ UNCHANGED fields
EventStep(t) == (CallStep(t) /\ UNCHANGED fields) \/ WaitStep(t) \/ SetBody(t) \/ ResetBody(t)
EventTimer(t) == Timer(t) /\ UNCHANGED fields

-----------------------------------------------------------------------------
(* No signal waits beside a parked waiter unless a waiter that will look   *)
(* at it is on its way: the one wake-up of an auto-reset Set is not lost   *)
(* to a waiter that timed out, was cancelled, or was overtaken.            *)
NoLostWakeup ==
  \A o \in Objects : signaled[o] /\ queue[Cv(o)] # <<>> =>
    ~manual_reset[o] /\ \E t \in OnItsWay(o) : call[t].woke # "Cancelled" /\ ~wait[t].wake_by_cancel

(* The event keeps the promise of WaitPromise: one Set of an auto-reset    *)
(* event satisfies at most one wait, and a wait that fails takes nothing.  *)
Promise(o) == INSTANCE WaitPromise
  WITH MaxLevel <- 1, consumes <- ~manual_reset[o], level <- IF signaled[o] THEN 1 ELSE 0,
       outcome <- [t \in Tasks |-> IF call[t].obj = o THEN call[t].result ELSE "none"],
       timed <- [t \in Tasks |-> call[t].obj = o /\ call[t].tick # "none"],
       killed <- kill_ticket
ImplementsEvent ==
  /\ \A o \in Objects : Promise(o)!Init
  /\ [][\A o \in Objects : Promise(o)!Next \/ UNCHANGED Promise(o)!vars]_eventVars
=============================================================================
