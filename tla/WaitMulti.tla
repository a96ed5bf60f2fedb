----------------------------- MODULE WaitMulti -----------------------------
(***************************************************************************)
(* SYS_WAIT_MULTI over events (kernel/syscall/syscall.cpp), composed with  *)
(* the events themselves.  The call polls its handles one after the other  *)
(* with KEventIsSignaled; once satisfied it claims the auto-reset ones     *)
(* with KEventClearAutoReset; otherwise it yields or sleeps a tick and     *)
(* polls again.  Each poll and each claim is a lookup, a lock, a body, an  *)
(* unlock and a release, so other calls run in between.                    *)
(* With MultiTasks = {} the module is KEvent alone.                        *)
(***************************************************************************)
EXTENDS KEvent, SequencesExt

CONSTANTS
  MultiTasks,     \* bound: the tasks that call SYS_WAIT_MULTI too
  MultiSets,      \* bound: the handle arrays callers pass, as sequences of events
  MultiTimeouts   \* bound: the timeouts they pass ("none" is INFINITE)

ASSUME WaitMultiAssumption ==
  /\ MultiTasks \subseteq Tasks /\ MultiTimeouts \subseteq {"none", "deadline"}
  /\ \A s \in MultiSets : s \in Seq(Objects) /\ s # <<>>

VARIABLE multi   \* the SYS_WAIT_MULTI in progress of each task

vars == <<eventVars, multi>>

NoMulti == [handles |-> <<>>, all |-> FALSE, tick |-> "none", todo |-> <<>>, hits |-> {}, phase |-> "none"]

TypeOK ==
  /\ EventTypeOK
  /\ \A t \in Tasks :
       multi[t] = NoMulti \/
       /\ multi[t].handles \in MultiSets /\ multi[t].hits \subseteq DOMAIN multi[t].handles
       /\ multi[t].phase \in {"poll", "claim", "pause"} /\ multi[t].tick \in {"none", "deadline", "past"}
       /\ IsSuffix(multi[t].todo, multi[t].handles) \/ multi[t].phase = "claim"

Init == EventInit /\ multi = [t \in Tasks |-> NoMulti]

InMulti(t) == multi[t] # NoMulti

-----------------------------------------------------------------------------
BeginMulti(t) ==
  /\ At(t, "idle") /\ t \in MultiTasks /\ ~InMulti(t)
  /\ \E s \in MultiSets, all \in BOOLEAN, tick \in MultiTimeouts :
       multi' = [multi EXCEPT ![t] =
         [handles |-> s, all |-> all, tick |-> tick, todo |-> s, hits |-> {}, phase |-> "poll"]]
  /\ UNCHANGED eventVars

\* The next handle: a closed one is skipped, an open one is peeked at or claimed.
NextHandle(t) ==
  LET o == Head(multi[t].todo) IN
  /\ At(t, "idle") /\ multi[t].todo # <<>>
  /\ \/ handles[o] = 0 /\ UNCHANGED eventVars
     \/ EnterCall(t, o, IF multi[t].phase = "poll" THEN "peek" ELSE "clear", 0, "none") /\ UNCHANGED fields
  /\ multi' = [multi EXCEPT ![t].todo = Tail(@)]

\* KEventIsSignaled.
PeekBody(t) ==
  LET o == call[t].obj IN
  /\ BodyDone(t) /\ call[t].op = "peek"
  /\ multi' = [multi EXCEPT ![t].hits = IF signaled[o] THEN @ \cup {Len(multi[t].handles) - Len(multi[t].todo)} ELSE @]
  /\ UNCHANGED <<schedVars, fields>>

\* KEventClearAutoReset.
ClearBody(t) ==
  LET o == call[t].obj IN
  /\ BodyDone(t) /\ call[t].op = "clear"
  /\ signaled' = [signaled EXCEPT ![o] = @ /\ manual_reset[o]]
  /\ UNCHANGED <<schedVars, manual_reset, multi>>

Satisfied(t) == IF multi[t].all THEN multi[t].hits = DOMAIN multi[t].handles ELSE multi[t].hits # {}

\* The winner of a wait-any is the first signaled handle.
Winners(t) == IF multi[t].all THEN multi[t].handles ELSE <<multi[t].handles[Min(multi[t].hits)]>>

\* A pass is over: claim, give up at the deadline, or pause and poll again.
EndPass(t) ==
  /\ At(t, "idle") /\ multi[t].phase = "poll" /\ multi[t].todo = <<>>
  /\ \/ Satisfied(t) /\ multi' = [multi EXCEPT ![t].phase = "claim", ![t].todo = Winners(t)]
     \/ ~Satisfied(t) /\ multi[t].tick = "past" /\ multi' = [multi EXCEPT ![t] = NoMulti]
     \/ ~Satisfied(t) /\ multi[t].tick # "past" /\ multi' = [multi EXCEPT ![t].phase = "pause"]
  /\ UNCHANGED eventVars

\* Mutant: every pass starts its timeout again.
Rearmed(t) ==
  /\ At(t, "idle") /\ multi[t].phase = "pause"
  /\ multi' = [multi EXCEPT ![t].phase = "poll", ![t].todo = multi[t].handles, ![t].hits = {},
                            ![t].tick = IF @ = "past" THEN "deadline" ELSE @]
  /\ UNCHANGED eventVars

\* SchedYield or SchedSleepTicks(1) comes back: a kill shortens the sleep but is not looked at.
EndPause(t) ==
  /\ At(t, "idle") /\ multi[t].phase = "pause"
  /\ multi' = [multi EXCEPT ![t].phase = "poll", ![t].todo = multi[t].handles, ![t].hits = {}]
  /\ UNCHANGED eventVars

EndMulti(t) ==
  /\ At(t, "idle") /\ multi[t].phase = "claim" /\ multi[t].todo = <<>>
  /\ multi' = [multi EXCEPT ![t] = NoMulti]
  /\ UNCHANGED eventVars

MultiDeadline(t) ==
  /\ multi[t].tick = "deadline"
  /\ multi' = [multi EXCEPT ![t].tick = "past"]
  /\ UNCHANGED eventVars

MultiStep(t) ==
  NextHandle(t) \/ PeekBody(t) \/ ClearBody(t) \/ EndPass(t) \/ EndPause(t) \/ EndMulti(t)

Step(t) == (EventStep(t) /\ UNCHANGED multi) \/ MultiStep(t)
Clock(t) == (EventTimer(t) /\ UNCHANGED multi) \/ MultiDeadline(t)

\* A task dies only at the boundary of its system call.
Outside(t) == ~InMulti(t) /\ (TaskExit(t) \/ TaskCreate(t))

Next ==
  \/ \E t \in Tasks, o \in Objects : ~InMulti(t) /\ EventCall(t, o) /\ UNCHANGED multi
  \/ \E t \in Tasks : Step(t) \/ BeginMulti(t) \/ Clock(t)
  \/ \E t \in Tasks : (Outside(t) \/ Kill(t)) /\ UNCHANGED <<fields, multi>>
  \/ \E o \in Objects : CloseHandle(o) /\ UNCHANGED <<fields, multi>>

Spec == Init /\ [][Next]_vars

(* A call in progress is executed and the timer ticks.                     *)
FairSpec == Spec /\ \A t \in Tasks : WF_vars(Step(t)) /\ WF_vars(Clock(t))

-----------------------------------------------------------------------------
(* A multi-wait with a deadline ends, however its events toggle.           *)
TimedMultiReturns ==
  \A t \in Tasks : (InMulti(t) /\ multi[t].tick # "none") ~> ~InMulti(t)

(* Finding: a claim should find the signal the poll saw, or another waiter *)
(* has consumed the same Set.  kevent.h: "only one waiter consumes a       *)
(* single `Set`".                                                          *)
ClaimFindsSignal ==
  \A t \in Tasks : LET o == call[t].obj IN
    pc[t] = "body" /\ call[t].op = "clear" /\ ~manual_reset[o] => signaled[o]

(* Finding: a killed task should leave SYS_WAIT_MULTI.  sched.h: "For      *)
(* Running / Ready targets, the kill activates the next time Schedule()    *)
(* runs".                                                                  *)
KilledMultiReturns ==
  \A t \in Tasks : (InMulti(t) /\ KillPending(t)) ~> ~InMulti(t)
=============================================================================
