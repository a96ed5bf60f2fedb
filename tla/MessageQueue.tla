---------------------------- MODULE MessageQueue ----------------------------
(***************************************************************************)
(* What a message port promises (kernel/ipc/kmessage_port.h): a queue that *)
(* a successful send extends at its end and a successful receive shortens  *)
(* at its head, each in one instant, until the port is closed.  What a     *)
(* receiver gets is the head as it was sent, whole, and nobody else gets   *)
(* it; a call that fails leaves the queue alone.                           *)
(***************************************************************************)
EXTENDS Naturals, Sequences

CONSTANTS Tasks, Messages
VARIABLES
  messages,   \* sent and not yet received
  closed,
  outcome     \* of each task's call: how it ended, and the message it received

vars == <<messages, closed, outcome>>

Undecided == [end |-> "none", got |-> <<>>]

Init == messages = <<>> /\ closed = FALSE /\ outcome = [t \in Tasks |-> Undecided]

Conclude(t, result) == outcome[t] = Undecided /\ outcome' = [outcome EXCEPT ![t] = result] /\ UNCHANGED closed

Send(t, m) == ~closed /\ messages' = Append(messages, m) /\ Conclude(t, [end |-> "sent", got |-> <<>>])

Receive(t) ==
  /\ ~closed /\ messages # <<>>
  /\ messages' = Tail(messages)
  /\ Conclude(t, [end |-> "received", got |-> Head(messages)])

Return(t) == outcome[t] # Undecided /\ outcome' = [outcome EXCEPT ![t] = Undecided] /\ UNCHANGED <<messages, closed>>

Close == closed' = TRUE /\ UNCHANGED <<messages, outcome>>

Next ==
  \/ \E t \in Tasks, m \in Messages : Send(t, m)
  \/ \E t \in Tasks : Receive(t) \/ Return(t)
  \/ Close

Spec == Init /\ [][Next]_vars
=============================================================================
