------------------------- MODULE CallsPerConnection -------------------------
(***************************************************************************)
(* What message_bus_client promises its users: whatever they have called   *)
(* until now, declare_exchange or add_listener, is given to the broker on  *)
(* every connection, in the order of the calls, each call once.            *)
(* MessageBusClient implements it.                                         *)
(***************************************************************************)
EXTENDS Sequences

CONSTANT Calls          \* what a user can call

VARIABLES
  asked,                \* the calls made, in order
  due,                  \* those that the broker has not got on this connection
  closed                \* has the broker closed the channel

vars == <<asked, due, closed>>

Init == asked = << >> /\ due = << >> /\ closed = FALSE

Ask ==
  /\ \E c \in Calls : asked' = Append(asked, c) /\ due' = Append(due, c)
  /\ UNCHANGED closed

Perform ==
  /\ ~closed /\ due # << >>
  /\ due' = Tail(due)
  /\ UNCHANGED <<asked, closed>>

(* The broker refuses a call, or a command that belongs to one before.     *)
Refuse ==
  /\ ~closed /\ closed' = TRUE
  /\ due' = due \/ (due # << >> /\ due' = Tail(due))
  /\ UNCHANGED asked

(* The channel is gone; the next one, if there is one, gets everything.    *)
Fail ==
  /\ due' = asked
  /\ closed' \in {closed, FALSE}
  /\ UNCHANGED asked

Next == Ask \/ Perform \/ Refuse \/ Fail

Spec == Init /\ [][Next]_vars
=============================================================================
