----------------------------- MODULE RequestLedger -----------------------------
(***************************************************************************)
(* What a host relies on: a request is answered once, with the answer that *)
(* was made for it, and is lost without an answer only after the host has  *)
(* closed the input, or when no answer to it can be written.               *)
(***************************************************************************)
CONSTANTS Calls, Unwritable

VARIABLES closed,   \* the host sends no more requests
          status    \* what has become of each request

vars == <<closed, status>>

Becomes(c, from, to) == status[c] = from /\ status' = [status EXCEPT ![c] = to]

Open(c)   == ~closed /\ Becomes(c, "new", "open") /\ UNCHANGED closed
Answer(c) == Becomes(c, "open", "answered") /\ UNCHANGED closed
Lose(c)   == (closed \/ c \in Unwritable) /\ Becomes(c, "open", "lost") /\ UNCHANGED closed
Close     == closed' = TRUE /\ UNCHANGED status

Init == closed = FALSE /\ status = [c \in Calls |-> "new"]
Next == Close \/ \E c \in Calls : Open(c) \/ Answer(c) \/ Lose(c)
Spec == Init /\ [][Next]_vars
================================================================================
