---------------------------- MODULE RequestOrder ----------------------------
(***************************************************************************)
(* What a phone relies on when it matches answers to requests.  An answer  *)
(* of the daemon does not say which request it is for, so all a phone can  *)
(* do is count: a connection must be a queue.  Its requests are answered   *)
(* one after another in the order they were sent, none twice and none      *)
(* passed over; a file is invited first and answered when its bytes have   *)
(* been dealt with, and nothing else is answered in between.               *)
(***************************************************************************)
EXTENDS Naturals, Sequences

CONSTANTS
  Sessions,   \* connections
  Script,     \* the messages each of them sends, every message once
  Requests,   \* the messages that are answered,
  Invited,    \* those of them that are invited first,
  Optional    \* and the messages that may be answered

VARIABLES
  answered,   \* how much of its script each connection has got through
  inviting    \* its last request has been invited but not answered

vars == <<answered, inviting>>

Init ==
  /\ answered = [s \in Sessions |-> 0]
  /\ inviting = [s \in Sessions |-> FALSE]

(* The next message that is answered, or an optional one before it. *)
IsNext(s, i) ==
  /\ i > answered[s] /\ Script[s][i] \in Requests \union Optional
  /\ \A j \in answered[s] + 1 .. i - 1 : Script[s][j] \notin Requests

Answer(s) ==
  /\ ~inviting[s]
  /\ \E i \in DOMAIN Script[s] : IsNext(s, i) /\ answered' = [answered EXCEPT ![s] = i]
  /\ UNCHANGED inviting

Invite(s) ==
  /\ ~inviting[s]
  /\ \E i \in DOMAIN Script[s] :
       /\ IsNext(s, i) /\ Script[s][i] \in Invited
       /\ answered' = [answered EXCEPT ![s] = i]
  /\ inviting' = [inviting EXCEPT ![s] = TRUE]

Finish(s) ==
  /\ inviting[s]
  /\ inviting' = [inviting EXCEPT ![s] = FALSE]
  /\ UNCHANGED answered

Next == \E s \in Sessions : Answer(s) \/ Invite(s) \/ Finish(s)

Spec == Init /\ [][Next]_vars
=============================================================================
