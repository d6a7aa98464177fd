------------------------------- MODULE MCAuth -------------------------------
(***************************************************************************)
(* ClientSession on clients that try PINs: two connections of one address  *)
(* and one of another, which guess wrong, guess again on a new connection, *)
(* send more lines than they are allowed to, and ask for something right   *)
(* after the PIN.                                                          *)
(***************************************************************************)
EXTENDS ClientSession

Line(kind, pin) == [kind |-> kind, pin |-> pin]

(* A PIN the daemon never issues, sent several times; the PIN it may have   *)
(* issued first; a request.                                                 *)
Table ==
  [wrong1 |-> Line("pin", "none"), wrong2 |-> Line("pin", "none"),
   wrong3 |-> Line("pin", "none"), right |-> Line("pin", "p1"),
   info |-> Line("cmd", "none")]

MCMsgs   == DOMAIN Table
MCKind   == [m \in MCMsgs |-> Table[m].kind]
MCLength == [m \in MCMsgs |-> 1]    \* lines that arrive whole
MCPin    == [m \in MCMsgs |-> Table[m].pin]
MCName   == [m \in MCMsgs |-> "n1"]
MCSize   == [m \in MCMsgs |-> 0]
MCReqOf  == [m \in MCMsgs |-> m]

MCIpOf == [s \in {"s1", "s2", "s3"} |-> IF s = "s3" THEN "a2" ELSE "a1"]

(* An address guesses more often on one connection than it may, and asks    *)
(* for something, while the PIN's owner pairs from the same address on       *)
(* another one and mistypes it first; a third connection comes from          *)
(* elsewhere.                                                               *)
MCScript ==
  [s1 |-> <<"wrong1", "wrong2", "wrong3", "info">>,
   s2 |-> <<"wrong1", "right", "wrong2">>,
   s3 |-> <<"wrong1">>]
=============================================================================
