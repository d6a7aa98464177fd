------------------------------ MODULE MCUpload ------------------------------
(***************************************************************************)
(* ClientSession on paired phones that send files and requests.            *)
(***************************************************************************)
EXTENDS ClientSession

Line(kind, len)        == [kind |-> kind, len |-> len, name |-> "n1", size |-> 0, of |-> "none"]
Start(len, name, size) == [kind |-> "file", len |-> len, name |-> name, size |-> size, of |-> "none"]
Bytes(kind, len, req)  == [kind |-> kind, len |-> len, name |-> "n1", size |-> 0, of |-> req]

(* Two files with their bytes, of which the first has the legacy end mark;  *)
(* three FILE_STARTs that are refused; and a request of every other kind.   *)
Table ==
  [pin    |-> Line("pin", 1),
   f1     |-> Start(1, "n1", 3),  b1  |-> Bytes("body", 3, "f1"),
   f2     |-> Start(1, "n2", 2),  b2  |-> Bytes("body", 2, "f2"),
   end1   |-> Bytes("sentinel", 2, "f1"),
   empty  |-> Start(1, "n1", 0),  huge |-> Start(1, "n1", 5),  unread |-> Start(1, "n1", -1),
   info   |-> Line("cmd", 2),     list |-> Line("list", 1),    push |-> Line("push", 1),
   move   |-> Line("input", 1),   junk |-> Line("other", 1),   badmove |-> Line("badinput", 1),
   early  |-> Line("input", 1)]

MCMsgs   == DOMAIN Table
MCKind   == [m \in MCMsgs |-> Table[m].kind]
MCLength == [m \in MCMsgs |-> Table[m].len]
MCPin    == [m \in MCMsgs |-> "p1"]
MCName   == [m \in MCMsgs |-> Table[m].name]
MCSize   == [m \in MCMsgs |-> Table[m].size]
Binary   == {"b1"}          \* payloads without a newline
MCReqOf  == [m \in MCMsgs |-> IF Table[m].of = "none" THEN m ELSE Table[m].of]

OneSession  == {"s1"}
TwoSessions == {"s1", "s2"}
OneIp == [s \in OneSession |-> "a1"]
TwoIp == [s \in TwoSessions |-> "a1"]

(* Two phones send a file each.  The first one ends it the old way and asks *)
(* for something without waiting; the second one waits for every reply, but *)
(* sends an input event before its PIN.                                     *)
TwoUploads ==
  [s1 |-> <<"pin", "f1", "b1", "end1", "info">>,
   s2 |-> <<"early", "pin", "move", "f2", "b2", "info">>]

(* Everything a client can ask for, and two files that may fail.            *)
Everything ==
  [s1 |-> <<"pin", "empty", "huge", "unread", "list", "push", "move", "junk",
            "f1", "b1", "end1", "f2", "b2", "info", "badmove">>]

(* A file and a request, as README.md has it.                               *)
FileThenCommand == [s1 |-> <<"pin", "f1", "b1", "info">>]

ASSUME FilesOfOwnNames == DistinctNames
=============================================================================
