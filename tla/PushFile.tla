------------------------------ MODULE PushFile ------------------------------
(***************************************************************************)
(* Files from the desktop to the phone: pushFileList and pushFile of a     *)
(* paired session (src/server/client_session.cpp), the send buffer of its  *)
(* socket, the drop of a file by the GUI and its transfer overlay          *)
(* (src_gui/main.cpp), and a phone that follows the protocol.              *)
(*                                                                         *)
(* The daemon looks at the file four times (exists, file_size, open, read) *)
(* and other programs replace or truncate it in between.  A version is     *)
(* what one inode holds; its bytes are numbered.  A line of the daemon is  *)
(* two units of the buffer, so that it can be torn; a byte of a file is    *)
(* one.  An empty buffer holds a header or an error, but the listing grows *)
(* with the folder and has no bound.                                       *)
(***************************************************************************)
EXTENDS Naturals, Sequences

CONSTANTS
  MaxVersions, MaxSize,   \* how often the file is replaced, and its length
  CHUNK,                  \* bytes of one read
  Capacity,               \* of the send buffer
  MaxRequests,            \* how many the phone sends
  InPlace,                \* programs other than the GUI truncate the file
  PhoneReads              \* the phone goes on reading, or leaves

ASSUME PushAssumption ==
  /\ MaxVersions \in Nat /\ MaxSize \in Nat /\ CHUNK \in Nat \ {0} /\ MaxRequests \in Nat
  /\ Capacity \in Nat /\ Capacity >= 2

Absent == 0
Versions == 1 .. MaxVersions

VARIABLES
  file,       \* the version under the file's name
  newest,     \* the last version there was
  size,       \* the length of each version, as it is now
  pc,         \* where the session is
  fileSize, opened, sent, chunk, written,   \* the locals of pushFile
  reply, after,   \* what sendResponse has still to send, and where it returns to
  long,       \* the reply is a listing that even an empty send buffer cannot hold
  buffer,     \* the send buffer, and what is on the way
  tls, patient,   \* of the connection and its phone
  connected,
  asked,      \* requests sent and not yet handled
  requests,   \* how many were sent
  phone,      \* what the phone waits for: "line", "rest" of a line, or bytes "file"
  missing, taken,   \* bytes it waits for, and those of the file it has
  transfer, overlay,   \* transfer.json says active, and the GUI shows it
  torn,       \* history: part of a reply was dropped
  short,      \* history: a file ended before its announced length
  confused    \* history: the phone took one thing for another

fileVars  == <<file, newest, size>>
localVars == <<fileSize, opened, sent, chunk, written>>
replyVars == <<reply, after, long>>
phoneVars == <<patient, connected, asked, requests, phone, missing, taken, confused>>
guiVars   == <<transfer, overlay>>
history   == <<torn, short>>
vars == <<fileVars, pc, localVars, replyVars, buffer, tls, phoneVars, guiVars, history>>

(* A line: the header of a push with the length it announces, or another.  *)
NoFile == 0
Line(announced) == <<<<"start", announced>>, <<"end", announced>>>>
Byte(version, n) == <<"byte", version, n>>

Stops == {"idle", "exists", "size", "open", "header", "read", "send", "finish", "fail",
          "scan", "listSize", "reply", "dead"}

(* Every variable has its type, and the buffer its limit. *)
TypeOK ==
  /\ file \in Versions \union {Absent} /\ newest \in 0 .. MaxVersions /\ size \in [Versions -> 0 .. MaxSize]
  /\ pc \in Stops /\ after \in Stops
  /\ fileSize \in 0 .. MaxSize /\ opened \in Versions \union {Absent}
  /\ sent \in 0 .. fileSize /\ chunk \in 0 .. CHUNK /\ written \in 0 .. chunk
  /\ Len(reply) <= 2 /\ long \in BOOLEAN /\ Len(buffer) <= Capacity
  /\ tls \in BOOLEAN /\ patient \in BOOLEAN /\ connected \in BOOLEAN
  /\ asked \in Seq({"push", "list"}) /\ requests \in 0 .. MaxRequests
  /\ phone \in {"line", "rest", "file"} /\ missing \in 0 .. MaxSize
  /\ transfer \in BOOLEAN /\ overlay \in BOOLEAN
  /\ torn \in BOOLEAN /\ short \in BOOLEAN /\ confused \in BOOLEAN

Init ==
  /\ file = Absent /\ newest = 0 /\ size = [v \in Versions |-> 0]
  /\ pc = "idle" /\ after = "idle" /\ reply = << >> /\ long = FALSE /\ buffer = << >>
  /\ fileSize = 0 /\ opened = Absent /\ sent = 0 /\ chunk = 0 /\ written = 0
  /\ tls \in BOOLEAN /\ patient \in BOOLEAN /\ connected = TRUE
  /\ asked = << >> /\ requests = 0
  /\ phone = "line" /\ missing = 0 /\ taken = << >>
  /\ transfer = FALSE /\ overlay = FALSE
  /\ torn = FALSE /\ short = FALSE /\ confused = FALSE

-----------------------------------------------------------------------------
(* The folder: handleDroppedFiles removes the old file and copies the new  *)
(* one, which appears whole under its name.                                *)

RemoveFile ==
  /\ file # Absent /\ file' = Absent
  /\ UNCHANGED <<newest, size, pc, localVars, replyVars, buffer, tls, phoneVars, guiVars, history>>

CopyFile ==
  /\ file = Absent /\ newest < MaxVersions
  /\ newest' = newest + 1 /\ file' = newest'
  /\ \E n \in 0 .. MaxSize : size' = [size EXCEPT ![newest'] = n]
  /\ UNCHANGED <<pc, localVars, replyVars, buffer, tls, phoneVars, guiVars, history>>

Truncate ==
  /\ InPlace /\ file # Absent /\ size[file] > 1
  /\ size' = [size EXCEPT ![file] = @ - 1]
  /\ UNCHANGED <<file, newest, pc, localVars, replyVars, buffer, tls, phoneVars, guiVars, history>>

-----------------------------------------------------------------------------
(* The phone. *)

(* A patient phone sends its next request when it has the last answer. *)
Asks(request) ==
  /\ connected /\ requests < MaxRequests
  /\ patient => asked = << >> /\ phone = "line" /\ pc = "idle" /\ buffer = << >>
  /\ asked' = Append(asked, request) /\ requests' = requests + 1
  /\ UNCHANGED <<fileVars, pc, localVars, replyVars, buffer, tls, patient, connected, phone,
                 missing, taken, confused, guiVars, history>>

(* It takes what comes for what it waits for. *)
Takes ==
  /\ connected /\ buffer # << >>
  /\ buffer' = Tail(buffer)
  /\ LET unit == Head(buffer) IN
       \/ /\ phone = "line" /\ phone' = "rest"
          /\ confused' = (confused \/ unit[1] # "start")
          /\ UNCHANGED <<missing, taken>>
       \/ /\ phone = "rest"
          /\ confused' = (confused \/ unit[1] # "end")
          /\ IF unit[1] = "end" /\ unit[2] # NoFile
             THEN phone' = "file" /\ missing' = unit[2] /\ taken' = << >>
             ELSE phone' = "line" /\ UNCHANGED <<missing, taken>>
       \/ /\ phone = "file"
          /\ confused' = (confused \/ unit[1] # "byte")
          /\ taken' = Append(taken, unit) /\ missing' = missing - 1
          /\ phone' = IF missing = 1 THEN "line" ELSE "file"
  /\ UNCHANGED <<fileVars, pc, localVars, replyVars, tls, patient, connected, asked, requests,
                 guiVars, history>>

Leaves ==
  /\ connected /\ connected' = FALSE
  /\ buffer' = << >> /\ asked' = << >>
  /\ UNCHANGED <<fileVars, pc, localVars, replyVars, tls, patient, requests, phone, missing,
                 taken, confused, guiVars, history>>

GuiPolls ==
  /\ overlay # transfer /\ overlay' = transfer
  /\ UNCHANGED <<fileVars, pc, localVars, replyVars, buffer, tls, phoneVars, transfer, history>>

-----------------------------------------------------------------------------
(* sendResponse. *)

Goes(stop) == pc' = stop
Replies(announced, stop) ==
  Goes("reply") /\ reply' = Line(announced) /\ after' = stop /\ long' = FALSE

(* The listing, with whatever else is in the folder. *)
Lists == Goes("reply") /\ reply' = Line(NoFile) /\ after' = "idle" /\ long' \in BOOLEAN

Room == Capacity - Len(buffer)
AtMost(n, m) == IF n < m THEN n ELSE m

(* send() takes what fits, once, and of a long listing never all; over TLS *)
(* the loop polls until all is taken.                                      *)
GivesUp_Always(rest) == TRUE
GivesUp(rest) == ~tls \/ rest = << >>
Fitting == AtMost(Room, IF long THEN 1 ELSE Len(reply))

SendResponse ==
  /\ pc = "reply"
  /\ IF ~connected
     THEN Goes(after) /\ reply' = << >> /\ long' = FALSE /\ UNCHANGED <<buffer, torn>>
     ELSE LET rest == SubSeq(reply, Fitting + 1, Len(reply))
          IN  /\ Fitting > 0 \/ GivesUp(rest)
              /\ buffer' = buffer \o SubSeq(reply, 1, Fitting)
              /\ IF GivesUp(rest)
                 THEN /\ Goes(after) /\ reply' = << >> /\ long' = FALSE
                      /\ torn' = (torn \/ rest # << >>)
                 ELSE reply' = rest /\ UNCHANGED <<pc, long, torn>>
  /\ UNCHANGED <<fileVars, localVars, after, tls, phoneVars, guiVars, short>>

-----------------------------------------------------------------------------
(* pushFileList and pushFile. *)

Begin ==
  /\ pc = "idle" /\ connected /\ asked # << >>
  /\ asked' = Tail(asked)
  /\ Goes(IF Head(asked) = "push" THEN "exists" ELSE "scan")
  /\ UNCHANGED <<fileVars, localVars, replyVars, buffer, tls, patient, connected, requests,
                 phone, missing, taken, confused, guiVars, history>>

(* The directory is read; then each regular file of it is sized, which     *)
(* throws, and ends the daemon, if it is gone.                             *)
Scan ==
  /\ pc = "scan"
  /\ IF file = Absent THEN Lists ELSE Goes("listSize") /\ UNCHANGED replyVars
  /\ UNCHANGED <<fileVars, localVars, buffer, tls, phoneVars, guiVars, history>>

ListSize ==
  /\ pc = "listSize"
  /\ IF file = Absent THEN Goes("dead") /\ UNCHANGED replyVars ELSE Lists
  /\ UNCHANGED <<fileVars, localVars, buffer, tls, phoneVars, guiVars, history>>

Exists ==
  /\ pc = "exists"
  /\ IF file # Absent THEN Goes("size") /\ UNCHANGED replyVars ELSE Replies(NoFile, "idle")
  /\ UNCHANGED <<fileVars, localVars, buffer, tls, phoneVars, guiVars, history>>

Size ==
  /\ pc = "size"
  /\ \/ file = Absent /\ Goes("dead") /\ UNCHANGED <<fileSize, replyVars>>
     \/ /\ file # Absent /\ size[file] = 0
        /\ Replies(NoFile, "idle") /\ UNCHANGED fileSize
     \/ /\ file # Absent /\ size[file] # 0
        /\ fileSize' = size[file]
        /\ Goes("open") /\ UNCHANGED replyVars
  /\ sent' = 0 /\ chunk' = 0 /\ written' = 0
  /\ UNCHANGED <<fileVars, opened, buffer, tls, phoneVars, guiVars, history>>

Open ==
  /\ pc = "open"
  /\ IF file = Absent THEN Replies(NoFile, "idle") /\ UNCHANGED opened
     ELSE Replies(fileSize, "read") /\ opened' = file
  /\ UNCHANGED <<fileVars, fileSize, sent, chunk, written, buffer, tls, phoneVars, guiVars,
                 history>>

Available == IF size[opened] > sent THEN size[opened] - sent ELSE 0
Wanted_WholeChunk == CHUNK
Wanted == AtMost(CHUNK, fileSize - sent)
More_OffByOne == sent + 1 < fileSize
More == sent < fileSize

Read ==
  /\ pc = "read"
  /\ LET n == AtMost(Wanted, Available) IN
       IF More /\ n > 0
       THEN chunk' = n /\ written' = 0 /\ Goes("send") /\ UNCHANGED short
       ELSE Goes("finish") /\ short' = (short \/ More) /\ UNCHANGED <<chunk, written>>
  /\ UNCHANGED <<fileVars, fileSize, opened, sent, replyVars, buffer, tls, phoneVars, guiVars,
                 torn>>

(* The first byte of the chunk not yet written. *)
NextByte_Again == sent + 1
NextByte == sent + written + 1

(* The socket takes what fits, or the loop polls for as long as nothing    *)
(* does.  After a chunk the progress is published, if it is time to.       *)
Send ==
  /\ pc = "send" /\ connected /\ Room > 0
  /\ LET n == AtMost(Room, chunk - written) IN
       /\ buffer' = buffer \o [i \in 1 .. n |-> Byte(opened, NextByte + i - 1)]
       /\ IF written + n < chunk
          THEN written' = written + n /\ UNCHANGED <<pc, sent, chunk, transfer>>
          ELSE /\ sent' = sent + chunk /\ chunk' = 0 /\ written' = 0 /\ Goes("read")
               /\ \/ transfer' = TRUE
                  \/ sent' < fileSize /\ UNCHANGED transfer
  /\ UNCHANGED <<fileVars, fileSize, opened, replyVars, tls, phoneVars, overlay, history>>

SendFails_PollsAgain == pc = "send" /\ ~connected /\ UNCHANGED vars
SendFails ==
  /\ pc = "send" /\ ~connected
  /\ Goes("fail")
  /\ UNCHANGED <<fileVars, localVars, replyVars, buffer, tls, phoneVars, guiVars, history>>

(* Both ends publish that nothing is active. *)
PublishEnd_NotOnFailure == IF pc = "fail" THEN transfer ELSE FALSE
PublishEnd == FALSE

Finish ==
  /\ pc \in {"finish", "fail"}
  /\ transfer' = PublishEnd
  /\ Goes("idle")
  /\ UNCHANGED <<fileVars, localVars, replyVars, buffer, tls, phoneVars, overlay, history>>

SessionStep ==
  \/ Begin \/ Scan \/ ListSize \/ Exists \/ Size \/ Open \/ Read \/ Send \/ SendFails \/ Finish
  \/ SendResponse

Next ==
  \/ SessionStep
  \/ RemoveFile \/ CopyFile \/ Truncate
  \/ (\E request \in {"push", "list"} : Asks(request)) \/ Takes \/ Leaves
  \/ GuiPolls

(* The loop's thread is scheduled and the GUI's timer fires; the code      *)
(* itself waits for the phone without an end.                              *)
Spec ==
  /\ Init /\ [][Next]_vars /\ WF_vars(SessionStep) /\ WF_vars(GuiPolls)
  /\ PhoneReads => WF_vars(Takes)

-----------------------------------------------------------------------------
(* What the phone has of a file are its first bytes, of one version and in *)
(* order, however often the socket took part of a chunk and whatever       *)
(* became of the file meanwhile.  (A push cut short whose successor loses   *)
(* its whole header is completed with the successor's bytes, and the phone *)
(* cannot tell.)                                                           *)
TakenInOrder ==
  ~confused /\ ~(torn /\ short) => \A i \in DOMAIN taken : taken[i] = Byte(taken[1][2], i)

(* Lines and bytes stay apart on the phone, unless a reply was torn or a   *)
(* file shrank under the push.                                             *)
PhoneStaysInStep == confused => torn \/ short

(* sendResponse leaves nothing of its reply behind over TLS, and also      *)
(* without it when the phone waits for its answers, so that the buffer is  *)
(* empty, unless the reply is a listing longer than the buffer.            *)
LeavesWhole ==
  pc = "reply" /\ pc' # "reply" /\ connected /\ (tls \/ (patient /\ ~long))
    => buffer' = buffer \o reply
RepliesReachWhole == [][LeavesWhole]_vars

(* If the phone goes on reading, or leaves, a request begun comes to an    *)
(* end, and with it every session waiting for the loop goes on.            *)
RequestEnds == pc \notin {"idle", "dead"} ~> pc \in {"idle", "dead"}

(* The overlay of the GUI goes off again, also when the phone leaves in    *)
(* the middle of a file.                                                   *)
OverlayGoesOff == overlay ~> ~overlay
=============================================================================
