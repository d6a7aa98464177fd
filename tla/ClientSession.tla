--------------------------- MODULE ClientSession ---------------------------
(***************************************************************************)
(* The sessions of the TitanShare daemon's TCP port: the epoll loop that   *)
(* accepts, reads and removes clients (src/server/tcp_server.cpp), the     *)
(* AUTH / HEADER / DATA machine that parses what they send and receives    *)
(* their files (src/server/client_session.cpp), and the ban records and    *)
(* PIN window it consults (SessionManager).                                *)
(*                                                                         *)
(* A client is a script of messages it sends as the protocol of README.md  *)
(* allows.  A message is Length[m] characters, the last one a newline      *)
(* (except in the payloads NoNewline); the character at position i of m is *)
(* <<m, i>>.  The network may deliver any number of them per recv(), so a  *)
(* line can arrive in pieces and one read can hold several messages.       *)
(*                                                                         *)
(* One thread runs every session.  "serving" is the session whose          *)
(* handleClientData loop is running, "parsing" says that its onData is     *)
(* inside processBuffer; one step handles one line or one call of          *)
(* handleFileData, so that the PIN thread and the clock can interleave.    *)
(***************************************************************************)
EXTENDS SessionManager, FiniteSets

CONSTANTS
  Sessions, NoSession,       \* connections, in the order they are made
  Ips, IpOf,                 \* the address each one comes from
  Msgs, NoMsg,               \* the messages of all scripts
  Kind, Length,              \* what a message is, and its length
  NoNewline,                 \* the payloads that hold no newline
  Pin, Name, Size,           \* PIN of a line; file name and size of FILE_START
  ReqOf,                     \* the request a message belongs to
  Script,                    \* what the client of a session sends
  Names, NoName,             \* file names
  MAX_CLIENTS, PAIRING_PIN_SECS, AUTH_ATTEMPTS_PER_CONNECTION,
  AUTH_MAX_BUFFER, MAX_RECEIVE_FILE_BYTES, READ_BUFFER_SIZE,
  COMPACT_AT,                \* the 262144 of consumeBuffer
  DiskFaults,                \* which of "open", "short", "error", "throw" happen
  PushOutcomes,              \* which outcomes of a push happen
  PeerFaults,                \* how a client may go away: "fin", "reset"
  Pipelined,                 \* sessions whose client does not wait for replies
  MaxTime                    \* bound on the clock

Kinds == {"pin", "cmd", "input", "badinput", "list", "push", "file", "body",
          "sentinel", "other"}

ASSUME ScriptAssumption ==
  /\ NoSession \notin Sessions /\ NoMsg \notin Msgs /\ NoName \notin Names
  /\ IpOf \in [Sessions -> Ips]
  /\ Kind \in [Msgs -> Kinds]
  /\ Length \in [Msgs -> Nat \ {0}]
  /\ Name \in [Msgs -> Names]
  /\ Size \in [Msgs -> Int]
  /\ ReqOf \in [Msgs -> Msgs]
  /\ NoNewline \subseteq {m \in Msgs : Kind[m] = "body"}
  /\ Script \in [Sessions -> Seq(Msgs)]

(* The bytes sent for the file of a FILE_START. *)
Payload(m) == {b \in Msgs : Kind[b] = "body" /\ ReqOf[b] = m}

(* A client keeps to the protocol: a message is sent once, the bytes of a   *)
(* file follow its FILE_START, and a FILE_START the daemon can accept       *)
(* announces as many bytes as follow.                                       *)
ASSUME ProtocolAssumption ==
  \A s \in Sessions : \A i \in DOMAIN Script[s] :
    LET m == Script[s][i]
    IN  /\ \A j \in DOMAIN Script[s] : Script[s][j] = m => j = i
        /\ Kind[m] = "body" =>
             i > 1 /\ Script[s][i - 1] = ReqOf[m] /\ Kind[ReqOf[m]] = "file"
        /\ Kind[m] = "file" /\ Size[m] \in 1 .. MAX_RECEIVE_FILE_BYTES =>
             /\ i < Len(Script[s])
             /\ Payload(m) = {Script[s][i + 1]}
             /\ Size[m] = Length[Script[s][i + 1]]

ASSUME LimitAssumption ==
  /\ MAX_CLIENTS \in Nat \ {0}
  /\ PAIRING_PIN_SECS \in Nat \ {0}
  /\ AUTH_ATTEMPTS_PER_CONNECTION \in Nat \ {0}
  /\ AUTH_MAX_BUFFER \in Nat /\ READ_BUFFER_SIZE \in Nat \ {0}
  /\ MAX_RECEIVE_FILE_BYTES \in Nat
  /\ COMPACT_AT \in Nat
  /\ MaxTime \in Nat

ASSUME FaultAssumption ==
  /\ DiskFaults \subseteq {"open", "short", "error", "throw"}
  /\ PushOutcomes \subseteq {"throw", "PUSH_ERROR", "FILE_PUSH", "FILE_PUSH_CUT"}
  /\ PeerFaults \subseteq {"fin", "reset"}

VARIABLES
  recentPins,    \* m_recentPins
  pinIssuedAt,   \* when the PIN thread last called generateSession
  ban,           \* the ban record of each address
  now,           \* steady_clock
  conn,          \* "none", "open" (in m_clients) or "gone"
  stage,         \* m_stage
  closed,        \* m_closed
  authAttempts,  \* m_authAttempts
  buffer,        \* m_buffer, consumed characters included
  bufferOffset,  \* m_bufferOffset
  fileOpen,      \* m_fileFd >= 0
  fileReq,       \* the FILE_START behind m_fileName and m_expectedBytes
  received,      \* m_receivedBytes, also the offset of the descriptor
  disk,          \* the files of RECEIVED_FILES_DIR
  transfer,      \* the content of transfer.json
  serving, parsing, alive,
  wire,          \* sent by the client, not yet read by the daemon
  sent,          \* how much of the script was sent
  peer,          \* "up", "fin" or "reset"
  replies,       \* what the daemon answered, and to which message
  failTimes      \* history: times of an address's wrong PINs since the last right one

sharedVars  == <<recentPins, pinIssuedAt, ban, now, failTimes>>
authVars    == <<stage, closed, authAttempts>>
bufferVars  == <<buffer, bufferOffset>>
fileVars    == <<fileOpen, fileReq, received, disk, transfer>>
clientVars  == <<wire, sent, peer>>
loopVars    == <<serving, parsing, alive>>
vars == <<sharedVars, authVars, bufferVars, fileVars, clientVars, loopVars, conn, replies>>

ReplyKinds == {"AUTH_OK", "AUTH_FAIL", "AUTH_BLOCKED", "CMD_REPLY", "CMD_FAIL",
               "FILE_LIST", "PUSH_ERROR", "FILE_PUSH", "FILE_PUSH_CUT",
               "READY_FOR_FILE", "FILE_OK", "UNKNOWN_REQUEST"}

(* Every reply but the invitation to send a file's bytes ends its request. *)
Final == ReplyKinds \ {"READY_FOR_FILE"}

Idle == [active |-> FALSE, isSending |-> FALSE, fileName |-> NoName]
Hole == <<NoMsg, 0>>
Chars == (Msgs \X Nat) \union {Hole}

TypeOK ==
  /\ recentPins \in Seq(Pins) /\ Len(recentPins) \in 1 .. MAX_RECENT_PINS
  /\ pinIssuedAt \in Nat
  /\ ban \in [Ips -> BanRecord]
  /\ now \in Nat
  /\ conn \in [Sessions -> {"none", "open", "gone"}]
  /\ stage \in [Sessions -> {"AUTH", "HEADER", "DATA"}]
  /\ closed \in [Sessions -> BOOLEAN]
  /\ authAttempts \in [Sessions -> Nat]
  /\ buffer \in [Sessions -> Seq(Chars)]
  /\ bufferOffset \in [Sessions -> Nat]
  /\ \A s \in Sessions : bufferOffset[s] <= Len(buffer[s])
  /\ fileOpen \in [Sessions -> BOOLEAN]
  /\ fileReq \in [Sessions -> Msgs \union {NoMsg}]
  /\ received \in [Sessions -> Nat]
  /\ disk \in [Names -> Seq(Chars)]
  /\ transfer \in [active : BOOLEAN, isSending : BOOLEAN, fileName : Names \union {NoName}]
  /\ serving \in Sessions \union {NoSession}
  /\ parsing \in BOOLEAN
  /\ alive \in BOOLEAN
  /\ wire \in [Sessions -> Seq(Chars)]
  /\ sent \in [Sessions -> Nat]
  /\ peer \in [Sessions -> {"up", "fin", "reset"}]
  /\ replies \in [Sessions -> Seq([to : Msgs \union {NoMsg}, is : ReplyKinds])]
  /\ failTimes \in [Ips -> Seq(Nat)]

(* main() issues one PIN (generateSession) before the loop starts. *)
Init ==
  /\ \E p \in Pins : recentPins = Remember(<< >>, p)
  /\ pinIssuedAt = 0
  /\ ban = [ip \in Ips |-> Clean]
  /\ now = 0
  /\ conn = [s \in Sessions |-> "none"]
  /\ stage = [s \in Sessions |-> "AUTH"]
  /\ closed = [s \in Sessions |-> FALSE]
  /\ authAttempts = [s \in Sessions |-> 0]
  /\ buffer = [s \in Sessions |-> << >>]
  /\ bufferOffset = [s \in Sessions |-> 0]
  /\ fileOpen = [s \in Sessions |-> FALSE]
  /\ fileReq = [s \in Sessions |-> NoMsg]
  /\ received = [s \in Sessions |-> 0]
  /\ disk = [n \in Names |-> << >>]
  /\ transfer = Idle
  /\ serving = NoSession /\ parsing = FALSE /\ alive = TRUE
  /\ wire = [s \in Sessions |-> << >>]
  /\ sent = [s \in Sessions |-> 0]
  /\ peer = [s \in Sessions |-> "up"]
  /\ replies = [s \in Sessions |-> << >>]
  /\ failTimes = [ip \in Ips |-> << >>]

-----------------------------------------------------------------------------
(* The clients and the network. *)

CharsOf(m) == [i \in 1 .. Length[m] |-> <<m, i>>]

Got(s, m, reply) == \E i \in DOMAIN replies[s] : replies[s][i] = [to |-> m, is |-> reply]
Answered(s, m) == \E r \in Final : Got(s, m, r)

(* Messages a client expects a reply to: not the bytes of a file, nor the  *)
(* input events, which the dispatcher never answers.                       *)
Request(m) == Kind[m] \notin {"body", "sentinel", "input", "badinput"}

(* The bytes of a file follow READY_FOR_FILE; a new request follows the    *)
(* reply to the one before unless the client pipelines.                    *)
MaySend(s, m) ==
  CASE Kind[m] = "body" -> Got(s, ReqOf[m], "READY_FOR_FILE")
    [] Kind[m] = "sentinel" -> TRUE
    [] OTHER -> \/ s \in Pipelined
                \/ \A i \in 1 .. sent[s] :
                     Request(Script[s][i]) => Answered(s, Script[s][i])

ClientSend(s) ==
  /\ conn[s] = "open" /\ peer[s] = "up"
  /\ sent[s] < Len(Script[s])
  /\ LET m == Script[s][sent[s] + 1]
     IN  \/ /\ MaySend(s, m)
            /\ wire' = [wire EXCEPT ![s] = @ \o CharsOf(m)]
         \/ /\ Kind[m] \in {"body", "sentinel"}      \* the file was refused
            /\ Got(s, ReqOf[m], "CMD_FAIL")
            /\ UNCHANGED wire
  /\ sent' = [sent EXCEPT ![s] = @ + 1]
  /\ UNCHANGED <<peer, conn, sharedVars, authVars, bufferVars, fileVars, loopVars, replies>>

(* A client closes its side, or disappears: then unread bytes are lost. *)
ClientLeaves(s) ==
  /\ conn[s] = "open" /\ peer[s] = "up"
  /\ \E how \in PeerFaults :
       /\ peer' = [peer EXCEPT ![s] = how]
       /\ wire' = [wire EXCEPT ![s] = IF how = "reset" THEN << >> ELSE @]
  /\ UNCHANGED <<sent, conn, sharedVars, authVars, bufferVars, fileVars, loopVars, replies>>

-----------------------------------------------------------------------------
(* The epoll loop. *)

(* acceptConnection: beyond MAX_CLIENTS the socket is closed at once. *)
AcceptConnection(s) ==
  /\ alive /\ serving = NoSession
  /\ conn[s] = "none"
  /\ conn' = [conn EXCEPT ![s] =
       IF Cardinality({t \in Sessions : conn[t] = "open"}) >= MAX_CLIENTS
       THEN "gone" ELSE "open"]
  /\ UNCHANGED <<clientVars, sharedVars, authVars, bufferVars, fileVars, loopVars, replies>>

(* One round of handleClientData: recv() returns what has arrived of the   *)
(* stream, up to the size of its buffer, and onData appends it.  Before    *)
(* authentication a buffer that has grown too large ends the session.      *)
OnData(s) ==
  /\ alive /\ ~parsing /\ serving \in {NoSession, s}
  /\ conn[s] = "open" /\ ~closed[s] /\ peer[s] # "reset"
  /\ \E n \in 1 .. Len(wire[s]) :
       /\ n <= READ_BUFFER_SIZE
       /\ wire' = [wire EXCEPT ![s] = SubSeq(@, n + 1, Len(@))]
       /\ buffer' = [buffer EXCEPT ![s] = @ \o SubSeq(wire[s], 1, n)]
  /\ serving' = s
  /\ IF stage[s] = "AUTH" /\ Len(buffer'[s]) > AUTH_MAX_BUFFER
     THEN /\ closed' = [closed EXCEPT ![s] = TRUE]
          /\ UNCHANGED parsing
     ELSE /\ parsing' = TRUE
          /\ UNCHANGED closed
  /\ UNCHANGED <<alive, conn, sent, peer, stage, authAttempts, bufferOffset,
                 sharedVars, fileVars, replies>>

(* recv() has nothing more for now: back to epoll_wait. *)
WouldBlock(s) ==
  /\ alive /\ serving = s /\ ~parsing /\ ~closed[s]
  /\ peer[s] = "up" \/ (peer[s] = "fin" /\ wire[s] # << >>)
  /\ serving' = NoSession
  /\ UNCHANGED <<parsing, alive, conn, clientVars, sharedVars, authVars, bufferVars,
                 fileVars, replies>>

CloseFile_Leaks(s) == UNCHANGED fileOpen
CloseFile(s) == fileOpen' = [fileOpen EXCEPT ![s] = FALSE]

(* recv() reports the end of the stream, an error, or the closed            *)
(* descriptor of a session that ended itself; or epoll reports a hang-up.   *)
(* The destructor closes the session's file and leaves transfer.json alone. *)
RemoveClient(s) ==
  /\ alive /\ ~parsing /\ serving \in {NoSession, s} /\ conn[s] = "open"
  /\ closed[s] \/ peer[s] = "reset" \/ (peer[s] = "fin" /\ wire[s] = << >>)
  /\ conn' = [conn EXCEPT ![s] = "gone"]
  /\ CloseFile(s)
  /\ serving' = NoSession
  /\ UNCHANGED <<parsing, alive, clientVars, sharedVars, authVars, bufferVars,
                 fileReq, received, disk, transfer, replies>>

-----------------------------------------------------------------------------
(* processBuffer: one line, or one call of handleFileData, per step. *)

Live(s) == SubSeq(buffer[s], bufferOffset[s] + 1, Len(buffer[s]))

IsNewline(c) == c # Hole /\ c[1] \notin NoNewline /\ c[2] = Length[c[1]]

IsFirstNewline(chars, n) ==
  IsNewline(chars[n]) /\ \A i \in 1 .. n - 1 : ~IsNewline(chars[i])

(* The message a line is, if it is a whole one. *)
MessageOf(line) ==
  IF \E m \in Msgs : line = CharsOf(m) THEN CHOOSE m \in Msgs : line = CharsOf(m)
  ELSE NoMsg

(* consumeBuffer: advance the read head, and drop the dead prefix once it  *)
(* is longer than COMPACT_AT.                                              *)
ConsumeBuffer(s, n) ==
  LET head == bufferOffset[s] + n
  IN  IF head > COMPACT_AT
      THEN /\ buffer' = [buffer EXCEPT ![s] = SubSeq(@, head + 1, Len(@))]
           /\ bufferOffset' = [bufferOffset EXCEPT ![s] = 0]
      ELSE /\ bufferOffset' = [bufferOffset EXCEPT ![s] = head]
           /\ UNCHANGED buffer

SendResponse(s, m, reply) ==
  replies' = [replies EXCEPT ![s] = Append(@, [to |-> m, is |-> reply])]

(* An exception nobody catches ends the daemon with all its sessions. *)
Terminates ==
  /\ alive' = FALSE
  /\ UNCHANGED <<replies, conn, clientVars, sharedVars, authVars, fileVars, serving, parsing>>

(* handleAuth. *)
HandleAuth(s, m) ==
  LET ip == IpOf[s]
      checked == AfterCheck(ban[ip], now)
      isValid == m # NoMsg /\ Kind[m] = "pin" /\ ValidateKey(recentPins, Pin[m])
  IN  /\ \/ /\ IsIpBlocked(ban[ip], now)
            /\ SendResponse(s, m, "AUTH_BLOCKED")
            /\ closed' = [closed EXCEPT ![s] = TRUE]
            /\ UNCHANGED <<stage, authAttempts, ban, failTimes>>
         \/ /\ ~IsIpBlocked(ban[ip], now) /\ isValid
            /\ ban' = [ban EXCEPT ![ip] = RegisterAuthSuccess(checked)]
            /\ failTimes' = [failTimes EXCEPT ![ip] = << >>]
            /\ SendResponse(s, m, "AUTH_OK")
            /\ stage' = [stage EXCEPT ![s] = "HEADER"]
            /\ UNCHANGED <<closed, authAttempts>>
         \/ /\ ~IsIpBlocked(ban[ip], now) /\ ~isValid
            /\ SendResponse(s, m, "AUTH_FAIL")
            /\ ban' = [ban EXCEPT ![ip] = RegisterAuthFailure(checked, now)]
            /\ failTimes' = [failTimes EXCEPT ![ip] = Append(@, now)]
            /\ authAttempts' = [authAttempts EXCEPT ![s] = @ + 1]
            /\ closed' = [closed EXCEPT ![s] =
                            authAttempts[s] + 1 >= AUTH_ATTEMPTS_PER_CONNECTION]
            /\ UNCHANGED stage
      /\ UNCHANGED <<recentPins, pinIssuedAt, now, conn, clientVars, fileVars, loopVars>>

HeaderKind(m) == IF m = NoMsg THEN "other" ELSE Kind[m]

(* handleHeader, CMD: lines.  An input event is not answered; its numbers  *)
(* are parsed by std::stoi, whose exception nothing catches.               *)
HandleCommand(s, m) ==
  \/ /\ HeaderKind(m) = "cmd"
     /\ SendResponse(s, m, "CMD_REPLY")
     /\ UNCHANGED <<conn, clientVars, sharedVars, authVars, fileVars, loopVars>>
  \/ /\ HeaderKind(m) = "input"
     /\ UNCHANGED <<replies, conn, clientVars, sharedVars, authVars, fileVars, loopVars>>
  \/ HeaderKind(m) = "badinput" /\ Terminates

(* pushFileList and pushFile.  What is in the drop folder, and what others *)
(* do to it meanwhile, is abstracted to the outcome: an entry that goes    *)
(* away under them makes std::filesystem throw.                            *)
HandlePush(s, m) ==
  /\ HeaderKind(m) \in {"list", "push"}
  /\ \/ "throw" \in PushOutcomes /\ Terminates
     \/ /\ HeaderKind(m) = "list"
        /\ SendResponse(s, m, "FILE_LIST")
        /\ UNCHANGED <<conn, clientVars, sharedVars, authVars, fileVars, loopVars>>
     \/ /\ HeaderKind(m) = "push"
        /\ \E outcome \in PushOutcomes \ {"throw"} :
             /\ SendResponse(s, m, outcome)
             /\ transfer' = IF outcome = "PUSH_ERROR" THEN transfer
                            ELSE [Idle EXCEPT !.isSending = TRUE]
        /\ UNCHANGED <<fileOpen, fileReq, received, disk, conn, clientVars, sharedVars,
                       authVars, loopVars>>

(* handleHeader, FILE_START: an unreadable, empty or oversized request is  *)
(* refused (Size is -1 when std::stoull throws), as is a file that cannot  *)
(* be opened; otherwise the file is created or truncated.                  *)
HandleFileStart(s, m) ==
  LET acceptable == Size[m] > 0 /\ Size[m] <= MAX_RECEIVE_FILE_BYTES
  IN  /\ HeaderKind(m) = "file"
      /\ \/ /\ ~acceptable \/ "open" \in DiskFaults
            /\ SendResponse(s, m, "CMD_FAIL")
            /\ UNCHANGED <<authVars, fileVars, conn, clientVars, sharedVars, loopVars>>
         \/ /\ acceptable /\ "throw" \in DiskFaults    \* create_directories
            /\ Terminates
         \/ /\ acceptable
            /\ fileOpen' = [fileOpen EXCEPT ![s] = TRUE]
            /\ fileReq' = [fileReq EXCEPT ![s] = m]
            /\ received' = [received EXCEPT ![s] = 0]
            /\ disk' = [disk EXCEPT ![Name[m]] = << >>]
            /\ stage' = [stage EXCEPT ![s] = "DATA"]
            /\ SendResponse(s, m, "READY_FOR_FILE")
            /\ UNCHANGED <<closed, authAttempts, transfer, conn, clientVars, sharedVars,
                           loopVars>>

HandleUnknown(s, m) ==
  /\ HeaderKind(m) \in {"other", "pin", "body", "sentinel"}
  /\ SendResponse(s, m, "UNKNOWN_REQUEST")
  /\ UNCHANGED <<conn, clientVars, sharedVars, authVars, fileVars, loopVars>>

HandleHeader(s, m) ==
  HandleCommand(s, m) \/ HandlePush(s, m) \/ HandleFileStart(s, m) \/ HandleUnknown(s, m)

(* The loop goes round again while the session is not closed and has data. *)
Parsing_IgnoresClosed(s) == alive /\ parsing /\ serving = s /\ Live(s) # << >>
Parsing(s) == alive /\ parsing /\ serving = s /\ ~closed[s] /\ Live(s) # << >>

ProcessLine(s) ==
  /\ Parsing(s) /\ stage[s] # "DATA"
  /\ \E n \in DOMAIN Live(s) :
       /\ IsFirstNewline(Live(s), n)
       /\ ConsumeBuffer(s, n)
       /\ LET m == MessageOf(SubSeq(Live(s), 1, n))
          IN  \/ stage[s] = "AUTH" /\ HandleAuth(s, m)
              \/ stage[s] = "HEADER" /\ HandleHeader(s, m)

ProcessBufferReturns(s) ==
  /\ alive /\ parsing /\ serving = s
  /\ \/ ~Parsing(s)
     \/ stage[s] # "DATA" /\ \A n \in DOMAIN Live(s) : ~IsNewline(Live(s)[n])
  /\ parsing' = FALSE
  /\ UNCHANGED <<serving, alive, conn, clientVars, sharedVars, authVars, bufferVars,
                 fileVars, replies>>

(* handleFileData.  The characters go to the file at the descriptor's own  *)
(* offset; a gap before it (another session truncated the file) reads as   *)
(* zeros.                                                                  *)
WriteAt(content, offset, chars) ==
  LET end == offset + Len(chars)
  IN  [i \in 1 .. (IF Len(content) > end THEN Len(content) ELSE end) |->
         IF i > offset /\ i <= end THEN chars[i - offset]
         ELSE IF i <= Len(content) THEN content[i] ELSE Hole]

ToWrite_WholeBuffer(s) == Len(Live(s))
ToWrite(s) ==
  LET remaining == Size[fileReq[s]] - received[s]
  IN  IF Len(Live(s)) < remaining THEN Len(Live(s)) ELSE remaining

Complete_OneShort(s, n) == received[s] + n >= Size[fileReq[s]] - 1
Complete_OneTooMany(s, n) == received[s] + n > Size[fileReq[s]]
Complete(s, n) == received[s] + n >= Size[fileReq[s]]

(* write() failed: the file is given up and the buffer emptied. *)
ClearBuffer_KeepsOffset(s) ==
  buffer' = [buffer EXCEPT ![s] = << >>] /\ UNCHANGED bufferOffset
ClearBuffer(s) ==
  /\ buffer' = [buffer EXCEPT ![s] = << >>]
  /\ bufferOffset' = [bufferOffset EXCEPT ![s] = 0]

WriteFails(s) ==
  /\ Parsing(s) /\ stage[s] = "DATA" /\ fileOpen[s]
  /\ "error" \in DiskFaults
  /\ CloseFile(s)
  /\ stage' = [stage EXCEPT ![s] = "HEADER"]
  /\ ClearBuffer(s)
  /\ SendResponse(s, fileReq[s], "CMD_FAIL")
  /\ parsing' = FALSE
  /\ UNCHANGED <<serving, alive, closed, authAttempts, fileReq, received, disk, transfer,
                 conn, clientVars, sharedVars>>

(* write() took n characters and the file is not complete: the rest of the *)
(* buffer, if any, waits for the next recv().  Progress is published at    *)
(* most every 100 ms.                                                      *)
WriteSome(s, n) ==
  /\ ~Complete(s, n)
  /\ received' = [received EXCEPT ![s] = @ + n]
  /\ ConsumeBuffer(s, n)
  /\ transfer' \in {transfer, [active |-> TRUE, isSending |-> FALSE,
                               fileName |-> Name[fileReq[s]]]}
  /\ UNCHANGED <<stage, fileOpen, replies>>

(* The last character was written: "FILE_END\n" is skipped if all of it is *)
(* there already, and the buffer is compacted.                             *)
SentinelLength(chars) ==
  IF \E m \in Msgs : /\ Kind[m] = "sentinel" /\ Len(chars) >= Length[m]
                     /\ SubSeq(chars, 1, Length[m]) = CharsOf(m)
  THEN Length[chars[1][1]] ELSE 0

TransferEnds_Forgotten == UNCHANGED transfer
TransferEnds == transfer' = Idle

WriteCompletes(s, n) ==
  LET rest == SubSeq(Live(s), n + 1, Len(Live(s)))
  IN  /\ Complete(s, n)
      /\ TransferEnds
      /\ CloseFile(s)
      /\ received' = [received EXCEPT ![s] = 0]
      /\ stage' = [stage EXCEPT ![s] = "HEADER"]
      /\ SendResponse(s, fileReq[s], "FILE_OK")
      /\ buffer' = [buffer EXCEPT ![s] = SubSeq(rest, SentinelLength(rest) + 1, Len(rest))]
      /\ bufferOffset' = [bufferOffset EXCEPT ![s] = 0]

(* Either way processBuffer leaves its loop after handleFileData. *)
HandleFileData(s) ==
  /\ Parsing(s) /\ stage[s] = "DATA" /\ fileOpen[s]
  /\ \E n \in 1 .. ToWrite(s) :
       /\ n = ToWrite(s) \/ "short" \in DiskFaults
       /\ disk' = [disk EXCEPT ![Name[fileReq[s]]] =
                     WriteAt(@, received[s], SubSeq(Live(s), 1, n))]
       /\ WriteSome(s, n) \/ WriteCompletes(s, n)
  /\ parsing' = FALSE
  /\ UNCHANGED <<serving, alive, closed, authAttempts, fileReq, conn, clientVars, sharedVars>>

-----------------------------------------------------------------------------
(* The PIN thread of main() calls generateSession(false) after every       *)
(* PAIRING_PIN_SECS seconds of sleep.  MaxTime bounds the clock.           *)
RotatePin ==
  /\ alive /\ now >= pinIssuedAt + PAIRING_PIN_SECS
  /\ \E p \in Pins : recentPins' = Remember(recentPins, p)
  /\ pinIssuedAt' = now
  /\ UNCHANGED <<ban, now, failTimes, conn, clientVars, authVars, bufferVars, fileVars,
                 loopVars, replies>>

Tick ==
  /\ now < MaxTime
  /\ now' = now + 1
  /\ UNCHANGED <<recentPins, pinIssuedAt, ban, failTimes, conn, clientVars, authVars,
                 bufferVars, fileVars, loopVars, replies>>

ServerStep(s) ==
  \/ AcceptConnection(s) \/ OnData(s) \/ WouldBlock(s) \/ RemoveClient(s)
  \/ ProcessLine(s) \/ ProcessBufferReturns(s) \/ WriteFails(s) \/ HandleFileData(s)

Next ==
  \/ \E s \in Sessions : ServerStep(s) \/ ClientSend(s) \/ ClientLeaves(s)
  \/ RotatePin \/ Tick

Spec == Init /\ [][Next]_vars

(* The daemon's one thread keeps running; a client keeps sending.  A step  *)
(* of one session is never fairer than the loop that runs them all: epoll  *)
(* reports every descriptor that stays ready.                              *)
Fairness ==
  /\ \A s \in Sessions : WF_vars(ServerStep(s)) /\ WF_vars(ClientSend(s))

FairSpec == Spec /\ Fairness

-----------------------------------------------------------------------------
(* Properties. *)

(* Brute-force protection, across connections and reconnections: whichever *)
(* sessions an address spreads its guesses over, AUTH_FAIL_THRESHOLD + 1    *)
(* wrong PINs without a right one between them take it at least             *)
(* AUTH_BAN_INITIAL_SECS (handleAuth asks isIpBlocked before every guess).  *)
RateLimited ==
  \A ip \in Ips : \A i \in DOMAIN failTimes[ip] :
    i > AUTH_FAIL_THRESHOLD =>
      failTimes[ip][i] - failTimes[ip][i - AUTH_FAIL_THRESHOLD] >= AUTH_BAN_INITIAL_SECS

(* "A blocked IP gets an exponential backoff ban (30s, 60s, ...)": an       *)
(* address that was banned before and has not had the PIN right since is    *)
(* banned for longer than the first time.                                   *)
BansEscalate ==
  [][\A ip \in Ips :
       /\ ban'[ip].blockedUntil \notin {NoBan, ban[ip].blockedUntil}
       /\ Len(failTimes'[ip]) >= 2 * AUTH_FAIL_THRESHOLD
       => ban'[ip].blockedUntil - now > AUTH_BAN_INITIAL_SECS]_vars

(* However many guesses a client pipelines into one read, a connection      *)
(* answers at most AUTH_ATTEMPTS_PER_CONNECTION of them, and nothing is     *)
(* answered after the reply that closes it (the "!m_closed" of the loop).   *)
GuessesCapped ==
  \A s \in Sessions :
    LET fails == {i \in DOMAIN replies[s] : replies[s][i].is = "AUTH_FAIL"}
    IN  /\ Cardinality(fails) <= AUTH_ATTEMPTS_PER_CONNECTION
        /\ Cardinality(fails) = AUTH_ATTEMPTS_PER_CONNECTION =>
              replies[s][Len(replies[s])].is = "AUTH_FAIL"

(* No descriptor leaks and none is used after close: a session holds a file *)
(* exactly while it is connected and receives one, whatever the order of    *)
(* completion, write errors, hang-ups and requests.                         *)
DescriptorMatchesStage ==
  \A s \in Sessions : fileOpen[s] <=> conn[s] = "open" /\ stage[s] = "DATA"

(* A file the daemon acknowledged with FILE_OK holds, byte for byte, the    *)
(* characters its client sent for it, however the network cut them and      *)
(* whatever other sessions did between the reads.  This is for files of     *)
(* different names: FILE_START truncates a file another session receives.   *)
UploadIntact ==
  \A s \in Sessions : \A m \in Msgs :
    Got(s, m, "FILE_OK") => \A b \in Payload(m) : disk[Name[m]] = CharsOf(b)

Acceptable(m) == Kind[m] = "file" /\ Size[m] \in 1 .. MAX_RECEIVE_FILE_BYTES
DistinctNames ==
  \A s, t \in Sessions : \A i \in DOMAIN Script[s], j \in DOMAIN Script[t] :
    /\ Acceptable(Script[s][i]) /\ Acceptable(Script[t][j])
    /\ Name[Script[s][i]] = Name[Script[t][j]]
    => s = t /\ i = j

(* The bytes of a file are never taken for a request: every line that is    *)
(* answered is a whole message that asked for an answer.                    *)
PayloadNeverParsed ==
  \A s \in Sessions : \A i \in DOMAIN replies[s] :
    replies[s][i].to \in {m \in Msgs : Kind[m] # "body"}

(* What the GUI shows as being received is a file that was invited and not  *)
(* acknowledged: a session that ends, or a write that fails, leaves its own *)
(* name there for good, but no session leaves it there beyond FILE_OK, and  *)
(* none lets another one's file look unfinished.                            *)
TransferIsUnfinished ==
  transfer.active =>
    \E s \in Sessions, m \in Msgs :
      /\ Name[m] = transfer.fileName
      /\ Got(s, m, "READY_FOR_FILE") /\ ~Got(s, m, "FILE_OK")

(* Every connection implements RequestOrder: the answers a phone counts are *)
(* those to its requests, in their order.  Two kinds of messages may be     *)
(* answered and need not: a FILE_END read later than its file, and an input *)
(* event that comes before the PIN was accepted, which is a guess to        *)
(* handleAuth.  The position in the script and the invitation are read off  *)
(* the replies the connection has been sent.                                *)
LastReply(s) == replies[s][Len(replies[s])]
Position(s) ==
  IF replies[s] = << >> THEN 0
  ELSE IF \E i \in DOMAIN Script[s] : Script[s][i] = LastReply(s).to
       THEN CHOOSE i \in DOMAIN Script[s] : Script[s][i] = LastReply(s).to
       ELSE Len(Script[s]) + 1
IsInviting(s) == replies[s] # << >> /\ LastReply(s).is = "READY_FOR_FILE"

Order ==
  INSTANCE RequestOrder WITH
    Requests <- {m \in Msgs : Request(m)},
    Invited <- {m \in Msgs : Kind[m] = "file"},
    Optional <- {m \in Msgs : Kind[m] \in {"sentinel", "input", "badinput"}},
    answered <- [s \in Sessions |-> Position(s)],
    inviting <- [s \in Sessions |-> IsInviting(s)]
AnsweredInOrder == Order!Spec

(* "FILE_END (legacy, optional)": ending a file with the sentinel makes no  *)
(* difference to what is answered.                                          *)
SentinelIsSilent ==
  \A s \in Sessions : \A i \in DOMAIN replies[s] :
    replies[s][i].to \notin {m \in Msgs : Kind[m] = "sentinel"}

(* Every request a client sent is answered for good, or its connection      *)
(* ends, or the daemon does.                                                *)
RequestsAnswered(s) ==
  \A i \in {j \in DOMAIN Script[s] : Request(Script[s][j])} :
    sent[s] >= i ~> (Answered(s, Script[s][i]) \/ conn[s] = "gone" \/ ~alive)

EveryRequestAnswered == \A s \in Sessions : RequestsAnswered(s)

(* A phone that waits for each reply before it sends the next request gets  *)
(* them all, whatever the others pipeline meanwhile and however they leave. *)
PatientRequestsAnswered == \A s \in Sessions \ Pipelined : RequestsAnswered(s)
=============================================================================
