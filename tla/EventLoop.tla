------------------------------ MODULE EventLoop ------------------------------
(***************************************************************************)
(* The epoll loop of the daemon (src/server/tcp_server.cpp) over the       *)
(* descriptor numbers it works with.  One thread takes a batch of events,  *)
(* and for each of them accepts a phone (with a TLS handshake that may     *)
(* last five seconds), removes one, or reads one until there is nothing    *)
(* left to read.  What a read can make a session do, for the loop, is to   *)
(* close its own socket (a wrong PIN too many, a ban, a buffer too long),  *)
(* to push a file to a phone that may not be reading, or to press keys on  *)
(* the devices all sessions share (VirtualInput); the rest is in           *)
(* ClientSession.                                                          *)
(*                                                                         *)
(* A number that is closed is given out again, lowest first, also to the   *)
(* other threads of the process (PIN files, the mirror receiver, avahi,    *)
(* pipes of commands): "foreign".  "owned" are the numbers these threads   *)
(* take for theirs.                                                        *)
(***************************************************************************)
EXTENDS Integers, FiniteSets, VirtualInput

CONSTANTS
  Conns, NoConn,    \* phones, each with one connection at a time
  Fds, NoFd,        \* the numbers the loop and the other threads get
  MaxForeign,       \* how many the other threads hold at most
  MAX_CLIENTS, MAX_EVENTS,
  Commands,         \* input commands phones send
  PhonesAreFair     \* phones take what they are sent, and pause in sending

Server == -1        \* the listener's number

ASSUME LoopAssumption ==
  /\ Fds \subseteq Nat /\ IsFiniteSet(Fds) /\ NoFd \notin Fds
  /\ IsFiniteSet(Conns) /\ NoConn \notin Conns /\ "free" \notin Conns /\ "foreign" \notin Conns
  /\ MaxForeign \in Nat /\ MAX_CLIENTS \in Nat /\ MAX_EVENTS \in Nat \ {0}

(* A text is a sequence of characters. *)
ASSUME CommandAssumption == \A cmd \in Commands : cmd[1] = "KEY_TYPE" => cmd[2] \in Seq(STRING)

VARIABLES
  phone,        \* "gone" (or not there yet), "waiting" in the backlog, "up"
  line,         \* what is there to read: nothing ("silent"), "data", "fin", "reset"
  fds,          \* the descriptor table of the process
  owned,        \* the numbers other threads take for theirs
  clients,      \* m_clients: the connection of the session of a number
  paired,       \* the sessions past AUTH
  selfClosed,   \* the numbers whose session has closed them itself (m_closed)
  pc, cur,      \* where the loop is, and the number it works on
  guest,        \* the phone whose connection is being accepted
  batch,        \* the events of epoll_wait not yet handled
  missed,       \* the numbers that were ready but did not fit into it
  held,         \* what the kernel takes to be down on the input devices
  raced,        \* history: another thread took a number its session had closed
  foreignHurt   \* history: a descriptor of another thread was closed

phoneVars  == <<phone, line>>
kernelVars == <<fds, owned, foreignHurt>>
tableVars  == <<clients, paired, selfClosed>>
loopVars   == <<pc, cur, guest>>
batchVars  == <<batch, missed>>

vars == <<phoneVars, kernelVars, tableVars, loopVars, batchVars, held, raced>>

Events == (Fds \X {"in", "hup"}) \union {<<Server, "in">>}

SessionFds == {k \in Fds : clients[k] # NoConn}

Typed ==
  /\ phone \in [Conns -> {"gone", "waiting", "up"}]
  /\ line \in [Conns -> {"silent", "data", "fin", "reset"}]
  /\ fds \in [Fds -> Conns \union {"free", "foreign"}]
  /\ owned \subseteq Fds
  /\ clients \in [Fds -> Conns \union {NoConn}]
  /\ paired \subseteq Conns /\ selfClosed \subseteq Fds
  /\ pc \in {"dispatch", "handshake", "reading", "pushing", "removing", "closing"}
  /\ cur \in IF pc = "dispatch" THEN {NoFd} ELSE Fds
  /\ guest \in Conns \union {NoConn}
  /\ batch \subseteq Events
  /\ missed \subseteq Fds \union {Server}
  /\ raced \in BOOLEAN /\ foreignHurt \in BOOLEAN

(* Every variable has its type, and m_clients its limit. *)
TypeOK == Typed /\ Cardinality(SessionFds) <= MAX_CLIENTS

(* run() has bound the port; CommandDispatcher::init has made the devices, *)
(* or failed to.                                                           *)
Init ==
  /\ phone = [c \in Conns |-> "gone"] /\ line = [c \in Conns |-> "silent"]
  /\ fds = [k \in Fds |-> "free"] /\ owned = {}
  /\ clients = [k \in Fds |-> NoConn] /\ paired = {} /\ selfClosed = {}
  /\ pc = "dispatch" /\ cur = NoFd /\ guest = NoConn /\ batch = {} /\ missed = {}
  /\ held = {}
  /\ raced = FALSE /\ foreignHurt = FALSE

-----------------------------------------------------------------------------
(* The kernel and the other threads. *)

(* The lowest free number is taken. *)
IsLowestFree(k) == fds[k] = "free" /\ \A other \in Fds : fds[other] = "free" => k <= other

(* close(k), whatever k names by now: an unused number is EBADF. *)
Close(k) ==
  /\ fds' = [fds EXCEPT ![k] = "free"]
  /\ foreignHurt' = (foreignHurt \/ (fds[k] = "foreign"))
  /\ phone' = [c \in Conns |-> IF fds[k] = c THEN "gone" ELSE phone[c]]
  /\ UNCHANGED <<owned, line>>

ForeignOpens ==
  /\ Cardinality(owned) < MaxForeign
  /\ \E k \in Fds :
       /\ IsLowestFree(k)
       /\ fds' = [fds EXCEPT ![k] = "foreign"]
       /\ owned' = owned \union {k}
       /\ raced' = (raced \/ k \in selfClosed)
  /\ UNCHANGED <<foreignHurt, phoneVars, tableVars, loopVars, batchVars, held>>

(* The other thread closes what it takes for its own. *)
ForeignCloses ==
  /\ \E k \in owned :
       /\ fds' = [fds EXCEPT ![k] = "free"]
       /\ phone' = [c \in Conns |-> IF fds[k] = c THEN "gone" ELSE phone[c]]
       /\ owned' = owned \ {k}
  /\ UNCHANGED <<foreignHurt, line, tableVars, loopVars, batchVars, held, raced>>

-----------------------------------------------------------------------------
(* The phones. *)

(* A phone connects, again when its last connection is closed (a session   *)
(* that is left of that one is beyond its reach).                          *)
Connects(c) ==
  /\ phone[c] = "gone" /\ guest # c
  /\ phone' = [phone EXCEPT ![c] = "waiting"]
  /\ line' = [line EXCEPT ![c] = "silent"]
  /\ paired' = paired \ {c}
  /\ UNCHANGED <<kernelVars, clients, selfClosed, loopVars, batchVars, held, raced>>

(* What a phone sends while a file is pushed to it is as good as sent when *)
(* the push has ended: the loop does not look at it before.                *)
Speaks(c) ==
  /\ phone[c] \in {"waiting", "up"} /\ line[c] = "silent"
  /\ ~(pc = "pushing" /\ fds[cur] = c)
  /\ line' = [line EXCEPT ![c] = "data"]
  /\ UNCHANGED <<phone, kernelVars, tableVars, loopVars, batchVars, held, raced>>

Leaves(c) ==
  /\ phone[c] \in {"waiting", "up"} /\ line[c] \in {"silent", "data"}
  /\ \/ line[c] = "silent" /\ line' = [line EXCEPT ![c] = "fin"]
     \/ line' = [line EXCEPT ![c] = "reset"]
  /\ UNCHANGED <<phone, kernelVars, tableVars, loopVars, batchVars, held, raced>>

PhoneStep == \E c \in Conns : Connects(c) \/ Speaks(c) \/ Leaves(c)

-----------------------------------------------------------------------------
(* The loop. *)

Waiting == {c \in Conns : phone[c] = "waiting"}

(* The level-triggered events the kernel has to report. *)
EventsOf(k) ==
  IF fds[k] \notin Conns THEN {}
  ELSE CASE line[fds[k]] = "silent" -> {}
         [] line[fds[k]] = "reset"  -> {<<k, "hup">>}
         [] OTHER                   -> {<<k, "in">>}
Ready == (UNION {EventsOf(k) : k \in Fds}) \union (IF Waiting = {} THEN {} ELSE {<<Server, "in">>})

(* What did not fit into one epoll_wait comes first in the next. *)
Wait ==
  /\ pc = "dispatch" /\ batch = {} /\ Ready # {}
  /\ \E events \in SUBSET Ready :
       /\ events # {} /\ Cardinality(events) <= MAX_EVENTS
       /\ Cardinality(events) = MAX_EVENTS \/ events = Ready
       /\ \A e \in Ready : e[1] \in missed => e \in events \/ \A f \in events : f[1] \in missed
       /\ batch' = events
       /\ missed' = {e[1] : e \in Ready \ events}
  /\ UNCHANGED <<loopVars, phoneVars, kernelVars, tableVars, held, raced>>

(* The events still to be handled after e. *)
Rest(e) == batch \ {e}

TablesFull_Late == Cardinality(SessionFds) > MAX_CLIENTS
TablesFull == Cardinality(SessionFds) >= MAX_CLIENTS

(* acceptConnection() up to the handshake: the table is full, or the phone *)
(* is taken.                                                               *)
Accept(c) ==
  /\ pc = "dispatch" /\ <<Server, "in">> \in batch /\ phone[c] = "waiting"
  /\ \E k \in Fds :
       /\ IsLowestFree(k)
       /\ IF TablesFull
          THEN /\ phone' = [phone EXCEPT ![c] = "gone"]
               /\ UNCHANGED <<fds, loopVars>>
          ELSE /\ fds' = [fds EXCEPT ![k] = c]
               /\ pc' = "handshake" /\ cur' = k /\ guest' = c
               /\ phone' = [phone EXCEPT ![c] = "up"]
  /\ batch' = Rest(<<Server, "in">>)
  /\ UNCHANGED <<owned, foreignHurt, line, tableVars, missed, held, raced>>

(* accept() fails: no number is free (EMFILE), or the kernel has another   *)
(* reason (ENOMEM, ECONNABORTED).  The phone stays where it is.            *)
AcceptFails ==
  /\ pc = "dispatch" /\ <<Server, "in">> \in batch
  /\ batch' = Rest(<<Server, "in">>)
  /\ UNCHANGED <<missed, phoneVars, kernelVars, tableVars, loopVars, held, raced>>

(* acceptTls() returns: the handshake is done (it takes what the phone has *)
(* sent), has failed, or has lasted five seconds.  The session replaces    *)
(* one that is still there under its number.                               *)
HandshakeReturns_OnlyAnswered(c) == line[c] # "silent"
HandshakeReturns(c) == TRUE

HandshakeEnds ==
  /\ pc = "handshake" /\ HandshakeReturns(guest)
  /\ clients' = [clients EXCEPT ![cur] = guest]
  /\ selfClosed' = selfClosed \ {cur}
  /\ \/ line[guest] = "data" /\ line' = [line EXCEPT ![guest] = "silent"]
     \/ UNCHANGED line
  /\ pc' = "dispatch" /\ cur' = NoFd /\ guest' = NoConn
  /\ UNCHANGED <<phone, kernelVars, paired, batchVars, held, raced>>

(* An event of a phone: EPOLLHUP or EPOLLERR removes it, EPOLLIN reads.  A *)
(* number that has no session is passed over.                              *)
Dispatch(k, kind) ==
  /\ pc = "dispatch" /\ k # Server /\ <<k, kind>> \in batch
  /\ batch' = Rest(<<k, kind>>)
  /\ IF kind = "in" /\ clients[k] = NoConn THEN UNCHANGED loopVars
     ELSE /\ pc' = IF kind = "hup" THEN "removing" ELSE "reading"
          /\ cur' = k /\ UNCHANGED guest
  /\ UNCHANGED <<missed, phoneVars, kernelVars, tableVars, held, raced>>

-----------------------------------------------------------------------------
(* handleClientData: what a read returns, and what the session makes of it.*)

Reads(c) == pc = "reading" /\ fds[cur] = c /\ line[c] = "data" /\ line' = [line EXCEPT ![c] = "silent"]

(* A right PIN, or anything that stays inside the session. *)
SessionActs(c) ==
  /\ Reads(c)
  /\ paired' \in {paired, paired \union {c}}
  /\ UNCHANGED <<phone, kernelVars, clients, selfClosed, loopVars, batchVars, held, raced>>

(* Before AUTH is passed: too many PINs, a banned address, a buffer too    *)
(* long.  The session closes the number, and the loop goes on reading it.  *)
SessionRefuses(c) ==
  /\ Reads(c) /\ c \notin paired
  /\ fds' = [fds EXCEPT ![cur] = "free"]
  /\ phone' = [phone EXCEPT ![c] = "gone"]
  /\ selfClosed' = selfClosed \union {cur}
  /\ UNCHANGED <<owned, foreignHurt, clients, paired, loopVars, batchVars, held, raced>>

SessionPresses(c, cmd) ==
  /\ Reads(c) /\ c \in paired
  /\ held' = After(held, cmd)
  /\ UNCHANGED <<phone, kernelVars, tableVars, loopVars, batchVars, raced>>

(* CMD:push_file: the loop stays in the session until the phone has taken  *)
(* the file, or has gone.                                                  *)
SessionPushes(c) ==
  /\ Reads(c) /\ c \in paired
  /\ pc' = "pushing"
  /\ UNCHANGED <<phone, kernelVars, tableVars, cur, guest, batchVars, held, raced>>

PushEnds ==
  /\ pc = "pushing"
  /\ pc' = "reading"
  /\ UNCHANGED <<cur, guest, phoneVars, kernelVars, tableVars, batchVars, held, raced>>

(* EAGAIN: also of a socket another thread has opened under the number. *)
ReadWouldBlock ==
  /\ pc = "reading"
  /\ \/ fds[cur] \in Conns /\ line[fds[cur]] = "silent"
     \/ fds[cur] = "foreign"
  /\ pc' = "dispatch" /\ cur' = NoFd
  /\ UNCHANGED <<guest, phoneVars, kernelVars, tableVars, batchVars, held, raced>>

(* End of file, a reset, EBADF, or what another thread has there. *)
ReadEnds ==
  /\ pc = "reading"
  /\ fds[cur] \in Conns => line[fds[cur]] \in {"fin", "reset"}
  /\ pc' = "removing"
  /\ UNCHANGED <<cur, guest, phoneVars, kernelVars, tableVars, batchVars, held, raced>>

(* removeClient: the session, whose destructor leaves the socket alone,    *)
(* then the number, whatever it names by now.                              *)
DestroySession_ClosesSocket(k) == fds' = [fds EXCEPT ![k] = "free"]
DestroySession(k) == UNCHANGED fds

EraseSession ==
  /\ pc = "removing"
  /\ clients' = [clients EXCEPT ![cur] = NoConn]
  /\ DestroySession(cur)
  /\ pc' = "closing"
  /\ UNCHANGED <<cur, guest, phoneVars, owned, foreignHurt, paired, selfClosed, batchVars,
                 held, raced>>

CloseClient_Forgotten(k) == UNCHANGED <<kernelVars, phoneVars>>
CloseClient(k) == Close(k)

CloseRemoved ==
  /\ pc = "closing"
  /\ CloseClient(cur)
  /\ selfClosed' = selfClosed \ {cur}
  /\ pc' = "dispatch" /\ cur' = NoFd
  /\ UNCHANGED <<guest, clients, paired, batchVars, held, raced>>

LoopStep ==
  \/ Wait \/ AcceptFails \/ HandshakeEnds
  \/ \E c \in Conns : Accept(c) \/ SessionActs(c) \/ SessionRefuses(c) \/ SessionPushes(c)
  \/ \E c \in Conns, cmd \in Commands : SessionPresses(c, cmd)
  \/ \E k \in Fds, kind \in {"in", "hup"} : Dispatch(k, kind)
  \/ ReadWouldBlock \/ ReadEnds \/ EraseSession \/ CloseRemoved

Next == LoopStep \/ PushEnds \/ PhoneStep \/ ForeignOpens \/ ForeignCloses

(* The loop's thread is scheduled.  A file is taken and a phone pauses in  *)
(* sending only if the phones are fair: the code waits for both without an *)
(* end, and everybody else with it.                                        *)
Spec ==
  /\ Init /\ [][Next]_vars /\ WF_vars(LoopStep)
  /\ PhonesAreFair => WF_vars(PushEnds) /\ SF_vars(ReadWouldBlock)

-----------------------------------------------------------------------------
(* removeClient and a session that has closed its own number never close a *)
(* descriptor of another thread, unless that thread was given the number   *)
(* between the two closes.                                                 *)
ForeignUnhurt == foreignHurt => raced

(* A session and the connection under its number belong together, until    *)
(* its own handler has closed it; the other threads take nothing of it.    *)
SessionsOwnTheirNumber ==
  raced \/ \A k \in SessionFds : fds[k] = clients[k] \/ (cur = k /\ k \in selfClosed)

(* A connection the process holds is in m_clients, or in the hands of the  *)
(* handler that accepts or closes it: no number is lost.                   *)
NoConnectionLeaks ==
  \A k \in Fds :
    fds[k] \in Conns =>
      clients[k] = fds[k] \/ (cur = k /\ pc \in {"handshake", "closing"})

(* A request that has arrived on an open connection is read, or the        *)
(* connection ends, whatever the other phones do during their handshakes.  *)
EveryClientServed ==
  \A c \in Conns :
    phone[c] = "up" /\ line[c] = "data" ~> phone[c] # "up" \/ line[c] # "data"

(* A button goes down to stay only by the command of a phone that says so, *)
(* and up only by one that says so or clicks it: no other command, and not *)
(* the end of a session, touches it.                                       *)
ButtonsMoveOnRequest ==
  [][\A b \in Buttons :
       (b \in held) # (b \in held') =>
         \E c \in Conns, cmd \in Commands :
           /\ cmd[1] \in IF b \in held THEN {"MOUSE_UP", "MOUSE_CLICK"} ELSE {"MOUSE_DOWN"}
           /\ ButtonCode(cmd[2]) = b /\ SessionPresses(c, cmd)]_vars

(* A key is released in the command that struck it, Shift included. *)
KeysReleased == held \subseteq Buttons
=============================================================================
