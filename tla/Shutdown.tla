------------------------------ MODULE Shutdown ------------------------------
(***************************************************************************)
(* How the daemon starts and ends (src/main.cpp, with run() and stop() of  *)
(* TcpServer, the logger, the notification bridge and the mirror receiver):*)
(* main, the detached thread that refreshes the PIN, the thread that       *)
(* listens to D-Bus, the worker of the receiver, and the signal handler,   *)
(* which runs on whichever of them the kernel picks and stops that thread  *)
(* until it returns.                                                       *)
(*                                                                         *)
(* All of them log, and Logger::log holds a mutex while it writes: the     *)
(* "log..." stops are such a call, from the lock to the unlock.  What an   *)
(* event of the epoll loop does is in EventLoop, the descriptors of the    *)
(* receiver are in MirrorReceiver, mdns.start() and stop() in              *)
(* MdnsAdvertiser: here is what of them main waits for.                    *)
(***************************************************************************)
EXTENDS Naturals

CONSTANTS
  MaxSignals,     \* how many signals are sent, one at a time
  MaxEvents,      \* how many events epoll_wait reports at most
  PhonesAreFair   \* a phone the daemon waits for takes, speaks or leaves in the end

ASSUME SignalsAssumption == MaxSignals \in Nat /\ MaxEvents \in Nat

Threads == {"main", "pin", "notif", "mirror"}

VARIABLES
  pc,            \* where each thread is
  handler,       \* where signalHandler is: "idle", "log", "clear", "load" or "stop"
  on,            \* the thread it runs on, or "nobody"
  logMutex,      \* who holds it: a thread, "handler" or "nobody"
  running,       \* g_running
  server,        \* g_server is set
  serverRunning, \* TcpServer::m_running
  notifRunning,  \* NotificationBridge::m_running
  batch,         \* events of the last epoll_wait not yet handled
  serverAlive,   \* the server on main's stack is
  alive,         \* so are mdns and sessionMgr
  signals,       \* how many have been sent
  heard,         \* history: one came when run() had set m_running
  selfLocked,    \* history: one came on a thread that was logging
  overtaken,     \* history: main cleared g_server after the handler had read it
  gaveUp,        \* history: run() could not set up the port, or epoll_wait failed
  caught,        \* history: g_running was cleared in the middle of this refresh
  deadServer     \* history: stop() was called on a server that is gone

flags   == <<running, server, serverRunning, notifRunning>>
objects == <<serverAlive, alive>>
history == <<heard, selfLocked, overtaken, gaveUp, caught, deadServer>>
vars    == <<pc, handler, on, logMutex, flags, batch, objects, signals, history>>

(* The stops of each thread, by the line it is about to execute, and where *)
(* its log calls lead.  The worker of the receiver is "none" until a       *)
(* receiver is made; "wait" is the worker without a phone, or with one     *)
(* that stop() can shut down, "accepted" with one it has not yet stored in *)
(* clientFd, "held" with one that stop() has missed.                       *)
AfterLog ==
  [logReady   |-> "run",       logListening  |-> "loop",  logEvent |-> "serve",
   logEnded   |-> "stopNotif", logBindFailed |-> "stopNotif",
   logGoodbye |-> "destroy",   logStopped    |-> "destroyRest",
   logPin     |-> "while",
   logNotice  |-> "listen",    logNotifEnd   |-> "ended",
   logMirror  |-> "wait"]
LogStops  == DOMAIN AfterLog
MainStops ==
  {"startPin", "startNotif", "setServer", "logReady", "run", "logListening", "loop",
   "serve", "logEvent", "phone", "joinMirror", "logEnded", "logBindFailed", "stopNotif",
   "joinNotif", "clearServer", "logGoodbye", "destroy", "joinAtEnd", "logStopped",
   "destroyRest", "return", "exited"}
PinStops    == {"none", "while", "sleep", "refresh", "logPin", "ended"}
NotifStops  == {"none", "connect", "listen", "logNotice", "logNotifEnd", "ended"}
MirrorStops == {"none", "logMirror", "wait", "accepted", "held", "ended"}

(* Every variable has its type, and who holds the mutex is in a log call. *)
TypeOK ==
  /\ pc \in [Threads -> MainStops \union PinStops \union NotifStops \union MirrorStops]
  /\ pc["main"] \in MainStops /\ pc["pin"] \in PinStops /\ pc["notif"] \in NotifStops
  /\ pc["mirror"] \in MirrorStops
  /\ handler \in {"idle", "log", "clear", "load", "stop"}
  /\ on \in Threads \union {"nobody"}
  /\ logMutex \in Threads \union {"handler", "nobody"}
  /\ logMutex = "handler" => handler = "log"
  /\ \A t \in Threads : logMutex = t => pc[t] \in LogStops
  /\ running \in BOOLEAN /\ server \in BOOLEAN /\ serverRunning \in BOOLEAN
  /\ notifRunning \in BOOLEAN /\ serverAlive \in BOOLEAN /\ alive \in BOOLEAN
  /\ batch \in 0 .. MaxEvents
  /\ signals \in 0 .. MaxSignals
  /\ heard \in BOOLEAN /\ selfLocked \in BOOLEAN /\ overtaken \in BOOLEAN
  /\ gaveUp \in BOOLEAN /\ caught \in BOOLEAN /\ deadServer \in BOOLEAN

(* main has installed the handlers and announced the daemon. *)
Init ==
  /\ pc = [t \in Threads |-> IF t = "main" THEN "startPin" ELSE "none"]
  /\ handler = "idle" /\ on = "nobody" /\ logMutex = "nobody"
  /\ running = TRUE /\ server = FALSE /\ serverRunning = FALSE /\ notifRunning = FALSE
  /\ batch = 0 /\ serverAlive = TRUE /\ alive = TRUE /\ signals = 0
  /\ heard = FALSE /\ selfLocked = FALSE /\ overtaken = FALSE /\ gaveUp = FALSE
  /\ caught = FALSE /\ deadServer = FALSE

(* Thread t is at a stop and may move: the process lives, and no handler   *)
(* runs on the thread.                                                     *)
At(t, stop) == pc[t] = stop /\ on # t /\ pc["main"] # "exited"
Goes(t, stop) == pc' = [pc EXCEPT ![t] = stop]

-----------------------------------------------------------------------------
(* Logger::log. *)

TakeMutex(t) ==
  /\ \E stop \in LogStops : At(t, stop)
  /\ logMutex = "nobody" /\ logMutex' = t
  /\ UNCHANGED <<pc, handler, on, flags, batch, objects, signals, history>>

Written_KeepsMutex(t) ==
  /\ \E stop \in LogStops : At(t, stop) /\ Goes(t, AfterLog[stop])
  /\ logMutex = t
  /\ UNCHANGED <<handler, on, logMutex, flags, batch, objects, signals, history>>
Written(t) ==
  /\ \E stop \in LogStops : At(t, stop) /\ Goes(t, AfterLog[stop])
  /\ logMutex = t /\ logMutex' = "nobody"
  /\ UNCHANGED <<handler, on, flags, batch, objects, signals, history>>

-----------------------------------------------------------------------------
(* main. *)

StartPin ==
  /\ At("main", "startPin")
  /\ pc' = [pc EXCEPT !["main"] = "startNotif", !["pin"] = "while"]
  /\ UNCHANGED <<handler, on, logMutex, flags, batch, objects, signals, history>>

(* startMonitoring() sets m_running, then starts the thread. *)
StartNotif ==
  /\ At("main", "startNotif")
  /\ notifRunning' = TRUE
  /\ pc' = [pc EXCEPT !["main"] = "setServer", !["notif"] = "connect"]
  /\ UNCHANGED <<handler, on, logMutex, running, server, serverRunning, batch,
                 objects, signals, history>>

SetServer ==
  /\ At("main", "setServer") /\ Goes("main", "logReady")
  /\ server' = TRUE
  /\ UNCHANGED <<handler, on, logMutex, running, serverRunning, notifRunning, batch,
                 objects, signals, history>>

(* run() up to its loop: socket(), bind(), listen() or epoll_create1() may *)
(* fail.  A stop() from before m_running is set is forgotten.              *)
Run ==
  /\ At("main", "run")
  /\ \/ Goes("main", "logListening") /\ serverRunning' = TRUE /\ UNCHANGED gaveUp
     \/ Goes("main", "logBindFailed") /\ UNCHANGED serverRunning /\ gaveUp' = TRUE
  /\ UNCHANGED <<handler, on, logMutex, running, server, notifRunning, batch, objects,
                 signals, heard, selfLocked, overtaken, caught, deadServer>>

(* One turn: epoll_wait, which returns within a second, reports some       *)
(* events, or fails and says so with the end of the loop; m_running is     *)
(* looked at before it, not between events.                                *)
Loop ==
  /\ At("main", "loop")
  /\ \/ ~serverRunning /\ Goes("main", "logEnded") /\ UNCHANGED <<batch, gaveUp>>
     \/ /\ serverRunning /\ Goes("main", "serve")
        /\ batch' \in 0 .. MaxEvents /\ UNCHANGED gaveUp
     \/ serverRunning /\ Goes("main", "logEnded") /\ gaveUp' = TRUE /\ UNCHANGED batch
  /\ UNCHANGED <<handler, on, logMutex, flags, objects, signals, heard, selfLocked,
                 overtaken, caught, deadServer>>

BatchDone ==
  /\ At("main", "serve") /\ batch = 0 /\ Goes("main", "loop")
  /\ UNCHANGED <<handler, on, logMutex, flags, batch, objects, signals, history>>

(* What an event may come to: it is handled at once; it waits for a phone, *)
(* in a push, a reply over TLS, or a read that goes on for as long as the  *)
(* phone sends; START_MIRROR makes a worker, if there is none at work and  *)
(* its port is free; STOP_MIRROR tells it to stop and joins it.            *)
Serve ==
  /\ At("main", "serve") /\ batch > 0 /\ batch' = batch - 1
  /\ \/ Goes("main", "logEvent") \/ Goes("main", "phone")
     \/ /\ pc["mirror"] \in {"none", "ended"}
        /\ \E stop \in {"logMirror", "ended"} :
             pc' = [pc EXCEPT !["main"] = "logEvent", !["mirror"] = stop]
     \/ pc["mirror"] # "none" /\ Goes("main", "joinMirror")
  /\ UNCHANGED <<handler, on, logMutex, flags, objects, signals, history>>

JoinMirror ==
  /\ At("main", "joinMirror") /\ pc["mirror"] = "ended" /\ Goes("main", "logEvent")
  /\ UNCHANGED <<handler, on, logMutex, flags, batch, objects, signals, history>>

(* mdns.stop() returns (MdnsAdvertiser); then stopMonitoring(). *)
StopNotif ==
  /\ At("main", "stopNotif") /\ Goes("main", "joinNotif")
  /\ notifRunning' = FALSE
  /\ UNCHANGED <<handler, on, logMutex, running, server, serverRunning, batch,
                 objects, signals, history>>

JoinNotif ==
  /\ At("main", "joinNotif") /\ pc["notif"] = "ended" /\ Goes("main", "clearServer")
  /\ UNCHANGED <<handler, on, logMutex, flags, batch, objects, signals, history>>

ClearedServer_Forgotten == server
ClearedServer == FALSE

ClearServer ==
  /\ At("main", "clearServer") /\ Goes("main", "logGoodbye")
  /\ server' = ClearedServer
  /\ overtaken' = (overtaken \/ (handler = "stop"))
  /\ UNCHANGED <<handler, on, logMutex, running, serverRunning, notifRunning, batch,
                 objects, signals, heard, selfLocked, gaveUp, caught, deadServer>>

(* The locals of main are destroyed, the last one first: the server, then  *)
(* the dispatcher with its receiver, whose stop() joins the worker, then   *)
(* mdns and sessionMgr.  After that exit() ends the other threads.         *)
Destroy ==
  /\ At("main", "destroy")
  /\ Goes("main", IF pc["mirror"] = "none" THEN "destroyRest" ELSE "joinAtEnd")
  /\ serverAlive' = FALSE /\ serverRunning' = FALSE
  /\ UNCHANGED <<handler, on, logMutex, running, server, notifRunning, batch, alive,
                 signals, history>>

JoinAtEnd ==
  /\ At("main", "joinAtEnd") /\ pc["mirror"] = "ended" /\ Goes("main", "logStopped")
  /\ UNCHANGED <<handler, on, logMutex, flags, batch, objects, signals, history>>

DestroyRest ==
  /\ At("main", "destroyRest") /\ Goes("main", "return")
  /\ alive' = FALSE
  /\ UNCHANGED <<handler, on, logMutex, flags, batch, serverAlive, signals, history>>

Exit ==
  /\ At("main", "return") /\ Goes("main", "exited")
  /\ UNCHANGED <<handler, on, logMutex, flags, batch, objects, signals, history>>

MainStep ==
  \/ TakeMutex("main") \/ Written("main")
  \/ StartPin \/ StartNotif \/ SetServer \/ Run
  \/ Loop \/ BatchDone \/ Serve \/ JoinMirror
  \/ StopNotif \/ JoinNotif \/ ClearServer
  \/ Destroy \/ JoinAtEnd \/ DestroyRest \/ Exit

-----------------------------------------------------------------------------
(* The PIN thread: g_running is looked at before and after the sleep. *)

PinWhile ==
  /\ At("pin", "while")
  /\ Goes("pin", IF running THEN "sleep" ELSE "ended")
  /\ UNCHANGED <<handler, on, logMutex, flags, batch, objects, signals, history>>

MayRefresh_Always == TRUE
MayRefresh == running

PinWakes ==
  /\ At("pin", "sleep")
  /\ IF MayRefresh THEN Goes("pin", "refresh") ELSE Goes("pin", "ended")
  /\ UNCHANGED <<handler, on, logMutex, flags, batch, objects, signals, history>>

Refreshing == pc["pin"] = "refresh"

(* sessionMgr->generateSession(), then mdns.updatePin(): both are main's.  *)
PinRefreshes ==
  /\ At("pin", "refresh") /\ Goes("pin", "logPin")
  /\ caught' = FALSE
  /\ UNCHANGED <<handler, on, logMutex, flags, batch, objects, signals, heard,
                 selfLocked, overtaken, gaveUp, deadServer>>

PinStep == TakeMutex("pin") \/ Written("pin") \/ PinWhile \/ PinWakes \/ PinRefreshes

-----------------------------------------------------------------------------
(* The notification thread. *)

(* Without a session bus it returns at once; its flag stays set. *)
Connects ==
  /\ At("notif", "connect")
  /\ Goes("notif", "logNotifEnd") \/ Goes("notif", "logNotice")
  /\ UNCHANGED <<handler, on, logMutex, flags, batch, objects, signals, history>>

(* A turn of the loop, which reads for at most 100 ms and may have a       *)
(* notification to log.                                                    *)
Listen ==
  /\ At("notif", "listen")
  /\ IF notifRunning THEN Goes("notif", "listen") \/ Goes("notif", "logNotice")
     ELSE Goes("notif", "logNotifEnd")
  /\ UNCHANGED <<handler, on, logMutex, flags, batch, objects, signals, history>>

NotifStep == TakeMutex("notif") \/ Written("notif") \/ Connects \/ Listen

-----------------------------------------------------------------------------
(* The worker of the receiver. *)

(* stop() has cleared m_running and shut what it knows of. *)
Told == pc["main"] \in {"joinMirror", "joinAtEnd"}

(* A worker that is told ends, if it is not on its way into its last log   *)
(* call already; another may accept a phone, log, or end by itself.        *)
WorkerTurns ==
  /\ At("mirror", "wait")
  /\ \/ Goes("mirror", "ended")
     \/ ~Told /\ (Goes("mirror", "accepted") \/ Goes("mirror", "logMirror"))
  /\ UNCHANGED <<handler, on, logMutex, flags, batch, objects, signals, history>>

(* It stores clientFd, which stop() may have looked at before: then only   *)
(* the phone ends the handshake or the read that comes next.               *)
StoresClient ==
  /\ At("mirror", "accepted") /\ Goes("mirror", IF Told THEN "held" ELSE "wait")
  /\ UNCHANGED <<handler, on, logMutex, flags, batch, objects, signals, history>>

MirrorStep == TakeMutex("mirror") \/ Written("mirror") \/ WorkerTurns \/ StoresClient

(* The phone somebody waits for takes what was sent, pauses, speaks or     *)
(* leaves.                                                                 *)
PhoneLetsGo ==
  /\ \/ At("main", "phone") /\ Goes("main", "serve")
     \/ At("mirror", "held") /\ Goes("mirror", "logMirror")
  /\ UNCHANGED <<handler, on, logMutex, flags, batch, objects, signals, history>>

-----------------------------------------------------------------------------
(* SIGINT or SIGTERM, and signalHandler. *)

Signal(t) ==
  /\ handler = "idle" /\ signals < MaxSignals /\ pc["main"] # "exited"
  /\ pc[t] \notin {"none", "ended"}
  /\ handler' = "log" /\ on' = t
  /\ signals' = signals + 1
  /\ heard' = (heard \/ (pc["main"] \notin {"startPin", "startNotif", "setServer",
                                           "logReady", "run"}))
  /\ selfLocked' = (selfLocked \/ logMutex = t)
  /\ UNCHANGED <<pc, logMutex, flags, batch, objects, overtaken, gaveUp, caught,
                 deadServer>>

HandlerAt(stop) == handler = stop /\ pc["main"] # "exited"

(* Its log call waits for the mutex, for ever if its own thread holds it.  *)
HandlerTakesMutex ==
  /\ HandlerAt("log") /\ logMutex = "nobody"
  /\ logMutex' = "handler"
  /\ UNCHANGED <<pc, handler, on, flags, batch, objects, signals, history>>

HandlerWritten ==
  /\ HandlerAt("log") /\ logMutex = "handler"
  /\ logMutex' = "nobody" /\ handler' = "clear"
  /\ UNCHANGED <<pc, on, flags, batch, objects, signals, history>>

HandlerClears ==
  /\ HandlerAt("clear") /\ handler' = "load"
  /\ running' = FALSE
  /\ caught' = (caught \/ Refreshing)
  /\ UNCHANGED <<pc, on, logMutex, server, serverRunning, notifRunning, batch,
                 objects, signals, heard, selfLocked, overtaken, gaveUp, deadServer>>

HandlerLoads ==
  /\ HandlerAt("load")
  /\ IF server THEN handler' = "stop" /\ UNCHANGED on
     ELSE handler' = "idle" /\ on' = "nobody"
  /\ UNCHANGED <<pc, logMutex, flags, batch, objects, signals, history>>

Stopped_Forgotten == serverRunning
Stopped == FALSE

HandlerStops ==
  /\ HandlerAt("stop")
  /\ handler' = "idle" /\ on' = "nobody"
  /\ serverRunning' = Stopped
  /\ deadServer' = (deadServer \/ ~serverAlive)
  /\ UNCHANGED <<pc, logMutex, running, server, notifRunning, batch, objects, signals,
                 heard, selfLocked, overtaken, gaveUp, caught>>

HandlerStep ==
  HandlerTakesMutex \/ HandlerWritten \/ HandlerClears \/ HandlerLoads \/ HandlerStops

Next ==
  \/ MainStep \/ PinStep \/ NotifStep \/ MirrorStep \/ HandlerStep \/ PhoneLetsGo
  \/ \E t \in Threads : Signal(t)

(* Threads are scheduled; neither the handler nor a thread that main waits *)
(* for is passed over at the mutex for ever.  No code makes a phone let go. *)
Spec ==
  /\ Init /\ [][Next]_vars
  /\ SF_vars(MainStep) /\ SF_vars(HandlerStep) /\ SF_vars(NotifStep) /\ WF_vars(PinStep)
  /\ SF_vars(MirrorStep)
  /\ PhonesAreFair => WF_vars(PhoneLetsGo)

-----------------------------------------------------------------------------
(* stop() is called on a server that is gone only if the handler, on       *)
(* another thread, had read g_server before main cleared it.               *)
ServerStoppedAlive == deadServer => overtaken

(* The PIN thread uses what main has destroyed only if its refresh was in  *)
(* progress when the handler cleared g_running: main ends after the handler *)
(* has cleared it, and the second look at it keeps the thread away.  Only   *)
(* when run() gave up by itself, because it could not set up the port or    *)
(* epoll_wait failed, does main end with g_running set.                     *)
RefreshWithinLifetime == Refreshing /\ ~alive => caught \/ gaveUp

(* A signal that comes once run() has set m_running ends the daemon, as    *)
(* does a run() that gives up.  Until then main waits for the notification *)
(* thread, whether it found a bus or not, for the worker of the receiver,  *)
(* in STOP_MIRROR and again at its end, and for phones: the one it serves, *)
(* and the one such a worker has accepted behind the back of stop().  If   *)
(* those phones let go, only a signal that interrupts a log call of its    *)
(* own thread hangs the daemon.                                            *)
DaemonEnds == heard \/ gaveUp ~> pc["main"] = "exited" \/ selfLocked
=============================================================================
