--------------------------- MODULE MirrorReceiver ---------------------------
(***************************************************************************)
(* The screen-mirror receiver (src/mirror/mirror_receiver.cpp) under the   *)
(* START_MIRROR and STOP_MIRROR commands of the dispatcher                 *)
(* (src/commands/command_dispatcher.cpp).  Two threads share it: the main  *)
(* thread, which runs start() and stop(), and the worker that start()      *)
(* spawns, which accepts one phone and displays its frames.  They share    *)
(* m_running (atomic) and the plain ints listenerFd and clientFd.          *)
(*                                                                         *)
(* A step is at most one access to shared memory or one system call.  The  *)
(* kernel gives out the lowest free descriptor, so a number one thread has *)
(* just closed can name something else in the next step: the files and     *)
(* sockets of the daemon's other threads (the PIN thread, avahi, D-Bus,    *)
(* GStreamer) are "foreign".                                               *)
(***************************************************************************)
EXTENDS Integers, FiniteSets

CONSTANTS
  Fds,            \* the descriptor numbers the receiver may see
  MaxForeign,     \* how many the other threads hold at most
  PhonesAreFair   \* a phone that is connected speaks or leaves in the end

ASSUME FdAssumption == Fds \subseteq Nat /\ IsFiniteSet(Fds) /\ MaxForeign \in Nat

NoFd == -1

VARIABLES
  mainPc,         \* where the main thread is in start() or stop()
  workerPc,       \* where the worker is; "none" when it is not joinable
  running,        \* m_running
  listenerFd,     \* m_impl->listenerFd
  clientFd,       \* m_impl->clientFd
  cfd, lfd,       \* locals of the worker: its client, its copy of listenerFd
  pipeline,       \* the GStreamer pipeline exists
  fds,            \* the descriptor table of the process
  queue,          \* a phone waits in the listener's backlog
  listenerShut,   \* shutdown() was called on the listener
  peer,           \* the accepted phone: "none", "silent", "talking", "gone"
  streamShut,     \* shutdown() was called on its socket
  overlap,        \* history: stop() was called while a worker was at work
  foreignClosed   \* history: a descriptor of another thread was closed

sockets == <<queue, listenerShut, peer, streamShut>>
history == <<overlap, foreignClosed>>
vars == <<mainPc, workerPc, running, listenerFd, clientFd, cfd, lfd, pipeline, fds, sockets,
          history>>

MainStops ==
  {"idle", "ready", "error", "ok", "joinOld", "closeStale", "bind", "stopListener",
   "closeListener", "forgetListener", "stopClient", "closeClient", "forgetClient",
   "join", "cleanup"}
WorkerStops ==
  {"none", "poll", "accept", "setClient", "handshake", "handshaking", "build", "failClose",
   "failForget", "loop", "reading", "teardown", "closeClient", "forgetClient",
   "loadListener", "closeListener", "forgetListener", "clearRunning", "done"}

TypeOK ==
  /\ mainPc \in MainStops
  /\ workerPc \in WorkerStops
  /\ running \in BOOLEAN
  /\ {listenerFd, clientFd, cfd, lfd} \subseteq Fds \union {NoFd}
  /\ pipeline \in BOOLEAN
  /\ fds \in [Fds -> {"free", "listener", "stream", "foreign"}]
  /\ queue \in BOOLEAN /\ listenerShut \in BOOLEAN /\ streamShut \in BOOLEAN
  /\ peer \in {"none", "silent", "talking", "gone"}
  /\ overlap \in BOOLEAN /\ foreignClosed \in BOOLEAN

Init ==
  /\ mainPc = "idle" /\ workerPc = "none"
  /\ running = FALSE
  /\ listenerFd = NoFd /\ clientFd = NoFd /\ cfd = NoFd /\ lfd = NoFd
  /\ pipeline = FALSE
  /\ fds = [fd \in Fds |-> "free"]
  /\ queue = FALSE /\ listenerShut = FALSE /\ peer = "none" /\ streamShut = FALSE
  /\ overlap = FALSE /\ foreignClosed = FALSE

-----------------------------------------------------------------------------
(* The kernel. *)

Names(fd, object) == fd \in Fds /\ fds[fd] = object
IsOpen(object) == \E fd \in Fds : fds[fd] = object

(* The lowest free number is taken by the object. *)
Takes(fd, object) ==
  /\ fds[fd] = "free" /\ \A other \in Fds : fds[other] = "free" => fd <= other
  /\ fds' = [fds EXCEPT ![fd] = object]

(* close(fd), whatever fd names by now: an unused number is EBADF.  The    *)
(* phones that wait on a listener are refused when it goes.                *)
Close(fd) ==
  /\ fds' = [n \in Fds |-> IF n = fd THEN "free" ELSE fds[n]]
  /\ queue' = (queue /\ ~Names(fd, "listener"))
  /\ peer' = IF Names(fd, "stream") THEN "none" ELSE peer
  /\ foreignClosed' = (foreignClosed \/ Names(fd, "foreign"))
  /\ UNCHANGED <<listenerShut, streamShut, overlap>>

OtherThreads ==
  /\ \/ /\ Cardinality({fd \in Fds : fds[fd] = "foreign"}) < MaxForeign
        /\ \E fd \in Fds : Takes(fd, "foreign")
     \/ \E fd \in Fds : fds[fd] = "foreign" /\ fds' = [fds EXCEPT ![fd] = "free"]
  /\ UNCHANGED <<mainPc, workerPc, running, listenerFd, clientFd, cfd, lfd, pipeline, sockets,
                 history>>

-----------------------------------------------------------------------------
(* The phones: one connects while the listener is open; the accepted one   *)
(* falls silent, speaks, or goes away.                                     *)
PhoneConnects ==
  /\ IsOpen("listener") /\ ~listenerShut /\ ~queue
  /\ queue' = TRUE
  /\ UNCHANGED <<mainPc, workerPc, running, listenerFd, clientFd, cfd, lfd, pipeline, fds,
                 listenerShut, peer, streamShut, history>>

PhoneActs ==
  /\ peer = "silent"
  /\ peer' \in {"talking", "gone"}
  /\ UNCHANGED <<mainPc, workerPc, running, listenerFd, clientFd, cfd, lfd, pipeline, fds,
                 queue, listenerShut, streamShut, history>>

-----------------------------------------------------------------------------
(* The main thread. *)

MainGoes(from, to) == mainPc = from /\ mainPc' = to
WorkerEnded == workerPc \in {"none", "done"}
workerVars == <<workerPc, cfd, lfd>>

(* START_MIRROR: a receiver that runs is reported as it is. *)
StartMirror ==
  /\ MainGoes("idle", IF running THEN "ready" ELSE "joinOld")
  /\ UNCHANGED <<workerVars, running, listenerFd, clientFd, pipeline, fds, sockets, history>>

(* start(): join the previous worker. *)
JoinOld_Skipped ==
  /\ MainGoes("joinOld", "closeStale")
  /\ UNCHANGED <<workerVars, running, listenerFd, clientFd, pipeline, fds, sockets, history>>
JoinOld ==
  /\ MainGoes("joinOld", "closeStale")
  /\ WorkerEnded
  /\ workerPc' = "none"
  /\ UNCHANGED <<running, listenerFd, clientFd, cfd, lfd, pipeline, fds, sockets, history>>

(* Close the listener that a worker left open when it failed. *)
CloseStale_Skipped ==
  /\ MainGoes("closeStale", "bind")
  /\ listenerFd' = NoFd
  /\ UNCHANGED <<workerVars, running, clientFd, pipeline, fds, sockets, history>>
CloseStale ==
  /\ MainGoes("closeStale", "bind")
  /\ IF listenerFd # NoFd THEN Close(listenerFd) ELSE UNCHANGED <<fds, sockets, history>>
  /\ listenerFd' = NoFd
  /\ UNCHANGED <<workerVars, running, clientFd, pipeline>>

(* socket, bind and listen may fail; if not, the worker is spawned.  No    *)
(* other thread looks at the receiver before that.                         *)
BindAndSpawn ==
  /\ mainPc = "bind"
  /\ \/ /\ mainPc' = "error"
        /\ UNCHANGED <<workerPc, running, listenerFd, fds, queue, listenerShut>>
     \/ /\ mainPc' = "ready"
        /\ \E fd \in Fds : Takes(fd, "listener") /\ listenerFd' = fd
        /\ queue' = FALSE /\ listenerShut' = FALSE
        /\ running' = TRUE
        /\ workerPc' = "poll"
  /\ UNCHANGED <<clientFd, cfd, lfd, pipeline, peer, streamShut, history>>

(* STOP_MIRROR. *)
StopMirror ==
  /\ MainGoes("idle", "stopListener")
  /\ running' = FALSE
  /\ overlap' = (overlap \/ ~WorkerEnded)
  /\ UNCHANGED <<workerVars, listenerFd, clientFd, pipeline, fds, sockets, foreignClosed>>

(* stop(): the listener is tested and shut down, closed, and forgotten; the *)
(* worker may do the same to it at any moment.                             *)
StopListener ==
  /\ MainGoes("stopListener", IF listenerFd = NoFd THEN "stopClient" ELSE "closeListener")
  /\ listenerShut' = (listenerShut \/ Names(listenerFd, "listener"))
  /\ UNCHANGED <<workerVars, running, listenerFd, clientFd, pipeline, fds, queue, peer,
                 streamShut, history>>

CloseListener ==
  /\ MainGoes("closeListener", "forgetListener")
  /\ Close(listenerFd)
  /\ UNCHANGED <<workerVars, running, listenerFd, clientFd, pipeline>>

ForgetListener ==
  /\ MainGoes("forgetListener", "stopClient")
  /\ listenerFd' = NoFd
  /\ UNCHANGED <<workerVars, running, clientFd, pipeline, fds, sockets, history>>

StopClient ==
  /\ MainGoes("stopClient", IF clientFd = NoFd THEN "join" ELSE "closeClient")
  /\ streamShut' = (streamShut \/ Names(clientFd, "stream"))
  /\ UNCHANGED <<workerVars, running, listenerFd, clientFd, pipeline, fds, queue,
                 listenerShut, peer, history>>

CloseClient ==
  /\ MainGoes("closeClient", "forgetClient")
  /\ Close(clientFd)
  /\ UNCHANGED <<workerVars, running, listenerFd, clientFd, pipeline>>

ForgetClient ==
  /\ MainGoes("forgetClient", "join")
  /\ clientFd' = NoFd
  /\ UNCHANGED <<workerVars, running, listenerFd, pipeline, fds, sockets, history>>

Join ==
  /\ MainGoes("join", "cleanup")
  /\ WorkerEnded
  /\ workerPc' = "none"
  /\ UNCHANGED <<running, listenerFd, clientFd, cfd, lfd, pipeline, fds, sockets, history>>

Cleanup ==
  /\ MainGoes("cleanup", "ok")
  /\ pipeline' = FALSE
  /\ UNCHANGED <<workerVars, running, listenerFd, clientFd, fds, sockets, history>>

(* MIRROR_READY, MIRROR_ERROR or CMD_OK is sent. *)
Reply ==
  /\ mainPc \in {"ready", "error", "ok"} /\ mainPc' = "idle"
  /\ UNCHANGED <<workerVars, running, listenerFd, clientFd, pipeline, fds, sockets, history>>

MainStep ==
  \/ JoinOld \/ CloseStale \/ BindAndSpawn \/ StopListener \/ CloseListener \/ ForgetListener
  \/ StopClient \/ CloseClient \/ ForgetClient \/ Join \/ Cleanup \/ Reply

-----------------------------------------------------------------------------
(* The worker. *)

WorkerGoes(from, to) == workerPc = from /\ workerPc' = to

(* poll() on the listener times out every 200 ms, and returns at once when *)
(* a phone waits, the socket is shut down or the number is no listener.    *)
PollReturns_NoTimeout ==
  /\ WorkerGoes("poll", "accept")
  /\ listenerFd # NoFd
  /\ queue \/ listenerShut \/ ~Names(listenerFd, "listener")
  /\ UNCHANGED <<mainPc, running, listenerFd, clientFd, cfd, lfd, pipeline, fds, sockets,
                 history>>
PollReturns ==
  /\ \/ /\ WorkerGoes("poll", "accept")
        /\ listenerFd # NoFd
        /\ queue \/ listenerShut \/ ~Names(listenerFd, "listener")
     \/ WorkerGoes("poll", "clearRunning") /\ ~running
  /\ UNCHANGED <<mainPc, running, listenerFd, clientFd, cfd, lfd, pipeline, fds, sockets,
                 history>>

(* accept() fails when the listener is gone or there is no free number. *)
Accept ==
  /\ \/ /\ WorkerGoes("accept", "setClient")
        /\ Names(listenerFd, "listener") /\ ~listenerShut /\ queue
        /\ \E fd \in Fds : Takes(fd, "stream") /\ cfd' = fd
        /\ queue' = FALSE
        /\ peer' = "silent" /\ streamShut' = FALSE
     \/ /\ WorkerGoes("accept", "clearRunning")
        /\ \/ ~Names(listenerFd, "listener") \/ listenerShut
           \/ \A fd \in Fds : fds[fd] # "free"
        /\ UNCHANGED <<cfd, fds, queue, peer, streamShut>>
  /\ UNCHANGED <<mainPc, running, listenerFd, clientFd, lfd, pipeline, listenerShut, history>>

SetClient ==
  /\ WorkerGoes("setClient", "handshake")
  /\ clientFd' = cfd
  /\ UNCHANGED <<mainPc, running, listenerFd, cfd, lfd, pipeline, fds, sockets, history>>

(* acceptTls on a blocking socket: SSL_accept returns when the phone says  *)
(* something, leaves, or the socket is shut down.  A failed handshake      *)
(* falls back to plain recv.                                               *)
CallHandshake ==
  /\ WorkerGoes("handshake", IF Names(cfd, "stream") THEN "handshaking" ELSE "build")
  /\ UNCHANGED <<mainPc, running, listenerFd, clientFd, cfd, lfd, pipeline, fds, sockets,
                 history>>

StreamReady == peer \in {"talking", "gone"} \/ streamShut

Listens == peer' = IF peer = "talking" THEN "silent" ELSE peer

HandshakeReturns ==
  /\ WorkerGoes("handshaking", "build")
  /\ StreamReady
  /\ Listens
  /\ UNCHANGED <<mainPc, running, listenerFd, clientFd, cfd, lfd, pipeline, fds, queue,
                 listenerShut, streamShut, history>>

BuildPipeline ==
  /\ \/ WorkerGoes("build", "loop") /\ pipeline' = TRUE
     \/ WorkerGoes("build", "failClose") /\ pipeline' = FALSE
  /\ UNCHANGED <<mainPc, running, listenerFd, clientFd, cfd, lfd, fds, sockets, history>>

FailClose ==
  /\ WorkerGoes("failClose", "failForget")
  /\ Close(cfd)
  /\ UNCHANGED <<mainPc, running, listenerFd, clientFd, cfd, lfd, pipeline>>

FailForget ==
  /\ WorkerGoes("failForget", "clearRunning")
  /\ clientFd' = NoFd
  /\ UNCHANGED <<mainPc, running, listenerFd, cfd, lfd, pipeline, fds, sockets, history>>

(* The frame loop: recv() on a number that is no longer the stream fails. *)
FrameLoop ==
  /\ WorkerGoes("loop", IF running /\ Names(cfd, "stream") THEN "reading" ELSE "teardown")
  /\ UNCHANGED <<mainPc, running, listenerFd, clientFd, cfd, lfd, pipeline, fds, sockets,
                 history>>

(* A frame is displayed, or its length is refused, or the stream ended. *)
ReadReturns ==
  /\ StreamReady
  /\ \/ WorkerGoes("reading", "teardown")
     \/ WorkerGoes("reading", "loop") /\ peer = "talking"
  /\ Listens
  /\ UNCHANGED <<mainPc, running, listenerFd, clientFd, cfd, lfd, pipeline, fds, queue,
                 listenerShut, streamShut, history>>

Teardown ==
  /\ WorkerGoes("teardown", "closeClient")
  /\ pipeline' = FALSE
  /\ UNCHANGED <<mainPc, running, listenerFd, clientFd, cfd, lfd, fds, sockets, history>>

WorkerCloseClient ==
  /\ WorkerGoes("closeClient", "forgetClient")
  /\ Close(cfd)
  /\ UNCHANGED <<mainPc, running, listenerFd, clientFd, cfd, lfd, pipeline>>

(* The worker's "clientFd = -1". *)
ClientForgotten_Kept == UNCHANGED clientFd
ClientForgotten_Zero == clientFd' = 0
ClientForgotten == clientFd' = NoFd

WorkerForgetClient ==
  /\ WorkerGoes("forgetClient", "loadListener")
  /\ ClientForgotten
  /\ UNCHANGED <<mainPc, running, listenerFd, cfd, lfd, pipeline, fds, sockets, history>>

WorkerLoadListener ==
  /\ WorkerGoes("loadListener", IF listenerFd = NoFd THEN "clearRunning" ELSE "closeListener")
  /\ lfd' = listenerFd
  /\ UNCHANGED <<mainPc, running, listenerFd, clientFd, cfd, pipeline, fds, sockets, history>>

WorkerCloseListener ==
  /\ WorkerGoes("closeListener", "forgetListener")
  /\ Close(lfd)
  /\ UNCHANGED <<mainPc, running, listenerFd, clientFd, cfd, lfd, pipeline>>

WorkerForgetListener ==
  /\ WorkerGoes("forgetListener", "clearRunning")
  /\ listenerFd' = NoFd
  /\ UNCHANGED <<mainPc, running, clientFd, cfd, lfd, pipeline, fds, sockets, history>>

(* The worker's last act, whichever way it leaves. *)
ClearRunning_Forgotten ==
  /\ WorkerGoes("clearRunning", "done")
  /\ UNCHANGED <<mainPc, running, listenerFd, clientFd, cfd, lfd, pipeline, fds, sockets,
                 history>>
ClearRunning ==
  /\ WorkerGoes("clearRunning", "done")
  /\ running' = FALSE
  /\ UNCHANGED <<mainPc, listenerFd, clientFd, cfd, lfd, pipeline, fds, sockets, history>>

WorkerStep ==
  \/ PollReturns \/ Accept \/ SetClient \/ CallHandshake \/ HandshakeReturns \/ BuildPipeline
  \/ FailClose \/ FailForget \/ FrameLoop \/ ReadReturns \/ Teardown \/ WorkerCloseClient
  \/ WorkerForgetClient \/ WorkerLoadListener \/ WorkerCloseListener \/ WorkerForgetListener
  \/ ClearRunning

Next ==
  StartMirror \/ StopMirror \/ MainStep \/ WorkerStep \/ PhoneConnects \/ PhoneActs
  \/ OtherThreads

Spec == Init /\ [][Next]_vars

(* Both threads are scheduled.  Nothing makes a phone speak or leave: that *)
(* is an assumption, made by the runs that set PhonesAreFair.              *)
FairSpec ==
  /\ Spec /\ WF_vars(MainStep) /\ WF_vars(WorkerStep)
  /\ PhonesAreFair => WF_vars(PhoneActs)

-----------------------------------------------------------------------------
(* Properties. *)

(* While m_running is set there is a worker that will clear it; otherwise   *)
(* START_MIRROR would report MIRROR_READY for ever and nobody would accept. *)
RunningHasWorker == running => ~WorkerEnded

(* start() never assigns to a thread that is joinable (std::terminate), and *)
(* no worker of an earlier session is left to disturb the new one.          *)
OneWorker == mainPc \in {"closeStale", "bind", "cleanup", "ok"} => workerPc = "none"

(* When stop() has returned nothing of the session is left, whichever of    *)
(* the two threads closed what, in which order: no thread, no pipeline, no  *)
(* socket, and no stale number that a later call would close.               *)
StopReleasesAll ==
  mainPc = "ok" =>
    /\ ~running /\ ~pipeline
    /\ listenerFd = NoFd /\ clientFd = NoFd
    /\ ~IsOpen("listener") /\ ~IsOpen("stream")

(* The process never holds two listeners or two streams: a session that    *)
(* ended without closing its own cannot pile them up.                       *)
NoSocketLeaks ==
  \A object \in {"listener", "stream"} :
    Cardinality({fd \in Fds : fds[fd] = object}) <= 1

(* A number that was closed is never closed again, when another thread may  *)
(* own it, as long as no stop() overlaps a worker: not when a stream ends   *)
(* by itself, nor when a later start() or stop() cleans up after it.        *)
ForeignSafeWithoutOverlap == foreignClosed => overlap

(* stop() returns, so that the thread that serves every client goes on.     *)
StopReturns == mainPc = "stopListener" ~> mainPc = "idle"
=============================================================================
