------------------------ MODULE MirrorReceiverProofs ------------------------
(***************************************************************************)
(* Proofs about MirrorReceiver: what holds of its two threads whatever the *)
(* number of descriptors and whatever the other threads do with them.      *)
(***************************************************************************)
EXTENDS MirrorReceiver, FiniteSetTheorems, TLAPS

-----------------------------------------------------------------------------
(* Types. *)

LEMMA CloseKeepsTypes ==
  ASSUME TypeOK, NEW fd, Close(fd)
  PROVE  /\ fds' \in [Fds -> {"free", "listener", "stream", "foreign"}]
         /\ queue' \in BOOLEAN /\ listenerShut' \in BOOLEAN /\ streamShut' \in BOOLEAN
         /\ peer' \in {"none", "silent", "talking", "gone"}
         /\ overlap' \in BOOLEAN /\ foreignClosed' \in BOOLEAN
<1>1. /\ fds' \in [Fds -> {"free", "listener", "stream", "foreign"}]
      /\ peer' \in {"none", "silent", "talking", "gone"}
  BY DEF Close, TypeOK
<1>2. queue' \in BOOLEAN /\ foreignClosed' \in BOOLEAN
  BY Zenon DEF Close, TypeOK, Names
<1>3. UNCHANGED <<listenerShut, streamShut, overlap>>
  BY DEF Close
<1> QED BY <1>1, <1>2, <1>3 DEF TypeOK

(* The kernel gives out a number.                                           *)
LEMMA TakesKeepsTypes ==
  ASSUME TypeOK, NEW fd \in Fds, NEW object \in {"free", "listener", "stream", "foreign"},
         Takes(fd, object)
  PROVE  fds' \in [Fds -> {"free", "listener", "stream", "foreign"}]
  BY DEF Takes, TypeOK

LEMMA MainKeepsTypes ==
  ASSUME TypeOK, StartMirror \/ StopMirror \/ MainStep
  PROVE  TypeOK'
<1>1. CASE StartMirror
  BY <1>1 DEF StartMirror, MainGoes, workerVars, sockets, history, TypeOK, MainStops
<1>2. CASE StopMirror
  BY <1>2 DEF StopMirror, MainGoes, workerVars, sockets, TypeOK, MainStops, WorkerEnded
<1>3. CASE JoinOld
  BY <1>3 DEF JoinOld, MainGoes, sockets, history, TypeOK, MainStops, WorkerStops
<1>4. CASE CloseStale
  <2>1. /\ fds' \in [Fds -> {"free", "listener", "stream", "foreign"}]
        /\ queue' \in BOOLEAN /\ listenerShut' \in BOOLEAN /\ streamShut' \in BOOLEAN
        /\ peer' \in {"none", "silent", "talking", "gone"}
        /\ overlap' \in BOOLEAN /\ foreignClosed' \in BOOLEAN
    <3>1. CASE listenerFd # NoFd
      BY <1>4, <3>1, CloseKeepsTypes DEF CloseStale
    <3>2. CASE listenerFd = NoFd
      BY <1>4, <3>2 DEF CloseStale, sockets, history, TypeOK
    <3> QED BY <3>1, <3>2
  <2> QED BY <1>4, <2>1 DEF CloseStale, MainGoes, workerVars, TypeOK, MainStops
<1>5. CASE BindAndSpawn
  <2>1. CASE mainPc' = "error"
    BY <1>5, <2>1 DEF BindAndSpawn, history, TypeOK, MainStops
  <2>2. CASE mainPc' # "error"
    <3>1. PICK fd \in Fds : Takes(fd, "listener") /\ listenerFd' = fd
      BY <1>5, <2>2 DEF BindAndSpawn
    <3>2. fds' \in [Fds -> {"free", "listener", "stream", "foreign"}]
      BY <3>1, TakesKeepsTypes
    <3> QED BY <1>5, <2>2, <3>1, <3>2 DEF BindAndSpawn, history, TypeOK, MainStops,
                                          WorkerStops
  <2> QED BY <2>1, <2>2
<1>6. CASE StopListener \/ StopClient
  <2>1. /\ mainPc' \in MainStops
        /\ UNCHANGED <<workerVars, running, listenerFd, clientFd, pipeline, fds, queue, peer,
                       history>>
    BY <1>6 DEF StopListener, StopClient, MainGoes, MainStops
  <2>2. listenerShut' \in BOOLEAN /\ streamShut' \in BOOLEAN
    BY <1>6, Zenon DEF StopListener, StopClient, TypeOK, Names
  <2> QED BY <2>1, <2>2 DEF workerVars, history, TypeOK
<1>7. CASE CloseListener \/ CloseClient
  BY <1>7, CloseKeepsTypes DEF CloseListener, CloseClient, MainGoes, workerVars, TypeOK,
                               MainStops
<1>8. CASE ForgetListener
  BY <1>8 DEF ForgetListener, MainGoes, workerVars, sockets, history, TypeOK, MainStops
<1>9. CASE ForgetClient
  BY <1>9 DEF ForgetClient, MainGoes, workerVars, sockets, history, TypeOK, MainStops
<1>10. CASE Join
  BY <1>10 DEF Join, MainGoes, sockets, history, TypeOK, MainStops, WorkerStops
<1>11. CASE Cleanup \/ Reply
  BY <1>11, ZenonT(60) DEF Cleanup, Reply, MainGoes, workerVars, sockets, history, TypeOK, MainStops
<1> QED BY <1>1, <1>2, <1>3, <1>4, <1>5, <1>6, <1>7, <1>8, <1>9, <1>10, <1>11
        DEF MainStep

LEMMA WorkerKeepsTypes ==
  ASSUME TypeOK, WorkerStep
  PROVE  TypeOK'
<1>1. CASE PollReturns \/ SetClient \/ CallHandshake
  BY <1>1 DEF PollReturns, SetClient, CallHandshake, WorkerGoes, sockets, history, TypeOK,
              WorkerStops
<1>2. CASE Accept
  <2>1. CASE workerPc' = "clearRunning"
    BY <1>2, <2>1 DEF Accept, WorkerGoes, history, TypeOK, WorkerStops
  <2>2. CASE workerPc' # "clearRunning"
    <3>1. PICK fd \in Fds : Takes(fd, "stream") /\ cfd' = fd
      BY <1>2, <2>2 DEF Accept, WorkerGoes
    <3>2. fds' \in [Fds -> {"free", "listener", "stream", "foreign"}]
      BY <3>1, TakesKeepsTypes
    <3> QED BY <1>2, <2>2, <3>1, <3>2 DEF Accept, WorkerGoes, history, TypeOK, WorkerStops
  <2> QED BY <2>1, <2>2
<1>3. CASE HandshakeReturns \/ ReadReturns
  BY <1>3 DEF HandshakeReturns, ReadReturns, Listens, WorkerGoes, history, TypeOK, WorkerStops
<1>4. CASE BuildPipeline \/ FrameLoop \/ Teardown
  <2>1. /\ workerPc' \in WorkerStops /\ pipeline' \in {TRUE, FALSE, pipeline}
        /\ UNCHANGED <<mainPc, running, listenerFd, clientFd, cfd, lfd, fds, sockets, history>>
    BY <1>4 DEF BuildPipeline, FrameLoop, Teardown, WorkerGoes, WorkerStops
  <2> QED BY <2>1 DEF sockets, history, TypeOK
<1>5. CASE FailClose \/ WorkerCloseClient \/ WorkerCloseListener
  BY <1>5, CloseKeepsTypes DEF FailClose, WorkerCloseClient, WorkerCloseListener, WorkerGoes,
                               TypeOK, WorkerStops
<1>6. CASE FailForget \/ WorkerForgetClient
  <2>1. /\ clientFd' = NoFd /\ workerPc' \in WorkerStops
        /\ UNCHANGED <<mainPc, running, listenerFd, cfd, lfd, pipeline, fds, sockets, history>>
    BY <1>6 DEF FailForget, WorkerForgetClient, ClientForgotten, WorkerGoes, WorkerStops
  <2> QED BY <2>1 DEF sockets, history, TypeOK
<1>7. CASE WorkerLoadListener \/ ClearRunning
  BY <1>7, ZenonT(60) DEF WorkerLoadListener, ClearRunning, WorkerGoes, sockets, history, TypeOK,
              WorkerStops
<1>8. CASE WorkerForgetListener
  BY <1>8 DEF WorkerForgetListener, WorkerGoes, sockets, history, TypeOK, WorkerStops
<1> QED BY <1>1, <1>2, <1>3, <1>4, <1>5, <1>6, <1>7, <1>8 DEF WorkerStep

LEMMA NextKeepsTypes == TypeOK /\ [Next]_vars => TypeOK'
<1> SUFFICES ASSUME TypeOK, [Next]_vars PROVE TypeOK'
  OBVIOUS
<1>1. CASE PhoneConnects \/ PhoneActs
  BY <1>1 DEF PhoneConnects, PhoneActs, history, TypeOK
<1>2. CASE OtherThreads
  BY <1>2 DEF OtherThreads, Takes, sockets, history, TypeOK
<1>3. CASE UNCHANGED vars
  BY <1>3 DEF vars, sockets, history, TypeOK
<1> QED BY <1>1, <1>2, <1>3, MainKeepsTypes, WorkerKeepsTypes DEF Next

(* Both threads stay at the stops of the code and every shared variable     *)
(* keeps its type.                                                          *)
THEOREM TypeCorrect == Spec => []TypeOK
<1>1. Init => TypeOK
  BY DEF Init, TypeOK, MainStops, WorkerStops, NoFd
<1> QED BY <1>1, NextKeepsTypes, PTL DEF Spec

-----------------------------------------------------------------------------
(* Threads. *)

ThreadInv == RunningHasWorker /\ OneWorker

LEMMA MainKeepsThreads ==
  ASSUME ThreadInv, StartMirror \/ StopMirror \/ MainStep
  PROVE  ThreadInv'
<1>1. CASE StartMirror
  BY <1>1 DEF StartMirror, MainGoes, workerVars, ThreadInv, RunningHasWorker, OneWorker,
              WorkerEnded
<1>2. CASE StopMirror
  BY <1>2 DEF StopMirror, MainGoes, workerVars, ThreadInv, RunningHasWorker, OneWorker,
              WorkerEnded
<1>3. CASE JoinOld \/ Join
  BY <1>3 DEF JoinOld, Join, MainGoes, ThreadInv, RunningHasWorker, OneWorker, WorkerEnded
<1>4. CASE CloseStale
  BY <1>4 DEF CloseStale, MainGoes, workerVars, ThreadInv, RunningHasWorker, OneWorker,
              WorkerEnded
<1>5. CASE BindAndSpawn
  BY <1>5 DEF BindAndSpawn, ThreadInv, RunningHasWorker, OneWorker, WorkerEnded
<1>6. CASE StopListener \/ CloseListener \/ ForgetListener \/ StopClient \/ CloseClient
           \/ ForgetClient \/ Cleanup \/ Reply
  BY <1>6 DEF StopListener, CloseListener, ForgetListener, StopClient, CloseClient,
              ForgetClient, Cleanup, Reply, MainGoes, workerVars, ThreadInv,
              RunningHasWorker, OneWorker, WorkerEnded
<1> QED BY <1>1, <1>2, <1>3, <1>4, <1>5, <1>6 DEF MainStep

(* A worker moves only while there is one, and clears m_running last.       *)
LEMMA WorkerKeepsThreads ==
  ASSUME ThreadInv, WorkerStep
  PROVE  ThreadInv'
<1>1. CASE ClearRunning
  BY <1>1 DEF ClearRunning, WorkerGoes, ThreadInv, RunningHasWorker, OneWorker, WorkerEnded
<1>2. CASE ~ClearRunning
  <2>1. /\ workerPc # "none" /\ workerPc' \notin {"none", "done"}
        /\ mainPc' = mainPc
    BY <1>2 DEF WorkerStep, PollReturns, Accept, SetClient, CallHandshake, HandshakeReturns,
                BuildPipeline, FailClose, FailForget, FrameLoop, ReadReturns, Teardown,
                WorkerCloseClient, WorkerForgetClient, WorkerLoadListener,
                WorkerCloseListener, WorkerForgetListener, WorkerGoes
  <2> QED BY <2>1 DEF ThreadInv, RunningHasWorker, OneWorker, WorkerEnded
<1> QED BY <1>1, <1>2

LEMMA NextKeepsThreads == ThreadInv /\ [Next]_vars => ThreadInv'
<1> SUFFICES ASSUME ThreadInv, [Next]_vars PROVE ThreadInv'
  OBVIOUS
<1>1. CASE PhoneConnects \/ PhoneActs \/ OtherThreads \/ UNCHANGED vars
  BY <1>1 DEF PhoneConnects, PhoneActs, OtherThreads, vars, ThreadInv, RunningHasWorker,
              OneWorker, WorkerEnded
<1> QED BY <1>1, MainKeepsThreads, WorkerKeepsThreads DEF Next

LEMMA ThreadInvariant == Spec => []ThreadInv
<1>1. Init => ThreadInv
  BY DEF Init, ThreadInv, RunningHasWorker, OneWorker
<1> QED BY <1>1, NextKeepsThreads, PTL DEF Spec

(* m_running is never left set by a worker that ended, whichever of its     *)
(* exits it took and whatever stop() did meanwhile: START_MIRROR can always *)
(* start a new one in the end.                                              *)
THEOREM RunningAlwaysHasWorker == Spec => []RunningHasWorker
<1>1. ThreadInv => RunningHasWorker
  BY DEF ThreadInv
<1> QED BY <1>1, ThreadInvariant, PTL

(* start() and stop() never go on with a worker that is still there: no     *)
(* assignment to a joinable std::thread, no cleanupPipeline under a frame   *)
(* loop.                                                                    *)
THEOREM WorkersNeverOverlap == Spec => []OneWorker
<1>1. ThreadInv => OneWorker
  BY DEF ThreadInv
<1> QED BY <1>1, ThreadInvariant, PTL

-----------------------------------------------------------------------------
(* Descriptors.  A socket that is open is where its variable says, unless  *)
(* it is on its way out, whichever of the two threads closes it.           *)

ListenerGoneStops ==
  {"forgetListener", "stopClient", "closeClient", "forgetClient", "join", "cleanup", "ok", "bind"}
StreamStops ==
  {"setClient", "handshake", "handshaking", "build", "failClose", "loop", "reading",
   "teardown", "closeClient"}
ClientStops == (StreamStops \ {"setClient"}) \union {"failForget", "forgetClient"}

ListenerKnown ==
  /\ \A fd \in Fds : fds[fd] = "listener" =>
       /\ listenerFd = fd
       /\ mainPc \notin ListenerGoneStops /\ workerPc # "forgetListener"
       /\ workerPc = "closeListener" => lfd = fd
  /\ mainPc \in ListenerGoneStops \ {"forgetListener"} => listenerFd = NoFd

StreamKnown ==
  \A fd \in Fds : fds[fd] = "stream" => cfd = fd /\ workerPc \in StreamStops

ClientKnown == clientFd # NoFd => workerPc \in ClientStops

PipelineGone == mainPc = "ok" => ~pipeline

LEMMA CloseFrees ==
  ASSUME NEW fd, Close(fd), TypeOK
  PROVE  /\ fds' = [n \in Fds |-> IF n = fd THEN "free" ELSE fds[n]]
         /\ \A n \in Fds : fds'[n] \in {"listener", "stream"} => n # fd /\ fds'[n] = fds[n]
BY DEF Close

LEMMA MainKeepsListener ==
  ASSUME TypeOK, OneWorker, ListenerKnown, StartMirror \/ StopMirror \/ MainStep
  PROVE  ListenerKnown'
<1> USE DEF ListenerKnown
<1>1. CASE StartMirror \/ StopMirror \/ Reply
  BY <1>1 DEF StartMirror, StopMirror, Reply, MainGoes, workerVars, ListenerGoneStops
<1>2. CASE JoinOld \/ Join
  BY <1>2 DEF JoinOld, Join, MainGoes, ListenerGoneStops
<1>3. CASE CloseStale
  <2>1. CASE listenerFd # NoFd
    BY <1>3, <2>1, CloseFrees DEF CloseStale, MainGoes, workerVars
  <2>2. CASE listenerFd = NoFd
    <3>1. \A fd \in Fds : fds'[fd] # "listener"
      BY <1>3, <2>2, FdAssumption DEF CloseStale, NoFd
    <3> QED BY <1>3, <3>1 DEF CloseStale
  <2> QED BY <2>1, <2>2
<1>4. CASE BindAndSpawn
  <2>1. CASE mainPc' = "error"
    BY <1>4, <2>1 DEF BindAndSpawn, ListenerGoneStops
  <2>2. CASE mainPc' # "error"
    <3>1. PICK fd \in Fds : Takes(fd, "listener") /\ listenerFd' = fd
      BY <1>4, <2>2 DEF BindAndSpawn
    <3>2. mainPc = "bind" /\ mainPc' = "ready" /\ workerPc' = "poll"
      BY <1>4, <2>2 DEF BindAndSpawn
    <3>3. \A n \in Fds : fds'[n] = "listener" => n = fd
      BY <3>1, <3>2 DEF Takes, TypeOK, ListenerGoneStops
    <3> QED BY <3>1, <3>2, <3>3 DEF ListenerGoneStops
  <2> QED BY <2>1, <2>2
<1>5. CASE StopListener
  <2>1. UNCHANGED <<fds, listenerFd, lfd, workerPc>> /\ mainPc = "stopListener"
    BY <1>5 DEF StopListener, MainGoes, workerVars
  <2>2. IF listenerFd = NoFd THEN mainPc' = "stopClient" ELSE mainPc' = "closeListener"
    BY <1>5 DEF StopListener, MainGoes
  <2>3. NoFd \notin Fds
    BY FdAssumption DEF NoFd
  <2> QED BY <2>1, <2>2, <2>3 DEF ListenerGoneStops
<1>6. CASE CloseListener
  <2>1. \A n \in Fds : fds'[n] # "listener"
    BY <1>6, CloseFrees DEF CloseListener
  <2> QED BY <1>6, <2>1 DEF CloseListener, MainGoes
<1>7. CASE ForgetListener
  BY <1>7 DEF ForgetListener, MainGoes, workerVars, ListenerGoneStops
<1>8. CASE StopClient \/ ForgetClient \/ Cleanup
  <2>1. /\ UNCHANGED <<fds, listenerFd, lfd, workerPc>>
        /\ mainPc \in ListenerGoneStops \ {"forgetListener"}
        /\ mainPc' \in ListenerGoneStops \ {"forgetListener"}
    BY <1>8 DEF StopClient, ForgetClient, Cleanup, MainGoes, workerVars, ListenerGoneStops
  <2> QED BY <2>1
<1>9. CASE CloseClient
  <2>1. /\ UNCHANGED <<listenerFd, lfd, workerPc>>
        /\ mainPc = "closeClient" /\ mainPc' = "forgetClient"
    BY <1>9 DEF CloseClient, MainGoes, workerVars
  <2> QED BY <1>9, <2>1, CloseFrees DEF CloseClient, ListenerGoneStops
<1> QED BY <1>1, <1>2, <1>3, <1>4, <1>5, <1>6, <1>7, <1>8, <1>9 DEF MainStep

LEMMA WorkerKeepsListener ==
  ASSUME TypeOK, ListenerKnown, WorkerStep
  PROVE  ListenerKnown'
<1> USE DEF ListenerKnown
<1>1. CASE PollReturns \/ SetClient \/ CallHandshake \/ HandshakeReturns \/ BuildPipeline
           \/ FailForget \/ FrameLoop \/ ReadReturns \/ Teardown \/ WorkerForgetClient
           \/ ClearRunning
  <2>1. /\ UNCHANGED <<fds, listenerFd, lfd, mainPc>>
        /\ workerPc' \notin {"forgetListener", "closeListener"}
    BY <1>1 DEF PollReturns, SetClient, CallHandshake, HandshakeReturns, BuildPipeline,
                FailForget, FrameLoop, ReadReturns, Teardown, WorkerForgetClient,
                ClearRunning, WorkerGoes
  <2> QED BY <2>1
<1>2. CASE Accept
  <2>1. /\ UNCHANGED <<listenerFd, lfd, mainPc>>
        /\ workerPc' \in {"setClient", "clearRunning"}
    BY <1>2 DEF Accept, WorkerGoes
  <2>2. \A n \in Fds : fds'[n] = "listener" => fds[n] = "listener"
    BY <1>2 DEF Accept, Takes, TypeOK
  <2> QED BY <2>1, <2>2
<1>3. CASE FailClose \/ WorkerCloseClient
  <2>1. UNCHANGED <<listenerFd, lfd, mainPc>> /\ workerPc' \in {"failForget", "forgetClient"}
    BY <1>3 DEF FailClose, WorkerCloseClient, WorkerGoes
  <2>2. \A n \in Fds : fds'[n] = "listener" => fds[n] = "listener"
    BY <1>3, CloseFrees DEF FailClose, WorkerCloseClient
  <2> QED BY <2>1, <2>2
<1>4. CASE WorkerLoadListener
  BY <1>4 DEF WorkerLoadListener, WorkerGoes
<1>5. CASE WorkerCloseListener
  <2>1. \A n \in Fds : fds'[n] # "listener"
    BY <1>5, CloseFrees DEF WorkerCloseListener, WorkerGoes
  <2> QED BY <1>5, <2>1 DEF WorkerCloseListener
<1>6. CASE WorkerForgetListener
  <2>1. \A n \in Fds : fds[n] # "listener"
    BY <1>6 DEF WorkerForgetListener, WorkerGoes
  <2> QED BY <1>6, <2>1 DEF WorkerForgetListener
<1> QED BY <1>1, <1>2, <1>3, <1>4, <1>5, <1>6 DEF WorkerStep

LEMMA MainKeepsStream ==
  ASSUME TypeOK, OneWorker, StreamKnown, ClientKnown, PipelineGone,
         StartMirror \/ StopMirror \/ MainStep
  PROVE  StreamKnown' /\ ClientKnown' /\ PipelineGone'
<1> USE DEF StreamKnown, ClientKnown, PipelineGone
<1>1. CASE StartMirror \/ StopMirror \/ StopListener \/ ForgetListener \/ StopClient \/ Reply
  <2>1. UNCHANGED <<fds, cfd, workerPc, clientFd>> /\ mainPc' # "ok"
    BY <1>1 DEF StartMirror, StopMirror, StopListener, ForgetListener, StopClient, Reply,
                MainGoes, workerVars
  <2> QED BY <2>1
<1>2. CASE JoinOld \/ Join
  <2>1. /\ UNCHANGED <<fds, cfd, clientFd>> /\ mainPc' # "ok"
        /\ workerPc \notin StreamStops \union ClientStops
    BY <1>2 DEF JoinOld, Join, MainGoes, WorkerEnded, StreamStops, ClientStops
  <2> QED BY <2>1
<1>3. CASE CloseStale \/ CloseListener \/ CloseClient
  <2>1. UNCHANGED <<cfd, workerPc, clientFd>> /\ mainPc' # "ok"
    BY <1>3 DEF CloseStale, CloseListener, CloseClient, MainGoes, workerVars
  <2>2. \A n \in Fds : fds'[n] = "stream" => fds[n] = "stream"
    BY <1>3, CloseFrees DEF CloseStale, CloseListener, CloseClient
  <2> QED BY <2>1, <2>2
<1>4. CASE BindAndSpawn
  <2>1. workerPc = "none"
    BY <1>4 DEF BindAndSpawn, OneWorker
  <2>2. (\A n \in Fds : fds[n] # "stream") /\ clientFd = NoFd
    BY <2>1 DEF StreamStops, ClientStops
  <2>3. \A n \in Fds : fds'[n] # "stream"
    BY <1>4, <2>2 DEF BindAndSpawn, Takes, TypeOK
  <2> QED BY <1>4, <2>2, <2>3 DEF BindAndSpawn
<1>5. CASE ForgetClient \/ Cleanup
  <2>1. UNCHANGED <<fds, cfd, workerPc>> /\ clientFd' \in {NoFd, clientFd}
    BY <1>5 DEF ForgetClient, Cleanup, workerVars
  <2>2. mainPc' = "ok" => ~pipeline'
    BY <1>5 DEF ForgetClient, Cleanup, MainGoes
  <2> QED BY <2>1, <2>2
<1> QED BY <1>1, <1>2, <1>3, <1>4, <1>5 DEF MainStep

LEMMA WorkerKeepsStream ==
  ASSUME TypeOK, OneWorker, StreamKnown, ClientKnown, PipelineGone, WorkerStep
  PROVE  StreamKnown' /\ ClientKnown' /\ PipelineGone'
<1> USE DEF StreamKnown, ClientKnown
<1>1. PipelineGone'
  <2>1. workerPc # "none" /\ mainPc' = mainPc
    BY DEF WorkerStep, PollReturns, Accept, SetClient, CallHandshake, HandshakeReturns,
           BuildPipeline, FailClose, FailForget, FrameLoop, ReadReturns, Teardown,
           WorkerCloseClient, WorkerForgetClient, WorkerLoadListener, WorkerCloseListener,
           WorkerForgetListener, ClearRunning, WorkerGoes
  <2> QED BY <2>1 DEF PipelineGone, OneWorker
<1>2. CASE PollReturns \/ WorkerLoadListener \/ WorkerForgetListener \/ ClearRunning
  <2>1. UNCHANGED <<fds, cfd, clientFd>> /\ workerPc \notin StreamStops \union ClientStops
    BY <1>2 DEF PollReturns, WorkerLoadListener, WorkerForgetListener, ClearRunning,
                WorkerGoes, StreamStops, ClientStops
  <2> QED BY <1>1, <2>1
<1>3. CASE Accept
  <2>1. workerPc = "accept"
    BY <1>3 DEF Accept, WorkerGoes
  <2>2. (\A n \in Fds : fds[n] # "stream") /\ clientFd' = NoFd
    BY <1>3, <2>1 DEF Accept, StreamStops, ClientStops
  <2>3. CASE workerPc' = "setClient" /\ \E fd \in Fds : Takes(fd, "stream") /\ cfd' = fd
    <3>1. PICK fd \in Fds : Takes(fd, "stream") /\ cfd' = fd
      BY <2>3
    <3>2. \A n \in Fds : fds'[n] = "stream" => n = fd
      BY <2>2, <3>1 DEF Takes, TypeOK
    <3> QED BY <1>1, <2>2, <2>3, <3>1, <3>2 DEF StreamStops
  <2>4. CASE UNCHANGED fds
    BY <1>1, <2>2, <2>4
  <2> QED BY <1>3, <2>3, <2>4 DEF Accept, WorkerGoes
<1>4. CASE SetClient \/ CallHandshake \/ HandshakeReturns \/ BuildPipeline \/ FrameLoop
           \/ ReadReturns \/ Teardown
  <2>1. UNCHANGED <<fds, cfd>> /\ workerPc' \in StreamStops /\ workerPc' \in ClientStops
    BY <1>4 DEF SetClient, CallHandshake, HandshakeReturns, BuildPipeline, FrameLoop,
                ReadReturns, Teardown, WorkerGoes, StreamStops, ClientStops
  <2> QED BY <1>1, <2>1
<1>5. CASE FailClose \/ WorkerCloseClient
  <2>1. workerPc' \in ClientStops
    BY <1>5 DEF FailClose, WorkerCloseClient, WorkerGoes, ClientStops, StreamStops
  <2>2. \A n \in Fds : fds'[n] # "stream"
    BY <1>5, CloseFrees DEF FailClose, WorkerCloseClient
  <2> QED BY <1>1, <2>1, <2>2
<1>6. CASE FailForget \/ WorkerForgetClient
  <2>1. UNCHANGED fds /\ clientFd' = NoFd /\ workerPc \notin StreamStops
    BY <1>6 DEF FailForget, WorkerForgetClient, ClientForgotten, WorkerGoes, StreamStops
  <2> QED BY <1>1, <2>1
<1>7. CASE WorkerCloseListener
  <2>1. UNCHANGED <<cfd, clientFd>> /\ workerPc = "closeListener"
    BY <1>7 DEF WorkerCloseListener, WorkerGoes
  <2>2. (\A n \in Fds : fds[n] # "stream") /\ clientFd = NoFd
    BY <2>1 DEF StreamStops, ClientStops
  <2>3. \A n \in Fds : fds'[n] # "stream"
    BY <1>7, <2>2, CloseFrees DEF WorkerCloseListener
  <2> QED BY <1>1, <2>1, <2>2, <2>3
<1> QED BY <1>2, <1>3, <1>4, <1>5, <1>6, <1>7 DEF WorkerStep

SocketInv == TypeOK /\ ThreadInv /\ ListenerKnown /\ StreamKnown /\ ClientKnown /\ PipelineGone

LEMMA SocketInvariant == Spec => []SocketInv
<1>1. Init => ListenerKnown /\ StreamKnown /\ ClientKnown /\ PipelineGone
  BY DEF Init, ListenerKnown, StreamKnown, ClientKnown, PipelineGone, ListenerGoneStops
<1>2. SocketInv /\ [Next]_vars => (ListenerKnown /\ StreamKnown /\ ClientKnown /\ PipelineGone)'
  <2> SUFFICES ASSUME SocketInv, [Next]_vars
               PROVE  (ListenerKnown /\ StreamKnown /\ ClientKnown /\ PipelineGone)'
    OBVIOUS
  <2> USE DEF SocketInv, ThreadInv
  <2>1. CASE StartMirror \/ StopMirror \/ MainStep
    BY <2>1, MainKeepsListener, MainKeepsStream
  <2>2. CASE WorkerStep
    BY <2>2, WorkerKeepsListener, WorkerKeepsStream
  <2>3. CASE OtherThreads
    <3>1. UNCHANGED <<mainPc, workerPc, listenerFd, clientFd, cfd, lfd, pipeline>>
      BY <2>3 DEF OtherThreads
    <3>2. \A n \in Fds : fds'[n] \in {"listener", "stream"} => fds'[n] = fds[n]
      BY <2>3 DEF OtherThreads, Takes, TypeOK
    <3> QED BY <3>1, <3>2 DEF ListenerKnown, StreamKnown, ClientKnown, PipelineGone
  <2>4. CASE PhoneConnects \/ PhoneActs \/ UNCHANGED vars
    BY <2>4 DEF PhoneConnects, PhoneActs, vars, ListenerKnown, StreamKnown, ClientKnown,
                PipelineGone
  <2> QED BY <2>1, <2>2, <2>3, <2>4 DEF Next
<1>3. TypeOK /\ ThreadInv /\ ListenerKnown /\ StreamKnown /\ ClientKnown /\ PipelineGone
      <=> SocketInv
  BY DEF SocketInv
<1> QED BY <1>1, <1>2, <1>3, TypeCorrect, ThreadInvariant, PTL DEF Spec

(* When stop() has returned, whatever the worker was doing and whichever   *)
(* thread closed what, nothing of the session is left, for any descriptors *)
(* and any behaviour of phones and other threads.                          *)
THEOREM StopLeavesNothing == Spec => []StopReleasesAll
<1>1. SocketInv => StopReleasesAll
  <2> SUFFICES ASSUME SocketInv, mainPc = "ok"
               PROVE  /\ ~running /\ ~pipeline
                      /\ listenerFd = NoFd /\ clientFd = NoFd
                      /\ ~IsOpen("listener") /\ ~IsOpen("stream")
    BY DEF StopReleasesAll
  <2>1. workerPc = "none" /\ ~running
    BY DEF SocketInv, ThreadInv, OneWorker, RunningHasWorker, WorkerEnded
  <2>2. ~pipeline /\ listenerFd = NoFd /\ ~IsOpen("listener")
    BY DEF SocketInv, PipelineGone, ListenerKnown, ListenerGoneStops, IsOpen
  <2>3. clientFd = NoFd /\ ~IsOpen("stream")
    BY <2>1 DEF SocketInv, StreamKnown, ClientKnown, StreamStops, ClientStops, IsOpen
  <2> QED BY <2>1, <2>2, <2>3
<1> QED BY <1>1, SocketInvariant, PTL

(* The mirror receiver never holds a second listener or stream, however    *)
(* its sessions end and begin.                                             *)
THEOREM SocketsDoNotPileUp == Spec => []NoSocketLeaks
<1>1. ASSUME NEW n, NEW S, S \subseteq {n} PROVE Cardinality(S) <= 1
  <2>1. CASE S = {}
    <3>1. Cardinality({}) = 0
      BY FS_EmptySet, Zenon
    <3> QED BY <2>1, <3>1
  <2>2. CASE S # {}
    <3>1. S = {n}
      BY <1>1, <2>2
    <3>2. Cardinality({n}) = 1
      BY FS_Singleton, Zenon
    <3>3. Cardinality(S) = 1
      BY <3>1, <3>2
    <3> QED BY <3>3
  <2> QED BY <2>1, <2>2
<1>2. SocketInv => NoSocketLeaks
  <2> SUFFICES ASSUME SocketInv, NEW object \in {"listener", "stream"}
               PROVE  Cardinality({fd \in Fds : fds[fd] = object}) <= 1
    BY DEF NoSocketLeaks
  <2>1. CASE object = "listener"
    BY <1>1, <2>1 DEF SocketInv, ListenerKnown
  <2>2. CASE object = "stream"
    BY <1>1, <2>2 DEF SocketInv, StreamKnown
  <2> QED BY <2>1, <2>2
<1> QED BY <1>2, SocketInvariant, PTL

-----------------------------------------------------------------------------
(* Numbers of other threads.                                               *)

StopStops ==
  {"stopListener", "closeListener", "forgetListener", "stopClient", "closeClient",
   "forgetClient", "join"}

(* Until a stop() overlaps a worker, a number that will be closed names     *)
(* the object it was opened for.                                           *)
Owned ==
  /\ ~foreignClosed
  /\ mainPc \in StopStops => WorkerEnded
  /\ listenerFd # NoFd /\ mainPc # "forgetListener" /\ workerPc # "forgetListener" =>
       Names(listenerFd, "listener")
  /\ workerPc \in StreamStops => Names(cfd, "stream")
  /\ workerPc = "closeListener" => lfd = listenerFd /\ lfd # NoFd
  /\ mainPc = "closeListener" => listenerFd # NoFd
  /\ mainPc \notin {"closeClient", "forgetClient"}

OwnedAlone == ~overlap => Owned

LEMMA CloseOwn ==
  ASSUME TypeOK, NEW fd, NEW object \in {"listener", "stream"}, Names(fd, object), ~foreignClosed,
         Close(fd)
  PROVE  /\ ~foreignClosed'
         /\ \A n \in Fds \union {NoFd}, other \in {"listener", "stream"} :
              other # object /\ Names(n, other) => Names(n, other)'
  BY DEF Close, Names, TypeOK

LEMMA TakesOther ==
  ASSUME TypeOK, NEW fd \in Fds, NEW object \in {"listener", "stream", "foreign"}, Takes(fd, object)
  PROVE  /\ Names(fd, object)'
         /\ \A n \in Fds \union {NoFd}, other \in {"listener", "stream"} :
              Names(n, other) => Names(n, other)'
  BY DEF Takes, Names, TypeOK

LEMMA MainKeepsOwned ==
  ASSUME SocketInv, OwnedAlone, StartMirror \/ StopMirror \/ MainStep
  PROVE  OwnedAlone'
<1> USE DEF OwnedAlone
<1> SUFFICES ASSUME ~overlap' PROVE Owned'
  OBVIOUS
<1>1. TypeOK /\ OneWorker /\ ClientKnown
  BY DEF SocketInv, ThreadInv
<1>2. ~overlap /\ Owned
  <2>1. overlap => overlap'
    BY <1>1 DEF TypeOK, StartMirror, StopMirror, MainStep, JoinOld, CloseStale, BindAndSpawn, StopListener,
           CloseListener, ForgetListener, StopClient, CloseClient, ForgetClient, Join, Cleanup,
           Reply, Close, history
  <2> QED BY <2>1
<1> USE DEF Owned
<1>3. CASE StartMirror \/ Reply \/ Cleanup
  <2>1. /\ UNCHANGED <<workerPc, cfd, lfd, listenerFd, fds, foreignClosed>>
        /\ mainPc # "forgetListener"
        /\ mainPc' \in {"ready", "joinOld", "ok", "idle"}
    BY <1>3 DEF StartMirror, Reply, Cleanup, MainGoes, workerVars, history
  <2> QED BY <1>2, <2>1 DEF Names, StopStops
<1>4. CASE StopMirror
  <2>1. /\ UNCHANGED <<workerPc, cfd, lfd, listenerFd, fds, foreignClosed>>
        /\ mainPc = "idle" /\ mainPc' = "stopListener" /\ WorkerEnded
    BY <1>4 DEF StopMirror, MainGoes, workerVars
  <2> QED BY <1>2, <2>1 DEF Names, StopStops, WorkerEnded
<1>5. CASE JoinOld \/ Join
  <2>1. /\ UNCHANGED <<cfd, lfd, listenerFd, fds, foreignClosed>> /\ workerPc' = "none" /\ WorkerEnded
        /\ mainPc # "forgetListener" /\ mainPc' \in {"closeStale", "cleanup"}
    BY <1>5 DEF JoinOld, Join, MainGoes, history
  <2> QED BY <1>2, <2>1 DEF Names, StopStops, WorkerEnded, StreamStops
<1>6. CASE CloseStale
  <2>1. /\ UNCHANGED <<workerPc, cfd, lfd>> /\ workerPc = "none" /\ listenerFd' = NoFd
        /\ mainPc = "closeStale" /\ mainPc' = "bind"
    BY <1>1, <1>6 DEF CloseStale, MainGoes, workerVars, OneWorker
  <2>2. ~foreignClosed'
    <3>1. CASE listenerFd = NoFd
      BY <1>2, <1>6, <3>1 DEF CloseStale, history
    <3>2. CASE listenerFd # NoFd
      BY <1>1, <1>2, <1>6, <2>1, <3>2, CloseOwn DEF CloseStale
    <3> QED BY <3>1, <3>2
  <2> QED BY <2>1, <2>2 DEF StopStops, StreamStops
<1>7. CASE BindAndSpawn
  <2>1. UNCHANGED <<cfd, lfd, foreignClosed>> /\ mainPc = "bind" /\ workerPc = "none"
    BY <1>1, <1>7 DEF BindAndSpawn, OneWorker, history
  <2>2. CASE mainPc' = "error"
    <3>1. UNCHANGED <<workerPc, listenerFd, fds>>
      BY <1>7, <2>2 DEF BindAndSpawn
    <3> QED BY <1>2, <2>1, <2>2, <3>1 DEF Names, StopStops, StreamStops
  <2>3. CASE mainPc' # "error"
    <3>1. /\ \E fd \in Fds : Takes(fd, "listener") /\ listenerFd' = fd
          /\ workerPc' = "poll" /\ mainPc' = "ready"
      BY <1>7, <2>3 DEF BindAndSpawn
    <3>2. Names(listenerFd, "listener")'
      BY <1>1, <3>1, TakesOther DEF Names
    <3> QED BY <1>2, <2>1, <3>1, <3>2 DEF StopStops, StreamStops
  <2> QED BY <2>2, <2>3
<1>8. CASE StopListener
  <2>1. /\ UNCHANGED <<workerPc, cfd, lfd, listenerFd, fds, foreignClosed>>
        /\ mainPc = "stopListener"
        /\ mainPc' = IF listenerFd = NoFd THEN "stopClient" ELSE "closeListener"
    BY <1>8 DEF StopListener, MainGoes, workerVars, history
  <2> QED BY <1>2, <2>1 DEF Names, StopStops, WorkerEnded
<1>9. CASE CloseListener
  <2>1. /\ UNCHANGED <<workerPc, cfd, lfd, listenerFd>>
        /\ mainPc = "closeListener" /\ mainPc' = "forgetListener" /\ WorkerEnded
        /\ Close(listenerFd)
    BY <1>2, <1>9 DEF CloseListener, MainGoes, workerVars, StopStops
  <2>2. Names(listenerFd, "listener")
    BY <1>2, <2>1 DEF WorkerEnded
  <2>3. ~foreignClosed'
    BY <1>1, <1>2, <2>1, <2>2, CloseOwn
  <2> QED BY <1>2, <2>1, <2>3 DEF StopStops, WorkerEnded, StreamStops
<1>10. CASE ForgetListener
  <2>1. /\ UNCHANGED <<workerPc, cfd, lfd, fds, foreignClosed>> /\ listenerFd' = NoFd
        /\ mainPc = "forgetListener" /\ mainPc' = "stopClient"
    BY <1>10 DEF ForgetListener, MainGoes, workerVars, history
  <2> QED BY <1>2, <2>1 DEF StopStops, WorkerEnded, StreamStops
<1>11. CASE StopClient
  <2>1. /\ UNCHANGED <<workerPc, cfd, lfd, listenerFd, fds, foreignClosed>>
        /\ mainPc = "stopClient" /\ mainPc' = IF clientFd = NoFd THEN "join" ELSE "closeClient"
    BY <1>11 DEF StopClient, MainGoes, workerVars, history
  <2>2. WorkerEnded /\ clientFd = NoFd
    BY <1>1, <1>2, <2>1 DEF StopStops, WorkerEnded, ClientKnown, ClientStops, StreamStops
  <2> QED BY <1>2, <2>1, <2>2 DEF Names, StopStops, WorkerEnded
<1>12. CASE CloseClient \/ ForgetClient
  BY <1>2, <1>12 DEF CloseClient, ForgetClient, MainGoes
<1> QED BY <1>3, <1>4, <1>5, <1>6, <1>7, <1>8, <1>9, <1>10, <1>11, <1>12 DEF MainStep

LEMMA WorkerKeepsOwned ==
  ASSUME SocketInv, OwnedAlone, WorkerStep
  PROVE  OwnedAlone'
<1> USE DEF OwnedAlone
<1> SUFFICES ASSUME ~overlap' PROVE Owned'
  OBVIOUS
<1>1. TypeOK /\ mainPc' = mainPc /\ UNCHANGED overlap /\ ~WorkerEnded
  BY DEF SocketInv, WorkerEnded, WorkerStep, PollReturns, Accept, SetClient, CallHandshake, HandshakeReturns,
         BuildPipeline, FailClose, FailForget, FrameLoop, ReadReturns, Teardown,
         WorkerCloseClient, WorkerForgetClient, WorkerLoadListener, WorkerCloseListener,
         WorkerForgetListener, ClearRunning, WorkerGoes, Close, history
<1>2. Owned /\ mainPc \notin StopStops
  BY <1>1 DEF Owned
<1> USE DEF Owned
<1>3. CASE PollReturns \/ ClearRunning \/ FailForget \/ WorkerForgetClient
  <2>1. /\ UNCHANGED <<cfd, lfd, listenerFd, fds, foreignClosed>>
        /\ workerPc # "forgetListener"
        /\ workerPc' \notin StreamStops \union {"forgetListener", "closeListener"}
    BY <1>3 DEF PollReturns, ClearRunning, FailForget, WorkerForgetClient, WorkerGoes, history, StreamStops
  <2> QED BY <1>1, <1>2, <2>1 DEF Names, StopStops
<1>4. CASE SetClient \/ CallHandshake \/ HandshakeReturns \/ BuildPipeline \/ FrameLoop
           \/ ReadReturns \/ Teardown
  <2>1. /\ UNCHANGED <<cfd, lfd, listenerFd, fds, foreignClosed>>
        /\ workerPc \in StreamStops /\ workerPc' \in StreamStops
    BY <1>4 DEF SetClient, CallHandshake, HandshakeReturns, BuildPipeline, FrameLoop, ReadReturns,
                Teardown, WorkerGoes, history, StreamStops
  <2> QED BY <1>1, <1>2, <2>1 DEF Names, StopStops, StreamStops
<1>5. CASE Accept
  <2>1. UNCHANGED <<lfd, listenerFd, foreignClosed>> /\ workerPc = "accept"
    BY <1>5 DEF Accept, WorkerGoes, history
  <2>2. CASE workerPc' = "setClient"
    <3>1. \E fd \in Fds : Takes(fd, "stream") /\ cfd' = fd
      BY <1>5, <2>2 DEF Accept, WorkerGoes
    <3>2. /\ Names(cfd, "stream")'
          /\ Names(listenerFd, "listener") => Names(listenerFd, "listener")'
      BY <1>1, <2>1, <3>1, TakesOther DEF Names, TypeOK
    <3> QED BY <1>1, <1>2, <2>1, <2>2, <3>2 DEF StopStops
  <2>3. CASE workerPc' # "setClient"
    <3>1. UNCHANGED fds /\ workerPc' = "clearRunning"
      BY <1>5, <2>3 DEF Accept, WorkerGoes
    <3> QED BY <1>1, <1>2, <2>1, <3>1 DEF Names, StopStops, StreamStops
  <2> QED BY <2>2, <2>3
<1>6. CASE FailClose \/ WorkerCloseClient
  <2>1. /\ UNCHANGED <<cfd, lfd, listenerFd>> /\ Close(cfd)
        /\ workerPc \in {"failClose", "closeClient"} /\ workerPc' \in {"failForget", "forgetClient"}
    BY <1>6 DEF FailClose, WorkerCloseClient, WorkerGoes
  <2>2. Names(cfd, "stream")
    BY <1>2, <2>1 DEF StreamStops
  <2>3. /\ ~foreignClosed'
        /\ Names(listenerFd, "listener") => Names(listenerFd, "listener")'
    <3>1. listenerFd \in Fds \union {NoFd} /\ UNCHANGED listenerFd
      BY <1>1, <2>1 DEF TypeOK
    <3> QED BY <1>1, <1>2, <2>1, <2>2, <3>1, CloseOwn DEF Names
  <2> QED BY <1>1, <1>2, <2>1, <2>3 DEF StopStops, StreamStops
<1>7. CASE WorkerLoadListener
  <2>1. /\ UNCHANGED <<cfd, listenerFd, fds, foreignClosed>> /\ lfd' = listenerFd
        /\ workerPc = "loadListener"
        /\ workerPc' = IF listenerFd = NoFd THEN "clearRunning" ELSE "closeListener"
    BY <1>7 DEF WorkerLoadListener, WorkerGoes, history
  <2> QED BY <1>1, <1>2, <2>1 DEF Names, StopStops, StreamStops
<1>8. CASE WorkerCloseListener
  <2>1. /\ UNCHANGED <<cfd, lfd, listenerFd>> /\ Close(lfd)
        /\ workerPc = "closeListener" /\ workerPc' = "forgetListener"
    BY <1>8 DEF WorkerCloseListener, WorkerGoes
  <2>2. Names(lfd, "listener")
    BY <1>2, <2>1 DEF StopStops
  <2>3. ~foreignClosed'
    BY <1>1, <1>2, <2>1, <2>2, CloseOwn
  <2> QED BY <1>1, <1>2, <2>1, <2>3 DEF StopStops, StreamStops
<1>9. CASE WorkerForgetListener
  <2>1. /\ UNCHANGED <<cfd, lfd, fds, foreignClosed>> /\ listenerFd' = NoFd
        /\ workerPc' = "clearRunning"
    BY <1>9 DEF WorkerForgetListener, WorkerGoes, history
  <2> QED BY <1>1, <1>2, <2>1 DEF StopStops, StreamStops
<1> QED BY <1>3, <1>4, <1>5, <1>6, <1>7, <1>8, <1>9 DEF WorkerStep

(* As long as no stop() overlaps a worker, neither thread closes a number   *)
(* that another thread of the daemon has got meanwhile.                    *)
THEOREM ForeignNumbersSafe == Spec => []ForeignSafeWithoutOverlap
<1>1. Init => OwnedAlone
  BY DEF Init, OwnedAlone, Owned, StopStops, StreamStops
<1>2. SocketInv /\ OwnedAlone /\ [Next]_vars => OwnedAlone'
  <2> SUFFICES ASSUME SocketInv, OwnedAlone, [Next]_vars PROVE OwnedAlone'
    OBVIOUS
  <2>1. CASE PhoneConnects \/ PhoneActs \/ UNCHANGED vars
    BY <2>1 DEF PhoneConnects, PhoneActs, vars, sockets, history, OwnedAlone, Owned, Names, WorkerEnded
  <2>2. CASE OtherThreads
    <3>1. UNCHANGED <<mainPc, workerPc, listenerFd, cfd, lfd, overlap, foreignClosed>>
      BY <2>2 DEF OtherThreads, history
    <3>2. ASSUME NEW n, NEW object \in {"listener", "stream"}, Names(n, object)
          PROVE  n \in Fds /\ fds'[n] = object
      BY <2>2, <3>2 DEF OtherThreads, Takes, Names, SocketInv, TypeOK
    <3> QED BY <3>1, <3>2 DEF OwnedAlone, Owned, Names, WorkerEnded
  <2> QED BY <2>1, <2>2, MainKeepsOwned, WorkerKeepsOwned DEF Next
<1>3. SocketInv /\ OwnedAlone => ForeignSafeWithoutOverlap
  BY DEF OwnedAlone, Owned, ForeignSafeWithoutOverlap
<1> QED BY <1>1, <1>2, <1>3, SocketInvariant, PTL DEF Spec
=============================================================================
