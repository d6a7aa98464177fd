--------------------------- MODULE ShutdownProofs ---------------------------
(***************************************************************************)
(* Proofs about Shutdown, for any number of signals and events.            *)
(***************************************************************************)
EXTENDS Shutdown, TLAPS

ThreadTypes ==
  /\ pc \in [Threads -> MainStops \union PinStops \union NotifStops \union MirrorStops]
  /\ pc["main"] \in MainStops /\ pc["pin"] \in PinStops /\ pc["notif"] \in NotifStops
  /\ pc["mirror"] \in MirrorStops

FlagTypes ==
  /\ running \in BOOLEAN /\ server \in BOOLEAN /\ serverRunning \in BOOLEAN
  /\ notifRunning \in BOOLEAN /\ serverAlive \in BOOLEAN /\ alive \in BOOLEAN

HistoryTypes ==
  /\ heard \in BOOLEAN /\ selfLocked \in BOOLEAN /\ overtaken \in BOOLEAN
  /\ gaveUp \in BOOLEAN /\ caught \in BOOLEAN /\ deadServer \in BOOLEAN

HandlerTypes ==
  /\ handler \in {"idle", "log", "clear", "load", "stop"}
  /\ on \in Threads \union {"nobody"}
  /\ batch \in 0 .. MaxEvents
  /\ signals \in 0 .. MaxSignals

MutexHeld ==
  /\ logMutex \in Threads \union {"handler", "nobody"}
  /\ logMutex = "handler" => handler = "log"
  /\ \A t \in Threads : logMutex = t => pc[t] \in LogStops

(* A thread does not run before main has started it. *)
NotStarted ==
  /\ pc["main"] = "startPin" => pc["pin"] = "none"
  /\ pc["main"] \in {"startPin", "startNotif"} => pc["notif"] = "none"

LEMMA TypeOKParts ==
  TypeOK <=> ThreadTypes /\ FlagTypes /\ HistoryTypes /\ HandlerTypes /\ MutexHeld
BY Zenon DEF TypeOK, ThreadTypes, FlagTypes, HistoryTypes, HandlerTypes, MutexHeld

(* A log call leads to another stop of the same thread. *)
LEMMA LogLeadsOn ==
  ASSUME NEW stop \in LogStops
  PROVE  /\ stop \in MainStops => AfterLog[stop] \in MainStops
         /\ stop \in PinStops => AfterLog[stop] \in PinStops
         /\ stop \in NotifStops => AfterLog[stop] \in NotifStops
         /\ stop \in MirrorStops => AfterLog[stop] \in MirrorStops
         /\ AfterLog[stop] \notin LogStops \union {"refresh"}
BY DEF LogStops, AfterLog, MainStops, PinStops, NotifStops, MirrorStops

LEMMA NextKeepsThreads ==
  ASSUME ThreadTypes, [Next]_vars
  PROVE  ThreadTypes'
<1>1. ASSUME NEW t \in Threads, Written(t) PROVE ThreadTypes'
  <2>1. PICK stop \in LogStops : pc[t] = stop /\ pc' = [pc EXCEPT ![t] = AfterLog[stop]]
    BY <1>1 DEF Written, At, Goes
  <2> QED BY <2>1, LogLeadsOn DEF ThreadTypes, Threads
<1>2. CASE StartPin \/ StartNotif \/ SetServer \/ Run
  BY <1>2 DEF StartPin, StartNotif, SetServer, Run, Goes, ThreadTypes, Threads, MainStops,
              PinStops, NotifStops
<1>3. CASE Loop \/ BatchDone \/ Serve \/ JoinMirror
  BY <1>3 DEF Loop, BatchDone, Serve, JoinMirror, Goes, ThreadTypes, Threads, MainStops,
              MirrorStops
<1>4. CASE StopNotif \/ JoinNotif \/ ClearServer \/ Destroy \/ JoinAtEnd \/ DestroyRest \/ Exit
  BY <1>4 DEF StopNotif, JoinNotif, ClearServer, Destroy, JoinAtEnd, DestroyRest, Exit, Goes,
              ThreadTypes, Threads, MainStops
<1>5. CASE PinWhile \/ PinWakes \/ PinRefreshes \/ Connects \/ Listen
  BY <1>5 DEF PinWhile, PinWakes, PinRefreshes, Connects, Listen, Goes, ThreadTypes, Threads,
              PinStops, NotifStops
<1>6. CASE WorkerTurns \/ StoresClient \/ PhoneLetsGo
  BY <1>6 DEF WorkerTurns, StoresClient, PhoneLetsGo, Goes, ThreadTypes, Threads, MainStops,
              MirrorStops
<1>7. ASSUME UNCHANGED pc PROVE ThreadTypes'
  BY <1>7 DEF ThreadTypes
<1>8. CASE HandlerStep \/ UNCHANGED vars \/ \E t \in Threads : TakeMutex(t) \/ Signal(t)
  BY <1>7, <1>8 DEF HandlerStep, HandlerTakesMutex, HandlerWritten, HandlerClears,
                    HandlerLoads, HandlerStops, TakeMutex, Signal, vars
<1> QED BY <1>1, <1>2, <1>3, <1>4, <1>5, <1>6, <1>8
        DEF Next, MainStep, PinStep, NotifStep, MirrorStep, Threads

LEMMA NextKeepsNotStarted ==
  ASSUME ThreadTypes, NotStarted, [Next]_vars
  PROVE  NotStarted'
<1> USE DEF NotStarted
<1>1. ASSUME NEW t \in Threads, Written(t) PROVE NotStarted'
  <2>1. PICK stop \in LogStops : pc[t] = stop /\ pc' = [pc EXCEPT ![t] = AfterLog[stop]]
    BY <1>1 DEF Written, At, Goes
  <2> QED BY <2>1 DEF ThreadTypes, Threads, LogStops, AfterLog
<1>2. CASE StartPin \/ StartNotif \/ SetServer \/ Run
  BY <1>2 DEF StartPin, StartNotif, SetServer, Run, At, Goes, ThreadTypes, Threads
<1>3. CASE Loop \/ BatchDone \/ Serve \/ JoinMirror
  BY <1>3 DEF Loop, BatchDone, Serve, JoinMirror, At, Goes, ThreadTypes, Threads
<1>4. CASE StopNotif \/ JoinNotif \/ ClearServer \/ Destroy \/ JoinAtEnd \/ DestroyRest \/ Exit
  BY <1>4 DEF StopNotif, JoinNotif, ClearServer, Destroy, JoinAtEnd, DestroyRest, Exit, At,
              Goes, ThreadTypes, Threads
<1>5. CASE PinWhile \/ PinWakes \/ PinRefreshes \/ Connects \/ Listen
  BY <1>5 DEF PinWhile, PinWakes, PinRefreshes, Connects, Listen, At, Goes, ThreadTypes, Threads
<1>6. CASE WorkerTurns \/ StoresClient \/ PhoneLetsGo
  BY <1>6 DEF WorkerTurns, StoresClient, PhoneLetsGo, At, Goes, ThreadTypes, Threads
<1>7. CASE HandlerStep \/ UNCHANGED vars \/ \E t \in Threads : TakeMutex(t) \/ Signal(t)
  BY <1>7 DEF HandlerStep, HandlerTakesMutex, HandlerWritten, HandlerClears, HandlerLoads,
              HandlerStops, TakeMutex, Signal, vars
<1> QED BY <1>1, <1>2, <1>3, <1>4, <1>5, <1>6, <1>7
        DEF Next, MainStep, PinStep, NotifStep, MirrorStep, Threads

LEMMA NextKeepsFlags ==
  ASSUME FlagTypes, [Next]_vars
  PROVE  FlagTypes'
<1>1. CASE MainStep
  BY <1>1, Zenon DEF MainStep, TakeMutex, Written, StartPin, StartNotif, SetServer, Run,
                     Loop, BatchDone, Serve, JoinMirror, StopNotif, JoinNotif, ClearServer,
                     ClearedServer, Destroy, JoinAtEnd, DestroyRest, Exit, flags, objects,
                     FlagTypes
<1>2. CASE PinStep \/ NotifStep \/ MirrorStep \/ PhoneLetsGo
  BY <1>2, Zenon DEF PinStep, NotifStep, MirrorStep, TakeMutex, Written, PinWhile, PinWakes,
                     PinRefreshes, Connects, Listen, WorkerTurns, StoresClient, PhoneLetsGo,
                     flags, objects, FlagTypes
<1>3. CASE HandlerStep \/ UNCHANGED vars \/ \E t \in Threads : Signal(t)
  BY <1>3, Zenon DEF HandlerStep, HandlerTakesMutex, HandlerWritten, HandlerClears,
                     HandlerLoads, HandlerStops, Stopped, Signal, flags, objects, vars,
                     FlagTypes
<1> QED BY <1>1, <1>2, <1>3 DEF Next

LEMMA NextKeepsHistory ==
  ASSUME HistoryTypes, [Next]_vars
  PROVE  HistoryTypes'
<1>1. CASE MainStep
  BY <1>1, Zenon DEF MainStep, TakeMutex, Written, StartPin, StartNotif, SetServer, Run,
                     Loop, BatchDone, Serve, JoinMirror, StopNotif, JoinNotif, ClearServer,
                     Destroy, JoinAtEnd, DestroyRest, Exit, history, HistoryTypes
<1>2. CASE PinStep \/ NotifStep \/ MirrorStep \/ PhoneLetsGo
  BY <1>2, Zenon DEF PinStep, NotifStep, MirrorStep, TakeMutex, Written, PinWhile, PinWakes,
                     PinRefreshes, Connects, Listen, WorkerTurns, StoresClient, PhoneLetsGo,
                     history, HistoryTypes
<1>3. CASE HandlerStep \/ UNCHANGED vars \/ \E t \in Threads : Signal(t)
  BY <1>3, Zenon DEF HandlerStep, HandlerTakesMutex, HandlerWritten, HandlerClears,
                     HandlerLoads, HandlerStops, Signal, history, vars, HistoryTypes
<1> QED BY <1>1, <1>2, <1>3 DEF Next

LEMMA NextKeepsHandler ==
  ASSUME HandlerTypes, [Next]_vars
  PROVE  HandlerTypes'
<1>1. CASE Loop \/ Serve
  BY <1>1, SignalsAssumption DEF Loop, Serve, HandlerTypes
<1>2. CASE MainStep /\ ~Loop /\ ~Serve
  BY <1>2 DEF MainStep, TakeMutex, Written, StartPin, StartNotif, SetServer, Run, BatchDone,
              JoinMirror, StopNotif, JoinNotif, ClearServer, Destroy, JoinAtEnd, DestroyRest,
              Exit, HandlerTypes
<1>3. CASE PinStep \/ NotifStep \/ MirrorStep \/ PhoneLetsGo \/ UNCHANGED vars
  BY <1>3 DEF PinStep, NotifStep, MirrorStep, TakeMutex, Written, PinWhile, PinWakes,
              PinRefreshes, Connects, Listen, WorkerTurns, StoresClient, PhoneLetsGo, vars,
              HandlerTypes
<1>4. CASE HandlerStep \/ \E t \in Threads : Signal(t)
  BY <1>4, SignalsAssumption
     DEF HandlerStep, HandlerTakesMutex, HandlerWritten, HandlerClears, HandlerLoads,
         HandlerStops, Signal, HandlerTypes
<1> QED BY <1>1, <1>2, <1>3, <1>4 DEF Next

(* The mutex is taken at a log call and is released with it: a thread that *)
(* holds it moves only to release it.                                      *)
LEMMA NextKeepsMutex ==
  ASSUME ThreadTypes, NotStarted, MutexHeld, [Next]_vars
  PROVE  MutexHeld'
<1>1. ASSUME NEW t \in Threads, TakeMutex(t) PROVE MutexHeld'
  <2>1. /\ pc[t] \in LogStops /\ logMutex = "nobody" /\ logMutex' = t
        /\ UNCHANGED <<pc, handler>>
    BY <1>1 DEF TakeMutex, At
  <2>2. t # "handler"
    BY DEF Threads
  <2> QED BY <2>1, <2>2 DEF MutexHeld
<1>2. ASSUME NEW t \in Threads, Written(t) PROVE MutexHeld'
  <2>1. logMutex' = "nobody" /\ "nobody" \notin Threads
    BY <1>2 DEF Written, Threads
  <2> QED BY <2>1 DEF MutexHeld
<1>3. ASSUME NEW t \in Threads, NEW stop, pc[t] \notin LogStops, pc' = [pc EXCEPT ![t] = stop],
             UNCHANGED <<logMutex, handler>>
      PROVE  MutexHeld'
  BY <1>3 DEF MutexHeld, ThreadTypes, Threads
<1>4. ASSUME UNCHANGED <<logMutex, handler>>,
             \A t \in Threads : pc'[t] = pc[t] \/ pc[t] \notin LogStops
      PROVE  MutexHeld'
  BY <1>4 DEF MutexHeld
<1>5. CASE StartPin \/ StartNotif \/ Serve
  <2>1. UNCHANGED <<logMutex, handler>>
    BY <1>5 DEF StartPin, StartNotif, Serve
  <2>2. \A t \in Threads :
          \/ pc'[t] = pc[t]
          \/ pc[t] \in {"startPin", "startNotif", "serve", "none", "ended"}
    BY <1>5 DEF StartPin, StartNotif, Serve, At, Goes, ThreadTypes, NotStarted, Threads
  <2>3. {"startPin", "startNotif", "serve", "none", "ended"} \intersect LogStops = {}
    BY DEF LogStops, AfterLog
  <2> QED BY <1>4, <2>1, <2>2, <2>3
<1>6. CASE SetServer \/ Run \/ Loop \/ BatchDone \/ JoinMirror
  <2>1. /\ pc["main"] \in {"setServer", "run", "loop", "serve", "joinMirror"}
        /\ UNCHANGED <<logMutex, handler>>
        /\ \E stop \in MainStops : pc' = [pc EXCEPT !["main"] = stop]
    BY <1>6 DEF SetServer, Run, Loop, BatchDone, JoinMirror, At, Goes, MainStops
  <2>2. pc["main"] \notin LogStops
    BY <2>1 DEF LogStops, AfterLog
  <2> QED BY <2>1, <2>2, <1>3 DEF Threads
<1>7. CASE StopNotif \/ JoinNotif \/ ClearServer \/ Destroy \/ JoinAtEnd \/ DestroyRest \/ Exit
  <2>1. /\ pc["main"] \in {"stopNotif", "joinNotif", "clearServer", "destroy", "joinAtEnd",
                           "destroyRest", "return"}
        /\ UNCHANGED <<logMutex, handler>>
        /\ \E stop \in MainStops : pc' = [pc EXCEPT !["main"] = stop]
    BY <1>7 DEF StopNotif, JoinNotif, ClearServer, Destroy, JoinAtEnd, DestroyRest, Exit, At,
                Goes, MainStops
  <2>2. pc["main"] \notin LogStops
    BY <2>1 DEF LogStops, AfterLog
  <2> QED BY <2>1, <2>2, <1>3 DEF Threads
<1>8. CASE PinWhile \/ PinWakes \/ PinRefreshes
  <2>1. /\ pc["pin"] \in {"while", "sleep", "refresh"}
        /\ UNCHANGED <<logMutex, handler>>
        /\ \E stop \in PinStops : pc' = [pc EXCEPT !["pin"] = stop]
    BY <1>8 DEF PinWhile, PinWakes, PinRefreshes, At, Goes, PinStops
  <2>2. pc["pin"] \notin LogStops
    BY <2>1 DEF LogStops, AfterLog
  <2> QED BY <2>1, <2>2, <1>3 DEF Threads
<1>9. CASE Connects \/ Listen
  <2>1. /\ pc["notif"] \in {"connect", "listen"}
        /\ UNCHANGED <<logMutex, handler>>
        /\ \E stop \in NotifStops : pc' = [pc EXCEPT !["notif"] = stop]
    BY <1>9 DEF Connects, Listen, At, Goes, NotifStops
  <2>2. pc["notif"] \notin LogStops
    BY <2>1 DEF LogStops, AfterLog
  <2> QED BY <2>1, <2>2, <1>3 DEF Threads
<1>10. CASE WorkerTurns \/ StoresClient \/ PhoneLetsGo
  <2>1. UNCHANGED <<logMutex, handler>>
    BY <1>10 DEF WorkerTurns, StoresClient, PhoneLetsGo
  <2>2. \A t \in Threads :
          pc'[t] = pc[t] \/ pc[t] \in {"wait", "accepted", "held", "phone"}
    BY <1>10 DEF WorkerTurns, StoresClient, PhoneLetsGo, At, Goes, ThreadTypes, Threads
  <2>3. {"wait", "accepted", "held", "phone"} \intersect LogStops = {}
    BY DEF LogStops, AfterLog
  <2> QED BY <1>4, <2>1, <2>2, <2>3
<1>11. CASE HandlerStep \/ UNCHANGED vars \/ \E t \in Threads : Signal(t)
  BY <1>11 DEF HandlerStep, HandlerTakesMutex, HandlerWritten, HandlerClears, HandlerLoads,
               HandlerStops, HandlerAt, Signal, vars, MutexHeld, Threads
<1> QED BY <1>1, <1>2, <1>5, <1>6, <1>7, <1>8, <1>9, <1>10, <1>11
        DEF Next, MainStep, PinStep, NotifStep, MirrorStep, Threads

(* Every thread stays at the stops of the code, and the log mutex is held  *)
(* only inside a log call, whatever signals interrupt.                     *)
THEOREM TypeCorrect == Spec => []TypeOK
<1>1. Init => TypeOK
  <2> SUFFICES ASSUME Init PROVE TypeOK
    OBVIOUS
  <2>1. FlagTypes /\ HistoryTypes
    BY Zenon DEF Init, FlagTypes, HistoryTypes
  <2>2. ThreadTypes /\ HandlerTypes /\ MutexHeld
    BY SignalsAssumption DEF Init, ThreadTypes, HandlerTypes, MutexHeld, Threads, MainStops,
                             PinStops, NotifStops, MirrorStops
  <2> QED BY <2>1, <2>2, TypeOKParts
<1>2. TypeOK /\ NotStarted /\ [Next]_vars => TypeOK'
  <2> SUFFICES ASSUME TypeOK, NotStarted, [Next]_vars PROVE TypeOK'
    OBVIOUS
  <2>1. (ThreadTypes /\ FlagTypes /\ HistoryTypes /\ HandlerTypes /\ MutexHeld)'
    BY TypeOKParts, NextKeepsThreads, NextKeepsFlags, NextKeepsHistory, NextKeepsHandler,
       NextKeepsMutex
  <2> QED BY <2>1, TypeOKParts, PTL
<1>3. Init => NotStarted
  BY DEF Init, NotStarted, Threads
<1>4. TypeOK /\ NotStarted /\ [Next]_vars => NotStarted'
  BY TypeOKParts, NextKeepsNotStarted
<1> QED BY <1>1, <1>2, <1>3, <1>4, PTL DEF Spec

-----------------------------------------------------------------------------
(* What is gone and who may still reach it. *)

GoneStops   == {"logGoodbye", "destroy", "joinAtEnd", "logStopped", "destroyRest", "return",
                "exited"}
LaterStops  == {"joinAtEnd", "logStopped", "destroyRest", "return", "exited"}

(* g_server is cleared before main's locals go, and a handler that has     *)
(* read it before is remembered.                                           *)
PointerInv ==
  /\ ~serverAlive => pc["main"] \in LaterStops
  /\ ~alive => pc["main"] \in {"return", "exited"}
  /\ pc["main"] \in GoneStops => ~server /\ (handler = "stop" => overtaken)
  /\ ServerStoppedAlive

LEMMA NextKeepsPointer ==
  ASSUME ThreadTypes, PointerInv, [Next]_vars
  PROVE  PointerInv'
<1> USE DEF PointerInv, ServerStoppedAlive
<1>1. ASSUME NEW t \in Threads, Written(t) PROVE PointerInv'
  <2>1. PICK stop \in LogStops : pc[t] = stop /\ pc' = [pc EXCEPT ![t] = AfterLog[stop]]
    BY <1>1 DEF Written, At, Goes
  <2>2. UNCHANGED <<serverAlive, alive, server, handler, overtaken, deadServer>>
    BY <1>1 DEF Written, flags, objects, history
  <2>3. pc'["main"] \in GoneStops => pc["main"] \in GoneStops
    BY <2>1 DEF ThreadTypes, Threads, GoneStops, MainStops, LogStops, AfterLog
  <2>4. pc["main"] \in LaterStops => pc'["main"] \in LaterStops
    BY <2>1 DEF ThreadTypes, Threads, LaterStops, LogStops, AfterLog
  <2>5. pc["main"] \in {"return", "exited"} => pc'["main"] = pc["main"]
    BY <2>1 DEF ThreadTypes, Threads, LogStops, AfterLog
  <2> QED BY <2>2, <2>3, <2>4, <2>5
<1>2. ASSUME UNCHANGED <<serverAlive, alive, handler, overtaken, deadServer>>,
             pc["main"] \notin GoneStops, pc'["main"] \notin GoneStops
      PROVE  PointerInv'
  BY <1>2 DEF GoneStops, LaterStops
<1>3. CASE StartPin \/ StartNotif \/ SetServer \/ Run
  <2>1. /\ UNCHANGED <<serverAlive, alive, handler, overtaken, deadServer>>
        /\ pc["main"] \notin GoneStops /\ pc'["main"] \notin GoneStops
    BY <1>3 DEF StartPin, StartNotif, SetServer, Run, At, Goes, flags, objects, history,
                ThreadTypes, Threads, GoneStops
  <2> QED BY <1>2, <2>1
<1>4. CASE Loop \/ BatchDone \/ Serve \/ JoinMirror \/ StopNotif \/ JoinNotif
  <2>1. /\ UNCHANGED <<serverAlive, alive, handler, overtaken, deadServer>>
        /\ pc["main"] \notin GoneStops /\ pc'["main"] \notin GoneStops
    BY <1>4 DEF Loop, BatchDone, Serve, JoinMirror, StopNotif, JoinNotif, At, Goes, flags,
                objects, history, ThreadTypes, Threads, GoneStops
  <2> QED BY <1>2, <2>1
<1>5. CASE ClearServer
  <2>1. /\ pc["main"] = "clearServer" /\ pc'["main"] = "logGoodbye" /\ ~server'
        /\ UNCHANGED <<serverAlive, alive, handler, deadServer>>
    BY <1>5 DEF ClearServer, ClearedServer, At, Goes, objects, ThreadTypes, Threads
  <2>2. (overtaken => overtaken') /\ (handler = "stop" => overtaken')
    BY <1>5, Zenon DEF ClearServer
  <2> QED BY <2>1, <2>2 DEF GoneStops, LaterStops
<1>6. CASE Destroy
  <2>1. /\ pc["main"] = "destroy" /\ pc'["main"] \in {"joinAtEnd", "destroyRest"}
        /\ UNCHANGED <<server, alive, handler, overtaken, deadServer>>
    BY <1>6 DEF Destroy, At, Goes, history, ThreadTypes, Threads
  <2> QED BY <2>1 DEF GoneStops, LaterStops
<1>7. CASE JoinAtEnd \/ DestroyRest \/ Exit
  <2>1. /\ pc["main"] \in {"joinAtEnd", "destroyRest", "return"}
        /\ pc'["main"] \in {"logStopped", "return", "exited"}
        /\ UNCHANGED <<server, serverAlive, handler, overtaken, deadServer>>
    BY <1>7 DEF JoinAtEnd, DestroyRest, Exit, At, Goes, flags, objects, history, ThreadTypes,
                Threads
  <2>2. ~alive' => pc'["main"] \in {"return", "exited"}
    BY <1>7 DEF JoinAtEnd, DestroyRest, Exit, At, Goes, objects, ThreadTypes, Threads
  <2> QED BY <2>1, <2>2 DEF GoneStops, LaterStops
<1>8. CASE PinWhile \/ PinWakes \/ PinRefreshes \/ Connects \/ Listen
  <2>1. /\ pc'["main"] = pc["main"]
        /\ UNCHANGED <<serverAlive, alive, server, handler, overtaken, deadServer>>
    BY <1>8 DEF PinWhile, PinWakes, PinRefreshes, Connects, Listen, Goes, flags, objects,
                history, ThreadTypes, Threads
  <2> QED BY <2>1
<1>9. CASE WorkerTurns \/ StoresClient \/ PhoneLetsGo
  <2>1. /\ \/ pc'["main"] = pc["main"]
           \/ pc["main"] \notin GoneStops /\ pc'["main"] \notin GoneStops
        /\ UNCHANGED <<serverAlive, alive, server, handler, overtaken, deadServer>>
    BY <1>9 DEF WorkerTurns, StoresClient, PhoneLetsGo, At, Goes, flags, objects, history,
                ThreadTypes, Threads, GoneStops
  <2> QED BY <1>2, <2>1
<1>10. CASE HandlerLoads
  BY <1>10 DEF HandlerLoads, flags, objects, history
<1>11. CASE HandlerStops
  <2>1. /\ handler = "stop" /\ handler' = "idle"
        /\ UNCHANGED <<pc, server, serverAlive, alive, overtaken>>
    BY <1>11 DEF HandlerStops, HandlerAt, objects
  <2>2. deadServer' => deadServer \/ ~serverAlive
    BY <1>11, Zenon DEF HandlerStops
  <2> QED BY <2>1, <2>2 DEF GoneStops, LaterStops
<1>12. CASE \/ HandlerTakesMutex \/ HandlerWritten \/ HandlerClears \/ UNCHANGED vars
            \/ \E t \in Threads : TakeMutex(t) \/ Signal(t)
  <2>1. /\ UNCHANGED <<pc, server, serverAlive, alive, overtaken, deadServer>>
        /\ handler' = handler \/ handler' \in {"log", "clear", "load"}
    BY <1>12 DEF HandlerTakesMutex, HandlerWritten, HandlerClears, TakeMutex, Signal, flags,
                 objects, history, vars
  <2> QED BY <2>1
<1> QED BY <1>1, <1>3, <1>4, <1>5, <1>6, <1>7, <1>8, <1>9, <1>10, <1>11, <1>12
        DEF Next, MainStep, PinStep, NotifStep, MirrorStep, HandlerStep, Threads

LEMMA ThreadInvariant == Spec => []ThreadTypes
<1>1. TypeOK => ThreadTypes
  BY TypeOKParts
<1> QED BY <1>1, TypeCorrect, PTL

(* However many signals come, and on whichever thread the handler runs: it *)
(* stops a server that is gone only when main has cleared g_server between *)
(* the handler's look at it and its call.                                  *)
THEOREM ServerNotStoppedDead == Spec => []ServerStoppedAlive
<1>1. Init => PointerInv
  BY DEF Init, PointerInv, ServerStoppedAlive, GoneStops, Threads
<1>2. PointerInv => ServerStoppedAlive
  BY DEF PointerInv
<1> QED BY <1>1, <1>2, ThreadInvariant, NextKeepsPointer, PTL DEF Spec

-----------------------------------------------------------------------------
(* The PIN thread. *)

RefreshInv == Refreshing => running \/ caught

LEMMA NextKeepsRefresh ==
  ASSUME ThreadTypes, RefreshInv, [Next]_vars
  PROVE  RefreshInv'
<1>1. ASSUME Refreshing' => Refreshing, UNCHANGED <<running, caught>> PROVE RefreshInv'
  BY <1>1 DEF RefreshInv
<1>2. ASSUME NEW t \in Threads, Written(t) PROVE RefreshInv'
  <2>1. PICK stop \in LogStops : pc[t] = stop /\ pc' = [pc EXCEPT ![t] = AfterLog[stop]]
    BY <1>2 DEF Written, At, Goes
  <2> QED BY <1>1, <1>2, <2>1, LogLeadsOn DEF Written, flags, history, Refreshing, ThreadTypes,
                                              Threads
<1>3. CASE StartPin \/ StartNotif \/ SetServer \/ Run \/ Loop \/ BatchDone \/ Serve \/ JoinMirror
  BY <1>1, <1>3 DEF StartPin, StartNotif, SetServer, Run, Loop, BatchDone, Serve, JoinMirror,
                    Goes, flags, history, Refreshing, ThreadTypes, Threads
<1>4. CASE StopNotif \/ JoinNotif \/ ClearServer \/ Destroy \/ JoinAtEnd \/ DestroyRest \/ Exit
  BY <1>1, <1>4 DEF StopNotif, JoinNotif, ClearServer, Destroy, JoinAtEnd, DestroyRest, Exit,
                    Goes, flags, history, Refreshing, ThreadTypes, Threads
<1>5. CASE PinWhile \/ Connects \/ Listen \/ WorkerTurns \/ StoresClient \/ PhoneLetsGo
  BY <1>1, <1>5 DEF PinWhile, Connects, Listen, WorkerTurns, StoresClient, PhoneLetsGo, At,
                    Goes, flags, history, Refreshing, ThreadTypes, Threads
<1>6. CASE PinWakes
  <2>1. UNCHANGED <<running, caught>>
    BY <1>6 DEF PinWakes, flags, history
  <2>2. CASE running
    BY <2>1, <2>2 DEF RefreshInv
  <2>3. CASE ~running
    BY <1>1, <1>6, <2>1, <2>3 DEF PinWakes, MayRefresh, Goes, Refreshing, ThreadTypes, Threads
  <2> QED BY <2>2, <2>3
<1>7. CASE PinRefreshes
  BY <1>7 DEF PinRefreshes, Goes, RefreshInv, Refreshing, ThreadTypes, Threads
<1>8. CASE HandlerClears
  <2>1. Refreshing' = Refreshing
    BY <1>8 DEF HandlerClears, Refreshing
  <2>2. Refreshing => caught'
    BY <1>8, Zenon DEF HandlerClears
  <2> QED BY <2>1, <2>2 DEF RefreshInv
<1>9. CASE \/ HandlerTakesMutex \/ HandlerWritten \/ HandlerLoads \/ HandlerStops
           \/ UNCHANGED vars \/ \E t \in Threads : TakeMutex(t) \/ Signal(t)
  BY <1>1, <1>9 DEF HandlerTakesMutex, HandlerWritten, HandlerLoads, HandlerStops, TakeMutex,
                    Signal, flags, history, vars, Refreshing
<1> QED BY <1>2, <1>3, <1>4, <1>5, <1>6, <1>7, <1>8, <1>9
        DEF Next, MainStep, PinStep, NotifStep, MirrorStep, HandlerStep, Threads

(* main leaves its loop when stop() has cleared m_running, which the       *)
(* handler calls when it has cleared g_running, or when epoll_wait fails.  *)
LoopStops == {"logListening", "loop", "serve", "logEvent", "phone", "joinMirror"}
EndStops  == {"logEnded", "logBindFailed", "stopNotif", "joinNotif", "clearServer"}
             \union GoneStops

EndInv ==
  /\ handler \in {"load", "stop"} => ~running
  /\ pc["main"] \in LoopStops /\ ~serverRunning => ~running
  /\ pc["main"] \in EndStops => ~running \/ gaveUp

LEMMA NextKeepsEnd ==
  ASSUME ThreadTypes, EndInv, [Next]_vars
  PROVE  EndInv'
<1>1. ASSUME UNCHANGED <<running, serverRunning, handler, gaveUp>>,
             \/ pc'["main"] = pc["main"]
             \/ pc["main"] \in LoopStops /\ pc'["main"] \in LoopStops
             \/ pc["main"] \in EndStops /\ pc'["main"] \in EndStops
             \/ pc'["main"] \notin LoopStops \union EndStops
      PROVE  EndInv'
  BY <1>1 DEF EndInv, LoopStops, EndStops, GoneStops
<1>2. ASSUME NEW t \in Threads, Written(t) PROVE EndInv'
  <2>1. PICK stop \in LogStops : pc[t] = stop /\ pc' = [pc EXCEPT ![t] = AfterLog[stop]]
    BY <1>2 DEF Written, At, Goes
  <2>2. UNCHANGED <<running, serverRunning, handler, gaveUp>>
    BY <1>2 DEF Written, flags, history
  <2>3. CASE t # "main"
    <3>1. pc'["main"] = pc["main"]
      BY <2>1, <2>3 DEF ThreadTypes, Threads
    <3> QED BY <1>1, <2>2, <3>1
  <2>4. CASE t = "main"
    <3>1. \/ pc["main"] \in LoopStops /\ pc'["main"] \in LoopStops
          \/ pc["main"] \in EndStops /\ pc'["main"] \in EndStops
          \/ pc'["main"] \notin LoopStops \union EndStops
      BY <2>1, <2>4 DEF ThreadTypes, Threads, MainStops, LogStops, AfterLog, LoopStops, EndStops,
                        GoneStops
    <3> QED BY <1>1, <2>2, <3>1
  <2> QED BY <2>3, <2>4
<1>3. CASE StartPin \/ StartNotif \/ SetServer
  <2>1. /\ UNCHANGED <<running, serverRunning, handler, gaveUp>>
        /\ pc'["main"] \in {"startNotif", "setServer", "logReady"}
    BY <1>3 DEF StartPin, StartNotif, SetServer, At, Goes, flags, history, ThreadTypes, Threads
  <2> QED BY <1>1, <2>1 DEF LoopStops, EndStops, GoneStops
<1>4. CASE Run
  <2>1. UNCHANGED <<running, handler>>
    BY <1>4 DEF Run
  <2>2. \/ pc'["main"] = "logListening" /\ serverRunning'
        \/ pc'["main"] = "logBindFailed" /\ gaveUp'
    BY <1>4 DEF Run, Goes, ThreadTypes, Threads
  <2> QED BY <2>1, <2>2 DEF EndInv, LoopStops, EndStops, GoneStops
<1>5. CASE Loop
  <2>1. UNCHANGED <<running, serverRunning, handler>> /\ pc["main"] = "loop"
    BY <1>5 DEF Loop, At, flags
  <2>2. \/ pc'["main"] = "logEnded" /\ (~serverRunning \/ gaveUp')
        \/ pc'["main"] = "serve" /\ serverRunning
    BY <1>5 DEF Loop, Goes, ThreadTypes, Threads
  <2> QED BY <2>1, <2>2 DEF EndInv, LoopStops, EndStops, GoneStops
<1>6. CASE BatchDone \/ Serve \/ JoinMirror
  <2>1. /\ UNCHANGED <<running, serverRunning, handler, gaveUp>>
        /\ pc["main"] \in LoopStops /\ pc'["main"] \in LoopStops
    BY <1>6 DEF BatchDone, Serve, JoinMirror, At, Goes, flags, history, ThreadTypes, Threads,
                LoopStops
  <2> QED BY <1>1, <2>1
<1>7. CASE StopNotif \/ JoinNotif \/ ClearServer \/ JoinAtEnd \/ DestroyRest \/ Exit
  <2>1. UNCHANGED <<running, serverRunning, handler, gaveUp>>
    BY <1>7 DEF StopNotif, JoinNotif, ClearServer, JoinAtEnd, DestroyRest, Exit, flags, history
  <2>2. pc["main"] \in EndStops /\ pc'["main"] \in EndStops
    BY <1>7 DEF StopNotif, JoinNotif, ClearServer, JoinAtEnd, DestroyRest, Exit, At, Goes,
                ThreadTypes, Threads, EndStops, GoneStops
  <2> QED BY <1>1, <2>1, <2>2
<1>8. CASE Destroy
  <2>1. /\ UNCHANGED <<running, handler, gaveUp>>
        /\ pc["main"] = "destroy" /\ pc'["main"] \in {"joinAtEnd", "destroyRest"}
    BY <1>8 DEF Destroy, At, Goes, history, ThreadTypes, Threads
  <2> QED BY <2>1 DEF EndInv, LoopStops, EndStops, GoneStops
<1>9. CASE PinWhile \/ PinWakes \/ PinRefreshes \/ Connects \/ Listen
  <2>1. UNCHANGED <<running, serverRunning, handler, gaveUp>> /\ pc'["main"] = pc["main"]
    BY <1>9 DEF PinWhile, PinWakes, PinRefreshes, Connects, Listen, Goes, flags, history,
                ThreadTypes, Threads
  <2> QED BY <1>1, <2>1
<1>10. CASE WorkerTurns \/ StoresClient \/ PhoneLetsGo
  <2>1. UNCHANGED <<running, serverRunning, handler, gaveUp>>
    BY <1>10 DEF WorkerTurns, StoresClient, PhoneLetsGo, flags, history
  <2>2. \/ pc'["main"] = pc["main"]
        \/ pc["main"] \in LoopStops /\ pc'["main"] \in LoopStops
    BY <1>10 DEF WorkerTurns, StoresClient, PhoneLetsGo, At, Goes, ThreadTypes, Threads,
                 LoopStops
  <2> QED BY <1>1, <2>1, <2>2
<1>11. CASE HandlerClears
  <2>1. ~running' /\ handler' = "load" /\ UNCHANGED <<pc, serverRunning, gaveUp>>
    BY <1>11 DEF HandlerClears
  <2> QED BY <2>1 DEF EndInv
<1>12. CASE HandlerLoads
  <2>1. UNCHANGED <<running, serverRunning, pc, gaveUp>> /\ handler = "load"
    BY <1>12 DEF HandlerLoads, HandlerAt, flags, history
  <2> QED BY <2>1 DEF EndInv
<1>13. CASE HandlerStops
  <2>1. UNCHANGED <<running, pc, gaveUp>> /\ handler = "stop" /\ handler' = "idle"
    BY <1>13 DEF HandlerStops, HandlerAt
  <2> QED BY <2>1 DEF EndInv
<1>14. CASE \/ HandlerTakesMutex \/ HandlerWritten \/ UNCHANGED vars
            \/ \E t \in Threads : TakeMutex(t) \/ Signal(t)
  <2>1. /\ UNCHANGED <<running, serverRunning, pc, gaveUp>>
        /\ handler' = handler \/ handler' \in {"log", "clear"}
    BY <1>14 DEF HandlerTakesMutex, HandlerWritten, TakeMutex, Signal, flags, history, vars
  <2> QED BY <2>1 DEF EndInv
<1> QED BY <1>2, <1>3, <1>4, <1>5, <1>6, <1>7, <1>8, <1>9, <1>10, <1>11, <1>12, <1>13, <1>14
        DEF Next, MainStep, PinStep, NotifStep, MirrorStep, HandlerStep, Threads

(* The second look at g_running is enough: a refresh meets the destroyed   *)
(* locals of main only if the handler cleared the flag in the middle of    *)
(* it, or if run() gave up: it could not set up the port, or epoll_wait    *)
(* failed.                                                                 *)
THEOREM RefreshEndsInTime == Spec => []RefreshWithinLifetime
<1>1. Init => RefreshInv /\ EndInv
  BY DEF Init, RefreshInv, Refreshing, EndInv, LoopStops, EndStops, GoneStops, Threads
<1>2. PointerInv /\ RefreshInv /\ EndInv => RefreshWithinLifetime
  BY DEF PointerInv, RefreshInv, EndInv, EndStops, GoneStops, RefreshWithinLifetime
<1>3. Init => PointerInv
  BY DEF Init, PointerInv, ServerStoppedAlive, GoneStops, Threads
<1> QED
  BY <1>1, <1>2, <1>3, ThreadInvariant, NextKeepsRefresh, NextKeepsEnd, NextKeepsPointer, PTL
     DEF Spec
=============================================================================
