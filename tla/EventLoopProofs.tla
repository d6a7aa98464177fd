--------------------------- MODULE EventLoopProofs ---------------------------
(***************************************************************************)
(* Proofs about EventLoop: what holds of the descriptors the loop and the  *)
(* other threads share, and of the keys and buttons the phones' commands   *)
(* hold, for any number of phones and descriptors, any size of the tables  *)
(* and any commands.                                                       *)
(***************************************************************************)
EXTENDS EventLoop, FiniteSetTheorems, SequenceTheorems, WellFoundedInduction, TLAPS

-----------------------------------------------------------------------------
(* Types. *)

LEMMA CloseKeepsTypes ==
  ASSUME Typed, NEW k, Close(k)
  PROVE  /\ phone' \in [Conns -> {"gone", "waiting", "up"}]
         /\ fds' \in [Fds -> Conns \union {"free", "foreign"}]
         /\ foreignHurt' \in BOOLEAN /\ UNCHANGED <<owned, line>>
<1>1. foreignHurt' \in BOOLEAN
  BY Zenon DEF Close, Typed
<1> QED BY <1>1 DEF Close, Typed

LEMMA ReadyAreEvents ==
  ASSUME Typed
  PROVE  Ready \subseteq Events
<1>1. ASSUME NEW k \in Fds PROVE EventsOf(k) \subseteq Events
  BY DEF EventsOf, Events
<1> QED BY <1>1 DEF Ready, Events

LEMMA OthersKeepTypes ==
  ASSUME Typed, PhoneStep \/ ForeignOpens \/ ForeignCloses \/ PushEnds
  PROVE  Typed'
<1>1. CASE ForeignOpens
  <2>1. raced' \in BOOLEAN
    BY <1>1, Zenon DEF ForeignOpens, Typed
  <2> QED BY <1>1, <2>1 DEF ForeignOpens, phoneVars, tableVars, loopVars, batchVars, Typed
<1>2. CASE ForeignCloses
  BY <1>2 DEF ForeignCloses, tableVars, loopVars, batchVars, Typed
<1>3. CASE PhoneStep
  BY <1>3 DEF PhoneStep, Connects, Speaks, Leaves, kernelVars, tableVars, loopVars, batchVars,
              Typed
<1>4. CASE PushEnds
  BY <1>4 DEF PushEnds, phoneVars, kernelVars, tableVars, batchVars, Typed
<1> QED BY <1>1, <1>2, <1>3, <1>4

LEMMA LoopKeepsTypes ==
  ASSUME Typed, LoopStep
  PROVE  Typed'
<1>1. CASE Wait
  <2>1. PICK events \in SUBSET Ready :
          batch' = events /\ missed' = {e[1] : e \in Ready \ events}
    BY <1>1 DEF Wait
  <2>2. batch' \subseteq Events /\ missed' \subseteq Fds \union {Server}
    BY <2>1, ReadyAreEvents DEF Events
  <2> QED BY <1>1, <2>2 DEF Wait, loopVars, phoneVars, kernelVars, tableVars, Typed
<1>2. CASE AcceptFails
  BY <1>2 DEF AcceptFails, Rest, phoneVars, kernelVars, tableVars, loopVars, Typed
<1>3. ASSUME NEW c \in Conns, Accept(c) PROVE Typed'
  <2>1. /\ phone' \in [Conns -> {"gone", "waiting", "up"}]
        /\ fds' \in [Fds -> Conns \union {"free", "foreign"}]
        /\ pc' \in {"dispatch", "handshake"}
        /\ cur' \in IF pc' = "dispatch" THEN {NoFd} ELSE Fds
        /\ guest' \in Conns \union {NoConn}
    <3>1. CASE TablesFull
      BY <1>3, <3>1 DEF Accept, loopVars, Typed
    <3>2. CASE ~TablesFull
      BY <1>3, <3>2 DEF Accept, Typed
    <3> QED BY <3>1, <3>2
  <2> QED BY <1>3, <2>1 DEF Accept, Rest, tableVars, Typed
<1>4. CASE HandshakeEnds
  BY <1>4 DEF HandshakeEnds, kernelVars, batchVars, Typed
<1>5. CASE \E k \in Fds, kind \in {"in", "hup"} : Dispatch(k, kind)
  BY <1>5 DEF Dispatch, Rest, phoneVars, kernelVars, tableVars, loopVars, Typed
<1>6. ASSUME NEW c \in Conns, SessionActs(c) PROVE Typed'
  BY <1>6 DEF SessionActs, Reads, kernelVars, loopVars, batchVars, Typed
<1>7. ASSUME NEW c \in Conns, SessionRefuses(c) PROVE Typed'
  <2>1. /\ line' \in [Conns -> {"silent", "data", "fin", "reset"}]
        /\ fds' \in [Fds -> Conns \union {"free", "foreign"}]
        /\ phone' \in [Conns -> {"gone", "waiting", "up"}]
    BY <1>7 DEF SessionRefuses, Reads, Typed
  <2>2. selfClosed' \subseteq Fds
    BY <1>7, LoopAssumption DEF SessionRefuses, Reads, Typed
  <2> QED BY <1>7, <2>1, <2>2 DEF SessionRefuses, loopVars, batchVars, Typed
<1>8. ASSUME NEW c \in Conns, SessionPushes(c) PROVE Typed'
  BY <1>8 DEF SessionPushes, Reads, kernelVars, tableVars, batchVars, Typed
<1>9. CASE \E c \in Conns, cmd \in Commands : SessionPresses(c, cmd)
  BY <1>9 DEF SessionPresses, Reads, kernelVars, tableVars, loopVars, batchVars, Typed
<1>10. CASE ReadWouldBlock \/ ReadEnds
  BY <1>10 DEF ReadWouldBlock, ReadEnds, phoneVars, kernelVars, tableVars, batchVars, Typed
<1>11. CASE EraseSession
  BY <1>11 DEF EraseSession, DestroySession, phoneVars, batchVars, Typed
<1>12. CASE CloseRemoved
  BY <1>12, CloseKeepsTypes DEF CloseRemoved, CloseClient, batchVars, Typed
<1> QED BY <1>1, <1>2, <1>4, <1>5, <1>6, <1>9, <1>10, <1>11, <1>12, <1>3, <1>7, <1>8 DEF LoopStep

LEMMA NextKeepsTypes == Typed /\ [Next]_vars => Typed'
<1> SUFFICES ASSUME Typed, [Next]_vars PROVE Typed'
  OBVIOUS
<1>1. CASE UNCHANGED vars
  BY <1>1 DEF vars, phoneVars, kernelVars, tableVars, loopVars, batchVars, Typed
<1> QED BY <1>1, OthersKeepTypes, LoopKeepsTypes DEF Next

LEMMA TypeInvariant == Spec => []Typed
<1>1. Init => Typed
  <2> SUFFICES ASSUME Init PROVE Typed
    OBVIOUS
  <2>1. raced \in BOOLEAN /\ foreignHurt \in BOOLEAN
    BY Zenon DEF Init
  <2> QED BY <2>1 DEF Init, Typed
<1> QED BY <1>1, NextKeepsTypes, PTL DEF Spec
-----------------------------------------------------------------------------
(* The limit of m_clients: it is compared before the handshake, and nobody *)
(* else adds a session meanwhile.                                          *)

Room ==
  /\ Cardinality(SessionFds) <= MAX_CLIENTS
  /\ pc = "handshake" => Cardinality(SessionFds) < MAX_CLIENTS

LEMMA SessionsAreFinite ==
  ASSUME Typed
  PROVE  IsFiniteSet(SessionFds) /\ Cardinality(SessionFds) \in Nat
<1>1. SessionFds \subseteq Fds
  BY DEF SessionFds
<1>2. IsFiniteSet(SessionFds)
  BY <1>1, LoopAssumption, FS_Subset
<1> QED BY <1>2, FS_CardinalityType

LEMMA NextKeepsRoom == Typed /\ Room /\ [Next]_vars => Room'
<1> SUFFICES ASSUME Typed, Room, [Next]_vars PROVE Room'
  OBVIOUS
<1> USE SessionsAreFinite
<1>1. CASE HandshakeEnds
  <2>1. SessionFds' \subseteq SessionFds \union {cur}
    BY <1>1 DEF HandshakeEnds, SessionFds, Typed
  <2>2. /\ IsFiniteSet(SessionFds \union {cur})
        /\ Cardinality(SessionFds \union {cur}) <= Cardinality(SessionFds) + 1
    <3>1. CASE cur \in SessionFds
      <4>1. SessionFds \union {cur} = SessionFds
        BY <3>1
      <4>2. /\ IsFiniteSet(SessionFds \union {cur})
            /\ Cardinality(SessionFds \union {cur}) = Cardinality(SessionFds)
        BY <4>1, Zenon
      <4> QED BY <4>2
    <3>2. CASE cur \notin SessionFds
      BY <3>2, FS_AddElement
    <3> QED BY <3>1, <3>2
  <2>3. /\ Cardinality(SessionFds') <= Cardinality(SessionFds \union {cur})
        /\ Cardinality(SessionFds') \in Nat /\ Cardinality(SessionFds \union {cur}) \in Nat
    BY <2>1, <2>2, FS_Subset, FS_CardinalityType
  <2>4. Cardinality(SessionFds) < MAX_CLIENTS /\ pc' # "handshake"
    BY <1>1 DEF HandshakeEnds, Room
  <2> QED BY <2>2, <2>3, <2>4, LoopAssumption DEF Room
<1>2. CASE EraseSession
  <2>1. SessionFds' \subseteq SessionFds /\ pc' # "handshake"
    BY <1>2 DEF EraseSession, SessionFds, Typed
  <2>2. Cardinality(SessionFds') <= Cardinality(SessionFds) /\ Cardinality(SessionFds') \in Nat
    BY <2>1, FS_Subset, FS_CardinalityType
  <2> QED BY <2>1, <2>2, LoopAssumption DEF Room
<1>3. ASSUME NEW c \in Conns, Accept(c) PROVE Room'
  <2>1. SessionFds' = SessionFds
    BY <1>3 DEF Accept, tableVars, SessionFds
  <2>2. CASE TablesFull
    BY <1>3, <2>1, <2>2 DEF Accept, loopVars, Room
  <2>3. CASE ~TablesFull
    BY <1>3, <2>1, <2>3, LoopAssumption DEF Accept, TablesFull, Room
  <2> QED BY <2>2, <2>3
<1>4. ASSUME clients' = clients, pc' = "handshake" => pc = "handshake" PROVE Room'
  <2>1. SessionFds' = SessionFds
    BY <1>4 DEF SessionFds
  <2> QED BY <1>4, <2>1 DEF Room
<1>5. CASE PhoneStep \/ ForeignOpens \/ ForeignCloses \/ PushEnds \/ UNCHANGED vars
  BY <1>4, <1>5 DEF PhoneStep, Connects, Speaks, Leaves, ForeignOpens, ForeignCloses, PushEnds,
                    tableVars, loopVars, vars
<1>6. CASE Wait \/ AcceptFails \/ ReadWouldBlock \/ ReadEnds \/ CloseRemoved
  BY <1>4, <1>6 DEF Wait, AcceptFails, ReadWouldBlock, ReadEnds, CloseRemoved, tableVars, loopVars
<1>7. ASSUME NEW c \in Conns, SessionActs(c) \/ SessionRefuses(c) \/ SessionPushes(c)
      PROVE  Room'
  BY <1>4, <1>7 DEF SessionActs, SessionRefuses, SessionPushes, tableVars, loopVars
<1>8. ASSUME NEW c \in Conns, NEW cmd \in Commands, SessionPresses(c, cmd) PROVE Room'
  BY <1>4, <1>8 DEF SessionPresses, tableVars, loopVars
<1>9. ASSUME NEW k \in Fds, NEW kind \in {"in", "hup"}, Dispatch(k, kind) PROVE Room'
  BY <1>4, <1>9 DEF Dispatch, tableVars, loopVars
<1> QED BY <1>1, <1>2, <1>3, <1>5, <1>6, <1>7, <1>8, <1>9 DEF Next, LoopStep

(* The descriptor table, the event batch and m_clients keep their types,   *)
(* and the daemon never serves more than MAX_CLIENTS sessions, whatever    *)
(* connects or is removed while a handshake is going on.                   *)
THEOREM TypeCorrect == Spec => []TypeOK
<1>1. Init => Room
  <2> SUFFICES ASSUME Init PROVE Room
    OBVIOUS
  <2>1. SessionFds = {}
    BY DEF Init, SessionFds
  <2> QED BY <2>1, FS_EmptySet, LoopAssumption DEF Init, Room
<1>2. Typed /\ Room => TypeOK
  BY DEF Room, TypeOK
<1> QED BY <1>1, <1>2, TypeInvariant, NextKeepsTypes, NextKeepsRoom, PTL DEF Spec

-----------------------------------------------------------------------------
(* No connection is lost. *)

(* Where a handler has its number between m_clients and the kernel. *)
Handled ==
  /\ pc = "handshake" => fds[cur] \in {guest, "free", "foreign"}
  /\ NoConnectionLeaks

LEMMA OthersKeepHandled ==
  ASSUME Typed, Handled, PhoneStep \/ ForeignOpens \/ ForeignCloses \/ PushEnds
  PROVE  Handled'
<1> USE LoopAssumption
<1>1. CASE ForeignOpens
  BY <1>1 DEF ForeignOpens, phoneVars, tableVars, loopVars, batchVars, Typed, Handled,
              NoConnectionLeaks
<1>2. CASE ForeignCloses
  BY <1>2 DEF ForeignCloses, tableVars, loopVars, batchVars, Typed, Handled, NoConnectionLeaks
<1>3. CASE PhoneStep
  BY <1>3 DEF PhoneStep, Connects, Speaks, Leaves, kernelVars, tableVars, loopVars, Handled,
              NoConnectionLeaks
<1>4. CASE PushEnds
  BY <1>4 DEF PushEnds, kernelVars, tableVars, Handled, NoConnectionLeaks
<1> QED BY <1>1, <1>2, <1>3, <1>4

LEMMA LoopKeepsHandled ==
  ASSUME Typed, Handled, LoopStep
  PROVE  Handled'
<1> USE LoopAssumption
<1>1. CASE Wait \/ AcceptFails
  BY <1>1 DEF Wait, AcceptFails, loopVars, kernelVars, tableVars, Handled, NoConnectionLeaks
<1>2. ASSUME NEW c \in Conns, Accept(c) PROVE Handled'
  <2>1. CASE TablesFull
    BY <1>2, <2>1 DEF Accept, loopVars, tableVars, Handled, NoConnectionLeaks
  <2>2. CASE ~TablesFull
    <3>1. PICK k \in Fds : IsLowestFree(k) /\ fds' = [fds EXCEPT ![k] = c] /\ cur' = k
      BY <1>2, <2>2 DEF Accept
    <3>2. pc' = "handshake" /\ guest' = c /\ clients' = clients
      BY <1>2, <2>2 DEF Accept, tableVars
    <3>3. \A other \in Fds : fds[other] \in Conns => clients[other] = fds[other]
      BY <1>2 DEF Accept, Handled, NoConnectionLeaks
    <3> QED BY <3>1, <3>2, <3>3 DEF Typed, Handled, NoConnectionLeaks
  <2> QED BY <2>1, <2>2
<1>3. CASE HandshakeEnds
  BY <1>3 DEF HandshakeEnds, kernelVars, Typed, Handled, NoConnectionLeaks
<1>4. ASSUME NEW k \in Fds, NEW kind \in {"in", "hup"}, Dispatch(k, kind) PROVE Handled'
  BY <1>4 DEF Dispatch, loopVars, kernelVars, tableVars, Handled, NoConnectionLeaks
<1>5. ASSUME NEW c \in Conns, SessionActs(c) PROVE Handled'
  BY <1>5 DEF SessionActs, Reads, loopVars, kernelVars, Handled, NoConnectionLeaks
<1>6. ASSUME NEW c \in Conns, SessionRefuses(c) PROVE Handled'
  BY <1>6 DEF SessionRefuses, Reads, loopVars, Typed, Handled, NoConnectionLeaks
<1>7. ASSUME NEW c \in Conns, SessionPushes(c) PROVE Handled'
  BY <1>7 DEF SessionPushes, Reads, kernelVars, tableVars, Handled, NoConnectionLeaks
<1>8. ASSUME NEW c \in Conns, NEW cmd \in Commands, SessionPresses(c, cmd) PROVE Handled'
  BY <1>8 DEF SessionPresses, Reads, loopVars, kernelVars, tableVars, Handled, NoConnectionLeaks
<1>9. CASE ReadWouldBlock \/ ReadEnds
  BY <1>9 DEF ReadWouldBlock, ReadEnds, kernelVars, tableVars, Handled, NoConnectionLeaks
<1>10. CASE EraseSession
  BY <1>10 DEF EraseSession, DestroySession, Typed, Handled, NoConnectionLeaks
<1>11. CASE CloseRemoved
  BY <1>11 DEF CloseRemoved, CloseClient, Close, Typed, Handled, NoConnectionLeaks
<1> QED BY <1>1, <1>2, <1>3, <1>4, <1>5, <1>6, <1>7, <1>8, <1>9, <1>10, <1>11 DEF LoopStep

LEMMA NextKeepsHandled == Typed /\ Handled /\ [Next]_vars => Handled'
<1> SUFFICES ASSUME Typed, Handled, [Next]_vars PROVE Handled'
  OBVIOUS
<1>1. CASE UNCHANGED vars
  BY <1>1 DEF vars, kernelVars, tableVars, loopVars, Handled, NoConnectionLeaks
<1> QED BY <1>1, OthersKeepHandled, LoopKeepsHandled DEF Next

(* Every connection the process holds is in m_clients under its own number *)
(* or in the hands of the handler at work on it, even after another thread *)
(* was given a number that a session had closed: no path through accept,   *)
(* read and remove loses a descriptor.                                     *)
THEOREM ConnectionsNotLost == Spec => []NoConnectionLeaks
<1>1. Init => Handled
  BY LoopAssumption DEF Init, Handled, NoConnectionLeaks
<1>2. Handled => NoConnectionLeaks
  BY DEF Handled
<1> QED BY <1>1, <1>2, TypeInvariant, NextKeepsHandled, PTL DEF Spec

-----------------------------------------------------------------------------
(* Numbers and their owners, until a number closed by a session has been   *)
(* given out.                                                              *)

(* The other threads have what they take for theirs.                       *)
ForeignHolds == ~foreignHurt /\ \A k \in owned : fds[k] = "foreign"

(* Every session has its connection, but one that has just closed it.      *)
SessionsHold ==
  /\ \A k \in SessionFds : fds[k] = clients[k] \/ k \in selfClosed
  /\ \A k \in selfClosed :
       k = cur /\ fds[k] = "free" /\ pc \in {"reading", "removing", "closing"}

(* The handler works on a number of its own.                               *)
HandlerHolds ==
  /\ pc = "handshake" => fds[cur] = guest /\ guest \in Conns
  /\ pc \in {"reading", "pushing", "removing"} => clients[cur] # NoConn
  /\ pc = "closing" => clients[cur] = NoConn /\ (fds[cur] \in Conns \/ cur \in selfClosed)

(* So do the handlers still to be called.                                  *)
EventsOfSessions ==
  \A k \in Fds :
    /\ \A kind \in {"in", "hup"} : <<k, kind>> \in batch => k # cur /\ clients[k] # NoConn
    /\ <<k, "in">> \notin batch \/ <<k, "hup">> \notin batch

Ownership == ForeignHolds /\ SessionsHold /\ HandlerHolds /\ EventsOfSessions
Undisturbed == raced \/ Ownership

LEMMA OthersKeepOwnership ==
  ASSUME Typed, ~raced', Undisturbed, PhoneStep \/ ForeignOpens \/ ForeignCloses \/ PushEnds
  PROVE  Ownership'
<1> USE LoopAssumption
<1>1. CASE ForeignOpens
  <2>1. PICK k \in Fds : /\ fds[k] = "free" /\ fds' = [fds EXCEPT ![k] = "foreign"]
                         /\ owned' = owned \union {k} /\ k \notin selfClosed
    BY <1>1 DEF ForeignOpens, IsLowestFree
  <2>2. /\ UNCHANGED <<foreignHurt, clients, selfClosed, pc, cur, guest, batch>>
        /\ Ownership
    BY <1>1, Zenon DEF ForeignOpens, tableVars, loopVars, batchVars, Undisturbed
  <2>3. ForeignHolds'
    BY <2>1, <2>2 DEF Typed, Ownership, ForeignHolds
  <2>4. SessionsHold'
    BY <2>1, <2>2 DEF Typed, Ownership, SessionsHold, SessionFds
  <2>5. HandlerHolds'
    BY <2>1, <2>2 DEF Typed, Ownership, HandlerHolds
  <2>6. EventsOfSessions'
    BY <2>1, <2>2 DEF Ownership, EventsOfSessions
  <2> QED BY <2>3, <2>4, <2>5, <2>6 DEF Ownership
<1>2. CASE ForeignCloses
  <2>1. PICK k \in owned : fds' = [fds EXCEPT ![k] = "free"] /\ owned' = owned \ {k}
    BY <1>2 DEF ForeignCloses
  <2>2. UNCHANGED <<foreignHurt, clients, selfClosed, pc, cur, guest, batch>> /\ Ownership
    BY <1>2 DEF ForeignCloses, tableVars, loopVars, batchVars, Undisturbed
  <2>3. fds[k] = "foreign" /\ k \in Fds
    BY <2>2 DEF Typed, Ownership, ForeignHolds
  <2>4. ForeignHolds'
    BY <2>1, <2>2 DEF Typed, Ownership, ForeignHolds
  <2>5. SessionsHold'
    BY <2>1, <2>2, <2>3 DEF Typed, Ownership, SessionsHold, SessionFds
  <2>6. HandlerHolds'
    BY <2>1, <2>2, <2>3 DEF Typed, Ownership, HandlerHolds
  <2>7. EventsOfSessions'
    BY <2>2 DEF Ownership, EventsOfSessions
  <2> QED BY <2>4, <2>5, <2>6, <2>7 DEF Ownership
<1>3. CASE PhoneStep
  BY <1>3 DEF PhoneStep, Connects, Speaks, Leaves, kernelVars, tableVars, loopVars, batchVars,
              Undisturbed, Ownership, ForeignHolds, SessionsHold, SessionFds, HandlerHolds,
              EventsOfSessions
<1>4. CASE PushEnds
  BY <1>4 DEF PushEnds, kernelVars, tableVars, batchVars, Undisturbed, Ownership, ForeignHolds,
              SessionsHold, SessionFds, HandlerHolds, EventsOfSessions
<1> QED BY <1>1, <1>2, <1>3, <1>4

LEMMA ReadyEventsAreOfSessions ==
  ASSUME Typed, Handled, Ownership, pc = "dispatch",
         NEW k \in Fds, NEW kind, <<k, kind>> \in Ready
  PROVE  /\ clients[k] # NoConn
         /\ kind = IF line[fds[k]] = "reset" THEN "hup" ELSE "in"
<1>1. k # Server
  BY LoopAssumption DEF Server
<1>2. PICK n \in Fds : <<k, kind>> \in EventsOf(n)
  BY <1>1 DEF Ready
<1>3. fds[n] \in Conns /\ n = k /\ kind = IF line[fds[n]] = "reset" THEN "hup" ELSE "in"
  BY <1>2 DEF EventsOf
<1>4. clients[n] = fds[n]
  BY <1>3 DEF Handled, NoConnectionLeaks
<1> QED BY <1>3, <1>4, LoopAssumption

LEMMA LoopKeepsOwnership ==
  ASSUME Typed, Handled, Ownership, LoopStep
  PROVE  Ownership'
<1> USE LoopAssumption
<1> USE DEF Ownership
<1>1. CASE Wait
  <2>1. /\ batch' \subseteq Ready /\ pc = "dispatch"
        /\ UNCHANGED <<foreignHurt, fds, owned, clients, selfClosed, pc, cur, guest>>
    BY <1>1 DEF Wait, loopVars, kernelVars, tableVars
  <2>2. ASSUME NEW k \in Fds, NEW kind \in {"in", "hup"}, <<k, kind>> \in batch'
        PROVE  /\ k # cur' /\ clients'[k] # NoConn
               /\ kind = IF line[fds[k]] = "reset" THEN "hup" ELSE "in"
    <3>1. <<k, kind>> \in Ready
      BY <2>1, <2>2
    <3>2. clients[k] # NoConn /\ kind = IF line[fds[k]] = "reset" THEN "hup" ELSE "in"
      BY <2>1, <3>1, ReadyEventsAreOfSessions
    <3> QED BY <2>1, <3>2 DEF Typed
  <2>3. EventsOfSessions'
    BY <2>2, Zenon DEF EventsOfSessions
  <2> QED BY <2>1, <2>3 DEF ForeignHolds, SessionsHold, SessionFds, HandlerHolds
<1>2. CASE AcceptFails
  BY <1>2 DEF AcceptFails, Rest, loopVars, kernelVars, tableVars, ForeignHolds, SessionsHold,
              SessionFds, HandlerHolds, EventsOfSessions
<1>3. ASSUME NEW c \in Conns, Accept(c) PROVE Ownership'
  <2>1. /\ UNCHANGED <<foreignHurt, owned, clients, selfClosed>> /\ batch' \subseteq batch
        /\ pc = "dispatch"
    BY <1>3 DEF Accept, Rest, tableVars
  <2>2. CASE TablesFull
    BY <1>3, <2>1, <2>2 DEF Accept, loopVars, ForeignHolds, SessionsHold, SessionFds,
                            HandlerHolds, EventsOfSessions
  <2>3. CASE ~TablesFull
    <3>1. PICK k \in Fds : /\ fds[k] = "free" /\ fds' = [fds EXCEPT ![k] = c]
                           /\ cur' = k /\ pc' = "handshake" /\ guest' = c
      BY <1>3, <2>3 DEF Accept, IsLowestFree
    <3>2. selfClosed = {} /\ clients[k] = NoConn
      BY <2>1, <3>1 DEF Typed, SessionsHold, SessionFds
    <3>3. ForeignHolds' /\ SessionsHold' /\ HandlerHolds'
      BY <2>1, <3>1, <3>2 DEF Typed, ForeignHolds, SessionsHold, SessionFds, HandlerHolds
    <3>4. EventsOfSessions'
      BY <2>1, <3>1, <3>2 DEF EventsOfSessions
    <3> QED BY <3>3, <3>4
  <2> QED BY <2>2, <2>3
<1>4. CASE HandshakeEnds
  <2>1. /\ clients' = [clients EXCEPT ![cur] = guest] /\ selfClosed = {} /\ selfClosed' = {}
        /\ pc' = "dispatch" /\ cur' = NoFd /\ cur \in Fds
        /\ fds[cur] = guest /\ guest \in Conns
        /\ UNCHANGED <<foreignHurt, fds, owned, batch>>
    BY <1>4 DEF HandshakeEnds, kernelVars, batchVars, Typed, SessionsHold, HandlerHolds
  <2> QED BY <2>1 DEF Typed, ForeignHolds, SessionsHold, SessionFds, HandlerHolds,
                      EventsOfSessions
<1>5. ASSUME NEW k \in Fds, NEW kind \in {"in", "hup"}, Dispatch(k, kind) PROVE Ownership'
  <2>1. /\ clients[k] # NoConn /\ cur' = k /\ pc' \in {"removing", "reading"}
        /\ batch' = batch \ {<<k, kind>>} /\ <<k, kind>> \in batch /\ selfClosed = {}
        /\ UNCHANGED <<foreignHurt, fds, owned, clients, selfClosed, guest>>
    BY <1>5 DEF Dispatch, Rest, kernelVars, tableVars, EventsOfSessions, SessionsHold
  <2> QED BY <2>1 DEF ForeignHolds, SessionsHold, SessionFds, HandlerHolds, EventsOfSessions
<1>6. ASSUME NEW c \in Conns,
             \/ SessionActs(c) \/ SessionPushes(c)
             \/ \E cmd \in Commands : SessionPresses(c, cmd)
      PROVE  Ownership'
  <2>1. /\ pc = "reading" /\ fds[cur] = c /\ pc' \in {"reading", "pushing"}
        /\ UNCHANGED <<foreignHurt, fds, owned, clients, selfClosed, cur, guest, batch>>
    BY <1>6 DEF SessionActs, SessionPushes, SessionPresses, Reads, kernelVars, tableVars,
                loopVars, batchVars
  <2> QED BY <2>1 DEF ForeignHolds, SessionsHold, SessionFds, HandlerHolds, EventsOfSessions
<1>7. ASSUME NEW c \in Conns, SessionRefuses(c) PROVE Ownership'
  <2>1. /\ pc = "reading" /\ fds[cur] = c /\ fds' = [fds EXCEPT ![cur] = "free"]
        /\ selfClosed' = selfClosed \union {cur}
        /\ UNCHANGED <<foreignHurt, owned, clients, pc, cur, guest, batch>>
    BY <1>7 DEF SessionRefuses, Reads, loopVars, batchVars
  <2>2. cur \in Fds /\ cur \notin owned
    BY <2>1 DEF Typed, ForeignHolds
  <2> QED BY <2>1, <2>2 DEF Typed, ForeignHolds, SessionsHold, SessionFds, HandlerHolds,
                            EventsOfSessions
<1>8. CASE ReadWouldBlock \/ ReadEnds
  <2>1. /\ pc = "reading"
        /\ UNCHANGED <<foreignHurt, fds, owned, clients, selfClosed, guest, batch>>
        /\ \/ pc' = "removing" /\ cur' = cur
           \/ pc' = "dispatch" /\ cur' = NoFd /\ fds[cur] # "free"
    BY <1>8 DEF ReadWouldBlock, ReadEnds, kernelVars, tableVars, batchVars
  <2> QED BY <2>1 DEF ForeignHolds, SessionsHold, SessionFds, HandlerHolds, EventsOfSessions
<1>9. CASE EraseSession
  <2>1. /\ pc = "removing" /\ pc' = "closing" /\ cur \in Fds
        /\ clients' = [clients EXCEPT ![cur] = NoConn]
        /\ UNCHANGED <<foreignHurt, fds, owned, selfClosed, cur, guest, batch>>
    BY <1>9 DEF EraseSession, DestroySession, batchVars, Typed
  <2>2. fds[cur] \in Conns \/ cur \in selfClosed
    BY <2>1 DEF Typed, HandlerHolds, SessionsHold, SessionFds
  <2> QED BY <2>1, <2>2 DEF Typed, ForeignHolds, SessionsHold, SessionFds, HandlerHolds,
                            EventsOfSessions
<1>10. CASE CloseRemoved
  <2>1. /\ pc = "closing" /\ pc' = "dispatch" /\ cur \in Fds /\ cur' = NoFd
        /\ fds' = [fds EXCEPT ![cur] = "free"] /\ selfClosed' = selfClosed \ {cur}
        /\ UNCHANGED <<owned, clients, guest, batch>>
    BY <1>10 DEF CloseRemoved, CloseClient, Close, batchVars, Typed
  <2>2. fds[cur] # "foreign" /\ cur \notin owned /\ selfClosed' = {} /\ clients[cur] = NoConn
    BY <2>1 DEF HandlerHolds, SessionsHold, ForeignHolds
  <2>3. ~foreignHurt'
    BY <1>10, <2>2, Zenon DEF CloseRemoved, CloseClient, Close, ForeignHolds
  <2> QED BY <2>1, <2>2, <2>3 DEF Typed, ForeignHolds, SessionsHold, SessionFds, HandlerHolds,
                                  EventsOfSessions
<1> QED BY <1>1, <1>2, <1>3, <1>4, <1>5, <1>6, <1>7, <1>8, <1>9, <1>10 DEF LoopStep

LEMMA RaceIsRemembered ==
  ASSUME [Next]_vars, raced
  PROVE  raced'
BY Zenon DEF Next, LoopStep, Wait, AcceptFails, HandshakeEnds, Accept, SessionActs, SessionRefuses,
       SessionPushes, SessionPresses, Dispatch, ReadWouldBlock, ReadEnds, EraseSession,
       CloseRemoved, PushEnds, PhoneStep, Connects, Speaks, Leaves, ForeignOpens,
       ForeignCloses, vars

LEMMA NextKeepsUndisturbed == Typed /\ Handled /\ Undisturbed /\ [Next]_vars => Undisturbed'
<1> SUFFICES ASSUME Typed, Handled, Undisturbed, [Next]_vars, ~raced' PROVE Ownership'
  BY DEF Undisturbed
<1>1. Ownership
  BY RaceIsRemembered DEF Undisturbed
<1>2. CASE UNCHANGED vars
  BY <1>1, <1>2 DEF vars, kernelVars, tableVars, loopVars, batchVars, Ownership, ForeignHolds,
                    SessionsHold, SessionFds, HandlerHolds, EventsOfSessions
<1> QED BY <1>1, <1>2, OthersKeepOwnership, LoopKeepsOwnership DEF Next

LEMMA OwnershipInvariant == Spec => []Undisturbed
<1>1. Init => Undisturbed
  BY LoopAssumption DEF Init, Undisturbed, Ownership, ForeignHolds, SessionsHold, SessionFds,
         HandlerHolds, EventsOfSessions
<1>2. Init => Handled
  BY LoopAssumption DEF Init, Handled, NoConnectionLeaks
<1> QED BY <1>1, <1>2, TypeInvariant, NextKeepsHandled, NextKeepsUndisturbed, PTL DEF Spec

(* The loop closes no descriptor of another thread, for any number of      *)
(* phones and numbers, unless a thread was given one between a session's   *)
(* own close and removeClient's.                                           *)
THEOREM OthersUnhurt == Spec => []ForeignUnhurt
<1>1. Undisturbed => ForeignUnhurt
  BY DEF Undisturbed, Ownership, ForeignHolds, ForeignUnhurt
<1> QED BY <1>1, OwnershipInvariant, PTL

(* Until then m_clients and the descriptor table agree.                    *)
THEOREM SessionsKeepTheirNumber == Spec => []SessionsOwnTheirNumber
<1>1. Undisturbed => SessionsOwnTheirNumber
  BY DEF Undisturbed, Ownership, SessionsHold, SessionsOwnTheirNumber
<1> QED BY <1>1, OwnershipInvariant, PTL
-----------------------------------------------------------------------------
(* The keys.  What a sequence of events does to the devices is a fold over *)
(* it, and what a text emits another; both are followed element by element *)
(* with the induction below.                                               *)

LEMMA Inductive ==
  ASSUME NEW P, 0 \in P, \A n \in Nat : n \in P => n + 1 \in P
  PROVE  \A n \in Nat : n \in P
<1> DEFINE T == {n \in Nat : n \notin P}
           R == {pair \in Nat \X Nat : pair[1] < pair[2]}
<1> SUFFICES ASSUME T # {} PROVE FALSE
  OBVIOUS
<1>1. IsWellFoundedOn(R, Nat)
  <2>1. R = OpToRel(<, Nat)
    BY Zenon DEF OpToRel
  <2> QED BY <2>1, NatLessThanWellFounded, Zenon
<1>2. T \subseteq Nat
  OBVIOUS
<1> HIDE DEF R
<1>3. PICK n \in T : \A m \in T : ~(<<m, n>> \in R)
  <2> HIDE DEF T
  <2> QED BY <1>1, <1>2, WFMin
<1>4. n \in Nat /\ n \notin P /\ n # 0
  OBVIOUS
<1>5. n - 1 \in Nat /\ (n - 1) + 1 = n
  BY <1>4
<1>6. n - 1 \in T
  BY <1>4, <1>5
<1>7. <<n - 1, n>> \in R
  BY <1>4, <1>5 DEF R
<1> QED BY <1>3, <1>6, <1>7

(* The devices after each event.                                           *)
LEMMA FoldIs ==
  ASSUME NEW E, NEW events \in Seq(E), NEW h
  PROVE  \E r : /\ r[0] = h
                /\ \A i \in 1 .. Len(events) : r[i] = Apply(r[i - 1], events[i])
                /\ FoldLeft(Apply, h, events) = r[Len(events)]
<1> DEFINE N == Len(events)
           Body(g, s) == IF s = {} THEN h ELSE Apply(g[s \ {Max(s)}], events[Max(s)])
           Defined(n) == \E g : g = [s \in SUBSET (1 .. n) |-> Body(g, s)]
           P == {n \in Nat : Defined(n)}
           iter == CHOOSE g : g = [s \in SUBSET (1 .. N) |-> Body(g, s)]
<1>1. N \in Nat /\ DOMAIN events = 1 .. N
  BY LenProperties
<1>2. FoldLeft(Apply, h, events) = iter[1 .. N]
  BY <1>1 DEF FoldLeft, MapThenFoldSet
<1>3. 0 \in P
  <2> DEFINE g == [s \in SUBSET (1 .. 0) |-> h]
  <2>1. \A s \in SUBSET (1 .. 0) : s = {}
    OBVIOUS
  <2>2. g = [s \in SUBSET (1 .. 0) |-> Body(g, s)]
    BY <2>1
  <2> HIDE DEF g
  <2> QED BY <2>2
<1>4. ASSUME NEW n \in Nat, n \in P PROVE n + 1 \in P
  <2>1. PICK g : g = [s \in SUBSET (1 .. n) |-> Body(g, s)]
    BY <1>4
  <2> DEFINE f == [s \in SUBSET (1 .. n + 1) |->
                     IF n + 1 \in s THEN Apply(g[s \ {n + 1}], events[n + 1]) ELSE g[s]]
  <2>2. ASSUME NEW s \in SUBSET (1 .. n + 1) PROVE f[s] = Body(f, s)
    <3>1. CASE n + 1 \in s
      <4>1. Max(s) = n + 1
        <5>1. \A y \in s : n + 1 >= y
          OBVIOUS
        <5>2. \A x \in s : (\A y \in s : x >= y) => x = n + 1
          BY <3>1
        <5> QED BY <3>1, <5>1, <5>2 DEF Max
      <4>2. s \ {n + 1} \in SUBSET (1 .. n + 1) /\ n + 1 \notin s \ {n + 1} /\ s # {}
        BY <3>1
      <4>3. f[s \ {n + 1}] = g[s \ {n + 1}]
        BY <4>2
      <4>4. f[s] = Apply(g[s \ {n + 1}], events[n + 1])
        BY <3>1
      <4> HIDE DEF f
      <4> QED BY <4>1, <4>2, <4>3, <4>4
    <3>2. CASE n + 1 \notin s
      <4>1. s \in SUBSET (1 .. n)
        BY <3>2
      <4>2. f[s] = Body(g, s)
        BY <2>1, <3>2, <4>1
      <4>3. f[s \ {Max(s)}] = g[s \ {Max(s)}]
        BY <3>2
      <4> HIDE DEF f
      <4> QED BY <4>2, <4>3
    <3> QED BY <3>1, <3>2
  <2>3. f = [s \in SUBSET (1 .. n + 1) |-> f[s]]
    OBVIOUS
  <2>4. f = [s \in SUBSET (1 .. n + 1) |-> Body(f, s)]
    <3> HIDE DEF f
    <3> QED BY <2>2, <2>3
  <2> HIDE DEF f
  <2>5. Defined(n + 1)
    BY <2>4
  <2>6. n + 1 \in Nat
    OBVIOUS
  <2> HIDE DEF Defined
  <2> QED BY <2>5, <2>6
<1>5. N \in P
  <2> HIDE DEF P, N
  <2> QED BY <1>1, <1>3, <1>4, Inductive
<1>6. iter = [s \in SUBSET (1 .. N) |-> Body(iter, s)]
  BY <1>5
<1> HIDE DEF iter
<1> DEFINE r == [i \in 0 .. N |-> iter[1 .. i]]
<1>7. r[0] = h
  <2>1. 1 .. 0 = {} /\ {} \in SUBSET (1 .. N) /\ 0 \in 0 .. N
    BY <1>1
  <2>2. iter[{}] = h
    BY <1>6, <2>1
  <2> QED BY <2>1, <2>2
<1>8. ASSUME NEW i \in 1 .. N PROVE r[i] = Apply(r[i - 1], events[i])
  <2>1. /\ i \in 0 .. N /\ i - 1 \in 0 .. N /\ 1 .. i \in SUBSET (1 .. N) /\ 1 .. i # {}
        /\ (1 .. i) \ {i} = 1 .. i - 1 /\ i \in Nat
    <3>1. i \in Nat \ {0} /\ i <= N /\ N \in Nat
      BY <1>1
    <3> HIDE DEF N
    <3>2. i \in 0 .. N /\ i - 1 \in 0 .. N /\ 1 .. i \in SUBSET (1 .. N)
      BY <3>1
    <3>3. 1 .. i # {}
      BY <3>1, 1 \in 1 .. i
    <3>4. (1 .. i) \ {i} = 1 .. i - 1
      BY <3>1
    <3> QED BY <3>1, <3>2, <3>3, <3>4
  <2>2. Max(1 .. i) = i
    <3>1. i \in 1 .. i /\ \A y \in 1 .. i : i >= y
      BY <2>1
    <3>2. \A x \in 1 .. i : (\A y \in 1 .. i : x >= y) => x = i
      BY <3>1
    <3> QED BY <3>1, <3>2 DEF Max
  <2>3. iter[1 .. i] = Body(iter, 1 .. i)
    BY <1>6, <2>1
  <2>4. iter[1 .. i] = Apply(iter[1 .. i - 1], events[i])
    BY <2>1, <2>2, <2>3
  <2> QED BY <2>1, <2>4
<1>9. r[N] = iter[1 .. N]
  BY <1>1
<1> HIDE DEF r
<1> QED BY <1>2, <1>7, <1>8, <1>9
(* The sequences joined so far.                                            *)
LEMMA FlattenIs ==
  ASSUME NEW E, NEW seqs \in Seq(E), Len(seqs) # 0
  PROVE  \E r : /\ r[1] = seqs[1]
                /\ \A i \in 2 .. Len(seqs) : r[i] = r[i - 1] \o seqs[i]
                /\ FlattenSeq(seqs) = r[Len(seqs)]
<1> DEFINE N == Len(seqs)
           Body(g, i) == IF i = 1 THEN seqs[i] ELSE g[i - 1] \o seqs[i]
           Defined(n) == \E g : g = [i \in 1 .. n |-> Body(g, i)]
           P == {n \in Nat : Defined(n)}
           flatten == CHOOSE g : g = [i \in 1 .. N |-> Body(g, i)]
<1>1. N \in Nat \ {0}
  BY LenProperties
<1>2. FlattenSeq(seqs) = flatten[N]
  BY DEF FlattenSeq
<1>3. 0 \in P
  <2> DEFINE g == [i \in 1 .. 0 |-> seqs[1]]
  <2>1. g = [i \in 1 .. 0 |-> Body(g, i)]
    OBVIOUS
  <2> HIDE DEF g
  <2>2. Defined(0)
    BY <2>1
  <2> HIDE DEF Defined
  <2> QED BY <2>2
<1>4. ASSUME NEW n \in Nat, n \in P PROVE n + 1 \in P
  <2>1. PICK g : g = [i \in 1 .. n |-> Body(g, i)]
    BY <1>4
  <2> DEFINE f == [i \in 1 .. n + 1 |-> IF i = n + 1 THEN Body(g, n + 1) ELSE g[i]]
  <2>2. ASSUME NEW i \in 1 .. n + 1 PROVE f[i] = Body(f, i)
    <3>1. CASE i = n + 1
      <4>1. i # 1 => i - 1 \in 1 .. n + 1 /\ i - 1 # n + 1
        BY <3>1
      <4>2. i # 1 => f[i - 1] = g[i - 1]
        BY <4>1
      <4>3. f[i] = Body(g, i)
        BY <3>1
      <4> HIDE DEF f
      <4> QED BY <4>2, <4>3
    <3>2. CASE i # n + 1
      <4>1. i \in 1 .. n /\ (i # 1 => i - 1 \in 1 .. n + 1 /\ i - 1 # n + 1)
        BY <3>2
      <4>2. f[i] = Body(g, i)
        BY <2>1, <3>2, <4>1
      <4>3. i # 1 => f[i - 1] = g[i - 1]
        BY <4>1
      <4> HIDE DEF f
      <4> QED BY <4>2, <4>3
    <3> QED BY <3>1, <3>2
  <2>3. f = [i \in 1 .. n + 1 |-> f[i]]
    OBVIOUS
  <2>4. f = [i \in 1 .. n + 1 |-> Body(f, i)]
    <3> HIDE DEF f
    <3> QED BY <2>2, <2>3
  <2> HIDE DEF f
  <2>5. Defined(n + 1)
    BY <2>4
  <2>6. n + 1 \in Nat
    OBVIOUS
  <2> HIDE DEF Defined
  <2> QED BY <2>5, <2>6
<1>5. N \in P
  <2> HIDE DEF P, N
  <2> QED BY <1>1, <1>3, <1>4, Inductive
<1>6. flatten = [i \in 1 .. N |-> Body(flatten, i)]
  BY <1>5
<1> HIDE DEF flatten
<1>7. flatten[1] = seqs[1]
  <2>1. 1 \in 1 .. N
    BY <1>1
  <2> QED BY <1>6, <2>1
<1>8. ASSUME NEW i \in 2 .. N PROVE flatten[i] = flatten[i - 1] \o seqs[i]
  <2>1. i \in 1 .. N /\ i # 1
    BY <1>1
  <2> QED BY <1>6, <2>1
<1> QED BY <1>2, <1>7, <1>8

(* What the daemon emits for keys: no button is touched, and a key that    *)
(* goes down comes up again.                                               *)
Codes ==
  Buttons \union {Shift} \union {AsciiMap[character].code : character \in DOMAIN AsciiMap}
          \union {KeyCode[name] : name \in DOMAIN KeyCode}
KeyEvents == Codes \X {"down", "up"}

LetsGo(events) ==
  /\ events \in Seq(KeyEvents)
  /\ \A i \in 1 .. Len(events) : events[i][1] \notin Buttons
  /\ \A i \in 1 .. Len(events) :
       events[i][2] = "down" => \E j \in i + 1 .. Len(events) : events[j] = Up(events[i][1])

LEMMA NothingLetsGo == LetsGo(<< >>)
<1>1. << >> \in Seq(KeyEvents) /\ 1 .. Len(<< >>) = {}
  BY EmptySeq
<1> QED BY <1>1 DEF LetsGo

LEMMA BothLetGo ==
  ASSUME NEW r, NEW s, LetsGo(r), LetsGo(s)
  PROVE  LetsGo(r \o s)
<1> DEFINE u == r \o s
<1>1. r \in Seq(KeyEvents) /\ s \in Seq(KeyEvents)
  BY DEF LetsGo
<1>2. /\ Len(r) \in Nat /\ Len(s) \in Nat /\ u \in Seq(KeyEvents)
      /\ Len(u) = Len(r) + Len(s)
      /\ \A i \in 1 .. Len(r) + Len(s) : u[i] = IF i <= Len(r) THEN r[i] ELSE s[i - Len(r)]
  BY <1>1, ConcatProperties, LenProperties
<1> HIDE DEF u
<1>3. ASSUME NEW i \in 1 .. Len(r) PROVE i \in 1 .. Len(u) /\ u[i] = r[i]
  BY <1>2
<1>4. ASSUME NEW i \in 1 .. Len(s) PROVE Len(r) + i \in 1 .. Len(u) /\ u[Len(r) + i] = s[i]
  <2>1. Len(r) + i \in 1 .. Len(r) + Len(s) /\ ~(Len(r) + i <= Len(r)) /\ (Len(r) + i) - Len(r) = i
    BY <1>2
  <2> QED BY <1>2, <2>1
<1>5. ASSUME NEW i \in 1 .. Len(u)
      PROVE  i \in 1 .. Len(r) \/ (i - Len(r) \in 1 .. Len(s) /\ Len(r) + (i - Len(r)) = i)
  BY <1>2
<1>6. ASSUME NEW i \in 1 .. Len(u) PROVE u[i][1] \notin Buttons
  <2>1. CASE i \in 1 .. Len(r)
    BY <1>3, <2>1 DEF LetsGo
  <2>2. CASE i - Len(r) \in 1 .. Len(s) /\ Len(r) + (i - Len(r)) = i
    <3>1. u[i] = s[i - Len(r)]
      BY <1>4, <2>2
    <3> QED BY <2>2, <3>1 DEF LetsGo
  <2> QED BY <1>5, <2>1, <2>2
<1>7. ASSUME NEW i \in 1 .. Len(u), u[i][2] = "down"
      PROVE  \E j \in i + 1 .. Len(u) : u[j] = Up(u[i][1])
  <2>1. CASE i \in 1 .. Len(r)
    <3>1. PICK j \in i + 1 .. Len(r) : r[j] = Up(r[i][1])
      BY <1>3, <1>7, <2>1 DEF LetsGo
    <3>2. j \in 1 .. Len(r) /\ j \in i + 1 .. Len(u)
      BY <1>2, <2>1, <3>1
    <3> QED BY <1>3, <2>1, <3>1, <3>2
  <2>2. CASE i - Len(r) \in 1 .. Len(s) /\ Len(r) + (i - Len(r)) = i
    <3> DEFINE k == i - Len(r)
    <3>1. u[i] = s[k] /\ k \in 1 .. Len(s)
      BY <1>4, <2>2
    <3>2. PICK j \in k + 1 .. Len(s) : s[j] = Up(s[k][1])
      <4> HIDE DEF k
      <4> QED BY <1>7, <3>1 DEF LetsGo
    <3>3. j \in 1 .. Len(s) /\ Len(r) + j \in i + 1 .. Len(u)
      BY <1>2, <3>1, <3>2
    <3>4. u[Len(r) + j] = s[j]
      BY <1>4, <3>3
    <3> HIDE DEF k
    <3> QED BY <3>1, <3>2, <3>3, <3>4
  <2> QED BY <1>5, <2>1, <2>2
<1> QED BY <1>2, <1>6, <1>7 DEF LetsGo, u

LEMMA StrikeLetsGo ==
  ASSUME NEW code \in Codes, code \notin Buttons
  PROVE  LetsGo(Strike(code))
<1>1. Down(code) \in KeyEvents /\ Up(code) \in KeyEvents
  BY DEF Down, Up, KeyEvents
<1>2. /\ Strike(code) \in Seq(KeyEvents) /\ Len(Strike(code)) = 2
      /\ Strike(code)[1] = Down(code) /\ Strike(code)[2] = Up(code)
  BY <1>1 DEF Strike
<1>3. \A i \in 1 .. 2 : i = 1 \/ i = 2
  OBVIOUS
<1>4. Down(code)[1] = code /\ Up(code)[1] = code /\ Up(code)[2] # "down"
  BY DEF Down, Up
<1>5. 2 \in 1 + 1 .. 2
  OBVIOUS
<1> HIDE DEF Strike, Down, Up
<1> QED BY <1>2, <1>3, <1>4, <1>5 DEF LetsGo

LEMMA Surrounded ==
  ASSUME NEW E, NEW a \in E, NEW b \in E, NEW c \in E, NEW d \in E
  PROVE  LET e == (<<a>> \o <<b, c>>) \o <<d>> IN
           e \in Seq(E) /\ Len(e) = 4 /\ e[1] = a /\ e[2] = b /\ e[3] = c /\ e[4] = d
<1> DEFINE f == <<a>> \o <<b, c>>
<1>1. <<a>> \in Seq(E) /\ <<b, c>> \in Seq(E) /\ <<d>> \in Seq(E)
  OBVIOUS
<1>2. f \in Seq(E) /\ Len(f) = 3 /\ f[1] = a /\ f[2] = b /\ f[3] = c
  OBVIOUS
<1> HIDE DEF f
<1> DEFINE last == <<d>>
<1>3. last \in Seq(E) /\ Len(last) = 1 /\ last[1] = d
  OBVIOUS
<1>4. /\ f \o last \in Seq(E) /\ Len(f \o last) = 3 + 1
      /\ \A i \in 1 .. 3 + 1 : (f \o last)[i] = IF i <= 3 THEN f[i] ELSE last[i - 3]
  <2> HIDE DEF last
  <2>1. /\ f \o last \in Seq(E) /\ Len(f \o last) = Len(f) + Len(last)
        /\ \A i \in 1 .. Len(f) + Len(last) :
             (f \o last)[i] = IF i <= Len(f) THEN f[i] ELSE last[i - Len(f)]
    BY <1>2, <1>3, ConcatProperties
  <2> QED BY <1>2, <1>3, <2>1
<1> HIDE DEF last
<1>5. /\ f \o last \in Seq(E) /\ Len(f \o last) = 4
      /\ (f \o last)[1] = a /\ (f \o last)[2] = b /\ (f \o last)[3] = c /\ (f \o last)[4] = d
  BY <1>2, <1>3, <1>4
<1> QED BY <1>5 DEF f, last

LEMMA TypeKeyCodeLetsGo ==
  ASSUME NEW character \in DOMAIN AsciiMap
  PROVE  LetsGo(TypeKeyCode(AsciiMap[character]))
<1> DEFINE code == AsciiMap[character].code
           strike == Strike(code)
           e == (<<Down(Shift)>> \o strike) \o <<Up(Shift)>>
<1>1. code \in Codes /\ code \notin Buttons /\ Shift \in Codes /\ Shift \notin Buttons
  BY KeyAssumption DEF Codes
<1>2. LetsGo(strike)
  <2> HIDE DEF code
  <2> QED BY <1>1, StrikeLetsGo
<1>3. LetsGo(e)
  <2>1. /\ Down(Shift) \in KeyEvents /\ Up(Shift) \in KeyEvents
        /\ Down(code) \in KeyEvents /\ Up(code) \in KeyEvents
    <3> HIDE DEF code
    <3> QED BY <1>1 DEF Down, Up, KeyEvents
  <2> HIDE DEF code
  <2>2. e = (<<Down(Shift)>> \o <<Down(code), Up(code)>>) \o <<Up(Shift)>>
    BY DEF Strike
  <2>3. /\ e \in Seq(KeyEvents) /\ Len(e) = 4
        /\ e[1] = Down(Shift) /\ e[2] = Down(code) /\ e[3] = Up(code) /\ e[4] = Up(Shift)
    <3> HIDE DEF e, Down, Up
    <3> QED BY <2>1, <2>2, Surrounded
  <2> HIDE DEF e
  <2>4. \A i \in 1 .. 4 : i = 1 \/ i = 2 \/ i = 3 \/ i = 4
    OBVIOUS
  <2>5. \A c : Down(c)[1] = c /\ Up(c)[1] = c /\ Up(c)[2] # "down"
    BY DEF Down, Up
  <2>6. 4 \in 1 + 1 .. 4 /\ 3 \in 2 + 1 .. 4
    OBVIOUS
  <2>7. \A i \in 1 .. 4 : e[i][1] \notin Buttons
    BY <1>1, <2>3, <2>4, <2>5
  <2>8. ASSUME NEW i \in 1 .. 4, e[i][2] = "down"
        PROVE  \E j \in i + 1 .. 4 : e[j] = Up(e[i][1])
    <3>1. i = 1 \/ i = 2
      BY <2>3, <2>4, <2>5, <2>8
    <3> HIDE DEF Down, Up
    <3> QED BY <2>3, <2>5, <2>6, <3>1
  <2> QED BY <2>3, <2>7, <2>8 DEF LetsGo
<1> QED BY <1>2, <1>3 DEF TypeKeyCode
LEMMA TypeTextLetsGo ==
  ASSUME NEW text \in Seq(STRING)
  PROVE  LetsGo(TypeText(text))
<1> DEFINE struck == [i \in DOMAIN text |->
                        IF text[i] \in DOMAIN AsciiMap THEN TypeKeyCode(AsciiMap[text[i]]) ELSE << >>]
<1>1. Len(text) \in Nat /\ DOMAIN text = 1 .. Len(text)
  BY LenProperties
<1>2. ASSUME NEW i \in 1 .. Len(text) PROVE LetsGo(struck[i])
  <2>1. CASE text[i] \in DOMAIN AsciiMap
    <3>1. struck[i] = TypeKeyCode(AsciiMap[text[i]])
      BY <1>1, <2>1
    <3> HIDE DEF struck
    <3> QED BY <2>1, <3>1, TypeKeyCodeLetsGo
  <2>2. CASE text[i] \notin DOMAIN AsciiMap
    <3>1. struck[i] = << >>
      BY <1>1, <2>2
    <3> HIDE DEF struck
    <3> QED BY <3>1, NothingLetsGo
  <2> QED BY <2>1, <2>2
<1>3. struck = [i \in 1 .. Len(text) |-> struck[i]]
  BY <1>1
<1>4. TypeText(text) = FlattenSeq(struck)
  BY DEF TypeText
<1> HIDE DEF struck
<1>5. \A i \in 1 .. Len(text) : struck[i] \in Seq(KeyEvents)
  BY <1>2 DEF LetsGo
<1>6. struck \in [1 .. Len(text) -> Seq(KeyEvents)]
  BY <1>3, <1>5
<1>7. struck \in Seq(Seq(KeyEvents)) /\ Len(struck) = Len(text)
  BY <1>1, <1>6
<1>8. CASE Len(text) = 0
  <2>1. FlattenSeq(struck) = struck
    BY <1>7, <1>8 DEF FlattenSeq
  <2>2. struck = << >>
    BY <1>7, <1>8, EmptySeq
  <2> QED BY <1>4, <2>1, <2>2, NothingLetsGo
<1>9. CASE Len(text) # 0
  <2>1. PICK r : /\ r[1] = struck[1]
                 /\ \A i \in 2 .. Len(struck) : r[i] = r[i - 1] \o struck[i]
                 /\ FlattenSeq(struck) = r[Len(struck)]
    BY <1>7, <1>9, FlattenIs
  <2> DEFINE P == {n \in Nat : n \in 1 .. Len(text) => LetsGo(r[n])}
  <2>2. 0 \in P
    OBVIOUS
  <2>3. ASSUME NEW n \in Nat, n \in P PROVE n + 1 \in P
    <3> SUFFICES ASSUME n + 1 \in 1 .. Len(text) PROVE LetsGo(r[n + 1])
      OBVIOUS
    <3>1. CASE n = 0
      <4>1. n + 1 = 1 /\ 1 \in 1 .. Len(text)
        BY <3>1
      <4> QED BY <1>2, <2>1, <4>1
    <3>2. CASE n # 0
      <4>1. n \in 1 .. Len(text) /\ n + 1 \in 2 .. Len(text) /\ (n + 1) - 1 = n
        BY <1>1, <3>2
      <4>2. LetsGo(r[n]) /\ LetsGo(struck[n + 1])
        BY <1>2, <2>3, <4>1
      <4>3. r[n + 1] = r[n] \o struck[n + 1]
        BY <1>7, <2>1, <4>1
      <4> QED BY <4>2, <4>3, BothLetGo
    <3> QED BY <3>1, <3>2
  <2>4. Len(text) \in P
    <3> HIDE DEF P
    <3> QED BY <1>1, <2>2, <2>3, Inductive
  <2>5. LetsGo(r[Len(text)])
    BY <1>1, <1>9, <2>4
  <2> QED BY <1>4, <1>7, <2>1, <2>5
<1> QED BY <1>8, <1>9

LEMMA PressKeyLetsGo ==
  ASSUME NEW name PROVE LetsGo(PressKey(name))
<1>1. CASE name \in DOMAIN KeyCode
  <2>1. KeyCode[name] \in Codes /\ KeyCode[name] \notin Buttons
    BY <1>1, KeyAssumption DEF Codes
  <2> QED BY <1>1, <2>1, StrikeLetsGo DEF PressKey
<1>2. CASE name \notin DOMAIN KeyCode
  BY <1>2, NothingLetsGo DEF PressKey
<1> QED BY <1>1, <1>2

(* Such events leave the devices as they were.                             *)
LEMMA LettingGo ==
  ASSUME NEW events, LetsGo(events), NEW h \in SUBSET Buttons
  PROVE  FoldLeft(Apply, h, events) = h
<1> DEFINE N == Len(events)
<1>1. events \in Seq(KeyEvents) /\ N \in Nat
  BY LenProperties DEF LetsGo
<1>2. PICK r : /\ r[0] = h
               /\ \A i \in 1 .. N : r[i] = Apply(r[i - 1], events[i])
               /\ FoldLeft(Apply, h, events) = r[N]
  BY <1>1, FoldIs
<1> DEFINE Struck(k, n) ==
             \E j \in 1 .. n : events[j] = Down(k) /\ \A l \in j + 1 .. n : events[l] # Up(k)
           Right(n) == \A k : /\ k \in Buttons => (k \in r[n] <=> k \in h)
                              /\ k \notin Buttons /\ k \in r[n] => Struck(k, n)
           P == {n \in Nat : n <= N => Right(n)}
<1>3. 0 \in P
  <2>1. Right(0)
    BY <1>2
  <2> HIDE DEF Right
  <2> QED BY <2>1
<1>4. ASSUME NEW n \in Nat, n \in P PROVE n + 1 \in P
  <2> SUFFICES ASSUME n + 1 <= N PROVE Right(n + 1)
    <3> HIDE DEF Right
    <3> QED OBVIOUS
  <2>1. n + 1 \in 1 .. N /\ (n + 1) - 1 = n /\ n <= N
    BY <1>1
  <2>2. Right(n)
    <3> HIDE DEF Right
    <3> QED BY <1>4, <2>1
  <2>3. r[n + 1] = Apply(r[n], events[n + 1])
    BY <1>2, <2>1
  <2>4. /\ events[n + 1] \in KeyEvents /\ events[n + 1][1] \notin Buttons
    BY <1>1, <2>1 DEF LetsGo
  <2> SUFFICES ASSUME NEW k
               PROVE  /\ k \in Buttons => (k \in r[n + 1] <=> k \in h)
                      /\ k \notin Buttons /\ k \in r[n + 1] => Struck(k, n + 1)
    OBVIOUS
  <2>5. PICK code \in Codes, way \in {"down", "up"} : events[n + 1] = <<code, way>>
    BY <2>4 DEF KeyEvents
  <2>6. code \notin Buttons
    BY <2>4, <2>5
  <2>7. r[n + 1] = IF way = "down" THEN r[n] \union {code} ELSE r[n] \ {code}
    BY <2>3, <2>5 DEF Apply
  <2>8. k \in Buttons => (k \in r[n + 1] <=> k \in h)
    BY <2>2, <2>6, <2>7
  <2>9. ASSUME k \notin Buttons, k \in r[n + 1] PROVE Struck(k, n + 1)
    <3>1. CASE way = "down" /\ k = code
      <4>1. events[n + 1] = Down(k)
        BY <2>5, <3>1 DEF Down
      <4>2. n + 1 \in 1 .. n + 1 /\ (n + 1) + 1 .. n + 1 = {}
        OBVIOUS
      <4> QED BY <4>1, <4>2
    <3>2. CASE ~(way = "down" /\ k = code)
      <4>1. k \in r[n] /\ events[n + 1] # Up(k)
        BY <2>5, <2>7, <2>9, <3>2 DEF Up
      <4>2. PICK j \in 1 .. n : events[j] = Down(k) /\ \A l \in j + 1 .. n : events[l] # Up(k)
        BY <2>2, <2>9, <4>1
      <4>3. j \in 1 .. n + 1 /\ \A l \in j + 1 .. n + 1 : l \in j + 1 .. n \/ l = n + 1
        OBVIOUS
      <4>4. \A l \in j + 1 .. n + 1 : events[l] # Up(k)
        BY <4>1, <4>2, <4>3
      <4> QED BY <4>2, <4>3, <4>4
    <3> QED BY <3>1, <3>2
  <2> HIDE DEF Struck
  <2> QED BY <2>8, <2>9
<1>5. Right(N)
  <2>1. N \in P
    <3> HIDE DEF P, N
    <3> QED BY <1>1, <1>3, <1>4, Inductive
  <2> HIDE DEF Right
  <2> QED BY <1>1, <2>1
<1>6. ASSUME NEW k, k \in r[N] PROVE k \in Buttons
  <2> SUFFICES ASSUME k \notin Buttons PROVE FALSE
    OBVIOUS
  <2>1. PICK j \in 1 .. N : events[j] = Down(k) /\ \A l \in j + 1 .. N : events[l] # Up(k)
    BY <1>5, <1>6
  <2>2. events[j][1] = k /\ events[j][2] = "down"
    BY <2>1 DEF Down
  <2>3. \E l \in j + 1 .. N : events[l] = Up(k)
    BY <2>2 DEF LetsGo
  <2> QED BY <2>1, <2>3
<1>7. r[N] = h
  <2>1. \A k : k \in r[N] <=> k \in h
    BY <1>5, <1>6
  <2> QED BY <2>1
<1> QED BY <1>2, <1>7
LEMMA FoldOne ==
  ASSUME NEW e, NEW h PROVE FoldLeft(Apply, h, <<e>>) = Apply(h, e)
<1> DEFINE s == <<e>>
<1>1. s \in Seq({e}) /\ Len(s) = 1 /\ s[1] = e
  OBVIOUS
<1> HIDE DEF s
<1>2. PICK r : /\ r[0] = h
               /\ \A i \in 1 .. Len(s) : r[i] = Apply(r[i - 1], s[i])
               /\ FoldLeft(Apply, h, s) = r[Len(s)]
  BY <1>1, FoldIs
<1>3. r[1] = Apply(r[0], e)
  BY <1>1, <1>2, 1 \in 1 .. 1, 1 - 1 = 0
<1> QED BY <1>1, <1>2, <1>3 DEF s

LEMMA FoldTwo ==
  ASSUME NEW e, NEW f, NEW h PROVE FoldLeft(Apply, h, <<e, f>>) = Apply(Apply(h, e), f)
<1> DEFINE s == <<e, f>>
<1>1. s \in Seq({e, f}) /\ Len(s) = 2 /\ s[1] = e /\ s[2] = f
  OBVIOUS
<1> HIDE DEF s
<1>2. PICK r : /\ r[0] = h
               /\ \A i \in 1 .. Len(s) : r[i] = Apply(r[i - 1], s[i])
               /\ FoldLeft(Apply, h, s) = r[Len(s)]
  BY <1>1, FoldIs
<1>3. r[1] = Apply(r[0], e)
  BY <1>1, <1>2, 1 \in 1 .. 2, 1 - 1 = 0
<1>4. r[2] = Apply(r[1], f)
  BY <1>1, <1>2, 2 \in 1 .. 2, 2 - 1 = 1
<1> QED BY <1>1, <1>2, <1>3, <1>4 DEF s

(* What a command leaves down, when only buttons were down before it.      *)
LEMMA AfterIs ==
  ASSUME NEW cmd \in Commands, NEW h \in SUBSET Buttons
  PROVE  /\ ButtonCode(cmd[2]) \in Buttons
         /\ \/ After(h, cmd) = h
            \/ cmd[1] = "MOUSE_DOWN" /\ After(h, cmd) = h \union {ButtonCode(cmd[2])}
            \/ cmd[1] \in {"MOUSE_UP", "MOUSE_CLICK"} /\ After(h, cmd) = h \ {ButtonCode(cmd[2])}
<1> DEFINE b == ButtonCode(cmd[2])
<1>1. b \in Buttons
  BY InputAssumption DEF ButtonCode
<1> HIDE DEF b
<1>2. CASE ~Initialized
  BY <1>1, <1>2 DEF After, b
<1>3. CASE Initialized
  <2>1. After(h, cmd) = FoldLeft(Apply, h, Emits(cmd))
    BY <1>3 DEF After
  <2>2. CASE cmd[1] = "MOUSE_DOWN"
    <3>1. Emits(cmd) = <<Down(b)>>
      BY <2>2 DEF Emits, b
    <3>2. After(h, cmd) = Apply(h, Down(b))
      BY <2>1, <3>1, FoldOne
    <3>3. After(h, cmd) = h \union {b}
      BY <3>2 DEF Apply, Down
    <3> QED BY <1>1, <2>2, <3>3 DEF b
  <2>3. CASE cmd[1] = "MOUSE_UP"
    <3>1. Emits(cmd) = <<Up(b)>>
      BY <2>3 DEF Emits, b
    <3>2. After(h, cmd) = Apply(h, Up(b))
      BY <2>1, <3>1, FoldOne
    <3>3. After(h, cmd) = h \ {b}
      BY <3>2 DEF Apply, Up
    <3> QED BY <1>1, <2>3, <3>3 DEF b
  <2>4. CASE cmd[1] = "MOUSE_CLICK"
    <3>1. Emits(cmd) = <<Down(b), Up(b)>>
      BY <2>4 DEF Emits, ClickMouse, Strike, b
    <3>2. After(h, cmd) = Apply(Apply(h, Down(b)), Up(b))
      BY <2>1, <3>1, FoldTwo
    <3>3. After(h, cmd) = h \ {b}
      BY <3>2 DEF Apply, Up, Down
    <3> QED BY <1>1, <2>4, <3>3 DEF b
  <2>5. CASE cmd[1] \notin {"MOUSE_DOWN", "MOUSE_UP", "MOUSE_CLICK"}
    <3>1. LetsGo(Emits(cmd))
      <4>1. CASE cmd[1] = "KEY_TYPE"
        <5>1. cmd[2] \in Seq(STRING)
          BY <4>1, CommandAssumption
        <5>2. Emits(cmd) = TypeText(cmd[2])
          BY <4>1 DEF Emits
        <5> QED BY <5>1, <5>2, TypeTextLetsGo
      <4>2. CASE cmd[1] = "KEY_PRESS"
        <5>1. Emits(cmd) = PressKey(cmd[2])
          BY <4>2 DEF Emits
        <5> QED BY <5>1, PressKeyLetsGo
      <4>3. CASE cmd[1] \notin {"KEY_TYPE", "KEY_PRESS"}
        <5>1. Emits(cmd) = << >>
          BY <2>5, <4>3 DEF Emits
        <5> QED BY <5>1, NothingLetsGo
      <4> QED BY <4>1, <4>2, <4>3
    <3>2. After(h, cmd) = h
      BY <2>1, <3>1, LettingGo
    <3> QED BY <1>1, <3>2 DEF b
  <2> QED BY <2>2, <2>3, <2>4, <2>5
<1> QED BY <1>2, <1>3

(* Only a phone's command moves a key or a button.                         *)
LEMMA HeldMoves ==
  ASSUME [Next]_vars
  PROVE  held' = held \/ \E c \in Conns, cmd \in Commands : SessionPresses(c, cmd)
<1>1. CASE UNCHANGED vars
  BY <1>1 DEF vars
<1>2. CASE PushEnds \/ PhoneStep \/ ForeignOpens \/ ForeignCloses
  BY <1>2 DEF PushEnds, PhoneStep, Connects, Speaks, Leaves, ForeignOpens, ForeignCloses
<1>3. CASE LoopStep
  <2>1. CASE Wait \/ AcceptFails \/ HandshakeEnds
    BY <2>1 DEF Wait, AcceptFails, HandshakeEnds
  <2>2. CASE \E c \in Conns : Accept(c) \/ SessionActs(c) \/ SessionRefuses(c) \/ SessionPushes(c)
    BY <2>2 DEF Accept, SessionActs, SessionRefuses, SessionPushes
  <2>3. CASE \E k \in Fds, kind \in {"in", "hup"} : Dispatch(k, kind)
    BY <2>3 DEF Dispatch
  <2>4. CASE ReadWouldBlock \/ ReadEnds \/ EraseSession \/ CloseRemoved
    BY <2>4 DEF ReadWouldBlock, ReadEnds, EraseSession, CloseRemoved
  <2> QED BY <1>3, <2>1, <2>2, <2>3, <2>4 DEF LoopStep
<1> QED BY <1>1, <1>2, <1>3 DEF Next

LEMMA NextKeepsReleased == KeysReleased /\ [Next]_vars => KeysReleased'
<1> SUFFICES ASSUME KeysReleased, [Next]_vars PROVE KeysReleased'
  OBVIOUS
<1>1. ASSUME NEW c \in Conns, NEW cmd \in Commands, SessionPresses(c, cmd) PROVE KeysReleased'
  <2>1. held' = After(held, cmd) /\ held \in SUBSET Buttons
    BY <1>1 DEF SessionPresses, KeysReleased
  <2>2. After(held, cmd) \subseteq Buttons
    BY <2>1, AfterIs
  <2> QED BY <2>1, <2>2 DEF KeysReleased
<1>2. CASE held' = held
  BY <1>2 DEF KeysReleased
<1> QED BY <1>1, <1>2, HeldMoves

(* Whatever the phones send, in whatever turns, no key stays down after    *)
(* the command that struck it: of any text, with any tables of keys that   *)
(* name no button.                                                         *)
THEOREM KeysComeUp == Spec => []KeysReleased
<1>1. Init => KeysReleased
  BY DEF Init, KeysReleased
<1> QED BY <1>1, NextKeepsReleased, PTL DEF Spec

(* And no command but those that say so leaves a button down, or lets it   *)
(* go; the end of a session does neither.                                  *)
THEOREM ButtonsMove == Spec => ButtonsMoveOnRequest
<1> DEFINE A == \A b \in Buttons :
                  (b \in held) # (b \in held') =>
                    \E c \in Conns, cmd \in Commands :
                      /\ cmd[1] \in IF b \in held THEN {"MOUSE_UP", "MOUSE_CLICK"} ELSE {"MOUSE_DOWN"}
                      /\ ButtonCode(cmd[2]) = b /\ SessionPresses(c, cmd)
<1>1. ASSUME KeysReleased, [Next]_vars PROVE A
  <2> SUFFICES ASSUME NEW b \in Buttons, (b \in held) # (b \in held')
               PROVE  \E c \in Conns, cmd \in Commands :
                        /\ cmd[1] \in IF b \in held THEN {"MOUSE_UP", "MOUSE_CLICK"} ELSE {"MOUSE_DOWN"}
                        /\ ButtonCode(cmd[2]) = b /\ SessionPresses(c, cmd)
    OBVIOUS
  <2>1. PICK c \in Conns, cmd \in Commands : SessionPresses(c, cmd)
    BY <1>1, HeldMoves
  <2>2. held' = After(held, cmd) /\ held \in SUBSET Buttons
    BY <1>1, <2>1 DEF SessionPresses, KeysReleased
  <2>3. \/ held' = held
        \/ cmd[1] = "MOUSE_DOWN" /\ held' = held \union {ButtonCode(cmd[2])}
        \/ cmd[1] \in {"MOUSE_UP", "MOUSE_CLICK"} /\ held' = held \ {ButtonCode(cmd[2])}
    BY <2>2, AfterIs
  <2>4. /\ cmd[1] \in IF b \in held THEN {"MOUSE_UP", "MOUSE_CLICK"} ELSE {"MOUSE_DOWN"}
        /\ ButtonCode(cmd[2]) = b
    BY <2>3
  <2> QED BY <2>1, <2>4
<1>2. KeysReleased /\ [Next]_vars => [A]_vars
  <2> HIDE DEF A
  <2> QED BY <1>1
<1>3. Spec => []KeysReleased
  BY KeysComeUp
<1> QED BY <1>2, <1>3, PTL DEF Spec, ButtonsMoveOnRequest
=============================================================================
