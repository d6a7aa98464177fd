-------------------------- MODULE PairingPinProofs --------------------------
(***************************************************************************)
(* Proofs about PairingPin, for any number of users, PINs and I/O faults,  *)
(* and any number of crashes and restarts.                                 *)
(***************************************************************************)
EXTENDS PairingPin, TLAPS

-----------------------------------------------------------------------------
(* The window. *)

Last(window) == window[Len(window)]

LEMMA RememberIsWindow ==
  ASSUME NEW window \in Seq(Pins), Len(window) <= MAX_RECENT_PINS, NEW pin \in Pins
  PROVE  /\ Remember(window, pin) \in Seq(Pins)
         /\ Len(Remember(window, pin)) \in 1 .. MAX_RECENT_PINS
         /\ Last(Remember(window, pin)) = pin
<1> DEFINE longer == Append(window, pin)
<1>1. /\ longer \in Seq(Pins) /\ Len(longer) = Len(window) + 1 /\ longer[Len(longer)] = pin
      /\ Len(window) \in Nat
  OBVIOUS
<1> HIDE DEF longer
<1>2. CASE Len(longer) > MAX_RECENT_PINS
  <2>1. /\ Tail(longer) \in Seq(Pins) /\ Len(Tail(longer)) = Len(window)
        /\ \A i \in 1 .. Len(window) : Tail(longer)[i] = longer[i + 1]
    BY <1>1
  <2>2. Len(window) = MAX_RECENT_PINS /\ Len(window) >= 1
    BY <1>1, <1>2, PinWindowAssumption
  <2>3. Remember(window, pin) = Tail(longer)
    BY <1>2 DEF Remember, longer
  <2>4. Tail(longer)[Len(window)] = pin
    BY <1>1, <2>1, <2>2
  <2> QED BY <2>1, <2>2, <2>3, <2>4 DEF Last
<1>3. CASE Len(longer) <= MAX_RECENT_PINS
  <2>1. Remember(window, pin) = longer
    BY <1>1, <1>3, PinWindowAssumption DEF Remember, longer
  <2> QED BY <1>1, <1>3, <2>1 DEF Last
<1> QED BY <1>1, <1>2, <1>3, PinWindowAssumption

LEMMA FirstWindow ==
  ASSUME NEW pin \in Pins
  PROVE  /\ Remember(<< >>, pin) \in Seq(Pins)
         /\ Len(Remember(<< >>, pin)) \in 1 .. MAX_RECENT_PINS
         /\ Last(Remember(<< >>, pin)) = pin
<1> DEFINE none == << >>
<1>1. none \in Seq(Pins)
  OBVIOUS
<1>2. Len(none) = 0
  OBVIOUS
<1>3. Len(none) <= MAX_RECENT_PINS
  BY <1>2, PinWindowAssumption
<1> HIDE DEF none
<1>4. /\ Remember(none, pin) \in Seq(Pins)
      /\ Len(Remember(none, pin)) \in 1 .. MAX_RECENT_PINS
      /\ Last(Remember(none, pin)) = pin
  BY <1>1, <1>3, RememberIsWindow
<1> QED BY <1>4 DEF none

(* A window of two or more holds the PIN before the newest one as well.    *)
LEMMA RememberKeepsLast ==
  ASSUME MAX_RECENT_PINS >= 2, NEW window \in Seq(Pins), Len(window) >= 1, NEW pin \in Pins
  PROVE  ValidateKey(Remember(window, pin), Last(window))
<1> DEFINE longer == Append(window, pin)
<1>1. /\ longer \in Seq(Pins) /\ Len(longer) = Len(window) + 1
      /\ longer[Len(window)] = Last(window) /\ Len(window) \in Nat
  BY DEF Last
<1> HIDE DEF longer
<1>2. CASE Len(longer) > MAX_RECENT_PINS
  <2>1. /\ Tail(longer) \in Seq(Pins) /\ Len(Tail(longer)) = Len(window)
        /\ \A i \in 1 .. Len(window) : Tail(longer)[i] = longer[i + 1]
    BY <1>1
  <2>2. Len(window) >= 2
    BY <1>1, <1>2, PinWindowAssumption
  <2>3. Len(window) - 1 \in 1 .. Len(window) /\ (Len(window) - 1) + 1 = Len(window)
    BY <1>1, <2>2
  <2>4. Tail(longer)[Len(window) - 1] = Last(window)
    BY <1>1, <2>1, <2>3
  <2>5. Len(window) - 1 \in DOMAIN Tail(longer)
    BY <2>1, <2>3
  <2>6. Remember(window, pin) = Tail(longer)
    BY <1>2 DEF Remember, longer
  <2> QED BY <2>4, <2>5, <2>6 DEF ValidateKey
<1>3. CASE Len(longer) <= MAX_RECENT_PINS
  <2>1. Remember(window, pin) = longer
    BY <1>1, <1>3, PinWindowAssumption DEF Remember, longer
  <2>2. Len(window) \in DOMAIN longer
    BY <1>1
  <2> QED BY <1>1, <2>1, <2>2 DEF ValidateKey
<1> QED BY <1>1, <1>2, <1>3, PinWindowAssumption

LEMMA LastIsValid ==
  ASSUME NEW window \in Seq(Pins), Len(window) >= 1
  PROVE  ValidateKey(window, Last(window))
<1>1. Len(window) \in DOMAIN window
  OBVIOUS
<1> QED BY <1>1 DEF ValidateKey, Last

-----------------------------------------------------------------------------
(* Types. *)

LEMMA StartsWithWindow ==
  ASSUME TypeOK, NEW u \in Users, Start(u)
  PROVE  \E pin \in Pins :
           /\ currentPin' = [currentPin EXCEPT ![u] = pin]
           /\ recentPins' = [recentPins EXCEPT ![u] = Remember(<< >>, pin)]
<1>1. PICK pin \in Pins : currentPin' = [currentPin EXCEPT ![u] = pin]
  BY DEF Start, LoadPersistedSession, Issue, TypeOK
<1>2. currentPin'[u] = pin
  BY <1>1 DEF TypeOK
<1> QED BY <1>1, <1>2 DEF Start

LEMMA NextKeepsTypes == TypeOK /\ [Next]_vars => TypeOK'
<1> SUFFICES ASSUME TypeOK, [Next]_vars PROVE TypeOK'
  OBVIOUS
<1> USE DEF TypeOK
<1>1. << >> \in Seq(Pins) /\ Len(<< >>) = 0 /\ MAX_RECENT_PINS \in Nat \ {0}
  BY PinWindowAssumption
<1>2. ASSUME NEW u \in Users, Start(u) PROVE TypeOK'
  <2>1. PICK pin \in Pins :
          /\ currentPin' = [currentPin EXCEPT ![u] = pin]
          /\ recentPins' = [recentPins EXCEPT ![u] = Remember(<< >>, pin)]
    BY <1>2, StartsWithWindow
  <2>2. Remember(<< >>, pin) \in Seq(Pins) /\ Len(Remember(<< >>, pin)) <= MAX_RECENT_PINS
    BY <1>1, FirstWindow
  <2>3. disturbed' \in BOOLEAN
    BY <1>2, Zenon DEF Start
  <2> QED BY <1>2, <2>1, <2>2, <2>3 DEF Start, Goto, Stops, fileVars
<1>3. ASSUME NEW u \in Users, RefreshPin(u) PROVE TypeOK'
  <2>1. PICK pin \in Pins :
          /\ currentPin' = [currentPin EXCEPT ![u] = pin]
          /\ recentPins' = [recentPins EXCEPT ![u] = Remember(recentPins[u], pin)]
    BY <1>3 DEF RefreshPin, Issue
  <2>2. /\ Remember(recentPins[u], pin) \in Seq(Pins)
        /\ Len(Remember(recentPins[u], pin)) <= MAX_RECENT_PINS
    BY RememberIsWindow
  <2> QED BY <1>3, <2>1, <2>2 DEF RefreshPin, Goto, Stops, fileVars
<1>4. ASSUME NEW u \in Users, OpenSession(u) \/ WriteSession(u) PROVE TypeOK'
  BY <1>4 DEF OpenSession, WriteSession, Goto, Stops, pinVars
<1>5. ASSUME NEW u \in Users, OpenIpc(u) \/ WriteIpc(u) PROVE TypeOK'
  BY <1>5 DEF OpenIpc, WriteIpc, Goto, Stops, pinVars
<1>6. ASSUME NEW u \in Users, Announce(u) PROVE TypeOK'
  BY <1>6 DEF Announce, AnnouncePin, Goto, Stops, pinVars, fileVars
<1>7. ASSUME NEW u \in Users, Exit(u), listener' \in Users \union {NoUser} PROVE TypeOK'
  BY <1>1, <1>7 DEF Exit, Goto, Stops, fileVars
<1>8. ASSUME NEW u \in Users, Bind(u) PROVE TypeOK'
  <2>1. CASE listener = NoUser
    BY <1>8, <2>1 DEF Bind, Goto, Stops, pinVars, fileVars
  <2> QED BY <1>7, <1>8, <2>1 DEF Bind
<1>9. ASSUME NEW u \in Users, Stop(u) PROVE TypeOK'
  BY <1>7, <1>9 DEF Stop
<1>10. CASE UNCHANGED vars
  BY <1>10 DEF vars, pinVars, fileVars
<1> QED BY <1>2, <1>3, <1>4, <1>5, <1>6, <1>8, <1>9, <1>10 DEF Next

LEMMA InitTypes == Init => TypeOK
<1> SUFFICES ASSUME Init PROVE TypeOK
  OBVIOUS
<1>1. /\ pc \in [Users -> Stops] /\ newest \in Users /\ listener = NoUser /\ disturbed = FALSE
      /\ {currentPin, announced, session, ipc} \subseteq [Users -> Pins \union {Empty}]
  BY DEF Init, Stops
<1>2. \A u \in Users : recentPins[u] = << >>
  BY DEF Init
<1>3. recentPins \in [Users -> Seq(Pins)]
  BY DEF Init
<1>4. \A u \in Users : Len(recentPins[u]) <= MAX_RECENT_PINS
  BY <1>2, PinWindowAssumption
<1> QED BY <1>1, <1>3, <1>4 DEF TypeOK

(* Every variable keeps its type, and no window outgrows MAX_RECENT_PINS.  *)
THEOREM TypeCorrect == Spec => []TypeOK
<1>1. Init => TypeOK
  BY InitTypes
<1> QED BY <1>1, NextKeepsTypes, PTL DEF Spec

-----------------------------------------------------------------------------
(* The PINs of a running daemon: the newest one closes its window, it is   *)
(* the one announced from its announcement to the next refresh, and who    *)
(* listens runs and is past the bind.                                      *)

WindowEnds ==
  \A u \in Users : pc[u] # "off" =>
    Len(recentPins[u]) >= 1 /\ currentPin[u] = Last(recentPins[u])

AnnouncedIsCurrent ==
  \A u \in Users : pc[u] \in {"bind", "up"} => announced[u] = currentPin[u]

ListenerRuns ==
  \A u \in Users : listener = u => pc[u] \notin {"off", "bind"}

LEMMA NextKeepsWindowEnds == TypeOK /\ WindowEnds /\ [Next]_vars => WindowEnds'
<1> SUFFICES ASSUME TypeOK, WindowEnds, [Next]_vars PROVE WindowEnds'
  OBVIOUS
<1> USE DEF WindowEnds, TypeOK
<1>1. << >> \in Seq(Pins) /\ Len(<< >>) = 0 /\ MAX_RECENT_PINS \in Nat \ {0}
  BY PinWindowAssumption
<1>2. ASSUME NEW u \in Users, Start(u) PROVE WindowEnds'
  <2>1. PICK pin \in Pins :
          /\ currentPin' = [currentPin EXCEPT ![u] = pin]
          /\ recentPins' = [recentPins EXCEPT ![u] = Remember(<< >>, pin)]
    BY <1>2, StartsWithWindow
  <2>2. Len(Remember(<< >>, pin)) >= 1 /\ Last(Remember(<< >>, pin)) = pin
    BY <1>1, FirstWindow
  <2> QED BY <1>2, <2>1, <2>2 DEF Start, Goto
<1>3. ASSUME NEW u \in Users, RefreshPin(u) PROVE WindowEnds'
  <2>1. PICK pin \in Pins :
          /\ currentPin' = [currentPin EXCEPT ![u] = pin]
          /\ recentPins' = [recentPins EXCEPT ![u] = Remember(recentPins[u], pin)]
    BY <1>3 DEF RefreshPin, Issue
  <2>2. Len(Remember(recentPins[u], pin)) >= 1 /\ Last(Remember(recentPins[u], pin)) = pin
    BY RememberIsWindow
  <2> QED BY <1>3, <2>1, <2>2 DEF RefreshPin, Goto
<1>4. ASSUME NEW u \in Users,
             OpenSession(u) \/ WriteSession(u) \/ OpenIpc(u) \/ WriteIpc(u) \/ Announce(u)
      PROVE  WindowEnds'
  BY <1>4 DEF OpenSession, WriteSession, OpenIpc, WriteIpc, Announce, Goto, pinVars
<1>5. ASSUME NEW u \in Users, Exit(u) PROVE WindowEnds'
  BY <1>5 DEF Exit, Goto
<1>6. ASSUME NEW u \in Users, Bind(u) \/ Stop(u) PROVE WindowEnds'
  BY <1>5, <1>6 DEF Bind, Stop, Goto, pinVars
<1>7. CASE UNCHANGED vars
  BY <1>7 DEF vars, pinVars
<1> QED BY <1>2, <1>3, <1>4, <1>6, <1>7 DEF Next

LEMMA NextKeepsAnnounced ==
  TypeOK /\ AnnouncedIsCurrent /\ [Next]_vars => AnnouncedIsCurrent'
<1> SUFFICES ASSUME TypeOK, AnnouncedIsCurrent, [Next]_vars PROVE AnnouncedIsCurrent'
  OBVIOUS
<1> USE DEF AnnouncedIsCurrent, TypeOK
<1>1. ASSUME NEW u \in Users, Start(u) PROVE AnnouncedIsCurrent'
  <2>1. PICK pin \in Pins : currentPin' = [currentPin EXCEPT ![u] = pin]
    BY <1>1, StartsWithWindow
  <2> QED BY <1>1, <2>1 DEF Start, Goto
<1>2. ASSUME NEW u \in Users, RefreshPin(u) PROVE AnnouncedIsCurrent'
  BY <1>2 DEF RefreshPin, Issue, Goto
<1>3. ASSUME NEW u \in Users, OpenSession(u) \/ WriteSession(u) \/ OpenIpc(u) \/ WriteIpc(u)
      PROVE  AnnouncedIsCurrent'
  BY <1>3 DEF OpenSession, WriteSession, OpenIpc, WriteIpc, Goto, pinVars
<1>4. ASSUME NEW u \in Users, Announce(u) PROVE AnnouncedIsCurrent'
  BY <1>4 DEF Announce, AnnouncePin, Goto, pinVars
<1>5. ASSUME NEW u \in Users, Exit(u) PROVE AnnouncedIsCurrent'
  BY <1>5 DEF Exit, Goto
<1>6. ASSUME NEW u \in Users, Bind(u) \/ Stop(u) PROVE AnnouncedIsCurrent'
  BY <1>5, <1>6 DEF Bind, Stop, Goto, pinVars
<1>7. CASE UNCHANGED vars
  BY <1>7 DEF vars, pinVars
<1> QED BY <1>1, <1>2, <1>3, <1>4, <1>6, <1>7 DEF Next

LEMMA NextKeepsListener == TypeOK /\ ListenerRuns /\ [Next]_vars => ListenerRuns'
<1> SUFFICES ASSUME TypeOK, ListenerRuns, [Next]_vars PROVE ListenerRuns'
  OBVIOUS
<1> USE DEF ListenerRuns, TypeOK
<1>1. ASSUME NEW u \in Users,
             \/ Start(u) \/ RefreshPin(u) \/ OpenSession(u) \/ WriteSession(u) \/ OpenIpc(u)
             \/ WriteIpc(u) \/ Announce(u)
      PROVE  ListenerRuns'
  BY <1>1 DEF Start, RefreshPin, OpenSession, WriteSession, OpenIpc, WriteIpc, Announce, Goto
<1>2. ASSUME NEW u \in Users, Bind(u) \/ Stop(u) PROVE ListenerRuns'
  BY <1>2, UserAssumption DEF Bind, Stop, Exit, Goto
<1>3. CASE UNCHANGED vars
  BY <1>3 DEF vars
<1> QED BY <1>1, <1>2, <1>3 DEF Next

-----------------------------------------------------------------------------
(* The announced PIN. *)

AnnounceInv == TypeOK /\ WindowEnds /\ AnnouncedIsCurrent /\ ListenerRuns

LEMMA AnnounceInvariant == Spec => []AnnounceInv
<1>1. Init => AnnounceInv
  BY InitTypes, UserAssumption
     DEF Init, AnnounceInv, WindowEnds, AnnouncedIsCurrent, ListenerRuns
<1>2. AnnounceInv /\ [Next]_vars => AnnounceInv'
  BY NextKeepsTypes, NextKeepsWindowEnds, NextKeepsAnnounced, NextKeepsListener DEF AnnounceInv
<1> QED BY <1>1, <1>2, PTL DEF Spec

(* A daemon that has just issued a PIN accepts the newest and the one      *)
(* before.                                                                 *)
LEMMA RefreshKeepsValid ==
  ASSUME MAX_RECENT_PINS >= 2, AnnounceInv, NEW u \in Users, RefreshPin(u)
  PROVE  ValidateKey(recentPins'[u], currentPin[u])
<1>1. PICK pin \in Pins : recentPins' = [recentPins EXCEPT ![u] = Remember(recentPins[u], pin)]
  BY DEF RefreshPin
<1>2. /\ recentPins[u] \in Seq(Pins) /\ Len(recentPins[u]) >= 1
      /\ currentPin[u] = Last(recentPins[u])
      /\ recentPins'[u] = Remember(recentPins[u], pin)
  BY <1>1 DEF AnnounceInv, TypeOK, WindowEnds, RefreshPin
<1> QED BY <1>2, RememberKeepsLast

LEMMA CurrentIsValid ==
  ASSUME AnnounceInv, NEW u \in Users, pc[u] # "off"
  PROVE  ValidateKey(recentPins[u], currentPin[u])
<1>1. /\ recentPins[u] \in Seq(Pins) /\ Len(recentPins[u]) >= 1
      /\ currentPin[u] = Last(recentPins[u])
  BY DEF AnnounceInv, TypeOK, WindowEnds
<1> QED BY <1>1, LastIsValid

(* The steps that leave the port alone. *)
LeavesPort(u) ==
  \/ Start(u) \/ RefreshPin(u) \/ OpenSession(u) \/ WriteSession(u)
  \/ OpenIpc(u) \/ WriteIpc(u) \/ Announce(u)

LEMMA NextKeepsAnnouncedAccepted ==
  ASSUME MAX_RECENT_PINS >= 2, AnnounceInv, AnnounceInv', AnnouncedPinAccepted, [Next]_vars
  PROVE  AnnouncedPinAccepted'
<1> SUFFICES ASSUME NEW v \in Users, listener' = v
             PROVE  ValidateKey(recentPins'[v], announced'[v])
  BY DEF AnnouncedPinAccepted
<1>1. pc'[v] # "off"
  BY DEF AnnounceInv, ListenerRuns
<1>2. CASE \A u \in Users : ~RefreshPin(u) /\ ~Announce(u) /\ listener = v
  <2>1. ASSUME NEW u \in Users, Start(u)
        PROVE  recentPins'[v] = recentPins[v] /\ announced'[v] = announced[v]
    <3>1. u # v
      BY <1>2, <2>1 DEF Start, AnnounceInv, ListenerRuns
    <3>2. \E pin \in Pins : recentPins' = [recentPins EXCEPT ![u] = Remember(<< >>, pin)]
      BY <2>1, StartsWithWindow DEF AnnounceInv
    <3> QED BY <2>1, <3>1, <3>2 DEF Start, AnnounceInv, TypeOK
  <2>2. ASSUME NEW u \in Users, OpenSession(u) \/ WriteSession(u) \/ OpenIpc(u) \/ WriteIpc(u)
        PROVE  recentPins'[v] = recentPins[v] /\ announced'[v] = announced[v]
    BY <2>2 DEF OpenSession, WriteSession, OpenIpc, WriteIpc, pinVars
  <2>3. ASSUME NEW u \in Users, Bind(u) \/ Stop(u)
        PROVE  recentPins'[v] = recentPins[v] /\ announced'[v] = announced[v]
    <3>1. CASE u # v
      BY <2>3, <3>1 DEF Bind, Stop, Exit, pinVars, AnnounceInv, TypeOK
    <3>2. CASE u = v
      BY <1>1, <1>2, <2>3, <3>2 DEF Bind, Stop, Exit, Goto, pinVars, AnnounceInv, TypeOK,
                                    ListenerRuns
    <3> QED BY <3>1, <3>2
  <2>4. CASE UNCHANGED vars
    BY <2>4, <1>2 DEF vars, pinVars, AnnouncedPinAccepted
  <2>5. ValidateKey(recentPins[v], announced[v])
    BY <1>2 DEF AnnouncedPinAccepted
  <2> QED BY <1>2, <2>1, <2>2, <2>3, <2>4, <2>5 DEF Next
<1>3. ASSUME NEW u \in Users, RefreshPin(u) PROVE ValidateKey(recentPins'[v], announced'[v])
  <2>1. CASE u = v
    <3>1. announced'[v] = currentPin[v]
      BY <1>3, <2>1 DEF RefreshPin, AnnounceInv, AnnouncedIsCurrent
    <3> QED BY <1>3, <2>1, <3>1, RefreshKeepsValid
  <2>2. CASE u # v
    BY <1>3, <2>2 DEF RefreshPin, AnnouncedPinAccepted, AnnounceInv, TypeOK
  <2> QED BY <2>1, <2>2
<1>4. ASSUME NEW u \in Users, Announce(u) PROVE ValidateKey(recentPins'[v], announced'[v])
  <2>1. recentPins' = recentPins /\ listener = v
    BY <1>4 DEF Announce, pinVars
  <2>2. CASE u = v
    <3>1. announced'[v] = currentPin[v] /\ pc[v] # "off"
      BY <1>4, <2>2 DEF Announce, AnnouncePin, AnnounceInv, TypeOK
    <3> QED BY <2>1, <3>1, CurrentIsValid
  <2>3. CASE u # v
    BY <1>4, <2>1, <2>3 DEF Announce, AnnouncePin, AnnouncedPinAccepted, AnnounceInv, TypeOK
  <2> QED BY <2>2, <2>3
<1>5. CASE listener # v
  <2>1. v # NoUser
    BY UserAssumption
  <2>2. ASSUME NEW u \in Users PROVE ~Stop(u)
    BY <1>5, <2>1 DEF Stop
  <2>3. ASSUME NEW u \in Users, LeavesPort(u) PROVE FALSE
    BY <1>5, <2>3 DEF LeavesPort, Start, RefreshPin, OpenSession, WriteSession, OpenIpc,
                      WriteIpc, Announce
  <2>4. ~UNCHANGED vars
    BY <1>5 DEF vars
  <2>5. PICK u \in Users : Bind(u)
    BY <2>2, <2>3, <2>4 DEF Next, LeavesPort
  <2>6. u = v /\ pc[v] = "bind" /\ UNCHANGED pinVars /\ UNCHANGED announced
    BY <1>5, <2>5 DEF Bind
  <2>7. announced[v] = currentPin[v] /\ pc[v] # "off"
    BY <2>6 DEF AnnounceInv, AnnouncedIsCurrent
  <2> QED BY <2>6, <2>7, CurrentIsValid DEF pinVars
<1> QED BY <1>2, <1>3, <1>4, <1>5

(* The daemon that listens accepts the PIN it announced last at every      *)
(* moment, also between the issue of the next one and its announcement,    *)
(* whatever crashes, restarts, full disks and other daemons there are, if  *)
(* its window holds two PINs (twelve in the code).                          *)
THEOREM AnnouncedAccepted ==
  ASSUME MAX_RECENT_PINS >= 2
  PROVE  Spec => []AnnouncedPinAccepted
<1>1. Init => AnnouncedPinAccepted
  BY UserAssumption DEF Init, AnnouncedPinAccepted
<1>2. AnnounceInv /\ AnnounceInv' /\ AnnouncedPinAccepted /\ [Next]_vars
      => AnnouncedPinAccepted'
  BY NextKeepsAnnouncedAccepted
<1> QED BY <1>1, <1>2, AnnounceInvariant, PTL DEF Spec
-----------------------------------------------------------------------------
(* The PIN the GUI shows.  While nothing has disturbed them, daemons run   *)
(* one at a time, and a daemon that has opened its file for the GUI owns   *)
(* the newest one, empty or with its newest PIN.                           *)

Alone ==
  ~disturbed => \A u, v \in Users : pc[u] # "off" /\ pc[v] # "off" => u = v

OwnsFile(u) ==
  /\ pc[u] \in {"writeIpc", "announce", "bind", "up"} => newest = u
  /\ pc[u] = "writeIpc" => ipc[u] = Empty
  /\ pc[u] \in {"announce", "bind", "up"} => ipc[u] \in {Empty, currentPin[u]}

FilesOwned == ~disturbed => \A u \in Users : OwnsFile(u)

LEMMA DisturbedForGood ==
  ASSUME TypeOK, [Next]_vars, ~disturbed'
  PROVE  ~disturbed
<1>1. ASSUME NEW u \in Users, Start(u) PROVE ~disturbed
  BY <1>1, Zenon DEF Start
<1>2. ASSUME NEW u \in Users, OpenIpc(u) PROVE ~disturbed
  BY <1>2, Zenon DEF OpenIpc
<1>3. ASSUME NEW u \in Users,
             \/ RefreshPin(u) \/ OpenSession(u) \/ WriteSession(u) \/ WriteIpc(u)
             \/ Announce(u) \/ Bind(u) \/ Stop(u)
      PROVE  ~disturbed
  BY <1>3, Zenon DEF RefreshPin, OpenSession, WriteSession, WriteIpc, Announce, Bind, Stop, Exit
<1>4. CASE UNCHANGED vars
  BY <1>4, Zenon DEF vars
<1> QED BY <1>1, <1>2, <1>3, <1>4 DEF Next

(* A step of a daemon that runs leaves the others where they are, which is *)
(* off.                                                                    *)
LEMMA NextKeepsAlone == TypeOK /\ Alone /\ [Next]_vars => Alone'
<1> SUFFICES ASSUME TypeOK, Alone, [Next]_vars, ~disturbed',
                    NEW v \in Users, NEW w \in Users, pc'[v] # "off", pc'[w] # "off"
             PROVE  v = w
  BY DEF Alone
<1>1. \A a, b \in Users : pc[a] # "off" /\ pc[b] # "off" => a = b
  BY DisturbedForGood DEF Alone
<1>2. ASSUME NEW u \in Users, Start(u) PROVE v = w
  <2>1. AllOff
    BY <1>2, Zenon DEF Start
  <2> QED BY <1>2, <2>1 DEF Start, Goto, AllOff, TypeOK
<1>3. ASSUME NEW u \in Users,
             \/ RefreshPin(u) \/ OpenSession(u) \/ WriteSession(u) \/ OpenIpc(u) \/ WriteIpc(u)
             \/ Announce(u) \/ Bind(u) \/ Stop(u)
      PROVE  v = w
  <2>1. pc[u] # "off" /\ \E stop \in Stops : pc' = [pc EXCEPT ![u] = stop]
    BY <1>3 DEF RefreshPin, OpenSession, WriteSession, OpenIpc, WriteIpc, Announce, Bind, Stop,
                Exit, Goto, Stops
  <2> QED BY <1>1, <2>1 DEF TypeOK
<1>4. CASE UNCHANGED vars
  BY <1>1, <1>4 DEF vars
<1> QED BY <1>2, <1>3, <1>4 DEF Next

LEMMA NextKeepsFilesOwned ==
  AnnounceInv /\ Alone /\ Alone' /\ FilesOwned /\ [Next]_vars => FilesOwned'
<1> SUFFICES ASSUME AnnounceInv, Alone, Alone', FilesOwned, [Next]_vars, ~disturbed',
                    NEW w \in Users
             PROVE  OwnsFile(w)'
  BY DEF FilesOwned
<1>1. TypeOK /\ ~disturbed /\ OwnsFile(w)
  BY DisturbedForGood DEF AnnounceInv, FilesOwned
<1>2. ASSUME NEW u \in Users, Start(u) PROVE OwnsFile(w)'
  <2>1. AllOff
    BY <1>2, Zenon DEF Start
  <2> QED BY <1>1, <1>2, <2>1 DEF Start, Goto, AllOff, OwnsFile, TypeOK
<1>3. ASSUME NEW u \in Users,
             \/ RefreshPin(u) \/ OpenSession(u) \/ WriteSession(u) \/ OpenIpc(u) \/ WriteIpc(u)
             \/ Announce(u) \/ Bind(u) \/ Stop(u)
      PROVE  OwnsFile(w)'
  <2>1. pc[u] # "off" /\ \E stop \in Stops : pc' = [pc EXCEPT ![u] = stop]
    BY <1>3 DEF RefreshPin, OpenSession, WriteSession, OpenIpc, WriteIpc, Announce, Bind, Stop,
                Exit, Goto, Stops
  <2>2. CASE w # u
    <3>1. pc'[w] = "off"
      BY <1>1, <2>1, <2>2 DEF Alone, TypeOK
    <3> QED BY <3>1 DEF OwnsFile
  <2>3. CASE w = u
    <3>1. CASE RefreshPin(u) \/ OpenSession(u) \/ WriteSession(u) \/ Stop(u)
      BY <1>1, <2>3, <3>1 DEF RefreshPin, OpenSession, WriteSession, Stop, Exit, Goto, OwnsFile,
                              TypeOK
    <3>2. CASE OpenIpc(u)
      <4>1. ipc' = [ipc EXCEPT ![u] = Empty] /\ newest' = u /\ Goto(u, "writeIpc")
        BY <3>2, Zenon DEF OpenIpc
      <4> QED BY <1>1, <2>3, <4>1 DEF Goto, OwnsFile, TypeOK
    <3>3. CASE WriteIpc(u)
      BY <1>1, <2>3, <3>3 DEF WriteIpc, Goto, OwnsFile, TypeOK, pinVars
    <3>4. CASE Announce(u)
      BY <1>1, <2>3, <3>4 DEF Announce, Goto, OwnsFile, TypeOK, pinVars, fileVars
    <3>5. CASE Bind(u)
      BY <1>1, <2>3, <3>5 DEF Bind, Exit, Goto, OwnsFile, TypeOK, pinVars, fileVars
    <3> QED BY <1>3, <3>1, <3>2, <3>3, <3>4, <3>5
  <2> QED BY <2>2, <2>3
<1>4. CASE UNCHANGED vars
  BY <1>1, <1>4 DEF vars, pinVars, fileVars, OwnsFile
<1> QED BY <1>2, <1>3, <1>4 DEF Next

LEMMA NextKeepsGuiPin ==
  ASSUME MAX_RECENT_PINS >= 2, AnnounceInv, AnnounceInv', Alone, Alone', FilesOwned, FilesOwned',
         GuiPinAcceptedUndisturbed, [Next]_vars
  PROVE  GuiPinAcceptedUndisturbed'
<1> SUFFICES ASSUME ~disturbed', NEW v \in Users, listener' = v
             PROVE  ipc'[newest'] = Empty \/ ValidateKey(recentPins'[v], ipc'[newest'])
  BY DEF GuiPinAcceptedUndisturbed, GuiPinAccepted, IpcFile
<1>1. /\ TypeOK /\ ~disturbed /\ OwnsFile(v) /\ OwnsFile(v)' /\ pc'[v] # "off"
      /\ \A w \in Users : listener = w =>
           ipc[newest] = Empty \/ ValidateKey(recentPins[w], ipc[newest])
  BY DisturbedForGood DEF AnnounceInv, FilesOwned, ListenerRuns, GuiPinAcceptedUndisturbed,
                          GuiPinAccepted, IpcFile
<1>2. CASE pc'[v] \in {"writeIpc", "announce", "bind", "up"}
  <2>1. newest' = v /\ ipc'[v] \in {Empty, currentPin'[v]}
    BY <1>1, <1>2 DEF OwnsFile
  <2>2. ValidateKey(recentPins'[v], currentPin'[v])
    <3>1. /\ recentPins'[v] \in Seq(Pins) /\ Len(recentPins'[v]) >= 1
          /\ currentPin'[v] = Last(recentPins'[v])
      BY <1>1 DEF AnnounceInv, TypeOK, WindowEnds
    <3> QED BY <3>1, LastIsValid
  <2> QED BY <2>1, <2>2
<1>3. CASE pc'[v] \in {"openSession", "writeSession", "openIpc"}
  <2>1. ASSUME NEW u \in Users, Start(u) PROVE FALSE
    <3>1. AllOff
      BY <2>1, Zenon DEF Start
    <3>2. listener = v
      BY <2>1 DEF Start
    <3> QED BY <3>1, <3>2 DEF AllOff, AnnounceInv, ListenerRuns
  <2>2. ASSUME NEW u \in Users, RefreshPin(u)
        PROVE  ipc'[newest'] = Empty \/ ValidateKey(recentPins'[v], ipc'[newest'])
    <3>1. u = v
      BY <1>1, <2>2 DEF Alone, RefreshPin, Goto, TypeOK
    <3>2. newest = v /\ ipc[v] \in {Empty, currentPin[v]} /\ UNCHANGED <<newest, ipc>>
      BY <1>1, <2>2, <3>1 DEF OwnsFile, RefreshPin, fileVars
    <3> QED BY <2>2, <3>1, <3>2, RefreshKeepsValid
  <2>3. ASSUME NEW u \in Users, OpenSession(u) \/ WriteSession(u)
        PROVE  UNCHANGED <<listener, recentPins, newest, ipc>>
    BY <2>3 DEF OpenSession, WriteSession, pinVars
  <2>4. ASSUME NEW u \in Users,
               OpenIpc(u) \/ WriteIpc(u) \/ Announce(u) \/ Bind(u) \/ Stop(u)
        PROVE  FALSE
    <3>1. pc[u] # "off" /\ pc[v] # "off"
      BY <1>1, <1>3, <2>4 DEF OpenIpc, WriteIpc, Announce, Bind, Stop, Exit, Goto, TypeOK
    <3>2. u = v
      BY <1>1, <3>1 DEF Alone
    <3>3. ASSUME OpenIpc(u) PROVE FALSE
      <4>1. Goto(u, "writeIpc")
        BY <3>3, Zenon DEF OpenIpc
      <4> QED BY <1>1, <1>3, <3>2, <4>1 DEF Goto, TypeOK
    <3> QED BY <1>1, <1>3, <2>4, <3>2, <3>3 DEF WriteIpc, Announce, Bind, Stop, Exit, Goto, TypeOK
  <2>5. CASE UNCHANGED vars
    BY <1>1, <2>5 DEF vars, pinVars, fileVars
  <2>6. ASSUME UNCHANGED <<listener, recentPins, newest, ipc>>
        PROVE  ipc'[newest'] = Empty \/ ValidateKey(recentPins'[v], ipc'[newest'])
    BY <1>1, <2>6
  <2> QED BY <2>1, <2>2, <2>3, <2>4, <2>5, <2>6 DEF Next
<1>4. pc'[v] \in Stops
  BY DEF AnnounceInv, TypeOK
<1> QED BY <1>1, <1>2, <1>3, <1>4 DEF Stops

(* The PIN in the file the GUI picks is one the daemon that listens        *)
(* accepts, or the file is empty, at every step of a refresh, a crash or a *)
(* restart as any user, on full disks too, as long as daemons run one at a *)
(* time and can open that file, if the window holds two PINs.              *)
THEOREM GuiAccepted ==
  ASSUME MAX_RECENT_PINS >= 2
  PROVE  Spec => []GuiPinAcceptedUndisturbed
<1>1. Init => Alone /\ FilesOwned /\ GuiPinAcceptedUndisturbed
  BY UserAssumption
     DEF Init, Alone, FilesOwned, OwnsFile, GuiPinAcceptedUndisturbed, GuiPinAccepted
<1>2. AnnounceInv /\ Alone /\ FilesOwned /\ [Next]_vars => Alone' /\ FilesOwned'
  BY NextKeepsAlone, NextKeepsFilesOwned DEF AnnounceInv
<1>3. /\ AnnounceInv /\ AnnounceInv' /\ Alone /\ Alone' /\ FilesOwned /\ FilesOwned'
      /\ GuiPinAcceptedUndisturbed /\ [Next]_vars
      => GuiPinAcceptedUndisturbed'
  BY NextKeepsGuiPin
<1> QED BY <1>1, <1>2, <1>3, AnnounceInvariant, PTL DEF Spec
=============================================================================
