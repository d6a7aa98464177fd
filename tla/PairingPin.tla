----------------------------- MODULE PairingPin -----------------------------
(***************************************************************************)
(* The life of the pairing PIN: generateSession and persistSession of      *)
(* src/auth/session_manager.cpp, the start of the daemon and its PIN       *)
(* refresh thread (src/main.cpp), and the file the GUI picks to show it    *)
(* (src_gui/main.cpp).                                                     *)
(*                                                                         *)
(* A daemon that runs as root keeps its files in other directories than    *)
(* one that runs as a user, so "Users" names both the installations and    *)
(* their directories.  A daemon may be killed at any step and started      *)
(* again, as the same user or another.  An ofstream truncates its file     *)
(* when it opens it and writes when it closes it: two steps, between which *)
(* the file is Empty.                                                      *)
(***************************************************************************)
EXTENDS SessionManager

CONSTANTS
  Users, NoUser,
  Empty,          \* the content of a truncated file
  Concurrent,     \* a second daemon may be started while one runs
  IoFaults        \* which of "open" and "full" happen to ofstreams

ASSUME UserAssumption == NoUser \notin Users /\ Empty \notin Pins

VARIABLES
  pc,           \* where a user's daemon is
  currentPin,   \* m_currentPin
  recentPins,   \* m_recentPins
  announced,    \* the PIN that was logged, and given to the mDNS thread, last
  session,      \* last_session.json of each data directory
  ipc,          \* titanshare-pin.json of each IPC directory
  newest,       \* the IPC directory whose file was modified last
  listener,     \* who listens on the TCP port
  disturbed     \* history: a daemon was started next to another one, or could not
                \* open its file for the GUI

pinVars  == <<currentPin, recentPins>>
fileVars == <<session, ipc, newest>>
vars == <<pc, announced, listener, disturbed, pinVars, fileVars>>

(* The stops up to "announce" are the steps of persistSession, at startup  *)
(* and in the refresh thread alike.                                        *)
Stops == {"off", "openSession", "writeSession", "openIpc", "writeIpc", "announce", "bind", "up"}

TypeOK ==
  /\ pc \in [Users -> Stops]
  /\ currentPin \in [Users -> Pins \union {Empty}]
  /\ recentPins \in [Users -> Seq(Pins)]
  /\ \A u \in Users : Len(recentPins[u]) <= MAX_RECENT_PINS
  /\ announced \in [Users -> Pins \union {Empty}]
  /\ session \in [Users -> Pins \union {Empty}]
  /\ ipc \in [Users -> Pins \union {Empty}]
  /\ newest \in Users
  /\ listener \in Users \union {NoUser}
  /\ disturbed \in BOOLEAN

(* A machine where nothing was ever started. *)
Init ==
  /\ pc = [u \in Users |-> "off"]
  /\ currentPin = [u \in Users |-> Empty]
  /\ recentPins = [u \in Users |-> << >>]
  /\ announced = [u \in Users |-> Empty]
  /\ session = [u \in Users |-> Empty]
  /\ ipc = [u \in Users |-> Empty]
  /\ newest \in Users
  /\ listener = NoUser
  /\ disturbed = FALSE

Goto(u, stop) == pc' = [pc EXCEPT ![u] = stop]

-----------------------------------------------------------------------------
(* generateSession up to its call of persistSession: the PIN and the       *)
(* window change together, under m_mutex.                                  *)
Issue(u, pin) == currentPin' = [currentPin EXCEPT ![u] = pin]

AllOff == \A u \in Users : pc[u] = "off"

(* loadPersistedSession: the file may be missing, or cut off. *)
LoadPersistedSession(u) == session[u] # Empty

(* main: a new process reuses the persisted PIN if there is one. *)
Start(u) ==
  /\ pc[u] = "off"
  /\ Concurrent \/ AllOff
  /\ disturbed' = (disturbed \/ ~AllOff)
  /\ \/ LoadPersistedSession(u) /\ Issue(u, session[u])
     \/ ~LoadPersistedSession(u) /\ \E pin \in Pins : Issue(u, pin)
  /\ recentPins' = [recentPins EXCEPT ![u] = Remember(<< >>, currentPin'[u])]
  /\ Goto(u, "openSession")
  /\ UNCHANGED <<announced, listener, fileVars>>

(* The refresh thread of a daemon that runs. *)
RefreshPin(u) ==
  /\ pc[u] = "up"
  /\ \E pin \in Pins :
       /\ Issue(u, pin)
       /\ recentPins' = [recentPins EXCEPT ![u] = Remember(@, pin)]
  /\ Goto(u, "openSession")
  /\ UNCHANGED <<announced, listener, disturbed, fileVars>>

(* persistSession: the session file first, then the GUI's.  A file that    *)
(* cannot be opened is skipped; a full disk leaves it empty.               *)
OpenSession(u) ==
  /\ pc[u] = "openSession"
  /\ \/ /\ session' = [session EXCEPT ![u] = Empty]
        /\ Goto(u, "writeSession")
     \/ /\ "open" \in IoFaults
        /\ Goto(u, "openIpc")
        /\ UNCHANGED session
  /\ UNCHANGED <<announced, listener, disturbed, pinVars, ipc, newest>>

WriteSession(u) ==
  /\ pc[u] = "writeSession"
  /\ \/ session' = [session EXCEPT ![u] = currentPin[u]]
     \/ "full" \in IoFaults /\ UNCHANGED session
  /\ Goto(u, "openIpc")
  /\ UNCHANGED <<announced, listener, disturbed, pinVars, ipc, newest>>

OpenIpc(u) ==
  /\ pc[u] = "openIpc"
  /\ \/ /\ ipc' = [ipc EXCEPT ![u] = Empty]
        /\ newest' = u
        /\ Goto(u, "writeIpc")
        /\ UNCHANGED disturbed
     \/ /\ "open" \in IoFaults
        /\ Goto(u, "announce")
        /\ disturbed' = TRUE
        /\ UNCHANGED <<ipc, newest>>
  /\ UNCHANGED <<announced, listener, pinVars, session>>

WriteIpc(u) ==
  /\ pc[u] = "writeIpc"
  /\ \/ ipc' = [ipc EXCEPT ![u] = currentPin[u]] /\ newest' = u
     \/ "full" \in IoFaults /\ UNCHANGED <<ipc, newest>>
  /\ Goto(u, "announce")
  /\ UNCHANGED <<announced, listener, disturbed, pinVars, session>>

(* mdns.start or mdns.updatePin with currentKey(), and the line in the log *)
(* that shows the PIN (the TXT record leaves it out).  The port is bound   *)
(* only at the first time round.                                           *)
Announce_OnlyFirst(u) == IF listener = u THEN UNCHANGED announced
                         ELSE announced' = [announced EXCEPT ![u] = currentPin[u]]
AnnouncePin(u) == announced' = [announced EXCEPT ![u] = currentPin[u]]
Announce(u) ==
  /\ pc[u] = "announce"
  /\ AnnouncePin(u)
  /\ Goto(u, IF listener = u THEN "up" ELSE "bind")
  /\ UNCHANGED <<listener, disturbed, pinVars, fileVars>>

(* The process ends, and its memory with it.  No file is removed. *)
Exit(u) ==
  /\ Goto(u, "off")
  /\ currentPin' = [currentPin EXCEPT ![u] = Empty]
  /\ recentPins' = [recentPins EXCEPT ![u] = << >>]
  /\ announced' = [announced EXCEPT ![u] = Empty]
  /\ UNCHANGED <<disturbed, fileVars>>

(* TcpServer::run: when the port is taken, run() and then main() return. *)
Bind(u) ==
  /\ pc[u] = "bind"
  /\ \/ /\ listener = NoUser
        /\ listener' = u
        /\ Goto(u, "up")
        /\ UNCHANGED <<announced, disturbed, pinVars, fileVars>>
     \/ /\ listener # NoUser
        /\ Exit(u)
        /\ UNCHANGED listener

(* A signal or a crash, at any step. *)
Stop(u) ==
  /\ pc[u] # "off"
  /\ Exit(u)
  /\ listener' = IF listener = u THEN NoUser ELSE listener

Next ==
  \E u \in Users :
    \/ Start(u) \/ RefreshPin(u) \/ OpenSession(u) \/ WriteSession(u)
    \/ OpenIpc(u) \/ WriteIpc(u) \/ Announce(u) \/ Bind(u) \/ Stop(u)

Spec == Init /\ [][Next]_vars

-----------------------------------------------------------------------------
(* Properties. *)

(* getIpcFilePath of the GUI: the file that was modified last. *)
IpcFile_FixedOrder == CHOOSE u \in Users : TRUE
IpcFile == newest

(* Whatever the GUI reads at any moment, next to it a refresh, after any    *)
(* crash and restart as any user, is a PIN the daemon that listens accepts, *)
(* or no PIN at all ("the freshest writer is always the daemon currently    *)
(* listening").                                                             *)
GuiPinAccepted ==
  \A u \in Users : listener = u =>
    ipc[IpcFile] = Empty \/ ValidateKey(recentPins[u], ipc[IpcFile])

(* The same, as long as daemons run one at a time and can open the file     *)
(* that the GUI reads; their disks may be full, and they may be killed and  *)
(* started again, as the same user or another, at any step.                 *)
GuiPinAcceptedUndisturbed == disturbed \/ GuiPinAccepted

(* The same for the PIN the log shows, which follows generateSession         *)
(* outside its lock, whatever becomes of the files and whoever else starts   *)
(* a daemon.                                                                *)
AnnouncedPinAccepted ==
  \A u \in Users : listener = u => ValidateKey(recentPins[u], announced[u])
=============================================================================
