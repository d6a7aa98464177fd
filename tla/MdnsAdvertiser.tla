--------------------------- MODULE MdnsAdvertiser ---------------------------
(***************************************************************************)
(* The advertiser of the service on the LAN                                *)
(* (src/discovery/mdns_advertiser.cpp), from the moment start() has        *)
(* spawned its thread to the destructor.  Three threads share it:          *)
(*   - the loop, which owns the avahi objects and runs their callbacks;    *)
(*   - the PIN thread, which asks for a new record (updatePin);            *)
(*   - the main thread, which stops it, and destroys it.                   *)
(* They share m_running and m_pinDirty (atomic) and the plain pointer      *)
(* m_simplePoll, which the loop frees and stop() uses.  A step of a thread *)
(* is at most one access to those.                                         *)
(*                                                                         *)
(* The avahi daemon is external: it comes up, registers host and service   *)
(* names, finds collisions, fails, and reports what it does by events that *)
(* the loop takes in order, inside avahi_simple_poll_iterate.  A request   *)
(* for it to quit stays with a poll, which then returns at once.           *)
(***************************************************************************)
EXTENDS Integers, Sequences

CONSTANT MaxFaults   \* how often something goes wrong in avahi, all told

ASSUME FaultBoundAssumption == MaxFaults \in Nat

VARIABLES
  mainPc,      \* where the main thread is in stop()
  destroying,  \* it is the stop() of the destructor
  loopPc,      \* where the loop's thread is in runLoop
  ret,         \* what avahi_simple_poll_iterate returned
  running,     \* m_running
  pinDirty,    \* m_pinDirty
  simplePoll,  \* m_simplePoll is not null
  poll,        \* the object it points to, or pointed to
  quit,        \* the poll was asked to quit
  client,      \* m_client is not null
  group,       \* m_group and what the avahi daemon holds for it
  avahi,       \* the avahi daemon, as this client sees it
  events,      \* what it reported and the loop has not taken yet
  faults,      \* how often something went wrong
  raced,       \* history: the loop freed the poll while stop() read it
  usedFreed    \* history: a poll was used after it was freed

mainVars  == <<mainPc, destroying>>
loopVars  == <<loopPc, ret, client>>
pollVars  == <<simplePoll, poll, quit>>
avahiVars == <<group, avahi, events, faults>>
history   == <<raced, usedFreed>>
vars == <<mainVars, loopVars, running, pinDirty, pollVars, avahiVars, history>>

MainStops == {"serving", "load", "quit", "join", "gone"}
LoopStops ==
  {"newPoll", "newClient", "test", "iterate", "returned", "dirty", "clean", "reset",
   "freeClient", "freePoll", "forgetPoll", "clearRunning", "done"}

(* No group, or a group that is new or was reset; one whose service was     *)
(* added but not committed; committed; and announced on the LAN.            *)
Groups == {"none", "empty", "added", "committed", "established"}
Events == {"running", "registering", "collision", "failure"}

TypeOK ==
  /\ mainPc \in MainStops /\ destroying \in BOOLEAN
  /\ loopPc \in LoopStops /\ ret \in {-1, 0, 1}
  /\ running \in BOOLEAN /\ pinDirty \in BOOLEAN
  /\ simplePoll \in BOOLEAN /\ poll \in {"unborn", "live", "freed"} /\ quit \in BOOLEAN
  /\ client \in BOOLEAN /\ group \in Groups
  /\ avahi \in {"down", "registering", "running", "lost"}
  /\ events \in Seq(Events) /\ Len(events) <= 2 * MaxFaults + 1
  /\ faults \in 0..MaxFaults
  /\ raced \in BOOLEAN /\ usedFreed \in BOOLEAN

(* start() has returned: m_running was set before the thread was spawned. *)
Init ==
  /\ mainPc = "serving" /\ destroying = FALSE
  /\ loopPc = "newPoll" /\ ret = 0
  /\ running = TRUE /\ pinDirty = FALSE
  /\ simplePoll = FALSE /\ poll = "unborn" /\ quit = FALSE
  /\ client = FALSE /\ group = "none"
  /\ avahi \in {"down", "registering", "running"}
  /\ events = << >> /\ faults = 0
  /\ raced = FALSE /\ usedFreed = FALSE

Fault == faults < MaxFaults /\ faults' = faults + 1
NoFault == UNCHANGED faults

-----------------------------------------------------------------------------
(* The PIN thread: updatePin.  It is detached, and outlives stop(). *)
UpdatePin ==
  /\ mainPc # "gone"
  /\ pinDirty' = TRUE
  /\ UNCHANGED <<mainVars, loopVars, running, pollVars, avahiVars, history>>

-----------------------------------------------------------------------------
(* The main thread: stop(), when TcpServer::run has returned, and again in *)
(* the destructor.                                                         *)
MainGoes(from, to) == mainPc = from /\ mainPc' = to

Stop ==
  /\ MainGoes("serving", "load")
  /\ running' = FALSE
  /\ UNCHANGED <<destroying, loopVars, pinDirty, pollVars, avahiVars, history>>

LoadPoll ==
  /\ MainGoes("load", IF simplePoll THEN "quit" ELSE "join")
  /\ raced' = (raced \/ (simplePoll /\ loopPc = "forgetPoll"))
  /\ UNCHANGED <<destroying, loopVars, running, pinDirty, pollVars, avahiVars, usedFreed>>

QuitPoll ==
  /\ MainGoes("quit", "join")
  /\ quit' = (quit \/ poll = "live")
  /\ usedFreed' = (usedFreed \/ poll = "freed")
  /\ UNCHANGED <<destroying, loopVars, running, pinDirty, simplePoll, poll, avahiVars, raced>>

Join ==
  /\ MainGoes("join", IF destroying THEN "gone" ELSE "load")
  /\ loopPc = "done"
  /\ destroying' = TRUE
  /\ running' = FALSE
  /\ UNCHANGED <<loopVars, pinDirty, pollVars, avahiVars, history>>

MainStep == LoadPoll \/ QuitPoll \/ Join

-----------------------------------------------------------------------------
(* The avahi daemon.  A client that lost it is not told when it is back. *)

Reports(event) == events' = IF client THEN Append(events, event) ELSE events
avahiStepUnchanged == <<mainVars, loopVars, running, pinDirty, pollVars, history>>

ComesUp ==
  /\ avahi = "down" /\ avahi' = "running" /\ Reports("running")
  /\ UNCHANGED <<avahiStepUnchanged, group, faults>>

HostNameChanges ==
  /\ Fault
  /\ avahi = "running" /\ avahi' = "registering" /\ Reports("registering")
  /\ UNCHANGED <<avahiStepUnchanged, group>>

HostNameSettles ==
  /\ avahi = "registering" /\ avahi' = "running" /\ Reports("running")
  /\ UNCHANGED <<avahiStepUnchanged, group, faults>>

GoesAway ==
  /\ Fault
  /\ client /\ avahi # "lost" /\ avahi' = "lost" /\ Reports("failure")
  /\ UNCHANGED <<avahiStepUnchanged, group>>

Establishes ==
  /\ avahi = "running" /\ group = "committed" /\ group' = "established"
  /\ UNCHANGED <<avahiStepUnchanged, avahi, events, faults>>

(* The name is taken: the daemon drops the records and says so. *)
NameCollides ==
  /\ Fault
  /\ avahi = "running" /\ group \in {"committed", "established"} /\ group' = "empty"
  /\ Reports("collision")
  /\ UNCHANGED <<avahiStepUnchanged, avahi>>

GroupFails ==
  /\ Fault
  /\ avahi = "running" /\ group = "committed" /\ Reports("failure")
  /\ UNCHANGED <<avahiStepUnchanged, group, avahi>>

AvahiStep ==
  \/ ComesUp \/ HostNameChanges \/ HostNameSettles \/ GoesAway \/ Establishes
  \/ NameCollides \/ GroupFails

-----------------------------------------------------------------------------
(* The loop. *)

LoopGoes(from, to) == loopPc = from /\ loopPc' = to

(* createServices: the group is made if there is none, and a group that is *)
(* empty gets the service; each of the three calls may fail.  With no      *)
(* daemon they all do, and nothing changes.                                *)
CreateServices(g) ==
  IF g \in {"none", "empty"} /\ avahi # "lost"
  THEN \/ group' = "committed" /\ NoFault
       \/ group' \in {g, "empty", "added"} /\ Fault
  ELSE group' = g /\ NoFault

(* avahi_entry_group_reset, whose result nobody looks at. *)
AfterReset_Keeps(g) == g
AfterReset_Frees(g) == "freed"
AfterReset(g) == IF g = "none" \/ avahi = "lost" THEN g ELSE "empty"

(* m_running was set by start(), and is not set here. *)
ThreadBegins_SetsRunning == running' = TRUE
ThreadBegins == UNCHANGED running

NewPoll ==
  /\ \/ /\ LoopGoes("newPoll", "newClient")
        /\ simplePoll' = TRUE /\ poll' = "live"
        /\ NoFault
     \/ /\ LoopGoes("newPoll", "clearRunning")
        /\ Fault
        /\ UNCHANGED <<simplePoll, poll>>
  /\ ThreadBegins
  /\ UNCHANGED <<mainVars, ret, client, pinDirty, quit, group, avahi, events, history>>

(* A daemon that runs calls clientCallback before avahi_client_new returns; *)
(* one that does not is waited for (AVAHI_CLIENT_NO_FAIL).                  *)
NewClient ==
  /\ \/ /\ LoopGoes("newClient", "test")
        /\ client' = TRUE
        /\ IF avahi = "running" THEN CreateServices(group) ELSE NoFault /\ UNCHANGED group
     \/ /\ LoopGoes("newClient", "freePoll")
        /\ Fault
        /\ UNCHANGED <<client, group>>
  /\ UNCHANGED <<mainVars, ret, running, pinDirty, pollVars, avahi, events, history>>

(* while (m_running) *)
Test ==
  /\ LoopGoes("test", IF running THEN "iterate" ELSE "freeClient")
  /\ UNCHANGED <<mainVars, ret, client, running, pinDirty, pollVars, avahiVars, history>>

(* clientCallback and groupCallback. *)
Callback(event) ==
  \/ /\ event \in {"running", "collision"}
     /\ CreateServices(group)
     /\ UNCHANGED quit
  \/ /\ event = "registering"
     /\ group' = AfterReset(group)
     /\ NoFault /\ UNCHANGED quit
  \/ /\ event = "failure"
     /\ quit' = TRUE
     /\ NoFault /\ UNCHANGED group

(* Returns 1 when it was asked to quit, -1 when it fails, and 0 after an   *)
(* event or 1000 ms.                                                       *)
Iterate ==
  /\ LoopGoes("iterate", "returned")
  /\ \/ /\ quit /\ ret' = 1
        /\ NoFault /\ UNCHANGED <<quit, group, events>>
     \/ /\ ~quit /\ ret' = -1
        /\ Fault /\ UNCHANGED <<quit, group, events>>
     \/ /\ ~quit /\ events = << >> /\ ret' = 0
        /\ NoFault /\ UNCHANGED <<quit, group, events>>
     \/ /\ ~quit /\ events # << >> /\ ret' = 0
        /\ Callback(Head(events))
        /\ events' = Tail(events)
  /\ UNCHANGED <<mainVars, client, running, pinDirty, simplePoll, poll, avahi, history>>

Returned ==
  /\ LoopGoes("returned", IF ret = -1 \/ (ret = 1 /\ ~running) THEN "freeClient" ELSE "dirty")
  /\ UNCHANGED <<mainVars, ret, client, running, pinDirty, pollVars, avahiVars, history>>

(* if (m_pinDirty && m_group) *)
CheckDirty ==
  /\ LoopGoes("dirty", IF pinDirty /\ group # "none" THEN "clean" ELSE "test")
  /\ UNCHANGED <<mainVars, ret, client, running, pinDirty, pollVars, avahiVars, history>>

CleanDirty ==
  /\ LoopGoes("clean", "reset")
  /\ pinDirty' = FALSE
  /\ UNCHANGED <<mainVars, ret, client, running, pollVars, avahiVars, history>>

ReAdvertise ==
  /\ LoopGoes("reset", "test")
  /\ CreateServices(AfterReset(group))
  /\ UNCHANGED <<mainVars, ret, client, running, pinDirty, pollVars, avahi, events, history>>

(* Group and client go first, then the poll; the pointer after the object. *)
FreeClient ==
  /\ LoopGoes("freeClient", "freePoll")
  /\ group' = "none" /\ client' = FALSE /\ events' = << >>
  /\ UNCHANGED <<mainVars, ret, running, pinDirty, pollVars, avahi, faults, history>>

FreePoll ==
  /\ LoopGoes("freePoll", "forgetPoll")
  /\ poll' = "freed"
  /\ raced' = (raced \/ mainPc = "quit")
  /\ UNCHANGED <<mainVars, ret, client, running, pinDirty, simplePoll, quit, avahiVars,
                 usedFreed>>

PollForgotten_Kept == UNCHANGED simplePoll
PollForgotten == simplePoll' = FALSE

ForgetPoll ==
  /\ LoopGoes("forgetPoll", "clearRunning")
  /\ PollForgotten
  /\ UNCHANGED <<mainVars, ret, client, running, pinDirty, poll, quit, avahiVars, history>>

ClearRunning ==
  /\ LoopGoes("clearRunning", "done")
  /\ running' = FALSE
  /\ UNCHANGED <<mainVars, ret, client, pinDirty, pollVars, avahiVars, history>>

LoopStep ==
  \/ NewPoll \/ NewClient \/ Test \/ Iterate \/ Returned \/ CheckDirty \/ CleanDirty
  \/ ReAdvertise \/ FreeClient \/ FreePoll \/ ForgetPoll \/ ClearRunning

Next == UpdatePin \/ Stop \/ MainStep \/ AvahiStep \/ LoopStep

Spec == Init /\ [][Next]_vars

(* The threads are scheduled and the PIN thread wakes up every five        *)
(* minutes; a daemon that runs settles its names, and the records it holds *)
(* unless they are withdrawn first every time.                             *)
FairSpec ==
  /\ Spec
  /\ WF_vars(LoopStep) /\ WF_vars(MainStep) /\ WF_vars(UpdatePin)
  /\ WF_vars(HostNameSettles) /\ SF_vars(Establishes)

-----------------------------------------------------------------------------
(* Properties. *)

(* stop() hands avahi no poll the loop has freed, unless the loop frees it *)
(* in the very moment stop() looks at it: not after the loop died by       *)
(* itself, nor in the destructor's second stop().                          *)
NoUseAfterFree == usedFreed => raced

(* stop() returns, and the daemon exits, whenever it is called: before the *)
(* loop has made its poll, while it waits, after it died.                  *)
StopReturns == mainPc = "load" ~> mainPc = "gone"

(* A service that dropped out (a collision, a new host name, a record that *)
(* was not added or not committed) is back on the LAN in the end, while    *)
(* the loop is not told to quit and has the group it made.                 *)
ServiceComesBack ==
  []<>(group \in {"none", "established"} \/ quit \/ avahi = "lost" \/ mainPc # "serving")
=============================================================================
