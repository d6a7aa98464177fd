------------------------ MODULE MdnsAdvertiserProofs ------------------------
(***************************************************************************)
(* Proofs about MdnsAdvertiser, for any number of avahi faults: the poll   *)
(* is not used after it was freed but in the race that "raced" names, and  *)
(* the types, with the bound on the events that wait for the loop.         *)
(***************************************************************************)
EXTENDS MdnsAdvertiser, TLAPS

-----------------------------------------------------------------------------
(* The poll. *)

(* Only a loop on its way out leaves a freed poll, for one step the pointer *)
(* still points to it, and a stop() that holds the pointer then has raced.  *)
PollInv ==
  /\ NoUseAfterFree
  /\ poll = "freed" => loopPc \in {"forgetPoll", "clearRunning", "done"}
  /\ poll = "freed" /\ simplePoll => loopPc = "forgetPoll"
  /\ poll = "freed" /\ mainPc = "quit" => raced

LEMMA OthersKeepPoll ==
  ASSUME PollInv, UpdatePin \/ AvahiStep \/ UNCHANGED vars
  PROVE  PollInv'
<1>1. UNCHANGED <<mainPc, loopPc, simplePoll, poll, raced, usedFreed>>
  BY DEF UpdatePin, AvahiStep, ComesUp, HostNameChanges, HostNameSettles, GoesAway,
         Establishes, NameCollides, GroupFails, avahiStepUnchanged, vars, mainVars, loopVars,
         pollVars, history
<1> QED BY <1>1 DEF PollInv, NoUseAfterFree

LEMMA MainKeepsPoll ==
  ASSUME PollInv, Stop \/ MainStep
  PROVE  PollInv'
<1>1. CASE Stop
  BY <1>1 DEF Stop, MainGoes, loopVars, pollVars, history, PollInv, NoUseAfterFree
<1>2. CASE LoadPoll
  BY <1>2 DEF LoadPoll, MainGoes, loopVars, pollVars, PollInv, NoUseAfterFree
<1>3. CASE QuitPoll
  BY <1>3 DEF QuitPoll, MainGoes, loopVars, PollInv, NoUseAfterFree
<1>4. CASE Join
  BY <1>4 DEF Join, MainGoes, loopVars, pollVars, history, PollInv, NoUseAfterFree
<1> QED BY <1>1, <1>2, <1>3, <1>4 DEF MainStep

LEMMA LoopKeepsPoll ==
  ASSUME PollInv, LoopStep
  PROVE  PollInv'
<1>1. CASE NewPoll
  BY <1>1 DEF NewPoll, LoopGoes, mainVars, history, PollInv, NoUseAfterFree
<1>2. CASE FreePoll
  BY <1>2 DEF FreePoll, LoopGoes, mainVars, PollInv, NoUseAfterFree
<1>3. CASE ForgetPoll
  BY <1>3 DEF ForgetPoll, PollForgotten, LoopGoes, mainVars, history, PollInv, NoUseAfterFree
<1>4. CASE ClearRunning
  BY <1>4 DEF ClearRunning, LoopGoes, mainVars, pollVars, history, PollInv, NoUseAfterFree
<1>5. CASE NewClient \/ Test \/ Iterate \/ Returned \/ CheckDirty \/ CleanDirty
           \/ ReAdvertise \/ FreeClient
  <2>1. /\ loopPc \notin {"forgetPoll", "clearRunning", "done"}
        /\ UNCHANGED <<mainPc, simplePoll, poll, raced, usedFreed>>
    BY <1>5 DEF NewClient, Test, Iterate, Returned, CheckDirty, CleanDirty, ReAdvertise,
                FreeClient, LoopGoes, mainVars, pollVars, history
  <2> QED BY <2>1 DEF PollInv, NoUseAfterFree
<1> QED BY <1>1, <1>2, <1>3, <1>4, <1>5 DEF LoopStep

(* Whatever fails in avahi and whenever stop() is called, before the loop   *)
(* has its poll or after it died, stop() and the destructor hand avahi no   *)
(* freed poll, but for the one race.                                        *)
THEOREM FreedPollIsNotUsed == Spec => []NoUseAfterFree
<1>1. Init => PollInv
  BY DEF Init, PollInv, NoUseAfterFree
<1>2. PollInv /\ [Next]_vars => PollInv'
  BY OthersKeepPoll, MainKeepsPoll, LoopKeepsPoll DEF Next
<1>3. PollInv => NoUseAfterFree
  BY DEF PollInv
<1> QED BY <1>1, <1>2, <1>3, PTL DEF Spec

-----------------------------------------------------------------------------
(* Types. *)

(* A fault makes the daemon report at most twice, and a daemon that was not *)
(* up, or registers its name, has one more report to make.                  *)
EventBound ==
  Len(events) <= 2 * faults + (IF avahi \in {"down", "registering"} THEN 0 ELSE 1)

TypeInv == TypeOK /\ EventBound

LEMMA AvahiKeepsTypes ==
  ASSUME TypeInv, AvahiStep
  PROVE  TypeInv'
<1> USE FaultBoundAssumption
<1>1. UNCHANGED <<mainPc, destroying, loopPc, ret, client, running, pinDirty, simplePoll, poll,
                  quit, raced, usedFreed>>
  BY DEF AvahiStep, ComesUp, HostNameChanges, HostNameSettles, GoesAway, Establishes,
         NameCollides, GroupFails, avahiStepUnchanged, mainVars, loopVars, pollVars, history
<1>2. /\ group' \in Groups
      /\ avahi' \in {"down", "registering", "running", "lost"}
      /\ faults' \in 0..MaxFaults
  BY DEF AvahiStep, ComesUp, HostNameChanges, HostNameSettles, GoesAway, Establishes,
         NameCollides, GroupFails, TypeInv, TypeOK, Groups, Fault
<1>3. ASSUME NEW event \in Events, Reports(event)
      PROVE  events' \in Seq(Events) /\ Len(events') <= Len(events) + 1
  BY <1>3 DEF Reports, TypeInv, TypeOK
<1>4. events' \in Seq(Events) /\ EventBound'
  <2>1. CASE ComesUp
    BY <1>3, <2>1 DEF ComesUp, Events, EventBound, TypeInv, TypeOK
  <2>2. CASE HostNameChanges
    BY <1>3, <2>2 DEF HostNameChanges, Events, EventBound, TypeInv, TypeOK, Fault
  <2>3. CASE HostNameSettles
    BY <1>3, <2>3 DEF HostNameSettles, Events, EventBound, TypeInv, TypeOK
  <2>4. CASE GoesAway
    BY <1>3, <2>4 DEF GoesAway, Events, EventBound, TypeInv, TypeOK, Fault
  <2>5. CASE Establishes
    BY <2>5 DEF Establishes, EventBound, TypeInv, TypeOK
  <2>6. CASE NameCollides
    BY <1>3, <2>6 DEF NameCollides, Events, EventBound, TypeInv, TypeOK, Fault
  <2>7. CASE GroupFails
    BY <1>3, <2>7 DEF GroupFails, Events, EventBound, TypeInv, TypeOK, Fault
  <2> QED BY <2>1, <2>2, <2>3, <2>4, <2>5, <2>6, <2>7 DEF AvahiStep
<1>5. Len(events') <= 2 * MaxFaults + 1
  BY <1>2, <1>4 DEF EventBound
<1> QED BY <1>1, <1>2, <1>4, <1>5 DEF TypeInv, TypeOK

LEMMA MainKeepsTypes ==
  ASSUME TypeInv, Stop \/ MainStep \/ UpdatePin \/ UNCHANGED vars
  PROVE  TypeInv'
<1> USE DEF TypeInv, TypeOK, EventBound, MainStops, MainGoes, mainVars, loopVars, pollVars,
            avahiVars, history
<1>1. CASE Stop
  <2>1. running' \in BOOLEAN /\ mainPc' \in MainStops
    BY <1>1, Zenon DEF Stop
  <2> QED BY <1>1, <2>1 DEF Stop
<1>2. CASE LoadPoll
  <2>1. raced' \in BOOLEAN
    BY <1>2, Zenon DEF LoadPoll
  <2> QED BY <1>2, <2>1 DEF LoadPoll
<1>3. CASE QuitPoll
  <2>1. usedFreed' \in BOOLEAN /\ quit' \in BOOLEAN
    BY <1>3, Zenon DEF QuitPoll
  <2> QED BY <1>3, <2>1 DEF QuitPoll
<1>4. CASE Join
  <2>1. running' \in BOOLEAN /\ destroying' \in BOOLEAN
    BY <1>4, Zenon DEF Join
  <2> QED BY <1>4, <2>1 DEF Join
<1>5. CASE UpdatePin
  BY <1>5 DEF UpdatePin
<1>6. CASE UNCHANGED vars
  BY <1>6 DEF vars
<1> QED BY <1>1, <1>2, <1>3, <1>4, <1>5, <1>6 DEF MainStep

LEMMA CreateKeepsTypes ==
  ASSUME TypeInv, NEW g \in Groups, CreateServices(g)
  PROVE  group' \in Groups /\ faults' \in 0..MaxFaults /\ faults' >= faults
  BY FaultBoundAssumption DEF CreateServices, Groups, TypeInv, TypeOK, Fault, NoFault

(* Taking events off the queue, and counting faults, keep the bound.        *)
LEMMA LoopKeepsBound ==
  ASSUME TypeInv, faults' \in Nat, faults' >= faults, avahi' = avahi,
         Len(events') <= Len(events), Len(events') \in Nat
  PROVE  EventBound'
  BY FaultBoundAssumption DEF TypeInv, TypeOK, EventBound

LEMMA IterateKeepsTypes ==
  ASSUME TypeInv, Iterate
  PROVE  TypeInv'
<1>1. /\ UNCHANGED <<mainVars, client, running, pinDirty, simplePoll, poll, avahi, history>>
      /\ loopPc' = "returned"
  BY DEF Iterate, LoopGoes
<1>2. ret' \in {-1, 0, 1}
  BY DEF Iterate
<1>3. /\ group' \in Groups /\ faults' \in 0..MaxFaults /\ faults' >= faults
      /\ events' \in Seq(Events) /\ Len(events') <= Len(events)
  <2>1. CASE UNCHANGED <<group, events>> /\ (Fault \/ NoFault)
    BY <2>1, FaultBoundAssumption DEF TypeInv, TypeOK, Fault, NoFault
  <2>2. CASE events # << >> /\ Callback(Head(events)) /\ events' = Tail(events)
    <3>1. group' \in Groups /\ faults' \in 0..MaxFaults /\ faults' >= faults
      <4>1. group \in Groups /\ AfterReset(group) \in Groups
        BY DEF TypeInv, TypeOK, AfterReset, Groups
      <4> QED BY <2>2, <4>1, CreateKeepsTypes, FaultBoundAssumption
              DEF Callback, NoFault, TypeInv, TypeOK
    <3>2. events' \in Seq(Events) /\ Len(events') <= Len(events)
      BY <2>2 DEF TypeInv, TypeOK
    <3> QED BY <3>1, <3>2
  <2> QED BY <2>1, <2>2 DEF Iterate
<1>4. quit' \in BOOLEAN
  BY Zenon DEF Iterate, Callback, TypeInv, TypeOK
<1>5. EventBound'
  BY <1>1, <1>3, LoopKeepsBound
<1>6. Len(events') <= 2 * MaxFaults + 1
  BY <1>3, FaultBoundAssumption DEF TypeInv, TypeOK
<1> QED BY <1>1, <1>2, <1>3, <1>4, <1>5, <1>6
        DEF TypeInv, TypeOK, LoopStops, mainVars, history

LEMMA LoopKeepsTypes ==
  ASSUME TypeInv, LoopStep
  PROVE  TypeInv'
<1> USE DEF LoopGoes, LoopStops, mainVars, pollVars, avahiVars, history
<1>1. CASE Test \/ Returned \/ CheckDirty
  BY <1>1 DEF Test, Returned, CheckDirty, TypeInv, TypeOK, EventBound
<1>2. CASE CleanDirty
  <2>1. pinDirty' \in BOOLEAN
    BY <1>2, Zenon DEF CleanDirty
  <2> QED BY <1>2, <2>1 DEF CleanDirty, TypeInv, TypeOK, EventBound
<1>3. CASE NewPoll
  <2>1. faults' \in 0..MaxFaults /\ faults' >= faults
    BY <1>3, FaultBoundAssumption DEF NewPoll, Fault, NoFault, TypeInv, TypeOK
  <2>2. EventBound'
    BY <1>3, <2>1, LoopKeepsBound DEF NewPoll, TypeInv, TypeOK
  <2>3. simplePoll' \in BOOLEAN /\ running' \in BOOLEAN
    BY <1>3, Zenon DEF NewPoll, ThreadBegins, TypeInv, TypeOK
  <2> QED BY <1>3, <2>1, <2>2, <2>3 DEF NewPoll, TypeInv, TypeOK
<1>4. CASE NewClient
  <2>1. group' \in Groups /\ faults' \in 0..MaxFaults /\ faults' >= faults
    BY <1>4, CreateKeepsTypes, FaultBoundAssumption
       DEF NewClient, Fault, NoFault, TypeInv, TypeOK
  <2>2. EventBound'
    BY <1>4, <2>1, LoopKeepsBound DEF NewClient, TypeInv, TypeOK
  <2>3. client' \in BOOLEAN
    BY <1>4, Zenon DEF NewClient, TypeInv, TypeOK
  <2> QED BY <1>4, <2>1, <2>2, <2>3 DEF NewClient, TypeInv, TypeOK
<1>5. CASE Iterate
  BY <1>5, IterateKeepsTypes
<1>6. CASE ReAdvertise
  <2>1. AfterReset(group) \in Groups
    BY DEF TypeInv, TypeOK, AfterReset, Groups
  <2>2. group' \in Groups /\ faults' \in 0..MaxFaults /\ faults' >= faults
    BY <1>6, <2>1, CreateKeepsTypes DEF ReAdvertise
  <2>3. EventBound'
    BY <1>6, <2>2, LoopKeepsBound DEF ReAdvertise, TypeInv, TypeOK
  <2> QED BY <1>6, <2>2, <2>3 DEF ReAdvertise, TypeInv, TypeOK
<1>7. CASE FreeClient
  <2>1. events' \in Seq(Events) /\ Len(events') = 0 /\ group' \in Groups
    BY <1>7 DEF FreeClient, Groups
  <2>2. EventBound'
    BY <1>7, <2>1, LoopKeepsBound DEF FreeClient, TypeInv, TypeOK
  <2>3. client' \in BOOLEAN
    BY <1>7, Zenon DEF FreeClient
  <2> QED BY <1>7, <2>1, <2>2, <2>3, FaultBoundAssumption DEF FreeClient, TypeInv, TypeOK
<1>8. CASE FreePoll
  <2>1. raced' \in BOOLEAN
    BY <1>8, Zenon DEF FreePoll
  <2> QED BY <1>8, <2>1 DEF FreePoll, TypeInv, TypeOK, EventBound
<1>9. CASE ForgetPoll
  <2>1. simplePoll' \in BOOLEAN
    BY <1>9, Zenon DEF ForgetPoll, PollForgotten
  <2> QED BY <1>9, <2>1 DEF ForgetPoll, TypeInv, TypeOK, EventBound
<1>10. CASE ClearRunning
  <2>1. running' \in BOOLEAN
    BY <1>10, Zenon DEF ClearRunning
  <2> QED BY <1>10, <2>1 DEF ClearRunning, TypeInv, TypeOK, EventBound
<1> QED BY <1>1, <1>2, <1>3, <1>4, <1>5, <1>6, <1>7, <1>8, <1>9, <1>10 DEF LoopStep

(* The types hold for any number of faults; in particular the callbacks     *)
(* leave the group in a state createServices knows, and no more events wait *)
(* for the loop than the faults so far account for.                         *)
THEOREM AdvertiserTypeCorrect == Spec => []TypeOK
<1>1. ASSUME Init PROVE TypeInv
  <2>1. /\ destroying \in BOOLEAN /\ running \in BOOLEAN /\ pinDirty \in BOOLEAN
        /\ simplePoll \in BOOLEAN /\ quit \in BOOLEAN /\ client \in BOOLEAN
        /\ raced \in BOOLEAN /\ usedFreed \in BOOLEAN
    BY <1>1, Zenon DEF Init
  <2>2. events \in Seq(Events) /\ Len(events) = 0
    BY <1>1 DEF Init
  <2>3. /\ faults = 0 /\ 0 \in 0..MaxFaults
        /\ Len(events) <= 2 * MaxFaults + 1 /\ EventBound
    BY <1>1, <2>2, FaultBoundAssumption DEF Init, EventBound
  <2> QED BY <1>1, <2>1, <2>2, <2>3 DEF Init, TypeInv, TypeOK, MainStops, LoopStops, Groups
<1>2. TypeInv /\ [Next]_vars => TypeInv'
  BY AvahiKeepsTypes, MainKeepsTypes, LoopKeepsTypes DEF Next
<1>3. TypeInv => TypeOK
  BY DEF TypeInv
<1> QED BY <1>1, <1>2, <1>3, PTL DEF Spec
=============================================================================
