---------------------- MODULE BackendConnectionProofs ----------------------
(***************************************************************************)
(* For every number of faults and every length of the mailbox: the types   *)
(* of BackendConnection, that nothing uses the event connection while the  *)
(* system sleeps, and that the client learns of a connection restored.     *)
(***************************************************************************)
EXTENDS BackendConnection, SequenceTheorems, TLAPS

box == mail[Client]

BusType ==
  /\ mail \in [{Client} -> Seq(Messages)] /\ Len(box) <= MailMax
  /\ state \in [{Client} -> {"idle", "busy"}]

Flags == up \in BOOLEAN /\ stop \in BOOLEAN /\ reset \in BOOLEAN /\ hang \in BOOLEAN

NetType ==
  /\ faults \in 0..MaxFaults
  /\ link \in Links
  /\ control \in [Controls -> ControlStates]

Places == {"off", "open", "first", "loop", "lost", "timer", "held", "retry",
           "opened", "release", "failed", "pause"}

AppPlaces == {"awake", "join", "close client", "close scheduler", "asleep",
              "open scheduler", "start"}

HandlingType ==
  /\ \/ handling = Nothing /\ state[Client] = "idle"
     \/ handling # Nothing /\ handling.msg \in Messages /\ state[Client] = "busy"
  /\ eventPc \in Places /\ appPc \in AppPlaces

TypeInv == BusType /\ Flags /\ NetType /\ HandlingType

\* Every announcement leaves m_hang as its handling is to leave it: raised from
\* the first step of a DISCONNECTED on, put down by the last of a CONNECTED.
HangInv ==
  /\ handling.msg = "DISCONNECTED" /\ handling.at # "begin" => hang
  /\ handling.msg = "CONNECTED" /\ handling.at \in {"notify", "refresh"} => ~hang

\* The last word in the mailbox is that the backend is found ...
LastWordUp ==
  \E i \in 1..Len(box) :
    /\ box[i] = "CONNECTED"
    /\ \A j \in 1..Len(box) : j > i => box[j] # "DISCONNECTED"

\* ... or none there says that it is lost, and once the announcement in hand
\* is handled m_hang is down.
NoWordDown == \A i \in 1..Len(box) : box[i] # "DISCONNECTED"

HandUp == handling.msg = "CONNECTED" \/
          (~hang /\ ~(handling.msg = "DISCONNECTED" /\ handling.at = "begin"))

Heals == LastWordUp \/ (NoWordDown /\ HandUp)

\* From its announcement on, a connection that is open heals m_hang.
ConnectedInv ==
  eventPc \in {"loop", "timer", "held", "release"} /\ link # "none" => Heals

\* Elsewhere, but when it has just been opened, it is closed.
ClosedInv ==
  eventPc \in {"off", "open", "lost", "retry", "failed", "pause"} => link = "none"

IInv == TypeInv /\ HangInv /\ ConnectedInv /\ ClosedInv /\ AsleepIsDisconnected

-----------------------------------------------------------------------------
(* The mailbox.                                                            *)

\* An announcement is put behind the others.
LEMMA Posted ==
  ASSUME BusType, NEW m \in Messages, Announce(m)
  PROVE  /\ BusType' /\ state' = state
         /\ Len(box) \in Nat /\ Len(box') = Len(box) + 1
         /\ box'[Len(box) + 1] = m
         /\ \A i \in 1..Len(box) : box'[i] = box[i]
<1>1. /\ box \in Seq(Messages) /\ Len(box) < MailMax
      /\ mail' = [mail EXCEPT ![Client] = Append(box, m)] /\ state' = state
  BY DEF BusType, box, Announce, Bus!Post
<1>2. box' = Append(box, m)
  BY <1>1 DEF BusType, box
<1>3. /\ Append(box, m) \in Seq(Messages) /\ Append(box, m)[Len(box) + 1] = m
      /\ Len(Append(box, m)) = Len(box) + 1 /\ Len(box) \in Nat
      /\ \A i \in 1..Len(box) : Append(box, m)[i] = box[i]
  BY <1>1, AppendProperties, LenProperties
<1>4. mail' \in [{Client} -> Seq(Messages)]
  BY <1>1, <1>3 DEF BusType
<1>5. Len(box') <= MailMax
  BY <1>1, <1>2, <1>3, BoundAssumption
<1> QED BY <1>1, <1>2, <1>3, <1>4, <1>5 DEF BusType

\* The thread of the subscription takes the oldest one.
LEMMA Taken ==
  ASSUME BusType, Bus!Take(Client)
  PROVE  /\ BusType' /\ state[Client] = "idle" /\ state'[Client] = "busy"
         /\ Len(box) \in Nat \ {0} /\ Len(box') = Len(box) - 1
         /\ box[1] \in Messages /\ Head(mail[Client]) = box[1]
         /\ \A i \in 1..Len(box') : box'[i] = box[i + 1]
<1>1. /\ box \in Seq(Messages) /\ box # <<>>
      /\ mail' = [mail EXCEPT ![Client] = Tail(box)]
      /\ state[Client] = "idle" /\ state' = [state EXCEPT ![Client] = "busy"]
  BY DEF BusType, box, Bus!Take
<1>2. box' = Tail(box)
  BY <1>1 DEF BusType, box
<1>3. /\ Head(box) \in Messages /\ Tail(box) \in Seq(Messages)
      /\ Len(Tail(box)) = Len(box) - 1 /\ Head(box) = box[1]
      /\ Len(box) \in Nat \ {0}
      /\ \A i \in 1..Len(Tail(box)) : Tail(box)[i] = box[i + 1]
  BY <1>1, HeadTailProperties, EmptySeq, LenProperties
<1>4. mail' \in [{Client} -> Seq(Messages)] /\ state' \in [{Client} -> {"idle", "busy"}]
  BY <1>1, <1>3 DEF BusType
<1>5. Len(box') <= MailMax
  BY <1>2, <1>3, BoundAssumption DEF BusType
<1>6. state'[Client] = "busy"
  BY <1>1 DEF BusType
<1> QED BY <1>1, <1>2, <1>3, <1>4, <1>5, <1>6 DEF BusType, box

\* Its callback returns.
LEMMA Finished ==
  ASSUME BusType, Bus!Finish(Client)
  PROVE  BusType' /\ mail' = mail /\ state[Client] = "busy" /\ state'[Client] = "idle"
BY DEF BusType, box, Bus!Finish

LEMMA BusKept == BusType /\ UNCHANGED mailVars => BusType' /\ state' = state
BY DEF BusType, box, mailVars

-----------------------------------------------------------------------------
(* The connections.                                                        *)

Attempts == {"ok", "unreachable", "aborted", "unknown", "rejected"}

\* Opening a control connection leaves it in one of its states.
LEMMA AttemptType ==
  ASSUME NEW c \in ControlStates, NEW o \in Attempts
  PROVE  Attempt(c, o) \in ControlStates
BY DEF Attempt, Attempts, ControlStates, Hung, Closed, Links

LEMMA ReopenType ==
  ASSUME NEW c \in ControlStates, NEW o1 \in Attempts, NEW o2 \in Attempts
  PROVE  Reopen(c, o1, o2) \in ControlStates
<1>1. Attempt(c, o1) \in ControlStates /\ Attempt(c, o2) \in ControlStates
  BY AttemptType
<1>2. Attempt(Attempt(c, o1), o2) \in ControlStates
  BY <1>1, AttemptType
<1>3. c.hang \in BOOLEAN
  BY DEF ControlStates
<1> QED BY <1>1, <1>2, <1>3, Zenon DEF Reopen

\* An outcome that is not harmless is paid for with a fault that is left.
LEMMA OutcomeType ==
  ASSUME faults \in 0..MaxFaults, NEW o \in Outcomes
  PROVE  /\ o \in Attempts
         /\ o \in Harmless \/ faults + 1 \in 0..MaxFaults
BY BoundAssumption DEF Outcomes, Attempts, Harmless

LEMMA OpenControlType ==
  ASSUME NetType, NEW k \in Controls, OpenControl(k), link' = link
  PROVE  NetType'
<1>1. PICK o1 \in Outcomes, o2 \in Outcomes :
        /\ control' = [control EXCEPT ![k] = Reopen(@, o1, o2)]
        /\ faults' = IF {o1, o2} \subseteq Harmless THEN faults ELSE faults + 1
  BY DEF OpenControl
<1>2. Reopen(control[k], o1, o2) \in ControlStates
  BY OutcomeType, ReopenType DEF NetType
<1>3. control' \in [Controls -> ControlStates]
  BY <1>1, <1>2 DEF NetType
<1>4. faults' \in 0..MaxFaults
  BY <1>1, OutcomeType DEF NetType
<1> QED BY <1>3, <1>4 DEF NetType

LEMMA CloseControlType ==
  ASSUME NetType, NEW k \in Controls, CloseControl(k), link' \in Links
  PROVE  NetType'
<1>1. Closed \in ControlStates
  BY DEF Closed, ControlStates, Links
<1> QED BY <1>1 DEF NetType, CloseControl

LEMMA CommandType ==
  ASSUME NetType, NEW k \in Controls, Command(k)
  PROVE  NetType'
<1> DEFINE Use(c) == IF c.link \in {"dead", "mute"} THEN Hung ELSE c
<1>1. PICK o \in Outcomes :
        /\ control' = [control EXCEPT ![k] = Use(IF @.hang THEN Attempt(@, o) ELSE @)]
        /\ faults' = IF control[k].hang /\ o \notin Harmless THEN faults + 1 ELSE faults
  BY DEF Command
<1>2. \A c \in ControlStates : Use(c) \in ControlStates
  BY DEF Hung, ControlStates, Links
<1>3. control[k] \in ControlStates /\ Attempt(control[k], o) \in ControlStates
  BY OutcomeType, AttemptType DEF NetType
<1>4. control' \in [Controls -> ControlStates]
  <2>1. (IF control[k].hang THEN Attempt(control[k], o) ELSE control[k]) \in ControlStates
    BY <1>3
  <2>2. Use(IF control[k].hang THEN Attempt(control[k], o) ELSE control[k]) \in ControlStates
    BY <1>2, <2>1
  <2> QED BY <1>1, <2>2 DEF NetType
<1>5. faults' \in 0..MaxFaults
  BY <1>1, OutcomeType DEF NetType
<1>6. link' = link
  BY DEF Command, eventVars
<1> QED BY <1>4, <1>5, <1>6 DEF NetType

\* Faults of the network, which may also break the event connection.
LEMMA BreakType ==
  ASSUME NetType, NEW how \in {"dead", "mute"}, NEW event \in BOOLEAN, NEW S,
         Break(how, event, S)
  PROVE  NetType' /\ (link = "none" <=> link' = "none")
<1>1. faults' \in 0..MaxFaults
  BY BoundAssumption DEF Break, NetType
<1>2. link' \in Links /\ (link = "none" <=> link' = "none")
  BY DEF Break, NetType, Broken, Links
<1>3. control' \in [Controls -> ControlStates]
  <2>1. \A k \in Controls : control[k] \in ControlStates
    BY DEF NetType
  <2>2. \A c \in ControlStates : [c EXCEPT !.link = Broken(@, how)] \in ControlStates
    BY DEF ControlStates, Broken, Links
  <2>3. control' = [k \in Controls |->
                      IF k \in S THEN [control[k] EXCEPT !.link = Broken(@, how)]
                      ELSE control[k]]
    BY DEF Break, BreakControls
  <2> QED BY <2>1, <2>2, <2>3
<1> QED BY <1>1, <1>2, <1>3 DEF NetType

-----------------------------------------------------------------------------
(* The types.                                                              *)

\* The initial states.
LEMMA InitOK == Init => IInv
<1> SUFFICES ASSUME Init PROVE IInv
  OBVIOUS
<1> USE DEF Init
<1>1. BusType /\ Len(box) = 0
  <2>1. <<>> \in Seq(Messages) /\ Len(<<>>) = 0
    BY EmptySeq
  <2>2. mail[Client] = <<>>
    OBVIOUS
  <2> QED BY <2>1, <2>2, BoundAssumption DEF BusType, box
<1>2. Flags
  BY Zenon DEF Flags
<1>3. NetType
  <2>1. [Closed EXCEPT !.link = "live"] \in ControlStates
    BY DEF Closed, ControlStates, Links
  <2> QED BY <2>1, BoundAssumption DEF NetType, Links
<1>4. HandlingType
  BY DEF HandlingType, Nothing, Places, AppPlaces
<1>5. HangInv /\ ConnectedInv /\ ClosedInv /\ AsleepIsDisconnected
  BY DEF HangInv, ConnectedInv, ClosedInv, AsleepIsDisconnected, Nothing
<1> QED BY <1>1, <1>2, <1>3, <1>4, <1>5 DEF IInv, TypeInv

\* The flags stay Boolean.
LEMMA FlagStep == Flags /\ [Next]_vars => Flags'
<1> SUFFICES ASSUME Flags, [Next]_vars PROVE Flags'
  OBVIOUS
<1> USE DEF Flags
<1>1. CASE Network
  BY <1>1, Zenon DEF Network, Lose, Down, Up, Break, eventVars, clientVars
<1>2. CASE EventStep
  BY <1>2, Zenon DEF EventStep, EventThread, OpenEvent, FirstOpen, FirstAnnounce,
     Receive, AnnounceLost, AnnounceTimer, HonourReset, NoReset, RetryStops,
     RetryOpen, RetryAnnounce, ReleaseReset, RetryFailed, RetryPause,
     AnnounceStopped, clientVars
<1>3. CASE ClientStep
  BY <1>3, Zenon DEF ClientStep, Take, LoseBackend, FindBackend, Restored,
     LoseControl, FindControl, AskReset, CleanHanging, Finish, Handle, netVars,
     eventVars
<1>4. CASE Sleep \/ AppStep
  BY <1>4, Zenon DEF Sleep, AppStep, SleepJoin, SleepClose, WakeOpen, WakeStart,
     App, eventVars, clientVars
<1>5. CASE \E k \in Controls : Command(k)
  BY <1>5, Zenon DEF Command, eventVars, clientVars
<1>6. CASE UNCHANGED vars
  BY <1>6, Zenon DEF vars, netVars, eventVars, clientVars
<1> QED BY <1>1, <1>2, <1>3, <1>4, <1>5, <1>6 DEF Next

\* Outcomes of opening the event connection.
LEMMA OpenEventType ==
  ASSUME NetType, NEW opened, NEW failed, NEW from, OpenEvent(opened, failed, from)
  PROVE  /\ NetType' /\ UNCHANGED mailVars /\ UNCHANGED <<clientVars, control, appPc>>
         /\ eventPc = from
         /\ \/ eventPc' = opened /\ link' = "live"
            \/ eventPc' = failed /\ link' = "none"
<1>1. PICK o \in Outcomes :
        /\ EventThread(from, IF o = "ok" THEN opened ELSE failed)
        /\ link' = IF o = "ok" THEN "live" ELSE "none"
        /\ faults' = IF o \in Harmless THEN faults ELSE faults + 1
        /\ UNCHANGED mailVars
  BY DEF OpenEvent
<1>2. faults' \in 0..MaxFaults
  BY <1>1, OutcomeType DEF NetType
<1>3. link' \in Links /\ control' = control
  BY <1>1 DEF EventThread, Links
<1>4. NetType'
  BY <1>2, <1>3 DEF NetType
<1> QED BY <1>1, <1>4 DEF EventThread

\* The event thread keeps the types, and what it is at is its own.
LEMMA EventType ==
  ASSUME TypeInv, EventStep
  PROVE  BusType' /\ NetType' /\ HandlingType'
<1> USE DEF TypeInv
<1>1. CASE FirstOpen \/ RetryOpen
  <2>1. /\ NetType' /\ UNCHANGED mailVars /\ UNCHANGED <<clientVars, control, appPc>>
        /\ eventPc' \in Places
    <3>1. CASE FirstOpen
      BY <3>1, OpenEventType DEF FirstOpen, Places
    <3>2. CASE RetryOpen
      BY <3>2, OpenEventType DEF RetryOpen, Places
    <3> QED BY <1>1, <3>1, <3>2
  <2> QED BY <2>1, BusKept DEF HandlingType, clientVars
<1>2. ASSUME NEW m \in Messages, NEW from, NEW to \in Places, EventThread(from, to),
             Announce(m), UNCHANGED faults, link' \in Links
      PROVE  BusType' /\ NetType' /\ HandlingType'
  <2>1. BusType' /\ state' = state
    BY <1>2, Posted
  <2>2. NetType'
    BY <1>2 DEF NetType, EventThread
  <2>3. HandlingType'
    BY <1>2, <2>1 DEF HandlingType, EventThread, clientVars
  <2> QED BY <2>1, <2>2, <2>3
<1>3. ASSUME NEW from, NEW to \in Places, EventThread(from, to),
             UNCHANGED mailVars, UNCHANGED faults, link' \in Links
      PROVE  BusType' /\ NetType' /\ HandlingType'
  BY <1>3, BusKept DEF NetType, HandlingType, EventThread, clientVars
<1>4. link \in Links /\ "none" \in Links
  BY DEF NetType, Links
<1> USE DEF Places, Messages
<1>5. CASE FirstAnnounce
  BY <1>5, <1>2, <1>4 DEF FirstAnnounce
<1>6. CASE Receive
  <2>1. Heard(link) \in Places /\ link' \in Links
    BY <1>4, <1>6 DEF Receive, Heard
  <2>2. EventThread("loop", Heard(link)) /\ UNCHANGED mailVars /\ UNCHANGED faults
    BY <1>6 DEF Receive
  <2> QED BY <1>3, <2>1, <2>2
<1>7. CASE AnnounceLost
  BY <1>7, <1>2, <1>4 DEF AnnounceLost
<1>8. CASE AnnounceTimer
  BY <1>8, <1>2, <1>4 DEF AnnounceTimer
<1>9. CASE HonourReset
  BY <1>9, <1>3, <1>4 DEF HonourReset
<1>10. CASE NoReset
  BY <1>10, <1>3, <1>4 DEF NoReset
<1>11. CASE \E from \in {"retry", "pause"} : RetryStops(from)
  BY <1>11, <1>3, <1>4 DEF RetryStops
<1>12. CASE RetryAnnounce
  BY <1>12, <1>2, <1>4 DEF RetryAnnounce
<1>13. CASE ReleaseReset
  BY <1>13, <1>3, <1>4 DEF ReleaseReset
<1>14. CASE RetryFailed
  BY <1>14, <1>2, <1>4 DEF RetryFailed
<1>15. CASE RetryPause
  BY <1>15, <1>3, <1>4 DEF RetryPause
<1>16. CASE AnnounceStopped
  BY <1>16, <1>2, <1>4 DEF AnnounceStopped
<1> QED
  BY <1>1, <1>5, <1>6, <1>7, <1>8, <1>9, <1>10, <1>11, <1>12, <1>13, <1>14, <1>15,
     <1>16 DEF EventStep

\* So does the thread of the subscription.
LEMMA ClientType ==
  ASSUME TypeInv, ClientStep
  PROVE  BusType' /\ NetType' /\ HandlingType'
<1> USE DEF TypeInv
<1>1. CASE Take
  <2>1. /\ BusType' /\ state'[Client] = "busy" /\ Head(mail[Client]) \in Messages
    BY <1>1, Taken DEF Take
  <2>2. NetType'
    BY <1>1 DEF Take, NetType, netVars, eventVars
  <2>3. handling'.msg \in Messages /\ UNCHANGED <<eventPc, appPc>>
    BY <1>1, <2>1 DEF Take, eventVars
  <2>4. handling' # Nothing
    BY <2>3 DEF Nothing, Messages
  <2> QED BY <2>1, <2>2, <2>3, <2>4 DEF HandlingType
<1>2. CASE Finish
  <2>1. BusType' /\ state'[Client] = "idle" /\ handling' = Nothing
    BY <1>2, Finished DEF Finish, Done
  <2>2. NetType'
    BY <1>2 DEF Finish, NetType, netVars, eventVars
  <2> QED BY <1>2, <2>1, <2>2 DEF HandlingType, Finish, eventVars
<1>3. ASSUME NEW m \in Messages, NEW from, NEW to, Handle(m, from, to), NetType'
      PROVE  BusType' /\ NetType' /\ HandlingType'
  <2>1. BusType' /\ state' = state
    BY <1>3, BusKept DEF Handle
  <2>2. handling.msg = m /\ handling'.msg = m
    BY <1>3 DEF Handle
  <2>3. handling # Nothing /\ handling' # Nothing
    BY <2>2 DEF Nothing, Messages
  <2>4. UNCHANGED <<eventPc, appPc>>
    BY <1>3 DEF Handle, eventVars
  <2> QED BY <1>3, <2>1, <2>2, <2>3, <2>4 DEF HandlingType
<1>4. ASSUME NEW m, NEW from, NEW to, Handle(m, from, to), UNCHANGED <<faults, control>>
      PROVE  NetType'
  BY <1>4 DEF Handle, NetType, eventVars
<1>5. ASSUME NEW m, NEW from, NEW to, Handle(m, from, to)
      PROVE  link' = link /\ link \in Links
  BY <1>5 DEF Handle, NetType, eventVars
<1> USE DEF Messages
<1>6. CASE LoseBackend
  BY <1>3, <1>4, <1>6 DEF LoseBackend
<1>7. CASE FindBackend
  BY <1>3, <1>4, <1>7 DEF FindBackend
<1>8. CASE Restored
  BY <1>3, <1>4, <1>8 DEF Restored
<1>9. ASSUME NEW k \in Controls, LoseControl(k)
      PROVE  BusType' /\ NetType' /\ HandlingType'
  BY <1>3, <1>5, <1>9, CloseControlType DEF LoseControl
<1>10. ASSUME NEW k \in Controls, FindControl(k)
       PROVE  BusType' /\ NetType' /\ HandlingType'
  BY <1>3, <1>5, <1>10, OpenControlType DEF FindControl
<1>11. CASE AskReset
  BY <1>3, <1>4, <1>11 DEF AskReset
<1>12. CASE CleanHanging
  <2>1. control' \in [Controls -> ControlStates]
    BY <1>12 DEF CleanHanging, NetType, Controls, ControlStates
  <2>2. NetType'
    BY <1>5, <1>12, <2>1 DEF CleanHanging, NetType
  <2> QED BY <1>3, <1>12, <2>2 DEF CleanHanging
<1> QED
  BY <1>1, <1>2, <1>6, <1>7, <1>8, <1>9, <1>10, <1>11, <1>12 DEF ClientStep

\* So does Kodi, going to sleep and waking.
LEMMA AppType ==
  ASSUME TypeInv, Sleep \/ AppStep
  PROVE  BusType' /\ NetType' /\ HandlingType'
<1> USE DEF TypeInv
<1>1. ASSUME NEW from, NEW to \in AppPlaces, App(from, to), eventPc' \in Places, NetType'
      PROVE  BusType' /\ NetType' /\ HandlingType'
  BY <1>1, BusKept DEF App, HandlingType, clientVars
<1>2. link \in Links /\ "none" \in Links /\ eventPc \in Places /\ "open" \in Places
  BY DEF NetType, Links, HandlingType, Places
<1> USE DEF AppPlaces, Controls
<1>3. CASE Sleep
  BY <1>1, <1>2, <1>3 DEF Sleep, NetType
<1>4. CASE SleepJoin
  BY <1>1, <1>2, <1>4 DEF SleepJoin, NetType
<1>5. ASSUME NEW k \in Controls, NEW from, NEW to \in AppPlaces, SleepClose(k, from, to)
      PROVE  BusType' /\ NetType' /\ HandlingType'
  BY <1>1, <1>2, <1>5, CloseControlType DEF SleepClose, eventVars
<1>6. ASSUME NEW k \in Controls, NEW from, NEW to \in AppPlaces, WakeOpen(k, from, to)
      PROVE  BusType' /\ NetType' /\ HandlingType'
  BY <1>1, <1>2, <1>6, OpenControlType DEF WakeOpen, eventVars
<1>7. CASE WakeStart
  BY <1>1, <1>2, <1>7 DEF WakeStart, NetType
<1> QED BY <1>3, <1>4, <1>5, <1>6, <1>7 DEF AppStep

\* Every step preserves the types.
LEMMA TypeStep == TypeInv /\ [Next]_vars => TypeInv'
<1> SUFFICES ASSUME TypeInv, [Next]_vars PROVE BusType' /\ NetType' /\ HandlingType'
  BY FlagStep DEF TypeInv
<1> USE DEF TypeInv
<1>1. ASSUME UNCHANGED <<eventPc, mailVars, handling, appPc>>
      PROVE  BusType' /\ HandlingType'
  BY <1>1, BusKept DEF HandlingType
<1>2. ASSUME NEW how \in {"dead", "mute"}, NEW event \in BOOLEAN, NEW S,
             Break(how, event, S)
      PROVE  BusType' /\ NetType' /\ HandlingType'
  BY <1>1, <1>2, BreakType DEF Break, clientVars
<1>3. CASE Lose \/ Down
  BY <1>2, <1>3 DEF Lose, Down
<1>4. CASE Up
  BY <1>1, <1>4 DEF Up, NetType, eventVars, clientVars
<1>5. CASE \E k \in Controls : Command(k)
  <2>1. PICK k \in Controls : Command(k)
    BY <1>5
  <2>2. NetType'
    BY <2>1, CommandType
  <2> QED BY <1>1, <2>1, <2>2 DEF Command, eventVars, clientVars
<1>6. CASE UNCHANGED vars
  BY <1>1, <1>6 DEF vars, netVars, eventVars, clientVars, NetType
<1> QED
  BY <1>3, <1>4, <1>5, <1>6, EventType, ClientType, AppType DEF Next, Network

-----------------------------------------------------------------------------
(* While the system sleeps.                                                *)

\* Once the thread is off nothing opens the event connection before Start.
LEMMA AsleepStep == TypeInv /\ AsleepIsDisconnected /\ [Next]_vars => AsleepIsDisconnected'
<1> SUFFICES ASSUME TypeInv, AsleepIsDisconnected, [Next]_vars
             PROVE  AsleepIsDisconnected'
  OBVIOUS
<1> USE DEF AsleepIsDisconnected
<1>1. ASSUME UNCHANGED <<eventPc, appPc>>, link = "none" <=> link' = "none"
      PROVE  AsleepIsDisconnected'
  BY <1>1
<1>2. CASE Lose \/ Down
  <2>1. PICK how \in {"dead", "mute"}, event \in BOOLEAN, S \in SUBSET Controls :
          Break(how, event, S)
    BY <1>2 DEF Lose, Down
  <2>2. link = "none" <=> link' = "none"
    BY <2>1, BreakType DEF TypeInv
  <2> QED BY <1>1, <2>1, <2>2 DEF Break
<1>3. CASE Up
  BY <1>1, <1>3 DEF Up, eventVars
<1>4. CASE EventStep
  <2>1. appPc' = appPc /\ eventPc # "off"
    BY <1>4 DEF EventStep, EventThread, OpenEvent, FirstOpen, FirstAnnounce,
       Receive, AnnounceLost, AnnounceTimer, HonourReset, NoReset, RetryStops,
       RetryOpen, RetryAnnounce, ReleaseReset, RetryFailed, RetryPause,
       AnnounceStopped
  <2> QED BY <2>1
<1>5. CASE ClientStep
  <2>1. UNCHANGED <<eventPc, link, appPc>>
    BY <1>5 DEF ClientStep, Take, LoseBackend, FindBackend, Restored, LoseControl,
       FindControl, AskReset, CleanHanging, Finish, Handle, eventVars
  <2> QED BY <1>1, <2>1
<1>6. CASE Sleep
  BY <1>6 DEF Sleep, App
<1>7. CASE SleepJoin
  BY <1>7 DEF SleepJoin, App, Joined
<1>8. CASE \/ SleepClose("scheduler", "close scheduler", "close client")
           \/ SleepClose("client", "close client", "asleep")
           \/ WakeOpen("client", "asleep", "open scheduler")
           \/ WakeOpen("scheduler", "open scheduler", "start")
  BY <1>8 DEF SleepClose, WakeOpen, App, eventVars
<1>9. CASE WakeStart
  BY <1>9 DEF WakeStart, App
<1>10. CASE \E k \in Controls : Command(k)
  BY <1>1, <1>10 DEF Command, eventVars
<1>11. CASE UNCHANGED vars
  BY <1>1, <1>11 DEF vars, eventVars
<1> QED
  BY <1>2, <1>3, <1>4, <1>5, <1>6, <1>7, <1>8, <1>9, <1>10, <1>11
     DEF Next, Network, AppStep

-----------------------------------------------------------------------------
(* What the client knows.                                                  *)

\* Only the thread of the subscription changes m_hang and what it handles.
LEMMA ClientAlone ==
  ASSUME [Next]_vars, ~ClientStep
  PROVE  UNCHANGED clientVars
BY DEF Next, Network, Lose, Down, Up, Break, EventStep, EventThread, OpenEvent,
   FirstOpen, FirstAnnounce, Receive, AnnounceLost, AnnounceTimer, HonourReset,
   NoReset, RetryStops, RetryOpen, RetryAnnounce, ReleaseReset, RetryFailed,
   RetryPause, AnnounceStopped, Sleep, AppStep, SleepJoin, SleepClose, WakeOpen,
   WakeStart, App, Command, vars

\* What each of its steps does to m_hang and to the message in hand.
LEMMA ClientSteps ==
  ASSUME ClientStep
  PROVE  \/ /\ Bus!Take(Client) /\ hang' = hang
            /\ handling' = [msg |-> Head(mail[Client]), at |-> "begin"]
         \/ /\ Bus!Finish(Client) /\ hang' = hang
            /\ handling' = Nothing /\ Over
         \/ /\ UNCHANGED mailVars /\ hang' = TRUE
            /\ handling = [msg |-> "DISCONNECTED", at |-> "begin"]
            /\ handling'.msg = "DISCONNECTED" /\ handling'.at = "client"
         \/ /\ UNCHANGED mailVars /\ hang' = FALSE
            /\ handling.msg = "CONNECTED" /\ handling'.msg = "CONNECTED"
         \/ /\ UNCHANGED mailVars /\ hang' = hang
            /\ handling'.msg = handling.msg
            /\ handling.msg = "DISCONNECTED" => handling.at # "begin"
            /\ handling'.at \in {"notify", "refresh"} =>
                 handling.msg = "CONNECTED" /\ handling.at = "begin" /\ ~hang
            /\ handling'.at # "begin"
<1>1. CASE Take
  BY <1>1 DEF Take
<1>2. CASE LoseBackend
  BY <1>2 DEF LoseBackend, Handle
<1>3. CASE FindBackend
  BY <1>3 DEF FindBackend, Handle
<1>4. CASE Restored
  BY <1>4 DEF Restored, Handle
<1>5. ASSUME NEW k \in Controls, LoseControl(k) \/ FindControl(k)
      PROVE  /\ UNCHANGED mailVars /\ hang' = hang /\ handling'.msg = handling.msg
             /\ handling.at # "begin" /\ handling'.at \in {"scheduler", "done"}
  BY <1>5 DEF LoseControl, FindControl, Handle, Controls, After
<1>6. CASE AskReset \/ CleanHanging
  BY <1>6 DEF AskReset, CleanHanging, Handle
<1>7. CASE Finish
  BY <1>7 DEF Finish, Done
<1> QED BY <1>1, <1>2, <1>3, <1>4, <1>5, <1>6, <1>7 DEF ClientStep

LEMMA HangStep == TypeInv /\ HangInv /\ [Next]_vars => HangInv'
<1> SUFFICES ASSUME TypeInv, HangInv, [Next]_vars PROVE HangInv'
  OBVIOUS
<1> USE DEF HangInv
<1>1. CASE ~ClientStep
  BY <1>1, ClientAlone DEF clientVars
<1>2. CASE ClientStep
  <2>1. CASE handling' = [msg |-> Head(mail[Client]), at |-> "begin"]
    BY <2>1
  <2>2. CASE handling' = Nothing
    BY <2>2 DEF Nothing
  <2>3. CASE hang' = TRUE /\ handling'.msg = "DISCONNECTED"
    BY <2>3
  <2>4. CASE hang' = FALSE /\ handling'.msg = "CONNECTED"
    BY <2>4
  <2>5. CASE /\ hang' = hang /\ handling'.msg = handling.msg
             /\ handling.msg = "DISCONNECTED" => handling.at # "begin"
             /\ handling'.at \in {"notify", "refresh"} =>
                  handling.msg = "CONNECTED" /\ handling.at = "begin" /\ ~hang
    BY <2>5, Zenon
  <2> QED BY <1>2, <2>1, <2>2, <2>3, <2>4, <2>5, ClientSteps
<1> QED BY <1>1, <1>2

\* An announcement other than DISCONNECTED leaves a mailbox that heals as it is,
\* and CONNECTED makes it one.
LEMMA HealsPosted ==
  ASSUME BusType, NEW m \in Messages, Announce(m), UNCHANGED clientVars,
         m = "CONNECTED" \/ (Heals /\ m # "DISCONNECTED")
  PROVE  Heals'
<1>1. /\ Len(box) \in Nat /\ Len(box') = Len(box) + 1 /\ box'[Len(box) + 1] = m
      /\ \A i \in 1..Len(box) : box'[i] = box[i]
  BY Posted
<1>2. CASE m = "CONNECTED"
  <2>1. LastWordUp'
    BY <1>1, <1>2 DEF LastWordUp
  <2> QED BY <2>1 DEF Heals
<1>3. CASE LastWordUp /\ m # "DISCONNECTED"
  <2>1. PICK i \in 1..Len(box) :
          /\ box[i] = "CONNECTED"
          /\ \A j \in 1..Len(box) : j > i => box[j] # "DISCONNECTED"
    BY <1>3 DEF LastWordUp
  <2>2. i \in 1..Len(box') /\ box'[i] = "CONNECTED"
    BY <1>1, <2>1
  <2>3. ASSUME NEW j \in 1..Len(box'), j > i PROVE box'[j] # "DISCONNECTED"
    <3>1. j \in 1..Len(box) \/ j = Len(box) + 1
      BY <1>1
    <3> QED BY <1>1, <1>3, <2>1, <2>3, <3>1
  <2> QED BY <2>2, <2>3 DEF Heals, LastWordUp
<1>4. CASE NoWordDown /\ HandUp /\ m # "DISCONNECTED"
  <2>1. HandUp'
    BY <1>4 DEF HandUp, clientVars
  <2>2. ASSUME NEW j \in 1..Len(box') PROVE box'[j] # "DISCONNECTED"
    <3>1. j \in 1..Len(box) \/ j = Len(box) + 1
      BY <1>1
    <3> QED BY <1>1, <1>4, <3>1 DEF NoWordDown
  <2> QED BY <2>1, <2>2 DEF Heals, NoWordDown
<1> QED BY <1>2, <1>3, <1>4 DEF Heals

\* A mailbox that heals does so when its oldest announcement has been taken ...
LEMMA HealsTaken ==
  ASSUME TypeInv, Heals, Bus!Take(Client), hang' = hang,
         handling' = [msg |-> Head(mail[Client]), at |-> "begin"]
  PROVE  Heals'
<1>1. /\ state[Client] = "idle" /\ Len(box) \in Nat \ {0} /\ Len(box') = Len(box) - 1
      /\ Head(mail[Client]) = box[1]
      /\ \A i \in 1..Len(box') : box'[i] = box[i + 1]
  BY Taken DEF TypeInv
<1>2. handling = Nothing /\ handling'.msg = box[1]
  BY <1>1 DEF TypeInv, HandlingType
<1>3. CASE LastWordUp
  <2>1. PICK i \in 1..Len(box) :
          /\ box[i] = "CONNECTED"
          /\ \A j \in 1..Len(box) : j > i => box[j] # "DISCONNECTED"
    BY <1>3 DEF LastWordUp
  <2>2. CASE i = 1
    <3>1. \A j \in 1..Len(box') : box'[j] # "DISCONNECTED"
      BY <1>1, <2>1, <2>2
    <3> QED BY <1>2, <2>1, <2>2, <3>1 DEF Heals, NoWordDown, HandUp
  <2>3. CASE i # 1
    <3>1. i - 1 \in 1..Len(box') /\ box'[i - 1] = "CONNECTED"
      BY <1>1, <2>1, <2>3
    <3>2. \A j \in 1..Len(box') : j > i - 1 => box'[j] # "DISCONNECTED"
      BY <1>1, <2>1
    <3> QED BY <3>1, <3>2 DEF Heals, LastWordUp
  <2> QED BY <2>2, <2>3
<1>4. CASE NoWordDown /\ HandUp
  <2>1. ~hang /\ box[1] # "DISCONNECTED"
    BY <1>1, <1>2, <1>4 DEF HandUp, NoWordDown, Nothing
  <2>2. \A j \in 1..Len(box') : box'[j] # "DISCONNECTED"
    BY <1>1, <1>4 DEF NoWordDown
  <2> QED BY <1>2, <2>1, <2>2 DEF Heals, NoWordDown, HandUp
<1> QED BY <1>3, <1>4 DEF Heals

\* ... and at every step of its handling.
LEMMA HealsHandled ==
  ASSUME TypeInv, HangInv, Heals, ClientStep
  PROVE  Heals'
<1>1. CASE Bus!Take(Client) /\ hang' = hang
             /\ handling' = [msg |-> Head(mail[Client]), at |-> "begin"]
  BY <1>1, HealsTaken
<1>2. ASSUME mail' = mail, HandUp => HandUp' PROVE Heals'
  <2>1. box' = box
    BY <1>2 DEF box
  <2> QED BY <1>2, <2>1 DEF Heals, LastWordUp, NoWordDown
<1>3. CASE Bus!Finish(Client) /\ hang' = hang /\ handling' = Nothing /\ Over
  <2>1. mail' = mail
    BY <1>3, Finished DEF TypeInv
  <2>2. HandUp => HandUp'
    BY <1>3 DEF HandUp, Nothing, Over, HangInv
  <2> QED BY <1>2, <2>1, <2>2
<1>4. ASSUME UNCHANGED mailVars, HandUp => HandUp' PROVE Heals'
  BY <1>2, <1>4 DEF mailVars
<1>5. CASE UNCHANGED mailVars /\ handling = [msg |-> "DISCONNECTED", at |-> "begin"]
  BY <1>4, <1>5 DEF HandUp
<1>6. CASE UNCHANGED mailVars /\ handling'.msg = "CONNECTED"
  BY <1>4, <1>6 DEF HandUp
<1>7. CASE /\ UNCHANGED mailVars /\ hang' = hang /\ handling'.msg = handling.msg
           /\ handling.msg = "DISCONNECTED" => handling.at # "begin"
           /\ handling'.at # "begin"
  <2>1. HandUp => HandUp'
    BY <1>7, Zenon DEF HandUp
  <2> QED BY <1>4, <1>7, <2>1
<1> QED BY <1>1, <1>3, <1>5, <1>6, <1>7, ClientSteps

\* Where no announcement is made, a mailbox that heals does.
LEMMA HealsKept == Heals /\ UNCHANGED <<mail, clientVars>> => Heals'
BY DEF Heals, LastWordUp, NoWordDown, HandUp, box, clientVars

\* Every step of the event thread: the connection that is open has been
\* announced, or is about to be.
LEMMA EventConnected ==
  ASSUME IInv, EventStep
  PROVE  ConnectedInv' /\ ClosedInv'
<1> USE DEF ConnectedInv, ClosedInv
<1>b. BusType /\ NetType /\ TypeInv /\ ConnectedInv /\ ClosedInv
  BY DEF IInv, TypeInv
<1>1. CASE FirstOpen
  BY <1>1, <1>b, OpenEventType DEF FirstOpen
<1>2. CASE RetryOpen
  BY <1>2, <1>b, OpenEventType DEF RetryOpen
<1>3. CASE FirstAnnounce
  <2>1. Heals'
    BY <1>3, <1>b, HealsPosted DEF FirstAnnounce, EventThread, Messages
  <2> QED BY <1>3, <2>1 DEF FirstAnnounce, EventThread
<1>4. CASE Receive
  <2>1. Heals => Heals'
    BY <1>4, HealsKept DEF Receive, EventThread, mailVars
  <2> QED BY <1>4, <1>b, <2>1 DEF Receive, EventThread, Heard
<1>5. CASE AnnounceLost
  BY <1>5, <1>b DEF AnnounceLost, EventThread
<1>6. CASE AnnounceTimer
  <2>1. eventPc = "timer" /\ eventPc' = "held" /\ link' = link
    BY <1>6 DEF AnnounceTimer, EventThread
  <2>2. Heals => Heals'
    BY <1>6, <1>b, HealsPosted DEF AnnounceTimer, EventThread, Messages
  <2> QED BY <1>b, <2>1, <2>2
<1>7. CASE HonourReset
  BY <1>7 DEF HonourReset, EventThread
<1>8. CASE NoReset \/ ReleaseReset
  <2>1. Heals => Heals'
    BY <1>8, HealsKept DEF NoReset, ReleaseReset, EventThread, mailVars
  <2> QED BY <1>8, <1>b, <2>1 DEF NoReset, ReleaseReset, EventThread
<1>9. CASE \E from \in {"retry", "pause"} : RetryStops(from)
  BY <1>9, <1>b DEF RetryStops, EventThread
<1>10. CASE RetryAnnounce
  <2>1. Heals'
    BY <1>10, <1>b, HealsPosted DEF RetryAnnounce, EventThread, Messages
  <2> QED BY <1>10, <2>1 DEF RetryAnnounce, EventThread
<1>11. CASE RetryFailed \/ RetryPause
  BY <1>11, <1>b DEF RetryFailed, RetryPause, EventThread
<1>12. CASE AnnounceStopped
  BY <1>12 DEF AnnounceStopped, EventThread
<1> QED
  BY <1>1, <1>2, <1>3, <1>4, <1>5, <1>6, <1>7, <1>8, <1>9, <1>10, <1>11, <1>12
     DEF EventStep

\* So does every other step.
LEMMA ConnectedStep == IInv /\ [Next]_vars => ConnectedInv' /\ ClosedInv'
<1> SUFFICES ASSUME IInv, [Next]_vars PROVE ConnectedInv' /\ ClosedInv'
  OBVIOUS
<1>b. TypeInv /\ HangInv /\ ConnectedInv /\ ClosedInv /\ AsleepIsDisconnected
  BY DEF IInv
<1>1. ASSUME UNCHANGED <<eventPc, mail, clientVars>>, link = "none" <=> link' = "none"
      PROVE  ConnectedInv' /\ ClosedInv'
  BY <1>1, <1>b, HealsKept DEF ConnectedInv, ClosedInv
<1>2. CASE Lose \/ Down
  <2>1. PICK how \in {"dead", "mute"}, event \in BOOLEAN, S \in SUBSET Controls :
          Break(how, event, S)
    BY <1>2 DEF Lose, Down
  <2>2. link = "none" <=> link' = "none"
    BY <2>1, <1>b, BreakType DEF TypeInv
  <2> QED BY <1>1, <2>1, <2>2 DEF Break, mailVars
<1>3. CASE Up
  BY <1>1, <1>3 DEF Up, eventVars, mailVars
<1>4. CASE ClientStep
  <2>1. UNCHANGED <<eventPc, link>>
    BY <1>4 DEF ClientStep, Take, LoseBackend, FindBackend, Restored, LoseControl,
       FindControl, AskReset, CleanHanging, Finish, Handle, eventVars
  <2>2. Heals => Heals'
    BY <1>4, <1>b, HealsHandled
  <2> QED BY <1>b, <2>1, <2>2 DEF ConnectedInv, ClosedInv
<1>5. CASE Sleep
  BY <1>1, <1>5 DEF Sleep, App, mailVars
<1>6. CASE SleepJoin
  BY <1>6, <1>b DEF SleepJoin, App, Joined, ConnectedInv, ClosedInv
<1>7. CASE \/ SleepClose("scheduler", "close scheduler", "close client")
           \/ SleepClose("client", "close client", "asleep")
           \/ WakeOpen("client", "asleep", "open scheduler")
           \/ WakeOpen("scheduler", "open scheduler", "start")
  BY <1>1, <1>7 DEF SleepClose, WakeOpen, App, eventVars, mailVars
<1>8. CASE WakeStart
  BY <1>8, <1>b DEF WakeStart, App, AsleepIsDisconnected, ConnectedInv, ClosedInv
<1>9. CASE \E k \in Controls : Command(k)
  BY <1>1, <1>9 DEF Command, eventVars, mailVars
<1>10. CASE UNCHANGED vars
  BY <1>1, <1>10 DEF vars, eventVars, mailVars
<1> QED
  BY <1>2, <1>3, <1>4, <1>5, <1>6, <1>7, <1>8, <1>9, <1>10, EventConnected
     DEF Next, Network, AppStep

-----------------------------------------------------------------------------
(* The theorems.                                                           *)

\* The invariant is inductive.
LEMMA Inductive == Safe => []IInv
<1>1. IInv /\ [Next]_vars => IInv'
  BY TypeStep, HangStep, AsleepStep, ConnectedStep DEF IInv
<1> QED BY InitOK, <1>1, PTL DEF Safe

\* Whatever the faults: the types, and that the thread of the subscription has
\* a message in hand exactly while it is in HandleBackendMessage.
THEOREM TypeCorrect == Safe => []TypeOK
<1>1. IInv => TypeOK
  <2> SUFFICES ASSUME IInv PROVE TypeOK
    OBVIOUS
  <2>1. BusType /\ Flags /\ NetType /\ HandlingType
    BY DEF IInv, TypeInv
  <2>2. up \in BOOLEAN /\ {stop, reset, hang} \subseteq BOOLEAN
    BY <2>1, Zenon DEF Flags
  <2>3. (handling # Nothing) = (state[Client] = "busy")
    BY <2>1 DEF HandlingType
  <2>4. handling = Nothing \/ handling.msg \in Messages
    BY <2>1 DEF HandlingType
  <2>5. mail[Client] \in Seq(Messages) /\ Len(mail[Client]) <= MailMax
        /\ state[Client] \in {"idle", "busy"}
    BY <2>1 DEF BusType, box
  <2> QED
    BY <2>1, <2>2, <2>3, <2>4, <2>5
       DEF TypeOK, NetType, HandlingType, Places, AppPlaces
<1> QED BY Inductive, <1>1, PTL

\* Whatever the event thread was doing when it was told to stop: from the
\* return of BasicEventHandler::Stop until Start it is off and the event
\* connection closed.
THEOREM SleepDisconnects == Safe => []AsleepIsDisconnected
<1>1. IInv => AsleepIsDisconnected
  BY DEF IInv
<1> QED BY Inductive, <1>1, PTL

\* Whatever the faults: when the event thread is connected and the client has
\* handled all it was told, m_hang is down (PVRClientMythTV::HandleBackendMessage).
THEOREM ClientIsTold == Safe => []RestoredWhenConnected
<1>1. IInv => RestoredWhenConnected
  <2> SUFFICES ASSUME IInv, Drained, eventPc \in {"loop", "timer", "held"},
                      link # "none"
               PROVE  ~hang
    BY DEF RestoredWhenConnected
  <2>1. Heals /\ Len(box) = 0 /\ handling.msg = "none"
    BY EmptySeq DEF IInv, ConnectedInv, Drained, box, Nothing
  <2>2. ~LastWordUp
    BY <2>1 DEF LastWordUp
  <2> QED BY <2>1, <2>2 DEF Heals, HandUp
<1> QED BY Inductive, <1>1, PTL
=============================================================================
