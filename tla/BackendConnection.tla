-------------------------- MODULE BackendConnection --------------------------
(***************************************************************************)
(* How the client keeps its connections to the backend.                    *)
(*                                                                         *)
(* The event thread (BasicEventHandler::Process) owns the event connection *)
(* and reconnects it.  It announces what happens to the subscription of    *)
(* PVRClientMythTV, whose thread closes and reopens the control            *)
(* connections and, on the timer, asks the event thread to reconnect when  *)
(* a control connection has hung.  Kodi suspends and resumes the whole.    *)
(*                                                                         *)
(* The subscription is a mailbox of the event bus: module EventHandler     *)
(* shows that the bus implements Mailboxes, and this module uses it.       *)
(*                                                                         *)
(* Opening a control connection (connect, agree on a version, announce) is *)
(* one step: its parts hold the mutex of the connection one after another, *)
(* and what another thread could do in between ends as a failed opening.   *)
(*                                                                         *)
(* Bounds: MaxFaults network faults, MailMax announcements waiting.        *)
(***************************************************************************)
EXTENDS Naturals, Sequences

CONSTANTS MaxFaults,    \* faults of the network and of the backend
          MailMax       \* announcements waiting in the mailbox

ASSUME BoundAssumption == MaxFaults \in Nat /\ MailMax \in Nat \ {0}

\* m_control of PVRClientMythTV and m_control of its MythScheduleManager.
Controls == {"client", "scheduler"}
Messages == {"CONNECTED", "DISCONNECTED", "NOTCONNECTED", "STOPPED", "TIMER"}
\* A connection whose peer is gone is "dead" when reading tells so at once,
\* "mute" when the peer has vanished and only a time out can tell.
Links    == {"none", "live", "dead", "mute"}
Client   == "client subscription"

VARIABLES
  up,        \* the backend accepts connections
  faults,    \* faults so far
  link,      \* the event connection (m_event)
  eventPc,   \* where the event thread is in Process and RetryConnect
  stop,      \* notifiedStop of the event thread
  reset,     \* m_reset
  mail,      \* the mailbox of the client's subscription
  state,     \* what its thread does
  handling,  \* the message in the hands of HandleBackendMessage
  hang,      \* PVRClientMythTV::m_hang
  control,   \* the control connections
  appPc      \* where Kodi is in OnSleep and OnWake

netVars    == <<up, faults>>
eventVars  == <<link, eventPc, stop>>
mailVars   == <<mail, state>>
clientVars == <<handling, hang>>
vars == <<netVars, eventVars, reset, mailVars, clientVars, control, appPc>>

Bus == INSTANCE Mailboxes WITH Handlers <- {Client}, Events <- Messages

-----------------------------------------------------------------------------
(* A control connection: m_isOpen is link # "none", m_hang allows a retry  *)
(* at the next command, m_tainted remembers that it has hung.              *)

Closed  == [link |-> "none", hang |-> FALSE, tainted |-> FALSE]
Hung    == [link |-> "none", hang |-> TRUE, tainted |-> TRUE]

\* "aborted": lost while agreeing on a version, before m_isOpen is set.
\* "unknown": the backend speaks a version the client does not know.
\* "rejected": lost or refused while announcing, which closes it for good.
Outcomes == IF ~up THEN {"unreachable"}
            ELSE {"ok"} \cup {o \in {"aborted", "unknown", "rejected"} : faults < MaxFaults}

\* c after an attempt of ProtoMonitor::Open with outcome o.
Attempt(c, o) ==
  CASE o = "ok"          -> [c EXCEPT !.link = "live", !.hang = FALSE]
    [] o = "unreachable" -> [c EXCEPT !.link = "none", !.hang = TRUE]
    [] o = "aborted"     -> Hung
    [] o = "unknown"     -> [c EXCEPT !.link = "none", !.hang = FALSE]
    [] o = "rejected"    -> Closed

\* Control::Open asks IsOpen first, which retries when the connection hung.
Reopen(c, o1, o2) ==
  CASE c.hang /\ o1 = "ok"        -> Attempt(c, o1)
    [] c.hang /\ o1 # "ok"        -> Attempt(Attempt(c, o1), o2)
    [] ~c.hang /\ c.link = "none" -> Attempt(c, o2)
    [] OTHER                      -> c

\* Outcomes other than these use up the faults.
Harmless == {"ok", "unreachable"}

OpenControl(k) ==
  \E o1, o2 \in Outcomes :
    /\ control' = [control EXCEPT ![k] = Reopen(@, o1, o2)]
    /\ faults' = IF {o1, o2} \subseteq Harmless THEN faults ELSE faults + 1

CloseControl(k) == /\ control' = [control EXCEPT ![k] = Closed]
                   /\ UNCHANGED faults

\* A command, from any thread of Kodi: IsOpen, then send and receive.
Command(k) ==
  LET Use(c) == IF c.link \in {"dead", "mute"} THEN Hung ELSE c
  IN  /\ \E o \in Outcomes :
           /\ control' = [control EXCEPT ![k] =
                            Use(IF @.hang THEN Attempt(@, o) ELSE @)]
           /\ faults' = IF control[k].hang /\ o \notin Harmless
                        THEN faults + 1 ELSE faults
      /\ UNCHANGED <<up, eventVars, reset, mailVars, clientVars, appPc>>

-----------------------------------------------------------------------------
(* The network.                                                            *)

Broken(l, how) == IF l = "live" THEN how ELSE l
BreakControls(S, how) ==
  control' = [k \in Controls |->
                IF k \in S THEN [control[k] EXCEPT !.link = Broken(@, how)]
                ELSE control[k]]

\* Connections break, all of them when the backend goes down.
Break(how, event, S) ==
  /\ faults < MaxFaults /\ faults' = faults + 1
  /\ link' = IF event THEN Broken(link, how) ELSE link
  /\ BreakControls(S, how)
  /\ UNCHANGED <<eventPc, stop, reset, mailVars, clientVars, appPc>>

Lose == \E how \in {"dead", "mute"}, event \in BOOLEAN, S \in SUBSET Controls :
          up /\ Break(how, event, S) /\ UNCHANGED up
Down == \E how \in {"dead", "mute"} :
          up /\ Break(how, TRUE, Controls) /\ up' = FALSE
Up   == /\ ~up /\ up' = TRUE
        /\ UNCHANGED <<faults, eventVars, reset, mailVars, clientVars,
                       control, appPc>>

-----------------------------------------------------------------------------
(* The event thread.                                                       *)

Announce(m) == /\ Len(mail[Client]) < MailMax
               /\ Bus!Post(Client, m)

EventThread(from, to) == /\ eventPc = from /\ eventPc' = to
                         /\ UNCHANGED <<up, clientVars, control, appPc>>

\* ProtoEvent::Open: on any failure the connection is closed again.
OpenEvent(opened, failed, from) ==
  \E o \in Outcomes :
    /\ EventThread(from, IF o = "ok" THEN opened ELSE failed)
    /\ link' = IF o = "ok" THEN "live" ELSE "none"
    /\ faults' = IF o \in Harmless THEN faults ELSE faults + 1
    /\ UNCHANGED <<stop, reset, mailVars>>

FirstOpen == OpenEvent("first", "loop", "open")

FirstAnnounce == /\ EventThread("first", "loop")
                 /\ Announce("CONNECTED")
                 /\ UNCHANGED <<faults, link, stop, reset>>

\* Mutant: a connection closed by the backend is taken for a quiet one.
HeardDeaf(l) == IF l = "none" THEN "lost" ELSE "timer"

\* RcvBackendMessage: closed or broken, or nothing before the time out.  The
\* messages it may return instead are dispatched (EventHandler) and change
\* nothing here.
Heard(l) == IF l \in {"none", "dead"} THEN "lost" ELSE "timer"

Receive == /\ ~stop
           /\ EventThread("loop", Heard(link))
           /\ link' = IF Heard(link) = "lost" THEN "none" ELSE link
           /\ UNCHANGED <<faults, stop, reset, mailVars>>

AnnounceLost == /\ EventThread("lost", "retry")
                /\ Announce("DISCONNECTED")
                /\ UNCHANGED <<faults, link, stop, reset>>

AnnounceTimer == /\ EventThread("timer", "held")
                 /\ Announce("TIMER")
                 /\ UNCHANGED <<faults, link, stop, reset>>

HonourReset == /\ reset
               /\ EventThread("held", "retry")
               /\ reset' = FALSE
               /\ link' = "none"
               /\ UNCHANGED <<faults, stop, mailVars>>

NoReset == /\ ~reset
           /\ EventThread("held", "loop")
           /\ UNCHANGED <<faults, link, stop, reset, mailVars>>

\* Mutant: RetryConnect does not look at the stop flag.
RetryForever(from) == /\ stop /\ eventPc = "pause"
                      /\ EventThread(from, "retry")
                      /\ UNCHANGED <<faults, link, stop, reset, mailVars>>

\* RetryConnect returns as soon as the thread is asked to stop.
RetryStops(from) == /\ stop
                    /\ EventThread(from, "loop")
                    /\ UNCHANGED <<faults, link, stop, reset, mailVars>>

RetryOpen == ~stop /\ OpenEvent("opened", "failed", "retry")

\* Mutant: the connection is restored and nobody is told.
RetrySilently == /\ EventThread("opened", "release")
                 /\ UNCHANGED <<faults, link, stop, reset, mailVars>>

RetryAnnounce == /\ EventThread("opened", "release")
                 /\ Announce("CONNECTED")
                 /\ UNCHANGED <<faults, link, stop, reset>>

ReleaseReset == /\ EventThread("release", "loop")
                /\ reset' = FALSE
                /\ UNCHANGED <<faults, link, stop, mailVars>>

RetryFailed == /\ EventThread("failed", "pause")
               /\ Announce("NOTCONNECTED")
               /\ UNCHANGED <<faults, link, stop, reset>>

RetryPause == /\ ~stop
              /\ EventThread("pause", "retry")
              /\ UNCHANGED <<faults, link, stop, reset, mailVars>>

AnnounceStopped == /\ stop
                   /\ EventThread("loop", "off")
                   /\ Announce("STOPPED")
                   /\ link' = "none"
                   /\ UNCHANGED <<faults, stop, reset>>

EventStep == \/ FirstOpen \/ FirstAnnounce \/ Receive \/ AnnounceLost
             \/ AnnounceTimer \/ HonourReset \/ NoReset
             \/ \E from \in {"retry", "pause"} : RetryStops(from)
             \/ RetryOpen \/ RetryAnnounce \/ ReleaseReset \/ RetryFailed
             \/ RetryPause \/ AnnounceStopped

-----------------------------------------------------------------------------
(* The client: the thread of its subscription in HandleBackendMessage.     *)

Nothing == [msg |-> "none", at |-> "none"]

Handle(m, from, to) == /\ handling = [msg |-> m, at |-> from]
                       /\ handling' = [msg |-> m, at |-> to]
                       /\ UNCHANGED <<up, eventVars, mailVars, appPc>>

Take == /\ Bus!Take(Client)
        /\ handling' = [msg |-> Head(mail[Client]), at |-> "begin"]
        /\ UNCHANGED <<netVars, eventVars, reset, hang, control, appPc>>

\* Mutant: the message stays in the hands of the thread.
DoneNeverFreed == Bus!Finish(Client) /\ UNCHANGED handling

Done == /\ Bus!Finish(Client)
        /\ handling' = Nothing

\* The controls are dealt with in this order.
After(k) == [client |-> "scheduler", scheduler |-> "done"][k]

LoseBackend == /\ Handle("DISCONNECTED", "begin", "client")
               /\ hang' = TRUE
               /\ UNCHANGED <<faults, reset, control>>

LoseControl(k) == /\ Handle("DISCONNECTED", k, After(k))
                  /\ CloseControl(k)
                  /\ UNCHANGED <<hang, reset>>

FindBackend == /\ Handle("CONNECTED", "begin", IF hang THEN "client" ELSE "refresh")
               /\ UNCHANGED <<faults, hang, reset, control>>

FindControl(k) == /\ Handle("CONNECTED", k, After(k))
                  /\ OpenControl(k)
                  /\ UNCHANGED <<hang, reset>>

\* "Connection to MythTV restored" is notified with the next step.
Restored == /\ Handle("CONNECTED", "done", "notify")
            /\ hang' = FALSE
            /\ UNCHANGED <<faults, reset, control>>

\* RunHouseKeeping: m_eventHandler->Reset(), then CleanHanging().
AskReset == /\ ~hang /\ control["client"].tainted
            /\ Handle("TIMER", "begin", "clean")
            /\ reset' = TRUE
            /\ UNCHANGED <<faults, hang, control>>

CleanHanging == /\ Handle("TIMER", "clean", "done")
                /\ control' = [control EXCEPT !["client"].tainted = FALSE]
                /\ UNCHANGED <<faults, hang, reset>>

\* Nothing more to do; the channels, timers and recordings are refreshed.
Over == \/ handling.at = "notify" \/ handling.at = "refresh"
        \/ handling.at = "done" /\ handling.msg # "CONNECTED"
        \/ handling.at = "begin" /\ handling.msg \in {"NOTCONNECTED", "STOPPED"}
        \/ /\ handling = [msg |-> "TIMER", at |-> "begin"]
           /\ hang \/ ~control["client"].tainted

Finish == /\ Over
          /\ Done
          /\ UNCHANGED <<netVars, eventVars, reset, hang, control, appPc>>

ClientStep == \/ Take \/ LoseBackend \/ FindBackend \/ Restored
              \/ \E k \in Controls : LoseControl(k) \/ FindControl(k)
              \/ AskReset \/ CleanHanging \/ Finish

-----------------------------------------------------------------------------
(* Kodi: OnSleep and OnWake, one after the other, from one thread.         *)

App(from, to) == /\ appPc = from /\ appPc' = to
                 /\ UNCHANGED <<up, mailVars, reset, clientVars>>

\* EventHandler::Stop: ask the thread to stop, unless it does not run.
Sleep == /\ App("awake", "join")
         /\ stop' = (stop \/ eventPc # "off")
         /\ UNCHANGED <<faults, link, eventPc, control>>

\* Mutant: Stop does not wait for the thread.
JoinedAtOnce == TRUE

Joined == eventPc = "off"

\* Stop closes the connection if the thread has left it open.
SleepJoin == /\ Joined
             /\ App("join", "close scheduler")
             /\ link' = "none"
             /\ UNCHANGED <<faults, eventPc, stop, control>>

SleepClose(k, from, to) == /\ App(from, to)
                           /\ CloseControl(k)
                           /\ UNCHANGED eventVars

WakeOpen(k, from, to) == /\ App(from, to)
                         /\ OpenControl(k)
                         /\ UNCHANGED eventVars

\* EventHandler::Start; StartThread waits until the thread has started.
WakeStart == /\ App("start", "awake")
             /\ eventPc' = "open" /\ stop' = FALSE
             /\ UNCHANGED <<faults, link, control>>

AppStep == \/ SleepJoin
           \/ SleepClose("scheduler", "close scheduler", "close client")
           \/ SleepClose("client", "close client", "asleep")
           \/ WakeOpen("client", "asleep", "open scheduler")
           \/ WakeOpen("scheduler", "open scheduler", "start")
           \/ WakeStart

-----------------------------------------------------------------------------
\* PVRClientMythTV::Connect has succeeded and starts the event thread.
Init == /\ up = TRUE /\ faults = 0
        /\ link = "none" /\ eventPc = "open" /\ stop = FALSE
        /\ reset = FALSE
        /\ mail = [h \in {Client} |-> <<>>]
        /\ state = [h \in {Client} |-> "idle"]
        /\ handling = Nothing /\ hang = FALSE
        /\ control = [k \in Controls |-> [Closed EXCEPT !.link = "live"]]
        /\ appPc = "awake"

Network == Lose \/ Down \/ Up

Next == \/ Network
        \/ EventStep
        \/ ClientStep
        \/ Sleep \/ AppStep
        \/ \E k \in Controls : Command(k)

Safe == Init /\ [][Next]_vars

\* The threads make progress, and Kodi returns from OnSleep and OnWake.  It
\* need not suspend or resume, nor send commands; the network owes nothing.
Spec == /\ Safe
        /\ WF_vars(EventStep)
        /\ WF_vars(ClientStep)
        /\ WF_vars(appPc # "asleep" /\ AppStep)

-----------------------------------------------------------------------------
(* Properties.                                                             *)

ControlStates == [link : Links, hang : BOOLEAN, tainted : BOOLEAN]

\* Type invariant.  A message is in hand exactly while the thread of the
\* subscription is in HandleBackendMessage.
TypeOK ==
  /\ up \in BOOLEAN /\ faults \in 0..MaxFaults
  /\ link \in Links
  /\ eventPc \in {"off", "open", "first", "loop", "lost", "timer", "held",
                  "retry", "opened", "release", "failed", "pause"}
  /\ {stop, reset, hang} \subseteq BOOLEAN
  /\ mail[Client] \in Seq(Messages) /\ Len(mail[Client]) <= MailMax
  /\ state[Client] \in {"idle", "busy"}
  /\ handling = Nothing \/ handling.msg \in Messages
  /\ (handling # Nothing) = (state[Client] = "busy")
  /\ control \in [Controls -> ControlStates]
  /\ appPc \in {"awake", "join", "close client", "close scheduler", "asleep",
                "open scheduler", "start"}

\* Every announcement made has been handled.
Drained == mail[Client] = <<>> /\ handling = Nothing

\* The client's idea of the connection catches up with the event thread: when
\* the thread is connected and its announcements are handled, m_hang is down.
RestoredWhenConnected ==
  Drained /\ eventPc \in {"loop", "timer", "held"} /\ link # "none" => ~hang

\* After Stop has returned, until Start, no thread uses the event connection
\* and it is closed, whatever the thread was doing when it was told to stop.
AsleepIsDisconnected ==
  appPc \notin {"awake", "join"} => eventPc = "off" /\ link = "none"

\* When the client notifies that the connection is restored its controls can
\* be used: each one is open, or it hangs and the next command retries.
RestoredIsUsable ==
  handling = [msg |-> "CONNECTED", at |-> "notify"] /\ appPc = "awake" =>
    \A k \in Controls : control[k].link # "none" \/ control[k].hang

\* OnSleep returns: Stop is not kept waiting by a thread that reconnects, even
\* when the backend never comes back.
SleepReturns == appPc = "join" ~> appPc = "asleep"

\* Once the backend stays up and Kodi stays awake, the event connection is
\* restored for good as far as reading tells, and the client knows it.
EventuallyRestored ==
  <>[](up /\ appPc = "awake") => <>[](link \in {"live", "mute"} /\ ~hang)
=============================================================================
