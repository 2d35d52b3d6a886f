--------------------------- MODULE RecordingList ---------------------------
(***************************************************************************)
(* The add-on's copy of the backend's recordings (m_recordings), and how   *)
(* Kodi learns of its changes.  The backend announces what it does through *)
(* a mailbox of the event handler (module Mailboxes); the thread of that   *)
(* subscription asks the backend for the recording over another connection *)
(* and changes the copy under m_recordingsLock.  Meanwhile Kodi's threads  *)
(* read the copy and change it themselves.                                 *)
(*                                                                         *)
(* Bounds: Recs recordings, each changed until version MaxVersion, MailMax *)
(* messages waiting.  QueriesFail tells whether a request to the backend   *)
(* may go unanswered.                                                      *)
(***************************************************************************)
EXTENDS Integers, Sequences, FiniteSets

CONSTANTS Recs, MaxVersion, MailMax, QueriesFail

ASSUME RecordingAssumption ==
  /\ IsFiniteSet(Recs)
  /\ MaxVersion \in Nat \ {0} /\ MailMax \in Nat \ {0}
  /\ QueriesFail \in BOOLEAN

VARIABLES
  rec,          \* the recordings of the backend
  link,         \* the event connection is open
  mail, state,  \* the mailbox of the client's subscription
  hand,         \* what its thread is doing in HandleBackendMessage
  list,         \* m_recordings
  lock,         \* the thread that keeps m_recordingsLock over several steps
  pin,          \* m_recordingChangePinCount is not zero
  recount,      \* m_recordingsAmountChange
  amount,       \* m_recordingsAmount
  trigger,      \* Kodi has been told to update its recordings
  unseen,       \* history: the copy has changed since Kodi read it last
  watching,     \* the recording Kodi has just marked as watched
  missed,       \* history: recordings that the last query for them did not find
  overtaken     \* history: Kodi has changed the copy during the last housekeeping

backendVars == <<rec, link>>
mailVars    == <<mail, state>>
listVars    == <<list, unseen, pin, recount, amount>>
kodiVars    == <<trigger, watching, overtaken>>
vars == <<backendVars, mailVars, hand, listVars, lock, kodiVars, missed>>

Client == "client"

Programs == [stage : {"none", "live", "pending", "gone"}, version : 0..MaxVersion]
None     == [stage |-> "none", version |-> 0]
Exists(p) == p.stage \in {"live", "pending"}

\* Messages name a recording; one that updates it also carries it.
NoRec == "every recording"
Messages == [kind : {"ADD", "UPDATE", "DELETE", "RELOAD", "TIMER"},
             rec : Recs \cup {NoRec}, program : Programs]

Bus == INSTANCE Mailboxes WITH Handlers <- {Client}, Events <- Messages

Free == lock = "none"

-----------------------------------------------------------------------------
(* The backend and the event connection.                                   *)

Message(kind, r, p) == [kind |-> kind, rec |-> r, program |-> p]

Post(m) == Len(mail[Client]) < MailMax /\ Bus!Post(Client, m)

\* What the backend announces while nobody is connected is lost.
Announce(m) == IF link THEN Post(m) ELSE UNCHANGED mailVars

Become(r, p, kind) ==
  /\ rec' = [rec EXCEPT ![r] = p]
  /\ Announce(Message(kind, r, IF kind = "UPDATE" THEN p ELSE None))
  /\ UNCHANGED <<link, hand, listVars, missed>>

Record(r) == /\ rec[r].stage = "none"
             /\ Become(r, [stage |-> "live", version |-> 1], "ADD")
             /\ UNCHANGED <<lock, kodiVars>>

Changed(r) == [rec[r] EXCEPT !.version = @ + 1]

Change(r) == /\ Exists(rec[r]) /\ rec[r].version < MaxVersion
             /\ Become(r, Changed(r), "UPDATE")
             /\ UNCHANGED <<lock, kodiVars>>

\* Deletion is requested, by this or another client, and then carried out;
\* the backend announces both.
Delete(r) == /\ rec[r].stage = "live"
             /\ Become(r, [rec[r] EXCEPT !.stage = "pending"], "DELETE")
             /\ UNCHANGED <<lock, kodiVars>>

Purge(r) == /\ rec[r].stage = "pending"
            /\ Become(r, [rec[r] EXCEPT !.stage = "gone"], "DELETE")
            /\ UNCHANGED <<lock, kodiVars>>

Lose == /\ link /\ link' = FALSE
        /\ UNCHANGED <<rec, mailVars, hand, listVars, lock, kodiVars, missed>>

Reload == Message("RELOAD", NoRec, None)
Timer  == Message("TIMER", NoRec, None)

\* The CONNECTED status makes the client reload.
Reconnect == /\ ~link /\ link' = TRUE
             /\ Post(Reload)
             /\ UNCHANGED <<rec, hand, listVars, lock, kodiVars, missed>>

\* A second without messages.
Tick == /\ link /\ mail[Client] = <<>>
        /\ Post(Timer)
        /\ UNCHANGED <<backendVars, hand, listVars, lock, kodiVars, missed>>

-----------------------------------------------------------------------------
(* The thread of the subscription: HandleRecordingListChange.              *)

Nothing == [at |-> "idle", msg |-> Timer, found |-> None]

Take == /\ Bus!Take(Client)
        /\ hand' = [at |-> "begin", msg |-> Head(mail[Client]), found |-> None]
        /\ UNCHANGED <<backendVars, listVars, lock, kodiVars, missed>>

Handle(kinds, from, to) ==
  /\ hand.msg.kind \in kinds /\ hand.at = from
  /\ \/ to # "idle" /\ hand' = [hand EXCEPT !.at = to] /\ UNCHANGED mailVars
     \/ to = "idle" /\ hand' = Nothing /\ Bus!Finish(Client)
  /\ UNCHANGED <<backendVars, trigger, watching>>

\* The copy becomes l.
List(l) == list' = l /\ unseen' = (unseen \/ l # list)

\* FillRecordings empties the map first, and keeps it when not connected.
FillClear == /\ Free
             /\ \/ /\ link /\ Handle({"RELOAD"}, "begin", "fill")
                   /\ List([r \in Recs |-> None]) /\ amount' = 0
                   /\ lock' = "client" /\ UNCHANGED pin
                \/ /\ ~link /\ Handle({"RELOAD"}, "begin", "idle")
                   /\ pin' = TRUE /\ UNCHANGED <<list, unseen, amount, lock>>
             /\ UNCHANGED <<recount, overtaken, missed>>

Loaded == [r \in Recs |-> IF Exists(rec[r]) THEN rec[r] ELSE None]

FillLoad == /\ Handle({"RELOAD"}, "fill", "idle")
            /\ \/ List(Loaded) /\ missed' = {}
               \/ QueriesFail /\ List(list) /\ missed' = Recs
            /\ recount' = (recount \/ \E r \in Recs : list'[r] # None)
            /\ pin' = TRUE /\ lock' = "none"
            /\ UNCHANGED <<amount, overtaken>>

\* GetRecorded, for what has been added or deleted.
Query == /\ hand.msg.kind \in {"ADD", "DELETE"} /\ hand.at = "begin"
         /\ LET r == hand.msg.rec
            IN  \/ /\ Exists(rec[r])
                   /\ hand' = [hand EXCEPT !.at = "found", !.found = rec[r]]
                   /\ UNCHANGED <<mailVars, missed>>
                \/ /\ ~Exists(rec[r]) \/ QueriesFail
                   /\ hand' = Nothing /\ Bus!Finish(Client)
                   /\ missed' = IF hand.msg.kind = "ADD" THEN missed \cup {r} ELSE missed
         /\ UNCHANGED <<backendVars, listVars, lock, kodiVars>>

\* The list changes, or not; a change is noted for the housekeeping.
Replace(r, p, change) == /\ List([list EXCEPT ![r] = p])
                         /\ pin' = (pin \/ change)
                         /\ UNCHANGED <<recount, amount, lock, overtaken, missed>>

InList(r) == list[r] # None

Inserted(r) == IF InList(r) THEN list[r] ELSE hand.found

Insert == /\ Free
          /\ Handle({"ADD"}, "found", "idle")
          /\ LET r == hand.msg.rec IN Replace(r, Inserted(r), ~InList(r))

\* Mutant: the recordings are forgotten, and nobody is told.
EraseSilently == /\ Free
                 /\ Handle({"DELETE"}, "found", "idle")
                 /\ Replace(hand.msg.rec, None, FALSE)

Erase == /\ Free
         /\ Handle({"DELETE"}, "found", "idle")
         /\ LET r == hand.msg.rec IN Replace(r, None, InList(r))

\* Mutant: updates are for new recordings.
UpdatedIfNew(r) == IF InList(r) THEN list[r] ELSE hand.msg.program

Updated(r) == IF InList(r) THEN hand.msg.program ELSE None

Update == /\ Free
          /\ Handle({"UPDATE"}, "begin", "idle")
          /\ LET r == hand.msg.rec IN Replace(r, Updated(r), InList(r))

\* RunHouseKeeping, with the lock released around TriggerRecordingUpdate.
House(from, to) == /\ Handle({"TIMER"}, from, to)
                   /\ UNCHANGED <<list, unseen, amount, lock, missed>>

\* Mutant: the recordings are not counted again.
HouseBegins == /\ pin /\ Free /\ House("begin", "trigger")
               /\ overtaken' = FALSE /\ UNCHANGED <<pin, recount>>

HouseRecount == /\ pin /\ Free /\ House("begin", "trigger")
                /\ recount' = TRUE /\ overtaken' = FALSE
                /\ UNCHANGED pin

HouseIdle == /\ ~pin /\ House("begin", "idle")
             /\ UNCHANGED <<pin, recount, overtaken>>

Triggering(t) == /\ hand.at = "trigger"
                 /\ hand' = [hand EXCEPT !.at = "reset"]
                 /\ trigger' = t
                 /\ UNCHANGED <<backendVars, mailVars, listVars, lock, watching,
                                overtaken, missed>>

\* Mutant: Kodi is not told.
HouseTriggersNot == Triggering(trigger)

HouseTrigger == Triggering(TRUE)

HouseReset == /\ Free /\ House("reset", "idle")
              /\ pin' = FALSE
              /\ UNCHANGED <<recount, overtaken>>

ClientStep == \/ Take \/ FillClear \/ FillLoad \/ Query \/ Insert \/ Erase
              \/ Update \/ HouseRecount \/ HouseIdle \/ HouseTrigger \/ HouseReset

-----------------------------------------------------------------------------
(* Kodi's threads.                                                         *)

Kodi == UNCHANGED <<link, hand, amount, recount, missed>>

\* GetRecordings, after a trigger or at any time.
Read == /\ Free
        /\ unseen' = FALSE /\ trigger' = FALSE
        /\ UNCHANGED <<rec, mailVars, list, pin, lock, watching, overtaken>> /\ Kodi

Visible == {r \in Recs : list[r].stage = "live"}

\* Mutant: the count starts at the last amount.
CountedOn == amount + Cardinality(Visible)

Counted == Cardinality(Visible)

\* GetRecordingsAmount counts only when told to.
Count == /\ recount /\ Free
         /\ recount' = FALSE /\ amount' = Counted
         /\ UNCHANGED <<backendVars, mailVars, hand, list, unseen, pin, lock,
                        kodiVars, missed>>

\* SetRecordingPlayCount, with the lock: the backend is told, which announces
\* the change, and then asked for the recording (ForceUpdateRecording).
Watch(r) == /\ Free /\ list[r] # None
            /\ Exists(rec[r]) /\ rec[r].version < MaxVersion
            /\ Become(r, Changed(r), "UPDATE")
            /\ lock' = "kodi" /\ watching' = r
            /\ UNCHANGED <<trigger, overtaken>>

Watched == /\ lock = "kodi" /\ lock' = "none"
           /\ \/ /\ Exists(rec[watching])
                 /\ List([list EXCEPT ![watching] = rec[watching]])
                 /\ pin' = TRUE
                 /\ overtaken' = (overtaken \/ hand.at \in {"trigger", "reset"})
              \/ /\ ~Exists(rec[watching]) \/ QueriesFail
                 /\ UNCHANGED <<list, unseen, pin, overtaken>>
           /\ watching' = NoRec
           /\ UNCHANGED <<rec, mailVars, trigger>> /\ Kodi

-----------------------------------------------------------------------------
\* Connect has filled the list.
Init == /\ rec = [r \in Recs |-> None] /\ link = TRUE
        /\ mail = [h \in {Client} |-> <<>>] /\ state = [h \in {Client} |-> "idle"]
        /\ hand = Nothing
        /\ list = [r \in Recs |-> None] /\ lock = "none"
        /\ pin = FALSE /\ recount = FALSE /\ amount = 0
        /\ trigger = FALSE /\ unseen = FALSE /\ watching = NoRec
        /\ missed = {} /\ overtaken = FALSE

Next == \/ \E r \in Recs : Record(r) \/ Change(r) \/ Delete(r) \/ Purge(r) \/ Watch(r)
        \/ Lose \/ Reconnect \/ Tick
        \/ ClientStep
        \/ Read \/ Count \/ Watched

Safe == Init /\ [][Next]_vars

\* The threads progress, also when they have to wait for the lock, which is
\* kept only for a while; Kodi reads the recordings when it is told to.  The
\* event connection is restored, and a second without messages comes again.
Spec == /\ Safe
        /\ SF_vars(ClientStep) /\ WF_vars(Watched)
        /\ SF_vars(trigger /\ Read)
        /\ WF_vars(Reconnect) /\ SF_vars(Tick)

-----------------------------------------------------------------------------
(* Properties.                                                             *)

\* Type invariant.
TypeOK ==
  /\ rec \in [Recs -> Programs] /\ link \in BOOLEAN
  /\ mail[Client] \in Seq(Messages) /\ Len(mail[Client]) <= MailMax
  /\ state[Client] \in {"idle", "busy"}
  /\ (hand = Nothing) = (state[Client] = "idle")
  /\ hand.at \in {"idle", "begin", "fill", "found", "trigger", "reset"}
  /\ hand.msg \in Messages /\ hand.found \in Programs
  /\ list \in [Recs -> Programs]
  /\ lock \in {"none", "client", "kodi"}
  /\ {pin, recount, trigger, unseen, overtaken} \subseteq BOOLEAN
  /\ amount \in 0..Cardinality(Recs)
  /\ watching \in Recs \cup {NoRec} /\ missed \subseteq Recs

\* No message about r waits or is being handled.
About(m, r) == m.kind = "RELOAD" \/ m.rec = r
Settled(r) == /\ link
              /\ ~\E i \in 1..Len(mail[Client]) : About(mail[Client][i], r)
              /\ ~(hand.at # "idle" /\ About(hand.msg, r))

\* The copy catches up: once the messages about a recording that still exists
\* are handled, the copy has its latest version, whatever was lost while the
\* connection was down, unless a query for it went unanswered.
ListCatchesUp ==
  \A r \in Recs : Settled(r) /\ rec[r].stage = "live" /\ r \notin missed
                    => list[r] = rec[r]

\* The number of recordings is right, or is going to be announced again.
AmountIsRight ==
  overtaken \/ recount \/ pin \/ lock = "client" \/ amount = Cardinality(Visible)

\* Every change of the list gets to Kodi, if only by the next housekeeping:
\* Kodi's copy is out of date only as long as it has an update coming.
ChangesAreShown == unseen => overtaken \/ pin \/ trigger \/ lock = "client"

\* And indeed Kodi is told and reads the list again, if the event connection
\* holds: no TIMER comes without it.
KodiCatchesUp == <>[]link => (unseen ~> ~unseen \/ overtaken)
=============================================================================
