------------------------ MODULE RecordingListProofs ------------------------
(***************************************************************************)
(* For every set of recordings: the types of RecordingList, that the copy  *)
(* catches up with the backend, and that the number of recordings and what *)
(* Kodi has seen of them are renewed after every change.                   *)
(***************************************************************************)
EXTENDS RecordingList, SequenceTheorems, FiniteSetTheorems, TLAPS

box == mail[Client]

Flags == /\ link \in BOOLEAN /\ pin \in BOOLEAN /\ recount \in BOOLEAN
         /\ trigger \in BOOLEAN /\ unseen \in BOOLEAN /\ overtaken \in BOOLEAN

BusType ==
  /\ mail \in [{Client} -> Seq(Messages)] /\ Len(box) <= MailMax
  /\ state \in [{Client} -> {"idle", "busy"}]

HandType ==
  /\ \/ hand = Nothing /\ state[Client] = "idle"
     \/ hand.at # "idle" /\ state[Client] = "busy"
  /\ hand \in [at : {"idle", "begin", "fill", "found", "trigger", "reset"},
               msg : Messages, found : Programs]
  /\ hand.at = "fill" => hand.msg.kind = "RELOAD"
  /\ hand.at = "found" => hand.msg.kind \in {"ADD", "DELETE"}
  /\ hand.at \in {"trigger", "reset"} => hand.msg.kind = "TIMER"

ListType ==
  /\ rec \in [Recs -> Programs] /\ list \in [Recs -> Programs]
  /\ lock \in {"none", "client", "kodi"}
  /\ amount \in 0..Cardinality(Recs)
  /\ watching \in Recs \cup {NoRec} /\ missed \subseteq Recs

TypeInv == Flags /\ BusType /\ HandType /\ ListType

LockInv ==
  /\ lock = "client" <=> hand.at = "fill"
  /\ lock = "kodi" => watching \in Recs

\* The housekeeping leaves nothing behind but what Kodi does in between.
HouseInv ==
  /\ hand.at \in {"trigger", "reset"} =>
       pin /\ (overtaken \/ recount \/ amount = Cardinality(Visible))
  /\ hand.at = "reset" /\ unseen => overtaken \/ trigger

\* A message tells of a recording that has been made, or deleted.
Sound(m) ==
  /\ m.kind \in {"ADD", "UPDATE", "DELETE"} =>
       m.rec \in Recs /\ rec[m.rec].stage # "none"
  /\ m.kind = "DELETE" => rec[m.rec].stage \in {"pending", "gone"}
  /\ m.kind = "UPDATE" => Exists(m.program)

SoundInv ==
  /\ \A i \in 1..Len(box) : Sound(box[i])
  /\ hand.at # "idle" => Sound(hand.msg)
  /\ hand.at = "found" => Exists(hand.found)
  /\ \A r \in Recs : rec[r].stage = "none" => list[r] = None

\* The messages that renew the copy of r.
Updates(m, r) == m.kind = "UPDATE" /\ m.rec = r
Renews(m, r)  == m.kind = "RELOAD" \/ Updates(m, r)
Adds(m, r)    == m.kind = "ADD" /\ m.rec = r

NoneRenews(r) == \A i \in 1..Len(box) : ~Renews(box[i], r)

LastUpdate(i, r) ==
  /\ Updates(box[i], r)
  /\ \A j \in 1..Len(box) : j > i => ~Renews(box[j], r)

HandReloads    == hand.at # "idle" /\ hand.msg.kind = "RELOAD"
HandUpdates(r) == hand.at # "idle" /\ Updates(hand.msg, r)
HandAdds(r)    == hand.at # "idle" /\ Adds(hand.msg, r)

\* The last update of r, if nothing renews r after it, has its latest version.
Fresh(r) ==
  /\ \A i \in 1..Len(box) : LastUpdate(i, r) => box[i].program = rec[r]
  /\ NoneRenews(r) /\ HandUpdates(r) => hand.msg.program = rec[r]

\* r is on the list, or will be, when message i is handled.
Listed(i, r) ==
  \/ InList(r) \/ HandAdds(r) \/ HandReloads
  \/ \E j \in 1..Len(box) : j < i /\ (Adds(box[j], r) \/ box[j].kind = "RELOAD")

\* r is about to be put on the list.
Coming(r) ==
  /\ ~InList(r)
  /\ HandAdds(r) \/ \E j \in 1..Len(box) : Adds(box[j], r)
  /\ HandAdds(r) /\ hand.at = "found" => hand.found = rec[r]

\* No update of r is lost on a list without it, and when none is waiting the
\* copy is right, or what is in hand makes it so.
Kept(r) ==
  /\ \A i \in 1..Len(box) :
       /\ Updates(box[i], r)
       /\ \A j \in 1..Len(box) : j > i => box[j].kind # "RELOAD"
       => Listed(i, r)
  /\ NoneRenews(r) => \/ HandReloads \/ list[r] = rec[r] \/ Coming(r)
                      \/ HandUpdates(r) /\ InList(r)

\* With the connection, whatever the copy of r lacks is on its way.
CopyInv ==
  \A r \in Recs : link /\ rec[r].stage = "live" =>
                    Fresh(r) /\ (r \notin missed => Kept(r))

IInv == TypeInv /\ LockInv /\ HouseInv /\ SoundInv /\ CopyInv
             /\ AmountIsRight /\ ChangesAreShown

-----------------------------------------------------------------------------
(* The mailbox and the message in hand.                                    *)

LEMMA MessageTypes ==
  /\ None \in Programs /\ Timer \in Messages /\ Reload \in Messages
  /\ Timer.kind = "TIMER" /\ Reload.kind = "RELOAD"
  /\ \A kind \in {"ADD", "UPDATE", "DELETE"}, r \in Recs, p \in Programs :
       Message(kind, r, p) \in Messages
BY RecordingAssumption DEF None, Programs, Timer, Reload, Message, Messages

\* A message is put behind the others.
LEMMA Posted ==
  ASSUME BusType, NEW m \in Messages, Post(m)
  PROVE  /\ BusType' /\ state' = state
         /\ Len(box) \in Nat /\ Len(box') = Len(box) + 1
         /\ box'[Len(box) + 1] = m
         /\ \A i \in 1..Len(box) : box'[i] = box[i]
<1>1. /\ box \in Seq(Messages) /\ Len(box) < MailMax
      /\ mail' = [mail EXCEPT ![Client] = Append(box, m)] /\ state' = state
  BY DEF BusType, box, Post, Bus!Post
<1>2. box' = Append(box, m)
  BY <1>1 DEF BusType, box
<1>3. /\ Append(box, m) \in Seq(Messages) /\ Append(box, m)[Len(box) + 1] = m
      /\ Len(Append(box, m)) = Len(box) + 1 /\ Len(box) \in Nat
      /\ \A i \in 1..Len(box) : Append(box, m)[i] = box[i]
  BY <1>1, AppendProperties, LenProperties
<1>4. mail' \in [{Client} -> Seq(Messages)]
  BY <1>1, <1>3 DEF BusType
<1>5. Len(box') <= MailMax
  BY <1>1, <1>2, <1>3, RecordingAssumption
<1> QED BY <1>1, <1>2, <1>3, <1>4, <1>5 DEF BusType

\* The thread of the subscription takes the oldest one.
LEMMA TookFirst ==
  ASSUME BusType, Bus!Take(Client)
  PROVE  /\ BusType' /\ state[Client] = "idle" /\ state'[Client] = "busy"
         /\ Len(box) \in Nat \ {0} /\ Len(box') = Len(box) - 1
         /\ box[1] \in Messages /\ Head(mail[Client]) = box[1]
         /\ \A i \in 1..Len(box') : box'[i] = box[i + 1]
<1>1. /\ box \in Seq(Messages) /\ box # <<>>
      /\ mail' = [mail EXCEPT ![Client] = Tail(box)]
      /\ state[Client] = "idle" /\ state' = [state EXCEPT ![Client] = "busy"]
  BY DEF BusType, box, Bus!Take
<1>2. box' = Tail(box)
  BY <1>1 DEF BusType, box
<1>3. /\ Head(box) \in Messages /\ Tail(box) \in Seq(Messages)
      /\ Len(Tail(box)) = Len(box) - 1 /\ Head(box) = box[1]
      /\ Len(box) \in Nat \ {0}
      /\ \A i \in 1..Len(Tail(box)) : Tail(box)[i] = box[i + 1]
  BY <1>1, HeadTailProperties, EmptySeq, LenProperties
<1>4. mail' \in [{Client} -> Seq(Messages)] /\ state' \in [{Client} -> {"idle", "busy"}]
  BY <1>1, <1>3 DEF BusType
<1>5. Len(box') <= MailMax
  BY <1>2, <1>3, RecordingAssumption DEF BusType
<1>6. state'[Client] = "busy"
  BY <1>1 DEF BusType
<1> QED BY <1>1, <1>2, <1>3, <1>4, <1>5, <1>6 DEF BusType, box

\* Its callback returns.
LEMMA Finished ==
  ASSUME BusType, Bus!Finish(Client)
  PROVE  BusType' /\ mail' = mail /\ state[Client] = "busy" /\ state'[Client] = "idle"
BY DEF BusType, box, Bus!Finish

LEMMA BusKept == BusType /\ UNCHANGED mailVars => BusType' /\ state' = state
BY DEF BusType, box, mailVars

\* What a step of the backend does to the mailbox.
LEMMA BecomePosts ==
  ASSUME NEW r, NEW p, NEW kind, Become(r, p, kind)
  PROVE  \/ link /\ Post(Message(kind, r, IF kind = "UPDATE" THEN p ELSE None))
         \/ ~link /\ UNCHANGED mailVars
BY DEF Become, Announce

-----------------------------------------------------------------------------
(* The types.                                                              *)

LEMMA InitOK == Init => IInv
<1> SUFFICES ASSUME Init PROVE IInv
  OBVIOUS
<1>1. box = <<>> /\ Len(box) = 0 /\ box \in Seq(Messages)
  BY EmptySeq DEF Init, box
<1>2. Flags
  BY Zenon DEF Init, Flags
<1>3. BusType
  BY <1>1, EmptySeq, RecordingAssumption DEF Init, BusType
<1>4. HandType
  BY MessageTypes DEF Init, HandType, Nothing
<1>5. ListType
  <2>1. Cardinality(Recs) \in Nat
    BY RecordingAssumption, FS_CardinalityType
  <2> QED BY <2>1, MessageTypes DEF Init, ListType
<1>6. LockInv /\ HouseInv /\ ChangesAreShown
  BY DEF Init, LockInv, HouseInv, ChangesAreShown, Nothing
<1>7. SoundInv
  BY <1>1 DEF Init, SoundInv, Nothing
<1>8. CopyInv
  BY DEF Init, CopyInv, None
<1>9. AmountIsRight
  <2>1. Visible = {}
    BY DEF Init, Visible, None
  <2> QED BY <2>1, FS_EmptySet DEF Init, AmountIsRight
<1> QED BY <1>1, <1>2, <1>3, <1>4, <1>5, <1>6, <1>7, <1>8, <1>9 DEF IInv, TypeInv

LEMMA FlagStep == Flags /\ [Next]_vars => Flags'
<1> USE DEF Flags, backendVars, listVars, kodiVars
<1> SUFFICES ASSUME Flags, [Next]_vars PROVE Flags'
  OBVIOUS
<1>1. ASSUME NEW r \in Recs PROVE Record(r) \/ Change(r) \/ Delete(r) \/ Purge(r) \/ Watch(r) => Flags'
  BY <1>1, Zenon DEF Record, Change, Delete, Purge, Watch, Become
<1>2. CASE Lose \/ Reconnect \/ Tick
  BY <1>2, Zenon DEF Lose, Reconnect, Tick
<1>3. CASE ClientStep
  <2> USE DEF Handle, House, List, Replace
  <2>1. CASE Take \/ Query
    BY <2>1, Zenon DEF Take, Query
  <2>2. CASE FillClear
    BY <2>2, Zenon DEF FillClear
  <2>3. CASE FillLoad
    BY <2>3, Zenon DEF FillLoad
  <2>4. CASE Insert \/ Erase \/ Update
    BY <2>4, Zenon DEF Insert, Erase, Update
  <2>5. CASE HouseRecount \/ HouseIdle \/ HouseTrigger \/ HouseReset
    BY <2>5, Zenon DEF HouseRecount, HouseIdle, HouseTrigger, Triggering, HouseReset
  <2> QED BY <1>3, <2>1, <2>2, <2>3, <2>4, <2>5 DEF ClientStep
<1>4. CASE Read \/ Count
  BY <1>4, Zenon DEF Read, Count, Kodi
<1>5. CASE Watched
  BY <1>5, Zenon DEF Watched, Kodi, List
<1>6. CASE UNCHANGED vars
  BY <1>6, Zenon DEF vars
<1> QED BY <1>1, <1>2, <1>3, <1>4, <1>5, <1>6 DEF Next

\* A step of the handling: it goes on with the message, or is over.
LEMMA Handled ==
  ASSUME BusType, HandType, NEW kinds, NEW from, NEW to, from # "idle",
         Handle(kinds, from, to)
  PROVE  /\ BusType' /\ mail' = mail /\ hand.msg.kind \in kinds /\ hand.at = from
         /\ UNCHANGED <<rec, link, trigger, watching>>
         /\ \/ /\ to # "idle" /\ state'[Client] = "busy"
               /\ hand' = [hand EXCEPT !.at = to]
               /\ hand'.at = to /\ hand'.msg = hand.msg /\ hand'.found = hand.found
            \/ to = "idle" /\ state'[Client] = "idle" /\ hand' = Nothing /\ hand'.at = "idle"
<1>1. /\ hand.msg.kind \in kinds /\ hand.at = from /\ UNCHANGED <<rec, link, trigger, watching>>
      /\ state[Client] = "busy"
  BY DEF Handle, HandType, Nothing, backendVars
<1>2. CASE to # "idle"
  <2>1. hand' = [hand EXCEPT !.at = to] /\ UNCHANGED mailVars
    BY <1>2 DEF Handle
  <2>2. hand'.at = to /\ hand'.msg = hand.msg /\ hand'.found = hand.found
    BY <2>1 DEF HandType
  <2> QED BY <1>1, <1>2, <2>1, <2>2, BusKept DEF mailVars
<1>3. CASE to = "idle"
  <2>1. hand' = Nothing /\ Bus!Finish(Client)
    BY <1>3 DEF Handle
  <2> QED BY <1>1, <1>3, <2>1, Finished DEF Nothing
<1> QED BY <1>2, <1>3

LEMMA HandTypeKept ==
  HandType /\ hand' = hand /\ state' = state => HandType'
BY DEF HandType

LEMMA HandOver ==
  ASSUME hand' = Nothing, state'[Client] = "idle"
  PROVE  HandType'
BY MessageTypes DEF HandType, Nothing

LEMMA HandGoesOn ==
  ASSUME HandType, NEW to \in {"begin", "fill", "found", "trigger", "reset"},
         hand' = [hand EXCEPT !.at = to], state'[Client] = "busy",
         to = "fill" => hand.msg.kind = "RELOAD",
         to = "found" => hand.msg.kind \in {"ADD", "DELETE"},
         to \in {"trigger", "reset"} => hand.msg.kind = "TIMER"
  PROVE  HandType'
BY DEF HandType

LEMMA BusHandStep == TypeInv /\ SoundInv /\ [Next]_vars => BusType' /\ HandType'
<1> USE DEF backendVars, listVars, kodiVars
<1> SUFFICES ASSUME TypeInv, SoundInv, [Next]_vars PROVE BusType' /\ HandType'
  OBVIOUS
<1>0. BusType /\ HandType /\ ListType
  BY DEF TypeInv
<1>k. CASE UNCHANGED <<mailVars, hand>>
  BY <1>0, <1>k, BusKept, HandTypeKept
<1>p. CASE UNCHANGED hand /\ \E m \in Messages : Post(m)
  BY <1>0, <1>p, Posted, HandTypeKept
<1>1. ASSUME NEW r \in Recs, NEW p \in Programs, NEW kind \in {"ADD", "UPDATE", "DELETE"},
             Become(r, p, kind)
      PROVE  BusType' /\ HandType'
  <2>1. UNCHANGED hand
    BY <1>1 DEF Become
  <2>2. CASE ~link /\ UNCHANGED mailVars
    BY <1>k, <2>1, <2>2
  <2>3. CASE Post(Message(kind, r, IF kind = "UPDATE" THEN p ELSE None))
    <3>1. (IF kind = "UPDATE" THEN p ELSE None) \in Programs
      BY <1>1, MessageTypes
    <3>2. Message(kind, r, IF kind = "UPDATE" THEN p ELSE None) \in Messages
      BY <1>1, <3>1, MessageTypes
    <3> QED BY <1>p, <2>1, <2>3, <3>2
  <2> QED BY <1>1, <2>2, <2>3, BecomePosts
<1>2. ASSUME NEW r \in Recs PROVE Record(r) \/ Change(r) \/ Delete(r) \/ Purge(r) \/ Watch(r) => BusType' /\ HandType'
  <2>1. rec[r] \in Programs
    BY <1>0 DEF ListType
  <2>2. [stage |-> "live", version |-> 1] \in Programs
    BY RecordingAssumption DEF Programs
  <2>3. /\ [rec[r] EXCEPT !.stage = "pending"] \in Programs
        /\ [rec[r] EXCEPT !.stage = "gone"] \in Programs
    BY <2>1 DEF Programs
  <2>4. rec[r].version < MaxVersion => Changed(r) \in Programs
    BY <2>1, RecordingAssumption DEF Changed, Programs
  <2> QED BY <1>1, <2>2, <2>3, <2>4 DEF Record, Change, Delete, Purge, Watch
<1>3. CASE Lose
  BY <1>3, <1>k DEF Lose
<1>4. CASE Reconnect \/ Tick
  BY <1>4, <1>p, MessageTypes DEF Reconnect, Tick
<1>5. CASE Take
  <2>1. /\ BusType' /\ state'[Client] = "busy" /\ box[1] \in Messages /\ Head(mail[Client]) = box[1]
    BY <1>0, <1>5, TookFirst DEF Take
  <2>2. hand' = [at |-> "begin", msg |-> box[1], found |-> None]
    BY <1>5, <2>1 DEF Take
  <2> QED BY <2>1, <2>2, MessageTypes DEF HandType
<1>6. CASE Query
  <2>1. CASE hand' = Nothing /\ Bus!Finish(Client)
    BY <1>0, <2>1, Finished, HandOver
  <2>2. CASE /\ hand' = [hand EXCEPT !.at = "found", !.found = rec[hand.msg.rec]]
             /\ Exists(rec[hand.msg.rec]) /\ UNCHANGED mailVars
    <3>1. hand.msg.kind \in {"ADD", "DELETE"} /\ hand.at = "begin"
      BY <1>6 DEF Query
    <3>2. state[Client] = "busy"
      BY <1>0, <3>1 DEF HandType, Nothing
    <3>3. rec[hand.msg.rec] \in Programs
      BY <1>0, <3>1 DEF SoundInv, Sound, ListType
    <3> QED BY <1>0, <2>2, <3>1, <3>2, <3>3, BusKept DEF HandType
  <2> QED BY <1>6, <2>1, <2>2, Zenon DEF Query
<1>7. CASE \E kinds, from : from # "idle" /\ Handle(kinds, from, "idle")
  BY <1>0, <1>7, Handled, HandOver
<1>8. CASE FillClear
  <2>1. CASE Handle({"RELOAD"}, "begin", "fill")
    BY <1>0, <2>1, Handled, HandGoesOn
  <2>2. CASE Handle({"RELOAD"}, "begin", "idle")
    BY <1>7, <2>2
  <2> QED BY <1>8, <2>1, <2>2 DEF FillClear
<1>9. CASE FillLoad \/ Insert \/ Erase \/ Update \/ HouseIdle \/ HouseReset
  BY <1>7, <1>9 DEF FillLoad, Insert, Erase, Update, HouseIdle, HouseReset, House
<1>10. CASE HouseRecount
  BY <1>0, <1>10, Handled, HandGoesOn DEF HouseRecount, House
<1>11. CASE HouseTrigger
  <2>1. /\ hand.at = "trigger" /\ hand' = [hand EXCEPT !.at = "reset"] /\ UNCHANGED mailVars
    BY <1>11 DEF HouseTrigger, Triggering
  <2>2. state[Client] = "busy" /\ hand.msg.kind = "TIMER"
    BY <1>0, <2>1 DEF HandType, Nothing
  <2> QED BY <1>0, <2>1, <2>2, BusKept, HandGoesOn
<1>12. CASE Read \/ Count \/ Watched
  BY <1>12, <1>k DEF Read, Count, Watched, Kodi
<1>13. CASE UNCHANGED vars
  BY <1>13, <1>k DEF vars
<1> QED BY <1>2, <1>3, <1>4, <1>5, <1>6, <1>8, <1>9, <1>10, <1>11, <1>12, <1>13
        DEF Next, ClientStep

\* What is counted.
LEMMA CountType ==
  /\ Cardinality(Recs) \in Nat
  /\ Cardinality(Visible) \in 0..Cardinality(Recs)
<1>1. Visible \subseteq Recs
  BY DEF Visible
<1>2. /\ Cardinality(Recs) \in Nat /\ Cardinality(Visible) \in Nat
      /\ Cardinality(Visible) <= Cardinality(Recs)
  BY <1>1, RecordingAssumption, FS_Subset, FS_CardinalityType
<1> QED BY <1>2

\* What the handling of a message makes of the copy.
LEMMA ReplaceType ==
  ASSUME ListType, NEW r \in Recs, NEW p \in Programs, NEW change, Replace(r, p, change),
         UNCHANGED <<rec, watching>>
  PROVE  /\ ListType' /\ list' = [list EXCEPT ![r] = p]
         /\ UNCHANGED <<recount, amount, lock, overtaken, missed>>
BY DEF Replace, List, ListType

LEMMA ListStep == TypeInv /\ SoundInv /\ LockInv /\ [Next]_vars => ListType'
<1> USE DEF backendVars, listVars, kodiVars
<1> SUFFICES ASSUME TypeInv, SoundInv, LockInv, [Next]_vars PROVE ListType'
  OBVIOUS
<1>0. BusType /\ HandType /\ ListType
  BY DEF TypeInv
<1>k. CASE UNCHANGED <<rec, list, lock, amount, watching, missed>>
  BY <1>0, <1>k DEF ListType
<1>1. ASSUME NEW r \in Recs, NEW p \in Programs, NEW kind, Become(r, p, kind),
             lock' \in {"none", "client", "kodi"}, watching' \in Recs \cup {NoRec}
      PROVE  ListType'
  BY <1>0, <1>1 DEF Become, ListType
<1>2. ASSUME NEW r \in Recs PROVE Record(r) \/ Change(r) \/ Delete(r) \/ Purge(r) \/ Watch(r) => ListType'
  <2>1. rec[r] \in Programs /\ lock \in {"none", "client", "kodi"} /\ watching \in Recs \cup {NoRec}
    BY <1>0 DEF ListType
  <2>2. [stage |-> "live", version |-> 1] \in Programs
    BY RecordingAssumption DEF Programs
  <2>3. /\ [rec[r] EXCEPT !.stage = "pending"] \in Programs
        /\ [rec[r] EXCEPT !.stage = "gone"] \in Programs
    BY <2>1 DEF Programs
  <2>4. rec[r].version < MaxVersion => Changed(r) \in Programs
    BY <2>1, RecordingAssumption DEF Changed, Programs
  <2> QED BY <1>1, <2>1, <2>2, <2>3, <2>4 DEF Record, Change, Delete, Purge, Watch
<1>3. CASE Lose \/ Reconnect \/ Tick \/ Take
  BY <1>3, <1>k DEF Lose, Reconnect, Tick, Take
<1>4. CASE Query
  <2>1. UNCHANGED <<rec, list, lock, amount, watching>>
    BY <1>4 DEF Query
  <2>2. missed' \subseteq Recs
    <3>1. hand.msg.rec \in Recs
      BY <1>4 DEF Query, SoundInv, Sound
    <3>2. missed' = missed \/ missed' = missed \cup {hand.msg.rec}
      BY <1>4, Zenon DEF Query
    <3> QED BY <1>0, <3>1, <3>2 DEF ListType
  <2> QED BY <1>0, <2>1, <2>2 DEF ListType
<1>5. CASE FillClear
  <2>1. /\ UNCHANGED <<rec, watching, missed>>
        /\ list' \in {list, [r \in Recs |-> None]} /\ amount' \in {amount, 0}
        /\ lock' \in {lock, "client"}
    BY <1>5 DEF FillClear, Handle, List
  <2>2. [r \in Recs |-> None] \in [Recs -> Programs] /\ 0 \in 0..Cardinality(Recs)
    BY MessageTypes, CountType
  <2> QED BY <1>0, <2>1, <2>2 DEF ListType
<1>6. CASE FillLoad
  <2>1. /\ UNCHANGED <<rec, watching, amount>> /\ lock' = "none"
        /\ list' \in {list, Loaded} /\ missed' \in {{}, Recs}
    BY <1>6 DEF FillLoad, Handle, List
  <2>2. Loaded \in [Recs -> Programs]
    BY <1>0, MessageTypes DEF Loaded, ListType
  <2> QED BY <1>0, <2>1, <2>2 DEF ListType
<1>7. CASE Insert
  <2>1. /\ hand.at = "found" /\ hand.msg.rec \in Recs /\ UNCHANGED <<rec, watching>>
        /\ Replace(hand.msg.rec, Inserted(hand.msg.rec), ~InList(hand.msg.rec))
    BY <1>7 DEF Insert, Handle, SoundInv, Sound
  <2>2. Inserted(hand.msg.rec) \in Programs
    BY <1>0, <2>1 DEF Inserted, ListType, HandType
  <2> QED BY <1>0, <2>1, <2>2, ReplaceType
<1>8. CASE Erase
  <2>1. /\ hand.at = "found" /\ hand.msg.rec \in Recs /\ UNCHANGED <<rec, watching>>
        /\ Replace(hand.msg.rec, None, InList(hand.msg.rec))
    BY <1>8 DEF Erase, Handle, SoundInv, Sound
  <2> QED BY <1>0, <2>1, ReplaceType, MessageTypes
<1>9. CASE Update
  <2>1. /\ hand.at = "begin" /\ hand.msg.rec \in Recs /\ UNCHANGED <<rec, watching>>
        /\ Replace(hand.msg.rec, Updated(hand.msg.rec), InList(hand.msg.rec))
    BY <1>9 DEF Update, Handle, SoundInv, Sound
  <2>2. Updated(hand.msg.rec) \in Programs
    BY <1>0, <2>1, MessageTypes DEF Updated, HandType, Messages
  <2> QED BY <1>0, <2>1, <2>2, ReplaceType
<1>10. CASE HouseRecount \/ HouseIdle \/ HouseReset
  BY <1>10, <1>k DEF HouseRecount, HouseIdle, HouseReset, House, Handle
<1>11. CASE HouseTrigger
  BY <1>11, <1>k DEF HouseTrigger, Triggering
<1>12. CASE Read
  BY <1>12, <1>k DEF Read, Kodi
<1>13. CASE Count
  BY <1>0, <1>13, CountType DEF Count, Counted, ListType
<1>14. CASE Watched
  <2>1. watching \in Recs
    BY <1>14 DEF Watched, LockInv
  <2>2. /\ UNCHANGED <<rec, amount, missed>> /\ lock' = "none" /\ watching' = NoRec
        /\ list' = list \/ list' = [list EXCEPT ![watching] = rec[watching]]
    BY <1>14 DEF Watched, Kodi, List
  <2> QED BY <1>0, <2>1, <2>2 DEF ListType
<1>15. CASE UNCHANGED vars
  BY <1>15, <1>k DEF vars
<1> QED BY <1>2, <1>3, <1>4, <1>5, <1>6, <1>7, <1>8, <1>9, <1>10, <1>11, <1>12, <1>13,
           <1>14, <1>15 DEF Next, ClientStep

LEMMA TypeStep == TypeInv /\ SoundInv /\ LockInv /\ [Next]_vars => TypeInv'
BY FlagStep, BusHandStep, ListStep DEF TypeInv

LEMMA LockStep == TypeInv /\ LockInv /\ [Next]_vars => LockInv'
<1> USE DEF backendVars, listVars, kodiVars, LockInv, Free
<1> SUFFICES ASSUME TypeInv, LockInv, [Next]_vars PROVE LockInv'
  OBVIOUS
<1>0. BusType /\ HandType
  BY DEF TypeInv
<1>1. ASSUME NEW r \in Recs PROVE Record(r) \/ Change(r) \/ Delete(r) \/ Purge(r) \/ Watch(r) => LockInv'
  BY <1>1 DEF Record, Change, Delete, Purge, Watch, Become
<1>2. CASE Lose \/ Reconnect \/ Tick
  BY <1>2 DEF Lose, Reconnect, Tick
<1>3. CASE Take
  BY <1>0, <1>3 DEF Take, Bus!Take, HandType, Nothing
<1>4. CASE Query
  <2>1. hand'.at \in {"idle", "found"} /\ hand.at = "begin" /\ UNCHANGED <<lock, watching>>
    <3>1. hand' = Nothing => hand'.at = "idle"
      BY DEF Nothing
    <3>2. ASSUME NEW p, hand' = [hand EXCEPT !.at = "found", !.found = p]
          PROVE  hand'.at = "found"
      BY <1>0, <3>2 DEF HandType
    <3> QED BY <1>4, <3>1, <3>2 DEF Query
  <2> QED BY <2>1
<1>h. ASSUME NEW kinds, NEW from, NEW to, from # "idle", Handle(kinds, from, to)
      PROVE  hand.at = from /\ hand'.at = to /\ watching' = watching
  BY <1>0, <1>h, Handled
<1>5. CASE FillClear
  BY <1>5, <1>h DEF FillClear
<1>6. CASE FillLoad
  BY <1>6, <1>h DEF FillLoad
<1>7. CASE Insert \/ Erase \/ Update
  BY <1>7, <1>h DEF Insert, Erase, Update, Replace
<1>8. CASE HouseRecount \/ HouseIdle \/ HouseReset
  BY <1>8, <1>h DEF HouseRecount, HouseIdle, HouseReset, House
<1>9. CASE HouseTrigger
  BY <1>0, <1>9 DEF HouseTrigger, Triggering, HandType
<1>10. CASE Read \/ Count \/ Watched
  BY <1>10 DEF Read, Count, Watched, Kodi
<1>11. CASE UNCHANGED vars
  BY <1>11 DEF vars
<1> QED BY <1>1, <1>2, <1>3, <1>4, <1>5, <1>6, <1>7, <1>8, <1>9, <1>10, <1>11
        DEF Next, ClientStep

-----------------------------------------------------------------------------
(* The counts, and what Kodi sees.                                         *)

\* A change of the list is noted.
LEMMA ChangeNoted ==
  ASSUME ListType, NEW r \in Recs, NEW p, NEW change, Replace(r, p, change),
         change \/ p = list[r]
  PROVE  /\ pin => pin'
         /\ pin' \/ (UNCHANGED list /\ (unseen' => unseen))
         /\ UNCHANGED <<recount, amount, lock, overtaken>>
<1>1. /\ list' = [list EXCEPT ![r] = p] /\ unseen' = (unseen \/ list' # list)
      /\ pin' = (pin \/ change) /\ UNCHANGED <<recount, amount, lock, overtaken>>
  BY Zenon DEF Replace, List
<1>2. p = list[r] => list' = list
  BY <1>1 DEF ListType
<1> QED BY <1>1, <1>2, Zenon

\* The handling of a message about a recording.
LEMMA Noted ==
  ASSUME TypeInv, SoundInv, Insert \/ Erase \/ Update
  PROVE  /\ pin => pin'
         /\ pin' \/ (UNCHANGED list /\ (unseen' => unseen))
         /\ UNCHANGED <<recount, amount, lock, overtaken, trigger>>
         /\ hand'.at = "idle"
<1>0. BusType /\ HandType /\ ListType
  BY DEF TypeInv
<1>1. hand.at # "idle" /\ hand.msg.rec \in Recs
  BY DEF Insert, Erase, Update, Handle, SoundInv, Sound
<1> DEFINE r == hand.msg.rec
<1>2. /\ \/ Replace(r, Inserted(r), ~InList(r))
         \/ Replace(r, None, InList(r))
         \/ Replace(r, Updated(r), InList(r))
      /\ UNCHANGED trigger /\ hand'.at = "idle"
  BY <1>0, Handled DEF Insert, Erase, Update
<1>3. /\ ~InList(r) \/ Inserted(r) = list[r]
      /\ InList(r) \/ (None = list[r] /\ Updated(r) = list[r])
  BY DEF InList, Inserted, Updated
<1> QED BY <1>0, <1>1, <1>2, <1>3, ChangeNoted

LEMMA HouseStep == IInv /\ [Next]_vars => HouseInv' /\ AmountIsRight' /\ ChangesAreShown'
<1> USE DEF backendVars, listVars, kodiVars, Free, HouseInv, AmountIsRight, ChangesAreShown
<1> SUFFICES ASSUME IInv, [Next]_vars PROVE HouseInv' /\ AmountIsRight' /\ ChangesAreShown'
  OBVIOUS
<1>0. /\ TypeInv /\ SoundInv /\ BusType /\ HandType /\ LockInv
      /\ HouseInv /\ AmountIsRight /\ ChangesAreShown
  BY DEF IInv, TypeInv
<1>v. UNCHANGED list => Visible' = Visible
  BY DEF Visible
<1>k. CASE /\ UNCHANGED <<list, unseen, pin, recount, amount, trigger, overtaken>>
           /\ lock = "client" => lock' = "client"
           /\ hand'.at = hand.at \/ hand'.at \notin {"trigger", "reset"}
  BY <1>0, <1>v, <1>k
<1>h. ASSUME NEW kinds, NEW from, NEW to, from # "idle", Handle(kinds, from, to)
      PROVE  hand.at = from /\ hand'.at = to /\ UNCHANGED <<trigger, watching>>
  BY <1>0, <1>h, Handled
<1>1. ASSUME NEW r \in Recs
      PROVE  Record(r) \/ Change(r) \/ Delete(r) \/ Purge(r) \/ Watch(r) =>
               HouseInv' /\ AmountIsRight' /\ ChangesAreShown'
  BY <1>k DEF Record, Change, Delete, Purge, Watch, Become
<1>2. CASE Lose \/ Reconnect \/ Tick
  BY <1>2, <1>k DEF Lose, Reconnect, Tick
<1>3. CASE Take
  BY <1>3, <1>k DEF Take
<1>4. CASE Query
  <2>1. hand'.at \in {"idle", "found"}
    <3>1. hand' = Nothing => hand'.at = "idle"
      BY DEF Nothing
    <3>2. ASSUME NEW p, hand' = [hand EXCEPT !.at = "found", !.found = p]
          PROVE  hand'.at = "found"
      BY <1>0, <3>2 DEF HandType
    <3> QED BY <1>4, <3>1, <3>2 DEF Query
  <2> QED BY <1>4, <1>k, <2>1 DEF Query
<1>5. CASE FillClear
  BY <1>0, <1>5, <1>h, <1>v DEF FillClear, LockInv
<1>6. CASE FillLoad
  BY <1>0, <1>6, <1>h, <1>v DEF FillLoad
<1>7. CASE Insert \/ Erase \/ Update
  BY <1>0, <1>7, <1>v, Noted
<1>8. CASE HouseRecount
  BY <1>0, <1>8, <1>h, <1>v DEF HouseRecount, House
<1>9. CASE HouseIdle
  BY <1>0, <1>9, <1>h, <1>v DEF HouseIdle, House
<1>10. CASE HouseTrigger
  <2>1. hand.at = "trigger" /\ hand'.at = "reset" /\ trigger' = TRUE
    BY <1>0, <1>10 DEF HouseTrigger, Triggering, HandType
  <2> QED BY <1>0, <1>10, <1>v, <2>1 DEF HouseTrigger, Triggering
<1>11. CASE HouseReset
  BY <1>0, <1>11, <1>h, <1>v DEF HouseReset, House
<1>12. CASE Read
  BY <1>0, <1>12, <1>v DEF Read, Kodi
<1>13. CASE Count
  BY <1>0, <1>13, <1>v DEF Count, Counted
<1>14. CASE Watched
  <2>1. hand' = hand /\ UNCHANGED <<amount, recount, trigger>>
    BY <1>14 DEF Watched, Kodi
  <2>2. \/ UNCHANGED <<list, unseen, pin, overtaken>>
        \/ pin' /\ (overtaken \/ hand.at \in {"trigger", "reset"} => overtaken')
    BY <1>14, Zenon DEF Watched
  <2>3. lock # "client"
    BY <1>14 DEF Watched
  <2> QED BY <1>0, <1>v, <2>1, <2>2, <2>3
<1>15. CASE UNCHANGED vars
  BY <1>15, <1>k DEF vars
<1> QED BY <1>1, <1>2, <1>3, <1>4, <1>5, <1>6, <1>7, <1>8, <1>9, <1>10, <1>11, <1>12, <1>13,
           <1>14, <1>15 DEF Next, ClientStep

-----------------------------------------------------------------------------
(* What the messages tell of.                                              *)

\* A recording that has been made stays made, and one deleted stays deleted.
Ages == \A r \in Recs :
          /\ rec[r].stage # "none" => rec'[r].stage # "none"
          /\ rec[r].stage \in {"pending", "gone"} => rec'[r].stage \in {"pending", "gone"}

LEMMA SoundAges ==
  ASSUME Ages
  PROVE  \A m : Sound(m) =>
           /\ m.kind \in {"ADD", "UPDATE", "DELETE"} =>
                m.rec \in Recs /\ rec'[m.rec].stage # "none"
           /\ m.kind = "DELETE" => rec'[m.rec].stage \in {"pending", "gone"}
           /\ m.kind = "UPDATE" => Exists(m.program)
BY DEF Ages, Sound

LEMMA BoxSound ==
  ASSUME BusType, SoundInv, Ages,
         \/ UNCHANGED mail
         \/ \E m \in Messages : Post(m) /\ Sound(m)'
         \/ Bus!Take(Client)
  PROVE  \A i \in 1..Len(box') : Sound(box[i])'
<1>1. CASE UNCHANGED mail
  BY <1>1, SoundAges DEF SoundInv, Sound, box
<1>2. CASE \E m \in Messages : Post(m) /\ Sound(m)'
  <2>1. PICK m \in Messages : Post(m) /\ Sound(m)'
    BY <1>2
  <2>2. /\ Len(box) \in Nat /\ Len(box') = Len(box) + 1 /\ box'[Len(box) + 1] = m
        /\ \A i \in 1..Len(box) : box'[i] = box[i]
    BY <2>1, Posted
  <2>3. \A i \in 1..Len(box) : Sound(box[i])
    BY DEF SoundInv
  <2>4. ASSUME NEW i \in 1..Len(box') PROVE Sound(box[i])'
    <3>1. CASE i \in 1..Len(box)
      BY <2>2, <2>3, <3>1, SoundAges DEF Sound
    <3>2. CASE i = Len(box) + 1
      BY <2>1, <2>2, <3>2 DEF Sound
    <3> QED BY <2>2, <3>1, <3>2
  <2> QED BY <2>4
<1>3. CASE Bus!Take(Client)
  <2>1. /\ Len(box) \in Nat \ {0} /\ Len(box') = Len(box) - 1
        /\ \A i \in 1..Len(box') : box'[i] = box[i + 1]
    BY <1>3, TookFirst
  <2>2. ASSUME NEW i \in 1..Len(box') PROVE Sound(box[i])'
    <3>1. i + 1 \in 1..Len(box) /\ box'[i] = box[i + 1]
      BY <2>1
    <3> QED BY <3>1, SoundAges DEF Sound, SoundInv
  <2> QED BY <2>2
<1> QED BY <1>1, <1>2, <1>3

LEMMA SoundKept ==
  ASSUME TypeInv, SoundInv, Ages,
         \/ UNCHANGED mail
         \/ \E m \in Messages : Post(m) /\ Sound(m)',
         hand' = hand \/ hand'.at = "idle" \/
           (hand'.msg = hand.msg /\ hand.at # "idle" /\ hand'.at # "found"),
         \A r \in Recs : rec'[r].stage = "none" => list'[r] = None
  PROVE  SoundInv'
<1>1. \A i \in 1..Len(box') : Sound(box[i])'
  BY BoxSound DEF TypeInv
<1>2. hand'.at # "idle" => Sound(hand.msg)'
  BY SoundAges DEF Sound, SoundInv
<1>3. hand'.at = "found" => Exists(hand'.found)
  BY DEF SoundInv
<1> QED BY <1>1, <1>2, <1>3 DEF SoundInv, Exists

\* What happens to a recording at the backend.
LEMMA Happens ==
  ASSUME TypeInv, NEW r \in Recs,
         Record(r) \/ Change(r) \/ Delete(r) \/ Purge(r) \/ Watch(r)
  PROVE  \E p \in Programs, kind \in {"ADD", "UPDATE", "DELETE"} :
           /\ Become(r, p, kind) /\ rec' = [rec EXCEPT ![r] = p] /\ p.stage # "none"
           /\ UNCHANGED <<link, hand, list, missed>>
           /\ kind = "ADD" => rec[r].stage = "none"
           /\ kind = "UPDATE" => Exists(rec[r]) /\ p.stage = rec[r].stage
           /\ kind = "DELETE" => p.stage \in {"pending", "gone"}
<1>1. rec[r] \in Programs
  BY DEF TypeInv, ListType
<1>2. CASE Record(r)
  <2>1. [stage |-> "live", version |-> 1] \in Programs
    BY RecordingAssumption DEF Programs
  <2> QED BY <1>2, <2>1 DEF Record, Become, listVars
<1>3. CASE Change(r) \/ Watch(r)
  <2>1. rec[r].version < MaxVersion => Changed(r) \in Programs /\ Changed(r).stage = rec[r].stage
    BY <1>1, RecordingAssumption DEF Changed, Programs
  <2> QED BY <1>3, <2>1 DEF Change, Watch, Become, listVars, Exists
<1>4. CASE Delete(r) \/ Purge(r)
  <2>1. /\ [rec[r] EXCEPT !.stage = "pending"] \in Programs
        /\ [rec[r] EXCEPT !.stage = "gone"] \in Programs
        /\ [rec[r] EXCEPT !.stage = "pending"].stage = "pending"
        /\ [rec[r] EXCEPT !.stage = "gone"].stage = "gone"
    BY <1>1 DEF Programs
  <2> QED BY <1>4, <2>1 DEF Delete, Purge, Become, listVars
<1> QED BY <1>2, <1>3, <1>4

LEMMA SoundStep == TypeInv /\ LockInv /\ SoundInv /\ [Next]_vars => SoundInv'
<1> USE DEF backendVars, mailVars, listVars, kodiVars
<1> SUFFICES ASSUME TypeInv, LockInv, SoundInv, [Next]_vars PROVE SoundInv'
  OBVIOUS
<1>0. BusType /\ HandType /\ ListType /\ \A r \in Recs : rec[r].stage = "none" => list[r] = None
  BY DEF TypeInv, SoundInv
<1>h. ASSUME NEW kinds, NEW from, NEW to, from # "idle", Handle(kinds, from, to)
      PROVE  /\ hand.at = from /\ hand'.at = to /\ rec' = rec /\ mail' = mail
             /\ hand.msg.kind \in kinds /\ (to # "idle" => hand'.msg = hand.msg)
  BY <1>0, <1>h, Handled
<1>k. rec' = rec => Ages
  BY DEF Ages
<1>1. ASSUME NEW r \in Recs, Record(r) \/ Change(r) \/ Delete(r) \/ Purge(r) \/ Watch(r)
      PROVE  SoundInv'
  <2>1. PICK p \in Programs, kind \in {"ADD", "UPDATE", "DELETE"} :
           /\ Become(r, p, kind) /\ rec' = [rec EXCEPT ![r] = p] /\ p.stage # "none"
           /\ UNCHANGED <<link, hand, list, missed>>
           /\ kind = "ADD" => rec[r].stage = "none"
           /\ kind = "UPDATE" => Exists(rec[r]) /\ p.stage = rec[r].stage
           /\ kind = "DELETE" => p.stage \in {"pending", "gone"}
    BY <1>0, <1>1, Happens
  <2> DEFINE m == Message(kind, r, IF kind = "UPDATE" THEN p ELSE None)
  <2>2. /\ m \in Messages /\ m.kind = kind /\ m.rec = r /\ (kind = "UPDATE" => m.program = p)
    <3>1. (IF kind = "UPDATE" THEN p ELSE None) \in Programs
      BY MessageTypes
    <3> QED BY <3>1, MessageTypes DEF Message
  <2>3. Post(m) \/ UNCHANGED mail
    BY <2>1, BecomePosts
  <2> HIDE DEF m
  <2>4. rec'[r] = p /\ \A q \in Recs : q # r => rec'[q] = rec[q]
    BY <1>0, <2>1 DEF ListType
  <2>5. Sound(m)'
    BY <2>1, <2>2, <2>4 DEF Sound, Exists
  <2>a. Ages
    BY <1>1, <2>1, <2>4 DEF Ages, Exists, Record, Change, Watch, Delete, Purge
  <2>b. \A q \in Recs : rec'[q].stage = "none" => list'[q] = None
    BY <1>0, <2>1, <2>4
  <2> QED BY <2>1, <2>2, <2>3, <2>5, <2>a, <2>b, SoundKept
<1>2. CASE Lose
  BY <1>0, <1>2, <1>k, SoundKept DEF Lose
<1>3. CASE Reconnect \/ Tick
  <2>1. PICK m \in {Reload, Timer} : Post(m)
    BY <1>3 DEF Reconnect, Tick
  <2>2. m \in Messages /\ Sound(m)'
    BY <2>1, MessageTypes DEF Sound
  <2>3. UNCHANGED <<rec, list, hand>>
    BY <1>3 DEF Reconnect, Tick
  <2> QED BY <1>0, <1>k, <2>1, <2>2, <2>3, SoundKept
<1>4. CASE Take
  <2>1. Bus!Take(Client) /\ hand' = [at |-> "begin", msg |-> box[1], found |-> None]
        /\ UNCHANGED <<rec, list>> /\ 1 \in 1..Len(box)
    BY <1>0, <1>4, TookFirst DEF Take
  <2>2. Ages /\ \A i \in 1..Len(box') : Sound(box[i])'
    BY <1>0, <1>k, <2>1, BoxSound
  <2>3. Sound(hand.msg)'
    BY <2>1, <2>2, SoundAges DEF SoundInv, Sound
  <2> QED BY <1>0, <2>1, <2>2, <2>3 DEF SoundInv
<1>5. CASE Query
  <2>1. UNCHANGED <<rec, list>> /\ mail' = mail /\ hand.at = "begin" /\ hand.msg.rec \in Recs
    BY <1>0, <1>5, Finished DEF Query, SoundInv, Sound
  <2>2. CASE hand' = Nothing
    <3>1. hand'.at = "idle"
      BY <2>2 DEF Nothing
    <3> QED BY <1>0, <1>k, <2>1, <3>1, SoundKept
  <2>3. CASE /\ hand' = [hand EXCEPT !.at = "found", !.found = rec[hand.msg.rec]]
             /\ Exists(rec[hand.msg.rec])
    <3>1. hand'.found = rec[hand.msg.rec] /\ hand'.msg = hand.msg /\ hand'.at = "found"
      BY <1>0, <2>3 DEF HandType
    <3>2. Ages /\ \A i \in 1..Len(box') : Sound(box[i])'
      BY <1>0, <1>k, <2>1, BoxSound
    <3>3. Sound(hand.msg)'
      BY <2>1, <3>1, <3>2, SoundAges DEF SoundInv, Sound
    <3> QED BY <1>0, <2>1, <2>3, <3>1, <3>2, <3>3 DEF SoundInv, Exists
  <2> QED BY <1>5, <2>2, <2>3, Zenon DEF Query
<1>6. CASE FillClear
  <2>1. /\ hand.at = "begin" /\ hand'.at \in {"fill", "idle"} /\ UNCHANGED <<rec, mail>>
        /\ hand'.at # "idle" => hand'.msg = hand.msg
    BY <1>6, <1>h DEF FillClear
  <2>2. list' = list \/ list' = [r \in Recs |-> None]
    BY <1>6 DEF FillClear, List
  <2> QED BY <1>0, <1>k, <2>1, <2>2, SoundKept
<1>7. CASE FillLoad
  <2>1. hand.at = "fill" /\ hand'.at = "idle" /\ UNCHANGED <<rec, mail>>
    BY <1>7, <1>h DEF FillLoad
  <2>2. list' = list \/ list' = Loaded
    BY <1>7 DEF FillLoad, List
  <2>3. \A r \in Recs : rec'[r].stage = "none" => list'[r] = None
    BY <1>0, <2>1, <2>2 DEF Loaded, Exists
  <2> QED BY <1>0, <1>k, <2>1, <2>3, SoundKept
<1>8. CASE Insert \/ Erase \/ Update
  <2>1. hand'.at = "idle" /\ hand.at # "idle" /\ UNCHANGED <<rec, mail>>
        /\ hand.msg.kind \in {"ADD", "UPDATE", "DELETE"}
    BY <1>8, <1>h DEF Insert, Erase, Update
  <2>2. hand.msg.rec \in Recs /\ rec[hand.msg.rec].stage # "none"
    BY <2>1 DEF SoundInv, Sound
  <2>3. \E p : list' = [list EXCEPT ![hand.msg.rec] = p]
    BY <1>8 DEF Insert, Erase, Update, Replace, List
  <2>4. \A r \in Recs : rec'[r].stage = "none" => list'[r] = None
    BY <1>0, <2>1, <2>2, <2>3 DEF ListType
  <2> QED BY <1>0, <1>k, <2>1, <2>4, SoundKept
<1>9. CASE HouseRecount \/ HouseIdle \/ HouseReset
  <2>1. hand.at # "idle" /\ hand'.at # "found" /\ (hand'.at # "idle" => hand'.msg = hand.msg)
        /\ UNCHANGED <<rec, list, mail>>
    BY <1>9, <1>h DEF HouseRecount, HouseIdle, HouseReset, House
  <2> QED BY <1>0, <1>k, <2>1, SoundKept
<1>10. CASE HouseTrigger
  <2>1. hand.at # "idle" /\ hand'.at = "reset" /\ hand'.msg = hand.msg
        /\ UNCHANGED <<rec, list, mail>>
    BY <1>0, <1>10 DEF HouseTrigger, Triggering, HandType
  <2> QED BY <1>0, <1>k, <2>1, SoundKept
<1>11. CASE Read \/ Count
  BY <1>0, <1>11, <1>k, SoundKept DEF Read, Count, Kodi
<1>12. CASE Watched
  <2>1. UNCHANGED <<rec, mail, hand>> /\ watching \in Recs
    BY <1>12 DEF Watched, Kodi, LockInv
  <2>2. \/ list' = list
        \/ list' = [list EXCEPT ![watching] = rec[watching]] /\ rec[watching].stage # "none"
    BY <1>12 DEF Watched, List, Exists
  <2>3. \A r \in Recs : rec'[r].stage = "none" => list'[r] = None
    BY <1>0, <2>1, <2>2 DEF ListType
  <2> QED BY <1>0, <1>k, <2>1, <2>3, SoundKept
<1>13. CASE UNCHANGED vars
  BY <1>0, <1>13, <1>k, SoundKept DEF vars
<1> QED BY <1>1, <1>2, <1>3, <1>4, <1>5, <1>6, <1>7, <1>8, <1>9, <1>10, <1>11, <1>12, <1>13
        DEF Next, ClientStep

-----------------------------------------------------------------------------
(* The copy.                                                               *)

\* A message that does not renew r changes nothing for it ...
LEMMA OtherPosted ==
  ASSUME BusType, NEW r \in Recs, NEW m \in Messages, Post(m), ~Renews(m, r),
         hand' = hand, rec'[r] = rec[r], list'[r] = list[r]
  PROVE  (Fresh(r) => Fresh(r)') /\ (Kept(r) => Kept(r)')
<1>1. /\ Len(box) \in Nat /\ Len(box') = Len(box) + 1 /\ box'[Len(box) + 1] = m
      /\ \A i \in 1..Len(box) : box'[i] = box[i]
  BY Posted
<1>2. \A i \in 1..Len(box) : i \in 1..Len(box')
  BY <1>1
<1>3. \A i \in 1..Len(box') : i \in 1..Len(box) \/ i = Len(box) + 1
  BY <1>1
<1>4. NoneRenews(r)' => NoneRenews(r)
  BY <1>1, <1>2 DEF NoneRenews, Renews, Updates
<1>5. ASSUME Fresh(r) PROVE Fresh(r)'
  <2>1. ASSUME NEW i \in 1..Len(box'), LastUpdate(i, r)' PROVE box'[i].program = rec'[r]
    <3>1. i \in 1..Len(box) /\ box'[i] = box[i]
      BY <1>1, <1>3, <2>1 DEF LastUpdate, Renews, Updates
    <3>2. LastUpdate(i, r)
      BY <1>1, <1>2, <2>1, <3>1 DEF LastUpdate, Renews, Updates
    <3> QED BY <1>5, <3>1, <3>2 DEF Fresh
  <2>2. NoneRenews(r)' /\ HandUpdates(r)' => hand'.msg.program = rec'[r]
    BY <1>4, <1>5 DEF Fresh, HandUpdates, Updates
  <2> QED BY <2>1, <2>2 DEF Fresh
<1>6. ASSUME Kept(r) PROVE Kept(r)'
  <2>1. ASSUME NEW i \in 1..Len(box'), Updates(box[i], r)',
               \A j \in 1..Len(box') : j > i => box'[j].kind # "RELOAD"
        PROVE  Listed(i, r)'
    <3>1. i \in 1..Len(box) /\ box'[i] = box[i]
      BY <1>1, <1>3, <2>1 DEF Renews, Updates
    <3>2. Listed(i, r)
      BY <1>1, <1>2, <1>6, <2>1, <3>1 DEF Kept, Updates
    <3> QED BY <1>1, <1>2, <3>1, <3>2 DEF Listed, Adds, InList, HandAdds, HandReloads
  <2>2. Coming(r) => Coming(r)'
    BY <1>1, <1>2 DEF Coming, InList, HandAdds, Adds
  <2>3. NoneRenews(r)' => (\/ HandReloads \/ list[r] = rec[r] \/ Coming(r)
                           \/ HandUpdates(r) /\ InList(r))'
    BY <1>4, <1>6, <2>2 DEF Kept, HandReloads, HandUpdates, Updates, InList
  <2> QED BY <2>1, <2>3 DEF Kept
<1> QED BY <1>5, <1>6

\* ... an update of r has its latest version ...
LEMMA UpdatePosted ==
  ASSUME BusType, NEW r \in Recs, NEW m \in Messages, Post(m), Updates(m, r),
         m.program = rec'[r], hand' = hand, list'[r] = list[r], rec[r] # None
  PROVE  Fresh(r)' /\ (Kept(r) => Kept(r)')
<1>1. /\ Len(box) \in Nat /\ Len(box') = Len(box) + 1 /\ box'[Len(box) + 1] = m
      /\ \A i \in 1..Len(box) : box'[i] = box[i]
  BY Posted
<1>2. \A i \in 1..Len(box) : i \in 1..Len(box') /\ Len(box) + 1 > i
  BY <1>1
<1>3. \A i \in 1..Len(box') : i \in 1..Len(box) \/ i = Len(box) + 1
  BY <1>1
<1>4. Len(box) + 1 \in 1..Len(box')
  BY <1>1
<1>5. ~NoneRenews(r)'
  BY <1>1, <1>4 DEF NoneRenews, Renews, Updates
<1>6. Fresh(r)'
  <2>1. ASSUME NEW i \in 1..Len(box'), LastUpdate(i, r)' PROVE box'[i].program = rec'[r]
    <3>1. i = Len(box) + 1
      BY <1>1, <1>2, <1>3, <1>4, <2>1 DEF LastUpdate, Renews, Updates
    <3> QED BY <1>1, <3>1
  <2> QED BY <1>5, <2>1 DEF Fresh
<1>7. ASSUME Kept(r) PROVE Kept(r)'
  <2>1. \/ InList(r) \/ HandAdds(r) \/ HandReloads
        \/ \E j \in 1..Len(box) : Adds(box[j], r) \/ box[j].kind = "RELOAD"
    <3>1. CASE NoneRenews(r)
      BY <1>7, <3>1 DEF Kept, Coming, InList
    <3>2. CASE ~NoneRenews(r)
      BY <1>7, <3>2 DEF Kept, NoneRenews, Renews, Listed
    <3> QED BY <3>1, <3>2
  <2>2. ASSUME NEW i \in 1..Len(box'), Updates(box[i], r)',
               \A j \in 1..Len(box') : j > i => box'[j].kind # "RELOAD"
        PROVE  Listed(i, r)'
    <3>1. CASE i = Len(box) + 1
      BY <1>1, <1>2, <2>1, <3>1 DEF Listed, Adds, InList, HandAdds, HandReloads
    <3>2. CASE i \in 1..Len(box)
      <4>1. Listed(i, r)
        BY <1>1, <1>2, <1>7, <2>2, <3>2 DEF Kept, Updates
      <4> QED BY <1>1, <1>2, <4>1 DEF Listed, Adds, InList, HandAdds, HandReloads
    <3> QED BY <1>3, <3>1, <3>2
  <2> QED BY <1>5, <2>2 DEF Kept
<1> QED BY <1>6, <1>7

\* ... and a reload makes up for everything before.
LEMMA ReloadPosted ==
  ASSUME BusType, NEW r \in Recs, Post(Reload)
  PROVE  Fresh(r)' /\ Kept(r)'
<1>1. /\ Len(box) \in Nat /\ Len(box') = Len(box) + 1 /\ box'[Len(box) + 1] = Reload
      /\ Reload.kind = "RELOAD"
  BY Posted, MessageTypes
<1>2. Len(box) + 1 \in 1..Len(box') /\ \A i \in 1..Len(box') : i = Len(box) + 1 \/ Len(box) + 1 > i
  BY <1>1
<1>3. ~NoneRenews(r)' /\ \A i \in 1..Len(box') : ~LastUpdate(i, r)'
  BY <1>1, <1>2 DEF NoneRenews, LastUpdate, Renews, Updates
<1>4. \A i \in 1..Len(box') :
        ~(Updates(box[i], r)' /\ \A j \in 1..Len(box') : j > i => box'[j].kind # "RELOAD")
  BY <1>1, <1>2 DEF Updates
<1> QED BY <1>3, <1>4 DEF Fresh, Kept

\* Taking a message moves it from the mailbox into the hand.
LEMMA TakingKeeps ==
  ASSUME BusType, HandType, NEW r \in Recs, Take
  PROVE  (Fresh(r) => Fresh(r)') /\ (Kept(r) => Kept(r)')
<1>1. /\ Len(box) \in Nat \ {0} /\ Len(box') = Len(box) - 1
      /\ \A i \in 1..Len(box') : box'[i] = box[i + 1]
      /\ state[Client] = "idle" /\ Head(mail[Client]) = box[1] /\ box[1] \in Messages
  BY TookFirst DEF Take
<1>2. /\ hand.at = "idle" /\ hand'.at = "begin" /\ hand'.msg = box[1]
      /\ rec' = rec /\ list' = list
  BY <1>1 DEF Take, HandType, Nothing, backendVars, listVars
<1>3. /\ 1 \in 1..Len(box)
      /\ \A i \in 1..Len(box') : i \in Int /\ i + 1 \in 1..Len(box) /\ i + 1 > 1
      /\ \A i \in 1..Len(box) : i = 1 \/ (i - 1 \in 1..Len(box') /\ box'[i - 1] = box[i])
  <2>1. \A i \in 1..Len(box) : i = 1 \/ (i - 1 \in 1..Len(box') /\ (i - 1) + 1 = i)
    BY <1>1
  <2>2. \A i \in 1..Len(box) : i = 1 \/ (i - 1 \in 1..Len(box') /\ box'[i - 1] = box[i])
    BY <1>1, <2>1
  <2>3. /\ 1 \in 1..Len(box)
        /\ \A i \in 1..Len(box') : i \in Int /\ i + 1 \in 1..Len(box) /\ i + 1 > 1
    BY <1>1
  <2> QED BY <2>2, <2>3
<1>4. /\ (InList(r)' <=> InList(r)) /\ (HandReloads' <=> box[1].kind = "RELOAD")
      /\ (HandUpdates(r)' <=> Updates(box[1], r)) /\ (HandAdds(r)' <=> Adds(box[1], r))
      /\ ~HandReloads /\ ~HandUpdates(r) /\ ~HandAdds(r)
  BY <1>2 DEF InList, HandReloads, HandUpdates, HandAdds, Updates, Adds
<1>5. NoneRenews(r)' => \A i \in 1..Len(box) : i = 1 \/ ~Renews(box[i], r)
  BY <1>3 DEF NoneRenews, Renews, Updates
<1>6. ASSUME Fresh(r) PROVE Fresh(r)'
  <2>1. ASSUME NEW i \in 1..Len(box'), LastUpdate(i, r)' PROVE box'[i].program = rec'[r]
    <3>1. i + 1 \in 1..Len(box) /\ box'[i] = box[i + 1] /\ i \in Int
      BY <1>1, <1>3
    <3>2. ASSUME NEW j \in 1..Len(box), j > i + 1 PROVE ~Renews(box[j], r)
      <4>1. j - 1 \in 1..Len(box') /\ box'[j - 1] = box[j] /\ j - 1 > i
        BY <1>3, <3>1, <3>2
      <4> QED BY <2>1, <4>1 DEF LastUpdate, Renews, Updates
    <3>3. LastUpdate(i + 1, r)
      BY <2>1, <3>1, <3>2 DEF LastUpdate, Updates
    <3> QED BY <1>2, <1>6, <3>1, <3>3 DEF Fresh
  <2>2. ASSUME NoneRenews(r)', HandUpdates(r)' PROVE hand'.msg.program = rec'[r]
    <3>1. LastUpdate(1, r)
      BY <1>4, <1>5, <2>2 DEF LastUpdate
    <3> QED BY <1>2, <1>3, <1>6, <3>1 DEF Fresh
  <2> QED BY <2>1, <2>2 DEF Fresh
<1>7. ASSUME Kept(r) PROVE Kept(r)'
  <2>1. ASSUME NEW i \in 1..Len(box'), Updates(box[i], r)',
               \A j \in 1..Len(box') : j > i => box'[j].kind # "RELOAD"
        PROVE  Listed(i, r)'
    <3>1. i + 1 \in 1..Len(box) /\ box'[i] = box[i + 1] /\ i \in Int
      BY <1>1, <1>3
    <3>2. ASSUME NEW j \in 1..Len(box), j > i + 1 PROVE box[j].kind # "RELOAD"
      <4>1. j - 1 \in 1..Len(box') /\ box'[j - 1] = box[j] /\ j - 1 > i
        BY <1>3, <3>1, <3>2
      <4> QED BY <2>1, <4>1
    <3>3. Listed(i + 1, r)
      BY <1>7, <2>1, <3>1, <3>2 DEF Kept, Updates
    <3>4. CASE InList(r)
      BY <1>4, <3>4 DEF Listed
    <3>5. CASE \E j \in 1..Len(box) : j < i + 1 /\ (Adds(box[j], r) \/ box[j].kind = "RELOAD")
      <4>1. PICK j \in 1..Len(box) : j < i + 1 /\ (Adds(box[j], r) \/ box[j].kind = "RELOAD")
        BY <3>5
      <4>2. CASE j = 1
        BY <1>4, <4>1, <4>2 DEF Listed
      <4>3. CASE j # 1
        <5>1. j - 1 \in 1..Len(box') /\ box'[j - 1] = box[j] /\ j - 1 < i
          BY <1>3, <3>1, <4>1, <4>3
        <5> QED BY <4>1, <5>1 DEF Listed, Adds
      <4> QED BY <4>2, <4>3
    <3> QED BY <1>4, <3>3, <3>4, <3>5 DEF Listed
  <2>2. ASSUME NoneRenews(r)'
        PROVE  (HandReloads \/ list[r] = rec[r] \/ Coming(r) \/ (HandUpdates(r) /\ InList(r)))'
    <3>1. CASE box[1].kind = "RELOAD"
      BY <1>4, <3>1
    <3>2. CASE Updates(box[1], r)
      <4>1. ASSUME NEW j \in 1..Len(box), j > 1 PROVE box[j].kind # "RELOAD"
        BY <1>5, <2>2, <4>1 DEF Renews
      <4>2. Listed(1, r)
        BY <1>3, <1>7, <3>2, <4>1 DEF Kept
      <4>3. InList(r)
        BY <1>4, <4>2 DEF Listed
      <4> QED BY <1>4, <3>2, <4>3
    <3>3. CASE ~Renews(box[1], r)
      <4>1. list[r] = rec[r] \/ Coming(r)
        BY <1>4, <1>5, <1>7, <2>2, <3>3 DEF Kept, NoneRenews
      <4>2. CASE Coming(r)
        <5>1. PICK j \in 1..Len(box) : Adds(box[j], r)
          BY <1>4, <4>2 DEF Coming
        <5>2. HandAdds(r)' \/ \E k \in 1..Len(box') : Adds(box[k], r)'
          BY <1>3, <1>4, <5>1 DEF Adds
        <5> QED BY <1>2, <1>4, <4>2, <5>2 DEF Coming
      <4> QED BY <1>2, <4>1, <4>2
    <3> QED BY <3>1, <3>2, <3>3 DEF Renews
  <2> QED BY <2>1, <2>2 DEF Kept
<1> QED BY <1>6, <1>7

\* The hand has nothing to do with r.
Unrelated(r) == ~HandReloads /\ ~HandUpdates(r) /\ ~HandAdds(r)

LEMMA CopyKept ==
  ASSUME NEW r \in Recs, mail' = mail, rec'[r] = rec[r], list'[r] = list[r],
         hand' = hand \/ (Unrelated(r) /\ Unrelated(r)')
  PROVE  (Fresh(r) => Fresh(r)') /\ (Kept(r) => Kept(r)')
<1> USE DEF box
<1>1. NoneRenews(r)' = NoneRenews(r) /\ InList(r)' = InList(r)
  BY DEF NoneRenews, Renews, Updates, InList
<1>2. /\ HandReloads' = HandReloads /\ HandUpdates(r)' = HandUpdates(r) /\ HandAdds(r)' = HandAdds(r)
      /\ HandUpdates(r) \/ HandAdds(r) => hand' = hand
  BY DEF HandReloads, HandUpdates, HandAdds, Updates, Adds, Unrelated
<1>3. Fresh(r) => Fresh(r)'
  BY <1>1, <1>2 DEF Fresh, LastUpdate, Renews, Updates
<1>4. \A i : Listed(i, r) => Listed(i, r)'
  BY <1>1, <1>2 DEF Listed, Adds
<1>5. Coming(r) => Coming(r)'
  BY <1>1, <1>2 DEF Coming, Adds
<1>6. Kept(r) => Kept(r)'
  BY <1>1, <1>2, <1>4, <1>5 DEF Kept, Updates
<1> QED BY <1>3, <1>6

\* A new recording is announced: nothing tells of it yet.
LEMMA AddPosted ==
  ASSUME BusType, SoundInv, NEW r \in Recs, NEW m \in Messages, Post(m), Adds(m, r),
         rec[r].stage = "none", hand' = hand, list'[r] = list[r]
  PROVE  Fresh(r)' /\ Kept(r)'
<1>1. /\ Len(box) \in Nat /\ Len(box') = Len(box) + 1 /\ box'[Len(box) + 1] = m
      /\ \A i \in 1..Len(box) : box'[i] = box[i]
  BY Posted
<1>2. Len(box) + 1 \in 1..Len(box') /\ \A i \in 1..Len(box') : i \in 1..Len(box) \/ i = Len(box) + 1
  BY <1>1
<1>3. \A i \in 1..Len(box) : ~Updates(box[i], r)
  BY DEF SoundInv, Sound, Updates
<1>4. ~HandUpdates(r) /\ ~HandAdds(r) /\ list[r] = None
  BY DEF SoundInv, Sound, HandUpdates, HandAdds, Updates, Adds
<1>5. \A i \in 1..Len(box') : ~Updates(box[i], r)'
  BY <1>1, <1>2, <1>3 DEF Updates, Adds
<1>6. ~HandUpdates(r)' /\ ~HandAdds(r)' /\ ~InList(r)'
  BY <1>4 DEF HandUpdates, HandAdds, Updates, Adds, InList
<1>7. \E j \in 1..Len(box') : Adds(box[j], r)'
  BY <1>1, <1>2 DEF Adds
<1>8. Coming(r)'
  BY <1>6, <1>7 DEF Coming
<1> QED BY <1>5, <1>6, <1>8 DEF Fresh, LastUpdate, Kept

Follows(r) == /\ Fresh(r)
              /\ r \notin missed => Kept(r)

LEMMA BackendCopies ==
  ASSUME IInv, NEW q \in Recs,
         Record(q) \/ Change(q) \/ Delete(q) \/ Purge(q) \/ Watch(q)
  PROVE  CopyInv'
<1>0. BusType /\ HandType /\ ListType /\ SoundInv
  BY DEF IInv, TypeInv
<1> SUFFICES ASSUME NEW r \in Recs, link', rec'[r].stage = "live" PROVE Follows(r)'
  BY DEF CopyInv, Follows
<1>1. PICK p \in Programs, kind \in {"ADD", "UPDATE", "DELETE"} :
         /\ Become(q, p, kind) /\ rec' = [rec EXCEPT ![q] = p] /\ p.stage # "none"
         /\ UNCHANGED <<link, hand, list, missed>>
         /\ kind = "ADD" => rec[q].stage = "none"
         /\ kind = "UPDATE" => Exists(rec[q]) /\ p.stage = rec[q].stage
         /\ kind = "DELETE" => p.stage \in {"pending", "gone"}
  BY Happens DEF IInv
<1> DEFINE m == Message(kind, q, IF kind = "UPDATE" THEN p ELSE None)
<1>2. /\ m \in Messages /\ m.kind = kind /\ m.rec = q /\ (kind = "UPDATE" => m.program = p)
  <2>1. (IF kind = "UPDATE" THEN p ELSE None) \in Programs
    BY MessageTypes
  <2> QED BY <2>1, MessageTypes DEF Message
<1>3. Post(m)
  BY <1>1, BecomePosts
<1> HIDE DEF m
<1>4. rec'[q] = p /\ (r # q => rec'[r] = rec[r]) /\ hand' = hand /\ list' = list /\ missed' = missed
      /\ link
  BY <1>0, <1>1 DEF ListType
<1>5. CASE r # q
  <2>1. ~Renews(m, r)
    BY <1>2, <1>5 DEF Renews, Updates
  <2>2. (Fresh(r) => Fresh(r)') /\ (Kept(r) => Kept(r)')
    BY <1>0, <1>2, <1>3, <1>4, <1>5, <2>1, OtherPosted
  <2> QED BY <1>4, <1>5, <2>2 DEF IInv, CopyInv, Follows
<1>6. CASE r = q /\ kind = "ADD"
  <2>1. Adds(m, r)
    BY <1>2, <1>6 DEF Adds
  <2>2. Fresh(r)' /\ Kept(r)'
    BY <1>0, <1>1, <1>2, <1>3, <1>4, <1>6, <2>1, AddPosted
  <2> QED BY <2>2 DEF Follows
<1>7. CASE r = q /\ kind = "UPDATE"
  <2>1. Updates(m, r) /\ m.program = rec'[r] /\ rec[r].stage = "live" /\ rec[r] # None
    BY <1>1, <1>2, <1>4, <1>7 DEF Updates, Exists, None
  <2>2. Fresh(r)' /\ (Kept(r) => Kept(r)')
    BY <1>0, <1>2, <1>3, <1>4, <2>1, UpdatePosted
  <2> QED BY <1>4, <2>1, <2>2 DEF IInv, CopyInv, Follows
<1>8. ~(r = q /\ kind = "DELETE")
  BY <1>1, <1>4
<1> QED BY <1>1, <1>5, <1>6, <1>7, <1>8

\* Once the message in hand is not an update of r, the waiting ones decide.
LEMMA FreshKept ==
  ASSUME NEW r \in Recs, mail' = mail, rec'[r] = rec[r], Fresh(r), ~HandUpdates(r)'
  PROVE  Fresh(r)'
BY DEF Fresh, LastUpdate, NoneRenews, Renews, Updates, box

\* A copy that is right needs nothing.
LEMMA RightKept ==
  ASSUME NEW r \in Recs, list'[r] = rec'[r], rec'[r] # None
  PROVE  Kept(r)'
BY DEF Kept, Listed, InList

LEMMA FillCopies ==
  ASSUME IInv, FillClear \/ FillLoad
  PROVE  CopyInv'
<1>0. BusType /\ HandType /\ ListType
  BY DEF IInv, TypeInv
<1>h. ASSUME NEW kinds, NEW from, NEW to, from # "idle", Handle(kinds, from, to)
      PROVE  /\ hand.at = from /\ hand'.at = to /\ rec' = rec /\ mail' = mail
             /\ hand.msg.kind \in kinds /\ (to # "idle" => hand'.msg = hand.msg)
  BY <1>0, <1>h, Handled
<1>d. FillClear => link' = link
  BY DEF FillClear, Handle, backendVars
<1>e. ASSUME FillClear, link
      PROVE  /\ mail' = mail /\ rec' = rec /\ hand'.at = "fill" /\ hand'.msg = hand.msg
             /\ hand.msg.kind = "RELOAD"
  BY <1>e, <1>h DEF FillClear
<1> SUFFICES ASSUME NEW r \in Recs, link', rec'[r].stage = "live" PROVE Follows(r)'
  BY DEF CopyInv, Follows
<1>1. CASE FillClear
  <2>1. link
    BY <1>1, <1>d
  <2>3. /\ mail' = mail /\ rec' = rec /\ hand'.at = "fill" /\ hand'.msg = hand.msg
        /\ hand.msg.kind = "RELOAD"
    BY <1>1, <1>e, <2>1
  <2>4. HandReloads' /\ ~HandUpdates(r)'
    BY <2>3 DEF HandReloads, HandUpdates, Updates
  <2>5. Fresh(r)
    BY <2>1, <2>3 DEF IInv, CopyInv
  <2> QED BY <2>3, <2>4, <2>5, FreshKept DEF Follows, Kept, Listed
<1>2. CASE FillLoad
  <2>1. Handle({"RELOAD"}, "fill", "idle")
    BY <1>2 DEF FillLoad
  <2>2. mail' = mail /\ rec' = rec /\ link' = link /\ hand'.at = "idle"
    BY <1>0, <2>1, Handled
  <2>3. Fresh(r)'
    BY <2>2, FreshKept DEF IInv, CopyInv, HandUpdates
  <2>4. CASE missed' = Recs
    BY <2>3, <2>4 DEF Follows
  <2>5. CASE list' = Loaded
    <3>1. list'[r] = rec'[r] /\ rec'[r] # None
      BY <2>2, <2>5 DEF Loaded, Exists, None
    <3> QED BY <2>3, <3>1, RightKept DEF Follows
  <2> QED BY <1>2, <2>4, <2>5 DEF FillLoad, List
<1> QED BY <1>1, <1>2

LEMMA QueryCopies ==
  ASSUME IInv, Query
  PROVE  CopyInv'
<1>0. BusType /\ HandType /\ ListType
  BY DEF IInv, TypeInv
<1> SUFFICES ASSUME NEW r \in Recs, link', rec'[r].stage = "live" PROVE Follows(r)'
  BY DEF CopyInv, Follows
<1>1. /\ mail' = mail /\ rec' = rec /\ link' = link /\ list' = list
      /\ hand.at = "begin" /\ hand.msg.kind \in {"ADD", "DELETE"}
  BY <1>0, Finished DEF Query, backendVars, listVars, mailVars
<1>2. Fresh(r) /\ (r \notin missed => Kept(r))
  BY <1>1 DEF IInv, CopyInv
<1>3. \/ /\ hand'.at = "found" /\ hand'.msg = hand.msg /\ hand'.found = rec[hand.msg.rec]
         /\ missed' = missed
      \/ /\ hand' = Nothing /\ hand'.at = "idle"
         /\ missed' = IF hand.msg.kind = "ADD" THEN missed \cup {hand.msg.rec} ELSE missed
  <2>1. CASE hand' = Nothing
    BY <2>1 DEF Query, Nothing
  <2>2. CASE hand' = [hand EXCEPT !.at = "found", !.found = rec[hand.msg.rec]] /\ missed' = missed
    BY <1>0, <2>2 DEF HandType
  <2> QED BY <2>1, <2>2 DEF Query
<1>4. ~HandUpdates(r)' /\ ~HandReloads /\ ~HandReloads' /\ ~HandUpdates(r)
  BY <1>1, <1>3 DEF HandUpdates, HandReloads, Updates
<1>5. Fresh(r)'
  BY <1>1, <1>2, <1>4, FreshKept
<1>6. CASE ~HandAdds(r)
  <2>1. Unrelated(r) /\ Unrelated(r)'
    BY <1>1, <1>3, <1>4, <1>6 DEF Unrelated, HandAdds, Adds
  <2>2. Kept(r) => Kept(r)'
    BY <1>1, <2>1, CopyKept
  <2> QED BY <1>2, <1>3, <1>5, <2>2 DEF Follows
<1>7. CASE HandAdds(r) /\ hand' = Nothing
  <2>1. r \in missed'
    BY <1>1, <1>3, <1>7 DEF HandAdds, Adds, Nothing
  <2> QED BY <1>5, <2>1 DEF Follows
<1>8. CASE /\ HandAdds(r) /\ hand'.at = "found" /\ hand'.msg = hand.msg
           /\ hand'.found = rec[hand.msg.rec] /\ missed' = missed
  <2>1. HandAdds(r)' /\ hand'.found = rec'[r]
    BY <1>1, <1>8 DEF HandAdds, Adds
  <2>2. Kept(r) => Kept(r)'
    <3>1. NoneRenews(r)' = NoneRenews(r) /\ InList(r)' = InList(r)
      BY <1>1 DEF NoneRenews, Renews, Updates, InList, box
    <3>2. Coming(r) => Coming(r)'
      BY <2>1, <3>1 DEF Coming
    <3>3. \A i : Listed(i, r)'
      BY <2>1 DEF Listed
    <3> QED BY <1>1, <1>4, <3>1, <3>2, <3>3 DEF Kept
  <2> QED BY <1>2, <1>5, <1>8, <2>2 DEF Follows
<1> QED BY <1>3, <1>6, <1>7, <1>8

LEMMA ListCopies ==
  ASSUME IInv, Insert \/ Erase \/ Update
  PROVE  CopyInv'
<1>0. BusType /\ HandType /\ ListType
  BY DEF IInv, TypeInv
<1>h. ASSUME NEW kinds, NEW from, NEW to, from # "idle", Handle(kinds, from, to)
      PROVE  /\ hand.at = from /\ hand'.at = to /\ rec' = rec /\ mail' = mail /\ link' = link
             /\ hand.msg.kind \in kinds /\ (to # "idle" => hand'.msg = hand.msg)
  BY <1>0, <1>h, Handled
<1>1. /\ mail' = mail /\ rec' = rec /\ link' = link /\ hand.at # "idle" /\ hand'.at = "idle"
      /\ hand.msg.kind \in {"ADD", "UPDATE", "DELETE"} /\ missed' = missed
      /\ (Insert => hand.at = "found" /\ hand.msg.kind = "ADD")
      /\ (Erase => hand.msg.kind = "DELETE") /\ (Update => hand.msg.kind = "UPDATE")
  BY <1>h DEF Insert, Erase, Update, Replace
<1> SUFFICES ASSUME NEW r \in Recs, link', rec'[r].stage = "live" PROVE Follows(r)'
  BY DEF CopyInv, Follows
<1>2. Fresh(r) /\ (r \notin missed => Kept(r)) /\ rec[r] # None
  BY <1>1 DEF IInv, CopyInv, None
<1>3. ~HandUpdates(r)' /\ ~HandReloads /\ Unrelated(r)'
  BY <1>1 DEF HandUpdates, HandReloads, HandAdds, Unrelated
<1>4. Fresh(r)'
  BY <1>1, <1>2, <1>3, FreshKept
<1>5. hand.msg.rec \in Recs /\ Sound(hand.msg)
  BY <1>1 DEF IInv, SoundInv, Sound
<1>6. CASE hand.msg.rec # r
  <2>1. list'[r] = list[r]
    BY <1>0, <1>5, <1>6 DEF Insert, Erase, Update, Replace, List, ListType
  <2>2. Unrelated(r)
    BY <1>3, <1>6 DEF Unrelated, HandUpdates, HandAdds, Updates, Adds
  <2>3. Kept(r) => Kept(r)'
    BY <1>1, <1>3, <2>1, <2>2, CopyKept
  <2> QED BY <1>1, <1>2, <1>4, <2>3 DEF Follows
<1>7. ~(hand.msg.rec = r /\ Erase)
  BY <1>1, <1>5 DEF Sound
<1> SUFFICES ASSUME hand.msg.rec = r, ~Erase, r \notin missed PROVE Kept(r)'
  BY <1>1, <1>4, <1>6, <1>7 DEF Follows
<1>8. Kept(r)
  BY <1>2
<1>9. NoneRenews(r)' = NoneRenews(r)
  BY <1>1 DEF NoneRenews, Renews, Updates, box
<1>10. CASE Insert
  <2>1. list'[r] = Inserted(r)
    BY <1>0, <1>10 DEF Insert, Replace, List, ListType
  <2>2. InList(r)'
    BY <1>1, <1>10, <2>1 DEF Inserted, InList, IInv, SoundInv, Exists, None
  <2>3. HandAdds(r) /\ ~HandUpdates(r)
    BY <1>1, <1>10 DEF HandAdds, Adds, HandUpdates, Updates
  <2>4. ASSUME NoneRenews(r)' PROVE list'[r] = rec'[r]
    <3>1. list[r] = rec[r] \/ Coming(r)
      BY <1>3, <1>8, <1>9, <2>3, <2>4 DEF Kept
    <3> QED BY <1>1, <1>2, <1>10, <2>1, <2>3, <3>1 DEF Inserted, InList, Coming
  <2> QED BY <2>2, <2>4 DEF Kept, Listed
<1>11. CASE Update
  <2>1. list'[r] = Updated(r)
    BY <1>0, <1>11 DEF Update, Replace, List, ListType
  <2>2. InList(r)' <=> InList(r)
    BY <1>1, <1>5, <1>11, <2>1 DEF Updated, InList, Sound, Exists, None
  <2>3. HandUpdates(r) /\ ~HandAdds(r) /\ ~HandAdds(r)'
    BY <1>1, <1>11 DEF HandAdds, Adds, HandUpdates, Updates
  <2>4. \A i : Listed(i, r) => Listed(i, r)'
    BY <1>1, <1>3, <2>2, <2>3 DEF Listed, Adds, box
  <2>5. ASSUME NoneRenews(r)' PROVE list'[r] = rec'[r] \/ Coming(r)'
    <3>1. InList(r) \/ Coming(r)
      BY <1>2, <1>3, <1>8, <1>9, <2>5 DEF Kept, InList
    <3>2. CASE InList(r)
      BY <1>1, <1>2, <1>9, <2>1, <2>3, <2>5, <3>2 DEF Updated, Fresh
    <3>3. CASE Coming(r)
      BY <1>1, <2>2, <2>3, <3>3 DEF Coming, Adds, box
    <3> QED BY <3>1, <3>2, <3>3
  <2> QED BY <1>1, <1>8, <2>4, <2>5 DEF Kept, Updates, box
<1> QED BY <1>10, <1>11

LEMMA CopyStep == IInv /\ [Next]_vars => CopyInv'
<1> USE DEF backendVars, mailVars, listVars, kodiVars
<1> SUFFICES ASSUME IInv, [Next]_vars PROVE CopyInv'
  OBVIOUS
<1>0. BusType /\ HandType /\ ListType
  BY DEF IInv, TypeInv
\* The step adds and takes nothing that the copy of a recording depends on.
<1>k. ASSUME UNCHANGED <<rec, mail, missed>>, link' => link,
             \A r \in Recs : \/ list'[r] = list[r]
                             \/ list'[r] = rec'[r] /\ hand' = hand,
             hand' = hand \/ (hand.msg.kind = "TIMER" /\
                              (hand'.at = "idle" \/ hand'.msg = hand.msg))
      PROVE  CopyInv'
  <2> SUFFICES ASSUME NEW r \in Recs, link', rec'[r].stage = "live" PROVE Follows(r)'
    BY DEF CopyInv, Follows
  <2>1. Fresh(r) /\ (r \notin missed => Kept(r)) /\ rec'[r] # None
    BY <1>k DEF IInv, CopyInv, None
  <2>2. hand' = hand \/ (Unrelated(r) /\ Unrelated(r)')
    BY <1>k DEF Unrelated, HandReloads, HandUpdates, HandAdds, Updates, Adds
  <2>3. CASE list'[r] = list[r]
    BY <1>k, <2>1, <2>2, <2>3, CopyKept DEF Follows
  <2>4. CASE list'[r] = rec'[r] /\ hand' = hand
    <3>1. Fresh(r)'
      BY <1>k, <2>1, <2>4 DEF Fresh, LastUpdate, NoneRenews, Renews, HandUpdates, Updates, box
    <3> QED BY <2>1, <2>4, <3>1, RightKept DEF Follows
  <2> QED BY <1>k, <2>3, <2>4
<1>1. ASSUME NEW r \in Recs PROVE Record(r) \/ Change(r) \/ Delete(r) \/ Purge(r) \/ Watch(r) => CopyInv'
  BY BackendCopies
<1>2. CASE Lose
  BY <1>2 DEF Lose, CopyInv
<1>3. CASE Reconnect
  BY <1>0, <1>3, ReloadPosted DEF Reconnect, CopyInv
<1>4. CASE Tick
  <2>1. \A r \in Recs : ~Renews(Timer, r)
    BY MessageTypes DEF Renews, Updates
  <2>2. \A r \in Recs : (Fresh(r) => Fresh(r)') /\ (Kept(r) => Kept(r)')
    BY <1>0, <1>4, <2>1, MessageTypes, OtherPosted DEF Tick
  <2> QED BY <1>4, <2>2 DEF Tick, IInv, CopyInv
<1>5. CASE Take
  BY <1>0, <1>5, TakingKeeps DEF Take, IInv, CopyInv
<1>6. CASE FillClear \/ FillLoad
  BY <1>6, FillCopies
<1>7. CASE Query
  BY <1>7, QueryCopies
<1>8. CASE Insert \/ Erase \/ Update
  BY <1>8, ListCopies
<1>9. CASE HouseRecount \/ HouseIdle \/ HouseReset
  <2>1. PICK from \in {"begin", "reset"}, to \in {"trigger", "idle"} : House(from, to)
    BY <1>9 DEF HouseRecount, HouseIdle, HouseReset
  <2>2. /\ UNCHANGED <<rec, mail, link>> /\ hand.msg.kind = "TIMER"
        /\ hand'.at = "idle" \/ hand'.msg = hand.msg
    BY <1>0, <2>1, Handled DEF House
  <2>3. UNCHANGED <<list, missed>>
    BY <2>1 DEF House
  <2> QED BY <1>k, <2>2, <2>3
<1>10. CASE HouseTrigger
  <2>1. /\ hand' = [hand EXCEPT !.at = "reset"] /\ hand.at = "trigger"
        /\ UNCHANGED <<rec, mail, link, list, missed>>
    BY <1>10 DEF HouseTrigger, Triggering
  <2>2. hand.msg.kind = "TIMER" /\ hand'.msg = hand.msg
    BY <1>0, <2>1 DEF HandType
  <2> QED BY <1>k, <2>1, <2>2
<1>11. CASE Read \/ Count
  BY <1>k, <1>11 DEF Read, Count, Kodi
<1>12. CASE Watched
  <2>1. UNCHANGED <<rec, mail, missed, link, hand>>
    BY <1>12 DEF Watched, Kodi
  <2>2. list' = list \/ list' = [list EXCEPT ![watching] = rec[watching]]
    BY <1>12 DEF Watched, List
  <2>3. \A r \in Recs : list'[r] = list[r] \/ list'[r] = rec'[r]
    BY <1>0, <2>1, <2>2 DEF ListType
  <2> QED BY <1>k, <2>1, <2>3
<1>13. CASE UNCHANGED vars
  BY <1>k, <1>13 DEF vars
<1> QED BY <1>1, <1>2, <1>3, <1>4, <1>5, <1>6, <1>7, <1>8, <1>9, <1>10, <1>11, <1>12, <1>13
        DEF Next, ClientStep

-----------------------------------------------------------------------------
(* The theorems.                                                           *)

THEOREM Inductive == IInv /\ [Next]_vars => IInv'
BY TypeStep, LockStep, HouseStep, SoundStep, CopyStep DEF IInv

LEMMA Always == Safe => []IInv
BY InitOK, Inductive, PTL DEF Safe

\* Every variable keeps its type, the mailbox its bound.
THEOREM TypeCorrect == Safe => []TypeOK
<1>1. IInv => TypeOK
  <2> SUFFICES ASSUME IInv PROVE TypeOK
    OBVIOUS
  <2>0. Flags /\ BusType /\ HandType /\ ListType
    BY DEF IInv, TypeInv
  <2>1. {pin, recount, trigger, unseen, overtaken} \subseteq BOOLEAN
    BY <2>0, Zenon DEF Flags
  <2>2. /\ mail[Client] \in Seq(Messages) /\ Len(mail[Client]) <= MailMax
        /\ state[Client] \in {"idle", "busy"}
    BY <2>0 DEF BusType, box
  <2>3. (hand = Nothing) = (state[Client] = "idle")
    BY <2>0 DEF HandType, Nothing
  <2>4. /\ hand.at \in {"idle", "begin", "fill", "found", "trigger", "reset"}
        /\ hand.msg \in Messages /\ hand.found \in Programs
    BY <2>0 DEF HandType
  <2> QED BY <2>0, <2>1, <2>2, <2>3, <2>4 DEF TypeOK, Flags, ListType
<1> QED BY <1>1, Always, PTL

\* The copy catches up with the backend: once no message about a recording
\* waits or is being handled, the list has its latest version, although the
\* message that told of it and the query that answered it raced with other
\* changes, with Kodi's and with the loss of the connection.
THEOREM CopyCatchesUp == Safe => []ListCatchesUp
<1>1. IInv => ListCatchesUp
  <2> SUFFICES ASSUME IInv, NEW r \in Recs, Settled(r), rec[r].stage = "live", r \notin missed
               PROVE  list[r] = rec[r]
    BY DEF ListCatchesUp
  <2>1. Kept(r)
    BY DEF IInv, CopyInv, Settled
  <2>2. /\ NoneRenews(r) /\ ~\E j \in 1..Len(box) : Adds(box[j], r)
        /\ ~HandReloads /\ ~HandUpdates(r) /\ ~HandAdds(r)
    BY DEF Settled, About, NoneRenews, Renews, Updates, Adds, HandReloads, HandUpdates, HandAdds, box
  <2> QED BY <2>1, <2>2 DEF Kept, Coming
<1> QED BY <1>1, Always, PTL

\* The number of recordings is right, or is going to be counted again.
THEOREM AmountStaysRight == Safe => []AmountIsRight
<1>1. IInv => AmountIsRight
  BY DEF IInv
<1> QED BY <1>1, Always, PTL

\* Kodi's copy is out of date only as long as an update is coming.
THEOREM ChangesReachKodi == Safe => []ChangesAreShown
<1>1. IInv => ChangesAreShown
  BY DEF IInv
<1> QED BY <1>1, Always, PTL
=============================================================================
