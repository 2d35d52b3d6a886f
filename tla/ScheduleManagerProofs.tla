------------------------ MODULE ScheduleManagerProofs ------------------------
(***************************************************************************)
(* For all showings and every number of rules, operations and faults: the  *)
(* types of ScheduleManager, that the copy of the rules and of the         *)
(* schedule catches up with the backend, and that deleting a rule leaves   *)
(* nothing of it behind that the client could have known of.               *)
(***************************************************************************)
EXTENDS ScheduleManager, SequenceTheorems, TLAPS

Rules == [Ids -> {NoRule} \cup Rule]
Told  == {"change", "connected"}

InRules    == [pc : {"rules"}, rules : Rules, late : BOOLEAN, failed : BOOLEAN]
InUpcoming == [pc : {"upcoming"}, late : BOOLEAN, failed : BOOLEAN, copy : CopyType]
Triggers   == [pc |-> "trigger"]

Flags == /\ dirty \in BOOLEAN /\ link \in BOOLEAN /\ trigger \in BOOLEAN
         /\ shown \in BOOLEAN /\ overtaken \in BOOLEAN /\ missed \in BOOLEAN

BackendType ==
  /\ rules \in Rules /\ nextId \in 1 .. MaxId + 1
  /\ recording \in {Nothing} \cup [rule : Ids, show : Showings]
  /\ aired \subseteq Showings /\ before \subseteq Showings /\ scheduled \subseteq Entry

MailType == mail \in [Threads -> Seq(Told)] /\ \A t \in Threads : Len(mail[t]) <= MailMax
UpdType  == upd \in [Threads -> {Idle, Triggers} \cup InRules \cup InUpcoming]

ClientType == /\ copy \in CopyType
              /\ del \in [rule : 0 .. MaxId, todo : SUBSET Ids]
              /\ unseen \subseteq 0 .. MaxId

CountType == ops \in 0 .. MaxOps /\ faults \in 0 .. MaxFaults

TypeInv == Flags /\ BackendType /\ MailType /\ UpdType /\ ClientType /\ CountType

\* Numbers are given once, and a modifier is younger than its rule.
NumberInv ==
  \A i \in Ids : Exists(rules, i) => /\ i < nextId
                                     /\ IsModifier(rules, i) => rules[i].parent < i

SameRule(p, q) == p.type = q.type /\ p.parent = q.parent /\ p.show = q.show

\* db has been the backend's rules, which now are these: what it lacks of them
\* has been made after all that it has.
Snapshot(db, now, next) ==
  \A i \in Ids :
    /\ Exists(db, i) => i < next
    /\ Exists(db, i) /\ Exists(now, i) => SameRule(db[i], now[i])
    /\ \A j \in Ids : Exists(now, i) /\ ~Exists(db, i) /\ Exists(db, j) => j < i

UpdInv ==
  \A t \in Threads :
    /\ upd[t].pc = "rules" => Snapshot(upd[t].rules, rules, nextId)
    /\ upd[t].pc = "upcoming" => /\ Snapshot(upd[t].copy.rules, rules, nextId)
                                 /\ upd[t].copy.overrides = Linked(upd[t].copy.rules)

\* What the copy takes for a modifier is or was one.
WasModifier(m) == m < nextId /\ (Exists(rules, m) => IsModifier(rules, m))

CopyInv ==
  \A r \in Ids :
    /\ Exists(copy.rules, r) => r < nextId
    /\ \A m \in copy.overrides[r] : WasModifier(m)

\* The client knows of each modifier of a rule, or could not know of it, and
\* while it deletes the rule it is going to remove them.
KnownInv ==
  \A r \in Ids : Exists(rules, r) => Modifiers(rules, r) \subseteq unseen \cup copy.overrides[r]

DelInv ==
  ~Free => /\ Exists(rules, del.rule) => Modifiers(rules, del.rule) \subseteq unseen \cup del.todo
           /\ \A m \in del.todo : WasModifier(m)

\* It knows of what is being recorded, or could not know of it.
RecordingInv ==
  recording # Nothing =>
    \/ 0 \in unseen
    \/ \E e \in copy.upcoming : /\ e.status = "recording"
                                /\ recording = [rule |-> e.rule, show |-> e.show]

\* An update that is going to install what the backend has now, or nothing.
Fetching(u) == u.pc \in {"rules", "upcoming"}
Serves(u, now, upcoming) ==
  \/ Fetching(u) /\ u.failed
  \/ u.pc = "rules" /\ u.rules = now
  \/ u.pc = "upcoming" /\ u.copy = CopyOf(now, upcoming)

Silent == link /\ ~dirty /\ \A t \in Threads : mail[t] = <<>>

\* When all is announced and every message taken, the copy is current or an
\* update is going to make it so; one that is out of date comes before that
\* update or has been noted as late.
CatchUpInv ==
  Silent => /\ \/ IsCurrent \/ missed \/ overtaken
               \/ \E t \in Threads : Serves(upd[t], rules, scheduled)
            /\ \A t \in Threads : Fetching(upd[t]) =>
                 \/ Serves(upd[t], rules, scheduled) \/ upd[t].late
                 \/ \E u \in Threads : u # t /\ Serves(upd[u], rules, scheduled)

IInv == TypeInv /\ NumberInv /\ UpdInv /\ CopyInv /\ KnownInv /\ DelInv /\ RecordingInv
             /\ CatchUpInv

-----------------------------------------------------------------------------
(* Rules, and the copy that is made of them.                               *)

LEMMA RuleTypes ==
  ASSUME NEW db \in Rules, NEW r \in Ids
  PROVE  /\ Exists(db, r) <=> db[r] \in Rule
         /\ Exists(db, r) => db[r].type \in {"single", "series", "dont", "override"}
BY DEF Rules, Exists, NoRule, Rule

LEMMA LinkedType == \A db \in Rules : Linked(db) \in [Ids -> SUBSET Ids]
BY DEF Linked

LEMMA CopyOfType ==
  ASSUME NEW db \in Rules, NEW upcoming \in SUBSET Entry
  PROVE  CopyOf(db, upcoming) \in CopyType
BY LinkedType DEF CopyOf, CopyType, Rules

LEMMA NoCopyType == NoCopy.rules \in Rules /\ \A r \in Ids : ~Exists(NoCopy.rules, r)
BY DEF NoCopy, Rules, Exists

LEMMA FirstRule ==
  /\ MainRules \cup Orphans \subseteq Rule
  /\ \A rule \in MainRules : rule.type \notin Modifier
  /\ \A rule \in MainRules \cup Orphans : rule.parent = 0 /\ rule # NoRule
<1>1. MainRules \subseteq Rule /\ Orphans \subseteq Rule
  <2>1. 0 \in 0 .. MaxId
    BY ScheduleAssumption
  <2> QED BY <2>1 DEF MainRules, Orphans, Rule, Modifier
<1>2. \A rule \in MainRules : rule.type \in {"single", "series"} /\ rule.parent = 0
  BY DEF MainRules
<1>3. \A rule \in Orphans : rule.type \in Modifier /\ rule.parent = 0
  BY DEF Orphans
<1>4. NoRule \notin Rule
  BY DEF NoRule, Rule
<1> QED BY <1>1, <1>2, <1>3, <1>4 DEF Modifier

\* What an operation of Kodi comes to: at most one of the requests, for a
\* rule of the copy.
LEMMA KodiRequests ==
  ASSUME TypeInv, Kodi
  PROVE  /\ Free /\ UNCHANGED <<link, mail, upd, trigger, overtaken, missed>>
         /\ \/ NoRequest
            \/ \E r \in Ids : Exists(copy.rules, r) /\ DeleteRule(r)
            \/ \E rule \in Rule : rule.type \notin Modifier /\ AddRule(rule)
            \/ \E r \in Ids, type \in Modifier, s \in Showings :
                 Exists(copy.rules, r) /\ AddModifier(r, type, s)
            \/ \E r \in Ids, off \in BOOLEAN : Exists(copy.rules, r) /\ SetInactive(r, off)
            \/ \E e \in Entry : StopRecording(e)
<1> DEFINE Asks ==
            \/ NoRequest
            \/ \E r \in Ids : Exists(copy.rules, r) /\ DeleteRule(r)
            \/ \E rule \in Rule : rule.type \notin Modifier /\ AddRule(rule)
            \/ \E r \in Ids, type \in Modifier, s \in Showings :
                 Exists(copy.rules, r) /\ AddModifier(r, type, s)
            \/ \E r \in Ids, off \in BOOLEAN : Exists(copy.rules, r) /\ SetInactive(r, off)
            \/ \E e \in Entry : StopRecording(e)
<1>0. copy.rules \in Rules /\ copy.upcoming \subseteq Entry
  BY DEF TypeInv, ClientType, CopyType, Rules
<1>1. \A e \in copy.upcoming : e \in Entry /\ e.rule \in Ids /\ e.show \in Showings
  BY <1>0 DEF Entry
<1>2. ASSUME NEW r \in Ids, DeleteRule(r) PROVE Asks
  BY <1>2 DEF DeleteRule
<1>3. ASSUME NEW e \in copy.upcoming, Disable(e) PROVE Asks
  <2>1. e \in Entry /\ e.rule \in Ids /\ e.show \in Showings
    BY <1>1
  <2>2. CASE e.status = "inactive" \/ ~Exists(copy.rules, e.rule)
    BY <1>3, <2>2 DEF Disable
  <2>3. CASE ~(e.status = "inactive" \/ ~Exists(copy.rules, e.rule))
    <3>1. copy.rules[e.rule].type \in {"single", "series", "dont", "override"}
      BY <1>0, <2>1, <2>3, RuleTypes
    <3>2. DeleteRule(e.rule) \/ AddModifier(e.rule, "dont", e.show) \/ SetInactive(e.rule, TRUE)
            \/ StopRecording(e)
      BY <1>3, <2>3, <3>1 DEF Disable, Modifier
    <3> QED BY <1>2, <2>1, <2>3, <3>2 DEF Modifier
  <2> QED BY <2>2, <2>3
<1>4. ASSUME NEW e \in copy.upcoming, NEW off \in BOOLEAN, UpdateRecording(e, off) PROVE Asks
  <2>1. e \in Entry /\ e.rule \in Ids /\ e.show \in Showings
    BY <1>1
  <2>2. CASE ~Exists(copy.rules, e.rule)
    BY <1>4, <2>2 DEF UpdateRecording
  <2>3. CASE Exists(copy.rules, e.rule)
    <3>1. copy.rules[e.rule].type \in {"single", "series", "dont", "override"}
      BY <1>0, <2>1, <2>3, RuleTypes
    <3>2. copy.rules[e.rule].inactive \in BOOLEAN
      BY <1>0, <2>1, <2>3, RuleTypes DEF Rule
    <3>3. \/ Disable(e) \/ NoRequest \/ AddModifier(e.rule, "override", e.show)
          \/ \E o \in BOOLEAN : SetInactive(e.rule, o)
      BY <1>4, <2>3, <3>1, <3>2 DEF UpdateRecording
    <3> QED BY <1>3, <2>1, <2>3, <3>3 DEF Modifier
  <2> QED BY <2>2, <2>3
<1>5. ASSUME NEW e \in copy.upcoming, DeleteShowing(e) PROVE Asks
  <2>1. e.rule \in Ids
    BY <1>1
  <2>2. Exists(copy.rules, e.rule) =>
          copy.rules[e.rule].type \in {"single", "series", "dont", "override"}
    BY <1>0, <2>1, RuleTypes
  <2>3. TimerType(e) \in {"DONT_RECORD", "OVERRIDE", "UPCOMING", "UPCOMING_EXPIRED",
                          "RULE_INACTIVE", "ZOMBIE", "not shown"}
    BY <2>2 DEF TimerType
  <2>4. DeleteRule(e.rule) \/ Disable(e) \/ NoRequest
    BY <1>5, <2>3 DEF DeleteShowing
  <2> QED BY <1>2, <1>3, <2>1, <2>4
<1>6. ASSUME NEW e \in copy.upcoming, NEW off \in BOOLEAN, UpdateShowing(e, off) PROVE Asks
  BY <1>4, <1>6 DEF UpdateShowing
<1>7. ASSUME NEW r \in ShownRules, NEW off \in BOOLEAN, UpdateRule(r, off) PROVE Asks
  BY <1>4, <1>7 DEF UpdateRule, ShownRules
<1>8. ASSUME NEW rule \in MainRules, AddRule(rule) PROVE Asks
  BY <1>8, FirstRule
<1>9. Asks
  BY <1>2, <1>5, <1>6, <1>7, <1>8 DEF Kodi, ShownRules
<1> QED BY <1>9 DEF Kodi

-----------------------------------------------------------------------------
(* The types.                                                              *)

LEMMA InitOK == Init => IInv
<1> SUFFICES ASSUME Init PROVE IInv
  OBVIOUS
<1>1. Flags
  BY Zenon DEF Init, Flags
<1>2. /\ rules \in Rules
      /\ \A r \in Ids : Exists(rules, r) => r < 2 /\ rules[r].parent = 0
  <2>1. PICK first \in MainRules \cup Orphans :
          rules = [r \in Ids |-> IF r = 1 THEN first ELSE NoRule]
    BY DEF Init
  <2>2. rules \in Rules
    BY <2>1, FirstRule DEF Rules
  <2>3. \A r \in Ids : Exists(rules, r) => r < 2 /\ rules[r].parent = 0
    BY <2>1, FirstRule DEF Exists, Ids
  <2> QED BY <2>2, <2>3
<1>3. BackendType
  BY <1>2, ScheduleAssumption DEF Init, BackendType, Schedule
<1>4. MailType
  BY EmptySeq, ScheduleAssumption DEF Init, MailType
<1>5. UpdType /\ UpdInv
  BY DEF Init, UpdType, UpdInv, Idle
<1>6. ClientType /\ CountType
  <2>1. Left \subseteq 0 .. MaxId
    BY ScheduleAssumption DEF Left, Ids
  <2>2. unseen \subseteq 0 .. MaxId
    BY <2>1 DEF Init
  <2> QED BY <1>3, <2>2, CopyOfType, ScheduleAssumption DEF Init, ClientType, CountType, BackendType
<1>7. NumberInv
  BY <1>2 DEF Init, NumberInv, IsModifier, Ids
<1>8. CopyInv /\ KnownInv
  <2>1. copy.rules = rules /\ copy.overrides = Linked(rules)
    BY DEF Init, CopyOf
  <2>2. ASSUME NEW r \in Ids, NEW m \in Linked(rules)[r] PROVE WasModifier(m)
    <3>1. m \in Ids /\ IsModifier(rules, m)
      BY <2>2 DEF Linked
    <3> QED BY <1>2, <3>1 DEF Init, WasModifier, IsModifier
  <2>3. ASSUME NEW r \in Ids PROVE Modifiers(rules, r) = {}
    BY <1>2 DEF Modifiers, IsModifier, Ids
  <2> QED BY <1>2, <2>1, <2>2, <2>3 DEF Init, CopyInv, KnownInv
<1>9. DelInv /\ RecordingInv
  BY DEF Init, DelInv, RecordingInv, Free
<1>10. CatchUpInv
  BY DEF Init, CatchUpInv, IsCurrent, Fetching, Idle
<1> QED BY <1>1, <1>3, <1>4, <1>5, <1>6, <1>7, <1>8, <1>9, <1>10 DEF IInv, TypeInv

LEMMA FlagStep == TypeInv /\ [Next]_vars => Flags'
<1> USE DEF Flags, backendVars, historyVars
<1> SUFFICES ASSUME TypeInv, [Next]_vars PROVE Flags'
  OBVIOUS
<1>0. Flags
  BY DEF TypeInv
<1>1. CASE Reschedule \/ BeginRecording \/ EndRecording \/ Lose \/ Restore \/ GetTimers
  BY <1>0, <1>1, Zenon DEF Reschedule, BeginRecording, EndRecording, Lose, Restore, GetTimers
<1>2. ASSUME NEW r, OtherDeletes(r) PROVE Flags'
  BY <1>0, <1>2, Zenon DEF OtherDeletes
<1>3. ASSUME NEW r, RemoveNext(r) PROVE Flags'
  BY <1>0, <1>3, Zenon DEF RemoveNext
<1>4. ASSUME NEW t \in Threads, ThreadStep(t) PROVE Flags'
  <2>1. CASE FetchRules(t) \/ FetchUpcoming(t) \/ TriggerTimerUpdate(t)
    BY <1>0, <2>1, Zenon DEF FetchRules, FetchUpcoming, TriggerTimerUpdate
  <2>2. CASE Swap(t)
    <3>1. upd[t].late \in BOOLEAN /\ upd[t].failed \in BOOLEAN
      BY <2>2 DEF Swap, TypeInv, UpdType, Idle, Triggers, InRules, InUpcoming
    <3>2. /\ overtaken' = upd[t].late /\ missed' = upd[t].failed /\ shown' = FALSE
          /\ UNCHANGED <<dirty, link, trigger>>
      BY <2>2 DEF Swap
    <3>3. overtaken' \in BOOLEAN /\ missed' \in BOOLEAN
      BY <3>1, <3>2
    <3> QED BY <1>0, <3>2, <3>3, Zenon
  <2> QED BY <1>4, <2>1, <2>2 DEF ThreadStep
<1>5. CASE Kodi
  <2>1. UNCHANGED <<link, trigger, overtaken, missed>>
    BY <1>5 DEF Kodi
  <2>2. CASE NoRequest
    BY <1>0, <2>1, <2>2, Zenon DEF NoRequest
  <2>3. ASSUME NEW r, DeleteRule(r) PROVE Flags'
    BY <1>0, <2>1, <2>3, Zenon DEF DeleteRule, NoRequest
  <2>4. ASSUME NEW rule, AddRule(rule) PROVE Flags'
    BY <1>0, <2>1, <2>4, Zenon DEF AddRule, Refused
  <2>5. ASSUME NEW r, NEW type, NEW s, AddModifier(r, type, s) PROVE Flags'
    BY <1>0, <2>1, <2>5, Zenon DEF AddModifier, Refused, SyncModifier
  <2>6. ASSUME NEW r, NEW off, SetInactive(r, off) PROVE Flags'
    BY <1>0, <2>1, <2>6, Zenon DEF SetInactive, Refused
  <2>7. ASSUME NEW e, StopRecording(e) PROVE Flags'
    BY <1>0, <2>1, <2>7, Zenon DEF StopRecording
  <2> QED BY <1>5, <2>2, <2>3, <2>4, <2>5, <2>6, <2>7, KodiRequests
<1>6. CASE UNCHANGED vars
  BY <1>0, <1>6, Zenon DEF vars
<1> QED BY <1>1, <1>2, <1>3, <1>4, <1>5, <1>6 DEF Next, Backend, Removing

LEMMA MailStep == TypeInv /\ [Next]_vars => MailType'
<1> SUFFICES ASSUME TypeInv, [Next]_vars PROVE MailType'
  OBVIOUS
<1>0. MailType /\ MailMax \in Nat
  BY ScheduleAssumption DEF TypeInv
<1>k. mail' = mail => MailType'
  BY <1>0 DEF MailType
<1>p. ASSUME NEW t \in Threads, NEW m \in Told, Announce(t, m), Len(mail[t]) < MailMax
      PROVE  MailType'
  <2>1. mail[t] \in Seq(Told)
    BY <1>0 DEF MailType
  <2>2. /\ Append(mail[t], m) \in Seq(Told) /\ Len(mail[t]) \in Nat
        /\ Len(Append(mail[t], m)) = Len(mail[t]) + 1
    BY <2>1, AppendProperties, LenProperties
  <2>3. Len(Append(mail[t], m)) <= MailMax
    BY <1>0, <1>p, <2>2
  <2> QED BY <1>0, <1>p, <2>2, <2>3 DEF MailType, Announce
<1>1. CASE Reschedule
  BY <1>1, <1>k, <1>p DEF Reschedule, Threads, Told
<1>2. CASE Restore
  BY <1>2, <1>p DEF Restore, Threads, Told
<1>3. ASSUME NEW t \in Threads, FetchRules(t) PROVE MailType'
  <2>1. mail[t] \in Seq(Told) /\ mail[t] # <<>> /\ Len(mail[t]) <= MailMax
    BY <1>0, <1>3 DEF MailType, FetchRules
  <2>2. /\ Tail(mail[t]) \in Seq(Told) /\ Len(mail[t]) \in Nat
        /\ Len(Tail(mail[t])) = Len(mail[t]) - 1
    BY <2>1, HeadTailProperties, LenProperties
  <2>3. Len(Tail(mail[t])) <= MailMax
    BY <1>0, <2>1, <2>2
  <2>4. mail' = [mail EXCEPT ![t] = Tail(mail[t])]
    BY <1>3 DEF FetchRules
  <2> QED BY <1>0, <2>2, <2>3, <2>4 DEF MailType
<1>4. CASE BeginRecording \/ EndRecording \/ Lose \/ GetTimers \/ Kodi
  BY <1>4, <1>k DEF BeginRecording, EndRecording, Lose, GetTimers, Kodi
<1>5. ASSUME NEW r, OtherDeletes(r) \/ RemoveNext(r) PROVE MailType'
  BY <1>5, <1>k DEF OtherDeletes, RemoveNext
<1>6. ASSUME NEW t, FetchUpcoming(t) \/ Swap(t) \/ TriggerTimerUpdate(t) PROVE MailType'
  BY <1>6, <1>k DEF FetchUpcoming, Swap, TriggerTimerUpdate
<1>7. CASE UNCHANGED vars
  BY <1>7, <1>k DEF vars
<1> QED BY <1>1, <1>2, <1>3, <1>4, <1>5, <1>6, <1>7 DEF Next, Backend, Removing, ThreadStep

\* What the thread of an update has in hand.
LEMMA UpdTypes ==
  ASSUME UpdType, NEW t \in Threads
  PROVE  /\ upd[t].pc = "rules" => upd[t] \in InRules
         /\ upd[t].pc = "upcoming" => upd[t] \in InUpcoming
         /\ upd[t].pc \in {"idle", "rules", "upcoming", "trigger"}
BY DEF UpdType, Idle, Triggers, InRules, InUpcoming

LEMMA UpdStep == TypeInv /\ [Next]_vars => UpdType'
<1> SUFFICES ASSUME TypeInv, [Next]_vars PROVE UpdType'
  OBVIOUS
<1>0. UpdType /\ rules \in Rules /\ scheduled \subseteq Entry
  BY DEF TypeInv, BackendType
<1>k. upd' = upd => UpdType'
  BY <1>0 DEF UpdType
<1>1. ASSUME NEW t \in Threads, FetchRules(t) PROVE UpdType'
  <2>1. /\ [pc |-> "rules", rules |-> rules, late |-> FALSE, failed |-> FALSE] \in InRules
        /\ [pc |-> "rules", rules |-> NoCopy.rules, late |-> FALSE, failed |-> TRUE] \in InRules
    BY <1>0, NoCopyType DEF InRules
  <2> QED BY <1>0, <1>1, <2>1 DEF FetchRules, UpdType
<1>2. ASSUME NEW t \in Threads, FetchUpcoming(t) PROVE UpdType'
  <2>1. upd[t] \in InRules
    BY <1>0, <1>2, UpdTypes DEF FetchUpcoming
  <2>2. upd[t].rules \in Rules /\ upd[t].late \in BOOLEAN /\ upd[t].failed \in BOOLEAN
    BY <2>1 DEF InRules
  <2>3. CopyOf(upd[t].rules, scheduled) \in CopyType /\ CopyOf(upd[t].rules, {}) \in CopyType
    BY <1>0, <2>2, CopyOfType
  <2>4. /\ [pc |-> "upcoming", late |-> upd[t].late, failed |-> upd[t].failed,
            copy |-> CopyOf(upd[t].rules, scheduled)] \in InUpcoming
        /\ [pc |-> "upcoming", late |-> upd[t].late, failed |-> TRUE,
            copy |-> CopyOf(upd[t].rules, {})] \in InUpcoming
    BY <2>2, <2>3 DEF InUpcoming
  <2> QED BY <1>0, <1>2, <2>4 DEF FetchUpcoming, UpdType
<1>3. ASSUME NEW t \in Threads, Swap(t) PROVE UpdType'
  <2>1. Overtake(t) \in [Threads -> {Idle, Triggers} \cup InRules \cup InUpcoming]
    <3>1. ASSUME NEW u \in Threads, upd[u].pc \in {"rules", "upcoming"}
          PROVE  [upd[u] EXCEPT !.late = TRUE] \in InRules \cup InUpcoming
      BY <1>0, <3>1, UpdTypes DEF InRules, InUpcoming
    <3> QED BY <1>0, <3>1 DEF Overtake, UpdType
  <2> QED BY <1>3, <2>1 DEF Swap, UpdType, Triggers
<1>4. ASSUME NEW t \in Threads, TriggerTimerUpdate(t) PROVE UpdType'
  BY <1>0, <1>4 DEF TriggerTimerUpdate, UpdType
<1>5. CASE Reschedule \/ BeginRecording \/ EndRecording \/ Lose \/ Restore \/ GetTimers \/ Kodi
  BY <1>5, <1>k DEF Reschedule, BeginRecording, EndRecording, Lose, Restore, GetTimers, Kodi
<1>6. ASSUME NEW r, OtherDeletes(r) \/ RemoveNext(r) PROVE UpdType'
  BY <1>6, <1>k DEF OtherDeletes, RemoveNext
<1>7. CASE UNCHANGED vars
  BY <1>7, <1>k DEF vars
<1> QED BY <1>1, <1>2, <1>3, <1>4, <1>5, <1>6, <1>7 DEF Next, Backend, Removing, ThreadStep

\* How the backend's rules change: a number is given to a new rule only, and
\* what makes a rule a modifier does not change.
Evolves ==
  /\ nextId' \in {nextId, nextId + 1}
  /\ \A i \in Ids : Exists(rules', i) =>
       \/ Exists(rules, i) /\ SameRule(rules'[i], rules[i])
       \/ i = nextId /\ nextId' = nextId + 1 /\ (IsModifier(rules', i) => rules'[i].parent < i)

LEMMA RulesStay == rules' = rules /\ nextId' = nextId => Evolves
BY DEF Evolves, SameRule

LEMMA RulesRemoved ==
  ASSUME rules \in Rules, nextId' = nextId, NEW S,
         rules' = [i \in Ids |-> IF i \in S THEN NoRule ELSE rules[i]]
  PROVE  rules' \in Rules /\ Evolves
BY DEF Rules, Evolves, SameRule, Exists

LEMMA RuleAdded ==
  ASSUME BackendType, NEW rule \in Rule, rule.type \in Modifier => rule.parent < nextId,
         nextId \in Ids, rules' = [rules EXCEPT ![nextId] = rule], nextId' = nextId + 1
  PROVE  rules' \in Rules /\ Evolves /\ nextId' \in 1 .. MaxId + 1
<1>1. rules' \in Rules
  BY DEF BackendType, Rules
<1>2. \A i \in Ids : i # nextId => rules'[i] = rules[i]
  BY DEF BackendType, Rules
<1>3. rules'[nextId] = rule
  BY DEF BackendType, Rules
<1>4. nextId' \in 1 .. MaxId + 1
  BY ScheduleAssumption DEF Ids
<1> QED BY <1>1, <1>2, <1>3, <1>4 DEF Evolves, SameRule, Exists, IsModifier

LEMMA RuleFlagged ==
  ASSUME BackendType, NEW r \in Ids, NEW off \in BOOLEAN, Exists(rules, r),
         rules' = [rules EXCEPT ![r].inactive = off], nextId' = nextId
  PROVE  rules' \in Rules /\ Evolves
<1>1. rules[r] \in Rule /\ rules \in Rules
  BY RuleTypes DEF BackendType
<1>2. [rules[r] EXCEPT !.inactive = off] \in Rule /\ SameRule([rules[r] EXCEPT !.inactive = off], rules[r])
  BY <1>1 DEF Rule, SameRule
<1>3. rules' = [rules EXCEPT ![r] = [rules[r] EXCEPT !.inactive = off]]
  OBVIOUS
<1>4. rules'[r] = [rules[r] EXCEPT !.inactive = off] /\ \A i \in Ids : i # r => rules'[i] = rules[i]
  BY <1>1, <1>3 DEF Rules
<1>5. rules' \in Rules
  BY <1>1, <1>2, <1>3 DEF Rules
<1>6. \A i \in Ids : Exists(rules', i) => Exists(rules, i) /\ SameRule(rules'[i], rules[i])
  BY <1>2, <1>4 DEF Exists, SameRule
<1> QED BY <1>5, <1>6 DEF Evolves

LEMMA BackendStep == IInv /\ [Next]_vars => BackendType' /\ Evolves
<1> USE DEF backendVars
<1> SUFFICES ASSUME IInv, [Next]_vars PROVE BackendType' /\ Evolves
  OBVIOUS
<1>0. BackendType /\ rules \in Rules /\ TypeInv
  BY DEF IInv, TypeInv, BackendType
<1>k. UNCHANGED <<rules, nextId, recording, aired, before, scheduled>> => BackendType' /\ Evolves
  BY <1>0, RulesStay DEF BackendType
<1>1. CASE Reschedule
  <2>1. UNCHANGED <<rules, nextId, recording, aired, before>> /\ scheduled' = Schedule
    BY <1>1 DEF Reschedule
  <2>2. Schedule \subseteq Entry
    BY DEF Schedule
  <2> QED BY <1>0, <2>1, <2>2, RulesStay DEF BackendType
<1>2. CASE BeginRecording
  <2>1. PICK e \in scheduled : recording' = [rule |-> e.rule, show |-> e.show]
    BY <1>2 DEF BeginRecording
  <2>2. recording' \in [rule : Ids, show : Showings]
    BY <1>0, <2>1 DEF BackendType, Entry
  <2> QED BY <1>0, <1>2, <2>2, RulesStay DEF BackendType, BeginRecording
<1>3. CASE EndRecording
  <2>1. recording.show \in Showings
    BY <1>0, <1>3 DEF BackendType, EndRecording
  <2> QED BY <1>0, <1>3, <2>1, RulesStay DEF BackendType, EndRecording
<1>4. ASSUME NEW r \in Ids, OtherDeletes(r) PROVE BackendType' /\ Evolves
  <2>1. rules' \in Rules /\ Evolves
    <3> DEFINE S == {r} \cup Modifiers(rules, r)
    <3>1. rules' = [i \in Ids |-> IF i \in S THEN NoRule ELSE rules[i]] /\ nextId' = nextId
      BY <1>4 DEF OtherDeletes
    <3> HIDE DEF S
    <3> QED BY <1>0, <3>1, RulesRemoved
  <2>2. recording' \in {Nothing} \cup [rule : Ids, show : Showings] /\ aired' \subseteq Showings
    <3>1. recording # Nothing => recording.show \in Showings
      BY <1>0 DEF BackendType
    <3> QED BY <1>0, <1>4, <3>1 DEF BackendType, OtherDeletes
  <2> QED BY <1>0, <1>4, <2>1, <2>2 DEF BackendType, OtherDeletes
<1>5. ASSUME NEW r \in Ids, RemoveNext(r) PROVE BackendType' /\ Evolves
  <2>1. PICK stops \in BOOLEAN, removes \in BOOLEAN :
           LET asked == {e \in copy.upcoming : e.rule = r /\ e.status = "recording"}
               stopped == stops /\ recording \in {[rule |-> r, show |-> e.show] : e \in asked}
           IN /\ recording' = IF stopped THEN Nothing ELSE recording
              /\ aired' = IF stopped THEN aired \cup {recording.show} ELSE aired
              /\ rules' = IF removes THEN [rules EXCEPT ![r] = NoRule] ELSE rules
    BY <1>5 DEF RemoveNext
  <2>2. UNCHANGED <<nextId, before, scheduled>>
    BY <1>5 DEF RemoveNext
  <2>3. rules' \in Rules /\ Evolves
    <3>1. [rules EXCEPT ![r] = NoRule] = [i \in Ids |-> IF i \in {r} THEN NoRule ELSE rules[i]]
      BY <1>0 DEF Rules
    <3>2. CASE removes
      BY <1>0, <2>1, <2>2, <3>1, <3>2, RulesRemoved
    <3>3. CASE ~removes
      BY <1>0, <2>1, <2>2, <3>3, RulesStay
    <3> QED BY <3>2, <3>3
  <2>4. /\ recording' = Nothing \/ recording' = recording
        /\ aired' = aired \/ (recording \in {[rule |-> r, show |-> e.show] : e \in copy.upcoming}
                              /\ aired' = aired \cup {recording.show})
    BY <2>1
  <2>5. \A e \in copy.upcoming : e.show \in Showings
    BY <1>0 DEF TypeInv, ClientType, CopyType, Entry
  <2>6. aired' \subseteq Showings
    BY <1>0, <2>4, <2>5 DEF BackendType
  <2> QED BY <1>0, <2>2, <2>3, <2>4, <2>6 DEF BackendType
<1>6. CASE Kodi
  <2>1. CASE NoRequest
    BY <1>k, <2>1 DEF NoRequest
  <2>2. ASSUME NEW r, DeleteRule(r) PROVE BackendType' /\ Evolves
    BY <1>k, <2>2 DEF DeleteRule, NoRequest
  <2>3. ASSUME NEW rule \in Rule, rule.type \notin Modifier, AddRule(rule)
        PROVE  BackendType' /\ Evolves
    <3>1. UNCHANGED <<recording, aired, before, scheduled>>
      BY <2>3 DEF AddRule
    <3>2. CASE UNCHANGED <<rules, nextId>>
      BY <1>k, <3>1, <3>2
    <3>3. CASE /\ nextId \in Ids /\ rules' = [rules EXCEPT ![nextId] = rule]
               /\ nextId' = nextId + 1
      BY <1>0, <2>3, <3>1, <3>3, RuleAdded DEF BackendType
    <3> QED BY <2>3, <3>2, <3>3 DEF AddRule, Refused
  <2>4. ASSUME NEW r \in Ids, NEW type \in Modifier, NEW s \in Showings,
               Exists(copy.rules, r), AddModifier(r, type, s)
        PROVE  BackendType' /\ Evolves
    <3>1. UNCHANGED <<recording, aired, before, scheduled>>
      BY <2>4 DEF AddModifier
    <3>2. CASE UNCHANGED <<rules, nextId>>
      BY <1>k, <3>1, <3>2
    <3> DEFINE rule == [type |-> type, parent |-> r, show |-> s, inactive |-> FALSE]
    <3>3. CASE /\ nextId \in Ids /\ rules' = [rules EXCEPT ![nextId] = rule]
               /\ nextId' = nextId + 1
      <4>1. rule \in Rule /\ rule.parent = r
        BY <2>4 DEF Rule, Modifier, Ids
      <4>2. r < nextId
        BY <2>4 DEF IInv, CopyInv
      <4> HIDE DEF rule
      <4> QED BY <1>0, <3>1, <3>3, <4>1, <4>2, RuleAdded DEF BackendType
    <3> QED BY <2>4, <3>2, <3>3 DEF AddModifier, Refused
  <2>5. ASSUME NEW r \in Ids, NEW off \in BOOLEAN, SetInactive(r, off)
        PROVE  BackendType' /\ Evolves
    <3>1. UNCHANGED <<nextId, before, recording, aired, scheduled>>
      BY <2>5 DEF SetInactive
    <3>2. CASE UNCHANGED rules
      BY <1>k, <3>1, <3>2
    <3>3. CASE Exists(rules, r) /\ rules' = [rules EXCEPT ![r].inactive = off]
      BY <1>0, <3>1, <3>3, RuleFlagged DEF BackendType
    <3> QED BY <2>5, <3>2, <3>3 DEF SetInactive, Refused
  <2>6. ASSUME NEW e \in Entry, StopRecording(e) PROVE BackendType' /\ Evolves
    <3>1. UNCHANGED <<rules, nextId, before, scheduled>> /\ e.show \in Showings
      BY <2>6 DEF StopRecording, Entry
    <3>2. \/ recording' = Nothing /\ aired' = aired \cup {e.show}
          \/ UNCHANGED <<recording, aired>>
      BY <2>6 DEF StopRecording
    <3> QED BY <1>0, <3>1, <3>2, RulesStay DEF BackendType
  <2> QED BY <1>0, <1>6, <2>1, <2>2, <2>3, <2>4, <2>5, <2>6, KodiRequests
<1>7. CASE Lose \/ Restore \/ GetTimers
  BY <1>7, <1>k DEF Lose, Restore, GetTimers
<1>8. ASSUME NEW t, ThreadStep(t) PROVE BackendType' /\ Evolves
  BY <1>8, <1>k DEF ThreadStep, FetchRules, FetchUpcoming, Swap, TriggerTimerUpdate
<1>9. CASE UNCHANGED vars
  BY <1>9, <1>k DEF vars
<1> QED BY <1>1, <1>2, <1>3, <1>4, <1>5, <1>6, <1>7, <1>8, <1>9 DEF Next, Backend, Removing

\* The rule of the copy is flagged, or gets a modifier.
LEMMA CopyFlagged ==
  ASSUME copy \in CopyType, NEW r \in Ids, NEW off \in BOOLEAN, Exists(copy.rules, r),
         copy' = [copy EXCEPT !.rules[r].inactive = off]
  PROVE  /\ copy' \in CopyType /\ copy'.overrides = copy.overrides
         /\ copy'.upcoming = copy.upcoming
         /\ \A i \in Ids : Exists(copy'.rules, i) => Exists(copy.rules, i)
<1>1. copy.rules \in Rules /\ copy.rules[r] \in Rule
  <2>1. copy.rules \in Rules
    BY DEF CopyType, Rules
  <2> QED BY <2>1, RuleTypes
<1> DEFINE flagged == [copy.rules EXCEPT ![r] = [copy.rules[r] EXCEPT !.inactive = off]]
<1>2. [copy.rules[r] EXCEPT !.inactive = off] \in Rule
  BY <1>1 DEF Rule
<1>3. flagged \in Rules /\ \A i \in Ids : i # r => flagged[i] = copy.rules[i]
  BY <1>1, <1>2 DEF Rules
<1>4. copy' = [copy EXCEPT !.rules = flagged]
  OBVIOUS
<1> HIDE DEF flagged
<1>5. copy'.rules = flagged /\ copy'.overrides = copy.overrides /\ copy'.upcoming = copy.upcoming
      /\ copy' \in CopyType
  BY <1>3, <1>4 DEF CopyType, Rules
<1> QED BY <1>3, <1>5 DEF Exists

LEMMA CopyModified ==
  ASSUME copy \in CopyType, NEW r \in Ids, NEW m \in Ids, SyncModifier(r, m)
  PROVE  /\ copy' \in CopyType /\ copy'.rules = copy.rules
         /\ copy'.upcoming = copy.upcoming
         /\ copy'.overrides[r] = copy.overrides[r] \cup {m}
         /\ \A i \in Ids : i # r => copy'.overrides[i] = copy.overrides[i]
<1> DEFINE more == [copy.overrides EXCEPT ![r] = copy.overrides[r] \cup {m}]
<1>1. copy.overrides \in [Ids -> SUBSET Ids]
  BY DEF CopyType
<1>2. /\ more \in [Ids -> SUBSET Ids] /\ more[r] = copy.overrides[r] \cup {m}
      /\ \A i \in Ids : i # r => more[i] = copy.overrides[i]
  BY <1>1
<1>3. copy' = [copy EXCEPT !.overrides = more]
  BY DEF SyncModifier
<1> HIDE DEF more
<1>4. copy'.overrides = more /\ copy'.rules = copy.rules /\ copy'.upcoming = copy.upcoming
      /\ copy' \in CopyType
  BY <1>2, <1>3 DEF CopyType
<1> QED BY <1>2, <1>4

\* What a step that does not replace the copy does to it, and to what the
\* client could not know of.
CopyGrows ==
  /\ copy'.upcoming = copy.upcoming
  /\ \A i \in Ids : Exists(copy'.rules, i) => Exists(copy.rules, i)
  /\ \A i \in Ids : copy.overrides[i] \subseteq copy'.overrides[i]
  /\ \A i \in Ids : \A m \in copy'.overrides[i] :
       m \in copy.overrides[i] \/ (m = nextId /\ nextId' = nextId + 1 /\ IsModifier(rules', m))

UnseenKept ==
  /\ \A m \in unseen : \/ m \in unseen'
                       \/ m # 0 /\ ~IsModifier(rules', m)
                       \/ m = 0 /\ recording' = Nothing
  /\ recording' = recording \/ recording' = Nothing \/ 0 \in unseen'

NewIsKnown ==
  \A m \in Ids : IsModifier(rules', m) /\ ~Exists(rules, m) =>
                   m \in unseen' \/ m \in copy'.overrides[rules'[m].parent]

LEMMA NothingNew ==
  ASSUME rules \in Rules,
         \A i \in Ids : rules'[i] = rules[i] \/ rules'[i] = NoRule \/ rules'[i].type \notin Modifier
  PROVE  NewIsKnown
BY DEF NewIsKnown, Exists, IsModifier, Modifier, NoRule

LEMMA ClientStep ==
  IInv /\ [Next]_vars => ClientType' /\ ((CopyGrows /\ UnseenKept /\ NewIsKnown)
                                         \/ \E t \in Threads : Swap(t))
<1> USE DEF backendVars, historyVars
<1> DEFINE Goes == ClientType' /\ ((CopyGrows /\ UnseenKept /\ NewIsKnown)
                                   \/ \E t \in Threads : Swap(t))
<1> SUFFICES ASSUME IInv, [Next]_vars PROVE Goes
  OBVIOUS
<1>0. TypeInv /\ BackendType /\ ClientType /\ rules \in Rules
  BY DEF IInv, TypeInv, BackendType
<1>c. copy' = copy => CopyGrows
  BY DEF CopyGrows
<1>n. rules' = rules => NewIsKnown
  BY <1>0, NothingNew
<1>k. UNCHANGED <<rules, copy, del, unseen, recording>> => Goes
  BY <1>0, <1>c, <1>n DEF ClientType, UnseenKept
<1>1. CASE Reschedule \/ Lose \/ Restore \/ GetTimers
  BY <1>1, <1>k DEF Reschedule, Lose, Restore, GetTimers
<1>2. CASE BeginRecording
  <2>1. UNCHANGED <<rules, copy, del>> /\ unseen' = unseen \cup {0}
    BY <1>2 DEF BeginRecording
  <2>2. ClientType'
    BY <1>0, <2>1, ScheduleAssumption DEF ClientType
  <2> QED BY <1>c, <1>n, <2>1, <2>2 DEF UnseenKept
<1>3. CASE EndRecording
  <2>1. UNCHANGED <<rules, copy, del>> /\ unseen' = unseen \ {0} /\ recording' = Nothing
    BY <1>3 DEF EndRecording
  <2> QED BY <1>0, <1>c, <1>n, <2>1 DEF UnseenKept, ClientType
<1>4. ASSUME NEW r \in Ids, OtherDeletes(r) PROVE Goes
  <2>1. /\ UNCHANGED <<copy, del>> /\ unseen' = unseen \cap Left'
        /\ recording' = recording \/ recording' = Nothing
        /\ \A i \in Ids : rules'[i] = rules[i] \/ rules'[i] = NoRule
    BY <1>4 DEF OtherDeletes
  <2>2. NewIsKnown
    BY <1>0, <2>1, NothingNew
  <2>3. UnseenKept
    <3>1. ASSUME NEW m \in unseen
          PROVE  m \in unseen' \/ (m # 0 /\ ~IsModifier(rules', m)) \/ (m = 0 /\ recording' = Nothing)
      <4>1. m \in Ids \/ m = 0
        BY <1>0 DEF ClientType, Ids
      <4> QED BY <2>1, <4>1 DEF Left, IsModifier, Exists, Ids
    <3> QED BY <2>1, <3>1 DEF UnseenKept
  <2>4. ClientType'
    BY <1>0, <2>1 DEF ClientType
  <2> QED BY <1>c, <2>1, <2>2, <2>3, <2>4
<1>5. ASSUME NEW r \in Ids, RemoveNext(r) PROVE Goes
  <2>1. PICK stops \in BOOLEAN, removes \in BOOLEAN :
           LET asked == {e \in copy.upcoming : e.rule = r /\ e.status = "recording"}
               stopped == stops /\ recording \in {[rule |-> r, show |-> e.show] : e \in asked}
           IN /\ recording' = IF stopped THEN Nothing ELSE recording
              /\ rules' = IF removes THEN [rules EXCEPT ![r] = NoRule] ELSE rules
              /\ unseen' = (IF stopped THEN unseen \ {0} ELSE unseen)
                             \cup (IF stops THEN {} ELSE {0})
                             \cup (IF removes THEN {} ELSE {r})
    BY <1>5 DEF RemoveNext
  <2>2. /\ unseen' \subseteq unseen \cup {0, r} /\ unseen \subseteq unseen' \cup {0}
        /\ recording' = recording \/ recording' = Nothing
        /\ recording' = recording => unseen \subseteq unseen' \/ recording' = Nothing
    BY <2>1
  <2>3. \A i \in Ids : rules'[i] = rules[i] \/ rules'[i] = NoRule
    BY <1>0, <2>1 DEF Rules
  <2>4. copy' = copy /\ del' \in [rule : 0 .. MaxId, todo : SUBSET Ids]
    <3>1. del \in [rule : 0 .. MaxId, todo : SUBSET Ids] /\ 0 \in 0 .. MaxId
      BY <1>0, ScheduleAssumption DEF ClientType
    <3>2. \/ del' = [del EXCEPT !.todo = @ \ {r}]
          \/ del' = [rule |-> 0, todo |-> {}]
      BY <1>5 DEF RemoveNext
    <3> QED BY <1>5, <3>1, <3>2 DEF RemoveNext
  <2>5. ClientType'
    <3>1. {0, r} \subseteq 0 .. MaxId
      BY ScheduleAssumption DEF Ids
    <3> QED BY <1>0, <2>2, <2>4, <3>1 DEF ClientType
  <2>6. UnseenKept
    BY <2>2 DEF UnseenKept
  <2> QED BY <1>0, <1>c, <2>3, <2>4, <2>5, <2>6, NothingNew
<1>6. CASE Kodi
  <2>1. CASE NoRequest
    BY <1>k, <2>1 DEF NoRequest
  <2>2. ASSUME NEW r \in Ids, Exists(copy.rules, r), DeleteRule(r) PROVE Goes
    <3>1. /\ del' = [rule |-> r, todo |-> copy.overrides[r]]
          /\ UNCHANGED <<rules, copy, unseen, recording>>
      BY <2>2 DEF DeleteRule
    <3>2. copy.overrides[r] \in SUBSET Ids
      BY <1>0 DEF ClientType, CopyType
    <3>3. r \in 0 .. MaxId
      BY DEF Ids
    <3>4. ClientType'
      BY <1>0, <3>1, <3>2, <3>3 DEF ClientType
    <3> QED BY <1>c, <1>n, <3>1, <3>4 DEF UnseenKept
  <2>3. ASSUME NEW rule \in Rule, rule.type \notin Modifier, AddRule(rule) PROVE Goes
    <3>1. UNCHANGED <<recording, copy, del, unseen>>
      BY <2>3 DEF AddRule, Refused
    <3>2. \A i \in Ids : rules'[i] = rules[i] \/ rules'[i].type \notin Modifier
      BY <1>0, <2>3 DEF AddRule, Refused, Rules
    <3>3. ClientType' /\ UnseenKept
      BY <1>0, <3>1 DEF ClientType, UnseenKept
    <3> QED BY <1>0, <1>c, <3>1, <3>2, <3>3, NothingNew
  <2>4. ASSUME NEW r \in Ids, NEW type \in Modifier, NEW s \in Showings,
               Exists(copy.rules, r), AddModifier(r, type, s)
        PROVE  Goes
    <3>0. UNCHANGED <<recording, del>>
      BY <2>4 DEF AddModifier
    <3>1. CASE Refused
      BY <1>k, <3>0, <3>1 DEF Refused
    <3> DEFINE rule == [type |-> type, parent |-> r, show |-> s, inactive |-> FALSE]
    <3>2. CASE /\ nextId \in Ids /\ nextId' = nextId + 1
               /\ rules' = [rules EXCEPT ![nextId] = rule]
               /\ \/ SyncModifier(r, nextId) /\ UNCHANGED unseen
                  \/ unseen' = unseen \cup {nextId} /\ UNCHANGED copy
      <4>1. /\ rules'[nextId] = rule /\ rule.parent = r /\ rule.type \in Modifier /\ rule # NoRule
            /\ \A i \in Ids : i # nextId => rules'[i] = rules[i]
        BY <1>0, <3>2 DEF Rules, NoRule
      <4> HIDE DEF rule
      <4>2. IsModifier(rules', nextId)
        BY <4>1 DEF IsModifier, Exists
      <4>3. CASE SyncModifier(r, nextId) /\ UNCHANGED unseen
        <5>1. /\ copy' \in CopyType /\ copy'.rules = copy.rules /\ copy'.upcoming = copy.upcoming
              /\ copy'.overrides[r] = copy.overrides[r] \cup {nextId}
              /\ \A i \in Ids : i # r => copy'.overrides[i] = copy.overrides[i]
          BY <1>0, <3>2, <4>3, CopyModified DEF ClientType
        <5>2. CopyGrows
          BY <3>2, <4>2, <5>1 DEF CopyGrows
        <5>3. NewIsKnown
          BY <4>1, <5>1 DEF NewIsKnown, IsModifier, Exists
        <5> QED BY <1>0, <3>0, <4>3, <5>1, <5>2, <5>3 DEF ClientType, UnseenKept
      <4>4. CASE unseen' = unseen \cup {nextId} /\ UNCHANGED copy
        <5>1. NewIsKnown
          BY <4>1, <4>4 DEF NewIsKnown, IsModifier, Exists
        <5>2. nextId \in 0 .. MaxId
          BY <3>2 DEF Ids
        <5> QED BY <1>0, <1>c, <3>0, <4>4, <5>1, <5>2 DEF ClientType, UnseenKept
      <4> QED BY <3>2, <4>3, <4>4
    <3> QED BY <2>4, <3>1, <3>2 DEF AddModifier
  <2>5. ASSUME NEW r \in Ids, NEW off \in BOOLEAN, Exists(copy.rules, r), SetInactive(r, off)
        PROVE  Goes
    <3>0. UNCHANGED <<recording, del, unseen>>
      BY <2>5 DEF SetInactive
    <3>1. CopyGrows /\ copy' \in CopyType
      <4>1. copy' = copy \/ copy' = [copy EXCEPT !.rules[r].inactive = off]
        BY <2>5 DEF SetInactive, Refused
      <4> QED BY <1>0, <1>c, <2>5, <4>1, CopyFlagged DEF ClientType, CopyGrows
    <3>2. NewIsKnown
      <4>1. rules' = rules \/ (Exists(rules, r) /\ rules' = [rules EXCEPT ![r].inactive = off])
        BY <2>5 DEF SetInactive, Refused
      <4>2. ASSUME NEW m \in Ids, Exists(rules', m) PROVE Exists(rules, m)
        BY <1>0, <4>1, <4>2 DEF Rules, Exists
      <4> QED BY <4>2 DEF NewIsKnown, IsModifier
    <3> QED BY <1>0, <3>0, <3>1, <3>2 DEF ClientType, UnseenKept
  <2>6. ASSUME NEW e \in Entry, StopRecording(e) PROVE Goes
    <3>1. /\ UNCHANGED <<rules, copy, del>>
          /\ \/ recording' = recording /\ unseen' = unseen
             \/ recording' = Nothing /\ unseen' = unseen \ {0}
      BY <2>6 DEF StopRecording
    <3>2. ClientType'
      BY <1>0, <3>1 DEF ClientType
    <3>3. UnseenKept
      BY <3>1 DEF UnseenKept
    <3> QED BY <1>c, <1>n, <3>1, <3>2, <3>3
  <2> QED BY <1>0, <1>6, <2>1, <2>2, <2>3, <2>4, <2>5, <2>6, KodiRequests
<1>7. ASSUME NEW t \in Threads, Swap(t) PROVE Goes
  <2>1. copy' = upd[t].copy /\ unseen' = Left \ Known(copy') /\ del' = del
    BY <1>7 DEF Swap
  <2>2. upd[t].copy \in CopyType
    BY <1>0, <1>7, UpdTypes DEF TypeInv, Swap, InUpcoming
  <2>3. Left \subseteq 0 .. MaxId
    BY ScheduleAssumption DEF Left, Ids
  <2> QED BY <1>0, <1>7, <2>1, <2>2, <2>3 DEF ClientType
<1>8. ASSUME NEW t, FetchRules(t) \/ FetchUpcoming(t) \/ TriggerTimerUpdate(t) PROVE Goes
  BY <1>8, <1>k DEF FetchRules, FetchUpcoming, TriggerTimerUpdate
<1>9. CASE UNCHANGED vars
  BY <1>9, <1>k DEF vars
<1> QED BY <1>1, <1>2, <1>3, <1>4, <1>5, <1>6, <1>7, <1>8, <1>9
        DEF Next, Backend, Removing, ThreadStep

LEMMA CountStep == TypeInv /\ [Next]_vars => CountType'
<1> USE DEF backendVars, historyVars
<1> SUFFICES ASSUME TypeInv, [Next]_vars PROVE CountType'
  OBVIOUS
<1>0. CountType /\ MaxOps \in Nat /\ MaxFaults \in Nat
  BY ScheduleAssumption DEF TypeInv
<1>1. faults' = faults \/ Fault
  <2>1. CASE Reschedule \/ BeginRecording \/ EndRecording \/ Lose \/ Restore \/ GetTimers
    BY <2>1 DEF Reschedule, BeginRecording, EndRecording, Lose, Restore, GetTimers
  <2>2. ASSUME NEW r, OtherDeletes(r) PROVE faults' = faults \/ Fault
    BY <2>2 DEF OtherDeletes
  <2>3. ASSUME NEW r, RemoveNext(r) PROVE faults' = faults \/ Fault
    BY <2>3 DEF RemoveNext
  <2>4. ASSUME NEW t, ThreadStep(t) PROVE faults' = faults \/ Fault
    BY <2>4 DEF ThreadStep, FetchRules, FetchUpcoming, Swap, TriggerTimerUpdate
  <2>5. CASE Kodi
    <3>1. ASSUME NEW r, DeleteRule(r) PROVE faults' = faults
      BY <3>1 DEF DeleteRule, NoRequest
    <3>2. ASSUME NEW rule, AddRule(rule) PROVE faults' = faults \/ Fault
      BY <3>2 DEF AddRule, Refused
    <3>3. ASSUME NEW r, NEW type, NEW s, AddModifier(r, type, s) PROVE faults' = faults \/ Fault
      BY <3>3 DEF AddModifier, Refused
    <3>4. ASSUME NEW r, NEW off, SetInactive(r, off) PROVE faults' = faults \/ Fault
      BY <3>4 DEF SetInactive, Refused
    <3>5. ASSUME NEW e, StopRecording(e) PROVE faults' = faults \/ Fault
      BY <3>5 DEF StopRecording
    <3> QED BY <2>5, <3>1, <3>2, <3>3, <3>4, <3>5, KodiRequests DEF NoRequest
  <2>6. CASE UNCHANGED vars
    BY <2>6 DEF vars
  <2> QED BY <2>1, <2>2, <2>3, <2>4, <2>5, <2>6 DEF Next, Backend, Removing
<1>2. faults' \in 0 .. MaxFaults
  BY <1>0, <1>1 DEF Fault, CountType
<1>3. ops' = ops \/ (ops < MaxOps /\ ops' = ops + 1)
  <2>1. CASE Reschedule \/ BeginRecording \/ EndRecording \/ Lose \/ Restore \/ GetTimers \/ Kodi
    BY <2>1 DEF Reschedule, BeginRecording, EndRecording, Lose, Restore, GetTimers, Kodi
  <2>2. ASSUME NEW r, OtherDeletes(r) \/ RemoveNext(r) PROVE ops' = ops
    BY <2>2 DEF OtherDeletes, RemoveNext
  <2>3. ASSUME NEW t, ThreadStep(t) PROVE ops' = ops
    BY <2>3 DEF ThreadStep, FetchRules, FetchUpcoming, Swap, TriggerTimerUpdate
  <2>4. CASE UNCHANGED vars
    BY <2>4 DEF vars
  <2> QED BY <2>1, <2>2, <2>3, <2>4 DEF Next, Backend, Removing
<1>4. ops' \in 0 .. MaxOps
  BY <1>0, <1>3 DEF CountType
<1> QED BY <1>2, <1>4 DEF CountType

LEMMA TypeStep == IInv /\ [Next]_vars => TypeInv'
BY FlagStep, BackendStep, MailStep, UpdStep, ClientStep, CountStep DEF IInv, TypeInv

-----------------------------------------------------------------------------
(* The rules, and what the client takes them for.                          *)

LEMMA NumberStep == TypeInv /\ NumberInv /\ Evolves => NumberInv'
<1> SUFFICES ASSUME TypeInv, NumberInv, Evolves PROVE NumberInv'
  OBVIOUS
<1>0. nextId \in Int
  BY DEF TypeInv, BackendType
<1>1. ASSUME NEW i \in Ids, Exists(rules', i)
      PROVE  i < nextId' /\ (IsModifier(rules', i) => rules'[i].parent < i)
  <2>1. CASE Exists(rules, i) /\ SameRule(rules'[i], rules[i])
    <3>1. i < nextId /\ (IsModifier(rules, i) => rules[i].parent < i)
      BY <2>1 DEF NumberInv
    <3>2. i < nextId'
      BY <1>0, <3>1 DEF Evolves, Ids
    <3> QED BY <2>1, <3>1, <3>2 DEF SameRule, IsModifier
  <2>2. CASE i = nextId /\ nextId' = nextId + 1 /\ (IsModifier(rules', i) => rules'[i].parent < i)
    BY <1>0, <2>2
  <2> QED BY <1>1, <2>1, <2>2 DEF Evolves
<1> QED BY <1>1 DEF NumberInv

LEMMA SnapshotKept ==
  ASSUME TypeInv, NumberInv, Evolves, NEW db, Snapshot(db, rules, nextId)
  PROVE  Snapshot(db, rules', nextId')
<1>0. nextId \in Int /\ \A i \in Ids : i \in Int
  BY DEF TypeInv, BackendType, Ids
<1>1. ASSUME NEW i \in Ids, Exists(db, i) PROVE i < nextId'
  <2>1. i < nextId
    BY <1>1 DEF Snapshot
  <2> QED BY <1>0, <2>1 DEF Evolves
<1>2. ASSUME NEW i \in Ids, Exists(db, i), Exists(rules', i) PROVE SameRule(db[i], rules'[i])
  <2>1. i < nextId
    BY <1>2 DEF Snapshot
  <2>2. Exists(rules, i) /\ SameRule(rules'[i], rules[i])
    BY <1>0, <1>2, <2>1 DEF Evolves
  <2>3. SameRule(db[i], rules[i])
    BY <1>2, <2>2 DEF Snapshot
  <2> QED BY <2>2, <2>3 DEF SameRule
<1>3. ASSUME NEW i \in Ids, NEW j \in Ids, Exists(rules', i), ~Exists(db, i), Exists(db, j)
      PROVE  j < i
  <2>1. j < nextId
    BY <1>3 DEF Snapshot
  <2>2. Exists(rules, i) \/ i = nextId
    BY <1>3 DEF Evolves
  <2> QED BY <1>3, <2>1, <2>2 DEF Snapshot
<1> QED BY <1>1, <1>2, <1>3 DEF Snapshot

LEMMA SnapshotTaken ==
  ASSUME TypeInv, NumberInv
  PROVE  Snapshot(rules, rules, nextId) /\ Snapshot(NoCopy.rules, rules, nextId)
<1>1. Snapshot(rules, rules, nextId)
  BY DEF Snapshot, NumberInv, SameRule
<1>2. Snapshot(NoCopy.rules, rules, nextId)
  BY NoCopyType DEF Snapshot
<1> QED BY <1>1, <1>2

LEMMA WasModifierKept ==
  ASSUME TypeInv, Evolves, NEW m \in Ids, WasModifier(m)
  PROVE  WasModifier(m)'
<1>0. nextId \in Int /\ m \in Int
  BY DEF TypeInv, BackendType, Ids
<1>1. m < nextId /\ m < nextId'
  BY <1>0 DEF WasModifier, Evolves
<1>2. Exists(rules', m) => Exists(rules, m) /\ SameRule(rules'[m], rules[m])
  BY <1>0, <1>1 DEF Evolves
<1> QED BY <1>1, <1>2 DEF WasModifier, IsModifier, SameRule

LEMMA UpdInvStep == IInv /\ [Next]_vars => UpdInv'
<1> USE DEF backendVars
<1> SUFFICES ASSUME IInv, [Next]_vars PROVE UpdInv'
  OBVIOUS
<1>0. TypeInv /\ NumberInv /\ UpdInv /\ UpdType /\ Evolves
  BY BackendStep DEF IInv, TypeInv
<1> DEFINE Good(u, now, next) ==
             /\ u.pc = "rules" => Snapshot(u.rules, now, next)
             /\ u.pc = "upcoming" => /\ Snapshot(u.copy.rules, now, next)
                                     /\ u.copy.overrides = Linked(u.copy.rules)
<1>1. \A t \in Threads : Good(upd[t], rules, nextId)
  BY <1>0 DEF UpdInv
<1>2. \A u : Good(u, rules, nextId) => Good(u, rules', nextId')
  BY <1>0, SnapshotKept
<1>3. (\A t \in Threads : Good(upd'[t], rules', nextId')) => UpdInv'
  BY DEF UpdInv
<1>i. \A now, next : Good(Idle, now, next) /\ Good(Triggers, now, next)
  BY DEF Idle, Triggers
<1> HIDE DEF Good
<1>k. upd' = upd => UpdInv'
  BY <1>1, <1>2, <1>3
<1>s. ASSUME NEW t \in Threads, NEW u, upd' = [upd EXCEPT ![t] = u], Good(u, rules', nextId')
      PROVE  UpdInv'
  <2>1. \A v \in Threads : upd'[v] = IF v = t THEN u ELSE upd[v]
    BY <1>0, <1>s DEF UpdType
  <2> QED BY <1>1, <1>2, <1>3, <1>s, <2>1
<1>4. ASSUME NEW t \in Threads, FetchRules(t) PROVE UpdInv'
  <2>1. Snapshot(rules, rules', nextId') /\ Snapshot(NoCopy.rules, rules', nextId')
    BY <1>0, SnapshotTaken, SnapshotKept
  <2>2. /\ Good([pc |-> "rules", rules |-> rules, late |-> FALSE, failed |-> FALSE], rules', nextId')
        /\ Good([pc |-> "rules", rules |-> NoCopy.rules, late |-> FALSE, failed |-> TRUE],
                rules', nextId')
    BY <2>1 DEF Good
  <2> QED BY <1>4, <1>s, <2>2 DEF FetchRules
<1>5. ASSUME NEW t \in Threads, FetchUpcoming(t) PROVE UpdInv'
  <2>1. Snapshot(upd[t].rules, rules', nextId')
    BY <1>0, <1>5, SnapshotKept DEF FetchUpcoming, UpdInv
  <2>2. \A up, f : Good([pc |-> "upcoming", late |-> upd[t].late, failed |-> f,
                         copy |-> CopyOf(upd[t].rules, up)], rules', nextId')
    BY <2>1 DEF Good, CopyOf
  <2>3. \E u : upd' = [upd EXCEPT ![t] = u] /\ Good(u, rules', nextId')
    <3>1. \/ upd' = [upd EXCEPT ![t] =
                      [pc |-> "upcoming", late |-> upd[t].late, failed |-> upd[t].failed,
                       copy |-> CopyOf(upd[t].rules, scheduled)]]
          \/ upd' = [upd EXCEPT ![t] =
                      [pc |-> "upcoming", late |-> upd[t].late, failed |-> TRUE,
                       copy |-> CopyOf(upd[t].rules, {})]]
      BY <1>5 DEF FetchUpcoming
    <3> QED BY <2>2, <3>1
  <2> QED BY <1>s, <2>3
<1>6. ASSUME NEW t \in Threads, Swap(t) PROVE UpdInv'
  <2>1. ASSUME NEW u \in Threads PROVE Good(Overtake(t)[u], rules', nextId')
    <3>1. Good(upd[u], rules', nextId')
      BY <1>1, <1>2
    <3>2. CASE upd[u].pc \in {"rules", "upcoming"}
      <4>1. upd[u] \in InRules \/ upd[u] \in InUpcoming
        BY <1>0, <3>2, UpdTypes
      <4> DEFINE v == [upd[u] EXCEPT !.late = TRUE]
      <4>2. /\ v.pc = upd[u].pc
            /\ upd[u].pc = "rules" => v.rules = upd[u].rules
            /\ upd[u].pc = "upcoming" => v.copy = upd[u].copy
        BY <4>1 DEF InRules, InUpcoming
      <4>3. Good(v, rules', nextId')
        BY <3>1, <4>2 DEF Good
      <4>4. Overtake(t)[u] = v \/ Overtake(t)[u] = upd[u]
        BY DEF Overtake
      <4> QED BY <3>1, <4>3, <4>4
    <3>3. CASE upd[u].pc \notin {"rules", "upcoming"}
      BY <3>1, <3>3 DEF Overtake
    <3> QED BY <3>2, <3>3
  <2>2. upd' = [Overtake(t) EXCEPT ![t] = Triggers]
    BY <1>6 DEF Swap, Triggers
  <2>3. \A u \in Threads : upd'[u] = IF u = t THEN Triggers ELSE Overtake(t)[u]
    BY <2>2 DEF Overtake
  <2> QED BY <1>3, <1>i, <2>1, <2>3
<1>7. ASSUME NEW t \in Threads, TriggerTimerUpdate(t) PROVE UpdInv'
  BY <1>7, <1>i, <1>s DEF TriggerTimerUpdate
<1>8. CASE Reschedule \/ BeginRecording \/ EndRecording \/ Lose \/ Restore \/ GetTimers \/ Kodi
  BY <1>8, <1>k DEF Reschedule, BeginRecording, EndRecording, Lose, Restore, GetTimers, Kodi
<1>9. ASSUME NEW r, OtherDeletes(r) \/ RemoveNext(r) PROVE UpdInv'
  BY <1>9, <1>k DEF OtherDeletes, RemoveNext
<1>10. CASE UNCHANGED vars
  BY <1>10, <1>k DEF vars
<1> QED BY <1>4, <1>5, <1>6, <1>7, <1>8, <1>9, <1>10 DEF Next, Backend, Removing, ThreadStep

\* What replaces the copy, and what the client then does not know of.
LEMMA Swapped ==
  ASSUME IInv, NEW t \in Threads, Swap(t)
  PROVE  /\ UNCHANGED <<rules, nextId, recording, del>> /\ Free
         /\ Snapshot(copy'.rules, rules, nextId)
         /\ copy'.overrides = Linked(copy'.rules)
         /\ unseen' = Left \ Known(copy')
BY DEF IInv, UpdInv, Swap, backendVars

LEMMA CopyInvStep == IInv /\ [Next]_vars => CopyInv'
<1> SUFFICES ASSUME IInv, [Next]_vars PROVE CopyInv'
  OBVIOUS
<1>0. TypeInv /\ CopyInv /\ Evolves /\ ClientType' /\ nextId \in Int /\ \A i \in Ids : i \in Int
  BY BackendStep, ClientStep DEF IInv, TypeInv, BackendType, Ids
<1>1. CASE CopyGrows
  <2>1. ASSUME NEW r \in Ids, Exists(copy'.rules, r) PROVE r < nextId'
    <3>1. r < nextId
      BY <1>1, <2>1, <1>0 DEF CopyGrows, CopyInv
    <3> QED BY <1>0, <3>1 DEF Evolves
  <2>2. ASSUME NEW r \in Ids, NEW m \in copy'.overrides[r] PROVE WasModifier(m)'
    <3>1. m \in Ids
      BY <1>0 DEF ClientType, CopyType
    <3>2. CASE m \in copy.overrides[r]
      BY <1>0, <3>1, <3>2, WasModifierKept DEF CopyInv
    <3>3. CASE m = nextId /\ nextId' = nextId + 1 /\ IsModifier(rules', m)
      BY <1>0, <3>3 DEF WasModifier
    <3> QED BY <1>1, <3>2, <3>3 DEF CopyGrows
  <2> QED BY <2>1, <2>2 DEF CopyInv
<1>2. ASSUME NEW t \in Threads, Swap(t) PROVE CopyInv'
  <2>1. /\ UNCHANGED <<rules, nextId>> /\ Snapshot(copy'.rules, rules, nextId)
        /\ copy'.overrides = Linked(copy'.rules)
    BY <1>2, Swapped
  <2>2. \A r \in Ids : Exists(copy'.rules, r) => r < nextId
    BY <2>1 DEF Snapshot
  <2>3. ASSUME NEW r \in Ids, NEW m \in copy'.overrides[r]
        PROVE  m < nextId /\ (Exists(rules, m) => IsModifier(rules, m))
    <3>1. m \in Ids /\ IsModifier(copy'.rules, m)
      BY <2>1 DEF Linked
    <3> QED BY <2>1, <3>1 DEF Snapshot, IsModifier, SameRule
  <2> QED BY <2>1, <2>2, <2>3 DEF CopyInv, WasModifier
<1> QED BY <1>1, <1>2, ClientStep

\* A modifier that stays is of the rule it was of, and that rule was there.
LEMMA ModifierKept ==
  ASSUME TypeInv, NumberInv, Evolves, NEW r \in Ids, NEW m \in Modifiers(rules', r),
         Exists(rules', r), Exists(rules, m)
  PROVE  Exists(rules, r) /\ m \in Modifiers(rules, r) /\ m \in Ids /\ IsModifier(rules', m)
<1>0. nextId \in Int /\ r \in Int /\ m \in Ids /\ m \in Int
  BY DEF TypeInv, BackendType, Ids, Modifiers
<1>1. m < nextId
  BY <1>0 DEF NumberInv
<1>2. IsModifier(rules', m) /\ rules'[m].parent = r
  BY DEF Modifiers
<1>3. SameRule(rules'[m], rules[m])
  BY <1>0, <1>1, <1>2 DEF Evolves, IsModifier
<1>4. IsModifier(rules, m) /\ rules[m].parent = r
  BY <1>2, <1>3 DEF SameRule, IsModifier
<1>5. r < m
  BY <1>0, <1>4 DEF NumberInv
<1>6. Exists(rules, r)
  BY <1>0, <1>1, <1>5 DEF Evolves
<1> QED BY <1>0, <1>2, <1>4, <1>6 DEF Modifiers

LEMMA KnownInvStep == IInv /\ [Next]_vars => KnownInv'
<1> SUFFICES ASSUME IInv, [Next]_vars PROVE KnownInv'
  OBVIOUS
<1>0. TypeInv /\ NumberInv /\ KnownInv /\ Evolves
  BY BackendStep DEF IInv
<1>1. CASE CopyGrows /\ UnseenKept /\ NewIsKnown
  <2>1. ASSUME NEW r \in Ids, Exists(rules', r), NEW m \in Modifiers(rules', r)
        PROVE  m \in unseen' \cup copy'.overrides[r]
    <3>1. CASE Exists(rules, m)
      <4>1. Exists(rules, r) /\ m \in Modifiers(rules, r) /\ m \in Ids /\ IsModifier(rules', m)
        BY <1>0, <2>1, <3>1, ModifierKept
      <4>2. m \in unseen \cup copy.overrides[r]
        BY <1>0, <4>1 DEF KnownInv
      <4>3. CASE m \in unseen
        BY <1>1, <4>1, <4>3 DEF UnseenKept, Ids
      <4>4. CASE m \in copy.overrides[r]
        BY <1>1, <4>4 DEF CopyGrows
      <4> QED BY <4>2, <4>3, <4>4
    <3>2. CASE ~Exists(rules, m)
      BY <1>1, <3>2 DEF NewIsKnown, Modifiers
    <3> QED BY <3>1, <3>2
  <2> QED BY <2>1 DEF KnownInv
<1>2. ASSUME NEW t \in Threads, Swap(t) PROVE KnownInv'
  <2>1. /\ UNCHANGED <<rules, nextId>> /\ Snapshot(copy'.rules, rules, nextId)
        /\ copy'.overrides = Linked(copy'.rules) /\ unseen' = Left \ Known(copy')
    BY <1>2, Swapped
  <2> DEFINE db == copy'.rules
  <2>2. ASSUME NEW r \in Ids, Exists(rules, r), NEW m \in Modifiers(rules, r), m \notin unseen'
        PROVE  m \in copy'.overrides[r]
    <3>1. m \in Ids /\ r \in Int /\ m \in Int /\ m # 0 /\ IsModifier(rules, m) /\ rules[m].parent = r
      BY DEF Modifiers, Ids
    <3>2. m \in Known(copy')
      BY <2>1, <2>2, <3>1 DEF Left
    <3>3. PICK q \in Ids : m \in Linked(db)[q]
      BY <2>1, <3>1, <3>2 DEF Known
    <3>4. IsModifier(db, m)
      BY <3>3 DEF Linked
    <3>5. db[m].parent = r
      BY <2>1, <3>1, <3>4 DEF Snapshot, IsModifier, SameRule
    <3>6. r < m
      BY <1>0, <3>1 DEF NumberInv, IsModifier
    <3>7. Exists(db, r)
      BY <2>1, <2>2, <3>1, <3>4, <3>6 DEF Snapshot, IsModifier
    <3>8. m \in Linked(db)[r]
      BY <3>1, <3>4, <3>5, <3>6, <3>7 DEF Linked
    <3> QED BY <2>1, <3>8
  <2> QED BY <2>1, <2>2 DEF KnownInv
<1> QED BY <1>1, <1>2, ClientStep

\* Steps but those of Kodi make no rules, and only Kodi and the removal touch
\* what DeleteRecordingRule still has to remove.
LEMMA RulesGo ==
  ASSUME IInv, [Next]_vars, ~Kodi
  PROVE  \A i \in Ids : rules'[i] \in {rules[i], NoRule}
<1> USE DEF backendVars
<1>0. rules \in Rules
  BY DEF IInv, TypeInv, BackendType
<1>k. rules' = rules => \A i \in Ids : rules'[i] \in {rules[i], NoRule}
  OBVIOUS
<1>1. CASE Reschedule \/ BeginRecording \/ EndRecording \/ Lose \/ Restore \/ GetTimers
  BY <1>1, <1>k DEF Reschedule, BeginRecording, EndRecording, Lose, Restore, GetTimers
<1>2. ASSUME NEW r \in Ids, OtherDeletes(r) PROVE \A i \in Ids : rules'[i] \in {rules[i], NoRule}
  BY <1>2 DEF OtherDeletes
<1>3. ASSUME NEW r \in Ids, RemoveNext(r) PROVE \A i \in Ids : rules'[i] \in {rules[i], NoRule}
  <2>1. rules' = [rules EXCEPT ![r] = NoRule] \/ rules' = rules
    BY <1>3 DEF RemoveNext
  <2> QED BY <1>0, <2>1 DEF Rules
<1>4. ASSUME NEW t, ThreadStep(t) PROVE rules' = rules
  BY <1>4 DEF ThreadStep, FetchRules, FetchUpcoming, Swap, TriggerTimerUpdate
<1>5. CASE UNCHANGED vars
  BY <1>5, <1>k DEF vars
<1> QED BY <1>k, <1>1, <1>2, <1>3, <1>4, <1>5 DEF Next, Backend, Removing

LEMMA DelStep ==
  ASSUME IInv, [Next]_vars
  PROVE  \/ del' = del
         \/ \E r \in Ids : RemoveNext(r)
         \/ \E r \in Ids : /\ del' = [rule |-> r, todo |-> copy.overrides[r]]
                           /\ UNCHANGED <<rules, nextId, unseen>>
<1> DEFINE Goes == \/ del' = del
                   \/ \E r \in Ids : RemoveNext(r)
                   \/ \E r \in Ids : /\ del' = [rule |-> r, todo |-> copy.overrides[r]]
                                     /\ UNCHANGED <<rules, nextId, unseen>>
<1> USE DEF backendVars
<1>1. CASE Reschedule \/ BeginRecording \/ EndRecording \/ Lose \/ Restore \/ GetTimers
  BY <1>1 DEF Reschedule, BeginRecording, EndRecording, Lose, Restore, GetTimers
<1>2. ASSUME NEW r \in Ids, OtherDeletes(r) PROVE del' = del
  BY <1>2 DEF OtherDeletes
<1>3. ASSUME NEW t, ThreadStep(t) PROVE del' = del
  BY <1>3 DEF ThreadStep, FetchRules, FetchUpcoming, Swap, TriggerTimerUpdate
<1>4. CASE Kodi
  <2>1. ASSUME NEW r \in Ids, DeleteRule(r) PROVE Goes
    BY <2>1 DEF DeleteRule, NoRequest
  <2>2. ASSUME NEW rule, AddRule(rule) PROVE del' = del
    BY <2>2 DEF AddRule
  <2>3. ASSUME NEW r, NEW type, NEW s, AddModifier(r, type, s) PROVE del' = del
    BY <2>3 DEF AddModifier
  <2>4. ASSUME NEW r, NEW off, SetInactive(r, off) PROVE del' = del
    BY <2>4 DEF SetInactive
  <2>5. ASSUME NEW e, StopRecording(e) PROVE del' = del
    BY <2>5 DEF StopRecording
  <2> HIDE DEF Goes
  <2>6. NoRequest \/ del' = del => Goes
    BY DEF Goes, NoRequest
  <2> QED BY <1>4, <2>1, <2>2, <2>3, <2>4, <2>5, <2>6, KodiRequests DEF IInv, Goes
<1>5. CASE UNCHANGED vars
  BY <1>5 DEF vars
<1> QED BY <1>1, <1>2, <1>3, <1>4, <1>5 DEF Next, Backend, Removing

LEMMA DelInvStep == IInv /\ [Next]_vars => DelInv'
<1> SUFFICES ASSUME IInv, [Next]_vars, ~Free' PROVE DelInv'
  BY DEF DelInv
<1>0. TypeInv /\ NumberInv /\ DelInv /\ KnownInv /\ CopyInv /\ ClientType /\ Evolves /\ rules \in Rules
  BY BackendStep DEF IInv, TypeInv, BackendType
<1>u. ASSUME ~Free, NEW m \in Ids, m \in unseen, IsModifier(rules', m) PROVE m \in unseen'
  <2>1. UnseenKept
    BY <1>u, ClientStep, Swapped
  <2> QED BY <1>u, <2>1 DEF UnseenKept, Ids
<1>g. ASSUME ~Free, Exists(rules', del.rule), NEW m \in Modifiers(rules', del.rule),
             del.rule \in Ids
      PROVE  m \in unseen' \cup del.todo
  <2>1. \A i \in Ids : rules'[i] \in {rules[i], NoRule}
    BY <1>g, RulesGo, KodiRequests DEF IInv
  <2>2. Exists(rules, m)
    BY <2>1 DEF Modifiers, IsModifier, Exists
  <2>3. /\ Exists(rules, del.rule) /\ m \in Modifiers(rules, del.rule) /\ m \in Ids
        /\ IsModifier(rules', m)
    BY <1>0, <1>g, <2>2, ModifierKept
  <2>4. m \in unseen \cup del.todo
    BY <1>0, <1>g, <2>3 DEF DelInv
  <2> QED BY <1>g, <1>u, <2>3, <2>4
<1>d. ~Free => del.rule \in Ids /\ del.todo \subseteq Ids
  BY <1>0 DEF ClientType, Free, Ids
<1>w. ~Free => \A m \in del.todo : WasModifier(m)'
  BY <1>0, <1>d, WasModifierKept DEF DelInv
<1>1. CASE del' = del
  BY <1>1, <1>d, <1>g, <1>w DEF DelInv, Free
<1>2. ASSUME NEW r \in Ids, RemoveNext(r) PROVE DelInv'
  <2>1. /\ ~Free /\ r \in del.todo /\ del' = [del EXCEPT !.todo = del.todo \ {r}]
        /\ (rules' = [rules EXCEPT ![r] = NoRule] \/ r \in unseen')
    BY <1>2 DEF RemoveNext, Free
  <2>2. del'.rule = del.rule /\ del'.todo = del.todo \ {r}
    BY <1>0, <2>1 DEF ClientType
  <2>3. ~IsModifier(rules', r) \/ r \in unseen'
    BY <1>0, <2>1 DEF Rules, IsModifier, Exists
  <2>4. ASSUME Exists(rules', del.rule), NEW m \in Modifiers(rules', del.rule)
        PROVE  m \in unseen' \cup del'.todo
    <3>1. m \in unseen' \cup del.todo /\ IsModifier(rules', m)
      BY <1>d, <1>g, <2>1, <2>4 DEF Modifiers
    <3> QED BY <2>2, <2>3, <3>1
  <2> QED BY <1>w, <2>1, <2>2, <2>4 DEF DelInv
<1>3. ASSUME NEW r \in Ids, del' = [rule |-> r, todo |-> copy.overrides[r]],
             UNCHANGED <<rules, nextId, unseen>>
      PROVE  DelInv'
  <2>1. Exists(rules, r) => Modifiers(rules, r) \subseteq unseen \cup copy.overrides[r]
    BY <1>0 DEF KnownInv
  <2>2. \A m \in copy.overrides[r] : WasModifier(m)
    BY <1>0 DEF CopyInv
  <2>3. del'.rule = r /\ del'.todo = copy.overrides[r]
    BY <1>3
  <2> QED BY <1>3, <2>1, <2>2, <2>3 DEF DelInv, WasModifier
<1> QED BY <1>1, <1>2, <1>3, DelStep

LEMMA RecordingInvStep == IInv /\ [Next]_vars => RecordingInv'
<1> SUFFICES ASSUME IInv, [Next]_vars, recording' # Nothing PROVE RecordingInv'
  BY DEF RecordingInv
<1>0. RecordingInv
  BY DEF IInv
<1>1. CASE CopyGrows /\ UnseenKept
  <2>1. CASE 0 \in unseen'
    BY <2>1 DEF RecordingInv
  <2>2. CASE 0 \notin unseen'
    <3>1. recording' = recording /\ 0 \notin unseen
      BY <1>1, <2>2 DEF UnseenKept
    <3>2. PICK e \in copy.upcoming : /\ e.status = "recording"
                                     /\ recording = [rule |-> e.rule, show |-> e.show]
      BY <1>0, <3>1 DEF RecordingInv
    <3> QED BY <1>1, <3>1, <3>2 DEF RecordingInv, CopyGrows
  <2> QED BY <2>1, <2>2
<1>2. ASSUME NEW t \in Threads, Swap(t) PROVE RecordingInv'
  <2>1. recording' = recording /\ unseen' = Left \ Known(copy')
    BY <1>2, Swapped
  <2>2. 0 \in Left /\ 0 \notin Ids
    BY <2>1 DEF Left, Ids
  <2>3. 0 \in unseen' \/ 0 \in Known(copy')
    BY <2>1, <2>2
  <2>4. 0 \in Known(copy') => \E e \in copy'.upcoming :
                                /\ e.status = "recording"
                                /\ recording = [rule |-> e.rule, show |-> e.show]
    <3>1. \A r \in Ids : copy'.overrides[r] \subseteq Ids
      BY <1>2, ClientStep DEF ClientType, CopyType
    <3> QED BY <2>2 DEF Known
  <2> QED BY <2>1, <2>3, <2>4 DEF RecordingInv
<1> QED BY <1>1, <1>2, ClientStep

-----------------------------------------------------------------------------
(* What deleting a rule leaves behind.                                     *)

LEMMA RulesRemain ==
  ASSUME IInv, Kodi, NEW r \in Ids, Exists(rules, r)
  PROVE  Exists(rules', r)
<1> USE DEF backendVars
<1>0. TypeInv /\ rules \in Rules
  BY DEF IInv, TypeInv, BackendType
<1>s. ASSUME NEW i \in Ids, NEW rule \in Rule, rules' = [rules EXCEPT ![i] = rule]
      PROVE  Exists(rules', r)
  BY <1>0, <1>s DEF Rules, Exists, Rule, NoRule
<1>1. ASSUME NEW i, DeleteRule(i) PROVE rules' = rules
  BY <1>1 DEF DeleteRule, NoRequest
<1>2. ASSUME NEW rule \in Rule, AddRule(rule) PROVE Exists(rules', r)
  BY <1>2, <1>s DEF AddRule, Refused
<1>3. ASSUME NEW i \in Ids, NEW type \in Modifier, NEW s \in Showings, AddModifier(i, type, s)
      PROVE  Exists(rules', r)
  <2> DEFINE rule == [type |-> type, parent |-> i, show |-> s, inactive |-> FALSE]
  <2>1. rule \in Rule
    BY DEF Rule, Modifier, Ids
  <2>2. rules' = rules \/ (nextId \in Ids /\ rules' = [rules EXCEPT ![nextId] = rule])
    BY <1>3 DEF AddModifier, Refused
  <2> HIDE DEF rule
  <2> QED BY <1>s, <2>1, <2>2
<1>4. ASSUME NEW i \in Ids, NEW off \in BOOLEAN, SetInactive(i, off) PROVE Exists(rules', r)
  <2>1. rules' = rules \/ (Exists(rules, i) /\ rules' = [rules EXCEPT ![i].inactive = off])
    BY <1>4 DEF SetInactive, Refused
  <2>2. Exists(rules, i) => [rules[i] EXCEPT !.inactive = off] \in Rule
    BY <1>0, RuleTypes DEF Rule
  <2> QED BY <1>s, <2>1, <2>2
<1>5. ASSUME NEW e, StopRecording(e) PROVE rules' = rules
  BY <1>5 DEF StopRecording
<1> QED BY <1>0, <1>1, <1>2, <1>3, <1>4, <1>5, KodiRequests DEF NoRequest

LEMMA NothingIsLeft ==
  ASSUME IInv, [Next]_vars, NEW r \in Ids,
         Exists(rules, r), ~IsModifier(rules, r), ~Exists(rules', r)
  PROVE  /\ Modifiers(rules', r) \subseteq unseen'
         /\ recording' # Nothing /\ recording'.rule = r => 0 \in unseen'
<1> USE DEF backendVars
<1> DEFINE Clean == /\ Modifiers(rules', r) \subseteq unseen'
                    /\ recording' # Nothing /\ recording'.rule = r => 0 \in unseen'
<1>0. TypeInv /\ NumberInv /\ DelInv /\ RecordingInv /\ rules \in Rules /\ nextId \in Int
  BY DEF IInv, TypeInv, BackendType
<1>1. ASSUME NEW q \in Ids, OtherDeletes(q) PROVE Clean
  <2>1. rules' = [i \in Ids |-> IF i = q \/ i \in Modifiers(rules, q) THEN NoRule ELSE rules[i]]
    BY <1>1 DEF OtherDeletes
  <2>2. r = q
    BY <2>1 DEF Modifiers, Exists
  <2>3. \A m \in Ids : m \notin Modifiers(rules', r)
    BY <2>1, <2>2 DEF Modifiers, IsModifier, Exists
  <2>4. recording' # Nothing => recording' = recording /\ Exists(rules', recording.rule)
    BY <1>1 DEF OtherDeletes
  <2> QED BY <2>3, <2>4 DEF Modifiers
<1>2. ASSUME NEW q \in Ids, RemoveNext(q) PROVE Clean
  <2>1. PICK stops \in BOOLEAN, removes \in BOOLEAN :
           LET asked == {e \in copy.upcoming : e.rule = q /\ e.status = "recording"}
               stopped == stops /\ recording \in {[rule |-> q, show |-> e.show] : e \in asked}
           IN /\ recording' = IF stopped THEN Nothing ELSE recording
              /\ rules' = IF removes THEN [rules EXCEPT ![q] = NoRule] ELSE rules
              /\ unseen' = (IF stopped THEN unseen \ {0} ELSE unseen)
                             \cup (IF stops THEN {} ELSE {0})
                             \cup (IF removes THEN {} ELSE {q})
    BY <1>2 DEF RemoveNext
  <2>2. q = r /\ removes
    BY <1>0, <2>1 DEF Exists, Rules
  <2>3. ~Free /\ del.todo = {} /\ del.rule = r
    <3>1. r \notin del.todo
      BY <1>0, <1>2, <2>2 DEF DelInv, WasModifier, RemoveNext
    <3> QED BY <1>2, <2>2, <3>1 DEF RemoveNext
  <2>4. Modifiers(rules, r) \subseteq unseen
    BY <1>0, <2>3 DEF DelInv
  <2>5. ASSUME NEW m \in Modifiers(rules', r) PROVE m \in unseen'
    <3>1. m \in Ids /\ m # r /\ rules'[m] = rules[m] /\ m # 0
      BY <1>0, <2>1, <2>2 DEF Modifiers, IsModifier, Exists, Rules, Ids
    <3>2. m \in unseen
      BY <2>4, <3>1 DEF Modifiers, IsModifier, Exists
    <3> QED BY <2>1, <3>1, <3>2
  <2>6. ASSUME recording' # Nothing, recording'.rule = r PROVE 0 \in unseen'
    <3>1. recording' = recording
      BY <2>1, <2>6
    <3>2. CASE 0 \in unseen
      BY <2>1, <2>6, <3>2
    <3>3. CASE 0 \notin unseen
      <4>1. PICK e \in copy.upcoming : /\ e.status = "recording"
                                       /\ recording = [rule |-> e.rule, show |-> e.show]
        BY <1>0, <2>6, <3>1, <3>3 DEF RecordingInv
      <4>2. e.rule = r
        BY <2>6, <3>1, <4>1
      <4> QED BY <2>1, <2>2, <2>6, <4>1, <4>2
    <3> QED BY <3>2, <3>3
  <2> QED BY <2>5, <2>6
<1>3. CASE Kodi
  BY <1>0, <1>3, RulesRemain DEF IInv
<1>4. CASE Reschedule \/ BeginRecording \/ EndRecording \/ Lose \/ Restore \/ GetTimers
  BY <1>4 DEF Reschedule, BeginRecording, EndRecording, Lose, Restore, GetTimers
<1>5. ASSUME NEW t, ThreadStep(t) PROVE rules' = rules
  BY <1>5 DEF ThreadStep, FetchRules, FetchUpcoming, Swap, TriggerTimerUpdate
<1>6. CASE UNCHANGED vars
  BY <1>6 DEF vars
<1> QED BY <1>1, <1>2, <1>3, <1>4, <1>5, <1>6 DEF Next, Backend, Removing

-----------------------------------------------------------------------------
(* How the copy catches up.                                                *)

\* What is left to do, once all is announced and taken, is left to do because
\* it was before or because an update has just begun or gone on.
Same == UNCHANGED <<rules, scheduled, link, dirty, mail, upd, copy, missed, overtaken>>

LEMMA QuietStep ==
  ASSUME IInv, [Next]_vars, Silent'
  PROVE  \/ Same
         \/ \E t \in Threads : FetchRules(t)
         \/ \E t \in Threads : /\ FetchUpcoming(t) \/ Swap(t) \/ TriggerTimerUpdate(t)
                               /\ Silent
<1> USE DEF backendVars, historyVars
<1>0. TypeInv /\ MailType /\ link' /\ ~dirty' /\ \A t \in Threads : mail'[t] = <<>>
  BY DEF IInv, TypeInv, Silent
<1>a. ASSUME NEW t \in Threads, NEW m, Announce(t, m) PROVE FALSE
  <2>1. mail'[t] = Append(mail[t], m) /\ mail[t] \in Seq(Told)
    BY <1>0, <1>a DEF MailType, Announce
  <2>2. Append(mail[t], m) # <<>>
    BY <2>1
  <2> QED BY <1>0, <2>1, <2>2
<1>1. CASE Reschedule
  BY <1>0, <1>1, <1>a DEF Reschedule, Threads
<1>2. CASE BeginRecording \/ EndRecording \/ Lose \/ \E r \in Ids : OtherDeletes(r)
  BY <1>0, <1>2 DEF BeginRecording, EndRecording, Lose, OtherDeletes
<1>3. CASE Restore
  BY <1>3, <1>a DEF Restore, Threads
<1>4. CASE GetTimers
  BY <1>4 DEF GetTimers, Same
<1>5. ASSUME NEW r \in Ids, RemoveNext(r) PROVE Same
  <2>1. UNCHANGED <<scheduled, link, mail, upd, copy, missed, overtaken>>
    BY <1>5 DEF RemoveNext
  <2>2. \E stopped \in BOOLEAN : dirty' = (dirty \/ stopped \/ rules' # rules)
    BY <1>5 DEF RemoveNext
  <2>3. rules' = rules /\ dirty' = FALSE /\ dirty = FALSE
    BY <1>0, <2>2 DEF TypeInv, Flags
  <2> QED BY <2>1, <2>3 DEF Same
<1>6. CASE Kodi
  <2>0. UNCHANGED <<link, mail, upd, missed, overtaken>>
    BY <1>6 DEF Kodi
  <2>1. CASE NoRequest
    BY <2>0, <2>1 DEF NoRequest, Same
  <2>2. ASSUME NEW r, DeleteRule(r) PROVE Same
    BY <2>0, <2>2 DEF DeleteRule, NoRequest, Same
  <2>3. ASSUME NEW rule, AddRule(rule) PROVE Same
    BY <1>0, <2>0, <2>3 DEF AddRule, Refused, Same
  <2>4. ASSUME NEW r, NEW type, NEW s, AddModifier(r, type, s) PROVE Same
    BY <1>0, <2>0, <2>4 DEF AddModifier, Refused, Same
  <2>5. ASSUME NEW r, NEW off, SetInactive(r, off) PROVE Same
    BY <1>0, <2>0, <2>5 DEF SetInactive, Refused, Same
  <2>6. ASSUME NEW e, StopRecording(e) PROVE Same
    BY <1>0, <2>0, <2>6 DEF StopRecording, Same
  <2> QED BY <1>6, <2>1, <2>2, <2>3, <2>4, <2>5, <2>6, KodiRequests DEF IInv
<1>7. ASSUME NEW t \in Threads, FetchUpcoming(t) \/ Swap(t) \/ TriggerTimerUpdate(t) PROVE Silent
  <2>1. UNCHANGED <<link, dirty, mail>>
    BY <1>7 DEF FetchUpcoming, Swap, TriggerTimerUpdate
  <2> QED BY <1>0, <2>1 DEF Silent
<1>8. CASE UNCHANGED vars
  BY <1>8 DEF vars, Same
<1> QED BY <1>1, <1>2, <1>3, <1>4, <1>5, <1>6, <1>7, <1>8 DEF Next, Backend, Removing, ThreadStep

LEMMA CatchUpStep == IInv /\ [Next]_vars => CatchUpInv'
<1> USE DEF backendVars, historyVars
<1> SUFFICES ASSUME IInv, [Next]_vars, Silent' PROVE CatchUpInv'
  BY DEF CatchUpInv
<1>0. TypeInv /\ UpdType /\ CatchUpInv
  BY DEF IInv, TypeInv
<1> DEFINE Now(u) == Serves(u, rules, scheduled)
           Later(u) == Serves(u, rules', scheduled')
           Goal == /\ \/ IsCurrent' \/ missed' \/ overtaken'
                      \/ \E t \in Threads : Later(upd'[t])
                   /\ \A t \in Threads : Fetching(upd'[t]) =>
                        \/ Later(upd'[t]) \/ upd'[t].late
                        \/ \E u \in Threads : u # t /\ Later(upd'[u])
<1>g. Goal => CatchUpInv'
  BY DEF CatchUpInv
<1>h. Silent => /\ \/ IsCurrent \/ missed \/ overtaken
                   \/ \E t \in Threads : Now(upd[t])
                /\ \A t \in Threads : Fetching(upd[t]) =>
                     \/ Now(upd[t]) \/ upd[t].late
                     \/ \E u \in Threads : u # t /\ Now(upd[u])
  BY <1>0 DEF CatchUpInv
<1>f. \A u : Serves(u, rules, scheduled) => Fetching(u)
  BY DEF Serves, Fetching
<1>1. CASE Same
  <2>1. Silent /\ (IsCurrent => IsCurrent') /\ UNCHANGED <<rules, scheduled, upd, missed, overtaken>>
    BY <1>1 DEF Same, Silent, IsCurrent
  <2> QED BY <1>g, <1>h, <2>1
<1>2. ASSUME NEW t \in Threads, FetchRules(t) PROVE CatchUpInv'
  <2>1. /\ upd'[t].pc = "rules" /\ rules' = rules
        /\ upd'[t].rules = rules \/ upd'[t].failed
    BY <1>0, <1>2 DEF FetchRules, UpdType
  <2>2. Later(upd'[t])
    BY <2>1 DEF Serves, Fetching
  <2> HIDE DEF Later
  <2> QED BY <1>g, <2>2
<1>3. ASSUME NEW t \in Threads, FetchUpcoming(t), Silent PROVE CatchUpInv'
  <2>1. /\ UNCHANGED <<rules, scheduled, copy, missed, overtaken>> /\ upd[t].pc = "rules"
        /\ \A u \in Threads : u # t => upd'[u] = upd[u]
        /\ upd'[t].pc = "upcoming" /\ upd'[t].late = upd[t].late
        /\ \/ /\ upd'[t].failed = upd[t].failed
              /\ upd'[t].copy = CopyOf(upd[t].rules, scheduled)
           \/ upd'[t].failed = TRUE
    BY <1>0, <1>3 DEF FetchUpcoming, UpdType
  <2>2. \A u \in Threads : Now(upd[u]) => Later(upd'[u])
    BY <2>1 DEF Serves, Fetching
  <2>3. \A u \in Threads : Fetching(upd'[u]) => Fetching(upd[u]) /\ upd'[u].late = upd[u].late
    BY <2>1 DEF Fetching
  <2>4. IsCurrent => IsCurrent'
    BY <2>1 DEF IsCurrent
  <2> HIDE DEF Now, Later
  <2> QED BY <1>3, <1>g, <1>h, <2>1, <2>2, <2>3, <2>4
<1>4. ASSUME NEW t \in Threads, TriggerTimerUpdate(t), Silent PROVE CatchUpInv'
  <2>1. /\ UNCHANGED <<rules, scheduled, copy, missed, overtaken>> /\ upd[t].pc = "trigger"
        /\ \A u \in Threads : u # t => upd'[u] = upd[u]
        /\ upd'[t] = Idle
    BY <1>0, <1>4 DEF TriggerTimerUpdate, UpdType
  <2>2. \A u \in Threads : Now(upd[u]) => Later(upd'[u]) /\ u # t
    BY <2>1 DEF Serves, Fetching
  <2>3. \A u \in Threads : Fetching(upd'[u]) => u # t
    BY <2>1 DEF Fetching, Idle
  <2>4. IsCurrent => IsCurrent'
    BY <2>1 DEF IsCurrent
  <2> HIDE DEF Now, Later
  <2> QED BY <1>4, <1>g, <1>h, <2>1, <2>2, <2>3, <2>4
<1>5. ASSUME NEW t \in Threads, Swap(t), Silent PROVE CatchUpInv'
  <2>1. /\ UNCHANGED <<rules, scheduled>> /\ upd[t].pc = "upcoming"
        /\ copy' = upd[t].copy /\ overtaken' = upd[t].late /\ missed' = upd[t].failed
        /\ upd' = [Overtake(t) EXCEPT ![t] = [pc |-> "trigger"]]
    BY <1>5 DEF Swap
  <2>2. upd'[t] = [pc |-> "trigger"] /\ \A u \in Threads : u # t => upd'[u] = Overtake(t)[u]
    BY <2>1 DEF Overtake
  <2>3. ASSUME NEW u \in Threads, u # t, Fetching(upd[u])
        PROVE  upd'[u].late /\ (Now(upd[u]) => Later(upd'[u]))
    <3>1. upd[u] \in InRules \/ upd[u] \in InUpcoming
      BY <1>0, <2>3, UpdTypes DEF Fetching
    <3>2. upd'[u] = [upd[u] EXCEPT !.late = TRUE]
      BY <2>2, <2>3 DEF Overtake, Fetching
    <3>3. /\ upd'[u].late = TRUE /\ upd'[u].pc = upd[u].pc /\ upd'[u].failed = upd[u].failed
          /\ upd[u].pc = "rules" => upd'[u].rules = upd[u].rules
          /\ upd[u].pc = "upcoming" => upd'[u].copy = upd[u].copy
      BY <3>1, <3>2 DEF InRules, InUpcoming
    <3> QED BY <2>1, <3>3 DEF Serves, Fetching
  <2>4. ASSUME NEW u \in Threads, Fetching(upd'[u]) PROVE u # t /\ Fetching(upd[u])
    <3>1. u # t
      BY <2>2, <2>4 DEF Fetching
    <3>2. upd'[u] = upd[u] \/ Fetching(upd[u])
      BY <2>2, <3>1 DEF Overtake, Fetching
    <3> QED BY <2>4, <3>1, <3>2
  <2>5. IsCurrent' \/ missed' \/ overtaken' \/ \E u \in Threads : Later(upd'[u])
    <3>1. Now(upd[t]) \/ upd[t].late \/ \E u \in Threads : u # t /\ Now(upd[u])
      BY <1>5, <1>h, <2>1 DEF Fetching
    <3>2. Now(upd[t]) => IsCurrent' \/ missed'
      BY <2>1 DEF Serves, IsCurrent
    <3> HIDE DEF Later
    <3> QED BY <1>f, <2>1, <2>3, <3>1, <3>2
  <2> HIDE DEF Now, Later
  <2> QED BY <1>g, <2>3, <2>4, <2>5
<1> QED BY <1>1, <1>2, <1>3, <1>4, <1>5, QuietStep

-----------------------------------------------------------------------------
LEMMA Inductive == IInv /\ [Next]_vars => IInv'
<1> SUFFICES ASSUME IInv, [Next]_vars PROVE IInv'
  OBVIOUS
<1>1. TypeInv' /\ NumberInv'
  BY TypeStep, NumberStep, BackendStep DEF IInv
<1> QED BY <1>1, UpdInvStep, CopyInvStep, KnownInvStep, DelInvStep, RecordingInvStep, CatchUpStep
        DEF IInv

LEMMA Always == Spec => []IInv
<1>1. Init => IInv
  BY InitOK
<1>2. IInv /\ [Next]_vars => IInv'
  BY Inductive
<1> QED BY <1>1, <1>2, PTL DEF Spec

\* The rules, the copy of them, the messages and the counters always have
\* their types.
THEOREM TypeCorrect == Spec => []TypeOK
<1>1. IInv => TypeOK
  <2>1. \A t \in Threads : UpdType => upd[t].pc \in {"idle", "rules", "upcoming", "trigger"}
    BY UpdTypes
  <2>2. BackendType => rules \in [Ids -> {NoRule} \cup Rule]
    BY DEF BackendType, Rules
  <2> QED BY <2>1, <2>2
          DEF IInv, TypeInv, Flags, BackendType, MailType, ClientType, CountType, TypeOK
<1> QED BY <1>1, Always, PTL

\* When every message has been handled the copy is what the backend has, but
\* for the two exemptions.
THEOREM CopyStaysCurrent == Spec => []CopyCatchesUp
<1>1. IInv => CopyCatchesUp
  <2> SUFFICES ASSUME IInv, Drained, ~missed, ~overtaken PROVE IsCurrent
    BY DEF CopyCatchesUp
  <2>1. Silent
    BY DEF Silent, Drained
  <2>2. \A t \in Threads : ~Serves(upd[t], rules, scheduled)
    BY DEF Drained, Serves, Fetching
  <2> QED BY <2>1, <2>2 DEF IInv, CatchUpInv
<1> QED BY <1>1, Always, PTL

\* Deleting a rule, by the client or by another one, leaves no modifier and no
\* recording of it behind that the client could have known of.
THEOREM DeletionIsComplete == Spec => NothingLeftBehind
<1> DEFINE Clean == \A r \in Ids :
                      Exists(rules, r) /\ ~IsModifier(rules, r) /\ ~Exists(rules', r) =>
                        /\ Modifiers(rules', r) \subseteq unseen'
                        /\ recording' # Nothing /\ recording'.rule = r => 0 \in unseen'
<1>1. IInv /\ [Next]_vars => [Clean]_vars
  BY NothingIsLeft
<1> QED BY <1>1, Always, PTL DEF Spec, NothingLeftBehind
=============================================================================
