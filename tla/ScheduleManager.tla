-------------------------- MODULE ScheduleManager --------------------------
(***************************************************************************)
(* MythScheduleManager: the add-on's copy of the backend's recording rules *)
(* and of what is scheduled, and the operations on timers that Kodi asks   *)
(* for.  An operation looks the timer up in the copy, sends requests to    *)
(* the backend and brings the copy up to date ("sync node"), all under     *)
(* m_lock; the rest of the copy follows with Update, when the backend has  *)
(* announced that it has scheduled again.                                  *)
(*                                                                         *)
(* Update runs in two threads: the subscription to SCHEDULE_CHANGE, and    *)
(* that of the status messages, when the event connection is restored.  It *)
(* asks the backend without m_lock and takes m_lock only to install what   *)
(* it got.                                                                 *)
(*                                                                         *)
(* A rule is "single" (one showing), "series" (any repeating rule) or a    *)
(* modifier, "dont" or "override", of another rule for one showing.  What  *)
(* a rule carries besides (margins, priority, search) is left out, and so  *)
(* are templates and rules for manual searches.                            *)
(*                                                                         *)
(* Bounds: MaxId rules in all, MaxOps operations of Kodi, MaxFaults things *)
(* beyond its control (lost connections, requests refused or unanswered,   *)
(* other clients, recordings that begin), MailMax messages waiting.        *)
(***************************************************************************)
EXTENDS Integers, Sequences, FiniteSets

CONSTANTS Showings, MaxId, MaxOps, MaxFaults, MailMax

ASSUME ScheduleAssumption ==
  /\ IsFiniteSet(Showings)
  /\ MaxId \in Nat \ {0} /\ MailMax \in Nat \ {0}
  /\ MaxOps \in Nat /\ MaxFaults \in Nat

VARIABLES
  rules,      \* the rules of the backend, by number
  nextId,     \* the number of the next one
  recording,  \* the showing being recorded, with its rule
  aired,      \* the showings that are over
  before,     \* the showings of what was recorded before and is gone
  scheduled,  \* the backend's list of upcoming recordings
  dirty,      \* it has to be made again
  link,       \* the event connection is open
  mail,       \* messages that wait for each of the two threads
  upd,        \* what each of the threads is at, and what it has been told
  copy,       \* the copy: rules, modifiers of each rule, upcoming recordings
  del,        \* the rules that DeleteRecordingRule still has to remove
  trigger,    \* Kodi has been told to update its timers
  shown,      \* history: the copy is what Kodi has read
  overtaken,  \* history: the copy was fetched before the one it replaced
  missed,     \* history: a query for the copy went unanswered
  unseen,     \* history: what the client could not know of
  ops, faults \* counters

backendVars == <<rules, nextId, recording, aired, before, scheduled, dirty>>
historyVars == <<overtaken, missed, unseen>>
vars == <<backendVars, link, mail, upd, copy, del, trigger, shown, historyVars,
          ops, faults>>

Ids == 1 .. MaxId
NoRule == [type |-> "none"]
Rule == [type : {"single", "series", "dont", "override"},
         parent : 0 .. MaxId,
         show : Showings \cup {"all"},
         inactive : BOOLEAN]
Modifier == {"dont", "override"}
Entry == [rule : Ids, show : Showings,
          status : {"will", "recording", "previous", "dont", "inactive"}]
Nothing == [rule |-> 0]
Threads == {"schedule", "status"}

Exists(db, r) == db[r] # NoRule
IsModifier(db, r) == Exists(db, r) /\ db[r].type \in Modifier
Modifiers(db, r) == {m \in Ids : IsModifier(db, m) /\ db[m].parent = r}

-----------------------------------------------------------------------------
(* The backend: its rules, and the schedule it makes of them.              *)

\* A modifier decides about its showing, even if its rule is gone.
Decides(r, s) ==
  LET For(m) == IsModifier(rules, m) /\ rules[m].show = s
      Takes(m) == Exists(rules, m) /\ rules[m].show \in {s, "all"}
      Best == IF \E m \in Ids : For(m) THEN {m \in Ids : For(m)}
                                       ELSE {m \in Ids : Takes(m)}
  IN r \in Best /\ \A m \in Best : r <= m

StatusOf(r, s) ==
  CASE rules[r].type = "dont" -> "dont"
    [] rules[r].inactive -> "inactive"
    [] s \in before /\ rules[r].type # "override" -> "previous"
    [] OTHER -> "will"

\* A recording goes on when its rule is gone.
Schedule ==
  {e \in Entry : IF recording # Nothing /\ recording.show = e.show
                 THEN e.rule = recording.rule /\ e.status = "recording"
                 ELSE /\ e.show \notin aired /\ Decides(e.rule, e.show)
                      /\ e.status = StatusOf(e.rule, e.show)}

\* Things that a client may leave behind.
Left == {r \in Ids : IsModifier(rules, r)} \cup
          (IF recording = Nothing THEN {} ELSE {0})

\* Mutant: a restored connection is not announced.
AnnounceChangesOnly(t, msg) ==
  mail' = IF msg = "change" THEN [mail EXCEPT ![t] = Append(@, msg)] ELSE mail

Announce(t, msg) == mail' = [mail EXCEPT ![t] = Append(@, msg)]

\* The schedule is made again, and announced to the clients that listen.
Reschedule ==
  /\ dirty
  /\ scheduled' = Schedule /\ dirty' = FALSE
  /\ IF link THEN /\ Len(mail["schedule"]) < MailMax
                  /\ Announce("schedule", "change")
             ELSE UNCHANGED mail
  /\ UNCHANGED <<rules, nextId, before, recording, aired, link, upd, copy, del,
                 trigger, shown, historyVars, ops, faults>>

Fault == faults < MaxFaults /\ faults' = faults + 1

\* A showing begins to be recorded; only Update can tell the client.
BeginRecording ==
  /\ Fault /\ recording = Nothing
  /\ \E e \in scheduled :
       /\ e.status = "will" /\ e.show \notin aired /\ Exists(rules, e.rule)
       /\ recording' = [rule |-> e.rule, show |-> e.show]
  /\ dirty' = TRUE /\ unseen' = unseen \cup {0}
  /\ UNCHANGED <<rules, nextId, before, aired, scheduled, link, mail, upd, copy, del,
                 trigger, shown, overtaken, missed, ops>>

EndRecording ==
  /\ recording # Nothing
  /\ recording' = Nothing /\ aired' = aired \cup {recording.show}
  /\ dirty' = TRUE /\ unseen' = unseen \ {0}
  /\ UNCHANGED <<rules, nextId, before, scheduled, link, mail, upd, copy, del, trigger,
                 shown, overtaken, missed, ops, faults>>

\* Another client deletes a rule with all its modifiers.
OtherDeletes(r) ==
  /\ Fault /\ Exists(rules, r) /\ ~IsModifier(rules, r)
  /\ rules' = [i \in Ids |-> IF i = r \/ i \in Modifiers(rules, r)
                             THEN NoRule ELSE rules[i]]
  /\ IF recording # Nothing /\ ~Exists(rules', recording.rule)
     THEN recording' = Nothing /\ aired' = aired \cup {recording.show}
     ELSE UNCHANGED <<recording, aired>>
  /\ dirty' = TRUE
  /\ unseen' = unseen \cap Left'
  /\ UNCHANGED <<nextId, before, scheduled, link, mail, upd, copy, del, trigger, shown,
                 overtaken, missed, ops>>

\* The event connection is lost, and with it what the backend announces.
Lose ==
  /\ Fault /\ link /\ link' = FALSE
  /\ UNCHANGED <<backendVars, mail, upd, copy, del, trigger, shown, historyVars, ops>>

\* RetryConnect has opened it again: the clients are told that it is CONNECTED.
Restore ==
  /\ ~link /\ link' = TRUE /\ Len(mail["status"]) < MailMax
  /\ Announce("status", "connected")
  /\ UNCHANGED <<backendVars, upd, copy, del, trigger, shown, historyVars, ops, faults>>

-----------------------------------------------------------------------------
(* Update, in either thread.                                               *)

Idle == [pc |-> "idle"]
Free == del.rule = 0

NoCopy == [rules |-> [r \in Ids |-> NoRule],
           overrides |-> [r \in Ids |-> {}], upcoming |-> {}]

\* The modifiers are listed with the rule they name or, if it is unknown, with
\* a rule for the same timeslot, here a single one.
Linked(db) ==
  [r \in Ids |->
     IF ~Exists(db, r) THEN {}
     ELSE {m \in Ids : /\ IsModifier(db, m)
                       /\ IF db[m].parent \in Ids \ {m} /\ Exists(db, db[m].parent)
                          THEN db[m].parent = r
                          ELSE ~IsModifier(db, r) /\ db[r].show = db[m].show}]

CopyOf(db, upcoming) == [rules |-> db, overrides |-> Linked(db), upcoming |-> upcoming]

\* HandleBackendMessage takes a message, and Update asks for the rules ...
FetchRules(t) ==
  /\ upd[t] = Idle /\ mail[t] # <<>>
  /\ mail' = [mail EXCEPT ![t] = Tail(@)]
  /\ \/ /\ upd' = [upd EXCEPT ![t] = [pc |-> "rules", rules |-> rules,
                                      late |-> FALSE, failed |-> FALSE]]
        /\ UNCHANGED faults
     \/ /\ Fault
        /\ upd' = [upd EXCEPT ![t] = [pc |-> "rules", rules |-> NoCopy.rules,
                                      late |-> FALSE, failed |-> TRUE]]
  /\ UNCHANGED <<backendVars, link, copy, del, trigger, shown, historyVars, ops>>

\* ... then for the upcoming recordings: an unanswered query is an empty list.
FetchUpcoming(t) ==
  /\ upd[t].pc = "rules"
  /\ \/ /\ upd' = [upd EXCEPT ![t] =
                     [pc |-> "upcoming", late |-> @.late, failed |-> @.failed,
                      copy |-> CopyOf(@.rules, scheduled)]]
        /\ UNCHANGED faults
     \/ /\ Fault
        /\ upd' = [upd EXCEPT ![t] =
                     [pc |-> "upcoming", late |-> @.late, failed |-> TRUE,
                      copy |-> CopyOf(@.rules, {})]]
  /\ UNCHANGED <<backendVars, link, mail, copy, del, trigger, shown, historyVars, ops>>

Overtake(t) ==
  [u \in Threads |-> IF u # t /\ upd[u].pc \in {"rules", "upcoming"}
                     THEN [upd[u] EXCEPT !.late = TRUE] ELSE upd[u]]

Known(c) == {m \in Ids : \E r \in Ids : m \in c.overrides[r]} \cup
              (IF \E e \in c.upcoming : /\ e.status = "recording"
                                        /\ recording = [rule |-> e.rule, show |-> e.show]
               THEN {0} ELSE {})

\* Under m_lock the copy is replaced by what was fetched.
Swap(t) ==
  /\ upd[t].pc = "upcoming" /\ Free
  /\ copy' = upd[t].copy
  /\ overtaken' = upd[t].late /\ missed' = upd[t].failed
  /\ unseen' = Left \ Known(copy')
  /\ upd' = [Overtake(t) EXCEPT ![t] = [pc |-> "trigger"]]
  /\ shown' = FALSE
  /\ UNCHANGED <<backendVars, link, mail, del, trigger, ops, faults>>

\* Mutant: Kodi is not told that the timers have changed.
UpdateSilently(t) ==
  /\ upd[t].pc = "trigger"
  /\ upd' = [upd EXCEPT ![t] = Idle]
  /\ UNCHANGED <<backendVars, link, mail, copy, del, trigger, shown, historyVars, ops, faults>>

TriggerTimerUpdate(t) ==
  /\ upd[t].pc = "trigger"
  /\ upd' = [upd EXCEPT ![t] = Idle] /\ trigger' = TRUE
  /\ UNCHANGED <<backendVars, link, mail, copy, del, shown, historyVars, ops, faults>>

\* Kodi reads the timers after it was told to.
GetTimers ==
  /\ trigger /\ Free
  /\ trigger' = FALSE /\ shown' = TRUE
  /\ UNCHANGED <<backendVars, link, mail, upd, copy, del, historyVars, ops, faults>>

-----------------------------------------------------------------------------
(* Requests of the operations.  Each may be refused, or carried out by the *)
(* backend without the answer reaching the client.                         *)

Refused == Fault /\ UNCHANGED <<rules, nextId, dirty, copy, shown, unseen>>

\* An operation that sends nothing.
NoRequest == UNCHANGED <<backendVars, copy, del, shown, unseen, faults>>

\* AddRecordSchedule, without anything in the copy to bring up to date.
AddRule(rule) ==
  /\ UNCHANGED <<recording, aired, before, scheduled, del>>
  /\ \/ Refused
     \/ /\ nextId \in Ids
        /\ rules' = [rules EXCEPT ![nextId] = rule] /\ nextId' = nextId + 1
        /\ dirty' = TRUE
        /\ UNCHANGED <<copy, shown, unseen, faults>>

\* Mutant: the number that the backend gives the modifier is not kept.
SyncUnnumbered(r, m) ==
  /\ copy' = [copy EXCEPT !.overrides[r] = @ \cup {0}]
  /\ shown' = FALSE

\* Mutant: the copy has to wait for the next update.
SyncForgotten(r, m) == UNCHANGED <<copy, shown>>

\* The new modifier is added to those of its rule in the copy.
SyncModifier(r, m) ==
  /\ copy' = [copy EXCEPT !.overrides[r] = @ \cup {m}]
  /\ shown' = FALSE

\* The client cannot know of a modifier whose creation it was not told of.
AddModifier(r, type, s) ==
  /\ UNCHANGED <<recording, aired, before, scheduled, del>>
  /\ \/ Refused
     \/ /\ nextId \in Ids
        /\ rules' = [rules EXCEPT ![nextId] = [type |-> type, parent |-> r, show |-> s,
                                               inactive |-> FALSE]]
        /\ nextId' = nextId + 1 /\ dirty' = TRUE
        /\ \/ SyncModifier(r, nextId) /\ UNCHANGED <<unseen, faults>>
           \/ Fault /\ unseen' = unseen \cup {nextId} /\ UNCHANGED <<copy, shown>>

\* UpdateRecordSchedule, and the rule in the copy is replaced.
SetInactive(r, off) ==
  /\ UNCHANGED <<nextId, before, recording, aired, scheduled, del, unseen>>
  /\ \/ Refused
     \/ /\ Exists(rules, r)
        /\ rules' = [rules EXCEPT ![r].inactive = off] /\ dirty' = TRUE
        /\ \/ /\ copy' = [copy EXCEPT !.rules[r].inactive = off] /\ shown' = FALSE
              /\ UNCHANGED faults
           \/ Fault /\ UNCHANGED <<copy, shown>>

\* StopRecording: its answer is ignored.
StopRecording(e) ==
  /\ UNCHANGED <<rules, nextId, before, scheduled, copy, del, shown>>
  /\ \/ /\ recording = [rule |-> e.rule, show |-> e.show]
        /\ recording' = Nothing /\ aired' = aired \cup {e.show} /\ dirty' = TRUE
        /\ unseen' = unseen \ {0} /\ UNCHANGED faults
     \/ /\ recording # [rule |-> e.rule, show |-> e.show]
        /\ UNCHANGED <<recording, aired, dirty, unseen, faults>>
     \/ Fault /\ UNCHANGED <<recording, aired, dirty, unseen>>

-----------------------------------------------------------------------------
(* The operations.                                                         *)

\* DeleteRecordingRule looks up the rule and, in the copy, its modifiers.  A
\* rule that is not found counts as deleted.
DeleteRule(r) ==
  IF Exists(copy.rules, r)
  THEN /\ del' = [rule |-> r, todo |-> copy.overrides[r]]
       /\ UNCHANGED <<backendVars, copy, shown, unseen, faults>>
  ELSE NoRequest

\* It removes the modifiers and then the rule; what the copy knows to be
\* recording for it is stopped first.  Refusals are only logged.
RemoveNext(r) ==
  /\ ~Free
  /\ IF del.todo # {} THEN r \in del.todo /\ del' = [del EXCEPT !.todo = @ \ {r}]
                      ELSE r = del.rule /\ del' = [rule |-> 0, todo |-> {}]
  /\ \E stops, removes \in BOOLEAN :
       LET asked == {e \in copy.upcoming : e.rule = r /\ e.status = "recording"}
           stopped == stops /\ recording \in {[rule |-> r, show |-> e.show] : e \in asked}
       IN /\ asked = {} => stops
          /\ IF stops /\ removes THEN UNCHANGED faults ELSE Fault
          /\ recording' = IF stopped THEN Nothing ELSE recording
          /\ aired' = IF stopped THEN aired \cup {recording.show} ELSE aired
          /\ rules' = IF removes THEN [rules EXCEPT ![r] = NoRule] ELSE rules
          /\ dirty' = (dirty \/ stopped \/ rules' # rules)
          /\ unseen' = (IF stopped THEN unseen \ {0} ELSE unseen)
                         \cup (IF stops THEN {} ELSE {0})
                         \cup (IF removes THEN {} ELSE {r})
  /\ UNCHANGED <<nextId, before, scheduled, link, mail, upd, copy, trigger, shown,
                 overtaken, missed, ops>>

\* DisableRecording, by the type of the rule and the status in the copy.
Disable(e) ==
  IF e.status = "inactive" \/ ~Exists(copy.rules, e.rule) THEN NoRequest
  ELSE LET type == copy.rules[e.rule].type IN
    CASE type \in Modifier -> DeleteRule(e.rule)
      [] type = "single" /\ e.status = "recording" -> DeleteRule(e.rule)
      [] type = "single" /\ e.status = "previous" -> AddModifier(e.rule, "dont", e.show)
      [] type = "single" /\ e.status \notin {"recording", "previous"} ->
           SetInactive(e.rule, TRUE)
      [] type = "series" /\ e.status = "recording" -> StopRecording(e)
      [] type = "series" /\ e.status # "recording" ->
           AddModifier(e.rule, "dont", e.show)

\* UpdateRecording: newrule is inactive or not, and may differ in what the
\* model leaves out.
UpdateRecording(e, off) ==
  IF ~Exists(copy.rules, e.rule) THEN NoRequest
  ELSE LET type == copy.rules[e.rule].type
           inactive == copy.rules[e.rule].inactive IN
    CASE ~inactive /\ off -> Disable(e)
      [] (inactive \/ ~off) /\ type = "dont" -> NoRequest
      [] (inactive \/ ~off) /\ type = "override" -> SetInactive(e.rule, off)
      [] (inactive \/ ~off) /\ type = "single" ->
           CASE e.status = "recording" -> SetInactive(e.rule, inactive)
             [] e.status = "previous" -> AddModifier(e.rule, "override", e.show)
             [] OTHER -> SetInactive(e.rule, off)
      [] (inactive \/ ~off) /\ type = "series" -> AddModifier(e.rule, "override", e.show)

\* FillTimerEntryWithUpcoming: how an upcoming recording is shown to Kodi.
TimerType(e) ==
  IF ~Exists(copy.rules, e.rule) THEN "ZOMBIE"
  ELSE CASE copy.rules[e.rule].type = "single" -> "not shown"
         [] copy.rules[e.rule].type = "dont" -> "DONT_RECORD"
         [] copy.rules[e.rule].type = "override" -> "OVERRIDE"
         [] copy.rules[e.rule].type = "series" ->
              CASE e.status = "previous" -> "UPCOMING_EXPIRED"
                [] e.status = "inactive" -> "RULE_INACTIVE"
                [] OTHER -> "UPCOMING"

\* RuleFromMythTimer gives a rule of these types to UpdateRecording; for the
\* others it looks for a rule with the index of the recording, finds none and
\* gives the unknown type, which is refused.
RuleFromTimer(type) ==
  IF type \in {"UPCOMING", "DONT_RECORD", "OVERRIDE", "ZOMBIE"} THEN "known" ELSE "unknown"

\* UpdateTimer and DeleteTimer for an upcoming recording.
UpdateShowing(e, off) ==
  /\ TimerType(e) # "not shown"
  /\ IF TimerType(e) # "ZOMBIE" /\ RuleFromTimer(TimerType(e)) = "known"
     THEN UpdateRecording(e, off) ELSE NoRequest

DeleteShowing(e) ==
  CASE TimerType(e) \in {"DONT_RECORD", "OVERRIDE"} -> DeleteRule(e.rule)
    [] TimerType(e) \in {"UPCOMING", "UPCOMING_EXPIRED", "RULE_INACTIVE"} -> Disable(e)
    [] TimerType(e) \in {"ZOMBIE", "not shown"} -> NoRequest

\* UpdateTimer for a rule, UpdateRecordingRule.  A single rule is updated by way
\* of its upcoming recording.
UpdateRule(r, off) ==
  IF copy.rules[r].type = "single"
  THEN \/ \E e \in copy.upcoming : e.rule = r /\ UpdateRecording(e, off)
       \/ (\A e \in copy.upcoming : e.rule # r) /\ NoRequest
  ELSE SetInactive(r, off)

\* The rules that GetTimerEntries shows.
ShownRules == {r \in Ids : Exists(copy.rules, r) /\ ~IsModifier(copy.rules, r)}

\* The rules that are not made for another; these name no rule.
MainRules == [type : {"single"}, parent : {0}, show : Showings, inactive : {FALSE}]
               \cup [type : {"series"}, parent : {0}, show : {"all"}, inactive : {FALSE}]

\* Modifiers whose rule is gone; the model has one of the main rules at a time.
Orphans == [type : Modifier, parent : {0}, show : Showings, inactive : {FALSE}]

\* Kodi asks for an operation on a timer of the copy; on one that is gone since
\* nothing happens.
Kodi ==
  /\ Free /\ ops < MaxOps /\ ops' = ops + 1
  /\ \/ \E e \in copy.upcoming : DeleteShowing(e) \/ \E off \in BOOLEAN : UpdateShowing(e, off)
     \/ \E r \in ShownRules : DeleteRule(r) \/ \E off \in BOOLEAN : UpdateRule(r, off)
     \/ /\ \A r \in Ids : Exists(rules, r) => IsModifier(rules, r)
        /\ \E rule \in MainRules : AddRule(rule)
  /\ UNCHANGED <<link, mail, upd, trigger, overtaken, missed>>

-----------------------------------------------------------------------------
Init ==
  /\ \E first \in MainRules \cup Orphans :
       rules = [r \in Ids |-> IF r = 1 THEN first ELSE NoRule]
  /\ nextId = 2 /\ recording = Nothing /\ aired = {} /\ before \in SUBSET Showings
  /\ scheduled = Schedule /\ dirty = FALSE
  /\ link = TRUE
  /\ mail = [t \in Threads |-> <<>>]
  /\ upd = [t \in Threads |-> Idle]
  /\ copy = CopyOf(rules, scheduled)
  /\ del = [rule |-> 0, todo |-> {}]
  /\ trigger = TRUE /\ shown = FALSE
  /\ overtaken = FALSE /\ missed = FALSE /\ unseen = Left \ Known(copy)
  /\ ops = 0 /\ faults = 0

ThreadStep(t) == FetchRules(t) \/ FetchUpcoming(t) \/ Swap(t) \/ TriggerTimerUpdate(t)

Backend == Reschedule \/ BeginRecording \/ EndRecording \/ \E r \in Ids : OtherDeletes(r)

Removing == \E r \in Ids : RemoveNext(r)

Next ==
  \/ Backend \/ Lose \/ Restore
  \/ \E t \in Threads : ThreadStep(t)
  \/ Kodi \/ Removing \/ GetTimers

Fairness ==
  /\ WF_vars(Reschedule)
  /\ \A t \in Threads : WF_vars(ThreadStep(t))
  /\ WF_vars(Removing) /\ WF_vars(GetTimers)

Spec == Init /\ [][Next]_vars /\ Fairness

-----------------------------------------------------------------------------
(* Properties.                                                             *)

CopyType == [rules : [Ids -> {NoRule} \cup Rule], overrides : [Ids -> SUBSET Ids],
             upcoming : SUBSET Entry]

\* Type invariant: the shape of the two copies and of what passes between them.
TypeOK ==
  /\ rules \in [Ids -> {NoRule} \cup Rule] /\ nextId \in 1 .. MaxId + 1
  /\ recording \in {Nothing} \cup [rule : Ids, show : Showings]
  /\ aired \subseteq Showings /\ before \subseteq Showings /\ scheduled \subseteq Entry
  /\ dirty \in BOOLEAN /\ link \in BOOLEAN
  /\ \A t \in Threads : Len(mail[t]) <= MailMax
  /\ \A t \in Threads : upd[t].pc \in {"idle", "rules", "upcoming", "trigger"}
  /\ copy \in CopyType
  /\ del \in [rule : 0 .. MaxId, todo : SUBSET Ids]
  /\ trigger \in BOOLEAN /\ shown \in BOOLEAN
  /\ overtaken \in BOOLEAN /\ missed \in BOOLEAN
  /\ unseen \subseteq 0 .. MaxId
  /\ ops \in 0 .. MaxOps /\ faults \in 0 .. MaxFaults

Drained ==
  /\ link /\ ~dirty /\ Free
  /\ \A t \in Threads : mail[t] = <<>> /\ upd[t].pc \in {"idle", "trigger"}

IsCurrent == copy = CopyOf(rules, scheduled)

\* When every message has been handled, the copy is what the backend has: what
\* was announced while the connection was down is made up for when it is back,
\* and what an operation changed is fetched again.  Exempt are a copy whose
\* queries went unanswered and one that was fetched before the copy it replaced.
CopyCatchesUp == Drained /\ ~missed /\ ~overtaken => IsCurrent

\* The same without the second exemption: "Completion of the scheduling will be
\* signaled by a SCHEDULE_CHANGE event", so once that is handled the timers are
\* those of the backend.
LatestScheduleIsKept == Drained /\ ~missed => IsCurrent

\* Deleting a rule leaves nothing of it behind, neither a modifier nor a
\* recording that goes on, except what the client could not know of: what an
\* unanswered request did, what the last update did not tell it, and what the
\* backend refused to remove.
NothingLeftBehind ==
  [][\A r \in Ids :
       Exists(rules, r) /\ ~IsModifier(rules, r) /\ ~Exists(rules', r) =>
         /\ Modifiers(rules', r) \subseteq unseen'
         /\ recording' # Nothing /\ recording'.rule = r => 0 \in unseen']_vars

\* Kodi gets to see the backend's timers: again and again it has read a copy
\* that is current, unless the connection is down or the copy is exempt.
TimersCatchUp ==
  []<>(~link \/ missed \/ overtaken \/ (shown /\ ~trigger /\ IsCurrent))
=============================================================================
