---------------------------- MODULE LiveTVPlayback ----------------------------
(***************************************************************************)
(* Watching live TV: LiveTVPlayback asks a recorder of the backend for a   *)
(* channel and reads the files the recorder writes, one file per show.     *)
(*                                                                         *)
(* Two threads share the chain of files.  The thread of the subscription   *)
(* adds a file when the backend says that the chain has grown, and learns  *)
(* file sizes; it holds m_mutex while it does.  The player tunes, reads    *)
(* and closes, and Read looks at the chain without the mutex.              *)
(*                                                                         *)
(* The recorder belongs to the backend: it writes, moves to the next file  *)
(* and sends its messages when it likes, as the code allows for.  A file   *)
(* stands for its transfer, its program and its name; a session is one     *)
(* chain UID with its recorder object (another tuner has the same number). *)
(*                                                                         *)
(* Bounds: MaxSessions attempts to tune, MaxFiles files of at most MaxSize *)
(* blocks, MailMax messages waiting.                                       *)
(***************************************************************************)
EXTENDS Integers, Sequences

CONSTANTS MaxSessions, MaxFiles, MaxSize, MailMax

ASSUME BoundAssumption ==
  {MaxSessions, MaxFiles, MaxSize, MailMax} \subseteq Nat \ {0}

Files == 1..MaxFiles
None  == 0                 \* no file, no session

VARIABLES
  recording, \* the file the recorder is writing
  written,   \* written[f]: its blocks at the backend
  lastFile,  \* files begun so far, of any session
  mail,      \* messages for the subscription, oldest first
  session,   \* m_chain.UID, and m_recorder with it
  base,      \* history: lastFile when the session began
  playing,   \* m_playing of m_recorder
  chained,   \* m_chain.chained
  lastSeq,   \* m_chain.lastSequence
  curSeq,    \* m_chain.currentSequence
  curFile,   \* m_chain.currentTransfer
  watch,     \* m_chain.watch
  switchOnCreate, \* m_chain.switchOnCreate
  opened,    \* the transfers that are open
  known,     \* known[f]: m_fileSize of its transfer
  pos,       \* pos[f]: m_filePosition of its transfer, -1 after a refused seek
  handler,   \* where the thread of the subscription is
  done,      \* history: files whose DONE_RECORDING has been handled
  player,    \* where the player is
  fp         \* fp of Read

backendVars  == <<recording, written, lastFile>>
sessionVars  == <<session, base>>
chainVars    == <<chained, lastSeq, curSeq, curFile, watch, switchOnCreate>>
transferVars == <<opened, known, pos>>
handlerVars  == <<handler, done>>
playerVars   == <<player, fp>>
vars == <<backendVars, mail, sessionVars, playing, chainVars, transferVars,
          handlerVars, playerVars>>

-----------------------------------------------------------------------------
(* The backend: the recorder of the present session and its messages.      *)

Message(kind, file) ==
  [kind |-> kind, session |-> session, file |-> file,
   size |-> IF kind = "SIZE" THEN written[file] ELSE 0]

Backend == UNCHANGED <<sessionVars, playing, chainVars, transferVars,
                       handlerVars, playerVars>>

Send(kind, f) == /\ player # "closed" /\ Len(mail) < MailMax
                 /\ mail' = Append(mail, Message(kind, f))
                 /\ UNCHANGED <<written>>
                 /\ Backend

\* The first file of the session, or the next show.
RecordNext == /\ playing /\ lastFile < MaxFiles
              /\ lastFile' = lastFile + 1 /\ recording' = lastFile + 1
              /\ Send("CHAIN", lastFile + 1)

Write == /\ recording # None /\ written[recording] < MaxSize
         /\ written' = [written EXCEPT ![recording] = @ + 1]
         /\ UNCHANGED <<recording, lastFile, mail>>
         /\ Backend

Notify == /\ \/ recording # None /\ Send("SIZE", recording)
             \/ recording # None /\ Send("WATCH", recording)
             \/ \E f \in (base + 1)..lastFile :
                  f # recording /\ f \notin done /\ Send("DONE", f)
          /\ UNCHANGED <<recording, lastFile>>

BackendStep == RecordNext \/ Write \/ Notify

-----------------------------------------------------------------------------
(* The chain, with m_mutex held.                                           *)

\* The thread of the subscription holds m_mutex between two of its steps only
\* while it replaces the end of the chain.
Free == handler.at # "push"

\* Mutant: the files of the previous channel stay in the chain.
ClearKeepsFiles(armed) == /\ UNCHANGED <<chained, lastSeq, transferVars>>
                          /\ curSeq' = 0 /\ curFile' = None
                          /\ watch' = armed /\ switchOnCreate' = armed

\* ClearChain; InitChain also arms the switch to the first file.  The transfers
\* end with the chain: one that is made later for the same file starts afresh.
Clear(armed) == /\ chained' = <<>> /\ lastSeq' = 0
                /\ curSeq' = 0 /\ curFile' = None
                /\ watch' = armed /\ switchOnCreate' = armed
                /\ opened' = {}
                /\ known' = [f \in Files |-> 0] /\ pos' = [f \in Files |-> 0]

IsChained(f) == \E i \in 1..Len(chained) : chained[i] = f

\* SwitchChain succeeds when the file is in the chain and open, or opens.
CanSwitch(seq, opens) == /\ seq \in 1..lastSeq
                         /\ chained[seq] \in opened \/ opens

\* Opening a transfer rewinds it and asks the backend for the size; one that
\* is open keeps both, size and position at.
SwitchChain(seq, size, at) ==
  LET f == chained[seq]
  IN  /\ curSeq' = seq /\ curFile' = f
      /\ opened' = opened \cup {f}
      /\ known' = [known EXCEPT ![f] = IF f \in opened THEN size ELSE written[f]]
      /\ pos' = [pos EXCEPT ![f] = IF f \in opened THEN at ELSE 0]

\* An Open that fails: it does not connect, or the announcement that has reset
\* the size is refused.
OpenFails(f, size) == /\ \E s \in {size, 0} : known' = [known EXCEPT ![f] = s]
                      /\ UNCHANGED <<curSeq, curFile, opened, pos>>

\* TransferSeek, where it may leave a transfer: at the place asked for, where
\* it was (no answer) or nowhere (the backend refuses).
Sought(f, at) == IF at = pos[f] THEN {at} ELSE {at, pos[f], -1}

-----------------------------------------------------------------------------
(* The thread of the subscription: HandleBackendMessage.                   *)

Idle == [at |-> "idle", kind |-> "none", file |-> None, size |-> 0]

Handler(from, kinds, to) ==
  /\ handler.at = from /\ handler.kind \in kinds
  /\ handler' = IF to = "idle" THEN Idle ELSE [handler EXCEPT !.at = to]
  /\ UNCHANGED <<backendVars, sessionVars, playing, playerVars>>

\* The filters of HandleBackendMessage: no recorder plays, or the message is
\* about another chain.  The size in the message travels in known.
Wanted(m) == playing /\ (m.kind = "CHAIN" => m.session = session)

Take == /\ handler.at = "idle" /\ mail # <<>>
        /\ mail' = Tail(mail)
        /\ handler' = IF Wanted(Head(mail))
                      THEN [at |-> "begin", kind |-> Head(mail).kind,
                            file |-> Head(mail).file, size |-> Head(mail).size]
                      ELSE Idle
        /\ UNCHANGED <<backendVars, sessionVars, playing, playerVars, done,
                       chainVars, transferVars>>

\* LIVETV_WATCH.
HandleWatch == /\ Handler("begin", {"WATCH"}, "idle")
               /\ watch' = TRUE
               /\ UNCHANGED <<mail, chained, lastSeq, curSeq, curFile,
                              switchOnCreate, transferVars, done>>

\* DONE_RECORDING: outside a program break there is nothing more to do.
HandleDone == /\ Handler("begin", {"DONE"}, IF watch THEN "first" ELSE "idle")
              /\ done' = done \cup {handler.file}
              /\ UNCHANGED <<mail, chainVars, transferVars>>

\* The update was forced for two seconds, or it put the watch down.
ForcedEnd == /\ Handler("forced", {"DONE"}, "idle")
             /\ UNCHANGED <<mail, chainVars, transferVars, done>>

\* UPDATE_FILE_SIZE: is it about the end of the chain, and is it news?
SizeIsNews == /\ lastSeq > 0
              /\ chained[lastSeq] = handler.file
              /\ known[handler.file] < handler.size

SizeIgnored == /\ ~SizeIsNews
               /\ Handler("begin", {"SIZE"}, "idle")
               /\ UNCHANGED <<mail, chainVars, transferVars, done>>

SizeLearnt == /\ SizeIsNews /\ ~switchOnCreate
              /\ Handler("begin", {"SIZE"}, "idle")
              /\ known' = [known EXCEPT ![handler.file] = handler.size]
              /\ UNCHANGED <<mail, chainVars, opened, pos, done>>

\* Mutant: the wait for the first file ends although it cannot be opened.
SizeSwitchesBlindly(opens) ==
  /\ SizeIsNews /\ switchOnCreate
  /\ Handler("begin", {"SIZE"}, "idle")
  /\ known' = [known EXCEPT ![handler.file] = handler.size]
  /\ switchOnCreate' = FALSE
  /\ UNCHANGED <<mail, chained, lastSeq, curSeq, curFile, watch, opened, pos, done>>

\* SwitchChainLast.  A file that was never read needs no seek to be rewound.
SizeSwitches(opens) ==
  /\ SizeIsNews /\ switchOnCreate
  /\ Handler("begin", {"SIZE"}, "idle")
  /\ IF CanSwitch(lastSeq, opens)
     THEN /\ SwitchChain(lastSeq, handler.size, 0)
          /\ switchOnCreate' = FALSE
     ELSE OpenFails(handler.file, handler.size) /\ UNCHANGED <<switchOnCreate>>
  /\ UNCHANGED <<mail, chained, lastSeq, watch, done>>

HandleSize == \/ SizeIgnored \/ SizeLearnt
              \/ \E opens \in BOOLEAN : SizeSwitches(opens)

\* HandleChainUpdate, for LIVETV_CHAIN UPDATE and while an update is forced.
\* The recorder is asked what it is recording; the answer may fail.  The first
\* update that is forced comes half a second after watch has been looked at.
Updating == \/ handler.at = "begin" /\ handler.kind = "CHAIN"
            \/ handler.at = "first"
            \/ handler.at = "forced" /\ watch

After == IF handler.kind = "DONE" THEN "forced" ELSE "idle"

\* Mutant: a file that is in the chain already is added again.
NewFileAlways(f) == f # None
NewFile(f) == f # None /\ ~IsChained(f)

NoNewFile == /\ Updating
             /\ Handler(handler.at, {"CHAIN", "DONE"}, After)
             /\ UNCHANGED <<mail, chainVars, transferVars, done>>

\* A previous dummy file, of size 0 as far as is known, is popped.
Dummy == lastSeq > 0 /\ known[chained[lastSeq]] = 0

Pop == /\ Updating /\ NewFile(recording)
       /\ handler' = [handler EXCEPT !.at = "push", !.file = recording]
       /\ lastSeq' = IF Dummy THEN lastSeq - 1 ELSE lastSeq
       /\ chained' = IF Dummy THEN SubSeq(chained, 1, lastSeq - 1) ELSE chained
       /\ UNCHANGED <<backendVars, mail, sessionVars, playing, playerVars, curSeq,
                      curFile, watch, switchOnCreate, transferVars, done>>

\* Mutant: lastSequence is not set after the file was added.
PushForgetsLast == /\ Handler("push", {"CHAIN", "DONE"}, After)
                   /\ chained' = Append(chained, handler.file)
                   /\ watch' = FALSE
                   /\ UNCHANGED <<mail, lastSeq, curSeq, curFile, switchOnCreate,
                                  transferVars, done>>

\* The size of the new transfer is 0 until it is opened, so the switch that
\* would follow at once never happens.
Push == /\ Handler("push", {"CHAIN", "DONE"}, After)
        /\ chained' = Append(chained, handler.file)
        /\ lastSeq' = Len(chained) + 1
        /\ watch' = FALSE
        /\ UNCHANGED <<mail, curSeq, curFile, switchOnCreate, transferVars, done>>

HandlerStep == \/ Take \/ HandleWatch \/ HandleDone \/ ForcedEnd \/ HandleSize
               \/ NoNewFile \/ Pop \/ Push

-----------------------------------------------------------------------------
(* The player: tuning, reading, seeking and closing, one at a time.        *)

Player(from, to) == /\ player = from /\ player' = to
                    /\ UNCHANGED <<backendVars, handlerVars>>

\* SpawnLiveTV tries a recorder: from closed, after another channel has been
\* stopped, or for the next preferred card.  Its subscription is made with it.
Spawn(from) ==
  /\ from \in {"closed", "stopped", "failed"} /\ player = from
  /\ Free /\ session < MaxSessions
  /\ session' = session + 1 /\ base' = lastFile
  /\ recording' = None
  /\ \/ player' = "tuning" /\ playing' = TRUE /\ Clear(TRUE)
     \/ player' = "failed" /\ playing' = FALSE /\ Clear(FALSE)
  /\ UNCHANGED <<written, lastFile, mail, handlerVars, fp>>

Tuned == /\ Player("tuning", "playing")
         /\ Free /\ ~switchOnCreate
         /\ UNCHANGED <<mail, sessionVars, playing, chainVars, transferVars, fp>>

\* Mutant: tuning has no time limit.
TuneForever == FALSE /\ UNCHANGED vars

\* The tune delay is exceeded; telling the recorder to stop may fail.
TuneTimeout == /\ Player("tuning", "failed")
               /\ Free /\ switchOnCreate
               /\ playing' \in {TRUE, FALSE}
               /\ Clear(FALSE)
               /\ UNCHANGED <<mail, sessionVars, fp>>

\* SwitchChannel: StopLiveTV, then SpawnLiveTV.
Stop == /\ Player("playing", "stopped")
        /\ Free /\ playing' = FALSE
        /\ UNCHANGED <<mail, sessionVars, chainVars, transferVars, fp>>

\* The destructor revokes the subscription, which waits for its thread.
Close == /\ player \in {"playing", "stopped", "failed"} /\ player' = "closed"
         /\ handler.at = "idle"
         /\ mail' = <<>> /\ playing' = FALSE /\ recording' = None
         /\ Clear(FALSE)
         /\ UNCHANGED <<written, lastFile, sessionVars, handlerVars, fp>>

\* Read, from its first lines to its return, without m_mutex.
Reading(from, to) == Player(from, to) /\ UNCHANGED <<mail, sessionVars, playing,
                                                     chained, lastSeq, watch,
                                                     switchOnCreate>>

ReadBegin == /\ curFile # None
             /\ Reading("playing", "remaining")
             /\ fp' = pos[curFile]
             /\ UNCHANGED <<curSeq, curFile, transferVars>>

\* fp is a local variable: it ends when Read returns.
Loop(from, to) == Reading(from, to) /\ fp' = IF to = "playing" THEN 0 ELSE fp

ReadRemaining ==
  /\ Loop("remaining", CASE known[curFile] > pos[curFile] -> "request"
                            [] known[curFile] = pos[curFile] -> "compare"
                            [] known[curFile] < pos[curFile] -> "playing")
  /\ UNCHANGED <<curSeq, curFile, transferVars>>

ReadCompare ==
  /\ Loop("compare", IF curSeq = lastSeq THEN "position" ELSE "switch")
  /\ UNCHANGED <<curSeq, curFile, transferVars>>

\* GetFilePosition: where the recorder is in the file it records now.
RecorderPosition == IF recording = None THEN 0 ELSE written[recording]

ReadPosition == /\ playing /\ RecorderPosition > fp
                /\ Loop("position", "remaining")
                /\ known' = [known EXCEPT ![curFile] = RecorderPosition]
                /\ UNCHANGED <<curSeq, curFile, opened, pos>>

\* The position of the recorder may also be unknown, when the query fails.
ReadWait == /\ Loop("position", "compare")
            /\ UNCHANGED <<curSeq, curFile, transferVars>>

\* Mutant: Read waits for the recorder without a time limit.
ReadForever == FALSE /\ UNCHANGED vars

\* AHEAD_TIMEOUT has passed, the recorder not being beyond fp or the query
\* having failed.
ReadAhead == /\ Loop("position", "playing")
             /\ UNCHANGED <<curSeq, curFile, transferVars>>

\* A file seen before is rewound; whether that succeeds nobody looks at.
ReadSwitch ==
  /\ Free
  /\ LET next == curSeq + 1
         f    == chained[next]
     IN  \/ \E opens \in BOOLEAN :
              /\ CanSwitch(next, opens)
              /\ Loop("switch", "remaining")
              /\ \E at \in Sought(f, 0) : SwitchChain(next, known[f], at)
         \/ /\ next \in 1..lastSeq /\ f \notin opened
            /\ Loop("switch", "playing")
            /\ OpenFails(f, known[f])
         \/ /\ next \notin 1..lastSeq
            /\ Loop("switch", "playing")
            /\ UNCHANGED <<curSeq, curFile, transferVars>>

\* TransferRequestBlock gives at most what the file holds, or fails.
ReadRequest ==
  /\ Loop("request", "playing")
  /\ \E n \in 0..(known[curFile] - pos[curFile]) :
       /\ n > 0 => n <= written[curFile] /\ pos[curFile] + n <= written[curFile]
       /\ pos' = [pos EXCEPT ![curFile] = @ + n]
  /\ UNCHANGED <<curSeq, curFile, opened, known>>

\* Seek to the absolute position p, with m_mutex.
Start[i \in 1..Len(chained)] == IF i = 1 THEN 0
                            ELSE Start[i - 1] + known[chained[i - 1]]
Position == Start[curSeq] + pos[curFile]

\* Nothing, unless the current transfer has been popped from the chain.
Drift == pos[curFile] - pos[chained[curSeq]]

\* The file to seek in: forward the first that reaches q, backward the last
\* that begins at q or before.
Reaches(q, i) == Start[i] + known[chained[i]] >= q
Ahead(q)  == {i \in curSeq..lastSeq : /\ Reaches(q, i)
                                      /\ \A j \in curSeq..(i - 1) : ~Reaches(q, j)}
Behind(q) == {i \in 1..curSeq : /\ Start[i] <= q
                                /\ \A j \in (i + 1)..curSeq : Start[j] > q}

\* A seek to where the file is already sends nothing; any other needs an open
\* transfer and a place in it.  SwitchChain follows the one that succeeds.
SeekIn(i, at) ==
  LET f == chained[i]
  IN  \/ \E opens \in BOOLEAN :
           /\ at = pos[f] \/ (f \in opened /\ at \in 0..known[f])
           /\ CanSwitch(i, opens)
           /\ SwitchChain(i, known[f], at)
      \/ /\ at = pos[f] /\ f \notin opened
         /\ OpenFails(f, known[f])
      \/ /\ at # pos[f] /\ f \in opened /\ at \in 0..known[f]
         /\ \E p \in Sought(f, at) \ {at} : pos' = [pos EXCEPT ![f] = p]
         /\ UNCHANGED <<curSeq, curFile, opened, known>>

Seek(p) ==
  /\ Free /\ curSeq # 0 /\ p # Position
  /\ Reading("playing", "playing")
  /\ LET q == p - Drift
     IN  \E i \in IF p > Position THEN Ahead(q) ELSE Behind(q) : SeekIn(i, q - Start[i])
  /\ UNCHANGED <<fp>>

Total == IF chained = <<>> THEN 0 ELSE Start[Len(chained)] + known[chained[Len(chained)]]

\* The loops of Read.
ReadLoop == \/ ReadRemaining \/ ReadCompare \/ ReadPosition \/ ReadWait
            \/ ReadAhead \/ ReadSwitch

ReadStep == ReadBegin \/ ReadLoop \/ ReadRequest

\* Bound of the model: no session and no file is left.
Terminated == /\ player = "closed" /\ session = MaxSessions
              /\ UNCHANGED vars

PlayerStep == \/ \E from \in {"closed", "stopped", "failed"} : Spawn(from)
              \/ Tuned \/ TuneTimeout \/ Stop \/ Close
              \/ \E p \in 0..Total : Seek(p)

Init == /\ recording = None /\ lastFile = 0 /\ written = [f \in Files |-> 0]
        /\ mail = <<>>
        /\ session = None /\ base = 0 /\ playing = FALSE
        /\ chained = <<>> /\ lastSeq = 0 /\ curSeq = 0 /\ curFile = None
        /\ watch = FALSE /\ switchOnCreate = FALSE
        /\ opened = {}
        /\ known = [f \in Files |-> 0] /\ pos = [f \in Files |-> 0]
        /\ handler = Idle /\ done = {}
        /\ player = "closed" /\ fp = 0

Next == BackendStep \/ HandlerStep \/ PlayerStep \/ ReadStep \/ Terminated

Safe == Init /\ [][Next]_vars

\* Both threads progress.  The player gets m_mutex although the other thread
\* takes it again and again, since that one sleeps without it; and Read does
\* not wait for ever: it gives up when the recorder has nothing new.  Nothing
\* makes a requested block come: see FileTransfer.
Spec == /\ Safe
        /\ WF_vars(HandlerStep) /\ WF_vars(ReadLoop)
        /\ SF_vars(Tuned \/ TuneTimeout \/ ReadSwitch)
        /\ SF_vars(ReadAhead \/ ReadPosition)

-----------------------------------------------------------------------------
(* Properties.                                                             *)

InRead == player \in {"remaining", "compare", "position", "switch", "request"}
Watching == player = "playing" \/ InRead

\* Type invariant.
TypeOK ==
  /\ recording \in Files \cup {None} /\ lastFile \in Files \cup {0}
  /\ written \in [Files -> 0..MaxSize]
  /\ Len(mail) <= MailMax
  /\ session \in 0..MaxSessions /\ base \in 0..lastFile
  /\ {playing, watch, switchOnCreate} \subseteq BOOLEAN
  /\ chained \in Seq(Files) /\ lastSeq \in 0..MaxFiles /\ curSeq \in 0..MaxFiles
  /\ curFile \in Files \cup {None} /\ opened \subseteq Files
  /\ known \in [Files -> 0..MaxSize] /\ pos \in [Files -> -1..MaxSize]
  /\ handler.at \in {"idle", "begin", "first", "forced", "push"} /\ done \subseteq Files
  /\ player \in {"closed", "tuning", "playing", "stopped", "failed"} \/ InRead
  /\ fp \in -1..MaxSize

\* Whenever m_mutex is free the sequence numbers fit the chain, so no index
\* is out of bounds, and there is a transfer to read exactly when a file has
\* been switched to.
ChainIsIndexed ==
  Free => /\ lastSeq = Len(chained)
          /\ curSeq <= lastSeq
          /\ curSeq = 0 <=> curFile = None

\* The chain lists files of the channel being watched, each once, in the
\* order in which they are recorded, whatever messages of the previous
\* channel arrive late.
ChainIsHistory ==
  /\ \A i \in 1..Len(chained) : chained[i] > base /\ chained[i] <= lastFile
  /\ \A i, j \in 1..Len(chained) : i < j => chained[i] < chained[j]

\* When SpawnLiveTV has succeeded the stream can be read: it has a current
\* transfer, that transfer is open and the wait for a first file is over.
TunedIsReadable ==
  Watching => curFile # None /\ curFile \in opened /\ ~switchOnCreate

\* Tuning ends, successfully or not.
TuningEnds == player = "tuning" ~> player # "tuning"

\* Read retries without a pause and without a limit: it has switched to a file
\* whose rewinding was lost, the recorder is beyond fp, a position in the file
\* before, and what it gives as the size is where this file is already.
Spinning == InRead /\ fp < pos[curFile] /\ RecorderPosition = pos[curFile]

\* Read's own loops end, even when the recorder writes nothing any more and
\* whatever happens to the chain meanwhile: a Read that does not return waits
\* for a block it has requested, or spins.
ReadReturns == []<>(~InRead) \/ <>[](player = "request") \/ <>[]Spinning
=============================================================================
