------------------------ MODULE LiveTVPlaybackProofs ------------------------
(***************************************************************************)
(* For every number of sessions, of files and of blocks: the types of      *)
(* LiveTVPlayback, that its chain is indexed within its bounds and is the  *)
(* history of what the recorder has recorded, and that a tuned stream can  *)
(* be read.                                                                *)
(***************************************************************************)
EXTENDS LiveTVPlayback, SequenceTheorems, TLAPS

Messages == [kind : {"CHAIN", "SIZE", "WATCH", "DONE"}, session : 0..MaxSessions,
             file : Files, size : 0..MaxSize]

Flags == playing \in BOOLEAN /\ watch \in BOOLEAN /\ switchOnCreate \in BOOLEAN

\* The recorder records the last file begun, which belongs to the session.
BackendInv ==
  /\ recording \in Files \cup {None} /\ lastFile \in 0..MaxFiles
  /\ written \in [Files -> 0..MaxSize]
  /\ session \in 0..MaxSessions /\ base \in 0..lastFile
  /\ recording # None => recording = lastFile /\ recording > base

MailInv == mail \in Seq(Messages) /\ Len(mail) <= MailMax

HandlerInv ==
  /\ handler \in [at : {"idle", "begin", "first", "forced", "push"},
                  kind : {"none", "CHAIN", "SIZE", "WATCH", "DONE"},
                  file : Files \cup {None}, size : 0..MaxSize]
  /\ handler.at # "idle" => handler.file \in Files
  /\ done \subseteq Files

\* The end of the chain is missing while it is replaced, and the reader may
\* be at it.
ChainInv ==
  /\ chained \in Seq(Files) /\ lastSeq = Len(chained)
  /\ curSeq \in Nat /\ curSeq <= (IF Free THEN lastSeq ELSE lastSeq + 1)
  /\ curFile \in Files \cup {None}
  /\ curSeq = 0 <=> curFile = None

\* Files of the session only, in the order in which they were recorded; the
\* one to be added comes after them.
HistoryInv ==
  /\ \A i \in 1..Len(chained) : chained[i] >= base + i /\ chained[i] <= lastFile
  /\ \A i, j \in 1..Len(chained) : i < j => chained[i] < chained[j]
  /\ ~Free => /\ handler.file > base + Len(chained) /\ handler.file <= lastFile
              /\ \A i \in 1..Len(chained) : chained[i] < handler.file

TransferInv ==
  /\ opened \subseteq Files
  /\ known \in [Files -> 0..MaxSize] /\ pos \in [Files -> -1..MaxSize]
  /\ fp \in -1..MaxSize

\* The wait for a first file is over when there is one to read.
ReadInv ==
  /\ player \in {"closed", "tuning", "playing", "stopped", "failed"} \/ InRead
  /\ player = "tuning" \/ Watching => switchOnCreate \/ (curFile # None /\ curFile \in opened)
  /\ Watching => ~switchOnCreate

IInv == Flags /\ BackendInv /\ MailInv /\ HandlerInv /\ ChainInv /\ HistoryInv
              /\ TransferInv /\ ReadInv

-----------------------------------------------------------------------------
(* What each thread leaves alone.                                          *)

LEMMA BackendFrame ==
  BackendStep => UNCHANGED <<sessionVars, playing, chainVars, transferVars,
                             handlerVars, playerVars>>
BY DEF BackendStep, RecordNext, Write, Notify, Send, Backend

LEMMA HandlerFrame ==
  HandlerStep => UNCHANGED <<backendVars, sessionVars, playing, playerVars>>
BY DEF HandlerStep, Take, HandleWatch, HandleDone, ForcedEnd, HandleSize, SizeIgnored,
       SizeLearnt, SizeSwitches, NoNewFile, Pop, Push, Handler

LEMMA ReadFrame ==
  ReadStep => UNCHANGED <<backendVars, handlerVars, mail, sessionVars, playing,
                          chained, lastSeq, watch, switchOnCreate>>
<1> USE DEF Loop
<1>1. ReadSwitch => UNCHANGED <<backendVars, handlerVars, mail, sessionVars, playing,
                                chained, lastSeq, watch, switchOnCreate>>
  BY DEF ReadSwitch, Reading, Player
<1> QED BY <1>1 DEF ReadStep, ReadLoop, ReadBegin, ReadRemaining, ReadCompare, ReadPosition, ReadWait,
                    ReadAhead, ReadRequest, Reading, Player

LEMMA SeekFrame ==
  ASSUME NEW p, Seek(p)
  PROVE  UNCHANGED <<backendVars, handlerVars, mail, sessionVars, playing, chained,
                     lastSeq, watch, switchOnCreate, fp>>
BY DEF Seek, Reading, Player

LEMMA PlayerFrame == PlayerStep => UNCHANGED <<written, lastFile, handlerVars, fp>>
<1>1. ASSUME NEW from PROVE Spawn(from) => UNCHANGED <<written, lastFile, handlerVars, fp>>
  BY DEF Spawn
<1> QED BY <1>1, SeekFrame DEF PlayerStep, Tuned, TuneTimeout, Stop, Close, Player, backendVars,
                               playerVars

-----------------------------------------------------------------------------
(* The backend and the messages.                                           *)

LEMMA InitOK == Init => IInv
<1> SUFFICES ASSUME Init PROVE IInv
  OBVIOUS
<1>1. Flags
  BY Zenon DEF Init, Flags
<1>2. BackendInv /\ MailInv /\ HandlerInv /\ TransferInv
  BY BoundAssumption, EmptySeq DEF Init, BackendInv, MailInv, HandlerInv, TransferInv, Idle,
     None, Files
<1>3. chained = <<>> /\ Len(chained) = 0 /\ chained \in Seq(Files) /\ Free
  BY EmptySeq DEF Init, Idle, Free
<1>4. ChainInv /\ HistoryInv
  BY <1>3 DEF Init, ChainInv, HistoryInv, None
<1>5. ReadInv
  BY DEF Init, ReadInv, Watching, InRead
<1> QED BY <1>1, <1>2, <1>4, <1>5 DEF IInv

LEMMA FlagStep == Flags /\ [Next]_vars => Flags'
<1> USE DEF Flags, sessionVars, chainVars
<1> SUFFICES ASSUME Flags, [Next]_vars PROVE Flags'
  OBVIOUS
<1>1. CASE BackendStep
  BY <1>1, BackendFrame, Zenon
<1>2. CASE HandlerStep
  <2>1. playing' = playing
    BY <1>2, HandlerFrame
  <2>2. CASE Take \/ HandleWatch \/ HandleDone \/ ForcedEnd \/ NoNewFile \/ Pop \/ Push
    BY <2>1, <2>2, Zenon DEF Take, HandleWatch, HandleDone, ForcedEnd, NoNewFile, Pop, Push
  <2>3. CASE HandleSize
    BY <2>1, <2>3, Zenon DEF HandleSize, SizeIgnored, SizeLearnt, SizeSwitches
  <2> QED BY <1>2, <2>2, <2>3 DEF HandlerStep
<1>3. CASE PlayerStep
  <2>1. ASSUME NEW from, Spawn(from) PROVE Flags'
    BY <2>1, Zenon DEF Spawn, Clear
  <2>2. ASSUME NEW p, Seek(p) PROVE Flags'
    BY <2>2, SeekFrame, Zenon
  <2>3. CASE Tuned \/ TuneTimeout \/ Stop \/ Close
    BY <2>3, Zenon DEF Tuned, TuneTimeout, Stop, Close, Clear
  <2> QED BY <1>3, <2>1, <2>2, <2>3 DEF PlayerStep
<1>4. CASE ReadStep
  BY <1>4, ReadFrame, Zenon
<1>5. CASE Terminated \/ UNCHANGED vars
  BY <1>5, Zenon DEF Terminated, vars
<1> QED BY <1>1, <1>2, <1>3, <1>4, <1>5 DEF Next

LEMMA BackendStays ==
  BackendInv /\ UNCHANGED <<backendVars, sessionVars>> => BackendInv'
BY DEF BackendInv, backendVars, sessionVars

LEMMA BackendInvStep == BackendInv /\ [Next]_vars => BackendInv'
<1> SUFFICES ASSUME BackendInv, [Next]_vars PROVE BackendInv'
  OBVIOUS
<1>1. CASE RecordNext
  BY <1>1, BoundAssumption DEF RecordNext, Send, Backend, BackendInv, Files, None, sessionVars
<1>2. CASE Write
  BY <1>2, BoundAssumption DEF Write, Backend, BackendInv, Files, None, sessionVars
<1>3. CASE Notify
  BY <1>3, BackendStays DEF Notify, Send, Backend, backendVars
<1>4. CASE HandlerStep
  BY <1>4, BackendStays, HandlerFrame
<1>5. CASE PlayerStep
  <2>1. ASSUME NEW from, Spawn(from) PROVE BackendInv'
    BY <2>1, BoundAssumption DEF Spawn, BackendInv, None, Files
  <2>2. ASSUME NEW p, Seek(p) PROVE BackendInv'
    BY <2>2, SeekFrame, BackendStays
  <2>3. CASE Tuned \/ TuneTimeout \/ Stop
    BY <2>3, BackendStays DEF Tuned, TuneTimeout, Stop, Player
  <2>4. CASE Close
    BY <2>4 DEF Close, BackendInv, None, sessionVars
  <2> QED BY <1>5, <2>1, <2>2, <2>3, <2>4 DEF PlayerStep
<1>6. CASE ReadStep
  BY <1>6, BackendStays, ReadFrame
<1>7. CASE Terminated \/ UNCHANGED vars
  BY <1>7, BackendStays DEF Terminated, vars
<1> QED BY <1>1, <1>2, <1>3, <1>4, <1>5, <1>6, <1>7 DEF Next, BackendStep

LEMMA MailStep == BackendInv /\ MailInv /\ [Next]_vars => MailInv'
<1> SUFFICES ASSUME BackendInv, MailInv, [Next]_vars PROVE MailInv'
  OBVIOUS
<1>k. mail' = mail => MailInv'
  BY DEF MailInv
<1>1. ASSUME NEW kind \in {"CHAIN", "SIZE", "WATCH", "DONE"}, NEW f \in Files, Send(kind, f)
      PROVE  MailInv'
  <2>1. Message(kind, f) \in Messages
    BY BoundAssumption DEF Message, Messages, BackendInv
  <2>2. /\ mail' = Append(mail, Message(kind, f)) /\ Len(mail) < MailMax
        /\ mail \in Seq(Messages)
    BY <1>1 DEF Send, MailInv
  <2>3. mail' \in Seq(Messages) /\ Len(mail') = Len(mail) + 1 /\ Len(mail) \in Nat
    BY <2>1, <2>2, AppendProperties, LenProperties
  <2> QED BY <2>2, <2>3, BoundAssumption DEF MailInv
<1>2. CASE RecordNext
  <2>1. lastFile + 1 \in Files
    BY <1>2, BoundAssumption DEF RecordNext, BackendInv, Files
  <2> QED BY <1>1, <1>2, <2>1 DEF RecordNext
<1>3. CASE Write
  BY <1>3, <1>k DEF Write
<1>4. CASE Notify
  <2>1. \A f \in (base + 1)..lastFile : f \in Files
    BY BoundAssumption DEF BackendInv, Files
  <2> QED BY <1>1, <1>4, <2>1 DEF Notify, BackendInv
<1>5. CASE Take
  <2>1. mail # <<>> /\ mail' = Tail(mail) /\ mail \in Seq(Messages)
    BY <1>5 DEF Take, MailInv
  <2>2. mail' \in Seq(Messages) /\ Len(mail') = Len(mail) - 1 /\ Len(mail) \in Nat
    BY <2>1, HeadTailProperties, LenProperties
  <2> QED BY <2>2, BoundAssumption DEF MailInv
<1>6. CASE HandlerStep /\ ~Take
  BY <1>6, <1>k DEF HandlerStep, HandleWatch, HandleDone, ForcedEnd, HandleSize, SizeIgnored,
                    SizeLearnt, SizeSwitches, NoNewFile, Pop, Push
<1>7. CASE PlayerStep
  <2>1. ASSUME NEW from, Spawn(from) PROVE MailInv'
    BY <1>k, <2>1 DEF Spawn
  <2>2. ASSUME NEW p, Seek(p) PROVE MailInv'
    BY <1>k, <2>2, SeekFrame
  <2>3. CASE Tuned \/ TuneTimeout \/ Stop
    BY <1>k, <2>3 DEF Tuned, TuneTimeout, Stop
  <2>4. CASE Close
    BY <2>4, EmptySeq, BoundAssumption DEF Close, MailInv
  <2> QED BY <1>7, <2>1, <2>2, <2>3, <2>4 DEF PlayerStep
<1>8. CASE ReadStep
  BY <1>8, <1>k, ReadFrame
<1>9. CASE Terminated \/ UNCHANGED vars
  BY <1>9, <1>k DEF Terminated, vars
<1> QED BY <1>2, <1>3, <1>4, <1>5, <1>6, <1>7, <1>8, <1>9 DEF Next, BackendStep

-----------------------------------------------------------------------------
(* The thread of the subscription.                                         *)

LEMMA Handles ==
  ASSUME HandlerInv, NEW from, NEW kinds, NEW to \in {"idle", "first", "forced"},
         from # "idle", Handler(from, kinds, to)
  PROVE  /\ handler.at = from /\ handler.kind \in kinds /\ handler'.at = to
         /\ handler' = Idle \/ (handler' = [handler EXCEPT !.at = to])
BY DEF Handler, HandlerInv, Idle

LEMMA HandlerInvStep == IInv /\ [Next]_vars => HandlerInv'
<1> SUFFICES ASSUME IInv, [Next]_vars PROVE HandlerInv'
  OBVIOUS
<1>0. HandlerInv /\ BackendInv /\ MailInv
  BY DEF IInv
<1>k. UNCHANGED handlerVars => HandlerInv'
  BY <1>0 DEF HandlerInv, handlerVars
<1>1. CASE BackendStep
  BY <1>1, <1>k, BackendFrame
<1>2. CASE Take
  <2>1. Head(mail) \in Messages
    BY <1>0, <1>2, HeadTailProperties DEF Take, MailInv
  <2>2. /\ Head(mail).kind \in {"CHAIN", "SIZE", "WATCH", "DONE"}
        /\ Head(mail).file \in Files /\ Head(mail).size \in 0..MaxSize
    BY <2>1 DEF Messages
  <2>3. Idle \in [at : {"idle", "begin", "first", "forced", "push"},
                  kind : {"none", "CHAIN", "SIZE", "WATCH", "DONE"},
                  file : Files \cup {None}, size : 0..MaxSize] /\ Idle.at = "idle"
    BY BoundAssumption DEF Idle
  <2>4. done' = done
    BY <1>2 DEF Take
  <2> QED BY <1>0, <1>2, <2>2, <2>3, <2>4 DEF Take, HandlerInv
<1>t. ASSUME NEW from, NEW kinds, NEW to \in {"idle", "first", "forced"},
             from # "idle", Handler(from, kinds, to), done' = done \/ done' = done \cup {handler.file}
      PROVE  HandlerInv'
  <2>1. /\ handler.file \in Files
        /\ handler' = Idle \/ (handler' = [handler EXCEPT !.at = to])
    BY <1>0, <1>t, Handles DEF HandlerInv
  <2>2. CASE handler' = Idle
    BY <1>0, <1>t, <2>1, <2>2, BoundAssumption DEF HandlerInv, Idle
  <2>3. CASE handler' = [handler EXCEPT !.at = to]
    BY <1>0, <1>t, <2>1, <2>3 DEF HandlerInv
  <2> QED BY <2>1, <2>2, <2>3
<1>3. CASE HandleWatch \/ HandleDone \/ ForcedEnd
  BY <1>3, <1>t DEF HandleWatch, HandleDone, ForcedEnd
<1>4. CASE HandleSize
  BY <1>4, <1>t DEF HandleSize, SizeIgnored, SizeLearnt, SizeSwitches
<1>5. CASE NoNewFile
  BY <1>5, <1>t DEF NoNewFile, Updating, After
<1>6. CASE Push
  BY <1>6, <1>t DEF Push, After
<1>7. CASE Pop
  <2>1. /\ recording \in Files /\ done' = done
        /\ handler' = [handler EXCEPT !.at = "push", !.file = recording]
    BY <1>0, <1>7 DEF Pop, NewFile, BackendInv
  <2> QED BY <1>0, <2>1 DEF HandlerInv
<1>8. CASE PlayerStep
  BY <1>8, <1>k, PlayerFrame
<1>9. CASE ReadStep
  BY <1>9, <1>k, ReadFrame
<1>10. CASE Terminated \/ UNCHANGED vars
  BY <1>10, <1>k DEF Terminated, vars
<1> QED BY <1>1, <1>2, <1>3, <1>4, <1>5, <1>6, <1>7, <1>8, <1>9, <1>10 DEF Next, HandlerStep

-----------------------------------------------------------------------------
(* The chain.                                                              *)

LEMMA Switched ==
  ASSUME ChainInv, TransferInv, BackendInv, NEW seq \in 1..lastSeq,
         NEW size \in 0..MaxSize, NEW at \in -1..MaxSize, SwitchChain(seq, size, at)
  PROVE  /\ curSeq' = seq /\ curFile' = chained[seq] /\ chained[seq] \in Files
         /\ curFile' # None /\ curSeq' # 0 /\ curSeq' \in Nat /\ curSeq' <= lastSeq
         /\ opened' = opened \cup {curFile'} /\ opened' \subseteq Files
         /\ known' \in [Files -> 0..MaxSize] /\ pos' \in [Files -> -1..MaxSize]
<1>1. chained[seq] \in Files /\ seq \in Nat /\ seq # 0 /\ seq <= lastSeq
  BY ElementOfSeq, LenProperties DEF ChainInv
<1>2. written[chained[seq]] \in 0..MaxSize /\ 0 \in 0..MaxSize
  BY <1>1, BoundAssumption DEF BackendInv
<1>3. known' = [known EXCEPT ![chained[seq]] =
                  IF chained[seq] \in opened THEN size ELSE written[chained[seq]]]
      /\ pos' = [pos EXCEPT ![chained[seq]] = IF chained[seq] \in opened THEN at ELSE 0]
      /\ opened' = opened \cup {chained[seq]}
  BY DEF SwitchChain
<1>4. known' \in [Files -> 0..MaxSize] /\ pos' \in [Files -> -1..MaxSize]
  BY <1>1, <1>2, <1>3 DEF TransferInv
<1>5. curSeq' = seq /\ curFile' = chained[seq] /\ chained[seq] # None
  BY <1>1, BoundAssumption DEF SwitchChain, Files, None
<1> QED BY <1>1, <1>3, <1>4, <1>5 DEF TransferInv

\* What Seek and Read do to the transfers: they switch, or the current one
\* stays and an Open or a seek has failed.
Switches == \E i \in 1..lastSeq, at \in -1..MaxSize, size \in 0..MaxSize : SwitchChain(i, size, at)
Stays == /\ UNCHANGED <<curSeq, curFile, opened>>
         /\ known' \in [Files -> 0..MaxSize] /\ pos' \in [Files -> -1..MaxSize]

LEMMA OpenStays ==
  ASSUME TransferInv, NEW f, NEW size \in 0..MaxSize, OpenFails(f, size)
  PROVE  Stays
<1>1. PICK x \in {size, 0} : known' = [known EXCEPT ![f] = x]
  BY DEF OpenFails
<1>2. x \in 0..MaxSize
  BY BoundAssumption
<1> QED BY <1>1, <1>2 DEF OpenFails, TransferInv, Stays

LEMMA SoughtIsPlace ==
  ASSUME TransferInv, NEW f \in Files, NEW at \in -1..MaxSize
  PROVE  Sought(f, at) \subseteq -1..MaxSize
BY BoundAssumption DEF Sought, TransferInv

LEMMA SeekInSwitches ==
  ASSUME ChainInv, TransferInv, NEW i \in 1..lastSeq, NEW at, SeekIn(i, at)
  PROVE  Switches \/ Stays
<1> DEFINE f == chained[i]
<1>1. f \in Files
  BY ElementOfSeq DEF ChainInv
<1>2. known[f] \in 0..MaxSize /\ pos[f] \in -1..MaxSize
  BY <1>1 DEF TransferInv
<1>3. CASE \E opens \in BOOLEAN :
             /\ at = pos[f] \/ (f \in opened /\ at \in 0..known[f])
             /\ CanSwitch(i, opens)
             /\ SwitchChain(i, known[f], at)
  <2>1. at \in -1..MaxSize
    BY <1>2, <1>3, BoundAssumption
  <2> QED BY <1>2, <1>3, <2>1 DEF Switches
<1>4. CASE OpenFails(f, known[f])
  BY <1>2, <1>4, OpenStays
<1>5. CASE /\ at \in 0..known[f]
           /\ \E p \in Sought(f, at) \ {at} : pos' = [pos EXCEPT ![f] = p]
           /\ UNCHANGED <<curSeq, curFile, opened, known>>
  <2>1. at \in -1..MaxSize
    BY <1>2, <1>5, BoundAssumption
  <2>2. Sought(f, at) \subseteq -1..MaxSize
    BY <1>1, <2>1, SoughtIsPlace
  <2>3. pos' \in [Files -> -1..MaxSize]
    BY <1>5, <2>2 DEF TransferInv
  <2> QED BY <1>5, <2>3 DEF TransferInv, Stays
<1> QED BY <1>3, <1>4, <1>5 DEF SeekIn

\* Seek looks for its file within the chain.
LEMMA SeekSwitches ==
  ASSUME ChainInv, TransferInv, NEW p, Seek(p)
  PROVE  Switches \/ Stays
<1> DEFINE q == p - Drift
<1>1. PICK i \in IF p > Position THEN Ahead(q) ELSE Behind(q) : SeekIn(i, q - Start[i])
  BY DEF Seek
<1>2. i \in 1..lastSeq
  <2>1. Free /\ curSeq # 0
    BY DEF Seek
  <2>2. curSeq \in Nat /\ curSeq <= lastSeq /\ curSeq >= 1 /\ lastSeq \in Nat
    BY <2>1, LenProperties DEF ChainInv
  <2>3. Ahead(q) \subseteq curSeq..lastSeq /\ Behind(q) \subseteq 1..curSeq
    BY DEF Ahead, Behind
  <2> QED BY <1>1, <2>2, <2>3
<1> QED BY <1>1, <1>2, SeekInSwitches

LEMMA ReadSwitches ==
  ASSUME ChainInv, TransferInv, ReadSwitch
  PROVE  \/ player' = "playing" /\ Stays
         \/ player' = "remaining" /\ Switches
<1> DEFINE next == curSeq + 1
           f    == chained[next]
<1>1. ASSUME next \in 1..lastSeq
      PROVE  f \in Files /\ known[f] \in 0..MaxSize
  <2>1. f \in Files
    BY <1>1, ElementOfSeq DEF ChainInv
  <2> QED BY <2>1 DEF TransferInv
<1>2. CASE \E opens \in BOOLEAN :
              /\ CanSwitch(next, opens)
              /\ Loop("switch", "remaining")
              /\ \E at \in Sought(f, 0) : SwitchChain(next, known[f], at)
  <2>1. next \in 1..lastSeq /\ player' = "remaining"
    BY <1>2 DEF CanSwitch, Loop, Reading, Player
  <2>2. 0 \in -1..MaxSize
    BY BoundAssumption
  <2>3. Sought(f, 0) \subseteq -1..MaxSize
    BY <1>1, <2>1, <2>2, SoughtIsPlace
  <2>4. PICK at \in -1..MaxSize : SwitchChain(next, known[f], at)
    BY <1>2, <2>3
  <2>5. known[f] \in 0..MaxSize
    BY <1>1, <2>1
  <2> HIDE DEF f, next
  <2> QED BY <2>1, <2>4, <2>5 DEF Switches
<1>3. CASE /\ next \in 1..lastSeq
           /\ Loop("switch", "playing")
           /\ OpenFails(f, known[f])
  <2>1. player' = "playing"
    BY <1>3 DEF Loop, Reading, Player
  <2> QED BY <1>1, <1>3, <2>1, OpenStays
<1>4. CASE /\ Loop("switch", "playing")
           /\ UNCHANGED <<curSeq, curFile, transferVars>>
  BY <1>4 DEF Loop, Reading, Player, Stays, TransferInv, transferVars
<1> QED BY <1>2, <1>3, <1>4 DEF ReadSwitch

LEMMA ChainStays ==
  ChainInv /\ UNCHANGED <<chained, lastSeq, curSeq, curFile>> /\ (Free' = Free) => ChainInv'
BY DEF ChainInv

LEMMA Cleared ==
  ASSUME NEW armed, Clear(armed), Free'
  PROVE  ChainInv' /\ (BackendInv' => HistoryInv')
<1>1. chained' = <<>> /\ Len(chained') = 0 /\ chained' \in Seq(Files)
      /\ lastSeq' = 0 /\ curSeq' = 0 /\ curFile' = None
  BY EmptySeq DEF Clear
<1> QED BY <1>1 DEF ChainInv, HistoryInv, None

\* What the chain needs to be told of the steps of the handler.
LEMMA Calm ==
  ASSUME HandlerInv,
         \/ Take \/ HandleWatch \/ HandleDone \/ ForcedEnd \/ HandleSize \/ NoNewFile
  PROVE  Free /\ Free' /\ UNCHANGED <<chained, lastSeq>>
<1>t. ASSUME NEW from \in {"begin", "first", "forced"}, NEW kinds, NEW to \in {"idle", "first", "forced"},
             Handler(from, kinds, to)
      PROVE  Free /\ Free'
  BY <1>t, Handles DEF Free
<1>1. CASE Take
  BY <1>1 DEF Take, Free, Idle, chainVars
<1>2. CASE HandleWatch \/ HandleDone \/ ForcedEnd
  BY <1>2, <1>t DEF HandleWatch, HandleDone, ForcedEnd, chainVars
<1>3. CASE HandleSize
  BY <1>3, <1>t DEF HandleSize, SizeIgnored, SizeLearnt, SizeSwitches, chainVars
<1>4. CASE NoNewFile
  BY <1>4, <1>t DEF NoNewFile, Updating, After, chainVars
<1> QED BY <1>1, <1>2, <1>3, <1>4

\* The last file is popped when it is a dummy: what is left begins alike.
LEMMA Popped ==
  ASSUME ChainInv, Pop
  PROVE  /\ chained' \in Seq(Files) /\ lastSeq' = Len(chained') /\ Len(chained') \in Nat
         /\ Len(chained') <= Len(chained) /\ lastSeq <= lastSeq' + 1 /\ Len(chained) \in Nat
         /\ \A i \in 1..Len(chained') : i \in 1..Len(chained) /\ chained'[i] = chained[i]
<1>1. Len(chained) \in Nat /\ lastSeq = Len(chained) /\ chained \in Seq(Files)
  BY LenProperties DEF ChainInv
<1>2. CASE ~Dummy
  <2>1. chained' = chained /\ lastSeq' = lastSeq
    BY <1>2 DEF Pop
  <2> QED BY <1>1, <2>1
<1>3. CASE Dummy
  <2>1. lastSeq > 0 /\ lastSeq' = lastSeq - 1 /\ chained' = SubSeq(chained, 1, lastSeq - 1)
    BY <1>3 DEF Pop, Dummy
  <2> DEFINE n == Len(chained) - 1
  <2>2. n \in Nat /\ n <= Len(chained) /\ chained' = SubSeq(chained, 1, n)
    BY <1>1, <2>1
  <2>3. 1 \in 1..(Len(chained) + 1) /\ n \in 0..Len(chained)
    BY <1>1, <2>2
  <2>4. /\ chained' \in Seq(Files) /\ Len(chained') = n
        /\ \A i \in 1..n : chained'[i] = chained[i]
    BY <1>1, <2>2
  <2> QED BY <1>1, <2>1, <2>2, <2>4
<1> QED BY <1>2, <1>3

LEMMA Pushed ==
  ASSUME ChainInv, HandlerInv, Push
  PROVE  /\ handler.at = "push" /\ Free' /\ handler.file \in Files
         /\ chained' \in Seq(Files) /\ Len(chained) \in Nat /\ Len(chained') = Len(chained) + 1
         /\ lastSeq' = Len(chained') /\ chained'[Len(chained')] = handler.file
         /\ \A i \in 1..Len(chained) : chained'[i] = chained[i]
<1>1. /\ handler.at = "push" /\ Free' /\ handler.file \in Files
  BY Handles DEF Push, After, Free, HandlerInv
<1>2. /\ chained' = Append(chained, handler.file) /\ lastSeq' = Len(chained) + 1
      /\ chained \in Seq(Files)
  BY DEF Push, ChainInv
<1> QED BY <1>1, <1>2, AppendProperties, LenProperties

LEMMA ChainStep == IInv /\ [Next]_vars => ChainInv'
<1> USE DEF chainVars
<1> SUFFICES ASSUME IInv, [Next]_vars PROVE ChainInv'
  OBVIOUS
<1>0. ChainInv /\ HandlerInv /\ BackendInv /\ TransferInv
  BY DEF IInv
<1>k. UNCHANGED <<handlerVars, chained, lastSeq, curSeq, curFile>> => ChainInv'
  BY <1>0, ChainStays DEF Free, handlerVars
<1>s. ASSUME NEW seq \in 1..lastSeq, NEW size \in 0..MaxSize, NEW at \in -1..MaxSize,
             SwitchChain(seq, size, at), UNCHANGED <<chained, lastSeq>>, Free'
      PROVE  ChainInv'
  BY <1>0, <1>s, Switched DEF ChainInv
<1>1. CASE BackendStep
  BY <1>1, <1>k, BackendFrame
<1>2. CASE Take \/ HandleWatch \/ HandleDone \/ ForcedEnd \/ NoNewFile \/ SizeIgnored \/ SizeLearnt
  <2>1. Free /\ Free' /\ UNCHANGED <<chained, lastSeq>>
    BY <1>0, <1>2, Calm DEF HandleSize
  <2>2. UNCHANGED <<curSeq, curFile>>
    BY <1>2 DEF Take, HandleWatch, HandleDone, ForcedEnd, NoNewFile, SizeIgnored, SizeLearnt
  <2> QED BY <1>0, <2>1, <2>2, ChainStays
<1>3. ASSUME NEW opens \in BOOLEAN, SizeSwitches(opens) PROVE ChainInv'
  <2>1. Free /\ Free' /\ UNCHANGED <<chained, lastSeq>>
    BY <1>0, <1>3, Calm DEF HandleSize
  <2>2. CASE CanSwitch(lastSeq, opens)
    <3>1. SwitchChain(lastSeq, handler.size, 0) /\ lastSeq \in 1..lastSeq
      BY <1>3, <2>2 DEF SizeSwitches, CanSwitch
    <3>2. handler.size \in 0..MaxSize /\ 0 \in 0..MaxSize
      BY <1>0, BoundAssumption DEF HandlerInv
    <3> QED BY <1>s, <2>1, <3>1, <3>2
  <2>3. CASE ~CanSwitch(lastSeq, opens)
    BY <1>0, <1>3, <2>1, <2>3, ChainStays DEF SizeSwitches, OpenFails
  <2> QED BY <2>2, <2>3
<1>4. CASE Pop
  <2>1. UNCHANGED <<curSeq, curFile>> /\ handler'.at = "push" /\ Free
    BY <1>0, <1>4 DEF Pop, Updating, Free, HandlerInv
  <2> QED BY <1>0, <1>4, <2>1, Popped DEF ChainInv, Free
<1>5. CASE Push
  <2>1. UNCHANGED <<curSeq, curFile>>
    BY <1>5 DEF Push
  <2>2. handler.at = "push" /\ Free' /\ lastSeq' = lastSeq + 1
    BY <1>0, <1>5, Pushed DEF ChainInv
  <2> QED BY <1>0, <1>5, <2>1, <2>2, Pushed DEF ChainInv, Free
<1>6. CASE PlayerStep
  <2>0. UNCHANGED handlerVars
    BY <1>6, PlayerFrame
  <2>1. ASSUME NEW from, Spawn(from) PROVE ChainInv'
    BY <2>0, <2>1, Cleared DEF Spawn, Free, handlerVars
  <2>2. ASSUME NEW p, Seek(p) PROVE ChainInv'
    <3>1. Free /\ Free' /\ UNCHANGED <<chained, lastSeq>> /\ curSeq # 0
      BY <2>0, <2>2, SeekFrame DEF Seek, Free, handlerVars
    <3>2. CASE Stays
      BY <1>0, <3>1, <3>2, ChainStays DEF Stays
    <3>3. CASE Switches
      BY <1>s, <3>1, <3>3 DEF Switches
    <3> QED BY <1>0, <2>2, <3>2, <3>3, SeekSwitches
  <2>3. CASE Tuned \/ Stop
    BY <1>k, <2>0, <2>3 DEF Tuned, Stop
  <2>4. CASE TuneTimeout \/ Close
    BY <2>0, <2>4, Cleared DEF TuneTimeout, Close, Free, handlerVars
  <2> QED BY <1>6, <2>1, <2>2, <2>3, <2>4 DEF PlayerStep
<1>7. CASE ReadSwitch
  <2>1. Free /\ Free' /\ UNCHANGED <<chained, lastSeq, handlerVars>>
    BY <1>7, ReadFrame DEF ReadSwitch, ReadStep, ReadLoop, Free, handlerVars
  <2>2. CASE Stays
    BY <1>k, <2>1, <2>2 DEF Stays
  <2>3. CASE Switches
    BY <1>s, <2>1, <2>3 DEF Switches
  <2> QED BY <1>0, <1>7, <2>2, <2>3, ReadSwitches
<1>8. CASE ReadStep /\ ~ReadSwitch
  BY <1>8, <1>k, ReadFrame DEF ReadStep, ReadLoop, ReadBegin, ReadRemaining, ReadCompare, ReadPosition,
                               ReadWait, ReadAhead, ReadRequest
<1>9. CASE Terminated \/ UNCHANGED vars
  BY <1>9, <1>k DEF Terminated, vars
<1> QED BY <1>1, <1>2, <1>3, <1>4, <1>5, <1>6, <1>7, <1>8, <1>9
        DEF Next, HandlerStep, HandleSize

LEMMA FilesAreNumbers ==
  ASSUME ChainInv, NEW i \in 1..Len(chained)
  PROVE  chained[i] \in Nat
<1>1. chained[i] \in Files
  BY ElementOfSeq DEF ChainInv
<1> QED BY <1>1 DEF Files

LEMMA HistoryStays ==
  ASSUME ChainInv, BackendInv, HandlerInv, HistoryInv, UNCHANGED <<chained, base>>,
         lastFile' \in Nat, lastFile' >= lastFile, Free' \/ handler' = handler
  PROVE  HistoryInv'
<1>1. lastFile \in Nat /\ \A x \in Nat : x <= lastFile => x <= lastFile'
  BY BoundAssumption DEF BackendInv
<1>2. \A i \in 1..Len(chained) : chained[i] >= base + i /\ chained[i] <= lastFile'
  BY <1>1, FilesAreNumbers DEF HistoryInv
<1>3. ASSUME ~Free' PROVE ~Free /\ handler' = handler /\ handler.file <= lastFile'
  <2>1. ~Free /\ handler' = handler
    BY <1>3 DEF Free
  <2>2. handler.file \in Nat
    BY <2>1 DEF Free, HandlerInv, Files
  <2> QED BY <1>1, <2>1, <2>2 DEF HistoryInv
<1> QED BY <1>2, <1>3 DEF HistoryInv

\* The file the recorder records comes after all that are in the chain.
LEMMA PopOrders ==
  ASSUME IInv, Pop
  PROVE  HistoryInv'
<1>0. ChainInv /\ BackendInv /\ HandlerInv /\ HistoryInv
  BY DEF IInv
<1>1. /\ lastFile \in Nat /\ base \in Nat /\ UNCHANGED <<base, lastFile>>
      /\ recording = lastFile /\ recording > base /\ handler'.file = recording
      /\ ~IsChained(recording)
  BY <1>0, BoundAssumption DEF Pop, BackendInv, HandlerInv, NewFile, backendVars, sessionVars
<1>2. /\ Len(chained') \in Nat /\ Len(chained) \in Nat
      /\ \A i \in 1..Len(chained') : i \in 1..Len(chained) /\ chained'[i] = chained[i]
  BY <1>0, Popped
<1>3. \A i \in 1..Len(chained) : chained[i] \in Nat /\ i \in Nat
  BY <1>0, FilesAreNumbers
<1>4. \A i \in 1..Len(chained') :
        /\ chained'[i] >= base + i /\ chained'[i] <= lastFile /\ chained'[i] < recording
        /\ chained'[i] \in Nat
  BY <1>0, <1>1, <1>2, <1>3 DEF HistoryInv, IsChained
<1>5. handler'.file > base + Len(chained')
  <2>1. CASE Len(chained') = 0
    BY <1>1, <2>1
  <2>2. CASE Len(chained') # 0
    <3>1. Len(chained') \in 1..Len(chained')
      BY <1>2, <2>2
    <3> QED BY <1>1, <1>2, <1>4, <3>1
  <2> QED BY <2>1, <2>2
<1>6. \A i, j \in 1..Len(chained') : i < j => chained'[i] < chained'[j]
  BY <1>0, <1>2 DEF HistoryInv
<1> QED BY <1>1, <1>4, <1>5, <1>6 DEF HistoryInv

LEMMA PushOrders ==
  ASSUME IInv, Push
  PROVE  HistoryInv'
<1>0. ChainInv /\ BackendInv /\ HandlerInv /\ HistoryInv
  BY DEF IInv
<1>1. /\ Free' /\ Len(chained) \in Nat /\ Len(chained') = Len(chained) + 1
      /\ chained'[Len(chained')] = handler.file /\ handler.file \in Nat
      /\ \A i \in 1..Len(chained) : chained'[i] = chained[i]
  BY <1>0, Pushed DEF Files
<1>2. UNCHANGED <<base, lastFile>> /\ base \in Nat /\ lastFile \in Nat
  BY <1>0, HandlerFrame, BoundAssumption DEF HandlerStep, backendVars, sessionVars, BackendInv
<1>3. /\ handler.file > base + Len(chained) /\ handler.file <= lastFile
      /\ \A i \in 1..Len(chained) : chained[i] < handler.file
  BY <1>0, Pushed DEF HistoryInv, Free
<1>4. \A i \in 1..Len(chained') : i \in 1..Len(chained) \/ i = Len(chained')
  BY <1>1
<1>5. \A i \in 1..Len(chained') : chained'[i] >= base + i /\ chained'[i] <= lastFile
  <2> TAKE i \in 1..Len(chained')
  <2>1. CASE i \in 1..Len(chained)
    BY <1>0, <1>1, <2>1 DEF HistoryInv
  <2>2. CASE i = Len(chained')
    BY <1>1, <1>2, <1>3, <2>2
  <2> QED BY <1>4, <2>1, <2>2
<1>6. ASSUME NEW i \in 1..Len(chained'), NEW j \in 1..Len(chained'), i < j
      PROVE  chained'[i] < chained'[j]
  <2>1. i \in 1..Len(chained)
    BY <1>1, <1>6
  <2>2. CASE j \in 1..Len(chained)
    BY <1>0, <1>1, <1>6, <2>1, <2>2 DEF HistoryInv
  <2>3. CASE j = Len(chained')
    BY <1>1, <1>3, <2>1, <2>3
  <2> QED BY <1>4, <2>2, <2>3
<1> QED BY <1>1, <1>2, <1>5, <1>6 DEF HistoryInv

LEMMA HistoryStep == IInv /\ [Next]_vars => HistoryInv'
<1> USE DEF backendVars, sessionVars, handlerVars, chainVars
<1> SUFFICES ASSUME IInv, [Next]_vars PROVE HistoryInv'
  OBVIOUS
<1>0. ChainInv /\ BackendInv /\ HandlerInv /\ HistoryInv /\ lastFile \in Nat /\ BackendInv'
  BY BackendInvStep, BoundAssumption DEF IInv, BackendInv
<1>k. UNCHANGED <<chained, base, lastFile>> /\ (Free' \/ handler' = handler) => HistoryInv'
  BY <1>0, HistoryStays
<1>1. CASE BackendStep
  <2>1. lastFile' = lastFile \/ lastFile' = lastFile + 1
    BY <1>1 DEF BackendStep, RecordNext, Write, Notify
  <2>2. UNCHANGED <<chained, base, handler>>
    BY <1>1, BackendFrame
  <2> QED BY <1>0, <2>1, <2>2, HistoryStays
<1>2. CASE Take \/ HandleWatch \/ HandleDone \/ ForcedEnd \/ HandleSize \/ NoNewFile
  <2>1. UNCHANGED <<base, lastFile>>
    BY <1>2, HandlerFrame DEF HandlerStep
  <2> QED BY <1>0, <1>2, <1>k, <2>1, Calm
<1>3. CASE PlayerStep
  <2>0. UNCHANGED <<handlerVars, lastFile>>
    BY <1>3, PlayerFrame
  <2>1. ASSUME NEW from, Spawn(from) PROVE HistoryInv'
    BY <1>0, <2>0, <2>1, Cleared DEF Spawn, Free
  <2>2. ASSUME NEW p, Seek(p) PROVE HistoryInv'
    BY <1>k, <2>0, <2>2, SeekFrame
  <2>3. CASE Tuned \/ Stop
    BY <1>k, <2>0, <2>3 DEF Tuned, Stop
  <2>4. CASE TuneTimeout \/ Close
    BY <1>0, <2>0, <2>4, Cleared DEF TuneTimeout, Close, Free
  <2> QED BY <1>3, <2>1, <2>2, <2>3, <2>4 DEF PlayerStep
<1>4. CASE ReadStep
  BY <1>4, <1>k, ReadFrame
<1>5. CASE Terminated \/ UNCHANGED vars
  BY <1>5, <1>k DEF Terminated, vars
<1> QED BY <1>1, <1>2, <1>3, <1>4, <1>5, PopOrders, PushOrders DEF Next, HandlerStep

-----------------------------------------------------------------------------
(* The transfers and the player.                                           *)

LEMMA TransferStep == IInv /\ [Next]_vars => TransferInv'
<1> USE DEF transferVars, playerVars
<1> SUFFICES ASSUME IInv, [Next]_vars PROVE TransferInv'
  OBVIOUS
<1>0. TransferInv /\ ChainInv /\ HandlerInv /\ BackendInv /\ ReadInv
  BY DEF IInv
<1>k. UNCHANGED <<transferVars, fp>> => TransferInv'
  BY <1>0 DEF TransferInv
<1>s. ASSUME NEW seq \in 1..lastSeq, NEW size \in 0..MaxSize, NEW at \in -1..MaxSize,
             SwitchChain(seq, size, at), fp' \in -1..MaxSize
      PROVE  TransferInv'
  BY <1>0, <1>s, Switched DEF TransferInv
<1>y. Stays /\ fp' \in -1..MaxSize => TransferInv'
  BY <1>0 DEF Stays, TransferInv
<1>l. ASSUME NEW from, NEW to, Loop(from, to) PROVE fp' \in -1..MaxSize
  BY <1>0, <1>l, BoundAssumption DEF Loop, TransferInv
<1>1. CASE BackendStep
  BY <1>1, <1>k, BackendFrame
<1>2. CASE HandlerStep
  <2>0. fp' = fp
    BY <1>2, HandlerFrame
  <2>1. CASE Take \/ HandleWatch \/ HandleDone \/ ForcedEnd \/ NoNewFile \/ SizeIgnored \/ Pop \/ Push
    BY <1>k, <2>0, <2>1 DEF Take, HandleWatch, HandleDone, ForcedEnd, NoNewFile, SizeIgnored, Pop, Push
  <2>2. handler.size \in 0..MaxSize /\ 0 \in 0..MaxSize
    BY <1>0, BoundAssumption DEF HandlerInv
  <2>3. ASSUME known' = [known EXCEPT ![handler.file] = handler.size], UNCHANGED <<opened, pos>>
        PROVE  TransferInv'
    BY <1>0, <2>0, <2>2, <2>3 DEF TransferInv
  <2>4. CASE SizeLearnt
    BY <2>3, <2>4 DEF SizeLearnt
  <2>5. ASSUME NEW opens \in BOOLEAN, SizeSwitches(opens) PROVE TransferInv'
    <3>1. CASE CanSwitch(lastSeq, opens)
      <4>1. SwitchChain(lastSeq, handler.size, 0) /\ lastSeq \in 1..lastSeq
        BY <2>5, <3>1 DEF SizeSwitches, CanSwitch
      <4>2. 0 \in -1..MaxSize /\ fp' \in -1..MaxSize
        BY <1>0, <2>0, BoundAssumption DEF TransferInv
      <4> QED BY <1>s, <2>0, <2>2, <4>1, <4>2
    <3>2. CASE ~CanSwitch(lastSeq, opens)
      <4>1. Stays
        BY <1>0, <2>2, <2>5, <3>2, OpenStays DEF SizeSwitches
      <4> QED BY <1>0, <1>y, <2>0, <4>1 DEF TransferInv
    <3> QED BY <3>1, <3>2
  <2> QED BY <1>2, <2>1, <2>4, <2>5 DEF HandlerStep, HandleSize
<1>3. CASE PlayerStep
  <2>0. fp' = fp
    BY <1>3, PlayerFrame
  <2>c. ASSUME NEW armed, Clear(armed) PROVE TransferInv'
    <3>1. 0 \in 0..MaxSize /\ 0 \in -1..MaxSize
      BY BoundAssumption
    <3> QED BY <1>0, <2>0, <2>c, <3>1 DEF Clear, TransferInv
  <2>1. ASSUME NEW from, Spawn(from) PROVE TransferInv'
    BY <2>c, <2>1 DEF Spawn
  <2>2. ASSUME NEW p, Seek(p) PROVE TransferInv'
    <3>1. fp' \in -1..MaxSize
      BY <1>0, <2>0 DEF TransferInv
    <3> QED BY <1>0, <1>s, <1>y, <2>2, <3>1, SeekSwitches DEF Switches
  <2>3. CASE Tuned \/ Stop
    BY <1>k, <2>0, <2>3 DEF Tuned, Stop
  <2>4. CASE TuneTimeout \/ Close
    BY <2>c, <2>4 DEF TuneTimeout, Close
  <2> QED BY <1>3, <2>1, <2>2, <2>3, <2>4 DEF PlayerStep
<1>4. CASE ReadBegin
  <2>1. curFile \in Files
    BY <1>0, <1>4 DEF ReadBegin, ChainInv
  <2> QED BY <1>0, <1>4, <2>1 DEF ReadBegin, TransferInv
<1>5. CASE ReadRemaining \/ ReadCompare \/ ReadWait \/ ReadAhead
  <2>1. fp' \in -1..MaxSize /\ UNCHANGED transferVars
    BY <1>5, <1>l DEF ReadRemaining, ReadCompare, ReadWait, ReadAhead
  <2> QED BY <1>0, <2>1 DEF TransferInv
<1>6. CASE ReadPosition
  <2>1. RecorderPosition \in 0..MaxSize
    BY <1>0, BoundAssumption DEF RecorderPosition, BackendInv
  <2>2. fp' \in -1..MaxSize
    BY <1>6, <1>l DEF ReadPosition
  <2> QED BY <1>0, <1>6, <2>1, <2>2 DEF ReadPosition, TransferInv
<1>7. CASE ReadSwitch
  <2>1. fp' \in -1..MaxSize
    BY <1>7, <1>l DEF ReadSwitch
  <2> QED BY <1>0, <1>7, <1>s, <1>y, <2>1, ReadSwitches DEF Switches
<1>8. CASE ReadRequest
  <2>1. curFile \in Files
    BY <1>0, <1>8 DEF ReadRequest, Loop, Reading, Player, ReadInv, Watching, InRead, ChainInv
  <2>2. pos[curFile] \in -1..MaxSize /\ known[curFile] \in 0..MaxSize
    BY <1>0, <2>1 DEF TransferInv
  <2>3. PICK n \in 0..(known[curFile] - pos[curFile]) : pos' = [pos EXCEPT ![curFile] = @ + n]
    BY <1>8 DEF ReadRequest
  <2>4. pos[curFile] + n \in -1..MaxSize
    BY <2>2, <2>3, BoundAssumption
  <2>5. fp' \in -1..MaxSize
    BY <1>8, <1>l DEF ReadRequest
  <2> QED BY <1>0, <1>8, <2>3, <2>4, <2>5 DEF ReadRequest, TransferInv
<1>9. CASE Terminated \/ UNCHANGED vars
  BY <1>9, <1>k DEF Terminated, vars
<1> QED BY <1>1, <1>2, <1>3, <1>4, <1>5, <1>6, <1>7, <1>8, <1>9 DEF Next, ReadStep, ReadLoop

LEMMA ReadInvStep == IInv /\ [Next]_vars => ReadInv'
<1> USE DEF chainVars, transferVars, playerVars
<1> SUFFICES ASSUME IInv, [Next]_vars PROVE ReadInv'
  OBVIOUS
<1>0. TransferInv /\ ChainInv /\ HandlerInv /\ BackendInv /\ ReadInv
  BY DEF IInv
<1>k. UNCHANGED <<player, curFile, opened, switchOnCreate>> => ReadInv'
  BY <1>0 DEF ReadInv, Watching, InRead
<1>1. CASE BackendStep
  BY <1>1, <1>k, BackendFrame
<1>2. CASE HandlerStep
  <2>0. UNCHANGED player
    BY <1>2, HandlerFrame
  <2>1. CASE Take \/ HandleWatch \/ HandleDone \/ ForcedEnd \/ NoNewFile \/ SizeIgnored
             \/ SizeLearnt \/ Pop \/ Push
    BY <1>k, <2>0, <2>1 DEF Take, HandleWatch, HandleDone, ForcedEnd, NoNewFile, SizeIgnored,
                            SizeLearnt, Pop, Push
  <2>2. ASSUME NEW opens \in BOOLEAN, SizeSwitches(opens) PROVE ReadInv'
    <3>1. CASE CanSwitch(lastSeq, opens)
      <4>1. /\ SwitchChain(lastSeq, handler.size, 0) /\ lastSeq \in 1..lastSeq
            /\ switchOnCreate' = FALSE
        BY <2>2, <3>1 DEF SizeSwitches, CanSwitch
      <4>2. handler.size \in 0..MaxSize /\ 0 \in 0..MaxSize
        BY <1>0, BoundAssumption DEF HandlerInv
      <4>3. curFile' # None /\ curFile' \in opened'
        BY <1>0, <4>1, <4>2, Switched
      <4> QED BY <1>0, <2>0, <4>1, <4>3 DEF ReadInv, Watching, InRead
    <3>2. CASE ~CanSwitch(lastSeq, opens)
      BY <1>k, <2>0, <2>2, <3>2 DEF SizeSwitches, OpenFails
    <3> QED BY <3>1, <3>2
  <2> QED BY <1>2, <2>1, <2>2 DEF HandlerStep, HandleSize
<1>3. CASE PlayerStep
  <2>1. ASSUME NEW from, Spawn(from) PROVE ReadInv'
    BY <2>1 DEF Spawn, Clear, ReadInv, Watching, InRead
  <2>2. ASSUME NEW p, Seek(p) PROVE ReadInv'
    <3>1. player' = "playing" /\ player = "playing" /\ UNCHANGED switchOnCreate
      BY <2>2 DEF Seek, Reading, Player
    <3>2. CASE Stays
      BY <1>0, <3>1, <3>2 DEF Stays, ReadInv, Watching, InRead
    <3>3. CASE Switches
      <4>1. curFile' # None /\ curFile' \in opened'
        BY <1>0, <3>3, Switched DEF Switches
      <4> QED BY <1>0, <3>1, <4>1 DEF ReadInv, Watching, InRead
    <3> QED BY <1>0, <2>2, <3>2, <3>3, SeekSwitches
  <2>3. CASE Tuned
    BY <1>0, <2>3 DEF Tuned, Player, ReadInv, Watching, InRead
  <2>4. CASE TuneTimeout \/ Stop \/ Close
    BY <2>4 DEF TuneTimeout, Stop, Close, Player, ReadInv, Watching, InRead
  <2> QED BY <1>3, <2>1, <2>2, <2>3, <2>4 DEF PlayerStep
<1>r. ASSUME Watching, player' \in {"playing", "remaining", "compare", "position", "switch", "request"},
             curFile' # None, curFile' \in opened', switchOnCreate' = switchOnCreate
      PROVE  ReadInv'
  BY <1>0, <1>r DEF ReadInv, Watching, InRead
<1>4. CASE ReadStep
  <2>1. Watching /\ switchOnCreate' = switchOnCreate /\ curFile # None /\ curFile \in opened
    <3>1. Watching
      BY <1>4 DEF ReadStep, ReadLoop, ReadBegin, ReadRemaining, ReadCompare, ReadPosition,
                  ReadWait, ReadAhead, ReadSwitch, ReadRequest, Loop, Reading, Player, Watching,
                  InRead
    <3> QED BY <1>0, <1>4, <3>1, ReadFrame DEF ReadInv
  <2>2. CASE ReadRemaining
    <3>1. known[curFile] \in Int /\ pos[curFile] \in Int
      BY <1>0, <2>1 DEF TransferInv, ChainInv
    <3>2. player' \in {"playing", "compare", "request"}
      BY <2>2, <3>1 DEF ReadRemaining, Loop, Reading, Player
    <3> QED BY <1>r, <2>1, <2>2, <3>2 DEF ReadRemaining
  <2>3. CASE ReadSwitch
    <3>1. CASE player' = "playing" /\ Stays
      BY <1>r, <2>1, <3>1 DEF Stays
    <3>2. CASE player' = "remaining" /\ Switches
      <4>1. curFile' # None /\ curFile' \in opened'
        BY <1>0, <3>2, Switched DEF Switches
      <4> QED BY <1>r, <2>1, <3>2, <4>1
    <3> QED BY <1>0, <2>3, <3>1, <3>2, ReadSwitches
  <2>4. CASE ReadBegin \/ ReadCompare \/ ReadPosition \/ ReadWait \/ ReadAhead \/ ReadRequest
    <3>1. /\ player' \in {"playing", "remaining", "compare", "position", "switch"}
          /\ UNCHANGED <<curFile, opened>>
      BY <2>4 DEF ReadBegin, ReadCompare, ReadPosition, ReadWait, ReadAhead, ReadRequest,
                  Loop, Reading, Player
    <3> QED BY <1>r, <2>1, <3>1
  <2> QED BY <1>4, <2>2, <2>3, <2>4 DEF ReadStep, ReadLoop
<1>5. CASE Terminated \/ UNCHANGED vars
  BY <1>5, <1>k DEF Terminated, vars
<1> QED BY <1>1, <1>2, <1>3, <1>4, <1>5 DEF Next

-----------------------------------------------------------------------------
(* The theorems.                                                           *)

THEOREM Inductive == IInv /\ [Next]_vars => IInv'
BY FlagStep, BackendInvStep, MailStep, HandlerInvStep, ChainStep, HistoryStep, TransferStep,
   ReadInvStep DEF IInv

LEMMA Always == Safe => []IInv
BY InitOK, Inductive, PTL DEF Safe

\* The chain is never longer than the files there have been, though it is a
\* sequence of any length by its type: its files are of rising number.
LEMMA ChainIsBounded ==
  ASSUME IInv
  PROVE  lastSeq \in 0..MaxFiles /\ curSeq \in 0..MaxFiles
<1>0. ChainInv /\ BackendInv /\ HandlerInv /\ HistoryInv
  BY DEF IInv
<1>1. /\ lastSeq = Len(chained) /\ Len(chained) \in Nat
      /\ base \in Nat /\ lastFile \in Nat /\ lastFile <= MaxFiles /\ MaxFiles \in Nat
  BY <1>0, LenProperties, BoundAssumption DEF ChainInv, BackendInv
<1>2. lastSeq <= MaxFiles
  <2>1. CASE Len(chained) = 0
    BY <1>1, <2>1
  <2>2. CASE Len(chained) # 0
    <3>1. Len(chained) \in 1..Len(chained)
      BY <1>1, <2>2
    <3>2. chained[Len(chained)] \in Nat
      BY <1>0, <3>1, FilesAreNumbers
    <3>3. chained[Len(chained)] >= base + Len(chained) /\ chained[Len(chained)] <= lastFile
      BY <1>0, <3>1 DEF HistoryInv
    <3> QED BY <1>1, <3>2, <3>3
  <2> QED BY <2>1, <2>2
<1>3. CASE Free
  BY <1>0, <1>1, <1>2, <1>3 DEF ChainInv
<1>4. CASE ~Free
  <2>1. handler.file \in Nat /\ handler.file > base + Len(chained) /\ handler.file <= lastFile
    BY <1>0, <1>4 DEF HistoryInv, HandlerInv, Files, None
  <2>2. curSeq \in Nat /\ curSeq <= lastSeq + 1
    BY <1>0, <1>4 DEF ChainInv
  <2> QED BY <1>1, <1>2, <2>1, <2>2
<1> QED BY <1>3, <1>4

\* Every variable keeps its type, the chain and the mailbox their bounds.
THEOREM TypeCorrect == Safe => []TypeOK
<1>1. IInv => TypeOK
  <2> SUFFICES ASSUME IInv PROVE TypeOK
    OBVIOUS
  <2>0. /\ Flags /\ BackendInv /\ MailInv /\ HandlerInv /\ ChainInv /\ TransferInv /\ ReadInv
        /\ lastSeq \in 0..MaxFiles /\ curSeq \in 0..MaxFiles
    BY ChainIsBounded DEF IInv
  <2>1. {playing, watch, switchOnCreate} \subseteq BOOLEAN
    BY <2>0, Zenon DEF Flags
  <2>2. lastFile \in Files \cup {0} /\ base \in 0..lastFile
    BY <2>0, BoundAssumption DEF BackendInv, Files
  <2>3. player \in {"closed", "tuning", "playing", "stopped", "failed"} \/ InRead
    BY <2>0 DEF ReadInv
  <2>4. handler.at \in {"idle", "begin", "first", "forced", "push"} /\ done \subseteq Files
    BY <2>0 DEF HandlerInv
  <2> QED BY <2>0, <2>1, <2>2, <2>3, <2>4 DEF TypeOK, BackendInv, MailInv, ChainInv, TransferInv
<1> QED BY <1>1, Always, PTL

\* Whenever m_mutex is free the sequence numbers fit the chain, and there is
\* a current transfer exactly when a file has been switched to.
THEOREM ChainStaysIndexed == Safe => []ChainIsIndexed
<1>1. IInv => ChainIsIndexed
  BY DEF IInv, ChainInv, ChainIsIndexed
<1> QED BY <1>1, Always, PTL

\* The chain lists files of the channel being watched, each once, in the order
\* in which they are recorded, whatever messages come late or twice and
\* however often the end of the chain is replaced.
THEOREM ChainStaysHistory == Safe => []ChainIsHistory
<1>1. IInv => ChainIsHistory
  <2> SUFFICES ASSUME IInv PROVE ChainIsHistory
    OBVIOUS
  <2>0. ChainInv /\ BackendInv /\ HistoryInv
    BY DEF IInv
  <2>1. ASSUME NEW i \in 1..Len(chained) PROVE chained[i] > base /\ chained[i] <= lastFile
    <3>1. chained[i] \in Nat /\ i \in Nat /\ i >= 1 /\ base \in Nat
      BY <2>0, FilesAreNumbers, BoundAssumption DEF BackendInv
    <3>2. chained[i] >= base + i /\ chained[i] <= lastFile
      BY <2>0 DEF HistoryInv
    <3> QED BY <3>1, <3>2
  <2> QED BY <2>0, <2>1 DEF ChainIsHistory, HistoryInv
<1> QED BY <1>1, Always, PTL

\* A stream that is tuned can be read: it has a current transfer, which is
\* open, and the wait for a first file is over.
THEOREM TunedStaysReadable == Safe => []TunedIsReadable
<1>1. IInv => TunedIsReadable
  BY DEF IInv, ReadInv, TunedIsReadable
<1> QED BY <1>1, Always, PTL
=============================================================================
