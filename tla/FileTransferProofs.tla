------------------------ MODULE FileTransferProofs ------------------------
(***************************************************************************)
(* For every size of the file, of the reads and of the data connection:    *)
(* the types of FileTransfer, that answers find the thread that waits for  *)
(* them, that the bytes stay in step with the requests, and that there is  *)
(* room for what a waiting read has asked for.                             *)
(***************************************************************************)
EXTENDS FileTransfer, SequenceTheorems, TLAPS

Commands == {c \in [op : {"block", "seek", "query"}, arg : Nat, sent : Nat, live : BOOLEAN] :
               c.op = "seek" => c.arg <= Size}
Answers  == [op : {"block", "seek", "query"}, value : Int]
MostRead == Lesser(MaxRead, RcvBuf)

Flags == more \in BOOLEAN /\ fdcOld \in BOOLEAN /\ strayed \in BOOLEAN

DataType ==
  /\ transfer \in {"open", "eof", "reset", "none"}
  /\ data \in Seq(0..(Size - 1)) /\ Len(data) <= RcvBuf /\ arrived \in 0..Len(data)
  /\ bpos \in 0..Size

ControlType ==
  /\ ctl \in {"open", "dead", "hung"}
  /\ todo \in Seq(Commands) /\ Len(todo) <= MaxTodo
  /\ answers \in Seq(Answers) /\ Len(answers) <= 1
  /\ lock \in {"none", "reader", "other"}
  /\ other \in {"idle", "wait"}

\* What the reading thread is at, and the ranges of what it has in hand.
ReadType ==
  /\ pos \in Int /\ req \in Int
  /\ at \in {"idle", "ask", "poll", "drain", "seek", "seeking", "flush"}
  /\ want \in -1..(Size + MaxRead) /\ got \in 0..MostRead
  /\ at \in {"ask", "poll", "drain"} => want \in 1..MostRead /\ got <= want
  /\ at \in {"idle", "ask", "seek", "seeking", "flush"} => got = 0
  /\ at \in {"seek", "seeking"} => want \in 0..Size

\* Who holds m_mutex.
LockInv ==
  /\ lock = "other" <=> other = "wait"
  /\ lock = "reader" => at \in {"poll", "drain", "seeking", "flush"}
  /\ at \in {"drain", "seeking", "flush"} => lock = "reader"

\* The one command that may still be answered is the last one sent, that of
\* the thread that holds m_mutex, and so is the answer that has come.
ControlInv ==
  /\ \A i \in 1..Len(todo) :
       todo[i].live => /\ todo[i].op = Expected /\ i = Len(todo)
                       /\ answers = <<>> /\ ctl = "open" /\ at # "flush"
  /\ AnswerIsOwn
  /\ ctl = "hung" \/ at = "flush" => answers = <<>>

TypeInv == DataType /\ ControlType /\ ReadType /\ Flags

\* Without an error no command outlives its call.
CallInv ==
  ~strayed =>
    /\ \A i \in 1..Len(todo) :
         /\ todo[i].op = "block" =>
              /\ i = Len(todo) /\ answers = <<>>
              /\ Asked /\ at \in {"poll", "drain"} /\ todo[i].arg = want
              /\ Len(data) + got <= RcvBuf + todo[i].sent
         /\ todo[i].op = "seek" =>
              /\ i = Len(todo) /\ answers = <<>>
              /\ at = "seeking" /\ todo[i].arg = want

\* Without an error, what has been requested is what has been read, what is on
\* the data connection, and nothing else; while a read waits for an answer, the
\* number that the backend has sent so far, or its answer, makes up for a
\* request that is not yet counted.
Balance == pos + Len(data)

InOrder == \A i \in 1..Len(data) : data[i] = pos + i - 1

Waiting == Asked /\ at \in {"poll", "drain"}

Owed ==
  /\ \A i \in 1..Len(todo) : todo[i].op = "block" => req + todo[i].sent = Balance
  /\ \A i \in 1..Len(answers) :
       \/ answers[i].value >= 0 /\ req + answers[i].value = Balance
       \/ answers[i].value = -1 /\ req = Balance

SeekOwed == \A i \in 1..Len(answers) :
              answers[i].value = -1 \/ (answers[i].value = want /\ bpos = want)

StepParts ==
  /\ InOrder
  /\ at \notin {"seeking", "flush"} => bpos = Balance
  /\ ~Waiting => req = Balance
  /\ Waiting => Owed
  /\ at = "seeking" => SeekOwed
  /\ at = "flush" => bpos = want

StepInv == transfer = "open" /\ ~strayed => StepParts

IInv == TypeInv /\ LockInv /\ ControlInv /\ CallInv /\ StepInv

-----------------------------------------------------------------------------
(* The commands and the answers.                                           *)

\* The backend has sent a block of its first command.
LEMMA TodoCounted ==
  ASSUME todo \in Seq(Commands), todo # <<>>, todo' = [todo EXCEPT ![1].sent = @ + 1]
  PROVE  /\ todo' \in Seq(Commands) /\ Len(todo') = Len(todo) /\ 1 \in 1..Len(todo)
         /\ Head(todo) = todo[1]
         /\ todo'[1] = [todo[1] EXCEPT !.sent = @ + 1]
         /\ \A i \in 1..Len(todo) : i # 1 => todo'[i] = todo[i]
<1>1. 1 \in 1..Len(todo) /\ Len(todo) \in Nat /\ todo[1] \in Commands
  BY EmptySeq, LenProperties, ElementOfSeq
<1> DEFINE m == todo[1].sent + 1
<1>a. m \in Nat
  BY <1>1 DEF Commands
<1> HIDE DEF m
<1>b. [todo[1] EXCEPT !.sent = m] \in Commands
  BY <1>1, <1>a DEF Commands
<1>2. [todo[1] EXCEPT !.sent = @ + 1] \in Commands
  BY <1>b DEF m
<1>3. todo' = [todo EXCEPT ![1] = [todo[1] EXCEPT !.sent = @ + 1]]
  OBVIOUS
<1>4. todo' \in Seq(Commands) /\ Len(todo') = Len(todo)
  BY <1>1, <1>2, <1>3, ExceptSeq
<1> QED BY <1>1, <1>3, <1>4, HeadTailProperties, LenProperties

LEMMA TodoDone ==
  ASSUME todo \in Seq(Commands), todo # <<>>, todo' = Tail(todo)
  PROVE  /\ todo' \in Seq(Commands) /\ Len(todo') = Len(todo) - 1
         /\ 1 \in 1..Len(todo) /\ Head(todo) = todo[1] /\ todo[1] \in Commands
         /\ \A i \in 1..Len(todo') : i + 1 \in 1..Len(todo) /\ todo'[i] = todo[i + 1]
<1>1. /\ Tail(todo) \in Seq(Commands) /\ Len(Tail(todo)) = Len(todo) - 1
      /\ Head(todo) = todo[1] /\ Head(todo) \in Commands
      /\ Len(todo) \in Nat \ {0}
      /\ \A i \in 1..Len(Tail(todo)) : Tail(todo)[i] = todo[i + 1]
  BY HeadTailProperties, EmptySeq, LenProperties
<1> QED BY <1>1

\* No answer to them will reach the client any more.
LEMMA TodoOrphaned ==
  ASSUME todo \in Seq(Commands), todo' = Orphans
  PROVE  /\ todo' \in Seq(Commands) /\ Len(todo') = Len(todo)
         /\ \A i \in 1..Len(todo') :
              /\ i \in 1..Len(todo)
              /\ todo'[i].op = todo[i].op /\ todo'[i].arg = todo[i].arg
              /\ todo'[i].sent = todo[i].sent /\ ~todo'[i].live
<1>1. /\ Len(todo) \in Nat /\ DOMAIN todo = 1..Len(todo)
      /\ \A i \in 1..Len(todo) : todo[i] \in Commands
  BY LenProperties, ElementOfSeq
<1>2. \A i \in 1..Len(todo) : [todo[i] EXCEPT !.live = FALSE] \in Commands
  BY <1>1 DEF Commands
<1>3. todo' = [i \in 1..Len(todo) |-> [todo[i] EXCEPT !.live = FALSE]]
  BY <1>1 DEF Orphans
<1>4. todo' \in Seq(Commands) /\ Len(todo') = Len(todo)
  BY <1>1, <1>2, <1>3
<1>5. \A i \in 1..Len(todo) :
        /\ todo'[i].op = todo[i].op /\ todo'[i].arg = todo[i].arg
        /\ todo'[i].sent = todo[i].sent /\ ~todo'[i].live
  BY <1>1, <1>3 DEF Commands
<1> QED BY <1>4, <1>5

\* The backend is sent another one.
LEMMA TodoSent ==
  ASSUME todo \in Seq(Commands),
         NEW op \in {"block", "seek", "query"}, NEW arg \in Nat, op = "seek" => arg <= Size,
         todo' = Append(todo, Command(op, arg))
  PROVE  /\ todo' \in Seq(Commands) /\ Len(todo) \in Nat /\ Len(todo') = Len(todo) + 1
         /\ todo'[Len(todo) + 1] = Command(op, arg)
         /\ \A i \in 1..Len(todo) : todo'[i] = todo[i]
<1>1. Command(op, arg) \in Commands
  BY DEF Command, Commands
<1> QED BY <1>1, AppendProperties, LenProperties

LEMMA OnlyOne ==
  ASSUME NEW S, NEW s \in Seq(S), s # <<>>, Len(s) <= 1
  PROVE  Len(s) = 1 /\ Head(s) = s[1] /\ Tail(s) = <<>>
<1>1. Len(s) \in Nat /\ Len(s) # 0
  BY EmptySeq, LenProperties
<1>2. Len(s) = 1
  BY <1>1
<1>3. Head(s) = s[1] /\ Tail(s) \in Seq(S) /\ Len(Tail(s)) = 0
  BY <1>2, HeadTailProperties
<1> QED BY <1>2, <1>3, EmptySeq

LEMMA AnswerTaken ==
  ASSUME ControlType, NEW r, Receive(r)
  PROVE  /\ Len(answers) = 1 /\ answers[1].value = r /\ answers' = <<>>
         /\ answers # <<>> /\ todo' = todo /\ ctl' = ctl
<1>1. /\ answers \in Seq(Answers) /\ answers # <<>> /\ Len(answers) <= 1
      /\ answers' = Tail(answers) /\ r = Head(answers).value
  BY DEF ControlType, Receive
<1>2. Len(answers) = 1 /\ Head(answers) = answers[1] /\ Tail(answers) = <<>>
  BY <1>1, OnlyOne
<1> QED BY <1>1, <1>2 DEF Receive

-----------------------------------------------------------------------------
(* The bytes.                                                              *)

LEMMA DataSent ==
  ASSUME DataType, bpos \in 0..(Size - 1), data' = Append(data, bpos)
  PROVE  /\ data' \in Seq(0..(Size - 1)) /\ Len(data) \in Nat /\ Len(data') = Len(data) + 1
         /\ data'[Len(data) + 1] = bpos /\ \A i \in 1..Len(data) : data'[i] = data[i]
BY AppendProperties, LenProperties DEF DataType

LEMMA SliceType ==
  ASSUME DataType, NEW m \in Int, NEW n \in Int, m >= 1, n <= Len(data)
  PROVE  /\ SubSeq(data, m, n) \in Seq(0..(Size - 1))
         /\ Len(SubSeq(data, m, n)) = IF m <= n THEN n - m + 1 ELSE 0
         /\ \A i \in 1..(n - m + 1) : SubSeq(data, m, n)[i] = data[m + i - 1]
<1>1. data \in Seq(0..(Size - 1)) /\ Len(data) \in Nat
  BY LenProperties DEF DataType
<1>2. \A i \in m..n : i \in 1..Len(data)
  BY <1>1
<1>3. \A i \in 1..Len(data) : data[i] \in 0..(Size - 1)
  BY <1>1, ElementOfSeq
<1>4. \A i \in m..n : data[i] \in 0..(Size - 1)
  BY <1>2, <1>3
<1> QED BY <1>4, SubSeqProperties

LEMMA DataDropped ==
  ASSUME DataType, NEW n \in 0..Len(data), data' = Drop(data, n)
  PROVE  /\ data' \in Seq(0..(Size - 1)) /\ Len(data) \in Nat /\ Len(data') = Len(data) - n
         /\ \A i \in 1..Len(data') : i + n \in 1..Len(data) /\ data'[i] = data[i + n]
<1>1. Len(data) \in Nat /\ n \in Nat
  BY LenProperties DEF DataType
<1>2. /\ data' \in Seq(0..(Size - 1))
      /\ Len(data') = IF n + 1 <= Len(data) THEN Len(data) - (n + 1) + 1 ELSE 0
      /\ \A i \in 1..(Len(data) - (n + 1) + 1) : data'[i] = data[(n + 1) + i - 1]
  BY <1>1, SliceType DEF Drop
<1> QED BY <1>1, <1>2

LEMMA DataLost ==
  ASSUME DataType, data' = SubSeq(data, 1, arrived)
  PROVE  data' \in Seq(0..(Size - 1)) /\ Len(data') = arrived /\ Len(data') <= Len(data)
<1>1. Len(data) \in Nat /\ arrived \in 0..Len(data)
  BY LenProperties DEF DataType
<1>2. /\ SubSeq(data, 1, arrived) \in Seq(0..(Size - 1))
      /\ Len(SubSeq(data, 1, arrived)) = IF 1 <= arrived THEN arrived - 1 + 1 ELSE 0
  BY <1>1, SliceType
<1> QED BY <1>1, <1>2

\* How much one recv takes, and how much a read asks for.
LEMMA TakenType ==
  ASSUME DataType, ReadType, at = "poll"
  PROVE  /\ Taken \in Nat /\ Taken <= arrived /\ Taken <= want - got
         /\ want \in 1..MostRead /\ got \in Nat
BY TransferAssumption, LenProperties DEF DataType, ReadType, Taken, Lesser, MostRead

LEMMA LimitedType ==
  ASSUME NEW n \in 1..MaxRead
  PROVE  Limited(n) \in 1..MostRead /\ Limited(n) <= MaxRead /\ Limited(n) <= RcvBuf
BY TransferAssumption DEF Limited, Lesser, MostRead

LEMMA MostReadType == MostRead \in Nat /\ MostRead <= MaxRead /\ MostRead <= RcvBuf
BY TransferAssumption DEF Lesser, MostRead

-----------------------------------------------------------------------------
(* The types.                                                              *)

LEMMA InitOK == Init => IInv
<1> SUFFICES ASSUME Init PROVE IInv
  OBVIOUS
<1>1. data = <<>> /\ todo = <<>> /\ answers = <<>>
  BY DEF Init
<1>2. Len(data) = 0 /\ Len(todo) = 0 /\ Len(answers) = 0
  BY <1>1, EmptySeq
<1>3. data \in Seq(0..(Size - 1)) /\ todo \in Seq(Commands) /\ answers \in Seq(Answers)
  BY <1>1, EmptySeq
<1>4. TypeInv
  <2>1. DataType
    BY <1>2, <1>3, TransferAssumption DEF Init, DataType
  <2>2. ControlType
    BY <1>2, <1>3, TransferAssumption DEF Init, ControlType
  <2>3. ReadType
    BY TransferAssumption, MostReadType DEF Init, ReadType
  <2>4. Flags
    BY Zenon DEF Init, Flags
  <2> QED BY <2>1, <2>2, <2>3, <2>4 DEF TypeInv
<1>5. LockInv
  BY DEF Init, LockInv
<1>6. ControlInv
  BY <1>2 DEF Init, ControlInv, AnswerIsOwn
<1>7. CallInv
  BY <1>2 DEF Init, CallInv
<1>8. StepInv
  BY <1>2 DEF Init, StepInv, StepParts, InOrder, Waiting, Balance, Asked
<1> QED BY <1>4, <1>5, <1>6, <1>7, <1>8 DEF IInv

LEMMA FlagStep == Flags /\ [Next]_vars => Flags'
<1> USE DEF Flags, Backend, backendVars, readVars, fileVars
<1> SUFFICES ASSUME Flags, [Next]_vars PROVE Flags'
  OBVIOUS
<1>1. CASE BackendStep
  BY <1>1, Zenon DEF BackendStep, SendBlock, AnswerBlock, AnswerSeek, AnswerQuery, Arrive
<1>2. CASE BreakControl \/ BreakData
  BY <1>2, Zenon DEF BreakControl, BreakData
<1>3. CASE OtherStep
  <2>1. CASE OtherAsk
    BY <2>1, Zenon DEF OtherAsk, Other
  <2>2. CASE OtherAnswered
    BY <2>2, Zenon DEF OtherAnswered, Other
  <2>3. CASE OtherReopen
    BY <2>3, Zenon DEF OtherReopen, Other
  <2> QED BY <1>3, <2>1, <2>2, <2>3 DEF OtherStep
<1>4. CASE ReaderStep
  <2> USE DEF Reader, Return
  <2>1. CASE ReadAsk \/ SeekAsk
    BY <2>1, Zenon DEF ReadAsk, Request, SeekAsk
  <2>2. CASE \E again \in BOOLEAN : Polled(again) /\ UNCHANGED strayed
    <3>1. (Taken > 0) \in BOOLEAN
      OBVIOUS
    <3> QED BY <2>2, <3>1, Zenon DEF Polled
  <2>3. CASE Poll
    BY <2>2, <2>3, Zenon DEF Poll, Polled
  <2>4. CASE PollAnswer
    BY <2>2, <2>4, Zenon DEF PollAnswer, Polled
  <2>5. CASE PollBroken
    BY <2>5, Zenon DEF PollBroken, Polled
  <2>6. CASE PollFails
    BY <2>6, Zenon DEF PollFails, Quiet
  <2>7. CASE Drain
    BY <2>7, Zenon DEF Drain
  <2>8. CASE SeekAnswer
    BY <2>8, Zenon DEF SeekAnswer
  <2>9. CASE SeekFails
    BY <2>9, Zenon DEF SeekFails
  <2>10. CASE Flush
    BY <2>10, Zenon DEF Flush, Flushed
  <2>11. CASE FlushFails
    BY <2>11, Zenon DEF FlushFails, Flushed
  <2> QED BY <1>4, <2>1, <2>3, <2>4, <2>5, <2>6, <2>7, <2>8, <2>9, <2>10, <2>11 DEF ReaderStep
<1>5. CASE Call
  <2>1. CASE \E n \in 1..MaxRead : ReadBegin(n)
    BY <2>1, Zenon DEF ReadBegin, Reader, Quiet
  <2>2. CASE \E p \in 0..Size : SeekBegin(p)
    BY <2>2, Zenon DEF SeekBegin, Reader, Quiet
  <2>3. CASE OpenTransfer
    BY <2>3, Zenon DEF OpenTransfer
  <2> QED BY <1>5, <2>1, <2>2, <2>3 DEF Call
<1>6. CASE UNCHANGED vars
  BY <1>6, Zenon DEF vars
<1> QED BY <1>1, <1>2, <1>3, <1>4, <1>5, <1>6 DEF Next

LEMMA DataKept == DataType /\ UNCHANGED <<transfer, data, arrived, bpos>> => DataType'
BY DEF DataType

\* Received bytes leave the data connection.
LEMMA DataTaken ==
  ASSUME DataType, NEW n \in 0..arrived,
         data' = Drop(data, n), arrived' = arrived - n, UNCHANGED <<transfer, bpos>>
  PROVE  DataType'
<1>1. Len(data) \in Nat /\ n \in 0..Len(data)
  BY LenProperties DEF DataType
<1>2. data' \in Seq(0..(Size - 1)) /\ Len(data') = Len(data) - n
  BY <1>1, DataDropped
<1> QED BY <1>1, <1>2, TransferAssumption DEF DataType

LEMMA DataStep == DataType /\ ControlType /\ ReadType /\ [Next]_vars => DataType'
<1> USE DEF Backend
<1> SUFFICES ASSUME DataType, ControlType, ReadType, [Next]_vars PROVE DataType'
  OBVIOUS
<1>1. CASE SendBlock
  <2>1. /\ data' = Append(data, bpos) /\ bpos' = bpos + 1 /\ bpos \in 0..(Size - 1)
        /\ Len(data) < RcvBuf /\ UNCHANGED <<transfer, arrived>>
    BY <1>1 DEF SendBlock
  <2>2. data' \in Seq(0..(Size - 1)) /\ Len(data) \in Nat /\ Len(data') = Len(data) + 1
    BY <2>1, DataSent
  <2> QED BY <2>1, <2>2, TransferAssumption DEF DataType
<1>2. CASE AnswerBlock \/ AnswerQuery
  BY <1>2, DataKept DEF AnswerBlock, AnswerQuery
<1>3. CASE AnswerSeek
  <2>1. Head(todo) = todo[1] /\ todo[1] \in Commands
    BY <1>3, HeadTailProperties, EmptySeq, LenProperties DEF AnswerSeek, ControlType
  <2>2. bpos' \in 0..Size
    BY <1>3, <2>1 DEF AnswerSeek, Commands, DataType
  <2> QED BY <1>3, <2>2 DEF AnswerSeek, DataType
<1>4. CASE Arrive
  BY <1>4, LenProperties DEF Arrive, DataType
<1>5. CASE BreakControl
  BY <1>5, DataKept DEF BreakControl
<1>6. CASE BreakData
  <2>1. /\ data' = SubSeq(data, 1, arrived) /\ transfer' \in {"eof", "reset"}
        /\ UNCHANGED <<arrived, bpos>>
    BY <1>6 DEF BreakData
  <2>2. data' \in Seq(0..(Size - 1)) /\ Len(data') = arrived /\ Len(data') <= Len(data)
    BY <2>1, DataLost
  <2>3. Len(data) \in Nat /\ Len(data) <= RcvBuf /\ arrived \in Nat /\ bpos \in 0..Size
    BY LenProperties DEF DataType
  <2>4. Len(data') <= RcvBuf /\ arrived' \in 0..Len(data')
    BY <2>1, <2>2, <2>3, TransferAssumption
  <2> QED BY <2>1, <2>2, <2>3, <2>4 DEF DataType
<1>7. CASE OtherStep
  BY <1>7, DataKept DEF OtherStep, OtherAsk, OtherAnswered, OtherReopen, Other
<1>8. CASE ReadAsk \/ PollFails \/ Drain \/ SeekAsk \/ SeekAnswer \/ SeekFails
  BY <1>8, DataKept DEF ReadAsk, Request, PollFails, Drain, SeekAsk, SeekAnswer, SeekFails,
     Quiet, Reader, Return
<1>9. CASE Poll \/ PollAnswer \/ PollBroken
  <2>1. /\ data' = Drop(data, Taken) /\ arrived' = arrived - Taken /\ at = "poll"
        /\ UNCHANGED <<transfer, bpos>>
    BY <1>9 DEF Poll, PollAnswer, PollBroken, Polled, Return, Reader
  <2>2. Taken \in 0..arrived
    BY <2>1, TakenType, LenProperties DEF DataType
  <2> QED BY <2>1, <2>2, DataTaken
<1>10. CASE Flush \/ FlushFails
  <2>1. Unread \in Nat
    BY DEF Unread, ReadType
  <2>2. PICK n \in 0..arrived : Flushed(n)
    BY <1>10, <2>1, LenProperties DEF Flush, FlushFails, DataType
  <2> QED BY <2>2, DataTaken DEF Flushed, Return, Reader
<1>11. CASE \E n \in 1..MaxRead : ReadBegin(n)
  BY <1>11, DataKept DEF ReadBegin, Quiet, Reader
<1>12. CASE \E p \in 0..Size : SeekBegin(p)
  BY <1>12, DataKept DEF SeekBegin, Quiet, Reader
<1>13. CASE OpenTransfer
  BY <1>13, EmptySeq, TransferAssumption DEF OpenTransfer, DataType
<1>14. CASE UNCHANGED vars
  BY <1>14, DataKept DEF vars, backendVars
<1> QED BY <1>1, <1>2, <1>3, <1>4, <1>5, <1>6, <1>7, <1>8, <1>9, <1>10, <1>11, <1>12,
           <1>13, <1>14 DEF Next, BackendStep, ReaderStep, Call

\* The commands and the answers after the backend has answered ...
LEMMA AnswerType ==
  ASSUME ControlType, ControlInv, todo # <<>>, NEW r \in Int, Answer(r),
         UNCHANGED <<ctl, lock, other>>
  PROVE  ControlType'
<1>1. /\ todo' \in Seq(Commands) /\ Len(todo') = Len(todo) - 1 /\ Len(todo) \in Nat
      /\ 1 \in 1..Len(todo) /\ Head(todo) = todo[1] /\ todo[1] \in Commands
  BY TodoDone, LenProperties DEF Answer, ControlType
<1>2. Len(todo') <= MaxTodo
  BY <1>1, TransferAssumption DEF ControlType
<1>3. CASE todo[1].live /\ ctl = "open"
  <2> DEFINE a == [op |-> Head(todo).op, value |-> r]
  <2>1. answers = <<>> /\ answers' = Append(answers, a)
    BY <1>1, <1>3, Zenon DEF Answer, ControlInv
  <2>2. a \in Answers
    BY <1>1 DEF Commands, Answers
  <2> HIDE DEF a
  <2>3. answers' \in Seq(Answers) /\ Len(answers') = 1
    BY <2>1, <2>2, AppendProperties, EmptySeq
  <2> QED BY <1>1, <1>2, <2>3 DEF ControlType
<1>4. CASE ~(todo[1].live /\ ctl = "open")
  BY <1>1, <1>2, <1>4 DEF Answer, ControlType
<1> QED BY <1>3, <1>4

\* ... and after the client has used the connection.
LEMMA ControlUseType ==
  ASSUME ControlType, lock' \in {"none", "reader", "other"}, other' \in {"idle", "wait"},
         \/ Hang
         \/ \E r \in Int : Receive(r)
         \/ Send("query", 0)
         \/ Send("block", want) /\ want \in Nat
         \/ Send("seek", want) /\ want \in 0..Size
         \/ UNCHANGED <<ctl, todo, answers>>
  PROVE  ControlType'
<1>1. CASE Hang
  <2>1. todo' \in Seq(Commands) /\ Len(todo') = Len(todo)
    BY <1>1, TodoOrphaned DEF Hang, ControlType
  <2> QED BY <1>1, <2>1, EmptySeq DEF Hang, ControlType
<1>2. CASE \E r \in Int : Receive(r)
  <2>1. answers' = <<>> /\ todo' = todo /\ ctl' = ctl
    BY <1>2, AnswerTaken
  <2>2. <<>> \in Seq(Answers) /\ Len(<<>>) <= 1
    BY EmptySeq
  <2> QED BY <2>1, <2>2 DEF ControlType
<1>3. ASSUME NEW op \in {"block", "seek", "query"}, NEW arg \in Nat,
             op = "seek" => arg <= Size, Send(op, arg)
      PROVE  ControlType'
  <2>1. CASE ctl = "open"
    <3>1. todo' = Append(todo, Command(op, arg)) /\ Len(todo) < MaxTodo
      BY <1>3, <2>1 DEF Send
    <3>2. todo' \in Seq(Commands) /\ Len(todo) \in Nat /\ Len(todo') = Len(todo) + 1
      BY <1>3, <3>1, TodoSent DEF ControlType
    <3>3. Len(todo') <= MaxTodo
      BY <3>1, <3>2, TransferAssumption
    <3> QED BY <1>3, <3>2, <3>3 DEF Send, ControlType
  <2>2. CASE ctl # "open"
    BY <1>3, <2>2 DEF Send, ControlType
  <2> QED BY <2>1, <2>2
<1>4. CASE UNCHANGED <<ctl, todo, answers>>
  BY <1>4 DEF ControlType
<1>5. 0 \in Nat /\ (want \in 0..Size => want \in Nat /\ want <= Size)
  BY TransferAssumption
<1> QED BY <1>1, <1>2, <1>3, <1>4, <1>5

LEMMA ControlTypeStep == TypeInv /\ ControlInv /\ [Next]_vars => ControlType'
<1> USE DEF Backend
<1> SUFFICES ASSUME TypeInv, ControlInv, [Next]_vars PROVE ControlType'
  OBVIOUS
<1>0. /\ ControlType /\ ReadType
      /\ lock \in {"none", "reader", "other"} /\ other \in {"idle", "wait"}
  BY DEF TypeInv, ControlType
<1>1. CASE SendBlock
  <2>1. todo' \in Seq(Commands) /\ Len(todo') = Len(todo)
    BY <1>0, <1>1, TodoCounted DEF SendBlock, ControlType
  <2> QED BY <1>0, <1>1, <2>1 DEF SendBlock, ControlType
<1>2. CASE AnswerBlock \/ AnswerSeek \/ AnswerQuery
  <2>1. todo # <<>> /\ UNCHANGED <<ctl, lock, other>>
    BY <1>2 DEF AnswerBlock, AnswerSeek, AnswerQuery
  <2>2. Head(todo).sent \in Int /\ Head(todo).arg \in Int
    BY <1>0, <2>1, HeadTailProperties DEF ControlType, Commands
  <2>3. PICK r \in Int : Answer(r)
    BY <1>2, <2>2 DEF AnswerBlock, AnswerSeek, AnswerQuery
  <2> QED BY <1>0, <2>1, <2>3, AnswerType
<1>3. CASE BreakControl
  <2>1. todo' \in Seq(Commands) /\ Len(todo') = Len(todo)
    BY <1>0, <1>3, TodoOrphaned DEF BreakControl, ControlType
  <2> QED BY <1>0, <1>3, <2>1 DEF BreakControl, ControlType
<1>4. CASE Arrive \/ BreakData
  BY <1>0, <1>4, ControlUseType DEF Arrive, BreakData
<1>5. CASE OtherAsk \/ OtherAnswered
  <2>1. lock' \in {"none", "reader", "other"} /\ other' \in {"idle", "wait"}
    BY <1>0, <1>5 DEF OtherAsk, OtherAnswered, Other
  <2>2. Hang \/ (\E r \in Int : Receive(r)) \/ Send("query", 0)
    BY <1>5 DEF OtherAsk, OtherAnswered, SendFails, NoAnswer
  <2> QED BY <1>0, <2>1, <2>2, ControlUseType
<1>6. CASE OtherReopen
  BY <1>0, <1>6 DEF OtherReopen, Other, ControlType
<1>7. CASE ReadAsk \/ SeekAsk
  <2>1. lock' \in {"none", "reader", "other"} /\ other' \in {"idle", "wait"}
    BY <1>0, <1>7 DEF ReadAsk, Request, SeekAsk, Reader, Return
  <2>2. Hang \/ (Send("block", want) /\ at = "ask") \/ (Send("seek", want) /\ at = "seek")
    BY <1>7 DEF ReadAsk, Request, SeekAsk, Reader, Return, SendFails
  <2>3. (at = "ask" => want \in Nat) /\ (at = "seek" => want \in 0..Size)
    BY <1>0, MostReadType DEF ReadType
  <2> QED BY <1>0, <2>1, <2>2, <2>3, ControlUseType
<1>8. CASE Poll \/ PollFails \/ Flush \/ FlushFails
  <2>1. UNCHANGED <<ctl, todo, answers, other>> /\ lock' \in {lock, "none"}
    BY <1>8 DEF Poll, PollFails, Flush, FlushFails, Polled, Flushed, Quiet, Reader, Return
  <2> QED BY <1>0, <2>1, ControlUseType
<1>9. CASE PollAnswer \/ PollBroken \/ Drain \/ SeekAnswer \/ SeekFails
  <2>1. lock' \in {"none", "reader", "other"} /\ other' \in {"idle", "wait"}
    BY <1>0, <1>9 DEF PollAnswer, PollBroken, Drain, SeekAnswer, SeekFails, Polled, Reader, Return
  <2>2. Hang \/ \E r \in Int : Receive(r)
    <3>1. (\A r \in -1..MaxRead : r \in Int) /\ (\A r \in -1..Size : r \in Int)
      BY TransferAssumption
    <3>2. CASE PollAnswer \/ PollBroken
      BY <3>1, <3>2 DEF PollAnswer, PollBroken, NoAnswer
    <3>3. CASE Drain
      BY <3>1, <3>3 DEF Drain, NoAnswer
    <3>4. CASE SeekAnswer \/ SeekFails
      BY <3>1, <3>4 DEF SeekAnswer, SeekFails, NoAnswer
    <3> QED BY <1>9, <3>2, <3>3, <3>4
  <2> QED BY <1>0, <2>1, <2>2, ControlUseType
<1>10. CASE \E n \in 1..MaxRead : ReadBegin(n)
  BY <1>0, <1>10, ControlUseType DEF ReadBegin, Quiet, Reader
<1>11. CASE \E p \in 0..Size : SeekBegin(p)
  BY <1>0, <1>11, ControlUseType DEF SeekBegin, Quiet, Reader
<1>12. CASE OpenTransfer
  BY <1>0, <1>12, EmptySeq, TransferAssumption DEF OpenTransfer, ControlType
<1>13. CASE UNCHANGED vars
  BY <1>0, <1>13, ControlUseType DEF vars, backendVars
<1> QED BY <1>1, <1>2, <1>3, <1>4, <1>5, <1>6, <1>7, <1>8, <1>9, <1>10, <1>11, <1>12,
           <1>13 DEF Next, BackendStep, OtherStep, ReaderStep, Call

\* What the reading thread has in hand.
LEMMA PolledType ==
  ASSUME DataType, ReadType, NEW again, Polled(again), req' \in Int
  PROVE  ReadType'
<1>1. /\ at = "poll" /\ pos' = pos + Taken
      /\ \/ at' = "poll" /\ got' = got + Taken /\ want' = want
         \/ at' = "idle" /\ got' = 0 /\ want' = 0
  BY DEF Polled, Reader, Return
<1>2. /\ Taken \in Nat /\ Taken <= want - got /\ want \in 1..MostRead /\ got \in Nat
      /\ MostRead \in Nat
  BY <1>1, TakenType, MostReadType
<1> QED BY <1>1, <1>2, TransferAssumption DEF ReadType

LEMMA ReadTypeStep == TypeInv /\ LockInv /\ [Next]_vars => ReadType'
<1> USE DEF Backend, fileVars, readVars
<1> SUFFICES ASSUME TypeInv, LockInv, [Next]_vars PROVE ReadType'
  OBVIOUS
<1>0. ReadType /\ DataType /\ ControlType
  BY DEF TypeInv
<1>k. CASE UNCHANGED <<fileVars, at, want, got>>
  BY <1>0, <1>k, MostReadType DEF ReadType
<1>r. CASE at' = "idle" /\ want' = 0 /\ got' = 0 /\ UNCHANGED <<pos, req>>
  BY <1>0, <1>r, MostReadType, TransferAssumption DEF ReadType
<1>1. CASE BackendStep \/ BreakControl \/ BreakData
  BY <1>1, <1>k DEF BackendStep, SendBlock, AnswerBlock, AnswerSeek, AnswerQuery, Arrive,
     BreakControl, BreakData
<1>2. CASE OtherStep
  BY <1>2, <1>k DEF OtherStep, OtherAsk, OtherAnswered, OtherReopen, Other
<1>3. CASE ReadAsk \/ SeekAsk
  <2>1. CASE Return("ask") \/ Return("seek")
    BY <1>3, <2>1, <1>r DEF ReadAsk, Request, SeekAsk, Return, Reader
  <2>2. CASE ~(Return("ask") \/ Return("seek"))
    BY <1>0, <1>3, <2>2 DEF ReadAsk, Request, SeekAsk, Reader, ReadType
  <2> QED BY <2>1, <2>2
<1>4. CASE Poll \/ PollBroken
  BY <1>0, <1>4, PolledType DEF Poll, PollBroken, ReadType
<1>5. CASE PollAnswer
  <2>1. PICK r \in -1..MaxRead :
          /\ \E again \in BOOLEAN : Polled(again)
          /\ req' \in {req, req + r}
    BY <1>5 DEF PollAnswer
  <2>2. req' \in Int
    BY <1>0, <2>1, TransferAssumption DEF ReadType
  <2> QED BY <1>0, <2>1, <2>2, PolledType
<1>6. CASE PollFails
  <2>1. CASE Return("poll")
    BY <1>6, <2>1, <1>r DEF PollFails, Return, Reader, Quiet
  <2>2. CASE ~Return("poll")
    BY <1>0, <1>6, <2>2 DEF PollFails, Reader, Quiet, ReadType
  <2> QED BY <2>1, <2>2
<1>7. CASE Drain \/ SeekFails
  BY <1>7, <1>r DEF Drain, SeekFails, Return, Reader
<1>8. CASE SeekAnswer
  <2>1. PICK r \in -1..Size : want' = r
    BY <1>8 DEF SeekAnswer
  <2>2. want' \in -1..(Size + MaxRead)
    BY <2>1, TransferAssumption
  <2> QED BY <1>0, <1>8, <2>2 DEF SeekAnswer, Reader, ReadType
<1>9. CASE Flush \/ FlushFails
  <2>1. pos' = want /\ req' = want /\ Return("flush")
    BY <1>9 DEF Flush, FlushFails, Flushed
  <2> QED BY <1>0, <2>1, MostReadType, TransferAssumption DEF ReadType, Return, Reader
<1>10. CASE \E n \in 1..MaxRead : ReadBegin(n)
  <2>1. PICK n \in 1..MaxRead : ReadBegin(n)
    BY <1>10
  <2>2. want' \in 1..MostRead /\ at = "idle" /\ at' \in {"ask", "poll"} /\ UNCHANGED <<pos, req, got>>
    BY <2>1, LimitedType DEF ReadBegin, Reader, Quiet
  <2> QED BY <1>0, <2>2, MostReadType, TransferAssumption DEF ReadType
<1>11. CASE \E p \in 0..Size : SeekBegin(p)
  <2>1. PICK p \in 0..Size : SeekBegin(p)
    BY <1>11
  <2>2. want' \in 0..Size /\ at = "idle" /\ at' = "seek" /\ UNCHANGED <<pos, req, got>>
    BY <2>1 DEF SeekBegin, Reader, Quiet
  <2> QED BY <1>0, <2>2, TransferAssumption DEF ReadType
<1>12. CASE OpenTransfer
  BY <1>0, <1>12 DEF OpenTransfer, ReadType
<1>13. CASE UNCHANGED vars
  BY <1>13, <1>k DEF vars
<1> QED BY <1>1, <1>2, <1>3, <1>4, <1>5, <1>6, <1>7, <1>8, <1>9, <1>10, <1>11, <1>12,
           <1>13 DEF Next, ReaderStep, Call

LEMMA TypeStep == TypeInv /\ LockInv /\ ControlInv /\ [Next]_vars => TypeInv'
BY DataStep, ControlTypeStep, ReadTypeStep, FlagStep DEF TypeInv

-----------------------------------------------------------------------------
(* Who holds m_mutex, and whose the commands and the answers are.          *)

LEMMA LockStep == TypeInv /\ LockInv /\ [Next]_vars => LockInv'
<1> USE DEF Backend, LockInv, Free, Asked
<1> SUFFICES ASSUME TypeInv, LockInv, [Next]_vars PROVE LockInv'
  OBVIOUS
<1>0. lock \in {"none", "reader", "other"} /\ other \in {"idle", "wait"}
  BY DEF TypeInv, ControlType
<1>1. CASE BackendStep \/ BreakControl \/ BreakData
  BY <1>1 DEF BackendStep, SendBlock, AnswerBlock, AnswerSeek, AnswerQuery, Arrive,
     BreakControl, BreakData
<1>2. CASE OtherStep
  BY <1>0, <1>2 DEF OtherStep, OtherAsk, OtherAnswered, OtherReopen, Other
<1>3. CASE ReadAsk \/ SeekAsk
  BY <1>0, <1>3 DEF ReadAsk, Request, SeekAsk, Reader, Return
<1>4. CASE Poll
  BY <1>0, <1>4 DEF Poll, Polled, Reader, Return
<1>5. CASE PollAnswer \/ PollBroken
  BY <1>0, <1>5 DEF PollAnswer, PollBroken, Polled, Reader, Return
<1>6. CASE PollFails \/ Drain
  BY <1>0, <1>6 DEF PollFails, Quiet, Drain, Reader, Return
<1>7. CASE SeekAnswer \/ SeekFails
  BY <1>0, <1>7 DEF SeekAnswer, SeekFails, Reader, Return
<1>8. CASE Flush \/ FlushFails
  BY <1>0, <1>8 DEF Flush, FlushFails, Flushed, Reader, Return
<1>9. CASE \E n \in 1..MaxRead : ReadBegin(n)
  BY <1>0, <1>9 DEF ReadBegin, Quiet, Reader
<1>10. CASE \E p \in 0..Size : SeekBegin(p)
  BY <1>0, <1>10 DEF SeekBegin, Quiet, Reader
<1>11. CASE OpenTransfer
  BY <1>11 DEF OpenTransfer
<1>12. CASE UNCHANGED vars
  BY <1>12 DEF vars
<1> QED BY <1>1, <1>2, <1>3, <1>4, <1>5, <1>6, <1>7, <1>8, <1>9, <1>10, <1>11, <1>12
        DEF Next, ReaderStep, Call

\* Nothing is left to be answered.
NoneLive == \A i \in 1..Len(todo) : ~todo[i].live

LEMMA Silent ==
  ASSUME answers = <<>>, NoneLive
  PROVE  ControlInv
BY EmptySeq DEF ControlInv, AnswerIsOwn, NoneLive

LEMMA HangsSilent ==
  ASSUME TypeInv, Hang
  PROVE  ControlInv'
<1>1. NoneLive'
  BY TodoOrphaned DEF Hang, NoneLive, TypeInv, ControlType
<1>2. answers' = <<>>
  BY DEF Hang
<1> QED BY <1>1, <1>2, EmptySeq DEF ControlInv, AnswerIsOwn, NoneLive

\* While an answer is there, or no thread waits for one, no command is live.
LEMMA NothingLive ==
  ASSUME TypeInv, ControlInv, lock = "none" \/ answers # <<>> \/ ctl # "open" \/ at = "flush"
  PROVE  NoneLive
<1>1. CASE lock = "none"
  <2>1. Expected = "nothing"
    BY <1>1 DEF Expected
  <2>2. \A i \in 1..Len(todo) : todo[i].op # "nothing"
    BY ElementOfSeq DEF TypeInv, ControlType, Commands
  <2> QED BY <2>1, <2>2 DEF ControlInv, NoneLive
<1>2. CASE lock # "none"
  BY <1>2, Zenon DEF ControlInv, NoneLive
<1> QED BY <1>1, <1>2

LEMMA FreeSilent ==
  ASSUME TypeInv, ControlInv, lock = "none"
  PROVE  answers = <<>> /\ NoneLive
<1>1. Expected = "nothing"
  BY DEF Expected
<1>2. answers \in Seq(Answers)
  BY DEF TypeInv, ControlType
<1>3. SUFFICES ASSUME answers # <<>> PROVE FALSE
  BY NothingLive
<1>4. 1 \in 1..Len(answers)
  BY <1>2, <1>3, EmptySeq, LenProperties
<1>5. answers[1] \in Answers
  BY <1>2, <1>4, ElementOfSeq
<1> QED BY <1>1, <1>4, <1>5 DEF ControlInv, AnswerIsOwn, Answers

LEMMA ReceivedSilent ==
  ASSUME TypeInv, ControlInv, NEW r, Receive(r)
  PROVE  ControlInv' /\ answers' = <<>> /\ todo' = todo /\ NoneLive
<1>1. answers' = <<>> /\ answers # <<>> /\ todo' = todo
  BY AnswerTaken DEF TypeInv
<1>2. NoneLive
  BY <1>1, NothingLive
<1>3. NoneLive'
  BY <1>1, <1>2 DEF NoneLive
<1> QED BY <1>1, <1>2, <1>3, EmptySeq DEF ControlInv, AnswerIsOwn, NoneLive

LEMMA SentSilent ==
  ASSUME TypeInv, ControlInv, lock = "none", NEW op \in {"block", "seek", "query"},
         NEW arg \in Nat, op = "seek" => arg <= Size, Send(op, arg),
         Expected' = op, at' # "flush"
  PROVE  ControlInv'
<1>1. answers = <<>> /\ answers' = <<>> /\ NoneLive /\ ctl' = ctl /\ ctl # "hung"
  BY FreeSilent DEF Send
<1>2. CASE ctl = "open"
  <2>1. /\ Len(todo) \in Nat /\ Len(todo') = Len(todo) + 1
        /\ todo'[Len(todo) + 1] = Command(op, arg)
        /\ \A i \in 1..Len(todo) : todo'[i] = todo[i]
    BY <1>2, TodoSent DEF Send, TypeInv, ControlType
  <2>2. \A i \in 1..Len(todo') :
          todo'[i].live => i = Len(todo') /\ todo'[i].op = op
    BY <1>1, <2>1 DEF NoneLive, Command
  <2> QED BY <1>1, <1>2, <2>2, EmptySeq DEF ControlInv, AnswerIsOwn
<1>3. CASE ctl # "open"
  <2>1. NoneLive'
    BY <1>1, <1>3 DEF Send, NoneLive
  <2> QED BY <1>1, <2>1, EmptySeq DEF ControlInv, AnswerIsOwn, NoneLive
<1> QED BY <1>2, <1>3

LEMMA ControlKept ==
  ASSUME ControlInv, UNCHANGED <<todo, answers, ctl>>, Expected' = Expected,
         at' = "flush" => at = "flush"
  PROVE  ControlInv'
BY DEF ControlInv, AnswerIsOwn

LEMMA AnsweredOwn ==
  ASSUME TypeInv, ControlInv, todo # <<>>, NEW r \in Int, Answer(r),
         UNCHANGED <<ctl, lock, at>>
  PROVE  /\ ControlInv'
         /\ Len(todo') = Len(todo) - 1 /\ Len(todo) \in Nat /\ 1 \in 1..Len(todo)
         /\ Head(todo) = todo[1] /\ todo[1] \in Commands
         /\ \A i \in 1..Len(todo') : i + 1 \in 1..Len(todo) /\ todo'[i] = todo[i + 1]
         /\ \/ answers' = answers
            \/ /\ Len(answers') = 1 /\ answers'[1].value = r /\ Len(todo) = 1
               /\ todo[1].op = Expected
<1>1. /\ Len(todo') = Len(todo) - 1 /\ Len(todo) \in Nat /\ 1 \in 1..Len(todo)
      /\ Head(todo) = todo[1] /\ todo[1] \in Commands
      /\ \A i \in 1..Len(todo') : i + 1 \in 1..Len(todo) /\ todo'[i] = todo[i + 1]
  BY TodoDone, LenProperties DEF Answer, TypeInv, ControlType
<1>2. Expected' = Expected
  BY DEF Expected
<1>3. CASE todo[1].live /\ ctl = "open"
  <2>1. answers = <<>> /\ todo[1].op = Expected /\ 1 = Len(todo) /\ at # "flush"
    BY <1>1, <1>3 DEF ControlInv
  <2> DEFINE a == [op |-> Head(todo).op, value |-> r]
  <2>2. a \in Answers /\ a.op = Expected /\ a.value = r
    BY <1>1, <2>1 DEF Answers, Commands
  <2>3. answers' = Append(answers, a)
    BY <1>1, <1>3 DEF Answer
  <2> HIDE DEF a
  <2>4. Len(answers') = 1 /\ answers'[1] = a
    BY <2>1, <2>2, <2>3, AppendProperties, EmptySeq
  <2>5. Len(todo) = 1 /\ Len(todo') = Len(todo) - 1
    BY <1>1, <2>1
  <2>6. ControlInv'
    BY <1>2, <1>3, <2>2, <2>4, <2>5 DEF ControlInv, AnswerIsOwn
  <2> QED BY <1>1, <2>1, <2>2, <2>4, <2>6
<1>4. CASE ~(todo[1].live /\ ctl = "open")
  <2>1. answers' = answers
    BY <1>1, <1>4 DEF Answer
  <2>2. \A i \in 1..Len(todo') :
          todo'[i].live => /\ todo'[i].op = Expected' /\ i = Len(todo')
                           /\ answers' = <<>> /\ ctl' = "open" /\ at' # "flush"
    BY <1>1, <1>2, <2>1 DEF ControlInv
  <2>3. AnswerIsOwn' /\ (ctl' = "hung" \/ at' = "flush" => answers' = <<>>)
    BY <1>2, <2>1 DEF ControlInv, AnswerIsOwn
  <2>4. ControlInv'
    BY <2>2, <2>3 DEF ControlInv
  <2> QED BY <1>1, <2>1, <2>4
<1> QED BY <1>3, <1>4

LEMMA ControlStep == TypeInv /\ LockInv /\ ControlInv /\ [Next]_vars => ControlInv'
<1> USE DEF Backend, fileVars, readVars, Free
<1> SUFFICES ASSUME TypeInv, LockInv, ControlInv, [Next]_vars PROVE ControlInv'
  OBVIOUS
<1>0. /\ lock \in {"none", "reader", "other"}
      /\ at \in {"idle", "ask", "poll", "drain", "seek", "seeking", "flush"}
  BY DEF TypeInv, ControlType, ReadType
<1>s. CASE answers' = <<>> /\ NoneLive'
  BY <1>s, EmptySeq DEF ControlInv, AnswerIsOwn, NoneLive
<1>1. CASE SendBlock
  <2>1. /\ Len(todo') = Len(todo) /\ 1 \in 1..Len(todo)
        /\ todo'[1] = [todo[1] EXCEPT !.sent = @ + 1]
        /\ \A i \in 1..Len(todo) : i # 1 => todo'[i] = todo[i]
    BY <1>1, TodoCounted DEF SendBlock, TypeInv, ControlType
  <2>2. todo[1] \in Commands
    BY <2>1, ElementOfSeq DEF TypeInv, ControlType
  <2>3. \A i \in 1..Len(todo) : todo'[i].live = todo[i].live /\ todo'[i].op = todo[i].op
    BY <2>1, <2>2 DEF Commands
  <2>4. Expected' = Expected /\ UNCHANGED <<answers, ctl, at>>
    BY <1>1 DEF Expected, SendBlock
  <2> QED BY <2>1, <2>3, <2>4 DEF ControlInv, AnswerIsOwn
<1>2. CASE AnswerBlock \/ AnswerSeek \/ AnswerQuery
  <2>1. todo # <<>> /\ UNCHANGED <<ctl, lock, at>>
    BY <1>2 DEF AnswerBlock, AnswerSeek, AnswerQuery
  <2>2. Head(todo).sent \in Int /\ Head(todo).arg \in Int
    BY <2>1, HeadTailProperties DEF TypeInv, ControlType, Commands
  <2>3. PICK r \in Int : Answer(r)
    BY <1>2, <2>2 DEF AnswerBlock, AnswerSeek, AnswerQuery
  <2> QED BY <2>1, <2>3, AnsweredOwn
<1>3. CASE BreakControl
  <2>1. NoneLive' /\ UNCHANGED <<answers, lock, at>> /\ ctl = "open"
    BY <1>3, TodoOrphaned DEF BreakControl, NoneLive, TypeInv, ControlType
  <2>2. Expected' = Expected
    BY <2>1 DEF Expected
  <2>3. AnswerIsOwn' /\ (ctl' = "hung" \/ at' = "flush" => answers' = <<>>)
    BY <1>3, <2>1, <2>2 DEF BreakControl, ControlInv, AnswerIsOwn
  <2> QED BY <2>1, <2>3 DEF ControlInv, NoneLive
<1>4. CASE Arrive \/ BreakData
  BY <1>4, ControlKept DEF Arrive, BreakData, Expected
<1>5. CASE OtherAsk
  <2>1. CASE Send("query", 0) /\ lock' = "other"
    BY <1>5, <2>1, SentSilent DEF OtherAsk, Other, Expected, LockInv
  <2>2. CASE SendFails
    BY <2>2, HangsSilent DEF SendFails
  <2> QED BY <1>5, <2>1, <2>2 DEF OtherAsk
<1>6. CASE OtherAnswered
  BY <1>6, ReceivedSilent, HangsSilent DEF OtherAnswered, NoAnswer
<1>7. CASE OtherReopen
  <2>1. NoneLive /\ answers = <<>> /\ UNCHANGED <<todo, answers>>
    BY <1>7, NothingLive DEF OtherReopen, ControlInv
  <2> QED BY <1>s, <2>1 DEF NoneLive
<1>8. CASE ReadAsk \/ SeekAsk
  <2>1. CASE SendFails
    BY <2>1, HangsSilent DEF SendFails
  <2>2. CASE ReadAsk /\ ~SendFails
    <3>1. lock = "none" /\ Send("block", want) /\ lock' = "reader" /\ at' = "poll" /\ at = "ask"
      BY <2>2 DEF ReadAsk, Request, Reader
    <3>2. want \in Nat /\ Expected' = "block"
      BY <3>1, MostReadType DEF TypeInv, ReadType, Expected
    <3> QED BY <3>1, <3>2, SentSilent
  <2>3. CASE SeekAsk /\ ~SendFails
    <3>1. lock = "none" /\ Send("seek", want) /\ lock' = "reader" /\ at' = "seeking" /\ at = "seek"
      BY <2>3 DEF SeekAsk, Reader
    <3>2. want \in Nat /\ want <= Size /\ Expected' = "seek"
      BY <3>1, TransferAssumption DEF TypeInv, ReadType, Expected
    <3> QED BY <3>1, <3>2, SentSilent
  <2> QED BY <1>8, <2>1, <2>2, <2>3
<1>9. CASE Poll \/ PollFails
  <2>1. /\ at = "poll" /\ at' \in {"poll", "idle", "drain"}
        /\ UNCHANGED <<todo, answers, ctl, lock>>
    BY <1>9 DEF Poll, PollFails, Polled, Quiet, Reader, Return
  <2>2. Expected' = Expected
    BY <1>0, <2>1 DEF Expected
  <2> QED BY <2>1, <2>2, ControlKept
<1>10. CASE PollAnswer \/ PollBroken
  BY <1>10, ReceivedSilent, HangsSilent DEF PollAnswer, PollBroken, NoAnswer
<1>11. CASE Drain \/ SeekAnswer \/ SeekFails
  BY <1>11, ReceivedSilent, HangsSilent DEF Drain, SeekAnswer, SeekFails, NoAnswer
<1>12. CASE Flush \/ FlushFails
  <2>1. at = "flush" /\ UNCHANGED <<todo, answers, ctl>>
    BY <1>12 DEF Flush, FlushFails, Flushed, Reader, Return
  <2>2. NoneLive /\ answers = <<>>
    BY <2>1, NothingLive DEF ControlInv
  <2> QED BY <1>s, <2>1, <2>2 DEF NoneLive
<1>13. CASE (\E n \in 1..MaxRead : ReadBegin(n)) \/ \E p \in 0..Size : SeekBegin(p)
  <2>1. /\ at = "idle" /\ at' \in {"ask", "poll", "seek"}
        /\ UNCHANGED <<todo, answers, ctl, lock>>
    BY <1>13 DEF ReadBegin, SeekBegin, Reader, Quiet
  <2>2. Expected' = Expected
    BY <2>1 DEF Expected, LockInv
  <2> QED BY <2>1, <2>2, ControlKept
<1>14. CASE OpenTransfer
  <2>1. answers = <<>> /\ answers' = <<>> /\ todo' = <<>>
    BY <1>14, FreeSilent DEF OpenTransfer
  <2> QED BY <1>s, <2>1, EmptySeq DEF NoneLive
<1>15. CASE UNCHANGED vars
  BY <1>15, ControlKept DEF vars, backendVars, Expected
<1> QED BY <1>1, <1>2, <1>3, <1>4, <1>5, <1>6, <1>7, <1>8, <1>9, <1>10, <1>11, <1>12,
           <1>13, <1>14, <1>15 DEF Next, BackendStep, OtherStep, ReaderStep, Call

-----------------------------------------------------------------------------
(* Which commands there are.                                               *)

\* A read waits for its first command, or a seek; the reader has no other.
NoneAsked == \A i \in 1..Len(todo) : todo[i].op = "query"

\* No call waits for an answer.
LEMMA NothingAsked ==
  ASSUME TypeInv, LockInv, CallInv, ~strayed,
         answers # <<>> \/ ~((Asked /\ at \in {"poll", "drain"}) \/ at = "seeking")
  PROVE  NoneAsked
<1>1. \A i \in 1..Len(todo) : todo[i].op \in {"block", "seek", "query"}
  BY ElementOfSeq DEF TypeInv, ControlType, Commands
<1> QED BY <1>1 DEF CallInv, NoneAsked

\* Then a step that adds none keeps it so.
LEMMA AskedKept ==
  ASSUME NoneAsked, UNCHANGED todo \/ (todo' = Orphans /\ todo \in Seq(Commands)) \/ todo' = <<>>
  PROVE  CallInv'
<1>1. \A i \in 1..Len(todo') : todo'[i].op = "query"
  BY TodoOrphaned, EmptySeq DEF NoneAsked
<1> QED BY <1>1 DEF CallInv

LEMMA Appended ==
  ASSUME TypeInv, LockInv, CallInv, ~strayed, lock = "none",
         NEW op \in {"block", "seek", "query"}, NEW arg \in Nat, op = "seek" => arg <= Size,
         Send(op, arg)
  PROVE  /\ Len(todo) \in Nat /\ Len(todo') \in Nat /\ answers' = answers
         /\ \A i \in 1..Len(todo') : \/ todo'[i].op = "query"
                                     \/ i = Len(todo') /\ todo'[i] = Command(op, arg)
<1>1. NoneAsked
  BY NothingAsked DEF LockInv, Asked
<1>2. CASE ctl = "open"
  <2>1. /\ Len(todo) \in Nat /\ Len(todo') = Len(todo) + 1
        /\ todo'[Len(todo) + 1] = Command(op, arg)
        /\ \A i \in 1..Len(todo) : todo'[i] = todo[i]
    BY <1>2, TodoSent DEF Send, TypeInv, ControlType
  <2> QED BY <1>1, <2>1 DEF Send, NoneAsked
<1>3. CASE ctl # "open"
  BY <1>1, <1>3, LenProperties DEF Send, NoneAsked, TypeInv, ControlType
<1> QED BY <1>2, <1>3

\* Only opening a file puts data and requests in step, or connects.
LEMMA OnlyOpened ==
  ASSUME Next, ~OpenTransfer
  PROVE  (strayed => strayed') /\ (transfer' = "open" => transfer = "open")
<1> USE DEF Backend, Reader, Return
<1>1. CASE BackendStep \/ BreakControl \/ BreakData
  BY <1>1 DEF BackendStep, SendBlock, AnswerBlock, AnswerSeek, AnswerQuery, Arrive,
     BreakControl, BreakData
<1>2. CASE OtherStep
  BY <1>2 DEF OtherStep, OtherAsk, OtherAnswered, OtherReopen, Other
<1>3. CASE ReadAsk \/ SeekAsk \/ SeekAnswer \/ SeekFails \/ Drain
  <2>1. CASE ReadAsk \/ SeekAsk
    BY <2>1 DEF ReadAsk, Request, SeekAsk
  <2>2. CASE SeekAnswer \/ SeekFails \/ Drain
    BY <2>2, Zenon DEF SeekAnswer, SeekFails, Drain
  <2> QED BY <1>3, <2>1, <2>2
<1>4. CASE Poll \/ PollAnswer \/ PollBroken \/ PollFails
  BY <1>4 DEF Poll, PollAnswer, PollBroken, PollFails, Polled, Quiet
<1>5. CASE Flush \/ FlushFails
  BY <1>5 DEF Flush, FlushFails, Flushed
<1>6. CASE (\E n \in 1..MaxRead : ReadBegin(n)) \/ \E p \in 0..Size : SeekBegin(p)
  BY <1>6 DEF ReadBegin, SeekBegin, Quiet
<1> QED BY <1>1, <1>2, <1>3, <1>4, <1>5, <1>6 DEF Next, ReaderStep, Call

LEMMA CallStep ==
  IInv /\ [Next]_vars => CallInv'
<1> USE DEF Backend, fileVars, readVars, Free
<1> SUFFICES ASSUME IInv, [Next]_vars PROVE CallInv'
  OBVIOUS
<1>0. /\ TypeInv /\ LockInv /\ ControlInv /\ CallInv
      /\ todo \in Seq(Commands) /\ Len(data) \in Nat /\ Len(data) <= RcvBuf
  BY LenProperties DEF IInv, TypeInv, ControlType, DataType
<1>c. /\ got \in Nat /\ RcvBuf \in Nat
      /\ \A i \in 1..Len(todo) : todo[i].sent \in Nat
  <2>1. got \in Nat /\ RcvBuf \in Nat
    BY <1>0, MostReadType, TransferAssumption DEF TypeInv, ReadType
  <2>2. \A i \in 1..Len(todo) : todo[i] \in Commands
    BY <1>0, ElementOfSeq
  <2> QED BY <2>1, <2>2 DEF Commands
<1>s. CASE strayed'
  BY <1>s DEF CallInv
<1>q. CASE NoneAsked /\ (UNCHANGED todo \/ todo' = Orphans \/ todo' = <<>>)
  BY <1>q, <1>0, AskedKept
<1>k. CASE /\ UNCHANGED <<todo, answers, lock, at, want, got, strayed>>
           /\ Len(data') <= Len(data) /\ Len(data') \in Nat
  BY <1>k, <1>0, <1>c DEF CallInv, Asked
<1>1. CASE SendBlock /\ ~strayed
  <2>1. /\ Len(todo') = Len(todo) /\ 1 \in 1..Len(todo)
        /\ Head(todo) = todo[1] /\ todo[1] \in Commands
        /\ todo'[1] = [todo[1] EXCEPT !.sent = @ + 1]
    BY <1>0, <1>1, TodoCounted, ElementOfSeq DEF SendBlock
  <2>2. /\ todo[1].op = "block" /\ data' = Append(data, bpos) /\ bpos \in 0..(Size - 1)
        /\ UNCHANGED <<answers, lock, at, want, got>>
    BY <1>1, <2>1 DEF SendBlock
  <2>3. /\ 1 = Len(todo) /\ answers = <<>> /\ Asked /\ at \in {"poll", "drain"}
        /\ todo[1].arg = want /\ Len(data) + got <= RcvBuf + todo[1].sent
    BY <1>0, <1>1, <2>1, <2>2 DEF CallInv
  <2>4. Len(data') = Len(data) + 1
    BY <1>0, <2>2, DataSent DEF TypeInv
  <2>5. /\ todo'[1].op = "block" /\ todo'[1].arg = want
        /\ todo'[1].sent = todo[1].sent + 1 /\ todo[1].sent \in Nat
    BY <2>1, <2>2, <2>3 DEF Commands
  <2>6. Len(data') + got' <= RcvBuf + todo'[1].sent
    BY <1>0, <2>2, <2>3, <2>4, <2>5, MostReadType, TransferAssumption DEF TypeInv, ReadType
  <2>7. Len(todo') = 1
    BY <2>1, <2>3
  <2>8. todo'[1].op # "seek"
    BY <2>5
  <2>9. \A i \in 1..Len(todo') : i = 1
    BY <2>7
  <2> QED BY <2>2, <2>3, <2>5, <2>6, <2>7, <2>8, <2>9 DEF CallInv, Asked
<1>2. CASE (AnswerBlock \/ AnswerSeek \/ AnswerQuery) /\ ~strayed
  <2>1. todo # <<>> /\ UNCHANGED <<ctl, data, lock, at, want, got>>
    BY <1>2 DEF AnswerBlock, AnswerSeek, AnswerQuery
  <2>2. Head(todo).sent \in Int /\ Head(todo).arg \in Int
    BY <1>0, <2>1, HeadTailProperties DEF Commands
  <2>3. PICK r \in Int : Answer(r)
    BY <1>2, <2>2 DEF AnswerBlock, AnswerSeek, AnswerQuery
  <2>4. /\ Len(todo') = Len(todo) - 1 /\ Len(todo) \in Nat
        /\ \A i \in 1..Len(todo') : i + 1 \in 1..Len(todo) /\ todo'[i] = todo[i + 1]
        /\ answers' = answers \/ Len(todo) = 1
    BY <1>0, <2>1, <2>3, AnsweredOwn
  <2>5. CASE Len(todo) = 1
    BY <2>4, <2>5 DEF CallInv
  <2>6. CASE answers' = answers
    <3>1. SUFFICES ASSUME NEW i \in 1..Len(todo')
                   PROVE  /\ todo'[i].op = "block" =>
                               /\ i = Len(todo') /\ answers' = <<>>
                               /\ Asked' /\ at' \in {"poll", "drain"} /\ todo'[i].arg = want'
                               /\ Len(data') + got' <= RcvBuf + todo'[i].sent
                          /\ todo'[i].op = "seek" =>
                               /\ i = Len(todo') /\ answers' = <<>>
                               /\ at' = "seeking" /\ todo'[i].arg = want'
      BY DEF CallInv
    <3>2. i + 1 \in 1..Len(todo) /\ todo'[i] = todo[i + 1] /\ (i + 1 = Len(todo) => i = Len(todo'))
      BY <2>4
    <3> QED BY <1>0, <1>2, <2>1, <2>6, <3>2 DEF CallInv, Asked
  <2> QED BY <2>4, <2>5, <2>6
<1>3. CASE BreakControl /\ ~strayed
  <2>1. /\ Len(todo') = Len(todo)
        /\ \A i \in 1..Len(todo') :
             /\ i \in 1..Len(todo)
             /\ todo'[i].op = todo[i].op /\ todo'[i].arg = todo[i].arg
             /\ todo'[i].sent = todo[i].sent
    BY <1>0, <1>3, TodoOrphaned DEF BreakControl
  <2> QED BY <1>0, <1>3, <2>1 DEF BreakControl, CallInv, Asked
<1>4. CASE Arrive \/ BreakData
  <2>1. CASE Arrive
    BY <1>0, <1>k, <2>1 DEF Arrive
  <2>2. CASE BreakData
    <3>1. Len(data') <= Len(data) /\ Len(data') \in Nat
      BY <1>0, <2>2, DataLost, LenProperties DEF BreakData, TypeInv, DataType
    <3> QED BY <1>k, <2>2, <3>1 DEF BreakData
  <2> QED BY <1>4, <2>1, <2>2
<1>5. CASE OtherStep /\ ~strayed
  <2>1. lock # "reader" /\ at # "seeking"
    BY <1>0, <1>5 DEF OtherStep, OtherAsk, OtherAnswered, OtherReopen, Other, LockInv
  <2>2. NoneAsked
    BY <1>0, <1>5, <2>1, NothingAsked DEF Asked
  <2>3. CASE Send("query", 0)
    <3>1. lock = "none"
      BY <1>0, <1>5, <2>3, EmptySeq DEF OtherStep, OtherAsk, OtherAnswered, OtherReopen, Other,
         Receive, NoAnswer, Hang, Send
    <3>2. \A i \in 1..Len(todo') : todo'[i].op = "query"
      <4>1. 0 \in Nat /\ ("query" = "seek" => 0 <= Size)
        OBVIOUS
      <4>2. \A i \in 1..Len(todo') : \/ todo'[i].op = "query"
                                     \/ i = Len(todo') /\ todo'[i] = Command("query", 0)
        BY <1>0, <1>5, <2>3, <3>1, <4>1, Appended
      <4> QED BY <4>2 DEF Command
    <3> QED BY <3>2 DEF CallInv
  <2>4. CASE UNCHANGED todo \/ todo' = Orphans
    BY <1>q, <2>2, <2>4
  <2> QED BY <1>5, <2>3, <2>4 DEF OtherStep, OtherAsk, OtherAnswered, OtherReopen,
       SendFails, Hang, NoAnswer, Receive
<1>6. CASE (ReadAsk \/ SeekAsk) /\ ~strayed
  <2>1. lock = "none" /\ at \in {"ask", "seek"}
    BY <1>6 DEF ReadAsk, Request, SeekAsk, Reader, Return
  <2>2. NoneAsked
    BY <1>0, <1>6, <2>1, NothingAsked DEF Asked
  <2>3. CASE SendFails
    BY <1>q, <2>2, <2>3 DEF SendFails, Hang
  <2>4. CASE ReadAsk /\ ~SendFails
    <3>1. /\ Send("block", want) /\ lock' = "reader" /\ at' = "poll" /\ at = "ask"
          /\ UNCHANGED <<data, want, got>>
      BY <2>4 DEF ReadAsk, Request, Reader
    <3>2. want \in Nat /\ got = 0
      BY <1>0, <3>1, MostReadType DEF TypeInv, ReadType
    <3>3. \A i \in 1..Len(todo') : \/ todo'[i].op = "query"
                                   \/ i = Len(todo') /\ todo'[i] = Command("block", want)
      BY <1>0, <1>6, <2>1, <3>1, <3>2, Appended
    <3>4. answers' = <<>>
      BY <1>0, <2>1, <3>1, FreeSilent DEF Send
    <3> QED BY <1>0, <3>1, <3>2, <3>3, <3>4, TransferAssumption DEF CallInv, Command, Asked
  <2>5. CASE SeekAsk /\ ~SendFails
    <3>1. Send("seek", want) /\ at' = "seeking" /\ at = "seek" /\ UNCHANGED want
      BY <2>5 DEF SeekAsk, Reader
    <3>2. want \in Nat /\ want <= Size
      BY <1>0, <3>1, TransferAssumption DEF TypeInv, ReadType
    <3>3. \A i \in 1..Len(todo') : \/ todo'[i].op = "query"
                                   \/ i = Len(todo') /\ todo'[i] = Command("seek", want)
      BY <1>0, <1>6, <2>1, <3>1, <3>2, Appended
    <3>4. answers' = <<>>
      BY <1>0, <2>1, <3>1, FreeSilent DEF Send
    <3> QED BY <3>1, <3>3, <3>4 DEF CallInv, Command
  <2> QED BY <1>6, <2>3, <2>4, <2>5
<1>7. CASE Poll /\ ~strayed
  <2>1. CASE Asked
    <3>1. /\ data' = Drop(data, Taken) /\ got' = got + Taken /\ at' = "poll" /\ at = "poll"
          /\ UNCHANGED <<todo, answers, lock, want>>
      BY <1>7, <2>1 DEF Poll, Polled, Reader
    <3>2. Taken \in 0..Len(data) /\ Taken \in Nat /\ got \in Nat
      BY <1>0, <3>1, TakenType, LenProperties DEF TypeInv, DataType
    <3>3. Len(data') = Len(data) - Taken
      BY <1>0, <3>1, <3>2, DataDropped DEF TypeInv
    <3>4. Len(data') + got' = Len(data) + got
      BY <1>0, <3>1, <3>2, <3>3
    <3> QED BY <1>0, <1>7, <3>1, <3>4 DEF CallInv, Asked
  <2>2. CASE ~Asked
    <3>1. NoneAsked
      BY <1>0, <1>7, <2>2, NothingAsked DEF Poll, Polled
    <3> QED BY <1>7, <1>q, <3>1 DEF Poll
  <2> QED BY <2>1, <2>2
<1>8. CASE PollFails /\ ~strayed
  <2>1. CASE Asked
    BY <1>0, <1>8, <2>1 DEF PollFails, Quiet, Reader, CallInv, Asked
  <2>2. CASE ~Asked
    <3>1. NoneAsked
      BY <1>0, <1>8, <2>2, NothingAsked DEF PollFails, Reader, Return
    <3> QED BY <1>8, <1>q, <3>1 DEF PollFails, Quiet
  <2> QED BY <2>1, <2>2
<1>9. CASE (PollAnswer \/ Drain \/ SeekAnswer) /\ ~strayed'
  <2>1. ~strayed
    BY <1>9 DEF PollAnswer, Drain, SeekAnswer
  <2>2. answers # <<>> /\ UNCHANGED todo
    BY <1>9, <2>1 DEF PollAnswer, Drain, SeekAnswer, Receive, NoAnswer
  <2>3. NoneAsked
    BY <1>0, <2>1, <2>2, NothingAsked
  <2> QED BY <1>q, <2>2, <2>3
<1>10. CASE PollBroken \/ SeekFails \/ FlushFails
  BY <1>10, <1>s DEF PollBroken, SeekFails, FlushFails
<1>11. CASE (Flush \/ (\E n \in 1..MaxRead : ReadBegin(n)) \/ \E p \in 0..Size : SeekBegin(p)) /\ ~strayed
  <2>1. at \in {"flush", "idle"} /\ UNCHANGED todo
    BY <1>11 DEF Flush, Flushed, ReadBegin, SeekBegin, Reader, Return, Quiet
  <2>2. NoneAsked
    BY <1>0, <1>11, <2>1, NothingAsked
  <2> QED BY <1>q, <2>1, <2>2
<1>12. CASE OpenTransfer
  BY <1>12, EmptySeq DEF OpenTransfer, CallInv
<1>13. CASE UNCHANGED vars
  BY <1>0, <1>13, <1>k DEF vars, backendVars
<1>14. strayed /\ Next => strayed' \/ OpenTransfer
  BY OnlyOpened
<1>15. CASE strayed
  BY <1>s, <1>12, <1>13, <1>14, <1>15
<1>16. CASE ~strayed /\ ~strayed'
  BY <1>16, <1>1, <1>2, <1>3, <1>4, <1>5, <1>6, <1>7, <1>8, <1>9, <1>10, <1>11, <1>12, <1>13
     DEF Next, BackendStep, ReaderStep, Call
<1> QED BY <1>s, <1>15, <1>16

-----------------------------------------------------------------------------
(* The bytes and the requests.                                             *)

\* Received bytes are read, in their order.
LEMMA PolledBalance ==
  ASSUME TypeInv, NEW again, Polled(again)
  PROVE  Balance' = Balance /\ bpos' = bpos /\ transfer' = transfer /\ (InOrder => InOrder')
<1>1. /\ at = "poll" /\ data' = Drop(data, Taken) /\ pos' = pos + Taken
      /\ bpos' = bpos /\ transfer' = transfer
  BY DEF Polled, Reader, Return
<1>2. Taken \in Nat /\ Taken \in 0..Len(data) /\ Len(data) \in Nat /\ pos \in Int
  BY <1>1, TakenType, LenProperties DEF TypeInv, DataType, ReadType
<1>3. /\ Len(data') = Len(data) - Taken
      /\ \A i \in 1..Len(data') : i + Taken \in 1..Len(data) /\ data'[i] = data[i + Taken]
  BY <1>1, <1>2, DataDropped DEF TypeInv
<1>4. ASSUME InOrder PROVE InOrder'
  <2>1. SUFFICES ASSUME NEW i \in 1..Len(data') PROVE data'[i] = pos' + i - 1
    BY DEF InOrder
  <2>2. i \in Int /\ i + Taken \in 1..Len(data) /\ data'[i] = data[i + Taken]
    BY <1>3
  <2>3. data[i + Taken] = pos + (i + Taken) - 1
    BY <1>4, <2>2 DEF InOrder
  <2> QED BY <1>1, <1>2, <2>2, <2>3
<1>5. Balance' = Balance
  BY <1>1, <1>2, <1>3 DEF Balance
<1> QED BY <1>1, <1>4, <1>5

LEMMA SentBalance ==
  ASSUME TypeInv, bpos \in 0..(Size - 1), data' = Append(data, bpos), pos' = pos,
         bpos = Balance, InOrder
  PROVE  Balance' = Balance + 1 /\ InOrder'
<1>1. /\ Len(data) \in Nat /\ Len(data') = Len(data) + 1 /\ pos \in Int
      /\ data'[Len(data) + 1] = bpos /\ \A i \in 1..Len(data) : data'[i] = data[i]
  BY DataSent DEF TypeInv, ReadType
<1>2. ASSUME NEW i \in 1..Len(data') PROVE data'[i] = pos' + i - 1
  <2>1. CASE i \in 1..Len(data)
    BY <1>1, <2>1 DEF InOrder
  <2>2. CASE i = Len(data) + 1
    BY <1>1, <2>2 DEF Balance
  <2> QED BY <1>1, <2>1, <2>2
<1> QED BY <1>1, <1>2 DEF InOrder, Balance

LEMMA BytesKept == UNCHANGED <<data, pos>> => Balance' = Balance /\ (InOrder => InOrder')
BY DEF Balance, InOrder

LEMMA StepStep == IInv /\ [Next]_vars => StepInv'
<1> USE DEF Backend, fileVars, readVars, Free
<1> SUFFICES ASSUME IInv, [Next]_vars, transfer' = "open", ~strayed' PROVE StepParts'
  BY DEF StepInv
<1>0. /\ TypeInv /\ LockInv /\ ControlInv /\ CallInv /\ StepInv
      /\ todo \in Seq(Commands) /\ \A i \in 1..Len(todo) : todo[i] \in Commands
      /\ pos \in Int /\ req \in Int /\ bpos \in Int /\ Len(data) \in Nat /\ Balance \in Int
      /\ lock \in {"none", "reader", "other"}
  BY LenProperties, ElementOfSeq DEF IInv, TypeInv, ControlType, DataType, ReadType, Balance
<1>1. CASE OpenTransfer
  <2>1. Len(data') = 0 /\ pos' = 0 /\ req' = 0 /\ bpos' = 0 /\ at' = "idle"
    BY <1>1, EmptySeq DEF OpenTransfer
  <2> QED BY <2>1 DEF StepParts, InOrder, Waiting, Balance
<1>2. CASE ~OpenTransfer
  <2> SUFFICES ASSUME transfer = "open", ~strayed, StepParts PROVE StepParts'
    <3>1. transfer = "open" /\ ~strayed
      BY <1>2, OnlyOpened DEF vars
    <3> QED BY <1>0, <3>1 DEF StepInv
  <2>1. CASE SendBlock
    <3>1. /\ Len(todo') = Len(todo) /\ 1 \in 1..Len(todo) /\ Head(todo) = todo[1]
          /\ todo'[1] = [todo[1] EXCEPT !.sent = @ + 1] /\ todo[1] \in Commands
      BY <1>0, <2>1, TodoCounted DEF SendBlock
    <3>2. /\ todo[1].op = "block" /\ data' = Append(data, bpos) /\ bpos \in 0..(Size - 1)
          /\ bpos' = bpos + 1 /\ UNCHANGED <<answers, lock, at, want, pos, req>>
      BY <2>1, <3>1 DEF SendBlock
    <3>3. 1 = Len(todo) /\ answers = <<>> /\ Waiting
      BY <1>0, <3>1, <3>2 DEF CallInv, Waiting
    <3>4. Len(todo') = 1 /\ Len(answers') = 0
      BY <3>1, <3>2, <3>3, EmptySeq
    <3>5. Balance' = Balance + 1 /\ InOrder' /\ bpos = Balance
      BY <1>0, <3>2, <3>3, SentBalance DEF StepParts, Waiting
    <3>6. todo[1].sent \in Nat /\ req + todo[1].sent = Balance /\ todo'[1].sent = todo[1].sent + 1
      BY <3>1, <3>2, <3>3 DEF StepParts, Owed, Commands
    <3>a. req' = req /\ req \in Int
      BY <1>0, <3>2
    <3>7. req' + todo'[1].sent = Balance'
      BY <3>5, <3>6, <3>a
    <3>8. \A i \in 1..Len(todo') : i = 1
      BY <3>4
    <3>9. \A i \in 1..Len(answers') : FALSE
      BY <3>4
    <3>10. Owed'
      BY <3>7, <3>8, <3>9 DEF Owed
    <3> QED BY <3>2, <3>3, <3>5, <3>10 DEF StepParts, Waiting, Asked
  <2>k. CASE /\ UNCHANGED <<data, pos, bpos, req, at, lock, answers, want>>
             /\ \A i \in 1..Len(todo') : \E j \in 1..Len(todo) :
                  todo'[i].op = todo[j].op /\ todo'[i].sent = todo[j].sent
    BY <2>k, BytesKept DEF StepParts, Waiting, Asked, Owed, SeekOwed
  \* A read or a seek that does not wait for an answer: only the bytes count.
  <2>e. CASE /\ ~Waiting' /\ at' \notin {"seeking", "flush"}
             /\ InOrder' /\ bpos' = Balance' /\ req' = Balance'
    BY <2>e DEF StepParts
  <2>2. CASE AnswerBlock
    <3>1. /\ todo # <<>> /\ Head(todo) = todo[1] /\ 1 \in 1..Len(todo) /\ todo[1].op = "block"
          /\ UNCHANGED <<data, pos, bpos, req, at, lock, ctl, want>>
      BY <1>0, <2>2, HeadTailProperties, EmptySeq, LenProperties DEF AnswerBlock
    <3>2. todo[1].sent \in Nat /\ 1 = Len(todo) /\ answers = <<>> /\ Waiting
      BY <1>0, <3>1 DEF CallInv, Waiting, Commands
    <3>3. PICK r \in Int : Answer(r) /\ (r = todo[1].sent \/ (r = -1 /\ todo[1].sent = 0))
      BY <2>2, <3>1, <3>2 DEF AnswerBlock
    <3>a. /\ Len(todo') = Len(todo) - 1
          /\ answers' = answers \/ (Len(answers') = 1 /\ answers'[1].value = r)
      BY <1>0, <3>1, <3>3, AnsweredOwn
    <3>b. Len(todo) = 1
      BY <3>2
    <3>4. /\ Len(todo') = 0
          /\ answers' = answers \/ (Len(answers') = 1 /\ answers'[1].value = r)
      BY <3>a, <3>b
    <3>5. req + todo[1].sent = Balance /\ Balance' = Balance /\ InOrder'
      BY <3>1, <3>2, BytesKept DEF StepParts, Owed
    <3>6. \A i \in 1..Len(todo') : FALSE
      BY <3>4
    <3>7. \A i \in 1..Len(answers') : answers'[i].value = r
      BY <3>2, <3>4, EmptySeq
    <3>8. (r >= 0 /\ req' + r = Balance') \/ (r = -1 /\ req' = Balance')
      BY <1>0, <3>1, <3>2, <3>3, <3>5
    <3>9. Owed'
      BY <3>6, <3>7, <3>8 DEF Owed
    <3> QED BY <3>1, <3>2, <3>5, <3>9 DEF StepParts, Waiting, Asked
  <2>3. CASE AnswerSeek
    <3>1. /\ todo # <<>> /\ Head(todo) = todo[1] /\ 1 \in 1..Len(todo) /\ todo[1].op = "seek"
          /\ UNCHANGED <<data, pos, req, at, lock, ctl, want>>
      BY <1>0, <2>3, HeadTailProperties, EmptySeq, LenProperties DEF AnswerSeek
    <3>2. /\ todo[1].arg = want /\ answers = <<>>
          /\ at = "seeking" /\ ~Waiting
      BY <1>0, <3>1 DEF CallInv, Waiting
    <3>a. want \in Int
      BY <1>0, TransferAssumption DEF TypeInv, ReadType
    <3>3. PICK r \in Int : Answer(r) /\ (r = -1 \/ (r = want /\ bpos' = want))
      BY <2>3, <3>1, <3>2, <3>a DEF AnswerSeek
    <3>4. answers' = answers \/ (Len(answers') = 1 /\ answers'[1].value = r)
      BY <1>0, <3>1, <3>3, AnsweredOwn
    <3>5. \A i \in 1..Len(answers') : answers'[i].value = r
      BY <3>2, <3>4, EmptySeq
    <3>6. SeekOwed'
      BY <3>1, <3>3, <3>5 DEF SeekOwed
    <3> QED BY <3>1, <3>2, <3>6, BytesKept DEF StepParts, Waiting, Asked
  <2>4. CASE AnswerQuery
    <3>1. /\ todo # <<>> /\ Head(todo) = todo[1] /\ todo[1].op = "query" /\ Answer(0)
          /\ UNCHANGED <<data, pos, bpos, req, at, lock, ctl, want>>
      BY <1>0, <2>4, HeadTailProperties DEF AnswerQuery
    <3>2. /\ \A i \in 1..Len(todo') : i + 1 \in 1..Len(todo) /\ todo'[i] = todo[i + 1]
          /\ answers' = answers \/ Expected = "query"
      BY <1>0, <3>1, AnsweredOwn
    <3>3. CASE answers' = answers
      BY <2>k, <3>1, <3>2, <3>3
    <3>4. CASE Expected = "query"
      <4>1. lock # "reader" /\ at \notin {"seeking", "flush"}
        BY <1>0, <3>4 DEF Expected, LockInv
      <4> QED BY <2>e, <3>1, <4>1, BytesKept DEF StepParts, Waiting, Asked
    <3> QED BY <3>2, <3>3, <3>4
  <2>5. CASE Arrive
    BY <2>5, <2>k DEF Arrive
  <2>6. CASE BreakControl
    BY <1>0, <2>6, <2>k, TodoOrphaned DEF BreakControl
  <2>7. CASE BreakData
    BY <2>7 DEF BreakData
  <2>8. CASE OtherStep
    <3>1. lock # "reader" /\ lock' # "reader" /\ UNCHANGED <<data, pos, bpos, req, at>>
      BY <1>0, <2>8 DEF OtherStep, OtherAsk, OtherAnswered, OtherReopen, Other, LockInv
    <3>2. at \notin {"seeking", "flush"}
      BY <1>0, <3>1 DEF LockInv
    <3> QED BY <2>e, <3>1, <3>2, BytesKept DEF StepParts, Waiting, Asked
  <2>9. CASE ReadAsk \/ SeekAsk
    <3>1. lock = "none" /\ at \in {"ask", "seek"} /\ UNCHANGED <<data, pos, bpos, req>>
      BY <2>9 DEF ReadAsk, Request, SeekAsk, Reader, Return
    <3>2. req = Balance /\ bpos = Balance /\ InOrder' /\ Balance' = Balance
      BY <3>1, BytesKept DEF StepParts, Waiting, Asked
    <3>3. CASE SendFails /\ lock' = lock /\ at' = "idle"
      BY <2>e, <3>1, <3>2, <3>3 DEF Waiting, Asked
    <3>4. CASE ReadAsk /\ Send("block", want) /\ lock' = "reader" /\ at' = "poll"
      <4>1. want \in Nat
        BY <1>0, <3>4, MostReadType DEF ReadAsk, Request, Reader, Return, TypeInv, ReadType
      <4>2. \A i \in 1..Len(todo') : todo'[i].op = "query" \/ todo'[i] = Command("block", want)
        BY <1>0, <3>1, <3>4, <4>1, Appended
      <4>3. Len(answers') = 0
        BY <1>0, <3>1, <3>4, FreeSilent, EmptySeq DEF Send
      <4>4. \A i \in 1..Len(answers') : FALSE
        BY <4>3
      <4>5. Owed'
        BY <1>0, <3>1, <3>2, <4>2, <4>4 DEF Owed, Command
      <4> QED BY <3>1, <3>2, <3>4, <4>5 DEF StepParts, Waiting, Asked
    <3>5. CASE SeekAsk /\ Send("seek", want) /\ at' = "seeking"
      <4>1. Len(answers') = 0
        BY <1>0, <3>1, <3>5, FreeSilent, EmptySeq DEF Send
      <4>2. \A i \in 1..Len(answers') : FALSE
        BY <4>1
      <4> QED BY <3>1, <3>2, <3>5, <4>2 DEF StepParts, Waiting, SeekOwed
    <3> QED BY <2>9, <3>3, <3>4, <3>5 DEF ReadAsk, Request, SeekAsk, Reader, Return
  <2>10. CASE Poll
    <3>1. at = "poll" /\ UNCHANGED <<todo, answers, lock, req>> /\ \E again \in BOOLEAN : Polled(again)
      BY <2>10 DEF Poll, Polled
    <3>2. Balance' = Balance /\ bpos' = bpos /\ InOrder'
      BY <1>0, <3>1, PolledBalance DEF StepParts
    <3>3. at' \in {"poll", "idle"} /\ (Asked => at' = "poll")
      BY <2>10 DEF Poll, Polled, Reader, Return
    <3> QED BY <3>1, <3>2, <3>3 DEF StepParts, Waiting, Asked, Owed
  <2>11. CASE PollAnswer
    <3>1. PICK r \in -1..MaxRead :
            /\ Asked /\ Receive(r) /\ lock' = "none"
            /\ LET ends == r < 0 \/ (r = 0 /\ Taken = 0)
               IN  /\ Polled(~ends /\ (Taken > 0 \/ got = 0))
                   /\ req' = IF ends THEN req ELSE req + r
      BY <2>11 DEF PollAnswer
    <3>2. at = "poll" /\ at' \in {"poll", "idle"} /\ r \in Int
      BY <3>1 DEF Polled, Reader, Return
    <3>3. Balance' = Balance /\ bpos' = bpos /\ InOrder'
      BY <1>0, <3>1, PolledBalance DEF StepParts
    <3>4. Len(answers) = 1 /\ answers[1].value = r
      BY <1>0, <3>1, AnswerTaken DEF TypeInv
    <3>5. 1 \in 1..Len(answers)
      BY <3>4
    <3>6. (r >= 0 /\ req + r = Balance) \/ (r = -1 /\ req = Balance)
      BY <3>1, <3>2, <3>4, <3>5 DEF StepParts, Owed, Waiting
    <3>7. req' = Balance
      BY <1>0, <3>1, <3>2, <3>6
    <3>8. bpos = Balance
      BY <3>2 DEF StepParts
    <3> QED BY <2>e, <3>1, <3>2, <3>3, <3>7, <3>8 DEF Waiting, Asked
  <2>12. CASE PollBroken \/ SeekFails \/ FlushFails
    BY <2>12 DEF PollBroken, SeekFails, FlushFails
  <2>13. CASE PollFails
    <3>1. /\ at = "poll" /\ UNCHANGED <<data, pos, bpos, req, todo, answers, lock>>
          /\ (Asked /\ at' = "drain") \/ (~Asked /\ at' = "idle")
      BY <2>13 DEF PollFails, Reader, Return, Quiet
    <3> QED BY <3>1, BytesKept DEF StepParts, Waiting, Asked, Owed
  <2>14. CASE Drain
    <3>1. PICK r \in -1..MaxRead : Receive(r) /\ ~(r > 0)
      BY <2>14, Zenon DEF Drain
    <3>2. /\ at = "drain" /\ at' = "idle" /\ lock' = "none"
          /\ UNCHANGED <<data, pos, bpos, req>>
      BY <2>14 DEF Drain, Reader, Return
    <3>3. Waiting
      BY <1>0, <3>2 DEF Waiting, Asked, LockInv
    <3>4. Len(answers) = 1 /\ answers[1].value = r
      BY <1>0, <3>1, AnswerTaken DEF TypeInv
    <3>5. 1 \in 1..Len(answers) /\ r \in Int
      BY <3>1, <3>4
    <3>6. (r >= 0 /\ req + r = Balance) \/ (r = -1 /\ req = Balance)
      BY <3>3, <3>4, <3>5 DEF StepParts, Owed
    <3>7. req = Balance /\ bpos = Balance
      BY <1>0, <3>1, <3>2, <3>5, <3>6 DEF StepParts
    <3> QED BY <2>e, <3>2, <3>7, BytesKept DEF StepParts, Waiting
  <2>15. CASE SeekAnswer
    <3>1. PICK r \in -1..Size : Receive(r) /\ want' = r /\ ~(r < 0)
      BY <2>15, Zenon DEF SeekAnswer
    <3>2. /\ at = "seeking" /\ at' = "flush" /\ UNCHANGED <<data, pos, bpos, req>>
      BY <2>15 DEF SeekAnswer, Reader
    <3>3. Len(answers) = 1 /\ answers[1].value = r
      BY <1>0, <3>1, AnswerTaken DEF TypeInv
    <3>4. 1 \in 1..Len(answers) /\ r \in Int
      BY <3>1, <3>3
    <3>5. bpos' = want'
      BY <3>1, <3>2, <3>3, <3>4 DEF StepParts, SeekOwed
    <3> QED BY <3>2, <3>5, BytesKept DEF StepParts, Waiting
  <2>16. CASE Flush
    <3>1. PICK n \in Unread..arrived : Flushed(n) /\ (Unread = 0 => n = 0)
      BY <2>16 DEF Flush
    <3>2. /\ at = "flush" /\ at' = "idle" /\ pos' = want /\ req' = want /\ bpos' = bpos
          /\ data' = Drop(data, n) /\ lock' = "none"
      BY <3>1 DEF Flushed, Return, Reader
    <3>3. req = Balance /\ bpos = want
      BY <3>2 DEF StepParts, Waiting
    <3>4. Unread = Len(data)
      BY <1>0, <3>3 DEF Unread, Balance
    <3>5. n \in 0..Len(data) /\ n = Len(data)
      BY <1>0, <3>1, <3>4 DEF TypeInv, DataType
    <3>6. Len(data') = Len(data) - n
      BY <1>0, <3>2, <3>5, DataDropped DEF TypeInv
    <3>7. Len(data') = 0
      BY <1>0, <3>5, <3>6
    <3>8. want \in Int
      BY <1>0, TransferAssumption DEF TypeInv, ReadType
    <3>9. Balance' = want
      BY <3>2, <3>7, <3>8 DEF Balance
    <3>10. InOrder'
      BY <3>7 DEF InOrder
    <3> QED BY <2>e, <3>2, <3>3, <3>9, <3>10 DEF Waiting
  <2>17. CASE (\E n \in 1..MaxRead : ReadBegin(n)) \/ \E p \in 0..Size : SeekBegin(p)
    <3>1. /\ at = "idle" /\ at' \in {"ask", "poll", "seek"}
          /\ UNCHANGED <<data, pos, bpos, req, lock>>
      BY <2>17 DEF ReadBegin, SeekBegin, Reader, Quiet
    <3>2. lock # "reader"
      BY <1>0, <3>1 DEF LockInv
    <3> QED BY <2>e, <3>1, <3>2, BytesKept DEF StepParts, Waiting, Asked
  <2>18. CASE UNCHANGED vars
    BY <2>18, <2>k DEF vars, backendVars
  <2> QED BY <1>2, <2>1, <2>2, <2>3, <2>4, <2>5, <2>6, <2>7, <2>8, <2>9, <2>10, <2>11, <2>12,
             <2>13, <2>14, <2>15, <2>16, <2>17, <2>18
          DEF Next, BackendStep, ReaderStep, Call
<1> QED BY <1>1, <1>2

-----------------------------------------------------------------------------
(* The theorems.                                                           *)

LEMMA Inductive == IInv /\ [Next]_vars => IInv'
<1> SUFFICES ASSUME IInv, [Next]_vars PROVE IInv'
  OBVIOUS
<1>1. TypeInv' /\ LockInv' /\ ControlInv'
  BY TypeStep, LockStep, ControlStep DEF IInv
<1>2. CallInv' /\ StepInv'
  BY CallStep, StepStep
<1> QED BY <1>1, <1>2 DEF IInv

LEMMA Always == Safe => []IInv
<1>1. Init => IInv
  BY InitOK
<1>2. IInv /\ [Next]_vars => IInv'
  BY Inductive
<1> QED BY <1>1, <1>2, PTL DEF Safe

\* Every variable keeps its type: no more than RcvBuf blocks wait on the data
\* connection, and never more than one answer on the control connection.
THEOREM TypeCorrect == Safe => []TypeOK
<1>1. IInv => TypeOK
  <2> SUFFICES ASSUME IInv PROVE TypeOK
    OBVIOUS
  <2>1. {more, fdcOld, strayed} \subseteq BOOLEAN
    BY Zenon DEF IInv, TypeInv, Flags
  <2> QED BY <2>1 DEF IInv, TypeInv, DataType, ControlType, ReadType, MostRead, TypeOK
<1> QED BY <1>1, Always, PTL

\* An answer on the control connection is the answer to the command of the
\* thread that holds m_mutex, whatever breaks and whenever it is reopened.
THEOREM AnswersFindTheirThread == Safe => []AnswerIsOwn
<1>1. IInv => AnswerIsOwn
  BY DEF IInv, ControlInv
<1> QED BY <1>1, Always, PTL

\* Until an error parts them, the bytes on the data connection are those that
\* follow the position Read and Seek report, and between two calls exactly
\* those requested and not yet read.
THEOREM StaysInStep == Safe => []InStep
<1>1. IInv => InStep
  <2> SUFFICES ASSUME IInv, transfer = "open", ~strayed, at \notin {"seeking", "flush"}
               PROVE  /\ \A i \in 1..Len(data) : data[i] = pos + i - 1
                      /\ at = "idle" => req = pos + Len(data)
    BY DEF InStep
  <2> QED BY DEF IInv, StepInv, StepParts, InOrder, Waiting, Balance
<1> QED BY <1>1, Always, PTL

\* While a read whose buffer is full waits for its answer, there is room on the
\* data connection for all that the backend still has to write.
THEOREM RoomIsLeft == Safe => []RoomForTheRest
<1>1. IInv => RoomForTheRest
  <2> SUFFICES ASSUME IInv, at = "poll", Asked, got = want, ~strayed,
                      todo # <<>>, Head(todo).op = "block"
               PROVE  Len(data) + Head(todo).arg - Head(todo).sent <= RcvBuf
    BY DEF RoomForTheRest
  <2>1. /\ todo \in Seq(Commands) /\ Len(data) \in Nat /\ got \in Nat /\ RcvBuf \in Nat
    BY LenProperties, MostReadType, TransferAssumption
       DEF IInv, TypeInv, DataType, ControlType, ReadType
  <2>2. 1 \in 1..Len(todo) /\ Head(todo) = todo[1] /\ todo[1] \in Commands
    BY <2>1, HeadTailProperties, EmptySeq, LenProperties
  <2>3. todo[1].arg = want /\ Len(data) + got <= RcvBuf + todo[1].sent
    BY <2>2 DEF IInv, CallInv
  <2>4. todo[1].sent \in Nat
    BY <2>2 DEF Commands
  <2> QED BY <2>1, <2>2, <2>3, <2>4
<1> QED BY <1>1, Always, PTL
=============================================================================
