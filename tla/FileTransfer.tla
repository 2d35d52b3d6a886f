---------------------------- MODULE FileTransfer ----------------------------
(***************************************************************************)
(* Reading and seeking a remote file over two connections: requests and    *)
(* answers go over the control connection of ProtoPlayback, the bytes of   *)
(* the file come over the data connection of a ProtoTransfer.  The two are *)
(* not ordered with each other: an answer may overtake the bytes it counts.*)
(*                                                                         *)
(* ProtoPlayback::TransferRequestBlock keeps m_mutex from its request to   *)
(* the answer, since other threads send commands over the same control     *)
(* connection.  Bytes are counted in blocks; a block on the data           *)
(* connection is the number of its place in the file.                      *)
(*                                                                         *)
(* Bounds: a file of Size blocks, reads of at most MaxRead blocks, MaxTodo *)
(* commands the backend has not answered yet.  RcvBuf stands for           *)
(* PROTO_TRANSFER_RCVBUF, the room of the data connection.  Unless Persist,*)
(* the file is opened again before it is used after an error that parted   *)
(* the data from the requests.                                             *)
(***************************************************************************)
EXTENDS Integers, Sequences

CONSTANTS Size, MaxRead, MaxTodo, RcvBuf, Persist

ASSUME TransferAssumption ==
  /\ {Size, MaxRead, MaxTodo, RcvBuf} \subseteq Nat \ {0}
  /\ Persist \in BOOLEAN

VARIABLES
  transfer,  \* the data connection
  data,      \* blocks sent over it and not yet received by the program
  arrived,   \* how many of them have reached the client
  bpos,      \* the backend's position in the file
  ctl,       \* the control connection
  todo,      \* commands the backend has to carry out, in order
  answers,   \* answers on the control connection
  lock,      \* the thread that holds ProtoPlayback's m_mutex; in a read the
             \* reading thread holds it exactly while "request" is true
  pos, req,  \* m_filePosition and m_fileRequest of the transfer
  at,        \* where the reading thread is
  want, got, \* n and s of TransferRequestBlock; want is also a seek's target
  more,      \* its "data"
  fdcOld,    \* its fdc is the socket of a connection since replaced
  other,     \* what another thread does on the control connection
  strayed    \* history: an error has parted the data from m_fileRequest

backendVars == <<data, arrived, bpos, todo, answers>>
fileVars    == <<pos, req>>
readVars    == <<want, got, more, fdcOld>>
vars == <<transfer, backendVars, ctl, lock, fileVars, at, readVars, other, strayed>>

Lesser(a, b) == IF a < b THEN a ELSE b

Drop(s, n) == SubSeq(s, n + 1, Len(s))

Free == lock = "none"

-----------------------------------------------------------------------------
(* The backend and the network.                                            *)

Backend == UNCHANGED <<transfer, ctl, lock, fileVars, at, readVars, other, strayed>>

Command(op, arg) == [op |-> op, arg |-> arg, sent |-> 0, live |-> TRUE]

\* The backend is done with its first command and answers r, which reaches
\* the client if the connection the command came by is still there.
Answer(r) ==
  /\ todo' = Tail(todo)
  /\ answers' = IF Head(todo).live /\ ctl = "open"
                THEN Append(answers, [op |-> Head(todo).op, value |-> r])
                ELSE answers

\* REQUEST_BLOCK: the backend writes blocks as long as there is room.
SendBlock ==
  /\ todo # <<>> /\ Head(todo).op = "block" /\ Head(todo).sent < Head(todo).arg
  /\ transfer = "open" /\ bpos \in 0..(Size - 1) /\ Len(data) < RcvBuf
  /\ data' = Append(data, bpos) /\ bpos' = bpos + 1
  /\ todo' = [todo EXCEPT ![1].sent = @ + 1]
  /\ UNCHANGED <<arrived, answers>> /\ Backend

\* It answers how many it has written: all, or fewer at the end of the file
\* or for lack of data; or that it failed.
AnswerBlock ==
  /\ todo # <<>> /\ Head(todo).op = "block"
  /\ \/ Answer(Head(todo).sent)
     \/ (Head(todo).sent = 0 \/ transfer # "open") /\ Answer(-1)
  /\ UNCHANGED <<data, arrived, bpos>> /\ Backend

AnswerSeek ==
  /\ todo # <<>> /\ Head(todo).op = "seek"
  /\ \/ bpos' = Head(todo).arg /\ Answer(Head(todo).arg)
     \/ bpos' = bpos /\ Answer(-1)
  /\ UNCHANGED <<data, arrived>> /\ Backend

AnswerQuery ==
  /\ todo # <<>> /\ Head(todo).op = "query" /\ Answer(0)
  /\ UNCHANGED <<data, arrived, bpos>> /\ Backend

Arrive == /\ arrived < Len(data) /\ arrived' = arrived + 1
          /\ UNCHANGED <<data, bpos, todo, answers>> /\ Backend

BackendStep == SendBlock \/ AnswerBlock \/ AnswerSeek \/ AnswerQuery \/ Arrive

Orphans == [i \in DOMAIN todo |-> [todo[i] EXCEPT !.live = FALSE]]

\* The control connection breaks; the client does not know yet.
BreakControl ==
  /\ ctl = "open" /\ ctl' = "dead" /\ todo' = Orphans
  /\ UNCHANGED <<transfer, data, arrived, bpos, answers, lock, fileVars, at,
                 readVars, other, strayed>>

\* The data connection is closed by the backend, or breaks.
BreakData ==
  /\ transfer = "open" /\ transfer' \in {"eof", "reset"}
  /\ data' = SubSeq(data, 1, arrived)
  /\ UNCHANGED <<arrived, bpos, todo, answers, ctl, lock, fileVars, at,
                 readVars, other, strayed>>

-----------------------------------------------------------------------------
(* Commands on the control connection, by a thread that has m_mutex.       *)

\* HangException: the connection is closed, and IsOpen will try to reopen it.
Hang == ctl' = "hung" /\ answers' = <<>> /\ todo' = Orphans

\* SendCommand.  What is sent over a broken connection is lost.  The bound
\* never stops a call that has begun: calls begin, and the other thread sends,
\* only where it leaves room.
Send(op, arg) ==
  /\ ctl # "hung"
  /\ Len(todo) < MaxTodo
  /\ todo' = IF ctl = "open" THEN Append(todo, Command(op, arg)) ELSE todo
  /\ UNCHANGED <<ctl, answers>>

SendFails == ctl # "open" /\ Hang

\* The answer to the command is received.
Receive(r) == /\ answers # <<>> /\ r = Head(answers).value
              /\ answers' = Tail(answers)
              /\ UNCHANGED <<ctl, todo>>

\* No answer: the connection is broken, or time is over.
NoAnswer == answers = <<>> /\ Hang

-----------------------------------------------------------------------------
(* Another thread with a command on the same connection.                   *)

Other(from, to) ==
  /\ other = from /\ other' = to
  /\ UNCHANGED <<transfer, data, arrived, bpos, fileVars, at, want, got,
                 more, strayed>>

OtherAsk == /\ Free
            /\ at \in {"ask", "seek"} => Len(todo) + 1 < MaxTodo
            /\ \/ Send("query", 0) /\ lock' = "other" /\ Other("idle", "wait")
               \/ SendFails /\ UNCHANGED lock /\ Other("idle", "idle")
            /\ UNCHANGED fdcOld

OtherAnswered == /\ Other("wait", "idle") /\ lock' = "none"
                 /\ Receive(0) \/ NoAnswer
                 /\ UNCHANGED fdcOld

\* IsOpen: a connection that hung is opened again.
OtherReopen == /\ Free /\ ctl = "hung"
               /\ Other("idle", "idle")
               /\ ctl' = "open"
               /\ fdcOld' = (at = "ask" \/ fdcOld)
               /\ UNCHANGED <<lock, todo, answers>>

OtherStep == OtherAsk \/ OtherAnswered \/ OtherReopen

-----------------------------------------------------------------------------
(* The reading thread: TransferRequestBlock.                               *)

Reader(from, to) == /\ at = from /\ at' = to
                    /\ UNCHANGED <<transfer, bpos, other>>

\* The call is over.
Return(from) == /\ Reader(from, "idle")
                /\ want' = 0 /\ got' = 0 /\ more' = FALSE /\ fdcOld' = FALSE

\* It leaves the connections alone.
Quiet == UNCHANGED <<data, arrived, todo, answers, ctl, lock, fileVars, strayed>>

\* "Max size is RCVBUF size".
Limited(n) == Lesser(n, RcvBuf)

BeyondRequest(n) == pos + n > req

ReadBegin(n) ==
  /\ transfer # "none" /\ ctl # "hung"
  /\ want' = Limited(n)
  /\ Reader("idle", IF BeyondRequest(Limited(n)) THEN "ask" ELSE "poll")
  /\ Quiet /\ UNCHANGED <<got, more, fdcOld>>

\* TransferRequestBlock75.  m_mutex stays locked until the answer.
Request(n) ==
  /\ Free
  /\ \/ /\ Send("block", n) /\ lock' = "reader"
        /\ Reader("ask", "poll") /\ UNCHANGED readVars
     \/ SendFails /\ UNCHANGED lock /\ Return("ask")
  /\ UNCHANGED <<data, arrived, fileVars, strayed>>

\* Mutant: the read is limited, and the request is not.
ReadAskMost == Request(MaxRead)

ReadAsk == Request(want)

\* Mutant: recv is given the size of the whole buffer every time.
TakenWhole == Lesser(arrived, want)

\* What recv takes: as much as has arrived and fits in the buffer.
Taken == Lesser(arrived, want - got)

\* Something to read, as select sees it.
Asked        == lock = "reader"
DataReady    == arrived > 0 \/ (transfer = "eof" /\ arrived = Len(data))
ControlReady == Asked /\ (answers # <<>> \/ ctl = "dead")

\* One round of the loop, as far as the data connection is concerned.
Polled(again) ==
  /\ at = "poll" /\ transfer # "reset"
  /\ DataReady \/ ControlReady \/ more
  /\ data' = Drop(data, Taken) /\ arrived' = arrived - Taken
  /\ pos' = pos + Taken
  /\ \/ /\ again /\ Reader("poll", "poll")
        /\ got' = got + Taken /\ more' = (Taken > 0) /\ UNCHANGED <<want, fdcOld>>
     \/ ~again /\ Return("poll")

\* Mutant: the loop goes on for a full buffer.
PollOn == /\ ~ControlReady /\ Polled(TRUE)
          /\ UNCHANGED <<todo, answers, ctl, lock, req, strayed>>

\* No answer yet, or none to wait for.
Poll == /\ ~ControlReady
        /\ Polled(Asked \/ Taken > 0 \/ got = 0)
        /\ UNCHANGED <<todo, answers, ctl, lock, req, strayed>>

\* TransferRequestBlockFeedback75.  A negative answer ends the read, and so
\* does an answer of no data when none has come either.
PollAnswer ==
  \E r \in -1..MaxRead :
    /\ Asked /\ Receive(r) /\ lock' = "none"
    /\ LET ends == r < 0 \/ (r = 0 /\ Taken = 0)
       IN  /\ Polled(~ends /\ (Taken > 0 \/ got = 0))
           /\ req' = IF ends THEN req ELSE req + r
    /\ UNCHANGED strayed

PollBroken ==
  /\ Asked /\ ctl = "dead" /\ NoAnswer
  /\ lock' = "none" /\ strayed' = TRUE
  /\ Polled(FALSE)
  /\ UNCHANGED req

\* Nothing comes for 10 seconds, or select or recv fails: also select, when
\* its socket has been closed by a thread that reopened the connection.
PollFails ==
  /\ \/ ~DataReady /\ ~ControlReady /\ ~more
     \/ transfer = "reset"
     \/ fdcOld /\ Asked
  /\ \/ Asked /\ Reader("poll", "drain") /\ UNCHANGED readVars
     \/ ~Asked /\ Return("poll")
  /\ Quiet

\* Mutant: the answer to the failed request is left on the connection.
DrainNothing == /\ Return("drain") /\ lock' = "none"
                /\ UNCHANGED <<data, arrived, todo, answers, ctl, fileVars, strayed>>

\* The error path: the answer is flushed, whatever it counts, and seeking to
\* the present position does nothing.
Drain == /\ Return("drain") /\ lock' = "none"
         /\ \/ \E r \in -1..MaxRead : Receive(r) /\ strayed' = (strayed \/ r > 0)
            \/ NoAnswer /\ strayed' = TRUE
         /\ UNCHANGED <<data, arrived, fileVars>>

-----------------------------------------------------------------------------
(* TransferSeek75, and opening another file.                               *)

\* "offset" is sent with its "whence"; the target is what they amount to.
SeekBegin(p) == /\ transfer # "none"
                /\ want' = p
                /\ Reader("idle", "seek")
                /\ Quiet /\ UNCHANGED <<got, more, fdcOld>>

SeekAsk == /\ Free
           /\ \/ /\ Send("seek", want) /\ lock' = "reader"
                 /\ Reader("seek", "seeking") /\ UNCHANGED readVars
              \/ SendFails /\ UNCHANGED lock /\ Return("seek")
           /\ UNCHANGED <<data, arrived, fileVars, strayed>>

\* An answer of -1 is taken for a position.
SeekAnswer == \E r \in -1..Size :
                /\ Receive(r) /\ want' = r
                /\ strayed' = (strayed \/ r < 0)
                /\ Reader("seeking", "flush")
                /\ UNCHANGED <<data, arrived, lock, fileVars, got, more, fdcOld>>

SeekFails == /\ NoAnswer /\ lock' = "none" /\ strayed' = TRUE
             /\ Return("seeking")
             /\ UNCHANGED <<data, arrived, fileVars>>

\* ProtoTransfer::Flush, then the transfer takes the new position.  Receiving
\* n bytes may take more into the buffer of the socket, where no read looks.
Unread == IF req > pos THEN req - pos ELSE 0

Flushed(n) == /\ data' = Drop(data, n) /\ arrived' = arrived - n
              /\ pos' = want /\ req' = want
              /\ lock' = "none"
              /\ Return("flush")
              /\ UNCHANGED <<todo, answers, ctl>>

\* Mutant: nothing is flushed.
FlushNothing == Flushed(0) /\ UNCHANGED strayed

Flush == \E n \in Unread..arrived : /\ Unread = 0 => n = 0
                                    /\ Flushed(n) /\ UNCHANGED strayed

\* "Reset position regardless bytes read".
FlushFails == arrived < Unread /\ Flushed(arrived) /\ strayed' = TRUE

\* OpenTransfer, after CloseTransfer.
OpenTransfer ==
  /\ Free /\ ctl = "open"
  /\ at = "idle" /\ transfer' \in {"open", "none"}
  /\ data' = <<>> /\ arrived' = 0 /\ bpos' = 0
  /\ pos' = 0 /\ req' = 0 /\ strayed' = FALSE
  /\ todo' = <<>>
  /\ UNCHANGED <<ctl, answers, lock, at, readVars, other>>

ReaderStep == \/ ReadAsk \/ Poll \/ PollAnswer \/ PollBroken \/ PollFails \/ Drain
              \/ SeekAsk \/ SeekAnswer \/ SeekFails \/ Flush \/ FlushFails

Call == \/ /\ Persist \/ ~strayed
           /\ Len(todo) < MaxTodo
           /\ \/ \E n \in 1..MaxRead : ReadBegin(n)
              \/ \E p \in 0..Size : SeekBegin(p)
        \/ OpenTransfer

Init == /\ transfer = "open" /\ data = <<>> /\ arrived = 0 /\ bpos = 0
        /\ ctl = "open" /\ todo = <<>> /\ answers = <<>> /\ lock = "none"
        /\ pos = 0 /\ req = 0
        /\ at = "idle" /\ want = 0 /\ got = 0
        /\ more = FALSE /\ fdcOld = FALSE
        /\ other = "idle" /\ strayed = FALSE

Next == BackendStep \/ BreakControl \/ BreakData \/ OtherStep \/ ReaderStep \/ Call

Safe == Init /\ [][Next]_vars

\* The backend owes nothing: it may never write, nor answer.  The threads of the
\* client run: time-outs end their waits, and the reading thread gets m_mutex,
\* which the other one keeps for one command.
Spec == /\ Safe
        /\ WF_vars(OtherAnswered)
        /\ SF_vars(ReaderStep)

-----------------------------------------------------------------------------
(* Properties.                                                             *)

\* Type invariant.
TypeOK ==
  /\ transfer \in {"open", "eof", "reset", "none"}
  /\ data \in Seq(0..(Size - 1)) /\ Len(data) <= RcvBuf /\ arrived \in 0..Len(data)
  /\ bpos \in 0..Size
  /\ ctl \in {"open", "dead", "hung"}
  /\ Len(todo) <= MaxTodo /\ Len(answers) <= 1
  /\ lock \in {"none", "reader", "other"}
  /\ pos \in Int /\ req \in Int
  /\ at \in {"idle", "ask", "poll", "drain", "seek", "seeking", "flush"}
  /\ want \in -1..(Size + MaxRead) /\ got \in 0..Lesser(MaxRead, RcvBuf)
  /\ {more, fdcOld, strayed} \subseteq BOOLEAN
  /\ other \in {"idle", "wait"}

\* As long as no error has parted them, the bytes on the data connection are
\* those that follow the position Read and Seek report, in order, and between
\* two calls they are exactly the bytes requested and not yet read.
InStep ==
  transfer = "open" /\ ~strayed /\ at \notin {"seeking", "flush"} =>
    /\ \A i \in 1..Len(data) : data[i] = pos + i - 1
    /\ at = "idle" => req = pos + Len(data)

\* An answer on the control connection is the answer to the command of the
\* thread that holds m_mutex; none is left for the next command to mistake
\* for its own.
Expected == CASE lock = "reader" -> IF at \in {"seeking", "flush"} THEN "seek" ELSE "block"
              [] lock = "other"  -> "query"
              [] lock = "none"   -> "nothing"

AnswerIsOwn == \A i \in 1..Len(answers) : answers[i].op = Expected

\* While a read whose buffer is full waits for its answer, what the backend
\* still has to write fits in the data connection: otherwise each would wait
\* for the other.
RoomForTheRest ==
  /\ at = "poll" /\ Asked /\ got = want /\ ~strayed
  /\ todo # <<>> /\ Head(todo).op = "block"
  => Len(data) + Head(todo).arg - Head(todo).sent <= RcvBuf

\* Select finds something to read on the data connection, but recv takes
\* nothing: the connection was closed, or the buffer is full already.  The 10 s
\* of select do not count then, and a loop that waits for the backend's answer,
\* or for a first byte, goes round and round.
Spinning == /\ at = "poll" /\ DataReady /\ Taken = 0 /\ ~ControlReady
            /\ Asked \/ got = 0

\* Whatever the backend does or leaves undone, every call of Read and Seek
\* returns, unless it spins for ever.
CallsReturn == []<>(at = "idle") \/ <>[]Spinning
=============================================================================
