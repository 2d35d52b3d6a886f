---------------------------- MODULE FieldStream ----------------------------
(***************************************************************************)
(* What a protocol connection promises those who use it, with no bytes, no *)
(* counts and no buffer: messages are read whole and in the order sent,    *)
(* field by field; reading ends where the message ends; what was not read  *)
(* is dropped before the next message, and no command is sent before; and  *)
(* the connection is given up only when the backend is gone.               *)
(*                                                                         *)
(* One thing is not promised: an empty field at the end is not told.       *)
(***************************************************************************)
EXTENDS Integers, Sequences

CONSTANT Messages    \* non-empty sequences of fields

VARIABLES alive,     \* the backend is there
          kind,      \* it answers "commands" or tells "events"
          queue,     \* messages sent, oldest first
          rest,      \* fields to be read of the message begun
          asking,    \* a field is being asked for
          last       \* what the last asking gave: <<field>>, or <<>> at the end

svars == <<alive, kind, queue, rest, asking, last>>

EmptyLast(m) == m[Len(m)] = <<>>
Told(m) == IF EmptyLast(m) THEN SubSeq(m, 1, Len(m) - 1) ELSE m

Init == /\ alive = FALSE /\ kind = "commands"
        /\ queue = <<>> /\ rest = <<>>
        /\ asking = FALSE /\ last = <<>>

Connect == /\ ~alive /\ alive' = TRUE
           /\ queue = <<>> /\ rest = <<>>
           /\ UNCHANGED <<kind, queue, rest, asking, last>>

\* A command finds nothing left of earlier answers.
Answer(m) == /\ alive /\ kind = "commands"
             /\ queue = <<>> /\ rest = <<>>
             /\ queue' = <<m>>
             /\ UNCHANGED <<alive, kind, rest, asking, last>>

Monitor == /\ kind' = "events"
           /\ UNCHANGED <<alive, queue, rest, asking, last>>

Tell(m) == /\ alive /\ kind = "events"
           /\ queue' = Append(queue, m)
           /\ UNCHANGED <<alive, kind, rest, asking, last>>

Begin == /\ queue # <<>> /\ rest = <<>>
         /\ queue' = Tail(queue) /\ rest' = Told(Head(queue))
         /\ UNCHANGED <<alive, kind, asking, last>>

Ask == /\ ~asking /\ asking' = TRUE
       /\ UNCHANGED <<alive, kind, queue, rest, last>>

Give == /\ asking /\ asking' = FALSE
        /\ IF rest = <<>>
           THEN last' = <<>> /\ UNCHANGED rest
           ELSE last' = <<Head(rest)>> /\ rest' = Tail(rest)
        /\ UNCHANGED <<alive, kind, queue>>

Drop == /\ ~asking /\ rest' = <<>>
        /\ UNCHANGED <<alive, kind, queue, asking, last>>

Lose == /\ alive /\ alive' = FALSE
        /\ UNCHANGED <<kind, queue, rest, asking, last>>

\* The connection is given up: a field being asked for is not given.
Shut == /\ queue' = <<>> /\ rest' = <<>> /\ kind' = "commands"
        /\ asking' = FALSE
        /\ last' = IF asking THEN <<>> ELSE last

GiveUp == ~alive /\ UNCHANGED alive /\ Shut

\* The user closes it, having dropped what was left.
Close == ~asking /\ rest = <<>> /\ alive' = FALSE /\ Shut

Next == \/ Connect \/ Monitor \/ Begin \/ Ask \/ Give \/ Drop
        \/ Lose \/ GiveUp \/ Close
        \/ \E m \in Messages : Answer(m) \/ Tell(m)

Spec == Init /\ [][Next]_svars
=============================================================================
