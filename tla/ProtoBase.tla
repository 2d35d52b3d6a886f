----------------------------- MODULE ProtoBase -----------------------------
(***************************************************************************)
(* ProtoBase: how commands, answers and events travel over one connection  *)
(* to the backend.  A message is its length followed by its bytes; the     *)
(* bytes are fields with a separator between them; ReadField finds the     *)
(* separator byte by byte, through a buffer of fixed size.                 *)
(*                                                                         *)
(* Every user holds m_mutex from its command to its last field, so there   *)
(* is one thread.  The length, eight bytes on the wire, is one item here.  *)
(* m_hang and the retries it allows are in module BackendConnection.       *)
(*                                                                         *)
(* Bounds: messages of at most MaxFields fields taken from Fields, at most *)
(* MaxQueue events on the wire.                                            *)
(***************************************************************************)
EXTENDS Integers, Sequences, FiniteSetsExt

CONSTANTS
  LB, RB, CO, Other, \* the bytes "[", "]", ":" and any other byte
  BufferSize,        \* PROTO_BUFFER_SIZE
  Fields,            \* the fields that messages are made of
  MaxFields, MaxQueue,
  Supported,         \* the versions of protomap
  Versions           \* the versions the backend may have

Bytes == {LB, RB, CO, Other}
Separator == <<LB, RB, CO, LB, RB>>

ASSUME ProtoAssumption ==
  /\ {BufferSize, MaxFields, MaxQueue} \subseteq Nat \ {0}
  /\ BufferSize > 2 + Len(Separator)
  /\ Supported \subseteq Nat \ {0} /\ Versions \subseteq Nat \ {0}
  /\ Supported # {} /\ IsFiniteSet(Supported)
  /\ Cardinality(Bytes) = 4 /\ Bytes \cap Nat = {}

\* What the code relies on: a field holds no separator, and does not end like
\* the beginning of one (ReadField does not look again at a byte that ended a
\* match, so "x[" followed by a separator would not be split).
ASSUME FieldsAssumption ==
  \A f \in Fields :
    /\ f \in Seq(Bytes)
    /\ \A i, j \in 1..Len(f) : SubSeq(f, i, j) # Separator
    /\ \A n \in 1..(Len(Separator) - 1) :
         n <= Len(f) => SubSeq(f, Len(f) - n + 1, Len(f)) # SubSeq(Separator, 1, n)

VARIABLES
  version,  \* of the backend
  alive,    \* the backend is at the other end
  wire,     \* what it has sent: lengths and bytes
  kind,     \* "commands", or "events" when announced as a monitor of events
  isOpen, proto,        \* m_isOpen, m_protoVersion
  agreed,   \* my_version, shared by all connections; 0 before any agreed
  asked,    \* tmp_ver
  length, consumed,     \* m_msgLength, m_msgConsumed
  pc,       \* where the user is
  buf, matched, field,  \* buf up to p, p_ss, field of ReadField
  queue, rest, last     \* history: see FieldStream

netVars    == <<version, alive, wire>>
openVars   == <<isOpen, proto, kind>>
agreeVars  == <<agreed, asked>>
countVars  == <<length, consumed>>
readVars   == <<buf, matched, field>>
historyVars == <<queue, rest, last>>
vars == <<netVars, openVars, agreeVars, countVars, readVars, pc, historyVars>>

Messages == UNION {[1..n -> Fields] : n \in 1..MaxFields}
Body[m \in Messages] ==
  IF Len(m) = 1 THEN m[1] ELSE m[1] \o Separator \o Body[Tail(m)]
Packet(m) == <<Len(Body[m])>> \o Body[m]

Stream == INSTANCE FieldStream WITH asking <- (pc = "field")

Left == length - consumed
HasLength == wire # <<>> /\ Head(wire) \in Nat

-----------------------------------------------------------------------------
(* The backend.                                                            *)

\* The connection is lost with any part of what was under way.
Lose ==
  /\ alive /\ alive' = FALSE
  /\ \E n \in 0..Len(wire) : wire' = SubSeq(wire, 1, n)
  /\ UNCHANGED <<version, openVars, agreeVars, countVars, readVars, pc, historyVars>>

\* Another backend, perhaps: it matters when the client connects again.
Restart ==
  /\ ~isOpen /\ version' \in Versions
  /\ UNCHANGED <<alive, wire, openVars, agreeVars, countVars, readVars, pc, historyVars>>

Tell ==
  /\ alive /\ kind = "events" /\ Len(queue) < MaxQueue
  /\ \E m \in Messages : wire' = wire \o Packet(m) /\ queue' = Append(queue, m)
  /\ UNCHANGED <<version, alive, openVars, agreeVars, countVars, readVars, pc, rest, last>>

-----------------------------------------------------------------------------
(* Opening.                                                                *)

\* The version that was agreed on before is tried first, or the newest.
OpenConnection ==
  /\ pc = "idle" /\ ~isOpen
  /\ pc' = "agree" /\ asked' = IF agreed = 0 THEN Max(Supported) ELSE agreed
  /\ UNCHANGED <<netVars, openVars, agreed, countVars, readVars, historyVars>>

Accepted ==
  /\ pc = "agree" /\ asked \in Supported /\ asked = version
  /\ alive' = TRUE /\ wire' = <<>>
  /\ isOpen' = TRUE /\ proto' = asked /\ agreed' = asked /\ asked' = 0
  /\ pc' = "idle"
  /\ UNCHANGED <<version, kind, countVars, readVars, historyVars>>

\* "Retry with the returned version".
Rejected ==
  /\ pc = "agree" /\ asked \in Supported /\ asked # version
  /\ asked' = version
  /\ UNCHANGED <<netVars, openVars, agreed, countVars, readVars, pc, historyVars>>

\* The version is unknown, or the backend does not answer.
OpenFails ==
  /\ pc = "agree"
  /\ pc' = "idle" /\ asked' = 0 /\ proto' = 0
  /\ UNCHANGED <<netVars, isOpen, kind, agreed, countVars, readVars, historyVars>>

\* my_version is static: the other connections agree too.
OthersAgree ==
  /\ ~isOpen /\ version \in Supported /\ agreed' = version
  /\ UNCHANGED <<netVars, openVars, asked, countVars, readVars, pc, historyVars>>

-----------------------------------------------------------------------------
(* Closing.                                                                *)

\* Close; a call of ReadField that is under way gives no field.
Disconnect ==
  /\ alive' = FALSE /\ wire' = <<>>
  /\ isOpen' = FALSE /\ kind' = "commands" /\ UNCHANGED proto
  /\ length' = 0 /\ consumed' = 0
  /\ buf' = <<>> /\ matched' = 0 /\ field' = <<>>
  /\ pc' = "idle"
  /\ queue' = <<>> /\ rest' = <<>>
  /\ last' = IF pc = "field" THEN <<>> ELSE last
  /\ UNCHANGED <<version, agreeVars>>

\* ReceiveData gets less than it was asked for, or SendData fails.
HangException ==
  /\ \/ pc = "header" /\ ~HasLength
     \/ pc = "field" /\ Left > 0 /\ wire = <<>>
     \/ pc \in {"flush", "flush, send", "flush, close"} /\ Len(wire) < Min({Left, BufferSize})
     \/ pc = "send" /\ ~alive
  /\ Disconnect

\* Close sends DONE, so it drops what was left of the last message before.
Done == pc = "close" /\ Disconnect

-----------------------------------------------------------------------------
(* Messages.                                                               *)

Goto(next) ==
  /\ pc = "idle" /\ isOpen /\ pc' = next
  /\ UNCHANGED <<netVars, openVars, agreeVars, countVars, readVars, historyVars>>

\* Mutant: a command is sent without looking at what is left.
SendUnflushed == kind = "commands" /\ Goto("send")

\* SendCommand and Close: "did not consume everything".
SendCommand == kind = "commands" /\ Goto(IF Left # 0 THEN "flush, send" ELSE "send")
Close == Goto(IF Left # 0 THEN "flush, close" ELSE "close")
CallFlush == Left > 0 /\ Goto("flush")

\* RcvBackendMessage flushes what is left if no new message can begin.
Listen ==
  /\ kind = "events" /\ (wire # <<>> \/ ~alive)
  /\ Goto(IF length > 0 THEN "flush" ELSE "header")

Monitor ==
  /\ pc = "idle" /\ isOpen /\ kind' = "events"
  /\ UNCHANGED <<netVars, isOpen, proto, agreeVars, countVars, readVars, pc, historyVars>>

\* The backend answers; or it is gone, which the client need not notice yet.
Send ==
  /\ pc = "send" /\ pc' = "header"
  /\ IF alive
     THEN \E m \in Messages : wire' = wire \o Packet(m) /\ queue' = Append(queue, m)
     ELSE UNCHANGED <<wire, queue>>
  /\ UNCHANGED <<version, alive, openVars, agreeVars, countVars, readVars, rest, last>>

\* "If not placed on head of new response then break".
RcvMessageLength ==
  /\ pc = "header" /\ pc' = "idle"
  /\ IF length > 0
     THEN UNCHANGED <<wire, countVars, queue, rest>>
     ELSE /\ HasLength
          /\ length' = Head(wire) /\ consumed' = 0 /\ wire' = Tail(wire)
          /\ queue' = Tail(queue) /\ rest' = Stream!Told(Head(queue))
  /\ UNCHANGED <<version, alive, openVars, agreeVars, readVars, last>>

FlushMessage ==
  /\ pc \in {"flush", "flush, send", "flush, close"}
  /\ LET n == Min({Left, BufferSize}) IN
       /\ Len(wire) >= n /\ wire' = SubSeq(wire, n + 1, Len(wire))
       /\ IF Left > n
          THEN consumed' = consumed + n /\ UNCHANGED <<length, rest, pc>>
          ELSE /\ length' = 0 /\ consumed' = 0 /\ rest' = <<>>
               /\ pc' = CASE pc = "flush" -> "idle"
                          [] pc = "flush, send" -> "send"
                          [] pc = "flush, close" -> "close"
  /\ UNCHANGED <<version, alive, openVars, agreeVars, readVars, queue, last>>

-----------------------------------------------------------------------------
(* ReadField.                                                              *)

\* It returns f, or false.
Return(f, c) ==
  /\ pc' = "idle" /\ last' = f
  /\ rest' = IF rest = <<>> THEN rest ELSE Tail(rest)
  /\ IF c < length THEN consumed' = c /\ UNCHANGED length
                   ELSE consumed' = 0 /\ length' = 0
  /\ buf' = <<>> /\ matched' = 0 /\ field' = <<>>

ReadField ==
  /\ pc = "idle" /\ isOpen /\ pc' = "field"
  /\ UNCHANGED <<netVars, openVars, agreeVars, countVars, readVars, historyVars>>

NoField ==
  /\ pc = "field" /\ length = 0 /\ pc' = "idle" /\ last' = <<>>
  /\ UNCHANGED <<netVars, openVars, agreeVars, countVars, readVars, queue, rest>>

Receive ==
  /\ pc = "field" /\ consumed < length /\ wire # <<>>
  /\ wire' = Tail(wire)

\* Mutant: room for the terminating zero, not for a separator.
FullAtEnd(b) == Len(b) > BufferSize - 2

\* "Append data before flushing to refill the following".
Full(b) == Len(b) > BufferSize - 2 - Len(Separator)

\* The byte goes on with a separator, or completes it.
Match ==
  /\ Receive /\ Head(wire) = Separator[matched + 1]
  /\ IF matched + 1 = Len(Separator)
     THEN Return(<<field \o SubSeq(buf, 1, Len(buf) + 1 - Len(Separator))>>, consumed + 1)
     ELSE /\ buf' = Append(buf, Head(wire)) /\ matched' = matched + 1
          /\ consumed' = consumed + 1
          /\ UNCHANGED <<length, field, pc, rest, last>>
  /\ UNCHANGED <<version, alive, openVars, agreeVars, queue>>

\* Any other byte: it is not looked at again as the first of a separator.
Mismatch ==
  /\ Receive /\ Head(wire) # Separator[matched + 1]
  /\ consumed' = consumed + 1 /\ matched' = 0
  /\ LET b == Append(buf, Head(wire)) IN
       IF Full(b) THEN field' = field \o b /\ buf' = <<>>
                  ELSE buf' = b /\ UNCHANGED field
  /\ UNCHANGED <<version, alive, openVars, agreeVars, length, pc, historyVars>>

\* "All is consumed. Append rest of data before exit".
AtEnd ==
  /\ pc = "field" /\ length > 0 /\ consumed = length
  /\ Return(<<field \o buf>>, consumed)
  /\ UNCHANGED <<netVars, openVars, agreeVars, queue>>

-----------------------------------------------------------------------------
Init ==
  /\ version \in Versions /\ alive = FALSE /\ wire = <<>>
  /\ isOpen = FALSE /\ proto = 0 /\ kind = "commands"
  /\ agreed = 0 /\ asked = 0
  /\ length = 0 /\ consumed = 0
  /\ pc = "idle" /\ buf = <<>> /\ matched = 0 /\ field = <<>>
  /\ queue = <<>> /\ rest = <<>> /\ last = <<>>

Backend == Lose \/ Restart \/ Tell
Opening == OpenConnection \/ Accepted \/ Rejected \/ OpenFails \/ OthersAgree
Calls   == SendCommand \/ Close \/ CallFlush \/ Listen \/ Monitor \/ ReadField
Message == Send \/ RcvMessageLength \/ FlushMessage \/ HangException \/ Done
Reading == NoField \/ Match \/ Mismatch \/ AtEnd

Next == Backend \/ Opening \/ Calls \/ Message \/ Reading

Spec == Init /\ [][Next]_vars

-----------------------------------------------------------------------------
(* Properties.                                                             *)

\* Type invariant.  The bytes of ReadField, and the zero that ends them, fit in
\* its buffer, with those of a separator that has begun; and a connection whose
\* backend is there speaks the backend's version.
TypeOK ==
  /\ version \in Versions /\ {alive, isOpen} \subseteq BOOLEAN
  /\ \A i \in DOMAIN wire : wire[i] \in Nat \cup Bytes
  /\ kind \in {"commands", "events"}
  /\ isOpen /\ alive => proto = version /\ proto \in Supported
  /\ {agreed, asked} \subseteq Supported \cup Versions \cup {0}
  /\ length \in Nat /\ consumed \in 0..length
  /\ pc \in {"idle", "agree", "send", "header", "field", "close",
             "flush", "flush, send", "flush, close"}
  /\ matched \in 0..(Len(Separator) - 1)
  /\ Len(buf) < BufferSize /\ matched <= Len(buf)
  /\ SubSeq(buf, Len(buf) - matched + 1, Len(buf)) = SubSeq(Separator, 1, matched)

\* Bytes, counts and buffer give what FieldStream promises: the fields that were
\* sent, whole and in order, no message begun inside another, whatever was left
\* unread and wherever the connection broke.
ImplementsFieldStream == Stream!Spec
=============================================================================
