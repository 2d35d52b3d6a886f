----------------------------- MODULE Mailboxes -----------------------------
(***************************************************************************)
(* What the event handler promises its subscribers, with no threads and no *)
(* locks: every subscription owns a mailbox.  Messages leave it in the     *)
(* order they arrived and one at a time, and once the mailbox is closed    *)
(* (its subscription is revoked) nothing is posted to it and no callback   *)
(* of it is running or will ever run again.                                *)
(***************************************************************************)
EXTENDS Sequences

CONSTANTS Handlers,     \* the mailboxes
          Events        \* the messages

VARIABLES mail,         \* mail[h]: the messages waiting in h, oldest first
          state         \* state[h]: "unborn", "idle", "busy" or "closed"

mvars == <<mail, state>>

Init == /\ mail = [h \in Handlers |-> <<>>]
        /\ state = [h \in Handlers |-> "unborn"]

Open(h) == /\ state[h] = "unborn"
           /\ state' = [state EXCEPT ![h] = "idle"]
           /\ UNCHANGED mail

Post(h, m) == /\ state[h] \in {"idle", "busy"}
              /\ mail' = [mail EXCEPT ![h] = Append(@, m)]
              /\ UNCHANGED state

Take(h) == /\ state[h] = "idle"
           /\ mail[h] # <<>>
           /\ mail' = [mail EXCEPT ![h] = Tail(@)]
           /\ state' = [state EXCEPT ![h] = "busy"]

Finish(h) == /\ state[h] = "busy"
             /\ state' = [state EXCEPT ![h] = "idle"]
             /\ UNCHANGED mail

\* What is left in the mailbox is thrown away with it.
Close(h) == /\ state[h] = "idle"
            /\ mail' = [mail EXCEPT ![h] = <<>>]
            /\ state' = [state EXCEPT ![h] = "closed"]

Next == \E h \in Handlers : \/ Open(h)
                            \/ \E m \in Events : Post(h, m)
                            \/ Take(h)
                            \/ Finish(h)
                            \/ Close(h)

\* Waiting mail is eventually taken, unless the mailbox is closed first.
Attend(h) == mail[h] # <<>> /\ (Take(h) \/ Close(h))

Safe == Init /\ [][Next]_mvars

Spec == /\ Safe
        /\ \A h \in Handlers : WF_mvars(Attend(h)) /\ WF_mvars(Finish(h))
=============================================================================
