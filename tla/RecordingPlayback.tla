------------------------- MODULE RecordingPlayback -------------------------
(***************************************************************************)
(* RecordingPlayback: playing a recording that may still be recorded.  The *)
(* size of the file is known when it is opened; from then on the backend   *)
(* tells how it grows (UPDATE_FILE_SIZE), and the thread of the            *)
(* subscription sets the new size, without a lock, while the player reads. *)
(* Requesting blocks and seeking are module FileTransfer.                  *)
(*                                                                         *)
(* The add-on makes an object for each file it opens, so m_readAhead and   *)
(* the references to transfer and recording begin afresh.                  *)
(*                                                                         *)
(* Bounds: a file of at most Size blocks, MailMax messages waiting,        *)
(* MaxStreams files opened one after another.                              *)
(***************************************************************************)
EXTENDS Integers, Sequences

CONSTANTS Size, MailMax, MaxStreams

ASSUME PlaybackAssumption == {Size, MailMax, MaxStreams} \subseteq Nat \ {0}

VARIABLES
  length,    \* blocks of the file recorded by now
  told,      \* the size that the backend told last
  link,      \* the event connection is open
  mail,      \* sizes in the messages that wait for the subscription
  playback,  \* "none", "new", "announced": there is m_transfer, "ready": and
             \* m_recording
  fileSize,  \* m_fileSize of the transfer
  pos,       \* its m_filePosition
  readAhead, \* m_readAhead
  handling,  \* the size that the subscription's thread is about to set, or 0
  deaf,      \* history: news of the growth since the file was opened have been
             \* lost, and none were heard
  streams    \* counter

backendVars == <<length, told, link>>
playerVars == <<playback, fileSize, pos, streams>>
playbackVars == <<backendVars, mail, playerVars, readAhead, handling, deaf>>

-----------------------------------------------------------------------------
(* The backend.                                                            *)

Grow ==
  /\ length < Size /\ length' = length + 1
  /\ UNCHANGED <<told, link, mail, playerVars, readAhead, handling, deaf>>

\* Growth is told from time to time; what the connection loses is not repeated.
Tell ==
  /\ told < length /\ told' = length
  /\ IF link
     THEN /\ Len(mail) < MailMax
          /\ mail' = IF playback = "none" THEN mail ELSE Append(mail, length)
          /\ UNCHANGED deaf
     ELSE /\ deaf' = (deaf \/ (playback \in {"announced", "ready"} /\ ~readAhead))
          /\ UNCHANGED mail
  /\ UNCHANGED <<length, link, playerVars, readAhead, handling>>

Link ==
  /\ link' = ~link
  /\ UNCHANGED <<length, told, mail, playerVars, readAhead, handling, deaf>>

-----------------------------------------------------------------------------
(* HandleBackendMessage, in the thread of the subscription.                *)

\* It copies its references first.  Without a recording the message is ignored.
TakeNews ==
  /\ mail # <<>> /\ handling = 0 /\ mail' = Tail(mail)
  /\ IF playback = "ready"
     THEN handling' = Head(mail) /\ UNCHANGED deaf
     ELSE /\ deaf' = (deaf \/ (playback = "announced" /\ Head(mail) > fileSize))
          /\ UNCHANGED handling
  /\ UNCHANGED <<backendVars, playerVars, readAhead>>

\* Mutant: the message is only looked at.
IgnoreSize ==
  /\ handling > 0 /\ handling' = 0
  /\ UNCHANGED <<backendVars, mail, playerVars, readAhead, deaf>>

\* Mutant: the size is set, and reading ahead not allowed.
SetSizeOnly ==
  /\ handling > 0 /\ handling' = 0
  /\ fileSize' = handling /\ deaf' = FALSE
  /\ UNCHANGED <<backendVars, mail, playback, pos, streams, readAhead>>

\* "The file grows. Allow reading ahead".
SetSize ==
  /\ handling > 0 /\ handling' = 0
  /\ readAhead' = TRUE /\ fileSize' = handling /\ deaf' = FALSE
  /\ UNCHANGED <<backendVars, mail, playback, pos, streams>>

-----------------------------------------------------------------------------
(* The player.                                                             *)

\* The constructor subscribes.  The recording is any, and may be over.
New ==
  /\ playback = "none" /\ streams < MaxStreams
  /\ playback' = "new" /\ streams' = streams + 1
  /\ length' \in 1..Size /\ told' \in {length', length' - 1}
  /\ UNCHANGED <<link, mail, fileSize, pos, readAhead, handling, deaf>>

\* OpenTransfer: the transfer is opened, and the backend tells the file's size ...
Announce ==
  /\ playback = "new" /\ playback' = "announced"
  /\ fileSize' = length /\ pos' = 0
  /\ UNCHANGED <<backendVars, mail, streams, readAhead, handling, deaf>>

\* ... then the recording is set.
SwapRecording ==
  /\ playback = "announced" /\ playback' = "ready"
  /\ UNCHANGED <<backendVars, mail, fileSize, pos, streams, readAhead, handling, deaf>>

GetRemaining == fileSize - pos

\* Read asks the backend, or takes the file for read to its end.
Asks == readAhead \/ GetRemaining > 0

\* It asks for no more than remains, if it may not read ahead.
Read ==
  /\ playback = "ready" /\ Asks
  /\ \E n \in 1..Size :
       /\ readAhead \/ n <= GetRemaining
       /\ pos + n <= length /\ pos' = pos + n
  /\ UNCHANGED <<backendVars, mail, playback, fileSize, streams, readAhead, handling, deaf>>

Seek ==
  /\ playback = "ready" /\ pos' \in 0..fileSize
  /\ UNCHANGED <<backendVars, mail, playback, fileSize, streams, readAhead, handling, deaf>>

\* Mutant: the subscription is revoked without waiting for its thread.
CloseUnrevoked ==
  /\ playback \in {"new", "ready"}
  /\ playback' = "none" /\ mail' = <<>>
  /\ fileSize' = 0 /\ pos' = 0 /\ readAhead' = FALSE /\ deaf' = FALSE
  /\ UNCHANGED <<backendVars, handling, streams>>

\* The file could not be opened, or is closed.  The destructor revokes the
\* subscription, which waits for HandleBackendMessage to return.
Close ==
  /\ playback \in {"new", "ready"} /\ handling = 0
  /\ playback' = "none" /\ mail' = <<>>
  /\ fileSize' = 0 /\ pos' = 0 /\ readAhead' = FALSE /\ deaf' = FALSE
  /\ UNCHANGED <<backendVars, handling, streams>>

-----------------------------------------------------------------------------
PlaybackInit ==
  /\ length = 1 /\ told = 1 /\ link = TRUE /\ mail = <<>>
  /\ playback = "none" /\ fileSize = 0 /\ pos = 0 /\ streams = 0
  /\ readAhead = FALSE /\ handling = 0 /\ deaf = FALSE

Backend == Grow \/ Tell \/ Link
Player == New \/ Announce \/ SwapRecording \/ Read \/ Seek \/ Close

PlaybackNext == Backend \/ TakeNews \/ SetSize \/ Player

\* The backend tells of growth, the threads run, and the player reads on.
PlaybackSpec ==
  /\ PlaybackInit /\ [][PlaybackNext]_playbackVars
  /\ WF_playbackVars(Tell) /\ WF_playbackVars(TakeNews) /\ WF_playbackVars(SetSize)

-----------------------------------------------------------------------------
(* Properties.                                                             *)

\* Type invariant; the transfer never gets a size that the file did not have.
PlaybackTypeOK ==
  /\ length \in 1..Size /\ told \in 0..Size /\ told <= length /\ link \in BOOLEAN
  /\ Len(mail) <= MailMax /\ \A i \in 1..Len(mail) : mail[i] \in 1..length
  /\ playback \in {"none", "new", "announced", "ready"}
  /\ fileSize \in 0..length /\ pos \in 0..length
  /\ handling \in 0..length
  /\ {readAhead, deaf} \subseteq BOOLEAN
  /\ streams \in 0..MaxStreams

\* Where Read takes the file for read to its end without asking, it is at its
\* end, or does not know better yet, or has missed all there was to know: once
\* it has heard of growth it reads on even if all further news are lost.
EndIsKnown ==
  playback = "ready" /\ ~Asks =>
    \/ pos = length
    \/ told < length \/ mail # <<>> \/ handling > 0
    \/ deaf

\* And it does get to know: Read does not report the end of a file that goes on
\* for ever, if only some news get through.
ReadGoesOn ==
  []<>(playback = "ready" /\ ~deaf => Asks \/ pos = length)
=============================================================================
