------------------------------ MODULE Streams ------------------------------
(***************************************************************************)
(* Opening and closing the streams of the add-on, and the cache of         *)
(* artworks (module ArtworkCache), which is suspended while one is open:   *)
(* "Suspend fileOps to avoid connection hang".  Three parties do that:     *)
(* Kodi opens and closes streams, the subscription thread stops live TV    *)
(* when the backend asks for its tuner, and the system sleeps and wakes.   *)
(* The first two take PVRClientMythTV's m_lock, the third does not.        *)
(*                                                                         *)
(* What LiveTVPlayback and RecordingPlayback do is abstracted to whether   *)
(* they can be opened.                                                     *)
(***************************************************************************)
EXTENDS ArtworkCache

VARIABLES
  live,    \* m_liveStream: "none", "idle" (created or stopped) or "playing"
  rec,     \* m_recordingStream: "none" or "open"
  lock,    \* the thread that keeps m_lock between two steps
  kodi,    \* what Kodi's thread is at: "stopping" and "waiting" are in Suspend
  stream,  \* the stream it opens, "live" or "rec"
  asked,   \* the subscription thread is about to close the live stream
  power    \* "awake", "stopping" and "waiting" (in OnSleep) or "asleep"

streamVars == <<live, rec, lock, kodi, stream, asked, power>>

vars == <<cacheVars, streamVars>>

\* A step of the streams leaves all of the cache but its thread alone.
CacheAlone == UNCHANGED <<known, file, queue, delayed, job, detached, ask, old,
                          cleans, spoiled>>

Free == lock = "none"

Open == live = "playing" \/ rec = "open"

-----------------------------------------------------------------------------
(* Kodi.                                                                   *)

\* m_lock is taken, the stream created if need be, and the cache suspended.
\* If its thread does not run, Suspend is over at once.
BeginOpen(s) ==
  /\ kodi = "idle" /\ Free
  /\ lock' = "kodi" /\ stream' = s
  /\ Suspend
  /\ kodi' = IF IsRunning THEN "stopping" ELSE "opening"
  /\ CacheAlone /\ UNCHANGED <<asked, power>>

\* OpenLiveStream: a stream that plays is not opened again.
OpenLive ==
  /\ live # "playing"
  /\ live' = "idle" /\ UNCHANGED rec
  /\ BeginOpen("live")

\* SwitchChannel: the stream is stopped and opened again.
SwitchChannel ==
  /\ live = "playing"
  /\ live' = "idle" /\ UNCHANGED rec
  /\ BeginOpen("live")

\* It fails: either the recorder does not stop, and the stream plays on, or the
\* channel is unknown.
SwitchFails ==
  /\ kodi = "idle" /\ Free
  /\ live = "playing" /\ live' \in {"playing", "idle"}
  /\ UNCHANGED <<cacheVars, rec, lock, kodi, stream, asked, power>>

\* OpenRecordedStream.
OpenRecorded ==
  /\ rec = "none"
  /\ UNCHANGED <<live, rec>>
  /\ BeginOpen("rec")

Suspending ==
  /\ kodi = "stopping" /\ StopAgain
  /\ kodi' = IF IsRunning THEN "waiting" ELSE "opening"
  /\ CacheAlone /\ UNCHANGED <<live, rec, lock, stream, asked, power>>

Suspended ==
  /\ kodi = "waiting" /\ SuspendOver
  /\ kodi' = "opening"
  /\ CacheAlone /\ UNCHANGED <<live, rec, lock, stream, asked, power>>

\* SpawnLiveTV or OpenTransfer succeeds.
Opened ==
  /\ kodi = "opening" /\ kodi' = "idle" /\ lock' = "none" /\ stream' = "none"
  /\ IF stream = "live" THEN live' = "playing" /\ UNCHANGED rec
                        ELSE rec' = "open" /\ UNCHANGED live
  /\ UNCHANGED <<cacheVars, asked, power>>

\* Mutant: the cache is not resumed when opening has failed.
OpenFailsQuietly ==
  /\ kodi = "opening" /\ kodi' = "idle" /\ lock' = "none" /\ stream' = "none"
  /\ IF stream = "live" THEN live' = "none" /\ UNCHANGED rec
                        ELSE rec' = "none" /\ UNCHANGED live
  /\ UNCHANGED <<cacheVars, asked, power>>

\* It fails: the stream is deleted and the cache resumed.
OpenFails ==
  /\ kodi = "opening" /\ kodi' = "idle" /\ lock' = "none" /\ stream' = "none"
  /\ IF stream = "live" THEN live' = "none" /\ UNCHANGED rec
                        ELSE rec' = "none" /\ UNCHANGED live
  /\ Resume
  /\ CacheAlone /\ UNCHANGED <<asked, power>>

\* CloseLiveStream, which Kodi may also call when the stream is gone.
CloseLive ==
  /\ kodi = "idle" /\ Free
  /\ live' = "none" /\ Resume
  /\ CacheAlone /\ UNCHANGED <<rec, lock, kodi, stream, asked, power>>

CloseRecorded ==
  /\ kodi = "idle" /\ Free
  /\ rec' = "none" /\ Resume
  /\ CacheAlone /\ UNCHANGED <<live, lock, kodi, stream, asked, power>>

-----------------------------------------------------------------------------
(* The subscription thread: HandleAskRecording.                            *)

\* The backend asks for the tuner of m_liveStream, which is read without the
\* lock.  Cancelling the recording instead changes nothing here.
AskRecording ==
  /\ ~asked /\ live # "none" /\ asked' = TRUE
  /\ UNCHANGED <<cacheVars, live, rec, lock, kodi, stream, power>>

\* CloseLiveStream, by this thread.
StopLiveTV ==
  /\ asked /\ Free /\ asked' = FALSE
  /\ live' = "none" /\ Resume
  /\ CacheAlone /\ UNCHANGED <<rec, lock, kodi, stream, power>>

-----------------------------------------------------------------------------
(* The system: OnSleep and OnWake.                                         *)

OnSleep ==
  /\ power = "awake"
  /\ power' = IF IsRunning THEN "stopping" ELSE "asleep"
  /\ Suspend
  /\ CacheAlone /\ UNCHANGED <<live, rec, lock, kodi, stream, asked>>

FallingAsleep ==
  /\ power = "stopping" /\ StopAgain
  /\ power' = IF IsRunning THEN "waiting" ELSE "asleep"
  /\ CacheAlone /\ UNCHANGED <<live, rec, lock, kodi, stream, asked>>

FallenAsleep ==
  /\ power = "waiting" /\ SuspendOver /\ power' = "asleep"
  /\ CacheAlone /\ UNCHANGED <<live, rec, lock, kodi, stream, asked>>

OnWake ==
  /\ power = "asleep" /\ power' = "awake"
  /\ Resume
  /\ CacheAlone /\ UNCHANGED <<live, rec, lock, kodi, stream, asked>>

-----------------------------------------------------------------------------

Init == /\ CacheInit
        /\ live = "none" /\ rec = "none" /\ lock = "none"
        /\ kodi = "idle" /\ stream = "none" /\ asked = FALSE /\ power = "awake"

\* What Kodi's thread has begun it ends.
KodiStep == Suspending \/ Suspended \/ Opened \/ OpenFails

CacheStep == WorkerStep \/ AskEnd

Next ==
  \/ (CacheStep \/ Age \/ CleanChannelIcons \/ \E a \in Arts : AskCheck(a))
       /\ UNCHANGED streamVars
  \/ KodiStep
  \/ OpenLive \/ SwitchChannel \/ SwitchFails \/ OpenRecorded
  \/ CloseLive \/ CloseRecorded
  \/ AskRecording \/ StopLiveTV
  \/ OnSleep \/ FallingAsleep \/ FallenAsleep \/ OnWake

Safe == Init /\ [][Next]_vars

\* Downloads end, one way or another, and so does opening a stream.
Spec == /\ Safe
        /\ WF_vars(WorkerStep /\ UNCHANGED streamVars)
        /\ WF_vars(KodiStep)
        /\ WF_vars(FallingAsleep \/ FallenAsleep)

-----------------------------------------------------------------------------
(* Properties.                                                             *)

\* Type invariant.
TypeOK ==
  /\ known \subseteq Arts /\ spoiled \subseteq Arts
  /\ file \in [Arts -> {"empty", "filled"}]
  /\ \A i \in DOMAIN Jobs : Jobs[i].art \in Arts /\ Jobs[i].errors \in 0..MaxRetries
  /\ Len(Jobs) <= MaxJobs
  /\ {detached, stop, old, asked} \subseteq BOOLEAN
  /\ late \in {"no", "overdue", "missed"}
  /\ worker \in {"none", "wait", "clean", "serve", "connect", "download"}
  /\ (job # NoJob) <=> (worker \in {"connect", "download"})
  /\ live \in {"none", "idle", "playing"} /\ rec \in {"none", "open"}
  /\ kodi \in {"idle", "stopping", "waiting", "opening"}
  /\ lock = "kodi" <=> kodi # "idle"
  /\ power \in {"awake", "stopping", "waiting", "asleep"}

\* An artwork whose path was handed to Kodi is on disk, or a job for it is
\* somewhere, however the thread was suspended: it is lost only where the
\* code gives it up (no image after the retries, a file that cannot be
\* written) or where the file was thrown away between the request's look at
\* it and its end.
JobsAreKept == \A a \in known : file[a] = "filled" \/ Pending(a) \/ a \in spoiled

\* No stream is open, nobody is opening one and the system is awake.
Idle == live = "none" /\ rec = "none" /\ kodi = "idle" /\ power = "awake"

\* Then the thread of the cache runs and is to go on, unless it outlasted both
\* the 5 s of a wait for its end and the Resume that came after that wait: the
\* code then neither creates a thread nor takes back the order to stop.
CacheIsResumed == Idle => (IsRunning /\ ~stop) \/ late = "missed"

\* Again and again no job is left, unless there is always a stream, or the
\* system sleeps, or the thread has ended for having missed its Resume.
JobsEnd == []<>(Idle /\ late # "missed" => Jobs = <<>>)
=============================================================================
