---------------------------- MODULE ArtworkCache ----------------------------
(***************************************************************************)
(* FileOps: channel icons, previews and artworks are downloaded by one     *)
(* thread into files, whose paths are handed to Kodi at once.  A request   *)
(* looks in a map of paths handed out, then at the file, and leaves a job  *)
(* for the thread when there is none.  The thread can be suspended and     *)
(* resumed (CThread of p8-platform), and throws old files away.            *)
(*                                                                         *)
(* These are the actions of the component; module Streams puts them        *)
(* together with those who suspend and resume it.  Every step that takes   *)
(* m_lock is a single action, so the lock itself is no state; nor is       *)
(* m_queueContent, since the thread also wakes without it, every 10 s.     *)
(*                                                                         *)
(* Bounds: MaxRetries stands for c_maximumAttemptsOnReadError; Kodi asks   *)
(* for no more than MaxJobs jobs at a time, and files are cleaned at most  *)
(* MaxCleans times.                                                        *)
(***************************************************************************)
EXTENDS Integers, Sequences

CONSTANTS Arts, Icons, MaxRetries, MaxJobs, MaxCleans

ASSUME ArtworkAssumption ==
  /\ Icons \subseteq Arts /\ "none" \notin Arts
  /\ MaxRetries \in Nat /\ MaxJobs \in Nat /\ MaxCleans \in Nat

VARIABLES
  known,     \* artworks whose path is in m_icons, m_preview or m_artworks
  file,      \* the file of each: "filled", or "empty", which to CheckFile is
             \* as good as none
  queue,     \* m_jobQueue
  delayed,   \* jobQueueDelayed
  job,       \* what the thread is at, a job or NoJob
  detached,  \* the file it writes has been removed meanwhile
  worker,    \* where the thread is; "none": it is not running
  stop,      \* m_bStop of the thread
  late,      \* history: "overdue" after a wait for its end has timed out,
             \* "missed" after a Resume that came before it ended even so
  ask,       \* a request between its look at the file and its end
  old,       \* the stamp is older than c_cacheMaxAge
  cleans,    \* how often files were cleaned, for the bound
  spoiled    \* history: artworks given up since they were asked for

cacheVars == <<known, file, queue, delayed, job, detached, worker, stop, late,
               ask, old, cleans, spoiled>>

Job(a, n) == [art |-> a, errors |-> n]
NoJob     == [art |-> "none", errors |-> 0]
NoAsk     == [art |-> "none", present |-> FALSE]

IsRunning == worker # "none"

Jobs == queue \o delayed \o IF job = NoJob THEN <<>> ELSE <<job>>

Pending(a) == \E i \in DOMAIN Jobs : Jobs[i].art = a

-----------------------------------------------------------------------------
(* Requests of Kodi: GetChannelIconPath, GetPreviewIconPath, GetArtworkPath*)

\* The path is not in the map: look at the file.
AskCheck(a) ==
  /\ ask = NoAsk /\ a \notin known
  /\ Len(Jobs) < MaxJobs
  /\ ask' = [art |-> a, present |-> file[a] = "filled"]
  /\ spoiled' = spoiled \ {a}
  /\ UNCHANGED <<known, file, queue, delayed, job, detached, worker, stop, late, old,
                 cleans>>

\* Leave a job if the file was not there, and remember the path regardless.
AskEnd ==
  /\ ask # NoAsk
  /\ queue' = IF ask.present THEN queue ELSE Append(queue, Job(ask.art, 0))
  /\ known' = known \union {ask.art}
  /\ ask' = NoAsk
  /\ UNCHANGED <<file, delayed, job, detached, worker, stop, late, old, cleans, spoiled>>

-----------------------------------------------------------------------------
(* Throwing files away.                                                    *)

\* The directories of the artworks "these" are removed, or removal fails, and
\* their paths forgotten.  A request that has seen one of the files relies on
\* what is gone.
Forget(these) ==
  /\ known' = known \ these
  /\ \/ /\ file' = [a \in Arts |-> IF a \in these THEN "empty" ELSE file[a]]
        /\ detached' = (detached \/ job.art \in these)
        /\ spoiled' = spoiled \union (IF ask.present THEN {ask.art} \intersect these
                                                     ELSE {})
     \/ UNCHANGED <<file, detached, spoiled>>

\* From the menu of Kodi.
CleanChannelIcons ==
  /\ cleans < MaxCleans /\ cleans' = cleans + 1
  /\ Forget(Icons)
  /\ UNCHANGED <<queue, delayed, job, worker, stop, late, ask, old>>

\* Time passes.
Age == /\ ~old /\ cleans < MaxCleans /\ cleans' = cleans + 1
       /\ old' = TRUE
       /\ UNCHANGED <<known, file, queue, delayed, job, detached, worker, stop, late,
                      ask, spoiled>>

\* Before the thread lets Kodi know (HandleCleanedCache).
CleanCache ==
  /\ worker = "clean" /\ worker' = "serve"
  /\ Forget(Arts \ Icons)
  /\ old' = FALSE
  /\ UNCHANGED <<queue, delayed, job, stop, late, ask, cleans>>

-----------------------------------------------------------------------------
(* The thread.                                                             *)

\* It wakes when signalled, or every 10 s, and looks whether to clean.
Wake ==
  /\ worker = "wait"
  /\ worker' = IF queue = <<>> /\ ~stop /\ old THEN "clean" ELSE "serve"
  /\ UNCHANGED <<known, file, queue, delayed, job, detached, stop, late, ask, old,
                 cleans, spoiled>>

\* The next job; when its file cannot be opened it is dropped.
Fetch ==
  /\ worker = "serve" /\ queue # <<>> /\ ~stop
  /\ queue' = Tail(queue)
  /\ LET a == Head(queue).art
     IN  \/ /\ worker' = "connect" /\ job' = Head(queue)
            /\ file' = [file EXCEPT ![a] = "empty"]
            /\ detached' = FALSE
            /\ UNCHANGED spoiled
         \/ /\ spoiled' = spoiled \union {a}
            /\ UNCHANGED <<worker, job, file, detached>>
  /\ UNCHANGED <<known, delayed, stop, late, ask, old, cleans>>

\* The job is over.
EndJob == worker' = "serve" /\ job' = NoJob /\ detached' = FALSE

GiveUp == spoiled' = spoiled \union {job.art}

\* Mutant: one attempt more than the bound.
MayRetryOnceMore(n) == n <= MaxRetries

MayRetry(n) == n + 1 <= MaxRetries

\* The service has nothing: try again later, a few times.
ConnectFails ==
  /\ worker = "connect" /\ EndJob
  /\ IF MayRetry(job.errors)
     THEN delayed' = Append(delayed, Job(job.art, job.errors + 1)) /\ UNCHANGED spoiled
     ELSE GiveUp /\ UNCHANGED delayed
  /\ UNCHANGED <<known, file, queue, stop, late, ask, old, cleans>>

\* The first bytes of the image, if it has any.
Connect ==
  /\ worker = "connect" /\ worker' = "download"
  /\ \/ ~detached /\ file' = [file EXCEPT ![job.art] = "filled"]
     \/ UNCHANGED file
  /\ UNCHANGED <<known, queue, delayed, job, detached, stop, late, ask, old, cleans, spoiled>>

\* CacheFile ends well.  An image of no bytes counts as well, and so does one
\* that cannot be written.
Cached ==
  /\ worker = "download" /\ EndJob
  /\ IF detached \/ file[job.art] # "filled" THEN GiveUp ELSE UNCHANGED spoiled
  /\ UNCHANGED <<known, file, queue, delayed, stop, late, ask, old, cleans>>

\* CacheFile fails: the file is deleted, and nobody tries again.
CacheFails ==
  /\ worker = "download" /\ EndJob /\ GiveUp
  /\ file' = [file EXCEPT ![job.art] = "empty"]
  /\ UNCHANGED <<known, queue, delayed, stop, late, ask, old, cleans>>

\* Mutant: the jobs to retry are put back only if the thread goes on.
RequeueUnlessStopped ==
  /\ worker = "serve" /\ (queue = <<>> \/ stop)
  /\ queue' = IF stop THEN queue ELSE queue \o delayed
  /\ delayed' = <<>>
  /\ worker' = IF stop THEN "none" ELSE "wait"
  /\ late' = IF stop /\ late = "overdue" THEN "no" ELSE late
  /\ UNCHANGED <<known, file, job, detached, stop, ask, old, cleans, spoiled>>

\* No more jobs, or none to be done now.
Requeue ==
  /\ worker = "serve" /\ (queue = <<>> \/ stop)
  /\ queue' = queue \o delayed /\ delayed' = <<>>
  /\ worker' = IF stop THEN "none" ELSE "wait"
  /\ late' = IF stop /\ late = "overdue" THEN "no" ELSE late
  /\ UNCHANGED <<known, file, job, detached, stop, ask, old, cleans, spoiled>>

WorkerStep == \/ Wake \/ CleanCache \/ Fetch \/ ConnectFails \/ Connect
              \/ Cached \/ CacheFails \/ Requeue

-----------------------------------------------------------------------------
(* Suspend and Resume; those who call them say what they leave alone.      *)

threadVars == <<worker, stop, late>>

\* StopThread(-1), for a thread that runs.
Suspend == /\ stop' = (stop \/ IsRunning)
           /\ UNCHANGED <<worker, late>>

\* The flag is set once more, whatever has become of the thread since, before
\* StopThread() waits.
StopAgain == stop' = TRUE /\ UNCHANGED <<worker, late>>

\* The wait is over: the thread has ended, or 5 s have passed.
SuspendOver == /\ late' = IF stop /\ IsRunning THEN "overdue" ELSE late
               /\ UNCHANGED <<worker, stop>>

\* Mutant: the thread is created without clearing the flag.
ResumeStopped == /\ worker' = IF stop /\ ~IsRunning THEN "wait" ELSE worker
                 /\ UNCHANGED <<stop, late>>

\* CreateThread does nothing while the thread to be replaced still runs.
Resume ==
  \/ /\ stop /\ ~IsRunning
     /\ stop' = FALSE /\ worker' = "wait" /\ late' = "no"
  \/ /\ stop /\ IsRunning
     /\ late' = IF late = "overdue" THEN "missed" ELSE late
     /\ UNCHANGED <<worker, stop>>
  \/ ~stop /\ UNCHANGED threadVars

CacheInit ==
  /\ known = {} /\ file \in [Arts -> {"empty", "filled"}]
  /\ queue = <<>> /\ delayed = <<>> /\ job = NoJob /\ detached = FALSE
  /\ worker = "wait" /\ stop = FALSE /\ late = "no"
  /\ ask = NoAsk /\ old = FALSE /\ cleans = 0 /\ spoiled = {}
=============================================================================
