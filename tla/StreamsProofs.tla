--------------------------- MODULE StreamsProofs ---------------------------
(***************************************************************************)
(* For any artworks and any bounds: the types of Streams and of the cache  *)
(* it is composed with, that no artwork handed to Kodi is forgotten, and   *)
(* that the cache runs whenever no stream is open and the system is awake, *)
(* unless its thread outlasted the wait for its end and the Resume after.  *)
(*                                                                         *)
(* Then, for any size of file, the recording that such a stream plays: the *)
(* types of RecordingPlayback, and that the end of a file is known.        *)
(***************************************************************************)
EXTENDS Streams, RecordingPlayback, SequenceTheorems, TLAPS

\* The thread ends only when it was told to ...
RunsUntold == ~stop => IsRunning

\* ... and while it has been told and has not ended, somebody is about to wait
\* for it or waits, or has waited too long.
Awaited == kodi \in {"stopping", "waiting"} \/ power \in {"stopping", "waiting"}
EndIsAwaited == stop /\ IsRunning => Awaited \/ late # "no"

LateType == late \in {"no", "overdue", "missed"}

IInv == RunsUntold /\ EndIsAwaited /\ CacheIsResumed /\ LateType

\* Where the end of the thread is awaited, the system is not idle.
LEMMA AwaitedIsBusy == Awaited => ~Idle
BY DEF Awaited, Idle

\* What Suspend leaves: the thread as it was, told to end if it runs.
LEMMA AfterSuspend ==
  ASSUME RunsUntold, Suspend
  PROVE  stop' /\ (IsRunning' <=> IsRunning) /\ late' = late
BY Zenon DEF RunsUntold, Suspend, IsRunning

\* What Resume leaves: a thread that runs and is to go on; or one that was told
\* to end and has not, whose delay is noted if the wait for it is over.
LEMMA AfterResume ==
  ASSUME RunsUntold, Resume
  PROVE  \/ ~stop' /\ IsRunning' /\ late' \in {"no", late}
         \/ /\ stop /\ IsRunning /\ UNCHANGED <<worker, stop>>
            /\ late' = IF late = "overdue" THEN "missed" ELSE late
<1>1. CASE stop /\ ~IsRunning /\ stop' = FALSE /\ worker' = "wait" /\ late' = "no"
  BY <1>1 DEF IsRunning
<1>2. CASE /\ stop /\ IsRunning /\ UNCHANGED <<worker, stop>>
           /\ late' = IF late = "overdue" THEN "missed" ELSE late
  BY <1>2
<1>3. CASE ~stop /\ UNCHANGED threadVars
  BY <1>3 DEF IsRunning, RunsUntold, threadVars
<1> QED BY <1>1, <1>2, <1>3 DEF Resume

\* A step of the cache itself never changes the flag, and ends the thread only
\* when it is up.
LEMMA CacheSteps ==
  ASSUME RunsUntold,
         CacheStep \/ Age \/ CleanChannelIcons \/ \E a \in Arts : AskCheck(a)
  PROVE  /\ stop' = stop /\ (IsRunning' => IsRunning) /\ (~stop => IsRunning')
         /\ late' = late \/ (late = "overdue" /\ ~IsRunning' /\ late' = "no")
<1> USE DEF IsRunning, RunsUntold
<1>1. CASE Wake
  BY <1>1 DEF Wake
<1>2. CASE CleanCache
  BY <1>2 DEF CleanCache
<1>3. CASE Fetch
  BY <1>3 DEF Fetch
<1>4. CASE ConnectFails
  BY <1>4 DEF ConnectFails, EndJob
<1>5. CASE Connect
  BY <1>5 DEF Connect
<1>6. CASE Cached
  BY <1>6 DEF Cached, EndJob
<1>7. CASE CacheFails
  BY <1>7 DEF CacheFails, EndJob
<1>8. CASE Requeue
  BY <1>8 DEF Requeue
<1>9. CASE AskEnd
  BY <1>9 DEF AskEnd
<1>10. CASE Age
  BY <1>10 DEF Age
<1>11. CASE CleanChannelIcons
  BY <1>11 DEF CleanChannelIcons
<1>12. CASE \E a \in Arts : AskCheck(a)
  BY <1>12 DEF AskCheck
<1> QED
  BY <1>1, <1>2, <1>3, <1>4, <1>5, <1>6, <1>7, <1>8, <1>9, <1>10, <1>11, <1>12
     DEF CacheStep, WorkerStep

\* The thread is told to end by one who will wait for it if it runs.
LEMMA OrderGiven ==
  ASSUME IInv, stop', IsRunning' <=> IsRunning, late' = late, ~Idle', IsRunning => Awaited'
  PROVE  IInv'
BY DEF IInv, RunsUntold, EndIsAwaited, CacheIsResumed, LateType

\* Opening a stream begins.
LEMMA OpeningBegins ==
  ASSUME IInv, NEW s, BeginOpen(s) PROVE IInv'
<1>1. /\ stop' /\ (IsRunning' <=> IsRunning) /\ late' = late
      /\ kodi' = IF IsRunning THEN "stopping" ELSE "opening"
  BY AfterSuspend DEF BeginOpen, IInv
<1>2. kodi' # "idle" /\ (IsRunning => kodi' = "stopping")
  BY <1>1
<1>3. ~Idle' /\ (IsRunning => Awaited')
  BY <1>2 DEF Idle, Awaited
<1> QED BY <1>1, <1>3, OrderGiven

\* The order is given again.
LEMMA GivenAgain ==
  ASSUME IInv, StopAgain, ~Idle', IsRunning => Awaited' PROVE IInv'
<1>1. stop' /\ (IsRunning' <=> IsRunning) /\ late' = late
  BY DEF StopAgain, IsRunning
<1> QED BY <1>1, OrderGiven

\* The wait is over.
LEMMA WaitOver ==
  ASSUME IInv, SuspendOver, ~Idle' PROVE IInv'
<1>1. /\ UNCHANGED <<worker, stop>>
      /\ late' = IF stop /\ IsRunning THEN "overdue" ELSE late
  BY DEF SuspendOver
<1>2. CASE stop /\ IsRunning
  BY <1>1, <1>2 DEF IInv, RunsUntold, EndIsAwaited, CacheIsResumed, LateType, IsRunning
<1>3. CASE ~(stop /\ IsRunning)
  BY <1>1, <1>3 DEF IInv, RunsUntold, EndIsAwaited, CacheIsResumed, LateType, IsRunning
<1> QED BY <1>2, <1>3

\* A stream is closed, or could not be opened; or the system wakes.
LEMMA Resuming ==
  ASSUME IInv, Resume, Awaited => Awaited' PROVE IInv'
<1>1. CASE ~stop' /\ IsRunning' /\ late' \in {"no", late}
  BY <1>1 DEF IInv, RunsUntold, EndIsAwaited, CacheIsResumed, LateType
<1>2. CASE /\ stop /\ IsRunning /\ UNCHANGED <<worker, stop>>
           /\ late' = IF late = "overdue" THEN "missed" ELSE late
  <2>1. IsRunning' /\ RunsUntold' /\ LateType'
    BY <1>2 DEF IInv, RunsUntold, LateType, IsRunning
  <2>2. CASE late = "no"
    <3>1. Awaited'
      BY <1>2, <2>2 DEF IInv, EndIsAwaited
    <3>2. ~Idle'
      BY <3>1, AwaitedIsBusy DEF Awaited, Idle
    <3> QED BY <2>1, <3>1, <3>2 DEF IInv, EndIsAwaited, CacheIsResumed
  <2>3. CASE late # "no"
    <3>1. late' = "missed"
      BY <1>2, <2>3 DEF IInv, LateType
    <3> QED BY <2>1, <3>1 DEF IInv, EndIsAwaited, CacheIsResumed
  <2> QED BY <2>2, <2>3
<1> QED BY <1>1, <1>2, AfterResume DEF IInv

\* The thread and the flag are left alone.
LEMMA ThreadAlone ==
  ASSUME IInv, UNCHANGED <<worker, stop, late>>, Idle' => Idle, Awaited => Awaited'
  PROVE  IInv'
BY DEF IInv, RunsUntold, EndIsAwaited, CacheIsResumed, LateType, IsRunning

\* Every step preserves the invariant.
LEMMA Step == IInv /\ [Next]_vars => IInv'
<1> SUFFICES ASSUME IInv, [Next]_vars PROVE IInv'
  OBVIOUS
<1>1. CASE (CacheStep \/ Age \/ CleanChannelIcons \/ \E a \in Arts : AskCheck(a))
             /\ UNCHANGED streamVars
  <2>1. /\ stop' = stop /\ (IsRunning' => IsRunning) /\ (~stop => IsRunning')
        /\ late' = late \/ (late = "overdue" /\ ~IsRunning' /\ late' = "no")
    BY <1>1, CacheSteps DEF IInv
  <2>2. UNCHANGED <<live, rec, kodi, power>>
    BY <1>1 DEF streamVars
  <2>3. (Idle' <=> Idle) /\ (Awaited' <=> Awaited)
    BY <2>2 DEF Idle, Awaited
  <2> QED BY <2>1, <2>3 DEF IInv, RunsUntold, EndIsAwaited, CacheIsResumed, LateType
<1>2. CASE Suspending
  <2>1. StopAgain /\ kodi' = IF IsRunning THEN "waiting" ELSE "opening"
    BY <1>2 DEF Suspending
  <2>2. ~Idle' /\ (IsRunning => Awaited')
    BY <2>1 DEF Idle, Awaited
  <2> QED BY <2>1, <2>2, GivenAgain
<1>3. CASE Suspended
  <2>1. SuspendOver /\ ~Idle'
    BY <1>3 DEF Suspended, Idle
  <2> QED BY <2>1, WaitOver
<1>4. CASE Opened
  <2>1. UNCHANGED <<worker, stop, late, power>> /\ kodi = "opening"
    BY <1>4 DEF Opened, cacheVars
  <2>2. live' = "playing" \/ rec' = "open"
    BY <1>4 DEF Opened
  <2>3. ~Idle' /\ (Awaited => Awaited')
    BY <2>1, <2>2 DEF Idle, Awaited
  <2> QED BY <2>1, <2>3, ThreadAlone
<1>5. CASE OpenFails
  <2>1. Resume /\ kodi = "opening" /\ power' = power
    BY <1>5 DEF OpenFails
  <2> QED BY <2>1, Resuming DEF Awaited
<1>6. CASE OpenLive \/ SwitchChannel \/ OpenRecorded
  BY <1>6, OpeningBegins DEF OpenLive, SwitchChannel, OpenRecorded
<1>7. CASE SwitchFails \/ AskRecording
  <2>1. UNCHANGED <<worker, stop, late, rec, kodi, power>>
    BY <1>7 DEF SwitchFails, AskRecording, cacheVars
  <2>2. Idle' => Idle
    BY <1>7, <2>1 DEF SwitchFails, AskRecording, Idle
  <2> QED BY <2>1, <2>2, ThreadAlone DEF Awaited
<1>8. CASE CloseLive \/ CloseRecorded \/ StopLiveTV
  <2>1. Resume /\ UNCHANGED <<kodi, power>>
    BY <1>8 DEF CloseLive, CloseRecorded, StopLiveTV
  <2> QED BY <2>1, Resuming DEF Awaited
<1>9. CASE OnSleep
  <2>1. /\ stop' /\ (IsRunning' <=> IsRunning) /\ late' = late
        /\ power' = IF IsRunning THEN "stopping" ELSE "asleep"
    BY <1>9, AfterSuspend DEF OnSleep, IInv
  <2>2. ~Idle' /\ (IsRunning => Awaited')
    BY <2>1 DEF Idle, Awaited
  <2> QED BY <2>1, <2>2, OrderGiven
<1>10. CASE FallingAsleep
  <2>1. StopAgain /\ power' = IF IsRunning THEN "waiting" ELSE "asleep"
    BY <1>10 DEF FallingAsleep
  <2>2. ~Idle' /\ (IsRunning => Awaited')
    BY <2>1 DEF Idle, Awaited
  <2> QED BY <2>1, <2>2, GivenAgain
<1>11. CASE FallenAsleep
  <2>1. SuspendOver /\ ~Idle'
    BY <1>11 DEF FallenAsleep, Idle
  <2> QED BY <2>1, WaitOver
<1>12. CASE OnWake
  <2>1. Resume /\ power = "asleep" /\ kodi' = kodi
    BY <1>12 DEF OnWake
  <2> QED BY <2>1, Resuming DEF Awaited
<1>13. CASE UNCHANGED vars
  <2>1. UNCHANGED <<worker, stop, late, live, rec, kodi, power>>
    BY <1>13 DEF vars, cacheVars, streamVars
  <2> QED BY <2>1, ThreadAlone DEF Idle, Awaited
<1> QED
  BY <1>1, <1>2, <1>3, <1>4, <1>5, <1>6, <1>7, <1>8, <1>9, <1>10, <1>11, <1>12, <1>13
     DEF Next, KodiStep

\* The invariant is inductive.
LEMMA ThreadAlways == Spec => []IInv
<1>1. Init => IInv
  BY DEF Init, CacheInit, IInv, RunsUntold, EndIsAwaited, CacheIsResumed, IsRunning,
         LateType
<1> QED BY <1>1, Step, PTL DEF Spec, Safe

\* Whatever the artworks, and however long downloads take: when the last stream
\* is closed, or could not be opened, and the system is awake, the thread of the
\* cache runs and is to go on, unless it outlasted the wait of FileOps::Suspend
\* and the FileOps::Resume after it.
THEOREM CacheComesBack == Spec => []CacheIsResumed
<1>1. IInv => CacheIsResumed
  BY DEF IInv
<1> QED BY <1>1, ThreadAlways, PTL

-----------------------------------------------------------------------------
(* The types, and what becomes of the jobs.                                *)

JobType == [art : Arts, errors : 0 .. MaxRetries]
AskType == [art : Arts, present : BOOLEAN]
ArtsOf(s) == {s[i].art : i \in DOMAIN s}

CacheFlags == detached \in BOOLEAN /\ stop \in BOOLEAN /\ old \in BOOLEAN

StreamType ==
  /\ live \in {"none", "idle", "playing"} /\ rec \in {"none", "open"}
  /\ kodi \in {"idle", "stopping", "waiting", "opening"}
  /\ lock = "kodi" <=> kodi # "idle"
  /\ power \in {"awake", "stopping", "waiting", "asleep"}

JobsType ==
  /\ queue \in Seq(JobType) /\ delayed \in Seq(JobType)
  /\ job \in {NoJob} \cup JobType /\ ask \in {NoAsk} \cup AskType
  /\ worker \in {"none", "wait", "clean", "serve", "connect", "download"}
  /\ (job # NoJob) <=> (worker \in {"connect", "download"})

\* A request that has begun has its place among the jobs.
Room ==
  Len(queue) + Len(delayed) + (IF job = NoJob THEN 0 ELSE 1) + (IF ask = NoAsk THEN 0 ELSE 1)
    <= MaxJobs

FileType == /\ known \subseteq Arts /\ spoiled \subseteq Arts
            /\ file \in [Arts -> {"empty", "filled"}]

CacheType == CacheFlags /\ JobsType /\ Room /\ FileType

\* The artworks there are jobs for.
Waiting == ArtsOf(queue) \cup ArtsOf(delayed) \cup (IF job = NoJob THEN {} ELSE {job.art})

\* A request that has seen the file relies on it as Kodi does on a path.
Kept == \A a \in Arts : a \in known \/ (ask.present /\ ask.art = a) =>
          file[a] = "filled" \/ a \in Waiting \/ a \in spoiled

LEMMA ArtsOfSeq ==
  /\ \A s, t \in Seq(JobType) : ArtsOf(s \o t) = ArtsOf(s) \cup ArtsOf(t)
  /\ \A s \in Seq(JobType), j \in JobType : ArtsOf(Append(s, j)) = ArtsOf(s) \cup {j.art}
  /\ \A s \in Seq(JobType) : s # <<>> =>
       /\ Head(s) \in JobType /\ Tail(s) \in Seq(JobType) /\ Len(Tail(s)) = Len(s) - 1
       /\ ArtsOf(s) = {Head(s).art} \cup ArtsOf(Tail(s))
<1>1. ASSUME NEW s \in Seq(JobType), NEW t \in Seq(JobType)
      PROVE  ArtsOf(s \o t) = ArtsOf(s) \cup ArtsOf(t)
  <2>1. /\ Len(s) \in Nat /\ Len(t) \in Nat /\ DOMAIN s = 1 .. Len(s) /\ DOMAIN t = 1 .. Len(t)
        /\ DOMAIN (s \o t) = 1 .. Len(s) + Len(t)
        /\ \A i \in 1 .. Len(s) + Len(t) :
             (s \o t)[i] = IF i <= Len(s) THEN s[i] ELSE t[i - Len(s)]
    BY ConcatProperties, LenProperties
  <2>2. ASSUME NEW i \in DOMAIN (s \o t) PROVE (s \o t)[i].art \in ArtsOf(s) \cup ArtsOf(t)
    <3>1. CASE i <= Len(s)
      BY <2>1, <3>1 DEF ArtsOf
    <3>2. CASE ~(i <= Len(s))
      <4>1. i - Len(s) \in DOMAIN t /\ (s \o t)[i] = t[i - Len(s)]
        BY <2>1, <3>2
      <4> QED BY <4>1 DEF ArtsOf
    <3> QED BY <3>1, <3>2
  <2>3. ASSUME NEW i \in DOMAIN s PROVE s[i].art \in ArtsOf(s \o t)
    <3>1. i \in DOMAIN (s \o t) /\ (s \o t)[i] = s[i]
      BY <2>1
    <3> QED BY <3>1 DEF ArtsOf
  <2>4. ASSUME NEW i \in DOMAIN t PROVE t[i].art \in ArtsOf(s \o t)
    <3>1. i + Len(s) \in DOMAIN (s \o t) /\ (s \o t)[i + Len(s)] = t[i]
      BY <2>1
    <3> QED BY <3>1 DEF ArtsOf
  <2> QED BY <2>2, <2>3, <2>4 DEF ArtsOf
<1>2. ASSUME NEW s \in Seq(JobType), NEW j \in JobType
      PROVE  ArtsOf(Append(s, j)) = ArtsOf(s) \cup {j.art}
  <2>1. /\ Len(s) \in Nat /\ DOMAIN s = 1 .. Len(s)
        /\ DOMAIN Append(s, j) = 1 .. Len(s) + 1
        /\ Append(s, j)[Len(s) + 1] = j
        /\ \A i \in 1 .. Len(s) : Append(s, j)[i] = s[i]
    BY AppendProperties, LenProperties
  <2>2. ASSUME NEW i \in 1 .. Len(s) + 1 PROVE i = Len(s) + 1 \/ i \in 1 .. Len(s)
    BY <2>1
  <2>3. \A i \in 1 .. Len(s) : i \in 1 .. Len(s) + 1
    BY <2>1
  <2>4. Len(s) + 1 \in 1 .. Len(s) + 1
    BY <2>1
  <2> QED BY <2>1, <2>2, <2>3, <2>4 DEF ArtsOf
<1>3. ASSUME NEW s \in Seq(JobType), s # <<>>
      PROVE  /\ Head(s) \in JobType /\ Tail(s) \in Seq(JobType) /\ Len(Tail(s)) = Len(s) - 1
             /\ ArtsOf(s) = {Head(s).art} \cup ArtsOf(Tail(s))
  <2>1. /\ Head(s) \in JobType /\ Tail(s) \in Seq(JobType) /\ Len(Tail(s)) = Len(s) - 1
        /\ \A i \in 1 .. Len(Tail(s)) : Tail(s)[i] = s[i + 1]
    BY <1>3, HeadTailProperties
  <2>2. /\ Len(s) \in Nat \ {0} /\ DOMAIN s = 1 .. Len(s) /\ Head(s) = s[1]
        /\ DOMAIN Tail(s) = 1 .. Len(s) - 1
    BY <1>3, <2>1, EmptySeq, LenProperties
  <2>3. ASSUME NEW i \in DOMAIN s PROVE s[i].art \in {Head(s).art} \cup ArtsOf(Tail(s))
    <3>1. CASE i = 1
      BY <2>2, <3>1
    <3>2. CASE i # 1
      <4>1. i - 1 \in DOMAIN Tail(s) /\ Tail(s)[i - 1] = s[i]
        BY <2>1, <2>2, <3>2
      <4> QED BY <4>1 DEF ArtsOf
    <3> QED BY <3>1, <3>2
  <2>4. ASSUME NEW i \in DOMAIN Tail(s) PROVE Tail(s)[i].art \in ArtsOf(s)
    <3>1. i + 1 \in DOMAIN s /\ Tail(s)[i] = s[i + 1]
      BY <2>1, <2>2
    <3> QED BY <3>1 DEF ArtsOf
  <2>5. Head(s).art \in ArtsOf(s)
    BY <2>2 DEF ArtsOf
  <2> QED BY <2>1, <2>3, <2>4, <2>5 DEF ArtsOf
<1> QED BY <1>1, <1>2, <1>3

JobsInv == CacheType /\ Kept

LEMMA NoneIsNone ==
  /\ \A j \in JobType : j # NoJob /\ j.art \in Arts
  /\ \A r \in AskType : r # NoAsk /\ r.art \in Arts
  /\ NoJob.art \notin Arts /\ ~NoAsk.present
BY ArtworkAssumption DEF JobType, AskType, NoJob, NoAsk

LEMMA LengthsAreNat ==
  ASSUME JobsType PROVE Len(queue) \in Nat /\ Len(delayed) \in Nat /\ MaxJobs \in Nat
BY LenProperties, ArtworkAssumption DEF JobsType

\* What is not touched stays as it should be.
LEMMA CacheKept ==
  ASSUME JobsInv,
         UNCHANGED <<known, file, queue, delayed, job, ask, spoiled, detached, old>>,
         worker' \in {"none", "wait", "clean", "serve", "connect", "download"},
         worker \in {"connect", "download"} <=> worker' \in {"connect", "download"},
         stop' \in BOOLEAN
  PROVE  JobsInv'
<1>1. JobsType' /\ FileType' /\ Room'
  BY DEF JobsInv, CacheType, JobsType, FileType, Room
<1>2. CacheFlags'
  BY Zenon DEF JobsInv, CacheType, CacheFlags
<1>3. Kept'
  BY DEF JobsInv, Kept, Waiting
<1> QED BY <1>1, <1>2, <1>3 DEF JobsInv, CacheType

LEMMA FlagsKept ==
  ASSUME CacheFlags, CacheStep \/ Age \/ CleanChannelIcons \/ \E a \in Arts : AskCheck(a)
  PROVE  CacheFlags'
<1> USE DEF CacheFlags
<1>1. CASE Wake \/ Connect \/ Requeue \/ AskEnd \/ Age
  BY <1>1, Zenon DEF Wake, Connect, Requeue, AskEnd, Age
<1>2. CASE Fetch
  BY <1>2, Zenon DEF Fetch
<1>3. CASE ConnectFails \/ Cached \/ CacheFails
  BY <1>3, Zenon DEF ConnectFails, Cached, CacheFails, EndJob
<1>4. CASE CleanCache
  <2>1. UNCHANGED stop /\ old' = FALSE /\ Forget(Arts \ Icons)
    BY <1>4 DEF CleanCache
  <2> QED BY <2>1, Zenon DEF Forget
<1>5. CASE CleanChannelIcons
  <2>1. UNCHANGED <<stop, old>> /\ Forget(Icons)
    BY <1>5 DEF CleanChannelIcons
  <2> QED BY <2>1, Zenon DEF Forget
<1>6. ASSUME NEW a \in Arts, AskCheck(a) PROVE CacheFlags'
  BY <1>6, Zenon DEF AskCheck
<1> QED BY <1>1, <1>2, <1>3, <1>4, <1>5, <1>6 DEF CacheStep, WorkerStep

LEMMA ForgetKeeps ==
  ASSUME JobsInv, NEW these \in SUBSET Arts, Forget(these),
         UNCHANGED <<queue, delayed, job, ask>>,
         worker' = worker \/ (worker = "clean" /\ worker' = "serve")
  PROVE  JobsType' /\ Room' /\ FileType' /\ Kept'
<1>1. JobsType' /\ Room'
  BY DEF JobsInv, CacheType, JobsType, Room
<1>2. ask.present => ask.art \in Arts
  BY NoneIsNone DEF JobsInv, CacheType, JobsType
<1>3. FileType'
  BY <1>2 DEF JobsInv, CacheType, FileType, Forget
<1>4. Kept'
  <2>1. ASSUME NEW a \in Arts, a \in known' \/ (ask'.present /\ ask'.art = a)
        PROVE  file'[a] = "filled" \/ a \in Waiting' \/ a \in spoiled'
    <3>1. Waiting' = Waiting
      BY DEF Waiting
    <3>2. file[a] = "filled" \/ a \in Waiting \/ a \in spoiled
      BY <2>1 DEF JobsInv, Kept, Forget
    <3>3. spoiled \subseteq spoiled'
      BY DEF Forget
    <3>4. CASE UNCHANGED file
      BY <3>1, <3>2, <3>3, <3>4
    <3>5. CASE /\ file' = [b \in Arts |-> IF b \in these THEN "empty" ELSE file[b]]
               /\ spoiled' = spoiled \cup (IF ask.present THEN {ask.art} \cap these ELSE {})
      <4>1. a \in these => a \in spoiled'
        BY <2>1, <3>5 DEF Forget
      <4> QED BY <3>1, <3>2, <3>3, <3>5, <4>1
    <3> QED BY <3>4, <3>5 DEF Forget
  <2> QED BY <2>1 DEF Kept
<1> QED BY <1>1, <1>3, <1>4

\* A job that is over leaves its file, a job to retry or a note that it was
\* given up.
LEMMA JobOver ==
  ASSUME JobsInv, EndJob, worker \in {"connect", "download"},
         UNCHANGED <<known, queue, ask>>,
         spoiled' \in {spoiled, spoiled \cup {job.art}},
         file' \in [Arts -> {"empty", "filled"}],
         \A a \in Arts : a # job.art => file'[a] = file[a],
         \/ delayed' = delayed
         \/ \E j \in JobType : j.art = job.art /\ delayed' = Append(delayed, j),
         job.art \in spoiled' \/ file'[job.art] = "filled" \/ delayed' # delayed
  PROVE  JobsType' /\ Room' /\ FileType' /\ Kept'
<1>1. job \in JobType /\ job # NoJob /\ job.art \in Arts /\ job' = NoJob /\ worker' = "serve"
  BY NoneIsNone DEF JobsInv, CacheType, JobsType, EndJob
<1>2. queue \in Seq(JobType) /\ delayed \in Seq(JobType)
  BY DEF JobsInv, CacheType, JobsType
<1>3. /\ delayed' \in Seq(JobType) /\ Len(delayed') \in Nat /\ Len(delayed') <= Len(delayed) + 1
      /\ ArtsOf(delayed) \subseteq ArtsOf(delayed')
      /\ delayed' # delayed => job.art \in ArtsOf(delayed')
  <2>1. CASE delayed' = delayed
    BY <1>2, <2>1, LenProperties
  <2>2. ASSUME NEW j \in JobType, j.art = job.art, delayed' = Append(delayed, j)
        PROVE  /\ delayed' \in Seq(JobType) /\ Len(delayed') = Len(delayed) + 1
               /\ ArtsOf(delayed') = ArtsOf(delayed) \cup {job.art}
    BY <1>2, <2>2, ArtsOfSeq, AppendProperties
  <2>3. Len(delayed) \in Nat
    BY <1>2, LenProperties
  <2> QED BY <2>1, <2>2, <2>3
<1>4. JobsType'
  BY <1>1, <1>2, <1>3 DEF JobsInv, CacheType, JobsType
<1>5. Room'
  <2>1. Len(queue) \in Nat /\ Len(delayed) \in Nat /\ MaxJobs \in Nat
    BY LengthsAreNat DEF JobsInv, CacheType
  <2>2. Len(queue) + Len(delayed) + 1 + (IF ask = NoAsk THEN 0 ELSE 1) <= MaxJobs
    BY <1>1 DEF JobsInv, CacheType, Room
  <2>3. Len(queue) + Len(delayed') + 0 + (IF ask = NoAsk THEN 0 ELSE 1) <= MaxJobs
    BY <1>3, <2>1, <2>2
  <2> QED BY <1>1, <2>3 DEF Room
<1>6. FileType'
  BY <1>1 DEF JobsInv, CacheType, FileType
<1>7. Kept'
  <2>1. ASSUME NEW a \in Arts, a \in known' \/ (ask'.present /\ ask'.art = a)
        PROVE  file'[a] = "filled" \/ a \in Waiting' \/ a \in spoiled'
    <3>1. file[a] = "filled" \/ a \in Waiting \/ a \in spoiled
      BY <2>1 DEF JobsInv, Kept
    <3>2. CASE a = job.art
      BY <1>3, <3>2 DEF Waiting
    <3>3. CASE a # job.art
      BY <1>1, <1>3, <3>1, <3>3 DEF Waiting
    <3> QED BY <3>2, <3>3
  <2> QED BY <2>1 DEF Kept
<1> QED BY <1>4, <1>5, <1>6, <1>7

\* The jobs are those of the two queues and the one in hand.
LEMMA JobsParts ==
  ASSUME JobsType
  PROVE  /\ Jobs \in Seq(JobType) /\ ArtsOf(Jobs) = Waiting
         /\ Len(Jobs) = Len(queue) + Len(delayed) + (IF job = NoJob THEN 0 ELSE 1)
<1> DEFINE hand == IF job = NoJob THEN <<>> ELSE <<job>>
<1>1. queue \in Seq(JobType) /\ delayed \in Seq(JobType) /\ job \in {NoJob} \cup JobType
  BY DEF JobsType
<1>2. /\ hand \in Seq(JobType) /\ Len(hand) = (IF job = NoJob THEN 0 ELSE 1)
      /\ ArtsOf(hand) = (IF job = NoJob THEN {} ELSE {job.art})
  BY <1>1 DEF ArtsOf
<1> HIDE DEF hand
<1>3. /\ queue \o delayed \in Seq(JobType)
      /\ Len(queue \o delayed) = Len(queue) + Len(delayed)
      /\ ArtsOf(queue \o delayed) = ArtsOf(queue) \cup ArtsOf(delayed)
  BY <1>1, ArtsOfSeq, ConcatProperties
<1>4. /\ (queue \o delayed) \o hand \in Seq(JobType)
      /\ Len((queue \o delayed) \o hand) = Len(queue \o delayed) + Len(hand)
      /\ ArtsOf((queue \o delayed) \o hand) = ArtsOf(queue \o delayed) \cup ArtsOf(hand)
  BY <1>2, <1>3, ArtsOfSeq, ConcatProperties
<1> QED BY <1>1, <1>2, <1>3, <1>4, LenProperties DEF Jobs, Waiting, hand

LEMMA CacheStepKeeps ==
  ASSUME JobsInv, CacheStep \/ Age \/ CleanChannelIcons \/ \E a \in Arts : AskCheck(a)
  PROVE  JobsInv'
<1> DEFINE Goal == JobsType' /\ Room' /\ FileType' /\ Kept'
<1>0. /\ CacheType /\ JobsType /\ Room /\ FileType /\ CacheFlags'
      /\ Len(queue) \in Nat /\ Len(delayed) \in Nat /\ MaxJobs \in Nat
  BY FlagsKept, LengthsAreNat DEF JobsInv, CacheType
<1>g. Goal => JobsInv'
  BY <1>0 DEF JobsInv, CacheType
<1>1. CASE Wake
  BY <1>0, <1>1, CacheKept DEF Wake, CacheFlags
<1>2. CASE Age
  <2>1. /\ UNCHANGED <<known, file, queue, delayed, job, worker, ask, spoiled>>
    BY <1>2 DEF Age
  <2>2. JobsType' /\ Room' /\ FileType' /\ Kept'
    BY <1>0, <2>1 DEF JobsType, Room, FileType, Kept, Waiting, JobsInv
  <2> QED BY <1>g, <2>2
<1>3. CASE CleanCache
  <2>1. Forget(Arts \ Icons) /\ UNCHANGED <<queue, delayed, job, ask>>
        /\ worker = "clean" /\ worker' = "serve"
    BY <1>3 DEF CleanCache
  <2> QED BY <1>g, <2>1, ForgetKeeps
<1>4. CASE CleanChannelIcons
  <2>1. Forget(Icons) /\ UNCHANGED <<queue, delayed, job, ask, worker>> /\ Icons \in SUBSET Arts
    BY <1>4, ArtworkAssumption DEF CleanChannelIcons
  <2> QED BY <1>g, <2>1, ForgetKeeps
<1>5. CASE Fetch
  <2>1. /\ queue # <<>> /\ queue' = Tail(queue) /\ UNCHANGED <<known, delayed, ask>>
        /\ worker = "serve" /\ job = NoJob
    BY <1>0, <1>5 DEF Fetch, JobsType
  <2>2. /\ Head(queue) \in JobType /\ Tail(queue) \in Seq(JobType)
        /\ Len(queue') = Len(queue) - 1 /\ Len(queue') \in Nat
        /\ ArtsOf(queue) = {Head(queue).art} \cup ArtsOf(queue')
        /\ Head(queue).art \in Arts /\ Head(queue) # NoJob
    BY <1>0, <2>1, ArtsOfSeq, NoneIsNone, LenProperties DEF JobsType
  <2> DEFINE h == Head(queue)
  <2>3. CASE /\ worker' = "connect" /\ job' = h /\ file' = [file EXCEPT ![h.art] = "empty"]
             /\ UNCHANGED spoiled
    <3>1. JobsType' /\ FileType'
      BY <1>0, <2>1, <2>2, <2>3 DEF JobsType, FileType
    <3>2. Room'
      <4>1. Len(queue) + Len(delayed) + 0 + (IF ask = NoAsk THEN 0 ELSE 1) <= MaxJobs
        BY <1>0, <2>1 DEF Room
      <4>2. Len(queue') + Len(delayed) + 1 + (IF ask = NoAsk THEN 0 ELSE 1) <= MaxJobs
        BY <1>0, <2>2, <4>1
      <4> QED BY <2>1, <2>2, <2>3, <4>2 DEF Room
    <3>3. Waiting' = Waiting /\ h.art \in Waiting'
      BY <2>1, <2>2, <2>3 DEF Waiting
    <3>4. \A a \in Arts : a # h.art => file'[a] = file[a]
      BY <1>0, <2>3 DEF FileType
    <3>5. Kept'
      BY <2>1, <2>3, <3>3, <3>4 DEF JobsInv, Kept
    <3> QED BY <1>g, <3>1, <3>2, <3>5
  <2>4. CASE spoiled' = spoiled \cup {h.art} /\ UNCHANGED <<worker, job, file>>
    <3>1. JobsType' /\ FileType'
      BY <1>0, <2>1, <2>2, <2>4 DEF JobsType, FileType
    <3>2. Room'
      <4>1. Len(queue) + Len(delayed) + 0 + (IF ask = NoAsk THEN 0 ELSE 1) <= MaxJobs
        BY <1>0, <2>1 DEF Room
      <4>2. Len(queue') + Len(delayed) + 0 + (IF ask = NoAsk THEN 0 ELSE 1) <= MaxJobs
        BY <1>0, <2>2, <4>1
      <4> QED BY <2>1, <2>4, <4>2 DEF Room
    <3>3. Waiting \subseteq Waiting' \cup {h.art}
      BY <2>1, <2>2, <2>4 DEF Waiting
    <3>4. Kept'
      BY <2>1, <2>4, <3>3 DEF JobsInv, Kept
    <3> QED BY <1>g, <3>1, <3>2, <3>4
  <2> QED BY <1>5, <2>3, <2>4 DEF Fetch
<1>6. CASE ConnectFails
  <2>1. /\ EndJob /\ worker = "connect" /\ UNCHANGED <<known, file, queue, ask>>
        /\ job \in JobType
    BY <1>0, <1>6 DEF ConnectFails, JobsType
  <2>2. CASE MayRetry(job.errors)
    <3> DEFINE again == Job(job.art, job.errors + 1)
    <3>1. again \in JobType /\ again.art = job.art
      BY <2>1, <2>2, ArtworkAssumption DEF Job, JobType, MayRetry
    <3>2. delayed' = Append(delayed, again) /\ UNCHANGED spoiled
      BY <1>6, <2>2 DEF ConnectFails
    <3>3. delayed' # delayed
      BY <1>0, <3>1, <3>2, AppendProperties DEF JobsType
    <3> HIDE DEF again
    <3> QED BY <1>0, <1>g, <2>1, <3>1, <3>2, <3>3, JobOver DEF FileType
  <2>3. CASE ~MayRetry(job.errors)
    <3>1. spoiled' = spoiled \cup {job.art} /\ UNCHANGED delayed
      BY <1>6, <2>3 DEF ConnectFails, GiveUp
    <3> QED BY <1>0, <1>g, <2>1, <3>1, JobOver DEF FileType
  <2> QED BY <2>2, <2>3
<1>7. CASE Connect
  <2>1. /\ UNCHANGED <<known, queue, delayed, job, ask, spoiled>>
        /\ worker = "connect" /\ worker' = "download" /\ job \in JobType /\ job.art \in Arts
        /\ file' = [file EXCEPT ![job.art] = "filled"] \/ file' = file
    BY <1>0, <1>7, NoneIsNone DEF Connect, JobsType
  <2>2. JobsType' /\ Room' /\ FileType' /\ Kept'
    BY <1>0, <2>1 DEF JobsType, Room, FileType, Kept, Waiting, JobsInv
  <2> QED BY <1>g, <2>2
<1>8. CASE Cached
  <2>1. /\ EndJob /\ worker = "download" /\ UNCHANGED <<known, file, queue, delayed, ask>>
        /\ spoiled' = spoiled \cup {job.art} \/ (file[job.art] = "filled" /\ spoiled' = spoiled)
    BY <1>8 DEF Cached, GiveUp
  <2> QED BY <1>0, <1>g, <2>1, JobOver DEF FileType
<1>9. CASE CacheFails
  <2>1. /\ EndJob /\ worker = "download" /\ UNCHANGED <<known, queue, delayed, ask>>
        /\ spoiled' = spoiled \cup {job.art}
        /\ file' = [file EXCEPT ![job.art] = "empty"]
    BY <1>9 DEF CacheFails, GiveUp
  <2>2. /\ file' \in [Arts -> {"empty", "filled"}]
        /\ \A a \in Arts : a # job.art => file'[a] = file[a]
    BY <1>0, <2>1 DEF FileType
  <2> QED BY <1>g, <2>1, <2>2, JobOver
<1>10. CASE Requeue
  <2>1. /\ queue' = queue \o delayed /\ delayed' = <<>> /\ worker = "serve"
        /\ worker' \in {"none", "wait"} /\ UNCHANGED <<known, file, job, ask, spoiled>>
        /\ job = NoJob
    BY <1>0, <1>10 DEF Requeue, JobsType
  <2>q. /\ queue' \in Seq(JobType) /\ Len(queue') = Len(queue) + Len(delayed)
        /\ ArtsOf(queue') = ArtsOf(queue) \cup ArtsOf(delayed)
    BY <1>0, <2>1, ArtsOfSeq, ConcatProperties DEF JobsType
  <2>d. delayed' \in Seq(JobType) /\ Len(delayed') = 0 /\ ArtsOf(delayed') = {}
    BY <2>1, EmptySeq DEF ArtsOf
  <2>3. JobsType' /\ FileType'
    BY <1>0, <2>1, <2>q, <2>d DEF JobsType, FileType
  <2>4. Room'
    BY <1>0, <2>1, <2>q, <2>d DEF Room
  <2>5. Kept'
    BY <2>1, <2>q, <2>d DEF Kept, Waiting, JobsInv
  <2> QED BY <1>g, <2>3, <2>4, <2>5
<1>11. CASE AskEnd
  <2>1. /\ ask # NoAsk /\ ask \in AskType /\ ask.art \in Arts /\ ask' = NoAsk /\ ~ask'.present
        /\ known' = known \cup {ask.art}
        /\ UNCHANGED <<file, delayed, job, worker, spoiled>>
    BY <1>0, <1>11, NoneIsNone DEF AskEnd, JobsType
  <2>2. Len(queue) + Len(delayed) + (IF job = NoJob THEN 0 ELSE 1) + 1 <= MaxJobs
    BY <1>0, <2>1 DEF Room
  <2>3. CASE ask.present /\ queue' = queue
    <3>1. JobsType' /\ FileType' /\ Waiting' = Waiting
      BY <1>0, <2>1, <2>3 DEF JobsType, FileType, Waiting
    <3>2. Room'
      BY <1>0, <2>1, <2>2, <2>3 DEF Room
    <3>3. Kept'
      BY <2>1, <2>3, <3>1 DEF Kept, JobsInv
    <3> QED BY <1>g, <3>1, <3>2, <3>3
  <2>4. CASE ~ask.present /\ queue' = Append(queue, Job(ask.art, 0))
    <3>1. Job(ask.art, 0) \in JobType /\ Job(ask.art, 0).art = ask.art
      BY <2>1, ArtworkAssumption DEF Job, JobType
    <3>2. /\ queue' \in Seq(JobType) /\ Len(queue') = Len(queue) + 1
          /\ ArtsOf(queue') = ArtsOf(queue) \cup {ask.art}
      BY <1>0, <2>4, <3>1, ArtsOfSeq, AppendProperties DEF JobsType
    <3>3. JobsType' /\ FileType' /\ Waiting' = Waiting \cup {ask.art}
      BY <1>0, <2>1, <3>2 DEF JobsType, FileType, Waiting
    <3>4. Room'
      BY <1>0, <2>1, <2>2, <3>2 DEF Room
    <3>5. Kept'
      BY <2>1, <2>4, <3>3 DEF Kept, JobsInv
    <3> QED BY <1>g, <3>3, <3>4, <3>5
  <2> QED BY <1>0, <1>11, <2>1, <2>3, <2>4 DEF AskEnd, AskType
<1>12. ASSUME NEW a \in Arts, AskCheck(a) PROVE JobsInv'
  <2>1. /\ ask = NoAsk /\ ~ask.present /\ a \notin known /\ Len(Jobs) < MaxJobs
        /\ ask' = [art |-> a, present |-> file[a] = "filled"]
        /\ spoiled' = spoiled \ {a}
        /\ UNCHANGED <<known, file, queue, delayed, job, worker>>
    BY <1>12, NoneIsNone DEF AskCheck
  <2>2. ask' \in AskType /\ ask' # NoAsk
    <3>1. ask' \in AskType
      BY <2>1 DEF AskType
    <3> QED BY <3>1, NoneIsNone
  <2>3. JobsType' /\ FileType' /\ Waiting' = Waiting
    BY <1>0, <2>1, <2>2 DEF JobsType, FileType, Waiting
  <2>4. Len(Jobs) = Len(queue) + Len(delayed) + (IF job = NoJob THEN 0 ELSE 1)
    BY <1>0, JobsParts
  <2>5. Room'
    BY <1>0, <2>1, <2>2, <2>4 DEF Room
  <2>6. Kept'
    BY <2>1, <2>3 DEF Kept, JobsInv
  <2> QED BY <1>g, <2>3, <2>5, <2>6
<1> QED BY <1>1, <1>2, <1>3, <1>4, <1>5, <1>6, <1>7, <1>8, <1>9, <1>10, <1>11, <1>12
        DEF CacheStep, WorkerStep

\* The steps of the streams leave all of the cache but its thread alone.
LEMMA StreamStepKeeps ==
  ASSUME JobsInv,
         \/ KodiStep \/ OpenLive \/ SwitchChannel \/ SwitchFails \/ OpenRecorded
         \/ CloseLive \/ CloseRecorded \/ AskRecording \/ StopLiveTV
         \/ OnSleep \/ FallingAsleep \/ FallenAsleep \/ OnWake
  PROVE  JobsInv'
<1>0. worker \in {"none", "wait", "clean", "serve", "connect", "download"} /\ stop \in BOOLEAN
  BY DEF JobsInv, CacheType, JobsType, CacheFlags
<1>s. ASSUME CacheAlone, Suspend PROVE JobsInv'
  <2>1. worker' = worker
    BY <1>s DEF Suspend
  <2>2. stop' \in BOOLEAN
    BY <1>s, Zenon DEF Suspend
  <2> QED BY <1>0, <1>s, <2>1, <2>2, CacheKept DEF CacheAlone
<1>a. ASSUME CacheAlone, StopAgain \/ SuspendOver PROVE JobsInv'
  <2>1. worker' = worker
    BY <1>a DEF StopAgain, SuspendOver
  <2>2. stop' \in BOOLEAN
    BY <1>0, <1>a, Zenon DEF StopAgain, SuspendOver
  <2> QED BY <1>0, <1>a, <2>1, <2>2, CacheKept DEF CacheAlone
<1>r. ASSUME CacheAlone, Resume PROVE JobsInv'
  <2>1. \/ UNCHANGED <<worker, stop>>
        \/ worker = "none" /\ worker' = "wait" /\ stop' = FALSE
    BY <1>r DEF Resume, threadVars, IsRunning
  <2>2. stop' \in BOOLEAN
    BY <1>0, <2>1
  <2>3. /\ worker' \in {"none", "wait", "clean", "serve", "connect", "download"}
        /\ worker \in {"connect", "download"} <=> worker' \in {"connect", "download"}
    BY <1>0, <2>1
  <2> QED BY <1>r, <2>2, <2>3, CacheKept DEF CacheAlone
<1>u. UNCHANGED cacheVars => JobsInv'
  BY <1>0, CacheKept DEF cacheVars
<1> QED BY <1>s, <1>a, <1>r, <1>u
        DEF KodiStep, Suspending, Suspended, Opened, OpenFails, OpenLive, SwitchChannel,
            SwitchFails, OpenRecorded, BeginOpen, CloseLive, CloseRecorded, AskRecording,
            StopLiveTV, OnSleep, FallingAsleep, FallenAsleep, OnWake

LEMMA StreamTypeStep == StreamType /\ [Next]_vars => StreamType'
<1> SUFFICES ASSUME StreamType, [Next]_vars PROVE StreamType'
  OBVIOUS
<1> USE DEF StreamType
<1>1. CASE UNCHANGED streamVars
  BY <1>1 DEF streamVars
<1>2. CASE KodiStep
  BY <1>2 DEF KodiStep, Suspending, Suspended, Opened, OpenFails
<1>3. CASE OpenLive \/ SwitchChannel \/ OpenRecorded
  BY <1>3 DEF OpenLive, SwitchChannel, OpenRecorded, BeginOpen
<1>4. CASE CloseLive \/ CloseRecorded \/ AskRecording \/ StopLiveTV \/ SwitchFails
  BY <1>4 DEF CloseLive, CloseRecorded, AskRecording, StopLiveTV, SwitchFails
<1>5. CASE OnSleep \/ FallingAsleep \/ FallenAsleep \/ OnWake
  BY <1>5 DEF OnSleep, FallingAsleep, FallenAsleep, OnWake
<1> QED BY <1>1, <1>2, <1>3, <1>4, <1>5 DEF Next, vars

LEMMA AskedStep == asked \in BOOLEAN /\ [Next]_vars => asked' \in BOOLEAN
<1> SUFFICES ASSUME asked \in BOOLEAN, [Next]_vars PROVE asked' \in BOOLEAN
  OBVIOUS
<1>1. CASE UNCHANGED streamVars
  BY <1>1, Zenon DEF streamVars
<1>2. CASE KodiStep
  BY <1>2, Zenon DEF KodiStep, Suspending, Suspended, Opened, OpenFails
<1>3. CASE OpenLive \/ SwitchChannel \/ OpenRecorded
  BY <1>3, Zenon DEF OpenLive, SwitchChannel, OpenRecorded, BeginOpen
<1>4. CASE CloseLive \/ CloseRecorded \/ AskRecording \/ StopLiveTV \/ SwitchFails
  BY <1>4, Zenon DEF CloseLive, CloseRecorded, AskRecording, StopLiveTV, SwitchFails
<1>5. CASE OnSleep \/ FallingAsleep \/ FallenAsleep \/ OnWake
  BY <1>5, Zenon DEF OnSleep, FallingAsleep, FallenAsleep, OnWake
<1> QED BY <1>1, <1>2, <1>3, <1>4, <1>5 DEF Next, vars

LEMMA JobsAlways == Spec => [](JobsInv /\ StreamType /\ asked \in BOOLEAN)
<1>1. Init => JobsInv /\ StreamType /\ asked \in BOOLEAN
  <2> SUFFICES ASSUME Init PROVE JobsInv /\ StreamType /\ asked \in BOOLEAN
    OBVIOUS
  <2>1. /\ known = {} /\ file \in [Arts -> {"empty", "filled"}] /\ queue = <<>>
        /\ delayed = <<>> /\ job = NoJob /\ worker = "wait" /\ ask = NoAsk /\ spoiled = {}
    BY DEF Init, CacheInit
  <2>2. JobsType /\ FileType
    BY <2>1, EmptySeq DEF JobsType, FileType
  <2>3. Room
    BY <2>1, EmptySeq, ArtworkAssumption DEF Room
  <2>4. Kept
    BY <2>1, NoneIsNone DEF Kept
  <2>5. CacheFlags /\ asked \in BOOLEAN
    BY Zenon DEF Init, CacheInit, CacheFlags
  <2>6. StreamType
    BY DEF Init, StreamType
  <2> QED BY <2>2, <2>3, <2>4, <2>5, <2>6 DEF JobsInv, CacheType
<1>2. JobsInv /\ [Next]_vars => JobsInv'
  <2>1. CASE UNCHANGED vars
    BY <2>1, CacheKept DEF vars, cacheVars, JobsInv, CacheType, JobsType, CacheFlags
  <2> QED BY <2>1, CacheStepKeeps, StreamStepKeeps DEF Next
<1>3. JobsInv /\ StreamType /\ asked \in BOOLEAN /\ [Next]_vars
        => (JobsInv /\ StreamType /\ asked \in BOOLEAN)'
  BY <1>2, StreamTypeStep, AskedStep
<1> QED BY <1>1, <1>3, PTL DEF Spec, Safe

\* Every variable of the streams and of the cache keeps its type, and no more
\* jobs are made than Kodi asks for, nor any repeated beyond the bound.
THEOREM TypeCorrect == Spec => []TypeOK
<1>1. JobsInv /\ StreamType /\ asked \in BOOLEAN /\ IInv => TypeOK
  <2> SUFFICES ASSUME JobsInv, StreamType, asked \in BOOLEAN, IInv PROVE TypeOK
    OBVIOUS
  <2>1. CacheType /\ JobsType /\ FileType /\ Room
    BY DEF JobsInv, CacheType
  <2>2. /\ Jobs \in Seq(JobType)
        /\ Len(Jobs) = Len(queue) + Len(delayed) + (IF job = NoJob THEN 0 ELSE 1)
    BY <2>1, JobsParts
  <2>3. \A i \in DOMAIN Jobs : Jobs[i].art \in Arts /\ Jobs[i].errors \in 0 .. MaxRetries
    <3>1. \A i \in DOMAIN Jobs : Jobs[i] \in JobType
      BY <2>2, ElementOfSeq, LenProperties
    <3> QED BY <3>1 DEF JobType
  <2>4. Len(Jobs) <= MaxJobs
    <3>1. Len(queue) \in Nat /\ Len(delayed) \in Nat /\ MaxJobs \in Nat
      BY <2>1, LengthsAreNat
    <3> QED BY <2>1, <2>2, <3>1 DEF Room
  <2>5. {detached, stop, old, asked} \subseteq BOOLEAN
    BY <2>1, Zenon DEF CacheType, CacheFlags
  <2> QED BY <2>1, <2>3, <2>4, <2>5
          DEF TypeOK, JobsType, FileType, StreamType, IInv, LateType
<1> QED BY <1>1, JobsAlways, ThreadAlways, PTL

\* However the thread is suspended and resumed, an artwork whose path was
\* handed to Kodi is on disk or a job for it waits, unless the code gives it up.
THEOREM NoJobIsForgotten == Spec => []JobsAreKept
<1>1. JobsInv => JobsAreKept
  <2> SUFFICES ASSUME JobsInv, NEW a \in known
               PROVE  file[a] = "filled" \/ Pending(a) \/ a \in spoiled
    BY DEF JobsAreKept
  <2>1. a \in Arts /\ JobsType
    BY DEF JobsInv, CacheType, FileType
  <2>2. file[a] = "filled" \/ a \in Waiting \/ a \in spoiled
    BY <2>1 DEF JobsInv, Kept
  <2>3. a \in Waiting => Pending(a)
    BY <2>1, JobsParts DEF ArtsOf, Pending
  <2> QED BY <2>2, <2>3
<1> QED BY <1>1, JobsAlways, PTL

-----------------------------------------------------------------------------
(* The stream of a recording, once it is open: RecordingPlayback, for      *)
(* every size of file, length of the mailbox and number of files.          *)

FileOpened == playback \in {"announced", "ready"}

MailType ==
  /\ mail \in Seq(Nat) /\ Len(mail) <= MailMax
  /\ \A i \in 1..Len(mail) : mail[i] \in 1..length

PlaybackFlags == link \in BOOLEAN /\ readAhead \in BOOLEAN /\ deaf \in BOOLEAN

\* The types, and what is at rest while there is no stream: the file played
\* next is another one, and nothing of this one may remain.
PlaybackType ==
  /\ length \in 1..Size /\ told \in 0..length
  /\ MailType /\ PlaybackFlags
  /\ playback \in {"none", "new", "announced", "ready"}
  /\ fileSize \in 0..length /\ pos \in 0..length
  /\ handling \in 0..length
  /\ streams \in 0..MaxStreams
  /\ handling > 0 => playback = "ready"
  /\ playback = "none" => mail = <<>>
  /\ playback \in {"none", "new"} => fileSize = 0 /\ pos = 0

NewsArrive == mail # <<>> /\ mail[Len(mail)] = told

\* What was told last is known, or being set, or on its way, unless readAhead
\* makes up for it or deaf excuses it.
NewsInv ==
  FileOpened /\ ~readAhead /\ ~deaf =>
    told <= fileSize \/ handling > 0 \/ NewsArrive

PlaybackInv == PlaybackType /\ NewsInv

-----------------------------------------------------------------------------
(* The mailbox.                                                            *)

LEMMA PlaybackBounds == /\ Size \in Nat /\ Size >= 1 /\ MailMax \in Nat /\ MailMax >= 1
                /\ MaxStreams \in Nat /\ MaxStreams >= 1
<1>1. Size \in Nat \ {0} /\ MailMax \in Nat \ {0} /\ MaxStreams \in Nat \ {0}
  BY PlaybackAssumption
<1> QED BY <1>1

\* An empty mailbox is one, whatever the file.
LEMMA MailEmptied == mail' = <<>> => MailType'
<1> SUFFICES ASSUME mail' = <<>> PROVE MailType'
  OBVIOUS
<1>1. <<>> \in Seq(Nat) /\ Len(<<>>) = 0
  BY EmptySeq
<1>2. mail' \in Seq(Nat) /\ Len(mail') = 0
  BY <1>1
<1> QED BY <1>2, PlaybackBounds DEF MailType

\* A mailbox left alone stays one while the file grows.
LEMMA MailKept ==
  ASSUME MailType, mail' = mail, length \in Nat, length' \in Nat, length <= length'
  PROVE  MailType'
<1>1. \A i \in 1..Len(mail) : mail[i] \in 1..length'
  <2> TAKE i \in 1..Len(mail)
  <2>1. mail[i] \in 1..length
    BY DEF MailType
  <2> QED BY <2>1
<1> QED BY <1>1 DEF MailType

\* The size of the file is put behind the others.
LEMMA MailAppended ==
  ASSUME MailType, length \in Nat \ {0}, length' = length, Len(mail) < MailMax,
         mail' = Append(mail, length)
  PROVE  MailType' /\ mail' # <<>> /\ mail'[Len(mail')] = length
<1>1. mail \in Seq(Nat) /\ Len(mail) \in Nat
  BY LenProperties DEF MailType
<1>2. /\ mail' \in Seq(Nat) /\ mail' # <<>> /\ Len(mail') = Len(mail) + 1
      /\ \A i \in 1..Len(mail) : mail'[i] = mail[i]
      /\ mail'[Len(mail) + 1] = length
  BY <1>1, AppendProperties
<1>3. \A i \in 1..Len(mail') : mail'[i] \in 1..length'
  <2> TAKE i \in 1..Len(mail')
  <2>1. CASE i = Len(mail) + 1
    BY <1>2, <2>1
  <2>2. CASE i # Len(mail) + 1
    <3>1. i \in 1..Len(mail)
      BY <1>1, <1>2, <2>2
    <3> QED BY <1>2, <3>1 DEF MailType
  <2> QED BY <2>1, <2>2
<1> QED BY <1>1, <1>2, <1>3, PlaybackBounds DEF MailType

\* The first message is taken out; the last stays the last.
LEMMA MailTaken ==
  ASSUME MailType, length' = length, mail # <<>>, mail' = Tail(mail)
  PROVE  /\ MailType' /\ Head(mail) \in 1..length
         /\ mail' # <<>> => mail'[Len(mail')] = mail[Len(mail)]
         /\ mail' = <<>> => Head(mail) = mail[Len(mail)]
<1>1. mail \in Seq(Nat) /\ Len(mail) \in Nat \ {0}
  BY EmptySeq DEF MailType
<1>2. /\ mail' \in Seq(Nat) /\ Len(mail') = Len(mail) - 1
      /\ \A i \in 1..Len(mail') : mail'[i] = mail[i + 1]
  BY <1>1, HeadTailProperties
<1>3. Head(mail) = mail[1]
  BY <1>1
<1>4. \A i \in 1..Len(mail') : mail'[i] \in 1..length'
  <2> TAKE i \in 1..Len(mail')
  <2>1. i + 1 \in 1..Len(mail)
    BY <1>1, <1>2
  <2>2. mail[i + 1] \in 1..length
    BY <2>1 DEF MailType
  <2> QED BY <1>2, <2>2
<1>5. MailType'
  BY <1>1, <1>2, <1>4, PlaybackBounds DEF MailType
<1>6. Head(mail) \in 1..length
  <2>1. 1 \in 1..Len(mail)
    BY <1>1
  <2> QED BY <1>3, <2>1 DEF MailType
<1>7. ASSUME mail' # <<>> PROVE mail'[Len(mail')] = mail[Len(mail)]
  <2>1. Len(mail') \in Nat \ {0}
    BY <1>2, <1>7, EmptySeq
  <2>2. Len(mail') \in 1..Len(mail') /\ Len(mail') + 1 = Len(mail)
    BY <1>1, <1>2, <2>1
  <2> QED BY <1>2, <2>2
<1>8. ASSUME mail' = <<>> PROVE Head(mail) = mail[Len(mail)]
  <2>1. Len(mail') = 0
    BY <1>8, EmptySeq
  <2> QED BY <1>1, <1>2, <1>3, <2>1
<1> QED BY <1>5, <1>6, <1>7, <1>8

-----------------------------------------------------------------------------
(* The types.                                                              *)

\* The initial states.
LEMMA PlaybackInitOK == PlaybackInit => PlaybackInv
<1> SUFFICES ASSUME PlaybackInit PROVE PlaybackType /\ NewsInv
  BY DEF PlaybackInv
<1>1. MailType
  <2>1. mail = <<>>
    BY DEF PlaybackInit
  <2>2. <<>> \in Seq(Nat) /\ Len(<<>>) = 0
    BY EmptySeq
  <2> QED BY <2>1, <2>2, PlaybackBounds DEF MailType
<1>2. PlaybackType
  <2>1. /\ length \in 1..Size /\ told \in 0..length /\ fileSize \in 0..length
        /\ pos \in 0..length /\ handling \in 0..length /\ streams \in 0..MaxStreams
        /\ ~(handling > 0)
    BY PlaybackBounds DEF PlaybackInit
  <2>2. /\ PlaybackFlags
        /\ playback = "none" /\ mail = <<>> /\ fileSize = 0 /\ pos = 0
    BY DEF PlaybackInit, PlaybackFlags
  <2> QED BY <1>1, <2>1, <2>2 DEF PlaybackType
<1>3. NewsInv
  BY DEF PlaybackInit, NewsInv, FileOpened
<1> QED BY <1>2, <1>3

\* The flags stay Boolean.
LEMMA PlaybackFlagStep == PlaybackFlags /\ [PlaybackNext]_playbackVars => PlaybackFlags'
<1> SUFFICES ASSUME PlaybackFlags, [PlaybackNext]_playbackVars PROVE PlaybackFlags'
  OBVIOUS
<1> USE DEF PlaybackFlags, backendVars
<1>1. CASE Grow
  BY <1>1, Zenon DEF Grow
<1>2. CASE Tell
  BY <1>2, Zenon DEF Tell
<1>3. CASE Link
  BY <1>3, Zenon DEF Link
<1>4. CASE TakeNews
  BY <1>4, Zenon DEF TakeNews
<1>5. CASE SetSize
  BY <1>5, Zenon DEF SetSize
<1>6. CASE New
  BY <1>6, Zenon DEF New
<1>7. CASE Announce
  BY <1>7, Zenon DEF Announce
<1>8. CASE SwapRecording
  BY <1>8, Zenon DEF SwapRecording
<1>9. CASE Read
  BY <1>9, Zenon DEF Read
<1>10. CASE Seek
  BY <1>10, Zenon DEF Seek
<1>11. CASE Close
  BY <1>11, Zenon DEF Close
<1>12. CASE UNCHANGED playbackVars
  BY <1>12, Zenon DEF playbackVars
<1> QED
  BY <1>1, <1>2, <1>3, <1>4, <1>5, <1>6, <1>7, <1>8, <1>9, <1>10, <1>11, <1>12
     DEF PlaybackNext, Backend, Player

\* Every step preserves the types.
LEMMA PlaybackTypeStep == PlaybackType /\ [PlaybackNext]_playbackVars => PlaybackType'
<1> SUFFICES ASSUME PlaybackType, [PlaybackNext]_playbackVars PROVE PlaybackType'
  OBVIOUS
<1>f. PlaybackFlags'
  BY PlaybackFlagStep DEF PlaybackType
<1> USE DEF PlaybackType, backendVars, playerVars
<1>0. length \in Nat \ {0} /\ fileSize \in Nat /\ pos \in Nat
  BY PlaybackBounds
<1>1. CASE Grow
  <2>1. MailType'
    BY <1>0, <1>1, MailKept DEF Grow
  <2> QED BY <1>f, <1>1, <2>1, PlaybackBounds DEF Grow
<1>2. CASE Tell
  <2>1. MailType' /\ (playback' = "none" => mail' = <<>>)
    <3>1. CASE link /\ playback # "none"
      BY <1>0, <1>2, <3>1, MailAppended DEF Tell
    <3>2. CASE ~(link /\ playback # "none")
      BY <1>0, <1>2, <3>2, MailKept DEF Tell
    <3> QED BY <3>1, <3>2
  <2> QED BY <1>0, <1>f, <1>2, <2>1 DEF Tell
<1>3. CASE Link
  <2>1. MailType'
    BY <1>0, <1>3, MailKept DEF Link
  <2> QED BY <1>f, <1>3, <2>1 DEF Link
<1>4. CASE TakeNews
  <2>1. MailType' /\ Head(mail) \in 1..length
    BY <1>4, MailTaken DEF TakeNews
  <2>2. playback # "none"
    BY <1>4 DEF TakeNews
  <2>3. handling' \in 0..length /\ (handling' > 0 => playback = "ready")
    BY <1>4, <2>1 DEF TakeNews
  <2> QED BY <1>f, <1>4, <2>1, <2>2, <2>3 DEF TakeNews
<1>5. CASE SetSize
  <2>1. MailType'
    BY <1>0, <1>5, MailKept DEF SetSize
  <2> QED BY <1>f, <1>5, <2>1 DEF SetSize
<1>6. CASE New
  <2>1. mail = <<>> /\ handling = 0 /\ fileSize = 0 /\ pos = 0
    BY <1>6 DEF New
  <2>2. MailType'
    BY <1>6, <2>1, MailEmptied DEF New
  <2>3. length' \in 1..Size /\ told' \in 0..length'
    <3>1. PICK n \in 1..Size : length' = n
      BY <1>6 DEF New
    <3>2. told' \in {n, n - 1}
      BY <1>6, <3>1 DEF New
    <3> QED BY <3>1, <3>2, PlaybackBounds
  <2> QED BY <1>f, <1>6, <2>1, <2>2, <2>3, PlaybackBounds DEF New
<1>7. CASE Announce
  <2>1. MailType'
    BY <1>0, <1>7, MailKept DEF Announce
  <2> QED BY <1>0, <1>f, <1>7, <2>1 DEF Announce
<1>8. CASE SwapRecording
  <2>1. MailType'
    BY <1>0, <1>8, MailKept DEF SwapRecording
  <2> QED BY <1>f, <1>8, <2>1 DEF SwapRecording
<1>9. CASE Read
  <2>1. MailType'
    BY <1>0, <1>9, MailKept DEF Read
  <2>2. pos' \in 0..length
    BY <1>0, <1>9, PlaybackBounds DEF Read
  <2> QED BY <1>f, <1>9, <2>1, <2>2 DEF Read
<1>10. CASE Seek
  <2>1. MailType'
    BY <1>0, <1>10, MailKept DEF Seek
  <2> QED BY <1>0, <1>f, <1>10, <2>1 DEF Seek
<1>11. CASE Close
  <2>1. MailType'
    BY <1>11, MailEmptied DEF Close
  <2> QED BY <1>0, <1>f, <1>11, <2>1 DEF Close
<1>12. CASE UNCHANGED playbackVars
  <2>1. MailType'
    BY <1>0, <1>12, MailKept DEF playbackVars
  <2> QED BY <1>f, <1>12, <2>1 DEF playbackVars
<1> QED
  BY <1>1, <1>2, <1>3, <1>4, <1>5, <1>6, <1>7, <1>8, <1>9, <1>10, <1>11, <1>12
     DEF PlaybackNext, Backend, Player

-----------------------------------------------------------------------------
(* The news.                                                               *)

\* Every step keeps the news.
LEMMA NewsStep == PlaybackInv /\ [PlaybackNext]_playbackVars => NewsInv'
<1> SUFFICES ASSUME PlaybackType, NewsInv, [PlaybackNext]_playbackVars PROVE NewsInv'
  BY DEF PlaybackInv
<1> USE DEF NewsInv, FileOpened, backendVars, playerVars
<1>0. length \in Nat \ {0} /\ told \in 0..length /\ fileSize \in 0..length
  BY PlaybackBounds DEF PlaybackType
<1>1. CASE Grow
  BY <1>1 DEF Grow, NewsArrive
<1>2. CASE Tell
  <2>1. CASE link /\ playback # "none"
    <3>1. MailType
      BY DEF PlaybackType
    <3>2. NewsArrive'
      BY <1>0, <1>2, <2>1, <3>1, MailAppended DEF Tell, NewsArrive
    <3> QED BY <3>2
  <2>2. CASE link /\ playback = "none"
    BY <1>2, <2>2 DEF Tell
  <2>3. CASE ~link
    BY <1>2, <2>3 DEF Tell
  <2> QED BY <2>1, <2>2, <2>3
<1>3. CASE Link
  BY <1>3 DEF Link, NewsArrive
<1>4. CASE TakeNews
  <2>1. /\ Head(mail) \in 1..length
        /\ mail' # <<>> => mail'[Len(mail')] = mail[Len(mail)]
        /\ mail' = <<>> => Head(mail) = mail[Len(mail)]
    BY <1>4, MailTaken DEF TakeNews, PlaybackType
  <2>2. CASE playback = "ready"
    BY <1>0, <1>4, <2>1, <2>2 DEF TakeNews
  <2>3. CASE playback # "ready"
    <3>1. /\ deaf' = (deaf \/ (playback = "announced" /\ Head(mail) > fileSize))
          /\ handling = 0 /\ UNCHANGED <<told, playback, fileSize, readAhead, handling>>
      BY <1>4, <2>3 DEF TakeNews
    <3>2. CASE FileOpened' /\ ~readAhead' /\ ~deaf'
      <4>1. playback = "announced" /\ ~deaf /\ ~(Head(mail) > fileSize)
        BY <2>3, <3>1, <3>2
      <4>2. told <= fileSize \/ NewsArrive
        BY <3>1, <3>2, <4>1
      <4>3. CASE told <= fileSize
        BY <3>1, <4>3
      <4>4. CASE NewsArrive /\ mail' # <<>>
        BY <2>1, <3>1, <4>4 DEF NewsArrive
      <4>5. CASE NewsArrive /\ mail' = <<>>
        <5>1. Head(mail) = told
          BY <2>1, <4>5 DEF NewsArrive
        <5> QED BY <1>0, <3>1, <4>1, <5>1
      <4> QED BY <4>2, <4>3, <4>4, <4>5
    <3> QED BY <3>2
  <2> QED BY <2>2, <2>3
<1>5. CASE SetSize
  BY <1>5 DEF SetSize
<1>6. CASE New
  BY <1>6 DEF New
<1>7. CASE Announce
  BY <1>0, <1>7 DEF Announce
<1>8. CASE SwapRecording
  BY <1>8 DEF SwapRecording, NewsArrive
<1>9. CASE Read
  BY <1>9 DEF Read, NewsArrive
<1>10. CASE Seek
  BY <1>10 DEF Seek, NewsArrive
<1>11. CASE Close
  BY <1>11 DEF Close
<1>12. CASE UNCHANGED playbackVars
  BY <1>12 DEF playbackVars, NewsArrive
<1> QED
  BY <1>1, <1>2, <1>3, <1>4, <1>5, <1>6, <1>7, <1>8, <1>9, <1>10, <1>11, <1>12
     DEF PlaybackNext, Backend, Player

\* The invariant is inductive.
LEMMA PlaybackAlways == PlaybackSpec => []PlaybackInv
<1>1. PlaybackInv /\ [PlaybackNext]_playbackVars => PlaybackInv'
  BY PlaybackTypeStep, NewsStep DEF PlaybackInv
<1> QED BY PlaybackInitOK, <1>1, PTL DEF PlaybackSpec

\* Whatever the sizes: the types, and no size that is not this file's.
THEOREM PlaybackTypeCorrect == PlaybackSpec => []PlaybackTypeOK
<1>1. PlaybackInv => PlaybackTypeOK
  BY PlaybackBounds DEF PlaybackInv, PlaybackType, MailType, PlaybackFlags, PlaybackTypeOK
<1> QED BY PlaybackAlways, <1>1, PTL

\* Whatever the sizes: Read takes a file for ended only at its end, or while
\* news are to come, or after all of them were lost (RecordingPlayback::Read).
THEOREM EndOfFileIsKnown == PlaybackSpec => []EndIsKnown
<1>1. PlaybackInv => EndIsKnown
  <2> SUFFICES ASSUME PlaybackInv, playback = "ready", ~Asks, ~deaf, told >= length,
                      mail = <<>>, handling <= 0
               PROVE  pos = length
    BY DEF EndIsKnown, PlaybackInv, PlaybackType
  <2>1. told <= fileSize
    BY DEF PlaybackInv, PlaybackType, NewsInv, NewsArrive, FileOpened, Asks
  <2> QED BY <2>1, PlaybackBounds DEF PlaybackInv, PlaybackType, Asks, GetRemaining
<1> QED BY PlaybackAlways, <1>1, PTL
=============================================================================
