# pvr.mythtv in TLA+

pvr.mythtv connects Kodi to a MythTV backend.  Its own code is a client library
(`src/lib/cppmyth/src`) and the add-on that uses it (`src/src`).  What is hard in it
is concurrency: an event thread, one thread per subscription and Kodi's own threads
share connections, lists and files, while the backend comes and goes and its
messages arrive when they like.  The modules here model that part, TLC checks them
on small instances, and TLAPS proves the safety properties of every module
for every instance.

Contents: 1 the system · 2 the modules · 3 runs and bounds · 4 fairness ·
5 proofs · 6 disagreements between code and comments · 7 what is not modelled ·
8 plan.

## 1. The system

```
   backend ──events──► event thread ──dispatch──► subscription threads
      ▲                (EventHandler)             (one for each subscriber)
      │                     ▲ Reset, Start, Stop       │ HandleBackendMessage
      │ commands            │                          ▼
      └──── control ──── Kodi's threads ◄───► PVRClientMythTV, LiveTVPlayback
            and data connections               (lists, chain of files)
```

| Component | State | Operations | Talks to |
|---|---|---|---|
| Event handler, `mytheventhandler.cpp` | table of subscriptions, list of ids per event, a queue, a latch and a thread per subscription | create, extend and revoke a subscription, dispatch an event | subscribers, by callback on the subscription's thread |
| Backend connections, `mytheventhandler.cpp`, `mythprotoevent.cpp`, `mythprotomonitor.cpp`, `pvrclient-mythtv.cpp` | event connection, stop and reset flags, two control connections, `m_hang` | connect, reconnect, reset, suspend, resume, handle a status | the client by messages, the event thread by flags |
| Live TV, `mythlivetvplayback.cpp` | chain of files, current file, `watch`, `switchOnCreate`, transfers | spawn, stop, handle chain and size messages, read, seek | recorder (commands), event bus (messages), player |
| File transfer, `mythprotoplayback.cpp`, `mythprototransfer.cpp` | position, bytes requested, two sockets | request a block, seek, flush, open | backend, over two connections that are not ordered with each other |
| Recordings, `pvrclient-mythtv.cpp` | copy of the list, count of changes, amounts | add, update, delete, reload, housekeeping; Kodi reads, counts, marks as watched | backend queries, Kodi (trigger) |
| Recording playback, `mythrecordingplayback.cpp` | a transfer, `m_readAhead` | read, seek, handle file size | file transfer, event bus |
| Artwork cache, `fileOps.cpp` | maps of paths, queue of downloads, a thread | ask for a path, download, retry, suspend, resume, clean | web services, Kodi's files |
| Recording rules, `MythScheduleManager.cpp` | copy of rules, modifiers and upcoming recordings | update; submit, update, disable, modify, delete a timer | web services, Kodi (trigger), event bus |
| Streams of the add-on, `pvrclient-mythtv.cpp` | `m_liveStream`, `m_recordingStream`, `m_lock` | open, switch, close, ask recording, sleep, wake | live TV and recording playback, artwork cache |
| Protocol, `mythprotobase.cpp` | a socket, length and bytes consumed of a message, the version agreed | open, command, read a field, flush, close | every connection of the library |
| Web services, OS layer, thread pool, demuxer, glue | little or none | formatting, parsing, conversions | |

What makes each correct, in a sentence:

- *Event handler.*  After `RevokeSubscription` returns the subscriber may be deleted, so
  no callback may be running or start; messages arrive in order and none is slept
  through; revocation never deadlocks with a callback that revokes too.
- *Connections.*  Whatever the network does, the client's idea of the connection is
  right once its messages are handled, a restored backend is found again, and
  suspending returns.
- *Live TV.*  The chain lists the shows of this channel in order, indices stay within
  it, reading has a file to read and neither tuning nor reading waits for ever.
- *File transfer.*  The bytes read are those at the position reported, and an answer
  belongs to the command it answers.
- *Recordings.*  The copy catches up with the backend, also after a lost connection, and
  Kodi gets to see every change.
- *Recording playback.*  The end of a growing file is not taken for its end.
- *Artwork cache and streams.*  A path handed to Kodi gets its file, however the cache is
  suspended; it is resumed when the last stream is closed and the system awake.
- *Recording rules.*  The copy catches up, and deleting a rule leaves nothing behind: no
  modifier and no recording that goes on.
- *Protocol.*  Fields are those sent, whole and in order, and an answer left half read never
  becomes the answer to the next command.

The hazards, each at its line with the properties that watch it, are in
`PROJECT.json`.

## 2. The modules

| Module | Models |
|---|---|
| `Mailboxes` | what the event handler promises, without threads or locks |
| `EventHandler` | `BasicEventHandler`'s table, `DispatchEvent`, `SubscriptionHandlerThread` |
| `BackendConnection` | the event thread, the client's handling of the status, suspend and resume |
| `LiveTVPlayback` | tuning, the chain, `Read` and `Seek` |
| `FileTransfer` | `TransferRequestBlock`, `TransferSeek`, `Flush` |
| `RecordingList` | `m_recordings` and `RunHouseKeeping` |
| `RecordingPlayback` | a recording that grows while it is read |
| `ArtworkCache` | `FileOps`: requests, the queue, the thread |
| `Streams` | extends `ArtworkCache` with those who suspend and resume it |
| `ScheduleManager` | `MythScheduleManager`: `Update` in two threads, the operations on timers |
| `FieldStream` | what a protocol connection promises, without bytes |
| `ProtoBase` | commands, events and fields as bytes on a connection |
| `...Proofs` | theorems about `EventHandler`, `BackendConnection`, `LiveTVPlayback`, `FileTransfer`, `RecordingList`, `Streams` with `RecordingPlayback`, `ScheduleManager` and `ProtoBase` |
| `MC...` | the instances TLC checks |

The modules are composed through `Mailboxes`: `EventHandler` is shown to implement it
(run `event_handler`, theorem `BusIsMailboxes`), and `BackendConnection` and
`RecordingList` take it by `INSTANCE` for the subscription of `PVRClientMythTV`, whose mailbox
they change by its actions only.
`LiveTVPlayback` and `RecordingPlayback` need nothing but the order of their one
subscription, a sequence.  `Streams` composes the artwork cache with the streams.
`ProtoBase` is shown to implement `FieldStream`; the modules above it take commands as
answered whole or not at all, which is what `FieldStream` promises.

**EventHandler.**  One step is what a thread does between two points where another can
interfere: the mutex, the latch `m_queueContent`, the stop flag, a join.  `Ids` are
numbers as in the code, the next one being one above the greatest in use, so ids are
reused.  `callPc` and `callTodo` follow a caller through a revocation (stop, signal,
join, delete), `threadPc` the thread of a subscription through `Process`.  A callback
may itself revoke the subscription of another client.  What the code expects of its
callers are guards: a callback's own subscription is not revoked by that callback
(the thread would join itself), `RevokeAllSubscriptions` is used by its resident owner
when it destroys the handler, and a handler object is created once.

**BackendConnection.**  `eventPc` is the place of the event thread in `Process` and
`RetryConnect`, `handling` what the client's thread does with a message.  A dead
connection is noticed at once, a mute one only by a time-out.  Opening a control
connection is one step with the outcomes "ok", "aborted" (lost before it is usable:
the next command retries), "unknown" (no version in common: no command retries, a
status message opens it again) and "rejected" (its announcement fails, which closes it for
good).  `reset` is `m_reset`.

**LiveTVPlayback.**  A session is one chain UID.  The recorder of the backend writes
files and sends its messages in the orders the code provides for, those of a previous
session included.  A tuner that is left and chosen again is another recorder object.
`Read` is split where it looks at the chain without the mutex, where it waits and
where it asks the recorder.  `known` is what the client takes for the size of a file,
`written` what the backend has.  A seek, that to the start of a file seen before
included, may be lost (the position stays) or refused (the position is -1), and a file that
fails to open may have lost its size.  `fp` is the position `Read` took when it began.  The
first of the updates a watch message forces is made whatever `watch` is.

**FileTransfer.**  Requests and answers use the control connection (`todo`,
`answers`), bytes the data connection (`data`, of which `arrived` have reached the
client): an answer may overtake the bytes it counts.  A second thread uses the same
control connection for commands of its own, and reopens it when it hangs.  `strayed`
is set when an error has parted the bytes on the way from those the client counts;
unless `Persist`, the file is opened again before it is used after that.  The backend owes
nothing: it may fall silent with a command half answered.

**RecordingList.**  A recording of the backend is live, has its deletion pending, or is
gone; its version changes.  The thread of the subscription queries, then locks and
changes the copy: two steps.  Housekeeping is three steps, since it releases the lock
around the call of Kodi.  `SetRecordingPlayCount` keeps the lock over its two
requests.  `missed` and `overtaken` are history for the exemptions of the properties.

**RecordingPlayback.**  The size is known when the file is opened, then told by messages.
`OpenTransfer` is two steps, since the thread of the subscription may handle a message
when `m_transfer` is there and `m_recording` is not; such a message is ignored.  `SetSize`
is apart from `TakeNews`, which made the copies of the references.  `deaf` is history: all
the news there were about this file have been lost or ignored.  The add-on makes a new
object for each recording; one object is not reused (section 6).

**ArtworkCache and Streams.**  A file is "filled" or "empty", which to the code is as good as
none.  A request is two
steps, for the look at the file is not under `m_lock`.  The worker waits, cleans, serves the
queue, connects and downloads; a job that failed goes to `delayed` and back.  `stop` is
`m_bStop` of p8-platform's `CThread`, whose `StopThread` waits 5 s at most and whose
`CreateThread` does nothing for a thread that runs.  `Suspend` raises the flag twice (`Suspend`,
`StopAgain`), then waits, and the wait may be over at any moment (`SuspendOver`), for a download
has no bound that the code knows.  `late` is history: "overdue" after such a wait ended
before the thread did, "missed" when `Resume` then found it still running.  In `Streams`, `lock` is the holder of
the add-on's `m_lock` across steps: opening a stream suspends the cache, opens, and resumes
on failure.  Changing the channel may fail before any of this, with the stream playing or
stopped.  Sleeping suspends without that lock.

**ScheduleManager.**  A rule is single, series or a modifier ("dont", "override") of another
for one showing.  The backend's scheduler is a function of the rules (`Schedule`), applied
some time after they change (`dirty`).  Each of the two threads that run `Update` asks for
rules, asks for upcoming recordings and installs both, three steps of which only the last
holds `m_lock`.  `DeleteRecordingRule` sends one request per modifier and is a step for
each; the other operations are a step, as they hold `m_lock` to the end and what
they ask of the backend does not depend on its answers' timing.  `unseen` is history for
what the client could not know of.  Init and other clients may leave a modifier without its rule: a
timer of it is then looked up by its time slot.

**ProtoBase.**  Bytes are "[", "]", ":" and any other, a message is its length and its bytes.
`buf`, `matched` and `field` are the locals of `ReadField`, one byte per step.  The user of
a connection sends commands or listens to events, reads any number of fields, and flushes
the rest or leaves it.  The connection is lost with any part of what was under way.  The
history `queue`, `rest` and `last` is what `FieldStream` says about the same calls.
`FieldsAssumption` names what the code relies on: see section 6.

## 3. Runs and bounds

| Run | Shows | Instance |
|---|---|---|
| `event_handler` | types, no callback after revocation, no deleted handler in the table, no lost wake-up, revocations return, refinement of `Mailboxes` with its liveness | 2 clients, 2 handlers, 1 event, 1 message per queue |
| `event_handler_id_reuse` | (violated) events reach only those registered for them | as above with 2 events |
| `backend_connection` | `m_hang` is right when drained, asleep means disconnected, `OnSleep` returns, a lasting backend is found again | 2 faults, 2 messages |
| `backend_connection_restored` | (violated) "restored" means usable | 2 faults, 3 messages |
| `live_tv` | indices, chain as history, a tuned stream has a file; tuning ends, `Read` returns but for two exceptions it names | 2 sessions, 2 files of 2 blocks, 1 message |
| `file_transfer` | bytes match the position, answers match commands, room for the rest of a block, calls return but for a loop it names | 4 blocks, reads of up to 4, room for 2, 3 commands |
| `recording_list` | the copy catches up, amounts are recounted, Kodi sees every change | 1 recording, 2 versions, 3 messages |
| `recording_playback` | a size is never another file's; `Read` reports the end only at the end, or while news are to come or all were lost, and not for ever | 4 blocks, 2 messages, 2 files |
| `streams` | an artwork handed out has a file or a job; the cache is resumed when all is closed, and jobs end, but after a `Resume` missed | 2 artworks, 1 retry, 2 jobs, 1 cleaning |
| `schedule` | the copy catches up, nothing is left behind a rule, Kodi sees the timers | 1 showing, 3 rules, 2 operations, 1 fault, 2 messages |
| `schedule_latest` | (violated) what SCHEDULE_CHANGE signals is what the copy is afterwards | as above |
| `proto` | the buffer holds, versions agree, refinement of `FieldStream` | buffer of 9 bytes, messages of 1 or 2 of 5 fields, versions 1 and 2 of which the backend has 1, or an unknown one |

Why these are enough to be interesting:

- *Two handlers* let an id be reused while the other is dispatched to, and a callback
  revoke the other's subscription; with one event both are in the same list.  The
  theorems of section 5 remove the bounds for every safety property.
- *Two faults* let a fault hit the reconnection that follows the first.  The mailbox of
  two makes announcements pile up behind one that is being handled.
- *Two sessions and two files* give late messages of the previous channel and one
  switch between files.  A third file, with which the reader can be between two
  others, is beyond what the run finishes.  *Two blocks* let a reader be behind in one file and the
  recorder ahead in another, which is what makes `Read` spin; with two messages and one block the
  result is the same, but nothing spins.
- *Reads of 4 with room for 2* exceed the room, and 4 blocks leave a short read at the
  end.
- *One recording*: the code treats each by itself but for the reload, which treats them
  alike.  Three messages fit an ADD, an UPDATE and a DELETE behind each other.  An
  instance with two recordings, one version and one message has the same result.
- *Three rules* are a rule, its modifier and one more of either kind, or a modifier
  without its rule; one fault is a lost
  connection, a refusal, another client or a recording that begins.
- *Two artworks*, one of them a channel icon, since icons are cleaned apart.
- *Nine bytes* let a byte beyond the second empty the buffer, so that separators begin in
  its every place; the fields hold "[]:[" followed by another byte, "[[]" followed by another, and the tail of a
  separator, and an empty field may be first or last.

Four properties name exceptions, and each is a behaviour of the code which the run
reaches: without the exception TLC finds the property violated.

- `ReadReturns`: a reader waits for a block it has requested and the backend never sends
  (`request`); or it spins (`Spinning`): after a switch to a file whose rewinding was lost, it finds the
  recorder beyond `fp`, a position in the file before, and tries again without a pause
  (`mythlivetvplayback.cpp:497-518`).
- `CallsReturn`: a call spins (`Spinning`) when `select` finds the data connection readable and
  `recv` takes nothing, because the connection was closed or because the read buffer is full and
  bytes are left.  The 10 s of `select` then never pass
  (`mythprotoplayback.cpp:182-252`).  It keeps `m_mutex` meanwhile.
- `CacheIsResumed` and `JobsEnd`: the thread has outlasted both the 5 s of `Suspend` and the
  `Resume` that followed (`late = "missed"`, `fileOps.cpp:178`, 184).

Deadlock is checked in every run but `schedule`: there the number of operations and of
faults is bounded and every other action reacts to something, so the system may come to
rest, as it may in reality.

## 4. Fairness

The code has no priorities: a thread that can run does (WF of its steps).  A thread that
waits for a mutex which others take again and again gets it in the end (SF), where the
holder keeps it for a bounded time: this is a property of the mutexes of every platform
the code supports, and the code relies on it.  Nothing is assumed of the network, of the
user or of the recorder: `BackendConnection` leaves them without fairness, and the
recorder of `LiveTVPlayback` may fall silent, and so may its backend with a block that was
requested: fair are the steps of its handler, and those of `Read` that wait for nothing but time.
In `FileTransfer` the two threads of the client run, their time-outs included, and nothing is
asked of the backend.  In
`RecordingList` Kodi reads its recordings after it was triggered, and the timer event
comes again, which needs the event connection: `KodiCatchesUp` is about connections that
last.  In `ScheduleManager` the backend schedules again after a change, the threads run and
Kodi reads its timers after it was triggered; a lost connection need not come back.  In
`Streams` a download ends (its connection has a time-out) and so does opening a stream;
nobody has to close one.  In `RecordingPlayback` the backend tells of growth while the link is
up; the link may be lost again and again.  The timer event of the event thread can be
postponed for ever by steady messages (`mytheventhandler.cpp:345`), which is why the fairness
of `Tick` in `RecordingList` is an assumption.  `ProtoBase` states no fairness.

## 5. Proofs

What is proved, module by module; `Safe` and `Spec` are the specifications without and with
fairness, and a theorem about `Spec` uses nothing of its fairness.  Every invariant and
safety action property of a passing run is a theorem, and so are both refinements (of
`Mailboxes`: its safety part).

| Module | Theorem | States | From |
|---|---|---|---|
| `EventHandlerProofs` | `TypeCorrect`, `RevocationIsFinal`, `TableIsLive`, `WakeupIsKept` | `TypeOK`, `NoCallbackAfterRevoke`, `TableOfLiveHandlers`, `NoLostWakeup` | `ActorAssumption`, `QueueAssumption` |
| | `BusIsMailboxes` | the safety part of `ImplementsMailboxes` | |
| `BackendConnectionProofs` | `TypeCorrect`, `SleepDisconnects`, `ClientIsTold` | `TypeOK`, `AsleepIsDisconnected`, `RestoredWhenConnected` | `BoundAssumption` |
| `LiveTVPlaybackProofs` | `TypeCorrect`, `ChainStaysIndexed`, `ChainStaysHistory`, `TunedStaysReadable` | `TypeOK`, `ChainIsIndexed`, `ChainIsHistory`, `TunedIsReadable` | `BoundAssumption` |
| `FileTransferProofs` | `TypeCorrect`, `AnswersFindTheirThread`, `StaysInStep`, `RoomIsLeft` | `TypeOK`, `AnswerIsOwn`, `InStep`, `RoomForTheRest` | `TransferAssumption` |
| `RecordingListProofs` | `TypeCorrect`, `CopyCatchesUp`, `AmountStaysRight`, `ChangesReachKodi` | `TypeOK`, `ListCatchesUp`, `AmountIsRight`, `ChangesAreShown` | `RecordingAssumption` |
| `StreamsProofs` | `TypeCorrect`, `NoJobIsForgotten` | `TypeOK`, `JobsAreKept` | `ArtworkAssumption` |
| | `CacheComesBack` | `CacheIsResumed` | |
| | `PlaybackTypeCorrect`, `EndOfFileIsKnown` (of `RecordingPlayback`) | `PlaybackTypeOK`, `EndIsKnown` | `PlaybackAssumption` |
| `ScheduleManagerProofs` | `TypeCorrect`, `CopyStaysCurrent` | `TypeOK`, `CopyCatchesUp` | `ScheduleAssumption` |
| | `DeletionIsComplete` | the action property `NothingLeftBehind` | |
| `ProtoBaseProofs` | `TypeCorrect` | `TypeOK` | `ProtoAssumption`, `FieldsAssumption` |
| | `ConnectionIsFieldStream` | `ImplementsFieldStream` | |

The assumptions say that bounds are natural numbers (positive where zero would leave nothing
to do), that actors differ, and that stand-ins such as "none" are not also an artwork.

**EventHandler.**  `TypeInv` adds to the types what makes the table well formed: ids are
finitely many positive numbers, and a caller in a revocation holds the mutex and works on
ids in the table.  It is inductive by itself (`TypeStep`), with `NextIdFresh` (a new id
is in use nowhere) resting on the least and the greatest of a set of numbers (`NatMin`,
`NatMax`), which the library states only with an operator parameter and which are
therefore proved here.

`SafeInv` is the strengthening of the three safety invariants.  None of them is
inductive: that a deleted handler's thread has exited needs that the handler deleted is
the one joined, that no other entry of the table points to it and that the stop flag
was up before the join; that a sleeper is woken needs to know who owes it a signal, a
dispatcher between its two steps or a caller between stop and signal.  The key lemmas
are `HolderAlone` (a caller in a revocation is alone with the mutex) and
`DispatcherAlone` (no revocation while an event is dispatched): they reduce every pair
of actions to one actor.  `SafeStep` has one step per action.

The refinement: `MailStep` shows that every step is a step of one mailbox or leaves all
of them alone; `StatesKept` and `StatesMoved` say when.

**RecordingPlayback.**  A file that is opened next is another one, so `PlaybackType` adds that without a
stream no message, no size and no position remain, and that a size is only being set while
a file is ready: `Close` may then forget everything.  `EndIsKnown` is not inductive, since
news move from the backend to the mailbox, to the thread and to the transfer; `NewsInv`
says that what was told last is in one of these places unless `readAhead` is set or `deaf`
excuses it.  The lemmas on the mailbox say what appending a size and taking one leave.

**Streams.**  `CacheIsResumed` is not inductive: a step that closes the last stream resumes
the cache, but `Resume` starts no thread that has been told to stop and still runs.
`RunsUntold` says that the thread ends only when told; `EndIsAwaited` that, while it is told and has
not ended, either someone waits for its end, Kodi in `Suspend` or the system falling asleep, so
that nothing is idle, or such a wait is over and `late` says so.  `late` turns to "missed" only
in `Resume`, so a system that is idle with a thread told to end has passed a `Resume` too
early for it: the exception is that history and no assumption.  `Resuming`
treats together all the steps that end in `Resume`.

`JobsAreKept` names no such exception.  A job is in one of three places, the queue, the
delayed jobs or the hands of the thread; `ArtsOfSeq` and `JobsParts` say what moving one does to
the whole.  The invariant `JobsInv` adds the step in which an artwork can slip through: Kodi
has looked at the file and has not yet taken `m_lock`.  `Kept` says that a request that saw the
file relies on it as Kodi relies on a path it was given, and `Room` that a request begun has
its place among the jobs.

**BackendConnection.**  `RestoredWhenConnected` speaks of a moment, when all announcements are
handled; the invariant must say what is true before it.  `ConnectedInv`: from its announcement
on, an open connection "heals": the last word in the mailbox is CONNECTED, or none says
DISCONNECTED and the one in hand, if any, leaves `m_hang` down.  `HangInv` says how far the
handling of each status has come and what it has done to `m_hang`; `ClosedInv` that
before it is opened and after it is lost the link is closed, so that the places where nothing heals
are none that the property speaks of.  The lemmas `Posted`, `Taken` and `Finished` say what the three
moves of a message do to "heals", once for all statuses.  `AsleepIsDisconnected` is inductive
with these: `Stop` returns only when the thread is over.

**LiveTVPlayback.**  Messages of the previous session and a recorder ahead of its messages are what
could spoil the chain.  `BackendInv` says that the file being recorded is the last one begun and begun in
this session.  `HistoryInv` is the strengthening of `ChainIsHistory`: the i-th file of the chain is at
least the i-th since the channel was tuned, the chain rises, and a file that a handler has in hand
to be pushed comes after all of it.  The handlers release `m_mutex` to ask the backend, and this is what
each must find true again afterwards.  It bounds the chain too: no chain is longer than the files
begun.  `ChainInv` keeps `lastSeq` at the length of the chain and the current index within it, or one
beyond while its end is replaced; `ReadInv` gives whoever tunes or reads a file that is
open, or the wait for a first one.

**FileTransfer.**  Two streams of bytes have no common order, so the invariant counts.  `Balance`
is the position and the bytes on the way, which add up to where the backend has got in the file;
`InOrder` that these bytes are consecutive; `Owed` that what is requested differs from it by
what the command pending, or its answer, accounts for; `SeekOwed` the same for a seek, whose
answer arrives when the old bytes are still to be flushed.  All four are under `~strayed`.
`ControlInv` says that the one command which may still be answered is the last one
sent, by the thread that holds `m_mutex`, hence `AnswerIsOwn`; `CallInv` that without an
error no command outlives its call.  `RoomForTheRest` follows from `Balance` and the limit
on a request.

**RecordingList.**  The recording an ADD asks for may have changed again when it is put on the list, an
UPDATE is dropped if it is not there, and messages are lost while the connection is down.  `CopyInv`
says, while there is a connection, that the copy of each recording is the latest or what brings
it up to date is on its way: the last update in the mailbox
or in hand has the latest version (`Fresh`), and an update that finds the recording missing has
an ADD or a reload before it (`Kept`).  `SoundInv` says that messages tell only of recordings
that were made, and of deletions that were asked for; without it a late DELETE could
remove what an ADD brings.  `AmountIsRight` and `ChangesAreShown` need `LockInv` and `HouseInv`:
who holds the lock, and what housekeeping has read before it let the lock go.

**ScheduleManager.**  Two threads each install a snapshot that may be old.  `UpdInv`: what a thread
has in hand is a `Snapshot`, rules the backend had when the thread asked.  `NumberInv`: numbers
of rules are given once and a modifier is younger than its rule; hence `CopyInv`: what the copy takes for a
modifier is one, or was one of a rule that is gone.  `KnownInv`: a modifier the backend has is known to
the client or in `unseen`.  `DelInv` says how far `DeleteRecordingRule` is through the modifiers, and
`RecordingInv` that the client knows of what is being recorded, or could not know of it.  From these, `NothingIsLeft` shows for each step that the removal
of a rule leaves neither a modifier nor a recording that the client could have known of.
`CatchUpInv` strengthens `CopyCatchesUp`: when all changes are announced and the announcements taken, the
copy is current, or missed, or overtaken, or an update `Serves` it, and any other update that is
still to install is excused by one of these.  `Evolves` summarises what any operation can do to the
rules, and `KodiRequests` reduces the operations on timers to one request each, so that most
lemmas have two cases instead of fifteen.

**ProtoBase.**  Two things make the refinement hard: that bytes which were joined are parted
again where they were joined, and that this survives any message left unread and any break.

*The bytes of a message.*  `Body` is a recursive function, and what it gives for every message needs
an induction, which the library offers only with an operator parameter.  It is done by hand:
`Least` gives a non-empty set of numbers its least element, and `MessageInduction` says that a set
of messages which holds those of one field, and any other whose tail it holds, holds all (otherwise take the shortest that is missing).  `BodyRecursive` and `BodyUpTo` build the
function in the same way, by length.  `BodyLayout` says where the first field, the separator and the
rest lie.

*The separator.*  `NextByte` is the heart of it.  If what was read of the message, `read`, ends
with the first `matched` bytes of a separator, then the next byte completes one only where the first
field and its separator end, and none is passed over (`InTime`).  It is here that `FieldsAssumption` is used, both
parts of it: no separator lies within a field, and none that begins in the end of a field hides the
real one.  `InTime` is carried from byte to byte: once the field is past, the bytes matched are
all there is after it.  `FieldEnds` and `LastField` say that what is then given is the field.

*The wire.*  `Frames` says that the wire is what is left of the message begun, followed by the
packets of `queue`, whole while the backend is there and cut off anywhere when it is not;
`FramesAppend`, `FramesBegin`, `FramesDrop` and `FramesLose` are what sending, beginning, reading or
flushing, and a break do to it.

`IInv` puts them together: `Counted` (the counts of the client agree with the frames), `Current` (the
bytes read and to come are those of one message `r`, whose fields are `rest`), `Room` (without the
bytes matched, the buffer holds `BufferSize - 7` bytes at most: so many that a separator and the zero
still fit), `Between` and `Asked` (what the places between calls have in common: a command or a new
message finds nothing left, one command has one answer), `Closed`.  One lemma per step preserves it,
and one per group of steps, `BackendMaps` to `ReadingMaps`, maps it to a step of `FieldStream` or to none.
`HangIsLoss` shows that a connection is given up only when its backend is gone: with it there,
all that is waited for is on the wire.

**Only model-checked.**

- Liveness, which needs ENABLED and fairness: `RevokeReturns` and the fair part of
  `ImplementsMailboxes`, `SleepReturns`, `EventuallyRestored`, `TuningEnds`, both `ReadReturns`,
  `CallsReturn`, `ReadGoesOn`, `KodiCatchesUp`, `JobsEnd`, `TimersCatchUp`.

## 6. Disagreements between code and comments

Each has a run that exhibits it and an entry under "findings".

- Ids of revoked subscriptions are handed out again while the lists per event still have
  them: the new subscriber receives its predecessor's events ("Only for registered
  subscriber").
- "Connection to MythTV restored" is announced although the control connection failed to
  open and will not be retried.
- `SCHEDULE_CHANGE` is said to bring the timers up to date.  Two threads run `Update`; the
  one that asked first may install its older copy last, and no further event comes.

Seen while modelling, without a run of their own:

- Live TV.  The last file of the chain is popped as a dummy although it is being read, when
  its size is not known yet (`mythlivetvplayback.cpp:274-275`).  The chain is extended before
  the current show is completed (353), against the comment on DONE_RECORDING (342).  `Read`
  compares the position of the file it began with (488) to that of the recorder after
  switching to the next (511), and may spin there (section 3).  The recorder's position is taken for the size of another file
  (502, `ReadPosition`).
- File transfer.  A failed block request leaves bytes uncounted on the data connection
  (`mythprotoplayback.cpp:262-263`); `InStep` exempts what happens until the file is opened
  again.  A refused seek makes -1 the position (356).  With a backend that falls silent and bytes
  left that do not fit the buffer, a read spins holding `m_mutex` (182-252, section 3).
- Recordings.  One whose deletion is carried out before its first DELETE is handled stays on
  the list (`pvrclient-mythtv.cpp:451-453`).  A play count set between the trigger and the
  reset of `RunHouseKeeping` is not announced (`overtaken`).
- Connections.  `m_reset` raised while the connection is being reopened is forgotten
  (`mytheventhandler.cpp:391`, `ReleaseReset`).  A control connection is reopened by a status
  message handled while asleep (`pvrclient-mythtv.cpp:291`).
- Artwork cache.  `Suspend` gives up after 5 s; if the stream then fails to open, `Resume`
  finds the thread still running and does nothing, the thread stops after its download and
  nothing starts it again before a stream is opened and closed or the system sleeps and wakes
  (`fileOps.cpp:184`, `pvrclient-mythtv.cpp:2065`; `late = "missed"`, section 3).  A late
  `AskRecording` resumes the cache under a recording that was opened meanwhile
  (`pvrclient-mythtv.cpp:367`, 2262).
- Recording rules.  A query that goes unanswered gives an empty list, which replaces the copy
  until the next change (`MythScheduleManager.cpp:891`; `missed`).  Timers of some states
  (UPCOMING_EXPIRED, RULE_INACTIVE) cannot be made rules again
  (`MythScheduleHelper76.cpp:256-257`, 283).
- Recording playback.  `HandleBackendMessage` copies `m_recording` and `m_transfer` one after the
  other: an object used for several files could set a size on another file's transfer, and
  would keep `m_readAhead`.  The add-on uses one object per file.  The thread writes
  `recording->fileSize` without a lock.
- Protocol.  `ReadField` does not look again at the byte that ended a match, so a field that
  ends in "[" is not parted from the next ("[[]:[]"); an empty field at the end of a message
  is not told, and reading it fails.  `RcvVersion` does not look at ACCEPT or REJECT: a
  backend of the same version and another token is taken for one that accepts, until the
  first command hangs.
- The destructor of the client deletes the schedule manager and the file operations before
  the event handler whose callbacks use them; `ReadLiveStream` uses `m_liveStream` without
  `m_lock` while `HandleAskRecording` deletes it (2102).  Both are undefined behaviour in C++ and
  not modelled.
- A worker given to the thread pool between a thread's last `PopQueue` and its
  `FinalizeThread` stays in the queue until the next `Enqueue` or `Resume`.  Nothing uses the pool.

## 7. What is not modelled

- What single commands put into fields and take out of them, JSON, HTTP, MPEG streams:
  conversions of data, thousands of lines of them, that no interleaving reaches.  A query is
  answered or not.
- Undefined behaviour outside the modelled operations (section 6).
- The thread pool, which nothing in the library or the add-on uses.
- In `ScheduleManager`: `EnableRecording`, which nothing calls, templates, manual search, the
  attributes of rules and the lists of timer types, collisions of `MakeIndex`.
- In `Streams`: what the streams do once open (`LiveTVPlayback`, `RecordingPlayback`).
- In `ProtoBase`: `m_hang` and retries, which are in `BackendConnection`; time-outs, which are
  losses of the connection; embedded zero bytes, which MythTV does not send.
- Vendored code, settings and glue.
- In the modelled components: the choice of tunable cards, the signal status and
  `KeepLiveRecording`; bookmarks, edit lists and undeletion.

## 8. Plan

Order of the modules: `Mailboxes`, `EventHandler` and its proofs, `BackendConnection`,
`LiveTVPlayback`, `FileTransfer`, `RecordingList`, `ArtworkCache`, `Streams`,
`ScheduleManager`, `RecordingPlayback`, `FieldStream`, `ProtoBase`: done, and so are the proofs of
every module in this list with a safety property of its own.  To come:

1. `LiveTVPlayback`: a run with three files, where the reader may be between two others, and one
   apart for the reader alone, in which the loops of section 3 need not share the bounds of the chain.
2. The contents of single commands, where versions of the protocol differ in what they put into
   fields: `FieldStream` is what such modules would be built on.
