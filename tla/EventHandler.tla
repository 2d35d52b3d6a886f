---------------------------- MODULE EventHandler ----------------------------
(***************************************************************************)
(* The event bus of the client library: BasicEventHandler keeps the table  *)
(* of subscriptions under m_mutex, its thread dispatches backend events to *)
(* them, and each subscription has a SubscriptionHandlerThread of its own  *)
(* that calls the subscriber back.  Clients create, extend and revoke      *)
(* subscriptions at any moment, and a callback may revoke a subscription   *)
(* of another client, as PVRClientMythTV does when it closes Live TV.      *)
(*                                                                         *)
(* Bounds of the model: every handler object is created at most once, and  *)
(* an event is dispatched only while every queue holds fewer than QueueMax *)
(* messages.                                                               *)
(***************************************************************************)
EXTENDS Naturals, Sequences, FiniteSets

CONSTANTS Clients,      \* the EventSubscriber objects
          Resident,     \* clients that revoke only by destroying the handler
          Handlers,     \* the SubscriptionHandlerThread objects
          Events,       \* the EVENT_t values dispatched
          QueueMax,     \* bound on the messages waiting in a queue
          Dispatcher,   \* the event thread
          NoOne         \* nobody: a free mutex

Callers == Clients \cup Handlers

ASSUME ActorAssumption ==
  /\ Clients \cap Handlers = {}
  /\ Dispatcher \notin Callers
  /\ NoOne \notin Callers \cup {Dispatcher}
  /\ Resident \subseteq Clients
ASSUME QueueAssumption == QueueMax \in Nat \ {0}

VARIABLES
  mutex,                \* owner of BasicEventHandler::m_mutex
  alive,                \* FALSE once the destructor has started
  subscriptions,        \* m_subscriptions: subscription id -> handler
  subscriptionsByEvent, \* m_subscriptionsByEvent: event -> list of ids
  owner,                \* owner[h]: the subscriber h calls back (m_handle)
  freed,                \* the handler objects already deleted
  held,                 \* held[c]: the ids client c got and did not give back
  registered,           \* registered[h]: the events asked for through h
  msgQueue,             \* msgQueue[h]: m_msgQueue of handler h
  queueContent,         \* queueContent[h]: the latch of m_queueContent
  notifiedStop,         \* notifiedStop[h]: stop flag of the thread of h
  threadPc,             \* threadPc[h]: where the thread of h is in Process
  callPc,               \* callPc[a]: where a is in RevokeSubscription
  callTodo,             \* callTodo[a]: the ids a still has to delete
  dispatch              \* where the event thread is in DispatchEvent

busVars    == <<mutex, alive, subscriptions, subscriptionsByEvent>>
clientVars == <<owner, freed, held, registered>>
threadVars == <<msgQueue, queueContent, notifiedStop, threadPc>>
callVars   == <<callPc, callTodo>>
vars       == <<busVars, clientVars, threadVars, callVars, dispatch>>

-----------------------------------------------------------------------------
Ids == DOMAIN subscriptions

Unborn(h)  == threadPc[h] = "unborn"
\* Handle::running of the thread: set by ThreadHandler before Process starts.
Running(h) == threadPc[h] \in {"outer", "inner", "pop", "handle", "wait"}

\* A callback is being executed by h and is not itself inside the library.
Free(a) == /\ callPc[a] = "idle"
           /\ a \in Handlers => threadPc[a] = "handle"

NoDispatch == [pc |-> "idle", idx |-> 0, event |-> NoOne]

Init ==
  /\ mutex = NoOne
  /\ alive = TRUE
  /\ subscriptions = <<>>
  /\ subscriptionsByEvent = [e \in Events |-> <<>>]
  /\ owner = [h \in Handlers |-> NoOne]
  /\ freed = {}
  /\ held = [c \in Clients |-> {}]
  /\ registered = [h \in Handlers |-> {}]
  /\ msgQueue = [h \in Handlers |-> <<>>]
  /\ queueContent = [h \in Handlers |-> FALSE]
  /\ notifiedStop = [h \in Handlers |-> FALSE]
  /\ threadPc = [h \in Handlers |-> "unborn"]
  /\ callPc = [a \in Callers |-> "idle"]
  /\ callTodo = [a \in Callers |-> {}]
  /\ dispatch = NoDispatch

-----------------------------------------------------------------------------
(* The subscription table.                                                 *)

\* Mutant: the id is not incremented before its use.
NextIdNotIncremented == IF Ids = {} THEN 0
                        ELSE CHOOSE i \in Ids : \A j \in Ids : j <= i

\* One more than the greatest id in use, 1 when the table is empty.
NextId == IF Ids = {} THEN 1
          ELSE 1 + (CHOOSE i \in Ids : \A j \in Ids : j <= i)

\* The constructor of the handler waits until its thread has started, all of
\* it under m_mutex.  A thread that cannot start leaves everything unchanged.
CreateSubscription(c, h) ==
  /\ alive /\ mutex = NoOne /\ Free(c)
  /\ Unborn(h)
  /\ subscriptions' = [i \in Ids \cup {NextId} |->
                         IF i = NextId THEN h ELSE subscriptions[i]]
  /\ held' = [held EXCEPT ![c] = @ \cup {NextId}]
  /\ owner' = [owner EXCEPT ![h] = c]
  /\ threadPc' = [threadPc EXCEPT ![h] = "outer"]
  /\ UNCHANGED <<mutex, alive, subscriptionsByEvent, freed, registered,
                 msgQueue, queueContent, notifiedStop, callVars, dispatch>>

Listed(id, e) == \E k \in 1..Len(subscriptionsByEvent[e]) :
                    subscriptionsByEvent[e][k] = id

SubscribeForEvent(c, id, e) ==
  /\ alive /\ mutex = NoOne /\ Free(c)
  /\ id \in held[c] \cap Ids
  /\ subscriptionsByEvent' =
       IF Listed(id, e) THEN subscriptionsByEvent
       ELSE [subscriptionsByEvent EXCEPT ![e] = Append(@, id)]
  /\ registered' = [registered EXCEPT ![subscriptions[id]] = @ \cup {e}]
  /\ UNCHANGED <<mutex, alive, subscriptions, owner, freed, held,
                 threadVars, callVars, dispatch>>

-----------------------------------------------------------------------------
(* Revoking: the caller keeps m_mutex while it joins the handler's thread. *)

\* Giving an id back is the caller's first step (the owner of the pointer is
\* locked, as in CloseLiveStream), so two callers never revoke the same one.
RevokeSubscription(a, c, id) ==
  /\ alive /\ Free(a)
  /\ c \notin Resident
  /\ a = c \/ (a \in Handlers /\ owner[a] \in Resident)
  /\ id \in held[c]
  /\ held' = [held EXCEPT ![c] = @ \ {id}]
  /\ callPc' = [callPc EXCEPT ![a] = "lock"]
  /\ callTodo' = [callTodo EXCEPT ![a] = {id}]
  /\ UNCHANGED <<busVars, owner, freed, registered, threadVars, dispatch>>

Owned(c) == {id \in Ids : owner[subscriptions[id]] = c}

\* Not called while somebody else is giving back a subscription of c.
RevokeAllSubscriptions(c) ==
  /\ alive /\ Free(c)
  /\ c \notin Resident
  /\ Owned(c) \subseteq held[c]
  /\ held' = [held EXCEPT ![c] = {}]
  /\ callPc' = [callPc EXCEPT ![c] = "lockAll"]
  /\ UNCHANGED <<busVars, owner, freed, registered, threadVars, callTodo,
                 dispatch>>

\* The destructor runs when the last reference goes: c is the only user left
\* and its first act, Stop, has joined the event thread.
Destroy(c) ==
  /\ alive /\ dispatch.pc = "idle"
  /\ \A a \in Callers : callPc[a] = "idle"
  /\ \A d \in Clients \ {c} : held[d] = {}
  /\ alive' = FALSE
  /\ held' = [held EXCEPT ![c] = {}]
  /\ callPc' = [callPc EXCEPT ![c] = "lockAll"]
  /\ UNCHANGED <<mutex, subscriptions, subscriptionsByEvent, owner, freed,
                 registered, threadVars, callTodo, dispatch>>

\* What the caller finds to delete once it has the mutex.
Found(a) == IF callPc[a] = "lock" THEN callTodo[a] \cap Ids
            ELSE IF alive THEN Owned(a)
            ELSE Ids

RevokeLock(a) ==
  /\ callPc[a] \in {"lock", "lockAll"}
  /\ mutex = NoOne
  /\ callTodo' = [callTodo EXCEPT ![a] = Found(a)]
  /\ IF Found(a) = {}
     THEN callPc' = [callPc EXCEPT ![a] = "idle"] /\ UNCHANGED mutex
     ELSE callPc' = [callPc EXCEPT ![a] = "stop"] /\ mutex' = a
  /\ UNCHANGED <<alive, subscriptions, subscriptionsByEvent, clientVars,
                 threadVars, dispatch>>

\* The handlers go in the order of the map, which is some fixed order.
Target(a) == CHOOSE id \in callTodo[a] : TRUE

\* Mutant: the thread is told to stop but its latch is not signalled.
StopNotifyOnly(a) ==
  /\ callPc[a] = "stop"
  /\ notifiedStop' = [notifiedStop EXCEPT ![subscriptions[Target(a)]] = TRUE]
  /\ callPc' = [callPc EXCEPT ![a] = "join"]
  /\ UNCHANGED <<busVars, clientVars, msgQueue, queueContent, threadPc,
                 callTodo, dispatch>>

\* SubscriptionHandlerThread::Stop: the stop flag first, ...
StopNotify(a) ==
  /\ callPc[a] = "stop"
  /\ LET h == subscriptions[Target(a)] IN
       IF Running(h)
       THEN /\ notifiedStop' = [notifiedStop EXCEPT ![h] = TRUE]
            /\ callPc' = [callPc EXCEPT ![a] = "signal"]
       ELSE /\ UNCHANGED notifiedStop
            /\ callPc' = [callPc EXCEPT ![a] = "join"]
  /\ UNCHANGED <<busVars, clientVars, msgQueue, queueContent, threadPc,
                 callTodo, dispatch>>

\* Mutant: the condition is signalled, the latch is not set.
StopSignalNobody(a) ==
  /\ callPc[a] = "signal"
  /\ callPc' = [callPc EXCEPT ![a] = "join"]
  /\ UNCHANGED <<busVars, clientVars, threadVars, callTodo, dispatch>>

\* ... then the latch, so that a sleeping thread sees the flag, ...
StopSignal(a) ==
  /\ callPc[a] = "signal"
  /\ queueContent' = [queueContent EXCEPT ![subscriptions[Target(a)]] = TRUE]
  /\ callPc' = [callPc EXCEPT ![a] = "join"]
  /\ UNCHANGED <<busVars, clientVars, msgQueue, notifiedStop, threadPc,
                 callTodo, dispatch>>

\* Mutants: the wait is skipped; the table entry survives.
JoinedAtOnce(a) == TRUE
EraseNothing(id) == subscriptions

\* ... then the wait for the thread, after which the handler is deleted and
\* its entry erased.  The per-event lists keep the id: DispatchEnd drops it,
\* or the destructor clears them.
Joined(a) == ~Running(subscriptions[Target(a)])

Erase(id) == [i \in Ids \ {id} |-> subscriptions[i]]

StopJoin(a) ==
  /\ callPc[a] = "join"
  /\ Joined(a)
  /\ LET id == Target(a)
         h  == subscriptions[id]
         rest == callTodo[a] \ {id}
     IN /\ freed' = freed \cup {h}
        /\ msgQueue' = [msgQueue EXCEPT ![h] = <<>>]
        /\ subscriptions' = Erase(id)
        /\ callTodo' = [callTodo EXCEPT ![a] = rest]
        /\ callPc' = [callPc EXCEPT ![a] = IF rest = {} THEN "idle"
                                                        ELSE "stop"]
        /\ mutex' = IF rest = {} THEN NoOne ELSE mutex
        /\ subscriptionsByEvent' =
             IF ~alive /\ rest = {} THEN [e \in Events |-> <<>>]
                                    ELSE subscriptionsByEvent
  /\ UNCHANGED <<alive, owner, held, registered, queueContent, notifiedStop,
                 threadPc, dispatch>>

-----------------------------------------------------------------------------
(* DispatchEvent, by the event thread: one subscriber of the list at a     *)
(* time, the push and the signal of PostMessage apart, because the thread  *)
(* of the handler reads its queue without the lock.                        *)

DispatchBegin(e) ==
  /\ alive /\ mutex = NoOne /\ dispatch.pc = "idle"
  /\ \A h \in Handlers : Len(msgQueue[h]) < QueueMax
  /\ mutex' = Dispatcher
  /\ dispatch' = [pc |-> "post", idx |-> 1, event |-> e]
  /\ UNCHANGED <<alive, subscriptions, subscriptionsByEvent, clientVars,
                 threadVars, callVars>>

List == subscriptionsByEvent[dispatch.event]
Current == List[dispatch.idx]

\* m_msgQueue.push_back, for a registered id; a revoked one is passed over.
DispatchPost ==
  /\ dispatch.pc = "post" /\ dispatch.idx <= Len(List)
  /\ IF Current \in Ids
     THEN /\ msgQueue' = [msgQueue EXCEPT ![subscriptions[Current]] =
                            Append(@, dispatch.event)]
          /\ dispatch' = [dispatch EXCEPT !.pc = "signal"]
     ELSE /\ dispatch' = [dispatch EXCEPT !.idx = @ + 1]
          /\ UNCHANGED msgQueue
  /\ UNCHANGED <<busVars, clientVars, queueContent, notifiedStop, threadPc,
                 callVars>>

\* m_queueContent.Signal
DispatchSignal ==
  /\ dispatch.pc = "signal"
  /\ queueContent' = [queueContent EXCEPT ![subscriptions[Current]] = TRUE]
  /\ dispatch' = [dispatch EXCEPT !.pc = "post", !.idx = @ + 1]
  /\ UNCHANGED <<busVars, clientVars, msgQueue, notifiedStop, threadPc,
                 callVars>>

Swept == \A k \in 1..Len(List) : List[k] \in Ids

\* The ids that were found revoked are erased from the list of this event,
\* one by one.
DispatchErase ==
  /\ dispatch.pc = "post" /\ dispatch.idx > Len(List)
  /\ \E k \in 1..Len(List) :
       /\ List[k] \notin Ids
       /\ \A j \in 1..k - 1 : List[j] \in Ids
       /\ subscriptionsByEvent' = [subscriptionsByEvent EXCEPT
            ![dispatch.event] = SubSeq(@, 1, k - 1) \o SubSeq(@, k + 1, Len(@))]
       /\ dispatch' = [dispatch EXCEPT !.idx = @ - 1]
  /\ UNCHANGED <<mutex, alive, subscriptions, clientVars, threadVars,
                 callVars>>

DispatchEnd ==
  /\ dispatch.pc = "post" /\ dispatch.idx > Len(List)
  /\ Swept
  /\ mutex' = NoOne
  /\ dispatch' = NoDispatch
  /\ UNCHANGED <<alive, subscriptions, subscriptionsByEvent, clientVars,
                 threadVars, callVars>>

-----------------------------------------------------------------------------
(* SubscriptionHandlerThread::Process, by the thread of handler h.         *)

\* while (!IsStopped())
ThreadLoop(h) ==
  /\ threadPc[h] = "outer"
  /\ threadPc' = [threadPc EXCEPT ![h] = IF notifiedStop[h] THEN "exited"
                                                            ELSE "inner"]
  /\ UNCHANGED <<busVars, clientVars, msgQueue, queueContent, notifiedStop,
                 callVars, dispatch>>

\* empty() is called without the lock: it may still give what it gave before
\* a push whose Signal this thread has not consumed.
StaleEmpty(h) == queueContent[h]

\* while (!m_msgQueue.empty() && !IsStopped())
ThreadCheck(h) ==
  /\ threadPc[h] = "inner"
  /\ \/ /\ msgQueue[h] # <<>> /\ ~notifiedStop[h]
        /\ threadPc' = [threadPc EXCEPT ![h] = "pop"]
     \/ /\ msgQueue[h] = <<>> \/ StaleEmpty(h) \/ notifiedStop[h]
        /\ threadPc' = [threadPc EXCEPT ![h] = "wait"]
  /\ UNCHANGED <<busVars, clientVars, msgQueue, queueContent, notifiedStop,
                 callVars, dispatch>>

\* Mutant: the message is read but not removed.
ThreadPopKeeps(h) ==
  /\ threadPc[h] = "pop"
  /\ threadPc' = [threadPc EXCEPT ![h] = "handle"]
  /\ UNCHANGED <<busVars, clientVars, msgQueue, queueContent, notifiedStop,
                 callVars, dispatch>>

ThreadPop(h) ==
  /\ threadPc[h] = "pop"
  /\ msgQueue' = [msgQueue EXCEPT ![h] = Tail(@)]
  /\ threadPc' = [threadPc EXCEPT ![h] = "handle"]
  /\ UNCHANGED <<busVars, clientVars, queueContent, notifiedStop, callVars,
                 dispatch>>

\* HandleBackendMessage returns.
ThreadHandled(h) ==
  /\ threadPc[h] = "handle" /\ callPc[h] = "idle"
  /\ threadPc' = [threadPc EXCEPT ![h] = "inner"]
  /\ UNCHANGED <<busVars, clientVars, msgQueue, queueContent, notifiedStop,
                 callVars, dispatch>>

\* m_queueContent.Wait: its only waiter consumes the latch.
ThreadWait(h) ==
  /\ threadPc[h] = "wait"
  /\ queueContent[h]
  /\ queueContent' = [queueContent EXCEPT ![h] = FALSE]
  /\ threadPc' = [threadPc EXCEPT ![h] = "outer"]
  /\ UNCHANGED <<busVars, clientVars, msgQueue, notifiedStop, callVars,
                 dispatch>>

Thread(h) == \/ ThreadLoop(h) \/ ThreadCheck(h) \/ ThreadPop(h)
             \/ ThreadHandled(h) \/ ThreadWait(h)

Stopping(a) == StopNotify(a) \/ StopSignal(a) \/ StopJoin(a)

Dispatching == DispatchPost \/ DispatchSignal \/ DispatchErase \/ DispatchEnd

-----------------------------------------------------------------------------
\* The bus is destroyed and nothing is left to do.
Terminated == /\ ~alive /\ Ids = {}
              /\ \A a \in Callers : callPc[a] = "idle"
              /\ UNCHANGED vars

Next ==
  \/ \E c \in Clients :
       \/ \E h \in Handlers : CreateSubscription(c, h)
       \/ \E id \in held[c], e \in Events : SubscribeForEvent(c, id, e)
       \/ \E a \in Callers, id \in held[c] : RevokeSubscription(a, c, id)
       \/ RevokeAllSubscriptions(c)
       \/ Destroy(c)
  \/ \E a \in Callers : RevokeLock(a) \/ Stopping(a)
  \/ \E e \in Events : DispatchBegin(e)
  \/ Dispatching
  \/ \E h \in Handlers : Thread(h)
  \/ Terminated

Safe == Init /\ [][Next]_vars

\* Every thread runs when it can, callbacks return, and a thread that waits
\* for m_mutex is not overtaken forever.
Fairness ==
  /\ \A h \in Handlers : WF_vars(Thread(h))
  /\ \A a \in Callers : WF_vars(Stopping(a)) /\ SF_vars(RevokeLock(a))
  /\ WF_vars(Dispatching)

Spec == Safe /\ Fairness

-----------------------------------------------------------------------------
(* Properties.                                                             *)

ThreadPcs == {"unborn", "outer", "inner", "pop", "handle", "wait", "exited"}
CallPcs == {"idle", "lock", "lockAll", "stop", "signal", "join"}

DispatchOK ==
  /\ dispatch \in [pc: {"idle", "post", "signal"}, idx: Nat,
                   event: Events \cup {NoOne}]
  /\ dispatch.pc = "post" => /\ dispatch.event \in Events
                             /\ dispatch.idx \in 1..Len(List) + 1
  /\ dispatch.pc = "signal" => /\ dispatch.event \in Events
                               /\ dispatch.idx \in 1..Len(List)

\* Every variable has its type.
TypeOK ==
  /\ mutex \in Callers \cup {Dispatcher, NoOne}
  /\ alive \in BOOLEAN
  /\ Ids \subseteq Nat \ {0} /\ subscriptions \in [Ids -> Handlers]
  /\ subscriptionsByEvent \in [Events -> Seq(Nat)]
  /\ owner \in [Handlers -> Clients \cup {NoOne}]
  /\ freed \subseteq Handlers
  /\ held \in [Clients -> SUBSET Nat]
  /\ registered \in [Handlers -> SUBSET Events]
  /\ msgQueue \in [Handlers -> Seq(Events)]
  /\ queueContent \in [Handlers -> BOOLEAN]
  /\ notifiedStop \in [Handlers -> BOOLEAN]
  /\ threadPc \in [Handlers -> ThreadPcs]
  /\ callPc \in [Callers -> CallPcs]
  /\ callTodo \in [Callers -> SUBSET Nat]
  /\ DispatchOK

\* A handler is deleted only after its thread has left Process: no callback
\* of a subscription runs, or can start, once RevokeSubscription has returned
\* (StopThread(true) in SubscriptionHandlerThread::Stop).
NoCallbackAfterRevoke == \A h \in freed : threadPc[h] = "exited"

\* m_subscriptions never holds a deleted handler, not even between the steps
\* of a revocation, and no handler is there twice: DispatchEvent may follow
\* every pointer it finds.
TableOfLiveHandlers ==
  /\ \A i \in Ids : subscriptions[i] \notin freed /\ ~Unborn(subscriptions[i])
  /\ \A i, j \in Ids : subscriptions[i] = subscriptions[j] => i = j

\* A thread that went to sleep with messages in its queue, or with its stop
\* flag set, has a wake-up coming: the queue and the flag are read before
\* the sleep without the lock of the writer.
NoLostWakeup ==
  \A h \in Handlers : threadPc[h] = "wait" =>
    /\ msgQueue[h] # <<>> /\ ~notifiedStop[h] =>
         \/ queueContent[h]
         \/ dispatch.pc = "signal" /\ subscriptions[Current] = h
    /\ notifiedStop[h] =>
         \/ queueContent[h]
         \/ \E a \in Callers : /\ callPc[a] = "signal"
                               /\ subscriptions[Target(a)] = h

\* Only what a subscriber asked for reaches it.  The ids of revoked
\* subscriptions are handed out again while the per-event lists still hold
\* them, so the code does not give this ("Only for registered subscriber").
OnlyRegisteredEvents ==
  \A h \in Handlers : \A k \in 1..Len(msgQueue[h]) :
    msgQueue[h][k] \in registered[h]

\* RevokeSubscription, RevokeAllSubscriptions and the destructor return:
\* joining a handler's thread under m_mutex never waits for that mutex.
RevokeReturns == \A a \in Callers : []<>(callPc[a] = "idle")

-----------------------------------------------------------------------------
\* The mailboxes the bus implements.
MailState(h) == IF Unborn(h) THEN "unborn"
                ELSE IF h \in freed THEN "closed"
                ELSE IF threadPc[h] = "handle" THEN "busy"
                ELSE "idle"

Mail == INSTANCE Mailboxes WITH
  mail  <- msgQueue,
  state <- [h \in Handlers |-> MailState(h)]

\* Every subscription is a mailbox: first in first out, one callback at a
\* time, nothing after the revocation, and waiting messages are attended to.
ImplementsMailboxes == Mail!Spec
=============================================================================
