------------------------- MODULE EventHandlerProofs -------------------------
(***************************************************************************)
(* Proofs about EventHandler, for every set of clients, handlers and       *)
(* events and every queue bound.                                           *)
(***************************************************************************)
EXTENDS EventHandler, SequenceTheorems, WellFoundedInduction, TLAPS

-----------------------------------------------------------------------------
(* Greatest elements: NextId takes the greatest id of the table.           *)

\* A non-empty set of natural numbers has a least element.
LEMMA NatMin ==
  ASSUME NEW S, S \subseteq Nat, S # {}
  PROVE  \E m \in S : \A j \in S : m <= j
<1> DEFINE R == OpToRel(<, Nat)
<1>1. IsWellFoundedOn(R, Nat)
  BY NatLessThanWellFounded, Zenon
<1> HIDE DEF R
<1>2. PICK m \in S : \A j \in S : <<j, m>> \notin R
  BY <1>1, WFMin, Zenon
<1>3. \A j \in S : j < m => <<j, m>> \in R
  BY DEF R, OpToRel
<1>4. \A j \in S : ~(j < m)
  BY <1>2, <1>3
<1>5. QED
  BY <1>4

\* A bounded non-empty set of natural numbers has a greatest element.
LEMMA NatMax ==
  ASSUME NEW S, S \subseteq Nat, S # {},
         NEW b \in Nat, \A j \in S : j <= b
  PROVE  \E m \in S : \A j \in S : j <= m
<1> DEFINE T == {b - j : j \in S}
<1>0. \A j \in S : b - j \in Nat
  OBVIOUS
<1>1. T \subseteq Nat /\ T # {}
  BY <1>0
<1>2. PICK t \in T : \A u \in T : t <= u
  BY <1>1, NatMin
<1>3. PICK m \in S : t = b - m
  BY <1>2
<1>4. \A j \in S : b - m <= b - j
  BY <1>2, <1>3
<1>5. QED
  BY <1>4

-----------------------------------------------------------------------------
(* Type correctness, with the discipline of m_mutex it rests on: the list  *)
(* that is being dispatched and the ids that are being revoked do not      *)
(* change under the thread that works on them.                             *)

Holding(a) == callPc[a] \in {"stop", "signal", "join"}

LockInv ==
  /\ \A a \in Callers : Holding(a) <=> mutex = a
  /\ dispatch.pc # "idle" <=> mutex = Dispatcher
  /\ \A a \in Callers : Holding(a) => callTodo[a] \subseteq Ids /\ callTodo[a] # {}

IdsBounded == \E b \in Nat : \A i \in Ids : i <= b

\* Only the thread of h takes messages away from its queue.
PopInv == \A h \in Handlers : threadPc[h] = "pop" => msgQueue[h] # <<>>

TypeInv == TypeOK /\ LockInv /\ IdsBounded /\ PopInv

\* An id given out is a positive number, above every id in use.
LEMMA NextIdFresh ==
  ASSUME Ids \subseteq Nat \ {0}, IdsBounded
  PROVE  NextId \in Nat \ {0} /\ \A i \in Ids : i < NextId
<1>1. CASE Ids = {}
  BY <1>1 DEF NextId
<1>2. CASE Ids # {}
  <2>1. PICK b \in Nat : \A i \in Ids : i <= b
    BY DEF IdsBounded
  <2>2. \E m \in Ids : \A j \in Ids : j <= m
    BY <1>2, <2>1, NatMax
  <2> DEFINE m == CHOOSE i \in Ids : \A j \in Ids : j <= i
  <2>3. m \in Ids /\ \A j \in Ids : j <= m
    BY <2>2
  <2>4. NextId = 1 + m
    BY <1>2 DEF NextId
  <2> HIDE DEF m
  <2>5. QED
    BY <2>3, <2>4
<1>3. QED
  BY <1>1, <1>2

\* The id a revocation works on is one of those it was asked for.
LEMMA TargetInTodo ==
  ASSUME NEW a \in Callers, callTodo[a] # {}
  PROVE  Target(a) \in callTodo[a]
BY DEF Target

LEMMA TypeInit == Init => TypeInv
<1> SUFFICES ASSUME Init PROVE TypeInv
  OBVIOUS
<1> USE ActorAssumption, QueueAssumption DEF Init
<1>1. Ids = {}
  BY DEF Ids
<1>2. TypeOK
  <2>1. subscriptions \in [Ids -> Handlers]
    BY <1>1
  <2>2. DispatchOK
    BY DEF DispatchOK, NoDispatch
  <2>3. QED
    BY <1>1, <2>1, <2>2 DEF TypeOK, ThreadPcs, CallPcs, Callers
<1>3. LockInv
  BY DEF LockInv, Holding, NoDispatch, Callers
<1>4. IdsBounded
  BY <1>1 DEF IdsBounded
<1>5. PopInv
  BY DEF PopInv
<1>6. QED
  BY <1>2, <1>3, <1>4, <1>5 DEF TypeInv

\* Every step keeps the types, the mutex discipline and the bound of the ids.
LEMMA TypeStep == TypeInv /\ [Next]_vars => TypeInv'
<1> SUFFICES ASSUME TypeInv, [Next]_vars PROVE TypeInv'
  OBVIOUS
<1> USE ActorAssumption, QueueAssumption
<1> USE DEF TypeInv, busVars, clientVars, threadVars, callVars
<1>1. ASSUME NEW c \in Clients, NEW h \in Handlers, CreateSubscription(c, h)
      PROVE  TypeInv'
  <2> USE <1>1 DEF CreateSubscription
  <2>1. NextId \in Nat \ {0} /\ \A i \in Ids : i < NextId
    BY NextIdFresh DEF TypeOK
  <2> DEFINE n == NextId
  <2>2. Ids' = Ids \cup {n} /\ subscriptions' \in [Ids' -> Handlers]
    BY DEF Ids, TypeOK
  <2> HIDE DEF n
  <2>3. held' \in [Clients -> SUBSET Nat]
    BY <2>1 DEF TypeOK
  <2>4. DispatchOK'
    BY DEF TypeOK, DispatchOK, List
  <2>5. TypeOK'
    BY <2>1, <2>2, <2>3, <2>4 DEF TypeOK, ThreadPcs, n, Callers
  <2>6. LockInv'
    BY <2>2 DEF LockInv, Holding
  <2>7. IdsBounded'
    <3>1. \A i \in Ids' : i <= n
      BY <2>1, <2>2 DEF n, TypeOK
    <3>2. QED
      BY <2>1, <3>1 DEF IdsBounded, n
  <2>8. PopInv'
    BY DEF PopInv, TypeOK
  <2>9. QED
    BY <2>5, <2>6, <2>7, <2>8
<1>2. ASSUME NEW c \in Clients, NEW id \in held[c], NEW e \in Events,
             SubscribeForEvent(c, id, e)
      PROVE  TypeInv'
  <2> USE <1>2 DEF SubscribeForEvent
  <2>1. dispatch.pc = "idle" /\ Ids' = Ids
    BY DEF LockInv, TypeOK, Ids
  <2>2. subscriptionsByEvent' \in [Events -> Seq(Nat)]
    BY DEF TypeOK, Ids
  <2>3. registered' \in [Handlers -> SUBSET Events]
    BY DEF TypeOK
  <2>4. DispatchOK'
    BY <2>1 DEF TypeOK, DispatchOK
  <2>5. TypeOK'
    BY <2>1, <2>2, <2>3, <2>4 DEF TypeOK
  <2>6. QED
    BY <2>1, <2>5 DEF LockInv, Holding, IdsBounded, PopInv
<1>3. ASSUME NEW c \in Clients, NEW a \in Callers, NEW id \in held[c],
             RevokeSubscription(a, c, id)
      PROVE  TypeInv'
  <2> USE <1>3 DEF RevokeSubscription
  <2>1. Ids' = Ids /\ DispatchOK' /\ callPc[a] = "idle"
    BY DEF Ids, TypeOK, DispatchOK, List, Free
  <2>2. TypeOK'
    BY <2>1 DEF TypeOK, CallPcs
  <2>3. LockInv'
    BY <2>1 DEF LockInv, Holding, TypeOK, CallPcs
  <2>4. QED
    BY <2>1, <2>2, <2>3 DEF IdsBounded, PopInv
<1>4. ASSUME NEW c \in Clients, RevokeAllSubscriptions(c) \/ Destroy(c)
      PROVE  TypeInv'
  <2> USE <1>4 DEF RevokeAllSubscriptions, Destroy
  <2>1. Ids' = Ids /\ DispatchOK' /\ c \in Callers /\ callPc[c] = "idle"
    BY DEF Ids, TypeOK, DispatchOK, List, Free, Callers
  <2>2. TypeOK'
    BY <2>1 DEF TypeOK, CallPcs
  <2>3. LockInv'
    BY <2>1 DEF LockInv, Holding, TypeOK, CallPcs
  <2>4. QED
    BY <2>1, <2>2, <2>3 DEF IdsBounded, PopInv
<1>5. ASSUME NEW a \in Callers, RevokeLock(a)
      PROVE  TypeInv'
  <2> USE <1>5 DEF RevokeLock
  <2>1. Found(a) \subseteq Ids
    BY DEF Found, Owned
  <2>2. Ids' = Ids /\ DispatchOK'
    BY DEF Ids, TypeOK, DispatchOK, List
  <2> HIDE DEF Found
  <2>3. TypeOK'
    BY <2>1, <2>2 DEF TypeOK, CallPcs
  <2>4. LockInv'
    BY <2>1, <2>2 DEF LockInv, Holding, TypeOK, CallPcs
  <2>5. QED
    BY <2>2, <2>3, <2>4 DEF IdsBounded, PopInv
<1>6. ASSUME NEW a \in Callers, StopNotify(a) \/ StopSignal(a)
      PROVE  TypeInv'
  <2> USE <1>6 DEF StopNotify, StopSignal
  <2>1. Ids' = Ids /\ DispatchOK'
    BY DEF Ids, TypeOK, DispatchOK, List
  <2>2. TypeOK'
    BY <2>1 DEF TypeOK, CallPcs
  <2>3. LockInv'
    BY <2>1 DEF LockInv, Holding, TypeOK, CallPcs
  <2>4. QED
    BY <2>1, <2>2, <2>3 DEF IdsBounded, PopInv
<1>7. ASSUME NEW a \in Callers, StopJoin(a)
      PROVE  TypeInv'
  <2> USE <1>7 DEF StopJoin
  <2> DEFINE id == Target(a)
             rest == callTodo[a] \ {id}
  <2>1. Holding(a) /\ mutex = a /\ dispatch.pc = "idle" /\ id \in callTodo[a] /\ id \in Ids
    BY TargetInTodo DEF LockInv, Holding, Callers
  <2>2. Ids' = Ids \ {id} /\ subscriptions' \in [Ids' -> Handlers]
    BY <2>1 DEF Erase, TypeOK, Ids
  <2>3. subscriptions[id] \in Handlers
    BY <2>1 DEF TypeOK
  <2> HIDE DEF id
  <2>4. DispatchOK'
    BY <2>1 DEF TypeOK, DispatchOK
  <2>5. TypeOK'
    <3>1. msgQueue' \in [Handlers -> Seq(Events)]
      BY EmptySeq DEF TypeOK
    <3>2. freed' \subseteq Handlers
      BY <2>3 DEF TypeOK, id
    <3>3. subscriptionsByEvent' \in [Events -> Seq(Nat)]
      BY DEF TypeOK
    <3>4. callTodo' \in [Callers -> SUBSET Nat] /\ callPc' \in [Callers -> CallPcs]
      BY DEF TypeOK, CallPcs
    <3>5. QED
      BY <2>2, <2>4, <3>1, <3>2, <3>3, <3>4 DEF TypeOK
  <2>6. LockInv'
    <3>1. callTodo'[a] = rest /\ callPc'[a] = IF rest = {} THEN "idle" ELSE "stop"
      BY DEF TypeOK, id
    <3>2. \A b \in Callers : b # a => ~Holding(b) /\ ~Holding(b)'
      BY <2>1 DEF LockInv, Holding, TypeOK
    <3>3. rest \subseteq Ids'
      BY <2>1, <2>2 DEF LockInv
    <3>4. mutex' = IF rest = {} THEN NoOne ELSE a
      BY <2>1 DEF id
    <3>5. \A b \in Callers : Holding(b)' <=> mutex' = b
      BY <3>1, <3>2, <3>4 DEF Holding
    <3>6. (dispatch.pc # "idle" <=> mutex = Dispatcher)'
      BY <2>1, <3>4
    <3>7. QED
      BY <3>1, <3>2, <3>3, <3>5, <3>6 DEF LockInv, Holding
  <2>7. IdsBounded'
    BY <2>2 DEF IdsBounded
  <2>8. PopInv'
    BY <2>3 DEF PopInv, Joined, Running, TypeOK, id
  <2>9. QED
    BY <2>5, <2>6, <2>7, <2>8
<1>8. ASSUME NEW e \in Events, DispatchBegin(e)
      PROVE  TypeInv'
  <2> USE <1>8 DEF DispatchBegin
  <2>1. DispatchOK'
    <3>1. Len(subscriptionsByEvent[e]) \in Nat
      BY DEF TypeOK
    <3>2. QED
      BY <3>1 DEF TypeOK, DispatchOK, List
  <2>2. TypeOK'
    BY <2>1 DEF TypeOK, Ids
  <2>3. QED
    BY <2>2 DEF LockInv, Holding, IdsBounded, PopInv, Ids, TypeOK
<1>9. ASSUME DispatchPost \/ DispatchSignal
      PROVE  TypeInv'
  <2> USE <1>9 DEF DispatchPost, DispatchSignal
  <2>1. Ids' = Ids /\ dispatch.event \in Events /\ Len(List) \in Nat
    BY DEF Ids, TypeOK, DispatchOK, List
  <2>2. DispatchOK'
    <3>0. /\ dispatch \in [pc: {"idle", "post", "signal"}, idx: Nat,
                           event: Events \cup {NoOne}]
          /\ \/ dispatch' = [dispatch EXCEPT !.pc = "signal"]
             \/ dispatch' = [dispatch EXCEPT !.idx = @ + 1]
             \/ dispatch' = [dispatch EXCEPT !.pc = "post", !.idx = @ + 1]
      BY DEF TypeOK, DispatchOK
    <3>1. dispatch' \in [pc: {"idle", "post", "signal"}, idx: Nat,
                         event: Events \cup {NoOne}]
      <4>1. dispatch.idx + 1 \in Nat
        BY <3>0
      <4>2. CASE dispatch' = [dispatch EXCEPT !.pc = "signal"]
        BY ONLY <3>0, <4>2
      <4>3. CASE dispatch' = [dispatch EXCEPT !.idx = @ + 1]
        BY ONLY <3>0, <4>1, <4>3
      <4>4. CASE dispatch' = [dispatch EXCEPT !.pc = "post", !.idx = @ + 1]
        BY ONLY <3>0, <4>1, <4>4
      <4>5. QED
        BY <3>0, <4>2, <4>3, <4>4
    <3>2. dispatch'.event = dispatch.event /\ List' = List
      <4>1. dispatch'.event = dispatch.event
        BY ONLY <3>0
      <4>2. UNCHANGED subscriptionsByEvent
        OBVIOUS
      <4>3. QED
        BY ONLY <4>1, <4>2 DEF List
    <3>3. dispatch.idx \in 1..Len(List)
      BY <2>1 DEF TypeOK, DispatchOK
    <3>4. \/ dispatch'.pc = "post" /\ dispatch'.idx = dispatch.idx + 1
          \/ dispatch'.pc = "signal" /\ dispatch'.idx = dispatch.idx
      <4>1. dispatch.pc = "post" \/ dispatch' # [dispatch EXCEPT !.idx = @ + 1]
            \/ dispatch' = [dispatch EXCEPT !.pc = "post", !.idx = @ + 1]
        OBVIOUS
      <4>2. QED
        BY ONLY <3>0, <4>1
    <3>5. QED
      BY <2>1, <3>1, <3>2, <3>3, <3>4 DEF DispatchOK
  <2>3. \/ UNCHANGED msgQueue
        \/ \E h \in Handlers :
             msgQueue' = [msgQueue EXCEPT ![h] = Append(@, dispatch.event)]
    BY DEF TypeOK
  <2>4. msgQueue' \in [Handlers -> Seq(Events)] /\ PopInv'
    <3>1. \A h \in Handlers : /\ Append(msgQueue[h], dispatch.event) \in Seq(Events)
                              /\ Append(msgQueue[h], dispatch.event) # <<>>
      BY <2>1, AppendProperties DEF TypeOK
    <3>2. msgQueue \in [Handlers -> Seq(Events)] /\ PopInv /\ UNCHANGED threadPc
      BY DEF TypeOK
    <3>3. QED
      BY ONLY <2>3, <3>1, <3>2 DEF PopInv
  <2>5. TypeOK'
    BY <2>1, <2>2, <2>4 DEF TypeOK
  <2>6. LockInv'
    BY <2>1, <2>2 DEF LockInv, Holding, TypeOK, DispatchOK
  <2>7. QED
    BY <2>1, <2>4, <2>5, <2>6 DEF IdsBounded
<1>10. ASSUME DispatchErase
       PROVE  TypeInv'
  <2> USE <1>10 DEF DispatchErase
  <2>1. dispatch.event \in Events /\ List \in Seq(Nat) /\ Ids' = Ids
    BY DEF TypeOK, DispatchOK, List, Ids
  <2>2. PICK k \in 1..Len(List) :
          /\ subscriptionsByEvent' = [subscriptionsByEvent EXCEPT
               ![dispatch.event] = SubSeq(List, 1, k - 1) \o SubSeq(List, k + 1, Len(List))]
          /\ dispatch' = [dispatch EXCEPT !.idx = @ - 1]
    BY DEF List, TypeOK
  <2>3. Len(List) \in Nat /\ \A i \in 1..Len(List) : List[i] \in Nat
    BY <2>1, LenProperties
  <2>4. /\ SubSeq(List, 1, k - 1) \in Seq(Nat)
        /\ Len(SubSeq(List, 1, k - 1)) = k - 1
    <3>1. /\ k - 1 \in Int /\ (k - 1) - 1 + 1 = k - 1
          /\ \A i \in 1..k - 1 : List[i] \in Nat
          /\ 1 <= k - 1 \/ k - 1 = 0
      BY <2>2, <2>3
    <3>2. QED
      BY <3>1, SubSeqProperties
  <2>5. /\ SubSeq(List, k + 1, Len(List)) \in Seq(Nat)
        /\ Len(SubSeq(List, k + 1, Len(List))) = Len(List) - k
    BY <2>2, <2>3, SubSeqProperties
  <2> DEFINE new == SubSeq(List, 1, k - 1) \o SubSeq(List, k + 1, Len(List))
  <2>6. new \in Seq(Nat) /\ Len(new) = Len(List) - 1
    <3>1. new \in Seq(Nat) /\ Len(new) = (k - 1) + (Len(List) - k)
      BY <2>4, <2>5, ConcatProperties
    <3>2. (k - 1) + (Len(List) - k) = Len(List) - 1
      BY <2>2, <2>3
    <3>3. QED
      BY <3>1, <3>2
  <2>7. subscriptionsByEvent' = [subscriptionsByEvent EXCEPT ![dispatch.event] = new]
    BY <2>2
  <2> HIDE DEF new
  <2>8. subscriptionsByEvent' \in [Events -> Seq(Nat)]
    BY <2>1, <2>6, <2>7 DEF TypeOK
  <2>9. /\ dispatch'.pc = "post" /\ dispatch'.event = dispatch.event
        /\ dispatch'.idx = dispatch.idx - 1 /\ dispatch.idx - 1 \in Nat
        /\ dispatch' \in [pc: {"idle", "post", "signal"}, idx: Nat,
                          event: Events \cup {NoOne}]
    <3>1. dispatch.idx \in Nat /\ dispatch.idx > Len(List)
      BY DEF TypeOK, DispatchOK
    <3>2. dispatch.idx - 1 \in Nat
      BY <2>3, <3>1
    <3>3. QED
      BY <2>2, <3>2 DEF TypeOK, DispatchOK
  <2>10. List' = new
    BY <2>1, <2>7, <2>9 DEF List, TypeOK
  <2>11. DispatchOK'
    <3>1. dispatch.idx = Len(List) + 1 /\ Len(List) \in 1..Len(List)
      BY <2>2, <2>3 DEF TypeOK, DispatchOK
    <3>2. dispatch'.idx \in 1..Len(List)' + 1
      BY <2>3, <2>6, <2>9, <2>10, <3>1
    <3>3. QED
      BY <2>1, <2>9, <3>2 DEF DispatchOK
  <2>12. TypeOK'
    BY <2>1, <2>8, <2>11 DEF TypeOK
  <2>13. LockInv'
    BY <2>1, <2>9 DEF LockInv, Holding
  <2>14. QED
    BY <2>1, <2>12, <2>13 DEF IdsBounded, PopInv
<1>11. ASSUME DispatchEnd
       PROVE  TypeInv'
  <2> USE <1>11 DEF DispatchEnd
  <2>1. Ids' = Ids /\ mutex = Dispatcher
    BY DEF Ids, LockInv
  <2>2. DispatchOK'
    BY DEF DispatchOK, NoDispatch
  <2>3. TypeOK'
    BY <2>1, <2>2 DEF TypeOK
  <2>4. LockInv'
    BY <2>1 DEF LockInv, Holding, NoDispatch, Callers
  <2>5. QED
    BY <2>1, <2>3, <2>4 DEF IdsBounded, PopInv
<1>12. ASSUME NEW h \in Handlers, Thread(h)
       PROVE  TypeInv'
  <2> USE <1>12 DEF Thread, ThreadLoop, ThreadCheck, ThreadPop, ThreadHandled, ThreadWait
  <2>1. /\ Ids' = Ids /\ DispatchOK' /\ LockInv'
        /\ UNCHANGED <<busVars, clientVars, callVars, dispatch, notifiedStop>>
    BY DEF Ids, TypeOK, DispatchOK, List, LockInv, Holding
  <2>2. threadPc' \in [Handlers -> ThreadPcs] /\ queueContent' \in [Handlers -> BOOLEAN]
    BY DEF TypeOK, ThreadPcs
  <2>3. msgQueue' \in [Handlers -> Seq(Events)]
    <3>1. threadPc[h] = "pop" => Tail(msgQueue[h]) \in Seq(Events)
      BY HeadTailProperties DEF PopInv, TypeOK
    <3>2. \/ UNCHANGED msgQueue
          \/ /\ threadPc[h] = "pop"
             /\ msgQueue' = [msgQueue EXCEPT ![h] = Tail(@)]
      OBVIOUS
    <3>3. QED
      BY <3>1, <3>2 DEF TypeOK
  <2>4. TypeOK'
    BY <2>1, <2>2, <2>3 DEF TypeOK
  <2>5. PopInv'
    BY DEF PopInv, TypeOK, ThreadPcs
  <2>6. QED
    BY <2>1, <2>4, <2>5 DEF IdsBounded
<1>13. CASE UNCHANGED vars \/ Terminated
  <2>1. UNCHANGED vars
    BY <1>13 DEF Terminated
  <2>2. QED
    BY <2>1 DEF vars, TypeOK, DispatchOK, List, LockInv, Holding, IdsBounded, Ids,
                PopInv
<1>14. QED
  BY <1>1, <1>2, <1>3, <1>4, <1>5, <1>6, <1>7, <1>8, <1>9, <1>10, <1>11, <1>12,
     <1>13 DEF Next, Stopping, Dispatching

\* The variables of the bus keep their types in every behaviour.
THEOREM TypeCorrect == Safe => []TypeOK
<1>1. TypeInv => TypeOK
  BY DEF TypeInv
<1>2. QED
  BY <1>1, TypeInit, TypeStep, PTL DEF Safe

-----------------------------------------------------------------------------
(* Safety.  A deleted handler's thread has left Process because only its   *)
(* exit lets StopJoin go on; no wake-up is lost because a thread reaches   *)
(* its sleep with the queue empty, or the latch set, or its stop flag set, *)
(* and whoever changes that afterwards signals before it lets go.          *)

StopInv == \A h \in Handlers : /\ h \in freed => threadPc[h] = "exited"
                               /\ threadPc[h] = "exited" => notifiedStop[h]

PostPending(h) == dispatch.pc = "signal" /\ subscriptions[Current] = h
StopPending(h) == \E a \in Callers : /\ callPc[a] = "signal"
                                     /\ subscriptions[Target(a)] = h

WakeInv == \A h \in Handlers :
  /\ threadPc[h] = "wait" /\ msgQueue[h] # <<>> /\ ~notifiedStop[h] =>
       queueContent[h] \/ PostPending(h)
  /\ notifiedStop[h] =>
       threadPc[h] \in {"outer", "exited"} \/ queueContent[h] \/ StopPending(h)

SafeInv == StopInv /\ TableOfLiveHandlers /\ WakeInv

LEMMA SafeInit == Init => SafeInv
BY DEF Init, SafeInv, StopInv, TableOfLiveHandlers, WakeInv, Ids

\* While a revocation is under way its caller is the only one that has the
\* mutex, and it works on an entry of the table.
LEMMA HolderAlone ==
  ASSUME TypeInv, NEW a \in Callers, Holding(a)
  PROVE  /\ dispatch.pc = "idle"
         /\ \A b \in Callers : Holding(b) => b = a
         /\ Target(a) \in callTodo[a] /\ Target(a) \in Ids
         /\ subscriptions[Target(a)] \in Handlers
BY ActorAssumption, TargetInTodo DEF TypeInv, LockInv, TypeOK, Callers

\* While an event is dispatched nobody is in the middle of a revocation.
LEMMA DispatcherAlone ==
  ASSUME TypeInv, dispatch.pc # "idle"
  PROVE  \A a \in Callers : ~Holding(a)
BY ActorAssumption DEF TypeInv, LockInv, Callers

\* A stop signal that is coming stays so while its sender does not move.
LEMMA StopPendingKept ==
  ASSUME UNCHANGED subscriptions,
         \A b \in Callers : callPc[b] = "signal" =>
           callPc'[b] = "signal" /\ callTodo'[b] = callTodo[b],
         NEW g \in Handlers, StopPending(g)
  PROVE  StopPending(g)'
<1>1. PICK b \in Callers : callPc[b] = "signal" /\ subscriptions[Target(b)] = g
  BY DEF StopPending
<1>2. Target(b)' = Target(b)
  BY <1>1 DEF Target
<1>3. QED
  BY <1>1, <1>2 DEF StopPending

\* Every step keeps the safety invariant.
LEMMA SafeStep == TypeInv /\ SafeInv /\ [Next]_vars => SafeInv'
<1> SUFFICES ASSUME TypeInv, SafeInv, [Next]_vars PROVE SafeInv'
  OBVIOUS
<1> USE ActorAssumption
<1> USE DEF busVars, clientVars, threadVars, callVars
<1>0. TypeOK /\ LockInv /\ StopInv /\ TableOfLiveHandlers /\ WakeInv
  BY DEF TypeInv, SafeInv
<1>1. ASSUME NEW c \in Clients, NEW h \in Handlers, CreateSubscription(c, h)
      PROVE  SafeInv'
  <2> USE <1>1 DEF CreateSubscription
  <2>1. dispatch.pc = "idle" /\ \A a \in Callers : ~Holding(a)
    BY <1>0 DEF LockInv, Callers
  <2> DEFINE n == NextId
  <2>2. /\ Ids' = Ids \cup {n}
        /\ \A i \in Ids' : subscriptions'[i] = IF i = n THEN h ELSE subscriptions[i]
    BY DEF Ids
  <2> HIDE DEF n
  <2>3. threadPc' = [threadPc EXCEPT ![h] = "outer"] /\ h \notin freed
    BY <1>0 DEF StopInv, Unborn
  <2>4. TableOfLiveHandlers'
    <3>1. \A i \in Ids : /\ subscriptions[i] \in Handlers /\ subscriptions[i] # h
                         /\ subscriptions[i] \notin freed /\ threadPc[subscriptions[i]] # "unborn"
      BY <1>0 DEF TableOfLiveHandlers, Unborn, TypeOK
    <3>2. \A i \in Ids' : subscriptions'[i] \notin freed' /\ threadPc'[subscriptions'[i]] # "unborn"
      <4>1. \A g \in Handlers : threadPc'[g] = IF g = h THEN "outer" ELSE threadPc[g]
        BY <1>0, <2>3 DEF TypeOK
      <4>2. freed' = freed
        OBVIOUS
      <4>3. QED
        BY ONLY <2>2, <2>3, <3>1, <4>1, <4>2
    <3>3. \A i, j \in Ids' : subscriptions'[i] = subscriptions'[j] => i = j
      BY <1>0, <2>2, <3>1 DEF TableOfLiveHandlers
    <3>4. QED
      BY <3>2, <3>3 DEF TableOfLiveHandlers, Unborn
  <2>5. StopInv'
    BY <1>0, <2>3 DEF StopInv, TypeOK
  <2>6. WakeInv'
    <3>1. \A g \in Handlers : ~PostPending(g) /\ ~StopPending(g)
      BY <2>1 DEF PostPending, StopPending, Holding
    <3>2. QED
      BY <1>0, <2>3, <3>1 DEF WakeInv, TypeOK
  <2>7. QED
    BY <2>4, <2>5, <2>6 DEF SafeInv
<1>2. ASSUME NEW c \in Clients, NEW id \in held[c], NEW e \in Events,
             SubscribeForEvent(c, id, e)
      PROVE  SafeInv'
  <2> USE <1>2 DEF SubscribeForEvent
  <2>1. dispatch.pc = "idle"
    BY <1>0 DEF LockInv
  <2>2. \A g \in Handlers : ~PostPending(g) /\ (StopPending(g) => StopPending(g)')
    BY <2>1 DEF PostPending, StopPending, Target
  <2>3. QED
    BY <1>0, <2>1, <2>2 DEF SafeInv, StopInv, TableOfLiveHandlers, Unborn, Ids, WakeInv
<1>3. ASSUME NEW c \in Clients, NEW a \in Callers, NEW id \in held[c],
             RevokeSubscription(a, c, id)
      PROVE  SafeInv'
  <2> USE <1>3 DEF RevokeSubscription
  <2>1. \A g \in Handlers : PostPending(g) => PostPending(g)'
    BY DEF PostPending, Current, List
  <2>2. \A b \in Callers : callPc[b] = "signal" => callPc'[b] = "signal" /\ callTodo'[b] = callTodo[b]
    BY <1>0 DEF Free, TypeOK
  <2>3. \A g \in Handlers : StopPending(g) => StopPending(g)'
    BY <2>2, StopPendingKept
  <2>4. QED
    BY <1>0, <2>1, <2>3 DEF SafeInv, StopInv, TableOfLiveHandlers, Unborn, Ids, WakeInv
<1>4. ASSUME NEW c \in Clients, RevokeAllSubscriptions(c) \/ Destroy(c)
      PROVE  SafeInv'
  <2> USE <1>4 DEF RevokeAllSubscriptions, Destroy
  <2>1. \A g \in Handlers : PostPending(g) => PostPending(g)'
    BY DEF PostPending, Current, List
  <2>2. \A b \in Callers : callPc[b] = "signal" => callPc'[b] = "signal" /\ callTodo'[b] = callTodo[b]
    BY <1>0 DEF Free, TypeOK
  <2>3. \A g \in Handlers : StopPending(g) => StopPending(g)'
    BY <2>2, StopPendingKept
  <2>4. QED
    BY <1>0, <2>1, <2>3 DEF SafeInv, StopInv, TableOfLiveHandlers, Unborn, Ids, WakeInv
<1>5. ASSUME NEW a \in Callers, RevokeLock(a)
      PROVE  SafeInv'
  <2> USE <1>5 DEF RevokeLock
  <2>1. \A g \in Handlers : PostPending(g) => PostPending(g)'
    BY DEF PostPending, Current, List
  <2>2. \A b \in Callers : callPc[b] = "signal" => callPc'[b] = "signal" /\ callTodo'[b] = callTodo[b]
    BY <1>0 DEF TypeOK
  <2>3. \A g \in Handlers : StopPending(g) => StopPending(g)'
    BY <2>2, StopPendingKept
  <2>4. QED
    BY <1>0, <2>1, <2>3 DEF SafeInv, StopInv, TableOfLiveHandlers, Unborn, Ids, WakeInv
<1>6. ASSUME NEW a \in Callers, StopNotify(a)
      PROVE  SafeInv'
  <2> USE <1>6 DEF StopNotify
  <2>1. PICK h \in Handlers : h = subscriptions[Target(a)] /\ dispatch.pc = "idle"
    BY HolderAlone DEF Holding
  <2>2. \A b \in Callers : callPc[b] # "signal"
    BY HolderAlone DEF Holding
  <2>3. \A g \in Handlers : ~PostPending(g) /\ ~StopPending(g)
    BY <2>1, <2>2 DEF PostPending, StopPending
  <2>4. TableOfLiveHandlers'
    BY <1>0 DEF TableOfLiveHandlers, Unborn, Ids
  <2>5. CASE Running(h)
    <3>0. Target(a)' = Target(a) /\ callPc'[a] = "signal"
      BY <1>0, <2>1, <2>5 DEF Target, TypeOK
    <3>1. StopPending(h)'
      BY <2>1, <3>0 DEF StopPending
    <3>2. notifiedStop' = [notifiedStop EXCEPT ![h] = TRUE]
      BY <2>1, <2>5
    <3>3. WakeInv'
      BY <1>0, <2>3, <3>1, <3>2 DEF WakeInv, TypeOK
    <3>4. StopInv'
      BY <1>0, <3>2 DEF StopInv, TypeOK
    <3>5. QED
      BY <2>4, <3>3, <3>4 DEF SafeInv
  <2>6. CASE ~Running(h)
    BY <1>0, <2>1, <2>3, <2>4, <2>6 DEF SafeInv, StopInv, WakeInv
  <2>7. QED
    BY <2>5, <2>6
<1>7. ASSUME NEW a \in Callers, StopSignal(a)
      PROVE  SafeInv'
  <2> USE <1>7 DEF StopSignal
  <2> DEFINE h == subscriptions[Target(a)]
  <2>1. h \in Handlers /\ dispatch.pc = "idle"
    BY HolderAlone DEF Holding
  <2>2. \A g \in Handlers : StopPending(g) => g = h
    BY HolderAlone DEF Holding, StopPending
  <2>3. \A g \in Handlers : ~PostPending(g)
    BY <2>1 DEF PostPending
  <2>4. StopInv' /\ TableOfLiveHandlers'
    BY <1>0 DEF StopInv, TableOfLiveHandlers, Unborn, Ids
  <2> HIDE DEF h
  <2>5. queueContent' = [queueContent EXCEPT ![h] = TRUE]
    BY DEF h
  <2>6. WakeInv'
    BY <1>0, <2>1, <2>2, <2>3, <2>5 DEF WakeInv, TypeOK
  <2>7. QED
    BY <2>4, <2>6 DEF SafeInv
<1>8. ASSUME NEW a \in Callers, StopJoin(a)
      PROVE  SafeInv'
  <2> USE <1>8 DEF StopJoin
  <2> DEFINE id == Target(a)
             h == subscriptions[id]
  <2>1. h \in Handlers /\ dispatch.pc = "idle" /\ id \in Ids
    BY HolderAlone DEF Holding
  <2>2. \A g \in Handlers : ~PostPending(g) /\ ~StopPending(g)
    BY HolderAlone DEF Holding, PostPending, StopPending
  <2>3. threadPc[h] = "exited"
    BY <1>0, <2>1 DEF Joined, Running, TableOfLiveHandlers, Unborn, TypeOK, ThreadPcs
  <2>4. /\ Ids' = Ids \ {id}
        /\ \A i \in Ids' : subscriptions'[i] = subscriptions[i]
    BY DEF Ids, Erase
  <2>5. freed' = freed \cup {h} /\ msgQueue' = [msgQueue EXCEPT ![h] = <<>>]
    OBVIOUS
  <2> HIDE DEF h, id
  <2>6. StopInv'
    BY <1>0, <2>3, <2>5 DEF StopInv
  <2>7. \A i \in Ids' : subscriptions[i] # h
    BY <1>0, <2>1, <2>4 DEF TableOfLiveHandlers, h
  <2>8. TableOfLiveHandlers'
    BY <1>0, <2>4, <2>5, <2>7 DEF TableOfLiveHandlers, Unborn
  <2>9. WakeInv'
    BY <1>0, <2>2, <2>3, <2>5 DEF WakeInv, TypeOK
  <2>10. QED
    BY <2>6, <2>8, <2>9 DEF SafeInv
<1>9. ASSUME NEW e \in Events, DispatchBegin(e)
      PROVE  SafeInv'
  <2> USE <1>9 DEF DispatchBegin
  <2>1. \A g \in Handlers : ~PostPending(g) /\ (StopPending(g) => StopPending(g)')
    BY DEF PostPending, StopPending, Target
  <2>2. QED
    BY <1>0, <2>1 DEF SafeInv, StopInv, TableOfLiveHandlers, Unborn, Ids, WakeInv
<1>10. ASSUME DispatchPost
       PROVE  SafeInv'
  <2> USE <1>10 DEF DispatchPost
  <2>1. \A g \in Handlers : ~PostPending(g) /\ ~StopPending(g)
    BY DispatcherAlone DEF PostPending, StopPending, Holding
  <2>2. StopInv' /\ TableOfLiveHandlers'
    BY <1>0 DEF StopInv, TableOfLiveHandlers, Unborn, Ids
  <2>3. CASE Current \in Ids
    <3>0. PICK h \in Handlers : h = subscriptions[Current]
      BY <1>0, <2>3 DEF TypeOK
    <3>1. PostPending(h)'
      <4>1. /\ dispatch'.pc = "signal" /\ dispatch'.idx = dispatch.idx
            /\ dispatch'.event = dispatch.event
        BY <1>0, <2>3 DEF TypeOK, DispatchOK
      <4>2. Current' = Current
        BY <4>1 DEF Current, List
      <4>3. QED
        BY <3>0, <4>1, <4>2 DEF PostPending
    <3>2. \A g \in Handlers : g # h => msgQueue'[g] = msgQueue[g]
      BY <1>0, <2>3, <3>0 DEF TypeOK
    <3>3. WakeInv'
      BY <1>0, <2>1, <3>1, <3>2 DEF WakeInv
    <3>4. QED
      BY <2>2, <3>3 DEF SafeInv
  <2>4. CASE Current \notin Ids
    BY <1>0, <2>1, <2>2, <2>4 DEF SafeInv, WakeInv
  <2>5. QED
    BY <2>3, <2>4
<1>11. ASSUME DispatchSignal
       PROVE  SafeInv'
  <2> USE <1>11 DEF DispatchSignal
  <2> DEFINE h == subscriptions[Current]
  <2>1. \A g \in Handlers : (PostPending(g) => g = h) /\ ~StopPending(g)
    BY DispatcherAlone DEF PostPending, StopPending, Holding
  <2>2. StopInv' /\ TableOfLiveHandlers'
    BY <1>0 DEF StopInv, TableOfLiveHandlers, Unborn, Ids
  <2> HIDE DEF h
  <2>3. queueContent' = [queueContent EXCEPT ![h] = TRUE]
    BY DEF h
  <2>4. WakeInv'
    BY <1>0, <2>1, <2>3 DEF WakeInv, TypeOK
  <2>5. QED
    BY <2>2, <2>4 DEF SafeInv
<1>12. ASSUME DispatchErase \/ DispatchEnd
       PROVE  SafeInv'
  <2> USE <1>12 DEF DispatchErase, DispatchEnd
  <2>1. \A g \in Handlers : ~PostPending(g) /\ (StopPending(g) => StopPending(g)')
    BY DEF PostPending, StopPending, Target
  <2>2. QED
    BY <1>0, <2>1 DEF SafeInv, StopInv, TableOfLiveHandlers, Unborn, Ids, WakeInv
<1>13. ASSUME NEW h \in Handlers, Thread(h)
       PROVE  SafeInv'
  <2>1. /\ UNCHANGED <<busVars, clientVars, callVars, dispatch, notifiedStop>>
        /\ \A g \in Handlers : g # h => /\ threadPc'[g] = threadPc[g]
                                        /\ msgQueue'[g] = msgQueue[g]
                                        /\ queueContent'[g] = queueContent[g]
    BY <1>0, <1>13 DEF Thread, ThreadLoop, ThreadCheck, ThreadPop, ThreadHandled,
                       ThreadWait, TypeOK
  <2>2. \A g \in Handlers : /\ PostPending(g) => PostPending(g)'
                            /\ StopPending(g) => StopPending(g)'
    BY <2>1 DEF PostPending, StopPending, Target, Current, List
  <2>3. threadPc[h] \notin {"exited", "unborn"} /\ threadPc'[h] # "unborn"
    BY <1>0, <1>13 DEF Thread, ThreadLoop, ThreadCheck, ThreadPop, ThreadHandled,
                       ThreadWait, TypeOK
  <2>4. StopInv'
    BY <1>0, <1>13, <2>1, <2>3 DEF StopInv, Thread, ThreadLoop, ThreadCheck, ThreadPop,
                       ThreadHandled, ThreadWait, TypeOK
  <2>5. TableOfLiveHandlers'
    BY <1>0, <2>1, <2>3 DEF TableOfLiveHandlers, Unborn, Ids, TypeOK
  <2>6. /\ threadPc'[h] = "wait" /\ msgQueue'[h] # <<>> /\ ~notifiedStop[h] => queueContent'[h]
        /\ notifiedStop[h] => \/ threadPc'[h] \in {"outer", "exited"}
                              \/ queueContent'[h]
                              \/ StopPending(h)
    BY <1>0, <1>13 DEF WakeInv, Thread, ThreadLoop, ThreadCheck, StaleEmpty, ThreadPop,
                       ThreadHandled, ThreadWait, TypeOK
  <2>7. WakeInv'
    BY <1>0, <2>1, <2>2, <2>6 DEF WakeInv
  <2>8. QED
    BY <2>4, <2>5, <2>7 DEF SafeInv
<1>14. CASE UNCHANGED vars \/ Terminated
  <2>1. UNCHANGED vars
    BY <1>14 DEF Terminated
  <2>2. QED
    BY <1>0, <2>1 DEF vars, SafeInv, StopInv, TableOfLiveHandlers, WakeInv, PostPending,
                      StopPending, Target, Current, List, Unborn, Ids
<1>15. QED
  BY <1>1, <1>2, <1>3, <1>4, <1>5, <1>6, <1>7, <1>8, <1>9, <1>10, <1>11, <1>12,
     <1>13, <1>14 DEF Next, Stopping, Dispatching

LEMMA Invariance == Safe => [](TypeInv /\ SafeInv)
<1>1. Init => TypeInv /\ SafeInv
  BY TypeInit, SafeInit
<1>2. (TypeInv /\ SafeInv) /\ [Next]_vars => (TypeInv /\ SafeInv)'
  BY TypeStep, SafeStep
<1>3. QED
  BY <1>1, <1>2, PTL DEF Safe

\* No callback of a subscription runs once its revocation has returned.
THEOREM RevocationIsFinal == Safe => []NoCallbackAfterRevoke
<1>1. TypeInv /\ SafeInv => NoCallbackAfterRevoke
  BY DEF TypeInv, TypeOK, SafeInv, StopInv, NoCallbackAfterRevoke
<1>2. QED
  BY <1>1, Invariance, PTL

\* DispatchEvent never follows a pointer to a deleted handler.
THEOREM TableIsLive == Safe => []TableOfLiveHandlers
<1>1. SafeInv => TableOfLiveHandlers
  BY DEF SafeInv
<1>2. QED
  BY <1>1, Invariance, PTL

\* A thread that sleeps although there is work for it has a wake-up coming.
THEOREM WakeupIsKept == Safe => []NoLostWakeup
<1>1. SafeInv => NoLostWakeup
  BY DEF SafeInv, WakeInv, NoLostWakeup, PostPending, StopPending
<1>2. QED
  BY <1>1, Invariance, PTL

-----------------------------------------------------------------------------
(* The refinement of Mailboxes.                                            *)

States == [h \in Handlers |-> MailState(h)]

\* A step that changes no queue, no thread's place and no deletion is not
\* seen by the mailboxes.
LEMMA StatesKept ==
  ASSUME UNCHANGED <<threadPc, freed>>
  PROVE  States' = States
BY DEF States, MailState, Unborn

\* A step that moves one handler changes the state of its mailbox only.
LEMMA StatesMoved ==
  ASSUME NEW h \in Handlers, NEW m,
         \A g \in Handlers : MailState(g)' = IF g = h THEN m ELSE MailState(g)
  PROVE  States' = [States EXCEPT ![h] = m]
BY DEF States

LEMMA MailInit == Init => Mail!Init
BY DEF Init, Mail!Init, MailState, Unborn

\* Every step of the bus is a step of one mailbox or is not seen by them.
LEMMA MailStep ==
  ASSUME TypeInv, SafeInv, [Next]_vars
  PROVE  [Mail!Next]_<<msgQueue, States>>
<1> USE ActorAssumption
<1> USE DEF busVars, clientVars, threadVars, callVars
<1>0. TypeOK /\ LockInv /\ PopInv /\ StopInv /\ TableOfLiveHandlers
  BY DEF TypeInv, SafeInv
<1>1. ASSUME NEW c \in Clients, NEW h \in Handlers, CreateSubscription(c, h)
      PROVE  Mail!Open(h)
  <2> USE <1>1 DEF CreateSubscription
  <2>1. h \notin freed /\ MailState(h) = "unborn"
    BY <1>0 DEF StopInv, Unborn, MailState
  <2>2. \A g \in Handlers : MailState(g)' = IF g = h THEN "idle" ELSE MailState(g)
    BY <1>0, <2>1 DEF MailState, Unborn, TypeOK
  <2>3. States' = [States EXCEPT ![h] = "idle"]
    BY <2>2, StatesMoved
  <2>4. UNCHANGED msgQueue
    OBVIOUS
  <2>5. QED
    BY <2>1, <2>3, <2>4 DEF Mail!Open, States
<1>2. ASSUME DispatchPost, Current \in Ids
      PROVE  \E h \in Handlers, m \in Events : Mail!Post(h, m)
  <2> USE <1>2 DEF DispatchPost
  <2>1. PICK h \in Handlers : h = subscriptions[Current]
    BY <1>0 DEF TypeOK
  <2>2. MailState(h) \in {"idle", "busy"}
    BY <1>0, <2>1 DEF TableOfLiveHandlers, MailState
  <2>3. PICK m \in Events : m = dispatch.event
    BY <1>0 DEF TypeOK, DispatchOK
  <2>4. States' = States
    BY StatesKept
  <2>5. msgQueue' = [msgQueue EXCEPT ![h] = Append(@, m)]
    BY <2>1, <2>3
  <2>6. Mail!Post(h, m)
    BY <2>2, <2>4, <2>5 DEF Mail!Post, States
  <2>7. QED
    BY <2>6
<1>3. ASSUME NEW h \in Handlers, ThreadPop(h)
      PROVE  Mail!Take(h)
  <2> USE <1>3 DEF ThreadPop
  <2>1. MailState(h) = "idle" /\ h \notin freed /\ msgQueue[h] # <<>>
    BY <1>0 DEF StopInv, PopInv, MailState, Unborn
  <2>2. \A g \in Handlers : MailState(g)' = IF g = h THEN "busy" ELSE MailState(g)
    BY <1>0, <2>1 DEF MailState, Unborn, TypeOK
  <2>3. States' = [States EXCEPT ![h] = "busy"]
    BY <2>2, StatesMoved
  <2>4. QED
    BY <2>1, <2>3 DEF Mail!Take, States
<1>4. ASSUME NEW h \in Handlers, ThreadHandled(h)
      PROVE  Mail!Finish(h)
  <2> USE <1>4 DEF ThreadHandled
  <2>1. MailState(h) = "busy" /\ h \notin freed
    BY <1>0 DEF StopInv, MailState, Unborn
  <2>2. \A g \in Handlers : MailState(g)' = IF g = h THEN "idle" ELSE MailState(g)
    BY <1>0, <2>1 DEF MailState, Unborn, TypeOK
  <2>3. States' = [States EXCEPT ![h] = "idle"]
    BY <2>2, StatesMoved
  <2>4. UNCHANGED msgQueue
    OBVIOUS
  <2>5. QED
    BY <2>1, <2>3, <2>4 DEF Mail!Finish, States
<1>5. ASSUME NEW h \in Handlers, ThreadLoop(h) \/ ThreadCheck(h) \/ ThreadWait(h)
      PROVE  UNCHANGED <<msgQueue, States>>
  <2> USE <1>5 DEF ThreadLoop, ThreadCheck, ThreadWait
  <2>1. h \in freed => FALSE
    BY <1>0 DEF StopInv
  <2>2. \A g \in Handlers : MailState(g)' = MailState(g)
    BY <1>0, <2>1 DEF MailState, Unborn, TypeOK
  <2>3. States' = States
    BY <2>2 DEF States
  <2>4. QED
    BY <2>3
<1>6. ASSUME NEW a \in Callers, StopJoin(a)
      PROVE  \E h \in Handlers : Mail!Close(h)
  <2> USE <1>6 DEF StopJoin
  <2>1. PICK h \in Handlers : h = subscriptions[Target(a)] /\ Target(a) \in Ids
    BY HolderAlone DEF Holding
  <2>2. threadPc[h] = "exited" /\ h \notin freed
    BY <1>0, <2>1 DEF Joined, Running, TableOfLiveHandlers, Unborn, TypeOK, ThreadPcs
  <2>3. \A g \in Handlers : MailState(g)' = IF g = h THEN "closed" ELSE MailState(g)
    BY <1>0, <2>1, <2>2 DEF MailState, Unborn
  <2>4. States' = [States EXCEPT ![h] = "closed"]
    BY <2>3, StatesMoved
  <2>5. States[h] = "idle"
    BY <2>2 DEF States, MailState, Unborn
  <2>6. msgQueue' = [msgQueue EXCEPT ![h] = <<>>]
    BY <2>1
  <2>7. Mail!Close(h)
    BY <2>4, <2>5, <2>6 DEF Mail!Close, States
  <2>8. QED
    BY <2>7
<1>7. CASE \/ \E c \in Clients : \/ RevokeAllSubscriptions(c) \/ Destroy(c)
                                 \/ \E id \in held[c], e \in Events : SubscribeForEvent(c, id, e)
                                 \/ \E a \in Callers, id \in held[c] : RevokeSubscription(a, c, id)
           \/ \E a \in Callers : RevokeLock(a) \/ StopNotify(a) \/ StopSignal(a)
           \/ \E e \in Events : DispatchBegin(e)
           \/ DispatchPost /\ Current \notin Ids
           \/ DispatchSignal \/ DispatchErase \/ DispatchEnd
           \/ Terminated \/ UNCHANGED vars
  <2>1. UNCHANGED <<msgQueue, threadPc, freed>>
    BY <1>7 DEF RevokeAllSubscriptions, Destroy, SubscribeForEvent, RevokeSubscription,
       RevokeLock, StopNotify, StopSignal, DispatchBegin, DispatchPost, DispatchSignal,
       DispatchErase, DispatchEnd, Terminated, vars
  <2>2. UNCHANGED <<msgQueue, States>>
    BY <2>1, StatesKept
  <2>3. QED
    BY <2>2
<1>8. QED
  BY <1>1, <1>2, <1>3, <1>4, <1>5, <1>6, <1>7
     DEF Next, Stopping, Dispatching, Thread, Mail!Next

\* The bus implements the mailboxes: first in first out, one callback at a
\* time, and nothing posted to or called back from a revoked subscription.
THEOREM BusIsMailboxes == Safe => Mail!Safe
<1>1. Init => Mail!Init
  BY MailInit
<1>2. TypeInv /\ SafeInv /\ [Next]_vars => [Mail!Next]_(Mail!mvars)
  BY MailStep DEF Mail!mvars, States
<1>3. QED
  BY <1>1, <1>2, Invariance, PTL DEF Safe, Mail!Safe
=============================================================================
