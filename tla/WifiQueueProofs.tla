---------------------------- MODULE WifiQueueProofs ----------------------------
(***************************************************************************)
(* Proofs about the linked list of wifiQueue.cpp, for every heap size and  *)
(* every number of arrivals.  The argument: the waiting links form one     *)
(* increasing chain from head (ListShape), each local pointer the two      *)
(* actors hold points into that chain or to a link nobody else can free    *)
(* (PointersHeld), and what has left the chain is older than what is in it *)
(* (AgeOrder).                                                             *)
(***************************************************************************)
EXTENDS WifiQueue, TLAPS

\* The links in waiting form a chain from head: next leads from each one to
\* the next younger one, and from the youngest to Null.
ListShape ==
  /\ waiting \subseteq 1 .. arrived
  /\ head = Null => waiting = {}
  /\ head # Null => head \in waiting
  /\ \A m \in waiting : head <= m
  /\ \A l \in waiting : next[l] = Null => \A m \in waiting : m <= l
  /\ \A l \in waiting : next[l] # Null =>
       /\ next[l] \in waiting
       /\ l < next[l]
       /\ \A m \in waiting : m <= l \/ next[l] <= m

\* Where the local pointers of the two actors can point.
PointersHeld ==
  /\ isr = "walk" => walk \in waiting /\ arrived < MaxArrivals
  /\ isr # "walk" => walk = Null
  /\ pc \in {"ql", "next"} => head # Null /\ ql = head
  /\ pc = "next" =>
       IF nxt = Null THEN \A m \in waiting : m <= mark => m = ql
                     ELSE nxt = next[ql]
  /\ mark <= arrived
  /\ pc \in {"unlinked", "copied"} => ql \in 1 .. arrived /\ ql \notin freed
  /\ pc = "copied" => ql \in Delivered
  /\ pc = "print" => q \in waiting
  /\ pc # "print" => q = Null

\* What was handed out is older than what is in hand, and that is older
\* than what waits; nothing that waits has been freed.
AgeOrder ==
  /\ InOrder
  /\ freed \subseteq 1 .. arrived
  /\ freed \cap waiting = {}
  /\ \A d \in Delivered, m \in waiting \cup InHand : d < m
  /\ \A i \in InHand, m \in waiting : i < m

IInv == TypeOK /\ ListShape /\ PointersHeld /\ AgeOrder /\ EveryItemAccountedFor

--------------------------------------------------------------------------------
\* Copying an item adds it, and nothing else, to what was handed out.
LEMMA AppendDelivers ==
  ASSUME NEW s \in Seq(Links), NEW x \in Links
  PROVE  {Append(s, x)[k] : k \in DOMAIN Append(s, x)}
           = {s[k] : k \in DOMAIN s} \cup {x}
  <1>1. DOMAIN Append(s, x) = DOMAIN s \cup {Len(s) + 1}
    OBVIOUS
  <1>2. \A k \in DOMAIN s : Append(s, x)[k] = s[k]
    OBVIOUS
  <1>3. Append(s, x)[Len(s) + 1] = x
    OBVIOUS
  <1>4. QED
    BY <1>1, <1>2, <1>3

LEMMA InitIInv == Init => IInv
  <1> SUFFICES ASSUME Init PROVE IInv
    OBVIOUS
  <1> USE QueueAssumption DEF Init, Null, Links
  <1>1. TypeOK
    BY DEF TypeOK, MainPcs, IsrPcs
  <1>2. ListShape /\ PointersHeld
    BY DEF ListShape, PointersHeld
  <1>3. Delivered = {} /\ InHand = {}
    BY DEF Delivered, InHand
  <1>4. AgeOrder /\ EveryItemAccountedFor
    BY <1>3 DEF AgeOrder, InOrder, EveryItemAccountedFor
  <1>5. QED
    BY <1>1, <1>2, <1>4 DEF IInv

\* An interrupt that finds the list empty, and the tail append, add one link
\* behind all others: the same facts serve both.
LEMMA AppendStep ==
  ASSUME IInv, AddQueueEmpty \/ AddQueueTail
  PROVE  IInv'
  <1> USE QueueAssumption DEF Null, Links
  <1> DEFINE n == arrived + 1
  <1>0. /\ TypeOK /\ ListShape /\ PointersHeld /\ AgeOrder /\ EveryItemAccountedFor
        /\ n \in Links /\ n \notin 1 .. arrived
        /\ arrived' = n /\ waiting' = waiting \cup {n}
        /\ UNCHANGED <<freed, mainVars, output, lost, mark>>
        /\ arrived \in Nat
    BY DEF IInv, TypeOK, PointersHeld, AddQueueEmpty, AddQueueTail
  <1>1. UNCHANGED <<Delivered, InHand>>
    BY <1>0 DEF Delivered, InHand, mainVars
  <1>2. TypeOK'
    <2>1. CASE AddQueueEmpty
      BY <2>1, <1>0 DEF TypeOK, AddQueueEmpty, mainVars, isrVars
    <2>2. CASE AddQueueTail
      <3>1. walk \in Links /\ next' = [next EXCEPT ![walk] = n, ![n] = Null]
        BY <2>2, <1>0 DEF PointersHeld, ListShape, TypeOK, AddQueueTail
      <3>2. next' \in [Links -> Links \cup {Null}]
        BY <3>1, <1>0 DEF TypeOK
      <3>3. QED
        BY <2>2, <3>2, <1>0 DEF TypeOK, AddQueueTail, mainVars, IsrPcs
    <2>3. QED
      BY <2>1, <2>2
  <1>3. ListShape'
    <2>1. CASE AddQueueEmpty
      <3>1. waiting' = {n} /\ head' = n /\ n # Null /\ n \in 1 .. arrived'
        <4>1. waiting = {} /\ head' = arrived + 1
          BY <2>1, <1>0 DEF ListShape, AddQueueEmpty
        <4>2. QED
          BY <4>1, <1>0
      <3>2. next'[n] = Null
        BY <2>1, <1>0 DEF TypeOK, AddQueueEmpty
      <3>3. QED
        BY <3>1, <3>2 DEF ListShape
    <2>2. CASE AddQueueTail
      <3>0. waiting \subseteq 1 .. arrived
        BY <1>0 DEF ListShape
      <3>1. walk \in waiting /\ walk # n /\ head' = head /\ head # Null
        BY <2>2, <1>0 DEF PointersHeld, ListShape, AddQueueTail
      <3>2. /\ next'[n] = Null
            /\ next'[walk] = n
            /\ \A l \in waiting : l # walk => next'[l] = next[l]
        <4>1. /\ next \in [Links -> Links \cup {Null}] /\ walk \in Links
              /\ waiting \subseteq Links /\ n \notin waiting
              /\ next' = [next EXCEPT ![walk] = n, ![n] = Null]
          BY <2>2, <3>1, <1>0 DEF TypeOK, ListShape, AddQueueTail
        <4>2. QED
          BY <4>1, <3>1, <1>0
      <3>3. \A m \in waiting : m <= walk
        BY <2>2, <1>0, <3>1 DEF ListShape, AddQueueTail
      <3>4. \A l \in waiting : l # walk => next[l] # Null
        BY <3>1, <3>3, <1>0 DEF ListShape, TypeOK
      <3>5. \A l \in waiting' : next'[l] = Null => l = n
        BY <3>2, <3>4, <1>0
      <3>6. \A l \in waiting' : next'[l] # Null =>
              /\ next'[l] \in waiting'
              /\ l < next'[l]
              /\ \A m \in waiting' : m <= l \/ next'[l] <= m
        <4> TAKE l \in waiting'
        <4> HAVE next'[l] # Null
        <4>1. CASE l = walk
          BY <4>1, <3>1, <3>2, <3>3, <1>0 DEF ListShape
        <4>2. CASE l # walk
          <5>1. l \in waiting /\ next'[l] = next[l] /\ next[l] # Null
            BY <4>2, <3>2, <3>4, <1>0
          <5>2. next[l] \in waiting /\ l < next[l]
                /\ \A m \in waiting : m <= l \/ next[l] <= m
            BY <5>1, <1>0 DEF ListShape
          <5>3. next[l] <= n /\ next[l] \in Nat /\ l \in Nat
            <6> HIDE DEF Links, Null
            <6>1. next[l] \in 1 .. arrived /\ l \in 1 .. arrived
              BY <5>1, <5>2, <3>0
            <6>2. QED
              BY <6>1, <1>0
          <5>4. QED
            BY <5>1, <5>2, <5>3, <1>0
        <4>3. QED
          BY <4>1, <4>2
      <3>7. waiting' \subseteq 1 .. arrived' /\ \A m \in waiting' : m <= n
        BY <1>0 DEF ListShape
      <3>8. \A m \in waiting' : head' <= m
        <4>1. head \in 1 .. arrived /\ \A m \in waiting : head <= m
          BY <3>0, <3>1, <1>0 DEF ListShape
        <4>2. QED
          BY <3>1, <4>1, <1>0
      <3>9. QED
        BY <3>1, <3>5, <3>6, <3>7, <3>8, <1>0 DEF ListShape
    <2>3. QED
      BY <2>1, <2>2
  <1>4. PointersHeld'
    <2>1. CASE AddQueueEmpty
      BY <2>1, <1>0, <1>1 DEF TypeOK, PointersHeld, ListShape, AddQueueEmpty, mainVars, isrVars
    <2>2. CASE AddQueueTail
      <3>1. pc = "next" /\ nxt # Null => nxt = next'[ql]
        <4> SUFFICES ASSUME pc = "next", nxt # Null PROVE nxt = next'[ql]
          OBVIOUS
        <4>1. nxt = next[ql] /\ ql \in waiting
          BY <1>0 DEF PointersHeld, ListShape
        <4>2. ql # walk /\ ql # n
          BY <4>1, <2>2, <1>0 DEF AddQueueTail, ListShape
        <4>3. QED
          BY <4>1, <4>2, <2>2, <1>0 DEF AddQueueTail, TypeOK, PointersHeld
      <3>2. QED
        BY <2>2, <3>1, <1>0, <1>1 DEF TypeOK, PointersHeld, AddQueueTail, mainVars
    <2>3. QED
      BY <2>1, <2>2
  <1>5. AgeOrder'
    <2>1. InOrder'
      BY <1>0 DEF AgeOrder, InOrder
    <2>2. \A d \in Delivered \cup InHand : d \in 1 .. arrived
      BY <1>0 DEF EveryItemAccountedFor
    <2>3. QED
      BY <2>1, <2>2, <1>0, <1>1 DEF AgeOrder
  <1>6. EveryItemAccountedFor'
    <2>1. 1 .. arrived' = (1 .. arrived) \cup {n}
      BY <1>0
    <2>2. QED
      BY <2>1, <1>0, <1>1 DEF EveryItemAccountedFor
  <1>7. QED
    BY <1>2, <1>3, <1>4, <1>5, <1>6 DEF IInv

\* A step that changes no shared memory and no history: only the local
\* pointers have to be looked at.
LEMMA LocalStep ==
  ASSUME IInv, AddQueueWalk \/ WalkStep \/ MallocFails \/ LoadHead \/ LoadNext
                 \/ PrintStart \/ PrintStep
  PROVE  IInv'
  <1> USE QueueAssumption DEF Null, Links
  <1>0. /\ TypeOK /\ ListShape /\ PointersHeld /\ AgeOrder /\ EveryItemAccountedFor
        /\ UNCHANGED <<memory, waiting, output, lost>>
    BY DEF IInv, AddQueueWalk, WalkStep, MallocFails, LoadHead, LoadNext,
           PrintStart, PrintStep, history
  <1>1. UNCHANGED <<Delivered, InHand>>
    BY <1>0 DEF Delivered, InHand, AddQueueWalk, WalkStep, MallocFails, LoadHead,
                LoadNext, PrintStart, PrintStep, mainVars
  <1>2. ListShape' /\ AgeOrder' /\ EveryItemAccountedFor'
    BY <1>0, <1>1 DEF ListShape, AgeOrder, InOrder, EveryItemAccountedFor, memory
  <1>3. TypeOK' /\ PointersHeld'
    <2> USE <1>0, <1>1 DEF TypeOK, PointersHeld, ListShape, memory, mainVars,
                           isrVars, history, MainPcs, IsrPcs
    <2>1. CASE AddQueueWalk
      BY <2>1 DEF AddQueueWalk
    <2>2. CASE WalkStep
      BY <2>2 DEF WalkStep
    <2>3. CASE MallocFails
      BY <2>3 DEF MallocFails
    <2>4. CASE LoadHead
      BY <2>4 DEF LoadHead
    <2>5. CASE LoadNext
      BY <2>5 DEF LoadNext
    <2>6. CASE PrintStart
      BY <2>6 DEF PrintStart
    <2>7. CASE PrintStep
      BY <2>7 DEF PrintStep
    <2>8. QED
      BY <2>1, <2>2, <2>3, <2>4, <2>5, <2>6, <2>7
  <1>4. QED
    BY <1>2, <1>3 DEF IInv

LEMMA StoreHeadStep ==
  ASSUME IInv, StoreHead
  PROVE  IInv'
  <1> USE QueueAssumption DEF Null, Links
  <1>0. /\ TypeOK /\ ListShape /\ PointersHeld /\ AgeOrder /\ EveryItemAccountedFor
        /\ pc = "next" /\ pc' = "unlinked" /\ ql' = ql /\ head' = nxt
        /\ UNCHANGED <<next, freed, arrived, nxt, q, isrVars, output, mark>>
        /\ ql \in waiting /\ \A m \in waiting : ql <= m
    BY DEF IInv, PointersHeld, ListShape, StoreHead
  <1>1. Delivered' = Delivered /\ InHand = {} /\ InHand' = {ql}
    BY <1>0 DEF Delivered, InHand
  <1>2. TypeOK'
    BY <1>0 DEF TypeOK, StoreHead, isrVars, MainPcs
  <1>3. ListShape' /\ \A m \in waiting' : m \in waiting /\ ql < m
    <2>1. CASE nxt = Null
      BY <2>1, <1>0 DEF StoreHead, ListShape
    <2>2. CASE nxt # Null
      <3>1. waiting' = waiting \ {ql} /\ nxt = next[ql]
        BY <2>2, <1>0 DEF StoreHead, PointersHeld
      <3>2. nxt \in waiting' /\ \A m \in waiting' : nxt <= m
        BY <2>2, <3>1, <1>0 DEF ListShape
      <3>3. \A l \in waiting' : next[l] # ql
        BY <3>1, <1>0 DEF ListShape
      <3>4. QED
        BY <2>2, <3>1, <3>2, <3>3, <1>0 DEF ListShape
    <2>3. QED
      BY <2>1, <2>2
  <1>4. PointersHeld'
    BY <1>0, <1>1 DEF PointersHeld, StoreHead, ListShape, AgeOrder, isrVars
  <1>5. AgeOrder'
    BY <1>0, <1>1, <1>3 DEF AgeOrder, InOrder
  <1>6. EveryItemAccountedFor'
    BY <1>0, <1>1 DEF EveryItemAccountedFor, StoreHead
  <1>7. QED
    BY <1>2, <1>3, <1>4, <1>5, <1>6 DEF IInv

LEMMA CopyItemStep ==
  ASSUME IInv, CopyItem
  PROVE  IInv'
  <1> USE QueueAssumption DEF Null, Links
  <1>0. /\ TypeOK /\ ListShape /\ PointersHeld /\ AgeOrder /\ EveryItemAccountedFor
        /\ pc = "unlinked" /\ pc' = "copied" /\ output' = Append(output, ql)
        /\ UNCHANGED <<memory, ql, nxt, q, isrVars, waiting, lost, mark>>
        /\ ql \in Links /\ output \in Seq(Links)
    BY DEF IInv, PointersHeld, TypeOK, CopyItem
  <1>1. Delivered' = Delivered \cup {ql} /\ InHand = {ql} /\ InHand' = {}
    <2>1. InHand = {ql} /\ InHand' = {}
      BY <1>0 DEF InHand
    <2>2. Delivered' = {Append(output, ql)[k] : k \in DOMAIN Append(output, ql)}
      BY <1>0, Zenon DEF Delivered
    <2>3. Delivered' = Delivered \cup {ql}
      BY <2>2, <1>0, AppendDelivers, Zenon DEF Delivered
    <2>4. QED
      BY <2>1, <2>3
  <1>2. TypeOK' /\ ListShape' /\ PointersHeld'
    BY <1>0, <1>1 DEF TypeOK, ListShape, PointersHeld, memory, isrVars, MainPcs
  <1>3. InOrder'
    <2>1. \A k \in DOMAIN output : output[k] < ql
      BY <1>0, <1>1 DEF AgeOrder, Delivered
    <2>2. QED
      BY <2>1, <1>0 DEF AgeOrder, InOrder
  <1>4. AgeOrder'
    BY <1>0, <1>1, <1>3 DEF AgeOrder, memory
  <1>5. EveryItemAccountedFor'
    BY <1>0, <1>1 DEF EveryItemAccountedFor, memory
  <1>6. QED
    BY <1>2, <1>4, <1>5 DEF IInv

LEMMA FreeOrRebootStep ==
  ASSUME IInv, FreeLink \/ Reboot
  PROVE  IInv'
  <1> USE QueueAssumption DEF Null, Links
  <1>0. /\ TypeOK /\ ListShape /\ PointersHeld /\ AgeOrder /\ EveryItemAccountedFor
        /\ UNCHANGED <<next, arrived, walk, output, mark>> /\ Delivered' = Delivered
    BY DEF IInv, FreeLink, Reboot, isrVars, history, Delivered
  <1>1. CASE FreeLink
    <2>1. InHand = {} /\ InHand' = {}
      BY <1>1 DEF InHand, FreeLink
    <2>2. ql \in Delivered /\ ql \in 1 .. arrived
      BY <1>1, <1>0 DEF PointersHeld, FreeLink
    <2>3. ql \notin waiting
      BY <2>2, <1>0 DEF EveryItemAccountedFor
    <2>4. TypeOK'
      BY <1>0, <1>1, <2>2 DEF TypeOK, FreeLink, isrVars, history, MainPcs
    <2>5. ListShape'
      BY <1>0, <1>1 DEF ListShape, FreeLink, history
    <2>6. PointersHeld'
      BY <1>0, <1>1 DEF PointersHeld, FreeLink, isrVars, history
    <2>7. AgeOrder'
      BY <1>0, <1>1, <2>1, <2>2, <2>3 DEF AgeOrder, InOrder, FreeLink, history
    <2>8. EveryItemAccountedFor'
      BY <1>0, <1>1, <2>1 DEF EveryItemAccountedFor, FreeLink, history
    <2>9. QED
      BY <2>4, <2>5, <2>6, <2>7, <2>8 DEF IInv
  <1>2. CASE Reboot
    <2>1. InHand' = {}
      BY <1>2 DEF InHand, Reboot
    <2>2. InHand \subseteq Links
      BY <1>0 DEF InHand, PointersHeld, TypeOK
    <2>3. TypeOK'
      BY <1>0, <1>2, <2>2 DEF TypeOK, Reboot, MainPcs, IsrPcs
    <2>4. ListShape' /\ PointersHeld'
      BY <1>0, <1>2 DEF ListShape, PointersHeld, TypeOK, Reboot
    <2>5. AgeOrder'
      BY <1>0, <1>2, <2>1 DEF AgeOrder, InOrder, TypeOK, Reboot
    <2>6. EveryItemAccountedFor'
      BY <1>0, <1>2, <2>1 DEF EveryItemAccountedFor, Reboot
    <2>7. QED
      BY <2>3, <2>4, <2>5, <2>6 DEF IInv
  <1>3. QED
    BY <1>1, <1>2

LEMMA NextIInv == IInv /\ [Next]_vars => IInv'
  <1> SUFFICES ASSUME IInv, [Next]_vars PROVE IInv'
    OBVIOUS
  <1>1. CASE Next
    BY <1>1, AppendStep, LocalStep, StoreHeadStep, CopyItemStep, FreeOrRebootStep
       DEF Next, AddQueue, ProcessQueue, PrintQueue
  <1>2. CASE UNCHANGED vars
    BY <1>2 DEF IInv, TypeOK, ListShape, PointersHeld, AgeOrder, InOrder,
       EveryItemAccountedFor, Delivered, InHand, vars, memory, mainVars, isrVars, history
  <1>3. QED
    BY <1>1, <1>2

\* The invariant of the linked list holds in every reachable state.
THEOREM ListInvariant == Spec => []IInv
  BY InitIInv, NextIInv, PTL DEF Spec

\* Type correctness of the queue, for every heap and any number of arrivals.
THEOREM TypeCorrect == Spec => []TypeOK
  <1>1. IInv => TypeOK
    BY DEF IInv
  <1>2. QED
    BY <1>1, ListInvariant, PTL

--------------------------------------------------------------------------------
\* No pointer of the pop, of the printing walk or of addQueue ever leads to
\* freed memory, at any interleaving of interrupts and main loop.
THEOREM NoUseAfterFree == Spec => []NoDanglingAccess
  <1>1. IInv => NoDanglingAccess
    <2> SUFFICES ASSUME IInv PROVE NoDanglingAccess
      OBVIOUS
    <2> USE DEF Null, Links
    <2>1. /\ TypeOK /\ ListShape /\ PointersHeld /\ AgeOrder
          /\ 0 \notin freed
      BY DEF IInv, AgeOrder
    <2>2. head \notin freed /\ walk \notin freed /\ q \notin freed
      BY <2>1 DEF ListShape, PointersHeld, AgeOrder
    <2>3. pc \in {"ql", "next"} => ql \in waiting
      BY <2>1 DEF ListShape, PointersHeld
    <2>4. pc = "next" => nxt \notin freed
      BY <2>1, <2>3 DEF ListShape, PointersHeld, AgeOrder
    <2>5. QED
      BY <2>1, <2>2, <2>3, <2>4 DEF PointersHeld, AgeOrder, NoDanglingAccess
  <1>2. QED
    BY <1>1, ListInvariant, PTL

\* Items reach the server side in the order of arrival, each at most once.
THEOREM FirstInFirstOut == Spec => []InOrder
  <1>1. IInv => InOrder
    BY DEF IInv, AgeOrder
  <1>2. QED
    BY <1>1, ListInvariant, PTL

\* Every item is waiting, in hand, handed out or lost, and only one of these.
THEOREM Conservation == Spec => []EveryItemAccountedFor
  <1>1. IInv => EveryItemAccountedFor
    BY DEF IInv
  <1>2. QED
    BY <1>1, ListInvariant, PTL

\* An item that was in the list when the pop read the next pointer is never
\* lost by that pop; only a trap of the board can lose it.
THEOREM LossIsBounded == Spec => OnlyLateArrivalsLost
  <1> DEFINE Step == \A i \in lost' \ lost :
                       isr = "dead" \/ (pc = "next" /\ nxt = Null /\ i > mark)
  <1>1. IInv /\ [Next]_vars => [Step]_vars
    <2> SUFFICES ASSUME IInv, Next, NEW i \in lost' \ lost
                 PROVE  isr = "dead" \/ (pc = "next" /\ nxt = Null /\ i > mark)
      BY DEF vars
    <2>1. CASE Reboot
      BY <2>1 DEF Reboot
    <2>2. CASE StoreHead
      <3>1. pc = "next" /\ nxt = Null /\ i \in waiting /\ i # ql
        BY <2>2 DEF StoreHead
      <3>2. i \in Nat /\ mark \in Nat
        BY <3>1, QueueAssumption DEF IInv, TypeOK, Links
      <3>3. QED
        BY <3>1, <3>2 DEF IInv, PointersHeld
    <2>3. CASE ~Reboot /\ ~StoreHead
      BY <2>3 DEF Next, AddQueue, ProcessQueue, PrintQueue, AddQueueEmpty,
         AddQueueWalk, WalkStep, AddQueueTail, MallocFails, LoadHead, LoadNext,
         CopyItem, FreeLink, PrintStart, PrintStep, history
    <2>4. QED
      BY <2>1, <2>2, <2>3
  <1>2. QED
    BY <1>1, ListInvariant, PTL DEF Spec, OnlyLateArrivalsLost

--------------------------------------------------------------------------------
\* The linked list with its interrupts implements the lossy FIFO: every step
\* of the two actors is an Arrive, Deliver, ForgetYounger or Restart of it,
\* or does not touch it.
THEOREM Refinement == Spec => ImplementsFifo
  <1> USE DEF Null, Links
  <1> DEFINE rest == waiting \cup InHand
  <1>1. Init => Fifo!FifoInit
    BY DEF Init, Fifo!FifoInit, InHand
  <1>2. IInv /\ IInv' /\ [Next]_vars => [Fifo!FifoNext]_(Fifo!fifoVars)
    <2> SUFFICES ASSUME IInv, IInv', [Next]_vars
                 PROVE  Fifo!FifoNext \/ UNCHANGED <<arrived, rest, output>>
      BY DEF Fifo!fifoVars
    <2>0. TypeOK /\ ListShape /\ PointersHeld /\ AgeOrder
      BY DEF IInv
    <2>1. CASE AddQueueEmpty \/ AddQueueTail
      <3>1. /\ arrived' = arrived + 1 /\ output' = output
            /\ rest' = rest \cup {arrived + 1}
        BY <2>1 DEF AddQueueEmpty, AddQueueTail, InHand, mainVars
      <3>2. QED
        BY <3>1 DEF Fifo!FifoNext, Fifo!Arrive
    <2>2. CASE StoreHead
      <3>1. /\ ql \in waiting /\ \A m \in waiting : ql <= m
            /\ InHand = {} /\ InHand' = {ql}
            /\ UNCHANGED <<arrived, output>>
        BY <2>2, <2>0 DEF StoreHead, InHand, ListShape, PointersHeld
      <3>2. CASE nxt = Null
        <4>1. rest' = {ql}
          BY <3>1, <3>2, <2>2 DEF StoreHead
        <4>2. Fifo!ForgetYounger
          BY <3>1, <4>1 DEF Fifo!ForgetYounger, Fifo!IsOldest
        <4>3. QED
          BY <4>2 DEF Fifo!FifoNext
      <3>3. CASE nxt # Null
        BY <3>1, <3>3, <2>2 DEF StoreHead
      <3>4. QED
        BY <3>2, <3>3
    <2>3. CASE CopyItem
      <3>1. /\ InHand = {ql} /\ InHand' = {} /\ ql \notin waiting
            /\ \A m \in waiting : ql < m
            /\ output' = Append(output, ql)
            /\ UNCHANGED <<arrived, waiting>>
            /\ ql \in Nat /\ waiting \subseteq Nat
        BY <2>3, <2>0 DEF CopyItem, InHand, AgeOrder, PointersHeld, ListShape, memory
      <3>2. Fifo!Deliver
        BY <3>1 DEF Fifo!Deliver, Fifo!IsOldest
      <3>3. QED
        BY <3>2 DEF Fifo!FifoNext
    <2>4. CASE Reboot
      BY <2>4 DEF Reboot, InHand, Fifo!FifoNext, Fifo!Restart
    <2>5. CASE FreeLink
      BY <2>5 DEF FreeLink, InHand, history
    <2>6. CASE AddQueueWalk \/ WalkStep \/ MallocFails \/ LoadHead \/ LoadNext
                 \/ PrintStart \/ PrintStep
      BY <2>6 DEF AddQueueWalk, WalkStep, MallocFails, LoadHead, LoadNext, PrintStart,
         PrintStep, InHand, memory, mainVars, history
    <2>7. CASE UNCHANGED vars
      BY <2>7 DEF vars, memory, mainVars, history, InHand
    <2>8. QED
      BY <2>1, <2>2, <2>3, <2>4, <2>5, <2>6, <2>7
         DEF Next, AddQueue, ProcessQueue, PrintQueue
  <1>3. QED
    BY <1>1, <1>2, ListInvariant, PTL DEF Spec, ImplementsFifo, Fifo!FifoSpec

================================================================================
