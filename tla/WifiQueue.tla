------------------------------- MODULE WifiQueue -------------------------------
(***************************************************************************)
(* The linked list of libraries/LamPI/wifiQueue.cpp.  Two actors share it: *)
(*                                                                         *)
(*   - the interrupt routine, whose decoder callbacks call addQueue;       *)
(*   - the main loop, which calls processQueue (from handleQueue) and      *)
(*     printQueue.                                                         *)
(*                                                                         *)
(* The board has one core: an interrupt can come between any two memory    *)
(* accesses of the main loop and runs to its end before the main loop goes *)
(* on.  So every load and store of processQueue and of printQueue is a     *)
(* step of its own, and every iteration of the loop in addQueue too, but   *)
(* the main loop waits while the interrupt routine is active.              *)
(*                                                                         *)
(* A link is named by the arrival number of the item it holds, and a freed *)
(* number is never given out again: an access to a freed link is an error  *)
(* whoever owns the memory by then.  Null is 0.                            *)
(***************************************************************************)
EXTENDS Naturals, Sequences, FiniteSets

CONSTANTS
  HeapSize,       \* how many links malloc can hand out before it fails
  MaxArrivals     \* bound of the model: how many items arrive in all

ASSUME QueueAssumption == HeapSize \in Nat /\ MaxArrivals \in Nat

Null == 0
Links == 1 .. MaxArrivals

VARIABLES
  head,       \* QueueChain::queue
  next,       \* QueueLink::next of every link
  freed,      \* links that have been given back to the heap
  arrived,    \* links malloc has handed out: 1 .. arrived
  pc,         \* where the main loop is inside processQueue or printQueue
  ql,         \* local of processQueue
  nxt,        \* queue->next, loaded but not yet stored
  q,          \* local of printQueue
  isr,        \* the interrupt routine: idle, walking in addQueue, or dead
  walk,       \* local of addQueue
  \* history variables
  waiting,    \* items that a walk from head would meet
  output,     \* items copied to the caller of processQueue, in order
  lost,       \* items that were in the list and will never be handed out
  mark        \* the value of arrived when the pop loaded queue->next

memory == <<head, next, freed, arrived>>
mainVars == <<pc, ql, nxt, q>>
isrVars == <<isr, walk>>
history == <<waiting, output, lost, mark>>
vars == <<memory, mainVars, isrVars, history>>

MainPcs == {"idle", "ql", "next", "unlinked", "copied", "print"}
IsrPcs == {"idle", "walk", "dead"}

Init ==
  /\ head = Null
  /\ next = [l \in Links |-> Null]
  /\ freed = {}
  /\ arrived = 0
  /\ pc = "idle" /\ ql = Null /\ nxt = Null /\ q = Null
  /\ isr = "idle" /\ walk = Null
  /\ waiting = {} /\ output = <<>> /\ lost = {} /\ mark = 0

--------------------------------------------------------------------------------
(* The interrupt routine.                                                  *)

HeapHasRoom == arrived - Cardinality(freed) < HeapSize

\* addQueue on an empty list: malloc, then init, both inside the interrupt.
AddQueueEmpty ==
  /\ isr = "idle"
  /\ head = Null
  /\ arrived < MaxArrivals
  /\ HeapHasRoom
  /\ arrived' = arrived + 1
  /\ head' = arrived + 1
  /\ next' = [next EXCEPT ![arrived + 1] = Null]
  /\ waiting' = waiting \cup {arrived + 1}
  /\ UNCHANGED <<freed, mainVars, isrVars, output, lost, mark>>

\* Mutant: the new link is put in front of the list instead of behind it.
AddQueueWalk_PushesAtHead ==
  /\ isr = "idle"
  /\ head # Null
  /\ arrived < MaxArrivals
  /\ HeapHasRoom
  /\ arrived' = arrived + 1
  /\ head' = arrived + 1
  /\ next' = [next EXCEPT ![arrived + 1] = head]
  /\ waiting' = waiting \cup {arrived + 1}
  /\ UNCHANGED <<freed, mainVars, isrVars, output, lost, mark>>

\* addQueue on a list with members: start at the head ...
AddQueueWalk ==
  /\ isr = "idle"
  /\ head # Null
  /\ arrived < MaxArrivals
  /\ isr' = "walk"
  /\ walk' = head
  /\ UNCHANGED <<memory, mainVars, history>>

\* ... follow the next pointers ...
WalkStep ==
  /\ isr = "walk"
  /\ next[walk] # Null
  /\ walk' = next[walk]
  /\ UNCHANGED <<memory, mainVars, isr, history>>

\* ... and hang a new link behind the last one.
AddQueueTail ==
  /\ isr = "walk"
  /\ next[walk] = Null
  /\ HeapHasRoom
  /\ arrived' = arrived + 1
  /\ next' = [next EXCEPT ![walk] = arrived + 1, ![arrived + 1] = Null]
  /\ waiting' = waiting \cup {arrived + 1}
  /\ isr' = "idle"
  /\ walk' = Null
  /\ UNCHANGED <<head, freed, mainVars, output, lost, mark>>

\* malloc returns NULL, init stores through it and the processor traps.
MallocFails ==
  /\ \/ isr = "idle" /\ head = Null /\ arrived < MaxArrivals
     \/ isr = "walk" /\ next[walk] = Null
  /\ ~HeapHasRoom
  /\ isr' = "dead"
  /\ walk' = Null
  /\ UNCHANGED <<memory, mainVars, history>>

\* Items the main loop has unlinked but not yet copied to its caller.
InHand == IF pc = "unlinked" THEN {ql} ELSE {}

\* The trap restarts the board: RAM is initialised again.
Reboot ==
  /\ isr = "dead"
  /\ head' = Null
  /\ freed' = 1 .. arrived
  /\ pc' = "idle" /\ ql' = Null /\ nxt' = Null /\ q' = Null
  /\ isr' = "idle"
  /\ waiting' = {}
  /\ lost' = lost \cup waiting \cup InHand
  /\ UNCHANGED <<next, arrived, walk, output, mark>>

--------------------------------------------------------------------------------
(* The main loop; it runs only while no interrupt is being served.         *)

\* Mutant: the pop never takes the last member of the list.
LoadHead_KeepsLast ==
  /\ isr = "idle" /\ pc = "idle"
  /\ head # Null
  /\ next[head] # Null
  /\ ql' = head
  /\ pc' = "ql"
  /\ UNCHANGED <<memory, nxt, q, isrVars, history>>

\* if (queue != NULL) ql = queue
LoadHead ==
  /\ isr = "idle" /\ pc = "idle"
  /\ head # Null
  /\ ql' = head
  /\ pc' = "ql"
  /\ UNCHANGED <<memory, nxt, q, isrVars, history>>

\* Mutant: the pop steps over two links.
LoadNext_SkipsOne ==
  /\ isr = "idle" /\ pc = "ql"
  /\ nxt' = IF next[head] = Null THEN Null ELSE next[next[head]]
  /\ mark' = arrived
  /\ pc' = "next"
  /\ UNCHANGED <<memory, ql, q, isrVars, waiting, output, lost>>

\* the load of queue->next
LoadNext ==
  /\ isr = "idle" /\ pc = "ql"
  /\ nxt' = next[head]
  /\ mark' = arrived
  /\ pc' = "next"
  /\ UNCHANGED <<memory, ql, q, isrVars, waiting, output, lost>>

\* Mutant: the link is freed before it has been copied.
StoreHead_FreesEarly ==
  /\ isr = "idle" /\ pc = "next"
  /\ head' = nxt
  /\ waiting' = IF nxt = Null THEN {} ELSE waiting \ {ql}
  /\ lost' = IF nxt = Null THEN lost \cup (waiting \ {ql}) ELSE lost
  /\ pc' = "unlinked"
  /\ freed' = freed \cup {ql}
  /\ UNCHANGED <<next, arrived, ql, nxt, q, isrVars, output, mark>>

\* the store to queue: when the loaded pointer was NULL, whatever an
\* interrupt has hung behind ql in the meantime is cut off with it
StoreHead ==
  /\ isr = "idle" /\ pc = "next"
  /\ head' = nxt
  /\ waiting' = IF nxt = Null THEN {} ELSE waiting \ {ql}
  /\ lost' = IF nxt = Null THEN lost \cup (waiting \ {ql}) ELSE lost
  /\ pc' = "unlinked"
  /\ UNCHANGED <<next, freed, arrived, ql, nxt, q, isrVars, output, mark>>

\* Mutant: the item is not copied to the caller.
CopyItem_Forgets ==
  /\ isr = "idle" /\ pc = "unlinked"
  /\ pc' = "copied"
  /\ UNCHANGED <<memory, ql, nxt, q, isrVars, history>>

\* *itemIn = ql->item
CopyItem ==
  /\ isr = "idle" /\ pc = "unlinked"
  /\ output' = Append(output, ql)
  /\ pc' = "copied"
  /\ UNCHANGED <<memory, ql, nxt, q, isrVars, waiting, lost, mark>>

\* Mutant: free(queue) instead of free(ql).
FreeLink_FreesHead ==
  /\ isr = "idle" /\ pc = "copied"
  /\ freed' = freed \cup {head}
  /\ pc' = "idle"
  /\ ql' = Null
  /\ nxt' = Null
  /\ UNCHANGED <<head, next, arrived, q, isrVars, history>>

\* free(ql), return 0
FreeLink ==
  /\ isr = "idle" /\ pc = "copied"
  /\ freed' = freed \cup {ql}
  /\ pc' = "idle"
  /\ ql' = Null
  /\ nxt' = Null
  /\ UNCHANGED <<head, next, arrived, q, isrVars, history>>

\* printQueue walks the list that the interrupts extend
PrintStart ==
  /\ isr = "idle" /\ pc = "idle"
  /\ head # Null
  /\ q' = head
  /\ pc' = "print"
  /\ UNCHANGED <<memory, ql, nxt, isrVars, history>>

PrintStep ==
  /\ isr = "idle" /\ pc = "print"
  /\ q' = next[q]
  /\ pc' = IF next[q] = Null THEN "idle" ELSE "print"
  /\ UNCHANGED <<memory, ql, nxt, isrVars, history>>

--------------------------------------------------------------------------------
AddQueue == AddQueueEmpty \/ AddQueueWalk \/ WalkStep \/ AddQueueTail
ProcessQueue == LoadHead \/ LoadNext \/ StoreHead \/ CopyItem \/ FreeLink
PrintQueue == PrintStart \/ PrintStep

Next == AddQueue \/ MallocFails \/ Reboot \/ ProcessQueue \/ PrintQueue

Spec == Init /\ [][Next]_vars

(* An interrupt that has started ends; a board that trapped restarts; the  *)
(* main loop finishes the call it is in and comes back to handleQueue,     *)
(* even when debug output makes it print the queue in between.             *)
Fairness ==
  /\ WF_vars(WalkStep \/ AddQueueTail \/ (isr = "walk" /\ MallocFails))
  /\ WF_vars(Reboot)
  /\ WF_vars(LoadNext \/ StoreHead \/ CopyItem \/ FreeLink \/ PrintStep)
  /\ SF_vars(LoadHead)

FairSpec == Spec /\ Fairness

--------------------------------------------------------------------------------
TypeOK ==
  /\ head \in Links \cup {Null}
  /\ next \in [Links -> Links \cup {Null}]
  /\ freed \subseteq Links
  /\ arrived \in 0 .. MaxArrivals
  /\ pc \in MainPcs
  /\ {ql, nxt, q, walk} \subseteq Links \cup {Null}
  /\ isr \in IsrPcs
  /\ waiting \subseteq Links
  /\ output \in Seq(Links)
  /\ lost \subseteq Links
  /\ mark \in 0 .. MaxArrivals

Delivered == {output[k] : k \in DOMAIN output}

\* No step reads or writes through a link that has been freed: neither the
\* walk in addQueue, nor the pop, nor the walk of printQueue, although each
\* holds a pointer while the other actor changes the list.
NoDanglingAccess ==
  /\ head \notin freed
  /\ walk \notin freed
  /\ q \notin freed
  /\ pc \in {"ql", "next", "unlinked", "copied"} => ql \notin freed
  /\ pc = "next" => nxt \notin freed

\* Items leave the queue in the order in which the radio callbacks added
\* them, and no item leaves it twice, whatever the interrupts interleave.
InOrder ==
  \A j, k \in DOMAIN output : j < k => output[j] < output[k]

\* Every item that was ever added is in exactly one place: reachable from
\* head, unlinked but not yet copied, handed out, or lost for good.
EveryItemAccountedFor ==
  /\ 1 .. arrived = waiting \cup InHand \cup Delivered \cup lost
  /\ waiting \cap (InHand \cup Delivered \cup lost) = {}
  /\ InHand \cap (Delivered \cup lost) = {}
  /\ Delivered \cap lost = {}

\* The pop loses an item only if the item was added after the pop had read
\* a NULL next pointer, or if the board traps: what was already in the list
\* then is safe.
OnlyLateArrivalsLost ==
  [][\A i \in lost' \ lost :
       isr = "dead" \/ (pc = "next" /\ nxt = Null /\ i > mark)]_vars

\* What the comments of processQueue claim (wifiQueue.cpp:74-79): the head
\* is protected, so no item of the queue is ever lost by a pop.
NoItemLost == lost = {}

\* Every item in the list is handed out or lost in the end.
EventuallyServed ==
  \A i \in Links : i \in waiting ~> i \in Delivered \cup lost

Fifo == INSTANCE LossyFifo WITH
          count <- arrived, pending <- waiting \cup InHand, sent <- output

\* The linked list implements the lossy FIFO.
ImplementsFifo == Fifo!FifoSpec

================================================================================
