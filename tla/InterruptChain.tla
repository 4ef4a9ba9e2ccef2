----------------------------- MODULE InterruptChain -----------------------------
(***************************************************************************)
(* libraries/LamPI/InterruptChain.cpp: several callbacks on one interrupt  *)
(* pin.  The pins do not share state, so one pin is modelled.              *)
(*                                                                         *)
(* The main program adds callbacks, sets the mode, and detaches and        *)
(* attaches the pin; each store of addInterruptCallback is a step, because *)
(* once the first callback is in place the interrupt routine can run       *)
(* between any two of them.  The routine itself runs to its end before the *)
(* main program goes on; it is split at every callback it makes.           *)
(*                                                                         *)
(* Links are never freed, so a link is named by the order of its malloc.   *)
(***************************************************************************)
EXTENDS Naturals, Sequences

CONSTANTS
  Callbacks,      \* the functions that can be registered
  Modes,          \* the arguments of attachInterrupt: LOW, CHANGE, ...
  LOW,            \* the mode every pin starts with
  Garbage,        \* what a fresh piece of heap holds instead of a callback
  MaxLinks        \* bound of the model: how many callbacks are added in all

ASSUME ChainAssumption ==
  LOW \in Modes /\ MaxLinks \in Nat /\ Garbage \notin Callbacks

Null == 0
Links == 1 .. MaxLinks
\* What a fresh piece of heap holds instead of a pointer to a link.
Dangling == MaxLinks + 1

VARIABLES
  head,           \* chain[n]
  callback,       \* InterruptChainLink::callback of every link
  next,           \* InterruptChainLink::next of every link
  mode,           \* mode[n]
  attached,       \* whether the pin's interrupt is attached
  attachedMode,   \* and the mode it was attached with
  pc,             \* where the main program is inside addInterruptCallback
  arg,            \* the callback it is adding
  isr,            \* the interrupt routine: idle, walking, or gone wild
  current,        \* local of processInterrupt
  \* history variables
  registered,     \* the callbacks whose link is complete, in order of adding
  called          \* the callbacks made by the current interrupt, in order

chainVars == <<head, callback, next>>
pinVars == <<mode, attached, attachedMode>>
isrVars == <<isr, current, called>>
vars == <<chainVars, pinVars, pc, arg, isrVars, registered>>

Init ==
  /\ head = Null
  /\ callback = [l \in Links |-> Garbage]
  /\ next = [l \in Links |-> Dangling]
  /\ mode = LOW /\ attached = FALSE /\ attachedMode = LOW
  /\ pc = "idle" /\ arg = Garbage
  /\ isr = "idle" /\ current = Null
  /\ registered = <<>> /\ called = <<>>

--------------------------------------------------------------------------------
(* The main program; it runs only while no interrupt is being served.      *)

MainRuns == isr = "idle"

SetMode(m) ==
  /\ MainRuns /\ pc = "idle"
  /\ mode' = m
  /\ UNCHANGED <<chainVars, attached, attachedMode, pc, arg, isrVars, registered>>

\* prevLink = chain[n]; chain[n] = malloc(...): the new link is the head of
\* the chain before anything has been written to it.
PublishLink(c) ==
  /\ MainRuns /\ pc = "idle"
  /\ head < MaxLinks
  /\ head' = head + 1
  /\ arg' = c
  /\ pc' = "published"
  /\ UNCHANGED <<callback, next, pinVars, isrVars, registered>>

\* the two stores of init; prevLink is the link added before this one
StoreCallback ==
  /\ MainRuns /\ pc = "published"
  /\ callback' = [callback EXCEPT ![head] = arg]
  /\ pc' = "callback"
  /\ UNCHANGED <<head, next, pinVars, arg, isrVars, registered>>

\* Mutant: the new link replaces the chain, init(callback, NULL).
StoreNext_Replaces ==
  /\ MainRuns /\ pc = "callback"
  /\ next' = [next EXCEPT ![head] = Null]
  /\ registered' = Append(registered, arg)
  /\ pc' = "linked"
  /\ UNCHANGED <<head, callback, pinVars, arg, isrVars>>

\* Mutant: init forgets the next pointer.
StoreNext_Forgets ==
  /\ MainRuns /\ pc = "callback"
  /\ registered' = Append(registered, arg)
  /\ pc' = "linked"
  /\ UNCHANGED <<head, callback, next, pinVars, arg, isrVars>>

StoreNext ==
  /\ MainRuns /\ pc = "callback"
  /\ next' = [next EXCEPT ![head] = head - 1]
  /\ registered' = Append(registered, arg)
  /\ pc' = "linked"
  /\ UNCHANGED <<head, callback, pinVars, arg, isrVars>>

\* the enable at the end of addInterruptCallback
EnableAfterAdd ==
  /\ MainRuns /\ pc = "linked"
  /\ attached' = TRUE /\ attachedMode' = mode
  /\ pc' = "idle"
  /\ arg' = Garbage
  /\ UNCHANGED <<chainVars, mode, isrVars, registered>>

\* enable and disable as ArduinoGateway's loop calls them around its serial
\* port, that is after setup has added callbacks: both act on the pin and
\* leave the chain alone
Enable ==
  /\ MainRuns /\ pc = "idle" /\ head # Null
  /\ attached' = TRUE /\ attachedMode' = mode
  /\ UNCHANGED <<chainVars, mode, pc, arg, isrVars, registered>>

Disable ==
  /\ MainRuns /\ pc = "idle" /\ head # Null
  /\ attached' = FALSE
  /\ UNCHANGED <<chainVars, mode, attachedMode, pc, arg, isrVars, registered>>

--------------------------------------------------------------------------------
(* The interrupt routine.                                                  *)

InterruptStart ==
  /\ isr = "idle" /\ attached
  /\ isr' = "walk"
  /\ current' = head
  /\ called' = <<>>
  /\ UNCHANGED <<chainVars, pinVars, pc, arg, registered>>

\* Mutant: the walk never moves to the next link; the calls it repeats are
\* not counted, so that the mutant stays finite.
CallCallback_Stuck ==
  /\ isr = "walk" /\ current # Null
  /\ callback[current] # Garbage /\ next[current] # Dangling
  /\ UNCHANGED vars

\* (current->callback)(); current = current->next
CallCallback ==
  /\ isr = "walk" /\ current # Null
  /\ callback[current] # Garbage /\ next[current] # Dangling
  /\ called' = Append(called, callback[current])
  /\ current' = next[current]
  /\ UNCHANGED <<chainVars, pinVars, pc, arg, isr, registered>>

\* A call through, or a step to, whatever malloc left in the link: from here
\* on the program can do anything, and the model stops.
CallGarbage ==
  /\ isr = "walk" /\ current # Null
  /\ callback[current] = Garbage \/ next[current] = Dangling
  /\ isr' = "wild"
  /\ UNCHANGED <<chainVars, pinVars, pc, arg, current, called, registered>>

InterruptEnd ==
  /\ isr = "walk" /\ current = Null
  /\ isr' = "idle"
  /\ called' = <<>>
  /\ UNCHANGED <<chainVars, pinVars, pc, arg, current, registered>>

AddStep == StoreCallback \/ StoreNext \/ EnableAfterAdd
IsrStep == CallCallback \/ CallGarbage \/ InterruptEnd

Next ==
  \/ \E m \in Modes : SetMode(m)
  \/ \E c \in Callbacks : PublishLink(c)
  \/ AddStep \/ Enable \/ Disable
  \/ InterruptStart \/ IsrStep

Spec == Init /\ [][Next]_vars

\* An interrupt routine that has started runs on.
FairSpec == Spec /\ WF_vars(IsrStep)

--------------------------------------------------------------------------------
TypeOK ==
  /\ head \in 0 .. MaxLinks
  /\ callback \in [Links -> Callbacks \cup {Garbage}]
  /\ next \in [Links -> 0 .. Dangling]
  /\ mode \in Modes /\ attachedMode \in Modes /\ attached \in BOOLEAN
  /\ pc \in {"idle", "published", "callback", "linked"}
  /\ arg \in Callbacks \cup {Garbage}
  /\ isr \in {"idle", "walk", "wild"}
  /\ current \in 0 .. MaxLinks
  /\ registered \in Seq(Callbacks) /\ called \in Seq(Callbacks)

\* "The callbacks are called in the reversed order in which they were added"
\* (InterruptChain.h:41): an interrupt that reaches the end of the chain has
\* made every registered callback once, the last one added first.
CalledInReverse ==
  isr = "walk" /\ current = Null =>
    /\ Len(called) = Len(registered)
    /\ \A k \in DOMAIN called : called[k] = registered[Len(registered) + 1 - k]

\* The interrupt routine runs into unwritten memory only while an add that
\* is not the first one is between its malloc and the end of init: a chain
\* that nobody is extending is safe, and so is the first add.
WildOnlyDuringAdd ==
  [][isr' = "wild" => pc \in {"published", "callback"} /\ head > 1]_vars

\* Every interrupt ends: the chain has no cycle.
InterruptsEnd == isr = "walk" ~> isr \in {"idle", "wild"}

================================================================================
