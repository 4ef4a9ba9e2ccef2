-------------------------- MODULE InterruptChainProofs --------------------------
(***************************************************************************)
(* Proofs about InterruptChain.cpp for every set of callbacks and every    *)
(* number of adds.  The argument: the link of the k-th add holds the k-th  *)
(* registered callback and leads to link k - 1, except for the link under  *)
(* construction (ChainShape); so a walk that stands at link c has made the *)
(* calls head, head - 1, ..., c + 1 (WalkShape).                           *)
(***************************************************************************)
EXTENDS InterruptChain, TLAPS

\* The link the main program is still filling in, if any.
UnderConstruction(l) == pc \in {"published", "callback"} /\ l = head

ChainShape ==
  /\ Len(registered) = IF pc \in {"published", "callback"} THEN head - 1 ELSE head
  /\ pc # "idle" => head # Null /\ arg \in Callbacks
  /\ \A l \in 1 .. head : ~UnderConstruction(l) =>
       callback[l] = registered[l] /\ next[l] = l - 1
  /\ \A l \in Links : l > head \/ UnderConstruction(l) => next[l] = Dangling
  /\ pc = "callback" => callback[head] = arg
  /\ attached => Len(registered) > 0

WalkShape ==
  isr = "walk" =>
    /\ attached
    /\ pc \in {"published", "callback"} => current = head
    /\ Len(called) + current = head
    /\ \A k \in DOMAIN called : called[k] = registered[head + 1 - k]

IInv == TypeOK /\ ChainShape /\ WalkShape

LEMMA InitIInv == Init => IInv
  <1> SUFFICES ASSUME Init PROVE IInv
    OBVIOUS
  <1> USE ChainAssumption DEF Init, Null
  <1>1. TypeOK
    <2>1. next \in [Links -> 0 .. Dangling]
      BY DEF Dangling
    <2>2. callback \in [Links -> Callbacks \cup {Garbage}]
      OBVIOUS
    <2>3. head \in 0 .. MaxLinks /\ current \in 0 .. MaxLinks
      OBVIOUS
    <2>4. registered \in Seq(Callbacks) /\ called \in Seq(Callbacks)
      OBVIOUS
    <2>5. QED
      BY <2>1, <2>2, <2>3, <2>4 DEF TypeOK
  <1>2. ChainShape
    <2>1. Len(registered) = 0 /\ 1 .. head = {}
      OBVIOUS
    <2>2. QED
      BY <2>1 DEF ChainShape, UnderConstruction, Links
  <1>3. WalkShape
    BY DEF WalkShape
  <1>4. QED
    BY <1>1, <1>2, <1>3 DEF IInv

LEMMA TypeStep == IInv /\ Next => TypeOK'
  <1> SUFFICES ASSUME IInv, Next PROVE TypeOK'
    OBVIOUS
  <1> USE ChainAssumption DEF IInv, TypeOK, Links, Null, Dangling, chainVars, pinVars, isrVars
  <1>1. ASSUME NEW m \in Modes, SetMode(m) PROVE TypeOK'
    BY <1>1 DEF SetMode
  <1>2. ASSUME NEW c \in Callbacks, PublishLink(c) PROVE TypeOK'
    BY <1>2 DEF PublishLink
  <1>3. CASE StoreCallback
    BY <1>3 DEF StoreCallback, ChainShape
  <1>4. CASE StoreNext
    <2>1. head \in Links /\ arg \in Callbacks
      BY <1>4 DEF StoreNext, ChainShape
    <2>2. next' \in [Links -> 0 .. Dangling]
      BY <1>4, <2>1 DEF StoreNext
    <2>3. QED
      BY <1>4, <2>1, <2>2 DEF StoreNext
  <1>5. CASE EnableAfterAdd
    BY <1>5 DEF EnableAfterAdd
  <1>6. CASE Enable \/ Disable
    BY <1>6 DEF Enable, Disable
  <1>7. CASE InterruptStart
    BY <1>7 DEF InterruptStart
  <1>8. CASE CallCallback
    <2>1. current \in Links
      BY <1>8 DEF CallCallback
    <2>2. callback[current] \in Callbacks
      BY <1>8, <2>1 DEF CallCallback
    <2>3. next[current] \in 0 .. MaxLinks
      <3>1. next[current] \in 0 .. MaxLinks + 1 /\ next[current] # MaxLinks + 1
        BY <1>8, <2>1 DEF CallCallback
      <3>2. QED
        BY <3>1
    <2>4. QED
      BY <1>8, <2>2, <2>3 DEF CallCallback
  <1>9. CASE CallGarbage \/ InterruptEnd
    <2>1. CASE CallGarbage
      BY <2>1 DEF CallGarbage
    <2>2. CASE InterruptEnd
      <3>1. called' \in Seq(Callbacks)
        BY <2>2 DEF InterruptEnd
      <3>2. QED
        BY <2>2, <3>1 DEF InterruptEnd
    <2>3. QED
      BY <1>9, <2>1, <2>2
  <1> HIDE DEF TypeOK, IInv
  <1>10. QED
    BY <1>1, <1>2, <1>3, <1>4, <1>5, <1>6, <1>7, <1>8, <1>9
       DEF Next, AddStep, IsrStep

LEMMA ChainStep == IInv /\ Next => ChainShape'
  <1> SUFFICES ASSUME IInv, Next PROVE ChainShape'
    OBVIOUS
  <1> USE ChainAssumption DEF IInv, ChainShape, UnderConstruction, Null, chainVars, pinVars
  <1>0. /\ head \in Nat /\ registered \in Seq(Callbacks)
        /\ callback \in [Links -> Callbacks \cup {Garbage}]
        /\ next \in [Links -> 0 .. Dangling]
        /\ head <= MaxLinks /\ pc \in {"idle", "published", "callback", "linked"}
    BY DEF TypeOK
  <1>1. ASSUME NEW m \in Modes, SetMode(m) PROVE ChainShape'
    BY <1>0, <1>1 DEF SetMode
  <1>2. ASSUME NEW c \in Callbacks, PublishLink(c) PROVE ChainShape'
    <2>1. /\ pc = "idle" /\ pc' = "published" /\ head' = head + 1 /\ arg' = c
          /\ UNCHANGED <<callback, next, attached, registered>>
          /\ head' \in Links /\ Len(registered) = head
      BY <1>0, <1>2 DEF PublishLink, Links
    <2>2. \A l \in 1 .. head' : l # head' => callback[l] = registered[l] /\ next[l] = l - 1
      BY <1>0, <2>1
    <2>3. \A l \in Links : l >= head' => next[l] = Dangling
      BY <1>0, <2>1 DEF Links
    <2>4. QED
      BY <1>0, <2>1, <2>2, <2>3 DEF Links
  <1>3. CASE StoreCallback
    <2>1. /\ head \in Links /\ Len(registered) = head - 1 /\ pc = "published"
          /\ pc' = "callback" /\ callback' = [callback EXCEPT ![head] = arg]
          /\ UNCHANGED <<head, next, attached, arg, registered>>
      BY <1>0, <1>3 DEF StoreCallback, Links
    <2>2. callback'[head] = arg /\ \A l \in 1 .. head : l # head => callback'[l] = callback[l]
      BY <1>0, <2>1 DEF Links
    <2>3. QED
      BY <1>0, <2>1, <2>2
  <1>4. CASE StoreNext
    <2>1. /\ head \in Links /\ arg \in Callbacks /\ Len(registered) = head - 1
          /\ registered' = Append(registered, arg) /\ pc' = "linked"
          /\ next' = [next EXCEPT ![head] = head - 1]
          /\ UNCHANGED <<head, callback, attached, arg>>
          /\ callback[head] = arg
      BY <1>0, <1>4 DEF StoreNext, Links
    <2>2. Len(registered') = head /\ registered'[head] = arg
      BY <1>0, <2>1
    <2>3. \A l \in 1 .. head - 1 : registered'[l] = registered[l]
      BY <1>0, <2>1
    <2>4. next'[head] = head - 1 /\ \A l \in 1 .. head - 1 : next'[l] = next[l]
      BY <1>0, <2>1 DEF Links
    <2>5. \A l \in 1 .. head' : callback'[l] = registered'[l] /\ next'[l] = l - 1
      <3> TAKE l \in 1 .. head'
      <3>1. CASE l = head
        BY <3>1, <2>1, <2>2, <2>4
      <3>2. CASE l # head
        <4>1. l \in 1 .. head - 1 /\ callback[l] = registered[l] /\ next[l] = l - 1
          BY <3>2, <2>1, <1>0
        <4>2. QED
          BY <4>1, <2>1, <2>3, <2>4
      <3>3. QED
        BY <3>1, <3>2
    <2>6. \A l \in Links : l > head => next'[l] = Dangling
      BY <1>0, <2>1 DEF Links
    <2>7. QED
      BY <2>1, <2>2, <2>5, <2>6, <1>0
  <1>5. CASE EnableAfterAdd
    BY <1>0, <1>5 DEF EnableAfterAdd
  <1>6. CASE Enable \/ Disable
    BY <1>0, <1>6 DEF Enable, Disable
  <1>7. CASE InterruptStart \/ IsrStep
    BY <1>7 DEF InterruptStart, IsrStep, CallCallback, CallGarbage, InterruptEnd
  <1> HIDE DEF ChainShape, IInv
  <1>8. QED
    BY <1>1, <1>2, <1>3, <1>4, <1>5, <1>6, <1>7 DEF Next, AddStep

LEMMA WalkStep == IInv /\ Next => WalkShape'
  <1> SUFFICES ASSUME IInv, Next, isr' = "walk" PROVE WalkShape'
    BY DEF WalkShape
  <1> USE DEF IInv, WalkShape, Null, chainVars, pinVars, isrVars
  <1>1. CASE InterruptStart
    BY <1>1 DEF InterruptStart, TypeOK
  <1>2. CASE CallCallback
    <2>1. /\ isr = "walk" /\ current # 0 /\ next[current] # Dangling
          /\ called' = Append(called, callback[current]) /\ current' = next[current]
          /\ UNCHANGED <<head, registered, attached, isr>>
          /\ called \in Seq(Callbacks) /\ callback[current] \in Callbacks
          /\ current \in 1 .. head /\ head \in Nat
          /\ Len(called) + current = head
      <3>1. isr = "walk" /\ current # 0 /\ callback[current] # Garbage
            /\ next[current] # Dangling
            /\ called' = Append(called, callback[current]) /\ current' = next[current]
            /\ UNCHANGED <<head, registered, attached, isr>>
        BY <1>2 DEF CallCallback
      <3>2. called \in Seq(Callbacks) /\ head \in 0 .. MaxLinks /\ current \in 0 .. MaxLinks
            /\ callback \in [Links -> Callbacks \cup {Garbage}]
        BY DEF TypeOK
      <3>3. Len(called) + current = head
        BY <3>1
      <3> HIDE DEF IInv, WalkShape, Null, chainVars, pinVars, isrVars
      <3>4. current \in 1 .. head /\ current \in Links /\ head \in Nat
        BY <3>1, <3>2, <3>3, ChainAssumption DEF Links
      <3>5. QED
        BY <3>1, <3>2, <3>3, <3>4
    <2>2. callback[current] = registered[current] /\ next[current] = current - 1
      <3>1. CASE ~UnderConstruction(current)
        BY <3>1, <2>1 DEF ChainShape
      <3>2. CASE UnderConstruction(current)
        <4>1. current \in Links
          BY <2>1 DEF TypeOK, Links
        <4>2. QED
          BY <3>2, <2>1, <4>1 DEF ChainShape
      <3>3. QED
        BY <3>1, <3>2
    <2> HIDE DEF IInv, WalkShape, Null, chainVars, pinVars, isrVars
    <2>3. Len(called') + current' = head'
      BY <2>1, <2>2
    <2>4. \A k \in DOMAIN called' : called'[k] = registered'[head' + 1 - k]
      <3> TAKE k \in DOMAIN called'
      <3>1. CASE k = Len(called) + 1
        <4>1. called'[k] = registered[current] /\ head + 1 - k = current
          BY <3>1, <2>1, <2>2
        <4>2. QED
          BY <4>1, <2>1
      <3>2. CASE k # Len(called) + 1
        <4>1. k \in DOMAIN called /\ called'[k] = called[k]
          BY <3>2, <2>1
        <4>2. called[k] = registered[head + 1 - k]
          BY <4>1, <2>1 DEF IInv, WalkShape
        <4>3. QED
          BY <4>1, <4>2, <2>1
      <3>3. QED
        BY <3>1, <3>2
    <2>5. pc' \notin {"published", "callback"}
      BY <1>2, <2>1 DEF IInv, WalkShape, CallCallback, ChainShape, UnderConstruction,
                        TypeOK, Links
    <2>6. QED
      BY <2>1, <2>3, <2>4, <2>5 DEF IInv, WalkShape
  <1>3. CASE ~InterruptStart /\ ~CallCallback
    BY <1>3 DEF Next, SetMode, PublishLink, AddStep, StoreCallback, StoreNext, MainRuns,
       EnableAfterAdd, Enable, Disable, IsrStep, CallGarbage, InterruptEnd
  <1>4. QED
    BY <1>1, <1>2, <1>3

LEMMA NextIInv == IInv /\ [Next]_vars => IInv'
  <1>1. IInv /\ Next => IInv'
    BY TypeStep, ChainStep, WalkStep DEF IInv
  <1>2. IInv /\ UNCHANGED vars => IInv'
    BY DEF IInv, TypeOK, ChainShape, WalkShape, UnderConstruction, vars, chainVars,
       pinVars, isrVars
  <1>3. QED
    BY <1>1, <1>2

\* The shape of the chain and of the walk, in every reachable state.
THEOREM ChainInvariant == Spec => []IInv
  BY InitIInv, NextIInv, PTL DEF Spec

\* Type correctness of the chain.
THEOREM TypeCorrect == Spec => []TypeOK
  <1>1. IInv => TypeOK
    BY DEF IInv
  <1>2. QED
    BY <1>1, ChainInvariant, PTL

\* An interrupt that reaches the end of the chain has called every registered
\* callback exactly once, the newest first, however many were added.
THEOREM ReverseOrder == Spec => []CalledInReverse
  <1>1. IInv => CalledInReverse
    <2> SUFFICES ASSUME IInv, isr = "walk", current = 0
                 PROVE  /\ Len(called) = Len(registered)
                        /\ \A k \in DOMAIN called :
                             called[k] = registered[Len(registered) + 1 - k]
      BY DEF CalledInReverse, Null
    <2>1. Len(called) = head /\ head \in Nat
      BY DEF IInv, WalkShape, TypeOK
    <2>2. Len(registered) = head
      <3>1. CASE pc \in {"published", "callback"}
        BY <3>1 DEF IInv, WalkShape, ChainShape, Null
      <3>2. CASE pc \notin {"published", "callback"}
        BY <3>2 DEF IInv, ChainShape
      <3>3. QED
        BY <3>1, <3>2
    <2>3. QED
      BY <2>1, <2>2 DEF IInv, WalkShape
  <1>2. QED
    BY <1>1, ChainInvariant, PTL

\* The interrupt routine leaves the registered links only while an add that
\* is not the first is between its malloc and the end of its init.
THEOREM WildIsConfined == Spec => WildOnlyDuringAdd
  <1> DEFINE Step == isr' = "wild" => pc \in {"published", "callback"} /\ head > 1
  <1>1. IInv /\ [Next]_vars => [Step]_vars
    <2> SUFFICES ASSUME IInv, Next, isr' = "wild"
                 PROVE  pc \in {"published", "callback"} /\ head > 1
      OBVIOUS
    <2>1. CallGarbage
      BY DEF Next, SetMode, PublishLink, AddStep, StoreCallback, StoreNext, EnableAfterAdd,
         Enable, Disable, MainRuns, InterruptStart, IsrStep, CallCallback, InterruptEnd,
         isrVars
    <2>2. QED
      <3>1. /\ current \in 1 .. head /\ head \in Nat /\ head <= MaxLinks
            /\ Len(registered) > 0
        BY <2>1 DEF CallGarbage, IInv, ChainShape, WalkShape, TypeOK, Null
      <3>2. UnderConstruction(current)
        <4> SUFFICES ASSUME ~UnderConstruction(current) PROVE FALSE
          OBVIOUS
        <4>1. callback[current] = registered[current] /\ next[current] = current - 1
          BY <3>1 DEF IInv, ChainShape
        <4>2. Len(registered) >= current
          BY <3>1 DEF IInv, ChainShape, UnderConstruction
        <4>3. registered[current] \in Callbacks
          BY <3>1, <4>2 DEF IInv, TypeOK
        <4>4. QED
          BY <2>1, <3>1, <4>1, <4>3, ChainAssumption DEF CallGarbage, Dangling
      <3>3. QED
        BY <3>1, <3>2 DEF UnderConstruction, IInv, ChainShape
  <1>2. QED
    BY <1>1, ChainInvariant, PTL DEF Spec, WildOnlyDuringAdd
================================================================================
