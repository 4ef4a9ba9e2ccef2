----------------------------- MODULE KakuLinkProofs -----------------------------
(***************************************************************************)
(* For every field width, every limit and every sequence of edges, a code  *)
(* is passed to the callback only when it has been received MinRepeats     *)
(* times in a row since the last sync, the byte that counts it never       *)
(* wraps, and the code is the one whose frame was heard.                   *)
(*                                                                         *)
(* In a row: the code's counter, a byte that is reset when another code    *)
(* comes and at every sync, is compared with the history variable row,     *)
(* which counts in the naturals.  They are equal because outside state -1  *)
(* the counter stays below MinRepeats, so that one more repetition fits in *)
(* the byte, and because the last frame since the sync, if any, is         *)
(* previousCode.                                                           *)
(*                                                                         *)
(* What was heard: in every state that awaits a part of a bit, the parts   *)
(* heard since the start pulse are those the transmitter would send for    *)
(* the bits decoded so far, followed by the parts of the bit that is not   *)
(* complete.  Doubling a number and adding a bit, as the receiver does, is *)
(* sending one more bit, as the transmitter does; that is a fact about     *)
(* RightShift and FlattenSeq, two recursive functions, and is proved from  *)
(* the least argument at which it would fail.                              *)
(*                                                                         *)
(* On the air: with no glitch and no noise, and silences that the receiver *)
(* measures as such, every command is delivered, whatever the press before *)
(* has left in the receiver.  It waits for a sync or stands exactly where  *)
(* the sender is (InStep), so that each frame but the first two counts for *)
(* one repetition more (Counting), and a delivery takes MinRepeats of them *)
(* and a sync (NotOften).                                                  *)
(***************************************************************************)
EXTENDS KakuLink, WellFoundedInduction, SequenceTheorems, TLAPS

RowIsCounted ==
  /\ repeats = row
  /\ lastFrame \subseteq {previous}
  /\ lastFrame = {} => row = 0

CountLeavesRoom == state /= -1 => repeats < MinRepeats

IInv == TypeOK /\ RowIsCounted /\ CountLeavesRoom /\ CalledOnlyInARow

\* Arithmetic in unsigned int stays in the naturals.
LEMMA UnsignedNat == ASSUME NEW x \in Nat PROVE U(x) \in Nat
  BY ReceiverAssumption DEF ReceiverAssumption, U

\* The state numbers are positions in a frame.
LEMMA StateNumbers ==
  /\ AddressEnd \in Nat /\ GroupEnd \in Nat /\ SwitchEnd \in Nat
  /\ UnitEnd \in Nat /\ DimEnd \in Nat
  /\ DimEnd + 1 < ShortMax /\ ShortMax \in Nat
  BY FrameAssumption, ReceiverAssumption
  DEF FrameAssumption, ReceiverAssumption, AddressEnd, GroupEnd, SwitchEnd, UnitEnd, DimEnd

LEMMA InitInv == Init => IInv
  <1> SUFFICES ASSUME Init PROVE IInv
    OBVIOUS
  <1>1. state \in -ShortMax - 1 .. ShortMax
    BY StateNumbers DEF Init
  <1>2. NoCode \in Codes
    BY DEF NoCode, Codes
  <1>3. <<>> \in Seq({S, L})
    OBVIOUS
  <1>4. TypeOK
    <2>1. code \in Codes /\ previous \in Codes
      BY <1>2 DEF Init
    <2>2. parts \in Seq({S, L}) /\ heard \in Seq({S, L})
      BY <1>3 DEF Init
    <2>3. /\ lastFrame \subseteq Codes /\ called \subseteq Codes
          /\ enabled \in BOOLEAN /\ skip \in BOOLEAN
      BY Zenon DEF Init
    <2>4. /\ period \in Nat /\ acc \in Nat /\ gap \in Nat /\ row \in Nat
          /\ repeats \in 0 .. 255
      BY DEF Init
    <2>5. QED
      BY <1>1, <2>1, <2>2, <2>3, <2>4, Zenon DEF TypeOK
  <1>5. QED
    BY <1>4 DEF Init, IInv, RowIsCounted, CountLeavesRoom, CalledOnlyInARow

--------------------------------------------------------------------------------
(* What an edge does to the time stamps, and Reset to the rest.            *)

TimingOK == acc \in Nat /\ gap \in Nat /\ skip \in BOOLEAN

LEMMA ForgetType == ASSUME TypeOK, Forget
                    PROVE  parts' = <<>> /\ heard' = <<>> /\ code' \in Codes
  BY DEF Forget, TypeOK, Codes, NoCode

\* A step that leaves the repetition alone and calls nothing.
LEMMA RestPreserved ==
  ASSUME IInv, UNCHANGED repetition, called' = {},
         state' = -1 \/ state /= -1,
         enabled' \in BOOLEAN, TimingOK',
         state' \in -ShortMax - 1 .. ShortMax,
         parts' \in Seq({S, L}), heard' \in Seq({S, L}),
         code' \in Codes, period' \in Nat
  PROVE  IInv'
  <1>1. TypeOK'
    BY DEF IInv, TypeOK, TimingOK, repetition
  <1>2. RowIsCounted' /\ CountLeavesRoom' /\ CalledOnlyInARow'
    BY DEF IInv, RowIsCounted, CountLeavesRoom, CalledOnlyInARow, repetition
  <1>3. QED
    BY <1>1, <1>2 DEF IInv

LEMMA ResetInv == ASSUME IInv, Reset, TimingOK' PROVE IInv'
  <1>1. parts' = <<>> /\ heard' = <<>> /\ code' \in Codes
    BY ForgetType DEF Reset, IInv
  <1>2. -1 \in -ShortMax - 1 .. ShortMax
    BY StateNumbers
  <1>3. <<>> \in Seq({S, L})
    OBVIOUS
  <1>4. enabled \in BOOLEAN /\ period \in Nat
    BY DEF IInv, TypeOK
  <1>5. QED
    BY <1>1, <1>2, <1>3, <1>4, RestPreserved DEF Reset

--------------------------------------------------------------------------------
(* Every step keeps the invariant.                                         *)

LEMMA TimingStep ==
  ASSUME TypeOK, NEW g \in Nat, EdgeSkipped(g) \/ EdgeTooEarly(g) \/ EdgeCounts(g)
  PROVE  TimingOK'
  <1>1. acc \in Nat /\ gap \in Nat /\ acc + gap \in Nat
    BY DEF TypeOK
  <1>2. (acc' = acc + gap \/ acc' = 0) /\ gap' = g /\ skip' \in BOOLEAN
    BY DEF EdgeSkipped, EdgeTooEarly, EdgeCounts
  <1>3. QED
    BY <1>1, <1>2 DEF TimingOK

LEMMA DurationType == ASSUME TypeOK PROVE Duration \in Nat
  <1>1. acc + gap \in Nat
    BY DEF TypeOK
  <1>2. QED
    BY <1>1, UnsignedNat DEF Duration

\* The states that expect an interval: an Append keeps parts and heard typed.
LEMMA PartType ==
  ASSUME TypeOK
  PROVE  Append(parts, Part) \in Seq({S, L}) /\ Append(heard, Part) \in Seq({S, L})
  <1>1. Part \in {S, L}
    BY DEF Part
  <1>2. parts \in Seq({S, L}) /\ heard \in Seq({S, L})
    BY DEF TypeOK
  <1>3. QED
    BY <1>1, <1>2

LEMMA WithBitType ==
  ASSUME code \in Codes, NEW b \in {0, 1}
  PROVE  WithBit(b) \in Codes
  <1>1. [code EXCEPT !.address = 2 * @ + b] \in Codes
    BY DEF Codes
  <1>2. [code EXCEPT !.group = (b = 1)] \in Codes
    BY DEF Codes
  <1>3. [code EXCEPT !.switch = IF b = 1 THEN "on" ELSE "off"] \in Codes
    BY DEF Codes
  <1>4. [code EXCEPT !.unit = 2 * @ + b] \in Codes
    BY DEF Codes
  <1>5. [code EXCEPT !.dim = 2 * @ + b] \in Codes
    BY DEF Codes
  <1>6. QED
    BY <1>1, <1>2, <1>3, <1>4, <1>5, Zenon DEF WithBit

LEMMA SyncInv == ASSUME IInv, Sync, TimingOK' PROVE IInv'
  <1>1. period' \in Nat
    BY DurationType DEF Sync, IInv
  <1>2. 0 \in -ShortMax - 1 .. ShortMax
    BY StateNumbers
  <1>3. TypeOK'
    BY <1>1, <1>2 DEF IInv, TypeOK, TimingOK, Sync
  <1>4. RowIsCounted' /\ CalledOnlyInARow'
    BY DEF Sync, RowIsCounted, CalledOnlyInARow
  <1>5. CountLeavesRoom'
    BY ReceiverAssumption DEF Sync, CountLeavesRoom, ReceiverAssumption
  <1>6. QED
    BY <1>3, <1>4, <1>5 DEF IInv

LEMMA StartInv ==
  ASSUME IInv, StartHigh \/ StartLow \/ WaitForSync, TimingOK'
  PROVE  IInv'
  <1>1. parts \in Seq({S, L}) /\ heard \in Seq({S, L}) /\ code \in Codes
        /\ period \in Nat /\ enabled \in BOOLEAN
    BY DEF IInv, TypeOK
  <1>2. CASE StartHigh
    <2>1. parts' = <<>> /\ heard' = <<>> /\ code' \in Codes
      BY <1>2, ForgetType DEF StartHigh, IInv
    <2>2. 1 \in -ShortMax - 1 .. ShortMax
      BY StateNumbers
    <2>3. <<>> \in Seq({S, L})
      OBVIOUS
    <2>4. QED
      BY <1>1, <1>2, <2>1, <2>2, <2>3, RestPreserved DEF StartHigh
  <1>3. CASE StartLow
    <2>1. 2 \in -ShortMax - 1 .. ShortMax
      BY StateNumbers
    <2>2. QED
      BY <1>1, <1>3, <2>1, RestPreserved DEF StartLow
  <1>4. CASE WaitForSync
    <2>1. -1 \in -ShortMax - 1 .. ShortMax
      BY StateNumbers
    <2>2. QED
      BY <1>1, <1>4, <2>1, RestPreserved DEF WaitForSync
  <1>5. QED
    BY <1>2, <1>3, <1>4

LEMMA BitInv ==
  ASSUME IInv, BitPart \/ BitEnd, TimingOK'
  PROVE  IInv'
  <1>1. state \in 2 .. DimEnd + 1
    BY DEF BitPart, BitEnd, InBits
  <1>2. state + 1 \in -ShortMax - 1 .. ShortMax /\ state /= -1 /\ state + 1 /= -1
    BY <1>1, StateNumbers
  <1>3. code \in Codes /\ period \in Nat /\ enabled \in BOOLEAN
    BY DEF IInv, TypeOK
  <1>4. CASE BitPart
    BY <1>2, <1>3, <1>4, PartType, RestPreserved DEF BitPart, IInv
  <1>5. CASE BitEnd
    <2>1. code' \in Codes
      <3>1. CASE \E b \in {0, 1} : code' = WithBit(b)
        BY <1>3, <3>1, WithBitType
      <3>2. CASE code' = [code EXCEPT !.switch = "dim"]
        BY <1>3, <3>2 DEF Codes
      <3>3. QED
        BY <1>5, <3>1, <3>2 DEF BitEnd
    <2>2. <<>> \in Seq({S, L})
      OBVIOUS
    <2>3. QED
      BY <1>2, <1>3, <1>5, <2>1, <2>2, PartType, RestPreserved DEF BitEnd, IInv
  <1>6. QED
    BY <1>4, <1>5

\* A complete frame: the only step that counts a repetition, and the only one
\* that calls the callback.
LEMMA FrameEndInv == ASSUME IInv, FrameEnd, TimingOK' PROVE IInv'
  <1> DEFINE frame == IF state = DimEnd + 1 THEN [code EXCEPT !.dimPresent = TRUE] ELSE code
             count == IF frame = previous THEN (repeats + 1) % 256 ELSE 1
  <1>1. /\ code' = frame /\ previous' = frame /\ repeats' = count /\ lastFrame' = {frame}
        /\ row' = IF frame \in lastFrame THEN row + 1 ELSE 1
        /\ \/ count >= MinRepeats /\ state' = -1 /\ called' = {frame}
           \/ ~(count >= MinRepeats) /\ state' = 0 /\ called' = {}
        /\ parts' = <<>> /\ UNCHANGED <<enabled, period, heard>>
    BY DEF FrameEnd
  <1>2. repeats \in 0 .. 255 /\ repeats < MinRepeats /\ MinRepeats \in 1 .. 255
    <2>1. state \in 2 .. DimEnd + 1
      BY DEF FrameEnd, InBits
    <2>2. state /= -1
      BY <2>1
    <2>3. QED
      BY <2>2, ReceiverAssumption DEF IInv, TypeOK, CountLeavesRoom, ReceiverAssumption
  <1>3. (repeats + 1) % 256 = repeats + 1
    BY <1>2
  <1>4. frame \in Codes
    <2>1. code \in Codes
      BY DEF IInv, TypeOK
    <2>2. [code EXCEPT !.dimPresent = TRUE] \in Codes
      BY <2>1 DEF Codes
    <2>3. QED
      BY <2>1, <2>2
  <1>5. count \in 1 .. 255
    BY <1>2, <1>3
  <1>6. row' = count
    <2>1. repeats = row /\ lastFrame \subseteq {previous} /\ (lastFrame = {} => row = 0)
      BY DEF IInv, RowIsCounted
    <2>2. CASE frame \in lastFrame
      BY <1>1, <1>3, <2>1, <2>2
    <2>3. CASE frame \notin lastFrame /\ frame = previous
      <3>1. lastFrame = {}
        BY <2>1, <2>3
      <3>2. QED
        BY <1>1, <1>3, <2>1, <2>3, <3>1
    <2>4. CASE frame \notin lastFrame /\ frame /= previous
      BY <1>1, <2>4
    <2>5. QED
      BY <2>2, <2>3, <2>4
  <1> HIDE DEF frame, count
  <1>7. TypeOK'
    <2>1. state' \in -ShortMax - 1 .. ShortMax
      <3>1. -1 \in -ShortMax - 1 .. ShortMax /\ 0 \in -ShortMax - 1 .. ShortMax
        BY StateNumbers
      <3>2. QED
        BY <1>1, <3>1
    <2>2. <<>> \in Seq({S, L})
      OBVIOUS
    <2>3. parts' \in Seq({S, L}) /\ heard' \in Seq({S, L}) /\ enabled' \in BOOLEAN /\ period' \in Nat
      BY <1>1, <2>2 DEF IInv, TypeOK
    <2>4. code' \in Codes /\ previous' \in Codes /\ lastFrame' \subseteq Codes /\ called' \subseteq Codes
      BY <1>1, <1>4
    <2>5. row' \in Nat /\ repeats' \in 0 .. 255
      BY <1>1, <1>5, <1>6
    <2>6. QED
      BY <2>1, <2>3, <2>4, <2>5 DEF TypeOK, TimingOK
  <1>8. RowIsCounted'
    BY <1>1, <1>6 DEF RowIsCounted
  <1>9. CountLeavesRoom'
    BY <1>1, <1>2, <1>5 DEF CountLeavesRoom
  <1>10. CalledOnlyInARow'
    BY <1>1, <1>6 DEF CalledOnlyInARow
  <1>11. QED
    BY <1>7, <1>8, <1>9, <1>10 DEF IInv

LEMMA OverrunInv ==
  ASSUME IInv, Overrun \/ NegativeState, TimingOK'
  PROVE  IInv'
  <1>1. parts \in Seq({S, L}) /\ heard \in Seq({S, L}) /\ code \in Codes
        /\ period \in Nat /\ enabled \in BOOLEAN /\ state \in -ShortMax - 1 .. ShortMax
    BY DEF IInv, TypeOK
  <1>2. CASE Overrun
    <2>1. parts' = <<>> /\ heard' = <<>> /\ code' \in Codes
      BY <1>2, ForgetType DEF Overrun, IInv
    <2>2. state' \in -ShortMax - 1 .. ShortMax /\ state /= -1
      BY <1>1, <1>2, StateNumbers DEF Overrun
    <2>3. <<>> \in Seq({S, L})
      OBVIOUS
    <2>4. QED
      BY <1>1, <1>2, <2>1, <2>2, <2>3, RestPreserved DEF Overrun
  <1>3. CASE NegativeState
    <2>1. CASE IsShort \/ IsLong
      <3>1. state' = state + 1 /\ state < -1
        BY <1>3, <2>1 DEF NegativeState
      <3>2. state' \in -ShortMax - 1 .. ShortMax /\ state /= -1
        BY <1>1, <3>1, StateNumbers
      <3>3. QED
        BY <1>1, <1>3, <2>1, <3>2, RestPreserved DEF NegativeState
    <2>2. CASE ~(IsShort \/ IsLong)
      BY <1>3, <2>2, ResetInv DEF NegativeState
    <2>3. QED
      BY <2>1, <2>2
  <1>4. QED
    BY <1>2, <1>3

LEMMA IgnoredInv ==
  ASSUME IInv, NEW g \in Nat, EdgeSkipped(g) \/ EdgeTooEarly(g)
  PROVE  IInv'
  <1>1. TimingOK'
    BY TimingStep DEF IInv
  <1>2. UNCHANGED <<enabled, state, parts, code, period, repetition, heard>> /\ called' = {}
    BY DEF EdgeSkipped, EdgeTooEarly
  <1>3. parts \in Seq({S, L}) /\ heard \in Seq({S, L}) /\ code \in Codes
        /\ period \in Nat /\ enabled \in BOOLEAN /\ state \in -ShortMax - 1 .. ShortMax
    BY DEF IInv, TypeOK
  <1>4. QED
    BY <1>1, <1>2, <1>3, RestPreserved

LEMMA EdgeInv == ASSUME IInv, NEW g \in Nat, Edge(g) PROVE IInv'
  <1>1. CASE EdgeSkipped(g) \/ EdgeTooEarly(g)
    BY <1>1, IgnoredInv
  <1>2. CASE EdgeCounts(g) /\ Interpret
    <2>1. TimingOK'
      BY <1>2, TimingStep DEF IInv
    <2>2. StartWrong \/ BitWrong => Reset
      BY DEF StartWrong, BitWrong
    <2>3. QED
      BY <1>2, <2>1, <2>2, ResetInv, SyncInv, StartInv, BitInv, FrameEndInv, OverrunInv
      DEF Interpret
  <1>3. QED
    BY <1>1, <1>2 DEF Edge

LEMMA AbleInv == ASSUME IInv, Enable \/ Disable PROVE IInv'
  <1>1. TimingOK'
    BY DEF IInv, TypeOK, TimingOK, Enable, Disable, timing
  <1>2. parts \in Seq({S, L}) /\ heard \in Seq({S, L}) /\ code \in Codes
        /\ period \in Nat /\ state \in -ShortMax - 1 .. ShortMax
    BY DEF IInv, TypeOK
  <1>3. CASE Enable
    <2>1. parts' = <<>> /\ heard' = <<>> /\ code' \in Codes
      BY <1>3, ForgetType DEF Enable, IInv
    <2>2. -1 \in -ShortMax - 1 .. ShortMax
      BY StateNumbers
    <2>3. <<>> \in Seq({S, L})
      OBVIOUS
    <2>4. QED
      BY <1>1, <1>2, <1>3, <2>1, <2>2, <2>3, RestPreserved DEF Enable
  <1>4. CASE Disable
    BY <1>1, <1>2, <1>4, RestPreserved DEF Disable
  <1>5. QED
    BY <1>3, <1>4

LEMMA NextInv == IInv /\ [Next]_receiverVars => IInv'
  <1> SUFFICES ASSUME IInv, [Next]_receiverVars PROVE IInv'
    OBVIOUS
  <1>1. CASE Next
    <2>1. Gaps \subseteq Nat
      BY ReceiverAssumption DEF ReceiverAssumption
    <2>2. QED
      BY <1>1, <2>1, EdgeInv, AbleInv DEF Next
  <1>2. CASE UNCHANGED receiverVars
    BY <1>2 DEF receiverVars, timing, repetition, IInv, TypeOK, RowIsCounted,
                CountLeavesRoom, CalledOnlyInARow
  <1>3. QED
    BY <1>1, <1>2

THEOREM Invariant == Spec => []IInv
  BY InitInv, NextInv, PTL DEF Spec

\* Every variable keeps its type; in particular the counter of repetitions
\* stays in its byte and the state in its short.
THEOREM TypeCorrect == Spec => []TypeOK
  BY Invariant, PTL DEF IInv

\* kakuReceiver.h:59: the callback is called only after the same code has come
\* MinRepeats times in a row.
THEOREM InARow == Spec => []CalledOnlyInARow
  BY Invariant, PTL DEF IInv

\* While a frame is being received there is room for one more repetition.
THEOREM NoLateRepetition == Spec => []RepeatsBelowLimit
  <1>1. IInv => RepeatsBelowLimit
    BY DEF IInv, TypeOK, CountLeavesRoom, RepeatsBelowLimit
  <1>2. QED
    BY <1>1, Invariant, PTL

--------------------------------------------------------------------------------
(* RightShift of a number with one bit more.                               *)

\* What the definition of shifted says of a function.
IsShift(f, v, n) ==
  f = [i \in 0 .. n |-> IF i = 0 THEN v ELSE f[i - 1] \div 2]

\* The least counterexample to a claim about the naturals.  It stands in for
\* induction in what follows.
LEMMA Least ==
  ASSUME NEW T, T \subseteq Nat, T /= {}
  PROVE  \E x \in T : \A y \in T : x <= y
  <1>1. IsWellFoundedOn(OpToRel(<,Nat), Nat)
    BY NatLessThanWellFounded
  <1>2. PICK x \in T : \A y \in T : ~ (<<y, x>> \in OpToRel(<,Nat))
    BY <1>1, WFMin
  <1>3. \A y \in T : ~(y < x)
    BY <1>2 DEF OpToRel
  <1>4. QED
    BY <1>3

\* There is such a function,
LEMMA ShiftExists ==
  ASSUME NEW v \in Nat, NEW n \in Nat
  PROVE  \E f : IsShift(f, v, n)
  <1> DEFINE Bad == {m \in Nat : ~ \E f : IsShift(f, v, m)}
  <1> SUFFICES ASSUME Bad /= {} PROVE FALSE
    OBVIOUS
  <1>1. PICK m \in Bad : \A k \in Bad : m <= k
    <2> HIDE DEF Bad
    <2>1. Bad \subseteq Nat
      BY DEF Bad
    <2> QED BY <2>1, Least
  <1>2. CASE m = 0
    <2>1. IsShift([i \in 0 .. 0 |-> v], v, 0)
      BY DEF IsShift
    <2> QED BY <1>1, <1>2, <2>1
  <1>3. CASE m > 0
    <2>1. m - 1 \in Nat /\ m - 1 \notin Bad
      BY <1>1, <1>3
    <2>2. PICK f : IsShift(f, v, m - 1)
      BY <2>1
    <2> DEFINE g == [i \in 0 .. m |-> IF i = m THEN f[m - 1] \div 2 ELSE f[i]]
    <2>3. ASSUME NEW i \in 0 .. m
          PROVE  g[i] = IF i = 0 THEN v ELSE g[i - 1] \div 2
      BY <2>2, <1>3 DEF IsShift
    <2>4. g = [i \in 0 .. m |-> g[i]]
      OBVIOUS
    <2>5. IsShift(g, v, m)
      <3> HIDE DEF g
      <3> QED BY <2>3, <2>4 DEF IsShift
    <2> QED BY <1>1, <2>5
  <1>4. QED BY <1>1, <1>2, <1>3

\* and only one.
LEMMA ShiftUnique ==
  ASSUME NEW v \in Nat, NEW n \in Nat,
         NEW f, IsShift(f, v, n), NEW g, IsShift(g, v, n)
  PROVE  f[n] = g[n]
  <1> DEFINE Differ == {i \in 0 .. n : f[i] /= g[i]}
  <1>1. SUFFICES ASSUME Differ /= {} PROVE FALSE
    OBVIOUS
  <1>2. PICK i \in Differ : \A j \in Differ : i <= j
    <2>1. Differ \subseteq Nat
      OBVIOUS
    <2> HIDE DEF Differ
    <2>2. QED
      BY <1>1, <2>1, Least
  <1>3. i \in 0 .. n /\ f[i] /= g[i]
    BY <1>2
  <1>4. i /= 0
    BY <1>3 DEF IsShift
  <1>5. f[i] = f[i - 1] \div 2 /\ g[i] = g[i - 1] \div 2
    BY <1>3, <1>4 DEF IsShift
  <1>6. i - 1 \in Differ
    BY <1>3, <1>4, <1>5
  <1>7. QED
    BY <1>2, <1>3, <1>6

\* so RightShift is its value at n.
LEMMA ShiftIs ==
  ASSUME NEW v \in Nat, NEW n \in Nat
  PROVE  \E f : IsShift(f, v, n) /\ RightShift(v, n) = f[n]
  <1> DEFINE f == CHOOSE h : IsShift(h, v, n)
  <1>1. IsShift(f, v, n)
    BY ShiftExists
  <1>2. RightShift(v, n) = f[n]
    BY DEF RightShift, IsShift
  <1>3. QED
    BY <1>1, <1>2

LEMMA ShiftZero == ASSUME NEW v \in Nat PROVE RightShift(v, 0) = v
  BY ShiftIs DEF IsShift

\* A bit added at the low end is the one a shift drops first.
LEMMA ShiftIn ==
  ASSUME NEW v \in Nat, NEW b \in {0, 1}, NEW n \in Nat
  PROVE  RightShift(2 * v + b, n + 1) = RightShift(v, n)
  <1>1. 2 * v + b \in Nat /\ n + 1 \in Nat
    OBVIOUS
  <1>2. PICK f : IsShift(f, 2 * v + b, n + 1) /\ RightShift(2 * v + b, n + 1) = f[n + 1]
    BY <1>1, ShiftIs
  <1>3. PICK g : IsShift(g, v, n) /\ RightShift(v, n) = g[n]
    BY ShiftIs
  <1> DEFINE h == [i \in 0 .. n |-> f[i + 1]]
  <1>4. f[1] = v
    <2>1. f[0] = 2 * v + b /\ f[1] = f[0] \div 2
      BY <1>2 DEF IsShift
    <2>2. QED
      BY <2>1
  <1>5. ASSUME NEW i \in 0 .. n
        PROVE  h[i] = IF i = 0 THEN v ELSE h[i - 1] \div 2
    <2>1. f[i + 1] = f[i] \div 2
      BY <1>2 DEF IsShift
    <2>2. QED
      BY <1>4, <2>1
  <1>6. h = [i \in 0 .. n |-> h[i]]
    OBVIOUS
  <1>7. h[n] = f[n + 1]
    OBVIOUS
  <1> HIDE DEF h
  <1>8. IsShift(h, v, n)
    BY <1>5, <1>6 DEF IsShift
  <1>9. QED
    BY <1>2, <1>3, <1>7, <1>8, ShiftUnique

--------------------------------------------------------------------------------
(* FlattenSeq of one sequence more.                                        *)

\* What the definition of flatten says of a function.
IsFlat(f, s) ==
  f = [i \in 1 .. Len(s) |-> IF i = 1 THEN s[i] ELSE f[i - 1] \o s[i]]

\* Two sequences with the same first n elements.
SameStart(s, t, n) ==
  /\ 1 .. n \subseteq 1 .. Len(s) /\ 1 .. n \subseteq 1 .. Len(t)
  /\ \A i \in 1 .. n : s[i] = t[i]

LEMMA FlatExists ==
  ASSUME NEW T, NEW s \in Seq(Seq(T))
  PROVE  \E f \in [1 .. Len(s) -> Seq(T)] : IsFlat(f, s)
  <1> DEFINE Flat(f, m) ==
               \A i \in 1 .. m : f[i] = IF i = 1 THEN s[i] ELSE f[i - 1] \o s[i]
             Good(m) == \E f \in [1 .. m -> Seq(T)] : Flat(f, m)
             Bad == {m \in 0 .. Len(s) : ~ Good(m)}
  <1>1. Bad = {}
    <2> SUFFICES ASSUME Bad /= {} PROVE FALSE
      OBVIOUS
    <2>1. PICK m \in Bad : \A k \in Bad : m <= k
      <3>1. Bad \subseteq Nat
        OBVIOUS
      <3> HIDE DEF Bad
      <3>2. QED
        BY <3>1, Least
    <2>2. m /= 0
      <3>1. [i \in 1 .. 0 |-> <<>>] \in [1 .. 0 -> Seq(T)] /\ Flat([i \in 1 .. 0 |-> <<>>], 0)
        OBVIOUS
      <3>2. Good(0)
        BY <3>1
      <3>3. QED
        BY <2>1, <3>2
    <2>3. m \in 1 .. Len(s) /\ m - 1 \in 0 .. Len(s) /\ m - 1 \notin Bad
      <3>1. m \in 0 .. Len(s) /\ Len(s) \in Nat
        BY <2>1
      <3> HIDE DEF Bad
      <3>2. QED
        BY <2>1, <2>2, <3>1
    <2>4. PICK f \in [1 .. m - 1 -> Seq(T)] : Flat(f, m - 1)
      BY <2>3
    <2> DEFINE e == IF m = 1 THEN s[m] ELSE f[m - 1] \o s[m]
               g == [i \in 1 .. m |-> IF i = m THEN e ELSE f[i]]
    <2>5. e \in Seq(T)
      <3>1. s[m] \in Seq(T)
        BY <2>3
      <3>2. m /= 1 => f[m - 1] \in Seq(T)
        BY <2>3
      <3>3. QED
        BY <3>1, <3>2
    <2> HIDE DEF e
    <2>6. g \in [1 .. m -> Seq(T)]
      BY <2>3, <2>4, <2>5
    <2>7. ASSUME NEW i \in 1 .. m
          PROVE  g[i] = IF i = 1 THEN s[i] ELSE g[i - 1] \o s[i]
      <3>1. CASE i = m
        BY <2>3, <3>1 DEF e
      <3>2. CASE i /= m
        <4>1. i \in 1 .. m - 1 /\ Len(s) \in Nat
          BY <2>3, <3>2
        <4>2. f[i] = IF i = 1 THEN s[i] ELSE f[i - 1] \o s[i]
          BY <2>4, <4>1
        <4>3. g[i] = f[i] /\ (i /= 1 => g[i - 1] = f[i - 1])
          BY <2>3, <4>1
        <4>4. QED
          BY <4>2, <4>3, Zenon
      <3>3. QED
        BY <3>1, <3>2
    <2>8. QED
      BY <2>1, <2>6, <2>7
  <1>2. Len(s) \in 0 .. Len(s)
    OBVIOUS
  <1>3. PICK f \in [1 .. Len(s) -> Seq(T)] : Flat(f, Len(s))
    BY <1>1, <1>2
  <1>4. f = [i \in 1 .. Len(s) |-> f[i]]
    OBVIOUS
  <1>5. QED
    BY <1>3, <1>4 DEF IsFlat

\* There is only one such function, even when the sequences go on differently.
LEMMA FlatUnique ==
  ASSUME NEW s, NEW t, NEW n \in Nat, SameStart(s, t, n),
         NEW f, IsFlat(f, s), NEW g, IsFlat(g, t),
         NEW k \in 1 .. n
  PROVE  f[k] = g[k]
  <1> DEFINE Differ == {i \in 1 .. n : f[i] /= g[i]}
  <1>1. SUFFICES ASSUME Differ /= {} PROVE FALSE
    OBVIOUS
  <1>2. PICK i \in Differ : \A j \in Differ : i <= j
    <2>1. Differ \subseteq Nat
      OBVIOUS
    <2> HIDE DEF Differ
    <2>2. QED
      BY <1>1, <2>1, Least
  <1>3. i \in 1 .. n /\ f[i] /= g[i] /\ i \in 1 .. Len(s) /\ i \in 1 .. Len(t)
    BY <1>2 DEF SameStart
  <1>4. /\ f[i] = IF i = 1 THEN s[i] ELSE f[i - 1] \o s[i]
        /\ g[i] = IF i = 1 THEN t[i] ELSE g[i - 1] \o t[i]
    BY <1>3 DEF IsFlat
  <1>5. i /= 1
    BY <1>3, <1>4 DEF SameStart
  <1>6. i - 1 \in 1 .. n /\ f[i - 1] /= g[i - 1]
    <2>1. i - 1 \in 1 .. n
      BY <1>3, <1>5
    <2>2. s[i] = t[i]
      BY <1>3 DEF SameStart
    <2>3. QED
      BY <1>3, <1>4, <1>5, <2>1, <2>2, Zenon
  <1>7. QED
    BY <1>2, <1>3, <1>6

LEMMA FlattenIs ==
  ASSUME NEW T, NEW s \in Seq(Seq(T)), Len(s) > 0
  PROVE  \E f \in [1 .. Len(s) -> Seq(T)] : IsFlat(f, s) /\ FlattenSeq(s) = f[Len(s)]
  <1> DEFINE f == CHOOSE h : IsFlat(h, s)
  <1>1. IsFlat(f, s)
    BY FlatExists
  <1>2. FlattenSeq(s) = f[Len(s)]
    BY DEF FlattenSeq, IsFlat
  <1>3. PICK h \in [1 .. Len(s) -> Seq(T)] : IsFlat(h, s)
    BY FlatExists
  <1>4. Len(s) \in Nat /\ SameStart(s, s, Len(s))
    BY DEF SameStart
  <1> HIDE DEF f
  <1>5. \A i \in 1 .. Len(s) : f[i] = h[i]
    BY <1>1, <1>3, <1>4, FlatUnique
  <1>6. f = [i \in 1 .. Len(s) |-> f[i]] /\ h = [i \in 1 .. Len(s) |-> h[i]]
    BY <1>1, <1>3 DEF IsFlat
  <1>7. f = h
    BY <1>5, <1>6
  <1>8. QED
    BY <1>1, <1>2, <1>3, <1>7

LEMMA FlattenType ==
  ASSUME NEW T, NEW s \in Seq(Seq(T))
  PROVE  FlattenSeq(s) \in Seq(T)
  <1>1. CASE Len(s) = 0
    BY <1>1 DEF FlattenSeq
  <1>2. CASE Len(s) > 0
    <2>1. PICK f \in [1 .. Len(s) -> Seq(T)] : FlattenSeq(s) = f[Len(s)]
      BY <1>2, FlattenIs
    <2>2. Len(s) \in 1 .. Len(s)
      BY <1>2
    <2>3. QED
      BY <2>1, <2>2
  <1>3. QED
    BY <1>1, <1>2

\* One sequence more is flattened into the end.
LEMMA FlattenLast ==
  ASSUME NEW T, NEW n \in Nat,
         NEW s \in Seq(Seq(T)), Len(s) = n,
         NEW t \in Seq(Seq(T)), Len(t) = n + 1, \A i \in 1 .. n : t[i] = s[i]
  PROVE  FlattenSeq(t) = FlattenSeq(s) \o t[n + 1]
  <1> n + 1 > 0 /\ n <= n + 1 /\ n <= n
    OBVIOUS
  <1>1. PICK g \in [1 .. n + 1 -> Seq(T)] : IsFlat(g, t) /\ FlattenSeq(t) = g[n + 1]
    <2>1. Len(t) > 0
      OBVIOUS
    <2>2. QED
      BY <2>1, FlattenIs
  <1>2. CASE n = 0
    <2>1. s = <<>> /\ FlattenSeq(s) = <<>>
      BY <1>2 DEF FlattenSeq
    <2>2. g[1] = t[1] /\ t[1] \in Seq(T)
      BY <1>1, <1>2 DEF IsFlat
    <2>3. QED
      BY <1>1, <1>2, <2>1, <2>2
  <1>3. CASE n > 0
    <2>1. PICK f \in [1 .. n -> Seq(T)] : IsFlat(f, s) /\ FlattenSeq(s) = f[n]
      BY <1>3, FlattenIs
    <2>2. g[n + 1] = g[n] \o t[n + 1]
      <3>1. n + 1 \in 1 .. n + 1 /\ n + 1 /= 1 /\ (n + 1) - 1 = n
        BY <1>3
      <3>2. QED
        BY <1>1, <3>1 DEF IsFlat
    <2>3. f[n] = g[n]
      <3>1. SameStart(s, t, n)
        BY DEF SameStart
      <3>2. IsFlat(g, t) /\ IsFlat(f, s)
        BY <1>1, <2>1
      <3>3. n \in 1 .. n
        BY <1>3
      <3>4. QED
        BY <3>1, <3>2, <3>3, FlatUnique
    <2>4. QED
      BY <1>1, <2>1, <2>2, <2>3
  <1>4. QED
    BY <1>2, <1>3

--------------------------------------------------------------------------------
(* The transmitter sends a number the way the receiver reads it.           *)

\* The bits of a number as NumberParts sends them, one by one.
Bits(v, n) == [k \in 1 .. n |-> BitParts(RightShift(v, n - k) % 2)]

LEMMA BitPartsType == ASSUME NEW b PROVE BitParts(b) \in Seq({S, L})
  <1>1. <<S, L, S, S>> \in Seq({S, L}) /\ <<S, S, S, L>> \in Seq({S, L})
    OBVIOUS
  <1>2. QED
    BY <1>1 DEF BitParts

LEMMA BitsType ==
  ASSUME NEW v, NEW n \in Nat
  PROVE  Bits(v, n) \in Seq(Seq({S, L})) /\ Len(Bits(v, n)) = n
  BY BitPartsType DEF Bits

LEMMA NumberPartsType ==
  ASSUME NEW v, NEW n \in Nat
  PROVE  NumberParts(v, n) \in Seq({S, L})
  BY BitsType, FlattenType DEF NumberParts, Bits

LEMMA NumberPartsNone == ASSUME NEW v PROVE NumberParts(v, 0) = <<>>
  <1>1. Bits(v, 0) = <<>>
    BY BitsType
  <1>2. FlattenSeq(<<>>) = <<>>
    BY DEF FlattenSeq
  <1>3. QED
    BY <1>1, <1>2 DEF NumberParts, Bits

\* The receiver's way of reading a number, doubling it and adding the new
\* bit, is the inverse of the transmitter's way of sending it.
LEMMA NumberPartsNext ==
  ASSUME NEW v \in Nat, NEW b \in {0, 1}, NEW n \in Nat
  PROVE  NumberParts(2 * v + b, n + 1) = NumberParts(v, n) \o BitParts(b)
  <1> DEFINE w == 2 * v + b
  <1>1. w \in Nat /\ w % 2 = b
    OBVIOUS
  <1> HIDE DEF w
  <1>2. ASSUME NEW k \in 1 .. n
        PROVE  Bits(w, n + 1)[k] = Bits(v, n)[k]
    <2>1. n - k \in Nat /\ (n + 1) - k = (n - k) + 1
      OBVIOUS
    <2>2. RightShift(w, (n + 1) - k) = RightShift(v, n - k)
      BY <2>1, ShiftIn DEF w
    <2>3. QED
      BY <2>2 DEF Bits
  <1>3. Bits(w, n + 1)[n + 1] = BitParts(b)
    <2>1. RightShift(w, (n + 1) - (n + 1)) = w
      BY <1>1, ShiftZero
    <2>2. n + 1 \in 1 .. n + 1
      OBVIOUS
    <2>3. QED
      BY <1>1, <2>1, <2>2 DEF Bits
  <1>4. FlattenSeq(Bits(w, n + 1)) = FlattenSeq(Bits(v, n)) \o Bits(w, n + 1)[n + 1]
    <2>1. /\ Bits(v, n) \in Seq(Seq({S, L})) /\ Len(Bits(v, n)) = n
          /\ Bits(w, n + 1) \in Seq(Seq({S, L})) /\ Len(Bits(w, n + 1)) = n + 1
      BY BitsType
    <2>2. QED
      BY <1>2, <2>1, FlattenLast
  <1>5. QED
    BY <1>3, <1>4 DEF NumberParts, Bits, w

--------------------------------------------------------------------------------
(* What a frame consists of up to a state, given the code so far.          *)

AddressHeard(c) == NumberParts(c.address, AddressBits)
GroupHeard(c) == AddressHeard(c) \o BitParts(Flag(c.group))
SwitchHeard(c) == GroupHeard(c) \o SwitchParts(c.switch)
UnitHeard(c) == SwitchHeard(c) \o NumberParts(c.unit, UnitBits)

\* How many bits of the field that begins at state first are complete in state s.
BitsSince(s, first) == (s - first) \div 4

BitsHeard(s, c) ==
  CASE s < AddressEnd -> NumberParts(c.address, BitsSince(s, 2))
    [] s \in AddressEnd .. GroupEnd - 1 -> AddressHeard(c)
    [] s \in GroupEnd .. SwitchEnd - 1 -> GroupHeard(c)
    [] s \in SwitchEnd .. UnitEnd - 1 ->
         SwitchHeard(c) \o NumberParts(c.unit, BitsSince(s, SwitchEnd))
    [] OTHER -> UnitHeard(c) \o NumberParts(c.dim, BitsSince(s, UnitEnd))

HeardSoFar ==
  /\ state = 1 => heard = <<>> /\ parts = <<>>
  /\ InBits => heard = BitsHeard(state, code) \o parts

\* Every field begins at a state that is 2 modulo 4.
LEMMA FieldStates ==
  /\ AddressEnd \in Nat /\ AddressEnd % 4 = 2 /\ AddressEnd = 2 + 4 * AddressBits
  /\ GroupEnd \in Nat /\ GroupEnd % 4 = 2 /\ GroupEnd = AddressEnd + 4
  /\ SwitchEnd \in Nat /\ SwitchEnd % 4 = 2 /\ SwitchEnd = GroupEnd + 4
  /\ UnitEnd \in Nat /\ UnitEnd % 4 = 2 /\ UnitEnd = SwitchEnd + 4 * UnitBits
  /\ DimEnd \in Nat /\ DimEnd % 4 = 2 /\ DimEnd = UnitEnd + 4 * DimBits
  /\ AddressBits \in Nat \ {0} /\ UnitBits \in Nat \ {0} /\ DimBits \in Nat \ {0}
  BY FrameAssumption
  DEF FrameAssumption, AddressEnd, GroupEnd, SwitchEnd, UnitEnd, DimEnd

\* The last part of a bit is the one before the next bit of the field, or
\* before the end of the field.
LEMMA PlaceInField ==
  ASSUME NEW first \in Nat, first % 4 = 2, NEW n \in Nat,
         NEW s \in first .. first + 4 * n - 1
  PROVE  /\ BitsSince(s, first) \in Nat
         /\ s % 4 = 1 => BitsSince(s + 1, first) = BitsSince(s, first) + 1
         /\ s % 4 = 1 /\ s + 1 = first + 4 * n => BitsSince(s, first) + 1 = n
         /\ s % 4 /= 1 => BitsSince(s + 1, first) = BitsSince(s, first)
         /\ s % 4 /= 1 => s + 1 \in first .. first + 4 * n - 1
  BY DEF BitsSince

LEMMA PartsAssociative ==
  ASSUME NEW p \in Seq({S, L}), NEW q \in Seq({S, L}), NEW r \in Seq({S, L})
  PROVE  p \o (q \o r) = (p \o q) \o r
  BY ConcatAssociative

LEMMA FieldsType ==
  ASSUME NEW c \in Codes
  PROVE  /\ c.address \in Nat /\ c.unit \in Nat /\ c.dim \in Nat
         /\ AddressHeard(c) \in Seq({S, L}) /\ GroupHeard(c) \in Seq({S, L})
         /\ SwitchHeard(c) \in Seq({S, L}) /\ UnitHeard(c) \in Seq({S, L})
  <1>1. c.address \in Nat /\ c.unit \in Nat /\ c.dim \in Nat /\ c.switch \in {"off", "on", "dim"}
    BY DEF Codes
  <1>2. AddressHeard(c) \in Seq({S, L}) /\ NumberParts(c.unit, UnitBits) \in Seq({S, L})
    BY FieldStates, NumberPartsType DEF AddressHeard
  <1>3. GroupHeard(c) \in Seq({S, L})
    BY <1>2, BitPartsType DEF GroupHeard
  <1>4. SwitchHeard(c) \in Seq({S, L})
    <2>1. DimParts \in Seq({S, L})
      BY DEF DimParts
    <2>2. SwitchParts(c.switch) \in Seq({S, L})
      BY <1>1, <2>1, BitPartsType DEF SwitchParts
    <2>3. QED
      BY <1>3, <2>2 DEF SwitchHeard
  <1>5. UnitHeard(c) \in Seq({S, L})
    BY <1>2, <1>4 DEF UnitHeard
  <1>6. QED
    BY <1>1, <1>2, <1>3, <1>4, <1>5

LEMMA FieldOrder ==
  /\ {AddressEnd, GroupEnd, SwitchEnd, UnitEnd, DimEnd} \subseteq Nat
  /\ 2 <= AddressEnd /\ AddressEnd <= GroupEnd /\ GroupEnd <= SwitchEnd
  /\ SwitchEnd <= UnitEnd /\ UnitEnd <= DimEnd
  BY FieldStates

LEMMA BitsHeardIs ==
  ASSUME NEW c, NEW s \in Nat
  PROVE  /\ s < AddressEnd => BitsHeard(s, c) = NumberParts(c.address, BitsSince(s, 2))
         /\ s \in AddressEnd .. GroupEnd - 1 => BitsHeard(s, c) = AddressHeard(c)
         /\ s \in GroupEnd .. SwitchEnd - 1 => BitsHeard(s, c) = GroupHeard(c)
         /\ s \in SwitchEnd .. UnitEnd - 1 =>
              BitsHeard(s, c) = SwitchHeard(c) \o NumberParts(c.unit, BitsSince(s, SwitchEnd))
         /\ s >= UnitEnd =>
              BitsHeard(s, c) = UnitHeard(c) \o NumberParts(c.dim, BitsSince(s, UnitEnd))
  <1>1. CASE s < AddressEnd
    BY <1>1, FieldOrder DEF BitsHeard
  <1>2. CASE s \in AddressEnd .. GroupEnd - 1
    BY <1>2, FieldOrder DEF BitsHeard
  <1>3. CASE s \in GroupEnd .. SwitchEnd - 1
    BY <1>3, FieldOrder DEF BitsHeard
  <1>4. CASE s \in SwitchEnd .. UnitEnd - 1
    BY <1>4, FieldOrder DEF BitsHeard
  <1>5. CASE s >= UnitEnd
    BY <1>5, FieldOrder DEF BitsHeard
  <1>6. QED
    BY <1>1, <1>2, <1>3, <1>4, <1>5, FieldOrder

LEMMA BitsHeardType ==
  ASSUME NEW c \in Codes, NEW s \in 2 .. DimEnd + 1
  PROVE  BitsHeard(s, c) \in Seq({S, L})
  <1>1. CASE s < AddressEnd
    <2>1. BitsSince(s, 2) \in Nat
      BY <1>1, FieldStates DEF BitsSince
    <2>2. BitsHeard(s, c) = NumberParts(c.address, BitsSince(s, 2))
      BY <1>1, BitsHeardIs, FieldOrder
    <2>3. QED
      BY <2>1, <2>2, NumberPartsType
  <1>2. CASE s \in AddressEnd .. SwitchEnd - 1
    <2>1. BitsHeard(s, c) \in {AddressHeard(c), GroupHeard(c)}
      BY <1>2, BitsHeardIs, FieldOrder
    <2>2. QED
      BY <2>1, FieldsType
  <1>3. CASE s \in SwitchEnd .. UnitEnd - 1
    <2>1. BitsSince(s, SwitchEnd) \in Nat
      BY <1>3, FieldStates DEF BitsSince
    <2>2. BitsHeard(s, c) = SwitchHeard(c) \o NumberParts(c.unit, BitsSince(s, SwitchEnd))
      BY <1>3, BitsHeardIs, FieldOrder
    <2>3. QED
      BY <2>1, <2>2, FieldsType, NumberPartsType
  <1>4. CASE s >= UnitEnd
    <2>1. BitsSince(s, UnitEnd) \in Nat
      BY <1>4, FieldStates DEF BitsSince
    <2>2. BitsHeard(s, c) = UnitHeard(c) \o NumberParts(c.dim, BitsSince(s, UnitEnd))
      BY <1>4, BitsHeardIs, FieldOrder
    <2>3. QED
      BY <2>1, <2>2, FieldsType, NumberPartsType
  <1>5. QED
    BY <1>1, <1>2, <1>3, <1>4, FieldStates

\* A part that completes no bit leaves the bits heard as they are.
LEMMA SameBits ==
  ASSUME NEW c, NEW s \in 2 .. DimEnd + 1, s % 4 /= 1
  PROVE  BitsHeard(s + 1, c) = BitsHeard(s, c)
  <1>1. CASE s < AddressEnd
    <2>1. s + 1 < AddressEnd /\ BitsSince(s + 1, 2) = BitsSince(s, 2)
      BY <1>1, FieldStates, PlaceInField
    <2>2. QED
      BY <1>1, <2>1, BitsHeardIs, FieldOrder
  <1>2. CASE s \in AddressEnd .. GroupEnd - 1
    <2>1. s + 1 \in AddressEnd .. GroupEnd - 1
      BY <1>2, FieldStates
    <2>2. QED
      BY <1>2, <2>1, BitsHeardIs, FieldOrder
  <1>3. CASE s \in GroupEnd .. SwitchEnd - 1
    <2>1. s + 1 \in GroupEnd .. SwitchEnd - 1
      BY <1>3, FieldStates
    <2>2. QED
      BY <1>3, <2>1, BitsHeardIs, FieldOrder
  <1>4. CASE s \in SwitchEnd .. UnitEnd - 1
    <2>1. s \in SwitchEnd .. SwitchEnd + 4 * UnitBits - 1 /\ SwitchEnd % 4 = 2
          /\ UnitEnd = SwitchEnd + 4 * UnitBits /\ SwitchEnd \in Nat /\ UnitBits \in Nat
      BY <1>4, FieldStates
    <2>2. s + 1 \in SwitchEnd .. SwitchEnd + 4 * UnitBits - 1
          /\ BitsSince(s + 1, SwitchEnd) = BitsSince(s, SwitchEnd)
      BY <2>1, PlaceInField
    <2>3. s + 1 \in SwitchEnd .. UnitEnd - 1 /\ s \in Nat /\ s + 1 \in Nat
      BY <2>1, <2>2
    <2>4. BitsHeard(s, c) = SwitchHeard(c) \o NumberParts(c.unit, BitsSince(s, SwitchEnd))
      BY <1>4, <2>3, BitsHeardIs
    <2>5. BitsHeard(s + 1, c) = SwitchHeard(c) \o NumberParts(c.unit, BitsSince(s + 1, SwitchEnd))
      BY <2>3, BitsHeardIs
    <2>6. QED
      BY <2>2, <2>4, <2>5
  <1>5. CASE s >= UnitEnd
    <2>1. s \in UnitEnd .. UnitEnd + 4 * (DimBits + 1) - 1 /\ UnitEnd % 4 = 2
          /\ UnitEnd \in Nat /\ DimBits + 1 \in Nat
      BY <1>5, FieldStates
    <2>2. s + 1 >= UnitEnd /\ BitsSince(s + 1, UnitEnd) = BitsSince(s, UnitEnd)
      <3> DEFINE n == DimBits + 1
      <3>1. n \in Nat /\ s \in UnitEnd .. UnitEnd + 4 * n - 1
        BY <2>1
      <3> HIDE DEF n
      <3>2. QED
        BY <1>5, <2>1, <3>1, PlaceInField
    <2>3. /\ BitsHeard(s, c) = UnitHeard(c) \o NumberParts(c.dim, BitsSince(s, UnitEnd))
          /\ BitsHeard(s + 1, c) = UnitHeard(c) \o NumberParts(c.dim, BitsSince(s + 1, UnitEnd))
      BY <1>5, <2>2, BitsHeardIs
    <2>4. QED
      BY <2>2, <2>3
  <1>6. QED
    BY <1>1, <1>2, <1>3, <1>4, <1>5, FieldOrder

\* The last part of the switch field, whose bit may also be dim.
LEMMA SwitchComplete ==
  ASSUME code \in Codes, InBits, LastPart, state \in GroupEnd .. SwitchEnd - 1,
         NEW c \in Codes, c.address = code.address, c.group = code.group
  PROVE  BitsHeard(state + 1, c) = BitsHeard(state, code) \o SwitchParts(c.switch)
  <1>1. state \in Nat /\ state + 1 = SwitchEnd /\ SwitchEnd \in Nat
    BY FieldStates DEF LastPart
  <1>2. BitsHeard(state, code) = GroupHeard(code)
    BY <1>1, BitsHeardIs
  <1>3. SwitchEnd \in SwitchEnd .. UnitEnd - 1 /\ BitsSince(SwitchEnd, SwitchEnd) = 0
    BY FieldStates DEF BitsSince
  <1>4. BitsHeard(SwitchEnd, c) = SwitchHeard(c) \o NumberParts(c.unit, 0)
    BY <1>1, <1>3, BitsHeardIs
  <1>5. GroupHeard(c) = GroupHeard(code)
    BY DEF AddressHeard, GroupHeard
  <1>6. SwitchHeard(c) = GroupHeard(code) \o SwitchParts(c.switch)
    BY <1>5 DEF SwitchHeard
  <1>7. SwitchHeard(c) \o NumberParts(c.unit, 0) = SwitchHeard(c)
    BY NumberPartsNone, FieldsType
  <1>8. QED
    BY <1>1, <1>2, <1>4, <1>6, <1>7

\* The part that completes a bit adds that bit to its field.
LEMMA OneMoreBit ==
  ASSUME code \in Codes, InBits, LastPart, NEW b \in {0, 1}
  PROVE  BitsHeard(state + 1, WithBit(b)) = BitsHeard(state, code) \o BitParts(b)
  <1>1. state \in 2 .. DimEnd + 1 /\ state % 4 = 1
    BY DEF InBits, LastPart
  <1>2. CASE state < AddressEnd
    <2> DEFINE c == [code EXCEPT !.address = 2 * @ + b]
               d == BitsSince(state, 2)
    <2>1. WithBit(b) = c
      BY <1>1, <1>2, FieldOrder DEF WithBit
    <2>2. code.address \in Nat /\ c.address = 2 * code.address + b
      BY DEF Codes
    <2>3. /\ d \in Nat /\ BitsSince(state + 1, 2) = d + 1
          /\ state + 1 = AddressEnd => d + 1 = AddressBits
      <3>1. state \in 2 .. 2 + 4 * AddressBits - 1 /\ AddressEnd = 2 + 4 * AddressBits
            /\ AddressBits \in Nat /\ 2 \in Nat /\ 2 % 4 = 2
        BY <1>1, <1>2, FieldStates
      <3>2. QED
        BY <1>1, <3>1, PlaceInField
    <2> HIDE DEF c, d
    <2>4. BitsHeard(state, code) = NumberParts(code.address, d)
      BY <1>1, <1>2, BitsHeardIs DEF d
    <2>5. BitsHeard(state + 1, c) = NumberParts(c.address, d + 1)
      <3>1. CASE state + 1 < AddressEnd
        BY <1>1, <2>3, <3>1, BitsHeardIs
      <3>2. CASE state + 1 = AddressEnd
        <4>1. AddressEnd \in AddressEnd .. GroupEnd - 1 /\ AddressEnd \in Nat
          BY FieldStates
        <4>2. BitsHeard(AddressEnd, c) = AddressHeard(c)
          BY <4>1, BitsHeardIs
        <4>3. QED
          BY <2>3, <3>2, <4>2 DEF AddressHeard
      <3>3. QED
        BY <1>1, <1>2, <3>1, <3>2, FieldOrder
    <2>6. NumberParts(2 * code.address + b, d + 1) = NumberParts(code.address, d) \o BitParts(b)
      BY <2>2, <2>3, NumberPartsNext
    <2>7. QED
      BY <2>1, <2>2, <2>4, <2>5, <2>6
  <1>3. CASE state \in AddressEnd .. GroupEnd - 1
    <2> DEFINE c == [code EXCEPT !.group = (b = 1)]
    <2>1. WithBit(b) = c
      BY <1>1, <1>3, FieldOrder DEF WithBit
    <2>2. c.address = code.address /\ Flag(c.group) = b
      BY DEF Codes, Flag
    <2> HIDE DEF c
    <2>3. state + 1 \in GroupEnd .. SwitchEnd - 1
      BY <1>1, <1>3, FieldStates
    <2>4. BitsHeard(state, code) = AddressHeard(code) /\ BitsHeard(state + 1, c) = GroupHeard(c)
      BY <1>1, <1>3, <2>3, BitsHeardIs
    <2>5. QED
      BY <2>1, <2>2, <2>4 DEF AddressHeard, GroupHeard
  <1>4. CASE state \in GroupEnd .. SwitchEnd - 1
    <2> DEFINE c == [code EXCEPT !.switch = IF b = 1 THEN "on" ELSE "off"]
    <2>1. WithBit(b) = c
      BY <1>1, <1>4, FieldOrder DEF WithBit
    <2>2. c.address = code.address /\ c.group = code.group /\ SwitchParts(c.switch) = BitParts(b)
      BY DEF Codes, SwitchParts
    <2> HIDE DEF c
    <2>3. c \in Codes
      BY <2>1, WithBitType
    <2>4. QED
      BY <1>1, <1>4, <2>1, <2>2, <2>3, SwitchComplete
  <1>5. CASE state \in SwitchEnd .. UnitEnd - 1
    <2> DEFINE c == [code EXCEPT !.unit = 2 * @ + b]
               d == BitsSince(state, SwitchEnd)
    <2>1. WithBit(b) = c
      BY <1>1, <1>5, FieldOrder DEF WithBit
    <2>2. /\ code.unit \in Nat /\ c.unit = 2 * code.unit + b
          /\ c.address = code.address /\ c.group = code.group /\ c.switch = code.switch
      BY DEF Codes
    <2>3. /\ d \in Nat /\ BitsSince(state + 1, SwitchEnd) = d + 1
          /\ state + 1 = UnitEnd => d + 1 = UnitBits
      <3>1. state \in SwitchEnd .. SwitchEnd + 4 * UnitBits - 1 /\ UnitEnd = SwitchEnd + 4 * UnitBits
            /\ UnitBits \in Nat /\ SwitchEnd \in Nat /\ SwitchEnd % 4 = 2
        BY <1>1, <1>5, FieldStates
      <3>2. QED
        BY <1>1, <3>1, PlaceInField
    <2>4. SwitchHeard(c) = SwitchHeard(code)
      BY <2>2 DEF AddressHeard, GroupHeard, SwitchHeard
    <2> HIDE DEF c, d
    <2>5. BitsHeard(state, code) = SwitchHeard(code) \o NumberParts(code.unit, d)
      BY <1>1, <1>5, BitsHeardIs DEF d
    <2>6. BitsHeard(state + 1, c) = SwitchHeard(c) \o NumberParts(c.unit, d + 1)
      <3>1. CASE state + 1 < UnitEnd
        <4>1. state + 1 \in SwitchEnd .. UnitEnd - 1 /\ state + 1 \in Nat
          BY <1>1, <1>5, <3>1, FieldOrder
        <4>2. QED
          BY <2>3, <4>1, BitsHeardIs
      <3>2. CASE state + 1 = UnitEnd
        <4>1. UnitEnd \in Nat /\ BitsSince(UnitEnd, UnitEnd) = 0
          BY FieldStates DEF BitsSince
        <4>2. BitsHeard(UnitEnd, c) = UnitHeard(c) \o NumberParts(c.dim, 0)
          BY <4>1, BitsHeardIs
        <4>3. UnitHeard(c) \o NumberParts(c.dim, 0) = UnitHeard(c)
          <5>1. UnitHeard(c) \in Seq({S, L})
            BY <2>1, WithBitType, FieldsType
          <5>2. QED
            BY <5>1, NumberPartsNone
        <4>4. QED
          BY <2>3, <3>2, <4>2, <4>3 DEF UnitHeard
      <3>3. QED
        BY <1>1, <1>5, <3>1, <3>2, FieldOrder
    <2>7. NumberParts(2 * code.unit + b, d + 1) = NumberParts(code.unit, d) \o BitParts(b)
      BY <2>2, <2>3, NumberPartsNext
    <2>8. SwitchHeard(code) \o (NumberParts(code.unit, d) \o BitParts(b))
            = (SwitchHeard(code) \o NumberParts(code.unit, d)) \o BitParts(b)
      <3>1. /\ SwitchHeard(code) \in Seq({S, L}) /\ NumberParts(code.unit, d) \in Seq({S, L})
            /\ BitParts(b) \in Seq({S, L})
        BY <2>3, FieldsType, NumberPartsType, BitPartsType
      <3>2. QED
        BY <3>1, PartsAssociative
    <2>9. QED
      BY <2>1, <2>2, <2>4, <2>5, <2>6, <2>7, <2>8
  <1>6. CASE state >= UnitEnd
    <2> DEFINE c == [code EXCEPT !.dim = 2 * @ + b]
               d == BitsSince(state, UnitEnd)
    <2>1. WithBit(b) = c
      BY <1>1, <1>6, FieldOrder DEF WithBit
    <2>2. /\ code.dim \in Nat /\ c.dim = 2 * code.dim + b
          /\ c.address = code.address /\ c.group = code.group /\ c.switch = code.switch
          /\ c.unit = code.unit
      BY DEF Codes
    <2>3. /\ d \in Nat /\ BitsSince(state + 1, UnitEnd) = d + 1
      <3>1. state \in UnitEnd .. UnitEnd + 4 * DimBits - 1
            /\ DimBits \in Nat /\ UnitEnd \in Nat /\ UnitEnd % 4 = 2
        BY <1>1, <1>6, FieldStates
      <3>2. QED
        BY <1>1, <3>1, PlaceInField
    <2>4. UnitHeard(c) = UnitHeard(code)
      BY <2>2 DEF AddressHeard, GroupHeard, SwitchHeard, UnitHeard
    <2> HIDE DEF c, d
    <2>5. /\ BitsHeard(state, code) = UnitHeard(code) \o NumberParts(code.dim, d)
          /\ BitsHeard(state + 1, c) = UnitHeard(c) \o NumberParts(c.dim, d + 1)
      <3>1. state + 1 >= UnitEnd /\ state \in Nat /\ state + 1 \in Nat
        BY <1>1, <1>6, FieldOrder
      <3>2. QED
        BY <1>6, <2>3, <3>1, BitsHeardIs DEF d
    <2>6. NumberParts(2 * code.dim + b, d + 1) = NumberParts(code.dim, d) \o BitParts(b)
      BY <2>2, <2>3, NumberPartsNext
    <2>7. UnitHeard(code) \o (NumberParts(code.dim, d) \o BitParts(b))
            = (UnitHeard(code) \o NumberParts(code.dim, d)) \o BitParts(b)
      <3>1. /\ UnitHeard(code) \in Seq({S, L}) /\ NumberParts(code.dim, d) \in Seq({S, L})
            /\ BitParts(b) \in Seq({S, L})
        BY <2>3, FieldsType, NumberPartsType, BitPartsType
      <3>2. QED
        BY <3>1, PartsAssociative
    <2>8. QED
      BY <2>1, <2>2, <2>4, <2>5, <2>6, <2>7
  <1>7. \/ state < AddressEnd
        \/ state \in AddressEnd .. GroupEnd - 1
        \/ state \in GroupEnd .. SwitchEnd - 1
        \/ state \in SwitchEnd .. UnitEnd - 1
        \/ state >= UnitEnd
    BY <1>1, FieldOrder
  <1>8. QED
    BY <1>2, <1>3, <1>4, <1>5, <1>6, <1>7, Zenon

--------------------------------------------------------------------------------
(* Every step keeps what has been heard equal to what has been decoded.    *)

DInv == HeardSoFar /\ HeardIsDecoded

\* A step that is not the end of a frame calls nothing.
LEMMA NoCall == ASSUME called' = {} PROVE HeardIsDecoded'
  BY DEF HeardIsDecoded

\* A step that leaves the bits alone: skipped edges, waiting, disabling.
LEMMA BitsAlone ==
  ASSUME HeardSoFar, UNCHANGED <<state, parts, code, heard>>
  PROVE  HeardSoFar'
  BY DEF HeardSoFar, InBits, BitsHeard, AddressHeard, GroupHeard, SwitchHeard, UnitHeard, BitsSince

\* A step after which no bit is awaited.
LEMMA NotInBits ==
  ASSUME state' \in Int, state' <= 0 \/ state' > DimEnd + 1
  PROVE  HeardSoFar'
  <1>1. ~InBits' /\ state' /= 1
    BY FieldStates DEF InBits
  <1>2. QED
    BY <1>1 DEF HeardSoFar

LEMMA StartDecoded ==
  ASSUME TypeOK, HeardSoFar, StartHigh \/ StartLow
  PROVE  HeardSoFar'
  <1>1. CASE StartHigh
    <2>1. state' = 1 /\ parts' = <<>> /\ heard' = <<>> /\ ~InBits'
      BY <1>1 DEF StartHigh, Forget, InBits
    <2>2. QED
      BY <2>1 DEF HeardSoFar
  <1>2. CASE StartLow
    <2>1. state' = 2 /\ heard' = <<>> /\ parts' = <<>>
      BY <1>2 DEF StartLow, HeardSoFar
    <2>2. BitsHeard(2, code') = <<>>
      <3>1. 2 < AddressEnd /\ BitsSince(2, 2) = 0
        BY FieldStates DEF BitsSince
      <3>2. BitsHeard(2, code') = NumberParts(code'.address, 0)
        BY <3>1, BitsHeardIs
      <3>3. QED
        BY <3>2, NumberPartsNone
    <2>3. heard' = BitsHeard(state', code') \o parts'
      BY <2>1, <2>2
    <2>4. QED
      BY <2>1, <2>3 DEF HeardSoFar
  <1>3. QED
    BY <1>1, <1>2

LEMMA AppendToTail ==
  ASSUME NEW p \in Seq({S, L}), NEW q \in Seq({S, L}), NEW e \in {S, L}
  PROVE  Append(p \o q, e) = p \o Append(q, e)
  <1>1. /\ p \o q \in Seq({S, L}) /\ <<e>> \in Seq({S, L})
        /\ Append(p \o q, e) = (p \o q) \o <<e>> /\ Append(q, e) = q \o <<e>>
    BY AppendIsConcat
  <1>2. QED
    BY <1>1, PartsAssociative

LEMMA PartDecoded ==
  ASSUME TypeOK, HeardSoFar, BitPart \/ BitEnd
  PROVE  HeardSoFar'
  <1>1. /\ state \in 2 .. DimEnd + 1 /\ state' = state + 1 /\ heard' = Append(heard, Part)
        /\ code \in Codes /\ parts \in Seq({S, L}) /\ Part \in {S, L}
        /\ state' /= 1 /\ DimEnd \in Nat
    BY FieldOrder DEF BitPart, BitEnd, InBits, TypeOK, Part
  <1>2. heard = BitsHeard(state, code) \o parts
    BY <1>1 DEF HeardSoFar, InBits
  <1>3. heard' = BitsHeard(state, code) \o Append(parts, Part)
    <2>1. BitsHeard(state, code) \in Seq({S, L})
      BY <1>1, BitsHeardType
    <2>2. Append(BitsHeard(state, code) \o parts, Part)
            = BitsHeard(state, code) \o Append(parts, Part)
      BY <1>1, <2>1, AppendToTail
    <2>3. QED
      BY <1>1, <1>2, <2>2
  <1>4. BitsHeard(state + 1, code') \o parts' = BitsHeard(state, code) \o Append(parts, Part)
    <2>1. CASE BitPart
      <3>1. state % 4 /= 1 /\ code' = code /\ parts' = Append(parts, Part)
        BY <2>1 DEF BitPart, LastPart
      <3>2. QED
        BY <1>1, <3>1, SameBits
    <2>2. CASE BitEnd
      <3>1. InBits /\ LastPart /\ parts' = <<>>
        BY <2>2 DEF BitEnd
      <3>2. code' \in Codes /\ BitsHeard(state + 1, code') = BitsHeard(state, code) \o Append(parts, Part)
        <4>1. CASE \E b \in {0, 1} : Append(parts, Part) = BitParts(b) /\ code' = WithBit(b)
          BY <1>1, <3>1, <4>1, OneMoreBit, WithBitType
        <4>2. CASE /\ Append(parts, Part) = DimParts /\ state \in GroupEnd .. SwitchEnd - 1
                   /\ code' = [code EXCEPT !.switch = "dim"]
          <5>1. /\ code' \in Codes /\ code'.address = code.address /\ code'.group = code.group
                /\ code'.switch = "dim"
            BY <1>1, <4>2 DEF Codes
          <5>2. SwitchParts(code'.switch) = DimParts
            BY <5>1 DEF SwitchParts
          <5>3. BitsHeard(state + 1, code') = BitsHeard(state, code) \o SwitchParts(code'.switch)
            BY <1>1, <3>1, <4>2, <5>1, SwitchComplete
          <5>4. QED
            BY <4>2, <5>1, <5>2, <5>3
        <4>3. QED
          BY <2>2, <4>1, <4>2 DEF BitEnd
      <3>3. BitsHeard(state, code) \o Append(parts, Part) \in Seq({S, L})
        BY <1>1, BitsHeardType
      <3>4. QED
        BY <3>1, <3>2, <3>3
    <2>3. QED
      BY <2>1, <2>2
  <1>5. heard' = BitsHeard(state', code') \o parts'
    BY <1>1, <1>3, <1>4
  <1>6. QED
    BY <1>1, <1>5 DEF HeardSoFar

\* At the end of a frame the bits heard are all of it.
LEMMA FrameDecoded ==
  ASSUME TypeOK, HeardSoFar, FrameEnd
  PROVE  HeardIsDecoded'
  <1> DEFINE frame == IF state = DimEnd + 1 THEN [code EXCEPT !.dimPresent = TRUE] ELSE code
             p == state = DimEnd + 1
  <1>1. /\ state \in {UnitEnd + 1, DimEnd + 1} /\ InBits /\ parts = <<S>>
        /\ heard' = heard /\ called' \subseteq {frame} /\ code \in Codes
    BY DEF FrameEnd, StopFits, TypeOK
  <1>2. heard = BitsHeard(state, code) \o <<S>>
    BY <1>1 DEF HeardSoFar
  <1>3. CodeParts([frame EXCEPT !.dimPresent = p])
          = UnitHeard(code) \o (IF p THEN NumberParts(code.dim, DimBits) ELSE <<>>)
    <2> DEFINE c == [frame EXCEPT !.dimPresent = p]
    <2>1. /\ c.address = code.address /\ c.group = code.group /\ c.switch = code.switch
          /\ c.unit = code.unit /\ c.dim = code.dim /\ c.dimPresent = p
      BY <1>1 DEF Codes
    <2> HIDE DEF c, p
    <2>2. CodeParts(c) = UnitHeard(c) \o (IF c.dimPresent THEN NumberParts(c.dim, DimBits) ELSE <<>>)
      BY DEF CodeParts, AddressHeard, GroupHeard, SwitchHeard, UnitHeard
    <2>3. UnitHeard(c) = UnitHeard(code)
      BY <2>1 DEF AddressHeard, GroupHeard, SwitchHeard, UnitHeard
    <2>4. CodeParts(c) = UnitHeard(code) \o (IF p THEN NumberParts(code.dim, DimBits) ELSE <<>>)
      BY <2>1, <2>2, <2>3
    <2>5. QED
      BY <2>4 DEF c
  <1>4. BitsHeard(state, code) = UnitHeard(code) \o (IF p THEN NumberParts(code.dim, DimBits) ELSE <<>>)
    <2>1. state \in Nat /\ state >= UnitEnd
      BY <1>1, FieldOrder
    <2>2. BitsHeard(state, code) = UnitHeard(code) \o NumberParts(code.dim, BitsSince(state, UnitEnd))
      BY <2>1, BitsHeardIs
    <2>3. CASE state = DimEnd + 1
      <3>1. BitsSince(state, UnitEnd) = DimBits
        BY <2>3, FieldStates DEF BitsSince
      <3>2. QED
        BY <2>2, <2>3, <3>1
    <2>4. CASE state = UnitEnd + 1 /\ state /= DimEnd + 1
      <3>1. BitsSince(state, UnitEnd) = 0
        BY <2>4, FieldStates DEF BitsSince
      <3>2. QED
        BY <2>2, <2>4, <3>1, NumberPartsNone
    <2>5. QED
      BY <1>1, <2>3, <2>4
  <1>5. heard' = CodeParts([frame EXCEPT !.dimPresent = p]) \o <<S>>
    BY <1>1, <1>2, <1>3, <1>4
  <1>6. p \in BOOLEAN
    OBVIOUS
  <1> HIDE DEF frame, p
  <1>7. QED
    BY <1>1, <1>5, <1>6 DEF HeardIsDecoded

LEMMA NextDecoded == TypeOK /\ DInv /\ [Next]_receiverVars => DInv'
  <1> SUFFICES ASSUME TypeOK, HeardSoFar, HeardIsDecoded, [Next]_receiverVars
               PROVE  HeardSoFar' /\ HeardIsDecoded'
    BY DEF DInv
  <1> state \in Int /\ DimEnd \in Nat
    BY StateNumbers DEF TypeOK
  <1>1. ASSUME Reset \/ Sync \/ Enable \/ Overrun \/ NegativeState
        PROVE  HeardSoFar' /\ HeardIsDecoded'
    <2>1. called' = {} /\ state' \in Int /\ (state' <= 0 \/ state' > DimEnd + 1)
      BY <1>1, StateNumbers DEF Reset, Sync, Enable, Overrun, NegativeState
    <2>2. QED
      BY <2>1, NoCall, NotInBits
  <1>2. ASSUME EdgeSkipped(gap') \/ EdgeTooEarly(gap') \/ WaitForSync \/ Disable
        PROVE  HeardSoFar' /\ HeardIsDecoded'
    <2>1. called' = {} /\ UNCHANGED <<state, parts, code, heard>>
      BY <1>2 DEF EdgeSkipped, EdgeTooEarly, WaitForSync, Disable
    <2>2. QED
      BY <2>1, NoCall, BitsAlone
  <1>3. ASSUME StartHigh \/ StartLow
        PROVE  HeardSoFar' /\ HeardIsDecoded'
    <2>1. called' = {}
      BY <1>3 DEF StartHigh, StartLow
    <2>2. QED
      BY <1>3, <2>1, NoCall, StartDecoded
  <1>4. ASSUME BitPart \/ BitEnd
        PROVE  HeardSoFar' /\ HeardIsDecoded'
    <2>1. called' = {}
      BY <1>4 DEF BitPart, BitEnd
    <2>2. QED
      BY <1>4, <2>1, NoCall, PartDecoded
  <1>5. ASSUME FrameEnd
        PROVE  HeardSoFar' /\ HeardIsDecoded'
    <2>1. state' \in Int /\ state' <= 0
      BY <1>5 DEF FrameEnd
    <2>2. QED
      BY <1>5, <2>1, FrameDecoded, NotInBits
  <1>6. CASE \E g \in Gaps : Edge(g)
    <2>1. PICK g \in Gaps : Edge(g)
      BY <1>6
    <2>2. CASE EdgeSkipped(g) \/ EdgeTooEarly(g)
      <3>1. EdgeSkipped(gap') \/ EdgeTooEarly(gap')
        BY <2>2 DEF EdgeSkipped, EdgeTooEarly
      <3>2. QED
        BY <1>2, <3>1
    <2>3. CASE Interpret
      <3>1. StartWrong \/ BitWrong => Reset
        BY DEF StartWrong, BitWrong
      <3>2. QED
        BY <1>1, <1>2, <1>3, <1>4, <1>5, <2>3, <3>1 DEF Interpret
    <2>4. QED
      BY <2>1, <2>2, <2>3 DEF Edge
  <1>7. CASE UNCHANGED receiverVars
    <2>1. UNCHANGED <<state, parts, code, heard, called>>
      BY <1>7 DEF receiverVars
    <2>2. QED
      BY <2>1, BitsAlone DEF HeardIsDecoded
  <1>8. QED
    BY <1>1, <1>2, <1>6, <1>7 DEF Next

\* The code passed to the callback is the one that the parts of the last
\* frame encode, for every width of the fields.
THEOREM DecodedIsHeard == Spec => []HeardIsDecoded
  <1>1. Init => DInv
    <2>1. Init => HeardSoFar
      BY FieldStates DEF Init, HeardSoFar, InBits
    <2>2. Init => HeardIsDecoded
      BY DEF Init, HeardIsDecoded
    <2>3. QED
      BY <2>1, <2>2 DEF DInv
  <1>2. DInv => HeardIsDecoded
    BY DEF DInv
  <1>3. QED
    BY <1>1, <1>2, NextDecoded, TypeCorrect, PTL DEF Spec

--------------------------------------------------------------------------------
(* A press is the same frame again and again.                              *)

LEMMA FlattenFours ==
  ASSUME NEW T, NEW s \in Seq(Seq(T)), \A k \in 1 .. Len(s) : Len(s[k]) = 4
  PROVE  /\ Len(FlattenSeq(s)) = 4 * Len(s)
         /\ \A k \in 1 .. Len(s) : \A j \in 1 .. 4 : FlattenSeq(s)[4 * (k - 1) + j] = s[k][j]
  <1> DEFINE Good(t, k) ==
               /\ t \in Seq(T) /\ Len(t) = 4 * k
               /\ \A m \in 1 .. k : \A j \in 1 .. 4 : t[4 * (m - 1) + j] = s[m][j]
  <1>1. CASE Len(s) = 0
    BY <1>1 DEF FlattenSeq
  <1>2. CASE Len(s) > 0
    <2>1. PICK f \in [1 .. Len(s) -> Seq(T)] : IsFlat(f, s) /\ FlattenSeq(s) = f[Len(s)]
      BY <1>2, FlattenIs
    <2> DEFINE Bad == {k \in 1 .. Len(s) : ~Good(f[k], k)}
    <2>2. Bad = {}
      <3> SUFFICES ASSUME Bad /= {} PROVE FALSE
        OBVIOUS
      <3>1. PICK k \in Bad : \A m \in Bad : k <= m
        <4>1. Bad \subseteq Nat
          OBVIOUS
        <4> HIDE DEF Bad
        <4>2. QED
          BY <4>1, Least
      <3>2. k \in 1 .. Len(s) /\ ~Good(f[k], k) /\ Len(s) \in Nat
        BY <3>1
      <3> HIDE DEF Bad, Good
      <3>3. s[k] \in Seq(T) /\ Len(s[k]) = 4
        BY <3>2
      <3>4. f[k] = IF k = 1 THEN s[k] ELSE f[k - 1] \o s[k]
        BY <2>1, <3>2 DEF IsFlat
      <3>5. CASE k = 1
        <4>1. f[k] = s[k]
          BY <3>4, <3>5
        <4>2. \A m \in 1 .. k : m = 1 /\ 4 * (m - 1) = 0
          BY <3>5
        <4>3. Good(f[k], k)
          BY <3>3, <3>5, <4>1, <4>2 DEF Good
        <4>4. QED
          BY <3>2, <4>3
      <3>6. CASE k /= 1
        <4>1. k - 1 \in 1 .. Len(s) /\ k - 1 \notin Bad
          <5>1. k - 1 \in 1 .. Len(s) /\ ~(k <= k - 1)
            BY <3>2, <3>6
          <5>2. QED
            BY <3>1, <5>1
        <4>2. Good(f[k - 1], k - 1)
          BY <4>1 DEF Bad
        <4>3. f[k] = f[k - 1] \o s[k]
          BY <3>4, <3>6
        <4>4. /\ f[k] \in Seq(T) /\ Len(f[k]) = 4 * k
              /\ \A i \in 1 .. 4 * k : f[k][i] = IF i <= 4 * (k - 1) THEN f[k - 1][i]
                                              ELSE s[k][i - 4 * (k - 1)]
          <5>1. PICK t \in Seq(T) : t = f[k - 1] /\ Len(t) = 4 * (k - 1)
            BY <4>2 DEF Good
          <5>2. PICK u \in Seq(T) : u = s[k] /\ Len(u) = 4
            BY <3>3
          <5>3. /\ t \o u \in Seq(T) /\ Len(t \o u) = Len(t) + Len(u)
                /\ \A i \in 1 .. Len(t) + Len(u) :
                     (t \o u)[i] = IF i <= Len(t) THEN t[i] ELSE u[i - Len(t)]
            BY ConcatProperties
          <5>4. Len(t) + Len(u) = 4 * k
            BY <3>2, <5>1, <5>2
          <5>5. QED
            BY <4>3, <5>1, <5>2, <5>3, <5>4
        <4>5. ASSUME NEW m \in 1 .. k, NEW j \in 1 .. 4
              PROVE  f[k][4 * (m - 1) + j] = s[m][j]
          <5>1. CASE m = k
            <6> DEFINE i == 4 * (m - 1) + j
            <6>1. i \in 1 .. 4 * k /\ ~(i <= 4 * (k - 1)) /\ i - 4 * (k - 1) = j
              BY <3>2, <5>1
            <6> HIDE DEF i
            <6>2. f[k][i] = s[k][j]
              BY <4>4, <6>1
            <6>3. QED
              BY <5>1, <6>2 DEF i
          <5>2. CASE m /= k
            <6> DEFINE i == 4 * (m - 1) + j
            <6>1. m \in 1 .. k - 1 /\ i \in 1 .. 4 * k /\ i <= 4 * (k - 1)
              BY <3>2, <5>2
            <6>2. f[k - 1][i] = s[m][j]
              BY <4>2, <6>1 DEF Good
            <6> HIDE DEF i
            <6>3. f[k][i] = f[k - 1][i]
              BY <4>4, <6>1
            <6>4. QED
              BY <6>2, <6>3 DEF i
          <5>3. QED
            BY <5>1, <5>2
        <4>6. QED
          BY <3>2, <4>4, <4>5 DEF Good
      <3>7. QED
        BY <3>5, <3>6
    <2>3. Len(s) \in 1 .. Len(s)
      BY <1>2
    <2>4. Good(f[Len(s)], Len(s))
      BY <2>2, <2>3
    <2>5. QED
      BY <2>1, <2>4
  <1>3. Len(s) \in Nat
    OBVIOUS
  <1>4. QED
    BY <1>1, <1>2, <1>3

Copies(x, n) == FlattenSeq([k \in 1 .. n |-> x])

LEMMA CopiesType ==
  ASSUME NEW T, NEW x \in Seq(T), NEW n \in Nat
  PROVE  Copies(x, n) \in Seq(T)
  <1>1. [k \in 1 .. n |-> x] \in Seq(Seq(T))
    OBVIOUS
  <1>2. QED
    BY <1>1, FlattenType DEF Copies

LEMMA CopiesNone == ASSUME NEW x PROVE Copies(x, 0) = <<>>
  <1>1. [k \in 1 .. 0 |-> x] = <<>>
    OBVIOUS
  <1>2. FlattenSeq(<<>>) = <<>>
    BY DEF FlattenSeq
  <1>3. QED
    BY <1>1, <1>2 DEF Copies

LEMMA CopiesLast ==
  ASSUME NEW T, NEW x \in Seq(T), NEW n \in Nat
  PROVE  Copies(x, n + 1) = Copies(x, n) \o x
  <1> DEFINE s == [k \in 1 .. n |-> x]
             t == [k \in 1 .. n + 1 |-> x]
  <1>1. s \in Seq(Seq(T)) /\ Len(s) = n /\ t \in Seq(Seq(T)) /\ Len(t) = n + 1
    OBVIOUS
  <1>2. (\A k \in 1 .. n : t[k] = s[k]) /\ t[n + 1] = x
    OBVIOUS
  <1> HIDE DEF s, t
  <1>3. FlattenSeq(t) = FlattenSeq(s) \o t[n + 1]
    BY <1>1, <1>2, FlattenLast
  <1>4. QED
    BY <1>2, <1>3 DEF Copies, s, t

LEMMA CopiesFirst ==
  ASSUME NEW T, NEW x \in Seq(T), NEW n \in Nat
  PROVE  Copies(x, n + 1) = x \o Copies(x, n)
  <1> DEFINE Bad == {k \in Nat : Copies(x, k + 1) /= x \o Copies(x, k)}
  <1> SUFFICES ASSUME Bad /= {} PROVE FALSE
    OBVIOUS
  <1>1. PICK k \in Bad : \A j \in Bad : k <= j
    <2>1. Bad \subseteq Nat
      OBVIOUS
    <2> HIDE DEF Bad
    <2>2. QED
      BY <2>1, Least
  <1>2. k \in Nat /\ Copies(x, k + 1) /= x \o Copies(x, k)
    BY <1>1
  <1>3. Copies(x, k + 1) = Copies(x, k) \o x /\ Copies(x, k) \in Seq(T)
    BY <1>2, CopiesLast, CopiesType
  <1>4. CASE k = 0
    <2>1. Copies(x, k) = <<>>
      BY <1>4, CopiesNone
    <2>2. <<>> \o x = x /\ x \o <<>> = x
      OBVIOUS
    <2>3. QED
      BY <1>2, <1>3, <2>1, <2>2
  <1>5. CASE k /= 0
    <2>1. k - 1 \in Nat /\ k - 1 \notin Bad /\ (k - 1) + 1 = k
      <3>1. k - 1 \in Nat /\ (k - 1) + 1 = k /\ ~(k <= k - 1)
        BY <1>2, <1>5
      <3> HIDE DEF Bad
      <3>2. QED
        BY <1>1, <3>1
    <2>2. Copies(x, k) = x \o Copies(x, k - 1)
      BY <2>1
    <2>3. Copies(x, k) = Copies(x, k - 1) \o x /\ Copies(x, k - 1) \in Seq(T)
      <3>1. Copies(x, (k - 1) + 1) = Copies(x, k - 1) \o x
        BY <2>1, CopiesLast
      <3>2. QED
        BY <2>1, <3>1, CopiesType
    <2>4. PICK c \in Seq(T) : c = Copies(x, k - 1)
      BY <2>3
    <2>5. (x \o c) \o x = x \o (c \o x)
      BY ConcatAssociative
    <2>6. QED
      BY <1>2, <1>3, <2>2, <2>3, <2>4, <2>5
  <1>6. QED
    BY <1>4, <1>5

\* The gaps of a press that are to come when i intervals of a frame x have
\* passed and n frames follow it.  The last interval of a press is no gap.
Ahead(x, i, n) == SubSeq(x, i + 1, Len(x)) \o Copies(x, n)
Gone(x, i, n) == Front(Ahead(x, i, n))

LEMMA CopiesLength ==
  ASSUME NEW T, NEW x \in Seq(T), NEW n \in Nat, n > 0
  PROVE  Len(Copies(x, n)) >= Len(x)
  <1>1. n - 1 \in Nat /\ (n - 1) + 1 = n
    OBVIOUS
  <1>2. Copies(x, (n - 1) + 1) = x \o Copies(x, n - 1) /\ Copies(x, n - 1) \in Seq(T)
    BY <1>1, CopiesFirst, CopiesType
  <1>3. Copies(x, n) = x \o Copies(x, n - 1)
    BY <1>1, <1>2
  <1>4. QED
    BY <1>2, <1>3

LEMMA FrontHeadTail ==
  ASSUME NEW T, NEW p \in Seq(T), Len(p) > 1
  PROVE  /\ Front(p) /= <<>> /\ Head(Front(p)) = p[1]
         /\ Tail(Front(p)) = Front(Tail(p))
  <1>1. Len(p) \in Nat /\ 1 \in 1 .. Len(p) /\ 2 \in 1 .. Len(p) /\ Len(p) \in 2 .. Len(p)
        /\ Len(p) - 1 \in 1 .. Len(p) /\ p /= <<>>
    OBVIOUS
  <1>2. Head(Front(p)) = p[1] /\ Tail(Front(p)) = SubSeq(p, 2, Len(p) - 1)
    BY <1>1, HeadTailOfSubSeq DEF Front
  <1>3. Tail(p) = SubSeq(p, 2, Len(p)) /\ Len(Tail(p)) = Len(p) - 1
    BY <1>1, TailIsSubSeq, HeadTailProperties
  <1>4. Front(Tail(p)) = SubSeq(p, 2, Len(p) - 1)
    <2> DEFINE t == Tail(p)
               a == SubSeq(t, 1, Len(p) - 2)
               b == SubSeq(p, 2, Len(p) - 1)
    <2>1. /\ t \in Seq(T) /\ Len(t) = Len(p) - 1
          /\ \A k \in 1 .. Len(p) - 1 : t[k] = p[k + 1]
      BY <1>1, HeadTailProperties
    <2> HIDE DEF t
    <2>2. \A k \in 1 .. Len(p) - 2 : t[k] \in T
      BY <1>1, <2>1
    <2>3. /\ a \in Seq(T) /\ Len(a) = IF 1 <= Len(p) - 2 THEN (Len(p) - 2) - 1 + 1 ELSE 0
          /\ \A k \in 1 .. (Len(p) - 2) - 1 + 1 : a[k] = t[1 + k - 1]
      BY <1>1, <2>2, SubSeqProperties
    <2>4. \A k \in 2 .. Len(p) - 1 : p[k] \in T
      BY <1>1
    <2>5. /\ b \in Seq(T) /\ Len(b) = IF 2 <= Len(p) - 1 THEN (Len(p) - 1) - 2 + 1 ELSE 0
          /\ \A k \in 1 .. (Len(p) - 1) - 2 + 1 : b[k] = p[2 + k - 1]
      BY <1>1, <2>4, SubSeqProperties
    <2> HIDE DEF a, b
    <2>6. Len(a) = Len(p) - 2 /\ Len(b) = Len(p) - 2
      <3>1. PICK n \in Nat : n = Len(p) /\ n >= 2
        BY <1>1
      <3>2. /\ (IF 1 <= n - 2 THEN (n - 2) - 1 + 1 ELSE 0) = n - 2
            /\ (IF 2 <= n - 1 THEN (n - 1) - 2 + 1 ELSE 0) = n - 2
        BY <3>1
      <3>3. QED
        BY <2>3, <2>5, <3>1, <3>2
    <2>7. ASSUME NEW k \in 1 .. Len(a) PROVE a[k] = b[k]
      <3>1. k \in 1 .. (Len(p) - 2) - 1 + 1 /\ k \in 1 .. (Len(p) - 1) - 2 + 1
            /\ k \in 1 .. Len(p) - 1 /\ 1 + k - 1 = k /\ 2 + k - 1 = k + 1
        BY <1>1, <2>6
      <3>2. a[k] = t[k] /\ b[k] = p[k + 1]
        BY <2>3, <2>5, <3>1
      <3>3. QED
        BY <2>1, <3>1, <3>2
    <2>8. a = b
      BY <2>3, <2>5, <2>6, <2>7, SeqEqual
    <2>9. Len(t) - 1 = Len(p) - 2
      BY <1>1, <2>1
    <2>10. QED
      BY <2>8, <2>9 DEF Front, a, b, t
  <1>5. Front(p) /= <<>>
    <2>1. \A k \in 1 .. Len(p) - 1 : p[k] \in T
      BY <1>1
    <2>2. Len(Front(p)) = IF 1 <= Len(p) - 1 THEN (Len(p) - 1) - 1 + 1 ELSE 0
      BY <1>1, <2>1, SubSeqProperties DEF Front
    <2>3. QED
      BY <1>1, <2>2
  <1>6. QED
    BY <1>2, <1>3, <1>4, <1>5

LEMMA JoinTail ==
  ASSUME NEW T, NEW a \in Seq(T), NEW c \in Seq(T), Len(a) > 0
  PROVE  /\ a \o c \in Seq(T) /\ Len(a \o c) = Len(a) + Len(c)
         /\ (a \o c)[1] = a[1] /\ Tail(a \o c) = Tail(a) \o c
  <1>1. Len(a) \in Nat /\ Len(c) \in Nat /\ a /= <<>>
    OBVIOUS
  <1>2. PICK p \in Seq(T) : /\ p = a \o c /\ Len(p) = Len(a) + Len(c)
                            /\ \A k \in 1 .. Len(a) + Len(c) :
                                 p[k] = IF k <= Len(a) THEN a[k] ELSE c[k - Len(a)]
    <2>1. /\ a \o c \in Seq(T) /\ Len(a \o c) = Len(a) + Len(c)
          /\ \A k \in 1 .. Len(a) + Len(c) :
               (a \o c)[k] = IF k <= Len(a) THEN a[k] ELSE c[k - Len(a)]
      BY ConcatProperties
    <2>2. QED
      BY <2>1, Zenon
  <1>3. PICK t \in Seq(T) : /\ t = Tail(a) /\ Len(t) = Len(a) - 1
                            /\ \A k \in 1 .. Len(t) : t[k] = a[k + 1]
    BY <1>1, HeadTailProperties
  <1>4. PICK q \in Seq(T) : /\ q = t \o c /\ Len(q) = Len(t) + Len(c)
                            /\ \A k \in 1 .. Len(t) + Len(c) :
                                 q[k] = IF k <= Len(t) THEN t[k] ELSE c[k - Len(t)]
    <2>1. /\ t \o c \in Seq(T) /\ Len(t \o c) = Len(t) + Len(c)
          /\ \A k \in 1 .. Len(t) + Len(c) :
               (t \o c)[k] = IF k <= Len(t) THEN t[k] ELSE c[k - Len(t)]
      BY ConcatProperties
    <2>2. QED
      BY <2>1, Zenon
  <1>5. p /= <<>>
    BY <1>1, <1>2
  <1>6. PICK r \in Seq(T) : /\ r = Tail(p) /\ Len(r) = Len(p) - 1
                            /\ \A k \in 1 .. Len(r) : r[k] = p[k + 1]
    BY <1>5, HeadTailProperties
  <1>7. Len(r) = Len(q)
    BY <1>1, <1>2, <1>3, <1>4, <1>6
  <1>8. ASSUME NEW k \in 1 .. Len(r) PROVE r[k] = q[k]
    <2>1. k \in 1 .. Len(t) + Len(c) /\ k + 1 \in 1 .. Len(a) + Len(c)
          /\ Len(t) = Len(a) - 1 /\ (k <= Len(t) => k \in 1 .. Len(t))
      BY <1>1, <1>2, <1>3, <1>6
    <2>2. /\ r[k] = IF k + 1 <= Len(a) THEN a[k + 1] ELSE c[k + 1 - Len(a)]
          /\ q[k] = IF k <= Len(t) THEN t[k] ELSE c[k - Len(t)]
      BY <1>2, <1>4, <1>6, <2>1
    <2>3. k + 1 - Len(a) = k - Len(t) /\ (k + 1 <= Len(a) <=> k <= Len(t))
      BY <1>1, <2>1
    <2>4. QED
      BY <1>3, <2>1, <2>2, <2>3
  <1>9. r = q
    BY <1>7, <1>8, SeqEqual
  <1>10. (a \o c)[1] = a[1]
    BY <1>1, <1>2
  <1>11. QED
    BY <1>2, <1>3, <1>4, <1>6, <1>9, <1>10

LEMMA GoneNext ==
  ASSUME NEW T, NEW x \in Seq(T), Len(x) > 1, NEW i \in 0 .. Len(x) - 1, NEW n \in Nat,
         i < Len(x) - 1 \/ n > 0
  PROVE  /\ Gone(x, i, n) /= <<>> /\ Head(Gone(x, i, n)) = x[i + 1]
         /\ Tail(Gone(x, i, n)) = Gone(x, i + 1, n)
  <1>1. PICK c \in Seq(T) : c = Copies(x, n) /\ Len(c) \in Nat
    <2>1. Copies(x, n) \in Seq(T)
      BY CopiesType
    <2>2. Len(Copies(x, n)) \in Nat
      BY <2>1
    <2>3. QED
      BY <2>1, <2>2, Zenon
  <1>2. n > 0 => Len(c) > 1
    <2>1. n > 0 => Len(c) >= Len(x)
      BY <1>1, CopiesLength
    <2>2. Len(x) \in Nat
      OBVIOUS
    <2>3. QED
      BY <1>1, <2>1, <2>2
  <1>3. i + 1 \in Int /\ Len(x) \in Int /\ \A k \in i + 1 .. Len(x) : x[k] \in T
    OBVIOUS
  <1>4. PICK a \in Seq(T) : /\ a = SubSeq(x, i + 1, Len(x))
                            /\ Len(a) = IF i + 1 <= Len(x) THEN Len(x) - (i + 1) + 1 ELSE 0
                            /\ \A k \in 1 .. Len(x) - (i + 1) + 1 : a[k] = x[(i + 1) + k - 1]
    <2> DEFINE b == SubSeq(x, i + 1, Len(x))
    <2>1. /\ b \in Seq(T)
          /\ Len(b) = IF i + 1 <= Len(x) THEN Len(x) - (i + 1) + 1 ELSE 0
          /\ \A k \in 1 .. Len(x) - (i + 1) + 1 : b[k] = x[(i + 1) + k - 1]
      BY <1>3, SubSeqProperties
    <2>2. QED
      BY <2>1, Zenon
  <1>5. Len(a) = Len(x) - i /\ a[1] = x[i + 1] /\ Len(a) > 0
    BY <1>3, <1>4
  <1>6. Tail(a) = SubSeq(x, (i + 1) + 1, Len(x))
    <2>1. i + 1 \in 1 .. Len(x) /\ Len(x) \in i + 1 .. Len(x)
      BY <1>3
    <2>2. QED
      BY <1>4, <2>1, HeadTailOfSubSeq
  <1>7. PICK p \in Seq(T) : /\ p = a \o c /\ Len(p) = Len(a) + Len(c)
                            /\ p[1] = a[1] /\ Tail(p) = Tail(a) \o c
    BY <1>5, JoinTail
  <1>8. Len(p) > 1
    BY <1>1, <1>2, <1>3, <1>5, <1>7
  <1>9. Gone(x, i, n) = Front(p) /\ Gone(x, i + 1, n) = Front(Tail(p))
    BY <1>1, <1>4, <1>6, <1>7 DEF Gone, Ahead
  <1>10. QED
    BY <1>5, <1>7, <1>8, <1>9, FrontHeadTail

LEMMA GoneEnd ==
  ASSUME NEW T, NEW x \in Seq(T), Len(x) > 1
  PROVE  Gone(x, Len(x) - 1, 0) = <<>>
  <1>1. Copies(x, 0) = <<>>
    BY CopiesNone
  <1>2. SubSeq(x, (Len(x) - 1) + 1, Len(x)) \in Seq(T)
        /\ Len(SubSeq(x, (Len(x) - 1) + 1, Len(x))) = 1
    OBVIOUS
  <1>3. QED
    BY <1>1, <1>2 DEF Gone, Ahead, Front

\* After the last interval of a frame comes the next frame.
LEMMA GoneOn ==
  ASSUME NEW T, NEW x \in Seq(T), NEW n \in Nat, n > 0
  PROVE  Gone(x, Len(x), n) = Gone(x, 0, n - 1)
  <1>1. SubSeq(x, Len(x) + 1, Len(x)) = <<>> /\ SubSeq(x, 0 + 1, Len(x)) = x
    OBVIOUS
  <1>2. n - 1 \in Nat /\ (n - 1) + 1 = n
    OBVIOUS
  <1>3. Copies(x, (n - 1) + 1) = x \o Copies(x, n - 1) /\ Copies(x, n) \in Seq(T)
    BY <1>2, CopiesFirst, CopiesType
  <1>4. <<>> \o Copies(x, n) = Copies(x, n)
    BY <1>3
  <1>5. QED
    BY <1>1, <1>2, <1>3, <1>4 DEF Gone, Ahead

--------------------------------------------------------------------------------
(* The intervals of a frame.                                               *)

\* What the send routines make of their arguments.
IsCommand(c) ==
  /\ c \in Codes
  /\ Fits(c.address, AddressBits) /\ Fits(c.unit, UnitBits) /\ Fits(c.dim, DimBits)
  /\ ~c.dimPresent => c.dim = 0

BitCount(c) == AddressBits + 2 + UnitBits + (IF c.dimPresent THEN DimBits ELSE 0)

\* The parts of bit b of a frame, the first one being bit 0.
BitOf(c, b) ==
  CASE b < AddressBits -> BitParts(RightShift(c.address, AddressBits - (b + 1)) % 2)
    [] b = AddressBits -> BitParts(Flag(c.group))
    [] b = AddressBits + 1 -> SwitchParts(c.switch)
    [] b \in AddressBits + 2 .. AddressBits + 1 + UnitBits ->
         BitParts(RightShift(c.unit, UnitBits - (b - (AddressBits + 2) + 1)) % 2)
    [] OTHER ->
         BitParts(RightShift(c.dim, DimBits - (b - (AddressBits + 2 + UnitBits) + 1)) % 2)

LEMMA SentCommand == ASSUME NEW c \in SentCodes PROVE IsCommand(c)
  <1>1. /\ c \in SendableCodes
        /\ Fits(c.address, AddressBits) /\ Fits(c.unit, UnitBits) /\ Fits(c.dim, DimBits)
    BY LinkAssumption DEF LinkAssumption
  <1>2. ASSUME NEW n, NEW v \in 0 .. n PROVE v \in Nat
    OBVIOUS
  <1>3. /\ \A a \in Addresses : a \in Nat
        /\ \A u \in Units : u \in Nat
        /\ \A d \in DimLevels : d \in Nat
    BY <1>2 DEF Addresses, Units, DimLevels
  <1>4. c \in Codes /\ (~c.dimPresent => c.dim = 0)
    <2>1. ASSUME NEW a \in Addresses, NEW u \in Units, NEW on \in BOOLEAN, c = UnitCode(a, u, on)
          PROVE  c \in Codes /\ (~c.dimPresent => c.dim = 0)
      BY <1>3, <2>1 DEF UnitCode, Codes
    <2>2. ASSUME NEW a \in Addresses, NEW on \in BOOLEAN, c = GroupCode(a, on)
          PROVE  c \in Codes /\ (~c.dimPresent => c.dim = 0)
      <3>1. c = [address |-> a, group |-> TRUE, switch |-> IF on THEN "on" ELSE "off",
                 unit |-> 0, dimPresent |-> FALSE, dim |-> 0]
        BY <2>2 DEF UnitCode, GroupCode
      <3>2. QED
        BY <1>3, <3>1 DEF Codes
    <2>3. ASSUME NEW a \in Addresses, NEW u \in Units, NEW d \in DimLevels, c = DimCode(a, u, d)
          PROVE  c \in Codes /\ (~c.dimPresent => c.dim = 0)
      <3>1. c = [address |-> a, group |-> FALSE, switch |-> "dim",
                 unit |-> u, dimPresent |-> TRUE, dim |-> d]
        BY <2>3 DEF UnitCode, DimCode
      <3>2. QED
        BY <1>3, <3>1 DEF Codes
    <2>4. ASSUME NEW a \in Addresses, NEW d \in DimLevels, c = GroupDimCode(a, d)
          PROVE  c \in Codes /\ (~c.dimPresent => c.dim = 0)
      <3>1. c = [address |-> a, group |-> TRUE, switch |-> "dim",
                 unit |-> 0, dimPresent |-> TRUE, dim |-> d]
        BY <2>4 DEF UnitCode, DimCode, GroupDimCode
      <3>2. QED
        BY <1>3, <3>1 DEF Codes
    <2>5. QED
      BY <1>1, <2>1, <2>2, <2>3, <2>4 DEF SendableCodes
  <1>5. QED
    BY <1>1, <1>4 DEF IsCommand

LEMMA NumberPartsAre ==
  ASSUME NEW v \in Nat, NEW n \in Nat
  PROVE  /\ NumberParts(v, n) \in Seq({S, L}) /\ Len(NumberParts(v, n)) = 4 * n
         /\ \A k \in 1 .. n : \A j \in 1 .. 4 :
              NumberParts(v, n)[4 * (k - 1) + j] = BitParts(RightShift(v, n - k) % 2)[j]
  <1>1. Bits(v, n) \in Seq(Seq({S, L})) /\ Len(Bits(v, n)) = n
    BY BitsType
  <1>2. ASSUME NEW b PROVE Len(BitParts(b)) = 4
    BY DEF BitParts
  <1>3. \A k \in 1 .. n : Bits(v, n)[k] = BitParts(RightShift(v, n - k) % 2)
    BY DEF Bits
  <1>4. \A k \in 1 .. n : Len(Bits(v, n)[k]) = 4
    BY <1>2, <1>3
  <1>5. PICK s \in Seq(Seq({S, L})) : s = Bits(v, n) /\ Len(s) = n
    BY <1>1
  <1>6. \A k \in 1 .. Len(s) : Len(s[k]) = 4
    BY <1>4, <1>5
  <1>7. /\ Len(FlattenSeq(s)) = 4 * Len(s)
        /\ \A k \in 1 .. Len(s) : \A j \in 1 .. 4 : FlattenSeq(s)[4 * (k - 1) + j] = s[k][j]
    BY <1>6, FlattenFours
  <1>8. NumberParts(v, n) = FlattenSeq(s)
    BY <1>5 DEF NumberParts, Bits
  <1>9. QED
    BY <1>3, <1>5, <1>7, <1>8, NumberPartsType

\* z is x followed by y.
Joined(x, y, z) ==
  /\ z = x \o y /\ Len(z) = Len(x) + Len(y)
  /\ \A i \in 1 .. Len(x) : z[i] = x[i]
  /\ \A i \in 1 .. Len(y) : z[Len(x) + i] = y[i]

LEMMA Join ==
  ASSUME NEW T, NEW x \in Seq(T), NEW y \in Seq(T)
  PROVE  \E z \in Seq(T) : Joined(x, y, z)
  <1>1. Len(x) \in Nat /\ Len(y) \in Nat
    OBVIOUS
  <1>2. /\ x \o y \in Seq(T) /\ Len(x \o y) = Len(x) + Len(y)
        /\ \A i \in 1 .. Len(x) + Len(y) :
             (x \o y)[i] = IF i <= Len(x) THEN x[i] ELSE y[i - Len(x)]
    BY ConcatProperties
  <1>3. \A i \in 1 .. Len(x) : (x \o y)[i] = x[i]
    BY <1>1, <1>2
  <1>4. ASSUME NEW i \in 1 .. Len(y) PROVE (x \o y)[Len(x) + i] = y[i]
    <2>1. /\ Len(x) + i \in 1 .. Len(x) + Len(y) /\ ~(Len(x) + i <= Len(x))
          /\ (Len(x) + i) - Len(x) = i
      BY <1>1
    <2>2. QED
      BY <1>2, <2>1
  <1>5. Joined(x, y, x \o y)
    BY <1>2, <1>3, <1>4 DEF Joined
  <1>6. QED
    BY <1>2, <1>5

LEMMA SwitchPartsType ==
  ASSUME NEW s \in {"off", "on", "dim"}
  PROVE  SwitchParts(s) \in Seq({S, L}) /\ Len(SwitchParts(s)) = 4
  <1>1. <<S, S, S, S>> \in Seq({S, L}) /\ Len(<<S, S, S, S>>) = 4
    OBVIOUS
  <1>2. \A b : Len(BitParts(b)) = 4
    BY DEF BitParts
  <1>3. QED
    BY <1>1, <1>2, BitPartsType DEF SwitchParts, DimParts

\* What is sent is four parts a bit.
LEMMA CodePartsAre ==
  ASSUME NEW c, IsCommand(c)
  PROVE  /\ CodeParts(c) \in Seq({S, L}) /\ Len(CodeParts(c)) = 4 * BitCount(c)
         /\ \A b \in 0 .. BitCount(c) - 1 : \A j \in 1 .. 4 :
              CodeParts(c)[4 * b + j] = BitOf(c, b)[j]
  <1>1. /\ c.address \in Nat /\ c.unit \in Nat /\ c.dim \in Nat
        /\ c.switch \in {"off", "on", "dim"} /\ c.dimPresent \in BOOLEAN
    BY DEF IsCommand, Codes
  <1>2. AddressBits \in Nat \ {0} /\ UnitBits \in Nat \ {0} /\ DimBits \in Nat \ {0}
    BY FieldStates
  <1>3. PICK a \in Seq({S, L}) :
          /\ a = NumberParts(c.address, AddressBits) /\ Len(a) = 4 * AddressBits
          /\ \A k \in 1 .. AddressBits : \A j \in 1 .. 4 :
               a[4 * (k - 1) + j] = BitParts(RightShift(c.address, AddressBits - k) % 2)[j]
    BY <1>1, <1>2, NumberPartsAre, Zenon
  <1>4. PICK g \in Seq({S, L}) : g = BitParts(Flag(c.group)) /\ Len(g) = 4
    <2>1. BitParts(Flag(c.group)) \in Seq({S, L})
      BY BitPartsType
    <2>2. Len(BitParts(Flag(c.group))) = 4
      BY DEF BitParts
    <2>3. QED
      BY <2>1, <2>2, Zenon
  <1>5. PICK s \in Seq({S, L}) : s = SwitchParts(c.switch) /\ Len(s) = 4
    BY <1>1, SwitchPartsType
  <1>6. PICK u \in Seq({S, L}) :
          /\ u = NumberParts(c.unit, UnitBits) /\ Len(u) = 4 * UnitBits
          /\ \A k \in 1 .. UnitBits : \A j \in 1 .. 4 :
               u[4 * (k - 1) + j] = BitParts(RightShift(c.unit, UnitBits - k) % 2)[j]
    BY <1>1, <1>2, NumberPartsAre, Zenon
  <1>7. PICK d \in Seq({S, L}) :
          /\ d = IF c.dimPresent THEN NumberParts(c.dim, DimBits) ELSE <<>>
          /\ Len(d) = IF c.dimPresent THEN 4 * DimBits ELSE 0
          /\ c.dimPresent => \A k \in 1 .. DimBits : \A j \in 1 .. 4 :
               d[4 * (k - 1) + j] = BitParts(RightShift(c.dim, DimBits - k) % 2)[j]
    <2>1. CASE c.dimPresent
      <3>1. PICK n \in Seq({S, L}) :
              /\ n = NumberParts(c.dim, DimBits) /\ Len(n) = 4 * DimBits
              /\ \A k \in 1 .. DimBits : \A j \in 1 .. 4 :
                   n[4 * (k - 1) + j] = BitParts(RightShift(c.dim, DimBits - k) % 2)[j]
        BY <1>1, <1>2, NumberPartsAre, Zenon
      <3>2. QED
        BY <2>1, <3>1
    <2>2. CASE ~c.dimPresent
      <3>1. <<>> \in Seq({S, L}) /\ Len(<<>>) = 0
        OBVIOUS
      <3>2. PICK n \in Seq({S, L}) : n = <<>> /\ Len(n) = 0
        BY <3>1, Zenon
      <3>3. /\ n = IF c.dimPresent THEN NumberParts(c.dim, DimBits) ELSE <<>>
            /\ Len(n) = IF c.dimPresent THEN 4 * DimBits ELSE 0
        BY <2>2, <3>2
      <3>4. QED
        BY <2>2, <3>3, Zenon
    <2>3. QED
      BY <2>1, <2>2
  <1>8. PICK ag \in Seq({S, L}) : Joined(a, g, ag)
    BY Join
  <1>9. PICK ags \in Seq({S, L}) : Joined(ag, s, ags)
    BY Join
  <1>10. PICK agsu \in Seq({S, L}) : Joined(ags, u, agsu)
    BY Join
  <1>11. PICK p \in Seq({S, L}) : Joined(agsu, d, p)
    BY Join
  <1>12. CodeParts(c) = p
    BY <1>3, <1>4, <1>5, <1>6, <1>7, <1>8, <1>9, <1>10, <1>11 DEF CodeParts, Joined
  <1> DEFINE A == AddressBits
             U4 == UnitBits
  <1>13. /\ Len(ag) = 4 * A + 4 /\ Len(ags) = 4 * A + 8 /\ Len(agsu) = 4 * A + 8 + 4 * U4
         /\ Len(p) = 4 * BitCount(c)
         /\ Len(a) = 4 * A /\ Len(g) = 4 /\ Len(s) = 4 /\ Len(u) = 4 * U4
         /\ Len(d) = IF c.dimPresent THEN 4 * DimBits ELSE 0
    <2>1. /\ Len(a) = 4 * A /\ Len(g) = 4 /\ Len(s) = 4 /\ Len(u) = 4 * U4
          /\ Len(d) = IF c.dimPresent THEN 4 * DimBits ELSE 0
      BY <1>3, <1>4, <1>5, <1>6, <1>7
    <2>2. /\ Len(ag) = Len(a) + Len(g) /\ Len(ags) = Len(ag) + Len(s)
          /\ Len(agsu) = Len(ags) + Len(u) /\ Len(p) = Len(agsu) + Len(d)
      BY <1>8, <1>9, <1>10, <1>11 DEF Joined
    <2>3. QED
      BY <1>1, <1>2, <2>1, <2>2 DEF BitCount
  <1>14. ASSUME NEW b \in 0 .. BitCount(c) - 1, NEW j \in 1 .. 4
         PROVE  p[4 * b + j] = BitOf(c, b)[j]
    <2> b \in Nat /\ j \in Nat /\ 1 <= j /\ j <= 4 /\ A \in Nat /\ U4 \in Nat
      BY <1>2
    <2> HIDE DEF A, U4
    <2>1. CASE b < A
      <3>1. /\ b + 1 \in 1 .. A /\ 4 * ((b + 1) - 1) + j = 4 * b + j /\ 4 * b + j \in 1 .. Len(a)
            /\ 4 * b + j \in 1 .. Len(ag) /\ 4 * b + j \in 1 .. Len(ags)
            /\ 4 * b + j \in 1 .. Len(agsu)
        BY <1>13, <2>1
      <3>2. p[4 * b + j] = a[4 * b + j]
        BY <1>8, <1>9, <1>10, <1>11, <3>1 DEF Joined
      <3>3. a[4 * ((b + 1) - 1) + j] = BitParts(RightShift(c.address, A - (b + 1)) % 2)[j]
        BY <1>3, <3>1 DEF A
      <3>4. BitOf(c, b) = BitParts(RightShift(c.address, A - (b + 1)) % 2)
        BY <2>1 DEF BitOf, A
      <3>5. QED
        BY <3>1, <3>2, <3>3, <3>4
    <2>2. CASE b = A
      <3>1. /\ 4 * b + j = Len(a) + j /\ j \in 1 .. Len(g)
            /\ Len(a) + j \in 1 .. Len(ag) /\ Len(a) + j \in 1 .. Len(ags)
            /\ Len(a) + j \in 1 .. Len(agsu)
        BY <1>13, <2>2
      <3>2. p[Len(a) + j] = g[j]
        <4>1. ag[Len(a) + j] = g[j]
          BY <1>8, <3>1 DEF Joined
        <4>2. ags[Len(a) + j] = ag[Len(a) + j]
          BY <1>9, <3>1 DEF Joined
        <4>3. agsu[Len(a) + j] = ags[Len(a) + j] /\ p[Len(a) + j] = agsu[Len(a) + j]
          BY <1>10, <1>11, <3>1 DEF Joined
        <4>4. QED
          BY <4>1, <4>2, <4>3
      <3>3. BitOf(c, b) = BitParts(Flag(c.group))
        BY <2>2 DEF BitOf, A
      <3>4. QED
        BY <1>4, <3>1, <3>2, <3>3
    <2>3. CASE b = A + 1
      <3>1. /\ 4 * b + j = Len(ag) + j /\ j \in 1 .. Len(s)
            /\ Len(ag) + j \in 1 .. Len(ags) /\ Len(ag) + j \in 1 .. Len(agsu)
        BY <1>13, <2>3
      <3>2. p[Len(ag) + j] = s[j]
        BY <1>9, <1>10, <1>11, <3>1 DEF Joined
      <3>3. BitOf(c, b) = SwitchParts(c.switch)
        BY <2>3 DEF BitOf, A
      <3>4. QED
        BY <1>5, <3>1, <3>2, <3>3
    <2>4. CASE b \in A + 2 .. A + 1 + U4
      <3>1. PICK k \in 1 .. U4 : k = b - (A + 2) + 1
        <4>1. b - (A + 2) + 1 \in 1 .. U4
          BY <2>4
        <4>2. QED
          BY <4>1
      <3>2. /\ 4 * b + j = Len(ags) + (4 * (k - 1) + j) /\ 4 * (k - 1) + j \in 1 .. Len(u)
            /\ Len(ags) + (4 * (k - 1) + j) \in 1 .. Len(agsu)
        BY <1>13, <2>4, <3>1
      <3>3. p[Len(ags) + (4 * (k - 1) + j)] = u[4 * (k - 1) + j]
        BY <1>10, <1>11, <3>2 DEF Joined
      <3>4. u[4 * (k - 1) + j] = BitParts(RightShift(c.unit, U4 - k) % 2)[j]
        BY <1>6 DEF U4
      <3>5. BitOf(c, b) = BitParts(RightShift(c.unit, U4 - k) % 2)
        BY <2>4, <3>1 DEF BitOf, A, U4
      <3>6. QED
        BY <3>2, <3>3, <3>4, <3>5
    <2>5. CASE b > A + 1 + U4
      <3>1. c.dimPresent /\ b - (A + 2 + U4) + 1 \in 1 .. DimBits
        BY <1>1, <1>2, <2>5 DEF BitCount, A, U4
      <3>2. PICK k \in 1 .. DimBits : k = b - (A + 2 + U4) + 1
        BY <3>1
      <3>3. /\ 4 * b + j = Len(agsu) + (4 * (k - 1) + j) /\ 4 * (k - 1) + j \in 1 .. Len(d)
        BY <1>2, <1>13, <2>5, <3>1, <3>2 DEF U4
      <3>4. p[Len(agsu) + (4 * (k - 1) + j)] = d[4 * (k - 1) + j]
        BY <1>11, <3>3 DEF Joined
      <3>5. d[4 * (k - 1) + j] = BitParts(RightShift(c.dim, DimBits - k) % 2)[j]
        BY <1>7, <3>1
      <3>6. BitOf(c, b) = BitParts(RightShift(c.dim, DimBits - k) % 2)
        <4>1. /\ ~(b < AddressBits) /\ b /= AddressBits /\ b /= AddressBits + 1
              /\ ~(b \in AddressBits + 2 .. AddressBits + 1 + UnitBits)
              /\ k = b - (AddressBits + 2 + UnitBits) + 1
          BY <2>5, <3>2 DEF A, U4
        <4>2. QED
          BY <4>1 DEF BitOf
      <3>7. QED
        BY <3>3, <3>4, <3>5, <3>6
    <2>6. b < A \/ b = A \/ b = A + 1 \/ b \in A + 2 .. A + 1 + U4 \/ b > A + 1 + U4
      OBVIOUS
    <2>7. QED
      BY <2>1, <2>2, <2>3, <2>4, <2>5, <2>6, Zenon
  <1>15. QED
    BY <1>12, <1>13, <1>14

StartUsec == 10 * PeriodUsec + PeriodUsec \div 2
FrameLength(c) == 4 * BitCount(c) + 4

LEMMA BitCountNat ==
  ASSUME NEW c, IsCommand(c)
  PROVE  /\ BitCount(c) \in Nat /\ BitCount(c) > 3 /\ FrameLength(c) \in Nat
         /\ c.dimPresent => 2 + 4 * BitCount(c) = DimEnd
         /\ ~c.dimPresent => 2 + 4 * BitCount(c) = UnitEnd
         /\ 2 + 4 * BitCount(c) <= DimEnd
  <1>1. c.dimPresent \in BOOLEAN
    BY DEF IsCommand, Codes
  <1>2. QED
    BY <1>1, FieldStates DEF BitCount, FrameLength

LEMMA FrameIs ==
  ASSUME NEW c, IsCommand(c)
  PROVE  /\ FrameUsec(c) \in Seq(Nat) /\ Len(FrameUsec(c)) = FrameLength(c)
         /\ FrameUsec(c)[1] = PeriodUsec /\ FrameUsec(c)[2] = StartUsec
         /\ \A k \in 1 .. 4 * BitCount(c) : FrameUsec(c)[2 + k] = PartUsec(CodeParts(c)[k])
         /\ FrameUsec(c)[FrameLength(c) - 1] = PeriodUsec
         /\ FrameUsec(c)[FrameLength(c)] = 40 * PeriodUsec
  <1>1. PeriodUsec \in Nat \ {0}
    BY FrameAssumption DEF FrameAssumption
  <1>2. PICK p \in Seq({S, L}) : p = CodeParts(c) /\ Len(p) = 4 * BitCount(c)
    BY CodePartsAre
  <1>3. BitCount(c) \in Nat
    BY BitCountNat
  <1>4. PICK m \in Seq(Nat) :
          /\ m = [k \in DOMAIN p |-> PartUsec(p[k])]
          /\ Len(m) = 4 * BitCount(c)
          /\ \A k \in 1 .. 4 * BitCount(c) : m[k] = PartUsec(p[k])
    <2>1. \A k \in 1 .. 4 * BitCount(c) : PartUsec(p[k]) \in Nat
      BY <1>1 DEF PartUsec
    <2>2. DOMAIN p = 1 .. 4 * BitCount(c)
      BY <1>2
    <2>3. /\ [k \in 1 .. 4 * BitCount(c) |-> PartUsec(p[k])] \in Seq(Nat)
          /\ Len([k \in 1 .. 4 * BitCount(c) |-> PartUsec(p[k])]) = 4 * BitCount(c)
      <3>1. PICK n \in Nat : n = 4 * BitCount(c)
        BY <1>3
      <3>2. /\ [k \in 1 .. n |-> PartUsec(p[k])] \in Seq(Nat)
            /\ Len([k \in 1 .. n |-> PartUsec(p[k])]) = n
        BY <2>1, <3>1
      <3>3. QED
        BY <3>1, <3>2
    <2>4. QED
      BY <2>2, <2>3
  <1>5. PICK s \in Seq(Nat) : s = <<PeriodUsec, StartUsec>> /\ Len(s) = 2
    <2>1. StartUsec \in Nat
      BY <1>1 DEF StartUsec
    <2>2. <<PeriodUsec, StartUsec>> \in Seq(Nat) /\ Len(<<PeriodUsec, StartUsec>>) = 2
      BY <1>1, <2>1
    <2>3. QED
      BY <2>2
  <1>6. PICK e \in Seq(Nat) : e = <<PeriodUsec, 40 * PeriodUsec>> /\ Len(e) = 2
    <2>1. 40 * PeriodUsec \in Nat
      BY <1>1
    <2>2. <<PeriodUsec, 40 * PeriodUsec>> \in Seq(Nat) /\ Len(<<PeriodUsec, 40 * PeriodUsec>>) = 2
      BY <1>1, <2>1
    <2>3. QED
      BY <2>2
  <1>7. PICK sm \in Seq(Nat) : Joined(s, m, sm)
    BY Join
  <1>8. PICK f \in Seq(Nat) : Joined(sm, e, f)
    BY Join
  <1>9. FrameUsec(c) = f
    BY <1>2, <1>4, <1>5, <1>6, <1>7, <1>8 DEF FrameUsec, Joined, StartUsec
  <1>10. Len(sm) = 2 + 4 * BitCount(c) /\ Len(f) = FrameLength(c)
    BY <1>3, <1>4, <1>5, <1>6, <1>7, <1>8 DEF Joined, FrameLength
  <1>11. f[1] = PeriodUsec /\ f[2] = StartUsec
    <2>1. 1 \in 1 .. Len(s) /\ 2 \in 1 .. Len(s) /\ 1 \in 1 .. Len(sm) /\ 2 \in 1 .. Len(sm)
      BY <1>3, <1>5, <1>10
    <2>2. f[1] = s[1] /\ f[2] = s[2]
      BY <1>7, <1>8, <2>1 DEF Joined
    <2>3. QED
      BY <1>5, <2>2
  <1>12. ASSUME NEW k \in 1 .. 4 * BitCount(c) PROVE f[2 + k] = PartUsec(p[k])
    <2>1. 2 + k \in 1 .. Len(sm) /\ Len(s) + k = 2 + k /\ k \in 1 .. Len(m)
      BY <1>3, <1>4, <1>5, <1>10
    <2>2. f[2 + k] = m[k]
      BY <1>7, <1>8, <2>1 DEF Joined
    <2>3. QED
      BY <1>4, <2>2
  <1>13. f[FrameLength(c) - 1] = PeriodUsec /\ f[FrameLength(c)] = 40 * PeriodUsec
    <2>1. /\ FrameLength(c) - 1 = Len(sm) + 1 /\ FrameLength(c) = Len(sm) + 2
          /\ 1 \in 1 .. Len(e) /\ 2 \in 1 .. Len(e)
      <3>1. Len(sm) = 2 + 4 * BitCount(c) /\ Len(e) = 2
        BY <1>6, <1>10
      <3>2. QED
        BY <1>3, <3>1 DEF FrameLength
    <2>2. f[Len(sm) + 1] = e[1] /\ f[Len(sm) + 2] = e[2]
      BY <1>8, <2>1 DEF Joined
    <2>3. QED
      BY <1>6, <2>1, <2>2
  <1>14. QED
    BY <1>2, <1>9, <1>10, <1>11, <1>12, <1>13

--------------------------------------------------------------------------------
(* A receiver in step with a frame.                                        *)

\* Every time limit the receiver derives from a measured period is computed
\* without wrapping around and lets the shortest interval of a frame through.
Measurable(p) == 40 * p < UIntMod /\ (3 * p) \div 10 <= PeriodUsec

\* The start pulse is one for the measured period.
Fitting == 7 * period <= StartUsec /\ StartUsec <= 15 * period

\* What the receiver has read of command c in state s; p is the presence of a
\* dim level, which it has from the frames before.
Decoded(c, s, p) ==
  [address |-> IF s < AddressEnd THEN RightShift(c.address, AddressBits - BitsSince(s, 2))
               ELSE c.address,
   group |-> IF s >= GroupEnd THEN c.group ELSE FALSE,
   switch |-> IF s >= SwitchEnd THEN c.switch ELSE "off",
   unit |-> IF s < SwitchEnd THEN 0
            ELSE IF s < UnitEnd THEN RightShift(c.unit, UnitBits - BitsSince(s, SwitchEnd))
            ELSE c.unit,
   dimPresent |-> p,
   dim |-> IF s < UnitEnd THEN 0
           ELSE IF s < DimEnd THEN RightShift(c.dim, DimBits - BitsSince(s, UnitEnd))
           ELSE c.dim]

\* The k-th part after the start pulse; the stop pulse begins with a short one.
PartAt(c, k) == IF k <= 4 * BitCount(c) THEN CodeParts(c)[k] ELSE S

\* The receiver has taken k parts since the start pulse, all of them c's.
Taken(c, k) ==
  /\ code = Decoded(c, state, code.dimPresent)
  /\ Len(parts) = k % 4
  /\ \A j \in 1 .. k % 4 : parts[j] = PartAt(c, 4 * (k \div 4) + j)

\* The next interval the receiver completes is the i-th of a frame of c.
InStep(c, i) ==
  /\ state = i - 1
  /\ Measurable(period)
  /\ i = 2 => code = [NoCode EXCEPT !.dimPresent = code.dimPresent] /\ parts = <<>>
  /\ i > 2 => Fitting /\ Taken(c, i - 3)

\* c with the presence of a dim level as the receiver has it.
AsHeld(c) == [c EXCEPT !.dimPresent = code.dimPresent]
\* The intervals of a frame fit the clock, and only its last one is long
\* enough for a sync.
SyncsApart ==
  StartUsec <= 4800 /\ 4800 < 40 * PeriodUsec /\ 120 * PeriodUsec < UIntMod

LEMMA Period == PeriodUsec \in Nat \ {0} /\ UIntMod \in Nat \ {0} /\ StartUsec \in Nat
  BY FrameAssumption, ReceiverAssumption DEF FrameAssumption, ReceiverAssumption, StartUsec

LEMMA Unwrapped == ASSUME NEW x \in Nat, x < UIntMod PROVE U(x) = x
  BY Period DEF U

LEMMA Limits ==
  ASSUME period \in Nat, Measurable(period), SyncsApart
  PROVE  /\ MinPeriod1 <= PeriodUsec
         /\ MaxPeriod1 = 3 * period /\ MinPeriod5 = 3 * period /\ MaxPeriod5 = 8 * period
         /\ U(7 * period) = 7 * period /\ U(15 * period) = 15 * period
         /\ U(20 * period) = 20 * period
         /\ Fitting => U(80 * period) = 80 * period
  <1>1. PICK p \in Nat : p = period
    OBVIOUS
  <1>2. 40 * p < UIntMod /\ (3 * p) \div 10 <= PeriodUsec
    BY <1>1 DEF Measurable
  <1>3. /\ 3 * p \in Nat /\ 3 * p < UIntMod /\ 8 * p \in Nat /\ 8 * p < UIntMod
        /\ 7 * p \in Nat /\ 7 * p < UIntMod /\ 15 * p \in Nat /\ 15 * p < UIntMod
        /\ 20 * p \in Nat /\ 20 * p < UIntMod /\ 80 * p \in Nat
    BY <1>2, Period
  <1>4. /\ U(3 * p) = 3 * p /\ U(8 * p) = 8 * p /\ U(7 * p) = 7 * p
        /\ U(15 * p) = 15 * p /\ U(20 * p) = 20 * p
    BY <1>3, Unwrapped
  <1>5. ASSUME Fitting PROVE U(80 * p) = 80 * p
    <2>1. 7 * p <= 10 * PeriodUsec + PeriodUsec \div 2
      BY <1>1, <1>5 DEF Fitting, StartUsec
    <2>2. 80 * p < UIntMod
      BY <2>1, Period DEF SyncsApart
    <2>3. QED
      BY <1>3, <2>2, Unwrapped
  <1>6. QED
    BY <1>1, <1>2, <1>4, <1>5 DEF MinPeriod1, MaxPeriod1, MinPeriod5, MaxPeriod5

\* The receiver tells a short part, a long part and what is longer apart.
LEMMA Kinds ==
  ASSUME period \in Nat, Measurable(period), SyncsApart, Fitting, Duration \in Nat
  PROVE  /\ Duration = PeriodUsec => IsShort
         /\ Duration = 5 * PeriodUsec => ~IsShort /\ IsLong
         /\ Duration > 12 * PeriodUsec => ~IsShort /\ ~IsLong
         /\ Duration = 40 * PeriodUsec => IsStop
  <1>1. PICK p \in Nat : p = period
    OBVIOUS
  <1>2. 7 * p <= 10 * PeriodUsec + PeriodUsec \div 2 /\ 10 * PeriodUsec + PeriodUsec \div 2 <= 15 * p
    BY <1>1 DEF Fitting, StartUsec
  <1>3. PICK d \in Nat : d = Duration
    OBVIOUS
  <1>4. /\ IsShort <=> d <= 3 * p
        /\ IsLong <=> ~(d <= 3 * p) /\ d >= 3 * p /\ d <= 8 * p
        /\ IsStop <=> d >= 20 * p /\ d <= 80 * p
    BY <1>1, <1>3, Limits DEF IsShort, IsLong, IsStop
  <1>5. /\ PeriodUsec <= 3 * p /\ 5 * PeriodUsec > 3 * p /\ 5 * PeriodUsec <= 8 * p
        /\ 12 * PeriodUsec >= 8 * p /\ 40 * PeriodUsec >= 20 * p /\ 40 * PeriodUsec <= 80 * p
    BY <1>2, Period
  <1>6. /\ d = PeriodUsec => d <= 3 * p
        /\ d = 5 * PeriodUsec => ~(d <= 3 * p) /\ d >= 3 * p /\ d <= 8 * p
        /\ d > 12 * PeriodUsec => ~(d <= 3 * p) /\ ~(d <= 8 * p)
        /\ d = 40 * PeriodUsec => d >= 20 * p /\ d <= 80 * p
    BY <1>5, Period
  <1>7. QED
    BY <1>3, <1>4, <1>6

Listening == TypeOK /\ enabled /\ acc = 0 /\ ~skip

LEMMA DurationIs == ASSUME Listening, gap < UIntMod PROVE Duration = gap /\ gap \in Nat
  <1>1. gap \in Nat /\ acc + gap = gap
    BY DEF Listening, TypeOK
  <1>2. QED
    BY <1>1, Unwrapped DEF Duration

\* No edge is filtered out.
LEMMA Counted ==
  ASSUME Listening, SyncsApart, NEW g \in Nat, g >= PeriodUsec, Edge(g),
         state = -1 \/ Measurable(period)
  PROVE  Interpret /\ gap' = g /\ acc' = 0 /\ ~skip' /\ enabled' = enabled
  <1>1. ~(state >= 0 /\ g < MinPeriod1)
    <2>1. CASE state = -1
      BY <2>1
    <2>2. CASE Measurable(period)
      <3>1. MinPeriod1 <= PeriodUsec
        BY <2>2, Limits DEF Listening, TypeOK
      <3>2. MinPeriod1 \in Nat
        <4>1. period \in Nat
          BY DEF Listening, TypeOK
        <4>2. U(3 * period) \in Nat
          BY <4>1, UnsignedNat
        <4>3. QED
          BY <4>2 DEF MinPeriod1
      <3>3. QED
        BY <3>1, <3>2, Period
    <2>3. QED
      BY <2>1, <2>2
  <1>2. EdgeCounts(g) /\ Interpret
    BY <1>1 DEF Edge, EdgeSkipped, EdgeTooEarly, Listening
  <1>3. enabled' = enabled
    BY <1>2 DEF Interpret, WaitForSync, Sync, StartHigh, StartLow, StartWrong, BitPart, BitEnd,
                BitWrong, FrameEnd, Overrun, NegativeState, Reset
  <1>4. QED
    BY <1>2, <1>3 DEF EdgeCounts

\* Which steps a state leaves.
LEMMA StepOfState ==
  ASSUME Interpret
  PROVE  /\ state = -1 => WaitForSync \/ Sync
         /\ state = 0 => StartHigh \/ StartWrong
         /\ state = 1 => StartLow \/ StartWrong
         /\ state \in 2 .. DimEnd + 1 => BitPart \/ BitEnd \/ BitWrong \/ FrameEnd
  <1>1. /\ WaitForSync \/ Sync => state = -1
        /\ StartHigh => state = 0
        /\ StartLow => state = 1
        /\ StartWrong => state \in {0, 1}
        /\ BitPart \/ BitEnd \/ BitWrong \/ FrameEnd => state \in 2 .. DimEnd + 1
        /\ Overrun => state > DimEnd + 1
        /\ NegativeState => state < -1
    BY DEF WaitForSync, Sync, StartHigh, StartLow, StartWrong, BitPart, BitEnd, BitWrong,
           FrameEnd, Overrun, NegativeState, InBits
  <1>2. DimEnd \in Nat
    BY FieldStates
  <1> HIDE DEF WaitForSync, Sync, StartHigh, StartLow, StartWrong, BitPart, BitEnd, BitWrong,
               FrameEnd, Overrun, NegativeState
  <1>3. CASE state = -1
    BY <1>1, <1>2, <1>3 DEF Interpret
  <1>4. CASE state = 0
    BY <1>1, <1>2, <1>4 DEF Interpret
  <1>5. CASE state = 1
    BY <1>1, <1>2, <1>5 DEF Interpret
  <1>6. CASE state \in 2 .. DimEnd + 1
    BY <1>1, <1>2, <1>6 DEF Interpret
  <1>7. QED
    BY <1>3, <1>4, <1>5, <1>6

--------------------------------------------------------------------------------
(* Reading the bits of a frame.                                            *)

\* One place more halves the number; what is dropped is the bit that is sent.
LEMMA ShiftNext ==
  ASSUME NEW v \in Nat, NEW n \in Nat
  PROVE  RightShift(v, n + 1) = RightShift(v, n) \div 2
  <1>1. PICK f : IsShift(f, v, n + 1) /\ RightShift(v, n + 1) = f[n + 1]
    BY ShiftIs
  <1>2. PICK g : IsShift(g, v, n) /\ RightShift(v, n) = g[n]
    BY ShiftIs
  <1> DEFINE h == [i \in 0 .. n |-> f[i]]
  <1>3. ASSUME NEW i \in 0 .. n
        PROVE  h[i] = IF i = 0 THEN v ELSE h[i - 1] \div 2
    BY <1>1 DEF IsShift
  <1>4. h = [i \in 0 .. n |-> h[i]] /\ h[n] = f[n]
    OBVIOUS
  <1> HIDE DEF h
  <1>5. IsShift(h, v, n)
    BY <1>3, <1>4 DEF IsShift
  <1>6. f[n] = g[n]
    BY <1>2, <1>4, <1>5, ShiftUnique
  <1>7. f[n + 1] = f[n] \div 2
    BY <1>1 DEF IsShift
  <1>8. QED
    BY <1>1, <1>2, <1>6, <1>7

LEMMA ShiftType ==
  ASSUME NEW v \in Nat, NEW n \in Nat
  PROVE  RightShift(v, n) \in 0 .. v
  <1> DEFINE Bad == {k \in Nat : RightShift(v, k) \notin 0 .. v}
  <1> SUFFICES ASSUME Bad /= {} PROVE FALSE
    OBVIOUS
  <1>1. PICK k \in Bad : \A j \in Bad : k <= j
    <2>1. Bad \subseteq Nat
      OBVIOUS
    <2> HIDE DEF Bad
    <2>2. QED
      BY <2>1, Least
  <1>2. k \in Nat /\ RightShift(v, k) \notin 0 .. v
    BY <1>1
  <1>3. k /= 0
    BY <1>2, ShiftZero
  <1>4. k - 1 \in Nat /\ RightShift(v, k - 1) \in 0 .. v
    BY <1>1, <1>2, <1>3
  <1>5. RightShift(v, (k - 1) + 1) = RightShift(v, k - 1) \div 2
    BY <1>4, ShiftNext
  <1>6. QED
    BY <1>2, <1>4, <1>5

\* The next bit of a number.
LEMMA ShiftBit ==
  ASSUME NEW v \in Nat, NEW n \in Nat
  PROVE  /\ RightShift(v, n) \in Nat /\ RightShift(v, n) % 2 \in {0, 1}
         /\ RightShift(v, n) = 2 * RightShift(v, n + 1) + (RightShift(v, n) % 2)
  <1>1. PICK r \in Nat : r = RightShift(v, n)
    BY ShiftType
  <1>2. RightShift(v, n + 1) = r \div 2
    BY <1>1, ShiftNext
  <1>3. r = 2 * (r \div 2) + (r % 2) /\ r % 2 \in {0, 1}
    OBVIOUS
  <1>4. QED
    BY <1>1, <1>2, <1>3

LEMMA BitPartsDiffer ==
  ASSUME NEW b \in {0, 1}, NEW d \in {0, 1}
  PROVE  /\ BitParts(b) = BitParts(d) => b = d
         /\ BitParts(b) /= DimParts
         /\ BitParts(b) \in Seq({S, L}) /\ Len(BitParts(b)) = 4
         /\ DimParts \in Seq({S, L}) /\ Len(DimParts) = 4
  <1>1. /\ BitParts(0)[2] = S /\ BitParts(1)[2] = L /\ BitParts(0)[4] = L /\ DimParts[2] = S
        /\ DimParts[4] = S /\ S /= L
    BY DEF BitParts, DimParts, S, L
  <1>2. DimParts \in Seq({S, L}) /\ Len(DimParts) = 4
    BY DEF DimParts
  <1>3. Len(BitParts(b)) = 4
    BY DEF BitParts
  <1>4. QED
    BY <1>1, <1>2, <1>3, BitPartsType

LEMMA BitKinds ==
  ASSUME NEW c, IsCommand(c), NEW b \in 0 .. BitCount(c) - 1
  PROVE  /\ BitOf(c, b) \in Seq({S, L}) /\ Len(BitOf(c, b)) = 4
         /\ \/ \E d \in {0, 1} : BitOf(c, b) = BitParts(d)
            \/ b = AddressBits + 1 /\ c.switch = "dim" /\ BitOf(c, b) = DimParts
  <1>1. /\ c.address \in Nat /\ c.unit \in Nat /\ c.dim \in Nat
        /\ c.switch \in {"off", "on", "dim"}
    BY DEF IsCommand, Codes
  <1>2. AddressBits \in Nat /\ UnitBits \in Nat /\ DimBits \in Nat /\ BitCount(c) \in Nat
    BY FieldStates, BitCountNat
  <1>3. b \in Nat /\ b < BitCount(c)
    BY <1>2
  <1>4. \/ \E d \in {0, 1} : BitOf(c, b) = BitParts(d)
        \/ b = AddressBits + 1 /\ c.switch = "dim" /\ BitOf(c, b) = DimParts
    <2>1. CASE b < AddressBits
      <3>1. AddressBits - (b + 1) \in Nat
        BY <1>2, <1>3, <2>1
      <3>2. RightShift(c.address, AddressBits - (b + 1)) % 2 \in {0, 1}
        BY <1>1, <3>1, ShiftBit
      <3>3. BitOf(c, b) = BitParts(RightShift(c.address, AddressBits - (b + 1)) % 2)
        <4>1. /\ b /= AddressBits /\ b /= AddressBits + 1
              /\ ~(b \in AddressBits + 2 .. AddressBits + 1 + UnitBits)
          BY <1>2, <1>3, <2>1
        <4>2. QED
          BY <2>1, <4>1 DEF BitOf
      <3>4. QED
        BY <3>2, <3>3
    <2>2. CASE b = AddressBits
      <3>1. BitOf(c, b) = BitParts(Flag(c.group)) /\ Flag(c.group) \in {0, 1}
        BY <1>2, <2>2 DEF BitOf, Flag
      <3>2. QED
        BY <3>1
    <2>3. CASE b = AddressBits + 1
      <3>1. BitOf(c, b) = SwitchParts(c.switch)
        BY <1>2, <2>3 DEF BitOf
      <3>2. QED
        BY <1>1, <2>3, <3>1 DEF SwitchParts
    <2>4. CASE b \in AddressBits + 2 .. AddressBits + 1 + UnitBits
      <3>1. UnitBits - (b - (AddressBits + 2) + 1) \in Nat
        BY <1>2, <1>3, <2>4
      <3>2. RightShift(c.unit, UnitBits - (b - (AddressBits + 2) + 1)) % 2 \in {0, 1}
        BY <1>1, <3>1, ShiftBit
      <3>3. ~(b < AddressBits) /\ b /= AddressBits /\ b /= AddressBits + 1
        BY <1>2, <2>4
      <3>4. BitOf(c, b) = BitParts(RightShift(c.unit, UnitBits - (b - (AddressBits + 2) + 1)) % 2)
        BY <2>4, <3>3 DEF BitOf
      <3>5. QED
        BY <3>2, <3>4
    <2>5. CASE b > AddressBits + 1 + UnitBits
      <3>1. DimBits - (b - (AddressBits + 2 + UnitBits) + 1) \in Nat
        BY <1>2, <1>3, <2>5 DEF BitCount
      <3>2. RightShift(c.dim, DimBits - (b - (AddressBits + 2 + UnitBits) + 1)) % 2 \in {0, 1}
        BY <1>1, <3>1, ShiftBit
      <3>3. /\ ~(b < AddressBits) /\ b /= AddressBits /\ b /= AddressBits + 1
            /\ ~(b \in AddressBits + 2 .. AddressBits + 1 + UnitBits)
        BY <1>2, <2>5
      <3>4. BitOf(c, b)
              = BitParts(RightShift(c.dim, DimBits - (b - (AddressBits + 2 + UnitBits) + 1)) % 2)
        BY <3>3 DEF BitOf
      <3>5. QED
        BY <3>2, <3>4
    <2>6. QED
      BY <1>2, <1>3, <2>1, <2>2, <2>3, <2>4, <2>5
  <1>5. QED
    BY <1>4, BitPartsDiffer

\* A number read so far, bit by bit, and complete after as many bits as it has.
ReadNumber(v, bits, k) == IF k < bits THEN RightShift(v, bits - k) ELSE v

LEMMA ReadNumberNext ==
  ASSUME NEW v \in Nat, NEW bits \in Nat, NEW k \in Nat, k < bits
  PROVE  /\ ReadNumber(v, bits, k) \in Nat
         /\ ReadNumber(v, bits, k + 1)
              = 2 * ReadNumber(v, bits, k) + (RightShift(v, bits - (k + 1)) % 2)
  <1>1. PICK n \in Nat : n = bits - (k + 1) /\ n + 1 = bits - k
    <2>1. bits - (k + 1) \in Nat /\ (bits - (k + 1)) + 1 = bits - k
      OBVIOUS
    <2>2. QED
      BY <2>1
  <1>2. ReadNumber(v, bits, k + 1) = RightShift(v, n)
    <2>1. CASE k + 1 < bits
      BY <1>1, <2>1 DEF ReadNumber
    <2>2. CASE ~(k + 1 < bits)
      <3>1. n = 0
        BY <1>1, <2>2
      <3>2. QED
        BY <2>2, <3>1, ShiftZero DEF ReadNumber
    <2>3. QED
      BY <2>1, <2>2
  <1>3. ReadNumber(v, bits, k) = RightShift(v, n + 1)
    BY <1>1 DEF ReadNumber
  <1>4. RightShift(v, n + 1) \in Nat
    BY <1>1, ShiftBit
  <1>5. QED
    BY <1>1, <1>2, <1>3, <1>4, ShiftBit

LEMMA ReadNumberEnds ==
  ASSUME NEW v \in Nat, NEW bits \in Nat \ {0}, Fits(v, bits)
  PROVE  ReadNumber(v, bits, 0) = 0 /\ ReadNumber(v, bits, bits) = v
  BY DEF ReadNumber, Fits

\* What has been read of c after b bits.
Read(c, p, b) ==
  [address |-> IF b < AddressBits THEN ReadNumber(c.address, AddressBits, b) ELSE c.address,
   group |-> IF b > AddressBits THEN c.group ELSE FALSE,
   switch |-> IF b > AddressBits + 1 THEN c.switch ELSE "off",
   unit |-> IF b < AddressBits + 2 THEN 0
            ELSE IF b < AddressBits + 2 + UnitBits
                 THEN ReadNumber(c.unit, UnitBits, b - (AddressBits + 2))
                 ELSE c.unit,
   dimPresent |-> p,
   dim |-> IF b < AddressBits + 2 + UnitBits THEN 0
           ELSE IF b < AddressBits + 2 + UnitBits + DimBits
                THEN ReadNumber(c.dim, DimBits, b - (AddressBits + 2 + UnitBits))
                ELSE c.dim]

LEMMA DecodedIs ==
  ASSUME NEW c, NEW p, NEW b \in Nat, NEW s \in Nat, s >= 4 * b + 2, s <= 4 * b + 5
  PROVE  Decoded(c, s, p) = Read(c, p, b)
  <1>1. PICK A \in Nat, B \in Nat, D \in Nat : A = AddressBits /\ B = UnitBits /\ D = DimBits
    BY FieldStates
  <1>2. /\ AddressEnd = 2 + 4 * A /\ GroupEnd = 6 + 4 * A /\ SwitchEnd = 10 + 4 * A
        /\ UnitEnd = 10 + 4 * A + 4 * B /\ DimEnd = 10 + 4 * A + 4 * B + 4 * D
    BY <1>1, FieldStates
  <1>4. /\ s < AddressEnd <=> b < A
        /\ s >= GroupEnd <=> b > A
        /\ s >= SwitchEnd <=> b > A + 1
        /\ s < SwitchEnd <=> b < A + 2
        /\ s < UnitEnd <=> b < A + 2 + B
        /\ s < DimEnd <=> b < A + 2 + B + D
    BY <1>2
  <1>5. BitsSince(s, 2) = b
    BY DEF BitsSince
  <1>6. BitsSince(s, SwitchEnd) = b - (A + 2)
    BY <1>2 DEF BitsSince
  <1>7. BitsSince(s, UnitEnd) = b - (A + 2 + B)
    BY <1>2 DEF BitsSince
  <1>8. b < A => ReadNumber(c.address, A, b) = RightShift(c.address, A - BitsSince(s, 2))
    BY <1>5 DEF ReadNumber
  <1>9. b < A + 2 + B => ReadNumber(c.unit, B, b - (A + 2)) = RightShift(c.unit, B - BitsSince(s, SwitchEnd))
    <2>1. b < A + 2 + B => b - (A + 2) < B
      BY <1>1
    <2>2. QED
      BY <1>6, <2>1 DEF ReadNumber
  <1>10. b < A + 2 + B + D => ReadNumber(c.dim, D, b - (A + 2 + B)) = RightShift(c.dim, D - BitsSince(s, UnitEnd))
    <2>1. b < A + 2 + B + D => b - (A + 2 + B) < D
      BY <1>1
    <2>2. QED
      BY <1>7, <2>1 DEF ReadNumber
  <1>11. QED
    BY <1>1, <1>4, <1>8, <1>9, <1>10 DEF Decoded, Read

\* The states between two ends of a bit read nothing.
LEMMA SameRead ==
  ASSUME NEW c, IsCommand(c), NEW p, NEW b \in Nat, NEW r \in 0 .. 2
  PROVE  Decoded(c, 4 * b + r + 3, p) = Decoded(c, 4 * b + r + 2, p)
  <1>1. PICK s \in Nat : s = 4 * b + r + 2 /\ s >= 4 * b + 2 /\ s <= 4 * b + 5
    OBVIOUS
  <1>2. PICK t \in Nat : t = 4 * b + r + 3 /\ t >= 4 * b + 2 /\ t <= 4 * b + 5
    OBVIOUS
  <1>3. Decoded(c, s, p) = Read(c, p, b) /\ Decoded(c, t, p) = Read(c, p, b)
    BY <1>1, <1>2, DecodedIs
  <1>4. QED
    BY <1>1, <1>2, <1>3

\* The last part of a bit completes it, and the receiver reads what was sent.
LEMMA ReadBit ==
  ASSUME NEW c, IsCommand(c), NEW p, NEW b \in 0 .. BitCount(c) - 1, NEW d \in {0, 1},
         state = 4 * b + 5, code = Decoded(c, state, p), BitOf(c, b) = BitParts(d)
  PROVE  WithBit(d) = Decoded(c, state + 1, p)
  <1>1. /\ c.address \in Nat /\ c.unit \in Nat /\ c.dim \in Nat
        /\ c.switch \in {"off", "on", "dim"} /\ c.group \in BOOLEAN
        /\ Fits(c.address, AddressBits) /\ Fits(c.unit, UnitBits) /\ Fits(c.dim, DimBits)
    BY DEF IsCommand, Codes
  <1>2. PICK A \in Nat \ {0}, B \in Nat \ {0}, D \in Nat \ {0} :
          A = AddressBits /\ B = UnitBits /\ D = DimBits
    BY FieldStates
  <1>3. b \in Nat /\ b < A + 2 + B + D
    BY <1>2, BitCountNat DEF BitCount
  <1>4. /\ AddressEnd = 2 + 4 * A /\ GroupEnd = 6 + 4 * A /\ SwitchEnd = 10 + 4 * A
        /\ UnitEnd = 10 + 4 * A + 4 * B
    BY <1>2, FieldStates
  <1>5. /\ state < AddressEnd <=> b < A
        /\ state \in AddressEnd .. GroupEnd - 1 <=> b = A
        /\ state \in GroupEnd .. SwitchEnd - 1 <=> b = A + 1
        /\ state \in SwitchEnd .. UnitEnd - 1 <=> (b > A + 1 /\ b < A + 2 + B)
    BY <1>3, <1>4
  <1>6. code = [address |-> IF b < A THEN ReadNumber(c.address, A, b) ELSE c.address,
                group |-> IF b > A THEN c.group ELSE FALSE,
                switch |-> IF b > A + 1 THEN c.switch ELSE "off",
                unit |-> IF b < A + 2 THEN 0
                         ELSE IF b < A + 2 + B THEN ReadNumber(c.unit, B, b - (A + 2))
                         ELSE c.unit,
                dimPresent |-> p,
                dim |-> IF b < A + 2 + B THEN 0
                        ELSE IF b < A + 2 + B + D THEN ReadNumber(c.dim, D, b - (A + 2 + B))
                        ELSE c.dim]
    <2>1. state \in Nat /\ state >= 4 * b + 2 /\ state <= 4 * b + 5
      BY <1>3
    <2>2. code = Read(c, p, b)
      BY <1>3, <2>1, DecodedIs, Zenon
    <2>3. QED
      BY <1>2, <2>2 DEF Read
  <1>7. Decoded(c, state + 1, p) =
          [address |-> IF b + 1 < A THEN ReadNumber(c.address, A, b + 1) ELSE c.address,
           group |-> IF b + 1 > A THEN c.group ELSE FALSE,
           switch |-> IF b + 1 > A + 1 THEN c.switch ELSE "off",
           unit |-> IF b + 1 < A + 2 THEN 0
                    ELSE IF b + 1 < A + 2 + B THEN ReadNumber(c.unit, B, (b + 1) - (A + 2))
                    ELSE c.unit,
           dimPresent |-> p,
           dim |-> IF b + 1 < A + 2 + B THEN 0
                   ELSE IF b + 1 < A + 2 + B + D THEN ReadNumber(c.dim, D, (b + 1) - (A + 2 + B))
                   ELSE c.dim]
    <2>1. /\ b + 1 \in Nat /\ state + 1 \in Nat
          /\ state + 1 >= 4 * (b + 1) + 2 /\ state + 1 <= 4 * (b + 1) + 5
      BY <1>3
    <2>2. Decoded(c, state + 1, p) = Read(c, p, b + 1)
      BY <2>1, DecodedIs, Zenon
    <2>3. QED
      BY <1>2, <2>2 DEF Read
  <1>8. CASE b < A
    <2>0. PICK no : no = FALSE
      OBVIOUS
    <2>1. code = [address |-> ReadNumber(c.address, A, b), group |-> no, switch |-> "off",
                  unit |-> 0, dimPresent |-> p, dim |-> 0]
      <3>1. ~(b > A) /\ ~(b > A + 1) /\ b < A + 2 /\ b < A + 2 + B
        BY <1>2, <1>3, <1>8
      <3>2. QED
        BY <1>6, <1>8, <2>0, <3>1, Zenon
    <2>2. Decoded(c, state + 1, p) =
            [address |-> ReadNumber(c.address, A, b + 1), group |-> no, switch |-> "off",
             unit |-> 0, dimPresent |-> p, dim |-> 0]
      <3>1. b + 1 < A \/ b + 1 = A
        BY <1>3, <1>8
      <3>2. b + 1 = A => ReadNumber(c.address, A, b + 1) = c.address
        BY DEF ReadNumber
      <3>3. ~(b + 1 > A) /\ ~(b + 1 > A + 1) /\ b + 1 < A + 2 /\ b + 1 < A + 2 + B
        BY <1>2, <1>3, <1>8
      <3>4. QED
        BY <1>7, <2>0, <3>1, <3>2, <3>3, Zenon
    <2>3. RightShift(c.address, A - (b + 1)) % 2 = d
      <3>1. BitOf(c, b) = BitParts(RightShift(c.address, A - (b + 1)) % 2)
        <4>1. b /= A /\ b /= A + 1 /\ ~(b \in A + 2 .. A + 1 + B)
          BY <1>2, <1>3, <1>8
        <4>2. QED
          BY <1>2, <1>8, <4>1 DEF BitOf
      <3>2. A - (b + 1) \in Nat
        BY <1>3, <1>8
      <3>3. RightShift(c.address, A - (b + 1)) % 2 \in {0, 1}
        BY <1>1, <3>2, ShiftBit
      <3>4. QED
        BY <3>1, <3>3, BitPartsDiffer
    <2>4. ReadNumber(c.address, A, b + 1) = 2 * ReadNumber(c.address, A, b) + d
      <3>1. c.address \in Nat /\ A \in Nat /\ b \in Nat /\ b < A
        BY <1>2, <1>1, <1>3, <1>8
      <3>2. ReadNumber(c.address, A, b + 1)
              = 2 * ReadNumber(c.address, A, b) + (RightShift(c.address, A - (b + 1)) % 2)
        BY <3>1, ReadNumberNext
      <3>3. QED
        BY <2>3, <3>2
    <2>5. WithBit(d) = [code EXCEPT !.address = 2 * @ + d]
      BY <1>5, <1>8 DEF WithBit
    <2>6. QED
      BY <2>1, <2>2, <2>4, <2>5
  <1>9. CASE b = A
    <2>0. PICK no : no = FALSE
      OBVIOUS
    <2>1. code = [address |-> c.address, group |-> no, switch |-> "off",
                  unit |-> 0, dimPresent |-> p, dim |-> 0]
      <3>1. ~(b < A) /\ ~(b > A) /\ ~(b > A + 1) /\ b < A + 2 /\ b < A + 2 + B
        BY <1>2, <1>3, <1>9
      <3>2. QED
        BY <1>6, <2>0, <3>1, Zenon
    <2>2. Decoded(c, state + 1, p) =
            [address |-> c.address, group |-> c.group, switch |-> "off",
             unit |-> 0, dimPresent |-> p, dim |-> 0]
      <3>1. ~(b + 1 < A) /\ b + 1 > A /\ ~(b + 1 > A + 1) /\ b + 1 < A + 2 /\ b + 1 < A + 2 + B
        BY <1>2, <1>3, <1>9
      <3>3. QED
        BY <1>7, <3>1
    <2>3. d = Flag(c.group)
      <3>1. BitOf(c, b) = BitParts(Flag(c.group)) /\ Flag(c.group) \in {0, 1}
        BY <1>2, <1>9 DEF BitOf, Flag
      <3>2. QED
        BY <3>1, BitPartsDiffer
    <2>4. WithBit(d) = [code EXCEPT !.group = (d = 1)]
      <3>1. ~(state < AddressEnd) /\ state \in AddressEnd .. GroupEnd - 1
        BY <1>2, <1>5, <1>9
      <3>2. /\ ~(state \in GroupEnd .. SwitchEnd - 1)
            /\ ~(state \in SwitchEnd .. UnitEnd - 1)
        BY <1>2, <1>5, <1>9
      <3>3. QED
        BY <3>1, <3>2 DEF WithBit
    <2>5. WithBit(d) = [code EXCEPT !.group = c.group]
      <3>1. CASE c.group = TRUE
        <4>1. (d = 1) = TRUE
          BY <2>3, <3>1 DEF Flag
        <4>2. QED
          BY <2>4, <3>1, <4>1, Zenon
      <3>2. CASE c.group = FALSE
        <4>1. ~(d = 1)
          BY <2>3, <3>2 DEF Flag
        <4>2. (d = 1) = FALSE
          BY <4>1, Zenon
        <4>3. QED
          BY <2>4, <3>2, <4>2, Zenon
      <3>3. QED
        BY <1>1, <3>1, <3>2
    <2>6. QED
      BY <2>1, <2>2, <2>5
  <1>10. CASE b = A + 1
    <2>1. code = [address |-> c.address, group |-> c.group, switch |-> "off",
                  unit |-> 0, dimPresent |-> p, dim |-> 0]
      <3>1. ~(b < A) /\ b > A /\ ~(b > A + 1) /\ b < A + 2 /\ b < A + 2 + B
        BY <1>2, <1>3, <1>10
      <3>3. QED
        BY <1>6, <3>1
    <2>2. Decoded(c, state + 1, p) =
            [address |-> c.address, group |-> c.group, switch |-> c.switch,
             unit |-> 0, dimPresent |-> p, dim |-> 0]
      <3>1. /\ ~(b + 1 < A) /\ b + 1 > A /\ b + 1 > A + 1 /\ ~(b + 1 < A + 2) /\ b + 1 < A + 2 + B
            /\ (b + 1) - (A + 2) = 0
        BY <1>2, <1>3, <1>10
      <3>3. ReadNumber(c.unit, B, 0) = 0
        BY <1>1, <1>2, ReadNumberEnds
      <3>4. QED
        BY <1>7, <3>1, <3>3
    <2>3. c.switch = IF d = 1 THEN "on" ELSE "off"
      <3>1. BitOf(c, b) = SwitchParts(c.switch)
        BY <1>2, <1>10 DEF BitOf
      <3>2. CASE c.switch = "off"
        <4>1. BitParts(d) = BitParts(0)
          BY <3>1, <3>2 DEF SwitchParts
        <4>2. QED
          BY <3>2, <4>1, BitPartsDiffer
      <3>3. CASE c.switch = "on"
        <4>1. BitParts(d) = BitParts(1)
          BY <3>1, <3>3 DEF SwitchParts
        <4>2. QED
          BY <3>3, <4>1, BitPartsDiffer
      <3>4. CASE c.switch = "dim"
        <4>1. BitParts(d) = DimParts
          BY <3>1, <3>4 DEF SwitchParts
        <4>2. QED
          BY <4>1, BitPartsDiffer
      <3>5. QED
        BY <1>1, <3>2, <3>3, <3>4
    <2>4. WithBit(d) = [code EXCEPT !.switch = IF d = 1 THEN "on" ELSE "off"]
      <3>1. /\ ~(state < AddressEnd) /\ ~(state \in AddressEnd .. GroupEnd - 1)
            /\ state \in GroupEnd .. SwitchEnd - 1 /\ ~(state \in SwitchEnd .. UnitEnd - 1)
        BY <1>2, <1>5, <1>10
      <3>2. QED
        BY <3>1 DEF WithBit
    <2>5. QED
      BY <2>1, <2>2, <2>3, <2>4
  <1>11. CASE b > A + 1 /\ b < A + 2 + B
    <2>0. PICK k \in Nat : k = b - (A + 2) /\ k < B /\ (b + 1) - (A + 2) = k + 1
      <3>1. b - (A + 2) \in Nat /\ b - (A + 2) < B /\ (b + 1) - (A + 2) = (b - (A + 2)) + 1
        BY <1>3, <1>11
      <3>2. QED
        BY <3>1
    <2>1. code = [address |-> c.address, group |-> c.group, switch |-> c.switch,
                  unit |-> ReadNumber(c.unit, B, k), dimPresent |-> p, dim |-> 0]
      <3>1. ~(b < A) /\ b > A /\ b > A + 1 /\ ~(b < A + 2) /\ b < A + 2 + B
        BY <1>2, <1>3, <1>11
      <3>3. QED
        BY <1>6, <2>0, <3>1
    <2>2. Decoded(c, state + 1, p) =
            [address |-> c.address, group |-> c.group, switch |-> c.switch,
             unit |-> ReadNumber(c.unit, B, k + 1), dimPresent |-> p, dim |-> 0]
      <3>1. /\ ~(b + 1 < A) /\ b + 1 > A /\ b + 1 > A + 1 /\ ~(b + 1 < A + 2)
            /\ b + 1 < A + 2 + B + D /\ (b + 1 < A + 2 + B <=> k + 1 < B)
            /\ ~(b + 1 < A + 2 + B) => (b + 1) - (A + 2 + B) = 0
        BY <1>2, <1>3, <1>11, <2>0
      <3>3. ReadNumber(c.dim, D, 0) = 0
        BY <1>1, <1>2, ReadNumberEnds
      <3>4. ~(k + 1 < B) => ReadNumber(c.unit, B, k + 1) = c.unit
        BY DEF ReadNumber
      <3>5. QED
        BY <1>7, <2>0, <3>1, <3>3, <3>4
    <2>3. RightShift(c.unit, B - (k + 1)) % 2 = d
      <3>1. BitOf(c, b) = BitParts(RightShift(c.unit, B - (k + 1)) % 2)
        <4>1. /\ ~(b < A) /\ b /= A /\ b /= A + 1 /\ b \in A + 2 .. A + 1 + B
          BY <1>2, <1>3, <1>11
        <4>2. BitOf(c, b) = BitParts(RightShift(c.unit, B - (b - (A + 2) + 1)) % 2)
          BY <1>2, <4>1 DEF BitOf
        <4>3. QED
          BY <2>0, <4>2
      <3>2. B - (k + 1) \in Nat
        BY <2>0
      <3>3. RightShift(c.unit, B - (k + 1)) % 2 \in {0, 1}
        BY <1>1, <3>2, ShiftBit
      <3>4. QED
        BY <3>1, <3>3, BitPartsDiffer
    <2>4. ReadNumber(c.unit, B, k + 1) = 2 * ReadNumber(c.unit, B, k) + d
      <3>1. c.unit \in Nat /\ B \in Nat /\ k \in Nat /\ k < B
        BY <1>2, <1>1, <2>0
      <3>2. ReadNumber(c.unit, B, k + 1)
              = 2 * ReadNumber(c.unit, B, k) + (RightShift(c.unit, B - (k + 1)) % 2)
        BY <3>1, ReadNumberNext
      <3>3. QED
        BY <2>3, <3>2
    <2>5. WithBit(d) = [code EXCEPT !.unit = 2 * @ + d]
      <3>1. /\ ~(state < AddressEnd) /\ ~(state \in AddressEnd .. GroupEnd - 1)
            /\ ~(state \in GroupEnd .. SwitchEnd - 1) /\ state \in SwitchEnd .. UnitEnd - 1
        BY <1>2, <1>3, <1>5, <1>11
      <3>2. QED
        BY <3>1 DEF WithBit
    <2>6. QED
      BY <2>1, <2>2, <2>4, <2>5
  <1>12. CASE b >= A + 2 + B
    <2>0. PICK k \in Nat : k = b - (A + 2 + B) /\ k < D /\ (b + 1) - (A + 2 + B) = k + 1
      <3>1. b - (A + 2 + B) \in Nat /\ b - (A + 2 + B) < D /\ (b + 1) - (A + 2 + B) = (b - (A + 2 + B)) + 1
        BY <1>3, <1>12
      <3>2. QED
        BY <3>1
    <2>1. code = [address |-> c.address, group |-> c.group, switch |-> c.switch,
                  unit |-> c.unit, dimPresent |-> p, dim |-> ReadNumber(c.dim, D, k)]
      <3>1. ~(b < A) /\ b > A /\ b > A + 1 /\ ~(b < A + 2) /\ ~(b < A + 2 + B) /\ b < A + 2 + B + D
        BY <1>2, <1>3, <1>12
      <3>3. QED
        BY <1>6, <2>0, <3>1
    <2>2. Decoded(c, state + 1, p) =
            [address |-> c.address, group |-> c.group, switch |-> c.switch,
             unit |-> c.unit, dimPresent |-> p, dim |-> ReadNumber(c.dim, D, k + 1)]
      <3>1. /\ ~(b + 1 < A) /\ b + 1 > A /\ b + 1 > A + 1 /\ ~(b + 1 < A + 2)
            /\ ~(b + 1 < A + 2 + B) /\ (b + 1 < A + 2 + B + D <=> k + 1 < D)
        BY <1>2, <1>3, <1>12, <2>0
      <3>3. ~(k + 1 < D) => ReadNumber(c.dim, D, k + 1) = c.dim
        BY DEF ReadNumber
      <3>4. QED
        BY <1>7, <2>0, <3>1, <3>3
    <2>3. RightShift(c.dim, D - (k + 1)) % 2 = d
      <3>1. BitOf(c, b) = BitParts(RightShift(c.dim, D - (k + 1)) % 2)
        <4>1. /\ ~(b < A) /\ b /= A /\ b /= A + 1 /\ ~(b \in A + 2 .. A + 1 + B)
          BY <1>2, <1>3, <1>12
        <4>2. BitOf(c, b) = BitParts(RightShift(c.dim, D - (b - (A + 2 + B) + 1)) % 2)
          BY <1>2, <4>1 DEF BitOf
        <4>3. QED
          BY <2>0, <4>2
      <3>2. D - (k + 1) \in Nat
        BY <2>0
      <3>3. RightShift(c.dim, D - (k + 1)) % 2 \in {0, 1}
        BY <1>1, <3>2, ShiftBit
      <3>4. QED
        BY <3>1, <3>3, BitPartsDiffer
    <2>4. ReadNumber(c.dim, D, k + 1) = 2 * ReadNumber(c.dim, D, k) + d
      <3>1. c.dim \in Nat /\ D \in Nat /\ k \in Nat /\ k < D
        BY <1>2, <1>1, <2>0
      <3>2. ReadNumber(c.dim, D, k + 1)
              = 2 * ReadNumber(c.dim, D, k) + (RightShift(c.dim, D - (k + 1)) % 2)
        BY <3>1, ReadNumberNext
      <3>3. QED
        BY <2>3, <3>2
    <2>5. WithBit(d) = [code EXCEPT !.dim = 2 * @ + d]
      <3>1. /\ ~(state < AddressEnd) /\ ~(state \in AddressEnd .. GroupEnd - 1)
            /\ ~(state \in GroupEnd .. SwitchEnd - 1) /\ ~(state \in SwitchEnd .. UnitEnd - 1)
        BY <1>2, <1>3, <1>5, <1>12
      <3>2. QED
        BY <3>1 DEF WithBit
    <2>6. QED
      BY <2>1, <2>2, <2>4, <2>5
  <1>13. QED
    BY <1>2, <1>3, <1>8, <1>9, <1>10, <1>11, <1>12

\* The switch of a dim command.
LEMMA ReadDim ==
  ASSUME NEW c, IsCommand(c), NEW p, NEW b, b = AddressBits + 1, c.switch = "dim",
         state = 4 * b + 5, code = Decoded(c, state, p)
  PROVE  /\ [code EXCEPT !.switch = "dim"] = Decoded(c, state + 1, p)
         /\ state \in GroupEnd .. SwitchEnd - 1
  <1>1. c.unit \in Nat /\ c.group \in BOOLEAN /\ Fits(c.unit, UnitBits)
    BY DEF IsCommand, Codes
  <1>2. PICK A \in Nat \ {0}, B \in Nat \ {0}, D \in Nat \ {0} :
          A = AddressBits /\ B = UnitBits /\ D = DimBits
    BY FieldStates
  <1>3. b \in Nat /\ b = A + 1
    BY <1>2
  <1>4. GroupEnd = 6 + 4 * A /\ SwitchEnd = 10 + 4 * A
    BY <1>2, FieldStates
  <1>5. code = [address |-> c.address, group |-> c.group, switch |-> "off",
                unit |-> 0, dimPresent |-> p, dim |-> 0]
    <2>1. state \in Nat /\ state >= 4 * b + 2 /\ state <= 4 * b + 5
      BY <1>3
    <2>2. ~(b < A) /\ b > A /\ ~(b > A + 1) /\ b < A + 2 /\ b < A + 2 + B
      BY <1>2, <1>3
    <2>3. code = Read(c, p, b)
      BY <1>3, <2>1, DecodedIs, Zenon
    <2>4. QED
      BY <1>2, <2>2, <2>3 DEF Read
  <1>6. Decoded(c, state + 1, p) =
          [address |-> c.address, group |-> c.group, switch |-> "dim",
           unit |-> 0, dimPresent |-> p, dim |-> 0]
    <2>1. /\ b + 1 \in Nat /\ state + 1 \in Nat
          /\ state + 1 >= 4 * (b + 1) + 2 /\ state + 1 <= 4 * (b + 1) + 5
      BY <1>3
    <2>2. /\ ~(b + 1 < A) /\ b + 1 > A /\ b + 1 > A + 1 /\ ~(b + 1 < A + 2) /\ b + 1 < A + 2 + B
          /\ (b + 1) - (A + 2) = 0
      BY <1>2, <1>3
    <2>4. ReadNumber(c.unit, B, 0) = 0
      BY <1>1, <1>2, ReadNumberEnds
    <2>5. Decoded(c, state + 1, p) = Read(c, p, b + 1)
      BY <2>1, DecodedIs, Zenon
    <2>6. QED
      BY <1>2, <2>2, <2>4, <2>5 DEF Read
  <1>7. state \in GroupEnd .. SwitchEnd - 1
    BY <1>3, <1>4
  <1>8. QED
    BY <1>5, <1>6, <1>7

--------------------------------------------------------------------------------
(* The intervals of a frame, one by one.                                   *)

\* A step that counts nothing and leaves the presence of a dim level alone.
Unremarked ==
  /\ called' = {} /\ UNCHANGED <<repetition, period>>
  /\ code'.dimPresent = code.dimPresent

LEMMA Forgets ==
  ASSUME TypeOK, Forget
  PROVE  /\ code' = [NoCode EXCEPT !.dimPresent = code'.dimPresent]
         /\ code'.dimPresent = code.dimPresent /\ parts' = <<>>
  BY DEF Forget, NoCode

LEMMA Resets == ASSUME TypeOK, Reset PROVE Unremarked /\ state' = -1
  BY Forgets DEF Reset, Unremarked

\* The receiver stays in step with c, which it always does when the period it
\* has measured is near enough the sender's.
Follows(c, i) ==
  /\ state' = -1 \/ InStep(c, i)'
  /\ Fitting => InStep(c, i)' /\ Fitting'

LEMMA StepHigh ==
  ASSUME Listening, SyncsApart, Interpret, NEW c, InStep(c, 1), gap = PeriodUsec
  PROVE  Follows(c, 2) /\ Unremarked
  <1>1. Duration = PeriodUsec
    BY DurationIs, Period DEF SyncsApart
  <1>2. period \in Nat /\ TypeOK
    BY DEF Listening, TypeOK
  <1>3. state = 0 /\ Measurable(period)
    BY DEF InStep
  <1>4. Fitting => IsShort
    BY <1>1, <1>2, <1>3, Kinds, Period
  <1>5. CASE StartHigh
    <2>1. state' = 1 /\ Forget /\ called' = {} /\ UNCHANGED <<period, repetition>>
      BY <1>5 DEF StartHigh
    <2>2. InStep(c, 2)'
      BY <1>2, <1>3, <2>1, Forgets DEF InStep, Measurable
    <2>3. QED
      BY <1>2, <2>1, <2>2, Forgets DEF Unremarked, Follows, Fitting
  <1>6. CASE StartWrong
    <2>1. ~IsShort /\ Reset
      BY <1>3, <1>6 DEF StartWrong
    <2>2. QED
      BY <1>2, <1>4, <2>1, Resets DEF Follows
  <1>7. QED
    BY <1>3, <1>5, <1>6, StepOfState

LEMMA StepLow ==
  ASSUME Listening, SyncsApart, Interpret, NEW c, IsCommand(c), InStep(c, 2), gap = StartUsec
  PROVE  Follows(c, 3) /\ Unremarked
  <1>1. Duration = StartUsec
    <2>1. gap < UIntMod
      BY Period DEF SyncsApart
    <2>2. QED
      BY <2>1, DurationIs
  <1>2. period \in Nat /\ TypeOK
    BY DEF Listening, TypeOK
  <1>3. /\ state = 1 /\ Measurable(period)
        /\ code = [NoCode EXCEPT !.dimPresent = code.dimPresent] /\ parts = <<>>
    BY DEF InStep
  <1>4. Fitting <=> Duration >= U(7 * period) /\ Duration <= U(15 * period)
    <2>1. U(7 * period) = 7 * period /\ U(15 * period) = 15 * period
      BY <1>2, <1>3, Limits
    <2>2. QED
      BY <1>1, <1>2, <2>1, Period DEF Fitting
  <1>5. CASE StartLow
    <2>1. /\ state' = 2 /\ called' = {} /\ UNCHANGED <<parts, code, period, repetition>>
          /\ Duration >= U(7 * period) /\ Duration <= U(15 * period)
      BY <1>5 DEF StartLow
    <2>2. Fitting /\ Fitting'
      BY <1>4, <2>1 DEF Fitting
    <2>3. code' = Decoded(c, 2, code'.dimPresent)
      <3>1. PICK p : p = code.dimPresent
        OBVIOUS
      <3>2. code = [address |-> 0, group |-> FALSE, switch |-> "off", unit |-> 0,
                    dimPresent |-> p, dim |-> 0]
        BY <1>3, <3>1 DEF NoCode
      <3>3. Decoded(c, 2, p) = Read(c, p, 0)
        BY DecodedIs
      <3>4. ReadNumber(c.address, AddressBits, 0) = 0
        BY FieldStates, ReadNumberEnds DEF IsCommand, Codes
      <3>5. /\ 0 < AddressBits /\ ~(0 > AddressBits) /\ ~(0 > AddressBits + 1)
            /\ 0 < AddressBits + 2 /\ 0 < AddressBits + 2 + UnitBits
        BY FieldStates
      <3>6. Read(c, p, 0) = [address |-> 0, group |-> FALSE, switch |-> "off", unit |-> 0,
                             dimPresent |-> p, dim |-> 0]
        BY <3>4, <3>5, Zenon DEF Read
      <3>7. QED
        BY <2>1, <3>1, <3>2, <3>3, <3>6, Zenon
    <2>4. parts' = <<>> /\ state' = 2 /\ Measurable(period)'
      BY <1>3, <2>1 DEF Measurable
    <2>5. InStep(c, 3)'
      <3>1. Len(parts') = 0 /\ 0 % 4 = 0 /\ 1 .. 0 = {}
        BY <2>4
      <3>2. Taken(c, 0)'
        BY <2>3, <2>4, <3>1 DEF Taken
      <3>3. 3 - 3 = 0
        OBVIOUS
      <3>4. QED
        BY <2>2, <2>4, <3>2, <3>3 DEF InStep
    <2>6. QED
      BY <2>1, <2>2, <2>5 DEF Follows, Unremarked
  <1>6. CASE StartWrong
    <2>1. ~(Duration >= U(7 * period) /\ Duration <= U(15 * period)) /\ Reset
      BY <1>3, <1>6 DEF StartWrong
    <2>2. QED
      BY <1>2, <1>4, <2>1, Resets DEF Follows
  <1>7. QED
    BY <1>3, <1>5, <1>6, StepOfState

LEMMA PartAtType ==
  ASSUME NEW c, IsCommand(c), NEW k \in 1 .. 4 * BitCount(c) + 1
  PROVE  PartAt(c, k) \in {S, L}
  <1>1. CodeParts(c) \in Seq({S, L}) /\ Len(CodeParts(c)) = 4 * BitCount(c) /\ BitCount(c) \in Nat
    BY CodePartsAre, BitCountNat
  <1>2. CASE k <= 4 * BitCount(c)
    BY <1>1, <1>2 DEF PartAt
  <1>3. CASE ~(k <= 4 * BitCount(c))
    BY <1>3 DEF PartAt
  <1>4. QED
    BY <1>2, <1>3

\* Where a part is.
LEMMA PartPlace ==
  ASSUME NEW c, IsCommand(c), NEW i \in 3 .. FrameLength(c) - 1
  PROVE  /\ i \in Nat /\ i - 1 \in 2 .. DimEnd /\ i - 2 \in 1 .. 4 * BitCount(c) + 1
         /\ \E b \in Nat, r \in 0 .. 3 :
              /\ i = 4 * b + r + 3 /\ (i - 3) % 4 = r /\ (i - 3) \div 4 = b
              /\ (i - 1) % 4 = 1 <=> r = 3
              /\ r = 3 => b \in 0 .. BitCount(c) - 1
  <1>1. PICK B \in Nat : B = BitCount(c) /\ 2 + 4 * B <= DimEnd
    BY BitCountNat
  <1>2. DimEnd \in Nat
    BY FieldStates
  <1>3. i \in 3 .. 4 * B + 3
    BY <1>1 DEF FrameLength
  <1>4. i \in Nat /\ i - 1 \in 2 .. DimEnd /\ i - 2 \in 1 .. 4 * B + 1
    BY <1>1, <1>2, <1>3
  <1>5. PICK m \in Nat : m = i - 3 /\ m <= 4 * B
    <2>1. i - 3 \in Nat /\ i - 3 <= 4 * B
      BY <1>3
    <2>2. QED
      BY <2>1
  <1>6. PICK b \in Nat, r \in 0 .. 3 : m = 4 * b + r /\ r = m % 4 /\ b = m \div 4
    <2>1. m \div 4 \in Nat /\ m % 4 \in 0 .. 3 /\ m = 4 * (m \div 4) + (m % 4)
      OBVIOUS
    <2>2. QED
      BY <2>1
  <1>7. i = 4 * b + r + 3 /\ i - 1 = 4 * b + r + 2
    BY <1>4, <1>5, <1>6
  <1>8. (4 * b + r + 2) % 4 = 1 <=> r = 3
    OBVIOUS
  <1>9. r = 3 => b \in 0 .. B - 1
    BY <1>5, <1>6
  <1>10. QED
    BY <1>1, <1>4, <1>5, <1>6, <1>7, <1>8, <1>9

\* A part is taken for what it is.
LEMMA PartSeen ==
  ASSUME Listening, SyncsApart, Measurable(period), Fitting,
         NEW part \in {S, L}, gap = PartUsec(part)
  PROVE  (IsShort \/ IsLong) /\ Part = part
  <1>1. gap \in {PeriodUsec, 5 * PeriodUsec} /\ (part = S => gap = PeriodUsec)
        /\ (part = L => gap = 5 * PeriodUsec)
    BY DEF PartUsec, S, L
  <1>2. gap < UIntMod
    BY <1>1, Period DEF SyncsApart
  <1>3. Duration = gap /\ Duration \in Nat
    BY <1>2, DurationIs
  <1>4. period \in Nat
    BY DEF Listening, TypeOK
  <1>5. CASE part = S
    BY <1>1, <1>3, <1>4, <1>5, Kinds DEF Part
  <1>6. CASE part = L
    BY <1>1, <1>3, <1>4, <1>6, Kinds DEF Part
  <1>7. QED
    BY <1>5, <1>6

LEMMA InStepIs ==
  ASSUME NEW c, NEW i \in Nat, i > 2
  PROVE  InStep(c, i) <=> state = i - 1 /\ Measurable(period) /\ Fitting /\ Taken(c, i - 3)
  BY DEF InStep

LEMMA FollowsOn ==
  ASSUME NEW c, NEW i \in Nat, i > 2, Measurable(period), Fitting, UNCHANGED period,
         state' = i, Taken(c, i - 2)'
  PROVE  Follows(c, i + 1)
  <1>1. (i + 1) - 1 = i /\ (i + 1) - 3 = i - 2 /\ i + 1 > 2 /\ i + 1 /= 2
    OBVIOUS
  <1>2. Measurable(period)' /\ Fitting'
    BY DEF Measurable, Fitting
  <1>3. InStep(c, i + 1)'
    BY <1>1, <1>2 DEF InStep
  <1>4. QED
    BY <1>2, <1>3 DEF Follows

LEMMA StepPart ==
  ASSUME Listening, SyncsApart, Interpret, NEW c, IsCommand(c),
         NEW i \in 3 .. FrameLength(c) - 1, InStep(c, i),
         gap = PartUsec(PartAt(c, i - 2))
  PROVE  Follows(c, i + 1) /\ Unremarked
  <1>1. PICK b \in Nat, r \in 0 .. 3 :
          /\ i = 4 * b + r + 3 /\ (i - 3) % 4 = r /\ (i - 3) \div 4 = b
          /\ (i - 1) % 4 = 1 <=> r = 3
          /\ r = 3 => b \in 0 .. BitCount(c) - 1
    BY PartPlace
  <1>2. i \in Nat /\ i - 1 \in 2 .. DimEnd /\ i - 2 \in 1 .. 4 * BitCount(c) + 1
    BY PartPlace
  <1>3. /\ state = i - 1 /\ Measurable(period) /\ Fitting
        /\ code = Decoded(c, state, code.dimPresent)
        /\ Len(parts) = r /\ \A j \in 1 .. r : parts[j] = PartAt(c, 4 * b + j)
    <2>1. state = i - 1 /\ Measurable(period) /\ Fitting /\ Taken(c, i - 3)
      BY <1>2, InStepIs
    <2>2. QED
      BY <1>1, <2>1 DEF Taken
  <1>4. parts \in Seq({S, L}) /\ code \in Codes
    BY DEF Listening, TypeOK
  <1>5. PICK part \in {S, L} : part = PartAt(c, i - 2)
    BY <1>2, PartAtType
  <1>6. (IsShort \/ IsLong) /\ Part = part
    BY <1>3, <1>5, PartSeen
  <1>7. PICK bit \in Seq({S, L}) :
          /\ bit = Append(parts, Part) /\ Len(bit) = r + 1
          /\ \A j \in 1 .. r + 1 : bit[j] = PartAt(c, 4 * b + j)
    <2>1. /\ Append(parts, part) \in Seq({S, L}) /\ Len(Append(parts, part)) = r + 1
          /\ \A j \in 1 .. r : Append(parts, part)[j] = parts[j]
          /\ Append(parts, part)[r + 1] = part
      BY <1>3, <1>4
    <2>2. 4 * b + (r + 1) = i - 2
      BY <1>1
    <2>3. \A j \in 1 .. r + 1 : j \in 1 .. r \/ j = r + 1
      OBVIOUS
    <2>4. \A j \in 1 .. r + 1 : Append(parts, part)[j] = PartAt(c, 4 * b + j)
      BY <1>3, <1>5, <2>1, <2>2, <2>3
    <2>5. QED
      BY <1>6, <2>1, <2>4
  <1>8. state \in 2 .. DimEnd + 1 /\ (LastPart <=> r = 3) /\ state + 1 = i
    <2>1. DimEnd \in Nat
      BY FieldStates
    <2>2. QED
      BY <1>1, <1>2, <1>3, <2>1 DEF LastPart
  <1>9. ~FrameEnd
    BY <1>6 DEF FrameEnd
  <1>10. BitPart \/ BitEnd \/ BitWrong
    BY <1>8, <1>9, StepOfState
  <1>11. CASE r /= 3
    <2>1. BitPart
      BY <1>6, <1>8, <1>10, <1>11 DEF BitEnd, BitWrong
    <2>2. /\ parts' = bit /\ state' = i /\ called' = {}
          /\ UNCHANGED <<code, period, repetition>>
      BY <1>7, <1>8, <2>1 DEF BitPart
    <2>3. (i - 2) % 4 = r + 1 /\ (i - 2) \div 4 = b
      BY <1>1, <1>11
    <2>4. Decoded(c, i, code.dimPresent) = Decoded(c, state, code.dimPresent)
      <3>1. r \in 0 .. 2 /\ i = 4 * b + r + 3 /\ state = 4 * b + r + 2
        BY <1>1, <1>3, <1>11
      <3>2. QED
        BY <3>1, SameRead
    <2>5. Taken(c, i - 2)'
      BY <1>3, <1>7, <2>2, <2>3, <2>4 DEF Taken
    <2>6. Follows(c, i + 1)
      BY <1>2, <1>3, <2>2, <2>5, FollowsOn
    <2>7. QED
      BY <2>2, <2>6 DEF Unremarked
  <1>12. CASE r = 3
    <2>1. b \in 0 .. BitCount(c) - 1 /\ state = 4 * b + 5
      BY <1>1, <1>3, <1>12
    <2>2. bit = BitOf(c, b)
      <3>1. BitOf(c, b) \in Seq({S, L}) /\ Len(BitOf(c, b)) = 4
        BY <2>1, BitKinds
      <3>2. ASSUME NEW j \in 1 .. 4 PROVE bit[j] = BitOf(c, b)[j]
        <4>1. bit[j] = PartAt(c, 4 * b + j)
          BY <1>7, <1>12
        <4>2. 4 * b + j <= 4 * BitCount(c)
          BY <2>1, BitCountNat
        <4>3. CodeParts(c)[4 * b + j] = BitOf(c, b)[j]
          BY <2>1, CodePartsAre
        <4>4. QED
          BY <4>1, <4>2, <4>3 DEF PartAt
      <3>3. Len(bit) = 4
        BY <1>7, <1>12
      <3>4. QED
        BY <3>1, <3>2, <3>3, SeqEqual
    <2>3. /\ \/ \E d \in {0, 1} : bit = BitParts(d)
             \/ /\ b = AddressBits + 1 /\ c.switch = "dim" /\ bit = DimParts
                /\ state \in GroupEnd .. SwitchEnd - 1
      BY <1>3, <2>1, <2>2, BitKinds, ReadDim
    <2>4. BitEnd
      <3>1. ~BitPart
        BY <1>8, <1>12 DEF BitPart
      <3>2. bit \in {BitParts(0), BitParts(1)} \/ (bit = DimParts /\ state \in GroupEnd .. SwitchEnd - 1)
        BY <2>3
      <3>3. ~BitWrong
        BY <1>6, <1>7, <3>2 DEF BitWrong
      <3>4. QED
        BY <1>10, <3>1, <3>3
    <2>5. /\ parts' = <<>> /\ state' = i /\ called' = {}
          /\ UNCHANGED <<period, repetition>>
          /\ \/ \E d \in {0, 1} : bit = BitParts(d) /\ code' = WithBit(d)
             \/ bit = DimParts /\ code' = [code EXCEPT !.switch = "dim"]
      BY <1>7, <1>8, <2>4 DEF BitEnd
    <2>6. code' = Decoded(c, i, code.dimPresent)
      <3>1. CASE \E d \in {0, 1} : bit = BitParts(d) /\ code' = WithBit(d)
        <4>1. PICK d \in {0, 1} : BitOf(c, b) = BitParts(d) /\ code' = WithBit(d)
          BY <2>2, <3>1
        <4>2. QED
          BY <1>3, <1>8, <2>1, <4>1, ReadBit
      <3>2. CASE bit = DimParts /\ code' = [code EXCEPT !.switch = "dim"]
        <4>1. b = AddressBits + 1 /\ c.switch = "dim"
          BY <2>3, <3>2, BitPartsDiffer
        <4>2. QED
          BY <1>3, <1>8, <2>1, <3>2, <4>1, ReadDim
      <3>3. QED
        BY <2>5, <3>1, <3>2
    <2>7. code'.dimPresent = code.dimPresent
      BY <2>6 DEF Decoded
    <2>8. (i - 2) % 4 = 0
      BY <1>1, <1>12
    <2>9. Taken(c, i - 2)'
      <3>1. Len(parts') = 0 /\ 1 .. 0 = {}
        BY <2>5
      <3>2. QED
        BY <2>5, <2>6, <2>7, <2>8, <3>1 DEF Taken
    <2>10. Follows(c, i + 1)
      BY <1>2, <1>3, <2>5, <2>9, FollowsOn
    <2>11. QED
      BY <2>5, <2>7, <2>10 DEF Unremarked
  <1>13. QED
    BY <1>11, <1>12

--------------------------------------------------------------------------------
(* Between two frames.                                                     *)

\* The code of a complete frame of c.
Received(c) == IF c.dimPresent THEN c ELSE AsHeld(c)

Completes(c) ==
  /\ code' = Received(c) /\ previous' = Received(c)
  /\ repeats' = IF Received(c) = previous THEN repeats + 1 ELSE 1
  /\ period' = period
  /\ \/ repeats' >= MinRepeats /\ state' = -1 /\ called' = {Received(c)}
     \/ repeats' < MinRepeats /\ state' = 0 /\ called' = {}

LEMMA AtEnd ==
  ASSUME IInv, NEW c, IsCommand(c), InStep(c, FrameLength(c))
  PROVE  /\ state \in 2 .. DimEnd + 1 /\ state \in {UnitEnd + 1, DimEnd + 1}
         /\ state = DimEnd + 1 <=> c.dimPresent
         /\ parts = <<S>> /\ ~LastPart
         /\ Measurable(period) /\ Fitting
         /\ code = AsHeld(c) /\ code \in Codes
  <1>1. /\ c.address \in Nat /\ c.unit \in Nat /\ c.dim \in Nat /\ c.dimPresent \in BOOLEAN
        /\ Fits(c.unit, UnitBits) /\ Fits(c.dim, DimBits) /\ (~c.dimPresent => c.dim = 0)
        /\ c \in Codes
    BY DEF IsCommand, Codes
  <1>2. PICK B \in Nat : /\ B = BitCount(c) /\ FrameLength(c) = 4 * B + 4 /\ B > 3
                         /\ 2 + 4 * B <= DimEnd
                         /\ c.dimPresent => 2 + 4 * B = DimEnd
                         /\ ~c.dimPresent => 2 + 4 * B = UnitEnd
    BY BitCountNat DEF FrameLength
  <1>3. state = 4 * B + 3 /\ Measurable(period) /\ Fitting /\ Taken(c, 4 * B + 1)
    <2>1. FrameLength(c) \in Nat /\ FrameLength(c) > 2 /\ FrameLength(c) - 3 = 4 * B + 1
          /\ FrameLength(c) - 1 = 4 * B + 3
      BY <1>2
    <2>2. QED
      BY <2>1, InStepIs
  <1>4. UnitEnd \in Nat /\ DimEnd \in Nat /\ DimEnd > UnitEnd
    BY FieldStates
  <1>5. /\ state \in 2 .. DimEnd + 1 /\ state \in {UnitEnd + 1, DimEnd + 1}
        /\ state = DimEnd + 1 <=> c.dimPresent
    BY <1>1, <1>2, <1>3, <1>4
  <1>6. (4 * B + 1) % 4 = 1 /\ (4 * B + 1) \div 4 = B /\ (4 * B + 3) % 4 = 3
    BY <1>2
  <1>7. parts = <<S>>
    <2>1. parts \in Seq({S, L})
      BY DEF IInv, TypeOK
    <2>2. Len(parts) = 1 /\ \A j \in 1 .. 1 : parts[j] = PartAt(c, 4 * B + j)
      BY <1>3, <1>6 DEF Taken
    <2>3. ~(4 * B + 1 <= 4 * B)
      BY <1>2
    <2>4. PartAt(c, 4 * B + 1) = S
      BY <1>2, <2>3 DEF PartAt
    <2>5. parts[1] = S
      BY <2>2, <2>4
    <2>6. QED
      BY <2>1, <2>2, <2>5
  <1>8. code = Decoded(c, state, code.dimPresent) /\ code \in Codes
    BY <1>3 DEF Taken, IInv, TypeOK
  <1>9. PICK p : p = code.dimPresent
    OBVIOUS
  <1>10. Decoded(c, state, p) = Read(c, p, B)
    BY <1>2, <1>3, DecodedIs
  <1>11. PICK A \in Nat \ {0}, N \in Nat \ {0}, D \in Nat \ {0} :
           A = AddressBits /\ N = UnitBits /\ D = DimBits
    BY FieldStates
  <1>12. B = A + 2 + N + (IF c.dimPresent THEN D ELSE 0)
    BY <1>2, <1>11 DEF BitCount
  <1>13. Read(c, p, B) = [address |-> c.address, group |-> c.group, switch |-> c.switch,
                          unit |-> c.unit, dimPresent |-> p, dim |-> c.dim]
    <2>1. ~(B < A) /\ B > A /\ B > A + 1 /\ ~(B < A + 2) /\ ~(B < A + 2 + N)
      BY <1>1, <1>11, <1>12
    <2>2. CASE c.dimPresent
      <3>1. ~(B < A + 2 + N + D)
        BY <1>11, <1>12, <2>2
      <3>2. QED
        BY <1>11, <2>1, <3>1 DEF Read
    <2>3. CASE ~c.dimPresent
      <3>1. B < A + 2 + N + D /\ B - (A + 2 + N) = 0
        BY <1>11, <1>12, <2>3
      <3>2. ReadNumber(c.dim, D, 0) = c.dim
        BY <1>1, <1>11, <2>3, ReadNumberEnds
      <3>3. QED
        BY <1>11, <2>1, <3>1, <3>2 DEF Read
    <2>4. QED
      BY <2>2, <2>3
  <1>14. AsHeld(c) = [address |-> c.address, group |-> c.group, switch |-> c.switch,
                      unit |-> c.unit, dimPresent |-> p, dim |-> c.dim]
    BY <1>1, <1>9 DEF AsHeld, Codes
  <1>15. ~LastPart
    BY <1>3, <1>6 DEF LastPart
  <1>16. QED
    BY <1>3, <1>5, <1>7, <1>8, <1>9, <1>10, <1>13, <1>14, <1>15

LEMMA FrameCompletes ==
  ASSUME IInv, NEW c, IsCommand(c), InStep(c, FrameLength(c)), FrameEnd
  PROVE  Completes(c)
  <1> DEFINE frame == IF state = DimEnd + 1 THEN [code EXCEPT !.dimPresent = TRUE] ELSE code
             count == IF frame = previous THEN (repeats + 1) % 256 ELSE 1
  <1>1. /\ code' = frame /\ previous' = frame /\ repeats' = count /\ period' = period
        /\ \/ count >= MinRepeats /\ state' = -1 /\ called' = {frame}
           \/ ~(count >= MinRepeats) /\ state' = 0 /\ called' = {}
    BY DEF FrameEnd
  <1>2. /\ state \in 2 .. DimEnd + 1
        /\ state = DimEnd + 1 <=> c.dimPresent
        /\ code = AsHeld(c)
    BY AtEnd
  <1>3. frame = Received(c)
    <2>1. c \in Codes
      BY DEF IsCommand
    <2>2. CASE c.dimPresent
      <3>1. [AsHeld(c) EXCEPT !.dimPresent = TRUE] = c
        <4>1. c.dimPresent = TRUE
          BY <2>1, <2>2 DEF Codes
        <4>2. QED
          BY <2>1, <4>1 DEF AsHeld, Codes
      <3>2. QED
        BY <1>2, <2>2, <3>1 DEF Received
    <2>3. CASE ~c.dimPresent
      BY <1>2, <2>3 DEF Received
    <2>4. QED
      BY <2>2, <2>3
  <1>4. repeats \in 0 .. 255 /\ repeats < MinRepeats /\ MinRepeats \in 1 .. 255
    <2>1. state /= -1
      BY <1>2
    <2>2. QED
      BY <2>1, ReceiverAssumption DEF IInv, TypeOK, CountLeavesRoom, ReceiverAssumption
  <1>5. (repeats + 1) % 256 = repeats + 1
    BY <1>4
  <1>6. count = (IF frame = previous THEN repeats + 1 ELSE 1) /\ count \in Nat
    BY <1>4, <1>5
  <1> HIDE DEF frame, count
  <1>7. QED
    BY <1>1, <1>3, <1>4, <1>6 DEF Completes

\* The long part of the stop pulse.
LEMMA StepStop ==
  ASSUME IInv, Listening, SyncsApart, Interpret, NEW c, IsCommand(c),
         InStep(c, FrameLength(c)), gap = 40 * PeriodUsec
  PROVE  Completes(c)
  <1>1. /\ state \in 2 .. DimEnd + 1 /\ state \in {UnitEnd + 1, DimEnd + 1}
        /\ parts = <<S>> /\ Measurable(period) /\ Fitting
    BY AtEnd
  <1>2. Duration = 40 * PeriodUsec
    <2>1. gap < UIntMod
      BY Period DEF SyncsApart
    <2>2. QED
      BY <2>1, DurationIs
  <1>3. period \in Nat
    BY DEF IInv, TypeOK
  <1>4. ~IsShort /\ ~IsLong /\ IsStop
    <2>1. Duration \in Nat /\ Duration > 12 * PeriodUsec
      BY <1>2, Period
    <2>2. QED
      BY <1>1, <1>2, <1>3, <2>1, Kinds
  <1>5. StopFits
    BY <1>1, <1>4 DEF StopFits
  <1>6. FrameEnd
    BY <1>1, <1>4, <1>5, StepOfState DEF BitPart, BitEnd, BitWrong
  <1>7. QED
    BY <1>6, FrameCompletes

\* A silence in its place.
LEMMA StepSilence ==
  ASSUME IInv, Listening, SyncsApart, Interpret, NEW c, IsCommand(c),
         InStep(c, FrameLength(c)), U(gap) > 12 * PeriodUsec
  PROVE  Completes(c) \/ (Unremarked /\ state' = -1)
  <1>1. state \in 2 .. DimEnd + 1 /\ Measurable(period) /\ Fitting
    BY AtEnd
  <1>2. Duration = U(gap) /\ Duration \in Nat
    <2>1. acc + gap = gap /\ gap \in Nat
      BY DEF Listening, TypeOK
    <2>2. QED
      BY <2>1, UnsignedNat DEF Duration
  <1>3. period \in Nat /\ TypeOK
    BY DEF IInv, TypeOK
  <1>4. ~IsShort /\ ~IsLong
    BY <1>1, <1>2, <1>3, Kinds
  <1>5. FrameEnd \/ BitWrong
    BY <1>1, <1>4, StepOfState DEF BitPart, BitEnd
  <1>6. CASE FrameEnd
    BY <1>6, FrameCompletes
  <1>7. CASE BitWrong
    <2>1. Reset
      BY <1>7 DEF BitWrong
    <2>2. QED
      BY <1>3, <2>1, Resets
  <1>8. QED
    BY <1>5, <1>6, <1>7

\* Waiting for a sync.
LEMMA StepWait ==
  ASSUME Listening, Interpret, state = -1
  PROVE  /\ called' = {} /\ UNCHANGED <<previous, code>>
         /\ \/ U(gap) <= 4800 /\ state' = -1 /\ Unremarked
            \/ /\ U(gap) > 4800 /\ state' = 0 /\ repeats' = 0 /\ period' = U(gap) \div 40
  <1>1. acc + gap = gap
    BY DEF Listening, TypeOK
  <1>2. Duration = U(gap)
    BY <1>1 DEF Duration
  <1>3. WaitForSync \/ Sync
    BY StepOfState
  <1>4. CASE WaitForSync
    BY <1>2, <1>4 DEF WaitForSync, repetition, Unremarked
  <1>5. CASE Sync
    BY <1>2, <1>5 DEF Sync
  <1>6. QED
    BY <1>3, <1>4, <1>5

--------------------------------------------------------------------------------
(* The sender and the air.                                                 *)

\* A silence that ends before the receiver takes it for a part of a bit, and
\* from which it derives no period that hides the edges of a frame.
Still(idle) == U(idle) > 12 * PeriodUsec /\ Measurable(U(idle) \div 40)

CleanAir ==
  /\ MaxGlitches = 0 /\ MaxNoise = 0
  /\ SyncsApart
  /\ \A idle \in Idles : Still(idle)

Frames == FramesSent(Repeats)
Sent == Range(presses)

\* The receiver is waiting for a sync or in step with command c.
AtOr(c, i) == state = -1 \/ InStep(c, i)

\* Nothing has been in the air yet.
Silent == air = <<>> /\ gap = 0 /\ state = -1 /\ delivered = 0 /\ (presses = <<>> \/ Frames = 0)

\* The silence before a press of c is to come: the receiver is where the press
\* before it left it.
Before(c) ==
  /\ \E idle \in Idles : air = <<idle>> \o Gone(FrameUsec(c), 0, Frames - 1)
  /\ delivered = 0
  /\ \/ gap = 0 /\ state = -1
     \/ \E d \in Sent : gap = PeriodUsec /\ AtOr(d, FrameLength(d) - 1)

\* The silence is the next interval, in place of the last part of a stop pulse.
Between(c) ==
  /\ air = Gone(FrameUsec(c), 0, Frames - 1)
  /\ gap \in Idles
  /\ delivered = 0
  /\ state = -1 \/ \E d \in Sent : InStep(d, FrameLength(d))

\* Each delivery has taken more stop pulses than MinRepeats.
NotOften(n) ==
  /\ (MinRepeats + 1) * delivered <= MinRepeats + Frames - n
  /\ state /= -1 => (MinRepeats + 1) * delivered + (repeats + 1) <= MinRepeats + Frames - n

\* With two frames or more behind it, the receiver is counting.
Counting(c, i, n) ==
  n + 2 <= Frames /\ delivered = 0 =>
    /\ InStep(c, i) /\ Fitting
    /\ repeats + n + 2 >= Frames
    /\ n + 3 <= Frames =>
         previous = AsHeld(c) /\ (c.dimPresent => code.dimPresent)

\* The i-th interval of a frame of c is next, and n frames follow that one.
Within(c, i, n) ==
  /\ gap = FrameUsec(c)[i]
  /\ air = Gone(FrameUsec(c), i, n)
  /\ AtOr(c, i)
  /\ NotOften(n) /\ Counting(c, i, n)

OnAir(c) ==
  \/ Before(c) \/ Between(c)
  \/ \E i \in 1 .. FrameLength(c), n \in 0 .. Frames - 1 :
       (i < FrameLength(c) \/ n > 0) /\ Within(c, i, n)

Sound ==
  /\ IInv /\ enabled /\ acc = 0 /\ ~skip
  /\ presses \in Seq(SentCodes) /\ delivered \in Nat
  /\ glitches = 0 /\ noise = 0
  /\ OnlySent

LinkInv ==
  /\ Sound
  /\ Silent \/ \E c : presses /= <<>> /\ c = Last(presses) /\ Frames > 0 /\ OnAir(c)

LEMMA FramesNat == Frames \in Nat
  <1> DEFINE powers == {1, 2, 4, 8, 16, 32, 64, 128, 256}
  <1> SUFFICES 2 ^ Repeats \in powers
    <2>1. ASSUME NEW x \in powers PROVE (x - 1) % 256 \in Nat
      OBVIOUS
    <2>2. ASSUME NEW x \in Nat PROVE x + 1 \in Nat
      OBVIOUS
    <2>3. QED
      BY <2>1, <2>2 DEF Frames, FramesSent
  <1>1. Repeats \in 0 .. 8
    BY LinkAssumption DEF LinkAssumption
  <1>2. /\ 2 ^ 0 = 1 /\ 2 ^ 1 = 2 /\ 2 ^ 2 = 4 /\ 2 ^ 3 = 8 /\ 2 ^ 4 = 16
        /\ 2 ^ 5 = 32 /\ 2 ^ 6 = 64 /\ 2 ^ 7 = 128 /\ 2 ^ 8 = 256
    OBVIOUS
  <1>3. CASE Repeats = 0
    BY <1>2, <1>3
  <1>4. CASE Repeats = 1
    BY <1>2, <1>4
  <1>5. CASE Repeats = 2
    BY <1>2, <1>5
  <1>6. CASE Repeats = 3
    BY <1>2, <1>6
  <1>7. CASE Repeats = 4
    BY <1>2, <1>7
  <1>8. CASE Repeats = 5
    BY <1>2, <1>8
  <1>9. CASE Repeats = 6
    BY <1>2, <1>9
  <1>10. CASE Repeats = 7
    BY <1>2, <1>10
  <1>11. CASE Repeats = 8
    BY <1>2, <1>11
  <1>12. QED
    BY <1>1, <1>3, <1>4, <1>5, <1>6, <1>7, <1>8, <1>9, <1>10, <1>11

LEMMA AtMost == ASSUME NEW x \in Nat PROVE U(x) <= x /\ U(x) \in Nat
  BY Period DEF U

\* The gaps of a frame.
LEMMA FrameGaps ==
  ASSUME NEW c, IsCommand(c), SyncsApart
  PROVE  /\ FrameUsec(c) \in Seq(Nat) /\ Len(FrameUsec(c)) = FrameLength(c)
         /\ FrameLength(c) \in Nat /\ FrameLength(c) > 4
         /\ FrameUsec(c)[1] = PeriodUsec /\ FrameUsec(c)[2] = StartUsec
         /\ \A i \in 3 .. FrameLength(c) - 1 : FrameUsec(c)[i] = PartUsec(PartAt(c, i - 2))
         /\ FrameUsec(c)[FrameLength(c) - 1] = PeriodUsec
         /\ FrameUsec(c)[FrameLength(c)] = 40 * PeriodUsec
         /\ \A i \in 1 .. FrameLength(c) :
              /\ FrameUsec(c)[i] \in Nat /\ FrameUsec(c)[i] >= PeriodUsec
              /\ i < FrameLength(c) => FrameUsec(c)[i] <= 4800
  <1>1. PICK B \in Nat : B = BitCount(c) /\ B > 3 /\ FrameLength(c) = 4 * B + 4
    BY BitCountNat DEF FrameLength
  <1>2. /\ FrameUsec(c) \in Seq(Nat) /\ Len(FrameUsec(c)) = FrameLength(c)
        /\ FrameUsec(c)[1] = PeriodUsec /\ FrameUsec(c)[2] = StartUsec
        /\ \A k \in 1 .. 4 * B : FrameUsec(c)[2 + k] = PartUsec(CodeParts(c)[k])
        /\ FrameUsec(c)[FrameLength(c) - 1] = PeriodUsec
        /\ FrameUsec(c)[FrameLength(c)] = 40 * PeriodUsec
    BY <1>1, FrameIs
  <1>3. ASSUME NEW i \in 3 .. FrameLength(c) - 1
        PROVE  FrameUsec(c)[i] = PartUsec(PartAt(c, i - 2))
    <2>1. CASE i = FrameLength(c) - 1
      <3>1. ~(i - 2 <= 4 * B)
        BY <1>1, <2>1
      <3>2. PartAt(c, i - 2) = S
        BY <1>1, <3>1 DEF PartAt
      <3>3. QED
        BY <1>2, <2>1, <3>2 DEF PartUsec
    <2>2. CASE i < FrameLength(c) - 1
      <3>1. PICK k \in 1 .. 4 * B : k = i - 2 /\ i = 2 + k /\ k <= 4 * B
        <4>1. i - 2 \in 1 .. 4 * B /\ i = 2 + (i - 2) /\ i - 2 <= 4 * B
          BY <1>1, <2>2
        <4>2. QED
          BY <4>1
      <3>2. PartAt(c, k) = CodeParts(c)[k]
        BY <1>1, <3>1 DEF PartAt
      <3>3. QED
        BY <1>2, <3>1, <3>2
    <2>3. QED
      BY <1>1, <2>1, <2>2
  <1>4. ASSUME NEW i \in 1 .. FrameLength(c)
        PROVE  /\ FrameUsec(c)[i] \in Nat /\ FrameUsec(c)[i] >= PeriodUsec
               /\ i < FrameLength(c) => FrameUsec(c)[i] <= 4800
    <2>1. /\ StartUsec >= 5 * PeriodUsec /\ StartUsec >= PeriodUsec /\ StartUsec \in Nat
          /\ PeriodUsec \in Nat /\ 40 * PeriodUsec >= PeriodUsec /\ 40 * PeriodUsec \in Nat
          /\ 5 * PeriodUsec \in Nat
      BY Period DEF StartUsec
    <2>2. \A part : PartUsec(part) = PeriodUsec \/ PartUsec(part) = 5 * PeriodUsec
      BY DEF PartUsec
    <2>3. i = 1 \/ i = 2 \/ i \in 3 .. FrameLength(c) - 1 \/ i = FrameLength(c)
      BY <1>1
    <2>4. \/ FrameUsec(c)[i] \in {PeriodUsec, StartUsec, 5 * PeriodUsec}
          \/ i = FrameLength(c) /\ FrameUsec(c)[i] = 40 * PeriodUsec
      BY <1>2, <1>3, <2>2, <2>3
    <2>5. ~(FrameLength(c) < FrameLength(c))
      BY <1>1
    <2>6. QED
      BY <2>1, <2>4, <2>5 DEF SyncsApart
  <1>5. QED
    BY <1>1, <1>2, <1>3, <1>4

\* A receiver with nothing to wait for but a sync stays so; one that is in step
\* with a frame stays in step or is reset.
LEMMA StepWithin ==
  ASSUME IInv, Listening, SyncsApart, Interpret, NEW c, IsCommand(c),
         NEW i \in 1 .. FrameLength(c) - 1, gap = FrameUsec(c)[i], AtOr(c, i)
  PROVE  /\ AtOr(c, i + 1)' /\ Unremarked
         /\ state = -1 => state' = -1
         /\ InStep(c, i) /\ Fitting => InStep(c, i + 1)' /\ Fitting'
  <1>1. /\ FrameLength(c) \in Nat /\ FrameLength(c) > 4
        /\ FrameUsec(c)[1] = PeriodUsec /\ FrameUsec(c)[2] = StartUsec
        /\ \A k \in 3 .. FrameLength(c) - 1 : FrameUsec(c)[k] = PartUsec(PartAt(c, k - 2))
        /\ FrameUsec(c)[i] \in Nat /\ FrameUsec(c)[i] <= 4800
    <2>1. /\ FrameLength(c) \in Nat /\ FrameLength(c) > 4
          /\ FrameUsec(c)[1] = PeriodUsec /\ FrameUsec(c)[2] = StartUsec
          /\ \A k \in 3 .. FrameLength(c) - 1 : FrameUsec(c)[k] = PartUsec(PartAt(c, k - 2))
          /\ \A k \in 1 .. FrameLength(c) :
               /\ FrameUsec(c)[k] \in Nat
               /\ k < FrameLength(c) => FrameUsec(c)[k] <= 4800
      BY FrameGaps
    <2>2. i \in 1 .. FrameLength(c) /\ i < FrameLength(c)
      BY <2>1
    <2>3. QED
      BY <2>1, <2>2
  <1>2. CASE state = -1
    <2>1. U(gap) <= 4800
      <3>1. U(gap) <= gap /\ U(gap) \in Nat
        BY <1>1, AtMost
      <3>2. QED
        BY <1>1, <3>1
    <2>2. /\ called' = {} /\ UNCHANGED <<previous, code>>
          /\ state' = -1 /\ Unremarked
      <3>1. ~(U(gap) > 4800)
        BY <1>1, <2>1, AtMost
      <3>2. QED
        BY <1>2, <3>1, StepWait
    <2>3. ~InStep(c, i)
      BY <1>1, <1>2 DEF InStep
    <2>4. QED
      BY <2>2, <2>3 DEF AtOr
  <1>3. CASE InStep(c, i)
    <2>1. Follows(c, i + 1) /\ Unremarked
      <3>1. CASE i = 1
        BY <1>1, <1>3, <3>1, StepHigh
      <3>2. CASE i = 2
        BY <1>1, <1>3, <3>2, StepLow
      <3>3. CASE i \in 3 .. FrameLength(c) - 1
        BY <1>1, <1>3, <3>3, StepPart
      <3>4. QED
        BY <1>1, <3>1, <3>2, <3>3
    <2>2. state /= -1
      BY <1>1, <1>3 DEF InStep
    <2>3. QED
      BY <2>1, <2>2 DEF Follows, AtOr
  <1>4. QED
    BY <1>2, <1>3 DEF AtOr

--------------------------------------------------------------------------------
(* What is in the air.                                                     *)

LEMMA GoneType ==
  ASSUME NEW T, NEW x \in Seq(T), NEW n \in Nat
  PROVE  Gone(x, 0, n) \in Seq(T)
  <1>1. Copies(x, n) \in Seq(T)
    BY CopiesType
  <1>2. SubSeq(x, 0 + 1, Len(x)) \in Seq(T)
    OBVIOUS
  <1>3. PICK p \in Seq(T) : p = SubSeq(x, 0 + 1, Len(x)) \o Copies(x, n)
    <2>1. SubSeq(x, 0 + 1, Len(x)) \o Copies(x, n) \in Seq(T)
      BY <1>1, <1>2, ConcatProperties
    <2>2. QED
      BY <2>1, Zenon
  <1>4. SubSeq(p, 1, Len(p) - 1) \in Seq(T)
    BY SubSeqProperties
  <1>5. QED
    BY <1>3, <1>4 DEF Gone, Ahead, Front

\* A press is its silence and then one frame after the other.
LEMMA PressIs ==
  ASSUME NEW c, IsCommand(c), NEW idle, Frames > 0
  PROVE  PressUsec(c, idle) = <<idle>> \o Gone(FrameUsec(c), 0, Frames - 1)
  <1>1. PICK f \in Seq(Nat) : f = FrameUsec(c)
    BY FrameIs
  <1>2. Frames \in Nat /\ Frames - 1 \in Nat /\ (Frames - 1) + 1 = Frames
    BY FramesNat
  <1>3. Copies(f, Frames) = f \o Copies(f, Frames - 1)
    BY <1>2, CopiesFirst
  <1>4. SubSeq(f, 0 + 1, Len(f)) = f
    OBVIOUS
  <1>5. Gone(f, 0, Frames - 1) = Front(Copies(f, Frames))
    BY <1>3, <1>4 DEF Gone, Ahead
  <1>6. Frames /= 0
    BY <1>2
  <1>7. PressUsec(c, idle) = <<idle>> \o Front(Copies(f, Frames))
    BY <1>1, <1>6 DEF PressUsec, Frames, Copies
  <1>8. QED
    BY <1>1, <1>5, <1>7

LEMMA AfterSilence ==
  ASSUME NEW T, NEW s \in Seq(T), NEW idle \in T
  PROVE  <<idle>> \o s /= <<>> /\ Head(<<idle>> \o s) = idle /\ Tail(<<idle>> \o s) = s
  <1>1. PICK a \in Seq(T) : a = <<idle>> /\ Len(a) = 1 /\ a[1] = idle /\ Tail(a) = <<>>
    <2>1. /\ <<idle>> \in Seq(T) /\ Len(<<idle>>) = 1 /\ <<idle>>[1] = idle
          /\ Tail(<<idle>>) = <<>>
      OBVIOUS
    <2>2. QED
      BY <2>1, Zenon
  <1>2. PICK t \in Seq(T) : t = a \o s /\ Len(t) = 1 + Len(s) /\ t[1] = idle /\ Tail(t) = <<>> \o s
    <2>1. Len(a) > 0
      BY <1>1
    <2>2. /\ a \o s \in Seq(T) /\ Len(a \o s) = Len(a) + Len(s)
          /\ (a \o s)[1] = a[1] /\ Tail(a \o s) = Tail(a) \o s
      BY <2>1, JoinTail
    <2>3. /\ Len(a \o s) = 1 + Len(s) /\ (a \o s)[1] = idle /\ Tail(a \o s) = <<>> \o s
      BY <1>1, <2>2, Zenon
    <2>4. QED
      BY <2>2, <2>3, Zenon
  <1>3. <<>> \o s = s
    OBVIOUS
  <1>4. t /= <<>> /\ Head(t) = t[1]
    BY <1>2
  <1>5. QED
    BY <1>1, <1>2, <1>3, <1>4

--------------------------------------------------------------------------------
(* An edge arrives.                                                        *)

LEMMA SentIs ==
  ASSUME presses \in Seq(SentCodes)
  PROVE  /\ \A d \in Sent : IsCommand(d)
         /\ presses /= <<>> => Last(presses) \in Sent /\ IsCommand(Last(presses))
  <1>1. \A d \in Sent : d \in SentCodes
    BY DEF Sent, Range
  <1>2. ASSUME presses /= <<>> PROVE Last(presses) \in Sent
    <2>1. Len(presses) \in DOMAIN presses
      BY <1>2
    <2>2. QED
      BY <2>1 DEF Sent, Range, Last
  <1>3. QED
    BY <1>1, <1>2, SentCommand

LEMMA SameReceived ==
  ASSUME NEW c, IsCommand(c)
  PROVE  Same(Received(c), c)
  <1>1. c \in Codes
    BY DEF IsCommand
  <1>2. [AsHeld(c) EXCEPT !.dimPresent = FALSE] = [c EXCEPT !.dimPresent = FALSE]
    BY <1>1 DEF AsHeld, Codes
  <1>3. QED
    BY <1>2 DEF Same, Received

\* What every edge that arrives does.
LEMMA ArriveSound ==
  ASSUME CleanAir, Sound, Arrive, Head(air) \in Nat, Head(air) >= PeriodUsec,
         state = -1 \/ Measurable(period)
  PROVE  /\ IInv' /\ IInv /\ Listening /\ Interpret /\ SyncsApart
         /\ gap' = Head(air) /\ acc' = 0 /\ ~skip' /\ enabled'
         /\ air' = Tail(air) /\ Count
         /\ presses' = presses /\ presses \in Seq(SentCodes) /\ presses' \in Seq(SentCodes)
         /\ glitches' = 0 /\ noise' = 0
         /\ Sent' = Sent
  <1>1. PICK g \in Nat : g = Head(air) /\ g >= PeriodUsec
    OBVIOUS
  <1>2. Edge(g) /\ air' = Tail(air) /\ Count /\ UNCHANGED <<presses, glitches, noise>>
    BY <1>1 DEF Arrive
  <1>3. IInv /\ Listening /\ SyncsApart
    BY DEF Sound, IInv, Listening, CleanAir
  <1>4. IInv'
    BY <1>2, <1>3, EdgeInv
  <1>5. Interpret /\ gap' = g /\ acc' = 0 /\ ~skip' /\ enabled' = enabled
    BY <1>1, <1>2, <1>3, Counted
  <1>6. presses \in Seq(SentCodes) /\ glitches = 0 /\ noise = 0 /\ enabled
    BY DEF Sound
  <1>7. QED
    BY <1>1, <1>2, <1>3, <1>4, <1>5, <1>6 DEF Sent

\* Nothing is called, and nothing is counted.
LEMMA NothingCalled ==
  ASSUME called' = {}, Count
  PROVE  delivered' = delivered /\ OnlySent'
  BY DEF Count, OnlySent

\* What is called was sent.
LEMMA SentCalled ==
  ASSUME NEW d \in Sent, IsCommand(d), Sent' = Sent, Completes(d), Count, delivered \in Nat
  PROVE  /\ OnlySent' /\ delivered' \in Nat
         /\ \/ /\ state' = -1 /\ called' /= {} /\ repeats' >= MinRepeats
               /\ delivered' \in {delivered, delivered + 1}
               /\ d = Last(presses) => delivered' = delivered + 1
            \/ state' = 0 /\ repeats' < MinRepeats /\ delivered' = delivered
  <1>1. Same(Received(d), d)
    BY SameReceived
  <1>2. delivered' \in {delivered, delivered + 1}
    BY DEF Count
  <1>3. CASE repeats' >= MinRepeats /\ state' = -1 /\ called' = {Received(d)}
    <2>1. OnlySent'
      <3>1. d \in Range(presses)'
        BY DEF Sent
      <3>2. QED
        BY <1>1, <1>3, <3>1 DEF OnlySent, Same
    <2>2. d = Last(presses) => delivered' = delivered + 1
      BY <1>1, <1>3 DEF Count
    <2>3. QED
      BY <1>2, <1>3, <2>1, <2>2
  <1>4. CASE repeats' < MinRepeats /\ state' = 0 /\ called' = {}
    BY <1>4, NothingCalled
  <1>5. QED
    BY <1>3, <1>4 DEF Completes

LEMMA SoundAgain ==
  ASSUME IInv', enabled', acc' = 0, ~skip', presses' \in Seq(SentCodes), delivered' \in Nat,
         glitches' = 0, noise' = 0, OnlySent'
  PROVE  Sound'
  BY DEF Sound

LEMMA StateIs ==
  ASSUME NEW c, NEW i \in Nat, AtOr(c, i)
  PROVE  state = -1 \/ Measurable(period)
  BY DEF AtOr, InStep

\* The last edge of the press before.
LEMMA ArriveBefore ==
  ASSUME CleanAir, Sound, Arrive, presses /= <<>>, NEW c, c = Last(presses), Frames > 0, Before(c)
  PROVE  Sound' /\ Between(c)'
  <1>1. presses \in Seq(SentCodes) /\ delivered \in Nat
    BY DEF Sound
  <1>2. IsCommand(c) /\ \A d \in Sent : IsCommand(d)
    BY <1>1, SentIs
  <1>3. PICK idle \in Idles : air = <<idle>> \o Gone(FrameUsec(c), 0, Frames - 1)
    BY DEF Before
  <1>4. idle \in Nat /\ U(idle) > 12 * PeriodUsec
    BY <1>3, LinkAssumption DEF LinkAssumption, CleanAir, Still
  <1>5. PICK s \in Seq(Nat) : s = Gone(FrameUsec(c), 0, Frames - 1)
    <2>1. FrameUsec(c) \in Seq(Nat) /\ Frames - 1 \in Nat
      BY <1>2, FrameIs, FramesNat
    <2>2. QED
      BY <2>1, GoneType
  <1>6. Head(air) = idle /\ Tail(air) = s
    BY <1>3, <1>4, <1>5, AfterSilence
  <1>7. Head(air) \in Nat /\ Head(air) >= PeriodUsec
    <2>1. U(idle) <= idle /\ U(idle) \in Nat
      BY <1>4, AtMost
    <2>2. idle >= PeriodUsec
      BY <1>4, <2>1, Period
    <2>3. QED
      BY <1>4, <1>6, <2>2
  <1>8. delivered = 0 /\ (\/ gap = 0 /\ state = -1
                          \/ \E d \in Sent : gap = PeriodUsec /\ AtOr(d, FrameLength(d) - 1))
    BY DEF Before
  <1>9. \A d \in Sent : FrameLength(d) - 1 \in Nat
    BY <1>2, BitCountNat DEF FrameLength
  <1>10. state = -1 \/ Measurable(period)
    BY <1>8, <1>9, StateIs
  <1>11. /\ IInv' /\ IInv /\ Listening /\ Interpret /\ SyncsApart
         /\ gap' = Head(air) /\ acc' = 0 /\ ~skip' /\ enabled'
         /\ air' = Tail(air) /\ Count
         /\ presses' = presses /\ presses \in Seq(SentCodes) /\ presses' \in Seq(SentCodes)
         /\ glitches' = 0 /\ noise' = 0
         /\ Sent' = Sent
    BY <1>7, <1>10, ArriveSound
  <1>12. called' = {} /\ (state' = -1 \/ \E d \in Sent : InStep(d, FrameLength(d))')
    <2>1. CASE gap = 0 /\ state = -1
      <3>1. ~(U(gap) > 4800)
        BY <2>1, AtMost
      <3>2. QED
        BY <1>11, <2>1, <3>1, StepWait
    <2>2. CASE \E d \in Sent : gap = PeriodUsec /\ AtOr(d, FrameLength(d) - 1)
      <3>1. PICK d \in Sent : gap = PeriodUsec /\ AtOr(d, FrameLength(d) - 1)
        BY <2>2
      <3>2. IsCommand(d)
        BY <1>2
      <3>3. /\ FrameUsec(d)[FrameLength(d) - 1] = PeriodUsec
            /\ FrameLength(d) \in Nat /\ FrameLength(d) > 4
        BY <1>11, <3>2, FrameGaps
      <3>4. PICK i \in 1 .. FrameLength(d) - 1 : i = FrameLength(d) - 1 /\ i + 1 = FrameLength(d)
        <4>1. FrameLength(d) - 1 \in 1 .. FrameLength(d) - 1
              /\ (FrameLength(d) - 1) + 1 = FrameLength(d)
          BY <3>3
        <4>2. QED
          BY <4>1
      <3>5. AtOr(d, i + 1)' /\ Unremarked
        BY <1>11, <3>1, <3>2, <3>3, <3>4, StepWithin
      <3>6. AtOr(d, FrameLength(d))'
        BY <3>4, <3>5
      <3>7. state' = -1 \/ InStep(d, FrameLength(d))'
        BY <3>6 DEF AtOr
      <3>8. QED
        BY <3>5, <3>7 DEF Unremarked
    <2>3. QED
      BY <1>8, <2>1, <2>2
  <1>13. delivered' = 0 /\ OnlySent'
    BY <1>8, <1>11, <1>12, NothingCalled
  <1>14. Sound'
    BY <1>11, <1>13, SoundAgain
  <1>15. air' = Gone(FrameUsec(c), 0, Frames - 1) /\ gap' \in Idles
    BY <1>3, <1>5, <1>6, <1>11
  <1>16. state' = -1 \/ \E d \in Sent' : InStep(d, FrameLength(d))'
    BY <1>11, <1>12
  <1>17. QED
    BY <1>13, <1>14, <1>15, <1>16 DEF Between

LEMMA FirstStop ==
  ASSUME NEW m \in Nat, NEW f \in Nat, NEW d \in {0, 1}, NEW r \in Nat
  PROVE  /\ (m + 1) * d <= m + f - (f - 1)
         /\ d = 0 /\ r <= m => (m + 1) * d + (r + 1) <= m + f - (f - 1)
  <1>1. m + f - (f - 1) = m + 1
    OBVIOUS
  <1>2. CASE d = 0
    BY <1>1, <1>2
  <1>3. CASE d = 1
    BY <1>1, <1>3
  <1>4. QED
    BY <1>2, <1>3

\* The first edge of a press.
LEMMA ArriveBetween ==
  ASSUME CleanAir, Sound, Arrive, presses /= <<>>, NEW c, c = Last(presses), Frames > 0, Between(c)
  PROVE  Sound' /\ Within(c, 1, Frames - 1)'
  <1>1. presses \in Seq(SentCodes) /\ delivered \in Nat
    BY DEF Sound
  <1>2. IsCommand(c) /\ \A d \in Sent : IsCommand(d)
    BY <1>1, SentIs
  <1>3. /\ air = Gone(FrameUsec(c), 0, Frames - 1) /\ gap \in Idles /\ delivered = 0
        /\ state = -1 \/ \E d \in Sent : InStep(d, FrameLength(d))
    BY DEF Between
  <1>4. /\ U(gap) > 12 * PeriodUsec /\ Measurable(U(gap) \div 40) /\ SyncsApart
    BY <1>3 DEF CleanAir, Still
  <1>5. /\ FrameUsec(c) \in Seq(Nat) /\ Len(FrameUsec(c)) > 4 /\ FrameUsec(c)[1] = PeriodUsec
    BY <1>2, <1>4, FrameGaps
  <1>6. Frames \in Nat /\ Frames - 1 \in Nat
    BY FramesNat
  <1>7. Head(air) = PeriodUsec /\ Tail(air) = Gone(FrameUsec(c), 1, Frames - 1)
    <2>1. 0 \in 0 .. Len(FrameUsec(c)) - 1 /\ 0 < Len(FrameUsec(c)) - 1 /\ Len(FrameUsec(c)) > 1
          /\ 0 + 1 = 1
      BY <1>5
    <2>2. /\ Head(Gone(FrameUsec(c), 0, Frames - 1)) = FrameUsec(c)[0 + 1]
          /\ Tail(Gone(FrameUsec(c), 0, Frames - 1)) = Gone(FrameUsec(c), 0 + 1, Frames - 1)
      BY <1>5, <1>6, <2>1, GoneNext
    <2>3. QED
      BY <1>3, <1>5, <2>1, <2>2
  <1>8. Head(air) \in Nat /\ Head(air) >= PeriodUsec
    BY <1>7, Period
  <1>9. state = -1 \/ Measurable(period)
    BY <1>3 DEF InStep
  <1>10. /\ IInv' /\ IInv /\ Listening /\ Interpret /\ SyncsApart
         /\ gap' = Head(air) /\ acc' = 0 /\ ~skip' /\ enabled'
         /\ air' = Tail(air) /\ Count
         /\ presses' = presses /\ presses \in Seq(SentCodes) /\ presses' \in Seq(SentCodes)
         /\ glitches' = 0 /\ noise' = 0
         /\ Sent' = Sent
    BY <1>8, <1>9, ArriveSound
  <1>11. MinRepeats \in Nat /\ repeats \in Nat /\ repeats' \in Nat
    BY <1>10, ReceiverAssumption DEF ReceiverAssumption, IInv, TypeOK
  <1>12. /\ OnlySent' /\ delivered' \in {0, 1}
         /\ \/ state' = -1
            \/ /\ state' = 0 /\ Measurable(period)' /\ delivered' = 0
                /\ repeats' <= MinRepeats
    <2>1. CASE state = -1
      <3>1. called' = {} /\ (state' = -1 \/ (state' = 0 /\ repeats' = 0 /\ period' = U(gap) \div 40))
        BY <1>10, <2>1, StepWait
      <3>2. delivered' = 0 /\ OnlySent'
        BY <1>3, <1>10, <3>1, NothingCalled
      <3>3. 0 <= MinRepeats
        BY <1>11
      <3>4. QED
        BY <1>4, <3>1, <3>2, <3>3 DEF Measurable
    <2>2. CASE \E d \in Sent : InStep(d, FrameLength(d))
      <3>1. PICK d \in Sent : InStep(d, FrameLength(d))
        BY <2>2
      <3>2. IsCommand(d)
        BY <1>2
      <3>3. Measurable(period)
        BY <3>1 DEF InStep
      <3>4. Completes(d) \/ (Unremarked /\ state' = -1)
        BY <1>4, <1>10, <3>1, <3>2, StepSilence
      <3>5. CASE Completes(d)
        <4>1. /\ OnlySent' /\ delivered' \in Nat
              /\ \/ state' = -1 /\ delivered' \in {delivered, delivered + 1}
                 \/ state' = 0 /\ repeats' < MinRepeats /\ delivered' = delivered
          BY <1>1, <1>10, <3>2, <3>5, SentCalled
        <4>2. Measurable(period)'
          BY <3>3, <3>5 DEF Completes, Measurable
        <4>3. delivered' \in {0, 1} /\ (delivered' = delivered => delivered' = 0)
          BY <1>3, <4>1
        <4>4. repeats' < MinRepeats => repeats' <= MinRepeats
          BY <1>11
        <4>5. QED
          BY <4>1, <4>2, <4>3, <4>4
      <3>6. CASE Unremarked /\ state' = -1
        BY <1>3, <1>10, <3>6, NothingCalled DEF Unremarked
      <3>7. QED
        BY <3>4, <3>5, <3>6
    <2>3. QED
      BY <1>3, <2>1, <2>2
  <1>13. Sound'
    BY <1>10, <1>12, SoundAgain
  <1>14. AtOr(c, 1)'
    BY <1>12 DEF AtOr, InStep
  <1>15. NotOften(Frames - 1)'
    <2>1. PICK d \in {0, 1}, r \in Nat : d = delivered' /\ r = repeats'
      BY <1>11, <1>12
    <2>2. state' = -1 \/ (d = 0 /\ r <= MinRepeats)
      BY <1>12, <2>1
    <2>3. /\ (MinRepeats + 1) * d <= MinRepeats + Frames - (Frames - 1)
          /\ d = 0 /\ r <= MinRepeats =>
               (MinRepeats + 1) * d + (r + 1) <= MinRepeats + Frames - (Frames - 1)
      BY <1>6, <1>11, FirstStop
    <2>4. /\ (MinRepeats + 1) * delivered' <= MinRepeats + Frames - (Frames - 1)
          /\ state' /= -1 => (MinRepeats + 1) * delivered' + (repeats' + 1)
                               <= MinRepeats + Frames - (Frames - 1)
      BY <2>1, <2>2, <2>3, Zenon
    <2>5. QED
      BY <2>4 DEF NotOften, Frames
  <1>16. Counting(c, 1, Frames - 1)'
    <2>1. ~((Frames - 1) + 2 <= Frames)
      BY <1>6
    <2>2. QED
      BY <2>1 DEF Counting, Frames
  <1>17. gap' = FrameUsec(c)[1] /\ air' = Gone(FrameUsec(c), 1, Frames - 1)
    BY <1>5, <1>7, <1>10
  <1>18. QED
    BY <1>13, <1>14, <1>15, <1>16, <1>17 DEF Within

--------------------------------------------------------------------------------
(* Within a press.                                                         *)

\* An edge of a frame other than the first.
LEMMA ArriveWithin ==
  ASSUME CleanAir, Sound, Arrive, presses /= <<>>, NEW c, c = Last(presses),
         NEW i \in 1 .. FrameLength(c) - 1, NEW n \in 0 .. Frames - 1,
         i < FrameLength(c) - 1 \/ n > 0, Within(c, i, n)
  PROVE  Sound' /\ Within(c, i + 1, n)'
  <1>1. presses \in Seq(SentCodes) /\ delivered \in Nat
    BY DEF Sound
  <1>2. IsCommand(c)
    BY <1>1, SentIs
  <1>3. SyncsApart
    BY DEF CleanAir
  <1>4. PICK f \in Seq(Nat) :
          /\ f = FrameUsec(c) /\ Len(f) = FrameLength(c)
          /\ FrameLength(c) \in Nat /\ FrameLength(c) > 4
          /\ \A k \in 1 .. FrameLength(c) : f[k] \in Nat /\ f[k] >= PeriodUsec
    BY <1>2, <1>3, FrameGaps
  <1>5. i \in 0 .. Len(f) - 1 /\ i + 1 \in 1 .. FrameLength(c) /\ i \in Nat
    BY <1>4
  <1>6. gap = FrameUsec(c)[i] /\ air = Gone(f, i, n) /\ AtOr(c, i)
    BY <1>4 DEF Within
  <1>7. n \in Nat
    BY FramesNat
  <1>8. Head(air) = f[i + 1] /\ Tail(air) = Gone(f, i + 1, n)
    <2>1. Len(f) > 1 /\ (i < Len(f) - 1 \/ n > 0)
      BY <1>4
    <2>2. Head(Gone(f, i, n)) = f[i + 1] /\ Tail(Gone(f, i, n)) = Gone(f, i + 1, n)
      BY <1>5, <1>7, <2>1, GoneNext
    <2>3. QED
      BY <1>6, <2>2, Zenon
  <1>9. Head(air) \in Nat /\ Head(air) >= PeriodUsec
    BY <1>4, <1>5, <1>8
  <1>10. state = -1 \/ Measurable(period)
    BY <1>5, <1>6, StateIs
  <1>11. /\ IInv' /\ IInv /\ Listening /\ Interpret
         /\ gap' = Head(air) /\ acc' = 0 /\ ~skip' /\ enabled'
         /\ air' = Tail(air) /\ Count
         /\ presses' \in Seq(SentCodes)
         /\ glitches' = 0 /\ noise' = 0
    BY <1>9, <1>10, ArriveSound
  <1>12. /\ AtOr(c, i + 1)' /\ Unremarked
         /\ state = -1 => state' = -1
         /\ InStep(c, i) /\ Fitting => InStep(c, i + 1)' /\ Fitting'
    BY <1>2, <1>3, <1>6, <1>11, StepWithin
  <1>13. /\ called' = {} /\ repeats' = repeats /\ previous' = previous
         /\ code'.dimPresent = code.dimPresent
    BY <1>12 DEF Unremarked, repetition
  <1>14. delivered' = delivered /\ OnlySent'
    BY <1>11, <1>13, NothingCalled
  <1>15. delivered' \in Nat
    BY <1>1, <1>14
  <1>16. Sound'
    BY <1>11, <1>14, <1>15, SoundAgain
  <1>17. NotOften(n)'
    <2>1. NotOften(n)
      BY DEF Within
    <2>2. QED
      BY <2>1, <1>12, <1>13, <1>14 DEF NotOften, Frames
  <1>18. Counting(c, i + 1, n)'
    <2>1. Counting(c, i, n)
      BY DEF Within
    <2>2. AsHeld(c)' = AsHeld(c)
      BY <1>13 DEF AsHeld
    <2>3. QED
      BY <2>1, <2>2, <1>12, <1>13, <1>14 DEF Counting, Frames
  <1>19. gap' = FrameUsec(c)[i + 1] /\ air' = Gone(FrameUsec(c), i + 1, n)
    BY <1>4, <1>8, <1>11
  <1>20. QED
    BY <1>12, <1>16, <1>17, <1>18, <1>19 DEF Within

\* The room that is left after one more stop pulse: with a delivery,
LEMMA RoomAfterCall ==
  ASSUME NEW m \in Nat, NEW f \in Nat, NEW n \in Nat, NEW d \in Nat, NEW r \in Nat,
         (m + 1) * d + (r + 1) <= m + f - n, r + 1 >= m
  PROVE  (m + 1) * (d + 1) <= m + f - (n - 1)
  <1>1. (m + 1) * (d + 1) = (m + 1) * d + (m + 1)
    OBVIOUS
  <1>2. (m + 1) * d \in Nat
    OBVIOUS
  <1>3. QED
    BY <1>1, <1>2

\* and without one.
LEMMA RoomAfterFrame ==
  ASSUME NEW m \in Nat, NEW f \in Nat, NEW n \in Nat, NEW d \in Nat, NEW r \in Nat
  PROVE  /\ (m + 1) * d <= m + f - n =>
              (m + 1) * d <= m + f - (n - 1) /\ (m + 1) * d + (0 + 1) <= m + f - (n - 1)
         /\ (m + 1) * d + (r + 1) <= m + f - n =>
              /\ (m + 1) * d + (1 + 1) <= m + f - (n - 1)
              /\ (m + 1) * d + ((r + 1) + 1) <= m + f - (n - 1)
  <1>1. PICK x \in Nat : x = (m + 1) * d
    OBVIOUS
  <1>2. QED
    BY <1>1

\* One repetition more with every frame.
LEMMA CountAfterFrame ==
  ASSUME NEW f \in Nat, NEW n \in Nat, n > 0
  PROVE  /\ (n - 1) + 2 <= f <=> n + 1 <= f
         /\ (n - 1) + 3 <= f <=> n + 2 <= f
         /\ ~(n + 2 <= f) => 0 + (n - 1) + 2 >= f
         /\ ~(n + 3 <= f) => 1 + (n - 1) + 2 >= f
         /\ n + 3 <= f => n + 2 <= f
         /\ \A r \in Nat : r + n + 2 >= f => (r + 1) + (n - 1) + 2 >= f
  OBVIOUS

LEMMA HeldAgain ==
  ASSUME NEW c, IsCommand(c), code' = Received(c)
  PROVE  /\ AsHeld(c)' = Received(c)
         /\ c.dimPresent => code'.dimPresent
         /\ (c.dimPresent => code.dimPresent) /\ code.dimPresent \in BOOLEAN
              => Received(c) = AsHeld(c)
  <1>1. c \in Codes /\ c.dimPresent \in BOOLEAN
    BY DEF IsCommand, Codes
  <1>2. AsHeld(c)' = [c EXCEPT !.dimPresent = code'.dimPresent]
    BY DEF AsHeld
  <1>3. CASE c.dimPresent
    <2>1. Received(c) = c /\ c.dimPresent = TRUE
      BY <1>1, <1>3 DEF Received
    <2>2. [c EXCEPT !.dimPresent = TRUE] = c
      BY <1>1, <2>1 DEF Codes
    <2>3. code'.dimPresent = TRUE
      BY <2>1
    <2>4. AsHeld(c)' = Received(c)
      BY <1>2, <2>1, <2>2, <2>3
    <2>5. ASSUME code.dimPresent, code.dimPresent \in BOOLEAN PROVE Received(c) = AsHeld(c)
      <3>1. code.dimPresent = TRUE
        BY <2>5
      <3>2. QED
        BY <2>1, <2>2, <3>1 DEF AsHeld
    <2>6. QED
      BY <1>3, <2>3, <2>4, <2>5
  <1>4. CASE ~c.dimPresent
    <2>1. code' = AsHeld(c) /\ Received(c) = AsHeld(c)
      BY <1>4 DEF Received
    <2>2. code'.dimPresent = code.dimPresent
      BY <1>1, <2>1 DEF AsHeld, Codes
    <2>3. QED
      BY <1>2, <1>4, <2>1, <2>2 DEF AsHeld
  <1>5. QED
    BY <1>3, <1>4

\* The last interval of a frame that another frame follows.
LEMMA ArriveEnd ==
  ASSUME CleanAir, Sound, Arrive, presses /= <<>>, NEW c, c = Last(presses),
         NEW n \in 0 .. Frames - 1, n > 0, Within(c, FrameLength(c), n)
  PROVE  Sound' /\ Within(c, 1, n - 1)'
  <1>1. presses \in Seq(SentCodes) /\ delivered \in Nat
    BY DEF Sound
  <1>2. IsCommand(c) /\ c \in Sent
    BY <1>1, SentIs
  <1>3. SyncsApart
    BY DEF CleanAir
  <1>4. PICK f \in Seq(Nat) :
          /\ f = FrameUsec(c) /\ Len(f) = FrameLength(c)
          /\ FrameLength(c) \in Nat /\ FrameLength(c) > 4
          /\ f[1] = PeriodUsec /\ f[FrameLength(c)] = 40 * PeriodUsec
    BY <1>2, <1>3, FrameGaps
  <1>5. gap = 40 * PeriodUsec /\ air = Gone(f, Len(f), n) /\ AtOr(c, FrameLength(c))
    BY <1>4 DEF Within
  <1>6. n \in Nat /\ n - 1 \in Nat /\ Frames \in Nat /\ n + 1 <= Frames
    BY FramesNat
  <1>7. Head(air) = PeriodUsec /\ Tail(air) = Gone(f, 1, n - 1)
    <2>1. 0 \in 0 .. Len(f) - 1 /\ 0 < Len(f) - 1 /\ Len(f) > 1 /\ 0 + 1 = 1
      BY <1>4
    <2>2. /\ Head(Gone(f, 0, n - 1)) = f[0 + 1]
          /\ Tail(Gone(f, 0, n - 1)) = Gone(f, 0 + 1, n - 1)
      BY <1>6, <2>1, GoneNext
    <2>3. Gone(f, Len(f), n) = Gone(f, 0, n - 1)
      BY <1>6, GoneOn
    <2>4. QED
      BY <1>4, <1>5, <2>1, <2>2, <2>3
  <1>8. Head(air) \in Nat /\ Head(air) >= PeriodUsec
    BY <1>7, Period
  <1>9. state = -1 \/ Measurable(period)
    BY <1>4, <1>5, StateIs
  <1>10. /\ IInv' /\ IInv /\ Listening /\ Interpret
         /\ gap' = Head(air) /\ acc' = 0 /\ ~skip' /\ enabled'
         /\ air' = Tail(air) /\ Count
         /\ presses' \in Seq(SentCodes)
         /\ glitches' = 0 /\ noise' = 0
         /\ Sent' = Sent
    BY <1>8, <1>9, ArriveSound
  <1>11. MinRepeats \in Nat /\ MinRepeats >= 1 /\ repeats \in Nat /\ repeats' \in Nat
    BY <1>10, ReceiverAssumption DEF ReceiverAssumption, IInv, TypeOK
  <1>12. NotOften(n) /\ Counting(c, FrameLength(c), n)
    BY DEF Within
  <1>13. CASE state = -1
    <2>1. U(40 * PeriodUsec) = 40 * PeriodUsec /\ (40 * PeriodUsec) \div 40 = PeriodUsec
      <3>1. 40 * PeriodUsec \in Nat /\ 40 * PeriodUsec < UIntMod
            /\ (40 * PeriodUsec) \div 40 = PeriodUsec
        BY <1>3, Period DEF SyncsApart
      <3>2. QED
        BY <3>1, Unwrapped
    <2>2. called' = {} /\ state' = 0 /\ repeats' = 0 /\ period' = PeriodUsec
      <3>1. ~(40 * PeriodUsec <= 4800)
        BY <1>3, Period DEF SyncsApart
      <3>2. QED
        BY <1>5, <1>10, <1>13, <2>1, <3>1, StepWait
    <2>3. delivered' = delivered /\ OnlySent'
      BY <1>10, <2>2, NothingCalled
    <2>4. Sound'
      BY <1>1, <1>10, <2>3, SoundAgain
    <2>5. Measurable(PeriodUsec) /\ 7 * PeriodUsec <= StartUsec /\ StartUsec <= 15 * PeriodUsec
      BY <1>3, Period DEF SyncsApart, Measurable, StartUsec
    <2>6. InStep(c, 1)' /\ Fitting'
      BY <2>2, <2>5 DEF InStep, Fitting, Measurable
    <2>7. NotOften(n - 1)'
      <3>1. PICK d \in Nat, r \in Nat : d = delivered /\ r = repeats
        BY <1>1, <1>11
      <3>2. (MinRepeats + 1) * d <= MinRepeats + Frames - n
        BY <1>12, <3>1 DEF NotOften
      <3>3. /\ (MinRepeats + 1) * d <= MinRepeats + Frames - (n - 1)
            /\ (MinRepeats + 1) * d + (0 + 1) <= MinRepeats + Frames - (n - 1)
        BY <1>6, <1>11, <3>2, RoomAfterFrame
      <3>4. delivered' = d
        BY <2>3, <3>1
      <3>5. QED
        BY <2>2, <3>3, <3>4 DEF NotOften, Frames
    <2>8. Counting(c, 1, n - 1)'
      <3>1. ASSUME delivered = 0 PROVE ~(n + 2 <= Frames)
        <4>1. ~InStep(c, FrameLength(c))
          BY <1>4, <1>13 DEF InStep
        <4>2. QED
          BY <1>12, <3>1, <4>1 DEF Counting
      <3>2. QED
        BY <1>6, <2>2, <2>3, <2>6, <3>1, CountAfterFrame DEF Counting, Frames
    <2>9. AtOr(c, 1)'
      BY <2>6 DEF AtOr
    <2>10. QED
      BY <1>4, <1>7, <1>10, <2>4, <2>7, <2>8, <2>9 DEF Within
  <1>14. CASE InStep(c, FrameLength(c))
    <2>1. Completes(c)
      BY <1>2, <1>3, <1>5, <1>10, <1>14, StepStop
    <2>2. /\ code = AsHeld(c) /\ code \in Codes /\ Measurable(period) /\ Fitting
      BY <1>2, <1>10, <1>14, AtEnd
    <2>3. /\ OnlySent' /\ delivered' \in Nat
          /\ \/ /\ state' = -1 /\ repeats' >= MinRepeats /\ delivered' = delivered + 1
             \/ state' = 0 /\ repeats' < MinRepeats /\ delivered' = delivered
      BY <1>1, <1>2, <1>10, <2>1, SentCalled
    <2>4. Sound'
      BY <1>10, <2>3, SoundAgain
    <2>5. PICK d \in Nat, r \in Nat, q \in Nat : d = delivered /\ r = repeats /\ q = repeats'
      BY <1>1, <1>11
    <2>6. q = (IF Received(c) = previous THEN r + 1 ELSE 1)
      BY <2>1, <2>5 DEF Completes
    <2>7. (MinRepeats + 1) * d + (r + 1) <= MinRepeats + Frames - n
      <3>1. state /= -1
        BY <1>4, <1>14 DEF InStep
      <3>2. QED
        BY <1>12, <2>5, <3>1 DEF NotOften
    <2>8. NotOften(n - 1)'
      <3>1. CASE state' = -1 /\ repeats' >= MinRepeats /\ delivered' = delivered + 1
        <4>1. r + 1 >= MinRepeats
          <5>1. q >= MinRepeats
            BY <2>5, <3>1
          <5>2. QED
            BY <1>11, <2>6, <5>1
        <4>2. (MinRepeats + 1) * (d + 1) <= MinRepeats + Frames - (n - 1)
          BY <1>6, <1>11, <2>7, <4>1, RoomAfterCall
        <4>3. delivered' = d + 1
          BY <2>5, <3>1
        <4>4. QED
          BY <3>1, <4>2, <4>3 DEF NotOften, Frames
      <3>2. CASE state' = 0 /\ repeats' < MinRepeats /\ delivered' = delivered
        <4>1. /\ (MinRepeats + 1) * d + (1 + 1) <= MinRepeats + Frames - (n - 1)
              /\ (MinRepeats + 1) * d + ((r + 1) + 1) <= MinRepeats + Frames - (n - 1)
          BY <1>6, <1>11, <2>7, RoomAfterFrame
        <4>2. (MinRepeats + 1) * d + (q + 1) <= MinRepeats + Frames - (n - 1)
          BY <2>6, <4>1
        <4>3. (MinRepeats + 1) * d <= MinRepeats + Frames - (n - 1)
          <5>1. PICK x \in Nat : x = (MinRepeats + 1) * d
            BY <1>11
          <5>2. QED
            BY <1>6, <1>11, <4>2, <5>1
        <4>4. delivered' = d /\ repeats' = q
          BY <2>5, <3>2
        <4>5. QED
          BY <4>2, <4>3, <4>4 DEF NotOften, Frames
      <3>3. QED
        BY <2>3, <3>1, <3>2
    <2>9. Counting(c, 1, n - 1)'
      <3>1. SUFFICES ASSUME n + 1 <= Frames, delivered' = 0
                     PROVE  /\ InStep(c, 1)' /\ Fitting'
                            /\ repeats' + (n - 1) + 2 >= Frames
                            /\ n + 2 <= Frames =>
                                 /\ previous' = AsHeld(c)'
                                 /\ c.dimPresent => code'.dimPresent
        BY <1>6, CountAfterFrame DEF Counting, Frames
      <3>2. state' = 0 /\ delivered = 0
        BY <1>1, <2>3, <3>1
      <3>3. InStep(c, 1)' /\ Fitting'
        BY <2>1, <2>2, <3>2 DEF Completes, InStep, Fitting, Measurable
      <3>4. code' = Received(c) /\ previous' = Received(c)
        BY <2>1 DEF Completes
      <3>5. q + (n - 1) + 2 >= Frames
        <4>1. CASE n + 3 <= Frames
          <5>1. /\ r + n + 2 >= Frames
                /\ previous = AsHeld(c) /\ (c.dimPresent => code.dimPresent)
            BY <1>6, <1>12, <2>5, <3>2, <4>1, CountAfterFrame DEF Counting
          <5>2. Received(c) = AsHeld(c)
            BY <1>2, <2>2, <3>4, <5>1, HeldAgain DEF Codes
          <5>3. q = r + 1
            BY <2>6, <5>1, <5>2
          <5>4. QED
            BY <1>6, <5>1, <5>3
        <4>2. CASE ~(n + 3 <= Frames)
          <5>1. q >= 1
            BY <2>6
          <5>2. QED
            BY <1>6, <4>2, <5>1
        <4>3. QED
          BY <4>1, <4>2
      <3>6. previous' = AsHeld(c)' /\ (c.dimPresent => code'.dimPresent)
        BY <1>2, <3>4, HeldAgain
      <3>7. repeats' + (n - 1) + 2 >= Frames
        BY <2>5, <3>5, Zenon
      <3>8. QED
        BY <3>3, <3>6, <3>7
    <2>10. AtOr(c, 1)'
      BY <2>1, <2>2, <2>3 DEF AtOr, InStep, Completes, Measurable
    <2>11. QED
      BY <1>4, <1>7, <1>10, <2>4, <2>8, <2>9, <2>10 DEF Within
  <1>15. QED
    BY <1>5, <1>13, <1>14 DEF AtOr

--------------------------------------------------------------------------------
(* Every step of the link.                                                 *)

\* Nothing is to come but the last part of a stop pulse.
LEMMA LastGap ==
  ASSUME CleanAir, Sound, presses /= <<>>, NEW c, c = Last(presses), Frames > 0, OnAir(c),
         air = <<>>
  PROVE  Within(c, FrameLength(c) - 1, 0) /\ FrameLength(c) \in Nat /\ FrameLength(c) > 4
  <1>1. IsCommand(c) /\ Frames \in Nat /\ Frames - 1 \in Nat /\ SyncsApart
    BY SentIs, FramesNat DEF Sound, CleanAir
  <1>2. PICK f \in Seq(Nat) :
          /\ f = FrameUsec(c) /\ Len(f) = FrameLength(c)
          /\ FrameLength(c) \in Nat /\ FrameLength(c) > 4
    BY <1>1, FrameGaps
  <1>3. ASSUME NEW n \in Nat PROVE Gone(f, 0, n) /= <<>>
    <2>1. 0 \in 0 .. Len(f) - 1 /\ 0 < Len(f) - 1 /\ Len(f) > 1
      BY <1>2
    <2>2. QED
      BY <2>1, GoneNext
  <1>4. ~Before(c)
    <2>1. ASSUME NEW idle \in Idles PROVE <<idle>> \o Gone(f, 0, Frames - 1) /= <<>>
      <3>1. idle \in Nat /\ Gone(f, 0, Frames - 1) \in Seq(Nat)
        BY <1>1, GoneType, LinkAssumption DEF LinkAssumption
      <3>2. QED
        BY <3>1, AfterSilence
    <2>2. QED
      BY <1>2, <2>1 DEF Before
  <1>5. ~Between(c)
    BY <1>1, <1>2, <1>3 DEF Between
  <1>6. PICK i \in 1 .. FrameLength(c), n \in 0 .. Frames - 1 :
          (i < FrameLength(c) \/ n > 0) /\ Within(c, i, n)
    BY <1>4, <1>5 DEF OnAir
  <1>7. Gone(f, i, n) = <<>> /\ n \in Nat
    BY <1>1, <1>2, <1>6 DEF Within
  <1>8. i < FrameLength(c)
    <2>1. CASE i = FrameLength(c)
      <3>1. n > 0 /\ n - 1 \in Nat
        BY <1>2, <1>6, <1>7, <2>1
      <3>2. Gone(f, Len(f), n) = Gone(f, 0, n - 1)
        BY <1>7, <3>1, GoneOn
      <3>3. QED
        BY <1>2, <1>3, <1>7, <2>1, <3>1, <3>2
    <2>2. QED
      BY <1>2, <2>1
  <1>9. ~(i < FrameLength(c) - 1 \/ n > 0)
    <2>1. i \in 0 .. Len(f) - 1 /\ Len(f) > 1
      BY <1>2, <1>8
    <2>2. (i < Len(f) - 1 \/ n > 0) => Gone(f, i, n) /= <<>>
      BY <1>7, <2>1, GoneNext
    <2>3. QED
      BY <1>2, <1>7, <2>2
  <1>10. i = FrameLength(c) - 1 /\ n = 0
    BY <1>2, <1>7, <1>8, <1>9
  <1>11. QED
    BY <1>2, <1>6, <1>10

LEMMA PressStep ==
  ASSUME CleanAir, LinkInv, NEW c \in SentCodes, NEW idle \in Idles, Press(c, idle)
  PROVE  LinkInv'
  <1>1. /\ air = <<>> /\ air' = PressUsec(c, idle) /\ presses' = Append(presses, c)
        /\ noise' = 0 /\ delivered' = 0 /\ called' = {}
        /\ UNCHANGED <<enabled, state, parts, code, period, acc, gap, skip,
                       previous, repeats, lastFrame, row, glitches>>
        /\ UNCHANGED heard
    BY DEF Press, timing, repetition
  <1>2. Sound
    BY DEF LinkInv
  <1>3. /\ IInv /\ enabled /\ acc = 0 /\ ~skip /\ glitches = 0
        /\ presses \in Seq(SentCodes)
    BY <1>2 DEF Sound
  <1>4. IInv'
    <2>1. TypeOK'
      BY <1>1, <1>3 DEF IInv, TypeOK
    <2>2. RowIsCounted' /\ CountLeavesRoom'
      BY <1>1, <1>3 DEF IInv, RowIsCounted, CountLeavesRoom
    <2>3. CalledOnlyInARow'
      BY <1>1 DEF CalledOnlyInARow
    <2>4. QED
      BY <2>1, <2>2, <2>3 DEF IInv
  <1>5. presses' \in Seq(SentCodes) /\ presses' /= <<>> /\ Last(presses') = c
        /\ \A d \in Sent : d \in Sent'
    <2>1. /\ Append(presses, c) \in Seq(SentCodes) /\ Append(presses, c) /= <<>>
          /\ Len(Append(presses, c)) = Len(presses) + 1
          /\ Append(presses, c)[Len(presses) + 1] = c
          /\ \A k \in 1 .. Len(presses) :
               k \in 1 .. Len(presses) + 1 /\ Append(presses, c)[k] = presses[k]
      BY <1>3
    <2>2. DOMAIN presses = 1 .. Len(presses)
          /\ DOMAIN Append(presses, c) = 1 .. Len(presses) + 1
      BY <1>3, <2>1
    <2>3. \A d \in Range(presses) : d \in Range(Append(presses, c))
      BY <2>1, <2>2 DEF Range
    <2>4. QED
      BY <1>1, <2>1, <2>3 DEF Last, Sent
  <1>6. Sound'
    <2>1. OnlySent'
      BY <1>1 DEF OnlySent
    <2>2. delivered' \in Nat
      BY <1>1
    <2>3. QED
      BY <1>1, <1>3, <1>4, <1>5, <2>1, <2>2, SoundAgain
  <1>7. IsCommand(c) /\ Frames \in Nat
    BY SentCommand, FramesNat
  <1>8. CASE Frames = 0
    <2>1. Silent
      BY <1>8 DEF LinkInv
    <2>2. PressUsec(c, idle) = <<>>
      BY <1>8 DEF PressUsec, Frames
    <2>3. Silent'
      BY <1>1, <1>8, <2>1, <2>2 DEF Silent, Frames
    <2>4. QED
      BY <1>6, <2>3 DEF LinkInv
  <1>9. CASE Frames > 0
    <2>1. air' = <<idle>> \o Gone(FrameUsec(c), 0, Frames - 1)
      BY <1>1, <1>7, <1>9, PressIs
    <2>2. \/ gap = 0 /\ state = -1
          \/ \E d \in Sent : gap = PeriodUsec /\ AtOr(d, FrameLength(d) - 1)
      <3>1. CASE Silent
        BY <3>1 DEF Silent
      <3>2. CASE \E d : presses /= <<>> /\ d = Last(presses) /\ OnAir(d)
        <4>1. PICK d : presses /= <<>> /\ d = Last(presses) /\ OnAir(d)
          BY <3>2
        <4>2. d \in Sent /\ IsCommand(d) /\ SyncsApart
          BY <1>3, <4>1, SentIs DEF CleanAir
        <4>3. Within(d, FrameLength(d) - 1, 0)
          BY <1>1, <1>2, <1>9, <4>1, LastGap
        <4>4. gap = PeriodUsec
          BY <4>2, <4>3, FrameGaps DEF Within
        <4>5. AtOr(d, FrameLength(d) - 1)
          BY <4>3 DEF Within
        <4>6. QED
          BY <4>2, <4>4, <4>5
      <3>3. QED
        BY <3>1, <3>2 DEF LinkInv
    <2>3. \/ gap' = 0 /\ state' = -1
          \/ \E d \in Sent' : gap' = PeriodUsec /\ AtOr(d, FrameLength(d) - 1)'
      <3>1. CASE gap = 0 /\ state = -1
        BY <1>1, <3>1
      <3>2. CASE \E d \in Sent : gap = PeriodUsec /\ AtOr(d, FrameLength(d) - 1)
        <4>1. PICK d \in Sent : gap = PeriodUsec /\ AtOr(d, FrameLength(d) - 1)
          BY <3>2
        <4>2. AtOr(d, FrameLength(d) - 1)'
          BY <1>1, <4>1 DEF AtOr, InStep, Taken, Fitting, Measurable, Decoded
        <4>3. QED
          BY <1>1, <1>5, <4>1, <4>2
      <3>3. QED
        BY <2>2, <3>1, <3>2
    <2>4. Before(c)'
      BY <1>1, <2>1, <2>3 DEF Before, Frames
    <2>5. OnAir(c)'
      BY <2>4 DEF OnAir
    <2>6. QED
      BY <1>5, <1>6, <1>9, <2>5 DEF LinkInv, Frames
  <1>10. QED
    BY <1>7, <1>8, <1>9

LEMMA ArriveStep ==
  ASSUME CleanAir, LinkInv, Arrive
  PROVE  LinkInv'
  <1>1. Sound /\ air /= <<>>
    BY DEF LinkInv, Arrive
  <1>2. PICK c : presses /= <<>> /\ c = Last(presses) /\ Frames > 0 /\ OnAir(c)
    BY <1>1 DEF LinkInv, Silent
  <1>3. presses' = presses
    BY DEF Arrive
  <1>4. SUFFICES Sound' /\ OnAir(c)'
    BY <1>2, <1>3 DEF LinkInv, Frames
  <1>5. /\ FrameLength(c) \in Nat /\ FrameLength(c) > 4
        /\ FrameUsec(c) \in Seq(Nat) /\ Len(FrameUsec(c)) = FrameLength(c)
        /\ Frames \in Nat
    <2>1. IsCommand(c) /\ SyncsApart
      BY <1>1, <1>2, SentIs DEF Sound, CleanAir
    <2>2. QED
      BY <2>1, FrameGaps, FramesNat
  <1>6. CASE Before(c)
    <2>1. Sound' /\ Between(c)'
      BY <1>1, <1>2, <1>6, ArriveBefore
    <2>2. QED
      BY <2>1 DEF OnAir
  <1>7. CASE Between(c)
    <2>1. Sound' /\ Within(c, 1, Frames - 1)'
      BY <1>1, <1>2, <1>7, ArriveBetween
    <2>2. 1 \in 1 .. FrameLength(c) /\ Frames - 1 \in 0 .. Frames - 1 /\ 1 < FrameLength(c)
      BY <1>2, <1>5
    <2>3. QED
      BY <2>1, <2>2 DEF OnAir, Frames
  <1>8. ASSUME NEW i \in 1 .. FrameLength(c), NEW n \in 0 .. Frames - 1,
               i < FrameLength(c) \/ n > 0, Within(c, i, n)
        PROVE  Sound' /\ OnAir(c)'
    <2>1. CASE i = FrameLength(c)
      <3>1. n > 0
        BY <1>5, <1>8, <2>1
      <3>2. Within(c, FrameLength(c), n)
        BY <1>8, <2>1
      <3>3. Sound' /\ Within(c, 1, n - 1)'
        BY <1>1, <1>2, <3>1, <3>2, ArriveEnd
      <3>4. 1 \in 1 .. FrameLength(c) /\ n - 1 \in 0 .. Frames - 1 /\ 1 < FrameLength(c)
        BY <1>5, <3>1
      <3>5. QED
        BY <3>3, <3>4 DEF OnAir, Frames
    <2>2. CASE i < FrameLength(c)
      <3>1. i < FrameLength(c) - 1 \/ n > 0
        <4>1. CASE i = FrameLength(c) - 1 /\ n = 0
          <5>1. Gone(FrameUsec(c), Len(FrameUsec(c)) - 1, 0) = <<>>
            BY <1>5, GoneEnd
          <5>2. air = Gone(FrameUsec(c), i, n)
            BY <1>8 DEF Within
          <5>3. QED
            BY <1>1, <1>5, <4>1, <5>1, <5>2
        <4>2. QED
          BY <1>5, <2>2, <4>1
      <3>2. i \in 1 .. FrameLength(c) - 1
        BY <1>5, <2>2
      <3>3. Sound' /\ Within(c, i + 1, n)'
        BY <1>1, <1>2, <1>8, <3>1, <3>2, ArriveWithin
      <3>4. i + 1 \in 1 .. FrameLength(c) /\ (i + 1 < FrameLength(c) \/ n > 0)
        BY <1>5, <3>1, <3>2
      <3>5. QED
        BY <3>3, <3>4 DEF OnAir, Frames
    <2>3. QED
      BY <1>5, <2>1, <2>2
  <1>9. QED
    BY <1>2, <1>6, <1>7, <1>8 DEF OnAir

LEMMA LinkBegins == ASSUME LinkInit PROVE LinkInv
  <1>1. IInv
    BY InitInv DEF LinkInit
  <1>2. enabled /\ acc = 0 /\ ~skip /\ gap = 0 /\ state = -1 /\ called = {}
    BY DEF LinkInit, Init
  <1>3. Sound /\ Silent
    BY <1>1, <1>2 DEF LinkInit, Sound, Silent, OnlySent
  <1>4. QED
    BY <1>3 DEF LinkInv

LEMMA LinkInductive ==
  ASSUME CleanAir, LinkInv, [LinkNext]_linkVars
  PROVE  LinkInv'
  <1>1. glitches = 0 /\ noise = 0 /\ MaxGlitches = 0 /\ MaxNoise = 0
    BY DEF LinkInv, Sound, CleanAir
  <1>2. ASSUME NEW c \in SentCodes, NEW idle \in Idles, Press(c, idle) PROVE LinkInv'
    BY <1>2, PressStep
  <1>3. CASE Arrive
    BY <1>3, ArriveStep
  <1>4. ASSUME NEW e \in Glitches, Glitch(e) PROVE FALSE
    BY <1>1, <1>4 DEF Glitch
  <1>5. ASSUME NEW g \in Gaps, Noise(g) PROVE FALSE
    BY <1>1, <1>5 DEF Noise
  <1>6. CASE UNCHANGED linkVars
    <2>1. UNCHANGED <<enabled, state, parts, code, period, acc, gap, skip, previous, repeats,
                      lastFrame, row, heard, called, air, presses, glitches, noise, delivered>>
      BY <1>6 DEF linkVars, receiverVars, timing, repetition
    <2>2. Sound'
      <3>1. IInv'
        BY <2>1 DEF LinkInv, Sound, IInv, TypeOK, RowIsCounted, CountLeavesRoom,
                    CalledOnlyInARow
      <3>2. QED
        BY <2>1, <3>1 DEF LinkInv, Sound, OnlySent
    <2>3. CASE Silent
      BY <2>1, <2>2, <2>3 DEF LinkInv, Silent, Frames
    <2>4. CASE ~Silent
      <3>1. PICK c : presses /= <<>> /\ c = Last(presses) /\ Frames > 0 /\ OnAir(c)
        BY <2>4 DEF LinkInv
      <3>2. \A d, i : AtOr(d, i) <=> AtOr(d, i)'
        BY <2>1 DEF AtOr, InStep, Taken, Fitting, Measurable, Decoded
      <3>3. \A d, i, n : Within(d, i, n) <=> Within(d, i, n)'
        <4>1. \A n : NotOften(n) <=> NotOften(n)'
          BY <2>1 DEF NotOften, Frames
        <4>2. \A d, i, n : Counting(d, i, n) <=> Counting(d, i, n)'
          BY <2>1 DEF Counting, AsHeld, InStep, Taken, Fitting, Measurable, Decoded, Frames
        <4>3. QED
          BY <2>1, <3>2, <4>1, <4>2 DEF Within
      <3>4. Before(c) <=> Before(c)'
        BY <2>1, <3>2 DEF Before, Sent, Frames
      <3>5. Between(c) <=> Between(c)'
        BY <2>1, <3>2 DEF Between, Sent, Frames, InStep, Taken, Fitting, Measurable, Decoded
      <3>6. OnAir(c)'
        BY <3>1, <3>3, <3>4, <3>5 DEF OnAir, Frames
      <3>7. QED
        BY <2>1, <2>2, <3>1, <3>6 DEF LinkInv, Frames
    <2>5. QED
      BY <2>3, <2>4
  <1>7. QED
    BY <1>2, <1>3, <1>4, <1>5, <1>6 DEF LinkNext

--------------------------------------------------------------------------------
(* What is delivered.                                                      *)

LEMMA LinkDelivers ==
  ASSUME CleanAir, Frames >= MinRepeats + 2, LinkInv
  PROVE  Delivered
  <1>1. Sound /\ IInv /\ Frames \in Nat /\ MinRepeats \in Nat /\ MinRepeats >= 1
        /\ repeats \in Nat /\ delivered \in Nat
    BY FramesNat, ReceiverAssumption DEF LinkInv, Sound, IInv, TypeOK, ReceiverAssumption
  <1>2. ASSUME delivered = 0 PROVE (MinRepeats + 1) * delivered <= Frames + MinRepeats
    BY <1>1, <1>2
  <1>3. CASE Silent
    <2>1. presses = <<>> /\ delivered = 0
      BY <1>1, <1>3 DEF Silent
    <2>2. QED
      BY <1>2, <2>1 DEF Delivered, Frames
  <1>4. CASE ~Silent
    <2>1. PICK c : presses /= <<>> /\ c = Last(presses) /\ Frames > 0 /\ OnAir(c)
      BY <1>4 DEF LinkInv
    <2>2. ASSUME air = <<>> PROVE delivered > 0
      <3>1. /\ Within(c, FrameLength(c) - 1, 0)
            /\ FrameLength(c) \in Nat /\ FrameLength(c) > 4
        BY <1>1, <2>1, <2>2, LastGap
      <3>2. SUFFICES ASSUME delivered = 0 PROVE FALSE
        BY <1>1
      <3>3. 0 + 2 <= Frames
        BY <1>1
      <3>4. InStep(c, FrameLength(c) - 1) /\ repeats + 0 + 2 >= Frames
        BY <3>1, <3>2, <3>3 DEF Within, Counting
      <3>5. state /= -1
        BY <3>1, <3>4 DEF InStep
      <3>6. repeats < MinRepeats
        BY <1>1, <3>5 DEF IInv, CountLeavesRoom
      <3>7. QED
        BY <1>1, <3>4, <3>6
    <2>3. (MinRepeats + 1) * delivered <= Frames + MinRepeats
      <3>1. CASE Before(c) \/ Between(c)
        BY <1>2, <3>1 DEF Before, Between
      <3>2. ASSUME NEW i, NEW n \in 0 .. Frames - 1, Within(c, i, n)
            PROVE  (MinRepeats + 1) * delivered <= Frames + MinRepeats
        <4>1. (MinRepeats + 1) * delivered <= MinRepeats + Frames - n
          BY <3>2 DEF Within, NotOften
        <4>2. PICK x \in Nat : x = (MinRepeats + 1) * delivered
          BY <1>1
        <4>3. QED
          BY <1>1, <4>1, <4>2
      <3>3. QED
        BY <2>1, <3>1, <3>2 DEF OnAir
    <2>4. QED
      BY <2>2, <2>3 DEF Delivered, Frames
  <1>5. QED
    BY <1>3, <1>4

\* On clean air, a command that is sent with two frames more than the receiver
\* needs has been delivered by the time its last frame is in the air, and not
\* more often than there is room for; so KakuLink's Delivered, of
\* kakuReceiver.h:36.
THEOREM DeliveredOnCleanAir ==
  ASSUME CleanAir, FramesSent(Repeats) >= MinRepeats + 2
  PROVE  LinkSpec => []Delivered
  <1>1. LinkInit => LinkInv
    BY LinkBegins
  <1>2. LinkInv /\ [LinkNext]_linkVars => LinkInv'
    BY LinkInductive
  <1>3. LinkInv => Delivered
    BY LinkDelivers DEF Frames
  <1>4. QED
    BY <1>1, <1>2, <1>3, PTL DEF LinkSpec

\* On clean air nothing is delivered that was not sent.
THEOREM OnlySentOnCleanAir ==
  ASSUME CleanAir
  PROVE  LinkSpec => []OnlySent
  <1>1. LinkInit => LinkInv
    BY LinkBegins
  <1>2. LinkInv /\ [LinkNext]_linkVars => LinkInv'
    BY LinkInductive
  <1>3. LinkInv => OnlySent
    BY DEF LinkInv, Sound
  <1>4. QED
    BY <1>1, <1>2, <1>3, PTL DEF LinkSpec

=================================================================================
