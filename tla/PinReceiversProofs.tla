--------------------------- MODULE PinReceiversProofs ---------------------------
(***************************************************************************)
(* That every callback of the five receivers follows enough equal frames   *)
(* in a row, whatever edges come.                                          *)
(*                                                                         *)
(* The counters are bytes that wrap: at the 256th equal frame they start   *)
(* again at 0.  The invariant is that they never exceed the real number.   *)
(* Nothing is assumed of the intervals, not even that they are numbers.    *)
(***************************************************************************)
EXTENDS PinReceivers, TLAPS

\* A record with these fields.
Shaped(r, fields) == r = [f \in fields |-> r[f]]

\* The byte that counts equal frames is not ahead of their number.
NotAhead(r) ==
  /\ r.repeats \in 0 .. 255 /\ r.row \in Nat
  /\ r.repeats <= r.row

HalfBitFields == {"state", "receivedBit", "code", "previous", "repeats", "row", "called"}
BitFields == HalfBitFields \ {"receivedBit"}
TritFields == HalfBitFields \cup {"period", "acc", "gap", "skip"}

LivoloInv == Shaped(livolo, HalfBitFields) /\ NotAhead(livolo) /\ Livolo!CalledOnlyInARow
KopouInv == Shaped(kopou, HalfBitFields) /\ NotAhead(kopou) /\ Kopou!CalledOnlyInARow
QuhwaInv == Shaped(quhwa, BitFields) /\ NotAhead(quhwa) /\ Quhwa!CalledOnlyInARow
AuriolInv == Shaped(auriol, BitFields) /\ NotAhead(auriol) /\ Auriol!CalledOnlyInARow
RemoteInv == Shaped(remote, TritFields) /\ NotAhead(remote) /\ Remote!CalledOnlyInARow

\* The counter and the number after a frame that is, or is not, the same again.
LEMMA FrameCounted ==
  ASSUME NEW r, NotAhead(r), NEW same
  PROVE  LET count == IF same THEN (r.repeats + 1) % 256 ELSE 1
             row == IF same THEN r.row + 1 ELSE 1
         IN  count \in 0 .. 255 /\ row \in Nat /\ count <= row
<1>1. CASE same
  <2>1. r.repeats + 1 \in Nat /\ r.row + 1 \in Nat /\ r.repeats + 1 <= r.row + 1
    BY DEF NotAhead
  <2>2. (r.repeats + 1) % 256 \in 0 .. 255 /\ (r.repeats + 1) % 256 <= r.repeats + 1
    BY <2>1
  <2> QED BY <1>1, <2>1, <2>2
<1>2. CASE ~same
  BY <1>2
<1> QED BY <1>1, <1>2

LEMMA LivoloEdge == ASSUME LivoloInv, NEW g, Livolo!Edge(g) PROVE LivoloInv'
<1> USE DEF LivoloInv, Shaped, HalfBitFields, Livolo!CalledOnlyInARow
<1>1. ASSUME NEW c, Livolo!Complete(c) PROVE LivoloInv'
  <2> DEFINE same == c = livolo.previous
             count == IF same THEN (livolo.repeats + 1) % 256 ELSE 1
             row == IF same THEN livolo.row + 1 ELSE 1
  <2>1. count \in 0 .. 255 /\ row \in Nat /\ count <= row
    BY FrameCounted
  <2>2. livolo' = [state |-> -1, receivedBit |-> 0, code |-> Livolo!Cleared, previous |-> c,
                   repeats |-> count, row |-> row,
                   called |-> IF count >= 3 THEN {c} ELSE {}]
    BY <1>1 DEF Livolo!Complete
  <2> HIDE DEF count, row
  <2> QED BY <2>1, <2>2 DEF NotAhead
<1>2. ASSUME NEW s, NEW b, NEW c,
             livolo' = [livolo EXCEPT !.state = s, !.receivedBit = b, !.code = c, !.called = {}]
      PROVE  LivoloInv'
  BY <1>2 DEF NotAhead
<1>3. CASE Livolo!EdgeFiltered(g) \/ Livolo!HalfMissing(g) \/ Livolo!Overrun(g)
  BY <1>3, <1>2 DEF Livolo!EdgeFiltered, Livolo!HalfMissing, Livolo!Overrun, Livolo!Reset
<1>4. CASE Livolo!Wait(g) \/ Livolo!Start(g)
  BY <1>4 DEF Livolo!Wait, Livolo!Start, Livolo!Stay, NotAhead
<1>5. ASSUME NEW steps, NEW b, NEW c, Livolo!Advance(steps, b, c) PROVE LivoloInv'
  <2>1. CASE livolo.state + steps = Livolo!FrameEnd
    BY <1>5, <1>1, <2>1 DEF Livolo!Advance
  <2>2. CASE livolo.state + steps /= Livolo!FrameEnd
    BY <1>5, <1>2, <2>2 DEF Livolo!Advance
  <2> QED BY <2>1, <2>2
<1>6. CASE Livolo!One(g) \/ Livolo!FirstHalf(g) \/ Livolo!SecondHalf(g)
  BY <1>6, <1>5 DEF Livolo!One, Livolo!FirstHalf, Livolo!SecondHalf
<1> QED BY <1>3, <1>4, <1>6 DEF Livolo!Edge

LEMMA KopouEdge == ASSUME KopouInv, NEW g, Kopou!Edge(g) PROVE KopouInv'
<1> USE DEF KopouInv, Shaped, HalfBitFields, Kopou!CalledOnlyInARow
<1>1. ASSUME NEW c, Kopou!Complete(c) PROVE KopouInv'
  <2> DEFINE same == c = kopou.previous
             count == IF same THEN (kopou.repeats + 1) % 256 ELSE 1
             row == IF same THEN kopou.row + 1 ELSE 1
  <2>1. count \in 0 .. 255 /\ row \in Nat /\ count <= row
    BY FrameCounted
  <2>2. kopou' = [state |-> -1, receivedBit |-> 0, code |-> Kopou!Cleared, previous |-> c,
                  repeats |-> count, row |-> row,
                  called |-> IF count >= 3 THEN {c} ELSE {}]
    BY <1>1 DEF Kopou!Complete
  <2> HIDE DEF count, row
  <2> QED BY <2>1, <2>2 DEF NotAhead
<1>2. ASSUME NEW s, NEW b, NEW c,
             kopou' = [kopou EXCEPT !.state = s, !.receivedBit = b, !.code = c, !.called = {}]
      PROVE  KopouInv'
  BY <1>2 DEF NotAhead
<1>3. CASE Kopou!EdgeFiltered(g) \/ Kopou!HalfWrong(g)
  BY <1>3, <1>2 DEF Kopou!EdgeFiltered, Kopou!HalfWrong, Kopou!Reset
<1>4. CASE Kopou!Wait(g) \/ Kopou!Start(g) \/ Kopou!FirstHalf(g)
  BY <1>4 DEF Kopou!Wait, Kopou!Start, Kopou!Stay, Kopou!FirstHalf, NotAhead
<1>5. CASE Kopou!SecondHalf(g)
  <2>1. CASE kopou.state + 1 = Kopou!FrameEnd
    BY <1>5, <1>1, <2>1 DEF Kopou!SecondHalf
  <2>2. CASE kopou.state + 1 /= Kopou!FrameEnd
    BY <1>5, <2>2 DEF Kopou!SecondHalf, NotAhead
  <2> QED BY <2>1, <2>2
<1> QED BY <1>3, <1>4, <1>5 DEF Kopou!Edge

LEMMA QuhwaEdge == ASSUME QuhwaInv, NEW g, Quhwa!Edge(g) PROVE QuhwaInv'
<1> USE DEF QuhwaInv, Shaped, BitFields, HalfBitFields, Quhwa!CalledOnlyInARow
<1>1. ASSUME NEW c, Quhwa!Complete(c) PROVE QuhwaInv'
  <2> DEFINE same == c = quhwa.previous
             count == IF same THEN (quhwa.repeats + 1) % 256 ELSE 1
             row == IF same THEN quhwa.row + 1 ELSE 1
  <2>1. count \in 0 .. 255 /\ row \in Nat /\ count <= row
    BY FrameCounted
  <2>2. quhwa' = [state |-> -1, code |-> Quhwa!Cleared, previous |-> c,
                  repeats |-> count, row |-> row,
                  called |-> IF count >= 3 THEN {c} ELSE {}]
    BY <1>1 DEF Quhwa!Complete
  <2> HIDE DEF count, row
  <2> QED BY <2>1, <2>2 DEF NotAhead
<1>2. CASE Quhwa!EdgeFiltered(g) \/ Quhwa!Wait(g) \/ Quhwa!Start(g) \/ Quhwa!BitInterval(g)
  BY <1>2
     DEF Quhwa!EdgeFiltered, Quhwa!Reset, Quhwa!Wait, Quhwa!Stay, Quhwa!Start,
         Quhwa!BitInterval, NotAhead
<1>3. CASE Quhwa!LastInterval(g)
  BY <1>3, <1>1 DEF Quhwa!LastInterval
<1> QED BY <1>2, <1>3 DEF Quhwa!Edge

LEMMA AuriolEdge == ASSUME AuriolInv, NEW g, Auriol!Edge(g) PROVE AuriolInv'
<1> USE DEF AuriolInv, Shaped, BitFields, HalfBitFields, Auriol!CalledOnlyInARow
<1>1. ASSUME NEW c, Auriol!Complete(c) PROVE AuriolInv'
  <2> DEFINE same == Auriol!Compared(c) = auriol.previous
             count == IF same THEN (auriol.repeats + 1) % 256 ELSE 1
             row == IF same THEN auriol.row + 1 ELSE 1
  <2>1. count \in 0 .. 255 /\ row \in Nat /\ count <= row
    BY FrameCounted
  <2>2. auriol' = [state |-> -1, code |-> Auriol!Cleared, previous |-> Auriol!Compared(c),
                   repeats |-> count, row |-> row,
                   called |-> IF count >= 2 THEN {c} ELSE {}]
    BY <1>1 DEF Auriol!Complete
  <2> HIDE DEF count, row
  <2> QED BY <2>1, <2>2 DEF NotAhead
<1>2. CASE Auriol!Wait(g) \/ Auriol!Sync(g) \/ Auriol!High(g) \/ Auriol!Low(g) \/ Auriol!Wrong(g)
  BY <1>2
     DEF Auriol!Wait, Auriol!Sync, Auriol!High, Auriol!Low, Auriol!Wrong, Auriol!Reset,
         NotAhead
<1>3. CASE Auriol!LastLow(g)
  BY <1>3, <1>1 DEF Auriol!LastLow
<1> QED BY <1>2, <1>3 DEF Auriol!Edge

LEMMA RemoteEdge == ASSUME RemoteInv, NEW g, Remote!Edge(g) PROVE RemoteInv'
<1> USE DEF RemoteInv, Shaped, TritFields, HalfBitFields, Remote!CalledOnlyInARow
<1>0. Remote!Counted(g) = [f \in TritFields |-> Remote!Counted(g)[f]]
  BY DEF Remote!Counted
<1>1. ASSUME Remote!Complete(g) PROVE RemoteInv'
  <2> DEFINE same == remote.repeats > 0 /\ remote.code = remote.previous
             count == IF remote.code = remote.previous THEN (remote.repeats + 1) % 256 ELSE 1
             row == IF same THEN remote.row + 1 ELSE 1
  <2>1. count \in 0 .. 255 /\ row \in Nat /\ count <= row
    <3>1. CASE remote.code = remote.previous /\ ~(remote.repeats > 0)
      <4>1. remote.repeats = 0
        BY <3>1 DEF NotAhead
      <4> QED BY <3>1, <4>1
    <3>2. CASE same
      BY <3>2, FrameCounted
    <3>3. CASE remote.code /= remote.previous
      BY <3>3
    <3> QED BY <3>1, <3>2, <3>3
  <2>2. CASE count >= 2
    <3>1. /\ remote'.repeats = 0 /\ remote'.row = row
          /\ Shaped(remote, TritFields)'
      BY <1>1, <2>2 DEF Remote!Complete, Remote!Counted
    <3> QED BY <2>1, <2>2, <3>1 DEF NotAhead
  <2>3. CASE ~(count >= 2)
    <3>1. Remote!Counted(g).row = remote.row /\ Remote!Counted(g).called = {}
      BY DEF Remote!Counted
    <3>2. remote' = [Remote!Counted(g) EXCEPT !.state = 0, !.code = 0,
                       !.previous = remote.code, !.repeats = count, !.row = row]
      BY <1>1, <2>3, <3>1 DEF Remote!Complete
    <3> HIDE DEF count, row
    <3> QED BY <2>1, <3>2 DEF NotAhead, Remote!Counted
  <2> QED BY <2>2, <2>3
<1>2. CASE Remote!EdgeSkipped(g) \/ Remote!EdgeTooEarly(g)
  BY <1>2 DEF Remote!EdgeSkipped, Remote!EdgeTooEarly, Remote!Skipped, NotAhead
<1>3. CASE Remote!Wait(g) \/ Remote!Sync(g) \/ Remote!SyncPart1(g)
  <2>1. CASE Remote!Wait(g)
    <3>1. remote'.repeats = remote.repeats /\ remote'.row = remote.row
      BY <2>1 DEF Remote!Wait, Remote!Counted
    <3>2. remote'.called = {}
      BY <2>1 DEF Remote!Wait, Remote!Counted
    <3>3. Shaped(remote, TritFields)'
      BY <1>0, <2>1 DEF Remote!Wait
    <3> QED BY <3>1, <3>2, <3>3 DEF NotAhead
  <2>2. CASE Remote!Sync(g)
    <3>1. remote'.repeats = remote.repeats /\ remote'.row = remote.row
      BY <2>2 DEF Remote!Sync, Remote!Counted
    <3>2. remote'.called = {}
      BY <2>2 DEF Remote!Sync, Remote!Counted
    <3>3. Shaped(remote, TritFields)'
      <4> DEFINE period == Remote!Duration \div 31
      <4>1. remote' = [Remote!Counted(g) EXCEPT !.state = 0, !.period = period]
        BY <2>2 DEF Remote!Sync
      <4> HIDE DEF period
      <4> QED BY <1>0, <4>1
    <3> QED BY <3>1, <3>2, <3>3 DEF NotAhead
  <2>3. CASE Remote!SyncPart1(g)
    <3>1. remote'.repeats = remote.repeats /\ remote'.row = remote.row
      BY <2>3 DEF Remote!SyncPart1, Remote!Counted
    <3>2. remote'.called = {}
      BY <2>3 DEF Remote!SyncPart1, Remote!Counted
    <3>3. Shaped(remote, TritFields)'
      BY <2>3 DEF Remote!SyncPart1, Remote!Counted
    <3> QED BY <3>1, <3>2, <3>3 DEF NotAhead
  <2> QED BY <1>3, <2>1, <2>2, <2>3
<1>4. CASE Remote!BitPart(g)
  BY <1>4 DEF Remote!BitPart, Remote!Counted, NotAhead
<1>5. CASE Remote!BitEnd(g)
  <2>1. PICK t : remote' = [Remote!Counted(g) EXCEPT
                  !.state = @ + 1, !.receivedBit = 0, !.code = 3 * @ + t]
    BY <1>5 DEF Remote!BitEnd
  <2> QED BY <2>1 DEF Remote!Counted, NotAhead
<1>6. ASSUME Remote!Reset(g) PROVE RemoteInv'
  <2>1. /\ remote'.repeats = 0 /\ remote'.row = 0 /\ remote'.called = {}
        /\ Shaped(remote, TritFields)'
    BY <1>6 DEF Remote!Reset, Remote!Counted
  <2> QED BY <2>1 DEF NotAhead
<1>7. CASE Remote!BitWrong(g) \/ Remote!SyncWrong(g)
  BY <1>6, <1>7 DEF Remote!BitWrong, Remote!SyncWrong
<1> QED BY <1>1, <1>2, <1>3, <1>4, <1>5, <1>7 DEF Remote!Edge

--------------------------------------------------------------------------------
Inv == LivoloInv /\ KopouInv /\ QuhwaInv /\ AuriolInv /\ RemoteInv

LEMMA InvInit == ASSUME Init PROVE Inv
<1>1. LivoloInv
  <2>1. Livolo!Init
    BY DEF Init
  <2>2. livolo.repeats = 0 /\ livolo.row = 0 /\ livolo.called = {}
    BY <2>1 DEF Livolo!Init
  <2>3. Shaped(livolo, HalfBitFields)
    BY <2>1 DEF Livolo!Init, Shaped, HalfBitFields
  <2> QED BY <2>2, <2>3 DEF LivoloInv, NotAhead, Livolo!CalledOnlyInARow
<1>2. KopouInv
  <2>1. Kopou!Init
    BY DEF Init
  <2>2. kopou.repeats = 0 /\ kopou.row = 0 /\ kopou.called = {}
    BY <2>1 DEF Kopou!Init
  <2>3. Shaped(kopou, HalfBitFields)
    BY <2>1 DEF Kopou!Init, Shaped, HalfBitFields
  <2> QED BY <2>2, <2>3 DEF KopouInv, NotAhead, Kopou!CalledOnlyInARow
<1>3. QuhwaInv
  <2>1. Quhwa!Init
    BY DEF Init
  <2>2. quhwa.repeats = 0 /\ quhwa.row = 0 /\ quhwa.called = {}
    BY <2>1 DEF Quhwa!Init
  <2>3. Shaped(quhwa, BitFields)
    BY <2>1 DEF Quhwa!Init, Shaped, HalfBitFields, BitFields
  <2> QED BY <2>2, <2>3 DEF QuhwaInv, NotAhead, Quhwa!CalledOnlyInARow
<1>4. AuriolInv
  <2>1. Auriol!Init
    BY DEF Init
  <2>2. auriol.repeats = 0 /\ auriol.row = 0 /\ auriol.called = {}
    BY <2>1 DEF Auriol!Init
  <2>3. Shaped(auriol, BitFields)
    BY <2>1 DEF Auriol!Init, Shaped, HalfBitFields, BitFields
  <2> QED BY <2>2, <2>3 DEF AuriolInv, NotAhead, Auriol!CalledOnlyInARow
<1>5. RemoteInv
  <2>1. Remote!Init
    BY DEF Init
  <2>2. remote.repeats = 0 /\ remote.row = 0 /\ remote.called = {}
    BY <2>1 DEF Remote!Init
  <2>3. Shaped(remote, TritFields)
    BY <2>1 DEF Remote!Init, Shaped, HalfBitFields, TritFields
  <2> QED BY <2>2, <2>3 DEF RemoteInv, NotAhead, Remote!CalledOnlyInARow
<1> QED BY <1>1, <1>2, <1>3, <1>4, <1>5 DEF Inv

LEMMA InvNext == ASSUME Inv, [Next]_vars PROVE Inv'
<1>1. CASE UNCHANGED receivers
  BY <1>1
     DEF receivers, Inv, LivoloInv, KopouInv, QuhwaInv, AuriolInv, RemoteInv, Shaped,
         NotAhead, Livolo!CalledOnlyInARow, Kopou!CalledOnlyInARow,
         Quhwa!CalledOnlyInARow, Auriol!CalledOnlyInARow, Remote!CalledOnlyInARow
<1>2. ASSUME NEW g, Edge(g) PROVE Inv'
  BY <1>2, LivoloEdge, KopouEdge, QuhwaEdge, AuriolEdge, RemoteEdge DEF Edge, Inv
<1>3. CASE Arrive
  BY <1>3, <1>2 DEF Arrive
<1>4. CASE UNCHANGED vars \/ \E p \in Presses, idle \in Idles : Press(p, idle)
  BY <1>4, <1>1 DEF vars, Press
<1>5. CASE \E e \in Glitches : Glitch(e)
  BY <1>5, <1>1 DEF Glitch
<1>6. CASE \E n \in DeafEdges : Deaf(n)
  BY <1>6, <1>1 DEF Deaf
<1> QED BY <1>3, <1>4, <1>5, <1>6 DEF Next

\* CalledOnlyInARow: whatever is sent and however it is disturbed, a callback of
\* livoloReceiver, kopouReceiver, quhwaReceiver, auriolReceiver and RemoteReceiver
\* follows as many equal frames in a row as the sketches ask for, for any
\* presses, glitches and missed edges.
THEOREM CallbacksFollowRepeats == Spec => []CalledOnlyInARow
<1>1. Init => Inv
  BY InvInit
<1>2. Inv /\ [Next]_vars => Inv'
  BY InvNext
<1>3. Inv => CalledOnlyInARow
  BY DEF Inv, LivoloInv, KopouInv, QuhwaInv, AuriolInv, RemoteInv, CalledOnlyInARow
<1> QED BY <1>1, <1>2, <1>3, PTL DEF Spec

================================================================================
