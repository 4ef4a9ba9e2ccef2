--------------------------- MODULE Wt440LinkProofs ---------------------------
(***************************************************************************)
(* What the WT440H transmitter sends is what the receiver hears: the proof *)
(* that a message whose first frame is not hit by a glitch is delivered,   *)
(* whatever the receiver heard before, and that glitches shorter than half *)
(* a bit never make another message of it, for every width of the fields,  *)
(* every message, and edges that are early or late within the tolerance of *)
(* the receiver.                                                           *)
(*                                                                         *)
(* The repeater (module Repeater) is such a transmitter and such a         *)
(* receiver around one object.  The second half of the module proves on    *)
(* the same lemmas what becomes of a message that it sends while it hears  *)
(* itself, and that what it sends on is somebody's reading.                *)
(***************************************************************************)
EXTENDS Wt440Link, Repeater, WellFoundedInduction, SequenceTheorems, TLAPS

--------------------------------------------------------------------------------
(* RightShift, one place at a time.                                        *)

\* What the definition of shifted says of a function.
IsShift(f, v, n) ==
  f = [i \in 0 .. n |-> IF i = 0 THEN v ELSE f[i - 1] \div 2]

\* The least counterexample to a claim about the naturals.  It stands in for
\* induction in what follows.
LEMMA Least ==
  ASSUME NEW T, T \subseteq Nat, T /= {}
  PROVE  \E x \in T : \A y \in T : x <= y
  <1>1. IsWellFoundedOn(OpToRel(<,Nat), Nat)
    BY NatLessThanWellFounded
  <1>2. PICK x \in T : \A y \in T : ~ (<<y, x>> \in OpToRel(<,Nat))
    BY <1>1, WFMin
  <1>3. \A y \in T : ~(y < x)
    BY <1>2 DEF OpToRel
  <1>4. QED
    BY <1>3

\* There is such a function,
LEMMA ShiftExists ==
  ASSUME NEW v \in Nat, NEW n \in Nat
  PROVE  \E f : IsShift(f, v, n)
  <1> DEFINE Bad == {m \in Nat : ~ \E f : IsShift(f, v, m)}
  <1> SUFFICES ASSUME Bad /= {} PROVE FALSE
    OBVIOUS
  <1>1. PICK m \in Bad : \A k \in Bad : m <= k
    <2> HIDE DEF Bad
    <2>1. Bad \subseteq Nat
      BY DEF Bad
    <2> QED BY <2>1, Least
  <1>2. CASE m = 0
    <2>1. IsShift([i \in 0 .. 0 |-> v], v, 0)
      BY DEF IsShift
    <2> QED BY <1>1, <1>2, <2>1
  <1>3. CASE m > 0
    <2>1. m - 1 \in Nat /\ m - 1 \notin Bad
      BY <1>1, <1>3
    <2>2. PICK f : IsShift(f, v, m - 1)
      BY <2>1
    <2> DEFINE g == [i \in 0 .. m |-> IF i = m THEN f[m - 1] \div 2 ELSE f[i]]
    <2>3. ASSUME NEW i \in 0 .. m
          PROVE  g[i] = IF i = 0 THEN v ELSE g[i - 1] \div 2
      BY <2>2, <1>3 DEF IsShift
    <2>4. g = [i \in 0 .. m |-> g[i]]
      OBVIOUS
    <2>5. IsShift(g, v, m)
      <3> HIDE DEF g
      <3> QED BY <2>3, <2>4 DEF IsShift
    <2> QED BY <1>1, <2>5
  <1>4. QED BY <1>1, <1>2, <1>3

\* and only one.
LEMMA ShiftUnique ==
  ASSUME NEW v \in Nat, NEW n \in Nat,
         NEW f, IsShift(f, v, n), NEW g, IsShift(g, v, n)
  PROVE  f[n] = g[n]
  <1> DEFINE Differ == {i \in 0 .. n : f[i] /= g[i]}
  <1>1. SUFFICES ASSUME Differ /= {} PROVE FALSE
    OBVIOUS
  <1>2. PICK i \in Differ : \A j \in Differ : i <= j
    <2>1. Differ \subseteq Nat
      OBVIOUS
    <2> HIDE DEF Differ
    <2>2. QED
      BY <1>1, <2>1, Least
  <1>3. i \in 0 .. n /\ f[i] /= g[i]
    BY <1>2
  <1>4. i /= 0
    BY <1>3 DEF IsShift
  <1>5. f[i] = f[i - 1] \div 2 /\ g[i] = g[i - 1] \div 2
    BY <1>3, <1>4 DEF IsShift
  <1>6. i - 1 \in Differ
    BY <1>3, <1>4, <1>5
  <1>7. QED
    BY <1>2, <1>3, <1>6

\* so RightShift is its value at n.
LEMMA ShiftIs ==
  ASSUME NEW v \in Nat, NEW n \in Nat
  PROVE  \E f : IsShift(f, v, n) /\ RightShift(v, n) = f[n]
  <1> DEFINE f == CHOOSE h : IsShift(h, v, n)
  <1>1. IsShift(f, v, n)
    BY ShiftExists
  <1>2. RightShift(v, n) = f[n]
    BY DEF RightShift, IsShift
  <1>3. QED
    BY <1>1, <1>2

LEMMA ShiftZero == ASSUME NEW v \in Nat PROVE RightShift(v, 0) = v
  BY ShiftIs DEF IsShift

\* One place more halves the number; what is dropped is the bit that is sent.
LEMMA ShiftNext ==
  ASSUME NEW v \in Nat, NEW n \in Nat
  PROVE  RightShift(v, n + 1) = RightShift(v, n) \div 2
  <1>1. PICK f : IsShift(f, v, n + 1) /\ RightShift(v, n + 1) = f[n + 1]
    BY ShiftIs
  <1>2. PICK g : IsShift(g, v, n) /\ RightShift(v, n) = g[n]
    BY ShiftIs
  <1> DEFINE h == [i \in 0 .. n |-> f[i]]
  <1>3. ASSUME NEW i \in 0 .. n
        PROVE  h[i] = IF i = 0 THEN v ELSE h[i - 1] \div 2
    BY <1>1 DEF IsShift
  <1>4. h = [i \in 0 .. n |-> h[i]] /\ h[n] = f[n]
    OBVIOUS
  <1> HIDE DEF h
  <1>5. IsShift(h, v, n)
    BY <1>3, <1>4 DEF IsShift
  <1>6. f[n] = g[n]
    BY <1>2, <1>4, <1>5, ShiftUnique
  <1>7. f[n + 1] = f[n] \div 2
    BY <1>1 DEF IsShift
  <1>8. QED
    BY <1>1, <1>2, <1>6, <1>7

LEMMA ShiftType ==
  ASSUME NEW v \in Nat, NEW n \in Nat
  PROVE  RightShift(v, n) \in 0 .. v
  <1> DEFINE Bad == {k \in Nat : RightShift(v, k) \notin 0 .. v}
  <1> SUFFICES ASSUME Bad /= {} PROVE FALSE
    OBVIOUS
  <1>1. PICK k \in Bad : \A j \in Bad : k <= j
    <2>1. Bad \subseteq Nat
      OBVIOUS
    <2> HIDE DEF Bad
    <2>2. QED
      BY <2>1, Least
  <1>2. k \in Nat /\ RightShift(v, k) \notin 0 .. v
    BY <1>1
  <1>3. k /= 0
    BY <1>2, ShiftZero
  <1>4. k - 1 \in Nat /\ RightShift(v, k - 1) \in 0 .. v
    BY <1>1, <1>2, <1>3
  <1>5. RightShift(v, (k - 1) + 1) = RightShift(v, k - 1) \div 2
    BY <1>4, ShiftNext
  <1>6. QED
    BY <1>2, <1>4, <1>5

--------------------------------------------------------------------------------
(* FlattenSeq of one sequence more.                                        *)

\* What the definition of flatten says of a function.
IsFlat(f, s) ==
  f = [i \in 1 .. Len(s) |-> IF i = 1 THEN s[i] ELSE f[i - 1] \o s[i]]

\* Two sequences with the same first n elements.
SameStart(s, t, n) ==
  /\ 1 .. n \subseteq 1 .. Len(s) /\ 1 .. n \subseteq 1 .. Len(t)
  /\ \A i \in 1 .. n : s[i] = t[i]

LEMMA FlatExists ==
  ASSUME NEW T, NEW s \in Seq(Seq(T))
  PROVE  \E f \in [1 .. Len(s) -> Seq(T)] : IsFlat(f, s)
  <1> DEFINE Flat(f, m) ==
               \A i \in 1 .. m : f[i] = IF i = 1 THEN s[i] ELSE f[i - 1] \o s[i]
             Good(m) == \E f \in [1 .. m -> Seq(T)] : Flat(f, m)
             Bad == {m \in 0 .. Len(s) : ~ Good(m)}
  <1>1. Bad = {}
    <2> SUFFICES ASSUME Bad /= {} PROVE FALSE
      OBVIOUS
    <2>1. PICK m \in Bad : \A k \in Bad : m <= k
      <3>1. Bad \subseteq Nat
        OBVIOUS
      <3> HIDE DEF Bad
      <3>2. QED
        BY <3>1, Least
    <2>2. m /= 0
      <3>1. [i \in 1 .. 0 |-> <<>>] \in [1 .. 0 -> Seq(T)] /\ Flat([i \in 1 .. 0 |-> <<>>], 0)
        OBVIOUS
      <3>2. Good(0)
        BY <3>1
      <3>3. QED
        BY <2>1, <3>2
    <2>3. m \in 1 .. Len(s) /\ m - 1 \in 0 .. Len(s) /\ m - 1 \notin Bad
      <3>1. m \in 0 .. Len(s) /\ Len(s) \in Nat
        BY <2>1
      <3> HIDE DEF Bad
      <3>2. QED
        BY <2>1, <2>2, <3>1
    <2>4. PICK f \in [1 .. m - 1 -> Seq(T)] : Flat(f, m - 1)
      BY <2>3
    <2> DEFINE e == IF m = 1 THEN s[m] ELSE f[m - 1] \o s[m]
               g == [i \in 1 .. m |-> IF i = m THEN e ELSE f[i]]
    <2>5. e \in Seq(T)
      <3>1. s[m] \in Seq(T)
        BY <2>3
      <3>2. m /= 1 => f[m - 1] \in Seq(T)
        BY <2>3
      <3>3. QED
        BY <3>1, <3>2
    <2> HIDE DEF e
    <2>6. g \in [1 .. m -> Seq(T)]
      BY <2>3, <2>4, <2>5
    <2>7. ASSUME NEW i \in 1 .. m
          PROVE  g[i] = IF i = 1 THEN s[i] ELSE g[i - 1] \o s[i]
      <3>1. CASE i = m
        BY <2>3, <3>1 DEF e
      <3>2. CASE i /= m
        <4>1. i \in 1 .. m - 1 /\ Len(s) \in Nat
          BY <2>3, <3>2
        <4>2. f[i] = IF i = 1 THEN s[i] ELSE f[i - 1] \o s[i]
          BY <2>4, <4>1
        <4>3. g[i] = f[i] /\ (i /= 1 => g[i - 1] = f[i - 1])
          BY <2>3, <4>1
        <4>4. QED
          BY <4>2, <4>3, Zenon
      <3>3. QED
        BY <3>1, <3>2
    <2>8. QED
      BY <2>1, <2>6, <2>7
  <1>2. Len(s) \in 0 .. Len(s)
    OBVIOUS
  <1>3. PICK f \in [1 .. Len(s) -> Seq(T)] : Flat(f, Len(s))
    BY <1>1, <1>2
  <1>4. f = [i \in 1 .. Len(s) |-> f[i]]
    OBVIOUS
  <1>5. QED
    BY <1>3, <1>4 DEF IsFlat

\* There is only one such function, even when the sequences go on differently.
LEMMA FlatUnique ==
  ASSUME NEW s, NEW t, NEW n \in Nat, SameStart(s, t, n),
         NEW f, IsFlat(f, s), NEW g, IsFlat(g, t),
         NEW k \in 1 .. n
  PROVE  f[k] = g[k]
  <1> DEFINE Differ == {i \in 1 .. n : f[i] /= g[i]}
  <1>1. SUFFICES ASSUME Differ /= {} PROVE FALSE
    OBVIOUS
  <1>2. PICK i \in Differ : \A j \in Differ : i <= j
    <2>1. Differ \subseteq Nat
      OBVIOUS
    <2> HIDE DEF Differ
    <2>2. QED
      BY <1>1, <2>1, Least
  <1>3. i \in 1 .. n /\ f[i] /= g[i] /\ i \in 1 .. Len(s) /\ i \in 1 .. Len(t)
    BY <1>2 DEF SameStart
  <1>4. /\ f[i] = IF i = 1 THEN s[i] ELSE f[i - 1] \o s[i]
        /\ g[i] = IF i = 1 THEN t[i] ELSE g[i - 1] \o t[i]
    BY <1>3 DEF IsFlat
  <1>5. i /= 1
    BY <1>3, <1>4 DEF SameStart
  <1>6. i - 1 \in 1 .. n /\ f[i - 1] /= g[i - 1]
    <2>1. i - 1 \in 1 .. n
      BY <1>3, <1>5
    <2>2. s[i] = t[i]
      BY <1>3 DEF SameStart
    <2>3. QED
      BY <1>3, <1>4, <1>5, <2>1, <2>2, Zenon
  <1>7. QED
    BY <1>2, <1>3, <1>6

LEMMA FlattenIs ==
  ASSUME NEW T, NEW s \in Seq(Seq(T)), Len(s) > 0
  PROVE  \E f \in [1 .. Len(s) -> Seq(T)] : IsFlat(f, s) /\ FlattenSeq(s) = f[Len(s)]
  <1> DEFINE f == CHOOSE h : IsFlat(h, s)
  <1>1. IsFlat(f, s)
    BY FlatExists
  <1>2. FlattenSeq(s) = f[Len(s)]
    BY DEF FlattenSeq, IsFlat
  <1>3. PICK h \in [1 .. Len(s) -> Seq(T)] : IsFlat(h, s)
    BY FlatExists
  <1>4. Len(s) \in Nat /\ SameStart(s, s, Len(s))
    BY DEF SameStart
  <1> HIDE DEF f
  <1>5. \A i \in 1 .. Len(s) : f[i] = h[i]
    BY <1>1, <1>3, <1>4, FlatUnique
  <1>6. f = [i \in 1 .. Len(s) |-> f[i]] /\ h = [i \in 1 .. Len(s) |-> h[i]]
    BY <1>1, <1>3 DEF IsFlat
  <1>7. f = h
    BY <1>5, <1>6
  <1>8. QED
    BY <1>1, <1>2, <1>3, <1>7

LEMMA FlattenType ==
  ASSUME NEW T, NEW s \in Seq(Seq(T))
  PROVE  FlattenSeq(s) \in Seq(T)
  <1>1. CASE Len(s) = 0
    BY <1>1 DEF FlattenSeq
  <1>2. CASE Len(s) > 0
    <2>1. PICK f \in [1 .. Len(s) -> Seq(T)] : FlattenSeq(s) = f[Len(s)]
      BY <1>2, FlattenIs
    <2>2. Len(s) \in 1 .. Len(s)
      BY <1>2
    <2>3. QED
      BY <2>1, <2>2
  <1>3. QED
    BY <1>1, <1>2

\* One sequence more is flattened into the end.
LEMMA FlattenLast ==
  ASSUME NEW T, NEW n \in Nat,
         NEW s \in Seq(Seq(T)), Len(s) = n,
         NEW t \in Seq(Seq(T)), Len(t) = n + 1, \A i \in 1 .. n : t[i] = s[i]
  PROVE  FlattenSeq(t) = FlattenSeq(s) \o t[n + 1]
  <1> n + 1 > 0 /\ n <= n + 1 /\ n <= n
    OBVIOUS
  <1>1. PICK g \in [1 .. n + 1 -> Seq(T)] : IsFlat(g, t) /\ FlattenSeq(t) = g[n + 1]
    <2>1. Len(t) > 0
      OBVIOUS
    <2>2. QED
      BY <2>1, FlattenIs, ZenonT(60)
  <1>2. CASE n = 0
    <2>1. s = <<>> /\ FlattenSeq(s) = <<>>
      BY <1>2 DEF FlattenSeq
    <2>2. g[1] = t[1] /\ t[1] \in Seq(T)
      BY <1>1, <1>2 DEF IsFlat
    <2>3. QED
      BY <1>1, <1>2, <2>1, <2>2
  <1>3. CASE n > 0
    <2>1. PICK f \in [1 .. n -> Seq(T)] : IsFlat(f, s) /\ FlattenSeq(s) = f[n]
      BY <1>3, FlattenIs
    <2>2. g[n + 1] = g[n] \o t[n + 1]
      <3>1. n + 1 \in 1 .. n + 1 /\ n + 1 /= 1 /\ (n + 1) - 1 = n
        BY <1>3
      <3>2. QED
        BY <1>1, <3>1 DEF IsFlat
    <2>3. f[n] = g[n]
      <3>1. SameStart(s, t, n)
        BY DEF SameStart
      <3>2. IsFlat(g, t) /\ IsFlat(f, s)
        BY <1>1, <2>1
      <3>3. n \in 1 .. n
        BY <1>3
      <3>4. QED
        BY <3>1, <3>2, <3>3, FlatUnique
    <2>4. QED
      BY <1>1, <2>1, <2>2, <2>3
  <1>4. QED
    BY <1>2, <1>3

--------------------------------------------------------------------------------
(* The bits and the intervals of a frame.                                  *)

FrameLength == 5 + AddressBits + ChannelBits + ConstBits + HumidityBits + TemperatureBits

ChannelFirst == 4 + AddressBits
ConstFirst == ChannelFirst + ChannelBits
HumidityFirst == ConstFirst + ConstBits
TemperatureFirst == HumidityFirst + HumidityBits

LEMMA WidthsNat ==
  /\ AddressBits \in Nat /\ ChannelBits \in Nat /\ ConstBits \in Nat
  /\ HumidityBits \in Nat /\ TemperatureBits \in Nat
  /\ AddressBits > 0 /\ ChannelBits > 0 /\ ConstBits > 0
  /\ HumidityBits > 0 /\ TemperatureBits > 0
  BY WidthAssumption DEF WidthAssumption

LEMMA ModsNat ==
  ByteMod \in Nat /\ WordMod \in Nat /\ ByteMod > 1 /\ WordMod > ByteMod
  BY DEF ByteMod, WordMod

LEMMA MessageFields ==
  ASSUME NEW m \in Messages
  PROVE  /\ m.address \in Field(ByteMod, AddressBits)
         /\ m.channel \in Field(ByteMod, ChannelBits)
         /\ m.wconst \in Field(ByteMod, ConstBits)
         /\ m.humidity \in Field(ByteMod, HumidityBits)
         /\ m.temperature \in Field(WordMod, TemperatureBits)
  BY DEF Messages

LEMMA FieldNat ==
  ASSUME NEW mod \in Nat, NEW n, NEW v \in Field(mod, n)
  PROVE  v \in Nat /\ v < mod /\ RightShift(v, n) = 0
  BY DEF Field

LEMMA MessageNat ==
  ASSUME NEW m \in Messages
  PROVE  /\ m.address \in Nat /\ m.channel \in Nat /\ m.wconst \in Nat
         /\ m.humidity \in Nat /\ m.temperature \in Nat
  BY MessageFields, FieldNat, ModsNat

LEMMA NumberBitsType ==
  ASSUME NEW v \in Nat, NEW n \in Nat
  PROVE  /\ NumberBits(v, n) \in Seq({0, 1}) /\ Len(NumberBits(v, n)) = n
         /\ \A k \in 1 .. n : NumberBits(v, n)[k] = RightShift(v, n - k) % 2
  <1>1. ASSUME NEW k \in 1 .. n PROVE RightShift(v, n - k) % 2 \in {0, 1}
    <2>1. n - k \in Nat
      OBVIOUS
    <2>2. RightShift(v, n - k) \in Nat
      BY <2>1, ShiftType
    <2>3. QED
      BY <2>2
  <1>2. QED
    BY <1>1 DEF NumberBits

\* z is x followed by y.
Joined(T, x, y, z) ==
  /\ z \in Seq(T) /\ Len(z) = Len(x) + Len(y)
  /\ \A k \in 1 .. Len(x) : z[k] = x[k]
  /\ \A k \in 1 .. Len(y) : z[Len(x) + k] = y[k]

LEMMA Concatenation ==
  ASSUME NEW T, NEW x \in Seq(T), NEW y \in Seq(T)
  PROVE  x \o y \in Seq(T) /\ Joined(T, x, y, x \o y)
  BY DEF Joined

\* Where the parts of a frame are in it.
AllJoined(T, s, a, c, w, h, t, p, f) ==
  /\ f \in Seq(T)
  /\ Len(f) = Len(s) + Len(a) + Len(c) + Len(w) + Len(h) + Len(t) + Len(p)
  /\ \A k \in 1 .. Len(s) : f[k] = s[k]
  /\ \A k \in 1 .. Len(a) : f[Len(s) + k] = a[k]
  /\ \A k \in 1 .. Len(c) : f[Len(s) + Len(a) + k] = c[k]
  /\ \A k \in 1 .. Len(w) : f[Len(s) + Len(a) + Len(c) + k] = w[k]
  /\ \A k \in 1 .. Len(h) : f[Len(s) + Len(a) + Len(c) + Len(w) + k] = h[k]
  /\ \A k \in 1 .. Len(t) : f[Len(s) + Len(a) + Len(c) + Len(w) + Len(h) + k] = t[k]
  /\ \A k \in 1 .. Len(p) : f[Len(f) - Len(p) + k] = p[k]

LEMMA PartsInFrame ==
  ASSUME NEW T,
         NEW s \in Seq(T), NEW a \in Seq(T), NEW c \in Seq(T), NEW w \in Seq(T),
         NEW h \in Seq(T), NEW t \in Seq(T), NEW p \in Seq(T)
  PROVE  AllJoined(T, s, a, c, w, h, t, p, s \o (a \o c \o w \o h \o t) \o p)
  <1> DEFINE f == s \o (a \o c \o w \o h \o t) \o p
  <1>1. PICK ac \in Seq(T) : ac = a \o c /\ Joined(T, a, c, ac)
    BY Concatenation
  <1>2. PICK acw \in Seq(T) : acw = ac \o w /\ Joined(T, ac, w, acw)
    BY <1>1, Concatenation
  <1>3. PICK acwh \in Seq(T) : acwh = acw \o h /\ Joined(T, acw, h, acwh)
    BY <1>2, Concatenation
  <1>4. PICK d \in Seq(T) : d = acwh \o t /\ Joined(T, acwh, t, d)
    BY <1>3, Concatenation
  <1>5. PICK sd \in Seq(T) : sd = s \o d /\ Joined(T, s, d, sd)
    BY <1>4, Concatenation
  <1>6. PICK e \in Seq(T) : e = sd \o p /\ Joined(T, sd, p, e)
    BY <1>5, Concatenation
  <1>7. f = e
    BY <1>1, <1>2, <1>3, <1>4, <1>5, <1>6
  <1>8. /\ Len(s) \in Nat /\ Len(a) \in Nat /\ Len(c) \in Nat /\ Len(w) \in Nat
        /\ Len(h) \in Nat /\ Len(t) \in Nat /\ Len(p) \in Nat
    OBVIOUS
  <1>9. \A k \in 1 .. Len(d) : e[Len(s) + k] = d[k]
    <2>1. \A k \in 1 .. Len(d) : Len(s) + k \in 1 .. Len(sd)
      BY <1>4, <1>5, <1>8 DEF Joined
    <2>2. QED
      BY <1>5, <1>6, <2>1 DEF Joined
  <1>10. \A k \in 1 .. Len(s) : e[k] = s[k]
    <2>1. \A k \in 1 .. Len(s) : k \in 1 .. Len(sd)
      BY <1>4, <1>5, <1>8 DEF Joined
    <2>2. QED
      BY <1>5, <1>6, <2>1 DEF Joined
  <1>11. \A k \in 1 .. Len(a) : e[Len(s) + k] = a[k]
    <2>1. \A k \in 1 .. Len(a) : k \in 1 .. Len(ac) /\ k \in 1 .. Len(acw) /\ k \in 1 .. Len(acwh) /\ k \in 1 .. Len(d)
      BY <1>1, <1>2, <1>3, <1>4, <1>8 DEF Joined
    <2>2. QED
      BY <1>1, <1>2, <1>3, <1>4, <1>9, <2>1 DEF Joined
  <1>12. \A k \in 1 .. Len(c) : e[Len(s) + (Len(a) + k)] = c[k]
    <2>1. \A k \in 1 .. Len(c) : Len(a) + k \in 1 .. Len(ac) /\ Len(a) + k \in 1 .. Len(acw) /\ Len(a) + k \in 1 .. Len(acwh) /\ Len(a) + k \in 1 .. Len(d)
      BY <1>1, <1>2, <1>3, <1>4, <1>8 DEF Joined
    <2>2. QED
      BY <1>1, <1>2, <1>3, <1>4, <1>9, <2>1, SMTT(60) DEF Joined
  <1>13. \A k \in 1 .. Len(w) : e[Len(s) + (Len(ac) + k)] = w[k]
    <2>1. \A k \in 1 .. Len(w) : Len(ac) + k \in 1 .. Len(acw) /\ Len(ac) + k \in 1 .. Len(acwh) /\ Len(ac) + k \in 1 .. Len(d)
      BY <1>1, <1>2, <1>3, <1>4, <1>8 DEF Joined
    <2>2. QED
      BY <1>1, <1>2, <1>3, <1>4, <1>9, <2>1, SMTT(60) DEF Joined
  <1>14. \A k \in 1 .. Len(h) : e[Len(s) + (Len(acw) + k)] = h[k]
    <2>1. \A k \in 1 .. Len(h) : Len(acw) + k \in 1 .. Len(acwh) /\ Len(acw) + k \in 1 .. Len(d)
      BY <1>1, <1>2, <1>3, <1>4, <1>8 DEF Joined
    <2>2. QED
      BY <1>1, <1>2, <1>3, <1>4, <1>9, <2>1, SMTT(60) DEF Joined
  <1>15. \A k \in 1 .. Len(t) : e[Len(s) + (Len(acwh) + k)] = t[k]
    <2>1. \A k \in 1 .. Len(t) : Len(acwh) + k \in 1 .. Len(d)
      BY <1>3, <1>4, <1>8 DEF Joined
    <2>2. QED
      BY <1>4, <1>9, <2>1 DEF Joined
  <1>16. /\ Len(ac) = Len(a) + Len(c) /\ Len(acw) = Len(a) + Len(c) + Len(w)
         /\ Len(acwh) = Len(a) + Len(c) + Len(w) + Len(h)
         /\ Len(e) = Len(s) + Len(a) + Len(c) + Len(w) + Len(h) + Len(t) + Len(p)
    BY <1>1, <1>2, <1>3, <1>4, <1>5, <1>6, <1>8 DEF Joined
  <1>17. \A k \in 1 .. Len(c) : e[Len(s) + Len(a) + k] = c[k]
    BY <1>8, <1>12, SMTT(60)
  <1>18. \A k \in 1 .. Len(w) : e[Len(s) + Len(a) + Len(c) + k] = w[k]
    <2>1. ASSUME NEW k \in 1 .. Len(w)
          PROVE  Len(s) + Len(a) + Len(c) + k = Len(s) + (Len(ac) + k)
      BY <1>8, <1>16
    <2>2. QED
      BY <1>13, <2>1
  <1>19. \A k \in 1 .. Len(h) : e[Len(s) + Len(a) + Len(c) + Len(w) + k] = h[k]
    <2>1. ASSUME NEW k \in 1 .. Len(h)
          PROVE  Len(s) + Len(a) + Len(c) + Len(w) + k = Len(s) + (Len(acw) + k)
      BY <1>8, <1>16
    <2>2. QED
      BY <1>14, <2>1
  <1>20. \A k \in 1 .. Len(t) : e[Len(s) + Len(a) + Len(c) + Len(w) + Len(h) + k] = t[k]
    <2>1. ASSUME NEW k \in 1 .. Len(t)
          PROVE  Len(s) + Len(a) + Len(c) + Len(w) + Len(h) + k = Len(s) + (Len(acwh) + k)
      BY <1>8, <1>16
    <2>2. QED
      BY <1>15, <2>1
  <1>21. \A k \in 1 .. Len(p) : e[Len(e) - Len(p) + k] = p[k]
    <2>1. Len(e) - Len(p) = Len(sd)
      BY <1>5, <1>6, <1>8 DEF Joined
    <2>2. QED
      BY <1>6, <2>1 DEF Joined
  <1>22. QED
    BY <1>6, <1>7, <1>10, <1>11, <1>16, <1>17, <1>18, <1>19, <1>20, <1>21 DEF AllJoined

LEMMA FrameBitsAre ==
  ASSUME NEW m \in Messages
  PROVE  /\ DOMAIN FrameBits(m) = 1 .. FrameLength /\ Len(FrameBits(m)) = FrameLength
         /\ FrameBits(m)[1] = 1 /\ FrameBits(m)[2] = 1
         /\ FrameBits(m)[3] = 0 /\ FrameBits(m)[4] = 0
         /\ \A k \in 1 .. AddressBits :
              FrameBits(m)[4 + k] = RightShift(m.address, AddressBits - k) % 2
         /\ \A k \in 1 .. ChannelBits :
              FrameBits(m)[ChannelFirst + k] = RightShift(m.channel, ChannelBits - k) % 2
         /\ \A k \in 1 .. ConstBits :
              FrameBits(m)[ConstFirst + k] = RightShift(m.wconst, ConstBits - k) % 2
         /\ \A k \in 1 .. HumidityBits :
              FrameBits(m)[HumidityFirst + k] = RightShift(m.humidity, HumidityBits - k) % 2
         /\ \A k \in 1 .. TemperatureBits :
              FrameBits(m)[TemperatureFirst + k]
                = RightShift(m.temperature, TemperatureBits - k) % 2
         /\ FrameBits(m)[FrameLength] = MessageParity(m)
  <1> DEFINE a == NumberBits(m.address, AddressBits)
             c == NumberBits(m.channel, ChannelBits)
             w == NumberBits(m.wconst, ConstBits)
             h == NumberBits(m.humidity, HumidityBits)
             t == NumberBits(m.temperature, TemperatureBits)
             par == MessageParity(m)
             T == {0, 1, par}
             s == <<1, 1, 0, 0>>
  <1>1. a \in Seq({0, 1}) /\ Len(a) = AddressBits
        /\ \A k \in 1 .. AddressBits : a[k] = RightShift(m.address, AddressBits - k) % 2
    <2>1. m.address \in Nat
      BY MessageNat
    <2>2. QED
      BY <2>1, WidthsNat, NumberBitsType
  <1>2. c \in Seq({0, 1}) /\ Len(c) = ChannelBits
        /\ \A k \in 1 .. ChannelBits : c[k] = RightShift(m.channel, ChannelBits - k) % 2
    <2>1. m.channel \in Nat
      BY MessageNat
    <2>2. QED
      BY <2>1, WidthsNat, NumberBitsType
  <1>3. w \in Seq({0, 1}) /\ Len(w) = ConstBits
        /\ \A k \in 1 .. ConstBits : w[k] = RightShift(m.wconst, ConstBits - k) % 2
    <2>1. m.wconst \in Nat
      BY MessageNat
    <2>2. QED
      BY <2>1, WidthsNat, NumberBitsType
  <1>4. h \in Seq({0, 1}) /\ Len(h) = HumidityBits
        /\ \A k \in 1 .. HumidityBits : h[k] = RightShift(m.humidity, HumidityBits - k) % 2
    <2>1. m.humidity \in Nat
      BY MessageNat
    <2>2. QED
      BY <2>1, WidthsNat, NumberBitsType
  <1>5. t \in Seq({0, 1}) /\ Len(t) = TemperatureBits
        /\ \A k \in 1 .. TemperatureBits :
             t[k] = RightShift(m.temperature, TemperatureBits - k) % 2
    <2>1. m.temperature \in Nat
      BY MessageNat
    <2>2. QED
      BY <2>1, WidthsNat, NumberBitsType
  <1>6. FrameBits(m) = s \o (a \o c \o w \o h \o t) \o <<par>>
    BY DEF FrameBits, DataBits
  <1> HIDE DEF a, c, w, h, t, par
  <1>7. /\ a \in Seq(T) /\ c \in Seq(T) /\ w \in Seq(T) /\ h \in Seq(T) /\ t \in Seq(T)
        /\ s \in Seq(T) /\ Len(s) = 4 /\ <<par>> \in Seq(T) /\ Len(<<par>>) = 1
    BY <1>1, <1>2, <1>3, <1>4, <1>5
  <1> HIDE DEF T, s
  <1> DEFINE f == FrameBits(m)
  <1>8. /\ f \in Seq(T)
        /\ Len(f) = Len(s) + Len(a) + Len(c) + Len(w) + Len(h) + Len(t) + Len(<<par>>)
        /\ \A k \in 1 .. Len(s) : f[k] = s[k]
        /\ \A k \in 1 .. Len(a) : f[Len(s) + k] = a[k]
        /\ \A k \in 1 .. Len(c) : f[Len(s) + Len(a) + k] = c[k]
        /\ \A k \in 1 .. Len(w) : f[Len(s) + Len(a) + Len(c) + k] = w[k]
        /\ \A k \in 1 .. Len(h) : f[Len(s) + Len(a) + Len(c) + Len(w) + k] = h[k]
        /\ \A k \in 1 .. Len(t) : f[Len(s) + Len(a) + Len(c) + Len(w) + Len(h) + k] = t[k]
        /\ \A k \in 1 .. Len(<<par>>) : f[Len(f) - Len(<<par>>) + k] = <<par>>[k]
    <2>1. AllJoined(T, s, a, c, w, h, t, <<par>>, s \o (a \o c \o w \o h \o t) \o <<par>>)
      BY <1>7, PartsInFrame
    <2>2. AllJoined(T, s, a, c, w, h, t, <<par>>, f)
      BY <1>6, <2>1
    <2> HIDE DEF f
    <2>3. QED
      BY <2>2 DEF AllJoined
  <1> HIDE DEF f
  <1>9. /\ DOMAIN f = 1 .. FrameLength /\ Len(f) = FrameLength
    <2>1. Len(f) = 4 + Len(a) + Len(c) + Len(w) + Len(h) + Len(t) + 1
      BY <1>7, <1>8
    <2>2. Len(f) = FrameLength
      BY <1>1, <1>2, <1>3, <1>4, <1>5, <2>1, WidthsNat DEF FrameLength
    <2>3. QED
      BY <1>8, <2>2
  <1>10. f[1] = 1 /\ f[2] = 1 /\ f[3] = 0 /\ f[4] = 0
    BY <1>7, <1>8 DEF s
  <1>11. /\ ChannelFirst = 4 + AddressBits /\ ConstFirst = 4 + AddressBits + ChannelBits
         /\ HumidityFirst = 4 + AddressBits + ChannelBits + ConstBits
         /\ TemperatureFirst = 4 + AddressBits + ChannelBits + ConstBits + HumidityBits
    BY DEF ChannelFirst, ConstFirst, HumidityFirst, TemperatureFirst
  <1>12. \A k \in 1 .. AddressBits :
           f[4 + k] = RightShift(m.address, AddressBits - k) % 2
    BY <1>1, <1>7, <1>8, SMTT(60)
  <1>13. \A k \in 1 .. ChannelBits :
           f[ChannelFirst + k] = RightShift(m.channel, ChannelBits - k) % 2
    BY <1>1, <1>2, <1>7, <1>8, <1>11
  <1>14. \A k \in 1 .. ConstBits :
           f[ConstFirst + k] = RightShift(m.wconst, ConstBits - k) % 2
    BY <1>1, <1>2, <1>3, <1>7, <1>8, <1>11
  <1>15. \A k \in 1 .. HumidityBits :
           f[HumidityFirst + k] = RightShift(m.humidity, HumidityBits - k) % 2
    BY <1>1, <1>2, <1>3, <1>4, <1>7, <1>8, <1>11, ZenonT(60)
  <1>16. \A k \in 1 .. TemperatureBits :
           f[TemperatureFirst + k] = RightShift(m.temperature, TemperatureBits - k) % 2
    BY <1>1, <1>2, <1>3, <1>4, <1>5, <1>7, <1>8, <1>11, ZenonT(60)
  <1>17. f[FrameLength] = par
    <2>1. FrameLength \in Nat
      BY WidthsNat DEF FrameLength
    <2>2. 1 \in 1 .. Len(<<par>>) /\ Len(f) - Len(<<par>>) = FrameLength - 1
      BY <1>7, <1>9
    <2>3. f[FrameLength - 1 + 1] = <<par>>[1]
      BY <1>8, <2>2, Zenon
    <2>4. QED
      BY <2>1, <2>3
  <1>18. QED
    BY <1>9, <1>10, <1>12, <1>13, <1>14, <1>15, <1>16, <1>17 DEF f, par

\* The intervals of the first b bits of a frame, and how many they are.
BitsUsec(m, b) == FlattenSeq([k \in 1 .. b |-> BitUsec(FrameBits(m)[k])])
Intervals(m, b) == Len(BitsUsec(m, b))

LEMMA BitUsecType == ASSUME NEW b PROVE BitUsec(b) \in Seq(Nat)
  <1>1. <<PULSE1, PULSE1>> \in Seq(Nat) /\ <<PULSE0>> \in Seq(Nat)
    BY DEF PULSE0, PULSE1
  <1>2. QED
    BY <1>1 DEF BitUsec

LEMMA UsecOfBitsType ==
  ASSUME NEW m, NEW b \in Nat
  PROVE  /\ [k \in 1 .. b |-> BitUsec(FrameBits(m)[k])] \in Seq(Seq(Nat))
         /\ Len([k \in 1 .. b |-> BitUsec(FrameBits(m)[k])]) = b
  BY BitUsecType

LEMMA BitsUsecType ==
  ASSUME NEW m, NEW b \in Nat
  PROVE  BitsUsec(m, b) \in Seq(Nat) /\ Intervals(m, b) \in Nat
  <1>1. BitsUsec(m, b) \in Seq(Nat)
    BY UsecOfBitsType, FlattenType DEF BitsUsec
  <1>2. QED
    BY <1>1 DEF Intervals

LEMMA NoBits == ASSUME NEW m PROVE BitsUsec(m, 0) = <<>> /\ Intervals(m, 0) = 0
  <1>1. [k \in 1 .. 0 |-> BitUsec(FrameBits(m)[k])] = <<>>
    OBVIOUS
  <1>2. FlattenSeq(<<>>) = <<>>
    BY DEF FlattenSeq
  <1>3. QED
    BY <1>1, <1>2 DEF BitsUsec, Intervals

LEMMA OneBitMore ==
  ASSUME NEW m, NEW b \in Nat
  PROVE  BitsUsec(m, b + 1) = BitsUsec(m, b) \o BitUsec(FrameBits(m)[b + 1])
  <1> DEFINE s == [k \in 1 .. b |-> BitUsec(FrameBits(m)[k])]
             t == [k \in 1 .. b + 1 |-> BitUsec(FrameBits(m)[k])]
  <1>1. /\ s \in Seq(Seq(Nat)) /\ Len(s) = b
        /\ t \in Seq(Seq(Nat)) /\ Len(t) = b + 1
    BY UsecOfBitsType
  <1>2. \A i \in 1 .. b : t[i] = s[i]
    OBVIOUS
  <1>3. t[b + 1] = BitUsec(FrameBits(m)[b + 1])
    OBVIOUS
  <1>4. BitsUsec(m, b) = FlattenSeq(s) /\ BitsUsec(m, b + 1) = FlattenSeq(t)
    BY DEF BitsUsec
  <1> HIDE DEF s, t
  <1>5. FlattenSeq(t) = FlattenSeq(s) \o t[b + 1]
    BY <1>1, <1>2, FlattenLast
  <1>6. QED
    BY <1>3, <1>4, <1>5

LEMMA FrameIsItsBits ==
  ASSUME NEW m \in Messages
  PROVE  FrameUsec(m) = BitsUsec(m, FrameLength)
  BY FrameBitsAre DEF FrameUsec, BitsUsec

\* What is sent first stays what it is.
LEMMA Begins ==
  ASSUME NEW m, NEW b \in Nat, NEW c \in Nat, b <= c
  PROVE  /\ Intervals(m, b) <= Intervals(m, c)
         /\ \A i \in 1 .. Intervals(m, b) : BitsUsec(m, c)[i] = BitsUsec(m, b)[i]
  <1> DEFINE Good(n) ==
               /\ Intervals(m, b) <= Intervals(m, n)
               /\ \A i \in 1 .. Intervals(m, b) : BitsUsec(m, n)[i] = BitsUsec(m, b)[i]
             Bad == {n \in Nat : b <= n /\ ~ Good(n)}
  <1>1. SUFFICES ASSUME Bad /= {} PROVE FALSE
    OBVIOUS
  <1>2. PICK n \in Bad : \A k \in Bad : n <= k
    <2>1. Bad \subseteq Nat
      OBVIOUS
    <2> HIDE DEF Bad
    <2>2. QED
      BY <1>1, <2>1, Least
  <1>3. n \in Nat /\ b <= n /\ ~ Good(n)
    BY <1>2
  <1>4. n /= b
    <2>1. Good(b)
      BY BitsUsecType
    <2>2. QED
      BY <1>3, <2>1
  <1>5. n - 1 \in Nat /\ b <= n - 1 /\ (n - 1) + 1 = n
    BY <1>3, <1>4
  <1>6. Good(n - 1)
    BY <1>2, <1>3, <1>5
  <1> HIDE DEF Bad
  <1>7. BitsUsec(m, n) = BitsUsec(m, n - 1) \o BitUsec(FrameBits(m)[n])
    BY <1>5, OneBitMore
  <1>8. Joined(Nat, BitsUsec(m, n - 1), BitUsec(FrameBits(m)[n]), BitsUsec(m, n))
    BY <1>5, <1>7, BitsUsecType, BitUsecType, Concatenation
  <1>9. /\ Intervals(m, n) = Intervals(m, n - 1) + Len(BitUsec(FrameBits(m)[n]))
        /\ \A i \in 1 .. Intervals(m, n - 1) : BitsUsec(m, n)[i] = BitsUsec(m, n - 1)[i]
    BY <1>8 DEF Joined, Intervals
  <1>10. Len(BitUsec(FrameBits(m)[n])) \in Nat
    BY BitUsecType
  <1>11. /\ Intervals(m, n - 1) \in Nat /\ Intervals(m, n) \in Nat /\ Intervals(m, b) \in Nat
    BY <1>3, <1>5, BitsUsecType
  <1>12. Good(n)
    BY <1>6, <1>9, <1>10, <1>11
  <1>13. QED
    BY <1>3, <1>12

\* A bit that is 1 is two short intervals, another is a long one.
LEMMA IntervalsOfBit ==
  ASSUME NEW m \in Messages, NEW b \in 0 .. FrameLength - 1
  PROVE  /\ Intervals(m, b) \in Nat /\ Intervals(m, b + 1) <= Len(FrameUsec(m))
         /\ FrameBits(m)[b + 1] = 1 =>
              /\ Intervals(m, b + 1) = Intervals(m, b) + 2
              /\ FrameUsec(m)[Intervals(m, b) + 1] = PULSE1
              /\ FrameUsec(m)[Intervals(m, b) + 2] = PULSE1
         /\ FrameBits(m)[b + 1] /= 1 =>
              /\ Intervals(m, b + 1) = Intervals(m, b) + 1
              /\ FrameUsec(m)[Intervals(m, b) + 1] = PULSE0
  <1>1. b \in Nat /\ b + 1 \in Nat /\ FrameLength \in Nat /\ b + 1 <= FrameLength
    BY WidthsNat DEF FrameLength
  <1>2. Joined(Nat, BitsUsec(m, b), BitUsec(FrameBits(m)[b + 1]), BitsUsec(m, b + 1))
    <2>1. BitsUsec(m, b + 1) = BitsUsec(m, b) \o BitUsec(FrameBits(m)[b + 1])
      BY <1>1, OneBitMore
    <2>2. BitsUsec(m, b) \in Seq(Nat) /\ BitUsec(FrameBits(m)[b + 1]) \in Seq(Nat)
      BY <1>1, BitsUsecType, BitUsecType
    <2>3. QED
      BY <2>1, <2>2, Concatenation, ZenonT(60)
  <1> DEFINE next == BitUsec(FrameBits(m)[b + 1])
             i == Intervals(m, b)
             j == Intervals(m, b + 1)
  <1>3. /\ i \in Nat /\ j \in Nat /\ Len(next) \in Nat
    BY <1>1, BitsUsecType, BitUsecType
  <1>4. /\ j = i + Len(next)
        /\ \A k \in 1 .. Len(next) : BitsUsec(m, b + 1)[i + k] = next[k]
    BY <1>2 DEF Joined, Intervals
  <1>5. /\ j <= Len(FrameUsec(m))
        /\ \A k \in 1 .. j : FrameUsec(m)[k] = BitsUsec(m, b + 1)[k]
    BY <1>1, Begins, FrameIsItsBits DEF Intervals
  <1> HIDE DEF next, i, j
  <1>6. \A k \in 1 .. Len(next) : FrameUsec(m)[i + k] = next[k]
    <2>1. \A k \in 1 .. Len(next) : i + k \in 1 .. j
      BY <1>3, <1>4
    <2>2. QED
      BY <1>4, <1>5, <2>1
  <1>7. CASE FrameBits(m)[b + 1] = 1
    <2>1. Len(next) = 2 /\ next[1] = PULSE1 /\ next[2] = PULSE1
      BY <1>7 DEF next, BitUsec
    <2>2. QED
      BY <1>3, <1>4, <1>5, <1>6, <1>7, <2>1 DEF i, j
  <1>8. CASE FrameBits(m)[b + 1] /= 1
    <2>1. Len(next) = 1 /\ next[1] = PULSE0
      BY <1>8 DEF next, BitUsec
    <2>2. QED
      BY <1>3, <1>4, <1>5, <1>6, <1>8, <2>1 DEF i, j
  <1>9. QED
    BY <1>7, <1>8

LEMMA FrameEndsWithItsBits ==
  ASSUME NEW m \in Messages
  PROVE  /\ FrameUsec(m) \in Seq(Nat) /\ Len(FrameUsec(m)) = Intervals(m, FrameLength)
         /\ Len(FrameUsec(m)) > 0
  <1>1. FrameLength \in Nat /\ 0 \in 0 .. FrameLength - 1
    BY WidthsNat DEF FrameLength
  <1>2. FrameUsec(m) \in Seq(Nat) /\ Len(FrameUsec(m)) = Intervals(m, FrameLength)
    BY <1>1, FrameIsItsBits, BitsUsecType DEF Intervals
  <1>3. Intervals(m, 0 + 1) > 0 /\ Intervals(m, 0 + 1) <= Len(FrameUsec(m))
    BY <1>1, IntervalsOfBit
  <1>4. QED
    BY <1>1, <1>2, <1>3, BitsUsecType

\* Where the parts of a message are in it.
MessageJoined(T, a, f, l, e, s) ==
  /\ s \in Seq(T)
  /\ Len(s) = Len(a) + Len(f) + 3 * Len(l) + Len(e)
  /\ \A k \in 1 .. Len(a) : s[k] = a[k]
  /\ \A k \in 1 .. Len(f) : s[Len(a) + k] = f[k]
  /\ \A k \in 1 .. Len(l) :
       /\ s[Len(a) + Len(f) + k] = l[k]
       /\ s[Len(a) + Len(f) + Len(l) + k] = l[k]
       /\ s[Len(a) + Len(f) + 2 * Len(l) + k] = l[k]
  /\ \A k \in 1 .. Len(e) : s[Len(a) + Len(f) + 3 * Len(l) + k] = e[k]

LEMMA PartsInMessage ==
  ASSUME NEW T, NEW a \in Seq(T), NEW f \in Seq(T), NEW l \in Seq(T), NEW e \in Seq(T)
  PROVE  MessageJoined(T, a, f, l, e, a \o f \o l \o l \o l \o e)
  <1>1. PICK af \in Seq(T) : af = a \o f /\ Joined(T, a, f, af)
    BY Concatenation
  <1>2. PICK one \in Seq(T) : one = af \o l /\ Joined(T, af, l, one)
    BY <1>1, Concatenation
  <1>3. PICK two \in Seq(T) : two = one \o l /\ Joined(T, one, l, two)
    BY <1>2, Concatenation
  <1>4. PICK three \in Seq(T) : three = two \o l /\ Joined(T, two, l, three)
    BY <1>3, Concatenation
  <1>5. PICK s \in Seq(T) : s = three \o e /\ Joined(T, three, e, s)
    BY <1>4, Concatenation
  <1>6. Len(a) \in Nat /\ Len(f) \in Nat /\ Len(l) \in Nat /\ Len(e) \in Nat
    OBVIOUS
  <1>7. /\ Len(af) = Len(a) + Len(f) /\ Len(one) = Len(af) + Len(l)
        /\ Len(two) = Len(one) + Len(l) /\ Len(three) = Len(two) + Len(l)
        /\ Len(s) = Len(three) + Len(e)
    BY <1>1, <1>2, <1>3, <1>4, <1>5 DEF Joined
  <1>8. \A k \in 1 .. Len(three) : s[k] = three[k]
    BY <1>5 DEF Joined
  <1>9. \A k \in 1 .. Len(two) : s[k] = two[k]
    <2>1. \A k \in 1 .. Len(two) : k \in 1 .. Len(three)
      BY <1>6, <1>7
    <2>2. QED
      BY <1>4, <1>8, <2>1 DEF Joined
  <1>10. \A k \in 1 .. Len(one) : s[k] = one[k]
    <2>1. \A k \in 1 .. Len(one) : k \in 1 .. Len(two)
      BY <1>6, <1>7
    <2>2. QED
      BY <1>3, <1>9, <2>1 DEF Joined
  <1>11. \A k \in 1 .. Len(af) : s[k] = af[k]
    <2>1. \A k \in 1 .. Len(af) : k \in 1 .. Len(one)
      BY <1>6, <1>7
    <2>2. QED
      BY <1>2, <1>10, <2>1 DEF Joined
  <1>12. \A k \in 1 .. Len(a) : s[k] = a[k]
    <2>1. \A k \in 1 .. Len(a) : k \in 1 .. Len(af)
      BY <1>6, <1>7
    <2>2. QED
      BY <1>1, <1>11, <2>1 DEF Joined
  <1>13. \A k \in 1 .. Len(f) : s[Len(a) + k] = f[k]
    <2>1. \A k \in 1 .. Len(f) : Len(a) + k \in 1 .. Len(af)
      BY <1>6, <1>7
    <2>2. QED
      BY <1>1, <1>11, <2>1 DEF Joined
  <1>14. /\ \A k \in 1 .. Len(l) : s[Len(af) + k] = l[k]
         /\ \A k \in 1 .. Len(l) : s[Len(one) + k] = l[k]
         /\ \A k \in 1 .. Len(l) : s[Len(two) + k] = l[k]
    <2>1. \A k \in 1 .. Len(l) : /\ Len(af) + k \in 1 .. Len(one)
                                 /\ Len(one) + k \in 1 .. Len(two)
                                 /\ Len(two) + k \in 1 .. Len(three)
      BY <1>6, <1>7
    <2>2. \A k \in 1 .. Len(l) : s[Len(af) + k] = l[k]
      BY <1>2, <1>10, <2>1 DEF Joined
    <2>3. \A k \in 1 .. Len(l) : s[Len(one) + k] = l[k]
      BY <1>3, <1>9, <2>1 DEF Joined
    <2>4. \A k \in 1 .. Len(l) : s[Len(two) + k] = l[k]
      BY <1>4, <1>8, <2>1 DEF Joined
    <2>5. QED
      BY <2>2, <2>3, <2>4
  <1>15. \A k \in 1 .. Len(e) : s[Len(three) + k] = e[k]
    BY <1>5 DEF Joined
  <1>16. /\ Len(s) = Len(a) + Len(f) + 3 * Len(l) + Len(e)
         /\ Len(af) = Len(a) + Len(f) /\ Len(one) = Len(a) + Len(f) + Len(l)
         /\ Len(two) = Len(a) + Len(f) + 2 * Len(l)
         /\ Len(three) = Len(a) + Len(f) + 3 * Len(l)
    BY <1>6, <1>7
  <1>17. MessageJoined(T, a, f, l, e, s)
    BY <1>12, <1>13, <1>14, <1>15, <1>16 DEF MessageJoined
  <1>18. QED
    BY <1>1, <1>2, <1>3, <1>4, <1>5, <1>17

\* A message begins with the silence and its first frame, and does not end there.
LEMMA MessageBegins ==
  ASSUME NEW m \in Messages, NEW idle \in Nat
  PROVE  /\ MessageUsec(m, idle) \in Seq(Nat)
         /\ Len(MessageUsec(m, idle)) = Len(MessageUsec(m, 0))
         /\ Len(MessageUsec(m, idle)) > Len(FrameUsec(m)) + 1
         /\ MessageUsec(m, idle)[1] = idle
         /\ \A i \in 1 .. Len(FrameUsec(m)) :
              MessageUsec(m, idle)[1 + i] = FrameUsec(m)[i]
  <1> DEFINE f == FrameUsec(m)
             l == LaterFrameUsec(f)
             e == IF EndsHigh(f) THEN <<Pause>> ELSE <<>>
             s(x) == <<x>> \o f \o l \o l \o l \o e
  <1>1. f \in Seq(Nat) /\ Len(f) \in Nat /\ Len(f) > 0
    BY FrameEndsWithItsBits
  <1>2. MessageUsec(m, idle) = s(idle) /\ MessageUsec(m, 0) = s(0)
    BY DEF MessageUsec
  <1> HIDE DEF f
  <1>3. l \in Seq(Nat) /\ Len(l) \in Nat /\ Len(l) > 0
    <2>1. CASE EndsHigh(f)
      <3>1. Pause + Head(f) \in Nat /\ Tail(f) \in Seq(Nat)
        BY <1>1 DEF Pause
      <3>2. l = <<Pause + Head(f)>> \o Tail(f)
        BY <2>1 DEF LaterFrameUsec
      <3>3. QED
        BY <3>1, <3>2
    <2>2. CASE ~ EndsHigh(f)
      <3>1. l = <<Pause>> \o f
        BY <2>2 DEF LaterFrameUsec
      <3>2. QED
        BY <1>1, <3>1 DEF Pause
    <2>3. QED
      BY <2>1, <2>2
  <1>4. e \in Seq(Nat) /\ Len(e) \in Nat
    BY DEF Pause
  <1> HIDE DEF l, e
  <1>5. ASSUME NEW x \in Nat PROVE MessageJoined(Nat, <<x>>, f, l, e, s(x))
    <2>1. <<x>> \in Seq(Nat)
      OBVIOUS
    <2>2. QED
      BY <1>1, <1>3, <1>4, <2>1, PartsInMessage
  <1>6. ASSUME NEW x \in Nat
        PROVE  /\ s(x) \in Seq(Nat)
               /\ Len(s(x)) = 1 + Len(f) + 3 * Len(l) + Len(e)
               /\ s(x)[1] = x
               /\ \A i \in 1 .. Len(f) : s(x)[1 + i] = f[i]
    <2> DEFINE t == s(x)
               a == <<x>>
    <2>1. Len(a) = 1 /\ a[1] = x
      OBVIOUS
    <2>2. MessageJoined(Nat, a, f, l, e, t)
      BY <1>5
    <2> HIDE DEF t, a
    <2>3. /\ t \in Seq(Nat) /\ Len(t) = 1 + Len(f) + 3 * Len(l) + Len(e)
          /\ t[1] = x
          /\ \A i \in 1 .. Len(f) : t[1 + i] = f[i]
      BY <2>1, <2>2 DEF MessageJoined
    <2>4. QED
      BY <2>3 DEF t
  <1> HIDE DEF s
  <1>7. 0 \in Nat
    OBVIOUS
  <1>8. Len(s(idle)) = Len(s(0))
    BY <1>6, <1>7
  <1>9. Len(s(idle)) > Len(f) + 1
    <2>1. Len(s(idle)) = 1 + Len(f) + 3 * Len(l) + Len(e)
      BY <1>6
    <2>2. QED
      BY <1>1, <1>3, <1>4, <2>1
  <1>10. /\ s(idle) \in Seq(Nat) /\ s(idle)[1] = idle
         /\ \A i \in 1 .. Len(f) : s(idle)[1 + i] = f[i]
    BY <1>6
  <1>11. QED
    BY <1>2, <1>8, <1>9, <1>10 DEF f

--------------------------------------------------------------------------------
(* What the receiver does with an interval.                                *)

\* The half of a 1, and a 0, with every edge shifted as far as it may be.
Short(g) == g \in Nat /\ g > min1period /\ g < max1period
Long(g) == g \in Nat /\ g > min2period /\ g <= max2period

LEMMA HalfCounts ==
  ASSUME NEW g, Short(g)
  PROVE  /\ Counts(g) /\ Duration(g) = g /\ ~IsLong(g) /\ ~TooShort(g)
         /\ ~(Duration(g) > max2period)
  BY DEF Short, Counts, Duration, IsLong, TooShort, WordMod,
         min1period, max1period, min2period, max2period

LEMMA LongCounts ==
  ASSUME NEW g, Long(g)
  PROVE  /\ Counts(g) /\ Duration(g) = g /\ IsLong(g) /\ ~TooShort(g)
         /\ ~(Duration(g) > max2period)
  BY DEF Long, Counts, Duration, IsLong, TooShort, WordMod,
         min1period, max1period, min2period, max2period

\* The first half of a start bit brings the receiver from rest to state 1,
LEMMA FirstHalf ==
  ASSUME NEW g, Short(g), Edge(g), state = -1
  PROVE  state' = 1 /\ code' = [Cleared EXCEPT !.sync = 1] /\ called' = {}
  <1>1. Counts(g) /\ Duration(g) = g /\ ~TooShort(g) /\ ~(Duration(g) > max2period)
    BY HalfCounts
  <1>2. Duration(g) <= max2period /\ Duration(g) > min1period /\ Duration(g) < max1period
    BY <1>1 DEF Counts, Short
  <1>3. /\ ~EdgeTooEarly(g) /\ ~Silence(g) /\ ~Wait(g) /\ ~StartBitOne(g) /\ ~StartBitZero(g)
        /\ ~StartBitWrong(g) /\ ~DataInterval(g) /\ ~LastInterval(g)
    BY <1>1, <1>2
       DEF Counts, EdgeTooEarly, Silence, Wait, StartBitOne, StartBitZero, StartBitWrong,
           DataInterval, LastInterval
  <1>4. QED
    BY <1>3 DEF Edge, Start

\* the others from state to state,
LEMMA StartHalf ==
  ASSUME NEW g, Short(g), Edge(g), state \in 0 .. 3
  PROVE  /\ state' = state + 1 /\ called' = {}
         /\ code' = code \/ code' = [code EXCEPT !.sync = (4 * @) % ByteMod, !.par = 1 - @]
  <1>1. Counts(g) /\ ~TooShort(g) /\ ~IsLong(g) /\ ~(Duration(g) > max2period)
    BY HalfCounts
  <1>2. /\ ~EdgeTooEarly(g) /\ ~Silence(g) /\ ~Start(g) /\ ~Wait(g) /\ ~StartBitZero(g)
        /\ ~StartBitWrong(g) /\ ~DataInterval(g) /\ ~LastInterval(g)
    BY <1>1
       DEF Counts, EdgeTooEarly, Silence, Start, Wait, StartBitZero, StartBitWrong,
           DataInterval, LastInterval
  <1>3. QED
    BY <1>2 DEF Edge, StartBitOne

\* a start bit that is 0 by two states,
LEMMA StartLong ==
  ASSUME NEW g, Long(g), Edge(g), state \in 4 .. 7
  PROVE  /\ state' = state + 2 /\ called' = {}
         /\ code' = [code EXCEPT !.sync = (2 * @) % ByteMod]
  <1>1. /\ Counts(g) /\ ~TooShort(g) /\ ~(Duration(g) < min2period)
        /\ ~(Duration(g) > max2period)
    BY LongCounts DEF Long, min2period
  <1>2. /\ ~EdgeTooEarly(g) /\ ~Silence(g) /\ ~Start(g) /\ ~Wait(g) /\ ~StartBitOne(g)
        /\ ~StartBitWrong(g) /\ ~DataInterval(g) /\ ~LastInterval(g)
    BY <1>1
       DEF Counts, EdgeTooEarly, Silence, Start, Wait, StartBitOne, StartBitWrong,
           DataInterval, LastInterval
  <1>3. QED
    BY <1>2 DEF Edge, StartBitZero

\* and the data by one state or two, until the frame is complete.
LEMMA DataHeard ==
  ASSUME NEW g, Short(g) \/ Long(g), Edge(g), state \in Nat, state >= 8
  PROVE  \/ /\ LastHalf(g) + 1 < FrameEnd
            /\ state' = LastHalf(g) + 1 /\ code' = WithInterval(g) /\ called' = {}
         \/ LastHalf(g) + 1 >= FrameEnd /\ Complete(WithInterval(g))
  <1>1. Counts(g) /\ ~TooShort(g) /\ ~(Duration(g) > max2period)
    BY HalfCounts, LongCounts
  <1>2. /\ ~EdgeTooEarly(g) /\ ~Silence(g) /\ ~Start(g) /\ ~Wait(g) /\ ~StartBitOne(g)
        /\ ~StartBitZero(g) /\ ~StartBitWrong(g)
    BY <1>1
       DEF Counts, EdgeTooEarly, Silence, Start, Wait, StartBitOne, StartBitZero, StartBitWrong
  <1>3. QED
    BY <1>2 DEF Edge, DataInterval, LastInterval

\* The silence before a message brings the receiver to rest.
LEMMA RestAfter ==
  ASSUME NEW g \in Nat, g < min1period \/ Duration(g) > max2period, Edge(g),
         state \in Int, state >= -1
  PROVE  state' = -1 /\ called' = {}
  <1>1. CASE state >= 0 /\ g < min1period
    <2>1. TooShort(g)
      BY <1>1 DEF TooShort
    <2>2. /\ ~Silence(g) /\ ~Start(g) /\ ~Wait(g) /\ ~StartBitOne(g)
          /\ ~StartBitZero(g) /\ ~StartBitWrong(g) /\ ~DataInterval(g) /\ ~LastInterval(g)
      BY <2>1
         DEF Counts, Silence, Start, Wait, StartBitOne, StartBitZero, StartBitWrong,
             DataInterval, LastInterval
    <2>3. QED
      BY <2>2 DEF Edge, EdgeTooEarly, Reset
  <1>2. CASE Duration(g) > max2period
    <2>1. ~Counts(g)
      BY <1>2 DEF Counts, Duration, max2period, WordMod
    <2>2. /\ ~Start(g) /\ ~Wait(g) /\ ~StartBitOne(g)
          /\ ~StartBitZero(g) /\ ~StartBitWrong(g) /\ ~DataInterval(g) /\ ~LastInterval(g)
      BY <2>1
         DEF Start, Wait, StartBitOne, StartBitZero, StartBitWrong,
             DataInterval, LastInterval
    <2>3. QED
      BY <2>2 DEF Edge, EdgeTooEarly, Silence, Reset
  <1>3. CASE state = -1 /\ g < min1period
    <2>1. ~Silence(g) /\ ~Start(g)
      BY <1>3 DEF Silence, Start, Duration, WordMod, min1period, max2period
    <2>2. /\ ~StartBitOne(g) /\ ~StartBitZero(g) /\ ~StartBitWrong(g)
          /\ ~DataInterval(g) /\ ~LastInterval(g) /\ ~EdgeTooEarly(g)
      BY <1>3
         DEF StartBitOne, StartBitZero, StartBitWrong, DataInterval, LastInterval,
             EdgeTooEarly, TooShort
    <2>3. QED
      BY <1>3, <2>1, <2>2 DEF Edge, Wait
  <1>4. QED
    BY <1>1, <1>2, <1>3

\* A complete code is passed on, unless the byte that counts it overflows.
LEMMA CompleteCalls ==
  ASSUME NEW c, Complete(c), MinRepeats = 1, repeats \in 0 .. ByteMod - 1, repeats < 255
  PROVE  called' = {c}
  <1>1. (repeats + 1) % ByteMod >= 1
    BY DEF ByteMod
  <1>2. QED
    BY <1>1 DEF Complete

--------------------------------------------------------------------------------
(* What the receiver has read of a frame.                                  *)

\* How much of a field is sent with the first b bits of a frame, and what that is.
SentOf(b, first, width) ==
  IF b <= first THEN 0 ELSE IF b >= first + width THEN width ELSE b - first
Top(v, b, first, width) == RightShift(v, width - SentOf(b, first, width))

LEMMA TopNone ==
  ASSUME NEW mod \in Nat, NEW width \in Nat, NEW v \in Field(mod, width),
         NEW first \in Nat, NEW b \in Nat, b <= first
  PROVE  Top(v, b, first, width) = 0
  BY FieldNat DEF Top, SentOf

LEMMA TopAll ==
  ASSUME NEW width \in Nat, NEW v \in Nat,
         NEW first \in Nat, NEW b \in Nat, b >= first + width
  PROVE  Top(v, b, first, width) = v
  <1>1. SentOf(b, first, width) = width
    BY DEF SentOf
  <1>2. QED
    BY <1>1, ShiftZero DEF Top

LEMMA TopSame ==
  ASSUME NEW width \in Nat, NEW v, NEW first \in Nat, NEW b \in Nat,
         b < first \/ b >= first + width
  PROVE  Top(v, b + 1, first, width) = Top(v, b, first, width)
  BY DEF Top, SentOf

LEMMA TopNext ==
  ASSUME NEW mod \in Nat, mod > 0, NEW width \in Nat, NEW v \in Field(mod, width),
         NEW first \in Nat, NEW b \in Nat, b >= first, b < first + width
  PROVE  Top(v, b + 1, first, width)
           = Shift(Top(v, b, first, width), RightShift(v, width - (b + 1 - first)) % 2, mod)
  <1> DEFINE n == width - (b + 1 - first)
  <1>1. n \in Nat /\ n + 1 = width - (b - first)
    OBVIOUS
  <1>2. SentOf(b, first, width) = b - first /\ SentOf(b + 1, first, width) = b + 1 - first
    BY DEF SentOf
  <1>3. Top(v, b, first, width) = RightShift(v, n + 1) /\ Top(v, b + 1, first, width) = RightShift(v, n)
    BY <1>1, <1>2 DEF Top
  <1>4. v \in Nat /\ v < mod
    BY FieldNat
  <1> HIDE DEF n
  <1>5. RightShift(v, n) \in 0 .. v /\ RightShift(v, n + 1) = RightShift(v, n) \div 2
    BY <1>1, <1>4, ShiftType, ShiftNext
  <1>6. 2 * RightShift(v, n + 1) + (RightShift(v, n) % 2) = RightShift(v, n)
    BY <1>4, <1>5
  <1>7. RightShift(v, n) % mod = RightShift(v, n)
    BY <1>4, <1>5
  <1>8. QED
    BY <1>3, <1>6, <1>7 DEF Shift, n

LEMMA BitSent ==
  ASSUME NEW v \in Nat, NEW n \in Nat
  PROVE  RightShift(v, n) % 2 \in {0, 1}
  <1>1. RightShift(v, n) \in Nat
    BY ShiftType
  <1>2. QED
    BY <1>1

\* c holds what the first b bits of a frame say of m.
Read(c, m, b) ==
  /\ c.address = Top(m.address, b, 4, AddressBits)
  /\ c.channel = Top(m.channel, b, ChannelFirst, ChannelBits)
  /\ c.wconst = Top(m.wconst, b, ConstFirst, ConstBits)
  /\ c.humidity = Top(m.humidity, b, HumidityFirst, HumidityBits)
  /\ c.temperature = Top(m.temperature, b, TemperatureFirst, TemperatureBits)

LEMMA FirstsNat ==
  /\ ChannelFirst \in Nat /\ ConstFirst \in Nat /\ HumidityFirst \in Nat
  /\ TemperatureFirst \in Nat /\ FrameLength \in Nat
  /\ ChannelFirst = 4 + AddressBits /\ ConstFirst = ChannelFirst + ChannelBits
  /\ HumidityFirst = ConstFirst + ConstBits
  /\ TemperatureFirst = HumidityFirst + HumidityBits
  /\ FrameLength = TemperatureFirst + TemperatureBits + 1
  BY WidthsNat
     DEF ChannelFirst, ConstFirst, HumidityFirst, TemperatureFirst, FrameLength

LEMMA Ends ==
  /\ AddressEnd = 2 * ChannelFirst /\ ChannelEnd = 2 * ConstFirst
  /\ ConstEnd = 2 * HumidityFirst /\ HumidityEnd = 2 * TemperatureFirst
  /\ TemperatureEnd = 2 * (FrameLength - 1) /\ FrameEnd = 2 * FrameLength
  BY FirstsNat, WidthsNat
     DEF AddressEnd, ChannelEnd, ConstEnd, HumidityEnd, TemperatureEnd, FrameEnd

\* The start bits say nothing of the message,
LEMMA NothingYet ==
  ASSUME NEW m \in Messages, NEW b \in 0 .. 4
  PROVE  /\ Top(m.address, b, 4, AddressBits) = 0
         /\ Top(m.channel, b, ChannelFirst, ChannelBits) = 0
         /\ Top(m.wconst, b, ConstFirst, ConstBits) = 0
         /\ Top(m.humidity, b, HumidityFirst, HumidityBits) = 0
         /\ Top(m.temperature, b, TemperatureFirst, TemperatureBits) = 0
  <1>1. b \in Nat /\ b <= 4 /\ b <= ChannelFirst /\ b <= ConstFirst /\ b <= HumidityFirst
        /\ b <= TemperatureFirst /\ 4 \in Nat
    BY FirstsNat, WidthsNat
  <1>2. Top(m.address, b, 4, AddressBits) = 0
    BY <1>1, TopNone, MessageFields, WidthsNat, FirstsNat, ModsNat, Zenon
  <1>3. Top(m.channel, b, ChannelFirst, ChannelBits) = 0
    BY <1>1, TopNone, MessageFields, WidthsNat, FirstsNat, ModsNat, Zenon
  <1>4. Top(m.wconst, b, ConstFirst, ConstBits) = 0
    BY <1>1, TopNone, MessageFields, WidthsNat, FirstsNat, ModsNat, Zenon
  <1>5. Top(m.humidity, b, HumidityFirst, HumidityBits) = 0
    BY <1>1, TopNone, MessageFields, WidthsNat, FirstsNat, ModsNat, Zenon
  <1>6. Top(m.temperature, b, TemperatureFirst, TemperatureBits) = 0
    <2>1. /\ WordMod \in Nat /\ TemperatureBits \in Nat /\ TemperatureFirst \in Nat
          /\ m.temperature \in Field(WordMod, TemperatureBits)
      BY MessageFields, WidthsNat, FirstsNat, ModsNat
    <2>2. QED
      BY <1>1, <2>1, TopNone, Zenon
  <1>7. QED
    BY <1>2, <1>3, <1>4, <1>5, <1>6

\* so what has been read in them is nothing.
LEMMA NothingRead ==
  ASSUME NEW m \in Messages, NEW c, NEW b \in 0 .. 4
  PROVE  Read(c, m, b) <=> /\ c.address = 0 /\ c.channel = 0 /\ c.wconst = 0
                           /\ c.humidity = 0 /\ c.temperature = 0
  BY NothingYet DEF Read

\* The whole frame says the message.
LEMMA ReadAll ==
  ASSUME NEW m \in Messages, NEW c, Read(c, m, FrameLength)
  PROVE  Says(c, m)
  <1>1. /\ FrameLength >= 4 + AddressBits /\ FrameLength >= ChannelFirst + ChannelBits
        /\ FrameLength >= ConstFirst + ConstBits /\ FrameLength >= HumidityFirst + HumidityBits
        /\ FrameLength >= TemperatureFirst + TemperatureBits /\ 4 \in Nat
    BY FirstsNat, WidthsNat
  <1>2. /\ Top(m.address, FrameLength, 4, AddressBits) = m.address
        /\ Top(m.channel, FrameLength, ChannelFirst, ChannelBits) = m.channel
        /\ Top(m.wconst, FrameLength, ConstFirst, ConstBits) = m.wconst
        /\ Top(m.humidity, FrameLength, HumidityFirst, HumidityBits) = m.humidity
        /\ Top(m.temperature, FrameLength, TemperatureFirst, TemperatureBits) = m.temperature
    BY <1>1, TopAll, MessageNat, WidthsNat, FirstsNat, SMTT(60)
  <1>3. QED
    BY <1>2 DEF Read, Says

\* The fields of the code, as the receiver holds them.
LEMMA CodeFields ==
  ASSUME NEW c \in Codes
  PROVE  /\ c.sync \in Byte /\ c.address \in Byte /\ c.channel \in Byte /\ c.wconst \in Byte
         /\ c.humidity \in Byte /\ c.temperature \in 0 .. WordMod - 1 /\ c.par \in 0 .. 1
         /\ DOMAIN c = {"sync", "address", "channel", "wconst", "humidity", "temperature", "par"}
         /\ c = [sync |-> c.sync, address |-> c.address, channel |-> c.channel,
                 wconst |-> c.wconst, humidity |-> c.humidity,
                 temperature |-> c.temperature, par |-> c.par]
  BY DEF Codes

\* The bit that is sent next.
BitOf(m, b) == IF FrameBits(m)[b + 1] = 1 THEN 1 ELSE 0

\* A bit more is heard in the field it was sent from.
LEMMA BitRead ==
  ASSUME NEW m \in Messages, NEW b \in 4 .. FrameLength - 1, NEW h \in {0, 1},
         code \in Codes, state = 2 * b + h, Read(code, m, b)
  PROVE  Read(WithBit(BitOf(m, b)), m, b + 1)
  <1> DEFINE bit == BitOf(m, b)
             c == WithBit(bit)
  <1>1. b \in Nat /\ 4 \in Nat /\ b >= 4 /\ b < FrameLength
    BY FirstsNat
  <1>2. CASE b < ChannelFirst
    <2>1. /\ state < AddressEnd
          /\ state \notin AddressEnd .. ChannelEnd - 1
          /\ state \notin ChannelEnd .. ConstEnd - 1
          /\ state \notin ConstEnd .. HumidityEnd - 1
          /\ state \notin HumidityEnd .. TemperatureEnd - 1
      BY <1>1, <1>2, Ends, FirstsNat, WidthsNat
    <2>2. c = [code EXCEPT !.address = Shift(@, bit, ByteMod), !.par = Xor(@, bit)]
      BY <2>1 DEF WithBit
    <2> HIDE DEF c, bit
    <2>3. /\ c.address = Shift(code.address, bit, ByteMod)
          /\ c.channel = code.channel /\ c.wconst = code.wconst /\ c.humidity = code.humidity /\ c.temperature = code.temperature
      BY <2>2, CodeFields
    <2>4. bit = RightShift(m.address, AddressBits - (b + 1 - 4)) % 2
      <3> DEFINE k == b + 1 - 4
      <3>1. k \in 1 .. AddressBits /\ 4 + k = b + 1
        BY <1>1, <1>2, FirstsNat, WidthsNat
      <3> HIDE DEF k
      <3>2. FrameBits(m)[b + 1] = RightShift(m.address, AddressBits - k) % 2
        BY <3>1, FrameBitsAre
      <3>3. AddressBits - k \in Nat /\ m.address \in Nat
        BY <3>1, WidthsNat, MessageNat
      <3>4. RightShift(m.address, AddressBits - k) % 2 \in {0, 1}
        BY <3>3, BitSent, Zenon
      <3>5. QED
        BY <3>2, <3>4 DEF bit, BitOf, k
    <2>5. Top(m.address, b + 1, 4, AddressBits)
            = Shift(Top(m.address, b, 4, AddressBits), bit, ByteMod)
      <3>1. b >= 4 /\ b < 4 + AddressBits
        BY <1>1, <1>2, FirstsNat, WidthsNat
      <3>2. Top(m.address, b + 1, 4, AddressBits)
              = Shift(Top(m.address, b, 4, AddressBits),
                      RightShift(m.address, AddressBits - (b + 1 - 4)) % 2, ByteMod)
        <4>1. /\ ByteMod \in Nat /\ ByteMod > 0 /\ m.address \in Field(ByteMod, AddressBits)
              /\ AddressBits \in Nat /\ 4 \in Nat /\ b \in Nat
          BY <1>1, MessageFields, ModsNat, FirstsNat, WidthsNat
        <4>2. QED
          BY <3>1, <4>1, TopNext, ZenonT(60)
      <3>3. QED
        BY <2>4, <3>2
    <2>6. /\ (b < ChannelFirst \/ b >= ChannelFirst + ChannelBits)
          /\ (b < ConstFirst \/ b >= ConstFirst + ConstBits)
          /\ (b < HumidityFirst \/ b >= HumidityFirst + HumidityBits)
          /\ (b < TemperatureFirst \/ b >= TemperatureFirst + TemperatureBits)
      BY <1>1, <1>2, FirstsNat, WidthsNat
    <2>7. /\ Top(m.channel, b + 1, ChannelFirst, ChannelBits) = Top(m.channel, b, ChannelFirst, ChannelBits)
          /\ Top(m.wconst, b + 1, ConstFirst, ConstBits) = Top(m.wconst, b, ConstFirst, ConstBits)
          /\ Top(m.humidity, b + 1, HumidityFirst, HumidityBits) = Top(m.humidity, b, HumidityFirst, HumidityBits)
          /\ Top(m.temperature, b + 1, TemperatureFirst, TemperatureBits) = Top(m.temperature, b, TemperatureFirst, TemperatureBits)
      BY <1>1, <2>6, TopSame, FirstsNat, WidthsNat
    <2>8. QED
      BY <2>3, <2>5, <2>7 DEF Read, c, bit
  <1>3. CASE b >= ChannelFirst /\ b < ConstFirst
    <2>1. /\ ~(state < AddressEnd)
          /\ state \in AddressEnd .. ChannelEnd - 1
          /\ state \notin ChannelEnd .. ConstEnd - 1
          /\ state \notin ConstEnd .. HumidityEnd - 1
          /\ state \notin HumidityEnd .. TemperatureEnd - 1
      BY <1>1, <1>3, Ends, FirstsNat, WidthsNat
    <2>2. c = [code EXCEPT !.channel = Shift(@, bit, ByteMod), !.par = Xor(@, bit)]
      BY <2>1 DEF WithBit
    <2> HIDE DEF c, bit
    <2>3. /\ c.channel = Shift(code.channel, bit, ByteMod)
          /\ c.address = code.address /\ c.wconst = code.wconst /\ c.humidity = code.humidity /\ c.temperature = code.temperature
      BY <2>2, CodeFields
    <2>4. bit = RightShift(m.channel, ChannelBits - (b + 1 - ChannelFirst)) % 2
      <3> DEFINE k == b + 1 - ChannelFirst
      <3>1. k \in 1 .. ChannelBits /\ ChannelFirst + k = b + 1
        BY <1>1, <1>3, FirstsNat, WidthsNat
      <3> HIDE DEF k
      <3>2. FrameBits(m)[b + 1] = RightShift(m.channel, ChannelBits - k) % 2
        BY <3>1, FrameBitsAre
      <3>3. ChannelBits - k \in Nat /\ m.channel \in Nat
        BY <3>1, WidthsNat, MessageNat
      <3>4. RightShift(m.channel, ChannelBits - k) % 2 \in {0, 1}
        BY <3>3, BitSent, Zenon
      <3>5. QED
        BY <3>2, <3>4 DEF bit, BitOf, k
    <2>5. Top(m.channel, b + 1, ChannelFirst, ChannelBits)
            = Shift(Top(m.channel, b, ChannelFirst, ChannelBits), bit, ByteMod)
      <3>1. b >= ChannelFirst /\ b < ChannelFirst + ChannelBits
        BY <1>1, <1>3, FirstsNat, WidthsNat
      <3>2. Top(m.channel, b + 1, ChannelFirst, ChannelBits)
              = Shift(Top(m.channel, b, ChannelFirst, ChannelBits),
                      RightShift(m.channel, ChannelBits - (b + 1 - ChannelFirst)) % 2, ByteMod)
        <4>1. /\ ByteMod \in Nat /\ ByteMod > 0 /\ m.channel \in Field(ByteMod, ChannelBits)
              /\ ChannelBits \in Nat /\ ChannelFirst \in Nat /\ b \in Nat
          BY <1>1, MessageFields, ModsNat, FirstsNat, WidthsNat
        <4>2. QED
          BY <3>1, <4>1, TopNext, ZenonT(60)
      <3>3. QED
        BY <2>4, <3>2
    <2>6. /\ (b < 4 \/ b >= 4 + AddressBits)
          /\ (b < ConstFirst \/ b >= ConstFirst + ConstBits)
          /\ (b < HumidityFirst \/ b >= HumidityFirst + HumidityBits)
          /\ (b < TemperatureFirst \/ b >= TemperatureFirst + TemperatureBits)
      BY <1>1, <1>3, FirstsNat, WidthsNat
    <2>7. /\ Top(m.address, b + 1, 4, AddressBits) = Top(m.address, b, 4, AddressBits)
          /\ Top(m.wconst, b + 1, ConstFirst, ConstBits) = Top(m.wconst, b, ConstFirst, ConstBits)
          /\ Top(m.humidity, b + 1, HumidityFirst, HumidityBits) = Top(m.humidity, b, HumidityFirst, HumidityBits)
          /\ Top(m.temperature, b + 1, TemperatureFirst, TemperatureBits) = Top(m.temperature, b, TemperatureFirst, TemperatureBits)
      BY <1>1, <2>6, TopSame, FirstsNat, WidthsNat
    <2>8. QED
      BY <2>3, <2>5, <2>7 DEF Read, c, bit
  <1>4. CASE b >= ConstFirst /\ b < HumidityFirst
    <2>1. /\ ~(state < AddressEnd)
          /\ state \notin AddressEnd .. ChannelEnd - 1
          /\ state \in ChannelEnd .. ConstEnd - 1
          /\ state \notin ConstEnd .. HumidityEnd - 1
          /\ state \notin HumidityEnd .. TemperatureEnd - 1
      BY <1>1, <1>4, Ends, FirstsNat, WidthsNat
    <2>2. c = [code EXCEPT !.wconst = Shift(@, bit, ByteMod), !.par = Xor(@, 1)]
      BY <2>1 DEF WithBit
    <2> HIDE DEF c, bit
    <2>3. /\ c.wconst = Shift(code.wconst, bit, ByteMod)
          /\ c.address = code.address /\ c.channel = code.channel /\ c.humidity = code.humidity /\ c.temperature = code.temperature
      BY <2>2, CodeFields
    <2>4. bit = RightShift(m.wconst, ConstBits - (b + 1 - ConstFirst)) % 2
      <3> DEFINE k == b + 1 - ConstFirst
      <3>1. k \in 1 .. ConstBits /\ ConstFirst + k = b + 1
        BY <1>1, <1>4, FirstsNat, WidthsNat
      <3> HIDE DEF k
      <3>2. FrameBits(m)[b + 1] = RightShift(m.wconst, ConstBits - k) % 2
        BY <3>1, FrameBitsAre
      <3>3. ConstBits - k \in Nat /\ m.wconst \in Nat
        BY <3>1, WidthsNat, MessageNat
      <3>4. RightShift(m.wconst, ConstBits - k) % 2 \in {0, 1}
        BY <3>3, BitSent, Zenon
      <3>5. QED
        BY <3>2, <3>4 DEF bit, BitOf, k
    <2>5. Top(m.wconst, b + 1, ConstFirst, ConstBits)
            = Shift(Top(m.wconst, b, ConstFirst, ConstBits), bit, ByteMod)
      <3>1. b >= ConstFirst /\ b < ConstFirst + ConstBits
        BY <1>1, <1>4, FirstsNat, WidthsNat
      <3>2. Top(m.wconst, b + 1, ConstFirst, ConstBits)
              = Shift(Top(m.wconst, b, ConstFirst, ConstBits),
                      RightShift(m.wconst, ConstBits - (b + 1 - ConstFirst)) % 2, ByteMod)
        <4>1. /\ ByteMod \in Nat /\ ByteMod > 0 /\ m.wconst \in Field(ByteMod, ConstBits)
              /\ ConstBits \in Nat /\ ConstFirst \in Nat /\ b \in Nat
          BY <1>1, MessageFields, ModsNat, FirstsNat, WidthsNat
        <4>2. QED
          BY <3>1, <4>1, TopNext, ZenonT(60)
      <3>3. QED
        BY <2>4, <3>2
    <2>6. /\ (b < 4 \/ b >= 4 + AddressBits)
          /\ (b < ChannelFirst \/ b >= ChannelFirst + ChannelBits)
          /\ (b < HumidityFirst \/ b >= HumidityFirst + HumidityBits)
          /\ (b < TemperatureFirst \/ b >= TemperatureFirst + TemperatureBits)
      BY <1>1, <1>4, FirstsNat, WidthsNat
    <2>7. /\ Top(m.address, b + 1, 4, AddressBits) = Top(m.address, b, 4, AddressBits)
          /\ Top(m.channel, b + 1, ChannelFirst, ChannelBits) = Top(m.channel, b, ChannelFirst, ChannelBits)
          /\ Top(m.humidity, b + 1, HumidityFirst, HumidityBits) = Top(m.humidity, b, HumidityFirst, HumidityBits)
          /\ Top(m.temperature, b + 1, TemperatureFirst, TemperatureBits) = Top(m.temperature, b, TemperatureFirst, TemperatureBits)
      BY <1>1, <2>6, TopSame, FirstsNat, WidthsNat
    <2>8. QED
      BY <2>3, <2>5, <2>7 DEF Read, c, bit
  <1>5. CASE b >= HumidityFirst /\ b < TemperatureFirst
    <2>1. /\ ~(state < AddressEnd)
          /\ state \notin AddressEnd .. ChannelEnd - 1
          /\ state \notin ChannelEnd .. ConstEnd - 1
          /\ state \in ConstEnd .. HumidityEnd - 1
          /\ state \notin HumidityEnd .. TemperatureEnd - 1
      BY <1>1, <1>5, Ends, FirstsNat, WidthsNat
    <2>2. c = [code EXCEPT !.humidity = Shift(@, bit, ByteMod), !.par = Xor(@, bit)]
      BY <2>1 DEF WithBit
    <2> HIDE DEF c, bit
    <2>3. /\ c.humidity = Shift(code.humidity, bit, ByteMod)
          /\ c.address = code.address /\ c.channel = code.channel /\ c.wconst = code.wconst /\ c.temperature = code.temperature
      BY <2>2, CodeFields
    <2>4. bit = RightShift(m.humidity, HumidityBits - (b + 1 - HumidityFirst)) % 2
      <3> DEFINE k == b + 1 - HumidityFirst
      <3>1. k \in 1 .. HumidityBits /\ HumidityFirst + k = b + 1
        BY <1>1, <1>5, FirstsNat, WidthsNat
      <3> HIDE DEF k
      <3>2. FrameBits(m)[b + 1] = RightShift(m.humidity, HumidityBits - k) % 2
        BY <3>1, FrameBitsAre
      <3>3. HumidityBits - k \in Nat /\ m.humidity \in Nat
        BY <3>1, WidthsNat, MessageNat
      <3>4. RightShift(m.humidity, HumidityBits - k) % 2 \in {0, 1}
        BY <3>3, BitSent, Zenon
      <3>5. QED
        BY <3>2, <3>4 DEF bit, BitOf, k
    <2>5. Top(m.humidity, b + 1, HumidityFirst, HumidityBits)
            = Shift(Top(m.humidity, b, HumidityFirst, HumidityBits), bit, ByteMod)
      <3>1. b >= HumidityFirst /\ b < HumidityFirst + HumidityBits
        BY <1>1, <1>5, FirstsNat, WidthsNat
      <3>2. Top(m.humidity, b + 1, HumidityFirst, HumidityBits)
              = Shift(Top(m.humidity, b, HumidityFirst, HumidityBits),
                      RightShift(m.humidity, HumidityBits - (b + 1 - HumidityFirst)) % 2, ByteMod)
        <4>1. /\ ByteMod \in Nat /\ ByteMod > 0 /\ m.humidity \in Field(ByteMod, HumidityBits)
              /\ HumidityBits \in Nat /\ HumidityFirst \in Nat /\ b \in Nat
          BY <1>1, MessageFields, ModsNat, FirstsNat, WidthsNat
        <4>2. QED
          BY <3>1, <4>1, TopNext, ZenonT(60)
      <3>3. QED
        BY <2>4, <3>2
    <2>6. /\ (b < 4 \/ b >= 4 + AddressBits)
          /\ (b < ChannelFirst \/ b >= ChannelFirst + ChannelBits)
          /\ (b < ConstFirst \/ b >= ConstFirst + ConstBits)
          /\ (b < TemperatureFirst \/ b >= TemperatureFirst + TemperatureBits)
      BY <1>1, <1>5, FirstsNat, WidthsNat
    <2>7. /\ Top(m.address, b + 1, 4, AddressBits) = Top(m.address, b, 4, AddressBits)
          /\ Top(m.channel, b + 1, ChannelFirst, ChannelBits) = Top(m.channel, b, ChannelFirst, ChannelBits)
          /\ Top(m.wconst, b + 1, ConstFirst, ConstBits) = Top(m.wconst, b, ConstFirst, ConstBits)
          /\ Top(m.temperature, b + 1, TemperatureFirst, TemperatureBits) = Top(m.temperature, b, TemperatureFirst, TemperatureBits)
      BY <1>1, <2>6, TopSame, FirstsNat, WidthsNat
    <2>8. QED
      BY <2>3, <2>5, <2>7 DEF Read, c, bit
  <1>6. CASE b >= TemperatureFirst /\ b < FrameLength - 1
    <2>1. /\ ~(state < AddressEnd)
          /\ state \notin AddressEnd .. ChannelEnd - 1
          /\ state \notin ChannelEnd .. ConstEnd - 1
          /\ state \notin ConstEnd .. HumidityEnd - 1
          /\ state \in HumidityEnd .. TemperatureEnd - 1
      BY <1>1, <1>6, Ends, FirstsNat, WidthsNat
    <2>2. c = [code EXCEPT !.temperature = Shift(@, bit, WordMod), !.par = Xor(@, bit)]
      BY <2>1 DEF WithBit
    <2> HIDE DEF c, bit
    <2>3. /\ c.temperature = Shift(code.temperature, bit, WordMod)
          /\ c.address = code.address /\ c.channel = code.channel /\ c.wconst = code.wconst /\ c.humidity = code.humidity
      BY <2>2, CodeFields
    <2>4. bit = RightShift(m.temperature, TemperatureBits - (b + 1 - TemperatureFirst)) % 2
      <3> DEFINE k == b + 1 - TemperatureFirst
      <3>1. k \in 1 .. TemperatureBits /\ TemperatureFirst + k = b + 1
        BY <1>1, <1>6, FirstsNat, WidthsNat
      <3> HIDE DEF k
      <3>2. FrameBits(m)[b + 1] = RightShift(m.temperature, TemperatureBits - k) % 2
        BY <3>1, FrameBitsAre
      <3>3. TemperatureBits - k \in Nat /\ m.temperature \in Nat
        BY <3>1, WidthsNat, MessageNat
      <3>4. RightShift(m.temperature, TemperatureBits - k) % 2 \in {0, 1}
        BY <3>3, BitSent, Zenon
      <3>5. QED
        BY <3>2, <3>4 DEF bit, BitOf, k
    <2>5. Top(m.temperature, b + 1, TemperatureFirst, TemperatureBits)
            = Shift(Top(m.temperature, b, TemperatureFirst, TemperatureBits), bit, WordMod)
      <3>1. b >= TemperatureFirst /\ b < TemperatureFirst + TemperatureBits
        BY <1>1, <1>6, FirstsNat, WidthsNat
      <3>2. Top(m.temperature, b + 1, TemperatureFirst, TemperatureBits)
              = Shift(Top(m.temperature, b, TemperatureFirst, TemperatureBits),
                      RightShift(m.temperature, TemperatureBits - (b + 1 - TemperatureFirst)) % 2, WordMod)
        <4>1. /\ WordMod \in Nat /\ WordMod > 0 /\ m.temperature \in Field(WordMod, TemperatureBits)
              /\ TemperatureBits \in Nat /\ TemperatureFirst \in Nat /\ b \in Nat
          BY <1>1, MessageFields, ModsNat, FirstsNat, WidthsNat
        <4>2. QED
          BY <3>1, <4>1, TopNext, ZenonT(60)
      <3>3. QED
        BY <2>4, <3>2
    <2>6. /\ (b < 4 \/ b >= 4 + AddressBits)
          /\ (b < ChannelFirst \/ b >= ChannelFirst + ChannelBits)
          /\ (b < ConstFirst \/ b >= ConstFirst + ConstBits)
          /\ (b < HumidityFirst \/ b >= HumidityFirst + HumidityBits)
      BY <1>1, <1>6, FirstsNat, WidthsNat
    <2>7. /\ Top(m.address, b + 1, 4, AddressBits) = Top(m.address, b, 4, AddressBits)
          /\ Top(m.channel, b + 1, ChannelFirst, ChannelBits) = Top(m.channel, b, ChannelFirst, ChannelBits)
          /\ Top(m.wconst, b + 1, ConstFirst, ConstBits) = Top(m.wconst, b, ConstFirst, ConstBits)
          /\ Top(m.humidity, b + 1, HumidityFirst, HumidityBits) = Top(m.humidity, b, HumidityFirst, HumidityBits)
      BY <1>1, <2>6, TopSame, FirstsNat, WidthsNat
    <2>8. QED
      BY <2>3, <2>5, <2>7 DEF Read, c, bit
  <1>7. CASE b = FrameLength - 1
    <2>1. /\ ~(state < AddressEnd) /\ state \notin AddressEnd .. ChannelEnd - 1
          /\ state \notin ChannelEnd .. ConstEnd - 1 /\ state \notin ConstEnd .. HumidityEnd - 1
          /\ state \notin HumidityEnd .. TemperatureEnd - 1
      BY <1>1, <1>7, Ends, FirstsNat, WidthsNat
    <2>2. c = [code EXCEPT !.par = Xor(@, bit)]
      BY <2>1 DEF WithBit
    <2> HIDE DEF c, bit
    <2>3. /\ c.address = code.address /\ c.channel = code.channel /\ c.wconst = code.wconst
          /\ c.humidity = code.humidity /\ c.temperature = code.temperature
      BY <2>2, CodeFields
    <2>4. /\ b >= 4 + AddressBits
          /\ b >= ChannelFirst + ChannelBits
          /\ b >= ConstFirst + ConstBits
          /\ b >= HumidityFirst + HumidityBits
          /\ b >= TemperatureFirst + TemperatureBits
      BY <1>1, <1>7, FirstsNat, WidthsNat
    <2>5. /\ Top(m.address, b + 1, 4, AddressBits) = Top(m.address, b, 4, AddressBits)
          /\ Top(m.channel, b + 1, ChannelFirst, ChannelBits) = Top(m.channel, b, ChannelFirst, ChannelBits)
          /\ Top(m.wconst, b + 1, ConstFirst, ConstBits) = Top(m.wconst, b, ConstFirst, ConstBits)
          /\ Top(m.humidity, b + 1, HumidityFirst, HumidityBits) = Top(m.humidity, b, HumidityFirst, HumidityBits)
          /\ Top(m.temperature, b + 1, TemperatureFirst, TemperatureBits) = Top(m.temperature, b, TemperatureFirst, TemperatureBits)
      BY <1>1, <2>4, TopSame, FirstsNat, WidthsNat
    <2>6. QED
      BY <2>3, <2>5 DEF Read, c, bit
  <1>8. QED
    BY <1>1, <1>2, <1>3, <1>4, <1>5, <1>6, <1>7, FirstsNat, WidthsNat

\* The receiver is in state s with code c after b bits of the frame of m, and h
\* halves of the next one.
Heard(s, c, m, b, h) ==
  /\ h = 1 => FrameBits(m)[b + 1] = 1
  /\ IF b = 0 /\ h = 0 THEN s = -1 ELSE s = 2 * b + h /\ Read(c, m, b)

\* The interval that a bit is made of.
NextInterval(g, m, b) == IF FrameBits(m)[b + 1] = 1 THEN Short(g) ELSE Long(g)

\* Whether the next interval is the last of its bit.
BitGoesOn(m, b, h) == FrameBits(m)[b + 1] = 1 /\ h = 0

LEMMA StartBitsHeard ==
  ASSUME NEW m \in Messages, NEW b \in 0 .. 3, NEW h \in {0, 1},
         code \in Codes, Heard(state, code, m, b, h),
         NEW g, NextInterval(g, m, b), Edge(g)
  PROVE  /\ called' = {}
         /\ IF BitGoesOn(m, b, h) THEN Heard(state', code', m, b, 1)
                                  ELSE Heard(state', code', m, b + 1, 0)
  <1>1. /\ FrameBits(m)[1] = 1 /\ FrameBits(m)[2] = 1
        /\ FrameBits(m)[3] = 0 /\ FrameBits(m)[4] = 0
    BY FrameBitsAre
  <1>2. b \in 0 .. 4 /\ b + 1 \in 0 .. 4
    OBVIOUS
  <1>3. CASE b = 0 /\ h = 0
    <2>1. FrameBits(m)[b + 1] = 1 /\ state = -1
      BY <1>1, <1>3 DEF Heard
    <2>2. Short(g)
      BY <2>1 DEF NextInterval
    <2>3. state' = 1 /\ code' = [Cleared EXCEPT !.sync = 1] /\ called' = {}
      BY <2>1, <2>2, FirstHalf
    <2>4. /\ code'.address = 0 /\ code'.channel = 0 /\ code'.wconst = 0
          /\ code'.humidity = 0 /\ code'.temperature = 0
      BY <2>3 DEF Cleared
    <2>5. Read(code', m, b)
      BY <1>2, <2>4, NothingRead
    <2>6. QED
      BY <1>3, <2>1, <2>3, <2>5 DEF Heard, BitGoesOn
  <1>4. CASE b \in 0 .. 1 /\ ~(b = 0 /\ h = 0)
    <2>1. FrameBits(m)[b + 1] = 1 /\ state = 2 * b + h /\ Read(code, m, b)
      BY <1>1, <1>4 DEF Heard
    <2>2. Short(g)
      BY <2>1 DEF NextInterval
    <2>3. state \in 0 .. 3
      BY <1>4, <2>1
    <2>4. /\ state' = state + 1 /\ called' = {}
          /\ code' = code \/ code' = [code EXCEPT !.sync = (4 * @) % ByteMod, !.par = 1 - @]
      BY <2>2, <2>3, StartHalf
    <2>5. /\ code'.address = 0 /\ code'.channel = 0 /\ code'.wconst = 0
          /\ code'.humidity = 0 /\ code'.temperature = 0
      <3>1. /\ code.address = 0 /\ code.channel = 0 /\ code.wconst = 0
            /\ code.humidity = 0 /\ code.temperature = 0
        BY <1>2, <2>1, NothingRead
      <3>2. QED
        BY <2>4, <3>1, CodeFields
    <2>6. Read(code', m, b) /\ Read(code', m, b + 1)
      BY <1>2, <2>5, NothingRead
    <2>7. QED
      BY <1>4, <2>1, <2>4, <2>6 DEF Heard, BitGoesOn
  <1>5. CASE b \in 2 .. 3
    <2>1. FrameBits(m)[b + 1] = 0
      <3>1. b = 2 \/ b = 3
        BY <1>5
      <3>2. QED
        BY <1>1, <3>1
    <2>2. h = 0 /\ state = 2 * b /\ Read(code, m, b)
      BY <1>5, <2>1 DEF Heard
    <2>3. Long(g)
      BY <2>1 DEF NextInterval
    <2>4. state \in 4 .. 7
      BY <1>5, <2>2
    <2>5. state' = state + 2 /\ called' = {} /\ code' = [code EXCEPT !.sync = (2 * @) % ByteMod]
      BY <2>3, <2>4, StartLong
    <2>6. /\ code'.address = 0 /\ code'.channel = 0 /\ code'.wconst = 0
          /\ code'.humidity = 0 /\ code'.temperature = 0
      <3>1. /\ code.address = 0 /\ code.channel = 0 /\ code.wconst = 0
            /\ code.humidity = 0 /\ code.temperature = 0
        BY <1>2, <2>2, NothingRead
      <3>2. QED
        BY <2>5, <3>1, CodeFields
    <2>7. Read(code', m, b + 1)
      BY <1>2, <2>6, NothingRead
    <2>8. QED
      BY <1>5, <2>1, <2>2, <2>5, <2>7 DEF Heard, BitGoesOn
  <1>6. QED
    BY <1>3, <1>4, <1>5

LEMMA DataBitsHeard ==
  ASSUME NEW m \in Messages, NEW b \in 4 .. FrameLength - 1, NEW h \in {0, 1},
         code \in Codes, Heard(state, code, m, b, h),
         NEW g, NextInterval(g, m, b), Edge(g)
  PROVE  \/ /\ BitGoesOn(m, b, h) \/ b + 1 < FrameLength
            /\ called' = {}
            /\ IF BitGoesOn(m, b, h) THEN Heard(state', code', m, b, 1)
                                     ELSE Heard(state', code', m, b + 1, 0)
         \/ \E c : Complete(c) /\ Read(c, m, FrameLength)
  <1>1. /\ b \in Nat /\ b >= 4 /\ b + 1 <= FrameLength /\ FrameLength \in Nat
        /\ FrameEnd = 2 * FrameLength
    BY FirstsNat, Ends
  <1>2. h = 1 => FrameBits(m)[b + 1] = 1
    BY DEF Heard
  <1>3. state = 2 * b + h /\ Read(code, m, b)
    BY <1>1 DEF Heard
  <1>4. state \in Nat /\ state >= 8
    BY <1>1, <1>3
  <1>5. Short(g) \/ Long(g)
    BY DEF NextInterval
  <1>6. \/ /\ LastHalf(g) + 1 < FrameEnd
           /\ state' = LastHalf(g) + 1 /\ code' = WithInterval(g) /\ called' = {}
        \/ LastHalf(g) + 1 >= FrameEnd /\ Complete(WithInterval(g))
    BY <1>4, <1>5, DataHeard
  <1>7. CASE BitGoesOn(m, b, h)
    <2>1. FrameBits(m)[b + 1] = 1 /\ h = 0 /\ state = 2 * b
      BY <1>1, <1>3, <1>7 DEF BitGoesOn
    <2>2. ~IsLong(g)
      BY <2>1, HalfCounts DEF NextInterval
    <2>3. LastHalf(g) = state /\ ~Odd(state)
      BY <1>1, <2>1, <2>2 DEF LastHalf, Odd
    <2>4. WithInterval(g) = code
      BY <2>2, <2>3 DEF WithInterval, BitEnds
    <2>5. LastHalf(g) + 1 < FrameEnd
      BY <1>1, <2>1, <2>3
    <2>6. state' = 2 * b + 1 /\ code' = code /\ called' = {}
      BY <1>1, <1>6, <2>1, <2>3, <2>4, <2>5
    <2>7. Heard(state', code', m, b, 1)
      BY <1>1, <1>3, <2>1, <2>6 DEF Heard
    <2>8. QED
      BY <1>7, <2>6, <2>7
  <1>8. CASE ~ BitGoesOn(m, b, h)
    <2>1. /\ LastHalf(g) = 2 * b + 1 /\ BitEnds(g) /\ Bit(g) = BitOf(m, b)
      <3>1. CASE FrameBits(m)[b + 1] = 1
        <4>1. h = 1 /\ ~IsLong(g)
          BY <1>8, <3>1, HalfCounts DEF BitGoesOn, NextInterval
        <4>2. LastHalf(g) = 2 * b + 1 /\ state = 2 * b + 1
          BY <1>3, <4>1 DEF LastHalf
        <4>3. Odd(2 * b + 1)
          BY <1>1 DEF Odd
        <4>4. QED
          BY <3>1, <4>1, <4>2, <4>3 DEF BitEnds, Bit, BitOf
      <3>2. CASE FrameBits(m)[b + 1] /= 1
        <4>1. h = 0 /\ IsLong(g)
          BY <1>2, <3>2, LongCounts DEF NextInterval
        <4>2. LastHalf(g) = 2 * b + 1
          BY <1>1, <1>3, <4>1 DEF LastHalf
        <4>3. Odd(2 * b + 1)
          BY <1>1 DEF Odd
        <4>4. QED
          BY <3>2, <4>1, <4>2, <4>3 DEF BitEnds, Bit, BitOf
      <3>3. QED
        BY <3>1, <3>2
    <2>2. WithInterval(g) = WithBit(BitOf(m, b))
      BY <2>1 DEF WithInterval
    <2>3. Read(WithBit(BitOf(m, b)), m, b + 1)
      BY <1>3, BitRead
    <2>4. CASE b + 1 < FrameLength
      <3>1. LastHalf(g) + 1 < FrameEnd /\ LastHalf(g) + 1 = 2 * (b + 1)
        BY <1>1, <2>1, <2>4
      <3>2. state' = 2 * (b + 1) /\ Read(code', m, b + 1) /\ called' = {}
        BY <1>1, <1>6, <2>2, <2>3, <3>1
      <3>3. Heard(state', code', m, b + 1, 0)
        BY <1>1, <3>2 DEF Heard
      <3>4. QED
        BY <1>8, <2>4, <3>2, <3>3
    <2>5. CASE b + 1 = FrameLength
      <3>1. LastHalf(g) + 1 = FrameEnd
        BY <1>1, <2>1, <2>5
      <3>2. Complete(WithInterval(g))
        BY <1>1, <1>6, <3>1
      <3>3. QED
        BY <2>2, <2>3, <2>5, <3>2
    <2>6. QED
      BY <1>1, <2>4, <2>5
  <1>9. QED
    BY <1>7, <1>8

--------------------------------------------------------------------------------
(* Types.                                                                  *)

ReceiverType ==
  /\ state \in -1 .. FrameEnd - 1
  /\ code \in Codes /\ previous \in Codes /\ repeats \in Byte

\* The receiver counts the half bits of one frame, its fields are bytes and a
\* word, and what is on the air are times.
TypeOK ==
  /\ ReceiverType
  /\ air \in Seq(Nat)
  /\ sends \in Seq(SentMessages) /\ hit \in BOOLEAN
  /\ shifts \in 0 .. MaxShifts /\ delivered \in Nat

LEMMA ByteNat == Byte = 0 .. ByteMod - 1 /\ 0 \in Byte /\ 1 \in Byte
  BY ModsNat DEF Byte

LEMMA ShiftInMod ==
  ASSUME NEW mod \in Nat, mod > 0, NEW v \in Nat, NEW b \in {0, 1}
  PROVE  Shift(v, b, mod) \in 0 .. mod - 1
  <1>1. 2 * v + b \in Nat
    OBVIOUS
  <1>2. QED
    BY <1>1 DEF Shift

LEMMA ShiftInByte ==
  ASSUME NEW v \in Byte, NEW b \in {0, 1}
  PROVE  Shift(v, b, ByteMod) \in Byte
  <1>1. v \in Nat /\ ByteMod \in Nat /\ ByteMod > 0
    BY ByteNat, ModsNat
  <1>2. QED
    BY <1>1, ShiftInMod, ByteNat

LEMMA ByteOf == ASSUME NEW v \in Nat PROVE v % ByteMod \in Byte
  BY ByteNat, ModsNat

LEMMA XorBit == ASSUME NEW a \in 0 .. 1, NEW b \in 0 .. 1 PROVE Xor(a, b) \in 0 .. 1
  BY DEF Xor

LEMMA ClearedType == Cleared \in Codes
  <1>1. 0 \in Byte /\ 0 \in 0 .. WordMod - 1 /\ 0 \in 0 .. 1
    BY ByteNat, ModsNat
  <1>2. QED
    BY <1>1 DEF Cleared, Codes

LEMMA WithBitType ==
  ASSUME code \in Codes, NEW b \in {0, 1}
  PROVE  WithBit(b) \in Codes
  <1> DEFINE p == Xor(code.par, b)
             q == Xor(code.par, 1)
             a == [code EXCEPT !.address = Shift(code.address, b, ByteMod), !.par = p]
             c == [code EXCEPT !.channel = Shift(code.channel, b, ByteMod), !.par = p]
             w == [code EXCEPT !.wconst = Shift(code.wconst, b, ByteMod), !.par = q]
             h == [code EXCEPT !.humidity = Shift(code.humidity, b, ByteMod), !.par = p]
             t == [code EXCEPT !.temperature = Shift(code.temperature, b, WordMod), !.par = p]
             o == [code EXCEPT !.par = p]
  <1>1. p \in 0 .. 1 /\ q \in 0 .. 1
    BY CodeFields, XorBit
  <1>2. /\ Shift(code.address, b, ByteMod) \in Byte /\ Shift(code.channel, b, ByteMod) \in Byte
        /\ Shift(code.wconst, b, ByteMod) \in Byte /\ Shift(code.humidity, b, ByteMod) \in Byte
    BY CodeFields, ShiftInByte
  <1>3. Shift(code.temperature, b, WordMod) \in 0 .. WordMod - 1
    <2>1. code.temperature \in Nat /\ WordMod \in Nat /\ WordMod > 0
      BY CodeFields, ModsNat
    <2>2. QED
      BY <2>1, ShiftInMod
  <1> HIDE DEF p, q
  <1>4. a \in Codes
    BY <1>1, <1>2 DEF Codes
  <1>5. c \in Codes
    BY <1>1, <1>2 DEF Codes
  <1>6. w \in Codes
    BY <1>1, <1>2 DEF Codes
  <1>7. h \in Codes
    BY <1>1, <1>2 DEF Codes
  <1>8. t \in Codes
    BY <1>1, <1>3 DEF Codes
  <1>9. o \in Codes
    BY <1>1 DEF Codes
  <1>10. WithBit(b) = CASE state < AddressEnd -> a
                        [] state \in AddressEnd .. ChannelEnd - 1 -> c
                        [] state \in ChannelEnd .. ConstEnd - 1 -> w
                        [] state \in ConstEnd .. HumidityEnd - 1 -> h
                        [] state \in HumidityEnd .. TemperatureEnd - 1 -> t
                        [] OTHER -> o
    BY DEF WithBit, p, q
  <1> HIDE DEF a, c, w, h, t, o
  <1>11. QED
    BY <1>4, <1>5, <1>6, <1>7, <1>8, <1>9, <1>10

LEMMA WithIntervalType ==
  ASSUME code \in Codes, NEW g
  PROVE  WithInterval(g) \in Codes
  BY WithBitType DEF WithInterval, Bit

LEMMA CompleteType ==
  ASSUME ReceiverType, NEW c \in Codes, Complete(c)
  PROVE  ReceiverType'
  <1>1. (repeats + 1) % ByteMod \in Byte /\ 1 \in Byte
    BY ByteNat, ModsNat DEF ReceiverType
  <1>2. repeats' \in Byte /\ previous' \in Codes
    BY <1>1 DEF Complete, ReceiverType
  <1>3. state' \in {-1, 0} /\ code' \in Codes
    BY ClearedType DEF Complete
  <1>4. FrameEnd \in Nat /\ FrameEnd > 0
    BY Ends, FirstsNat, WidthsNat
  <1>5. QED
    BY <1>2, <1>3, <1>4 DEF ReceiverType

LEMMA ResetType == ASSUME ReceiverType, Reset PROVE ReceiverType'
  <1>1. -1 \in -1 .. FrameEnd - 1
    BY Ends, FirstsNat
  <1>2. QED
    BY <1>1, ClearedType DEF ReceiverType, Reset

LEMMA EdgeType ==
  ASSUME ReceiverType, NEW g, Edge(g)
  PROVE  ReceiverType'
  <1>1. FrameEnd \in Nat /\ FrameEnd >= 10 /\ state \in Int /\ state >= -1 /\ state < FrameEnd
    BY Ends, FirstsNat, WidthsNat DEF ReceiverType
  <1>2. CASE EdgeTooEarly(g)
    BY <1>2, ResetType DEF EdgeTooEarly
  <1>3. CASE Silence(g)
    BY <1>3, ResetType DEF Silence
  <1>4. CASE Start(g)
    <2>1. [Cleared EXCEPT !.sync = 1] \in Codes
      BY ClearedType, ByteNat DEF Codes
    <2>2. state' = 1 /\ code' \in Codes /\ UNCHANGED <<previous, repeats>>
      BY <1>4, <2>1 DEF Start
    <2>3. QED
      BY <1>1, <2>2 DEF ReceiverType
  <1>5. CASE Wait(g)
    BY <1>5 DEF Wait, ReceiverType
  <1>6. CASE StartBitOne(g)
    <2>1. (4 * code.sync) % ByteMod \in Byte /\ 1 - code.par \in 0 .. 1
      <3>1. code.sync \in Byte /\ code.par \in 0 .. 1
        BY CodeFields DEF ReceiverType
      <3>2. 4 * code.sync \in Nat /\ 1 - code.par \in 0 .. 1
        BY <3>1, ByteNat, ModsNat
      <3>3. QED
        BY <3>2, ByteOf
    <2>2. [code EXCEPT !.sync = (4 * code.sync) % ByteMod, !.par = 1 - code.par] \in Codes
      BY <2>1 DEF ReceiverType, Codes
    <2>3. code' \in Codes
      BY <1>6, <2>2 DEF StartBitOne, ReceiverType
    <2>4. state' = state + 1 /\ state \in 0 .. 3 /\ UNCHANGED <<previous, repeats>>
      BY <1>6 DEF StartBitOne
    <2>5. QED
      BY <1>1, <2>3, <2>4 DEF ReceiverType
  <1>7. CASE StartBitZero(g)
    <2>1. (2 * code.sync) % ByteMod \in Byte
      <3>1. code.sync \in Byte
        BY CodeFields DEF ReceiverType
      <3>2. 2 * code.sync \in Nat
        BY <3>1, ByteNat, ModsNat
      <3>3. QED
        BY <3>2, ByteOf
    <2>2. [code EXCEPT !.sync = (2 * code.sync) % ByteMod] \in Codes
      BY <2>1 DEF ReceiverType, Codes
    <2>3. code' \in Codes
      BY <1>7, <2>2 DEF StartBitZero
    <2>4. state' = state + 2 /\ state \in 4 .. 7 /\ UNCHANGED <<previous, repeats>>
      BY <1>7 DEF StartBitZero
    <2>5. QED
      BY <1>1, <2>3, <2>4 DEF ReceiverType
  <1>8. CASE StartBitWrong(g)
    BY <1>8, ResetType DEF StartBitWrong
  <1>9. CASE DataInterval(g)
    <2>1. code' \in Codes
      BY <1>9, WithIntervalType DEF DataInterval, ReceiverType
    <2>2. /\ state' = LastHalf(g) + 1 /\ LastHalf(g) + 1 < FrameEnd
          /\ UNCHANGED <<previous, repeats>>
      BY <1>9 DEF DataInterval
    <2>3. LastHalf(g) \in Int /\ LastHalf(g) >= -1
      BY <1>1 DEF LastHalf
    <2>4. QED
      BY <1>1, <2>1, <2>2, <2>3 DEF ReceiverType
  <1>10. CASE LastInterval(g)
    <2>1. WithInterval(g) \in Codes
      BY WithIntervalType DEF ReceiverType
    <2>2. QED
      BY <1>10, <2>1, CompleteType DEF LastInterval
  <1>11. QED
    BY <1>2, <1>3, <1>4, <1>5, <1>6, <1>7, <1>8, <1>9, <1>10 DEF Edge

LEMMA SentAreMessages == SentMessages \subseteq Messages /\ Idles \subseteq Nat
  BY LinkAssumption DEF LinkAssumption

LEMMA InitTyped == LinkInit => TypeOK
  <1> SUFFICES ASSUME LinkInit PROVE TypeOK
    OBVIOUS
  <1>1. -1 \in -1 .. FrameEnd - 1
    BY Ends, FirstsNat
  <1>2. MaxShifts \in Nat
    BY LinkAssumption DEF LinkAssumption
  <1>3. ReceiverType
    BY <1>1, ClearedType, ByteNat DEF LinkInit, Init, ReceiverType
  <1>4. air \in Seq(Nat) /\ sends \in Seq(SentMessages)
    BY DEF LinkInit
  <1>5. hit \in BOOLEAN
    BY DEF LinkInit
  <1>6. shifts \in 0 .. MaxShifts /\ delivered \in Nat
    BY <1>2 DEF LinkInit
  <1>7. QED
    BY <1>3, <1>4, <1>5, <1>6 DEF TypeOK

LEMMA TypedInductive == TypeOK /\ [LinkNext]_linkVars => TypeOK'
  <1> SUFFICES ASSUME TypeOK, [LinkNext]_linkVars PROVE TypeOK'
    OBVIOUS
  <1>1. ASSUME NEW m \in SentMessages, NEW idle \in Idles, Send(m, idle) PROVE TypeOK'
    <2>1. MessageUsec(m, idle) \in Seq(Nat)
      BY SentAreMessages, MessageBegins
    <2>2. air' \in Seq(Nat)
      BY <1>1, <2>1 DEF Send
    <2>3. sends' \in Seq(SentMessages) /\ delivered' \in Nat /\ shifts' = shifts
      BY <1>1 DEF Send, TypeOK
    <2>4. hit' \in BOOLEAN
      BY <1>1 DEF Send
    <2>5. ReceiverType'
      BY <1>1 DEF Send, TypeOK, ReceiverType
    <2>6. QED
      BY <2>2, <2>3, <2>4, <2>5 DEF TypeOK
  <1>2. CASE Arrive
    <2>1. ReceiverType'
      BY <1>2, EdgeType DEF Arrive, TypeOK
    <2>2. /\ air' \in Seq(Nat) /\ delivered' \in Nat
          /\ UNCHANGED <<sends, hit, shifts>>
      BY <1>2 DEF Arrive, Count, TypeOK
    <2>3. QED
      BY <2>1, <2>2 DEF TypeOK
  <1>3. ASSUME NEW e \in Glitches, Glitch(e) PROVE TypeOK'
    <2>1. e \in Nat /\ air \in Seq(Nat) /\ air /= <<>>
      BY <1>3, LinkAssumption DEF LinkAssumption, Glitch, TypeOK
    <2>2. Head(air) \in Nat /\ Tail(air) \in Seq(Nat)
      BY <2>1
    <2>3. PICK g \in {e, Head(air) \div 2, Head(air) - 2 * e} :
            g > 0 /\ g + e < Head(air) /\ air' = <<g, e, Head(air) - g - e>> \o Tail(air)
      BY <1>3 DEF Glitch
    <2>4. g \in Nat /\ Head(air) - g - e \in Nat
      BY <2>1, <2>2, <2>3, SMTT(60)
    <2>5. air' \in Seq(Nat)
      BY <2>1, <2>2, <2>3, <2>4
    <2>6. /\ hit' \in BOOLEAN
          /\ UNCHANGED <<state, code, previous, repeats, sends, shifts, delivered>>
      BY <1>3 DEF Glitch, InFirstFrame, TypeOK
    <2>7. QED
      BY <2>5, <2>6 DEF TypeOK, ReceiverType
  <1>4. ASSUME NEW d \in Shifts, Displace(d) PROVE TypeOK'
    <2>1. d \in Int /\ air \in Seq(Nat) /\ Len(air) > 1
      BY <1>4, LinkAssumption DEF LinkAssumption, Displace, TypeOK
    <2>2. /\ air[1] \in Nat /\ air[2] \in Nat /\ air[1] + d > 0 /\ air[2] - d > 0
          /\ air' = [air EXCEPT ![1] = air[1] + d, ![2] = air[2] - d]
      BY <1>4, <2>1 DEF Displace
    <2>3. air[1] + d \in Nat /\ air[2] - d \in Nat
      BY <2>1, <2>2
    <2>4. air' \in Seq(Nat)
      BY <2>1, <2>2, <2>3
    <2>5. /\ shifts' \in 0 .. MaxShifts
          /\ UNCHANGED <<state, code, previous, repeats, sends, hit, delivered>>
      BY <1>4, LinkAssumption DEF LinkAssumption, Displace, TypeOK
    <2>6. QED
      BY <2>4, <2>5 DEF TypeOK, ReceiverType
  <1>5. ASSUME NEW g \in Gaps, Noise(g) PROVE TypeOK'
    <2>1. ReceiverType'
      BY <1>5, EdgeType DEF Noise, TypeOK
    <2>2. QED
      BY <1>5, <2>1 DEF Noise, TypeOK
  <1>6. CASE UNCHANGED linkVars
    BY <1>6 DEF linkVars, receiverVars, TypeOK, ReceiverType
  <1>7. QED
    BY <1>1, <1>2, <1>3, <1>4, <1>5, <1>6 DEF LinkNext

\* In every behaviour the receiver stays within the frame that it counts, and
\* what it has counted and read fits the bytes and the word it keeps them in.
THEOREM TypeCorrect == LinkSpec => []TypeOK
  BY InitTyped, TypedInductive, PTL DEF LinkSpec

--------------------------------------------------------------------------------
(* The first frame of a message.                                           *)

\* The longest shift, and an interval that n shifts may have changed.
Most == CHOOSE most \in 0 .. Tolerance :
          most * MaxShifts <= Tolerance /\ \A d \in Shifts : -most <= d /\ d <= most
Near(g, usec, n) == usec - Most * n <= g /\ g <= usec + Most * n

\* The intervals a that are still to come are the rest of m, n shifts later, and
\* the receiver, in state s and with code c, has heard those of its first frame
\* that are gone.
Coming(m, idle, a, s, c, n) ==
  LET usec == MessageUsec(m, idle)
      gone == Len(usec) - Len(a)
  IN  /\ gone \in 0 .. Len(FrameUsec(m))
      /\ \A j \in 1 .. Len(a) : Near(a[j], usec[gone + j], n)
      /\ gone > 0 => \E b \in 0 .. FrameLength - 1, h \in {0, 1} :
                        gone = 1 + Intervals(m, b) + h /\ Heard(s, c, m, b, h)

\* The inductive invariant: as long as a message that is not hit has not been
\* delivered, its first frame is being heard.
FirstFrameHeard ==
  sends /= <<>> /\ ~hit /\ delivered = 0 =>
    \E idle \in Idles : Coming(Last(sends), idle, air, state, code, shifts)

LEMMA MostIs ==
  ASSUME InTolerance
  PROVE  /\ Most \in Nat /\ Most * MaxShifts <= Tolerance
         /\ \A d \in Shifts : -Most <= d /\ d <= Most
  BY DEF InTolerance, Most, Tolerance

\* Shifts add up to the tolerance at most.
LEMMA NearBound ==
  ASSUME InTolerance, NEW n \in 0 .. MaxShifts, NEW g \in Nat, NEW usec \in Nat,
         Near(g, usec, n)
  PROVE  usec - Tolerance <= g /\ g <= usec + Tolerance
  <1>1. MaxShifts \in Nat /\ n \in Nat /\ n <= MaxShifts
    BY LinkAssumption DEF LinkAssumption
  <1>2. Most \in Nat /\ Most * MaxShifts <= Tolerance
    BY MostIs
  <1>3. Most * n <= Most * MaxShifts /\ Most * n \in Nat /\ Most * MaxShifts \in Nat
    BY <1>1, <1>2
  <1>4. QED
    BY <1>2, <1>3 DEF Near, Tolerance

LEMMA NearOnce ==
  ASSUME InTolerance, NEW n \in Nat, NEW g \in Nat, NEW usec \in Nat, Near(g, usec, n),
         NEW x \in Int, -Most <= x, x <= Most
  PROVE  Near(g + x, usec, n + 1)
  <1>1. Most \in Nat /\ Most * n \in Nat
    BY MostIs
  <1>2. Most * (n + 1) = Most * n + Most
    BY <1>1
  <1>3. QED
    BY <1>1, <1>2 DEF Near

LEMMA NearAtFirst ==
  ASSUME InTolerance, NEW n \in Nat, NEW g \in Nat
  PROVE  Near(g, g, n)
  <1>1. Most * n \in Nat
    BY MostIs
  <1>2. QED
    BY <1>1 DEF Near

LEMMA NearHalf ==
  ASSUME InTolerance, NEW n \in 0 .. MaxShifts, NEW g \in Nat, Near(g, PULSE1, n)
  PROVE  Short(g)
  <1>1. PULSE1 - Tolerance <= g /\ g <= PULSE1 + Tolerance
    BY NearBound DEF PULSE1
  <1>2. QED
    BY <1>1 DEF Short, PULSE1, Tolerance, min1period, max1period

LEMMA NearLong ==
  ASSUME InTolerance, NEW n \in 0 .. MaxShifts, NEW g \in Nat, Near(g, PULSE0, n)
  PROVE  Long(g)
  <1>1. PULSE0 - Tolerance <= g /\ g <= PULSE0 + Tolerance
    BY NearBound DEF PULSE0
  <1>2. QED
    BY <1>1 DEF Long, PULSE0, Tolerance, min2period, max2period

\* What is added to a number without a carry is added to its remainder.
LEMMA NoCarry ==
  ASSUME NEW mod \in Nat, mod > 0, NEW v \in Int, NEW x \in Int,
         (v % mod) + x >= 0, (v % mod) + x < mod
  PROVE  (v + x) % mod = (v % mod) + x
  BY SMTT(30)

\* An interval that resets the receiver wherever it is, even if it is shifted.
Silent(usec) ==
  \A g \in Nat : usec - Tolerance <= g /\ g <= usec + Tolerance =>
    g < min1period \/ Duration(g) > max2period

LEMMA IdleIsSilent ==
  ASSUME InTolerance, NEW idle \in Idles
  PROVE  Silent(idle)
  <1>1. idle \in Nat
    BY SentAreMessages
  <1>2. SUFFICES ASSUME NEW g \in Nat, idle - Tolerance <= g, g <= idle + Tolerance
                 PROVE  g < min1period \/ Duration(g) > max2period
    BY DEF Silent
  <1>3. CASE idle + Tolerance < min1period
    BY <1>1, <1>2, <1>3 DEF Tolerance, min1period
  <1>4. CASE idle % WordMod \in max2period + Tolerance + 1 .. WordMod - 1 - Tolerance
    <2>1. (idle % WordMod) + (g - idle) \in max2period + 1 .. WordMod - 1
      BY <1>1, <1>2, <1>4, ModsNat DEF Tolerance, max2period
    <2>2. g % WordMod = (idle % WordMod) + (g - idle)
      <3>1. /\ (idle % WordMod) + (g - idle) >= 0 /\ (idle % WordMod) + (g - idle) < WordMod
            /\ WordMod \in Nat /\ WordMod > 0 /\ idle \in Int /\ g - idle \in Int
        BY <1>1, <2>1, ModsNat DEF max2period
      <3>2. (idle + (g - idle)) % WordMod = (idle % WordMod) + (g - idle)
        BY <3>1, NoCarry
      <3>3. idle + (g - idle) = g
        BY <1>1
      <3>4. QED
        BY <3>2, <3>3
    <2>3. QED
      BY <1>1, <2>1, <2>2, ModsNat DEF max2period, Duration
  <1>5. QED
    BY <1>3, <1>4 DEF InTolerance

LEMMA NearSilence ==
  ASSUME InTolerance, NEW n \in 0 .. MaxShifts, NEW usec \in Nat, Silent(usec), NEW g \in Nat,
         Near(g, usec, n)
  PROVE  g < min1period \/ Duration(g) > max2period
  BY NearBound DEF Silent

\* Which interval comes next, and what is gone after it.
LEMMA NextIntervalSent ==
  ASSUME NEW m \in Messages, NEW b \in 0 .. FrameLength - 1, NEW h \in {0, 1},
         h = 1 => FrameBits(m)[b + 1] = 1,
         NEW gone, gone = 1 + Intervals(m, b) + h
  PROVE  /\ gone \in 1 .. Len(FrameUsec(m))
         /\ FrameUsec(m)[gone] = IF FrameBits(m)[b + 1] = 1 THEN PULSE1 ELSE PULSE0
         /\ BitGoesOn(m, b, h) =>
              gone + 1 = 1 + Intervals(m, b) + 1 /\ gone + 1 <= Len(FrameUsec(m))
         /\ ~ BitGoesOn(m, b, h) => gone + 1 = 1 + Intervals(m, b + 1) + 0
         /\ ~ BitGoesOn(m, b, h) /\ b + 1 < FrameLength => gone + 1 <= Len(FrameUsec(m))
  <1> DEFINE i == Intervals(m, b)
             j == Intervals(m, b + 1)
             f == FrameUsec(m)
             one == FrameBits(m)[b + 1] = 1
  <1>1. /\ i \in Nat /\ j <= Len(f)
        /\ one => j = i + 2 /\ f[i + 1] = PULSE1 /\ f[i + 2] = PULSE1
        /\ ~ one => j = i + 1 /\ f[i + 1] = PULSE0
    BY IntervalsOfBit
  <1>2. Len(f) \in Nat
    BY FrameEndsWithItsBits
  <1>3. b + 1 < FrameLength => j + 1 <= Len(f)
    <2>1. SUFFICES ASSUME b + 1 < FrameLength PROVE j + 1 <= Len(f)
      OBVIOUS
    <2>2. b + 1 \in 0 .. FrameLength - 1
      BY <2>1, FirstsNat
    <2>3. Intervals(m, (b + 1) + 1) <= Len(f) /\ Intervals(m, (b + 1) + 1) >= j + 1 /\ j \in Nat
      <3> HIDE DEF f
      <3>1. /\ j \in Nat /\ Intervals(m, (b + 1) + 1) <= Len(f)
            /\ \/ Intervals(m, (b + 1) + 1) = j + 2
               \/ Intervals(m, (b + 1) + 1) = j + 1
        BY <2>2, IntervalsOfBit DEF f
      <3>2. QED
        BY <3>1
    <2> HIDE DEF j
    <2>4. (b + 1) + 1 \in Nat
      BY <2>2
    <2>5. Intervals(m, (b + 1) + 1) \in Nat
      BY <2>4, BitsUsecType
    <2>6. QED
      BY <1>2, <2>3, <2>5
  <1>4. gone = 1 + i + h /\ (BitGoesOn(m, b, h) <=> one /\ h = 0) /\ (h = 1 => one)
    BY DEF BitGoesOn
  <1> HIDE DEF i, j, f, one
  <1>5. CASE one /\ h = 0
    <2>1. gone = i + 1 /\ gone + 1 = 1 + i + 1 /\ j = i + 2
      BY <1>1, <1>4, <1>5
    <2>2. gone \in 1 .. Len(f) /\ gone + 1 <= Len(f) /\ f[gone] = PULSE1
      BY <1>1, <1>2, <1>5, <2>1
    <2>3. QED
      BY <1>4, <1>5, <2>1, <2>2 DEF i, f, one
  <1>6. CASE one /\ h = 1
    <2>1. gone = i + 2 /\ gone + 1 = 1 + j + 0
      BY <1>1, <1>4, <1>6
    <2>2. gone \in 1 .. Len(f) /\ f[gone] = PULSE1 /\ (b + 1 < FrameLength => gone + 1 <= Len(f))
      BY <1>1, <1>2, <1>3, <1>6, <2>1
    <2>3. QED
      BY <1>4, <1>6, <2>1, <2>2 DEF j, f, one
  <1>7. CASE ~ one /\ h = 0
    <2>1. gone = i + 1 /\ gone + 1 = 1 + j + 0
      BY <1>1, <1>4, <1>7
    <2>2. gone \in 1 .. Len(f) /\ f[gone] = PULSE0 /\ (b + 1 < FrameLength => gone + 1 <= Len(f))
      BY <1>1, <1>2, <1>3, <1>7, <2>1
    <2>3. QED
      BY <1>4, <1>7, <2>1, <2>2 DEF j, f, one
  <1>8. QED
    BY <1>4, <1>5, <1>6, <1>7

\* The next interval of the first frame brings the receiver a half bit or a bit
\* further, and the last one makes the frame complete.
LEMMA BitsHeard ==
  ASSUME NEW m \in Messages, NEW b \in 0 .. FrameLength - 1, NEW h \in {0, 1},
         code \in Codes, Heard(state, code, m, b, h),
         NEW g, NextInterval(g, m, b), Edge(g)
  PROVE  \/ /\ BitGoesOn(m, b, h) \/ b + 1 < FrameLength
            /\ called' = {}
            /\ IF BitGoesOn(m, b, h) THEN Heard(state', code', m, b, 1)
                                     ELSE Heard(state', code', m, b + 1, 0)
         \/ \E c : Complete(c) /\ Read(c, m, FrameLength)
  <1>1. CASE b \in 0 .. 3
    <2>1. b + 1 < FrameLength
      BY <1>1, FirstsNat, WidthsNat
    <2>2. QED
      BY <1>1, <2>1, StartBitsHeard
  <1>2. CASE b \notin 0 .. 3
    <2>1. b \in 4 .. FrameLength - 1
      BY <1>2, FirstsNat
    <2>2. QED
      BY <2>1, DataBitsHeard
  <1>3. QED
    BY <1>1, <1>2

\* While the first frame is heard, there is more to come.
LEMMA MoreToCome ==
  ASSUME NEW m \in Messages, NEW idle \in Nat, NEW a \in Seq(Nat), NEW s, NEW c, NEW n,
         Coming(m, idle, a, s, c, n)
  PROVE  Len(a) > 1
  <1>1. /\ Len(MessageUsec(m, idle)) - Len(a) <= Len(FrameUsec(m))
        /\ Len(MessageUsec(m, idle)) > Len(FrameUsec(m)) + 1
    BY MessageBegins DEF Coming
  <1>2. Len(MessageUsec(m, idle)) \in Nat /\ Len(FrameUsec(m)) \in Nat /\ Len(a) \in Nat
    BY MessageBegins, FrameEndsWithItsBits
  <1>3. QED
    BY <1>1, <1>2

LEMMA LastSent ==
  ASSUME TypeOK, sends /= <<>>
  PROVE  Last(sends) \in SentMessages /\ Last(sends) \in Messages
  BY SentAreMessages DEF TypeOK, Last

LEMMA SendHeard ==
  ASSUME InTolerance, TypeOK, NEW m \in SentMessages, NEW idle \in Idles, Send(m, idle)
  PROVE  FirstFrameHeard'
  <1> DEFINE usec == MessageUsec(m, idle)
  <1>1. m \in Messages /\ idle \in Nat /\ shifts \in Nat
    BY SentAreMessages, LinkAssumption DEF LinkAssumption, TypeOK
  <1>2. usec \in Seq(Nat) /\ Len(FrameUsec(m)) \in Nat
    BY <1>1, MessageBegins, FrameEndsWithItsBits
  <1>3. Coming(m, idle, usec, state, code, shifts)
    <2>1. Len(usec) - Len(usec) = 0 /\ 0 \in 0 .. Len(FrameUsec(m))
      BY <1>2
    <2>2. \A j \in 1 .. Len(usec) : Near(usec[j], usec[0 + j], shifts)
      <3> SUFFICES ASSUME NEW j \in 1 .. Len(usec) PROVE Near(usec[j], usec[0 + j], shifts)
        OBVIOUS
      <3> HIDE DEF usec
      <3>1. usec[j] \in Nat /\ 0 + j = j
        BY <1>2
      <3>2. QED
        BY <1>1, <3>1, NearAtFirst
    <2>3. QED
      BY <2>1, <2>2 DEF Coming
  <1>4. Last(sends') = m
    <2>1. sends' = Append(sends, m) /\ sends \in Seq(SentMessages)
      BY DEF Send, TypeOK
    <2>2. QED
      BY <2>1 DEF Last
  <1>5. /\ air' = usec /\ state' = state /\ code' = code /\ shifts' = shifts
    BY DEF Send
  <1>6. Coming(Last(sends'), idle, air', state', code', shifts')
    BY <1>3, <1>4, <1>5
  <1>7. QED
    BY <1>6 DEF FirstFrameHeard

LEMMA GlitchHeard ==
  ASSUME TypeOK, FirstFrameHeard, NEW e \in Glitches, Glitch(e)
  PROVE  FirstFrameHeard'
  <1>1. SUFFICES ASSUME sends' /= <<>>, ~hit', delivered' = 0 PROVE FALSE
    BY DEF FirstFrameHeard
  <1>2. sends /= <<>> /\ ~hit /\ ~InFirstFrame /\ delivered = 0
    BY <1>1 DEF Glitch
  <1> DEFINE m == Last(sends)
  <1>3. PICK idle \in Idles : Coming(m, idle, air, state, code, shifts)
    BY <1>2 DEF FirstFrameHeard
  <1>4. m \in Messages /\ idle \in Nat
    BY <1>2, LastSent, SentAreMessages
  <1>5. Len(MessageUsec(m, 0)) = Len(MessageUsec(m, idle))
    BY <1>4, MessageBegins
  <1>6. Len(MessageUsec(m, idle)) - Len(air) <= Len(FrameUsec(m))
    BY <1>3, <1>4, FrameEndsWithItsBits DEF Coming
  <1>7. InFirstFrame
    BY <1>5, <1>6 DEF InFirstFrame
  <1>8. QED
    BY <1>2, <1>7

LEMMA DisplaceHeard ==
  ASSUME InTolerance, TypeOK, FirstFrameHeard, NEW d \in Shifts, Displace(d)
  PROVE  FirstFrameHeard'
  <1>1. SUFFICES ASSUME sends' /= <<>>, ~hit', delivered' = 0
                 PROVE  \E idle \in Idles :
                          Coming(Last(sends'), idle, air', state', code', shifts')
    BY DEF FirstFrameHeard
  <1>2. /\ sends /= <<>> /\ ~hit /\ delivered = 0
        /\ UNCHANGED <<sends, state, code>> /\ shifts' = shifts + 1
    BY <1>1 DEF Displace
  <1> DEFINE m == Last(sends)
  <1>3. PICK idle \in Idles : Coming(m, idle, air, state, code, shifts)
    BY <1>2 DEF FirstFrameHeard
  <1>4. /\ m \in Messages /\ idle \in Nat /\ shifts \in Nat /\ air \in Seq(Nat)
        /\ d \in Int /\ -Most <= d /\ d <= Most /\ Most \in Nat /\ 0 \in Int
    BY <1>2, LastSent, SentAreMessages, LinkAssumption, MostIs DEF LinkAssumption, TypeOK
  <1> DEFINE usec == MessageUsec(m, idle)
             gone == Len(usec) - Len(air)
  <1> HIDE DEF m
  <1>5. usec \in Seq(Nat) /\ Len(usec) \in Nat
    BY <1>4, MessageBegins
  <1>6. /\ gone \in 0 .. Len(FrameUsec(m))
        /\ \A j \in 1 .. Len(air) : Near(air[j], usec[gone + j], shifts)
        /\ gone > 0 => \E b \in 0 .. FrameLength - 1, h \in {0, 1} :
                          gone = 1 + Intervals(m, b) + h /\ Heard(state, code, m, b, h)
    BY <1>3 DEF Coming
  <1> HIDE DEF usec
  <1>7. /\ air' = [air EXCEPT ![1] = @ + d, ![2] = @ - d] /\ Len(air) > 1
        /\ air[1] + d > 0 /\ air[2] - d > 0
    BY DEF Displace
  <1>8. Len(air') = Len(air) /\ Len(air) \in Nat
    BY <1>4, <1>7
  <1>9. ASSUME NEW j \in 1 .. Len(air)
        PROVE  Near(air'[j], usec[gone + j], shifts + 1)
    <2>1. /\ air[j] \in Nat /\ gone + j \in 1 .. Len(usec)
      <3>1. air[j] \in Nat
        BY <1>4
      <3>2. gone >= 0 /\ gone = Len(usec) - Len(air)
        BY <1>6
      <3> HIDE DEF gone
      <3>3. gone + j \in 1 .. Len(usec)
        BY <1>5, <1>8, <3>2
      <3>4. QED
        BY <3>1, <3>3
    <2>2. usec[gone + j] \in Nat
      BY <1>5, <2>1
    <2>3. PICK x \in {0, d, -d} : air'[j] = air[j] + x
      <3>1. CASE j = 1
        <4>1. air'[j] = air[j] + d
          BY <1>4, <1>7, <3>1
        <4>2. QED
          BY <4>1
      <3>2. CASE j = 2
        <4>1. air'[j] = air[j] + (-d)
          BY <1>4, <1>7, <2>1, <3>2
        <4>2. QED
          BY <4>1
      <3>3. CASE j /= 1 /\ j /= 2
        <4>1. air'[j] = air[j] + 0
          BY <1>4, <1>7, <2>1, <3>3
        <4>2. QED
          BY <4>1
      <3>4. QED
        BY <3>1, <3>2, <3>3
    <2>4. x \in Int /\ -Most <= x /\ x <= Most
      BY <1>4, <2>3
    <2> HIDE DEF gone
    <2>5. Near(air[j] + x, usec[gone + j], shifts + 1)
      BY <1>4, <1>6, <2>1, <2>2, <2>4, NearOnce
    <2>6. QED
      BY <2>3, <2>5
  <1>10. Coming(m, idle, air', state', code', shifts')
    BY <1>2, <1>6, <1>8, <1>9 DEF Coming, usec
  <1>11. QED
    BY <1>2, <1>10 DEF m

LEMMA NoiseHeard ==
  ASSUME TypeOK, FirstFrameHeard, NEW g, Noise(g)
  PROVE  FirstFrameHeard'
  <1>1. SUFFICES ASSUME sends' /= <<>>, ~hit', delivered' = 0 PROVE FALSE
    BY DEF FirstFrameHeard
  <1>2. sends /= <<>> /\ ~hit /\ delivered = 0 /\ air = <<>>
    BY <1>1 DEF Noise
  <1>3. PICK idle \in Idles : Coming(Last(sends), idle, air, state, code, shifts)
    BY <1>2 DEF FirstFrameHeard
  <1>4. Len(air) > 1
    BY <1>2, <1>3, LastSent, SentAreMessages, MoreToCome DEF TypeOK
  <1>5. QED
    BY <1>2, <1>4

LEMMA ArriveHeard ==
  ASSUME InTolerance, TypeOK, repeats < 255, FirstFrameHeard, Arrive
  PROVE  FirstFrameHeard'
  <1>1. SUFFICES ASSUME sends' /= <<>>, ~hit', delivered' = 0
                 PROVE  \E idle \in Idles :
                          Coming(Last(sends'), idle, air', state', code', shifts')
    BY DEF FirstFrameHeard
  <1>2. /\ sends /= <<>> /\ ~hit /\ air /= <<>> /\ air' = Tail(air)
        /\ sends' = sends /\ shifts' = shifts /\ Edge(Head(air)) /\ delivered \in Nat
    BY <1>1 DEF Arrive, TypeOK
  <1>3. delivered = 0 /\ \A c \in called' : ~ Says(c, Last(sends))
    BY <1>1, <1>2 DEF Arrive, Count
  <1> DEFINE m == Last(sends)
             g == Head(air)
  <1>4. PICK idle \in Idles : Coming(m, idle, air, state, code, shifts)
    BY <1>2, <1>3 DEF FirstFrameHeard
  <1>5. /\ m \in Messages /\ idle \in Nat /\ shifts \in 0 .. MaxShifts /\ shifts \in Nat
        /\ air \in Seq(Nat) /\ code \in Codes /\ state \in Int /\ state >= -1
        /\ repeats \in 0 .. ByteMod - 1
    BY <1>2, LastSent, SentAreMessages, LinkAssumption, ByteNat, FirstsNat, Ends
       DEF LinkAssumption, TypeOK, ReceiverType
  <1>6. ~ \E c : Complete(c) /\ Read(c, m, FrameLength)
    <2>1. SUFFICES ASSUME NEW c, Complete(c), Read(c, m, FrameLength) PROVE FALSE
      OBVIOUS
    <2>2. called' = {c}
      BY <1>5, <2>1, CompleteCalls DEF InTolerance
    <2>3. Says(c, m)
      BY <1>5, <2>1, ReadAll
    <2>4. QED
      BY <1>3, <2>2, <2>3
  <1> DEFINE usec == MessageUsec(m, idle)
             gone == Len(usec) - Len(air)
  <1> HIDE DEF m
  <1>7. /\ usec \in Seq(Nat) /\ Len(usec) \in Nat /\ usec[1] = idle
        /\ Len(usec) > Len(FrameUsec(m)) + 1
        /\ \A i \in 1 .. Len(FrameUsec(m)) : usec[1 + i] = FrameUsec(m)[i]
        /\ Len(FrameUsec(m)) \in Nat /\ Len(FrameUsec(m)) > 0
    BY <1>5, MessageBegins, FrameEndsWithItsBits
  <1>8. /\ gone \in 0 .. Len(FrameUsec(m))
        /\ \A j \in 1 .. Len(air) : Near(air[j], usec[gone + j], shifts)
        /\ gone > 0 => \E b \in 0 .. FrameLength - 1, h \in {0, 1} :
                          gone = 1 + Intervals(m, b) + h /\ Heard(state, code, m, b, h)
    BY <1>4 DEF Coming
  <1> HIDE DEF usec
  <1>9. /\ Len(air) \in Nat /\ Len(air) > 0 /\ g = air[1] /\ g \in Nat
        /\ Len(air') = Len(air) - 1
        /\ \A j \in 1 .. Len(air') : air'[j] = air[j + 1]
    BY <1>2, <1>5
  <1>10. Near(g, usec[gone + 1], shifts)
    BY <1>8, <1>9
  <1>11. Len(usec) - Len(air') = gone + 1 /\ gone \in Nat
    BY <1>7, <1>8, <1>9
  <1> HIDE DEF gone
  <1>12. \A j \in 1 .. Len(air') : Near(air'[j], usec[(gone + 1) + j], shifts)
    <2>1. SUFFICES ASSUME NEW j \in 1 .. Len(air')
                   PROVE  Near(air'[j], usec[(gone + 1) + j], shifts)
      OBVIOUS
    <2>2. j + 1 \in 1 .. Len(air) /\ gone + (j + 1) = (gone + 1) + j /\ air'[j] = air[j + 1]
      BY <1>9, <1>11
    <2>3. Near(air[j + 1], usec[gone + (j + 1)], shifts)
      BY <1>8, <2>2
    <2>4. QED
      BY <2>2, <2>3
  <1>13. gone = 0 => gone + 1 <= Len(FrameUsec(m))
    BY <1>7
  <1>14. ASSUME gone + 1 <= Len(FrameUsec(m)),
                NEW b \in 0 .. FrameLength - 1, NEW h \in {0, 1},
                gone + 1 = 1 + Intervals(m, b) + h, Heard(state', code', m, b, h)
         PROVE  Coming(m, idle, air', state', code', shifts')
    <2>1. gone + 1 \in 0 .. Len(FrameUsec(m))
      BY <1>7, <1>11, <1>14, SMTT(60)
    <2>2. QED
      BY <1>2, <1>11, <1>12, <1>14, <2>1 DEF Coming, usec
  <1>15. CASE gone = 0
    <2>1. Near(g, idle, shifts)
      BY <1>7, <1>10, <1>15
    <2>2. g < min1period \/ Duration(g) > max2period
      BY <1>5, <1>9, <2>1, IdleIsSilent, NearSilence
    <2>3. state' = -1
      BY <1>2, <1>5, <1>9, <2>2, RestAfter
    <2>4. 0 \in 0 .. FrameLength - 1 /\ gone + 1 = 1 + Intervals(m, 0) + 0
      BY <1>15, NoBits, FirstsNat, WidthsNat
    <2>5. Heard(state', code', m, 0, 0)
      BY <2>3 DEF Heard
    <2>6. Coming(m, idle, air', state', code', shifts')
      BY <1>13, <1>14, <1>15, <2>4, <2>5
    <2>7. QED
      BY <1>2, <2>6 DEF m
  <1>16. CASE gone > 0
    <2>1. PICK b \in 0 .. FrameLength - 1, h \in {0, 1} :
            gone = 1 + Intervals(m, b) + h /\ Heard(state, code, m, b, h)
      BY <1>8, <1>16
    <2>2. h = 1 => FrameBits(m)[b + 1] = 1
      BY <2>1 DEF Heard
    <2>3. /\ gone \in 1 .. Len(FrameUsec(m))
          /\ FrameUsec(m)[gone] = IF FrameBits(m)[b + 1] = 1 THEN PULSE1 ELSE PULSE0
          /\ BitGoesOn(m, b, h) =>
               gone + 1 = 1 + Intervals(m, b) + 1 /\ gone + 1 <= Len(FrameUsec(m))
          /\ ~ BitGoesOn(m, b, h) => gone + 1 = 1 + Intervals(m, b + 1) + 0
          /\ ~ BitGoesOn(m, b, h) /\ b + 1 < FrameLength => gone + 1 <= Len(FrameUsec(m))
      BY <1>5, <2>1, <2>2, NextIntervalSent
    <2>4. Near(g, FrameUsec(m)[gone], shifts)
      <3>1. usec[gone + 1] = FrameUsec(m)[gone]
        <4>1. usec[1 + gone] = FrameUsec(m)[gone]
          BY <1>7, <2>3, Zenon
        <4>2. 1 + gone = gone + 1
          BY <1>11
        <4>3. QED
          BY <4>1, <4>2
      <3>2. QED
        BY <1>10, <3>1
    <2>5. NextInterval(g, m, b)
      BY <1>5, <1>9, <2>3, <2>4, NearHalf, NearLong DEF NextInterval
    <2>6. /\ BitGoesOn(m, b, h) \/ b + 1 < FrameLength
          /\ IF BitGoesOn(m, b, h) THEN Heard(state', code', m, b, 1)
                                   ELSE Heard(state', code', m, b + 1, 0)
      BY <1>2, <1>5, <1>6, <2>1, <2>5, BitsHeard
    <2>7. CASE BitGoesOn(m, b, h)
      <3>1. Coming(m, idle, air', state', code', shifts')
        BY <1>14, <2>3, <2>6, <2>7
      <3>2. QED
        BY <1>2, <3>1 DEF m
    <2>8. CASE ~ BitGoesOn(m, b, h)
      <3>1. b + 1 \in 0 .. FrameLength - 1
        BY <2>6, <2>8, FirstsNat
      <3>2. Coming(m, idle, air', state', code', shifts')
        BY <1>14, <2>3, <2>6, <2>8, <3>1
      <3>3. QED
        BY <1>2, <3>2 DEF m
    <2>9. QED
      BY <2>7, <2>8
  <1>17. QED
    BY <1>11, <1>15, <1>16

LEMMA HeardInitially == LinkInit => FirstFrameHeard
  BY DEF LinkInit, FirstFrameHeard

LEMMA HeardInductive ==
  ASSUME InTolerance
  PROVE  TypeOK /\ repeats < 255 /\ FirstFrameHeard /\ [LinkNext]_linkVars => FirstFrameHeard'
  <1>1. SUFFICES ASSUME TypeOK, repeats < 255, FirstFrameHeard, [LinkNext]_linkVars
                 PROVE  FirstFrameHeard'
    OBVIOUS
  <1>2. ASSUME NEW m \in SentMessages, NEW idle \in Idles, Send(m, idle) PROVE FirstFrameHeard'
    BY <1>1, <1>2, SendHeard
  <1>3. CASE Arrive
    BY <1>1, <1>3, ArriveHeard
  <1>4. ASSUME NEW e \in Glitches, Glitch(e) PROVE FirstFrameHeard'
    BY <1>1, <1>4, GlitchHeard
  <1>5. ASSUME NEW d \in Shifts, Displace(d) PROVE FirstFrameHeard'
    BY <1>1, <1>5, DisplaceHeard
  <1>6. ASSUME NEW g \in Gaps, Noise(g) PROVE FirstFrameHeard'
    BY <1>1, <1>6, NoiseHeard
  <1>7. CASE UNCHANGED linkVars
    BY <1>1, <1>7 DEF linkVars, receiverVars, FirstFrameHeard
  <1>8. QED
    BY <1>1, <1>2, <1>3, <1>4, <1>5, <1>6, <1>7 DEF LinkNext

LEMMA HeardDelivered ==
  ASSUME TypeOK, FirstFrameHeard
  PROVE  FirstFrameDelivered
  <1>1. SUFFICES ASSUME air = <<>>, sends /= <<>>, ~hit, ~(delivered > 0) PROVE FALSE
    BY DEF FirstFrameDelivered
  <1>2. delivered = 0
    BY <1>1 DEF TypeOK
  <1>3. PICK idle \in Idles : Coming(Last(sends), idle, air, state, code, shifts)
    BY <1>1, <1>2 DEF FirstFrameHeard
  <1>4. Len(air) > 1
    BY <1>1, <1>3, LastSent, SentAreMessages, MoreToCome DEF TypeOK
  <1>5. QED
    BY <1>1, <1>4

\* wt440Receiver.h:35 and wt440Transmitter.cpp: a message whose first frame is not
\* hit by a glitch is delivered, for all widths of the fields and all messages that
\* fit them, whatever the receiver heard before and with edges shifted by as much
\* as its limits allow.  The byte that counts equal codes must not run over: from
\* 255 the next equal code makes it 0, which is less than _minRepeats.
THEOREM FirstFrame ==
  ASSUME InTolerance
  PROVE  LinkSpec /\ [](repeats < 255) => []FirstFrameDelivered
  <1>1. LinkSpec => []TypeOK
    BY TypeCorrect
  <1>2. LinkInit => FirstFrameHeard
    BY HeardInitially
  <1>3. TypeOK /\ repeats < 255 /\ FirstFrameHeard /\ [LinkNext]_linkVars => FirstFrameHeard'
    BY HeardInductive
  <1>4. TypeOK /\ FirstFrameHeard => FirstFrameDelivered
    BY HeardDelivered
  <1>5. QED
    BY <1>1, <1>2, <1>3, <1>4, PTL DEF LinkSpec

--------------------------------------------------------------------------------
(* What the receiver gathers from a message of which it may miss any part. *)

LEMMA LaterIs ==
  ASSUME NEW f \in Seq(Nat), Len(f) > 0
  PROVE  LET l == LaterFrameUsec(f)
         IN  /\ l \in Seq(Nat)
             /\ EndsHigh(f) => /\ Len(l) = Len(f) /\ l[1] = Pause + f[1]
                               /\ \A k \in 2 .. Len(f) : l[k] = f[k]
             /\ ~EndsHigh(f) => /\ Len(l) = Len(f) + 1 /\ l[1] = Pause
                                /\ \A k \in 1 .. Len(f) : l[k + 1] = f[k]
  <1> DEFINE l == LaterFrameUsec(f)
  <1>1. CASE EndsHigh(f)
    <2>1. Pause + Head(f) \in Nat /\ Tail(f) \in Seq(Nat)
      BY DEF Pause
    <2>2. l = <<Pause + Head(f)>> \o Tail(f)
      BY <1>1 DEF LaterFrameUsec
    <2>3. /\ l \in Seq(Nat) /\ Len(l) = Len(f) /\ l[1] = Pause + f[1]
          /\ \A k \in 2 .. Len(f) : l[k] = f[k]
      BY <2>1, <2>2
    <2>4. QED
      BY <1>1, <2>3
  <1>2. CASE ~ EndsHigh(f)
    <2>1. l = <<Pause>> \o f /\ Pause \in Nat
      BY <1>2 DEF LaterFrameUsec, Pause
    <2>2. /\ l \in Seq(Nat) /\ Len(l) = Len(f) + 1 /\ l[1] = Pause
          /\ \A k \in 1 .. Len(f) : l[k + 1] = f[k]
      BY <2>1
    <2>3. QED
      BY <1>2, <2>2
  <1>3. QED
    BY <1>1, <1>2

\* The pauses between the frames are silent too.
LEMMA PausesAreSilent == Silent(Pause) /\ Silent(Pause + PULSE1)
  BY DEF Silent, Pause, PULSE1, Tolerance, Duration, WordMod, max2period, min1period

\* The distance from a frame to the next one.
Distance(m) == Len(LaterFrameUsec(FrameUsec(m)))

\* Interval p of the message is interval i of a frame.
InFrame(m, p, i) ==
  i \in 1 .. Len(FrameUsec(m)) /\ \E r \in 0 .. 3 : p = 1 + r * Distance(m) + i

\* Where the frames, and the pauses between them, are in a message.
LEMMA FramesInMessage ==
  ASSUME NEW m \in Messages, NEW idle \in Nat
  PROVE  LET f == FrameUsec(m)
             d == Distance(m)
             s == MessageUsec(m, idle)
         IN  /\ s \in Seq(Nat) /\ d \in Nat /\ Len(f) \in Nat /\ Len(f) > 0 /\ s[1] = idle
             /\ \A r \in 0 .. 3, i \in 2 .. Len(f) : s[1 + r * d + i] = f[i]
             /\ s[2] = f[1]
             /\ EndsHigh(f) => /\ d = Len(f) /\ Len(s) = 2 + 4 * d /\ s[2 + 4 * d] = Pause
                               /\ \A r \in 1 .. 3 : s[1 + r * d + 1] = Pause + PULSE1
             /\ ~EndsHigh(f) => /\ d = Len(f) + 1 /\ Len(s) = 4 * d
                                /\ \A r \in 1 .. 3 : /\ s[1 + r * d] = Pause
                                                     /\ s[1 + r * d + 1] = f[1]
  <1> DEFINE f == FrameUsec(m)
             l == LaterFrameUsec(f)
             a == <<idle>>
             e == IF EndsHigh(f) THEN <<Pause>> ELSE <<>>
             s == MessageUsec(m, idle)
             d == Distance(m)
  <1>1. /\ f \in Seq(Nat) /\ Len(f) \in Nat /\ Len(f) > 0 /\ f[1] = PULSE1
    <2>1. 0 \in 0 .. FrameLength - 1 /\ FrameBits(m)[0 + 1] = 1
      BY FirstsNat, WidthsNat, FrameBitsAre
    <2>2. f[Intervals(m, 0) + 1] = PULSE1
      BY <2>1, IntervalsOfBit
    <2>3. QED
      BY <2>2, NoBits, FrameEndsWithItsBits
  <1>2. s = a \o f \o l \o l \o l \o e /\ d = Len(l)
    BY DEF MessageUsec, Distance
  <1>3. /\ a \in Seq(Nat) /\ Len(a) = 1 /\ a[1] = idle
        /\ e \in Seq(Nat) /\ Len(e) = (IF EndsHigh(f) THEN 1 ELSE 0)
        /\ EndsHigh(f) => e[1] = Pause
    BY DEF Pause
  <1> HIDE DEF f, s, d
  <1>4. /\ l \in Seq(Nat)
        /\ EndsHigh(f) => /\ Len(l) = Len(f) /\ l[1] = Pause + PULSE1
                          /\ \A k \in 2 .. Len(f) : l[k] = f[k]
        /\ ~EndsHigh(f) => /\ Len(l) = Len(f) + 1 /\ l[1] = Pause
                           /\ \A k \in 1 .. Len(f) : l[k + 1] = f[k]
    BY <1>1, LaterIs
  <1> HIDE DEF a, l, e
  <1>5. MessageJoined(Nat, a, f, l, e, s)
    BY <1>1, <1>2, <1>3, <1>4, PartsInMessage
  <1>6. /\ s \in Seq(Nat) /\ d \in Nat /\ Len(s) = 1 + Len(f) + 3 * d + Len(e)
        /\ s[1] = idle
        /\ \A k \in 1 .. Len(f) : s[1 + k] = f[k]
        /\ \A k \in 1 .. d : s[1 + Len(f) + k] = l[k]
        /\ \A k \in 1 .. d : s[1 + Len(f) + d + k] = l[k]
        /\ \A k \in 1 .. d : s[1 + Len(f) + 2 * d + k] = l[k]
        /\ \A k \in 1 .. Len(e) : s[1 + Len(f) + 3 * d + k] = e[k]
    <2>1. /\ s \in Seq(Nat)
          /\ Len(s) = Len(a) + Len(f) + 3 * d + Len(e)
          /\ \A k \in 1 .. Len(a) : s[k] = a[k]
          /\ \A k \in 1 .. Len(f) : s[Len(a) + k] = f[k]
          /\ \A k \in 1 .. d : /\ s[Len(a) + Len(f) + k] = l[k]
                                /\ s[Len(a) + Len(f) + d + k] = l[k]
                                /\ s[Len(a) + Len(f) + 2 * d + k] = l[k]
          /\ \A k \in 1 .. Len(e) : s[Len(a) + Len(f) + 3 * d + k] = e[k]
      BY <1>2, <1>5, Zenon DEF MessageJoined
    <2>2. d \in Nat /\ 1 \in 1 .. Len(a)
      BY <1>2, <1>3, <1>4
    <2>3. s[1] = idle
      BY <1>3, <2>1, <2>2
    <2>4. QED
      BY <1>3, <2>1, <2>2, <2>3, Zenon
  <1>7. s[2] = f[1] /\ \A k \in 2 .. Len(f) : s[1 + 0 * d + k] = f[k]
    <2>1. s[2] = f[1]
      <3>1. 1 \in 1 .. Len(f) /\ 1 + 1 = 2
        BY <1>1
      <3>2. s[1 + 1] = f[1]
        BY <1>6, <3>1, Zenon
      <3>3. QED
        BY <3>1, <3>2
    <2>2. \A k \in 2 .. Len(f) : s[1 + k] = f[k] /\ 1 + 0 * d + k = 1 + k
      BY <1>1, <1>6
    <2>3. QED
      BY <2>1, <2>2
  <1>8. \A r \in 1 .. 3, k \in 1 .. d : s[1 + Len(f) + (r - 1) * d + k] = l[k]
    <2>1. SUFFICES ASSUME NEW r \in 1 .. 3, NEW k \in 1 .. d
                   PROVE  s[1 + Len(f) + (r - 1) * d + k] = l[k]
      OBVIOUS
    <2>2. /\ 1 + Len(f) + (1 - 1) * d + k = 1 + Len(f) + k
          /\ 1 + Len(f) + (2 - 1) * d + k = 1 + Len(f) + d + k
          /\ 1 + Len(f) + (3 - 1) * d + k = 1 + Len(f) + 2 * d + k
      BY <1>1, <1>6
    <2>3. r = 1 \/ r = 2 \/ r = 3
      OBVIOUS
    <2>4. s[1 + Len(f) + (1 - 1) * d + k] = l[k]
      BY <1>6, <2>2
    <2>5. s[1 + Len(f) + (2 - 1) * d + k] = l[k]
      BY <1>6, <2>2
    <2>6. s[1 + Len(f) + (3 - 1) * d + k] = l[k]
      BY <1>6, <2>2
    <2>7. QED
      BY <2>3, <2>4, <2>5, <2>6, Zenon
  <1>9. CASE EndsHigh(f)
    <2>1. /\ d = Len(f) /\ Len(e) = 1 /\ e[1] = Pause /\ Len(s) = 2 + 4 * d
          /\ s[2 + 4 * d] = Pause
      <3>1. d = Len(f) /\ Len(e) = 1 /\ e[1] = Pause
        BY <1>2, <1>3, <1>4, <1>9
      <3>2. 1 + Len(f) + 3 * d + 1 = 2 + 4 * d /\ 1 \in 1 .. Len(e)
        BY <1>6, <3>1
      <3>3. s[1 + Len(f) + 3 * d + 1] = Pause
        BY <1>6, <3>1, <3>2
      <3>4. QED
        BY <1>6, <3>1, <3>2, <3>3
    <2>2. ASSUME NEW r \in 1 .. 3, NEW k \in 1 .. Len(f)
          PROVE  s[1 + r * d + k] = IF k = 1 THEN Pause + PULSE1 ELSE f[k]
      <3>1. 1 + Len(f) + (r - 1) * d + k = 1 + r * d + k
        <4>1. r = 1 \/ r = 2 \/ r = 3
          OBVIOUS
        <4>2. d \in Nat /\ d = Len(f)
          BY <1>6, <2>1
        <4>3. QED
          BY <4>1, <4>2
      <3>2. s[1 + r * d + k] = l[k]
        BY <1>8, <2>1, <3>1
      <3>3. k /= 1 => k \in 2 .. Len(f)
        BY <1>1
      <3>4. QED
        BY <1>4, <1>9, <3>2, <3>3
    <2>3. \A r \in 1 .. 3 : s[1 + r * d + 1] = Pause + PULSE1
      <3>1. 1 \in 1 .. Len(f)
        BY <1>1
      <3>2. QED
        BY <2>2, <3>1
    <2>4. \A r \in 0 .. 3, k \in 2 .. Len(f) : s[1 + r * d + k] = f[k]
      <3>1. SUFFICES ASSUME NEW r \in 0 .. 3, NEW k \in 2 .. Len(f) PROVE s[1 + r * d + k] = f[k]
        OBVIOUS
      <3>2. k \in 1 .. Len(f) /\ k /= 1 /\ (r = 0 \/ r \in 1 .. 3)
        BY <1>1
      <3>3. QED
        BY <1>7, <2>2, <3>2
    <2>5. QED
      BY <1>1, <1>6, <1>7, <1>9, <2>1, <2>3, <2>4 DEF f, s, d
  <1>10. CASE ~ EndsHigh(f)
    <2>1. d = Len(f) + 1 /\ Len(e) = 0 /\ Len(s) = 4 * d
      <3>1. d = Len(f) + 1 /\ Len(e) = 0
        BY <1>2, <1>3, <1>4, <1>10
      <3>2. QED
        BY <1>1, <1>6, <3>1
    <2>2. ASSUME NEW r \in 1 .. 3, NEW k \in 0 .. Len(f)
          PROVE  s[1 + r * d + k] = IF k = 0 THEN Pause ELSE f[k]
      <3>1. 1 + Len(f) + (r - 1) * d + (k + 1) = 1 + r * d + k /\ k + 1 \in 1 .. d
        <4>1. r = 1 \/ r = 2 \/ r = 3
          OBVIOUS
        <4>2. d \in Nat /\ d = Len(f) + 1 /\ Len(f) \in Nat
          BY <1>1, <1>6, <2>1
        <4>3. QED
          BY <4>1, <4>2
      <3>2. s[1 + Len(f) + (r - 1) * d + (k + 1)] = l[k + 1]
        BY <1>8, <3>1
      <3>3. k /= 0 => k \in 1 .. Len(f)
        BY <1>1
      <3>4. QED
        BY <1>4, <1>10, <3>1, <3>2, <3>3
    <2>3. \A r \in 1 .. 3 : s[1 + r * d] = Pause /\ s[1 + r * d + 1] = f[1]
      <3>1. SUFFICES ASSUME NEW r \in 1 .. 3
                     PROVE  s[1 + r * d] = Pause /\ s[1 + r * d + 1] = f[1]
        OBVIOUS
      <3>2. 0 \in 0 .. Len(f) /\ 1 \in 0 .. Len(f) /\ 1 + r * d + 0 = 1 + r * d
        BY <1>1, <1>6
      <3>3. s[1 + r * d + 0] = Pause /\ s[1 + r * d + 1] = f[1]
        BY <2>2, <3>2
      <3>4. QED
        BY <3>2, <3>3
    <2>4. \A r \in 0 .. 3, k \in 2 .. Len(f) : s[1 + r * d + k] = f[k]
      <3>1. SUFFICES ASSUME NEW r \in 0 .. 3, NEW k \in 2 .. Len(f) PROVE s[1 + r * d + k] = f[k]
        OBVIOUS
      <3>2. k \in 0 .. Len(f) /\ k /= 0 /\ (r = 0 \/ r \in 1 .. 3)
        BY <1>1
      <3>3. QED
        BY <1>7, <2>2, <3>2
    <2>5. QED
      BY <1>1, <1>6, <1>7, <1>10, <2>1, <2>3, <2>4 DEF f, s, d
  <1>11. QED
    BY <1>9, <1>10

LEMMA Times ==
  ASSUME NEW d \in Nat, NEW r \in 0 .. 3
  PROVE  r * d \in Nat /\ (r + 1) * d = r * d + d /\ (r = 3 => r * d + d = 4 * d)
  <1>1. r = 0 \/ r = 1 \/ r = 2 \/ r = 3
    OBVIOUS
  <1>2. QED
    BY <1>1

\* After an interval of a frame comes the next one; after the last one, a pause.
LEMMA NextPosition ==
  ASSUME NEW m \in Messages, NEW idle \in Nat, NEW p \in Nat,
         p < Len(MessageUsec(m, idle)), NEW i, InFrame(m, p, i)
  PROVE  /\ i < Len(FrameUsec(m)) =>
              InFrame(m, p + 1, i + 1) /\ MessageUsec(m, idle)[p + 1] = FrameUsec(m)[i + 1]
         /\ i = Len(FrameUsec(m)) => Silent(MessageUsec(m, idle)[p + 1])
  <1> DEFINE f == FrameUsec(m)
             d == Distance(m)
             s == MessageUsec(m, idle)
  <1>1. /\ s \in Seq(Nat) /\ d \in Nat /\ Len(f) \in Nat /\ Len(f) > 0
        /\ \A r \in 0 .. 3, k \in 2 .. Len(f) : s[1 + r * d + k] = f[k]
        /\ EndsHigh(f) => /\ d = Len(f) /\ Len(s) = 2 + 4 * d /\ s[2 + 4 * d] = Pause
                          /\ \A r \in 1 .. 3 : s[1 + r * d + 1] = Pause + PULSE1
        /\ ~EndsHigh(f) => /\ d = Len(f) + 1 /\ Len(s) = 4 * d
                           /\ \A r \in 1 .. 3 : s[1 + r * d] = Pause
    BY FramesInMessage
  <1>2. PICK r \in 0 .. 3 : p = 1 + r * d + i
    BY DEF InFrame
  <1>3. i \in 1 .. Len(f) /\ p < Len(s)
    BY DEF InFrame
  <1>4. /\ r * d \in Nat /\ (r + 1) * d = r * d + d /\ (r = 3 => r * d + d = 4 * d)
        /\ p + 1 = 1 + r * d + (i + 1)
    <2> HIDE DEF d
    <2>1. r * d \in Nat /\ (r + 1) * d = r * d + d /\ (r = 3 => r * d + d = 4 * d)
      BY <1>1, Times
    <2>2. QED
      BY <1>2, <1>3, <2>1
  <1>5. ASSUME i < Len(f)
        PROVE  InFrame(m, p + 1, i + 1) /\ s[p + 1] = f[i + 1]
    <2>1. i + 1 \in 2 .. Len(f) /\ i + 1 \in 1 .. Len(f)
      BY <1>1, <1>3, <1>5
    <2>2. s[1 + r * d + (i + 1)] = f[i + 1]
      BY <1>1, <2>1, Zenon
    <2>3. InFrame(m, p + 1, i + 1)
      BY <1>4, <2>1 DEF InFrame
    <2>4. QED
      BY <1>4, <2>2, <2>3
  <1>6. ASSUME i = Len(f)
        PROVE  Silent(s[p + 1])
    <2> HIDE DEF s, f, d
    <2>1. /\ d \in Nat /\ p = 1 + r * d + Len(f) /\ r * d \in Nat /\ Len(f) \in Nat
          /\ (r + 1) * d = r * d + d /\ (r = 3 => r * d + d = 4 * d)
          /\ EndsHigh(f) => d = Len(f)
      BY <1>1, <1>2, <1>4, <1>6
    <2>2. CASE EndsHigh(f) /\ r = 3
      <3>1. p + 1 = 2 + 4 * d
        BY <2>1, <2>2
      <3>2. QED
        BY <1>1, <2>2, <3>1, PausesAreSilent
    <2>3. CASE EndsHigh(f) /\ r /= 3
      <3>1. r + 1 \in 1 .. 3 /\ p + 1 = 1 + (r + 1) * d + 1
        BY <2>1, <2>3
      <3>2. s[1 + (r + 1) * d + 1] = Pause + PULSE1
        BY <1>1, <2>3, <3>1, Zenon
      <3>3. QED
        BY <3>1, <3>2, PausesAreSilent
    <2>4. CASE ~EndsHigh(f) /\ r = 3
      <3>1. p = 4 * d
        BY <1>1, <1>2, <1>4, <1>6, <2>4
      <3>2. QED
        BY <1>1, <1>3, <2>4, <3>1
    <2>5. CASE ~EndsHigh(f) /\ r /= 3
      <3>1. r + 1 \in 1 .. 3 /\ p + 1 = 1 + (r + 1) * d
        BY <1>1, <1>2, <1>4, <1>6, <2>5
      <3>2. s[1 + (r + 1) * d] = Pause
        BY <1>1, <2>5, <3>1, Zenon
      <3>3. QED
        BY <3>1, <3>2, PausesAreSilent
    <2>6. QED
      BY <2>2, <2>3, <2>4, <2>5
  <1>7. QED
    BY <1>5, <1>6

\* Every interval but the first is one of a frame, or it is silent.
LEMMA EveryPosition ==
  ASSUME NEW m \in Messages, NEW idle \in Nat, NEW p \in 2 .. Len(MessageUsec(m, idle))
  PROVE  \/ Silent(MessageUsec(m, idle)[p])
         \/ \E i : InFrame(m, p, i) /\ MessageUsec(m, idle)[p] = FrameUsec(m)[i]
  <1> DEFINE f == FrameUsec(m)
             d == Distance(m)
             s == MessageUsec(m, idle)
  <1>1. /\ s \in Seq(Nat) /\ d \in Nat /\ Len(f) \in Nat /\ Len(f) > 0 /\ s[2] = f[1]
        /\ \A r \in 0 .. 3, k \in 2 .. Len(f) : s[1 + r * d + k] = f[k]
        /\ EndsHigh(f) => /\ d = Len(f) /\ Len(s) = 2 + 4 * d /\ s[2 + 4 * d] = Pause
                          /\ \A r \in 1 .. 3 : s[1 + r * d + 1] = Pause + PULSE1
        /\ ~EndsHigh(f) => /\ d = Len(f) + 1 /\ Len(s) = 4 * d
                           /\ \A r \in 1 .. 3 : /\ s[1 + r * d] = Pause
                                                /\ s[1 + r * d + 1] = f[1]
    BY FramesInMessage
  <1>2. SUFFICES ASSUME ~ Silent(s[p])
                 PROVE  \E i : InFrame(m, p, i) /\ s[p] = f[i]
    OBVIOUS
  <1>3. p \in 2 .. Len(s) /\ Len(s) \in Nat
    BY <1>1
  <1>4. ASSUME NEW r \in 0 .. 3, NEW k \in 1 .. Len(f), p = 1 + r * d + k, s[p] = f[k]
        PROVE  \E i : InFrame(m, p, i) /\ s[p] = f[i]
    BY <1>4 DEF InFrame
  <1> HIDE DEF s, f, d
  <1>5. p <= 2 + 4 * d
    BY <1>1, <1>3
  <1>6. CASE p = 2 + 4 * d
    <2>1. EndsHigh(f)
      BY <1>1, <1>3, <1>6
    <2>2. QED
      BY <1>1, <1>2, <1>6, <2>1, PausesAreSilent
  <1>7. CASE EndsHigh(f) /\ p /= 2 + 4 * d
    <2>1. PICK r \in 0 .. 3 : 1 + r * d + 1 <= p /\ p <= 1 + r * d + d
      <3>1. \/ 1 + 0 * d + 1 <= p /\ p <= 1 + 0 * d + d
            \/ 1 + 1 * d + 1 <= p /\ p <= 1 + 1 * d + d
            \/ 1 + 2 * d + 1 <= p /\ p <= 1 + 2 * d + d
            \/ 1 + 3 * d + 1 <= p /\ p <= 1 + 3 * d + d
        BY <1>1, <1>3, <1>5, <1>7
      <3>2. 0 \in 0 .. 3 /\ 1 \in 0 .. 3 /\ 2 \in 0 .. 3 /\ 3 \in 0 .. 3
        OBVIOUS
      <3>3. QED
        BY <3>1, <3>2, Zenon
    <2> DEFINE k == p - 1 - r * d
    <2>2. k \in 1 .. Len(f) /\ p = 1 + r * d + k
      BY <1>1, <1>3, <1>7, <2>1, Times
    <2>3. s[p] = f[k]
      <3>1. CASE k = 1
        <4>1. r \notin 1 .. 3
          <5>1. SUFFICES ASSUME r \in 1 .. 3 PROVE FALSE
            OBVIOUS
          <5>2. s[1 + r * d + 1] = Pause + PULSE1
            BY <1>1, <1>7, <5>1
          <5>3. QED
            BY <1>2, <2>2, <3>1, <5>2, PausesAreSilent
        <4>2. p = 2
          BY <1>1, <2>2, <3>1, <4>1
        <4>3. QED
          BY <1>1, <3>1, <4>2
      <3>2. CASE k /= 1
        <4>1. k \in 2 .. Len(f)
          BY <1>1, <2>2, <3>2
        <4> HIDE DEF k
        <4>2. s[1 + r * d + k] = f[k]
          BY <1>1, <4>1, Zenon
        <4>3. QED
          BY <2>2, <4>2
      <3>3. QED
        BY <3>1, <3>2
    <2> HIDE DEF k
    <2>4. QED
      BY <1>4, <2>2, <2>3
  <1>8. CASE ~EndsHigh(f) /\ p /= 2 + 4 * d
    <2>1. PICK r \in 0 .. 3 : 1 + r * d <= p /\ p <= r * d + d
      <3>1. \/ 1 + 0 * d <= p /\ p <= 0 * d + d
            \/ 1 + 1 * d <= p /\ p <= 1 * d + d
            \/ 1 + 2 * d <= p /\ p <= 2 * d + d
            \/ 1 + 3 * d <= p /\ p <= 3 * d + d
        <4>1. d \in Nat /\ Len(s) = 4 * d /\ p \in Nat /\ p >= 2 /\ p <= 4 * d
          BY <1>1, <1>3, <1>8
        <4>2. QED
          BY <4>1
      <3>2. 0 \in 0 .. 3 /\ 1 \in 0 .. 3 /\ 2 \in 0 .. 3 /\ 3 \in 0 .. 3
        OBVIOUS
      <3>3. QED
        BY <3>1, <3>2, Zenon
    <2> DEFINE k == p - 1 - r * d
    <2>2. k \in 0 .. Len(f) /\ p = 1 + r * d + k
      BY <1>1, <1>3, <1>8, <2>1, Times
    <2>3. k /= 0
      <3>1. SUFFICES ASSUME k = 0 PROVE FALSE
        OBVIOUS
      <3>2. p = 1 + r * d
        BY <2>2, <3>1, <1>1, Times
      <3>3. r \in 1 .. 3
        BY <1>1, <1>3, <3>2
      <3>4. s[1 + r * d] = Pause
        BY <1>1, <1>8, <3>3
      <3>5. QED
        BY <1>2, <3>2, <3>4, PausesAreSilent
    <2>4. k \in 1 .. Len(f)
      BY <1>1, <2>2, <2>3
    <2>5. s[p] = f[k]
      <3>1. CASE k = 1
        <4>1. CASE r = 0
          <5>1. p = 2
            BY <1>1, <2>2, <3>1, <4>1
          <5>2. QED
            BY <1>1, <3>1, <5>1
        <4>2. CASE r \in 1 .. 3
          <5>1. s[1 + r * d + 1] = f[1]
            BY <1>1, <1>8, <4>2
          <5>2. QED
            BY <2>2, <3>1, <5>1
        <4>3. QED
          BY <4>1, <4>2
      <3>2. CASE k /= 1
        <4>1. k \in 2 .. Len(f)
          BY <1>1, <2>4, <3>2
        <4> HIDE DEF k
        <4>2. s[1 + r * d + k] = f[k]
          BY <1>1, <4>1, Zenon
        <4>3. QED
          BY <2>2, <4>2
      <3>3. QED
        BY <3>1, <3>2
    <2> HIDE DEF k
    <2>6. QED
      BY <1>4, <2>2, <2>4, <2>5
  <1>9. QED
    BY <1>6, <1>7, <1>8

\* Each interval of a frame is one of a bit.
LEMMA IntervalOfSomeBit ==
  ASSUME NEW m \in Messages, NEW i \in 1 .. Len(FrameUsec(m))
  PROVE  \E b \in 0 .. FrameLength - 1, h \in {0, 1} :
           (h = 1 => FrameBits(m)[b + 1] = 1) /\ i = Intervals(m, b) + h + 1
  <1> DEFINE Ended == {b \in 0 .. FrameLength : i <= Intervals(m, b)}
  <1>1. FrameLength \in Nat /\ Len(FrameUsec(m)) = Intervals(m, FrameLength) /\ i \in Nat /\ i > 0
    BY FirstsNat, FrameEndsWithItsBits
  <1>2. PICK c \in Ended : \A b \in Ended : c <= b
    <2>1. Ended \subseteq Nat
      BY <1>1
    <2>2. FrameLength \in Ended
      BY <1>1, FrameEndsWithItsBits
    <2> HIDE DEF Ended
    <2>3. QED
      BY <2>1, <2>2, Least
  <1>3. c \in 0 .. FrameLength /\ i <= Intervals(m, c)
    BY <1>2
  <1>4. c /= 0
    <2>1. Intervals(m, 0) = 0
      BY NoBits
    <2>2. QED
      BY <1>1, <1>3, <2>1
  <1> DEFINE b == c - 1
  <1>5. b \in 0 .. FrameLength - 1 /\ b + 1 = c /\ b \notin Ended /\ b \in 0 .. FrameLength
    BY <1>1, <1>2, <1>3, <1>4
  <1>6. Intervals(m, b) \in Nat /\ ~(i <= Intervals(m, b))
    BY <1>5, BitsUsecType
  <1>7. Intervals(m, c) = Intervals(m, b) + (IF FrameBits(m)[b + 1] = 1 THEN 2 ELSE 1)
    <2> HIDE DEF b
    <2>1. Intervals(m, b + 1) = Intervals(m, b) + (IF FrameBits(m)[b + 1] = 1 THEN 2 ELSE 1)
      BY <1>5, IntervalsOfBit
    <2>2. QED
      BY <1>5, <2>1
  <1> HIDE DEF b
  <1>8. CASE i = Intervals(m, b) + 1
    <2>1. i = Intervals(m, b) + 0 + 1
      BY <1>6, <1>8
    <2>2. QED
      BY <1>5, <2>1
  <1>9. CASE i /= Intervals(m, b) + 1
    <2>1. FrameBits(m)[b + 1] = 1 /\ i = Intervals(m, b) + 1 + 1
      BY <1>1, <1>3, <1>6, <1>7, <1>9
    <2>2. QED
      BY <1>5, <2>1
  <1>10. QED
    BY <1>8, <1>9

\* An interval that does not fit the start bits resets the receiver,
LEMMA StartBroken ==
  ASSUME NEW g, Edge(g),
         (Short(g) /\ state \in 4 .. 7) \/ (Long(g) /\ state \in 0 .. 3)
  PROVE  state' = -1 /\ called' = {}
  <1>1. Counts(g) /\ ~TooShort(g) /\ ~(Duration(g) > max2period)
    BY HalfCounts, LongCounts
  <1>2. \/ state \in 4 .. 7 /\ Duration(g) < min2period
        \/ state \in 0 .. 3 /\ IsLong(g)
    BY HalfCounts, LongCounts DEF Short, max1period, min2period
  <1>3. /\ ~EdgeTooEarly(g) /\ ~Silence(g) /\ ~Start(g) /\ ~Wait(g) /\ ~StartBitOne(g)
        /\ ~DataInterval(g) /\ ~LastInterval(g)
    BY <1>1, <1>2
       DEF Counts, EdgeTooEarly, Silence, Start, Wait, StartBitOne,
           DataInterval, LastInterval
  <1>4. ~StartBitZero(g)
    <2>1. SUFFICES ASSUME StartBitZero(g) PROVE FALSE
      OBVIOUS
    <2>2. state \in 4 .. 7 /\ Duration(g) >= min2period
      BY <2>1 DEF StartBitZero
    <2>3. Short(g) /\ Duration(g) = g
      BY <1>2, <2>2, HalfCounts
    <2>4. QED
      BY <2>2, <2>3 DEF Short, max1period, min2period
  <1>5. QED
    BY <1>3, <1>4 DEF Edge, StartBitWrong, Reset

\* and from rest it may begin with any interval, but calls nobody.
LEMMA FromRest ==
  ASSUME NEW g \in Nat, state = -1, Edge(g)
  PROVE  /\ called' = {}
         /\ \/ state' = -1
            \/ /\ state' = 1 /\ code' = [Cleared EXCEPT !.sync = 1]
               /\ Duration(g) < max1period
  <1>1. /\ ~StartBitOne(g) /\ ~StartBitZero(g) /\ ~StartBitWrong(g)
        /\ ~DataInterval(g) /\ ~LastInterval(g) /\ ~EdgeTooEarly(g)
    BY DEF StartBitOne, StartBitZero, StartBitWrong, DataInterval, LastInterval, EdgeTooEarly,
           TooShort
  <1>2. CASE Silence(g)
    BY <1>2 DEF Silence, Reset
  <1>3. CASE Wait(g)
    BY <1>3 DEF Wait
  <1>4. CASE Start(g)
    BY <1>4 DEF Start
  <1>5. QED
    BY <1>1, <1>2, <1>3, <1>4 DEF Edge

\* Nothing is complete before the last bit.
LEMMA NotComplete ==
  ASSUME NEW g, state \in Int, state < FrameEnd - 2, Edge(g)
  PROVE  called' = {}
  <1>1. FrameEnd \in Nat
    BY Ends, FirstsNat
  <1>2. LastHalf(g) + 1 < FrameEnd
    BY <1>1 DEF LastHalf
  <1>3. ~LastInterval(g)
    <2>1. LastHalf(g) \in Int
      BY DEF LastHalf
    <2>2. QED
      BY <1>1, <1>2, <2>1 DEF LastInterval
  <1>4. QED
    BY <1>3 DEF Edge, EdgeTooEarly, Silence, Reset, Start, Wait, StartBitOne, StartBitZero,
                StartBitWrong, DataInterval

LEMMA CompleteRests ==
  ASSUME NEW c, Complete(c)
  PROVE  called' \subseteq {c} /\ state' \in {-1, 0}
  BY DEF Complete

\* From the beginning of the frame, or from a time after it, to half bit n: what
\* it may have counted so far.  In the start bits it may be anywhere before half
\* bit n.  Beyond them it is behind by the four start bits at least, but for three
\* half bits, since it leaves the start bits that are 1 with a 0 only.
Behind(s, n) == s \in Nat /\ IF n <= 4 THEN s < n ELSE s <= n - 5

\* Where else it may be: one or two half bits ahead in the start bits that are 1,
\* or so far behind in those that are 0 that the next of them resets it.
Beside(s, n) ==
  \/ s = n + 1 /\ n <= 3
  \/ s = n + 2 /\ n <= 2
  \/ s = 2 /\ n = 6

\* Where the receiver, in state s and with code c, may be when half h of bit b
\* comes next: at rest, at that half of that bit, beside it, or behind.
Stands(s, c, m, b, h) ==
  \/ s = -1
  \/ b < FrameLength /\ Heard(s, c, m, b, h)
  \/ Beside(s, 2 * b + h)
  \/ Behind(s, 2 * b + h)

\* It has just been reset, and may have begun anew.
Fresh(s, c) ==
  \/ s = -1
  \/ /\ s = 1
     /\ c.address = 0 /\ c.channel = 0 /\ c.wconst = 0 /\ c.humidity = 0 /\ c.temperature = 0

LEMMA FirstFourBits ==
  ASSUME NEW m \in Messages, NEW b \in Nat, NEW h \in {0, 1},
         h = 1 => FrameBits(m)[b + 1] = 1
  PROVE  /\ b \in {0, 1} => FrameBits(m)[b + 1] = 1
         /\ b \in {2, 3} => FrameBits(m)[b + 1] = 0 /\ h = 0
  BY FrameBitsAre

LEMMA FreshFromRest ==
  ASSUME NEW g \in Nat, state = -1, Edge(g)
  PROVE  called' = {} /\ Fresh(state', code')
  <1>1. /\ called' = {}
        /\ state' = -1 \/ (state' = 1 /\ code' = [Cleared EXCEPT !.sync = 1])
    BY FromRest
  <1>2. QED
    BY <1>1 DEF Fresh, Cleared

LEMMA FreshStands ==
  ASSUME NEW m \in Messages, NEW b \in 0 .. FrameLength - 1, NEW h \in {0, 1},
         h = 1 => FrameBits(m)[b + 1] = 1, NEW s, NEW c, Fresh(s, c)
  PROVE  Stands(s, c, m, b, h)
  <1>1. b \in Nat /\ (b \in {2, 3} => h = 0)
    BY FirstsNat, FirstFourBits
  <1>2. CASE s = -1
    BY <1>2 DEF Stands
  <1>3. CASE s = 1 /\ b = 0
    <2>1. CASE h = 0
      BY <1>3, <2>1 DEF Stands, Beside
    <2>2. CASE h = 1
      <3>1. Read(c, m, b)
        BY <1>3, NothingRead DEF Fresh
      <3>2. Heard(s, c, m, b, h) /\ b < FrameLength
        BY <1>3, <2>2, <3>1, FirstsNat, WidthsNat DEF Heard
      <3>3. QED
        BY <3>2 DEF Stands
    <2>3. QED
      BY <2>1, <2>2
  <1>4. CASE s = 1 /\ b /= 0
    <2>1. Behind(s, 2 * b + h)
      BY <1>1, <1>4 DEF Behind
    <2>2. QED
      BY <2>1 DEF Stands
  <1>5. QED
    BY <1>2, <1>3, <1>4 DEF Fresh

\* A shift of the whole frame by at most a half bit ahead or by some bits behind
\* is kept by each interval, or lost by a reset.
LEMMA ShiftedHeard ==
  ASSUME NEW m \in Messages, NEW b \in 0 .. FrameLength - 1, NEW h \in {0, 1},
         h = 1 => FrameBits(m)[b + 1] = 1,
         Beside(state, 2 * b + h) \/ Behind(state, 2 * b + h),
         NEW g, NextInterval(g, m, b), Edge(g),
         NEW n, n = 2 * b + h + (IF FrameBits(m)[b + 1] = 1 THEN 1 ELSE 2)
  PROVE  /\ called' = {}
         /\ state' = -1 \/ Behind(state', n) \/ Beside(state', n)
  <1>1. /\ b \in Nat /\ (b \in {0, 1} => FrameBits(m)[b + 1] = 1)
        /\ (b \in {2, 3} => FrameBits(m)[b + 1] = 0 /\ h = 0)
        /\ FrameEnd \in Nat /\ 2 * b + 2 <= FrameEnd
    BY FirstsNat, FirstFourBits, Ends
  <1>2. IF FrameBits(m)[b + 1] = 1 THEN Short(g) ELSE Long(g) /\ h = 0
    BY DEF NextInterval
  <1>3. state \in Nat
    BY <1>1 DEF Behind, Beside
  <1>4. CASE state \in 0 .. 3 /\ FrameBits(m)[b + 1] = 1
    <2>1. state' = state + 1 /\ called' = {}
      BY <1>2, <1>4, StartHalf
    <2> DEFINE z == 2 * b + h
    <2>2. z /= 4 /\ n = z + 1 /\ z \in Nat
      BY <1>1, <1>4
    <2>3. Beside(state, z) \/ Behind(state, z)
      OBVIOUS
    <2>7. z /= 6
      BY <1>1, <1>4
    <2> HIDE DEF z
    <2>4. CASE Beside(state, z)
      BY <1>4, <2>1, <2>2, <2>4, <2>7 DEF Beside
    <2>5. CASE Behind(state, z)
      <3>1. Behind(state', n)
        BY <1>4, <2>1, <2>2, <2>5 DEF Behind
      <3>2. QED
        BY <2>1, <3>1
    <2>6. QED
      BY <2>3, <2>4, <2>5
  <1>5. CASE state \in 0 .. 3 /\ FrameBits(m)[b + 1] /= 1
    <2>1. Long(g) /\ state \in 0 .. 3
      BY <1>2, <1>5
    <2>2. state' = -1 /\ called' = {}
      BY <2>1, StartBroken
    <2>3. QED
      BY <2>2
  <1>6. CASE state \in 4 .. 7 /\ FrameBits(m)[b + 1] = 1
    <2>1. Short(g) /\ state \in 4 .. 7
      BY <1>2, <1>6
    <2>2. state' = -1 /\ called' = {}
      BY <2>1, StartBroken
    <2>3. QED
      BY <2>2
  <1>7. CASE state \in 4 .. 7 /\ FrameBits(m)[b + 1] /= 1
    <2>1. state' = state + 2 /\ called' = {}
      BY <1>2, <1>7, StartLong
    <2>2. n = 2 * b + h + 2 /\ 2 * b + h \in Nat
      BY <1>1, <1>7
    <2>3. QED
      BY <1>1, <1>2, <1>7, <2>1, <2>2 DEF Behind, Beside
  <1>8. CASE state >= 8
    <2>1. state <= 2 * b + h - 5 /\ 2 * b + h > 4
      BY <1>1, <1>8 DEF Behind, Beside
    <2>2. LastHalf(g) = state + (IF FrameBits(m)[b + 1] = 1 THEN 0 ELSE 1)
      BY <1>2, <1>3, HalfCounts, LongCounts DEF LastHalf
    <2>3. LastHalf(g) + 1 < FrameEnd
      BY <1>1, <1>2, <1>3, <2>1, <2>2
    <2>4. state' = LastHalf(g) + 1 /\ called' = {}
      <3>1. LastHalf(g) \in Nat
        BY <1>3, <2>2
      <3>2. QED
        BY <1>1, <1>2, <1>3, <1>8, <2>3, <3>1, DataHeard
    <2>5. Behind(state', n)
      BY <1>1, <1>2, <1>3, <2>1, <2>2, <2>4 DEF Behind
    <2>6. QED
      BY <2>4, <2>5
  <1>9. QED
    BY <1>3, <1>4, <1>5, <1>6, <1>7, <1>8

\* Where the next interval of a frame brings the receiver, and whom it calls with
\* what.
LEMMA StandsOn ==
  ASSUME NEW m \in Messages, NEW b \in 0 .. FrameLength - 1, NEW h \in {0, 1},
         h = 1 => FrameBits(m)[b + 1] = 1,
         code \in Codes, Stands(state, code, m, b, h),
         NEW g, NextInterval(g, m, b), Edge(g)
  PROVE  /\ \A c \in called' : Says(c, m)
         /\ IF BitGoesOn(m, b, h) THEN Stands(state', code', m, b, 1)
                                  ELSE Stands(state', code', m, b + 1, 0)
  <1> DEFINE nextB == IF BitGoesOn(m, b, h) THEN b ELSE b + 1
             nextH == IF BitGoesOn(m, b, h) THEN 1 ELSE 0
             n == 2 * b + h + (IF FrameBits(m)[b + 1] = 1 THEN 1 ELSE 2)
  <1>1. /\ b \in Nat /\ FrameLength \in Nat /\ b < FrameLength /\ b + 1 <= FrameLength
        /\ FrameLength > 5
    BY FirstsNat, WidthsNat
  <1>2. n = 2 * nextB + nextH /\ n \in Nat /\ n > 0
    BY <1>1 DEF BitGoesOn
  <1>3. /\ nextB \in Nat /\ nextH \in {0, 1} /\ nextB <= FrameLength
        /\ nextH = 1 => FrameBits(m)[nextB + 1] = 1 /\ nextB < FrameLength
    BY <1>1 DEF BitGoesOn
  <1>4. SUFFICES (\A c \in called' : Says(c, m)) /\ Stands(state', code', m, nextB, nextH)
    OBVIOUS
  <1> HIDE DEF nextB, nextH, n
  <1>5. ASSUME state' \in {-1, 0} PROVE Stands(state', code', m, nextB, nextH)
    <2>1. state' = -1 \/ Behind(state', n)
      BY <1>2, <1>5 DEF Behind
    <2>2. QED
      BY <1>2, <2>1 DEF Stands
  <1>6. CASE state = -1
    <2>1. g \in Nat
      BY DEF NextInterval, Short, Long
    <2>2. called' = {} /\ Fresh(state', code')
      BY <1>6, <2>1, FreshFromRest
    <2>3. CASE nextB \in 0 .. FrameLength - 1
      BY <1>3, <2>2, <2>3, FreshStands
    <2>4. CASE nextB = FrameLength
      <3>1. n > 6
        BY <1>1, <1>2, <1>3, <2>4
      <3>2. state' = -1 \/ Behind(state', n)
        BY <1>2, <2>2, <3>1 DEF Fresh, Behind
      <3>3. QED
        BY <1>2, <2>2, <3>2 DEF Stands
    <2>5. QED
      BY <1>1, <1>3, <2>3, <2>4
  <1>7. CASE Heard(state, code, m, b, h)
    <2>1. CASE \E c : Complete(c) /\ Read(c, m, FrameLength)
      <3>1. PICK c : Complete(c) /\ Read(c, m, FrameLength)
        BY <2>1
      <3>2. called' \subseteq {c} /\ state' \in {-1, 0} /\ Says(c, m)
        BY <3>1, CompleteRests, ReadAll
      <3>3. QED
        BY <1>5, <3>2
    <2>2. CASE /\ BitGoesOn(m, b, h) \/ b + 1 < FrameLength
               /\ called' = {}
               /\ IF BitGoesOn(m, b, h) THEN Heard(state', code', m, b, 1)
                                        ELSE Heard(state', code', m, b + 1, 0)
      <3>1. Heard(state', code', m, nextB, nextH) /\ nextB < FrameLength
        BY <1>1, <2>2 DEF nextB, nextH
      <3>2. QED
        BY <2>2, <3>1 DEF Stands
    <2>3. QED
      BY <1>7, <2>1, <2>2, BitsHeard
  <1>8. CASE Beside(state, 2 * b + h) \/ Behind(state, 2 * b + h)
    <2>1. n = 2 * b + h + (IF FrameBits(m)[b + 1] = 1 THEN 1 ELSE 2)
      BY DEF n
    <2>2. /\ called' = {}
          /\ state' = -1 \/ Behind(state', n) \/ Beside(state', n)
      BY <1>8, <2>1, ShiftedHeard
    <2>3. QED
      BY <1>2, <2>2 DEF Stands
  <1>9. QED
    BY <1>6, <1>7, <1>8 DEF Stands

\* Any other interval completes a frame at its last bit only, and that is the
\* parity, which nobody looks at.
LEMMA AnyInterval ==
  ASSUME NEW m \in Messages, NEW b \in 0 .. FrameLength - 1, NEW h \in {0, 1},
         code \in Codes, state \in Int, Stands(state, code, m, b, h), NEW g \in Nat, Edge(g)
  PROVE  \A c \in called' : Says(c, m)
  <1>1. /\ b \in Nat /\ FrameLength \in Nat /\ b < FrameLength /\ FrameLength > 5
        /\ FrameEnd = 2 * FrameLength
    BY FirstsNat, WidthsNat, Ends
  <1>2. CASE state = -1
    BY <1>2, FromRest
  <1>3. CASE state < FrameEnd - 2
    BY <1>3, NotComplete
  <1>4. CASE state /= -1 /\ ~(state < FrameEnd - 2)
    <2>1. ~Behind(state, 2 * b + h) /\ ~Beside(state, 2 * b + h)
      BY <1>1, <1>4 DEF Behind, Beside
    <2>2. Heard(state, code, m, b, h)
      BY <1>4, <2>1 DEF Stands
    <2>3. state = 2 * b + h /\ Read(code, m, b) /\ b = FrameLength - 1
      BY <1>1, <1>4, <2>2 DEF Heard
    <2>4. state >= 2 * (FrameLength - 1)
      BY <1>1, <2>3
    <2>5. \E x : WithInterval(g) = code \/ WithInterval(g) = [code EXCEPT !.par = x]
      <3>1. /\ ~(state < AddressEnd) /\ state \notin AddressEnd .. ChannelEnd - 1
            /\ state \notin ChannelEnd .. ConstEnd - 1
            /\ state \notin ConstEnd .. HumidityEnd - 1
            /\ state \notin HumidityEnd .. TemperatureEnd - 1
        BY <2>4, Ends, FirstsNat, WidthsNat
      <3>2. WithBit(Bit(g)) = [code EXCEPT !.par = Xor(code.par, Bit(g))]
        BY <3>1 DEF WithBit
      <3>3. QED
        BY <3>2 DEF WithInterval
    <2>6. LET c == WithInterval(g)
          IN  /\ c.address = code.address /\ c.channel = code.channel
              /\ c.wconst = code.wconst /\ c.humidity = code.humidity
              /\ c.temperature = code.temperature
      BY <2>5, CodeFields
    <2>7. Read(WithInterval(g), m, b + 1)
      <3>1. /\ Top(m.address, b + 1, 4, AddressBits) = Top(m.address, b, 4, AddressBits)
            /\ Top(m.channel, b + 1, ChannelFirst, ChannelBits)
                 = Top(m.channel, b, ChannelFirst, ChannelBits)
            /\ Top(m.wconst, b + 1, ConstFirst, ConstBits)
                 = Top(m.wconst, b, ConstFirst, ConstBits)
            /\ Top(m.humidity, b + 1, HumidityFirst, HumidityBits)
                 = Top(m.humidity, b, HumidityFirst, HumidityBits)
            /\ Top(m.temperature, b + 1, TemperatureFirst, TemperatureBits)
                 = Top(m.temperature, b, TemperatureFirst, TemperatureBits)
        <4>1. /\ b >= 4 + AddressBits /\ b >= ChannelFirst + ChannelBits
              /\ b >= ConstFirst + ConstBits /\ b >= HumidityFirst + HumidityBits
              /\ b >= TemperatureFirst + TemperatureBits
          BY <2>3, FirstsNat, WidthsNat
        <4>2. 4 \in Nat
          OBVIOUS
        <4>3. QED
          BY <1>1, <4>1, <4>2, FirstsNat, WidthsNat, TopSame
      <3>2. QED
        BY <2>3, <2>6, <3>1 DEF Read
    <2>8. Says(WithInterval(g), m)
      <3>1. b + 1 = FrameLength
        BY <1>1, <2>3
      <3>2. QED
        BY <2>7, <3>1, ReadAll
    <2>9. called' \subseteq {WithInterval(g)}
      BY CompleteRests
         DEF Edge, EdgeTooEarly, Silence, Reset, Start, Wait, StartBitOne, StartBitZero,
             StartBitWrong, DataInterval, LastInterval
    <2>10. QED
      BY <2>8, <2>9
  <1>5. QED
    BY <1>2, <1>3, <1>4

\* A piece of an interval that is too short for the receiver, n shifts later.
Tiny(g, n) == g + Tolerance - Most * n < min1period

\* Interval p of m comes next, whole, and the receiver will not complete a frame
\* with it but m.
Ready(m, idle, p, s, c) ==
  LET usec == MessageUsec(m, idle)
  IN  \/ Silent(usec[p]) /\ s < FrameEnd - 2
      \/ \E b \in 0 .. FrameLength - 1, h \in {0, 1} :
           /\ h = 1 => FrameBits(m)[b + 1] = 1
           /\ InFrame(m, p, Intervals(m, b) + h + 1)
           /\ usec[p] = FrameUsec(m)[Intervals(m, b) + h + 1]
           /\ Stands(s, c, m, b, h)

LEMMA TinyIsShort ==
  ASSUME InTolerance, NEW n \in 0 .. MaxShifts, NEW g \in Nat, Tiny(g, n)
  PROVE  g < min1period
  <1>1. MaxShifts \in Nat /\ n \in Nat /\ n <= MaxShifts
    BY LinkAssumption DEF LinkAssumption
  <1>2. Most \in Nat /\ Most * MaxShifts <= Tolerance
    BY MostIs
  <1>3. Most * n <= Most * MaxShifts /\ Most * n \in Nat /\ Most * MaxShifts \in Nat
    BY <1>1, <1>2
  <1>4. QED
    BY <1>2, <1>3 DEF Tiny, Tolerance, min1period

\* After a reset the receiver is ready for any interval but the first.
LEMMA FreshReady ==
  ASSUME NEW m \in Messages, NEW idle \in Nat, NEW p \in 2 .. Len(MessageUsec(m, idle)),
         NEW s, NEW c, Fresh(s, c)
  PROVE  Ready(m, idle, p, s, c)
  <1> DEFINE usec == MessageUsec(m, idle)
  <1>1. s < FrameEnd - 2
    BY Ends, FirstsNat, WidthsNat DEF Fresh
  <1>2. CASE Silent(usec[p])
    BY <1>1, <1>2 DEF Ready
  <1>3. CASE ~ Silent(usec[p])
    <2>1. PICK i : InFrame(m, p, i) /\ usec[p] = FrameUsec(m)[i]
      BY <1>3, EveryPosition
    <2>2. i \in 1 .. Len(FrameUsec(m))
      BY <2>1 DEF InFrame
    <2>3. PICK b \in 0 .. FrameLength - 1, h \in {0, 1} :
            (h = 1 => FrameBits(m)[b + 1] = 1) /\ i = Intervals(m, b) + h + 1
      BY <2>2, IntervalOfSomeBit
    <2>4. Stands(s, c, m, b, h)
      BY <2>3, FreshStands
    <2>5. QED
      BY <2>1, <2>3, <2>4 DEF Ready
  <1>4. QED
    BY <1>2, <1>3

\* An interval as long as it has to be, near enough for the receiver.
HeardAs(g, usec) ==
  /\ g \in Nat
  /\ Silent(usec) => g < min1period \/ Duration(g) > max2period
  /\ usec = PULSE1 => Short(g)
  /\ usec = PULSE0 => Long(g)

\* A whole interval makes it ready for the next one.
LEMMA WholeReady ==
  ASSUME ReceiverType, NEW m \in Messages, NEW idle \in Nat,
         NEW p \in 1 .. Len(MessageUsec(m, idle)), Ready(m, idle, p, state, code),
         NEW g, HeardAs(g, MessageUsec(m, idle)[p]), Edge(g)
  PROVE  /\ \A c \in called' : Says(c, m)
         /\ p < Len(MessageUsec(m, idle)) => Ready(m, idle, p + 1, state', code')
  <1> DEFINE usec == MessageUsec(m, idle)
             f == FrameUsec(m)
  <1>1. /\ usec \in Seq(Nat) /\ Len(usec) \in Nat /\ usec[p] \in Nat /\ p \in Nat
        /\ p < Len(usec) => p + 1 \in 2 .. Len(usec)
    <2>1. usec \in Seq(Nat)
      BY MessageBegins
    <2> HIDE DEF usec
    <2>2. QED
      BY <2>1 DEF usec
  <1>2. /\ code \in Codes /\ state \in Int /\ state >= -1
        /\ FrameLength \in Nat /\ g \in Nat
    BY FirstsNat, Ends DEF ReceiverType, HeardAs
  <1> HIDE DEF usec
  <1>3. CASE Silent(usec[p])
    <2>1. g < min1period \/ Duration(g) > max2period
      BY <1>3 DEF usec, HeardAs
    <2>2. state' = -1 /\ called' = {}
      BY <1>2, <2>1, RestAfter
    <2>3. Fresh(state', code')
      BY <2>2 DEF Fresh
    <2>4. p < Len(usec) => Ready(m, idle, p + 1, state', code')
      BY <1>1, <2>3, FreshReady DEF usec
    <2>5. QED
      BY <2>2, <2>4 DEF usec
  <1>4. ASSUME NEW b \in 0 .. FrameLength - 1, NEW h \in {0, 1},
               h = 1 => FrameBits(m)[b + 1] = 1,
               InFrame(m, p, Intervals(m, b) + h + 1),
               usec[p] = f[Intervals(m, b) + h + 1],
               Stands(state, code, m, b, h)
        PROVE  /\ \A c \in called' : Says(c, m)
               /\ p < Len(usec) => Ready(m, idle, p + 1, state', code')
    <2> DEFINE i == Intervals(m, b) + h + 1
    <2>1. /\ i = 1 + Intervals(m, b) + h /\ i \in 1 .. Len(f) /\ Len(f) \in Nat
          /\ Len(f) = Intervals(m, FrameLength)
          /\ b \in Nat /\ b < FrameLength
      <3>1. b \in Nat /\ b < FrameLength
        BY <1>2
      <3>2. Intervals(m, b) \in Nat
        BY <3>1, BitsUsecType
      <3>3. i \in 1 .. Len(f)
        BY <1>4 DEF InFrame
      <3>4. i = 1 + Intervals(m, b) + h
        BY <3>2
      <3>5. QED
        BY <3>1, <3>3, <3>4, FrameEndsWithItsBits
    <2> HIDE DEF i
    <2>2. /\ f[i] = IF FrameBits(m)[b + 1] = 1 THEN PULSE1 ELSE PULSE0
          /\ BitGoesOn(m, b, h) => i + 1 = 1 + Intervals(m, b) + 1 /\ i + 1 <= Len(f)
          /\ ~ BitGoesOn(m, b, h) => i + 1 = 1 + Intervals(m, b + 1) + 0
          /\ ~ BitGoesOn(m, b, h) /\ b + 1 < FrameLength => i + 1 <= Len(f)
      BY <1>4, <2>1, NextIntervalSent
    <2>3. NextInterval(g, m, b)
      <3>1. HeardAs(g, f[i])
        BY <1>4 DEF i, usec
      <3>2. QED
        BY <2>2, <3>1 DEF NextInterval, HeardAs
    <2>4. /\ \A c \in called' : Says(c, m)
          /\ IF BitGoesOn(m, b, h) THEN Stands(state', code', m, b, 1)
                                   ELSE Stands(state', code', m, b + 1, 0)
      BY <1>2, <1>4, <2>3, StandsOn
    <2>5. ASSUME p < Len(usec) PROVE Ready(m, idle, p + 1, state', code')
      <3>1. /\ i < Len(f) => InFrame(m, p + 1, i + 1) /\ usec[p + 1] = f[i + 1]
            /\ i = Len(f) => Silent(usec[p + 1])
        <4>1. InFrame(m, p, i)
          BY <1>4 DEF i
        <4>2. p < Len(MessageUsec(m, idle))
          BY <2>5 DEF usec
        <4>3. QED
          BY <1>1, <4>1, <4>2, NextPosition DEF usec
      <3>2. CASE BitGoesOn(m, b, h)
        <4>1. i < Len(f) /\ i + 1 = Intervals(m, b) + 1 + 1
          BY <2>1, <2>2, <3>2, BitsUsecType, SMTT(60)
        <4>2. /\ InFrame(m, p + 1, Intervals(m, b) + 1 + 1)
              /\ usec[p + 1] = f[Intervals(m, b) + 1 + 1]
          BY <3>1, <4>1
        <4>3. FrameBits(m)[b + 1] = 1 /\ Stands(state', code', m, b, 1)
          BY <2>4, <3>2 DEF BitGoesOn
        <4>4. QED
          BY <4>2, <4>3 DEF Ready, usec
      <3>3. CASE ~BitGoesOn(m, b, h) /\ b + 1 < FrameLength
        <4>1. i < Len(f) /\ i + 1 = Intervals(m, b + 1) + 0 + 1
          BY <2>1, <2>2, <3>3, BitsUsecType, SMTT(60)
        <4>2. /\ InFrame(m, p + 1, Intervals(m, b + 1) + 0 + 1)
              /\ usec[p + 1] = f[Intervals(m, b + 1) + 0 + 1]
          BY <3>1, <4>1
        <4>3. Stands(state', code', m, b + 1, 0) /\ b + 1 \in 0 .. FrameLength - 1
          BY <1>2, <2>1, <2>4, <3>3
        <4>4. QED
          BY <4>2, <4>3 DEF Ready, usec
      <3>4. CASE ~BitGoesOn(m, b, h) /\ ~(b + 1 < FrameLength)
        <4>1. b + 1 = FrameLength
          BY <1>2, <2>1, <3>4
        <4>2. Silent(usec[p + 1])
          <5>1. i + 1 = 1 + Intervals(m, FrameLength) + 0
            BY <2>2, <3>4, <4>1
          <5>2. i = Len(f)
            BY <2>1, <5>1
          <5>3. QED
            BY <3>1, <5>2
        <4>3. state' < FrameEnd - 2
          <5>1. Stands(state', code', m, FrameLength, 0)
            BY <2>4, <3>4, <4>1
          <5>2. \/ state' = -1
                \/ Beside(state', 2 * FrameLength + 0)
                \/ Behind(state', 2 * FrameLength + 0)
            BY <1>2, <5>1 DEF Stands
          <5>3. QED
            BY <1>2, <5>2, Ends, FirstsNat, WidthsNat DEF Behind, Beside
        <4>4. QED
          BY <4>2, <4>3 DEF Ready, usec
      <3>5. QED
        BY <3>2, <3>3, <3>4
    <2>6. QED
      BY <2>4, <2>5
  <1>5. QED
    BY <1>3, <1>4 DEF Ready, usec

LEMMA ReadyOn ==
  ASSUME InTolerance, TypeOK, NEW m \in Messages, NEW idle \in Nat,
         NEW p \in 1 .. Len(MessageUsec(m, idle)), Ready(m, idle, p, state, code),
         NEW g \in Nat, Near(g, MessageUsec(m, idle)[p], shifts), Edge(g)
  PROVE  /\ \A c \in called' : Says(c, m)
         /\ p < Len(MessageUsec(m, idle)) => Ready(m, idle, p + 1, state', code')
  <1> DEFINE usec == MessageUsec(m, idle)[p]
  <1>1. /\ ReceiverType /\ shifts \in 0 .. MaxShifts
    BY DEF TypeOK
  <1>2. usec \in Nat
    <2>1. MessageUsec(m, idle) \in Seq(Nat)
      BY MessageBegins
    <2>2. QED
      BY <2>1
  <1> HIDE DEF usec
  <1>3. HeardAs(g, usec)
    BY <1>1, <1>2, NearSilence, NearHalf, NearLong DEF HeardAs, usec
  <1>4. QED
    BY <1>1, <1>3, WholeReady DEF usec

\* A piece of an interval leads to no other code.
LEMMA ReadyPiece ==
  ASSUME TypeOK, NEW m \in Messages, NEW idle, NEW p, Ready(m, idle, p, state, code),
         NEW g \in Nat, Edge(g)
  PROVE  \A c \in called' : Says(c, m)
  <1>1. code \in Codes /\ state \in Int
    BY DEF TypeOK, ReceiverType
  <1>2. CASE state < FrameEnd - 2
    BY <1>1, <1>2, NotComplete
  <1>3. ASSUME NEW b \in 0 .. FrameLength - 1, NEW h \in {0, 1}, Stands(state, code, m, b, h)
        PROVE  \A c \in called' : Says(c, m)
    BY <1>1, <1>3, AnyInterval
  <1>4. QED
    BY <1>2, <1>3 DEF Ready

--------------------------------------------------------------------------------
(* What is on the air is the rest of the message, some of its intervals in *)
(* pieces.                                                                 *)

\* Piece j of k is a whole interval: pos says which interval each piece is of, and
\* torn whether a piece of the first one is gone.
Whole(pos, torn, k, j) ==
  /\ j = 1 => ~torn
  /\ j > 1 => pos[j - 1] /= pos[j]
  /\ j < k => pos[j + 1] /= pos[j]

\* Of two pieces of an interval one is tiny, and after the first of them the rest
\* is tiny or finds the receiver at rest.
Pieces(m, idle, pos, torn, a, s, c, n) ==
  LET usec == MessageUsec(m, idle)
  IN  /\ pos \in [1 .. Len(a) -> 1 .. Len(usec)]
      /\ \A j \in 1 .. Len(a) - 1 :
           \/ pos[j + 1] = pos[j] + 1
           \/ pos[j + 1] = pos[j] /\ (Tiny(a[j], n) \/ Tiny(a[j + 1], n))
      /\ \A j \in 1 .. Len(a) : Whole(pos, torn, Len(a), j) => Near(a[j], usec[pos[j]], n)
      /\ IF torn THEN Tiny(a[1], n) \/ s = -1 ELSE Ready(m, idle, pos[1], s, c)

\* The inductive invariant.
OnlyPieces ==
  /\ noise \in Nat
  /\ air /= <<>> =>
       /\ sends /= <<>>
       /\ \E idle \in Idles, torn \in BOOLEAN : \E pos :
            Pieces(Last(sends), idle, pos, torn, air, state, code, shifts)

\* No noise has brought the receiver near the end of a frame.
FarFromEnd == air = <<>> => state < FrameEnd - 2

\* A glitch is shorter than half a bit, however its edges are shifted.
GlitchesShort == \A e \in Glitches : e + Tolerance < min1period

LEMMA PiecesInitially == LinkInit => OnlyPieces /\ OnlySent
  BY DEF LinkInit, Init, OnlyPieces, OnlySent

LEMMA SendPieces ==
  ASSUME InTolerance, TypeOK, FarFromEnd, NEW m \in SentMessages, NEW idle \in Idles,
         Send(m, idle)
  PROVE  OnlyPieces' /\ OnlySent'
  <1> DEFINE usec == MessageUsec(m, idle)
             pos == [j \in 1 .. Len(usec) |-> j]
  <1>1. m \in Messages /\ idle \in Nat /\ shifts \in Nat
    BY SentAreMessages, LinkAssumption DEF LinkAssumption, TypeOK
  <1>2. usec \in Seq(Nat) /\ usec[1] = idle /\ Len(usec) \in Nat /\ Len(usec) > 0
    BY <1>1, MessageBegins, FrameEndsWithItsBits
  <1>3. state < FrameEnd - 2 /\ Silent(idle)
    BY IdleIsSilent DEF Send, FarFromEnd
  <1> HIDE DEF usec
  <1>4. Ready(m, idle, 1, state, code)
    BY <1>2, <1>3 DEF Ready, usec
  <1>5. \A j \in 1 .. Len(usec) : pos[j] = j /\ Near(usec[j], usec[pos[j]], shifts)
    <2>1. SUFFICES ASSUME NEW j \in 1 .. Len(usec)
                   PROVE  pos[j] = j /\ Near(usec[j], usec[pos[j]], shifts)
      OBVIOUS
    <2>2. pos[j] = j /\ usec[j] \in Nat
      BY <1>2
    <2>3. Near(usec[j], usec[j], shifts)
      BY <1>1, <2>2, NearAtFirst
    <2>4. QED
      BY <2>2, <2>3
  <1>6. pos \in [1 .. Len(usec) -> 1 .. Len(usec)]
    OBVIOUS
  <1> HIDE DEF pos
  <1>7. Pieces(m, idle, pos, FALSE, usec, state, code, shifts)
    <2>1. \A j \in 1 .. Len(usec) - 1 : pos[j + 1] = pos[j] + 1
      <3>1. \A j \in 1 .. Len(usec) - 1 : j \in 1 .. Len(usec) /\ j + 1 \in 1 .. Len(usec)
        BY <1>2
      <3>2. QED
        BY <1>5, <3>1
    <2>2. pos[1] = 1
      BY <1>2, <1>5
    <2>3. QED
      BY <1>4, <1>5, <1>6, <2>1, <2>2 DEF Pieces, usec
  <1>8. Last(sends') = m /\ sends' /= <<>>
    <2>1. sends' = Append(sends, m) /\ sends \in Seq(SentMessages)
      BY DEF Send, TypeOK
    <2>2. QED
      BY <2>1 DEF Last
  <1>9. /\ air' = usec /\ state' = state /\ code' = code /\ shifts' = shifts
        /\ noise' = 0 /\ called' = {}
    BY DEF Send, usec
  <1>10. Pieces(Last(sends'), idle, pos, FALSE, air', state', code', shifts')
    BY <1>7, <1>8, <1>9
  <1>11. QED
    BY <1>8, <1>9, <1>10 DEF OnlyPieces, OnlySent

LEMMA NoisePieces ==
  ASSUME OnlyPieces, NEW g, Noise(g)
  PROVE  OnlyPieces' /\ OnlySent'
  BY DEF OnlyPieces, OnlySent, Noise

\* What is left after the first piece.
LEMMA PiecesLeft ==
  ASSUME NEW m, NEW idle, NEW pos, NEW torn \in BOOLEAN, NEW a \in Seq(Nat), Len(a) > 1,
         NEW s, NEW c, NEW n, Pieces(m, idle, pos, torn, a, s, c, n),
         NEW t, NEW d,
         IF pos[2] = pos[1] THEN Tiny(a[2], n) \/ t = -1
                            ELSE Ready(m, idle, pos[2], t, d)
  PROVE  \E now \in BOOLEAN : \E left : Pieces(m, idle, left, now, Tail(a), t, d, n)
  <1> DEFINE usec == MessageUsec(m, idle)
             k == Len(a) - 1
             b == Tail(a)
             left == [j \in 1 .. k |-> pos[j + 1]]
             cutNow == pos[2] = pos[1]
  <1>1. /\ k \in Nat /\ k > 0 /\ Len(a) = k + 1 /\ Len(b) = k /\ 1 \in 1 .. k
        /\ \A j \in 1 .. k : b[j] = a[j + 1] /\ j + 1 \in 1 .. Len(a)
    OBVIOUS
  <1> HIDE DEF k, b, usec
  <1>2. /\ pos \in [1 .. Len(a) -> 1 .. Len(usec)]
        /\ \A j \in 1 .. k :
             \/ pos[j + 1] = pos[j] + 1
             \/ pos[j + 1] = pos[j] /\ (Tiny(a[j], n) \/ Tiny(a[j + 1], n))
        /\ \A j \in 1 .. Len(a) : Whole(pos, torn, Len(a), j) => Near(a[j], usec[pos[j]], n)
    BY DEF Pieces, usec, k
  <1>3. left \in [1 .. k -> 1 .. Len(usec)] /\ \A j \in 1 .. k : left[j] = pos[j + 1]
    BY <1>1, <1>2
  <1> HIDE DEF left
  <1>4. left[1] = pos[2] /\ b[1] = a[2]
    <2>1. left[1] = pos[1 + 1] /\ b[1] = a[1 + 1]
      BY <1>1, <1>3
    <2>2. QED
      BY <2>1
  <1>5. ASSUME NEW j \in 1 .. k - 1
        PROVE  \/ left[j + 1] = left[j] + 1
               \/ left[j + 1] = left[j] /\ (Tiny(b[j], n) \/ Tiny(b[j + 1], n))
    <2>1. j \in 1 .. k /\ j + 1 \in 1 .. k
      BY <1>1
    <2>2. /\ left[j] = pos[j + 1] /\ left[j + 1] = pos[(j + 1) + 1]
          /\ b[j] = a[j + 1] /\ b[j + 1] = a[(j + 1) + 1]
      BY <1>1, <1>3, <2>1
    <2>3. \/ pos[(j + 1) + 1] = pos[j + 1] + 1
          \/ /\ pos[(j + 1) + 1] = pos[j + 1]
             /\ Tiny(a[j + 1], n) \/ Tiny(a[(j + 1) + 1], n)
      BY <1>2, <2>1
    <2>4. QED
      BY <2>2, <2>3
  <1>6. ASSUME NEW j \in 1 .. k, Whole(left, cutNow, k, j)
        PROVE  Near(b[j], usec[left[j]], n)
    <2>1. j + 1 \in 1 .. Len(a) /\ left[j] = pos[j + 1] /\ b[j] = a[j + 1] /\ j + 1 > 1
      BY <1>1, <1>3
    <2>2. pos[j] /= pos[j + 1]
      <3>1. CASE j = 1
        <4>1. ~ cutNow
          BY <1>6, <3>1 DEF Whole
        <4>2. QED
          BY <3>1, <4>1
      <3>2. CASE j > 1
        <4>1. left[j - 1] /= left[j]
          BY <1>6, <3>2 DEF Whole
        <4>2. j - 1 \in 1 .. k /\ (j - 1) + 1 = j
          BY <1>1, <3>2
        <4>3. left[j - 1] = pos[(j - 1) + 1]
          BY <1>3, <4>2
        <4>4. QED
          BY <2>1, <4>1, <4>2, <4>3
      <3>3. QED
        BY <3>1, <3>2
    <2>3. ASSUME j + 1 < Len(a) PROVE pos[(j + 1) + 1] /= pos[j + 1]
      <3>1. j < k /\ j + 1 \in 1 .. k
        BY <1>1, <2>3
      <3>2. left[j + 1] /= left[j]
        BY <1>6, <3>1 DEF Whole
      <3>3. left[j + 1] = pos[(j + 1) + 1]
        BY <1>3, <3>1
      <3>4. QED
        BY <2>1, <3>2, <3>3
    <2>4. Whole(pos, torn, Len(a), j + 1)
      <3>1. (j + 1) - 1 = j /\ j + 1 /= 1
        BY <1>1
      <3>2. QED
        BY <2>2, <2>3, <3>1 DEF Whole
    <2>5. Near(a[j + 1], usec[pos[j + 1]], n)
      BY <1>2, <2>1, <2>4
    <2>6. QED
      BY <2>1, <2>5
  <1>7. IF cutNow THEN Tiny(b[1], n) \/ t = -1 ELSE Ready(m, idle, left[1], t, d)
    BY <1>4
  <1> HIDE DEF cutNow
  <1>8. Pieces(m, idle, left, cutNow, b, t, d, n)
    BY <1>1, <1>3, <1>5, <1>6, <1>7 DEF Pieces, usec
  <1>9. cutNow \in BOOLEAN
    BY DEF cutNow
  <1>10. QED
    BY <1>8, <1>9 DEF b

LEMMA ArrivePieces ==
  ASSUME InTolerance, TypeOK, OnlyPieces, Arrive
  PROVE  OnlyPieces' /\ OnlySent'
  <1> DEFINE m == Last(sends)
             g == Head(air)
  <1>1. /\ sends /= <<>> /\ air /= <<>> /\ air' = Tail(air)
        /\ sends' = sends /\ shifts' = shifts /\ noise' = noise /\ Edge(g)
    BY DEF Arrive, OnlyPieces
  <1>2. PICK idle \in Idles, torn \in BOOLEAN : \E p :
          Pieces(m, idle, p, torn, air, state, code, shifts)
    BY <1>1 DEF OnlyPieces
  <1>3. PICK pos : Pieces(m, idle, pos, torn, air, state, code, shifts)
    BY <1>2
  <1>4. /\ m \in Messages /\ idle \in Nat /\ air \in Seq(Nat) /\ code \in Codes
        /\ shifts \in 0 .. MaxShifts /\ state \in Int /\ state >= -1
    BY <1>1, LastSent, SentAreMessages, FirstsNat, Ends DEF TypeOK, ReceiverType
  <1> DEFINE usec == MessageUsec(m, idle)
  <1> HIDE DEF m
  <1>5. /\ g = air[1] /\ g \in Nat /\ Len(air) \in Nat /\ Len(air) > 0 /\ 1 \in 1 .. Len(air)
    BY <1>1, <1>4
  <1>6. usec \in Seq(Nat) /\ Len(usec) \in Nat
    BY <1>4, MessageBegins
  <1> HIDE DEF g, usec
  <1>7. /\ pos \in [1 .. Len(air) -> 1 .. Len(usec)]
        /\ \A j \in 1 .. Len(air) - 1 :
             \/ pos[j + 1] = pos[j] + 1
             \/ pos[j + 1] = pos[j] /\ (Tiny(air[j], shifts) \/ Tiny(air[j + 1], shifts))
        /\ \A j \in 1 .. Len(air) : Whole(pos, torn, Len(air), j) =>
             Near(air[j], usec[pos[j]], shifts)
        /\ IF torn THEN Tiny(air[1], shifts) \/ state = -1
                  ELSE Ready(m, idle, pos[1], state, code)
    BY <1>3 DEF Pieces, usec
  <1>8. pos[1] \in 1 .. Len(usec)
    BY <1>5, <1>7
  <1>9. Len(air) > 1 =>
          /\ pos[2] \in 1 .. Len(usec)
          /\ \/ pos[2] = pos[1] + 1
             \/ pos[2] = pos[1] /\ (Tiny(air[1], shifts) \/ Tiny(air[2], shifts))
    <2>1. SUFFICES ASSUME Len(air) > 1
                   PROVE  /\ pos[2] \in 1 .. Len(usec)
                          /\ \/ pos[2] = pos[1] + 1
                             \/ /\ pos[2] = pos[1]
                                /\ Tiny(air[1], shifts) \/ Tiny(air[2], shifts)
      OBVIOUS
    <2>2. 2 \in 1 .. Len(air) /\ 1 \in 1 .. Len(air) - 1 /\ 1 + 1 = 2
      BY <1>5, <2>1
    <2>3. \/ pos[1 + 1] = pos[1] + 1
          \/ pos[1 + 1] = pos[1] /\ (Tiny(air[1], shifts) \/ Tiny(air[1 + 1], shifts))
      BY <1>7, <2>2, Zenon
    <2>4. QED
      BY <1>7, <2>2, <2>3
  <1>10. Tiny(air[1], shifts) => Fresh(state', code') /\ called' = {} /\ state' = -1
    BY <1>1, <1>4, <1>5, TinyIsShort, RestAfter DEF Fresh
  <1>11. state = -1 => Fresh(state', code') /\ called' = {}
    BY <1>1, <1>4, <1>5, FreshFromRest
  <1>12. \A c \in called' : Says(c, m)
    <2>1. CASE torn
      BY <1>7, <1>10, <1>11, <2>1
    <2>2. CASE ~torn
      <3>1. Ready(m, idle, pos[1], state, code)
        BY <1>7, <2>2
      <3>2. QED
        BY <1>1, <1>4, <1>5, <3>1, ReadyPiece
    <2>3. QED
      BY <2>1, <2>2
  <1>13. ASSUME Len(air) > 1
         PROVE  IF pos[2] = pos[1] THEN Tiny(air[2], shifts) \/ state' = -1
                                   ELSE Ready(m, idle, pos[2], state', code')
    <2>1. CASE pos[2] = pos[1]
      BY <1>8, <1>9, <1>10, <1>13, <2>1
    <2>2. CASE pos[2] /= pos[1]
      <3>1. pos[2] = pos[1] + 1 /\ pos[2] \in 2 .. Len(usec) /\ pos[1] < Len(usec)
        BY <1>6, <1>8, <1>9, <1>13, <2>2
      <3>2. CASE torn
        <4>1. Fresh(state', code')
          BY <1>7, <1>10, <1>11, <3>2
        <4>2. Ready(m, idle, pos[2], state', code')
          BY <1>4, <3>1, <4>1, FreshReady DEF usec
        <4>3. QED
          BY <2>2, <4>2
      <3>3. CASE ~torn
        <4>1. Whole(pos, torn, Len(air), 1)
          BY <2>2, <3>3 DEF Whole
        <4>2. Near(g, usec[pos[1]], shifts) /\ Ready(m, idle, pos[1], state, code)
          BY <1>5, <1>7, <3>3, <4>1
        <4>3. Ready(m, idle, pos[1] + 1, state', code')
          BY <1>1, <1>4, <1>5, <1>8, <3>1, <4>2, ReadyOn DEF usec
        <4>4. QED
          BY <2>2, <3>1, <4>3
      <3>4. QED
        BY <3>2, <3>3
    <2>3. QED
      BY <2>1, <2>2
  <1>14. OnlySent'
    BY <1>1, <1>12 DEF OnlySent, m
  <1>15. ASSUME air' /= <<>>
         PROVE  \E now \in BOOLEAN : \E left :
                  Pieces(m, idle, left, now, air', state', code', shifts')
    <2>1. Len(air) > 1
      BY <1>1, <1>4, <1>5, <1>15
    <2>2. QED
      BY <1>1, <1>3, <1>4, <1>13, <2>1, PiecesLeft
  <1>16. QED
    BY <1>1, <1>14, <1>15 DEF OnlyPieces, m

\* A glitch makes three pieces of the interval it is in.
LEMMA PiecesSplit ==
  ASSUME NEW m, NEW idle, NEW pos, NEW torn, NEW a \in Seq(Nat), Len(a) > 0,
         NEW s, NEW c, NEW n, Most * n \in Int, Pieces(m, idle, pos, torn, a, s, c, n),
         NEW e \in Nat, Tiny(e, n), NEW g \in Nat, g + e < a[1]
  PROVE  \E left :
           Pieces(m, idle, left, torn, <<g, e, a[1] - g - e>> \o Tail(a), s, c, n)
  <1> DEFINE usec == MessageUsec(m, idle)
             k == Len(a) + 2
             b == <<g, e, a[1] - g - e>> \o Tail(a)
             left == [j \in 1 .. k |-> IF j <= 3 THEN pos[1] ELSE pos[j - 2]]
  <1>1. /\ Len(a) \in Nat /\ k = Len(a) + 2 /\ Len(b) = k /\ a[1] \in Nat
        /\ b[1] = g /\ b[2] = e /\ b[3] = a[1] - g - e
        /\ \A j \in 4 .. k : b[j] = a[j - 2]
    BY SMTT(60)
  <1> HIDE DEF b, usec
  <1>2. /\ pos \in [1 .. Len(a) -> 1 .. Len(usec)]
        /\ \A j \in 1 .. Len(a) - 1 :
             \/ pos[j + 1] = pos[j] + 1
             \/ pos[j + 1] = pos[j] /\ (Tiny(a[j], n) \/ Tiny(a[j + 1], n))
        /\ \A j \in 1 .. Len(a) : Whole(pos, torn, Len(a), j) => Near(a[j], usec[pos[j]], n)
        /\ IF torn THEN Tiny(a[1], n) \/ s = -1 ELSE Ready(m, idle, pos[1], s, c)
    BY DEF Pieces, usec
  <1>3. /\ left \in [1 .. k -> 1 .. Len(usec)]
        /\ left[1] = pos[1] /\ left[2] = pos[1] /\ left[3] = pos[1]
        /\ \A j \in 4 .. k : left[j] = pos[j - 2]
    <2>1. pos[1] \in 1 .. Len(usec)
      BY <1>1, <1>2, SMTT(60)
    <2>2. \A j \in 4 .. k : j \in 1 .. k /\ ~(j <= 3) /\ j - 2 \in 1 .. Len(a)
      BY <1>1
    <2>3. 1 \in 1 .. k /\ 2 \in 1 .. k /\ 3 \in 1 .. k
      BY <1>1
    <2>4. \A j \in 1 .. k : j <= 3 \/ j \in 4 .. k
      BY <1>1
    <2> HIDE DEF k
    <2>5. left \in [1 .. k -> 1 .. Len(usec)]
      BY <1>2, <2>1, <2>2, <2>4
    <2>6. QED
      BY <2>2, <2>3, <2>5
  <1> HIDE DEF k, left
  <1>4. Tiny(a[1], n) => Tiny(g, n) /\ Tiny(a[1] - g - e, n)
    <2> DEFINE x == Most * n
               y == a[1]
    <2>1. x \in Int /\ y \in Nat /\ g + e < y
      BY <1>1
    <2> HIDE DEF x, y
    <2>2. y + Tolerance - x < min1period =>
            /\ g + Tolerance - x < min1period
            /\ (y - g - e) + Tolerance - x < min1period
      BY <2>1 DEF Tolerance, min1period
    <2>3. QED
      BY <2>2 DEF Tiny, x, y
  <1>5. ASSUME NEW j \in 1 .. k - 1
        PROVE  \/ left[j + 1] = left[j] + 1
               \/ left[j + 1] = left[j] /\ (Tiny(b[j], n) \/ Tiny(b[j + 1], n))
    <2>1. CASE j = 1
      <3>1. left[1 + 1] = left[1] /\ Tiny(b[1 + 1], n)
        BY <1>1, <1>3
      <3>2. QED
        BY <2>1, <3>1
    <2>2. CASE j = 2
      <3>1. left[2 + 1] = left[2] /\ Tiny(b[2], n)
        BY <1>1, <1>3
      <3>2. QED
        BY <2>2, <3>1
    <2>3. CASE j = 3
      <3>1. 1 \in 1 .. Len(a) - 1 /\ 4 \in 4 .. k /\ 3 + 1 = 4 /\ 4 - 2 = 1 + 1
        BY <1>1, <2>3, SMTT(60)
      <3>2. left[3 + 1] = pos[1 + 1] /\ b[3 + 1] = a[1 + 1]
        <4>1. left[4] = pos[4 - 2] /\ b[4] = a[4 - 2]
          BY <1>1, <1>3, <3>1
        <4>2. QED
          BY <3>1, <4>1
      <3>3. \/ pos[1 + 1] = pos[1] + 1
            \/ pos[1 + 1] = pos[1] /\ (Tiny(a[1], n) \/ Tiny(a[1 + 1], n))
        BY <1>2, <3>1, Zenon
      <3>4. QED
        BY <1>1, <1>3, <1>4, <2>3, <3>2, <3>3
    <2>4. CASE j > 3
      <3>1. /\ j - 2 \in 1 .. Len(a) - 1 /\ j \in 4 .. k /\ j + 1 \in 4 .. k
            /\ (j + 1) - 2 = (j - 2) + 1
        BY <1>1, <2>4, SMTT(60)
      <3>2. left[j + 1] = pos[(j - 2) + 1] /\ b[j + 1] = a[(j - 2) + 1]
        BY <1>1, <1>3, <3>1
      <3>3. left[j] = pos[j - 2] /\ b[j] = a[j - 2]
        BY <1>1, <1>3, <3>1
      <3>4. \/ pos[(j - 2) + 1] = pos[j - 2] + 1
            \/ /\ pos[(j - 2) + 1] = pos[j - 2]
               /\ Tiny(a[j - 2], n) \/ Tiny(a[(j - 2) + 1], n)
        BY <1>2, <3>1
      <3>5. QED
        BY <3>2, <3>3, <3>4
    <2>5. QED
      BY <1>1, <2>1, <2>2, <2>3, <2>4
  <1>6. ASSUME NEW j \in 1 .. k, Whole(left, torn, k, j)
        PROVE  Near(b[j], usec[left[j]], n)
    <2>1. j > 3
      <3>1. j /= 1
        <4>1. left[1 + 1] = left[1] /\ 1 < k
          BY <1>1, <1>3
        <4>2. QED
          BY <1>6, <4>1 DEF Whole
      <3>2. j /= 2 /\ j /= 3
        <4>1. left[2 - 1] = left[2] /\ left[3 - 1] = left[3]
          BY <1>3
        <4>2. QED
          BY <1>6, <4>1 DEF Whole
      <3>3. QED
        BY <1>1, <3>1, <3>2
    <2>2. /\ j - 2 \in 1 .. Len(a) /\ j - 2 > 1 /\ j - 2 /= 1 /\ j > 1 /\ j \in 4 .. k
          /\ (j - 1) - 2 = (j - 2) - 1
      BY <1>1, <2>1
    <2>3. left[j] = pos[j - 2] /\ b[j] = a[j - 2]
      BY <1>1, <1>3, <2>2
    <2>4. left[j - 1] = pos[(j - 2) - 1]
      <3>1. CASE j = 4
        <4>1. left[4 - 1] = pos[(4 - 2) - 1]
          BY <1>3
        <4>2. QED
          BY <3>1, <4>1
      <3>2. CASE j > 4
        <4>1. j - 1 \in 4 .. k
          BY <1>1, <3>2
        <4>2. QED
          BY <1>3, <2>2, <4>1
      <3>3. QED
        BY <2>1, <3>1, <3>2
    <2>5. pos[(j - 2) - 1] /= pos[j - 2]
      BY <1>6, <2>2, <2>3, <2>4 DEF Whole
    <2>6. ASSUME j - 2 < Len(a) PROVE pos[(j - 2) + 1] /= pos[j - 2]
      <3>1. j < k /\ j + 1 \in 4 .. k /\ (j + 1) - 2 = (j - 2) + 1
        <4>1. j < k
          BY <1>1, <2>2, <2>6
        <4>2. QED
          BY <1>1, <2>1, <4>1
      <3>2. left[j + 1] /= left[j]
        BY <1>6, <3>1 DEF Whole
      <3>3. left[j + 1] = pos[(j - 2) + 1]
        BY <1>3, <3>1
      <3>4. QED
        BY <2>3, <3>2, <3>3
    <2>7. Whole(pos, torn, Len(a), j - 2)
      BY <2>2, <2>5, <2>6 DEF Whole
    <2>8. Near(a[j - 2], usec[pos[j - 2]], n)
      BY <1>2, <2>2, <2>7
    <2>9. QED
      BY <2>3, <2>8
  <1>7. IF torn THEN Tiny(b[1], n) \/ s = -1 ELSE Ready(m, idle, left[1], s, c)
    BY <1>1, <1>2, <1>3, <1>4
  <1>8. Pieces(m, idle, left, torn, b, s, c, n)
    BY <1>1, <1>3, <1>5, <1>6, <1>7 DEF Pieces, usec
  <1>9. QED
    BY <1>8 DEF b

LEMMA GlitchPieces ==
  ASSUME InTolerance, GlitchesShort, TypeOK, OnlyPieces, NEW e \in Glitches, Glitch(e)
  PROVE  OnlyPieces' /\ OnlySent'
  <1> DEFINE m == Last(sends)
  <1>1. /\ air /= <<>> /\ sends /= <<>> /\ called' = {}
        /\ UNCHANGED <<state, code, sends, shifts, noise>>
    BY DEF Glitch, OnlyPieces
  <1>2. PICK idle \in Idles, torn \in BOOLEAN : \E p :
          Pieces(m, idle, p, torn, air, state, code, shifts)
    BY <1>1 DEF OnlyPieces
  <1>3. PICK pos : Pieces(m, idle, pos, torn, air, state, code, shifts)
    BY <1>2
  <1>4. air \in Seq(Nat) /\ Len(air) > 0 /\ shifts \in Nat /\ e \in Nat /\ Head(air) = air[1]
    BY <1>1, LinkAssumption DEF LinkAssumption, TypeOK
  <1>5. PICK g \in {e, Head(air) \div 2, Head(air) - 2 * e} :
          /\ g > 0 /\ g + e < Head(air)
          /\ air' = <<g, e, Head(air) - g - e>> \o Tail(air)
    BY DEF Glitch
  <1>6. g \in Nat
    <2>1. Head(air) \in Nat
      BY <1>4
    <2>2. QED
      BY <1>4, <1>5, <2>1
  <1>7. Most * shifts \in Nat /\ Tiny(e, shifts)
    <2>1. Most \in Nat
      BY MostIs
    <2>2. Most * shifts \in Nat
      BY <1>4, <2>1
    <2>3. e + Tolerance < min1period
      BY DEF GlitchesShort
    <2>4. QED
      BY <1>4, <2>2, <2>3 DEF Tiny, Tolerance, min1period
  <1>8. \E left : Pieces(m, idle, left, torn, air', state, code, shifts)
    <2>1. Most * shifts \in Int /\ g + e < air[1]
      BY <1>4, <1>5, <1>7
    <2>2. air' = <<g, e, air[1] - g - e>> \o Tail(air)
      BY <1>4, <1>5
    <2> HIDE DEF m
    <2>3. \E left :
            Pieces(m, idle, left, torn, <<g, e, air[1] - g - e>> \o Tail(air), state, code, shifts)
      BY <1>3, <1>4, <1>6, <1>7, <2>1, PiecesSplit
    <2>4. QED
      BY <2>2, <2>3
  <1>9. noise' \in Nat
    BY <1>1 DEF OnlyPieces
  <1>10. QED
    BY <1>1, <1>2, <1>8, <1>9 DEF OnlyPieces, OnlySent

\* A tiny piece stays one when an edge is shifted.
LEMMA TinyOnce ==
  ASSUME InTolerance, NEW n \in Nat, NEW g \in Nat, Tiny(g, n),
         NEW x \in Int, -Most <= x, x <= Most
  PROVE  Tiny(g + x, n + 1)
  <1>1. Most \in Nat /\ Most * n \in Nat
    BY MostIs
  <1>2. Most * (n + 1) = Most * n + Most
    BY <1>1
  <1>3. QED
    BY <1>1, <1>2 DEF Tiny, Tolerance, min1period

LEMMA DisplacePieces ==
  ASSUME InTolerance, TypeOK, OnlyPieces, NEW d \in Shifts, Displace(d)
  PROVE  OnlyPieces' /\ OnlySent'
  <1> DEFINE m == Last(sends)
  <1>1. /\ air /= <<>> /\ sends /= <<>> /\ called' = {} /\ shifts' = shifts + 1
        /\ UNCHANGED <<state, code, sends, noise>>
        /\ Len(air) > 1
        /\ air' = [air EXCEPT ![1] = @ + d, ![2] = @ - d]
    BY DEF Displace, OnlyPieces
  <1>2. PICK idle \in Idles, torn \in BOOLEAN : \E p :
          Pieces(m, idle, p, torn, air, state, code, shifts)
    BY <1>1 DEF OnlyPieces
  <1>3. PICK pos : Pieces(m, idle, pos, torn, air, state, code, shifts)
    BY <1>2
  <1>4. /\ m \in Messages /\ idle \in Nat /\ shifts \in Nat /\ air \in Seq(Nat)
        /\ d \in Int /\ -Most <= d /\ d <= Most /\ Most \in Nat /\ 0 \in Int
    BY <1>1, LastSent, SentAreMessages, LinkAssumption, MostIs DEF LinkAssumption, TypeOK
  <1> DEFINE usec == MessageUsec(m, idle)
  <1> HIDE DEF m
  <1>5. usec \in Seq(Nat) /\ Len(usec) \in Nat
    BY <1>4, MessageBegins
  <1>6. /\ pos \in [1 .. Len(air) -> 1 .. Len(usec)]
        /\ \A j \in 1 .. Len(air) - 1 :
             \/ pos[j + 1] = pos[j] + 1
             \/ pos[j + 1] = pos[j] /\ (Tiny(air[j], shifts) \/ Tiny(air[j + 1], shifts))
        /\ \A j \in 1 .. Len(air) : Whole(pos, torn, Len(air), j) =>
             Near(air[j], usec[pos[j]], shifts)
        /\ IF torn THEN Tiny(air[1], shifts) \/ state = -1
                  ELSE Ready(m, idle, pos[1], state, code)
    BY <1>3 DEF Pieces, usec
  <1> HIDE DEF usec
  <1>7. Len(air') = Len(air) /\ Len(air) \in Nat /\ 1 \in 1 .. Len(air)
    BY <1>1, <1>4
  <1>8. ASSUME NEW j \in 1 .. Len(air)
        PROVE  \E x \in Int : -Most <= x /\ x <= Most /\ air'[j] = air[j] + x
    <2>1. CASE j = 1
      <3>1. air'[j] = air[j] + d
        BY <1>1, <1>4, <2>1
      <3>2. QED
        BY <1>4, <3>1
    <2>2. CASE j = 2
      <3>1. air'[j] = air[j] + (-d) /\ -d \in Int /\ -Most <= -d /\ -d <= Most
        BY <1>1, <1>4, <1>8, <2>2
      <3>2. QED
        BY <3>1
    <2>3. CASE j /= 1 /\ j /= 2
      <3>1. air'[j] = air[j] + 0 /\ -Most <= 0 /\ 0 <= Most
        BY <1>1, <1>4, <1>8, <2>3
      <3>2. QED
        BY <1>4, <3>1
    <2>4. QED
      BY <2>1, <2>2, <2>3
  <1>9. ASSUME NEW j \in 1 .. Len(air)
        PROVE  /\ Tiny(air[j], shifts) => Tiny(air'[j], shifts + 1)
               /\ Near(air[j], usec[pos[j]], shifts) =>
                    Near(air'[j], usec[pos[j]], shifts + 1)
    <2>1. PICK x \in Int : -Most <= x /\ x <= Most /\ air'[j] = air[j] + x
      BY <1>8
    <2>2. air[j] \in Nat /\ usec[pos[j]] \in Nat
      <3>1. air \in Seq(Nat) /\ pos \in [1 .. Len(air) -> 1 .. Len(usec)]
        BY <1>4, <1>6
      <3>2. air[j] \in Nat
        BY <3>1
      <3>3. pos[j] \in 1 .. Len(usec)
        BY <3>1
      <3>4. QED
        BY <1>5, <3>2, <3>3
    <2>3. Tiny(air[j], shifts) => Tiny(air[j] + x, shifts + 1)
      BY <1>4, <2>1, <2>2, TinyOnce
    <2>4. Near(air[j], usec[pos[j]], shifts) => Near(air[j] + x, usec[pos[j]], shifts + 1)
      BY <1>4, <2>1, <2>2, NearOnce
    <2>5. QED
      BY <2>1, <2>3, <2>4
  <1>10. Pieces(m, idle, pos, torn, air', state', code', shifts')
    <2>1. ASSUME NEW j \in 1 .. Len(air) - 1
          PROVE  \/ pos[j + 1] = pos[j] + 1
                 \/ /\ pos[j + 1] = pos[j]
                    /\ Tiny(air'[j], shifts + 1) \/ Tiny(air'[j + 1], shifts + 1)
      <3>1. j \in 1 .. Len(air) /\ j + 1 \in 1 .. Len(air)
        BY <1>7
      <3>2. QED
        BY <1>6, <1>9, <3>1
    <2>2. \A j \in 1 .. Len(air) : Whole(pos, torn, Len(air), j) =>
            Near(air'[j], usec[pos[j]], shifts + 1)
      BY <1>6, <1>9
    <2>3. IF torn THEN Tiny(air'[1], shifts + 1) \/ state = -1
                 ELSE Ready(m, idle, pos[1], state, code)
      BY <1>6, <1>7, <1>9
    <2>4. state' = state /\ code' = code /\ shifts' = shifts + 1
      BY <1>1
    <2>5. QED
      BY <1>6, <1>7, <2>1, <2>2, <2>3, <2>4 DEF Pieces, usec
  <1>11. sends' = sends /\ noise' \in Nat
    BY <1>1 DEF OnlyPieces
  <1>12. OnlyPieces'
    BY <1>1, <1>10, <1>11 DEF OnlyPieces, m
  <1>13. QED
    BY <1>1, <1>12 DEF OnlySent

LEMMA PiecesInductive ==
  ASSUME InTolerance, GlitchesShort, TypeOK, FarFromEnd, OnlyPieces, OnlySent,
         [LinkNext]_linkVars
  PROVE  OnlyPieces' /\ OnlySent'
  <1>1. ASSUME NEW m \in SentMessages, NEW idle \in Idles, Send(m, idle)
        PROVE  OnlyPieces' /\ OnlySent'
    BY <1>1, SendPieces
  <1>2. CASE Arrive
    BY <1>2, ArrivePieces
  <1>3. ASSUME NEW e \in Glitches, Glitch(e) PROVE OnlyPieces' /\ OnlySent'
    BY <1>3, GlitchPieces
  <1>4. ASSUME NEW d \in Shifts, Displace(d) PROVE OnlyPieces' /\ OnlySent'
    BY <1>4, DisplacePieces
  <1>5. ASSUME NEW g \in Gaps, Noise(g) PROVE OnlyPieces' /\ OnlySent'
    BY <1>5, NoisePieces
  <1>6. CASE UNCHANGED linkVars
    BY <1>6 DEF linkVars, receiverVars, OnlyPieces, OnlySent
  <1>7. QED
    BY <1>1, <1>2, <1>3, <1>4, <1>5, <1>6 DEF LinkNext

\* wt440Receiver.cpp, whose parity check is commented out, and wt440Transmitter.cpp:
\* during a message nothing is delivered but that message, for all widths of the
\* fields and all messages that fit them, whatever was delivered before, with edges
\* shifted by as much as the receiver's limits allow and any number of glitches
\* anywhere in it, each shorter than half a bit with its edges shifted.  When a
\* message starts the receiver must not be at its last two half bits: noise that
\* brought it there is completed by the message's first edges.
THEOREM OnlyThisMessage ==
  ASSUME InTolerance, GlitchesShort
  PROVE  LinkSpec /\ []FarFromEnd => []OnlySent
  <1>1. LinkSpec => []TypeOK
    BY TypeCorrect
  <1>2. LinkInit => OnlyPieces /\ OnlySent
    BY PiecesInitially
  <1>3. /\ TypeOK /\ FarFromEnd /\ OnlyPieces /\ OnlySent /\ [LinkNext]_linkVars
        => OnlyPieces' /\ OnlySent'
    BY PiecesInductive
  <1>4. QED
    BY <1>1, <1>2, <1>3, PTL DEF LinkSpec

--------------------------------------------------------------------------------
(* The repeater.                                                           *)

\* The first bit of each field in the frame.
FieldFirst == <<4, ChannelFirst, ConstFirst, HumidityFirst, TemperatureFirst>>

\* The running parity of a field, and what it begins with.
Running(par, v, bits) ==
  LET after[k \in 0 .. bits] ==
        IF k = 0 THEN par ELSE (after[k - 1] + (RightShift(v, bits - k) % 2)) % 2
  IN  after

ParityBefore(m) ==
  LET address == ParityAfter(0, m.address, AddressBits)
      channel == ParityAfter(address, m.channel, ChannelBits)
      wconst == ParityAfter(channel, m.wconst, ConstBits)
      humidity == ParityAfter(wconst, m.humidity, HumidityBits)
  IN  <<0, address, channel, wconst, humidity>>

\* sendMsg is at bit q of the frame, as its counters say,
At(s, t, q) ==
  \/ s.field = 0 /\ q \in 0 .. 3 /\ s.n = q + 1
  \/ /\ s.field \in 1 .. 5 /\ t.i \in 1 .. Widths[s.field]
     /\ q = FieldFirst[s.field] + Widths[s.field] - t.i
  \/ s.field = 6 /\ q = FrameLength - 1

\* the bit is the right one, and par the parity so far,
RightBit(s, q) ==
  /\ s.bit = FrameBits(s.msg)[q + 1]
  /\ s.field = 0 => s.par = 0
  /\ s.field \in 1 .. 5 =>
       s.par = Running(ParityBefore(s.msg)[s.field], Value(s.msg, s.field),
                       Widths[s.field])[q + 1 - FieldFirst[s.field]]

\* and so were all the bits before it.
Agrees(s, t, q) == At(s, t, q) /\ RightBit(s, q) /\ s.good = q

\* A sendMsg of the loop that is in a bit.
IsSend(s) ==
  /\ s = [phase |-> s.phase, msg |-> s.msg, bits |-> s.bits, field |-> s.field, n |-> s.n,
          bit |-> s.bit, half |-> s.half, first |-> s.first, par |-> s.par, good |-> s.good]
  /\ s.phase \in {"begin", "end"} /\ s.msg \in OwnReadings /\ s.bits = FrameBits(s.msg)
  /\ s.field \in 0 .. 6 /\ s.bit \in {0, 1} /\ s.half \in {0, 1} /\ (s.half = 1 => s.bit = 1)
  /\ s.first \in BOOLEAN /\ s.par \in {0, 1}

IsMembers(t) ==
  /\ t = [i |-> t.i, pulse |-> t.pulse, high |-> t.high]
  /\ t.i \in 0 .. CounterMod - 1 /\ t.high \in BOOLEAN

\* An interval that resets the receiver wherever it is.
Still(g) == g \in Nat /\ (g < min1period \/ Duration(g) > max2period)

FirstOfFrame(q) == q = 0 /\ send.half = 0

\* The receiver follows the loop: it is reset by the silence before the frame.
Follows(q) ==
  \/ /\ send.phase = "begin" /\ FirstOfFrame(q)
     /\ Still(since) /\ (pin /= send.first \/ since = Pause)
  \/ /\ send.phase = "begin" /\ ~FirstOfFrame(q)
     /\ since = 0 /\ Stands(state, code, send.msg, q, send.half)
  \/ /\ send.phase = "end" /\ pin = send.first
     /\ \/ since = 0 /\ Stands(state, code, send.msg, q, send.half)
        \/ since = Pause /\ FirstOfFrame(q)

\* The loop began in the middle of a sensor's message: the receiver may be anywhere.
Intrudes(q) ==
  \/ send.phase = "begin" /\ FirstOfFrame(q) /\ pin = FALSE /\ send.first = TRUE
  \/ send.phase = "begin" /\ ~FirstOfFrame(q) /\ since = 0
  \/ send.phase = "end" /\ pin = send.first /\ since = 0

\* The callback has taken the first edge away: the pin stays LOW for the first bit.
Swallowed(q) ==
  /\ q = 0 /\ pin = FALSE /\ Fresh(state, code)
  /\ \/ send.half = 0 /\ send.phase = "end" /\ send.first = TRUE /\ since = 0
     \/ send.half = 1 /\ send.first = FALSE /\ since = PULSE1

\* The callback has set i to 0 in the middle of a field: the loop goes on with the
\* bits above the field, and the receiver never reaches the end of the frame.
Astray ==
  /\ since = 0 /\ (send.phase = "end" => pin = send.first)
  /\ \/ \E q \in 4 .. FrameLength - 1 : At(send, tx, q) /\ state <= 2 * q + send.half - 6
     \/ send.field \in 1 .. 5 /\ tx.i = 0 /\ send.half = 1 /\ state <= 1
     \/ send.field \in 1 .. 5 /\ tx.i > Widths[send.field] /\ send.bit = 0 /\ state <= 2

Unheard ==
  /\ sent.calls = 0 /\ sent.frames \in 0 .. 3
  /\ sent.whole = sent.frames /\ tx.pulse = sent.frames
  /\ \E q \in 0 .. FrameLength - 1 :
       /\ Agrees(send, tx, q)
       /\ IF cut /\ sent.frames = 0 THEN Intrudes(q) ELSE Follows(q)

HeardEarly ==
  /\ cut /\ sent.calls = 1 /\ tx.pulse = Frames
  /\ \E q \in 0 .. FrameLength - 1 : Agrees(send, tx, q) /\ (Follows(q) \/ Swallowed(q))

HeardLate == cut /\ sent.calls = 1 /\ tx.pulse = Frames /\ Astray

\* The frames have been sent.
AtLast ==
  /\ since = Pause
  /\ sent.calls = 0 => sent.frames = 4 /\ sent.whole = 4
  /\ ~cut => sent.whole \in 1 .. 4
  /\ sent.calls \in 0 .. (IF cut THEN 2 ELSE 1)

Sending ==
  /\ sensorAir = <<>>
  /\ \/ send.phase = "last" /\ AtLast
     \/ IsSend(send) /\ (Unheard \/ HeardEarly \/ HeardLate)

\* What is left of a sensor's message.  A callback tears the gap it returns in.
Rest(m, idle, p) ==
  LET usec == MessageUsec(m, idle) IN SubSeq(usec, p, Len(usec))

SensorSends ==
  \E m \in Neighbours, idle \in Silences : \E p \in 1 .. Len(MessageUsec(m, idle)) :
    \/ /\ sensorAir = Rest(m, idle, p) /\ ~pending
       /\ p = 1 \/ Ready(m, idle, p, state, code)
    \/ /\ sensorAir /= <<>> /\ Tail(sensorAir) = Rest(m, idle, p + 1)
       /\ Fresh(state, code)

NotSending == pin = FALSE /\ (sensorAir = <<>> \/ SensorSends)

RepeaterInv ==
  /\ ReceiverType /\ IsMembers(tx)
  /\ pending => state = -1
  /\ IF send = Idle THEN NotSending ELSE Sending
  /\ SentInFull /\ EchoedOnce /\ RelayedWasSent

--------------------------------------------------------------------------------
(* The running parity, one bit at a time.                                  *)

\* What the definition of after says of a function, up to bit n.
IsRunning(f, par, v, bits, n) ==
  f = [k \in 0 .. n |->
         IF k = 0 THEN par ELSE (f[k - 1] + (RightShift(v, bits - k) % 2)) % 2]

LEMMA RunningExists ==
  ASSUME NEW par, NEW v, NEW bits, NEW n \in Nat
  PROVE  \E f : IsRunning(f, par, v, bits, n)
  <1> DEFINE Bad == {m \in Nat : ~ \E f : IsRunning(f, par, v, bits, m)}
  <1> SUFFICES ASSUME Bad /= {} PROVE FALSE
    OBVIOUS
  <1>1. PICK m \in Bad : \A k \in Bad : m <= k
    <2> HIDE DEF Bad
    <2>1. Bad \subseteq Nat
      BY DEF Bad
    <2> QED BY <2>1, Least
  <1>2. CASE m = 0
    <2>1. IsRunning([k \in 0 .. 0 |-> par], par, v, bits, 0)
      BY DEF IsRunning
    <2> QED BY <1>1, <1>2, <2>1
  <1>3. CASE m > 0
    <2>1. m - 1 \in Nat /\ m - 1 \notin Bad
      BY <1>1, <1>3
    <2>2. PICK f : IsRunning(f, par, v, bits, m - 1)
      BY <2>1
    <2> DEFINE next == (f[m - 1] + (RightShift(v, bits - m) % 2)) % 2
               g == [k \in 0 .. m |-> IF k = m THEN next ELSE f[k]]
    <2>3. ASSUME NEW k \in 0 .. m
          PROVE  g[k] = IF k = 0 THEN par ELSE (g[k - 1] + (RightShift(v, bits - k) % 2)) % 2
      BY <2>2, <1>3 DEF IsRunning
    <2>4. g = [k \in 0 .. m |-> g[k]]
      OBVIOUS
    <2>5. IsRunning(g, par, v, bits, m)
      <3> HIDE DEF g
      <3> QED BY <2>3, <2>4 DEF IsRunning
    <2> QED BY <1>1, <2>5
  <1>4. QED
    BY <1>1, <1>2, <1>3

LEMMA RunningIs ==
  ASSUME NEW par, NEW v, NEW bits \in Nat
  PROVE  /\ Running(par, v, bits)[0] = par
         /\ \A k \in 1 .. bits :
              Running(par, v, bits)[k]
                = (Running(par, v, bits)[k - 1] + (RightShift(v, bits - k) % 2)) % 2
  <1>1. IsRunning(Running(par, v, bits), par, v, bits, bits)
    <2>1. PICK f : IsRunning(f, par, v, bits, bits)
      BY RunningExists
    <2>2. QED
      BY <2>1 DEF Running, IsRunning
  <1>2. QED
    BY <1>1 DEF IsRunning

--------------------------------------------------------------------------------
(* The loops of sendMsg.                                                   *)

LEMMA Bounds ==
  /\ CounterMod \in Nat /\ CounterMod > 16
  /\ AddressBits < CounterMod /\ ChannelBits < CounterMod /\ ConstBits < CounterMod
  /\ HumidityBits < CounterMod /\ TemperatureBits < CounterMod
  BY RepeaterAssumption, WidthsNat DEF RepeaterAssumption

LEMMA WidthsAre ==
  /\ Widths[1] = AddressBits /\ Widths[2] = ChannelBits /\ Widths[3] = ConstBits
  /\ Widths[4] = HumidityBits /\ Widths[5] = TemperatureBits
  /\ DOMAIN Widths = 1 .. 5 /\ Parity = 6
  BY DEF Widths, Parity

LEMMA FirstsAre ==
  /\ FieldFirst[1] = 4 /\ FieldFirst[2] = ChannelFirst /\ FieldFirst[3] = ConstFirst
  /\ FieldFirst[4] = HumidityFirst /\ FieldFirst[5] = TemperatureFirst
  BY DEF FieldFirst

LEMMA ValuesAre ==
  ASSUME NEW m
  PROVE  /\ Value(m, 1) = m.address /\ Value(m, 2) = m.channel /\ Value(m, 3) = m.wconst
         /\ Value(m, 4) = m.humidity /\ Value(m, 5) = m.temperature
  BY DEF Value

\* Where the fields are in the frame,
LEMMA FieldPlaces ==
  ASSUME NEW f \in 1 .. 5
  PROVE  /\ Widths[f] \in Nat /\ Widths[f] > 0 /\ Widths[f] < CounterMod
         /\ FieldFirst[f] \in Nat /\ FieldFirst[f] >= 4
         /\ FieldFirst[f] + Widths[f] <= FrameLength - 1
         /\ f < 5 => FieldFirst[f + 1] = FieldFirst[f] + Widths[f]
         /\ f = 5 => FieldFirst[f] + Widths[f] = FrameLength - 1
  <1>1. f = 1 \/ f = 2 \/ f = 3 \/ f = 4 \/ f = 5
    OBVIOUS
  <1>2. QED
    BY <1>1, WidthsAre, FirstsAre, FirstsNat, WidthsNat, Bounds

\* what is in them,
LEMMA FieldBits ==
  ASSUME NEW m \in Messages, NEW f \in 1 .. 5
  PROVE  /\ Value(m, f) \in Nat
         /\ \A k \in 1 .. Widths[f] :
              FrameBits(m)[FieldFirst[f] + k] = RightShift(Value(m, f), Widths[f] - k) % 2
  <1>1. f = 1 \/ f = 2 \/ f = 3 \/ f = 4 \/ f = 5
    OBVIOUS
  <1>2. CASE f = 1
    BY <1>2, WidthsAre, FirstsAre, ValuesAre, MessageNat, FrameBitsAre
  <1>3. CASE f = 2
    BY <1>3, WidthsAre, FirstsAre, ValuesAre, MessageNat, FrameBitsAre
  <1>4. CASE f = 3
    BY <1>4, WidthsAre, FirstsAre, ValuesAre, MessageNat, FrameBitsAre
  <1>5. CASE f = 4
    BY <1>5, WidthsAre, FirstsAre, ValuesAre, MessageNat, FrameBitsAre
  <1>6. CASE f = 5
    BY <1>6, WidthsAre, FirstsAre, ValuesAre, MessageNat, FrameBitsAre
  <1>7. QED
    BY <1>1, <1>2, <1>3, <1>4, <1>5, <1>6

\* and the parity that goes from one to the next.
LEMMA FieldParity ==
  ASSUME NEW m
  PROVE  /\ ParityBefore(m)[1] = 0
         /\ \A f \in 1 .. 4 :
              ParityBefore(m)[f + 1]
                = Running(ParityBefore(m)[f], Value(m, f), Widths[f])[Widths[f]]
         /\ MessageParity(m)
              = Running(ParityBefore(m)[5], Value(m, 5), Widths[5])[Widths[5]]
  <1>1. \A p, v, n : ParityAfter(p, v, n) = Running(p, v, n)[n]
    BY DEF ParityAfter, Running
  <1> DEFINE p1 == ParityAfter(0, m.address, AddressBits)
             p2 == ParityAfter(p1, m.channel, ChannelBits)
             p3 == ParityAfter(p2, m.wconst, ConstBits)
             p4 == ParityAfter(p3, m.humidity, HumidityBits)
  <1>2. /\ ParityBefore(m) = <<0, p1, p2, p3, p4>>
        /\ MessageParity(m) = ParityAfter(p4, m.temperature, TemperatureBits)
    BY DEF ParityBefore, MessageParity
  <1>3. /\ p1 = Running(0, m.address, AddressBits)[AddressBits]
        /\ p2 = Running(p1, m.channel, ChannelBits)[ChannelBits]
        /\ p3 = Running(p2, m.wconst, ConstBits)[ConstBits]
        /\ p4 = Running(p3, m.humidity, HumidityBits)[HumidityBits]
        /\ MessageParity(m) = Running(p4, m.temperature, TemperatureBits)[TemperatureBits]
    BY <1>1, <1>2, Zenon
  <1> HIDE DEF p1, p2, p3, p4
  <1>4. /\ ParityBefore(m)[1] = 0 /\ ParityBefore(m)[2] = p1 /\ ParityBefore(m)[3] = p2
        /\ ParityBefore(m)[4] = p3 /\ ParityBefore(m)[5] = p4
    BY <1>2
  <1>5. ASSUME NEW f \in 1 .. 4
        PROVE  ParityBefore(m)[f + 1]
                 = Running(ParityBefore(m)[f], Value(m, f), Widths[f])[Widths[f]]
    <2>1. f = 1 \/ f = 2 \/ f = 3 \/ f = 4
      OBVIOUS
    <2>2. QED
      BY <2>1, <1>3, <1>4, WidthsAre, ValuesAre
  <1>6. QED
    BY <1>3, <1>4, <1>5, WidthsAre, ValuesAre

\* s and t have become z and u: sendMsg begins bit q.
BeginsAt(s, t, z, u, q) ==
  /\ IsSend(z) /\ IsMembers(u)
  /\ z.phase = "begin" /\ z.half = 0 /\ z.msg = s.msg /\ z.good = s.good
  /\ u.pulse = t.pulse
  /\ At(z, u, q)

LEMMA BeginBitIs ==
  ASSUME NEW s, NEW t, IsSend(s), IsMembers(t), NEW f \in 0 .. 6, NEW n, NEW b \in {0, 1}
  PROVE  LET z == BeginBit(s, t, f, n, b)
         IN  /\ IsSend(z) /\ z.phase = "begin" /\ z.half = 0 /\ z.msg = s.msg
             /\ z.good = s.good /\ z.field = f /\ z.n = n /\ z.bit = b /\ z.par = s.par
             /\ z.first = ~t.high
  <1> DEFINE z == BeginBit(s, t, f, n, b)
             first == ~t.high
  <1>1. first \in BOOLEAN
    OBVIOUS
  <1>2. z = [phase |-> "begin", msg |-> s.msg, bits |-> s.bits, field |-> f, n |-> n, bit |-> b,
             half |-> 0, first |-> first, par |-> s.par, good |-> s.good]
    <2> HIDE DEF first
    <2>1. z = [s EXCEPT !.field = f, !.n = n, !.bit = b, !.half = 0, !.first = first,
                        !.phase = "begin"]
      BY DEF BeginBit, first
    <2> HIDE DEF z
    <2>2. QED
      BY <2>1 DEF IsSend
  <1> HIDE DEF z, first
  <1>3. IsSend(z)
    BY <1>1, <1>2 DEF IsSend
  <1>4. QED
    BY <1>2, <1>3 DEF z, first

LEMMA BitAtIs ==
  ASSUME NEW m \in Messages, NEW f \in 1 .. 5, NEW i \in Nat
  PROVE  /\ BitAt(Value(m, f), i, f) \in {0, 1}
         /\ i \in 1 .. Widths[f] =>
              /\ BitAt(Value(m, f), i, f) = RightShift(Value(m, f), i - 1) % 2
              /\ BitAt(Value(m, f), i, f)
                   = FrameBits(m)[FieldFirst[f] + Widths[f] - i + 1]
         /\ i > Widths[f] => BitAt(Value(m, f), i, f) = 0
  <1>1. Widths[f] \in Nat /\ FieldFirst[f] \in Nat
    BY FieldPlaces
  <1>2. Value(m, f) \in Nat
    BY FieldBits
  <1>3. CASE i \in 1 .. Widths[f]
    <2>1. BitAt(Value(m, f), i, f) = RightShift(Value(m, f), i - 1) % 2
      BY <1>3 DEF BitAt
    <2> DEFINE k == Widths[f] - i + 1
    <2>2. k \in 1 .. Widths[f] /\ Widths[f] - k = i - 1
          /\ FieldFirst[f] + k = FieldFirst[f] + Widths[f] - i + 1
      BY <1>1, <1>3
    <2>3. FrameBits(m)[FieldFirst[f] + k] = RightShift(Value(m, f), Widths[f] - k) % 2
      <3> HIDE DEF k
      <3> QED BY <2>2, FieldBits
    <2>4. i - 1 \in Nat
      BY <1>3
    <2>5. RightShift(Value(m, f), i - 1) % 2 \in {0, 1}
      BY <1>2, <2>4, BitSent, Zenon
    <2> HIDE DEF k
    <2>6. QED
      BY <1>1, <1>3, <2>1, <2>2, <2>3, <2>5
  <1>4. CASE i \notin 1 .. Widths[f]
    <2>1. BitAt(Value(m, f), i, f) = 0
      BY <1>4 DEF BitAt
    <2>2. QED
      BY <1>4, <2>1
  <1>5. QED
    BY <1>3, <1>4

\* The parity goes on with the next bit of the field.
LEMMA ParityOn ==
  ASSUME NEW m \in Messages, NEW f \in 1 .. 5, NEW i \in 1 .. Widths[f], NEW par,
         NEW b, b = BitAt(Value(m, f), i, f)
  PROVE  (Running(par, Value(m, f), Widths[f])[Widths[f] - i] + b) % 2
           = Running(par, Value(m, f), Widths[f])[Widths[f] - i + 1]
  <1> DEFINE w == Widths[f]
             k == w - i + 1
             r == Running(par, Value(m, f), w)
  <1>1. w \in Nat
    BY FieldPlaces
  <1>2. b = RightShift(Value(m, f), i - 1) % 2
    BY BitAtIs
  <1>3. \A j \in 1 .. w : r[j] = (r[j - 1] + (RightShift(Value(m, f), w - j) % 2)) % 2
    BY <1>1, RunningIs
  <1> HIDE DEF r
  <1>4. k \in 1 .. w /\ k - 1 = w - i /\ w - k = i - 1
    BY <1>1
  <1> HIDE DEF k, w
  <1>5. r[k] = (r[k - 1] + (RightShift(Value(m, f), w - k) % 2)) % 2
    BY <1>3, <1>4
  <1>6. QED
    BY <1>2, <1>4, <1>5 DEF k, r, w

LEMMA SumBit == ASSUME NEW a \in {0, 1}, NEW b \in {0, 1} PROVE (a + b) % 2 \in {0, 1}
  OBVIOUS

LEMMA WithPar ==
  ASSUME NEW s, IsSend(s), NEW p \in {0, 1}
  PROVE  LET z == [s EXCEPT !.par = p]
         IN  /\ IsSend(z) /\ z.par = p /\ z.msg = s.msg /\ z.good = s.good
             /\ z.field = s.field /\ z.bit = s.bit /\ z.half = s.half /\ z.n = s.n
  <1> DEFINE z == [s EXCEPT !.par = p]
  <1>1. z = [phase |-> s.phase, msg |-> s.msg, bits |-> s.bits, field |-> s.field, n |-> s.n,
             bit |-> s.bit, half |-> s.half, first |-> s.first, par |-> p, good |-> s.good]
    BY DEF IsSend
  <1> HIDE DEF z
  <1>2. IsSend(z)
    BY <1>1 DEF IsSend
  <1>3. QED
    BY <1>1, <1>2 DEF z

LEMMA WithI ==
  ASSUME NEW t, IsMembers(t), NEW i \in 0 .. CounterMod - 1
  PROVE  LET u == [t EXCEPT !.i = i]
         IN  IsMembers(u) /\ u.i = i /\ u.pulse = t.pulse /\ u.high = t.high
  <1> DEFINE u == [t EXCEPT !.i = i]
  <1>1. u = [i |-> i, pulse |-> t.pulse, high |-> t.high]
    BY DEF IsMembers
  <1> HIDE DEF u
  <1>2. IsMembers(u)
    BY <1>1 DEF IsMembers
  <1>3. QED
    BY <1>1, <1>2 DEF u

\* The body of the loop over the bits of field f, with i in the member.
FieldBit(s, t, f, i) ==
  LET b == BitAt(Value(s.msg, f), i, f)
  IN  BeginBit([s EXCEPT !.par = (@ + b) % 2], t, f, 0, b)

\* z is the bit of field f with i in the member.
IsFieldBit(s, z, f, i) ==
  /\ IsSend(z) /\ z.phase = "begin" /\ z.half = 0
  /\ z.msg = s.msg /\ z.good = s.good /\ z.field = f
  /\ i > Widths[f] => z.bit = 0
  /\ i \in 1 .. Widths[f] =>
       (s.par = Running(ParityBefore(s.msg)[f], Value(s.msg, f), Widths[f])[Widths[f] - i]
          => RightBit(z, FieldFirst[f] + Widths[f] - i))

LEMMA FieldBitIs ==
  ASSUME NEW s, NEW v, IsSend(s), IsMembers(v), NEW f \in 1 .. 5, NEW i \in 0 .. CounterMod - 1
  PROVE  IsFieldBit(s, FieldBit(s, v, f, i), f, i)
  <1> DEFINE b == BitAt(Value(s.msg, f), i, f)
             p == (s.par + b) % 2
             y == [s EXCEPT !.par = p]
             w == Widths[f]
             q == FieldFirst[f] + w - i
             z == FieldBit(s, v, f, i)
  <1>1. s.msg \in Messages /\ s.par \in {0, 1} /\ i \in Nat
    BY Bounds, RepeaterAssumption DEF IsSend, RepeaterAssumption
  <1>2. b \in {0, 1} /\ (i > w => b = 0)
    BY <1>1, BitAtIs
  <1>3. p \in {0, 1}
    BY <1>1, <1>2, SumBit
  <1>4. z = BeginBit(y, v, f, 0, b)
    BY DEF FieldBit
  <1> HIDE DEF b, p
  <1>5. IsSend(y) /\ y.par = p /\ y.msg = s.msg /\ y.good = s.good
    BY <1>3, WithPar
  <1> HIDE DEF y
  <1>6. /\ IsSend(z) /\ z.phase = "begin" /\ z.half = 0 /\ z.msg = s.msg
        /\ z.good = s.good /\ z.field = f /\ z.bit = b /\ z.par = p
    <2>1. f \in 0 .. 6
      OBVIOUS
    <2>2. QED
      BY <1>2, <1>4, <1>5, <2>1, BeginBitIs
  <1> HIDE DEF z
  <1>7. ASSUME i \in 1 .. w,
               s.par = Running(ParityBefore(s.msg)[f], Value(s.msg, f), w)[w - i]
        PROVE  RightBit(z, q)
    <2>1. /\ w \in Nat /\ FieldFirst[f] \in Nat
      BY FieldPlaces
    <2>2. q + 1 - FieldFirst[f] = w - i + 1 /\ q + 1 = FieldFirst[f] + w - i + 1
      BY <1>7, <2>1
    <2>3. b = FrameBits(s.msg)[q + 1]
      <3>1. b = FrameBits(s.msg)[FieldFirst[f] + w - i + 1]
        BY <1>1, <1>7, BitAtIs DEF b
      <3> HIDE DEF q, w
      <3>2. QED
        BY <2>2, <3>1
    <2> HIDE DEF w
    <2>4. p = Running(ParityBefore(s.msg)[f], Value(s.msg, f), w)[w - i + 1]
      BY <1>1, <1>7, ParityOn DEF p, b, w
    <2> HIDE DEF q
    <2>5. z.par = Running(ParityBefore(z.msg)[z.field], Value(z.msg, z.field),
                          Widths[z.field])[q + 1 - FieldFirst[z.field]]
      BY <1>6, <2>2, <2>4 DEF w
    <2>6. z.bit = FrameBits(z.msg)[q + 1] /\ z.field /= 0
      BY <1>6, <2>3
    <2>7. QED
      BY <2>5, <2>6 DEF RightBit
  <1>8. QED
    <2>1. IsFieldBit(s, z, f, i)
      BY <1>2, <1>6, <1>7 DEF IsFieldBit
    <2>2. QED
      BY <2>1 DEF z

\* The first bit of a field, or the parity.
LEMMA FieldBegins ==
  ASSUME NEW s, NEW t, IsSend(s), IsMembers(t), NEW f \in 1 .. 6
  PROVE  LET next == BeginField(s, t, f)
             q == IF f = 6 THEN FrameLength - 1 ELSE FieldFirst[f]
         IN  /\ BeginsAt(s, t, next[1], next[2], q)
             /\ s.par = (IF f = 6 THEN MessageParity(s.msg) ELSE ParityBefore(s.msg)[f])
                  => RightBit(next[1], q)
  <1>1. s.msg \in Messages /\ s.par \in {0, 1}
    BY RepeaterAssumption DEF IsSend, RepeaterAssumption
  <1>2. CASE f = 6
    <2> DEFINE z == BeginBit(s, t, 6, 0, s.par)
    <2>1. BeginField(s, t, f) = <<z, t>>
      BY <1>2, WidthsAre DEF BeginField
    <2>2. /\ IsSend(z) /\ z.phase = "begin" /\ z.half = 0 /\ z.msg = s.msg
          /\ z.good = s.good /\ z.field = 6 /\ z.bit = s.par /\ z.par = s.par
      BY <1>1, BeginBitIs
    <2> HIDE DEF z
    <2>3. At(z, t, FrameLength - 1)
      BY <2>2 DEF At
    <2>4. FrameBits(s.msg)[FrameLength - 1 + 1] = MessageParity(s.msg)
      <3>1. FrameLength - 1 + 1 = FrameLength
        BY FirstsNat
      <3>2. QED
        BY <1>1, <3>1, FrameBitsAre
    <2>5. s.par = MessageParity(s.msg) => RightBit(z, FrameLength - 1)
      BY <2>2, <2>4 DEF RightBit
    <2>6. QED
      BY <1>2, <2>1, <2>2, <2>3, <2>5 DEF BeginsAt
  <1>3. CASE f \in 1 .. 5
    <2> DEFINE w == Widths[f]
               u == [t EXCEPT !.i = w]
               z == FieldBit(s, t, f, w)
    <2>1. w \in 0 .. CounterMod - 1 /\ w \in 1 .. w /\ FieldFirst[f] + w - w = FieldFirst[f]
          /\ w - w = 0 /\ f /= 6 /\ w \in Nat
      BY <1>3, FieldPlaces, Bounds
    <2>2. BeginField(s, t, f) = <<z, u>>
      BY <1>3, WidthsAre DEF BeginField, FieldBit
    <2>3. IsMembers(u) /\ u.i = w /\ u.pulse = t.pulse
      BY <2>1, WithI
    <2> HIDE DEF u
    <2>4. /\ IsSend(z) /\ z.phase = "begin" /\ z.half = 0
          /\ z.msg = s.msg /\ z.good = s.good /\ z.field = f
          /\ s.par = Running(ParityBefore(s.msg)[f], Value(s.msg, f), w)[w - w]
               => RightBit(z, FieldFirst[f] + w - w)
      <3>1. IsFieldBit(s, z, f, w)
        BY <1>3, <2>1, FieldBitIs
      <3> HIDE DEF z
      <3>2. QED
        BY <2>1, <3>1 DEF IsFieldBit
    <2> HIDE DEF z
    <2>5. At(z, u, FieldFirst[f])
      BY <1>3, <2>1, <2>3, <2>4 DEF At
    <2>6. BeginsAt(s, t, z, u, FieldFirst[f])
      BY <2>3, <2>4, <2>5 DEF BeginsAt
    <2>7. Running(ParityBefore(s.msg)[f], Value(s.msg, f), w)[0] = ParityBefore(s.msg)[f]
      BY <2>1, RunningIs
    <2> HIDE DEF w
    <2>8. QED
      BY <2>1, <2>2, <2>4, <2>6, <2>7
  <1>4. QED
    BY <1>2, <1>3

LEMMA DecrementIs ==
  ASSUME NEW i \in 0 .. CounterMod - 1
  PROVE  /\ Decrement(i) = IF i = 0 THEN CounterMod - 1 ELSE i - 1
         /\ Decrement(i) \in 0 .. CounterMod - 1
  <1>1. CASE i = 0
    BY <1>1, Bounds DEF Decrement
  <1>2. CASE i > 0
    BY <1>2, Bounds DEF Decrement
  <1>3. QED
    BY <1>1, <1>2, Bounds

LEMMA StartBitsAre ==
  /\ Len(StartBits) = 4
  /\ StartBits[1] = 1 /\ StartBits[2] = 1 /\ StartBits[3] = 0 /\ StartBits[4] = 0
  BY DEF StartBits

\* Inside a field.
WithCount(t, i) == [t EXCEPT !.i = i]

LEMMA InField ==
  ASSUME NEW s, NEW t, IsMembers(t), NEW i, i = Decrement(t.i)
  PROVE  /\ i = 0 => NextInField(s, t) = BeginField(s, [t EXCEPT !.i = 0], s.field + 1)
         /\ i /= 0 => LET u == WithCount(t, i)
                      IN  NextInField(s, t) = <<FieldBit(s, u, s.field, i), u>>
  BY DEF NextInField, FieldBit, WithCount

LEMMA ClearI ==
  ASSUME NEW t, IsMembers(t)
  PROVE  LET u == [t EXCEPT !.i = 0] IN IsMembers(u) /\ u.i = 0 /\ u.pulse = t.pulse
  BY WithI, Bounds

\* The bit after bit q, which begins as it has to if the parity is right.
LEMMA NextBitBegins ==
  ASSUME NEW s, NEW t, IsSend(s), IsMembers(t), NEW q \in Nat, q < FrameLength - 1, At(s, t, q)
  PROVE  LET next == NextBit(s, t)
         IN  /\ BeginsAt(s, t, next[1], next[2], q + 1)
             /\ RightBit(s, q) => RightBit(next[1], q + 1)
  <1>1. s.msg \in Messages /\ s.par \in {0, 1} /\ s.field \in 0 .. 6
    BY RepeaterAssumption DEF IsSend, RepeaterAssumption
  <1>2. CASE s.field = 0 /\ q < 3
    <2> DEFINE z == BeginBit(s, t, 0, s.n + 1, StartBits[s.n + 1])
    <2>1. s.n = q + 1 /\ q \in 0 .. 2
      BY <1>2 DEF At
    <2>2. NextBit(s, t) = <<z, t>>
      <3>1. s.field \notin DOMAIN Widths /\ s.n < Len(StartBits) /\ s.n /= Len(StartBits)
        BY <1>2, <2>1, StartBitsAre, WidthsAre
      <3>2. QED
        BY <1>2, <3>1 DEF NextBit
    <2>3. StartBits[s.n + 1] \in {0, 1} /\ StartBits[s.n + 1] = FrameBits(s.msg)[q + 1 + 1]
      <3>1. q = 0 \/ q = 1 \/ q = 2
        BY <2>1
      <3>2. /\ FrameBits(s.msg)[2] = 1 /\ FrameBits(s.msg)[3] = 0 /\ FrameBits(s.msg)[4] = 0
        BY <1>1, FrameBitsAre
      <3>3. QED
        BY <2>1, <3>1, <3>2, StartBitsAre
    <2>4. /\ IsSend(z) /\ z.phase = "begin" /\ z.half = 0 /\ z.msg = s.msg
          /\ z.good = s.good /\ z.field = 0 /\ z.n = s.n + 1
          /\ z.bit = StartBits[s.n + 1] /\ z.par = s.par
      BY <2>3, BeginBitIs
    <2> HIDE DEF z
    <2>5. At(z, t, q + 1)
      BY <2>1, <2>4 DEF At
    <2>6. RightBit(s, q) => RightBit(z, q + 1)
      BY <1>2, <2>3, <2>4 DEF RightBit
    <2>7. QED
      BY <2>2, <2>4, <2>5, <2>6 DEF BeginsAt
  <1>3. CASE s.field = 0 /\ q = 3
    <2>1. NextBit(s, t) = BeginField(s, t, 1)
      <3>1. s.field \notin DOMAIN Widths /\ s.n = Len(StartBits) /\ ~(s.n < Len(StartBits))
        BY <1>3, StartBitsAre, WidthsAre DEF At
      <3>2. QED
        BY <1>3, <3>1 DEF NextBit
    <2>2. LET next == BeginField(s, t, 1)
          IN  /\ BeginsAt(s, t, next[1], next[2], FieldFirst[1])
              /\ s.par = ParityBefore(s.msg)[1] => RightBit(next[1], FieldFirst[1])
      BY FieldBegins
    <2>3. FieldFirst[1] = q + 1 /\ ParityBefore(s.msg)[1] = 0
      BY <1>3, FirstsAre, FieldParity
    <2>4. RightBit(s, q) => s.par = 0
      BY <1>3 DEF RightBit
    <2>5. QED
      BY <2>1, <2>2, <2>3, <2>4
  <1>4. CASE s.field \in 1 .. 5
    <2> DEFINE f == s.field
               w == Widths[f]
               i == Decrement(t.i)
    <2>1. t.i \in 1 .. w /\ q = FieldFirst[f] + w - t.i /\ f \in 1 .. 5 /\ f /= 0
      BY <1>4 DEF At
    <2>2. /\ w \in Nat /\ FieldFirst[f] \in Nat /\ w < CounterMod
          /\ f < 5 => FieldFirst[f + 1] = FieldFirst[f] + w
          /\ f = 5 => FieldFirst[f] + w = FrameLength - 1
          /\ FrameLength \in Nat /\ CounterMod \in Nat
      BY <1>4, FieldPlaces, FirstsNat, Bounds
    <2> HIDE DEF w, f
    <2>3. i = t.i - 1 /\ i \in 0 .. CounterMod - 1
      <3>1. t.i \in 0 .. CounterMod - 1
        BY DEF IsMembers
      <3>2. QED
        BY <2>1, <2>2, <3>1, DecrementIs
    <2>4. NextBit(s, t) = NextInField(s, t)
      BY <2>1, WidthsAre DEF NextBit, f
    <2>5. RightBit(s, q) =>
            s.par = Running(ParityBefore(s.msg)[f], Value(s.msg, f), w)[q + 1 - FieldFirst[f]]
      BY <1>4 DEF RightBit, f, w
    <2>6. q + 1 - FieldFirst[f] = w - i
      BY <2>1, <2>2, <2>3
    <2> HIDE DEF i
    <2>7. CASE i = 0
      <3> DEFINE u == [t EXCEPT !.i = 0]
                 next == BeginField(s, u, f + 1)
                 p == IF f + 1 = 6 THEN FrameLength - 1 ELSE FieldFirst[f + 1]
      <3>1. IsMembers(u) /\ u.pulse = t.pulse
        BY ClearI
      <3>2. NextBit(s, t) = next
        BY <2>4, <2>7, InField DEF f, i
      <3> HIDE DEF u
      <3>3. f + 1 \in 1 .. 6
        BY <2>1
      <3>4. /\ BeginsAt(s, u, next[1], next[2], p)
            /\ s.par = (IF f + 1 = 6 THEN MessageParity(s.msg) ELSE ParityBefore(s.msg)[f + 1])
                 => RightBit(next[1], p)
        BY <3>1, <3>3, FieldBegins
      <3>5. p = q + 1
        BY <2>1, <2>2, <2>3, <2>7
      <3> HIDE DEF next, p
      <3>6. BeginsAt(s, t, next[1], next[2], q + 1)
        BY <3>1, <3>4, <3>5 DEF BeginsAt
      <3>7. Running(ParityBefore(s.msg)[f], Value(s.msg, f), w)[w]
              = IF f + 1 = 6 THEN MessageParity(s.msg) ELSE ParityBefore(s.msg)[f + 1]
        <4>1. CASE f = 5
          BY <4>1, FieldParity DEF w
        <4>2. CASE f \in 1 .. 4
          <5>1. f + 1 /= 6
            BY <4>2
          <5>2. QED
            BY <4>2, <5>1, FieldParity DEF w
        <4>3. QED
          BY <2>1, <4>1, <4>2
      <3>8. q + 1 - FieldFirst[f] = w
        BY <2>2, <2>6, <2>7
      <3>9. RightBit(s, q) => RightBit(next[1], q + 1)
        BY <2>5, <3>4, <3>5, <3>7, <3>8
      <3>10. QED
        BY <3>2, <3>6, <3>9
    <2>8. CASE i /= 0
      <3> DEFINE u == WithCount(t, i)
                 z == FieldBit(s, u, f, i)
      <3>1. IsMembers(u) /\ u.i = i /\ u.pulse = t.pulse
        BY <2>3, WithI DEF WithCount
      <3>2. NextBit(s, t) = <<z, u>>
        BY <2>4, <2>8, InField DEF f, i
      <3> HIDE DEF u
      <3>3. IsFieldBit(s, z, f, i)
        BY <2>1, <2>3, <3>1, FieldBitIs
      <3> HIDE DEF z
      <3>4. i \in 1 .. w /\ q + 1 = FieldFirst[f] + w - i
        BY <2>1, <2>2, <2>3, <2>8
      <3>5. At(z, u, q + 1)
        BY <2>1, <3>1, <3>3, <3>4 DEF At, IsFieldBit, w
      <3>6. BeginsAt(s, t, z, u, q + 1)
        BY <3>1, <3>3, <3>5 DEF BeginsAt, IsFieldBit
      <3>7. RightBit(s, q) => RightBit(z, q + 1)
        BY <2>5, <2>6, <3>3, <3>4 DEF IsFieldBit, w
      <3>8. QED
        BY <3>2, <3>6, <3>7
    <2>9. QED
      BY <2>7, <2>8
  <1>5. CASE s.field = 6
    BY <1>5, FirstsNat DEF At
  <1>6. CASE s.field = 0 /\ ~(q < 3) /\ q /= 3
    BY <1>6 DEF At
  <1>7. QED
    BY <1>1, <1>2, <1>3, <1>4, <1>5, <1>6

\* z is the same bit as s.
SameBit(s, z) ==
  /\ IsSend(z) /\ z.msg = s.msg /\ z.field = s.field /\ z.n = s.n /\ z.bit = s.bit
  /\ z.par = s.par

LEMMA SameBitAgrees ==
  ASSUME NEW s, NEW z, SameBit(s, z), NEW t, NEW u, u.i = t.i, NEW q
  PROVE  /\ At(s, t, q) => At(z, u, q)
         /\ RightBit(s, q) => RightBit(z, q)
  <1>1. At(s, t, q) => At(z, u, q)
    BY DEF SameBit, At
  <1>2. RightBit(s, q) => RightBit(z, q)
    BY DEF SameBit, RightBit
  <1>3. QED
    BY <1>1, <1>2

\* What selectPulse does after a bit, before the next one.
Counted(s) == [s EXCEPT !.good = Agreeing(s)]
Toggled(s, t) == IF s.bit = 0 THEN [t EXCEPT !.high = ~@] ELSE t
OtherHalf(s) == [s EXCEPT !.half = 1, !.first = ~@, !.phase = "begin"]
Ended(s) == [s EXCEPT !.phase = "end"]

LEMMA CountedIs ==
  ASSUME NEW s, IsSend(s)
  PROVE  SameBit(s, Counted(s)) /\ Counted(s).good = Agreeing(s)
  <1> DEFINE z == Counted(s)
  <1>1. z = [phase |-> s.phase, msg |-> s.msg, bits |-> s.bits, field |-> s.field, n |-> s.n,
             bit |-> s.bit, half |-> s.half, first |-> s.first, par |-> s.par,
             good |-> Agreeing(s)]
    <2> DEFINE good == Agreeing(s)
    <2>1. z = [s EXCEPT !.good = good]
      BY DEF Counted
    <2> HIDE DEF good, z
    <2>2. z = [phase |-> s.phase, msg |-> s.msg, bits |-> s.bits, field |-> s.field, n |-> s.n,
               bit |-> s.bit, half |-> s.half, first |-> s.first, par |-> s.par,
               good |-> good]
      BY <2>1 DEF IsSend
    <2>3. QED
      BY <2>2 DEF good
  <1> HIDE DEF z
  <1>2. IsSend(z)
    BY <1>1 DEF IsSend
  <1>3. SameBit(s, z) /\ z.good = Agreeing(s)
    BY <1>1, <1>2 DEF SameBit
  <1>4. QED
    BY <1>3 DEF z

LEMMA ToggledIs ==
  ASSUME NEW s, NEW t, IsMembers(t)
  PROVE  /\ IsMembers(Toggled(s, t)) /\ Toggled(s, t).i = t.i
         /\ Toggled(s, t).pulse = t.pulse
  <1> DEFINE high == ~t.high
             u == [t EXCEPT !.high = high]
  <1>1. u = [i |-> t.i, pulse |-> t.pulse, high |-> high] /\ high \in BOOLEAN
    <2> HIDE DEF high
    <2>1. u = [i |-> t.i, pulse |-> t.pulse, high |-> high]
      BY DEF IsMembers
    <2>2. QED
      BY <2>1 DEF high
  <1>2. Toggled(s, t) = IF s.bit = 0 THEN u ELSE t
    BY DEF Toggled
  <1> HIDE DEF u, high
  <1>3. IsMembers(u) /\ u.i = t.i /\ u.pulse = t.pulse
    BY <1>1 DEF IsMembers
  <1>4. QED
    BY <1>2, <1>3

LEMMA OtherHalfIs ==
  ASSUME NEW s, IsSend(s), s.bit = 1
  PROVE  /\ SameBit(s, OtherHalf(s)) /\ OtherHalf(s).good = s.good
         /\ OtherHalf(s).half = 1 /\ OtherHalf(s).phase = "begin"
         /\ OtherHalf(s).first = ~s.first
  <1> DEFINE first == ~s.first
             z == OtherHalf(s)
  <1>1. first \in BOOLEAN
    OBVIOUS
  <1>2. z = [s EXCEPT !.half = 1, !.first = first, !.phase = "begin"]
    BY DEF OtherHalf
  <1> HIDE DEF first, z
  <1>3. z = [phase |-> "begin", msg |-> s.msg, bits |-> s.bits, field |-> s.field, n |-> s.n,
             bit |-> s.bit, half |-> 1, first |-> first, par |-> s.par, good |-> s.good]
    BY <1>2 DEF IsSend
  <1>4. IsSend(z)
    BY <1>1, <1>3 DEF IsSend
  <1>5. /\ SameBit(s, z) /\ z.good = s.good /\ z.half = 1 /\ z.phase = "begin"
        /\ z.first = first
    BY <1>3, <1>4 DEF SameBit
  <1>6. QED
    BY <1>5 DEF z, first

LEMMA EndedIs ==
  ASSUME NEW s, IsSend(s)
  PROVE  /\ SameBit(s, Ended(s)) /\ Ended(s).good = s.good
         /\ Ended(s).half = s.half /\ Ended(s).phase = "end"
         /\ Ended(s).first = s.first
  <1> DEFINE z == Ended(s)
  <1>1. z = [phase |-> "end", msg |-> s.msg, bits |-> s.bits, field |-> s.field, n |-> s.n,
             bit |-> s.bit, half |-> s.half, first |-> s.first, par |-> s.par, good |-> s.good]
    BY DEF IsSend, Ended
  <1> HIDE DEF z
  <1>2. IsSend(z)
    BY <1>1 DEF IsSend
  <1>3. /\ SameBit(s, z) /\ z.good = s.good /\ z.half = s.half /\ z.phase = "end"
        /\ z.first = s.first
    BY <1>1, <1>2 DEF SameBit
  <1>4. QED
    BY <1>3 DEF z

LEMMA AfterPulseIs ==
  ASSUME NEW s, NEW t
  PROVE  AfterPulse(s, t) = IF s.bit = 1 /\ s.half = 0
                            THEN <<OtherHalf(s), t>>
                            ELSE NextBit(Counted(s), Toggled(s, t))
  BY DEF AfterPulse, OtherHalf, Counted, Toggled

\* The right bit is counted as such.
LEMMA AgreeingIs ==
  ASSUME NEW s, NEW t, IsSend(s), NEW q \in 0 .. FrameLength - 1, Agrees(s, t, q)
  PROVE  Agreeing(s) = q + 1 /\ Len(s.bits) = FrameLength
  <1>1. s.msg \in Messages /\ s.bits = FrameBits(s.msg)
    BY RepeaterAssumption DEF IsSend, RepeaterAssumption
  <1>2. Len(s.bits) = FrameLength /\ FrameLength \in Nat
    BY <1>1, FrameBitsAre, FirstsNat
  <1>3. s.good = q /\ s.bit = FrameBits(s.msg)[q + 1]
    BY DEF Agrees, RightBit
  <1>4. QED
    BY <1>1, <1>2, <1>3 DEF Agreeing

\* sendMsg is about to begin half h of bit q of m.
InBit(s, t, m, q, h, pulse) ==
  /\ IsSend(s) /\ IsMembers(t) /\ t.pulse = pulse
  /\ s.msg = m /\ s.half = h /\ s.phase = "begin"
  /\ Agrees(s, t, q)

LEMMA AgreesOn ==
  ASSUME NEW s, NEW t, IsSend(s), IsMembers(t), NEW q \in 0 .. FrameLength - 1,
         Agrees(s, t, q)
  PROVE  LET next == AfterPulse(s, t)
         IN  /\ BitGoesOn(s.msg, q, s.half) => InBit(next[1], next[2], s.msg, q, 1, t.pulse)
             /\ ~BitGoesOn(s.msg, q, s.half) /\ q < FrameLength - 1 =>
                  InBit(next[1], next[2], s.msg, q + 1, 0, t.pulse)
  <1>1. /\ At(s, t, q) /\ RightBit(s, q) /\ s.good = q
        /\ BitGoesOn(s.msg, q, s.half) <=> s.bit = 1 /\ s.half = 0
    BY DEF Agrees, RightBit, BitGoesOn
  <1>2. CASE BitGoesOn(s.msg, q, s.half)
    <2> DEFINE z == OtherHalf(s)
    <2>1. AfterPulse(s, t) = <<z, t>> /\ s.bit = 1
      BY <1>1, <1>2, AfterPulseIs
    <2>2. SameBit(s, z) /\ z.good = q /\ z.half = 1 /\ z.phase = "begin"
      BY <1>1, <2>1, OtherHalfIs
    <2> HIDE DEF z
    <2>3. IsSend(z) /\ z.msg = s.msg
      BY <2>2 DEF SameBit
    <2>4. At(z, t, q) /\ RightBit(z, q)
      BY <1>1, <2>2, SameBitAgrees
    <2>5. InBit(z, t, s.msg, q, 1, t.pulse)
      BY <2>2, <2>3, <2>4 DEF InBit, Agrees
    <2>6. QED
      BY <1>2, <2>1, <2>5
  <1>3. CASE ~BitGoesOn(s.msg, q, s.half) /\ q < FrameLength - 1
    <2> DEFINE z == Counted(s)
               u == Toggled(s, t)
               next == NextBit(z, u)
    <2>1. AfterPulse(s, t) = next
      BY <1>1, <1>3, AfterPulseIs
    <2>2. SameBit(s, z) /\ z.good = q + 1
      BY CountedIs, AgreeingIs
    <2>3. IsMembers(u) /\ u.i = t.i /\ u.pulse = t.pulse
      BY ToggledIs
    <2> HIDE DEF z, u
    <2>4. IsSend(z) /\ z.msg = s.msg
      BY <2>2 DEF SameBit
    <2>5. At(z, u, q) /\ RightBit(z, q)
      BY <1>1, <2>2, <2>3, SameBitAgrees
    <2>6. BeginsAt(z, u, next[1], next[2], q + 1) /\ RightBit(next[1], q + 1)
      BY <1>3, <2>3, <2>4, <2>5, NextBitBegins, FirstsNat
    <2> HIDE DEF next
    <2>7. InBit(next[1], next[2], s.msg, q + 1, 0, t.pulse)
      BY <2>2, <2>3, <2>4, <2>6 DEF BeginsAt, InBit, Agrees
    <2>8. QED
      BY <1>3, <2>1, <2>7
  <1>4. QED
    BY <1>2, <1>3

\* After the last pulse of a frame the next one begins, or sendMsg is at its end.
LEMMA BeginFrameIs ==
  ASSUME NEW m \in OwnReadings, NEW t, IsMembers(t), NEW u, NEW pulse,
         u = [t EXCEPT !.pulse = pulse, !.high = FALSE]
  PROVE  /\ InBit(BeginFrame(m, FrameBits(m)), u, m, 0, 0, pulse)
         /\ BeginFrame(m, FrameBits(m)).first = TRUE
  <1> DEFINE z == BeginFrame(m, FrameBits(m))
  <1>1. m \in Messages /\ FrameBits(m)[0 + 1] = 1
    <2>1. m \in Messages
      BY RepeaterAssumption DEF RepeaterAssumption
    <2>2. QED
      BY <2>1, FrameBitsAre
  <1>2. z = [phase |-> "begin", msg |-> m, bits |-> FrameBits(m), field |-> 0, n |-> 1,
             bit |-> 1, half |-> 0, first |-> TRUE, par |-> 0, good |-> 0]
    BY StartBitsAre DEF BeginFrame
  <1>3. u = [i |-> t.i, pulse |-> pulse, high |-> FALSE]
    BY DEF IsMembers
  <1>4. IsMembers(u) /\ u.pulse = pulse
    BY <1>3 DEF IsMembers
  <1> HIDE DEF z
  <1>5. IsSend(z)
    BY <1>2 DEF IsSend
  <1>6. /\ z.field = 0 /\ z.n = 1 /\ z.bit = 1 /\ z.par = 0 /\ z.good = 0 /\ z.msg = m
        /\ z.half = 0 /\ z.phase = "begin" /\ z.first = TRUE
    BY <1>2
  <1>7. At(z, u, 0) /\ RightBit(z, 0)
    <2>1. At(z, u, 0)
      BY <1>6 DEF At
    <2>2. RightBit(z, 0)
      BY <1>1, <1>6 DEF RightBit
    <2>3. QED
      BY <2>1, <2>2
  <1>8. InBit(z, u, m, 0, 0, pulse) /\ z.first = TRUE
    BY <1>4, <1>5, <1>6, <1>7 DEF InBit, Agrees
  <1>9. QED
    BY <1>8 DEF z

LEMMA FrameSentIs ==
  ASSUME NEW s, NEW t, IsSend(s), IsMembers(t), t.pulse \in 0 .. Frames
  PROVE  LET next == FrameSent(s, t)
         IN  IF t.pulse + 1 < Frames
             THEN /\ InBit(next[1], next[2], s.msg, 0, 0, t.pulse + 1)
                  /\ next[1].first = TRUE
             ELSE next[1].phase = "last" /\ IsMembers(next[2])
  <1>1. (t.pulse + 1) % CounterMod = t.pulse + 1
    BY Bounds DEF Frames
  <1>2. CASE t.pulse + 1 < Frames
    <2> DEFINE z == BeginFrame(s.msg, s.bits)
               u == [t EXCEPT !.pulse = t.pulse + 1, !.high = FALSE]
    <2>1. FrameSent(s, t) = <<z, u>>
      BY <1>1, <1>2 DEF FrameSent
    <2>2. s.msg \in OwnReadings /\ s.bits = FrameBits(s.msg)
      BY DEF IsSend
    <2>3. InBit(z, u, s.msg, 0, 0, t.pulse + 1) /\ z.first = TRUE
      BY <2>2, BeginFrameIs
    <2> HIDE DEF z, u
    <2>4. QED
      BY <1>2, <2>1, <2>3
  <1>3. CASE ~(t.pulse + 1 < Frames)
    <2> DEFINE z == [s EXCEPT !.phase = "last"]
               u == [t EXCEPT !.pulse = t.pulse + 1]
    <2>1. FrameSent(s, t) = <<z, u>>
      BY <1>1, <1>3 DEF FrameSent
    <2>2. z.phase = "last"
      BY DEF IsSend
    <2>3. u = [i |-> t.i, pulse |-> t.pulse + 1, high |-> t.high]
      BY DEF IsMembers
    <2> HIDE DEF z, u
    <2>4. IsMembers(u)
      BY <2>3 DEF IsMembers
    <2>5. QED
      BY <1>3, <2>1, <2>2, <2>4
  <1>4. QED
    BY <1>2, <1>3

--------------------------------------------------------------------------------
(* What the receiver makes of the pulses of the loop.                      *)

LEMMA Pulses ==
  /\ Short(PULSE1) /\ Long(PULSE0) /\ Long(PULSE1 + PULSE1)
  /\ Still(0) /\ Still(Pause) /\ Still(Pause + PULSE1)
  <1>1. Short(PULSE1) /\ Long(PULSE0) /\ Long(PULSE1 + PULSE1)
    BY DEF Short, Long, PULSE1, PULSE0, min1period, max1period, min2period, max2period
  <1>2. Still(0) /\ Still(Pause) /\ Still(Pause + PULSE1)
    BY DEF Still, Pause, PULSE1, min1period, max2period, Duration, WordMod
  <1>3. QED
    BY <1>1, <1>2

LEMMA StateBounds ==
  ASSUME ReceiverType
  PROVE  /\ state \in Int /\ state >= -1 /\ code \in Codes
         /\ FrameEnd \in Nat /\ FrameLength \in Nat /\ FrameEnd = 2 * FrameLength
         /\ FrameLength > 9
  BY FirstsNat, WidthsNat, Ends DEF ReceiverType

LEMMA StillRests ==
  ASSUME ReceiverType, NEW g, Still(g), Edge(g)
  PROVE  state' = -1 /\ called' = {}
  BY StateBounds, RestAfter DEF Still

\* After it has called it is at rest.
LEMMA CallRests ==
  ASSUME NEW g, Edge(g), called' /= {}
  PROVE  state' = -1
  <1>1. PICK c : Complete(c)
    BY DEF Edge, EdgeTooEarly, Silence, Reset, Start, Wait, StartBitOne, StartBitZero,
           StartBitWrong, DataInterval, LastInterval
  <1>2. QED
    BY <1>1 DEF Complete

\* With the intervals of a frame it calls at the last one only.
LEMMA CallsAtEnd ==
  ASSUME ReceiverType, NEW m \in Messages, NEW b \in 0 .. FrameLength - 1, NEW h \in {0, 1},
         Stands(state, code, m, b, h), NEW g, NextInterval(g, m, b), Edge(g), called' /= {}
  PROVE  b = FrameLength - 1 /\ ~BitGoesOn(m, b, h)
  <1>1. /\ b \in Nat /\ FrameLength \in Nat /\ b < FrameLength /\ FrameLength > 9
        /\ FrameEnd = 2 * FrameLength /\ state \in Int
    BY StateBounds
  <1>2. state >= FrameEnd - 2
    BY <1>1, NotComplete
  <1>3. Heard(state, code, m, b, h)
    BY <1>1, <1>2 DEF Stands, Behind, Beside
  <1>4. state = 2 * b + h
    BY <1>1, <1>2, <1>3 DEF Heard
  <1>5. b = FrameLength - 1
    BY <1>1, <1>2, <1>4
  <1>6. ASSUME BitGoesOn(m, b, h) PROVE FALSE
    <2>1. Short(g) /\ h = 0
      BY <1>6 DEF BitGoesOn, NextInterval
    <2>2. LastHalf(g) = state
      BY <2>1, HalfCounts DEF LastHalf
    <2>3. state \in Nat /\ state >= 8 /\ ~(LastHalf(g) + 1 >= FrameEnd)
      BY <1>1, <1>4, <1>5, <2>1, <2>2
    <2>4. called' = {}
      BY <2>1, <2>3, DataHeard
    <2>5. QED
      BY <2>4
  <1>7. QED
    BY <1>5, <1>6

\* Before the last bit it calls nobody, and an interval brings it no further than
\* it has to.
LEMMA Advances ==
  ASSUME ReceiverType, state < FrameEnd - 2, NEW g, Short(g) \/ Long(g), Edge(g)
  PROVE  /\ called' = {} /\ state' \in Int
         /\ Short(g) => state' <= state + 1 \/ state' <= 1
         /\ Long(g) => state' = -1 \/ (state >= 4 /\ state' <= state + 2)
  <1>1. /\ state \in Int /\ state >= -1 /\ FrameEnd \in Nat /\ g \in Nat
        /\ ~(Short(g) /\ Long(g))
    BY StateBounds DEF Short, Long, max1period, min2period
  <1>2. called' = {}
    BY <1>1, NotComplete
  <1>3. CASE state = -1
    <2>1. state' = -1 \/ (state' = 1 /\ Duration(g) < max1period)
      BY <1>1, <1>3, FromRest
    <2>2. Long(g) => Duration(g) = g /\ ~(g < max1period)
      BY LongCounts DEF Long, max1period, min2period
    <2>3. QED
      BY <1>2, <1>3, <2>1, <2>2
  <1>4. CASE state \in 0 .. 3 /\ Short(g)
    BY <1>1, <1>2, <1>4, StartHalf
  <1>5. CASE (Short(g) /\ state \in 4 .. 7) \/ (Long(g) /\ state \in 0 .. 3)
    <2>1. state' = -1
      BY <1>5, StartBroken
    <2>2. QED
      BY <1>1, <1>2, <2>1
  <1>6. CASE state \in 4 .. 7 /\ Long(g)
    BY <1>1, <1>2, <1>6, StartLong
  <1>7. CASE state >= 8
    <2>1. LastHalf(g) = state + (IF Short(g) THEN 0 ELSE 1)
      BY <1>1, HalfCounts, LongCounts DEF LastHalf
    <2>2. state \in Nat /\ ~(LastHalf(g) + 1 >= FrameEnd)
      BY <1>1, <1>7, <2>1
    <2>3. state' = LastHalf(g) + 1
      BY <1>7, <2>2, DataHeard
    <2>4. QED
      BY <1>1, <1>2, <1>7, <2>1, <2>3
  <1>8. QED
    BY <1>1, <1>3, <1>4, <1>5, <1>6, <1>7

\* From a fresh start any gap leads to a start that has read nothing,
Started(s, c) ==
  \/ s = -1
  \/ /\ s \in {1, 2}
     /\ c.address = 0 /\ c.channel = 0 /\ c.wconst = 0 /\ c.humidity = 0 /\ c.temperature = 0

LEMMA FreshStarts ==
  ASSUME Fresh(state, code), ReceiverType, NEW g, Edge(g)
  PROVE  called' = {} /\ Started(state', code')
  <1>1. state \in {-1, 1} /\ state < FrameEnd - 2 /\ state \in Int
    BY StateBounds DEF Fresh
  <1>2. called' = {}
    BY <1>1, NotComplete
  <1>3. ~StartBitZero(g) /\ ~DataInterval(g) /\ ~LastInterval(g)
    BY <1>1 DEF StartBitZero, DataInterval, LastInterval
  <1>4. CASE EdgeTooEarly(g) \/ Silence(g) \/ StartBitWrong(g)
    BY <1>2, <1>4 DEF EdgeTooEarly, Silence, StartBitWrong, Reset, Started
  <1>5. CASE Start(g)
    BY <1>2, <1>5 DEF Start, Started, Cleared
  <1>6. CASE Wait(g)
    BY <1>2, <1>6 DEF Wait, Started
  <1>7. CASE StartBitOne(g)
    <2>1. state = 1 /\ state' = 2
      BY <1>1, <1>7 DEF StartBitOne
    <2>2. code' = [code EXCEPT !.sync = (4 * code.sync) % ByteMod, !.par = 1 - code.par]
      BY <1>7, <2>1 DEF StartBitOne, Odd
    <2>3. /\ code.address = 0 /\ code.channel = 0 /\ code.wconst = 0 /\ code.humidity = 0
          /\ code.temperature = 0 /\ code \in Codes
      BY <2>1, StateBounds DEF Fresh
    <2>4. /\ code'.address = 0 /\ code'.channel = 0 /\ code'.wconst = 0 /\ code'.humidity = 0
          /\ code'.temperature = 0
      BY <2>2, <2>3 DEF Codes
    <2>5. QED
      BY <1>2, <2>1, <2>4 DEF Started
  <1>8. QED
    BY <1>3, <1>4, <1>5, <1>6, <1>7 DEF Edge

\* from which it stands for any interval of a frame,
LEMMA StartedStands ==
  ASSUME NEW m \in Messages, NEW b \in 0 .. FrameLength - 1, NEW h \in {0, 1},
         h = 1 => FrameBits(m)[b + 1] = 1, NEW s, NEW c, Started(s, c)
  PROVE  Stands(s, c, m, b, h)
  <1>1. b \in Nat /\ (b \in {2, 3} => h = 0)
    BY FirstsNat, FirstFourBits
  <1>2. CASE Fresh(s, c)
    BY <1>2, FreshStands
  <1>3. CASE s = 2 /\ b = 0
    BY <1>3 DEF Stands, Beside
  <1>4. CASE s = 2 /\ b = 1 /\ h = 0
    <2>1. Read(c, m, b)
      BY <1>4, NothingRead DEF Started
    <2>2. Heard(s, c, m, b, h) /\ b < FrameLength
      BY <1>4, <2>1, FirstsNat, WidthsNat DEF Heard
    <2>3. QED
      BY <2>2 DEF Stands
  <1>5. CASE s = 2 /\ ((b = 1 /\ h = 1) \/ b = 2)
    <2>1. Behind(s, 2 * b + h)
      BY <1>1, <1>5 DEF Behind
    <2>2. QED
      BY <2>1 DEF Stands
  <1>6. CASE s = 2 /\ b = 3
    <2>1. Beside(s, 2 * b + h)
      BY <1>1, <1>6 DEF Beside
    <2>2. QED
      BY <2>1 DEF Stands
  <1>7. CASE s = 2 /\ b > 3
    <2>1. Behind(s, 2 * b + h)
      BY <1>1, <1>7 DEF Behind
    <2>2. QED
      BY <2>1 DEF Stands
  <1>8. s \in {-1, 1} => Fresh(s, c)
    BY DEF Started, Fresh
  <1>9. s \in {-1, 1, 2}
    BY DEF Started
  <1>10. QED
    BY <1>1, <1>2, <1>3, <1>4, <1>5, <1>6, <1>7, <1>8, <1>9

\* and is ready for the rest of a message.
LEMMA StartedReady ==
  ASSUME NEW m \in Messages, NEW idle \in Nat, NEW p \in 2 .. Len(MessageUsec(m, idle)),
         NEW s, NEW c, Started(s, c)
  PROVE  Ready(m, idle, p, s, c)
  <1> DEFINE usec == MessageUsec(m, idle)
  <1>1. s < FrameEnd - 2
    BY Ends, FirstsNat, WidthsNat DEF Started
  <1>2. CASE Silent(usec[p])
    BY <1>1, <1>2 DEF Ready
  <1>3. CASE ~ Silent(usec[p])
    <2>1. PICK i : InFrame(m, p, i) /\ usec[p] = FrameUsec(m)[i]
      BY <1>3, EveryPosition
    <2>2. i \in 1 .. Len(FrameUsec(m))
      BY <2>1 DEF InFrame
    <2>3. PICK b \in 0 .. FrameLength - 1, h \in {0, 1} :
            (h = 1 => FrameBits(m)[b + 1] = 1) /\ i = Intervals(m, b) + h + 1
      BY <2>2, IntervalOfSomeBit
    <2>4. Stands(s, c, m, b, h)
      BY <2>3, StartedStands
    <2>5. QED
      BY <2>1, <2>3, <2>4 DEF Ready
  <1>4. QED
    BY <1>2, <1>3

--------------------------------------------------------------------------------
(* What is left of the message of a sensor.                                *)

LEMMA RestIs ==
  ASSUME NEW m \in Messages, NEW idle \in Nat, NEW p \in 1 .. Len(MessageUsec(m, idle)) + 1
  PROVE  LET n == Len(MessageUsec(m, idle))
         IN  /\ n \in Nat
             /\ Rest(m, idle, p) \in Seq(Nat) /\ Len(Rest(m, idle, p)) = n - p + 1
             /\ p = n + 1 => Rest(m, idle, p) = <<>>
             /\ p <= n => /\ Rest(m, idle, p) /= <<>>
                          /\ Head(Rest(m, idle, p)) = MessageUsec(m, idle)[p]
                          /\ Tail(Rest(m, idle, p)) = Rest(m, idle, p + 1)
  <1> DEFINE usec == MessageUsec(m, idle)
             n == Len(usec)
             r == SubSeq(usec, p, n)
  <1>1. usec \in Seq(Nat) /\ n \in Nat /\ \A i \in 1 .. n : usec[i] \in Nat
    <2>1. usec \in Seq(Nat)
      BY MessageBegins
    <2> HIDE DEF usec
    <2>2. QED
      BY <2>1
  <1>2. Rest(m, idle, p) = r /\ Rest(m, idle, p + 1) = SubSeq(usec, p + 1, n)
    BY DEF Rest
  <1> HIDE DEF usec
  <1>3. p \in Int /\ n \in Int /\ p >= 1 /\ p <= n + 1
    BY <1>1 DEF usec
  <1>4. r \in Seq(Nat) /\ Len(r) = n - p + 1
    <2>1. \A i \in p .. n : usec[i] \in Nat
      BY <1>1, <1>3
    <2>2. r \in Seq(Nat) /\ Len(r) = IF p <= n THEN n - p + 1 ELSE 0
      <3> HIDE DEF n
      <3>1. QED
        BY <1>3, <2>1, SubSeqProperties
    <2>3. QED
      BY <1>3, <2>2
  <1>5. ASSUME p = n + 1 PROVE r = <<>>
    <2>1. n < p
      BY <1>1, <1>5
    <2> HIDE DEF n
    <2>2. QED
      BY <1>3, <2>1, SubSeqEmpty
  <1>6. ASSUME p <= n
        PROVE  r /= <<>> /\ Head(r) = usec[p] /\ Tail(r) = SubSeq(usec, p + 1, n)
    <2>1. p \in 1 .. Len(usec) /\ n \in p .. Len(usec)
      BY <1>3, <1>6
    <2>2. Len(r) > 0
      BY <1>3, <1>4, <1>6
    <2>3. r /= <<>>
      <3> HIDE DEF r
      <3> QED BY <1>4, <2>2
    <2> HIDE DEF n
    <2>4. Head(r) = usec[p] /\ Tail(r) = SubSeq(usec, p + 1, n)
      BY <1>1, <2>1, HeadTailOfSubSeq
    <2>5. QED
      BY <2>3, <2>4
  <1> HIDE DEF r
  <1>7. QED
    BY <1>1, <1>2, <1>4, <1>5, <1>6 DEF usec, n

LEMMA TailOf ==
  ASSUME NEW x, NEW s \in Seq(Nat)
  PROVE  <<x>> \o s /= <<>> /\ Tail(<<x>> \o s) = s
  <1> DEFINE S == Nat \cup {x}
             r == <<x>> \o s
  <1>1. <<x>> \in Seq(S) /\ Len(<<x>>) = 1 /\ s \in Seq(S) /\ Len(s) \in Nat
    <2>1. s \in Seq(S)
      BY SeqMonotonic
    <2>2. <<x>> \in Seq(S)
      OBVIOUS
    <2>3. QED
      BY <2>1, <2>2
  <1> HIDE DEF S
  <1>2. /\ r \in Seq(S) /\ Len(r) = 1 + Len(s)
        /\ \A i \in 1 .. 1 + Len(s) : r[i] = IF i <= 1 THEN <<x>>[i] ELSE s[i - 1]
    BY <1>1, ConcatProperties
  <1> HIDE DEF r
  <1>3. r /= <<>>
    BY <1>1, <1>2
  <1>4. /\ Tail(r) \in Seq(S) /\ Len(Tail(r)) = Len(r) - 1
        /\ \A i \in 1 .. Len(Tail(r)) : Tail(r)[i] = r[i + 1]
    BY <1>2, <1>3, HeadTailProperties
  <1>5. Len(Tail(r)) = Len(s)
    BY <1>1, <1>2, <1>4
  <1>6. ASSUME NEW i \in 1 .. Len(Tail(r)) PROVE Tail(r)[i] = s[i]
    BY <1>1, <1>2, <1>4, <1>5, <1>6
  <1>7. Tail(r) = s
    BY <1>1, <1>4, <1>5, <1>6, SeqEqual
  <1>8. QED
    BY <1>3, <1>7 DEF r

\* After a callback a gap of it may be torn, and the others are whole.
LEMMA AfterIs ==
  ASSUME NEW m \in Messages, NEW idle \in Nat, NEW p \in 1 .. Len(MessageUsec(m, idle)) + 1,
         NEW time, NEW after, after = After(Rest(m, idle, p), time)
  PROVE  \/ after = <<>>
         \/ \E k \in 1 .. Len(MessageUsec(m, idle)) :
              after /= <<>> /\ Tail(after) = Rest(m, idle, k + 1)
  <1> DEFINE usec == MessageUsec(m, idle)
             n == Len(usec)
             gaps == Rest(m, idle, p)
             elapsed == Elapsed(gaps)
             later == {k \in DOMAIN gaps : elapsed[k] > time}
             next == CHOOSE k \in later : \A j \in later : k <= j
  <1>1. n \in Nat /\ p \in 1 .. n + 1 /\ gaps \in Seq(Nat) /\ Len(gaps) = n - p + 1
    BY RestIs
  <1>2. usec \in Seq(Nat)
    BY MessageBegins
  <1>3. gaps = SubSeq(usec, p, n)
    BY DEF Rest
  <1>4. after = IF later = {} THEN <<>>
                ELSE <<elapsed[next] - time>> \o SubSeq(gaps, next + 1, Len(gaps))
    BY DEF After
  <1> HIDE DEF usec, gaps, elapsed
  <1>5. ASSUME later /= {}
        PROVE  \E k \in 1 .. n : after /= <<>> /\ Tail(after) = Rest(m, idle, k + 1)
    <2>1. later \subseteq 1 .. Len(gaps) /\ later \subseteq Nat
      <3>1. DOMAIN gaps = 1 .. Len(gaps)
        BY <1>1, LenProperties
      <3>2. QED
        BY <1>1, <3>1
    <2> HIDE DEF later
    <2>2. \E k \in later : \A j \in later : k <= j
      BY <1>5, <2>1, Least
    <2>3. next \in later
      BY <2>2
    <2> HIDE DEF next
    <2> DEFINE x == elapsed[next] - time
               s == SubSeq(gaps, next + 1, Len(gaps))
               k == p + next - 1
    <2>4. /\ next \in 1 .. Len(gaps) /\ Len(gaps) \in Nat /\ k \in 1 .. n
          /\ k + 1 \in 1 .. n + 1
      BY <1>1, <2>1, <2>3
    <2>5. s = Rest(m, idle, k + 1)
      <3>1. CASE next = Len(gaps)
        <4>1. s = <<>>
          <5>1. next + 1 \in Int /\ Len(gaps) \in Int /\ Len(gaps) < next + 1
            BY <2>4, <3>1
          <5>2. QED
            BY <5>1, SubSeqEmpty
        <4>2. k + 1 = n + 1
          BY <1>1, <2>4, <3>1
        <4>3. QED
          BY <2>4, <4>1, <4>2, RestIs DEF usec
      <3>2. CASE next < Len(gaps)
        <4>1. /\ p \in 1 .. Len(usec) /\ n \in 1 .. Len(usec)
              /\ next + 1 \in 1 .. n - p + 1 /\ Len(gaps) \in 1 .. n - p + 1
              /\ p + (next + 1) - 1 = k + 1 /\ p + Len(gaps) - 1 = n
          BY <1>1, <2>4, <3>2
        <4>2. SubSeq(SubSeq(usec, p, n), next + 1, Len(gaps))
                = SubSeq(usec, p + (next + 1) - 1, p + Len(gaps) - 1)
          <5> DEFINE a == next + 1
                     b == Len(gaps)
          <5>1. a \in 1 .. n - p + 1 /\ b \in 1 .. n - p + 1
            BY <4>1
          <5> HIDE DEF n, a, b
          <5>2. SubSeq(SubSeq(usec, p, n), a, b) = SubSeq(usec, p + a - 1, p + b - 1)
            BY <1>2, <4>1, <5>1, SubSeqOfSubSeq
          <5>3. QED
            BY <5>2 DEF a, b
        <4>3. s = SubSeq(usec, k + 1, n)
          BY <1>3, <4>1, <4>2
        <4>4. QED
          BY <4>3 DEF Rest, usec
      <3>3. QED
        BY <2>4, <3>1, <3>2
    <2>6. s \in Seq(Nat)
      <3> HIDE DEF s, k
      <3>1. QED
        BY <2>4, <2>5, RestIs DEF usec
    <2>7. after = <<x>> \o s
      BY <1>4, <1>5
    <2> HIDE DEF x, s, k
    <2>8. after /= <<>> /\ Tail(after) = s
      BY <2>6, <2>7, TailOf
    <2>9. QED
      BY <2>4, <2>5, <2>8
  <1>6. QED
    BY <1>4, <1>5 DEF usec

--------------------------------------------------------------------------------
(* A write on the pin.                                                     *)

\* What GoesOn does to since and sent, in a frame and at its end.
Kept(elapsed, calls) ==
  /\ since' = elapsed + 0 /\ sent'.calls = sent.calls + calls
  /\ sent'.frames = sent.frames + 0 /\ sent'.whole = sent.whole + 0

FrameDone(elapsed, calls) ==
  /\ since' = elapsed + Pause /\ sent'.calls = sent.calls + calls
  /\ sent'.frames = sent.frames + 1 /\ sent'.whole = sent.whole + 1

LEMMA GoesOnIs ==
  ASSUME NEW t, NEW elapsed, NEW calls, GoesOn(t, elapsed, calls)
  PROVE  /\ send' = Continued(t)[1] /\ tx' = Continued(t)[2]
         /\ ~LastPulse(send) => Kept(elapsed, calls)
         /\ LastPulse(send) /\ Agreeing(send) = Len(send.bits) => FrameDone(elapsed, calls)
         /\ LastPulse(send) => /\ since' = elapsed + Pause
                               /\ sent'.calls = sent.calls + calls
  BY DEF GoesOn, Kept, FrameDone

LEMMA SendPhase ==
  ASSUME NEW s
  PROVE  /\ IsSend(s) => s /= Idle /\ s.phase /= "last"
         /\ s.phase = "last" => s /= Idle
  <1>1. Idle.phase = "idle"
    BY DEF Idle
  <1>2. IsSend(s) => s.phase \in {"begin", "end"}
    BY DEF IsSend
  <1>3. QED
    BY <1>1, <1>2

LEMMA PulseBegins ==
  ASSUME send.phase = "begin", NEW t, NEW elapsed, NEW calls, GoesOn(t, elapsed, calls)
  PROVE  send' = Ended(send) /\ tx' = t /\ Kept(elapsed, calls)
  <1>1. ~LastPulse(send) /\ Continued(t) = <<Ended(send), t>>
    BY DEF LastPulse, Continued, Ended
  <1>2. QED
    BY <1>1, GoesOnIs

LEMMA PulseEnds ==
  ASSUME send.phase = "end", NEW t, NEW elapsed, NEW calls, GoesOn(t, elapsed, calls)
  PROVE  IF LastPulse(send)
         THEN send' = FrameSent(send, t)[1] /\ tx' = FrameSent(send, t)[2]
         ELSE send' = AfterPulse(send, t)[1] /\ tx' = AfterPulse(send, t)[2]
  <1>1. Continued(t) = IF LastPulse(send) THEN FrameSent(send, t) ELSE AfterPulse(send, t)
    BY DEF Continued
  <1>2. QED
    BY <1>1, GoesOnIs

LEMMA AtIsLast ==
  ASSUME IsSend(send), send.phase = "end", NEW t, NEW q \in 0 .. FrameLength - 1,
         Agrees(send, t, q)
  PROVE  LastPulse(send) <=> q = FrameLength - 1 /\ ~BitGoesOn(send.msg, q, send.half)
  <1>1. send.field = 6 <=> q = FrameLength - 1
    <2>1. CASE send.field = 0
      BY <2>1, FirstsNat, WidthsNat DEF Agrees, At
    <2>2. CASE send.field \in 1 .. 5
      <3>1. Widths[send.field] \in Nat /\ FieldFirst[send.field] \in Nat
            /\ FieldFirst[send.field] + Widths[send.field] <= FrameLength - 1
        BY <2>2, FieldPlaces
      <3>2. t.i \in 1 .. Widths[send.field]
            /\ q = FieldFirst[send.field] + Widths[send.field] - t.i
        BY <2>2 DEF Agrees, At
      <3>3. QED
        BY <2>2, <3>1, <3>2, FirstsNat
    <2>3. CASE send.field = 6
      BY <2>3 DEF Agrees, At
    <2>4. send.field \in 0 .. 6
      BY DEF IsSend
    <2>5. QED
      BY <2>1, <2>2, <2>3, <2>4
  <1>2. BitGoesOn(send.msg, q, send.half) <=> send.bit = 1 /\ send.half = 0
    BY DEF Agrees, RightBit, BitGoesOn
  <1>3. send.bit \in {0, 1} /\ send.half \in {0, 1} /\ (send.half = 1 => send.bit = 1)
    BY DEF IsSend
  <1>4. QED
    BY <1>1, <1>2, <1>3, WidthsAre DEF LastPulse

\* The loop goes on from half h of bit q, which is the right one.
LEMMA RightPulseEnds ==
  ASSUME IsSend(send), send.phase = "end", NEW t, IsMembers(t), t.pulse \in 0 .. Frames,
         NEW q \in 0 .. FrameLength - 1, Agrees(send, t, q),
         NEW elapsed, NEW calls, GoesOn(t, elapsed, calls)
  PROVE  \/ /\ BitGoesOn(send.msg, q, send.half)
            /\ InBit(send', tx', send.msg, q, 1, t.pulse) /\ Kept(elapsed, calls)
         \/ /\ ~BitGoesOn(send.msg, q, send.half) /\ q + 1 \in 0 .. FrameLength - 1
            /\ InBit(send', tx', send.msg, q + 1, 0, t.pulse) /\ Kept(elapsed, calls)
         \/ /\ ~BitGoesOn(send.msg, q, send.half) /\ q = FrameLength - 1
            /\ FrameDone(elapsed, calls)
            /\ IF t.pulse + 1 < Frames
               THEN InBit(send', tx', send.msg, 0, 0, t.pulse + 1)
               ELSE send'.phase = "last" /\ IsMembers(tx')
  <1>1. FrameLength \in Nat /\ q \in Nat /\ q <= FrameLength - 1
    BY FirstsNat
  <1>2. CASE LastPulse(send)
    <2>1. q = FrameLength - 1 /\ ~BitGoesOn(send.msg, q, send.half)
      BY <1>2, AtIsLast
    <2>2. FrameDone(elapsed, calls)
      <3>1. Agreeing(send) = q + 1 /\ Len(send.bits) = FrameLength
        BY AgreeingIs
      <3>2. Agreeing(send) = Len(send.bits)
        BY <1>1, <2>1, <3>1
      <3>3. QED
        BY <1>2, <3>2, GoesOnIs
    <2>3. send' = FrameSent(send, t)[1] /\ tx' = FrameSent(send, t)[2]
      BY <1>2, PulseEnds
    <2>4. IF t.pulse + 1 < Frames
          THEN InBit(send', tx', send.msg, 0, 0, t.pulse + 1)
          ELSE send'.phase = "last" /\ IsMembers(tx')
      BY <2>3, FrameSentIs
    <2>5. QED
      BY <2>1, <2>2, <2>4
  <1>3. CASE ~LastPulse(send)
    <2>1. Kept(elapsed, calls)
      BY <1>3, GoesOnIs
    <2>2. send' = AfterPulse(send, t)[1] /\ tx' = AfterPulse(send, t)[2]
      BY <1>3, PulseEnds
    <2>3. /\ BitGoesOn(send.msg, q, send.half) => InBit(send', tx', send.msg, q, 1, t.pulse)
          /\ ~BitGoesOn(send.msg, q, send.half) /\ q < FrameLength - 1 =>
               InBit(send', tx', send.msg, q + 1, 0, t.pulse)
      BY <2>2, AgreesOn
    <2>4. ~BitGoesOn(send.msg, q, send.half) =>
            q < FrameLength - 1 /\ q + 1 \in 0 .. FrameLength - 1
      BY <1>1, <1>3, AtIsLast
    <2>5. QED
      BY <2>1, <2>3, <2>4
  <1>4. QED
    BY <1>2, <1>3

\* The edge of a pulse, for a receiver that follows.
LEMMA FollowsEdge ==
  ASSUME ReceiverType, IsSend(send), IsMembers(tx), NEW q \in 0 .. FrameLength - 1,
         Agrees(send, tx, q), Follows(q), Edge(Gap)
  PROVE  /\ send.phase = "begin" => state' = -1 /\ called' = {}
         /\ send.phase = "end" =>
              /\ \A c \in called' : Says(c, send.msg)
              /\ called' /= {} =>
                   q = FrameLength - 1 /\ ~BitGoesOn(send.msg, q, send.half)
              /\ IF BitGoesOn(send.msg, q, send.half)
                 THEN Stands(state', code', send.msg, q, 1)
                 ELSE Stands(state', code', send.msg, q + 1, 0)
  <1>1. /\ send.msg \in Messages /\ send.half \in {0, 1} /\ q \in Nat
        /\ send.bit = FrameBits(send.msg)[q + 1]
        /\ send.half = 1 => FrameBits(send.msg)[q + 1] = 1
    BY RepeaterAssumption, FirstsNat DEF IsSend, RepeaterAssumption, Agrees, RightBit
  <1>2. CASE send.phase = "begin"
    <2>1. Gap = since + 0
      BY <1>2 DEF Gap
    <2>2. Still(since) \/ since = 0
      BY <1>2 DEF Follows
    <2>3. Still(Gap)
      <3>1. since \in Nat
        BY <2>2 DEF Still
      <3>2. Gap = since
        BY <2>1, <3>1
      <3>3. QED
        BY <2>2, <3>2, Pulses
    <2>4. QED
      BY <1>2, <2>3, StillRests
  <1>3. CASE send.phase = "end" /\ since = Pause /\ FirstOfFrame(q)
    <2>1. send.half = 0 /\ q = 0 /\ send.bit = 1
      BY <1>1, <1>3, FrameBitsAre DEF FirstOfFrame
    <2>2. Gap = Pause + PULSE1
      BY <1>3, <2>1 DEF Gap, Usec
    <2>3. state' = -1 /\ called' = {}
      BY <2>2, Pulses, StillRests
    <2>4. BitGoesOn(send.msg, q, send.half)
      BY <1>1, <2>1 DEF BitGoesOn
    <2>5. Stands(state', code', send.msg, q, 1)
      BY <2>3 DEF Stands
    <2>6. QED
      BY <1>3, <2>3, <2>4, <2>5
  <1>4. CASE send.phase = "end" /\ since = 0 /\ Stands(state, code, send.msg, q, send.half)
    <2>1. Gap = IF send.bit = 1 THEN PULSE1 ELSE PULSE0
      BY <1>4 DEF Gap, Usec, PULSE1, PULSE0
    <2>2. NextInterval(Gap, send.msg, q)
      BY <1>1, <2>1, Pulses DEF NextInterval
    <2>3. code \in Codes
      BY StateBounds
    <2>4. /\ \A c \in called' : Says(c, send.msg)
          /\ IF BitGoesOn(send.msg, q, send.half)
             THEN Stands(state', code', send.msg, q, 1)
             ELSE Stands(state', code', send.msg, q + 1, 0)
      BY <1>1, <1>4, <2>2, <2>3, StandsOn
    <2>5. called' /= {} => q = FrameLength - 1 /\ ~BitGoesOn(send.msg, q, send.half)
      BY <1>1, <1>4, <2>2, CallsAtEnd
    <2>6. QED
      BY <1>4, <2>4, <2>5
  <1>5. QED
    BY <1>2, <1>3, <1>4 DEF Follows, IsSend

LEMMA LevelIs ==
  ASSUME IsSend(send)
  PROVE  /\ send.phase = "begin" => Level = send.first
         /\ send.phase = "end" => Level = ~send.first /\ (pin = send.first => pin /= Level)
  <1>1. send.first \in BOOLEAN
    BY DEF IsSend
  <1>2. /\ send.phase = "begin" => Level = send.first
        /\ send.phase = "end" => Level = ~send.first
    BY DEF Level
  <1>3. QED
    BY <1>1, <1>2

LEMMA CallbackMembers ==
  ASSUME NEW m
  PROVE  /\ IsMembers(AfterSendMsg(m)) /\ AfterSendMsg(m).i = 0
         /\ AfterSendMsg(m).pulse = Frames
  <1> DEFINE high == Zeros(FrameBits(m)) % 2 = 1
             u == AfterSendMsg(m)
  <1>1. high \in BOOLEAN
    OBVIOUS
  <1>2. u = [i |-> 0, pulse |-> Frames, high |-> high]
    BY DEF AfterSendMsg
  <1> HIDE DEF high, u
  <1>3. IsMembers(u) /\ u.i = 0 /\ u.pulse = Frames
    BY <1>1, <1>2, Bounds DEF IsMembers
  <1>4. QED
    BY <1>3 DEF u

LEMMA RelayReading ==
  ASSUME NEW c, NEW m, Says(c, m), NEW w
  PROVE  Reading(Relay(c, w)) = Reading(m)
  BY DEF Says, Relay, Reading

\* The receiver goes on to follow.
Goes(pulse) ==
  /\ IsSend(send') /\ IsMembers(tx') /\ tx'.pulse = pulse
  /\ \E r \in 0 .. FrameLength - 1 : Agrees(send', tx', r) /\ Follows(r)'

LEMMA FollowsBegin ==
  ASSUME ReceiverType, IsSend(send), IsMembers(tx), NEW q \in 0 .. FrameLength - 1,
         Agrees(send, tx, q), Follows(q), WriteSame \/ (WriteHeard /\ send.phase = "begin")
  PROVE  Goes(tx.pulse) /\ \E elapsed : Kept(elapsed, 0)
  <1>1. send.phase = "begin"
    <2>1. ASSUME send.phase = "end", WriteSame PROVE FALSE
      BY <2>1, LevelIs DEF Follows, WriteSame
    <2>2. QED
      BY <2>1 DEF IsSend
  <1>2. /\ SameBit(send, Ended(send)) /\ Ended(send).good = send.good
        /\ Ended(send).half = send.half /\ Ended(send).phase = "end"
        /\ Ended(send).first = send.first
    BY EndedIs
  <1>3. PICK elapsed : GoesOn(tx, elapsed, 0)
    BY DEF WriteSame, WriteHeard
  <1>4. send' = Ended(send) /\ tx' = tx /\ Kept(elapsed, 0)
    BY <1>1, <1>3, PulseBegins
  <1>5. /\ IsSend(send') /\ IsMembers(tx') /\ tx'.pulse = tx.pulse
        /\ send'.msg = send.msg
    BY <1>2, <1>4 DEF SameBit
  <1>6. Agrees(send', tx', q)
    BY <1>2, <1>4, SameBitAgrees DEF Agrees
  <1>7. Follows(q)'
    <2>1. CASE WriteSame
      <3>1. /\ pin' = pin /\ pin = send.first /\ state' = state /\ code' = code
        BY <1>1, <2>1, LevelIs DEF WriteSame, Quiet, receiverVars
      <3>2. since' = Gap + 0 /\ Gap = since + 0
        BY <1>1, <2>1, PulseBegins DEF WriteSame, Kept, Gap
      <3>3. CASE FirstOfFrame(q)
        <4>1. since = Pause
          BY <1>1, <3>1, <3>3 DEF Follows
        <4>2. since' = Pause
          BY <3>2, <4>1 DEF Pause
        <4>3. FirstOfFrame(q)'
          BY <1>2, <1>4, <3>3 DEF FirstOfFrame
        <4>4. QED
          BY <1>2, <1>4, <3>1, <4>2, <4>3 DEF Follows
      <3>4. CASE ~FirstOfFrame(q)
        <4>1. since = 0 /\ Stands(state, code, send.msg, q, send.half)
          BY <1>1, <3>4 DEF Follows
        <4>2. since' = 0
          BY <3>2, <4>1
        <4>3. Stands(state', code', send'.msg, q, send'.half)
          BY <1>2, <1>4, <1>5, <3>1, <4>1
        <4>4. QED
          BY <1>2, <1>4, <3>1, <4>2, <4>3 DEF Follows
      <3>5. QED
        BY <3>3, <3>4
    <2>2. CASE WriteHeard
      <3>1. pin' = send.first /\ Edge(Gap)
        BY <1>1, <2>2, LevelIs DEF WriteHeard
      <3>2. since' = 0
        BY <1>1, <2>2, PulseBegins DEF WriteHeard, Kept
      <3>3. state' = -1
        BY <1>1, <3>1, FollowsEdge
      <3>4. Stands(state', code', send'.msg, q, send'.half)
        BY <3>3 DEF Stands
      <3>5. QED
        BY <1>2, <1>4, <3>1, <3>2, <3>4 DEF Follows
    <2>3. QED
      BY <2>1, <2>2
  <1>8. QED
    BY <1>4, <1>5, <1>6, <1>7 DEF Goes

\* In the middle of a frame,
LEMMA FollowsInFrame ==
  ASSUME NEW m, NEW r \in 0 .. FrameLength - 1, NEW h \in {0, 1}, NEW pulse,
         InBit(send', tx', m, r, h, pulse), since' = 0, ~(r = 0 /\ h = 0),
         Stands(state', code', m, r, h)
  PROVE  Goes(pulse)
  <1>1. Follows(r)'
    BY DEF InBit, Follows, FirstOfFrame
  <1>2. QED
    BY <1>1 DEF InBit, Goes

\* and at the beginning of the next one.
LEMMA FollowsNextFrame ==
  ASSUME NEW m, NEW pulse, InBit(send', tx', m, 0, 0, pulse), since' = Pause
  PROVE  Goes(pulse)
  <1>1. Follows(0)'
    BY Pulses DEF InBit, Follows, FirstOfFrame
  <1>2. 0 \in 0 .. FrameLength - 1
    BY FirstsNat, WidthsNat
  <1>3. QED
    BY <1>1, <1>2 DEF InBit, Goes

LEMMA FollowsEnd ==
  ASSUME ReceiverType, IsSend(send), IsMembers(tx), tx.pulse \in 0 .. Frames,
         NEW q \in 0 .. FrameLength - 1, Agrees(send, tx, q), Follows(q),
         send.phase = "end", WriteHeard
  PROVE  \/ Goes(tx.pulse) /\ Kept(0, 0)
         \/ /\ FrameDone(0, 0)
            /\ IF tx.pulse + 1 < Frames
               THEN Goes(tx.pulse + 1)
               ELSE send'.phase = "last" /\ IsMembers(tx')
  <1>1. Edge(Gap) /\ GoesOn(tx, 0, 0)
    BY DEF WriteHeard
  <1>2. IF BitGoesOn(send.msg, q, send.half)
        THEN Stands(state', code', send.msg, q, 1)
        ELSE Stands(state', code', send.msg, q + 1, 0)
    BY <1>1, FollowsEdge
  <1>3. CASE /\ BitGoesOn(send.msg, q, send.half)
             /\ InBit(send', tx', send.msg, q, 1, tx.pulse) /\ Kept(0, 0)
    <2>1. since' = 0 /\ ~(q = 0 /\ 1 = 0) /\ 1 \in {0, 1}
      BY <1>3 DEF Kept
    <2>2. Goes(tx.pulse)
      BY <1>2, <1>3, <2>1, FollowsInFrame
    <2>3. QED
      BY <1>3, <2>2
  <1>4. CASE /\ ~BitGoesOn(send.msg, q, send.half) /\ q + 1 \in 0 .. FrameLength - 1
             /\ InBit(send', tx', send.msg, q + 1, 0, tx.pulse) /\ Kept(0, 0)
    <2>1. since' = 0 /\ ~(q + 1 = 0 /\ 0 = 0) /\ 0 \in {0, 1}
      BY <1>4, FirstsNat DEF Kept
    <2>2. Goes(tx.pulse)
      BY <1>2, <1>4, <2>1, FollowsInFrame
    <2>3. QED
      BY <1>4, <2>2
  <1>5. CASE /\ FrameDone(0, 0)
             /\ IF tx.pulse + 1 < Frames
                THEN InBit(send', tx', send.msg, 0, 0, tx.pulse + 1)
                ELSE send'.phase = "last" /\ IsMembers(tx')
    <2>1. since' = Pause
      BY <1>5 DEF FrameDone, Pause
    <2>2. tx.pulse + 1 < Frames => Goes(tx.pulse + 1)
      BY <1>5, <2>1, FollowsNextFrame
    <2>3. QED
      BY <1>5, <2>2
  <1>6. QED
    BY <1>1, <1>3, <1>4, <1>5, RightPulseEnds

\* The callback, which comes with the last pulse of a frame.
LEMMA FollowsInterrupted ==
  ASSUME ReceiverType, IsSend(send), IsMembers(tx), NEW q \in 0 .. FrameLength - 1,
         Agrees(send, tx, q), Follows(q), WriteInterrupted
  PROVE  /\ FrameDone(0, 1) /\ send'.phase = "last" /\ IsMembers(tx')
         /\ \A r \in relayed' : Reading(r) = Reading(send.msg)
  <1>1. Edge(Gap) /\ called' /= {}
    BY DEF WriteInterrupted
  <1>2. /\ send.phase = "end" /\ \A c \in called' : Says(c, send.msg)
        /\ q = FrameLength - 1 /\ ~BitGoesOn(send.msg, q, send.half)
    BY <1>1, FollowsEdge DEF IsSend
  <1>3. PICK c \in called', w \in Junk :
          relayed' = {Relay(c, w)} /\ GoesOn(AfterSendMsg(Relay(c, w)), 0, 1)
    BY DEF WriteInterrupted
  <1> DEFINE t == AfterSendMsg(Relay(c, w))
  <1>4. IsMembers(t) /\ t.pulse = Frames
    BY CallbackMembers
  <1>5. GoesOn(t, 0, 1)
    BY <1>3
  <1> HIDE DEF t
  <1>6. LastPulse(send)
    BY <1>2, AtIsLast
  <1>7. FrameDone(0, 1)
    <2>1. Agreeing(send) = q + 1 /\ Len(send.bits) = FrameLength
      BY AgreeingIs
    <2>2. Agreeing(send) = Len(send.bits)
      BY <1>2, <2>1, FirstsNat
    <2>3. QED
      BY <1>5, <1>6, <2>2, GoesOnIs
  <1>8. send'.phase = "last" /\ IsMembers(tx')
    <2>1. send' = FrameSent(send, t)[1] /\ tx' = FrameSent(send, t)[2]
      BY <1>2, <1>5, <1>6, PulseEnds
    <2>2. t.pulse \in 0 .. Frames /\ ~(t.pulse + 1 < Frames)
      BY <1>4 DEF Frames
    <2>3. QED
      BY <1>4, <2>1, <2>2, FrameSentIs
  <1>9. \A r \in relayed' : Reading(r) = Reading(send.msg)
    BY <1>2, <1>3, RelayReading
  <1>10. QED
    BY <1>7, <1>8, <1>9

\* The message nobody has heard so far.
LEMMA UnheardFollows ==
  ASSUME ReceiverType, IsMembers(tx), sensorAir = <<>>, IsSend(send), Unheard,
         ~(cut /\ sent.frames = 0), WriteSame \/ WriteHeard \/ WriteInterrupted
  PROVE  Sending' /\ IsMembers(tx')
  <1>1. PICK q \in 0 .. FrameLength - 1 : Agrees(send, tx, q) /\ Follows(q)
    BY DEF Unheard
  <1>2. /\ sent.calls = 0 /\ sent.frames \in 0 .. 3 /\ sent.whole = sent.frames
        /\ tx.pulse = sent.frames /\ tx.pulse \in 0 .. Frames
    BY DEF Unheard, Frames
  <1>3. sensorAir' = <<>> /\ cut' = cut
    BY DEF WriteSame, WriteHeard, WriteInterrupted
  <1>4. ASSUME NEW elapsed, Goes(tx.pulse), Kept(elapsed, 0) PROVE Unheard' /\ IsSend(send')
    BY <1>2, <1>3, <1>4 DEF Goes, Kept, Unheard
  <1>5. ASSUME FrameDone(0, 0), tx.pulse + 1 < Frames, Goes(tx.pulse + 1)
        PROVE  Unheard' /\ IsSend(send')
    BY <1>2, <1>3, <1>5 DEF Goes, FrameDone, Unheard, Frames
  <1>6. ASSUME FrameDone(0, 0), ~(tx.pulse + 1 < Frames) PROVE AtLast'
    <2>1. sent.frames = 3
      BY <1>2, <1>6 DEF Frames
    <2>2. sent'.calls = 0 /\ sent'.frames = 4 /\ sent'.whole = 4 /\ since' = Pause
      BY <1>2, <1>6, <2>1 DEF FrameDone, Pause
    <2>3. QED
      BY <2>2 DEF AtLast
  <1>7. ASSUME FrameDone(0, 1) PROVE AtLast'
    <2>1. sent'.calls = 1 /\ sent'.whole \in 1 .. 4 /\ since' = Pause
      BY <1>2, <1>7 DEF FrameDone, Pause
    <2>2. QED
      BY <2>1 DEF AtLast
  <1>8. CASE WriteSame \/ (WriteHeard /\ send.phase = "begin")
    <2>1. Goes(tx.pulse) /\ \E elapsed : Kept(elapsed, 0)
      BY <1>1, <1>8, FollowsBegin
    <2>2. QED
      BY <1>3, <1>4, <2>1 DEF Sending, Goes
  <1>9. CASE WriteHeard /\ send.phase = "end"
    <2>1. \/ Goes(tx.pulse) /\ Kept(0, 0)
          \/ /\ FrameDone(0, 0)
             /\ IF tx.pulse + 1 < Frames
                THEN Goes(tx.pulse + 1)
                ELSE send'.phase = "last" /\ IsMembers(tx')
      BY <1>1, <1>2, <1>9, FollowsEnd
    <2>2. QED
      BY <1>3, <1>4, <1>5, <1>6, <2>1 DEF Sending, Goes
  <1>10. CASE WriteInterrupted
    <2>1. FrameDone(0, 1) /\ send'.phase = "last" /\ IsMembers(tx')
      BY <1>1, <1>10, FollowsInterrupted
    <2>2. QED
      BY <1>3, <1>7, <2>1 DEF Sending
  <1>11. QED
    BY <1>8, <1>9, <1>10 DEF IsSend

\* The message the receiver heard too early, and follows since.
LEMMA EarlyFollows ==
  ASSUME ReceiverType, IsMembers(tx), sensorAir = <<>>, IsSend(send),
         cut, sent.calls = 1, tx.pulse = Frames,
         NEW q \in 0 .. FrameLength - 1, Agrees(send, tx, q), Follows(q),
         WriteSame \/ WriteHeard \/ WriteInterrupted
  PROVE  Sending' /\ IsMembers(tx')
  <1>1. sensorAir' = <<>> /\ cut'
    BY DEF WriteSame, WriteHeard, WriteInterrupted
  <1>2. ASSUME NEW elapsed, Goes(tx.pulse), Kept(elapsed, 0) PROVE HeardEarly' /\ IsSend(send')
    BY <1>1, <1>2 DEF Goes, Kept, HeardEarly
  <1>3. ASSUME NEW calls \in {0, 1}, FrameDone(0, calls) PROVE AtLast'
    <2>1. sent'.calls \in {1, 2} /\ since' = Pause
      BY <1>3 DEF FrameDone, Pause
    <2>2. QED
      BY <1>1, <2>1 DEF AtLast
  <1>4. tx.pulse \in 0 .. Frames /\ ~(tx.pulse + 1 < Frames)
    BY DEF Frames
  <1>5. CASE WriteSame \/ (WriteHeard /\ send.phase = "begin")
    <2>1. Goes(tx.pulse) /\ \E elapsed : Kept(elapsed, 0)
      BY <1>5, FollowsBegin
    <2>2. QED
      BY <1>1, <1>2, <2>1 DEF Sending, Goes
  <1>6. CASE WriteHeard /\ send.phase = "end"
    <2>1. \/ Goes(tx.pulse) /\ Kept(0, 0)
          \/ FrameDone(0, 0) /\ send'.phase = "last" /\ IsMembers(tx')
      BY <1>4, <1>6, FollowsEnd
    <2>2. QED
      BY <1>1, <1>2, <1>3, <2>1 DEF Sending, Goes
  <1>7. CASE WriteInterrupted
    <2>1. FrameDone(0, 1) /\ send'.phase = "last" /\ IsMembers(tx')
      BY <1>7, FollowsInterrupted
    <2>2. QED
      BY <1>1, <1>3, <2>1 DEF Sending
  <1>8. QED
    BY <1>5, <1>6, <1>7 DEF IsSend

\* The callback has taken the first edge away: the pin is LOW until the second half
\* of the first bit has been sent, and that edge ends a long interval.
LEMMA EarlySwallowed ==
  ASSUME ReceiverType, IsMembers(tx), sensorAir = <<>>, IsSend(send),
         cut, sent.calls = 1, tx.pulse = Frames,
         NEW q \in 0 .. FrameLength - 1, Agrees(send, tx, q), Swallowed(q),
         WriteSame \/ WriteHeard \/ WriteInterrupted
  PROVE  Sending' /\ IsMembers(tx')
  <1>1. sensorAir' = <<>> /\ cut'
    BY DEF WriteSame, WriteHeard, WriteInterrupted
  <1>2. /\ q = 0 /\ pin = FALSE /\ Fresh(state, code) /\ send.msg \in Messages
        /\ send.bit = 1 /\ FrameBits(send.msg)[1] = 1
    <2>1. send.msg \in Messages /\ q = 0 /\ pin = FALSE /\ Fresh(state, code)
      BY RepeaterAssumption DEF IsSend, RepeaterAssumption, Swallowed
    <2>2. FrameBits(send.msg)[1] = 1
      BY <2>1, FrameBitsAre
    <2>3. QED
      BY <2>1, <2>2 DEF Agrees, RightBit
  <1>3. /\ BitGoesOn(send.msg, q, send.half) <=> send.half = 0
        /\ tx.pulse \in 0 .. Frames /\ q /= FrameLength - 1
    BY <1>2, FirstsNat, WidthsNat DEF BitGoesOn, Frames
  <1>4. CASE send.half = 0
    <2>1. send.phase = "end" /\ send.first = TRUE /\ since = 0
      BY <1>4 DEF Swallowed
    <2>2. pin = Level
      BY <1>2, <2>1 DEF Level
    <2>3. WriteSame /\ Gap = PULSE1
      BY <1>2, <2>1, <2>2 DEF WriteHeard, WriteInterrupted, Gap, Usec, PULSE1
    <2>4. GoesOn(tx, PULSE1, 0) /\ pin' = pin /\ state' = state /\ code' = code
      BY <2>3 DEF WriteSame, Quiet, receiverVars
    <2>5. InBit(send', tx', send.msg, q, 1, tx.pulse) /\ Kept(PULSE1, 0)
      BY <1>3, <1>4, <2>1, <2>4, RightPulseEnds
    <2>6. ~LastPulse(send)
      BY <1>3, <1>4, <2>1, AtIsLast
    <2>7. send' = OtherHalf(send)
      BY <1>2, <1>4, <2>1, <2>4, <2>6, PulseEnds, AfterPulseIs
    <2>8. send'.first = FALSE
      BY <1>2, <2>1, <2>7, OtherHalfIs
    <2>9. since' = PULSE1 /\ sent'.calls = 1
      BY <2>5 DEF Kept, PULSE1
    <2>10. Swallowed(q)'
      BY <1>2, <2>4, <2>5, <2>8, <2>9 DEF Swallowed, InBit
    <2>11. HeardEarly' /\ IsSend(send') /\ IsMembers(tx')
      BY <1>1, <2>5, <2>9, <2>10 DEF HeardEarly, InBit
    <2>12. QED
      BY <1>1, <2>11 DEF Sending
  <1>5. CASE send.half = 1 /\ send.phase = "begin"
    <2>1. send.first = FALSE /\ since = PULSE1
      BY <1>5 DEF Swallowed
    <2>2. pin = Level
      BY <1>2, <1>5, <2>1 DEF Level
    <2>3. WriteSame /\ Gap = PULSE1
      BY <1>5, <2>1, <2>2 DEF WriteHeard, WriteInterrupted, Gap, PULSE1
    <2>4. GoesOn(tx, PULSE1, 0) /\ pin' = pin /\ state' = state /\ code' = code
      BY <2>3 DEF WriteSame, Quiet, receiverVars
    <2>5. send' = Ended(send) /\ tx' = tx /\ Kept(PULSE1, 0)
      BY <1>5, <2>4, PulseBegins
    <2>6. /\ SameBit(send, send') /\ send'.good = send.good /\ send'.half = 1
          /\ send'.phase = "end" /\ send'.first = FALSE
      BY <1>5, <2>1, <2>5, EndedIs
    <2>7. IsSend(send') /\ Agrees(send', tx', q)
      BY <2>5, <2>6, SameBitAgrees DEF Agrees, SameBit
    <2>8. since' = PULSE1 /\ sent'.calls = 1
      BY <2>5 DEF Kept, PULSE1
    <2>9. Swallowed(q)'
      BY <1>2, <2>4, <2>6, <2>8 DEF Swallowed
    <2>10. HeardEarly' /\ IsMembers(tx')
      BY <1>1, <2>5, <2>7, <2>8, <2>9 DEF HeardEarly
    <2>11. QED
      BY <1>1, <2>7, <2>10 DEF Sending
  <1>6. CASE send.half = 1 /\ send.phase = "end"
    <2>1. send.first = FALSE /\ since = PULSE1
      BY <1>6 DEF Swallowed
    <2>2. pin /= Level
      BY <1>2, <1>6, <2>1 DEF Level
    <2>3. Gap = PULSE1 + PULSE1
      BY <1>2, <1>6, <2>1 DEF Gap, Usec
    <2>4. Edge(PULSE1 + PULSE1)
      BY <2>2, <2>3 DEF WriteSame, WriteHeard, WriteInterrupted
    <2>5. called' = {} /\ state' = -1
      <3>1. state < FrameEnd - 2 /\ ~(state >= 4)
        BY <1>2, StateBounds DEF Fresh
      <3>2. QED
        BY <2>4, <3>1, Pulses, Advances
    <2>6. WriteHeard /\ GoesOn(tx, 0, 0)
      BY <2>2, <2>5 DEF WriteSame, WriteHeard, WriteInterrupted
    <2>7. /\ q + 1 \in 0 .. FrameLength - 1
          /\ InBit(send', tx', send.msg, q + 1, 0, tx.pulse) /\ Kept(0, 0)
      BY <1>3, <1>6, <2>6, RightPulseEnds
    <2>8. since' = 0 /\ ~(q + 1 = 0 /\ 0 = 0) /\ 0 \in {0, 1} /\ sent'.calls = 1
      BY <1>2, <2>7 DEF Kept
    <2>9. Stands(state', code', send.msg, q + 1, 0)
      BY <2>5 DEF Stands
    <2>10. Goes(tx.pulse)
      BY <2>7, <2>8, <2>9, FollowsInFrame
    <2>11. HeardEarly' /\ IsSend(send') /\ IsMembers(tx')
      BY <1>1, <2>8, <2>10 DEF HeardEarly, Goes
    <2>12. QED
      BY <1>1, <2>11 DEF Sending
  <1>7. QED
    BY <1>4, <1>5, <1>6 DEF IsSend

\* A callback in the middle of a field has set i to 0, and the loop goes on from
\* there, as if the byte could be less than 0.
LEMMA StrayPulseEnds ==
  ASSUME IsSend(send), send.phase = "end", send.field \in 1 .. 5,
         ~(send.bit = 1 /\ send.half = 0),
         NEW t, IsMembers(t), t.i = 0 \/ t.i > Widths[send.field],
         NEW elapsed, NEW calls, GoesOn(t, elapsed, calls)
  PROVE  /\ IsSend(send') /\ IsMembers(tx') /\ tx'.pulse = t.pulse /\ Kept(elapsed, calls)
         /\ send'.phase = "begin" /\ send'.half = 0 /\ send'.field \in 1 .. 5
         /\ \/ tx'.i > Widths[send'.field] /\ send'.bit = 0
            \/ \E q \in 4 .. FrameLength - 1 : At(send', tx', q)
  <1> DEFINE f == send.field
             w == Widths[f]
             z == Counted(send)
             u == Toggled(send, t)
             i == Decrement(t.i)
  <1>1. /\ w \in Nat /\ w > 0 /\ w < CounterMod /\ CounterMod \in Nat /\ FieldFirst[f] \in Nat
        /\ FieldFirst[f] >= 4 /\ FieldFirst[f] + w <= FrameLength - 1 /\ FrameLength \in Nat
        /\ CounterMod > 16
    BY FieldPlaces, Bounds, FirstsNat
  <1>2. t.i \in 0 .. CounterMod - 1
    BY DEF IsMembers
  <1> HIDE DEF w
  <1>3. i \in 0 .. CounterMod - 1 /\ i /= 0 /\ i >= w
    <2>1. i = (IF t.i = 0 THEN CounterMod - 1 ELSE t.i - 1) /\ i \in 0 .. CounterMod - 1
      BY <1>2, DecrementIs
    <2>2. t.i = 0 \/ t.i > w
      BY DEF w
    <2> HIDE DEF i
    <2>3. QED
      BY <1>1, <1>2, <2>1, <2>2
  <1>4. ~LastPulse(send)
    <2>1. send.field /= 6
      OBVIOUS
    <2>2. QED
      BY <2>1, WidthsAre DEF LastPulse
  <1>5. Kept(elapsed, calls)
    BY <1>4, GoesOnIs
  <1>6. /\ SameBit(send, z) /\ IsSend(z) /\ z.field = f
    BY CountedIs DEF SameBit
  <1>7. IsMembers(u) /\ u.i = t.i /\ u.pulse = t.pulse
    BY ToggledIs
  <1>8. AfterPulse(send, t) = NextBit(z, u)
    BY AfterPulseIs
  <1> HIDE DEF z, u
  <1>9. NextBit(z, u) = NextInField(z, u)
    <2>1. z.field \in DOMAIN Widths /\ z.field /= 0
      BY <1>6, WidthsAre
    <2>2. QED
      BY <2>1 DEF NextBit
  <1> DEFINE x == WithCount(u, i)
             y == FieldBit(z, x, f, i)
  <1>10. NextInField(z, u) = <<y, x>>
    <2>1. i = Decrement(u.i)
      BY <1>7
    <2> HIDE DEF i
    <2>2. NextInField(z, u) = <<FieldBit(z, x, z.field, i), x>>
      BY <1>3, <1>7, <2>1, InField
    <2>3. QED
      BY <1>6, <2>2
  <1> HIDE DEF i
  <1>11. IsMembers(x) /\ x.i = i /\ x.pulse = t.pulse
    BY <1>3, <1>7, WithI DEF WithCount
  <1> HIDE DEF x
  <1>12. IsFieldBit(z, y, f, i)
    BY <1>3, <1>6, <1>11, FieldBitIs
  <1> HIDE DEF y
  <1>13. IsSend(y) /\ y.phase = "begin" /\ y.half = 0 /\ y.field = f /\ (i > w => y.bit = 0)
    BY <1>12 DEF IsFieldBit, w
  <1>14. send' = y /\ tx' = x
    BY <1>4, <1>8, <1>9, <1>10, PulseEnds
  <1>15. CASE i > w
    BY <1>5, <1>11, <1>13, <1>14, <1>15 DEF w
  <1>16. CASE i = w
    <2>1. At(y, x, FieldFirst[f])
      <3>1. x.i \in 1 .. w /\ FieldFirst[f] = FieldFirst[f] + w - x.i
        BY <1>1, <1>11, <1>16
      <3>2. QED
        BY <1>13, <3>1 DEF At, w
    <2>2. FieldFirst[f] \in 4 .. FrameLength - 1
      BY <1>1
    <2>3. QED
      BY <1>5, <1>11, <1>13, <1>14, <2>1, <2>2
  <1>17. QED
    BY <1>1, <1>3, <1>15, <1>16

LEMMA OtherHalfNext ==
  ASSUME IsSend(send), send.phase = "end", send.bit = 1, send.half = 0,
         NEW t, IsMembers(t), NEW elapsed, NEW calls, GoesOn(t, elapsed, calls)
  PROVE  /\ IsSend(send') /\ SameBit(send, send') /\ send'.phase = "begin" /\ send'.half = 1
         /\ send'.field = send.field
         /\ tx' = t /\ Kept(elapsed, calls)
  <1>1. ~LastPulse(send)
    BY DEF LastPulse
  <1>2. send' = OtherHalf(send) /\ tx' = t
    BY <1>1, PulseEnds, AfterPulseIs
  <1>3. Kept(elapsed, calls)
    BY <1>1, GoesOnIs
  <1>4. QED
    BY <1>2, <1>3, OtherHalfIs DEF SameBit

\* An edge in a frame that began in the middle of a sensor's message.
LEMMA IntrudesCall ==
  ASSUME ReceiverType, IsMembers(tx), sensorAir = <<>>, IsSend(send), send.phase = "end",
         cut, sent.calls = 0, NEW q \in 0 .. FrameLength - 1, Agrees(send, tx, q),
         WriteInterrupted
  PROVE  Sending' /\ IsMembers(tx')
  <1>1. sensorAir' = <<>> /\ cut' /\ state' = -1 /\ pin' = FALSE
    BY CallRests DEF WriteInterrupted
  <1>2. PICK c \in called', w \in Junk : GoesOn(AfterSendMsg(Relay(c, w)), 0, 1)
    BY DEF WriteInterrupted
  <1> DEFINE t == AfterSendMsg(Relay(c, w))
  <1>3. IsMembers(t) /\ t.i = 0 /\ t.pulse = Frames /\ t.pulse \in 0 .. Frames
    BY CallbackMembers DEF Frames
  <1>4. GoesOn(t, 0, 1)
    BY <1>2
  <1> HIDE DEF t
  <1>5. CASE send.field \notin 1 .. 5
    <2>1. Agrees(send, t, q)
      BY <1>5 DEF Agrees, At
    <2>2. ASSUME NEW r \in 0 .. FrameLength - 1, NEW h \in {0, 1}, ~(r = 0 /\ h = 0),
                 InBit(send', tx', send.msg, r, h, Frames), Kept(0, 1)
          PROVE  Sending' /\ IsMembers(tx')
      <3>1. since' = 0 /\ sent'.calls = 1
        BY <2>2 DEF Kept
      <3>2. Stands(state', code', send.msg, r, h)
        BY <1>1 DEF Stands
      <3>3. Goes(Frames)
        BY <2>2, <3>1, <3>2, FollowsInFrame
      <3>4. HeardEarly' /\ IsSend(send') /\ IsMembers(tx')
        BY <1>1, <3>1, <3>3 DEF HeardEarly, Goes
      <3>5. QED
        BY <1>1, <3>4 DEF Sending
    <2>3. CASE InBit(send', tx', send.msg, q, 1, t.pulse) /\ Kept(0, 1)
      <3>1. 1 \in {0, 1} /\ ~(q = 0 /\ 1 = 0)
        OBVIOUS
      <3>2. QED
        BY <1>3, <2>2, <2>3, <3>1
    <2>4. CASE /\ q + 1 \in 0 .. FrameLength - 1
               /\ InBit(send', tx', send.msg, q + 1, 0, t.pulse) /\ Kept(0, 1)
      <3>1. 0 \in {0, 1} /\ ~(q + 1 = 0 /\ 0 = 0)
        BY FirstsNat
      <3>2. QED
        BY <1>3, <2>2, <2>4, <3>1
    <2>5. CASE FrameDone(0, 1) /\ send'.phase = "last" /\ IsMembers(tx')
      <3>1. since' = Pause /\ sent'.calls = 1
        BY <2>5 DEF FrameDone, Pause
      <3>2. AtLast'
        BY <1>1, <3>1 DEF AtLast
      <3>3. QED
        BY <1>1, <2>5, <3>2 DEF Sending
    <2>6. ~(t.pulse + 1 < Frames)
      BY <1>3 DEF Frames
    <2>7. QED
      BY <1>3, <1>4, <2>1, <2>3, <2>4, <2>5, <2>6, RightPulseEnds
  <1>6. CASE send.field \in 1 .. 5 /\ send.bit = 1 /\ send.half = 0
    <2>1. /\ IsSend(send') /\ send'.phase = "begin" /\ send'.half = 1
          /\ send'.field \in 1 .. 5 /\ tx' = t /\ Kept(0, 1)
      BY <1>3, <1>4, <1>6, OtherHalfNext
    <2>2. since' = 0 /\ sent'.calls = 1
      BY <2>1 DEF Kept
    <2>3. Astray'
      BY <1>1, <1>3, <2>1, <2>2 DEF Astray
    <2>4. QED
      BY <1>1, <1>3, <2>1, <2>2, <2>3 DEF Sending, HeardLate
  <1>7. CASE send.field \in 1 .. 5 /\ ~(send.bit = 1 /\ send.half = 0)
    <2>1. /\ IsSend(send') /\ IsMembers(tx') /\ tx'.pulse = t.pulse /\ Kept(0, 1)
          /\ send'.phase = "begin" /\ send'.half = 0 /\ send'.field \in 1 .. 5
          /\ \/ tx'.i > Widths[send'.field] /\ send'.bit = 0
             \/ \E r \in 4 .. FrameLength - 1 : At(send', tx', r)
      BY <1>3, <1>4, <1>7, StrayPulseEnds
    <2>2. since' = 0 /\ sent'.calls = 1
      BY <2>1 DEF Kept
    <2>3. Astray'
      <3>1. CASE tx'.i > Widths[send'.field] /\ send'.bit = 0
        BY <1>1, <2>1, <2>2, <3>1 DEF Astray
      <3>2. CASE \E r \in 4 .. FrameLength - 1 : At(send', tx', r)
        <4>1. PICK r \in 4 .. FrameLength - 1 : At(send', tx', r)
          BY <3>2
        <4>2. state' <= 2 * r + send'.half - 6
          BY <1>1, <2>1, FirstsNat
        <4>3. QED
          BY <2>1, <2>2, <4>1, <4>2 DEF Astray
      <3>3. QED
        BY <2>1, <3>1, <3>2
    <2>4. QED
      BY <1>1, <1>3, <2>1, <2>2, <2>3 DEF Sending, HeardLate
  <1>8. QED
    BY <1>5, <1>6, <1>7

LEMMA IntrudesOn ==
  ASSUME ReceiverType, IsMembers(tx), sensorAir = <<>>, IsSend(send), Unheard,
         cut, sent.frames = 0, WriteSame \/ WriteHeard \/ WriteInterrupted
  PROVE  Sending' /\ IsMembers(tx')
  <1>1. PICK q \in 0 .. FrameLength - 1 : Agrees(send, tx, q) /\ Intrudes(q)
    BY DEF Unheard
  <1>2. sent.calls = 0 /\ sent.whole = 0 /\ tx.pulse = 0 /\ tx.pulse \in 0 .. Frames
    BY DEF Unheard, Frames
  <1>3. sensorAir' = <<>> /\ cut'
    BY DEF WriteSame, WriteHeard, WriteInterrupted
  <1>4. /\ SameBit(send, Ended(send)) /\ Ended(send).good = send.good
        /\ Ended(send).half = send.half /\ Ended(send).phase = "end"
        /\ Ended(send).first = send.first
    BY EndedIs
  <1>5. CASE send.phase = "begin" /\ ~WriteInterrupted
    <2>1. ~FirstOfFrame(q) => since = 0
      BY <1>1, <1>5 DEF Intrudes
    <2>2. PICK elapsed : GoesOn(tx, elapsed, 0)
      BY <1>5 DEF WriteSame, WriteHeard
    <2>3. send' = Ended(send) /\ tx' = tx /\ Kept(elapsed, 0)
      BY <1>5, <2>2, PulseBegins
    <2>4. since' = 0 /\ pin' = send.first
      <3>1. CASE WriteSame
        <4>1. pin = send.first /\ pin' = pin
          BY <1>5, <3>1, LevelIs DEF WriteSame
        <4>2. ~FirstOfFrame(q)
          BY <1>1, <1>5, <4>1 DEF Intrudes
        <4>3. Gap = 0
          BY <1>5, <2>1, <4>2 DEF Gap
        <4>4. since' = 0
          BY <1>5, <3>1, <4>3, PulseBegins DEF WriteSame, Kept
        <4>5. QED
          BY <4>1, <4>4
      <3>2. CASE WriteHeard
        <4>1. since' = 0
          BY <1>5, <3>2, PulseBegins DEF WriteHeard, Kept
        <4>2. pin' = send.first
          BY <1>5, <3>2, LevelIs DEF WriteHeard
        <4>3. QED
          BY <4>1, <4>2
      <3>3. QED
        BY <1>5, <3>1, <3>2
    <2>5. Intrudes(q)'
      BY <1>4, <2>3, <2>4 DEF Intrudes
    <2>6. IsSend(send') /\ Agrees(send', tx', q)
      BY <1>1, <1>4, <2>3, SameBitAgrees DEF Agrees, SameBit
    <2>7. Unheard'
      BY <1>2, <1>3, <2>3, <2>5, <2>6 DEF Unheard, Kept
    <2>8. QED
      BY <1>3, <2>3, <2>6, <2>7 DEF Sending
  <1>6. CASE send.phase = "begin" /\ WriteInterrupted
    <2>1. Edge(Gap) /\ called' /= {} /\ pin' = FALSE
      BY <1>6 DEF WriteInterrupted
    <2>2. state' = -1
      BY <2>1, CallRests
    <2>3. FirstOfFrame(q) /\ send.first = TRUE
      <3>1. ASSUME since = 0 PROVE FALSE
        <4>1. Gap = 0
          BY <1>6, <3>1 DEF Gap
        <4>2. QED
          BY <2>1, <4>1, Pulses, StillRests
      <3>2. QED
        BY <1>1, <1>6, <3>1 DEF Intrudes
    <2>4. PICK c \in called', w \in Junk : GoesOn(AfterSendMsg(Relay(c, w)), 0, 1)
      BY <1>6 DEF WriteInterrupted
    <2> DEFINE t == AfterSendMsg(Relay(c, w))
    <2>5. IsMembers(t) /\ t.pulse = Frames
      BY CallbackMembers
    <2>6. GoesOn(t, 0, 1)
      BY <2>4
    <2> HIDE DEF t
    <2>7. send' = Ended(send) /\ tx' = t /\ Kept(0, 1)
      BY <1>6, <2>6, PulseBegins
    <2>8. since' = 0 /\ sent'.calls = 1
      BY <1>2, <2>7 DEF Kept
    <2>9. Agrees(send', tx', q) /\ IsSend(send')
      <3>1. q = 0
        BY <2>3 DEF FirstOfFrame
      <3>2. send.field = 0
        <4>1. send.field \in 1 .. 5 => q /= 0
          <5>1. ASSUME send.field \in 1 .. 5 PROVE q /= 0
            <6>1. /\ FieldFirst[send.field] \in Nat /\ FieldFirst[send.field] >= 4
                  /\ Widths[send.field] \in Nat
              BY <5>1, FieldPlaces
            <6>2. /\ tx.i \in 1 .. Widths[send.field]
                  /\ q = FieldFirst[send.field] + Widths[send.field] - tx.i
              BY <1>1, <5>1 DEF Agrees, At
            <6>3. QED
              BY <6>1, <6>2
          <5>2. QED
            BY <5>1
        <4>2. send.field = 6 => q /= 0
          BY <1>1, FirstsNat, WidthsNat DEF Agrees, At
        <4>3. QED
          BY <3>1, <4>1, <4>2 DEF IsSend
      <3>3. At(send, t, q)
        BY <1>1, <3>2 DEF Agrees, At
      <3>4. QED
        BY <1>1, <1>4, <2>7, <3>3, SameBitAgrees DEF Agrees, SameBit
    <2>10. Swallowed(q)'
      <3>1. Fresh(state', code')
        BY <2>2 DEF Fresh
      <3>2. q = 0 /\ send'.half = 0 /\ send'.phase = "end" /\ send'.first = TRUE
        BY <1>4, <2>3, <2>7 DEF FirstOfFrame
      <3>3. QED
        BY <2>1, <2>8, <3>1, <3>2 DEF Swallowed
    <2>11. HeardEarly'
      BY <1>3, <2>5, <2>7, <2>8, <2>9, <2>10 DEF HeardEarly
    <2>12. QED
      BY <1>3, <2>5, <2>7, <2>9, <2>11 DEF Sending
  <1>7. CASE send.phase = "end" /\ WriteInterrupted
    BY <1>1, <1>2, <1>7, IntrudesCall
  <1>8. CASE send.phase = "end" /\ ~WriteInterrupted
    <2>1. pin = send.first
      BY <1>1, <1>8 DEF Intrudes
    <2>2. GoesOn(tx, 0, 0)
      BY <1>8, <2>1, LevelIs DEF WriteSame, WriteHeard
    <2>3. ASSUME NEW r \in 0 .. FrameLength - 1, NEW h \in {0, 1}, ~(r = 0 /\ h = 0),
                 InBit(send', tx', send.msg, r, h, tx.pulse), Kept(0, 0)
          PROVE  Sending' /\ IsMembers(tx')
      <3>1. /\ since' = 0 /\ sent'.calls = 0 /\ sent'.frames = 0 /\ sent'.whole = 0
        BY <1>2, <2>3 DEF Kept
      <3>2. Intrudes(r)' /\ IsSend(send') /\ IsMembers(tx') /\ Agrees(send', tx', r)
        BY <2>3, <3>1 DEF InBit, Intrudes, FirstOfFrame
      <3>3. Unheard'
        BY <1>2, <1>3, <2>3, <3>1, <3>2 DEF Unheard, InBit
      <3>4. QED
        BY <1>3, <3>2, <3>3 DEF Sending
    <2>4. CASE InBit(send', tx', send.msg, q, 1, tx.pulse) /\ Kept(0, 0)
      <3>1. 1 \in {0, 1} /\ ~(q = 0 /\ 1 = 0)
        OBVIOUS
      <3>2. QED
        BY <2>3, <2>4, <3>1
    <2>5. CASE /\ q + 1 \in 0 .. FrameLength - 1
               /\ InBit(send', tx', send.msg, q + 1, 0, tx.pulse) /\ Kept(0, 0)
      <3>1. 0 \in {0, 1} /\ ~(q + 1 = 0 /\ 0 = 0)
        BY FirstsNat
      <3>2. QED
        BY <2>3, <2>5, <3>1
    <2>6. CASE FrameDone(0, 0) /\ InBit(send', tx', send.msg, 0, 0, tx.pulse + 1)
      <3>1. since' = Pause /\ sent'.calls = 0 /\ sent'.frames = 1 /\ sent'.whole = 1
        BY <1>2, <2>6 DEF FrameDone, Pause
      <3>2. Goes(tx.pulse + 1)
        BY <2>6, <3>1, FollowsNextFrame
      <3>3. Unheard' /\ IsSend(send') /\ IsMembers(tx')
        BY <1>2, <1>3, <3>1, <3>2 DEF Unheard, Goes
      <3>4. QED
        BY <1>3, <3>3 DEF Sending
    <2>7. tx.pulse + 1 < Frames
      BY <1>2 DEF Frames
    <2>8. QED
      BY <1>1, <1>2, <1>8, <2>2, <2>4, <2>5, <2>6, <2>7, RightPulseEnds
  <1>9. QED
    BY <1>5, <1>6, <1>7, <1>8 DEF IsSend

\* The loop has gone astray, and is never heard again.
LEMMA AstrayBegins ==
  ASSUME ReceiverType, IsMembers(tx), sensorAir = <<>>, IsSend(send), send.phase = "begin",
         HeardLate, WriteSame \/ WriteHeard \/ WriteInterrupted
  PROVE  Sending' /\ IsMembers(tx')
  <1>1. /\ cut /\ sent.calls = 1 /\ tx.pulse = Frames /\ since = 0 /\ Astray
    BY DEF HeardLate, Astray
  <1>2. sensorAir' = <<>> /\ cut'
    BY <1>1 DEF WriteSame, WriteHeard, WriteInterrupted
  <1>3. Gap = 0
    BY <1>1 DEF Gap
  <1>4. Edge(Gap) => state' = -1 /\ called' = {}
    BY <1>3, Pulses, StillRests
  <1>5. GoesOn(tx, 0, 0) /\ pin' = send.first /\ (state' = state \/ state' = -1)
    <2>1. CASE WriteSame
      <3>1. pin = send.first
        BY <2>1, LevelIs DEF WriteSame
      <3>2. QED
        BY <1>3, <2>1, <3>1 DEF WriteSame, Quiet, receiverVars
    <2>2. CASE WriteHeard
      BY <1>4, <2>2, LevelIs DEF WriteHeard
    <2>3. CASE WriteInterrupted
      BY <1>4, <2>3 DEF WriteInterrupted
    <2>4. QED
      BY <2>1, <2>2, <2>3
  <1>6. send' = Ended(send) /\ tx' = tx /\ Kept(0, 0)
    BY <1>5, PulseBegins
  <1>7. /\ SameBit(send, send') /\ send'.half = send.half /\ send'.phase = "end"
        /\ send'.first = send.first /\ IsSend(send')
        /\ send'.field = send.field /\ send'.bit = send.bit
    BY <1>6, EndedIs DEF SameBit
  <1>8. since' = 0 /\ sent'.calls = 1
    BY <1>1, <1>6 DEF Kept
  <1>9. state \in Int /\ state >= -1 /\ send.half \in {0, 1}
    BY StateBounds DEF IsSend
  <1>10. CASE \E q \in 4 .. FrameLength - 1 :
                At(send, tx, q) /\ state <= 2 * q + send.half - 6
    <2>1. PICK q \in 4 .. FrameLength - 1 :
            At(send, tx, q) /\ state <= 2 * q + send.half - 6
      BY <1>10
    <2>2. At(send', tx', q)
      BY <1>6, <1>7, <2>1, SameBitAgrees
    <2>3. state' <= 2 * q + send'.half - 6
      BY <1>5, <1>7, <1>9, <2>1, FirstsNat
    <2>4. Astray'
      BY <1>5, <1>7, <1>8, <2>2, <2>3 DEF Astray
    <2>5. QED
      BY <1>1, <1>2, <1>6, <1>7, <1>8, <2>4 DEF Sending, HeardLate
  <1>11. CASE send.field \in 1 .. 5 /\ tx.i = 0 /\ send.half = 1 /\ state <= 1
    <2>1. state' <= 1
      BY <1>5, <1>9, <1>11
    <2>2. Astray'
      BY <1>5, <1>6, <1>7, <1>8, <1>11, <2>1 DEF Astray
    <2>3. QED
      BY <1>1, <1>2, <1>6, <1>7, <1>8, <2>2 DEF Sending, HeardLate
  <1>12. CASE send.field \in 1 .. 5 /\ tx.i > Widths[send.field] /\ send.bit = 0 /\ state <= 2
    <2>1. state' <= 2
      BY <1>5, <1>9, <1>12
    <2>2. Astray'
      BY <1>5, <1>6, <1>7, <1>8, <1>12, <2>1 DEF Astray
    <2>3. QED
      BY <1>1, <1>2, <1>6, <1>7, <1>8, <2>2 DEF Sending, HeardLate
  <1>13. QED
    BY <1>1, <1>10, <1>11, <1>12 DEF Astray

LEMMA AstrayEnds ==
  ASSUME ReceiverType, IsMembers(tx), sensorAir = <<>>, IsSend(send), send.phase = "end",
         HeardLate, WriteSame \/ WriteHeard \/ WriteInterrupted
  PROVE  Sending' /\ IsMembers(tx')
  <1>1. /\ cut /\ sent.calls = 1 /\ tx.pulse = Frames /\ since = 0 /\ Astray
        /\ pin = send.first
    BY DEF HeardLate, Astray
  <1>2. sensorAir' = <<>> /\ cut'
    BY <1>1 DEF WriteSame, WriteHeard, WriteInterrupted
  <1>3. /\ send.bit \in {0, 1} /\ send.half \in {0, 1} /\ (send.half = 1 => send.bit = 1)
        /\ send.field \in 0 .. 6
    BY DEF IsSend
  <1>4. /\ send.bit = 1 => Short(Gap)
        /\ send.bit = 0 => Long(Gap)
    <2>1. Gap = IF send.bit = 1 THEN PULSE1 ELSE PULSE0
      BY <1>1 DEF Gap, Usec, PULSE1, PULSE0
    <2>2. QED
      BY <2>1, Pulses
  <1>5. Edge(Gap)
    BY <1>1, LevelIs DEF WriteSame, WriteHeard, WriteInterrupted
  <1>6. /\ state \in Int /\ state >= -1 /\ FrameEnd = 2 * FrameLength /\ FrameLength \in Nat
        /\ FrameLength > 9
    BY StateBounds
  <1>7. state < FrameEnd - 2
    <2>1. CASE \E q \in 4 .. FrameLength - 1 :
                 At(send, tx, q) /\ state <= 2 * q + send.half - 6
      BY <1>3, <1>6, <2>1
    <2>2. CASE state <= 2
      BY <1>6, <2>2
    <2>3. QED
      BY <1>1, <1>6, <2>1, <2>2 DEF Astray
  <1>8. /\ called' = {} /\ state' \in Int
        /\ send.bit = 1 => state' <= state + 1 \/ state' <= 1
        /\ send.bit = 0 => state' = -1 \/ (state >= 4 /\ state' <= state + 2)
    BY <1>3, <1>4, <1>5, <1>7, Advances
  <1>9. GoesOn(tx, 0, 0)
    BY <1>1, <1>8, LevelIs DEF WriteSame, WriteHeard, WriteInterrupted
  <1>10. ASSUME IsSend(send'), IsMembers(tx'), tx'.pulse = tx.pulse, Kept(0, 0),
                send'.phase = "begin", state' \in Int,
                \/ \E q \in 4 .. FrameLength - 1 :
                     At(send', tx', q) /\ state' <= 2 * q + send'.half - 6
                \/ send'.field \in 1 .. 5 /\ tx'.i = 0 /\ send'.half = 1 /\ state' <= 1
                \/ /\ send'.field \in 1 .. 5 /\ tx'.i > Widths[send'.field] /\ send'.bit = 0
                   /\ state' <= 2
         PROVE  Sending' /\ IsMembers(tx')
    <2>1. since' = 0 /\ sent'.calls = 1
      BY <1>1, <1>10 DEF Kept
    <2>2. Astray'
      BY <1>10, <2>1 DEF Astray
    <2>3. QED
      BY <1>1, <1>2, <1>10, <2>1, <2>2 DEF Sending, HeardLate
  <1>11. ASSUME NEW q \in 4 .. FrameLength - 1, At(send, tx, q),
                state <= 2 * q + send.half - 6
         PROVE  Sending' /\ IsMembers(tx')
    <2>1. CASE send.bit = 1 /\ send.half = 0
      <3>1. /\ IsSend(send') /\ SameBit(send, send') /\ send'.phase = "begin"
            /\ send'.half = 1 /\ tx' = tx /\ Kept(0, 0)
        BY <1>9, <2>1, OtherHalfNext
      <3>2. At(send', tx', q)
        BY <1>11, <3>1, SameBitAgrees
      <3>3. state' <= 2 * q + send'.half - 6
        BY <1>6, <1>8, <1>11, <2>1, <3>1
      <3>4. QED
        BY <1>8, <1>10, <3>1, <3>2, <3>3
    <2>2. CASE ~(send.bit = 1 /\ send.half = 0) /\ LastPulse(send)
      <3>1. since' = Pause /\ sent'.calls = 1
        BY <1>1, <1>9, <2>2, GoesOnIs DEF Pause
      <3>2. send' = FrameSent(send, tx)[1] /\ tx' = FrameSent(send, tx)[2]
        BY <1>9, <2>2, PulseEnds
      <3>3. tx.pulse \in 0 .. Frames /\ ~(tx.pulse + 1 < Frames)
        BY <1>1 DEF Frames
      <3>4. send'.phase = "last" /\ IsMembers(tx')
        BY <3>2, <3>3, FrameSentIs
      <3>5. AtLast'
        BY <1>2, <3>1 DEF AtLast
      <3>6. QED
        BY <1>2, <3>4, <3>5 DEF Sending
    <2>3. CASE ~(send.bit = 1 /\ send.half = 0) /\ ~LastPulse(send)
      <3> DEFINE z == Counted(send)
                 u == Toggled(send, tx)
                 next == NextBit(z, u)
      <3>1. send.field /= 6
        BY <1>3, <2>3, WidthsAre DEF LastPulse
      <3>2. q \in Nat /\ q < FrameLength - 1
        <4>1. send.field \in 1 .. 5
          BY <1>3, <1>11, <3>1 DEF At
        <4>2. /\ Widths[send.field] \in Nat /\ FieldFirst[send.field] \in Nat
              /\ FieldFirst[send.field] + Widths[send.field] <= FrameLength - 1
          BY <4>1, FieldPlaces
        <4>3. /\ tx.i \in 1 .. Widths[send.field]
              /\ q = FieldFirst[send.field] + Widths[send.field] - tx.i
          BY <1>11, <4>1 DEF At
        <4>4. QED
          BY <1>6, <4>2, <4>3
      <3>3. Kept(0, 0)
        BY <1>9, <2>3, GoesOnIs
      <3>4. send' = next[1] /\ tx' = next[2]
        BY <1>9, <2>3, PulseEnds, AfterPulseIs
      <3>5. SameBit(send, z) /\ IsSend(z)
        BY CountedIs DEF SameBit
      <3>6. IsMembers(u) /\ u.i = tx.i /\ u.pulse = tx.pulse
        BY ToggledIs
      <3> HIDE DEF z, u
      <3>7. At(z, u, q)
        BY <1>11, <3>5, <3>6, SameBitAgrees
      <3>8. BeginsAt(z, u, next[1], next[2], q + 1)
        BY <3>2, <3>5, <3>6, <3>7, NextBitBegins
      <3> HIDE DEF next
      <3>9. /\ IsSend(send') /\ IsMembers(tx') /\ send'.phase = "begin" /\ send'.half = 0
            /\ tx'.pulse = tx.pulse /\ At(send', tx', q + 1)
        BY <3>4, <3>6, <3>8 DEF BeginsAt
      <3>10. q + 1 \in 4 .. FrameLength - 1
        BY <1>6, <3>2
      <3>11. state' <= 2 * (q + 1) + send'.half - 6
        BY <1>3, <1>6, <1>8, <1>11, <2>3, <3>9
      <3>12. QED
        BY <1>8, <1>10, <3>3, <3>9, <3>10, <3>11
    <2>4. QED
      BY <2>1, <2>2, <2>3
  <1>12. ASSUME send.field \in 1 .. 5, ~(send.bit = 1 /\ send.half = 0),
                tx.i = 0 \/ tx.i > Widths[send.field], state' <= 2
         PROVE  Sending' /\ IsMembers(tx')
    <2>1. /\ IsSend(send') /\ IsMembers(tx') /\ tx'.pulse = tx.pulse /\ Kept(0, 0)
          /\ send'.phase = "begin" /\ send'.half = 0 /\ send'.field \in 1 .. 5
          /\ \/ tx'.i > Widths[send'.field] /\ send'.bit = 0
             \/ \E r \in 4 .. FrameLength - 1 : At(send', tx', r)
      BY <1>9, <1>12, StrayPulseEnds
    <2>2. CASE tx'.i > Widths[send'.field] /\ send'.bit = 0
      BY <1>8, <1>10, <1>12, <2>1, <2>2
    <2>3. CASE \E r \in 4 .. FrameLength - 1 : At(send', tx', r)
      <3>1. PICK r \in 4 .. FrameLength - 1 : At(send', tx', r)
        BY <2>3
      <3>2. state' <= 2 * r + send'.half - 6
        BY <1>6, <1>8, <1>12, <2>1
      <3>3. QED
        BY <1>8, <1>10, <2>1, <3>1, <3>2
    <2>4. QED
      BY <2>1, <2>2, <2>3
  <1>13. CASE send.field \in 1 .. 5 /\ tx.i = 0 /\ send.half = 1 /\ state <= 1
    <2>1. state' <= 2
      BY <1>3, <1>6, <1>8, <1>13
    <2>2. QED
      BY <1>12, <1>13, <2>1
  <1>14. CASE send.field \in 1 .. 5 /\ tx.i > Widths[send.field] /\ send.bit = 0 /\ state <= 2
    <2>1. state' <= 2
      BY <1>3, <1>6, <1>8, <1>14
    <2>2. QED
      BY <1>12, <1>14, <2>1
  <1>15. QED
    BY <1>1, <1>11, <1>13, <1>14 DEF Astray

--------------------------------------------------------------------------------
(* Every step keeps the invariant.                                         *)

LEMMA SendingMeans ==
  ASSUME Sending'
  PROVE  send' /= Idle /\ SentInFull' /\ EchoedOnce'
  <1>1. send' /= Idle
    BY SendPhase DEF Sending
  <1>2. EchoedOnce'
    BY DEF Sending, AtLast, Unheard, HeardEarly, HeardLate, EchoedOnce
  <1>3. QED
    BY <1>1, <1>2 DEF SentInFull

LEMMA NothingRelayed == ASSUME relayed' = {} PROVE RelayedWasSent'
  BY DEF RelayedWasSent

\* What a reading sent on has to be.
LEMMA ReadingRelayed ==
  ASSUME NEW own, own \in OwnReadings \cup Neighbours, NEW c, relayed' = {c},
         Reading(c) = Reading(own)
  PROVE  RelayedWasSent'
  BY DEF RelayedWasSent

\* After the frames the pin goes LOW, and the receiver takes no notice.
LEMMA LastWrite ==
  ASSUME ReceiverType, sensorAir = <<>>, send.phase = "last", AtLast,
         WriteSame \/ WriteHeard \/ WriteInterrupted
  PROVE  /\ ~WriteInterrupted /\ send' = Idle /\ tx' = tx
         /\ NotSending' /\ SentInFull' /\ EchoedOnce'
  <1>1. Level = FALSE /\ Gap = Pause
    BY DEF Level, Gap, AtLast, Pause
  <1>2. ~WriteInterrupted
    BY <1>1, Pulses, StillRests DEF WriteInterrupted
  <1>3. PICK elapsed : GoesOn(tx, elapsed, 0)
    BY <1>2 DEF WriteSame, WriteHeard
  <1>4. Continued(tx) = <<Idle, tx>> /\ ~LastPulse(send)
    BY DEF Continued, LastPulse
  <1>5. send' = Idle /\ tx' = tx /\ Kept(elapsed, 0)
    BY <1>3, <1>4, GoesOnIs
  <1>6. pin' = FALSE /\ sensorAir' = <<>> /\ cut' = cut
    BY <1>1, <1>2 DEF WriteSame, WriteHeard
  <1>7. NotSending'
    BY <1>6 DEF NotSending
  <1>8. SentInFull' /\ EchoedOnce'
    BY <1>5, <1>6 DEF SentInFull, EchoedOnce, AtLast, Kept
  <1>9. QED
    BY <1>2, <1>5, <1>7, <1>8

LEMMA WriteKeeps ==
  ASSUME RepeaterInv, WriteSame \/ WriteHeard \/ WriteInterrupted
  PROVE  RepeaterInv'
  <1>1. /\ ReceiverType /\ IsMembers(tx) /\ Sending /\ sensorAir = <<>> /\ ~pending
        /\ \/ send.phase = "last" /\ AtLast
           \/ IsSend(send) /\ (Unheard \/ HeardEarly \/ HeardLate)
    BY DEF RepeaterInv, Sending, WriteSame, WriteHeard, WriteInterrupted
  <1>2. ReceiverType'
    <2>1. CASE WriteSame
      BY <1>1, <2>1 DEF WriteSame, Quiet, receiverVars, ReceiverType
    <2>2. CASE Edge(Gap)
      BY <1>1, <2>2, EdgeType
    <2>3. QED
      BY <2>1, <2>2 DEF WriteHeard, WriteInterrupted
  <1>3. pending' => state' = -1
    BY <1>1, CallRests DEF WriteSame, WriteHeard, WriteInterrupted
  <1>4. RelayedWasSent'
    <2>1. CASE relayed' = {}
      BY <2>1, NothingRelayed
    <2>2. CASE cut'
      BY <2>2 DEF RelayedWasSent
    <2>3. CASE WriteInterrupted /\ ~cut'
      <3>1. ~cut
        BY <2>3 DEF WriteInterrupted
      <3>2. ~(send.phase = "last" /\ AtLast)
        BY <1>1, <2>3, LastWrite
      <3>3. IsSend(send) /\ Unheard
        BY <1>1, <3>1, <3>2 DEF HeardEarly, HeardLate
      <3>4. PICK q \in 0 .. FrameLength - 1 : Agrees(send, tx, q) /\ Follows(q)
        BY <3>1, <3>3 DEF Unheard
      <3>5. \A r \in relayed' : Reading(r) = Reading(send.msg)
        BY <1>1, <2>3, <3>3, <3>4, FollowsInterrupted
      <3>6. PICK c : relayed' = {c}
        BY <2>3 DEF WriteInterrupted
      <3>7. send.msg \in OwnReadings
        BY <3>3 DEF IsSend
      <3>8. QED
        BY <3>5, <3>6, <3>7, ReadingRelayed
    <2>4. QED
      BY <2>1, <2>2, <2>3 DEF WriteSame, WriteHeard
  <1>5. CASE send.phase = "last" /\ AtLast
    <2>1. /\ send' = Idle /\ tx' = tx
          /\ NotSending' /\ SentInFull' /\ EchoedOnce'
      BY <1>1, <1>5, LastWrite
    <2>2. QED
      BY <1>1, <1>2, <1>3, <1>4, <2>1 DEF RepeaterInv
  <1>6. CASE IsSend(send) /\ (Unheard \/ HeardEarly \/ HeardLate)
    <2>1. Sending' /\ IsMembers(tx')
      <3>1. CASE Unheard /\ cut /\ sent.frames = 0
        BY <1>1, <1>6, <3>1, IntrudesOn
      <3>2. CASE Unheard /\ ~(cut /\ sent.frames = 0)
        BY <1>1, <1>6, <3>2, UnheardFollows
      <3>3. CASE HeardEarly
        <4>1. PICK q \in 0 .. FrameLength - 1 :
                Agrees(send, tx, q) /\ (Follows(q) \/ Swallowed(q))
          BY <3>3 DEF HeardEarly
        <4>2. cut /\ sent.calls = 1 /\ tx.pulse = Frames
          BY <3>3 DEF HeardEarly
        <4>3. CASE Follows(q)
          BY <1>1, <1>6, <4>1, <4>2, <4>3, EarlyFollows
        <4>4. CASE Swallowed(q)
          BY <1>1, <1>6, <4>1, <4>2, <4>4, EarlySwallowed
        <4>5. QED
          BY <4>1, <4>3, <4>4
      <3>4. CASE HeardLate
        BY <1>1, <1>6, <3>4, AstrayBegins, AstrayEnds DEF IsSend
      <3>5. QED
        BY <1>6, <3>1, <3>2, <3>3, <3>4
    <2>2. send' /= Idle /\ SentInFull' /\ EchoedOnce'
      BY <2>1, SendingMeans
    <2>3. QED
      BY <1>2, <1>3, <1>4, <2>1, <2>2 DEF RepeaterInv
  <1>7. QED
    BY <1>1, <1>5, <1>6

LEMMA PendingKeeps ==
  ASSUME RepeaterInv, NEW g \in LateGaps, PendingEdge(g)
  PROVE  RepeaterInv'
  <1>1. /\ ReceiverType /\ IsMembers(tx) /\ state = -1 /\ pending /\ Edge(g)
        /\ pending' = FALSE /\ relayed' = {} /\ sensorAir' = sensorAir /\ send' = send
        /\ tx' = tx /\ pin' = pin /\ since' = since /\ sent' = sent /\ cut' = cut
    BY DEF RepeaterInv, PendingEdge, sendVars
  <1>2. g \in Nat
    BY RepeaterAssumption DEF RepeaterAssumption
  <1>3. Fresh(state', code') /\ ReceiverType'
    BY <1>1, <1>2, FreshFromRest, EdgeType
  <1>4. RelayedWasSent'
    BY <1>1, NothingRelayed
  <1>5. SentInFull' /\ EchoedOnce'
    BY <1>1 DEF RepeaterInv, SentInFull, EchoedOnce
  <1>6. CASE send = Idle
    <2>1. NotSending
      BY <1>6 DEF RepeaterInv
    <2>2. NotSending'
      <3>1. CASE sensorAir = <<>>
        BY <1>1, <2>1, <3>1 DEF NotSending
      <3>2. CASE sensorAir /= <<>>
        <4>1. SensorSends
          BY <2>1, <3>2 DEF NotSending
        <4>2. PICK m \in Neighbours, idle \in Silences :
                \E p \in 1 .. Len(MessageUsec(m, idle)) : Tail(sensorAir) = Rest(m, idle, p + 1)
          BY <1>1, <4>1 DEF SensorSends
        <4>3. SensorSends'
          BY <1>1, <1>3, <3>2, <4>2 DEF SensorSends
        <4>4. QED
          BY <1>1, <2>1, <4>3 DEF NotSending
      <3>3. QED
        BY <3>1, <3>2
    <2>3. QED
      BY <1>1, <1>3, <1>4, <1>5, <1>6, <2>2 DEF RepeaterInv
  <1>7. CASE send /= Idle
    <2>1. Sending
      BY <1>7 DEF RepeaterInv
    <2>2. Sending'
      <3>1. CASE send.phase = "last" /\ AtLast
        BY <1>1, <2>1, <3>1 DEF Sending, AtLast
      <3>2. ASSUME IsSend(send), NEW q \in 0 .. FrameLength - 1, Agrees(send, tx, q),
                   Follows(q)
            PROVE  Follows(q)'
        <4>1. /\ send.msg \in Messages /\ send.half \in {0, 1} /\ send.bit = FrameBits(send.msg)[q + 1]
              /\ send.half = 1 => send.bit = 1
          BY <3>2, RepeaterAssumption DEF IsSend, RepeaterAssumption, Agrees, RightBit
        <4>2. Stands(state', code', send.msg, q, send.half)
          BY <1>3, <4>1, FreshStands
        <4>3. FirstOfFrame(q)' <=> FirstOfFrame(q)
          BY <1>1 DEF FirstOfFrame
        <4>4. QED
          BY <1>1, <3>2, <4>2, <4>3 DEF Follows
      <3>3. CASE IsSend(send) /\ Unheard
        <4>1. PICK q \in 0 .. FrameLength - 1 :
                /\ Agrees(send, tx, q)
                /\ IF cut /\ sent.frames = 0 THEN Intrudes(q) ELSE Follows(q)
          BY <3>3 DEF Unheard
        <4>2. Intrudes(q) => Intrudes(q)'
          BY <1>1 DEF Intrudes, FirstOfFrame
        <4>3. Follows(q) => Follows(q)'
          BY <3>2, <3>3, <4>1
        <4>4. Unheard'
          BY <1>1, <3>3, <4>1, <4>2, <4>3 DEF Unheard
        <4>5. QED
          BY <1>1, <2>1, <3>3, <4>4 DEF Sending
      <3>4. CASE IsSend(send) /\ HeardEarly
        <4>1. PICK q \in 0 .. FrameLength - 1 :
                Agrees(send, tx, q) /\ (Follows(q) \/ Swallowed(q))
          BY <3>4 DEF HeardEarly
        <4>2. Swallowed(q) => Swallowed(q)'
          BY <1>1, <1>3 DEF Swallowed
        <4>3. Follows(q) => Follows(q)'
          BY <3>2, <3>4, <4>1
        <4>4. HeardEarly'
          BY <1>1, <3>4, <4>1, <4>2, <4>3 DEF HeardEarly
        <4>5. QED
          BY <1>1, <2>1, <3>4, <4>4 DEF Sending
      <3>5. CASE IsSend(send) /\ HeardLate
        <4>1. state' \in {-1, 1} /\ send.half \in {0, 1} /\ FrameLength \in Nat
          BY <1>3, <3>5, FirstsNat DEF Fresh, IsSend
        <4>2. Astray'
          BY <1>1, <3>5, <4>1 DEF HeardLate, Astray
        <4>3. HeardLate'
          BY <1>1, <3>5, <4>2 DEF HeardLate
        <4>4. QED
          BY <1>1, <2>1, <3>5, <4>3 DEF Sending
      <3>6. QED
        BY <2>1, <3>1, <3>3, <3>4, <3>5 DEF Sending
    <2>3. QED
      BY <1>1, <1>3, <1>4, <1>5, <1>7, <2>2 DEF RepeaterInv
  <1>8. QED
    BY <1>6, <1>7

SilencesAreStill == \A idle \in Silences : Still(idle)

\* An edge of a sensor: what it brings is a reading of that sensor, and the receiver
\* is ready for the next one.
LEMMA SensorHeard ==
  ASSUME SilencesAreStill, ReceiverType, sensorAir /= <<>>, SensorSends,
         Edge(Head(sensorAir))
  PROVE  \E m \in Neighbours, idle \in Silences : \E p \in 1 .. Len(MessageUsec(m, idle)) :
           /\ Tail(sensorAir) = Rest(m, idle, p + 1)
           /\ \A c \in called' : Says(c, m)
           /\ p < Len(MessageUsec(m, idle)) => Ready(m, idle, p + 1, state', code')
  <1>1. PICK m \in Neighbours, idle \in Silences :
          \E p \in 1 .. Len(MessageUsec(m, idle)) :
            \/ sensorAir = Rest(m, idle, p) /\ (p = 1 \/ Ready(m, idle, p, state, code))
            \/ Tail(sensorAir) = Rest(m, idle, p + 1) /\ Fresh(state, code)
    BY DEF SensorSends
  <1> DEFINE usec == MessageUsec(m, idle)
             g == Head(sensorAir)
  <1>2. PICK p \in 1 .. Len(usec) :
          \/ sensorAir = Rest(m, idle, p) /\ (p = 1 \/ Ready(m, idle, p, state, code))
          \/ Tail(sensorAir) = Rest(m, idle, p + 1) /\ Fresh(state, code)
    BY <1>1
  <1>3. m \in Messages /\ idle \in Nat /\ Still(idle)
    BY RepeaterAssumption DEF RepeaterAssumption, SilencesAreStill
  <1>4. /\ usec \in Seq(Nat) /\ Len(usec) \in Nat /\ Len(usec) > 1 /\ usec[1] = idle
        /\ \A i \in 1 .. Len(usec) : usec[i] \in Nat
    <2>1. usec \in Seq(Nat) /\ Len(usec) > Len(FrameUsec(m)) + 1 /\ usec[1] = idle
      BY <1>3, MessageBegins
    <2>2. Len(FrameUsec(m)) \in Nat
      BY <1>3, FrameEndsWithItsBits
    <2> HIDE DEF usec
    <2>3. QED
      BY <2>1, <2>2
  <1>5. sensorAir = Rest(m, idle, p) => g = usec[p] /\ Tail(sensorAir) = Rest(m, idle, p + 1)
    <2>1. p \in 1 .. Len(usec) + 1 /\ p <= Len(usec)
      BY <1>4
    <2>2. QED
      BY <1>3, <2>1, RestIs
  <1>6. ASSUME sensorAir = Rest(m, idle, p), p = 1
        PROVE  called' = {} /\ Ready(m, idle, p + 1, state', code')
    <2>1. state' = -1 /\ called' = {}
      BY <1>3, <1>4, <1>5, <1>6, StillRests
    <2>2. Fresh(state', code') /\ p + 1 \in 2 .. Len(usec)
      BY <1>4, <1>6, <2>1 DEF Fresh
    <2>3. QED
      BY <1>3, <2>1, <2>2, FreshReady
  <1>7. ASSUME sensorAir = Rest(m, idle, p), Ready(m, idle, p, state, code)
        PROVE  /\ \A c \in called' : Says(c, m)
               /\ p < Len(usec) => Ready(m, idle, p + 1, state', code')
    <2>1. g = usec[p] /\ g \in Nat
      BY <1>4, <1>5, <1>7
    <2>2. HeardAs(g, usec[p])
      <3>1. Silent(g) => g < min1period \/ Duration(g) > max2period
        <4>1. g - Tolerance <= g /\ g <= g + Tolerance
          <5> HIDE DEF g
          <5>1. QED
            BY <2>1 DEF Tolerance
        <4>2. QED
          BY <2>1, <4>1 DEF Silent
      <3>2. (g = PULSE1 => Short(g)) /\ (g = PULSE0 => Long(g))
        BY Pulses
      <3>3. QED
        BY <2>1, <3>1, <3>2 DEF HeardAs
    <2>3. QED
      BY <1>3, <1>7, <2>2, WholeReady
  <1>8. ASSUME Fresh(state, code)
        PROVE  called' = {} /\ (p < Len(usec) => Ready(m, idle, p + 1, state', code'))
    <2>1. called' = {} /\ Started(state', code')
      BY <1>8, FreshStarts
    <2>2. p < Len(usec) => p + 1 \in 2 .. Len(usec)
      BY <1>4
    <2>3. QED
      BY <1>3, <2>1, <2>2, StartedReady
  <1>9. QED
    BY <1>2, <1>5, <1>6, <1>7, <1>8

LEMMA SensorKeeps ==
  ASSUME SilencesAreStill, RepeaterInv, SensorEdge \/ SensorEdgeCalls
  PROVE  RepeaterInv'
  <1>1. /\ ReceiverType /\ IsMembers(tx) /\ NotSending /\ SentInFull /\ EchoedOnce
        /\ send = Idle /\ ~pending /\ sensorAir /= <<>> /\ Edge(Head(sensorAir))
        /\ send' = send /\ sent' = sent /\ cut' = cut
    BY DEF RepeaterInv, SensorEdge, SensorEdgeCalls, sendVars
  <1>2. ReceiverType' /\ SentInFull' /\ EchoedOnce'
    BY <1>1, EdgeType DEF SentInFull, EchoedOnce
  <1>3. SensorSends
    BY <1>1 DEF NotSending
  <1>4. PICK m \in Neighbours, idle \in Silences :
          \E p \in 1 .. Len(MessageUsec(m, idle)) :
            /\ Tail(sensorAir) = Rest(m, idle, p + 1)
            /\ \A c \in called' : Says(c, m)
            /\ p < Len(MessageUsec(m, idle)) => Ready(m, idle, p + 1, state', code')
    BY <1>1, <1>3, SensorHeard
  <1> DEFINE n == Len(MessageUsec(m, idle))
  <1>5. PICK p \in 1 .. n :
            /\ Tail(sensorAir) = Rest(m, idle, p + 1)
            /\ \A c \in called' : Says(c, m)
            /\ p < n => Ready(m, idle, p + 1, state', code')
    BY <1>4
  <1>6. m \in Messages /\ idle \in Nat
    BY RepeaterAssumption DEF RepeaterAssumption
  <1>7. n \in Nat /\ p + 1 \in 1 .. n + 1 /\ (p + 1 = n + 1 => Rest(m, idle, p + 1) = <<>>)
    <2>1. n \in Nat
      BY <1>6, FrameEndsWithItsBits, MessageBegins, LenProperties
    <2>2. p + 1 \in 1 .. n + 1
      BY <2>1
    <2>3. QED
      BY <1>6, <2>1, <2>2, RestIs
  <1>8. CASE SensorEdge
    <2>1. /\ sensorAir' = Rest(m, idle, p + 1) /\ tx' = tx /\ pin' = pin /\ ~pending'
          /\ relayed' = {}
      BY <1>1, <1>5, <1>8 DEF SensorEdge, sendVars
    <2>2. NotSending'
      <3>1. CASE p < n
        <4>1. p + 1 \in 1 .. n
          BY <1>7, <3>1
        <4>2. SensorSends'
          BY <1>5, <2>1, <3>1, <4>1 DEF SensorSends
        <4>3. QED
          BY <1>1, <2>1, <4>2 DEF NotSending
      <3>2. CASE p = n
        BY <1>1, <1>7, <2>1, <3>2 DEF NotSending
      <3>3. QED
        BY <1>7, <3>1, <3>2
    <2>3. RelayedWasSent'
      BY <2>1, NothingRelayed
    <2>4. QED
      BY <1>1, <1>2, <2>1, <2>2, <2>3 DEF RepeaterInv
  <1>9. CASE SensorEdgeCalls
    <2>1. pin' = FALSE /\ called' /= {} /\ state' = -1
      BY <1>1, <1>9, CallRests DEF SensorEdgeCalls
    <2>2. PICK c \in called', w \in Junk, pause \in IsrPauses :
            /\ relayed' = {Relay(c, w)} /\ tx' = AfterSendMsg(Relay(c, w))
            /\ sensorAir' = After(Tail(sensorAir), CallbackUsec(Relay(c, w), pause))
      BY <1>9 DEF SensorEdgeCalls
    <2>3. IsMembers(tx')
      BY <2>2, CallbackMembers
    <2>4. RelayedWasSent'
      <3>1. Reading(Relay(c, w)) = Reading(m)
        BY <1>5, RelayReading
      <3>2. QED
        BY <2>2, <3>1, ReadingRelayed
    <2>5. \/ sensorAir' = <<>>
          \/ \E k \in 1 .. n : sensorAir' /= <<>> /\ Tail(sensorAir') = Rest(m, idle, k + 1)
      <3>1. PICK time : time = CallbackUsec(Relay(c, w), pause)
        OBVIOUS
      <3>2. sensorAir' = After(Rest(m, idle, p + 1), time)
        BY <1>5, <2>2, <3>1
      <3>3. QED
        BY <1>6, <1>7, <3>2, AfterIs
    <2>6. NotSending'
      <3>1. CASE sensorAir' = <<>>
        BY <2>1, <3>1 DEF NotSending
      <3>2. CASE \E k \in 1 .. n : sensorAir' /= <<>> /\ Tail(sensorAir') = Rest(m, idle, k + 1)
        <4>1. Fresh(state', code')
          BY <2>1 DEF Fresh
        <4>2. SensorSends'
          BY <3>2, <4>1 DEF SensorSends
        <4>3. QED
          BY <2>1, <4>2 DEF NotSending
      <3>3. QED
        BY <2>5, <3>1, <3>2
    <2>7. QED
      BY <1>1, <1>2, <2>1, <2>3, <2>4, <2>6 DEF RepeaterInv
  <1>10. QED
    BY <1>8, <1>9

LEMMA NeighbourKeeps ==
  ASSUME RepeaterInv, NEW m \in Neighbours, NEW idle \in Silences, Neighbour(m, idle)
  PROVE  RepeaterInv'
  <1>1. /\ ReceiverType /\ IsMembers(tx) /\ pin = FALSE /\ send = Idle /\ ~pending
        /\ sensorAir' = MessageUsec(m, idle) /\ relayed' = {} /\ sent' = NothingSent
        /\ tx' = tx /\ pin' = pin /\ send' = send /\ pending' = pending
        /\ UNCHANGED receiverVars
    BY DEF RepeaterInv, NotSending, Neighbour, Quiet
  <1>2. ReceiverType'
    BY <1>1 DEF ReceiverType, receiverVars
  <1>3. SentInFull' /\ EchoedOnce' /\ RelayedWasSent'
    <2>1. sent'.msg = {} /\ sent'.calls = 0
      BY <1>1 DEF NothingSent
    <2>2. QED
      BY <1>1, <2>1, NothingRelayed DEF SentInFull, EchoedOnce
  <1>4. 1 \in 1 .. Len(MessageUsec(m, idle)) /\ sensorAir' = Rest(m, idle, 1)
    <2> DEFINE usec == MessageUsec(m, idle)
    <2>1. m \in Messages /\ idle \in Nat
      BY RepeaterAssumption DEF RepeaterAssumption
    <2>2. /\ usec \in Seq(Nat) /\ Len(usec) > Len(FrameUsec(m)) + 1
          /\ Len(FrameUsec(m)) \in Nat
      BY <2>1, MessageBegins, FrameEndsWithItsBits
    <2>3. sensorAir' = usec
      BY <1>1
    <2>4. Rest(m, idle, 1) = SubSeq(usec, 1, Len(usec))
      BY DEF Rest
    <2> HIDE DEF usec
    <2>5. 1 \in 1 .. Len(usec)
      BY <2>2
    <2>6. SubSeq(usec, 1, Len(usec)) = usec
      BY <2>2, SubSeqFull
    <2>7. QED
      BY <2>3, <2>4, <2>5, <2>6 DEF usec
  <1>5. NotSending'
    BY <1>1, <1>4 DEF NotSending, SensorSends
  <1>6. QED
    BY <1>1, <1>2, <1>3, <1>5 DEF RepeaterInv

LEMMA LoopSendsKeeps ==
  ASSUME SilencesAreStill, RepeaterInv, NEW m \in OwnReadings, NEW idle \in Silences,
         LoopSends(m, idle)
  PROVE  RepeaterInv'
  <1>1. /\ ReceiverType /\ IsMembers(tx) /\ pin = FALSE /\ ~pending
        /\ send' = BeginFrame(m, FrameBits(m)) /\ tx' = [tx EXCEPT !.pulse = 0, !.high = FALSE]
        /\ since' = IF sensorAir = <<>> THEN idle ELSE Head(sensorAir) \div 2
        /\ cut' = (sensorAir /= <<>>) /\ sensorAir' = <<>> /\ relayed' = {}
        /\ sent' = [NothingSent EXCEPT !.msg = {m}] /\ pin' = pin /\ pending' = pending
        /\ UNCHANGED receiverVars
    BY DEF RepeaterInv, NotSending, LoopSends, Quiet
  <1>2. ReceiverType' /\ RelayedWasSent'
    BY <1>1, NothingRelayed DEF ReceiverType, receiverVars
  <1>3. InBit(send', tx', m, 0, 0, 0) /\ send'.first = TRUE
    BY <1>1, BeginFrameIs
  <1>4. sent'.calls = 0 /\ sent'.frames = 0 /\ sent'.whole = 0
    BY <1>1 DEF NothingSent
  <1>5. FirstOfFrame(0)' /\ send'.phase = "begin" /\ pin' /= send'.first
    BY <1>1, <1>3 DEF InBit, FirstOfFrame
  <1>6. IF cut' THEN Intrudes(0)' ELSE Follows(0)'
    <2>1. CASE cut'
      BY <1>1, <1>3, <1>5, <2>1 DEF Intrudes
    <2>2. CASE ~cut'
      <3>1. Still(since')
        BY <1>1, <2>2 DEF SilencesAreStill
      <3>2. QED
        BY <1>5, <2>2, <3>1 DEF Follows
    <2>3. QED
      BY <2>1, <2>2
  <1>7. Unheard'
    <2>1. 0 \in 0 .. FrameLength - 1 /\ 0 \in 0 .. 3
      BY FirstsNat, WidthsNat
    <2>2. QED
      BY <1>3, <1>4, <1>6, <2>1 DEF Unheard, InBit
  <1>8. Sending'
    BY <1>1, <1>3, <1>7 DEF Sending, InBit
  <1>9. QED
    BY <1>1, <1>2, <1>3, <1>8, SendingMeans DEF RepeaterInv, InBit

LEMMA AuriolKeeps ==
  ASSUME RepeaterInv, NEW c \in AuriolReadings, NEW w \in Junk, AuriolCalls(c, w)
  PROVE  RepeaterInv'
  <1>1. /\ ReceiverType /\ SentInFull /\ EchoedOnce /\ send = Idle /\ sensorAir = <<>>
        /\ relayed' = {RelayAuriol(c, w)} /\ tx' = AfterSendMsg(RelayAuriol(c, w))
        /\ pin' = FALSE /\ Reset
        /\ sensorAir' = sensorAir /\ send' = send /\ sent' = sent /\ cut' = cut
    BY DEF RepeaterInv, AuriolCalls
  <1>2. ReceiverType' /\ state' = -1
    BY <1>1, ResetType DEF Reset
  <1>3. IsMembers(tx')
    BY <1>1, CallbackMembers
  <1>4. SentInFull' /\ EchoedOnce' /\ NotSending'
    BY <1>1 DEF SentInFull, EchoedOnce, NotSending
  <1>5. RelayedWasSent'
    <2>1. Reading(RelayAuriol(c, w)) = Reading(RelayAuriol(c, 0))
      BY DEF Reading, RelayAuriol
    <2>2. QED
      BY <1>1, <2>1 DEF RelayedWasSent
  <1>6. QED
    BY <1>1, <1>2, <1>3, <1>4, <1>5 DEF RepeaterInv

LEMMA RepeaterInitially == RepeaterInit => RepeaterInv
  <1>1. SUFFICES ASSUME RepeaterInit PROVE RepeaterInv
    OBVIOUS
  <1>2. ReceiverType
    <2>1. -1 \in -1 .. FrameEnd - 1
      BY Ends, FirstsNat
    <2>2. 0 \in Byte
      BY ByteNat
    <2>3. QED
      BY <1>1, <2>1, <2>2, ClearedType DEF RepeaterInit, Init, ReceiverType
  <1>3. IsMembers(tx)
    BY <1>1, Bounds DEF RepeaterInit, IsMembers
  <1>4. send = Idle /\ sent.msg = {} /\ sent.calls = 0 /\ relayed = {}
    BY <1>1 DEF RepeaterInit, NothingSent
  <1>5. SentInFull /\ EchoedOnce /\ RelayedWasSent
    BY <1>4 DEF SentInFull, EchoedOnce, RelayedWasSent
  <1>6. NotSending /\ pending = FALSE
    BY <1>1 DEF RepeaterInit, NotSending
  <1>7. QED
    BY <1>2, <1>3, <1>4, <1>5, <1>6 DEF RepeaterInv

LEMMA RepeaterStutters ==
  ASSUME RepeaterInv, UNCHANGED repeaterVars
  PROVE  RepeaterInv'
  <1>1. /\ UNCHANGED <<state, code, previous, repeats, called, sensorAir, tx, pin, since, send>>
        /\ UNCHANGED <<sent, pending, messages, cut, relayed>>
    BY DEF repeaterVars, sendVars, receiverVars
  <1>2. ReceiverType' /\ IsMembers(tx)' /\ SentInFull' /\ EchoedOnce' /\ RelayedWasSent'
    BY <1>1 DEF RepeaterInv, ReceiverType, IsMembers, SentInFull, EchoedOnce, RelayedWasSent
  <1>3. NotSending => NotSending'
    BY <1>1 DEF NotSending, SensorSends
  <1>4. \A q : /\ Agrees(send, tx, q) => Agrees(send, tx, q)'
               /\ Follows(q) => Follows(q)'
               /\ Intrudes(q) => Intrudes(q)'
               /\ Swallowed(q) => Swallowed(q)'
    BY <1>1 DEF Follows, Intrudes, Swallowed, FirstOfFrame
  <1>5. ASSUME Sending PROVE Sending'
    <2>1. IsSend(send) => IsSend(send)'
      BY <1>1
    <2>2. AtLast => AtLast'
      BY <1>1 DEF AtLast
    <2>3. Unheard => Unheard'
      <3>1. ASSUME NEW q \in 0 .. FrameLength - 1, Agrees(send, tx, q),
                   IF cut /\ sent.frames = 0 THEN Intrudes(q) ELSE Follows(q)
            PROVE  Agrees(send', tx', q)
                     /\ IF cut' /\ sent'.frames = 0 THEN Intrudes(q)' ELSE Follows(q)'
        BY <1>1, <1>4, <3>1
      <3>2. QED
        BY <1>1, <3>1 DEF Unheard
    <2>4. HeardEarly => HeardEarly'
      <3>1. ASSUME NEW q \in 0 .. FrameLength - 1, Agrees(send, tx, q),
                   Follows(q) \/ Swallowed(q)
            PROVE  Agrees(send', tx', q) /\ (Follows(q)' \/ Swallowed(q)')
        <4>1. Agrees(send', tx', q)
          BY <1>1, <3>1
        <4>2. Follows(q)' \/ Swallowed(q)'
          BY <1>4, <3>1
        <4>3. QED
          BY <4>1, <4>2
      <3>2. QED
        BY <1>1, <3>1 DEF HeardEarly
    <2>5. HeardLate => HeardLate'
      BY <1>1 DEF HeardLate, Astray
    <2>6. QED
      BY <1>1, <1>5, <2>1, <2>2, <2>3, <2>4, <2>5 DEF Sending
  <1>6. QED
    BY <1>1, <1>2, <1>3, <1>5 DEF RepeaterInv

LEMMA RepeaterInductive ==
  ASSUME SilencesAreStill, RepeaterInv, [RepeaterNext]_repeaterVars
  PROVE  RepeaterInv'
  <1>1. CASE \E m \in Neighbours, idle \in Silences : Neighbour(m, idle)
    BY <1>1, NeighbourKeeps
  <1>2. CASE \E m \in OwnReadings, idle \in Silences : LoopSends(m, idle)
    BY <1>2, LoopSendsKeeps
  <1>3. CASE WriteSame \/ WriteHeard \/ WriteInterrupted
    BY <1>3, WriteKeeps
  <1>4. CASE SensorEdge \/ SensorEdgeCalls
    BY <1>4, SensorKeeps
  <1>5. CASE \E c \in AuriolReadings, w \in Junk : AuriolCalls(c, w)
    BY <1>5, AuriolKeeps
  <1>6. CASE \E g \in LateGaps : PendingEdge(g)
    BY <1>6, PendingKeeps
  <1>7. CASE UNCHANGED repeaterVars
    BY <1>7, RepeaterStutters
  <1>8. QED
    BY <1>1, <1>2, <1>3, <1>4, <1>5, <1>6, <1>7 DEF RepeaterNext

\* A message of the loop is sent in four whole frames unless a callback comes in
\* between, and once in full even then (SentInFull): sendMsg and the callbacks of
\* showWt440Code share wtransmitter, its counters and the pin.
THEOREM MessageSentInFull ==
  ASSUME SilencesAreStill
  PROVE  RepeaterSpec => []SentInFull
  <1>1. RepeaterInv /\ [RepeaterNext]_repeaterVars => RepeaterInv'
    BY RepeaterInductive
  <1>2. RepeaterInv => SentInFull
    BY DEF RepeaterInv
  <1>3. QED
    BY <1>1, <1>2, RepeaterInitially, PTL DEF RepeaterSpec

\* The repeater sends on its own message once at most, or twice if the loop began in
\* the middle of a sensor's message (EchoedOnce): the callback takes the counters
\* away, and what sendMsg goes on to send is not taken for another frame.
THEOREM EchoAtMostOnce ==
  ASSUME SilencesAreStill
  PROVE  RepeaterSpec => []EchoedOnce
  <1>1. RepeaterInv /\ [RepeaterNext]_repeaterVars => RepeaterInv'
    BY RepeaterInductive
  <1>2. RepeaterInv => EchoedOnce
    BY DEF RepeaterInv
  <1>3. QED
    BY <1>1, <1>2, RepeaterInitially, PTL DEF RepeaterSpec

\* What showWt440Code and showAuriolCode send on is a reading of a sensor or of the
\* board itself, also when a callback has torn what a sensor was sending
\* (RelayedWasSent).
THEOREM RelaysReadings ==
  ASSUME SilencesAreStill
  PROVE  RepeaterSpec => []RelayedWasSent
  <1>1. RepeaterInv /\ [RepeaterNext]_repeaterVars => RepeaterInv'
    BY RepeaterInductive
  <1>2. RepeaterInv => RelayedWasSent
    BY DEF RepeaterInv
  <1>3. QED
    BY <1>1, <1>2, RepeaterInitially, PTL DEF RepeaterSpec

================================================================================
