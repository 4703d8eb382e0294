---------------------------- MODULE RxQueueProofs ----------------------------
(***************************************************************************)
(* The reordering of received packets, proved for all TIDs, window sizes,  *)
(* arrays and number spaces: the sequence numbers of a session are seen    *)
(* relative to the number it expects, its array from the start of its      *)
(* window on.                                                              *)
(***************************************************************************)
EXTENDS RxQueue, FiniteSetTheorems, FunctionTheorems, WellFoundedInduction, TLAPS

-----------------------------------------------------------------------------
(* Quotients and remainders.                                               *)
LEMMA Division ==
    ASSUME NEW a \in Int, NEW m \in Nat, m > 0
    PROVE  \E q \in Int, r \in 0..(m - 1) : a = m * q + r /\ a % m = r
<1>1. a % m \in 0..(m - 1) /\ a = m * (a \div m) + (a % m) /\ a \div m \in Int
  OBVIOUS
<1>. QED  BY <1>1

(* Two quotients and remainders of the same number agree.                  *)
LEMMA Apart ==
    ASSUME NEW m \in Nat, NEW q \in Int, NEW s \in Int, NEW d \in Int,
           d = m * q - m * s, d < m, -d < m
    PROVE  q = s
<1>1. m * q \in Int /\ m * s \in Int
  OBVIOUS
<1>2. CASE q >= s + 1
  <2>1. m * q >= m * (s + 1) /\ m * (s + 1) = m * s + m
    BY <1>2
  <2>. QED  BY <1>1, <2>1
<1>3. CASE s >= q + 1
  <2>1. m * s >= m * (q + 1) /\ m * (q + 1) = m * q + m
    BY <1>3
  <2>. QED  BY <1>1, <2>1
<1>. QED  BY <1>2, <1>3

LEMMA Unique ==
    ASSUME NEW m \in Nat, NEW q \in Int, NEW s \in Int, NEW r \in 0..(m - 1), NEW u \in 0..(m - 1),
           m * q + r = m * s + u
    PROVE  r = u
<1>. DEFINE d == u - r
<1>1. m * q \in Int /\ m * s \in Int
  OBVIOUS
<1>2. d \in Int /\ d = m * q - m * s /\ d < m /\ -d < m
  BY <1>1
<1>. HIDE DEF d
<1>3. q = s
  BY <1>2, Apart
<1>. QED  BY <1>1, <1>3

LEMMA ModIs ==
    ASSUME NEW a \in Int, NEW m \in Nat, NEW q \in Int, NEW r \in 0..(m - 1), a = m * q + r
    PROVE  a % m = r
<1>1. m > 0
  OBVIOUS
<1>2. PICK s \in Int, u \in 0..(m - 1) : a = m * s + u /\ a % m = u
  BY <1>1, Division
<1>3. m * q + r = m * s + u
  BY <1>2
<1>4. r = u
  BY <1>3, Unique
<1>. QED  BY <1>2, <1>4

(* Numbers with the same remainder that are less than the modulus apart    *)
(* are the same.                                                           *)
LEMMA ModInjective ==
    ASSUME NEW a \in Int, NEW b \in Int, NEW m \in Nat, m > 0, a % m = b % m, a - b < m, b - a < m
    PROVE  a = b
<1>1. PICK q \in Int, r \in 0..(m - 1) : a = m * q + r /\ a % m = r
  BY Division
<1>2. PICK s \in Int, u \in 0..(m - 1) : b = m * s + u /\ b % m = u
  BY Division
<1>. DEFINE d == a - b
<1>3. m * q \in Int /\ m * s \in Int /\ r = u
  BY <1>1, <1>2
<1>4. d \in Int /\ d = m * q - m * s /\ d < m /\ -d < m
  BY <1>1, <1>2, <1>3
<1>. HIDE DEF d
<1>5. q = s
  BY <1>4, Apart
<1>. QED  BY <1>1, <1>2, <1>3, <1>5

LEMMA Distributes == \A m, x, y \in Int : m * x + m * y = m * (x + y) /\ x + y \in Int
OBVIOUS

(* A sum with a remainder has the remainder of the sum.                    *)
LEMMA ModPlus ==
    ASSUME NEW a \in Int, NEW k \in Int, NEW m \in Nat, m > 0
    PROVE  ((a % m) + k) % m = (a + k) % m
<1>1. PICK q \in Int, r \in 0..(m - 1) : a = m * q + r /\ a % m = r
  BY Division
<1>2. PICK s \in Int, u \in 0..(m - 1) : r + k = m * s + u /\ (r + k) % m = u
  <2>1. r + k \in Int
    OBVIOUS
  <2>. QED  BY <2>1, Division
<1>3. m * q \in Int /\ m * s \in Int /\ m * q + m * s = m * (q + s) /\ q + s \in Int
  BY Distributes
<1>4. a + k = m * (q + s) + u /\ a + k \in Int
  BY <1>1, <1>2, <1>3
<1>5. (a + k) % m = u
  BY <1>3, <1>4, ModIs
<1>. QED  BY <1>1, <1>2, <1>5

(* A difference of remainders has the remainder of the difference.         *)
LEMMA ModMinus ==
    ASSUME NEW a \in Int, NEW b \in Int, NEW m \in Nat, m > 0
    PROVE  ((a % m) - (b % m)) % m = (a - b) % m
<1>1. PICK q \in Int, r \in 0..(m - 1) : b = m * q + r /\ b % m = r
  BY Division
<1>2. PICK s \in Int, u \in 0..(m - 1) : a - b = m * s + u /\ (a - b) % m = u
  <2>1. a - b \in Int
    OBVIOUS
  <2>. QED  BY <2>1, Division
<1>3. m * s \in Int /\ m * q \in Int /\ m * s + m * q = m * (s + q) /\ s + q \in Int
  BY Distributes
<1>4. a + (-r) = m * (s + q) + u /\ a + (-r) \in Int /\ -r \in Int
  BY <1>1, <1>2, <1>3
<1>5. (a + (-r)) % m = u
  BY <1>3, <1>4, ModIs
<1>6. ((a % m) + (-r)) % m = u
  BY <1>4, <1>5, ModPlus
<1>7. (a % m) + (-r) = (a % m) - r
  <2>1. a % m \in Int
    OBVIOUS
  <2>. QED  BY <2>1
<1>. QED  BY <1>1, <1>2, <1>6, <1>7

(* Remainders near zero.                                                   *)
LEMMA ModNear ==
    ASSUME NEW a \in Int, NEW m \in Nat, m > 0
    PROVE  /\ a \in 0..(m - 1) => a % m = a
           /\ a \in m..(2 * m - 1) => a % m = a - m
           /\ a \in (-m)..(-1) => a % m = a + m
<1>1. ASSUME a \in 0..(m - 1) PROVE a % m = a
  <2>1. a = m * 0 + a
    OBVIOUS
  <2>. QED  BY <1>1, <2>1, ModIs
<1>2. ASSUME a \in m..(2 * m - 1) PROVE a % m = a - m
  <2>1. a = m * 1 + (a - m) /\ a - m \in 0..(m - 1)
    BY <1>2
  <2>. QED  BY <2>1, ModIs
<1>3. ASSUME a \in (-m)..(-1) PROVE a % m = a + m
  <2>1. a = m * (-1) + (a + m) /\ a + m \in 0..(m - 1)
    BY <1>3
  <2>2. -1 \in Int
    OBVIOUS
  <2>. QED  BY <2>1, <2>2, ModIs
<1>. QED  BY <1>1, <1>2, <1>3

LEMMA ModRange == \A a \in Int : \A m \in Nat : m > 0 => a % m \in 0..(m - 1)
OBVIOUS

-----------------------------------------------------------------------------
(* The packets of an array from the start of its window on, and how these  *)
(* move with it.                                                           *)
Place(s, i) == (s + i) % ArraySize
From(a, s)  == [i \in Index |-> a[Place(s, i)]]
View(t)     == From(aPaketsQueue[t], aWinStartArrayInex[t])
Moved(v, k) == [i \in Index |-> IF i + k < ArraySize THEN v[i + k] ELSE None]

(* What is stored at an offset is the packet that is as far from the       *)
(* expected one e, within the window w from start on, and has arrived.     *)
Fits(v, e, w, start, arrived) ==
    \A i \in Index :
        v[i] # None => /\ i \in 1..(w - 1) /\ v[i] = e + i
                       /\ e + i <= start + w - 1
                       /\ e + i >= start => e + i \in arrived

Session(t, e) ==
    /\ aTidWinSize[t] \in 1..ArraySize
    /\ e \in Int /\ e <= winStart[t] + aTidWinSize[t] /\ winStart[t] + aTidWinSize[t] <= e + MaxAhead
    /\ Sn(e) = aTidExpectedSn[t]
    /\ last[t] < e
    /\ Fits(View(t), e, aTidWinSize[t], winStart[t], got[t])

Vacant(t) == \A x \in Index : aPaketsQueue[t][x] = None

Tid(t) ==
    /\ last[t] >= -1
    /\ IF aTidBaEstablished[t] THEN \E e \in Int : Session(t, e) ELSE Vacant(t)

RxInv == TypeOK /\ StoredExact /\ ~discarded /\ \A t \in TID : Tid(t)

-----------------------------------------------------------------------------
Half == SnMod \div 2

LEMMA Sizes ==
    /\ ArraySize \in Nat /\ ArraySize >= 1 /\ SnMod \in Nat /\ Half \in Nat /\ SnMod = 2 * Half
    /\ MaxAhead = Half - 2 /\ MaxAhead >= ArraySize /\ SnMod + ArraySize <= 65536 /\ SnMod > 0
    /\ None \notin Int
<1>1. /\ ArraySize \in Nat /\ ArraySize >= 1 /\ SnMod \in Nat /\ SnMod % 2 = 0
      /\ Half - 2 >= ArraySize /\ SnMod + ArraySize <= 65536 /\ None \notin Int
  BY RxQueueAssumption DEF Half
<1>2. Half \in Nat /\ SnMod = 2 * Half
  BY <1>1 DEF Half
<1>. QED  BY <1>1, <1>2 DEF MaxAhead, Half

LEMMA TidTypes ==
    ASSUME TypeOK, NEW t \in TID
    PROVE  /\ aPaketsQueue[t] \in [Index -> Nat \cup {None}] /\ aWinStartArrayInex[t] \in Index
           /\ aTidWinSize[t] \in 0..ArraySize /\ aTidExpectedSn[t] \in 0..(SnMod - 1)
           /\ winStart[t] \in Nat /\ got[t] \in SUBSET Nat /\ last[t] \in Int /\ aTidBaEstablished[t] \in BOOLEAN
           /\ View(t) \in [Index -> Nat \cup {None}]
<1>1. /\ aPaketsQueue[t] \in [Index -> Nat \cup {None}] /\ aWinStartArrayInex[t] \in Index
      /\ aTidWinSize[t] \in 0..ArraySize /\ aTidExpectedSn[t] \in 0..(SnMod - 1)
      /\ winStart[t] \in Nat /\ got[t] \in SUBSET Nat /\ last[t] \in Int /\ aTidBaEstablished[t] \in BOOLEAN
  BY DEF TypeOK
<1>2. \A i \in Index : (aWinStartArrayInex[t] + i) % ArraySize \in Index
  <2>1. \A i \in Index : aWinStartArrayInex[t] + i \in Int
    BY <1>1 DEF Index
  <2>. QED  BY <2>1, Sizes, ModRange DEF Index
<1>3. View(t) \in [Index -> Nat \cup {None}]
  BY <1>1, <1>2 DEF View, From, Place
<1>. QED  BY <1>1, <1>3

(* Sequence numbers.                                                       *)
LEMMA SnRange == \A n \in Int : Sn(n) \in 0..(SnMod - 1)
BY Sizes, ModRange DEF Sn

LEMMA SnInjective ==
    ASSUME NEW a \in Int, NEW b \in Int, Sn(a) = Sn(b), a - b < SnMod, b - a < SnMod
    PROVE  a = b
BY Sizes, ModInjective DEF Sn

LEMMA SnAdds ==
    ASSUME NEW a \in Int, NEW k \in Int
    PROVE  (Sn(a) + k) % SnMod = Sn(a + k)
<1>1. SnMod \in Nat /\ SnMod > 0
  BY Sizes
<1>2. ((a % SnMod) + k) % SnMod = (a + k) % SnMod
  BY <1>1, ModPlus
<1>. QED  BY <1>2 DEF Sn

LEMMA SnMinus ==
    ASSUME NEW a \in Int, NEW b \in Int
    PROVE  (Sn(a) - Sn(b)) % SnMod = (a - b) % SnMod
<1>1. SnMod \in Nat /\ SnMod > 0
  BY Sizes
<1>2. ((a % SnMod) - (b % SnMod)) % SnMod = (a - b) % SnMod
  BY <1>1, ModMinus
<1>. QED  BY <1>2 DEF Sn

LEMMA SnPlusIs ==
    ASSUME NEW a \in Int, NEW k \in Int
    PROVE  ((a % SnMod) + k) % SnMod = (a + k) % SnMod
<1>1. SnMod \in Nat /\ SnMod > 0
  BY Sizes
<1>. QED  BY <1>1, ModPlus

LEMMA SnDistance ==
    ASSUME NEW a \in Int, NEW b \in Int, a >= b, a - b < SnMod
    PROVE  (Sn(a) - Sn(b)) % SnMod = a - b
<1>1. (Sn(a) - Sn(b)) % SnMod = (a - b) % SnMod
  BY SnMinus
<1>2. a - b \in 0..(SnMod - 1) /\ a - b \in Int
  BY Sizes
<1>. QED  BY <1>1, <1>2, Sizes, ModNear

LEMMA BiggerIs ==
    ASSUME NEW a \in Int, NEW b \in Int, a - b <= Half - 2, b - a <= Half
    PROVE  Bigger(Sn(a), Sn(b)) <=> a > b
<1>1. CASE a > b
  <2>1. (Sn(a) - Sn(b)) % SnMod = a - b
    BY <1>1, Sizes, SnDistance
  <2>2. Sn(a) # Sn(b)
    BY <1>1, Sizes, SnInjective
  <2>. QED  BY <1>1, <2>1, <2>2, Sizes DEF Bigger, Half
<1>2. CASE a = b
  BY <1>2 DEF Bigger
<1>3. CASE a < b
  <2>1. (Sn(a) - Sn(b)) % SnMod = (a - b) % SnMod
    BY SnMinus
  <2>2. (a - b) % SnMod = a - b + SnMod
    <3>1. a - b \in (-SnMod)..(-1) /\ a - b \in Int
      BY <1>3, Sizes
    <3>. QED  BY <3>1, Sizes, ModNear
  <2>3. a - b + SnMod >= Half
    BY Sizes
  <2>. QED  BY <1>3, <2>1, <2>2, <2>3, Sizes DEF Bigger, Half
<1>. QED  BY <1>1, <1>2, <1>3

(* The end of the window is not reduced.                                   *)
LEMMA BeyondIs ==
    ASSUME NEW n \in Int, NEW e \in Int, NEW w \in 1..ArraySize, n - e <= MaxAhead - 1, n > e
    PROVE  Bigger(Sn(n), Sn(e) + w - 1) <=> n - e >= w \/ (n - e = w - 1 /\ Sn(e) + w - 1 >= SnMod)
<1>. DEFINE c == n - e - w + 1
<1>0. Sn(n) \in 0..(SnMod - 1) /\ Sn(e) \in 0..(SnMod - 1) /\ w \in Int /\ c \in Int
  BY SnRange
<1>1. (Sn(n) - (Sn(e) + w - 1)) % SnMod = c % SnMod
  <2>1. (Sn(n) - Sn(e)) % SnMod = (n - e) % SnMod
    BY SnMinus
  <2>2. /\ (((Sn(n) - Sn(e)) % SnMod) + (1 - w)) % SnMod = ((Sn(n) - Sn(e)) + (1 - w)) % SnMod
        /\ (((n - e) % SnMod) + (1 - w)) % SnMod = ((n - e) + (1 - w)) % SnMod
    <3>1. Sn(n) - Sn(e) \in Int /\ n - e \in Int /\ 1 - w \in Int
      BY <1>0
    <3>. QED  BY <3>1, SnPlusIs
  <2>3. (Sn(n) - Sn(e)) + (1 - w) = Sn(n) - (Sn(e) + w - 1) /\ (n - e) + (1 - w) = c
    BY <1>0
  <2>. QED  BY <2>1, <2>2, <2>3
<1>. HIDE DEF c
<1>2. c = n - e - w + 1 /\ c >= 2 - ArraySize /\ c <= Half - 3
  BY Sizes DEF c
<1>3. CASE c > 0
  <2>1. c % SnMod = c
    <3>1. c \in 0..(SnMod - 1)
      BY <1>0, <1>2, <1>3, Sizes
    <3>. QED  BY <1>0, <3>1, Sizes, ModNear
  <2>2. Sn(n) # Sn(e) + w - 1
    <3>1. 0 % SnMod = 0
      BY Sizes
    <3>2. Sn(n) = Sn(e) + w - 1 => Sn(n) - (Sn(e) + w - 1) = 0
      BY <1>0
    <3>. QED  BY <1>0, <1>1, <1>3, <2>1, <3>1, <3>2
  <2>. QED  BY <1>0, <1>1, <1>2, <1>3, <2>1, <2>2, Sizes DEF Bigger, Half
<1>4. CASE c = 0
  <2>1. c % SnMod = 0
    BY <1>4, Sizes
  <2>2. Sn(n) = (Sn(e) + (w - 1)) % SnMod
    <3>1. n = e + (w - 1) /\ w - 1 \in Int
      BY <1>2, <1>4
    <3>. QED  BY <3>1, SnAdds
  <2>3. Sn(e) + (w - 1) < SnMod => (Sn(e) + (w - 1)) % SnMod = Sn(e) + (w - 1)
    <3>1. Sn(e) + (w - 1) < SnMod => Sn(e) + (w - 1) \in 0..(SnMod - 1)
      BY <1>0, Sizes
    <3>2. Sn(e) + (w - 1) \in Int
      BY <1>0
    <3>. QED  BY <3>1, <3>2, Sizes, ModNear
  <2>4. Sn(e) + (w - 1) = Sn(e) + w - 1
    BY <1>0
  <2>5. Sn(n) # Sn(e) + w - 1 <=> Sn(e) + w - 1 >= SnMod
    BY <1>0, <2>2, <2>3, <2>4, Sizes
  <2>6. n - e = w - 1
    BY <1>2, <1>4
  <2>. QED  BY <1>0, <1>1, <2>1, <2>5, <2>6, Sizes DEF Bigger, Half
<1>5. CASE c < 0
  <2>1. c % SnMod = c + SnMod
    <3>1. c \in (-SnMod)..(-1)
      BY <1>0, <1>2, <1>5, Sizes
    <3>. QED  BY <1>0, <3>1, Sizes, ModNear
  <2>. QED  BY <1>0, <1>1, <1>2, <1>5, <2>1, Sizes DEF Bigger, Half
<1>. QED  BY <1>0, <1>3, <1>4, <1>5

LEMMA ExpectedIs ==
    ASSUME TypeOK, NEW t \in TID, NEW e \in Int, Session(t, e)
    PROVE  Expected(t) = e
<1>. DEFINE end == winStart[t] + aTidWinSize[t]
<1>1. end \in Int /\ e \in (end - MaxAhead)..end /\ Sn(e) = aTidExpectedSn[t]
  BY Sizes, TidTypes DEF Session
<1>2. ASSUME NEW n \in (end - MaxAhead)..end, Sn(n) = aTidExpectedSn[t]
      PROVE  n = e
  <2>1. n \in Int /\ n - e < SnMod /\ e - n < SnMod
    BY <1>1, Sizes
  <2>. QED  BY <1>1, <1>2, <2>1, SnInjective
<1>. HIDE DEF end
<1>3. (CHOOSE n \in (end - MaxAhead)..end : Sn(n) = aTidExpectedSn[t]) = e
  BY <1>1, <1>2
<1>. QED  BY <1>3 DEF Expected, end

-----------------------------------------------------------------------------
(* The slots of an array.                                                  *)
LEMMA PlaceIn ==
    ASSUME NEW s \in Int, NEW i \in Int
    PROVE  Place(s, i) \in Index
<1>1. s + i \in Int /\ ArraySize \in Nat /\ ArraySize > 0
  BY Sizes
<1>. QED  BY <1>1, ModRange DEF Place, Index

LEMMA PlaceShift ==
    ASSUME NEW s \in Int, NEW m \in Int, NEW i \in Int
    PROVE  Place(Place(s, m), i) = Place(s, m + i)
<1>1. s + m \in Int /\ ArraySize \in Nat /\ ArraySize > 0
  BY Sizes
<1>2. (((s + m) % ArraySize) + i) % ArraySize = ((s + m) + i) % ArraySize
  BY <1>1, ModPlus
<1>3. (s + m) + i = s + (m + i)
  OBVIOUS
<1>. QED  BY <1>2, <1>3 DEF Place

LEMMA PlaceWraps ==
    ASSUME NEW s \in Int, NEW i \in Int
    PROVE  i % ArraySize \in Index /\ Place(s, i % ArraySize) = Place(s, i)
<1>1. ArraySize \in Nat /\ ArraySize > 0
  BY Sizes
<1>2. i % ArraySize \in Index /\ i % ArraySize \in Int
  BY <1>1, ModRange DEF Index
<1>3. ((i % ArraySize) + s) % ArraySize = (i + s) % ArraySize
  BY <1>1, ModPlus
<1>4. (i % ArraySize) + s = s + (i % ArraySize) /\ i + s = s + i
  BY <1>2
<1>. QED  BY <1>2, <1>3, <1>4 DEF Place

LEMMA PlaceInjective ==
    ASSUME NEW s \in Int, NEW i \in Int, NEW j \in Int, Place(s, i) = Place(s, j),
           i - j < ArraySize, j - i < ArraySize
    PROVE  i = j
<1>1. s + i \in Int /\ s + j \in Int /\ ArraySize \in Nat /\ ArraySize > 0
  BY Sizes
<1>2. (s + i) - (s + j) < ArraySize /\ (s + j) - (s + i) < ArraySize
  OBVIOUS
<1>3. s + i = s + j
  BY <1>1, <1>2, ModInjective DEF Place
<1>. QED  BY <1>3

LEMMA PlaceOnto ==
    ASSUME NEW s \in Index, NEW x \in Index
    PROVE  \E i \in Index : Place(s, i) = x
<1>1. ArraySize \in Nat /\ ArraySize > 0 /\ s \in Int /\ x \in Int /\ x - s \in Int /\ x \in 0..(ArraySize - 1)
  BY Sizes DEF Index
<1>2. (x - s) % ArraySize \in Index /\ Place(s, (x - s) % ArraySize) = Place(s, x - s)
  BY <1>1, PlaceWraps
<1>3. s + (x - s) = x /\ x % ArraySize = x
  BY <1>1, ModNear
<1>4. Place(s, x - s) = x
  BY <1>3 DEF Place
<1>. QED  BY <1>2, <1>4

LEMMA IndexIs == \A i : i \in Index <=> i \in Int /\ 0 <= i /\ i < ArraySize
BY Sizes DEF Index

(* An array of which m slots from the start have been emptied.             *)
Emptied(a, s, m) == [x \in Index |-> IF x \in {Place(s, i) : i \in 0..(m - 1)} THEN None ELSE a[x]]

LEMMA WithoutIs == \A t \in TID : \A m : Without(t, m) = Emptied(aPaketsQueue[t], aWinStartArrayInex[t], m)
BY DEF Without, Emptied, Slot, Place

LEMMA SlotIs == \A t, i : Slot(t, i) = Place(aWinStartArrayInex[t], i)
BY DEF Slot, Place

LEMMA AtIs ==
    ASSUME NEW t, NEW i \in Index
    PROVE  At(t, i) = View(t)[i]
BY SlotIs DEF At, View, From

Packets == Nat \cup {None}

LEMMA FromTyped ==
    ASSUME NEW a \in [Index -> Packets], NEW s \in Index
    PROVE  From(a, s) \in [Index -> Packets] /\ \A i \in Index : From(a, s)[i] = a[Place(s, i)]
<1>1. \A i \in Index : Place(s, i) \in Index
  BY PlaceIn, IndexIs
<1>. QED  BY <1>1 DEF From

LEMMA EmptiedTyped ==
    ASSUME NEW a \in [Index -> Packets], NEW s, NEW m
    PROVE  Emptied(a, s, m) \in [Index -> Packets]
BY DEF Emptied, Packets

(* Which slots are emptied, by their offset from the start.                *)
LEMMA EmptiedAt ==
    ASSUME NEW a \in [Index -> Packets], NEW s \in Index, NEW m \in Nat, NEW j \in Index
    PROVE  Emptied(a, s, m)[Place(s, j)] = IF j < m THEN None ELSE From(a, s)[j]
<1>0. /\ s \in Int /\ j \in Int /\ 0 <= j /\ j < ArraySize /\ ArraySize \in Nat
  BY IndexIs, Sizes
<1>1. /\ s \in Int /\ j \in Int /\ 0 <= j /\ j < ArraySize /\ Place(s, j) \in Index
      /\ From(a, s)[j] = a[Place(s, j)] /\ ArraySize \in Nat
  BY <1>0, PlaceIn, FromTyped
<1>. DEFINE gone == {Place(s, i) : i \in 0..(m - 1)}
<1>2. Emptied(a, s, m)[Place(s, j)] = IF Place(s, j) \in gone THEN None ELSE a[Place(s, j)]
  BY <1>1 DEF Emptied
<1>3. CASE j < m
  <2>1. j \in 0..(m - 1)
    BY <1>1, <1>3
  <2>. QED  BY <1>2, <1>3, <2>1
<1>4. CASE ~(j < m)
  <2>1. ASSUME Place(s, j) \in gone PROVE FALSE
    <3>1. PICK i \in 0..(m - 1) : Place(s, i) = Place(s, j)
      BY <2>1
    <3>2. i \in Int /\ i - j < ArraySize /\ j - i < ArraySize /\ i # j
      BY <1>1, <1>4
    <3>. QED  BY <1>1, <3>1, <3>2, PlaceInjective
  <2>. QED  BY <1>1, <1>2, <1>4, <2>1
<1>. QED  BY <1>3, <1>4

LEMMA ViewMoved ==
    ASSUME NEW a \in [Index -> Packets], NEW s \in Index, NEW m \in Nat
    PROVE  From(Emptied(a, s, m), Place(s, m)) = Moved(From(a, s), m)
<1>. DEFINE b == Emptied(a, s, m)
<1>1. s \in Int /\ m \in Int /\ ArraySize \in Nat /\ ArraySize > 0
  BY IndexIs, Sizes
<1>2. ASSUME NEW i \in Index
      PROVE  b[Place(Place(s, m), i)] = IF i + m < ArraySize THEN From(a, s)[i + m] ELSE None
  <2>1. i \in Int /\ 0 <= i /\ i < ArraySize /\ m + i \in Int /\ m + i = i + m
    BY IndexIs
  <2>2. Place(Place(s, m), i) = Place(s, m + i)
    BY <1>1, <2>1, PlaceShift
  <2>3. CASE i + m < ArraySize
    <3>1. m + i \in Index /\ ~(m + i < m)
      BY <1>1, <2>1, <2>3, IndexIs
    <3>2. b[Place(s, m + i)] = From(a, s)[m + i]
      BY <3>1, EmptiedAt
    <3>. QED  BY <2>1, <2>2, <2>3, <3>2
  <2>4. CASE ~(i + m < ArraySize)
    <3>. DEFINE j == (m + i) % ArraySize
    <3>1. j \in Index /\ Place(s, j) = Place(s, m + i)
      BY <1>1, <2>1, PlaceWraps
    <3>2. j < m
      <4>1. j < ArraySize
        BY <3>1, IndexIs
      <4>2. CASE m >= ArraySize
        BY <1>1, <3>1, <4>1, <4>2, IndexIs
      <4>3. CASE m < ArraySize
        <5>1. m + i \in ArraySize..(2 * ArraySize - 1)
          BY <1>1, <2>1, <2>4, <4>3
        <5>2. j = m + i - ArraySize
          BY <1>1, <2>1, <5>1, ModNear
        <5>. QED  BY <1>1, <2>1, <5>2
      <4>. QED  BY <1>1, <4>2, <4>3
    <3>. HIDE DEF j
    <3>3. b[Place(s, j)] = None
      BY <3>1, <3>2, EmptiedAt
    <3>. QED  BY <2>2, <2>4, <3>1, <3>3
  <2>. QED  BY <2>3, <2>4
<1>. HIDE DEF b
<1>. QED  BY <1>2 DEF From, Moved, b

LEMMA ViewStored ==
    ASSUME NEW a \in [Index -> Packets], NEW s \in Index, NEW d \in Index, NEW n
    PROVE  From([a EXCEPT ![Place(s, d)] = n], s) = [From(a, s) EXCEPT ![d] = n]
<1>1. s \in Int /\ ArraySize \in Nat
  BY IndexIs, Sizes
<1>2. \A i \in Index : Place(s, i) \in Index
  BY <1>1, PlaceIn, IndexIs
<1>3. ASSUME NEW i \in Index
      PROVE  [a EXCEPT ![Place(s, d)] = n][Place(s, i)] = IF i = d THEN n ELSE a[Place(s, i)]
  <2>1. i # d => Place(s, i) # Place(s, d)
    <3>1. i \in Int /\ d \in Int /\ i - d < ArraySize /\ d - i < ArraySize
      BY <1>1, IndexIs
    <3>. QED  BY <1>1, <3>1, PlaceInjective
  <2>. QED  BY <1>2, <2>1
<1>. QED  BY <1>2, <1>3 DEF From

-----------------------------------------------------------------------------
(* What is stored keeps fitting when the window moves, when a packet of    *)
(* the window arrives and when the peer's window advances.                 *)
LEMMA FitsMoved ==
    ASSUME NEW v \in [Index -> Packets], NEW e \in Int, NEW w \in Int, NEW start \in Int, NEW arrived,
           Fits(v, e, w, start, arrived), NEW m \in Nat, m >= ArraySize \/ v[m] = None
    PROVE  Fits(Moved(v, m), e + m, w, start, arrived)
<1>. SUFFICES ASSUME NEW i \in Index, Moved(v, m)[i] # None
              PROVE  /\ i \in 1..(w - 1) /\ Moved(v, m)[i] = (e + m) + i
                     /\ (e + m) + i <= start + w - 1
                     /\ (e + m) + i >= start => (e + m) + i \in arrived
  BY DEF Fits
<1>0. i \in Int /\ 0 <= i /\ i < ArraySize /\ ArraySize \in Nat
  BY IndexIs, Sizes
<1>1. i + m < ArraySize /\ Moved(v, m)[i] = v[i + m]
  BY DEF Moved
<1>2. i + m \in Index /\ i # 0
  BY <1>0, <1>1, IndexIs
<1>3. /\ i + m \in 1..(w - 1) /\ v[i + m] = e + (i + m)
      /\ e + (i + m) <= start + w - 1
      /\ e + (i + m) >= start => e + (i + m) \in arrived
  BY <1>1, <1>2 DEF Fits
<1>4. e + (i + m) = (e + m) + i
  BY <1>0
<1>. QED  BY <1>0, <1>1, <1>2, <1>3, <1>4

(* Whatever number is expected, once nothing is stored.                    *)
LEMMA FitsEmpty ==
    ASSUME NEW v, \A i \in Index : v[i] = None, NEW e, NEW w, NEW start, NEW arrived
    PROVE  Fits(v, e, w, start, arrived)
BY DEF Fits

LEMMA FitsMovedAll ==
    ASSUME NEW v \in [Index -> Packets], NEW e \in Int, NEW w \in Int, NEW start, NEW arrived,
           Fits(v, e, w, start, arrived), NEW m \in Nat,
           m >= w \/ (m = w - 1 /\ v[m] = None) \/ m >= ArraySize
    PROVE  \A i \in Index : Moved(v, m)[i] = None
<1>. SUFFICES ASSUME NEW i \in Index, Moved(v, m)[i] # None PROVE FALSE
  OBVIOUS
<1>0. i \in Int /\ 0 <= i /\ i < ArraySize /\ ArraySize \in Nat
  BY IndexIs, Sizes
<1>1. i + m < ArraySize /\ Moved(v, m)[i] = v[i + m]
  BY DEF Moved
<1>2. i + m \in Index
  BY <1>0, <1>1, IndexIs
<1>3. i + m \in 1..(w - 1)
  BY <1>1, <1>2 DEF Fits
<1>. QED  BY <1>0, <1>1, <1>3

LEMMA FitsStored ==
    ASSUME NEW v \in [Index -> Packets], NEW e \in Int, NEW w \in Int, NEW start \in Int, NEW arrived,
           Fits(v, e, w, start, arrived), NEW d \in Index, d \in 1..(w - 1),
           e + d <= start + w - 1, e + d \in arrived
    PROVE  Fits([v EXCEPT ![d] = e + d], e, w, start, arrived)
BY DEF Fits

LEMMA FitsMore ==
    ASSUME NEW v, NEW e, NEW w, NEW start, NEW arrived, NEW more,
           Fits(v, e, w, start, arrived), arrived \subseteq more
    PROVE  Fits(v, e, w, start, more)
BY DEF Fits

LEMMA FitsAdvanced ==
    ASSUME NEW v, NEW e \in Int, NEW w \in Int, NEW start \in Int, NEW arrived,
           Fits(v, e, w, start, arrived)
    PROVE  Fits(v, e, w, start + 1, arrived \ {start})
<1>. SUFFICES ASSUME NEW i \in Index, v[i] # None
              PROVE  /\ i \in 1..(w - 1) /\ v[i] = e + i
                     /\ e + i <= (start + 1) + w - 1
                     /\ e + i >= start + 1 => e + i \in arrived \ {start}
  BY DEF Fits
<1>1. /\ i \in 1..(w - 1) /\ v[i] = e + i
      /\ e + i <= start + w - 1
      /\ e + i >= start => e + i \in arrived
  BY DEF Fits
<1>. QED  BY <1>1

-----------------------------------------------------------------------------
(* The packets stored for the TIDs of a set.                               *)
HeldIn(q, T) == {p \in T \X Index : q[p[1]][p[2]] # None}
Queues       == [TID -> [Index -> Packets]]
Replaced(q, t, a) == [q EXCEPT ![t] = a]

LEMMA HeldFinite ==
    ASSUME NEW q, NEW T \in SUBSET TID
    PROVE  IsFiniteSet(HeldIn(q, T)) /\ Cardinality(HeldIn(q, T)) \in Nat
<1>1. IsFiniteSet(TID) /\ ArraySize - 1 \in Int /\ 0 \in Int
  BY RxQueueAssumption
<1>2. IsFiniteSet(T) /\ IsFiniteSet(Index)
  <2>1. IsFiniteSet(0..(ArraySize - 1))
    BY <1>1, FS_Interval
  <2>2. IsFiniteSet(T)
    BY <1>1, FS_Subset
  <2>. QED  BY <2>1, <2>2 DEF Index
<1>3. IsFiniteSet(T \X Index)
  BY <1>2, FS_Product
<1>4. HeldIn(q, T) \in SUBSET (T \X Index)
  BY DEF HeldIn
<1>5. IsFiniteSet(HeldIn(q, T))
  BY <1>3, <1>4, FS_Subset
<1>. QED  BY <1>5, FS_CardinalityType

(* Those of the m slots from the start that hold a packet, by their        *)
(* offsets; they are what is lost when the m slots are emptied.            *)
Offsets(v, m) == {j \in Index : j < m /\ v[j] # None}

LEMMA HeldMoved ==
    ASSUME NEW q \in Queues, NEW t \in TID, NEW s \in Index, NEW m \in Nat, NEW O, O = Offsets(From(q[t], s), m),
           NEW r, r = Replaced(q, t, Emptied(q[t], s, m))
    PROVE  /\ IsFiniteSet(O) /\ Cardinality(O) \in Nat /\ r \in Queues
           /\ Cardinality(HeldIn(r, TID)) = Cardinality(HeldIn(q, TID)) - Cardinality(O)
<1>. DEFINE H == HeldIn(q, TID)
            K == HeldIn(r, TID)
            f == [j \in O |-> <<t, Place(s, j)>>]
            G == {<<t, Place(s, j)>> : j \in O}
<1>0. s \in Int /\ q[t] \in [Index -> Packets]
  BY IndexIs DEF Queues
<1>1. r \in Queues
  BY <1>0, EmptiedTyped DEF Queues, Replaced
<1>2. O \subseteq Index /\ \A j \in Index : Place(s, j) \in Index /\ From(q[t], s)[j] = q[t][Place(s, j)]
  BY <1>0, FromTyped, PlaceIn, IndexIs DEF Offsets
<1>3. \A i, j \in O : Place(s, i) = Place(s, j) => i = j
  <2>. SUFFICES ASSUME NEW i \in O, NEW j \in O, Place(s, i) = Place(s, j) PROVE i = j
    OBVIOUS
  <2>1. i \in Int /\ j \in Int /\ i - j < ArraySize /\ j - i < ArraySize
    BY <1>2, IndexIs, Sizes
  <2>. QED  BY <1>0, <2>1, PlaceInjective
<1>4. G \subseteq H
  BY <1>2 DEF HeldIn, Offsets
<1>5. f \in Bijection(O, G)
  <2>1. f \in [O -> G]
    OBVIOUS
  <2>2. \A i, j \in O : f[i] = f[j] => i = j
    <3>1. \A i, j \in O : <<t, Place(s, i)>> = <<t, Place(s, j)>> => Place(s, i) = Place(s, j)
      OBVIOUS
    <3>. QED  BY <1>3, <3>1
  <2>3. \A g \in G : \E i \in O : f[i] = g
    OBVIOUS
  <2>. HIDE DEF f, G
  <2>4. f \in Injection(O, G)
    BY <2>1, <2>2 DEF Injection, IsInjective
  <2>5. f \in Surjection(O, G)
    BY <2>1, <2>3 DEF Surjection
  <2>. QED  BY <2>4, <2>5 DEF Bijection
<1>. HIDE DEF f
<1>6. IsFiniteSet(H) /\ Cardinality(H) \in Nat
  BY HeldFinite
<1>7. IsFiniteSet(O)
  <2>1. IsFiniteSet(G)
    BY <1>4, <1>6, FS_Subset
  <2>2. f \in Injection(O, G)
    BY <1>5 DEF Bijection
  <2>. QED  BY <2>1, <2>2, FS_Injection
<1>8. IsFiniteSet(G) /\ Cardinality(G) = Cardinality(O) /\ Cardinality(O) \in Nat
  <2>1. ExistsBijection(O, G)
    BY <1>5 DEF ExistsBijection
  <2>. QED  BY <1>7, <2>1, FS_Bijection, FS_CardinalityType
<1>9. K = H \ G
  <2>1. ASSUME NEW u \in TID, NEW x \in Index, u # t
        PROVE  <<u, x>> \in K <=> <<u, x>> \in H \ G
    <3>1. r[u] = q[u] /\ <<u, x>> \notin G
      BY <2>1 DEF Queues, Replaced
    <3>. QED  BY <2>1, <3>1 DEF HeldIn
  <2>2. ASSUME NEW x \in Index
        PROVE  <<t, x>> \in K <=> <<t, x>> \in H \ G
    <3>1. PICK j \in Index : Place(s, j) = x
      BY PlaceOnto
    <3>2. r[t][x] = IF j < m THEN None ELSE q[t][x]
      <4>1. r[t] = Emptied(q[t], s, m)
        BY DEF Queues, Replaced
      <4>2. Emptied(q[t], s, m)[Place(s, j)] = IF j < m THEN None ELSE From(q[t], s)[j]
        BY <1>0, EmptiedAt
      <4>. QED  BY <1>2, <3>1, <4>1, <4>2
    <3>3. <<t, x>> \in G <=> j \in O
      <4>1. ASSUME <<t, x>> \in G PROVE j \in O
        <5>1. PICK i \in O : <<t, x>> = <<t, Place(s, i)>>
          BY <4>1
        <5>2. Place(s, i) = Place(s, j) /\ i \in Int /\ j \in Int /\ i - j < ArraySize /\ j - i < ArraySize
          BY <1>2, <3>1, <5>1, IndexIs, Sizes
        <5>3. i = j
          BY <1>0, <5>2, PlaceInjective
        <5>. QED  BY <5>1, <5>3
      <4>. QED  BY <3>1, <4>1
    <3>4. j \in O <=> j < m /\ q[t][x] # None
      BY <1>2, <3>1 DEF Offsets
    <3>5. <<t, x>> \in H <=> q[t][x] # None
      BY DEF HeldIn
    <3>6. <<t, x>> \in K <=> r[t][x] # None
      BY DEF HeldIn
    <3>. QED  BY <3>2, <3>3, <3>4, <3>5, <3>6
  <2>3. K \subseteq TID \X Index /\ H \subseteq TID \X Index
    BY DEF HeldIn
  <2>4. \A p \in TID \X Index : p \in K <=> p \in H \ G
    <3>1. \A u \in TID : \A x \in Index : <<u, x>> \in K <=> <<u, x>> \in H \ G
      BY <2>1, <2>2
    <3>. HIDE DEF H, K, G
    <3>2. \A p \in TID \X Index : \E u \in TID : \E x \in Index : p = <<u, x>>
      OBVIOUS
    <3>. QED  BY <3>1, <3>2
  <2>. HIDE DEF H, K, G
  <2>. QED  BY <2>3, <2>4
<1>10. Cardinality(H \ G) = Cardinality(H) - Cardinality(H \cap G) /\ H \cap G = G
  BY <1>4, <1>6, FS_Difference
<1>. QED  BY <1>1, <1>7, <1>8, <1>9, <1>10

LEMMA HeldStored ==
    ASSUME NEW q \in Queues, NEW t \in TID, NEW x \in Index, NEW n \in Nat, q[t][x] = None
    PROVE  /\ [q EXCEPT ![t][x] = n] \in Queues
           /\ Cardinality(HeldIn([q EXCEPT ![t][x] = n], TID)) = Cardinality(HeldIn(q, TID)) + 1
<1>. DEFINE r == [q EXCEPT ![t][x] = n]
<1>1. r \in Queues /\ n # None
  BY Sizes DEF Queues, Packets
<1>2. HeldIn(r, TID) = HeldIn(q, TID) \cup {<<t, x>>} /\ <<t, x>> \notin HeldIn(q, TID)
  <2>1. \A u \in TID, y \in Index : r[u][y] = IF u = t /\ y = x THEN n ELSE q[u][y]
    BY DEF Queues
  <2>. HIDE DEF r
  <2>. QED  BY <1>1, <2>1 DEF HeldIn
<1>3. IsFiniteSet(HeldIn(q, TID))
  BY HeldFinite
<1>. QED  BY <1>1, <1>2, <1>3, FS_AddElement

-----------------------------------------------------------------------------
(* Every set of numbers has a smallest one, so runs end, and if it is      *)
(* bounded a greatest.                                                     *)
LEMMA Smallest ==
    ASSUME NEW T \in SUBSET Nat, T # {}
    PROVE  \E n \in T : \A m \in T : n <= m
<1>. DEFINE R == OpToRel(<, Nat)
<1>0. IsWellFoundedOn(R, Nat)
  BY NatLessThanWellFounded, Zenon
<1>2. \A i, j \in Nat : i < j => <<i, j>> \in R
  BY DEF OpToRel
<1>. HIDE DEF R
<1>1. PICK n \in T : \A m \in T : ~ (<<m, n>> \in R)
  BY <1>0, WFMin
<1>3. \A m \in T : ~(m < n)
  BY <1>1, <1>2
<1>. QED  BY <1>3

LEMMA Greatest ==
    ASSUME NEW top \in Nat, NEW T \in SUBSET (0..top), T # {}
    PROVE  \E n \in T : \A m \in T : m <= n
<1>1. {top - x : x \in T} \in SUBSET Nat /\ {top - x : x \in T} # {}
  OBVIOUS
<1>2. PICK y \in {top - x : x \in T} : \A z \in {top - x : x \in T} : y <= z
  BY <1>1, Smallest
<1>3. PICK n \in T : y = top - n
  BY <1>2
<1>4. \A m \in T : top - n <= top - m
  BY <1>2, <1>3
<1>. QED  BY <1>4

LEMMA RunIs ==
    ASSUME NEW t, NEW i \in 0..ArraySize
    PROVE  /\ Run(t, i) \in 0..(ArraySize - i)
           /\ \A j \in 0..(Run(t, i) - 1) : At(t, i + j) # None
           /\ Run(t, i) < ArraySize - i => At(t, i + Run(t, i)) = None
<1>. DEFINE Ends == {k \in 0..(ArraySize - i) : k < ArraySize - i => At(t, i + k) = None}
            P(k) == /\ \A j \in 0..(k - 1) : At(t, i + j) # None
                    /\ k < ArraySize - i => At(t, i + k) = None
<1>0. i \in Int /\ ArraySize \in Nat /\ ArraySize - i \in Nat
  BY Sizes
<1>1. Ends \in SUBSET Nat /\ ArraySize - i \in Ends
  BY <1>0
<1>2. PICK k \in Ends : \A m \in Ends : k <= m
  BY <1>1, Smallest
<1>3. k \in 0..(ArraySize - i) /\ P(k)
  <2>1. ASSUME NEW j \in 0..(k - 1) PROVE At(t, i + j) # None
    <3>1. j \in 0..(ArraySize - i) /\ j < ArraySize - i /\ ~(k <= j) /\ k \in Int /\ j \in Int
      BY <1>0, <1>2
    <3>. QED  BY <1>2, <3>1
  <2>. QED  BY <1>2, <2>1
<1>4. Run(t, i) = CHOOSE x \in 0..(ArraySize - i) : P(x)
  BY DEF Run
<1>. HIDE DEF P
<1>5. Run(t, i) \in 0..(ArraySize - i) /\ P(Run(t, i))
  BY <1>3, <1>4
<1>. QED  BY <1>5 DEF P

(* Packets that lie after the last that was passed, in order, leave the    *)
(* order of what is passed intact.                                         *)
LEMMA PassedInTurn ==
    ASSUME NEW l \in Int, l >= -1, NEW b \in Int, l < b, NEW top \in Nat,
           NEW f, DOMAIN f \subseteq 0..top,
           \A i \in DOMAIN f : f[i] \in Int /\ l < f[i] /\ f[i] < b,
           \A i, j \in DOMAIN f : i < j => f[i] < f[j]
    PROVE  Passed(l, f) \in Int /\ Passed(l, f) >= -1 /\ Passed(l, f) < b
<1>1. CASE DOMAIN f = {}
  BY <1>1 DEF Passed
<1>2. CASE DOMAIN f # {}
  <2>1. Passed(l, f) = LastOf(f)
    BY <1>2 DEF Passed, Ascending, Disorder
  <2>2. \E i \in DOMAIN f : \A j \in DOMAIN f : j <= i
    BY <1>2, Greatest
  <2>3. LastOf(f) \in {f[i] : i \in DOMAIN f}
    BY <2>2 DEF LastOf
  <2>. QED  BY <2>1, <2>3
<1>. QED  BY <1>1, <1>2

(* What is found in the array of a session.                                *)
LEMMA AtFits ==
    ASSUME TypeOK, NEW t \in TID, NEW e \in Int, Session(t, e), NEW i \in 0..ArraySize, At(t, i) # None
    PROVE  /\ i \in Index /\ i \in 1..(aTidWinSize[t] - 1)
           /\ At(t, i) = View(t)[i] /\ At(t, i) = e + i
           /\ e + i <= winStart[t] + aTidWinSize[t] - 1
           /\ e + i >= winStart[t] => e + i \in got[t]
<1>1. Fits(View(t), e, aTidWinSize[t], winStart[t], got[t])
  BY DEF Session
<1>2. i # ArraySize
  <2>1. SUFFICES ASSUME i = ArraySize PROVE FALSE
    OBVIOUS
  <2>2. Place(aWinStartArrayInex[t], i % ArraySize) = Place(aWinStartArrayInex[t], i) /\ i % ArraySize = 0
    <3>1. aWinStartArrayInex[t] \in Int /\ i \in Int /\ ArraySize \in Nat /\ ArraySize > 0
      BY TidTypes, IndexIs, Sizes
    <3>2. ArraySize = ArraySize * 1 + 0 /\ 0 \in 0..(ArraySize - 1) /\ 1 \in Int /\ ArraySize \in Int
      BY <3>1
    <3>3. ArraySize % ArraySize = 0
      BY <3>1, <3>2, ModIs
    <3>4. Place(aWinStartArrayInex[t], i % ArraySize) = Place(aWinStartArrayInex[t], i)
      BY <3>1, PlaceWraps
    <3>. QED  BY <2>1, <3>3, <3>4
  <2>3. At(t, i) = At(t, 0)
    BY <2>2, SlotIs DEF At
  <2>4. 0 \in Index
    BY IndexIs, Sizes
  <2>5. At(t, 0) = View(t)[0]
    BY <2>4, AtIs
  <2>. QED  BY <1>1, <2>3, <2>4, <2>5 DEF Fits
<1>3. i \in Index
  BY <1>2, IndexIs, Sizes
<1>4. At(t, i) = View(t)[i]
  BY <1>3, AtIs
<1>. QED  BY <1>1, <1>3, <1>4 DEF Fits

LEMMA StoredFits ==
    ASSUME TypeOK, NEW t \in TID, NEW e \in Int, Session(t, e),
           NEW i \in Nat, NEW k \in Int, i + k - 1 <= ArraySize
    PROVE  /\ \A x \in Int : x \in DOMAIN Stored(t, i, k) <=> i <= x /\ x <= i + k - 1 /\ At(t, x) # None
           /\ DOMAIN Stored(t, i, k) \subseteq 1..(aTidWinSize[t] - 1)
           /\ DOMAIN Stored(t, i, k) \subseteq 0..ArraySize
           /\ \A x \in DOMAIN Stored(t, i, k) : Stored(t, i, k)[x] = e + x
<1>1. DOMAIN Stored(t, i, k) = {x \in i..(i + k - 1) : At(t, x) # None}
  BY DEF Stored
<1>2. \A x \in DOMAIN Stored(t, i, k) : x \in 0..ArraySize /\ At(t, x) # None /\ Stored(t, i, k)[x] = At(t, x)
  BY <1>1, Sizes DEF Stored
<1>3. \A x \in DOMAIN Stored(t, i, k) : x \in 1..(aTidWinSize[t] - 1) /\ At(t, x) = e + x
  BY <1>2, AtFits
<1>4. \A x \in Int : x \in DOMAIN Stored(t, i, k) <=> i <= x /\ x <= i + k - 1 /\ At(t, x) # None
  BY <1>1
<1>. QED  BY <1>2, <1>3, <1>4

-----------------------------------------------------------------------------
(* A packet of the peer's window, relative to the expected one.            *)
LEMMA Relative ==
    ASSUME TypeOK, NEW t \in TID, NEW e \in Int, Session(t, e), NEW n \in Window(t)
    PROVE  /\ n \in Nat /\ n <= winStart[t] + aTidWinSize[t] - 1 /\ n - e <= MaxAhead - 1
           /\ Sn(n) = aTidExpectedSn[t] <=> n = e
           /\ Bigger(Sn(n), aTidExpectedSn[t]) <=> n > e
           /\ n > e => (Bigger(Sn(n), WinEnd(t)) <=>
                        n - e >= aTidWinSize[t] \/ (n - e = aTidWinSize[t] - 1 /\ WinEnd(t) >= SnMod))
           /\ n > e => SaveOffset(t, n) = n - e
<1>1. /\ aTidWinSize[t] \in 1..ArraySize /\ aTidWinSize[t] \in Int /\ winStart[t] \in Nat
      /\ e <= winStart[t] + aTidWinSize[t] /\ winStart[t] + aTidWinSize[t] <= e + MaxAhead
      /\ aTidExpectedSn[t] = Sn(e)
  BY TidTypes DEF Session
<1>2. /\ n \in Nat /\ n >= winStart[t] /\ n <= winStart[t] + aTidWinSize[t] - 1
  BY <1>1 DEF Window
<1>3. n - e <= MaxAhead - 1 /\ e - n <= ArraySize
  BY <1>1, <1>2, Sizes
<1>4. Sn(n) = Sn(e) <=> n = e
  BY <1>2, <1>3, Sizes, SnInjective
<1>5. Bigger(Sn(n), Sn(e)) <=> n > e
  <2>1. n \in Int /\ n - e <= Half - 2 /\ e - n <= Half
    BY <1>2, <1>3, Sizes
  <2>. QED  BY <2>1, BiggerIs
<1>6. ASSUME n > e
      PROVE  Bigger(Sn(n), WinEnd(t)) <=>
                n - e >= aTidWinSize[t] \/ (n - e = aTidWinSize[t] - 1 /\ WinEnd(t) >= SnMod)
  <2>1. WinEnd(t) = Sn(e) + aTidWinSize[t] - 1 /\ n \in Int
    BY <1>1, <1>2 DEF WinEnd
  <2>2. Bigger(Sn(n), Sn(e) + aTidWinSize[t] - 1) <=>
           n - e >= aTidWinSize[t] \/ (n - e = aTidWinSize[t] - 1 /\ Sn(e) + aTidWinSize[t] - 1 >= SnMod)
    BY <1>1, <1>3, <1>6, <2>1, BeyondIs
  <2>. QED  BY <2>1, <2>2
<1>7. ASSUME n > e PROVE SaveOffset(t, n) = n - e
  <2>1. n \in Int /\ n - e < SnMod /\ n >= e
    BY <1>2, <1>3, <1>7, Sizes
  <2>2. (Sn(n) - Sn(e)) % SnMod = n - e
    BY <2>1, SnDistance
  <2>. QED  BY <1>1, <2>2 DEF SaveOffset
<1>. QED  BY <1>1, <1>2, <1>3, <1>4, <1>5, <1>6, <1>7

(* One that has not arrived is not stored.                                 *)
LEMMA NotStored ==
    ASSUME TypeOK, NEW t \in TID, NEW e \in Int, Session(t, e), NEW n \in Window(t) \ got[t],
           n - e \in Index
    PROVE  At(t, n - e) = None /\ View(t)[n - e] = None
<1>1. n - e \in 0..ArraySize /\ n \in Int /\ e + (n - e) = n /\ n >= winStart[t]
  <2>1. n \in Nat /\ n >= winStart[t]
    BY TidTypes, Relative DEF Window
  <2>. QED  BY <2>1, IndexIs, Sizes
<1>2. At(t, n - e) = None
  BY <1>1, AtFits
<1>3. At(t, n - e) = View(t)[n - e]
  BY AtIs
<1>. QED  BY <1>2, <1>3

-----------------------------------------------------------------------------
(* The parts of the invariant.                                             *)
TidsTyped ==
    /\ aPaketsQueue \in Queues
    /\ aTidBaEstablished \in [TID -> BOOLEAN]
    /\ aWinStartArrayInex \in [TID -> Index]
    /\ aTidWinSize \in [TID -> 0..ArraySize]
    /\ aTidExpectedSn \in [TID -> 0..(SnMod - 1)]
    /\ winStart \in [TID -> Nat] /\ got \in [TID -> SUBSET Nat]
    /\ last \in [TID -> Int]

TimerTyped == bPacketMiss \in BOOLEAN /\ aFrameTid \in TID /\ ticking \in BOOLEAN /\ expired \in BOOLEAN

Parts ==
    /\ TidsTyped /\ \A u \in TID : Tid(u)
    /\ TimerTyped
    /\ hung \in BOOLEAN /\ discarded = FALSE
    /\ aPacketsStored = Cardinality(HeldIn(aPaketsQueue, TID))

LEMMA StoredExactIs == StoredExact <=> aPacketsStored = Cardinality(HeldIn(aPaketsQueue, TID))
BY DEF StoredExact, StoredCount, Held, HeldIn

LEMMA InParts == RxInv <=> Parts
<1>1. aPacketsStored = Cardinality(HeldIn(aPaketsQueue, TID)) => aPacketsStored \in Nat
  BY HeldFinite
<1>2. TypeOK <=> /\ TidsTyped /\ TimerTyped /\ aPacketsStored \in Nat /\ hung \in BOOLEAN /\ discarded \in BOOLEAN
  BY DEF TypeOK, TidsTyped, TimerTyped, Queues, Packets
<1>. QED  BY <1>1, <1>2, StoredExactIs DEF RxInv, Parts

LEMMA InPartsNext == RxInv' <=> Parts'
BY InParts, PTL

(* A TID that a step does not touch keeps its session.                     *)
LEMMA TidKept ==
    ASSUME NEW u \in TID, Tid(u),
           aPaketsQueue'[u] = aPaketsQueue[u], aTidBaEstablished'[u] = aTidBaEstablished[u],
           aWinStartArrayInex'[u] = aWinStartArrayInex[u], aTidWinSize'[u] = aTidWinSize[u],
           aTidExpectedSn'[u] = aTidExpectedSn[u], winStart'[u] = winStart[u], got'[u] = got[u],
           last'[u] = last[u]
    PROVE  Tid(u)'
BY DEF Tid, Session, Vacant, View

(* The session of one TID moves to another array, start, number, set of    *)
(* arrived packets and packet passed last.                                 *)
LEMMA SessionMoves ==
    ASSUME Parts, NEW t \in TID, aTidBaEstablished[t], NEW e \in Int, Session(t, e),
           NEW a2 \in [Index -> Packets], NEW s2 \in Index, NEW e2 \in Int, NEW l2 \in Int, NEW g2 \in SUBSET Nat,
           aPaketsQueue' = [aPaketsQueue EXCEPT ![t] = a2],
           aWinStartArrayInex' = [aWinStartArrayInex EXCEPT ![t] = s2],
           aTidExpectedSn' = [aTidExpectedSn EXCEPT ![t] = Sn(e2)],
           got' = [got EXCEPT ![t] = g2], last' = [last EXCEPT ![t] = l2],
           UNCHANGED <<aTidBaEstablished, aTidWinSize, winStart>>,
           l2 >= -1, l2 < e2, e2 >= e, e2 <= winStart[t] + aTidWinSize[t],
           Fits(From(a2, s2), e2, aTidWinSize[t], winStart[t], g2)
    PROVE  TidsTyped' /\ \A u \in TID : Tid(u)'
<1>1. TidsTyped'
  <2>1. TidsTyped /\ Sn(e2) \in 0..(SnMod - 1)
    BY SnRange DEF Parts
  <2>2. aPaketsQueue' \in Queues
    BY <2>1 DEF TidsTyped, Queues
  <2>. QED  BY <2>1, <2>2 DEF TidsTyped
<1>2. Tid(t)'
  <2>1. Session(t, e2)'
    <3>1. /\ aTidWinSize'[t] = aTidWinSize[t] /\ winStart'[t] = winStart[t] /\ got'[t] = g2 /\ last'[t] = l2
          /\ aTidExpectedSn'[t] = Sn(e2) /\ aPaketsQueue'[t] = a2 /\ aWinStartArrayInex'[t] = s2
      BY DEF Parts, TidsTyped, Queues
    <3>2. View(t)' = From(a2, s2)
      BY <3>1 DEF View
    <3>3. winStart[t] + aTidWinSize[t] <= e2 + MaxAhead
      <4>1. winStart[t] + aTidWinSize[t] <= e + MaxAhead /\ winStart[t] \in Int /\ aTidWinSize[t] \in Int
        BY Sizes DEF Session, Parts, TidsTyped
      <4>. QED  BY <4>1, Sizes
    <3>. QED  BY <3>1, <3>2, <3>3 DEF Session
  <2>2. aTidBaEstablished'[t] /\ last'[t] = l2
    BY DEF Parts, TidsTyped
  <2>. QED  BY <2>1, <2>2 DEF Tid
<1>3. ASSUME NEW u \in TID, u # t PROVE Tid(u)'
  <2>1. Tid(u)
    BY DEF Parts
  <2>2. /\ aPaketsQueue'[u] = aPaketsQueue[u] /\ aTidBaEstablished'[u] = aTidBaEstablished[u]
        /\ aWinStartArrayInex'[u] = aWinStartArrayInex[u] /\ aTidWinSize'[u] = aTidWinSize[u]
        /\ aTidExpectedSn'[u] = aTidExpectedSn[u] /\ winStart'[u] = winStart[u] /\ got'[u] = got[u]
        /\ last'[u] = last[u]
    BY <1>3 DEF Parts, TidsTyped, Queues
  <2>. QED  BY <2>1, <2>2, TidKept
<1>. QED  BY <1>1, <1>2, <1>3

LEMMA TimerTypedKept ==
    ASSUME TimerTyped, NEW t \in TID, RestartTimer(t) \/ StopTimer \/ StartTimer(t) \/ UNCHANGED timervars
    PROVE  TimerTyped'
BY DEF TimerTyped, RestartTimer, StopTimer, StartTimer, timervars

LEMMA PartsTypeOK == Parts => TypeOK
BY InParts DEF RxInv

LEMMA PartsFacts ==
    ASSUME Parts, NEW t \in TID
    PROVE  /\ TypeOK /\ aPaketsQueue \in Queues /\ aPaketsQueue[t] \in [Index -> Packets]
           /\ aWinStartArrayInex[t] \in Index
           /\ Tid(t) /\ winStart[t] \in Nat /\ last[t] \in Int /\ last[t] >= -1 /\ got[t] \in SUBSET Nat
           /\ aTidWinSize[t] \in Int /\ aTidExpectedSn[t] \in Int
           /\ got = [got EXCEPT ![t] = got[t]]
BY PartsTypeOK DEF Parts, TidsTyped, Queues, Tid

-----------------------------------------------------------------------------
(* The array of a session after its window has moved by m: what is left of *)
(* it, and of the count.                                                   *)
LEMMA WindowMoved ==
    ASSUME Parts, NEW t \in TID, NEW e \in Int, Session(t, e), NEW m \in Nat, m >= ArraySize \/ At(t, m) = None
    PROVE  /\ Without(t, m) \in [Index -> Packets] /\ Slot(t, m) \in Index
           /\ From(Without(t, m), Slot(t, m)) = Moved(View(t), m)
           /\ Fits(Moved(View(t), m), e + m, aTidWinSize[t], winStart[t], got[t])
           /\ SnPlus(t, m) = Sn(e + m)
           /\ Replaced(aPaketsQueue, t, Without(t, m)) \in Queues
           /\ IsFiniteSet(Offsets(View(t), m)) /\ Cardinality(Offsets(View(t), m)) \in Nat
           /\ Cardinality(HeldIn(Replaced(aPaketsQueue, t, Without(t, m)), TID))
                 = aPacketsStored - Cardinality(Offsets(View(t), m))
<1>. DEFINE a == aPaketsQueue[t]
            s == aWinStartArrayInex[t]
<1>1. /\ TypeOK /\ aPaketsQueue \in Queues /\ a \in [Index -> Packets] /\ s \in Index /\ s \in Int
      /\ aTidWinSize[t] \in Int /\ winStart[t] \in Int
  BY PartsFacts, IndexIs
<1>2. /\ Fits(View(t), e, aTidWinSize[t], winStart[t], got[t]) /\ aTidExpectedSn[t] = Sn(e)
  BY DEF Session
<1>3. Without(t, m) = Emptied(a, s, m) /\ Slot(t, m) = Place(s, m) /\ View(t) = From(a, s)
  BY WithoutIs, SlotIs DEF View
<1>4. Without(t, m) \in [Index -> Packets] /\ Slot(t, m) \in Index
  BY <1>1, <1>3, EmptiedTyped, PlaceIn
<1>5. From(Without(t, m), Slot(t, m)) = Moved(View(t), m)
  BY <1>1, <1>3, ViewMoved
<1>6. Fits(Moved(View(t), m), e + m, aTidWinSize[t], winStart[t], got[t])
  <2>1. m >= ArraySize \/ View(t)[m] = None
    <3>1. m >= ArraySize \/ m \in Index
      BY IndexIs, Sizes
    <3>. QED  BY <3>1, AtIs
  <2>2. View(t) \in [Index -> Packets]
    BY <1>1, <1>3, FromTyped
  <2>. QED  BY <1>1, <1>2, <2>1, <2>2, FitsMoved
<1>7. SnPlus(t, m) = Sn(e + m)
  BY <1>2, SnAdds DEF SnPlus
<1>8. aPacketsStored = Cardinality(HeldIn(aPaketsQueue, TID))
  BY DEF Parts
<1>. DEFINE O == Offsets(View(t), m)
            q == Replaced(aPaketsQueue, t, Without(t, m))
<1>9. O = Offsets(From(aPaketsQueue[t], s), m) /\ q = Replaced(aPaketsQueue, t, Emptied(aPaketsQueue[t], s, m))
  BY <1>3
<1>. HIDE DEF O, q
<1>10. /\ IsFiniteSet(O) /\ Cardinality(O) \in Nat /\ q \in Queues
       /\ Cardinality(HeldIn(q, TID)) = Cardinality(HeldIn(aPaketsQueue, TID)) - Cardinality(O)
  BY <1>1, <1>9, HeldMoved
<1>. QED  BY <1>3, <1>4, <1>5, <1>6, <1>7, <1>8, <1>10 DEF O, q

(* What is passed from the array, and what is passed with it.              *)
LEMMA PassedFits ==
    ASSUME Parts, NEW t \in TID, NEW e \in Int, Session(t, e), NEW i \in Nat, NEW k \in Int, i + k - 1 <= ArraySize,
           NEW b \in Int, last[t] < b, \A x \in DOMAIN Stored(t, i, k) : e + x < b
    PROVE  /\ Passed(last[t], Stored(t, i, k)) \in Int
           /\ Passed(last[t], Stored(t, i, k)) >= -1 /\ Passed(last[t], Stored(t, i, k)) < b
<1>. DEFINE f == Stored(t, i, k)
<1>1. TypeOK /\ last[t] \in Int /\ last[t] >= -1 /\ last[t] < e
  BY PartsFacts DEF Session
<1>2. /\ DOMAIN f \subseteq 1..(aTidWinSize[t] - 1) /\ DOMAIN f \subseteq 0..ArraySize
      /\ \A x \in DOMAIN f : f[x] = e + x
  BY <1>1, StoredFits
<1>3. \A x \in DOMAIN f : e + x < b
  OBVIOUS
<1>. HIDE DEF f
<1>4. \A x \in DOMAIN f : f[x] \in Int /\ last[t] < f[x] /\ f[x] < b
  BY <1>1, <1>2, <1>3
<1>5. \A x, y \in DOMAIN f : x < y => f[x] < f[y]
  <2>1. \A x, y \in 0..ArraySize : x < y => e + x < e + y
    BY Sizes
  <2>. QED  BY <1>2, <2>1
<1>6. ArraySize \in Nat
  BY Sizes
<1>7. Passed(last[t], f) \in Int /\ Passed(last[t], f) >= -1 /\ Passed(last[t], f) < b
  BY <1>1, <1>2, <1>4, <1>5, <1>6, PassedInTurn
<1>. QED  BY <1>7 DEF f

LEMMA PassedWith ==
    ASSUME Parts, NEW t \in TID, NEW e \in Int, Session(t, e), NEW i \in Nat, NEW k \in Int, i + k - 1 <= ArraySize,
           NEW b \in Int, NEW n \in Int, NEW o \in 0..(ArraySize + 1), e <= n, n < b,
           \A x \in DOMAIN Stored(t, i, k) : /\ e + x < b /\ x # o
                                             /\ x < o => e + x < n
                                             /\ x > o => n < e + x
    PROVE  /\ Passed(last[t], With(Stored(t, i, k), o, n)) \in Int
           /\ Passed(last[t], With(Stored(t, i, k), o, n)) >= -1 /\ Passed(last[t], With(Stored(t, i, k), o, n)) < b
<1>. DEFINE f == Stored(t, i, k)
            g == With(f, o, n)
<1>1. TypeOK /\ last[t] \in Int /\ last[t] >= -1 /\ last[t] < e
  BY PartsFacts DEF Session
<1>2. /\ DOMAIN f \subseteq 1..(aTidWinSize[t] - 1) /\ DOMAIN f \subseteq 0..ArraySize
      /\ \A x \in DOMAIN f : f[x] = e + x
  BY <1>1, StoredFits
<1>3. \A x \in DOMAIN f : /\ e + x < b /\ x # o
                          /\ x < o => e + x < n
                          /\ x > o => n < e + x
  OBVIOUS
<1>. HIDE DEF f
<1>4. DOMAIN g = DOMAIN f \cup {o} /\ g[o] = n /\ \A x \in DOMAIN f : g[x] = e + x
  BY <1>2, <1>3 DEF With
<1>. HIDE DEF g
<1>5. DOMAIN g \subseteq 0..(ArraySize + 1) /\ ArraySize + 1 \in Nat
  BY <1>2, <1>4, Sizes
<1>6. \A x \in DOMAIN g : g[x] \in Int /\ last[t] < g[x] /\ g[x] < b
  <2>1. \A x \in DOMAIN f : e + x \in Int /\ last[t] < e + x /\ e + x < b
    BY <1>1, <1>2, <1>3
  <2>2. n \in Int /\ last[t] < n /\ n < b
    BY <1>1
  <2>. QED  BY <1>4, <2>1, <2>2
<1>7. \A x, y \in DOMAIN g : x < y => g[x] < g[y]
  <2>1. \A x, y \in DOMAIN f : x < y => e + x < e + y
    BY <1>2, Sizes
  <2>2. \A x \in DOMAIN f : (x < o => g[x] < g[o]) /\ (o < x => g[o] < g[x])
    BY <1>2, <1>3, <1>4, Sizes
  <2>3. ~(o < o)
    BY Sizes
  <2>. QED  BY <1>4, <2>1, <2>2, <2>3
<1>8. last[t] < b
  BY <1>1
<1>9. Passed(last[t], g) \in Int /\ Passed(last[t], g) >= -1 /\ Passed(last[t], g) < b
  BY <1>1, <1>5, <1>6, <1>7, <1>8, PassedInTurn
<1>. QED  BY <1>9 DEF f, g

-----------------------------------------------------------------------------
(* A packet of the window arrives.                                         *)
Arrives(t, n) ==
    /\ n \in Window(t) \ got[t]
    /\ got' = [got EXCEPT ![t] = got[t] \cup {n}]
    /\ UNCHANGED <<winStart, hung>>

LEMMA ExpectedStep ==
    ASSUME Parts, NEW t \in TID, aTidBaEstablished[t], NEW n, Arrives(t, n), ReceiveExpected(t, n)
    PROVE  Parts'
<1>1. PICK e \in Int : Session(t, e)
  BY PartsFacts DEF Tid
<1>. DEFINE k  == Run(t, 1)
            f  == With(Stored(t, 1, k), 0, n)
            O  == Offsets(View(t), 1 + k)
            l2 == Passed(last[t], f)
            g2 == got[t] \cup {n}
<1>2. /\ TypeOK /\ winStart[t] \in Int /\ aTidWinSize[t] \in Int /\ got[t] \in SUBSET Nat
      /\ ArraySize \in Nat /\ ArraySize >= 1 /\ aTidWinSize[t] >= 1 /\ last[t] < e
  BY <1>1, PartsFacts, Sizes DEF Session
<1>3. n = e /\ n \in Nat /\ n <= winStart[t] + aTidWinSize[t] - 1
  BY <1>1, <1>2, Relative DEF ReceiveExpected, Arrives
<1>4. /\ k \in 0..(ArraySize - 1) /\ k \in Nat /\ 1 + k \in Nat
      /\ \A j \in 1..k : At(t, j) # None
      /\ 1 + k >= ArraySize \/ At(t, 1 + k) = None
  <2>1. /\ k \in 0..(ArraySize - 1)
        /\ \A j \in 0..(k - 1) : At(t, 1 + j) # None
        /\ k < ArraySize - 1 => At(t, 1 + k) = None
    <3>1. 1 \in 0..ArraySize
      BY <1>2
    <3>. QED  BY <3>1, RunIs
  <2>. HIDE DEF k
  <2>2. ASSUME NEW j \in 1..k PROVE At(t, j) # None
    <3>1. j - 1 \in 0..(k - 1) /\ 1 + (j - 1) = j
      BY <2>1
    <3>. QED  BY <2>1, <3>1
  <2>. QED  BY <1>2, <2>1, <2>2
<1>5. DOMAIN Stored(t, 1, k) \subseteq 1..k /\ \A x \in DOMAIN Stored(t, 1, k) : x \in 1..ArraySize
  <2>1. 1 + k - 1 <= ArraySize /\ 1 \in Nat /\ 1 + k - 1 = k
    BY <1>2, <1>4
  <2>2. /\ \A x \in Int : x \in DOMAIN Stored(t, 1, k) <=> 1 <= x /\ x <= 1 + k - 1 /\ At(t, x) # None
        /\ DOMAIN Stored(t, 1, k) \subseteq 0..ArraySize
    BY <1>1, <1>2, <1>4, <2>1, StoredFits
  <2>. HIDE DEF k
  <2>. QED  BY <1>2, <1>4, <2>1, <2>2
<1>6. l2 \in Int /\ l2 >= -1 /\ l2 < e + (1 + k)
  <2>. HIDE DEF k
  <2>1. \A x \in DOMAIN Stored(t, 1, k) : /\ e + x < e + (1 + k) /\ x # 0
                                          /\ x < 0 => e + x < n
                                          /\ x > 0 => n < e + x
    BY <1>3, <1>4, <1>5
  <2>2. /\ 1 \in Nat /\ 1 + k - 1 <= ArraySize /\ 0 \in 0..(ArraySize + 1)
        /\ e <= n /\ n < e + (1 + k) /\ e + (1 + k) \in Int
    BY <1>2, <1>3, <1>4
  <2>. QED  BY <1>1, <1>3, <1>4, <2>1, <2>2, PassedWith
<1>7. e + (1 + k) <= winStart[t] + aTidWinSize[t]
  <2>. HIDE DEF k
  <2>1. CASE k = 0
    BY <1>2, <1>3, <2>1
  <2>2. CASE k > 0
    <3>1. k \in 0..ArraySize /\ At(t, k) # None
      BY <1>2, <1>4, <2>2
    <3>2. e + k <= winStart[t] + aTidWinSize[t] - 1
      BY <1>1, <1>2, <3>1, AtFits
    <3>. QED  BY <1>2, <1>4, <3>2
  <2>. QED  BY <1>4, <2>1, <2>2
<1>8. Cardinality(O) = k
  <2>1. O = 1..k
    <3>1. At(t, 0) = None
      <4>1. 0 \in 0..ArraySize
        BY <1>2
      <4>. QED  BY <1>1, <1>2, <4>1, AtFits
    <3>. HIDE DEF k
    <3>0. O = {j \in Index : j < 1 + k /\ At(t, j) # None}
      BY AtIs DEF Offsets
    <3>2. \A j \in Index : j < 1 + k /\ At(t, j) # None => j \in 1..k
      BY <1>2, <1>4, <3>1, IndexIs
    <3>3. \A j \in 1..k : j \in Index /\ j < 1 + k /\ At(t, j) # None
      BY <1>2, <1>4, IndexIs
    <3>. HIDE DEF O
    <3>. QED  BY <3>0, <3>2, <3>3
  <2>. HIDE DEF k, O
  <2>. QED  BY <1>4, <2>1, FS_Interval
<1>9. /\ Without(t, 1 + k) \in [Index -> Packets] /\ Slot(t, 1 + k) \in Index
      /\ From(Without(t, 1 + k), Slot(t, 1 + k)) = Moved(View(t), 1 + k)
      /\ Fits(Moved(View(t), 1 + k), e + (1 + k), aTidWinSize[t], winStart[t], got[t])
      /\ SnPlus(t, 1 + k) = Sn(e + (1 + k))
      /\ Cardinality(HeldIn(Replaced(aPaketsQueue, t, Without(t, 1 + k)), TID)) = aPacketsStored - Cardinality(O)
  BY <1>1, <1>4, WindowMoved
<1>10. Fits(From(Without(t, 1 + k), Slot(t, 1 + k)), e + (1 + k), aTidWinSize[t], winStart[t], g2)
  <2>1. got[t] \subseteq g2
    OBVIOUS
  <2>. HIDE DEF k, g2
  <2>. QED  BY <1>9, <2>1, FitsMore
<1>11. /\ aPaketsQueue' = [aPaketsQueue EXCEPT ![t] = Without(t, 1 + k)]
       /\ aWinStartArrayInex' = [aWinStartArrayInex EXCEPT ![t] = Slot(t, 1 + k)]
       /\ aTidExpectedSn' = [aTidExpectedSn EXCEPT ![t] = Sn(e + (1 + k))]
       /\ got' = [got EXCEPT ![t] = g2] /\ last' = [last EXCEPT ![t] = l2]
       /\ UNCHANGED <<aTidBaEstablished, aTidWinSize, winStart>>
       /\ aPacketsStored' = aPacketsStored - k /\ RestartTimer(t) /\ UNCHANGED <<hung, discarded>>
  BY <1>9 DEF ReceiveExpected, Arrives, MoveWindow, PassPackets
<1>12. TidsTyped' /\ \A u \in TID : Tid(u)'
  <2>1. e + (1 + k) \in Int /\ e + (1 + k) >= e /\ g2 \in SUBSET Nat
    <3>. HIDE DEF k
    <3>. QED  BY <1>2, <1>3, <1>4
  <2>. HIDE DEF k, l2, g2
  <2>. QED  BY <1>1, <1>6, <1>7, <1>9, <1>10, <1>11, <2>1, SessionMoves
<1>13. TimerTyped'
  BY <1>11, TimerTypedKept DEF Parts
<1>. HIDE DEF k, O
<1>14. aPacketsStored' = Cardinality(HeldIn(aPaketsQueue', TID))
  <2>1. aPaketsQueue' = Replaced(aPaketsQueue, t, Without(t, 1 + k))
    BY <1>11 DEF Replaced
  <2>. QED  BY <1>8, <1>9, <1>11, <2>1
<1>. QED  BY <1>11, <1>12, <1>13, <1>14 DEF Parts

-----------------------------------------------------------------------------
(* The array and the number stay.                                          *)
LEMMA SessionStays ==
    ASSUME Parts, NEW t \in TID, aTidBaEstablished[t], NEW e \in Int, Session(t, e),
           NEW a2 \in [Index -> Packets], NEW l2 \in Int, NEW g2 \in SUBSET Nat,
           aPaketsQueue' = [aPaketsQueue EXCEPT ![t] = a2],
           UNCHANGED <<aWinStartArrayInex, aTidExpectedSn, aTidBaEstablished, aTidWinSize, winStart>>,
           got' = [got EXCEPT ![t] = g2], last' = [last EXCEPT ![t] = l2],
           l2 >= -1, l2 < e,
           Fits(From(a2, aWinStartArrayInex[t]), e, aTidWinSize[t], winStart[t], g2)
    PROVE  TidsTyped' /\ \A u \in TID : Tid(u)'
<1>1. aWinStartArrayInex[t] \in Index /\ aTidExpectedSn[t] = Sn(e) /\ e >= e /\ e <= winStart[t] + aTidWinSize[t]
  BY PartsFacts DEF Session
<1>2. /\ aWinStartArrayInex' = [aWinStartArrayInex EXCEPT ![t] = aWinStartArrayInex[t]]
      /\ aTidExpectedSn' = [aTidExpectedSn EXCEPT ![t] = Sn(e)]
  BY <1>1 DEF Parts, TidsTyped
<1>. QED  BY <1>1, <1>2, SessionMoves

LEMMA LateStep ==
    ASSUME Parts, NEW t \in TID, aTidBaEstablished[t], NEW n, Arrives(t, n), ReceiveLate(t, n)
    PROVE  Parts'
<1>1. PICK e \in Int : Session(t, e)
  BY PartsFacts DEF Tid
<1>2. /\ TypeOK /\ aTidWinSize[t] \in Int /\ winStart[t] \in Int /\ last[t] \in Int /\ last[t] >= -1 /\ last[t] < e
      /\ aPaketsQueue[t] \in [Index -> Packets] /\ got[t] \in SUBSET Nat
  BY <1>1, PartsFacts DEF Session
<1>3. n \in Nat /\ n < e
  <2>1. /\ n \in Nat
        /\ Sn(n) = aTidExpectedSn[t] <=> n = e
        /\ Bigger(Sn(n), aTidExpectedSn[t]) <=> n > e
    BY <1>1, <1>2, Relative DEF Arrives
  <2>. QED  BY <2>1 DEF ReceiveLate
<1>. DEFINE l2 == IF n > last[t] THEN n ELSE last[t]
            g2 == got[t] \cup {n}
<1>4. l2 \in Int /\ l2 >= -1 /\ l2 < e /\ g2 \in SUBSET Nat /\ got[t] \subseteq g2
  BY <1>2, <1>3
<1>5. Fits(From(aPaketsQueue[t], aWinStartArrayInex[t]), e, aTidWinSize[t], winStart[t], g2)
  <2>1. Fits(View(t), e, aTidWinSize[t], winStart[t], got[t])
    BY <1>1 DEF Session
  <2>. HIDE DEF g2
  <2>. QED  BY <1>4, <2>1, FitsMore DEF View
<1>6. /\ last' = [last EXCEPT ![t] = l2] /\ got' = [got EXCEPT ![t] = g2]
      /\ UNCHANGED <<aWinStartArrayInex, aTidExpectedSn, aTidBaEstablished, aTidWinSize, winStart>>
      /\ UNCHANGED <<aPaketsQueue, timervars, aPacketsStored, discarded, hung>>
  BY DEF ReceiveLate, Arrives, tidvars
<1>7. aPaketsQueue' = [aPaketsQueue EXCEPT ![t] = aPaketsQueue[t]]
  BY <1>6, PartsFacts DEF Queues
<1>8. TidsTyped' /\ \A u \in TID : Tid(u)'
  <2>. HIDE DEF l2, g2
  <2>. QED  BY <1>1, <1>2, <1>4, <1>5, <1>6, <1>7, SessionStays
<1>9. TimerTyped'
  BY <1>6, TimerTypedKept DEF Parts
<1>. QED  BY <1>6, <1>8, <1>9 DEF Parts

(* A packet put in an empty slot of the window.                            *)
LEMMA PacketStored ==
    ASSUME NEW q \in Queues, NEW t \in TID, NEW s \in Index, NEW d \in Index, NEW n \in Nat,
           From(q[t], s)[d] = None
    PROVE  /\ [q[t] EXCEPT ![Place(s, d)] = n] \in [Index -> Packets]
           /\ From([q[t] EXCEPT ![Place(s, d)] = n], s) = [From(q[t], s) EXCEPT ![d] = n]
           /\ Cardinality(HeldIn(Replaced(q, t, [q[t] EXCEPT ![Place(s, d)] = n]), TID))
                 = Cardinality(HeldIn(q, TID)) + 1
<1>1. q[t] \in [Index -> Packets] /\ n \in Packets /\ s \in Int /\ d \in Int
  BY IndexIs DEF Queues, Packets
<1>2. Place(s, d) \in Index /\ q[t][Place(s, d)] = None
  BY <1>1, PlaceIn, FromTyped
<1>3. [q[t] EXCEPT ![Place(s, d)] = n] \in [Index -> Packets]
  BY <1>1, <1>2
<1>4. From([q[t] EXCEPT ![Place(s, d)] = n], s) = [From(q[t], s) EXCEPT ![d] = n]
  BY <1>1, ViewStored
<1>5. Cardinality(HeldIn([q EXCEPT ![t][Place(s, d)] = n], TID)) = Cardinality(HeldIn(q, TID)) + 1
  BY <1>2, HeldStored
<1>6. [q EXCEPT ![t][Place(s, d)] = n] = Replaced(q, t, [q[t] EXCEPT ![Place(s, d)] = n])
  BY DEF Replaced
<1>. QED  BY <1>3, <1>4, <1>5, <1>6

LEMMA InWindowStep ==
    ASSUME Parts, NEW t \in TID, aTidBaEstablished[t], NEW n, Arrives(t, n), ReceiveInWindow(t, n)
    PROVE  Parts'
<1>1. PICK e \in Int : Session(t, e)
  BY PartsFacts DEF Tid
<1>2. /\ TypeOK /\ aTidWinSize[t] \in 1..ArraySize /\ winStart[t] \in Int /\ last[t] \in Int /\ last[t] >= -1
      /\ last[t] < e /\ aPaketsQueue \in Queues /\ got[t] \in SUBSET Nat /\ aWinStartArrayInex[t] \in Index
      /\ aTidWinSize[t] \in Int
  BY <1>1, PartsFacts DEF Session
<1>. DEFINE d  == n - e
            s  == aWinStartArrayInex[t]
            a2 == [aPaketsQueue[t] EXCEPT ![Place(s, d)] = n]
            g2 == got[t] \cup {n}
<1>3. /\ n \in Nat /\ n <= winStart[t] + aTidWinSize[t] - 1 /\ SaveOffset(t, n) = d
      /\ d \in 1..(aTidWinSize[t] - 1) /\ d \in Index /\ e + d = n
  <2>1. /\ n \in Nat /\ n <= winStart[t] + aTidWinSize[t] - 1
        /\ Bigger(Sn(n), aTidExpectedSn[t]) <=> n > e
        /\ n > e => (Bigger(Sn(n), WinEnd(t)) <=>
                        n - e >= aTidWinSize[t] \/ (n - e = aTidWinSize[t] - 1 /\ WinEnd(t) >= SnMod))
        /\ n > e => SaveOffset(t, n) = n - e
    BY <1>1, <1>2, Relative DEF Arrives
  <2>2. n > e /\ ~(n - e >= aTidWinSize[t]) /\ SaveOffset(t, n) = d
    BY <2>1 DEF ReceiveInWindow
  <2>. QED  BY <1>2, <2>1, <2>2, IndexIs, Sizes
<1>4. At(t, d) = None /\ View(t)[d] = None
  BY <1>1, <1>2, <1>3, NotStored DEF Arrives
<1>5. /\ aPaketsQueue' = Replaced(aPaketsQueue, t, a2)
      /\ aPaketsQueue' = [aPaketsQueue EXCEPT ![t] = a2]
      /\ aPacketsStored' = aPacketsStored + 1
      /\ UNCHANGED timervars \/ StartTimer(t)
      /\ got' = [got EXCEPT ![t] = g2]
      /\ UNCHANGED <<aWinStartArrayInex, aTidExpectedSn, aTidBaEstablished, aTidWinSize, winStart>>
      /\ UNCHANGED <<last, discarded, hung>>
  <2>1. Slot(t, d) = Place(s, d)
    BY SlotIs
  <2>2. aPaketsQueue' = [aPaketsQueue EXCEPT ![t][Place(s, d)] = n]
    <3>1. aPaketsQueue' = [aPaketsQueue EXCEPT ![t][Slot(t, SaveOffset(t, n))] = n]
      BY <1>3, <1>4 DEF ReceiveInWindow
    <3>. QED  BY <1>3, <2>1, <3>1
  <2>3. aPaketsQueue' = [aPaketsQueue EXCEPT ![t] = a2]
    BY <2>2
  <2>. QED  BY <1>3, <1>4, <2>3 DEF ReceiveInWindow, Arrives, Replaced
<1>6. /\ a2 \in [Index -> Packets]
      /\ From(a2, s) = [View(t) EXCEPT ![d] = n]
      /\ Cardinality(HeldIn(Replaced(aPaketsQueue, t, a2), TID)) = Cardinality(HeldIn(aPaketsQueue, TID)) + 1
  BY <1>2, <1>3, <1>4, PacketStored DEF View
<1>7. Fits(From(a2, s), e, aTidWinSize[t], winStart[t], g2)
  <2>1. View(t) \in [Index -> Packets]
    BY <1>2, FromTyped DEF View, Queues
  <2>2. Fits(View(t), e, aTidWinSize[t], winStart[t], g2)
    <3>1. Fits(View(t), e, aTidWinSize[t], winStart[t], got[t]) /\ got[t] \subseteq g2
      BY <1>1 DEF Session
    <3>. HIDE DEF g2
    <3>. QED  BY <3>1, FitsMore
  <2>3. e + d <= winStart[t] + aTidWinSize[t] - 1 /\ e + d \in g2
    BY <1>3
  <2>4. Fits([View(t) EXCEPT ![d] = e + d], e, aTidWinSize[t], winStart[t], g2)
    <3>. HIDE DEF d, g2
    <3>. QED  BY <1>2, <1>3, <2>1, <2>2, <2>3, FitsStored
  <2>. QED  BY <1>3, <1>6, <2>4
<1>8. TidsTyped' /\ \A u \in TID : Tid(u)'
  <2>1. last' = [last EXCEPT ![t] = last[t]]
    BY <1>5 DEF Parts, TidsTyped
  <2>2. g2 \in SUBSET Nat
    BY <1>2, <1>3
  <2>. HIDE DEF g2, a2
  <2>. QED  BY <1>1, <1>2, <1>5, <1>6, <1>7, <2>1, <2>2, SessionStays
<1>9. TimerTyped'
  BY <1>5, TimerTypedKept DEF Parts
<1>. HIDE DEF a2
<1>. QED  BY <1>5, <1>6, <1>8, <1>9 DEF Parts

-----------------------------------------------------------------------------
(* How far the window moves for a packet d beyond the expected one: by one *)
(* and, if d exceeds it, by the excess, but by not more than all of it.    *)
LEMMA ShiftIs ==
    ASSUME TypeOK, NEW t \in TID, NEW e \in Int, Session(t, e), NEW n \in Int,
           n - e <= MaxAhead - 1, n - e >= aTidWinSize[t] - 1
    PROVE  /\ NewWinStartSn(t, n) = Sn(n + 1 - aTidWinSize[t])
           /\ n - e <= aTidWinSize[t] => Shift(t, n) = 0
           /\ n - e > aTidWinSize[t] /\ n - e < 2 * aTidWinSize[t] => Shift(t, n) = n - e - aTidWinSize[t]
           /\ n - e > aTidWinSize[t] /\ n - e >= 2 * aTidWinSize[t] => Shift(t, n) = aTidWinSize[t]
<1>. DEFINE w == aTidWinSize[t]
            c == n - e - w
<1>1. /\ w \in 1..ArraySize /\ w \in Int /\ aTidExpectedSn[t] = Sn(e) /\ c \in Int
      /\ c >= -1 /\ c <= Half - 3 - w
  <2>1. w \in 1..ArraySize /\ w \in Int /\ aTidExpectedSn[t] = Sn(e)
    BY TidTypes DEF Session
  <2>. HIDE DEF w
  <2>. QED  BY <2>1, Sizes DEF w
<1>2. NewWinStartSn(t, n) = Sn(n + 1 - w)
  <2>1. (Sn(n) + (1 - w)) % SnMod = Sn(n + (1 - w))
    <3>1. 1 - w \in Int
      BY <1>1
    <3>. HIDE DEF w
    <3>. QED  BY <3>1, SnAdds
  <2>2. Sn(n) + (1 - w) = Sn(n) - w + 1 /\ n + (1 - w) = n + 1 - w
    BY <1>1, SnRange
  <2>. QED  BY <2>1, <2>2 DEF NewWinStartSn
<1>3. SnPlus(t, 1) = Sn(e + 1)
  BY <1>1, SnAdds DEF SnPlus
<1>4. Bigger(Sn(n + 1 - w), Sn(e + 1)) <=> c > 0
  <2>1. /\ n + 1 - w \in Int /\ e + 1 \in Int
        /\ (n + 1 - w) - (e + 1) <= Half - 2 /\ (e + 1) - (n + 1 - w) <= Half
        /\ n + 1 - w > e + 1 <=> c > 0
    <3>1. (n + 1 - w) - (e + 1) = c /\ (e + 1) - (n + 1 - w) = -c
      BY <1>1
    <3>. QED  BY <1>1, <3>1, Sizes
  <2>. HIDE DEF c
  <2>. QED  BY <2>1, BiggerIs
<1>5. CASE c > 0
  <2>1. (Sn(n + 1 - w) - Sn(e + 1)) % SnMod = c
    <3>1. /\ n + 1 - w \in Int /\ e + 1 \in Int /\ (n + 1 - w) - (e + 1) = c
          /\ n + 1 - w >= e + 1 /\ (n + 1 - w) - (e + 1) < SnMod
      BY <1>1, <1>5, Sizes
    <3>. QED  BY <3>1, SnDistance
  <2>2. Shift(t, n) = Least(c, Least(ArraySize, w))
    BY <1>2, <1>3, <1>4, <1>5, <2>1 DEF Shift
  <2>3. Least(ArraySize, w) = w
    BY <1>1, Sizes DEF Least
  <2>4. (c < w => Shift(t, n) = c) /\ (c >= w => Shift(t, n) = w)
    BY <1>1, <2>2, <2>3 DEF Least
  <2>. QED  BY <1>1, <1>2, <1>5, <2>4
<1>6. CASE ~(c > 0)
  <2>1. Shift(t, n) = 0
    BY <1>2, <1>3, <1>4, <1>6 DEF Shift
  <2>. QED  BY <1>1, <1>2, <1>6, <2>1
<1>. QED  BY <1>5, <1>6

(* ReceiveBeyond in its parts.                                             *)
BeyondAll(t, n) == Shift(t, n) = aTidWinSize[t]
BeyondBy(t, n)  == 1 + Shift(t, n) + (IF BeyondAll(t, n) THEN 0 ELSE Run(t, (1 + Shift(t, n)) % ArraySize))
BeyondSn(t, n)  == IF BeyondAll(t, n) THEN NewWinStartSn(t, n) ELSE SnPlus(t, BeyondBy(t, n))

LEMMA BeyondMoves ==
    ASSUME Parts, NEW t \in TID, NEW e \in Int, Session(t, e), NEW n \in Window(t) \ got[t],
           Bigger(Sn(n), aTidExpectedSn[t]), Bigger(Sn(n), WinEnd(t)),
           NEW k, k = BeyondBy(t, n), NEW v, v = View(t)
    PROVE  /\ k \in 1..(ArraySize + 1) /\ (k >= ArraySize \/ At(t, k) = None)
           /\ \E b \in Int :
                /\ e + k <= b /\ b <= n /\ n - b <= aTidWinSize[t] - 1 /\ BeyondSn(t, n) = Sn(b)
                /\ Fits(Moved(v, k), b, aTidWinSize[t], winStart[t], got[t])
                /\ b = n => \A i \in Index : Moved(v, k)[i] = None
                /\ b # n => Moved(v, k)[n - b] = None
<1>. DEFINE w == aTidWinSize[t]
            d == n - e
<1>1. /\ TypeOK /\ w \in 1..ArraySize /\ w \in Int /\ winStart[t] \in Int /\ ArraySize \in Nat /\ ArraySize >= 1
      /\ v \in [Index -> Packets] /\ Fits(v, e, w, winStart[t], got[t])
      /\ aTidExpectedSn[t] = Sn(e)
  BY PartsFacts, TidTypes, Sizes DEF Session, Packets
<1>2. n \in Nat /\ d \in Int /\ d <= MaxAhead - 1 /\ d > 0 /\ d >= w - 1
  <2>1. /\ n \in Nat /\ n - e <= MaxAhead - 1 /\ n > e
        /\ n - e >= w \/ n - e = w - 1
    BY <1>1, Relative
  <2>. QED  BY <1>1, <2>1, Sizes
<1>3. /\ NewWinStartSn(t, n) = Sn(n + 1 - w)
      /\ d <= w => Shift(t, n) = 0
      /\ d > w /\ d < 2 * w => Shift(t, n) = d - w
      /\ d > w /\ d >= 2 * w => Shift(t, n) = w
  BY <1>1, <1>2, ShiftIs
<1>4. d \in Index => v[d] = None
  BY <1>1, NotStored
<1>5. CASE d > w /\ d >= 2 * w
  <2>1. BeyondAll(t, n) /\ k = 1 + w /\ BeyondSn(t, n) = Sn(n + 1 - w)
    BY <1>1, <1>3, <1>5 DEF BeyondAll, BeyondBy, BeyondSn
  <2>2. k \in 1..(ArraySize + 1) /\ k \in Nat
    BY <1>1, <2>1
  <2>3. k >= ArraySize \/ At(t, k) = None
    <3>. SUFFICES ASSUME k < ArraySize PROVE At(t, k) = None
      BY <1>1, <2>2
    <3>1. k \in 0..ArraySize /\ k \notin 1..(w - 1)
      BY <1>1, <2>1, <2>2
    <3>. QED  BY <1>1, <3>1, AtFits
  <2>4. \A i \in Index : Moved(v, k)[i] = None
    <3>1. k >= w
      BY <1>1, <2>1
    <3>. QED  BY <1>1, <2>2, <3>1, FitsMovedAll
  <2>. DEFINE b == n + 1 - w
  <2>5. b \in Int /\ e + k <= b /\ b <= n /\ n - b <= w - 1 /\ n - b \in Index
    <3>1. b \in Int /\ n - b = w - 1 /\ w - 1 \in Int /\ b <= n
      BY <1>1, <1>2
    <3>2. e + k <= b
      BY <1>1, <1>2, <1>5, <2>1
    <3>3. w - 1 \in Index
      BY <1>1, <3>1, IndexIs
    <3>. QED  BY <3>1, <3>2, <3>3
  <2>6. Fits(Moved(v, k), b, w, winStart[t], got[t])
    BY <2>4, FitsEmpty
  <2>. QED  BY <2>1, <2>2, <2>3, <2>4, <2>5, <2>6
<1>6. CASE ~(d > w /\ d >= 2 * w)
  <2>. DEFINE h == Shift(t, n)
              r == Run(t, (1 + h) % ArraySize)
  <2>1. h \in 0..(w - 1) /\ (d <= w => h = 0) /\ (d > w => h = d - w) /\ h \in Int
    BY <1>1, <1>2, <1>3, <1>6
  <2>2. ~BeyondAll(t, n) /\ k = 1 + h + r /\ BeyondSn(t, n) = SnPlus(t, k)
    BY <1>1, <2>1 DEF BeyondAll, BeyondBy, BeyondSn
  <2>. HIDE DEF h
  <2>3. /\ r \in Nat /\ 1 + h + r <= w
        /\ 1 + h + r < ArraySize => At(t, 1 + h + r) = None
        /\ r > 0 => At(t, h + r) # None
    <3>1. CASE 1 + h < ArraySize
      <4>1. (1 + h) % ArraySize = 1 + h
        <5>1. 1 + h \in 0..(ArraySize - 1) /\ 1 + h \in Int
          BY <1>1, <2>1, <3>1
        <5>. QED  BY <1>1, <5>1, ModNear
      <4>2. /\ r \in 0..(ArraySize - (1 + h))
            /\ \A j \in 0..(r - 1) : At(t, (1 + h) + j) # None
            /\ r < ArraySize - (1 + h) => At(t, (1 + h) + r) = None
        <5>1. 1 + h \in 0..ArraySize
          BY <1>1, <2>1, <3>1
        <5>. QED  BY <4>1, <5>1, RunIs
      <4>. HIDE DEF r
      <4>3. r \in Nat /\ (1 + h) + r = 1 + h + r /\ (1 + h + r < ArraySize => At(t, 1 + h + r) = None)
        BY <1>1, <2>1, <4>2
      <4>4. CASE r = 0
        BY <1>1, <2>1, <4>3, <4>4
      <4>5. CASE r > 0
        <5>1. (1 + h) + (r - 1) = h + r /\ r - 1 \in 0..(r - 1) /\ h + r \in 0..ArraySize
          BY <1>1, <2>1, <4>2, <4>5
        <5>2. At(t, h + r) # None
          BY <4>2, <5>1
        <5>3. h + r \in 1..(w - 1)
          BY <1>1, <5>1, <5>2, AtFits
        <5>. QED  BY <1>1, <2>1, <4>3, <5>2, <5>3
      <4>. QED  BY <4>3, <4>4, <4>5
    <3>2. CASE ~(1 + h < ArraySize)
      <4>1. 1 + h = ArraySize /\ w = ArraySize
        BY <1>1, <2>1, <3>2
      <4>2. (1 + h) % ArraySize = 0
        <5>1. ArraySize = ArraySize * 1 + 0 /\ 0 \in 0..(ArraySize - 1) /\ 1 \in Int /\ ArraySize \in Int
          BY <1>1
        <5>2. ArraySize % ArraySize = 0
          BY <1>1, <5>1, ModIs
        <5>. QED  BY <4>1, <5>2
      <4>3. 0 \in 0..ArraySize
        BY <1>1
      <4>4. At(t, 0) = None
        BY <1>1, <4>3, AtFits
      <4>5. r \in 0..(ArraySize - 0) /\ \A j \in 0..(r - 1) : At(t, 0 + j) # None
        BY <4>2, <4>3, RunIs
      <4>. HIDE DEF r
      <4>6. r = 0
        <5>1. SUFFICES ASSUME r # 0 PROVE FALSE
          OBVIOUS
        <5>2. 0 \in 0..(r - 1) /\ 0 + 0 = 0
          BY <1>1, <4>5, <5>1
        <5>. QED  BY <4>4, <4>5, <5>2
      <4>. QED  BY <1>1, <2>1, <4>1, <4>6
    <3>. QED  BY <3>1, <3>2
  <2>. HIDE DEF r
  <2>4. /\ k \in 1..(ArraySize + 1) /\ k \in Nat /\ k <= w
        /\ k >= ArraySize \/ At(t, k) = None
        /\ k >= 1 + h
    BY <1>1, <2>1, <2>2, <2>3
  <2>5. k <= d
    <3>1. CASE d >= w
      BY <1>1, <1>2, <2>4, <3>1
    <3>2. CASE d < w
      <4>1. d = w - 1 /\ h = 0 /\ d \in Index /\ d \in Int
        BY <1>1, <1>2, <2>1, <3>2, IndexIs
      <4>2. CASE r = 0
        BY <1>1, <1>2, <2>2, <4>1, <4>2
      <4>3. CASE r > 0
        <5>1. At(t, r) # None
          BY <2>1, <2>3, <4>1, <4>3
        <5>2. At(t, d) = None
          BY <1>4, <4>1, AtIs
        <5>3. r # d
          BY <5>1, <5>2
        <5>4. 1 + r <= w /\ k = 1 + r
          BY <2>2, <2>3, <4>1
        <5>. QED  BY <1>1, <1>2, <2>3, <4>1, <5>3, <5>4
      <4>. QED  BY <2>3, <4>2, <4>3
    <3>. QED  BY <1>1, <1>2, <3>1, <3>2
  <2>6. SnPlus(t, k) = Sn(e + k) /\ Fits(Moved(v, k), e + k, w, winStart[t], got[t])
    BY <2>4, WindowMoved
  <2>. DEFINE b == e + k
  <2>7. b \in Int /\ e + k <= b /\ b <= n /\ n - b <= w - 1
    BY <1>1, <1>2, <2>1, <2>4, <2>5
  <2>8. ASSUME b = n PROVE \A i \in Index : Moved(v, k)[i] = None
    <3>1. k = d
      BY <1>2, <2>4, <2>8
    <3>2. k >= w \/ (k = w - 1 /\ v[k] = None) \/ k >= ArraySize
      <4>1. k >= w \/ k = w - 1
        BY <1>1, <1>2, <2>4, <3>1
      <4>2. k = w - 1 => k \in Index
        BY <1>1, <2>4, IndexIs
      <4>. QED  BY <1>4, <3>1, <4>1, <4>2
    <3>. QED  BY <1>1, <2>4, <3>2, FitsMovedAll
  <2>9. ASSUME b # n PROVE Moved(v, k)[n - b] = None
    <3>1. n - b \in Index /\ (n - b) + k = d
      BY <1>1, <1>2, <2>4, <2>5, <2>7, IndexIs
    <3>2. Moved(v, k)[n - b] = IF d < ArraySize THEN v[d] ELSE None
      <4>1. Moved(v, k)[n - b] = IF (n - b) + k < ArraySize THEN v[(n - b) + k] ELSE None
        BY <3>1 DEF Moved
      <4>. QED  BY <3>1, <4>1
    <3>3. d < ArraySize => d \in Index
      BY <1>1, <1>2, IndexIs
    <3>. QED  BY <1>4, <3>2, <3>3
  <2>. QED  BY <2>2, <2>4, <2>6, <2>7, <2>8, <2>9
<1>. QED  BY <1>5, <1>6

-----------------------------------------------------------------------------
(* The offsets that a window moving by k passes are those of the packets   *)
(* stored there.                                                           *)
LEMMA StoredOffsets ==
    ASSUME TypeOK, NEW t \in TID, NEW e \in Int, Session(t, e), NEW i \in {0, 1},
           NEW k \in Nat, k <= ArraySize + 1, k >= i, i = 0 => k <= ArraySize
    PROVE  DOMAIN Stored(t, i, k - i) = Offsets(View(t), k)
<1>1. ArraySize \in Nat /\ ArraySize >= 1 /\ i \in Nat /\ k - i \in Int /\ i + (k - i) - 1 <= ArraySize
  BY Sizes
<1>2. /\ \A x \in Int : x \in DOMAIN Stored(t, i, k - i) <=> i <= x /\ x <= i + (k - i) - 1 /\ At(t, x) # None
      /\ DOMAIN Stored(t, i, k - i) \subseteq 0..ArraySize
  BY <1>1, StoredFits
<1>3. At(t, 0) = None
  <2>1. 0 \in 0..ArraySize
    BY <1>1
  <2>. QED  BY <2>1, AtFits
<1>4. ASSUME NEW x \in DOMAIN Stored(t, i, k - i) PROVE x \in Offsets(View(t), k)
  <2>1. x \in 0..ArraySize /\ x < k /\ At(t, x) # None
    BY <1>1, <1>2
  <2>2. x \in Index
    BY <2>1, AtFits
  <2>. QED  BY <2>1, <2>2, AtIs DEF Offsets
<1>5. ASSUME NEW x \in Offsets(View(t), k) PROVE x \in DOMAIN Stored(t, i, k - i)
  <2>1. x \in Index /\ x < k /\ At(t, x) # None
    BY AtIs DEF Offsets
  <2>2. x \in Int /\ 0 <= x /\ x # 0
    BY <1>3, <2>1, IndexIs
  <2>3. i <= x /\ x <= i + (k - i) - 1
    BY <1>1, <2>1, <2>2
  <2>. QED  BY <1>2, <2>1, <2>2, <2>3
<1>. HIDE DEF Stored
<1>. QED  BY <1>4, <1>5

LEMMA BeyondSays ==
    ASSUME NEW t \in TID, NEW n, ReceiveBeyond(t, n), NEW k, k = BeyondBy(t, n), NEW esn, esn = BeyondSn(t, n)
    PROVE  /\ Bigger(Sn(n), aTidExpectedSn[t]) /\ Bigger(Sn(n), WinEnd(t))
           /\ aWinStartArrayInex' = [aWinStartArrayInex EXCEPT ![t] = Slot(t, k)]
           /\ aTidExpectedSn' = [aTidExpectedSn EXCEPT ![t] = IF esn = Sn(n) THEN (esn + 1) % SnMod ELSE esn]
           /\ aPaketsQueue' = [aPaketsQueue EXCEPT ![t] =
                                  IF esn = Sn(n) THEN Without(t, k)
                                  ELSE [Without(t, k) EXCEPT ![(Slot(t, k) + ((Sn(n) - esn) % SnMod)) % ArraySize] = n]]
           /\ last' = [last EXCEPT ![t] = Passed(last[t], IF esn = Sn(n) THEN With(Stored(t, 1, k - 1), k, n)
                                                                         ELSE Stored(t, 1, k - 1))]
           /\ aPacketsStored' = (aPacketsStored - Cardinality(DOMAIN Stored(t, 1, k - 1)))
                                   + (IF esn = Sn(n) THEN 0 ELSE 1)
           /\ RestartTimer(t)
           /\ UNCHANGED <<aTidBaEstablished, aTidWinSize, discarded>>
BY DEF ReceiveBeyond, BeyondAll, BeyondBy, BeyondSn, PassPackets, Number

LEMMA BeyondStep ==
    ASSUME Parts, NEW t \in TID, aTidBaEstablished[t], NEW n, Arrives(t, n), ReceiveBeyond(t, n)
    PROVE  Parts'
<1>1. PICK e \in Int : Session(t, e)
  BY PartsFacts DEF Tid
<1>. DEFINE w   == aTidWinSize[t]
            k   == BeyondBy(t, n)
            esn == BeyondSn(t, n)
            f   == Stored(t, 1, k - 1)
            a   == Without(t, k)
            s2  == Slot(t, k)
            g2  == got[t] \cup {n}
            q   == Replaced(aPaketsQueue, t, a)
<1>2. /\ TypeOK /\ w \in 1..ArraySize /\ w \in Int /\ winStart[t] \in Int /\ got[t] \in SUBSET Nat
      /\ last[t] \in Int /\ last[t] >= -1 /\ last[t] < e /\ ArraySize \in Nat /\ aPaketsQueue \in Queues
  BY <1>1, PartsFacts, Sizes DEF Session
<1>3. /\ Bigger(Sn(n), aTidExpectedSn[t]) /\ Bigger(Sn(n), WinEnd(t))
      /\ aWinStartArrayInex' = [aWinStartArrayInex EXCEPT ![t] = s2]
      /\ aTidExpectedSn' = [aTidExpectedSn EXCEPT ![t] = IF esn = Sn(n) THEN (esn + 1) % SnMod ELSE esn]
      /\ aPaketsQueue' = [aPaketsQueue EXCEPT ![t] =
                             IF esn = Sn(n) THEN a ELSE [a EXCEPT ![(s2 + ((Sn(n) - esn) % SnMod)) % ArraySize] = n]]
      /\ last' = [last EXCEPT ![t] = Passed(last[t], IF esn = Sn(n) THEN With(f, k, n) ELSE f)]
      /\ aPacketsStored' = (aPacketsStored - Cardinality(DOMAIN f)) + (IF esn = Sn(n) THEN 0 ELSE 1)
      /\ RestartTimer(t)
      /\ UNCHANGED <<aTidBaEstablished, aTidWinSize, discarded>>
  BY BeyondSays
<1>4. n \in Nat /\ n <= winStart[t] + w - 1 /\ n > e /\ n \in Window(t) \ got[t]
  BY <1>1, <1>2, <1>3, Relative DEF Arrives
<1>5. /\ k \in 1..(ArraySize + 1) /\ (k >= ArraySize \/ At(t, k) = None) /\ k \in Nat
      /\ \E b \in Int :
           /\ e + k <= b /\ b <= n /\ n - b <= w - 1 /\ esn = Sn(b)
           /\ Fits(Moved(View(t), k), b, w, winStart[t], got[t])
           /\ b = n => \A i \in Index : Moved(View(t), k)[i] = None
           /\ b # n => Moved(View(t), k)[n - b] = None
  <2>1. /\ k \in 1..(ArraySize + 1) /\ (k >= ArraySize \/ At(t, k) = None)
        /\ \E b \in Int :
             /\ e + k <= b /\ b <= n /\ n - b <= w - 1 /\ esn = Sn(b)
             /\ Fits(Moved(View(t), k), b, w, winStart[t], got[t])
             /\ b = n => \A i \in Index : Moved(View(t), k)[i] = None
             /\ b # n => Moved(View(t), k)[n - b] = None
    BY <1>1, <1>3, <1>4, BeyondMoves
  <2>2. k \in Nat
    <3>. HIDE DEF k
    <3>. QED  BY <1>2, <2>1
  <2>. QED  BY <2>1, <2>2
<1>. HIDE DEF k, esn
<1>6. PICK b \in Int :
           /\ e + k <= b /\ b <= n /\ n - b <= w - 1 /\ esn = Sn(b)
           /\ Fits(Moved(View(t), k), b, w, winStart[t], got[t])
           /\ b = n => \A i \in Index : Moved(View(t), k)[i] = None
           /\ b # n => Moved(View(t), k)[n - b] = None
  BY <1>5
<1>7. /\ a \in [Index -> Packets] /\ s2 \in Index /\ From(a, s2) = Moved(View(t), k) /\ q \in Queues
      /\ Cardinality(Offsets(View(t), k)) \in Nat
      /\ Cardinality(HeldIn(q, TID)) = aPacketsStored - Cardinality(Offsets(View(t), k))
  BY <1>1, <1>5, WindowMoved
<1>8. DOMAIN f = Offsets(View(t), k)
  <2>1. k <= ArraySize + 1 /\ k >= 1
    BY <1>2, <1>5
  <2>. QED  BY <1>1, <1>2, <1>5, <2>1, StoredOffsets
<1>9. /\ k - 1 \in Int /\ 1 + (k - 1) - 1 <= ArraySize /\ 1 \in Nat
      /\ \A x \in DOMAIN f : x \in Int /\ x < k /\ e + x < e + k
  <2>1. \A x \in DOMAIN f : x \in Int /\ x < k
    BY <1>8, IndexIs DEF Offsets
  <2>. HIDE DEF f
  <2>. QED  BY <1>2, <1>5, <2>1
<1>10. esn = Sn(n) <=> b = n
  <2>1. n - b < SnMod /\ b - n < SnMod /\ n \in Int
    BY <1>2, <1>4, <1>6, Sizes
  <2>. QED  BY <1>6, <2>1, SnInjective
<1>11. Fits(Moved(View(t), k), b, w, winStart[t], g2)
  <2>1. got[t] \subseteq g2
    OBVIOUS
  <2>. HIDE DEF g2
  <2>. QED  BY <1>6, <2>1, FitsMore
<1>12. /\ g2 \in SUBSET Nat /\ got' = [got EXCEPT ![t] = g2]
       /\ UNCHANGED <<aTidBaEstablished, aTidWinSize, winStart, hung, discarded>>
  BY <1>2, <1>3, <1>4 DEF Arrives
<1>13. CASE b = n
  <2>. DEFINE l2 == Passed(last[t], With(f, k, n))
  <2>1. l2 \in Int /\ l2 >= -1 /\ l2 < n + 1
    <3>1. \A x \in DOMAIN f : /\ e + x < n + 1 /\ x # k
                              /\ x < k => e + x < n
                              /\ x > k => n < e + x
      <4>. HIDE DEF f
      <4>. QED  BY <1>4, <1>5, <1>6, <1>9, <1>13
    <3>2. k \in 0..(ArraySize + 1) /\ e <= n /\ n < n + 1 /\ n + 1 \in Int /\ n \in Int
      BY <1>2, <1>4, <1>5
    <3>. QED  BY <1>1, <1>9, <3>1, <3>2, PassedWith
  <2>2. Fits(From(a, s2), n + 1, w, winStart[t], g2)
    BY <1>6, <1>7, <1>13, FitsEmpty
  <2>3. /\ aPaketsQueue' = [aPaketsQueue EXCEPT ![t] = a]
        /\ aTidExpectedSn' = [aTidExpectedSn EXCEPT ![t] = Sn(n + 1)]
        /\ last' = [last EXCEPT ![t] = l2]
        /\ aPacketsStored' = aPacketsStored - Cardinality(DOMAIN f) + 0
    <3>1. (esn + 1) % SnMod = Sn(n + 1)
      <4>1. n \in Int /\ 1 \in Int
        BY <1>4
      <4>. QED  BY <1>6, <1>13, <4>1, SnAdds
    <3>. QED  BY <1>3, <1>10, <1>13, <3>1
  <2>4. TidsTyped' /\ \A u \in TID : Tid(u)'
    <3>1. n + 1 \in Int /\ n + 1 >= e /\ n + 1 <= winStart[t] + w
      BY <1>2, <1>4
    <3>. HIDE DEF l2, g2, a, s2
    <3>. QED  BY <1>1, <1>3, <1>7, <1>12, <2>1, <2>2, <2>3, <3>1, SessionMoves
  <2>5. aPacketsStored' = Cardinality(HeldIn(aPaketsQueue', TID))
    <3>1. aPaketsQueue' = q
      BY <2>3 DEF Replaced
    <3>2. aPacketsStored \in Nat
      BY <1>2 DEF TypeOK
    <3>. DEFINE c == Cardinality(DOMAIN f)
    <3>3. c \in Nat /\ Cardinality(HeldIn(q, TID)) = aPacketsStored - c /\ aPacketsStored' = aPacketsStored - c + 0
      BY <1>7, <1>8, <2>3
    <3>. HIDE DEF q, c
    <3>. QED  BY <3>1, <3>2, <3>3
  <2>6. TimerTyped'
    BY <1>3, TimerTypedKept DEF Parts
  <2>. QED  BY <1>12, <2>4, <2>5, <2>6 DEF Parts
<1>14. CASE b # n
  <2>. DEFINE d  == n - b
              a2 == [a EXCEPT ![Place(s2, d)] = n]
              l2 == Passed(last[t], f)
  <2>1. d \in Int /\ d \in 1..(w - 1) /\ d \in Index /\ b + d = n
    BY <1>2, <1>4, <1>6, <1>14, IndexIs
  <2>2. l2 \in Int /\ l2 >= -1 /\ l2 < b
    <3>1. last[t] < b /\ \A x \in DOMAIN f : e + x < b
      <4>. HIDE DEF f
      <4>. QED  BY <1>2, <1>5, <1>6, <1>9
    <3>. QED  BY <1>1, <1>9, <3>1, PassedFits
  <2>3. /\ a2 \in [Index -> Packets] /\ From(a2, s2) = [Moved(View(t), k) EXCEPT ![d] = n]
        /\ Cardinality(HeldIn(Replaced(q, t, a2), TID)) = Cardinality(HeldIn(q, TID)) + 1
    <3>1. q[t] = a
      BY <1>2 DEF Replaced, Queues
    <3>2. From(q[t], s2)[d] = None
      BY <1>6, <1>7, <1>14, <3>1
    <3>3. /\ [q[t] EXCEPT ![Place(s2, d)] = n] \in [Index -> Packets]
          /\ From([q[t] EXCEPT ![Place(s2, d)] = n], s2) = [From(q[t], s2) EXCEPT ![d] = n]
          /\ Cardinality(HeldIn(Replaced(q, t, [q[t] EXCEPT ![Place(s2, d)] = n]), TID))
                = Cardinality(HeldIn(q, TID)) + 1
      <4>. HIDE DEF q, d, s2
      <4>. QED  BY <1>4, <1>7, <2>1, <3>2, PacketStored
    <3>. QED  BY <1>7, <3>1, <3>3
  <2>4. Fits(From(a2, s2), b, w, winStart[t], g2)
    <3>1. b + d <= winStart[t] + w - 1 /\ b + d \in g2
      BY <1>4, <2>1
    <3>2. From(a, s2) \in [Index -> Packets]
      BY <1>7, FromTyped
    <3>3. Fits([Moved(View(t), k) EXCEPT ![d] = b + d], b, w, winStart[t], g2)
      <4>. HIDE DEF d, g2
      <4>. QED  BY <1>2, <1>7, <1>11, <2>1, <3>1, <3>2, FitsStored
    <3>. QED  BY <2>1, <2>3, <3>3
  <2>5. (s2 + ((Sn(n) - esn) % SnMod)) % ArraySize = Place(s2, d)
    <3>1. (Sn(n) - Sn(b)) % SnMod = n - b
      <4>1. n \in Int /\ n >= b /\ n - b < SnMod
        BY <1>2, <1>4, <1>6, Sizes
      <4>. QED  BY <4>1, SnDistance
    <3>. QED  BY <1>6, <3>1 DEF Place
  <2>6. /\ aPaketsQueue' = [aPaketsQueue EXCEPT ![t] = a2]
        /\ aTidExpectedSn' = [aTidExpectedSn EXCEPT ![t] = Sn(b)]
        /\ last' = [last EXCEPT ![t] = l2]
        /\ aPacketsStored' = aPacketsStored - Cardinality(DOMAIN f) + 1
    BY <1>3, <1>6, <1>10, <1>14, <2>5
  <2>7. TidsTyped' /\ \A u \in TID : Tid(u)'
    <3>1. b >= e /\ b <= winStart[t] + w
      BY <1>2, <1>4, <1>5, <1>6
    <3>. HIDE DEF l2, g2, a2, s2
    <3>. QED  BY <1>1, <1>3, <1>7, <1>12, <2>2, <2>3, <2>4, <2>6, <3>1, SessionMoves
  <2>8. aPacketsStored' = Cardinality(HeldIn(aPaketsQueue', TID))
    <3>1. aPaketsQueue' = Replaced(q, t, a2)
      <4>. HIDE DEF a2, a
      <4>. QED  BY <1>2, <2>6 DEF Replaced, Queues
    <3>2. aPacketsStored \in Nat
      BY <1>2 DEF TypeOK
    <3>. HIDE DEF q, f, a2
    <3>. QED  BY <1>7, <1>8, <2>3, <2>6, <3>1, <3>2
  <2>9. TimerTyped'
    BY <1>3, TimerTypedKept DEF Parts
  <2>. QED  BY <1>12, <2>7, <2>8, <2>9 DEF Parts
<1>. QED  BY <1>13, <1>14

-----------------------------------------------------------------------------
(* A difference of two remainders, taken modulo a larger number: what it   *)
(* is modulo m, or close below the larger number.                          *)
LEMMA WideDistance ==
    ASSUME NEW m \in Nat, m > 0, NEW w \in Nat, m <= w, NEW y \in (-m)..(m - 1)
    PROVE  y % w = y % m \/ y % w \in (w - m)..(w - 1)
<1>1. y \in Int /\ w > 0
  OBVIOUS
<1>2. CASE y \in 0..(m - 1)
  <2>1. y \in 0..(w - 1)
    BY <1>2
  <2>2. y % w = y
    BY <1>1, <2>1, ModNear
  <2>3. y % m = y
    BY <1>1, <1>2, ModNear
  <2>. QED  BY <2>2, <2>3
<1>3. CASE y \in (-m)..(-1)
  <2>1. y \in (-w)..(-1)
    BY <1>3
  <2>2. y % w = y + w
    BY <1>1, <2>1, ModNear
  <2>. QED  BY <1>3, <2>2
<1>. QED  BY <1>2, <1>3

(* A BAR that is tidy passes what lies before the peer's window, or the    *)
(* whole array.                                                            *)
LEMMA BarMoves ==
    ASSUME TypeOK, NEW t \in TID, NEW e \in Int, Session(t, e),
           Bigger(Sn(winStart[t]), aTidExpectedSn[t]), TidyBar(t)
    PROVE  /\ winStart[t] > e
           /\ BarRounds(t) \in 0..ArraySize
           /\ BarRounds(t) = ArraySize \/ (e + BarRounds(t) = winStart[t] /\ At(t, BarRounds(t)) = None)
<1>. DEFINE D == winStart[t] - e
            c == Least(Delta(t), ArraySize)
            r == Run(t, c)
<1>1. /\ aTidWinSize[t] \in 1..ArraySize /\ aTidWinSize[t] \in Int /\ winStart[t] \in Int /\ D \in Int
      /\ e <= winStart[t] + aTidWinSize[t] /\ winStart[t] + aTidWinSize[t] <= e + MaxAhead
      /\ aTidExpectedSn[t] = Sn(e) /\ ArraySize \in Nat /\ ArraySize >= 1
  BY TidTypes, Sizes DEF Session
<1>2. D > 0 /\ D < SnMod
  <2>1. winStart[t] - e <= Half - 2 /\ e - winStart[t] <= Half
    BY <1>1, Sizes
  <2>2. winStart[t] > e
    BY <1>1, <2>1, BiggerIs
  <2>. QED  BY <1>1, <2>1, <2>2, Sizes
<1>3. c \in 0..ArraySize /\ (c = ArraySize \/ c = D)
  <2>. DEFINE y == Sn(winStart[t]) - Sn(e)
  <2>1. y \in (-SnMod)..(SnMod - 1) /\ y % SnMod = D
    <3>1. (Sn(winStart[t]) - Sn(e)) % SnMod = D
      BY <1>1, <1>2, SnDistance
    <3>2. Sn(winStart[t]) \in 0..(SnMod - 1) /\ Sn(e) \in 0..(SnMod - 1)
      BY <1>1, SnRange
    <3>3. SnMod \in Nat
      BY Sizes
    <3>. QED  BY <3>1, <3>2, <3>3
  <2>2. Delta(t) = y % 65536
    BY <1>1 DEF Delta
  <2>. HIDE DEF y, D
  <2>3. Delta(t) = D \/ Delta(t) \in (65536 - SnMod)..(65536 - 1)
    <3>1. SnMod \in Nat /\ SnMod > 0 /\ SnMod <= 65536 /\ 65536 \in Nat
      BY Sizes
    <3>2. y % 65536 = y % SnMod \/ y % 65536 \in (65536 - SnMod)..(65536 - 1)
      BY <2>1, <3>1, WideDistance
    <3>. QED  BY <2>1, <2>2, <3>2
  <2>4. ArraySize <= 65536 - SnMod /\ SnMod \in Nat
    BY Sizes
  <2>. QED  BY <1>1, <1>2, <2>3, <2>4 DEF Least
<1>. HIDE DEF c
<1>4. /\ r \in 0..(ArraySize - c)
      /\ \A j \in 0..(r - 1) : At(t, c + j) # None
      /\ r < ArraySize - c => At(t, c + r) = None
  BY <1>3, RunIs
<1>5. BarRounds(t) = c + r
  BY DEF BarRounds, c
<1>. HIDE DEF r
<1>6. r \in Nat /\ c \in Int
  BY <1>1, <1>3, <1>4
<1>7. CASE c = ArraySize
  <2>1. BarRounds(t) = ArraySize
    BY <1>1, <1>4, <1>5, <1>6, <1>7
  <2>. QED  BY <1>1, <1>2, <2>1
<1>8. CASE c # ArraySize
  <2>1. c = D /\ c < ArraySize
    BY <1>1, <1>3, <1>6, <1>8
  <2>2. r = 0
    <3>. SUFFICES ASSUME r # 0 PROVE FALSE
      OBVIOUS
    <3>1. 0 \in 0..(r - 1) /\ c + 0 = c /\ c \in 0..(BarRounds(t) - 1)
      BY <1>3, <1>5, <1>6
    <3>2. At(t, c) # None
      BY <1>4, <3>1
    <3>3. At(t, c) < winStart[t]
      BY <3>1, <3>2 DEF TidyBar
    <3>4. At(t, c) = e + c
      BY <1>3, <3>2, AtFits
    <3>. QED  BY <1>1, <2>1, <3>3, <3>4
  <2>3. At(t, c) = None
    <3>1. c + 0 = c /\ 0 < ArraySize - c
      BY <1>1, <1>6, <2>1
    <3>. QED  BY <1>4, <2>2, <3>1
  <2>. QED  BY <1>1, <1>2, <1>3, <1>5, <1>6, <2>1, <2>2, <2>3
<1>. QED  BY <1>7, <1>8

LEMMA BarStep ==
    ASSUME Parts, NEW t \in TID, ReceiveBar(t), UntidyBars = FALSE
    PROVE  Parts'
<1>0. aTidBaEstablished[t] /\ TidyBar(t) /\ Bigger(Sn(winStart[t]), aTidExpectedSn[t])
  BY DEF ReceiveBar
<1>1. PICK e \in Int : Session(t, e)
  BY <1>0, PartsFacts DEF Tid
<1>. DEFINE w  == aTidWinSize[t]
            k  == BarRounds(t)
            f  == Stored(t, 0, k)
            a  == Without(t, k)
            s2 == Slot(t, k)
            l2 == Passed(last[t], f)
            q  == Replaced(aPaketsQueue, t, a)
<1>2. /\ TypeOK /\ w \in 1..ArraySize /\ w \in Int /\ winStart[t] \in Int /\ got[t] \in SUBSET Nat
      /\ last[t] \in Int /\ last[t] < e /\ ArraySize \in Nat /\ aPacketsStored \in Nat
      /\ got = [got EXCEPT ![t] = got[t]]
  BY <1>1, PartsFacts, Sizes DEF Session, TypeOK
<1>3. /\ winStart[t] > e /\ k \in 0..ArraySize
      /\ k = ArraySize \/ (e + k = winStart[t] /\ At(t, k) = None)
  BY <1>0, <1>1, <1>2, BarMoves
<1>4. /\ aPaketsQueue' = [aPaketsQueue EXCEPT ![t] = a]
      /\ aWinStartArrayInex' = [aWinStartArrayInex EXCEPT ![t] = s2]
      /\ aTidExpectedSn' = [aTidExpectedSn EXCEPT ![t] = Sn(winStart[t])]
      /\ last' = [last EXCEPT ![t] = l2]
      /\ aPacketsStored' = aPacketsStored - Cardinality(DOMAIN f)
      /\ RestartTimer(t)
      /\ UNCHANGED <<aTidBaEstablished, aTidWinSize, hung, winStart, got, discarded>>
  BY DEF ReceiveBar, PassPackets, Number, BarMovesTo, peervars
<1>5. \A i \in 0..(k - 1) : At(t, i) # None => At(t, i) < winStart[t]
  BY <1>0 DEF TidyBar
<1>. HIDE DEF k
<1>6. k \in Nat /\ k <= ArraySize /\ k <= ArraySize + 1 /\ (k >= ArraySize \/ At(t, k) = None) /\ k - 0 = k
  BY <1>2, <1>3
<1>7. /\ a \in [Index -> Packets] /\ s2 \in Index /\ From(a, s2) = Moved(View(t), k)
      /\ Fits(Moved(View(t), k), e + k, w, winStart[t], got[t])
      /\ Cardinality(Offsets(View(t), k)) \in Nat
      /\ Cardinality(HeldIn(q, TID)) = aPacketsStored - Cardinality(Offsets(View(t), k))
  BY <1>1, <1>6, WindowMoved
<1>8. DOMAIN f = Offsets(View(t), k)
  <2>1. 0 \in {0, 1} /\ k >= 0
    BY <1>6
  <2>2. DOMAIN Stored(t, 0, k - 0) = Offsets(View(t), k)
    BY <1>1, <1>2, <1>6, <2>1, StoredOffsets
  <2>. QED  BY <1>6, <2>2
<1>9. l2 \in Int /\ l2 >= -1 /\ l2 < winStart[t]
  <2>1. \A x \in DOMAIN f : e + x < winStart[t]
    <3>. SUFFICES ASSUME NEW x \in DOMAIN f PROVE e + x < winStart[t]
      OBVIOUS
    <3>1. x \in Index /\ x < k /\ At(t, x) # None
      BY <1>8, AtIs DEF Offsets
    <3>2. x \in 0..ArraySize /\ x \in 0..(k - 1)
      BY <1>2, <1>6, <3>1, IndexIs
    <3>3. At(t, x) = e + x
      BY <1>1, <1>2, <3>1, <3>2, AtFits
    <3>. QED  BY <1>5, <3>1, <3>2, <3>3
  <2>2. 0 \in Nat /\ k \in Int /\ 0 + k - 1 <= ArraySize /\ last[t] < winStart[t]
    BY <1>2, <1>3, <1>6
  <2>. QED  BY <1>1, <1>2, <2>1, <2>2, PassedFits
<1>10. Fits(From(a, s2), winStart[t], w, winStart[t], got[t])
  <2>1. CASE k = ArraySize
    <3>1. \A i \in Index : Moved(View(t), k)[i] = None
      <4>1. \A i \in Index : ~(i + k < ArraySize)
        BY <1>2, <2>1, IndexIs
      <4>. QED  BY <4>1 DEF Moved
    <3>. QED  BY <1>7, <3>1, FitsEmpty
  <2>2. CASE e + k = winStart[t]
    BY <1>7, <2>2
  <2>. QED  BY <1>3, <2>1, <2>2
<1>11. TidsTyped' /\ \A u \in TID : Tid(u)'
  <2>1. winStart[t] >= e /\ winStart[t] <= winStart[t] + w /\ got' = [got EXCEPT ![t] = got[t]]
    BY <1>2, <1>3, <1>4
  <2>. HIDE DEF l2, a, s2
  <2>. QED  BY <1>0, <1>1, <1>2, <1>4, <1>7, <1>9, <1>10, <2>1, SessionMoves
<1>12. TimerTyped'
  BY <1>4, TimerTypedKept DEF Parts
<1>13. aPacketsStored' = Cardinality(HeldIn(aPaketsQueue', TID))
  <2>1. aPaketsQueue' = q
    BY <1>4 DEF Replaced
  <2>. QED  BY <1>4, <1>7, <1>8, <2>1
<1>. QED  BY <1>4, <1>11, <1>12, <1>13 DEF Parts

LEMMA AddBaStep ==
    ASSUME Parts, NEW t \in TID, ReceiveAddBa(t)
    PROVE  Parts'
<1>. DEFINE empty == [i \in Index |-> None]
<1>1. PICK w \in WinSizes : aTidWinSize' = [aTidWinSize EXCEPT ![t] = Least(w, ArraySize)]
  BY DEF ReceiveAddBa
<1>2. /\ ~aTidBaEstablished[t]
      /\ aTidBaEstablished' = [aTidBaEstablished EXCEPT ![t] = TRUE]
      /\ aTidExpectedSn' = [aTidExpectedSn EXCEPT ![t] = Sn(winStart[t])]
      /\ aWinStartArrayInex' = [aWinStartArrayInex EXCEPT ![t] = 0]
      /\ aPaketsQueue' = [aPaketsQueue EXCEPT ![t] = empty]
      /\ last' = [last EXCEPT ![t] = winStart[t] - 1]
      /\ got' = [got EXCEPT ![t] = {}]
      /\ UNCHANGED <<timervars, aPacketsStored, hung, winStart, discarded>>
  BY DEF ReceiveAddBa
<1>. DEFINE v == Least(w, ArraySize)
<1>3. v \in 1..ArraySize /\ v \in Int /\ ArraySize \in Nat /\ ArraySize <= MaxAhead /\ MaxAhead \in Int
  BY RxQueueAssumption, Sizes DEF Least
<1>. HIDE DEF v
<1>4. /\ winStart[t] \in Nat /\ aPaketsQueue \in Queues /\ Vacant(t) /\ 0 \in Index
      /\ Sn(winStart[t]) \in 0..(SnMod - 1)
  BY <1>2, PartsFacts, SnRange, IndexIs, Sizes DEF Tid
<1>5. aPaketsQueue' = aPaketsQueue
  <2>1. aPaketsQueue[t] = empty
    BY <1>4 DEF Queues, Vacant
  <2>. QED  BY <1>2, <1>4, <2>1 DEF Queues
<1>6. TidsTyped'
  <2>1. TidsTyped
    BY DEF Parts
  <2>2. winStart[t] - 1 \in Int /\ v \in 0..ArraySize
    BY <1>3, <1>4
  <2>3. aTidWinSize' = [aTidWinSize EXCEPT ![t] = v]
    BY <1>1 DEF v
  <2>. QED  BY <1>2, <1>4, <1>5, <2>1, <2>2, <2>3 DEF TidsTyped
<1>7. Tid(t)'
  <2>1. /\ aTidWinSize'[t] = v /\ aTidBaEstablished'[t] = TRUE /\ aTidExpectedSn'[t] = Sn(winStart[t])
        /\ last'[t] = winStart[t] - 1 /\ winStart'[t] = winStart[t] /\ got'[t] = {}
    BY <1>1, <1>2 DEF Parts, TidsTyped, v
  <2>2. Fits(View(t)', winStart[t], v, winStart[t], {})
    <3>1. \A i \in Index : View(t)'[i] = None
      <4>1. \A i \in Index : aPaketsQueue'[t][i] = None
        BY <1>4, <1>5 DEF Vacant
      <4>2. \A i \in Index : Place(aWinStartArrayInex'[t], i) \in Index
        <5>1. aWinStartArrayInex'[t] \in Int
          BY <1>6, IndexIs DEF TidsTyped
        <5>. QED  BY <5>1, PlaceIn, IndexIs
      <4>3. View(t)' = [i \in Index |-> aPaketsQueue'[t][Place(aWinStartArrayInex'[t], i)]]
        BY DEF View, From
      <4>. QED  BY <4>1, <4>2, <4>3
    <3>. QED  BY <3>1, FitsEmpty
  <2>3. Session(t, winStart[t])'
    <3>1. /\ winStart[t] <= winStart[t] + v /\ winStart[t] + v <= winStart[t] + MaxAhead
          /\ winStart[t] - 1 < winStart[t] /\ winStart[t] \in Int
      BY <1>3, <1>4
    <3>2. /\ winStart'[t] <= winStart'[t] + aTidWinSize'[t] /\ winStart'[t] + aTidWinSize'[t] <= winStart'[t] + MaxAhead
          /\ last'[t] < winStart'[t] /\ winStart'[t] \in Int
      BY <2>1, <3>1
    <3>. QED  BY <1>3, <2>1, <2>2, <3>2 DEF Session
  <2>4. last'[t] >= -1 /\ winStart'[t] \in Int
    BY <1>4, <2>1
  <2>. QED  BY <2>1, <2>3, <2>4 DEF Tid
<1>8. ASSUME NEW u \in TID, u # t PROVE Tid(u)'
  <2>1. Tid(u)
    BY DEF Parts
  <2>2. /\ aPaketsQueue'[u] = aPaketsQueue[u] /\ aTidBaEstablished'[u] = aTidBaEstablished[u]
        /\ aWinStartArrayInex'[u] = aWinStartArrayInex[u] /\ aTidWinSize'[u] = aTidWinSize[u]
        /\ aTidExpectedSn'[u] = aTidExpectedSn[u] /\ winStart'[u] = winStart[u] /\ got'[u] = got[u]
        /\ last'[u] = last[u]
    BY <1>1, <1>2, <1>8 DEF Parts, TidsTyped, Queues
  <2>. QED  BY <2>1, <2>2, TidKept
<1>9. TimerTyped'
  BY <1>2, TimerTypedKept DEF Parts
<1>. QED  BY <1>2, <1>5, <1>6, <1>7, <1>8, <1>9 DEF Parts

-----------------------------------------------------------------------------
(* A session that ends leaves nothing behind.                              *)
LEMMA AllEmptied ==
    ASSUME Parts, NEW t \in TID
    PROVE  /\ Without(t, ArraySize) \in [Index -> Packets]
           /\ \A x \in Index : Without(t, ArraySize)[x] = None
<1>1. /\ aPaketsQueue[t] \in [Index -> Packets] /\ aWinStartArrayInex[t] \in Index /\ ArraySize \in Nat
      /\ Without(t, ArraySize) = Emptied(aPaketsQueue[t], aWinStartArrayInex[t], ArraySize)
  BY PartsFacts, Sizes, WithoutIs
<1>2. ASSUME NEW x \in Index
      PROVE  Emptied(aPaketsQueue[t], aWinStartArrayInex[t], ArraySize)[x] = None
  <2>1. PICK j \in Index : Place(aWinStartArrayInex[t], j) = x
    BY <1>1, PlaceOnto
  <2>2. j < ArraySize
    BY IndexIs
  <2>. QED  BY <1>1, <2>1, <2>2, EmptiedAt
<1>3. Emptied(aPaketsQueue[t], aWinStartArrayInex[t], ArraySize) \in [Index -> Packets]
  BY <1>1, EmptiedTyped
<1>. QED  BY <1>1, <1>2, <1>3

LEMMA AllPassed ==
    ASSUME Parts, NEW t \in TID, aTidBaEstablished[t]
    PROVE  /\ Passed(last[t], Stored(t, 0, ArraySize)) \in Int
           /\ Passed(last[t], Stored(t, 0, ArraySize)) >= -1
<1>1. PICK e \in Int : Session(t, e)
  BY PartsFacts DEF Tid
<1>2. TypeOK /\ last[t] \in Int /\ last[t] < e /\ ArraySize \in Nat
  BY <1>1, PartsFacts, Sizes DEF Session
<1>3. 0 \in Nat /\ ArraySize \in Int /\ 0 + ArraySize - 1 <= ArraySize
  BY <1>2
<1>4. DOMAIN Stored(t, 0, ArraySize) \subseteq 0..ArraySize
  BY <1>1, <1>2, <1>3, StoredFits
<1>. DEFINE b == e + ArraySize + 1
<1>5. b \in Int /\ last[t] < b /\ \A x \in DOMAIN Stored(t, 0, ArraySize) : e + x < b
  <2>. HIDE DEF Stored
  <2>. QED  BY <1>2, <1>4
<1>. HIDE DEF b
<1>. QED  BY <1>1, <1>3, <1>5, PassedFits

LEMMA CloseStep ==
    ASSUME Parts, NEW T \in SUBSET TID, CloseBaSessions(T)
    PROVE  Parts'
<1>. DEFINE Closed == {t \in T : aTidBaEstablished[t]}
<1>1. /\ aTidBaEstablished' = [t \in TID |-> aTidBaEstablished[t] /\ t \notin T]
      /\ aPaketsQueue' = [t \in TID |-> IF t \in Closed THEN Without(t, ArraySize) ELSE aPaketsQueue[t]]
      /\ last' = [t \in TID |-> IF t \in Closed THEN Passed(last[t], Stored(t, 0, ArraySize)) ELSE last[t]]
      /\ aPacketsStored' = aPacketsStored - Cardinality(HeldIn(aPaketsQueue, Closed))
      /\ StopTimer
      /\ UNCHANGED <<aWinStartArrayInex, aTidWinSize, aTidExpectedSn, hung, winStart, got, discarded>>
  BY DEF CloseBaSessions, LeftAfterClose, StoredCount, Held, HeldIn, peervars
<1>2. TidsTyped
  BY DEF Parts
<1>3. \A t \in Closed : t \in TID /\ aTidBaEstablished[t]
  OBVIOUS
<1>. HIDE DEF Closed
<1>4. TidsTyped'
  <2>1. aPaketsQueue' \in Queues
    <3>1. \A t \in TID : Without(t, ArraySize) \in [Index -> Packets]
      BY AllEmptied
    <3>. QED  BY <1>1, <1>2, <3>1 DEF TidsTyped, Queues
  <2>2. last' \in [TID -> Int]
    <3>1. \A t \in Closed : Passed(last[t], Stored(t, 0, ArraySize)) \in Int
      BY <1>3, AllPassed
    <3>. QED  BY <1>1, <1>2, <3>1 DEF TidsTyped
  <2>3. aTidBaEstablished' \in [TID -> BOOLEAN]
    BY <1>1, <1>2 DEF TidsTyped
  <2>. QED  BY <1>1, <1>2, <2>1, <2>2, <2>3 DEF TidsTyped
<1>5. ASSUME NEW u \in TID PROVE Tid(u)'
  <2>0. Tid(u)
    BY DEF Parts
  <2>1. CASE u \in Closed
    <3>1. last'[u] >= -1
      <4>1. last'[u] = Passed(last[u], Stored(u, 0, ArraySize))
        BY <1>1, <2>1
      <4>. QED  BY <1>3, <2>1, <4>1, AllPassed
    <3>2. ~aTidBaEstablished'[u]
      BY <1>1, <2>1 DEF Closed
    <3>3. \A x \in Index : aPaketsQueue'[u][x] = None
      <4>1. aPaketsQueue'[u] = Without(u, ArraySize)
        BY <1>1, <2>1
      <4>. QED  BY <4>1, AllEmptied
    <3>. QED  BY <3>1, <3>2, <3>3 DEF Tid, Vacant
  <2>2. CASE u \notin Closed /\ u \in T
    <3>1. ~aTidBaEstablished[u] /\ ~aTidBaEstablished'[u]
      BY <1>1, <2>2 DEF Closed
    <3>2. last'[u] = last[u] /\ aPaketsQueue'[u] = aPaketsQueue[u]
      BY <1>1, <2>2
    <3>. QED  BY <2>0, <3>1, <3>2 DEF Tid, Vacant
  <2>3. CASE u \notin T
    <3>1. u \notin Closed
      BY <2>3 DEF Closed
    <3>2. /\ aPaketsQueue'[u] = aPaketsQueue[u] /\ last'[u] = last[u]
          /\ aWinStartArrayInex'[u] = aWinStartArrayInex[u] /\ aTidWinSize'[u] = aTidWinSize[u]
          /\ aTidExpectedSn'[u] = aTidExpectedSn[u] /\ winStart'[u] = winStart[u] /\ got'[u] = got[u]
      BY <1>1, <3>1
    <3>3. aTidBaEstablished'[u] = aTidBaEstablished[u]
      BY <1>1, <1>2, <2>3 DEF TidsTyped
    <3>. QED  BY <2>0, <3>2, <3>3, TidKept
  <2>. QED  BY <2>1, <2>2, <2>3
<1>6. aPacketsStored' = Cardinality(HeldIn(aPaketsQueue', TID))
  <2>. DEFINE H == HeldIn(aPaketsQueue, TID)
              C == HeldIn(aPaketsQueue, Closed)
              K == HeldIn(aPaketsQueue', TID)
  <2>1. C \subseteq H
    BY <1>3 DEF HeldIn
  <2>2. K = H \ C
    <3>1. ASSUME NEW u \in TID, NEW x \in Index
          PROVE  <<u, x>> \in K <=> <<u, x>> \in H \ C
      <4>1. <<u, x>> \in K <=> aPaketsQueue'[u][x] # None
        BY DEF HeldIn
      <4>2. <<u, x>> \in H <=> aPaketsQueue[u][x] # None
        BY DEF HeldIn
      <4>3. <<u, x>> \in C <=> u \in Closed /\ aPaketsQueue[u][x] # None
        BY DEF HeldIn
      <4>4. u \in Closed => aPaketsQueue'[u] = Without(u, ArraySize) /\ Without(u, ArraySize)[x] = None
        BY <1>1, AllEmptied
      <4>5. u \notin Closed => aPaketsQueue'[u] = aPaketsQueue[u]
        BY <1>1
      <4>. HIDE DEF H, C, K
      <4>. QED  BY <4>1, <4>2, <4>3, <4>4, <4>5
    <3>2. K \subseteq TID \X Index /\ H \subseteq TID \X Index
      BY DEF HeldIn
    <3>3. \A p \in TID \X Index : \E u \in TID : \E x \in Index : p = <<u, x>>
      OBVIOUS
    <3>. HIDE DEF H, C, K
    <3>4. \A p \in TID \X Index : p \in K <=> p \in H \ C
      BY <3>1, <3>3
    <3>. QED  BY <3>2, <3>4
  <2>3. IsFiniteSet(H)
    BY HeldFinite
  <2>4. Cardinality(H \ C) = Cardinality(H) - Cardinality(H \cap C) /\ H \cap C = C
    BY <2>1, <2>3, FS_Difference
  <2>5. aPacketsStored = Cardinality(H) /\ aPacketsStored' = aPacketsStored - Cardinality(C)
    BY <1>1 DEF Parts
  <2>. QED  BY <2>2, <2>4, <2>5
<1>7. TimerTyped'
  <2>1. PICK t \in TID : TRUE
    BY RxQueueAssumption
  <2>. QED  BY <1>1, <2>1, TimerTypedKept DEF Parts
<1>. QED  BY <1>1, <1>4, <1>5, <1>6, <1>7 DEF Parts

(* The packets of a TID that has some begin at an offset of their own.     *)
LEMMA FirstIs ==
    ASSUME Parts, NEW t \in TID, StoredCount({t}) # 0
    PROVE  /\ FirstStored(t) \in Index /\ At(t, FirstStored(t)) # None
           /\ \A j \in Index : j < FirstStored(t) => At(t, j) = None
<1>1. \E x \in Index : aPaketsQueue[t][x] # None
  <2>. SUFFICES ASSUME \A x \in Index : aPaketsQueue[t][x] = None PROVE FALSE
    OBVIOUS
  <2>1. Held({t}) = {}
    BY DEF Held
  <2>. QED  BY <2>1, FS_EmptySet DEF StoredCount
<1>2. \E i \in Index : At(t, i) # None
  <2>1. PICK x \in Index : aPaketsQueue[t][x] # None
    BY <1>1
  <2>2. aWinStartArrayInex[t] \in Index
    BY PartsFacts
  <2>3. PICK i \in Index : Place(aWinStartArrayInex[t], i) = x
    BY <2>2, PlaceOnto
  <2>. QED  BY <2>1, <2>3, SlotIs DEF At
<1>. DEFINE Some == {i \in Index : At(t, i) # None}
            P(i) == At(t, i) # None /\ \A j \in 0..(i - 1) : At(t, j) = None
<1>3. Some \in SUBSET Nat /\ Some # {}
  BY <1>2, IndexIs
<1>4. PICK i \in Some : \A j \in Some : i <= j
  BY <1>3, Smallest
<1>5. i \in Index /\ P(i)
  <2>1. i \in Index /\ At(t, i) # None
    BY <1>4
  <2>2. ASSUME NEW j \in 0..(i - 1) PROVE At(t, j) = None
    <3>0. i \in Int /\ i < ArraySize /\ ArraySize \in Int
      BY <2>1, IndexIs, Sizes
    <3>1. j \in Index /\ ~(i <= j)
      BY <3>0, IndexIs
    <3>. QED  BY <1>4, <3>1
  <2>. QED  BY <2>1, <2>2
<1>6. FirstStored(t) = CHOOSE x \in Index : P(x)
  BY DEF FirstStored
<1>. HIDE DEF P
<1>7. FirstStored(t) \in Index /\ P(FirstStored(t))
  BY <1>5, <1>6
<1>8. \A j \in Index : j < FirstStored(t) => j \in 0..(FirstStored(t) - 1)
  BY <1>7, IndexIs
<1>. QED  BY <1>7, <1>8 DEF P

LEMMA TimeOutStep ==
    ASSUME Parts, PacketTimeOut
    PROVE  Parts'
<1>. DEFINE t == aFrameTid
<1>1. t \in TID /\ aPacketsStored \in Nat /\ expired' = FALSE /\ UNCHANGED <<winStart, got, discarded>>
  BY HeldFinite DEF PacketTimeOut, Parts, TimerTyped, peervars
<1>2. CASE aPacketsStored = 0 \/ StoredCount({t}) = 0
  <2>1. /\ UNCHANGED <<tidvars, last, aPacketsStored, aFrameTid, ticking>> /\ bPacketMiss' = FALSE
        /\ hung' \in {TRUE, hung}
    BY <1>2 DEF PacketTimeOut
  <2>2. TidsTyped' /\ TimerTyped'
    BY <1>1, <2>1 DEF Parts, TidsTyped, TimerTyped, tidvars
  <2>3. ASSUME NEW u \in TID PROVE Tid(u)'
    BY <1>1, <2>1, TidKept DEF Parts, tidvars
  <2>. QED  BY <1>1, <2>1, <2>2, <2>3 DEF Parts, tidvars
<1>3. CASE aPacketsStored # 0 /\ StoredCount({t}) # 0
  <2>. DEFINE i  == FirstStored(t)
              r  == Run(t, i)
              k  == Least(r, aPacketsStored)
              m  == i + r
              f  == Stored(t, i, r)
              a  == Without(t, m)
              s2 == Slot(t, m)
              l2 == Passed(last[t], f)
              q  == Replaced(aPaketsQueue, t, a)
              O  == Offsets(View(t), m)
  <2>1. /\ i \in Index /\ At(t, i) # None /\ \A j \in Index : j < i => At(t, j) = None
    BY <1>1, <1>3, FirstIs
  <2>2. aTidBaEstablished[t]
    <3>. SUFFICES ASSUME ~aTidBaEstablished[t] PROVE FALSE
      OBVIOUS
    <3>1. Vacant(t)
      BY <1>1, PartsFacts DEF Tid
    <3>2. Slot(t, i) \in Index
      BY <1>1, <2>1, PartsFacts, SlotIs, PlaceIn, IndexIs
    <3>. QED  BY <2>1, <3>1, <3>2 DEF At, Vacant
  <2>3. PICK e \in Int : Session(t, e)
    BY <1>1, <2>2, PartsFacts DEF Tid
  <2>4. /\ TypeOK /\ aTidWinSize[t] \in Int /\ winStart[t] \in Int /\ got[t] \in SUBSET Nat
        /\ last[t] \in Int /\ last[t] < e /\ ArraySize \in Nat /\ i \in Nat /\ i < ArraySize
        /\ got = [got EXCEPT ![t] = got[t]]
    BY <1>1, <2>1, <2>3, PartsFacts, Sizes, IndexIs DEF Session
  <2>5. /\ r \in 0..(ArraySize - i) /\ r \in Nat /\ r >= 1 /\ m \in Nat /\ m <= ArraySize
        /\ \A j \in i..(m - 1) : At(t, j) # None
        /\ m >= ArraySize \/ At(t, m) = None
    <3>1. /\ r \in 0..(ArraySize - i)
          /\ \A j \in 0..(r - 1) : At(t, i + j) # None
          /\ r < ArraySize - i => At(t, i + r) = None
      <4>1. i \in 0..ArraySize
        BY <2>4
      <4>. QED  BY <4>1, RunIs
    <3>. HIDE DEF r, i
    <3>2. r \in Nat /\ m \in Nat /\ m <= ArraySize /\ (m >= ArraySize \/ At(t, m) = None)
      BY <2>4, <3>1
    <3>3. r # 0
      <4>1. r = 0 => i + r = i /\ r < ArraySize - i
        BY <2>4
      <4>. QED  BY <2>1, <3>1, <4>1
    <3>4. ASSUME NEW j \in i..(m - 1) PROVE At(t, j) # None
      <4>1. j - i \in 0..(r - 1) /\ i + (j - i) = j
        BY <2>4, <3>2
      <4>. QED  BY <3>1, <4>1
    <3>. QED  BY <3>1, <3>2, <3>3, <3>4
  <2>6. /\ a \in [Index -> Packets] /\ s2 \in Index /\ From(a, s2) = Moved(View(t), m)
        /\ Fits(Moved(View(t), m), e + m, aTidWinSize[t], winStart[t], got[t])
        /\ SnPlus(t, m) = Sn(e + m) /\ q \in Queues
        /\ Cardinality(HeldIn(q, TID)) = aPacketsStored - Cardinality(O)
    BY <1>1, <2>3, <2>5, WindowMoved
  <2>7. Cardinality(O) = r
    <3>1. O = i..(m - 1)
      <4>. HIDE DEF i, r
      <4>1. \A j \in Index : j < m /\ At(t, j) # None <=> j \in i..(m - 1)
        BY <2>1, <2>4, <2>5, IndexIs
      <4>2. O = {j \in Index : j < m /\ At(t, j) # None}
        BY AtIs DEF Offsets
      <4>3. \A j \in i..(m - 1) : j \in Index
        BY <2>4, <2>5, IndexIs
      <4>. HIDE DEF O, m
      <4>. QED  BY <4>1, <4>2, <4>3
    <3>2. i \in Int /\ m - 1 \in Int /\ ~(i > m - 1) /\ m - 1 - i + 1 = r
      <4>. HIDE DEF i, r
      <4>. QED  BY <2>4, <2>5
    <3>. HIDE DEF O, i, m
    <3>. QED  BY <3>1, <3>2, FS_Interval
  <2>8. k = r
    <3>1. Cardinality(HeldIn(q, TID)) \in Nat
      BY HeldFinite
    <3>. HIDE DEF q, O, r
    <3>2. r <= aPacketsStored
      BY <1>1, <2>5, <2>6, <2>7, <3>1
    <3>. QED  BY <1>1, <2>5, <3>2 DEF Least
  <2>9. /\ aPaketsQueue' = [aPaketsQueue EXCEPT ![t] = a]
        /\ aWinStartArrayInex' = [aWinStartArrayInex EXCEPT ![t] = s2]
        /\ aTidExpectedSn' = [aTidExpectedSn EXCEPT ![t] = Sn(e + m)]
        /\ last' = [last EXCEPT ![t] = l2]
        /\ aPacketsStored' = aPacketsStored - r
        /\ bPacketMiss' = (aPacketsStored' > 0) /\ ticking' = (ticking \/ aPacketsStored' > 0)
        /\ UNCHANGED <<aTidBaEstablished, aTidWinSize, aFrameTid, hung>>
    <3>1. /\ MoveWindow(t, i + k) /\ PassPackets(t, Stored(t, i, k)) /\ aPacketsStored' = aPacketsStored - k
          /\ bPacketMiss' = (aPacketsStored' > 0) /\ ticking' = (ticking \/ aPacketsStored' > 0)
          /\ UNCHANGED <<aFrameTid, hung>>
      BY <1>3 DEF PacketTimeOut
    <3>2. i + k = m /\ Stored(t, i, k) = f
      BY <2>8
    <3>3. MoveWindow(t, m) /\ PassPackets(t, f) /\ aPacketsStored' = aPacketsStored - r
      BY <2>8, <3>1, <3>2
    <3>. HIDE DEF k, m, f
    <3>. QED  BY <2>6, <3>1, <3>3 DEF MoveWindow, PassPackets
  <2>10. l2 \in Int /\ l2 >= -1 /\ l2 < e + m
    <3>. HIDE DEF r, i
    <3>1. i + r - 1 <= ArraySize /\ r \in Int /\ e + m \in Int /\ last[t] < e + m
      BY <2>4, <2>5
    <3>2. \A x \in Int : x \in DOMAIN f <=> i <= x /\ x <= i + r - 1 /\ At(t, x) # None
      BY <1>1, <2>3, <2>4, <3>1, StoredFits
    <3>3. DOMAIN f \subseteq 0..ArraySize
      BY <1>1, <2>3, <2>4, <3>1, StoredFits
    <3>. HIDE DEF f
    <3>4. \A x \in DOMAIN f : e + x < e + m
      BY <2>4, <2>5, <3>2, <3>3
    <3>. QED  BY <1>1, <2>3, <2>4, <3>1, <3>4, PassedFits DEF f
  <2>11. e + m <= winStart[t] + aTidWinSize[t] /\ e + m >= e /\ e + m \in Int
    <3>. HIDE DEF r, i
    <3>1. m - 1 \in i..(m - 1) /\ m - 1 \in 0..ArraySize
      BY <2>4, <2>5
    <3>2. e + (m - 1) <= winStart[t] + aTidWinSize[t] - 1
      BY <1>1, <2>3, <2>4, <2>5, <3>1, AtFits
    <3>. QED  BY <2>4, <2>5, <3>2
  <2>12. TidsTyped' /\ \A u \in TID : Tid(u)'
    <3>1. Fits(From(a, s2), e + m, aTidWinSize[t], winStart[t], got[t])
      BY <2>6
    <3>2. got' = [got EXCEPT ![t] = got[t]] /\ UNCHANGED <<aTidBaEstablished, aTidWinSize, winStart>>
      BY <1>1, <2>4, <2>9
    <3>. HIDE DEF t, l2, a, s2, m
    <3>. QED  BY <1>1, <2>2, <2>3, <2>4, <2>6, <2>9, <2>10, <2>11, <3>1, <3>2, SessionMoves
  <2>13. aPacketsStored' = Cardinality(HeldIn(aPaketsQueue', TID))
    <3>1. aPaketsQueue' = q
      BY <2>9 DEF Replaced
    <3>. QED  BY <2>6, <2>7, <2>9, <3>1
  <2>14. TimerTyped'
    <3>1. bPacketMiss' \in BOOLEAN
      BY <2>9
    <3>2. ticking' \in BOOLEAN
      BY <2>9
    <3>3. aFrameTid' \in TID /\ expired' \in BOOLEAN
      BY <1>1, <2>9
    <3>. QED  BY <3>1, <3>2, <3>3 DEF TimerTyped
  <2>. QED  BY <1>1, <2>9, <2>12, <2>13, <2>14 DEF Parts
<1>. QED  BY <1>2, <1>3

-----------------------------------------------------------------------------
LEMMA PeerStep ==
    ASSUME Parts, NEW t \in TID, PeerAdvances(t)
    PROVE  Parts'
<1>1. /\ winStart' = [winStart EXCEPT ![t] = winStart[t] + 1]
      /\ got' = [got EXCEPT ![t] = got[t] \ {winStart[t]}]
      /\ aTidBaEstablished[t] => winStart[t] + aTidWinSize[t] - Expected(t) < MaxAhead
      /\ UNCHANGED <<tidvars, timervars, aPacketsStored, hung, last, discarded>>
  BY DEF PeerAdvances
<1>2. winStart[t] \in Nat /\ got[t] \in SUBSET Nat /\ Tid(t) /\ TypeOK /\ TidsTyped
  BY PartsFacts DEF Parts
<1>3. TidsTyped'
  BY <1>1, <1>2 DEF TidsTyped, tidvars
<1>4. Tid(t)'
  <2>1. /\ winStart'[t] = winStart[t] + 1 /\ got'[t] = got[t] \ {winStart[t]} /\ last'[t] = last[t]
        /\ UNCHANGED <<aPaketsQueue, aTidBaEstablished, aWinStartArrayInex, aTidWinSize, aTidExpectedSn>>
    BY <1>1, <1>2 DEF TidsTyped, tidvars
  <2>2. CASE aTidBaEstablished[t]
    <3>1. PICK e \in Int : Session(t, e)
      BY <1>2, <2>2 DEF Tid
    <3>2. Expected(t) = e
      BY <1>2, <3>1, ExpectedIs
    <3>3. aTidWinSize[t] \in Int /\ winStart[t] \in Int
      BY <1>2, TidTypes
    <3>4. Fits(View(t), e, aTidWinSize[t], winStart[t] + 1, got[t] \ {winStart[t]})
      <4>1. Fits(View(t), e, aTidWinSize[t], winStart[t], got[t])
        BY <3>1 DEF Session
      <4>. QED  BY <3>3, <4>1, FitsAdvanced
    <3>5. /\ e <= (winStart[t] + 1) + aTidWinSize[t]
          /\ (winStart[t] + 1) + aTidWinSize[t] <= e + MaxAhead
      <4>1. e <= winStart[t] + aTidWinSize[t] /\ winStart[t] + aTidWinSize[t] - e < MaxAhead
        BY <1>1, <2>2, <3>1, <3>2 DEF Session
      <4>. QED  BY <3>3, <4>1, Sizes
    <3>6. View(t)' = View(t)
      BY <2>1 DEF View
    <3>7. Session(t, e)'
      BY <2>1, <3>1, <3>4, <3>5, <3>6 DEF Session
    <3>. QED  BY <1>2, <2>1, <2>2, <3>7 DEF Tid
  <2>3. CASE ~aTidBaEstablished[t]
    BY <1>2, <2>1, <2>3 DEF Tid, Vacant
  <2>. QED  BY <2>2, <2>3
<1>5. ASSUME NEW u \in TID, u # t PROVE Tid(u)'
  <2>1. Tid(u)
    BY DEF Parts
  <2>2. winStart'[u] = winStart[u] /\ got'[u] = got[u]
    BY <1>1, <1>2, <1>5 DEF TidsTyped
  <2>. QED  BY <1>1, <2>1, <2>2, TidKept DEF tidvars
<1>6. TimerTyped'
  BY <1>1, TimerTypedKept DEF Parts
<1>. QED  BY <1>1, <1>3, <1>4, <1>5, <1>6 DEF Parts, tidvars

LEMMA ExpiryStep ==
    ASSUME Parts, TimerExpires
    PROVE  Parts'
<1>1. /\ ticking' = FALSE /\ expired' = TRUE
      /\ UNCHANGED <<tidvars, bPacketMiss, aFrameTid, aPacketsStored, hung, peervars, last, discarded>>
  BY DEF TimerExpires
<1>2. TidsTyped' /\ TimerTyped'
  BY <1>1 DEF Parts, TidsTyped, TimerTyped, tidvars, peervars
<1>3. ASSUME NEW u \in TID PROVE Tid(u)'
  BY <1>1, TidKept DEF Parts, tidvars, peervars
<1>. QED  BY <1>1, <1>2, <1>3 DEF Parts, tidvars

LEMMA StutterStep ==
    ASSUME Parts, UNCHANGED vars
    PROVE  Parts'
<1>1. UNCHANGED <<tidvars, timervars, aPacketsStored, hung, peervars, last, discarded>>
  BY DEF vars
<1>2. TidsTyped' /\ TimerTyped'
  BY <1>1 DEF Parts, TidsTyped, TimerTyped, tidvars, timervars, peervars
<1>3. ASSUME NEW u \in TID PROVE Tid(u)'
  BY <1>1, TidKept DEF Parts, tidvars, peervars
<1>. QED  BY <1>1, <1>2, <1>3 DEF Parts, tidvars

LEMMA DataStep ==
    ASSUME Parts, NEW t \in TID, NEW n, ReceiveData(t, n)
    PROVE  Parts'
<1>1. aTidBaEstablished[t] /\ Arrives(t, n)
  BY DEF ReceiveData, Arrives
<1>. QED  BY <1>1, ExpectedStep, LateStep, InWindowStep, BeyondStep DEF ReceiveData

LEMMA InitParts == Init => Parts
<1>. SUFFICES ASSUME Init PROVE Parts
  OBVIOUS
<1>1. /\ ArraySize \in Nat /\ ArraySize >= 1 /\ SnMod \in Nat /\ SnMod > 0 /\ TID # {} /\ FirstNumber \in [TID -> Nat]
  BY Sizes, RxQueueAssumption
<1>2. 0 \in Index /\ 0 \in 0..ArraySize /\ 0 \in 0..(SnMod - 1) /\ -1 \in Int
  BY <1>1, IndexIs
<1>3. TidsTyped
  <2>1. /\ aPaketsQueue \in Queues /\ aTidBaEstablished \in [TID -> BOOLEAN] /\ aWinStartArrayInex \in [TID -> Index]
    BY <1>2 DEF Init, Queues, Packets
  <2>2. aTidWinSize \in [TID -> 0..ArraySize] /\ aTidExpectedSn \in [TID -> 0..(SnMod - 1)]
    BY <1>2 DEF Init
  <2>3. winStart \in [TID -> Nat] /\ got \in [TID -> SUBSET Nat] /\ last \in [TID -> Int]
    BY <1>1, <1>2 DEF Init
  <2>. QED  BY <2>1, <2>2, <2>3 DEF TidsTyped
<1>4. ASSUME NEW u \in TID PROVE Tid(u)
  BY DEF Init, Tid, Vacant
<1>5. TimerTyped
  <2>1. aFrameTid \in TID
    BY <1>1 DEF Init
  <2>. QED  BY <2>1 DEF Init, TimerTyped
<1>6. aPacketsStored = Cardinality(HeldIn(aPaketsQueue, TID))
  <2>1. HeldIn(aPaketsQueue, TID) = {}
    BY DEF Init, HeldIn
  <2>. QED  BY <2>1, FS_EmptySet DEF Init
<1>. QED  BY <1>3, <1>4, <1>5, <1>6 DEF Parts, Init

LEMMA NextParts ==
    ASSUME UntidyBars = FALSE, Parts, [Next]_vars
    PROVE  Parts'
<1>1. CASE TimerExpires
  BY <1>1, ExpiryStep
<1>2. ASSUME NEW t \in TID, Receive(t) PROVE Parts'
  <2>1. ASSUME NEW n \in winStart[t]..(winStart[t] + ArraySize - 1), ReceiveData(t, n) PROVE Parts'
    BY <2>1, DataStep
  <2>2. CASE ReceiveBar(t)
    BY <2>2, BarStep
  <2>3. CASE ReceiveAddBa(t)
    BY <2>3, AddBaStep
  <2>4. CASE ReceiveDelBa(t)
    <3>1. {t} \in SUBSET TID
      OBVIOUS
    <3>. QED  BY <2>4, <3>1, CloseStep DEF ReceiveDelBa
  <2>. QED  BY <1>2, <2>1, <2>2, <2>3, <2>4 DEF Receive
<1>3. ASSUME NEW t \in TID, PeerAdvances(t) PROVE Parts'
  BY <1>3, PeerStep
<1>4. CASE CloseAllBaSessions
  <2>1. TID \in SUBSET TID
    OBVIOUS
  <2>. QED  BY <1>4, <2>1, CloseStep DEF CloseAllBaSessions
<1>5. CASE PacketTimeOut
  BY <1>5, TimeOutStep
<1>6. CASE UNCHANGED vars
  BY <1>6, StutterStep
<1>. QED  BY <1>1, <1>2, <1>3, <1>4, <1>5, <1>6 DEF Next

LEMMA PartsInv == Parts => Inv /\ PassedInOrder
<1>. SUFFICES ASSUME Parts PROVE Inv /\ PassedInOrder
  OBVIOUS
<1>1. TypeOK /\ StoredExact
  BY PartsTypeOK, StoredExactIs DEF Parts
<1>2. ASSUME NEW t \in TID
      PROVE  /\ aTidBaEstablished[t] => last[t] < Expected(t)
             /\ \A i \in Index :
                   At(t, i) # None => /\ aTidBaEstablished[t]
                                      /\ i \in 1..(aTidWinSize[t] - 1)
                                      /\ At(t, i) = Expected(t) + i
  <2>1. CASE aTidBaEstablished[t]
    <3>1. PICK e \in Int : Session(t, e)
      BY <2>1, PartsFacts DEF Tid
    <3>2. Expected(t) = e /\ last[t] < e
      BY <1>1, <3>1, ExpectedIs DEF Session
    <3>3. ASSUME NEW i \in Index, At(t, i) # None
          PROVE  i \in 1..(aTidWinSize[t] - 1) /\ At(t, i) = e + i
      <4>1. i \in 0..ArraySize
        BY IndexIs, Sizes
      <4>. QED  BY <1>1, <3>1, <3>3, <4>1, AtFits
    <3>. QED  BY <2>1, <3>2, <3>3
  <2>2. CASE ~aTidBaEstablished[t]
    <3>1. Vacant(t) /\ aWinStartArrayInex[t] \in Int
      BY <2>2, PartsFacts, IndexIs DEF Tid
    <3>2. ASSUME NEW i \in Index PROVE At(t, i) = None
      <4>1. Slot(t, i) \in Index
        BY <3>1, SlotIs, PlaceIn, IndexIs
      <4>. QED  BY <3>1, <4>1 DEF At, Vacant
    <3>. QED  BY <2>2, <3>2
  <2>. QED  BY <2>1, <2>2
<1>3. \A t \in TID : last[t] # Disorder
  BY PartsFacts DEF Disorder
<1>4. WinStartSlot
  BY <1>2 DEF WinStartSlot
<1>. QED  BY <1>1, <1>3, <1>4 DEF Inv, PassedInOrder, Parts

LEMMA GivenUpStep ==
    ASSUME Parts, [Next]_vars, NEW t \in TID, NEW n \in got'[t] \ got[t],
           Expected(t)' > Expected(t), n # Expected(t)
    PROVE  \/ n >= Expected(t) + aTidWinSize[t]
           \/ n = Expected(t) + aTidWinSize[t] - 1 /\ WinEnd(t) >= SnMod
<1>. DEFINE Due == \/ n >= Expected(t) + aTidWinSize[t]
                   \/ n = Expected(t) + aTidWinSize[t] - 1 /\ WinEnd(t) >= SnMod
<1>0. TidsTyped
  BY DEF Parts
<1>1. ASSUME NEW u \in TID, NEW p, ReceiveData(u, p) PROVE Due
  <2>1. got' = [got EXCEPT ![u] = got[u] \cup {p}] /\ aTidBaEstablished[u] /\ p \in Window(u) \ got[u]
    BY <1>1 DEF ReceiveData
  <2>2. u = t /\ p = n
    BY <1>0, <2>1 DEF TidsTyped
  <2>3. PICK e \in Int : Session(t, e)
    BY <2>1, <2>2, PartsFacts DEF Tid
  <2>4. Expected(t) = e /\ TypeOK /\ aTidWinSize[t] \in Int
    BY <2>3, PartsFacts, ExpectedIs
  <2>5. /\ n \in Nat
        /\ Sn(n) = aTidExpectedSn[t] <=> n = e
        /\ Bigger(Sn(n), aTidExpectedSn[t]) <=> n > e
        /\ n > e => (Bigger(Sn(n), WinEnd(t)) <=>
                        n - e >= aTidWinSize[t] \/ (n - e = aTidWinSize[t] - 1 /\ WinEnd(t) >= SnMod))
    BY <2>1, <2>2, <2>3, <2>4, Relative
  <2>6. CASE ReceiveExpected(t, n)
    BY <2>4, <2>5, <2>6 DEF ReceiveExpected
  <2>7. CASE ReceiveLate(t, n) \/ ReceiveInWindow(t, n)
    <3>1. UNCHANGED <<aTidExpectedSn, aTidWinSize, winStart>>
      BY <1>1, <2>7 DEF ReceiveLate, ReceiveInWindow, tidvars, ReceiveData
    <3>2. Expected(t)' = Expected(t)
      BY <3>1 DEF Expected
    <3>. QED  BY <2>4, <3>2
  <2>8. CASE ReceiveBeyond(t, n)
    <3>1. n - e >= aTidWinSize[t] \/ (n - e = aTidWinSize[t] - 1 /\ WinEnd(t) >= SnMod)
      BY <2>5, <2>8 DEF ReceiveBeyond
    <3>. QED  BY <2>4, <2>5, <3>1
  <2>. QED  BY <1>1, <2>2, <2>6, <2>7, <2>8 DEF ReceiveData
<1>2. ASSUME \A u \in TID : got'[u] \subseteq got[u] PROVE FALSE
  BY <1>2
<1>3. ASSUME NEW u \in TID, ReceiveAddBa(u) \/ PeerAdvances(u) PROVE FALSE
  <2>1. \/ got' = [got EXCEPT ![u] = {}]
        \/ got' = [got EXCEPT ![u] = got[u] \ {winStart[u]}]
    BY <1>3 DEF ReceiveAddBa, PeerAdvances
  <2>2. \A x \in TID : got'[x] \subseteq got[x]
    BY <1>0, <2>1 DEF TidsTyped
  <2>. QED  BY <1>2, <2>2
<1>4. ASSUME got' = got PROVE FALSE
  BY <1>2, <1>4
<1>5. ASSUME NEW u \in TID, Receive(u) PROVE Due
  <2>1. (ReceiveBar(u) \/ ReceiveDelBa(u)) => got' = got
    BY DEF ReceiveBar, ReceiveDelBa, CloseBaSessions, peervars
  <2>. QED  BY <1>1, <1>3, <1>4, <1>5, <2>1 DEF Receive
<1>6. (TimerExpires \/ CloseAllBaSessions \/ PacketTimeOut \/ UNCHANGED vars) => got' = got
  BY DEF TimerExpires, CloseAllBaSessions, CloseBaSessions, PacketTimeOut, vars, peervars
<1>. QED  BY <1>1, <1>3, <1>4, <1>5, <1>6 DEF Next

(* For all TIDs, window sizes, array sizes, number spaces that are large   *)
(* enough for both, and peers: as long as BARs are tidy, an array and the  *)
(* expected number of its TID agree and the count of all is exact.         *)
THEOREM ArraysInv == UntidyBars = FALSE => (Spec => []Inv)
<1>. SUFFICES ASSUME UntidyBars = FALSE PROVE Spec => []Inv
  OBVIOUS
<1>1. Init => Parts
  BY InitParts
<1>2. Parts /\ [Next]_vars => Parts'
  BY NextParts
<1>3. Parts => Inv
  BY PartsInv
<1>. QED  BY <1>1, <1>2, <1>3, PTL DEF Spec

(* What a session passes is in the order of the peer's numbers, and no     *)
(* packet is given back because its slot is taken.                         *)
THEOREM SessionsPassInOrder == UntidyBars = FALSE => (Spec => []PassedInOrder)
<1>. SUFFICES ASSUME UntidyBars = FALSE PROVE Spec => []PassedInOrder
  OBVIOUS
<1>1. Init => Parts
  BY InitParts
<1>2. Parts /\ [Next]_vars => Parts'
  BY NextParts
<1>3. Parts => PassedInOrder
  BY PartsInv
<1>. QED  BY <1>1, <1>2, <1>3, PTL DEF Spec

(* An arriving packet makes the array give up a missing one only if it     *)
(* lies beyond the window, or is the last of one across the end of the     *)
(* number space.                                                           *)
THEOREM GivesUpWhenDue == UntidyBars = FALSE => (Spec => GivenUpOnlyWhenDue)
<1>. SUFFICES ASSUME UntidyBars = FALSE PROVE Spec => GivenUpOnlyWhenDue
  OBVIOUS
<1>. DEFINE Due == \A t \in TID : \A n \in got'[t] \ got[t] :
                      Expected(t)' > Expected(t) /\ n # Expected(t)
                         => \/ n >= Expected(t) + aTidWinSize[t]
                            \/ n = Expected(t) + aTidWinSize[t] - 1 /\ WinEnd(t) >= SnMod
<1>1. Init => Parts
  BY InitParts
<1>2. Parts /\ [Next]_vars => Parts'
  BY NextParts
<1>3. Parts /\ [Next]_vars => [Due]_vars
  BY GivenUpStep
<1>. QED  BY <1>1, <1>2, <1>3, PTL DEF Spec, GivenUpOnlyWhenDue
=============================================================================
