-------------------------- MODULE Ctap2WireProofs --------------------------
(***************************************************************************)
(* Proofs about the codec, the parsers and the writer of answers.          *)
(***************************************************************************)
EXTENDS Ctap2Responses, SequenceTheorems, WellFoundedInduction, TLAPS

-----------------------------------------------------------------------------
(* Induction and recursion, stated with sets and functions.                 *)

(* What holds at 0 and is handed on from each number to the next.           *)
LEMMA Induction ==
    ASSUME NEW n \in Nat, NEW T, 0 \in T, \A k \in 1 .. n : k - 1 \in T => k \in T
    PROVE  \A k \in 0 .. n : k \in T
<1> SUFFICES ASSUME NEW k \in 0 .. n, k \notin T PROVE FALSE
  OBVIOUS
<1> DEFINE Out == {x \in 0 .. n : x \notin T}
<1>1. Out \subseteq Nat /\ Out # {}
  OBVIOUS
<1>2. PICK x \in Out : \A y \in Out : ~ (<<y, x>> \in OpToRel(<, Nat))
  BY <1>1, NatLessThanWellFounded, WFMin
<1>3. \A y \in Out : ~(y < x)
  BY <1>1, <1>2 DEF OpToRel
<1>4. x \in 1 .. n /\ x - 1 \in 0 .. n
  OBVIOUS
<1> QED
  BY <1>3, <1>4

\* F takes each g of W, functions on D, to another one, which depends at x only
\* on the values of g of lower rank.
LooksDown(F, W, V, D, rank, N) ==
    /\ N \in Nat /\ rank \in [D -> 0 .. N]
    /\ W \subseteq [D -> V] /\ W # {} /\ F \in [W -> W]
    /\ \A g, h \in W : \A x \in D : (\A y \in D : rank[y] < rank[x] => g[y] = h[y]) => F[g][x] = F[h][x]

(* A recursive definition F that looks down has a fixed point.              *)
LEMMA Recursion ==
    ASSUME NEW F, NEW W, NEW V, NEW D, NEW rank, NEW N, LooksDown(F, W, V, D, rank, N)
    PROVE  \E f \in W : F[f] = f
<1> USE DEF LooksDown
<1> DEFINE Until(m) == \E g \in W : \A x \in D : rank[x] < m => F[g][x] = g[x]
           T == {m \in 0 .. N + 1 : Until(m)}
<1>1. 0 \in T
  <2>1. \A x \in D : ~(rank[x] < 0)
    OBVIOUS
  <2> QED
    BY <2>1
<1>2. ASSUME NEW m \in 1 .. N + 1, m - 1 \in T PROVE m \in T
  <2>1. PICK g \in W : \A x \in D : rank[x] < m - 1 => F[g][x] = g[x]
    BY <1>2
  <2>2. F[g] \in W
    OBVIOUS
  <2>3. ASSUME NEW x \in D, rank[x] < m PROVE F[F[g]][x] = F[g][x]
    <3>1. \A y \in D : rank[y] < rank[x] => F[g][y] = g[y]
      <4> SUFFICES ASSUME NEW y \in D, rank[y] < rank[x] PROVE F[g][y] = g[y]
        OBVIOUS
      <4>1. rank[y] \in Nat /\ rank[x] \in Nat
        OBVIOUS
      <4> QED
        BY <2>1, <2>3, <4>1
    <3> QED
      BY <2>2, <3>1
  <2> QED
    BY <2>2, <2>3
<1>3. N + 1 \in T
  <2> HIDE DEF T
  <2>1. N + 1 \in Nat /\ N + 1 \in 0 .. N + 1
    OBVIOUS
  <2>2. \A m \in 0 .. N + 1 : m \in T
    BY <1>1, <1>2, <2>1, Induction
  <2> QED
    BY <2>1, <2>2
<1>4. PICK f \in W : \A x \in D : rank[x] < N + 1 => F[f][x] = f[x]
  BY <1>3
<1>5. \A x \in D : F[f][x] = f[x]
  BY <1>4
<1>6. f \in [D -> V] /\ F[f] \in [D -> V]
  OBVIOUS
<1> QED
  BY <1>5, <1>6

\* f is s at 0, and at each k from 1 to n what step makes of the value before.
Iterates(f, n, s, step) == f[0] = s /\ \A k \in 1 .. n : f[k] = step[f[k - 1], k]

\* The same of the states a of a loop, while they are in V: steps go on while all is well.
States(a, n, s, step, V) ==
    /\ a[0] = s
    /\ \A k \in 1 .. n : a[k - 1] \in V => a[k] = IF a[k - 1].ok THEN step[a[k - 1], k] ELSE a[k - 1]

(* A value for every step of n, each from the one before.                   *)
LEMMA Iteration ==
    ASSUME NEW n \in Nat, NEW V, NEW s \in V, NEW step \in [V \X (1 .. n) -> V]
    PROVE  \E f \in [0 .. n -> V] : Iterates(f, n, s, step)
<1> DEFINE D == 0 .. n
           W == [D -> V]
           F == [g \in W |-> [k \in D |-> IF k = 0 THEN s ELSE step[g[k - 1], k]]]
           rank == [k \in D |-> k]
<1>1. F \in [W -> W]
  <2> SUFFICES ASSUME NEW g \in W PROVE F[g] \in [D -> V]
    OBVIOUS
  <2>1. ASSUME NEW k \in D, k # 0 PROVE step[g[k - 1], k] \in V
    <3>1. k - 1 \in D /\ k \in 1 .. n
      BY <2>1
    <3>2. <<g[k - 1], k>> \in V \X (1 .. n)
      BY <3>1
    <3> QED
      BY <3>1, <3>2
  <2> QED
    BY <2>1
<1>2. rank \in [D -> 0 .. n]
  OBVIOUS
<1>3. ASSUME NEW g \in W, NEW h \in W, NEW x \in D, \A y \in D : rank[y] < rank[x] => g[y] = h[y]
      PROVE  F[g][x] = F[h][x]
  <2>1. x # 0 => g[x - 1] = h[x - 1]
    <3>1. x # 0 => x - 1 \in D /\ rank[x - 1] < rank[x]
      OBVIOUS
    <3> QED
      BY <1>3, <3>1
  <2> QED
    BY <2>1
<1>4. [k \in D |-> s] \in W
  OBVIOUS
<1>5. LooksDown(F, W, V, D, rank, n)
  <2> HIDE DEF F, rank
  <2>1. W # {}
    BY <1>4
  <2> QED
    BY <1>1, <1>2, <1>3, <2>1 DEF LooksDown
<1>6. PICK f \in W : F[f] = f
  <2> HIDE DEF D, W, F, rank
  <2> QED
    BY <1>5, Recursion
<1>7. \A k \in 0 .. n : f[k] = IF k = 0 THEN s ELSE step[f[k - 1], k]
  BY <1>6
<1>8. Iterates(f, n, s, step)
  <2> HIDE DEF D, W, F, rank
  <2>1. 0 \in 0 .. n /\ \A k \in 1 .. n : k \in 0 .. n /\ k # 0
    OBVIOUS
  <2> QED
    BY <1>7, <2>1, Zenon DEF Iterates
<1> QED
  BY <1>8, Zenon DEF W, D

(* The states a loop of n steps runs through, when steps keep them in V.    *)
LEMMA LoopExists ==
    ASSUME NEW n \in Nat, NEW V, NEW s \in V, NEW step \in [V \X (1 .. n) -> V]
    PROVE  \E f \in [0 .. n -> V] : States(f, n, s, step, V)
<1> DEFINE onward == [x \in V \X (1 .. n) |-> IF x[1].ok THEN step[x] ELSE x[1]]
<1>1. onward \in [V \X (1 .. n) -> V]
  OBVIOUS
<1>2. \A v \in V, k \in 1 .. n : onward[v, k] = IF v.ok THEN step[v, k] ELSE v
  OBVIOUS
<1> HIDE DEF onward
<1>3. PICK f \in [0 .. n -> V] : Iterates(f, n, s, onward)
  BY <1>1, Iteration
<1>4. States(f, n, s, step, V)
  BY <1>2, <1>3, Zenon DEF Iterates, States
<1> QED
  BY <1>4

(* What the first state is and each step keeps, the last state is.          *)
LEMMA LoopStays ==
    ASSUME NEW n \in Nat, NEW V, NEW a, a[0] \in V, \A k \in 1 .. n : a[k - 1] \in V => a[k] \in V
    PROVE  a[n] \in V
<1> DEFINE T == {k \in 0 .. n : a[k] \in V}
<1>1. 0 \in T
  OBVIOUS
<1>2. \A k \in 1 .. n : k - 1 \in T => k \in T
  OBVIOUS
<1>3. \A k \in 0 .. n : k \in T
  <2> HIDE DEF T
  <2> QED
    BY <1>1, <1>2, Induction
<1> QED
  BY <1>3

-----------------------------------------------------------------------------
(* The writer.                                                              *)

Byte == {n \in Nat : n <= 255}
Writers(capacity) == {w \in [buf : Seq(Byte), capacity : {capacity}, ok : BOOLEAN] : Len(w.buf) <= capacity}

\* v is w with data written, or has failed because data did not fit.
Fits(w, n) == Len(w.buf) + n <= w.capacity
Wrote(w, v, data) ==
    /\ v.ok <=> w.ok /\ Fits(w, Len(data))
    /\ v.ok => v.buf = w.buf \o data

(* writeRaw: all or nothing.                                                *)
LEMMA WriteRawWrites ==
    ASSUME NEW capacity \in Nat, NEW w \in Writers(capacity), NEW data \in Seq(Byte)
    PROVE  WriteRaw(w, data) \in Writers(capacity) /\ Wrote(w, WriteRaw(w, data), data)
<1>1. w.buf \o data \in Seq(Byte) /\ Len(w.buf) \in Nat /\ Len(data) \in Nat /\ w.capacity = capacity
  BY ConcatProperties, LenProperties DEF Writers
<1>2. w = [buf |-> w.buf, capacity |-> w.capacity, ok |-> w.ok]
  BY DEF Writers
<1>3. w.buf \in Seq(Byte) /\ w.ok \in BOOLEAN
  BY DEF Writers
<1>4. CASE w.ok /\ Len(data) <= w.capacity - Len(w.buf)
  <2>1. WriteRaw(w, data) = [buf |-> w.buf \o data, capacity |-> capacity, ok |-> TRUE]
    <3>1. WriteRaw(w, data) = [w EXCEPT !.buf = w.buf \o data]
      BY <1>4 DEF WriteRaw
    <3> QED
      BY <1>1, <1>2, <1>3, <1>4, <3>1 DEF Writers
  <2> DEFINE v == [buf |-> w.buf \o data, capacity |-> capacity, ok |-> TRUE]
  <2>2. v \in Writers(capacity) /\ Wrote(w, v, data)
    BY <1>1, <1>4 DEF Writers, Wrote, Fits
  <2> QED
    BY <2>1, <2>2
<1>5. CASE ~(w.ok /\ Len(data) <= w.capacity - Len(w.buf))
  <2>1. WriteRaw(w, data) = [buf |-> w.buf, capacity |-> capacity, ok |-> FALSE]
    <3>1. WriteRaw(w, data) = [w EXCEPT !.ok = FALSE]
      BY <1>5 DEF WriteRaw
    <3> QED
      BY <1>1, <1>2, <1>3, <3>1 DEF Writers
  <2> DEFINE v == [buf |-> w.buf, capacity |-> capacity, ok |-> FALSE]
  <2>2. v \in Writers(capacity) /\ Wrote(w, v, data)
    BY <1>1, <1>3, <1>5 DEF Writers, Wrote, Fits
  <2> QED
    BY <2>1, <2>2
<1> QED
  BY <1>4, <1>5

(* The bytes of a head.                                                     *)
LEMMA BigEndianIsBytes ==
    ASSUME NEW value \in Nat, NEW n \in {1, 2, 4}
    PROVE  BigEndian(value, n) \in Seq(Byte) /\ Len(BigEndian(value, n)) = n
<1>1. \A i \in 1 .. n : Scale[n + 1 - i] \in Nat \ {0}
  BY DEF Scale
<1>2. \A i \in 1 .. n : (value \div Scale[n + 1 - i]) % 256 \in Byte
  BY <1>1 DEF Byte
<1>3. BigEndian(value, n) \in [1 .. n -> Byte]
  BY <1>2 DEF BigEndian
<1>4. BigEndian(value, n) \in Seq(Byte)
  BY <1>3, SeqDef
<1> QED
  BY <1>3, <1>4, LenProperties

(* The first byte of a head.                                               *)
LEMMA InitialIsByte ==
    ASSUME NEW major \in 0 .. 7, NEW addl \in 0 .. 31
    PROVE  <<Initial(major, addl)>> \in Seq(Byte) /\ Len(<<Initial(major, addl)>>) = 1
<1>1. Initial(major, addl) \in Byte
  BY DEF Initial, Byte
<1> QED
  BY <1>1

(* A head with a number behind its first byte.                             *)
LEMMA LongHead ==
    ASSUME NEW value \in Nat, NEW n \in {1, 2, 4}, NEW major \in 0 .. 7, NEW addl \in 0 .. 31
    PROVE  LET head == <<Initial(major, addl)>> \o BigEndian(value, n) IN
           head \in Seq(Byte) /\ Len(head) = n + 1
<1> DEFINE a == <<Initial(major, addl)>>
           z == BigEndian(value, n)
<1>1. a \in Seq(Byte) /\ Len(a) = 1 /\ z \in Seq(Byte) /\ Len(z) = n
  BY BigEndianIsBytes, InitialIsByte
<1> HIDE DEF a, z
<1>2. a \o z \in Seq(Byte) /\ Len(a \o z) = n + 1
  BY <1>1, ConcatProperties
<1> QED
  BY <1>2 DEF a, z

(* A head is at most five bytes.                                           *)
LEMMA HeadIsBytes ==
    ASSUME NEW major \in 0 .. 7, NEW value \in Nat
    PROVE  HeadBytes(major, value) \in Seq(Byte) /\ Len(HeadBytes(major, value)) \in 1 .. 5
<1>1. value < 24 => <<Initial(major, value)>> \in Seq(Byte) /\ Len(<<Initial(major, value)>>) = 1
  BY InitialIsByte
<1>2. \A addl \in 0 .. 31, n \in {1, 2, 4} :
         <<Initial(major, addl)>> \o BigEndian(value, n) \in Seq(Byte)
            /\ Len(<<Initial(major, addl)>> \o BigEndian(value, n)) = n + 1
  BY LongHead
<1>3. CASE value < 24
  BY <1>1, <1>3 DEF HeadBytes
<1>4. CASE value >= 24 /\ value < 256
  BY <1>2, <1>4 DEF HeadBytes
<1>5. CASE value >= 256 /\ value < 256 * 256
  BY <1>2, <1>5 DEF HeadBytes
<1>6. CASE value >= 256 * 256
  BY <1>2, <1>6 DEF HeadBytes
<1> QED
  BY <1>3, <1>4, <1>5, <1>6

(* One write after the other.                                               *)
Then(u, v, data) == IF u.ok THEN Wrote(u, v, data) ELSE ~v.ok

(* What concatenation does to lengths, and to what fits.                   *)
LEMMA Lengths ==
    ASSUME NEW x \in Seq(Byte), NEW y \in Seq(Byte), NEW z \in Seq(Byte), NEW capacity \in Nat
    PROVE  /\ Len(y \o z) = Len(y) + Len(z) /\ (x \o y) \o z = x \o (y \o z)
           /\ Len(x) + Len(y \o z) <= capacity => Len(x) + Len(y) <= capacity
           /\ Len(x \o y) + Len(z) <= capacity <=> Len(x) + Len(y \o z) <= capacity
<1>1. Len(x) \in Nat /\ Len(y) \in Nat /\ Len(z) \in Nat
  BY LenProperties
<1>2. Len(y \o z) = Len(y) + Len(z)
  BY ConcatProperties
<1>3. Len(x \o y) = Len(x) + Len(y)
  BY ConcatProperties
<1>4. (x \o y) \o z = x \o (y \o z)
  BY ConcatAssociative
<1>5. Len(x) + Len(y \o z) <= capacity => Len(x) + Len(y) <= capacity
  BY <1>1, <1>2
<1>6. Len(x \o y) + Len(z) = Len(x) + Len(y \o z)
  BY <1>1, <1>2, <1>3
<1> QED
  BY <1>2, <1>4, <1>5, <1>6

(* Two writes, one after the other, are one.                               *)
LEMMA WroteBoth ==
    ASSUME NEW capacity \in Nat, NEW w \in Writers(capacity), NEW u \in Writers(capacity), NEW v,
           NEW first \in Seq(Byte), NEW second \in Seq(Byte), Wrote(w, u, first), Then(u, v, second)
    PROVE  Wrote(w, v, first \o second)
<1>1. w.buf \in Seq(Byte) /\ w.capacity = capacity
  BY DEF Writers
<1>2. u.capacity = capacity
  BY DEF Writers
<1>3. \A x \in Seq(Byte) :
         /\ (x \o first) \o second = x \o (first \o second)
         /\ Len(x) + Len(first \o second) <= capacity => Len(x) + Len(first) <= capacity
         /\ Len(x \o first) + Len(second) <= capacity <=> Len(x) + Len(first \o second) <= capacity
  BY Lengths
<1>4. /\ (w.buf \o first) \o second = w.buf \o (first \o second)
      /\ Fits(w, Len(first \o second)) => Fits(w, Len(first))
      /\ u.buf = w.buf \o first => (Fits(u, Len(second)) <=> Fits(w, Len(first \o second)))
  BY <1>1, <1>2, <1>3, Zenon DEF Fits
<1> QED
  BY <1>4, Zenon DEF Wrote, Then

\* step writes data[k] at step k of n, and whole[k] is what steps 1 to k write.
Steps(capacity, n, step, data, whole) ==
    /\ capacity \in Nat /\ n \in Nat
    /\ step \in [Writers(capacity) \X (1 .. n) -> Writers(capacity)]
    /\ data \in [1 .. n -> Seq(Byte)] /\ whole \in [0 .. n -> Seq(Byte)]
    /\ whole[0] = <<>> /\ \A k \in 1 .. n : whole[k] = whole[k - 1] \o data[k]
    /\ \A v \in Writers(capacity), k \in 1 .. n : Wrote(v, step[v, k], data[k])

(* A loop of writes.                                                        *)
LEMMA LoopWrites ==
    ASSUME NEW capacity, NEW n, NEW step, NEW data, NEW whole, Steps(capacity, n, step, data, whole),
           NEW w \in Writers(capacity), NEW a, States(a, n, w, step, Writers(capacity))
    PROVE  a[n] \in Writers(capacity) /\ Wrote(w, a[n], whole[n])
<1> DEFINE T == {k \in 0 .. n : a[k] \in Writers(capacity) /\ Wrote(w, a[k], whole[k])}
<1>0. n \in Nat /\ capacity \in Nat
  BY DEF Steps
<1>1. 0 \in T
  <2>1. a[0] = w
    BY DEF States
  <2>2. w.buf \in Seq(Byte) /\ Len(w.buf) <= capacity /\ w.capacity = capacity
    BY DEF Writers
  <2>3. w.buf \o <<>> = w.buf /\ Len(<<>>) = 0 /\ Len(w.buf) \in Nat
    BY <2>2, ConcatEmptySeq, LenProperties
  <2>4. Fits(w, Len(<<>>))
    BY <1>0, <2>2, <2>3 DEF Fits
  <2>5. Wrote(w, w, <<>>)
    BY <2>3, <2>4, Zenon DEF Wrote
  <2>6. whole[0] = <<>>
    BY DEF Steps
  <2> QED
    BY <1>0, <2>1, <2>5, <2>6
<1>2. ASSUME NEW k \in 1 .. n, k - 1 \in T PROVE k \in T
  <2>1. k - 1 \in 0 .. n /\ k \in 0 .. n
    BY <1>0
  <2>2. a[k - 1] \in Writers(capacity) /\ Wrote(w, a[k - 1], whole[k - 1])
    BY <1>2
  <2>3. a[k] = IF a[k - 1].ok THEN step[a[k - 1], k] ELSE a[k - 1]
    BY <2>2, Zenon DEF States
  <2>4. step[a[k - 1], k] \in Writers(capacity) /\ Wrote(a[k - 1], step[a[k - 1], k], data[k])
    BY <2>2 DEF Steps
  <2>5. a[k] \in Writers(capacity) /\ Then(a[k - 1], a[k], data[k])
    BY <2>2, <2>3, <2>4, Zenon DEF Then
  <2>6. whole[k - 1] \in Seq(Byte) /\ data[k] \in Seq(Byte) /\ whole[k] = whole[k - 1] \o data[k]
    BY <2>1 DEF Steps
  <2>7. Wrote(w, a[k], whole[k - 1] \o data[k])
    BY <1>0, <2>2, <2>5, <2>6, WroteBoth
  <2> QED
    BY <2>1, <2>5, <2>6, <2>7
<1>3. \A k \in 0 .. n : k \in T
  <2> HIDE DEF T
  <2> QED
    BY <1>0, <1>1, <1>2, Induction
<1>4. n \in T
  BY <1>0, <1>3
<1> QED
  BY <1>4

(* What begins as head goes on as head.                                     *)
LEMMA Beginnings ==
    ASSUME NEW head \in Seq(Byte)
    PROVE  /\ SubSeq(head, 1, 0) = <<>> /\ SubSeq(head, 1, Len(head)) = head
           /\ \A k \in 0 .. Len(head) : SubSeq(head, 1, k) \in Seq(Byte)
           /\ \A k \in 1 .. Len(head) : <<head[k]>> \in Seq(Byte)
                                      /\ SubSeq(head, 1, k) = SubSeq(head, 1, k - 1) \o <<head[k]>>
<1>1. Len(head) \in Nat /\ head \in [1 .. Len(head) -> Byte]
  BY LenProperties
<1>2. \A k \in 0 .. Len(head) : SubSeq(head, 1, k) \in Seq(Byte)
  BY <1>1, SubSeqProperties
<1>3. SubSeq(head, 1, 0) = <<>> /\ SubSeq(head, 1, Len(head)) = head
  BY <1>1, SubSeqProperties
<1>4. ASSUME NEW k \in 1 .. Len(head)
      PROVE  <<head[k]>> \in Seq(Byte) /\ SubSeq(head, 1, k) = SubSeq(head, 1, k - 1) \o <<head[k]>>
  BY <1>1, SubSeqProperties, ConcatProperties
<1> QED
  BY <1>2, <1>3, <1>4

(* writeType: the head.                                                     *)
LEMMA TypeIsWritten ==
    ASSUME NEW capacity \in Nat, NEW w \in Writers(capacity), NEW major \in 0 .. 7, NEW value \in Nat
    PROVE  /\ WriteType(w, major, value) \in Writers(capacity)
           /\ Wrote(w, WriteType(w, major, value), HeadBytes(major, value))
<1> DEFINE head == HeadBytes(major, value)
           n == Len(head)
           V == Writers(capacity)
           step == [x \in V \X (1 .. n) |-> WriteByte(x[1], head[x[2]])]
           data == [k \in 1 .. n |-> <<head[k]>>]
           whole == [k \in 0 .. n |-> SubSeq(head, 1, k)]
           next(a) == [k \in 0 .. n |-> IF k = 0 THEN w
                                       ELSE IF a[k - 1].ok THEN WriteByte(a[k - 1], head[k]) ELSE a[k - 1]]
           after == CHOOSE a : a = next(a)
<1>1. head \in Seq(Byte) /\ n \in Nat
  BY HeadIsBytes, LenProperties
<1> HIDE DEF head
<1>2. \A v \in V, k \in 1 .. n : WriteByte(v, head[k]) \in V /\ Wrote(v, WriteByte(v, head[k]), <<head[k]>>)
  BY <1>1, Beginnings, WriteRawWrites DEF WriteByte
<1>3. \A v \in V, k \in 1 .. n : step[v, k] = WriteByte(v, head[k])
  OBVIOUS
<1>4. step \in [V \X (1 .. n) -> V]
  BY <1>2
<1>5. whole[0] = <<>> /\ whole[n] = head
  BY <1>1, Beginnings
<1>6. whole \in [0 .. n -> Seq(Byte)] /\ data \in [1 .. n -> Seq(Byte)]
  BY <1>1, Beginnings
<1>7. \A k \in 1 .. n : whole[k] = whole[k - 1] \o data[k]
  <2> SUFFICES ASSUME NEW k \in 1 .. n PROVE whole[k] = whole[k - 1] \o data[k]
    OBVIOUS
  <2>1. k \in 0 .. n /\ k - 1 \in 0 .. n
    BY <1>1
  <2> QED
    BY <1>1, <2>1, Beginnings
<1> HIDE DEF n, V, data, whole, step
<1>8. Steps(capacity, n, step, data, whole)
  <2>1. \A v \in V, k \in 1 .. n : Wrote(v, step[v, k], data[k])
    BY <1>2, <1>3, Zenon DEF data
  <2> QED
    BY <1>1, <1>4, <1>5, <1>6, <1>7, <2>1, Zenon DEF Steps, V
<1>9. PICK f \in [0 .. n -> V] : States(f, n, w, step, V)
  <2>1. w \in V
    BY DEF V
  <2> QED
    BY <1>1, <1>4, <2>1, LoopExists
<1>10. f = next(f)
  <2>1. \A k \in 0 .. n : k # 0 => k - 1 \in 0 .. n /\ k \in 1 .. n
    BY <1>1
  <2>2. \A k \in 0 .. n : f[k] = IF k = 0 THEN w
                         ELSE IF f[k - 1].ok THEN WriteByte(f[k - 1], head[k]) ELSE f[k - 1]
    <3>1. \A k \in 0 .. n : k # 0 => f[k - 1] \in V
      BY <1>9, <2>1, Zenon
    <3>2. f[0] = w /\ \A k \in 1 .. n : f[k - 1] \in V => f[k] = IF f[k - 1].ok THEN step[f[k - 1], k] ELSE f[k - 1]
      BY <1>9, Zenon DEF States
    <3>3. \A k \in 1 .. n : f[k - 1] \in V => f[k] = IF f[k - 1].ok THEN WriteByte(f[k - 1], head[k]) ELSE f[k - 1]
      BY <1>3, <3>2, Zenon
    <3> QED
      BY <2>1, <3>1, <3>2, <3>3, Zenon
  <2>3. f = [k \in 0 .. n |-> f[k]]
    BY <1>9, Zenon
  <2> QED
    BY <2>2, <2>3, Zenon
<1>11. after = next(after)
  BY <1>10, Zenon
<1>12. States(after, n, w, step, V)
  <2> HIDE DEF after
  <2>1. 0 \in 0 .. n /\ \A k \in 1 .. n : k \in 0 .. n /\ k # 0
    BY <1>1
  <2>2. \A k \in 0 .. n : after[k] = IF k = 0 THEN w
                         ELSE IF after[k - 1].ok THEN WriteByte(after[k - 1], head[k]) ELSE after[k - 1]
    BY <1>11, Zenon
  <2> QED
    BY <1>3, <2>1, <2>2, Zenon DEF States
<1>13. after[n] \in Writers(capacity) /\ Wrote(w, after[n], head)
  <2> HIDE DEF after
  <2> QED
    BY <1>5, <1>8, <1>12, LoopWrites DEF V
<1> QED
  BY <1>13, Zenon DEF WriteType, Loop, Onward, head, n

-----------------------------------------------------------------------------
(* The calls of the writer.                                                 *)

Calls ==
    ({"map", "array"} \X Nat) \cup ({"int"} \X Int) \cup ({"text", "bytes"} \X Seq(Byte))
        \cup ({"bool"} \X BOOLEAN) \cup {<<"null">>}

BytesOf(call) ==
    CASE call[1] = "map"   -> HeadBytes(MapOf, call[2])
      [] call[1] = "array" -> HeadBytes(ArrayOf, call[2])
      [] call[1] = "int"   -> IF call[2] >= 0 THEN HeadBytes(UInt, call[2]) ELSE HeadBytes(Nint, -1 - call[2])
      [] call[1] = "text"  -> HeadBytes(TextString, Len(call[2])) \o call[2]
      [] call[1] = "bytes" -> HeadBytes(ByteString, Len(call[2])) \o call[2]
      [] call[1] = "bool"  -> <<IF call[2] THEN True ELSE False>>
      [] OTHER             -> <<Null>>

(* A string is its head and its bytes, or nothing that counts.             *)
LEMMA StringIsWritten ==
    ASSUME NEW capacity \in Nat, NEW w \in Writers(capacity), NEW major \in 0 .. 7, NEW data \in Seq(Byte)
    PROVE  LET v == WriteRaw(WriteType(w, major, Len(data)), data)
               bytes == HeadBytes(major, Len(data)) \o data IN
           bytes \in Seq(Byte) /\ v \in Writers(capacity) /\ Wrote(w, v, bytes)
<1> DEFINE u == WriteType(w, major, Len(data))
           v == WriteRaw(u, data)
           head == HeadBytes(major, Len(data))
<1>1. Len(data) \in Nat
  BY LenProperties
<1>2. u \in Writers(capacity) /\ Wrote(w, u, head) /\ head \in Seq(Byte)
  BY <1>1, TypeIsWritten, HeadIsBytes
<1> HIDE DEF u, head
<1>3. v \in Writers(capacity) /\ Wrote(u, v, data)
  BY <1>2, WriteRawWrites
<1> HIDE DEF v
<1>4. Then(u, v, data)
  BY <1>3, Zenon DEF Then, Wrote
<1>5. Wrote(w, v, head \o data)
  BY <1>2, <1>4, WroteBoth
<1>6. head \o data \in Seq(Byte)
  BY <1>2, ConcatProperties
<1> QED
  BY <1>3, <1>5, <1>6 DEF u, v, head

(* Every call writes its bytes, or fails because they do not fit.           *)
LEMMA MakeWrites ==
    ASSUME NEW capacity \in Nat, NEW w \in Writers(capacity), NEW call \in Calls
    PROVE  /\ BytesOf(call) \in Seq(Byte) /\ Make(w, call) \in Writers(capacity)
           /\ Wrote(w, Make(w, call), BytesOf(call))
<1> DEFINE Good(v, bytes) == bytes \in Seq(Byte) /\ v \in Writers(capacity) /\ Wrote(w, v, bytes)
<1> SUFFICES Good(Make(w, call), BytesOf(call))
  OBVIOUS
<1>1. \A major \in 0 .. 7, value \in Nat : Good(WriteType(w, major, value), HeadBytes(major, value))
  BY TypeIsWritten, HeadIsBytes
<1>2. \A major \in 0 .. 7, data \in Seq(Byte) :
         Good(WriteRaw(WriteType(w, major, Len(data)), data), HeadBytes(major, Len(data)) \o data)
  BY StringIsWritten
<1>3. \A byte \in Byte : Good(WriteByte(w, byte), <<byte>>)
  <2> SUFFICES ASSUME NEW byte \in Byte PROVE Good(WriteRaw(w, <<byte>>), <<byte>>)
    BY Zenon DEF WriteByte
  <2>1. <<byte>> \in Seq(Byte)
    OBVIOUS
  <2> QED
    BY <2>1, WriteRawWrites
<1> HIDE DEF Good
<1>4. ASSUME NEW n \in Nat, call = <<"map", n>> PROVE Good(Make(w, call), BytesOf(call))
  <2>1. Make(w, call) = WriteType(w, MapOf, n) /\ BytesOf(call) = HeadBytes(MapOf, n)
    BY <1>4 DEF Make, BytesOf, WriteMap
  <2> QED
    BY <1>1, <2>1 DEF MapOf
<1>5. ASSUME NEW n \in Nat, call = <<"array", n>> PROVE Good(Make(w, call), BytesOf(call))
  <2>1. Make(w, call) = WriteType(w, ArrayOf, n) /\ BytesOf(call) = HeadBytes(ArrayOf, n)
    BY <1>5 DEF Make, BytesOf, WriteArray
  <2> QED
    BY <1>1, <2>1 DEF ArrayOf
<1>6. ASSUME NEW i \in Int, call = <<"int", i>> PROVE Good(Make(w, call), BytesOf(call))
  <2>1. /\ Make(w, call) = WriteInt(w, i)
        /\ BytesOf(call) = IF i >= 0 THEN HeadBytes(UInt, i) ELSE HeadBytes(Nint, -1 - i)
    BY <1>6 DEF Make, BytesOf
  <2>2. CASE i >= 0
    BY <1>1, <2>1, <2>2 DEF WriteInt, UInt
  <2>3. CASE ~(i >= 0)
    <3>1. -1 - i \in Nat
      BY <2>3
    <3> QED
      BY <1>1, <2>1, <2>3, <3>1 DEF WriteInt, Nint
  <2> QED
    BY <2>2, <2>3
<1>7. ASSUME NEW s \in Seq(Byte), call = <<"text", s>> PROVE Good(Make(w, call), BytesOf(call))
  <2>1. Make(w, call) = WriteText(w, s) /\ BytesOf(call) = HeadBytes(TextString, Len(s)) \o s
    BY <1>7 DEF Make, BytesOf
  <2> QED
    BY <1>2, <2>1 DEF WriteText, TextString
<1>8. ASSUME NEW s \in Seq(Byte), call = <<"bytes", s>> PROVE Good(Make(w, call), BytesOf(call))
  <2>1. Make(w, call) = WriteBytes(w, s) /\ BytesOf(call) = HeadBytes(ByteString, Len(s)) \o s
    BY <1>8 DEF Make, BytesOf
  <2> QED
    BY <1>2, <2>1 DEF WriteBytes, ByteString
<1>9. ASSUME NEW x \in BOOLEAN, call = <<"bool", x>> PROVE Good(Make(w, call), BytesOf(call))
  <2> DEFINE byte == IF x THEN True ELSE False
  <2>1. Make(w, call) = WriteByte(w, byte) /\ BytesOf(call) = <<byte>>
    BY <1>9 DEF Make, BytesOf, WriteBool
  <2>2. byte \in Byte
    BY DEF True, False, Byte
  <2> QED
    BY <1>3, <2>1, <2>2
<1>10. ASSUME call = <<"null">> PROVE Good(Make(w, call), BytesOf(call))
  <2>1. Make(w, call) = WriteByte(w, Null) /\ BytesOf(call) = <<Null>>
    BY <1>10 DEF Make, BytesOf, WriteNull
  <2>2. Null \in Byte
    BY DEF Null, Byte
  <2> QED
    BY <1>3, <2>1, <2>2
<1> QED
  BY <1>4, <1>5, <1>6, <1>7, <1>8, <1>9, <1>10 DEF Calls

\* What a sequence of calls has to write.
Encoding(calls) ==
    LET bytes[k \in 0 .. Len(calls)] == IF k = 0 THEN <<>> ELSE bytes[k - 1] \o BytesOf(calls[k])
    IN  bytes[Len(calls)]

(* The bytes the first k calls write, for every k.                          *)
LEMMA EncodingExists ==
    ASSUME NEW calls \in Seq(Calls)
    PROVE  \E whole \in [0 .. Len(calls) -> Seq(Byte)] :
              /\ whole[0] = <<>> /\ whole[Len(calls)] = Encoding(calls)
              /\ \A k \in 1 .. Len(calls) : whole[k] = whole[k - 1] \o BytesOf(calls[k])
<1> DEFINE n == Len(calls)
           S == Seq(Byte)
           step == [x \in S \X (1 .. n) |-> x[1] \o BytesOf(calls[x[2]])]
           next(a) == [k \in 0 .. n |-> IF k = 0 THEN <<>> ELSE a[k - 1] \o BytesOf(calls[k])]
           bytes == CHOOSE a : a = next(a)
<1>1. n \in Nat /\ \A k \in 1 .. n : calls[k] \in Calls
  BY LenProperties
<1>2. \A k \in 1 .. n : BytesOf(calls[k]) \in S
  <2>1. 0 \in Nat /\ Writer(0) \in Writers(0)
    BY DEF Writer, Writers
  <2>2. \A call \in Calls : BytesOf(call) \in S
    BY <2>1, MakeWrites
  <2> QED
    BY <1>1, <2>2
<1>3. \A x \in S, k \in 1 .. n : x \o BytesOf(calls[k]) \in S
  BY <1>2, ConcatProperties
<1> HIDE DEF n, S
<1>4. step \in [S \X (1 .. n) -> S] /\ \A x \in S, k \in 1 .. n : step[x, k] = x \o BytesOf(calls[k])
  BY <1>3
<1> HIDE DEF step
<1>5. <<>> \in S
  BY DEF S
<1>6. PICK f \in [0 .. n -> S] : Iterates(f, n, <<>>, step)
  BY <1>1, <1>4, <1>5, Iteration
<1>7. 0 \in 0 .. n /\ \A k \in 1 .. n : k \in 0 .. n /\ k - 1 \in 0 .. n /\ k # 0
  BY <1>1
<1>8. \A k \in 0 .. n : k # 0 => k \in 1 .. n
  BY <1>1
<1>9. f = next(f)
  <2>1. \A k \in 1 .. n : f[k] = f[k - 1] \o BytesOf(calls[k])
    BY <1>4, <1>6, <1>7, Zenon DEF Iterates
  <2>2. f[0] = <<>>
    BY <1>6, Zenon DEF Iterates
  <2>3. f = [k \in 0 .. n |-> f[k]]
    BY <1>6, Zenon
  <2>4. \A k \in 0 .. n : f[k] = IF k = 0 THEN <<>> ELSE f[k - 1] \o BytesOf(calls[k])
    BY <1>8, <2>1, <2>2, Zenon
  <2> QED
    BY <2>3, <2>4, Zenon
<1>10. bytes = next(bytes)
  BY <1>9, Zenon
<1>11. bytes[n] = Encoding(calls)
  BY Zenon DEF Encoding, n
<1> HIDE DEF bytes
<1>12. bytes[0] = <<>> /\ \A k \in 1 .. n : bytes[k] = bytes[k - 1] \o BytesOf(calls[k])
  <2>1. \A k \in 0 .. n : bytes[k] = IF k = 0 THEN <<>> ELSE bytes[k - 1] \o BytesOf(calls[k])
    BY <1>10, Zenon
  <2> QED
    BY <1>7, <2>1, Zenon
<1>13. \A k \in 0 .. n : bytes[k] \in S
  <2> DEFINE T == {k \in 0 .. n : bytes[k] \in S}
  <2>1. 0 \in T /\ \A k \in 1 .. n : k - 1 \in T => k \in T
    BY <1>3, <1>5, <1>7, <1>12, Zenon
  <2>2. \A k \in 0 .. n : k \in T
    <3> HIDE DEF T
    <3> QED
      BY <1>1, <2>1, Induction
  <2> QED
    BY <2>2
<1>14. bytes \in [0 .. n -> S]
  <2>1. bytes = [k \in 0 .. n |-> bytes[k]]
    <3>1. DOMAIN bytes = 0 .. n
      BY <1>10, Zenon
    <3>2. next(bytes) = [k \in 0 .. n |-> next(bytes)[k]]
      BY Zenon
    <3> QED
      BY <1>10, <3>2, Zenon
  <2> QED
    BY <1>13, <2>1, Zenon
<1> QED
  BY <1>11, <1>12, <1>14, Zenon DEF n, S

(* A sequence of calls writes what each of them has to write.               *)
LEMMA CallsAreWritten ==
    ASSUME NEW capacity \in Nat, NEW calls \in Seq(Calls)
    PROVE  /\ Encoding(calls) \in Seq(Byte) /\ Written(capacity, calls) \in Writers(capacity)
           /\ Wrote(Writer(capacity), Written(capacity, calls), Encoding(calls))
<1> DEFINE n == Len(calls)
           w == Writer(capacity)
           V == Writers(capacity)
           step == [x \in V \X (1 .. n) |-> Make(x[1], calls[x[2]])]
           data == [k \in 1 .. n |-> BytesOf(calls[k])]
           next(a) == [k \in 0 .. n |-> IF k = 0 THEN w
                                       ELSE IF a[k - 1].ok THEN Make(a[k - 1], calls[k]) ELSE a[k - 1]]
           after == CHOOSE a : a = next(a)
<1>1. n \in Nat /\ w \in V /\ \A k \in 1 .. n : calls[k] \in Calls
  <2>1. n \in Nat /\ \A k \in 1 .. n : calls[k] \in Calls
    BY LenProperties
  <2>2. w \in V
    BY DEF Writer, Writers
  <2> QED
    BY <2>1, <2>2
<1> HIDE DEF w
<1>2. \A v \in V, k \in 1 .. n :
         BytesOf(calls[k]) \in Seq(Byte) /\ Make(v, calls[k]) \in V /\ Wrote(v, Make(v, calls[k]), BytesOf(calls[k]))
  BY <1>1, MakeWrites
<1>3. PICK whole \in [0 .. n -> Seq(Byte)] :
         /\ whole[0] = <<>> /\ whole[n] = Encoding(calls)
         /\ \A k \in 1 .. n : whole[k] = whole[k - 1] \o BytesOf(calls[k])
  BY EncodingExists
<1> HIDE DEF n, V
<1>4. step \in [V \X (1 .. n) -> V] /\ \A v \in V, k \in 1 .. n : step[v, k] = Make(v, calls[k])
  BY <1>2
<1>5. data \in [1 .. n -> Seq(Byte)] /\ \A k \in 1 .. n : data[k] = BytesOf(calls[k])
  BY <1>1, <1>2
<1> HIDE DEF step, data
<1>6. Steps(capacity, n, step, data, whole)
  BY <1>1, <1>2, <1>3, <1>4, <1>5, Zenon DEF Steps, V
<1>7. PICK f \in [0 .. n -> V] : States(f, n, w, step, V)
  BY <1>1, <1>4, LoopExists
<1>8. f = next(f)
  <2>1. \A k \in 0 .. n : k # 0 => k - 1 \in 0 .. n /\ k \in 1 .. n
    BY <1>1
  <2>2. \A k \in 0 .. n : f[k] = IF k = 0 THEN w
                         ELSE IF f[k - 1].ok THEN Make(f[k - 1], calls[k]) ELSE f[k - 1]
    <3>1. \A k \in 0 .. n : k # 0 => f[k - 1] \in V
      BY <1>7, <2>1, Zenon
    <3>2. f[0] = w /\ \A k \in 1 .. n : f[k - 1] \in V => f[k] = IF f[k - 1].ok THEN step[f[k - 1], k] ELSE f[k - 1]
      BY <1>7, Zenon DEF States
    <3>3. \A v \in V, k \in 1 .. n : step[v, k] = Make(v, calls[k])
      BY <1>4
    <3>4. \A k \in 1 .. n : f[k - 1] \in V => f[k] = IF f[k - 1].ok THEN Make(f[k - 1], calls[k]) ELSE f[k - 1]
      <4> SUFFICES ASSUME NEW k \in 1 .. n, f[k - 1] \in V
                   PROVE  f[k] = IF f[k - 1].ok THEN Make(f[k - 1], calls[k]) ELSE f[k - 1]
        OBVIOUS
      <4>1. step[f[k - 1], k] = Make(f[k - 1], calls[k])
        BY <3>3
      <4>2. f[k] = IF f[k - 1].ok THEN step[f[k - 1], k] ELSE f[k - 1]
        BY <3>2
      <4> QED
        BY <4>1, <4>2
    <3> QED
      BY <2>1, <3>1, <3>2, <3>4, Zenon
  <2>3. f = [k \in 0 .. n |-> f[k]]
    BY <1>7, Zenon
  <2> QED
    BY <2>2, <2>3, Zenon
<1>9. after = next(after)
  BY <1>8, Zenon
<1>10. States(after, n, w, step, V)
  <2> HIDE DEF after
  <2>1. 0 \in 0 .. n /\ \A k \in 1 .. n : k \in 0 .. n /\ k # 0
    BY <1>1
  <2>2. \A k \in 0 .. n : after[k] = IF k = 0 THEN w
                         ELSE IF after[k - 1].ok THEN Make(after[k - 1], calls[k]) ELSE after[k - 1]
    BY <1>9, Zenon
  <2> QED
    BY <1>4, <2>1, <2>2, Zenon DEF States
<1>11. after[n] \in V /\ Wrote(w, after[n], whole[n])
  <2> HIDE DEF after
  <2> QED
    BY <1>1, <1>6, <1>10, LoopWrites DEF V
<1>12. Encoding(calls) \in Seq(Byte)
  <2>1. n \in 0 .. n
    BY <1>1
  <2> QED
    BY <1>3, <2>1
<1> QED
  BY <1>3, <1>11, <1>12, Zenon DEF Written, Loop, Onward, w, n, V

(* An answer is status 0 and all that its handler writes, or it is kOther   *)
(* alone, whatever the calls and the room there is: nothing is ever cut     *)
(* short, and the room is never exceeded.                                   *)
THEOREM AnswersAreWhole ==
    \A capacity \in Nat \ {0}, calls \in Seq(Calls) :
       /\ Respond(capacity, calls) =
             IF 1 + Len(Encoding(calls)) <= capacity THEN <<kOk>> \o Encoding(calls) ELSE <<kOther>>
       /\ Len(Respond(capacity, calls)) \in 1 .. capacity
<1> SUFFICES ASSUME NEW capacity \in Nat \ {0}, NEW calls \in Seq(Calls)
             PROVE  /\ Respond(capacity, calls) =
                          IF 1 + Len(Encoding(calls)) <= capacity THEN <<kOk>> \o Encoding(calls) ELSE <<kOther>>
                    /\ Len(Respond(capacity, calls)) \in 1 .. capacity
  OBVIOUS
<1> DEFINE room == capacity - 1
           w == Written(room, calls)
           whole == Encoding(calls)
<1>1. room \in Nat
  OBVIOUS
<1>2. whole \in Seq(Byte) /\ Wrote(Writer(room), w, whole)
  BY <1>1, CallsAreWritten
<1>3. Len(whole) \in Nat
  BY <1>2, LenProperties
<1>4. Respond(capacity, calls) = IF w.ok THEN <<kOk>> \o w.buf ELSE <<kOther>>
  BY Zenon DEF Respond
<1> HIDE DEF w, whole
<1>5. Writer(room).ok = TRUE /\ Writer(room).buf = <<>> /\ Writer(room).capacity = room /\ Len(<<>>) = 0
  BY DEF Writer
<1>6. Fits(Writer(room), Len(whole)) <=> 1 + Len(whole) <= capacity
  BY <1>1, <1>3, <1>5 DEF Fits
<1>7. <<>> \o whole = whole
  BY <1>2, ConcatEmptySeq
<1>8. Respond(capacity, calls) = IF 1 + Len(whole) <= capacity THEN <<kOk>> \o whole ELSE <<kOther>>
  BY <1>2, <1>4, <1>5, <1>6, <1>7, Zenon DEF Wrote
<1>9. Len(<<kOk>> \o whole) = 1 + Len(whole)
  BY <1>2, ConcatProperties DEF kOk, Byte
<1>10. Len(Respond(capacity, calls)) \in 1 .. capacity
  BY <1>3, <1>8, <1>9
<1> QED
  BY <1>8, <1>10 DEF whole

-----------------------------------------------------------------------------
(* The reader finds what the writer wrote.                                  *)

(* What the reader finds at o when data were written there.                 *)
Holds(b, o, data) == o + Len(data) <= Len(b) /\ \A i \in 1 .. Len(data) : b[o + i] = data[i]

TwoTo32 == 256 * 256 * 256 * 256

(* A number from its four bytes.                                           *)
LEMMA Digits ==
    ASSUME NEW v \in Nat, v < TwoTo32
    PROVE  LET q == v \div 256
               r == v \div (256 * 256)
               t == v \div (256 * 256 * 256) IN
           /\ v < 256 => v % 256 = v
           /\ v < 256 * 256 => (q % 256) * 256 + (v % 256) = v
           /\ (((t % 256) * 256 + (r % 256)) * 256 + (q % 256)) * 256 + (v % 256) = v
<1> DEFINE q == v \div 256
           r == q \div 256
           t == r \div 256
<1>1. q \in Nat /\ v = 256 * q + (v % 256) /\ v % 256 \in Nat /\ v % 256 < 256
  OBVIOUS
<1>2. r \in Nat /\ q = 256 * r + (q % 256) /\ q % 256 \in Nat /\ q % 256 < 256
  BY <1>1
<1>3. t \in Nat /\ r = 256 * t + (r % 256) /\ r % 256 \in Nat /\ r % 256 < 256
  BY <1>2
<1>4. v \div (256 * 256) = r
  OBVIOUS
<1>5. v \div (256 * 256 * 256) = t
  OBVIOUS
<1> HIDE DEF q, r, t
<1>6. v < 256 => v % 256 = v
  BY <1>1
<1>7. v < 256 * 256 => (q % 256) * 256 + (v % 256) = v
  BY <1>1, <1>2
<1>8. t < 256
  BY <1>1, <1>2, <1>3, SMT DEF TwoTo32
<1>9. t % 256 = t
  BY <1>3, <1>8
<1>10. (((t % 256) * 256 + (r % 256)) * 256 + (q % 256)) * 256 + (v % 256) = v
  BY <1>1, <1>2, <1>3, <1>9
<1> QED
  BY <1>4, <1>5, <1>6, <1>7, <1>10 DEF q

\* value has at most n bytes, and they are in b from p on.
Encodable(value, n) == value < TwoTo32 /\ (n = 1 => value < 256) /\ (n = 2 => value < 256 * 256)
Spelled(b, p, value, n) == \A i \in 1 .. n : b[p + i] = (value \div Scale[n + 1 - i]) % 256

(* The first byte gives back what it was made of.                          *)
LEMMA InitialIsRead ==
    ASSUME NEW major \in 0 .. 7, NEW addl \in 0 .. 31
    PROVE  Initial(major, addl) \div 32 = major /\ Initial(major, addl) % 32 = addl
BY DEF Initial

(* A long head, part by part.                                              *)
LEMMA HeadParts ==
    ASSUME NEW x \in Byte, NEW value \in Nat, NEW n \in {1, 2, 4}, NEW b \in Seq(Byte), NEW o \in Nat,
           Holds(b, o, <<x>> \o BigEndian(value, n))
    PROVE  o + n + 1 <= Len(b) /\ b[o + 1] = x /\ Spelled(b, o + 1, value, n)
<1> DEFINE z == BigEndian(value, n)
           head == <<x>> \o z
<1>1. z \in Seq(Byte) /\ Len(z) = n /\ \A i \in 1 .. n : z[i] = (value \div Scale[n + 1 - i]) % 256
  BY BigEndianIsBytes DEF BigEndian
<1>2. <<x>> \in Seq(Byte) /\ Len(<<x>>) = 1 /\ <<x>>[1] = x
  OBVIOUS
<1> HIDE DEF z
<1>3. Len(head) = n + 1 /\ head[1] = x /\ \A i \in 1 .. n : head[1 + i] = z[i]
  <2>1. \A i \in 1 .. n + 1 : head[i] = IF i <= 1 THEN x ELSE z[i - 1]
    BY <1>1, <1>2, ConcatProperties
  <2>2. Len(head) = n + 1
    BY <1>1, <1>2, ConcatProperties
  <2>3. 1 \in 1 .. n + 1 /\ \A i \in 1 .. n : 1 + i \in 1 .. n + 1 /\ ~(1 + i <= 1) /\ (1 + i) - 1 = i
    OBVIOUS
  <2> QED
    BY <2>1, <2>2, <2>3
<1>4. Holds(b, o, head)
  BY DEF z
<1> HIDE DEF head
<1>5. o + (n + 1) <= Len(b) /\ \A i \in 1 .. n + 1 : b[o + i] = head[i]
  BY <1>3, <1>4 DEF Holds
<1>6. b[o + 1] = x
  <2>1. 1 \in 1 .. n + 1
    OBVIOUS
  <2> QED
    BY <1>3, <1>5, <2>1
<1>7. \A i \in 1 .. n : b[o + 1 + i] = z[i]
  <2>1. \A i \in 1 .. n : 1 + i \in 1 .. n + 1 /\ o + 1 + i = o + (1 + i)
    OBVIOUS
  <2> QED
    BY <1>3, <1>5, <2>1
<1>8. Len(b) \in Nat
  BY LenProperties
<1>9. Spelled(b, o + 1, value, n)
  BY <1>1, <1>7 DEF Spelled
<1> QED
  BY <1>5, <1>6, <1>8, <1>9

(* The bytes of a number give back the number.                             *)
LEMMA NumberIsRead ==
    ASSUME NEW value \in Nat, NEW n \in {1, 2, 4}, Encodable(value, n), NEW b, NEW p \in Nat, Spelled(b, p, value, n)
    PROVE  Number(b, p, n) = value
<1> USE DEF Encodable
<1>0. \A i \in 1 .. n : b[p + i] = (value \div Scale[n + 1 - i]) % 256
  BY DEF Spelled
<1>1. Scale[1] = 1 /\ Scale[2] = 256 /\ Scale[3] = 256 * 256 /\ Scale[4] = 256 * 256 * 256
  BY DEF Scale
<1>2. value \div 1 = value
  OBVIOUS
<1>3. CASE n = 1
  <2>1. b[p + 1] = value % 256
    BY <1>0, <1>1, <1>2, <1>3
  <2> QED
    BY <1>3, <2>1, Digits DEF Number
<1>4. CASE n = 2
  <2>1. b[p + 1] = (value \div 256) % 256 /\ b[p + 2] = value % 256
    BY <1>0, <1>1, <1>2, <1>4
  <2>2. Number(b, p, n) = b[p + 1] * 256 + b[p + 2]
    BY <1>4 DEF Number
  <2> QED
    BY <1>4, <2>1, <2>2, Digits
<1>5. CASE n = 4
  <2>1. /\ b[p + 1] = (value \div (256 * 256 * 256)) % 256 /\ b[p + 2] = (value \div (256 * 256)) % 256
        /\ b[p + 3] = (value \div 256) % 256 /\ b[p + 4] = value % 256
    BY <1>0, <1>1, <1>2, <1>5
  <2>2. Number(b, p, n) = ((b[p + 1] * 256 + b[p + 2]) * 256 + b[p + 3]) * 256 + b[p + 4]
    BY <1>5 DEF Number
  <2> QED
    BY <2>1, <2>2, Digits
<1> QED
  BY <1>3, <1>4, <1>5

(* A long head gives back what it was made of.                             *)
LEMMA LongHeadIsRead ==
    ASSUME NEW b \in Seq(Byte), NEW o \in Nat, NEW major \in 0 .. 7, NEW value \in Nat,
           NEW n \in {1, 2, 4}, NEW addl \in {24, 25, 26}, LengthBytes(addl) = n, Encodable(value, n),
           Holds(b, o, <<Initial(major, addl)>> \o BigEndian(value, n))
    PROVE  ReadHeader(b, o) = [ok |-> TRUE, at |-> o + n + 1, major |-> major, val |-> value]
<1> DEFINE x == Initial(major, addl)
<1>1. addl \in 0 .. 31 /\ n # 0 /\ n \in Nat /\ addl <= 26 /\ Len(b) \in Nat
  BY LenProperties
<1>2. x \in Byte /\ x \div 32 = major /\ x % 32 = addl
  BY <1>1, InitialIsRead DEF Initial, Byte
<1> HIDE DEF x
<1>3. o + n + 1 <= Len(b) /\ b[o + 1] = x /\ Spelled(b, o + 1, value, n)
  <2>1. Holds(b, o, <<x>> \o BigEndian(value, n))
    BY DEF x
  <2> QED
    BY <1>2, <2>1, HeadParts
<1>4. o + 1 \in Nat /\ ~(Remaining(b, o) < 1) /\ ~(Remaining(b, o + 1) < n) /\ (o + 1) + n = o + n + 1
  BY <1>1, <1>3 DEF Remaining
<1>5. Number(b, o + 1, n) = value
  BY <1>3, <1>4, NumberIsRead
<1>6. ReadHeader(b, o) = Header(b, o + 1, major, addl, n)
  BY <1>2, <1>3, <1>4 DEF ReadHeader
<1>7. Header(b, o + 1, major, addl, n) =
          [ok |-> TRUE, at |-> (o + 1) + n, major |-> major, val |-> Number(b, o + 1, n)]
  BY <1>1, <1>4 DEF Header
<1> QED
  BY <1>4, <1>5, <1>6, <1>7

(* A head is read back.                                                     *)
LEMMA HeaderIsRead ==
    ASSUME NEW b \in Seq(Byte), NEW o \in Nat, NEW major \in 0 .. 7, NEW value \in Nat, value < TwoTo32,
           Holds(b, o, HeadBytes(major, value))
    PROVE  ReadHeader(b, o) = [ok |-> TRUE, at |-> o + Len(HeadBytes(major, value)), major |-> major, val |-> value]
<1>1. CASE value < 24
  <2>1. HeadBytes(major, value) = <<Initial(major, value)>> /\ value \in 0 .. 31
    BY <1>1 DEF HeadBytes
  <2>2. Len(HeadBytes(major, value)) = 1 /\ o + 1 <= Len(b) /\ b[o + 1] = Initial(major, value)
    BY <2>1 DEF Holds
  <2>3. b[o + 1] \div 32 = major /\ b[o + 1] % 32 = value
    BY <2>1, <2>2, InitialIsRead
  <2>4. LengthBytes(value) = 0
    BY <1>1 DEF LengthBytes
  <2>5. Len(b) \in Nat /\ ~(value > 26)
    BY <1>1, LenProperties
  <2>6. ~(Remaining(b, o) < 1) /\ ~(Remaining(b, o + 1) < 0) /\ (o + 1) + 0 = o + 1
    BY <2>2, <2>5 DEF Remaining
  <2>7. ReadHeader(b, o) = Header(b, o + 1, major, value, 0)
    BY <2>3, <2>4, <2>6 DEF ReadHeader
  <2>8. Header(b, o + 1, major, value, 0) = [ok |-> TRUE, at |-> (o + 1) + 0, major |-> major, val |-> value]
    BY <2>5, <2>6 DEF Header
  <2> QED
    BY <2>2, <2>6, <2>7, <2>8
<1>2. \A addl \in 0 .. 31, n \in {1, 2, 4} : Len(<<Initial(major, addl)>> \o BigEndian(value, n)) = n + 1
  BY LongHead
<1>3. CASE value >= 24 /\ value < 256
  <2>1. HeadBytes(major, value) = <<Initial(major, 24)>> \o BigEndian(value, 1)
    BY <1>3 DEF HeadBytes
  <2>2. LengthBytes(24) = 1 /\ Encodable(value, 1)
    BY <1>3 DEF LengthBytes, Encodable
  <2>3. ReadHeader(b, o) = [ok |-> TRUE, at |-> o + 1 + 1, major |-> major, val |-> value]
    BY <2>1, <2>2, LongHeadIsRead
  <2>4. Len(HeadBytes(major, value)) = 1 + 1
    BY <1>2, <2>1
  <2>5. o + (1 + 1) = o + 1 + 1
    OBVIOUS
  <2> QED
    BY <2>3, <2>4, <2>5
<1>4. CASE value >= 256 /\ value < 256 * 256
  <2>1. HeadBytes(major, value) = <<Initial(major, 25)>> \o BigEndian(value, 2)
    BY <1>4 DEF HeadBytes
  <2>2. LengthBytes(25) = 2 /\ Encodable(value, 2)
    BY <1>4 DEF LengthBytes, Encodable
  <2>3. ReadHeader(b, o) = [ok |-> TRUE, at |-> o + 2 + 1, major |-> major, val |-> value]
    BY <2>1, <2>2, LongHeadIsRead
  <2>4. Len(HeadBytes(major, value)) = 2 + 1
    BY <1>2, <2>1
  <2>5. o + (2 + 1) = o + 2 + 1
    OBVIOUS
  <2> QED
    BY <2>3, <2>4, <2>5
<1>5. CASE value >= 256 * 256
  <2>1. HeadBytes(major, value) = <<Initial(major, 26)>> \o BigEndian(value, 4)
    BY <1>5 DEF HeadBytes
  <2>2. LengthBytes(26) = 4 /\ Encodable(value, 4)
    BY <1>5 DEF LengthBytes, Encodable
  <2>3. ReadHeader(b, o) = [ok |-> TRUE, at |-> o + 4 + 1, major |-> major, val |-> value]
    BY <2>1, <2>2, LongHeadIsRead
  <2>4. Len(HeadBytes(major, value)) = 4 + 1
    BY <1>2, <2>1
  <2>5. o + (4 + 1) = o + 4 + 1
    OBVIOUS
  <2> QED
    BY <2>3, <2>4, <2>5
<1> QED
  BY <1>1, <1>3, <1>4, <1>5

\* The same offset of what was written and what may follow it.
LEMMA HoldsWritten ==
    ASSUME NEW a \in Seq(Byte), NEW data \in Seq(Byte), NEW post \in Seq(Byte)
    PROVE  /\ (a \o data) \o post \in Seq(Byte) /\ Len(a) \in Nat
           /\ Holds((a \o data) \o post, Len(a), data) /\ Len(a \o data) = Len(a) + Len(data)
<1>1. Len(a) \in Nat /\ Len(data) \in Nat /\ Len(post) \in Nat
  BY LenProperties
<1> DEFINE m == a \o data
           b == m \o post
<1>2. /\ m \in Seq(Byte) /\ Len(m) = Len(a) + Len(data)
      /\ \A i \in 1 .. Len(a) + Len(data) : m[i] = IF i <= Len(a) THEN a[i] ELSE data[i - Len(a)]
  BY ConcatProperties
<1> HIDE DEF m
<1>3. /\ b \in Seq(Byte) /\ Len(b) = Len(m) + Len(post)
      /\ \A i \in 1 .. Len(m) + Len(post) : b[i] = IF i <= Len(m) THEN m[i] ELSE post[i - Len(m)]
  <2>1. m \in Seq(Byte)
    BY <1>2
  <2> QED
    BY <2>1, ConcatProperties
<1> HIDE DEF b
<1>4. ASSUME NEW i \in 1 .. Len(data) PROVE b[Len(a) + i] = data[i]
  <2>1. /\ Len(a) + i \in 1 .. Len(a) + Len(data) /\ Len(a) + i \in 1 .. Len(m) + Len(post)
        /\ ~(Len(a) + i <= Len(a)) /\ Len(a) + i <= Len(m)
        /\ (Len(a) + i) - Len(a) = i
    BY <1>1, <1>2
  <2> QED
    BY <1>2, <1>3, <2>1
<1>5. Holds(b, Len(a), data)
  BY <1>1, <1>2, <1>3, <1>4 DEF Holds
<1> QED
  BY <1>1, <1>2, <1>3, <1>5 DEF b, m

\* A string is in b after its head.
LEMMA StringIsRead ==
    ASSUME NEW b \in Seq(Byte), NEW o \in Nat, NEW major \in 0 .. 7, NEW data \in Seq(Byte), Len(data) < TwoTo32,
           Holds(b, o, HeadBytes(major, Len(data)) \o data)
    PROVE  ReadString(major, b, o) = Yes(o + Len(HeadBytes(major, Len(data)) \o data), data)
<1> DEFINE head == HeadBytes(major, Len(data))
           n == Len(data)
           at == o + Len(head)
<1>1. head \in Seq(Byte) /\ Len(head) \in Nat /\ n \in Nat /\ Len(b) \in Nat
  BY HeadIsBytes, LenProperties
<1>2. /\ Len(head \o data) = Len(head) + n
      /\ \A i \in 1 .. Len(head) + n : (head \o data)[i] = IF i <= Len(head) THEN head[i] ELSE data[i - Len(head)]
  <2> HIDE DEF head
  <2> QED
    BY <1>1, ConcatProperties
<1>3. Holds(b, o, head \o data)
  OBVIOUS
<1>4. ReadHeader(b, o) = [ok |-> TRUE, at |-> at, major |-> major, val |-> n]
  <2>1. Holds(b, o, head)
    <3> HIDE DEF head, n
    <3>1. o + (Len(head) + n) <= Len(b) /\ \A i \in 1 .. Len(head) + n : b[o + i] = (head \o data)[i]
      BY <1>2, <1>3 DEF Holds
    <3>2. \A i \in 1 .. Len(head) : i \in 1 .. Len(head) + n /\ i <= Len(head)
      BY <1>1
    <3>3. o + Len(head) <= Len(b)
      BY <1>1, <3>1
    <3> QED
      BY <1>2, <3>1, <3>2, <3>3 DEF Holds
  <2> QED
    BY <1>1, <2>1, HeaderIsRead
<1> HIDE DEF head
<1>5. at \in Nat /\ at + n <= Len(b) /\ \A i \in 1 .. n : b[at + i] = data[i]
  <2>1. o + (Len(head) + n) <= Len(b) /\ \A i \in 1 .. Len(head) + n : b[o + i] = (head \o data)[i]
    BY <1>2, <1>3 DEF Holds
  <2>2. \A i \in 1 .. n : Len(head) + i \in 1 .. Len(head) + n /\ ~(Len(head) + i <= Len(head))
                        /\ (Len(head) + i) - Len(head) = i /\ o + (Len(head) + i) = at + i
    BY <1>1
  <2>3. at \in Nat /\ at + n <= Len(b)
    BY <1>1, <2>1
  <2> QED
    BY <1>2, <2>1, <2>2, <2>3
<1> HIDE DEF at, n
<1>6. SubSeq(b, at + 1, at + n) = data
  <2>1. at + 1 \in Nat /\ at + n \in Nat /\ (at + n) - (at + 1) + 1 = n
    BY <1>1, <1>5
  <2>2. SubSeq(b, at + 1, at + n) = [i \in 1 .. n |-> b[at + i]]
    BY <1>1, <1>5, <2>1, SubSeqProperties
  <2>3. data = [i \in 1 .. n |-> data[i]]
    BY LenProperties DEF n
  <2> QED
    BY <1>5, <2>2, <2>3
<1>7. ReadOf(major, b, o) = [ok |-> TRUE, at |-> at, val |-> n]
  BY <1>4 DEF ReadOf, OfType, Yes
<1>8. n <= Remaining(b, at)
  BY <1>1, <1>5 DEF Remaining
<1>9. ReadString(major, b, o) = Yes(at + n, data)
  <2> DEFINE h == [ok |-> TRUE, at |-> at, val |-> n]
  <2>1. h.ok = TRUE /\ h.at = at /\ h.val = n
    OBVIOUS
  <2>2. ReadString(major, b, o) = Contained(b, h)
    BY <1>7, Zenon DEF ReadString
  <2> HIDE DEF h
  <2> QED
    BY <1>6, <1>8, <2>1, <2>2, Zenon DEF Contained
<1>10. at + n = o + Len(head \o data)
  BY <1>1, <1>2 DEF at
<1> QED
  BY <1>9, <1>10 DEF head

(* What the writer writes, at any place, the reader finds there, and goes   *)
(* on behind it: numbers, counts up to the reader's limit, strings and      *)
(* Booleans, of at most 32 bits and with anything after them.               *)
THEOREM WrittenIsRead ==
    \A capacity \in Nat, post \in Seq(Byte) : \A w \in Writers(capacity) :
       LET Back(v, Read(_, _), value) == v.ok => Read(v.buf \o post, Len(w.buf)) = Yes(Len(v.buf), value) IN
       /\ \A i \in -TwoTo32 .. TwoTo32 - 1 : Back(WriteInt(w, i), ReadInt, i)
       /\ \A n \in 0 .. TwoTo32 - 1 : Back(WriteInt(w, n), ReadUInt, n)
       /\ \A n \in 0 .. MaxCount : Back(WriteMap(w, n), ReadMap, n) /\ Back(WriteArray(w, n), ReadArray, n)
       /\ \A data \in Seq(Byte) : Len(data) < TwoTo32 =>
             Back(WriteBytes(w, data), ReadBytes, data) /\ Back(WriteText(w, data), ReadText, data)
       /\ \A x \in BOOLEAN : Back(WriteBool(w, x), ReadBool, x)
<1> SUFFICES ASSUME NEW capacity \in Nat, NEW post \in Seq(Byte), NEW w \in Writers(capacity)
             PROVE  LET Back(v, Read(_, _), value) == v.ok => Read(v.buf \o post, Len(w.buf)) = Yes(Len(v.buf), value) IN
                    /\ \A i \in -TwoTo32 .. TwoTo32 - 1 : Back(WriteInt(w, i), ReadInt, i)
                    /\ \A n \in 0 .. TwoTo32 - 1 : Back(WriteInt(w, n), ReadUInt, n)
                    /\ \A n \in 0 .. MaxCount : Back(WriteMap(w, n), ReadMap, n) /\ Back(WriteArray(w, n), ReadArray, n)
                    /\ \A data \in Seq(Byte) : Len(data) < TwoTo32 =>
                          Back(WriteBytes(w, data), ReadBytes, data) /\ Back(WriteText(w, data), ReadText, data)
                    /\ \A x \in BOOLEAN : Back(WriteBool(w, x), ReadBool, x)
  BY Zenon
<1> DEFINE Is(v, data) == /\ v.buf \o post \in Seq(Byte) /\ Len(w.buf) \in Nat
                          /\ Holds(v.buf \o post, Len(w.buf), data) /\ Len(v.buf) = Len(w.buf) + Len(data)
<1>1. \A v, data : data \in Seq(Byte) /\ Wrote(w, v, data) /\ v.ok => Is(v, data)
  <2> SUFFICES ASSUME NEW v, NEW data \in Seq(Byte), Wrote(w, v, data), v.ok PROVE Is(v, data)
    BY Zenon
  <2>1. w.buf \in Seq(Byte)
    BY DEF Writers
  <2>2. v.buf = w.buf \o data
    BY Zenon DEF Wrote
  <2>3. \A a \in Seq(Byte) : /\ (a \o data) \o post \in Seq(Byte) /\ Len(a) \in Nat
           /\ Holds((a \o data) \o post, Len(a), data) /\ Len(a \o data) = Len(a) + Len(data)
    BY HoldsWritten
  <2> QED
    BY <2>1, <2>2, <2>3, Zenon
<1>2. TwoTo32 \in Nat /\ MaxCount < TwoTo32 /\ MaxCount \in Nat
  BY SMT DEF TwoTo32, MaxCount
<1>3. ASSUME NEW major \in 0 .. 7, NEW n \in Nat, n < TwoTo32, NEW v, v = WriteType(w, major, n), v.ok
      PROVE  ReadHeader(v.buf \o post, Len(w.buf)) = [ok |-> TRUE, at |-> Len(v.buf), major |-> major, val |-> n]
  <2>1. Wrote(w, v, HeadBytes(major, n)) /\ HeadBytes(major, n) \in Seq(Byte)
    BY <1>3, TypeIsWritten, HeadIsBytes
  <2>2. Is(v, HeadBytes(major, n))
    BY <1>1, <1>3, <2>1, Zenon
  <2>3. /\ v.buf \o post \in Seq(Byte) /\ Len(w.buf) \in Nat
        /\ Holds(v.buf \o post, Len(w.buf), HeadBytes(major, n)) /\ Len(v.buf) = Len(w.buf) + Len(HeadBytes(major, n))
    BY <2>2
  <2>4. ReadHeader(v.buf \o post, Len(w.buf)) =
           [ok |-> TRUE, at |-> Len(w.buf) + Len(HeadBytes(major, n)), major |-> major, val |-> n]
    <3> HIDE DEF Is
    <3>1. n < TwoTo32
      BY <1>3
    <3> QED
      BY <2>3, <3>1, HeaderIsRead
  <2> QED
    BY <2>3, <2>4, Zenon
<1>4. ASSUME NEW major \in 0 .. 7, NEW data \in Seq(Byte), Len(data) < TwoTo32, NEW v,
             v = WriteRaw(WriteType(w, major, Len(data)), data), v.ok
      PROVE  ReadString(major, v.buf \o post, Len(w.buf)) = Yes(Len(v.buf), data)
  <2> DEFINE bytes == HeadBytes(major, Len(data)) \o data
  <2>1. Wrote(w, v, bytes) /\ bytes \in Seq(Byte)
    BY <1>4, StringIsWritten
  <2>2. Is(v, bytes)
    BY <1>1, <1>4, <2>1, Zenon
  <2>3. /\ v.buf \o post \in Seq(Byte) /\ Len(w.buf) \in Nat
        /\ Holds(v.buf \o post, Len(w.buf), bytes) /\ Len(v.buf) = Len(w.buf) + Len(bytes)
    BY <2>2
  <2>4. ReadString(major, v.buf \o post, Len(w.buf)) = Yes(Len(w.buf) + Len(bytes), data)
    <3> HIDE DEF Is
    <3>1. Len(data) < TwoTo32
      BY <1>4
    <3> QED
      BY <2>3, <3>1, StringIsRead
  <2> QED
    BY <2>3, <2>4, Zenon
<1> HIDE DEF Is
<1>5. ASSUME NEW i \in -TwoTo32 .. TwoTo32 - 1, WriteInt(w, i).ok
      PROVE  ReadInt(WriteInt(w, i).buf \o post, Len(w.buf)) = Yes(Len(WriteInt(w, i).buf), i)
  <2> DEFINE v == WriteInt(w, i)
             h == ReadHeader(v.buf \o post, Len(w.buf))
  <2>1. CASE i >= 0
    <3>1. i \in Nat /\ i < TwoTo32 /\ v = WriteType(w, UInt, i)
      BY <1>2, <2>1 DEF WriteInt
    <3>2. h = [ok |-> TRUE, at |-> Len(v.buf), major |-> UInt, val |-> i]
      BY <1>3, <1>5, <3>1 DEF UInt
    <3>3. h.ok = TRUE /\ h.major = UInt /\ h.at = Len(v.buf) /\ h.val = i
      BY <3>2
    <3> HIDE DEF h, v
    <3>4. Signed(h) = Yes(Len(v.buf), i)
      BY <3>3 DEF Signed, UInt, Nint
    <3> QED
      BY <3>4, Zenon DEF ReadInt, h, v
  <2>2. CASE ~(i >= 0)
    <3>1. -1 - i \in Nat /\ -1 - i < TwoTo32 /\ -1 - (-1 - i) = i /\ v = WriteType(w, Nint, -1 - i)
      BY <1>2, <2>2 DEF WriteInt
    <3>2. h = [ok |-> TRUE, at |-> Len(v.buf), major |-> Nint, val |-> -1 - i]
      BY <1>3, <1>5, <3>1 DEF Nint
    <3> QED
      BY <3>1, <3>2 DEF ReadInt, Signed, UInt, Nint
  <2> QED
    BY <2>1, <2>2
<1>6. ASSUME NEW n \in 0 .. TwoTo32 - 1, WriteInt(w, n).ok
      PROVE  ReadUInt(WriteInt(w, n).buf \o post, Len(w.buf)) = Yes(Len(WriteInt(w, n).buf), n)
  <2> DEFINE v == WriteInt(w, n)
  <2>1. n \in Nat /\ n < TwoTo32 /\ v = WriteType(w, UInt, n)
    BY <1>2 DEF WriteInt
  <2>2. ReadHeader(v.buf \o post, Len(w.buf)) = [ok |-> TRUE, at |-> Len(v.buf), major |-> UInt, val |-> n]
    BY <1>3, <1>6, <2>1 DEF UInt
  <2> QED
    BY <2>2 DEF ReadUInt, ReadOf, OfType
<1>7. ASSUME NEW major \in 0 .. 7, NEW n \in 0 .. MaxCount, NEW v, v = WriteType(w, major, n), v.ok
      PROVE  ReadCount(major, v.buf \o post, Len(w.buf)) = Yes(Len(v.buf), n)
  <2>1. n \in Nat /\ n < TwoTo32 /\ n <= MaxCount
    BY <1>2
  <2>2. ReadHeader(v.buf \o post, Len(w.buf)) = [ok |-> TRUE, at |-> Len(v.buf), major |-> major, val |-> n]
    BY <1>3, <1>7, <2>1
  <2>3. ReadOf(major, v.buf \o post, Len(w.buf)) = [ok |-> TRUE, at |-> Len(v.buf), val |-> n]
    BY <2>2 DEF ReadOf, OfType, Yes
  <2> QED
    BY <2>1, <2>3 DEF ReadCount, AtMost, Yes
<1>8. ASSUME NEW x \in BOOLEAN, WriteBool(w, x).ok
      PROVE  ReadBool(WriteBool(w, x).buf \o post, Len(w.buf)) = Yes(Len(WriteBool(w, x).buf), x)
  <2> DEFINE v == WriteBool(w, x)
             byte == IF x THEN True ELSE False
             b == v.buf \o post
             o == Len(w.buf)
  <2>1. byte \in Byte /\ byte \in {False, True} /\ (byte = True) = x
    BY DEF True, False, Byte
  <2> HIDE DEF byte
  <2>2. <<byte>> \in Seq(Byte) /\ Len(<<byte>>) = 1 /\ <<byte>>[1] = byte
    BY <2>1
  <2>3. v = WriteRaw(w, <<byte>>)
    BY Zenon DEF WriteBool, WriteByte, byte
  <2>4. Wrote(w, v, <<byte>>)
    BY <2>2, <2>3, WriteRawWrites
  <2>5. Is(v, <<byte>>)
    BY <1>1, <1>8, <2>2, <2>4, Zenon
  <2>6. b \in Seq(Byte) /\ o \in Nat /\ Holds(b, o, <<byte>>) /\ Len(v.buf) = o + 1
    BY <2>2, <2>5 DEF Is
  <2>7. Len(b) \in Nat
    BY <2>6, LenProperties
  <2> HIDE DEF b, o
  <2>8. Remaining(b, o) >= 1 /\ b[o + 1] = byte
    BY <2>2, <2>6, <2>7 DEF Holds, Remaining
  <2>9. ReadBool(b, o) = Yes(o + 1, byte = True)
    BY <2>1, <2>8, Zenon DEF ReadBool
  <2>10. Yes(o + 1, byte = True) = Yes(Len(v.buf), x)
    BY <2>1, <2>6, Zenon
  <2> QED
    BY <2>9, <2>10, Zenon DEF b, o
<1>9. ASSUME NEW n \in 0 .. MaxCount
      PROVE  /\ WriteMap(w, n).ok => ReadMap(WriteMap(w, n).buf \o post, Len(w.buf)) = Yes(Len(WriteMap(w, n).buf), n)
             /\ WriteArray(w, n).ok => ReadArray(WriteArray(w, n).buf \o post, Len(w.buf)) = Yes(Len(WriteArray(w, n).buf), n)
  <2>1. MapOf \in 0 .. 7 /\ ArrayOf \in 0 .. 7
    BY DEF MapOf, ArrayOf
  <2>2. WriteMap(w, n) = WriteType(w, MapOf, n) /\ WriteArray(w, n) = WriteType(w, ArrayOf, n)
    BY Zenon DEF WriteMap, WriteArray
  <2> QED
    BY <1>7, <2>1, <2>2, Zenon DEF ReadMap, ReadArray
<1>10. ASSUME NEW data \in Seq(Byte), Len(data) < TwoTo32
       PROVE  /\ WriteBytes(w, data).ok =>
                    ReadBytes(WriteBytes(w, data).buf \o post, Len(w.buf)) = Yes(Len(WriteBytes(w, data).buf), data)
              /\ WriteText(w, data).ok =>
                    ReadText(WriteText(w, data).buf \o post, Len(w.buf)) = Yes(Len(WriteText(w, data).buf), data)
  <2>1. ByteString \in 0 .. 7 /\ TextString \in 0 .. 7
    BY DEF ByteString, TextString
  <2>2. /\ WriteBytes(w, data) = WriteRaw(WriteType(w, ByteString, Len(data)), data)
        /\ WriteText(w, data) = WriteRaw(WriteType(w, TextString, Len(data)), data)
    BY Zenon DEF WriteBytes, WriteText
  <2> QED
    BY <1>4, <1>10, <2>1, <2>2, Zenon DEF ReadBytes, ReadText
<1> QED
  BY <1>5, <1>6, <1>8, <1>9, <1>10, Zenon

-----------------------------------------------------------------------------
(* The reader stays in the buffer.                                          *)

\* What a read at o may give: nothing, or a value of T and an offset behind o, in the buffer.
Given(b, o, T) == {No} \cup [ok : {TRUE}, at : o + 1 .. Len(b), val : T]

\* The numbers a header holds: readLength reads four bytes at most.
Unsigned == {n \in Nat : n < TwoTo32}

(* They are numbers, and what two bytes spell is one of them.             *)
LEMMA UnsignedAre ==
    /\ Unsigned \subseteq Nat /\ Byte \subseteq Unsigned /\ 0 .. 31 \subseteq Unsigned
    /\ \A u, x \in Byte : u * 256 + x \in Unsigned
<1>1. 256 <= TwoTo32 /\ 256 * 256 < TwoTo32 /\ TwoTo32 \in Nat
  BY DEF TwoTo32
<1>2. Unsigned \subseteq Nat
  BY DEF Unsigned
<1>3. Byte \subseteq Unsigned
  BY <1>1 DEF Unsigned, Byte
<1>4. 0 .. 31 \subseteq Unsigned
  BY <1>1 DEF Unsigned
<1>5. ASSUME NEW u \in Byte, NEW x \in Byte PROVE u * 256 + x \in Unsigned
  <2>1. u \in Nat /\ u < 256 /\ x \in Nat /\ x < 256
    BY DEF Byte
  <2>2. u * 256 + x \in Nat /\ u * 256 + x < 256 * 256
    BY <2>1
  <2> QED
    BY <1>1, <2>2 DEF Unsigned
<1> QED
  BY <1>2, <1>3, <1>4, <1>5

(* So is what four bytes spell.                                             *)
LEMMA FourBytes ==
    ASSUME NEW u \in Byte, NEW x \in Byte, NEW y \in Byte, NEW z \in Byte
    PROVE  ((u * 256 + x) * 256 + y) * 256 + z \in Unsigned
<1>1. u \in Nat /\ u < 256 /\ x \in Nat /\ x < 256 /\ y \in Nat /\ y < 256 /\ z \in Nat /\ z < 256
  BY DEF Byte
<1>2. \A p, m, v \in Nat : p < m /\ v < 256 => p * 256 + v \in Nat /\ p * 256 + v < m * 256
  OBVIOUS
<1>3. u * 256 + x \in Nat /\ u * 256 + x < 256 * 256
  BY <1>1, <1>2
<1>4. (u * 256 + x) * 256 + y \in Nat /\ (u * 256 + x) * 256 + y < 256 * 256 * 256
  BY <1>1, <1>2, <1>3
<1>5. /\ ((u * 256 + x) * 256 + y) * 256 + z \in Nat
      /\ ((u * 256 + x) * 256 + y) * 256 + z < 256 * 256 * 256 * 256
  BY <1>1, <1>2, <1>4
<1> QED
  BY <1>5 DEF Unsigned, TwoTo32

(* A header read in the buffer ends in the buffer.                         *)
LEMMA HeaderStays ==
    ASSUME NEW b \in Seq(Byte), NEW o \in 0 .. Len(b)
    PROVE  ReadHeader(b, o) \in {No} \cup [ok : {TRUE}, at : o + 1 .. Len(b), major : 0 .. 7, val : Unsigned]
<1>1. Len(b) \in Nat /\ \A i \in 1 .. Len(b) : b[i] \in Byte
  BY LenProperties
<1>2. CASE Remaining(b, o) < 1
  BY <1>2 DEF ReadHeader
<1>3. CASE ~(Remaining(b, o) < 1)
  <2> DEFINE major == b[o + 1] \div 32
             addl == b[o + 1] % 32
             n == LengthBytes(addl)
  <2>1. o + 1 \in 1 .. Len(b) /\ o + 1 <= Len(b) /\ o + 1 \in Nat
    BY <1>1, <1>3 DEF Remaining
  <2>2. b[o + 1] \in Byte
    BY <1>1, <2>1
  <2>3. major \in 0 .. 7 /\ addl \in 0 .. 31
    <3>1. \A x \in Byte : x \div 32 \in 0 .. 7 /\ x % 32 \in 0 .. 31
      BY DEF Byte
    <3> QED
      BY <2>2, <3>1, Zenon
  <2>4. n \in {0, 1, 2, 4}
    <3> HIDE DEF addl
    <3> QED
      BY <2>3 DEF LengthBytes
  <2>5. ReadHeader(b, o) = Header(b, o + 1, major, addl, n)
    BY <1>3 DEF ReadHeader
  <2> HIDE DEF major, addl, n
  <2>6. CASE addl > 26 \/ Remaining(b, o + 1) < n
    BY <2>5, <2>6 DEF Header
  <2>7. CASE ~(addl > 26 \/ Remaining(b, o + 1) < n)
    <3>1. (o + 1) + n <= Len(b)
      BY <1>1, <2>1, <2>4, <2>7 DEF Remaining
    <3>2. Number(b, o + 1, n) \in Unsigned \/ n = 0
      <4>1. \A i \in 1 .. n : b[o + 1 + i] \in Byte
        BY <1>1, <2>1, <2>4, <3>1
      <4>2. CASE n = 1
        <5>1. b[o + 1 + 1] \in Byte
          BY <4>1, <4>2
        <5>2. Number(b, o + 1, n) = b[o + 1 + 1]
          BY <4>2 DEF Number
        <5> QED
          BY <5>1, <5>2, UnsignedAre, Zenon
      <4>3. CASE n = 2
        <5> DEFINE u == b[o + 1 + 1]
                   x == b[o + 1 + 2]
        <5>1. u \in Byte /\ x \in Byte
          BY <4>1, <4>3
        <5>2. Number(b, o + 1, n) = u * 256 + x
          BY <4>3 DEF Number
        <5> HIDE DEF u, x
        <5>3. u * 256 + x \in Unsigned
          BY <5>1, UnsignedAre
        <5> QED
          BY <5>2, <5>3, Zenon
      <4>4. CASE n = 4
        <5> DEFINE u == b[o + 1 + 1]
                   x == b[o + 1 + 2]
                   y == b[o + 1 + 3]
                   z == b[o + 1 + 4]
        <5>1. u \in Byte /\ x \in Byte /\ y \in Byte /\ z \in Byte
          BY <4>1, <4>4
        <5>2. Number(b, o + 1, n) = ((u * 256 + x) * 256 + y) * 256 + z
          BY <4>4 DEF Number
        <5> HIDE DEF u, x, y, z
        <5>3. ((u * 256 + x) * 256 + y) * 256 + z \in Unsigned
          BY <5>1, FourBytes
        <5> QED
          BY <5>2, <5>3, Zenon
      <4> QED
        BY <2>4, <4>2, <4>3, <4>4
    <3> DEFINE val == IF n = 0 THEN addl ELSE Number(b, o + 1, n)
    <3>3. val \in Unsigned
      BY <2>3, <3>2, UnsignedAre
    <3>4. ReadHeader(b, o) = [ok |-> TRUE, at |-> (o + 1) + n, major |-> major, val |-> val]
      BY <2>5, <2>7 DEF Header
    <3>5. (o + 1) + n \in o + 1 .. Len(b)
      BY <1>1, <2>1, <2>4, <3>1
    <3> HIDE DEF val
    <3> QED
      BY <2>3, <3>3, <3>4, <3>5
  <2> QED
    BY <2>6, <2>7
<1> QED
  BY <1>2, <1>3

(* The two things a read may give.                                          *)
LEMMA GivenIs ==
    \A b, o, T :
       /\ No \in Given(b, o, T) /\ No.ok = FALSE
       /\ \A at \in o + 1 .. Len(b), val \in T : Yes(at, val) \in Given(b, o, T)
       /\ \A r \in Given(b, o, T) :
             r = No \/ (r.ok = TRUE /\ r.at \in o + 1 .. Len(b) /\ r.val \in T /\ r = Yes(r.at, r.val))
<1> SUFFICES ASSUME NEW b, NEW o, NEW T
             PROVE  /\ No \in Given(b, o, T) /\ No.ok = FALSE
                    /\ \A at \in o + 1 .. Len(b), val \in T : Yes(at, val) \in Given(b, o, T)
                    /\ \A r \in Given(b, o, T) :
                          r = No \/ (r.ok = TRUE /\ r.at \in o + 1 .. Len(b) /\ r.val \in T /\ r = Yes(r.at, r.val))
  BY Zenon
<1>1. No.ok = FALSE
  BY DEF No
<1>2. \A at \in o + 1 .. Len(b), val \in T : Yes(at, val) \in [ok : {TRUE}, at : o + 1 .. Len(b), val : T]
  BY DEF Yes
<1>3. ASSUME NEW r \in [ok : {TRUE}, at : o + 1 .. Len(b), val : T]
      PROVE  r.ok = TRUE /\ r.at \in o + 1 .. Len(b) /\ r.val \in T /\ r = Yes(r.at, r.val)
  <2>1. r = [ok |-> r.ok, at |-> r.at, val |-> r.val]
    OBVIOUS
  <2>2. r.ok = TRUE /\ r.at \in o + 1 .. Len(b) /\ r.val \in T
    OBVIOUS
  <2> QED
    BY <2>1, <2>2, Zenon DEF Yes
<1> QED
  BY <1>1, <1>2, <1>3, Zenon DEF Given

(* So do the reads that take a number from a header.                       *)
LEMMA NumberGiven ==
    ASSUME NEW b \in Seq(Byte), NEW o \in 0 .. Len(b)
    PROVE  /\ \A major \in 0 .. 7 : ReadOf(major, b, o) \in Given(b, o, Unsigned)
                                      /\ ReadCount(major, b, o) \in Given(b, o, 0 .. MaxCount)
           /\ ReadInt(b, o) \in Given(b, o, Int)
<1> DEFINE h == ReadHeader(b, o)
<1>1. h \in {No} \cup [ok : {TRUE}, at : o + 1 .. Len(b), major : 0 .. 7, val : Unsigned]
  BY HeaderStays
<1> HIDE DEF h
<1>0. h = No \/ (h.ok = TRUE /\ h.at \in o + 1 .. Len(b) /\ h.major \in 0 .. 7 /\ h.val \in Unsigned)
  BY <1>1
<1>2. ASSUME NEW major \in 0 .. 7 PROVE ReadOf(major, b, o) \in Given(b, o, Unsigned)
  <2>1. ReadOf(major, b, o) = OfType(h, major)
    BY Zenon DEF ReadOf, h
  <2> QED
    BY <1>0, <2>1, GivenIs DEF OfType
<1>3. ASSUME NEW major \in 0 .. 7 PROVE ReadCount(major, b, o) \in Given(b, o, 0 .. MaxCount)
  <2> DEFINE r == ReadOf(major, b, o)
  <2>1. r \in Given(b, o, Unsigned)
    BY <1>2
  <2> HIDE DEF r
  <2>2. ReadCount(major, b, o) = AtMost(r, MaxCount)
    BY Zenon DEF ReadCount, r
  <2>3. MaxCount \in Nat
    BY DEF MaxCount
  <2>4. r = No \/ (r.ok = TRUE /\ r.at \in o + 1 .. Len(b) /\ r.val \in Nat /\ r = Yes(r.at, r.val))
    BY <2>1, GivenIs, UnsignedAre
  <2>5. CASE r = No \/ ~(r.val <= MaxCount)
    BY <2>2, <2>5, GivenIs DEF AtMost
  <2>6. CASE r # No /\ r.val <= MaxCount
    <3>1. r.val \in 0 .. MaxCount
      BY <2>3, <2>4, <2>6
    <3>2. Yes(r.at, r.val) \in Given(b, o, 0 .. MaxCount)
      BY <2>4, <2>6, <3>1, GivenIs
    <3> QED
      BY <2>2, <2>4, <2>6, <3>2 DEF AtMost
  <2> QED
    BY <2>5, <2>6
<1>4. ReadInt(b, o) \in Given(b, o, Int)
  <2>1. ReadInt(b, o) = Signed(h)
    BY Zenon DEF ReadInt, h
  <2> QED
    <3>1. h.val \in Nat => h.val \in Int /\ -1 - h.val \in Int
      OBVIOUS
    <3>2. Signed(h) = No \/ (h.ok /\ (Signed(h) = Yes(h.at, h.val) \/ Signed(h) = Yes(h.at, -1 - h.val)))
      BY <1>0, GivenIs DEF Signed, UInt, Nint
    <3>3. h.val \in Unsigned => h.val \in Nat
      BY UnsignedAre
    <3> QED
      BY <1>0, <2>1, <3>1, <3>2, <3>3, GivenIs
<1> QED
  BY <1>2, <1>3, <1>4

(* The bytes behind a header are handed out when they are there.           *)
LEMMA ContainedStays ==
    ASSUME NEW b \in Seq(Byte), NEW o \in 0 .. Len(b), NEW at \in o + 1 .. Len(b), NEW val \in Nat,
           NEW h, h.ok, h.at = at, h.val = val
    PROVE  Contained(b, h) \in Given(b, o, Seq(Byte))
<1>1. Len(b) \in Nat /\ \A i \in 1 .. Len(b) : b[i] \in Byte
  BY LenProperties
<1>2. CASE val <= Remaining(b, at)
  <2>1. Contained(b, h) = Yes(at + val, SubSeq(b, at + 1, at + val))
    BY <1>2, Zenon DEF Contained
  <2>2. /\ at + val \in o + 1 .. Len(b) /\ at + 1 \in Int /\ at + val \in Int
        /\ \A i \in at + 1 .. at + val : i \in 1 .. Len(b)
    BY <1>1, <1>2 DEF Remaining
  <2>3. SubSeq(b, at + 1, at + val) \in Seq(Byte)
    BY <1>1, <2>2, SubSeqProperties
  <2> QED
    BY <2>1, <2>2, <2>3 DEF Given, Yes
<1>3. CASE ~(val <= Remaining(b, at))
  <2>1. Contained(b, h) = No
    BY <1>3, Zenon DEF Contained
  <2> QED
    BY <2>1 DEF Given
<1> QED
  BY <1>2, <1>3

(* Byte and text strings, so, lie in the buffer.                           *)
LEMMA StringGiven ==
    ASSUME NEW b \in Seq(Byte), NEW o \in 0 .. Len(b), NEW major \in 0 .. 7
    PROVE  ReadString(major, b, o) \in Given(b, o, Seq(Byte))
<1> DEFINE r == ReadOf(major, b, o)
<1>1. r \in Given(b, o, Unsigned)
  BY NumberGiven
<1> HIDE DEF r
<1>2. ReadString(major, b, o) = Contained(b, r)
  BY Zenon DEF ReadString, r
<1>3. CASE r = No
  <2>1. ~r.ok
    BY <1>3 DEF No
  <2> QED
    BY <1>2, <2>1, Zenon DEF Contained, Given
<1>4. CASE r # No
  <2>1. r.ok = TRUE /\ r.at \in o + 1 .. Len(b) /\ r.val \in Nat
    BY <1>1, <1>4, UnsignedAre DEF Given
  <2>2. r.ok
    BY <2>1
  <2> QED
    BY <1>2, <2>1, <2>2, ContainedStays
<1> QED
  BY <1>3, <1>4

(* A Boolean is one byte of the buffer.                                    *)
LEMMA BoolGiven ==
    ASSUME NEW b \in Seq(Byte), NEW o \in 0 .. Len(b)
    PROVE  ReadBool(b, o) \in Given(b, o, BOOLEAN)
<1>1. Len(b) \in Nat
  BY LenProperties
<1>2. CASE Remaining(b, o) >= 1 /\ b[o + 1] \in {False, True}
  <2>1. ReadBool(b, o) = Yes(o + 1, b[o + 1] = True)
    BY <1>2, Zenon DEF ReadBool
  <2>2. o + 1 \in o + 1 .. Len(b)
    BY <1>1, <1>2 DEF Remaining
  <2>3. (b[o + 1] = True) \in BOOLEAN
    OBVIOUS
  <2> QED
    <3> DEFINE x == b[o + 1] = True
    <3>1. x \in BOOLEAN
      OBVIOUS
    <3>2. ReadBool(b, o) = Yes(o + 1, x)
      BY <2>1
    <3> HIDE DEF x
    <3>3. Yes(o + 1, x) \in Given(b, o, BOOLEAN)
      BY <2>2, <3>1, GivenIs
    <3> QED
      BY <3>2, <3>3
<1>3. CASE ~(Remaining(b, o) >= 1 /\ b[o + 1] \in {False, True})
  BY <1>3, Zenon DEF ReadBool, Given
<1> QED
  BY <1>2, <1>3

(* A loop stays in V.                                                       *)
LEMMA LoopKeeps ==
    ASSUME NEW n \in Nat, NEW V, NEW s \in V, NEW step \in [V \X (1 .. n) -> V], NEW a, States(a, n, s, step, V)
    PROVE  a[n] \in V /\ \A k \in 0 .. n : a[k] \in V
<1> DEFINE T == {k \in 0 .. n : a[k] \in V}
<1>1. a[0] \in V
  BY DEF States
<1>2. ASSUME NEW k \in 1 .. n, a[k - 1] \in V PROVE a[k] \in V
  <2>1. a[k] = IF a[k - 1].ok THEN step[a[k - 1], k] ELSE a[k - 1]
    BY <1>2, Zenon DEF States
  <2>2. step[a[k - 1], k] \in V
    BY <1>2
  <2> QED
    BY <1>2, <2>1, <2>2
<1>3. 0 \in T
  BY <1>1
<1>4. \A k \in 1 .. n : k - 1 \in T => k \in T
  BY <1>2
<1>5. \A k \in 0 .. n : k \in T
  <2> HIDE DEF T
  <2> QED
    BY <1>3, <1>4, Induction
<1>6. \A k \in 0 .. n : a[k] \in V
  BY <1>5
<1>7. n \in 0 .. n
  OBVIOUS
<1> QED
  BY <1>6, <1>7

(* The states of a loop are the only ones.                                  *)
RunsIn(a, n, s, step, V) ==
    n \in Nat /\ s \in V /\ step \in [V \X (1 .. n) -> V] /\ States(a, n, s, step, V)

(* Two runs of the same loop end alike.                                    *)
LEMMA LoopsAgree ==
    \A n, s, step, V : \A a, c : RunsIn(a, n, s, step, V) /\ RunsIn(c, n, s, step, V) => a[n] = c[n]
<1> SUFFICES ASSUME NEW n, NEW s, NEW step, NEW V, NEW a, NEW c, RunsIn(a, n, s, step, V), RunsIn(c, n, s, step, V)
             PROVE  a[n] = c[n]
  OBVIOUS
<1>0. n \in Nat /\ s \in V /\ step \in [V \X (1 .. n) -> V] /\ States(a, n, s, step, V) /\ States(c, n, s, step, V)
  BY DEF RunsIn
<1> DEFINE T == {k \in 0 .. n : a[k] = c[k]}
<1>1. \A k \in 0 .. n : a[k] \in V
  <2> HIDE DEF T
  <2> QED
    BY <1>0, LoopKeeps
<1>2. a[0] = c[0]
  BY <1>0, Zenon DEF States
<1>3. ASSUME NEW k \in 1 .. n, a[k - 1] = c[k - 1] PROVE a[k] = c[k]
  <2>1. a[k - 1] \in V
    BY <1>0, <1>1
  <2> QED
    BY <1>0, <1>3, <2>1, Zenon DEF States
<1>4. 0 \in T
  BY <1>0, <1>2
<1>5. \A k \in 1 .. n : k - 1 \in T => k \in T
  BY <1>0, <1>3
<1>6. \A k \in 0 .. n : k \in T
  <2> HIDE DEF T
  <2> QED
    BY <1>0, <1>4, <1>5, Induction
<1>7. n \in T
  BY <1>0, <1>6
<1> QED
  BY <1>7

-----------------------------------------------------------------------------
(* skip().                                                                  *)

Item == {0} \cup Seq(Byte)

\* Where skip() may be after items behind p, and what one more item makes of that when
\* a[q] is what skip() gives at q.
Behind(b, p) == Given(b, p, Item)
NextItem(b, p, a, m) == [x \in Behind(b, p) \X (1 .. m) |-> IF x[1].ok THEN a[x[1].at] ELSE x[1]]
Skips(b, p, a) == \A q \in p + 1 .. Len(b) : a[q] \in Behind(b, q)

(* What is behind a later offset is behind an earlier one.                 *)
LEMMA BehindIs ==
    ASSUME NEW b, NEW p \in Nat, NEW q \in Nat, p <= q
    PROVE  Behind(b, q) \subseteq Behind(b, p)
<1> SUFFICES ASSUME NEW r \in Behind(b, q) PROVE r \in Behind(b, p)
  OBVIOUS
<1>1. r \in Given(b, q, Item)
  BY DEF Behind
<1>2. CASE r = No
  BY <1>2, GivenIs DEF Behind
<1>3. CASE r # No
  <2>1. r.ok = TRUE /\ r.at \in q + 1 .. Len(b) /\ r.val \in Item /\ r = Yes(r.at, r.val)
    BY <1>1, <1>3, GivenIs
  <2>2. r.at \in p + 1 .. Len(b)
    BY <2>1
  <2>3. Yes(r.at, r.val) \in Given(b, p, Item)
    BY <2>1, <2>2, GivenIs
  <2> QED
    BY <2>1, <2>3 DEF Behind
<1> QED
  BY <1>2, <1>3

(* A step of the loop over items goes on behind p.                         *)
LEMMA NextItemKeeps ==
    ASSUME NEW b \in Seq(Byte), NEW p \in 0 .. Len(b), NEW a, Skips(b, p, a), NEW m \in Nat
    PROVE  NextItem(b, p, a, m) \in [Behind(b, p) \X (1 .. m) -> Behind(b, p)]
<1>1. ASSUME NEW r \in Behind(b, p), r.ok PROVE a[r.at] \in Behind(b, p)
  <2>1. r # No
    BY <1>1, GivenIs
  <2>2. r.at \in p + 1 .. Len(b)
    BY <2>1, GivenIs DEF Behind
  <2>3. a[r.at] \in Behind(b, r.at)
    BY <2>2 DEF Skips
  <2>4. r.at \in Nat /\ p \in Nat /\ p <= r.at
    BY <2>2
  <2> QED
    BY <2>3, <2>4, BehindIs
<1> HIDE DEF Behind
<1>2. \A x \in Behind(b, p) \X (1 .. m) : (IF x[1].ok THEN a[x[1].at] ELSE x[1]) \in Behind(b, p)
  BY <1>1
<1> QED
  BY <1>2 DEF NextItem

\* The items of a container that begin at at, and what skip() gives after n of them.
Items(b, a, n, at) == Repeat(n, LAMBDA s : a[s.at], b, Yes(at, 0))

(* The loop over the items of a container that begins behind p.             *)
LEMMA ItemsRun ==
    ASSUME NEW b \in Seq(Byte), NEW p \in 0 .. Len(b), NEW a, Skips(b, p, a), NEW n \in Nat,
           NEW at \in p + 1 .. Len(b)
    PROVE  \E t : /\ States(t, Rounds(b, n), Yes(at, 0), NextItem(b, p, a, Rounds(b, n)), Behind(b, p))
                  /\ Items(b, a, n, at) = t[Rounds(b, n)]
<1> DEFINE m == Rounds(b, n)
           V == Behind(b, p)
           s == Yes(at, 0)
           step == NextItem(b, p, a, m)
           next(t) == [k \in 0 .. m |-> IF k = 0 THEN s
                                        ELSE IF t[k - 1].ok THEN a[t[k - 1].at] ELSE t[k - 1]]
           after == CHOOSE t : t = next(t)
<1>1. m \in Nat
  BY LenProperties DEF Rounds
<1>2. s \in V
  <2>1. 0 \in Item
    BY DEF Item
  <2> QED
    BY <2>1, GivenIs DEF Behind
<1> HIDE DEF m
<1>3. step \in [V \X (1 .. m) -> V]
  BY <1>1, NextItemKeeps
<1>4. \A v \in V, k \in 1 .. m : v.ok => step[v, k] = a[v.at]
  <2> HIDE DEF V
  <2> QED
    BY DEF NextItem, V
<1> HIDE DEF V, s, step
<1>5. PICK f \in [0 .. m -> V] : States(f, m, s, step, V)
  BY <1>1, <1>2, <1>3, LoopExists
<1>6. f = next(f)
  <2>1. \A k \in 0 .. m : k # 0 => k - 1 \in 0 .. m /\ k \in 1 .. m
    BY <1>1
  <2>2. ASSUME NEW k \in 1 .. m PROVE f[k] = IF f[k - 1].ok THEN a[f[k - 1].at] ELSE f[k - 1]
    <3>1. f[k - 1] \in V
      BY <1>5, <2>1
    <3>2. f[k] = IF f[k - 1].ok THEN step[f[k - 1], k] ELSE f[k - 1]
      BY <1>5, <3>1, Zenon DEF States
    <3> QED
      BY <1>4, <3>1, <3>2, Zenon
  <2>3. f[0] = s
    BY <1>5, Zenon DEF States
  <2>4. f = [k \in 0 .. m |-> f[k]]
    BY <1>5, Zenon
  <2>5. \A k \in 0 .. m : f[k] = IF k = 0 THEN s ELSE IF f[k - 1].ok THEN a[f[k - 1].at] ELSE f[k - 1]
    BY <2>1, <2>2, <2>3, Zenon
  <2> QED
    BY <2>4, <2>5, Zenon
<1>7. after = next(after)
  BY <1>6, Zenon
<1>8. States(after, m, s, step, V)
  <2> HIDE DEF after
  <2>1. 0 \in 0 .. m /\ \A k \in 1 .. m : k \in 0 .. m /\ k # 0
    BY <1>1
  <2>2. \A k \in 0 .. m :
           after[k] = IF k = 0 THEN s ELSE IF after[k - 1].ok THEN a[after[k - 1].at] ELSE after[k - 1]
    BY <1>7, Zenon
  <2> QED
    BY <1>4, <2>1, <2>2, Zenon DEF States
<1>9. Items(b, a, n, at) = after[m]
  BY Zenon DEF Items, Repeat, Loop, Onward, Rounds, m, s
<1> QED
  BY <1>8, <1>9, Zenon DEF m, V, s, step

(* So the loop over the items of a container ends behind it.               *)
LEMMA ItemsKeep ==
    ASSUME NEW b \in Seq(Byte), NEW p \in 0 .. Len(b), NEW a, Skips(b, p, a), NEW n \in Nat,
           NEW at \in p + 1 .. Len(b)
    PROVE  Items(b, a, n, at) \in Behind(b, p)
<1> DEFINE m == Rounds(b, n)
           V == Behind(b, p)
           s == Yes(at, 0)
           step == NextItem(b, p, a, m)
<1>1. m \in Nat
  BY LenProperties DEF Rounds
<1>2. s \in V
  <2>1. 0 \in Item
    BY DEF Item
  <2> QED
    BY <2>1, GivenIs DEF Behind
<1>3. step \in [V \X (1 .. m) -> V]
  BY <1>1, NextItemKeeps
<1>4. PICK t : States(t, m, s, step, V) /\ Items(b, a, n, at) = t[m]
  BY ItemsRun
<1> HIDE DEF m, V, s, step
<1>5. t[m] \in V
  BY <1>1, <1>2, <1>3, <1>4, LoopKeeps
<1> QED
  BY <1>4, <1>5 DEF V

(* The loop looks at the items behind its start only.                      *)
LEMMA ItemsAgree ==
    ASSUME NEW b \in Seq(Byte), NEW p \in 0 .. Len(b), NEW a, Skips(b, p, a), NEW c, Skips(b, p, c),
           \A q \in p + 1 .. Len(b) : a[q] = c[q], NEW n \in Nat, NEW at \in p + 1 .. Len(b)
    PROVE  Items(b, a, n, at) = Items(b, c, n, at)
<1> DEFINE m == Rounds(b, n)
           V == Behind(b, p)
           s == Yes(at, 0)
           step == NextItem(b, p, a, m)
<1>1. m \in Nat
  BY LenProperties DEF Rounds
<1>2. s \in V
  <2>1. 0 \in Item
    BY DEF Item
  <2> QED
    BY <2>1, GivenIs DEF Behind
<1>3. step \in [V \X (1 .. m) -> V]
  BY <1>1, NextItemKeeps
<1>4. step = NextItem(b, p, c, m)
  <2>1. ASSUME NEW v \in V, v.ok PROVE a[v.at] = c[v.at]
    <3>1. v # No
      BY <2>1, GivenIs
    <3>2. v.at \in p + 1 .. Len(b)
      BY <3>1, GivenIs DEF Behind
    <3> QED
      BY <3>2
  <2> HIDE DEF V, m
  <2>2. \A x \in V \X (1 .. m) : (IF x[1].ok THEN a[x[1].at] ELSE x[1]) = (IF x[1].ok THEN c[x[1].at] ELSE x[1])
    BY <2>1
  <2> QED
    BY <2>2 DEF NextItem, V
<1>5. PICK t : States(t, m, s, step, V) /\ Items(b, a, n, at) = t[m]
  BY ItemsRun
<1>6. PICK u : States(u, m, s, NextItem(b, p, c, m), V) /\ Items(b, c, n, at) = u[m]
  BY ItemsRun
<1>7. States(u, m, s, step, V)
  BY <1>4, <1>6, Zenon
<1> HIDE DEF m, V, s, step
<1>8. RunsIn(t, m, s, step, V) /\ RunsIn(u, m, s, step, V)
  BY <1>1, <1>2, <1>3, <1>5, <1>7 DEF RunsIn
<1>9. t[m] = u[m]
  BY <1>8, LoopsAgree
<1> QED
  BY <1>5, <1>6, <1>9

\* One call of skip() at p, when a[q] is what it gives at q further on.
SkipAt(b, a, p) ==
    LET h == ReadHeader(b, p)
    IN  CASE ~h.ok -> No
          [] h.ok /\ h.major \in {UInt, Nint, Simple} -> Yes(h.at, 0)
          [] h.ok /\ h.major \in {ByteString, TextString} -> Contained(b, h)
          [] h.ok /\ h.major \in {ArrayOf, MapOf} -> Items(b, a, IF h.major = MapOf THEN 2 * h.val ELSE h.val, h.at)
          [] OTHER -> No

\* The call when nothing further on is asked for.
Alone(b, p) ==
    LET h == ReadHeader(b, p)
    IN  CASE ~h.ok -> No
          [] h.ok /\ h.major \in {UInt, Nint, Simple} -> Yes(h.at, 0)
          [] h.ok /\ h.major \in {ByteString, TextString} -> Contained(b, h)
          [] OTHER -> No
IsContainer(h) == h.ok /\ h.major \in {ArrayOf, MapOf}
ItemCount(h) == IF h.major = MapOf THEN 2 * h.val ELSE h.val

(* The two ways to skip an item.                                           *)
LEMMA SkipAtIs ==
    \A b, a, p : SkipAt(b, a, p) = IF IsContainer(ReadHeader(b, p))
                                       THEN Items(b, a, ItemCount(ReadHeader(b, p)), ReadHeader(b, p).at)
                                       ELSE Alone(b, p)
<1> SUFFICES ASSUME NEW b, NEW a, NEW p
             PROVE SkipAt(b, a, p) = IF IsContainer(ReadHeader(b, p))
                                       THEN Items(b, a, ItemCount(ReadHeader(b, p)), ReadHeader(b, p).at)
                                       ELSE Alone(b, p)
  BY Zenon
<1> DEFINE h == ReadHeader(b, p)
           whole == Items(b, a, ItemCount(h), h.at)
           cont == Contained(b, h)
           yes == Yes(h.at, 0)
<1>1. SkipAt(b, a, p) = CASE ~h.ok -> No
          [] h.ok /\ h.major \in {UInt, Nint, Simple} -> yes
          [] h.ok /\ h.major \in {ByteString, TextString} -> cont
          [] h.ok /\ h.major \in {ArrayOf, MapOf} -> whole
          [] OTHER -> No
  BY Zenon DEF SkipAt, ItemCount
<1>2. Alone(b, p) = CASE ~h.ok -> No
          [] h.ok /\ h.major \in {UInt, Nint, Simple} -> yes
          [] h.ok /\ h.major \in {ByteString, TextString} -> cont
          [] OTHER -> No
  BY Zenon DEF Alone
<1>3. IsContainer(h) <=> h.ok /\ h.major \in {ArrayOf, MapOf}
  BY DEF IsContainer
<1> HIDE DEF h, whole, cont, yes
<1>4. h.major \in {ArrayOf, MapOf} => ~(h.major \in {UInt, Nint, Simple}) /\ ~(h.major \in {ByteString, TextString})
  BY DEF UInt, Nint, Simple, ByteString, TextString, ArrayOf, MapOf
<1>5. CASE IsContainer(h)
  <2>1. SkipAt(b, a, p) = whole
    BY <1>1, <1>3, <1>4, <1>5
  <2> QED
    BY <1>5, <2>1, Zenon DEF h, whole
<1>6. CASE ~IsContainer(h)
  <2>1. SkipAt(b, a, p) = Alone(b, p)
    BY <1>1, <1>2, <1>3, <1>6
  <2> QED
    BY <1>6, <2>1, Zenon DEF h
<1> QED
  BY <1>5, <1>6

(* An item that contains no other lies in the buffer.                      *)
LEMMA AloneKeeps ==
    ASSUME NEW b \in Seq(Byte), NEW p \in 0 .. Len(b)
    PROVE  Alone(b, p) \in Behind(b, p)
<1> DEFINE h == ReadHeader(b, p)
<1>1. h = No \/ (h.ok = TRUE /\ h.at \in p + 1 .. Len(b) /\ h.major \in 0 .. 7 /\ h.val \in Nat)
  BY HeaderStays, UnsignedAre
<1> DEFINE cont == Contained(b, h)
           yes == Yes(h.at, 0)
<1>2. Alone(b, p) = CASE ~h.ok -> No
          [] h.ok /\ h.major \in {UInt, Nint, Simple} -> yes
          [] h.ok /\ h.major \in {ByteString, TextString} -> cont
          [] OTHER -> No
  BY Zenon DEF Alone
<1> HIDE DEF h
<1>3. ~No.ok /\ No \in Behind(b, p)
  BY GivenIs DEF Behind
<1>4. h # No => yes \in Behind(b, p)
  <2>1. 0 \in Item
    BY DEF Item
  <2> QED
    BY <1>1, <2>1, GivenIs DEF Behind
<1>5. h # No => cont \in Behind(b, p)
  <2> SUFFICES ASSUME h # No PROVE cont \in Behind(b, p)
    OBVIOUS
  <2>1. h.ok /\ h.at \in p + 1 .. Len(b) /\ h.val \in Nat
    BY <1>1
  <2>2. cont \in Given(b, p, Seq(Byte))
    BY <2>1, ContainedStays
  <2>3. Given(b, p, Seq(Byte)) \subseteq Given(b, p, Item)
    BY DEF Given, Item
  <2> QED
    BY <2>2, <2>3 DEF Behind
<1> HIDE DEF cont, yes
<1>6. Alone(b, p) \in {No, yes, cont} /\ (h = No => Alone(b, p) = No)
  <2>1. h.major \in {UInt, Nint, Simple} => ~(h.major \in {ByteString, TextString})
    BY DEF UInt, Nint, Simple, ByteString, TextString
  <2> QED
    BY <1>2, <1>3, <2>1
<1> QED
  BY <1>3, <1>4, <1>5, <1>6

(* What it gives lies behind p when what it gives further on does.          *)
LEMMA SkipAtKeeps ==
    ASSUME NEW b \in Seq(Byte), NEW p \in 0 .. Len(b), NEW a, Skips(b, p, a)
    PROVE  SkipAt(b, a, p) \in Behind(b, p)
<1> DEFINE h == ReadHeader(b, p)
<1>1. h = No \/ (h.ok = TRUE /\ h.at \in p + 1 .. Len(b) /\ h.major \in 0 .. 7 /\ h.val \in Nat)
  BY HeaderStays, UnsignedAre
<1>2. SkipAt(b, a, p) = IF IsContainer(h) THEN Items(b, a, ItemCount(h), h.at) ELSE Alone(b, p)
  BY SkipAtIs, Zenon
<1> HIDE DEF h
<1>3. CASE IsContainer(h)
  <2>1. h # No
    BY <1>3, GivenIs DEF IsContainer
  <2>2. h.at \in p + 1 .. Len(b) /\ ItemCount(h) \in Nat
    BY <1>1, <2>1 DEF ItemCount
  <2> QED
    BY <1>2, <1>3, <2>2, ItemsKeep
<1>4. CASE ~IsContainer(h)
  BY <1>2, <1>4, AloneKeeps
<1> QED
  BY <1>3, <1>4

(* Only what it gives further on matters.                                   *)
LEMMA SkipAtLooksDown ==
    ASSUME NEW b \in Seq(Byte), NEW p \in 0 .. Len(b), NEW a, Skips(b, p, a), NEW c, Skips(b, p, c),
           \A q \in p + 1 .. Len(b) : a[q] = c[q]
    PROVE  SkipAt(b, a, p) = SkipAt(b, c, p)
<1> DEFINE h == ReadHeader(b, p)
<1>1. h = No \/ (h.ok = TRUE /\ h.at \in p + 1 .. Len(b) /\ h.major \in 0 .. 7 /\ h.val \in Nat)
  BY HeaderStays, UnsignedAre
<1>2. /\ SkipAt(b, a, p) = IF IsContainer(h) THEN Items(b, a, ItemCount(h), h.at) ELSE Alone(b, p)
      /\ SkipAt(b, c, p) = IF IsContainer(h) THEN Items(b, c, ItemCount(h), h.at) ELSE Alone(b, p)
  BY SkipAtIs, Zenon
<1> HIDE DEF h
<1>3. CASE IsContainer(h)
  <2>1. h # No
    BY <1>3, GivenIs DEF IsContainer
  <2>2. h.at \in p + 1 .. Len(b) /\ ItemCount(h) \in Nat
    BY <1>1, <2>1 DEF ItemCount
  <2>3. Items(b, a, ItemCount(h), h.at) = Items(b, c, ItemCount(h), h.at)
    BY <2>2, ItemsAgree
  <2> QED
    BY <1>2, <1>3, <2>3
<1>4. CASE ~IsContainer(h)
  BY <1>2, <1>4
<1> QED
  BY <1>3, <1>4

(* skip() gives nothing, or an offset behind where it began, in the buffer. *)
LEMMA SkipStays ==
    ASSUME NEW b \in Seq(Byte), NEW o \in 0 .. Len(b)
    PROVE  Skip(b, o) \in Given(b, o, Item)
<1> DEFINE N == Len(b)
           D == 0 .. N
           V == Behind(b, 0)
           W == {g \in [D -> V] : \A q \in D : g[q] \in Behind(b, q)}
           F == [g \in W |-> [p \in D |-> SkipAt(b, g, p)]]
           rank == [p \in D |-> N - p]
           skip == CHOOSE g : g = [p \in D |-> SkipAt(b, g, p)]
<1>1. N \in Nat
  BY LenProperties
<1>2. \A p \in D : Behind(b, p) \subseteq V
  BY <1>1, BehindIs
<1>3. ASSUME NEW g \in W, NEW p \in D PROVE Skips(b, p, g)
  BY <1>1 DEF Skips
<1>4. ASSUME NEW g \in W, NEW p \in D PROVE SkipAt(b, g, p) \in Behind(b, p)
  <2>1. Skips(b, p, g)
    BY <1>3
  <2> HIDE DEF W
  <2> QED
    BY <2>1, SkipAtKeeps
<1>5. F \in [W -> W]
  <2> SUFFICES ASSUME NEW g \in W PROVE [p \in D |-> SkipAt(b, g, p)] \in W
    OBVIOUS
  <2>1. \A p \in D : SkipAt(b, g, p) \in Behind(b, p) /\ SkipAt(b, g, p) \in V
    BY <1>2, <1>4
  <2> HIDE DEF D, V
  <2> QED
    BY <2>1
<1>6. ASSUME NEW g \in W, NEW h \in W, NEW x \in D, \A y \in D : rank[y] < rank[x] => g[y] = h[y]
      PROVE  F[g][x] = F[h][x]
  <2>1. \A q \in x + 1 .. Len(b) : g[q] = h[q]
    <3> SUFFICES ASSUME NEW q \in x + 1 .. Len(b) PROVE g[q] = h[q]
      OBVIOUS
    <3>1. q \in D /\ rank[q] < rank[x]
      BY <1>1
    <3> QED
      BY <1>6, <3>1
  <2>2. Skips(b, x, g) /\ Skips(b, x, h)
    BY <1>3
  <2>3. SkipAt(b, g, x) = SkipAt(b, h, x)
    <3> HIDE DEF W
    <3> QED
      BY <2>1, <2>2, SkipAtLooksDown
  <2> HIDE DEF W, D
  <2> QED
    BY <2>3
<1>7. W # {}
  <2>1. [p \in D |-> No] \in W
    <3>1. \A p \in D : No \in Behind(b, p)
      BY GivenIs DEF Behind
    <3> HIDE DEF D
    <3> QED
      BY <1>1, <3>1, GivenIs DEF Behind
  <2> QED
    BY <2>1
<1>8. rank \in [D -> 0 .. N]
  BY <1>1
<1>9. LooksDown(F, W, V, D, rank, N)
  <2>1. W \subseteq [D -> V]
    BY Zenon
  <2> HIDE DEF F, rank, W, D, V, N
  <2> QED
    BY <1>1, <1>5, <1>6, <1>7, <1>8, <2>1, Zenon DEF LooksDown
<1>10. PICK f \in W : F[f] = f
  <2> HIDE DEF D, W, F, rank, V, N
  <2> QED
    BY <1>9, Recursion
<1>11. f = [p \in D |-> SkipAt(b, f, p)]
  <2> HIDE DEF D, W
  <2> QED
    BY <1>10, Zenon
<1>12. skip = [p \in D |-> SkipAt(b, skip, p)]
  BY <1>11, Zenon
<1> HIDE DEF skip
<1>13. \A k \in 0 .. N : \A q \in N - k .. N : skip[q] \in Behind(b, q)
  <2> DEFINE T == {k \in 0 .. N : \A q \in N - k .. N : skip[q] \in Behind(b, q)}
  <2>1. ASSUME NEW p \in D, \A q \in p + 1 .. N : skip[q] \in Behind(b, q)
        PROVE  \A q \in p .. N : skip[q] \in Behind(b, q)
    <3>1. Skips(b, p, skip)
      BY <2>1 DEF Skips
    <3>2. SkipAt(b, skip, p) \in Behind(b, p)
      BY <3>1, SkipAtKeeps
    <3>3. skip[p] = SkipAt(b, skip, p)
      BY <1>12
    <3>4. \A q \in p .. N : q = p \/ q \in p + 1 .. N
      BY <1>1
    <3> QED
      BY <2>1, <3>2, <3>3, <3>4
  <2>2. 0 \in T
    <3>1. N \in D /\ 0 \in 0 .. N /\ N - 0 = N /\ \A q : q \notin N + 1 .. N
      BY <1>1
    <3> HIDE DEF N, D
    <3> QED
      BY <2>1, <3>1
  <2>3. ASSUME NEW k \in 1 .. N, k - 1 \in T PROVE k \in T
    <3>1. N - k \in D /\ k \in 0 .. N /\ (N - k) + 1 = N - (k - 1)
      BY <1>1
    <3>2. \A q \in (N - k) + 1 .. N : skip[q] \in Behind(b, q)
      BY <2>3, <3>1
    <3>3. \A q \in N - k .. N : skip[q] \in Behind(b, q)
      BY <2>1, <3>1, <3>2
    <3> QED
      BY <3>1, <3>3
  <2>4. \A k \in 0 .. N : k \in T
    <3> HIDE DEF T, N
    <3> QED
      BY <1>1, <2>2, <2>3, Induction
  <2> QED
    BY <2>4
<1>14. Skip(b, o) = skip[o]
  BY Zenon DEF Skip, SkipAt, Items, skip, D, N
<1>15. N - o \in 0 .. N /\ o \in N - (N - o) .. N
  BY <1>1
<1> QED
  BY <1>13, <1>14, <1>15 DEF Behind

-----------------------------------------------------------------------------
(* The parsers.                                                             *)

\* The states of a parser over b that fills a struct of O.
Parsing(b, O) == [ok : BOOLEAN, at : 0 .. Len(b), out : O]

\* What the members of a struct hold.
Hashes == {<<>>} \cup {v \in Seq(Byte) : Len(v) = HashLen}
RpIds == {<<>>} \cup {v \in Seq(Byte) : Len(v) <= TextSize - 1}
UserHandles == {v \in Seq(Byte) : Len(v) <= UserHandleSize}
ShortLists == {l \in Seq(Seq(Byte)) : Len(l) <= kMaxAllowListEntries}

\* The structs of O may get such a value.
TakesRp(O) == \A out \in O, v \in RpIds : [out EXCEPT !.rp = v] \in O
TakesUser(O) == \A out \in O, v \in UserHandles : [out EXCEPT !.user = v] \in O
TakesHash(O) == \A out \in O, v \in Hashes : [out EXCEPT !.hash = v] \in O
TakesId(O) == \A out \in O, v \in Seq(Byte) : [out EXCEPT !.id = v] \in O
TakesParam(O) == \A out \in O, v \in Seq(Byte) : [out EXCEPT !.param = {v}] \in O
TakesProtocol(O) == \A out \in O, v \in Byte : [out EXCEPT !.protocol = v] \in O
TakesSubCommand(O) == \A out \in O, v \in Byte : [out EXCEPT !.subCommand = v] \in O
TakesOptions(O) ==
    \A out \in O, v \in BOOLEAN :
       [out EXCEPT !.rk = v] \in O /\ [out EXCEPT !.uv = v] \in O /\ [out EXCEPT !.up = v] \in O

(* What a state of a parser is, and what leaves it one.                    *)
LEMMA ParsingIs ==
    \A b, O, s : s \in Parsing(b, O) =>
       /\ Refused(s) \in Parsing(b, O) /\ Refused(s).ok = FALSE
       /\ s.ok \in BOOLEAN /\ s.at \in 0 .. Len(b) /\ s.out \in O
       /\ \A out \in O : [s EXCEPT !.out = out] \in Parsing(b, O) 
       /\ \A at \in 0 .. Len(b) : [s EXCEPT !.at = at] \in Parsing(b, O) /\ [s EXCEPT !.at = at].at = at
BY DEF Parsing, Refused

\* u is s after a read r that put out in the place of the struct, or was refused.
Took(u, s, r, out) == u = Refused(s) \/ (r.ok /\ u = [s EXCEPT !.at = r.at, !.out = out])

(* A parser that takes what a read gave is in such a state again.          *)
LEMMA TookStays ==
    ASSUME NEW b \in Seq(Byte), NEW O, NEW T, NEW s \in Parsing(b, O), NEW r \in Given(b, s.at, T), NEW out,
           r.ok => out \in O, NEW u, Took(u, s, r, out)
    PROVE  u \in Parsing(b, O)
<1>1. CASE u = Refused(s)
  BY <1>1, ParsingIs
<1>2. CASE r.ok /\ u = [s EXCEPT !.at = r.at, !.out = out]
  <2>1. r # No
    BY <1>2, GivenIs
  <2>2. s.at \in 0 .. Len(b) /\ r.at \in s.at + 1 .. Len(b)
    BY <2>1, GivenIs, ParsingIs
  <2>3. r.at \in 0 .. Len(b)
    BY <2>2, LenProperties
  <2> QED
    BY <1>2, <2>3 DEF Parsing
<1> QED
  BY <1>1, <1>2 DEF Took

(* A read that worked gave a value of its kind.                            *)
LEMMA ValueIs ==
    ASSUME NEW b \in Seq(Byte), NEW o, NEW T, NEW r \in Given(b, o, T), r.ok
    PROVE  r.val \in T
<1>1. r # No
  BY GivenIs
<1> QED
  BY <1>1, GivenIs

(* Strings, as the parsers read them.                                      *)
LEMMA TextStays ==
    ASSUME NEW b \in Seq(Byte), NEW o \in 0 .. Len(b)
    PROVE  ReadBytes(b, o) \in Given(b, o, Seq(Byte)) /\ ReadText(b, o) \in Given(b, o, Seq(Byte))
<1>1. ByteString \in 0 .. 7 /\ TextString \in 0 .. 7
  BY DEF ByteString, TextString
<1> QED
  BY <1>1, StringGiven DEF ReadBytes, ReadText

(* Headers of containers and unsigned numbers, as the parsers read them.   *)
LEMMA CountStays ==
    ASSUME NEW b \in Seq(Byte), NEW o \in 0 .. Len(b)
    PROVE  ReadMap(b, o) \in Given(b, o, 0 .. MaxCount) /\ ReadArray(b, o) \in Given(b, o, 0 .. MaxCount)
             /\ ReadUInt(b, o) \in Given(b, o, Unsigned)
<1>1. MapOf \in 0 .. 7 /\ ArrayOf \in 0 .. 7 /\ UInt \in 0 .. 7
  BY DEF MapOf, ArrayOf, UInt
<1> QED
  BY <1>1, NumberGiven DEF ReadMap, ReadArray, ReadUInt

(* A value that is skipped or not kept changes nothing of the struct.      *)
LEMMA IgnoredStays ==
    ASSUME NEW b \in Seq(Byte), NEW O, NEW s \in Parsing(b, O)
    PROVE  Ignored(b, s) \in Parsing(b, O) /\ UnusedText(b, s) \in Parsing(b, O)
<1>1. s.at \in 0 .. Len(b) /\ s.out \in O
  BY ParsingIs
<1>2. Skip(b, s.at) \in Given(b, s.at, Item) /\ ReadText(b, s.at) \in Given(b, s.at, Seq(Byte))
  BY <1>1, SkipStays, TextStays
<1>3. Took(Ignored(b, s), s, Skip(b, s.at), s.out)
  BY Zenon DEF Ignored, Got, Anything, Took
<1>4. Took(UnusedText(b, s), s, ReadText(b, s.at), s.out)
  BY Zenon DEF UnusedText, Got, Anything, Took
<1> QED
  BY <1>1, <1>2, <1>3, <1>4, TookStays

(* The rpId that is kept has room for its end.                             *)
LEMMA RpIdStays ==
    ASSUME NEW b \in Seq(Byte), NEW O, TakesRp(O), NEW s \in Parsing(b, O), NEW least \in Nat
    PROVE  RpId(b, s, least) \in Parsing(b, O)
<1> DEFINE r == ReadText(b, s.at)
           out == IF Len(r.val) \in least .. TextSize - 1 THEN [s.out EXCEPT !.rp = r.val] ELSE s.out
<1>1. s.at \in 0 .. Len(b) /\ s.out \in O
  BY ParsingIs
<1>2. r \in Given(b, s.at, Seq(Byte))
  BY <1>1, TextStays
<1>3. Took(RpId(b, s, least), s, r, out)
  BY Zenon DEF RpId, Got, Took
<1> HIDE DEF r
<1>4. r.ok => out \in O
  <2> SUFFICES ASSUME r.ok, Len(r.val) \in least .. TextSize - 1 PROVE [s.out EXCEPT !.rp = r.val] \in O
    BY <1>1
  <2>1. r.val \in RpIds
    BY <1>2, ValueIs DEF RpIds
  <2> QED
    BY <1>1, <2>1 DEF TakesRp
<1> HIDE DEF out
<1> QED
  BY <1>2, <1>3, <1>4, TookStays

(* pinUvAuthParam is kept as it lies in the buffer.                        *)
LEMMA ParamStays ==
    ASSUME NEW b \in Seq(Byte), NEW O, TakesParam(O), NEW s \in Parsing(b, O)
    PROVE  Param(b, s) \in Parsing(b, O)
<1> DEFINE r == ReadBytes(b, s.at)
           out == [s.out EXCEPT !.param = {r.val}]
<1>1. s.at \in 0 .. Len(b) /\ s.out \in O
  BY ParsingIs
<1>2. r \in Given(b, s.at, Seq(Byte))
  BY <1>1, TextStays
<1>3. Took(Param(b, s), s, r, out)
  BY Zenon DEF Param, Got, Anything, Took
<1> HIDE DEF r
<1>4. r.ok => out \in O
  BY <1>1, <1>2, ValueIs DEF TakesParam
<1> HIDE DEF out
<1> QED
  BY <1>2, <1>3, <1>4, TookStays

\* The values of members, one by one.
GotHash(b, s) == Hash(b, s, LAMBDA v : [s.out EXCEPT !.hash = v])
GotX(b, s) == Hash(b, s, LAMBDA v : [s.out EXCEPT !.x = v])
GotY(b, s) == Hash(b, s, LAMBDA v : [s.out EXCEPT !.y = v])
GotProtocol(b, s) == GotByte(b, s, LAMBDA v : [s.out EXCEPT !.protocol = v])
GotSubCommand(b, s) == GotByte(b, s, LAMBDA v : [s.out EXCEPT !.subCommand = v])
GotNewPin(b, s) == Got(s, ReadBytes(b, s.at), Anything, LAMBDA v : [s.out EXCEPT !.newPinEnc = {v}])
GotPinHash(b, s) == Got(s, ReadBytes(b, s.at), Anything, LAMBDA v : [s.out EXCEPT !.pinHashEnc = {v}])
GotPermissions(b, s) == Got(s, ReadUInt(b, s.at), Anything, LAMBDA v : [s.out EXCEPT !.permissions = {v}])
GotUser(b, s) ==
    Got(s, ReadBytes(b, s.at), LAMBDA v : Len(v) \in 1 .. UserHandleSize, LAMBDA v : [s.out EXCEPT !.user = v])
GotAlg(b, s) ==
    Got(s, ReadInt(b, s.at), Anything, LAMBDA v : [s.out EXCEPT !.es256 = @ \/ v = Es256])
GotId(b, s) == Got(s, ReadBytes(b, s.at), Anything, LAMBDA v : [s.out EXCEPT !.id = v])
OptionSet(key, out, v) ==
    CASE key = KeyRk -> [out EXCEPT !.rk = v]
      [] key = KeyUv -> [out EXCEPT !.uv = v]
      [] key = KeyUp -> [out EXCEPT !.up = v]
      [] OTHER -> out
GotOption(b, key, s) == Got(s, ReadBool(b, s.at), Anything, LAMBDA v : OptionSet(key, s.out, v))

(* A hash of another length is refused.                                    *)
LEMMA GotHashStays ==
    ASSUME NEW b \in Seq(Byte), NEW O, TakesHash(O), NEW s \in Parsing(b, O)
    PROVE  GotHash(b, s) \in Parsing(b, O)
<1> DEFINE r == ReadBytes(b, s.at)
           out == IF Len(r.val) = HashLen THEN [s.out EXCEPT !.hash = r.val] ELSE s.out
<1>1. s.at \in 0 .. Len(b) /\ s.out \in O
  BY ParsingIs
<1>2. r \in Given(b, s.at, Seq(Byte))
  BY <1>1, TextStays
<1>3. Took(GotHash(b, s), s, r, out)
  BY Zenon DEF GotHash, Hash, Got, Took
<1> HIDE DEF r
<1>4. r.ok => out \in O
  BY <1>1, <1>2, ValueIs DEF TakesHash, Hashes
<1> HIDE DEF out
<1> QED
  BY <1>2, <1>3, <1>4, TookStays

(* A protocol that is not a byte is refused.                               *)
LEMMA GotProtocolStays ==
    ASSUME NEW b \in Seq(Byte), NEW O, TakesProtocol(O), NEW s \in Parsing(b, O)
    PROVE  GotProtocol(b, s) \in Parsing(b, O)
<1> DEFINE r == ReadUInt(b, s.at)
           out == IF r.val <= 255 THEN [s.out EXCEPT !.protocol = r.val] ELSE s.out
<1>1. s.at \in 0 .. Len(b) /\ s.out \in O
  BY ParsingIs
<1>2. r \in Given(b, s.at, Unsigned)
  BY <1>1, CountStays
<1>3. Took(GotProtocol(b, s), s, r, out)
  BY Zenon DEF GotProtocol, GotByte, Got, Took
<1> HIDE DEF r
<1>4. r.ok => out \in O
  BY <1>1, <1>2, ValueIs, UnsignedAre DEF TakesProtocol, Byte
<1> HIDE DEF out
<1> QED
  BY <1>2, <1>3, <1>4, TookStays

(* A subcommand that is not a byte is refused.                             *)
LEMMA GotSubCommandStays ==
    ASSUME NEW b \in Seq(Byte), NEW O, TakesSubCommand(O), NEW s \in Parsing(b, O)
    PROVE  GotSubCommand(b, s) \in Parsing(b, O)
<1> DEFINE r == ReadUInt(b, s.at)
           out == IF r.val <= 255 THEN [s.out EXCEPT !.subCommand = r.val] ELSE s.out
<1>1. s.at \in 0 .. Len(b) /\ s.out \in O
  BY ParsingIs
<1>2. r \in Given(b, s.at, Unsigned)
  BY <1>1, CountStays
<1>3. Took(GotSubCommand(b, s), s, r, out)
  BY Zenon DEF GotSubCommand, GotByte, Got, Took
<1> HIDE DEF r
<1>4. r.ok => out \in O
  BY <1>1, <1>2, ValueIs, UnsignedAre DEF TakesSubCommand, Byte
<1> HIDE DEF out
<1> QED
  BY <1>2, <1>3, <1>4, TookStays

(* A user handle that is empty or too long is refused.                     *)
LEMMA GotUserStays ==
    ASSUME NEW b \in Seq(Byte), NEW O, TakesUser(O), NEW s \in Parsing(b, O)
    PROVE  GotUser(b, s) \in Parsing(b, O)
<1> DEFINE r == ReadBytes(b, s.at)
           out == IF Len(r.val) \in 1 .. UserHandleSize THEN [s.out EXCEPT !.user = r.val] ELSE s.out
<1>1. s.at \in 0 .. Len(b) /\ s.out \in O
  BY ParsingIs
<1>2. r \in Given(b, s.at, Seq(Byte))
  BY <1>1, TextStays
<1>3. Took(GotUser(b, s), s, r, out)
  BY Zenon DEF GotUser, Got, Took
<1> HIDE DEF r
<1>4. r.ok => out \in O
  BY <1>1, <1>2, ValueIs DEF TakesUser, UserHandles
<1> HIDE DEF out
<1> QED
  BY <1>2, <1>3, <1>4, TookStays

(* A credential id is kept as it lies in the buffer.                       *)
LEMMA GotIdStays ==
    ASSUME NEW b \in Seq(Byte), NEW O, TakesId(O), NEW s \in Parsing(b, O)
    PROVE  GotId(b, s) \in Parsing(b, O)
<1> DEFINE r == ReadBytes(b, s.at)
           out == [s.out EXCEPT !.id = r.val]
<1>1. s.at \in 0 .. Len(b) /\ s.out \in O
  BY ParsingIs
<1>2. r \in Given(b, s.at, Seq(Byte))
  BY <1>1, TextStays
<1>3. Took(GotId(b, s), s, r, out)
  BY Zenon DEF GotId, Got, Anything, Took
<1> HIDE DEF r
<1>4. r.ok => out \in O
  BY <1>1, <1>2, ValueIs DEF TakesId
<1> HIDE DEF out
<1> QED
  BY <1>2, <1>3, <1>4, TookStays

(* An option sets one flag, or none.                                       *)
LEMMA GotOptionStays ==
    ASSUME NEW b \in Seq(Byte), NEW O, TakesOptions(O), NEW s \in Parsing(b, O), NEW key
    PROVE  GotOption(b, key, s) \in Parsing(b, O)
<1> DEFINE r == ReadBool(b, s.at)
           out == OptionSet(key, s.out, r.val)
<1>1. s.at \in 0 .. Len(b) /\ s.out \in O
  BY ParsingIs
<1>2. r \in Given(b, s.at, BOOLEAN)
  BY <1>1, BoolGiven
<1>3. Took(GotOption(b, key, s), s, r, out)
  BY Zenon DEF GotOption, Got, Anything, Took
<1> HIDE DEF r
<1>4. r.ok => out \in O
  <2> SUFFICES ASSUME r.ok PROVE out \in O
    OBVIOUS
  <2> DEFINE v == r.val
  <2>1. v \in BOOLEAN
    BY <1>2, ValueIs
  <2> HIDE DEF v
  <2>2. [s.out EXCEPT !.rk = v] \in O /\ [s.out EXCEPT !.uv = v] \in O /\ [s.out EXCEPT !.up = v] \in O
    BY <1>1, <2>1, Zenon DEF TakesOptions
  <2>3. OptionSet(key, s.out, v) \in
            {[s.out EXCEPT !.rk = v], [s.out EXCEPT !.uv = v], [s.out EXCEPT !.up = v], s.out}
    <3>1. KeyRk # KeyUv /\ KeyRk # KeyUp /\ KeyUv # KeyUp
      BY DEF KeyRk, KeyUv, KeyUp
    <3> QED
      BY <3>1, Zenon DEF OptionSet
  <2> QED
    BY <1>1, <2>2, <2>3 DEF v
<1> HIDE DEF out
<1> QED
  BY <1>2, <1>3, <1>4, TookStays

TakesAlg(O) == \A out \in O, v \in BOOLEAN : [out EXCEPT !.es256 = v] \in O
TakesAllow(O) == \A out \in O, v \in ShortLists : [out EXCEPT !.allow = v] \in O
TakesKey(O) == \A out \in O, v \in Hashes : [out EXCEPT !.x = v] \in O /\ [out EXCEPT !.y = v] \in O
TakesPins(O) ==
    \A out \in O :
       /\ \A v \in Seq(Byte) : [out EXCEPT !.newPinEnc = {v}] \in O /\ [out EXCEPT !.pinHashEnc = {v}] \in O
       /\ \A v \in Unsigned : [out EXCEPT !.permissions = {v}] \in O

(* ES256 is seen or stays seen.                                            *)
LEMMA GotAlgStays ==
    ASSUME NEW b \in Seq(Byte), NEW O, TakesAlg(O), NEW s \in Parsing(b, O)
    PROVE  GotAlg(b, s) \in Parsing(b, O)
<1> DEFINE r == ReadInt(b, s.at)
           v == s.out.es256 \/ r.val = Es256
           out == [s.out EXCEPT !.es256 = v]
<1>1. s.at \in 0 .. Len(b) /\ s.out \in O
  BY ParsingIs
<1>2. r \in Given(b, s.at, Int)
  BY <1>1, NumberGiven
<1>3. Took(GotAlg(b, s), s, r, out)
  BY Zenon DEF GotAlg, Got, Anything, Took
<1>4. v \in BOOLEAN
  BY Zenon
<1> HIDE DEF r, v
<1>5. out \in O
  BY <1>1, <1>4, Zenon DEF TakesAlg
<1> HIDE DEF out
<1> QED
  BY <1>2, <1>3, <1>5, TookStays

(* A coordinate of another length is refused.                              *)
LEMMA GotKeyStays ==
    ASSUME NEW b \in Seq(Byte), NEW O, TakesKey(O), NEW s \in Parsing(b, O)
    PROVE  GotX(b, s) \in Parsing(b, O) /\ GotY(b, s) \in Parsing(b, O)
<1> DEFINE r == ReadBytes(b, s.at)
           x == IF Len(r.val) = HashLen THEN [s.out EXCEPT !.x = r.val] ELSE s.out
           y == IF Len(r.val) = HashLen THEN [s.out EXCEPT !.y = r.val] ELSE s.out
<1>1. s.at \in 0 .. Len(b) /\ s.out \in O
  BY ParsingIs
<1>2. r \in Given(b, s.at, Seq(Byte))
  BY <1>1, TextStays
<1>3. Took(GotX(b, s), s, r, x)
  BY Zenon DEF GotX, Hash, Got, Took
<1>4. Took(GotY(b, s), s, r, y)
  BY Zenon DEF GotY, Hash, Got, Took
<1> HIDE DEF r
<1>5. r.ok => x \in O
  BY <1>1, <1>2, ValueIs DEF TakesKey, Hashes
<1>6. r.ok => y \in O
  BY <1>1, <1>2, ValueIs DEF TakesKey, Hashes
<1> HIDE DEF x, y
<1> QED
  BY <1>2, <1>3, <1>4, <1>5, <1>6, TookStays

(* The encrypted PINs and the permissions are kept as they were read.      *)
LEMMA GotPinsStay ==
    ASSUME NEW b \in Seq(Byte), NEW O, TakesPins(O), NEW s \in Parsing(b, O)
    PROVE  /\ GotNewPin(b, s) \in Parsing(b, O) /\ GotPinHash(b, s) \in Parsing(b, O)
           /\ GotPermissions(b, s) \in Parsing(b, O)
<1> DEFINE r == ReadBytes(b, s.at)
           u == ReadUInt(b, s.at)
           new == [s.out EXCEPT !.newPinEnc = {r.val}]
           old == [s.out EXCEPT !.pinHashEnc = {r.val}]
           allowed == [s.out EXCEPT !.permissions = {u.val}]
<1>1. s.at \in 0 .. Len(b) /\ s.out \in O
  BY ParsingIs
<1>2. r \in Given(b, s.at, Seq(Byte)) /\ u \in Given(b, s.at, Unsigned)
  BY <1>1, TextStays, CountStays
<1>3. Took(GotNewPin(b, s), s, r, new)
  BY Zenon DEF GotNewPin, Got, Anything, Took
<1>4. Took(GotPinHash(b, s), s, r, old)
  BY Zenon DEF GotPinHash, Got, Anything, Took
<1>5. Took(GotPermissions(b, s), s, u, allowed)
  BY Zenon DEF GotPermissions, Got, Anything, Took
<1> HIDE DEF r, u
<1>6. (r.ok => new \in O) /\ (r.ok => old \in O) /\ (u.ok => allowed \in O)
  BY <1>1, <1>2, ValueIs DEF TakesPins
<1> HIDE DEF new, old, allowed
<1> QED
  BY <1>2, <1>3, <1>4, <1>5, <1>6, TookStays

-----------------------------------------------------------------------------
(* The loops over the entries of containers: one operator with a case for   *)
(* each loop, so that what holds of all of them is proved once.             *)

RpMember(b, key, t) ==
    CASE key = KeyId -> RpId(b, t, 1) [] key = KeyName -> UnusedText(b, t) [] OTHER -> Ignored(b, t)
UserMember(b, key, t) ==
    CASE key = KeyId -> GotUser(b, t)
      [] key \in {KeyName, KeyDisplayName} -> UnusedText(b, t)
      [] OTHER -> Ignored(b, t)
AlgMember(b, key, t) == IF key = KeyAlg THEN GotAlg(b, t) ELSE Ignored(b, t)
IdMember(b, key, t) == IF key = KeyId THEN GotId(b, t) ELSE Ignored(b, t)
ParamsMember(b, key, t) ==
    CASE key = 1 -> GotHash(b, t) [] key = 2 -> Descriptor(b, t) [] key = 3 -> UserMap(b, t) [] OTHER -> Ignored(b, t)
CoseMember(b, key, t) == CASE key = -2 -> GotX(b, t) [] key = -3 -> GotY(b, t) [] OTHER -> Ignored(b, t)

Member(kind, b, key, t) ==
    CASE kind = "rp" -> RpMember(b, key, t)
      [] kind = "user" -> UserMember(b, key, t)
      [] kind = "alg" -> AlgMember(b, key, t)
      [] kind = "option" -> GotOption(b, key, t)
      [] kind = "id" -> IdMember(b, key, t)
      [] kind = "params" -> ParamsMember(b, key, t)
      [] kind = "cose" -> CoseMember(b, key, t)
      [] kind = "makeCredential" -> MakeCredentialMember(b, key, t)
      [] kind = "getAssertion" -> GetAssertionMember(b, key, t)
      [] kind = "management" -> CredentialManagementMember(b, key, t)
      [] kind = "clientPin" -> ClientPinMember(b, key, t)
      [] OTHER -> t

TextKeys == {"rp", "user", "alg", "option", "id"}
KeyAt(kind, b, o) == IF kind \in TextKeys THEN ReadText(b, o) ELSE ReadInt(b, o)

AlgMap(b, s) ==
    Members(b, s, ReadText, LAMBDA key, t : IF key = KeyAlg THEN GotAlg(b, t) ELSE Ignored(b, t))
Allowed(b, t) == Listed(Descriptor(b, [t EXCEPT !.out.id = <<>>]))

Entry(kind, b, t) ==
    CASE kind = "parameter" -> AlgMap(b, t)
      [] kind = "allowed" -> Allowed(b, t)
      [] kind = "ignored" -> Ignored(b, t)
      [] OTHER -> LET key == KeyAt(kind, b, t.at)
                  IN IF key.ok THEN Member(kind, b, key.val, [t EXCEPT !.at = key.at]) ELSE Refused(t)

\* n entries from s on, and a container of such entries when r is its header.
All(kind, b, n, s) == Repeat(n, LAMBDA t : Entry(kind, b, t), b, s)
Container(kind, b, r, s) == IF r.ok THEN All(kind, b, r.val, [s EXCEPT !.at = r.at]) ELSE Refused(s)
MapFrom(kind, b, s) == Container(kind, b, ReadMap(b, s.at), s)

(* A loop whose body stays in V stays there.                                *)
LEMMA AllStay ==
    ASSUME NEW b \in Seq(Byte), NEW n \in Nat, NEW V, NEW s \in V, NEW kind, \A t \in V : Entry(kind, b, t) \in V
    PROVE  All(kind, b, n, s) \in V
<1> DEFINE m == Rounds(b, n)
           step == [x \in V \X (1 .. m) |-> Entry(kind, b, x[1])]
           next(t) == [k \in 0 .. m |-> IF k = 0 THEN s
                                        ELSE IF t[k - 1].ok THEN Entry(kind, b, t[k - 1]) ELSE t[k - 1]]
           after == CHOOSE t : t = next(t)
<1>1. m \in Nat
  BY LenProperties DEF Rounds
<1> HIDE DEF m
<1>2. step \in [V \X (1 .. m) -> V] /\ \A v \in V, k \in 1 .. m : step[v, k] = Entry(kind, b, v)
  OBVIOUS
<1> HIDE DEF step
<1>3. PICK f \in [0 .. m -> V] : States(f, m, s, step, V)
  BY <1>1, <1>2, LoopExists
<1>4. f = next(f)
  <2>1. \A k \in 0 .. m : k # 0 => k - 1 \in 0 .. m /\ k \in 1 .. m
    BY <1>1
  <2>2. ASSUME NEW k \in 1 .. m PROVE f[k] = IF f[k - 1].ok THEN Entry(kind, b, f[k - 1]) ELSE f[k - 1]
    <3>1. f[k - 1] \in V
      BY <1>3, <2>1
    <3> QED
      BY <1>2, <1>3, <3>1, Zenon DEF States
  <2>3. f[0] = s /\ f = [k \in 0 .. m |-> f[k]]
    BY <1>3, Zenon DEF States
  <2>4. \A k \in 0 .. m : f[k] = IF k = 0 THEN s ELSE IF f[k - 1].ok THEN Entry(kind, b, f[k - 1]) ELSE f[k - 1]
    BY <2>1, <2>2, <2>3, Zenon
  <2> QED
    BY <2>3, <2>4, Zenon
<1>5. after = next(after)
  BY <1>4, Zenon
<1>6. /\ after[0] = s
      /\ \A k \in 1 .. m : after[k] = IF after[k - 1].ok THEN Entry(kind, b, after[k - 1]) ELSE after[k - 1]
  <2> HIDE DEF after
  <2>1. 0 \in 0 .. m /\ \A k \in 1 .. m : k \in 0 .. m /\ k # 0
    BY <1>1
  <2>2. \A k \in 0 .. m :
           after[k] = IF k = 0 THEN s ELSE IF after[k - 1].ok THEN Entry(kind, b, after[k - 1]) ELSE after[k - 1]
    BY <1>5, Zenon
  <2> QED
    BY <2>1, <2>2, Zenon
<1>7. All(kind, b, n, s) = after[m]
  BY Zenon DEF All, Repeat, Loop, Onward, m
<1> HIDE DEF after
<1>8. after[0] \in V /\ \A k \in 1 .. m : after[k - 1] \in V => after[k] \in V
  BY <1>6
<1>9. after[m] \in V
  BY <1>1, <1>8, LoopStays
<1> QED
  BY <1>7, <1>9

(* So a container whose entries keep to the struct is read within it.      *)
LEMMA ContainerStays ==
    ASSUME NEW b \in Seq(Byte), NEW O, NEW s \in Parsing(b, O), NEW kind,
           \A t \in Parsing(b, O) : Entry(kind, b, t) \in Parsing(b, O),
           NEW r \in Given(b, s.at, 0 .. MaxCount)
    PROVE  Container(kind, b, r, s) \in Parsing(b, O)
<1>1. CASE r.ok
  <2>1. r.val \in 0 .. MaxCount
    BY <1>1, ValueIs
  <2>2. r.val \in Nat
    <3>1. MaxCount \in Nat
      BY DEF MaxCount
    <3> QED
      BY <2>1, <3>1
  <2>3. r # No
    BY <1>1, GivenIs
  <2>4. s.at \in 0 .. Len(b) /\ r.at \in s.at + 1 .. Len(b)
    BY <2>3, GivenIs, ParsingIs
  <2>5. r.at \in 0 .. Len(b)
    BY <2>4, LenProperties
  <2>6. [s EXCEPT !.at = r.at] \in Parsing(b, O)
    BY <2>5, ParsingIs
  <2> HIDE DEF Parsing
  <2>7. All(kind, b, r.val, [s EXCEPT !.at = r.at]) \in Parsing(b, O)
    BY <2>2, <2>6, AllStay
  <2> QED
    BY <1>1, <2>7 DEF Container
<1>2. CASE ~r.ok
  BY <1>2, ParsingIs DEF Container
<1> QED
  BY <1>1, <1>2

IntKeys == {"params", "cose", "makeCredential", "getAssertion", "management", "clientPin"}

(* The members, case by case.                                              *)
LEMMA MemberIs ==
    \A b, key, t :
       /\ Member("rp", b, key, t) = RpMember(b, key, t)
       /\ Member("user", b, key, t) = UserMember(b, key, t)
       /\ Member("alg", b, key, t) = AlgMember(b, key, t)
       /\ Member("option", b, key, t) = GotOption(b, key, t)
       /\ Member("id", b, key, t) = IdMember(b, key, t)
       /\ Member("params", b, key, t) = ParamsMember(b, key, t)
       /\ Member("cose", b, key, t) = CoseMember(b, key, t)
       /\ Member("makeCredential", b, key, t) = MakeCredentialMember(b, key, t)
       /\ Member("getAssertion", b, key, t) = GetAssertionMember(b, key, t)
       /\ Member("management", b, key, t) = CredentialManagementMember(b, key, t)
       /\ Member("clientPin", b, key, t) = ClientPinMember(b, key, t)
BY DEF Member

(* The entries, case by case.                                              *)
LEMMA EntryIs ==
    /\ \A b, t : /\ Entry("parameter", b, t) = AlgMap(b, t)
                 /\ Entry("allowed", b, t) = Allowed(b, t)
                 /\ Entry("ignored", b, t) = Ignored(b, t)
    /\ \A kind \in TextKeys : \A b, t :
          Entry(kind, b, t) = LET key == ReadText(b, t.at)
                              IN IF key.ok THEN Member(kind, b, key.val, [t EXCEPT !.at = key.at]) ELSE Refused(t)
    /\ \A kind \in IntKeys : \A b, t :
          Entry(kind, b, t) = LET key == ReadInt(b, t.at)
                              IN IF key.ok THEN Member(kind, b, key.val, [t EXCEPT !.at = key.at]) ELSE Refused(t)
BY DEF Entry, KeyAt, TextKeys, IntKeys

(* parseRpMap is the loop "rp", and needs an id.                           *)
LEMMA RpMapIs ==
    \A b, s : RpMap(b, s) =
       LET r == MapFrom("rp", b, s)
       IN  IF r.ok /\ r.out.rp # <<>> THEN r ELSE Refused(r)
<1> SUFFICES ASSUME NEW b, NEW s
             PROVE  RpMap(b, s) =
                       LET r == MapFrom("rp", b, s)
                       IN  IF r.ok /\ r.out.rp # <<>> THEN r ELSE Refused(r)
  BY Zenon
<1> DEFINE entry(t) == LET key == ReadText(b, t.at)
                       IN IF key.ok THEN RpMember(b, key.val, [t EXCEPT !.at = key.at]) ELSE Refused(t)
           n == ReadMap(b, s.at)
           whole == IF n.ok THEN Repeat(n.val, LAMBDA t : entry(t), b, [s EXCEPT !.at = n.at]) ELSE Refused(s)
<1>1. RpMap(b, s) = IF whole.ok /\ whole.out.rp # <<>> THEN whole ELSE Refused(whole)
  BY Zenon DEF RpMap, Members, Entries, Keyed, Repeat, Loop, Onward, Complete, RpMember
<1>2. \A t : entry(t) = Entry("rp", b, t)
  BY MemberIs, EntryIs DEF TextKeys
<1> HIDE DEF entry
<1>3. ASSUME NEW m, NEW u PROVE Repeat(m, LAMBDA t : entry(t), b, u) = All("rp", b, m, u)
  BY <1>2, Zenon DEF All, Repeat, Loop, Onward
<1>4. whole = MapFrom("rp", b, s)
  BY <1>3, Zenon DEF MapFrom, Container
<1> HIDE DEF whole
<1> QED
  BY <1>1, <1>4, Zenon

(* parseUserMap is the loop "user", and needs an id.                       *)
LEMMA UserMapIs ==
    \A b, s : UserMap(b, s) =
       LET r == MapFrom("user", b, s)
       IN  IF r.ok /\ r.out.user # <<>> THEN r ELSE Refused(r)
<1> SUFFICES ASSUME NEW b, NEW s
             PROVE  UserMap(b, s) =
                       LET r == MapFrom("user", b, s)
                       IN  IF r.ok /\ r.out.user # <<>> THEN r ELSE Refused(r)
  BY Zenon
<1> DEFINE entry(t) == LET key == ReadText(b, t.at)
                       IN IF key.ok THEN UserMember(b, key.val, [t EXCEPT !.at = key.at]) ELSE Refused(t)
           n == ReadMap(b, s.at)
           whole == IF n.ok THEN Repeat(n.val, LAMBDA t : entry(t), b, [s EXCEPT !.at = n.at]) ELSE Refused(s)
<1>1. UserMap(b, s) = IF whole.ok /\ whole.out.user # <<>> THEN whole ELSE Refused(whole)
  BY Zenon DEF UserMap, Members, Entries, Keyed, Repeat, Loop, Onward, Complete, UserMember, GotUser, Got
<1>2. \A t : entry(t) = Entry("user", b, t)
  BY MemberIs, EntryIs DEF TextKeys
<1> HIDE DEF entry
<1>3. ASSUME NEW m, NEW u PROVE Repeat(m, LAMBDA t : entry(t), b, u) = All("user", b, m, u)
  BY <1>2, Zenon DEF All, Repeat, Loop, Onward
<1>4. whole = MapFrom("user", b, s)
  BY <1>3, Zenon DEF MapFrom, Container
<1> HIDE DEF whole
<1> QED
  BY <1>1, <1>4, Zenon

(* parseOptions is the loop "option".                                      *)
LEMMA OptionsIs ==
    \A b, s : Options(b, s) = MapFrom("option", b, s)
<1> SUFFICES ASSUME NEW b, NEW s
             PROVE  Options(b, s) = MapFrom("option", b, s)
  BY Zenon
<1> DEFINE entry(t) == LET key == ReadText(b, t.at)
                       IN IF key.ok THEN GotOption(b, key.val, [t EXCEPT !.at = key.at]) ELSE Refused(t)
           n == ReadMap(b, s.at)
           whole == IF n.ok THEN Repeat(n.val, LAMBDA t : entry(t), b, [s EXCEPT !.at = n.at]) ELSE Refused(s)
<1>1. Options(b, s) = whole
  BY Zenon DEF Options, Members, Entries, Keyed, Repeat, Loop, Onward, GotOption, Got, Anything, OptionSet
<1>2. \A t : entry(t) = Entry("option", b, t)
  BY MemberIs, EntryIs DEF TextKeys
<1> HIDE DEF entry
<1>3. ASSUME NEW m, NEW u PROVE Repeat(m, LAMBDA t : entry(t), b, u) = All("option", b, m, u)
  BY <1>2, Zenon DEF All, Repeat, Loop, Onward
<1>4. whole = MapFrom("option", b, s)
  BY <1>3, Zenon DEF MapFrom, Container
<1> HIDE DEF whole
<1> QED
  BY <1>1, <1>4, Zenon

(* parseCredentialDescriptor is the loop "id", and needs an id.            *)
LEMMA DescriptorIs ==
    \A b, s : Descriptor(b, s) =
       LET r == MapFrom("id", b, s)
       IN  IF r.ok /\ r.out.id # <<>> THEN r ELSE Refused(r)
<1> SUFFICES ASSUME NEW b, NEW s
             PROVE  Descriptor(b, s) =
                       LET r == MapFrom("id", b, s)
                       IN  IF r.ok /\ r.out.id # <<>> THEN r ELSE Refused(r)
  BY Zenon
<1> DEFINE entry(t) == LET key == ReadText(b, t.at)
                       IN IF key.ok THEN IdMember(b, key.val, [t EXCEPT !.at = key.at]) ELSE Refused(t)
           n == ReadMap(b, s.at)
           whole == IF n.ok THEN Repeat(n.val, LAMBDA t : entry(t), b, [s EXCEPT !.at = n.at]) ELSE Refused(s)
<1>1. Descriptor(b, s) = IF whole.ok /\ whole.out.id # <<>> THEN whole ELSE Refused(whole)
  BY Zenon DEF Descriptor, Members, Entries, Keyed, Repeat, Loop, Onward, Complete, IdMember, GotId, Got, Anything
<1>2. \A t : entry(t) = Entry("id", b, t)
  BY MemberIs, EntryIs DEF TextKeys
<1> HIDE DEF entry
<1>3. ASSUME NEW m, NEW u PROVE Repeat(m, LAMBDA t : entry(t), b, u) = All("id", b, m, u)
  BY <1>2, Zenon DEF All, Repeat, Loop, Onward
<1>4. whole = MapFrom("id", b, s)
  BY <1>3, Zenon DEF MapFrom, Container
<1> HIDE DEF whole
<1> QED
  BY <1>1, <1>4, Zenon

(* parseCredentialManagementParams is the loop "params".                   *)
LEMMA CredentialManagementParamsIs ==
    \A b, s : CredentialManagementParams(b, s) = MapFrom("params", b, s)
<1> SUFFICES ASSUME NEW b, NEW s
             PROVE  CredentialManagementParams(b, s) = MapFrom("params", b, s)
  BY Zenon
<1> DEFINE entry(t) == LET key == ReadInt(b, t.at)
                       IN IF key.ok THEN ParamsMember(b, key.val, [t EXCEPT !.at = key.at]) ELSE Refused(t)
           n == ReadMap(b, s.at)
           whole == IF n.ok THEN Repeat(n.val, LAMBDA t : entry(t), b, [s EXCEPT !.at = n.at]) ELSE Refused(s)
<1>1. CredentialManagementParams(b, s) = whole
  BY Zenon DEF CredentialManagementParams, Members, Entries, Keyed, Repeat, Loop, Onward, ParamsMember,
                 GotHash, Hash, Got
<1>2. \A t : entry(t) = Entry("params", b, t)
  BY MemberIs, EntryIs DEF IntKeys
<1> HIDE DEF entry
<1>3. ASSUME NEW m, NEW u PROVE Repeat(m, LAMBDA t : entry(t), b, u) = All("params", b, m, u)
  BY <1>2, Zenon DEF All, Repeat, Loop, Onward
<1>4. whole = MapFrom("params", b, s)
  BY <1>3, Zenon DEF MapFrom, Container
<1> HIDE DEF whole
<1> QED
  BY <1>1, <1>4, Zenon

(* An entry of pubKeyCredParams is the loop "alg".                         *)
LEMMA AlgMapIs ==
    \A b, s : AlgMap(b, s) = MapFrom("alg", b, s)
<1> SUFFICES ASSUME NEW b, NEW s
             PROVE  AlgMap(b, s) = MapFrom("alg", b, s)
  BY Zenon
<1> DEFINE entry(t) == LET key == ReadText(b, t.at)
                       IN IF key.ok THEN AlgMember(b, key.val, [t EXCEPT !.at = key.at]) ELSE Refused(t)
           n == ReadMap(b, s.at)
           whole == IF n.ok THEN Repeat(n.val, LAMBDA t : entry(t), b, [s EXCEPT !.at = n.at]) ELSE Refused(s)
<1>1. AlgMap(b, s) = whole
  BY Zenon DEF AlgMap, Members, Entries, Keyed, Repeat, Loop, Onward, AlgMap, AlgMember
<1>2. \A t : entry(t) = Entry("alg", b, t)
  BY MemberIs, EntryIs DEF TextKeys
<1> HIDE DEF entry
<1>3. ASSUME NEW m, NEW u PROVE Repeat(m, LAMBDA t : entry(t), b, u) = All("alg", b, m, u)
  BY <1>2, Zenon DEF All, Repeat, Loop, Onward
<1>4. whole = MapFrom("alg", b, s)
  BY <1>3, Zenon DEF MapFrom, Container
<1> HIDE DEF whole
<1> QED
  BY <1>1, <1>4, Zenon

(* parseCoseP256 is the loop "cose", and needs both coordinates.           *)
LEMMA CoseP256Is ==
    \A b, s : CoseP256(b, s) =
       LET r == MapFrom("cose", b, NoKey(s))
       IN  IF r.ok /\ (r.out.x # <<>> /\ r.out.y # <<>>) THEN r ELSE Refused(r)
<1> SUFFICES ASSUME NEW b, NEW s
             PROVE  CoseP256(b, s) =
                       LET r == MapFrom("cose", b, NoKey(s))
                       IN  IF r.ok /\ (r.out.x # <<>> /\ r.out.y # <<>>) THEN r ELSE Refused(r)
  BY Zenon
<1> DEFINE entry(t) == LET key == ReadInt(b, t.at)
                       IN IF key.ok THEN CoseMember(b, key.val, [t EXCEPT !.at = key.at]) ELSE Refused(t)
           n == ReadMap(b, NoKey(s).at)
           whole == IF n.ok THEN Repeat(n.val, LAMBDA t : entry(t), b, [NoKey(s) EXCEPT !.at = n.at])
                    ELSE Refused(NoKey(s))
<1>1. CoseP256(b, s) = IF whole.ok /\ (whole.out.x # <<>> /\ whole.out.y # <<>>) THEN whole ELSE Refused(whole)
  BY Zenon DEF CoseP256, Members, Entries, Keyed, Repeat, Loop, Onward, Complete, CoseMember, GotX, GotY, Hash, Got
<1>2. \A t : entry(t) = Entry("cose", b, t)
  BY MemberIs, EntryIs DEF IntKeys
<1> HIDE DEF entry
<1>3. ASSUME NEW m, NEW u PROVE Repeat(m, LAMBDA t : entry(t), b, u) = All("cose", b, m, u)
  BY <1>2, Zenon DEF All, Repeat, Loop, Onward
<1>4. whole = MapFrom("cose", b, NoKey(s))
  BY <1>3, Zenon DEF MapFrom, Container
<1> HIDE DEF whole
<1> QED
  BY <1>1, <1>4, Zenon

(* parseMakeCredential is the loop "makeCredential", with what it needs.   *)
LEMMA ParseMakeCredentialIs ==
    \A b : ParseMakeCredential(b) =
       LET r == MapFrom("makeCredential", b, Start(NewMakeCredential))
       IN  IF r.ok /\ (r.out.hash # <<>> /\ r.out.rp # <<>> /\ r.out.user # <<>> /\ r.out.es256) THEN r ELSE Refused(r)
<1> SUFFICES ASSUME NEW b
             PROVE  ParseMakeCredential(b) =
                       LET r == MapFrom("makeCredential", b, Start(NewMakeCredential))
                       IN  IF r.ok /\ (r.out.hash # <<>> /\ r.out.rp # <<>> /\ r.out.user # <<>> /\ r.out.es256)
                               THEN r ELSE Refused(r)
  BY Zenon
<1> DEFINE entry(t) == LET key == ReadInt(b, t.at)
                       IN IF key.ok THEN MakeCredentialMember(b, key.val, [t EXCEPT !.at = key.at]) ELSE Refused(t)
           n == ReadMap(b, Start(NewMakeCredential).at)
           whole == IF n.ok THEN Repeat(n.val, LAMBDA t : entry(t), b, [Start(NewMakeCredential) EXCEPT !.at = n.at])
                    ELSE Refused(Start(NewMakeCredential))
<1>1. ParseMakeCredential(b) =
          IF whole.ok /\ (whole.out.hash # <<>> /\ whole.out.rp # <<>> /\ whole.out.user # <<>> /\ whole.out.es256)
              THEN whole ELSE Refused(whole)
  BY Zenon DEF ParseMakeCredential, Members, Entries, Keyed, Repeat, Loop, Onward, Complete
<1>2. \A t : entry(t) = Entry("makeCredential", b, t)
  BY MemberIs, EntryIs DEF IntKeys
<1> HIDE DEF entry
<1>3. ASSUME NEW m, NEW u PROVE Repeat(m, LAMBDA t : entry(t), b, u) = All("makeCredential", b, m, u)
  BY <1>2, Zenon DEF All, Repeat, Loop, Onward
<1>4. whole = MapFrom("makeCredential", b, Start(NewMakeCredential))
  BY <1>3, Zenon DEF MapFrom, Container
<1> HIDE DEF whole
<1> QED
  BY <1>1, <1>4, Zenon

(* parseGetAssertion is the loop "getAssertion", with what it needs.       *)
LEMMA ParseGetAssertionIs ==
    \A b : ParseGetAssertion(b) =
       LET r == MapFrom("getAssertion", b, Start(NewGetAssertion))
       IN  IF r.ok /\ (r.out.rp # <<>> /\ r.out.hash # <<>>) THEN r ELSE Refused(r)
<1> SUFFICES ASSUME NEW b
             PROVE  ParseGetAssertion(b) =
                       LET r == MapFrom("getAssertion", b, Start(NewGetAssertion))
                       IN  IF r.ok /\ (r.out.rp # <<>> /\ r.out.hash # <<>>) THEN r ELSE Refused(r)
  BY Zenon
<1> DEFINE entry(t) == LET key == ReadInt(b, t.at)
                       IN IF key.ok THEN GetAssertionMember(b, key.val, [t EXCEPT !.at = key.at]) ELSE Refused(t)
           n == ReadMap(b, Start(NewGetAssertion).at)
           whole == IF n.ok THEN Repeat(n.val, LAMBDA t : entry(t), b, [Start(NewGetAssertion) EXCEPT !.at = n.at])
                    ELSE Refused(Start(NewGetAssertion))
<1>1. ParseGetAssertion(b) =
          IF whole.ok /\ (whole.out.rp # <<>> /\ whole.out.hash # <<>>)
              THEN whole ELSE Refused(whole)
  BY Zenon DEF ParseGetAssertion, Members, Entries, Keyed, Repeat, Loop, Onward, Complete
<1>2. \A t : entry(t) = Entry("getAssertion", b, t)
  BY MemberIs, EntryIs DEF IntKeys
<1> HIDE DEF entry
<1>3. ASSUME NEW m, NEW u PROVE Repeat(m, LAMBDA t : entry(t), b, u) = All("getAssertion", b, m, u)
  BY <1>2, Zenon DEF All, Repeat, Loop, Onward
<1>4. whole = MapFrom("getAssertion", b, Start(NewGetAssertion))
  BY <1>3, Zenon DEF MapFrom, Container
<1> HIDE DEF whole
<1> QED
  BY <1>1, <1>4, Zenon

(* parseCredentialManagement is the loop "management", and needs a subcommand. *)
LEMMA ParseCredentialManagementIs ==
    \A b : ParseCredentialManagement(b) =
       LET r == MapFrom("management", b, Start(NewCredentialManagement))
       IN  IF r.ok /\ r.out.subCommand # 0 THEN r ELSE Refused(r)
<1> SUFFICES ASSUME NEW b
             PROVE  ParseCredentialManagement(b) =
                       LET r == MapFrom("management", b, Start(NewCredentialManagement))
                       IN  IF r.ok /\ r.out.subCommand # 0 THEN r ELSE Refused(r)
  BY Zenon
<1> DEFINE entry(t) == LET key == ReadInt(b, t.at)
                       IN IF key.ok THEN CredentialManagementMember(b, key.val, [t EXCEPT !.at = key.at])
                               ELSE Refused(t)
           n == ReadMap(b, Start(NewCredentialManagement).at)
           whole == IF n.ok THEN Repeat(n.val, LAMBDA t : entry(t), b, [Start(NewCredentialManagement) EXCEPT !.at = n.at])
                    ELSE Refused(Start(NewCredentialManagement))
<1>1. ParseCredentialManagement(b) =
          IF whole.ok /\ whole.out.subCommand # 0
              THEN whole ELSE Refused(whole)
  BY Zenon DEF ParseCredentialManagement, Members, Entries, Keyed, Repeat, Loop, Onward, Complete
<1>2. \A t : entry(t) = Entry("management", b, t)
  BY MemberIs, EntryIs DEF IntKeys
<1> HIDE DEF entry
<1>3. ASSUME NEW m, NEW u PROVE Repeat(m, LAMBDA t : entry(t), b, u) = All("management", b, m, u)
  BY <1>2, Zenon DEF All, Repeat, Loop, Onward
<1>4. whole = MapFrom("management", b, Start(NewCredentialManagement))
  BY <1>3, Zenon DEF MapFrom, Container
<1> HIDE DEF whole
<1> QED
  BY <1>1, <1>4, Zenon

(* parseClientPin is the loop "clientPin", and needs a subcommand.         *)
LEMMA ParseClientPinIs ==
    \A b : ParseClientPin(b) =
       LET r == MapFrom("clientPin", b, Start(NewClientPin))
       IN  IF r.ok /\ r.out.subCommand # 0 THEN r ELSE Refused(r)
<1> SUFFICES ASSUME NEW b
             PROVE  ParseClientPin(b) =
                       LET r == MapFrom("clientPin", b, Start(NewClientPin))
                       IN  IF r.ok /\ r.out.subCommand # 0 THEN r ELSE Refused(r)
  BY Zenon
<1> DEFINE entry(t) == LET key == ReadInt(b, t.at)
                       IN IF key.ok THEN ClientPinMember(b, key.val, [t EXCEPT !.at = key.at]) ELSE Refused(t)
           n == ReadMap(b, Start(NewClientPin).at)
           whole == IF n.ok THEN Repeat(n.val, LAMBDA t : entry(t), b, [Start(NewClientPin) EXCEPT !.at = n.at])
                    ELSE Refused(Start(NewClientPin))
<1>1. ParseClientPin(b) =
          IF whole.ok /\ whole.out.subCommand # 0
              THEN whole ELSE Refused(whole)
  BY Zenon DEF ParseClientPin, Members, Entries, Keyed, Repeat, Loop, Onward, Complete
<1>2. \A t : entry(t) = Entry("clientPin", b, t)
  BY MemberIs, EntryIs DEF IntKeys
<1> HIDE DEF entry
<1>3. ASSUME NEW m, NEW u PROVE Repeat(m, LAMBDA t : entry(t), b, u) = All("clientPin", b, m, u)
  BY <1>2, Zenon DEF All, Repeat, Loop, Onward
<1>4. whole = MapFrom("clientPin", b, Start(NewClientPin))
  BY <1>3, Zenon DEF MapFrom, Container
<1> HIDE DEF whole
<1> QED
  BY <1>1, <1>4, Zenon

(* parsePubKeyCredParams is the loop "parameter" over an array.            *)
LEMMA PubKeyCredParamsIs ==
    \A b, s : PubKeyCredParams(b, s) = Container("parameter", b, ReadArray(b, s.at), s)
<1> SUFFICES ASSUME NEW b, NEW s PROVE PubKeyCredParams(b, s) = Container("parameter", b, ReadArray(b, s.at), s)
  BY Zenon
<1> DEFINE entry(t) == AlgMap(b, t)
           n == ReadArray(b, s.at)
           whole == IF n.ok THEN Repeat(n.val, LAMBDA t : entry(t), b, [s EXCEPT !.at = n.at]) ELSE Refused(s)
<1>1. PubKeyCredParams(b, s) = whole
  BY Zenon DEF PubKeyCredParams, AlgMap, GotAlg, Got, Anything, Members, Entries, Keyed, Repeat, Loop, Onward
<1>2. \A t : entry(t) = Entry("parameter", b, t)
  BY EntryIs
<1> HIDE DEF entry
<1>3. ASSUME NEW m, NEW u PROVE Repeat(m, LAMBDA t : entry(t), b, u) = All("parameter", b, m, u)
  BY <1>2, Zenon DEF All, Repeat, Loop, Onward
<1>4. whole = Container("parameter", b, n, s)
  BY <1>3, Zenon DEF Container
<1> HIDE DEF whole
<1> QED
  BY <1>1, <1>4, Zenon

(* An allow list is the loop "allowed" over an array.                      *)
LEMMA AllowListIs ==
    \A b, s : AllowList(b, s) = Container("allowed", b, ReadArray(b, s.at), s)
<1> SUFFICES ASSUME NEW b, NEW s PROVE AllowList(b, s) = Container("allowed", b, ReadArray(b, s.at), s)
  BY Zenon
<1> DEFINE entry(t) == Allowed(b, t)
           n == ReadArray(b, s.at)
           whole == IF n.ok THEN Repeat(n.val, LAMBDA t : entry(t), b, [s EXCEPT !.at = n.at]) ELSE Refused(s)
<1>1. AllowList(b, s) = whole
  BY Zenon DEF AllowList, Allowed, Entries, Repeat, Loop, Onward
<1>2. \A t : entry(t) = Entry("allowed", b, t)
  BY EntryIs
<1> HIDE DEF entry
<1>3. ASSUME NEW m, NEW u PROVE Repeat(m, LAMBDA t : entry(t), b, u) = All("allowed", b, m, u)
  BY <1>2, Zenon DEF All, Repeat, Loop, Onward
<1>4. whole = Container("allowed", b, n, s)
  BY <1>3, Zenon DEF Container
<1> HIDE DEF whole
<1> QED
  BY <1>1, <1>4, Zenon

(* An exclude list is a descriptor and the loop "ignored" over the rest.   *)
LEMMA ExcludeListIs ==
    \A b, s : LET n == ReadArray(b, s.at) IN
       ExcludeList(b, s) = CASE ~n.ok -> Refused(s)
                             [] n.ok /\ n.val = 0 -> [s EXCEPT !.at = n.at]
                             [] OTHER -> All("ignored", b, n.val - 1, Descriptor(b, [s EXCEPT !.at = n.at]))
<1> SUFFICES ASSUME NEW b, NEW s, NEW n, n = ReadArray(b, s.at)
             PROVE  ExcludeList(b, s) = CASE ~n.ok -> Refused(s)
                             [] n.ok /\ n.val = 0 -> [s EXCEPT !.at = n.at]
                             [] OTHER -> All("ignored", b, n.val - 1, Descriptor(b, [s EXCEPT !.at = n.at]))
  BY Zenon
<1> DEFINE entry(t) == Ignored(b, t)
           whole == Repeat(n.val - 1, LAMBDA t : entry(t), b, Descriptor(b, [s EXCEPT !.at = n.at]))
<1>1. ExcludeList(b, s) = CASE ~n.ok -> Refused(s)
                            [] n.ok /\ n.val = 0 -> [s EXCEPT !.at = n.at]
                            [] OTHER -> whole
  BY Zenon DEF ExcludeList, Exclusions, Repeat, Loop, Onward
<1>2. \A t : entry(t) = Entry("ignored", b, t)
  BY EntryIs
<1> HIDE DEF entry
<1>3. ASSUME NEW m, NEW u PROVE Repeat(m, LAMBDA t : entry(t), b, u) = All("ignored", b, m, u)
  BY <1>2, Zenon DEF All, Repeat, Loop, Onward
<1>4. whole = All("ignored", b, n.val - 1, Descriptor(b, [s EXCEPT !.at = n.at]))
  BY <1>3, Zenon
<1> HIDE DEF whole
<1> QED
  BY <1>1, <1>4, Zenon

(* A map whose members keep the struct in O does.                           *)
LEMMA MapStays ==
    ASSUME NEW b \in Seq(Byte), NEW O, NEW kind \in TextKeys \cup IntKeys, NEW s \in Parsing(b, O),
           \A key : \A t \in Parsing(b, O) : Member(kind, b, key, t) \in Parsing(b, O)
    PROVE  MapFrom(kind, b, s) \in Parsing(b, O)
<1>1. ASSUME NEW t \in Parsing(b, O) PROVE Entry(kind, b, t) \in Parsing(b, O)
  <2>1. t.at \in 0 .. Len(b)
    BY ParsingIs
  <2>2. \E key : \E T : /\ key \in Given(b, t.at, T)
                        /\ Entry(kind, b, t) =
                             IF key.ok THEN Member(kind, b, key.val, [t EXCEPT !.at = key.at]) ELSE Refused(t)
    <3>1. CASE kind \in TextKeys
      <4>1. ReadText(b, t.at) \in Given(b, t.at, Seq(Byte))
        BY <2>1, TextStays
      <4> QED
        BY <3>1, <4>1, EntryIs, Zenon
    <3>2. CASE kind \in IntKeys
      <4>1. ReadInt(b, t.at) \in Given(b, t.at, Int)
        BY <2>1, NumberGiven
      <4> QED
        BY <3>2, <4>1, EntryIs, Zenon
    <3> QED
      BY <3>1, <3>2
  <2>3. PICK key, T : /\ key \in Given(b, t.at, T)
                      /\ Entry(kind, b, t) = IF key.ok THEN Member(kind, b, key.val, [t EXCEPT !.at = key.at]) ELSE Refused(t)
    BY <2>2, Zenon
  <2>4. CASE key.ok
    <3>1. key # No
      BY <2>4, GivenIs
    <3>2. key.at \in t.at + 1 .. Len(b)
      BY <2>3, <3>1, GivenIs
    <3>3. key.at \in 0 .. Len(b)
      BY <2>1, <3>2, LenProperties
    <3>4. [t EXCEPT !.at = key.at] \in Parsing(b, O)
      BY <3>3, ParsingIs
    <3> QED
      BY <2>3, <2>4, <3>4
  <2>5. CASE ~key.ok
    BY <2>3, <2>5, ParsingIs
  <2> QED
    BY <2>4, <2>5
<1>2. s.at \in 0 .. Len(b)
  BY ParsingIs
<1>3. ReadMap(b, s.at) \in Given(b, s.at, 0 .. MaxCount)
  BY <1>2, CountStays
<1> HIDE DEF Parsing
<1> QED
  BY <1>1, <1>3, ContainerStays DEF MapFrom

(* What is refused in the end was read all the same.                       *)
LEMMA CompleteStays ==
    \A b, O, s, u : s \in Parsing(b, O) /\ (u = s \/ u = Refused(s)) => u \in Parsing(b, O)
BY ParsingIs

(* parseRpMap keeps to the struct.                                         *)
LEMMA RpMapStays ==
    ASSUME NEW b \in Seq(Byte), NEW O, TakesRp(O), NEW s \in Parsing(b, O)
    PROVE  RpMap(b, s) \in Parsing(b, O)
<1>1. ASSUME NEW key, NEW t \in Parsing(b, O) PROVE Member("rp", b, key, t) \in Parsing(b, O)
  <2>1. RpId(b, t, 1) \in Parsing(b, O) /\ Ignored(b, t) \in Parsing(b, O) /\ UnusedText(b, t) \in Parsing(b, O)
    BY RpIdStays, IgnoredStays
  <2>2. RpMember(b, key, t) \in {RpId(b, t, 1), UnusedText(b, t), Ignored(b, t)}
    <3>1. KeyId # KeyName
      BY DEF KeyId, KeyName
    <3> QED
      BY <3>1, Zenon DEF RpMember
  <2> QED
    BY <2>1, <2>2, MemberIs
<1> DEFINE r == MapFrom("rp", b, s)
<1>2. r \in Parsing(b, O)
  BY <1>1, MapStays DEF TextKeys
<1>3. RpMap(b, s) = r \/ RpMap(b, s) = Refused(r)
  BY RpMapIs, Zenon
<1> HIDE DEF r
<1> QED
  BY <1>2, <1>3, CompleteStays

(* parseUserMap keeps to the struct.                                       *)
LEMMA UserMapStays ==
    ASSUME NEW b \in Seq(Byte), NEW O, TakesUser(O), NEW s \in Parsing(b, O)
    PROVE  UserMap(b, s) \in Parsing(b, O)
<1>1. ASSUME NEW key, NEW t \in Parsing(b, O) PROVE Member("user", b, key, t) \in Parsing(b, O)
  <2>1. GotUser(b, t) \in Parsing(b, O) /\ Ignored(b, t) \in Parsing(b, O) /\ UnusedText(b, t) \in Parsing(b, O)
    BY GotUserStays, IgnoredStays
  <2>2. UserMember(b, key, t) \in {GotUser(b, t), UnusedText(b, t), Ignored(b, t)}
    <3>1. KeyId # KeyName /\ KeyId # KeyDisplayName
      BY DEF KeyId, KeyName, KeyDisplayName
    <3> QED
      BY <3>1, Zenon DEF UserMember
  <2> QED
    BY <2>1, <2>2, MemberIs
<1> DEFINE r == MapFrom("user", b, s)
<1>2. r \in Parsing(b, O)
  BY <1>1, MapStays DEF TextKeys
<1>3. UserMap(b, s) = r \/ UserMap(b, s) = Refused(r)
  BY UserMapIs, Zenon
<1> HIDE DEF r
<1> QED
  BY <1>2, <1>3, CompleteStays

(* parseOptions keeps to the struct.                                       *)
LEMMA OptionsStays ==
    ASSUME NEW b \in Seq(Byte), NEW O, TakesOptions(O), NEW s \in Parsing(b, O)
    PROVE  Options(b, s) \in Parsing(b, O)
<1>1. ASSUME NEW key, NEW t \in Parsing(b, O) PROVE Member("option", b, key, t) \in Parsing(b, O)
  BY GotOptionStays, MemberIs
<1> DEFINE r == MapFrom("option", b, s)
<1>2. r \in Parsing(b, O)
  BY <1>1, MapStays DEF TextKeys
<1>3. Options(b, s) = r
  BY OptionsIs, Zenon
<1> HIDE DEF r
<1> QED
  BY <1>2, <1>3, CompleteStays

(* parseCredentialDescriptor keeps to the struct.                          *)
LEMMA DescriptorStays ==
    ASSUME NEW b \in Seq(Byte), NEW O, TakesId(O), NEW s \in Parsing(b, O)
    PROVE  Descriptor(b, s) \in Parsing(b, O)
<1>1. ASSUME NEW key, NEW t \in Parsing(b, O) PROVE Member("id", b, key, t) \in Parsing(b, O)
  <2>1. GotId(b, t) \in Parsing(b, O) /\ Ignored(b, t) \in Parsing(b, O)
    BY GotIdStays, IgnoredStays
  <2> QED
    BY <2>1, MemberIs DEF IdMember
<1> DEFINE r == MapFrom("id", b, s)
<1>2. r \in Parsing(b, O)
  BY <1>1, MapStays DEF TextKeys
<1>3. Descriptor(b, s) = r \/ Descriptor(b, s) = Refused(r)
  BY DescriptorIs, Zenon
<1> HIDE DEF r
<1> QED
  BY <1>2, <1>3, CompleteStays

(* An entry of pubKeyCredParams keeps to the struct.                       *)
LEMMA AlgMapStays ==
    ASSUME NEW b \in Seq(Byte), NEW O, TakesAlg(O), NEW s \in Parsing(b, O)
    PROVE  AlgMap(b, s) \in Parsing(b, O)
<1>1. ASSUME NEW key, NEW t \in Parsing(b, O) PROVE Member("alg", b, key, t) \in Parsing(b, O)
  <2>1. GotAlg(b, t) \in Parsing(b, O) /\ Ignored(b, t) \in Parsing(b, O)
    BY GotAlgStays, IgnoredStays
  <2> QED
    BY <2>1, MemberIs DEF AlgMember
<1> DEFINE r == MapFrom("alg", b, s)
<1>2. r \in Parsing(b, O)
  BY <1>1, MapStays DEF TextKeys
<1>3. AlgMap(b, s) = r
  BY AlgMapIs, Zenon
<1> HIDE DEF r
<1> QED
  BY <1>2, <1>3, CompleteStays

(* parseCredentialManagementParams keeps to the struct.                    *)
LEMMA CredentialManagementParamsStays ==
    ASSUME NEW b \in Seq(Byte), NEW O, TakesHash(O), TakesId(O), TakesUser(O), NEW s \in Parsing(b, O)
    PROVE  CredentialManagementParams(b, s) \in Parsing(b, O)
<1>1. ASSUME NEW key, NEW t \in Parsing(b, O) PROVE Member("params", b, key, t) \in Parsing(b, O)
  <2>1. /\ GotHash(b, t) \in Parsing(b, O) /\ Descriptor(b, t) \in Parsing(b, O)
        /\ UserMap(b, t) \in Parsing(b, O) /\ Ignored(b, t) \in Parsing(b, O)
    BY GotHashStays, DescriptorStays, UserMapStays, IgnoredStays
  <2>2. ParamsMember(b, key, t) \in {GotHash(b, t), Descriptor(b, t), UserMap(b, t), Ignored(b, t)}
    BY DEF ParamsMember
  <2> QED
    BY <2>1, <2>2, MemberIs
<1> DEFINE r == MapFrom("params", b, s)
<1>2. r \in Parsing(b, O)
  BY <1>1, MapStays DEF IntKeys
<1>3. CredentialManagementParams(b, s) = r
  BY CredentialManagementParamsIs, Zenon
<1> HIDE DEF r
<1> QED
  BY <1>2, <1>3, CompleteStays

(* parseCoseP256 keeps to the struct.                                      *)
LEMMA CoseP256Stays ==
    ASSUME NEW b \in Seq(Byte), NEW O, TakesKey(O), NEW s \in Parsing(b, O)
    PROVE  CoseP256(b, s) \in Parsing(b, O)
<1>1. ASSUME NEW key, NEW t \in Parsing(b, O) PROVE Member("cose", b, key, t) \in Parsing(b, O)
  <2>1. GotX(b, t) \in Parsing(b, O) /\ GotY(b, t) \in Parsing(b, O) /\ Ignored(b, t) \in Parsing(b, O)
    BY GotKeyStays, IgnoredStays
  <2>2. CoseMember(b, key, t) \in {GotX(b, t), GotY(b, t), Ignored(b, t)}
    BY DEF CoseMember
  <2> QED
    BY <2>1, <2>2, MemberIs
<1>2. NoKey(s) \in Parsing(b, O)
  <2>1. <<>> \in Hashes
    BY DEF Hashes
  <2>2. s.out \in O
    BY ParsingIs
  <2>3. [s.out EXCEPT !.x = <<>>] \in O
    BY <2>1, <2>2 DEF TakesKey
  <2>4. [[s.out EXCEPT !.x = <<>>] EXCEPT !.y = <<>>] \in O
    BY <2>1, <2>3 DEF TakesKey
  <2> DEFINE out == [[s.out EXCEPT !.x = <<>>] EXCEPT !.y = <<>>]
  <2>5. NoKey(s) = [s EXCEPT !.out = out]
    BY DEF NoKey, Parsing
  <2>6. out \in O
    BY <2>4
  <2> HIDE DEF out
  <2>7. [s EXCEPT !.out = out] \in Parsing(b, O)
    BY <2>6, ParsingIs
  <2> QED
    BY <2>5, <2>7
<1> DEFINE r == MapFrom("cose", b, NoKey(s))
<1>3. r \in Parsing(b, O)
  BY <1>1, <1>2, MapStays DEF IntKeys
<1>4. CoseP256(b, s) = r \/ CoseP256(b, s) = Refused(r)
  BY CoseP256Is, Zenon
<1> HIDE DEF r
<1> QED
  BY <1>3, <1>4, CompleteStays

(* parsePubKeyCredParams keeps to the struct.                              *)
LEMMA PubKeyCredParamsStays ==
    ASSUME NEW b \in Seq(Byte), NEW O, TakesAlg(O), NEW s \in Parsing(b, O)
    PROVE  PubKeyCredParams(b, s) \in Parsing(b, O)
<1>1. ASSUME NEW t \in Parsing(b, O) PROVE Entry("parameter", b, t) \in Parsing(b, O)
  BY AlgMapStays, EntryIs
<1>2. s.at \in 0 .. Len(b)
  BY ParsingIs
<1>3. ReadArray(b, s.at) \in Given(b, s.at, 0 .. MaxCount)
  BY <1>2, CountStays
<1> QED
  BY <1>1, <1>3, ContainerStays, PubKeyCredParamsIs

(* The list never gets longer than its cap.                                 *)
LEMMA AllowListStays ==
    ASSUME NEW b \in Seq(Byte), NEW O, TakesId(O), TakesAllow(O),
           \A out \in O : out.allow \in ShortLists /\ out.id \in Seq(Byte), NEW s \in Parsing(b, O)
    PROVE  AllowList(b, s) \in Parsing(b, O)
<1>1. ASSUME NEW t \in Parsing(b, O) PROVE Entry("allowed", b, t) \in Parsing(b, O)
  <2> DEFINE u == [t EXCEPT !.out.id = <<>>]
             d == Descriptor(b, u)
  <2>1. u \in Parsing(b, O)
    <3>1. t.out \in O
      <4> HIDE DEF u, d
      <4> QED
        BY ParsingIs
    <3>2. [t.out EXCEPT !.id = <<>>] \in O
      <4>1. <<>> \in Seq(Byte)
        OBVIOUS
      <4> QED
        BY <3>1, <4>1, Zenon DEF TakesId
    <3>3. u = [t EXCEPT !.out = [t.out EXCEPT !.id = <<>>]]
      BY DEF Parsing
    <3> QED
      BY <3>2, <3>3, ParsingIs
  <2> HIDE DEF u
  <2>2. d \in Parsing(b, O)
    BY <2>1, DescriptorStays
  <2>3. Entry("allowed", b, t) = IF d.ok THEN [d EXCEPT !.out.allow = Kept(@, d.out.id)] ELSE d
    BY EntryIs, Zenon DEF Allowed, Listed, u
  <2> HIDE DEF d
  <2>4. d.out \in O
    BY <2>2, ParsingIs
  <2>5. Kept(d.out.allow, d.out.id) \in ShortLists
    <3>1. d.out.allow \in Seq(Seq(Byte)) /\ d.out.id \in Seq(Byte) /\ Len(d.out.allow) <= kMaxAllowListEntries
      BY <2>4 DEF ShortLists
    <3>2. kMaxAllowListEntries \in Nat
      BY SizesAreNat
    <3>3. /\ Append(d.out.allow, d.out.id) \in Seq(Seq(Byte))
          /\ Len(Append(d.out.allow, d.out.id)) = Len(d.out.allow) + 1
      BY <3>1, AppendProperties
    <3>4. Len(d.out.allow) \in Nat
      BY <3>1, LenProperties
    <3> QED
      BY <3>1, <3>2, <3>3, <3>4 DEF Kept, ShortLists
  <2>6. [d.out EXCEPT !.allow = Kept(d.out.allow, d.out.id)] \in O
    BY <2>4, <2>5 DEF TakesAllow
  <2>7. [d EXCEPT !.out.allow = Kept(@, d.out.id)] =
            [d EXCEPT !.out = [d.out EXCEPT !.allow = Kept(d.out.allow, d.out.id)]]
    BY <2>2 DEF Parsing
  <2>8. [d EXCEPT !.out = [d.out EXCEPT !.allow = Kept(d.out.allow, d.out.id)]] \in Parsing(b, O)
    BY <2>2, <2>6, ParsingIs
  <2> QED
    BY <2>2, <2>3, <2>7, <2>8
<1>2. s.at \in 0 .. Len(b)
  BY ParsingIs
<1>3. ReadArray(b, s.at) \in Given(b, s.at, 0 .. MaxCount)
  BY <1>2, CountStays
<1> QED
  BY <1>1, <1>3, ContainerStays, AllowListIs

(* The exclude list keeps to the struct.                                   *)
LEMMA ExcludeListStays ==
    ASSUME NEW b \in Seq(Byte), NEW O, TakesId(O), NEW s \in Parsing(b, O)
    PROVE  ExcludeList(b, s) \in Parsing(b, O)
<1> DEFINE n == ReadArray(b, s.at)
           u == [s EXCEPT !.at = n.at]
<1>1. s.at \in 0 .. Len(b)
  BY ParsingIs
<1>2. n \in Given(b, s.at, 0 .. MaxCount)
  BY <1>1, CountStays
<1>3. ExcludeList(b, s) = CASE ~n.ok -> Refused(s)
                            [] n.ok /\ n.val = 0 -> u
                            [] OTHER -> All("ignored", b, n.val - 1, Descriptor(b, u))
  BY ExcludeListIs, Zenon
<1> HIDE DEF n
<1>4. CASE ~n.ok
  BY <1>3, <1>4, ParsingIs
<1>5. CASE n.ok
  <2>1. n # No
    BY <1>5, GivenIs
  <2>2. n.at \in s.at + 1 .. Len(b) /\ n.val \in 0 .. MaxCount
    BY <1>2, <2>1, GivenIs
  <2>3. n.at \in 0 .. Len(b)
    BY <1>1, <2>2, LenProperties
  <2>4. u \in Parsing(b, O)
    BY <2>3, ParsingIs
  <2> HIDE DEF u
  <2>5. CASE n.val = 0
    BY <1>3, <1>5, <2>4, <2>5
  <2>6. CASE n.val # 0
    <3>1. n.val - 1 \in Nat
      <4>1. MaxCount \in Nat
        BY DEF MaxCount
      <4> QED
        BY <2>2, <2>6, <4>1
    <3>2. Descriptor(b, u) \in Parsing(b, O)
      BY <2>4, DescriptorStays
    <3>3. \A t \in Parsing(b, O) : Entry("ignored", b, t) \in Parsing(b, O)
      BY IgnoredStays, EntryIs
    <3> HIDE DEF Parsing
    <3>4. All("ignored", b, n.val - 1, Descriptor(b, u)) \in Parsing(b, O)
      BY <3>1, <3>2, <3>3, AllStay
    <3> QED
      BY <1>3, <1>5, <2>6, <3>4
  <2> QED
    BY <2>5, <2>6
<1> QED
  BY <1>4, <1>5

\* The request structs of Ctap2.cpp, with the sizes of their members.
MakeCredentialRequests ==
    [hash : Hashes, rp : RpIds, user : UserHandles, es256 : BOOLEAN, id : Seq(Byte), rk : BOOLEAN, uv : BOOLEAN,
     up : BOOLEAN, param : SUBSET Seq(Byte), protocol : Byte]
GetAssertionRequests ==
    [rp : RpIds, hash : Hashes, allow : ShortLists, id : Seq(Byte), rk : BOOLEAN, uv : BOOLEAN, up : BOOLEAN,
     param : SUBSET Seq(Byte), protocol : Byte]
CredentialManagementRequests ==
    [subCommand : Byte, hash : Hashes, id : Seq(Byte), user : UserHandles]
ClientPinRequests ==
    [protocol : Byte, subCommand : Byte, x : Hashes, y : Hashes, param : SUBSET Seq(Byte),
     newPinEnc : SUBSET Seq(Byte), pinHashEnc : SUBSET Seq(Byte), permissions : SUBSET Unsigned, rp : RpIds]

(* What the members of a new request hold.                                 *)
LEMMA EmptyFits ==
    /\ <<>> \in Hashes /\ <<>> \in RpIds /\ <<>> \in UserHandles /\ <<>> \in ShortLists /\ <<>> \in Seq(Byte)
    /\ 0 \in Byte /\ {} \in SUBSET Seq(Byte) /\ {} \in SUBSET Unsigned
<1>1. UserHandleSize \in Nat /\ kMaxAllowListEntries \in Nat
  BY SizesAreNat
<1>2. <<>> \in Seq(Byte) /\ <<>> \in Seq(Seq(Byte)) /\ Len(<<>>) = 0
  OBVIOUS
<1> QED
  BY <1>1, <1>2 DEF Hashes, RpIds, UserHandles, ShortLists, Byte

(* A MakeCredential request takes the values its parser reads.             *)
LEMMA MakeCredentialTakes ==
    LET O == MakeCredentialRequests IN
    /\ TakesHash(O) /\ TakesRp(O) /\ TakesUser(O) /\ TakesAlg(O) /\ TakesId(O) /\ TakesOptions(O)
    /\ TakesParam(O) /\ TakesProtocol(O)
<1> DEFINE O == MakeCredentialRequests
<1>1. TakesHash(O)
  BY DEF MakeCredentialRequests, TakesHash
<1>2. TakesRp(O)
  BY DEF MakeCredentialRequests, TakesRp
<1>3. TakesUser(O)
  BY DEF MakeCredentialRequests, TakesUser
<1>4. TakesAlg(O)
  BY DEF MakeCredentialRequests, TakesAlg
<1>5. TakesId(O)
  BY DEF MakeCredentialRequests, TakesId
<1>6. TakesOptions(O)
  BY DEF MakeCredentialRequests, TakesOptions
<1>7. TakesParam(O)
  BY DEF MakeCredentialRequests, TakesParam
<1>8. TakesProtocol(O)
  BY DEF MakeCredentialRequests, TakesProtocol
<1> QED
  BY <1>1, <1>2, <1>3, <1>4, <1>5, <1>6, <1>7, <1>8

(* A GetAssertion request does, and its list never grows too long.         *)
LEMMA GetAssertionTakes ==
    LET O == GetAssertionRequests IN
    /\ TakesHash(O) /\ TakesRp(O) /\ TakesId(O) /\ TakesAllow(O) /\ TakesOptions(O)
    /\ TakesParam(O) /\ TakesProtocol(O)
    /\ \A out \in O : out.allow \in ShortLists /\ out.id \in Seq(Byte)
<1> DEFINE O == GetAssertionRequests
<1>1. TakesHash(O)
  BY DEF GetAssertionRequests, TakesHash
<1>2. TakesRp(O)
  BY DEF GetAssertionRequests, TakesRp
<1>3. TakesAllow(O)
  BY DEF GetAssertionRequests, TakesAllow
<1>5. TakesId(O)
  BY DEF GetAssertionRequests, TakesId
<1>6. TakesOptions(O)
  BY DEF GetAssertionRequests, TakesOptions
<1>7. TakesParam(O)
  BY DEF GetAssertionRequests, TakesParam
<1>8. TakesProtocol(O)
  BY DEF GetAssertionRequests, TakesProtocol
<1>9. \A out \in O : out.allow \in ShortLists /\ out.id \in Seq(Byte)
  BY DEF GetAssertionRequests
<1> QED
  BY <1>1, <1>2, <1>3, <1>5, <1>6, <1>7, <1>8, <1>9

(* A credential management request does.                                   *)
LEMMA CredentialManagementTakes ==
    LET O == CredentialManagementRequests IN TakesSubCommand(O) /\ TakesHash(O) /\ TakesId(O) /\ TakesUser(O)
<1> DEFINE O == CredentialManagementRequests
<1>1. TakesHash(O)
  BY DEF CredentialManagementRequests, TakesHash
<1>2. TakesSubCommand(O)
  BY DEF CredentialManagementRequests, TakesSubCommand
<1>3. TakesId(O)
  BY DEF CredentialManagementRequests, TakesId
<1>4. TakesUser(O)
  BY DEF CredentialManagementRequests, TakesUser
<1> QED
  BY <1>1, <1>2, <1>3, <1>4

(* A ClientPIN request does.                                               *)
LEMMA ClientPinTakes ==
    LET O == ClientPinRequests IN
    TakesProtocol(O) /\ TakesSubCommand(O) /\ TakesKey(O) /\ TakesParam(O) /\ TakesPins(O) /\ TakesRp(O)
<1> DEFINE O == ClientPinRequests
<1>1. TakesProtocol(O)
  BY DEF ClientPinRequests, TakesProtocol
<1>2. TakesSubCommand(O)
  BY DEF ClientPinRequests, TakesSubCommand
<1>3. TakesKey(O)
  BY DEF ClientPinRequests, TakesKey
<1>4. TakesParam(O)
  BY DEF ClientPinRequests, TakesParam
<1>5. TakesPins(O)
  BY DEF ClientPinRequests, TakesPins
<1>6. TakesRp(O)
  BY DEF ClientPinRequests, TakesRp
<1> QED
  BY <1>1, <1>2, <1>3, <1>4, <1>5, <1>6

(* A parser starts in such a state.                                        *)
LEMMA StartIs ==
    ASSUME NEW b \in Seq(Byte), NEW O, NEW out \in O
    PROVE  Start(out) \in Parsing(b, O)
BY LenProperties DEF Start, Parsing

\* What an accepted request of each command has.
HasMakeCredential(out) ==
    /\ Len(out.hash) = HashLen /\ Len(out.rp) \in 1 .. TextSize - 1 /\ Len(out.user) \in 1 .. UserHandleSize
    /\ out.es256
HasGetAssertion(out) == Len(out.hash) = HashLen /\ Len(out.rp) \in 1 .. TextSize - 1

(* A member that is there has a length of its own.                         *)
LEMMA SizesAre ==
    /\ \A v \in Hashes : v # <<>> => Len(v) = HashLen
    /\ \A v \in RpIds : v # <<>> => Len(v) \in 1 .. TextSize - 1
    /\ \A v \in UserHandles : v # <<>> => Len(v) \in 1 .. UserHandleSize
<1>1. \A v \in Seq(Byte) : v # <<>> => Len(v) \in Nat \ {0}
  BY LenProperties, EmptySeq
<1>2. TextSize \in Nat /\ UserHandleSize \in Nat
  BY SizesAreNat
<1> QED
  BY <1>1, <1>2 DEF Hashes, RpIds, UserHandles

(* parseMakeCredential keeps to its struct, and accepts what has all it needs. *)
LEMMA MakeCredentialFits ==
    ASSUME NEW b \in Seq(Byte)
    PROVE  /\ ParseMakeCredential(b) \in Parsing(b, MakeCredentialRequests)
           /\ ParseMakeCredential(b).ok => HasMakeCredential(ParseMakeCredential(b).out)
<1> DEFINE O == MakeCredentialRequests
           s == Start(NewMakeCredential)
           r == MapFrom("makeCredential", b, s)
<1>1. /\ TakesHash(O) /\ TakesRp(O) /\ TakesUser(O) /\ TakesAlg(O) /\ TakesId(O) /\ TakesOptions(O)
      /\ TakesParam(O) /\ TakesProtocol(O)
  BY MakeCredentialTakes
<1>2. NewMakeCredential \in O
  BY EmptyFits DEF NewMakeCredential, MakeCredentialRequests
<1> HIDE DEF O
<1>3. s \in Parsing(b, O)
  BY <1>2, StartIs
<1>4. ASSUME NEW key, NEW t \in Parsing(b, O) PROVE Member("makeCredential", b, key, t) \in Parsing(b, O)
  <2>1. /\ GotHash(b, t) \in Parsing(b, O) /\ RpMap(b, t) \in Parsing(b, O) /\ UserMap(b, t) \in Parsing(b, O)
        /\ PubKeyCredParams(b, t) \in Parsing(b, O) /\ ExcludeList(b, t) \in Parsing(b, O)
    BY <1>1, GotHashStays, RpMapStays, UserMapStays, PubKeyCredParamsStays, ExcludeListStays
  <2>2. /\ Options(b, t) \in Parsing(b, O) /\ Param(b, t) \in Parsing(b, O) /\ GotProtocol(b, t) \in Parsing(b, O)
        /\ Ignored(b, t) \in Parsing(b, O)
    BY <1>1, OptionsStays, ParamStays, GotProtocolStays, IgnoredStays
  <2>3. MakeCredentialMember(b, key, t) =
            CASE key = 1 -> GotHash(b, t)
              [] key = 2 -> RpMap(b, t)
              [] key = 3 -> UserMap(b, t)
              [] key = 4 -> PubKeyCredParams(b, t)
              [] key = 5 -> ExcludeList(b, t)
              [] key = 7 -> Options(b, t)
              [] key = 8 -> Param(b, t)
              [] key = 9 -> GotProtocol(b, t)
              [] OTHER -> Ignored(b, t)
    BY Zenon DEF MakeCredentialMember, GotHash, GotProtocol, GotByte, Hash, Got
  <2>4. MakeCredentialMember(b, key, t) \in {GotHash(b, t), RpMap(b, t), UserMap(b, t), PubKeyCredParams(b, t),
            ExcludeList(b, t), Options(b, t), Param(b, t), GotProtocol(b, t), Ignored(b, t)}
    BY <2>3
  <2> QED
    BY <2>1, <2>2, <2>4, MemberIs
<1> HIDE DEF s
<1>5. r \in Parsing(b, O)
  BY <1>3, <1>4, MapStays DEF IntKeys
<1>6. ParseMakeCredential(b) = IF r.ok /\ (r.out.hash # <<>> /\ r.out.rp # <<>> /\ r.out.user # <<>> /\ r.out.es256)
                                   THEN r ELSE Refused(r)
  BY ParseMakeCredentialIs, Zenon DEF s
<1> HIDE DEF r
<1>7. r.out \in O /\ Refused(r).ok = FALSE /\ Refused(r) \in Parsing(b, O)
  BY <1>5, ParsingIs
<1>8. r.out.hash \in Hashes /\ r.out.rp \in RpIds /\ r.out.user \in UserHandles
  BY <1>7 DEF O, MakeCredentialRequests
<1>9. CASE r.ok /\ (r.out.hash # <<>> /\ r.out.rp # <<>> /\ r.out.user # <<>> /\ r.out.es256)
  <2>1. ParseMakeCredential(b) = r
    BY <1>6, <1>9, Zenon
  <2>2. HasMakeCredential(r.out)
    <3>1. Len(r.out.hash) = HashLen /\ Len(r.out.rp) \in 1 .. TextSize - 1 /\ Len(r.out.user) \in 1 .. UserHandleSize
      BY <1>8, <1>9, SizesAre
    <3> QED
      BY <1>9, <3>1, Zenon DEF HasMakeCredential
  <2> QED
    BY <1>5, <2>1, <2>2 DEF O
<1>10. CASE ~(r.ok /\ (r.out.hash # <<>> /\ r.out.rp # <<>> /\ r.out.user # <<>> /\ r.out.es256))
  <2>1. ParseMakeCredential(b) = Refused(r)
    BY <1>6, <1>10, Zenon
  <2> QED
    BY <1>7, <2>1 DEF O
<1> QED
  BY <1>9, <1>10

(* parseGetAssertion keeps to its struct, and accepts what has all it needs. *)
LEMMA GetAssertionFits ==
    ASSUME NEW b \in Seq(Byte)
    PROVE  /\ ParseGetAssertion(b) \in Parsing(b, GetAssertionRequests)
           /\ ParseGetAssertion(b).ok => HasGetAssertion(ParseGetAssertion(b).out)
<1> DEFINE O == GetAssertionRequests
           s == Start(NewGetAssertion)
           r == MapFrom("getAssertion", b, s)
<1>1. /\ TakesHash(O) /\ TakesRp(O) /\ TakesId(O) /\ TakesAllow(O) /\ TakesOptions(O) /\ TakesParam(O)
      /\ TakesProtocol(O) /\ \A out \in O : out.allow \in ShortLists /\ out.id \in Seq(Byte)
  BY GetAssertionTakes
<1>2. NewGetAssertion \in O
  BY EmptyFits DEF NewGetAssertion, GetAssertionRequests
<1> HIDE DEF O
<1>3. s \in Parsing(b, O)
  BY <1>2, StartIs
<1>4. ASSUME NEW key, NEW t \in Parsing(b, O) PROVE Member("getAssertion", b, key, t) \in Parsing(b, O)
  <2>1. RpId(b, t, 1) \in Parsing(b, O) /\ GotHash(b, t) \in Parsing(b, O) /\ AllowList(b, t) \in Parsing(b, O)
    BY <1>1, RpIdStays, GotHashStays, AllowListStays
  <2>2. /\ Options(b, t) \in Parsing(b, O) /\ Param(b, t) \in Parsing(b, O) /\ GotProtocol(b, t) \in Parsing(b, O)
        /\ Ignored(b, t) \in Parsing(b, O)
    BY <1>1, OptionsStays, ParamStays, GotProtocolStays, IgnoredStays
  <2>3. GetAssertionMember(b, key, t) =
            CASE key = 1 -> RpId(b, t, 1)
              [] key = 2 -> GotHash(b, t)
              [] key = 3 -> AllowList(b, t)
              [] key = 5 -> Options(b, t)
              [] key = 6 -> Param(b, t)
              [] key = 7 -> GotProtocol(b, t)
              [] OTHER -> Ignored(b, t)
    BY Zenon DEF GetAssertionMember, GotHash, GotProtocol, GotByte, Hash, Got
  <2>4. GetAssertionMember(b, key, t) \in {RpId(b, t, 1), GotHash(b, t), AllowList(b, t), Options(b, t), Param(b, t),
            GotProtocol(b, t), Ignored(b, t)}
    BY <2>3
  <2> QED
    BY <2>1, <2>2, <2>4, MemberIs
<1> HIDE DEF s
<1>5. r \in Parsing(b, O)
  BY <1>3, <1>4, MapStays DEF IntKeys
<1>6. ParseGetAssertion(b) = IF r.ok /\ (r.out.rp # <<>> /\ r.out.hash # <<>>) THEN r ELSE Refused(r)
  BY ParseGetAssertionIs, Zenon DEF s
<1> HIDE DEF r
<1>7. r.out \in O /\ Refused(r).ok = FALSE /\ Refused(r) \in Parsing(b, O)
  BY <1>5, ParsingIs
<1>8. r.out.hash \in Hashes /\ r.out.rp \in RpIds
  BY <1>7 DEF O, GetAssertionRequests
<1>9. CASE r.ok /\ (r.out.rp # <<>> /\ r.out.hash # <<>>)
  <2>1. ParseGetAssertion(b) = r
    BY <1>6, <1>9, Zenon
  <2>2. HasGetAssertion(r.out)
    BY <1>8, <1>9, SizesAre DEF HasGetAssertion
  <2> QED
    BY <1>5, <2>1, <2>2 DEF O
<1>10. CASE ~(r.ok /\ (r.out.rp # <<>> /\ r.out.hash # <<>>))
  <2>1. ParseGetAssertion(b) = Refused(r)
    BY <1>6, <1>10, Zenon
  <2> QED
    BY <1>7, <2>1 DEF O
<1> QED
  BY <1>9, <1>10

(* parseCredentialManagement keeps to its struct, and accepts no subcommand 0. *)
LEMMA CredentialManagementFits ==
    ASSUME NEW b \in Seq(Byte)
    PROVE  /\ ParseCredentialManagement(b) \in Parsing(b, CredentialManagementRequests)
           /\ ParseCredentialManagement(b).ok => ParseCredentialManagement(b).out.subCommand # 0
<1> DEFINE O == CredentialManagementRequests
           s == Start(NewCredentialManagement)
           r == MapFrom("management", b, s)
<1>1. TakesSubCommand(O) /\ TakesHash(O) /\ TakesId(O) /\ TakesUser(O)
  BY CredentialManagementTakes
<1>2. NewCredentialManagement \in O
  BY EmptyFits DEF NewCredentialManagement, CredentialManagementRequests
<1> HIDE DEF O
<1>3. s \in Parsing(b, O)
  BY <1>2, StartIs
<1>4. ASSUME NEW key, NEW t \in Parsing(b, O) PROVE Member("management", b, key, t) \in Parsing(b, O)
  <2>1. /\ GotSubCommand(b, t) \in Parsing(b, O) /\ CredentialManagementParams(b, t) \in Parsing(b, O)
        /\ Ignored(b, t) \in Parsing(b, O)
    BY <1>1, GotSubCommandStays, CredentialManagementParamsStays, IgnoredStays
  <2>2. CredentialManagementMember(b, key, t) =
            CASE key = 1 -> GotSubCommand(b, t)
              [] key = 2 -> CredentialManagementParams(b, t)
              [] OTHER -> Ignored(b, t)
    BY Zenon DEF CredentialManagementMember, GotSubCommand, GotByte, Got
  <2>3. CredentialManagementMember(b, key, t) \in
            {GotSubCommand(b, t), CredentialManagementParams(b, t), Ignored(b, t)}
    BY <2>2
  <2> QED
    BY <2>1, <2>3, MemberIs
<1> HIDE DEF s
<1>5. r \in Parsing(b, O)
  BY <1>3, <1>4, MapStays DEF IntKeys
<1>6. ParseCredentialManagement(b) = IF r.ok /\ r.out.subCommand # 0 THEN r ELSE Refused(r)
  BY ParseCredentialManagementIs, Zenon DEF s
<1> HIDE DEF r
<1>7. Refused(r).ok = FALSE /\ Refused(r) \in Parsing(b, O)
  BY <1>5, ParsingIs
<1> QED
  BY <1>5, <1>6, <1>7 DEF O

(* parseClientPin keeps to its struct, and accepts no subcommand 0.        *)
LEMMA ClientPinFits ==
    ASSUME NEW b \in Seq(Byte)
    PROVE  /\ ParseClientPin(b) \in Parsing(b, ClientPinRequests)
           /\ ParseClientPin(b).ok => ParseClientPin(b).out.subCommand # 0
<1> DEFINE O == ClientPinRequests
           s == Start(NewClientPin)
           r == MapFrom("clientPin", b, s)
<1>1. TakesProtocol(O) /\ TakesSubCommand(O) /\ TakesKey(O) /\ TakesParam(O) /\ TakesPins(O) /\ TakesRp(O)
  BY ClientPinTakes
<1>2. NewClientPin \in O
  BY EmptyFits DEF NewClientPin, ClientPinRequests
<1> HIDE DEF O
<1>3. s \in Parsing(b, O)
  BY <1>2, StartIs
<1>4. ASSUME NEW key, NEW t \in Parsing(b, O) PROVE Member("clientPin", b, key, t) \in Parsing(b, O)
  <2>1. /\ GotProtocol(b, t) \in Parsing(b, O) /\ GotSubCommand(b, t) \in Parsing(b, O)
        /\ CoseP256(b, t) \in Parsing(b, O) /\ Param(b, t) \in Parsing(b, O)
    BY <1>1, GotProtocolStays, GotSubCommandStays, CoseP256Stays, ParamStays
  <2>2. /\ GotNewPin(b, t) \in Parsing(b, O) /\ GotPinHash(b, t) \in Parsing(b, O)
        /\ GotPermissions(b, t) \in Parsing(b, O) /\ RpId(b, t, 0) \in Parsing(b, O)
        /\ Ignored(b, t) \in Parsing(b, O)
    BY <1>1, GotPinsStay, RpIdStays, IgnoredStays
  <2>3. ClientPinMember(b, key, t) =
            CASE key = 1 -> GotProtocol(b, t)
              [] key = 2 -> GotSubCommand(b, t)
              [] key = 3 -> CoseP256(b, t)
              [] key = 4 -> Param(b, t)
              [] key = 5 -> GotNewPin(b, t)
              [] key = 6 -> GotPinHash(b, t)
              [] key = 9 -> GotPermissions(b, t)
              [] key = 10 -> RpId(b, t, 0)
              [] OTHER -> Ignored(b, t)
    BY Zenon DEF ClientPinMember, GotProtocol, GotSubCommand, GotNewPin, GotPinHash, GotPermissions, GotByte, Got,
                 Anything
  <2>4. ClientPinMember(b, key, t) \in {GotProtocol(b, t), GotSubCommand(b, t), CoseP256(b, t), Param(b, t),
            GotNewPin(b, t), GotPinHash(b, t), GotPermissions(b, t), RpId(b, t, 0), Ignored(b, t)}
    BY <2>3
  <2> QED
    BY <2>1, <2>2, <2>4, MemberIs
<1> HIDE DEF s
<1>5. r \in Parsing(b, O)
  BY <1>3, <1>4, MapStays DEF IntKeys
<1>6. ParseClientPin(b) = IF r.ok /\ r.out.subCommand # 0 THEN r ELSE Refused(r)
  BY ParseClientPinIs, Zenon DEF s
<1> HIDE DEF r
<1>7. Refused(r).ok = FALSE /\ Refused(r) \in Parsing(b, O)
  BY <1>5, ParsingIs
<1> QED
  BY <1>5, <1>6, <1>7 DEF O

(* The data of a U2F request lies in its bytes.                            *)
LEMMA ApduFits ==
    ASSUME NEW b \in Seq(Byte)
    PROVE  ParseU2fApdu(b).data \in Seq(Byte) /\ Len(ParseU2fApdu(b).data) <= Len(b)
<1> DEFINE In(u) == u.data \in Seq(Byte) /\ Len(u.data) <= Len(b)
<1>1. ASSUME NEW from \in Nat, NEW lc \in Nat PROVE In(ApduData(b, from, lc))
  <2>1. CASE Len(b) < from + lc
    <3>1. ApduData(b, from, lc) = NoApdu
      BY <2>1 DEF ApduData
    <3>2. NoApdu.data = <<>> /\ <<>> \in Seq(Byte) /\ Len(<<>>) = 0
      BY DEF NoApdu
    <3> QED
      BY <3>1, <3>2, LenProperties
  <2>2. CASE from + lc <= Len(b)
    <3>1. ApduData(b, from, lc).data = SubSeq(b, from + 1, from + lc)
      BY <2>2, LenProperties DEF ApduData
    <3>2. \A i \in from + 1 .. from + lc : b[i] \in Byte
      <4> SUFFICES ASSUME NEW i \in from + 1 .. from + lc PROVE b[i] \in Byte
        OBVIOUS
      <4>1. i \in 1 .. Len(b)
        BY <2>2, LenProperties
      <4> QED
        BY <4>1, ElementOfSeq
    <3>3. SubSeq(b, from + 1, from + lc) \in Seq(Byte) /\ Len(SubSeq(b, from + 1, from + lc)) = lc
      BY <2>2, <3>2, LenProperties, SubSeqProperties
    <3> QED
      BY <2>2, <3>1, <3>3, LenProperties
  <2> QED
    BY <2>1, <2>2, LenProperties
<1>2. In(NoApdu)
  <2>1. NoApdu.data = <<>> /\ <<>> \in Seq(Byte) /\ Len(<<>>) = 0
    BY DEF NoApdu
  <2> QED
    BY <2>1, LenProperties
<1>3. Len(b) > 5 => b[5] \in Nat
  BY LenProperties, ElementOfSeq DEF Byte
<1>4. Len(b) > 6 => b[6] * 256 + b[7] \in Nat
  <2> SUFFICES ASSUME Len(b) > 6 PROVE b[6] * 256 + b[7] \in Nat
    OBVIOUS
  <2>1. b[6] \in Byte /\ b[7] \in Byte
    BY LenProperties, ElementOfSeq
  <2>2. b[6] \in Nat /\ b[7] \in Nat
    BY <2>1 DEF Byte
  <2> QED
    BY <2>2
<1>5. ParseU2fApdu(b) = NoApdu \/ \E from, lc \in Nat : ParseU2fApdu(b) = ApduData(b, from, lc)
  <2> DEFINE n == Len(b)
  <2>1. n \in Nat
    BY LenProperties
  <2>2. ParseU2fApdu(b) =
            CASE n < 4 -> NoApdu
              [] n \in {4, 5} -> ApduData(b, 0, 0)
              [] n > 5 /\ b[5] # 0 -> ApduData(b, 5, b[5])
              [] n = 6 /\ b[5] = 0 -> NoApdu
              [] OTHER -> ApduData(b, 7, b[6] * 256 + b[7])
    BY Zenon DEF ParseU2fApdu
  <2>3. (n > 5 => b[5] \in Nat) /\ (n > 6 => b[6] * 256 + b[7] \in Nat)
    BY <1>3, <1>4
  <2> HIDE DEF n
  <2>4. CASE n < 4
    BY <2>1, <2>2, <2>4
  <2>5. CASE n = 4 \/ n = 5
    <3>1. ParseU2fApdu(b) = ApduData(b, 0, 0)
      BY <2>2, <2>5
    <3> QED
      BY <3>1
  <2>6. CASE n > 5 /\ b[5] # 0
    <3>1. ParseU2fApdu(b) = ApduData(b, 5, b[5])
      BY <2>1, <2>2, <2>6
    <3> QED
      BY <2>3, <2>6, <3>1
  <2>7. CASE n = 6 /\ b[5] = 0
    BY <2>2, <2>7
  <2>8. CASE n > 6 /\ b[5] = 0
    <3>1. ParseU2fApdu(b) = ApduData(b, 7, b[6] * 256 + b[7])
      BY <2>1, <2>2, <2>8
    <3> QED
      BY <2>3, <2>8, <3>1
  <2>9. n < 4 \/ (n = 4 \/ n = 5) \/ (n > 5 /\ b[5] # 0) \/ (n = 6 /\ b[5] = 0) \/ (n > 6 /\ b[5] = 0)
    BY <2>1
  <2> QED
    BY <2>4, <2>5, <2>6, <2>7, <2>8, <2>9
<1> HIDE DEF In
<1>6. In(ParseU2fApdu(b))
  BY <1>1, <1>2, <1>5
<1> QED
  BY <1>6 DEF In

(* RequestsFit: whatever the bytes of a request are, its parser stays in   *)
(* the buffer and fills the struct of its command within the sizes the     *)
(* code declares: hashes and coordinates of 32 bytes, an rpId with room    *)
(* for its end, a user handle of at most 64, an allow list of at most      *)
(* kMaxAllowListEntries, numbers of their width.  A MakeCredential or      *)
(* GetAssertion it accepts has every member its handler goes on to use,    *)
(* a credential management or ClientPIN request a subcommand, and the data *)
(* of a U2F request is no longer than the request.                         *)
THEOREM RequestsFit ==
    \A b \in Seq(Byte) :
       /\ ParseMakeCredential(b) \in Parsing(b, MakeCredentialRequests)
       /\ ParseMakeCredential(b).ok => HasMakeCredential(ParseMakeCredential(b).out)
       /\ ParseGetAssertion(b) \in Parsing(b, GetAssertionRequests)
       /\ ParseGetAssertion(b).ok => HasGetAssertion(ParseGetAssertion(b).out)
       /\ ParseCredentialManagement(b) \in Parsing(b, CredentialManagementRequests)
       /\ ParseCredentialManagement(b).ok => ParseCredentialManagement(b).out.subCommand # 0
       /\ ParseClientPin(b) \in Parsing(b, ClientPinRequests)
       /\ ParseClientPin(b).ok => ParseClientPin(b).out.subCommand # 0
       /\ ParseU2fApdu(b).data \in Seq(Byte) /\ Len(ParseU2fApdu(b).data) <= Len(b)
<1> TAKE b \in Seq(Byte)
<1>1. /\ ParseMakeCredential(b) \in Parsing(b, MakeCredentialRequests)
      /\ ParseMakeCredential(b).ok => HasMakeCredential(ParseMakeCredential(b).out)
  BY MakeCredentialFits
<1>2. /\ ParseGetAssertion(b) \in Parsing(b, GetAssertionRequests)
      /\ ParseGetAssertion(b).ok => HasGetAssertion(ParseGetAssertion(b).out)
  BY GetAssertionFits
<1>3. /\ ParseCredentialManagement(b) \in Parsing(b, CredentialManagementRequests)
      /\ ParseCredentialManagement(b).ok => ParseCredentialManagement(b).out.subCommand # 0
  BY CredentialManagementFits
<1>4. /\ ParseClientPin(b) \in Parsing(b, ClientPinRequests)
      /\ ParseClientPin(b).ok => ParseClientPin(b).out.subCommand # 0
  BY ClientPinFits
<1>5. ParseU2fApdu(b).data \in Seq(Byte) /\ Len(ParseU2fApdu(b).data) <= Len(b)
  BY ApduFits
<1> QED
  BY <1>1, <1>2, <1>3, <1>4, <1>5
=============================================================================
