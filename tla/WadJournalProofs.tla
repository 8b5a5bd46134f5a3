-------------------------- MODULE WadJournalProofs --------------------------
(***************************************************************************)
(* Proofs about the journals that are read from the bytes of archives, for *)
(* any files in any version of the format.                                 *)
(*                                                                         *)
(* Induction over the entries of an archive is RangeInduction, over the    *)
(* set of the entries a fact holds of.                                     *)
(***************************************************************************)
EXTENDS WadBytes, WadProofs

-----------------------------------------------------------------------------
(***************************************************************************)
(* Numbers.                                                                *)
(***************************************************************************)
LEMMA BytesOfInt32 ==
  ASSUME NEW n \in Positive32
  PROVE  /\ (n % 256) + 256 * ((n \div 256) % 256)
            + 65536 * ((n \div 65536) % 256)
            + 16777216 * ((n \div 16777216) % 256) = n
         /\ (n \div 16777216) % 256 < 128
  BY SMT DEF Positive32

\* What read_i32 reads where a number has been written.
LEMMA ReadsWritten ==
  ASSUME NEW bytes, NEW k \in Nat, NEW n \in Positive32,
         \A t \in 1 .. 4 : bytes[k + t] = Int32(n)[t]
  PROVE  ReadInt32(bytes, k) = n
<1>1. /\ bytes[k + 1] = n % 256
      /\ bytes[k + 2] = (n \div 256) % 256
      /\ bytes[k + 3] = (n \div 65536) % 256
      /\ bytes[k + 4] = (n \div 16777216) % 256
  BY SMT DEF Int32
<1> QED BY <1>1, BytesOfInt32, SMT DEF ReadInt32

-----------------------------------------------------------------------------
(***************************************************************************)
(* Sequences of sequences.                                                 *)
(***************************************************************************)
\* f[i] is what the first i of seqs come to.
IsFlattening(f, seqs) ==
  f = [i \in 1 .. Len(seqs) |-> IF i = 1 THEN seqs[i] ELSE f[i - 1] \o seqs[i]]

LEMMA FlatteningExists ==
  ASSUME NEW S, NEW seqs \in Seq(Seq(S)), Len(seqs) > 0
  PROVE  \E f : IsFlattening(f, seqs)
<1> DEFINE IsUpTo(g, n) ==
             g = [i \in 1 .. n |-> IF i = 1 THEN seqs[i] ELSE g[i - 1] \o seqs[i]]
           T == {n \in Nat : \E g : IsUpTo(g, n)}
<1>1. 1 \in T
  <2>1. IsUpTo([i \in 1 .. 1 |-> seqs[i]], 1)
    OBVIOUS
  <2> QED BY <2>1
<1>2. ASSUME NEW n \in 1 .. Len(seqs) - 1, n \in T PROVE n + 1 \in T
  <2>1. PICK g : IsUpTo(g, n)
    BY <1>2
  <2>n. n \in Nat /\ n >= 1 /\ n + 1 # 1 /\ (n + 1) - 1 = n /\ ~(n + 1 <= n)
    OBVIOUS
  <2> DEFINE h == [i \in 1 .. n + 1 |-> IF i <= n THEN g[i]
                                        ELSE g[n] \o seqs[n + 1]]
  <2>2. \A i \in 1 .. n : h[i] = IF i = 1 THEN seqs[i] ELSE h[i - 1] \o seqs[i]
    <3>1. \A i \in 1 .. n : g[i] = IF i = 1 THEN seqs[i] ELSE g[i - 1] \o seqs[i]
      BY <2>1
    <3>2. \A i \in 1 .. n : h[i] = g[i]
      OBVIOUS
    <3> QED BY <3>1, <3>2
  <2>3. h[n + 1] = h[n] \o seqs[n + 1]
    <3>1. n + 1 \in 1 .. n + 1 /\ n \in 1 .. n + 1
      BY <2>n
    <3>2. h[n + 1] = g[n] \o seqs[n + 1]
      BY <2>n, <3>1, Zenon
    <3>3. h[n] = g[n]
      BY <3>1, <2>n
    <3> QED BY <3>2, <3>3, Zenon
  <2>4. IsUpTo(h, n + 1)
    <3> DEFINE k == [i \in 1 .. n + 1 |-> IF i = 1 THEN seqs[i]
                                          ELSE h[i - 1] \o seqs[i]]
    <3>1. \A i \in 1 .. n + 1 : h[i] = k[i]
      <4>1. \A i \in 1 .. n : h[i] = k[i]
        <5>1. \A i \in 1 .. n : i \in 1 .. n + 1
          BY <2>n
        <5>2. \A i \in 1 .. n : k[i] = IF i = 1 THEN seqs[i]
                                      ELSE h[i - 1] \o seqs[i]
          BY <5>1, Zenon
        <5> HIDE DEF h, k
        <5> QED BY <2>2, <5>2, Zenon
      <4>2. h[n + 1] = k[n + 1]
        <5>1. n + 1 \in 1 .. n + 1
          BY <2>n
        <5>2. k[n + 1] = h[n] \o seqs[n + 1]
          BY <5>1, <2>n, Zenon
        <5> QED BY <5>2, <2>3, Zenon
      <4>3. \A i \in 1 .. n + 1 : i \in 1 .. n \/ i = n + 1
        BY <2>n
      <4> HIDE DEF h, k
      <4> QED BY <4>1, <4>2, <4>3
    <3>2. h = [i \in 1 .. n + 1 |-> h[i]]
      OBVIOUS
    <3>3. k = [i \in 1 .. n + 1 |-> k[i]]
      OBVIOUS
    <3>4. h = k
      <4> HIDE DEF h, k
      <4> QED BY <3>1, <3>2, <3>3, Zenon
    <3> HIDE DEF h
    <3> QED BY <3>4, Zenon
  <2> HIDE DEF h, IsUpTo
  <2> QED BY <2>n, <2>4
<1>3. Len(seqs) \in Nat
  OBVIOUS
<1>4. Len(seqs) \in T
  <2> HIDE DEF T
  <2>1. \A i \in 1 .. Len(seqs) : i \in T
    BY <1>1, <1>2, <1>3, RangeInduction
  <2> QED BY <1>3, <2>1
<1> QED BY <1>4 DEF IsFlattening

LEMMA Flattened ==
  ASSUME NEW S, NEW seqs \in Seq(Seq(S)), Len(seqs) > 0
  PROVE  \E f \in [1 .. Len(seqs) -> Seq(S)] :
           /\ FlattenSeq(seqs) = f[Len(seqs)]
           /\ f[1] = seqs[1]
           /\ \A i \in 1 .. Len(seqs) - 1 : f[i + 1] = f[i] \o seqs[i + 1]
<1> DEFINE f == CHOOSE g : IsFlattening(g, seqs)
           n == Len(seqs)
           T == {i \in Nat : f[i] \in Seq(S)}
<1>1. IsFlattening(f, seqs)
  BY FlatteningExists, Zenon
<1>2. FlattenSeq(seqs) = f[n]
  BY DEF FlattenSeq, IsFlattening
<1> HIDE DEF f
<1>3. n \in Nat /\ n >= 1 /\ \A i \in 1 .. n : seqs[i] \in Seq(S)
  OBVIOUS
<1>4. f[1] = seqs[1]
  <2>1. 1 \in 1 .. n
    BY <1>3
  <2> QED BY <1>1, <2>1, Zenon DEF IsFlattening
<1>5. ASSUME NEW i \in 1 .. n - 1 PROVE f[i + 1] = f[i] \o seqs[i + 1]
  <2>1. i + 1 \in 1 .. n /\ i + 1 # 1 /\ (i + 1) - 1 = i
    BY <1>3
  <2>2. f[i + 1] = f[(i + 1) - 1] \o seqs[i + 1]
    BY <1>1, <2>1, Zenon DEF IsFlattening
  <2> QED BY <2>1, <2>2
<1>6. \A i \in 1 .. n : i \in T
  <2>1. 1 \in T
    BY <1>3, <1>4
  <2>2. ASSUME NEW i \in 1 .. n - 1, i \in T PROVE i + 1 \in T
    <3>1. f[i] \in Seq(S) /\ seqs[i + 1] \in Seq(S) /\ i + 1 \in Nat
      BY <1>3, <2>2
    <3>2. f[i] \o seqs[i + 1] \in Seq(S)
      BY <3>1, ConcatProperties
    <3> QED BY <1>5, <3>1, <3>2
  <2> HIDE DEF T, n
  <2> QED BY <1>3, <2>1, <2>2, RangeInduction
<1>7. f \in [1 .. n -> Seq(S)]
  <2>1. \A i \in 1 .. n : f[i] \in Seq(S)
    BY <1>6
  <2>2. f = [i \in 1 .. n |-> f[i]]
    BY <1>1 DEF IsFlattening
  <2> HIDE DEF n
  <2> QED BY <2>1, <2>2, Zenon
<1> QED BY <1>2, <1>4, <1>5, <1>7

LEMMA ConcatParts ==
  ASSUME NEW S, NEW s \in Seq(S), NEW r \in Seq(S)
  PROVE  /\ s \o r \in Seq(S)
         /\ Len(s) \in Nat /\ Len(r) \in Nat /\ Len(s \o r) = Len(s) + Len(r)
         /\ \A t \in 1 .. Len(s) : (s \o r)[t] = s[t]
         /\ \A t \in 1 .. Len(r) : (s \o r)[Len(s) + t] = r[t]
  BY ConcatProperties

\* The lengths of flattenings, when the parts before the k-th have the length of
\* an entry.
LEMMA LengthsInStep ==
  ASSUME NEW n \in Nat, NEW k \in 1 .. n,
         NEW len \in [1 .. n -> Nat], NEW sum \in [1 .. n -> Nat],
         sum[1] = len[1],
         \A i \in 1 .. n - 1 : sum[i + 1] = sum[i] + len[i + 1],
         \A j \in 1 .. k - 1 : len[j] = 23
  PROVE  /\ \A i \in 1 .. k - 1 : sum[i] = 23 * i
         /\ \A m \in k .. n : sum[m] >= 23 * (k - 1) + len[k]
<1>1. \A i \in 1 .. k - 1 : sum[i] = 23 * i
  <2> DEFINE T == {i \in Nat : sum[i] = 23 * i}
  <2>1. CASE k = 1
    BY <2>1
  <2>2. CASE k > 1
    <3>1. 1 \in T
      BY <2>2
    <3>2. ASSUME NEW i \in 1 .. (k - 1) - 1, i \in T PROVE i + 1 \in T
      <4>1. i \in 1 .. n - 1 /\ i + 1 \in 1 .. k - 1
        OBVIOUS
      <4> QED BY <3>2, <4>1
    <3>3. k - 1 \in Nat
      OBVIOUS
    <3> HIDE DEF T
    <3>4. \A i \in 1 .. k - 1 : i \in T
      BY <3>1, <3>2, <3>3, RangeInduction
    <3> QED BY <3>4 DEF T
  <2> QED BY <2>1, <2>2
<1>2. \A m \in k .. n : sum[m] >= 23 * (k - 1) + len[k]
  <2> DEFINE T == {m \in Nat : sum[m] >= 23 * (k - 1) + len[k]}
  <2>1. k \in T
    <3>1. CASE k = 1
      BY <3>1
    <3>2. CASE k > 1
      <4>1. k - 1 \in 1 .. n - 1 /\ k - 1 \in 1 .. k - 1 /\ (k - 1) + 1 = k
        BY <3>2
      <4>2. sum[(k - 1) + 1] = sum[k - 1] + len[(k - 1) + 1]
        BY <4>1
      <4> QED BY <1>1, <4>1, <4>2
    <3> QED BY <3>1, <3>2
  <2>2. ASSUME NEW m \in k .. n - 1, m \in T PROVE m + 1 \in T
    <3>1. m \in 1 .. n - 1 /\ m \in 1 .. n /\ m + 1 \in 1 .. n /\ m + 1 \in Nat
      OBVIOUS
    <3>2. /\ sum[m + 1] = sum[m] + len[m + 1]
          /\ len[m + 1] \in Nat /\ sum[m] \in Nat /\ len[k] \in Nat
      BY <3>1
    <3>3. sum[m] >= 23 * (k - 1) + len[k]
      BY <2>2
    <3> QED BY <3>1, <3>2, <3>3
  <2>k. k \in Nat
    OBVIOUS
  <2> HIDE DEF T
  <2>3. \A m \in k .. n : m \in T
    BY <2>1, <2>2, <2>k, RangeInduction
  <2> QED BY <2>3 DEF T
<1> QED BY <1>1, <1>2

\* As long as its parts before the k-th have the length of an entry, the k-th is
\* found at the offset of that many entries.
LEMMA FlattenedInStep ==
  ASSUME NEW S, NEW seqs \in Seq(Seq(S)), NEW k \in 1 .. Len(seqs),
         \A j \in 1 .. k - 1 : Len(seqs[j]) = EntryLength
  PROVE  /\ FlattenSeq(seqs) \in Seq(S)
         /\ Len(FlattenSeq(seqs)) >= EntryLength * (k - 1) + Len(seqs[k])
         /\ \A t \in 1 .. Len(seqs[k]) :
              FlattenSeq(seqs)[EntryLength * (k - 1) + t] = seqs[k][t]
<1> DEFINE n == Len(seqs)
<1>1. n \in Nat /\ n > 0 /\ k \in 1 .. n /\ EntryLength = 23
  BY DEF EntryLength, NameLength
<1>2. PICK f \in [1 .. n -> Seq(S)] :
        /\ FlattenSeq(seqs) = f[n]
        /\ f[1] = seqs[1]
        /\ \A i \in 1 .. n - 1 : f[i + 1] = f[i] \o seqs[i + 1]
  BY <1>1, Flattened, Zenon
<1>3. \A i \in 1 .. n : seqs[i] \in Seq(S)
  BY ElementOfSeq, Zenon
<1> DEFINE len == [i \in 1 .. n |-> Len(seqs[i])]
           sum == [i \in 1 .. n |-> Len(f[i])]
<1> HIDE DEF n
<1>4. \A i \in 1 .. n : f[i] \in Seq(S)
  BY <1>2
<1>5. ASSUME NEW i \in 1 .. n - 1
      PROVE  /\ Len(f[i + 1]) = Len(f[i]) + Len(seqs[i + 1])
             /\ \A t \in 1 .. Len(f[i]) : f[i + 1][t] = f[i][t]
             /\ \A t \in 1 .. Len(seqs[i + 1]) :
                  f[i + 1][Len(f[i]) + t] = seqs[i + 1][t]
  <2>1. i \in 1 .. n /\ i + 1 \in 1 .. n
    BY <1>1
  <2>2. f[i] \in Seq(S) /\ seqs[i + 1] \in Seq(S)
    BY <1>3, <1>4, <2>1
  <2>3. f[i + 1] = f[i] \o seqs[i + 1]
    BY <1>2
  <2> DEFINE s == f[i]
             r == seqs[i + 1]
  <2> HIDE DEF s, r
  <2>4. s \in Seq(S) /\ r \in Seq(S)
    BY <2>2 DEF s, r
  <2>5. /\ Len(s \o r) = Len(s) + Len(r)
        /\ \A t \in 1 .. Len(s) : (s \o r)[t] = s[t]
        /\ \A t \in 1 .. Len(r) : (s \o r)[Len(s) + t] = r[t]
    BY <2>4, ConcatParts
  <2>6. f[i + 1] = s \o r
    BY <2>3 DEF s, r
  <2> QED BY <2>5, <2>6, Zenon DEF s, r
<1>6. len \in [1 .. n -> Nat] /\ sum \in [1 .. n -> Nat]
  <2>1. \A i \in 1 .. n : Len(seqs[i]) \in Nat /\ Len(f[i]) \in Nat
    BY <1>3, <1>4, LenProperties, Zenon
  <2> QED BY <2>1
<1>7. sum[1] = len[1]
  BY <1>1, <1>2
<1>8. \A i \in 1 .. n - 1 : sum[i + 1] = sum[i] + len[i + 1]
  <2>1. ASSUME NEW i \in 1 .. n - 1 PROVE sum[i + 1] = sum[i] + len[i + 1]
    <3>1. i \in 1 .. n /\ i + 1 \in 1 .. n
      BY <1>1
    <3>2. /\ sum[i + 1] = Len(f[i + 1]) /\ sum[i] = Len(f[i])
          /\ len[i + 1] = Len(seqs[i + 1])
      BY <3>1, Zenon
    <3> QED BY <1>5, <3>2, Zenon
  <2> QED BY <2>1, Zenon
<1>9. \A j \in 1 .. k - 1 : len[j] = 23
  BY <1>1
<1>10. /\ \A i \in 1 .. k - 1 : Len(f[i]) = 23 * i
       /\ \A m \in k .. n : Len(f[m]) >= 23 * (k - 1) + Len(seqs[k])
  <2> HIDE DEF len, sum
  <2>1. /\ \A i \in 1 .. k - 1 : sum[i] = 23 * i
        /\ \A m \in k .. n : sum[m] >= 23 * (k - 1) + len[k]
    BY <1>1, <1>6, <1>7, <1>8, <1>9, LengthsInStep
  <2>2. /\ \A i \in 1 .. k - 1 : i \in 1 .. n
        /\ \A m \in k .. n : m \in 1 .. n
    BY <1>1
  <2>3. /\ \A i \in 1 .. n : sum[i] = Len(f[i])
        /\ len[k] = Len(seqs[k])
    BY <1>1, Zenon DEF len, sum
  <2> QED BY <2>1, <2>2, <2>3
<1> HIDE DEF len, sum
<1> DEFINE T == {m \in Nat :
             \A t \in 1 .. Len(seqs[k]) : f[m][23 * (k - 1) + t] = seqs[k][t]}
<1>11. k \in T
  <2>1. CASE k = 1
    BY <1>1, <1>2, <1>6, <2>1
  <2>2. CASE k > 1
    <3>1. /\ k - 1 \in 1 .. n - 1 /\ (k - 1) + 1 = k
          /\ Len(f[k - 1]) = 23 * (k - 1)
      BY <1>1, <1>10, <2>2
    <3>2. \A t \in 1 .. Len(seqs[k]) : f[k][Len(f[k - 1]) + t] = seqs[k][t]
      <4>1. \A t \in 1 .. Len(seqs[(k - 1) + 1]) :
              f[(k - 1) + 1][Len(f[k - 1]) + t] = seqs[(k - 1) + 1][t]
        BY <1>5, <3>1, Zenon
      <4> QED BY <3>1, <4>1, Zenon
    <3>3. k \in Nat
      BY <1>1
    <3> QED BY <3>1, <3>2, <3>3, Zenon
  <2> QED BY <1>1, <2>1, <2>2
<1>12. ASSUME NEW m \in k .. n - 1, m \in T PROVE m + 1 \in T
  <2>1. m \in 1 .. n - 1 /\ m \in k .. n /\ m + 1 \in Nat
    BY <1>1
  <2>2. ASSUME NEW t \in 1 .. Len(seqs[k])
        PROVE  f[m + 1][23 * (k - 1) + t] = seqs[k][t]
    <3>1. 23 * (k - 1) + t \in 1 .. Len(f[m])
      <4>1. /\ Len(f[m]) \in Nat /\ Len(seqs[k]) \in Nat
            /\ Len(f[m]) >= 23 * (k - 1) + Len(seqs[k])
        <5>1. f[m] \in Seq(S) /\ seqs[k] \in Seq(S) /\ m \in k .. n
          BY <1>1, <1>3, <1>4, <2>1
        <5> QED BY <1>10, <5>1, LenProperties, Zenon
      <4> DEFINE a == Len(f[m])
                 b == Len(seqs[k])
      <4>2. a \in Nat /\ b \in Nat /\ a >= 23 * (k - 1) + b /\ t \in 1 .. b
        BY <4>1, Zenon
      <4>3. k \in Nat /\ k >= 1
        BY <1>1
      <4> HIDE DEF a, b
      <4>4. 23 * (k - 1) + t \in 1 .. a
        BY <4>2, <4>3, SMT
      <4> QED BY <4>4, Zenon DEF a
    <3>2. f[m][23 * (k - 1) + t] = seqs[k][t]
      BY <1>12
    <3> QED BY <1>5, <2>1, <3>1, <3>2
  <2> QED BY <2>1, <2>2
<1>13. n \in T
  <2> HIDE DEF T
  <2>k. k \in Nat
    BY <1>1
  <2>1. \A i \in k .. n : i \in T
    BY <1>1, <1>11, <1>12, <2>k, RangeInduction
  <2> QED BY <1>1, <2>1
<1>14. n \in 1 .. n /\ n \in k .. n
  BY <1>1
<1>15. /\ f[n] \in Seq(S)
       /\ Len(f[n]) >= 23 * (k - 1) + Len(seqs[k])
       /\ \A t \in 1 .. Len(seqs[k]) : f[n][23 * (k - 1) + t] = seqs[k][t]
  BY <1>4, <1>10, <1>13, <1>14, Zenon
<1> QED BY <1>1, <1>2, <1>15, Zenon

-----------------------------------------------------------------------------
(***************************************************************************)
(* What is written.                                                        *)
(***************************************************************************)
LEMMA Int32Bytes ==
  ASSUME NEW n \in Nat
  PROVE  Int32(n) \in Seq(Nat) /\ Len(Int32(n)) = 4
  BY DEF Int32

LEMMA BytesAreNumbers ==
  ASSUME NEW m \in Seq(Byte)
  PROVE  m \in Seq(Nat)
<1>1. Byte \subseteq Nat
  BY DEF Byte
<1> QED BY <1>1, SeqMonotonic, Zenon

LEMMA FourNumbers ==
  ASSUME NEW m \in [1 .. 4 -> Nat]
  PROVE  m \in Seq(Nat) /\ Len(m) = 4
<1>1. m = <<m[1], m[2], m[3], m[4]>>
  OBVIOUS
<1>2. m[1] \in Nat /\ m[2] \in Nat /\ m[3] \in Nat /\ m[4] \in Nat
  OBVIOUS
<1>3. /\ <<m[1], m[2], m[3], m[4]>> \in Seq(Nat)
      /\ Len(<<m[1], m[2], m[3], m[4]>>) = 4
  BY <1>2
<1> QED BY <1>1, <1>3, Zenon

\* The fields of an entry that refresh_journal keeps.
LEMMA EntryLayout ==
  ASSUME NEW e \in WrittenFile
  PROVE  /\ WrittenEntry(e) \in Seq(Nat)
         /\ Len(WrittenEntry(e)) = 21 + Len(e.name)
         /\ \A t \in 1 .. 4 : WrittenEntry(e)[4 + t] = Int32(e.size)[t]
         /\ WrittenEntry(e)[13] = IF e.is_zip THEN 1 ELSE 0
         /\ \A t \in 1 .. Len(e.name) : WrittenEntry(e)[21 + t] = e.name[t]
<1> DEFINE a == Int32(e.offset)
           b == Int32(e.size)
           c == Int32(e.zsize)
           d == <<IF e.is_zip THEN 1 ELSE 0>>
           g == e.crc
           l == Int32(Len(e.name))
           m == e.name
           abc == a \o b \o c
           dgl == abc \o d \o g \o l
<1>1. /\ e.offset \in Nat /\ e.size \in Nat /\ e.zsize \in Nat
      /\ e.name \in Seq(Byte) /\ e.crc \in [1 .. 4 -> Byte]
  BY DEF WrittenFile, Positive32
<1>2. m \in Seq(Nat) /\ Len(m) \in Nat
  BY <1>1, BytesAreNumbers, LenProperties
<1>3. /\ a \in Seq(Nat) /\ Len(a) = 4 /\ b \in Seq(Nat) /\ Len(b) = 4
      /\ c \in Seq(Nat) /\ Len(c) = 4 /\ l \in Seq(Nat) /\ Len(l) = 4
  BY <1>1, <1>2, Int32Bytes
<1>4. d \in Seq(Nat) /\ Len(d) = 1 /\ d[1] = IF e.is_zip THEN 1 ELSE 0
  OBVIOUS
<1>5. g \in Seq(Nat) /\ Len(g) = 4
  <2>1. \A x \in Byte : x \in Nat
    BY DEF Byte
  <2>2. g \in [1 .. 4 -> Nat]
    <3> DEFINE B == Byte
    <3>1. g \in [1 .. 4 -> B] /\ \A x \in B : x \in Nat
      BY <1>1, <2>1
    <3> HIDE DEF B, g
    <3> QED BY <3>1
  <2> HIDE DEF g
  <2> QED BY <2>2, FourNumbers
<1>6. WrittenEntry(e) = dgl \o m
  BY DEF WrittenEntry
<1> DEFINE N == Nat
<1>n. /\ a \in Seq(N) /\ b \in Seq(N) /\ c \in Seq(N) /\ d \in Seq(N)
      /\ g \in Seq(N) /\ l \in Seq(N) /\ m \in Seq(N)
  BY <1>2, <1>3, <1>4, <1>5
<1>i. /\ Len(a) = 4 /\ Len(b) = 4 /\ Len(c) = 4 /\ Len(d) = 1 /\ Len(g) = 4
      /\ Len(l) = 4 /\ Len(m) \in Nat
  BY <1>2, <1>3, <1>4, <1>5
<1> HIDE DEF a, b, c, d, g, l, m, N
<1>7. /\ abc \in Seq(N) /\ Len(abc) = 12
      /\ \A t \in 1 .. 4 : abc[4 + t] = b[t]
  <2> DEFINE ab == a \o b
  <2>1. /\ ab \in Seq(N) /\ Len(ab) = Len(a) + Len(b)
        /\ \A t \in 1 .. Len(b) : ab[Len(a) + t] = b[t]
    BY <1>n, ConcatParts
  <2> HIDE DEF ab
  <2>2. /\ ab \o c \in Seq(N) /\ Len(ab \o c) = Len(ab) + Len(c)
        /\ \A t \in 1 .. Len(ab) : (ab \o c)[t] = ab[t]
    <3> ab \in Seq(N)
      BY <2>1
    <3> QED BY <1>n, ConcatParts
  <2>3. abc = ab \o c
    BY DEF abc, ab
  <2>4. Len(ab) = 8 /\ Len(abc) = 12
    BY <1>i, <2>1, <2>2, <2>3
  <2>5. \A t \in 1 .. 4 : abc[4 + t] = b[t]
    <3>1. \A t \in 1 .. 4 : 4 + t \in 1 .. 8
      OBVIOUS
    <3>2. \A t \in 1 .. 8 : abc[t] = ab[t]
      BY <2>2, <2>3, <2>4, Zenon
    <3>3. \A t \in 1 .. 4 : ab[4 + t] = b[t]
      BY <1>i, <2>1
    <3> QED BY <3>1, <3>2, <3>3, Zenon
  <2> QED BY <2>2, <2>3, <2>4, <2>5
<1> HIDE DEF abc
<1>8. /\ dgl \in Seq(N) /\ Len(dgl) = 21
      /\ \A t \in 1 .. 12 : dgl[t] = abc[t]
      /\ dgl[13] = d[1]
  <2> DEFINE p == abc \o d
             q == p \o g
  <2>1. /\ p \in Seq(N) /\ Len(p) = Len(abc) + Len(d)
        /\ \A t \in 1 .. Len(abc) : p[t] = abc[t]
        /\ \A t \in 1 .. Len(d) : p[Len(abc) + t] = d[t]
    <3> abc \in Seq(N)
      BY <1>7
    <3> QED BY <1>n, ConcatParts
  <2> HIDE DEF p
  <2>2. /\ q \in Seq(N) /\ Len(q) = Len(p) + Len(g)
        /\ \A t \in 1 .. Len(p) : q[t] = p[t]
    <3> p \in Seq(N)
      BY <2>1
    <3> QED BY <1>n, ConcatParts
  <2> HIDE DEF q
  <2>3. /\ q \o l \in Seq(N) /\ Len(q \o l) = Len(q) + Len(l)
        /\ \A t \in 1 .. Len(q) : (q \o l)[t] = q[t]
    BY <1>n, <2>2, ConcatParts
  <2>4. dgl = q \o l
    BY DEF dgl, p, q
  <2>5. Len(p) = 13 /\ Len(q) = 17 /\ Len(dgl) = 21
    BY <1>i, <1>7, <2>1, <2>2, <2>3, <2>4
  <2>6. p[13] = d[1]
    BY <1>i, <1>7, <2>1
  <2>7. /\ \A t \in 1 .. 12 : p[t] = abc[t]
        /\ \A t \in 1 .. 13 : q[t] = p[t]
        /\ \A t \in 1 .. 17 : dgl[t] = q[t]
    BY <1>7, <2>1, <2>2, <2>3, <2>4, <2>5, Zenon
  <2>8. /\ \A t \in 1 .. 12 : t \in 1 .. 13 /\ t \in 1 .. 17
        /\ 13 \in 1 .. 13 /\ 13 \in 1 .. 17
    OBVIOUS
  <2> QED BY <2>3, <2>4, <2>5, <2>6, <2>7, <2>8, Zenon
<1> HIDE DEF dgl
<1>9. /\ dgl \o m \in Seq(N) /\ Len(dgl \o m) = 21 + Len(m)
      /\ \A t \in 1 .. 21 : (dgl \o m)[t] = dgl[t]
      /\ \A t \in 1 .. Len(m) : (dgl \o m)[21 + t] = m[t]
  <2>1. /\ dgl \o m \in Seq(N) /\ Len(dgl \o m) = Len(dgl) + Len(m)
        /\ \A t \in 1 .. Len(dgl) : (dgl \o m)[t] = dgl[t]
        /\ \A t \in 1 .. Len(m) : (dgl \o m)[Len(dgl) + t] = m[t]
    <3> dgl \in Seq(N)
      BY <1>8
    <3> QED BY <1>n, ConcatParts
  <2> QED BY <1>8, <2>1, Zenon
<1>10. \A t \in 1 .. 4 : (dgl \o m)[4 + t] = b[t]
  <2>1. \A t \in 1 .. 4 : 4 + t \in 1 .. 12 /\ 4 + t \in 1 .. 21
    OBVIOUS
  <2> QED BY <1>7, <1>8, <1>9, <2>1, Zenon
<1>11. (dgl \o m)[13] = IF e.is_zip THEN 1 ELSE 0
  <2>1. 13 \in 1 .. 21
    OBVIOUS
  <2> QED BY <1>4, <1>8, <1>9, <2>1, Zenon
<1> QED BY <1>6, <1>9, <1>10, <1>11, Zenon DEF b, m, N

EntriesOf(files) == [i \in DOMAIN files |-> WrittenEntry(files[i])]

LEMMA EntriesType ==
  ASSUME NEW files \in Seq(WrittenFile)
  PROVE  /\ EntriesOf(files) \in Seq(Seq(Nat))
         /\ Len(EntriesOf(files)) = Len(files)
         /\ \A i \in 1 .. Len(files) : EntriesOf(files)[i] = WrittenEntry(files[i])
         /\ FlattenSeq(EntriesOf(files)) \in Seq(Nat)
<1> DEFINE n == Len(files)
           B == Seq(Nat)
           s == EntriesOf(files)
<1>1. n \in Nat /\ DOMAIN files = 1 .. n
  BY LenProperties
<1>2. \A i \in 1 .. n : WrittenEntry(files[i]) \in B
  <2>1. \A i \in 1 .. n : files[i] \in WrittenFile
    BY ElementOfSeq, Zenon
  <2> QED BY <2>1, EntryLayout, Zenon
<1>3. s = [i \in 1 .. n |-> WrittenEntry(files[i])]
  BY <1>1, Zenon DEF EntriesOf
<1>4. \A i \in 1 .. n : s[i] = WrittenEntry(files[i])
  BY <1>3, Zenon
<1>5. s \in [1 .. n -> B]
  BY <1>2, <1>3, Zenon
<1>6. s \in Seq(B) /\ Len(s) = n
  <2> HIDE DEF s, n, B
  <2> QED BY <1>1, <1>5
<1>7. FlattenSeq(s) \in Seq(Nat)
  <2>1. CASE n = 0
    <3>1. Len(s) = 0 /\ s = <<>>
      BY <1>6, <2>1, EmptySeq
    <3>2. FlattenSeq(s) = s
      BY <3>1, Zenon DEF FlattenSeq
    <3>3. <<>> \in Seq(Nat)
      BY EmptySeq
    <3> QED BY <3>1, <3>2, <3>3, Zenon
  <2>2. CASE n > 0
    <3>1. 1 \in 1 .. Len(s) /\ \A j \in 1 .. 1 - 1 : Len(s[j]) = EntryLength
      <4>1. 1 \in 1 .. n
        BY <1>1, <2>2
      <4>2. \A j \in 1 .. 1 - 1 : FALSE
        OBVIOUS
      <4> QED BY <1>6, <4>1, <4>2, Zenon
    <3> QED BY <1>6, <3>1, FlattenedInStep, Zenon
  <2> QED BY <1>1, <2>1, <2>2
<1> QED BY <1>4, <1>6, <1>7, Zenon

\* The header, and where the entries are.
LEMMA ArchiveLayout ==
  ASSUME NEW v \in Positive32, NEW files \in Seq(WrittenFile),
         Len(files) \in Positive32, NEW data \in Seq(Byte),
         NEW bytes, bytes = WrittenArchive(v, files, data),
         NEW flat, flat = FlattenSeq(EntriesOf(files))
  PROVE  /\ Start(bytes) = IF v >= 2 THEN 14 ELSE 13
         /\ FileNum(bytes) = Len(files)
         /\ HasHeader(bytes)
         /\ bytes \in Seq(Nat) /\ flat \in Seq(Nat)
         /\ Len(bytes) >= Start(bytes) + Len(flat)
         /\ \A t \in 1 .. Len(flat) : bytes[Start(bytes) + t] = flat[t]
<1> DEFINE N == Nat
           mark == <<75, 73, 87, 65, 68>>
           a == Int32(v)
           b == Int32(Len(files))
           pad == IF v >= 2 THEN <<0>> ELSE <<>>
           ma == mark \o a
           mab == ma \o b
           h == mab \o pad
<1>1. v \in Nat /\ Len(files) \in Nat
  BY DEF Positive32
<1>2. /\ mark \in Seq(Nat) /\ Len(mark) = 5
      /\ a \in Seq(Nat) /\ Len(a) = 4 /\ b \in Seq(Nat) /\ Len(b) = 4
  <2>1. mark \in Seq(Nat) /\ Len(mark) = 5
    OBVIOUS
  <2> QED BY <1>1, <2>1, Int32Bytes, Zenon
<1>3. pad \in Seq(Nat) /\ Len(pad) = IF v >= 2 THEN 1 ELSE 0
  <2>1. /\ <<0>> \in Seq(Nat) /\ Len(<<0>>) = 1
        /\ <<>> \in Seq(Nat) /\ Len(<<>>) = 0
    BY EmptySeq
  <2>2. CASE v >= 2
    <3>1. pad = <<0>>
      BY <2>2, Zenon
    <3> HIDE DEF pad
    <3> QED BY <2>1, <2>2, <3>1
  <2>3. CASE ~(v >= 2)
    <3>1. pad = <<>>
      BY <2>3, Zenon
    <3> HIDE DEF pad
    <3> QED BY <2>1, <2>3, <3>1
  <2> QED BY <2>2, <2>3, Zenon
<1>4. flat \in Seq(Nat)
  BY EntriesType, Zenon
<1> DEFINE hf == h \o flat
<1>5. bytes = hf \o data
  BY Zenon DEF WrittenArchive, EntriesOf
<1>6. /\ mark \in Seq(N) /\ a \in Seq(N) /\ b \in Seq(N) /\ pad \in Seq(N)
      /\ flat \in Seq(N) /\ data \in Seq(N)
  BY <1>2, <1>3, <1>4, BytesAreNumbers, Zenon
<1> HIDE DEF N, mark, a, b, pad, ma, mab, h, hf
<1>7. /\ ma \in Seq(N) /\ Len(ma) = Len(mark) + Len(a)
      /\ \A t \in 1 .. Len(a) : ma[Len(mark) + t] = a[t]
  BY <1>6, ConcatParts DEF ma
<1>8. /\ mab \in Seq(N) /\ Len(mab) = Len(ma) + Len(b)
      /\ \A t \in 1 .. Len(ma) : mab[t] = ma[t]
      /\ \A t \in 1 .. Len(b) : mab[Len(ma) + t] = b[t]
  <2> ma \in Seq(N)
    BY <1>7
  <2> QED BY <1>6, ConcatParts DEF mab
<1>9. /\ h \in Seq(N) /\ Len(h) = Len(mab) + Len(pad)
      /\ \A t \in 1 .. Len(mab) : h[t] = mab[t]
  <2> mab \in Seq(N)
    BY <1>8
  <2> QED BY <1>6, ConcatParts DEF h
<1>10. /\ bytes \in Seq(N) /\ Len(bytes) >= Len(h) + Len(flat)
       /\ \A t \in 1 .. Len(h) : bytes[t] = h[t]
       /\ \A t \in 1 .. Len(flat) : bytes[Len(h) + t] = flat[t]
  <2>1. h \in Seq(N)
    BY <1>9
  <2>2. /\ hf \in Seq(N) /\ Len(hf) = Len(h) + Len(flat)
        /\ \A t \in 1 .. Len(h) : hf[t] = h[t]
        /\ \A t \in 1 .. Len(flat) : hf[Len(h) + t] = flat[t]
    BY <1>6, <2>1, ConcatParts DEF hf
  <2>3. /\ hf \o data \in Seq(N) /\ Len(hf \o data) = Len(hf) + Len(data)
        /\ \A t \in 1 .. Len(hf) : (hf \o data)[t] = hf[t]
    <3>1. hf \in Seq(N)
      BY <2>2
    <3> QED BY <1>6, <3>1, ConcatParts
  <2> DEFINE x == Len(h)
             y == Len(flat)
             u == Len(data)
             z == Len(bytes)
  <2>4. x \in Nat /\ y \in Nat /\ u \in Nat /\ z = (x + y) + u
    BY <1>5, <1>6, <2>1, <2>2, <2>3, LenProperties, Zenon
  <2>5. /\ \A t \in 1 .. x + y : bytes[t] = hf[t]
        /\ \A t \in 1 .. x : hf[t] = h[t]
        /\ \A t \in 1 .. y : hf[x + t] = flat[t]
    BY <1>5, <2>2, <2>3, Zenon
  <2> HIDE DEF x, y, u, z
  <2>6. /\ \A t \in 1 .. x : t \in 1 .. x + y
        /\ \A t \in 1 .. y : x + t \in 1 .. x + y
        /\ z >= x + y
    BY <2>4
  <2>7. bytes \in Seq(N)
    BY <1>5, <2>3, Zenon
  <2> QED BY <2>5, <2>6, <2>7, Zenon DEF x, y, z
<1>11. /\ Len(ma) = 9 /\ Len(mab) = 13
       /\ Len(h) = IF v >= 2 THEN 14 ELSE 13
       /\ Len(h) \in Nat /\ Len(h) >= 13
  BY <1>2, <1>3, <1>7, <1>8, <1>9
<1>12. /\ \A t \in 1 .. 4 : bytes[5 + t] = a[t]
       /\ \A t \in 1 .. 4 : bytes[9 + t] = b[t]
  <2>1. \A t \in 1 .. 4 : /\ 5 + t \in 1 .. 9 /\ 5 + t \in 1 .. 13
                         /\ 5 + t \in 1 .. Len(h)
                         /\ 9 + t \in 1 .. 13 /\ 9 + t \in 1 .. Len(h)
    BY <1>11
  <2>2. /\ \A t \in 1 .. 4 : ma[5 + t] = a[t]
        /\ \A t \in 1 .. 9 : mab[t] = ma[t]
        /\ \A t \in 1 .. 4 : mab[9 + t] = b[t]
        /\ \A t \in 1 .. 13 : h[t] = mab[t]
    BY <1>2, <1>7, <1>8, <1>9, <1>11, Zenon
  <2> QED BY <1>10, <2>1, <2>2, Zenon
<1>13. Version(bytes) = v
  <2>1. 5 \in Nat
    OBVIOUS
  <2> QED BY <1>12, <2>1, ReadsWritten, Zenon DEF Version, a
<1>14. FileNum(bytes) = Len(files)
  <2>1. ReadInt32(bytes, 9) = Len(files)
    <3>1. 9 \in Nat
      OBVIOUS
    <3> QED BY <1>12, <3>1, ReadsWritten, Zenon DEF b
  <2>2. ~(Len(files) < 0)
    BY <1>1
  <2> QED BY <2>1, <2>2, Zenon DEF FileNum
<1>15. Start(bytes) = Len(h) /\ Start(bytes) = IF v >= 2 THEN 14 ELSE 13
  BY <1>11, <1>13, Zenon DEF Start
<1>16. HasHeader(bytes)
  <2>1. Len(flat) \in Nat
    BY <1>4, LenProperties
  <2> DEFINE x == Len(h)
             y == Len(flat)
             z == Len(bytes)
  <2>2. x \in Nat /\ x >= 13 /\ y \in Nat /\ z \in Nat /\ z >= x + y
    BY <1>10, <1>11, <2>1, LenProperties, Zenon DEF N
  <2> HIDE DEF x, y, z
  <2>3. z >= 13 /\ z >= x
    BY <2>2
  <2> QED BY <1>15, <2>3, Zenon DEF HasHeader, x, z
<1> QED BY <1>4, <1>10, <1>14, <1>15, <1>16, Zenon DEF N

-----------------------------------------------------------------------------
(***************************************************************************)
(* What is read.                                                           *)
(***************************************************************************)
LEMMA SameTwo ==
  ASSUME NEW s \in Seq(Nat), NEW r \in Seq(Nat), NEW k \in Nat,
         k + 2 <= Len(s), 2 <= Len(r),
         \A t \in 1 .. 2 : s[k + t] = r[t]
  PROVE  SubSeq(s, k + 1, k + 2) = SubSeq(r, 1, 2)
<1> DEFINE a == SubSeq(s, k + 1, k + 2)
           b == SubSeq(r, 1, 2)
<1>1. /\ \A i \in k + 1 .. k + 2 : s[i] \in Nat
      /\ \A i \in 1 .. 2 : r[i] \in Nat
  <2>1. /\ \A i \in k + 1 .. k + 2 : i \in 1 .. Len(s)
        /\ \A i \in 1 .. 2 : i \in 1 .. Len(r)
    BY LenProperties
  <2> QED BY <2>1, ElementOfSeq, Zenon
<1>2. a \in Seq(Nat) /\ Len(a) = 2 /\ \A i \in 1 .. 2 : a[i] = s[k + i]
  <2>1. /\ a \in Seq(Nat)
        /\ Len(a) = IF k + 1 <= k + 2 THEN (k + 2) - (k + 1) + 1 ELSE 0
        /\ \A i \in 1 .. (k + 2) - (k + 1) + 1 : a[i] = s[(k + 1) + i - 1]
    BY <1>1, SubSeqProperties
  <2>2. /\ k + 1 <= k + 2 /\ (k + 2) - (k + 1) + 1 = 2
        /\ \A i \in 1 .. 2 : (k + 1) + i - 1 = k + i
    OBVIOUS
  <2> HIDE DEF a
  <2> QED BY <2>1, <2>2
<1>3. b \in Seq(Nat) /\ Len(b) = 2 /\ \A i \in 1 .. 2 : b[i] = r[i]
  <2>1. /\ b \in Seq(Nat)
        /\ Len(b) = IF 1 <= 2 THEN 2 - 1 + 1 ELSE 0
        /\ \A i \in 1 .. 2 - 1 + 1 : b[i] = r[1 + i - 1]
    BY <1>1, SubSeqProperties
  <2> HIDE DEF b
  <2> QED BY <2>1
<1> HIDE DEF a, b
<1>4. Len(a) = Len(b) /\ \A i \in 1 .. Len(a) : a[i] = b[i]
  BY <1>2, <1>3
<1>5. a = b
  BY <1>2, <1>3, <1>4, SeqEqual, Zenon
<1> QED BY <1>5 DEF a, b

\* As long as no name before it is longer than two bytes, an entry that has been
\* written is at the position where it is read.
LEMMA EntryInStep ==
  ASSUME NEW v \in Positive32, NEW files \in Seq(WrittenFile),
         Len(files) \in Positive32, NEW data \in Seq(Byte),
         NEW bytes, bytes = WrittenArchive(v, files, data),
         NEW i \in 1 .. Len(files), InStep(files, i)
  PROVE  /\ Position(bytes, i) \in Nat
         /\ Position(bytes, i) + EntryLength <= Len(bytes)
         /\ IsWritten(EntryAt(bytes, Position(bytes, i)), files[i])
<1> DEFINE e == files[i]
           w == WrittenEntry(e)
           seqs == EntriesOf(files)
           flat == FlattenSeq(seqs)
           pos == Position(bytes, i)
<1>1. /\ i \in Nat /\ i >= 1 /\ Len(files) \in Nat
      /\ EntryLength = 23 /\ NameLength = 2
  BY LenProperties DEF EntryLength, NameLength
<1>2. /\ e \in WrittenFile /\ e.name \in Seq(Byte) /\ e.size \in Positive32
      /\ e.is_zip \in BOOLEAN /\ Len(e.name) \in Nat /\ Len(e.name) >= 2
      /\ e.name \in Seq(Nat)
  <2>1. e \in WrittenFile
    BY ElementOfSeq, Zenon
  <2>2. /\ e.name \in Seq(Byte) /\ e.size \in Positive32 /\ e.is_zip \in BOOLEAN
    BY <2>1 DEF WrittenFile
  <2>3. e.name \in Seq(Nat)
    BY <2>2, BytesAreNumbers
  <2>4. Len(e.name) >= NameLength
    BY DEF InStep
  <2> QED BY <1>1, <2>1, <2>2, <2>3, <2>4, LenProperties
<1>3. /\ w \in Seq(Nat) /\ Len(w) = 21 + Len(e.name)
      /\ \A t \in 1 .. 4 : w[4 + t] = Int32(e.size)[t]
      /\ w[13] = IF e.is_zip THEN 1 ELSE 0
      /\ \A t \in 1 .. Len(e.name) : w[21 + t] = e.name[t]
  BY <1>2, EntryLayout, Zenon
<1>4. /\ seqs \in Seq(Seq(Nat)) /\ i \in 1 .. Len(seqs) /\ seqs[i] = w
      /\ \A j \in 1 .. i - 1 : Len(seqs[j]) = EntryLength
  <2>1. /\ seqs \in Seq(Seq(Nat)) /\ Len(seqs) = Len(files)
        /\ \A j \in 1 .. Len(files) : seqs[j] = WrittenEntry(files[j])
    BY EntriesType, Zenon
  <2>2. ASSUME NEW j \in 1 .. i - 1 PROVE Len(seqs[j]) = EntryLength
    <3>1. j \in 1 .. Len(files)
      BY <1>1
    <3>2. files[j] \in WrittenFile
      BY <3>1, ElementOfSeq, Zenon
    <3>3. Len(WrittenEntry(files[j])) = 21 + Len(files[j].name)
      BY <3>2, EntryLayout, Zenon
    <3>4. Len(files[j].name) = NameLength
      BY Zenon DEF InStep
    <3> QED BY <2>1, <3>1, <3>3, <3>4, Zenon DEF EntryLength
  <2> QED BY <2>1, <2>2, Zenon
<1>5. /\ flat \in Seq(Nat)
      /\ Len(flat) >= EntryLength * (i - 1) + Len(w)
      /\ \A t \in 1 .. Len(w) : flat[EntryLength * (i - 1) + t] = w[t]
  <2>1. /\ flat \in Seq(Nat)
        /\ Len(flat) >= EntryLength * (i - 1) + Len(seqs[i])
        /\ \A t \in 1 .. Len(seqs[i]) :
             flat[EntryLength * (i - 1) + t] = seqs[i][t]
    BY <1>4, FlattenedInStep, Zenon
  <2> QED BY <1>4, <2>1, Zenon
<1>6. /\ Start(bytes) \in Nat /\ bytes \in Seq(Nat)
      /\ Len(bytes) >= Start(bytes) + Len(flat)
      /\ \A t \in 1 .. Len(flat) : bytes[Start(bytes) + t] = flat[t]
  <2>1. /\ Start(bytes) = IF v >= 2 THEN 14 ELSE 13
        /\ bytes \in Seq(Nat)
        /\ Len(bytes) >= Start(bytes) + Len(flat)
        /\ \A t \in 1 .. Len(flat) : bytes[Start(bytes) + t] = flat[t]
    <3>1. flat = FlattenSeq(EntriesOf(files))
      OBVIOUS
    <3> HIDE DEF flat
    <3> QED BY <3>1, ArchiveLayout
  <2>2. 14 \in Nat /\ 13 \in Nat
    OBVIOUS
  <2> QED BY <2>1, <2>2, Zenon
<1> DEFINE b == Start(bytes)
           x == Len(w)
           y == Len(flat)
           z == Len(bytes)
<1>7. pos = b + (i - 1) * 23
  BY <1>1, Zenon DEF Position
<1>8. /\ b \in Nat /\ x \in Nat /\ x >= 23 /\ y \in Nat /\ z \in Nat /\ z >= b + y
      /\ y >= 23 * (i - 1) + x
  <2>1. y \in Nat /\ x \in Nat /\ z \in Nat
    BY <1>3, <1>5, <1>6, LenProperties
  <2>2. x >= 23
    <3> DEFINE k == Len(e.name)
    <3>1. k \in Nat /\ k >= 2 /\ x = 21 + k
      BY <1>2, <1>3, Zenon
    <3> HIDE DEF k, x
    <3> QED BY <3>1
  <2> QED BY <1>1, <1>5, <1>6, <2>1, <2>2, Zenon
<1> HIDE DEF pos, b, x, y, z
<1>9. pos \in Nat /\ pos + 23 <= z /\ z \in Nat
  BY <1>1, <1>7, <1>8
<1>10. \A t \in 1 .. x : bytes[pos + t] = w[t]
  <2> SUFFICES ASSUME NEW t \in 1 .. x PROVE bytes[pos + t] = w[t]
    OBVIOUS
  <2>1. 23 * (i - 1) + t \in 1 .. y
    BY <1>1, <1>8
  <2>2. flat[23 * (i - 1) + t] = w[t]
    BY <1>1, <1>5, Zenon DEF x
  <2>3. bytes[b + (23 * (i - 1) + t)] = flat[23 * (i - 1) + t]
    BY <1>6, <2>1, Zenon DEF b, y
  <2>4. b + (23 * (i - 1) + t) = pos + t
    BY <1>1, <1>7, <1>8
  <2> QED BY <2>2, <2>3, <2>4, Zenon
<1>11. EntryAt(bytes, pos).size = e.size
  <2>1. pos + 4 \in Nat
    BY <1>9
  <2>2. ASSUME NEW t \in 1 .. 4 PROVE bytes[(pos + 4) + t] = Int32(e.size)[t]
    <3>1. 4 + t \in 1 .. x /\ (pos + 4) + t = pos + (4 + t)
      BY <1>8, <1>9
    <3> QED BY <1>3, <1>10, <3>1, Zenon
  <2>3. ReadInt32(bytes, pos + 4) = e.size
    BY <1>2, <2>1, <2>2, ReadsWritten, Zenon
  <2> QED BY <2>3 DEF EntryAt
<1>12. EntryAt(bytes, pos).is_zip = e.is_zip
  <2>1. 13 \in 1 .. x
    BY <1>8
  <2>2. bytes[pos + 13] = IF e.is_zip THEN 1 ELSE 0
    BY <1>3, <1>10, <2>1, Zenon
  <2>3. (bytes[pos + 13] # 0) = e.is_zip
    BY <1>2, <2>2
  <2> QED BY <2>3, Zenon DEF EntryAt
<1>13. EntryAt(bytes, pos).name = SubSeq(e.name, 1, 2)
  <2> DEFINE k == pos + 21
  <2>1. k \in Nat /\ k + 2 <= z /\ pos + 22 = k + 1 /\ pos + 21 + 2 = k + 2
    BY <1>9
  <2>2. ASSUME NEW t \in 1 .. 2 PROVE bytes[k + t] = e.name[t]
    <3>1. 21 + t \in 1 .. x /\ k + t = pos + (21 + t)
      BY <1>8, <1>9
    <3>2. t \in 1 .. Len(e.name)
      BY <1>2
    <3> QED BY <1>3, <1>10, <3>1, <3>2, Zenon
  <2> HIDE DEF k
  <2>3. SubSeq(bytes, k + 1, k + 2) = SubSeq(e.name, 1, 2)
    BY <1>2, <1>6, <2>1, <2>2, SameTwo, Zenon DEF z
  <2> QED BY <1>1, <2>1, <2>3, Zenon DEF EntryAt
<1>14. EntryAt(bytes, pos) = [name |-> EntryAt(bytes, pos).name,
                              size |-> EntryAt(bytes, pos).size,
                              is_zip |-> EntryAt(bytes, pos).is_zip]
  BY DEF EntryAt
<1> QED BY <1>1, <1>9, <1>11, <1>12, <1>13, <1>14, Zenon DEF IsWritten, pos, z

\* The loop stops at the first entry that cannot be read.
LEMMA ReadsUpTo ==
  ASSUME NEW bytes, HasHeader(bytes), FileNum(bytes) \in Nat
  PROVE  \E n \in 0 .. FileNum(bytes) :
           /\ \A i \in 1 .. n : IsReadable(bytes, i)
           /\ n < FileNum(bytes) => ~IsReadable(bytes, n + 1)
           /\ ReadJournal(bytes) =
                [entries |-> [i \in 1 .. n |-> EntryAt(bytes, Position(bytes, i))],
                 broken |-> n < FileNum(bytes)]
<1> DEFINE num == FileNum(bytes)
           Stops(k) == /\ \A i \in 1 .. k : IsReadable(bytes, i)
                       /\ k < num => ~IsReadable(bytes, k + 1)
           S == {k \in 0 .. num : \A i \in 1 .. k : IsReadable(bytes, i)}
           n == CHOOSE k \in 0 .. num : Stops(k)
<1>1. \E k \in 0 .. num : Stops(k)
  <2>1. S \in SUBSET Nat /\ 0 \in S /\ \A x \in S : x <= num
    OBVIOUS
  <2>2. PICK m \in S : \A x \in S : x <= m
    <3> HIDE DEF S, num
    <3>1. num \in Nat
      BY DEF num
    <3> QED BY <2>1, <3>1, GreatestElement
  <2>3. ASSUME m < num, IsReadable(bytes, m + 1) PROVE FALSE
    <3>1. m + 1 \in 0 .. num /\ ~(m + 1 <= m)
      BY <2>2, <2>3
    <3>2. \A i \in 1 .. m + 1 : i \in 1 .. m \/ i = m + 1
      BY <2>2
    <3>3. \A i \in 1 .. m : IsReadable(bytes, i)
      BY <2>2
    <3>4. m + 1 \in S
      BY <2>3, <3>1, <3>2, <3>3, Zenon
    <3> QED BY <2>2, <3>1, <3>4, Zenon
  <2>4. m \in 0 .. num /\ Stops(m)
    BY <2>2, <2>3, Zenon
  <2> QED BY <2>4, Zenon
<1>2. n \in 0 .. num /\ Stops(n)
  <2> HIDE DEF Stops, num
  <2> QED BY <1>1, Zenon
<1>3. ReadJournal(bytes) =
        [entries |-> [i \in 1 .. n |-> EntryAt(bytes, Position(bytes, i))],
         broken |-> n < num]
  BY Zenon DEF ReadJournal
<1> HIDE DEF n
<1> QED BY <1>2, <1>3, Zenon

\* The files that can be in an archive.
AreFiles(files) ==
  /\ files \in Seq(WrittenFile)
  /\ Len(files) \in Positive32

LEMMA JournalOfArchive ==
  ASSUME NEW v \in Positive32, NEW files, AreFiles(files),
         NEW data \in Seq(Byte),
         NEW bytes, bytes = WrittenArchive(v, files, data)
  PROVE  \E n \in 0 .. Len(files) :
           /\ n < Len(files) => ~IsReadable(bytes, n + 1)
           /\ ReadJournal(bytes) =
                [entries |-> [i \in 1 .. n |-> EntryAt(bytes, Position(bytes, i))],
                 broken |-> n < Len(files)]
<1>1. /\ files \in Seq(WrittenFile) /\ Len(files) \in Positive32
      /\ Len(files) \in Nat
  BY DEF AreFiles, Positive32
<1>2. HasHeader(bytes) /\ FileNum(bytes) = Len(files)
  <2> DEFINE flat == FlattenSeq(EntriesOf(files))
  <2>1. flat = FlattenSeq(EntriesOf(files))
    OBVIOUS
  <2> HIDE DEF flat
  <2> QED BY <1>1, <2>1, ArchiveLayout
<1> QED BY <1>1, <1>2, ReadsUpTo, Zenon

\* Of any archive, refresh_journal reads no more entries than were written, and
\* each as it was written that comes after names of two bytes only.
THEOREM ReadInStep ==
  ASSUME NEW v \in Positive32, NEW files, AreFiles(files), NEW data \in Seq(Byte)
  PROVE  LET read == ReadJournal(WrittenArchive(v, files, data)).entries IN
           /\ Len(read) <= Len(files)
           /\ \A i \in DOMAIN read :
                InStep(files, i) => IsWritten(read[i], files[i])
<1> DEFINE bytes == WrittenArchive(v, files, data)
           read == ReadJournal(bytes).entries
<1>1. PICK n \in 0 .. Len(files) :
        ReadJournal(bytes) =
          [entries |-> [i \in 1 .. n |-> EntryAt(bytes, Position(bytes, i))],
           broken |-> n < Len(files)]
  BY JournalOfArchive, Zenon
<1>2. read = [i \in 1 .. n |-> EntryAt(bytes, Position(bytes, i))]
  <2> HIDE DEF bytes
  <2> QED BY <1>1
<1>3. n \in Nat /\ n <= Len(files) /\ Len(files) \in Nat
  BY DEF AreFiles
<1>4. Len(read) = n /\ DOMAIN read = 1 .. n
  <2> HIDE DEF read
  <2> QED BY <1>2, <1>3
<1>5. ASSUME NEW i \in 1 .. n, InStep(files, i)
      PROVE  IsWritten(read[i], files[i])
  <2>1. i \in 1 .. Len(files)
    BY <1>3
  <2>2. files \in Seq(WrittenFile) /\ Len(files) \in Positive32
    BY DEF AreFiles
  <2>3. IsWritten(EntryAt(bytes, Position(bytes, i)), files[i])
    BY <1>5, <2>1, <2>2, EntryInStep, Zenon
  <2> QED BY <1>2, <2>3, Zenon
<1> QED BY <1>3, <1>4, <1>5, Zenon

\* An archive is read whole if each of its names is two bytes of text.
THEOREM ShortNamesAreRead ==
  ASSUME NEW v \in Positive32, NEW files, AreFiles(files), NEW data \in Seq(Byte),
         \A i \in DOMAIN files :
           Len(files[i].name) = NameLength /\ IsText(files[i].name)
  PROVE  LET journal == ReadJournal(WrittenArchive(v, files, data)) IN
           /\ ~journal.broken
           /\ Len(journal.entries) = Len(files)
           /\ \A i \in DOMAIN files : IsWritten(journal.entries[i], files[i])
<1> DEFINE bytes == WrittenArchive(v, files, data)
           journal == ReadJournal(bytes)
<1>0. /\ files \in Seq(WrittenFile) /\ Len(files) \in Positive32
      /\ Len(files) \in Nat /\ DOMAIN files = 1 .. Len(files)
  BY LenProperties DEF AreFiles
<1>1. PICK n \in 0 .. Len(files) :
        /\ n < Len(files) => ~IsReadable(bytes, n + 1)
        /\ journal =
             [entries |-> [i \in 1 .. n |-> EntryAt(bytes, Position(bytes, i))],
              broken |-> n < Len(files)]
  <2>1. bytes = WrittenArchive(v, files, data)
    OBVIOUS
  <2> HIDE DEF bytes
  <2>2. \E n \in 0 .. Len(files) :
          /\ n < Len(files) => ~IsReadable(bytes, n + 1)
          /\ ReadJournal(bytes) =
               [entries |-> [i \in 1 .. n |-> EntryAt(bytes, Position(bytes, i))],
                broken |-> n < Len(files)]
    BY <2>1, JournalOfArchive
  <2> QED BY <2>2
<1>2. ASSUME NEW i \in 1 .. Len(files)
      PROVE  /\ IsReadable(bytes, i)
             /\ IsWritten(EntryAt(bytes, Position(bytes, i)), files[i])
  <2>1. InStep(files, i)
    <3>1. \A j \in 1 .. i - 1 : j \in 1 .. Len(files)
      BY <1>0
    <3>2. Len(files[i].name) >= NameLength
      <4>1. Len(files[i].name) = NameLength
        BY <1>0, Zenon
      <4>2. NameLength >= NameLength
        BY DEF NameLength
      <4> QED BY <4>1, <4>2, Zenon
    <3> QED BY <1>0, <3>1, <3>2, Zenon DEF InStep
  <2>3. /\ Position(bytes, i) + EntryLength <= Len(bytes)
        /\ IsWritten(EntryAt(bytes, Position(bytes, i)), files[i])
    BY <1>0, <2>1, EntryInStep, Zenon
  <2>4. EntryAt(bytes, Position(bytes, i)).name = files[i].name
    <3>1. EntryAt(bytes, Position(bytes, i)).name
            = SubSeq(files[i].name, 1, Len(files[i].name))
      <4> DEFINE x == EntryAt(bytes, Position(bytes, i))
      <4> HIDE DEF x
      <4>1. x.name = SubSeq(files[i].name, 1, NameLength)
        BY <2>3 DEF IsWritten, x
      <4> QED BY <1>0, <4>1, Zenon DEF x
    <3>2. files[i].name \in Seq(Byte)
      <4>1. files[i] \in WrittenFile
        BY <1>0, ElementOfSeq, Zenon
      <4> QED BY <4>1 DEF WrittenFile
    <3> QED BY <3>1, <3>2, SubSeqFull, Zenon
  <2> QED BY <1>0, <2>3, <2>4, Zenon DEF IsReadable
<1>3. n = Len(files)
  <2>1. CASE n < Len(files)
    <3>1. n + 1 \in 1 .. Len(files)
      BY <1>0, <2>1
    <3> QED BY <1>1, <1>2, <2>1, <3>1, Zenon
  <2>2. Len(files) \in Nat /\ n \in 0 .. Len(files)
    BY <1>0, Zenon
  <2>3. n < Len(files) \/ n = Len(files)
    <3> HIDE DEF bytes, journal
    <3> QED BY <2>2
  <2> QED BY <2>1, <2>3, Zenon
<1> HIDE DEF journal
<1>4. /\ journal.entries =
           [i \in 1 .. n |-> EntryAt(bytes, Position(bytes, i))]
      /\ journal.broken = (n < Len(files))
  <2> HIDE DEF bytes
  <2> QED BY <1>1
<1>5. ~journal.broken
  <2>1. ~(n < Len(files))
    <3> HIDE DEF bytes
    <3> QED BY <1>0, <1>3
  <2> QED BY <1>4, <2>1, Zenon
<1>6. Len(journal.entries) = Len(files)
  <2> DEFINE read == journal.entries
  <2>1. read = [i \in 1 .. n |-> EntryAt(bytes, Position(bytes, i))]
    BY <1>4
  <2> HIDE DEF read
  <2>2. Len(read) = n
    BY <1>0, <2>1
  <2> QED BY <1>3, <2>2 DEF read
<1>7. \A i \in 1 .. Len(files) : IsWritten(journal.entries[i], files[i])
  BY <1>2, <1>3, <1>4, Zenon
<1> QED BY <1>0, <1>5, <1>6, <1>7, Zenon DEF journal

\* Whatever bytes a file has, of an archive or not: every name refresh_journal
\* reads is two bytes long, which is all CacheHandler assumes of journals.
THEOREM NamesReadAreShort ==
  ASSUME NEW bytes \in Seq(Byte)
  PROVE  LET read == ReadJournal(bytes).entries IN
           \A i \in DOMAIN read : Len(read[i].name) = NameLength
<1> DEFINE read == ReadJournal(bytes).entries
<1>1. CASE ~HasHeader(bytes)
  <2>1. read = <<>>
    BY <1>1 DEF ReadJournal
  <2> HIDE DEF read
  <2>2. \A i \in DOMAIN read : Len(read[i].name) = NameLength
    BY <2>1
  <2> QED BY <2>2 DEF read
<1>2. CASE HasHeader(bytes)
  <2>1. Len(bytes) \in Nat /\ Len(bytes) >= 13 /\ bytes \in Seq(Nat)
    BY <1>2, BytesAreNumbers DEF HasHeader
  <2>2. Start(bytes) \in Nat /\ FileNum(bytes) \in Nat
    <3>1. /\ bytes[10] \in Nat /\ bytes[11] \in Nat /\ bytes[12] \in Nat
          /\ bytes[13] \in Nat
      <4> DEFINE z == Len(bytes)
      <4>1. \A t \in 1 .. z : bytes[t] \in Nat
        BY <2>1, ElementOfSeq, Zenon
      <4>2. 10 \in 1 .. z /\ 11 \in 1 .. z /\ 12 \in 1 .. z /\ 13 \in 1 .. z
        <5>1. z \in Nat /\ z >= 13
          BY <2>1
        <5> HIDE DEF z
        <5> QED BY <5>1
      <4> QED BY <4>1, <4>2, Zenon
    <3>2. ReadInt32(bytes, 9) \in Int
      <4> DEFINE b1 == bytes[9 + 1]
                 b2 == bytes[9 + 2]
                 b3 == bytes[9 + 3]
                 b4 == bytes[9 + 4]
      <4>1. ReadInt32(bytes, 9)
              = b1 + 256 * b2 + 65536 * b3
                + 16777216 * (IF b4 < 128 THEN b4 ELSE b4 - 256)
        BY DEF ReadInt32
      <4>2. b1 \in Nat /\ b2 \in Nat /\ b3 \in Nat /\ b4 \in Nat
        BY <3>1
      <4> HIDE DEF b1, b2, b3, b4
      <4> QED BY <4>1, <4>2
    <3>3. FileNum(bytes) \in Nat
      BY <3>2 DEF FileNum
    <3> QED BY <3>3 DEF Start
  <2>3. PICK n \in 0 .. FileNum(bytes) :
          /\ \A i \in 1 .. n : IsReadable(bytes, i)
          /\ ReadJournal(bytes) =
               [entries |-> [i \in 1 .. n |-> EntryAt(bytes, Position(bytes, i))],
                broken |-> n < FileNum(bytes)]
    BY <1>2, <2>2, ReadsUpTo, Zenon
  <2>4. read = [i \in 1 .. n |-> EntryAt(bytes, Position(bytes, i))]
    BY <2>3
  <2>5. ASSUME NEW i \in 1 .. n
        PROVE  Len(EntryAt(bytes, Position(bytes, i)).name) = NameLength
    <3> DEFINE k == Position(bytes, i)
    <3>1. k \in Nat
      BY <2>2, <2>3 DEF Position, EntryLength, NameLength
    <3>2. k + 23 <= Len(bytes)
      BY <2>3 DEF IsReadable, EntryLength, NameLength
    <3> HIDE DEF k
    <3>3. Len(SubSeq(bytes, k + 22, k + 23)) = 2
      BY <2>1, <3>1, <3>2
    <3> QED BY <3>1, <3>3 DEF EntryAt, NameLength, k
  <2> HIDE DEF read
  <2>6. \A i \in DOMAIN read : Len(read[i].name) = NameLength
    BY <2>4, <2>5
  <2> QED BY <2>6 DEF read
<1> QED BY <1>1, <1>2

-----------------------------------------------------------------------------
(***************************************************************************)
(* Reading journals while archives are replaced.                           *)
(***************************************************************************)
\* What was read last of an object is the journal of some content.
ReadInv == \A w \in Wads : fresh[w] # <<>> => \E c \in Contents : fresh[w] = Journal[c]

LEMMA ReadNext ==
  ASSUME TypeOK, DiskInv, ReadInv, [Next]_vars
  PROVE  ReadInv'
<1> USE DEF TypeOK, ReadInv
<1>1. CASE UNCHANGED <<file_list, fresh>>
  BY <1>1
<1>2. ASSUME NEW w \in Wads, NEW c \in Contents,
             fresh' = [fresh EXCEPT ![w] = Journal[c]]
      PROVE  ReadInv'
  BY <1>2
<1>3. ASSUME NEW w \in Wads, NEW v \in Wads, Copied(w, v) PROVE ReadInv'
  BY <1>3 DEF Copied
<1> QED BY <1>1, <1>2, <1>3, ListStep DEF Listed

\* Whatever versions of archives are read, in whatever order, with whatever
\* results: each entry that comes after names of two bytes only is right.
THEOREM JournalsAreInStep == Spec => []JournalIsInStep
<1>1. Init => ReadInv
  BY DEF Init, ReadInv
<1>2. TypeOK /\ DiskInv /\ ReadInv /\ [Next]_vars => ReadInv'
  BY ReadNext
<1>3. ReadInv => JournalIsInStep
  <2> SUFFICES ASSUME ReadInv, NEW w \in Wads, fresh[w] # <<>>
               PROVE  \E c \in Contents :
                        /\ Len(fresh[w]) <= Len(Written[c])
                        /\ \A i \in DOMAIN fresh[w] :
                             InStep(Written[c], i)
                               => IsWritten(fresh[w][i], Written[c][i])
    BY DEF JournalIsInStep
  <2>1. PICK c \in Contents : fresh[w] = Journal[c]
    BY DEF ReadInv
  <2>2. /\ Format[c] \in Positive32 /\ AreFiles(Written[c])
        /\ Data[c] \in Seq(Byte)
    BY WrittenAssumption DEF AreFiles
  <2>3. Journal[c] =
          ReadJournal(WrittenArchive(Format[c], Written[c], Data[c])).entries
    BY BytesAssumption DEF Bytes
  <2> QED BY <2>1, <2>2, <2>3, ReadInStep, Zenon
<1> QED BY <1>1, <1>2, <1>3, TypeCorrect, PTL DEF Spec
=============================================================================
