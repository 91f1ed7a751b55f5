--------------------------- MODULE ByteRingProofs ---------------------------
(***************************************************************************)
(* For every capacity, byte alphabet and bound: the ring is the right      *)
(* suffix of the stream and recovery is exact.  Neither RingTypeOK nor     *)
(* Suffix is inductive alone: that the base and what is held add up to the *)
(* end after an append needs that they did before and that no more was     *)
(* held than the end allows.                                               *)
(***************************************************************************)
EXTENDS ByteRing, SequenceTheorems, TLAPS

Inv == RingTypeOK /\ Suffix

(* A chunk the model appends is a sequence of bytes. *)
LEMMA ChunkIsSeq == \A bytes \in Chunks : bytes \in Seq(Byte)
  BY DEF Chunks

(* How many of n bytes a ring of capacity Cap keeps. *)
Kept(n) == IF n > Cap THEN Cap ELSE n

(* kept holds the last n of the total bytes of all. *)
LastBytes(kept, all, total, n) ==
  /\ kept \in Seq(Byte)
  /\ Len(kept) = n
  /\ \A i \in 1 .. n : kept[i] = all[total - n + i]

(* Retain keeps the last Cap bytes of held \o bytes, in order: what           *)
(* ByteRing::append leaves in the VecDeque, in both of its branches.          *)
LEMMA RetainKeepsSuffix ==
  ASSUME NEW held \in Seq(Byte), NEW bytes \in Seq(Byte),
         NEW total \in Nat, NEW n \in Nat,
         Len(held) <= Cap, total = Len(held) + Len(bytes), n = Kept(total)
  PROVE  LastBytes(Retain(held, bytes), held \o bytes, total, n)
  <1>1. /\ Len(held) \in Nat /\ Len(bytes) \in Nat
        /\ Cap \in Nat /\ Cap > 0
        /\ total \in Nat
    BY CapAssumption, LenProperties
  <1> DEFINE all == held \o bytes
  <1>2. \A i \in 1 .. total : all[i] =
          IF i <= Len(held) THEN held[i] ELSE bytes[i - Len(held)]
    BY ConcatProperties
  <1> HIDE DEF all
  <1>3. CASE Len(bytes) >= Cap
    <2>1. Retain(held, bytes) = SubSeq(bytes, Len(bytes) - Cap + 1, Len(bytes))
      BY <1>3 DEF Retain
    <2>2. \A i \in Len(bytes) - Cap + 1 .. Len(bytes) : bytes[i] \in Byte
      BY <1>1, <1>3, LenProperties
    <2>3. n = Cap
      BY <1>1, <1>3 DEF Kept
    <2>4. /\ Retain(held, bytes) \in Seq(Byte)
          /\ Len(Retain(held, bytes)) = n
          /\ \A i \in 1 .. n : Retain(held, bytes)[i] = bytes[Len(bytes) - Cap + i]
      BY <1>1, <1>3, <2>1, <2>2, <2>3, SubSeqProperties
    <2>5. ASSUME NEW i \in 1 .. n
          PROVE  all[total - n + i] = bytes[Len(bytes) - Cap + i]
      <3>1. total - n + i \in 1 .. total /\ ~(total - n + i <= Len(held))
        BY <1>1, <1>3, <2>3
      <3>2. (total - n + i) - Len(held) = Len(bytes) - Cap + i
        BY <1>1, <2>3
      <3> QED
        BY <1>2, <3>1, <3>2
    <2> QED
      BY <2>4, <2>5 DEF all, LastBytes
  <1>4. CASE Len(bytes) < Cap
    <2> DEFINE overflow == IF total > Cap THEN total - Cap ELSE 0
               rest     == SubSeq(held, overflow + 1, Len(held))
               kept     == rest \o bytes
    <2>1. Retain(held, bytes) = kept
      <3>1. ~(Len(bytes) >= Cap)
        BY <1>1, <1>4
      <3> QED
        BY <3>1 DEF Retain
    <2>2. overflow \in 0 .. Len(held) /\ n = total - overflow
      BY <1>1, <1>4 DEF Kept
    <2> HIDE DEF overflow
    <2>3. \A i \in overflow + 1 .. Len(held) : held[i] \in Byte
      BY <1>1, <2>2, LenProperties
    <2>4. rest \in Seq(Byte) /\ Len(rest) = Len(held) - overflow
      BY <1>1, <2>2, <2>3, SubSeqProperties
    <2>5. \A i \in 1 .. Len(rest) : rest[i] = held[overflow + i]
      <3>1. /\ rest \in Seq(Byte)
            /\ Len(rest) = Len(held) - overflow
            /\ \A i \in 1 .. Len(held) - overflow : rest[i] = held[overflow + i]
        BY <1>1, <2>2, <2>3, SubSeqProperties
      <3> HIDE DEF rest
      <3> QED
        BY <3>1
    <2> HIDE DEF rest
    <2>6. Len(rest) \in Nat /\ Len(rest) + Len(bytes) = n
      <3>1. Len(rest) = Len(held) - overflow
        BY <2>4
      <3>2. n = total - overflow /\ overflow \in 0 .. Len(held)
        BY <2>2
      <3> HIDE DEF Kept
      <3> QED
        BY <1>1, <3>1, <3>2, SMTT(30)
    <2>7. kept \in Seq(Byte) /\ Len(kept) = n
      BY <2>4, <2>6, ConcatProperties
    <2>8. \A i \in 1 .. n : kept[i] =
            IF i <= Len(rest) THEN rest[i] ELSE bytes[i - Len(rest)]
      BY <2>4, <2>6, ConcatProperties
    <2> HIDE DEF kept
    <2>9. ASSUME NEW i \in 1 .. n
          PROVE  kept[i] = all[total - n + i]
      <3>1. Len(rest) = Len(held) - overflow
        BY <2>4
      <3>2. /\ total - n + i = overflow + i
            /\ overflow + i \in 1 .. total
            /\ i \in Nat
        BY <1>1, <2>2
      <3>3. CASE i <= Len(rest)
        <4>1. i \in 1 .. Len(rest) /\ overflow + i <= Len(held)
          BY <1>1, <2>2, <2>6, <3>1, <3>3
        <4> QED
          BY <1>2, <2>5, <2>8, <3>2, <3>3, <4>1
      <3>4. CASE ~(i <= Len(rest))
        <4>1. ~(overflow + i <= Len(held)) /\ (overflow + i) - Len(held) = i - Len(rest)
          BY <1>1, <2>2, <2>6, <3>1, <3>2, <3>4
        <4> QED
          BY <1>2, <2>8, <3>2, <3>4, <4>1
      <3> QED
        BY <3>3, <3>4
    <2> QED
      BY <2>1, <2>7, <2>9 DEF all, LastBytes
  <1>5. Len(bytes) >= Cap \/ Len(bytes) < Cap
    BY <1>1
  <1> QED
    BY <1>3, <1>4, <1>5

(* ByteRing::append keeps Inv. *)
LEMMA AppendKeepsInv ==
  ASSUME Inv, NEW bytes \in Chunks, AppendBytes(bytes)
  PROVE  Inv'
  <1>1. bytes \in Seq(Byte) /\ data \in Seq(Byte) /\ log \in Seq(Byte)
    BY ChunkIsSeq DEF Inv, RingTypeOK
  <1>2. /\ Len(bytes) \in Nat /\ Len(data) \in Nat /\ Len(log) \in Nat
        /\ end \in Nat /\ retained_base \in Nat /\ Cap \in Nat /\ Cap > 0
    BY <1>1, LenProperties, CapAssumption DEF Inv, RingTypeOK
  <1>3. end = Len(log) /\ Len(data) = end - retained_base /\ Len(data) = Kept(end)
    BY <1>2 DEF Inv, RingTypeOK, Suffix, Kept
  <1>4. \A i \in 1 .. Len(data) : data[i] = log[retained_base + i]
    BY DEF Inv, Suffix
  <1>5. end' = end + Len(bytes) /\ retained_base' = end' - Len(data')
    BY DEF AppendBytes
  <1>6. data' = Retain(data, bytes) /\ log' = log \o bytes /\ checkpoint' = checkpoint
    BY DEF AppendBytes
  <1>7. PICK total \in Nat : total = Len(data) + Len(bytes)
    BY <1>2
  <1>8. PICK n \in Nat : n = Kept(total)
    BY <1>2 DEF Kept
  <1>9. Len(data) <= Cap
    BY <1>2, <1>3 DEF Kept
  <1>10. /\ data' \in Seq(Byte)
         /\ Len(data') = n
         /\ \A i \in 1 .. n : data'[i] = (data \o bytes)[total - n + i]
    <2>1. LastBytes(Retain(data, bytes), data \o bytes, total, n)
      BY <1>1, <1>7, <1>8, <1>9, RetainKeepsSuffix
    <2> QED
      BY <1>6, <2>1 DEF LastBytes
  <1>11. Len(data') = n
    BY <1>10
  <1>12. n <= total /\ n = Kept(end')
    BY <1>2, <1>3, <1>5, <1>7, <1>8 DEF Kept
  <1>13. retained_base' = retained_base + (total - n) /\ end' = retained_base + total
    <2>1. Len(data) = end - retained_base
      BY <1>3
    <2>2. end' \in Nat
      BY <1>2, <1>5
    <2> QED
      BY <1>2, <1>5, <1>7, <1>11, <2>1, <2>2
  <1>14. log' \in Seq(Byte) /\ Len(log') = end'
    BY <1>1, <1>3, <1>5, <1>6, ConcatProperties
  <1>15. \A i \in 1 .. end' : log'[i] =
           IF i <= Len(log) THEN log[i] ELSE bytes[i - Len(log)]
    BY <1>1, <1>3, <1>5, <1>6, ConcatProperties
  <1>16. \A i \in 1 .. total : (data \o bytes)[i] =
           IF i <= Len(data) THEN data[i] ELSE bytes[i - Len(data)]
    BY <1>1, <1>7, ConcatProperties
  <1>17. ASSUME NEW j \in 1 .. total
         PROVE  (data \o bytes)[j] = log'[retained_base + j]
    <2>1. retained_base + j \in 1 .. end' /\ j \in Nat
      BY <1>2, <1>13
    <2>2. CASE j <= Len(data)
      <3>1. j \in 1 .. Len(data) /\ retained_base + j <= Len(log)
        BY <1>2, <1>3, <2>2, <2>1
      <3> QED
        BY <1>4, <1>15, <1>16, <2>1, <2>2, <3>1
    <2>3. CASE ~(j <= Len(data))
      <3>1. ~(retained_base + j <= Len(log)) /\ (retained_base + j) - Len(log) = j - Len(data)
        BY <1>2, <1>3, <2>3, <2>1
      <3> QED
        BY <1>15, <1>16, <2>1, <2>3, <3>1
    <2> QED
      BY <2>2, <2>3
  <1>18. ASSUME NEW i \in 1 .. n
         PROVE  data'[i] = log'[retained_base' + i]
    <2>1. total - n + i \in 1 .. total
      BY <1>12
    <2>2. retained_base + (total - n + i) = retained_base' + i
      BY <1>2, <1>13
    <2>3. data'[i] = (data \o bytes)[total - n + i]
      BY <1>10
    <2> QED
      BY <1>17, <2>1, <2>2, <2>3
  <1>19. RingTypeOK'
    <2>1. retained_base' \in Nat /\ end' \in Nat
      BY <1>2, <1>12, <1>13
    <2>2. checkpoint' \in Nat \cup {None}
      BY <1>6 DEF Inv, RingTypeOK
    <2>3. Len(data') <= Cap /\ retained_base' + Len(data') = end'
      BY <1>2, <1>8, <1>11, <1>12, <1>13 DEF Kept
    <2> QED
      BY <2>1, <2>2, <2>3, <1>10, <1>14 DEF RingTypeOK
  <1>20. Suffix'
    BY <1>11, <1>12, <1>14, <1>18 DEF Suffix, Kept
  <1> QED
    BY <1>19, <1>20 DEF Inv

(* Every step of the ring's operations keeps Inv. *)
LEMMA InvInductive == Inv /\ [RingNext]_ringVars => Inv'
  <1> SUFFICES ASSUME Inv, [RingNext]_ringVars
               PROVE  Inv'
    OBVIOUS
  <1>1. ASSUME NEW v \in Versions, NEW o \in 0 .. MaxLog, InstallCheckpoint(v, o)
        PROVE  Inv'
    BY <1>1, BoundAssumption DEF InstallCheckpoint, Inv, RingTypeOK, Suffix
  <1>2. CASE UNCHANGED ringVars
    BY <1>2 DEF ringVars, Inv, RingTypeOK, Suffix
  <1> QED
    BY AppendKeepsInv, <1>1, <1>2 DEF RingNext

LEMMA InvInit == NewRing => Inv
  BY CapAssumption DEF NewRing, Inv, RingTypeOK, Suffix, None

(* The ring's fields keep their types along every behaviour, never hold more  *)
(* than the capacity, and agree on the base: what append computes in its two  *)
(* branches always adds up to the end of the stream.                          *)
THEOREM TypeCorrect == RingSpec => []RingTypeOK
  <1>1. Inv => RingTypeOK
    BY DEF Inv
  <1> QED
    BY InvInit, InvInductive, <1>1, PTL DEF RingSpec

(* ByteRing::append keeps the last Cap bytes of the stream under their own    *)
(* offsets, for every capacity and every sequence of appends.                 *)
THEOREM RingIsSuffix == RingSpec => []Suffix
  <1>1. Inv => Suffix
    BY DEF Inv
  <1> QED
    BY InvInit, InvInductive, <1>1, PTL DEF RingSpec

(* What recovery() returns splices onto the checkpoint's prefix exactly.      *)
LEMMA RecoveryFromInv == Inv => RecoveryExact
  <1> SUFFICES ASSUME Inv, Recoverable
               PROVE  SubSeq(log, 1, checkpoint) \o DeltasAfter(checkpoint) = log
    BY DEF RecoveryExact, Recovery
  <1>1. log \in Seq(Byte) /\ data \in Seq(Byte)
    BY DEF Inv, RingTypeOK
  <1>2. /\ Len(log) \in Nat /\ Len(data) \in Nat
        /\ retained_base \in Nat /\ end \in Nat /\ checkpoint \in Nat
    BY <1>1, LenProperties DEF Inv, RingTypeOK, Recoverable
  <1>3. end = Len(log) /\ Len(data) = end - retained_base
    BY <1>2 DEF Inv, RingTypeOK, Suffix
  <1>4. \A i \in 1 .. Len(data) : data[i] = log[retained_base + i]
    BY DEF Inv, Suffix
  <1>5. retained_base <= checkpoint /\ checkpoint <= end
    BY DEF Recoverable, Retained
  <1> DEFINE head == SubSeq(log, 1, checkpoint)
             skip == checkpoint - retained_base
             tail == SubSeq(data, skip + 1, Len(data))
  <1>6. skip \in 0 .. Len(data)
    BY <1>2, <1>3, <1>5
  <1>7. /\ head \in Seq(Byte)
        /\ Len(head) = checkpoint
        /\ \A i \in 1 .. checkpoint : head[i] = log[i]
    <2>1. \A i \in 1 .. checkpoint : log[i] \in Byte
      BY <1>1, <1>2, <1>3, <1>5, LenProperties
    <2> QED
      BY <1>2, <2>1, SubSeqProperties
  <1> HIDE DEF skip
  <1>8. /\ tail \in Seq(Byte)
        /\ Len(tail) = Len(data) - skip
        /\ \A i \in 1 .. Len(data) - skip : tail[i] = data[skip + i]
    <2>1. \A i \in skip + 1 .. Len(data) : data[i] \in Byte
      BY <1>1, <1>2, <1>6, LenProperties
    <2> QED
      BY <1>2, <1>6, <2>1, SubSeqProperties
  <1> HIDE DEF head, tail
  <1>9. Len(data) - skip = Len(log) - checkpoint
    BY <1>2, <1>3 DEF skip
  <1>10. Len(head) + Len(tail) = Len(log)
    BY <1>2, <1>7, <1>8, <1>9
  <1>11. /\ head \o tail \in Seq(Byte)
         /\ Len(head \o tail) = Len(log)
         /\ \A i \in 1 .. Len(log) : (head \o tail)[i] =
              IF i <= Len(head) THEN head[i] ELSE tail[i - Len(head)]
    BY <1>7, <1>8, <1>10, ConcatProperties
  <1>12. ASSUME NEW i \in 1 .. Len(log)
         PROVE  (head \o tail)[i] = log[i]
    <2>1. CASE i <= checkpoint
      BY <1>2, <1>7, <1>11, <2>1
    <2>2. CASE ~(i <= checkpoint)
      <3> DEFINE k == i - checkpoint
      <3>1. k \in 1 .. Len(data) - skip
        BY <1>2, <1>9, <2>2
      <3>2. (head \o tail)[i] = tail[k]
        BY <1>7, <1>11, <2>2
      <3> HIDE DEF k
      <3>3. tail[k] = data[skip + k]
        BY <1>8, <3>1
      <3>4. skip + k \in 1 .. Len(data)
        BY <1>2, <1>6, <3>1
      <3>5. retained_base + (skip + k) = i
        BY <1>2 DEF k, skip
      <3> QED
        BY <1>4, <3>2, <3>3, <3>4, <3>5
    <2> QED
      BY <2>1, <2>2
  <1>13. head \o tail = log
    BY <1>1, <1>11, <1>12, SeqEqual
  <1> QED
    BY <1>13 DEF head, tail, skip, DeltasAfter

(* Session::recovery is exact for every capacity: when it does not refuse,    *)
(* checkpoint prefix and deltas make up the whole stream.                     *)
THEOREM RecoveryIsExact == RingSpec => []RecoveryExact
  BY InvInit, InvInductive, RecoveryFromInv, PTL DEF RingSpec
=============================================================================
