----------------------------- MODULE QueueProofs -----------------------------
(***************************************************************************)
(* Theorems about what is queued for the daemon's clients: in the session, *)
(* in their outboxes and in their sockets.  No live output is behind an    *)
(* EXIT, and in a worker what is on its way to the writer that paces the   *)
(* drain is one unbroken run of bytes.                                     *)
(*                                                                         *)
(* Both speak of the frames of some kinds in a queue, a recursive function *)
(* of the queue.  The first two sections unfold it: a function that        *)
(* satisfies its equation exists, by induction, so the one chosen does.    *)
(***************************************************************************)
EXTENDS DaemonProofs

-----------------------------------------------------------------------------
(* Induction up to n, as a statement about the set of the numbers it holds    *)
(* for: the least number outside the set is neither 0 nor a successor.        *)
LEMMA Induct ==
  ASSUME NEW n \in Nat, NEW P, 0 \in P, \A i \in 0 .. n - 1 : i \in P => i + 1 \in P
  PROVE  \A i \in 0 .. n : i \in P
<1> DEFINE S == {i \in 0 .. n : i \notin P}
<1> SUFFICES ASSUME S # {} PROVE FALSE
  OBVIOUS
<1>1. S \in SUBSET Nat
  OBVIOUS
<1>2. PICK x \in S : \A y \in S : ~ (<<y, x>> \in OpToRel(<, Nat))
  BY <1>1, NatLessThanWellFounded, WFMin
<1>3. x \in 0 .. n /\ x \notin P
  BY <1>2
<1>4. x # 0 /\ x - 1 \in 0 .. n - 1 /\ (x - 1) + 1 = x
  BY <1>3
<1>5. x - 1 \notin P
  BY <1>3, <1>4
<1>6. x - 1 \in S
  BY <1>4, <1>5
<1>7. <<x - 1, x>> \in {ss \in Nat \X Nat : ss[1] < ss[2]}
  BY <1>1, <1>3, <1>4, <1>6
<1> QED
  BY <1>2, <1>6, <1>7 DEF OpToRel

-----------------------------------------------------------------------------
(* The recursive function behind Only, as the value of a CHOOSE, is what its  *)
(* equation says: some function satisfies the equation.                       *)
IsKept(k, s, K, n) ==
  k = [i \in 0 .. n |->
        IF i = 0 THEN <<>>
        ELSE IF s[i].t \in K THEN Append(k[i - 1], s[i]) ELSE k[i - 1]]

LEMMA KeptExists ==
  ASSUME NEW s, NEW K, NEW n \in Nat
  PROVE  \E k : IsKept(k, s, K, n)
<1> DEFINE P == {m \in Nat : \E k : IsKept(k, s, K, m)}
<1>1. 0 \in P
  <2> DEFINE k == [i \in 0 .. 0 |-> <<>>]
  <2>1. IsKept(k, s, K, 0)
    BY DEF IsKept
  <2> QED
    BY <2>1
<1>2. ASSUME NEW m \in 0 .. n - 1, m \in P PROVE m + 1 \in P
  <2>1. PICK k : IsKept(k, s, K, m)
    BY <1>2
  <2> DEFINE new == IF s[m + 1].t \in K THEN Append(k[m], s[m + 1]) ELSE k[m]
             g == [i \in 0 .. m + 1 |-> IF i = m + 1 THEN new ELSE k[i]]
  <2>2. \A i \in 0 .. m : g[i] = k[i]
    BY <1>2
  <2>3. g[m + 1] = new
    BY <1>2
  <2>4. \A i \in 0 .. m : k[i] = IF i = 0 THEN <<>>
        ELSE IF s[i].t \in K THEN Append(k[i - 1], s[i]) ELSE k[i - 1]
    BY <2>1 DEF IsKept
  <2> HIDE DEF new
  <2>5. ASSUME NEW i \in 0 .. m + 1
        PROVE  g[i] = IF i = 0 THEN <<>>
                      ELSE IF s[i].t \in K THEN Append(g[i - 1], s[i]) ELSE g[i - 1]
    <3>1. CASE i = m + 1
      <4>1. i - 1 = m /\ i # 0 /\ m \in 0 .. m /\ g[m] = k[m]
        BY <1>2, <2>2, <3>1
      <4>2. g[i] = IF s[i].t \in K THEN Append(k[m], s[i]) ELSE k[m]
        BY <2>3, <3>1 DEF new
      <4> HIDE DEF g
      <4> QED
        BY <4>1, <4>2
    <3>2. CASE i # m + 1
      <4>1. i \in 0 .. m /\ (i # 0 => i - 1 \in 0 .. m)
        BY <1>2, <3>2
      <4>2. g[i] = k[i] /\ (i # 0 => g[i - 1] = k[i - 1])
        BY <2>2, <4>1
      <4> HIDE DEF g
      <4> QED
        BY <2>4, <4>1, <4>2
    <3> QED
      BY <3>1, <3>2
  <2>6. DOMAIN g = 0 .. m + 1 /\ g = [i \in 0 .. m + 1 |-> g[i]]
    OBVIOUS
  <2> HIDE DEF g
  <2>7. IsKept(g, s, K, m + 1)
    BY <2>5, <2>6 DEF IsKept
  <2> QED
    BY <1>2, <2>7
<1> HIDE DEF P
<1>3. \A i \in 0 .. n : i \in P
  BY <1>1, <1>2, Induct
<1>4. n \in P
  BY <1>3
<1> QED
  BY <1>4 DEF P

KeptSteps(k, s, K, n) ==
  /\ k[0] = <<>>
  /\ \A i \in 1 .. n : k[i] = IF s[i].t \in K THEN Append(k[i - 1], s[i]) ELSE k[i - 1]

LEMMA OnlyKept ==
  ASSUME NEW s, NEW K, Len(s) \in Nat
  PROVE  \E k : Only(s, K) = k[Len(s)] /\ KeptSteps(k, s, K, Len(s))
<1> DEFINE n == Len(s)
           k == CHOOSE f :
             f = [i \in 0 .. n |->
                   IF i = 0 THEN <<>>
                   ELSE IF s[i].t \in K THEN Append(f[i - 1], s[i]) ELSE f[i - 1]]
<1>1. \E f : IsKept(f, s, K, n)
  BY KeptExists
<1>2. IsKept(k, s, K, n)
  BY <1>1, Zenon DEF IsKept
<1>3. Only(s, K) = k[n]
  BY Zenon DEF Only
<1> HIDE DEF k, n
<1>4. \A j \in 0 .. n :
        k[j] = IF j = 0 THEN <<>>
               ELSE IF s[j].t \in K THEN Append(k[j - 1], s[j]) ELSE k[j - 1]
  BY <1>2, Zenon DEF IsKept
<1>5. n \in Nat
  BY DEF n
<1>6. 0 \in 0 .. n /\ \A i \in 1 .. n : i \in 0 .. n /\ i # 0
  BY <1>5
<1>7. KeptSteps(k, s, K, n)
  BY <1>4, <1>6 DEF KeptSteps
<1> QED
  BY <1>3, <1>7, Zenon DEF n

-----------------------------------------------------------------------------
(* What Only does to a sequence, one element at a time.                       *)

(* Induction over sequences, from the front to the back. *)
LEMMA SeqInduct ==
  ASSUME NEW S, NEW P, <<>> \in P,
         \A s \in Seq(S), x \in S : s \in P => Append(s, x) \in P
  PROVE  \A s \in Seq(S) : s \in P
<1> SUFFICES ASSUME NEW s \in Seq(S) PROVE s \in P
  OBVIOUS
<1> DEFINE n == Len(s)
           pre(i) == SubSeq(s, 1, i)
           Q == {i \in 0 .. n : pre(i) \in P}
<1>1. n \in Nat /\ \A i \in 1 .. n : s[i] \in S
  BY LenProperties, ElementOfSeq
<1> HIDE DEF n
<1>2. ASSUME NEW i \in 0 .. n
      PROVE  pre(i) \in Seq(S) /\ Len(pre(i)) = i /\ \A j \in 1 .. i : pre(i)[j] = s[j]
  <2>1. \A j \in 1 .. i : s[j] \in S
    BY <1>1
  <2>2. /\ pre(i) \in Seq(S) /\ Len(pre(i)) = (IF 1 <= i THEN i - 1 + 1 ELSE 0)
        /\ \A j \in 1 .. i - 1 + 1 : pre(i)[j] = s[1 + j - 1]
    BY <1>1, <2>1, SubSeqProperties
  <2> HIDE DEF pre
  <2> QED
    BY <1>1, <2>2
<1> HIDE DEF pre
<1>3. 0 \in Q
  <2>1. 0 \in 0 .. n
    BY <1>1
  <2>2. pre(0) = <<>>
    BY <1>2, <2>1, EmptySeq
  <2> QED
    BY <2>1, <2>2
<1>4. ASSUME NEW i \in 0 .. n - 1, i \in Q PROVE i + 1 \in Q
  <2>1. i \in 0 .. n /\ i + 1 \in 0 .. n /\ i + 1 \in 1 .. n
    BY <1>1
  <2>2. s[i + 1] \in S
    BY <1>1, <2>1
  <2>3. /\ Append(pre(i), s[i + 1]) \in Seq(S)
        /\ Len(Append(pre(i), s[i + 1])) = i + 1
        /\ \A j \in 1 .. i : Append(pre(i), s[i + 1])[j] = s[j]
        /\ Append(pre(i), s[i + 1])[i + 1] = s[i + 1]
    BY <1>2, <2>1, <2>2, AppendProperties
  <2>4. \A j \in 1 .. i + 1 : Append(pre(i), s[i + 1])[j] = s[j]
    <3> SUFFICES ASSUME NEW j \in 1 .. i + 1 PROVE Append(pre(i), s[i + 1])[j] = s[j]
      OBVIOUS
    <3>1. j \in 1 .. i \/ j = i + 1
      BY <2>1
    <3> QED
      BY <2>3, <3>1
  <2>5. pre(i + 1) = Append(pre(i), s[i + 1])
    BY <1>2, <2>1, <2>3, <2>4, SeqEqual
  <2>6. pre(i + 1) \in P
    BY <1>2, <1>4, <2>1, <2>2, <2>5
  <2> QED
    BY <2>1, <2>6
<1> HIDE DEF Q
<1>5. \A i \in 0 .. n : i \in Q
  BY <1>1, <1>3, <1>4, Induct
<1>6. n \in 0 .. n /\ pre(n) \in P
  BY <1>1, <1>5 DEF Q
<1>7. pre(n) = s
  BY <1>2, <1>6, SeqEqual DEF n
<1> QED
  BY <1>6, <1>7

LEMMA AppendIndex ==
  ASSUME NEW S, NEW s \in Seq(S), NEW x \in S
  PROVE  /\ Append(s, x) \in Seq(S) /\ Len(Append(s, x)) = Len(s) + 1 /\ Len(s) \in Nat
         /\ \A i \in 1 .. Len(s) : Append(s, x)[i] = s[i] /\ s[i] \in S
         /\ Append(s, x)[Len(s) + 1] = x
         /\ Append(s, x) # <<>>
<1>1. /\ Append(s, x) \in Seq(S) /\ Len(Append(s, x)) = Len(s) + 1 /\ Len(s) \in Nat
      /\ \A i \in 1 .. Len(s) : Append(s, x)[i] = s[i] /\ s[i] \in S
      /\ Append(s, x)[Len(s) + 1] = x
  BY AppendProperties, LenProperties, ElementOfSeq
<1>2. Append(s, x) # <<>>
  <2>1. Len(<<>>) = 0 /\ Len(Append(s, x)) # 0
    BY <1>1
  <2> QED
    BY <2>1
<1> QED
  BY <1>1, <1>2

LEMMA OnlyEmpty == ASSUME NEW K PROVE Only(<<>>, K) = <<>>
<1>1. Len(<<>>) = 0
  OBVIOUS
<1>2. PICK k : Only(<<>>, K) = k[Len(<<>>)] /\ KeptSteps(k, <<>>, K, Len(<<>>))
  BY <1>1, OnlyKept
<1> QED
  BY <1>1, <1>2 DEF KeptSteps

LEMMA OnlyAppend ==
  ASSUME NEW S, NEW s \in Seq(S), NEW x \in S, NEW K
  PROVE  Only(Append(s, x), K) = IF x.t \in K THEN Append(Only(s, K), x) ELSE Only(s, K)
<1> DEFINE n == Len(s)
           t == Append(s, x)
<1>1. n \in Nat /\ t \in Seq(S) /\ Len(t) = n + 1 /\ t[n + 1] = x /\ \A i \in 1 .. n : t[i] = s[i]
  BY AppendIndex
<1>2. PICK k : Only(s, K) = k[n] /\ KeptSteps(k, s, K, n)
  BY <1>1, OnlyKept
<1> HIDE DEF n, t
<1>3. PICK g : Only(t, K) = g[Len(t)] /\ KeptSteps(g, t, K, Len(t))
  BY <1>1, OnlyKept
<1> DEFINE P == {i \in 0 .. n : g[i] = k[i]}
<1>4. 0 \in P
  BY <1>1, <1>2, <1>3 DEF KeptSteps
<1>5. ASSUME NEW i \in 0 .. n - 1, i \in P PROVE i + 1 \in P
  <2>1. i + 1 \in 0 .. n /\ i + 1 \in 1 .. n /\ i + 1 \in 1 .. n + 1 /\ (i + 1) - 1 = i
    BY <1>1
  <2>2. g[i] = k[i] /\ t[i + 1] = s[i + 1]
    BY <1>1, <1>5, <2>1
  <2>3. k[i + 1] = IF s[i + 1].t \in K THEN Append(k[(i + 1) - 1], s[i + 1]) ELSE k[(i + 1) - 1]
    BY <1>2, <2>1 DEF KeptSteps
  <2>4. g[i + 1] = IF t[i + 1].t \in K THEN Append(g[(i + 1) - 1], t[i + 1]) ELSE g[(i + 1) - 1]
    BY <1>1, <1>3, <2>1 DEF KeptSteps
  <2>5. g[i + 1] = k[i + 1]
    BY <2>1, <2>2, <2>3, <2>4
  <2> QED
    BY <2>1, <2>5
<1> HIDE DEF P
<1>6. \A i \in 0 .. n : i \in P
  BY <1>1, <1>4, <1>5, Induct
<1>7. g[n] = k[n] /\ n + 1 \in 1 .. n + 1 /\ (n + 1) - 1 = n
  BY <1>1, <1>6 DEF P
<1>8. g[n + 1] = IF t[n + 1].t \in K THEN Append(g[(n + 1) - 1], t[n + 1]) ELSE g[(n + 1) - 1]
  BY <1>1, <1>3, <1>7 DEF KeptSteps
<1>9. g[n + 1] = IF x.t \in K THEN Append(k[n], x) ELSE k[n]
  BY <1>1, <1>7, <1>8
<1> QED
  BY <1>1, <1>2, <1>3, <1>9 DEF t

LEMMA OnlyTyped ==
  ASSUME NEW S, NEW s \in Seq(S), NEW K
  PROVE  Only(s, K) \in Seq(S)
<1> DEFINE P == {q \in Seq(S) : Only(q, K) \in Seq(S)}
<1>1. <<>> \in P
  BY OnlyEmpty, EmptySeq
<1>2. ASSUME NEW q \in Seq(S), NEW x \in S, q \in P PROVE Append(q, x) \in P
  <2>1. Only(q, K) \in Seq(S) /\ Append(q, x) \in Seq(S)
    BY <1>2, AppendIndex
  <2>2. Append(Only(q, K), x) \in Seq(S)
    BY <2>1, AppendIndex
  <2>3. Only(Append(q, x), K) \in {Append(Only(q, K), x), Only(q, K)}
    BY OnlyAppend
  <2> QED
    BY <2>1, <2>2, <2>3
<1> HIDE DEF P
<1>3. s \in P
  BY <1>1, <1>2, SeqInduct
<1> QED
  BY <1>3 DEF P

LEMMA ConcatAppend ==
  ASSUME NEW S, NEW s \in Seq(S), NEW q \in Seq(S), NEW x \in S
  PROVE  s \o Append(q, x) = Append(s \o q, x)
  OBVIOUS

(* Selecting distributes over concatenation. *)
LEMMA OnlyConcat ==
  ASSUME NEW S, NEW s \in Seq(S), NEW t \in Seq(S), NEW K
  PROVE  Only(s \o t, K) = Only(s, K) \o Only(t, K)
<1> DEFINE P == {q \in Seq(S) : Only(s \o q, K) = Only(s, K) \o Only(q, K)}
<1>0. Only(s, K) \in Seq(S)
  BY OnlyTyped
<1>1. <<>> \in P
  BY <1>0, OnlyEmpty, EmptySeq, ConcatEmptySeq
<1>2. ASSUME NEW q \in Seq(S), NEW x \in S, q \in P PROVE Append(q, x) \in P
  <2>1. s \o Append(q, x) = Append(s \o q, x) /\ s \o q \in Seq(S)
    BY ConcatAppend, ConcatProperties
  <2>2. Only(Append(s \o q, x), K) = IF x.t \in K THEN Append(Only(s \o q, K), x) ELSE Only(s \o q, K)
    <3> DEFINE u == s \o q
    <3>1. u \in Seq(S)
      BY <2>1
    <3> HIDE DEF u
    <3>2. Only(Append(u, x), K) = IF x.t \in K THEN Append(Only(u, K), x) ELSE Only(u, K)
      BY <3>1, OnlyAppend
    <3> QED
      BY <3>2 DEF u
  <2>3. Only(Append(q, x), K) = IF x.t \in K THEN Append(Only(q, K), x) ELSE Only(q, K)
    BY OnlyAppend
  <2>4. Only(q, K) \in Seq(S)
    BY OnlyTyped
  <2>5. Only(s, K) \o Append(Only(q, K), x) = Append(Only(s, K) \o Only(q, K), x)
    BY <1>0, <2>4, ConcatAppend
  <2>6. Only(s \o q, K) = Only(s, K) \o Only(q, K)
    BY <1>2
  <2>7. Only(s \o Append(q, x), K) = Only(s, K) \o Only(Append(q, x), K)
    <3>1. CASE x.t \in K
      BY <2>1, <2>2, <2>3, <2>5, <2>6, <3>1, Zenon
    <3>2. CASE x.t \notin K
      BY <2>1, <2>2, <2>3, <2>6, <3>2, Zenon
    <3> QED
      BY <3>1, <3>2
  <2> QED
    BY <2>7, AppendIndex
<1> HIDE DEF P
<1>3. t \in P
  BY <1>1, <1>2, SeqInduct
<1> QED
  BY <1>3 DEF P

-----------------------------------------------------------------------------
(* Queues of frames: EXIT is in it; it holds no live output; none follows     *)
(* EXIT in it.                                                                *)
LiveKinds == {"Data", "Delta"}
Exited(s) == \E i \in 1 .. Len(s) : s[i].t = "Exit"
NoLive(s) == \A i \in 1 .. Len(s) : s[i].t \notin LiveKinds
ExitEnds(s) == \A i, j \in 1 .. Len(s) : i < j /\ s[i].t = "Exit" => s[j].t \notin LiveKinds

LEMMA EmptyQueue == ~ Exited(<<>>) /\ NoLive(<<>>) /\ ExitEnds(<<>>)
<1>1. Len(<<>>) = 0
  OBVIOUS
<1> QED
  BY <1>1 DEF Exited, NoLive, ExitEnds

LEMMA JoinedQueues ==
  ASSUME NEW S, NEW s \in Seq(S), NEW t \in Seq(S)
  PROVE  /\ Exited(s \o t) <=> Exited(s) \/ Exited(t)
         /\ NoLive(s \o t) <=> NoLive(s) /\ NoLive(t)
         /\ ExitEnds(s \o t) <=> ExitEnds(s) /\ ExitEnds(t) /\ (Exited(s) => NoLive(t))
<1> DEFINE n == Len(s)
           m == Len(t)
           u == s \o t
<1>1. /\ n \in Nat /\ m \in Nat /\ Len(u) = n + m
      /\ \A i \in 1 .. n + m : u[i] = IF i <= n THEN s[i] ELSE t[i - n]
  BY ConcatProperties, LenProperties
<1> HIDE DEF n, m, u
<1>2. \A i \in 1 .. n : i \in 1 .. n + m /\ u[i] = s[i]
  BY <1>1
<1>3. ASSUME NEW i \in 1 .. m PROVE n + i \in 1 .. n + m /\ u[n + i] = t[i]
  <2>1. n + i \in 1 .. n + m /\ ~ (n + i <= n) /\ (n + i) - n = i
    BY <1>1
  <2> QED
    BY <1>1, <2>1
<1>4. \A k \in 1 .. n + m : k \in 1 .. n \/ \E i \in 1 .. m : k = n + i
  <2> SUFFICES ASSUME NEW k \in 1 .. n + m, k \notin 1 .. n PROVE \E i \in 1 .. m : k = n + i
    OBVIOUS
  <2>1. k - n \in 1 .. m /\ k = n + (k - n)
    BY <1>1
  <2> QED
    BY <2>1
<1>5. Exited(u) <=> Exited(s) \/ Exited(t)
  <2>1. ASSUME Exited(u) PROVE Exited(s) \/ Exited(t)
    <3>1. PICK k \in 1 .. n + m : u[k].t = "Exit"
      BY <1>1, <2>1 DEF Exited
    <3> QED
      <4>1. CASE k \in 1 .. n
        BY <1>2, <3>1, <4>1 DEF Exited, n
      <4>2. ASSUME NEW i \in 1 .. m, k = n + i PROVE Exited(t)
        BY <1>3, <3>1, <4>2 DEF Exited, m
      <4> QED
        BY <1>4, <4>1, <4>2
  <2>2. ASSUME Exited(s) PROVE Exited(u)
    BY <1>1, <1>2, <2>2 DEF Exited, n
  <2>3. ASSUME Exited(t) PROVE Exited(u)
    BY <1>1, <1>3, <2>3 DEF Exited, m
  <2> QED
    BY <2>1, <2>2, <2>3
<1>6. NoLive(u) <=> NoLive(s) /\ NoLive(t)
  <2>1. ASSUME NoLive(u) PROVE NoLive(s) /\ NoLive(t)
    BY <1>1, <1>2, <1>3, <2>1 DEF NoLive, n, m
  <2>2. ASSUME NoLive(s), NoLive(t), NEW k \in 1 .. n + m PROVE u[k].t \notin LiveKinds
    BY <1>2, <1>3, <1>4, <2>2 DEF NoLive, n, m
  <2> QED
    BY <1>1, <2>1, <2>2 DEF NoLive
<1>7. ExitEnds(u) => ExitEnds(s) /\ ExitEnds(t) /\ (Exited(s) => NoLive(t))
  <2> SUFFICES ASSUME ExitEnds(u) PROVE ExitEnds(s) /\ ExitEnds(t) /\ (Exited(s) => NoLive(t))
    OBVIOUS
  <2>1. \A i, j \in 1 .. n + m : i < j /\ u[i].t = "Exit" => u[j].t \notin LiveKinds
    BY <1>1 DEF ExitEnds
  <2>2. ExitEnds(s)
    BY <1>2, <2>1 DEF ExitEnds, n
  <2>3. ASSUME NEW i \in 1 .. m, NEW j \in 1 .. m, i < j, t[i].t = "Exit" PROVE t[j].t \notin LiveKinds
    <3>1. n + i < n + j
      BY <1>1, <2>3
    <3> QED
      BY <1>3, <2>1, <2>3, <3>1
  <2>4. ASSUME NEW i \in 1 .. n, NEW j \in 1 .. m, s[i].t = "Exit" PROVE t[j].t \notin LiveKinds
    <3>1. i < n + j
      BY <1>1
    <3> QED
      BY <1>2, <1>3, <2>1, <2>4, <3>1
  <2> QED
    BY <2>2, <2>3, <2>4 DEF ExitEnds, Exited, NoLive, n, m
<1>8. ASSUME ExitEnds(s), ExitEnds(t), Exited(s) => NoLive(t),
             NEW k \in 1 .. n + m, NEW l \in 1 .. n + m, k < l, u[k].t = "Exit"
      PROVE  u[l].t \notin LiveKinds
  <2>1. CASE k \in 1 .. n /\ l \in 1 .. n
    BY <1>2, <1>8, <2>1 DEF ExitEnds, n
  <2>2. ASSUME k \in 1 .. n, NEW j \in 1 .. m, l = n + j PROVE u[l].t \notin LiveKinds
    <3>1. Exited(s)
      BY <1>2, <1>8, <2>2 DEF Exited, n
    <3> QED
      BY <1>3, <1>8, <2>2, <3>1 DEF NoLive, m
  <2>3. ASSUME NEW i \in 1 .. m, k = n + i, NEW j \in 1 .. m, l = n + j PROVE u[l].t \notin LiveKinds
    <3>1. i < j
      BY <1>1, <1>8, <2>3
    <3> QED
      BY <1>3, <1>8, <2>3, <3>1 DEF ExitEnds, m
  <2>4. ASSUME NEW i \in 1 .. m, k = n + i, l \in 1 .. n PROVE FALSE
    BY <1>1, <1>8, <2>4
  <2> QED
    BY <1>4, <2>1, <2>2, <2>3, <2>4
<1>9. ExitEnds(s) /\ ExitEnds(t) /\ (Exited(s) => NoLive(t)) => ExitEnds(u)
  BY <1>1, <1>8 DEF ExitEnds
<1> QED
  BY <1>5, <1>6, <1>7, <1>9 DEF u

LEMMA OneFrame ==
  ASSUME NEW f
  PROVE  /\ Exited(<<f>>) <=> f.t = "Exit"
         /\ NoLive(<<f>>) <=> f.t \notin LiveKinds
         /\ ExitEnds(<<f>>)
<1>1. Len(<<f>>) = 1 /\ <<f>>[1] = f
  OBVIOUS
<1>2. 1 .. Len(<<f>>) = {1}
  BY <1>1
<1>3. ExitEnds(<<f>>)
  BY <1>2 DEF ExitEnds
<1> QED
  BY <1>1, <1>2, <1>3 DEF Exited, NoLive

LEMMA AppendOne ==
  ASSUME NEW S, NEW s \in Seq(S), NEW x \in S
  PROVE  Append(s, x) = s \o <<x>> /\ <<x>> \in Seq(S)
  OBVIOUS

(* Dropping frames of some kinds puts nothing into a queue and moves nothing. *)
LEMMA OnlyOrdered ==
  ASSUME NEW S, NEW s \in Seq(S), NEW K
  PROVE  /\ Exited(Only(s, K)) => Exited(s)
         /\ NoLive(s) => NoLive(Only(s, K))
         /\ ExitEnds(s) => ExitEnds(Only(s, K))
<1> DEFINE Good(q) == /\ Exited(Only(q, K)) => Exited(q)
                      /\ NoLive(q) => NoLive(Only(q, K))
                      /\ ExitEnds(q) => ExitEnds(Only(q, K))
           P == {q \in Seq(S) : Good(q)}
<1>1. <<>> \in P
  BY OnlyEmpty, EmptyQueue
<1>2. ASSUME NEW q \in Seq(S), NEW x \in S, q \in P PROVE Append(q, x) \in P
  <2> DEFINE o == Only(q, K)
  <2>1. o \in Seq(S) /\ Append(q, x) \in Seq(S)
    BY OnlyTyped, AppendIndex
  <2>2. Only(Append(q, x), K) = IF x.t \in K THEN Append(o, x) ELSE o
    BY OnlyAppend
  <2>3. Good(q)
    BY <1>2
  <2> HIDE DEF o
  <2>4. /\ Append(q, x) = q \o <<x>> /\ Append(o, x) = o \o <<x>>
        /\ <<x>> \in Seq(S)
    BY <2>1, AppendOne
  <2>5. /\ Exited(q \o <<x>>) <=> Exited(q) \/ Exited(<<x>>)
        /\ NoLive(q \o <<x>>) <=> NoLive(q) /\ NoLive(<<x>>)
        /\ ExitEnds(q \o <<x>>) <=> ExitEnds(q) /\ ExitEnds(<<x>>) /\ (Exited(q) => NoLive(<<x>>))
    BY <2>1, <2>4, JoinedQueues
  <2>6. /\ Exited(o \o <<x>>) <=> Exited(o) \/ Exited(<<x>>)
        /\ NoLive(o \o <<x>>) <=> NoLive(o) /\ NoLive(<<x>>)
        /\ ExitEnds(o \o <<x>>) <=> ExitEnds(o) /\ ExitEnds(<<x>>) /\ (Exited(o) => NoLive(<<x>>))
    BY <2>1, <2>4, JoinedQueues
  <2>7. Good(Append(q, x))
    BY <2>2, <2>3, <2>4, <2>5, <2>6, Zenon DEF o
  <2> QED
    BY <2>1, <2>7
<1> HIDE DEF P
<1>3. s \in P
  BY <1>1, <1>2, SeqInduct
<1> QED
  BY <1>3 DEF P

LEMMA LiveEmpty ==
  ASSUME NEW S, NEW s \in Seq(S)
  PROVE  Live(s) = <<>> <=> NoLive(s)
<1> DEFINE P == {q \in Seq(S) : Live(q) = <<>> <=> NoLive(q)}
<1>1. <<>> \in P
  BY OnlyEmpty, EmptyQueue DEF Live
<1>2. ASSUME NEW q \in Seq(S), NEW x \in S, q \in P PROVE Append(q, x) \in P
  <2>1. Append(q, x) \in Seq(S) /\ Append(q, x) = q \o <<x>> /\ <<x>> \in Seq(S)
    BY AppendIndex, AppendOne
  <2>2. Live(Append(q, x)) = IF x.t \in LiveKinds THEN Append(Live(q), x) ELSE Live(q)
    BY OnlyAppend DEF Live, LiveKinds
  <2>3. Append(Live(q), x) # <<>>
    BY OnlyTyped, AppendIndex DEF Live
  <2>4. NoLive(q \o <<x>>) <=> NoLive(q) /\ NoLive(<<x>>)
    BY <2>1, JoinedQueues
  <2>5. NoLive(<<x>>) <=> x.t \notin LiveKinds
    BY OneFrame
  <2>6. Live(q) = <<>> <=> NoLive(q)
    BY <1>2
  <2>7. Live(Append(q, x)) = <<>> <=> NoLive(Append(q, x))
    BY <2>1, <2>2, <2>3, <2>4, <2>5, <2>6, Zenon
  <2> QED
    BY <2>1, <2>7
<1> HIDE DEF P
<1>3. s \in P
  BY <1>1, <1>2, SeqInduct
<1> QED
  BY <1>3 DEF P

-----------------------------------------------------------------------------
(* The inductive invariant of ExitLast.                                       *)

(* What a queue of frames and a client's picture of the terminal may hold. *)
Reasons == {"none", "ProtocolMismatch", "Invalid", "AlreadyAttached"}
OutFrames ==
  [t : LiveKinds, from : Nat, to : Nat] \cup [t : {"Paint", "Checkpoint"}, upto : Nat]
    \cup [t : {"Exit"}] \cup [t : {"Refused"}, reason : Reasons]
Mirrors == [pos : Nat, torn : BOOLEAN, exit : BOOLEAN, refused : BOOLEAN]

QueuesTyped ==
  /\ wire \in [Conn -> Seq(OutFrames)]
  /\ outbox \in [Conn -> Seq(OutFrames)]
  /\ outbound \in [Leaf -> Seq(OutFrames)]
  /\ mirror \in [Conn -> Mirrors]
  /\ \A c \in Conn : Len(wire[c]) <= SockCap

(* A client's queues, from its socket back to the session: nothing live is    *)
(* behind an EXIT, delivered or not.                                          *)
InOrder(told, w, o, b) ==
  /\ ExitEnds(w) /\ ExitEnds(o) /\ ExitEnds(b)
  /\ told => NoLive(w)
  /\ told \/ Exited(w) => NoLive(o)
  /\ told \/ Exited(w) \/ Exited(o) => NoLive(b)
Told(c) == mirror[c].exit \/ Exited(wire[c]) \/ Exited(outbox[c])

(* Leaves are read only until the reaper has found the child dead, EXIT is    *)
(* there only after that, and a connection gets nothing before its ATTACH.    *)
ReadsLive == (pc # "io" => readable = {}) /\ \A l \in readable : ~ sess[l].childExit
LeafQueue(l) == (Exited(outbound[l]) => sess[l].childExit) /\ ExitEnds(outbound[l])
ClientQueue(c, l) ==
  /\ Told(c) => sess[l].childExit
  /\ InOrder(mirror[c].exit, wire[c], outbox[c], outbound[l])
Blank(c) == ~ Told(c) /\ NoLive(wire[c]) /\ NoLive(outbox[c])
QueueInv ==
  /\ ReadsLive
  /\ \A l \in Leaf : LeafQueue(l)
  /\ \A l \in Leaf : \A c \in Clients(l) : ClientQueue(c, l)
  /\ \A c \in Conn : cl[c].leaf = NoLeaf /\ st[c] # "closed" => Blank(c)
QueueIInv == ClaimIInv /\ TableIInv /\ QueuesTyped /\ QueueInv

LEMMA NothingLive ==
  ASSUME NEW s, NoLive(s)
  PROVE  ExitEnds(s)
  BY DEF NoLive, ExitEnds

(* The session's queue grows: by live output only before the child is reaped, *)
(* by EXIT only after.                                                        *)
LEMMA LeafGrows ==
  ASSUME NEW b \in Seq(OutFrames), NEW x \in Seq(OutFrames), NEW e, NEW g, e => g,
         Exited(b) => e, ExitEnds(b), ExitEnds(x), NoLive(x) \/ ~ e, Exited(x) => g
  PROVE  /\ b \o x \in Seq(OutFrames) /\ (Exited(b \o x) => g) /\ ExitEnds(b \o x)
         /\ \A told, w, o : (told \/ Exited(w) \/ Exited(o) => e) /\ InOrder(told, w, o, b)
              => InOrder(told, w, o, b \o x)
<1>1. b \o x \in Seq(OutFrames)
  BY ConcatProperties
<1>2. /\ Exited(b \o x) <=> Exited(b) \/ Exited(x)
      /\ NoLive(b \o x) <=> NoLive(b) /\ NoLive(x)
      /\ ExitEnds(b \o x) <=> ExitEnds(b) /\ ExitEnds(x) /\ (Exited(b) => NoLive(x))
  BY JoinedQueues
<1>3. (Exited(b \o x) => g) /\ ExitEnds(b \o x)
  BY <1>2
<1>4. ASSUME NEW told, NEW w, NEW o, told \/ Exited(w) \/ Exited(o) => e, InOrder(told, w, o, b)
      PROVE  InOrder(told, w, o, b \o x)
  BY <1>2, <1>3, <1>4, Zenon DEF InOrder
<1> QED
  BY <1>1, <1>3, <1>4, Zenon

(* A client's outbox grows: likewise. *)
LEMMA OutboxGrows ==
  ASSUME NEW o \in Seq(OutFrames), NEW x \in Seq(OutFrames), NEW e, NEW told, NEW w, NEW b,
         told \/ Exited(w) \/ Exited(o) => e, InOrder(told, w, o, b),
         ~ Exited(x), ExitEnds(x), NoLive(x) \/ ~ e
  PROVE  /\ o \o x \in Seq(OutFrames)
         /\ told \/ Exited(w) \/ Exited(o \o x) => e
         /\ InOrder(told, w, o \o x, b)
<1>1. o \o x \in Seq(OutFrames)
  BY ConcatProperties
<1>2. /\ Exited(o \o x) <=> Exited(o) \/ Exited(x)
      /\ NoLive(o \o x) <=> NoLive(o) /\ NoLive(x)
      /\ ExitEnds(o \o x) <=> ExitEnds(o) /\ ExitEnds(x) /\ (Exited(o) => NoLive(x))
  BY JoinedQueues
<1>3. InOrder(told, w, o \o x, b)
  BY <1>2, Zenon DEF InOrder
<1> QED
  BY <1>1, <1>2, <1>3

(* A flush: the outbox, with the session's queue or a part of it behind, is   *)
(* split between the socket and what is left of the outbox.                   *)
LEMMA FlushOrder ==
  ASSUME NEW w \in Seq(OutFrames), NEW o \in Seq(OutFrames), NEW b, NEW x \in Seq(OutFrames),
         NEW q \in Seq(OutFrames), NEW r \in Seq(OutFrames), q \o r = o \o x,
         Exited(x) => Exited(b), NoLive(b) => NoLive(x), ExitEnds(x),
         NEW told, InOrder(told, w, o, b)
  PROVE  /\ Exited(w \o q) \/ Exited(r) => Exited(w) \/ Exited(o) \/ Exited(b)
         /\ InOrder(told, w \o q, r, <<>>)
<1>1. /\ Exited(w \o q) <=> Exited(w) \/ Exited(q)
      /\ NoLive(w \o q) <=> NoLive(w) /\ NoLive(q)
      /\ ExitEnds(w \o q) <=> ExitEnds(w) /\ ExitEnds(q) /\ (Exited(w) => NoLive(q))
  BY JoinedQueues
<1>2. /\ Exited(q \o r) <=> Exited(q) \/ Exited(r)
      /\ NoLive(q \o r) <=> NoLive(q) /\ NoLive(r)
      /\ ExitEnds(q \o r) <=> ExitEnds(q) /\ ExitEnds(r) /\ (Exited(q) => NoLive(r))
  BY JoinedQueues
<1>3. /\ Exited(o \o x) <=> Exited(o) \/ Exited(x)
      /\ NoLive(o \o x) <=> NoLive(o) /\ NoLive(x)
      /\ ExitEnds(o \o x) <=> ExitEnds(o) /\ ExitEnds(x) /\ (Exited(o) => NoLive(x))
  BY JoinedQueues
<1>4. NoLive(<<>>) /\ ExitEnds(<<>>)
  BY EmptyQueue
<1>5. /\ told \/ Exited(w) => NoLive(q) /\ NoLive(r)
      /\ ExitEnds(q) /\ ExitEnds(r) /\ (Exited(q) => NoLive(r))
      /\ told => NoLive(w)
  <2>1. ExitEnds(o \o x) /\ (told \/ Exited(w) => NoLive(o \o x)) /\ (told => NoLive(w))
    BY <1>3, Zenon DEF InOrder
  <2> QED
    BY <1>2, <2>1, Zenon
<1>6. InOrder(told, w \o q, r, <<>>)
  BY <1>1, <1>4, <1>5, Zenon DEF InOrder
<1> QED
  BY <1>1, <1>2, <1>3, <1>6, Zenon

LEMMA SplitSeq ==
  ASSUME NEW S, NEW s \in Seq(S), NEW k \in 0 .. Len(s)
  PROVE  /\ SubSeq(s, 1, k) \in Seq(S) /\ SubSeq(s, k + 1, Len(s)) \in Seq(S)
         /\ SubSeq(s, 1, k) \o SubSeq(s, k + 1, Len(s)) = s
         /\ Len(SubSeq(s, 1, k)) = k
<1> DEFINE n == Len(s)
           a == SubSeq(s, 1, k)
           b == SubSeq(s, k + 1, n)
<1>1. n \in Nat /\ k \in Nat /\ k <= n /\ \A j \in 1 .. n : s[j] \in S
  BY LenProperties, ElementOfSeq
<1> HIDE DEF n
<1>2. a \in Seq(S) /\ Len(a) = k /\ \A j \in 1 .. k : a[j] = s[j]
  <2>1. \A j \in 1 .. k : s[j] \in S
    BY <1>1
  <2>2. /\ a \in Seq(S) /\ Len(a) = (IF 1 <= k THEN k - 1 + 1 ELSE 0)
        /\ \A j \in 1 .. k - 1 + 1 : a[j] = s[1 + j - 1]
    BY <1>1, <2>1, SubSeqProperties
  <2> HIDE DEF a
  <2> QED
    BY <1>1, <2>2
<1>3. b \in Seq(S) /\ Len(b) = n - k /\ \A j \in 1 .. n - k : b[j] = s[k + j]
  <2>1. \A j \in k + 1 .. n : s[j] \in S
    BY <1>1
  <2>2. /\ b \in Seq(S) /\ Len(b) = (IF k + 1 <= n THEN n - (k + 1) + 1 ELSE 0)
        /\ \A j \in 1 .. n - (k + 1) + 1 : b[j] = s[(k + 1) + j - 1]
    BY <1>1, <2>1, SubSeqProperties
  <2> HIDE DEF b
  <2> QED
    BY <1>1, <2>2
<1> HIDE DEF a, b
<1>4. /\ a \o b \in Seq(S) /\ Len(a \o b) = Len(a) + Len(b)
      /\ \A j \in 1 .. Len(a) + Len(b) :
           (a \o b)[j] = IF j <= Len(a) THEN a[j] ELSE b[j - Len(a)]
  BY <1>2, <1>3, ConcatProperties
<1>5. Len(a \o b) = n
  BY <1>1, <1>2, <1>3, <1>4
<1>6. ASSUME NEW j \in 1 .. n PROVE (a \o b)[j] = s[j]
  <2>1. CASE j <= k
    BY <1>1, <1>2, <1>3, <1>4, <2>1
  <2>2. CASE ~ (j <= k)
    <3>1. j - k \in 1 .. n - k /\ k + (j - k) = j
      BY <1>1, <2>2
    <3>2. b[j - k] = s[j]
      BY <1>3, <3>1
    <3>3. (a \o b)[j] = b[j - k]
      BY <1>1, <1>2, <1>3, <1>4, <2>2
    <3> QED
      BY <3>2, <3>3
  <2> QED
    BY <2>1, <2>2
<1>7. a \o b = s
  BY <1>4, <1>5, <1>6, SeqEqual DEF n
<1> QED
  BY <1>2, <1>3, <1>7 DEF a, b, n

(* Only the reaper finds a child dead. *)
LEMMA SessionExit ==
  ASSUME NEW s \in Sessions
  PROVE  /\ ReleaseObserver(s).childExit = s.childExit
         /\ Detach(s).childExit = s.childExit
         /\ AfterData(s).childExit = s.childExit
         /\ AfterResize(s).childExit = s.childExit
         /\ \A f : OnAttach(s, f).childExit = s.childExit
         /\ \A n : OnCredit(s, n).childExit = s.childExit
         /\ \A n : OnPtyReadable(s, n).childExit = s.childExit
         /\ \A n : DrainPtyAtMost(s, n).childExit = s.childExit
         /\ [s EXCEPT !.resync = FALSE].childExit = s.childExit
         /\ [s EXCEPT !.until = "due"].childExit = s.childExit
         /\ \A d \in BOOLEAN : PollChild(ExpireInputLeaseIfDue(s), d).childExit <=> s.childExit \/ d
<1>1. /\ ReleaseObserver(s).childExit = s.childExit
      /\ Detach(s).childExit = s.childExit
      /\ AfterData(s).childExit = s.childExit
      /\ AfterResize(s).childExit = s.childExit
  BY DEF Sessions, ReleaseObserver, Detach, AfterData, AfterResize, ExpireInputLeaseIfDue
<1>2. ASSUME NEW f PROVE OnAttach(s, f).childExit = s.childExit
  BY DEF Sessions, OnAttach, TakeInputLease
<1>3. ASSUME NEW n
      PROVE  /\ OnCredit(s, n).childExit = s.childExit
             /\ OnPtyReadable(s, n).childExit = s.childExit
             /\ DrainPtyAtMost(s, n).childExit = s.childExit
  BY DEF Sessions, OnCredit, OnPtyReadable, DrainPtyAtMost
<1>4. /\ [s EXCEPT !.resync = FALSE].childExit = s.childExit
      /\ [s EXCEPT !.until = "due"].childExit = s.childExit
  BY DEF Sessions
<1>5. ASSUME NEW d \in BOOLEAN
      PROVE  PollChild(ExpireInputLeaseIfDue(s), d).childExit <=> s.childExit \/ d
  <2> DEFINE e == ExpireInputLeaseIfDue(s)
  <2>1. e \in Sessions /\ e.childExit = s.childExit
    BY SessionTyped DEF Sessions, ExpireInputLeaseIfDue
  <2> HIDE DEF e
  <2>2. PollChild(e, d).childExit = (e.childExit \/ d)
    BY <2>1, Zenon DEF PollChild, Sessions
  <2> QED
    BY <2>1, <2>2 DEF e
<1> QED
  BY <1>1, <1>2, <1>3, <1>4, <1>5

SameExits == \A l \in Leaf : sess'[l].childExit = sess[l].childExit

LEMMA DropExits ==
  ASSUME TypeOK, NEW c, sess' = SessAfterDrop(c)
  PROVE  SameExits
<1> SUFFICES ASSUME NEW l \in Leaf PROVE sess'[l].childExit = sess[l].childExit
  BY DEF SameExits
<1>1. sess[l] \in Sessions
  BY DEF TypeOK
<1>2. sess'[l] \in {sess[l], ReleaseObserver(sess[l]), Detach(sess[l])}
  BY DEF SessAfterDrop
<1> QED
  BY <1>1, <1>2, SessionExit

(* The queues are as they were; clients keep their leaves. *)
LEMMA QueuesKept ==
  ASSUME TypeOK, QueuesTyped, QueueInv, UNCHANGED <<wire, outbox, outbound, mirror>>, SameExits,
         ReadsLive',
         \A c \in Conn : cl'[c].leaf = cl[c].leaf /\ (st[c] = "closed" => st'[c] = "closed")
  PROVE  QueuesTyped' /\ QueueInv'
<1>1. QueuesTyped'
  BY DEF QueuesTyped
<1>2. \A c \in Conn : (Told(c)' <=> Told(c)) /\ (Blank(c)' <=> Blank(c))
  BY DEF Told, Blank
<1>3. \A l \in Leaf : LeafQueue(l)'
  BY DEF QueueInv, LeafQueue, SameExits
<1>4. ASSUME NEW l \in Leaf, NEW c \in Clients(l)' PROVE ClientQueue(c, l)'
  <2>1. c \in Conn /\ c \in Clients(l)
    BY DEF Clients
  <2>2. ClientQueue(c, l)
    BY <2>1 DEF QueueInv
  <2> QED
    BY <1>2, <2>1, <2>2 DEF ClientQueue, SameExits
<1>5. \A c \in Conn : cl'[c].leaf = NoLeaf /\ st'[c] # "closed" => Blank(c)'
  BY <1>2 DEF QueueInv
<1> QED
  BY <1>1, <1>3, <1>4, <1>5 DEF QueueInv

(* drop_client: the queues of the others are as they were, less DATA. *)
LEMMA DropQueues ==
  ASSUME TypeOK, QueuesTyped, QueueInv, NEW i \in Slots, DropClient(i),
         UNCHANGED <<pc, readable, wire, mirror>>
  PROVE  QueuesTyped' /\ QueueInv'
<1> DEFINE c == order[i]
<1>1. c \in Conn
  BY ElementOfSeq DEF TypeOK, Slots
<1>2. /\ cl'[c].leaf = NoLeaf /\ st'[c] = "closed" /\ outbox'[c] = <<>>
      /\ \A d \in Conn \ {c} : cl'[d] = cl[d] /\ st'[d] = st[d] /\ outbox'[d] = outbox[d]
  BY <1>1 DEF DropClient, Forget, TypeOK, QueuesTyped, Accepted
<1>3. SameExits
  BY DropExits DEF DropClient
<1>4. ASSUME NEW l \in Leaf
      PROVE  /\ outbound'[l] \in Seq(OutFrames)
             /\ Exited(outbound'[l]) => Exited(outbound[l])
             /\ NoLive(outbound[l]) => NoLive(outbound'[l])
             /\ ExitEnds(outbound[l]) => ExitEnds(outbound'[l])
  <2>1. outbound[l] \in Seq(OutFrames)
    BY DEF QueuesTyped
  <2>2. outbound'[l] \in {outbound[l], Control(outbound[l])}
    BY DEF DropClient, OutboundAfterDrop
  <2> QED
    BY <2>1, <2>2, OnlyTyped, OnlyOrdered DEF Control
<1>5. outbox' \in [Conn -> Seq(OutFrames)]
  BY <1>1, EmptySeq DEF DropClient, QueuesTyped
<1>6. outbound' \in [Leaf -> Seq(OutFrames)]
  BY <1>4 DEF DropClient, OutboundAfterDrop
<1>7. QueuesTyped'
  BY <1>5, <1>6 DEF QueuesTyped
<1>8. ReadsLive'
  BY <1>3 DEF QueueInv, ReadsLive, SameExits, TypeOK
<1>9. \A l \in Leaf : LeafQueue(l)'
  BY <1>3, <1>4 DEF QueueInv, LeafQueue, SameExits
<1>10. \A d \in Conn \ {c} : (Told(d)' <=> Told(d)) /\ (Blank(d)' <=> Blank(d))
  BY <1>2 DEF Told, Blank
<1>11. ASSUME NEW l \in Leaf, NEW d \in Clients(l)' PROVE ClientQueue(d, l)'
  <2>1. d \in Conn \ {c} /\ d \in Clients(l)
    BY <1>2, LeafAssumption DEF Clients
  <2>2. ClientQueue(d, l)
    BY <2>1 DEF QueueInv
  <2>3. Told(d)' => sess'[l].childExit
    BY <1>3, <1>10, <2>1, <2>2 DEF ClientQueue, SameExits
  <2>4. InOrder(mirror[d].exit, wire[d], outbox[d], outbound'[l])
    BY <1>4, <2>2, Zenon DEF ClientQueue, InOrder
  <2> QED
    BY <1>2, <2>1, <2>3, <2>4 DEF ClientQueue
<1>12. \A d \in Conn : cl'[d].leaf = NoLeaf /\ st'[d] # "closed" => Blank(d)'
  BY <1>2, <1>10 DEF QueueInv
<1> QED
  BY <1>7, <1>8, <1>9, <1>11, <1>12 DEF QueueInv

(* The reaper and the repaint put control frames behind what is queued. *)
LEMMA ControlQueues ==
  ASSUME TypeOK, QueuesTyped, QueueInv, UNCHANGED <<cl, st, wire, outbox, mirror>>,
         pc # "io", readable' = readable,
         outbound' = [l \in Leaf |-> outbound'[l]],
         \A l \in Leaf : sess[l].childExit => sess'[l].childExit,
         \A l \in Leaf : \E x \in Seq(OutFrames) :
           /\ outbound'[l] = outbound[l] \o x
           /\ NoLive(x) /\ (Exited(x) => sess'[l].childExit)
  PROVE  QueuesTyped' /\ QueueInv'
<1>1. ASSUME NEW l \in Leaf
      PROVE  /\ outbound'[l] \in Seq(OutFrames)
             /\ LeafQueue(l)'
             /\ \A told, w, o :
                  /\ (told \/ Exited(w) \/ Exited(o) => sess[l].childExit)
                  /\ InOrder(told, w, o, outbound[l])
                  => InOrder(told, w, o, outbound'[l])
  <2>1. PICK x \in Seq(OutFrames) :
          /\ outbound'[l] = outbound[l] \o x
          /\ NoLive(x) /\ (Exited(x) => sess'[l].childExit)
    OBVIOUS
  <2>2. /\ outbound[l] \in Seq(OutFrames)
        /\ Exited(outbound[l]) => sess[l].childExit
        /\ ExitEnds(outbound[l]) /\ ExitEnds(x)
    BY <2>1, NothingLive DEF QueuesTyped, QueueInv, LeafQueue
  <2>3. /\ outbound[l] \o x \in Seq(OutFrames)
        /\ (Exited(outbound[l] \o x) => sess'[l].childExit) /\ ExitEnds(outbound[l] \o x)
        /\ \A told, w, o :
             /\ (told \/ Exited(w) \/ Exited(o) => sess[l].childExit)
             /\ InOrder(told, w, o, outbound[l])
             => InOrder(told, w, o, outbound[l] \o x)
    BY <2>1, <2>2, LeafGrows, Zenon
  <2> QED
    BY <2>1, <2>3, Zenon DEF LeafQueue
<1>2. outbound' \in [Leaf -> Seq(OutFrames)]
  BY <1>1
<1>3. QueuesTyped'
  BY <1>2 DEF QueuesTyped
<1>4. readable' = {}
  BY DEF QueueInv, ReadsLive
<1>5. ReadsLive'
  BY <1>4 DEF ReadsLive
<1>6. \A c \in Conn : (Told(c)' <=> Told(c)) /\ (Blank(c)' <=> Blank(c))
  BY DEF Told, Blank
<1>7. ASSUME NEW l \in Leaf, NEW c \in Clients(l)' PROVE ClientQueue(c, l)'
  <2>1. c \in Conn /\ c \in Clients(l)
    BY DEF Clients
  <2>2. ClientQueue(c, l)
    BY <2>1 DEF QueueInv
  <2>3. InOrder(mirror[c].exit, wire[c], outbox[c], outbound'[l])
    BY <1>1, <2>2, Zenon DEF ClientQueue, Told
  <2> QED
    BY <1>6, <2>1, <2>2, <2>3 DEF ClientQueue
<1>8. \A c \in Conn : cl'[c].leaf = NoLeaf /\ st'[c] # "closed" => Blank(c)'
  BY <1>6 DEF QueueInv
<1> QED
  BY <1>1, <1>3, <1>5, <1>7, <1>8 DEF QueueInv

LEMMA FramesTyped ==
  /\ Exit \in OutFrames /\ Exit.t = "Exit"
  /\ \A r \in Reasons : Refused(r) \in OutFrames /\ Refused(r).t = "Refused"
  /\ \A n \in Nat : Paint(n) \in OutFrames /\ Paint(n).t = "Paint"
  /\ \A n \in Nat : Checkpoint(n) \in OutFrames /\ Checkpoint(n).t = "Checkpoint"
  /\ \A m, n \in Nat : DataFrame(m, n) \in OutFrames /\ DataFrame(m, n).t = "Data"
  /\ \A m, n \in Nat : DeltaFrame(m, n) \in OutFrames /\ DeltaFrame(m, n).t = "Delta"
  BY DEF Exit, Refused, Paint, Checkpoint, DataFrame, DeltaFrame, OutFrames, LiveKinds

LEMMA OneTyped ==
  ASSUME NEW f \in OutFrames
  PROVE  /\ <<f>> \in Seq(OutFrames)
         /\ Exited(<<f>>) <=> f.t = "Exit"
         /\ NoLive(<<f>>) <=> f.t \notin LiveKinds
         /\ ExitEnds(<<f>>)
  BY OneFrame

LEMMA EmptyTyped ==
  /\ <<>> \in Seq(OutFrames)
  /\ \A s \in Seq(OutFrames) : s \o <<>> = s
  /\ ~ Exited(<<>>) /\ NoLive(<<>>) /\ ExitEnds(<<>>)
  BY EmptyQueue, ConcatEmptySeq, EmptySeq

LEMMA ReapQueues ==
  ASSUME TypeOK, QueuesTyped, QueueInv, Reap
  PROVE  QueuesTyped' /\ QueueInv'
<1> USE DEF clientVars
<1>1. UNCHANGED <<cl, st, wire, outbox, mirror>> /\ pc # "io" /\ readable' = readable
  BY DEF Reap
<1>2. outbound' = [l \in Leaf |-> outbound'[l]]
  BY DEF Reap
<1>3. ASSUME NEW l \in Leaf PROVE sess'[l].childExit <=> sess[l].childExit \/ dead[l]
  BY SessionExit DEF Reap, TypeOK
<1>4. ASSUME NEW l \in Leaf
      PROVE  \E x \in Seq(OutFrames) :
               /\ outbound'[l] = outbound[l] \o x
               /\ NoLive(x) /\ (Exited(x) => sess'[l].childExit)
  <2> DEFINE x == PollChildOut(sess[l], dead[l])
  <2>1. outbound'[l] = outbound[l] \o x
    BY DEF Reap
  <2>2. x = <<>> \/ (x = <<Exit>> /\ dead[l])
    BY DEF PollChildOut
  <2> HIDE DEF x
  <2>3. x \in Seq(OutFrames) /\ NoLive(x) /\ (Exited(x) => dead[l])
    <3>1. CASE x = <<>>
      BY <3>1, EmptyTyped
    <3>2. CASE x = <<Exit>> /\ dead[l]
      <4>1. Exit.t \notin LiveKinds
        BY FramesTyped DEF LiveKinds
      <4> QED
        BY <3>2, <4>1, FramesTyped, OneTyped
    <3> QED
      BY <2>2, <3>1, <3>2
  <2> QED
    BY <1>3, <2>1, <2>3
<1> QED
  BY <1>1, <1>2, <1>3, <1>4, ControlQueues

LEMMA ResyncQueues ==
  ASSUME TypeOK, QueuesTyped, QueueInv, Resync
  PROVE  QueuesTyped' /\ QueueInv'
<1> USE DEF clientVars
<1>1. UNCHANGED <<cl, st, wire, outbox, mirror>> /\ pc # "io" /\ readable' = readable
  BY DEF Resync
<1>2. outbound' = [l \in Leaf |-> outbound'[l]]
  BY DEF Resync
<1>3. ASSUME NEW l \in Leaf PROVE sess'[l].childExit = sess[l].childExit
  <2>1. sess[l] \in Sessions /\ sess'[l] = [sess[l] EXCEPT !.resync = FALSE]
    BY DEF Resync, TypeOK
  <2> QED
    BY <2>1 DEF Sessions
<1>4. ASSUME NEW l \in Leaf
      PROVE  \E x \in Seq(OutFrames) :
               /\ outbound'[l] = outbound[l] \o x
               /\ NoLive(x) /\ (Exited(x) => sess'[l].childExit)
  <2> DEFINE p == Paint(sess[l].delivered)
  <2>1. outbound'[l] = outbound[l] \/ outbound'[l] = Append(outbound[l], p)
    BY DEF Resync
  <2>2. outbound[l] \in Seq(OutFrames)
    BY DEF QueuesTyped
  <2>3. p \in OutFrames /\ p.t = "Paint"
    BY FramesTyped DEF TypeOK, Sessions
  <2> HIDE DEF p
  <2>4. CASE outbound'[l] = outbound[l]
    BY <2>2, <2>4, EmptyTyped, Zenon
  <2>5. CASE outbound'[l] = Append(outbound[l], p)
    <3>1. outbound'[l] = outbound[l] \o <<p>>
      BY <2>2, <2>3, <2>5, AppendOne
    <3>2. <<p>> \in Seq(OutFrames) /\ NoLive(<<p>>) /\ ~ Exited(<<p>>)
      BY <2>3, OneTyped DEF LiveKinds
    <3> QED
      BY <3>1, <3>2, Zenon
  <2> QED
    BY <2>1, <2>4, <2>5
<1> QED
  BY <1>1, <1>2, <1>3, <1>4, ControlQueues

(* Live output is queued only while its leaf is read, so before EXIT. *)
LEMMA DrainQueues ==
  ASSUME TypeOK, QueuesTyped, QueueInv, Drain
  PROVE  QueuesTyped' /\ QueueInv'
<1> USE DEF clientVars
<1>1. PICK l \in readable : DrainFanout(l) \/ DrainDirect(l) \/ DrainStop(l)
  BY DEF Drain
<1>2. /\ l \in Leaf /\ ~ sess[l].childExit /\ sess[l] \in Sessions
      /\ UNCHANGED <<pc, st, wire, mirror>>
  BY DEF Drain, QueueInv, ReadsLive, TypeOK
<1>3. /\ Got(l) \in Nat /\ sess[l].delivered \in Nat
      /\ sess[l].delivered + Got(l) \in Nat
  BY <1>2, GotBounds
<1>4. \A c \in Conn : cl'[c].leaf = cl[c].leaf
  <2>1. CASE DrainFanout(l)
    <3> SUFFICES ASSUME NEW c \in Conn PROVE cl'[c].leaf = cl[c].leaf
      OBVIOUS
    <3>1. cl[c] \in ClientRecs
      BY DEF TypeOK
    <3>2. cl'[c] = cl[c] \/ cl'[c] = [cl[c] EXCEPT !.credit = @ - LiveChunk(c, Got(l))]
      BY <2>1 DEF DrainFanout, FanoutPtyBytes
    <3> QED
      BY <3>1, <3>2 DEF ClientRecs
  <2>2. CASE DrainDirect(l) \/ DrainStop(l)
    BY <2>2 DEF DrainDirect, DrainStop
  <2> QED
    BY <1>1, <2>1, <2>2
<1>5. SameExits
  <2>1. \/ sess' = sess
        \/ sess' = [sess EXCEPT ![l] = DrainPtyAtMost(sess[l], Got(l))]
        \/ sess' = [sess EXCEPT ![l] = OnPtyReadable(sess[l], Got(l))]
    BY <1>1 DEF DrainFanout, DrainDirect, DrainStop
  <2>2. /\ DrainPtyAtMost(sess[l], Got(l)).childExit = sess[l].childExit
        /\ OnPtyReadable(sess[l], Got(l)).childExit = sess[l].childExit
    BY <1>2, SessionExit
  <2> QED
    BY <1>2, <2>1, <2>2 DEF SameExits, TypeOK
<1>6. ReadsLive'
  <2>1. readable' \subseteq readable
    BY <1>1 DEF DrainFanout, DrainDirect, DrainStop
  <2> QED
    BY <1>2, <1>5, <2>1 DEF QueueInv, ReadsLive, SameExits, TypeOK
<1>7. CASE DrainStop(l)
  BY <1>2, <1>4, <1>5, <1>6, <1>7, QueuesKept DEF DrainStop
<1>8. CASE DrainDirect(l)
  <2> DEFINE x == OnPtyReadableOut(sess[l], Got(l))
             f == DataFrame(sess[l].delivered, sess[l].delivered + Got(l))
  <2>1. UNCHANGED outbox /\ outbound' = [outbound EXCEPT ![l] = outbound[l] \o x]
    BY <1>8 DEF DrainDirect
  <2>2. x = <<>> \/ x = <<f>>
    BY DEF OnPtyReadableOut
  <2>3. f \in OutFrames /\ f.t = "Data"
    BY <1>3, FramesTyped
  <2> HIDE DEF x, f
  <2>4. x \in Seq(OutFrames) /\ ~ Exited(x) /\ ExitEnds(x)
    BY <2>2, <2>3, EmptyTyped, OneTyped
  <2>5. /\ outbound[l] \in Seq(OutFrames)
        /\ Exited(outbound[l]) => sess[l].childExit
        /\ ExitEnds(outbound[l])
    BY <1>2 DEF QueuesTyped, QueueInv, LeafQueue
  <2>6. /\ outbound[l] \o x \in Seq(OutFrames)
        /\ (Exited(outbound[l] \o x) => FALSE) /\ ExitEnds(outbound[l] \o x)
        /\ \A told, w, o :
             /\ (told \/ Exited(w) \/ Exited(o) => sess[l].childExit)
             /\ InOrder(told, w, o, outbound[l])
             => InOrder(told, w, o, outbound[l] \o x)
    BY <1>2, <2>4, <2>5, LeafGrows, Zenon
  <2>7. QueuesTyped'
    BY <1>2, <2>1, <2>6 DEF QueuesTyped
  <2>8. \A m \in Leaf : outbound'[m] = IF m = l THEN outbound[l] \o x ELSE outbound[m]
    BY <1>2, <2>1 DEF QueuesTyped
  <2>9. \A m \in Leaf : LeafQueue(m)'
    BY <1>5, <2>6, <2>8 DEF QueueInv, LeafQueue, SameExits
  <2>10. \A c \in Conn : (Told(c)' <=> Told(c)) /\ (Blank(c)' <=> Blank(c))
    BY <1>2, <2>1 DEF Told, Blank
  <2>11. ASSUME NEW m \in Leaf, NEW c \in Clients(m)' PROVE ClientQueue(c, m)'
    <3>1. c \in Conn /\ c \in Clients(m)
      BY <1>4 DEF Clients
    <3>2. ClientQueue(c, m)
      BY <3>1 DEF QueueInv
    <3>3. InOrder(mirror[c].exit, wire[c], outbox[c], outbound'[m])
      BY <2>6, <2>8, <3>2, Zenon DEF ClientQueue, Told
    <3> QED
      BY <1>2, <1>5, <2>1, <2>10, <3>1, <3>2, <3>3 DEF ClientQueue, SameExits
  <2>12. \A c \in Conn : cl'[c].leaf = NoLeaf /\ st'[c] # "closed" => Blank(c)'
    BY <1>2, <1>4, <2>10 DEF QueueInv
  <2> QED
    BY <1>6, <2>7, <2>9, <2>11, <2>12 DEF QueueInv
<1>9. CASE DrainFanout(l)
  <2> DEFINE n(c) == LiveChunk(c, Got(l))
             f(c) == LiveFrame(c, sess[l].delivered, sess[l].delivered + n(c))
  <2>1. /\ UNCHANGED outbound
        /\ outbox' = [c \in Conn |-> IF c \in Clients(l) /\ n(c) > 0
                                     THEN Append(outbox[c], f(c)) ELSE outbox[c]]
    BY <1>9 DEF DrainFanout, FanoutPtyBytes
  <2>2. ASSUME NEW c \in Conn PROVE f(c) \in OutFrames /\ f(c).t # "Exit"
    <3>1. n(c) \in Nat /\ sess[l].delivered + n(c) \in Nat
      BY <1>3 DEF LiveChunk
    <3> HIDE DEF n
    <3> QED
      BY <1>3, <3>1, FramesTyped DEF LiveFrame
  <2> HIDE DEF n, f
  <2>3. ASSUME NEW c \in Conn
        PROVE  /\ outbox[c] \in Seq(OutFrames)
               /\ \/ outbox'[c] = outbox[c]
                  \/ c \in Clients(l) /\ outbox'[c] = outbox[c] \o <<f(c)>>
    BY <2>1, <2>2, AppendOne DEF QueuesTyped
  <2>4. ASSUME NEW c \in Conn PROVE <<f(c)>> \in Seq(OutFrames) /\ ~ Exited(<<f(c)>>) /\ ExitEnds(<<f(c)>>)
    BY <2>2, OneTyped
  <2>5. \A c \in Conn : outbox'[c] \in Seq(OutFrames)
    BY <2>3, <2>4, ConcatProperties
  <2>6. QueuesTyped'
    <3>1. outbox' \in [Conn -> Seq(OutFrames)]
      BY <2>1, <2>5
    <3> QED
      BY <1>2, <2>1, <3>1 DEF QueuesTyped
  <2>7. \A m \in Leaf : LeafQueue(m)'
    BY <1>5, <2>1 DEF QueueInv, LeafQueue, SameExits
  <2>8. ASSUME NEW m \in Leaf, NEW c \in Clients(m)' PROVE ClientQueue(c, m)'
    <3>1. c \in Conn /\ c \in Clients(m)
      BY <1>4 DEF Clients
    <3>2. ClientQueue(c, m)
      BY <3>1 DEF QueueInv
    <3>3. CASE outbox'[c] = outbox[c]
      BY <1>2, <1>5, <2>1, <3>2, <3>3 DEF ClientQueue, Told, SameExits
    <3>4. CASE c \in Clients(l) /\ outbox'[c] = outbox[c] \o <<f(c)>>
      <4>1. m = l
        BY <3>1, <3>4 DEF Clients
      <4>2. /\ mirror[c].exit \/ Exited(wire[c]) \/ Exited(outbox[c] \o <<f(c)>>) => sess[l].childExit
            /\ InOrder(mirror[c].exit, wire[c], outbox[c] \o <<f(c)>>, outbound[l])
        <5>1. /\ mirror[c].exit \/ Exited(wire[c]) \/ Exited(outbox[c]) => sess[l].childExit
              /\ InOrder(mirror[c].exit, wire[c], outbox[c], outbound[l])
          BY <3>2, <4>1 DEF ClientQueue, Told
        <5>2. outbox[c] \in Seq(OutFrames)
          BY <2>3, <3>1
        <5>3. <<f(c)>> \in Seq(OutFrames) /\ ~ Exited(<<f(c)>>) /\ ExitEnds(<<f(c)>>)
          BY <2>4, <3>1
        <5> QED
          BY <1>2, <5>1, <5>2, <5>3, OutboxGrows, Zenon
      <4> QED
        BY <1>2, <1>5, <2>1, <3>4, <4>1, <4>2 DEF ClientQueue, Told, SameExits
    <3> QED
      BY <2>3, <3>1, <3>3, <3>4
  <2>9. ASSUME NEW c \in Conn, cl'[c].leaf = NoLeaf, st'[c] # "closed" PROVE Blank(c)'
    <3>1. c \notin Clients(l)
      BY <1>2, <1>4, <2>9, LeafAssumption DEF Clients
    <3>2. outbox'[c] = outbox[c]
      BY <2>3, <3>1
    <3>3. Blank(c)
      BY <1>2, <1>4, <2>9 DEF QueueInv
    <3> QED
      BY <1>2, <3>2, <3>3 DEF Blank, Told
  <2> QED
    BY <1>6, <2>6, <2>7, <2>8, <2>9 DEF QueueInv
<1> QED
  BY <1>1, <1>7, <1>8, <1>9

(* What is sent in answer to a frame goes behind what the client in the slot  *)
(* is still owed.                                                             *)
LEMMA ReplyTyped ==
  ASSUME QueuesTyped, NEW x \in Seq(OutFrames), Reply(x)
  PROVE  /\ outbox' \in [Conn -> Seq(OutFrames)]
         /\ \A c \in Conn : outbox'[c] = IF c \in At THEN outbox[c] \o x ELSE outbox[c]
<1>1. \A c \in Conn : outbox'[c] = IF c \in At THEN outbox[c] \o x ELSE outbox[c]
  BY DEF Reply
<1>2. \A c \in Conn : outbox[c] \in Seq(OutFrames) /\ outbox[c] \o x \in Seq(OutFrames)
  BY ConcatProperties DEF QueuesTyped
<1>3. \A c \in Conn : outbox'[c] \in Seq(OutFrames)
  BY <1>1, <1>2
<1> QED
  BY <1>1, <1>3 DEF Reply

LEMMA RefusedQueues ==
  ASSUME TypeOK, QueuesTyped, QueueInv, DispatchRefused
  PROVE  QueuesTyped' /\ QueueInv'
<1> DEFINE x == <<Refused(RefuseReason(Frame))>>
<1>1. /\ Reply(x)
      /\ UNCHANGED <<pc, readable, cl, sess, outbound, st, wire, mirror>>
  BY DEF DispatchRefused, Dispatching
<1>2. RefuseReason(Frame) \in Reasons
  BY DEF RefuseReason, Reasons
<1>3. x \in Seq(OutFrames) /\ ~ Exited(x) /\ NoLive(x) /\ ExitEnds(x)
  BY <1>2, FramesTyped, OneTyped DEF LiveKinds
<1> HIDE DEF x
<1>4. /\ outbox' \in [Conn -> Seq(OutFrames)]
      /\ \A c \in Conn : outbox'[c] = IF c \in At THEN outbox[c] \o x ELSE outbox[c]
  BY <1>1, <1>3, ReplyTyped
<1>5. QueuesTyped'
  BY <1>1, <1>4 DEF QueuesTyped
<1>6. ReadsLive' /\ \A l \in Leaf : LeafQueue(l)'
  BY <1>1 DEF QueueInv, ReadsLive, LeafQueue
<1>7. ASSUME NEW c \in Conn
      PROVE  /\ outbox[c] \in Seq(OutFrames)
             /\ Exited(outbox[c] \o x) <=> Exited(outbox[c])
             /\ NoLive(outbox[c] \o x) <=> NoLive(outbox[c])
  BY <1>3, JoinedQueues DEF QueuesTyped
<1>8. \A c \in Conn : (Told(c)' <=> Told(c)) /\ (Blank(c)' <=> Blank(c))
  BY <1>1, <1>4, <1>7 DEF Told, Blank
<1>9. ASSUME NEW l \in Leaf, NEW c \in Clients(l)' PROVE ClientQueue(c, l)'
  <2>1. c \in Conn /\ c \in Clients(l)
    BY <1>1 DEF Clients
  <2>2. ClientQueue(c, l)
    BY <2>1 DEF QueueInv
  <2>3. InOrder(mirror[c].exit, wire[c], outbox[c] \o x, outbound[l])
    <3>1. /\ mirror[c].exit \/ Exited(wire[c]) \/ Exited(outbox[c]) => sess[l].childExit
          /\ InOrder(mirror[c].exit, wire[c], outbox[c], outbound[l])
      BY <2>2 DEF ClientQueue, Told
    <3>2. outbox[c] \in Seq(OutFrames)
      BY <1>7, <2>1
    <3>3. NoLive(x) \/ ~ sess[l].childExit
      BY <1>3
    <3> QED
      BY <1>3, <3>1, <3>2, <3>3, OutboxGrows, ZenonT(30)
  <2>4. InOrder(mirror[c].exit, wire[c], outbox'[c], outbound[l])
    BY <1>4, <2>1, <2>2, <2>3 DEF ClientQueue
  <2> QED
    BY <1>1, <1>8, <2>1, <2>2, <2>4 DEF ClientQueue
<1>10. \A c \in Conn : cl'[c].leaf = NoLeaf /\ st'[c] # "closed" => Blank(c)'
  BY <1>1, <1>8 DEF QueueInv
<1> QED
  BY <1>5, <1>6, <1>9, <1>10 DEF QueueInv

(* An ATTACH is honoured for a connection that has been sent nothing live and *)
(* no EXIT: the checkpoint or the history comes before either.                *)
LEMMA AttachQueues ==
  ASSUME QueueIInv, DispatchAttach
  PROVE  QueuesTyped' /\ QueueInv'
<1>0. TypeOK /\ QueuesTyped /\ QueueInv /\ AttachInv /\ Connected
  BY DEF QueueIInv, ClaimIInv, TableIInv
<1> DEFINE l == Resolve(Frame.leaf)
           x == Welcome(Frame, sess[l])
           y == OnAttachOut(sess[l], Frame)
           s == batch.src
<1>1. Dispatching /\ Frame.t = "Attach" /\ RefuseReason(Frame) = "none"
  BY DEF DispatchAttach
<1>2. /\ sess' = [sess EXCEPT ![l] = OnAttach(sess[l], Frame)]
      /\ outbound' = [outbound EXCEPT ![l] = outbound[l] \o y]
      /\ Reply(x)
      /\ UNCHANGED <<pc, readable, st, wire, mirror>>
  BY DEF DispatchAttach, Dispatching
<1>3. cl' = [c \in Conn |-> IF c \in At
               THEN [cl[c] EXCEPT !.leaf = l, !.observe = Frame.observe, !.proto = Frame.proto]
               ELSE cl[c]]
  BY DEF DispatchAttach
<1>4. l \in Leaf /\ sess[l] \in Sessions
  BY <1>0, <1>1 DEF RefuseReason, TypeOK
<1>5. At = {s} /\ cl[s].leaf = NoLeaf /\ s \in Conn /\ st[s] # "closed"
  <2> DEFINE fs == batch.frames
  <2>1. fs \in Seq(InboundFrame) /\ fs # <<>>
    BY <1>0, <1>1, BatchTyped DEF Batches
  <2>2. Head(fs).t = "Attach"
    BY <1>1 DEF Frame
  <2> HIDE DEF fs
  <2>3. Len(fs) \in Nat \ {0} /\ Head(fs) = fs[1]
    BY <2>1, PopTyped
  <2>4. 1 \in 1 .. Len(fs) /\ IsAttach(fs[1])
    BY <2>2, <2>3 DEF IsAttach
  <2>5. At = {s} /\ cl[s].leaf = NoLeaf
    BY <1>0, <2>4 DEF AttachInv, fs
  <2>6. s \in Conn /\ batch.at \in Slots /\ order[batch.at] = s
    BY <1>0, <1>1, <2>5, AtSeated
  <2> QED
    BY <1>0, <2>5, <2>6 DEF Connected
<1>6. sess[l].delivered \in Nat /\ sess[l].childExit \in BOOLEAN
  BY <1>4 DEF Sessions
<1>7. x \in Seq(OutFrames) /\ ~ Exited(x) /\ ExitEnds(x)
  <2>1. \/ x = <<>> \/ x = <<Checkpoint(sess[l].delivered)>>
        \/ x = <<DataFrame(0, sess[l].delivered)>>
    BY DEF Welcome
  <2>2. /\ Checkpoint(sess[l].delivered) \in OutFrames
        /\ Checkpoint(sess[l].delivered).t # "Exit"
        /\ DataFrame(0, sess[l].delivered) \in OutFrames
        /\ DataFrame(0, sess[l].delivered).t # "Exit"
    BY <1>6, FramesTyped
  <2> HIDE DEF x
  <2> QED
    BY <2>1, <2>2, EmptyTyped, OneTyped
<1>8. y \in Seq(OutFrames) /\ NoLive(y) /\ ExitEnds(y) /\ (Exited(y) => sess[l].childExit)
  <2>1. \/ y = <<>> \/ y = <<Refused("AlreadyAttached")>>
        \/ y = <<Exit>> /\ sess[l].childExit
    BY DEF OnAttachOut
  <2>2. /\ Refused("AlreadyAttached") \in OutFrames /\ Refused("AlreadyAttached").t = "Refused"
        /\ Exit \in OutFrames /\ Exit.t = "Exit"
    BY FramesTyped DEF Reasons
  <2> HIDE DEF y
  <2> QED
    BY <2>1, <2>2, EmptyTyped, OneTyped DEF LiveKinds
<1> HIDE DEF x, y, l, s
<1>9. SameExits
  <2>1. OnAttach(sess[l], Frame).childExit = sess[l].childExit
    BY <1>4, SessionExit
  <2> QED
    BY <1>0, <1>2, <1>4, <2>1 DEF SameExits, TypeOK
<1>10. /\ outbox' \in [Conn -> Seq(OutFrames)]
       /\ \A c \in Conn : outbox'[c] = IF c \in At THEN outbox[c] \o x ELSE outbox[c]
  BY <1>0, <1>2, <1>7, ReplyTyped
<1>11. /\ outbound[l] \in Seq(OutFrames)
       /\ Exited(outbound[l]) => sess[l].childExit
       /\ ExitEnds(outbound[l])
  BY <1>0, <1>4 DEF QueuesTyped, QueueInv, LeafQueue
<1>12. /\ outbound[l] \o y \in Seq(OutFrames)
       /\ (Exited(outbound[l] \o y) => sess[l].childExit) /\ ExitEnds(outbound[l] \o y)
       /\ \A told, w, o :
            /\ (told \/ Exited(w) \/ Exited(o) => sess[l].childExit)
            /\ InOrder(told, w, o, outbound[l])
            => InOrder(told, w, o, outbound[l] \o y)
  BY <1>8, <1>11, LeafGrows, Zenon
<1>13. \A m \in Leaf : outbound'[m] = IF m = l THEN outbound[l] \o y ELSE outbound[m]
  BY <1>0, <1>2, <1>4 DEF QueuesTyped
<1>14. QueuesTyped'
  <2>1. outbound' \in [Leaf -> Seq(OutFrames)]
    BY <1>0, <1>2, <1>4, <1>12 DEF QueuesTyped
  <2> QED
    BY <1>0, <1>2, <1>10, <2>1 DEF QueuesTyped
<1>15. ReadsLive'
  BY <1>0, <1>2, <1>9 DEF QueueInv, ReadsLive, SameExits, TypeOK
<1>16. \A m \in Leaf : LeafQueue(m)'
  BY <1>0, <1>9, <1>12, <1>13 DEF QueueInv, LeafQueue, SameExits
<1>17. /\ cl'[s].leaf = l
       /\ \A c \in Conn \ {s} : cl'[c] = cl[c] /\ outbox'[c] = outbox[c]
  <2>1. cl[s] \in ClientRecs
    BY <1>0, <1>5 DEF TypeOK
  <2>2. cl'[s] = [cl[s] EXCEPT !.leaf = l, !.observe = Frame.observe, !.proto = Frame.proto]
    BY <1>3, <1>5
  <2>3. cl'[s].leaf = l
    BY <2>1, <2>2 DEF ClientRecs
  <2> QED
    BY <1>3, <1>5, <1>10, <2>3
<1>18. ASSUME NEW m \in Leaf, NEW c \in Clients(m)' PROVE ClientQueue(c, m)'
  <2>1. CASE c # s
    <3>1. c \in Conn /\ c \in Clients(m)
      BY <1>17, <2>1 DEF Clients
    <3>2. ClientQueue(c, m)
      BY <1>0, <3>1 DEF QueueInv
    <3>3. InOrder(mirror[c].exit, wire[c], outbox[c], outbound'[m])
      BY <1>12, <1>13, <3>2, Zenon DEF ClientQueue, Told
    <3> QED
      BY <1>2, <1>9, <1>17, <2>1, <3>1, <3>2, <3>3 DEF ClientQueue, Told, SameExits
  <2>2. CASE c = s
    <3>1. m = l
      BY <1>5, <1>17, <2>2 DEF Clients
    <3>2. Blank(s)
      BY <1>0, <1>5 DEF QueueInv
    <3>3. outbox[s] \in Seq(OutFrames) /\ outbox'[s] = outbox[s] \o x
      BY <1>0, <1>5, <1>10 DEF QueuesTyped
    <3>4. /\ Exited(outbox[s] \o x) <=> Exited(outbox[s]) \/ Exited(x)
          /\ ExitEnds(outbox[s] \o x)
               <=> ExitEnds(outbox[s]) /\ ExitEnds(x) /\ (Exited(outbox[s]) => NoLive(x))
      BY <1>7, <3>3, JoinedQueues
    <3>5. ExitEnds(wire[s]) /\ ExitEnds(outbox[s])
      BY <3>2, NothingLive DEF Blank
    <3>6. ~ mirror[s].exit /\ ~ Exited(wire[s]) /\ ~ Exited(outbox[s] \o x) /\ ExitEnds(outbox[s] \o x)
      BY <1>7, <3>2, <3>4, <3>5 DEF Blank, Told
    <3>7. InOrder(mirror[s].exit, wire[s], outbox[s] \o x, outbound[l] \o y)
      BY <1>12, <3>5, <3>6, Zenon DEF InOrder
    <3> QED
      BY <1>2, <1>4, <1>13, <2>2, <3>1, <3>3, <3>6, <3>7 DEF ClientQueue, Told
  <2> QED
    BY <2>1, <2>2
<1>19. ASSUME NEW c \in Conn, cl'[c].leaf = NoLeaf, st'[c] # "closed" PROVE Blank(c)'
  <2>1. c # s
    BY <1>4, <1>17, <1>19, LeafAssumption
  <2>2. Blank(c)
    BY <1>0, <1>2, <1>17, <1>19, <2>1 DEF QueueInv
  <2> QED
    BY <1>2, <1>17, <2>1, <2>2 DEF Blank, Told
<1> QED
  BY <1>14, <1>15, <1>16, <1>18, <1>19 DEF QueueInv

LEMMA DispatchQueues ==
  ASSUME QueueIInv, DispatchFrame
  PROVE  QueuesTyped' /\ QueueInv'
<1> USE DEF daemonVars
<1>0. TypeOK /\ QueuesTyped /\ QueueInv
  BY DEF QueueIInv, TableIInv
<1>1. CASE DispatchRefused \/ DispatchAttach
  BY <1>0, <1>1, RefusedQueues, AttachQueues
<1>2. CASE DispatchIgnored \/ DispatchCredit \/ DispatchData \/ DispatchResize
  <2>1. UNCHANGED <<pc, readable, wire, mirror, outbox, outbound, st>> /\ Dispatching
    BY <1>2 DEF DispatchIgnored, DispatchCredit, DispatchData, DispatchResize, Dispatching
  <2>2. \A c \in Conn : cl'[c].leaf = cl[c].leaf
    BY <1>0, <1>2, OthersKeepClaim DEF DispatchIgnored, SameLeaves
  <2>3. SameExits
    <3>1. CASE sess' = sess
      BY <3>1 DEF SameExits
    <3>2. ASSUME AtLeaf # NoLeaf, NEW r, sess' = [sess EXCEPT ![AtLeaf] = r],
                 r \in {OnCredit(sess[AtLeaf], Frame.n), AfterData(sess[AtLeaf]), AfterResize(sess[AtLeaf])}
          PROVE  SameExits
      <4>1. AtLeaf \in Leaf
        <5>1. At # {} => order[batch.at] \in Conn
          BY <1>0, <2>1, AtSeated
        <5> QED
          BY <1>0, <3>2, <5>1 DEF AtLeaf, TypeOK, ClientRecs
      <4>2. sess[AtLeaf] \in Sessions
        BY <1>0, <4>1 DEF TypeOK
      <4>3. r.childExit = sess[AtLeaf].childExit
        BY <3>2, <4>2, SessionExit
      <4> QED
        BY <1>0, <3>2, <4>1, <4>3 DEF SameExits, TypeOK
    <3> QED
      BY <1>2, <3>1, <3>2 DEF DispatchIgnored, DispatchCredit, DispatchData, DispatchResize
  <2>4. ReadsLive'
    BY <1>0, <2>1, <2>3 DEF QueueInv, ReadsLive, SameExits, TypeOK
  <2> QED
    BY <1>0, <2>1, <2>2, <2>3, <2>4, QueuesKept
<1>3. CASE DispatchUnattached
  <2>0. Dispatching /\ UNCHANGED <<pc, readable, wire, mirror>>
    BY <1>3 DEF DispatchUnattached, Dispatching
  <2>1. CASE UNCHANGED <<daemonVars, st>>
    <3>1. SameExits
      BY <2>1 DEF SameExits
    <3>2. ReadsLive'
      BY <1>0, <2>0, <2>1 DEF QueueInv, ReadsLive
    <3> QED
      BY <1>0, <2>0, <2>1, <3>1, <3>2, QueuesKept
  <2>2. CASE At # {} /\ DropClient(batch.at)
    BY <1>0, <2>0, <2>2, AtSeated, DropQueues
  <2> QED
    BY <1>3, <2>1, <2>2 DEF DispatchUnattached
<1> QED
  BY <1>1, <1>2, <1>3 DEF DispatchFrame

LEMMA PollReadQueues ==
  ASSUME TypeOK, QueuesTyped, QueueInv, Poll \/ ReadClient
  PROVE  QueuesTyped' /\ QueueInv'
<1> USE DEF daemonVars, clientVars
<1>1. CASE Poll
  <2>1. /\ UNCHANGED <<wire, outbox, outbound, mirror, cl, st, sess>>
        /\ pc' = "io" /\ \A l \in readable' : ~ sess[l].childExit
    BY <1>1 DEF Poll, Readable
  <2>2. SameExits /\ ReadsLive'
    BY <2>1 DEF SameExits, ReadsLive
  <2> QED
    BY <2>1, <2>2, QueuesKept
<1>2. CASE ReadClient
  <2>1. PICK i \in ready : ReadFrames(i) \/ ReadMalformed(i) \/ ReadEof(i) \/ ReadWouldBlock(i)
    BY <1>2 DEF ReadClient
  <2>2. i \in Nat \ {0} /\ i <= Len(order) /\ Len(order) \in Nat
    BY <2>1, LenProperties DEF ReadFrames, ReadMalformed, ReadEof, ReadWouldBlock, AtSlot, TypeOK
  <2>3. i \in Slots
    BY <2>2 DEF Slots
  <2>4. CASE ReadFrames(i) \/ ReadWouldBlock(i)
    <3>1. UNCHANGED <<wire, outbox, outbound, mirror, cl, st, sess, pc, readable>>
      BY <2>4 DEF ReadFrames, ReadWouldBlock, AtSlot
    <3>2. SameExits /\ ReadsLive'
      BY <3>1 DEF SameExits, ReadsLive, QueueInv
    <3> QED
      BY <3>1, <3>2, QueuesKept
  <2>5. CASE ReadMalformed(i) \/ ReadEof(i)
    BY <2>3, <2>5, DropQueues DEF ReadMalformed, ReadEof, AtSlot
  <2> QED
    BY <2>1, <2>4, <2>5
<1> QED
  BY <1>1, <1>2

(* What flush_outbound takes for a client: its outbox, and behind it the      *)
(* session's queue or the control frames in it.                               *)
LEMMA QueuedParts ==
  ASSUME TypeOK, QueuesTyped, NEW c \in Conn
  PROVE  /\ Queued(c) \in Seq(OutFrames)
         /\ cl[c].leaf = NoLeaf => Queued(c) = outbox[c]
         /\ \A l \in Leaf : cl[c].leaf = l =>
              \E x \in {outbound[l], Control(outbound[l])} : Queued(c) = outbox[c] \o x
         /\ Room(c) \in 0 .. Len(Queued(c)) /\ Len(wire[c]) + Room(c) <= SockCap
<1>1. outbox[c] \in Seq(OutFrames) /\ wire[c] \in Seq(OutFrames) /\ cl[c].leaf \in Leaf \cup {NoLeaf}
  BY DEF QueuesTyped, TypeOK, ClientRecs
<1>2. cl[c].leaf = NoLeaf => Queued(c) = outbox[c]
  BY DEF Queued
<1>3. ASSUME NEW l \in Leaf, cl[c].leaf = l
      PROVE  \E x \in {outbound[l], Control(outbound[l])} : Queued(c) = outbox[c] \o x
  BY <1>3, LeafAssumption DEF Queued
<1>4. Queued(c) \in Seq(OutFrames)
  <2>1. CASE cl[c].leaf = NoLeaf
    BY <1>1, <1>2, <2>1
  <2>2. ASSUME NEW l \in Leaf, cl[c].leaf = l PROVE Queued(c) \in Seq(OutFrames)
    <3>1. PICK x \in {outbound[l], Control(outbound[l])} : Queued(c) = outbox[c] \o x
      BY <1>3, <2>2
    <3>2. outbound[l] \in Seq(OutFrames)
      BY DEF QueuesTyped
    <3>3. x \in Seq(OutFrames)
      BY <3>1, <3>2, OnlyTyped DEF Control
    <3> QED
      BY <1>1, <3>1, <3>3, ConcatProperties
  <2> QED
    BY <1>1, <2>1, <2>2
<1>5. Len(Queued(c)) \in Nat /\ Len(wire[c]) \in Nat /\ Len(wire[c]) <= SockCap /\ SockCap \in Nat
  BY <1>1, <1>4, LenProperties, BoundAssumption DEF QueuesTyped
<1>6. Room(c) \in 0 .. Len(Queued(c)) /\ Len(wire[c]) + Room(c) <= SockCap
  <2> DEFINE q == Len(Queued(c))
             w == Len(wire[c])
  <2>1. Room(c) = IF SockCap - w < q THEN SockCap - w ELSE q
    BY DEF Room
  <2>2. q \in Nat /\ w \in Nat /\ w <= SockCap /\ SockCap \in Nat
    BY <1>5
  <2> HIDE DEF q, w
  <2>3. Room(c) \in 0 .. q /\ w + Room(c) <= SockCap
    BY <2>1, <2>2
  <2> QED
    BY <2>3 DEF q, w
<1> QED
  BY <1>2, <1>3, <1>4, <1>6

(* What a flush does to one client that is still there after it. *)
FlushedTo(c) ==
  \/ wire'[c] = wire[c] /\ outbox'[c] = outbox[c]
  \/ /\ wire'[c] = wire[c] \o SubSeq(Queued(c), 1, Room(c))
     /\ outbox'[c] = SubSeq(Queued(c), Room(c) + 1, Len(Queued(c)))

LEMMA FlushSteps ==
  ASSUME TypeOK, QueuesTyped, Flush
  PROVE  /\ QueuesTyped' /\ SameExits
         /\ \A c \in Conn : \/ cl'[c] = cl[c] /\ st'[c] = st[c] /\ FlushedTo(c)
                            \/ cl'[c].leaf = NoLeaf /\ st'[c] = "closed"
         /\ \A l \in Leaf :
              /\ outbound'[l] \in {<<>>, Control(<<>>), Control(outbound[l]), Control(Control(outbound[l]))}
              /\ Clients(l) # {} => outbound'[l] = <<>>
<1>0. mirror' = mirror
  BY DEF Flush
<1>1. ASSUME NEW c \in Conn
      PROVE  /\ wire'[c] = IF Served(c) THEN wire[c] \o SubSeq(Queued(c), 1, Room(c)) ELSE wire[c]
             /\ Unwritten[c] = IF Served(c) THEN SubSeq(Queued(c), Room(c) + 1, Len(Queued(c)))
                               ELSE outbox[c]
  BY DEF Flush, WrittenToSockets, Unwritten
<1>2. ASSUME NEW c \in Conn
      PROVE  /\ wire'[c] \in Seq(OutFrames) /\ Len(wire'[c]) <= SockCap
             /\ Unwritten[c] \in Seq(OutFrames)
  <2>0. wire[c] \in Seq(OutFrames) /\ outbox[c] \in Seq(OutFrames) /\ Len(wire[c]) <= SockCap
    BY DEF QueuesTyped
  <2>1. CASE Served(c)
    <3> DEFINE q == Queued(c)
               k == Room(c)
    <3>1. q \in Seq(OutFrames) /\ k \in 0 .. Len(q) /\ Len(wire[c]) + k <= SockCap
      BY QueuedParts
    <3>2. wire'[c] = wire[c] \o SubSeq(q, 1, k) /\ Unwritten[c] = SubSeq(q, k + 1, Len(q))
      BY <1>1, <2>1
    <3> HIDE DEF q, k
    <3>3. /\ SubSeq(q, 1, k) \in Seq(OutFrames) /\ Len(SubSeq(q, 1, k)) = k
          /\ SubSeq(q, k + 1, Len(q)) \in Seq(OutFrames)
      BY <3>1, SplitSeq
    <3>4. /\ wire[c] \o SubSeq(q, 1, k) \in Seq(OutFrames)
          /\ Len(wire[c] \o SubSeq(q, 1, k)) = Len(wire[c]) + k
      BY <2>0, <3>3, ConcatProperties
    <3> QED
      BY <3>1, <3>2, <3>3, <3>4
  <2>2. CASE ~ Served(c)
    BY <1>1, <2>0, <2>2
  <2> QED
    BY <2>1, <2>2
<1>3. wire' \in [Conn -> Seq(OutFrames)] /\ Unwritten \in [Conn -> Seq(OutFrames)]
  <2>1. /\ wire' = [c \in Conn |-> wire'[c]]
        /\ Unwritten = [c \in Conn |-> Unwritten[c]]
    BY DEF Flush, WrittenToSockets, Unwritten
  <2> QED
    BY <1>2, <2>1
<1>4. ASSUME NEW l \in Leaf
      PROVE  /\ Popped[l] = IF Clients(l) = {} THEN Control(outbound[l]) ELSE <<>>
             /\ Popped[l] \in Seq(OutFrames) /\ Control(Popped[l]) \in Seq(OutFrames)
  <2>1. Popped[l] = IF Clients(l) = {} THEN Control(outbound[l]) ELSE <<>>
    BY DEF Popped
  <2>2. outbound[l] \in Seq(OutFrames) /\ <<>> \in Seq(OutFrames)
    BY EmptySeq DEF QueuesTyped
  <2>3. Popped[l] \in Seq(OutFrames)
    BY <2>1, <2>2, OnlyTyped DEF Control
  <2> QED
    BY <2>1, <2>3, OnlyTyped DEF Control
<1>5. Popped = [l \in Leaf |-> Popped[l]]
  BY DEF Popped
<1>6. Control(<<>>) = <<>>
  BY OnlyEmpty DEF Control
<1>7. CASE UNCHANGED <<order, cl, sess, st>> /\ outbox' = Unwritten /\ outbound' = Popped
  <2>1. outbound' \in [Leaf -> Seq(OutFrames)]
    BY <1>4, <1>5, <1>7
  <2>2. QueuesTyped'
    BY <1>0, <1>2, <1>3, <1>7, <2>1 DEF QueuesTyped
  <2>3. SameExits
    BY <1>7 DEF SameExits
  <2>4. \A c \in Conn : FlushedTo(c)
    BY <1>1, <1>7 DEF FlushedTo
  <2> QED
    BY <1>4, <1>7, <2>2, <2>3, <2>4
<1>8. ASSUME NEW i \in DOMAIN order, Forget(i),
             outbox' = [Unwritten EXCEPT ![order[i]] = <<>>],
             sess' = SessAfterDrop(order[i]),
             outbound' = OutboundAfterDrop(order[i], Popped)
      PROVE  /\ QueuesTyped' /\ SameExits
             /\ \A c \in Conn : \/ cl'[c] = cl[c] /\ st'[c] = st[c] /\ FlushedTo(c)
                                \/ cl'[c].leaf = NoLeaf /\ st'[c] = "closed"
             /\ \A l \in Leaf :
                  /\ outbound'[l] \in {<<>>, Control(<<>>), Control(outbound[l]), Control(Control(outbound[l]))}
                  /\ Clients(l) # {} => outbound'[l] = <<>>
  <2> DEFINE d == order[i]
  <2>1. d \in Conn
    BY LenProperties, ElementOfSeq DEF TypeOK
  <2>2. SameExits
    BY <1>8, DropExits
  <2>3. /\ cl'[d].leaf = NoLeaf /\ st'[d] = "closed"
        /\ \A c \in Conn \ {d} : cl'[c] = cl[c] /\ st'[c] = st[c]
    BY <1>8, <2>1 DEF Forget, TypeOK, Accepted
  <2>4. \A c \in Conn \ {d} : outbox'[c] = Unwritten[c]
    BY <1>3, <1>8, <2>1
  <2>5. \A c \in Conn \ {d} : FlushedTo(c)
    BY <1>1, <2>4 DEF FlushedTo
  <2>6. outbox' \in [Conn -> Seq(OutFrames)]
    BY <1>3, <1>8, <2>1, EmptySeq
  <2>7. \A l \in Leaf : outbound'[l] \in {Popped[l], Control(Popped[l])}
    BY <1>8 DEF OutboundAfterDrop
  <2>8. outbound' = [l \in Leaf |-> outbound'[l]]
    BY <1>8 DEF OutboundAfterDrop
  <2>9. \A l \in Leaf : outbound'[l] \in Seq(OutFrames)
    BY <1>4, <2>7
  <2>10. QueuesTyped'
    BY <1>0, <1>2, <1>3, <2>6, <2>8, <2>9 DEF QueuesTyped
  <2>11. ASSUME NEW l \in Leaf
         PROVE  /\ outbound'[l] \in {<<>>, Control(<<>>), Control(outbound[l]), Control(Control(outbound[l]))}
                /\ Clients(l) # {} => outbound'[l] = <<>>
    BY <1>4, <1>6, <2>7
  <2> QED
    BY <2>2, <2>3, <2>5, <2>10, <2>11
<1> QED
  BY <1>7, <1>8 DEF Flush

LEMMA FlushQueues ==
  ASSUME TypeOK, QueuesTyped, QueueInv, Flush
  PROVE  QueuesTyped' /\ QueueInv'
<1>1. QueuesTyped' /\ SameExits
  BY FlushSteps
<1>2. ASSUME NEW c \in Conn
      PROVE  \/ cl'[c] = cl[c] /\ st'[c] = st[c] /\ FlushedTo(c)
             \/ cl'[c].leaf = NoLeaf /\ st'[c] = "closed"
  BY FlushSteps
<1>3. UNCHANGED <<readable, mirror>> /\ readable = {}
  BY DEF Flush
<1>4. ReadsLive'
  BY <1>3 DEF ReadsLive
<1>5. ASSUME NEW l \in Leaf
      PROVE  /\ outbound[l] \in Seq(OutFrames) /\ Control(outbound[l]) \in Seq(OutFrames)
             /\ Exited(Control(outbound[l])) => Exited(outbound[l])
             /\ NoLive(outbound[l]) => NoLive(Control(outbound[l]))
             /\ ExitEnds(outbound[l]) => ExitEnds(Control(outbound[l]))
  <2>1. outbound[l] \in Seq(OutFrames)
    BY DEF QueuesTyped
  <2> QED
    BY <2>1, OnlyTyped, OnlyOrdered DEF Control
<1>6. ASSUME NEW l \in Leaf PROVE LeafQueue(l)'
  <2>1. outbound'[l] \in {<<>>, Control(<<>>), Control(outbound[l]), Control(Control(outbound[l]))}
    BY FlushSteps
  <2>2. /\ Exited(Control(Control(outbound[l]))) => Exited(Control(outbound[l]))
        /\ ExitEnds(Control(outbound[l])) => ExitEnds(Control(Control(outbound[l])))
    BY <1>5, OnlyOrdered DEF Control
  <2>3. Control(<<>>) = <<>>
    BY OnlyEmpty DEF Control
  <2>4. LeafQueue(l)
    BY DEF QueueInv
  <2>5. (Exited(outbound'[l]) => Exited(outbound[l])) /\ ExitEnds(outbound'[l])
    BY <1>5, <2>1, <2>2, <2>3, <2>4, EmptyQueue DEF LeafQueue
  <2> QED
    BY <1>1, <2>4, <2>5 DEF LeafQueue, SameExits
<1>7. ASSUME NEW c \in Conn
      PROVE  LET q == SubSeq(Queued(c), 1, Room(c))
                 r == SubSeq(Queued(c), Room(c) + 1, Len(Queued(c)))
             IN  q \in Seq(OutFrames) /\ r \in Seq(OutFrames) /\ q \o r = Queued(c)
  <2> DEFINE u == Queued(c)
             k == Room(c)
  <2>1. u \in Seq(OutFrames) /\ k \in 0 .. Len(u)
    BY QueuedParts
  <2> HIDE DEF u, k
  <2>2. LET q == SubSeq(u, 1, k)
            r == SubSeq(u, k + 1, Len(u))
        IN  q \in Seq(OutFrames) /\ r \in Seq(OutFrames) /\ q \o r = u
    BY <2>1, SplitSeq
  <2> QED
    BY <2>2 DEF u, k
<1>8. ASSUME NEW l \in Leaf, NEW c \in Clients(l)' PROVE ClientQueue(c, l)'
  <2>1. c \in Conn /\ cl'[c].leaf = l /\ l # NoLeaf
    BY LeafAssumption DEF Clients
  <2>2. c \in Clients(l) /\ FlushedTo(c)
    BY <1>2, <2>1 DEF Clients
  <2>3. ClientQueue(c, l) /\ LeafQueue(l)
    BY <2>2 DEF QueueInv
  <2>4. outbound'[l] = <<>>
    BY <2>2, FlushSteps
  <2>5. wire[c] \in Seq(OutFrames) /\ outbox[c] \in Seq(OutFrames)
    BY <2>1 DEF QueuesTyped
  <2>6. (Told(c)' => sess[l].childExit) /\ InOrder(mirror[c].exit, wire'[c], outbox'[c], <<>>)
    <3>1. CASE wire'[c] = wire[c] /\ outbox'[c] = outbox[c]
      <4>1. NoLive(<<>>) /\ ExitEnds(<<>>)
        BY EmptyQueue
      <4>2. InOrder(mirror[c].exit, wire[c], outbox[c], <<>>)
        BY <2>3, <4>1, Zenon DEF ClientQueue, InOrder
      <4> QED
        BY <1>3, <2>3, <3>1, <4>2 DEF ClientQueue, Told
    <3>2. CASE /\ wire'[c] = wire[c] \o SubSeq(Queued(c), 1, Room(c))
               /\ outbox'[c] = SubSeq(Queued(c), Room(c) + 1, Len(Queued(c)))
      <4> DEFINE q == SubSeq(Queued(c), 1, Room(c))
                 r == SubSeq(Queued(c), Room(c) + 1, Len(Queued(c)))
      <4>1. PICK x \in {outbound[l], Control(outbound[l])} : Queued(c) = outbox[c] \o x
        BY <2>1, <2>2, QueuedParts DEF Clients
      <4>2. q \in Seq(OutFrames) /\ r \in Seq(OutFrames) /\ q \o r = outbox[c] \o x
        BY <1>7, <2>1, <4>1
      <4>3. /\ x \in Seq(OutFrames)
            /\ Exited(x) => Exited(outbound[l])
            /\ NoLive(outbound[l]) => NoLive(x)
            /\ ExitEnds(x)
        BY <1>5, <2>3, <4>1 DEF LeafQueue
      <4>4. wire'[c] = wire[c] \o q /\ outbox'[c] = r
        BY <3>2
      <4>5. InOrder(mirror[c].exit, wire[c], outbox[c], outbound[l])
        BY <2>3 DEF ClientQueue
      <4> HIDE DEF q, r
      <4>6. /\ Exited(wire[c] \o q) \/ Exited(r) => Exited(wire[c]) \/ Exited(outbox[c]) \/ Exited(outbound[l])
            /\ InOrder(mirror[c].exit, wire[c] \o q, r, <<>>)
        BY <2>5, <4>2, <4>3, <4>5, FlushOrder, ZenonT(30)
      <4> QED
        BY <1>3, <2>3, <4>4, <4>6 DEF ClientQueue, LeafQueue, Told
    <3> QED
      BY <2>2, <3>1, <3>2 DEF FlushedTo
  <2> QED
    BY <1>1, <1>3, <2>1, <2>4, <2>6 DEF ClientQueue, SameExits
<1>9. ASSUME NEW c \in Conn, cl'[c].leaf = NoLeaf, st'[c] # "closed" PROVE Blank(c)'
  <2>1. cl[c].leaf = NoLeaf /\ st[c] # "closed" /\ FlushedTo(c)
    BY <1>2, <1>9
  <2>2. Blank(c)
    BY <2>1 DEF QueueInv
  <2>3. CASE wire'[c] = wire[c] /\ outbox'[c] = outbox[c]
    BY <1>3, <2>2, <2>3 DEF Blank, Told
  <2>4. CASE /\ wire'[c] = wire[c] \o SubSeq(Queued(c), 1, Room(c))
             /\ outbox'[c] = SubSeq(Queued(c), Room(c) + 1, Len(Queued(c)))
    <3> DEFINE q == SubSeq(Queued(c), 1, Room(c))
               r == SubSeq(Queued(c), Room(c) + 1, Len(Queued(c)))
    <3>1. q \in Seq(OutFrames) /\ r \in Seq(OutFrames) /\ q \o r = outbox[c]
      BY <1>7, <2>1, QueuedParts
    <3>2. wire'[c] = wire[c] \o q /\ outbox'[c] = r /\ wire[c] \in Seq(OutFrames)
      BY <2>4 DEF QueuesTyped
    <3> HIDE DEF q, r
    <3>3. /\ Exited(q \o r) <=> Exited(q) \/ Exited(r)
          /\ NoLive(q \o r) <=> NoLive(q) /\ NoLive(r)
          /\ Exited(wire[c] \o q) <=> Exited(wire[c]) \/ Exited(q)
          /\ NoLive(wire[c] \o q) <=> NoLive(wire[c]) /\ NoLive(q)
      BY <3>1, <3>2, JoinedQueues
    <3> QED
      BY <1>3, <2>2, <3>1, <3>2, <3>3 DEF Blank, Told
  <2> QED
    BY <2>1, <2>3, <2>4 DEF FlushedTo
<1> QED
  BY <1>1, <1>4, <1>6, <1>8, <1>9 DEF QueueInv

LEMMA ShownTyped ==
  ASSUME NEW m \in Mirrors, NEW f \in OutFrames
  PROVE  /\ Shown(m, f) \in Mirrors
         /\ Shown(m, f).exit <=> m.exit \/ f.t = "Exit"
<1>1. CASE f \in [t : LiveKinds, from : Nat, to : Nat]
  <2>1. f.t \in {"Data", "Delta"} /\ f.to \in Nat /\ f.t # "Exit"
    BY <1>1 DEF LiveKinds
  <2>2. Shown(m, f) = [m EXCEPT !.torn = @ \/ f.from # m.pos, !.pos = f.to]
    BY <2>1 DEF Shown
  <2>3. (m.torn \/ f.from # m.pos) \in BOOLEAN
    BY DEF Mirrors
  <2>4. [m EXCEPT !.torn = @ \/ f.from # m.pos, !.pos = f.to] \in Mirrors
    BY <2>1, <2>3, Zenon DEF Mirrors
  <2>5. [m EXCEPT !.torn = @ \/ f.from # m.pos, !.pos = f.to].exit = m.exit
    BY DEF Mirrors
  <2> QED
    BY <2>1, <2>2, <2>4, <2>5
<1>2. CASE f \in [t : {"Paint", "Checkpoint"}, upto : Nat]
  <2>1. f.t \in {"Paint", "Checkpoint"} /\ f.upto \in Nat /\ f.t # "Exit"
    BY <1>2
  <2>2. Shown(m, f) = [m EXCEPT !.torn = FALSE, !.pos = f.upto]
    BY <2>1 DEF Shown
  <2> QED
    BY <2>1, <2>2 DEF Mirrors
<1>3. CASE f \in [t : {"Exit"}]
  <2>1. Shown(m, f) = [m EXCEPT !.exit = TRUE] /\ f.t = "Exit"
    BY <1>3 DEF Shown
  <2> QED
    BY <2>1 DEF Mirrors
<1>4. CASE f \in [t : {"Refused"}, reason : Reasons]
  <2>1. Shown(m, f) = [m EXCEPT !.refused = TRUE] /\ f.t = "Refused"
    BY <1>4 DEF Shown
  <2> QED
    BY <2>1 DEF Mirrors
<1> QED
  BY <1>1, <1>2, <1>3, <1>4 DEF OutFrames

(* A client that takes a frame off its socket. *)
LEMMA RecvQueues ==
  ASSUME TypeOK, QueuesTyped, QueueInv, NEW c \in Conn, ClientRecv(c)
  PROVE  QueuesTyped' /\ QueueInv'
<1> USE DEF daemonVars, loopVars
<1> DEFINE w == wire[c]
           f == Head(w)
           t == Tail(w)
<1>1. /\ wire' = [wire EXCEPT ![c] = <<>>] \/ wire' = [wire EXCEPT ![c] = t]
      /\ mirror' = [mirror EXCEPT ![c] = Shown(mirror[c], f)]
      /\ UNCHANGED <<cl, sess, outbox, outbound, pc, readable>>
      /\ st' = st \/ (st[c] = "open" /\ st' = [st EXCEPT ![c] = "eof"])
  BY DEF ClientRecv
<1>2. w \in Seq(OutFrames) /\ w # <<>> /\ mirror[c] \in Mirrors /\ Len(w) <= SockCap
  BY DEF QueuesTyped, ClientRecv
<1> HIDE DEF w
<1>3. f \in OutFrames /\ t \in Seq(OutFrames) /\ Len(t) = Len(w) - 1 /\ Len(w) \in Nat \ {0}
  BY <1>2, PopTyped
<1>4. w = <<f>> \o t
  BY <1>2
<1>5. Shown(mirror[c], f) \in Mirrors /\ (Shown(mirror[c], f).exit <=> mirror[c].exit \/ f.t = "Exit")
  BY <1>2, <1>3, ShownTyped
<1> HIDE DEF f, t
<1>6. /\ mirror'[c].exit <=> mirror[c].exit \/ f.t = "Exit"
      /\ \A d \in Conn \ {c} : mirror'[d] = mirror[d] /\ wire'[d] = wire[d]
      /\ wire'[c] \in {<<>>, t}
  BY <1>1, <1>5 DEF QueuesTyped
<1>7. QueuesTyped'
  <2>1. mirror' \in [Conn -> Mirrors]
    BY <1>1, <1>5 DEF QueuesTyped
  <2>2. wire' \in [Conn -> Seq(OutFrames)]
    <3>1. wire \in [Conn -> Seq(OutFrames)] /\ <<>> \in Seq(OutFrames)
      BY EmptySeq DEF QueuesTyped
    <3>2. \A v \in Seq(OutFrames) : [wire EXCEPT ![c] = v] \in [Conn -> Seq(OutFrames)]
      BY <3>1
    <3> QED
      BY <1>1, <1>3, <3>1, <3>2
  <2>3. Len(<<>>) = 0 /\ 0 <= SockCap /\ Len(t) <= SockCap
    BY <1>2, <1>3, BoundAssumption
  <2>4. \A d \in Conn : Len(wire'[d]) <= SockCap
    BY <1>6, <2>3 DEF QueuesTyped
  <2> QED
    BY <1>1, <2>1, <2>2, <2>4 DEF QueuesTyped
<1>8. <<f>> \in Seq(OutFrames) /\ (Exited(<<f>>) <=> f.t = "Exit") /\ (NoLive(<<f>>) <=> f.t \notin LiveKinds)
  BY <1>3, OneTyped
<1>9. /\ Exited(w) <=> Exited(<<f>>) \/ Exited(t)
      /\ NoLive(w) <=> NoLive(<<f>>) /\ NoLive(t)
      /\ ExitEnds(w) <=> ExitEnds(<<f>>) /\ ExitEnds(t) /\ (Exited(<<f>>) => NoLive(t))
  BY <1>3, <1>4, <1>8, JoinedQueues
<1>10. /\ Exited(wire'[c]) => Exited(t)
       /\ NoLive(t) => NoLive(wire'[c])
       /\ ExitEnds(t) => ExitEnds(wire'[c])
  BY <1>6, EmptyQueue
<1>11. \A d \in Conn : (Told(d)' => Told(d)) /\ (Blank(d) => Blank(d)')
  <2>1. \A d \in Conn \ {c} : (Told(d)' <=> Told(d)) /\ (Blank(d)' <=> Blank(d))
    BY <1>1, <1>6 DEF Told, Blank
  <2>2. Told(c)' => Told(c)
    BY <1>1, <1>6, <1>8, <1>9, <1>10 DEF Told, w
  <2>3. Blank(c) => Blank(c)'
    BY <1>1, <1>9, <1>10, <2>2 DEF Blank, w
  <2> QED
    BY <2>1, <2>2, <2>3
<1>12. ReadsLive' /\ \A l \in Leaf : LeafQueue(l)'
  BY <1>1 DEF QueueInv, ReadsLive, LeafQueue
<1>13. ASSUME NEW l \in Leaf, NEW d \in Clients(l)' PROVE ClientQueue(d, l)'
  <2>1. d \in Conn /\ d \in Clients(l)
    BY <1>1 DEF Clients
  <2>2. ClientQueue(d, l)
    BY <2>1 DEF QueueInv
  <2>3. CASE d # c
    BY <1>1, <1>6, <2>1, <2>2, <2>3 DEF ClientQueue, Told
  <2>4. CASE d = c
    <3>1. InOrder(mirror[c].exit, w, outbox[c], outbound[l])
      BY <2>2, <2>4 DEF ClientQueue, w
    <3>2. InOrder(mirror'[c].exit, wire'[c], outbox[c], outbound[l])
      BY <1>6, <1>8, <1>9, <1>10, <3>1, ZenonT(30) DEF InOrder
    <3> QED
      BY <1>1, <1>11, <2>1, <2>2, <2>4, <3>2 DEF ClientQueue
  <2> QED
    BY <2>3, <2>4
<1>14. \A d \in Conn : cl'[d].leaf = NoLeaf /\ st'[d] # "closed" => Blank(d)'
  BY <1>1, <1>11 DEF QueueInv, TypeOK
<1> QED
  BY <1>7, <1>12, <1>13, <1>14 DEF QueueInv

LEMMA CloseQueues ==
  ASSUME TypeOK, QueuesTyped, QueueInv, NEW c \in Conn, Close(c)
  PROVE  QueuesTyped' /\ QueueInv'
<1> USE DEF daemonVars, loopVars
<1>1. /\ wire' = [wire EXCEPT ![c] = <<>>] /\ st' = [st EXCEPT ![c] = "eof"] /\ st[c] = "open"
      /\ UNCHANGED <<cl, sess, outbox, outbound, pc, readable, mirror>>
  BY DEF Close
<1>2. wire'[c] = <<>> /\ \A d \in Conn \ {c} : wire'[d] = wire[d]
  BY <1>1 DEF QueuesTyped
<1>3. ~ Exited(<<>>) /\ NoLive(<<>>) /\ ExitEnds(<<>>) /\ Len(<<>>) = 0 /\ 0 <= SockCap
  BY EmptyQueue, BoundAssumption
<1>4. QueuesTyped'
  <2>1. wire' \in [Conn -> Seq(OutFrames)]
    BY <1>1, EmptySeq DEF QueuesTyped
  <2>2. \A d \in Conn : Len(wire'[d]) <= SockCap
    BY <1>2, <1>3 DEF QueuesTyped
  <2> QED
    BY <1>1, <2>1, <2>2 DEF QueuesTyped
<1>5. \A d \in Conn : (Told(d)' => Told(d)) /\ (Blank(d) => Blank(d)')
  BY <1>1, <1>2, <1>3 DEF Told, Blank
<1>6. ReadsLive' /\ \A l \in Leaf : LeafQueue(l)'
  BY <1>1 DEF QueueInv, ReadsLive, LeafQueue
<1>7. ASSUME NEW l \in Leaf, NEW d \in Clients(l)' PROVE ClientQueue(d, l)'
  <2>1. d \in Conn /\ d \in Clients(l)
    BY <1>1 DEF Clients
  <2>2. ClientQueue(d, l)
    BY <2>1 DEF QueueInv
  <2>3. InOrder(mirror[d].exit, wire'[d], outbox[d], outbound[l])
    BY <1>2, <1>3, <2>1, <2>2 DEF ClientQueue, InOrder
  <2> QED
    BY <1>1, <1>5, <2>1, <2>2, <2>3 DEF ClientQueue
<1>8. \A d \in Conn : cl'[d].leaf = NoLeaf /\ st'[d] # "closed" => Blank(d)'
  BY <1>1, <1>5 DEF QueueInv, TypeOK
<1> QED
  BY <1>4, <1>6, <1>7, <1>8 DEF QueueInv

LEMMA EnvironmentQueues ==
  ASSUME TypeOK, QueuesTyped, QueueInv,
         \/ \E c \in Conn : Connect(c) \/ Greet(c) \/ Close(c) \/ ClientRecv(c)
         \/ \E c \in Conn, f \in InFrames \cup {Data} : Send(c, f)
         \/ \E l \in Leaf : ChildWrite(l) \/ ChildExit(l) \/ LeaseDue(l)
         \/ UNCHANGED vars
  PROVE  QueuesTyped' /\ QueueInv'
<1> USE DEF daemonVars, loopVars, clientVars, childVars
<1>1. CASE \E c \in Conn : Close(c) \/ ClientRecv(c)
  BY <1>1, CloseQueues, RecvQueues
<1>2. ASSUME UNCHANGED <<wire, outbox, outbound, mirror, cl, pc, readable>>, SameExits,
             \A c \in Conn : st[c] = "closed" => st'[c] = "closed"
      PROVE  QueuesTyped' /\ QueueInv'
  <2>1. ReadsLive'
    BY <1>2 DEF QueueInv, ReadsLive, SameExits, TypeOK
  <2> QED
    BY <1>2, <2>1, QueuesKept
<1>3. ASSUME NEW c \in Conn, Connect(c) PROVE QueuesTyped' /\ QueueInv'
  BY <1>2, <1>3 DEF Connect, SameExits, TypeOK
<1>4. ASSUME NEW l \in Leaf, LeaseDue(l) PROVE QueuesTyped' /\ QueueInv'
  <2>1. sess[l] \in Sessions /\ sess' = [sess EXCEPT ![l] = [sess[l] EXCEPT !.until = "due"]]
    BY <1>4 DEF LeaseDue, TypeOK
  <2>2. SameExits
    BY <2>1, SessionExit DEF SameExits, TypeOK
  <2> QED
    BY <1>2, <1>4, <2>2 DEF LeaseDue
<1>5. CASE UNCHANGED <<sess, wire, outbox, outbound, mirror, cl, pc, readable, st>>
  BY <1>2, <1>5 DEF SameExits
<1>6. \/ \E c \in Conn : Close(c) \/ ClientRecv(c) \/ Connect(c)
      \/ \E l \in Leaf : LeaseDue(l)
      \/ UNCHANGED <<sess, wire, outbox, outbound, mirror, cl, pc, readable, st>>
  BY DEF Greet, Send, ChildWrite, ChildExit, vars
<1> QED
  BY <1>1, <1>3, <1>4, <1>5, <1>6

LEMMA InitQueues == Init => QueueIInv
<1> SUFFICES ASSUME Init PROVE QueueIInv
  OBVIOUS
<1>1. ~ Exited(<<>>) /\ NoLive(<<>>) /\ ExitEnds(<<>>) /\ Len(<<>>) = 0 /\ 0 <= SockCap
      /\ <<>> \in Seq(OutFrames)
  BY EmptyQueue, EmptySeq, BoundAssumption
<1>2. [pos |-> 0, torn |-> FALSE, exit |-> FALSE, refused |-> FALSE] \in Mirrors
  BY DEF Mirrors
<1>3. QueuesTyped
  BY <1>1, <1>2 DEF Init, QueuesTyped
<1>4. \A c \in Conn : Blank(c)
  BY <1>1 DEF Init, Blank, Told
<1>5. \A l \in Leaf : LeafQueue(l) /\ Clients(l) = {}
  BY <1>1, LeafAssumption DEF Init, LeafQueue, Clients, Accepted
<1>6. QueueInv
  BY <1>4, <1>5 DEF Init, QueueInv, ReadsLive
<1> QED
  BY <1>3, <1>6, InitClaim, InitTable DEF QueueIInv

LEMMA NextQueues ==
  ASSUME "late" \notin Freedom
  PROVE  QueueIInv /\ [Next]_vars => QueueIInv'
<1> SUFFICES ASSUME QueueIInv, [Next]_vars PROVE QueueIInv'
  OBVIOUS
<1>0. TypeOK /\ QueuesTyped /\ QueueInv
  BY DEF QueueIInv, TableIInv
<1>1. ClaimIInv' /\ TableIInv'
  BY NextClaim, NextTable DEF QueueIInv
<1>2. CASE DaemonStep
  BY <1>0, <1>1, <1>2, ReapQueues, PollReadQueues, DispatchQueues, DrainQueues, FlushQueues,
     ResyncQueues DEF DaemonStep, QueueIInv
<1>3. CASE ~ DaemonStep
  BY <1>0, <1>1, <1>3, EnvironmentQueues DEF Next, QueueIInv
<1> QED
  BY <1>2, <1>3

LEMMA QueueSound == QueueIInv => ExitLast
<1> SUFFICES ASSUME QueueIInv, NEW l \in Leaf, NEW c \in Clients(l), mirror[c].exit
             PROVE  Live(Pending(c, l)) = <<>>
  BY DEF ExitLast
<1>1. /\ c \in Conn /\ wire[c] \in Seq(OutFrames) /\ outbox[c] \in Seq(OutFrames)
      /\ outbound[l] \in Seq(OutFrames)
  BY DEF Clients, QueueIInv, QueuesTyped
<1>2. NoLive(wire[c]) /\ NoLive(outbox[c]) /\ NoLive(outbound[l])
  BY DEF QueueIInv, QueueInv, ClientQueue, InOrder
<1>3. wire[c] \o outbox[c] \in Seq(OutFrames) /\ NoLive(wire[c] \o outbox[c])
  BY <1>1, <1>2, JoinedQueues, ConcatProperties
<1>4. Pending(c, l) \in Seq(OutFrames) /\ NoLive(Pending(c, l))
  BY <1>1, <1>2, <1>3, JoinedQueues, ConcatProperties DEF Pending, InFlight
<1> QED
  BY <1>4, LiveEmpty

(* As long as ATTACH is the first frame of its connection, a client that has  *)
(* been told of its child's death has no live output still to come, in its    *)
(* socket, its outbox or the session's queue, whichever way the bytes went:   *)
(* fanned out or queued, flushed in parts, across detach, reattach and write  *)
(* errors (poll_child, read_pty, fanout_pty_bytes, flush_outbound).           *)
THEOREM ExitLastHolds ==
  ASSUME "late" \notin Freedom
  PROVE  Spec => []ExitLast
<1>1. Init => QueueIInv
  BY InitQueues
<1>2. QueueIInv /\ [Next]_vars => QueueIInv'
  BY NextQueues
<1>3. QueueIInv => ExitLast
  BY QueueSound
<1> QED
  BY <1>1, <1>2, <1>3, PTL DEF Spec

-----------------------------------------------------------------------------
(* The inductive invariant of WriterUnbroken.                                 *)

(* Chunks of output that adjoin each other and end at byte n. *)
Joined(s, n) ==
  s # <<>> => s[Len(s)].to = n /\ \A i \in 1 .. Len(s) - 1 : s[i].to = s[i + 1].from
Owed(c) == Live(wire[c]) \o Live(outbox[c])
WorkerInv ==
  /\ \A l \in Leaf : NoLive(outbound[l])
  /\ \A l \in Leaf : \A c \in Protocol1Writers(l) : Joined(Owed(c), sess[l].delivered)

LEMMA LiveJoins ==
  ASSUME NEW s \in Seq(OutFrames), NEW t \in Seq(OutFrames)
  PROVE  Live(s) \in Seq(OutFrames) /\ Live(s \o t) = Live(s) \o Live(t)
<1>1. Live(s) \in Seq(OutFrames)
  BY OnlyTyped DEF Live
<1>2. Live(s \o t) = Live(s) \o Live(t)
  <2> DEFINE K == {"Data", "Delta"}
  <2>1. \A u : Live(u) = Only(u, K)
    BY DEF Live
  <2> HIDE DEF K
  <2>2. Only(s \o t, K) = Only(s, K) \o Only(t, K)
    BY OnlyConcat
  <2> QED
    BY <2>1, <2>2
<1> QED
  BY <1>1, <1>2

LEMMA FramesAssociate ==
  ASSUME NEW a \in Seq(OutFrames), NEW b \in Seq(OutFrames), NEW o \in Seq(OutFrames)
  PROVE  (a \o b) \o o = a \o (b \o o) /\ b \o o \in Seq(OutFrames)
<1> DEFINE T == OutFrames
<1>1. a \in Seq(T) /\ b \in Seq(T) /\ o \in Seq(T)
  OBVIOUS
<1> HIDE DEF T
<1>2. (a \o b) \o o = a \o (b \o o)
  BY <1>1, ConcatAssociative
<1>3. b \o o \in Seq(T)
  BY <1>1, ConcatProperties
<1> QED
  BY <1>2, <1>3 DEF T

LEMMA JoinedSuffix ==
  ASSUME NEW a \in Seq(OutFrames), NEW b \in Seq(OutFrames), NEW n, Joined(a \o b, n)
  PROVE  Joined(b, n)
<1> SUFFICES ASSUME b # <<>>
             PROVE  b[Len(b)].to = n /\ \A i \in 1 .. Len(b) - 1 : b[i].to = b[i + 1].from
  BY DEF Joined
<1> DEFINE p == Len(a)
           k == Len(b)
           u == a \o b
<1>1. p \in Nat /\ k \in Nat \ {0} /\ Len(u) = p + k
      /\ \A i \in 1 .. p + k : u[i] = IF i <= p THEN a[i] ELSE b[i - p]
  BY ConcatProperties, LenProperties, PopTyped
<1>2. u # <<>>
  <2>1. Len(<<>>) = 0 /\ Len(u) # 0
    BY <1>1
  <2> QED
    BY <2>1
<1> HIDE DEF p, k, u
<1>3. u[p + k].to = n /\ \A i \in 1 .. p + k - 1 : u[i].to = u[i + 1].from
  BY <1>1, <1>2, SMTT(30) DEF Joined, u
<1>4. ASSUME NEW i \in 1 .. k PROVE u[p + i] = b[i]
  <2>1. p + i \in 1 .. p + k /\ ~ (p + i <= p) /\ (p + i) - p = i
    BY <1>1
  <2> QED
    BY <1>1, <2>1
<1>5. b[k].to = n
  BY <1>1, <1>3, <1>4
<1>6. ASSUME NEW i \in 1 .. k - 1 PROVE b[i].to = b[i + 1].from
  <2>1. p + i \in 1 .. p + k - 1 /\ i \in 1 .. k /\ i + 1 \in 1 .. k /\ (p + i) + 1 = p + (i + 1)
    BY <1>1
  <2> QED
    BY <1>3, <1>4, <2>1
<1> QED
  BY <1>5, <1>6 DEF k

LEMMA JoinedAppend ==
  ASSUME NEW s \in Seq(OutFrames), NEW n, Joined(s, n), NEW f \in OutFrames, f.from = n
  PROVE  Joined(Append(s, f), f.to)
<1> DEFINE k == Len(s)
           u == Append(s, f)
<1>1. k \in Nat /\ Len(u) = k + 1 /\ u[k + 1] = f /\ \A i \in 1 .. k : u[i] = s[i]
  BY AppendIndex
<1>2. k # 0 => s # <<>>
  <2>1. Len(<<>>) = 0
    OBVIOUS
  <2> QED
    BY <2>1
<1> HIDE DEF u
<1>3. ASSUME NEW i \in 1 .. k PROVE u[i].to = u[i + 1].from
  <2>1. s # <<>>
    BY <1>1, <1>2
  <2>2. s[k].to = n /\ \A j \in 1 .. k - 1 : s[j].to = s[j + 1].from
    BY <2>1 DEF Joined
  <2> HIDE DEF k
  <2>3. CASE i = k
    BY <1>1, <2>2, <2>3
  <2>4. CASE i # k
    <3>1. i \in 1 .. k - 1 /\ i + 1 \in 1 .. k
      BY <1>1, <2>4
    <3> QED
      BY <1>1, <2>2, <3>1
  <2> QED
    BY <2>3, <2>4
<1> HIDE DEF k
<1>4. u[Len(u)].to = f.to /\ \A i \in 1 .. Len(u) - 1 : u[i].to = u[i + 1].from
  <2>1. Len(u) - 1 = k
    BY <1>1
  <2> QED
    BY <1>1, <1>3, <2>1
<1> QED
  BY <1>4 DEF Joined, u

(* The read positions stay; what a writer is owed stays or loses its front.   *)
LEMMA OwedKept ==
  ASSUME QueuesTyped, WorkerInv,
         \A l \in Leaf : sess'[l].delivered = sess[l].delivered,
         \A l \in Leaf : NoLive(outbound[l]) => NoLive(outbound'[l]),
         \A l \in Leaf : \A c \in Protocol1Writers(l)' :
           /\ c \in Protocol1Writers(l)
           /\ Owed(c)' \in Seq(OutFrames)
           /\ \E a \in Seq(OutFrames) : Owed(c) = a \o Owed(c)'
  PROVE  WorkerInv'
<1>1. \A l \in Leaf : NoLive(outbound'[l])
  BY DEF WorkerInv
<1>2. ASSUME NEW l \in Leaf, NEW c \in Protocol1Writers(l)' PROVE Joined(Owed(c)', sess'[l].delivered)
  <2>1. c \in Protocol1Writers(l) /\ Owed(c)' \in Seq(OutFrames)
    OBVIOUS
  <2>2. PICK a \in Seq(OutFrames) : Owed(c) = a \o Owed(c)'
    OBVIOUS
  <2>3. Joined(a \o Owed(c)', sess[l].delivered)
    BY <2>1, <2>2 DEF WorkerInv
  <2>4. Joined(Owed(c)', sess[l].delivered)
    BY <2>1, <2>3, JoinedSuffix
  <2> QED
    BY <2>4
<1> QED
  BY <1>1, <1>2 DEF WorkerInv

LEMMA OwedTyped ==
  ASSUME QueuesTyped, NEW c \in Conn
  PROVE  /\ Owed(c) \in Seq(OutFrames) /\ Owed(c) = <<>> \o Owed(c)
         /\ Owed(c) = Live(InFlight(c))
<1>1. wire[c] \in Seq(OutFrames) /\ outbox[c] \in Seq(OutFrames)
  BY DEF QueuesTyped
<1>2. Live(wire[c]) \in Seq(OutFrames) /\ Live(outbox[c]) \in Seq(OutFrames)
  BY <1>1, LiveJoins
<1>3. Owed(c) \in Seq(OutFrames)
  BY <1>2, ConcatProperties DEF Owed
<1>4. Owed(c) = <<>> \o Owed(c)
  BY <1>3, ConcatEmptySeq
<1>5. Owed(c) = Live(InFlight(c))
  BY <1>1, LiveJoins DEF Owed, InFlight
<1> QED
  BY <1>3, <1>4, <1>5

LEMMA MinLeast ==
  ASSUME NEW S \in SUBSET Nat, NEW y \in S
  PROVE  Min(S) <= y
<1>1. PICK x \in S : \A z \in S : ~ (<<z, x>> \in OpToRel(<, Nat))
  BY NatLessThanWellFounded, WFMin
<1>2. ASSUME NEW z \in S PROVE x <= z
  <2>1. z < x => <<z, x>> \in {ss \in Nat \X Nat : ss[1] < ss[2]}
    OBVIOUS
  <2>2. ~ (z < x)
    BY <1>1, <2>1 DEF OpToRel
  <2> QED
    BY <2>2
<1>3. Min(S) \in S /\ \A z \in S : Min(S) <= z
  BY <1>2 DEF Min
<1> QED
  BY <1>3

SameDelivered == \A l \in Leaf : sess'[l].delivered = sess[l].delivered
OwesSame(c) == wire'[c] = wire[c] /\ outbox'[c] = outbox[c]

LEMMA OwesSameKept ==
  ASSUME QueuesTyped, WorkerInv, SameDelivered,
         \A l \in Leaf : NoLive(outbound[l]) => NoLive(outbound'[l]),
         \A l \in Leaf : \A c \in Protocol1Writers(l)' : c \in Protocol1Writers(l) /\ OwesSame(c)
  PROVE  WorkerInv'
<1>1. ASSUME NEW l \in Leaf, NEW c \in Protocol1Writers(l)'
      PROVE  /\ c \in Protocol1Writers(l)
             /\ Owed(c)' \in Seq(OutFrames)
             /\ \E a \in Seq(OutFrames) : Owed(c) = a \o Owed(c)'
  <2>1. c \in Protocol1Writers(l) /\ c \in Conn
    BY DEF Protocol1Writers, Writers, Clients
  <2>2. Owed(c)' = Owed(c)
    BY DEF Owed, OwesSame
  <2>3. Owed(c) \in Seq(OutFrames) /\ Owed(c) = <<>> \o Owed(c) /\ <<>> \in Seq(OutFrames)
    BY <2>1, OwedTyped, EmptySeq
  <2> QED
    BY <2>1, <2>2, <2>3, Zenon
<1> QED
  BY <1>1, OwedKept DEF SameDelivered

LEMMA DropDelivered ==
  ASSUME TypeOK, NEW c, sess' = SessAfterDrop(c)
  PROVE  SameDelivered
<1> SUFFICES ASSUME NEW l \in Leaf PROVE sess'[l].delivered = sess[l].delivered
  BY DEF SameDelivered
<1>1. sess[l] \in Sessions
  BY DEF TypeOK
<1>2. sess'[l] \in {sess[l], ReleaseObserver(sess[l]), Detach(sess[l])}
  BY DEF SessAfterDrop
<1> QED
  BY <1>1, <1>2, SessionKeeps

LEMMA DropWorker ==
  ASSUME TypeOK, QueuesTyped, WorkerInv, NEW i \in Slots, DropClient(i), UNCHANGED wire
  PROVE  WorkerInv'
<1> DEFINE c == order[i]
<1>1. c \in Conn
  BY ElementOfSeq DEF TypeOK, Slots
<1>2. /\ cl'[c].leaf = NoLeaf
      /\ \A d \in Conn \ {c} : cl'[d] = cl[d] /\ OwesSame(d)
  BY <1>1 DEF DropClient, Forget, TypeOK, QueuesTyped, Accepted, OwesSame
<1>3. SameDelivered
  BY DropDelivered DEF DropClient
<1>4. ASSUME NEW l \in Leaf, NoLive(outbound[l]) PROVE NoLive(outbound'[l])
  <2>1. outbound[l] \in Seq(OutFrames)
    BY DEF QueuesTyped
  <2>2. outbound'[l] \in {outbound[l], Control(outbound[l])}
    BY DEF DropClient, OutboundAfterDrop
  <2> QED
    BY <1>4, <2>1, <2>2, OnlyOrdered DEF Control
<1>5. ASSUME NEW l \in Leaf, NEW d \in Protocol1Writers(l)'
      PROVE  d \in Protocol1Writers(l) /\ OwesSame(d)
  <2>1. d \in Conn \ {c}
    BY <1>2, LeafAssumption DEF Protocol1Writers, Writers, Clients
  <2> QED
    BY <1>2, <2>1 DEF Protocol1Writers, Writers, Clients
<1> QED
  BY <1>3, <1>4, <1>5, OwesSameKept

LEMMA ReapResyncWorker ==
  ASSUME TypeOK, QueuesTyped, WorkerInv, Reap \/ Resync
  PROVE  WorkerInv'
<1> USE DEF clientVars
<1>1. UNCHANGED <<cl, wire, outbox>>
  BY DEF Reap, Resync
<1>2. SameDelivered
  <2> SUFFICES ASSUME NEW l \in Leaf PROVE sess'[l].delivered = sess[l].delivered
    BY DEF SameDelivered
  <2>1. sess[l] \in Sessions /\ dead[l] \in BOOLEAN
    BY DEF TypeOK
  <2>2. ExpireInputLeaseIfDue(sess[l]) \in Sessions
    BY <2>1, SessionTyped
  <2>3. CASE Reap
    <3> DEFINE e == ExpireInputLeaseIfDue(sess[l])
    <3>1. e.delivered = sess[l].delivered
      BY <2>1, SessionKeeps
    <3>2. sess'[l] = PollChild(e, dead[l]) /\ e \in Sessions
      BY <2>2, <2>3 DEF Reap
    <3> HIDE DEF e
    <3>3. PollChild(e, dead[l]).delivered = e.delivered
      BY <2>1, <3>2, SessionKeeps
    <3> QED
      BY <3>1, <3>2, <3>3
  <2>4. CASE Resync
    BY <2>1, <2>4 DEF Resync, Sessions
  <2> QED
    BY <2>3, <2>4
<1>3. ASSUME NEW l \in Leaf, NoLive(outbound[l]) PROVE NoLive(outbound'[l])
  <2>1. outbound[l] \in Seq(OutFrames)
    BY DEF QueuesTyped
  <2>2. CASE Reap
    <3>1. PICK x \in {<<>>, <<Exit>>} : outbound'[l] = outbound[l] \o x
      BY <2>2 DEF Reap, PollChildOut
    <3>2. Exit.t \notin LiveKinds
      BY FramesTyped DEF LiveKinds
    <3>3. <<Exit>> \in Seq(OutFrames) /\ NoLive(<<Exit>>) /\ <<>> \in Seq(OutFrames) /\ NoLive(<<>>)
      BY <3>2, FramesTyped, OneTyped, EmptyTyped
    <3>4. x \in Seq(OutFrames) /\ NoLive(x)
      BY <3>3
    <3>5. NoLive(outbound[l] \o x) <=> NoLive(outbound[l]) /\ NoLive(x)
      BY <2>1, <3>4, JoinedQueues
    <3> QED
      BY <1>3, <3>1, <3>4, <3>5
  <2>3. CASE Resync
    <3> DEFINE p == Paint(sess[l].delivered)
    <3>1. outbound'[l] = outbound[l] \/ outbound'[l] = Append(outbound[l], p)
      BY <2>3 DEF Resync
    <3>2. p \in OutFrames /\ p.t = "Paint"
      BY FramesTyped DEF TypeOK, Sessions
    <3> HIDE DEF p
    <3>3. Append(outbound[l], p) = outbound[l] \o <<p>> /\ <<p>> \in Seq(OutFrames) /\ NoLive(<<p>>)
      BY <2>1, <3>2, AppendOne, OneTyped DEF LiveKinds
    <3>4. NoLive(outbound[l] \o <<p>>)
      BY <1>3, <2>1, <3>3, JoinedQueues, Zenon
    <3> QED
      BY <1>3, <3>1, <3>3, <3>4
  <2> QED
    BY <2>2, <2>3
<1>4. ASSUME NEW l \in Leaf, NEW d \in Protocol1Writers(l)'
      PROVE  d \in Protocol1Writers(l) /\ OwesSame(d)
  BY <1>1 DEF Protocol1Writers, Writers, Clients, OwesSame
<1> QED
  BY <1>2, <1>3, <1>4, OwesSameKept

(* The writer paces the drain: what is read fits its window. *)
LEMMA PacedByWriter ==
  ASSUME TypeOK, IsWorker, NEW l \in Leaf, NEW c \in Protocol1Writers(l)
  PROVE  LiveChunk(c, Got(l)) = Got(l)
<1> DEFINE S == {cl[d].credit : d \in Protocol1Writers(l)}
<1>1. S \in SUBSET Nat /\ cl[c].credit \in S
  BY DEF Protocol1Writers, Writers, Clients, TypeOK, ClientRecs
<1>2. DrainWindow(l) = Min(S)
  BY DEF DrainWindow, FansOut
<1>3. Got(l) \in Nat /\ Got(l) <= DrainWindow(l) /\ DrainWindow(l) \in Nat
  BY GotBounds
<1> HIDE DEF S
<1>4. Min(S) <= cl[c].credit
  BY <1>1, MinLeast
<1>5. ~ (cl[c].credit < Got(l))
  <2> DEFINE k == cl[c].credit
             g == Got(l)
             m == Min(S)
  <2>1. k \in Nat /\ g \in Nat /\ m \in Nat /\ g <= m /\ m <= k
    BY <1>1, <1>2, <1>3, <1>4
  <2> HIDE DEF k, g, m
  <2>2. ~ (k < g)
    BY <2>1
  <2> QED
    BY <2>2 DEF k, g
<1> QED
  BY <1>5 DEF LiveChunk

LEMMA DrainWorker ==
  ASSUME TypeOK, QueuesTyped, WorkerInv, IsWorker, Drain
  PROVE  WorkerInv'
<1> USE DEF clientVars
<1>1. PICK l \in readable : DrainFanout(l) \/ DrainDirect(l) \/ DrainStop(l)
  BY DEF Drain
<1>2. l \in Leaf /\ UNCHANGED wire /\ FansOut(l)
  BY DEF Drain, TypeOK, FansOut
<1>3. CASE DrainStop(l)
  <2>1. UNCHANGED <<cl, sess, outbox, outbound>>
    BY <1>3 DEF DrainStop
  <2>2. SameDelivered
    BY <2>1 DEF SameDelivered
  <2>3. \A m \in Leaf : \A c \in Protocol1Writers(m)' : c \in Protocol1Writers(m) /\ OwesSame(c)
    BY <1>2, <2>1 DEF Protocol1Writers, Writers, Clients, OwesSame
  <2> QED
    BY <2>1, <2>2, <2>3, OwesSameKept
<1>4. CASE DrainFanout(l)
  <2> DEFINE g == Got(l)
             d == sess[l].delivered
  <2>1. /\ g \in Nat /\ g > 0 /\ d \in Nat /\ d + g \in Nat
    BY <1>2, <1>4, GotBounds DEF DrainFanout
  <2>2. sess[l] \in Sessions /\ sess' = [sess EXCEPT ![l] = DrainPtyAtMost(sess[l], g)]
    BY <1>2, <1>4 DEF DrainFanout, TypeOK
  <2>3. DrainPtyAtMost(sess[l], g).delivered = d + g
    BY <2>1, <2>2 DEF DrainPtyAtMost, Sessions
  <2>4. sess'[l].delivered = d + g /\ \A m \in Leaf \ {l} : sess'[m] = sess[m]
    BY <1>2, <2>2, <2>3 DEF TypeOK
  <2>5. /\ UNCHANGED outbound
        /\ outbox' = [c \in Conn |->
                       IF c \in Clients(l) /\ LiveChunk(c, g) > 0
                       THEN Append(outbox[c], LiveFrame(c, d, d + LiveChunk(c, g))) ELSE outbox[c]]
    BY <1>4 DEF DrainFanout, FanoutPtyBytes
  <2>6. ASSUME NEW c \in Conn PROVE cl'[c].leaf = cl[c].leaf /\ cl'[c].observe = cl[c].observe /\ cl'[c].proto = cl[c].proto
    <3>1. cl[c] \in ClientRecs
      BY DEF TypeOK
    <3>2. cl'[c] = cl[c] \/ cl'[c] = [cl[c] EXCEPT !.credit = @ - LiveChunk(c, Got(l))]
      BY <1>4 DEF DrainFanout, FanoutPtyBytes
    <3> QED
      BY <3>1, <3>2 DEF ClientRecs
  <2>7. \A m \in Leaf : Protocol1Writers(m)' = Protocol1Writers(m)
    BY <2>6 DEF Protocol1Writers, Writers, Clients
  <2>8. \A m \in Leaf : NoLive(outbound'[m])
    BY <2>5 DEF WorkerInv
  <2>9. ASSUME NEW m \in Leaf, NEW c \in Protocol1Writers(m)' PROVE Joined(Owed(c)', sess'[m].delivered)
    <3>1. c \in Protocol1Writers(m) /\ c \in Conn /\ cl[c].leaf = m /\ cl[c].proto # 2
      BY <2>7 DEF Protocol1Writers, Writers, Clients
    <3>2. Joined(Owed(c), sess[m].delivered)
      BY <3>1 DEF WorkerInv
    <3>3. CASE m # l
      <4>1. OwesSame(c)
        BY <1>2, <2>5, <3>1, <3>3 DEF OwesSame, Clients
      <4> QED
        BY <2>4, <3>2, <3>3, <4>1 DEF Owed, OwesSame
    <3>4. CASE m = l
      <4> DEFINE f == DataFrame(d, d + g)
      <4>1. LiveChunk(c, g) = g
        BY <3>1, <3>4, PacedByWriter
      <4>2. outbox'[c] = Append(outbox[c], f)
        BY <2>1, <2>5, <3>1, <3>4, <4>1 DEF LiveFrame, Clients
      <4>3. f \in OutFrames /\ f.t = "Data" /\ f.from = d /\ f.to = d + g
        BY <2>1, FramesTyped DEF DataFrame
      <4>4. outbox[c] \in Seq(OutFrames) /\ wire[c] \in Seq(OutFrames)
        BY <3>1 DEF QueuesTyped
      <4> HIDE DEF f
      <4>5. Live(Append(outbox[c], f)) = Append(Live(outbox[c]), f)
        <5>1. f.t \in {"Data", "Delta"}
          BY <4>3
        <5> QED
          BY <4>3, <4>4, <5>1, OnlyAppend DEF Live
      <4>6. Live(outbox[c]) \in Seq(OutFrames) /\ Live(wire[c]) \in Seq(OutFrames)
        BY <4>4, LiveJoins
      <4>7. Live(wire[c]) \o Append(Live(outbox[c]), f) = Append(Owed(c), f)
        BY <4>3, <4>6, ConcatAppend DEF Owed
      <4>8. Owed(c)' = Append(Owed(c), f)
        BY <1>2, <4>2, <4>5, <4>7 DEF Owed
      <4>9. Joined(Append(Owed(c), f), f.to)
        BY <3>1, <3>2, <3>4, <4>3, OwedTyped, JoinedAppend
      <4> QED
        BY <2>4, <3>4, <4>3, <4>8, <4>9
    <3> QED
      BY <3>3, <3>4
  <2> QED
    BY <2>8, <2>9 DEF WorkerInv
<1> QED
  BY <1>1, <1>2, <1>3, <1>4 DEF DrainDirect

LEMMA FlushDelivered ==
  ASSUME TypeOK, Flush
  PROVE  SameDelivered
<1>1. sess' = sess \/ \E i \in DOMAIN order : sess' = SessAfterDrop(order[i])
  BY DEF Flush
<1> QED
  BY <1>1, DropDelivered DEF SameDelivered

LEMMA FlushWorker ==
  ASSUME TypeOK, QueuesTyped, WorkerInv, Flush
  PROVE  WorkerInv'
<1>1. SameDelivered
  BY FlushDelivered
<1>2. ASSUME NEW l \in Leaf
      PROVE  /\ NoLive(outbound[l]) /\ outbound[l] \in Seq(OutFrames)
             /\ NoLive(Control(outbound[l])) /\ Control(outbound[l]) \in Seq(OutFrames)
             /\ NoLive(Control(Control(outbound[l])))
  <2>1. outbound[l] \in Seq(OutFrames) /\ NoLive(outbound[l])
    BY DEF QueuesTyped, WorkerInv
  <2>2. NoLive(Control(outbound[l])) /\ Control(outbound[l]) \in Seq(OutFrames)
    BY <2>1, OnlyOrdered, OnlyTyped DEF Control
  <2>3. NoLive(Control(Control(outbound[l])))
    BY <2>2, OnlyOrdered DEF Control
  <2> QED
    BY <2>1, <2>2, <2>3
<1>3. ASSUME NEW l \in Leaf PROVE NoLive(outbound'[l])
  <2>1. outbound'[l] \in {<<>>, Control(<<>>), Control(outbound[l]), Control(Control(outbound[l]))}
    BY FlushSteps
  <2>2. Control(<<>>) = <<>> /\ NoLive(<<>>)
    BY OnlyEmpty, EmptyQueue DEF Control
  <2> QED
    BY <1>2, <2>1, <2>2
<1>4. ASSUME NEW l \in Leaf, NEW c \in Protocol1Writers(l)'
      PROVE  c \in Protocol1Writers(l) /\ Owed(c)' = Owed(c)
  <2>1. c \in Conn /\ cl'[c].leaf = l /\ l # NoLeaf
    BY LeafAssumption DEF Protocol1Writers, Writers, Clients
  <2>2. cl'[c] = cl[c] /\ FlushedTo(c)
    BY <2>1, FlushSteps
  <2>3. c \in Protocol1Writers(l) /\ cl[c].leaf = l
    BY <2>1, <2>2 DEF Protocol1Writers, Writers, Clients
  <2>4. CASE wire'[c] = wire[c] /\ outbox'[c] = outbox[c]
    BY <2>3, <2>4 DEF Owed
  <2>5. CASE /\ wire'[c] = wire[c] \o SubSeq(Queued(c), 1, Room(c))
             /\ outbox'[c] = SubSeq(Queued(c), Room(c) + 1, Len(Queued(c)))
    <3> DEFINE u == Queued(c)
               k == Room(c)
               q == SubSeq(u, 1, k)
               r == SubSeq(u, k + 1, Len(u))
    <3>1. PICK x \in {outbound[l], Control(outbound[l])} : u = outbox[c] \o x
      BY <2>1, <2>3, QueuedParts
    <3>2. u \in Seq(OutFrames) /\ k \in 0 .. Len(u)
      BY <2>1, QueuedParts
    <3>3. wire'[c] = wire[c] \o q /\ outbox'[c] = r
      BY <2>5
    <3> HIDE DEF u, k
    <3>4. q \in Seq(OutFrames) /\ r \in Seq(OutFrames) /\ q \o r = u
      BY <3>2, SplitSeq
    <3> HIDE DEF q, r
    <3>5. x \in Seq(OutFrames) /\ NoLive(x) /\ wire[c] \in Seq(OutFrames) /\ outbox[c] \in Seq(OutFrames)
      BY <1>2, <2>1, <3>1 DEF QueuesTyped
    <3>6. Live(x) = <<>>
      BY <3>5, LiveEmpty
    <3>7. /\ Live(wire[c] \o q) = Live(wire[c]) \o Live(q)
          /\ Live(q \o r) = Live(q) \o Live(r)
          /\ Live(outbox[c] \o x) = Live(outbox[c]) \o Live(x)
          /\ Live(wire[c]) \in Seq(OutFrames) /\ Live(q) \in Seq(OutFrames)
          /\ Live(r) \in Seq(OutFrames) /\ Live(outbox[c]) \in Seq(OutFrames)
      BY <3>4, <3>5, LiveJoins
    <3>8. Live(outbox[c]) \o <<>> = Live(outbox[c])
      BY <3>7, ConcatEmptySeq
    <3>9. Live(q) \o Live(r) = Live(outbox[c])
      BY <3>1, <3>4, <3>6, <3>7, <3>8
    <3>10. (Live(wire[c]) \o Live(q)) \o Live(r) = Live(wire[c]) \o (Live(q) \o Live(r))
      BY <3>7, FramesAssociate
    <3> QED
      BY <2>3, <3>3, <3>7, <3>9, <3>10 DEF Owed
  <2> QED
    BY <2>2, <2>4, <2>5 DEF FlushedTo
<1>5. ASSUME NEW l \in Leaf, NEW c \in Protocol1Writers(l)' PROVE Joined(Owed(c)', sess'[l].delivered)
  BY <1>1, <1>4 DEF WorkerInv, SameDelivered
<1> QED
  BY <1>3, <1>5 DEF WorkerInv

(* A dispatched frame that neither attaches a client nor drops one. *)
LEMMA DispatchDelivered ==
  ASSUME TypeOK, DispatchIgnored \/ DispatchCredit \/ DispatchData \/ DispatchResize
  PROVE  SameDelivered
<1> USE DEF daemonVars
<1>0. Dispatching
  BY DEF DispatchIgnored, DispatchCredit, DispatchData, DispatchResize
<1>1. CASE DispatchIgnored
  BY <1>1 DEF DispatchIgnored, SameDelivered
<1>2. ASSUME AtLeaf # NoLeaf, NEW r, sess' = [sess EXCEPT ![AtLeaf] = r],
             AtLeaf \in Leaf => r.delivered = sess[AtLeaf].delivered
      PROVE  SameDelivered
  BY <1>2 DEF SameDelivered, TypeOK
<1>3. AtLeaf # NoLeaf => AtLeaf \in Leaf /\ sess[AtLeaf] \in Sessions
  <2>1. At # {} => order[batch.at] \in Conn
    BY <1>0, AtSeated
  <2> QED
    BY <2>1 DEF AtLeaf, TypeOK, ClientRecs
<1>4. CASE DispatchCredit
  <2>1. Frame \in InboundFrame /\ Frame.t = "Credit"
    BY <1>0, <1>4, BatchTyped DEF DispatchCredit
  <2>2. Frame.n \in Nat
    BY <2>1 DEF InboundFrame
  <2>3. AtLeaf # NoLeaf => OnCredit(sess[AtLeaf], Frame.n).delivered = sess[AtLeaf].delivered
    BY <1>3, <2>2, SessionKeeps
  <2> QED
    BY <1>2, <1>4, <2>3 DEF DispatchCredit
<1>5. CASE DispatchData \/ DispatchResize
  <2>1. AtLeaf # NoLeaf => /\ AfterData(sess[AtLeaf]).delivered = sess[AtLeaf].delivered
                           /\ AfterResize(sess[AtLeaf]).delivered = sess[AtLeaf].delivered
    BY <1>3, SessionKeeps
  <2> QED
    BY <1>2, <1>5, <2>1 DEF DispatchData, DispatchResize
<1> QED
  BY <1>1, <1>4, <1>5

LEMMA RefusedWorker ==
  ASSUME TypeOK, QueuesTyped, WorkerInv, DispatchRefused
  PROVE  WorkerInv'
<1> DEFINE x == <<Refused(RefuseReason(Frame))>>
<1>1. Reply(x) /\ UNCHANGED <<cl, sess, outbound, wire>>
  BY DEF DispatchRefused, Dispatching
<1>2. RefuseReason(Frame) \in Reasons
  BY DEF RefuseReason, Reasons
<1>3. x \in Seq(OutFrames) /\ NoLive(x)
  BY <1>2, FramesTyped, OneTyped DEF LiveKinds
<1> HIDE DEF x
<1>4. \A c \in Conn : outbox'[c] = outbox[c] \/ outbox'[c] = outbox[c] \o x
  BY <1>1, <1>3, ReplyTyped
<1>5. ASSUME NEW c \in Conn PROVE Owed(c)' = Owed(c)
  <2>1. outbox[c] \in Seq(OutFrames)
    BY DEF QueuesTyped
  <2>2. Live(x) = <<>>
    BY <1>3, LiveEmpty
  <2>3. Live(outbox[c] \o x) = Live(outbox[c]) \o Live(x) /\ Live(outbox[c]) \in Seq(OutFrames)
    BY <1>3, <2>1, LiveJoins
  <2>4. Live(outbox[c] \o x) = Live(outbox[c])
    BY <2>2, <2>3, ConcatEmptySeq
  <2> QED
    BY <1>1, <1>4, <2>4 DEF Owed
<1>6. ASSUME NEW l \in Leaf, NEW c \in Protocol1Writers(l)' PROVE Joined(Owed(c)', sess'[l].delivered)
  <2>1. c \in Conn /\ c \in Protocol1Writers(l)
    BY <1>1 DEF Protocol1Writers, Writers, Clients
  <2> QED
    BY <1>1, <1>5, <2>1 DEF WorkerInv
<1> QED
  BY <1>1, <1>6 DEF WorkerInv

(* A new protocol-1 writer is owed nothing: its connection has been sent      *)
(* nothing live and is sent no history.                                       *)
LEMMA AttachWorker ==
  ASSUME QueueIInv, WorkerInv, DispatchAttach
  PROVE  WorkerInv'
<1>0. TypeOK /\ QueuesTyped /\ QueueInv /\ AttachInv /\ Connected
  BY DEF QueueIInv, ClaimIInv, TableIInv
<1> DEFINE l == Resolve(Frame.leaf)
           x == Welcome(Frame, sess[l])
           y == OnAttachOut(sess[l], Frame)
           s == batch.src
<1>1. Dispatching /\ Frame.t = "Attach" /\ RefuseReason(Frame) = "none"
  BY DEF DispatchAttach
<1>2. /\ sess' = [sess EXCEPT ![l] = OnAttach(sess[l], Frame)]
      /\ outbound' = [outbound EXCEPT ![l] = outbound[l] \o y]
      /\ Reply(x)
      /\ UNCHANGED wire
  BY DEF DispatchAttach, Dispatching
<1>3. cl' = [c \in Conn |-> IF c \in At
               THEN [cl[c] EXCEPT !.leaf = l, !.observe = Frame.observe, !.proto = Frame.proto]
               ELSE cl[c]]
  BY DEF DispatchAttach
<1>4. l \in Leaf /\ sess[l] \in Sessions
  BY <1>0, <1>1 DEF RefuseReason, TypeOK
<1>5. At = {s} /\ cl[s].leaf = NoLeaf /\ s \in Conn /\ st[s] # "closed"
  <2> DEFINE fs == batch.frames
  <2>1. fs \in Seq(InboundFrame) /\ fs # <<>>
    BY <1>0, <1>1, BatchTyped DEF Batches
  <2>2. Head(fs).t = "Attach"
    BY <1>1 DEF Frame
  <2> HIDE DEF fs
  <2>3. Len(fs) \in Nat \ {0} /\ Head(fs) = fs[1]
    BY <2>1, PopTyped
  <2>4. 1 \in 1 .. Len(fs) /\ IsAttach(fs[1])
    BY <2>2, <2>3 DEF IsAttach
  <2>5. At = {s} /\ cl[s].leaf = NoLeaf
    BY <1>0, <2>4 DEF AttachInv, fs
  <2>6. s \in Conn /\ batch.at \in Slots /\ order[batch.at] = s
    BY <1>0, <1>1, <2>5, AtSeated
  <2> QED
    BY <1>0, <2>5, <2>6 DEF Connected
<1>6. SameDelivered
  <2>1. OnAttach(sess[l], Frame).delivered = sess[l].delivered
    BY <1>0, <1>1, <1>4, AttachTyped, BatchTyped
  <2> HIDE DEF l
  <2> QED
    BY <1>0, <1>2, <1>4, <2>1 DEF SameDelivered, TypeOK
<1>7. y \in Seq(OutFrames) /\ NoLive(y)
  <2>1. \/ y = <<>> \/ y = <<Refused("AlreadyAttached")>> \/ y = <<Exit>>
    BY DEF OnAttachOut
  <2>2. /\ Refused("AlreadyAttached") \in OutFrames /\ Refused("AlreadyAttached").t = "Refused"
        /\ Exit \in OutFrames /\ Exit.t = "Exit"
    BY FramesTyped DEF Reasons
  <2> HIDE DEF y
  <2> QED
    BY <2>1, <2>2, EmptyTyped, OneTyped DEF LiveKinds
<1>8. ~ Frame.observe /\ Frame.proto # 2 => x = <<>>
  BY DEF Welcome
<1>9. \A c \in Conn : outbox'[c] = IF c \in At THEN outbox[c] \o x ELSE outbox[c]
  BY <1>2 DEF Reply
<1> HIDE DEF x, y, l, s
<1>10. ASSUME NEW m \in Leaf PROVE NoLive(outbound'[m])
  <2>1. outbound[m] \in Seq(OutFrames) /\ NoLive(outbound[m])
    BY <1>0 DEF QueuesTyped, WorkerInv
  <2>2. outbound'[m] = outbound[m] \/ outbound'[m] = outbound[m] \o y
    BY <1>0, <1>2, <1>4 DEF QueuesTyped
  <2>3. NoLive(outbound[m] \o y) <=> NoLive(outbound[m]) /\ NoLive(y)
    BY <1>7, <2>1, JoinedQueues
  <2> QED
    BY <1>7, <2>1, <2>2, <2>3
<1>11. ASSUME NEW m \in Leaf, NEW c \in Protocol1Writers(m)' PROVE Joined(Owed(c)', sess'[m].delivered)
  <2>0. c \in Conn /\ cl'[c].leaf = m /\ ~ cl'[c].observe /\ cl'[c].proto # 2
    BY DEF Protocol1Writers, Writers, Clients
  <2>1. CASE c # s
    <3>1. cl'[c] = cl[c] /\ OwesSame(c)
      BY <1>2, <1>3, <1>5, <1>9, <2>0, <2>1 DEF OwesSame
    <3>2. c \in Protocol1Writers(m)
      BY <2>0, <3>1 DEF Protocol1Writers, Writers, Clients
    <3> QED
      BY <1>6, <3>1, <3>2 DEF WorkerInv, OwesSame, Owed, SameDelivered
  <2>2. CASE c = s
    <3>1. cl[s] \in ClientRecs
      BY <1>0, <1>5 DEF TypeOK
    <3>2. cl'[s].observe = Frame.observe /\ cl'[s].proto = Frame.proto
      BY <1>3, <1>5, <3>1 DEF ClientRecs
    <3>3. x = <<>>
      BY <1>8, <2>0, <2>2, <3>2
    <3>4. wire[s] \in Seq(OutFrames) /\ outbox[s] \in Seq(OutFrames)
      BY <1>0, <1>5 DEF QueuesTyped
    <3>5. outbox[s] \o <<>> = outbox[s]
      BY <3>4, ConcatEmptySeq
    <3>6. outbox'[s] = outbox[s] /\ wire'[s] = wire[s]
      BY <1>2, <1>5, <1>9, <3>3, <3>5
    <3>7. NoLive(wire[s]) /\ NoLive(outbox[s])
      BY <1>0, <1>5 DEF QueueInv, Blank
    <3>8. Live(wire[s]) = <<>> /\ Live(outbox[s]) = <<>>
      BY <3>4, <3>7, LiveEmpty
    <3>9. Owed(c)' = <<>>
      <4>1. outbox'[c] = outbox[c] /\ wire'[c] = wire[c] /\ Live(wire[c]) = <<>> /\ Live(outbox[c]) = <<>>
        BY <2>2, <3>6, <3>8
      <4>2. <<>> \o <<>> = <<>>
        OBVIOUS
      <4> QED
        BY <4>1, <4>2 DEF Owed
    <3> QED
      BY <3>9 DEF Joined
  <2> QED
    BY <2>1, <2>2
<1> QED
  BY <1>10, <1>11 DEF WorkerInv

LEMMA DispatchWorker ==
  ASSUME QueueIInv, WorkerInv, DispatchFrame
  PROVE  WorkerInv'
<1> USE DEF daemonVars
<1>0. TypeOK /\ QueuesTyped
  BY DEF QueueIInv, TableIInv
<1>1. CASE DispatchRefused \/ DispatchAttach
  BY <1>0, <1>1, RefusedWorker, AttachWorker
<1>2. CASE DispatchIgnored \/ DispatchCredit \/ DispatchData \/ DispatchResize
  <2>1. UNCHANGED <<wire, outbox, outbound>> /\ Dispatching
    BY <1>2 DEF DispatchIgnored, DispatchCredit, DispatchData, DispatchResize, Dispatching
  <2>2. ASSUME NEW c \in Conn
        PROVE  cl'[c].leaf = cl[c].leaf /\ cl'[c].observe = cl[c].observe /\ cl'[c].proto = cl[c].proto
    <3>1. cl[c] \in ClientRecs
      BY <1>0 DEF TypeOK
    <3>2. cl'[c] = cl[c] \/ cl'[c] = [cl[c] EXCEPT !.credit = @ + Frame.n]
      BY <1>2 DEF DispatchIgnored, DispatchCredit, DispatchData, DispatchResize
    <3> QED
      BY <3>1, <3>2 DEF ClientRecs
  <2>3. SameDelivered
    BY <1>0, <1>2, DispatchDelivered
  <2>4. \A l \in Leaf : \A c \in Protocol1Writers(l)' : c \in Protocol1Writers(l) /\ OwesSame(c)
    BY <2>1, <2>2 DEF Protocol1Writers, Writers, Clients, OwesSame
  <2> QED
    BY <1>0, <2>1, <2>3, <2>4, OwesSameKept
<1>3. CASE DispatchUnattached
  <2>0. Dispatching /\ UNCHANGED wire
    BY <1>3 DEF DispatchUnattached, Dispatching
  <2>1. CASE UNCHANGED <<daemonVars, st>>
    BY <2>0, <2>1 DEF WorkerInv, Owed, Protocol1Writers, Writers, Clients
  <2>2. CASE At # {} /\ DropClient(batch.at)
    BY <1>0, <2>0, <2>2, AtSeated, DropWorker
  <2> QED
    BY <1>3, <2>1, <2>2 DEF DispatchUnattached
<1> QED
  BY <1>1, <1>2, <1>3 DEF DispatchFrame

LEMMA PollReadWorker ==
  ASSUME TypeOK, QueuesTyped, WorkerInv, Poll \/ ReadClient
  PROVE  WorkerInv'
<1> USE DEF daemonVars, clientVars
<1>1. CASE UNCHANGED <<cl, sess, wire, outbox, outbound>>
  BY <1>1 DEF WorkerInv, Owed, Protocol1Writers, Writers, Clients
<1>2. CASE ReadClient
  <2>1. PICK i \in ready : ReadFrames(i) \/ ReadMalformed(i) \/ ReadEof(i) \/ ReadWouldBlock(i)
    BY <1>2 DEF ReadClient
  <2>2. i \in Nat \ {0} /\ i <= Len(order) /\ Len(order) \in Nat
    BY <2>1, LenProperties DEF ReadFrames, ReadMalformed, ReadEof, ReadWouldBlock, AtSlot, TypeOK
  <2>3. i \in Slots
    BY <2>2 DEF Slots
  <2>4. CASE ReadFrames(i) \/ ReadWouldBlock(i)
    BY <1>1, <2>4 DEF ReadFrames, ReadWouldBlock
  <2>5. CASE ReadMalformed(i) \/ ReadEof(i)
    BY <2>3, <2>5, DropWorker DEF ReadMalformed, ReadEof
  <2> QED
    BY <2>1, <2>4, <2>5
<1> QED
  BY <1>1, <1>2 DEF Poll

(* A client that takes a frame off its socket, or closes it, is owed less at  *)
(* the front.                                                                 *)
LEMMA RecvCloseWorker ==
  ASSUME TypeOK, QueuesTyped, WorkerInv, NEW c \in Conn, ClientRecv(c) \/ Close(c)
  PROVE  WorkerInv'
<1> USE DEF daemonVars
<1>1. /\ UNCHANGED <<cl, sess, outbox, outbound>>
      /\ \A d \in Conn \ {c} : wire'[d] = wire[d]
      /\ wire'[c] = <<>> \/ (wire[c] # <<>> /\ wire'[c] = Tail(wire[c]))
  BY DEF ClientRecv, Close, QueuesTyped
<1>2. wire[c] \in Seq(OutFrames) /\ outbox[c] \in Seq(OutFrames) /\ <<>> \in Seq(OutFrames)
  BY EmptySeq DEF QueuesTyped
<1>3. PICK h \in Seq(OutFrames) : wire[c] = h \o wire'[c] /\ wire'[c] \in Seq(OutFrames)
  <2>1. CASE wire'[c] = <<>>
    BY <1>2, <2>1, ConcatEmptySeq
  <2>2. CASE wire[c] # <<>> /\ wire'[c] = Tail(wire[c])
    <3> DEFINE w == wire[c]
    <3>1. w \in Seq(OutFrames) /\ w # <<>>
      BY <1>2, <2>2
    <3> HIDE DEF w
    <3>2. w = <<Head(w)>> \o Tail(w) /\ Head(w) \in OutFrames /\ Tail(w) \in Seq(OutFrames)
      BY <3>1
    <3>3. <<Head(w)>> \in Seq(OutFrames)
      BY <3>2, OneTyped
    <3> QED
      BY <2>2, <3>2, <3>3 DEF w
  <2> QED
    BY <1>1, <2>1, <2>2
<1>4. ASSUME NEW l \in Leaf, NEW d \in Protocol1Writers(l)'
      PROVE  /\ d \in Protocol1Writers(l)
             /\ Owed(d)' \in Seq(OutFrames)
             /\ \E a \in Seq(OutFrames) : Owed(d) = a \o Owed(d)'
  <2>1. d \in Conn /\ d \in Protocol1Writers(l)
    BY <1>1 DEF Protocol1Writers, Writers, Clients
  <2>2. Owed(d) \in Seq(OutFrames) /\ Owed(d) = <<>> \o Owed(d)
    BY <2>1, OwedTyped
  <2>3. CASE d # c
    <3>1. Owed(d)' = Owed(d)
      BY <1>1, <2>1, <2>3 DEF Owed
    <3> QED
      BY <1>2, <2>1, <2>2, <3>1, Zenon
  <2>4. CASE d = c
    <3> DEFINE a == Live(h)
               b == Live(wire'[c])
               o == Live(outbox[c])
    <3>1. Live(h \o wire'[c]) = a \o b /\ a \in Seq(OutFrames) /\ b \in Seq(OutFrames)
      BY <1>3, LiveJoins
    <3>2. o \in Seq(OutFrames)
      BY <1>2, LiveJoins
    <3>3. Owed(c) = (a \o b) \o o
      BY <1>3, <3>1 DEF Owed
    <3>4. Owed(c)' = b \o o
      BY <1>1 DEF Owed
    <3> HIDE DEF a, b, o
    <3>5. (a \o b) \o o = a \o (b \o o) /\ b \o o \in Seq(OutFrames)
      BY <3>1, <3>2, FramesAssociate
    <3> QED
      BY <2>1, <2>4, <3>1, <3>3, <3>4, <3>5, Zenon
  <2> QED
    BY <2>3, <2>4
<1>5. \A l \in Leaf : sess'[l].delivered = sess[l].delivered /\ (NoLive(outbound[l]) => NoLive(outbound'[l]))
  BY <1>1
<1> QED
  BY <1>4, <1>5, OwedKept

LEMMA EnvironmentWorker ==
  ASSUME TypeOK, QueuesTyped, WorkerInv,
         \/ \E c \in Conn : Connect(c) \/ Greet(c) \/ Close(c) \/ ClientRecv(c)
         \/ \E c \in Conn, f \in InFrames \cup {Data} : Send(c, f)
         \/ \E l \in Leaf : ChildWrite(l) \/ ChildExit(l) \/ LeaseDue(l)
         \/ UNCHANGED vars
  PROVE  WorkerInv'
<1> USE DEF daemonVars, loopVars, clientVars, childVars
<1>1. CASE \E c \in Conn : Close(c) \/ ClientRecv(c)
  BY <1>1, RecvCloseWorker
<1>2. CASE UNCHANGED <<cl, sess, wire, outbox, outbound>>
  BY <1>2 DEF WorkerInv, Owed, Protocol1Writers, Writers, Clients
<1>3. ASSUME NEW l \in Leaf, LeaseDue(l) PROVE WorkerInv'
  <2>1. sess[l] \in Sessions /\ sess' = [sess EXCEPT ![l] = [sess[l] EXCEPT !.until = "due"]]
    BY <1>3 DEF LeaseDue, TypeOK
  <2>2. [sess[l] EXCEPT !.until = "due"].delivered = sess[l].delivered
    BY <2>1 DEF Sessions
  <2>3. SameDelivered
    BY <2>1, <2>2 DEF SameDelivered, TypeOK
  <2>4. UNCHANGED <<cl, wire, outbox, outbound>>
    BY <1>3 DEF LeaseDue
  <2>5. \A m \in Leaf : \A c \in Protocol1Writers(m)' : c \in Protocol1Writers(m) /\ OwesSame(c)
    BY <2>4 DEF Protocol1Writers, Writers, Clients, OwesSame
  <2> QED
    BY <2>3, <2>4, <2>5, OwesSameKept
<1>4. \/ \E c \in Conn : Close(c) \/ ClientRecv(c)
      \/ \E l \in Leaf : LeaseDue(l)
      \/ UNCHANGED <<sess, wire, outbox, outbound, cl>>
  BY DEF Connect, Greet, Send, ChildWrite, ChildExit, vars
<1> QED
  BY <1>1, <1>2, <1>3, <1>4

LEMMA InitWorker == Init => WorkerInv
<1> SUFFICES ASSUME Init PROVE WorkerInv
  OBVIOUS
<1>1. \A l \in Leaf : Protocol1Writers(l) = {}
  BY LeafAssumption DEF Init, Protocol1Writers, Writers, Clients, Accepted
<1> QED
  BY <1>1, EmptyQueue DEF Init, WorkerInv

LEMMA NextWorker ==
  ASSUME IsWorker
  PROVE  QueueIInv /\ WorkerInv /\ [Next]_vars => WorkerInv'
<1> SUFFICES ASSUME QueueIInv, WorkerInv, [Next]_vars PROVE WorkerInv'
  OBVIOUS
<1>0. TypeOK /\ QueuesTyped
  BY DEF QueueIInv, TableIInv
<1>1. CASE DaemonStep
  BY <1>0, <1>1, ReapResyncWorker, PollReadWorker, DispatchWorker, DrainWorker, FlushWorker
     DEF DaemonStep
<1>2. CASE ~ DaemonStep
  BY <1>0, <1>2, EnvironmentWorker DEF Next
<1> QED
  BY <1>1, <1>2

LEMMA WorkerSound == QueueIInv /\ WorkerInv => WriterUnbroken
<1> SUFFICES ASSUME QueueIInv, WorkerInv, NEW l \in Leaf, NEW c \in Protocol1Writers(l)
             PROVE  LET live == Live(InFlight(c)) IN
                    live # <<>> => /\ live[Len(live)].to = sess[l].delivered
                                  /\ \A i \in 1 .. Len(live) - 1 : live[i].to = live[i + 1].from
  BY DEF WriterUnbroken
<1>1. c \in Conn /\ QueuesTyped
  BY DEF Protocol1Writers, Writers, Clients, QueueIInv
<1>2. Owed(c) = Live(InFlight(c))
  BY <1>1, OwedTyped
<1>3. Joined(Live(InFlight(c)), sess[l].delivered)
  BY <1>2 DEF WorkerInv
<1> QED
  BY <1>3 DEF Joined

(* In a worker, as long as ATTACH is the first frame of its connection: the   *)
(* live output on its way to a protocol-1 writer, in its socket and in its    *)
(* outbox, is one unbroken run of bytes that ends where the PTY was read to,  *)
(* whoever else is attached and however short their windows (drain_window     *)
(* takes the least protocol-1 window, fanout_pty_bytes, flush_outbound).      *)
THEOREM WriterUnbrokenHolds ==
  ASSUME IsWorker, "late" \notin Freedom
  PROVE  Spec => []WriterUnbroken
<1>1. Init => QueueIInv /\ WorkerInv
  BY InitQueues, InitWorker
<1>2. QueueIInv /\ WorkerInv /\ [Next]_vars => QueueIInv' /\ WorkerInv'
  BY NextQueues, NextWorker
<1>3. QueueIInv /\ WorkerInv => WriterUnbroken
  BY WorkerSound
<1> QED
  BY <1>1, <1>2, <1>3, PTL DEF Spec
=============================================================================
