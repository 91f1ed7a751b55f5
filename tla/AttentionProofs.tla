--------------------------- MODULE AttentionProofs --------------------------
(***************************************************************************)
(* The attention queue keeps what the user must act on, for any targets,   *)
(* cap, dwell time and number of entries.                                  *)
(***************************************************************************)
EXTENDS Attention, SequenceTheorems, FiniteSetTheorems, FunctionTheorems,
        WellFoundedInduction, TLAPS

EntryRecs == [id : Nat, target : Targets, state : States, read : BOOLEAN]
RaisedRecs == [target : Targets, state : States]

\* A queue is faithful to the log of what was raised: its entries are copies
\* of it, oldest first, each once, and read if they were seen.
Faithful(q, log, viewed) ==
  /\ q \in Seq(EntryRecs)
  /\ \A n \in 1..Len(q) :
       /\ q[n].id \in 1..Len(log)
       /\ log[q[n].id].target = q[n].target
       /\ log[q[n].id].state = q[n].state
       /\ q[n].read <=> q[n].id \in viewed
  /\ \A m, n \in 1..Len(q) : m < n => q[m].id < q[n].id

KeptIn(q) == {q[n].id : n \in 1..Len(q)}
IdsIn(log, target, actionable) ==
  {i \in 1..Len(log) : log[i].target = target /\ IsActionable(log[i].state) = actionable}
HeldIn(q, log, target) == {i \in KeptIn(q) : log[i].target = target}

\* What the cap may take of a target: nothing actionable, the oldest of the
\* rest, and all of the rest before the cap is exceeded.
Retained(q, log, target) ==
  /\ IdsIn(log, target, TRUE) \subseteq KeptIn(q)
  /\ \A i \in IdsIn(log, target, FALSE) \cap KeptIn(q), j \in IdsIn(log, target, FALSE) :
       j > i => j \in KeptIn(q)
  /\ Cardinality(HeldIn(q, log, target)) > Cap => IdsIn(log, target, FALSE) \cap KeptIn(q) = {}

AttentionInv ==
  /\ raised \in Seq(RaisedRecs)
  /\ nextId = Len(raised) + 1
  /\ seen \subseteq 1..Len(raised)
  /\ Faithful(entries, raised, seen)
  /\ \A target \in Targets : Retained(entries, raised, target)

-----------------------------------------------------------------------------
(* The states and their urgency. *)
LEMMA UrgencyOf ==
  /\ States = {"CompletedUnread", "Disconnected", "Failed", "NeedsInput", "Approval"}
  /\ \A s \in States : Urgency[s] \in 1..5 /\ (Urgency[s] >= 4 <=> IsActionable(s))
  BY DEF States, Urgency, IsActionable

(* Vec::remove: the places before n stay, the ones behind it move down one. *)
LEMMA DroppedElements ==
  ASSUME NEW S, NEW q \in Seq(S), NEW n \in 1..Len(q)
  PROVE  /\ Dropped(q, n) \in Seq(S)
         /\ Len(Dropped(q, n)) = Len(q) - 1
         /\ \A j \in 1..(Len(q) - 1) : Dropped(q, n)[j] = q[IF j < n THEN j ELSE j + 1]
<1> DEFINE len == Len(q)
           a == SubSeq(q, 1, n - 1)
           b == SubSeq(q, n + 1, len)
<1>1. len \in Nat /\ n \in Nat /\ 1 <= n /\ n <= len /\ \A j \in 1..len : q[j] \in S
  BY LenProperties, ElementOfSeq
<1> HIDE DEF len
<1>2. a \in Seq(S) /\ Len(a) = n - 1 /\ \A j \in 1..(n - 1) : a[j] = q[j]
  <2>1. \A j \in 1..(n - 1) : q[j] \in S
    BY <1>1
  <2>2. /\ a \in Seq(S) /\ Len(a) = (IF 1 <= n - 1 THEN (n - 1) - 1 + 1 ELSE 0)
        /\ \A j \in 1..((n - 1) - 1 + 1) : a[j] = q[1 + j - 1]
    BY <1>1, <2>1, SubSeqProperties
  <2> HIDE DEF a
  <2> QED
    BY <1>1, <2>2
<1>3. b \in Seq(S) /\ Len(b) = len - n /\ \A j \in 1..(len - n) : b[j] = q[n + j]
  <2>1. \A j \in (n + 1)..len : q[j] \in S
    BY <1>1
  <2>2. /\ b \in Seq(S) /\ Len(b) = (IF n + 1 <= len THEN len - (n + 1) + 1 ELSE 0)
        /\ \A j \in 1..(len - (n + 1) + 1) : b[j] = q[(n + 1) + j - 1]
    BY <1>1, <2>1, SubSeqProperties
  <2> HIDE DEF b
  <2> QED
    BY <1>1, <2>2
<1>4. Dropped(q, n) = a \o b
  BY DEF Dropped, len
<1> HIDE DEF a, b
<1>5. /\ a \o b \in Seq(S) /\ Len(a \o b) = Len(a) + Len(b)
      /\ \A j \in 1..(Len(a) + Len(b)) :
           (a \o b)[j] = IF j <= Len(a) THEN a[j] ELSE b[j - Len(a)]
  BY <1>2, <1>3, ConcatProperties
<1>6. PICK r : r = a \o b
  OBVIOUS
<1>7. r \in Seq(S) /\ Len(r) = len - 1
  BY <1>1, <1>2, <1>3, <1>5, <1>6
<1>8. ASSUME NEW j \in 1..(len - 1) PROVE r[j] = q[IF j < n THEN j ELSE j + 1]
  <2>1. j \in 1..(Len(a) + Len(b))
    BY <1>1, <1>2, <1>3
  <2>2. r[j] = IF j <= Len(a) THEN a[j] ELSE b[j - Len(a)]
    BY <1>5, <1>6, <2>1
  <2>3. CASE j < n
    BY <1>1, <1>2, <2>2, <2>3
  <2>4. CASE ~ (j < n)
    <3>1. j - (n - 1) \in 1..(len - n) /\ n + (j - (n - 1)) = j + 1
      BY <1>1, <2>4
    <3>2. b[j - (n - 1)] = q[j + 1]
      BY <1>3, <3>1
    <3>3. ~ (j <= Len(a)) /\ j - Len(a) = j - (n - 1)
      BY <1>1, <1>2, <2>4
    <3> QED
      BY <2>2, <2>4, <3>2, <3>3
  <2> QED
    BY <2>3, <2>4
<1> QED
  BY <1>4, <1>6, <1>7, <1>8 DEF len

LEMMA DropFaithful ==
  ASSUME NEW q, NEW log, NEW viewed, Faithful(q, log, viewed), NEW n \in 1..Len(q)
  PROVE  /\ Faithful(Dropped(q, n), log, viewed)
         /\ KeptIn(Dropped(q, n)) = KeptIn(q) \ {q[n].id}
<1> DEFINE len == Len(q)
           old(j) == IF j < n THEN j ELSE j + 1
<1>1. q \in Seq(EntryRecs) /\ len \in Nat
  BY LenProperties DEF Faithful
<1>2. PICK r : r = Dropped(q, n)
  OBVIOUS
<1>3. r \in Seq(EntryRecs) /\ Len(r) = len - 1 /\ \A j \in 1..(len - 1) : r[j] = q[old(j)]
  BY <1>1, <1>2, DroppedElements
<1>4. /\ \A j \in 1..(len - 1) : old(j) \in (1..len) \ {n}
      /\ \A i, j \in 1..(len - 1) : i < j => old(i) < old(j)
  BY <1>1
<1>5. \A k \in (1..len) \ {n} : \E j \in 1..(len - 1) : old(j) = k
  <2> SUFFICES ASSUME NEW k \in (1..len) \ {n} PROVE \E j \in 1..(len - 1) : old(j) = k
    OBVIOUS
  <2>1. CASE k < n
    <3>1. k \in 1..(len - 1) /\ old(k) = k
      BY <1>1, <2>1
    <3> QED
      BY <3>1
  <2>2. CASE k > n
    <3>1. k - 1 \in 1..(len - 1) /\ old(k - 1) = k
      BY <1>1, <2>2
    <3> QED
      BY <3>1
  <2> QED
    BY <1>1, <2>1, <2>2
<1>6. /\ \A k \in 1..len : /\ q[k].id \in 1..Len(log)
                            /\ log[q[k].id].target = q[k].target
                            /\ log[q[k].id].state = q[k].state
                            /\ q[k].read <=> q[k].id \in viewed
      /\ \A k, m \in 1..len : k < m => q[k].id < q[m].id
      /\ \A k \in 1..len : q[k].id \in Nat
  <2>1. \A k \in 1..len : q[k] \in EntryRecs
    BY <1>1, ElementOfSeq
  <2> QED
    BY <2>1 DEF Faithful, EntryRecs
<1> HIDE DEF old, len
<1>7. Faithful(r, log, viewed)
  <2>1. ASSUME NEW j \in 1..(len - 1)
        PROVE  /\ r[j].id \in 1..Len(log)
               /\ log[r[j].id].target = r[j].target
               /\ log[r[j].id].state = r[j].state
               /\ r[j].read <=> r[j].id \in viewed
    <3>1. PICK k \in 1..len : r[j] = q[k]
      BY <1>3, <1>4
    <3>2. /\ q[k].id \in 1..Len(log)
          /\ log[q[k].id].target = q[k].target
          /\ log[q[k].id].state = q[k].state
          /\ q[k].read <=> q[k].id \in viewed
      BY Zenon DEF Faithful, len
    <3> QED
      BY <3>1, <3>2, Zenon
  <2>2. ASSUME NEW i \in 1..(len - 1), NEW j \in 1..(len - 1), i < j PROVE r[i].id < r[j].id
    <3>1. /\ r[i] = q[old(i)] /\ old(i) \in 1..len
          /\ r[j] = q[old(j)] /\ old(j) \in 1..len
          /\ old(i) < old(j)
      BY <1>3, <1>4, <2>2
    <3> QED
      BY <1>6, <3>1
  <2> QED
    BY <1>3, <2>1, <2>2 DEF Faithful
<1>8. ASSUME NEW k \in (1..len) \ {n} PROVE q[k].id # q[n].id
  <2>1. n \in 1..len /\ (k < n \/ n < k)
    BY <1>1 DEF len
  <2> QED
    BY <1>6, <2>1
<1>9. KeptIn(r) = KeptIn(q) \ {q[n].id}
  <2>1. ASSUME NEW i \in KeptIn(r) PROVE i \in KeptIn(q) \ {q[n].id}
    <3>1. PICK j \in 1..(len - 1) : i = r[j].id
      BY <1>3 DEF KeptIn
    <3>2. old(j) \in (1..len) \ {n} /\ i = q[old(j)].id
      BY <1>3, <1>4, <3>1
    <3> QED
      BY <1>8, <3>2 DEF KeptIn, len
  <2>2. ASSUME NEW i \in KeptIn(q), i # q[n].id PROVE i \in KeptIn(r)
    <3>1. PICK k \in 1..len : i = q[k].id
      BY DEF KeptIn, len
    <3>2. k # n
      BY <2>2, <3>1
    <3>3. PICK j \in 1..(len - 1) : old(j) = k
      BY <1>5, <3>2
    <3>4. i = r[j].id
      BY <1>3, <3>1, <3>3
    <3> QED
      BY <1>3, <3>4 DEF KeptIn
  <2> QED
    BY <2>1, <2>2
<1> QED
  BY <1>2, <1>7, <1>9

(* The entries of a target and the ids they hold are as many. *)
LEMMA HeldCount ==
  ASSUME NEW q, NEW log, NEW viewed, Faithful(q, log, viewed), NEW target
  PROVE  /\ IsFiniteSet(Of(q, target))
         /\ Cardinality(Of(q, target)) = Cardinality(HeldIn(q, log, target))
         /\ IsFiniteSet(HeldIn(q, log, target))
         /\ Cardinality(HeldIn(q, log, target)) \in Nat
<1> DEFINE O == Of(q, target)
           H == HeldIn(q, log, target)
           f == [n \in O |-> q[n].id]
<1>1. q \in Seq(EntryRecs) /\ DOMAIN q = 1..Len(q) /\ Len(q) \in Nat
  BY LenProperties DEF Faithful
<1>2. O = {n \in 1..Len(q) : q[n].target = target}
  BY <1>1 DEF Of
<1>3. IsFiniteSet(O)
  <2>1. IsFiniteSet(1..Len(q))
    BY <1>1, FS_Interval
  <2> QED
    BY <1>2, <2>1, FS_Subset
<1>4. H = {q[n].id : n \in O}
  BY <1>2 DEF Faithful, HeldIn, KeptIn
<1>5. \A m, n \in O : q[m].id = q[n].id => m = n
  <2> SUFFICES ASSUME NEW m \in 1..Len(q), NEW n \in 1..Len(q), m < n PROVE q[m].id # q[n].id
    BY <1>1, <1>2
  <2>1. q[m].id < q[n].id
    BY DEF Faithful
  <2>2. q[m] \in EntryRecs /\ q[n] \in EntryRecs
    BY <1>1, ElementOfSeq
  <2>3. q[m].id \in Nat /\ q[n].id \in Nat
    BY <2>2 DEF EntryRecs
  <2> QED
    BY <2>1, <2>3
<1> HIDE DEF O, H
<1>6. f \in Bijection(O, H)
  BY <1>4, <1>5, Fun_IsBij
<1> HIDE DEF f
<1>7. IsFiniteSet(H) /\ Cardinality(O) = Cardinality(H)
  BY <1>3, <1>6, FS_Bijection DEF ExistsBijection
<1> QED
  BY <1>3, <1>7, FS_CardinalityType DEF O, H

(* What enqueue does before the cap. *)
LEMMA AppendFaithful ==
  ASSUME NEW q, NEW log \in Seq(RaisedRecs), NEW viewed \in SUBSET (1..Len(log)),
         Faithful(q, log, viewed),
         NEW e \in EntryRecs, e.id = Len(log) + 1, ~ e.read,
         NEW x \in RaisedRecs, x.target = e.target, x.state = e.state
  PROVE  /\ Faithful(Append(q, e), Append(log, x), viewed)
         /\ KeptIn(Append(q, e)) = KeptIn(q) \cup {Len(log) + 1}
<1> DEFINE n == Len(q)
           k == Len(log)
<1>1. PICK r, g : r = Append(q, e) /\ g = Append(log, x)
  OBVIOUS
<1>2. /\ r \in Seq(EntryRecs) /\ Len(r) = n + 1 /\ n \in Nat
      /\ r[n + 1] = e /\ \A i \in 1..n : r[i] = q[i]
  BY <1>1, AppendProperties, LenProperties DEF Faithful
<1>3. /\ g \in Seq(RaisedRecs) /\ Len(g) = k + 1 /\ k \in Nat
      /\ g[k + 1] = x /\ \A i \in 1..k : g[i] = log[i]
  BY <1>1, AppendProperties, LenProperties
<1>4. \A i \in 1..n : /\ q[i].id \in 1..k
                      /\ log[q[i].id].target = q[i].target
                      /\ log[q[i].id].state = q[i].state
                      /\ q[i].read <=> q[i].id \in viewed
  BY DEF Faithful
<1>5. \A i, j \in 1..n : i < j => q[i].id < q[j].id
  BY DEF Faithful
<1>6. q \in Seq(EntryRecs)
  BY DEF Faithful
<1> HIDE DEF n, k
<1>7. \A i \in 1..k : i \in 1..(k + 1) /\ i < k + 1
  BY <1>3
<1>8. \A i \in 1..(n + 1) : i \in 1..n \/ i = n + 1
  BY <1>2
<1>9. k + 1 \notin viewed /\ e.id = k + 1 /\ k + 1 \in 1..(k + 1)
  BY <1>3 DEF k
<1>10. ASSUME NEW i \in 1..(n + 1)
       PROVE  /\ r[i].id \in 1..(k + 1)
              /\ g[r[i].id].target = r[i].target
              /\ g[r[i].id].state = r[i].state
              /\ r[i].read <=> r[i].id \in viewed
  <2>1. CASE i \in 1..n
    <3>1. r[i] = q[i] /\ q[i].id \in 1..k
      BY <1>2, <1>4, <2>1
    <3>2. g[q[i].id] = log[q[i].id] /\ q[i].id \in 1..(k + 1)
      BY <1>3, <1>7, <3>1
    <3> QED
      BY <1>4, <2>1, <3>1, <3>2, Zenon
  <2>2. CASE i = n + 1
    <3>1. r[i] = e /\ g[e.id] = x
      BY <1>2, <1>3, <1>9, <2>2
    <3> QED
      BY <1>9, <3>1, Zenon
  <2> QED
    BY <1>8, <2>1, <2>2, Zenon
<1>11. ASSUME NEW i \in 1..(n + 1), NEW j \in 1..(n + 1), i < j PROVE r[i].id < r[j].id
  <2>1. i \in 1..n /\ r[i] = q[i]
    BY <1>2, <1>11
  <2>2. CASE j \in 1..n
    BY <1>2, <1>5, <1>11, <2>1, <2>2
  <2>3. CASE j = n + 1
    BY <1>2, <1>4, <1>7, <1>9, <2>1, <2>3
  <2> QED
    BY <1>8, <2>2, <2>3
<1>12. Faithful(r, g, viewed)
  BY <1>2, <1>3, <1>10, <1>11 DEF Faithful
<1>13. KeptIn(r) = KeptIn(q) \cup {k + 1}
  <2>1. ASSUME NEW i \in 1..(n + 1) PROVE r[i].id \in KeptIn(q) \cup {k + 1}
    BY <1>2, <1>8, <1>9 DEF KeptIn, n
  <2>2. ASSUME NEW i \in 1..n PROVE q[i].id \in KeptIn(r)
    <3>1. i \in 1..(n + 1) /\ r[i] = q[i]
      BY <1>2
    <3> QED
      BY <1>2, <3>1 DEF KeptIn
  <2>3. k + 1 \in KeptIn(r)
    <3>1. n + 1 \in 1..(n + 1) /\ r[n + 1].id = k + 1
      BY <1>2, <1>9
    <3> QED
      BY <1>2, <3>1 DEF KeptIn
  <2>4. KeptIn(r) = {r[i].id : i \in 1..(n + 1)}
    BY <1>2 DEF KeptIn
  <2>5. KeptIn(q) = {q[i].id : i \in 1..n}
    BY DEF KeptIn, n
  <2> QED
    BY <2>1, <2>2, <2>3, <2>4, <2>5
<1> QED
  BY <1>1, <1>12, <1>13 DEF k

(* The log grows by one entry. *)
LEMMA AppendIds ==
  ASSUME NEW log \in Seq(RaisedRecs), NEW x \in RaisedRecs, NEW target
  PROVE  /\ IdsIn(Append(log, x), target, TRUE) \ {Len(log) + 1} = IdsIn(log, target, TRUE)
         /\ IdsIn(Append(log, x), target, FALSE) \ {Len(log) + 1} = IdsIn(log, target, FALSE)
         /\ \A i \in IdsIn(log, target, FALSE) : i \in Nat /\ i < Len(log) + 1
         /\ Len(log) + 1 \in IdsIn(Append(log, x), target, FALSE) => x.target = target
<1> DEFINE k == Len(log)
<1>1. PICK g : g = Append(log, x)
  OBVIOUS
<1>2. Len(g) = k + 1 /\ k \in Nat /\ g[k + 1] = x /\ \A i \in 1..k : g[i] = log[i]
  BY <1>1, AppendProperties, LenProperties
<1> HIDE DEF k
<1>3. (1..(k + 1)) \ {k + 1} = 1..k /\ \A i \in 1..k : i \in Nat /\ i < k + 1
  BY <1>2
<1>4. IdsIn(g, target, TRUE) \ {k + 1} = IdsIn(log, target, TRUE)
  BY <1>2, <1>3 DEF IdsIn, k
<1>5. IdsIn(g, target, FALSE) \ {k + 1} = IdsIn(log, target, FALSE)
  BY <1>2, <1>3 DEF IdsIn, k
<1>6. \A i \in IdsIn(log, target, FALSE) : i \in Nat /\ i < k + 1
  BY <1>3 DEF IdsIn, k
<1>7. k + 1 \in IdsIn(g, target, FALSE) => x.target = target
  BY <1>2 DEF IdsIn
<1> QED
  BY <1>1, <1>4, <1>5, <1>6, <1>7 DEF k

(* The ids of a queue by their target. *)
LEMMA KeptTyped ==
  ASSUME NEW q, NEW log \in Seq(RaisedRecs), NEW viewed, Faithful(q, log, viewed)
  PROVE  /\ KeptIn(q) \subseteq 1..Len(log)
         /\ \A n \in 1..Len(q) : \A t :
              /\ q[n].target = t /\ ~ IsActionable(q[n].state) <=> q[n].id \in IdsIn(log, t, FALSE)
              /\ q[n].target = t /\ IsActionable(q[n].state) <=> q[n].id \in IdsIn(log, t, TRUE)
<1>1. \A n \in 1..Len(q) : /\ q[n].id \in 1..Len(log)
                           /\ log[q[n].id].target = q[n].target
                           /\ log[q[n].id].state = q[n].state
  BY DEF Faithful
<1>2. \A s : IsActionable(s) \in BOOLEAN
  BY DEF IsActionable
<1> QED
  BY <1>1, <1>2 DEF KeptIn, IdsIn

(* A nonempty set of places has an oldest one. *)
LEMMA OldestExists ==
  ASSUME NEW S \in SUBSET Nat, S # {}
  PROVE  Oldest(S, CHOOSE n \in S : Oldest(S, n))
<1>1. PICK x \in S : \A y \in S : ~ (<<y, x>> \in OpToRel(<, Nat))
  BY NatLessThanWellFounded, WFMin
<1>2. ASSUME NEW y \in S PROVE x <= y
  <2>1. y < x => <<y, x>> \in {ss \in Nat \X Nat : ss[1] < ss[2]}
    OBVIOUS
  <2>2. ~ (y < x)
    BY <1>1, <2>1 DEF OpToRel
  <2> QED
    BY <2>2
<1>3. Oldest(S, x)
  BY <1>2 DEF Oldest
<1> QED
  BY <1>3

(* The cap drops the oldest idle id of the target, or nothing. *)
LEMMA CappedIds ==
  ASSUME NEW q, NEW log \in Seq(RaisedRecs), NEW viewed, Faithful(q, log, viewed), NEW target
  PROVE  /\ Faithful(Capped(q, target), log, viewed)
         /\ \/ /\ KeptIn(Capped(q, target)) = KeptIn(q)
               /\ \/ Cardinality(HeldIn(q, log, target)) <= Cap
                  \/ IdsIn(log, target, FALSE) \cap KeptIn(q) = {}
            \/ \E d \in IdsIn(log, target, FALSE) \cap KeptIn(q) :
                 /\ KeptIn(Capped(q, target)) = KeptIn(q) \ {d}
                 /\ \A i \in IdsIn(log, target, FALSE) \cap KeptIn(q) : d <= i
<1> DEFINE idle == {n \in Of(q, target) : ~IsActionable(q[n].state)}
           n0 == CHOOSE n \in idle : Oldest(idle, n)
           I == IdsIn(log, target, FALSE)
<1>1. Len(q) \in Nat /\ DOMAIN q = 1..Len(q)
  BY LenProperties DEF Faithful
<1>2. idle = {n \in 1..Len(q) : q[n].target = target /\ ~IsActionable(q[n].state)}
  BY <1>1 DEF Of
<1>3. \A n \in 1..Len(q) : n \in idle <=> q[n].id \in I
  BY <1>2, KeptTyped
<1>4. Cardinality(Of(q, target)) = Cardinality(HeldIn(q, log, target))
  BY HeldCount
<1>5. CASE Cardinality(Of(q, target)) <= Cap
  <2>1. Capped(q, target) = q
    BY <1>5 DEF Capped
  <2> QED
    BY <1>4, <1>5, <2>1
<1>6. CASE idle = {}
  <2>1. Capped(q, target) = q
    BY <1>6 DEF Capped
  <2>2. I \cap KeptIn(q) = {}
    BY <1>3, <1>6 DEF KeptIn
  <2> QED
    BY <2>1, <2>2
<1>7. CASE idle # {} /\ ~ (Cardinality(Of(q, target)) <= Cap)
  <2>1. Capped(q, target) = Dropped(q, n0)
    BY <1>7 DEF Capped
  <2>2. idle \subseteq Nat
    BY <1>1, <1>2
  <2> HIDE DEF idle
  <2>3. Oldest(idle, n0)
    BY <1>7, <2>2, OldestExists
  <2>4. n0 \in idle /\ \A m \in idle : n0 <= m
    BY <2>3 DEF Oldest
  <2> HIDE DEF n0
  <2>5. n0 \in 1..Len(q) /\ q[n0].id \in I
    BY <1>2, <1>3, <2>4
  <2>6. /\ Faithful(Dropped(q, n0), log, viewed)
        /\ KeptIn(Dropped(q, n0)) = KeptIn(q) \ {q[n0].id}
    BY <2>5, DropFaithful
  <2>7. ASSUME NEW i \in I \cap KeptIn(q) PROVE q[n0].id <= i
    <3>1. PICK m \in 1..Len(q) : i = q[m].id
      BY DEF KeptIn
    <3>2. n0 <= m
      BY <1>3, <2>4, <3>1
    <3>3. n0 < m => q[n0].id < q[m].id
      BY <2>5 DEF Faithful
    <3>4. q[n0] \in EntryRecs /\ q[m] \in EntryRecs
      BY <2>5, ElementOfSeq DEF Faithful
    <3>5. q[n0].id \in Nat /\ q[m].id \in Nat
      BY <3>4 DEF EntryRecs
    <3> QED
      BY <2>5, <3>1, <3>2, <3>3, <3>5
  <2>8. q[n0].id \in I \cap KeptIn(q)
    BY <2>5 DEF KeptIn
  <2> QED
    BY <2>1, <2>6, <2>7, <2>8
<1> QED
  BY <1>5, <1>6, <1>7

(* enqueue keeps what has to be kept of every target. *)
LEMMA EnqueueRetained ==
  ASSUME NEW q, NEW log \in Seq(RaisedRecs), NEW viewed \in SUBSET (1..Len(log)),
         Faithful(q, log, viewed),
         NEW e \in EntryRecs, e.id = Len(log) + 1, ~ e.read,
         NEW x \in RaisedRecs, x.target = e.target, x.state = e.state,
         NEW t, Retained(q, log, t)
  PROVE  /\ Faithful(Capped(Append(q, e), x.target), Append(log, x), viewed)
         /\ Retained(Capped(Append(q, e), x.target), Append(log, x), t)
<1>1. PICK q1, g, r, new, K, K1, Kr :
        /\ q1 = Append(q, e) /\ g = Append(log, x) /\ r = Capped(q1, x.target)
        /\ new = Len(log) + 1
        /\ K = KeptIn(q) /\ K1 = KeptIn(q1) /\ Kr = KeptIn(r)
  OBVIOUS
<1>2. Faithful(q1, g, viewed) /\ K1 = K \cup {new}
  BY <1>1, AppendFaithful
<1>3. g \in Seq(RaisedRecs) /\ Len(g) = new /\ g[new] = x /\ Len(log) \in Nat
      /\ \A i \in 1..Len(log) : g[i] = log[i] /\ i < new /\ i \in Nat
  BY <1>1, AppendProperties, LenProperties
<1>4. PICK A, I, A1, I1, J1 :
        /\ A = IdsIn(log, t, TRUE) /\ I = IdsIn(log, t, FALSE)
        /\ A1 = IdsIn(g, t, TRUE) /\ I1 = IdsIn(g, t, FALSE)
        /\ J1 = IdsIn(g, x.target, FALSE)
  OBVIOUS
<1>5. /\ Faithful(r, g, viewed)
      /\ \/ /\ Kr = K1
            /\ Cardinality(HeldIn(q1, g, x.target)) <= Cap \/ J1 \cap K1 = {}
         \/ \E d \in J1 \cap K1 : Kr = K1 \ {d} /\ \A i \in J1 \cap K1 : d <= i
  BY <1>1, <1>2, <1>3, <1>4, CappedIds
<1>6. /\ A1 \ {new} = A /\ I1 \ {new} = I
      /\ \A i \in I : i \in Nat /\ i < new
      /\ new \in I1 => x.target = t
  <2>1. /\ IdsIn(Append(log, x), t, TRUE) \ {Len(log) + 1} = IdsIn(log, t, TRUE)
        /\ IdsIn(Append(log, x), t, FALSE) \ {Len(log) + 1} = IdsIn(log, t, FALSE)
        /\ \A i \in IdsIn(log, t, FALSE) : i \in Nat /\ i < Len(log) + 1
        /\ Len(log) + 1 \in IdsIn(Append(log, x), t, FALSE) => x.target = t
    BY AppendIds
  <2>2. /\ A = IdsIn(log, t, TRUE) /\ I = IdsIn(log, t, FALSE)
        /\ A1 = IdsIn(Append(log, x), t, TRUE) /\ I1 = IdsIn(Append(log, x), t, FALSE)
        /\ new = Len(log) + 1
    BY <1>1, <1>4, Zenon
  <2> QED
    BY <2>1, <2>2, Zenon
<1>7. K \subseteq 1..Len(log) /\ new \notin K /\ new \in Nat
  <2>1. KeptIn(q) \subseteq 1..Len(log)
    BY KeptTyped
  <2>2. new = Len(log) + 1 /\ K = KeptIn(q)
    BY <1>1, Zenon
  <2> QED
    BY <1>3, <2>1, <2>2
<1>8. /\ A \subseteq K
      /\ \A i \in I \cap K, j \in I : j > i => j \in K
      /\ Cardinality(HeldIn(q, log, t)) > Cap => I \cap K = {}
  BY <1>1, <1>4 DEF Retained
<1>9. A1 \cap J1 = {} /\ A1 \cap I1 = {} /\ (x.target = t => J1 = I1) /\ (x.target # t => J1 \cap I1 = {})
  BY <1>4 DEF IdsIn
<1>10. A1 \subseteq Kr
  <2>1. A1 \subseteq K1
    BY <1>2, <1>6, <1>8
  <2> QED
    BY <1>5, <1>9, <2>1
<1>11. ASSUME NEW i \in I1 \cap Kr, NEW j \in I1, j > i PROVE j \in Kr
  <2>1. i \in K1
    BY <1>5
  <2>2. j \in K1
    <3>1. CASE j = new
      BY <1>2, <3>1
    <3>2. CASE j # new
      <4>1. j \in I /\ j < new /\ j \in Nat
        BY <1>6, <3>2
      <4>2. i \in Nat
        BY <1>3, <1>7, <1>2, <2>1
      <4>3. i # new
        BY <1>7, <1>11, <4>1, <4>2
      <4>4. i \in I \cap K
        BY <1>2, <1>6, <2>1, <4>3
      <4> QED
        BY <1>2, <1>8, <1>11, <4>1, <4>4
    <3> QED
      BY <3>1, <3>2
  <2>3. ASSUME NEW d \in J1 \cap K1, Kr = K1 \ {d}, \A k \in J1 \cap K1 : d <= k
        PROVE  j # d
    <3>1. CASE x.target # t
      BY <1>9, <3>1
    <3>2. CASE x.target = t
      <4>1. i \in J1 \cap K1 /\ d <= i
        BY <1>9, <2>1, <2>3, <3>2
      <4>2. i \in Nat /\ d \in Nat
        BY <1>2, <1>3, <1>7, <2>1
      <4> QED
        BY <1>11, <4>1, <4>2
    <3> QED
      BY <3>1, <3>2
  <2> QED
    BY <1>5, <2>2, <2>3
<1>12. PICK H, H1, Hr : H = HeldIn(q, log, t) /\ H1 = HeldIn(q1, g, t) /\ Hr = HeldIn(r, g, t)
  OBVIOUS
<1>13. /\ IsFiniteSet(H) /\ Cardinality(H) \in Nat
       /\ IsFiniteSet(H1) /\ Cardinality(H1) \in Nat
  BY <1>2, <1>12, HeldCount
<1>14. /\ H = {i \in K : g[i].target = t}
       /\ H1 = {i \in K1 : g[i].target = t}
       /\ Hr = {i \in Kr : g[i].target = t}
  BY <1>1, <1>3, <1>7, <1>12 DEF HeldIn
<1>15. ASSUME Cardinality(Hr) > Cap PROVE I1 \cap Kr = {}
  <2>1. CASE x.target # t
    <3>1. \A i \in J1 : g[i].target # t
      BY <1>4, <2>1 DEF IdsIn
    <3>2. Hr = H
      BY <1>2, <1>3, <1>5, <1>14, <2>1, <3>1
    <3>3. I \cap K = {}
      BY <1>8, <1>12, <1>15, <3>2
    <3>4. I1 \cap K1 = {}
      BY <1>2, <1>6, <2>1, <3>3
    <3> QED
      BY <1>5, <3>4
  <2>2. CASE x.target = t /\ Kr = K1
    <3>1. Hr = H1
      BY <1>14, <2>2
    <3>2. Cap \in Nat
      BY AttentionAssumption
    <3>3. J1 \cap K1 = {} \/ Cardinality(H1) <= Cap \/ \E d \in J1 \cap K1 : Kr = K1 \ {d}
      BY <1>5, <1>12, <2>2
    <3>4. ~ (Cardinality(H1) <= Cap)
      BY <1>13, <1>15, <3>1, <3>2
    <3>5. J1 \cap K1 = {}
      BY <2>2, <3>3, <3>4
    <3> QED
      BY <1>9, <2>2, <3>5
  <2>3. ASSUME x.target = t, NEW d \in J1 \cap K1, Kr = K1 \ {d} PROVE I1 \cap Kr = {}
    <3>1. H1 = H \cup {new} /\ new \notin H
      BY <1>2, <1>3, <1>7, <1>14, <2>3
    <3>2. d \in H1 /\ Hr = H1 \ {d}
      <4>1. g[d].target = t
        BY <1>4, <2>3 DEF IdsIn
      <4> QED
        BY <1>14, <2>3, <4>1
    <3>3. Cardinality(H1) = Cardinality(H) + 1
      BY <1>13, <3>1, FS_AddElement
    <3>4. Cardinality(Hr) = Cardinality(H1) - 1
      BY <1>13, <3>2, FS_RemoveElement
    <3>5. Cardinality(H) > Cap
      BY <1>13, <1>15, <3>3, <3>4
    <3>6. I \cap K = {}
      BY <1>8, <1>12, <3>5
    <3>7. I1 \cap K1 \subseteq {new}
      BY <1>2, <1>6, <3>6
    <3> QED
      BY <1>9, <2>3, <3>7
  <2> QED
    BY <1>5, <2>1, <2>2, <2>3
<1>16. Retained(r, g, t)
  <2>1. A1 = IdsIn(g, t, TRUE) /\ I1 = IdsIn(g, t, FALSE) /\ Kr = KeptIn(r) /\ Hr = HeldIn(r, g, t)
    BY <1>1, <1>4, <1>12
  <2>2. \A i \in I1 \cap Kr, j \in I1 : j > i => j \in Kr
    BY <1>11
  <2>3. Cardinality(Hr) > Cap => I1 \cap Kr = {}
    BY <1>15
  <2> QED
    BY <1>10, <2>1, <2>2, <2>3, Zenon DEF Retained
<1>17. r = Capped(Append(q, e), x.target) /\ g = Append(log, x)
  BY <1>1, Zenon
<1> QED
  BY <1>5, <1>16, <1>17, Zenon

-----------------------------------------------------------------------------
LEMMA InitAttention == AttentionInit => AttentionInv
<1> SUFFICES ASSUME AttentionInit PROVE AttentionInv
  OBVIOUS
<1>1. Len(raised) = 0 /\ raised \in Seq(RaisedRecs) /\ Len(entries) = 0 /\ entries \in Seq(EntryRecs)
  BY EmptySeq DEF AttentionInit
<1>2. nextId = Len(raised) + 1 /\ seen \subseteq 1..Len(raised)
  BY <1>1 DEF AttentionInit
<1>3. \A n : n \notin 1..0
  OBVIOUS
<1>4. Faithful(entries, raised, seen)
  BY <1>1, <1>3 DEF Faithful
<1>5. \A t \in Targets : Retained(entries, raised, t)
  BY <1>1, <1>3 DEF Retained, IdsIn
<1> QED
  BY <1>1, <1>2, <1>4, <1>5 DEF AttentionInv

LEMMA EnqueueKeeps ==
  ASSUME AttentionInv, NEW target \in Targets, NEW state \in States, Enqueue(target, state)
  PROVE  AttentionInv'
<1>1. PICK e, x : /\ e = [id |-> nextId, target |-> target, state |-> state, read |-> FALSE]
                  /\ x = [target |-> target, state |-> state]
  OBVIOUS
<1>2. /\ raised \in Seq(RaisedRecs) /\ nextId = Len(raised) + 1 /\ Len(raised) \in Nat
      /\ seen \in SUBSET (1..Len(raised)) /\ Faithful(entries, raised, seen)
      /\ \A t \in Targets : Retained(entries, raised, t)
  BY LenProperties DEF AttentionInv
<1>3. /\ e \in EntryRecs /\ e.id = Len(raised) + 1 /\ ~ e.read
      /\ x \in RaisedRecs /\ x.target = e.target /\ x.state = e.state /\ x.target = target
  BY <1>1, <1>2 DEF EntryRecs, RaisedRecs
<1>4. /\ entries' = Capped(Append(entries, e), x.target) /\ raised' = Append(raised, x)
      /\ nextId' = nextId + 1 /\ seen' = seen
  BY <1>1, <1>3 DEF Enqueue
<1>5. \A t \in Targets : Faithful(entries', raised', seen) /\ Retained(entries', raised', t)
  <2> TAKE t \in Targets
  <2>1. Retained(entries, raised, t)
    BY <1>2
  <2>2. /\ Faithful(Capped(Append(entries, e), x.target), Append(raised, x), seen)
        /\ Retained(Capped(Append(entries, e), x.target), Append(raised, x), t)
    BY <1>2, <1>3, <2>1, EnqueueRetained
  <2> QED
    BY <1>4, <2>2, Zenon
<1>6. /\ raised' \in Seq(RaisedRecs) /\ Len(raised') = Len(raised) + 1
      /\ seen' \subseteq 1..Len(raised')
  <2>1. raised' \in Seq(RaisedRecs) /\ Len(raised') = Len(raised) + 1
    BY <1>2, <1>3, <1>4, AppendProperties
  <2> QED
    BY <1>2, <1>4, <2>1
<1>7. nextId' = Len(raised') + 1
  BY <1>2, <1>4, <1>6
<1>8. Faithful(entries', raised', seen')
  BY <1>4, <1>5
<1> QED
  BY <1>5, <1>6, <1>7, <1>8 DEF AttentionInv

LEMMA ViewKeeps ==
  ASSUME AttentionInv, NEW id, NEW visible, NEW key, NEW dwell, ObserveView(id, visible, key, dwell)
  PROVE  AttentionInv'
<1>1. /\ raised \in Seq(RaisedRecs) /\ entries \in Seq(EntryRecs) /\ Len(entries) \in Nat
      /\ DOMAIN entries = 1..Len(entries)
  BY LenProperties DEF AttentionInv, Faithful
<1>2. UNCHANGED <<nextId, raised>> /\ seen' = seen \cup {id}
  BY DEF ObserveView
<1>3. PICK n \in 1..Len(entries) :
        entries[n].id = id /\ entries' = [entries EXCEPT ![n].read = TRUE]
  BY <1>1 DEF ObserveView
<1>4. \A m \in 1..Len(entries) : entries[m] \in EntryRecs
  BY <1>1, ElementOfSeq
<1>5. /\ entries' \in Seq(EntryRecs) /\ Len(entries') = Len(entries)
      /\ \A m \in 1..Len(entries) : m # n => entries'[m] = entries[m]
      /\ entries'[n] = [entries[n] EXCEPT !.read = TRUE]
  <2>1. [entries[n] EXCEPT !.read = TRUE] \in EntryRecs
    BY <1>4 DEF EntryRecs
  <2>2. entries' = [entries EXCEPT ![n] = [entries[n] EXCEPT !.read = TRUE]]
    BY <1>3
  <2>3. PICK e \in EntryRecs : e = [entries[n] EXCEPT !.read = TRUE]
    BY <2>1
  <2> QED
    BY <1>1, <1>3, <2>2, <2>3, ExceptSeq
<1>6. ASSUME NEW m \in 1..Len(entries)
      PROVE  /\ entries'[m].id = entries[m].id
             /\ entries'[m].target = entries[m].target
             /\ entries'[m].state = entries[m].state
             /\ m = n => entries'[m].read
             /\ m # n => entries'[m].read = entries[m].read
  BY <1>4, <1>5 DEF EntryRecs
<1>7. /\ \A m \in 1..Len(entries) : /\ entries[m].id \in 1..Len(raised)
                                    /\ raised[entries[m].id].target = entries[m].target
                                    /\ raised[entries[m].id].state = entries[m].state
                                    /\ entries[m].read <=> entries[m].id \in seen
      /\ \A l, m \in 1..Len(entries) : l < m => entries[l].id < entries[m].id
  BY DEF AttentionInv, Faithful
<1>8. \A m \in 1..Len(entries) : m # n => entries[m].id # id
  <2> SUFFICES ASSUME NEW m \in 1..Len(entries), m # n PROVE entries[m].id # entries[n].id
    BY <1>3
  <2>1. entries[m].id \in Nat /\ entries[n].id \in Nat
    BY <1>4 DEF EntryRecs
  <2>2. m < n \/ n < m
    BY <1>1
  <2> QED
    BY <1>7, <2>1, <2>2
<1>9. Faithful(entries', raised', seen')
  <2>1. ASSUME NEW m \in 1..Len(entries) PROVE entries'[m].read <=> entries'[m].id \in seen'
    <3>1. CASE m = n
      BY <1>2, <1>3, <1>6, <3>1
    <3>2. CASE m # n
      <4>1. entries'[m].read = entries[m].read /\ entries'[m].id = entries[m].id
        BY <1>6, <3>2
      <4>2. entries[m].read <=> entries[m].id \in seen
        BY DEF AttentionInv, Faithful
      <4>3. entries[m].id \in seen' <=> entries[m].id \in seen
        BY <1>2, <1>8, <3>2
      <4> QED
        BY <4>1, <4>2, <4>3, Zenon
    <3> QED
      BY <3>1, <3>2
  <2>2. ASSUME NEW m \in 1..Len(entries)
        PROVE  /\ entries'[m].id \in 1..Len(raised)
               /\ raised[entries'[m].id].target = entries'[m].target
               /\ raised[entries'[m].id].state = entries'[m].state
    BY <1>6, <1>7
  <2>3. \A l, m \in 1..Len(entries) : l < m => entries'[l].id < entries'[m].id
    BY <1>6, <1>7
  <2> QED
    BY <1>2, <1>5, <2>1, <2>2, <2>3 DEF Faithful
<1>10. KeptIn(entries') = KeptIn(entries)
  BY <1>5, <1>6 DEF KeptIn
<1>11. \A t \in Targets : Retained(entries', raised', t)
  BY <1>2, <1>10 DEF AttentionInv, Retained, HeldIn
<1>12. seen' \subseteq 1..Len(raised')
  BY <1>2, <1>3, <1>7 DEF AttentionInv
<1> QED
  BY <1>1, <1>2, <1>9, <1>11, <1>12 DEF AttentionInv

LEMMA NextAttention == AttentionInv /\ [AttentionNext]_attentionVars => AttentionInv'
<1> SUFFICES ASSUME AttentionInv, [AttentionNext]_attentionVars PROVE AttentionInv'
  OBVIOUS
<1>1. CASE UNCHANGED attentionVars
  BY <1>1 DEF attentionVars, AttentionInv
<1> QED
  BY <1>1, EnqueueKeeps, ViewKeeps DEF AttentionNext

(* The badge and the rollup of a target. *)
LEMMA RollupBounds ==
  ASSUME AttentionInv, NEW target
  PROVE  /\ IsFiniteSet(Unread(target))
         /\ \A n \in Unread(target) : /\ n \in 1..Len(entries)
                                       /\ entries[n].state \in States
                                       /\ Rollup(target) >= Urgency[entries[n].state]
         /\ Rollup(target) = 0 \/ \E n \in Unread(target) : Rollup(target) = Urgency[entries[n].state]
         /\ Rollup(target) \in 0..5
<1> DEFINE levels == {Urgency[entries[n].state] : n \in Unread(target)} \cup {0}
<1>1. Faithful(entries, raised, seen) /\ entries \in Seq(EntryRecs) /\ DOMAIN entries = 1..Len(entries)
  BY LenProperties DEF AttentionInv, Faithful
<1>2. Unread(target) \subseteq Of(entries, target) /\ Of(entries, target) \subseteq 1..Len(entries)
  BY <1>1 DEF Unread, Of
<1>3. IsFiniteSet(Unread(target))
  BY <1>1, <1>2, HeldCount, FS_Subset
<1>4. \A n \in Unread(target) : n \in 1..Len(entries) /\ entries[n].state \in States
  <2>1. \A n \in 1..Len(entries) : entries[n] \in EntryRecs
    BY <1>1, ElementOfSeq
  <2> QED
    BY <1>2, <2>1 DEF EntryRecs
<1>5. levels \subseteq 0..5 /\ 0 \in levels
  BY <1>4, UrgencyOf
<1>6. Rollup(target) = CHOOSE u \in levels : \A v \in levels : v <= u
  BY DEF Rollup
<1>7. \A n \in Unread(target) : Urgency[entries[n].state] \in levels
  OBVIOUS
<1>8. \A u \in levels : u = 0 \/ \E n \in Unread(target) : u = Urgency[entries[n].state]
  OBVIOUS
<1> HIDE DEF levels
<1>9. \E u \in levels : \A v \in levels : v <= u
  <2>1. CASE 5 \in levels
    BY <1>5, <2>1
  <2>2. CASE 5 \notin levels /\ 4 \in levels
    BY <1>5, <2>2
  <2>3. CASE 5 \notin levels /\ 4 \notin levels /\ 3 \in levels
    BY <1>5, <2>3
  <2>4. CASE 5 \notin levels /\ 4 \notin levels /\ 3 \notin levels /\ 2 \in levels
    BY <1>5, <2>4
  <2>5. CASE 5 \notin levels /\ 4 \notin levels /\ 3 \notin levels /\ 2 \notin levels
    <3>1. \A v \in levels : v \in {0, 1}
      BY <1>5, <2>5
    <3> QED
      BY <1>5, <3>1
  <2> QED
    BY <2>1, <2>2, <2>3, <2>4, <2>5
<1>10. Rollup(target) \in levels /\ \A v \in levels : v <= Rollup(target)
  BY <1>6, <1>9
<1>11. \A n \in Unread(target) : Rollup(target) >= Urgency[entries[n].state]
  <2> TAKE n \in Unread(target)
  <2>1. PICK v \in levels : v = Urgency[entries[n].state]
    BY <1>7
  <2>2. PICK u \in levels : u = Rollup(target)
    BY <1>10, Zenon
  <2>3. v <= u
    BY <1>10, <2>2, Zenon
  <2>4. u >= v
    BY <1>5, <2>3
  <2> QED
    BY <2>1, <2>2, <2>4, Zenon
<1> QED
  BY <1>3, <1>4, <1>5, <1>8, <1>10, <1>11

LEMMA AttentionSound == AttentionInv => AttentionKept
<1> SUFFICES ASSUME AttentionInv, NEW target \in Targets
             PROVE  LET acts == Ids(target, TRUE)
                        idle == Ids(target, FALSE)
                    IN  /\ acts \subseteq Kept
                        /\ Cardinality(Of(entries, target)) > Cap => idle \cap Kept = {}
                        /\ \A i \in idle \cap Kept, j \in idle : j > i => j \in Kept
                        /\ \A i \in acts \ seen :
                             BadgeCount(target) > 0 /\ Rollup(target) >= Urgency[raised[i].state]
                        /\ Rollup(target) >= 4 =>
                             \E i \in acts \ seen : Rollup(target) = Urgency[raised[i].state]
  BY DEF AttentionKept
<1> DEFINE acts == Ids(target, TRUE)
           idle == Ids(target, FALSE)
<1>1. /\ Faithful(entries, raised, seen) /\ raised \in Seq(RaisedRecs)
      /\ Retained(entries, raised, target)
  BY DEF AttentionInv
<1>2. DOMAIN entries = 1..Len(entries) /\ DOMAIN raised = 1..Len(raised)
  BY <1>1, LenProperties DEF Faithful
<1>3. /\ acts = IdsIn(raised, target, TRUE) /\ idle = IdsIn(raised, target, FALSE)
      /\ Kept = KeptIn(entries)
  BY <1>2 DEF Ids, IdsIn, Kept, KeptIn
<1>4. Cardinality(Of(entries, target)) = Cardinality(HeldIn(entries, raised, target))
  BY <1>1, HeldCount
<1>5. /\ acts \subseteq Kept
      /\ Cardinality(Of(entries, target)) > Cap => idle \cap Kept = {}
      /\ \A i \in idle \cap Kept, j \in idle : j > i => j \in Kept
  BY <1>1, <1>3, <1>4, Zenon DEF Retained
<1>6. \A n \in 1..Len(entries) : /\ raised[entries[n].id].target = entries[n].target
                                 /\ raised[entries[n].id].state = entries[n].state
  BY <1>1 DEF Faithful
<1>7. \A n \in 1..Len(entries) : n \in Unread(target) <=>
        entries[n].target = target /\ entries[n].id \notin seen
  <2>1. \A n \in 1..Len(entries) : entries[n].read <=> entries[n].id \in seen
    BY <1>1, Zenon DEF Faithful
  <2> QED
    BY <1>2, <2>1, Zenon DEF Unread, Of
<1>8. \A n \in 1..Len(entries) :
        entries[n].target = target /\ IsActionable(entries[n].state) <=> entries[n].id \in acts
  <2>1. \A n \in 1..Len(entries) : \A t : entries[n].target = t /\ IsActionable(entries[n].state)
          <=> entries[n].id \in IdsIn(raised, t, TRUE)
    BY <1>1, KeptTyped, Zenon
  <2> QED
    BY <1>3, <2>1, Zenon
<1> HIDE DEF acts, idle
<1>9. ASSUME NEW i \in acts \ seen
      PROVE  BadgeCount(target) > 0 /\ Rollup(target) >= Urgency[raised[i].state]
  <2>1. PICK n \in 1..Len(entries) : i = entries[n].id
    BY <1>3, <1>5 DEF KeptIn
  <2>2. n \in Unread(target)
    BY <1>7, <1>8, <2>1
  <2>3. Rollup(target) >= Urgency[raised[i].state]
    BY <1>6, <2>1, <2>2, RollupBounds
  <2>4. Cardinality(Unread(target)) \in Nat /\ Cardinality(Unread(target)) # 0
    BY <2>2, RollupBounds, FS_EmptySet, FS_CardinalityType
  <2> QED
    BY <2>3, <2>4 DEF BadgeCount
<1>10. ASSUME Rollup(target) >= 4
       PROVE  \E i \in acts \ seen : Rollup(target) = Urgency[raised[i].state]
  <2>1. PICK n \in Unread(target) : Rollup(target) = Urgency[entries[n].state]
    BY <1>10, RollupBounds
  <2>2. n \in 1..Len(entries) /\ entries[n].state \in States
    BY RollupBounds
  <2>3. IsActionable(entries[n].state)
    BY <1>10, <2>1, <2>2, UrgencyOf
  <2>4. entries[n].id \in acts \ seen /\ raised[entries[n].id].state = entries[n].state
    BY <1>6, <1>7, <1>8, <2>2, <2>3
  <2> QED
    BY <2>1, <2>4
<1> QED
  BY <1>5, <1>9, <1>10 DEF acts, idle

(* Whatever is raised and viewed, an approval or a request for input stays in *)
(* the queue of its target and, until it is seen, in its badge and rollup;    *)
(* the cap is exceeded by such entries alone and takes the oldest of the      *)
(* others first (enqueue, observe_view, rollup, badge_count).                 *)
THEOREM AttentionKeptHolds == AttentionSpec => []AttentionKept
  BY InitAttention, NextAttention, AttentionSound, PTL DEF AttentionSpec
=============================================================================
