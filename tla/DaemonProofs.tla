---------------------------- MODULE DaemonProofs ----------------------------
(***************************************************************************)
(* Theorems about the attach plane, for any connections, leaves, frames    *)
(* and bounds: its variables keep their types, and the writer claim agrees *)
(* with its holder as long as clients send ATTACH first.                   *)
(*                                                                         *)
(* Then about its observers, when a dropped client shifts the slots while  *)
(* frames read from a slot are still to be dispatched: what an observer    *)
(* sends never reaches a PTY, through its own slot or through another's.   *)
(***************************************************************************)
EXTENDS Daemon, SequenceTheorems, FiniteSetTheorems, WellFoundedInduction, TLAPS

-----------------------------------------------------------------------------
(* The session methods return sessions. *)
LEMMA SpawnTyped == SpawnConfigured \in Sessions
  BY DEF SpawnConfigured, Sessions

LEMMA SessionTyped ==
  ASSUME NEW s \in Sessions
  PROVE  /\ ReleaseObserver(s) \in Sessions
         /\ Detach(s) \in Sessions
         /\ ExpireInputLeaseIfDue(s) \in Sessions
         /\ AfterData(s) \in Sessions
         /\ AfterResize(s) \in Sessions
         /\ \A d \in BOOLEAN : PollChild(s, d) \in Sessions
         /\ \A n \in Nat : OnCredit(s, n) \in Sessions
<1>1. ReleaseObserver(s) \in Sessions
  BY DEF Sessions, ReleaseObserver
<1>2. Detach(s) \in Sessions
  BY DEF Sessions, Detach
<1>3. ExpireInputLeaseIfDue(s) \in Sessions
  BY DEF Sessions, ExpireInputLeaseIfDue
<1>4. AfterData(s) \in Sessions /\ AfterResize(s) \in Sessions
  BY <1>3 DEF AfterData, AfterResize
<1>5. ASSUME NEW d \in BOOLEAN PROVE PollChild(s, d) \in Sessions
  BY Zenon DEF Sessions, PollChild
<1>6. ASSUME NEW n \in Nat PROVE OnCredit(s, n) \in Sessions
  BY DEF Sessions, OnCredit
<1> QED
  BY <1>1, <1>2, <1>3, <1>4, <1>5, <1>6

(* None of them moves the read position, and only detach and the observer     *)
(* count touch the claim.                                                     *)
LEMMA SessionKeeps ==
  ASSUME NEW s \in Sessions
  PROVE  /\ ReleaseObserver(s).delivered = s.delivered
         /\ Detach(s).delivered = s.delivered
         /\ ReleaseObserver(s).attached = s.attached
         /\ Detach(s).attached = FALSE
         /\ Detach(s).observers = s.observers
         /\ \A r \in {ExpireInputLeaseIfDue(s), AfterData(s), AfterResize(s)} :
              r.delivered = s.delivered /\ r.attached = s.attached /\ r.observers = s.observers
         /\ \A d \in BOOLEAN : LET r == PollChild(s, d) IN
              r.delivered = s.delivered /\ r.attached = s.attached /\ r.observers = s.observers
         /\ \A n \in Nat : LET r == OnCredit(s, n) IN
              r.delivered = s.delivered /\ r.attached = s.attached /\ r.observers = s.observers
  BY DEF Sessions, ReleaseObserver, Detach, ExpireInputLeaseIfDue, AfterData, AfterResize,
         PollChild, OnCredit

LEMMA AttachFields ==
  ASSUME NEW f \in InboundFrame, f.t = "Attach"
  PROVE  f \in [t : {"Attach"}, leaf : Nat, observe : BOOLEAN, proto : Nat, gen : Nat]
  BY DEF InboundFrame

LEMMA AttachTyped ==
  ASSUME NEW s \in Sessions, NEW f \in InboundFrame, f.t = "Attach"
  PROVE  /\ OnAttach(s, f) \in Sessions
         /\ OnAttach(s, f).delivered = s.delivered
<1>1. f.gen \in Nat /\ f.observe \in BOOLEAN
  BY AttachFields
<1> DEFINE r == [s EXCEPT !.attached = TRUE, !.resync = TRUE]
<1>2. r \in Sessions /\ r.delivered = s.delivered
  BY DEF Sessions
<1> HIDE DEF r
<1>3. TakeInputLease(r, f.gen) \in Sessions /\ TakeInputLease(r, f.gen).delivered = s.delivered
  BY <1>1, <1>2 DEF Sessions, TakeInputLease
<1>4. /\ [s EXCEPT !.observers = @ + 1] \in Sessions
      /\ [s EXCEPT !.observers = @ + 1].delivered = s.delivered
  BY DEF Sessions
<1> QED
  BY <1>3, <1>4 DEF OnAttach, r

(* A nonempty set of naturals has a least element, so Min is one of them. *)
LEMMA MinInSet ==
  ASSUME NEW S \in SUBSET Nat, S # {}
  PROVE  Min(S) \in S
<1>1. PICK x \in S : \A y \in S : ~ (<<y, x>> \in OpToRel(<, Nat))
  BY NatLessThanWellFounded, WFMin
<1>2. ASSUME NEW y \in S PROVE x <= y
  <2>1. y < x => <<y, x>> \in {ss \in Nat \X Nat : ss[1] < ss[2]}
    OBVIOUS
  <2>2. ~ (y < x)
    BY <1>1, <2>1 DEF OpToRel
  <2> QED
    BY <2>2
<1> QED
  BY <1>2 DEF Min

LEMMA RemoveAtTyped ==
  ASSUME NEW S, NEW s \in Seq(S), NEW i \in 1 .. Len(s)
  PROVE  RemoveAt(s, i) \in Seq(S)
<1>1. SubSeq(s, 1, i - 1) \in Seq(S)
  BY SubSeqProperties
<1>2. SubSeq(s, i + 1, Len(s)) \in Seq(S)
  BY SubSeqProperties
<1> QED
  BY <1>1, <1>2, ConcatProperties DEF RemoveAt

-----------------------------------------------------------------------------
(* Dropping a client keeps the table, the connections and the sessions typed  *)
(* and moves no read position (drop_client).                                  *)
LEMMA DropTyped ==
  ASSUME TypeOK, NEW i \in 1 .. Len(order), Forget(i), sess' = SessAfterDrop(order[i])
  PROVE  /\ order' \in Seq(Conn)
         /\ cl' \in [Conn -> ClientRecs]
         /\ st' \in [Conn -> {"new", "open", "eof", "closed"}]
         /\ sess' \in [Leaf -> Sessions]
         /\ \A l \in Leaf : sess'[l].delivered = sess[l].delivered
<1>1. order[i] \in Conn
  BY DEF TypeOK
<1>2. order' \in Seq(Conn)
  BY RemoveAtTyped DEF TypeOK, Forget
<1>3. Accepted \in ClientRecs
  BY DEF Accepted, ClientRecs
<1>4. cl' \in [Conn -> ClientRecs] /\ st' \in [Conn -> {"new", "open", "eof", "closed"}]
  BY <1>3 DEF TypeOK, Forget
<1>5. ASSUME NEW l \in Leaf
      PROVE  sess'[l] \in Sessions /\ sess'[l].delivered = sess[l].delivered
  <2>1. sess[l] \in Sessions
    BY DEF TypeOK
  <2> QED
    BY <2>1, SessionTyped, SessionKeeps DEF SessAfterDrop
<1>6. sess' = [l \in Leaf |-> sess'[l]]
  BY DEF SessAfterDrop
<1> QED
  BY <1>2, <1>4, <1>5, <1>6

(* What is left of a nonempty sequence after its head. *)
LEMMA PopTyped ==
  ASSUME NEW S, NEW s \in Seq(S), s # <<>>
  PROVE  /\ Head(s) \in S /\ Head(s) = s[1]
         /\ Tail(s) \in Seq(S)
         /\ Len(s) \in Nat \ {0}
         /\ Len(Tail(s)) = Len(s) - 1
         /\ \A i \in 1 .. Len(s) - 1 : Tail(s)[i] = s[i + 1]
         /\ Len(s) # 1 => Tail(s) # <<>>
<1>1. /\ Head(s) \in S
      /\ Tail(s) \in Seq(S)
      /\ Len(Tail(s)) = Len(s) - 1
      /\ \A i \in 1 .. Len(Tail(s)) : Tail(s)[i] = s[i + 1]
  BY HeadTailProperties
<1>2. Len(s) \in Nat \ {0} /\ Len(<<>>) = 0
  BY EmptySeq
<1>3. Head(s) = s[1]
  OBVIOUS
<1>4. ASSUME Len(s) # 1, Tail(s) = <<>> PROVE FALSE
  <2>1. Len(Tail(s)) = 0
    BY <1>2, <1>4, Zenon
  <2>2. Len(s) - 1 = 0
    BY <1>1, <2>1, Zenon
  <2> QED
    BY <1>2, <1>4, <2>2
<1> QED
  BY <1>1, <1>2, <1>3, <1>4

(* One frame less to dispatch. *)
LEMMA BatchTyped ==
  ASSUME TypeOK, Dispatching
  PROVE  /\ batch \in Batches
         /\ Frame \in InboundFrame
         /\ batch' \in Batches \cup {NoBatch}
<1>1. batch \in Batches
  BY DEF TypeOK, Dispatching
<1> DEFINE fs == batch.frames
<1>2. fs \in Seq(InboundFrame) /\ fs # <<>> /\ batch.at \in Nat \ {0} /\ batch.src \in Conn
  BY <1>1 DEF Batches
<1>3. Frame \in InboundFrame
  <2>1. Frame = Head(fs)
    BY DEF Frame
  <2> HIDE DEF fs
  <2> QED
    BY <1>2, <2>1, PopTyped
<1>4. batch' \in Batches \cup {NoBatch}
  <2>1. CASE Len(fs) = 1
    BY <2>1 DEF Dispatching
  <2>2. CASE Len(fs) # 1
    <3>1. batch' = [batch EXCEPT !.frames = Tail(fs)]
      BY <2>2 DEF Dispatching
    <3> HIDE DEF fs
    <3>2. Tail(fs) \in Seq(InboundFrame) \ {<<>>}
      BY <1>2, <2>2, PopTyped
    <3> QED
      BY <1>1, <3>1, <3>2 DEF Batches
  <2> QED
    BY <2>1, <2>2
<1> QED
  BY <1>1, <1>3, <1>4

LEMMA InitTyped == Init => TypeOK
<1> SUFFICES ASSUME Init PROVE TypeOK
  OBVIOUS
<1>1. Accepted \in ClientRecs
  BY DEF Accepted, ClientRecs
<1>2. sess \in [Leaf -> Sessions]
  BY SpawnTyped DEF Init
<1>3. \A l \in Leaf : sess[l].delivered <= out[l]
  BY DEF Init, SpawnConfigured
<1>4. <<>> \in Seq(Conn) /\ <<>> \in Seq(InboundFrame)
  BY EmptySeq
<1> QED
  BY <1>1, <1>2, <1>3, <1>4 DEF Init, TypeOK, Pcs

(* Reap, poll and the read loop. *)
LEMMA ReadTyped ==
  ASSUME TypeOK, Reap \/ Poll \/ ReadClient
  PROVE  TypeOK'
<1> USE DEF daemonVars, loopVars, clientVars, childVars
<1>1. CASE Reap
  <2>1. ASSUME NEW l \in Leaf
        PROVE  sess'[l] \in Sessions /\ sess'[l].delivered = sess[l].delivered
    <3>1. sess[l] \in Sessions /\ dead[l] \in BOOLEAN
      BY DEF TypeOK
    <3> DEFINE e == ExpireInputLeaseIfDue(sess[l])
    <3>2. e \in Sessions /\ e.delivered = sess[l].delivered
      BY <3>1, SessionTyped, SessionKeeps
    <3>3. sess'[l] = PollChild(e, dead[l])
      BY <1>1 DEF Reap
    <3> HIDE DEF e
    <3>4. PollChild(e, dead[l]) \in Sessions
      BY <3>1, <3>2, SessionTyped
    <3>5. PollChild(e, dead[l]).delivered = e.delivered
      BY <3>1, <3>2, SessionKeeps
    <3> QED
      BY <3>2, <3>3, <3>4, <3>5
  <2>2. sess' = [l \in Leaf |-> sess'[l]]
    BY <1>1 DEF Reap
  <2>3. sess' \in [Leaf -> Sessions]
    BY <2>1, <2>2
  <2> QED
    BY <1>1, <2>1, <2>3 DEF Reap, TypeOK, Pcs
<1>2. CASE Poll
  <2>1. order' \in Seq(Conn) /\ backlog' \in Seq(Conn)
    <3>1. CASE backlog = <<>>
      BY <1>2, <3>1 DEF Poll, TypeOK
    <3>2. CASE backlog # <<>>
      <4>1. Head(backlog) \in Conn /\ Tail(backlog) \in Seq(Conn)
        BY <3>2, PopTyped DEF TypeOK
      <4>2. Append(order, Head(backlog)) \in Seq(Conn)
        BY <4>1, AppendProperties DEF TypeOK
      <4> QED
        BY <1>2, <3>2, <4>1, <4>2 DEF Poll
    <3> QED
      BY <3>1, <3>2
  <2>2. ready' \subseteq Nat \ {0}
    <3>1. Len(order) \in Nat /\ DOMAIN order = 1 .. Len(order)
      BY LenProperties DEF TypeOK
    <3>2. ready' \subseteq DOMAIN order
      BY <1>2 DEF Poll
    <3>3. 1 .. Len(order) \subseteq Nat \ {0}
      BY <3>1
    <3> QED
      BY <3>1, <3>2, <3>3
  <2>3. readable' \subseteq Leaf
    BY <1>2 DEF Poll
  <2> QED
    BY <1>2, <2>1, <2>2, <2>3 DEF Poll, TypeOK, Pcs
<1>3. CASE ReadClient
  <2>1. PICK i \in ready : ReadFrames(i) \/ ReadMalformed(i) \/ ReadEof(i) \/ ReadWouldBlock(i)
    BY <1>3 DEF ReadClient
  <2>2. i \in Nat \ {0} /\ ready' \subseteq Nat \ {0} /\ pc' = pc /\ i <= Len(order)
    BY <2>1 DEF ReadFrames, ReadMalformed, ReadEof, ReadWouldBlock, AtSlot, TypeOK
  <2>3. i \in 1 .. Len(order) /\ order[i] \in Conn
    <3>1. Len(order) \in Nat
      BY LenProperties DEF TypeOK
    <3>2. i \in 1 .. Len(order)
      BY <2>2, <3>1
    <3> QED
      BY <3>2, ElementOfSeq DEF TypeOK
  <2>4. <<>> \in Seq(InboundFrame)
    BY EmptySeq
  <2>5. CASE ReadFrames(i)
    <3>1. inbox[order[i]] \in Seq(InboundFrame) \ {<<>>}
      BY <2>3, <2>5 DEF ReadFrames, TypeOK
    <3>2. batch' \in Batches
      BY <2>2, <2>3, <2>5, <3>1 DEF ReadFrames, Batches
    <3>3. inbox' \in [Conn -> Seq(InboundFrame)]
      BY <2>4, <2>5 DEF ReadFrames, TypeOK
    <3> QED
      BY <2>2, <2>5, <3>2, <3>3 DEF ReadFrames, TypeOK
  <2>6. CASE ReadMalformed(i)
    <3>1. inbox' \in [Conn -> Seq(InboundFrame)]
      BY <2>4, <2>6 DEF ReadMalformed, TypeOK
    <3>2. Forget(i) /\ sess' = SessAfterDrop(order[i])
      BY <2>6 DEF ReadMalformed, DropClient
    <3> QED
      BY <2>2, <2>3, <2>6, <3>1, <3>2, DropTyped DEF ReadMalformed, TypeOK
  <2>7. CASE ReadEof(i)
    <3>1. Forget(i) /\ sess' = SessAfterDrop(order[i])
      BY <2>7 DEF ReadEof, DropClient
    <3> QED
      BY <2>2, <2>3, <2>7, <3>1, DropTyped DEF ReadEof, TypeOK
  <2>8. CASE ReadWouldBlock(i)
    BY <2>2, <2>8 DEF ReadWouldBlock, TypeOK
  <2> QED
    BY <2>1, <2>5, <2>6, <2>7, <2>8
<1> QED
  BY <1>1, <1>2, <1>3

(* The dispatch of one frame. *)
LEMMA DispatchTyped ==
  ASSUME TypeOK, DispatchFrame
  PROVE  TypeOK'
<1> USE DEF daemonVars, loopVars, clientVars, childVars
<1>0. Dispatching
  BY DEF DispatchFrame, DispatchRefused, DispatchAttach, DispatchUnattached, DispatchIgnored,
         DispatchCredit, DispatchData, DispatchResize
<1>1. batch \in Batches /\ Frame \in InboundFrame /\ batch' \in Batches \cup {NoBatch}
  BY <1>0, BatchTyped
<1>2. UNCHANGED <<pc, ready, readable, backlog, inbox, sent, wire, mirror, out, dead>>
  BY <1>0 DEF Dispatching
<1>3. At = {} \/ (batch.at \in 1 .. Len(order) /\ At = {order[batch.at]} /\ order[batch.at] \in Conn)
  <2>1. batch.at \in Nat \ {0}
    BY <1>1 DEF Batches
  <2>2. Len(order) \in Nat
    BY LenProperties DEF TypeOK
  <2>3. batch.at <= Len(order) => batch.at \in 1 .. Len(order)
    BY <2>1, <2>2
  <2> QED
    BY <2>3, ElementOfSeq DEF At, TypeOK
<1>4. AtLeaf # NoLeaf => AtLeaf \in Leaf
  BY <1>3 DEF AtLeaf, TypeOK, ClientRecs
<1>5. CASE DispatchRefused \/ DispatchIgnored
  BY <1>1, <1>2, <1>5 DEF DispatchRefused, DispatchIgnored, TypeOK
<1>6. CASE DispatchAttach
  <2> DEFINE l == Resolve(Frame.leaf)
  <2>1. Frame.t = "Attach" /\ l \in Leaf /\ Frame.proto \in {1, 2}
    BY <1>6 DEF DispatchAttach, RefuseReason, ProtocolSupported
  <2>2. Frame.observe \in BOOLEAN
    BY <1>1, <2>1, AttachFields
  <2>3. sess[l] \in Sessions
    BY <2>1 DEF TypeOK
  <2>4. OnAttach(sess[l], Frame) \in Sessions /\ OnAttach(sess[l], Frame).delivered = sess[l].delivered
    BY <1>1, <2>1, <2>3, AttachTyped
  <2>5. sess' = [sess EXCEPT ![l] = OnAttach(sess[l], Frame)]
    BY <1>6 DEF DispatchAttach
  <2>6. sess' \in [Leaf -> Sessions] /\ \A m \in Leaf : sess'[m].delivered = sess[m].delivered
    <3> HIDE DEF l
    <3> QED
      BY <2>1, <2>4, <2>5 DEF TypeOK
  <2>7. cl' \in [Conn -> ClientRecs]
    <3>1. ASSUME NEW c \in Conn
          PROVE  [cl[c] EXCEPT !.leaf = l, !.observe = Frame.observe, !.proto = Frame.proto] \in ClientRecs
      <4>1. cl[c] \in ClientRecs
        BY DEF TypeOK
      <4> HIDE DEF l
      <4> QED
        BY <2>1, <2>2, <4>1 DEF ClientRecs
    <3>2. \A c \in Conn : cl'[c] \in ClientRecs
      BY <1>6, <3>1 DEF DispatchAttach, TypeOK
    <3> QED
      BY <1>6, <3>2 DEF DispatchAttach
  <2> QED
    BY <1>1, <1>2, <1>6, <2>6, <2>7 DEF DispatchAttach, TypeOK
<1>7. CASE DispatchUnattached
  <2>1. CASE UNCHANGED <<daemonVars, st>>
    BY <1>1, <1>2, <2>1 DEF TypeOK
  <2>2. CASE At # {} /\ DropClient(batch.at)
    <3>1. Forget(batch.at) /\ sess' = SessAfterDrop(order[batch.at])
      BY <2>2 DEF DropClient
    <3> QED
      BY <1>1, <1>2, <1>3, <2>2, <3>1, DropTyped DEF TypeOK
  <2> QED
    BY <1>7, <2>1, <2>2 DEF DispatchUnattached
<1>8. CASE DispatchCredit
  <2>1. Frame.n \in Nat
    BY <1>1, <1>8 DEF DispatchCredit, InboundFrame
  <2>2. cl' \in [Conn -> ClientRecs]
    <3>1. ASSUME NEW c \in Conn
          PROVE  [cl[c] EXCEPT !.credit = @ + Frame.n] \in ClientRecs
      <4>1. cl[c] \in ClientRecs
        BY DEF TypeOK
      <4> QED
        BY <2>1, <4>1 DEF ClientRecs
    <3> QED
      BY <1>8, <3>1 DEF DispatchCredit, TypeOK
  <2>3. AtLeaf \in Leaf /\ sess[AtLeaf] \in Sessions
    BY <1>4, <1>8 DEF DispatchCredit, TypeOK
  <2>4. /\ OnCredit(sess[AtLeaf], Frame.n) \in Sessions
        /\ OnCredit(sess[AtLeaf], Frame.n).delivered = sess[AtLeaf].delivered
    BY <2>1, <2>3, SessionTyped, SessionKeeps
  <2>5. sess' \in [Leaf -> Sessions] /\ \A m \in Leaf : sess'[m].delivered = sess[m].delivered
    BY <1>8, <2>3, <2>4 DEF DispatchCredit, TypeOK
  <2> QED
    BY <1>1, <1>2, <1>8, <2>2, <2>5 DEF DispatchCredit, TypeOK
<1>9. CASE DispatchData \/ DispatchResize
  <2>1. AtLeaf \in Leaf /\ sess[AtLeaf] \in Sessions
    BY <1>4, <1>9 DEF DispatchData, DispatchResize, TypeOK
  <2>2. \A r \in {AfterData(sess[AtLeaf]), AfterResize(sess[AtLeaf])} :
          r \in Sessions /\ r.delivered = sess[AtLeaf].delivered
    BY <2>1, SessionTyped, SessionKeeps, ZenonT(60)
  <2>3. sess' \in [Leaf -> Sessions] /\ \A m \in Leaf : sess'[m].delivered = sess[m].delivered
    BY <1>9, <2>1, <2>2 DEF DispatchData, DispatchResize, TypeOK
  <2> QED
    BY <1>1, <1>2, <1>9, <2>3 DEF DispatchData, DispatchResize, TypeOK
<1> QED
  BY <1>5, <1>6, <1>7, <1>8, <1>9 DEF DispatchFrame

(* One read never takes more than the child has written, nor more than the    *)
(* window that paces it.                                                      *)
LEMMA GotBounds ==
  ASSUME TypeOK, NEW l \in Leaf
  PROVE  /\ DrainWindow(l) \in Nat
         /\ Got(l) \in Nat
         /\ Got(l) <= DrainWindow(l)
         /\ sess[l].delivered + Got(l) <= out[l]
         /\ sess[l].delivered \in Nat
<1>1. /\ sess[l].credit \in Nat /\ sess[l].delivered \in Nat /\ out[l] \in Nat
      /\ sess[l].delivered <= out[l]
  BY DEF TypeOK, Sessions
<1>2. ReadBuf \in Nat
  BY BoundAssumption
<1>3. DrainWindow(l) \in Nat
  <2> DEFINE S == {cl[c].credit : c \in Protocol1Writers(l)}
  <2>1. S \in SUBSET Nat
    BY DEF Protocol1Writers, Writers, Clients, TypeOK, ClientRecs
  <2>2. Protocol1Writers(l) # {} => S # {}
    OBVIOUS
  <2>3. Protocol1Writers(l) # {} => Min(S) \in Nat
    <3> HIDE DEF S
    <3> QED
      BY <2>1, <2>2, MinInSet
  <2> QED
    BY <1>1, <1>2, <2>3 DEF DrainWindow
<1>4. /\ ReadSize(sess[l], out[l], DrainWindow(l), ReadBuf) \in Nat
      /\ ReadSize(sess[l], out[l], DrainWindow(l), ReadBuf) <= DrainWindow(l)
      /\ sess[l].delivered + ReadSize(sess[l], out[l], DrainWindow(l), ReadBuf) <= out[l]
  <2> DEFINE w == DrainWindow(l)
             d == sess[l].delivered
             o == out[l]
  <2>1. w \in Nat /\ d \in Nat /\ o \in Nat /\ d <= o
    BY <1>1, <1>3
  <2> HIDE DEF w, d, o
  <2> SUFFICES /\ ReadSize(sess[l], o, w, ReadBuf) \in Nat
               /\ ReadSize(sess[l], o, w, ReadBuf) <= w
               /\ d + ReadSize(sess[l], o, w, ReadBuf) <= o
    BY DEF w, d, o
  <2>2. sess[l].delivered = d
    BY DEF d
  <2> QED
    BY <1>2, <2>1, <2>2 DEF ReadSize
<1> QED
  BY <1>1, <1>3, <1>4 DEF Got

(* The drain loop, flush and resync. *)
LEMMA DrainTyped ==
  ASSUME TypeOK, Drain
  PROVE  TypeOK'
<1> USE DEF daemonVars, loopVars, clientVars, childVars
<1>1. PICK l \in readable : DrainFanout(l) \/ DrainDirect(l) \/ DrainStop(l)
  BY DEF Drain
<1>2. l \in Leaf /\ sess[l] \in Sessions
  BY DEF TypeOK
<1>3. UNCHANGED <<order, pc, ready, batch, clientVars, childVars>>
  BY DEF Drain
<1> DEFINE g == Got(l)
<1>4. g \in Nat /\ sess[l].delivered + g <= out[l] /\ g <= DrainWindow(l) /\ sess[l].delivered \in Nat
  BY <1>2, GotBounds
<1>5. CASE DrainFanout(l)
  <2>1. sess' = [sess EXCEPT ![l] = DrainPtyAtMost(sess[l], g)]
    BY <1>5 DEF DrainFanout
  <2>2. cl' = [c \in Conn |-> IF c \in Clients(l)
                               THEN [cl[c] EXCEPT !.credit = @ - LiveChunk(c, g)] ELSE cl[c]]
    BY <1>5 DEF DrainFanout, FanoutPtyBytes
  <2>3. UNCHANGED readable
    BY <1>5 DEF DrainFanout
  <2> HIDE DEF g
  <2>4. /\ DrainPtyAtMost(sess[l], g) \in Sessions
        /\ DrainPtyAtMost(sess[l], g).delivered = sess[l].delivered + g
    BY <1>2, <1>4 DEF DrainPtyAtMost, Sessions
  <2>5. sess' \in [Leaf -> Sessions] /\ \A m \in Leaf : sess'[m].delivered <= out[m]
    BY <1>2, <1>4, <2>1, <2>4 DEF TypeOK
  <2>6. ASSUME NEW c \in Conn PROVE [cl[c] EXCEPT !.credit = @ - LiveChunk(c, g)] \in ClientRecs
    <3>1. cl[c] \in ClientRecs /\ cl[c].credit \in Nat
      BY DEF TypeOK, ClientRecs
    <3>2. cl[c].credit - LiveChunk(c, g) \in Nat
      BY <1>4, <3>1 DEF LiveChunk
    <3> QED
      BY <3>1, <3>2 DEF ClientRecs
  <2>7. cl' \in [Conn -> ClientRecs]
    <3>1. \A c \in Conn : cl'[c] \in ClientRecs
      <4> TAKE c \in Conn
      <4>1. cl[c] \in ClientRecs
        BY DEF TypeOK
      <4>2. cl'[c] = cl[c] \/ cl'[c] = [cl[c] EXCEPT !.credit = @ - LiveChunk(c, g)]
        BY <2>2, Zenon
      <4> QED
        BY <2>6, <4>1, <4>2
    <3> QED
      BY <2>2, <3>1
  <2> QED
    BY <1>3, <2>3, <2>5, <2>7 DEF TypeOK
<1>6. CASE DrainDirect(l)
  <2>1. sess' = [sess EXCEPT ![l] = OnPtyReadable(sess[l], g)] /\ UNCHANGED <<cl, readable>>
    BY <1>6 DEF DrainDirect
  <2>2. g <= sess[l].credit /\ sess[l].credit \in Nat
    BY <1>2, <1>4, <1>6 DEF DrainDirect, DrainWindow, Sessions
  <2> HIDE DEF g
  <2>3. /\ OnPtyReadable(sess[l], g) \in Sessions
        /\ OnPtyReadable(sess[l], g).delivered = sess[l].delivered + g
    <3> DEFINE k == sess[l].credit - g
               d == sess[l].delivered + g
    <3>1. k \in Nat /\ d \in Nat
      BY <1>4, <2>2
    <3>2. OnPtyReadable(sess[l], g) = [sess[l] EXCEPT !.credit = k, !.delivered = d]
      BY DEF OnPtyReadable
    <3> HIDE DEF k, d
    <3>3. OnPtyReadable(sess[l], g) \in Sessions /\ OnPtyReadable(sess[l], g).delivered = d
      BY <1>2, <3>1, <3>2 DEF Sessions
    <3> QED
      BY <3>3 DEF d
  <2>4. sess' \in [Leaf -> Sessions] /\ \A m \in Leaf : sess'[m].delivered <= out[m]
    BY <1>2, <1>4, <2>1, <2>3 DEF TypeOK
  <2> QED
    BY <1>3, <2>1, <2>4 DEF TypeOK
<1>7. CASE DrainStop(l)
  BY <1>3, <1>7 DEF DrainStop, TypeOK
<1> QED
  BY <1>1, <1>5, <1>6, <1>7

LEMMA FlushTyped ==
  ASSUME TypeOK, Flush \/ Resync
  PROVE  TypeOK'
<1> USE DEF daemonVars, loopVars, clientVars, childVars
<1>1. CASE Flush
  <2>1. pc' = "resync" /\ ready' = {} /\ UNCHANGED <<batch, readable, backlog, inbox, sent, childVars>>
    BY <1>1 DEF Flush
  <2>2. CASE UNCHANGED <<order, cl, sess, st>>
    BY <2>1, <2>2 DEF TypeOK, Pcs
  <2>3. CASE \E i \in DOMAIN order : Forget(i) /\ sess' = SessAfterDrop(order[i])
    <3>1. PICK i \in DOMAIN order : Forget(i) /\ sess' = SessAfterDrop(order[i])
      BY <2>3
    <3>2. i \in 1 .. Len(order)
      BY LenProperties DEF TypeOK
    <3> QED
      BY <2>1, <3>1, <3>2, DropTyped DEF TypeOK, Pcs
  <2> QED
    BY <1>1, <2>2, <2>3 DEF Flush
<1>2. CASE Resync
  <2>1. ASSUME NEW l \in Leaf
        PROVE  sess'[l] \in Sessions /\ sess'[l].delivered = sess[l].delivered
    <3>1. sess[l] \in Sessions
      BY DEF TypeOK
    <3>2. sess'[l] = [sess[l] EXCEPT !.resync = FALSE]
      BY <1>2 DEF Resync
    <3> QED
      BY <3>1, <3>2 DEF Sessions
  <2>2. sess' \in [Leaf -> Sessions]
    BY <1>2, <2>1 DEF Resync
  <2> QED
    BY <1>2, <2>1, <2>2 DEF Resync, TypeOK, Pcs
<1> QED
  BY <1>1, <1>2

(* The environment. *)
LEMMA GreetingTyped ==
  /\ HostGreeting \in Seq(InboundFrame)
  /\ Len(HostGreeting) = 2
  /\ \A i \in 1 .. 2 : HostGreeting[i] \in InboundFrame
  /\ HostGreeting[1].t = "Attach" /\ HostGreeting[2].t = "Credit"
<1>1. Attach(NoLeaf, FALSE, 1, 1) \in InboundFrame
  BY DEF Attach, InboundFrame, NoLeaf
<1>2. Credit(Window) \in InboundFrame
  BY BoundAssumption DEF Credit, InboundFrame
<1> QED
  BY <1>1, <1>2 DEF HostGreeting, Attach, Credit

LEMMA ReplenishTyped ==
  ASSUME NEW f
  PROVE  /\ Replenish(f) = <<>> \/ \E n \in Nat : Replenish(f) = <<Credit(n)>>
         /\ Replenish(f) \in Seq(InboundFrame)
<1>1. Cardinality(Fed(f)) \in Nat
  <2>1. IsFiniteSet(1 .. MaxBytes)
    BY BoundAssumption, FS_Interval
  <2>2. Fed(f) \subseteq 1 .. MaxBytes
    BY DEF Fed
  <2> QED
    BY <2>1, <2>2, FS_Subset, FS_CardinalityType
<1>2. Replenish(f) = <<>> \/ \E n \in Nat : Replenish(f) = <<Credit(n)>>
  BY <1>1 DEF Replenish
<1>3. ASSUME NEW n \in Nat PROVE <<Credit(n)>> \in Seq(InboundFrame)
  <2>1. Credit(n) \in InboundFrame
    BY DEF Credit, InboundFrame
  <2> HIDE DEF Credit
  <2> QED
    BY <2>1
<1>4. <<>> \in Seq(InboundFrame)
  BY EmptySeq
<1> QED
  BY <1>2, <1>3, <1>4, Zenon

LEMMA EnvironmentTyped ==
  ASSUME TypeOK,
         \/ \E c \in Conn : Connect(c) \/ Greet(c) \/ Close(c) \/ ClientRecv(c)
         \/ \E c \in Conn, f \in InFrames \cup {Data} : Send(c, f)
         \/ \E l \in Leaf : ChildWrite(l) \/ ChildExit(l) \/ LeaseDue(l)
  PROVE  TypeOK'
<1> USE DEF daemonVars, loopVars, clientVars, childVars
<1>1. ASSUME NEW c \in Conn, Connect(c) PROVE TypeOK'
  <2>1. backlog' \in Seq(Conn)
    BY <1>1, AppendProperties DEF Connect, TypeOK
  <2> QED
    BY <1>1, <2>1 DEF Connect, TypeOK
<1>2. ASSUME NEW c \in Conn, Greet(c) PROVE TypeOK'
  <2>1. sent[c] \in Nat /\ sent[c] < 2
    BY <1>2, GreetingTyped DEF Greet, Greeted, TypeOK
  <2>2. HostGreeting[sent[c] + 1] \in InboundFrame
    BY <2>1, GreetingTyped
  <2>3. Append(inbox[c], HostGreeting[sent[c] + 1]) \in Seq(InboundFrame)
    BY <2>2, AppendProperties DEF TypeOK
  <2>4. inbox' \in [Conn -> Seq(InboundFrame)] /\ sent' \in [Conn -> Nat]
    BY <1>2, <2>1, <2>3 DEF Greet, TypeOK
  <2> QED
    BY <1>2, <2>4 DEF Greet, TypeOK
<1>3. ASSUME NEW c \in Conn, Close(c) PROVE TypeOK'
  BY <1>3 DEF Close, TypeOK
<1>4. ASSUME NEW c \in Conn, ClientRecv(c) PROVE TypeOK'
  <2> DEFINE r == Replenish(Head(wire[c]))
  <2>1. r \in Seq(InboundFrame)
    BY ReplenishTyped
  <2>2. inbox' = inbox \/ inbox' = [inbox EXCEPT ![c] = inbox[c] \o r]
    BY <1>4 DEF ClientRecv
  <2>3. st' = st \/ st' = [st EXCEPT ![c] = "eof"]
    BY <1>4 DEF ClientRecv
  <2>4. UNCHANGED <<daemonVars, loopVars, backlog, sent, childVars>>
    BY <1>4 DEF ClientRecv
  <2> HIDE DEF r
  <2>5. inbox[c] \o r \in Seq(InboundFrame)
    BY <2>1, ConcatProperties DEF TypeOK
  <2>6. inbox' \in [Conn -> Seq(InboundFrame)]
    BY <2>2, <2>5 DEF TypeOK
  <2> QED
    BY <2>3, <2>4, <2>6 DEF TypeOK
<1>5. ASSUME NEW c \in Conn, NEW f \in InFrames \cup {Data}, Send(c, f) PROVE TypeOK'
  <2>1. f \in InboundFrame
    BY FrameAssumption DEF Data, InboundFrame
  <2>2. Append(inbox[c], f) \in Seq(InboundFrame)
    BY <2>1, AppendProperties DEF TypeOK
  <2>3. inbox' \in [Conn -> Seq(InboundFrame)] /\ sent' \in [Conn -> Nat]
    BY <1>5, <2>2 DEF Send, TypeOK
  <2> QED
    BY <1>5, <2>3 DEF Send, TypeOK
<1>6. ASSUME NEW l \in Leaf, ChildWrite(l) PROVE TypeOK'
  <2>1. \A m \in Leaf : sess[m].delivered \in Nat /\ out[m] \in Nat /\ sess[m].delivered <= out[m]
    BY DEF TypeOK, Sessions
  <2>2. out' = [out EXCEPT ![l] = @ + 1] /\ sess' = sess
    BY <1>6 DEF ChildWrite
  <2>3. out' \in [Leaf -> Nat] /\ \A m \in Leaf : sess'[m].delivered <= out'[m]
    BY <2>1, <2>2 DEF TypeOK
  <2> QED
    BY <1>6, <2>3 DEF ChildWrite, TypeOK
<1>7. ASSUME NEW l \in Leaf, ChildExit(l) PROVE TypeOK'
  BY <1>7 DEF ChildExit, TypeOK
<1>8. ASSUME NEW l \in Leaf, LeaseDue(l) PROVE TypeOK'
  <2>1. /\ [sess[l] EXCEPT !.until = "due"] \in Sessions
        /\ [sess[l] EXCEPT !.until = "due"].delivered = sess[l].delivered
    BY ZenonT(60) DEF TypeOK, Sessions
  <2>2. sess' = [sess EXCEPT ![l] = [sess[l] EXCEPT !.until = "due"]]
    BY <1>8 DEF LeaseDue
  <2>3. sess' \in [Leaf -> Sessions] /\ \A m \in Leaf : sess'[m].delivered = sess[m].delivered
    BY <2>1, <2>2 DEF TypeOK
  <2> QED
    BY <1>8, <2>3 DEF LeaseDue, TypeOK
<1> QED
  BY <1>1, <1>2, <1>3, <1>4, <1>5, <1>6, <1>7, <1>8

LEMMA NextTyped == TypeOK /\ [Next]_vars => TypeOK'
<1> SUFFICES ASSUME TypeOK, [Next]_vars PROVE TypeOK'
  OBVIOUS
<1>1. CASE DaemonStep
  BY <1>1, ReadTyped, DispatchTyped, DrainTyped, FlushTyped DEF DaemonStep
<1>2. CASE UNCHANGED vars
  BY <1>2 DEF vars, daemonVars, loopVars, clientVars, childVars, TypeOK
<1> QED
  BY <1>1, <1>2, EnvironmentTyped DEF Next

(* Every variable the daemon and its environment work with keeps its type,    *)
(* and no read position runs ahead of what the child wrote, whatever frames   *)
(* arrive and whichever clients come and go.                                  *)
THEOREM TypeCorrect == Spec => []TypeOK
  BY InitTyped, NextTyped, PTL DEF Spec

-----------------------------------------------------------------------------
(* The claim and its holder.  ClaimInv is not inductive: an ATTACH sent by a  *)
(* connection that already has a leaf, or dispatched to a slot whose client   *)
(* has gone, breaks it.  AttachInv says that neither happens while ATTACH is  *)
(* the first frame of its connection.                                         *)
ClaimIInv == TypeOK /\ AttachInv /\ ClaimInv

SameLeaves ==
  \A c \in Conn : cl'[c].leaf = cl[c].leaf /\ cl'[c].observe = cl[c].observe
SameClaims ==
  \A l \in Leaf : /\ sess'[l].attached = sess[l].attached
                  /\ sess'[l].observers = sess[l].observers

LEMMA ClaimKept ==
  ASSUME ClaimInv, SameLeaves, SameClaims
  PROVE  ClaimInv'
<1>1. \A l \in Leaf : Writers(l)' = Writers(l) /\ Observers(l)' = Observers(l)
  BY DEF SameLeaves, Writers, Observers, Clients
<1>2. OneWriter'
  BY <1>1 DEF ClaimInv, OneWriter
<1>3. ClaimHeld'
  BY <1>1 DEF ClaimInv, ClaimHeld, SameClaims
<1>4. ObserverCount'
  BY <1>1 DEF ClaimInv, ObserverCount, SameClaims
<1> QED
  BY <1>2, <1>3, <1>4 DEF ClaimInv

LEMMA ObserversFinite ==
  ASSUME TypeOK, NEW l \in Leaf
  PROVE  IsFiniteSet(Observers(l)) /\ Cardinality(Observers(l)) \in Nat
<1>1. Observers(l) \subseteq Conn
  BY DEF Observers, Clients
<1> QED
  BY <1>1, ConnAssumption, FS_Subset, FS_CardinalityType

(* drop_client gives back what the client held: the claim, its place among    *)
(* the observers, or nothing.                                                 *)
LEMMA DropClaim ==
  ASSUME TypeOK, ClaimInv, NEW i \in 1 .. Len(order), Forget(i), sess' = SessAfterDrop(order[i])
  PROVE  ClaimInv'
<1> DEFINE c == order[i]
<1>1. c \in Conn /\ cl[c] \in ClientRecs
  BY ElementOfSeq DEF TypeOK
<1>2. cl' = [cl EXCEPT ![c] = Accepted]
  BY DEF Forget
<1>3. NoLeaf \notin Leaf
  BY LeafAssumption
<1>4. cl'[c].leaf = NoLeaf /\ \A d \in Conn \ {c} : cl'[d] = cl[d]
  BY <1>1, <1>2 DEF Accepted, TypeOK
<1>5. \A l \in Leaf : /\ Writers(l)' = Writers(l) \ {c}
                      /\ Observers(l)' = Observers(l) \ {c}
  BY <1>3, <1>4 DEF Writers, Observers, Clients
<1>6. ASSUME NEW l \in Leaf
      PROVE  /\ \A d, e \in Writers(l)' : d = e
             /\ sess'[l].attached <=> Writers(l)' # {}
             /\ sess'[l].observers = Cardinality(Observers(l)')
  <2>1. sess[l] \in Sessions
    BY DEF TypeOK
  <2>2. /\ \A d, e \in Writers(l) : d = e
        /\ sess[l].attached <=> Writers(l) # {}
        /\ sess[l].observers = Cardinality(Observers(l))
    BY DEF ClaimInv, OneWriter, ClaimHeld, ObserverCount
  <2>3. CASE cl[c].leaf # l
    <3>1. c \notin Writers(l) /\ c \notin Observers(l)
      BY <2>3 DEF Writers, Observers, Clients
    <3>2. Writers(l)' = Writers(l) /\ Observers(l)' = Observers(l)
      BY <1>5, <3>1
    <3>3. sess'[l] = sess[l]
      BY <2>3 DEF SessAfterDrop
    <3> QED
      BY <2>2, <3>2, <3>3
  <2>4. CASE cl[c].leaf = l /\ cl[c].observe
    <3>1. c \in Observers(l) /\ c \notin Writers(l)
      BY <1>1, <2>4 DEF Writers, Observers, Clients
    <3>2. Writers(l)' = Writers(l) /\ Observers(l)' = Observers(l) \ {c}
      BY <1>5, <3>1
    <3>3. sess'[l] = ReleaseObserver(sess[l])
      BY <2>4 DEF SessAfterDrop
    <3>4. sess'[l].attached = sess[l].attached
      BY <2>1, <3>3, SessionKeeps
    <3>5. Cardinality(Observers(l)') = Cardinality(Observers(l)) - 1
      BY <3>1, <3>2, ObserversFinite, FS_RemoveElement
    <3>6. Cardinality(Observers(l)) \in Nat \ {0}
      BY <3>1, ObserversFinite, FS_EmptySet
    <3>7. sess'[l].observers = sess[l].observers - 1
      BY <2>1, <2>2, <3>3, <3>6 DEF ReleaseObserver, Sessions
    <3> QED
      BY <2>2, <3>2, <3>4, <3>5, <3>7
  <2>5. CASE cl[c].leaf = l /\ ~ cl[c].observe
    <3>1. c \in Writers(l) /\ c \notin Observers(l)
      BY <1>1, <2>5 DEF Writers, Observers, Clients
    <3>2. Writers(l)' = {} /\ Observers(l)' = Observers(l)
      BY <1>5, <2>2, <3>1
    <3>3. sess'[l] = Detach(sess[l])
      BY <2>5 DEF SessAfterDrop
    <3>4. sess'[l].attached = FALSE /\ sess'[l].observers = sess[l].observers
      BY <2>1, <3>3, SessionKeeps
    <3> QED
      BY <2>2, <3>2, <3>4
  <2> QED
    BY <2>3, <2>4, <2>5
<1>7. OneWriter'
  BY <1>6 DEF OneWriter
<1>8. ClaimHeld'
  BY <1>6 DEF ClaimHeld
<1>9. ObserverCount'
  BY <1>6 DEF ObserverCount
<1> QED
  BY <1>7, <1>8, <1>9 DEF ClaimInv

(* An ATTACH that is honoured makes its sender the one writer of an unclaimed *)
(* session or one observer more.                                              *)
LEMMA AttachClaim ==
  ASSUME TypeOK, AttachInv, ClaimInv, DispatchAttach
  PROVE  ClaimInv'
<1>0. PICK k, c, f : k = Resolve(Frame.leaf) /\ c = batch.src /\ f = Frame
  OBVIOUS
<1>1. batch \in Batches /\ f \in InboundFrame
  BY <1>0, BatchTyped DEF DispatchAttach
<1>2. f.t = "Attach" /\ k \in Leaf /\ RefuseReason(f) = "none"
  BY <1>0 DEF DispatchAttach, RefuseReason
<1>3. At = {c} /\ cl[c].leaf = NoLeaf
  <2> DEFINE fs == batch.frames
  <2>1. fs \in Seq(InboundFrame) /\ fs # <<>>
    BY <1>1 DEF Batches
  <2>2. f = Head(fs)
    BY <1>0 DEF Frame
  <2>3. 1 \in 1 .. Len(fs) /\ f = fs[1]
    <3> HIDE DEF fs
    <3>1. Len(fs) \in Nat \ {0} /\ Head(fs) = fs[1]
      BY <2>1, PopTyped
    <3> QED
      BY <2>2, <3>1
  <2> QED
    BY <1>0, <1>2, <2>3 DEF AttachInv, IsAttach
<1>4. c \in Conn /\ f.observe \in BOOLEAN /\ NoLeaf \notin Leaf /\ cl[c] \in ClientRecs
  BY <1>0, <1>1, <1>2, AttachFields, LeafAssumption DEF Batches, TypeOK
<1>5. f.observe \/ ~ sess[k].attached
  <2>1. AtLeaf = NoLeaf
    BY <1>0, <1>3 DEF AtLeaf, At
  <2> QED
    BY <1>0, <1>2, <1>4, <2>1 DEF RefuseReason
<1>6. /\ cl'[c].leaf = k /\ cl'[c].observe = f.observe
      /\ \A d \in Conn \ {c} : cl'[d] = cl[d]
  <2>1. cl' = [d \in Conn |-> IF d \in {c}
                THEN [cl[d] EXCEPT !.leaf = k, !.observe = f.observe, !.proto = f.proto]
                ELSE cl[d]]
    BY <1>0, <1>3 DEF DispatchAttach
  <2> QED
    BY <1>4, <2>1 DEF ClientRecs
<1>7. sess' = [sess EXCEPT ![k] = OnAttach(sess[k], f)]
  BY <1>0 DEF DispatchAttach
<1>8. /\ c \notin Writers(k) /\ c \notin Observers(k)
      /\ Writers(k)' = (IF f.observe THEN Writers(k) ELSE Writers(k) \cup {c})
      /\ Observers(k)' = (IF f.observe THEN Observers(k) \cup {c} ELSE Observers(k))
      /\ \A l \in Leaf \ {k} : Writers(l)' = Writers(l) /\ Observers(l)' = Observers(l)
  <2>1. ASSUME NEW l \in Leaf PROVE c \notin Clients(l)
    BY <1>3, <1>4, <2>1 DEF Clients
  <2>2. Clients(k)' = Clients(k) \cup {c}
    BY <1>2, <1>4, <1>6 DEF Clients
  <2>3. \A l \in Leaf \ {k} : Clients(l)' = Clients(l)
    BY <1>2, <1>4, <1>6, <2>1 DEF Clients
  <2>4. c \notin Writers(k) /\ c \notin Observers(k)
    BY <1>2, <2>1 DEF Writers, Observers
  <2>5. Writers(k)' = (IF f.observe THEN Writers(k) ELSE Writers(k) \cup {c})
    BY <1>2, <1>6, <2>1, <2>2 DEF Writers, Clients
  <2>6. Observers(k)' = (IF f.observe THEN Observers(k) \cup {c} ELSE Observers(k))
    BY <1>2, <1>6, <2>1, <2>2 DEF Observers, Clients
  <2>7. ASSUME NEW l \in Leaf \ {k} PROVE Writers(l)' = Writers(l) /\ Observers(l)' = Observers(l)
    BY <1>6, <2>1, <2>3, <2>7 DEF Writers, Observers, Clients
  <2> QED
    BY <2>4, <2>5, <2>6, <2>7
<1>9. sess[k] \in Sessions
  BY <1>2 DEF TypeOK
<1>10. ASSUME NEW l \in Leaf
       PROVE  /\ \A d, e \in Writers(l)' : d = e
              /\ sess'[l].attached <=> Writers(l)' # {}
              /\ sess'[l].observers = Cardinality(Observers(l)')
  <2>1. /\ \A d, e \in Writers(l) : d = e
        /\ sess[l].attached <=> Writers(l) # {}
        /\ sess[l].observers = Cardinality(Observers(l))
    BY DEF ClaimInv, OneWriter, ClaimHeld, ObserverCount
  <2>2. CASE l # k
    <3>1. sess'[l] = sess[l]
      BY <1>7, <2>2 DEF TypeOK
    <3> QED
      BY <1>8, <2>1, <2>2, <3>1
  <2>3. CASE l = k /\ f.observe
    <3>1. sess'[l] = [sess[k] EXCEPT !.observers = @ + 1]
      BY <1>2, <1>7, <2>3 DEF OnAttach, TypeOK
    <3>2. sess'[l].attached = sess[l].attached /\ sess'[l].observers = sess[l].observers + 1
      BY <1>9, <2>3, <3>1 DEF Sessions
    <3>3. Cardinality(Observers(l)') = Cardinality(Observers(l)) + 1
      BY <1>8, <2>3, ObserversFinite, FS_AddElement
    <3> QED
      BY <1>8, <2>1, <2>3, <3>2, <3>3
  <2>4. CASE l = k /\ ~ f.observe
    <3>1. sess'[l] = TakeInputLease([sess[k] EXCEPT !.attached = TRUE, !.resync = TRUE], f.gen)
      BY <1>2, <1>5, <1>7, <2>4 DEF OnAttach, TypeOK
    <3>2. sess'[l].attached = TRUE /\ sess'[l].observers = sess[l].observers
      BY <1>9, <2>4, <3>1 DEF Sessions, TakeInputLease
    <3>3. Writers(l) = {}
      BY <1>5, <2>1, <2>4
    <3> QED
      BY <1>8, <2>1, <2>4, <3>2, <3>3
  <2> QED
    BY <2>2, <2>3, <2>4
<1>11. OneWriter'
  BY <1>10 DEF OneWriter
<1>12. ClaimHeld'
  BY <1>10 DEF ClaimHeld
<1>13. ObserverCount'
  BY <1>10 DEF ObserverCount
<1> QED
  BY <1>11, <1>12, <1>13 DEF ClaimInv

(* Nothing else moves a client between leaves or touches a claim. *)
LEMMA OthersKeepClaim ==
  ASSUME TypeOK,
         \/ Reap \/ Drain \/ Resync
         \/ DispatchRefused \/ DispatchIgnored \/ DispatchCredit \/ DispatchData \/ DispatchResize
         \/ \E l \in Leaf : LeaseDue(l)
         \/ UNCHANGED <<cl, sess>>
  PROVE  SameLeaves /\ SameClaims
<1> USE DEF daemonVars
<1>0. /\ \A c \in Conn : cl[c] \in ClientRecs
      /\ \A l \in Leaf : sess[l] \in Sessions
  BY DEF TypeOK
<1>1. CASE Reap
  <2>1. ASSUME NEW l \in Leaf
        PROVE  /\ sess'[l].attached = sess[l].attached
               /\ sess'[l].observers = sess[l].observers
    <3>1. sess[l] \in Sessions /\ dead[l] \in BOOLEAN
      BY DEF TypeOK
    <3> DEFINE e == ExpireInputLeaseIfDue(sess[l])
    <3>2. e \in Sessions /\ e.attached = sess[l].attached /\ e.observers = sess[l].observers
      BY <3>1, SessionTyped, SessionKeeps
    <3>3. sess'[l] = PollChild(e, dead[l])
      BY <1>1 DEF Reap
    <3> HIDE DEF e
    <3>4. /\ PollChild(e, dead[l]).attached = e.attached
          /\ PollChild(e, dead[l]).observers = e.observers
      BY <3>1, <3>2, SessionKeeps
    <3> QED
      BY <3>2, <3>3, <3>4
  <2> QED
    BY <1>1, <2>1 DEF Reap, SameLeaves, SameClaims
<1>2. CASE Drain
  <2>1. PICK l \in readable : DrainFanout(l) \/ DrainDirect(l) \/ DrainStop(l)
    BY <1>2 DEF Drain
  <2>2. l \in Leaf
    BY DEF TypeOK
  <2>3. SameClaims
    <3>1. \/ sess' = sess
          \/ sess' = [sess EXCEPT ![l] = DrainPtyAtMost(sess[l], Got(l))]
          \/ sess' = [sess EXCEPT ![l] = OnPtyReadable(sess[l], Got(l))]
      BY <2>1 DEF DrainFanout, DrainDirect, DrainStop
    <3>2. \A r \in {DrainPtyAtMost(sess[l], Got(l)), OnPtyReadable(sess[l], Got(l))} :
            r.attached = sess[l].attached /\ r.observers = sess[l].observers
      BY <1>0, <2>2 DEF DrainPtyAtMost, OnPtyReadable, Sessions
    <3> QED
      BY <2>2, <3>1, <3>2 DEF SameClaims, TypeOK
  <2>4. SameLeaves
    <3>1. \/ cl' = cl
          \/ cl' = [c \in Conn |-> IF c \in Clients(l)
                      THEN [cl[c] EXCEPT !.credit = @ - LiveChunk(c, Got(l))] ELSE cl[c]]
      BY <2>1 DEF DrainFanout, DrainDirect, DrainStop, FanoutPtyBytes
    <3> QED
      BY <1>0, <3>1 DEF SameLeaves, ClientRecs
  <2> QED
    BY <2>3, <2>4
<1>3. CASE Resync
  BY <1>0, <1>3 DEF Resync, SameLeaves, SameClaims, Sessions
<1>4. CASE DispatchRefused \/ DispatchIgnored \/ UNCHANGED <<cl, sess>>
  BY <1>4 DEF DispatchRefused, DispatchIgnored, SameLeaves, SameClaims
<1>5. CASE DispatchCredit
  <2>1. SameLeaves
    BY <1>0, <1>5 DEF DispatchCredit, SameLeaves, ClientRecs
  <2>2. SameClaims
    BY <1>0, <1>5 DEF DispatchCredit, OnCredit, SameClaims, Sessions, TypeOK
  <2> QED
    BY <2>1, <2>2
<1>6. CASE DispatchData \/ DispatchResize
  <2>1. \A l \in Leaf : \A r \in {AfterData(sess[l]), AfterResize(sess[l])} :
          r.attached = sess[l].attached /\ r.observers = sess[l].observers
    <3> TAKE l \in Leaf
    <3>1. PICK s \in Sessions : s = sess[l]
      BY <1>0
    <3> QED
      BY <3>1 DEF AfterData, AfterResize, ExpireInputLeaseIfDue, Sessions
  <2>2. cl' = cl /\ \A l \in Leaf : \/ sess'[l] = sess[l]
                                    \/ sess'[l] = AfterData(sess[l])
                                    \/ sess'[l] = AfterResize(sess[l])
    BY <1>6 DEF DispatchData, DispatchResize, TypeOK
  <2> QED
    BY <2>1, <2>2 DEF SameLeaves, SameClaims
<1>7. ASSUME NEW l \in Leaf, LeaseDue(l) PROVE SameLeaves /\ SameClaims
  BY <1>0, <1>7 DEF LeaseDue, SameLeaves, SameClaims, Sessions, TypeOK
<1> QED
  BY <1>1, <1>2, <1>3, <1>4, <1>5, <1>6, <1>7

(* What the daemon and most of the environment do to the frames on their way: *)
(* inboxes are emptied, never filled; leaves are taken away, or given to the  *)
(* connection whose frame is dispatched; the batch loses its head.            *)
LEMMA AttachKept ==
  ASSUME TypeOK, AttachInv, sent' = sent,
         \A c \in Conn : inbox'[c] = inbox[c] \/ inbox'[c] = <<>>,
         \A c \in Conn : \/ cl'[c].leaf = cl[c].leaf
                         \/ cl'[c].leaf = NoLeaf
                         \/ batch # NoBatch /\ c = batch.src,
         \/ /\ batch' = batch
            /\ \/ batch = NoBatch
               \/ SameLeaves /\ (At = {batch.src} => At' = {batch.src})
         \/ batch' = NoBatch
         \/ batch # NoBatch /\ batch' = [batch EXCEPT !.frames = Tail(@)]
  PROVE  AttachInv'
<1>1. batch' # NoBatch => batch # NoBatch /\ batch'.src = batch.src
  BY DEF TypeOK, Batches
<1>2. ASSUME NEW c \in Conn, Untouched(c) PROVE Untouched(c)'
  BY <1>1, <1>2 DEF Untouched
<1>3. ASSUME NEW c \in Conn, sent'[c] = 0 PROVE inbox'[c] = <<>> /\ Untouched(c)'
  BY <1>2, <1>3 DEF AttachInv
<1>4. ASSUME NEW c \in Conn, NEW i \in 1 .. Len(inbox'[c]), IsAttach(inbox'[c][i])
      PROVE  i = 1 /\ Untouched(c)'
  <2>1. inbox'[c] = inbox[c]
    <3>1. Len(<<>>) = 0
      OBVIOUS
    <3>2. inbox'[c] # <<>>
      BY <1>4, <3>1
    <3> QED
      BY <3>2
  <2>2. i = 1 /\ Untouched(c)
    BY <1>4, <2>1 DEF AttachInv
  <2> QED
    BY <1>2, <2>2
<1>5. ASSUME NEW i \in 1 .. Len(batch'.frames), IsAttach(batch'.frames[i])
      PROVE  i = 1 /\ At' = {batch'.src} /\ cl'[batch'.src].leaf = NoLeaf
  <2>1. CASE batch' = NoBatch
    <3>1. Len(batch'.frames) = 0
      BY <2>1 DEF NoBatch
    <3> QED
      BY <1>5, <3>1
  <2>2. CASE /\ batch' # NoBatch /\ batch' = batch
             /\ SameLeaves /\ (At = {batch.src} => At' = {batch.src})
    <3>1. SameLeaves /\ (At = {batch.src} => At' = {batch.src})
      BY <2>2
    <3>2. i = 1 /\ At = {batch.src} /\ cl[batch.src].leaf = NoLeaf
      BY <1>5, <2>2 DEF AttachInv
    <3>3. batch.src \in Conn
      BY <2>2 DEF TypeOK, Batches
    <3> QED
      BY <2>2, <3>1, <3>2, <3>3 DEF SameLeaves
  <2>3. CASE batch # NoBatch /\ batch' = [batch EXCEPT !.frames = Tail(@)]
    <3> DEFINE fs == batch.frames
    <3>1. fs \in Seq(InboundFrame) /\ fs # <<>>
      BY <2>3 DEF TypeOK, Batches
    <3>2. batch'.frames = Tail(fs)
      BY <2>3 DEF TypeOK, Batches
    <3>3. /\ Len(Tail(fs)) = Len(fs) - 1 /\ Len(fs) \in Nat
          /\ \A j \in 1 .. Len(fs) - 1 : Tail(fs)[j] = fs[j + 1]
      <4> HIDE DEF fs
      <4> QED
        BY <3>1, PopTyped
    <3>4. i \in Nat \ {0} /\ i + 1 \in 1 .. Len(fs) /\ IsAttach(fs[i + 1])
      <4> HIDE DEF fs
      <4>1. i \in 1 .. Len(fs) - 1
        BY <1>5, <3>2, <3>3
      <4>2. batch'.frames[i] = fs[i + 1]
        BY <3>2, <3>3, <4>1
      <4> QED
        BY <1>5, <3>3, <4>1, <4>2
    <3>5. i + 1 = 1
      BY <3>4 DEF AttachInv
    <3> QED
      BY <3>4, <3>5
  <2> QED
    BY <2>1, <2>2, <2>3
<1> QED
  BY <1>3, <1>4, <1>5 DEF AttachInv

(* The daemon's own steps. *)
LEMMA DaemonKeepsClaim ==
  ASSUME TypeOK, AttachInv, ClaimInv, DaemonStep
  PROVE  AttachInv' /\ ClaimInv'
<1> USE DEF daemonVars, loopVars, clientVars, childVars
<1>1. ASSUME Reap \/ Drain \/ Resync PROVE AttachInv' /\ ClaimInv'
  <2>1. SameLeaves /\ SameClaims
    BY <1>1, OthersKeepClaim
  <2>2. ClaimInv'
    BY <2>1, ClaimKept
  <2>3. UNCHANGED <<order, batch, inbox, sent>>
    BY <1>1 DEF Reap, Drain, Resync
  <2>4. At' = At
    BY <2>3 DEF At
  <2>5. AttachInv'
    BY <2>1, <2>3, <2>4, AttachKept DEF SameLeaves
  <2> QED
    BY <2>2, <2>5
<1>2. ASSUME Poll PROVE AttachInv' /\ ClaimInv'
  <2>1. UNCHANGED <<cl, sess, batch, inbox, sent>>
    BY <1>2 DEF Poll
  <2>2. SameLeaves /\ SameClaims
    BY <2>1, OthersKeepClaim
  <2>3. ClaimInv'
    BY <2>2, ClaimKept
  <2>4. ASSUME batch # NoBatch, At = {batch.src} PROVE At' = {batch.src}
    <3>1. batch.at \in Nat \ {0} /\ batch'.at = batch.at
      BY <2>1, <2>4 DEF TypeOK, Batches
    <3>2. batch.at <= Len(order) /\ order[batch.at] = batch.src
      BY <2>4 DEF At
    <3>3. /\ Len(order) \in Nat
          /\ \/ order' = order
             \/ backlog # <<>> /\ order' = Append(order, Head(backlog))
      BY <1>2, LenProperties DEF Poll, TypeOK
    <3>4. CASE order' = order
      BY <3>1, <3>2, <3>4 DEF At
    <3>5. CASE backlog # <<>> /\ order' = Append(order, Head(backlog))
      <4>1. Head(backlog) \in Conn
        BY <3>5, PopTyped DEF TypeOK
      <4>2. /\ Len(order') = Len(order) + 1
            /\ \A j \in 1 .. Len(order) : order'[j] = order[j]
        BY <3>5, <4>1, AppendProperties DEF TypeOK
      <4>3. batch.at <= Len(order') /\ order'[batch.at] = batch.src
        BY <3>1, <3>2, <3>3, <4>2
      <4> QED
        BY <3>1, <4>3 DEF At
    <3> QED
      BY <3>3, <3>4, <3>5
  <2>5. AttachInv'
    BY <2>1, <2>2, <2>4, AttachKept
  <2> QED
    BY <2>3, <2>5
<1>3. ASSUME ReadClient PROVE AttachInv' /\ ClaimInv'
  <2>1. PICK i \in ready : ReadFrames(i) \/ ReadMalformed(i) \/ ReadEof(i) \/ ReadWouldBlock(i)
    BY <1>3 DEF ReadClient
  <2>2. i \in Nat \ {0} /\ i <= Len(order) /\ batch = NoBatch /\ Len(order) \in Nat
    BY <2>1, LenProperties DEF ReadFrames, ReadMalformed, ReadEof, ReadWouldBlock, AtSlot, TypeOK
  <2>3. i \in 1 .. Len(order)
    BY <2>2
  <2>4. order[i] \in Conn
    BY <2>3, ElementOfSeq DEF TypeOK
  <2>5. CASE ReadFrames(i)
    <3>1. SameLeaves /\ SameClaims /\ UNCHANGED <<cl, sess, order, sent>>
      <4>1. UNCHANGED <<cl, sess, order, sent>>
        BY <2>5 DEF ReadFrames
      <4> QED
        BY <4>1, OthersKeepClaim
    <3>2. ClaimInv'
      BY <3>1, ClaimKept
    <3>3. PICK c \in Conn : c = order[i]
      BY <2>4
    <3>4. /\ batch' = [at |-> i, src |-> c, frames |-> inbox[c]]
          /\ inbox[c] # <<>>
          /\ inbox' = [inbox EXCEPT ![c] = <<>>]
      BY <2>5, <3>3 DEF ReadFrames
    <3>5. inbox'[c] = <<>> /\ \A d \in Conn \ {c} : inbox'[d] = inbox[d]
      BY <3>4 DEF TypeOK
    <3>6. ASSUME NEW d \in Conn \ {c}, Untouched(d) PROVE Untouched(d)'
      BY <3>1, <3>4, <3>6 DEF Untouched
    <3>7. \A d \in Conn : sent'[d] = 0 => inbox'[d] = <<>> /\ Untouched(d)'
      <4> TAKE d \in Conn
      <4>1. sent[c] # 0
        BY <3>4 DEF AttachInv
      <4>2. d # c /\ sent[d] = 0 => inbox[d] = <<>> /\ Untouched(d)
        BY DEF AttachInv
      <4> QED
        BY <3>1, <3>5, <3>6, <4>1, <4>2
    <3>8. \A d \in Conn : \A j \in 1 .. Len(inbox'[d]) :
            IsAttach(inbox'[d][j]) => j = 1 /\ Untouched(d)'
      <4> TAKE d \in Conn
      <4>1. CASE d = c
        <5>1. Len(inbox'[d]) = 0
          BY <3>5, <4>1
        <5> QED
          BY <5>1
      <4>2. CASE d # c
        <5>1. \A j \in 1 .. Len(inbox[d]) : IsAttach(inbox[d][j]) => j = 1 /\ Untouched(d)
          BY DEF AttachInv
        <5> QED
          BY <3>5, <3>6, <4>2, <5>1
      <4> QED
        BY <4>1, <4>2
    <3>9. At' = {c} /\ batch'.src = c /\ batch'.frames = inbox[c]
      BY <2>2, <3>1, <3>3, <3>4 DEF At
    <3>10. \A j \in 1 .. Len(inbox[c]) : IsAttach(inbox[c][j]) => j = 1 /\ cl[c].leaf = NoLeaf
      BY DEF AttachInv, Untouched
    <3>11. AttachInv'
      BY <3>1, <3>7, <3>8, <3>9, <3>10 DEF AttachInv
    <3> QED
      BY <3>2, <3>11
  <2>6. CASE ReadMalformed(i) \/ ReadEof(i)
    <3>1. Forget(i) /\ sess' = SessAfterDrop(order[i]) /\ batch' = batch /\ sent' = sent
      BY <2>6 DEF ReadMalformed, ReadEof, DropClient
    <3>2. \A c \in Conn : inbox'[c] = inbox[c] \/ inbox'[c] = <<>>
      BY <2>6 DEF ReadMalformed, ReadEof, TypeOK
    <3>3. \A c \in Conn : cl'[c].leaf = cl[c].leaf \/ cl'[c].leaf = NoLeaf
      BY <3>1 DEF Forget, Accepted, TypeOK
    <3>4. AttachInv'
      BY <2>2, <3>1, <3>2, <3>3, AttachKept
    <3> QED
      BY <2>3, <3>1, <3>4, DropClaim
  <2>7. CASE ReadWouldBlock(i)
    <3>1. UNCHANGED <<cl, sess, order, sent, inbox, batch>>
      BY <2>7 DEF ReadWouldBlock
    <3>2. SameLeaves /\ SameClaims
      BY <3>1, OthersKeepClaim
    <3> QED
      BY <2>2, <3>1, <3>2, ClaimKept, AttachKept
  <2> QED
    BY <2>1, <2>5, <2>6, <2>7
<1>4. ASSUME DispatchFrame PROVE AttachInv' /\ ClaimInv'
  <2>0. Dispatching
    BY <1>4 DEF DispatchFrame, DispatchRefused, DispatchAttach, DispatchUnattached,
                DispatchIgnored, DispatchCredit, DispatchData, DispatchResize
  <2>1. /\ batch # NoBatch /\ UNCHANGED <<inbox, sent>>
        /\ batch' = NoBatch \/ batch' = [batch EXCEPT !.frames = Tail(@)]
    BY <2>0 DEF Dispatching
  <2>2. CASE DispatchAttach
    <3>1. ClaimInv'
      BY <2>2, AttachClaim
    <3>2. At = {batch.src}
      <4> DEFINE fs == batch.frames
      <4>1. fs \in Seq(InboundFrame) /\ fs # <<>> /\ IsAttach(Head(fs))
        BY <2>1, <2>2 DEF TypeOK, Batches, DispatchAttach, Frame, IsAttach
      <4>2. 1 \in 1 .. Len(fs) /\ Head(fs) = fs[1]
        <5> HIDE DEF fs
        <5>1. Len(fs) \in Nat \ {0} /\ Head(fs) = fs[1]
          BY <4>1, PopTyped
        <5> QED
          BY <5>1
      <4> QED
        BY <4>1, <4>2 DEF AttachInv
    <3>3. \A c \in Conn : cl'[c].leaf = cl[c].leaf \/ c = batch.src
      BY <2>2, <3>2 DEF DispatchAttach
    <3> QED
      BY <2>1, <3>1, <3>3, AttachKept
  <2>3. CASE DispatchUnattached /\ ~ UNCHANGED <<cl, sess>>
    <3>1. At # {} /\ Forget(batch.at) /\ sess' = SessAfterDrop(order[batch.at])
      BY <2>3 DEF DispatchUnattached, DropClient
    <3>2. batch.at \in 1 .. Len(order)
      <4>1. batch.at \in Nat \ {0} /\ Len(order) \in Nat
        BY <2>1, LenProperties DEF TypeOK, Batches
      <4>2. batch.at <= Len(order)
        BY <3>1 DEF At
      <4> QED
        BY <4>1, <4>2
    <3>3. \A c \in Conn : cl'[c].leaf = cl[c].leaf \/ cl'[c].leaf = NoLeaf
      BY <3>1 DEF Forget, Accepted, TypeOK
    <3> QED
      BY <2>1, <3>1, <3>2, <3>3, DropClaim, AttachKept
  <2>4. CASE \/ DispatchRefused \/ DispatchIgnored \/ DispatchCredit \/ DispatchData
             \/ DispatchResize \/ UNCHANGED <<cl, sess>>
    <3>1. SameLeaves /\ SameClaims
      BY <2>4, OthersKeepClaim
    <3>2. \A c \in Conn : cl'[c].leaf = cl[c].leaf
      BY <3>1 DEF SameLeaves
    <3> QED
      BY <2>1, <3>1, <3>2, ClaimKept, AttachKept
  <2> QED
    BY <1>4, <2>2, <2>3, <2>4 DEF DispatchFrame
<1>5. ASSUME Flush PROVE AttachInv' /\ ClaimInv'
  <2>1. batch = NoBatch /\ UNCHANGED <<batch, inbox, sent>>
    BY <1>5 DEF Flush, ReadDone
  <2>2. CASE UNCHANGED <<cl, sess>>
    <3>1. SameLeaves /\ SameClaims
      BY <2>2, OthersKeepClaim
    <3> QED
      BY <2>1, <2>2, <3>1, ClaimKept, AttachKept
  <2>3. CASE \E i \in DOMAIN order : Forget(i) /\ sess' = SessAfterDrop(order[i])
    <3>1. PICK i \in DOMAIN order : Forget(i) /\ sess' = SessAfterDrop(order[i])
      BY <2>3
    <3>2. i \in 1 .. Len(order)
      BY LenProperties DEF TypeOK
    <3>3. \A c \in Conn : cl'[c].leaf = cl[c].leaf \/ cl'[c].leaf = NoLeaf
      BY <3>1 DEF Forget, Accepted, TypeOK
    <3> QED
      BY <2>1, <3>1, <3>2, <3>3, DropClaim, AttachKept
  <2> QED
    BY <1>5, <2>2, <2>3 DEF Flush
<1> QED
  BY <1>1, <1>2, <1>3, <1>4, <1>5 DEF DaemonStep

(* A frame appended to an inbox keeps ATTACH first if it is no ATTACH, or if  *)
(* it is the first frame of its connection.                                   *)
LEMMA AppendKeepsAttach ==
  ASSUME TypeOK, AttachInv, NEW c \in Conn, NEW f \in InboundFrame,
         IsAttach(f) => sent[c] = 0,
         inbox' = [inbox EXCEPT ![c] = Append(@, f)],
         sent' \in [Conn -> Nat], sent'[c] # 0, \A d \in Conn \ {c} : sent'[d] = sent[d],
         UNCHANGED <<cl, batch, order>>
  PROVE  AttachInv'
<1>1. \A d \in Conn : Untouched(d)' <=> Untouched(d)
  BY DEF Untouched
<1>2. At' = At
  BY DEF At
<1>3. inbox'[c] = Append(inbox[c], f) /\ \A d \in Conn \ {c} : inbox'[d] = inbox[d]
  BY DEF TypeOK
<1>4. \A d \in Conn : sent'[d] = 0 => inbox'[d] = <<>> /\ Untouched(d)'
  BY <1>1, <1>3 DEF AttachInv
<1>5. ASSUME NEW d \in Conn, NEW i \in 1 .. Len(inbox'[d]), IsAttach(inbox'[d][i])
      PROVE  i = 1 /\ Untouched(d)'
  <2>1. CASE d # c
    <3>1. \A j \in 1 .. Len(inbox[d]) : IsAttach(inbox[d][j]) => j = 1 /\ Untouched(d)
      BY DEF AttachInv
    <3>2. inbox'[d] = inbox[d]
      BY <1>3, <2>1
    <3> QED
      BY <1>1, <1>5, <3>1, <3>2
  <2>2. CASE d = c
    <3> DEFINE q == inbox[c]
    <3>1. q \in Seq(InboundFrame) /\ inbox'[d] = Append(q, f)
      BY <1>3, <2>2 DEF TypeOK
    <3>2. \A j \in 1 .. Len(q) : IsAttach(q[j]) => j = 1 /\ Untouched(c)
      BY DEF AttachInv
    <3>3. sent[c] = 0 => q = <<>> /\ Untouched(c)
      BY DEF AttachInv
    <3> HIDE DEF q
    <3>4. /\ Len(Append(q, f)) = Len(q) + 1 /\ Len(q) \in Nat
          /\ Append(q, f)[Len(q) + 1] = f
          /\ \A j \in 1 .. Len(q) : Append(q, f)[j] = q[j]
      BY <3>1, AppendProperties, LenProperties
    <3>5. i \in 1 .. Len(q) \/ i = Len(q) + 1
      BY <1>5, <3>1, <3>4
    <3>6. CASE i \in 1 .. Len(q)
      BY <1>1, <1>5, <2>2, <3>1, <3>2, <3>4, <3>6
    <3>7. CASE i = Len(q) + 1
      <4>1. IsAttach(f)
        BY <1>5, <3>1, <3>4, <3>7
      <4>2. q = <<>> /\ Untouched(c)
        BY <3>3, <4>1
      <4>3. Len(q) = 0
        BY <4>2
      <4> QED
        BY <1>1, <2>2, <3>7, <4>2, <4>3
    <3> QED
      BY <3>5, <3>6, <3>7
  <2> QED
    BY <2>1, <2>2
<1>6. \A i \in 1 .. Len(batch'.frames) : IsAttach(batch'.frames[i]) =>
        i = 1 /\ At' = {batch'.src} /\ cl'[batch'.src].leaf = NoLeaf
  BY <1>2 DEF AttachInv
<1> QED
  BY <1>4, <1>5, <1>6 DEF AttachInv

LEMMA EnvironmentKeepsClaim ==
  ASSUME TypeOK, AttachInv, ClaimInv, "late" \notin Freedom,
         \/ \E c \in Conn : Connect(c) \/ Greet(c) \/ Close(c) \/ ClientRecv(c)
         \/ \E c \in Conn, f \in InFrames \cup {Data} : Send(c, f)
         \/ \E l \in Leaf : ChildWrite(l) \/ ChildExit(l) \/ LeaseDue(l)
  PROVE  AttachInv' /\ ClaimInv'
<1> USE DEF daemonVars, loopVars, clientVars, childVars
<1>1. SameLeaves /\ SameClaims
  <2>1. UNCHANGED <<cl, sess>> \/ \E l \in Leaf : LeaseDue(l)
    BY DEF Connect, Greet, Close, ClientRecv, Send, ChildWrite, ChildExit
  <2> QED
    BY <2>1, OthersKeepClaim
<1>2. ClaimInv'
  BY <1>1, ClaimKept
<1>3. UNCHANGED <<order, batch>>
  BY DEF Connect, Greet, Close, ClientRecv, Send, ChildWrite, ChildExit, LeaseDue
<1>4. At' = At
  BY <1>3 DEF At
<1>5. ASSUME UNCHANGED <<inbox, sent>> PROVE AttachInv'
  BY <1>1, <1>3, <1>4, <1>5, AttachKept DEF SameLeaves
<1>6. ASSUME NEW c \in Conn, Greet(c) PROVE AttachInv'
  <2>1. sent[c] \in Nat /\ sent[c] < 2
    BY <1>6, GreetingTyped DEF Greet, Greeted, TypeOK
  <2>2. HostGreeting[sent[c] + 1] \in InboundFrame
    BY <2>1, GreetingTyped
  <2>3. IsAttach(HostGreeting[sent[c] + 1]) => sent[c] = 0
    BY <2>1, GreetingTyped DEF IsAttach
  <2>4. sent' \in [Conn -> Nat] /\ sent'[c] # 0 /\ \A d \in Conn \ {c} : sent'[d] = sent[d]
    BY <1>6, <2>1 DEF Greet, TypeOK
  <2> QED
    BY <1>6, <2>2, <2>3, <2>4, AppendKeepsAttach DEF Greet
<1>7. ASSUME NEW c \in Conn, NEW f \in InFrames \cup {Data}, Send(c, f) PROVE AttachInv'
  <2>1. f \in InboundFrame
    BY FrameAssumption DEF Data, InboundFrame
  <2>2. IsAttach(f) => sent[c] = 0
    BY <1>7 DEF Send, MaySend, IsAttach, Data
  <2>3. sent' \in [Conn -> Nat] /\ sent'[c] # 0 /\ \A d \in Conn \ {c} : sent'[d] = sent[d]
    BY <1>7 DEF Send, TypeOK
  <2> QED
    BY <1>7, <2>1, <2>2, <2>3, AppendKeepsAttach DEF Send
<1>8. ASSUME NEW c \in Conn, ClientRecv(c) PROVE AttachInv'
  <2>1. UNCHANGED <<cl, batch, order, sent>>
    BY <1>8 DEF ClientRecv
  <2>2. CASE inbox' = inbox
    BY <1>5, <2>1, <2>2
  <2>3. CASE inbox' # inbox
    <3> DEFINE r == Replenish(Head(wire[c]))
    <3>1. c \in Host /\ inbox' = [inbox EXCEPT ![c] = inbox[c] \o r]
      BY <1>8, <2>3 DEF ClientRecv
    <3>2. sent[c] # 0
      BY <1>8, <3>1, GreetingTyped, SMTT(30) DEF ClientRecv, Greeted, TypeOK
    <3>3. r = <<>> \/ \E n \in Nat : r = <<Credit(n)>>
      BY ReplenishTyped
    <3> HIDE DEF r
    <3>4. CASE r = <<>>
      <4>1. inbox[c] \o r = inbox[c]
        BY <3>4, ConcatEmptySeq DEF TypeOK
      <4> QED
        BY <2>3, <3>1, <4>1 DEF TypeOK
    <3>5. ASSUME NEW n \in Nat, r = <<Credit(n)>> PROVE AttachInv'
      <4>1. Credit(n) \in InboundFrame /\ ~ IsAttach(Credit(n))
        BY DEF Credit, InboundFrame, IsAttach
      <4>2. inbox[c] \in Seq(InboundFrame)
        BY DEF TypeOK
      <4> HIDE DEF Credit
      <4>3. inbox[c] \o r = Append(inbox[c], Credit(n))
        BY <3>5, <4>1, <4>2
      <4> QED
        BY <2>1, <3>1, <3>2, <4>1, <4>3, AppendKeepsAttach DEF TypeOK
    <3> QED
      BY <3>3, <3>4, <3>5
  <2> QED
    BY <2>2, <2>3
<1>9. AttachInv'
  <2>1. \/ UNCHANGED <<inbox, sent>>
        \/ \E c \in Conn : Greet(c) \/ ClientRecv(c)
        \/ \E c \in Conn, f \in InFrames \cup {Data} : Send(c, f)
    BY DEF Connect, Close, ChildWrite, ChildExit, LeaseDue
  <2> QED
    BY <1>5, <1>6, <1>7, <1>8, <2>1
<1> QED
  BY <1>2, <1>9

LEMMA InitClaim == Init => ClaimIInv
<1> SUFFICES ASSUME Init PROVE ClaimIInv
  OBVIOUS
<1>1. NoLeaf \notin Leaf
  BY LeafAssumption
<1>2. \A l \in Leaf : Writers(l) = {} /\ Observers(l) = {}
  BY <1>1 DEF Init, Accepted, Writers, Observers, Clients
<1>3. OneWriter /\ ClaimHeld
  BY <1>2 DEF OneWriter, ClaimHeld, Init, SpawnConfigured
<1>4. ObserverCount
  BY <1>2, FS_EmptySet DEF ObserverCount, Init, SpawnConfigured
<1>5. AttachInv
  <2>1. \A c \in Conn : inbox[c] = <<>> /\ Untouched(c)
    BY DEF Init, Untouched, Accepted
  <2>2. batch.frames = <<>> /\ Len(<<>>) = 0
    BY DEF Init, NoBatch
  <2> QED
    BY <2>1, <2>2 DEF AttachInv
<1> QED
  BY <1>3, <1>4, <1>5, InitTyped DEF ClaimIInv, ClaimInv

LEMMA NextClaim ==
  ASSUME "late" \notin Freedom
  PROVE  ClaimIInv /\ [Next]_vars => ClaimIInv'
<1> SUFFICES ASSUME ClaimIInv, [Next]_vars PROVE ClaimIInv'
  OBVIOUS
<1>1. TypeOK /\ AttachInv /\ ClaimInv
  BY DEF ClaimIInv
<1>2. TypeOK'
  BY <1>1, NextTyped
<1>3. AttachInv' /\ ClaimInv'
  <2>1. CASE DaemonStep
    BY <1>1, <2>1, DaemonKeepsClaim
  <2>2. CASE UNCHANGED vars
    <3>1. UNCHANGED <<order, cl, sess, batch, inbox, sent>>
      BY <2>2 DEF vars, daemonVars, loopVars, clientVars
    <3>2. SameLeaves /\ SameClaims
      BY <1>1, <3>1, OthersKeepClaim
    <3>3. At' = At
      BY <3>1 DEF At
    <3> QED
      BY <1>1, <3>1, <3>2, <3>3, ClaimKept, AttachKept DEF SameLeaves
  <2> QED
    BY <1>1, <2>1, <2>2, EnvironmentKeepsClaim DEF Next
<1> QED
  BY <1>2, <1>3 DEF ClaimIInv

(* As long as no client repeats its ATTACH or sends it after other frames, a  *)
(* session is claimed exactly while one connected client is its writer, and   *)
(* it counts its observers right: no claim leaks when connections are         *)
(* dropped, by a read, a dispatch or a failed write, in any order             *)
(* (dispatch_frame, drop_client, flush_outbound).                             *)
THEOREM ClaimsHold ==
  ASSUME "late" \notin Freedom
  PROVE  Spec => []ClaimInv
<1>1. Init => ClaimIInv
  BY InitClaim
<1>2. ClaimIInv /\ [Next]_vars => ClaimIInv'
  BY NextClaim
<1>3. ClaimIInv => ClaimInv
  BY DEF ClaimIInv
<1> QED
  BY <1>1, <1>2, <1>3, PTL DEF Spec

(* Under the same assumption ATTACH stays first on its way to the kernel: no  *)
(* ATTACH is dispatched to a slot another connection holds, or to one that is *)
(* already attached (read_client, dispatch_frame).                            *)
THEOREM AttachFirst ==
  ASSUME "late" \notin Freedom
  PROVE  Spec => []AttachInv
<1>1. Init => ClaimIInv
  BY InitClaim
<1>2. ClaimIInv /\ [Next]_vars => ClaimIInv'
  BY NextClaim
<1>3. ClaimIInv => AttachInv
  BY DEF ClaimIInv
<1> QED
  BY <1>1, <1>2, <1>3, PTL DEF Spec

-----------------------------------------------------------------------------
(* The client table, which the two invariants below rest on: a connection is  *)
(* in the Vec or the backlog at most once, is open on the daemon's side while *)
(* it is, and has a leaf only in the Vec.                                     *)
Slots == 1 .. Len(order)
Waits == 1 .. Len(backlog)

Distinct ==
  /\ \A i, j \in Slots : order[i] = order[j] => i = j
  /\ \A i, j \in Waits : backlog[i] = backlog[j] => i = j
  /\ \A i \in Slots, j \in Waits : order[i] # backlog[j]
Connected ==
  /\ \A i \in Slots : st[order[i]] \in {"open", "eof"}
  /\ \A i \in Waits : st[backlog[i]] \in {"open", "eof"}
Seated == \A c \in Conn : cl[c] # Accepted => \E i \in Slots : order[i] = c
TableIInv == TypeOK /\ Distinct /\ Connected /\ Seated

(* Vec::remove: the slots before i stay, the ones behind it move down one. *)
LEMMA RemoveAtElements ==
  ASSUME NEW S, NEW s \in Seq(S), NEW i \in 1 .. Len(s)
  PROVE  /\ Len(RemoveAt(s, i)) = Len(s) - 1
         /\ \A j \in 1 .. Len(s) - 1 : RemoveAt(s, i)[j] = IF j < i THEN s[j] ELSE s[j + 1]
<1> DEFINE n == Len(s)
           a == SubSeq(s, 1, i - 1)
           b == SubSeq(s, i + 1, n)
<1>1. n \in Nat /\ i \in Nat /\ 1 <= i /\ i <= n /\ \A j \in 1 .. n : s[j] \in S
  BY LenProperties, ElementOfSeq
<1> HIDE DEF n
<1>2. /\ a \in Seq(S) /\ Len(a) = i - 1
      /\ \A j \in 1 .. i - 1 : a[j] = s[j]
  <2>1. \A j \in 1 .. i - 1 : s[j] \in S
    BY <1>1
  <2>2. /\ a \in Seq(S) /\ Len(a) = (IF 1 <= i - 1 THEN (i - 1) - 1 + 1 ELSE 0)
        /\ \A j \in 1 .. (i - 1) - 1 + 1 : a[j] = s[1 + j - 1]
    BY <1>1, <2>1, SubSeqProperties
  <2> HIDE DEF a
  <2> QED
    BY <1>1, <2>2
<1>3. /\ b \in Seq(S) /\ Len(b) = n - i
      /\ \A j \in 1 .. n - i : b[j] = s[i + j]
  <2>1. \A j \in i + 1 .. n : s[j] \in S
    BY <1>1
  <2>2. /\ b \in Seq(S) /\ Len(b) = (IF i + 1 <= n THEN n - (i + 1) + 1 ELSE 0)
        /\ \A j \in 1 .. n - (i + 1) + 1 : b[j] = s[(i + 1) + j - 1]
    BY <1>1, <2>1, SubSeqProperties
  <2> HIDE DEF b
  <2> QED
    BY <1>1, <2>2
<1>4. RemoveAt(s, i) = a \o b
  BY DEF RemoveAt, n
<1> HIDE DEF a, b
<1>5. /\ Len(a \o b) = Len(a) + Len(b)
      /\ \A j \in 1 .. Len(a) + Len(b) :
           (a \o b)[j] = IF j <= Len(a) THEN a[j] ELSE b[j - Len(a)]
  BY <1>2, <1>3, ConcatProperties
<1>6. PICK r : r = a \o b
  OBVIOUS
<1>7. Len(r) = n - 1
  BY <1>1, <1>2, <1>3, <1>5, <1>6
<1>8. ASSUME NEW j \in 1 .. n - 1 PROVE r[j] = IF j < i THEN s[j] ELSE s[j + 1]
  <2>1. j \in 1 .. Len(a) + Len(b)
    BY <1>1, <1>2, <1>3
  <2>2. r[j] = IF j <= Len(a) THEN a[j] ELSE b[j - Len(a)]
    BY <1>5, <1>6, <2>1
  <2>3. CASE j < i
    BY <1>1, <1>2, <2>2, <2>3
  <2>4. CASE ~ (j < i)
    <3>1. j - (i - 1) \in 1 .. n - i /\ i + (j - (i - 1)) = j + 1
      BY <1>1, <2>4
    <3>2. b[j - (i - 1)] = s[j + 1]
      BY <1>3, <3>1
    <3>3. ~ (j <= Len(a)) /\ j - Len(a) = j - (i - 1)
      BY <1>1, <1>2, <2>4
    <3> QED
      BY <2>2, <2>4, <3>2, <3>3
  <2> QED
    BY <2>3, <2>4
<1> QED
  BY <1>4, <1>6, <1>7, <1>8 DEF n

(* drop_client leaves every other connection in the table, once. *)
LEMMA ForgetSlots ==
  ASSUME TypeOK, Distinct, NEW i \in Slots, Forget(i)
  PROVE  /\ \A j \in Slots' : \E k \in Slots \ {i} : order'[j] = order[k]
         /\ \A k \in Slots \ {i} : \E j \in Slots' : order'[j] = order[k]
         /\ \A j, k \in Slots' : order'[j] = order'[k] => j = k
         /\ \A j \in Slots' : order'[j] # order[i]
         /\ \A k \in Slots : k < i => k \in Slots' /\ order'[k] = order[k]
<1> DEFINE n == Len(order)
           new(j) == IF j < i THEN order[j] ELSE order[j + 1]
<1>1. n \in Nat /\ i \in 1 .. n
  BY LenProperties DEF TypeOK, Slots
<1>2. Len(order') = n - 1 /\ \A j \in 1 .. n - 1 : order'[j] = new(j)
  BY RemoveAtElements DEF TypeOK, Forget, Slots
<1>3. \A j, k \in 1 .. n : order[j] = order[k] => j = k
  BY DEF Distinct, Slots
<1> HIDE DEF n
<1>4. ASSUME NEW j \in 1 .. n - 1 PROVE \E k \in (1 .. n) \ {i} : order'[j] = order[k] /\ (k = j \/ k = j + 1)
  BY <1>1, <1>2
<1>5. ASSUME NEW k \in (1 .. n) \ {i} PROVE \E j \in 1 .. n - 1 : order'[j] = order[k]
  <2>1. CASE k < i
    BY <1>1, <1>2, <2>1
  <2>2. CASE k > i
    <3>1. k - 1 \in 1 .. n - 1 /\ ~ (k - 1 < i) /\ (k - 1) + 1 = k
      BY <1>1, <2>2
    <3>2. order'[k - 1] = new(k - 1)
      BY <1>2, <3>1
    <3>3. order'[k - 1] = order[k]
      BY <3>1, <3>2
    <3> QED
      BY <3>1, <3>3
  <2> QED
    BY <1>1, <2>1, <2>2
<1>6. ASSUME NEW j \in 1 .. n - 1, NEW k \in 1 .. n - 1, order'[j] = order'[k] PROVE j = k
  <2>1. order'[j] = new(j) /\ order'[k] = new(k)
    BY <1>2
  <2>2. /\ j \in 1 .. n /\ j + 1 \in 1 .. n
        /\ k \in 1 .. n /\ k + 1 \in 1 .. n
    BY <1>1
  <2>3. PICK p \in 1 .. n : p = (IF j < i THEN j ELSE j + 1) /\ order'[j] = order[p]
    BY <1>1, <2>1, <2>2
  <2>4. PICK q \in 1 .. n : q = (IF k < i THEN k ELSE k + 1) /\ order'[k] = order[q]
    BY <1>1, <2>1, <2>2
  <2>5. p = q
    BY <1>3, <1>6, <2>3, <2>4
  <2> QED
    BY <1>1, <2>3, <2>4, <2>5
<1>7. ASSUME NEW j \in 1 .. n - 1 PROVE order'[j] # order[i]
  <2>1. PICK k \in (1 .. n) \ {i} : order'[j] = order[k]
    BY <1>4
  <2> QED
    BY <1>1, <1>3, <2>1
<1>8. ASSUME NEW k \in 1 .. n, k < i PROVE k \in 1 .. n - 1 /\ order'[k] = order[k]
  BY <1>1, <1>2, <1>8
<1>9. Slots = 1 .. n /\ Slots' = 1 .. n - 1
  BY <1>2 DEF Slots, n
<1> QED
  BY <1>4, <1>5, <1>6, <1>7, <1>8, <1>9

LEMMA ForgetTable ==
  ASSUME TypeOK, Distinct, Connected, Seated, NEW i \in Slots, Forget(i), backlog' = backlog
  PROVE  Distinct' /\ Connected' /\ Seated'
<1>1. /\ \A j \in Slots' : \E k \in Slots \ {i} : order'[j] = order[k]
      /\ \A k \in Slots \ {i} : \E j \in Slots' : order'[j] = order[k]
      /\ \A j, k \in Slots' : order'[j] = order'[k] => j = k
      /\ \A j \in Slots' : order'[j] # order[i]
  BY ForgetSlots
<1>2. Waits' = Waits
  BY DEF Waits
<1>3. order[i] \in Conn
  BY ElementOfSeq DEF TypeOK, Slots
<1>4. /\ \A c \in Conn \ {order[i]} : cl'[c] = cl[c] /\ st'[c] = st[c]
      /\ cl'[order[i]] = Accepted
  BY <1>3 DEF Forget, TypeOK
<1>5. Distinct'
  BY <1>1, <1>2 DEF Distinct
<1>6. (\A k \in Slots : order[k] \in Conn) /\ \A k \in Waits : backlog[k] \in Conn
  BY ElementOfSeq DEF TypeOK, Slots, Waits
<1>7. Connected'
  <2>1. ASSUME NEW j \in Slots' PROVE st'[order'[j]] \in {"open", "eof"}
    <3>1. PICK k \in Slots \ {i} : order'[j] = order[k]
      BY <1>1
    <3>2. order[k] # order[i]
      BY <1>1, <3>1
    <3> QED
      BY <1>4, <1>6, <3>1, <3>2 DEF Connected
  <2>2. ASSUME NEW j \in Waits PROVE st'[backlog[j]] \in {"open", "eof"}
    BY <1>4, <1>6 DEF Connected, Distinct
  <2> QED
    BY <1>2, <2>1, <2>2 DEF Connected
<1>8. Seated'
  <2> SUFFICES ASSUME NEW c \in Conn, cl'[c] # Accepted
               PROVE  \E j \in Slots' : order'[j] = c
    BY DEF Seated
  <2>1. c # order[i] /\ cl[c] # Accepted
    BY <1>4
  <2>2. PICK k \in Slots : order[k] = c
    BY <2>1 DEF Seated
  <2> QED
    BY <1>1, <2>1, <2>2
<1> QED
  BY <1>5, <1>7, <1>8

(* Nobody enters or leaves, and only connections in the table change. *)
LEMMA SameTable ==
  ASSUME TypeOK, Distinct, Connected, Seated, UNCHANGED <<order, backlog>>,
         \A c \in Conn : st[c] \in {"open", "eof"} => st'[c] \in {"open", "eof"},
         \A c \in Conn : cl'[c] = cl[c] \/ \E i \in Slots : order[i] = c
  PROVE  Distinct' /\ Connected' /\ Seated'
<1>1. Slots' = Slots /\ Waits' = Waits
  BY DEF Slots, Waits
<1>2. (\A k \in Slots : order[k] \in Conn) /\ \A k \in Waits : backlog[k] \in Conn
  BY ElementOfSeq DEF TypeOK, Slots, Waits
<1>3. Distinct'
  BY <1>1 DEF Distinct
<1>4. Connected'
  BY <1>1, <1>2 DEF Connected
<1>5. Seated'
  BY <1>1 DEF Seated
<1> QED
  BY <1>3, <1>4, <1>5

(* Poll accepts the connection that has waited longest. *)
LEMMA PollTable ==
  ASSUME TypeOK, Distinct, Connected, Seated, Poll
  PROVE  /\ Distinct' /\ Connected' /\ Seated'
         /\ \A i \in Slots : i \in Slots' /\ order'[i] = order[i]
<1>1. UNCHANGED <<cl, st>>
  BY DEF Poll
<1>2. CASE backlog = <<>>
  <2>1. UNCHANGED <<order, backlog>>
    BY <1>2 DEF Poll
  <2> QED
    BY <1>1, <2>1, SameTable DEF Slots
<1>3. CASE backlog # <<>>
  <2> DEFINE n == Len(order)
             m == Len(backlog)
             c == Head(backlog)
  <2>1. order' = Append(order, c) /\ backlog' = Tail(backlog)
    BY <1>3 DEF Poll
  <2>2. /\ c \in Conn /\ c = backlog[1]
        /\ m \in Nat \ {0} /\ Len(backlog') = m - 1
        /\ \A i \in 1 .. m - 1 : backlog'[i] = backlog[i + 1]
    BY <1>3, <2>1, PopTyped DEF TypeOK
  <2>3. /\ Len(order') = n + 1 /\ n \in Nat
        /\ \A i \in 1 .. n : order'[i] = order[i]
        /\ order'[n + 1] = c
    BY <2>1, <2>2, AppendProperties, LenProperties DEF TypeOK
  <2>4. Slots = 1 .. n /\ Waits = 1 .. m /\ Slots' = 1 .. n + 1 /\ Waits' = 1 .. m - 1
    BY <2>2, <2>3 DEF Slots, Waits
  <2> HIDE DEF n, m, c
  <2>5. 1 \in Waits /\ \A j \in Waits' : j + 1 \in Waits /\ j + 1 # 1 /\ backlog'[j] = backlog[j + 1]
    BY <2>2, <2>4
  <2>6. \A i \in Slots' : (i \in Slots /\ order'[i] = order[i]) \/ (i = n + 1 /\ order'[i] = backlog[1])
    BY <2>2, <2>3, <2>4
  <2>7. Distinct'
    <3>1. ASSUME NEW i \in Slots', NEW j \in Slots', order'[i] = order'[j] PROVE i = j
      BY <2>5, <2>6, <3>1 DEF Distinct
    <3>2. ASSUME NEW i \in Waits', NEW j \in Waits', backlog'[i] = backlog'[j] PROVE i = j
      <4>1. i + 1 = j + 1
        BY <2>5, <3>2 DEF Distinct
      <4>2. i \in Int /\ j \in Int
        BY <2>4
      <4> QED
        BY <4>1, <4>2
    <3>3. ASSUME NEW i \in Slots', NEW j \in Waits' PROVE order'[i] # backlog'[j]
      BY <2>5, <2>6 DEF Distinct
    <3> QED
      BY <3>1, <3>2, <3>3 DEF Distinct
  <2>8. Connected'
    BY <1>1, <2>5, <2>6 DEF Connected
  <2>9. \A i \in Slots : i \in Slots' /\ order'[i] = order[i]
    BY <2>3, <2>4
  <2>10. Seated'
    BY <1>1, <2>9 DEF Seated
  <2> QED
    BY <2>7, <2>8, <2>9, <2>10
<1> QED
  BY <1>2, <1>3

(* A connection that was never opened joins the end of the backlog. *)
LEMMA ConnectTable ==
  ASSUME TypeOK, Distinct, Connected, Seated, NEW c \in Conn, Connect(c)
  PROVE  Distinct' /\ Connected' /\ Seated'
<1> DEFINE m == Len(backlog)
<1>1. UNCHANGED <<order, cl>> /\ st[c] = "new" /\ st' = [st EXCEPT ![c] = "open"]
      /\ backlog' = Append(backlog, c)
  BY DEF Connect, daemonVars
<1>2. /\ Len(backlog') = m + 1 /\ m \in Nat
      /\ \A i \in 1 .. m : backlog'[i] = backlog[i]
      /\ backlog'[m + 1] = c
  BY <1>1, AppendProperties, LenProperties DEF TypeOK
<1>3. Slots' = Slots /\ Waits = 1 .. m /\ Waits' = 1 .. m + 1
  BY <1>1, <1>2 DEF Slots, Waits
<1> HIDE DEF m
<1>4. \A i \in Waits' : (i \in Waits /\ backlog'[i] = backlog[i]) \/ (i = m + 1 /\ backlog'[i] = c)
  BY <1>2, <1>3
<1>5. (\A k \in Slots : order[k] \in Conn) /\ \A k \in Waits : backlog[k] \in Conn
  BY ElementOfSeq DEF TypeOK, Slots, Waits
<1>6. (\A k \in Slots : order[k] # c) /\ \A k \in Waits : backlog[k] # c
  BY <1>1 DEF Connected
<1>7. Distinct'
  <2>1. ASSUME NEW i \in Waits', NEW j \in Waits', backlog'[i] = backlog'[j] PROVE i = j
    BY <1>4, <1>6, <2>1 DEF Distinct
  <2>2. ASSUME NEW i \in Slots, NEW j \in Waits' PROVE order[i] # backlog'[j]
    BY <1>4, <1>6 DEF Distinct
  <2>3. \A i, j \in Slots : order[i] = order[j] => i = j
    BY DEF Distinct
  <2> QED
    BY <1>1, <1>3, <2>1, <2>2, <2>3 DEF Distinct
<1>8. st'[c] = "open" /\ \A d \in Conn \ {c} : st'[d] = st[d]
  BY <1>1 DEF TypeOK
<1>9. Connected'
  <2>1. ASSUME NEW i \in Slots PROVE st'[order[i]] \in {"open", "eof"}
    BY <1>5, <1>6, <1>8 DEF Connected
  <2>2. ASSUME NEW i \in Waits' PROVE st'[backlog'[i]] \in {"open", "eof"}
    BY <1>4, <1>5, <1>6, <1>8 DEF Connected
  <2> QED
    BY <1>1, <1>3, <2>1, <2>2 DEF Connected
<1>10. Seated'
  BY <1>1, <1>3 DEF Seated
<1> QED
  BY <1>7, <1>9, <1>10

(* The client a frame is dispatched to is in the table. *)
LEMMA AtSeated ==
  ASSUME TypeOK, Dispatching
  PROVE  /\ \A c \in At : batch.at \in Slots /\ order[batch.at] = c /\ At = {c} /\ c \in Conn
         /\ At # {} => batch.at \in Slots
<1>1. batch.at \in Nat \ {0} /\ Len(order) \in Nat
  BY BatchTyped, LenProperties DEF Batches, TypeOK
<1>2. batch.at <= Len(order) => batch.at \in Slots
  BY <1>1 DEF Slots
<1>3. \A i \in Slots : order[i] \in Conn
  BY ElementOfSeq DEF TypeOK, Slots
<1> QED
  BY <1>2, <1>3 DEF At

(* The daemon's steps, and the environment's. *)
LEMMA DaemonTable ==
  ASSUME TypeOK, Distinct, Connected, Seated, DaemonStep
  PROVE  Distinct' /\ Connected' /\ Seated'
<1> USE DEF daemonVars, loopVars, clientVars, childVars
<1>1. CASE Reap \/ Resync
  BY <1>1, SameTable DEF Reap, Resync
<1>2. CASE Poll
  BY <1>2, PollTable
<1>3. CASE ReadClient
  <2>1. PICK i \in ready : ReadFrames(i) \/ ReadMalformed(i) \/ ReadEof(i) \/ ReadWouldBlock(i)
    BY <1>3 DEF ReadClient
  <2>2. i \in Nat \ {0} /\ i <= Len(order) /\ Len(order) \in Nat
    BY <2>1, LenProperties DEF ReadFrames, ReadMalformed, ReadEof, ReadWouldBlock, AtSlot, TypeOK
  <2>3. i \in Slots
    BY <2>2 DEF Slots
  <2>4. CASE ReadFrames(i) \/ ReadWouldBlock(i)
    BY <2>4, SameTable DEF ReadFrames, ReadWouldBlock
  <2>5. CASE ReadMalformed(i) \/ ReadEof(i)
    BY <2>3, <2>5, ForgetTable DEF ReadMalformed, ReadEof, DropClient
  <2> QED
    BY <2>1, <2>4, <2>5
<1>4. CASE DispatchFrame
  <2>0. Dispatching
    BY <1>4 DEF DispatchFrame, DispatchRefused, DispatchAttach, DispatchUnattached,
                DispatchIgnored, DispatchCredit, DispatchData, DispatchResize
  <2>1. backlog' = backlog /\ \A c \in At : \E i \in Slots : order[i] = c
    BY <2>0, AtSeated DEF Dispatching
  <2>2. CASE DispatchRefused \/ DispatchIgnored \/ DispatchData \/ DispatchResize
    BY <2>1, <2>2, SameTable DEF DispatchRefused, DispatchIgnored, DispatchData, DispatchResize
  <2>3. CASE DispatchAttach \/ DispatchCredit
    <3>1. UNCHANGED <<order, st>> /\ \A c \in Conn : c \notin At => cl'[c] = cl[c]
      BY <2>3 DEF DispatchAttach, DispatchCredit
    <3> QED
      BY <2>1, <3>1, SameTable
  <2>4. CASE DispatchUnattached
    <3>1. CASE UNCHANGED <<daemonVars, st>>
      BY <2>1, <3>1, SameTable
    <3>2. CASE At # {} /\ DropClient(batch.at)
      BY <2>0, <2>1, <3>2, AtSeated, ForgetTable DEF DropClient
    <3> QED
      BY <2>4, <3>1, <3>2 DEF DispatchUnattached
  <2> QED
    BY <1>4, <2>2, <2>3, <2>4 DEF DispatchFrame
<1>5. CASE Drain
  <2>1. UNCHANGED <<order, backlog, st>>
    BY <1>5 DEF Drain
  <2>2. PICK l \in readable : DrainFanout(l) \/ DrainDirect(l) \/ DrainStop(l)
    BY <1>5 DEF Drain
  <2>3. \A c \in Conn : cl'[c] = cl[c] \/ c \in Clients(l)
    BY <2>2 DEF DrainFanout, DrainDirect, DrainStop, FanoutPtyBytes
  <2>4. ASSUME NEW c \in Clients(l) PROVE \E i \in Slots : order[i] = c
    <3>1. l # NoLeaf
      BY LeafAssumption DEF TypeOK
    <3>2. c \in Conn /\ cl[c].leaf # NoLeaf
      BY <3>1 DEF Clients
    <3>3. cl[c] # Accepted
      BY <3>2 DEF Accepted
    <3> QED
      BY <3>2, <3>3 DEF Seated
  <2> QED
    BY <2>1, <2>3, <2>4, SameTable
<1>6. CASE Flush
  <2>1. backlog' = backlog
    BY <1>6 DEF Flush
  <2>2. UNCHANGED <<order, cl, st>> \/ \E i \in DOMAIN order : Forget(i)
    BY <1>6 DEF Flush
  <2>3. DOMAIN order = Slots
    BY LenProperties DEF TypeOK, Slots
  <2> QED
    BY <2>1, <2>2, <2>3, SameTable, ForgetTable
<1> QED
  BY <1>1, <1>2, <1>3, <1>4, <1>5, <1>6 DEF DaemonStep

LEMMA EnvironmentTable ==
  ASSUME TypeOK, Distinct, Connected, Seated,
         \/ \E c \in Conn : Connect(c) \/ Greet(c) \/ Close(c) \/ ClientRecv(c)
         \/ \E c \in Conn, f \in InFrames \cup {Data} : Send(c, f)
         \/ \E l \in Leaf : ChildWrite(l) \/ ChildExit(l) \/ LeaseDue(l)
  PROVE  Distinct' /\ Connected' /\ Seated'
<1> USE DEF daemonVars, loopVars, clientVars, childVars
<1>1. CASE UNCHANGED <<order, backlog, cl, st>>
  BY <1>1, SameTable
<1>2. ASSUME NEW c \in Conn, Close(c) PROVE Distinct' /\ Connected' /\ Seated'
  <2>1. UNCHANGED <<order, backlog, cl>> /\ st' = [st EXCEPT ![c] = "eof"]
    BY <1>2 DEF Close
  <2> QED
    BY <2>1, SameTable DEF TypeOK
<1>3. ASSUME NEW c \in Conn, ClientRecv(c) PROVE Distinct' /\ Connected' /\ Seated'
  <2>1. UNCHANGED <<order, backlog, cl>> /\ (st' = st \/ st' = [st EXCEPT ![c] = "eof"])
    BY <1>3 DEF ClientRecv
  <2> QED
    BY <2>1, SameTable DEF TypeOK
<1>4. ASSUME NEW c \in Conn, Connect(c) PROVE Distinct' /\ Connected' /\ Seated'
  BY <1>4, ConnectTable
<1>5. \/ UNCHANGED <<order, backlog, cl, st>>
      \/ \E c \in Conn : Connect(c) \/ Close(c) \/ ClientRecv(c)
  BY DEF Greet, Send, ChildWrite, ChildExit, LeaseDue
<1> QED
  BY <1>1, <1>2, <1>3, <1>4, <1>5

LEMMA InitTable == Init => TableIInv
<1> SUFFICES ASSUME Init PROVE TableIInv
  OBVIOUS
<1>1. Slots = {} /\ Waits = {}
  BY DEF Init, Slots, Waits
<1>2. Distinct /\ Connected /\ Seated
  BY <1>1 DEF Init, Distinct, Connected, Seated
<1> QED
  BY <1>2, InitTyped DEF TableIInv

LEMMA NextTable == TableIInv /\ [Next]_vars => TableIInv'
<1> SUFFICES ASSUME TableIInv, [Next]_vars PROVE TableIInv'
  OBVIOUS
<1>1. TypeOK /\ Distinct /\ Connected /\ Seated
  BY DEF TableIInv
<1>2. TypeOK'
  BY <1>1, NextTyped
<1>3. CASE DaemonStep
  BY <1>1, <1>2, <1>3, DaemonTable DEF TableIInv
<1>4. CASE UNCHANGED vars
  <2>1. UNCHANGED <<order, backlog, cl, st>>
    BY <1>4 DEF vars, daemonVars, clientVars
  <2> QED
    BY <1>1, <1>2, <2>1, SameTable DEF TableIInv
<1> QED
  BY <1>1, <1>2, <1>3, <1>4, EnvironmentTable DEF Next, TableIInv

-----------------------------------------------------------------------------
(* Observers.  A frame is dispatched to whoever holds the slot its sender was *)
(* read from, so an observer's input is kept from the PTY by the slot, not by *)
(* its sender.  What makes that enough: while the sender is still in the      *)
(* table it holds that slot, and nobody becomes an observer after it wrote,   *)
(* because its ATTACH is the first frame it sends.                            *)
Author(c) == \E l \in Leaf : \E w \in written[l] : w[1] = c

Quiet ==
  /\ \A c \in Conn : sent[c] = 0 \/ cl[c].observe => ~ Author(c)
  /\ \A c \in Conn : \A i \in 1 .. Len(inbox[c]) : IsAttach(inbox[c][i]) => ~ Author(c)
  /\ \A i \in 1 .. Len(batch.frames) : IsAttach(batch.frames[i]) => ~ Author(batch.src)
OwnSlot ==
  batch # NoBatch =>
    /\ pc = "io"
    /\ \A i \in Slots : order[i] = batch.src => i = batch.at
ObserverIInv ==
  ClaimIInv /\ TableIInv /\ DOMAIN written = Leaf /\ Quiet /\ OwnSlot

(* Nothing is written; an ATTACH is sent first, or was on its way before, and *)
(* nobody but the sender of the ATTACH that is dispatched becomes an observer. *)
LEMMA QuietKept ==
  ASSUME TypeOK, Quiet, written' = written, \A c \in Conn : sent'[c] = 0 => sent[c] = 0,
         \A c \in Conn : cl'[c].observe =>
           \/ cl[c].observe
           \/ c = batch.src /\ \E j \in 1 .. Len(batch.frames) : IsAttach(batch.frames[j]),
         \A c \in Conn : \A i \in 1 .. Len(inbox'[c]) : IsAttach(inbox'[c][i]) =>
           sent[c] = 0 \/ \E j \in 1 .. Len(inbox[c]) : IsAttach(inbox[c][j]),
         \A i \in 1 .. Len(batch'.frames) : IsAttach(batch'.frames[i]) =>
           /\ batch'.src \in Conn
           /\ \/ \E j \in 1 .. Len(inbox[batch'.src]) : IsAttach(inbox[batch'.src][j])
              \/ batch'.src = batch.src /\ \E j \in 1 .. Len(batch.frames) : IsAttach(batch.frames[j])
  PROVE  Quiet'
<1>1. \A c : Author(c)' <=> Author(c)
  BY DEF Author
<1>2. \A c \in Conn : sent'[c] = 0 \/ cl'[c].observe => ~ Author(c)'
  BY <1>1 DEF Quiet
<1>3. ASSUME NEW c \in Conn, NEW i \in 1 .. Len(inbox'[c]), IsAttach(inbox'[c][i])
      PROVE  ~ Author(c)'
  <2>1. sent[c] = 0 \/ \E j \in 1 .. Len(inbox[c]) : IsAttach(inbox[c][j])
    BY <1>3
  <2> QED
    BY <1>1, <2>1 DEF Quiet
<1>4. ASSUME NEW i \in 1 .. Len(batch'.frames), IsAttach(batch'.frames[i])
      PROVE  ~ Author(batch.src)'
  <2>1. /\ batch'.src \in Conn
        /\ \/ \E j \in 1 .. Len(inbox[batch'.src]) : IsAttach(inbox[batch'.src][j])
           \/ batch'.src = batch.src /\ \E j \in 1 .. Len(batch.frames) : IsAttach(batch.frames[j])
    BY <1>4
  <2>2. ~ Author(batch'.src)
    BY <2>1 DEF Quiet
  <2>3. Author(batch.src)' <=> Author(batch'.src)
    BY DEF Author
  <2> QED
    BY <2>2, <2>3
<1> QED
  BY <1>2, <1>3, <1>4 DEF Quiet

(* The frames left of a batch were in it. *)
LEMMA BatchLeft ==
  ASSUME TypeOK, Dispatching
  PROVE  /\ batch' # NoBatch => batch'.src = batch.src /\ batch'.at = batch.at
         /\ \A i \in 1 .. Len(batch'.frames) :
              /\ i + 1 \in 1 .. Len(batch.frames) /\ i \in Nat \ {0}
              /\ batch'.frames[i] = batch.frames[i + 1]
              /\ batch'.src = batch.src
<1>1. batch \in Batches
  BY BatchTyped
<1> DEFINE fs == batch.frames
<1>2. fs \in Seq(InboundFrame) /\ fs # <<>>
  BY <1>1 DEF Batches
<1>3. CASE Len(fs) = 1
  <2>1. batch' = NoBatch
    BY <1>3 DEF Dispatching
  <2>2. Len(batch'.frames) = 0
    BY <2>1 DEF NoBatch
  <2> QED
    BY <2>1, <2>2
<1>4. CASE Len(fs) # 1
  <2>1. batch' = [batch EXCEPT !.frames = Tail(fs)]
    BY <1>4 DEF Dispatching
  <2>2. batch'.src = batch.src /\ batch'.at = batch.at /\ batch'.frames = Tail(fs)
    BY <1>1, <2>1 DEF Batches
  <2> HIDE DEF fs
  <2>3. /\ Len(fs) \in Nat \ {0} /\ Len(Tail(fs)) = Len(fs) - 1
        /\ \A i \in 1 .. Len(fs) - 1 : Tail(fs)[i] = fs[i + 1]
    BY <1>2, PopTyped
  <2>4. ASSUME NEW i \in 1 .. Len(batch'.frames)
        PROVE  i + 1 \in 1 .. Len(fs) /\ i \in Nat \ {0} /\ batch'.frames[i] = fs[i + 1]
    BY <2>2, <2>3
  <2> QED
    BY <2>2, <2>4 DEF fs
<1> QED
  BY <1>3, <1>4

(* Once its sender was dropped a batch has no slot of its own; until then the *)
(* slot is where it was read.                                                 *)
LEMMA SlotKept ==
  ASSUME TypeOK, Distinct, OwnSlot,
         \/ batch' = NoBatch
         \/ batch # NoBatch /\ batch'.src = batch.src /\ batch'.at = batch.at,
         pc' = pc,
         order' = order \/ (Dispatching /\ At # {} /\ Forget(batch.at))
  PROVE  OwnSlot'
<1> SUFFICES ASSUME batch' # NoBatch
             PROVE  pc' = "io" /\ \A i \in Slots' : order'[i] = batch'.src => i = batch'.at
  BY DEF OwnSlot
<1>1. batch # NoBatch /\ batch'.src = batch.src /\ batch'.at = batch.at /\ pc = "io"
  BY DEF OwnSlot
<1>2. \A i \in Slots : order[i] = batch.src => i = batch.at
  BY <1>1 DEF OwnSlot
<1>3. CASE order' = order
  BY <1>1, <1>2, <1>3 DEF Slots
<1>4. CASE Dispatching /\ At # {} /\ Forget(batch.at)
  <2>1. batch.at \in Slots
    BY <1>4, AtSeated
  <2>2. ASSUME NEW j \in Slots', order'[j] = batch.src PROVE FALSE
    <3>1. PICK k \in Slots \ {batch.at} : order'[j] = order[k]
      BY <1>4, <2>1, ForgetSlots
    <3> QED
      BY <1>2, <2>2, <3>1
  <2> QED
    BY <1>1, <2>2
<1> QED
  BY <1>3, <1>4

(* What reaches a PTY is put down to the sender of the frame, who is no       *)
(* observer: it holds the slot the frame is dispatched to, or is gone.        *)
LEMMA WriteQuiet ==
  ASSUME ObserverIInv, DispatchData \/ DispatchResize
  PROVE  Quiet' /\ DOMAIN written' = Leaf
<1>0. TypeOK /\ AttachInv /\ Seated /\ Quiet /\ OwnSlot /\ DOMAIN written = Leaf
  BY DEF ObserverIInv, ClaimIInv, TableIInv
<1>1. Dispatching /\ UNCHANGED <<cl, inbox, sent>> /\ batch # NoBatch
  BY DEF DispatchData, DispatchResize, Dispatching
<1>2. batch \in Batches
  BY <1>0, <1>1, BatchTyped
<1>3. PICK s \in Conn : s = batch.src
  BY <1>2 DEF Batches
<1>4. PICK a \in BOOLEAN : WritePty(a)
  BY DEF DispatchData, DispatchResize, AcceptsData, AcceptsResize
<1>5. ASSUME NEW c, Author(c)' PROVE Author(c) \/ c = s
  <2>1. PICK l \in Leaf : \E w \in written'[l] : w[1] = c
    BY <1>5 DEF Author
  <2>2. PICK w \in written'[l] : w[1] = c
    BY <2>1
  <2>3. w \in written[l] \/ w \in {s} \X At
    BY <1>0, <1>3, <1>4, <2>2 DEF WritePty
  <2> QED
    BY <2>2, <2>3 DEF Author
<1>6. ~ cl[s].observe
  <2>1. CASE \E i \in Slots : order[i] = s
    <3>1. batch.at \in Slots /\ order[batch.at] = s
      BY <1>0, <1>1, <1>3, <2>1 DEF OwnSlot
    <3>2. batch.at <= Len(order)
      BY <3>1 DEF Slots
    <3>3. s \in At
      BY <3>1, <3>2 DEF At
    <3> QED
      BY <3>3 DEF DispatchData, DispatchResize, AtObserver
  <2>2. CASE ~ \E i \in Slots : order[i] = s
    <3>1. cl[s] = Accepted
      BY <1>0, <2>2 DEF Seated
    <3> QED
      BY <3>1 DEF Accepted
  <2> QED
    BY <2>1, <2>2
<1>7. sent[s] # 0 /\ \A i \in 1 .. Len(inbox[s]) : ~ IsAttach(inbox[s][i])
  <2>1. ~ Untouched(s)
    BY <1>1, <1>3 DEF Untouched
  <2> QED
    BY <1>0, <2>1 DEF AttachInv
<1>8. ASSUME NEW i \in 1 .. Len(batch'.frames), IsAttach(batch'.frames[i]) PROVE FALSE
  <2>1. i + 1 \in 1 .. Len(batch.frames) /\ i \in Nat \ {0} /\ batch'.frames[i] = batch.frames[i + 1]
    BY <1>0, <1>1, <1>8, BatchLeft
  <2>2. i + 1 = 1
    BY <1>0, <1>8, <2>1 DEF AttachInv
  <2> QED
    BY <2>1, <2>2
<1>9. \A c \in Conn : sent'[c] = 0 \/ cl'[c].observe => ~ Author(c)'
  BY <1>0, <1>1, <1>5, <1>6, <1>7 DEF Quiet
<1>10. \A c \in Conn : \A i \in 1 .. Len(inbox'[c]) : IsAttach(inbox'[c][i]) => ~ Author(c)'
  <2> SUFFICES ASSUME NEW c \in Conn, NEW i \in 1 .. Len(inbox[c]), IsAttach(inbox[c][i])
               PROVE  ~ Author(c)'
    BY <1>1
  <2>1. c # s
    BY <1>7
  <2> QED
    BY <1>0, <1>5, <2>1 DEF Quiet
<1>11. DOMAIN written' = Leaf
  BY <1>0, <1>4 DEF WritePty
<1> QED
  BY <1>8, <1>9, <1>10, <1>11 DEF Quiet

LEMMA DispatchQuiet ==
  ASSUME ObserverIInv, DispatchFrame
  PROVE  Quiet' /\ OwnSlot' /\ DOMAIN written' = Leaf
<1> USE DEF daemonVars
<1>0. TypeOK /\ AttachInv /\ Distinct /\ Seated /\ Quiet /\ OwnSlot /\ DOMAIN written = Leaf
  BY DEF ObserverIInv, ClaimIInv, TableIInv
<1>1. Dispatching
  BY DEF DispatchFrame, DispatchRefused, DispatchAttach, DispatchUnattached,
         DispatchIgnored, DispatchCredit, DispatchData, DispatchResize
<1>2. UNCHANGED <<pc, inbox, sent>> /\ batch # NoBatch /\ batch \in Batches
  BY <1>0, <1>1, BatchTyped DEF Dispatching
<1>3. order' = order \/ (Dispatching /\ At # {} /\ Forget(batch.at))
  BY <1>1 DEF DispatchFrame, DispatchRefused, DispatchAttach, DispatchUnattached, DropClient,
         DispatchIgnored, DispatchCredit, DispatchData, DispatchResize
<1>4. OwnSlot'
  BY <1>0, <1>1, <1>2, <1>3, BatchLeft, SlotKept
<1>5. batch.src \in Conn
  BY <1>2 DEF Batches
<1>6. ASSUME NEW i \in 1 .. Len(batch'.frames), IsAttach(batch'.frames[i])
      PROVE  batch'.src = batch.src /\ \E j \in 1 .. Len(batch.frames) : IsAttach(batch.frames[j])
  BY <1>0, <1>1, <1>6, BatchLeft
<1>7. ASSUME written' = written,
             \A c \in Conn : cl'[c].observe =>
               \/ cl[c].observe
               \/ c = batch.src /\ \E j \in 1 .. Len(batch.frames) : IsAttach(batch.frames[j])
      PROVE  Quiet' /\ DOMAIN written' = Leaf
  <2>1. \A i \in 1 .. Len(batch'.frames) : IsAttach(batch'.frames[i]) =>
          /\ batch'.src \in Conn
          /\ \/ \E j \in 1 .. Len(inbox[batch'.src]) : IsAttach(inbox[batch'.src][j])
             \/ batch'.src = batch.src /\ \E j \in 1 .. Len(batch.frames) : IsAttach(batch.frames[j])
    BY <1>5, <1>6
  <2>2. \A c \in Conn : \A i \in 1 .. Len(inbox'[c]) : IsAttach(inbox'[c][i]) =>
           sent[c] = 0 \/ \E j \in 1 .. Len(inbox[c]) : IsAttach(inbox[c][j])
    BY <1>2
  <2> QED
    BY <1>0, <1>2, <1>7, <2>1, <2>2, QuietKept
<1>8. CASE DispatchRefused \/ DispatchIgnored
  BY <1>4, <1>7, <1>8 DEF DispatchRefused, DispatchIgnored
<1>9. CASE DispatchCredit
  <2>1. SameLeaves
    BY <1>0, <1>9, OthersKeepClaim
  <2> QED
    BY <1>4, <1>7, <1>9, <2>1 DEF DispatchCredit, SameLeaves
<1>10. CASE DispatchAttach
  <2>1. \A c \in Conn : c \notin At => cl'[c] = cl[c]
    BY <1>10 DEF DispatchAttach
  <2>2. 1 \in 1 .. Len(batch.frames) /\ IsAttach(batch.frames[1])
    <3> DEFINE fs == batch.frames
    <3>1. fs \in Seq(InboundFrame) /\ fs # <<>>
      BY <1>2 DEF Batches
    <3>2. Head(fs).t = "Attach"
      BY <1>10 DEF DispatchAttach, Frame
    <3> HIDE DEF fs
    <3>3. Len(fs) \in Nat \ {0} /\ Head(fs) = fs[1]
      BY <3>1, PopTyped
    <3>4. 1 \in 1 .. Len(fs) /\ IsAttach(fs[1])
      BY <3>2, <3>3 DEF IsAttach
    <3> QED
      BY <3>4 DEF fs
  <2>3. At = {batch.src}
    BY <1>0, <2>2 DEF AttachInv
  <2> QED
    BY <1>4, <1>7, <1>10, <2>1, <2>2, <2>3 DEF DispatchAttach
<1>11. CASE DispatchUnattached
  <2>1. \A c \in Conn : cl'[c] = cl[c] \/ cl'[c] = Accepted
    <3>1. CASE cl' = cl
      BY <3>1
    <3>2. CASE At # {} /\ DropClient(batch.at)
      BY <1>0, <1>1, <3>2, AtSeated DEF DropClient, Forget, TypeOK
    <3> QED
      BY <1>11, <3>1, <3>2 DEF DispatchUnattached
  <2>2. Accepted.observe = FALSE
    BY DEF Accepted
  <2> QED
    BY <1>4, <1>7, <1>11, <2>1, <2>2 DEF DispatchUnattached
<1>12. CASE DispatchData \/ DispatchResize
  BY <1>4, <1>12, WriteQuiet
<1> QED
  BY <1>8, <1>9, <1>10, <1>11, <1>12 DEF DispatchFrame

(* The rest of the loop: outside the dispatch of a batch there is none. *)
LEMMA LoopQuiet ==
  ASSUME ObserverIInv, Reap \/ Poll \/ Drain \/ Flush \/ Resync
  PROVE  Quiet' /\ OwnSlot' /\ DOMAIN written' = Leaf
<1> USE DEF clientVars, childVars
<1>0. TypeOK /\ Quiet /\ OwnSlot /\ DOMAIN written = Leaf
  BY DEF ObserverIInv, ClaimIInv, TableIInv
<1>1. batch = NoBatch
  BY <1>0 DEF Reap, Poll, Drain, Flush, Resync, ReadDone, OwnSlot
<1>2. UNCHANGED <<batch, inbox, sent, written>>
  BY DEF Reap, Poll, Drain, Flush, Resync
<1>3. OwnSlot'
  BY <1>1, <1>2 DEF OwnSlot
<1>4. Len(batch'.frames) = 0
  BY <1>1, <1>2 DEF NoBatch
<1>5. \A c \in Conn : cl'[c].observe => cl[c].observe
  <2>1. CASE Reap \/ Poll \/ Resync
    BY <2>1 DEF Reap, Poll, Resync
  <2>2. CASE Drain
    BY <1>0, <2>2, OthersKeepClaim DEF SameLeaves
  <2>3. CASE Flush
    <3>1. cl' = cl \/ \E i \in DOMAIN order : Forget(i)
      BY <2>3 DEF Flush
    <3>2. \A c \in Conn : cl'[c] = cl[c] \/ cl'[c] = Accepted
      BY <1>0, <3>1 DEF Forget, TypeOK
    <3> QED
      BY <3>2 DEF Accepted
  <2> QED
    BY <2>1, <2>2, <2>3
<1>6. Quiet'
  BY <1>0, <1>2, <1>4, <1>5, QuietKept
<1> QED
  BY <1>0, <1>2, <1>3, <1>6

LEMMA ReadQuiet ==
  ASSUME ObserverIInv, ReadClient
  PROVE  Quiet' /\ OwnSlot' /\ DOMAIN written' = Leaf
<1> USE DEF daemonVars, clientVars, childVars
<1>0. TypeOK /\ Distinct /\ Quiet /\ OwnSlot /\ DOMAIN written = Leaf
  BY DEF ObserverIInv, ClaimIInv, TableIInv
<1>1. PICK i \in ready : ReadFrames(i) \/ ReadMalformed(i) \/ ReadEof(i) \/ ReadWouldBlock(i)
  BY DEF ReadClient
<1>2. AtSlot(i) /\ UNCHANGED <<sent, written>>
  BY <1>1 DEF ReadFrames, ReadMalformed, ReadEof, ReadWouldBlock
<1>3. batch = NoBatch /\ pc' = "io" /\ i \in Nat \ {0} /\ i <= Len(order)
  BY <1>0, <1>2 DEF AtSlot, TypeOK
<1>4. i \in Slots /\ order[i] \in Conn
  <2>1. Len(order) \in Nat
    BY <1>0, LenProperties DEF TypeOK
  <2>2. i \in Slots
    BY <1>3, <2>1 DEF Slots
  <2> QED
    BY <1>0, <2>2, ElementOfSeq DEF TypeOK, Slots
<1>5. \A c \in Conn : inbox'[c] = inbox[c] \/ inbox'[c] = <<>>
  BY <1>0, <1>1 DEF ReadFrames, ReadMalformed, ReadEof, ReadWouldBlock, TypeOK
<1>6. \A c \in Conn : \A k \in 1 .. Len(inbox'[c]) : IsAttach(inbox'[c][k]) =>
        sent[c] = 0 \/ \E j \in 1 .. Len(inbox[c]) : IsAttach(inbox[c][j])
  <2> SUFFICES ASSUME NEW c \in Conn, NEW k \in 1 .. Len(inbox'[c]), IsAttach(inbox'[c][k])
               PROVE  \E j \in 1 .. Len(inbox[c]) : IsAttach(inbox[c][j])
    OBVIOUS
  <2>1. Len(<<>>) = 0
    OBVIOUS
  <2>2. inbox'[c] # <<>>
    BY <2>1
  <2> QED
    BY <1>5, <2>2
<1>7. CASE ReadFrames(i)
  <2> DEFINE c == order[i]
  <2>1. batch' = [at |-> i, src |-> c, frames |-> inbox[c]] /\ UNCHANGED <<order, cl>>
    BY <1>7 DEF ReadFrames
  <2>2. batch'.at = i /\ batch'.src = c /\ batch'.frames = inbox[c]
    BY <2>1
  <2>3. OwnSlot'
    BY <1>0, <1>3, <1>4, <2>1, <2>2 DEF OwnSlot, Distinct, Slots
  <2>4. \A k \in 1 .. Len(batch'.frames) : IsAttach(batch'.frames[k]) =>
          batch'.src \in Conn /\ \E j \in 1 .. Len(inbox[batch'.src]) : IsAttach(inbox[batch'.src][j])
    BY <1>4, <2>2
  <2>5. Quiet'
    BY <1>0, <1>2, <1>6, <2>1, <2>4, QuietKept
  <2> QED
    BY <1>0, <1>2, <2>3, <2>5
<1>8. CASE ReadMalformed(i) \/ ReadEof(i) \/ ReadWouldBlock(i)
  <2>1. batch' = NoBatch
    BY <1>3, <1>8 DEF ReadMalformed, ReadEof, ReadWouldBlock
  <2>2. OwnSlot'
    BY <2>1 DEF OwnSlot
  <2>3. Len(batch'.frames) = 0
    BY <2>1 DEF NoBatch
  <2>4. \A c \in Conn : cl'[c] = cl[c] \/ cl'[c] = Accepted
    BY <1>0, <1>4, <1>8 DEF ReadMalformed, ReadEof, ReadWouldBlock, DropClient, Forget, TypeOK
  <2>5. \A c \in Conn : cl'[c].observe => cl[c].observe
    BY <2>4 DEF Accepted
  <2>6. Quiet'
    BY <1>0, <1>2, <1>6, <2>3, <2>5, QuietKept
  <2> QED
    BY <1>0, <1>2, <2>2, <2>6
<1> QED
  BY <1>1, <1>7, <1>8

(* Clients, children and the clock: an ATTACH is sent before anything else. *)
LEMMA AppendQuiet ==
  ASSUME TypeOK, Quiet, NEW c \in Conn, NEW f \in InboundFrame, IsAttach(f) => sent[c] = 0,
         inbox' = [inbox EXCEPT ![c] = Append(@, f)],
         \A d \in Conn : sent'[d] = 0 => sent[d] = 0,
         UNCHANGED <<cl, batch, written>>
  PROVE  Quiet'
<1>1. ASSUME NEW d \in Conn, NEW i \in 1 .. Len(inbox'[d]), IsAttach(inbox'[d][i])
      PROVE  sent[d] = 0 \/ \E j \in 1 .. Len(inbox[d]) : IsAttach(inbox[d][j])
  <2>1. CASE d # c
    BY <1>1, <2>1 DEF TypeOK
  <2>2. CASE d = c
    <3> DEFINE q == inbox[c]
    <3>1. q \in Seq(InboundFrame) /\ inbox'[d] = Append(q, f)
      BY <2>2 DEF TypeOK
    <3> HIDE DEF q
    <3>2. /\ Len(Append(q, f)) = Len(q) + 1 /\ Len(q) \in Nat
          /\ Append(q, f)[Len(q) + 1] = f
          /\ \A j \in 1 .. Len(q) : Append(q, f)[j] = q[j]
      BY <3>1, AppendProperties, LenProperties
    <3>3. i \in 1 .. Len(q) \/ i = Len(q) + 1
      BY <1>1, <3>1, <3>2
    <3>4. IsAttach(f) \/ \E j \in 1 .. Len(q) : IsAttach(q[j])
      BY <1>1, <3>1, <3>2, <3>3
    <3> QED
      BY <2>2, <3>4 DEF q
  <2> QED
    BY <2>1, <2>2
<1>2. \A i \in 1 .. Len(batch'.frames) : IsAttach(batch'.frames[i]) =>
        batch'.src \in Conn /\ batch'.src = batch.src
          /\ \E j \in 1 .. Len(batch.frames) : IsAttach(batch.frames[j])
  <2>1. CASE batch = NoBatch
    <3>1. Len(batch'.frames) = 0
      BY <2>1 DEF NoBatch
    <3> QED
      BY <3>1
  <2>2. CASE batch # NoBatch
    <3>1. batch.src \in Conn
      BY <2>2 DEF TypeOK, Batches
    <3> QED
      BY <3>1
  <2> QED
    BY <2>1, <2>2
<1> QED
  BY <1>1, <1>2, QuietKept

LEMMA EnvironmentQuiet ==
  ASSUME ObserverIInv, "late" \notin Freedom,
         \/ \E c \in Conn : Connect(c) \/ Greet(c) \/ Close(c) \/ ClientRecv(c)
         \/ \E c \in Conn, f \in InFrames \cup {Data} : Send(c, f)
         \/ \E l \in Leaf : ChildWrite(l) \/ ChildExit(l) \/ LeaseDue(l)
  PROVE  Quiet' /\ OwnSlot' /\ DOMAIN written' = Leaf
<1> USE DEF daemonVars, loopVars, clientVars, childVars
<1>0. TypeOK /\ Quiet /\ OwnSlot /\ DOMAIN written = Leaf
  BY DEF ObserverIInv, ClaimIInv, TableIInv
<1>1. UNCHANGED <<order, cl, pc, batch, written>>
  BY DEF Connect, Greet, Close, ClientRecv, Send, ChildWrite, ChildExit, LeaseDue
<1>2. OwnSlot'
  BY <1>0, <1>1 DEF OwnSlot, Slots
<1>3. ASSUME UNCHANGED <<inbox, sent>> PROVE Quiet'
  BY <1>0, <1>1, <1>3 DEF Quiet, Author
<1>4. ASSUME NEW c \in Conn, Greet(c) PROVE Quiet'
  <2>1. sent[c] \in Nat /\ sent[c] < 2
    BY <1>0, <1>4, GreetingTyped DEF Greet, Greeted, TypeOK
  <2>2. HostGreeting[sent[c] + 1] \in InboundFrame
    BY <2>1, GreetingTyped
  <2>3. IsAttach(HostGreeting[sent[c] + 1]) => sent[c] = 0
    BY <2>1, GreetingTyped DEF IsAttach
  <2>4. \A d \in Conn : sent'[d] = 0 => sent[d] = 0
    BY <1>0, <1>4, <2>1 DEF Greet, TypeOK
  <2>5. inbox' = [inbox EXCEPT ![c] = Append(@, HostGreeting[sent[c] + 1])]
    BY <1>4 DEF Greet
  <2> QED
    BY <1>0, <1>1, <2>2, <2>3, <2>4, <2>5, AppendQuiet
<1>5. ASSUME NEW c \in Conn, NEW f \in InFrames \cup {Data}, Send(c, f) PROVE Quiet'
  <2>1. f \in InboundFrame
    BY FrameAssumption DEF Data, InboundFrame
  <2>2. IsAttach(f) => sent[c] = 0
    BY <1>5 DEF Send, MaySend, IsAttach, Data
  <2>3. \A d \in Conn : sent'[d] = 0 => sent[d] = 0
    BY <1>0, <1>5 DEF Send, TypeOK
  <2>4. inbox' = [inbox EXCEPT ![c] = Append(@, f)]
    BY <1>5 DEF Send
  <2> QED
    BY <1>0, <1>1, <2>1, <2>2, <2>3, <2>4, AppendQuiet
<1>6. ASSUME NEW c \in Conn, ClientRecv(c) PROVE Quiet'
  <2> DEFINE r == Replenish(Head(wire[c]))
  <2>1. sent' = sent /\ (inbox' = inbox \/ inbox' = [inbox EXCEPT ![c] = inbox[c] \o r])
    BY <1>6 DEF ClientRecv
  <2>2. r = <<>> \/ \E n \in Nat : r = <<Credit(n)>>
    BY ReplenishTyped
  <2>3. inbox \in [Conn -> Seq(InboundFrame)] /\ inbox[c] \in Seq(InboundFrame)
    BY <1>0 DEF TypeOK
  <2> HIDE DEF r
  <2>4. CASE inbox' = inbox
    BY <1>3, <2>1, <2>4
  <2>5. CASE inbox' = [inbox EXCEPT ![c] = inbox[c] \o r] /\ r = <<>>
    <3>1. inbox[c] \o r = inbox[c]
      BY <2>3, <2>5, ConcatEmptySeq
    <3>2. inbox' = inbox
      BY <2>3, <2>5, <3>1
    <3> QED
      BY <1>3, <2>1, <3>2
  <2>6. ASSUME inbox' = [inbox EXCEPT ![c] = inbox[c] \o r], NEW n \in Nat, r = <<Credit(n)>>
        PROVE  Quiet'
    <3>1. Credit(n) \in InboundFrame /\ ~ IsAttach(Credit(n))
      BY DEF Credit, InboundFrame, IsAttach
    <3> HIDE DEF Credit
    <3>2. inbox[c] \o r = Append(inbox[c], Credit(n))
      BY <2>3, <2>6, <3>1
    <3> QED
      BY <1>0, <1>1, <2>1, <2>6, <3>1, <3>2, AppendQuiet
  <2> QED
    BY <2>1, <2>2, <2>4, <2>5, <2>6
<1>7. Quiet'
  <2>1. \/ UNCHANGED <<inbox, sent>>
        \/ \E c \in Conn : Greet(c) \/ ClientRecv(c)
        \/ \E c \in Conn, f \in InFrames \cup {Data} : Send(c, f)
    BY DEF Connect, Close, ChildWrite, ChildExit, LeaseDue
  <2> QED
    BY <1>3, <1>4, <1>5, <1>6, <2>1
<1> QED
  BY <1>0, <1>1, <1>2, <1>7

LEMMA InitObserver == Init => ObserverIInv
<1> SUFFICES ASSUME Init PROVE ObserverIInv
  OBVIOUS
<1>1. \A c : ~ Author(c)
  BY DEF Init, Author
<1>2. Quiet
  BY <1>1 DEF Quiet
<1>3. OwnSlot /\ DOMAIN written = Leaf
  BY DEF Init, OwnSlot
<1> QED
  BY <1>2, <1>3, InitClaim, InitTable DEF ObserverIInv

LEMMA NextObserver ==
  ASSUME "late" \notin Freedom
  PROVE  ObserverIInv /\ [Next]_vars => ObserverIInv'
<1> SUFFICES ASSUME ObserverIInv, [Next]_vars PROVE ObserverIInv'
  OBVIOUS
<1>1. ClaimIInv' /\ TableIInv'
  BY NextClaim, NextTable DEF ObserverIInv
<1>2. Quiet' /\ OwnSlot' /\ DOMAIN written' = Leaf
  <2>1. CASE DaemonStep
    BY <2>1, LoopQuiet, ReadQuiet, DispatchQuiet DEF DaemonStep
  <2>2. CASE UNCHANGED vars
    <3>1. UNCHANGED <<order, cl, pc, batch, inbox, sent, written>>
      BY <2>2 DEF vars, daemonVars, loopVars, clientVars, childVars
    <3>2. Quiet /\ OwnSlot /\ DOMAIN written = Leaf
      BY DEF ObserverIInv
    <3>3. Quiet'
      BY <3>1, <3>2 DEF Quiet, Author
    <3>4. OwnSlot'
      BY <3>1, <3>2 DEF OwnSlot, Slots
    <3> QED
      BY <3>1, <3>2, <3>3, <3>4
  <2> QED
    BY <2>1, <2>2, EnvironmentQuiet DEF Next
<1> QED
  BY <1>1, <1>2 DEF ObserverIInv

LEMMA ObserverSound == ObserverIInv => ObserverNeverWrites
<1> SUFFICES ASSUME ObserverIInv, NEW l \in Leaf, NEW m \in Leaf, NEW c \in Observers(l),
                    NEW w \in written[m]
             PROVE  w[1] # c
  BY DEF ObserverNeverWrites
<1>1. c \in Conn /\ cl[c].observe
  BY DEF Observers, Clients
<1>2. ~ Author(c)
  BY <1>1 DEF ObserverIInv, Quiet
<1> QED
  BY <1>2 DEF Author

(* As long as ATTACH is the first frame of its connection, no input and no    *)
(* resize sent by a connection that observes has reached a PTY, also when the *)
(* slot its frames were read from has since passed to a writer: the daemon    *)
(* asks the slot, not the sender, whether it observes (read_client,           *)
(* dispatch_frame, drop_client).                                              *)
THEOREM ObserverNeverWritesHolds ==
  ASSUME "late" \notin Freedom
  PROVE  Spec => []ObserverNeverWrites
<1>1. Init => ObserverIInv
  BY InitObserver
<1>2. ObserverIInv /\ [Next]_vars => ObserverIInv'
  BY NextObserver
<1>3. ObserverIInv => ObserverNeverWrites
  BY ObserverSound
<1> QED
  BY <1>1, <1>2, <1>3, PTL DEF Spec
=============================================================================
