--------------------------- MODULE ColdPathProofs ---------------------------
(***************************************************************************)
(* Theorems about the processes and the cold sockets, for any controls,    *)
(* requests, buffer sizes and bounds: a worker that serves keeps its path, *)
(* a window takes only the whole content response to its own request, a    *)
(* splice loses nothing, a submission is recorded at most once, and all of *)
(* it implements ColdRequest: a request is carried out at most once, and   *)
(* before its window is told so.                                           *)
(***************************************************************************)
EXTENDS ColdPath, SequenceTheorems, TLAPS

-----------------------------------------------------------------------------
(* The processes.  The worker that holds the lock is the only one past it, so *)
(* the path belongs to the worker that serves, and to no other.               *)

WorkerStates == {"off", "start", "locked", "remove", "bind", "serve"}

ProcInv ==
  /\ worker \in [Controls -> WorkerStates]
  /\ lock \in Controls \cup {None}
  /\ workerPath \in Controls \cup {None, Stale}
  /\ publicPath \in Controls \cup {None, Stale}
  /\ \A w \in Controls : worker[w] \notin {"off", "start"} => lock = w
  /\ \A w \in Controls : worker[w] = "serve" => workerPath = w
  /\ workerPath \in Controls => worker[workerPath] = "serve"

LEMMA ProcInit == StartupInit => ProcInv
  BY StartupAssumption DEF StartupInit, ProcInv, WorkerStates

(* Outside Daemon::bind no step touches the lock or the worker path.          *)
LEMMA ControlProc ==
  ASSUME ProcInv, NEW c \in Controls,
         \/ StartControl(c) \/ ControlStep(c) \/ WorkerMissing(c) \/ KillControl(c)
  PROVE  ProcInv'
<1>1. lock' = lock /\ workerPath' = workerPath
  BY DEF StartControl, ControlStep, WorkerMissing, KillControl, FindWorker, AwaitWorker, Look,
         ProbePublic, RemovePublic, BindPublic
<1>2. publicPath' \in Controls \cup {None, Stale}
  BY DEF ProcInv, StartControl, ControlStep, WorkerMissing, KillControl, FindWorker, AwaitWorker,
         Look, ProbePublic, RemovePublic, BindPublic
<1>3. worker' = worker \/ (worker[c] = "off" /\ worker' = [worker EXCEPT ![c] = "start"])
  BY DEF StartControl, ControlStep, WorkerMissing, KillControl, FindWorker, AwaitWorker,
         Look, ProbePublic, RemovePublic, BindPublic
<1> QED
  BY <1>1, <1>2, <1>3 DEF ProcInv, WorkerStates

LEMMA WorkerProc ==
  ASSUME ProcInv, NEW w \in Controls, WorkerStep(w)
  PROVE  ProcInv'
<1>1. CASE TakeLock(w)
  BY <1>1, StartupAssumption DEF ProcInv, WorkerStates, TakeLock, WorkerAt
<1>2. CASE LookAtWorkerPath(w)
  BY <1>2, StartupAssumption DEF ProcInv, WorkerStates, LookAtWorkerPath, WorkerAt, WorkerAlive
<1>3. CASE RemoveWorkerPath(w)
  BY <1>3, StartupAssumption DEF ProcInv, WorkerStates, RemoveWorkerPath, WorkerAt
<1>4. CASE BindWorker(w)
  BY <1>4, StartupAssumption DEF ProcInv, WorkerStates, BindWorker, WorkerAt
<1> QED
  BY <1>1, <1>2, <1>3, <1>4 DEF WorkerStep

(* A worker that ends leaves the lock and the path to the next.               *)
LEMMA EndProc ==
  ASSUME ProcInv, NEW w \in Controls, NEW clean \in BOOLEAN, EndWorker(w, clean)
  PROVE  ProcInv'
  BY StartupAssumption DEF ProcInv, WorkerStates, EndWorker

LEMMA ProcNext == ProcInv /\ [Next]_vars => ProcInv'
<1> SUFFICES ASSUME ProcInv, [Next]_vars PROVE ProcInv'
  OBVIOUS
<1>1. CASE UNCHANGED procVars
  BY <1>1 DEF procVars, ProcInv
<1>2. CASE UNCHANGED vars
  BY <1>1, <1>2 DEF vars
<1>3. ASSUME NEW c \in Controls, Process(c) \/ ControlDies(c) \/ WorkerDies(c) PROVE ProcInv'
  BY <1>3, ControlProc, WorkerProc, EndProc DEF Process, ControlDies, WorkerDies
<1>4. ASSUME NEW op \in Ops, Open(op) PROVE UNCHANGED procVars
  BY <1>4 DEF Open
<1>5. ASSUME NEW i \in Conns, Step(i) PROVE UNCHANGED procVars
  BY <1>5 DEF Step, Window, Proxy, Worker, Send, ReadContent, ReadNav, GiveUp, Accept, Splice,
              ServeAccept, AnswerContent, PollContent, FlushContent, PollNav
<1> QED
  BY <1>1, <1>2, <1>3, <1>4, <1>5 DEF Next

(* The lock holder alone is past the lock, and the path is the server's.      *)
THEOREM ProcInvariant == Spec => []ProcInv
<1>1. Init => ProcInv
  BY ProcInit DEF Init
<1> QED
  BY <1>1, ProcNext, PTL DEF Spec

(* A worker that serves keeps its path until it ends: however many controls   *)
(* spawn workers at once, and whichever of them dies, no process unlinks the  *)
(* socket of the one that holds the shells (Daemon::bind).                    *)
THEOREM WorkerKeptHolds == Spec => WorkerKept
<1>1. ProcInv /\ ProcInv' =>
        \A w \in Controls :
          worker[w] = "serve" /\ worker'[w] = "serve" => workerPath = w /\ workerPath' = w
  BY DEF ProcInv
<1> QED
  BY <1>1, ProcInvariant, PTL DEF WorkerKept

-----------------------------------------------------------------------------
(* Sequences moved through buffers. *)

LEMMA TakenLeft ==
  ASSUME NEW S, NEW s \in Seq(S), NEW n \in Nat
  PROVE  /\ Taken(s, n) \in Seq(S) /\ Left(s, n) \in Seq(S)
         /\ Taken(s, n) \o Left(s, n) = s
         /\ Len(Taken(s, n)) <= n /\ Len(Left(s, n)) <= Len(s)
         /\ Len(s) <= n => Taken(s, n) = s /\ Left(s, n) = <<>>
<1> DEFINE m == Shorter(n, Len(s))
<1>1. m \in 0..Len(s) /\ m <= n /\ Len(s) \in Nat /\ (Len(s) <= n => m = Len(s))
  BY LenProperties DEF Shorter
<1> HIDE DEF m
<1>2. \A j \in 1..Len(s) : s[j] \in S
  BY ElementOfSeq
<1>3. SubSeq(s, 1, m) \in Seq(S) /\ Len(SubSeq(s, 1, m)) = m
  BY <1>1, <1>2, SubSeqProperties
<1>4. SubSeq(s, m + 1, Len(s)) \in Seq(S)
  BY <1>1, <1>2, SubSeqProperties
<1>8. Len(SubSeq(s, m + 1, Len(s))) <= Len(s)
  BY <1>1, <1>2, SubSeqProperties
<1>5. SubSeq(s, 1, m) \o SubSeq(s, m + 1, Len(s)) = SubSeq(s, 1, Len(s))
  <2>1. 1 \in 1..Len(s) + 1 /\ m \in 1 - 1 .. Len(s) /\ Len(s) \in m .. Len(s)
    BY <1>1
  <2> QED
    BY <2>1, ConcatAdjacentSubSeq
<1>6. SubSeq(s, 1, Len(s)) = s
  BY SubSeqFull
<1>7. m = Len(s) => SubSeq(s, m + 1, Len(s)) = <<>>
  BY <1>1, SubSeqEmpty
<1> QED
  BY <1>1, <1>3, <1>4, <1>5, <1>6, <1>7, <1>8 DEF Taken, Left, m

-----------------------------------------------------------------------------
(* The connections.  Replies are units of an answer, Words of a request.      *)

Replies ==
  [k : {"head"}, ok : BOOLEAN, n : Nat] \cup [k : {"item"}, seq : Nat, by : Nat]
    \cup [k : {"ws", "tabs"}] \cup [k : {"leaf"}, of : Nat]
Words == {"header", "payload", "NEW_TAB"}

Clients == {"greet", "send", "wait", "ok", "failed"}
Pipes == {"backlog", "open", "gone"}
Servs == {"none", "backlog", "open", "gone"}
Homes == Controls \cup {None}
ReplySeqs == Seq(Replies)
WordSeqs == Seq(Words)

ConnRecs ==
  [op : Ops, home : Homes, client : Clients, request : WordSeqs, got : ReplySeqs,
   up1 : WordSeqs, down1 : ReplySeqs, pipe : Pipes, a2b : WordSeqs, b2a : ReplySeqs,
   up2 : WordSeqs, down2 : ReplySeqs, serv : Servs, at : Homes, input : WordSeqs,
   output : ReplySeqs, handled : BOOLEAN, cut : BOOLEAN]

\* No socket holds more than it has room for.
Bounded(k) ==
  /\ Len(k.up1) <= Cap(k) /\ Len(k.up2) <= Cap(k) /\ Len(k.down1) <= Cap(k)
  /\ k.op \in Content => Len(k.down2) <= Cap(k)

\* The worker has answered nothing before it accepts the connection, and
\* answers it no more once it is gone.
Served(k, a) ==
  /\ k.pipe = "backlog" => k.serv = "none" /\ k.at = None
  /\ k.serv \in {"none", "backlog"} => k.down2 = <<>> /\ k.output = <<>> /\ ~k.handled
  /\ k.cut => k.serv = "gone"
  /\ k.op \in Content /\ ~k.handled => a = <<>>
  /\ k.op = "tab" /\ a # <<>> => k.serv = "gone"

\* What of the answer is on its way to the window, and of the request to the
\* worker.
Stream(g, d, b, e, o) == g \o d \o b \o e \o o
Downstream(k) == Stream(k.got, k.down1, k.b2a, k.down2, k.output)
Upstream(k) == Stream(k.input, k.up2, k.a2b, k.up1, k.request)

\* StreamWhole for a connection, from the moment it is opened.
Whole(k, a) ==
  k.op \in Content /\ k.pipe # "gone" /\ ~k.cut /\ Waiting(k) =>
    /\ Downstream(k) = a
    /\ k.serv # "gone" /\ ~k.handled => Upstream(k) = Request

\* Whatever was lost, what reaches the window is a prefix of the answer.
StartOf(s, a) == \E rest \in Seq(Replies) : s \o rest = a
Ordered(k, a) ==
  k.op \in Content /\ Waiting(k) =>
    StartOf(IF k.pipe = "gone" THEN k.got \o k.down1 ELSE Downstream(k), a)

\* A navigation connection: a greeting that begins with the workspace, then
\* the command, then a line.  Until the command is answered, what is left of
\* the greeting names no workspace.
Line(d, b, e) == d \o b \o e
NavDown(k) == Line(k.down1, k.b2a, k.down2)
Unnamed(s, first) == \A n \in first..Len(s) : s[n] # Ws
Navigates(k, a) ==
  k.op = "tab" =>
    /\ k.client = "greet" => Unnamed(NavDown(k), 2)
    /\ k.client \in {"greet", "send"} =>
         /\ k.up1 = <<>> /\ k.a2b = <<>> /\ k.up2 = <<>> /\ k.request = <<"NEW_TAB">>
         /\ a = <<>>
    /\ k.client = "send" => Unnamed(NavDown(k), 1)
    /\ Waiting(k) /\ k.serv \in {"none", "backlog"} => k.client = "greet" /\ NavDown(k) = <<>>
    /\ k.client = "wait" /\ a = <<>> => Unnamed(NavDown(k), 1)

\* The answer is as long as its header says, and the one to a submission
\* shows it, unless older items filled it; the answer to a navigation request
\* is a line.
Framed(i, k, a) ==
  /\ k.op \in Content /\ a # <<>> /\ a[1].ok =>
       /\ Len(a) = a[1].n + 1
       /\ k.op = "submit" => Len(a) = RespMax \/ \E n \in DOMAIN a : a[n] = Item(n - 1, i)
  /\ k.op = "tab" /\ a # <<>> => a[1] = Ws

\* What the window took is the answer, or a line that the worker sent after
\* the command.
Accepted(k, a) ==
  k.client = "ok" => a # <<>> /\ (k.op \in Content => k.got = a /\ a[1].ok)

ConnInv(i, k, a) ==
  /\ k \in ConnRecs /\ a \in Seq(Replies)
  /\ Bounded(k) /\ Served(k, a) /\ Whole(k, a) /\ Ordered(k, a) /\ Navigates(k, a)
  /\ Framed(i, k, a) /\ Accepted(k, a)

\* The inductive invariant.  Only a handled submission is in the timeline,
\* once.
ColdInv ==
  /\ ProcInv
  /\ conn \in Seq(ConnRecs) /\ answer \in Seq(Seq(Replies)) /\ Len(answer) = Len(conn)
  /\ Len(conn) <= MaxConns
  /\ timeline \in Seq(Nat) /\ tabs \in Seq(Nat)
  /\ \A i \in 1..Len(conn) : ConnInv(i, conn[i], answer[i])
  /\ \A n \in 1..Len(timeline) : timeline[n] \in 1..Len(conn) /\ conn[timeline[n]].handled
  /\ \A n, m \in 1..Len(timeline) : timeline[n] = timeline[m] => n = m

-----------------------------------------------------------------------------
(* Units moved along a stream of five buffers leave the stream as it was. *)
LEMMA MoveFirst ==
  ASSUME NEW S, NEW g \in Seq(S), NEW d \in Seq(S), NEW b \in Seq(S), NEW e \in Seq(S),
         NEW o \in Seq(S), NEW n \in Nat
  PROVE  /\ Stream(g, d \o Taken(b, n), Left(b, n), e, o) = Stream(g, d, b, e, o)
         /\ Stream(g, d, b \o Taken(e, n), Left(e, n), o) = Stream(g, d, b, e, o)
         /\ Stream(g, d, b, e \o Taken(o, n), Left(o, n)) = Stream(g, d, b, e, o)
<1>1. ASSUME NEW x \in Seq(S)
      PROVE  /\ Taken(x, n) \in Seq(S) /\ Left(x, n) \in Seq(S)
             /\ Taken(x, n) \o Left(x, n) = x
  BY TakenLeft
<1>2. ASSUME NEW t \in Seq(S), NEW l \in Seq(S)
      PROVE  /\ g \o (d \o t) \o l \o e \o o = g \o d \o (t \o l) \o e \o o
             /\ g \o d \o (b \o t) \o l \o o = g \o d \o b \o (t \o l) \o o
             /\ g \o d \o b \o (e \o t) \o l = g \o d \o b \o e \o (t \o l)
  <2>1. g \o (d \o t) \o l \o e \o o = g \o d \o (t \o l) \o e \o o
    BY SMTT(60)
  <2>2. g \o d \o (b \o t) \o l \o o = g \o d \o b \o (t \o l) \o o
    BY SMTT(60)
  <2>3. g \o d \o b \o (e \o t) \o l = g \o d \o b \o e \o (t \o l)
    BY SMTT(60)
  <2> QED
    BY <2>1, <2>2, <2>3, Zenon
<1>3. g \o (d \o Taken(b, n)) \o Left(b, n) \o e \o o = g \o d \o b \o e \o o
  <2>1. /\ Taken(b, n) \in Seq(S) /\ Left(b, n) \in Seq(S)
        /\ Taken(b, n) \o Left(b, n) = b
    BY <1>1
  <2>2. g \o (d \o Taken(b, n)) \o Left(b, n) \o e \o o
          = g \o d \o (Taken(b, n) \o Left(b, n)) \o e \o o
    BY <2>1, <1>2, Zenon
  <2> QED
    BY <2>1, <2>2, Zenon
<1>4. g \o d \o (b \o Taken(e, n)) \o Left(e, n) \o o = g \o d \o b \o e \o o
  <2>1. /\ Taken(e, n) \in Seq(S) /\ Left(e, n) \in Seq(S)
        /\ Taken(e, n) \o Left(e, n) = e
    BY <1>1
  <2>2. g \o d \o (b \o Taken(e, n)) \o Left(e, n) \o o
          = g \o d \o b \o (Taken(e, n) \o Left(e, n)) \o o
    BY <2>1, <1>2, Zenon
  <2> QED
    BY <2>1, <2>2, Zenon
<1>5. g \o d \o b \o (e \o Taken(o, n)) \o Left(o, n) = g \o d \o b \o e \o o
  <2>1. /\ Taken(o, n) \in Seq(S) /\ Left(o, n) \in Seq(S)
        /\ Taken(o, n) \o Left(o, n) = o
    BY <1>1
  <2>2. g \o d \o b \o (e \o Taken(o, n)) \o Left(o, n)
          = g \o d \o b \o e \o (Taken(o, n) \o Left(o, n))
    BY <2>1, <1>2, Zenon
  <2> QED
    BY <2>1, <2>2, Zenon
<1> QED
  BY <1>3, <1>4, <1>5, Zenon DEF Stream

(* The same for a stream of three, and for what is read at the end of five.   *)
LEMMA MoveNav ==
  ASSUME NEW S, NEW d \in Seq(S), NEW b \in Seq(S), NEW e \in Seq(S), NEW n \in Nat
  PROVE  /\ Line(d \o Taken(b, n), Left(b, n), e) = Line(d, b, e)
         /\ Line(d, b \o Taken(e, n), Left(e, n)) = Line(d, b, e)
<1>1. /\ Taken(b, n) \in Seq(S) /\ Left(b, n) \in Seq(S) /\ Taken(b, n) \o Left(b, n) = b
      /\ Taken(e, n) \in Seq(S) /\ Left(e, n) \in Seq(S) /\ Taken(e, n) \o Left(e, n) = e
  BY TakenLeft
<1>2. ASSUME NEW t \in Seq(S), NEW l \in Seq(S)
      PROVE  /\ (d \o t) \o l \o e = d \o (t \o l) \o e
             /\ d \o (b \o t) \o l = d \o b \o (t \o l)
  <2>1. (d \o t) \o l \o e = d \o (t \o l) \o e
    BY SMTT(60)
  <2>2. d \o (b \o t) \o l = d \o b \o (t \o l)
    BY SMTT(60)
  <2> QED
    BY <2>1, <2>2, Zenon
<1>3. (d \o Taken(b, n)) \o Left(b, n) \o e = d \o (Taken(b, n) \o Left(b, n)) \o e
  BY <1>1, <1>2, Zenon
<1>4. d \o (b \o Taken(e, n)) \o Left(e, n) = d \o b \o (Taken(e, n) \o Left(e, n))
  BY <1>1, <1>2, Zenon
<1> QED
  BY <1>1, <1>3, <1>4, Zenon DEF Line

LEMMA Drained ==
  ASSUME NEW S, NEW g \in Seq(S), NEW d \in Seq(S), NEW b \in Seq(S), NEW e \in Seq(S),
         NEW o \in Seq(S)
  PROVE  Stream(g \o d, <<>>, b, e, o) = Stream(g, d, b, e, o)
  BY DEF Stream

LEMMA StartShorter ==
  ASSUME NEW s \in Seq(Replies), NEW t \in Seq(Replies), NEW a, StartOf(s \o t, a)
  PROVE  StartOf(s, a)
<1>1. PICK rest \in Seq(Replies) : (s \o t) \o rest = a
  BY DEF StartOf
<1>2. (s \o t) \o rest = s \o (t \o rest) /\ t \o rest \in Seq(Replies)
  OBVIOUS
<1> QED
  BY <1>1, <1>2, Zenon DEF StartOf

LEMMA StartSelf ==
  ASSUME NEW s \in Seq(Replies)
  PROVE  StartOf(s, s)
<1>1. s \o <<>> = s /\ <<>> \in Seq(Replies)
  OBVIOUS
<1> QED
  BY <1>1, Zenon DEF StartOf

(* A prefix of the same length is the whole.                                  *)
LEMMA StartWhole ==
  ASSUME NEW s \in Seq(Replies), NEW a \in Seq(Replies), StartOf(s, a)
  PROVE  /\ Len(s) = Len(a) => s = a
         /\ s # <<>> => a # <<>> /\ a[1] = s[1]
<1>1. PICK rest \in Seq(Replies) : s \o rest = a
  BY DEF StartOf
<1>2. /\ Len(s \o rest) = Len(s) + Len(rest) /\ Len(rest) \in Nat /\ Len(s) \in Nat
      /\ \A j \in 1..Len(s) : (s \o rest)[j] = s[j]
  BY ConcatProperties, LenProperties
<1>3. Len(s) = Len(a) => s = a
  <2>1. SUFFICES ASSUME Len(s) = Len(a) PROVE s = a
    OBVIOUS
  <2>2. Len(rest) = 0
    BY <1>1, <1>2, <2>1
  <2>3. rest = <<>>
    BY <2>2, EmptySeq
  <2>4. s \o <<>> = s
    OBVIOUS
  <2> QED
    BY <1>1, <2>3, <2>4, Zenon
<1>4. s # <<>> => a # <<>> /\ a[1] = s[1]
  <2>1. SUFFICES ASSUME s # <<>> PROVE a # <<>> /\ a[1] = s[1]
    OBVIOUS
  <2>2. Len(s) \in Nat \ {0}
    BY <2>1, EmptySeq
  <2>3. 1 \in 1..Len(s) /\ Len(a) # 0
    BY <1>1, <1>2, <2>2
  <2>4. a # <<>>
    BY <2>3, EmptySeq
  <2> QED
    BY <1>1, <1>2, <2>3, <2>4
<1> QED
  BY <1>3, <1>4

LEMMA Fields ==
  ASSUME NEW k \in ConnRecs
  PROVE  /\ k.op \in Ops
         /\ k.client \in {"greet", "send", "wait", "ok", "failed"}
         /\ k.pipe \in {"backlog", "open", "gone"}
         /\ k.serv \in {"none", "backlog", "open", "gone"}
         /\ k.request \in Seq(Words) /\ k.up1 \in Seq(Words) /\ k.a2b \in Seq(Words)
         /\ k.up2 \in Seq(Words) /\ k.input \in Seq(Words)
         /\ k.got \in Seq(Replies) /\ k.down1 \in Seq(Replies) /\ k.b2a \in Seq(Replies)
         /\ k.down2 \in Seq(Replies) /\ k.output \in Seq(Replies)
         /\ k.handled \in BOOLEAN /\ k.cut \in BOOLEAN
  BY DEF ConnRecs, Clients, Pipes, Servs, WordSeqs, ReplySeqs

LEMMA Values ==
  /\ {"greet", "send", "wait", "ok", "failed"} \subseteq Clients
  /\ {"backlog", "open", "gone"} \subseteq Pipes
  /\ {"none", "backlog", "open", "gone"} \subseteq Servs
  /\ None \in Homes /\ Controls \subseteq Homes
  /\ <<>> \in WordSeqs /\ <<>> \in ReplySeqs
  BY DEF Clients, Pipes, Servs, Homes, WordSeqs, ReplySeqs

(* The same for the two streams of a connection, and for what its ends read.  *)
LEMMA UpMoves ==
  ASSUME NEW k \in ConnRecs, NEW n \in Nat
  PROVE  /\ Stream(k.input, k.up2 \o Taken(k.a2b, n), Left(k.a2b, n), k.up1, k.request)
              = Upstream(k)
         /\ Stream(k.input, k.up2, k.a2b \o Taken(k.up1, n), Left(k.up1, n), k.request)
              = Upstream(k)
         /\ Stream(k.input, k.up2, k.a2b, k.up1 \o Taken(k.request, n), Left(k.request, n))
              = Upstream(k)
         /\ Stream(k.input \o k.up2, <<>>, k.a2b, k.up1, k.request) = Upstream(k)
<1> DEFINE g == k.input
           d == k.up2
           b == k.a2b
           e == k.up1
           o == k.request
<1>1. /\ g \in Seq(Words) /\ d \in Seq(Words) /\ b \in Seq(Words) /\ e \in Seq(Words)
      /\ o \in Seq(Words)
  BY Fields
<1>2. Upstream(k) = Stream(g, d, b, e, o)
  BY DEF Upstream
<1> HIDE DEF g, d, b, e, o
<1>3. Stream(g, d \o Taken(b, n), Left(b, n), e, o) = Stream(g, d, b, e, o)
  BY <1>1, MoveFirst
<1>4. Stream(g, d, b \o Taken(e, n), Left(e, n), o) = Stream(g, d, b, e, o)
  BY <1>1, MoveFirst
<1>5. Stream(g, d, b, e \o Taken(o, n), Left(o, n)) = Stream(g, d, b, e, o)
  BY <1>1, MoveFirst
<1>6. Stream(g \o d, <<>>, b, e, o) = Stream(g, d, b, e, o)
  BY <1>1, Drained
<1> QED
  BY <1>2, <1>3, <1>4, <1>5, <1>6 DEF g, d, b, e, o

LEMMA DownMoves ==
  ASSUME NEW k \in ConnRecs, NEW n \in Nat
  PROVE  /\ Stream(k.got, k.down1 \o Taken(k.b2a, n), Left(k.b2a, n), k.down2, k.output)
              = Downstream(k)
         /\ Stream(k.got, k.down1, k.b2a \o Taken(k.down2, n), Left(k.down2, n), k.output)
              = Downstream(k)
         /\ Stream(k.got, k.down1, k.b2a, k.down2 \o Taken(k.output, n), Left(k.output, n))
              = Downstream(k)
         /\ Stream(k.got \o k.down1, <<>>, k.b2a, k.down2, k.output) = Downstream(k)
<1> DEFINE g == k.got
           d == k.down1
           b == k.b2a
           e == k.down2
           o == k.output
<1>1. /\ g \in Seq(Replies) /\ d \in Seq(Replies) /\ b \in Seq(Replies) /\ e \in Seq(Replies)
      /\ o \in Seq(Replies)
  BY Fields
<1>2. Downstream(k) = Stream(g, d, b, e, o)
  BY DEF Downstream
<1> HIDE DEF g, d, b, e, o
<1>3. Stream(g, d \o Taken(b, n), Left(b, n), e, o) = Stream(g, d, b, e, o)
  BY <1>1, MoveFirst
<1>4. Stream(g, d, b \o Taken(e, n), Left(e, n), o) = Stream(g, d, b, e, o)
  BY <1>1, MoveFirst
<1>5. Stream(g, d, b, e \o Taken(o, n), Left(o, n)) = Stream(g, d, b, e, o)
  BY <1>1, MoveFirst
<1>6. Stream(g \o d, <<>>, b, e, o) = Stream(g, d, b, e, o)
  BY <1>1, Drained
<1> QED
  BY <1>2, <1>3, <1>4, <1>5, <1>6 DEF g, d, b, e, o

LEMMA LineMoves ==
  ASSUME NEW k \in ConnRecs, NEW n \in Nat
  PROVE  /\ Line(k.down1 \o Taken(k.b2a, n), Left(k.b2a, n), k.down2) = NavDown(k)
         /\ Line(k.down1, k.b2a \o Taken(k.down2, n), Left(k.down2, n)) = NavDown(k)
<1> DEFINE d == k.down1
           b == k.b2a
           e == k.down2
<1>1. d \in Seq(Replies) /\ b \in Seq(Replies) /\ e \in Seq(Replies)
  BY Fields
<1>2. NavDown(k) = Line(d, b, e)
  BY DEF NavDown
<1> HIDE DEF d, b, e
<1>3. /\ Line(d \o Taken(b, n), Left(b, n), e) = Line(d, b, e)
      /\ Line(d, b \o Taken(e, n), Left(e, n)) = Line(d, b, e)
  BY <1>1, MoveNav
<1> QED
  BY <1>2, <1>3 DEF d, b, e

(* Lengths are natural numbers, and the caps too.                             *)
LEMMA Lengths ==
  ASSUME NEW k \in ConnRecs, Bounded(k)
  PROVE  /\ Cap(k) \in Nat \ {0} /\ ReadMax \in Nat /\ NavCap \in Nat /\ NavMax \in Nat
         /\ Room(k, k.up1) \in Nat /\ Room(k, k.up2) \in Nat /\ Room(k, k.down1) \in Nat
         /\ k.op \in Content => Room(k, k.down2) \in Nat
<1>1. Cap(k) \in Nat \ {0} /\ ReadMax \in Nat /\ NavCap \in Nat /\ NavMax \in Nat
  BY ColdAssumption DEF Cap
<1>2. /\ Len(k.up1) \in Nat /\ Len(k.up2) \in Nat /\ Len(k.down1) \in Nat
      /\ Len(k.down2) \in Nat
  BY Fields, LenProperties
<1> QED
  BY <1>1, <1>2 DEF Bounded, Cap, Room

(* What is written to a socket fits.                                          *)
LEMMA WriteFits ==
  ASSUME NEW S, NEW k, NEW b \in Seq(S), NEW s \in Seq(S), Room(k, b) \in Nat
  PROVE  /\ b \o Taken(s, Room(k, b)) \in Seq(S)
         /\ Len(b \o Taken(s, Room(k, b))) <= Cap(k)
         /\ Left(s, Room(k, b)) \in Seq(S)
<1>1. /\ Taken(s, Room(k, b)) \in Seq(S) /\ Left(s, Room(k, b)) \in Seq(S)
      /\ Len(Taken(s, Room(k, b))) <= Room(k, b)
  BY TakenLeft
<1> DEFINE t == Taken(s, Room(k, b))
<1> HIDE DEF t
<1>2. Len(b \o t) = Len(b) + Len(t) /\ b \o t \in Seq(S) /\ Len(b) \in Nat /\ Len(t) \in Nat
  BY <1>1, ConcatProperties, LenProperties DEF t
<1>3. Len(b) + Len(t) <= Cap(k)
  BY <1>1, <1>2, ColdAssumption DEF Room, Cap, t
<1> QED
  BY <1>1, <1>2, <1>3 DEF t

-----------------------------------------------------------------------------
(* What each step makes of a connection. *)

(* A window that waits has a prefix of the answer.                            *)
LEMMA HasStart ==
  ASSUME NEW i, NEW k, NEW a, ConnInv(i, k, a), k.op \in Content, Waiting(k)
  PROVE  StartOf(k.got \o k.down1, a)
<1>1. k \in ConnRecs
  BY DEF ConnInv
<1>2. /\ k.got \in Seq(Replies) /\ k.down1 \in Seq(Replies) /\ k.b2a \in Seq(Replies)
      /\ k.down2 \in Seq(Replies) /\ k.output \in Seq(Replies)
  BY <1>1, Fields
<1>3. CASE k.pipe = "gone"
  BY <1>3 DEF ConnInv, Ordered
<1>4. CASE k.pipe # "gone"
  <2>1. StartOf(k.got \o k.down1 \o k.b2a \o k.down2 \o k.output, a)
    BY <1>4 DEF ConnInv, Ordered, Downstream, Stream
  <2> DEFINE s2 == k.got \o k.down1
             s3 == s2 \o k.b2a
             s4 == s3 \o k.down2
  <2>2. s2 \in Seq(Replies)
    BY <1>2
  <2> HIDE DEF s2
  <2>3. s3 \in Seq(Replies)
    BY <1>2, <2>2
  <2> HIDE DEF s3
  <2>4. s4 \in Seq(Replies)
    BY <1>2, <2>3
  <2> HIDE DEF s4
  <2>5. StartOf(s4, a)
    BY <1>2, <2>1, <2>4, StartShorter, Zenon DEF s2, s3, s4
  <2>6. StartOf(s3, a)
    BY <1>2, <2>3, <2>5, StartShorter, Zenon DEF s4
  <2>7. StartOf(s2, a)
    BY <1>2, <2>2, <2>6, StartShorter, Zenon DEF s3
  <2> QED
    BY <2>7 DEF s2
<1> QED
  BY <1>3, <1>4

(* What is under way on a navigation connection, and what its window has of it. *)
LEMMA NavParts ==
  ASSUME NEW k \in ConnRecs
  PROVE  /\ NavDown(k) \in Seq(Replies) /\ Len(NavDown(k)) \in Nat
         /\ Len(k.down1) \in Nat /\ Len(k.down1) <= Len(NavDown(k))
         /\ \A n \in 1..Len(k.down1) : NavDown(k)[n] = k.down1[n]
         /\ NavDown(k) = <<>> => k.down1 = <<>> /\ k.b2a = <<>>
         /\ k.b2a = <<>> /\ k.down2 = <<>> => NavDown(k) = k.down1
         /\ k.down1 = <<>> /\ k.b2a = <<>> => NavDown(k) = k.down2
<1> DEFINE d == k.down1
           b == k.b2a
           e == k.down2
<1>1. d \in Seq(Replies) /\ b \in Seq(Replies) /\ e \in Seq(Replies)
  BY Fields
<1>2. NavDown(k) = d \o b \o e
  BY DEF NavDown, Line
<1> HIDE DEF d, b, e
<1>3. /\ d \o b \in Seq(Replies) /\ Len(d \o b) = Len(d) + Len(b)
      /\ \A n \in 1..Len(d) : (d \o b)[n] = d[n]
      /\ Len(d) \in Nat /\ Len(b) \in Nat /\ Len(e) \in Nat
  BY <1>1, ConcatProperties, LenProperties
<1>4. /\ Len(NavDown(k)) = Len(d) + Len(b) + Len(e) /\ NavDown(k) \in Seq(Replies)
      /\ \A n \in 1..Len(d) + Len(b) : NavDown(k)[n] = (d \o b)[n]
  BY <1>1, <1>2, <1>3, ConcatProperties
<1>5. \A s \in {d, b, e} : Len(s) = 0 <=> s = <<>>
  BY <1>1, EmptySeq
<1>6. Len(<<>>) = 0
  BY EmptySeq
<1>7. NavDown(k) = <<>> => d = <<>> /\ b = <<>>
  BY <1>3, <1>4, <1>5, <1>6
<1>8. d \o <<>> \o <<>> = d /\ <<>> \o <<>> \o e = e
  BY <1>1
<1>9. (b = <<>> /\ e = <<>> => NavDown(k) = d) /\ (d = <<>> /\ b = <<>> => NavDown(k) = e)
  BY <1>2, <1>8, Zenon
<1>10. Len(NavDown(k)) \in Nat /\ Len(d) <= Len(NavDown(k))
  BY <1>3, <1>4
<1>11. \A n \in 1..Len(d) : NavDown(k)[n] = d[n]
  BY <1>3, <1>4
<1> QED
  BY <1>3, <1>4, <1>7, <1>9, <1>10, <1>11 DEF d, b, e

(* A window that reads a line leaves the rest of what is under way.           *)
LEMMA LineRead ==
  ASSUME NEW k \in ConnRecs, NEW l \in ConnRecs, k.down1 # <<>>,
         l.down1 = Left(k.down1, NavMax), l.b2a = k.b2a, l.down2 = k.down2,
         Unnamed(NavDown(k), 2)
  PROVE  Unnamed(NavDown(l), 1)
<1> DEFINE t == Taken(k.down1, NavMax)
           r == Left(k.down1, NavMax)
<1>1. /\ k.down1 \in Seq(Replies) /\ k.b2a \in Seq(Replies) /\ k.down2 \in Seq(Replies)
      /\ NavMax \in Nat \ {0}
  BY Fields, ColdAssumption
<1>2. t \in Seq(Replies) /\ r \in Seq(Replies) /\ t \o r = k.down1
  BY <1>1, TakenLeft
<1>3. Len(t) \in Nat /\ Len(t) >= 1
  <2>1. /\ Len(k.down1) \in Nat /\ Len(k.down1) # 0
        /\ \A n \in 1..Len(k.down1) : k.down1[n] \in Replies
    BY <1>1, EmptySeq, LenProperties, ElementOfSeq
  <2> DEFINE m == Shorter(NavMax, Len(k.down1))
  <2>2. m \in 1..Len(k.down1)
    BY <1>1, <2>1 DEF Shorter
  <2> HIDE DEF m
  <2>3. Len(SubSeq(k.down1, 1, m)) = m
    BY <1>1, <2>1, <2>2, SubSeqProperties
  <2> QED
    BY <2>1, <2>2, <2>3 DEF Taken, m
<1> HIDE DEF t, r
<1>4. NavDown(k) = t \o NavDown(l)
  <2>1. \A b, e \in Seq(Replies) : (t \o r) \o b \o e = t \o (r \o b \o e)
    <3>1. TAKE b, e \in Seq(Replies)
    <3>2. (t \o r) \o b = t \o (r \o b) /\ r \o b \in Seq(Replies)
      <4>1. t \in Seq(Replies) /\ r \in Seq(Replies) /\ b \in Seq(Replies)
        BY <1>2
      <4>2. r \o b \in Seq(Replies)
        BY <4>1
      <4> QED
        BY <4>1, <4>2
    <3> DEFINE x == r \o b
    <3>3. x \in Seq(Replies)
      BY <3>2
    <3> HIDE DEF x
    <3>4. (t \o x) \o e = t \o (x \o e)
      BY <1>2, <3>3
    <3> QED
      BY <3>2, <3>4, Zenon DEF x
  <2>2. NavDown(k) = (t \o r) \o k.b2a \o k.down2
    BY <1>2, Zenon DEF NavDown, Line
  <2>3. NavDown(l) = r \o k.b2a \o k.down2
    BY DEF NavDown, Line, r
  <2> QED
    BY <1>1, <2>1, <2>2, <2>3, Zenon
<1> DEFINE s == NavDown(l)
<1>5. s \in Seq(Replies) /\ Len(s) \in Nat
  BY NavParts
<1> HIDE DEF s
<1>6. /\ Len(NavDown(k)) = Len(t) + Len(s)
      /\ \A n \in 1..Len(s) : NavDown(k)[Len(t) + n] = s[n]
  <2>1. /\ Len(t \o s) = Len(t) + Len(s)
        /\ \A n \in Len(t) + 1 .. Len(t) + Len(s) : (t \o s)[n] = s[n - Len(t)]
    BY <1>2, <1>5, ConcatProperties
  <2>2. NavDown(k) = t \o s
    BY <1>4 DEF s
  <2>3. ASSUME NEW n \in 1..Len(s) PROVE (t \o s)[Len(t) + n] = s[n]
    <3>1. /\ Len(t) + n \in Len(t) + 1 .. Len(t) + Len(s)
          /\ (Len(t) + n) - Len(t) = n
      BY <1>3, <1>5
    <3> QED
      BY <2>1, <3>1
  <2> QED
    BY <2>1, <2>2, <2>3
<1>7. \A n \in 1..Len(s) : Len(t) + n \in 2..Len(NavDown(k))
  BY <1>3, <1>5, <1>6
<1> QED
  BY <1>6, <1>7 DEF Unnamed, s

(* A pipe that is removed (the window's side of proxy.rs).                    *)
LEMMA GoneInv ==
  ASSUME NEW i, NEW k, NEW a, ConnInv(i, k, a)
  PROVE  ConnInv(i, Gone(k), a)
<1> DEFINE l == Gone(k)
<1>1. k \in ConnRecs /\ a \in Seq(Replies) /\ Len(<<>>) = 0
  BY EmptySeq DEF ConnInv
<1>2. /\ l \in ConnRecs /\ l.op = k.op /\ l.at = k.at /\ l.client = k.client /\ l.request = k.request
      /\ l.got = k.got /\ l.up1 = <<>> /\ l.down1 = k.down1 /\ l.pipe = "gone"
      /\ l.a2b = <<>> /\ l.b2a = <<>> /\ l.up2 = k.up2 /\ l.down2 = <<>> /\ l.serv = k.serv
      /\ l.input = k.input /\ l.output = k.output /\ l.handled = k.handled /\ l.cut = k.cut
  BY <1>1, Values DEF Gone, ConnRecs
<1> HIDE DEF l
<1>3. Bounded(l)
  BY <1>1, <1>2, ColdAssumption DEF ConnInv, Bounded, Cap
<1>4. Served(l, a)
  BY <1>2 DEF ConnInv, Served
<1>5. Whole(l, a)
  BY <1>2 DEF Whole
<1>6. Ordered(l, a)
  BY <1>2, HasStart DEF Ordered, Waiting
<1>7. Navigates(l, a)
  <2>1. NavDown(l) = k.down1
    BY <1>2, NavParts
  <2>2. /\ Len(k.down1) \in Nat /\ Len(NavDown(k)) \in Nat /\ Len(k.down1) <= Len(NavDown(k))
        /\ \A n \in 1..Len(k.down1) : NavDown(k)[n] = k.down1[n]
        /\ NavDown(k) = <<>> => k.down1 = <<>>
    BY <1>1, NavParts
  <2>3. ASSUME NEW first \in {1, 2}, Unnamed(NavDown(k), first) PROVE Unnamed(NavDown(l), first)
    BY <2>1, <2>2, <2>3 DEF Unnamed
  <2> QED
    BY <1>2, <2>1, <2>2, <2>3 DEF ConnInv, Navigates, Waiting
<1>8. Framed(i, l, a) /\ Accepted(l, a)
  BY <1>2 DEF ConnInv, Framed, Accepted
<1> QED
  BY <1>1, <1>2, <1>3, <1>4, <1>5, <1>6, <1>7, <1>8 DEF ConnInv, l

(* A window that fails: nothing more is promised to it.                       *)
LEMMA FailInv ==
  ASSUME NEW i, NEW k, NEW a, ConnInv(i, k, a)
  PROVE  ConnInv(i, Fail(k), a)
<1> DEFINE l == Fail(k)
<1>1. k \in ConnRecs /\ a \in Seq(Replies) /\ Len(<<>>) = 0
  BY EmptySeq DEF ConnInv
<1>2. /\ l \in ConnRecs /\ l.op = k.op /\ l.at = k.at /\ l.client = "failed" /\ l.up1 = k.up1
      /\ l.down1 = <<>> /\ l.pipe = k.pipe /\ l.up2 = k.up2 /\ l.down2 = k.down2
      /\ l.serv = k.serv /\ l.output = k.output /\ l.handled = k.handled /\ l.cut = k.cut
  BY <1>1, Values DEF Fail, ConnRecs
<1> HIDE DEF l
<1>3. Bounded(l)
  BY <1>1, <1>2, ColdAssumption DEF ConnInv, Bounded, Cap
<1>4. Served(l, a)
  BY <1>2 DEF ConnInv, Served
<1>5. Whole(l, a) /\ Ordered(l, a) /\ Navigates(l, a) /\ Accepted(l, a)
  BY <1>2 DEF Whole, Ordered, Navigates, Accepted, Waiting
<1>6. Framed(i, l, a)
  BY <1>2 DEF ConnInv, Framed
<1> QED
  BY <1>1, <1>2, <1>3, <1>4, <1>5, <1>6 DEF ConnInv, l

(* A window that writes its request (write_all).                              *)
Sent(k) ==
  [k EXCEPT !.up1 = @ \o Taken(k.request, Room(k, k.up1)), !.request = Left(@, Room(k, k.up1)),
            !.client = IF Len(k.request) <= Room(k, k.up1) THEN "wait" ELSE "send"]

LEMMA SentInv ==
  ASSUME NEW i, NEW k, NEW a, ConnInv(i, k, a), k.client = "send", Room(k, k.up1) > 0
  PROVE  ConnInv(i, Sent(k), a)
<1> DEFINE l == Sent(k)
           n == Room(k, k.up1)
<1>1. k \in ConnRecs /\ a \in Seq(Replies) /\ Bounded(k)
  BY DEF ConnInv
<1>2. n \in Nat
  BY <1>1, Lengths
<1>3. /\ k.up1 \o Taken(k.request, n) \in WordSeqs /\ Left(k.request, n) \in WordSeqs
      /\ Len(k.up1 \o Taken(k.request, n)) <= Cap(k)
  BY <1>1, <1>2, Fields, WriteFits DEF WordSeqs
<1>4. /\ l \in ConnRecs /\ l.op = k.op /\ l.at = k.at /\ l.client \in {"wait", "send"} /\ l.got = k.got
      /\ l.up1 = k.up1 \o Taken(k.request, n) /\ l.request = Left(k.request, n)
      /\ l.down1 = k.down1 /\ l.pipe = k.pipe /\ l.a2b = k.a2b /\ l.b2a = k.b2a
      /\ l.up2 = k.up2 /\ l.down2 = k.down2 /\ l.serv = k.serv /\ l.input = k.input
      /\ l.output = k.output /\ l.handled = k.handled /\ l.cut = k.cut
      /\ l.client = IF Len(k.request) <= n THEN "wait" ELSE "send"
  BY <1>1, <1>3, Values DEF Sent, ConnRecs
<1> HIDE DEF l
<1>5. Bounded(l)
  BY <1>1, <1>3, <1>4 DEF Bounded, Cap
<1>6. Served(l, a)
  BY <1>4 DEF ConnInv, Served
<1>7. Upstream(l) = Upstream(k) /\ Downstream(l) = Downstream(k)
  <2>1. Stream(k.input, k.up2, k.a2b, k.up1 \o Taken(k.request, n), Left(k.request, n))
          = Upstream(k)
    BY <1>1, <1>2, UpMoves
  <2> QED
    BY <1>4, <2>1, Zenon DEF Upstream, Downstream
<1>8. Whole(l, a) /\ Ordered(l, a)
  BY <1>4, <1>7 DEF ConnInv, Whole, Ordered, Waiting
<1>9. Navigates(l, a)
  <2>1. SUFFICES ASSUME k.op = "tab" PROVE Navigates(l, a)
    BY <1>4 DEF Navigates
  <2>2. /\ k.request = <<"NEW_TAB">> /\ a = <<>> /\ Unnamed(NavDown(k), 1)
        /\ k.serv \notin {"none", "backlog"}
    BY <2>1 DEF ConnInv, Navigates, Waiting
  <2>3. Len(k.request) = 1 /\ Len(a) = 0
    BY <2>2, EmptySeq
  <2>4. l.client = "wait" /\ NavDown(l) = NavDown(k)
    BY <1>2, <1>4, <2>3 DEF NavDown
  <2> QED
    BY <1>4, <2>2, <2>3, <2>4 DEF Navigates
<1>10. Framed(i, l, a) /\ Accepted(l, a)
  BY <1>4 DEF ConnInv, Framed, Accepted
<1> QED
  BY <1>1, <1>4, <1>5, <1>6, <1>8, <1>9, <1>10 DEF ConnInv, l

(* A window that reads more of its answer (read_to_end).                      *)
GotMore(k) == [k EXCEPT !.got = @ \o k.down1, !.down1 = <<>>]

LEMMA GotMoreInv ==
  ASSUME NEW i, NEW k, NEW a, ConnInv(i, k, a), k.op \in Content, k.client = "wait"
  PROVE  ConnInv(i, GotMore(k), a)
<1> DEFINE l == GotMore(k)
<1>1. k \in ConnRecs /\ a \in Seq(Replies) /\ Len(<<>>) = 0 /\ k.op # "tab"
  BY EmptySeq DEF ConnInv, Content
<1>2. /\ k.got \in Seq(Replies) /\ k.down1 \in Seq(Replies)
      /\ k.got \o k.down1 \in ReplySeqs
  BY <1>1, Fields DEF ReplySeqs
<1>3. /\ l \in ConnRecs /\ l.op = k.op /\ l.at = k.at /\ l.client = "wait" /\ l.got = k.got \o k.down1
      /\ l.up1 = k.up1 /\ l.request = k.request /\ l.down1 = <<>> /\ l.pipe = k.pipe
      /\ l.a2b = k.a2b /\ l.b2a = k.b2a /\ l.up2 = k.up2 /\ l.down2 = k.down2
      /\ l.serv = k.serv /\ l.input = k.input /\ l.output = k.output
      /\ l.handled = k.handled /\ l.cut = k.cut
  BY <1>1, <1>2, Values DEF GotMore, ConnRecs
<1> HIDE DEF l
<1>4. Bounded(l)
  BY <1>1, <1>3, ColdAssumption DEF ConnInv, Bounded, Cap
<1>5. Served(l, a)
  BY <1>3 DEF ConnInv, Served
<1>6. Upstream(l) = Upstream(k)
  BY <1>3 DEF Upstream
<1>7. Downstream(l) = Downstream(k)
  <2>1. 0 \in Nat
    OBVIOUS
  <2>2. Stream(k.got \o k.down1, <<>>, k.b2a, k.down2, k.output) = Downstream(k)
    BY <1>1, <2>1, DownMoves
  <2> QED
    BY <1>3, <2>2 DEF Downstream
<1>8. l.got \o l.down1 = k.got \o k.down1
  <2>1. (k.got \o k.down1) \o <<>> = k.got \o k.down1
    BY <1>2
  <2> QED
    BY <1>3, <2>1, Zenon
<1>9. Whole(l, a)
  BY <1>3, <1>6, <1>7 DEF ConnInv, Whole, Waiting
<1>10. Ordered(l, a)
  <2>1. k.pipe = "gone" => StartOf(k.got \o k.down1, a)
    BY HasStart DEF Waiting
  <2>2. k.pipe # "gone" => StartOf(Downstream(k), a)
    BY DEF ConnInv, Ordered, Waiting
  <2> QED
    BY <1>3, <1>7, <1>8, <2>1, <2>2, Zenon DEF Ordered
<1>11. Navigates(l, a)
  BY <1>1, <1>3 DEF Navigates
<1>12. Framed(i, l, a) /\ Accepted(l, a)
  BY <1>3 DEF ConnInv, Framed, Accepted
<1> QED
  BY <1>1, <1>3, <1>4, <1>5, <1>9, <1>10, <1>11, <1>12 DEF ConnInv, l

(* A window that takes what it has for the response: parse_content_snapshot   *)
(* lets nothing through but the whole answer.                                 *)
Taking(k) == [k EXCEPT !.client = "ok"]

LEMMA ParsedWhole ==
  ASSUME NEW i, NEW k, NEW a, ConnInv(i, k, a), k.op \in Content, k.client = "wait",
         k.down1 = <<>>, Parse(k.got)
  PROVE  k.got = a /\ k.got # <<>> /\ k.got[1].ok
<1>1. k \in ConnRecs /\ a \in Seq(Replies)
  BY DEF ConnInv
<1>2. k.got \in Seq(Replies)
  BY <1>1, Fields
<1>3. StartOf(k.got \o <<>>, a)
  BY HasStart DEF Waiting
<1>4. k.got \o <<>> = k.got
  BY <1>2
<1>5. StartOf(k.got, a)
  BY <1>3, <1>4, Zenon
<1>6. k.got # <<>> /\ k.got[1].ok /\ Len(k.got) = k.got[1].n + 1
  BY DEF Parse
<1>7. a # <<>> /\ a[1] = k.got[1] /\ (Len(k.got) = Len(a) => k.got = a)
  BY <1>1, <1>2, <1>5, <1>6, StartWhole
<1>8. Len(a) = a[1].n + 1
  BY <1>6, <1>7 DEF ConnInv, Framed
<1> QED
  BY <1>6, <1>7, <1>8

LEMMA TakingInv ==
  ASSUME NEW i, NEW k, NEW a, ConnInv(i, k, a), k.op \in Content, k.client = "wait",
         k.down1 = <<>>, Parse(k.got)
  PROVE  ConnInv(i, Taking(k), a)
<1> DEFINE l == Taking(k)
<1>1. k \in ConnRecs /\ a \in Seq(Replies) /\ k.op # "tab"
  BY DEF ConnInv, Content
<1>2. /\ l \in ConnRecs /\ l.op = k.op /\ l.at = k.at /\ l.client = "ok" /\ l.got = k.got
      /\ l.up1 = k.up1 /\ l.down1 = k.down1 /\ l.pipe = k.pipe /\ l.up2 = k.up2
      /\ l.down2 = k.down2 /\ l.serv = k.serv /\ l.output = k.output
      /\ l.handled = k.handled /\ l.cut = k.cut
  BY <1>1, Values DEF Taking, ConnRecs
<1> HIDE DEF l
<1>3. Bounded(l) /\ Served(l, a)
  BY <1>2 DEF ConnInv, Bounded, Cap, Served
<1>4. Whole(l, a) /\ Ordered(l, a) /\ Navigates(l, a)
  BY <1>1, <1>2 DEF Whole, Ordered, Navigates, Waiting
<1>5. Framed(i, l, a)
  BY <1>2 DEF ConnInv, Framed
<1>6. k.got = a /\ k.got # <<>> /\ k.got[1].ok
  BY ParsedWhole
<1>7. Accepted(l, a)
  BY <1>2, <1>6 DEF Accepted
<1> QED
  BY <1>1, <1>2, <1>3, <1>4, <1>5, <1>7 DEF ConnInv, l

(* The window of a navigation connection has read a line that names the       *)
(* workspace: the greeting, or the line that answers its command.             *)
Greeted(k) == [k EXCEPT !.client = "send", !.down1 = Left(@, NavMax)]

LEMMA GreetedInv ==
  ASSUME NEW i, NEW k, NEW a, ConnInv(i, k, a), k.op = "tab", k.client = "greet",
         k.down1 # <<>>
  PROVE  ConnInv(i, Greeted(k), a)
<1> DEFINE l == Greeted(k)
<1>1. k \in ConnRecs /\ a \in Seq(Replies) /\ Bounded(k)
  BY DEF ConnInv
<1>2. NavMax \in Nat /\ Cap(k) \in Nat /\ k.down1 \in Seq(Replies)
  BY <1>1, Lengths, Fields
<1>3. Left(k.down1, NavMax) \in ReplySeqs /\ Len(Left(k.down1, NavMax)) <= Len(k.down1)
  BY <1>2, TakenLeft DEF ReplySeqs
<1>4. /\ l \in ConnRecs /\ l.op = "tab" /\ l.at = k.at /\ l.client = "send" /\ l.got = k.got
      /\ l.up1 = k.up1 /\ l.request = k.request /\ l.down1 = Left(k.down1, NavMax)
      /\ l.pipe = k.pipe /\ l.a2b = k.a2b /\ l.b2a = k.b2a /\ l.up2 = k.up2
      /\ l.down2 = k.down2 /\ l.serv = k.serv /\ l.output = k.output
      /\ l.handled = k.handled /\ l.cut = k.cut
  BY <1>1, <1>3, Values DEF Greeted, ConnRecs
<1>5. l.op \notin Content
  BY <1>4 DEF Content
<1> HIDE DEF l
<1>6. Bounded(l)
  <2>1. Len(l.down1) \in Nat /\ Len(k.down1) \in Nat /\ Len(l.down1) <= Len(k.down1)
    BY <1>2, <1>3, <1>4, LenProperties DEF ReplySeqs
  <2> QED
    BY <1>1, <1>2, <1>4, <1>5, <2>1 DEF Bounded, Cap
<1>7. Served(l, a)
  BY <1>4, <1>5 DEF ConnInv, Served
<1>8. Whole(l, a) /\ Ordered(l, a) /\ Framed(i, l, a) /\ Accepted(l, a)
  BY <1>4, <1>5 DEF ConnInv, Whole, Ordered, Framed, Accepted
<1>9. Navigates(l, a)
  <2>1. Unnamed(NavDown(k), 2)
    BY DEF ConnInv, Navigates
  <2>2. Unnamed(NavDown(l), 1)
    BY <1>1, <1>4, <2>1, LineRead
  <2>3. k.down1 # <<>> => NavDown(k) # <<>>
    BY <1>1, NavParts
  <2> QED
    BY <1>4, <2>2, <2>3 DEF ConnInv, Navigates, Waiting
<1> QED
  BY <1>1, <1>4, <1>6, <1>7, <1>8, <1>9 DEF ConnInv, l

NavTaken(k) ==
  [k EXCEPT !.client = "ok", !.got = Taken(k.down1, NavMax), !.down1 = <<>>]

LEMMA NavTakenInv ==
  ASSUME NEW i, NEW k, NEW a, ConnInv(i, k, a), k.op = "tab", k.client = "wait",
         ParseNav(Taken(k.down1, NavMax))
  PROVE  ConnInv(i, NavTaken(k), a)
<1> DEFINE l == NavTaken(k)
           t == Taken(k.down1, NavMax)
<1>1. k \in ConnRecs /\ a \in Seq(Replies) /\ Len(<<>>) = 0
  BY EmptySeq DEF ConnInv
<1>2. NavMax \in Nat /\ k.down1 \in Seq(Replies)
  BY <1>1, Fields, ColdAssumption
<1>3. t \in ReplySeqs /\ t \o Left(k.down1, NavMax) = k.down1 /\ Left(k.down1, NavMax) \in Seq(Replies)
  BY <1>2, TakenLeft DEF ReplySeqs
<1>4. /\ l \in ConnRecs /\ l.op = "tab" /\ l.at = k.at /\ l.client = "ok"
      /\ l.up1 = k.up1 /\ l.down1 = <<>> /\ l.pipe = k.pipe /\ l.up2 = k.up2
      /\ l.down2 = k.down2 /\ l.serv = k.serv /\ l.output = k.output
      /\ l.handled = k.handled /\ l.cut = k.cut
  BY <1>1, <1>3, Values DEF NavTaken, ConnRecs
<1>5. l.op \notin Content
  BY <1>4 DEF Content
<1> HIDE DEF l
<1>6. Bounded(l) /\ Served(l, a)
  BY <1>1, <1>4, <1>5, ColdAssumption DEF ConnInv, Bounded, Served, Cap
<1>7. Whole(l, a) /\ Ordered(l, a) /\ Framed(i, l, a) /\ Navigates(l, a)
  BY <1>4, <1>5 DEF ConnInv, Whole, Ordered, Framed, Navigates, Waiting
<1>8. a # <<>>
  <2>1. PICK n \in DOMAIN t : t[n] = Ws
    BY DEF ParseNav
  <2> DEFINE r == Left(k.down1, NavMax)
  <2>2. t \in Seq(Replies) /\ r \in Seq(Replies) /\ t \o r = k.down1
    BY <1>3 DEF ReplySeqs
  <2> HIDE DEF t, r
  <2>3. n \in 1..Len(t) /\ Len(t) \in Nat /\ Len(r) \in Nat
    BY <2>1, <2>2, LenProperties
  <2>4. n \in 1..Len(k.down1) /\ k.down1[n] = Ws
    BY <2>1, <2>2, <2>3, ConcatProperties
  <2>5. /\ NavDown(k)[n] = k.down1[n] /\ Len(k.down1) <= Len(NavDown(k))
        /\ Len(k.down1) \in Nat /\ Len(NavDown(k)) \in Nat
    BY <1>1, <2>4, NavParts
  <2>6. ~Unnamed(NavDown(k), 1)
    BY <2>4, <2>5 DEF Unnamed
  <2> QED
    BY <2>6 DEF ConnInv, Navigates
<1>9. Accepted(l, a)
  BY <1>5, <1>8 DEF Accepted
<1> QED
  BY <1>1, <1>4, <1>6, <1>7, <1>9 DEF ConnInv, l

(* A connection that is made.                                                 *)
LEMMA FreshInv ==
  ASSUME NEW i, NEW op \in Ops, NEW c \in Controls
  PROVE  ConnInv(i, Fresh(op, c), <<>>)
<1> DEFINE l == Fresh(op, c)
<1>1. /\ <<>> \in Seq(Replies) /\ <<>> \in Seq(Words) /\ Len(<<>>) = 0
      /\ <<"NEW_TAB">> \in WordSeqs /\ Request \in WordSeqs
  BY EmptySeq DEF Request, Words, WordSeqs
<1>2. l \in ConnRecs
  BY <1>1, Values DEF Fresh, ConnRecs
<1>3. /\ l.op = op /\ l.at = None /\ l.client = (IF op = "tab" THEN "greet" ELSE "send")
      /\ l.request = (IF op = "tab" THEN <<"NEW_TAB">> ELSE Request) /\ l.got = <<>>
      /\ l.up1 = <<>> /\ l.down1 = <<>> /\ l.pipe = "backlog" /\ l.a2b = <<>>
      /\ l.b2a = <<>> /\ l.up2 = <<>> /\ l.down2 = <<>> /\ l.serv = "none"
      /\ l.input = <<>> /\ l.output = <<>> /\ ~l.handled /\ ~l.cut
  BY DEF Fresh
<1> HIDE DEF l
<1>4. Bounded(l) /\ Served(l, <<>>)
  BY <1>1, <1>3, ColdAssumption DEF Bounded, Cap, Served
<1>5. Downstream(l) = <<>>
  <2>1. Stream(<<>>, <<>>, <<>>, <<>>, <<>>) = <<>>
    BY DEF Stream
  <2> QED
    BY <1>3, <2>1 DEF Downstream
<1>6. op \in Content => Upstream(l) = Request
  <2>1. Request \in Seq(Words)
    BY <1>1 DEF WordSeqs
  <2>2. <<>> \o <<>> \o <<>> \o <<>> \o Request = Request
    BY <2>1
  <2>3. Stream(<<>>, <<>>, <<>>, <<>>, Request) = Request
    BY <2>2, Zenon DEF Stream
  <2> QED
    BY <1>3, <2>3 DEF Upstream, Content
<1>7. Whole(l, <<>>)
  BY <1>3, <1>5, <1>6 DEF Whole
<1>8. Ordered(l, <<>>)
  BY <1>1, <1>3, <1>5, StartSelf DEF Ordered
<1>9. NavDown(l) = <<>>
  BY <1>2, <1>3, NavParts
<1>10. Navigates(l, <<>>)
  BY <1>1, <1>3, <1>9 DEF Navigates, Unnamed
<1>11. Framed(i, l, <<>>) /\ Accepted(l, <<>>)
  BY <1>3 DEF Framed, Accepted
<1> QED
  BY <1>1, <1>2, <1>4, <1>7, <1>8, <1>10, <1>11 DEF ConnInv, l

(* The control connects a window to the worker.                               *)
Connected(k, w) == [k EXCEPT !.pipe = "open", !.serv = "backlog", !.at = w]

LEMMA ConnectedInv ==
  ASSUME NEW i, NEW k, NEW a, NEW w \in Controls, ConnInv(i, k, a), k.pipe = "backlog"
  PROVE  ConnInv(i, Connected(k, w), a)
<1> DEFINE l == Connected(k, w)
<1>1. k \in ConnRecs /\ a \in Seq(Replies)
  BY DEF ConnInv
<1>2. /\ l \in ConnRecs /\ l.op = k.op /\ l.client = k.client /\ l.got = k.got
      /\ l.up1 = k.up1 /\ l.request = k.request /\ l.down1 = k.down1 /\ l.pipe = "open"
      /\ l.a2b = k.a2b /\ l.b2a = k.b2a /\ l.up2 = k.up2 /\ l.down2 = k.down2
      /\ l.serv = "backlog" /\ l.input = k.input /\ l.output = k.output
      /\ l.handled = k.handled /\ l.cut = k.cut
  BY <1>1, Values DEF Connected, ConnRecs
<1> HIDE DEF l
<1>3. k.serv = "none"
  BY DEF ConnInv, Served
<1>4. Bounded(l)
  BY <1>2 DEF ConnInv, Bounded, Cap
<1>5. Served(l, a)
  BY <1>2, <1>3 DEF ConnInv, Served
<1>6. Upstream(l) = Upstream(k) /\ Downstream(l) = Downstream(k) /\ NavDown(l) = NavDown(k)
  BY <1>2 DEF Upstream, Downstream, NavDown
<1>7. Whole(l, a) /\ Ordered(l, a)
  BY <1>2, <1>3, <1>6 DEF ConnInv, Whole, Ordered, Waiting
<1>8. Navigates(l, a)
  BY <1>2, <1>3, <1>6 DEF ConnInv, Navigates, Waiting
<1>9. Framed(i, l, a) /\ Accepted(l, a)
  BY <1>2 DEF ConnInv, Framed, Accepted
<1> QED
  BY <1>1, <1>2, <1>4, <1>5, <1>7, <1>8, <1>9 DEF ConnInv, l

(* The proxy reads both sockets.                                              *)
LEMMA ReadBothInv ==
  ASSUME NEW i, NEW k, NEW a, ConnInv(i, k, a), k.pipe = "open"
  PROVE  ConnInv(i, ReadBoth(k), a)
<1> DEFINE l == ReadBoth(k)
           n == IF k.op = "tab" THEN NavCap ELSE ReadMax
<1>1. k \in ConnRecs /\ a \in Seq(Replies) /\ Bounded(k)
  BY DEF ConnInv
<1>2. n \in Nat /\ Cap(k) \in Nat
  BY <1>1, Lengths
<1>3. /\ k.up1 \in Seq(Words) /\ k.a2b \in Seq(Words) /\ k.down2 \in Seq(Replies)
      /\ k.b2a \in Seq(Replies)
  BY <1>1, Fields
<1>4. /\ Taken(k.up1, n) \in Seq(Words) /\ Left(k.up1, n) \in Seq(Words)
      /\ Len(Left(k.up1, n)) <= Len(k.up1)
      /\ Len(k.up1) <= n => Taken(k.up1, n) = k.up1 /\ Left(k.up1, n) = <<>>
  BY <1>2, <1>3, TakenLeft
<1>5. /\ Taken(k.down2, n) \in Seq(Replies) /\ Left(k.down2, n) \in Seq(Replies)
      /\ Len(Left(k.down2, n)) <= Len(k.down2)
      /\ Len(k.down2) <= n => Taken(k.down2, n) = k.down2 /\ Left(k.down2, n) = <<>>
  BY <1>2, <1>3, TakenLeft
<1>6. k.a2b \o Taken(k.up1, n) \in WordSeqs /\ k.b2a \o Taken(k.down2, n) \in ReplySeqs
  BY <1>3, <1>4, <1>5 DEF WordSeqs, ReplySeqs
<1>7. /\ l \in ConnRecs /\ l.op = k.op /\ l.at = k.at /\ l.client = k.client /\ l.got = k.got
      /\ l.request = k.request /\ l.down1 = k.down1 /\ l.pipe = "open"
      /\ l.up2 = k.up2 /\ l.serv = k.serv /\ l.input = k.input /\ l.output = k.output
      /\ l.handled = k.handled /\ l.cut = k.cut
      /\ l.a2b = k.a2b \o Taken(k.up1, n) /\ l.up1 = Left(k.up1, n)
      /\ l.b2a = k.b2a \o Taken(k.down2, n) /\ l.down2 = Left(k.down2, n)
  BY <1>1, <1>4, <1>5, <1>6 DEF ReadBoth, ConnRecs, WordSeqs, ReplySeqs
<1> HIDE DEF l
<1>8. Bounded(l)
  <2>1. /\ Len(k.up1) \in Nat /\ Len(k.down2) \in Nat /\ Len(Left(k.up1, n)) \in Nat
        /\ Len(Left(k.down2, n)) \in Nat
    BY <1>3, <1>4, <1>5, LenProperties
  <2>2. Len(l.up1) <= Cap(k)
    BY <1>1, <1>2, <1>4, <1>7, <2>1 DEF Bounded, Cap
  <2>3. k.op \in Content => Len(l.down2) <= Cap(k)
    BY <1>1, <1>2, <1>5, <1>7, <2>1 DEF Bounded, Cap
  <2> QED
    BY <1>1, <1>7, <2>2, <2>3 DEF Bounded, Cap
<1>9. Len(<<>>) = 0
  BY EmptySeq
<1>10. /\ k.up1 = <<>> /\ k.a2b = <<>> => l.up1 = <<>> /\ l.a2b = <<>>
       /\ k.down2 = <<>> => l.down2 = <<>>
  <2>1. k.up1 = <<>> => Taken(k.up1, n) = <<>> /\ Left(k.up1, n) = <<>>
    BY <1>2, <1>4, <1>9
  <2>2. <<>> \o <<>> = <<>>
    OBVIOUS
  <2>3. k.down2 = <<>> => Left(k.down2, n) = <<>>
    BY <1>2, <1>5, <1>9
  <2> QED
    BY <1>7, <2>1, <2>2, <2>3
<1>11. Served(l, a)
  BY <1>7, <1>10 DEF ConnInv, Served
<1>12. Upstream(l) = Upstream(k)
  BY <1>1, <1>2, <1>7, UpMoves DEF Upstream
<1>13. Downstream(l) = Downstream(k)
  BY <1>1, <1>2, <1>7, DownMoves DEF Downstream
<1>14. NavDown(l) = NavDown(k)
  BY <1>1, <1>2, <1>7, LineMoves DEF NavDown
<1>15. Whole(l, a) /\ Ordered(l, a)
  BY <1>7, <1>12, <1>13 DEF ConnInv, Whole, Ordered, Waiting
<1>16. Navigates(l, a)
  BY <1>7, <1>10, <1>14 DEF ConnInv, Navigates, Waiting
<1>17. Framed(i, l, a) /\ Accepted(l, a)
  BY <1>7 DEF ConnInv, Framed, Accepted
<1> QED
  BY <1>1, <1>7, <1>8, <1>11, <1>15, <1>16, <1>17 DEF ConnInv, l

(* It writes what fits, to the worker and to the window.                      *)
LEMMA WriteBInv ==
  ASSUME NEW i, NEW k, NEW a, ConnInv(i, k, a)
  PROVE  ConnInv(i, WriteB(k), a) /\ WriteB(k).pipe = k.pipe
<1> DEFINE l == WriteB(k)
           n == Room(k, k.up2)
<1>1. k \in ConnRecs /\ a \in Seq(Replies) /\ Bounded(k)
  BY DEF ConnInv
<1>2. n \in Nat
  BY <1>1, Lengths
<1>3. k.up2 \in Seq(Words) /\ k.a2b \in Seq(Words)
  BY <1>1, Fields
<1>4. /\ k.up2 \o Taken(k.a2b, n) \in WordSeqs /\ Left(k.a2b, n) \in WordSeqs
      /\ Len(k.up2 \o Taken(k.a2b, n)) <= Cap(k)
  BY <1>2, <1>3, WriteFits DEF WordSeqs
<1>5. /\ l \in ConnRecs /\ l.op = k.op /\ l.at = k.at /\ l.client = k.client /\ l.got = k.got
      /\ l.request = k.request /\ l.up1 = k.up1 /\ l.down1 = k.down1 /\ l.pipe = k.pipe
      /\ l.b2a = k.b2a /\ l.down2 = k.down2 /\ l.serv = k.serv /\ l.input = k.input
      /\ l.output = k.output /\ l.handled = k.handled /\ l.cut = k.cut
      /\ l.up2 = k.up2 \o Taken(k.a2b, n) /\ l.a2b = Left(k.a2b, n)
  BY <1>1, <1>4 DEF WriteB, ConnRecs
<1> HIDE DEF l
<1>6. Bounded(l) /\ Served(l, a)
  BY <1>4, <1>5 DEF ConnInv, Bounded, Cap, Served
<1>7. k.up2 = <<>> /\ k.a2b = <<>> => l.up2 = <<>> /\ l.a2b = <<>>
  <2>1. Len(<<>>) = 0
    BY EmptySeq
  <2>2. Len(k.a2b) <= n => Taken(k.a2b, n) = k.a2b /\ Left(k.a2b, n) = <<>>
    BY <1>2, <1>3, TakenLeft
  <2>3. k.a2b = <<>> => Taken(k.a2b, n) = <<>> /\ Left(k.a2b, n) = <<>>
    BY <1>2, <2>1, <2>2
  <2>4. <<>> \o <<>> = <<>>
    OBVIOUS
  <2> QED
    BY <1>5, <2>3, <2>4
<1>8. Upstream(l) = Upstream(k)
  BY <1>1, <1>2, <1>5, UpMoves DEF Upstream
<1>9. Downstream(l) = Downstream(k) /\ NavDown(l) = NavDown(k)
  BY <1>5 DEF Downstream, NavDown
<1>10. Whole(l, a) /\ Ordered(l, a)
  BY <1>5, <1>8, <1>9 DEF ConnInv, Whole, Ordered, Waiting
<1>11. Navigates(l, a)
  BY <1>5, <1>7, <1>9 DEF ConnInv, Navigates, Waiting
<1>12. Framed(i, l, a) /\ Accepted(l, a)
  BY <1>5 DEF ConnInv, Framed, Accepted
<1> QED
  BY <1>1, <1>5, <1>6, <1>10, <1>11, <1>12 DEF ConnInv, l

LEMMA WriteAInv ==
  ASSUME NEW i, NEW k, NEW a, ConnInv(i, k, a), k.pipe = "open"
  PROVE  ConnInv(i, WriteA(k), a)
<1> DEFINE l == WriteA(k)
           n == Room(k, k.down1)
<1>1. k \in ConnRecs /\ a \in Seq(Replies) /\ Bounded(k)
  BY DEF ConnInv
<1>2. n \in Nat
  BY <1>1, Lengths
<1>3. k.down1 \in Seq(Replies) /\ k.b2a \in Seq(Replies)
  BY <1>1, Fields
<1>4. /\ k.down1 \o Taken(k.b2a, n) \in ReplySeqs /\ Left(k.b2a, n) \in ReplySeqs
      /\ Len(k.down1 \o Taken(k.b2a, n)) <= Cap(k)
  BY <1>2, <1>3, WriteFits DEF ReplySeqs
<1>5. /\ l \in ConnRecs /\ l.op = k.op /\ l.at = k.at /\ l.client = k.client /\ l.got = k.got
      /\ l.request = k.request /\ l.up1 = k.up1 /\ l.up2 = k.up2 /\ l.pipe = k.pipe
      /\ l.a2b = k.a2b /\ l.down2 = k.down2 /\ l.serv = k.serv /\ l.input = k.input
      /\ l.output = k.output /\ l.handled = k.handled /\ l.cut = k.cut
      /\ l.down1 = k.down1 \o Taken(k.b2a, n) /\ l.b2a = Left(k.b2a, n)
  BY <1>1, <1>4 DEF WriteA, ConnRecs
<1> HIDE DEF l
<1>6. Bounded(l) /\ Served(l, a)
  BY <1>4, <1>5 DEF ConnInv, Bounded, Cap, Served
<1>7. Upstream(l) = Upstream(k)
  BY <1>5 DEF Upstream
<1>8. Downstream(l) = Downstream(k)
  BY <1>1, <1>2, <1>5, DownMoves DEF Downstream
<1>9. NavDown(l) = NavDown(k)
  BY <1>1, <1>2, <1>5, LineMoves DEF NavDown
<1>10. Whole(l, a) /\ Ordered(l, a)
  BY <1>5, <1>7, <1>8 DEF ConnInv, Whole, Ordered, Waiting
<1>11. Navigates(l, a)
  BY <1>5, <1>9 DEF ConnInv, Navigates, Waiting
<1>12. Framed(i, l, a) /\ Accepted(l, a)
  BY <1>5 DEF ConnInv, Framed, Accepted
<1> QED
  BY <1>1, <1>5, <1>6, <1>10, <1>11, <1>12 DEF ConnInv, l

(* One round of the splice, whichever write fails.                            *)
LEMMA SplicedInv ==
  ASSUME NEW i, NEW k, NEW a, ConnInv(i, k, a), k.pipe = "open"
  PROVE  ConnInv(i, Spliced(k), a)
<1>1. ConnInv(i, Gone(k), a)
  BY GoneInv
<1>2. ConnInv(i, WriteB(k), a) /\ WriteB(k).pipe = "open"
  BY WriteBInv
<1>3. ConnInv(i, Gone(WriteB(k)), a)
  BY <1>2, GoneInv
<1>4. ConnInv(i, WriteA(WriteB(k)), a)
  BY <1>2, WriteAInv
<1> QED
  BY <1>1, <1>3, <1>4 DEF Spliced

(* The worker accepts the connection, and greets a navigation connection.     *)
Welcomed(k, line) ==
  [k EXCEPT !.serv = "open",
            !.down2 = IF k.op = "tab" /\ k.pipe # "gone" THEN line ELSE <<>>]

LEMMA WelcomedInv ==
  ASSUME NEW i, NEW k, NEW a, NEW line \in Seq(Replies), ConnInv(i, k, a),
         k.serv = "backlog", Unnamed(line, 2)
  PROVE  ConnInv(i, Welcomed(k, line), a)
<1> DEFINE l == Welcomed(k, line)
<1>1. k \in ConnRecs /\ a \in Seq(Replies) /\ Len(<<>>) = 0 /\ line \in ReplySeqs
  BY EmptySeq DEF ConnInv, ReplySeqs
<1>2. /\ l \in ConnRecs /\ l.op = k.op /\ l.at = k.at /\ l.client = k.client /\ l.got = k.got
      /\ l.up1 = k.up1 /\ l.request = k.request /\ l.down1 = k.down1 /\ l.pipe = k.pipe
      /\ l.a2b = k.a2b /\ l.b2a = k.b2a /\ l.up2 = k.up2 /\ l.serv = "open"
      /\ l.input = k.input /\ l.output = k.output /\ l.handled = k.handled
      /\ l.cut = k.cut
      /\ l.down2 = IF k.op = "tab" /\ k.pipe # "gone" THEN line ELSE <<>>
  BY <1>1, Values DEF Welcomed, ConnRecs
<1> HIDE DEF l
<1>3. k.down2 = <<>> /\ k.output = <<>> /\ ~k.handled /\ ~k.cut /\ k.pipe # "backlog"
  BY DEF ConnInv, Served
<1>4. k.op \in Content => l.down2 = <<>>
  BY <1>2 DEF Content
<1>5. Bounded(l)
  BY <1>1, <1>2, <1>4, ColdAssumption DEF ConnInv, Bounded, Cap
<1>6. Served(l, a)
  BY <1>2, <1>3 DEF ConnInv, Served
<1>7. k.op \in Content => Downstream(l) = Downstream(k)
  BY <1>2, <1>3, <1>4 DEF Downstream
<1>8. Upstream(l) = Upstream(k)
  BY <1>2 DEF Upstream
<1>9. Whole(l, a) /\ Ordered(l, a)
  BY <1>2, <1>3, <1>7, <1>8 DEF ConnInv, Whole, Ordered, Waiting
<1>10. Navigates(l, a)
  <2>1. SUFFICES ASSUME k.op = "tab", Waiting(k) PROVE Navigates(l, a)
    BY <1>2 DEF Navigates, Waiting
  <2>2. k.client = "greet" /\ NavDown(k) = <<>>
    BY <2>1 DEF ConnInv, Navigates
  <2>3. k.down1 = <<>> /\ k.b2a = <<>>
    BY <1>1, <2>2, NavParts
  <2>4. NavDown(l) = l.down2
    BY <1>2, <2>3, NavParts
  <2>5. Unnamed(NavDown(l), 2)
    BY <1>1, <1>2, <2>4 DEF Unnamed
  <2> QED
    BY <1>2, <2>2, <2>5 DEF ConnInv, Navigates
<1>11. Framed(i, l, a) /\ Accepted(l, a)
  BY <1>2 DEF ConnInv, Framed, Accepted
<1> QED
  BY <1>1, <1>2, <1>5, <1>6, <1>9, <1>10, <1>11 DEF ConnInv, l

(* The worker reads what is there of the request.                             *)
Heard(k) == [k EXCEPT !.input = @ \o k.up2, !.up2 = <<>>]

LEMMA HeardInv ==
  ASSUME NEW i, NEW k, NEW a, ConnInv(i, k, a)
  PROVE  ConnInv(i, Heard(k), a)
<1> DEFINE l == Heard(k)
<1>1. k \in ConnRecs /\ a \in Seq(Replies) /\ Len(<<>>) = 0
  BY EmptySeq DEF ConnInv
<1>2. k.input \o k.up2 \in WordSeqs
  <2>1. k.input \in Seq(Words) /\ k.up2 \in Seq(Words)
    BY <1>1, Fields
  <2> QED
    BY <2>1 DEF WordSeqs
<1>3. /\ l \in ConnRecs /\ l.op = k.op /\ l.at = k.at /\ l.client = k.client /\ l.got = k.got
      /\ l.up1 = k.up1 /\ l.request = k.request /\ l.down1 = k.down1 /\ l.pipe = k.pipe
      /\ l.a2b = k.a2b /\ l.b2a = k.b2a /\ l.up2 = <<>> /\ l.serv = k.serv
      /\ l.input = k.input \o k.up2 /\ l.output = k.output /\ l.handled = k.handled
      /\ l.cut = k.cut /\ l.down2 = k.down2
  BY <1>1, <1>2, Values DEF Heard, ConnRecs
<1> HIDE DEF l
<1>4. Bounded(l) /\ Served(l, a)
  BY <1>1, <1>3, ColdAssumption DEF ConnInv, Bounded, Cap, Served
<1>5. Downstream(l) = Downstream(k) /\ NavDown(l) = NavDown(k)
  BY <1>3 DEF Downstream, NavDown
<1>6. Upstream(l) = Upstream(k)
  <2>1. 0 \in Nat
    OBVIOUS
  <2> QED
    BY <1>1, <1>3, <2>1, UpMoves DEF Upstream
<1>7. Whole(l, a) /\ Ordered(l, a)
  BY <1>3, <1>5, <1>6 DEF ConnInv, Whole, Ordered, Waiting
<1>8. Navigates(l, a)
  BY <1>3, <1>5 DEF ConnInv, Navigates, Waiting
<1>9. Framed(i, l, a) /\ Accepted(l, a)
  BY <1>3 DEF ConnInv, Framed, Accepted
<1> QED
  BY <1>1, <1>3, <1>4, <1>7, <1>8, <1>9 DEF ConnInv, l

(* The worker's end of a connection is closed: nothing of the answer is lost  *)
(* by it unless the pipe is gone already or the worker ends.                  *)
LEMMA ClosedInv ==
  ASSUME NEW i, NEW k, NEW a, NEW l \in ConnRecs, ConnInv(i, k, a),
         l.op = k.op, l.client = k.client, l.got = k.got, l.up1 = k.up1,
         l.request = k.request, l.down1 = k.down1, l.pipe = k.pipe, l.a2b = k.a2b,
         l.b2a = k.b2a, l.down2 = k.down2, l.handled = k.handled, l.serv = "gone",
         l.up2 = <<>>, l.output = <<>>, l.cut \/ l.cut = k.cut,
         k.pipe # "backlog",
         k.pipe = "gone" \/ l.cut \/ k.op = "tab" \/ k.output = <<>>
  PROVE  ConnInv(i, l, a)
<1>1. k \in ConnRecs /\ a \in Seq(Replies) /\ Len(<<>>) = 0
  BY EmptySeq DEF ConnInv
<1>2. Bounded(l) /\ Served(l, a)
  BY <1>1, ColdAssumption DEF ConnInv, Bounded, Cap, Served
<1>3. k.output = <<>> => Downstream(l) = Downstream(k)
  BY DEF Downstream
<1>4. Whole(l, a)
  BY <1>3 DEF ConnInv, Whole, Waiting, Content
<1>5. Ordered(l, a)
  <2>1. SUFFICES ASSUME k.op \in Content, Waiting(k), k.pipe # "gone"
                 PROVE  StartOf(Downstream(l), a)
    BY DEF ConnInv, Ordered, Waiting
  <2>2. StartOf(Downstream(k), a)
    BY <2>1 DEF ConnInv, Ordered
  <2> DEFINE s == k.got \o k.down1 \o k.b2a \o k.down2
  <2>3. s \in Seq(Replies) /\ k.output \in Seq(Replies)
    <3>1. /\ k.got \in Seq(Replies) /\ k.down1 \in Seq(Replies) /\ k.b2a \in Seq(Replies)
          /\ k.down2 \in Seq(Replies) /\ k.output \in Seq(Replies)
      BY <1>1, Fields
    <3> QED
      BY <3>1
  <2>4. Downstream(k) = s \o k.output /\ Downstream(l) = s \o <<>>
    BY Zenon DEF Downstream, Stream
  <2> HIDE DEF s
  <2>5. s \o <<>> = s
    BY <2>3
  <2>6. StartOf(s \o k.output, a)
    BY <2>2, <2>4, Zenon
  <2>7. StartOf(s, a)
    BY <2>3, <2>6, StartShorter
  <2> QED
    BY <2>4, <2>5, <2>7, Zenon
<1>6. NavDown(l) = NavDown(k)
  BY DEF NavDown
<1>7. Navigates(l, a)
  BY <1>6 DEF ConnInv, Navigates, Waiting
<1>8. Framed(i, l, a) /\ Accepted(l, a)
  BY DEF ConnInv, Framed, Accepted
<1> QED
  BY <1>1, <1>2, <1>4, <1>5, <1>7, <1>8 DEF ConnInv

LEMMA RemovedInv ==
  ASSUME NEW i, NEW k, NEW a, ConnInv(i, k, a), k.serv = "open",
         k.pipe = "gone" \/ k.op = "tab" \/ k.output = <<>>
  PROVE  ConnInv(i, Removed(k), a)
<1> DEFINE l == Removed(k)
<1>1. k \in ConnRecs
  BY DEF ConnInv
<1>2. /\ l \in ConnRecs /\ l.op = k.op /\ l.client = k.client /\ l.got = k.got
      /\ l.up1 = k.up1 /\ l.request = k.request /\ l.down1 = k.down1 /\ l.pipe = k.pipe
      /\ l.a2b = k.a2b /\ l.b2a = k.b2a /\ l.down2 = k.down2 /\ l.handled = k.handled
      /\ l.serv = "gone" /\ l.up2 = <<>> /\ l.output = <<>> /\ l.cut = k.cut
  BY <1>1, Values DEF Removed, ConnRecs
<1> HIDE DEF l
<1>3. k.pipe # "backlog"
  BY DEF ConnInv, Served
<1>4. ConnInv(i, l, a)
  BY <1>2, <1>3, ClosedInv
<1> QED
  BY <1>4 DEF l

(* A worker that ends.                                                        *)
CutOff(k) == [Removed(k) EXCEPT !.cut = TRUE]

LEMMA CutOffInv ==
  ASSUME NEW i, NEW k, NEW a, ConnInv(i, k, a), k.at # None
  PROVE  ConnInv(i, CutOff(k), a)
<1> DEFINE l == CutOff(k)
<1>1. k \in ConnRecs
  BY DEF ConnInv
<1>2. /\ l \in ConnRecs /\ l.op = k.op /\ l.client = k.client /\ l.got = k.got
      /\ l.up1 = k.up1 /\ l.request = k.request /\ l.down1 = k.down1 /\ l.pipe = k.pipe
      /\ l.a2b = k.a2b /\ l.b2a = k.b2a /\ l.down2 = k.down2 /\ l.handled = k.handled
      /\ l.serv = "gone" /\ l.up2 = <<>> /\ l.output = <<>> /\ l.cut
  BY <1>1, Values DEF CutOff, Removed, ConnRecs
<1> HIDE DEF l
<1>3. k.pipe # "backlog"
  BY DEF ConnInv, Served
<1>4. ConnInv(i, l, a)
  BY <1>2, <1>3, ClosedInv
<1> QED
  BY <1>4 DEF l

(* The worker writes what fits of its answer, and closes after the last.      *)
Flushing(k) ==
  [k EXCEPT !.down2 = @ \o Taken(k.output, Room(k, k.down2)), !.output = Left(@, Room(k, k.down2))]

LEMMA FlushingInv ==
  ASSUME NEW i, NEW k, NEW a, ConnInv(i, k, a), k.op \in Content, k.serv = "open",
         k.pipe # "gone"
  PROVE  ConnInv(i, Flushing(k), a)
<1> DEFINE l == Flushing(k)
           n == Room(k, k.down2)
<1>1. k \in ConnRecs /\ a \in Seq(Replies) /\ Bounded(k) /\ k.op # "tab"
  BY DEF ConnInv, Content
<1>2. n \in Nat
  BY <1>1, Lengths
<1>3. k.down2 \in Seq(Replies) /\ k.output \in Seq(Replies)
  BY <1>1, Fields
<1>4. /\ k.down2 \o Taken(k.output, n) \in ReplySeqs /\ Left(k.output, n) \in ReplySeqs
      /\ Len(k.down2 \o Taken(k.output, n)) <= Cap(k)
  BY <1>2, <1>3, WriteFits DEF ReplySeqs
<1>5. /\ l \in ConnRecs /\ l.op = k.op /\ l.at = k.at /\ l.client = k.client /\ l.got = k.got
      /\ l.request = k.request /\ l.up1 = k.up1 /\ l.up2 = k.up2 /\ l.pipe = k.pipe
      /\ l.a2b = k.a2b /\ l.b2a = k.b2a /\ l.down1 = k.down1 /\ l.serv = k.serv
      /\ l.input = k.input /\ l.handled = k.handled /\ l.cut = k.cut
      /\ l.down2 = k.down2 \o Taken(k.output, n) /\ l.output = Left(k.output, n)
  BY <1>1, <1>4 DEF Flushing, ConnRecs
<1> HIDE DEF l
<1>6. Bounded(l) /\ Served(l, a)
  BY <1>4, <1>5 DEF ConnInv, Bounded, Cap, Served
<1>7. Upstream(l) = Upstream(k)
  BY <1>5 DEF Upstream
<1>8. Downstream(l) = Downstream(k)
  BY <1>1, <1>2, <1>5, DownMoves DEF Downstream
<1>9. Whole(l, a) /\ Ordered(l, a)
  BY <1>5, <1>7, <1>8 DEF ConnInv, Whole, Ordered, Waiting
<1>10. Navigates(l, a)
  BY <1>1, <1>5 DEF Navigates
<1>11. Framed(i, l, a) /\ Accepted(l, a)
  BY <1>5 DEF ConnInv, Framed, Accepted
<1> QED
  BY <1>1, <1>5, <1>6, <1>9, <1>10, <1>11 DEF ConnInv, l

LEMMA FlushedInv ==
  ASSUME NEW i, NEW k, NEW a, ConnInv(i, k, a), k.op \in Content, k.serv = "open"
  PROVE  ConnInv(i, Flushed(k), a)
<1>1. CASE k.pipe = "gone"
  BY <1>1, RemovedInv DEF Flushed
<1>2. CASE k.pipe # "gone"
  <2>1. ConnInv(i, Flushing(k), a)
    BY <1>2, FlushingInv
  <2>2. Flushing(k).serv = "open"
    BY DEF ConnInv, ConnRecs, Flushing
  <2>3. Flushing(k).output = <<>> => ConnInv(i, Removed(Flushing(k)), a)
    BY <2>1, <2>2, RemovedInv
  <2>4. Flushed(k) = IF Flushing(k).output = <<>> THEN Removed(Flushing(k)) ELSE Flushing(k)
    BY <1>2 DEF Flushed, Flushing
  <2> QED
    BY <2>1, <2>3, <2>4
<1> QED
  BY <1>1, <1>2

-----------------------------------------------------------------------------
(* Answers. *)

(* A response has a header that counts its items, and the oldest items.       *)
LEMMA Encoded ==
  ASSUME NEW items \in Seq(Nat), NEW n, n = Shorter(Len(items), RespMax - 1)
  PROVE  /\ EncodeSnapshot(items) \in Seq(Replies)
         /\ n \in Nat /\ Len(EncodeSnapshot(items)) = n + 1
         /\ EncodeSnapshot(items)[1] = Header(n)
         /\ \A j \in 1..n : EncodeSnapshot(items)[j + 1] = Item(j, items[j])
<1> DEFINE h == <<Header(n)>>
           t == [j \in 1..n |-> Item(j, items[j])]
<1>1. Len(items) \in Nat /\ RespMax \in Nat \ {0}
  BY LenProperties, ColdAssumption
<1>2. n \in Nat /\ n <= Len(items)
  BY <1>1 DEF Shorter
<1>3. Header(n) \in Replies /\ \A j \in 1..n : Item(j, items[j]) \in Replies
  <2>1. \A j \in 1..n : items[j] \in Nat
    BY <1>1, <1>2, ElementOfSeq
  <2> QED
    BY <1>2, <2>1 DEF Header, Item, Replies
<1>4. h \in Seq(Replies) /\ Len(h) = 1 /\ h[1] = Header(n)
  BY <1>3
<1>5. t \in Seq(Replies) /\ Len(t) = n
  BY <1>2, <1>3
<1>6. \A j \in 1..n : t[j] = Item(j, items[j])
  OBVIOUS
<1>7. EncodeSnapshot(items) = h \o t
  BY DEF EncodeSnapshot
<1> HIDE DEF h, t
<1>8. /\ h \o t \in Seq(Replies) /\ Len(h \o t) = 1 + n
      /\ \A j \in 1..1 + n : (h \o t)[j] = IF j <= 1 THEN h[j] ELSE t[j - 1]
  <2>1. /\ h \o t \in Seq(Replies) /\ Len(h \o t) = Len(h) + Len(t)
        /\ \A j \in 1..Len(h) + Len(t) :
             (h \o t)[j] = IF j <= Len(h) THEN h[j] ELSE t[j - Len(h)]
    BY <1>4, <1>5, ConcatProperties
  <2> QED
    BY <1>4, <1>5, <2>1, Zenon
<1>9. \A j \in 1..n : j + 1 \in 1..1 + n /\ ~(j + 1 <= 1) /\ (j + 1) - 1 = j
  BY <1>2
<1>10. \A j \in 1..n : (h \o t)[j + 1] = Item(j, items[j])
  BY <1>6, <1>8, <1>9
<1>11. (h \o t)[1] = Header(n)
  BY <1>2, <1>4, <1>8
<1> QED
  BY <1>2, <1>7, <1>8, <1>10, <1>11

(* content_response: its answer is framed, and shows the submission it took.  *)
LEMMA Responds ==
  ASSUME NEW i \in Nat, NEW k, k.op \in Content, timeline \in Seq(Nat),
         NEW items, items = IF Appends(k) THEN Append(timeline, i) ELSE timeline
  PROVE  /\ items \in Seq(Nat) /\ Respond(k, items) \in Seq(Replies)
         /\ Respond(k, items) # <<>> /\ Framed(i, k, Respond(k, items))
<1>1. items \in Seq(Nat)
  BY AppendProperties
<1> DEFINE a == Respond(k, items)
<1>2. CASE k.op = "refused" \/ (k.op = "submit" /\ ~Appends(k))
  <2>1. a = Refusal
    BY <1>2 DEF Respond
  <2>2. Refusal \in Seq(Replies) /\ Refusal # <<>> /\ ~Refusal[1].ok
    BY DEF Refusal, Replies
  <2> QED
    BY <1>1, <2>1, <2>2 DEF Framed, Content
<1>3. CASE ~(k.op = "refused" \/ (k.op = "submit" /\ ~Appends(k)))
  <2>1. a = EncodeSnapshot(items)
    BY <1>3 DEF Respond
  <2> DEFINE n == Shorter(Len(items), RespMax - 1)
  <2>2. /\ a \in Seq(Replies) /\ n \in Nat /\ Len(a) = n + 1 /\ a[1] = Header(n)
        /\ \A j \in 1..n : a[j + 1] = Item(j, items[j])
    BY <1>1, <2>1, Encoded
  <2>3. a # <<>>
    BY <2>2, EmptySeq
  <2>4. Len(a) = a[1].n + 1
    BY <2>2 DEF Header
  <2>5. ASSUME k.op = "submit" PROVE Len(a) = RespMax \/ \E m \in DOMAIN a : a[m] = Item(m - 1, i)
    <3>1. items = Append(timeline, i)
      BY <1>3, <2>5
    <3>2. /\ Len(items) = Len(timeline) + 1 /\ items[Len(timeline) + 1] = i
          /\ Len(timeline) \in Nat /\ RespMax \in Nat \ {0}
      BY <3>1, AppendProperties, LenProperties, ColdAssumption
    <3>3. CASE Len(items) < RespMax - 1
      <4>1. n = Len(timeline) + 1
        BY <3>2, <3>3 DEF Shorter
      <4> HIDE DEF n, a
      <4>2. n \in 1..n
        BY <4>1, <3>2
      <4>3. a[n + 1] = Item(n, i)
        BY <2>2, <3>2, <4>1, <4>2
      <4>4. n + 1 \in DOMAIN a /\ (n + 1) - 1 = n
        BY <2>2, LenProperties
      <4> QED
        BY <4>3, <4>4
    <3>4. CASE ~(Len(items) < RespMax - 1)
      <4>1. n = RespMax - 1
        BY <3>4 DEF Shorter
      <4> HIDE DEF n, a
      <4> QED
        BY <2>2, <3>2, <4>1
    <3> QED
      BY <3>3, <3>4
  <2> QED
    BY <1>1, <2>2, <2>3, <2>4, <2>5 DEF Framed, Content
<1> QED
  BY <1>2, <1>3

(* A stream with nothing in it has nothing in any of its buffers.             *)
LEMMA StreamEmpty ==
  ASSUME NEW S, NEW g \in Seq(S), NEW d \in Seq(S), NEW b \in Seq(S), NEW e \in Seq(S),
         NEW o \in Seq(S), Stream(g, d, b, e, o) = <<>>
  PROVE  g = <<>> /\ d = <<>> /\ b = <<>> /\ e = <<>>
<1> DEFINE s2 == g \o d
           s3 == s2 \o b
           s4 == s3 \o e
<1>1. ASSUME NEW x \in Seq(S), NEW y \in Seq(S), x \o y = <<>> PROVE x = <<>> /\ y = <<>>
  <2>1. Len(x \o y) = Len(x) + Len(y) /\ Len(x) \in Nat /\ Len(y) \in Nat /\ Len(<<>>) = 0
    BY ConcatProperties, LenProperties, EmptySeq
  <2>2. Len(x) + Len(y) = 0
    BY <1>1, <2>1
  <2>3. Len(x) = 0 /\ Len(y) = 0
    BY <2>1, <2>2
  <2> QED
    BY <2>3, EmptySeq
<1>2. s2 \in Seq(S)
  OBVIOUS
<1> HIDE DEF s2
<1>3. s3 \in Seq(S)
  BY <1>2
<1> HIDE DEF s3
<1>4. s4 \in Seq(S)
  BY <1>3
<1> HIDE DEF s4
<1>5. s4 \o o = <<>>
  BY Zenon DEF Stream, s2, s3, s4
<1>6. s3 \o e = <<>>
  BY <1>1, <1>4, <1>5 DEF s4
<1>7. e = <<>> /\ s2 \o b = <<>>
  BY <1>1, <1>3, <1>6 DEF s3
<1>8. b = <<>> /\ g \o d = <<>>
  BY <1>1, <1>2, <1>7 DEF s2
<1>9. g = <<>> /\ d = <<>>
  BY <1>1, <1>8
<1> QED
  BY <1>7, <1>8, <1>9

(* The worker answers a request: nothing was on its way to the window.        *)
Answering(k, ans) == [k EXCEPT !.handled = TRUE, !.output = ans]

LEMMA AnsweringInv ==
  ASSUME NEW i, NEW k, NEW a, NEW ans \in Seq(Replies), ConnInv(i, k, a),
         k.op \in Content, k.serv = "open", ~k.handled, k.pipe # "gone",
         ans # <<>>, Framed(i, k, ans)
  PROVE  ConnInv(i, Answering(k, ans), ans)
<1> DEFINE l == Answering(k, ans)
<1>1. k \in ConnRecs /\ a = <<>> /\ ~k.cut /\ k.op # "tab" /\ k.pipe # "backlog"
      /\ k.client # "ok" /\ ans \in ReplySeqs
  BY DEF ConnInv, Served, Accepted, Content, ReplySeqs
<1>2. /\ l \in ConnRecs /\ l.op = k.op /\ l.client = k.client /\ l.got = k.got
      /\ l.up1 = k.up1 /\ l.request = k.request /\ l.down1 = k.down1 /\ l.pipe = k.pipe
      /\ l.a2b = k.a2b /\ l.b2a = k.b2a /\ l.up2 = k.up2 /\ l.serv = "open"
      /\ l.down2 = k.down2 /\ l.output = ans /\ l.handled /\ l.cut = k.cut
  BY <1>1, Values DEF Answering, ConnRecs
<1> HIDE DEF l
<1>3. Bounded(l) /\ Served(l, ans)
  BY <1>1, <1>2 DEF ConnInv, Bounded, Cap, Served
<1>4. Waiting(k) => Downstream(l) = ans
  <2>1. SUFFICES ASSUME Waiting(k) PROVE Downstream(l) = ans
    OBVIOUS
  <2>2. Downstream(k) = <<>>
    BY <1>1, <2>1 DEF ConnInv, Whole
  <2>3. k.got = <<>> /\ k.down1 = <<>> /\ k.b2a = <<>> /\ k.down2 = <<>>
    <3>1. /\ k.got \in Seq(Replies) /\ k.down1 \in Seq(Replies) /\ k.b2a \in Seq(Replies)
          /\ k.down2 \in Seq(Replies) /\ k.output \in Seq(Replies)
      BY <1>1, Fields
    <3>2. Stream(k.got, k.down1, k.b2a, k.down2, k.output) = <<>>
      BY <2>2 DEF Downstream
    <3> QED
      BY <3>1, <3>2, StreamEmpty, SMTT(30)
  <2>4. <<>> \o <<>> \o <<>> \o <<>> \o ans = ans
    OBVIOUS
  <2>5. Stream(<<>>, <<>>, <<>>, <<>>, ans) = ans
    BY <2>4, Zenon DEF Stream
  <2> QED
    BY <1>2, <2>3, <2>5 DEF Downstream
<1>5. Whole(l, ans)
  BY <1>2, <1>4 DEF Whole, Waiting
<1>6. Ordered(l, ans)
  BY <1>2, <1>4, StartSelf DEF Ordered, Waiting
<1>7. Navigates(l, ans)
  BY <1>1, <1>2 DEF Navigates
<1>8. Framed(i, l, ans) /\ Accepted(l, ans)
  BY <1>1, <1>2 DEF Framed, Accepted
<1> QED
  BY <1>2, <1>3, <1>5, <1>6, <1>7, <1>8 DEF ConnInv, l

(* The worker makes a tab, and answers with the line that shows it.           *)
Tabbed(k, line) ==
  Removed([k EXCEPT !.down2 = IF k.pipe = "gone" THEN <<>> ELSE @ \o line])

LEMMA TabbedInv ==
  ASSUME NEW i, NEW k, NEW a, NEW line \in Seq(Replies), ConnInv(i, k, a),
         k.op = "tab", k.serv = "open", k.up2 # <<>>, line # <<>>, line[1] = Ws
  PROVE  ConnInv(i, Tabbed(k, line), line)
<1> DEFINE l == Tabbed(k, line)
<1>1. k \in ConnRecs /\ a = <<>> /\ k.pipe # "backlog" /\ k.op \notin Content
      /\ k.client \notin {"greet", "send", "ok"} /\ Len(<<>>) = 0
  BY EmptySeq DEF ConnInv, Served, Navigates, Accepted, Content
<1>2. k.down2 \in Seq(Replies) /\ k.down2 \o line \in ReplySeqs
  <2>1. k.down2 \in Seq(Replies)
    BY <1>1, Fields
  <2> QED
    BY <2>1 DEF ReplySeqs
<1>3. /\ l \in ConnRecs /\ l.op = "tab" /\ l.client = k.client /\ l.up1 = k.up1
      /\ l.down1 = k.down1 /\ l.pipe = k.pipe /\ l.b2a = k.b2a /\ l.up2 = <<>>
      /\ l.serv = "gone"
      /\ l.down2 = IF k.pipe = "gone" THEN <<>> ELSE k.down2 \o line
  BY <1>1, <1>2, Values DEF Tabbed, Removed, ConnRecs
<1>4. l.op \notin Content
  BY <1>3 DEF Content
<1> HIDE DEF l
<1>5. Bounded(l) /\ Served(l, line)
  BY <1>1, <1>3, <1>4, ColdAssumption DEF ConnInv, Bounded, Cap, Served
<1>6. Whole(l, line) /\ Ordered(l, line) /\ Framed(i, l, line) /\ Accepted(l, line)
  BY <1>1, <1>3, <1>4 DEF Whole, Ordered, Framed, Accepted
<1>7. Navigates(l, line)
  BY <1>1, <1>3 DEF Navigates, Waiting
<1> QED
  BY <1>3, <1>5, <1>6, <1>7 DEF ConnInv, l

-----------------------------------------------------------------------------
(* The steps.  A step of one connection leaves the others and, unless it is   *)
(* the one that answers, the answers as they were.                            *)

Answers == Seq(Replies)

LEMMA ChangeInv ==
  ASSUME ColdInv, UNCHANGED procVars, tabs' \in Seq(Nat), NEW i \in Conns,
         NEW l, NEW a, ConnInv(i, l, a), conn' = [conn EXCEPT ![i] = l],
         answer' = [answer EXCEPT ![i] = a], conn[i].handled => l.handled,
         \/ UNCHANGED timeline
         \/ timeline' = Append(timeline, i) /\ ~conn[i].handled /\ l.handled
  PROVE  ColdInv'
<1>1. i \in 1..Len(conn) /\ l \in ConnRecs /\ a \in Answers /\ Len(answer) = Len(conn)
  BY LenProperties DEF ColdInv, Conns, ConnInv, Answers
<1>2. /\ conn' \in Seq(ConnRecs) /\ Len(conn') = Len(conn)
      /\ \A j \in 1..Len(conn) : conn'[j] = IF j = i THEN l ELSE conn[j]
  BY <1>1, ExceptSeq DEF ColdInv
<1>3. /\ answer' \in Seq(Answers) /\ Len(answer') = Len(answer)
      /\ \A j \in 1..Len(answer) : answer'[j] = IF j = i THEN a ELSE answer[j]
  <2>1. answer \in Seq(Answers) /\ i \in 1..Len(answer)
    BY <1>1 DEF ColdInv, Answers
  <2> QED
    BY <1>1, <2>1, ExceptSeq
<1>4. ProcInv'
  BY DEF ColdInv, ProcInv, procVars
<1>5. \A j \in 1..Len(conn') : ConnInv(j, conn'[j], answer'[j])
  BY <1>1, <1>2, <1>3 DEF ColdInv
<1>6. /\ timeline' \in Seq(Nat)
      /\ \A n \in 1..Len(timeline') : timeline'[n] \in 1..Len(conn') /\ conn'[timeline'[n]].handled
      /\ \A n, m \in 1..Len(timeline') : timeline'[n] = timeline'[m] => n = m
  <2>1. CASE UNCHANGED timeline
    BY <1>1, <1>2, <2>1 DEF ColdInv
  <2>2. CASE timeline' = Append(timeline, i) /\ ~conn[i].handled /\ l.handled
    <3>1. /\ i \in Nat /\ timeline \in Seq(Nat) /\ Len(timeline) \in Nat
          /\ \A n \in 1..Len(timeline) : timeline[n] # i
      BY <1>1, <2>2, LenProperties DEF ColdInv
    <3>2. /\ timeline' \in Seq(Nat) /\ Len(timeline') = Len(timeline) + 1
          /\ \A n \in 1..Len(timeline) : timeline'[n] = timeline[n]
          /\ timeline'[Len(timeline) + 1] = i
      BY <2>2, <3>1, AppendProperties
    <3>3. \A n \in 1..Len(timeline') : n \in 1..Len(timeline) \/ n = Len(timeline) + 1
      BY <3>1, <3>2
    <3>4. ASSUME NEW n \in 1..Len(timeline')
          PROVE  timeline'[n] \in 1..Len(conn') /\ conn'[timeline'[n]].handled
      BY <1>1, <1>2, <2>2, <3>2, <3>3 DEF ColdInv
    <3>5. ASSUME NEW n \in 1..Len(timeline'), NEW m \in 1..Len(timeline'),
                 timeline'[n] = timeline'[m]
          PROVE  n = m
      <4>1. CASE n \in 1..Len(timeline) /\ m \in 1..Len(timeline)
        BY <3>2, <3>5, <4>1 DEF ColdInv
      <4>2. CASE n \in 1..Len(timeline) /\ m = Len(timeline) + 1
        BY <3>1, <3>2, <3>5, <4>2
      <4>3. CASE n = Len(timeline) + 1 /\ m \in 1..Len(timeline)
        BY <3>1, <3>2, <3>5, <4>3
      <4> QED
        BY <3>3, <4>1, <4>2, <4>3
    <3> QED
      BY <3>2, <3>4, <3>5
  <2> QED
    BY <2>1, <2>2
<1>7. Len(conn') <= MaxConns
  BY <1>2 DEF ColdInv
<1> QED
  BY <1>1, <1>2, <1>3, <1>4, <1>5, <1>6, <1>7 DEF ColdInv, Answers

(* A step that answers nothing.                                               *)
LEMMA MoveInv ==
  ASSUME ColdInv, UNCHANGED <<procVars, timeline, tabs, answer>>, NEW i \in Conns,
         NEW l, ConnInv(i, l, answer[i]), Change(i, l), conn[i].handled => l.handled
  PROVE  ColdInv'
<1>1. i \in 1..Len(conn) /\ Len(answer) = Len(conn) /\ answer \in Seq(Answers)
  BY LenProperties DEF ColdInv, Conns, Answers
<1>2. answer = [answer EXCEPT ![i] = answer[i]]
  <2>1. DOMAIN answer = 1..Len(answer) /\ answer \in [1..Len(answer) -> Answers]
    BY <1>1, LenProperties
  <2> QED
    BY <2>1
<1>3. tabs' \in Seq(Nat) /\ conn' = [conn EXCEPT ![i] = l]
  BY DEF ColdInv, Change
<1> QED
  BY <1>2, <1>3, ChangeInv

LEMMA ConnHas ==
  ASSUME ColdInv, NEW i \in Conns
  PROVE  ConnInv(i, conn[i], answer[i]) /\ conn[i] \in ConnRecs /\ i \in 1..Len(conn)
         /\ i \in Nat
<1>1. i \in 1..Len(conn) /\ Len(conn) \in Nat
  BY LenProperties DEF ColdInv, Conns
<1> QED
  BY <1>1 DEF ColdInv, ConnInv

LEMMA WindowStep ==
  ASSUME ColdInv, NEW i \in Conns, Window(i)
  PROVE  ColdInv'
<1> DEFINE k == conn[i]
<1>1. ConnInv(i, k, answer[i]) /\ k \in ConnRecs
  BY ConnHas
<1>2. ConnInv(i, Fail(k), answer[i]) /\ Fail(k).handled = k.handled
  <2>1. Fail(k).handled = k.handled
    BY <1>1 DEF Fail, ConnRecs
  <2> QED
    BY <1>1, <2>1, FailInv
<1>3. ASSUME Change(i, Fail(k)), UNCHANGED <<procVars, timeline, tabs, answer>> PROVE ColdInv'
  BY <1>2, <1>3, MoveInv
<1>4. CASE Send(i)
  <2>1. CASE Room(k, k.up1) > 0 /\ Change(i, Sent(k))
    <3>1. Sent(k).handled = k.handled
      BY <1>1 DEF Sent, ConnRecs
    <3>2. ConnInv(i, Sent(k), answer[i])
      BY <1>1, <1>4, <2>1, SentInv DEF Send
    <3> QED
      BY <1>4, <2>1, <3>1, <3>2, MoveInv DEF Send
  <2> QED
    BY <1>3, <1>4, <2>1 DEF Send, Sent
<1>5. CASE ReadContent(i)
  <2>1. CASE Change(i, GotMore(k))
    <3>1. GotMore(k).handled = k.handled
      BY <1>1 DEF GotMore, ConnRecs
    <3>2. ConnInv(i, GotMore(k), answer[i])
      BY <1>1, <1>5, GotMoreInv DEF ReadContent
    <3> QED
      BY <1>5, <2>1, <3>1, <3>2, MoveInv DEF ReadContent
  <2>2. CASE k.down1 = <<>> /\ Parse(k.got) /\ Change(i, Taking(k))
    <3>1. Taking(k).handled = k.handled
      BY <1>1 DEF Taking, ConnRecs
    <3>2. ConnInv(i, Taking(k), answer[i])
      BY <1>1, <1>5, <2>2, TakingInv DEF ReadContent
    <3> QED
      BY <1>5, <2>2, <3>1, <3>2, MoveInv DEF ReadContent
  <2> QED
    BY <1>3, <1>5, <2>1, <2>2 DEF ReadContent, GotMore, Taking
<1>6. CASE ReadNav(i)
  <2> DEFINE line == Taken(k.down1, NavMax)
  <2>1. CASE k.down1 # <<>> /\ k.client = "greet" /\ Change(i, Greeted(k))
    <3>1. Greeted(k).handled = k.handled
      BY <1>1 DEF Greeted, ConnRecs
    <3>2. ConnInv(i, Greeted(k), answer[i])
      BY <1>1, <1>6, <2>1, GreetedInv DEF ReadNav
    <3> QED
      BY <1>6, <2>1, <3>1, <3>2, MoveInv DEF ReadNav
  <2>2. CASE ParseNav(line) /\ k.client = "wait" /\ Change(i, NavTaken(k))
    <3>1. NavTaken(k).handled = k.handled
      BY <1>1 DEF NavTaken, ConnRecs
    <3>2. ConnInv(i, NavTaken(k), answer[i])
      BY <1>1, <1>6, <2>2, NavTakenInv DEF ReadNav
    <3> QED
      BY <1>6, <2>2, <3>1, <3>2, MoveInv DEF ReadNav
  <2> QED
    BY <1>3, <1>6, <2>1, <2>2 DEF ReadNav, Greeted, NavTaken
<1>7. CASE GiveUp(i)
  BY <1>3, <1>7 DEF GiveUp
<1> QED
  BY <1>4, <1>5, <1>6, <1>7 DEF Window

LEMMA ProxyStep ==
  ASSUME ColdInv, NEW i \in Conns, Proxy(i)
  PROVE  ColdInv'
<1> DEFINE k == conn[i]
<1>1. ConnInv(i, k, answer[i]) /\ k \in ConnRecs
  BY ConnHas
<1>2. ASSUME NEW l \in ConnRecs
      PROVE  /\ Gone(l).handled = l.handled /\ WriteB(l).handled = l.handled
             /\ WriteA(l).handled = l.handled /\ ReadBoth(l).handled = l.handled
             /\ ReadBoth(l).pipe = l.pipe
  BY DEF Gone, WriteB, WriteA, ReadBoth, ConnRecs
<1>3. ConnInv(i, Gone(k), answer[i]) /\ Gone(k).handled = k.handled
  BY <1>1, <1>2, GoneInv
<1>4. CASE Accept(i)
  <2>1. CASE WorkerAlive
    <3>1. workerPath \in Controls
      BY <2>1 DEF ColdInv, ProcInv, WorkerAlive
    <3>2. ConnInv(i, Connected(k, workerPath), answer[i])
      BY <1>1, <1>4, <3>1, ConnectedInv DEF Accept
    <3>3. Connected(k, workerPath).handled = k.handled
      BY <1>1 DEF Connected, ConnRecs
    <3>4. Change(i, Connected(k, workerPath))
      BY <1>4, <2>1 DEF Accept, Connected
    <3> QED
      BY <1>4, <3>2, <3>3, <3>4, MoveInv DEF Accept
  <2>2. CASE ~WorkerAlive
    BY <1>3, <1>4, <2>2, MoveInv DEF Accept
  <2> QED
    BY <2>1, <2>2
<1>5. CASE Splice(i)
  <2>1. CASE EndA(k) \/ EndB(k)
    BY <1>3, <1>5, <2>1, MoveInv DEF Splice
  <2>2. CASE ~(EndA(k) \/ EndB(k))
    <3> DEFINE r == ReadBoth(k)
    <3>1. ConnInv(i, r, answer[i]) /\ r.handled = k.handled /\ r.pipe = "open"
      BY <1>1, <1>2, <1>5, ReadBothInv DEF Splice
    <3> HIDE DEF r
    <3>2. ConnInv(i, Spliced(r), answer[i])
      BY <3>1, SplicedInv
    <3>3. r \in ConnRecs /\ WriteB(r) \in ConnRecs
      BY <3>1, WriteBInv DEF ConnInv
    <3>4. Spliced(r).handled = k.handled
      BY <1>2, <3>1, <3>3 DEF Spliced
    <3>5. Change(i, Spliced(r))
      BY <1>5, <2>2 DEF Splice, r
    <3> QED
      BY <1>5, <3>2, <3>4, <3>5, MoveInv DEF Splice
  <2> QED
    BY <2>1, <2>2
<1> QED
  BY <1>4, <1>5 DEF Proxy

(* A navigation line begins with the workspace, and names it once.            *)
LEMMA LineShape ==
  ASSUME NEW made \in Seq(Nat)
  PROVE  /\ NavLine(made) \in Seq(Replies) /\ NavLine(made) # <<>> /\ NavLine(made)[1] = Ws
         /\ Unnamed(NavLine(made), 2)
<1> DEFINE h == <<Ws, [k |-> "tabs"]>>
           f == [n \in 1..Len(made) |-> Leaf(made[n])]
<1>1. /\ Len(made) \in Nat /\ \A n \in 1..Len(made) : made[n] \in Nat
  BY LenProperties, ElementOfSeq
<1>2. h \in Seq(Replies) /\ Len(h) = 2 /\ h[1] = Ws /\ h[2] # Ws
  BY DEF Replies, Ws
<1>3. \A n \in 1..Len(made) : Leaf(made[n]) \in Replies
  BY <1>1 DEF Leaf, Replies
<1>4. f \in Seq(Replies) /\ Len(f) = Len(made)
  BY <1>1, <1>3
<1>5. \A n \in 1..Len(f) : f[n] # Ws
  BY <1>4 DEF Leaf, Ws
<1>6. NavLine(made) = h \o f
  BY DEF NavLine
<1> HIDE DEF h, f
<1>7. /\ h \o f \in Seq(Replies) /\ Len(h \o f) = 2 + Len(f) /\ Len(f) \in Nat
      /\ (h \o f)[1] = h[1] /\ (h \o f)[2] = h[2]
      /\ \A n \in 3..2 + Len(f) : (h \o f)[n] = f[n - 2]
  <2>1. /\ h \o f \in Seq(Replies) /\ Len(h \o f) = Len(h) + Len(f)
        /\ \A n \in 1 .. Len(h) + Len(f) :
             (h \o f)[n] = IF n <= Len(h) THEN h[n] ELSE f[n - Len(h)]
    <3>1. h \in Seq(Replies) /\ f \in Seq(Replies)
      BY <1>2, <1>4
    <3> QED
      BY <3>1, ConcatProperties
  <2>2. Len(f) \in Nat
    BY <1>4, LenProperties
  <2>3. 1 \in 1 .. 2 + Len(f) /\ 2 \in 1 .. 2 + Len(f) /\ \A n \in 3..2 + Len(f) : n \in 1 .. 2 + Len(f) /\ ~(n <= 2)
    BY <2>2
  <2> QED
    BY <1>2, <2>1, <2>2, <2>3
<1>8. ASSUME NEW n \in 2..Len(h \o f) PROVE (h \o f)[n] # Ws
  <2>1. CASE n = 2
    BY <1>2, <1>7, <2>1
  <2>2. CASE n # 2
    <3>1. n \in 3..2 + Len(f) /\ n - 2 \in 1..Len(f)
      BY <1>7, <2>2
    <3> QED
      BY <1>5, <1>7, <3>1
  <2> QED
    BY <2>1, <2>2
<1>9. h \o f # <<>>
  BY <1>7, EmptySeq
<1> QED
  BY <1>2, <1>6, <1>7, <1>8, <1>9 DEF Unnamed

LEMMA WorkerStepInv ==
  ASSUME ColdInv, NEW i \in Conns, Worker(i)
  PROVE  ColdInv'
<1> DEFINE k == conn[i]
<1>1. ConnInv(i, k, answer[i]) /\ k \in ConnRecs /\ i \in Nat /\ i \in 1..Len(conn)
  BY ConnHas
<1>2. ASSUME NEW made \in Seq(Nat)
      PROVE  /\ NavLine(made) \in Seq(Replies) /\ NavLine(made) # <<>>
             /\ NavLine(made)[1] = Ws /\ Unnamed(NavLine(made), 2)
  BY <1>2, LineShape
<1>3. ASSUME NEW l \in ConnRecs
      PROVE  /\ Removed(l).handled = l.handled /\ Flushed(l).handled = l.handled
             /\ Heard(l).handled = l.handled /\ Heard(l).op = l.op
             /\ Heard(l).serv = l.serv /\ Heard(l).pipe = l.pipe
             /\ Heard(l).output = l.output
  BY DEF Removed, Flushed, Heard, ConnRecs
<1> DEFINE h == Heard(k)
<1>4. /\ ConnInv(i, h, answer[i]) /\ h \in ConnRecs /\ h.handled = k.handled /\ h.op = k.op
      /\ h.serv = k.serv /\ h.pipe = k.pipe
  <2>1. ConnInv(i, h, answer[i])
    BY <1>1, HeardInv
  <2> QED
    BY <1>1, <1>3, <2>1 DEF ConnInv
<1>5. h = [conn[i] EXCEPT !.input = @ \o conn[i].up2, !.up2 = <<>>]
  BY DEF Heard
<1> HIDE DEF h
<1>6. CASE ServeAccept(i)
  <2> DEFINE line == NavLine(tabs)
  <2>1. line \in Seq(Replies) /\ Unnamed(line, 2)
    BY <1>2 DEF ColdInv
  <2> HIDE DEF line
  <2>2. ConnInv(i, Welcomed(k, line), answer[i])
    BY <1>1, <1>6, <2>1, WelcomedInv DEF ServeAccept
  <2>3. Welcomed(k, line).handled = k.handled
    BY <1>1 DEF Welcomed, ConnRecs
  <2>4. Change(i, Welcomed(k, line))
    BY <1>6 DEF ServeAccept, Welcomed, line
  <2> QED
    BY <1>6, <2>2, <2>3, <2>4, MoveInv DEF ServeAccept
<1>7. CASE AnswerContent(i)
  <2> DEFINE items == IF Appends(h) THEN Append(timeline, i) ELSE timeline
             ans == Respond(h, items)
             l == Answering(h, ans)
  <2>1. /\ h.op \in Content /\ h.serv = "open" /\ ~h.handled /\ h.pipe # "gone"
        /\ timeline' = items /\ answer' = [answer EXCEPT ![i] = ans]
        /\ Change(i, Flushed([h EXCEPT !.handled = TRUE, !.output = answer'[i]]))
        /\ UNCHANGED <<procVars, tabs>>
    BY <1>5, <1>7 DEF AnswerContent
  <2>2. answer'[i] = ans
    BY <1>1, <2>1, LenProperties DEF ColdInv
  <2>3. Change(i, Flushed(l))
    BY <2>1, <2>2 DEF Answering
  <2>4. items = timeline \/ items = Append(timeline, i)
    OBVIOUS
  <2>5. ans \in Seq(Replies) /\ ans # <<>> /\ Framed(i, h, ans)
    BY <1>1, <2>1, Responds DEF ColdInv
  <2> HIDE DEF items, ans
  <2>6. ConnInv(i, l, ans)
    BY <1>4, <2>1, <2>5, AnsweringInv
  <2>7. l.op = h.op /\ l.serv = h.serv /\ l.handled /\ l \in ConnRecs
    BY <1>4, <2>6 DEF Answering, ConnRecs, ConnInv
  <2> HIDE DEF l
  <2>8. ConnInv(i, Flushed(l), ans) /\ Flushed(l).handled
    BY <1>3, <2>1, <2>6, <2>7, FlushedInv
  <2>9. tabs' \in Seq(Nat) /\ ~conn[i].handled
    BY <1>4, <2>1 DEF ColdInv
  <2> QED
    BY <2>1, <2>3, <2>4, <2>8, <2>9, ChangeInv DEF Change
<1>8. CASE PollContent(i)
  <2>1. CASE h.pipe = "gone" /\ Change(i, Removed(h))
    <3>1. ConnInv(i, Removed(h), answer[i]) /\ Removed(h).handled = k.handled
      BY <1>3, <1>4, <1>8, <2>1, RemovedInv DEF PollContent
    <3> QED
      BY <1>8, <2>1, <3>1, MoveInv DEF PollContent
  <2>2. CASE Change(i, h)
    BY <1>4, <1>8, <2>2, MoveInv DEF PollContent
  <2> QED
    BY <1>5, <1>8, <2>1, <2>2 DEF PollContent
<1>9. CASE FlushContent(i)
  <2>1. ConnInv(i, Flushed(k), answer[i]) /\ Flushed(k).handled = k.handled
    BY <1>1, <1>3, <1>9, FlushedInv DEF FlushContent
  <2> QED
    BY <1>9, <2>1, MoveInv DEF FlushContent
<1>10. CASE PollNav(i)
  <2>1. CASE k.up2 # <<>>
    <3> DEFINE line == NavLine(tabs')
    <3>1. tabs' \in Seq(Nat) /\ answer' = [answer EXCEPT ![i] = line]
      <4>1. tabs' = Append(tabs, i) /\ answer' = [answer EXCEPT ![i] = line]
        BY <1>10, <2>1 DEF PollNav
      <4>2. tabs \in Seq(Nat)
        BY DEF ColdInv
      <4>3. Append(tabs, i) \in Seq(Nat)
        BY <1>1, <4>2, AppendProperties
      <4> QED
        BY <4>1, <4>3
    <3>2. line \in Seq(Replies) /\ line # <<>> /\ line[1] = Ws
      BY <1>2, <3>1
    <3> HIDE DEF line
    <3>3. answer'[i] = line
      BY <1>1, <3>1, LenProperties DEF ColdInv
    <3>4. ConnInv(i, Tabbed(k, line), line)
      BY <1>1, <1>10, <2>1, <3>2, TabbedInv DEF PollNav
    <3>5. Tabbed(k, line).handled = k.handled
      BY <1>1 DEF Tabbed, Removed, ConnRecs
    <3>6. conn' = [conn EXCEPT ![i] = Tabbed(k, line)]
      BY <1>10, <2>1, <3>3 DEF PollNav, Change, Tabbed
    <3> QED
      BY <1>10, <3>1, <3>4, <3>5, <3>6, ChangeInv DEF PollNav
  <2>2. CASE k.up2 = <<>>
    <3>1. ConnInv(i, Removed(k), answer[i]) /\ Removed(k).handled = k.handled
      BY <1>1, <1>3, <1>10, RemovedInv DEF PollNav
    <3> QED
      BY <1>10, <2>2, <3>1, MoveInv DEF PollNav
  <2> QED
    BY <2>1, <2>2
<1> QED
  BY <1>6, <1>7, <1>8, <1>9, <1>10 DEF Worker

(* A window makes a request.                                                  *)
LEMMA OpenInv ==
  ASSUME ColdInv, NEW op \in Ops, Open(op)
  PROVE  ColdInv'
<1> DEFINE N == Len(conn)
           l == Fresh(op, publicPath)
<1>1. publicPath \in Controls
  BY DEF ColdInv, ProcInv, Open, PublicAlive
<1>2. \A i : ConnInv(i, l, <<>>)
  BY <1>1, FreshInv
<1>3. l \in ConnRecs /\ <<>> \in Answers
  BY <1>2 DEF ConnInv, Answers
<1>4. conn' = Append(conn, l) /\ answer' = Append(answer, <<>>)
  BY DEF Open
<1> HIDE DEF l
<1>5. conn \in Seq(ConnRecs) /\ answer \in Seq(Answers) /\ Len(answer) = N /\ N \in Nat
  BY LenProperties DEF ColdInv, Answers
<1>6. /\ conn' \in Seq(ConnRecs) /\ Len(conn') = N + 1
      /\ (\A i \in 1..N : conn'[i] = conn[i]) /\ conn'[N + 1] = l
  BY <1>3, <1>4, <1>5, AppendProperties
<1>7. /\ answer' \in Seq(Answers) /\ Len(answer') = N + 1
      /\ (\A i \in 1..N : answer'[i] = answer[i]) /\ answer'[N + 1] = <<>>
  BY <1>3, <1>4, <1>5, AppendProperties
<1>8. \A i \in 1..N + 1 : i \in 1..N \/ i = N + 1
  BY <1>5
<1>9. \A i \in 1..Len(conn') : ConnInv(i, conn'[i], answer'[i])
  BY <1>2, <1>6, <1>7, <1>8 DEF ColdInv
<1>10. ProcInv' /\ UNCHANGED <<timeline, tabs>>
  BY DEF ColdInv, ProcInv, Open, procVars
<1>11. \A n \in 1..Len(timeline') : timeline'[n] \in 1..Len(conn') /\ conn'[timeline'[n]].handled
  <2>1. \A i \in 1..N : i \in 1..N + 1
    BY <1>5
  <2> QED
    BY <1>6, <1>10, <2>1 DEF ColdInv
<1>12. /\ timeline' \in Seq(Nat) /\ tabs' \in Seq(Nat)
       /\ \A n, m \in 1..Len(timeline') : timeline'[n] = timeline'[m] => n = m
  BY <1>10 DEF ColdInv
<1>13. Len(conn') <= MaxConns
  BY <1>5, <1>6, ColdAssumption DEF Open
<1> QED
  BY <1>6, <1>7, <1>9, <1>10, <1>11, <1>12, <1>13 DEF ColdInv, Answers

(* The end of a process changes any of its connections.                       *)
LEMMA AllChange ==
  ASSUME ColdInv, NEW F, F \in [Conns -> ConnRecs], conn' = F, ProcInv', UNCHANGED answer,
         \A i \in Conns : ConnInv(i, F[i], answer[i]) /\ (conn[i].handled => F[i].handled),
         \/ UNCHANGED <<timeline, tabs>>
         \/ timeline' = <<>> /\ tabs' = <<>>
  PROVE  ColdInv'
<1>1. conn \in Seq(ConnRecs) /\ Len(conn) \in Nat /\ Conns = 1..Len(conn)
  BY LenProperties DEF ColdInv, Conns
<1>2. F \in Seq(ConnRecs) /\ Len(F) = Len(conn)
  BY <1>1
<1>3. \A i \in 1..Len(conn') : ConnInv(i, conn'[i], answer'[i])
  BY <1>1, <1>2
<1>4. /\ timeline' \in Seq(Nat) /\ tabs' \in Seq(Nat)
      /\ \A n \in 1..Len(timeline') : timeline'[n] \in 1..Len(conn') /\ conn'[timeline'[n]].handled
      /\ \A n, m \in 1..Len(timeline') : timeline'[n] = timeline'[m] => n = m
  <2>1. CASE UNCHANGED <<timeline, tabs>>
    BY <1>1, <1>2, <2>1 DEF ColdInv
  <2>2. CASE timeline' = <<>> /\ tabs' = <<>>
    <3>1. <<>> \in Seq(Nat) /\ Len(<<>>) = 0
      BY EmptySeq
    <3>2. 1..Len(timeline') = {}
      BY <2>2, <3>1
    <3> QED
      BY <2>2, <3>1, <3>2
  <2> QED
    BY <2>1, <2>2
<1>5. Len(conn') <= MaxConns
  BY <1>2 DEF ColdInv
<1> QED
  BY <1>1, <1>2, <1>3, <1>4, <1>5 DEF ColdInv

LEMMA ControlDiesInv ==
  ASSUME ColdInv, NEW c \in Controls, ControlDies(c)
  PROVE  ColdInv'
<1> DEFINE F == [i \in Conns |-> IF conn[i].home = c THEN Gone(conn[i]) ELSE conn[i]]
<1>1. ProcInv'
  BY ControlProc DEF ColdInv, ControlDies
<1>2. ASSUME NEW i \in Conns
      PROVE  /\ ConnInv(i, F[i], answer[i]) /\ F[i] \in ConnRecs
             /\ conn[i].handled => F[i].handled
  <2>1. ConnInv(i, conn[i], answer[i]) /\ conn[i] \in ConnRecs
    BY ConnHas
  <2>2. ConnInv(i, Gone(conn[i]), answer[i])
    BY <2>1, GoneInv
  <2>3. Gone(conn[i]).handled = conn[i].handled /\ Gone(conn[i]) \in ConnRecs
    BY <2>1, <2>2 DEF Gone, ConnRecs, ConnInv
  <2> QED
    BY <2>1, <2>2, <2>3
<1>3. F \in [Conns -> ConnRecs]
  BY <1>2
<1>4. conn' = F /\ UNCHANGED <<timeline, tabs, answer>>
  BY DEF ControlDies
<1> HIDE DEF F
<1> QED
  BY <1>1, <1>2, <1>3, <1>4, AllChange

LEMMA WorkerDiesInv ==
  ASSUME ColdInv, NEW w \in Controls, WorkerDies(w)
  PROVE  ColdInv'
<1> DEFINE F == [i \in Conns |-> IF conn[i].at = w THEN CutOff(conn[i]) ELSE conn[i]]
<1>1. ProcInv'
  BY EndProc DEF ColdInv, WorkerDies
<1>2. ASSUME NEW i \in Conns
      PROVE  /\ ConnInv(i, F[i], answer[i]) /\ F[i] \in ConnRecs
             /\ conn[i].handled => F[i].handled
  <2>1. ConnInv(i, conn[i], answer[i]) /\ conn[i] \in ConnRecs
    BY ConnHas
  <2>2. conn[i].at = w => ConnInv(i, CutOff(conn[i]), answer[i])
    BY <2>1, CutOffInv, StartupAssumption
  <2>3. CutOff(conn[i]).handled = conn[i].handled
    BY <2>1 DEF CutOff, Removed, ConnRecs
  <2>4. conn[i].at = w => CutOff(conn[i]) \in ConnRecs
    BY <2>2 DEF ConnInv
  <2> QED
    BY <2>1, <2>2, <2>3, <2>4
<1>3. F \in [Conns -> ConnRecs]
  BY <1>2
<1>4. conn' = F /\ UNCHANGED answer
  BY DEF WorkerDies, CutOff
<1>5. UNCHANGED <<timeline, tabs>> \/ (timeline' = <<>> /\ tabs' = <<>>)
  BY DEF WorkerDies
<1> HIDE DEF F
<1> QED
  BY <1>1, <1>2, <1>3, <1>4, <1>5, AllChange

LEMMA ColdInit == Init => ColdInv
<1> SUFFICES ASSUME Init PROVE ColdInv
  OBVIOUS
<1>1. ProcInv
  BY ProcInit DEF Init
<1>2. conn = <<>> /\ answer = <<>> /\ timeline = <<>> /\ tabs = <<>>
  BY DEF Init
<1>3. /\ <<>> \in Seq(ConnRecs) /\ <<>> \in Seq(Seq(Replies)) /\ <<>> \in Seq(Nat)
      /\ Len(<<>>) = 0
  BY EmptySeq
<1>4. 1..0 = {}
  OBVIOUS
<1> QED
  BY <1>1, <1>2, <1>3, <1>4, ColdAssumption DEF ColdInv

LEMMA ColdNext == ColdInv /\ [Next]_vars => ColdInv'
<1> SUFFICES ASSUME ColdInv, [Next]_vars PROVE ColdInv'
  OBVIOUS
<1>1. CASE UNCHANGED <<conn, timeline, tabs, answer>>
  <2>1. ProcInv'
    BY ProcNext DEF ColdInv
  <2> QED
    BY <1>1, <2>1 DEF ColdInv
<1>2. CASE UNCHANGED vars
  BY <1>1, <1>2 DEF vars
<1>3. ASSUME NEW c \in Controls, Process(c) PROVE ColdInv'
  BY <1>1, <1>3 DEF Process
<1>4. ASSUME NEW i \in Conns, Step(i) PROVE ColdInv'
  BY <1>4, WindowStep, ProxyStep, WorkerStepInv DEF Step
<1> QED
  BY <1>2, <1>3, <1>4, ControlDiesInv, WorkerDiesInv, OpenInv DEF Next

(* Every connection keeps its streams whole, or what is left of them a start  *)
(* of the answer, and the timeline holds every handled submission once.       *)
THEOREM ColdInvariant == Spec => []ColdInv
  BY ColdInit, ColdNext, PTL DEF Spec

(* A window takes a content response only if it is the whole answer to its    *)
(* own request, whatever buffer sizes cut it and whichever process dies       *)
(* (parse_content_snapshot).                                                  *)
THEOREM AnswerWholeHolds == Spec => []AnswerWhole
<1>1. ColdInv => AnswerWhole
  <2> SUFFICES ASSUME ColdInv, NEW i \in Conns, conn[i].op \in Content, conn[i].client = "ok"
               PROVE  conn[i].got = answer[i]
    BY DEF AnswerWhole
  <2> QED
    BY ConnHas DEF ConnInv, Accepted
<1> QED
  BY <1>1, ColdInvariant, PTL

(* The splice loses, repeats and reorders nothing of an answer or of a        *)
(* request while its pipe is open.                                            *)
THEOREM StreamWholeHolds == Spec => []StreamWhole
<1>1. ColdInv => StreamWhole
  <2> SUFFICES ASSUME ColdInv, NEW i \in Conns, conn[i].op \in Content, conn[i].pipe = "open",
                      ~conn[i].cut, Waiting(conn[i])
               PROVE  LET k == conn[i]
                      IN  /\ k.got \o k.down1 \o k.b2a \o k.down2 \o k.output = answer[i]
                          /\ k.serv \in {"backlog", "open"} /\ ~k.handled =>
                               k.input \o k.up2 \o k.a2b \o k.up1 \o k.request = Request
    BY Zenon DEF StreamWhole
  <2>1. ConnInv(i, conn[i], answer[i])
    BY ConnHas
  <2>2. /\ Downstream(conn[i]) = answer[i]
        /\ conn[i].serv \in {"backlog", "open"} /\ ~conn[i].handled => Upstream(conn[i]) = Request
    BY <2>1 DEF ConnInv, Whole
  <2> QED
    BY <2>2, Zenon DEF Downstream, Upstream, Stream
<1> QED
  BY <1>1, ColdInvariant, PTL

(* A submission is in the timeline at most once, and one its window saw       *)
(* accepted is in what it was shown, unless older items filled the response.  *)
THEOREM RecordedOnceHolds == Spec => []RecordedOnce
<1>1. ColdInv => RecordedOnce
  <2> SUFFICES ASSUME ColdInv PROVE RecordedOnce
    OBVIOUS
  <2>1. \A n, m \in DOMAIN timeline : timeline[n] = timeline[m] => n = m
    BY LenProperties DEF ColdInv
  <2>2. ASSUME NEW i \in Conns, conn[i].op = "submit", conn[i].client = "ok"
        PROVE  \/ \E n \in DOMAIN conn[i].got : conn[i].got[n] = Item(n - 1, i)
               \/ Len(conn[i].got) = RespMax
    <3>1. ConnInv(i, conn[i], answer[i]) /\ conn[i].op \in Content
      BY <2>2, ConnHas DEF Content, ConnRecs
    <3>2. conn[i].got = answer[i] /\ answer[i] # <<>> /\ answer[i][1].ok
      BY <2>2, <3>1 DEF ConnInv, Accepted
    <3> QED
      BY <2>2, <3>1, <3>2 DEF ConnInv, Framed
  <2> QED
    BY <2>1, <2>2 DEF RecordedOnce
<1> QED
  BY <1>1, ColdInvariant, PTL

-----------------------------------------------------------------------------
(* The sockets and processes implement ColdRequest.                           *)

LEMMA PromiseValues ==
  ASSUME ColdInv, NEW i \in Conns
  PROVE  /\ i \in 1..MaxConns
         /\ asked[i] = conn[i].op
         /\ told[i] = Knows(conn[i])
         /\ answer[i] = <<>> => done[i] = "no"
         /\ answer[i] # <<>> /\ answer[i] # Refusal => done[i] = "yes"
<1>1. i \in 1..Len(conn) /\ Len(conn) \in Nat /\ Len(conn) <= MaxConns /\ MaxConns \in Nat
  BY ConnHas, LenProperties, ColdAssumption DEF ColdInv
<1>2. i \in 1..MaxConns
  BY <1>1
<1> QED
  BY <1>2 DEF asked, told, done

(* A step of one connection: what it makes of its own request is all of it.   *)
LEMMA PromiseMove ==
  ASSUME ColdInv, NEW i \in Conns, NEW l \in ConnRecs, NEW a \in Answers, l.op = conn[i].op,
         conn' = [conn EXCEPT ![i] = l], answer' = [answer EXCEPT ![i] = a]
  PROVE  /\ UNCHANGED asked
         /\ told' = [told EXCEPT ![i] = Knows(l)]
         /\ done' = [done EXCEPT ![i] = IF a = <<>> THEN "no"
                                        ELSE IF a = Refusal THEN "refused" ELSE "yes"]
<1>1. i \in 1..Len(conn) /\ Len(answer) = Len(conn) /\ answer \in Seq(Answers)
      /\ conn \in Seq(ConnRecs) /\ Len(conn) \in Nat
  BY ConnHas, LenProperties DEF ColdInv, Answers
<1>2. /\ DOMAIN conn' = DOMAIN conn /\ Conns = 1..Len(conn) /\ Conns' = 1..Len(conn)
      /\ \A j \in 1..Len(conn) : conn'[j] = IF j = i THEN l ELSE conn[j]
      /\ \A j \in 1..Len(conn) : answer'[j] = IF j = i THEN a ELSE answer[j]
  <2>1. DOMAIN conn = 1..Len(conn) /\ DOMAIN answer = 1..Len(conn)
    BY <1>1, LenProperties
  <2> QED
    BY <1>1, <2>1 DEF Conns
<1>3. UNCHANGED asked
  BY <1>1, <1>2 DEF asked
<1>4. told' = [told EXCEPT ![i] = Knows(l)]
  <2>1. ASSUME NEW j \in 1..Len(conn)
        PROVE  Knows(conn'[j]) = IF j = i THEN Knows(l) ELSE Knows(conn[j])
    BY <1>2
  <2>2. told' = [j \in 1..MaxConns |-> IF j \in 1..Len(conn) THEN Knows(conn'[j]) ELSE "none"]
    BY <1>2, SMT DEF told, Knows, Waiting
  <2>3. told = [j \in 1..MaxConns |-> IF j \in 1..Len(conn) THEN Knows(conn[j]) ELSE "none"]
    BY <1>2, Zenon DEF told
  <2> QED
    BY <1>1, <2>1, <2>2, <2>3
<1>5. done' = [done EXCEPT ![i] = IF a = <<>> THEN "no"
                                 ELSE IF a = Refusal THEN "refused" ELSE "yes"]
  BY <1>1, <1>2 DEF done
<1> QED
  BY <1>3, <1>4, <1>5

(* A step that answers nothing: the window goes on waiting, fails, or takes   *)
(* what the worker has answered.                                              *)
LEMMA PromiseQuiet ==
  ASSUME ColdInv, NEW i \in Conns, NEW l \in ConnRecs, l.op = conn[i].op, Change(i, l),
         UNCHANGED <<timeline, tabs, answer>>,
         \/ l.client = conn[i].client
         \/ Waiting(conn[i]) /\ Waiting(l)
         \/ Waiting(conn[i]) /\ l.client = "failed"
         \/ Waiting(conn[i]) /\ l.client = "ok" /\ answer[i] # <<>> /\ answer[i] # Refusal
  PROVE  [Promise!Next]_(Promise!vars)
<1> DEFINE k == conn[i]
<1>1. /\ i \in 1..MaxConns /\ told[i] = Knows(k)
      /\ answer[i] # <<>> /\ answer[i] # Refusal => done[i] = "yes"
  BY PromiseValues
<1>2. answer[i] \in Answers /\ answer' = [answer EXCEPT ![i] = answer[i]]
  <2>1. answer \in Seq(Answers) /\ i \in 1..Len(answer)
    BY ConnHas DEF ColdInv, Answers
  <2>2. DOMAIN answer = 1..Len(answer) /\ answer \in [1..Len(answer) -> Answers]
    BY <2>1, LenProperties
  <2> QED
    BY <2>1, <2>2
<1>3. /\ UNCHANGED asked
      /\ told' = [told EXCEPT ![i] = Knows(l)]
  BY <1>2, PromiseMove DEF Change
<1>4. UNCHANGED done
  <2>1. UNCHANGED conn => UNCHANGED done
    BY DEF done, Conns
  <2>2. DOMAIN conn' = DOMAIN conn
    BY DEF Change
  <2> QED
    BY <2>2 DEF done, Conns
<1>5. told \in [1..MaxConns -> {told[j] : j \in 1..MaxConns}]
  BY DEF told
<1>6. CASE l.client = k.client \/ (Waiting(k) /\ Waiting(l))
  <2>1. told' = [told EXCEPT ![i] = told[i]]
    BY <1>1, <1>3, <1>6 DEF Waiting, Knows
  <2>2. UNCHANGED told
    BY <1>1, <1>5, <2>1
  <2> QED
    BY <1>3, <1>4, <2>2 DEF Promise!vars
<1>7. CASE Waiting(k) /\ l.client = "failed"
  <2>1. told' = [told EXCEPT ![i] = "failed"] /\ told[i] = "waiting"
    BY <1>1, <1>3, <1>7 DEF Waiting, Knows
  <2>2. Promise!GiveUp(i)
    BY <1>3, <1>4, <2>1 DEF Promise!GiveUp
  <2> QED
    BY <1>1, <2>2 DEF Promise!Next, Promise!Requests
<1>8. CASE Waiting(k) /\ l.client = "ok" /\ answer[i] # <<>> /\ answer[i] # Refusal
  <2>1. told' = [told EXCEPT ![i] = "ok"] /\ told[i] = "waiting" /\ done[i] = "yes"
    BY <1>1, <1>3, <1>8 DEF Waiting, Knows
  <2>2. Promise!Succeed(i)
    BY <1>3, <1>4, <2>1 DEF Promise!Succeed
  <2> QED
    BY <1>1, <2>2 DEF Promise!Next, Promise!Requests
<1> QED
  BY <1>6, <1>7, <1>8

(* A response to a request that is carried out is not a refusal.              *)
LEMMA RefusedOnly ==
  ASSUME NEW items \in Seq(Nat)
  PROVE  EncodeSnapshot(items) # Refusal
<1>1. \E n : EncodeSnapshot(items)[1] = Header(n)
  BY Encoded
<1> QED
  BY <1>1 DEF Refusal, Header

(* The window's steps, the proxy's and the worker's.                          *)
LEMMA PromiseWindow ==
  ASSUME ColdInv, NEW i \in Conns, Window(i)
  PROVE  [Promise!Next]_(Promise!vars)
<1> DEFINE k == conn[i]
<1>1. ConnInv(i, k, answer[i]) /\ k \in ConnRecs
  BY ConnHas
<1>2. Waiting(k)
  BY DEF Window, Send, ReadContent, ReadNav, GiveUp, Waiting
<1>3. UNCHANGED <<timeline, tabs, answer>>
  BY DEF Window, Send, ReadContent, ReadNav, GiveUp
<1>4. ASSUME Change(i, Fail(k)) PROVE [Promise!Next]_(Promise!vars)
  <2>1. ConnInv(i, Fail(k), answer[i])
    BY <1>1, FailInv
  <2>2. Fail(k) \in ConnRecs
    BY <2>1 DEF ConnInv
  <2>3. Fail(k).op = k.op /\ Fail(k).client = "failed"
    BY <1>1 DEF Fail, ConnRecs
  <2> QED
    BY <1>2, <1>3, <1>4, <2>2, <2>3, PromiseQuiet
<1>5. CASE Send(i)
  <2>1. CASE Room(k, k.up1) > 0 /\ Change(i, Sent(k))
    <3>1. ConnInv(i, Sent(k), answer[i])
      BY <1>1, <1>5, <2>1, SentInv DEF Send
    <3>2. Sent(k) \in ConnRecs
      BY <3>1 DEF ConnInv
    <3>3. Sent(k).op = k.op /\ Waiting(Sent(k))
      BY <1>1 DEF Sent, ConnRecs, Waiting
    <3> QED
      BY <1>2, <1>3, <2>1, <3>2, <3>3, PromiseQuiet
  <2> QED
    BY <1>4, <1>5, <2>1 DEF Send, Sent
<1>6. CASE ReadContent(i)
  <2>1. CASE Change(i, GotMore(k))
    <3>1. ConnInv(i, GotMore(k), answer[i])
      BY <1>1, <1>6, GotMoreInv DEF ReadContent
    <3>2. GotMore(k) \in ConnRecs
      BY <3>1 DEF ConnInv
    <3>3. GotMore(k).op = k.op /\ GotMore(k).client = k.client
      BY <1>1 DEF GotMore, ConnRecs
    <3> QED
      BY <1>2, <1>3, <2>1, <3>2, <3>3, PromiseQuiet
  <2>2. CASE k.down1 = <<>> /\ Parse(k.got) /\ Change(i, Taking(k))
    <3>1. k.got = answer[i] /\ k.got # <<>> /\ k.got[1].ok
      BY <1>1, <1>6, <2>2, ParsedWhole DEF ReadContent
    <3>2. answer[i] # <<>> /\ answer[i] # Refusal
      BY <3>1 DEF Refusal
    <3>3. ConnInv(i, Taking(k), answer[i])
      BY <1>1, <1>6, <2>2, TakingInv DEF ReadContent
    <3>4. Taking(k) \in ConnRecs
      BY <3>3 DEF ConnInv
    <3>5. Taking(k).op = k.op /\ Taking(k).client = "ok"
      BY <1>1 DEF Taking, ConnRecs
    <3> QED
      BY <1>2, <1>3, <2>2, <3>2, <3>4, <3>5, PromiseQuiet
  <2> QED
    BY <1>4, <1>6, <2>1, <2>2 DEF ReadContent, GotMore, Taking
<1>7. CASE ReadNav(i)
  <2> DEFINE line == Taken(k.down1, NavMax)
  <2>1. CASE k.down1 # <<>> /\ k.client = "greet" /\ Change(i, Greeted(k))
    <3>1. ConnInv(i, Greeted(k), answer[i])
      BY <1>1, <1>7, <2>1, GreetedInv DEF ReadNav
    <3>2. Greeted(k) \in ConnRecs
      BY <3>1 DEF ConnInv
    <3>3. Greeted(k).op = k.op /\ Waiting(Greeted(k))
      BY <1>1 DEF Greeted, ConnRecs, Waiting
    <3> QED
      BY <1>2, <1>3, <2>1, <3>2, <3>3, PromiseQuiet
  <2>2. CASE ParseNav(line) /\ k.client = "wait" /\ Change(i, NavTaken(k))
    <3>1. ConnInv(i, NavTaken(k), answer[i])
      BY <1>1, <1>7, <2>2, NavTakenInv DEF ReadNav
    <3>2. NavTaken(k) \in ConnRecs
      BY <3>1 DEF ConnInv
    <3>3. NavTaken(k).op = k.op /\ NavTaken(k).client = "ok"
      BY <1>1 DEF NavTaken, ConnRecs
    <3>4. answer[i] # <<>>
      BY <3>1, <3>3 DEF ConnInv, Accepted
    <3>5. answer[i] # Refusal
      BY <1>1, <1>7, <3>4 DEF ConnInv, Framed, ReadNav, Refusal, Ws
    <3> QED
      BY <1>2, <1>3, <2>2, <3>2, <3>3, <3>4, <3>5, PromiseQuiet
  <2> QED
    BY <1>4, <1>7, <2>1, <2>2 DEF ReadNav, Greeted, NavTaken
<1>8. CASE GiveUp(i)
  BY <1>4, <1>8 DEF GiveUp
<1> QED
  BY <1>5, <1>6, <1>7, <1>8 DEF Window

LEMMA PromiseProxy ==
  ASSUME ColdInv, NEW i \in Conns, Proxy(i)
  PROVE  [Promise!Next]_(Promise!vars)
<1> DEFINE k == conn[i]
<1>1. ConnInv(i, k, answer[i]) /\ k \in ConnRecs
  BY ConnHas
<1>2. UNCHANGED <<timeline, tabs, answer>>
  BY DEF Proxy, Accept, Splice
<1>3. ASSUME NEW l \in ConnRecs
      PROVE  /\ Gone(l).op = l.op /\ Gone(l).client = l.client
             /\ WriteB(l).op = l.op /\ WriteB(l).client = l.client
             /\ WriteA(l).op = l.op /\ WriteA(l).client = l.client
             /\ ReadBoth(l).op = l.op /\ ReadBoth(l).client = l.client
  BY DEF Gone, WriteB, WriteA, ReadBoth, ConnRecs
<1>4. ASSUME Change(i, Gone(k)) PROVE [Promise!Next]_(Promise!vars)
  <2>1. Gone(k) \in ConnRecs
    BY <1>1, GoneInv DEF ConnInv
  <2> QED
    BY <1>1, <1>2, <1>3, <1>4, <2>1, PromiseQuiet
<1>5. CASE Accept(i)
  <2>1. CASE WorkerAlive
    <3>1. workerPath \in Controls
      BY <2>1 DEF ColdInv, ProcInv, WorkerAlive
    <3>2. Connected(k, workerPath) \in ConnRecs
      BY <1>1, <1>5, <3>1, ConnectedInv DEF Accept, ConnInv
    <3>3. Connected(k, workerPath).op = k.op /\ Connected(k, workerPath).client = k.client
      BY <1>1 DEF Connected, ConnRecs
    <3>4. Change(i, Connected(k, workerPath))
      BY <1>5, <2>1 DEF Accept, Connected
    <3> QED
      BY <1>2, <3>2, <3>3, <3>4, PromiseQuiet
  <2> QED
    BY <1>4, <1>5, <2>1 DEF Accept
<1>6. CASE Splice(i)
  <2>1. CASE ~(EndA(k) \/ EndB(k))
    <3> DEFINE r == ReadBoth(k)
    <3>1. ConnInv(i, r, answer[i]) /\ r.pipe = "open"
      <4>1. k.pipe = "open"
        BY <1>6 DEF Splice
      <4>2. r.pipe = k.pipe
        BY <1>1 DEF ReadBoth, ConnRecs
      <4> QED
        BY <1>1, <4>1, <4>2, ReadBothInv
    <3>2. r.op = k.op /\ r.client = k.client
      BY <1>1, <1>3
    <3>3. Change(i, Spliced(r))
      BY <1>6, <2>1 DEF Splice
    <3> HIDE DEF r
    <3>4. Spliced(r) \in ConnRecs
      BY <3>1, SplicedInv DEF ConnInv
    <3>5. r \in ConnRecs /\ WriteB(r) \in ConnRecs
      BY <3>1, WriteBInv DEF ConnInv
    <3>6. Spliced(r).op = k.op /\ Spliced(r).client = k.client
      BY <1>3, <3>2, <3>5 DEF Spliced
    <3> QED
      BY <1>2, <3>3, <3>4, <3>6, PromiseQuiet
  <2> QED
    BY <1>4, <1>6, <2>1 DEF Splice
<1> QED
  BY <1>5, <1>6 DEF Proxy

LEMMA PromiseWorker ==
  ASSUME ColdInv, NEW i \in Conns, Worker(i)
  PROVE  [Promise!Next]_(Promise!vars)
<1> DEFINE k == conn[i]
<1>1. ConnInv(i, k, answer[i]) /\ k \in ConnRecs /\ i \in Nat /\ i \in 1..Len(conn)
  BY ConnHas
<1>2. ColdInv'
  BY WorkerStepInv
<1>3. ASSUME NEW l, Change(i, l), l.op = k.op, l.client = k.client,
             UNCHANGED <<timeline, tabs, answer>>
      PROVE  [Promise!Next]_(Promise!vars)
  <2>1. conn'[i] = l /\ conn'[i] \in ConnRecs
    <3>1. i \in DOMAIN conn /\ DOMAIN conn' = DOMAIN conn
      BY <1>3 DEF Change, Conns
    <3>2. conn'[i] = l
      BY <1>3, <3>1 DEF Change
    <3>3. DOMAIN conn' = 1..Len(conn') /\ conn' \in Seq(ConnRecs)
      BY <1>2, LenProperties DEF ColdInv
    <3> QED
      BY <3>1, <3>2, <3>3, ElementOfSeq DEF Conns
  <2> QED
    BY <1>3, <2>1, PromiseQuiet
<1>4. ASSUME NEW l \in ConnRecs
      PROVE  /\ Removed(l).op = l.op /\ Removed(l).client = l.client
             /\ Flushed(l).op = l.op /\ Flushed(l).client = l.client
             /\ Heard(l).op = l.op /\ Heard(l).client = l.client
  BY DEF Removed, Flushed, Heard, ConnRecs
<1> DEFINE h == Heard(k)
<1>5. h \in ConnRecs /\ h.op = k.op /\ h.client = k.client /\ h.handled = k.handled
  <2>1. ConnInv(i, h, answer[i])
    BY <1>1, HeardInv
  <2> QED
    BY <1>1, <1>4, <2>1 DEF ConnInv, Heard, ConnRecs
<1>6. h = [conn[i] EXCEPT !.input = @ \o conn[i].up2, !.up2 = <<>>]
  BY DEF Heard
<1> HIDE DEF h
<1>7. CASE ServeAccept(i)
  <2> DEFINE l == Welcomed(k, NavLine(tabs))
  <2>1. Change(i, l) /\ UNCHANGED <<timeline, tabs, answer>>
    BY <1>7 DEF ServeAccept, Welcomed
  <2>2. l.op = k.op /\ l.client = k.client
    BY <1>1 DEF Welcomed, ConnRecs
  <2> HIDE DEF l
  <2> QED
    BY <1>3, <2>1, <2>2
<1>8. CASE PollContent(i) \/ FlushContent(i)
  <2>1. UNCHANGED <<timeline, tabs, answer>>
    BY <1>8 DEF PollContent, FlushContent
  <2>2. Change(i, Removed(h)) \/ Change(i, h) \/ Change(i, Flushed(k))
    BY <1>6, <1>8 DEF PollContent, FlushContent
  <2> QED
    BY <1>1, <1>3, <1>4, <1>5, <2>1, <2>2
<1>9. CASE PollNav(i) /\ k.up2 = <<>>
  <2>1. Change(i, Removed(k)) /\ UNCHANGED <<timeline, tabs, answer>>
    BY <1>9 DEF PollNav
  <2> QED
    BY <1>1, <1>3, <1>4, <2>1
<1>10. ASSUME NEW l, NEW a \in Answers, l.op = k.op, l.client = k.client,
              conn' = [conn EXCEPT ![i] = l], answer' = [answer EXCEPT ![i] = a],
              answer[i] = <<>>
       PROVE  /\ UNCHANGED <<asked, told>>
              /\ done' = [done EXCEPT ![i] = IF a = <<>> THEN "no"
                                             ELSE IF a = Refusal THEN "refused" ELSE "yes"]
              /\ i \in 1..MaxConns /\ done[i] = "no" /\ asked[i] = k.op
  <2>1. l \in ConnRecs
    <3>1. i \in DOMAIN conn /\ DOMAIN conn' = DOMAIN conn
      BY <1>10 DEF Conns
    <3>2. conn'[i] = l
      BY <1>10, <3>1
    <3>3. DOMAIN conn' = 1..Len(conn') /\ conn' \in Seq(ConnRecs)
      BY <1>2, LenProperties DEF ColdInv
    <3> QED
      BY <3>1, <3>2, <3>3, ElementOfSeq
  <2>2. /\ UNCHANGED asked /\ told' = [told EXCEPT ![i] = Knows(l)]
        /\ done' = [done EXCEPT ![i] = IF a = <<>> THEN "no"
                                       ELSE IF a = Refusal THEN "refused" ELSE "yes"]
    BY <1>10, <2>1, PromiseMove
  <2>3. i \in 1..MaxConns /\ told[i] = Knows(k) /\ done[i] = "no" /\ asked[i] = k.op
    BY <1>10, PromiseValues
  <2>4. Knows(l) = Knows(k)
    BY <1>10 DEF Knows, Waiting
  <2>5. told \in [1..MaxConns -> {told[j] : j \in 1..MaxConns}]
    BY DEF told
  <2> QED
    BY <2>2, <2>3, <2>4, <2>5
<1>11. CASE AnswerContent(i)
  <2> DEFINE items == IF Appends(h) THEN Append(timeline, i) ELSE timeline
             a == Respond(h, items)
             l == Flushed([h EXCEPT !.handled = TRUE, !.output = a])
  <2>1. /\ h.op \in Content /\ ~h.handled
        /\ timeline' = items /\ answer' = [answer EXCEPT ![i] = a]
        /\ Change(i, Flushed([h EXCEPT !.handled = TRUE, !.output = answer'[i]]))
        /\ UNCHANGED tabs
    BY <1>6, <1>11 DEF AnswerContent
  <2>2. answer'[i] = a
    BY <1>1, <2>1, LenProperties DEF ColdInv
  <2>3. conn' = [conn EXCEPT ![i] = l]
    BY <2>1, <2>2 DEF Change
  <2>4. a \in Seq(Replies) /\ a # <<>>
    BY <1>1, <2>1, Responds DEF ColdInv
  <2>5. l.op = k.op /\ l.client = k.client
    <3> DEFINE g == [h EXCEPT !.handled = TRUE, !.output = a]
    <3>1. g \in ConnRecs /\ g.op = h.op /\ g.client = h.client
      BY <1>5, <2>4 DEF ConnRecs, ReplySeqs
    <3> HIDE DEF g
    <3> QED
      BY <1>4, <1>5, <3>1 DEF g
  <2>6. answer[i] = <<>>
    BY <1>1, <1>5, <2>1 DEF ConnInv, Served
  <2>7. /\ a = Refusal => h.op = "refused" \/ (h.op = "submit" /\ ~Appends(h))
        /\ h.op = "refused" \/ (h.op = "submit" /\ ~Appends(h)) => a = Refusal
    <3>1. items \in Seq(Nat)
      BY <1>1, <2>1, Responds DEF ColdInv
    <3>2. EncodeSnapshot(items) # Refusal
      BY <3>1, RefusedOnly
    <3> QED
      BY <3>2 DEF Respond
  <2>8. Appends(h) <=> h.op = "submit" /\ Len(timeline) < MaxItems
    BY DEF Appends
  <2>9. Len(timeline) \in Nat /\ MaxItems \in Nat
    BY LenProperties, ColdAssumption DEF ColdInv
  <2>10. h.op \in {"submit", "read", "refused"}
    BY <1>5, <2>1, ColdAssumption DEF Content
  <2> HIDE DEF a, l
  <2>11. /\ UNCHANGED <<asked, told>> /\ i \in 1..MaxConns /\ done[i] = "no"
         /\ done' = [done EXCEPT ![i] = IF a = Refusal THEN "refused" ELSE "yes"]
         /\ asked[i] = h.op
    <3>1. /\ UNCHANGED <<asked, told>> /\ i \in 1..MaxConns /\ done[i] = "no"
          /\ done' = [done EXCEPT ![i] = IF a = <<>> THEN "no"
                                         ELSE IF a = Refusal THEN "refused" ELSE "yes"]
          /\ asked[i] = k.op
      BY <1>10, <2>1, <2>3, <2>4, <2>5, <2>6 DEF Answers
    <3> QED
      BY <1>5, <2>4, <3>1
  <2>12. CASE a = Refusal
    <3>1. /\ asked[i] = "refused" \/ (asked[i] = "submit" /\ Len(timeline) >= MaxItems)
          /\ timeline' = timeline
      BY <2>1, <2>7, <2>8, <2>9, <2>11, <2>12
    <3>2. Promise!Refuse(i)
      BY <2>1, <2>11, <2>12, <3>1 DEF Promise!Refuse
    <3> QED
      BY <2>11, <3>2 DEF Promise!Serve, Promise!Next, Promise!Requests
  <2>13. CASE a # Refusal
    <3>1. \/ asked[i] = "read" /\ timeline' = timeline
          \/ /\ asked[i] = "submit" /\ Len(timeline) < MaxItems
             /\ timeline' = Append(timeline, i)
      BY <2>1, <2>7, <2>8, <2>10, <2>11, <2>13
    <3>2. Promise!Perform(i)
      BY <2>1, <2>11, <2>13, <3>1 DEF Promise!Perform
    <3> QED
      BY <2>11, <3>2 DEF Promise!Serve, Promise!Next, Promise!Requests
  <2> QED
    BY <2>12, <2>13
<1>12. CASE PollNav(i) /\ k.up2 # <<>>
  <2> DEFINE a == NavLine(tabs')
             l == Tabbed(k, a)
  <2>1. /\ k.op = "tab" /\ k.serv = "open" /\ UNCHANGED timeline
        /\ tabs' = Append(tabs, i) /\ answer' = [answer EXCEPT ![i] = a]
        /\ Change(i, Removed([k EXCEPT !.down2 = IF k.pipe = "gone" THEN <<>> ELSE @ \o answer'[i]]))
    BY <1>12 DEF PollNav
  <2>2. answer'[i] = a
    BY <1>1, <2>1, LenProperties DEF ColdInv
  <2>3. conn' = [conn EXCEPT ![i] = l]
    <3>1. conn' = [conn EXCEPT ![i] = Tabbed(k, answer'[i])]
      BY <2>1, Zenon DEF Change, Tabbed
    <3> HIDE DEF a
    <3> QED
      BY <2>2, <3>1, Zenon
  <2>4. tabs' \in Seq(Nat)
    BY <1>2 DEF ColdInv
  <2>5. a \in Seq(Replies) /\ a # <<>> /\ a[1] = Ws
    BY <2>4, LineShape
  <2>6. l.op = k.op /\ l.client = k.client
    BY <1>1 DEF Tabbed, Removed, ConnRecs
  <2>7. answer[i] = <<>>
    BY <1>1, <2>1 DEF ConnInv, Served
  <2>8. a # Refusal
    BY <2>5 DEF Refusal, Ws
  <2> HIDE DEF a, l
  <2>9. /\ UNCHANGED <<asked, told>> /\ i \in 1..MaxConns /\ done[i] = "no"
        /\ done' = [done EXCEPT ![i] = IF a = <<>> THEN "no"
                                       ELSE IF a = Refusal THEN "refused" ELSE "yes"]
        /\ asked[i] = k.op
    BY <1>10, <2>1, <2>3, <2>5, <2>6, <2>7 DEF Answers
  <2>10. done' = [done EXCEPT ![i] = "yes"]
    BY <2>5, <2>8, <2>9
  <2>11. Promise!Perform(i)
    BY <2>1, <2>9, <2>10 DEF Promise!Perform
  <2> QED
    BY <2>9, <2>11 DEF Promise!Serve, Promise!Next, Promise!Requests
<1> QED
  BY <1>7, <1>8, <1>9, <1>11, <1>12 DEF Worker

(* A window makes a request.                                                  *)
LEMMA PromiseOpen ==
  ASSUME ColdInv, NEW op \in Ops, Open(op)
  PROVE  [Promise!Next]_(Promise!vars)
<1> DEFINE n == Len(conn) + 1
           l == Fresh(op, publicPath)
<1>1. /\ conn \in Seq(ConnRecs) /\ Len(conn) \in Nat /\ answer \in Seq(Answers)
      /\ Len(answer) = Len(conn)
  BY LenProperties DEF ColdInv, Answers
<1>2. n \in 1..MaxConns
  BY <1>1, ColdAssumption DEF Open
<1>3. l.op = op /\ Waiting(l)
  BY DEF Fresh, Waiting
<1>4. l \in ConnRecs /\ <<>> \in Answers
  <2>1. publicPath \in Controls
    BY DEF ColdInv, ProcInv, Open, PublicAlive
  <2>2. ConnInv(1, l, <<>>)
    BY <2>1, FreshInv
  <2> QED
    BY <2>2 DEF ConnInv, Answers
<1>5. conn' = Append(conn, l) /\ answer' = Append(answer, <<>>) /\ UNCHANGED <<timeline, tabs>>
  BY DEF Open
<1> HIDE DEF l
<1>6. /\ DOMAIN conn = 1..Len(conn) /\ DOMAIN conn' = 1..n
      /\ (\A j \in 1..Len(conn) : conn'[j] = conn[j]) /\ conn'[n] = l
  <2>1. /\ conn' \in Seq(ConnRecs) /\ Len(conn') = n
        /\ (\A j \in 1..Len(conn) : conn'[j] = conn[j]) /\ conn'[n] = l
    BY <1>1, <1>4, <1>5, AppendProperties
  <2> QED
    BY <1>1, <2>1, LenProperties
<1>7. (\A j \in 1..Len(conn) : answer'[j] = answer[j]) /\ answer'[n] = <<>>
  BY <1>1, <1>4, <1>5, AppendProperties
<1> HIDE DEF n
<1>8. Conns = 1..Len(conn) /\ Conns' = 1..n /\ \A j : j \in 1..n <=> j \in 1..Len(conn) \/ j = n
  BY <1>1, <1>6 DEF Conns, n
<1>9. n \notin 1..Len(conn)
  BY <1>1 DEF n
<1>10. asked[n] = "none" /\ asked' = [asked EXCEPT ![n] = op]
  BY <1>2, <1>3, <1>6, <1>8, <1>9 DEF asked
<1>11. told' = [told EXCEPT ![n] = "waiting"]
  <2>1. told' = [j \in 1..MaxConns |-> IF j \in 1..n THEN Knows(conn'[j]) ELSE "none"]
    BY <1>8, SMT DEF told, Knows, Waiting
  <2>2. told = [j \in 1..MaxConns |-> IF j \in 1..Len(conn) THEN Knows(conn[j]) ELSE "none"]
    BY <1>8, Zenon DEF told
  <2>3. Knows(l) = "waiting"
    BY <1>3 DEF Knows
  <2> QED
    BY <1>2, <1>6, <1>8, <1>9, <2>1, <2>2, <2>3
<1>12. UNCHANGED done
  BY <1>2, <1>7, <1>8, <1>9 DEF done
<1>13. Promise!Ask(n)
  BY <1>5, <1>10, <1>11, <1>12 DEF Promise!Ask
<1> QED
  BY <1>2, <1>13 DEF Promise!Next, Promise!Requests

(* The end of a process tells a window nothing; with a worker that serves its *)
(* timeline and its tabs end.                                                 *)
LEMMA PromiseDies ==
  ASSUME ColdInv, NEW c \in Controls, ControlDies(c) \/ WorkerDies(c)
  PROVE  [Promise!Next]_(Promise!vars)
<1>1. /\ DOMAIN conn' = DOMAIN conn /\ UNCHANGED answer
      /\ \A i \in Conns : conn'[i] \in {conn[i], Gone(conn[i]), CutOff(conn[i])}
  BY DEF ControlDies, WorkerDies, CutOff, Conns
<1>2. ASSUME NEW i \in Conns PROVE conn'[i].op = conn[i].op /\ conn'[i].client = conn[i].client
  <2>1. conn[i] \in ConnRecs
    BY ConnHas
  <2>2. /\ Gone(conn[i]).op = conn[i].op /\ Gone(conn[i]).client = conn[i].client
        /\ CutOff(conn[i]).op = conn[i].op /\ CutOff(conn[i]).client = conn[i].client
    BY <2>1 DEF Gone, CutOff, Removed, ConnRecs
  <2> QED
    BY <1>1, <2>2
<1>3. UNCHANGED <<asked, told, done>>
  <2>1. UNCHANGED asked
    BY <1>1, <1>2 DEF asked, Conns
  <2>2. UNCHANGED told
    BY <1>1, <1>2 DEF told, Conns, Knows, Waiting
  <2>3. UNCHANGED done
    BY <1>1 DEF done, Conns
  <2> QED
    BY <2>1, <2>2, <2>3
<1>4. UNCHANGED <<timeline, tabs>> \/ (timeline' = <<>> /\ tabs' = <<>>)
  BY DEF ControlDies, WorkerDies
<1> QED
  BY <1>3, <1>4 DEF Promise!vars, Promise!Next, Promise!Forget

(* The cold sockets implement ColdRequest: however the connections are cut,   *)
(* delayed and closed and whichever processes end, a request is carried out   *)
(* at most once, and a window is told of success only after it was.           *)
THEOREM ColdImplementsRequest == Spec => ImplementsColdRequest
<1>1. Init => Promise!Init
  BY DEF Init, Promise!Init, Promise!Requests, asked, told, done, Conns
<1>2. ColdInv /\ [Next]_vars => [Promise!Next]_(Promise!vars)
  <2> SUFFICES ASSUME ColdInv, [Next]_vars PROVE [Promise!Next]_(Promise!vars)
    OBVIOUS
  <2>1. CASE UNCHANGED <<conn, timeline, tabs, answer>>
    <3>1. UNCHANGED <<asked, told, done>>
      BY <2>1 DEF asked, told, done, Conns, Knows, Waiting
    <3> QED
      BY <2>1, <3>1 DEF Promise!vars
  <2>2. CASE UNCHANGED vars
    BY <2>1, <2>2 DEF vars
  <2>3. ASSUME NEW c \in Controls, Process(c) PROVE [Promise!Next]_(Promise!vars)
    BY <2>1, <2>3 DEF Process
  <2>4. ASSUME NEW i \in Conns, Step(i) PROVE [Promise!Next]_(Promise!vars)
    BY <2>4, PromiseWindow, PromiseProxy, PromiseWorker DEF Step
  <2> QED
    BY <2>2, <2>3, <2>4, PromiseOpen, PromiseDies DEF Next
<1> QED
  BY <1>1, <1>2, ColdInvariant, PTL DEF Spec, ImplementsColdRequest, Promise!Spec

=============================================================================
