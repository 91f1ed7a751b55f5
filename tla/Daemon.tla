------------------------------- MODULE Daemon -------------------------------
(***************************************************************************)
(* The daemon's attach plane (rilld/src/lib.rs): one thread that loops     *)
(*                                                                         *)
(*   reap; poll and accept; read clients; drain PTYs; flush; resync        *)
(*                                                                         *)
(* over the attach sockets of its clients and the PTY masters of its       *)
(* leaves, with the kernel's sessions (module Session) in between.  The    *)
(* daemon's steps interleave with the clients and with the children.       *)
(*                                                                         *)
(* A connection is either a packaged window (Host), which behaves as       *)
(* rill_host::Client does, or any other peer, which sends frames from      *)
(* InFrames.  Frames travel whole: what happens to their bytes on a short  *)
(* read or write is not part of this module.                               *)
(***************************************************************************)
EXTENDS Session, FiniteSets, FiniteSetsExt, SequencesExt

CONSTANTS
  Conn,        \* connections; each is opened at most once
  Host,        \* those opened by a packaged window
  Leaf,        \* the kernel's sessions, present from the start
  DefaultLeaf, \* the leaf an ATTACH without a session id names
  InFrames,    \* the frames peers other than windows may send
  IsWorker,    \* RILL_WORKER=1
  Freedom,     \* what the environment may do: see the actions below
  Window,      \* CREDIT_WINDOW, the window a host grants on connect
  ReadBuf,     \* READ_BUF, the longest PTY read
  SockCap,     \* bound: frames a socket buffers towards a client
  MaxBytes,    \* bound: bytes a child writes
  MaxSends     \* bound: frames a client sends on its own initiative

NoLeaf == 0

ASSUME ConnAssumption == IsFiniteSet(Conn) /\ Host \subseteq Conn
ASSUME BoundAssumption ==
  {Window, ReadBuf, SockCap, MaxBytes, MaxSends} \subseteq Nat
ASSUME LeafAssumption == Leaf \subseteq Nat \ {NoLeaf} /\ DefaultLeaf \in Leaf

VARIABLES
  \* the daemon
  order,    \* Daemon::clients: the connections, in Vec order
  cl,       \* their leaf, observe, protocol and credit
  outbox,   \* their outbox
  sess,     \* Kernel::leaves
  outbound, \* their outbound queues
  \* where the loop is
  pc,
  ready,    \* the slots poll reported readable and not yet read
  batch,    \* the frames of one read still to be dispatched, and their slot
  readable, \* the leaves poll reported readable and not yet drained
  \* the clients
  backlog,  \* connections waiting for accept
  st,       \* their life: new, open, eof (closed by the peer), closed
  inbox,    \* frames sent and not yet read by the daemon
  sent,     \* how many frames the client has sent on its own initiative
  wire,     \* frames written by the daemon and not yet read by the client
  mirror,   \* what the client made of the frames it received
  \* the children
  out,      \* bytes written by the child
  dead,     \* whether it has exited
  written   \* history: who wrote to which PTY, and through which client

daemonVars == <<order, cl, outbox, sess, outbound>>
loopVars   == <<pc, ready, batch, readable>>
clientVars == <<backlog, st, inbox, sent, wire, mirror>>
childVars  == <<out, dead, written>>
vars       == <<daemonVars, loopVars, clientVars, childVars>>

NoBatch == [at |-> 0, src |-> "nobody", frames |-> <<>>]

Pcs == {"reap", "poll", "io", "resync"}

-----------------------------------------------------------------------------
(* Inbound frames.  gen is the ATTACH generation; Bad is any byte string the  *)
(* decoder refuses; Other the frames the kernel ignores inbound.              *)
Attach(leaf, observe, proto, gen) ==
  [t |-> "Attach", leaf |-> leaf, observe |-> observe, proto |-> proto, gen |-> gen]
Credit(n) == [t |-> "Credit", n |-> n]
Data      == [t |-> "Data"]
Resize    == [t |-> "Resize"]
Other     == [t |-> "Other"]
Bad       == [t |-> "Bad"]

InboundFrame ==
  [t : {"Attach"}, leaf : Nat, observe : BOOLEAN, proto : Nat, gen : Nat]
    \cup [t : {"Credit"}, n : Nat] \cup [t : {"Data", "Resize", "Other", "Bad"}]

ASSUME FrameAssumption == InFrames \subseteq InboundFrame

(* rill_host::Client::connect_session opens with an 8-byte ATTACH of          *)
(* generation 1 and its whole window.                                         *)
HostGreeting == <<Attach(NoLeaf, FALSE, 1, 1), Credit(Window)>>

ProtocolSupported(p) == p \in {1, 2}

Accepted == [leaf |-> NoLeaf, observe |-> FALSE, proto |-> 1, credit |-> 0]

(* A connection outside the Vec has no leaf: Forget takes it away. *)
Clients(l)   == {c \in Conn : cl[c].leaf = l}
Writers(l)   == {c \in Clients(l) : ~ cl[c].observe}
Observers(l) == {c \in Clients(l) : cl[c].observe}

Init ==
  /\ order = <<>>
  /\ cl = [c \in Conn |-> Accepted]
  /\ outbox = [c \in Conn |-> <<>>]
  /\ sess = [l \in Leaf |-> SpawnConfigured]
  /\ outbound = [l \in Leaf |-> <<>>]
  /\ pc = "reap"
  /\ ready = {}
  /\ batch = NoBatch
  /\ readable = {}
  /\ backlog = <<>>
  /\ st = [c \in Conn |-> "new"]
  /\ inbox = [c \in Conn |-> <<>>]
  /\ sent = [c \in Conn |-> 0]
  /\ wire = [c \in Conn |-> <<>>]
  /\ mirror = [c \in Conn |-> [pos |-> 0, torn |-> FALSE, exit |-> FALSE, refused |-> FALSE]]
  /\ out = [l \in Leaf |-> 0]
  /\ dead = [l \in Leaf |-> FALSE]
  /\ written = [l \in Leaf |-> {}]

-----------------------------------------------------------------------------
(* A mutant: observers are never released *)
SessAfterDropLeak(c) ==
  [l \in Leaf |-> IF cl[c].leaf # l \/ cl[c].observe THEN sess[l] ELSE Detach(sess[l])]

(* drop_client(idx), used by the read, dispatch and flush steps: what is left *)
(* of the Vec, of the connection and of the session it was attached to.       *)
Forget(i) ==
  /\ order' = RemoveAt(order, i)
  /\ cl' = [cl EXCEPT ![order[i]] = Accepted]
  /\ st' = [st EXCEPT ![order[i]] = "closed"]

SessAfterDrop(c) ==
  [l \in Leaf |-> IF cl[c].leaf # l THEN sess[l]
                  ELSE IF cl[c].observe THEN ReleaseObserver(sess[l])
                  ELSE Detach(sess[l])]

(* Session::detach keeps control frames and drops queued DATA *)
OutboundAfterDrop(c, queues) ==
  [l \in Leaf |-> IF cl[c].leaf = l /\ ~ cl[c].observe
                  THEN Control(queues[l]) ELSE queues[l]]

DropClient(i) ==
  /\ Forget(i)
  /\ outbox' = [outbox EXCEPT ![order[i]] = <<>>]
  /\ sess' = SessAfterDrop(order[i])
  /\ outbound' = OutboundAfterDrop(order[i], outbound)

-----------------------------------------------------------------------------
(* Kernel::reap for every leaf *)
Reap ==
  /\ pc = "reap"
  /\ pc' = "poll"
  /\ sess' = [l \in Leaf |-> PollChild(ExpireInputLeaseIfDue(sess[l]), dead[l])]
  /\ outbound' = [l \in Leaf |-> outbound[l] \o PollChildOut(sess[l], dead[l])]
  /\ UNCHANGED <<order, cl, outbox, ready, batch, readable, clientVars, childVars>>

(* poll looks at the leaves whose child has not been reaped, and finds output *)
(* or the hangup a dead child leaves.  A mutant: the reaped are polled too.    *)
ReadableDead(l) == out[l] > sess[l].delivered
Readable(l) == ~ sess[l].childExit /\ (out[l] > sess[l].delivered \/ dead[l])

(* poll, then accept one waiting connection: poll looks at the slots there    *)
(* are before the accept.                                                     *)
Poll ==
  /\ pc = "poll"
  /\ pc' = "io"
  /\ ready' = {i \in DOMAIN order : inbox[order[i]] # <<>> \/ st[order[i]] = "eof"}
  /\ readable' = {l \in Leaf : Readable(l)}
  /\ \/ /\ backlog = <<>>
        /\ UNCHANGED <<order, backlog>>
     \/ /\ backlog # <<>>
        /\ order' = Append(order, Head(backlog))
        /\ backlog' = Tail(backlog)
  /\ UNCHANGED <<cl, outbox, sess, outbound, batch, st, inbox, sent, wire, mirror, childVars>>

-----------------------------------------------------------------------------
(* The read loop walks the slots poll reported.  A client dropped on the way  *)
(* shifts the ones behind it into lower slots.                                *)
ReadDone == batch = NoBatch /\ \A i \in ready : i > Len(order)

AtSlot(i) ==
  /\ pc = "io" /\ batch = NoBatch
  /\ i \in ready /\ i <= Len(order) /\ \A j \in ready : i <= j
  /\ ready' = ready \ {i}
  /\ UNCHANGED pc

(* A mutant: the decoder keeps what it has handed out *)
ReadFramesAgain(i) ==
  LET c == order[i] IN
  /\ AtSlot(i)
  /\ inbox[c] # <<>> /\ Bad \notin ToSet(inbox[c])
  /\ batch' = [at |-> i, src |-> c, frames |-> inbox[c]]
  /\ UNCHANGED <<daemonVars, readable, clientVars, childVars>>

(* read_client.  One read takes what the peer has sent so far; frames past    *)
(* its 8 KiB buffer are indistinguishable from frames sent after the read.    *)
ReadFrames(i) ==
  LET c == order[i] IN
  /\ AtSlot(i)
  /\ inbox[c] # <<>> /\ Bad \notin ToSet(inbox[c])
  /\ batch' = [at |-> i, src |-> c, frames |-> inbox[c]]
  /\ inbox' = [inbox EXCEPT ![c] = <<>>]
  /\ UNCHANGED <<daemonVars, readable, backlog, st, sent, wire, mirror, childVars>>

(* Decoder::push refused the bytes: the frames decoded before them are lost   *)
(* with the connection.                                                       *)
ReadMalformed(i) ==
  LET c == order[i] IN
  /\ AtSlot(i)
  /\ Bad \in ToSet(inbox[c])
  /\ DropClient(i)
  /\ inbox' = [inbox EXCEPT ![c] = <<>>]
  /\ UNCHANGED <<batch, readable, backlog, sent, wire, mirror, childVars>>

ReadEof(i) ==
  LET c == order[i] IN
  /\ AtSlot(i)
  /\ inbox[c] = <<>> /\ st[c] = "eof"
  /\ DropClient(i)
  /\ UNCHANGED <<batch, readable, backlog, inbox, sent, wire, mirror, childVars>>

(* The slot now holds another client than the one poll reported *)
ReadWouldBlock(i) ==
  LET c == order[i] IN
  /\ AtSlot(i)
  /\ inbox[c] = <<>> /\ st[c] # "eof"
  /\ UNCHANGED <<daemonVars, batch, readable, clientVars, childVars>>

ReadClient == \E i \in ready : ReadFrames(i) \/ ReadMalformed(i) \/ ReadEof(i) \/ ReadWouldBlock(i)

-----------------------------------------------------------------------------
(* dispatch_frame is called with the slot that was read, for every frame of   *)
(* the read: At is the client in that slot when the frame's turn comes.       *)
At == IF batch.at <= Len(order) THEN {order[batch.at]} ELSE {}
AtLeaf == IF At = {} THEN NoLeaf ELSE cl[order[batch.at]].leaf
AtObserverNever == FALSE   \* a mutant: the observe flag is not looked at
AtObserver == \E c \in At : cl[c].observe

Frame == Head(batch.frames)

Dispatching ==
  /\ pc = "io" /\ batch # NoBatch
  /\ batch' = IF Len(batch.frames) = 1 THEN NoBatch ELSE [batch EXCEPT !.frames = Tail(@)]
  /\ UNCHANGED <<pc, ready, readable, backlog, inbox, sent, wire, mirror, out, dead>>

Reply(frames) ==
  outbox' = [c \in Conn |-> IF c \in At THEN outbox[c] \o frames ELSE outbox[c]]

Resolve(leaf) == IF leaf = NoLeaf THEN DefaultLeaf ELSE leaf

(* The checks that dispatch_frame makes itself, in its order *)
RefuseReason(f) ==
  LET l == Resolve(f.leaf) IN
  IF ~ ProtocolSupported(f.proto) THEN "ProtocolMismatch"
  ELSE IF l \notin Leaf THEN "Invalid"
  ELSE IF sess[l].attached /\ AtLeaf # l /\ ~ f.observe THEN "AlreadyAttached"
  ELSE "none"

DispatchRefused ==
  /\ Dispatching
  /\ Frame.t = "Attach" /\ RefuseReason(Frame) # "none"
  /\ Reply(<<Refused(RefuseReason(Frame))>>)
  /\ UNCHANGED <<order, cl, sess, outbound, st, written>>

(* What an attaching client is sent at once: a checkpoint, the history, or    *)
(* nothing (a protocol-1 writer is repainted by maybe_resync).                *)
Welcome(f, s) ==
  IF f.proto = 2 THEN <<Checkpoint(s.delivered)>>
  ELSE IF f.observe /\ s.delivered > 0 THEN <<DataFrame(0, s.delivered)>>
  ELSE <<>>

DispatchAttach ==
  /\ Dispatching
  /\ Frame.t = "Attach" /\ RefuseReason(Frame) = "none"
  /\ LET f == Frame
         l == Resolve(f.leaf)
     IN  /\ sess' = [sess EXCEPT ![l] = OnAttach(@, f)]
         /\ outbound' = [outbound EXCEPT ![l] = @ \o OnAttachOut(sess[l], f)]
         /\ cl' = [c \in Conn |->
                     IF c \in At
                     THEN [cl[c] EXCEPT !.leaf = l, !.observe = f.observe, !.proto = f.proto]
                     ELSE cl[c]]
         /\ Reply(Welcome(f, sess[l]))
  /\ UNCHANGED <<order, st, written>>

(* Any other frame of a client without a leaf closes the connection in the slot *)
DispatchUnattached ==
  /\ Dispatching
  /\ Frame.t # "Attach" /\ AtLeaf = NoLeaf
  /\ \/ /\ At = {}
        /\ UNCHANGED <<daemonVars, st>>
     \/ At # {} /\ DropClient(batch.at)
  /\ UNCHANGED written

(* An observer's input is ignored; its resize is not a PTY operation; the     *)
(* kernel ignores the frames it only sends, RESYNC_REQUEST among them.        *)
DispatchIgnored ==
  /\ Dispatching
  /\ AtLeaf # NoLeaf
  /\ Frame.t = "Other" \/ (AtObserver /\ Frame.t \in {"Data", "Resize"})
  /\ UNCHANGED <<daemonVars, st, written>>

(* CREDIT is added to the client's window and to the session's *)
DispatchCredit ==
  /\ Dispatching
  /\ AtLeaf # NoLeaf /\ Frame.t = "Credit"
  /\ cl' = [c \in Conn |-> IF c \in At THEN [cl[c] EXCEPT !.credit = @ + Frame.n] ELSE cl[c]]
  /\ sess' = [sess EXCEPT ![AtLeaf] = OnCredit(@, Frame.n)]
  /\ UNCHANGED <<order, outbox, outbound, st, written>>

(* DATA and RESIZE of a writer reach the PTY unless the session refuses them *)
WritePty(accepted) ==
  written' = [written EXCEPT ![AtLeaf] =
                @ \cup (IF accepted THEN {batch.src} \X At ELSE {})]

DispatchData ==
  /\ Dispatching
  /\ AtLeaf # NoLeaf /\ ~ AtObserver /\ Frame.t = "Data"
  /\ WritePty(AcceptsData(sess[AtLeaf]))
  /\ sess' = [sess EXCEPT ![AtLeaf] = AfterData(@)]
  /\ UNCHANGED <<order, cl, outbox, outbound, st>>

DispatchResize ==
  /\ Dispatching
  /\ AtLeaf # NoLeaf /\ ~ AtObserver /\ Frame.t = "Resize"
  /\ WritePty(AcceptsResize(sess[AtLeaf]))
  /\ sess' = [sess EXCEPT ![AtLeaf] = AfterResize(@)]
  /\ UNCHANGED <<order, cl, outbox, outbound, st>>

DispatchFrame ==
  \/ DispatchRefused \/ DispatchAttach \/ DispatchUnattached \/ DispatchIgnored
  \/ DispatchCredit \/ DispatchData \/ DispatchResize

-----------------------------------------------------------------------------
(* The drain loop over the leaves poll reported.  With a protocol-2 client on *)
(* the leaf, or in a worker, bytes are fanned out to the clients' own         *)
(* outboxes, paced by the protocol-1 writers; otherwise they go to the        *)
(* session's outbound queue, paced by the session's credit.                   *)
FansOut(l) == IsWorker \/ \E c \in Clients(l) : cl[c].proto = 2

Protocol1Writers(l) == {c \in Writers(l) : cl[c].proto # 2}

(* Mutants: nobody paces the drain; every client does *)
DrainWindowOpen(l) == ReadBuf
DrainWindowSlowest(l) ==
  IF ~ FansOut(l) THEN sess[l].credit
  ELSE IF Clients(l) = {} THEN ReadBuf
  ELSE Min({cl[c].credit : c \in Clients(l)})

DrainWindow(l) ==
  IF ~ FansOut(l) THEN sess[l].credit
  ELSE IF Protocol1Writers(l) = {} THEN ReadBuf
  ELSE Min({cl[c].credit : c \in Protocol1Writers(l)})

Got(l) ==
  IF FansOut(l) /\ sess[l].childExit THEN 0
  ELSE ReadSize(sess[l], out[l], DrainWindow(l), ReadBuf)

(* live_chunk: a client short of credit is skipped, never sent a prefix *)
LiveChunk(c, n) == IF cl[c].credit < n THEN 0 ELSE n

LiveFrame(c, from, to) ==
  IF cl[c].proto = 2 THEN DeltaFrame(from, to) ELSE DataFrame(from, to)

FanoutPtyBytes(l, from, n) ==
  /\ cl' = [c \in Conn |->
              IF c \in Clients(l) THEN [cl[c] EXCEPT !.credit = @ - LiveChunk(c, n)] ELSE cl[c]]
  /\ outbox' = [c \in Conn |->
                  IF c \in Clients(l) /\ LiveChunk(c, n) > 0
                  THEN Append(outbox[c], LiveFrame(c, from, from + LiveChunk(c, n)))
                  ELSE outbox[c]]

DrainFanout(l) ==
  /\ FansOut(l) /\ Got(l) > 0
  /\ FanoutPtyBytes(l, sess[l].delivered, Got(l))
  /\ sess' = [sess EXCEPT ![l] = DrainPtyAtMost(@, Got(l))]
  /\ UNCHANGED <<outbound, readable>>

DrainDirect(l) ==
  /\ ~ FansOut(l) /\ Got(l) > 0
  /\ sess' = [sess EXCEPT ![l] = OnPtyReadable(@, Got(l))]
  /\ outbound' = [outbound EXCEPT ![l] = @ \o OnPtyReadableOut(sess[l], Got(l))]
  /\ UNCHANGED <<cl, outbox, readable>>

(* No window, or nothing left to read *)
DrainStop(l) ==
  /\ Got(l) = 0
  /\ readable' = readable \ {l}
  /\ UNCHANGED <<cl, outbox, sess, outbound>>

Drain ==
  /\ pc = "io" /\ ReadDone
  /\ \E l \in readable : DrainFanout(l) \/ DrainDirect(l) \/ DrainStop(l)
  /\ UNCHANGED <<order, pc, ready, batch, clientVars, childVars>>

-----------------------------------------------------------------------------
(* A mutant: control frames go out ahead of what the client is still owed *)
QueuedControlFirst(c) ==
  IF cl[c].leaf = NoLeaf THEN outbox[c] ELSE outbound[cl[c].leaf] \o outbox[c]

(* flush_outbound.  A leaf without clients keeps its control frames; the      *)
(* queue of any other leaf is emptied and goes to all its clients.            *)
Queued(c) ==
  IF cl[c].leaf = NoLeaf THEN outbox[c]
  ELSE outbox[c] \o (IF cl[c].proto = 2 THEN Control(outbound[cl[c].leaf])
                     ELSE outbound[cl[c].leaf])

Popped == [l \in Leaf |-> IF Clients(l) = {} THEN Control(outbound[l]) ELSE <<>>]

(* write_outbox to a peer that is gone fails, unless there is nothing to write *)
WriteFails(i) == st[order[i]] = "eof" /\ Queued(order[i]) # <<>>

(* The loop over the clients stops at the first failing write *)
Served(c) == \E i \in DOMAIN order : order[i] = c /\ \A j \in 1 .. i : ~ WriteFails(j)
Room(c)   == LET free == SockCap - Len(wire[c])
             IN  IF free < Len(Queued(c)) THEN free ELSE Len(Queued(c))

WrittenToSockets ==
  wire' = [c \in Conn |-> IF Served(c) THEN wire[c] \o SubSeq(Queued(c), 1, Room(c)) ELSE wire[c]]

Unwritten ==
  [c \in Conn |-> IF Served(c) THEN SubSeq(Queued(c), Room(c) + 1, Len(Queued(c))) ELSE outbox[c]]

Flush ==
  /\ pc = "io" /\ ReadDone /\ readable = {}
  /\ pc' = "resync"
  /\ ready' = {}
  /\ WrittenToSockets
  /\ \/ /\ \A i \in DOMAIN order : ~ WriteFails(i)
        /\ outbox' = Unwritten
        /\ outbound' = Popped
        /\ UNCHANGED <<order, cl, sess, st>>
     \/ \E i \in DOMAIN order :
          /\ WriteFails(i)
          /\ \A j \in 1 .. i - 1 : ~ WriteFails(j)
          /\ Forget(i)
          /\ outbox' = [Unwritten EXCEPT ![order[i]] = <<>>]
          /\ sess' = SessAfterDrop(order[i])
          /\ outbound' = OutboundAfterDrop(order[i], Popped)
  /\ UNCHANGED <<batch, readable, backlog, inbox, sent, mirror, childVars>>

(* maybe_resync: a pending repaint is taken; it is queued unless a protocol-2 *)
(* client is on the leaf.  It is never empty: resync_from_history begins it   *)
(* with an erase.                                                             *)
Resync ==
  /\ pc = "resync"
  /\ pc' = "reap"
  /\ sess' = [l \in Leaf |-> [sess[l] EXCEPT !.resync = FALSE]]
  /\ outbound' = [l \in Leaf |->
                    IF sess[l].resync /\ \A c \in Clients(l) : cl[c].proto # 2
                    THEN Append(outbound[l], Paint(sess[l].delivered)) ELSE outbound[l]]
  /\ UNCHANGED <<order, cl, outbox, ready, batch, readable, clientVars, childVars>>

DaemonStep ==
  \/ Reap \/ Poll \/ ReadClient \/ DispatchFrame \/ Drain \/ Flush \/ Resync

-----------------------------------------------------------------------------
(* The environment: clients, children and the clock.                          *)
Connect(c) ==
  /\ st[c] = "new"
  /\ "overlap" \in Freedom \/ \A d \in Conn : st[d] # "open"
  /\ st' = [st EXCEPT ![c] = "open"]
  /\ backlog' = Append(backlog, c)
  /\ UNCHANGED <<daemonVars, loopVars, inbox, sent, wire, mirror, childVars>>

(* connect_session sends the greeting; the window is pumped after that only   *)
Greeted(c) == sent[c] >= Len(HostGreeting)

Greet(c) ==
  /\ c \in Host /\ st[c] = "open" /\ ~ Greeted(c)
  /\ inbox' = [inbox EXCEPT ![c] = Append(@, HostGreeting[sent[c] + 1])]
  /\ sent' = [sent EXCEPT ![c] = @ + 1]
  /\ UNCHANGED <<daemonVars, loopVars, backlog, st, wire, mirror, childVars>>

(* A window sends keystrokes ("type"); a peer sends what it likes.  Unless    *)
(* "late" is allowed, ATTACH is a peer's first frame or is not sent; unless   *)
(* "eager" is, the rest waits until the ATTACH was honoured.                  *)
MaySend(c, f) ==
  IF c \in Host THEN Greeted(c) /\ "type" \in Freedom /\ f = Data
  ELSE /\ f \in InFrames
       /\ f.t = "Attach" => sent[c] = 0 \/ "late" \in Freedom
       /\ f.t # "Attach" => cl[c].leaf # NoLeaf \/ "eager" \in Freedom

Send(c, f) ==
  /\ st[c] = "open" /\ sent[c] < MaxSends
  /\ MaySend(c, f)
  /\ inbox' = [inbox EXCEPT ![c] = Append(@, f)]
  /\ sent' = [sent EXCEPT ![c] = @ + 1]
  /\ UNCHANGED <<daemonVars, loopVars, backlog, st, wire, mirror, childVars>>

Close(c) ==
  /\ "close" \in Freedom
  /\ st[c] = "open"
  /\ st' = [st EXCEPT ![c] = "eof"]
  /\ wire' = [wire EXCEPT ![c] = <<>>]
  /\ UNCHANGED <<daemonVars, loopVars, backlog, inbox, sent, mirror, childVars>>

(* What a frame does to the client's picture of the terminal: live bytes      *)
(* extend it if they start where it ends and tear it otherwise; a repaint or  *)
(* a checkpoint replaces it.                                                  *)
Shown(m, f) ==
  CASE f.t \in {"Data", "Delta"} -> [m EXCEPT !.torn = @ \/ f.from # m.pos, !.pos = f.to]
    [] f.t \in {"Paint", "Checkpoint"} -> [m EXCEPT !.torn = FALSE, !.pos = f.upto]
    [] f.t = "Exit" -> [m EXCEPT !.exit = TRUE]
    [] f.t = "Refused" -> [m EXCEPT !.refused = TRUE]

(* Client::pump replenishes every DATA byte it fed, a repaint's included. *)
Fed(f) == {b \in 1 .. MaxBytes : f.from < b /\ b <= f.to}
Replenish(f) ==
  CASE f.t = "Data"  -> <<Credit(Cardinality(Fed(f)))>>
    [] f.t = "Paint" -> <<Credit(1)>>
    [] OTHER         -> <<>>

ClientRecv(c) ==
  /\ wire[c] # <<>> /\ st[c] # "eof"
  /\ c \in Host => Greeted(c)
  /\ LET f == Head(wire[c])
         leaves == c \in Host /\ f.t = "Refused" /\ st[c] = "open"
     IN  /\ mirror' = [mirror EXCEPT ![c] = Shown(@, f)]
         /\ inbox' = IF c \in Host /\ st[c] = "open"
                     THEN [inbox EXCEPT ![c] = @ \o Replenish(f)] ELSE inbox
         /\ st' = IF leaves THEN [st EXCEPT ![c] = "eof"] ELSE st
         /\ wire' = [wire EXCEPT ![c] = IF leaves THEN <<>> ELSE Tail(@)]
  /\ UNCHANGED <<daemonVars, loopVars, backlog, sent, childVars>>

ChildWrite(l) ==
  /\ ~ dead[l] /\ out[l] < MaxBytes
  /\ out' = [out EXCEPT ![l] = @ + 1]
  /\ UNCHANGED <<daemonVars, loopVars, clientVars, dead, written>>

ChildExit(l) ==
  /\ "exit" \in Freedom
  /\ ~ dead[l]
  /\ dead' = [dead EXCEPT ![l] = TRUE]
  /\ UNCHANGED <<daemonVars, loopVars, clientVars, out, written>>

(* The grace period of a lease runs out *)
LeaseDue(l) ==
  /\ "clock" \in Freedom
  /\ sess[l].until = "running"
  /\ sess' = [sess EXCEPT ![l].until = "due"]
  /\ UNCHANGED <<order, cl, outbox, outbound, loopVars, clientVars, childVars>>

Next ==
  \/ DaemonStep
  \/ \E c \in Conn : Connect(c) \/ Greet(c) \/ Close(c) \/ ClientRecv(c)
  \/ \E c \in Conn, f \in InFrames \cup {Data} : Send(c, f)
  \/ \E l \in Leaf : ChildWrite(l) \/ ChildExit(l) \/ LeaseDue(l)

Spec == Init /\ [][Next]_vars

(* The loop never blocks for long (poll returns after 50 ms at the latest)    *)
(* and a window finishes connecting and pumps its socket from its display     *)
(* timer.                                                                     *)
FairSpec ==
  /\ Spec
  /\ WF_vars(DaemonStep)
  /\ \A c \in Host : WF_vars(Greet(c)) /\ WF_vars(ClientRecv(c))
-----------------------------------------------------------------------------
ClientRecs == [leaf : Leaf \cup {NoLeaf}, observe : BOOLEAN, proto : {1, 2}, credit : Nat]
Batches == [at : Nat \ {0}, src : Conn, frames : Seq(InboundFrame) \ {<<>>}]

TypeOK ==
  /\ order \in Seq(Conn)
  /\ cl \in [Conn -> ClientRecs]
  /\ sess \in [Leaf -> Sessions]
  /\ pc \in Pcs
  /\ ready \subseteq Nat \ {0}
  /\ batch \in Batches \cup {NoBatch}
  /\ readable \subseteq Leaf
  /\ backlog \in Seq(Conn)
  /\ st \in [Conn -> {"new", "open", "eof", "closed"}]
  /\ inbox \in [Conn -> Seq(InboundFrame)]
  /\ sent \in [Conn -> Nat]
  /\ out \in [Leaf -> Nat]
  /\ dead \in [Leaf -> BOOLEAN]
  /\ \A l \in Leaf : sess[l].delivered <= out[l]

(* ATTACH comes first: it is the head of what a connection has sent and the   *)
(* daemon not yet dispatched, and a connection whose ATTACH is still to come  *)
(* has no leaf and owns the slot it was read from.                            *)
IsAttach(f) == f.t = "Attach"
Untouched(c) == cl[c].leaf = NoLeaf /\ (batch # NoBatch => batch.src # c)
AttachInv ==
  /\ \A c \in Conn : sent[c] = 0 => inbox[c] = <<>> /\ Untouched(c)
  /\ \A c \in Conn : \A i \in 1 .. Len(inbox[c]) :
       IsAttach(inbox[c][i]) => i = 1 /\ Untouched(c)
  /\ \A i \in 1 .. Len(batch.frames) :
       IsAttach(batch.frames[i]) =>
         i = 1 /\ At = {batch.src} /\ cl[batch.src].leaf = NoLeaf

(* The claim and its holder agree: a session is attached exactly when one     *)
(* connected client holds its writer claim, never two, and it counts the      *)
(* observers that are connected (dispatch_frame, drop_client).                *)
OneWriter    == \A l \in Leaf : \A c, d \in Writers(l) : c = d
ClaimHeld    == \A l \in Leaf : sess[l].attached <=> Writers(l) # {}
ObserverCount == \A l \in Leaf : sess[l].observers = Cardinality(Observers(l))
ClaimInv == OneWriter /\ ClaimHeld /\ ObserverCount

(* What has been sent to a client and not yet been taken in by it.            *)
InFlight(c) == wire[c] \o outbox[c]
Pending(c, l) == InFlight(c) \o outbound[l]
Live(frames) == Only(frames, {"Data", "Delta"})

(* FR-EXIT: a connected writer of a reaped session has learned of the death   *)
(* or will: EXIT is in its socket, its outbox or the session's queue, across  *)
(* detach, reattach, write errors and unclaimed flushes.                      *)
ExitKept ==
  \A l \in Leaf : \A c \in Writers(l) :
    sess[l].childExit /\ st[c] = "open" => mirror[c].exit \/ Exit \in ToSet(Pending(c, l))

(* EXIT never overtakes output: a client that has been told of the death has  *)
(* no live output still to come.                                              *)
ExitLast ==
  \A l \in Leaf : \A c \in Clients(l) : mirror[c].exit => Live(Pending(c, l)) = <<>>

(* Fan-out loses nothing for the protocol-1 writer that paces it: the live    *)
(* chunks on their way to it adjoin each other and end where the PTY was read *)
(* to, however short other clients' windows are.                              *)
WriterUnbroken ==
  \A l \in Leaf : \A c \in Protocol1Writers(l) :
    LET live == Live(InFlight(c)) IN
    live # <<>> => /\ live[Len(live)].to = sess[l].delivered
                  /\ \A i \in 1 .. Len(live) - 1 : live[i].to = live[i + 1].from

(* An observer never writes: no input or resize it sent has reached a PTY,    *)
(* through its own slot of the client table or through another's.             *)
ObserverNeverWrites ==
  \A l, m \in Leaf : \A c \in Observers(l) : \A w \in written[m] : w[1] # c

(* What the specifications and the test plan say, and the attach plane does   *)
(* not always do.                                                             *)

(* SPEC-ATTACH 6: a frame sent without a completed ATTACH closes only that    *)
(* connection; it is never taken for the input of another client, which is    *)
(* who holds the slot once the sender is gone (read_client).                  *)
InputAttributed == \A l \in Leaf : \A w \in written[l] : w[1] = w[2]

(* NFR-DROP: no byte of output is dropped.  Once a child has been reaped its  *)
(* PTY is never read again, so everything must have been read by then.        *)
OutputKept == \A l \in Leaf : sess[l].childExit => sess[l].delivered = out[l]

(* FR-RESYNC, T-ATTACH: once nothing is queued for it a writer's picture is   *)
(* the session's, every byte read from the PTY in order and without a tear,   *)
(* whatever was read before it attached and whoever was attached before.      *)
WriterInSync ==
  \A l \in Leaf : \A c \in Writers(l) :
    Pending(c, l) = <<>> /\ ~ sess[l].resync /\ st[c] = "open"
      => mirror[c].pos = sess[l].delivered /\ ~ mirror[c].torn

(* SPEC-CLIENT-AUTHORITY 4: the grace period of the input lease begins with a *)
(* disconnect: a connected writer's input is not blocked.                     *)
LeaseHeld ==
  \A l \in Leaf : Writers(l) # {} => ~ LeaseBlocksInput(sess[l])

-----------------------------------------------------------------------------
(* A window that stays is shown everything its shell writes, unless the shell *)
(* exits first.                                                               *)
OutputShown ==
  \A c \in Host, n \in 1 .. MaxBytes :
    (cl[c].leaf = DefaultLeaf /\ out[DefaultLeaf] >= n)
      ~> (mirror[c].pos >= n \/ st[c] # "open" \/ dead[DefaultLeaf])

(* Without a protocol-1 writer nobody paces the drain: in a worker, or beside *)
(* protocol-2 clients with no credit, the PTY is still read to its end.       *)
DrainIndependent ==
  \A l \in Leaf, n \in 1 .. MaxBytes :
    (Protocol1Writers(l) = {} /\ FansOut(l) /\ out[l] >= n)
      ~> (sess[l].delivered >= n \/ Protocol1Writers(l) # {} \/ ~ FansOut(l) \/ dead[l])

(* A window that stays learns that its shell has exited. *)
ExitLearned ==
  \A c \in Host :
    (cl[c].leaf = DefaultLeaf /\ dead[DefaultLeaf]) ~> (mirror[c].exit \/ st[c] # "open")
=============================================================================
