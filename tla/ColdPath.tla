------------------------------ MODULE ColdPath ------------------------------
(***************************************************************************)
(* The cold sockets: a window's content and navigation requests, the       *)
(* control process that splices them to the worker, and the worker that    *)
(* serves them (rill-host content.rs and nav.rs, rilld proxy.rs and the    *)
(* cold part of lib.rs), over the processes of module Startup.             *)
(*                                                                         *)
(* A connection i is one request of one window, in a record conn[i]:       *)
(*                                                                         *)
(*   window (request) -up1-> proxy (a2b) -up2-> worker (input)             *)
(*   window <-down1- proxy (b2a) <-down2- worker (output)                  *)
(*                                                                         *)
(* up1, up2, down1 and down2 are socket buffers, the names in brackets the *)
(* process's own.  A unit stands for a header, an item, the rest of a      *)
(* request, or a word or a leaf of a navigation line: what a read or a     *)
(* write may cut between.                                                  *)
(* What was written to a socket can be read after it was closed; what a    *)
(* process holds when it closes is gone.                                   *)
(***************************************************************************)
EXTENDS Startup, Sequences

CONSTANTS
  Ops,          \* the requests that windows make
  MaxConns,     \* requests ever made
  MaxEvents,    \* requests and starts together
  SockCap,      \* units a socket buffer of a content connection holds
  ReadMax,      \* units one splice of it reads, 8192 bytes in the code
  NavCap,       \* the same two for a navigation connection
  NavMax,       \* units its window reads at once, 512 bytes in the code
  MaxItems,     \* CONTENT_TIMELINE_MAX_ITEMS, 64 in the code
  RespMax       \* units of a response, CONTENT_RESPONSE_MAX in the code

ASSUME ColdAssumption ==
  /\ Ops \subseteq {"submit", "read", "refused", "tab"}
  /\ {MaxConns, MaxEvents, SockCap, ReadMax, NavCap, NavMax, MaxItems, RespMax} \subseteq Nat \ {0}

VARIABLES
  conn,         \* the connections made, in order
  timeline,     \* the content timeline of the default leaf: who submitted
  tabs,         \* the tabs NEW_TAB made: who asked
  answer        \* ghost: what the worker answered on each connection

vars == <<procVars, conn, timeline, tabs, answer>>

\* A request the daemon refuses names an unknown leaf, or is malformed.
Content == Ops \ {"tab"}
Conns == DOMAIN conn
InBudget == Len(conn) + starts < MaxEvents

Shorter(n, m) == IF n < m THEN n ELSE m
Taken(s, n) == SubSeq(s, 1, Shorter(n, Len(s)))
Left(s, n) == SubSeq(s, Shorter(n, Len(s)) + 1, Len(s))
Cap(k) == IF k.op = "tab" THEN NavCap ELSE SockCap
Room(k, buffer) == Cap(k) - Len(buffer)

(***************************************************************************)
(* Messages                                                                *)
(***************************************************************************)

Request == <<"header", "payload">>
Header(n) == [k |-> "head", ok |-> TRUE, n |-> n]
Refusal == <<[k |-> "head", ok |-> FALSE, n |-> 0]>>
Item(seq, by) == [k |-> "item", seq |-> seq, by |-> by]

\* nav_snapshot_line: the workspace, the list of tabs and the first leaf,
\* then the leaf of each tab made.
Ws == [k |-> "ws"]
Leaf(i) == [k |-> "leaf", of |-> i]
NavLine(made) == <<Ws, [k |-> "tabs"]>> \o [n \in 1..Len(made) |-> Leaf(made[n])]

\* parse_nav_line, of the first line that lists tabs or else of all that was
\* read: it must name the workspace, whatever was cut off behind that.
ParseNav(got) ==
  \E n \in DOMAIN got : got[n] = Ws /\ \A m \in 1..n : got[m].k # "tabs"

\* encode_content_snapshot: the oldest items, as many as fit.
EncodeSnapshot(items) ==
  LET n == Shorter(Len(items), RespMax - 1)
  IN  <<Header(n)>> \o [i \in 1..n |-> Item(i, items[i])]

\* A response whose items were cut off is taken for a whole one.
ParseAnyLength(got) == got # <<>> /\ got[1].ok /\ got[1].n <= MaxItems

\* parse_content_snapshot: exactly the items the header counts.
Parse(got) ==
  /\ got # <<>> /\ got[1].ok /\ got[1].n <= MaxItems
  /\ Len(got) = got[1].n + 1

(***************************************************************************)
(* The window                                                              *)
(***************************************************************************)

\* The command is sent at once, and the first line taken for its answer.
FreshUngreeted(op, c) ==
  [op |-> op, home |-> c, client |-> "send",
   request |-> IF op = "tab" THEN <<"NEW_TAB">> ELSE Request, got |-> <<>>,
   up1 |-> <<>>, down1 |-> <<>>,
   pipe |-> "backlog", a2b |-> <<>>, b2a |-> <<>>,
   up2 |-> <<>>, down2 |-> <<>>, serv |-> "none", at |-> None,
   input |-> <<>>, output |-> <<>>, handled |-> FALSE, cut |-> FALSE]

Fresh(op, c) ==
  [op |-> op, home |-> c, client |-> IF op = "tab" THEN "greet" ELSE "send",
   request |-> IF op = "tab" THEN <<"NEW_TAB">> ELSE Request, got |-> <<>>,
   up1 |-> <<>>, down1 |-> <<>>,
   pipe |-> "backlog", a2b |-> <<>>, b2a |-> <<>>,
   up2 |-> <<>>, down2 |-> <<>>, serv |-> "none", at |-> None,
   input |-> <<>>, output |-> <<>>, handled |-> FALSE,
   cut |-> FALSE]    \* ghost: the worker ended with this connection open

Waiting(k) == k.client \in {"greet", "send", "wait"}
Fail(k) == [k EXCEPT !.client = "failed", !.request = <<>>, !.got = <<>>, !.down1 = <<>>]

Open(op) ==
  /\ Len(conn) < MaxConns /\ InBudget /\ PublicAlive
  /\ conn' = Append(conn, Fresh(op, publicPath))
  /\ answer' = Append(answer, <<>>)
  /\ UNCHANGED <<procVars, timeline, tabs>>

Change(i, k) == conn' = [conn EXCEPT ![i] = k]

\* write_all, in as many writes as the socket needs.
Send(i) ==
  LET k == conn[i]
      n == Room(k, k.up1)
  IN  /\ k.client = "send"
      /\ \/ /\ k.pipe # "gone" /\ n > 0
            /\ Change(i, [k EXCEPT !.up1 = @ \o Taken(k.request, n), !.request = Left(@, n),
                            !.client = IF Len(k.request) <= n THEN "wait" ELSE "send"])
         \/ k.pipe = "gone" /\ Change(i, Fail(k))
      /\ UNCHANGED <<procVars, timeline, tabs, answer>>

\* read_to_end, and the parse once the peer has closed.
ReadContent(i) ==
  LET k == conn[i]
  IN  /\ k.op \in Content /\ k.client = "wait"
      /\ \/ /\ k.down1 # <<>>
            /\ Change(i, [k EXCEPT !.got = @ \o k.down1, !.down1 = <<>>])
         \/ /\ k.down1 = <<>> /\ k.pipe = "gone"
            /\ Change(i, IF Parse(k.got) THEN [k EXCEPT !.client = "ok"] ELSE Fail(k))
      /\ UNCHANGED <<procVars, timeline, tabs, answer>>

\* nav_new_tab: a line, the command, a line.  Each line is what one read
\* finds; what it leaves is found by the next.
ReadNav(i) ==
  LET k == conn[i]
      line == Taken(k.down1, NavMax)
  IN  /\ k.op = "tab" /\ k.client \in {"greet", "wait"}
      /\ \/ /\ k.down1 # <<>> /\ ~ParseNav(line)
            /\ Change(i, Fail(k))
         \/ /\ k.down1 # <<>> /\ ParseNav(line) /\ k.client = "greet"
            /\ Change(i, [k EXCEPT !.client = "send", !.down1 = Left(@, NavMax)])
         \/ /\ k.down1 # <<>> /\ ParseNav(line) /\ k.client = "wait"
            /\ Change(i, [k EXCEPT !.client = "ok", !.got = line, !.down1 = <<>>])
         \/ k.down1 = <<>> /\ k.pipe = "gone" /\ Change(i, Fail(k))
      /\ UNCHANGED <<procVars, timeline, tabs, answer>>

\* Two seconds without a byte read, or written.
GiveUp(i) ==
  /\ Waiting(conn[i]) /\ conn[i].pipe # "gone"
  /\ IF conn[i].client = "send" THEN Room(conn[i], conn[i].up1) = 0 ELSE conn[i].down1 = <<>>
  /\ Change(i, Fail(conn[i]))
  /\ UNCHANGED <<procVars, timeline, tabs, answer>>

(***************************************************************************)
(* The proxy.  A pipe that fails is removed with what it holds; what it    *)
(* wrote to the worker can still be read.                                  *)
(***************************************************************************)

Gone(k) ==
  [k EXCEPT !.pipe = "gone", !.home = None, !.a2b = <<>>, !.b2a = <<>>, !.up1 = <<>>, !.down2 = <<>>]

\* run_control accepts, and drops the window if no worker answers.
Accept(i) ==
  /\ conn[i].pipe = "backlog" /\ control[conn[i].home] = "serve"
  /\ Change(i, IF WorkerAlive
               THEN [conn[i] EXCEPT !.pipe = "open", !.serv = "backlog", !.at = workerPath]
               ELSE Gone(conn[i]))
  /\ UNCHANGED <<procVars, timeline, tabs, answer>>

\* The window's end of file goes unnoticed.
EndANever(k) == FALSE
EndA(k) == k.up1 = <<>> /\ ~Waiting(k)
EndB(k) == k.down2 = <<>> /\ k.serv = "gone"

ReadBoth(k) ==
  LET n == IF k.op = "tab" THEN NavCap ELSE ReadMax
  IN  [k EXCEPT !.a2b = @ \o Taken(k.up1, n), !.up1 = Left(@, n),
                !.b2a = @ \o Taken(k.down2, n), !.down2 = Left(@, n)]

\* What does not fit is dropped.
WriteALossy(k) ==
  [k EXCEPT !.down1 = @ \o Taken(k.b2a, Room(k, @)), !.b2a = <<>>]

\* write_outbox: what fits is written, the rest stays queued.
WriteB(k) ==
  [k EXCEPT !.up2 = @ \o Taken(k.a2b, Room(k, @)), !.a2b = Left(@, Room(k, k.up2))]
WriteA(k) ==
  [k EXCEPT !.down1 = @ \o Taken(k.b2a, Room(k, @)), !.b2a = Left(@, Room(k, k.down1))]

WriteFailsB(k) == k.a2b # <<>> /\ k.serv = "gone"
WriteFailsA(k) == k.b2a # <<>> /\ ~Waiting(k)
TooMuch(k) == k.op \in Content /\ (Len(k.a2b) > Len(Request) \/ Len(k.b2a) > RespMax)

Spliced(k) ==
  CASE TooMuch(k) \/ WriteFailsB(k) -> Gone(k)
    [] ~TooMuch(k) /\ ~WriteFailsB(k) /\ WriteFailsA(k) -> Gone(WriteB(k))
    [] OTHER -> WriteA(WriteB(k))

\* splice and splice_content: an end of file on either side ends the pipe.
Splice(i) ==
  LET k == conn[i]
      l == IF EndA(k) \/ EndB(k) THEN Gone(k) ELSE Spliced(ReadBoth(k))
  IN  /\ k.pipe = "open" /\ l # k
      /\ Change(i, l)
      /\ UNCHANGED <<procVars, timeline, tabs, answer>>

(***************************************************************************)
(* The worker                                                              *)
(***************************************************************************)

Removed(k) ==
  [k EXCEPT !.serv = "gone", !.at = None, !.input = <<>>, !.output = <<>>, !.up2 = <<>>]

\* accept_cold_content; accept_cold_nav writes the snapshot at once, and
\* waits until the proxy has made room for it.
ServeAccept(i) ==
  LET k == conn[i]
  IN  /\ k.serv = "backlog"
      /\ Change(i, [k EXCEPT !.serv = "open",
                      !.down2 = IF k.op = "tab" /\ k.pipe # "gone" THEN NavLine(tabs) ELSE <<>>])
      /\ UNCHANGED <<procVars, timeline, tabs, answer>>

\* decode_content_request: a request can be refused before it is whole.
Complete(k) ==
  \/ Len(k.input) = Len(Request)
  \/ k.op = "refused" /\ k.input # <<>>

\* content_response: what it appends, and what it answers.
Appends(k) == k.op = "submit" /\ Len(timeline) < MaxItems
Respond(k, items) ==
  IF k.op = "refused" \/ (k.op = "submit" /\ ~Appends(k))
  THEN Refusal ELSE EncodeSnapshot(items)

\* The rest of poll_content_commands: write, and close once all is written.
Flushed(k) ==
  LET n == Room(k, k.down2)
      l == [k EXCEPT !.down2 = @ \o Taken(k.output, n), !.output = Left(@, n)]
  IN  IF k.pipe = "gone" THEN Removed(k) ELSE IF l.output = <<>> THEN Removed(l) ELSE l

\* The request is answered again while its answer waits for room.
AnswerContentAgain(i) ==
  LET k == [conn[i] EXCEPT !.input = IF conn[i].handled THEN @ ELSE @ \o conn[i].up2, !.up2 = <<>>]
      items == IF Appends(k) THEN Append(timeline, i) ELSE timeline
  IN  /\ k.op \in Content /\ k.serv = "open"
      /\ k.pipe # "gone" /\ Complete(k)
      /\ timeline' = items
      /\ answer' = [answer EXCEPT ![i] = Respond(k, items)]
      /\ Change(i, Flushed([k EXCEPT !.handled = TRUE, !.output = IF k.handled THEN @ ELSE answer'[i]]))
      /\ UNCHANGED <<procVars, tabs>>

AnswerContent(i) ==
  LET k == [conn[i] EXCEPT !.input = @ \o conn[i].up2, !.up2 = <<>>]
      items == IF Appends(k) THEN Append(timeline, i) ELSE timeline
  IN  /\ k.op \in Content /\ k.serv = "open" /\ ~k.handled
      /\ k.pipe # "gone" /\ Complete(k)
      /\ timeline' = items
      /\ answer' = [answer EXCEPT ![i] = Respond(k, items)]
      /\ Change(i, Flushed([k EXCEPT !.handled = TRUE, !.output = answer'[i]]))
      /\ UNCHANGED <<procVars, tabs>>

\* An incomplete request waits; at end of file even a complete one is dropped.
PollContent(i) ==
  LET k == [conn[i] EXCEPT !.input = @ \o conn[i].up2, !.up2 = <<>>]
  IN  /\ k.op \in Content /\ k.serv = "open" /\ ~k.handled
      /\ \/ k.pipe = "gone" /\ Change(i, Removed(k))
         \/ k.pipe # "gone" /\ ~Complete(k) /\ k # conn[i] /\ Change(i, k)
      /\ UNCHANGED <<procVars, timeline, tabs, answer>>

FlushContent(i) ==
  LET k == conn[i]
  IN  /\ k.op \in Content /\ k.serv = "open" /\ k.handled
      /\ Flushed(k) # k
      /\ Change(i, Flushed(k))
      /\ UNCHANGED <<procVars, timeline, tabs, answer>>

\* poll_nav_commands: one read, answered or not, ends the connection.
PollNav(i) ==
  LET k == conn[i]
  IN  /\ k.op = "tab" /\ k.serv = "open"
      /\ \/ /\ k.up2 # <<>>
            /\ tabs' = Append(tabs, i)
            /\ answer' = [answer EXCEPT ![i] = NavLine(tabs')]
            /\ Change(i, Removed([k EXCEPT !.down2 = IF k.pipe = "gone" THEN <<>> ELSE @ \o answer'[i]]))
         \/ /\ k.up2 = <<>> /\ k.pipe = "gone"
            /\ Change(i, Removed(k))
            /\ UNCHANGED <<tabs, answer>>
      /\ UNCHANGED <<procVars, timeline>>

(***************************************************************************)
(* Processes that end close their connections, and a worker takes the      *)
(* timeline and the tabs with it.                                          *)
(***************************************************************************)

ControlDies(c) ==
  /\ KillControl(c)
  /\ conn' = [i \in Conns |-> IF conn[i].home = c THEN Gone(conn[i]) ELSE conn[i]]
  /\ UNCHANGED <<timeline, tabs, answer>>

WorkerDies(w) ==
  /\ \E clean \in BOOLEAN : EndWorker(w, clean)
  /\ conn' = [i \in Conns |-> IF conn[i].at = w THEN [Removed(conn[i]) EXCEPT !.cut = TRUE] ELSE conn[i]]
  /\ IF worker[w] = "serve" THEN timeline' = <<>> /\ tabs' = <<>>
                            ELSE UNCHANGED <<timeline, tabs>>
  /\ UNCHANGED answer

Init ==
  /\ StartupInit
  /\ conn = <<>> /\ timeline = <<>> /\ tabs = <<>> /\ answer = <<>>

Window(i) == Send(i) \/ ReadContent(i) \/ ReadNav(i) \/ GiveUp(i)
Proxy(i) == Accept(i) \/ Splice(i)
Worker(i) ==
  ServeAccept(i) \/ AnswerContent(i) \/ PollContent(i) \/ FlushContent(i) \/ PollNav(i)
Step(i) == Window(i) \/ Proxy(i) \/ Worker(i)
Process(c) ==
  /\ (InBudget /\ StartControl(c)) \/ ControlStep(c) \/ WorkerMissing(c) \/ WorkerStep(c)
  /\ UNCHANGED <<conn, timeline, tabs, answer>>

Next ==
  \/ \E c \in Controls : Process(c) \/ ControlDies(c) \/ WorkerDies(c)
  \/ \E op \in Ops : Open(op)
  \/ \E i \in Conns : Step(i)

\* While something of a connection can be done it is done: the window's
\* timeouts fire, and the loops of run_control and Daemon::run come round
\* to it.
Fairness == \A i \in 1..MaxConns : WF_vars(i \in Conns /\ Step(i))

Spec == Init /\ [][Next]_vars /\ Fairness

(***************************************************************************)
(* Properties                                                              *)
(***************************************************************************)

\* A window takes a content response only if it is the whole answer to its
\* own request: however the sockets cut it, whichever side closes first and
\* whichever process dies, parse_content_snapshot refuses what was cut.
AnswerWhole ==
  \A i \in Conns :
    conn[i].op \in Content /\ conn[i].client = "ok" => conn[i].got = answer[i]

\* The splice keeps a stream whole: while a content pipe is open, what the
\* window has, what lies in the two sockets and in the proxy, and what the
\* worker has still to write are together the answer, in order (proxy.rs,
\* read_into: a read is never discarded because the peer is not writable);
\* and a request that is not yet with the worker is still under way.
StreamWhole ==
  \A i \in Conns : LET k == conn[i]
    IN  k.op \in Content /\ k.pipe = "open" /\ ~k.cut /\ Waiting(k) =>
          /\ k.got \o k.down1 \o k.b2a \o k.down2 \o k.output = answer[i]
          /\ k.serv \in {"backlog", "open"} /\ ~k.handled =>
               k.input \o k.up2 \o k.a2b \o k.up1 \o k.request = Request

\* A submission is recorded at most once, and one its window saw accepted is
\* in the timeline it was given, unless older items filled the response.  A
\* retry is a new submission.
RecordedOnce ==
  /\ \A n, m \in DOMAIN timeline : timeline[n] = timeline[m] => n = m
  /\ \A i \in Conns :
       conn[i].op = "submit" /\ conn[i].client = "ok" =>
         \/ \E n \in DOMAIN conn[i].got : conn[i].got[n] = Item(n - 1, i)
         \/ Len(conn[i].got) = RespMax

\* A worker that serves keeps its path until it ends: no other worker, and
\* no control, unlinks the socket of the one that holds the shells
\* (Daemon::bind takes its lock before anything is unlinked).
WorkerKept ==
  [][\A w \in Controls :
       worker[w] = "serve" /\ worker'[w] = "serve" => workerPath = w /\ workerPath' = w]_vars

\* A request is carried out at most once, over late answers, dead windows and
\* workers that end, and its window is told of success only after it was; the
\* greeting of a navigation connection is never taken for its answer.  Module
\* ColdRequest says so without sockets, proxies and processes.
asked == [i \in 1..MaxConns |-> IF i \in Conns THEN conn[i].op ELSE "none"]
Knows(k) == IF Waiting(k) THEN "waiting" ELSE k.client
told == [i \in 1..MaxConns |-> IF i \in Conns THEN Knows(conn[i]) ELSE "none"]
done == [i \in 1..MaxConns |->
           IF i \notin Conns \/ answer[i] = <<>> THEN "no"
           ELSE IF answer[i] = Refusal THEN "refused" ELSE "yes"]
Promise == INSTANCE ColdRequest WITH MaxRequests <- MaxConns
ImplementsColdRequest == Promise!Spec

Ended(k) == ~Waiting(k) /\ k.pipe = "gone" /\ k.serv \in {"none", "gone"}

\* Nothing is leaked: every request comes to an end for its window, and then
\* the pipe of the control and the connection of the worker end too.
ConnectionsEnd ==
  \A i \in 1..MaxConns : (i \in Conns) ~> (i \in Conns /\ Ended(conn[i]))

=============================================================================
