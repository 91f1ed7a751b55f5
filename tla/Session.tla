------------------------------ MODULE Session -------------------------------
(***************************************************************************)
(* One terminal session of the kernel (rill-kernel/src/session.rs) as pure *)
(* operators on its record: what each method leaves in the fields and      *)
(* which frames it pushes on the outbound queue.                           *)
(*                                                                         *)
(* PTY output is counted, not stored: the bytes a child writes are         *)
(* numbered from 1 and a chunk is the half-open range (from, to].  What    *)
(* the ring keeps of them is module ByteRing.  pending_input is not a      *)
(* field: on_frame queues one buffer and flushes it before it returns.     *)
(***************************************************************************)
EXTENDS Integers, Sequences

(* Frames the kernel sends.  A repaint is an ordinary DATA frame whose bytes  *)
(* redraw the screen as of offset upto; a CHECKPOINT carries that screen.     *)
DataFrame(from, to)  == [t |-> "Data", from |-> from, to |-> to]
DeltaFrame(from, to) == [t |-> "Delta", from |-> from, to |-> to]
Paint(upto)          == [t |-> "Paint", upto |-> upto]
Checkpoint(upto)     == [t |-> "Checkpoint", upto |-> upto]
Exit                 == [t |-> "Exit"]
Refused(reason)      == [t |-> "Refused", reason |-> reason]

FrameKinds == {"Data", "Delta", "Paint", "Checkpoint", "Exit", "Refused"}

(* The frames of the given kinds, in their order *)
Only(frames, kinds) ==
  LET kept[i \in 0 .. Len(frames)] ==
        IF i = 0 THEN <<>>
        ELSE IF frames[i].t \in kinds THEN Append(kept[i - 1], frames[i])
        ELSE kept[i - 1]
  IN  kept[Len(frames)]

(* retain(|f| !matches!(f, Frame::Data(_))); a repaint is DATA too *)
Control(frames) == Only(frames, FrameKinds \ {"Data", "Paint"})

-----------------------------------------------------------------------------
Sessions ==
  [attached : BOOLEAN, credit : Nat, childExit : BOOLEAN, resync : BOOLEAN,
   observers : Nat, delivered : Nat, leased : BOOLEAN, nonce : Nat,
   until : {"none", "running", "due"}]

(* attached stands for attach_generation.is_some(), leased for               *)
(* lease_generation > 0; until is the lease clock: not set, running or due.  *)
SpawnConfigured ==
  [attached |-> FALSE, credit |-> 0, childExit |-> FALSE, resync |-> FALSE,
   observers |-> 0, delivered |-> 0, leased |-> FALSE, nonce |-> 0,
   until |-> "none"]

HasListeners(s) == s.attached \/ s.observers > 0

ReleaseObserver(s) ==
  [s EXCEPT !.observers = IF @ > 0 THEN @ - 1 ELSE 0]

(* detach also drops queued DATA: see OutboundAfterDrop in module Daemon.     *)
(* Only tests of the kernel spawn a session that detach would kill.           *)
Detach(s) == [s EXCEPT !.attached = FALSE, !.credit = 0]

TakeInputLease(s, nonce) ==
  [s EXCEPT !.leased = TRUE, !.nonce = nonce, !.until = "running"]

ExpireInputLeaseIfDue(s) ==
  IF s.until = "due" THEN [s EXCEPT !.nonce = 0, !.until = "none"] ELSE s

(* lease_blocks_input expires the lease first; its answer is for that state *)
LeaseBlocksInput(s) ==
  LET e == ExpireInputLeaseIfDue(s) IN e.leased /\ e.nonce = 0

(* A mutant: the reaper tells nobody *)
PollChildOutSilent(s, dead) == <<>>

(* poll_child: EXIT is queued only if someone is listening *)
PollChild(s, dead) == [s EXCEPT !.childExit = @ \/ dead]
PollChildOut(s, dead) ==
  IF dead /\ ~ s.childExit /\ HasListeners(s) THEN <<Exit>> ELSE <<>>

(* A mutant: a new writer is not told of an earlier death *)
OnAttachOutSilent(s, f) ==
  IF ~ f.observe /\ s.attached THEN <<Refused("AlreadyAttached")>> ELSE <<>>

(* on_frame, ATTACH.  A writer ATTACH on a claimed session is answered on the *)
(* session's own queue, the one every client of the session is served from.   *)
OnAttach(s, f) ==
  IF f.observe THEN [s EXCEPT !.observers = @ + 1]
  ELSE IF s.attached THEN s
  ELSE TakeInputLease([s EXCEPT !.attached = TRUE, !.resync = TRUE], f.gen)
OnAttachOut(s, f) ==
  IF f.observe THEN <<>>
  ELSE IF s.attached THEN <<Refused("AlreadyAttached")>>
  ELSE IF s.childExit THEN <<Exit>> ELSE <<>>

(* A mutant: the grant never reaches the session *)
OnCreditIgnored(s, n) == s

(* on_frame, CREDIT *)
OnCredit(s, n) == [s EXCEPT !.credit = @ + n]

(* on_frame, DATA and RESIZE: whether the frame reaches the PTY, and what the *)
(* attempt leaves behind (the expired lease).  A dead child refuses DATA      *)
(* before the lease is looked at; RESIZE still sets the window size.          *)
AcceptsData(s)   == ~ s.childExit /\ ~ LeaseBlocksInput(s)
AcceptsResize(s) == ~ LeaseBlocksInput(s)
AfterData(s)     == IF s.childExit THEN s ELSE ExpireInputLeaseIfDue(s)
AfterResize(s)   == ExpireInputLeaseIfDue(s)

(* How many bytes one read takes from a PTY that has written out bytes, given *)
(* a window: drain_pty_at_most and on_pty_readable.                           *)
ReadSize(s, out, window, readBuf) ==
  LET avail == out - s.delivered
      cap   == IF window < readBuf THEN window ELSE readBuf
  IN  IF avail < cap THEN avail ELSE cap

(* on_pty_readable: the session's own credit is the window *)
OnPtyReadable(s, got) == [s EXCEPT !.credit = @ - got, !.delivered = @ + got]
OnPtyReadableOut(s, got) ==
  IF HasListeners(s) THEN <<DataFrame(s.delivered, s.delivered + got)>> ELSE <<>>

(* drain_pty_at_most: the session's credit is not charged *)
DrainPtyAtMost(s, got) == [s EXCEPT !.delivered = @ + got]
=============================================================================
