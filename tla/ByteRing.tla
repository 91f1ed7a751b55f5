------------------------------ MODULE ByteRing ------------------------------
(***************************************************************************)
(* The bounded byte history of one session (rill-kernel/src/ring.rs) and   *)
(* the recovery pair Session keeps on top of it: one stored VT checkpoint  *)
(* and the retained bytes after it (Session::install_checkpoint and        *)
(* Session::recovery).                                                     *)
(*                                                                         *)
(* data, retained_base and end are the fields of ByteRing.  log is a       *)
(* history variable: every byte appended since new().  The saturating u64  *)
(* arithmetic on offsets is plain arithmetic here: 2^64 bytes of output    *)
(* are out of reach.                                                       *)
(***************************************************************************)
EXTENDS Integers, Sequences

CONSTANTS Byte,      \* the bytes a PTY read can return
          Cap,       \* ByteRing::cap, at least 1 because of cap.max(1)
          MaxChunk,  \* bound: longest slice passed to append
          MaxLog     \* bound: bytes appended in one behaviour

ASSUME CapAssumption == Cap \in Nat \ {0}
ASSUME BoundAssumption == MaxChunk \in Nat /\ MaxLog \in Nat

VARIABLES data, retained_base, end,
          checkpoint,  \* ending_offset of the stored checkpoint, or None
          log          \* history: all bytes appended

ringVars == <<data, retained_base, end, checkpoint, log>>

(* No checkpoint installed (Option::None); real offsets are u64. *)
None == -1

(* CHECKPOINT_FORMAT_VERSION, and versions a host may present. *)
FormatVersion == 1
Versions == 0 .. 2

Chunks == UNION {[1 .. n -> Byte] : n \in 0 .. MaxChunk}

-----------------------------------------------------------------------------
(* A mutant: of a chunk over the capacity the beginning is kept *)
RetainBeginning(held, bytes) ==
  IF Len(bytes) >= Cap THEN SubSeq(bytes, 1, Cap)
  ELSE LET total    == Len(held) + Len(bytes)
           overflow == IF total > Cap THEN total - Cap ELSE 0
       IN  SubSeq(held, overflow + 1, Len(held)) \o bytes

(* The bytes retained after appending bytes to held. *)
Retain(held, bytes) ==
  IF Len(bytes) >= Cap
  THEN SubSeq(bytes, Len(bytes) - Cap + 1, Len(bytes))
  ELSE LET total    == Len(held) + Len(bytes)
           overflow == IF total > Cap THEN total - Cap ELSE 0
       IN  SubSeq(held, overflow + 1, Len(held)) \o bytes

NewRing ==
  /\ data = <<>>
  /\ retained_base = 0
  /\ end = 0
  /\ checkpoint = None
  /\ log = <<>>

(* A mutant: the base is taken from the capacity instead of from what is held *)
AppendBytesFull(bytes) ==
  /\ bytes # <<>>
  /\ end' = end + Len(bytes)
  /\ data' = Retain(data, bytes)
  /\ retained_base' = end' - Cap
  /\ log' = log \o bytes
  /\ UNCHANGED checkpoint

(* ByteRing::append, as Session::drain_pty_at_most and on_pty_readable call it *)
AppendBytes(bytes) ==
  /\ bytes # <<>>
  /\ end' = end + Len(bytes)
  /\ data' = Retain(data, bytes)
  /\ retained_base' = end' - Len(data')
  /\ log' = log \o bytes
  /\ UNCHANGED checkpoint

(* Mutants: the base itself counts as evicted; the first byte is skipped *)
RetainedStrict(start) == retained_base < start /\ start <= end
DeltasAfterSkip(start) == SubSeq(data, start - retained_base + 2, Len(data))

(* ByteRing::deltas_after: Err(CheckpointEvicted) outside the retained range *)
Retained(start) == retained_base <= start /\ start <= end
DeltasAfter(start) == SubSeq(data, start - retained_base + 1, Len(data))

(* Session::install_checkpoint: check_compatible refuses any other format    *)
(* version and leaves the stored one alone; the offset is taken as given.    *)
InstallCheckpoint(version, offset) ==
  /\ version = FormatVersion
  /\ checkpoint' = offset
  /\ UNCHANGED <<data, retained_base, end, log>>

(* Session::recovery: NoCheckpoint and CheckpointEvicted are both errors. *)
Recoverable == checkpoint # None /\ Retained(checkpoint)
Recovery == [offset |-> checkpoint, deltas |-> DeltasAfter(checkpoint)]

RingNext ==
  \/ \E bytes \in Chunks : Len(log) + Len(bytes) <= MaxLog /\ AppendBytes(bytes)
  \/ \E v \in Versions, o \in 0 .. MaxLog : InstallCheckpoint(v, o)

RingSpec == NewRing /\ [][RingNext]_ringVars

-----------------------------------------------------------------------------
(* The fields have their types and agree: never more than the capacity is     *)
(* held, and the offset of the first byte and the count of those that follow  *)
(* add up to end, so that the subtraction in deltas_after is a place in data. *)
RingTypeOK ==
  /\ data \in Seq(Byte)
  /\ log \in Seq(Byte)
  /\ retained_base \in Nat
  /\ end \in Nat
  /\ checkpoint \in Nat \cup {None}
  /\ Len(data) <= Cap
  /\ retained_base + Len(data) = end

(* The ring holds as much as its capacity allows, and its offsets are those of *)
(* the stream: the i-th retained byte is byte retained_base + i of everything *)
(* the child ever wrote (ring.rs: eviction never renumbers surviving bytes).  *)
Suffix ==
  /\ end = Len(log)
  /\ Len(data) = (IF end > Cap THEN Cap ELSE end)
  /\ \A i \in 1 .. Len(data) : data[i] = log[retained_base + i]

(* Recovery loses nothing and repeats nothing: whenever recovery() succeeds,  *)
(* the checkpoint's prefix of the stream followed by the returned deltas is   *)
(* the whole stream, whatever was evicted in between.                         *)
RecoveryExact ==
  Recoverable => SubSeq(log, 1, Recovery.offset) \o Recovery.deltas = log

(* A checkpoint that could be recovered from can become unrecoverable only    *)
(* because bytes it needs were evicted, never because of a later install of a *)
(* refused format or of an append that kept them.                             *)
EvictionOnly ==
  [][ Recoverable /\ ~Recoverable' =>
        \/ checkpoint' # checkpoint
        \/ checkpoint < Len(log') - Cap ]_ringVars
=============================================================================
