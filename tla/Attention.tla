------------------------------ MODULE Attention -----------------------------
(***************************************************************************)
(* The attention queue of rill-orchestrate (attention.rs): what a target   *)
(* asks of the user, capped for each target, read when it is really seen.  *)
(***************************************************************************)
EXTENDS Integers, Sequences, FiniteSets

CONSTANTS
  Targets,
  Cap,          \* cap_per_target
  MinDwell,     \* MIN_DWELL_MS, 250 in the code
  MaxRaised     \* entries ever enqueued

ASSUME AttentionAssumption == {Cap, MinDwell, MaxRaised} \subseteq Nat

VARIABLES
  entries,      \* what is kept, oldest first
  nextId,
  raised,       \* ghost: everything enqueued; the id is the place
  seen          \* ghost: the ids really viewed

attentionVars == <<entries, nextId, raised, seen>>

\* AttentionState, least urgent first.
Urgency ==
  [CompletedUnread |-> 1, Disconnected |-> 2, Failed |-> 3, NeedsInput |-> 4, Approval |-> 5]
States == DOMAIN Urgency
IsActionable(state) == state \in {"NeedsInput", "Approval"}

Of(queue, target) == {n \in DOMAIN queue : queue[n].target = target}
Dropped(queue, n) == SubSeq(queue, 1, n - 1) \o SubSeq(queue, n + 1, Len(queue))
Oldest(places, n) == n \in places /\ \A m \in places : n <= m

\* The cap takes the oldest entry whatever it is.
CappedAny(queue, target) ==
  IF Cardinality(Of(queue, target)) <= Cap THEN queue
  ELSE Dropped(queue, CHOOSE n \in Of(queue, target) : Oldest(Of(queue, target), n))

\* Past the cap the oldest entry of the target that is not actionable goes.
Capped(queue, target) ==
  LET idle == {n \in Of(queue, target) : ~IsActionable(queue[n].state)}
  IN  IF Cardinality(Of(queue, target)) <= Cap \/ idle = {} THEN queue
      ELSE Dropped(queue, CHOOSE n \in idle : Oldest(idle, n))

Enqueue(target, state) ==
  /\ Len(raised) < MaxRaised
  /\ entries' = Capped(Append(entries, [id |-> nextId, target |-> target, state |-> state,
                                        read |-> FALSE]), target)
  /\ nextId' = nextId + 1
  /\ raised' = Append(raised, [target |-> target, state |-> state])
  /\ UNCHANGED seen

\* observe_view: visible, in the key window, and long enough.
ObserveView(id, visible, key, dwell) ==
  /\ visible /\ key /\ dwell >= MinDwell
  /\ \E n \in DOMAIN entries :
       /\ entries[n].id = id /\ ~entries[n].read
       /\ entries' = [entries EXCEPT ![n].read = TRUE]
  /\ seen' = seen \cup {id}
  /\ UNCHANGED <<nextId, raised>>

Unread(target) == {n \in Of(entries, target) : ~entries[n].read}

\* rollup: the most urgent unread state of a target, 0 if there is none.
Rollup(target) ==
  LET levels == {Urgency[entries[n].state] : n \in Unread(target)} \cup {0}
  IN  CHOOSE u \in levels : \A v \in levels : v <= u

\* badge_count, and mailbox_entries, which lists the same entries.
BadgeCount(target) == Cardinality(Unread(target))

AttentionInit == entries = <<>> /\ nextId = 1 /\ raised = <<>> /\ seen = {}

AttentionNext ==
  \/ \E target \in Targets, state \in States : Enqueue(target, state)
  \/ \E id \in 1..MaxRaised, visible, key \in BOOLEAN, dwell \in {MinDwell - 1, MinDwell} :
       ObserveView(id, visible, key, dwell)

AttentionSpec == AttentionInit /\ [][AttentionNext]_attentionVars

Ids(target, actionable) ==
  {i \in DOMAIN raised : raised[i].target = target /\ IsActionable(raised[i].state) = actionable}
Kept == {entries[n].id : n \in DOMAIN entries}

\* What the user must act on is never lost, whatever else is raised (ADR
\* 0029): every approval and every request for input stays, the cap is
\* exceeded by them alone, of the rest the newest are kept, and a target
\* with an unseen one has a badge and rolls up to the most urgent of them.
AttentionKept ==
  \A target \in Targets :
    LET acts == Ids(target, TRUE)
        idle == Ids(target, FALSE)
    IN  /\ acts \subseteq Kept
        /\ Cardinality(Of(entries, target)) > Cap => idle \cap Kept = {}
        /\ \A i \in idle \cap Kept, j \in idle : j > i => j \in Kept
        /\ \A i \in acts \ seen :
             BadgeCount(target) > 0 /\ Rollup(target) >= Urgency[raised[i].state]
        /\ Rollup(target) >= 4 => \E i \in acts \ seen : Rollup(target) = Urgency[raised[i].state]

=============================================================================
