-------------------------------- MODULE Task --------------------------------
(***************************************************************************)
(* The agent task of rill-orchestrate (task.rs): an append-only log of     *)
(* sections, approvals and questions that block it until they are decided  *)
(* or answered, forks of a prefix, the queue of follow-up prompts, and the *)
(* document both are saved in.                                             *)
(*                                                                         *)
(* Of a section's content only the marker it starts with is kept: the      *)
(* index i of "[answers #i]", or NoMark.  Two ghosts ride on a section:    *)
(* `born', its number among all ever appended, the same in every copy that *)
(* a fork or a restart makes, and `by', whether answer() wrote its content *)
(* or a caller did.                                                        *)
(***************************************************************************)
EXTENDS Integers, Sequences, FiniteSets

CONSTANTS
  Tasks,        \* task ids
  First,        \* the one that exists at the start
  Tags,         \* tags an adapter emits
  Decisions,    \* ApprovalDecision
  Prompts,
  MaxMark,      \* the last index whose marker a caller writes
  MaxSections, MaxQueue,
  MaxOps        \* operations in all

ASSUME TaskAssumption ==
  /\ First \in Tasks
  /\ Decisions \subseteq {"Approved", "Rejected", "Cancelled"}
  /\ {MaxSections, MaxQueue, MaxMark, MaxOps} \subseteq Nat

VARIABLES
  tasks,        \* a task, or NoTask
  queue,        \* the PromptQueue of each task
  saved,        \* the document each task was last saved in, or NoDoc
  ops,
  births,       \* ghost: sections ever appended
  resolved      \* ghost: the gates somebody decided or answered, by birth

taskVars == <<tasks, queue, saved, ops, births, resolved>>

NoMark == -1
NoTask == [next |-> -1]
NoDoc == [next |-> -1]
Live == {t \in Tasks : tasks[t] # NoTask}

(***************************************************************************)
(* SectionKind and its tags                                                *)
(***************************************************************************)

TagOf ==
  [Prompt |-> "prompt", Plan |-> "plan", Tool |-> "tool", Command |-> "command",
   Output |-> "output", Approval |-> "approval", Diff |-> "diff", Result |-> "result",
   Question |-> "question"]

\* A name copied from another kind.
AsStrCopied(kind) == IF kind = "Question" THEN "prompt" ELSE TagOf[kind]
AsStr(kind) == TagOf[kind]

\* A tag it cannot map becomes Output.
FromTag(tag) ==
  IF \E kind \in DOMAIN TagOf : TagOf[kind] = tag
  THEN CHOOSE kind \in DOMAIN TagOf : TagOf[kind] = tag
  ELSE "Output"

(***************************************************************************)
(* Task                                                                    *)
(***************************************************************************)

NewTask == [next |-> 0, sections |-> <<>>, decisions |-> <<>>]

Found(task, i) == {n \in DOMAIN task.sections : task.sections[n].index = i}

Appended(task, kind, mark, by) ==
  [task EXCEPT !.next = @ + 1,
     !.sections = Append(@, [index |-> task.next, kind |-> kind, mark |-> mark, closed |-> FALSE,
                             born |-> births, by |-> by])]

Closed(task, i) ==
  [task EXCEPT !.sections = [n \in DOMAIN @ |->
     IF n \in Found(task, i) THEN [@[n] EXCEPT !.closed = TRUE] ELSE @[n]]]

\* Any answer will do.
HasAnyAnswer(task, i) == \E n \in DOMAIN task.sections : task.sections[n].mark # NoMark

\* has_answer: some section starts with the marker, whoever wrote it.
HasAnswer(task, i) == \E n \in DOMAIN task.sections : task.sections[n].mark = i

Gates(task) == {n \in DOMAIN task.sections : task.sections[n].kind \in {"Approval", "Question"}}
Newest(task, n) == n \in Gates(task) /\ \A m \in Gates(task) : m <= n

Unresolved(task, s) ==
  IF s.kind = "Approval" THEN s.index \notin DOMAIN task.decisions ELSE ~HasAnswer(task, s.index)

\* is_blocked: the newest approval or question is unresolved.
IsBlocked(task) ==
  \E n \in Gates(task) : Newest(task, n) /\ Unresolved(task, task.sections[n])

\* The sections at the given places, in their order.
Filtered(sections, places) ==
  [n \in 1..Cardinality(places) |->
     sections[CHOOSE p \in places : Cardinality({q \in places : q <= p}) = n]]

\* The sections whose index is not past the cut.
UpTo(task, cut) == {n \in DOMAIN task.sections : task.sections[n].index <= cut}

\* The decisions past the cut come along.
ForkKeepsDecisions(task, cut) ==
  LET kept == Filtered(task.sections, UpTo(task, cut))
  IN  [task EXCEPT !.sections = kept,
         !.next = IF kept = <<>> THEN 0 ELSE kept[Len(kept)].index + 1]

\* fork: the sections and the decisions up to the cut.
Forked(task, cut) ==
  LET kept == Filtered(task.sections, UpTo(task, cut))
  IN  [sections |-> kept,
       next |-> IF kept = <<>> THEN 0 ELSE kept[Len(kept)].index + 1,
       decisions |-> [i \in {j \in DOMAIN task.decisions : j <= cut} |-> task.decisions[i]]]

(***************************************************************************)
(* The saved document                                                      *)
(***************************************************************************)

DecisionToStr(d) == CASE d = "Approved" -> "approved" [] d = "Rejected" -> "rejected" [] OTHER -> "cancelled"
DecisionFromStr(s) == CASE s = "approved" -> "Approved" [] s = "rejected" -> "Rejected" [] OTHER -> "Cancelled"

\* persist_task_and_queue: kinds and decisions as their names.
Document(task, prompts) ==
  [next |-> task.next,
   section |-> [n \in DOMAIN task.sections |->
                  [task.sections[n] EXCEPT !.kind = AsStr(@)]],
   decision |-> {[section_index |-> i, decision |-> DecisionToStr(task.decisions[i])] :
                   i \in DOMAIN task.decisions},
   queue |-> prompts]

\* restore_task_and_queue: a text that does not parse gives a new task.
Restored(doc) ==
  IF doc = NoDoc THEN [task |-> NewTask, queue |-> <<>>]
  ELSE [task |-> [next |-> doc.next,
                  sections |-> [n \in DOMAIN doc.section |->
                                  [doc.section[n] EXCEPT !.kind = FromTag(@)]],
                  decisions |-> [i \in {e.section_index : e \in doc.decision} |->
                    DecisionFromStr((CHOOSE e \in doc.decision : e.section_index = i).decision)]],
        queue |-> doc.queue]

(***************************************************************************)
(* Operations                                                              *)
(***************************************************************************)

Op == ops < MaxOps /\ ops' = ops + 1
Room(t) == Len(tasks[t].sections) < MaxSections
Becomes(t, task) == tasks' = [tasks EXCEPT ![t] = task]

\* append, called by a provider or by ReplayAdapter::drive.
AppendSection(t, tag, mark) ==
  /\ Op /\ Room(t)
  /\ Becomes(t, Appended(tasks[t], FromTag(tag), mark, "caller"))
  /\ births' = births + 1
  /\ UNCHANGED <<queue, saved, resolved>>

\* A closed section is edited too.
MutateClosed(t, n, mark) ==
  /\ Op /\ tasks[t].sections[n].mark # mark
  /\ Becomes(t, [tasks[t] EXCEPT !.sections[n] = [@ EXCEPT !.mark = mark, !.by = "caller"]])
  /\ UNCHANGED <<queue, saved, resolved, births>>

MutateContent(t, n, mark) ==
  /\ Op /\ ~tasks[t].sections[n].closed /\ tasks[t].sections[n].mark # mark
  /\ Becomes(t, [tasks[t] EXCEPT !.sections[n] = [@ EXCEPT !.mark = mark, !.by = "caller"]])
  /\ UNCHANGED <<queue, saved, resolved, births>>

\* decide: a second decision replaces the first.
Decide(t, n, d) ==
  LET s == tasks[t].sections[n]
      i == s.index
      decided == [j \in DOMAIN tasks[t].decisions \cup {i} |->
                    IF j = i THEN d ELSE tasks[t].decisions[j]]
  IN  /\ Op /\ s.kind = "Approval"
      /\ Becomes(t, Closed([tasks[t] EXCEPT !.decisions = decided], i))
      /\ resolved' = resolved \cup {s.born}
      /\ UNCHANGED <<queue, saved, births>>

\* answer: a Result that starts with the marker, and the question is closed.
Answer(t, n) ==
  LET s == tasks[t].sections[n]
  IN  /\ Op /\ Room(t) /\ s.kind = "Question"
      /\ Becomes(t, Closed(Appended(tasks[t], "Result", s.index, "answer"), s.index))
      /\ births' = births + 1
      /\ resolved' = resolved \cup {s.born}
      /\ UNCHANGED <<queue, saved>>

Fork(t, new, cut) ==
  /\ Op /\ new \notin Live
  /\ Becomes(new, Forked(tasks[t], cut))
  /\ UNCHANGED <<queue, saved, resolved, births>>

Push(t, prompt) ==
  /\ Op /\ Len(queue[t]) < MaxQueue
  /\ queue' = [queue EXCEPT ![t] = Append(@, prompt)]
  /\ UNCHANGED <<tasks, saved, resolved, births>>

TrySend(t) ==
  /\ Op /\ ~IsBlocked(tasks[t]) /\ queue[t] # <<>>
  /\ queue' = [queue EXCEPT ![t] = Tail(@)]
  /\ UNCHANGED <<tasks, saved, resolved, births>>

Persist(t) ==
  /\ Op
  /\ saved' = [saved EXCEPT ![t] = Document(tasks[t], queue[t])]
  /\ UNCHANGED <<tasks, queue, resolved, births>>

\* The window starts again, from what was saved last.
Restart(t) ==
  /\ Op
  /\ Becomes(t, Restored(saved[t]).task)
  /\ queue' = [queue EXCEPT ![t] = Restored(saved[t]).queue]
  /\ UNCHANGED <<saved, resolved, births>>

TaskInit ==
  /\ tasks = [t \in Tasks |-> IF t = First THEN NewTask ELSE NoTask]
  /\ queue = [t \in Tasks |-> <<>>]
  /\ saved = [t \in Tasks |-> NoDoc]
  /\ ops = 0 /\ births = 0 /\ resolved = {}

Marks == {NoMark} \cup 0..MaxMark

TaskNext ==
  \E t \in Live :
    \/ \E tag \in Tags, mark \in Marks : AppendSection(t, tag, mark)
    \/ \E n \in DOMAIN tasks[t].sections :
         \/ \E mark \in Marks : MutateContent(t, n, mark)
         \/ \E d \in Decisions : Decide(t, n, d)
         \/ Answer(t, n)
    \/ \E new \in Tasks, cut \in 0..(MaxSections - 1) : Fork(t, new, cut)
    \/ \E prompt \in Prompts : Push(t, prompt)
    \/ TrySend(t) \/ Persist(t) \/ Restart(t)

TaskSpec == TaskInit /\ [][TaskNext]_taskVars

(***************************************************************************)
(* Properties                                                              *)
(***************************************************************************)

\* An index names one section for good: through appends, forks and restarts
\* the index of a section is its place in the log, the next index its length,
\* and a decision belongs to a closed approval of the same log.
IndexedLog ==
  \A t \in Live : LET task == tasks[t]
    IN  /\ task.next = Len(task.sections)
        /\ \A n \in DOMAIN task.sections : task.sections[n].index = n - 1
        /\ \A i \in DOMAIN task.decisions :
             i < task.next /\ task.sections[i + 1].kind = "Approval" /\ task.sections[i + 1].closed

\* Nothing is approved by itself (SPEC-TASK 4): when the newest gate of a
\* task no longer blocks it, that very gate was decided or answered, in this
\* task or in the one it was copied from, or a caller wrote the marker that
\* answers it into a section.  A fork or a restart brings no decision to an
\* approval that was asked for later under the same index.
NoSilentApproval ==
  \A t \in Live, n \in 1..MaxSections :
    Newest(tasks[t], n) /\ ~IsBlocked(tasks[t]) =>
      LET s == tasks[t].sections[n]
      IN  \/ s.born \in resolved
          \/ /\ s.kind = "Question"
             /\ \E m \in DOMAIN tasks[t].sections :
                  tasks[t].sections[m].mark = s.index /\ tasks[t].sections[m].by = "caller"

\* A closed section is never changed, dropped or opened again (SPEC-TASK 3),
\* in the task itself or through a fork of it; only a restart goes back to
\* the log that was saved.
ClosedKept ==
  [][\A t \in Live : \A n \in DOMAIN tasks[t].sections :
       tasks[t].sections[n].closed =>
         \/ tasks'[t] = Restored(saved[t]).task
         \/ /\ n \in DOMAIN tasks'[t].sections
            /\ tasks'[t].sections[n] = tasks[t].sections[n]]_taskVars

\* A restart loses nothing that was saved (SPEC-TASK 1): whatever task and
\* queue are saved, restoring the document gives them back, so that a task
\* saved while it was blocked is still blocked, on the same gate.
RestartExact ==
  \A t \in Live : Restored(Document(tasks[t], queue[t])) = [task |-> tasks[t], queue |-> queue[t]]

=============================================================================
