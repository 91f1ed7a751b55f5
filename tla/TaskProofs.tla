----------------------------- MODULE TaskProofs -----------------------------
(***************************************************************************)
(* Theorems about the agent task, for any tasks, tags, prompts and bounds: *)
(* an index names one section for good, nothing is approved by itself, a   *)
(* closed section stays as it is, and a restart gives back what was saved. *)
(***************************************************************************)
EXTENDS Task, SequenceTheorems, FiniteSetTheorems, TLAPS

SectionRecs ==
  [index : Nat, kind : DOMAIN TagOf, mark : Int, closed : BOOLEAN, born : Nat,
   by : {"caller", "answer"}]
DecisionMaps == UNION {[D -> Decisions] : D \in SUBSET Nat}
TaskRecs == [next : Nat, sections : Seq(SectionRecs), decisions : DecisionMaps]

\* The index of a section is its place, and the next index the length.
Placed(task) ==
  /\ task.next = Len(task.sections)
  /\ \A n \in 1..Len(task.sections) : task.sections[n].index = n - 1

\* A decision belongs to a closed approval of the log, which somebody decided.
Decided(task, done) ==
  \A i \in DOMAIN task.decisions :
    /\ i < task.next
    /\ task.sections[i + 1].kind = "Approval"
    /\ task.sections[i + 1].closed
    /\ task.sections[i + 1].born \in done

\* What answer() wrote answers an earlier question of the log, which was
\* resolved by it.
Answered(task, done) ==
  \A n \in 1..Len(task.sections) : LET i == task.sections[n].mark
    IN  task.sections[n].by = "answer" =>
          /\ i \in 0..(n - 2)
          /\ task.sections[i + 1].kind = "Question"
          /\ task.sections[i + 1].born \in done

\* A log with one section closed.
WithClosed(S, n) == [S EXCEPT ![n] = [@ EXCEPT !.closed = TRUE]]

Sound(task, done) ==
  task \in TaskRecs /\ Placed(task) /\ Decided(task, done) /\ Answered(task, done)

\* The inductive invariant: every task is sound, and so is every saved one.
TaskInv ==
  /\ births \in Nat /\ ops \in Nat
  /\ tasks \in [Tasks -> TaskRecs \cup {NoTask}]
  /\ queue \in [Tasks -> Seq(Prompts)]
  /\ DOMAIN saved = Tasks
  /\ \A t \in Live : Sound(tasks[t], resolved)
  /\ \A t \in Tasks : saved[t] # NoDoc =>
       \E task \in TaskRecs, prompts \in Seq(Prompts) :
         Sound(task, resolved) /\ saved[t] = Document(task, prompts)

-----------------------------------------------------------------------------
(* The kinds, the decisions and their names. *)
LEMMA TagDomain ==
  DOMAIN TagOf = {"Prompt", "Plan", "Tool", "Command", "Output", "Approval", "Diff", "Result",
                  "Question"}
  BY DEF TagOf

(* No two kinds have the same tag (SectionKind::as_str), so from_tag undoes it. *)
LEMMA TagsBack ==
  ASSUME NEW kind \in DOMAIN TagOf
  PROVE  FromTag(AsStr(kind)) = kind
<1>1. \A a, b \in DOMAIN TagOf : TagOf[a] = TagOf[b] => a = b
  BY TagDomain DEF TagOf
<1> QED
  BY <1>1 DEF FromTag, AsStr

(* A tag it cannot map is Output: from_tag always gives a kind. *)
LEMMA FromTagKind == \A tag : FromTag(tag) \in DOMAIN TagOf
  BY TagDomain DEF FromTag

LEMMA DecisionsBack ==
  ASSUME NEW d \in Decisions
  PROVE  DecisionFromStr(DecisionToStr(d)) = d
  BY TaskAssumption DEF DecisionFromStr, DecisionToStr

LEMMA EmptyDecisions == <<>> \in DecisionMaps /\ DOMAIN <<>> = {}
<1>1. <<>> \in Seq(Decisions) /\ Len(<<>>) = 0
  BY EmptySeq
<1>2. <<>> \in [1..0 -> Decisions]
  BY <1>1, LenProperties
<1>3. 1..0 = {}
  OBVIOUS
<1>4. <<>> \in [{} -> Decisions]
  BY <1>2, <1>3
<1> QED
  BY <1>4 DEF DecisionMaps

LEMMA NewTaskSound == ASSUME NEW done PROVE Sound(NewTask, done)
  BY EmptyDecisions DEF Sound, TaskRecs, NewTask, Placed, Decided, Answered

-----------------------------------------------------------------------------
(* What a task is restored to after it was saved (persist_task_and_queue,   *)
(* restore_task_and_queue).                                                 *)
LEMMA SectionBack ==
  ASSUME NEW s \in SectionRecs
  PROVE  [[s EXCEPT !.kind = AsStr(@)] EXCEPT !.kind = FromTag(@)] = s
<1>1. FromTag(AsStr(s.kind)) = s.kind
  BY TagsBack DEF SectionRecs
<1> DEFINE r == [s EXCEPT !.kind = AsStr(@)]
<1>2. r.kind = AsStr(s.kind)
  BY DEF SectionRecs
<1>3. [r EXCEPT !.kind = s.kind] = s
  BY DEF SectionRecs
<1> QED
  BY <1>1, <1>2, <1>3

LEMMA DocumentBack ==
  ASSUME NEW task \in TaskRecs, NEW prompts
  PROVE  Restored(Document(task, prompts)) = [task |-> task, queue |-> prompts]
<1> DEFINE doc == Document(task, prompts)
<1>1. doc # NoDoc
  <2>1. doc.next = task.next /\ task.next \in Nat
    BY DEF Document, TaskRecs
  <2>2. NoDoc.next = -1
    BY DEF NoDoc
  <2> QED
    BY <2>1, <2>2
<1>2. [n \in DOMAIN doc.section |-> [doc.section[n] EXCEPT !.kind = FromTag(@)]] = task.sections
  <2>1. task.sections \in Seq(SectionRecs)
    BY DEF TaskRecs
  <2>2. doc.section = [n \in DOMAIN task.sections |-> [task.sections[n] EXCEPT !.kind = AsStr(@)]]
    BY DEF Document
  <2>3. ASSUME NEW n \in DOMAIN task.sections
        PROVE  [doc.section[n] EXCEPT !.kind = FromTag(@)] = task.sections[n]
    <3> DEFINE s == task.sections[n]
    <3>1. s \in SectionRecs
      BY <2>1, ElementOfSeq, LenProperties
    <3>2. doc.section[n] = [s EXCEPT !.kind = AsStr(@)]
      BY <2>2
    <3> HIDE DEF s, doc
    <3>3. [[s EXCEPT !.kind = AsStr(@)] EXCEPT !.kind = FromTag(@)] = s
      BY <3>1, SectionBack
    <3>4. [doc.section[n] EXCEPT !.kind = FromTag(@)] = s
      BY <3>2, <3>3
    <3> QED
      BY <3>4 DEF s
  <2>4. DOMAIN doc.section = DOMAIN task.sections
    BY <2>2
  <2>5. task.sections = [n \in DOMAIN task.sections |-> task.sections[n]]
    BY <2>1, LenProperties
  <2> DEFINE back(n) == [doc.section[n] EXCEPT !.kind = FromTag(@)]
  <2> HIDE DEF back, doc
  <2>6. \A n \in DOMAIN task.sections : back(n) = task.sections[n]
    BY <2>3 DEF back
  <2>7. [n \in DOMAIN doc.section |-> back(n)] = task.sections
    BY <2>4, <2>5, <2>6
  <2> QED
    BY <2>7 DEF back
<1>3. [i \in {e.section_index : e \in doc.decision} |->
         DecisionFromStr((CHOOSE e \in doc.decision : e.section_index = i).decision)] = task.decisions
  <2>1. /\ DOMAIN task.decisions \in SUBSET Nat
        /\ task.decisions = [i \in DOMAIN task.decisions |-> task.decisions[i]]
        /\ \A i \in DOMAIN task.decisions : task.decisions[i] \in Decisions
    BY DEF TaskRecs, DecisionMaps
  <2>2. doc.decision = {[section_index |-> i, decision |-> DecisionToStr(task.decisions[i])] :
                          i \in DOMAIN task.decisions}
    BY DEF Document
  <2>3. {e.section_index : e \in doc.decision} = DOMAIN task.decisions
    <3> DEFINE e(i) == [section_index |-> i, decision |-> DecisionToStr(task.decisions[i])]
    <3>1. \A i \in DOMAIN task.decisions : e(i).section_index = i
      OBVIOUS
    <3>2. doc.decision = {e(i) : i \in DOMAIN task.decisions}
      BY <2>2
    <3> HIDE DEF e, doc
    <3> QED
      BY <3>1, <3>2
  <2>4. ASSUME NEW i \in DOMAIN task.decisions
        PROVE  DecisionFromStr((CHOOSE e \in doc.decision : e.section_index = i).decision)
                 = task.decisions[i]
    <3> DEFINE c == CHOOSE e \in doc.decision : e.section_index = i
    <3>1. c = [section_index |-> i, decision |-> DecisionToStr(task.decisions[i])]
      BY <2>2
    <3> HIDE DEF c
    <3>2. c.decision = DecisionToStr(task.decisions[i])
      BY <3>1
    <3>3. DecisionFromStr(DecisionToStr(task.decisions[i])) = task.decisions[i]
      BY <2>1, DecisionsBack
    <3> QED
      BY <3>2, <3>3 DEF c
  <2> QED
    BY <2>1, <2>3, <2>4
<1>4. doc.next = task.next /\ doc.queue = prompts
  BY DEF Document
<1>5. task = [next |-> task.next, sections |-> task.sections, decisions |-> task.decisions]
  BY DEF TaskRecs
<1> HIDE DEF doc
<1>6. Restored(doc) = [task |-> [next |-> doc.next,
                  sections |-> [n \in DOMAIN doc.section |->
                                  [doc.section[n] EXCEPT !.kind = FromTag(@)]],
                  decisions |-> [i \in {e.section_index : e \in doc.decision} |->
                    DecisionFromStr((CHOOSE e \in doc.decision : e.section_index = i).decision)]],
        queue |-> doc.queue]
  BY <1>1 DEF Restored
<1> QED
  BY <1>2, <1>3, <1>4, <1>5, <1>6 DEF doc
-----------------------------------------------------------------------------
(* The operations keep a task sound.  What was resolved stays resolved.       *)
LEMMA SoundMonotone ==
  ASSUME NEW task, NEW done, NEW more, done \subseteq more, Sound(task, done)
  PROVE  Sound(task, more)
<1>1. Decided(task, more)
  BY DEF Sound, Decided
<1>2. Answered(task, more)
  BY DEF Sound, Answered
<1> QED
  BY <1>1, <1>2 DEF Sound

(* The places of a sound task's sections.                                     *)
LEMMA SoundParts ==
  ASSUME NEW task, NEW done, Sound(task, done)
  PROVE  /\ task \in TaskRecs
         /\ task.sections \in Seq(SectionRecs)
         /\ Len(task.sections) \in Nat
         /\ DOMAIN task.sections = 1..Len(task.sections)
         /\ \A n \in 1..Len(task.sections) : task.sections[n] \in SectionRecs
         /\ \A n \in 1..Len(task.sections) : task.sections[n].index = n - 1
         /\ task.next = Len(task.sections)
         /\ task.decisions \in DecisionMaps
         /\ DOMAIN task.decisions \in SUBSET Nat
         /\ \A i \in DOMAIN task.decisions : task.decisions[i] \in Decisions
<1>1. task \in TaskRecs
  BY DEF Sound
<1>2. task.sections \in Seq(SectionRecs) /\ task.decisions \in DecisionMaps
  BY <1>1 DEF TaskRecs
<1>3. DOMAIN task.decisions \in SUBSET Nat /\ \A i \in DOMAIN task.decisions : task.decisions[i] \in Decisions
  BY <1>2 DEF DecisionMaps
<1>4. /\ Len(task.sections) \in Nat
      /\ DOMAIN task.sections = 1..Len(task.sections)
      /\ \A n \in 1..Len(task.sections) : task.sections[n] \in SectionRecs
  BY <1>2, LenProperties, ElementOfSeq
<1> QED
  BY <1>1, <1>2, <1>3, <1>4 DEF Sound, Placed

(* Only one section has an index, and closing it changes nothing else.        *)
LEMMA FoundPlace ==
  ASSUME NEW task, NEW done, Sound(task, done), NEW n \in 1..Len(task.sections)
  PROVE  Found(task, task.sections[n].index) = {n}
  BY SoundParts, SMTT(30) DEF Found

(* The invariant parts of a task depend only on its next index, its           *)
(* decisions and, of each section, on what they name.                         *)
LEMMA ClosedSound ==
  ASSUME NEW task, NEW done, Sound(task, done), NEW n \in 1..Len(task.sections),
         NEW i, i = task.sections[n].index
  PROVE  /\ Sound(Closed(task, i), done)
         /\ Closed(task, i).sections = WithClosed(task.sections, n)
         /\ Closed(task, i).next = task.next
         /\ Closed(task, i).decisions = task.decisions
<1> DEFINE S == task.sections
           T == WithClosed(S, n)
           new == Closed(task, i)
<1>1. /\ S \in Seq(SectionRecs) /\ Len(S) \in Nat /\ DOMAIN S = 1..Len(S)
      /\ S[n] \in SectionRecs /\ Found(task, i) = {n} /\ task \in TaskRecs
  BY SoundParts, FoundPlace
<1>2. [S[n] EXCEPT !.closed = TRUE] \in SectionRecs
  BY <1>1 DEF SectionRecs
<1>3. /\ T \in Seq(SectionRecs) /\ Len(T) = Len(S)
      /\ \A j \in 1..Len(S) : T[j] = IF j = n THEN [S[n] EXCEPT !.closed = TRUE] ELSE S[j]
  BY <1>1, <1>2, ExceptSeq DEF WithClosed
<1>4. [m \in DOMAIN S |-> IF m \in {n} THEN [S[m] EXCEPT !.closed = TRUE] ELSE S[m]] = T
  BY <1>1 DEF WithClosed
<1>5. /\ new.sections = T /\ new.next = task.next /\ new.decisions = task.decisions
      /\ new \in TaskRecs
  BY <1>1, <1>3, <1>4, ZenonT(60) DEF Closed, TaskRecs, WithClosed
<1>6. \A j \in 1..Len(S) :
         /\ T[j].index = S[j].index /\ T[j].kind = S[j].kind /\ T[j].mark = S[j].mark
         /\ T[j].born = S[j].born /\ T[j].by = S[j].by /\ (S[j].closed => T[j].closed)
  BY <1>1, <1>3, SoundParts DEF SectionRecs, WithClosed
<1> HIDE DEF new, T
<1>7. Placed(new)
  BY <1>1, <1>3, <1>5, <1>6 DEF Sound, Placed
<1>8. Decided(new, done)
  <2>1. ASSUME NEW d \in DOMAIN task.decisions
        PROVE  /\ d + 1 \in 1..Len(S) /\ d < task.next
               /\ S[d + 1].kind = "Approval" /\ S[d + 1].closed /\ S[d + 1].born \in done
    BY SoundParts DEF Sound, Decided
  <2> QED
    BY <2>1, <1>5, <1>6 DEF Decided
<1>9. Answered(new, done)
  <2>1. ASSUME NEW m \in 1..Len(S), S[m].by = "answer"
        PROVE  /\ S[m].mark \in 0..(m - 2) /\ S[m].mark + 1 \in 1..Len(S)
               /\ S[S[m].mark + 1].kind = "Question" /\ S[S[m].mark + 1].born \in done
    BY <1>1, <2>1, SMTT(30) DEF Sound, Answered
  <2>2. ASSUME NEW m \in 1..Len(S), T[m].by = "answer"
        PROVE  /\ T[m].mark \in 0..(m - 2)
               /\ T[T[m].mark + 1].kind = "Question" /\ T[T[m].mark + 1].born \in done
    <3> DEFINE d == S[m].mark
    <3>1. T[m].mark = d /\ S[m].by = "answer"
      BY <2>2, <1>6
    <3>2. d \in 0..(m - 2) /\ d + 1 \in 1..Len(S) /\ S[d + 1].kind = "Question" /\ S[d + 1].born \in done
      BY <2>1, <3>1
    <3> HIDE DEF d, S
    <3> QED
      BY <3>1, <3>2, <1>6
  <2> QED
    BY <2>2, <1>3, <1>5 DEF Answered
<1> QED
  BY <1>5, <1>7, <1>8, <1>9 DEF Sound, T, new

(* append puts one section at the end; what answer() appends answers an       *)
(* earlier question.                                                          *)
LEMMA AppendedSound ==
  ASSUME NEW task, NEW done, Sound(task, done), births \in Nat,
         NEW kind \in DOMAIN TagOf, NEW mark \in Int, NEW by \in {"caller", "answer"},
         by = "answer" => /\ mark \in 0..(Len(task.sections) - 1)
                          /\ task.sections[mark + 1].kind = "Question"
                          /\ task.sections[mark + 1].born \in done
  PROVE  LET new == Appended(task, kind, mark, by)
         IN  /\ Sound(new, done)
             /\ Len(new.sections) = Len(task.sections) + 1
             /\ \A n \in 1..Len(task.sections) : new.sections[n] = task.sections[n]
<1> DEFINE S == task.sections
           s == [index |-> task.next, kind |-> kind, mark |-> mark, closed |-> FALSE,
                 born |-> births, by |-> by]
           T == Append(S, s)
           new == Appended(task, kind, mark, by)
<1>1. S \in Seq(SectionRecs) /\ Len(S) \in Nat /\ task \in TaskRecs /\ task.next = Len(S)
  BY SoundParts
<1>2. s \in SectionRecs
  BY <1>1 DEF SectionRecs
<1> HIDE DEF s
<1>3. /\ T \in Seq(SectionRecs) /\ Len(T) = Len(S) + 1
      /\ \A j \in 1..Len(S) : T[j] = S[j]
      /\ T[Len(S) + 1] = s
  BY <1>1, <1>2, AppendProperties
<1> HIDE DEF T
<1>4. /\ new.sections = T /\ new.next = Len(S) + 1 /\ new.decisions = task.decisions
      /\ new \in TaskRecs
  <2>1. new = [task EXCEPT !.next = @ + 1, !.sections = T]
    BY DEF Appended, T, s
  <2> HIDE DEF new, S
  <2>2. /\ task.next + 1 \in Nat
        /\ task = [next |-> task.next, sections |-> task.sections, decisions |-> task.decisions]
        /\ task.decisions \in DecisionMaps
    BY <1>1 DEF TaskRecs
  <2>3. new = [next |-> task.next + 1, sections |-> T, decisions |-> task.decisions]
    BY <2>1, <2>2
  <2> QED
    BY <1>1, <1>3, <2>2, <2>3 DEF TaskRecs
<1>5. s.index = Len(S) /\ s.mark = mark /\ s.by = by
  BY <1>1 DEF s
<1> HIDE DEF new
<1>6. Placed(new)
  BY <1>1, <1>3, <1>4, <1>5, SMTT(30) DEF Sound, Placed
<1>7. Decided(new, done)
  <2>1. ASSUME NEW d \in DOMAIN task.decisions
        PROVE  /\ d + 1 \in 1..Len(S) /\ d < task.next
               /\ S[d + 1].kind = "Approval" /\ S[d + 1].closed /\ S[d + 1].born \in done
    BY SoundParts DEF Sound, Decided
  <2>2. ASSUME NEW d \in DOMAIN task.decisions
        PROVE  d < new.next /\ T[d + 1] = S[d + 1]
    BY <2>1, <1>1, <1>3, <1>4, SoundParts
  <2> QED
    BY <2>1, <2>2, <1>4 DEF Decided
<1>8. Answered(new, done)
  <2>1. ASSUME NEW m \in 1..(Len(S) + 1), T[m].by = "answer"
        PROVE  /\ T[m].mark \in 0..(m - 2)
               /\ T[T[m].mark + 1].kind = "Question" /\ T[T[m].mark + 1].born \in done
    <3>1. CASE m \in 1..Len(S)
      <4> DEFINE d == S[m].mark
      <4>1. T[m].mark = d /\ S[m].by = "answer"
        BY <2>1, <3>1, <1>3
      <4>2. d \in 0..(m - 2) /\ S[d + 1].kind = "Question" /\ S[d + 1].born \in done
        BY <3>1, <4>1 DEF Sound, Answered
      <4>3. d + 1 \in 1..Len(S)
        BY <1>1, <3>1, <4>2
      <4> HIDE DEF d, S
      <4> QED
        BY <4>1, <4>2, <4>3, <1>3
    <3>2. CASE m = Len(S) + 1
      <4>1. T[m].mark = mark /\ by = "answer"
        BY <2>1, <3>2, <1>3, <1>5
      <4>2. mark \in 0..(m - 2) /\ mark + 1 \in 1..Len(S)
        BY <1>1, <3>2, <4>1
      <4> QED
        BY <4>1, <4>2, <1>3
    <3> QED
      BY <3>1, <3>2, <1>1
  <2> QED
    BY <2>1, <1>3, <1>4 DEF Answered
<1> QED
  BY <1>3, <1>4, <1>6, <1>7, <1>8 DEF Sound, new

(* mutate_content makes the section its caller's.                             *)
LEMMA MutatedSound ==
  ASSUME NEW task, NEW done, Sound(task, done), NEW n \in 1..Len(task.sections),
         ~task.sections[n].closed, NEW mark \in Int
  PROVE  LET new == [task EXCEPT !.sections[n] = [@ EXCEPT !.mark = mark, !.by = "caller"]]
         IN  /\ Sound(new, done)
             /\ Len(new.sections) = Len(task.sections)
             /\ \A m \in 1..Len(task.sections) : m # n => new.sections[m] = task.sections[m]
<1> DEFINE S == task.sections
           s == [S[n] EXCEPT !.mark = mark, !.by = "caller"]
           T == [S EXCEPT ![n] = s]
           new == [task EXCEPT !.sections[n] = [@ EXCEPT !.mark = mark, !.by = "caller"]]
<1>1. /\ S \in Seq(SectionRecs) /\ Len(S) \in Nat /\ task \in TaskRecs
      /\ \A m \in 1..Len(S) : S[m] \in SectionRecs
  BY SoundParts
<1>2. /\ s \in SectionRecs /\ s.by = "caller" /\ s.index = S[n].index /\ s.kind = S[n].kind
      /\ s.born = S[n].born /\ s.closed = S[n].closed
  BY <1>1 DEF SectionRecs
<1> HIDE DEF s
<1>3. /\ T \in Seq(SectionRecs) /\ Len(T) = Len(S)
      /\ \A j \in 1..Len(S) : T[j] = IF j = n THEN s ELSE S[j]
  BY <1>1, <1>2, ExceptSeq
<1>4. /\ new.sections = T /\ new.next = task.next /\ new.decisions = task.decisions
      /\ new \in TaskRecs
  BY <1>1, <1>3 DEF TaskRecs, s
<1> HIDE DEF T, new
<1>5. \A j \in 1..Len(S) :
         /\ T[j].index = S[j].index /\ T[j].kind = S[j].kind /\ T[j].born = S[j].born
         /\ T[j].closed = S[j].closed
         /\ T[j].by = "answer" => T[j].mark = S[j].mark /\ S[j].by = "answer"
  BY <1>2, <1>3
<1>6. Placed(new)
  BY <1>1, <1>3, <1>4, <1>5 DEF Sound, Placed
<1>7. Decided(new, done)
  <2>1. ASSUME NEW d \in DOMAIN task.decisions
        PROVE  /\ d + 1 \in 1..Len(S) /\ d < task.next
               /\ S[d + 1].kind = "Approval" /\ S[d + 1].closed /\ S[d + 1].born \in done
    BY SoundParts DEF Sound, Decided
  <2> QED
    BY <2>1, <1>4, <1>5 DEF Decided
<1>8. Answered(new, done)
  <2>1. ASSUME NEW m \in 1..Len(S), T[m].by = "answer"
        PROVE  /\ T[m].mark \in 0..(m - 2)
               /\ T[T[m].mark + 1].kind = "Question" /\ T[T[m].mark + 1].born \in done
    <3> DEFINE d == S[m].mark
    <3>1. T[m].mark = d /\ S[m].by = "answer"
      BY <2>1, <1>5
    <3>2. d \in 0..(m - 2) /\ S[d + 1].kind = "Question" /\ S[d + 1].born \in done
      BY <3>1 DEF Sound, Answered
    <3>3. d + 1 \in 1..Len(S)
      BY <1>1, <3>2
    <3> HIDE DEF d, S
    <3> QED
      BY <3>1, <3>2, <3>3, <1>5
  <2> QED
    BY <2>1, <1>3, <1>4 DEF Answered
<1> QED
  BY <1>3, <1>4, <1>6, <1>7, <1>8 DEF Sound, new

(* decide records a decision on an approval that is closed with it.           *)
LEMMA DecidedSound ==
  ASSUME NEW task, NEW done, Sound(task, done), NEW n \in 1..Len(task.sections),
         task.sections[n].kind = "Approval",
         task.sections[n].born \in done, NEW i, i = task.sections[n].index,
         NEW decided \in DecisionMaps, DOMAIN decided = DOMAIN task.decisions \cup {i}
  PROVE  LET new == Closed([task EXCEPT !.decisions = decided], i)
         IN  /\ Sound(new, done)
             /\ new.sections = WithClosed(task.sections, n)
<1> DEFINE S == task.sections
           mid == [task EXCEPT !.decisions = decided]
           old == Closed(task, i)
           new == Closed(mid, i)
<1>1. /\ S \in Seq(SectionRecs) /\ Len(S) \in Nat /\ DOMAIN S = 1..Len(S)
      /\ S[n] \in SectionRecs /\ i = n - 1 /\ task \in TaskRecs /\ task.next = Len(S)
      /\ DOMAIN task.decisions \in SUBSET Nat
      /\ \A j \in DOMAIN task.decisions : task.decisions[j] \in Decisions
  BY SoundParts
<1>2. /\ Sound(old, done) /\ old.sections = WithClosed(S, n)
      /\ old.next = task.next /\ old.decisions = task.decisions
  BY ClosedSound
<1>3. decided \in DecisionMaps /\ DOMAIN decided = DOMAIN task.decisions \cup {i}
  OBVIOUS
<1>4. /\ mid.sections = S /\ mid.next = task.next /\ mid.decisions = decided
      /\ mid \in TaskRecs
  BY <1>1, <1>3 DEF TaskRecs
<1>5. new.sections = old.sections /\ new.next = task.next /\ new.decisions = decided
  <2>1. Found(mid, i) = Found(task, i)
    BY <1>4 DEF Found
  <2>2. mid \in TaskRecs /\ task \in TaskRecs
    BY <1>1, <1>4
  <2> DEFINE T == [m \in DOMAIN S |-> IF m \in Found(task, i) THEN [S[m] EXCEPT !.closed = TRUE] ELSE S[m]]
  <2> HIDE DEF mid, S
  <2>3. old = [task EXCEPT !.sections = T]
    BY DEF Closed, S
  <2>4. new = [mid EXCEPT !.sections = T]
    BY <1>4, <2>1 DEF Closed
  <2> HIDE DEF T
  <2> QED
    BY <1>4, <2>2, <2>3, <2>4 DEF TaskRecs
<1> DEFINE T == old.sections
<1>6. T \in Seq(SectionRecs) /\ old.next = Len(T) /\ Len(T) = Len(S)
  <2>1. T \in Seq(SectionRecs) /\ old.next = Len(T)
    BY <1>2, SoundParts
  <2> QED
    BY <2>1, <1>1, <1>2
<1>7. T[n].kind = "Approval" /\ T[n].closed /\ T[n].born \in done
  BY <1>1, <1>2 DEF SectionRecs, WithClosed
<1>8. new = [next |-> task.next, sections |-> T, decisions |-> decided]
  <2>1. new = [mid EXCEPT !.sections = T]
    BY <1>4, <1>5 DEF Closed, TaskRecs
  <2> HIDE DEF mid, new, T
  <2> QED
    BY <1>4, <2>1 DEF TaskRecs
<1>9. new \in TaskRecs
  BY <1>1, <1>3, <1>6, <1>8 DEF TaskRecs
<1> HIDE DEF new, old, T, S
<1>10. Placed(new)
  BY <1>2, <1>5, <1>6 DEF Sound, Placed, T
<1>11. Answered(new, done)
  BY <1>2, <1>5 DEF Sound, Answered, T
<1>12. Decided(new, done)
  <2>1. ASSUME NEW j \in DOMAIN decided
        PROVE  /\ j < task.next /\ T[j + 1].kind = "Approval" /\ T[j + 1].closed
               /\ T[j + 1].born \in done
    <3>1. CASE j = i
      BY <1>1, <1>7, <3>1 DEF S
    <3>2. CASE j \in DOMAIN task.decisions
      BY <1>2, <3>2 DEF Sound, Decided, T
    <3> QED
      BY <1>3, <3>1, <3>2
  <2> QED
    BY <2>1, <1>5 DEF Decided, T
<1> QED
  BY <1>2, <1>5, <1>9, <1>10, <1>11, <1>12 DEF Sound, new, old, S

(* The sections a fork keeps are a prefix of the log.                         *)
LEMMA FilteredPrefix ==
  ASSUME NEW s, NEW m \in Nat
  PROVE  Filtered(s, 1..m) = [n \in 1..m |-> s[n]]
<1>1. Cardinality(1..m) = m
  BY FS_Interval
<1>2. ASSUME NEW n \in 1..m
      PROVE  (CHOOSE p \in 1..m : Cardinality({q \in 1..m : q <= p}) = n) = n
  <2>1. ASSUME NEW p \in 1..m PROVE Cardinality({q \in 1..m : q <= p}) = p
    <3>1. {q \in 1..m : q <= p} = 1..p
      OBVIOUS
    <3>2. Cardinality(1..p) = p
      BY FS_Interval
    <3> QED
      BY <3>1, <3>2
  <2> QED
    BY <2>1
<1> DEFINE place(n) == CHOOSE p \in 1..m : Cardinality({q \in 1..m : q <= p}) = n
<1>3. Filtered(s, 1..m) = [n \in 1..m |-> s[place(n)]]
  BY <1>1 DEF Filtered
<1>4. \A n \in 1..m : place(n) = n
  BY <1>2
<1> HIDE DEF place
<1> QED
  BY <1>3, <1>4

LEMMA ForkedSound ==
  ASSUME NEW task, NEW done, Sound(task, done), NEW cut \in Nat
  PROVE  Sound(Forked(task, cut), done)
<1> DEFINE S == task.sections
           m == IF cut < Len(S) THEN cut + 1 ELSE Len(S)
           T == [n \in 1..m |-> S[n]]
           D == {j \in DOMAIN task.decisions : j <= cut}
           decided == [i \in D |-> task.decisions[i]]
           new == Forked(task, cut)
<1>1. /\ S \in Seq(SectionRecs) /\ Len(S) \in Nat /\ DOMAIN S = 1..Len(S)
      /\ \A n \in 1..Len(S) : S[n] \in SectionRecs /\ S[n].index = n - 1
      /\ DOMAIN task.decisions \in SUBSET Nat
      /\ \A j \in DOMAIN task.decisions : task.decisions[j] \in Decisions
  BY SoundParts
<1>2. m \in Nat /\ m <= Len(S)
  BY <1>1
<1>3. UpTo(task, cut) = 1..m
  BY <1>1 DEF UpTo
<1> HIDE DEF m
<1>4. Filtered(S, UpTo(task, cut)) = T
  BY <1>2, <1>3, FilteredPrefix
<1>5. T \in Seq(SectionRecs) /\ Len(T) = m /\ \A n \in 1..m : T[n] = S[n]
  BY <1>1, <1>2
<1>6. (IF T = <<>> THEN 0 ELSE T[Len(T)].index + 1) = m
  <2>1. CASE m = 0
    <3>1. T = <<>>
      BY <1>5, <2>1, EmptySeq
    <3> QED
      BY <3>1, <2>1
  <2>2. CASE m # 0
    <3>1. m \in 1..m /\ m \in 1..Len(S)
      BY <1>2, <2>2
    <3>2. T # <<>>
      BY <1>5, <2>2
    <3>3. T[m].index = m - 1
      BY <1>1, <1>5, <3>1
    <3> HIDE DEF T
    <3> QED
      BY <1>2, <1>5, <3>2, <3>3
  <2> QED
    BY <2>1, <2>2
<1>7. decided \in DecisionMaps /\ DOMAIN decided = D
  <2>1. D \in SUBSET Nat /\ decided \in [D -> Decisions] /\ DOMAIN decided = D
    BY <1>1
  <2> HIDE DEF D, decided
  <2> QED
    BY <2>1 DEF DecisionMaps
<1>8. new = [sections |-> T, next |-> m, decisions |-> decided]
  BY <1>4, <1>6 DEF Forked
<1> HIDE DEF T, new
<1>9. new \in TaskRecs /\ new.sections = T /\ new.next = m /\ new.decisions = decided
  BY <1>2, <1>5, <1>7, <1>8 DEF TaskRecs
<1>10. Placed(new)
  <2>1. ASSUME NEW n \in 1..m PROVE T[n].index = n - 1
    <3>1. n \in 1..Len(S) /\ T[n] = S[n]
      BY <1>1, <1>2, <1>5
    <3> QED
      BY <1>1, <3>1
  <2> QED
    BY <1>5, <1>9, <2>1 DEF Placed
<1>11. Decided(new, done)
  <2>1. ASSUME NEW j \in D
        PROVE  /\ j < m /\ S[j + 1].kind = "Approval" /\ S[j + 1].closed /\ S[j + 1].born \in done
               /\ T[j + 1] = S[j + 1]
    <3>1. /\ j < Len(S) /\ j <= cut /\ j \in Nat
          /\ S[j + 1].kind = "Approval" /\ S[j + 1].closed /\ S[j + 1].born \in done
      BY SoundParts DEF Sound, Decided
    <3>2. j < m /\ j + 1 \in 1..m
      BY <3>1, <1>1 DEF m
    <3> QED
      BY <3>1, <3>2, <1>5
  <2> QED
    BY <2>1, <1>7, <1>9 DEF Decided
<1>12. Answered(new, done)
  <2>1. ASSUME NEW n \in 1..m, T[n].by = "answer"
        PROVE  /\ T[n].mark \in 0..(n - 2)
               /\ T[T[n].mark + 1].kind = "Question" /\ T[T[n].mark + 1].born \in done
    <3> DEFINE d == S[n].mark
    <3>1. T[n] = S[n] /\ S[n].by = "answer" /\ n \in 1..Len(S)
      BY <2>1, <1>2, <1>5
    <3>2. d \in 0..(n - 2) /\ S[d + 1].kind = "Question" /\ S[d + 1].born \in done
      BY <3>1 DEF Sound, Answered
    <3>3. d + 1 \in 1..m
      BY <1>2, <3>2
    <3> QED
      BY <3>1, <3>2, <3>3, <1>5
  <2> QED
    BY <2>1, <1>5, <1>9 DEF Answered
<1> QED
  BY <1>9, <1>10, <1>11, <1>12 DEF Sound, new

-----------------------------------------------------------------------------
(* Every step keeps the invariant. *)
LEMMA InitInv == TaskInit => TaskInv
<1> SUFFICES ASSUME TaskInit PROVE TaskInv
  OBVIOUS
<1>1. NewTask \in TaskRecs /\ Sound(NewTask, resolved)
  BY NewTaskSound DEF Sound
<1>2. \A t \in Tasks : tasks[t] \in {NewTask, NoTask}
  BY DEF TaskInit
<1>3. \A t \in Live : Sound(tasks[t], resolved)
  BY <1>1, <1>2 DEF Live
<1>4. tasks \in [Tasks -> TaskRecs \cup {NoTask}]
  BY <1>1, <1>2 DEF TaskInit
<1>5. queue \in [Tasks -> Seq(Prompts)]
  BY EmptySeq DEF TaskInit
<1>6. DOMAIN saved = Tasks /\ \A t \in Tasks : saved[t] = NoDoc
  BY DEF TaskInit
<1>7. births \in Nat /\ ops \in Nat
  BY DEF TaskInit
<1> QED
  BY <1>3, <1>4, <1>5, <1>6, <1>7 DEF TaskInv

(* A task of the table that is not NoTask is a record, and no record is       *)
(* NoTask.                                                                    *)
LEMMA LiveRecs ==
  /\ \A task \in TaskRecs : task # NoTask
  /\ TaskInv => \A t \in Live : tasks[t] \in TaskRecs /\ t \in Tasks
<1>1. \A task \in TaskRecs : task # NoTask
  <2>1. NoTask.next = -1
    BY DEF NoTask
  <2> QED
    BY <2>1 DEF TaskRecs
<1> QED
  BY <1>1 DEF TaskInv, Live

(* A step that only puts a sound task in the table, and resolves more, keeps  *)
(* the parts of the invariant that are about tasks and documents.             *)
LEMMA BecomesInv ==
  ASSUME TaskInv, NEW t \in Tasks, NEW task, Becomes(t, task), resolved \subseteq resolved',
         Sound(task, resolved'), saved' = saved
  PROVE  /\ tasks' \in [Tasks -> TaskRecs \cup {NoTask}]
         /\ \A u \in Live' : Sound(tasks'[u], resolved')
         /\ \A u \in Tasks : saved'[u] # NoDoc =>
              \E other \in TaskRecs, prompts \in Seq(Prompts) :
                Sound(other, resolved') /\ saved'[u] = Document(other, prompts)
<1>1. task \in TaskRecs
  BY DEF Sound
<1>2. tasks' = [tasks EXCEPT ![t] = task] /\ tasks \in [Tasks -> TaskRecs \cup {NoTask}]
  BY DEF Becomes, TaskInv
<1>3. tasks' \in [Tasks -> TaskRecs \cup {NoTask}]
  BY <1>1, <1>2
<1>4. ASSUME NEW u \in Live' PROVE Sound(tasks'[u], resolved')
  <2>1. u \in Tasks /\ tasks'[u] # NoTask
    BY DEF Live
  <2>2. CASE u = t
    BY <1>2, <2>2
  <2>3. CASE u # t
    <3>1. tasks'[u] = tasks[u] /\ u \in Live
      BY <1>2, <2>1, <2>3 DEF Live
    <3>2. Sound(tasks[u], resolved)
      BY <3>1 DEF TaskInv
    <3> QED
      BY <3>1, <3>2, SoundMonotone
  <2> QED
    BY <2>2, <2>3
<1>5. ASSUME NEW u \in Tasks, saved'[u] # NoDoc
      PROVE  \E other \in TaskRecs, prompts \in Seq(Prompts) :
                Sound(other, resolved') /\ saved'[u] = Document(other, prompts)
  <2>1. PICK other \in TaskRecs, prompts \in Seq(Prompts) :
          Sound(other, resolved) /\ saved[u] = Document(other, prompts)
    BY <1>5 DEF TaskInv
  <2>2. Sound(other, resolved')
    BY <2>1, SoundMonotone
  <2> QED
    BY <2>1, <2>2
<1> QED
  BY <1>3, <1>4, <1>5

LEMMA AppendStep ==
  ASSUME TaskInv, NEW t \in Live, NEW tag \in Tags, NEW mark \in Marks, AppendSection(t, tag, mark)
  PROVE  TaskInv'
<1> DEFINE new == Appended(tasks[t], FromTag(tag), mark, "caller")
<1>1. t \in Tasks /\ Sound(tasks[t], resolved) /\ births \in Nat
  BY LiveRecs DEF TaskInv
<1>2. mark \in Int
  BY TaskAssumption DEF Marks, NoMark
<1>3. Sound(new, resolved)
  BY <1>1, <1>2, FromTagKind, AppendedSound
<1>4. Becomes(t, new) /\ resolved' = resolved /\ saved' = saved /\ queue' = queue
  BY DEF AppendSection
<1>5. births' \in Nat /\ ops' \in Nat
  BY DEF TaskInv, AppendSection, Op
<1> HIDE DEF new
<1>6. Sound(new, resolved')
  BY <1>3, <1>4
<1>7. resolved \subseteq resolved'
  BY <1>4
<1> QED
  BY <1>1, <1>4, <1>5, <1>6, <1>7, BecomesInv DEF TaskInv

LEMMA MutateStep ==
  ASSUME TaskInv, NEW t \in Live, NEW n \in DOMAIN tasks[t].sections, NEW mark \in Marks,
         MutateContent(t, n, mark)
  PROVE  TaskInv'
<1> DEFINE new == [tasks[t] EXCEPT !.sections[n] = [@ EXCEPT !.mark = mark, !.by = "caller"]]
<1>1. t \in Tasks /\ Sound(tasks[t], resolved) /\ n \in 1..Len(tasks[t].sections)
  BY LiveRecs, SoundParts DEF TaskInv
<1>2. mark \in Int
  BY TaskAssumption DEF Marks, NoMark
<1>3. ~tasks[t].sections[n].closed
  BY DEF MutateContent
<1>4. Sound(new, resolved)
  BY <1>1, <1>2, <1>3, MutatedSound
<1>5. /\ Becomes(t, new) /\ resolved' = resolved /\ saved' = saved /\ queue' = queue
      /\ births' = births
  BY DEF MutateContent
<1>6. births' \in Nat /\ ops' \in Nat
  BY <1>5 DEF TaskInv, MutateContent, Op
<1> HIDE DEF new
<1>7. Sound(new, resolved') /\ resolved \subseteq resolved'
  BY <1>4, <1>5
<1> QED
  BY <1>1, <1>5, <1>6, <1>7, BecomesInv DEF TaskInv

(* Closing a section leaves the closed ones as they are.                      *)
LEMMA CloseKeepsClosed ==
  ASSUME NEW S \in Seq(SectionRecs), NEW n \in 1..Len(S), NEW m \in 1..Len(S), S[m].closed
  PROVE  LET T == WithClosed(S, n)
         IN  m \in DOMAIN T /\ T[m] = S[m]
<1>1. S[n] \in SectionRecs /\ S \in [1..Len(S) -> SectionRecs]
  BY ElementOfSeq, LenProperties
<1>2. S[n].closed = TRUE => [S[n] EXCEPT !.closed = TRUE] = S[n]
  BY <1>1 DEF SectionRecs
<1>3. S[n].closed \in BOOLEAN
  BY <1>1 DEF SectionRecs
<1> QED
  BY <1>1, <1>2, <1>3 DEF WithClosed

LEMMA DecideStep ==
  ASSUME TaskInv, NEW t \in Live, NEW n \in DOMAIN tasks[t].sections, NEW d \in Decisions,
         Decide(t, n, d)
  PROVE  /\ TaskInv'
         /\ \A u \in Tasks : u # t => tasks'[u] = tasks[u]
         /\ tasks'[t].sections = WithClosed(tasks[t].sections, n)
<1> DEFINE s == tasks[t].sections[n]
           i == s.index
           decided == [j \in DOMAIN tasks[t].decisions \cup {i} |->
                         IF j = i THEN d ELSE tasks[t].decisions[j]]
           new == Closed([tasks[t] EXCEPT !.decisions = decided], i)
<1>1. t \in Tasks /\ Sound(tasks[t], resolved) /\ n \in 1..Len(tasks[t].sections)
  BY LiveRecs, SoundParts DEF TaskInv
<1>2. /\ Becomes(t, new) /\ resolved' = resolved \cup {s.born} /\ saved' = saved /\ queue' = queue
      /\ births' = births /\ s.kind = "Approval"
  BY DEF Decide
<1>3. resolved \subseteq resolved' /\ s.born \in resolved'
  BY <1>2
<1>4. Sound(tasks[t], resolved')
  BY <1>1, <1>3, SoundMonotone
<1>5. /\ Sound(new, resolved')
      /\ new.sections = WithClosed(tasks[t].sections, n)
  <2> DEFINE task == tasks[t]
  <2>1. /\ i = task.sections[n].index
        /\ Sound(task, resolved') /\ n \in 1..Len(task.sections)
        /\ task.sections[n].kind = "Approval" /\ task.sections[n].born \in resolved'
    BY <1>1, <1>2, <1>3, <1>4
  <2>2. new = Closed([task EXCEPT !.decisions = decided], i)
    OBVIOUS
  <2>3. DOMAIN decided = DOMAIN task.decisions \cup {i} /\ decided \in DecisionMaps
    <3>1. /\ DOMAIN task.decisions \in SUBSET Nat /\ i \in Nat
          /\ \A j \in DOMAIN task.decisions : task.decisions[j] \in Decisions
      BY <2>1, SoundParts
    <3>2. DOMAIN decided = DOMAIN task.decisions \cup {i}
      OBVIOUS
    <3>3. decided \in [DOMAIN decided -> Decisions]
      BY <3>1
    <3>4. DOMAIN decided \in SUBSET Nat
      BY <3>1, <3>2
    <3> HIDE DEF decided
    <3> QED
      BY <3>2, <3>3, <3>4 DEF DecisionMaps
  <2> HIDE DEF new, decided, i, s, task
  <2> QED
    <3>1. /\ Sound(new, resolved')
          /\ new.sections = WithClosed(task.sections, n)
      BY <2>1, <2>2, <2>3, DecidedSound, ZenonT(60)
    <3> QED
      BY <3>1 DEF task
<1>6. births' \in Nat /\ ops' \in Nat
  BY <1>2 DEF TaskInv, Decide, Op
<1> HIDE DEF new, s
<1>7. TaskInv'
  BY <1>1, <1>2, <1>3, <1>5, <1>6, BecomesInv DEF TaskInv
<1>8. tasks'[t] = new /\ \A u \in Tasks : u # t => tasks'[u] = tasks[u]
  BY <1>1, <1>2 DEF Becomes, TaskInv
<1> QED
  BY <1>5, <1>7, <1>8

LEMMA AnswerStep ==
  ASSUME TaskInv, NEW t \in Live, NEW n \in DOMAIN tasks[t].sections, Answer(t, n)
  PROVE  /\ TaskInv'
         /\ \A u \in Tasks : u # t => tasks'[u] = tasks[u]
         /\ \A m \in DOMAIN tasks[t].sections :
              tasks[t].sections[m].closed =>
                m \in DOMAIN tasks'[t].sections /\ tasks'[t].sections[m] = tasks[t].sections[m]
<1> DEFINE task == tasks[t]
           s == task.sections[n]
           mid == Appended(task, "Result", s.index, "answer")
           new == Closed(mid, s.index)
<1>1. /\ t \in Tasks /\ Sound(task, resolved) /\ n \in 1..Len(task.sections) /\ births \in Nat
      /\ s.index = n - 1 /\ Len(task.sections) \in Nat
  BY LiveRecs, SoundParts DEF TaskInv
<1>2. /\ Becomes(t, new) /\ resolved' = resolved \cup {s.born} /\ saved' = saved /\ queue' = queue
      /\ births' = births + 1 /\ s.kind = "Question"
  BY DEF Answer
<1>3. resolved \subseteq resolved' /\ s.born \in resolved'
  BY <1>2
<1>4. Sound(task, resolved')
  BY <1>1, <1>3, SoundMonotone
<1>5. /\ Sound(mid, resolved') /\ n \in 1..Len(mid.sections) /\ mid.sections[n] = s
      /\ \A m \in DOMAIN task.sections : m \in 1..Len(mid.sections) /\ mid.sections[m] = task.sections[m]
  <2>1. /\ "Result" \in DOMAIN TagOf /\ s.index \in Int /\ s.index \in 0..(Len(task.sections) - 1)
        /\ task.sections[s.index + 1] = s
    BY <1>1, TagDomain
  <2> DEFINE i == s.index
  <2>2. /\ i \in 0..(Len(task.sections) - 1) /\ task.sections[i + 1].kind = "Question"
        /\ task.sections[i + 1].born \in resolved' /\ i \in Int
    BY <1>2, <1>3, <2>1
  <2>3. mid = Appended(task, "Result", i, "answer")
    OBVIOUS
  <2> HIDE DEF task, i, mid, s
  <2>4. /\ Sound(mid, resolved') /\ Len(mid.sections) = Len(task.sections) + 1
        /\ \A m \in 1..Len(task.sections) : mid.sections[m] = task.sections[m]
    BY <1>1, <1>4, <2>1, <2>2, <2>3, AppendedSound, ZenonT(60)
  <2>5. DOMAIN task.sections = 1..Len(task.sections)
    BY <1>4, SoundParts
  <2> QED
    BY <1>1, <2>4, <2>5 DEF s
<1>6. /\ Sound(new, resolved')
      /\ new.sections = WithClosed(mid.sections, n)
  <2> HIDE DEF mid, s, task
  <2> QED
    BY <1>5, ClosedSound
<1>7. births' \in Nat /\ ops' \in Nat
  BY <1>1, <1>2 DEF TaskInv, Answer, Op
<1> HIDE DEF new, s, task, mid
<1>8. TaskInv'
  BY <1>1, <1>2, <1>3, <1>6, <1>7, BecomesInv DEF TaskInv
<1>9. tasks'[t] = new /\ \A u \in Tasks : u # t => tasks'[u] = tasks[u]
  BY <1>1, <1>2 DEF Becomes, TaskInv
<1>10. ASSUME NEW m \in DOMAIN task.sections, task.sections[m].closed
       PROVE  m \in DOMAIN new.sections /\ new.sections[m] = task.sections[m]
  <2>1. mid.sections \in Seq(SectionRecs) /\ m \in 1..Len(mid.sections) /\ mid.sections[m].closed
    BY <1>5, <1>10, SoundParts
  <2> QED
    BY <1>5, <1>6, <1>10, <2>1, CloseKeepsClosed
<1> QED
  BY <1>8, <1>9, <1>10 DEF task

LEMMA ForkStep ==
  ASSUME TaskInv, NEW t \in Live, NEW new \in Tasks, NEW cut \in 0..(MaxSections - 1),
         Fork(t, new, cut)
  PROVE  TaskInv'
<1>1. Sound(tasks[t], resolved)
  BY DEF TaskInv
<1>2. cut \in Nat
  BY TaskAssumption
<1>3. Sound(Forked(tasks[t], cut), resolved)
  BY <1>1, <1>2, ForkedSound
<1>4. /\ Becomes(new, Forked(tasks[t], cut)) /\ resolved' = resolved /\ saved' = saved
      /\ queue' = queue /\ births' = births
  BY DEF Fork
<1>5. births' \in Nat /\ ops' \in Nat
  BY <1>4 DEF TaskInv, Fork, Op
<1>6. resolved \subseteq resolved' /\ Sound(Forked(tasks[t], cut), resolved')
  BY <1>3, <1>4
<1> QED
  BY <1>4, <1>5, <1>6, BecomesInv DEF TaskInv

LEMMA RestartStep ==
  ASSUME TaskInv, NEW t \in Live, Restart(t)
  PROVE  TaskInv'
<1>1. t \in Tasks
  BY DEF Live
<1>2. /\ Becomes(t, Restored(saved[t]).task) /\ resolved' = resolved /\ saved' = saved
      /\ queue' = [queue EXCEPT ![t] = Restored(saved[t]).queue] /\ births' = births
  BY DEF Restart
<1>3. Sound(Restored(saved[t]).task, resolved) /\ Restored(saved[t]).queue \in Seq(Prompts)
  <2>1. CASE saved[t] = NoDoc
    <3>1. Restored(saved[t]) = [task |-> NewTask, queue |-> <<>>]
      BY <2>1 DEF Restored
    <3> QED
      BY <3>1, NewTaskSound, EmptySeq
  <2>2. CASE saved[t] # NoDoc
    <3>1. PICK task \in TaskRecs, prompts \in Seq(Prompts) :
            Sound(task, resolved) /\ saved[t] = Document(task, prompts)
      BY <1>1, <2>2 DEF TaskInv
    <3>2. Restored(saved[t]) = [task |-> task, queue |-> prompts]
      BY <3>1, DocumentBack
    <3> QED
      BY <3>1, <3>2
  <2> QED
    BY <2>1, <2>2
<1>4. queue' \in [Tasks -> Seq(Prompts)]
  BY <1>2, <1>3 DEF TaskInv
<1>5. births' \in Nat /\ ops' \in Nat
  BY <1>2 DEF TaskInv, Restart, Op
<1>6. resolved \subseteq resolved' /\ Sound(Restored(saved[t]).task, resolved')
  BY <1>2, <1>3
<1> QED
  BY <1>1, <1>2, <1>4, <1>5, <1>6, BecomesInv DEF TaskInv

LEMMA QueueSteps ==
  ASSUME TaskInv, NEW t \in Live, TrySend(t) \/ (\E prompt \in Prompts : Push(t, prompt))
  PROVE  TaskInv'
<1>1. t \in Tasks /\ queue \in [Tasks -> Seq(Prompts)]
  BY DEF Live, TaskInv
<1>2. queue' \in [Tasks -> Seq(Prompts)]
  <2>1. CASE TrySend(t)
    <3>1. Tail(queue[t]) \in Seq(Prompts)
      BY <1>1, <2>1, HeadTailProperties DEF TrySend
    <3> QED
      BY <1>1, <2>1, <3>1 DEF TrySend
  <2>2. CASE \E prompt \in Prompts : Push(t, prompt)
    <3>1. PICK prompt \in Prompts : Push(t, prompt)
      BY <2>2
    <3>2. Append(queue[t], prompt) \in Seq(Prompts)
      BY <1>1, AppendProperties
    <3> QED
      BY <1>1, <3>1, <3>2 DEF Push
  <2> QED
    BY <2>1, <2>2
<1>3. /\ tasks' = tasks /\ saved' = saved /\ resolved' = resolved /\ births' = births /\ ops' \in Nat
  BY DEF TaskInv, TrySend, Push, Op
<1> QED
  BY <1>2, <1>3 DEF TaskInv, Live

LEMMA PersistStep ==
  ASSUME TaskInv, NEW t \in Live, Persist(t)
  PROVE  TaskInv'
<1>1. t \in Tasks /\ tasks[t] \in TaskRecs /\ Sound(tasks[t], resolved) /\ queue[t] \in Seq(Prompts)
  BY LiveRecs DEF TaskInv
<1>2. /\ tasks' = tasks /\ queue' = queue /\ resolved' = resolved /\ births' = births /\ ops' \in Nat
      /\ saved' = [saved EXCEPT ![t] = Document(tasks[t], queue[t])]
  BY DEF TaskInv, Persist, Op
<1>3. DOMAIN saved' = Tasks
  BY <1>2 DEF TaskInv
<1>4. ASSUME NEW u \in Tasks, saved'[u] # NoDoc
      PROVE  \E task \in TaskRecs, prompts \in Seq(Prompts) :
               Sound(task, resolved') /\ saved'[u] = Document(task, prompts)
  <2>1. CASE u = t
    <3>1. saved'[u] = Document(tasks[t], queue[t])
      BY <1>1, <1>2, <2>1 DEF TaskInv
    <3> QED
      BY <1>1, <1>2, <3>1
  <2>2. CASE u # t
    <3>1. saved'[u] = saved[u]
      BY <1>2, <2>2
    <3> QED
      BY <1>2, <1>4, <3>1 DEF TaskInv
  <2> QED
    BY <2>1, <2>2
<1> QED
  BY <1>2, <1>3, <1>4 DEF TaskInv, Live

LEMMA NextInv == TaskInv /\ [TaskNext]_taskVars => TaskInv'
<1> SUFFICES ASSUME TaskInv, [TaskNext]_taskVars PROVE TaskInv'
  OBVIOUS
<1>1. CASE UNCHANGED taskVars
  BY <1>1 DEF taskVars, TaskInv, Live
<1>2. CASE TaskNext
  <2>1. PICK t \in Live :
          \/ \E tag \in Tags, mark \in Marks : AppendSection(t, tag, mark)
          \/ \E n \in DOMAIN tasks[t].sections :
               \/ \E mark \in Marks : MutateContent(t, n, mark)
               \/ \E d \in Decisions : Decide(t, n, d)
               \/ Answer(t, n)
          \/ \E new \in Tasks, cut \in 0..(MaxSections - 1) : Fork(t, new, cut)
          \/ \E prompt \in Prompts : Push(t, prompt)
          \/ TrySend(t) \/ Persist(t) \/ Restart(t)
    BY <1>2 DEF TaskNext
  <2> QED
    BY <2>1, AppendStep, MutateStep, DecideStep, AnswerStep, ForkStep, QueueSteps, PersistStep,
       RestartStep
<1> QED
  BY <1>1, <1>2

(* Every task, and every task that was saved, is a well-formed log whose      *)
(* decisions and answers belong to gates somebody really resolved.            *)
THEOREM TaskInvariant == TaskSpec => []TaskInv
  BY InitInv, NextInv, PTL DEF TaskSpec

LEMMA InvIndexed == TaskInv => IndexedLog
<1> SUFFICES ASSUME TaskInv, NEW t \in Live
             PROVE  /\ tasks[t].next = Len(tasks[t].sections)
                    /\ \A n \in DOMAIN tasks[t].sections : tasks[t].sections[n].index = n - 1
                    /\ \A i \in DOMAIN tasks[t].decisions :
                         /\ i < tasks[t].next
                         /\ tasks[t].sections[i + 1].kind = "Approval"
                         /\ tasks[t].sections[i + 1].closed
  BY DEF IndexedLog
<1>1. Sound(tasks[t], resolved)
  BY DEF TaskInv
<1> QED
  BY <1>1, SoundParts DEF Sound, Decided

(* An index names one section for good: append, fork and restore keep the     *)
(* index of a section equal to its place in the log, and decisions on closed  *)
(* approvals of the same log.                                                 *)
THEOREM IndexedLogHolds == TaskSpec => []IndexedLog
  BY TaskInvariant, InvIndexed, PTL

LEMMA InvNoSilent == TaskInv => NoSilentApproval
<1> SUFFICES ASSUME TaskInv, NEW t \in Live, NEW n \in 1..MaxSections,
                    Newest(tasks[t], n), ~IsBlocked(tasks[t])
             PROVE  LET s == tasks[t].sections[n]
                    IN  \/ s.born \in resolved
                        \/ /\ s.kind = "Question"
                           /\ \E m \in DOMAIN tasks[t].sections :
                                tasks[t].sections[m].mark = s.index /\ tasks[t].sections[m].by = "caller"
  BY DEF NoSilentApproval
<1> DEFINE task == tasks[t]
           S == task.sections
<1>1. Sound(task, resolved)
  BY DEF TaskInv
<1>2. n \in DOMAIN S /\ S[n].kind \in {"Approval", "Question"} /\ n \in Gates(task)
  BY DEF Newest, Gates
<1>3. ~Unresolved(task, S[n])
  BY <1>2 DEF IsBlocked
<1> HIDE DEF task
<1>4. /\ DOMAIN S = 1..Len(S) /\ Len(S) \in Nat /\ n \in 1..Len(S) /\ S[n].index = n - 1
      /\ \A m \in 1..Len(S) : S[m] \in SectionRecs
  BY <1>1, <1>2, SoundParts
<1>5. CASE S[n].kind = "Approval"
  <2>1. n - 1 \in DOMAIN task.decisions
    BY <1>3, <1>4, <1>5 DEF Unresolved
  <2>2. S[(n - 1) + 1].born \in resolved
    BY <1>1, <2>1 DEF Sound, Decided
  <2>3. (n - 1) + 1 = n
    BY <1>4
  <2>4. S[n].born \in resolved
    BY <2>2, <2>3
  <2> QED
    BY <2>4 DEF task
<1>6. CASE S[n].kind = "Question"
  <2>1. PICK m \in 1..Len(S) : S[m].mark = n - 1
    BY <1>3, <1>4, <1>6 DEF Unresolved, HasAnswer
  <2>2. CASE S[m].by = "caller"
    BY <1>4, <1>6, <2>1, <2>2 DEF task
  <2>3. CASE S[m].by = "answer"
    <3>1. S[(n - 1) + 1].born \in resolved
      BY <1>1, <2>1, <2>3 DEF Sound, Answered
    <3>2. (n - 1) + 1 = n
      BY <1>4
    <3>3. S[n].born \in resolved
      BY <3>1, <3>2
    <3> QED
      BY <3>3 DEF task
  <2> QED
    BY <1>4, <2>2, <2>3 DEF SectionRecs
<1> QED
  BY <1>2, <1>5, <1>6

(* Nothing is approved by itself: a gate that no longer blocks its task was   *)
(* decided or answered, whatever was forked, saved and restored in between,   *)
(* or a caller wrote its marker (is_blocked, has_answer).                     *)
THEOREM NoSilentApprovalHolds == TaskSpec => []NoSilentApproval
  BY TaskInvariant, InvNoSilent, PTL

LEMMA InvRestart == TaskInv => RestartExact
<1> SUFFICES ASSUME TaskInv, NEW t \in Live
             PROVE  Restored(Document(tasks[t], queue[t])) = [task |-> tasks[t], queue |-> queue[t]]
  BY DEF RestartExact
<1> QED
  BY LiveRecs, DocumentBack

(* A restart loses nothing that was saved: restoring the document of any task *)
(* and queue the program reaches gives exactly them.                          *)
THEOREM RestartExactHolds == TaskSpec => []RestartExact
  BY TaskInvariant, InvRestart, PTL

-----------------------------------------------------------------------------
(* What a step may do to a closed section. *)
ClosedStep ==
  \A t \in Live : \A n \in DOMAIN tasks[t].sections :
    tasks[t].sections[n].closed =>
      \/ tasks'[t] = Restored(saved[t]).task
      \/ /\ n \in DOMAIN tasks'[t].sections
         /\ tasks'[t].sections[n] = tasks[t].sections[n]

LEMMA NextClosed == TaskInv /\ TaskNext => ClosedStep
<1> SUFFICES ASSUME TaskInv, TaskNext, NEW t \in Live, NEW n \in DOMAIN tasks[t].sections,
                    tasks[t].sections[n].closed
             PROVE  \/ tasks'[t] = Restored(saved[t]).task
                    \/ /\ n \in DOMAIN tasks'[t].sections
                       /\ tasks'[t].sections[n] = tasks[t].sections[n]
  BY DEF ClosedStep
<1>1. /\ t \in Tasks /\ tasks \in [Tasks -> TaskRecs \cup {NoTask}] /\ Sound(tasks[t], resolved)
      /\ births \in Nat
  BY DEF TaskInv, Live
<1>2. PICK u \in Live :
        \/ \E tag \in Tags, mark \in Marks : AppendSection(u, tag, mark)
        \/ \E m \in DOMAIN tasks[u].sections :
             \/ \E mark \in Marks : MutateContent(u, m, mark)
             \/ \E d \in Decisions : Decide(u, m, d)
             \/ Answer(u, m)
        \/ \E new \in Tasks, cut \in 0..(MaxSections - 1) : Fork(u, new, cut)
        \/ \E prompt \in Prompts : Push(u, prompt)
        \/ TrySend(u) \/ Persist(u) \/ Restart(u)
  BY DEF TaskNext
<1>3. Sound(tasks[u], resolved) /\ u \in Tasks
  BY DEF TaskInv, Live
<1> DEFINE S == tasks[t].sections
<1>4. /\ S \in Seq(SectionRecs) /\ Len(S) \in Nat /\ DOMAIN S = 1..Len(S)
      /\ \A m \in 1..Len(S) : S[m] \in SectionRecs
  BY <1>1, SoundParts
<1>5. CASE tasks'[t] = tasks[t]
  BY <1>5
<1>6. ASSUME NEW task, Becomes(u, task), u # t PROVE tasks'[t] = tasks[t]
  BY <1>6 DEF Becomes
<1>7. ASSUME NEW task, Becomes(t, task) PROVE tasks'[t] = task
  BY <1>1, <1>7 DEF Becomes
<1>8. CASE \E tag \in Tags, mark \in Marks : AppendSection(u, tag, mark)
  <2>1. PICK tag \in Tags, mark \in Marks : AppendSection(u, tag, mark)
    BY <1>8
  <2> DEFINE new == Appended(tasks[u], FromTag(tag), mark, "caller")
  <2>2. Becomes(u, new) /\ mark \in Int
    BY <2>1, TaskAssumption DEF AppendSection, Marks, NoMark
  <2>3. /\ Sound(new, resolved) /\ Len(new.sections) = Len(tasks[u].sections) + 1
        /\ \A m \in 1..Len(tasks[u].sections) : new.sections[m] = tasks[u].sections[m]
    BY <1>1, <1>3, <2>2, FromTagKind, AppendedSound
  <2> HIDE DEF new
  <2>4. DOMAIN new.sections = 1..Len(new.sections)
    BY <2>3, SoundParts
  <2>5. CASE u = t
    BY <1>4, <1>7, <2>2, <2>3, <2>4, <2>5
  <2> QED
    BY <1>5, <1>6, <2>2, <2>5
<1>9. CASE \E m \in DOMAIN tasks[u].sections, mark \in Marks : MutateContent(u, m, mark)
  <2>1. PICK m \in DOMAIN tasks[u].sections, mark \in Marks : MutateContent(u, m, mark)
    BY <1>9
  <2> DEFINE new == [tasks[u] EXCEPT !.sections[m] = [@ EXCEPT !.mark = mark, !.by = "caller"]]
  <2>2. /\ Becomes(u, new) /\ mark \in Int /\ ~tasks[u].sections[m].closed
        /\ m \in 1..Len(tasks[u].sections)
    BY <1>3, <2>1, TaskAssumption, SoundParts DEF MutateContent, Marks, NoMark
  <2>3. /\ Sound(new, resolved) /\ Len(new.sections) = Len(tasks[u].sections)
        /\ \A j \in 1..Len(tasks[u].sections) : j # m => new.sections[j] = tasks[u].sections[j]
    BY <1>3, <2>2, MutatedSound, ZenonT(60)
  <2> HIDE DEF new
  <2>4. DOMAIN new.sections = 1..Len(new.sections)
    BY <2>3, SoundParts
  <2>5. CASE u = t
    <3>1. n # m
      BY <2>2, <2>5
    <3> QED
      BY <1>4, <1>7, <2>2, <2>3, <2>4, <2>5, <3>1
  <2> QED
    BY <1>5, <1>6, <2>2, <2>5
<1>10. CASE \E m \in DOMAIN tasks[u].sections, d \in Decisions : Decide(u, m, d)
  <2>1. PICK m \in DOMAIN tasks[u].sections, d \in Decisions : Decide(u, m, d)
    BY <1>10
  <2>2. /\ u # t => tasks'[t] = tasks[t]
        /\ tasks'[u].sections = WithClosed(tasks[u].sections, m)
    BY <1>1, <2>1, DecideStep
  <2>3. CASE u = t
    <3> DEFINE T == WithClosed(S, m)
    <3>1. n \in DOMAIN T /\ T[n] = S[n]
      <4>1. S \in Seq(SectionRecs) /\ m \in 1..Len(S) /\ n \in 1..Len(S) /\ S[n].closed
        BY <1>4, <2>1, <2>3
      <4> HIDE DEF S
      <4> QED
        BY <4>1, CloseKeepsClosed
    <3>2. tasks'[t].sections = T
      BY <2>2, <2>3
    <3> HIDE DEF T
    <3> QED
      BY <3>1, <3>2
  <2> QED
    BY <1>5, <2>2, <2>3
<1>11. CASE \E m \in DOMAIN tasks[u].sections : Answer(u, m)
  <2>1. PICK m \in DOMAIN tasks[u].sections : Answer(u, m)
    BY <1>11
  <2>2. CASE u = t
    BY <2>1, <2>2, AnswerStep
  <2>3. CASE u # t
    BY <1>1, <1>5, <2>1, <2>3, AnswerStep
  <2> QED
    BY <2>2, <2>3
<1>12. CASE \E new \in Tasks, cut \in 0..(MaxSections - 1) : Fork(u, new, cut)
  <2>1. PICK new \in Tasks, cut \in 0..(MaxSections - 1) : Fork(u, new, cut)
    BY <1>12
  <2>2. new # t /\ Becomes(new, Forked(tasks[u], cut))
    BY <2>1 DEF Fork
  <2>3. tasks'[t] = tasks[t]
    BY <2>2 DEF Becomes
  <2> QED
    BY <1>5, <2>3
<1>13. CASE (\E prompt \in Prompts : Push(u, prompt)) \/ TrySend(u) \/ Persist(u)
  BY <1>13 DEF Push, TrySend, Persist
<1>14. CASE Restart(u)
  <2>1. Becomes(u, Restored(saved[u]).task)
    BY <1>14 DEF Restart
  <2>2. CASE u = t
    BY <1>7, <2>1, <2>2
  <2> QED
    BY <1>5, <1>6, <2>1, <2>2
<1> QED
  BY <1>2, <1>8, <1>9, <1>10, <1>11, <1>12, <1>13, <1>14

(* A closed section is never changed, dropped or opened again, in the task or *)
(* through a fork of it; only a restart goes back to the saved log.           *)
THEOREM ClosedKeptHolds == TaskSpec => ClosedKept
<1>1. TaskInv /\ [TaskNext]_taskVars => [ClosedStep]_taskVars
  BY NextClosed
<1>2. TaskSpec => [][ClosedStep]_taskVars
  BY <1>1, TaskInvariant, PTL DEF TaskSpec
<1> QED
  BY <1>2 DEF ClosedKept, ClosedStep

=============================================================================
