---------------------------- MODULE ColdRequest ----------------------------
(***************************************************************************)
(* What the cold sockets promise a window, without the sockets: a request  *)
(* is carried out at most once, in one step, by whichever worker there is; *)
(* the window is told that it succeeded only after it was; and what was    *)
(* carried out is in the timeline or the tabs until that worker ends.  A   *)
(* window may give up at any time, before or after its request is carried  *)
(* out.                                                                    *)
(***************************************************************************)
EXTENDS Naturals, Sequences

CONSTANTS MaxRequests, MaxItems, Ops

VARIABLES
  asked,        \* what request i asks, "none" before it is made
  told,         \* what its window knows
  done,         \* what became of it
  timeline,     \* the submissions in the content timeline
  tabs          \* the requests that made a tab

vars == <<asked, told, done, timeline, tabs>>

Requests == 1..MaxRequests

Init ==
  /\ asked = [i \in Requests |-> "none"]
  /\ told = [i \in Requests |-> "none"]
  /\ done = [i \in Requests |-> "no"]
  /\ timeline = <<>> /\ tabs = <<>>

Ask(i) ==
  /\ asked[i] = "none"
  /\ \E o \in Ops : asked' = [asked EXCEPT ![i] = o]
  /\ told' = [told EXCEPT ![i] = "waiting"]
  /\ UNCHANGED <<done, timeline, tabs>>

\* A refusal leaves everything as it is.
Refuse(i) ==
  /\ asked[i] = "refused" \/ (asked[i] = "submit" /\ Len(timeline) >= MaxItems)
  /\ done' = [done EXCEPT ![i] = "refused"]
  /\ UNCHANGED <<timeline, tabs>>

Perform(i) ==
  /\ \/ asked[i] = "read" /\ UNCHANGED <<timeline, tabs>>
     \/ /\ asked[i] = "submit" /\ Len(timeline) < MaxItems
        /\ timeline' = Append(timeline, i) /\ UNCHANGED tabs
     \/ asked[i] = "tab" /\ tabs' = Append(tabs, i) /\ UNCHANGED timeline
  /\ done' = [done EXCEPT ![i] = "yes"]

Serve(i) ==
  /\ done[i] = "no"
  /\ Refuse(i) \/ Perform(i)
  /\ UNCHANGED <<asked, told>>

Succeed(i) ==
  /\ told[i] = "waiting" /\ done[i] = "yes"
  /\ told' = [told EXCEPT ![i] = "ok"]
  /\ UNCHANGED <<asked, done, timeline, tabs>>

GiveUp(i) ==
  /\ told[i] = "waiting"
  /\ told' = [told EXCEPT ![i] = "failed"]
  /\ UNCHANGED <<asked, done, timeline, tabs>>

\* The worker ends: its timeline and its tabs are gone, and what it had
\* carried out is not carried out again.
Forget ==
  /\ timeline' = <<>> /\ tabs' = <<>>
  /\ UNCHANGED <<asked, told, done>>

Next ==
  \/ \E i \in Requests : Ask(i) \/ Serve(i) \/ Succeed(i) \/ GiveUp(i)
  \/ Forget

Spec == Init /\ [][Next]_vars

=============================================================================
