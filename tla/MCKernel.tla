------------------------------ MODULE MCKernel ------------------------------
(* The byte history of a session and the kernel's graph share no state, so *)
(* no behaviour needs both: each is run with the other as it was made.     *)
EXTENDS ByteRing, Graph

\* Two distinguishable bytes, a ring of three, chunks that fit, fill and
\* overrun it, and enough bytes to evict twice over.
MCByte == {0, 1}

\* No operation looks at a node's kind, so one is enough.
MCKind == {"Tab"}

KernelInit == NewRing /\ New
KernelNext ==
  \/ New /\ RingNext /\ UNCHANGED vars
  \/ NewRing /\ Next /\ UNCHANGED ringVars

KernelSpec == KernelInit /\ [][KernelNext]_<<ringVars, vars>>
=============================================================================
