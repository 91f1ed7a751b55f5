------------------------------ MODULE VtParser ------------------------------
(***************************************************************************)
(* The byte state machine of the terminal engine (vt-engine/parser.rs).    *)
(* It holds no grid: each byte changes the parser and yields at most one   *)
(* call of the Actions trait, which module VtScreen applies.               *)
(*                                                                         *)
(* Step(p, b) is Parser::step.  Its result holds the new parser, the call, *)
(* and whether the byte was put back and has to be stepped again.  The     *)
(* payload of an OSC is only counted: the screen takes the default, empty  *)
(* osc.                                                                    *)
(***************************************************************************)
EXTENDS Integers, Sequences

CONSTANTS
  MaxParams,   \* MAX_PARAMS, 32 in the code
  MaxInter,    \* MAX_INTER, 2 in the code
  MaxOsc       \* MAX_OSC, 1024 in the code

ASSUME ParserBoundsAssumption == {MaxParams, MaxInter, MaxOsc} \subseteq Nat

U16Max == 65535
Replacement == 65533   \* U+FFFD

(***************************************************************************)
(* Bytes                                                                   *)
(***************************************************************************)

C0 == 0..23 \cup {25} \cup 28..31   \* executed wherever they stand
Cancel == {24, 26}                  \* CAN, SUB
ESC == 27
BEL == 7
ST == 92                            \* the backslash of ESC \
Digit == 48..57
Separator == {58, 59}               \* : and ;
Marker == 60..63                    \* < = > ?
Intermediate == 32..47
FinalByte == 64..126
Continuation == 128..191

(***************************************************************************)
(* Calls of the Actions trait                                              *)
(***************************************************************************)

NoCall == [k |-> "none"]
PrintCall(c) == [k |-> "print", c |-> c]
Execute(b) == [k |-> "execute", b |-> b]
Csi(params, inter, ignore, action) ==
  [k |-> "csi", params |-> params, inter |-> inter, ignore |-> ignore,
   action |-> action]
Esc(inter, b) == [k |-> "esc", inter |-> inter, b |-> b]

(***************************************************************************)
(* The parser                                                              *)
(***************************************************************************)

NewParser ==
  [st |-> "Ground", params |-> <<>>, acc |-> 0, inter |-> <<>>,
   ignore |-> FALSE, osc |-> 0, utf8 |-> <<>>, needed |-> 0]

\* Parser::is_idle: a checkpoint may be exported.
IsIdle(p) == p.st = "Ground" /\ p.utf8 = <<>>

ResetSeq(p) ==
  [p EXCEPT !.params = <<>>, !.acc = 0, !.inter = <<>>, !.ignore = FALSE,
            !.osc = 0]

Then(p, call) == [p |-> p, call |-> call, again |-> FALSE]
Reprocess(p, call) == [p |-> p, call |-> call, again |-> TRUE]
Goto(p, st) == [p EXCEPT !.st = st]

PushInter(p, b) ==
  IF Len(p.inter) < MaxInter THEN [p EXCEPT !.inter = Append(@, b)]
                             ELSE [p EXCEPT !.ignore = TRUE]

PushDigit(p, b) ==
  LET acc == p.acc * 10 + (b - 48)
  IN  [p EXCEPT !.acc = IF acc > U16Max THEN U16Max ELSE acc]

FinishParam(p) ==
  IF Len(p.params) < MaxParams
  THEN [p EXCEPT !.params = Append(@, p.acc), !.acc = 0]
  ELSE [p EXCEPT !.ignore = TRUE, !.acc = 0]

PushOsc(p) ==
  IF p.osc < MaxOsc THEN [p EXCEPT !.osc = @ + 1] ELSE [p EXCEPT !.ignore = TRUE]

(***************************************************************************)
(* decode_utf8: the scalar a complete sequence encodes, or U+FFFD when it  *)
(* is overlong, a surrogate or beyond U+10FFFF.                            *)
(***************************************************************************)
DecodeUtf8(u) ==
  LET n    == Len(u)
      lead == u[1] % (CASE n = 2 -> 32 [] n = 3 -> 16 [] n = 4 -> 8)
      v[i \in 1..n] == IF i = 1 THEN lead ELSE v[i - 1] * 64 + (u[i] - 128)
      least == CASE n = 2 -> 128 [] n = 3 -> 2048 [] n = 4 -> 65536
  IN  IF v[n] < least \/ v[n] \in 55296..57343 \/ v[n] > 1114111
      THEN Replacement ELSE v[n]

StartUtf8(p, lead, n) == [p EXCEPT !.utf8 = <<lead>>, !.needed = n]
ClearUtf8(p) == [p EXCEPT !.utf8 = <<>>, !.needed = 0]

Utf8Continue(p, b) ==
  IF b \notin Continuation THEN Reprocess(ClearUtf8(p), PrintCall(Replacement))
  ELSE IF Len(p.utf8) + 1 = p.needed
       THEN Then(ClearUtf8(p), PrintCall(DecodeUtf8(Append(p.utf8, b))))
       ELSE Then([p EXCEPT !.utf8 = Append(@, b)], NoCall)

Ground(p, b) ==
  CASE p.needed > 0      -> Utf8Continue(p, b)
    [] p.needed = 0 /\ b \in C0          -> Then(p, Execute(b))
    [] p.needed = 0 /\ b \in Cancel      -> Then(ResetSeq(p), Execute(b))
    [] p.needed = 0 /\ b = ESC           -> Then(Goto(ResetSeq(p), "Escape"), NoCall)
    [] p.needed = 0 /\ b \in 32..126     -> Then(p, PrintCall(b))
    [] p.needed = 0 /\ b = 127           -> Then(p, NoCall)
    [] p.needed = 0 /\ b \in 194..223    -> Then(StartUtf8(p, b, 2), NoCall)
    [] p.needed = 0 /\ b \in 224..239    -> Then(StartUtf8(p, b, 3), NoCall)
    [] p.needed = 0 /\ b \in 240..244    -> Then(StartUtf8(p, b, 4), NoCall)
    [] OTHER                             -> Then(p, PrintCall(Replacement))

(***************************************************************************)
(* Escape and control sequences                                            *)
(***************************************************************************)

EscDispatch(p, b) == Then(Goto(ResetSeq(p), "Ground"), Esc(p.inter, b))
Abandon(p) == Then(Goto(ResetSeq(p), "Ground"), NoCall)
Restart(p) == Then(Goto(ResetSeq(p), "Escape"), NoCall)

Escape(p, b) ==
  CASE b \in C0                -> Then(p, Execute(b))
    [] b \in Cancel            -> Then(Goto(p, "Ground"), Execute(b))
    [] b = ESC                 -> Then(ResetSeq(p), NoCall)
    [] b \in Intermediate      -> Then(Goto(PushInter(p, b), "EscapeIntermediate"), NoCall)
    [] b = 80                  -> Then(Goto(ResetSeq(p), "DcsPassthrough"), NoCall)
    [] b \in {88, 94, 95}      -> Then(Goto(ResetSeq(p), "SosPmApc"), NoCall)
    [] b = 91                  -> Then(Goto(ResetSeq(p), "CsiEntry"), NoCall)
    [] b = 93                  -> Then(Goto(ResetSeq(p), "OscString"), NoCall)
    [] b = 127                 -> Then(p, NoCall)
    [] b \in 48..126 \ {80, 88, 91, 93, 94, 95} -> EscDispatch(p, b)
    [] OTHER                   -> Abandon(p)

EscapeIntermediate(p, b) ==
  CASE b \in C0           -> Then(p, Execute(b))
    [] b \in Cancel       -> Then(Goto(p, "Ground"), Execute(b))
    [] b = ESC            -> Restart(p)
    [] b \in Intermediate -> Then(PushInter(p, b), NoCall)
    [] b \in 48..126      -> EscDispatch(p, b)
    [] OTHER              -> Abandon(p)

DispatchCsi(p, b) ==
  Then(Goto(ResetSeq(p), "Ground"), Csi(p.params, p.inter, p.ignore, b))

CsiEntry(p, b) ==
  CASE b \in Intermediate -> Then(Goto(PushInter(p, b), "CsiIntermediate"), NoCall)
    [] b \in Digit        -> Then(Goto(PushDigit(p, b), "CsiParam"), NoCall)
    [] b \in Separator    -> Then(Goto(FinishParam(p), "CsiParam"), NoCall)
    [] b \in Marker       -> Then(Goto(PushInter(p, b), "CsiParam"), NoCall)
    [] b \in FinalByte    -> DispatchCsi(p, b)
    [] b = 127            -> Then(p, NoCall)
    [] OTHER              -> Then(Goto([p EXCEPT !.ignore = TRUE], "CsiParam"), NoCall)

CsiParam(p, b) ==
  CASE b \in Intermediate -> Then(Goto(PushInter(FinishParam(p), b), "CsiIntermediate"), NoCall)
    [] b \in Digit        -> Then(PushDigit(p, b), NoCall)
    [] b \in Separator    -> Then(FinishParam(p), NoCall)
    [] b \in Marker       -> Then(Goto(p, "CsiIgnore"), NoCall)
    [] b \in FinalByte    -> DispatchCsi(FinishParam(p), b)
    [] b = 127            -> Then(p, NoCall)
    [] OTHER              -> Then([p EXCEPT !.ignore = TRUE], NoCall)

CsiIntermediate(p, b) ==
  CASE b \in Intermediate -> Then(PushInter(p, b), NoCall)
    [] b \in 48..63       -> Then(Goto(p, "CsiIgnore"), NoCall)
    [] b \in FinalByte    -> DispatchCsi(p, b)
    [] OTHER              -> Then(Goto([p EXCEPT !.ignore = TRUE], "CsiIgnore"), NoCall)

CsiIgnore(p, b) == IF b \in FinalByte THEN Abandon(p) ELSE Then(p, NoCall)

\* What the four CSI states do with a control byte.
CsiControl(p, b) ==
  CASE b \in C0     -> Then(p, Execute(b))
    [] b \in Cancel -> Then(Goto(p, "Ground"), Execute(b))
    [] b = ESC      -> Restart(p)

(***************************************************************************)
(* Strings: OSC, DCS, and SOS, PM or APC.  An ESC that does not begin ST   *)
(* abandons the string and starts a new sequence.                          *)
(***************************************************************************)

OscString(p, b) ==
  CASE b = BEL        -> Abandon(p)
    [] b = ESC        -> Then(Goto(p, "OscEscape"), NoCall)
    [] b \in Cancel   -> Then(Goto(ResetSeq(p), "Ground"), Execute(b))
    [] OTHER          -> Then(PushOsc(p), NoCall)

DcsPassthrough(p, b) ==
  CASE b = ESC        -> Then(Goto(p, "DcsEscape"), NoCall)
    [] b \in Cancel   -> Then(Goto(ResetSeq(p), "Ground"), Execute(b))
    [] OTHER          -> Then(p, NoCall)

Sos(p, b) ==
  CASE b = ESC        -> Then(Goto(p, "SosEscape"), NoCall)
    [] b \in Cancel   -> Abandon(p)
    [] OTHER          -> Then(p, NoCall)

StringEscape(p, b) ==
  IF b = ST THEN Abandon(p) ELSE Reprocess(Goto(ResetSeq(p), "Escape"), NoCall)

CsiStates == {"CsiEntry", "CsiParam", "CsiIntermediate", "CsiIgnore"}

Step(p, b) ==
  CASE p.st = "Ground"             -> Ground(p, b)
    [] p.st = "Escape"             -> Escape(p, b)
    [] p.st = "EscapeIntermediate" -> EscapeIntermediate(p, b)
    [] p.st \in CsiStates /\ b \in C0 \cup Cancel \cup {ESC} -> CsiControl(p, b)
    [] p.st = "CsiEntry" /\ b \notin C0 \cup Cancel \cup {ESC} -> CsiEntry(p, b)
    [] p.st = "CsiParam" /\ b \notin C0 \cup Cancel \cup {ESC} -> CsiParam(p, b)
    [] p.st = "CsiIntermediate" /\ b \notin C0 \cup Cancel \cup {ESC} -> CsiIntermediate(p, b)
    [] p.st = "CsiIgnore" /\ b \notin C0 \cup Cancel \cup {ESC} -> CsiIgnore(p, b)
    [] p.st = "OscString"          -> OscString(p, b)
    [] p.st = "DcsPassthrough"     -> DcsPassthrough(p, b)
    [] p.st = "SosPmApc"           -> Sos(p, b)
    [] p.st \in {"OscEscape", "DcsEscape", "SosEscape"} -> StringEscape(p, b)

=============================================================================
