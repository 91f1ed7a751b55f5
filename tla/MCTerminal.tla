----------------------------- MODULE MCTerminal -----------------------------
(* Terminal with a small grid and the chunks below.                        *)
EXTENDS Terminal

MCWide == {26085, 12441}   \* U+65E5, U+3099
MCMark == {769, 12441}     \* U+0301, U+3099
MCPalette == [ansi |-> [n \in 0..15 |-> 1000 + n], fg |-> 1, bg |-> 2]

E == <<27>>
C(bytes) == <<27, 91>> \o bytes
Han == <<230, 151, 165>>
RI == <<240, 159, 135, 166>>

CR == <<13>>
LF == <<10>>
Alt == C(<<63, 49, 48, 52, 57, 104>>)

\* Three rows with pairs in three places; a scroll down, a row
\* filled, its wrap saved; an
\* alternate screen over a primary with pairs; half a flag above a pair.
MCFirst == {
  <<97>> \o Han \o <<98>> \o CR \o LF \o Han \o <<99>> \o CR \o LF \o <<100, 101>> \o Han,
  E \o <<77>> \o C(<<55, 59, 52, 49, 109>>) \o <<97, 98, 99, 100>> \o E \o <<55>>,
  <<97>> \o Han \o CR \o LF \o <<98>> \o E \o <<55>> \o Alt \o Han \o <<99>>,
  LF \o Han \o C(<<49, 59, 50, 72>>) \o RI }

Text == {
  <<97, 98>>,                       \* ab
  Han,
  <<230, 151>>, <<165>>,            \* a wide character in two chunks
  <<204, 129, 226, 128, 141>>,      \* a combining mark and ZWJ
  <<227, 130, 153>>,                \* a mark that is wide
  RI }

Controls == {
  CR \o LF, <<8, 9>>,
  E \o <<55>>, E \o <<56>>,         \* DECSC, DECRC
  E \o <<68>> }                     \* IND

Csis == {
  C(<<49, 59, 50, 102>>),           \* HVP to row 1, column 2
  C(<<50, 59, 51, 114>>),           \* DECSTBM 2;3
  C(<<64>>), C(<<80>>), C(<<88>>),  \* ICH, DCH, ECH
  C(<<49, 75>>), C(<<50, 74>>),     \* EL 1, ED 2
  C(<<76>>), C(<<77>>), C(<<83>>),  \* IL, DL, SU
  C(<<63, 55, 108>>),               \* no autowrap
  C(<<63, 49, 48, 48, 48, 104>>)    \* mouse reports, then a sequence with
    \o C(<<49, 59, 49, 59, 49, 59, 49, 72>>)  \* too many parameters
    \o C(<<54, 110>>) \o C(<<54, 110>>) \o C(<<99>>),   \* DSR twice, DA
  Alt, C(<<63, 49, 48, 52, 57, 108>>),
  C(<<>>) }                         \* a sequence cut short

MCChunks == Text \cup Controls \cup Csis
MCInsertChunks == { C(<<64>>) }
MCSizes == { <<3, 3>>, <<5, 2>>, <<0, 3>> }
MCProbes == { <<204, 129, 97>>, C(<<63, 49, 48, 52, 57, 108>>) \o E \o <<56, 97>> }

=============================================================================
