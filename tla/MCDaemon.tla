------------------------------ MODULE MCDaemon ------------------------------
(* Instances of the attach plane.  Windows are model values w1, w2; other    *)
(* peers are p1 and p2.                                                      *)
EXTENDS Daemon, TLC

CONSTANTS w1, w2, p1, p2

Writer(leaf)   == Attach(leaf, FALSE, 1, 1)
Observer(leaf) == Attach(leaf, TRUE, 1, 1)
Writer2(leaf)   == Attach(leaf, FALSE, 2, 1)
Observer2(leaf) == Attach(leaf, TRUE, 2, 1)

\* window: windows opened, closed and reopened on one leaf
TwoWindows == {w1, w2}
OneLeaf == {1}
NoFrames == {}
NoFreedom == {}
WindowFreedom == {"close", "exit"}

\* claims: two peers contend for two leaves with every kind of frame
TwoPeers == {p1, p2}
PeerSymmetry == Permutations(TwoPeers)
NoHosts == {}
TwoLeaves == {1, 2}
ClaimFrames == {Writer(NoLeaf), Observer(1), Writer2(2), Writer(9), Attach(1, FALSE, 3, 1),
                Credit(1), Data, Resize, Other, Bad}
ClaimFreedom == {"overlap", "close", "eager", "clock"}

\* worker: a window and a protocol-2 observer short of credit
WindowAndPeer == {w1, p1}
OneWindow == {w1}
WorkerFrames == {Observer2(1), Credit(1)}
WorkerFreedom == {"overlap", "exit"}

\* the violations: a peer that observes and then writes; two windows, one of
\* them typing; a shell that exits; a window that stays open past the lease,
\* and one whose shell writes
ObserveThenWrite == {Observer(1), Writer(1)}
ReattachFreedom == {"overlap", "late"}
TypeOverlap == {"overlap", "type"}
ExitFreedom == {"exit"}
ClockFreedom == {"clock"}
=============================================================================
