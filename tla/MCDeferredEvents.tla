-------------------------- MODULE MCDeferredEvents --------------------------
(* Model-checking instance of DeferredEvents: two pushes on two channels, *)
(* up to two records per push, and zero, one or two flushers.             *)
EXTENDS DeferredEvents, TLC

CONSTANTS b1, b2, c1, c2, f1, f2

TwoPushes   == {b1, b2}
MCChannels  == {c1, c2}
TwoFlushers == {f1, f2}
OneFlusher  == {f1}
NoFlushers  == {}

Symmetry  == Permutations(TwoPushes) \cup Permutations(MCChannels)
=============================================================================
