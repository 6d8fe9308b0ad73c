----------------------------- MODULE MCStopAll -----------------------------
(***************************************************************************)
(* TLC instances of StopAll: two workers, one or two callers of            *)
(* stop_all() and one or two signals.                                      *)
(***************************************************************************)
EXTENDS StopAll

CONSTANTS w1, w2, c1, c2, sigint, sigterm

MCWorkers == {w1, w2}
MCCallers == {c1, c2}
MCOneCaller == {c1}
MCSignals == {sigint, sigterm}
MCOneSignal == {sigint}

=============================================================================
