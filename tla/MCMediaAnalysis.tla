-------------------------- MODULE MCMediaAnalysis --------------------------
(* MediaAnalysis on a small instance. *)
EXTENDS MediaAnalysis, TLC

CONSTANTS t1, t2

MCThreads == {t1, t2}
MCOneThread == {t1}
=============================================================================
