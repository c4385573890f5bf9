-------------------------- MODULE MCAdvisoryLoop --------------------------
(* Two plugin streams, each calling ListAndWatch up to three times.       *)
EXTENDS AdvisoryLoop, TLC

CONSTANTS s1, s2

MCSessions == {s1, s2}
MCSymmetry == Permutations(MCSessions)
=============================================================================
