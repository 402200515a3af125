---------------------------- MODULE MCCollector ----------------------------
(* The instance of the collector for TLC: three addresses, of which one    *)
(* holds a string.                                                         *)
EXTENDS Collector

CONSTANTS a1, a2, s1

ThreeObjects == {a1, a2, s1}
OneString == {s1}

=============================================================================
