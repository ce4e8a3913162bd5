------------------------------ MODULE MCTailer -------------------------------
(* Instances of Tailer for TLC.                                               *)
EXTENDS Tailer

(* A filter that has to see the whole line: it accepts lines with an a.       *)
ContainsA(l) == \E i \in DOMAIN l : l[i] = "a"
=============================================================================
