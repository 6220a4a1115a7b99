--------------------------- MODULE MCInboundQueue ---------------------------
(***************************************************************************)
(* Instances of InboundQueue for TLC: messages of one sender, the first of *)
(* which may be delivered twice.                                           *)
(***************************************************************************)
EXTENDS InboundQueue, TLC

CONSTANTS alice, m1, m2, d1, d2, again

MCSender == [m \in Messages |-> alice]
MCMessageOf == [d \in Deliveries |-> IF d = d2 THEN m2 ELSE m1]

RunSymmetry == Permutations(Runs)
RunProcessSymmetry == Permutations(Runs) \cup Permutations(Processes)
=============================================================================
