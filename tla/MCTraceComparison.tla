------------------------- MODULE MCTraceComparison -------------------------
(* The manifests of MCConformance; the traces of some are compared.        *)
EXTENDS MCConformance, TraceComparison

(* From the text at 6, the EI at 1 and the HALT at 3, with an NMI or an    *)
(* INT waiting                                                             *)
ComparedManifests ==
  {m \in Manifests : m.pc \in {1, 3, 6} /\ m.sp = 10 /\ m.iff1 /\ m.eiDelay = 0
                       /\ ~m.halted /\ m.nmiPending = (m.pc = 3)
                       /\ m.im = 0 /\ m.intVector # 1}

=============================================================================
