--------------------------- MODULE MCProcRuntime ---------------------------
(* Small instances of ProcRuntime for TLC. *)
EXTENDS ProcRuntime, TLC

CONSTANTS t1, t2, t3, t4, r1, r2, s1

TwoThreads == {t1, t2}
ThreeThreads == {t1, t2, t3}
FourThreads == {t1, t2, t3, t4}
OneRouter == {r1}
TwoRouters == {r1, r2}
NoStopper == {}
OneStopper == {s1}

\* Threads and routers are interchangeable: only safety runs use this.
Symmetry == Permutations(Threads) \cup Permutations(Routers)
=============================================================================
