----------------------- MODULE MCProcRuntimeFreeRTOS -----------------------
(* A small instance of ProcRuntimeFreeRTOS for TLC. *)
EXTENDS ProcRuntimeFreeRTOS

CONSTANTS t1, t2, r1, r2, s1

TwoTasks == {t1, t2}
TwoRouters == {r1, r2}
OneStopper == {s1}
=============================================================================
