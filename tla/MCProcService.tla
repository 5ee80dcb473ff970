--------------------------- MODULE MCProcService ---------------------------
(* Small instances of ProcService for TLC. *)
EXTENDS ProcService

CONSTANTS c1, c2, r1, r2, s1, p1, p2

TwoClients == {c1, c2}
OneRouter == {r1}
TwoRouters == {r1, r2}
OneSlot == {s1}
TwoProcs == {p1, p2}
OneOversized == {p2}
NoneOversized == {}

=============================================================================
