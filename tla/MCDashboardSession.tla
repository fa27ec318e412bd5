------------------------ MODULE MCDashboardSession -------------------------
(* Model-checking instance of DashboardSession: the startup heartbeat      *)
(* goroutine and one more for reLogin.                                    *)
EXTENDS DashboardSession, TLC

CONSTANTS b1, b2

MCBeats == {b1, b2}
=============================================================================
