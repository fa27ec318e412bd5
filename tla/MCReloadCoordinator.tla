------------------------ MODULE MCReloadCoordinator ------------------------
(* Model-checking instance of ReloadCoordinator: two callbacks, one valid  *)
(* and one invalid API definition, up to two source versions, one retry. *)
EXTENDS ReloadCoordinator, TLC

CONSTANTS c1, c2, a1, a2

MCCallbacks == {c1, c2}
\* a single caller, for the violation runs
MCOneCallback == {c1}
MCApis      == {a1, a2}
MCInvalid   == {a2}
\* the callbacks are interchangeable: nothing in the model inspects one
MCCallbackSymmetry == Permutations(MCCallbacks)
\* The safety run explores no step after gw.ctx is cancelled: the loops'
\* return branches only end behaviours, and the liveness run covers them.
MCGatewayLive == ~ctxDone
=============================================================================
