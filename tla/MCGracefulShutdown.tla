------------------------ MODULE MCGracefulShutdown -------------------------
(* Model-checking instance of GracefulShutdown: two HTTP servers and one   *)
(* TCP proxy.                                                             *)
EXTENDS GracefulShutdown, TLC

CONSTANTS s1, s2, s3

MCServers == {s1, s2, s3}
MCKind == (s1 :> "http") @@ (s2 :> "http") @@ (s3 :> "tcp")
=============================================================================
