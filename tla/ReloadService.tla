---------------------------- MODULE ReloadService ----------------------------
(***************************************************************************)
(* What reloadURLStructure promises its callers (gateway/server.go, its    *)
(* doc comment): a call queues a reload, and `done` is called when the     *)
(* reload is finished; a reload already queued is shared, `done` still     *)
(* being called when it finishes.                                          *)
(*                                                                         *)
(* A callback is pending from its request until a reload completes it.     *)
(* One completion finishes any non-empty set of pending callbacks, and     *)
(* calls each of them once.  Cancellation of the gateway's context ends    *)
(* the promise that pending callbacks are eventually called, but a         *)
(* completion may still happen after it.  ReloadCoordinator implements     *)
(* this specification.                                                     *)
(***************************************************************************)
EXTENDS Naturals

CONSTANT Callbacks

VARIABLES
    pending,    \* callbacks queued and not yet called
    calls,      \* number of times each callback has been called
    cancelled   \* the gateway is shutting down

vars == <<pending, calls, cancelled>>

TypeOK ==
    /\ pending \subseteq Callbacks
    /\ calls \in [Callbacks -> Nat]
    /\ cancelled \in BOOLEAN

Init ==
    /\ pending = {}
    /\ calls = [c \in Callbacks |-> 0]
    /\ cancelled = FALSE

\* reloadURLStructure(c): each `done` is handed over once.
Request(c) ==
    /\ c \notin pending /\ calls[c] = 0
    /\ pending' = pending \cup {c}
    /\ UNCHANGED <<calls, cancelled>>

\* A reload finishes and calls the callbacks it was queued for.
Complete(S) ==
    /\ S # {} /\ S \subseteq pending
    /\ pending' = pending \ S
    /\ calls' = [c \in Callbacks |-> IF c \in S THEN calls[c] + 1 ELSE calls[c]]
    /\ UNCHANGED cancelled

Cancel ==
    /\ ~cancelled
    /\ cancelled' = TRUE
    /\ UNCHANGED <<pending, calls>>

Next ==
    \/ \E c \in Callbacks : Request(c)
    \/ \E S \in SUBSET Callbacks : Complete(S)
    \/ Cancel

\* While the gateway runs, a pending callback is eventually completed.
CompletesWhileLive(c) ==
    /\ ~cancelled /\ c \in pending
    /\ \E S \in SUBSET Callbacks : c \in S /\ Complete(S)

Spec == Init /\ [][Next]_vars /\ \A c \in Callbacks : WF_vars(CompletesWhileLive(c))
=============================================================================
