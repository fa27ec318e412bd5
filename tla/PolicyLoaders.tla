---------------------------- MODULE PolicyLoaders ----------------------------
(***************************************************************************)
(* syncPolicies (gateway/server.go) and the four policy loaders it picks   *)
(* from by Policies.PolicySource (src/unnamed/part_001, policy.go):        *)
(*                                                                         *)
(*  - "service": LoadPoliciesFromDashboard fetches {Message, Nonce} and    *)
(*    keys each policy by its explicit ID or its MID, skipping a duplicate *)
(*    ID with a warning;                                                   *)
(*  - "rpc": LoadPoliciesFromRPC reads the policy list from the RPC store  *)
(*    and parsePoliciesFromRPC keys it the same way, a later duplicate     *)
(*    replacing an earlier one;                                            *)
(*  - a policy path: LoadPoliciesFromDir reads every *.json file, skips    *)
(*    one it cannot open, and stores each under its own ID;                *)
(*  - a policy record name: LoadPoliciesFromFile decodes one JSON object   *)
(*    of ID -> policy, all or nothing;                                     *)
(*  - neither: syncPolicies returns 0, nil.                                *)
(* On an error syncPolicies returns before it touches gw.policiesByID; on  *)
(* success it installs the loader's map whole.                             *)
(*                                                                         *)
(* A policy is abstracted to its MID (as the string MID.Hex() gives), its  *)
(* ID field and a body standing for the rest of its fields.  A loader's    *)
(* loop is a fold over its list; the sync is one step, since nothing else  *)
(* runs inside syncPolicies.  The RPC emergency backup and the dashboard   *)
(* nonce are in ReloadCoordinator and DashboardSession.                    *)
(***************************************************************************)
EXTENDS Naturals, Sequences, SequencesExt

CONSTANTS
    Names,          \* strings that are MID hex values or explicit IDs
    Bodies,         \* the contents a well-formed policy can have
    Garbled,        \* what a failed json Decode leaves in a policy's fields
    NilMap,         \* the nil map a loader returns with its error
    AllowExplicit,  \* Policies.AllowExplicitPolicyID
    PolicySources,  \* the configurations syncPolicies may run under
    MaxPolicies     \* the longest policy list or directory considered

ASSUME /\ AllowExplicit \in BOOLEAN
       /\ PolicySources \subseteq {"service", "rpc", "dir", "file", "none"}
       /\ MaxPolicies \in Nat
       /\ Garbled \notin Bodies

\* p.ID == "" when the policy has no explicit ID.
NoID == ""

Keys == Names \cup {NoID}

Policy == [mid : Names, id : Keys, body : Bodies \cup {Garbled}]

\* A policy as the dashboard or the RPC store sends it.
Listed == {p \in Policy : p.body \in Bodies}

\* A *.json file of the policy directory: whether os.Open succeeds,
\* whether Decode succeeds, and the policy written in it.  Its MID plays
\* no part in LoadPoliciesFromDir, so it is fixed.
SomeName == CHOOSE n \in Names : TRUE

Unreadable == [open |-> FALSE, decodes |-> FALSE,
               pol |-> [mid |-> SomeName, id |-> NoID, body |-> Garbled]]

PolicyFile ==
    {Unreadable} \cup
    [open : {TRUE}, decodes : BOOLEAN,
     pol : {p \in Listed : p.mid = SomeName}]

SeqsUpTo(S, n) == UNION {[1..k -> S] : k \in 0..n}

EmptyMap == [k \in {} |-> NoID]

\* Maps of ID -> policy that a successful load can return.
PolicyMaps == UNION {[K -> Policy] : K \in SUBSET Keys}

VARIABLES
    source,        \* Policies.PolicySource and the path settings in force
    policiesByID,  \* gw.policiesByID
    input,         \* what the last successful load read from its source
    result         \* what the last syncPolicies returned

vars == <<source, policiesByID, input, result>>

TypeOK ==
    /\ source \in PolicySources
    /\ policiesByID \in PolicyMaps
    /\ result \in {"none", "ok", "error"}

\* NewGateway: gw.policiesByID = make(map[string]user.Policy)
Init ==
    /\ source \in PolicySources
    /\ policiesByID = EmptyMap
    /\ input = <<>>
    /\ result = "none"

-----------------------------------------------------------------------------
(* The loaders                                                             *)

\* id := p.MID.Hex(); if allowExplicit && p.ID != "" { id = p.ID }
Key(p) == IF AllowExplicit /\ p.id # NoID THEN p.id ELSE p.mid

\* p.ID = id
WithID(p) == [p EXCEPT !.id = Key(p)]

\* Fault variant: the duplicate check is dropped.
KeepFirstNoSkip(acc, p) == (Key(p) :> WithID(p)) @@ acc

\* One pass of LoadPoliciesFromDashboard's loop over list.Message: a policy
\* whose ID is already taken is skipped.
KeepFirst(acc, p) ==
    IF Key(p) \in DOMAIN acc THEN acc ELSE acc @@ (Key(p) :> WithID(p))

\* One pass of parsePoliciesFromRPC's loop: policies[id] = p.
Overwrite(acc, p) == (Key(p) :> WithID(p)) @@ acc

LoadPoliciesFromDashboard(list) == FoldLeft(KeepFirst, EmptyMap, list)

parsePoliciesFromRPC(list) == FoldLeft(Overwrite, EmptyMap, list)

\* One pass of LoadPoliciesFromDir's loop: a file that does not open is
\* skipped; one that fails to decode is logged, and what Decode filled in
\* is stored all the same under pol.ID.
DirStore(acc, f) ==
    IF ~f.open THEN acc
    ELSE LET pol == IF f.decodes THEN f.pol
                    ELSE [f.pol EXCEPT !.body = Garbled]
         IN (pol.id :> pol) @@ acc

LoadPoliciesFromDir(files) == FoldLeft(DirStore, EmptyMap, files)

\* The maps LoadPoliciesFromFile can return with a nil error: the JSON
\* object as written, its keys unrelated to the IDs inside the policies.
LoadPoliciesFromFile ==
    UNION {[K -> Listed] : K \in {K \in SUBSET Keys : Cardinality(K) <= MaxPolicies}}

-----------------------------------------------------------------------------
(* syncPolicies                                                            *)

\* Fault variant: the loader's error is not returned early, and its nil
\* map is installed.
InstallIgnoringError(pols, err) ==
    /\ policiesByID' = pols
    /\ result' = IF err THEN "error" ELSE "ok"

\* if err != nil { return len(pols), err }; gw.policiesByID = pols
Install(pols, err) ==
    /\ policiesByID' = IF err THEN policiesByID ELSE pols
    /\ result' = IF err THEN "error" ELSE "ok"

\* The switch on PolicySource, the loader it calls and the install.  A
\* failed request, a non-200 answer, a failed connect, an empty RPC
\* answer, a bad glob pattern, a policy file that does not open, or a
\* failed decode of the whole answer is the loader's error with a nil map.
syncPolicies ==
    /\ \/ /\ source \in {"service", "rpc", "dir", "file"}
          /\ UNCHANGED input
          /\ Install(NilMap, TRUE)
       \/ /\ source = "service"
          /\ \E list \in SeqsUpTo(Listed, MaxPolicies) :
                /\ input' = list
                /\ Install(LoadPoliciesFromDashboard(list), FALSE)
       \/ /\ source = "rpc"
          /\ \E list \in SeqsUpTo(Listed, MaxPolicies) :
                /\ input' = list
                /\ Install(parsePoliciesFromRPC(list), FALSE)
       \/ /\ source = "dir"
          /\ \E files \in SeqsUpTo(PolicyFile, MaxPolicies) :
                /\ input' = files
                /\ Install(LoadPoliciesFromDir(files), FALSE)
       \/ /\ source = "file"
          /\ UNCHANGED input
          /\ \E m \in LoadPoliciesFromFile : Install(m, FALSE)
       \/ /\ source = "none"
          /\ UNCHANGED input
          /\ result' = "ok"
          /\ UNCHANGED policiesByID
    /\ UNCHANGED source

Next == syncPolicies

Spec == Init /\ [][Next]_vars

-----------------------------------------------------------------------------
(* Reference definitions and properties                                    *)

\* The IDs a policy list asks for.
KeysOf(list) == {Key(list[j]) : j \in DOMAIN list}

\* Of the policies sharing an ID, the first / the last one listed.
FirstWins(list) ==
    [k \in KeysOf(list) |->
        WithID(list[Min({j \in DOMAIN list : Key(list[j]) = k})])]

LastWins(list) ==
    [k \in KeysOf(list) |->
        WithID(list[Max({j \in DOMAIN list : Key(list[j]) = k})])]

\* Whatever the sequence of successful and failed syncs, gw.policiesByID
\* is exactly the policy list of the last successful dashboard or RPC load:
\* every listed policy resolvable under its ID, nothing else, the first
\* duplicate kept from the dashboard (its "Skipping policy" warning) and
\* the last from RPC; a failed load leaves it alone.
SnapshotFromLastLoad ==
    source \in {"service", "rpc"} =>
        policiesByID = IF source = "service" THEN FirstWins(input)
                                            ELSE LastWins(input)

\* Spec 4.1: "Tie-break for duplicate ids during merge: last-wins, with
\* warning."  Stated of LoadPoliciesFromDashboard.
DuplicateLastWins ==
    source = "service" => policiesByID = LastWins(input)

\* Spec 4.1: definitions that fail validation ("schema errors") are logged
\* and excluded.  Stated of the directory loader's decode error.
SchemaErrorsExcluded ==
    \A k \in DOMAIN policiesByID : policiesByID[k].body # Garbled
=============================================================================
