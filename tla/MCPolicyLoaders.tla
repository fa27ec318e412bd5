--------------------------- MODULE MCPolicyLoaders ---------------------------
EXTENDS PolicyLoaders

CONSTANTS n1, n2, v1, v2

\* Two names, so that an explicit ID can equal another policy's MID.
MCNames == {n1, n2}

\* Two bodies, so that the first and the last of two duplicates differ.
MCBodies == {v1, v2}
=============================================================================
