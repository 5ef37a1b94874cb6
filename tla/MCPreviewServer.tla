---------------------------- MODULE MCPreviewServer ----------------------------
(* PreviewServer on a few connections.                                     *)
EXTENDS PreviewServer, TLC

(* The document gets shorter with every revision.                          *)
MCPagesOf == [r \in Revisions |-> 1 + MaxRevisions - r]

(* Two clients with a place each, against two revisions; and three clients *)
(* for one place, in a session that may be invalidated.                    *)
Roomy ==
    {[clients |-> C, places |-> 2, revisions |-> 2, invalidates |-> FALSE] :
       C \in {D \in SUBSET Connections : Cardinality(D) = 2}}
Crowded ==
    [clients |-> Connections, places |-> 1, revisions |-> 1, invalidates |-> TRUE]

MCSettings == Roomy \cup {Crowded}

Symmetry == Permutations(Connections)
=============================================================================
