------------------------- MODULE MCChildSupervisor -------------------------
(***************************************************************************)
(* Model-checking instances of ChildSupervisor.                            *)
(***************************************************************************)
EXTENDS ChildSupervisor

Proto(meta, records, maxRecord, maxStdout) ==
    [meta |-> meta, records |-> records, maxRecord |-> maxRecord, maxStdout |-> maxStdout]

\* Exactly filled and roomier transports, with and without metadata, and one
\* protocol that does not fit its transport.
SmallProtocols == {Proto(0, 1, 3, 3), Proto(1, 1, 2, 4), Proto(0, 2, 2, 5), Proto(1, 2, 2, 5)}

LivenessProtocols == {Proto(1, 1, 2, 4)}
=============================================================================
