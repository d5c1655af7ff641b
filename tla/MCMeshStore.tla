---------------------------- MODULE MCMeshStore ----------------------------
(* Small instances of MeshStore for TLC.                                   *)
EXTENDS MeshStore, TLC

CONSTANTS s1, s2, s3, k1, k2, e1, a1, a2, a3, v1, v2, v3, h1, h2

MCServer == {s1, s2}
MCKey == {k1, k2}
MCKey1 == {k1}
MCEndpoint == {e1}
\* Requests without a primary endpoint (none of the purge run's properties
\* reads the endpoint).
MCEndpoint0 == {}
MCIPv6Addr == {a1, a2, a3}
MCIPv6Addr2 == {a1, a2}
MCIPv4Addr == {v1, v2, v3}
MCIPv4Addr2 == {v1, v3}

\* The configuration reserves v3 for s3, a node that has not joined.
MCStaticLease == s3 :> v3

MCHandler1 == {h1}
MCHandler2 == {h1, h2}
MCHandler0 == {}

MCInitBoot == {s1}
MCInitAll == {s1, s2}
=============================================================================
