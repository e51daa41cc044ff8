----------------------------- MODULE MCMessages -----------------------------
(* Small instances of Messages for TLC.                                    *)
EXTENDS Messages, TLC

CONSTANTS t1, t2, v1, v2, secret, public

TenantSymmetry == Permutations({t1, t2}) \cup Permutations({v1, v2})
=============================================================================
