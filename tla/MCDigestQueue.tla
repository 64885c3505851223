----------------------------- MODULE MCDigestQueue -----------------------------
(* Small instances of DigestQueue.                                         *)
EXTENDS DigestQueue

CONSTANTS h1, h2, uA, uB, c1, c2

=============================================================================
