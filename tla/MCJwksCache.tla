----------------------------- MODULE MCJwksCache -----------------------------
(* Small instances of JwksCache.                                           *)
EXTENDS JwksCache
=============================================================================
