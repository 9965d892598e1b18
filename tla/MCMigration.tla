---------------------------- MODULE MCMigration -----------------------------
(* Instance of BlobMigration: two of the three rows share a blob.           *)
EXTENDS BlobMigration, TLC

CONSTANTS k1, k2, r1, r2, r3

MCBlobOf == r1 :> k1 @@ r2 :> k2 @@ r3 :> k1
=============================================================================
