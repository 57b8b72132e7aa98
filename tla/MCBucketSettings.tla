-------------------------- MODULE MCBucketSettings --------------------------
(* One bucket, two objects in pages of one, two retentions.                   *)
EXTENDS BucketSettings

CONSTANTS b1, r1, r2

MCBuckets == {b1}
MCRules == {r1, r2}
=============================================================================
