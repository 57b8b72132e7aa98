---------------------------- MODULE MCS3Control ----------------------------
(* Instances of S3Control for TLC.                                            *)
EXTENDS S3Control

CONSTANTS a, b, admin, k1, k2, ka, k0, b1, c1

id(n, k) == [name |-> n, key |-> k]

\* One user with two credential sets (a rotated key) and a second user.
McUsers == {id(a, k1), id(a, k2), id(b, k1)}
McAdmin == id(admin, ka)
McFormerAdmins == {id(admin, k0)}

\* Desired states that add, keep (under another key), and remove.
McPayloads ==
    {[buckets |-> {b1}, iam |-> {id(a, k1)}],
     [buckets |-> {}, iam |-> {id(a, k2), id(b, k1)}]}

\* No s3.json yet, or one from before: an operator's user, twice, and the admin
\* under an earlier key.
McFirstFiles == {Empty, [Empty EXCEPT ![id(b, k1)] = 2, ![id(admin, k0)] = 1]}

McOneFile == {[Empty EXCEPT ![id(b, k1)] = 1]}
McFewPayloads == {[buckets |-> {}, iam |-> {id(a, k1)}]}
McFewUsers == {id(a, k1), id(b, k1)}

AllOps == SyncOps \union IamOps \union BucketOps
SomeOps == IamOps \union {"full_sync"}

=============================================================================
