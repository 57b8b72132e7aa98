--------------------------- MODULE IdentityStore ---------------------------
(***************************************************************************)
(* What internal/modules/s3/manager.go promises about /etc/seaweedfs/s3.json *)
(* and the weed-s3 gateway that serves it: the file only ever changes by     *)
(* appending one identity or by removing every identity of one name, and the *)
(* gateway serves a whole content the file has had, never a part of one.     *)
(***************************************************************************)
EXTENDS Naturals

CONSTANT Identity

VARIABLES file,   \* identity -> number of copies in s3.json
          served  \* the content weed-s3 loaded last

Init ==
    /\ file \in [Identity -> Nat]
    /\ served = file

Append(id) ==
    /\ file' = [file EXCEPT ![id] = @ + 1]
    /\ UNCHANGED served

Remove(name) ==
    /\ \E id \in Identity : id.name = name /\ file[id] > 0
    /\ file' = [id \in Identity |-> IF id.name = name THEN 0 ELSE file[id]]
    /\ UNCHANGED served

Load ==
    /\ served' = file
    /\ UNCHANGED file

Next ==
    \/ \E id \in Identity : Append(id) \/ Remove(id.name)
    \/ Load

Spec == Init /\ [][Next]_<<file, served>>

=============================================================================
