----------------------------- MODULE SharedFile -----------------------------
(***************************************************************************)
(* What the workers promise each other about an uploaded file: nobody ever *)
(* truncates it.  PATCH creates it empty and makes it longer, and only     *)
(* DELETE takes something away, by removing all of it.  FileUpload         *)
(* implements this; FileServe relies on it.                                *)
(***************************************************************************)
EXTENDS Integers

VARIABLES exists, size

NoFile == exists = FALSE /\ size = 0

Create == ~exists /\ exists' = TRUE /\ size' = 0

Lengthen == exists /\ size' > size /\ UNCHANGED exists

Unlink == exists /\ exists' = FALSE /\ size' = 0

Next == Create \/ Lengthen \/ Unlink

Spec == NoFile /\ [][Next]_<<exists, size>>
=============================================================================
