----------------------------- MODULE MCDriveSync -----------------------------
(* Two documents and a form that cannot be exported; one entry a page. *)
EXTENDS DriveSync

CONSTANTS f1, f2, form

MCKind == [f \in Files |-> IF f = form THEN "form" ELSE IF f = f1 THEN "blob" ELSE "doc"]
=============================================================================
