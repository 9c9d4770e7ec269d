-------------------------- MODULE MCToolExecution --------------------------
(* A tool with a field of each kind, and strings that are no field: one     *)
(* names a field in another case, one does not.                             *)
EXTENDS ToolExecution, TLC

MCFieldKind == "a" :> "string" @@ "b" :> "boolean" @@ "c" :> "number"
MCFoldsTo == "a" :> "a" @@ "b" :> "b" @@ "c" :> "c" @@ "A" :> "a" @@ "x" :> "none"
=============================================================================
