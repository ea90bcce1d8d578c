----------------------------- MODULE MCArtifacts -----------------------------
(* The instance of Artifacts that TLC checks. *)
EXTENDS Artifacts

MCTestsOf == [c \in {"a", "b"} |-> IF c = "a" THEN {"a1", "a2", "a3"} ELSE {"b1"}]
=============================================================================
