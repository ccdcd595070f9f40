------------------------------- MODULE MCUploads -------------------------------
(* Small instances of uploads for TLC. *)
EXTENDS UploadsProperties

CONSTANTS r1, r2, r3

\* One request and its retry; the third sends no key.
MCKeyOf == [r \in Requests |-> IF r = r3 THEN NoKey ELSE "retried"]

\* One client; two clients of which the second uses a key of the first.
OneWorkspace  == [r \in Requests |-> "acme"]
TwoWorkspaces == [r \in Requests |-> IF r = r2 THEN "beta" ELSE "acme"]
=============================================================================
