------------------------------ MODULE MCSdkClients ------------------------------
(* The objects a and b in two namespaces, at the start none or all of them. *)
EXTENDS SdkClients

EmptyOrFull == {{}, Keys}
=============================================================================
