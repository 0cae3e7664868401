--------------------------- MODULE MCChatRequest ---------------------------
(* Instances of ChatRequest. *)
EXTENDS ChatRequest

LeaveAnywhere == {"unstarted", "yield", "await"}
=============================================================================
