------------------------------ MODULE Startup ------------------------------
(***************************************************************************)
(* A gosmee process from its command line to its work: the Before hook     *)
(* applies the configuration, and the command makes of it a client with    *)
(* its URLs, a replay with its target, or a server that admits requests.   *)
(***************************************************************************)
EXTENDS Arguments, ProtectedChannels, Admission

vars == <<configVars, argumentVars, readerVars, admissionVars>>

TypeOK ==
  /\ ConfigTypeOK
  /\ ArgumentsTypeOK
  /\ ReadersTypeOK
  /\ AdmissionTypeOK
  /\ pc \in Sections \cup {"load", "apply", "failed", "done", "receiving", "replaying",
                           "serving"}

Init == ConfigInit /\ ArgumentsInit /\ ReadersInit /\ AdmissionInit

\* A server answers one request after the other: handlers share nothing but the relay.
Next ==
  \/ ConfigStep /\ UNCHANGED <<argumentVars, readerVars, admissionVars>>
  \/ ArgumentStep /\ UNCHANGED <<readerVars, admissionVars>>
  \/ stage = "none" /\ ReaderStep /\ UNCHANGED <<argumentVars, admissionVars>>
  \/ answer = "none" /\ AdmissionStep /\ UNCHANGED <<argumentVars, readerVars>>

Spec == Init /\ [][Next]_vars
=============================================================================
