------------------------------- MODULE MCSvcApi -------------------------------
(***************************************************************************)
(* The attestation service, at two vectors per direction.  Handles are the *)
(* low bits of the values of ServiceHandle (types.rs).                     *)
(***************************************************************************)
EXTENDS SvcApi

Crypto == 256
InternalTrustedStorageService == 258
AttestationService == 259

MCHandles == {Crypto, InternalTrustedStorageService, AttestationService}

MCInBase == [i \in VecIdx |-> 4096 + 64 * i]
MCOutBase == [i \in VecIdx |-> 8192 + 64 * i]

MCStatuses == {0, -138, -248}

\* The storage service has a handle, but neither board has the service.
MCVersions == [h \in {Crypto, AttestationService} |-> 1]
===============================================================================
