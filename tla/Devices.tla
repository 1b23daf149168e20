------------------------------ MODULE Devices ------------------------------
(***************************************************************************)
(* The terminals that may connect, and the codes that let a new one in     *)
(* (crates/wire/src/auth.rs), as functions of the two tables.              *)
(*                                                                         *)
(* A device is its key: whoever holds the key signs, and nobody else does. *)
(* A signature is good or bad; transcript, nonces and encodings are left   *)
(* out, and with them the key and the signature that do not parse.         *)
(***************************************************************************)
EXTENDS Integers, Tables

CONSTANT CodeTtl    \* ENROLL_CODE_TTL, in ticks of the clock

ASSUME DevicesAssumption == CodeTtl \in Nat

\* DeviceRegistry::issue_code: a code that is issued again counts from now.
IssueCode(codes, code, role, now) == Put(codes, code, [role |-> role, issuedAt |-> now])

\* A mutant: a code survives its use.
CodesAfterKeeping(codes, code) == codes

\* A code is consumed whether or not the rest of the enrolment succeeds.
CodesAfter(codes, code) == Drop(codes, {code})

\* The enrolment succeeds.
CanEnroll(devices, codes, code, device, now) ==
    /\ code \in DOMAIN codes
    /\ now - codes[code].issuedAt <= CodeTtl
    /\ device \notin DOMAIN devices

\* DeviceRegistry::enroll, when it succeeds.
Enroll(devices, codes, code, device) ==
    Put(devices, device, [role |-> codes[code].role, revoked |-> FALSE])

\* DeviceRegistry::verify.
Verified(devices, device, goodSignature) ==
    /\ device \in DOMAIN devices
    /\ ~devices[device].revoked
    /\ goodSignature

\* A mutant: a revoked device is deleted.
RevokeForgetting(devices, device) == Drop(devices, {device})

\* DeviceRegistry::revoke.
Revoke(devices, device) ==
    IF device \in DOMAIN devices THEN [devices EXCEPT ![device].revoked = TRUE] ELSE devices

\* DeviceRegistry::expire_codes.
ExpireCodes(codes, now) == Drop(codes, {c \in DOMAIN codes : now - codes[c].issuedAt > CodeTtl})
=============================================================================
