------------------------- MODULE AttestationStatements -------------------------
(***************************************************************************)
(* src/Fido2/AttestationFormat: what each attestation statement format     *)
(* verifies, and CryptoUtils.ValidateTrustChain.  Cryptography is perfect: *)
(* a hash is the value hashed, a signature is the pair of the key and the  *)
(* value signed.  Everything here is a function of the response; the       *)
(* ceremonies are in Verification.                                         *)
(*                                                                         *)
(* A certificate keeps what ties it to something else: its key, the names  *)
(* of the authorities above it, the AAGUID and the ceremony data in its    *)
(* extensions.  "profile" stands for the requirements a format puts on the *)
(* certificate alone (version, subject, CA flag, key usage, host name,     *)
(* curve, manufacturer, authorization lists), "wellFormed" for the decoding*)
(* of the statement (CBOR, ASN.1, JWT and TPM structures, algorithms).     *)
(***************************************************************************)
EXTENDS Naturals, Sequences

CONSTANTS None,          \* absent: no extension, no certificate, no entry
          NoAaGuid,      \* Guid.Empty
          AppAaGuids,    \* devAaguid and prodAaguid of AppleAppAttest
          DevAaGuid,     \* devAaguid
          AppleAppRoot,  \* AppleAppAttestRootCA
          Minute         \* the age a SafetyNet answer may have

Formats == {"none", "tpm", "android-key", "android-safetynet", "fido-u2f",
            "packed", "apple", "apple-appattest"}

\* AttestationVerifier.Data: what most formats sign or hash.
Data(auth, client) == [auth |-> auth, client |-> client]

\* TryGetSig and CredentialPublicKey.Verify.
Verifies(key, over, sig) == sig # None /\ sig = [by |-> key, over |-> over]

\* AaguidFromAttnCertExts, compared with the AAGUID of the authenticator data.
AaGuidAgrees(cert, auth) == cert.aaguid \in {None, auth.acd.aaguid}

--------------------------------------------------------------------------------
NoneVerifies(stmt) == stmt.sig = None /\ stmt.x5c = <<>> /\ ~stmt.ecdaa

\* Full attestation by a certified key, or self attestation by the new key.
PackedVerifies(stmt, auth, client, now) ==
  /\ ~stmt.ecdaa
  /\ \/ /\ stmt.x5c # <<>>
        /\ \A i \in DOMAIN stmt.x5c : now \in stmt.x5c[i].valid
        /\ Verifies(stmt.x5c[1].key, Data(auth, client), stmt.sig)
        /\ stmt.x5c[1].profile
        /\ AaGuidAgrees(stmt.x5c[1], auth)
     \/ /\ stmt.x5c = <<>>
        /\ Verifies(auth.acd.key, Data(auth, client), stmt.sig)

\* U2F signs five fields; the flags, the counter and the AAGUID are not signed.
U2fData(auth, client) == [rpIdHash |-> auth.rpIdHash, client |-> client,
                          id |-> auth.acd.id, key |-> auth.acd.key]

FidoU2fVerifies(stmt, auth, client) ==
  /\ auth.acd.aaguid = NoAaGuid
  /\ Len(stmt.x5c) = 1
  /\ stmt.x5c[1].profile
  /\ Verifies(stmt.x5c[1].key, U2fData(auth, client), stmt.sig)

\* The certificate is that of the new key, and names the client data.
AndroidKeyVerifies(stmt, auth, client) ==
  /\ stmt.x5c # <<>>
  /\ Verifies(stmt.x5c[1].key, Data(auth, client), stmt.sig)
  /\ Verifies(auth.acd.key, Data(auth, client), stmt.sig)
  /\ stmt.x5c[1].bound = client
  /\ stmt.x5c[1].profile

\* Nothing is signed but the certificate, which names the new key and the data.
AppleVerifies(stmt, auth, client) ==
  /\ Len(stmt.x5c) >= 2
  /\ stmt.x5c[1].bound = Data(auth, client)
  /\ stmt.x5c[1].key = auth.acd.key

\* X509Chain.Build with Apple's root only; a development key's may be expired.
AppleAppAttestVerifies(stmt, auth, client, now) ==
  /\ Len(stmt.x5c) = 2
  /\ AppleAppRoot \in stmt.x5c[1].above
  /\ auth.acd.aaguid = DevAaGuid \/ now \in stmt.x5c[1].valid
  /\ AppleVerifies(stmt, auth, client)
  /\ stmt.x5c[1].keyId = stmt.x5c[1].key
  /\ stmt.x5c[1].appId = auth.rpIdHash
  /\ auth.count = 0
  /\ auth.acd.aaguid \in AppAaGuids
  /\ auth.acd.id = stmt.x5c[1].keyId

\* The JWT is signed by the key of some certificate in its header.
SafetyNetVerifies(stmt, auth, client, now) ==
  /\ stmt.x5c # <<>>
  /\ stmt.info # None
  /\ \E i \in DOMAIN stmt.x5c : Verifies(stmt.x5c[i].key, stmt.info, stmt.sig)
  /\ stmt.info.timestamp <= now
  /\ now <= stmt.info.timestamp + Minute
  /\ stmt.info.nonce = Data(auth, client)
  /\ stmt.x5c[1].profile
  /\ stmt.info.ctsProfileMatch

TpmKeyVerifies_NoExtraData(stmt, auth, client) == \* mutant: extraData is not compared
  /\ stmt.info # None
  /\ stmt.pubArea = auth.acd.key
  /\ stmt.info.attested = stmt.pubArea

\* pubArea is the new key, certInfo names it and the data.
TpmKeyVerifies(stmt, auth, client) ==
  /\ stmt.info # None
  /\ stmt.pubArea = auth.acd.key
  /\ stmt.info.extraData = Data(auth, client)
  /\ stmt.info.attested = stmt.pubArea

\* The certificate of the attestation identity key signs certInfo.
TpmVerifies(stmt, auth, client) ==
  /\ TpmKeyVerifies(stmt, auth, client)
  /\ stmt.x5c # <<>>
  /\ Verifies(stmt.x5c[1].key, stmt.info, stmt.sig)
  /\ stmt.x5c[1].profile
  /\ stmt.x5c[1].aaguid = NoAaGuid \/ AaGuidAgrees(stmt.x5c[1], auth)

\* AttestationVerifier.Create and Verify.
StatementVerifies(stmt, auth, client, now) ==
  /\ stmt.wellFormed
  /\ \/ stmt.fmt = "none" /\ NoneVerifies(stmt)
     \/ stmt.fmt = "packed" /\ PackedVerifies(stmt, auth, client, now)
     \/ stmt.fmt = "fido-u2f" /\ FidoU2fVerifies(stmt, auth, client)
     \/ stmt.fmt = "android-key" /\ AndroidKeyVerifies(stmt, auth, client)
     \/ stmt.fmt = "apple" /\ AppleVerifies(stmt, auth, client)
     \/ stmt.fmt = "apple-appattest" /\ AppleAppAttestVerifies(stmt, auth, client, now)
     \/ stmt.fmt = "android-safetynet" /\ SafetyNetVerifies(stmt, auth, client, now)
     \/ stmt.fmt = "tpm" /\ TpmVerifies(stmt, auth, client)

--------------------------------------------------------------------------------
\* The certificates a format returns; none for "none" and self attestation.
TrustPath(stmt) ==
  IF stmt.fmt = "android-safetynet" THEN <<stmt.x5c[1]>> ELSE stmt.x5c

ValidateTrustChain_AnySelfSigned(path, roots) == \* mutant: a lone self-signed certificate passes
  LET leaf == path[1]
      store == roots \cup {path[i].name : i \in 2..Len(path)}
  IN \/ Len(path) = 1 /\ leaf.selfIssued
     \/ leaf.above # {} /\ leaf.above \subseteq store /\ leaf.above \cap roots # {}

(***************************************************************************)
(* A lone self-signed certificate must be one of the roots; any other must *)
(* have a chain, through the certificates at hand, that meets a root above *)
(* the attestation certificate.                                            *)
(***************************************************************************)
ValidateTrustChain(path, roots) ==
  LET leaf == path[1]
      store == roots \cup {path[i].name : i \in 2..Len(path)}
  IN IF Len(path) = 1 /\ leaf.selfIssued
     THEN leaf.name \in roots
     ELSE leaf.above # {} /\ leaf.above \subseteq store /\ leaf.above \cap roots # {}

FullAttestation(entry) == entry.types \cap {"basic_full", "privacy_ca"} # {}

\* Step 15 of AuthenticatorAttestationResponse.VerifyAsync.
TrustPathTrusted(stmt, entry) ==
  (TrustPath(stmt) # <<>> /\ entry # None) =>
     IF FullAttestation(entry)
     THEN ValidateTrustChain(TrustPath(stmt), entry.roots)
     ELSE "anonca" \in entry.types \/ TrustPath(stmt)[1].selfIssued
================================================================================
