--------------------------------- MODULE Keys --------------------------------
(***************************************************************************)
(* Keys: reading them from bytes and documents, their names, and what a     *)
(* verifier finds under the algorithm and the key id that a message names   *)
(* (httpsig/src/crypto/asymmetric.rs and symmetric.rs, get_alg_key_ids of   *)
(* hyper_http.rs).  A signer reads its key by one way, the verifier its     *)
(* keys by others, and only the names in the message connect the two.       *)
(*                                                                         *)
(* A byte string is [len, is], `is` telling what it encodes:                *)
(*   <<"raw", v>>               nothing but bytes: a seed, a scalar, a key  *)
(*   <<"zero">>                 no scalar of any curve                      *)
(*   <<"sec1", bytes>>          a SEC1 EcPrivateKey                         *)
(*   <<"octets", bytes>>        a DER octet string, its two-byte header on  *)
(*   <<"pkcs1", v>>             an RSAPrivateKey                            *)
(*   <<"public", family, v, form>>   the public key of v                    *)
(* A DER document is [form, oid, curve, key], a PEM document [tag, der].    *)
(***************************************************************************)
EXTENDS Crypto, Integers, Sequences, FiniteSets

CONSTANTS
  SecretSources,    \* [via, from]: what a secret key may be read from
  PublicSources,    \* the same for public keys
  SharedSources,    \* base64 texts of shared keys: {} is no base64
  ForeignLetters,   \* messages of somebody who does not use the library
  MaxRing           \* bound on the keys of a verifier

RsaAlgorithm == {"rsa-v1_5-sha256", "rsa-pss-sha512"}

Family(alg) ==
  CASE alg = "ecdsa-p256-sha256" -> "p256"
    [] alg = "ecdsa-p384-sha384" -> "p384"
    [] alg \in RsaAlgorithm -> "rsa"
    [] OTHER -> alg

(* A key, secret or public: its algorithm and what it was made of.          *)
Key(alg, of) == [outcome |-> "ok", alg |-> alg, of |-> of]
Err == [outcome |-> "err"]
Panicked == [outcome |-> "panic"]

-----------------------------------------------------------------------------
(* Secret keys                                                              *)

ScalarLength(alg) == IF alg = "ecdsa-p256-sha256" THEN 32 ELSE 48

(* Only RSA and EC parsers look at the content, and only they return Err:   *)
(* a length that does not fit an array panics.                              *)
SecretFromBytes(alg, b) ==
  CASE alg \in EcdsaAlgorithm ->
         IF b.len # ScalarLength(alg) THEN Panicked
         ELSE IF b.is = <<"zero">> THEN Err ELSE Key(alg, b.is)
    [] alg = "ed25519" -> IF b.len # 32 THEN Panicked ELSE Key(alg, b.is)
    [] alg \in RsaAlgorithm -> IF b.is[1] = "pkcs1" THEN Key(alg, b.is) ELSE Err
    [] OTHER -> Err

(* The algorithms that a document may be read under, none if the library    *)
(* does not know its OIDs.                                                  *)
Unchecked(der) == {"ecdsa-p256-sha256", "ecdsa-p384-sha384"}     \* mutant: the curve is ignored
CurveAlgorithm(der) ==
  CASE der.curve = "Secp256r1" -> {"ecdsa-p256-sha256"}
    [] der.curve = "Secp384r1" -> {"ecdsa-p384-sha384"}
    [] OTHER -> {}
DocumentAlgorithms(der) ==
  CASE der.oid = "EC" -> CurveAlgorithm(der)
    [] der.oid = "Ed25519" -> {"ed25519"}
    [] der.oid = "rsaEncryption" -> RsaAlgorithm
    [] OTHER -> {}

(* private_key[2..] of an Ed25519 document: whatever the two bytes are.     *)
WithoutHeader(b) ==
  IF b.is[1] = "octets" THEN b.is[2] ELSE [len |-> b.len - 2, is |-> <<"raw", b.is>>]

SecretFromDer(alg, der) ==
  IF der.form # "pkcs8" \/ alg \notin DocumentAlgorithms(der) THEN Err
  ELSE CASE der.oid = "EC" -> IF der.key.is[1] = "sec1" THEN SecretFromBytes(alg, der.key.is[2])
                              ELSE Err
         [] der.oid = "Ed25519" -> IF der.key.len < 2 THEN Panicked
                                   ELSE SecretFromBytes(alg, WithoutHeader(der.key))
         [] OTHER -> SecretFromBytes(alg, der.key)

SecretFromPem(alg, pem) ==
  IF pem.tag # "PRIVATE KEY" THEN Err ELSE SecretFromDer(alg, pem.der)

ReadSecret(alg, source) ==
  CASE source.via = "bytes" -> SecretFromBytes(alg, source.from)
    [] source.via = "der" -> SecretFromDer(alg, source.from)
    [] OTHER -> SecretFromPem(alg, source.from)

-----------------------------------------------------------------------------
(* Public keys and shared keys                                              *)

(* A key that the bytes are the encoding of; any 32 bytes will do for       *)
(* Ed25519, and it finds out when it verifies.                              *)
PublicFromBytes(alg, b) ==
  CASE alg # "hmac-sha256" /\ b.is[1] = "public" /\ b.is[2] = Family(alg) -> Key(alg, b.is[3])
    [] alg = "ed25519" /\ ~(b.is[1] = "public" /\ b.is[2] = "ed25519") /\ b.len = 32 ->
         Key(alg, <<"unpaired", b.is>>)
    [] OTHER -> Err

PublicFromPem(alg, pem) ==
  IF \/ pem.tag # "PUBLIC KEY" \/ pem.der.form # "spki"
     \/ alg \notin DocumentAlgorithms(pem.der)
  THEN Err ELSE PublicFromBytes(alg, pem.der.key)

ReadPublic(alg, source) ==
  IF source.via = "bytes" THEN PublicFromBytes(alg, source.from)
  ELSE PublicFromPem(alg, source.from)

(* SharedKey::from_base64.                                                  *)
ReadShared(alg, text) ==
  IF text = {} \/ alg # "hmac-sha256" THEN Err ELSE Key(alg, (CHOOSE b \in text : TRUE).is)

(* SecretKey::public_key.                                                   *)
PublicKey(secret) == Key(secret.alg, secret.of)

(* The bytes that a key id is the SHA-256 hash of, no two with the same.    *)
Form(alg) == IF alg \in EcdsaAlgorithm THEN "compressed"
             ELSE IF alg \in RsaAlgorithm THEN "pkcs1" ELSE "raw"
FamilyOnly(key) == <<"public", Family(key.alg)>>     \* mutant: the key itself is not hashed
KeyId(key) ==
  CASE key.alg = "hmac-sha256" -> key.of
    [] key.alg # "hmac-sha256" /\ key.of[1] = "unpaired" -> key.of[2]
    [] OTHER -> <<"public", Family(key.alg), key.of, Form(key.alg)>>

(* "unpaired" marks nothing but a key that PublicFromBytes could not place. *)
PublicBytes(source) == IF source.via = "bytes" THEN source.from ELSE source.from.der.key
ASSUME SourceAssumption ==
  /\ \A source \in SecretSources, alg \in AlgorithmName :
       LET key == ReadSecret(alg, source)
       IN  key.outcome = "ok" => key.of[1] # "unpaired"
  /\ \A source \in PublicSources :
       LET b == PublicBytes(source)
       IN  b.is[1] = "public" => b.is[3][1] # "unpaired"
ASSUME LetterAssumption == \A foreign \in ForeignLetters : ~foreign.ours

-----------------------------------------------------------------------------
VARIABLES
  signer,     \* the signer's key, or NoKey
  letter,     \* what is signed: [alg, keyid, sig, ours], or NoLetter
  ring,       \* the verifier's keys
  panic       \* the call that panicked just now: {} or {[op, source]}

keyVars == <<signer, letter, ring, panic>>

NoKey == Err
NoLetter == [ours |-> FALSE, alg |-> {}, keyid |-> {}, sig |-> [by |-> NoKey, len |-> 0]]

KeysInit == signer = NoKey /\ letter = NoLetter /\ ring = {} /\ panic = {}

Did(outcome, op, source) ==
  panic' = IF outcome = "panic" THEN {[op |-> op, source |-> source]} ELSE {}

ReadSigner(alg, source) ==
  LET key == ReadSecret(alg, source)
  IN  /\ signer' = IF key.outcome = "ok" THEN key ELSE signer
      /\ Did(key.outcome, "secret", source)
      /\ UNCHANGED <<letter, ring>>

ReadSharedSigner(alg, text) ==
  LET key == ReadShared(alg, text)
  IN  /\ signer' = IF key.outcome = "ok" THEN key ELSE signer
      /\ Did(key.outcome, "shared", text)
      /\ UNCHANGED <<letter, ring>>

(* sign(), under the names that set_key_info writes, or the key id alone.   *)
WriteLetter(told) ==
  /\ signer # NoKey
  /\ told \in {{}, {signer.alg}}
  /\ letter' = [ours |-> TRUE, alg |-> told, keyid |-> {KeyId(PublicKey(signer))},
                sig |-> [by |-> PublicKey(signer), len |-> SignatureLength(signer.alg)]]
  /\ Did("ok", "sign", "letter")
  /\ UNCHANGED <<signer, ring>>

ForeignLetter(foreign) ==
  /\ letter' = foreign
  /\ UNCHANGED <<signer, ring, panic>>

(* get_alg_key_ids: an algorithm the library does not know becomes None.    *)
ToldAlgorithm == letter.alg \cap AlgorithmName

LoadPublic(alg, source) ==
  LET key == ReadPublic(alg, source)
  IN  /\ Cardinality(ring) < MaxRing
      /\ ring' = IF key.outcome = "ok" THEN ring \cup {key} ELSE ring
      /\ Did(key.outcome, "public", source)
      /\ UNCHANGED <<signer, letter>>

(* The public part of the signer's own key, or the shared key itself.       *)
LoadOwn ==
  /\ signer # NoKey /\ Cardinality(ring) < MaxRing
  /\ ring' = ring \cup {PublicKey(signer)}
  /\ Did("ok", "own", "signer")
  /\ UNCHANGED <<signer, letter>>

(* The key id in the message is the key's, and so is the algorithm, if told. *)
Named(key) == KeyId(key) \in letter.keyid /\ ToldAlgorithm \subseteq {key.alg}

(* VerifyingKey::verify of the letter's signature.                          *)
Check(key) == VerifyOutcome(key.alg, letter.sig.by = key, letter.sig.len)

VerifyLetter(key) ==
  /\ letter # NoLetter /\ Named(key)
  /\ Did(Check(key), "verify", "letter")
  /\ UNCHANGED <<signer, letter, ring>>

-----------------------------------------------------------------------------
SignerStep == \/ \E alg \in AlgorithmName : \/ \E s \in SecretSources : ReadSigner(alg, s)
                                            \/ \E t \in SharedSources : ReadSharedSigner(alg, t)
              \/ \E told \in {{}} \cup {{a} : a \in AlgorithmName} : WriteLetter(told)

VerifierStep == \/ \E alg \in AlgorithmName, s \in PublicSources : LoadPublic(alg, s)
                \/ LoadOwn
                \/ \E key \in ring : VerifyLetter(key)

KeysNext == SignerStep \/ VerifierStep \/ \E foreign \in ForeignLetters : ForeignLetter(foreign)

KeysSpec == KeysInit /\ [][KeysNext]_keyVars

-----------------------------------------------------------------------------
(* Properties                                                               *)

(* A verifier that looks for the key under the names in the message finds   *)
(* one that verifies it: whatever the signer's key was read from, and the   *)
(* verifier's, and whichever else it has.  When the message does not tell   *)
(* the algorithm the key has to be of the signer's.                         *)
NamedKeyFits ==
  letter.ours =>
    \A key \in ring :
      Named(key) /\ (ToldAlgorithm # {} \/ key.alg = letter.sig.by.alg) => Check(key) = "ok"

(* A PKCS#8 document with the private key that its OIDs call for.           *)
Standard(der) ==
  /\ der.form = "pkcs8"
  /\ \/ /\ der.oid = "EC" /\ der.curve \in {"Secp256r1", "Secp384r1"}
        /\ der.key.is[1] = "sec1"
        /\ der.key.is[2].len = IF der.curve = "Secp256r1" THEN 32 ELSE 48
     \/ /\ der.oid = "Ed25519" /\ der.key.len = 34
        /\ der.key.is[1] = "octets" /\ der.key.is[2].len = 32
     \/ der.oid = "rsaEncryption" /\ der.key.is[1] = "pkcs1"

(* Reading a key panics for its length only: a standard document does not,  *)
(* whatever algorithm it is read under, and a public key never does.        *)
OnlyLengthsPanic ==
  \A call \in panic : call.op # "verify" =>
    /\ call.op = "secret"
    /\ call.source.via # "bytes" =>
         ~Standard(IF call.source.via = "der" THEN call.source.from ELSE call.source.from.der)
==============================================================================
