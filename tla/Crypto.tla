-------------------------------- MODULE Crypto -------------------------------
(***************************************************************************)
(* Algorithms and what verifying a signature returns (httpsig/src/crypto).  *)
(* Cryptography is ideal: whether a signature is genuine for the key and    *)
(* the data is an argument, decided by who really signed what.              *)
(***************************************************************************)
EXTENDS Naturals

AlgorithmName ==
  {"hmac-sha256", "ecdsa-p256-sha256", "ecdsa-p384-sha384", "ed25519",
   "rsa-v1_5-sha256", "rsa-pss-sha512"}

EcdsaAlgorithm == {"ecdsa-p256-sha256", "ecdsa-p384-sha384"}

(* Bytes of a signature that sign() of the algorithm returns; for RSA the   *)
(* modulus of a 2048-bit key.                                               *)
SignatureLength(alg) ==
  CASE alg = "hmac-sha256" -> 32
    [] alg \in {"ed25519", "ecdsa-p256-sha256"} -> 64
    [] alg = "ecdsa-p384-sha384" -> 96
    [] OTHER -> 256

(* VerifyingKey::verify of a signature of len bytes.  The ECDSA arms turn   *)
(* the slice into an array of their length with into(), which panics when   *)
(* the lengths differ; every other failure is an Err.                       *)
VerifyOutcome(alg, genuine, len) ==
  CASE alg \in EcdsaAlgorithm /\ len # SignatureLength(alg) -> "panic"
    [] genuine /\ len = SignatureLength(alg) -> "ok"
    [] OTHER -> "err"
=============================================================================
