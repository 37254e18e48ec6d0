------------------------------ MODULE Keys_proofs ----------------------------
(***************************************************************************)
(* Theorems about Keys, for any documents and any number of keys.  Among    *)
(* keys of one algorithm the key id tells two keys apart, and every key     *)
(* that is read has one of the shapes that KeyId expects; a key panics for  *)
(* its length only.                                                         *)
(***************************************************************************)
EXTENDS Keys, TLAPS

Unpaired(of) ==
  /\ of = <<"unpaired", of[2]>>
  /\ ~(of[2][1] = "public" /\ of[2][2] = "ed25519")

IsKey(key) ==
  /\ key = Key(key.alg, key.of) /\ key.alg \in AlgorithmName
  /\ key.alg # "hmac-sha256" /\ key.of[1] = "unpaired" =>
       key.alg = "ed25519" /\ Unpaired(key.of)

LetterOK ==
  letter.ours => /\ IsKey(letter.sig.by)
                 /\ letter.keyid = {KeyId(letter.sig.by)}
                 /\ letter.sig.len = SignatureLength(letter.sig.by.alg)
                 /\ letter.alg \in {{}, {letter.sig.by.alg}}

KeysInv ==
  /\ signer = NoKey \/ IsKey(signer)
  /\ \A key \in ring : IsKey(key)
  /\ LetterOK

-----------------------------------------------------------------------------
(* What stands where in a public key's encoding.                            *)
LEMMA EncodingParts ==
  ASSUME NEW family, NEW of, NEW form
  PROVE  LET e == <<"public", family, of, form>>
         IN  e[1] = "public" /\ e[2] = family /\ e[3] = of
  OBVIOUS

(* Two keys of one algorithm with one key id are the same key.              *)
LEMMA SameIdSameKey ==
  ASSUME NEW a, NEW b, IsKey(a), IsKey(b), a.alg = b.alg, KeyId(a) = KeyId(b)
  PROVE  a = b
<1>1. SUFFICES a.of = b.of
  BY DEF IsKey
<1>2. CASE a.alg = "hmac-sha256"
  BY <1>2 DEF KeyId
<1>3. CASE a.alg # "hmac-sha256" /\ a.of[1] = "unpaired" /\ b.of[1] = "unpaired"
  <2>1. KeyId(a) = a.of[2] /\ KeyId(b) = b.of[2]
    BY <1>3 DEF KeyId
  <2> QED
    BY <1>3, <2>1 DEF IsKey, Unpaired
<1>4. CASE a.alg # "hmac-sha256" /\ a.of[1] # "unpaired" /\ b.of[1] # "unpaired"
  <2>1. ASSUME NEW k, k.alg # "hmac-sha256", k.of[1] # "unpaired"
        PROVE  KeyId(k)[3] = k.of
    <3>1. KeyId(k) = <<"public", Family(k.alg), k.of, Form(k.alg)>>
      BY <2>1 DEF KeyId
    <3> QED
      BY <3>1, EncodingParts
  <2>2. KeyId(a)[3] = a.of
    BY <1>4, <2>1
  <2>3. KeyId(b)[3] = b.of
    BY <1>4, <2>1
  <2> QED
    BY <2>2, <2>3
<1>5. ASSUME NEW u, NEW k, IsKey(u), IsKey(k), u.alg = k.alg, KeyId(u) = KeyId(k),
             u.alg # "hmac-sha256", u.of[1] = "unpaired", k.of[1] # "unpaired"
      PROVE  FALSE
  <2>1. KeyId(u) = u.of[2]
    BY <1>5 DEF KeyId
  <2>2. u.alg = "ed25519" /\ Unpaired(u.of)
    BY <1>5 DEF IsKey
  <2>3. Family(k.alg) = "ed25519"
    BY <1>5, <2>2 DEF Family, RsaAlgorithm
  <2>4. KeyId(k) = <<"public", "ed25519", k.of, Form(k.alg)>>
    BY <1>5, <2>3 DEF KeyId
  <2>5. KeyId(k)[1] = "public" /\ KeyId(k)[2] = "ed25519"
    BY <2>4, EncodingParts
  <2> QED
    BY <1>5, <2>1, <2>2, <2>5 DEF Unpaired
<1> QED
  BY <1>2, <1>3, <1>4, <1>5

(* What reading returns with Ok is a key.                                   *)
LEMMA SecretIsKey ==
  ASSUME NEW alg \in AlgorithmName, NEW source \in SecretSources,
         ReadSecret(alg, source).outcome = "ok"
  PROVE  IsKey(ReadSecret(alg, source))
<1>1. ASSUME NEW b
      PROVE  SecretFromBytes(alg, b) \in {Panicked, Err}
             \/ \E of : SecretFromBytes(alg, b) = Key(alg, of)
  BY DEF SecretFromBytes
<1>2. ASSUME NEW der
      PROVE  SecretFromDer(alg, der) \in {Panicked, Err}
             \/ \E of : SecretFromDer(alg, der) = Key(alg, of)
  BY <1>1 DEF SecretFromDer
<1>3. ReadSecret(alg, source) \in {Panicked, Err}
      \/ \E of : ReadSecret(alg, source) = Key(alg, of)
  BY <1>1, <1>2 DEF ReadSecret, SecretFromPem
<1>4. PICK of : ReadSecret(alg, source) = Key(alg, of)
  BY <1>3 DEF Panicked, Err
<1>5. of[1] # "unpaired"
  BY <1>4, SourceAssumption DEF Key
<1> QED
  BY <1>4, <1>5 DEF Key, IsKey

LEMMA SharedIsKey ==
  ASSUME NEW alg \in AlgorithmName, NEW text, ReadShared(alg, text).outcome = "ok"
  PROVE  IsKey(ReadShared(alg, text))
<1>1. alg = "hmac-sha256" /\ \E of : ReadShared(alg, text) = Key(alg, of)
  BY DEF ReadShared, Err
<1> QED
  BY <1>1 DEF Key, IsKey

LEMMA PublicIsKey ==
  ASSUME NEW alg \in AlgorithmName, NEW source \in PublicSources,
         ReadPublic(alg, source).outcome = "ok"
  PROVE  IsKey(ReadPublic(alg, source))
<1> DEFINE b == PublicBytes(source)
<1>1. ReadPublic(alg, source) \in {Err, PublicFromBytes(alg, b)}
  BY DEF ReadPublic, PublicFromPem, PublicBytes
<1>2. ReadPublic(alg, source) = PublicFromBytes(alg, b)
  BY <1>1 DEF Err
<1>3. PublicFromBytes(alg, b) # Err
  BY <1>2 DEF Err
<1>4. CASE alg # "hmac-sha256" /\ b.is[1] = "public" /\ b.is[2] = Family(alg)
  <2>1. b.is[3][1] # "unpaired"
    BY <1>4, SourceAssumption
  <2>2. PublicFromBytes(alg, b) = Key(alg, b.is[3])
    BY <1>4 DEF PublicFromBytes, Family, RsaAlgorithm
  <2> QED
    BY <1>2, <2>1, <2>2 DEF Key, IsKey
<1>5. CASE /\ alg = "ed25519" /\ ~(b.is[1] = "public" /\ b.is[2] = "ed25519")
           /\ PublicFromBytes(alg, b) = Key(alg, <<"unpaired", b.is>>)
  BY <1>2, <1>5 DEF Key, IsKey, Unpaired
<1> QED
  BY <1>3, <1>4, <1>5 DEF PublicFromBytes, Family, RsaAlgorithm

-----------------------------------------------------------------------------
LEMMA KeysInvInit == KeysInit => KeysInv
  BY DEF KeysInit, KeysInv, LetterOK, NoLetter

LEMMA KeysInvStep == KeysInv /\ [KeysNext]_keyVars => KeysInv'
<1> SUFFICES ASSUME KeysInv, [KeysNext]_keyVars PROVE KeysInv'
  OBVIOUS
<1> USE DEF KeysInv
<1>1. ASSUME UNCHANGED letter PROVE LetterOK'
  BY <1>1 DEF LetterOK
<1>2. ASSUME NEW alg \in AlgorithmName, NEW s \in SecretSources, ReadSigner(alg, s)
      PROVE  KeysInv'
  <2>1. signer' = signer \/ IsKey(signer')
    BY <1>2, SecretIsKey DEF ReadSigner
  <2> QED
    BY <1>1, <1>2, <2>1 DEF ReadSigner
<1>3. ASSUME NEW alg \in AlgorithmName, NEW t \in SharedSources, ReadSharedSigner(alg, t)
      PROVE  KeysInv'
  <2>1. signer' = signer \/ IsKey(signer')
    BY <1>3, SharedIsKey DEF ReadSharedSigner
  <2> QED
    BY <1>1, <1>3, <2>1 DEF ReadSharedSigner
<1>4. ASSUME NEW told, WriteLetter(told) PROVE KeysInv'
  <2>1. IsKey(signer) /\ PublicKey(signer) = signer
    BY <1>4 DEF WriteLetter, IsKey, PublicKey
  <2>2. /\ letter'.sig.by = signer /\ letter'.keyid = {KeyId(signer)}
        /\ letter'.sig.len = SignatureLength(signer.alg)
        /\ letter'.alg \in {{}, {signer.alg}}
    BY <1>4, <2>1 DEF WriteLetter
  <2>3. LetterOK'
    BY <2>1, <2>2 DEF LetterOK
  <2> QED
    BY <1>4, <2>3 DEF WriteLetter
<1>5. ASSUME NEW alg \in AlgorithmName, NEW s \in PublicSources, LoadPublic(alg, s)
      PROVE  KeysInv'
  <2>1. \A key \in ring' : IsKey(key)
    BY <1>5, PublicIsKey DEF LoadPublic
  <2> QED
    BY <1>1, <1>5, <2>1 DEF LoadPublic
<1>6. CASE LoadOwn
  <2>1. PublicKey(signer) = signer
    BY <1>6 DEF LoadOwn, IsKey, PublicKey
  <2> QED
    BY <1>1, <1>6, <2>1 DEF LoadOwn
<1>7. ASSUME NEW key \in ring, VerifyLetter(key) PROVE KeysInv'
  BY <1>1, <1>7 DEF VerifyLetter
<1>8. ASSUME NEW foreign \in ForeignLetters, ForeignLetter(foreign) PROVE KeysInv'
  BY <1>8, LetterAssumption DEF ForeignLetter, LetterOK
<1>9. CASE UNCHANGED keyVars
  BY <1>1, <1>9 DEF keyVars
<1> QED
  BY <1>2, <1>3, <1>4, <1>5, <1>6, <1>7, <1>8, <1>9 DEF KeysNext, SignerStep, VerifierStep

LEMMA InvFits == KeysInv => NamedKeyFits
<1> SUFFICES ASSUME KeysInv, letter.ours, NEW key \in ring, Named(key),
                    ToldAlgorithm # {} \/ key.alg = letter.sig.by.alg
             PROVE  Check(key) = "ok"
  BY DEF NamedKeyFits
<1> DEFINE by == letter.sig.by
<1>1. IsKey(by) /\ IsKey(key) /\ KeyId(key) = KeyId(by)
  BY DEF KeysInv, LetterOK, Named
<1>2. key.alg = by.alg
  <2>1. CASE letter.alg = {}
    BY <2>1 DEF ToldAlgorithm
  <2>2. CASE letter.alg = {by.alg}
    <3>1. ToldAlgorithm = {by.alg}
      BY <1>1, <2>2 DEF ToldAlgorithm, IsKey
    <3> QED
      BY <3>1 DEF Named
  <2> QED
    BY <2>1, <2>2 DEF KeysInv, LetterOK
<1>3. key = by
  BY <1>1, <1>2, SameIdSameKey
<1> QED
  BY <1>3 DEF Check, VerifyOutcome, KeysInv, LetterOK

(* The key that a message names verifies it, whichever documents the two    *)
(* sides read and however many keys the verifier holds.                     *)
THEOREM NamedKeyAlwaysFits == KeysSpec => []NamedKeyFits
<1>1. KeysSpec => []KeysInv
  BY KeysInvInit, KeysInvStep, PTL DEF KeysSpec
<1> QED
  BY <1>1, InvFits, PTL

-----------------------------------------------------------------------------
(* Which keys panic when they are read                                      *)

LEMMA StandardDoesNotPanic ==
  ASSUME NEW alg \in AlgorithmName, NEW der, Standard(der)
  PROVE  SecretFromDer(alg, der).outcome # "panic"
<1> USE DEF Err, Panicked, Key
<1>1. ASSUME NEW b, alg \in RsaAlgorithm PROVE SecretFromBytes(alg, b).outcome # "panic"
  <2>1. alg \notin EcdsaAlgorithm /\ alg # "ed25519"
    BY <1>1 DEF RsaAlgorithm, EcdsaAlgorithm
  <2> QED
    BY <1>1, <2>1 DEF SecretFromBytes
<1>2. SUFFICES ASSUME der.form = "pkcs8", alg \in DocumentAlgorithms(der)
               PROVE  SecretFromDer(alg, der).outcome # "panic"
  BY DEF SecretFromDer
<1>3. CASE der.oid = "EC"
  <2>1. /\ der.key.is[1] = "sec1" /\ alg \in CurveAlgorithm(der)
        /\ \/ der.curve = "Secp256r1" /\ der.key.is[2].len = 32
           \/ der.curve = "Secp384r1" /\ der.key.is[2].len = 48
    BY <1>2, <1>3 DEF Standard, DocumentAlgorithms
  <2>2. alg \in EcdsaAlgorithm /\ der.key.is[2].len = ScalarLength(alg)
    BY <2>1 DEF CurveAlgorithm, EcdsaAlgorithm, ScalarLength
  <2>3. SecretFromDer(alg, der) = SecretFromBytes(alg, der.key.is[2])
    BY <1>2, <1>3, <2>1 DEF SecretFromDer
  <2>4. SecretFromBytes(alg, der.key.is[2]).outcome # "panic"
    <3> HIDE DEF Err, Panicked, Key
    <3>1. alg # "ed25519" /\ alg \notin RsaAlgorithm
      BY <2>2 DEF EcdsaAlgorithm, RsaAlgorithm
    <3>2. ASSUME NEW b, b.len = ScalarLength(alg)
          PROVE  SecretFromBytes(alg, b) = Err \/ SecretFromBytes(alg, b) = Key(alg, b.is)
      BY <2>2, <3>1, <3>2 DEF SecretFromBytes
    <3> QED
      BY <2>2, <3>2 DEF Err, Key
  <2> QED
    BY <2>3, <2>4
<1>4. CASE der.oid = "Ed25519"
  <2>1. /\ der.key.len = 34 /\ der.key.is[1] = "octets" /\ der.key.is[2].len = 32
        /\ alg = "ed25519"
    BY <1>2, <1>4 DEF Standard, DocumentAlgorithms
  <2>2. SecretFromDer(alg, der) = SecretFromBytes(alg, der.key.is[2])
    BY <1>2, <1>4, <2>1 DEF SecretFromDer, WithoutHeader
  <2>3. SecretFromBytes(alg, der.key.is[2]).outcome # "panic"
    BY <2>1 DEF SecretFromBytes, EcdsaAlgorithm
  <2> QED
    BY <2>2, <2>3
<1>5. CASE der.oid = "rsaEncryption"
  <2>1. alg \in RsaAlgorithm
    BY <1>2, <1>5 DEF DocumentAlgorithms
  <2>2. SecretFromDer(alg, der) = SecretFromBytes(alg, der.key)
    BY <1>2, <1>5 DEF SecretFromDer
  <2> QED
    BY <1>1, <2>1, <2>2
<1> QED
  BY <1>3, <1>4, <1>5 DEF Standard

LEMMA PublicDoesNotPanic ==
  ASSUME NEW alg, NEW source
  PROVE  ReadPublic(alg, source).outcome # "panic" /\ ReadShared(alg, source).outcome # "panic"
<1>1. \A b : PublicFromBytes(alg, b).outcome # "panic"
  BY DEF PublicFromBytes, Key, Err
<1> QED
  BY <1>1 DEF ReadPublic, PublicFromPem, ReadShared, Key, Err

LEMMA LengthPanics ==
  ASSUME NEW alg \in AlgorithmName, NEW source,
         ReadSecret(alg, source).outcome = "panic", source.via # "bytes"
  PROVE  ~Standard(IF source.via = "der" THEN source.from ELSE source.from.der)
<1>1. CASE source.via = "der"
  BY <1>1, StandardDoesNotPanic DEF ReadSecret
<1>2. CASE source.via # "der"
  <2>1. SecretFromDer(alg, source.from.der).outcome = "panic"
    BY <1>2 DEF ReadSecret, SecretFromPem, Err
  <2> QED
    BY <1>2, <2>1, StandardDoesNotPanic
<1> QED
  BY <1>1, <1>2

LEMMA PanicStep == OnlyLengthsPanic /\ [KeysNext]_keyVars => OnlyLengthsPanic'
<1> SUFFICES ASSUME OnlyLengthsPanic, [KeysNext]_keyVars PROVE OnlyLengthsPanic'
  OBVIOUS
<1>1. ASSUME NEW alg \in AlgorithmName, NEW source, ReadSigner(alg, source)
      PROVE  OnlyLengthsPanic'
  <2>1. \/ panic' = {}
        \/ /\ panic' = {[op |-> "secret", source |-> source]}
           /\ ReadSecret(alg, source).outcome = "panic"
    BY <1>1 DEF ReadSigner, Did
  <2> QED
    BY <2>1, LengthPanics DEF OnlyLengthsPanic
<1>2. ASSUME NEW alg, NEW source, ReadSharedSigner(alg, source) \/ LoadPublic(alg, source)
      PROVE  OnlyLengthsPanic'
  <2>1. panic' = {}
    BY <1>2, PublicDoesNotPanic DEF ReadSharedSigner, LoadPublic, Did
  <2> QED
    BY <2>1 DEF OnlyLengthsPanic
<1>3. ASSUME NEW told, WriteLetter(told) \/ LoadOwn PROVE OnlyLengthsPanic'
  BY <1>3 DEF WriteLetter, LoadOwn, Did, OnlyLengthsPanic
<1>4. ASSUME NEW key, VerifyLetter(key) PROVE OnlyLengthsPanic'
  BY <1>4 DEF VerifyLetter, Did, OnlyLengthsPanic
<1>5. ASSUME UNCHANGED panic PROVE OnlyLengthsPanic'
  BY <1>5 DEF OnlyLengthsPanic
<1> QED
  BY <1>1, <1>2, <1>3, <1>4, <1>5
  DEF KeysNext, SignerStep, VerifierStep, ForeignLetter, keyVars

(* A key panics while it is read only when it is a secret key of a wrong    *)
(* length: no standard PKCS#8 document does, under any algorithm and in any *)
(* order of reading, and no public or shared key.                           *)
THEOREM StandardNeverPanics == KeysSpec => []OnlyLengthsPanic
<1>1. KeysInit => OnlyLengthsPanic
  BY DEF KeysInit, OnlyLengthsPanic
<1> QED
  BY <1>1, PanicStep, PTL DEF KeysSpec
==============================================================================
