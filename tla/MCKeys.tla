-------------------------------- MODULE MCKeys -------------------------------
(***************************************************************************)
(* A small instance of Keys for TLC: two key pairs of every family, read    *)
(* from documents of the right kind and of others.                          *)
(***************************************************************************)
EXTENDS Keys, TLC

Raw(len, v) == [len |-> len, is |-> <<"raw", v>>]
Zero(len) == [len |-> len, is |-> <<"zero">>]
Sec1(b) == [len |-> b.len + 77, is |-> <<"sec1", b>>]
Octets(b) == [len |-> b.len + 2, is |-> <<"octets", b>>]
Pkcs1(v) == [len |-> 1190, is |-> <<"pkcs1", v>>]

Der(form, oid, curve, key) == [form |-> form, oid |-> oid, curve |-> curve, key |-> key]
Pem(tag, der) == [tag |-> tag, der |-> der]
From(via, x) == [via |-> via, from |-> x]

P256(b) == Der("pkcs8", "EC", "Secp256r1", Sec1(b))
P384(b) == Der("pkcs8", "EC", "Secp384r1", Sec1(b))
Ed(b) == Der("pkcs8", "Ed25519", "none", Octets(b))
Rsa(v) == Der("pkcs8", "rsaEncryption", "none", Pkcs1(v))

MCSecretSources ==
  {From("bytes", Raw(32, "s")), From("bytes", Raw(48, "t")), From("bytes", Zero(32)),
   From("bytes", Pkcs1("r")),
   From("der", P256(Raw(32, "s"))), From("der", P384(Raw(48, "t"))),
   From("der", Ed(Raw(32, "s"))), From("der", Rsa("r")),
   From("der", P256(Zero(32))), From("der", P256(Raw(48, "t"))),
   From("der", Der("pkcs8", "EC", "other", Sec1(Raw(32, "s")))),
   From("der", Der("pkcs8", "Ed25519", "none", Raw(1, "x"))),
   From("der", Der("pkcs8", "Ed25519", "none", Raw(32, "s"))),
   From("der", Der("pkcs8", "other", "none", Octets(Raw(32, "s")))),
   From("der", Der("junk", "none", "none", Raw(0, ""))),
   From("pem", Pem("PRIVATE KEY", Ed(Raw(32, "u")))),
   From("pem", Pem("PRIVATE KEY", P384(Raw(48, "t")))),
   From("pem", Pem("EC PRIVATE KEY", P256(Raw(32, "s"))))}

Public(family, is, form) ==
  [len |-> IF form = "raw" THEN 32 ELSE 91, is |-> <<"public", family, is, form>>]
Spki(oid, curve, key) == Pem("PUBLIC KEY", Der("spki", oid, curve, key))

MCPublicSources ==
  {From("bytes", Public("p256", <<"raw", "s">>, "compressed")),
   From("bytes", Public("p384", <<"raw", "t">>, "uncompressed")),
   From("bytes", Public("ed25519", <<"raw", "s">>, "raw")),
   From("bytes", Public("rsa", <<"pkcs1", "r">>, "pkcs1")),
   From("bytes", Raw(32, "s")), From("bytes", Raw(31, "x")),
   From("pem", Spki("EC", "Secp256r1", Public("p256", <<"raw", "s">>, "uncompressed"))),
   From("pem", Spki("EC", "Secp256r1", Public("p256", <<"raw", "v">>, "uncompressed"))),
   From("pem", Spki("Ed25519", "none", Public("ed25519", <<"raw", "u">>, "raw"))),
   From("pem", Spki("rsaEncryption", "none", Public("rsa", <<"pkcs1", "r">>, "pkcs1"))),
   From("pem", Spki("rsaEncryption", "none", Public("rsa", <<"pkcs1", "q">>, "pkcs1"))),
   From("pem", Pem("PRIVATE KEY", Ed(Raw(32, "u"))))}

(* One shared key is the same bytes as a public key.                        *)
MCSharedSources ==
  {{}, {Raw(64, "m")}, {Public("ed25519", <<"raw", "s">>, "raw")}}

MCForeignLetters ==
  {[ours |-> FALSE, alg |-> {"ed448"}, keyid |-> {<<"public", "p256", <<"raw", "s">>, "compressed">>},
    sig |-> [by |-> NoKey, len |-> 64]]}
==============================================================================
