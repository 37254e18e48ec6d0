------------------------------ MODULE MCExchange -----------------------------
(***************************************************************************)
(* A small instance of Exchange for TLC: two bodies, two requests, two      *)
(* responses, the two keys of the examples.                                 *)
(***************************************************************************)
EXTENDS Exchange, TLC

MCKeys == {"ed", "hs"}
MCKeyAlg == "ed" :> "ed25519" @@ "hs" :> "hmac-sha256"
MCNameOf == "ed" :> "siged25519" @@ "hs" :> "sighs256"
MCKeyIdOf == "ed" :> "k1" @@ "hs" :> "k2"
MCWithNonce == {"hs"}
MCNonces == <<"n1", "n2", "n3", "n4">>
MCClientKeys == {<<"ed">>, <<"ed", "hs">>}
MCServerKeys == {<<"hs">>}
MCBodies == {<<"a", "b">>, <<"c">>}

Token(v) == Member("item", "", <<"token", v>>)
Headers(date, digest) ==
  "date" :> <<Token(date)>> @@ "content-type" :> <<Token("json"), Token("patch")>>
  @@ "content-digest" :> digest @@ "signature" :> <<>> @@ "signature-input" :> <<>>
Uri == [scheme |-> "", authority |-> "", path |-> "/p",
        query |-> [present |-> FALSE, parts |-> <<>>]]
Old == <<Member("entry", "sha-256", D!DeriveDigest("sha-256", <<"old">>))>>

MCRequestContents ==
  {[kind |-> "request", method |-> "GET", uri |-> Uri, headers |-> Headers("d1", <<>>)],
   [kind |-> "request", method |-> "PUT", uri |-> Uri, headers |-> Headers("d1", Old)]}
MCResponseContents ==
  {[kind |-> "response", status |-> "200", headers |-> Headers("d1", <<>>)],
   [kind |-> "response", status |-> "500", headers |-> Headers("d1", <<>>)]}

MCEmpty == {}
MCRequests == {NoRequest}
MCNames == [s \in {} |-> s]

(* The theorem about intact messages speaks of parties like these.          *)
ASSUME InstanceInteroperable == Interoperable
==============================================================================
