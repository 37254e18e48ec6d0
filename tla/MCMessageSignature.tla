------------------------- MODULE MCMessageSignature --------------------------
(***************************************************************************)
(* Small instances of MessageSignature for TLC.                             *)
(***************************************************************************)
EXTENDS MessageSignature, TLC

MCLower == "Date" :> "date"
MCUpper == "get" :> "GET"
MCUnknownDerived == {"@unknown"}
MCUnparsable == {"say \"hi\""}
MCOpaque == {"caf\\u00e9"}
MCNonKey == {"Sig"}

Flag(p) == [p |-> p, arg |-> ""]
Id(name) == [name |-> name, params |-> <<>>]
KeyId(name, key) == [name |-> name, params |-> <<[p |-> "key", arg |-> key]>>]
ReqId(name) == [name |-> name, params |-> <<Flag("req")>>]

Params(covered, expires, nonce, keyid) ==
  [created |-> {0}, expires |-> expires, nonce |-> nonce, alg |-> {}, keyid |-> keyid,
   tag |-> {}, covered |-> covered]

Token(v) == Member("item", "", <<"token", v>>)

Uri == [scheme |-> "", authority |-> "", path |-> "/p",
        query |-> [present |-> FALSE, parts |-> <<>>]]

Unsigned(date) ==
  [f \in {"date", "signature", "signature-input"} |-> IF f = "date" THEN date ELSE <<>>]

Request(method, headers) ==
  [kind |-> "request", method |-> method, uri |-> Uri, headers |-> headers]
Response(status, headers) ==
  [kind |-> "response", status |-> status, headers |-> headers]

(* A message with one signature of somebody who does not use the library.   *)
Foreign(msg, params) ==
  [msg EXCEPT !.headers["signature-input"] = <<Member("entry", "other", <<"inner", params>>)>>,
              !.headers["signature"] = <<Member("entry", "other", <<"bytes", 0>>)>>]

Item(params, key, name) == [params |-> params, key |-> key, name |-> name]
With(key, keyid) == [key |-> key, keyid |-> keyid]

-----------------------------------------------------------------------------
(* Two keys, requests                                                       *)

MCKeys == {"ed", "mac"}
MCKeyAlg == [k \in MCKeys |-> IF k = "ed" THEN "ed25519" ELSE "hmac-sha256"]

Get == Request("get", Unsigned(<<Token("d1")>>))
MCContents == {Get, Request("get", Unsigned(<<Token("d2"), Token("d1")>>))}

MCInitialMessages ==
  {Get,
   Foreign(Get, Params(<<Id("@status")>>, {}, {}, {"k1"})),   \* no base in a request
   Foreign(Get, Params(<<[name |-> "date", params |-> <<Flag("x")>>]>>, {}, {}, {}))}

Dated == Params(<<Id("Date"), Id("@method")>>, {0}, {}, {"k1"})
Plain == Params(<<Id("@method")>>, {}, {}, {"k2"})
Counter == Params(<<KeyId("signature", "sig")>>, {}, {}, {"k2"})
Quoted == Params(<<Id("date")>>, {}, MCUnparsable, {"k1"})
NotAscii == Params(<<Id("date")>>, {}, MCOpaque, {"k1"})
NoBase == Params(<<Id("@status")>>, {}, {}, {})
WholeField == Params(<<Id("signature-input")>>, {}, {}, {"k2"})

MCSignRequests ==
  {<<Item(Dated, "ed", {})>>, <<Item(Plain, "mac", {"b"})>>, <<Item(Counter, "mac", {"b"})>>,
   <<Item(Plain, "ed", {"b"})>>, <<Item(WholeField, "mac", {"b"})>>,
   <<Item(Quoted, "ed", {})>>, <<Item(Plain, "ed", {"Sig"})>>, <<Item(NoBase, "ed", {})>>,
   <<Item(Dated, "ed", {}), Item(Plain, "mac", {"b"})>>,
   <<Item(Dated, "ed", {}), Item(NotAscii, "mac", {"b"})>>}

MCVerifyRequests ==
  {<<With("ed", {})>>, <<With("ed", {"k1"}), With("mac", {"k2"})>>, <<With("mac", {})>>, <<>>}

MCNoRequests == {NoRequest}

-----------------------------------------------------------------------------
(* Responses, bound to their request by `req` components                    *)

ResKeys == {"p256", "ed"}
ResKeyAlg == [k \in ResKeys |-> IF k = "ed" THEN "ed25519" ELSE "ecdsa-p256-sha256"]

Ok == Response("200", Unsigned(<<Token("d1")>>))
ResContents == {Ok, Response("500", Unsigned(<<Token("d1")>>))}
ResInitialMessages == {Ok}

Post == Request("POST", Unsigned(<<Token("d2")>>))
ResRequests == {NoRequest, Get, Post}

Bound == Params(<<Id("@status"), ReqId("date")>>, {}, {}, {"k1"})
BoundMethod == Params(<<ReqId("@method"), Id("date")>>, {}, {}, {"k1"})
Unbound == Params(<<Id("@status"), Id("date")>>, {}, {}, {"k2"})
ReqStatus == Params(<<ReqId("@status")>>, {}, {}, {})

ResSignRequests ==
  {<<Item(Bound, "p256", {})>>, <<Item(BoundMethod, "ed", {"b"})>>, <<Item(Unbound, "ed", {"b"})>>,
   <<Item(ReqStatus, "ed", {"b"})>>, <<Item(Bound, "p256", {}), Item(Unbound, "p256", {"b"})>>}

ResVerifyRequests ==
  {<<With("p256", {})>>, <<With("ed", {"k1"}), With("ed", {"k2"}), With("p256", {"k1"})>>}

-----------------------------------------------------------------------------
(* Keys whose signatures differ in length                                   *)

LenKeys == {"p384", "ed"}
LenKeyAlg == [k \in LenKeys |-> IF k = "ed" THEN "ed25519" ELSE "ecdsa-p384-sha384"]
LenSignRequests ==
  {<<Item(Plain, "ed", {})>>, <<Item(Dated, "p384", {"b"})>>,
   <<Item(Plain, "ed", {}), Item(Dated, "p384", {"b"})>>}
LenVerifyRequests == {<<With("p384", {})>>, <<With("p384", {"k1"})>>, <<With("ed", {})>>}
LenInitialMessages == {Get}

-----------------------------------------------------------------------------
(* Requests and responses together                                          *)

AllKeys == MCKeys \union ResKeys
AllKeyAlg == [k \in AllKeys |-> IF k \in MCKeys THEN MCKeyAlg[k] ELSE ResKeyAlg[k]]
AllContents == MCContents \union ResContents
AllInitialMessages == MCInitialMessages \union ResInitialMessages
AllSignRequests == MCSignRequests \union ResSignRequests
AllVerifyRequests == MCVerifyRequests \union ResVerifyRequests

-----------------------------------------------------------------------------
(* A sender whose derived component the library does not know, and one who  *)
(* says that the signature is from before 1970                              *)

ForeignParamsMessages ==
  {Foreign(Get, Params(<<Id("@unknown")>>, {}, {}, {})),
   Foreign(Get, [Params(<<Id("date")>>, {}, {}, {}) EXCEPT !.created = {-1}])}
=============================================================================
