------------------------------- MODULE Exchange ------------------------------
(***************************************************************************)
(* A client and a server that use the two halves of the library together,   *)
(* the way the examples and the tests of httpsig-hyper do: set a content    *)
(* digest, sign it, send; verify the signature, then the digest.  The       *)
(* server signs its response over parts of the request it received, the     *)
(* client verifies it with the request it sent.                             *)
(*                                                                         *)
(* The network keeps everything that was sent: it delivers a message late,  *)
(* more than once, to a client that waits for another answer or never, as   *)
(* it is or changed.  One message is in hand at a time: parties share only  *)
(* what is sent, so the work of one on its message commutes with that of    *)
(* another on its own.                                                      *)
(***************************************************************************)
EXTENDS MessageSignature, FiniteSets

CONSTANTS
  NameOf, KeyIdOf,    \* [Keys -> STRING]: signature names and key ids
  WithNonce,          \* keys whose signer sets a random nonce
  Nonces,             \* random nonces, no two the same
  ClientKeys, ServerKeys,   \* what they sign with: sequences of keys
  RequestContents,    \* requests before their digest is set
  ResponseContents,
  Bodies,             \* bytes of a body
  MaxTaken            \* bound on the messages of either kind that are accepted

(* Fields consist of members; names in lower case stay as they are.         *)
ASSUME ExchangeAssumption ==
  /\ \A keys \in ClientKeys \cup ServerKeys : keys \in Seq(Keys)
  /\ \A m \in RequestContents : m.kind = "request"
  /\ \A m \in ResponseContents : m.kind = "response"
  /\ \A m \in RequestContents \cup ResponseContents :
       /\ IsMessage(m) /\ "content-digest" \in DOMAIN m.headers
       /\ \A f \in DOMAIN m.headers : \A i \in DOMAIN m.headers[f] :
            DOMAIN m.headers[f][i] = {"form", "key", "val", "first"}
  /\ {"date", "content-type", "content-digest"} \cap DOMAIN AsciiLower = {}

VARIABLES
  body, task, arrived, vouched,   \* as in ContentDigest, of the message in hand
  hand,        \* what is being done with the message in hand
  asked,       \* requests sent: [msg, bytes]
  served,      \* requests the server verified: [msg, bytes]
  answered,    \* responses sent: [req, msg, bytes], req as in served
  concluded    \* responses the client verified: [req, msg], req as in asked

D == INSTANCE ContentDigest WITH DigestFields <- {}, Frames <- {}, MaxBytes <- 0

handVars == <<message, body, task, arrived, vouched>>
historyVars == <<asked, served, answered, concluded>>
allVars == <<vars, handVars, hand, historyVars>>

Plain(name) == [name |-> name, params |-> <<>>]
OfRequest(name) == [name |-> name, params |-> <<[p |-> "req", arg |-> ""]>>]

COVERED_COMPONENTS_REQ ==
  <<Plain("@method"), Plain("date"), Plain("content-type"), Plain("content-digest")>>
OwnComponents == <<Plain("@status"), Plain("date"), Plain("content-type")>>   \* mutant: the rest
COVERED_COMPONENTS_RES ==
  <<Plain("@status"), OfRequest("@method"), Plain("date"), Plain("content-type"),
    OfRequest("content-digest")>>

ExchangeInit ==
  /\ now = 0 /\ signed = <<>> /\ call = NoCall
  /\ message = D!NoMessage /\ body = D!NoBody /\ task = D!NoTask
  /\ arrived = <<>> /\ vouched = FALSE
  /\ hand = [doing |-> "nothing"]
  /\ asked = {} /\ served = {} /\ answered = {} /\ concluded = {}

(* The message in hand is done with.                                        *)
PutDown ==
  /\ message' = D!NoMessage /\ body' = D!NoBody /\ task' = D!NoTask
  /\ arrived' = <<>> /\ vouched' = FALSE
  /\ UNCHANGED now
Free == hand.doing = "nothing"

-----------------------------------------------------------------------------
(* Sending                                                                  *)

Build(content, bytes, keys, req) ==
  /\ Free /\ Len(signed) + Len(keys) <= MaxSigned
  /\ message' = content
  /\ body' = D!Full(bytes) /\ arrived' = bytes
  /\ hand' = [doing |-> "digest", keys |-> keys, req |-> req]
  /\ UNCHANGED <<now, signed, call, task, vouched, historyVars>>

NoAsked == [msg |-> NoRequest, bytes |-> <<>>]
BuildRequest ==
  \E content \in RequestContents, bytes \in Bodies, keys \in ClientKeys :
    Build(content, bytes, keys, NoAsked)
BuildResponse ==
  \E content \in ResponseContents, bytes \in Bodies, keys \in ServerKeys, req \in served :
    Build(content, bytes, keys, req)

SetDigest ==
  /\ hand.doing = "digest"
  /\ \/ (D!BeginSet("sha-256") \/ D!Collect \/ D!FinishSet) /\ UNCHANGED hand
     \/ D!TakeBack /\ hand' = [hand EXCEPT !.doing = "sign"]
  /\ UNCHANGED <<now, signed, call, historyVars>>

(* HttpSignatureParams::try_new, set_key_info, and set_random_nonce.        *)
SenderParams(key) ==
  [created |-> {now}, expires |-> {},
   nonce |-> IF key \in WithNonce THEN {Nonces[Len(signed) + 1]} ELSE {},
   alg |-> {KeyAlg[key]}, keyid |-> {KeyIdOf[key]}, tag |-> {},
   covered |-> IF message.kind = "request" THEN COVERED_COMPONENTS_REQ
               ELSE COVERED_COMPONENTS_RES]

SignWith(key) ==
  SetMessageSignatures(<<[params |-> SenderParams(key), key |-> key, name |-> {NameOf[key]}]>>,
                       hand.req.msg)

SignOne ==
  /\ hand.doing = "sign" /\ hand.keys # <<>>
  /\ SignWith(Head(hand.keys))
  /\ hand' = [hand EXCEPT !.keys = Tail(@)]
  /\ UNCHANGED <<body, task, arrived, vouched, historyVars>>

Send ==
  /\ hand.doing = "sign" /\ hand.keys = <<>>
  /\ LET bytes == Head(body.frames)
     IN  IF message.kind = "request"
         THEN asked' = asked \cup {[msg |-> message, bytes |-> bytes]} /\ UNCHANGED answered
         ELSE answered' = answered \cup {[req |-> hand.req, msg |-> message, bytes |-> bytes]}
              /\ UNCHANGED asked
  /\ hand' = [doing |-> "nothing"]
  /\ PutDown
  /\ UNCHANGED <<signed, call, served, concluded>>

-----------------------------------------------------------------------------
(* The network                                                              *)

Whole(frames) == [frames |-> frames, end |-> "closed", trailers |-> FALSE]
Chunkings(bytes) ==
  {<<bytes>>} \cup {<<SubSeq(bytes, 1, i), SubSeq(bytes, i + 1, Len(bytes))>> :
                      i \in 1..(Len(bytes) - 1)}

OnOneLine(field) == [i \in DOMAIN field |-> [field[i] EXCEPT !.first = i = 1]]
Merged(msg) == {[msg EXCEPT !.headers[f] = OnOneLine(@)] : f \in DOMAIN msg.headers}

(* What another frame boundary and a joined field leave as it was.          *)
Unharmed(sent) ==
  {[msg |-> msg, body |-> Whole(frames), intact |-> TRUE] :
     msg \in {sent.msg} \cup Merged(sent.msg), frames \in Chunkings(sent.bytes)}

(* One thing changed: the content, the digest and the body with it, one     *)
(* signature, the body; or the body breaks off.                             *)
Rewritten(msg) ==
  {[content EXCEPT !.headers =
      [f \in DOMAIN @ |-> IF f \in SignatureFields \cup {"content-digest"} THEN msg.headers[f]
                          ELSE @[f]]] :
     content \in {c \in RequestContents \cup ResponseContents : c.kind = msg.kind}}
Stripped(msg) ==
  {[msg EXCEPT !.headers = Without(@, i)] : i \in DOMAIN msg.headers["signature"]}

Harmed(sent) ==
  LET Delivery(msg, b) == [msg |-> msg, body |-> b, intact |-> FALSE]
  IN  {Delivery(msg, D!Full(sent.bytes)) : msg \in Rewritten(sent.msg) \cup Stripped(sent.msg)}
      \cup {Delivery(sent.msg, D!Full(bytes)) : bytes \in Bodies \ {sent.bytes}}
      \cup {Delivery(D!WithDigest(sent.msg, "sha-256", bytes), D!Full(bytes)) : bytes \in Bodies}
      \cup {Delivery(sent.msg, [frames |-> <<SubSeq(sent.bytes, 1, 1)>>, end |-> "failed",
                                trailers |-> FALSE])}

(* A key signed the message that comes, under its name.                     *)
Carries(msg, key) ==
  \E i \in DOMAIN msg.headers["signature"] : msg.headers["signature"][i].key = NameOf[key]

-----------------------------------------------------------------------------
(* Receiving                                                                *)

(* What the covered components and the body say.                            *)
Question(msg, bytes) ==
  [head |-> Values(msg, [covered |-> SubSeq(COVERED_COMPONENTS_REQ, 1, 3)], NoRequest),
   body |-> bytes]
AskedQuestion(req) == Question(req.msg, req.bytes)

(* A receiver takes what is delivered, to verify it with a key; the client  *)
(* takes it for the response to one of its requests.                        *)
Take(delivery, key, req, intact) ==
  /\ message' = delivery.msg /\ body' = delivery.body
  /\ hand' = [doing |-> "verify", key |-> key, req |-> req,
              intact |-> delivery.intact /\ intact /\ Carries(delivery.msg, key)]
  /\ UNCHANGED <<now, signed, call, task, arrived, vouched, historyVars>>

TakeRequest ==
  /\ Free /\ Cardinality(served) < MaxTaken
  /\ \E sent \in asked, key \in Keys : \E delivery \in Unharmed(sent) \cup Harmed(sent) :
       Take(delivery, key, NoAsked, TRUE)
TakeResponse ==
  /\ Free /\ Cardinality(concluded) < MaxTaken
  /\ \E sent \in answered, key \in Keys, req \in asked :
       \E delivery \in Unharmed(sent) \cup Harmed(sent) :
         Take(delivery, key, req, AskedQuestion(req) = AskedQuestion(sent.req))

Rejected == [doing |-> "rejected", intact |-> hand.intact]

VerifySignature ==
  /\ hand.doing = "verify"
  /\ \/ /\ \E keyid \in {{}, {KeyIdOf[hand.key]}} :
             BeginVerify(<<[key |-> hand.key, keyid |-> keyid]>>, hand.req.msg)
        /\ UNCHANGED hand
     \/ (CheckSignature \/ FinishKey) /\ UNCHANGED hand
     \/ /\ Return
        /\ hand' = IF call.status = "done" /\ call.results[1].ok
                   THEN [hand EXCEPT !.doing = "body"] ELSE Rejected
  /\ UNCHANGED <<body, task, arrived, vouched, historyVars>>

(* The digest is verified after the signature that covers it.               *)
VerifyBody ==
  /\ hand.doing = "body"
  /\ D!BeginVerifyDigest \/ D!Collect \/ D!BodyFails \/ D!FinishVerify
  /\ hand' = IF task'.status = "err" THEN Rejected ELSE hand
  /\ UNCHANGED <<now, signed, call, historyVars>>

Accept ==
  /\ hand.doing = "body" /\ task.status = "done"
  /\ IF message.kind = "request"
     THEN /\ served' = served \cup {[msg |-> message, bytes |-> Head(body.frames)]}
          /\ UNCHANGED concluded
     ELSE /\ concluded' = concluded \cup {[req |-> hand.req, msg |-> message]}
          /\ UNCHANGED served
  /\ hand' = [doing |-> "nothing"]
  /\ PutDown
  /\ UNCHANGED <<signed, call, asked, answered>>

(* A rejected message is dropped; and so may be a future that waits for a   *)
(* body, with its message.  Signing and verifying signatures never wait.    *)
LetGo ==
  /\ hand.doing \in {"digest", "body", "rejected"}
  /\ hand' = [doing |-> "nothing"]
  /\ PutDown
  /\ UNCHANGED <<signed, call, historyVars>>

-----------------------------------------------------------------------------
Parties == SetDigest \/ SignOne \/ Send \/ VerifySignature \/ VerifyBody \/ Accept \/ LetGo

ExchangeNext == BuildRequest \/ BuildResponse \/ TakeRequest \/ TakeResponse \/ Parties

ExchangeSpec == ExchangeInit /\ [][ExchangeNext]_allVars

-----------------------------------------------------------------------------
(* Properties                                                               *)

AbstractAsked == {AskedQuestion(r) : r \in asked}
AbstractServed == {AskedQuestion(r) : r \in served}
Reply(msg) ==
  Values(msg, [covered |-> OwnComponents], NoRequest)
AbstractAnswered == {[question |-> AskedQuestion(a.req), answer |-> Reply(a.msg)] : a \in answered}
AbstractConcluded == {[question |-> AskedQuestion(c.req), answer |-> Reply(c.msg)] : c \in concluded}

(* A response covers the method and the content digest of its request.      *)
BoundPart(question) == <<question.head[1], question.body>>

A == INSTANCE AuthenticExchange WITH
       asked <- AbstractAsked, served <- AbstractServed, answered <- AbstractAnswered,
       concluded <- AbstractConcluded, Bound <- BoundPart

(* Signature and digest together carry an exchange: whatever the network    *)
(* does, the server serves only a method, headers and body that the client  *)
(* sent together, and the client concludes only from a response that the    *)
(* server made to a request of the same method and body.                    *)
ExchangeIsAuthentic == A!ExchangeSpec

(* What a client and a server settle before they exchange messages: names   *)
(* that tell their keys apart, names, key ids and nonces that a header      *)
(* carries as they are, no ECDSA key beside signatures of another length    *)
(* (verifying one panics), and messages that nobody has signed yet.         *)
SentStrings ==
  AlgorithmName \cup {KeyIdOf[k] : k \in Keys} \cup {Nonces[n] : n \in 1..MaxSigned}
    \cup {"", "@method", "@status", "date", "content-type", "content-digest"}
Interoperable ==
  /\ \A k, l \in Keys : NameOf[k] = NameOf[l] => k = l
  /\ {NameOf[k] : k \in Keys} \cap (OpaqueStrings \cup NonKeyNames) = {}
  /\ SentStrings \cap (OpaqueStrings \cup UnescapedStrings \cup UnknownDerivedNames) = {}
  /\ MaxSfvInteger \in Nat /\ MaxTime <= MaxSfvInteger
  /\ \A k, l \in Keys : KeyAlg[k] \in EcdsaAlgorithm =>
       SignatureLength(KeyAlg[l]) = SignatureLength(KeyAlg[k])
  /\ \A m \in RequestContents \cup ResponseContents : \A f \in SignatureFields :
       m.headers[f] = <<>>
  /\ \A bytes \in Bodies : IsSeq(bytes)

(* What is delivered as it was sent, whatever its frames, its line breaks,  *)
(* the digest its sender found in it and the other signatures it carries,   *)
(* passes.                                                                  *)
IntactPasses == hand.doing = "rejected" => ~hand.intact
==============================================================================
