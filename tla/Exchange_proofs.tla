---------------------------- MODULE Exchange_proofs ----------------------------
(***************************************************************************)
(* Theorems about Exchange, for every value of its constants.               *)
(***************************************************************************)
EXTENDS Exchange, MessageSignature_proofs

-----------------------------------------------------------------------------
(* What is covered                                                          *)

(* HTTP fields without parameters, or with `req`, are the field as it is.   *)
LEMMA FoldNoParam ==
  ASSUME NEW acc
  PROVE  FoldLeft(ApplyParam, acc, <<>>) = acc
<1>1. PICK up : AllApplied(acc, <<>>) = up[Len(<<>>)] /\ up[0] = acc
  BY EmptyIsSeq, ParamsUnfold
<1>2. AllApplied(acc, <<>>) = acc
  BY <1>1, EmptyIsSeq
<1> QED
  BY <1>2 DEF AllApplied

LEMMA FoldReqParam ==
  ASSUME NEW acc, NEW param, param.p = "req"
  PROVE  FoldLeft(ApplyParam, acc, <<param>>) = acc
<1>1. PICK params : params = <<param>>
  OBVIOUS
<1>2. params \in Seq({param}) /\ Len(params) = 1 /\ params[1] = param
  BY <1>1
<1>3. IsSeq(params)
  BY <1>2, SeqIsSeq
<1>4. PICK up : /\ AllApplied(acc, params) = up[Len(params)] /\ up[0] = acc
                /\ \A n \in 0..Len(params) :
                     n < Len(params) => up[n + 1] = ApplyParam(up[n], params[n + 1])
  BY <1>3, ParamsUnfold
<1>5. up[1] = ApplyParam(acc, param)
  BY <1>2, <1>4
<1>6. AllApplied(acc, params) = acc
  BY <1>2, <1>4, <1>5, Applied
<1> QED
  BY <1>1, <1>6 DEF AllApplied

MethodValue(msg) == <<<<ToUpper(msg.method)>>>>
StatusValue(msg) == <<<<msg.status>>>>
FieldValue(msg, name) == Joined(FieldOf(msg.headers, name))

LEMMA ExtractedValues ==
  ASSUME NEW msg
  PROVE  /\ \A name \in {"date", "content-type", "content-digest"} :
              /\ ExtractValue(msg, Plain(name)) = FieldValue(msg, name)
              /\ ExtractValue(msg, OfRequest(name)) = FieldValue(msg, name)
         /\ ExtractValue(msg, Plain("@method")) = MethodValue(msg)
         /\ ExtractValue(msg, OfRequest("@method")) = MethodValue(msg)
         /\ ExtractValue(msg, Plain("@status")) = StatusValue(msg)
<1>1. ASSUME NEW name \in {"date", "content-type", "content-digest"}
      PROVE  /\ ExtractValue(msg, Plain(name)) = FieldValue(msg, name)
             /\ ExtractValue(msg, OfRequest(name)) = FieldValue(msg, name)
  <2>1. name \notin DerivedComponentName
    BY <1>1 DEF DerivedComponentName
  <2>2. HttpField(msg, Plain(name)).field = FieldOf(msg.headers, name)
    BY FoldNoParam DEF HttpField, Plain
  <2>3. HttpField(msg, OfRequest(name)).field = FieldOf(msg.headers, name)
    <3>1. PICK param : param = [p |-> "req", arg |-> ""]
      OBVIOUS
    <3>2. OfRequest(name) = [name |-> name, params |-> <<param>>]
      BY <3>1 DEF OfRequest
    <3>3. FoldLeft(ApplyParam, [ok |-> TRUE, field |-> FieldOf(msg.headers, name)], <<param>>)
            = [ok |-> TRUE, field |-> FieldOf(msg.headers, name)]
      BY <3>1, FoldReqParam
    <3> QED
      BY <3>2, <3>3 DEF HttpField
  <2>4. Plain(name).name = name /\ OfRequest(name).name = name
    BY DEF Plain, OfRequest
  <2>5. ASSUME NEW id, id.name = name, HttpField(msg, id).field = FieldOf(msg.headers, name)
        PROVE  ExtractValue(msg, id) = FieldValue(msg, name)
    BY <2>1, <2>5 DEF ExtractValue, HttpFieldValue, FieldValue
  <2> QED
    BY <2>2, <2>3, <2>4, <2>5
<1>2. ASSUME NEW id, id.name = "@method"
      PROVE  ExtractValue(msg, id) = MethodValue(msg)
  BY <1>2, Zenon DEF ExtractValue, DerivedComponentName, DerivedValue, MethodValue
<1>3. ASSUME NEW id, id.name = "@status"
      PROVE  ExtractValue(msg, id) = StatusValue(msg)
  BY <1>3 DEF ExtractValue, DerivedComponentName, DerivedValue, StatusValue
<1> QED
  BY <1>1, <1>2, <1>3 DEF Plain, OfRequest

LEMMA ReqParam ==
  \A name : ~HasParam(Plain(name), "req") /\ HasParam(OfRequest(name), "req")
<1> TAKE name
<1>1. ~HasParam(Plain(name), "req")
  BY DEF HasParam, Plain
<1>2. PICK param : param = [p |-> "req", arg |-> ""]
  OBVIOUS
<1>3. OfRequest(name).params = <<param>> /\ param.p = "req"
  BY <1>2 DEF OfRequest
<1>4. 1 \in DOMAIN <<param>> /\ <<param>>[1] = param
  OBVIOUS
<1>5. HasParam(OfRequest(name), "req")
  BY <1>3, <1>4 DEF HasParam
<1> QED
  BY <1>1, <1>5

(* The values under the lists of components that the two parties cover.     *)
LEMMA RequestValues ==
  ASSUME NEW msg, NEW params, NEW req, params.covered = COVERED_COMPONENTS_REQ
  PROVE  Values(msg, params, req) =
           <<MethodValue(msg), FieldValue(msg, "date"), FieldValue(msg, "content-type"),
             FieldValue(msg, "content-digest")>>
<1> DEFINE covered == COVERED_COMPONENTS_REQ
<1>1. \A name : ~HasParam(Plain(name), "req")
  BY ReqParam
<1>2. /\ DOMAIN covered = 1..4
      /\ covered[1] = Plain("@method") /\ covered[2] = Plain("date")
      /\ covered[3] = Plain("content-type") /\ covered[4] = Plain("content-digest")
  BY DEF COVERED_COMPONENTS_REQ
<1> HIDE DEF covered
<1>3. Values(msg, params, req) = [i \in 1..4 |-> ExtractValue(msg, covered[i])]
  BY <1>1, <1>2 DEF Values, covered
<1> QED
  BY <1>2, <1>3, ExtractedValues

LEMMA ResponseValues ==
  ASSUME NEW msg, NEW params, NEW req, params.covered = COVERED_COMPONENTS_RES
  PROVE  Values(msg, params, req) =
           <<StatusValue(msg), MethodValue(req), FieldValue(msg, "date"),
             FieldValue(msg, "content-type"), FieldValue(req, "content-digest")>>
<1> DEFINE covered == COVERED_COMPONENTS_RES
<1>1. \A name : ~HasParam(Plain(name), "req") /\ HasParam(OfRequest(name), "req")
  BY ReqParam
<1>2. /\ DOMAIN covered = 1..5
      /\ covered[1] = Plain("@status") /\ covered[2] = OfRequest("@method")
      /\ covered[3] = Plain("date") /\ covered[4] = Plain("content-type")
      /\ covered[5] = OfRequest("content-digest")
  BY DEF COVERED_COMPONENTS_RES
<1> HIDE DEF covered
<1>3. Values(msg, params, req) =
        [i \in 1..5 |-> IF i \in {2, 5} THEN ExtractValue(req, covered[i])
                                        ELSE ExtractValue(msg, covered[i])]
  BY <1>1, <1>2 DEF Values, covered
<1>4. /\ ExtractValue(msg, covered[1]) = StatusValue(msg)
      /\ ExtractValue(req, covered[2]) = MethodValue(req)
      /\ ExtractValue(msg, covered[3]) = FieldValue(msg, "date")
      /\ ExtractValue(msg, covered[4]) = FieldValue(msg, "content-type")
      /\ ExtractValue(req, covered[5]) = FieldValue(req, "content-digest")
  BY <1>2, ExtractedValues
<1> QED
  BY <1>3, <1>4

LEMMA QuestionValues ==
  ASSUME NEW msg, NEW bytes
  PROVE  Question(msg, bytes) =
           [head |-> <<MethodValue(msg), FieldValue(msg, "date"), FieldValue(msg, "content-type")>>,
            body |-> bytes]
<1> DEFINE covered == SubSeq(COVERED_COMPONENTS_REQ, 1, 3)
<1>1. \A name : ~HasParam(Plain(name), "req")
  BY ReqParam
<1>2. /\ DOMAIN covered = 1..3
      /\ covered[1] = Plain("@method") /\ covered[2] = Plain("date")
      /\ covered[3] = Plain("content-type")
  BY DEF COVERED_COMPONENTS_REQ
<1> HIDE DEF covered
<1>3. Values(msg, [covered |-> covered], NoRequest) = [i \in 1..3 |-> ExtractValue(msg, covered[i])]
  BY <1>1, <1>2 DEF Values
<1>4. Values(msg, [covered |-> covered], NoRequest) =
        <<MethodValue(msg), FieldValue(msg, "date"), FieldValue(msg, "content-type")>>
  BY <1>2, <1>3, ExtractedValues
<1> QED
  BY <1>4 DEF Question, covered

LEMMA ReplyValues ==
  ASSUME NEW msg
  PROVE  Reply(msg) = <<StatusValue(msg), FieldValue(msg, "date"), FieldValue(msg, "content-type")>>
<1> DEFINE covered == OwnComponents
<1>1. \A name : ~HasParam(Plain(name), "req")
  BY ReqParam
<1>2. /\ DOMAIN covered = 1..3
      /\ covered[1] = Plain("@status") /\ covered[2] = Plain("date")
      /\ covered[3] = Plain("content-type")
  BY DEF OwnComponents
<1> HIDE DEF covered
<1>3. Values(msg, [covered |-> covered], NoRequest) = [i \in 1..3 |-> ExtractValue(msg, covered[i])]
  BY <1>1, <1>2 DEF Values
<1>4. Values(msg, [covered |-> covered], NoRequest) =
        <<StatusValue(msg), FieldValue(msg, "date"), FieldValue(msg, "content-type")>>
  BY <1>2, <1>3, ExtractedValues
<1> QED
  BY <1>4 DEF Reply, covered

(* Each kind of message has components that the other has not.              *)
Covered(kind) == IF kind = "request" THEN COVERED_COMPONENTS_REQ ELSE COVERED_COMPONENTS_RES

LEMMA KindOfCovered ==
  ASSUME NEW msg, msg.kind \in {"request", "response"}, NEW params, NEW req,
         BaseOk(msg, params, req),
         NEW kind \in {"request", "response"}, params.covered = Covered(kind)
  PROVE  msg.kind = kind
<1>1. \A name : ~HasParam(Plain(name), "req") /\ Plain(name).name = name
  BY DEF HasParam, Plain
<1>2. \A name : ComponentOk(msg, Plain(name), req) => ExtractOk(msg, Plain(name))
  BY <1>1 DEF ComponentOk, Source
<1>3. CASE kind = "request"
  <2>1. ComponentOk(msg, Plain("@method"), req)
    <3>1. 1 \in DOMAIN params.covered /\ params.covered[1] = Plain("@method")
      BY <1>3 DEF Covered, COVERED_COMPONENTS_REQ
    <3> QED
      BY <3>1 DEF BaseOk
  <2>2. DerivedAllowed(msg, Plain("@method"))
    BY <1>1, <1>2, <2>1 DEF ExtractOk, DerivedOk, DerivedComponentName
  <2> QED
    BY <1>1, <1>3, <2>2 DEF DerivedAllowed
<1>4. CASE kind = "response"
  <2>1. ComponentOk(msg, Plain("@status"), req)
    <3>1. 1 \in DOMAIN params.covered /\ params.covered[1] = Plain("@status")
      BY <1>4 DEF Covered, COVERED_COMPONENTS_RES
    <3> QED
      BY <3>1 DEF BaseOk
  <2>2. DerivedAllowed(msg, Plain("@status"))
    BY <1>1, <1>2, <2>1 DEF ExtractOk, DerivedOk, DerivedComponentName
  <2> QED
    BY <1>1, <1>4, <2>2 DEF DerivedAllowed
<1> QED
  BY <1>3, <1>4

-----------------------------------------------------------------------------
(* Messages                                                                 *)

(* A message that one of the two parties built, or what became of it.       *)
ExchangeMessage(m) ==
  /\ IsMessage(m) /\ "content-digest" \in DOMAIN m.headers

LEMMA HeadersReplaced ==
  ASSUME NEW m, ExchangeMessage(m), NEW h, DOMAIN h = DOMAIN m.headers,
         \A f \in SignatureFields : IsSeq(h[f])
  PROVE  LET n == [m EXCEPT !.headers = h]
         IN  /\ ExchangeMessage(n) /\ n.kind = m.kind /\ n.headers = h
             /\ m.kind = "request" => n.method = m.method
             /\ m.kind = "response" => n.status = m.status
BY DEF ExchangeMessage, IsMessage

(* The value of the content-digest field that belongs to these bytes.       *)
Digested(msg, bytes) ==
  FieldValue(msg, "content-digest") = <<<<"sha-256", D!DeriveDigest("sha-256", bytes)>>>>

LEMMA DigestSet ==
  ASSUME NEW m, ExchangeMessage(m), NEW bytes
  PROVE  LET n == D!WithDigest(m, "sha-256", bytes)
         IN  ExchangeMessage(n) /\ n.kind = m.kind /\ Digested(n, bytes)
<1> DEFINE line == <<Member("entry", "sha-256", D!DeriveDigest("sha-256", bytes))>>
           h == [m.headers EXCEPT !["content-digest"] = line]
           n == [m EXCEPT !.headers = h]
<1>1. D!WithDigest(m, "sha-256", bytes) = n
  BY DEF D!WithDigest, D!CONTENT_DIGEST_HEADER, D!Member, Member
<1>2. /\ DOMAIN h = DOMAIN m.headers /\ h["content-digest"] = line
      /\ \A f \in SignatureFields : IsSeq(h[f])
  BY DEF ExchangeMessage, IsMessage, SignatureFields
<1>3. Joined(line) = <<<<"sha-256", D!DeriveDigest("sha-256", bytes)>>>>
  BY DEF Joined, Member
<1> HIDE DEF h, line
<1>4. ExchangeMessage(n) /\ n.kind = m.kind /\ n.headers = h
  BY <1>2, HeadersReplaced
<1>5. FieldOf(h, "content-digest") = line
  BY <1>2, ExchangeAssumption DEF FieldOf, ToLower, ExchangeMessage
<1> QED
  BY <1>1, <1>3, <1>4, <1>5 DEF Digested, FieldValue

LEMMA ShorterIsSeq ==
  ASSUME NEW s, IsSeq(s), NEW i
  PROVE  IsSeq(DropMember(s, i))
<1> DEFINE d == DropMember(s, i)
<1>1. Len(s) \in Nat
  BY SeqIsSeq DEF IsSeq
<1>2. d = [j \in 1..(Len(s) - 1) |-> d[j]]
  BY DEF DropMember
<1> HIDE DEF d
<1>3. ASSUME Len(s) # 0 PROVE IsSeq(d)
  <2>1. Len(s) - 1 \in Nat
    BY <1>1, <1>3
  <2> QED
    BY <1>2, <2>1, FunIsSeq
<1>4. ASSUME Len(s) = 0 PROVE IsSeq(d)
  <2>1. 1..(Len(s) - 1) = 1..0
    BY <1>4
  <2>2. d = [j \in 1..0 |-> d[j]]
    BY <1>2, <2>1
  <2> QED
    BY <2>2, FunIsSeq
<1> QED
  BY <1>3, <1>4 DEF d

LEMMA OneLineIsSeq ==
  ASSUME NEW s, IsSeq(s)
  PROVE  IsSeq(OnOneLine(s))
<1> DEFINE d == OnOneLine(s)
<1>1. Len(s) \in Nat /\ d = [j \in 1..Len(s) |-> d[j]]
  BY SeqIsSeq DEF IsSeq, OnOneLine
<1> HIDE DEF d
<1> QED
  BY <1>1, FunIsSeq DEF d

(* Whatever the network does, what it delivers is a message of that kind.   *)
LEMMA DeliveredIsMessage ==
  ASSUME NEW sent, ExchangeMessage(sent.msg), NEW delivery \in Unharmed(sent) \cup Harmed(sent)
  PROVE  ExchangeMessage(delivery.msg) /\ delivery.msg.kind = sent.msg.kind
<1> DEFINE msg == sent.msg
           Good(m) == ExchangeMessage(m) /\ m.kind = msg.kind
<1>1. ASSUME NEW m \in Merged(msg) PROVE Good(m)
  <2>1. PICK f \in DOMAIN msg.headers : m = [msg EXCEPT !.headers[f] = OnOneLine(@)]
    BY <1>1 DEF Merged
  <2> DEFINE h == [msg.headers EXCEPT ![f] = OnOneLine(@)]
  <2>2. m = [msg EXCEPT !.headers = h]
    BY <2>1
  <2>3. DOMAIN h = DOMAIN msg.headers /\ \A g \in SignatureFields : IsSeq(h[g])
    BY OneLineIsSeq DEF ExchangeMessage, IsMessage
  <2> HIDE DEF h
  <2> QED
    BY <2>2, <2>3, HeadersReplaced
<1>2. ASSUME NEW m \in Rewritten(msg) PROVE Good(m)
  <2>1. PICK content \in RequestContents \cup ResponseContents :
          /\ content.kind = msg.kind
          /\ m = [content EXCEPT !.headers =
                    [f \in DOMAIN @ |-> IF f \in SignatureFields \cup {"content-digest"}
                                        THEN msg.headers[f] ELSE @[f]]]
    BY <1>2 DEF Rewritten
  <2> DEFINE h == [f \in DOMAIN content.headers |->
                     IF f \in SignatureFields \cup {"content-digest"} THEN msg.headers[f]
                     ELSE content.headers[f]]
  <2>2. m = [content EXCEPT !.headers = h]
    BY <2>1
  <2>3. ExchangeMessage(content)
    BY ExchangeAssumption, <2>1 DEF ExchangeMessage
  <2>4. DOMAIN h = DOMAIN content.headers /\ \A g \in SignatureFields : IsSeq(h[g])
    BY <2>3 DEF ExchangeMessage, IsMessage
  <2> HIDE DEF h
  <2> QED
    BY <2>1, <2>2, <2>3, <2>4, HeadersReplaced
<1>3. ASSUME NEW m \in Stripped(msg) PROVE Good(m)
  <2>1. PICK i : m = [msg EXCEPT !.headers = Without(@, i)]
    BY <1>3 DEF Stripped
  <2> DEFINE h == Without(msg.headers, i)
  <2>2. m = [msg EXCEPT !.headers = h]
    BY <2>1
  <2>3. DOMAIN h = DOMAIN msg.headers /\ \A g \in SignatureFields : IsSeq(h[g])
    BY ShorterIsSeq DEF ExchangeMessage, IsMessage, Without, SignatureFields
  <2> HIDE DEF h
  <2> QED
    BY <2>2, <2>3, HeadersReplaced
<1>4. ASSUME NEW bytes PROVE Good(D!WithDigest(msg, "sha-256", bytes))
  BY DigestSet
<1>5. Good(msg)
  OBVIOUS
<1>6. CASE delivery \in Unharmed(sent)
  <2>1. delivery.msg \in {msg} \cup Merged(msg)
    BY <1>6 DEF Unharmed
  <2> QED
    BY <1>1, <1>5, <2>1
<1>7. CASE delivery \in Harmed(sent)
  <2>1. \/ delivery.msg \in {msg} \cup Rewritten(msg) \cup Stripped(msg)
        \/ \E bytes : delivery.msg = D!WithDigest(msg, "sha-256", bytes)
    BY <1>7 DEF Harmed
  <2> QED
    BY <1>2, <1>3, <1>4, <1>5, <2>1
<1> QED
  BY <1>6, <1>7

(* A message says the same to a signature of the parties as another did.    *)
SaysTheSame(old, new) ==
  /\ new.kind = old.kind
  /\ new.kind = "request" => MethodValue(new) = MethodValue(old)
  /\ new.kind = "response" => StatusValue(new) = StatusValue(old)
  /\ \A f \in {"date", "content-type", "content-digest"} :
       /\ FieldValue(new, f) = FieldValue(old, f)
       /\ IsText(FieldOf(old.headers, f)) => IsText(FieldOf(new.headers, f))

(* Signing touches nothing that either party covers.                        *)
LEMMA SigningLeaves ==
  ASSUME TypeOK, ExchangeMessage(message), NEW list, IsSignRequest(list), NEW req,
         SetMessageSignatures(list, req)
  PROVE  /\ ExchangeMessage(message') /\ SaysTheSame(message, message')
         /\ DOMAIN message'.headers = DOMAIN message.headers
         /\ \A f \in DOMAIN message.headers \ SignatureFields : message'.headers[f] = message.headers[f]
<1> DEFINE h == WithSignatures(message.headers, list, Len(signed))
<1>1. message' = [message EXCEPT !.headers = h]
  BY DEF SetMessageSignatures
<1>2. DOMAIN h = DOMAIN message.headers
  BY DEF WithSignatures
<1>3. \A f \in DOMAIN message.headers \ SignatureFields : h[f] = message.headers[f]
  BY DEF WithSignatures, SignatureFields
<1> HIDE DEF h
<1>4. \A f \in SignatureFields : IsSeq(h[f])
  <2>1. IsMessage(message')
    BY SetMessageSignaturesTypeOK DEF TypeOK
  <2>2. message'.headers = h
    BY <1>1 DEF IsMessage, ExchangeMessage
  <2> QED
    BY <2>1, <2>2 DEF IsMessage
<1>5. /\ ExchangeMessage(message') /\ message'.kind = message.kind /\ message'.headers = h
      /\ message.kind = "request" => message'.method = message.method
      /\ message.kind = "response" => message'.status = message.status
  BY <1>1, <1>2, <1>4, HeadersReplaced
<1>6. ASSUME NEW f \in {"date", "content-type", "content-digest"}
      PROVE  FieldOf(message'.headers, f) = FieldOf(message.headers, f)
  <2>1. ToLower(f) = f /\ f \notin SignatureFields
    BY ExchangeAssumption DEF ToLower, SignatureFields
  <2> QED
    BY <1>2, <1>3, <1>5, <2>1 DEF FieldOf
<1>7. SaysTheSame(message, message')
  BY <1>5, <1>6 DEF SaysTheSame, FieldValue, MethodValue, StatusValue
<1> QED
  BY <1>2, <1>3, <1>5, <1>7

LEMMA SignedMessage ==
  ASSUME TypeOK, ExchangeMessage(message), NEW list, IsSignRequest(list), NEW req,
         SetMessageSignatures(list, req)
  PROVE  /\ ExchangeMessage(message') /\ message'.kind = message.kind
         /\ FieldValue(message', "content-digest") = FieldValue(message, "content-digest")
         /\ \A params, r : params.covered = Covered(message.kind) =>
              Values(message', params, r) = Values(message, params, r)
<1>1. ExchangeMessage(message') /\ SaysTheSame(message, message')
  BY SigningLeaves
<1>2. ASSUME NEW params, NEW r, params.covered = Covered(message.kind)
      PROVE  Values(message', params, r) = Values(message, params, r)
  <2>1. CASE message.kind = "request"
    BY <1>1, <1>2, <2>1, RequestValues DEF Covered, SaysTheSame
  <2>2. CASE message.kind = "response"
    BY <1>1, <1>2, <2>2, ResponseValues DEF Covered, SaysTheSame
  <2> QED
    BY <2>1, <2>2 DEF ExchangeMessage, IsMessage
<1> QED
  BY <1>1, <1>2 DEF SaysTheSame

-----------------------------------------------------------------------------
(* The invariant                                                            *)

ExchangeTypes ==
  /\ now \in 0..MaxTime
  /\ IsSeq(signed) /\ Len(signed) <= MaxSigned
  /\ \A s \in DOMAIN signed : signed[s].key \in Keys
  /\ call = NoCall \/ IsCall(call)

(* What was sent and what was accepted.                                     *)
SentInv ==
  /\ \A r \in asked : ExchangeMessage(r.msg) /\ r.msg.kind = "request" /\ Digested(r.msg, r.bytes)
  /\ \A a \in answered : ExchangeMessage(a.msg) /\ a.msg.kind = "response" /\ a.req \in served
  /\ \A r \in served : Digested(r.msg, r.bytes) /\ AskedQuestion(r) \in AbstractAsked
  /\ \A c \in concluded :
       /\ c.req \in asked
       /\ \E a \in answered : /\ Reply(a.msg) = Reply(c.msg)
                              /\ BoundPart(AskedQuestion(a.req)) = BoundPart(AskedQuestion(c.req))

(* The message in hand, and the request it belongs to.                      *)
HandInv ==
  /\ hand.doing \in {"nothing", "digest", "sign", "verify", "body", "rejected"}
  /\ hand.doing \in {"digest", "sign", "verify", "body"} => ExchangeMessage(message)
  /\ hand.doing \in {"digest", "sign"} =>
       /\ DOMAIN hand = {"doing", "keys", "req"} /\ hand.keys \in Seq(Keys)
       /\ hand.req \in IF message.kind = "request" THEN {NoAsked} ELSE served
  /\ hand.doing \in {"verify", "body"} =>
       /\ DOMAIN hand = {"doing", "key", "req", "intact"}
       /\ hand.req \in IF message.kind = "request" THEN {NoAsked} ELSE asked
  /\ hand.doing # "verify" => call = NoCall
  /\ hand.doing \in {"nothing", "sign", "verify"} => task = D!NoTask

(* The digest that is being set, or verified.                               *)
IsTask(op) ==
  /\ DOMAIN task = {"status", "op", "alg", "expected", "got"}
  /\ task.status \in {"running", "done"} /\ task.op = op

TaskInv ==
  /\ hand.doing = "digest" =>
       \/ task = D!NoTask
       \/ /\ IsTask("set") /\ task.alg = "sha-256"
          /\ task.status = "done" => body = D!Full(task.got) /\ Digested(message, task.got)
  /\ hand.doing = "sign" => Digested(message, Head(body.frames))
  /\ hand.doing = "body" =>
       \/ task = D!NoTask
       \/ /\ IsTask("verify")
          /\ task.status = "running" => \A d \in task.expected :
               [alg |-> task.alg, digest |-> d] \in D!ExtractContentDigest(message)
          /\ task.status = "done" =>
               /\ body = D!Full(task.got)
               /\ [alg |-> task.alg, digest |-> D!DeriveDigest(task.alg, task.got)]
                    \in D!ExtractContentDigest(message)

(* Every signature was made over a message that was sent, or will be.       *)
Made ==
  {[msg |-> r.msg, req |-> NoRequest] : r \in asked}
    \cup {[msg |-> a.msg, req |-> a.req.msg] : a \in answered}
    \cup IF hand.doing = "sign" THEN {[msg |-> message, req |-> hand.req.msg]} ELSE {}

IsMadeOver(signing, m) ==
  /\ signing.base.params.covered = Covered(m.msg.kind)
  /\ signing.values = Values(m.msg, signing.base.params, m.req)

SignedInv == \A s \in DOMAIN signed : \E m \in Made : IsMadeOver(signed[s], m)

(* A verification reads only entries whose base it can build.               *)
EntriesInv ==
  hand.doing = "verify" /\ call # NoCall =>
    /\ call.req = hand.req.msg /\ Len(call.keys) = 1
    /\ call.status = "done" => Len(call.results) = 1
    /\ \A e \in DOMAIN call.entries : BaseOk(message, call.entries[e].params, call.req)

(* A message whose signature verified has the values that were signed.      *)
SignatureInv ==
  hand.doing = "body" =>
    \E s \in DOMAIN signed :
      /\ BaseOk(message, signed[s].base.params, hand.req.msg)
      /\ signed[s].values = Values(message, signed[s].base.params, hand.req.msg)

ExchangeInv ==
  /\ ExchangeTypes /\ SentInv /\ HandInv /\ TaskInv /\ SignedInv /\ EntriesInv /\ SignatureInv
  /\ HistoryInv /\ CallInv

LEMMA MessageInHand ==
  ASSUME ExchangeInv, hand.doing \in {"digest", "sign", "verify", "body"}
  PROVE  TypeOK /\ ExchangeMessage(message) /\ message.kind \in {"request", "response"}
BY DEF ExchangeInv, ExchangeTypes, HandInv, TypeOK, ExchangeMessage, IsMessage

(* Between the calls of the API, and with the history as it was.            *)
LEMMA NoCallStep ==
  ASSUME ExchangeInv, UNCHANGED <<now, signed>>, call' = NoCall
  PROVE  (ExchangeTypes /\ HistoryInv /\ EntriesInv /\ CallInv)'
BY DEF ExchangeInv, ExchangeTypes, HistoryInv, EntriesInv, CallInv

LEMMA HistoryStep ==
  ASSUME ExchangeInv, UNCHANGED historyVars
  PROVE  SentInv'
BY DEF ExchangeInv, SentInv, historyVars, AbstractAsked

LEMMA SignedStep ==
  ASSUME ExchangeInv, signed' = signed, Made \subseteq Made'
  PROVE  SignedInv'
BY DEF ExchangeInv, SignedInv

LEMMA BuiltStep ==
  ASSUME ExchangeInv, NEW content \in RequestContents \cup ResponseContents, NEW bytes,
         NEW keys \in ClientKeys \cup ServerKeys,
         NEW req \in IF content.kind = "request" THEN {NoAsked} ELSE served,
         Build(content, bytes, keys, req)
  PROVE  ExchangeInv'
<1>1. /\ message' = content /\ hand' = [doing |-> "digest", keys |-> keys, req |-> req]
      /\ UNCHANGED <<now, signed, call, task, historyVars>> /\ hand.doing = "nothing"
  BY DEF Build, Free
<1>2. ExchangeMessage(content) /\ keys \in Seq(Keys)
  BY ExchangeAssumption DEF ExchangeMessage
<1>3. call = NoCall /\ task = D!NoTask
  BY <1>1 DEF ExchangeInv, HandInv
<1>4. HandInv'
  BY <1>1, <1>2, <1>3 DEF HandInv, historyVars
<1>5. TaskInv' /\ SignatureInv'
  BY <1>1, <1>3 DEF TaskInv, SignatureInv
<1>6. SignedInv'
  BY <1>1, SignedStep DEF Made, historyVars
<1> QED
  BY <1>1, <1>3, <1>4, <1>5, <1>6, NoCallStep, HistoryStep DEF ExchangeInv

LEMMA BuildStep ==
  ASSUME ExchangeInv, BuildRequest \/ BuildResponse
  PROVE  ExchangeInv'
<1>1. CASE BuildRequest
  <2>1. PICK content \in RequestContents, bytes \in Bodies, keys \in ClientKeys :
          Build(content, bytes, keys, NoAsked)
    BY <1>1 DEF BuildRequest
  <2>2. content.kind = "request"
    BY ExchangeAssumption
  <2> QED
    BY <2>1, <2>2, BuiltStep
<1>2. CASE BuildResponse
  <2>1. PICK content \in ResponseContents, bytes \in Bodies, keys \in ServerKeys, req \in served :
          Build(content, bytes, keys, req)
    BY <1>2 DEF BuildResponse
  <2>2. content.kind # "request"
    BY ExchangeAssumption
  <2> QED
    BY <2>1, <2>2, BuiltStep
<1> QED
  BY <1>1, <1>2

LEMMA SetDigestStep ==
  ASSUME ExchangeInv, SetDigest
  PROVE  ExchangeInv'
<1>1. /\ hand.doing = "digest" /\ UNCHANGED <<now, signed, call, historyVars>>
      /\ ExchangeMessage(message) /\ call = NoCall
      /\ DOMAIN hand = {"doing", "keys", "req"} /\ hand.keys \in Seq(Keys)
      /\ hand.req \in IF message.kind = "request" THEN {NoAsked} ELSE served
      /\ \/ task = D!NoTask
         \/ /\ IsTask("set") /\ task.alg = "sha-256"
            /\ task.status = "done" => body = D!Full(task.got) /\ Digested(message, task.got)
  BY DEF SetDigest, ExchangeInv, HandInv, TaskInv
<1>2. CASE D!BeginSet("sha-256") /\ UNCHANGED hand
  <2>1. task' = D!Running("set", "sha-256", {}) /\ UNCHANGED <<message, body>>
    BY <1>2 DEF D!BeginSet
  <2>2. IsTask("set")' /\ task'.alg = "sha-256" /\ task'.status = "running"
    BY <2>1 DEF IsTask, D!Running
  <2>3. (HandInv /\ TaskInv /\ SignatureInv)'
    BY <1>1, <1>2, <2>1, <2>2 DEF HandInv, TaskInv, SignatureInv, historyVars
  <2>4. SignedInv'
    BY <1>1, <1>2, <2>1, SignedStep DEF Made, historyVars
  <2> QED
    BY <1>1, <2>3, <2>4, NoCallStep, HistoryStep DEF ExchangeInv
<1>3. CASE D!Collect /\ UNCHANGED hand
  <2>1. IsTask("set") /\ task.status = "running" /\ UNCHANGED message
        /\ task' = [task EXCEPT !.got = task.got \o Head(body.frames)]
    BY <1>1, <1>3 DEF D!Collect, D!NoTask
  <2>2. IsTask("set")' /\ task'.alg = task.alg /\ task'.status = "running"
    BY <2>1 DEF IsTask
  <2>3. (HandInv /\ TaskInv /\ SignatureInv)'
    BY <1>1, <1>3, <2>1, <2>2 DEF HandInv, TaskInv, SignatureInv, historyVars, D!NoTask
  <2>4. SignedInv'
    BY <1>1, <1>3, <2>1, SignedStep DEF Made, historyVars
  <2> QED
    BY <1>1, <2>3, <2>4, NoCallStep, HistoryStep DEF ExchangeInv
<1>4. CASE D!FinishSet /\ UNCHANGED hand
  <2>1. /\ IsTask("set") /\ task.alg = "sha-256"
        /\ message' = D!WithDigest(message, "sha-256", task.got)
        /\ body' = D!Full(task.got) /\ task' = [task EXCEPT !.status = "done"]
    BY <1>1, <1>4 DEF D!FinishSet, D!NoTask
  <2>2. /\ IsTask("set")' /\ task'.alg = "sha-256" /\ task'.status = "done"
        /\ task'.got = task.got
    BY <2>1 DEF IsTask
  <2>3. ExchangeMessage(message') /\ message'.kind = message.kind /\ Digested(message', task.got)
    BY <1>1, <2>1, DigestSet
  <2>4. (HandInv /\ TaskInv /\ SignatureInv)'
    BY <1>1, <1>4, <2>1, <2>2, <2>3 DEF HandInv, TaskInv, SignatureInv, historyVars
  <2>5. SignedInv'
    BY <1>1, <1>4, SignedStep DEF Made, historyVars
  <2> QED
    BY <1>1, <2>4, <2>5, NoCallStep, HistoryStep DEF ExchangeInv
<1>5. CASE D!TakeBack /\ hand' = [hand EXCEPT !.doing = "sign"]
  <2>1. /\ task.status = "done" /\ task' = D!NoTask /\ UNCHANGED <<message, body>>
        /\ body = D!Full(task.got) /\ Digested(message, task.got)
    BY <1>1, <1>5 DEF D!TakeBack, D!NoTask
  <2>2. Digested(message', Head(body'.frames))
    BY <2>1 DEF D!Full
  <2>3. /\ hand'.doing = "sign" /\ hand'.keys = hand.keys /\ hand'.req = hand.req
        /\ DOMAIN hand' = DOMAIN hand
    BY <1>1, <1>5
  <2>4. (HandInv /\ TaskInv /\ SignatureInv)'
    BY <1>1, <2>1, <2>2, <2>3 DEF HandInv, TaskInv, SignatureInv, historyVars
  <2>5. SignedInv'
    BY <1>1, SignedStep DEF Made, historyVars
  <2> QED
    BY <1>1, <2>4, <2>5, NoCallStep, HistoryStep DEF ExchangeInv
<1> QED
  BY <1>2, <1>3, <1>4, <1>5 DEF SetDigest

(* The components of the examples carry lists of parameters.                *)
LEMMA CoveredAreIds ==
  ASSUME NEW covered, covered = COVERED_COMPONENTS_REQ \/ covered = COVERED_COMPONENTS_RES
  PROVE  \A i \in DOMAIN covered : IsSeq(covered[i].params)
<1>1. PICK param : param = [p |-> "req", arg |-> ""]
  OBVIOUS
<1>2. <<param>> \in Seq({param})
  OBVIOUS
<1>3. IsSeq(<<>>) /\ IsSeq(<<param>>)
  BY <1>2, EmptyIsSeq, SeqIsSeq
<1>4. /\ \A name : Plain(name).params = <<>>
      /\ \A name : OfRequest(name).params = <<param>>
  BY <1>1 DEF Plain, OfRequest
<1>5. \A i \in DOMAIN covered : covered[i].params = <<>> \/ covered[i].params = <<param>>
  BY <1>4 DEF COVERED_COMPONENTS_REQ, COVERED_COMPONENTS_RES
<1> QED
  BY <1>3, <1>5

(* What a sender asks the library to sign with.                             *)
LEMMA PartyRequest ==
  ASSUME NEW key \in Keys, NEW list,
         list = <<[params |-> SenderParams(key), key |-> key, name |-> {NameOf[key]}]>>
  PROVE  /\ IsSignRequest(list) /\ Len(list) = 1 /\ DOMAIN list = {1}
         /\ list[1].params = SenderParams(key) /\ list[1].key = key
<1>1. PICK item : item = [params |-> SenderParams(key), key |-> key, name |-> {NameOf[key]}]
  OBVIOUS
<1>2. list = <<item>> /\ item.key = key /\ item.params = SenderParams(key)
  BY <1>1
<1>3. <<item>> \in Seq({item}) /\ Len(<<item>>) = 1 /\ DOMAIN <<item>> = {1} /\ <<item>>[1] = item
  OBVIOUS
<1>4. IsSeq(<<item>>)
  BY <1>3, SeqIsSeq
<1>5. IsParams(SenderParams(key))
  <2>1. PICK covered : covered = SenderParams(key).covered
    OBVIOUS
  <2>2. covered = COVERED_COMPONENTS_REQ \/ covered = COVERED_COMPONENTS_RES
    BY <2>1 DEF SenderParams
  <2>3. \A i \in DOMAIN covered : IsSeq(covered[i].params)
    BY <2>2, CoveredAreIds
  <2> QED
    BY <2>1, <2>3 DEF IsParams, SenderParams
<1> QED
  BY <1>2, <1>3, <1>4, <1>5 DEF IsSignRequest

LEMMA SignOneStep ==
  ASSUME ExchangeInv, SignOne
  PROVE  ExchangeInv'
<1> DEFINE key == Head(hand.keys)
           list == <<[params |-> SenderParams(key), key |-> key, name |-> {NameOf[key]}]>>
           req == hand.req.msg
<1>1. /\ hand.doing = "sign" /\ hand.keys # <<>> /\ SetMessageSignatures(list, req)
      /\ hand' = [hand EXCEPT !.keys = Tail(hand.keys)]
      /\ UNCHANGED <<body, task, arrived, vouched, historyVars>>
  BY DEF SignOne, SignWith
<1>2. /\ DOMAIN hand = {"doing", "keys", "req"} /\ hand.keys \in Seq(Keys)
      /\ hand.req \in IF message.kind = "request" THEN {NoAsked} ELSE served
      /\ call = NoCall /\ task = D!NoTask /\ Digested(message, Head(body.frames))
  BY <1>1 DEF ExchangeInv, HandInv, TaskInv
<1>3. key \in Keys /\ Tail(hand.keys) \in Seq(Keys)
  BY <1>1, <1>2
<1> HIDE DEF key
<1>4. IsSignRequest(list) /\ DOMAIN list = {1} /\ list[1].params = SenderParams(key)
  BY <1>3, PartyRequest
<1> HIDE DEF list
<1>5. TypeOK /\ ExchangeMessage(message) /\ message.kind \in {"request", "response"} /\ HistoryInv
  BY <1>1, MessageInHand DEF ExchangeInv
<1>6. TypeOK' /\ HistoryInv' /\ now' = now /\ call' = call
  BY <1>1, <1>4, <1>5, SetMessageSignaturesTypeOK, SetMessageSignaturesHistoryInv
  DEF SetMessageSignatures
<1>7. /\ ExchangeMessage(message') /\ message'.kind = message.kind
      /\ Digested(message', Head(body.frames))
      /\ \A params, r : params.covered = Covered(message.kind) =>
           Values(message', params, r) = Values(message, params, r)
  BY <1>1, <1>2, <1>4, <1>5, SignedMessage DEF Digested
<1>8. hand'.doing = "sign" /\ hand'.req = hand.req /\ hand'.keys = Tail(hand.keys)
      /\ DOMAIN hand' = DOMAIN hand
  BY <1>1, <1>2
<1>9. HandInv'
  BY <1>1, <1>2, <1>3, <1>6, <1>7, <1>8 DEF HandInv, historyVars
<1>10. (TaskInv /\ EntriesInv /\ SignatureInv /\ CallInv)'
  BY <1>1, <1>2, <1>6, <1>7, <1>8 DEF TaskInv, EntriesInv, SignatureInv, CallInv
<1> DEFINE InHand == [msg |-> message, req |-> req]
<1>11. /\ InHand' \in Made' /\ Made \ {InHand} \subseteq Made' /\ InHand'.msg = message'
       /\ InHand'.req = req
  BY <1>1, <1>8 DEF Made, historyVars
<1>12. \A signing : IsMadeOver(signing, InHand) => IsMadeOver(signing, InHand')
  BY <1>7, <1>11 DEF IsMadeOver
<1>13. ASSUME NEW s \in DOMAIN signed' PROVE \E m \in Made' : IsMadeOver(signed'[s], m)
  <2>1. CASE s \in DOMAIN signed
    <3>1. signed'[s] = signed[s]
      BY <1>1, <1>4, <1>5, <2>1, HistoryGrows DEF TypeOK
    <3>2. PICK m \in Made : IsMadeOver(signed[s], m)
      BY <2>1 DEF ExchangeInv, SignedInv
    <3> QED
      BY <1>11, <1>12, <3>1, <3>2
  <2>2. CASE s \notin DOMAIN signed
    <3>1. signed'[s] = Recorded(list, req, 1)
      BY <1>1, <1>4, <1>5, <2>2, HistoryGrows DEF TypeOK
    <3>2. /\ signed'[s].base.params = SenderParams(key)
          /\ signed'[s].values = Values(message, SenderParams(key), req)
      BY <1>4, <3>1 DEF Recorded, SignatureBase
    <3>3. SenderParams(key).covered = Covered(message.kind)
      BY DEF SenderParams, Covered
    <3>4. IsMadeOver(signed'[s], InHand)
      BY <3>2, <3>3 DEF IsMadeOver
    <3> QED
      BY <1>11, <1>12, <3>4
  <2> QED
    BY <2>1, <2>2
<1>14. SignedInv'
  BY <1>13 DEF SignedInv
<1> QED
  BY <1>1, <1>6, <1>9, <1>10, <1>14, HistoryStep DEF ExchangeInv, ExchangeTypes, TypeOK

LEMMA SendStep ==
  ASSUME ExchangeInv, Send
  PROVE  ExchangeInv'
<1> DEFINE bytes == Head(body.frames)
<1>1. /\ hand.doing = "sign" /\ hand' = [doing |-> "nothing"] /\ PutDown
      /\ UNCHANGED <<signed, call, served, concluded>>
      /\ \/ /\ message.kind = "request" /\ UNCHANGED answered
            /\ asked' = asked \cup {[msg |-> message, bytes |-> bytes]}
         \/ /\ message.kind # "request" /\ UNCHANGED asked
            /\ answered' = answered \cup {[req |-> hand.req, msg |-> message, bytes |-> bytes]}
  BY DEF Send
<1>2. /\ hand.req \in IF message.kind = "request" THEN {NoAsked} ELSE served
      /\ call = NoCall /\ Digested(message, bytes)
      /\ ExchangeMessage(message) /\ message.kind \in {"request", "response"}
  BY <1>1, MessageInHand DEF ExchangeInv, HandInv, TaskInv
<1> HIDE DEF bytes
<1>3. SentInv'
  <2>1. AbstractAsked \subseteq AbstractAsked'
    BY <1>1 DEF AbstractAsked
  <2>2. SentInv
    BY DEF ExchangeInv
  <2>3. \A r \in asked' : ExchangeMessage(r.msg) /\ r.msg.kind = "request" /\ Digested(r.msg, r.bytes)
    BY <1>1, <1>2, <2>2 DEF SentInv
  <2>4. \A a \in answered' : ExchangeMessage(a.msg) /\ a.msg.kind = "response" /\ a.req \in served'
    BY <1>1, <1>2, <2>2 DEF SentInv
  <2>5. asked \subseteq asked' /\ answered \subseteq answered'
    BY <1>1
  <2> QED
    BY <1>1, <2>1, <2>2, <2>3, <2>4, <2>5 DEF SentInv
<1>4. Made \subseteq Made'
  <2>1. CASE message.kind = "request"
    <3>1. hand.req.msg = NoRequest /\ [msg |-> message, bytes |-> bytes] \in asked'
      BY <1>1, <1>2, <2>1 DEF NoAsked
    <3>2. [msg |-> message, req |-> hand.req.msg] \in {[msg |-> r.msg, req |-> NoRequest] : r \in asked'}
      BY <3>1
    <3> QED
      BY <1>1, <2>1, <3>2 DEF Made
  <2>2. CASE message.kind # "request"
    <3>1. PICK a \in answered' : a.msg = message /\ a.req = hand.req
      <4>1. PICK new : new = [req |-> hand.req, msg |-> message, bytes |-> bytes]
        OBVIOUS
      <4>2. new \in answered' /\ new.msg = message /\ new.req = hand.req
        BY <1>1, <2>2, <4>1
      <4> QED
        BY <4>2
    <3>2. [msg |-> message, req |-> hand.req.msg] \in {[msg |-> b.msg, req |-> b.req.msg] : b \in answered'}
      BY <3>1
    <3> QED
      BY <1>1, <2>2, <3>2 DEF Made
  <2> QED
    BY <2>1, <2>2
<1>5. (HandInv /\ TaskInv /\ SignatureInv)'
  BY <1>1, <1>2 DEF HandInv, TaskInv, SignatureInv, PutDown
<1> QED
  BY <1>1, <1>2, <1>3, <1>4, <1>5, NoCallStep, SignedStep DEF ExchangeInv, PutDown

LEMMA TakenStep ==
  ASSUME ExchangeInv, Free, NEW sent, ExchangeMessage(sent.msg),
         NEW delivery \in Unharmed(sent) \cup Harmed(sent), NEW key, NEW intact,
         NEW req \in IF sent.msg.kind = "request" THEN {NoAsked} ELSE asked,
         Take(delivery, key, req, intact)
  PROVE  ExchangeInv'
<1>1. /\ message' = delivery.msg /\ hand.doing = "nothing"
      /\ hand' = [doing |-> "verify", key |-> key, req |-> req,
                  intact |-> delivery.intact /\ intact /\ Carries(delivery.msg, key)]
      /\ UNCHANGED <<now, signed, call, task, historyVars>>
  BY DEF Take, Free
<1>2. ExchangeMessage(message') /\ message'.kind = sent.msg.kind
  BY <1>1, DeliveredIsMessage
<1>3. call = NoCall /\ task = D!NoTask
  BY <1>1 DEF ExchangeInv, HandInv
<1>4. /\ hand'.doing = "verify" /\ hand'.req = req
      /\ DOMAIN hand' = {"doing", "key", "req", "intact"}
  BY <1>1
<1>5. (HandInv /\ TaskInv /\ SignatureInv)'
  BY <1>1, <1>2, <1>3, <1>4 DEF HandInv, TaskInv, SignatureInv, historyVars
<1>6. SignedInv'
  BY <1>1, <1>4, SignedStep DEF Made, historyVars
<1> QED
  BY <1>1, <1>3, <1>5, <1>6, NoCallStep, HistoryStep DEF ExchangeInv

LEMMA TakeStep ==
  ASSUME ExchangeInv, TakeRequest \/ TakeResponse
  PROVE  ExchangeInv'
<1>1. CASE TakeRequest
  <2>1. PICK sent \in asked, key \in Keys : \E delivery \in Unharmed(sent) \cup Harmed(sent) :
          Free /\ Take(delivery, key, NoAsked, TRUE)
    BY <1>1 DEF TakeRequest
  <2>2. ExchangeMessage(sent.msg) /\ sent.msg.kind = "request"
    BY DEF ExchangeInv, SentInv
  <2> QED
    BY <2>1, <2>2, TakenStep
<1>2. CASE TakeResponse
  <2>1. PICK sent \in answered, key \in Keys, req \in asked :
          \E delivery \in Unharmed(sent) \cup Harmed(sent) :
          Free /\ Take(delivery, key, req, AskedQuestion(req) = AskedQuestion(sent.req))
    BY <1>2 DEF TakeResponse
  <2>2. ExchangeMessage(sent.msg) /\ sent.msg.kind # "request"
    BY DEF ExchangeInv, SentInv
  <2> QED
    BY <2>1, <2>2, TakenStep
<1> QED
  BY <1>1, <1>2

LEMMA LetGoStep ==
  ASSUME ExchangeInv, LetGo
  PROVE  ExchangeInv'
<1>1. /\ hand.doing \in {"digest", "body", "rejected"} /\ hand' = [doing |-> "nothing"]
      /\ task' = D!NoTask /\ UNCHANGED <<now, signed, call, historyVars>>
  BY DEF LetGo, PutDown
<1>2. call = NoCall
  BY <1>1 DEF ExchangeInv, HandInv
<1>3. (HandInv /\ TaskInv /\ SignatureInv)'
  BY <1>1, <1>2 DEF HandInv, TaskInv, SignatureInv
<1>4. SignedInv'
  BY <1>1, SignedStep DEF Made, historyVars
<1> QED
  BY <1>1, <1>2, <1>3, <1>4, NoCallStep, HistoryStep DEF ExchangeInv

(* While the message in hand is verified, nothing else of it changes.       *)
LEMMA VerifyingFrame ==
  ASSUME ExchangeInv, hand.doing = "verify", hand' = hand,
         UNCHANGED <<now, message, signed, body, task, arrived, vouched, historyVars>>
  PROVE  (HandInv /\ TaskInv /\ SignatureInv /\ SignedInv /\ SentInv /\ HistoryInv)'
<1>1. (HandInv /\ TaskInv /\ SignatureInv)'
  BY DEF ExchangeInv, HandInv, TaskInv, SignatureInv, historyVars
<1>2. SignedInv'
  BY SignedStep DEF Made, historyVars
<1> QED
  BY <1>1, <1>2, HistoryStep DEF ExchangeInv, HistoryInv

LEMMA VerifySignatureStep ==
  ASSUME ExchangeInv, VerifySignature
  PROVE  ExchangeInv'
<1>1. /\ hand.doing = "verify" /\ UNCHANGED <<body, task, arrived, vouched, historyVars>>
      /\ DOMAIN hand = {"doing", "key", "req", "intact"}
      /\ TypeOK /\ ExchangeMessage(message) /\ HistoryInv /\ CallInv /\ EntriesInv
      /\ hand.req \in IF message.kind = "request" THEN {NoAsked} ELSE asked
      /\ task = D!NoTask
  BY MessageInHand DEF VerifySignature, ExchangeInv, HandInv
<1>2. ASSUME NEW keyid, BeginVerify(<<[key |-> hand.key, keyid |-> keyid]>>, hand.req.msg), hand' = hand
      PROVE  ExchangeInv'
  <2> DEFINE keys == <<[key |-> hand.key, keyid |-> keyid]>>
  <2>1. IsSeq(keys) /\ Len(keys) = 1 /\ keys # <<>>
    <3>1. PICK item : item = [key |-> hand.key, keyid |-> keyid]
      OBVIOUS
    <3>2. <<item>> \in Seq({item})
      OBVIOUS
    <3> QED
      BY <3>1, <3>2, SeqIsSeq
  <2>2. BeginVerify(keys, hand.req.msg)
    BY <1>2
  <2> HIDE DEF keys
  <2>3. TypeOK'
    BY <1>1, <2>1, <2>2, BeginVerifyTypeOK
  <2>4. /\ UNCHANGED <<now, message, signed>> /\ call'.req = hand.req.msg
        /\ call'.entries \in {ExtractSignatures(message, hand.req.msg), <<>>}
        /\ call'.verified = <<>> /\ call'.results = <<>>
        /\ call'.keys = keys /\ call'.status # "done"
    BY <2>1, <2>2, HeadersOutcomes DEF BeginVerify
  <2>5. CallInv'
    BY <2>4, EmptyIsSeq DEF CallInv
  <2>6. EntriesInv'
    BY <1>1, <1>2, <2>1, <2>4, EntriesRebuild, EmptyIsSeq DEF EntriesInv, ExchangeMessage
  <2> QED
    BY <1>1, <1>2, <2>3, <2>4, <2>5, <2>6, VerifyingFrame DEF ExchangeInv, ExchangeTypes, TypeOK
<1>3. ASSUME CheckSignature \/ FinishKey, hand' = hand
      PROVE  ExchangeInv'
  <2>1. IsCall(call) /\ call # NoCall
    BY <1>1, <1>3 DEF TypeOK, CheckSignature, FinishKey, NoCall
  <2>2. UNCHANGED <<now, message, signed>> /\ call'.req = call.req /\ call'.entries = call.entries
    BY <1>3, <2>1 DEF CheckSignature, FinishKey, IsCall
  <2>3. TypeOK' /\ CallInv'
    BY <1>1, <1>3, CheckSignatureTypeOK, FinishKeyTypeOK, CheckSignatureCallInv, FinishKeyCallInv
  <2>4. call'.keys = call.keys /\ (call'.status = "done" => Len(call'.results) = Len(call'.keys))
    <3>1. CASE CheckSignature
      BY <2>1, <3>1 DEF CheckSignature, IsCall
    <3>2. CASE FinishKey
      <4>1. /\ call'.keys = call.keys /\ call'.results = Append(call.results, KeyResult)
            /\ call'.status = IF LastKey THEN "done" ELSE "running"
        BY <2>1, <3>2 DEF FinishKey, IsCall
      <4>2. Len(call'.results) = Len(call.results) + 1
        BY <2>1, <4>1, AppendIsSeq DEF IsCall
      <4> QED
        BY <4>1, <4>2 DEF LastKey
    <3> QED
      BY <1>3, <3>1, <3>2
  <2>5. EntriesInv'
    BY <1>1, <1>3, <2>1, <2>2, <2>4 DEF EntriesInv
  <2> QED
    BY <1>1, <1>3, <2>2, <2>3, <2>5, VerifyingFrame DEF ExchangeInv, ExchangeTypes, TypeOK
<1>4. ASSUME Return, hand' = IF call.status = "done" /\ call.results[1].ok
                             THEN [hand EXCEPT !.doing = "body"] ELSE Rejected
      PROVE  ExchangeInv'
  <2>1. UNCHANGED <<now, message, signed>> /\ call' = NoCall /\ call # NoCall /\ IsCall(call)
    BY <1>1, <1>4 DEF Return, NoCall, TypeOK
  <2>2. CASE call.status = "done" /\ call.results[1].ok
    <3>1. hand'.doing = "body" /\ hand'.req = hand.req /\ DOMAIN hand' = DOMAIN hand
      BY <1>1, <1>4, <2>2
    <3>2. 1 \in DOMAIN call.results
      <4>1. Len(call.results) = 1
        BY <1>1, <2>1, <2>2 DEF EntriesInv
      <4> QED
        BY <2>1, <4>1, SeqIsSeq DEF IsCall, IsSeq
    <3>3. PICK e \in DOMAIN call.entries : Attests(1, call.entries[e])
      BY <1>1, <2>1, <2>2, <3>2 DEF CallInv, Attested
    <3> DEFINE entry == call.entries[e]
               s == entry.sig
    <3>4. /\ s \in DOMAIN signed
          /\ signed[s].base = SignatureBase(message, entry.params, call.req)
          /\ call.req = hand.req.msg /\ BaseOk(message, entry.params, call.req)
      BY <1>1, <2>1, <3>3 DEF Attests, Genuine, EntriesInv
    <3>5. signed[s].base.params = entry.params
      BY <3>4, BaseDeterminesValues
    <3>6. signed[s].values = Values(message, entry.params, call.req)
      <4>1. signed[s].values = [i \in DOMAIN signed[s].base.params.covered |-> signed[s].base.lines[i][2]]
        BY <1>1, <3>4 DEF HistoryInv
      <4>2. Values(message, entry.params, call.req)
              = [i \in DOMAIN entry.params.covered |->
                   SignatureBase(message, entry.params, call.req).lines[i][2]]
        BY BaseDeterminesValues
      <4> QED
        BY <3>4, <3>5, <4>1, <4>2
    <3>7. SignatureInv'
      BY <2>1, <3>1, <3>4, <3>5, <3>6 DEF SignatureInv
    <3>8. (HandInv /\ TaskInv)'
      BY <1>1, <2>1, <3>1 DEF HandInv, TaskInv, historyVars
    <3>9. SignedInv'
      BY <1>1, <2>1, <3>1, SignedStep DEF Made, historyVars
    <3> QED
      BY <1>1, <2>1, <3>7, <3>8, <3>9, NoCallStep, HistoryStep DEF ExchangeInv
  <2>3. CASE hand' = Rejected
    <3>1. hand'.doing = "rejected"
      BY <2>3 DEF Rejected
    <3>2. (HandInv /\ TaskInv /\ SignatureInv)'
      BY <2>1, <3>1 DEF HandInv, TaskInv, SignatureInv
    <3>3. SignedInv'
      BY <1>1, <2>1, <3>1, SignedStep DEF Made, historyVars
    <3> QED
      BY <1>1, <2>1, <3>2, <3>3, NoCallStep, HistoryStep DEF ExchangeInv
  <2> QED
    BY <1>4, <2>2, <2>3
<1> QED
  BY <1>2, <1>3, <1>4 DEF VerifySignature

LEMMA VerifyBodyStep ==
  ASSUME ExchangeInv, VerifyBody
  PROVE  ExchangeInv'
<1>1. /\ hand.doing = "body" /\ UNCHANGED <<now, signed, call, historyVars>>
      /\ hand' = IF task'.status = "err" THEN Rejected ELSE hand
      /\ ExchangeMessage(message) /\ call = NoCall /\ DOMAIN hand = {"doing", "key", "req", "intact"}
      /\ hand.req \in IF message.kind = "request" THEN {NoAsked} ELSE asked
      /\ task = D!NoTask \/ IsTask("verify")
  BY DEF VerifyBody, ExchangeInv, HandInv, TaskInv
<1>2. ASSUME task'.status = "err" PROVE ExchangeInv'
  <2>1. hand'.doing = "rejected"
    BY <1>1, <1>2 DEF Rejected
  <2>2. (HandInv /\ TaskInv /\ SignatureInv)'
    BY <1>1, <2>1 DEF HandInv, TaskInv, SignatureInv
  <2>3. SignedInv'
    BY <1>1, SignedStep DEF Made, historyVars
  <2> QED
    BY <1>1, <2>2, <2>3, NoCallStep, HistoryStep DEF ExchangeInv
<1>3. ASSUME message' = message, IsTask("verify")', TaskInv' PROVE ExchangeInv'
  <2>1. hand' = hand
    BY <1>1, <1>3 DEF IsTask
  <2>2. (HandInv /\ SignatureInv)'
    BY <1>1, <1>3, <2>1 DEF ExchangeInv, HandInv, SignatureInv, historyVars
  <2>3. SignedInv'
    BY <1>1, <2>1, SignedStep DEF Made, historyVars
  <2> QED
    BY <1>1, <1>3, <2>2, <2>3, NoCallStep, HistoryStep DEF ExchangeInv
<1>4. CASE D!BeginVerifyDigest
  <2>1. CASE D!ExtractContentDigest(message) = {}
    <3>1. task'.status = "err"
      BY <1>4, <2>1 DEF D!BeginVerifyDigest, D!Fail
    <3> QED
      BY <1>2, <3>1
  <2>2. CASE D!ExtractContentDigest(message) # {}
    <3>1. PICK found \in D!ExtractContentDigest(message) :
            task' = D!Running("verify", found.alg, {found.digest}) /\ message' = message
      BY <1>4, <2>2 DEF D!BeginVerifyDigest
    <3>2. found = [alg |-> found.alg, digest |-> found.digest]
      BY DEF D!ExtractContentDigest
    <3>3. /\ IsTask("verify")' /\ task'.status = "running"
          /\ task'.alg = found.alg /\ task'.expected = {found.digest}
      BY <3>1 DEF IsTask, D!Running
    <3>4. D!ExtractContentDigest(message)' = D!ExtractContentDigest(message)
      BY <3>1
    <3>5. TaskInv'
      <4>1. hand'.doing = "body"
        BY <1>1, <3>3
      <4> QED
        BY <3>2, <3>3, <3>4, <4>1 DEF TaskInv
    <3> QED
      BY <1>3, <3>1, <3>3, <3>5
  <2> QED
    BY <2>1, <2>2
<1>5. CASE D!Collect
  <2>1. /\ IsTask("verify") /\ task.status = "running" /\ message' = message
        /\ task' = [task EXCEPT !.got = task.got \o Head(body.frames)]
    BY <1>1, <1>5 DEF D!Collect, D!NoTask
  <2>2. /\ IsTask("verify")' /\ task'.status = "running"
        /\ task'.alg = task.alg /\ task'.expected = task.expected
    BY <2>1 DEF IsTask
  <2>3. D!ExtractContentDigest(message)' = D!ExtractContentDigest(message)
    BY <2>1
  <2>4. \A d \in task.expected : [alg |-> task.alg, digest |-> d] \in D!ExtractContentDigest(message)
    BY <1>1, <2>1 DEF ExchangeInv, TaskInv, D!NoTask
  <2>5. TaskInv'
    <3>1. hand'.doing = "body"
      BY <1>1, <2>2
    <3> QED
      BY <2>2, <2>3, <2>4, <3>1 DEF TaskInv
  <2> QED
    BY <1>3, <2>1, <2>2, <2>5
<1>6. CASE D!BodyFails
  <2>1. task'.status = "err"
    BY <1>6 DEF D!BodyFails, D!Fail
  <2> QED
    BY <1>2, <2>1
<1>7. CASE D!FinishVerify
  <2>1. IsTask("verify") /\ task.status = "running"
    BY <1>1, <1>7 DEF D!FinishVerify, D!NoTask
  <2>2. CASE \E d \in task.expected : D!DeriveDigest(task.alg, task.got) = d
    <3>1. /\ message' = message /\ body' = D!Full(task.got)
          /\ task' = [task EXCEPT !.status = "done"]
      BY <1>7, <2>2 DEF D!FinishVerify, D!IsEqualDigest
    <3>2. /\ IsTask("verify")' /\ task'.status = "done"
          /\ task'.alg = task.alg /\ task'.got = task.got
      BY <2>1, <3>1 DEF IsTask
    <3>3. D!ExtractContentDigest(message)' = D!ExtractContentDigest(message)
      BY <3>1
    <3>4. [alg |-> task.alg, digest |-> D!DeriveDigest(task.alg, task.got)]
            \in D!ExtractContentDigest(message)
      BY <1>1, <2>1, <2>2 DEF ExchangeInv, TaskInv, D!NoTask
    <3>5. TaskInv'
      <4>1. hand'.doing = "body"
        BY <1>1, <3>2
      <4>2. body' = D!Full(task'.got)
        BY <3>1, <3>2
      <4> QED
        BY <3>2, <3>3, <3>4, <4>1, <4>2 DEF TaskInv, D!DeriveDigest
    <3> QED
      BY <1>3, <3>1, <3>2, <3>5
  <2>3. CASE ~ \E d \in task.expected : D!DeriveDigest(task.alg, task.got) = d
    <3>1. task'.status = "err"
      BY <1>7, <2>3 DEF D!FinishVerify, D!Fail, D!IsEqualDigest
    <3> QED
      BY <1>2, <3>1
  <2> QED
    BY <2>2, <2>3
<1> QED
  BY <1>4, <1>5, <1>6, <1>7 DEF VerifyBody

-----------------------------------------------------------------------------
(* What is accepted                                                         *)

(* A digest that verified, of a field with one digest, is of those bytes.   *)
LEMMA VerifiedBody ==
  ASSUME NEW msg, ExchangeMessage(msg), NEW bytes, Digested(msg, bytes), NEW alg, NEW got,
         [alg |-> alg, digest |-> D!DeriveDigest(alg, got)] \in D!ExtractContentDigest(msg)
  PROVE  got = bytes
<1> DEFINE field == msg.headers["content-digest"]
<1>1. FieldOf(msg.headers, "content-digest") = field
  BY ExchangeAssumption DEF FieldOf, ToLower, ExchangeMessage
<1>2. PICK i \in DOMAIN field : [alg |-> alg, digest |-> D!DeriveDigest(alg, got)]
                                  = [alg |-> field[i].key, digest |-> field[i].val]
  BY DEF D!ExtractContentDigest, D!FirstLine, D!CONTENT_DIGEST_HEADER
<1>3. field[i].val = D!DeriveDigest(alg, got) /\ field[i].key = alg
  BY <1>2
<1> HIDE DEF field
<1>4. Joined(field) = <<<<"sha-256", D!DeriveDigest("sha-256", bytes)>>>>
  BY <1>1 DEF Digested, FieldValue
<1>5. i = 1 /\ Joined(field)[1] = <<"sha-256", D!DeriveDigest("sha-256", bytes)>>
  <2>1. DOMAIN Joined(field) = DOMAIN field
    BY DEF Joined
  <2>2. DOMAIN <<<<"sha-256", D!DeriveDigest("sha-256", bytes)>>>> = {1}
    OBVIOUS
  <2> QED
    BY <1>4, <2>1, <2>2
<1>6. D!DeriveDigest(alg, got) = D!DeriveDigest("sha-256", bytes)
  BY <1>3, <1>5 DEF Joined
<1> QED
  BY <1>6 DEF D!DeriveDigest

LEMMA SameDigestSameBytes ==
  ASSUME NEW m, NEW n, NEW b, NEW c, Digested(m, b), Digested(n, c),
         FieldValue(m, "content-digest") = FieldValue(n, "content-digest")
  PROVE  b = c
<1>1. <<<<"sha-256", D!DeriveDigest("sha-256", b)>>>> = <<<<"sha-256", D!DeriveDigest("sha-256", c)>>>>
  BY DEF Digested
<1>2. D!DeriveDigest("sha-256", b) = D!DeriveDigest("sha-256", c)
  BY <1>1
<1> QED
  BY <1>2 DEF D!DeriveDigest

(* A message whose signature verified has the covered values of a message   *)
(* of its kind that was sent.                                               *)
LEMMA VouchedSource ==
  ASSUME ExchangeInv, hand.doing = "body"
  PROVE  /\ message.kind = "request" => \E r \in asked :
              /\ MethodValue(r.msg) = MethodValue(message)
              /\ \A f \in {"date", "content-type", "content-digest"} :
                   FieldValue(r.msg, f) = FieldValue(message, f)
         /\ message.kind # "request" => \E a \in answered :
              /\ StatusValue(a.msg) = StatusValue(message)
              /\ \A f \in {"date", "content-type"} : FieldValue(a.msg, f) = FieldValue(message, f)
              /\ MethodValue(a.req.msg) = MethodValue(hand.req.msg)
              /\ FieldValue(a.req.msg, "content-digest") = FieldValue(hand.req.msg, "content-digest")
<1>1. PICK s \in DOMAIN signed :
        /\ BaseOk(message, signed[s].base.params, hand.req.msg)
        /\ signed[s].values = Values(message, signed[s].base.params, hand.req.msg)
  BY DEF ExchangeInv, SignatureInv
<1> DEFINE params == signed[s].base.params
<1>2. PICK m \in Made : params.covered = Covered(m.msg.kind) /\ signed[s].values = Values(m.msg, params, m.req)
  BY DEF ExchangeInv, SignedInv, IsMadeOver
<1>3. message.kind \in {"request", "response"}
  BY MessageInHand
<1>4. SentInv
  BY DEF ExchangeInv
<1> HIDE DEF params
<1>5. Values(m.msg, params, m.req) = Values(message, params, hand.req.msg)
  BY <1>1, <1>2 DEF params
<1>6. BaseOk(message, params, hand.req.msg)
  BY <1>1 DEF params
<1>7. ASSUME NEW r \in asked, m = [msg |-> r.msg, req |-> NoRequest]
      PROVE  /\ message.kind = "request" /\ MethodValue(r.msg) = MethodValue(message)
             /\ \A f \in {"date", "content-type", "content-digest"} :
                  FieldValue(r.msg, f) = FieldValue(message, f)
  <2>1. m.msg = r.msg /\ r.msg.kind = "request"
    BY <1>4, <1>7 DEF SentInv
  <2>2. message.kind = "request"
    BY <1>2, <1>3, <1>6, <2>1, KindOfCovered
  <2>3. params.covered = COVERED_COMPONENTS_REQ
    BY <1>2, <2>1 DEF Covered
  <2>4. <<MethodValue(r.msg), FieldValue(r.msg, "date"), FieldValue(r.msg, "content-type"),
          FieldValue(r.msg, "content-digest")>>
        = <<MethodValue(message), FieldValue(message, "date"), FieldValue(message, "content-type"),
            FieldValue(message, "content-digest")>>
    BY <1>5, <2>1, <2>3, RequestValues
  <2> QED
    BY <2>2, <2>4
<1>8. ASSUME NEW a \in answered, m = [msg |-> a.msg, req |-> a.req.msg]
      PROVE  /\ message.kind = "response" /\ StatusValue(a.msg) = StatusValue(message)
             /\ \A f \in {"date", "content-type"} : FieldValue(a.msg, f) = FieldValue(message, f)
             /\ MethodValue(a.req.msg) = MethodValue(hand.req.msg)
             /\ FieldValue(a.req.msg, "content-digest") = FieldValue(hand.req.msg, "content-digest")
  <2>1. m.msg = a.msg /\ m.req = a.req.msg /\ a.msg.kind = "response"
    BY <1>4, <1>8 DEF SentInv
  <2>2. message.kind = "response"
    BY <1>2, <1>3, <1>6, <2>1, KindOfCovered
  <2>3. params.covered = COVERED_COMPONENTS_RES
    BY <1>2, <2>1 DEF Covered
  <2>4. <<StatusValue(a.msg), MethodValue(a.req.msg), FieldValue(a.msg, "date"),
          FieldValue(a.msg, "content-type"), FieldValue(a.req.msg, "content-digest")>>
        = <<StatusValue(message), MethodValue(hand.req.msg), FieldValue(message, "date"),
            FieldValue(message, "content-type"), FieldValue(hand.req.msg, "content-digest")>>
    BY <1>5, <2>1, <2>3, ResponseValues
  <2> QED
    BY <2>2, <2>4
<1>9. \/ \E r \in asked : m = [msg |-> r.msg, req |-> NoRequest]
      \/ \E a \in answered : m = [msg |-> a.msg, req |-> a.req.msg]
  BY <1>2 DEF Made
<1> QED
  BY <1>7, <1>8, <1>9

(* What becomes of the history when the message in hand is accepted.        *)
LEMMA AcceptedInv ==
  ASSUME ExchangeInv, Accept
  PROVE  SentInv'
<1>1. /\ hand.doing = "body" /\ task.status = "done" /\ UNCHANGED <<asked, answered>>
      /\ \/ /\ message.kind = "request" /\ UNCHANGED concluded
            /\ served' = served \cup {[msg |-> message, bytes |-> Head(body.frames)]}
         \/ /\ message.kind # "request" /\ UNCHANGED served
            /\ concluded' = concluded \cup {[req |-> hand.req, msg |-> message]}
  BY DEF Accept
<1>2. /\ ExchangeMessage(message) /\ SentInv
      /\ hand.req \in IF message.kind = "request" THEN {NoAsked} ELSE asked
      /\ body = D!Full(task.got)
      /\ [alg |-> task.alg, digest |-> D!DeriveDigest(task.alg, task.got)]
           \in D!ExtractContentDigest(message)
  BY <1>1 DEF ExchangeInv, HandInv, TaskInv, D!NoTask
<1>3. AbstractAsked' = AbstractAsked
  BY <1>1 DEF AbstractAsked
<1>4. Head(body.frames) = task.got
  BY <1>2 DEF D!Full
<1>5. CASE message.kind = "request"
  <2>1. PICK r \in asked : /\ MethodValue(r.msg) = MethodValue(message)
                           /\ \A f \in {"date", "content-type", "content-digest"} :
                                FieldValue(r.msg, f) = FieldValue(message, f)
    BY <1>1, <1>5, VouchedSource
  <2>2. Digested(r.msg, r.bytes)
    BY <1>2 DEF SentInv
  <2>3. Digested(message, r.bytes)
    BY <2>1, <2>2 DEF Digested
  <2>4. task.got = r.bytes
    BY <1>2, <2>3, VerifiedBody
  <2>5. PICK new : new = [msg |-> message, bytes |-> task.got]
    OBVIOUS
  <2>6. new.msg = message /\ new.bytes = r.bytes /\ served' = served \cup {new}
    BY <1>1, <1>4, <1>5, <2>4, <2>5
  <2>7. AskedQuestion(new) = AskedQuestion(r)
    BY <2>1, <2>6, QuestionValues DEF AskedQuestion
  <2>8. AskedQuestion(new) \in AbstractAsked
    BY <2>7 DEF AbstractAsked
  <2> QED
    BY <1>1, <1>2, <1>3, <1>5, <2>3, <2>6, <2>8 DEF SentInv
<1>6. CASE message.kind # "request"
  <2>1. PICK a \in answered :
          /\ StatusValue(a.msg) = StatusValue(message)
          /\ \A f \in {"date", "content-type"} : FieldValue(a.msg, f) = FieldValue(message, f)
          /\ MethodValue(a.req.msg) = MethodValue(hand.req.msg)
          /\ FieldValue(a.req.msg, "content-digest") = FieldValue(hand.req.msg, "content-digest")
    BY <1>1, <1>6, VouchedSource
  <2>2. PICK new : new = [req |-> hand.req, msg |-> message]
    OBVIOUS
  <2>3. new.req = hand.req /\ new.msg = message /\ concluded' = concluded \cup {new}
    BY <1>1, <1>6, <2>2
  <2>4. hand.req \in asked
    BY <1>2, <1>6
  <2>5. Reply(a.msg) = Reply(new.msg)
    BY <2>1, <2>3, ReplyValues
  <2>6. a.req.bytes = hand.req.bytes
    <3>1. Digested(a.req.msg, a.req.bytes) /\ Digested(hand.req.msg, hand.req.bytes)
      BY <1>2, <2>4 DEF SentInv
    <3> QED
      BY <2>1, <3>1, SameDigestSameBytes
  <2>7. BoundPart(AskedQuestion(a.req)) = BoundPart(AskedQuestion(new.req))
    BY <2>1, <2>3, <2>6, QuestionValues DEF AskedQuestion, BoundPart
  <2> QED
    BY <1>1, <1>2, <1>3, <1>6, <2>3, <2>4, <2>5, <2>7 DEF SentInv
<1> QED
  BY <1>5, <1>6

LEMMA AcceptStep ==
  ASSUME ExchangeInv, Accept
  PROVE  ExchangeInv'
<1>1. /\ hand.doing = "body" /\ hand' = [doing |-> "nothing"] /\ PutDown
      /\ UNCHANGED <<signed, call, asked, answered>>
  BY DEF Accept
<1>2. call = NoCall
  BY <1>1 DEF ExchangeInv, HandInv
<1>3. (HandInv /\ TaskInv /\ SignatureInv)'
  BY <1>1, <1>2 DEF HandInv, TaskInv, SignatureInv, PutDown
<1>4. SignedInv'
  BY <1>1, SignedStep DEF Made
<1> QED
  BY <1>1, <1>2, <1>3, <1>4, AcceptedInv, NoCallStep DEF ExchangeInv, PutDown

LEMMA ExchangeInvInit == ExchangeInit => ExchangeInv
<1> SUFFICES ASSUME ExchangeInit PROVE ExchangeInv
  OBVIOUS
<1>1. ExchangeTypes
  BY BoundAssumption, EmptyIsSeq DEF ExchangeInit, ExchangeTypes
<1>2. SentInv
  BY DEF ExchangeInit, SentInv
<1>3. HandInv /\ TaskInv /\ EntriesInv /\ SignatureInv
  BY DEF ExchangeInit, HandInv, TaskInv, EntriesInv, SignatureInv
<1>4. SignedInv /\ HistoryInv /\ CallInv
  BY EmptyIsSeq DEF ExchangeInit, SignedInv, HistoryInv, CallInv
<1> QED
  BY <1>1, <1>2, <1>3, <1>4 DEF ExchangeInv

LEMMA ExchangeInvStep ==
  ASSUME ExchangeInv, [ExchangeNext]_allVars
  PROVE  ExchangeInv'
<1>1. CASE UNCHANGED allVars
  <2>1. UNCHANGED <<now, message, signed, call, body, task, hand, historyVars>>
    BY <1>1 DEF allVars, vars, handVars
  <2>2. ExchangeTypes' /\ HandInv'
    <3>1. /\ now' = now /\ message' = message /\ signed' = signed /\ call' = call /\ task' = task
          /\ hand' = hand /\ asked' = asked /\ served' = served
      BY <2>1 DEF historyVars
    <3>2. ExchangeTypes'
      BY <3>1 DEF ExchangeInv, ExchangeTypes, IsCall
    <3>3. HandInv'
      BY <3>1 DEF ExchangeInv, HandInv
    <3> QED
      BY <3>2, <3>3
  <2>3. TaskInv' /\ SignatureInv'
    BY <2>1 DEF ExchangeInv, TaskInv, IsTask, SignatureInv
  <2>4. SentInv' /\ SignedInv'
    BY <2>1, HistoryStep, SignedStep DEF Made, historyVars
  <2>5. HistoryInv' /\ EntriesInv'
    BY <2>1 DEF ExchangeInv, HistoryInv, EntriesInv
  <2>6. CallInv'
    BY <2>1 DEF ExchangeInv, CallInv, Attested, Attests, Genuine
  <2> QED
    BY <2>2, <2>3, <2>4, <2>5, <2>6 DEF ExchangeInv
<1>2. CASE ExchangeNext
  BY <1>2, BuildStep, TakeStep, SetDigestStep, SignOneStep, SendStep, VerifySignatureStep,
     VerifyBodyStep, AcceptStep, LetGoStep
  DEF ExchangeNext, Parties
<1> QED
  BY <1>1, <1>2

(* Every signature was made over a message that was sent, with its digest,  *)
(* and everything that is accepted has its signature and its digest checked *)
(* against the same message: the invariant the refinement rests on.         *)
THEOREM ExchangeInvariance == ExchangeSpec => []ExchangeInv
BY ExchangeInvInit, ExchangeInvStep, PTL DEF ExchangeSpec

-----------------------------------------------------------------------------
(* Refinement                                                               *)

LEMMA InitIsInit == ExchangeInit => A!ExchangeInit
BY DEF ExchangeInit, A!ExchangeInit, AbstractAsked, AbstractServed, AbstractAnswered,
       AbstractConcluded

LEMMA HistoryStutters ==
  ASSUME UNCHANGED historyVars
  PROVE  UNCHANGED A!exchangeVars
BY DEF historyVars, A!exchangeVars, AbstractAsked, AbstractServed, AbstractAnswered,
       AbstractConcluded

LEMMA SendAsksOrAnswers ==
  ASSUME ExchangeInv', Send
  PROVE  A!ExchangeNext
<1>1. /\ UNCHANGED <<served, concluded>> /\ asked \subseteq asked' /\ answered \subseteq answered'
      /\ UNCHANGED asked \/ UNCHANGED answered
  BY DEF Send
<1>2. UNCHANGED <<AbstractServed, AbstractConcluded>>
  BY <1>1 DEF AbstractServed, AbstractConcluded
<1>3. CASE UNCHANGED answered
  <2>1. AbstractAsked \subseteq AbstractAsked' /\ UNCHANGED AbstractAnswered
    BY <1>1, <1>3 DEF AbstractAsked, AbstractAnswered
  <2> QED
    BY <1>2, <2>1 DEF A!ExchangeNext, A!Ask
<1>4. CASE UNCHANGED asked
  <2>1. AbstractAnswered \subseteq AbstractAnswered' /\ UNCHANGED AbstractAsked
    BY <1>1, <1>4 DEF AbstractAsked, AbstractAnswered
  <2>2. \A a \in AbstractAnswered' : a.question \in AbstractServed
    <3>1. \A a \in answered' : a.req \in served
      BY <1>1 DEF ExchangeInv, SentInv
    <3> QED
      BY <3>1 DEF AbstractAnswered, AbstractServed
  <2> QED
    BY <1>2, <2>1, <2>2 DEF A!ExchangeNext, A!Answer
<1> QED
  BY <1>1, <1>3, <1>4

LEMMA AcceptServesOrConcludes ==
  ASSUME ExchangeInv', Accept
  PROVE  A!ExchangeNext
<1>1. /\ UNCHANGED <<asked, answered>> /\ served \subseteq served' /\ concluded \subseteq concluded'
      /\ UNCHANGED served \/ UNCHANGED concluded
  BY DEF Accept
<1>2. UNCHANGED <<AbstractAsked, AbstractAnswered>>
  BY <1>1 DEF AbstractAsked, AbstractAnswered
<1>3. CASE UNCHANGED concluded
  <2>1. AbstractServed \subseteq AbstractServed' /\ UNCHANGED AbstractConcluded
    BY <1>1, <1>3 DEF AbstractServed, AbstractConcluded
  <2>2. AbstractServed' \subseteq AbstractAsked
    BY <1>2 DEF ExchangeInv, SentInv, AbstractServed
  <2> QED
    BY <1>2, <2>1, <2>2 DEF A!ExchangeNext, A!Serve
<1>4. CASE UNCHANGED served
  <2>1. AbstractConcluded \subseteq AbstractConcluded' /\ UNCHANGED AbstractServed
    BY <1>1, <1>4 DEF AbstractServed, AbstractConcluded
  <2>2. ASSUME NEW d \in AbstractConcluded' PROVE A!MayConclude(d)
    <3>1. PICK c \in concluded' : d = [question |-> AskedQuestion(c.req), answer |-> Reply(c.msg)]
      BY <2>2 DEF AbstractConcluded
    <3>2. PICK a \in answered : /\ Reply(a.msg) = Reply(c.msg)
                                /\ BoundPart(AskedQuestion(a.req)) = BoundPart(AskedQuestion(c.req))
      BY <1>1 DEF ExchangeInv, SentInv
    <3>3. d.question = AskedQuestion(c.req) /\ d.answer = Reply(c.msg)
      BY <3>1
    <3>4. d.question \in AbstractAsked
      BY <1>1, <3>3 DEF ExchangeInv, SentInv, AbstractAsked
    <3>5. PICK b : b = [question |-> AskedQuestion(a.req), answer |-> Reply(a.msg)]
      OBVIOUS
    <3>6. b \in AbstractAnswered /\ b.question = AskedQuestion(a.req) /\ b.answer = Reply(a.msg)
      BY <3>5 DEF AbstractAnswered
    <3> QED
      BY <3>2, <3>3, <3>4, <3>6 DEF A!MayConclude
  <2> QED
    BY <1>2, <2>1, <2>2 DEF A!ExchangeNext, A!Conclude
<1> QED
  BY <1>1, <1>3, <1>4

LEMMA StepRefines ==
  ASSUME ExchangeInv', [ExchangeNext]_allVars
  PROVE  [A!ExchangeNext]_(A!exchangeVars)
<1>1. Send \/ Accept \/ UNCHANGED historyVars
  BY DEF ExchangeNext, Parties, allVars, BuildRequest, BuildResponse, Build, TakeRequest,
         TakeResponse, Take, SetDigest, SignOne, VerifySignature, VerifyBody, LetGo
<1> QED
  BY <1>1, SendAsksOrAnswers, AcceptServesOrConcludes, HistoryStutters

(* Client and server keep the promise of AuthenticExchange, whatever keys,  *)
(* contents, bodies and deliveries there are.                               *)
THEOREM ExchangeIsAlwaysAuthentic == ExchangeSpec => ExchangeIsAuthentic
<1>1. ExchangeInv' /\ [ExchangeNext]_allVars => [A!ExchangeNext]_(A!exchangeVars)
  BY StepRefines
<1> QED
  BY InitIsInit, ExchangeInvariance, <1>1, PTL DEF ExchangeSpec, ExchangeIsAuthentic, A!ExchangeSpec
-----------------------------------------------------------------------------
(* What is delivered as it was sent passes                                  *)

IsEntry(member) == {"form", "key", "val"} \subseteq DOMAIN member /\ member.form = "entry"

(* The i-th member of the two fields is the signature of a signing that was *)
(* made over what the message says, under the name of its key.              *)
SignedAt(history, msg, req, i) ==
  LET signature == Fields(msg).signature[i]
      input == Fields(msg).input[i]
      s == signature.val[2]
      params == history[s].base.params
  IN  /\ IsEntry(signature) /\ signature.val = <<"bytes", s>>
      /\ IsEntry(input) /\ input.val = <<"inner", params>>
      /\ s \in DOMAIN history
      /\ signature.key = NameOf[history[s].key] /\ input.key = signature.key
      /\ params.covered = Covered(msg.kind)
      /\ BaseOk(msg, params, req)
      /\ history[s].values = Values(msg, params, req)

SignedWell(history, msg, req) ==
  /\ Len(Fields(msg).signature) = Len(Fields(msg).input)
  /\ \A i \in DOMAIN Fields(msg).signature : SignedAt(history, msg, req, i)

(* The parameters that the parties sign with.                               *)
ParamsInv ==
  \A s \in DOMAIN signed :
    LET params == signed[s].base.params
    IN  /\ params.expires = {} /\ params.keyid = {KeyIdOf[signed[s].key]}
        /\ ParamsOutcome(params) = "ok"

(* The one digest of a message, of these bytes.                             *)
DigestLine(bytes) == <<Member("entry", "sha-256", D!DeriveDigest("sha-256", bytes))>>
HasDigest(msg, bytes) == msg.headers["content-digest"] = DigestLine(bytes)

(* The frames that are left make the bytes up with what was read before.    *)
Left(frames, got, bytes) ==
  \/ frames = <<>> /\ got = bytes
  \/ \E x \in ToSet(frames) : frames = <<x>> /\ got \o x = bytes
  \/ \E x, y \in ToSet(frames) : frames = <<x, y>> /\ (got \o x) \o y = bytes

Got == IF task.status = "none" THEN <<>> ELSE task.got
Reads(bytes) ==
  /\ DOMAIN body = {"frames", "end", "trailers"} /\ body.end = "closed"
  /\ Left(body.frames, Got, bytes)

(* What the parties sign of the fields consists of members.                 *)
Fielded(msg) ==
  \A f \in {"date", "content-type", "content-digest"} \cap DOMAIN msg.headers :
    \A i \in DOMAIN msg.headers[f] :
      DOMAIN msg.headers[f][i] = {"form", "key", "val", "first"}

MadeInv ==
  /\ \A m \in Made : SignedWell(signed, m.msg, m.req)
  /\ \A r \in asked \cup answered :
       r.bytes \in Bodies /\ HasDigest(r.msg, r.bytes) /\ Fielded(r.msg)

SenderInv ==
  /\ hand.doing \in {"digest", "sign"} => Fielded(message)
  /\ hand.doing = "digest" =>
       /\ \A f \in SignatureFields : message.headers[f] = <<>>
       /\ \E bytes \in Bodies :
            \/ task.status \in {"none", "running"} /\ Reads(bytes)
            \/ task.status = "done" /\ body = D!Full(bytes) /\ HasDigest(message, bytes)
  /\ hand.doing = "sign" => \E bytes \in Bodies : body = D!Full(bytes) /\ HasDigest(message, bytes)

(* The digest of the body in hand is the one in the message.                *)
BodyInv ==
  hand.doing \in {"verify", "body"} /\ hand.intact =>
    \E bytes \in Bodies :
      /\ HasDigest(message, bytes)
      /\ task.status # "done" => Reads(bytes)
      /\ task.status = "running" =>
           task.alg = "sha-256" /\ task.expected = {D!DeriveDigest("sha-256", bytes)}

(* The key it is verified with signed it.                                   *)
KeyInv ==
  hand.doing = "verify" /\ hand.intact =>
    /\ hand.key \in Keys /\ Carries(message, hand.key)
    /\ SignedWell(signed, message, hand.req.msg)
    /\ call # NoCall =>
         /\ call.status \in {"running", "done"} /\ call.keys[1].key = hand.key
         /\ call.keys[1].keyid \in {{}, {KeyIdOf[hand.key]}}

PassInv ==
  BaseInv /\ TriedInv /\ ParamsInv /\ MadeInv /\ SenderInv /\ BodyInv /\ KeyInv /\ IntactPasses

(* What a signature of the parties needs of a message.                      *)
LEMMA FieldOk ==
  ASSUME NEW msg, NEW name \in {"date", "content-type", "content-digest"}
  PROVE  /\ ExtractOk(msg, Plain(name)) <=> IsText(FieldOf(msg.headers, name))
         /\ ExtractOk(msg, OfRequest(name)) <=> IsText(FieldOf(msg.headers, name))
<1>1. name \notin DerivedComponentName
  BY DEF DerivedComponentName
<1>2. HttpField(msg, Plain(name)).ok
  BY FoldNoParam DEF HttpField, Plain
<1>3. HttpField(msg, OfRequest(name)).ok
  <2>1. PICK param : param = [p |-> "req", arg |-> ""]
    OBVIOUS
  <2>2. OfRequest(name) = [name |-> name, params |-> <<param>>]
    BY <2>1 DEF OfRequest
  <2>3. FoldLeft(ApplyParam, [ok |-> TRUE, field |-> FieldOf(msg.headers, name)], <<param>>)
          = [ok |-> TRUE, field |-> FieldOf(msg.headers, name)]
    BY <2>1, FoldReqParam
  <2> QED
    BY <2>2, <2>3 DEF HttpField
<1>4. Plain(name).name = name /\ OfRequest(name).name = name
  BY DEF Plain, OfRequest
<1>5. ASSUME NEW id, id.name = name, HttpField(msg, id).ok
      PROVE  ExtractOk(msg, id) <=> IsText(FieldOf(msg.headers, name))
  BY <1>1, <1>5 DEF ExtractOk, HttpFieldOk
<1> QED
  BY <1>2, <1>3, <1>4, <1>5

LEMMA MethodOk ==
  ASSUME NEW msg
  PROVE  /\ ExtractOk(msg, Plain("@method")) <=> msg.kind = "request"
         /\ ExtractOk(msg, OfRequest("@method")) <=> msg.kind = "request"
         /\ ExtractOk(msg, Plain("@status")) <=> msg.kind # "request"
<1>1. ASSUME NEW id, id.name \in {"@method", "@status"}
      PROVE  ExtractOk(msg, id) <=> DerivedAllowed(msg, id)
  BY <1>1 DEF ExtractOk, DerivedComponentName, DerivedOk, DerivedBuilds
<1>2. \A name : Plain(name).name = name /\ DOMAIN Plain(name).params = {}
  BY DEF Plain
<1>3. PICK param : param = [p |-> "req", arg |-> ""]
  OBVIOUS
<1>4. OfRequest("@method").name = "@method" /\ OfRequest("@method").params = <<param>>
  BY <1>3 DEF OfRequest
<1>5. DOMAIN <<param>> = {1} /\ <<param>>[1] = param /\ param.p = "req"
  <2>1. DOMAIN <<param>> = {1} /\ <<param>>[1] = param
    OBVIOUS
  <2> QED
    BY <1>3, <2>1
<1>6. DerivedAllowed(msg, OfRequest("@method")) <=> msg.kind = "request"
  BY <1>4, <1>5 DEF DerivedAllowed
<1>7. DerivedAllowed(msg, Plain("@method")) <=> msg.kind = "request"
  BY <1>2 DEF DerivedAllowed
<1>8. DerivedAllowed(msg, Plain("@status")) <=> msg.kind # "request"
  BY <1>2 DEF DerivedAllowed
<1> QED
  BY <1>1, <1>2, <1>4, <1>6, <1>7, <1>8

LEMMA RequestBase ==
  ASSUME NEW msg, NEW params, NEW req, params.covered = COVERED_COMPONENTS_REQ
  PROVE  BaseOk(msg, params, req) <=>
           /\ msg.kind = "request"
           /\ \A f \in {"date", "content-type", "content-digest"} : IsText(FieldOf(msg.headers, f))
<1> DEFINE covered == COVERED_COMPONENTS_REQ
<1>1. /\ DOMAIN covered = 1..4
      /\ covered[1] = Plain("@method") /\ covered[2] = Plain("date")
      /\ covered[3] = Plain("content-type") /\ covered[4] = Plain("content-digest")
  BY DEF COVERED_COMPONENTS_REQ
<1> HIDE DEF covered
<1>2. BaseOk(msg, params, req) <=> \A i \in 1..4 : ComponentOk(msg, covered[i], req)
  BY <1>1 DEF BaseOk, covered
<1>3. \A name : ComponentOk(msg, Plain(name), req) <=> ExtractOk(msg, Plain(name))
  BY ReqParam DEF ComponentOk, Source
<1> QED
  BY <1>1, <1>2, <1>3, FieldOk, MethodOk

LEMMA ResponseBase ==
  ASSUME NEW msg, NEW params, NEW req, params.covered = COVERED_COMPONENTS_RES
  PROVE  BaseOk(msg, params, req) <=>
           /\ msg.kind = "response" /\ req # NoRequest /\ req.kind = "request"
           /\ \A f \in {"date", "content-type"} : IsText(FieldOf(msg.headers, f))
           /\ IsText(FieldOf(req.headers, "content-digest"))
<1> DEFINE covered == COVERED_COMPONENTS_RES
<1>1. /\ DOMAIN covered = 1..5
      /\ covered[1] = Plain("@status") /\ covered[2] = OfRequest("@method")
      /\ covered[3] = Plain("date") /\ covered[4] = Plain("content-type")
      /\ covered[5] = OfRequest("content-digest")
  BY DEF COVERED_COMPONENTS_RES
<1> HIDE DEF covered
<1>2. BaseOk(msg, params, req) <=> \A i \in 1..5 : ComponentOk(msg, covered[i], req)
  BY <1>1 DEF BaseOk, covered
<1>3. \A name : ComponentOk(msg, Plain(name), req) <=> ExtractOk(msg, Plain(name))
  BY ReqParam DEF ComponentOk, Source
<1>4. \A name : ComponentOk(msg, OfRequest(name), req) <=>
                  msg.kind = "response" /\ req # NoRequest /\ ExtractOk(req, OfRequest(name))
  BY ReqParam DEF ComponentOk, Source
<1> QED
  BY <1>1, <1>2, <1>3, <1>4, FieldOk, MethodOk

(* And a request says the same to the signature of a response.              *)
AsksTheSame(old, new) ==
  \/ new = old
  \/ /\ new.kind = "request" /\ MethodValue(new) = MethodValue(old)
     /\ FieldValue(new, "content-digest") = FieldValue(old, "content-digest")
     /\ IsText(FieldOf(new.headers, "content-digest"))

LEMMA SameBase ==
  ASSUME NEW old, NEW new, SaysTheSame(old, new), NEW by, NEW req, AsksTheSame(by, req),
         NEW params, params.covered = Covered(old.kind), BaseOk(old, params, by)
  PROVE  BaseOk(new, params, req) /\ Values(new, params, req) = Values(old, params, by)
<1>1. CASE old.kind = "request"
  <2>1. params.covered = COVERED_COMPONENTS_REQ
    BY <1>1 DEF Covered
  <2>2. BaseOk(new, params, req)
    BY <2>1, RequestBase DEF SaysTheSame
  <2>3. Values(new, params, req) = Values(old, params, by)
    BY <1>1, <2>1, RequestValues DEF SaysTheSame
  <2> QED
    BY <2>2, <2>3
<1>2. CASE old.kind # "request"
  <2>1. params.covered = COVERED_COMPONENTS_RES
    BY <1>2 DEF Covered
  <2>2. /\ old.kind = "response" /\ by # NoRequest /\ by.kind = "request"
        /\ \A f \in {"date", "content-type"} : IsText(FieldOf(old.headers, f))
        /\ IsText(FieldOf(by.headers, "content-digest"))
    BY <2>1, ResponseBase
  <2>3. /\ req # NoRequest /\ req.kind = "request" /\ MethodValue(req) = MethodValue(by)
        /\ FieldValue(req, "content-digest") = FieldValue(by, "content-digest")
        /\ IsText(FieldOf(req.headers, "content-digest"))
    <3>1. NoRequest.kind = "none"
      BY DEF NoRequest
    <3> QED
      BY <2>2, <3>1 DEF AsksTheSame
  <2>4. BaseOk(new, params, req)
    BY <2>1, <2>2, <2>3, ResponseBase DEF SaysTheSame
  <2>5. Values(new, params, req) = Values(old, params, by)
    BY <2>1, <2>2, <2>3, ResponseValues DEF SaysTheSame
  <2> QED
    BY <2>4, <2>5
<1> QED
  BY <1>1, <1>2

LEMMA DigestText ==
  ASSUME NEW msg, ExchangeMessage(msg), NEW bytes, HasDigest(msg, bytes)
  PROVE  /\ FieldOf(msg.headers, "content-digest") = DigestLine(bytes)
         /\ IsText(FieldOf(msg.headers, "content-digest"))
<1>1. FieldOf(msg.headers, "content-digest") = DigestLine(bytes)
  BY ExchangeAssumption DEF FieldOf, ToLower, ExchangeMessage, HasDigest
<1>2. IsText(DigestLine(bytes))
  <2>1. PICK member : member = Member("entry", "sha-256", D!DeriveDigest("sha-256", bytes))
    OBVIOUS
  <2>2. \A i \in DOMAIN <<member>> : <<member>>[i] = member
    OBVIOUS
  <2>3. member.form # "opaque" /\ DigestLine(bytes) = <<member>>
    BY <2>1 DEF Member, DigestLine
  <2> QED
    BY <2>2, <2>3 DEF IsText
<1> QED
  BY <1>1, <1>2

(* Joining the lines of a field leaves its members as they are.             *)
LEMMA OneLineMember ==
  ASSUME NEW field, NEW i \in DOMAIN field
  PROVE  /\ DOMAIN OnOneLine(field) = DOMAIN field
         /\ DOMAIN OnOneLine(field)[i] = DOMAIN field[i]
         /\ \A x \in DOMAIN field[i] : x # "first" => OnOneLine(field)[i][x] = field[i][x]
<1>1. OnOneLine(field)[i] = [field[i] EXCEPT !.first = i = 1]
  BY DEF OnOneLine
<1> QED
  BY <1>1 DEF OnOneLine

LEMMA OneLineField ==
  ASSUME NEW field, \A i \in DOMAIN field : DOMAIN field[i] = {"form", "key", "val", "first"}
  PROVE  /\ Joined(OnOneLine(field)) = Joined(field)
         /\ IsText(field) => IsText(OnOneLine(field))
<1>1. DOMAIN OnOneLine(field) = DOMAIN field
  BY DEF OnOneLine
<1>2. \A i \in DOMAIN field : /\ OnOneLine(field)[i].form = field[i].form
                              /\ OnOneLine(field)[i].key = field[i].key
                              /\ OnOneLine(field)[i].val = field[i].val
  BY OneLineMember
<1> QED
  BY <1>1, <1>2 DEF Joined, IsText

LEMMA OneLineDigest ==
  ASSUME NEW bytes
  PROVE  OnOneLine(DigestLine(bytes)) = DigestLine(bytes)
<1>1. PICK member : member = Member("entry", "sha-256", D!DeriveDigest("sha-256", bytes))
  OBVIOUS
<1>2. DigestLine(bytes) = <<member>> /\ [member EXCEPT !.first = TRUE] = member
  <2>1. \A r, first : r.first = first /\ r = [x \in DOMAIN r |-> r[x]]
                       => [r EXCEPT !.first = first] = r
    OBVIOUS
  <2>2. member.first = TRUE /\ member = [x \in DOMAIN member |-> member[x]]
    BY <1>1 DEF Member
  <2> QED
    BY <1>1, <2>1, <2>2 DEF DigestLine
<1>3. OnOneLine(<<member>>) = [i \in {1} |-> [<<member>>[i] EXCEPT !.first = i = 1]]
  BY DEF OnOneLine
<1>4. [i \in {1} |-> [<<member>>[i] EXCEPT !.first = i = 1]] = [i \in {1} |-> member]
  <2>1. \A i \in {1} : <<member>>[i] = member /\ (i = 1) = TRUE
    OBVIOUS
  <2> QED
    BY <1>2, <2>1
<1>5. [i \in {1} |-> member] = <<member>>
  OBVIOUS
<1> QED
  BY <1>2, <1>3, <1>4, <1>5

(* What was signed well stays so as the history grows, and in a message     *)
(* that says the same with the same members.                                *)
LEMMA SignedWellGrows ==
  ASSUME NEW old, NEW new, \A s \in DOMAIN old : s \in DOMAIN new /\ new[s] = old[s],
         NEW msg, NEW req
  PROVE  /\ \A i : SignedAt(old, msg, req, i) => SignedAt(new, msg, req, i)
         /\ SignedWell(old, msg, req) => SignedWell(new, msg, req)
<1>1. \A i : SignedAt(old, msg, req, i) => SignedAt(new, msg, req, i)
  BY DEF SignedAt
<1> QED
  BY <1>1 DEF SignedWell

SameMember(a, b) ==
  /\ DOMAIN b = DOMAIN a
  /\ \A x \in {"form", "key", "val"} \cap DOMAIN a : b[x] = a[x]

LEMMA SignedAtSame ==
  ASSUME NEW history, NEW old, NEW new, SaysTheSame(old, new), NEW by, NEW req, AsksTheSame(by, req),
         NEW i, SignedAt(history, old, by, i),
         SameMember(Fields(old).signature[i], Fields(new).signature[i]),
         SameMember(Fields(old).input[i], Fields(new).input[i])
  PROVE  SignedAt(history, new, req, i)
<1> DEFINE signature == Fields(old).signature[i]
           input == Fields(old).input[i]
           newSignature == Fields(new).signature[i]
           newInput == Fields(new).input[i]
           s == signature.val[2]
           params == history[s].base.params
<1>1. /\ IsEntry(signature) /\ signature.val = <<"bytes", s>>
      /\ IsEntry(input) /\ input.val = <<"inner", params>>
      /\ s \in DOMAIN history
      /\ signature.key = NameOf[history[s].key] /\ input.key = signature.key
      /\ params.covered = Covered(old.kind)
      /\ BaseOk(old, params, by)
      /\ history[s].values = Values(old, params, by)
  BY DEF SignedAt
<1>2. BaseOk(new, params, req) /\ Values(new, params, req) = Values(old, params, by)
  <2>1. params.covered = Covered(old.kind) /\ BaseOk(old, params, by)
    BY <1>1
  <2> HIDE DEF params
  <2> QED
    BY <2>1, SameBase
<1>3. new.kind = old.kind
  BY DEF SaysTheSame
<1>4. SameMember(signature, newSignature) /\ SameMember(input, newInput)
  OBVIOUS
<1> HIDE DEF signature, input, newSignature, newInput
<1>5. /\ IsEntry(newSignature) /\ newSignature.val = signature.val /\ newSignature.key = signature.key
      /\ IsEntry(newInput) /\ newInput.val = input.val /\ newInput.key = input.key
  BY <1>1, <1>4 DEF SameMember, IsEntry
<1>6. newSignature.val[2] = s
  BY <1>5
<1> HIDE DEF s, params
<1>7. /\ newSignature.val = <<"bytes", newSignature.val[2]>>
      /\ newInput.val = <<"inner", params>> /\ newInput.key = newSignature.key
      /\ newSignature.key = NameOf[history[s].key]
  BY <1>1, <1>5, <1>6
<1>8. params = history[newSignature.val[2]].base.params
  BY <1>6 DEF params
<1> QED
  BY <1>1, <1>2, <1>3, <1>5, <1>6, <1>7, <1>8 DEF SignedAt, newSignature, newInput

LEMMA SignedWellPairs ==
  ASSUME NEW history, NEW msg, NEW req, SignedWell(history, msg, req)
  PROVE  Pairs(msg.headers, history)
<1>1. Len(Fields(msg).signature) = Len(Fields(msg).input)
  BY DEF SignedWell
<1>2. ASSUME NEW i \in DOMAIN Fields(msg).signature
      PROVE  PairAt(Fields(msg).signature, Fields(msg).input, i, history)
  <2>1. SignedAt(history, msg, req, i)
    BY DEF SignedWell
  <2> QED
    BY <2>1 DEF SignedAt, PairAt, IsMember, IsEntry
<1>3. Fields(msg).signature = msg.headers["signature"] /\ Fields(msg).input = msg.headers["signature-input"]
  BY DEF Fields
<1> QED
  BY <1>1, <1>2, <1>3 DEF Pairs

(* The bytes of a body, whatever frames they come in.                       *)
LEMMA ChunksLeft ==
  ASSUME NEW bytes, IsSeq(bytes), NEW frames \in Chunkings(bytes)
  PROVE  Left(frames, <<>>, bytes)
<1>1. CASE frames = <<bytes>>
  <2>1. bytes \in ToSet(<<bytes>>)
    <3>1. 1 \in DOMAIN <<bytes>> /\ <<bytes>>[1] = bytes
      OBVIOUS
    <3> QED
      BY <3>1 DEF ToSet
  <2>2. <<>> \o bytes = bytes
    BY ConcatEmptySeq DEF IsSeq
  <2> QED
    BY <1>1, <2>1, <2>2 DEF Left
<1>2. CASE frames # <<bytes>>
  <2>1. PICK i \in 1..(Len(bytes) - 1) :
          frames = <<SubSeq(bytes, 1, i), SubSeq(bytes, i + 1, Len(bytes))>>
    BY <1>2 DEF Chunkings
  <2>2. PICK S : bytes \in Seq(S)
    BY DEF IsSeq
  <2>3. Len(bytes) \in Nat /\ i \in Nat /\ 1 <= i /\ i + 1 <= Len(bytes)
    BY <2>1, <2>2, LenProperties
  <2>4. PICK x, y : x = SubSeq(bytes, 1, i) /\ y = SubSeq(bytes, i + 1, Len(bytes))
    OBVIOUS
  <2>5. x \in ToSet(<<x, y>>) /\ y \in ToSet(<<x, y>>)
    <3>1. /\ 1 \in DOMAIN <<x, y>> /\ <<x, y>>[1] = x
          /\ 2 \in DOMAIN <<x, y>> /\ <<x, y>>[2] = y
      OBVIOUS
    <3> QED
      BY <3>1 DEF ToSet
  <2>6. x \in Seq(S)
    <3>1. \A k \in 1..i : bytes[k] \in S
      BY <2>2, <2>3, ElementOfSeq
    <3> QED
      BY <2>3, <2>4, <3>1, SubSeqProperties
  <2>7. <<>> \o x = x
    BY <2>6, ConcatEmptySeq
  <2>8. x \o y = bytes
    <3>1. SubSeq(bytes, 1, i) \o SubSeq(bytes, i + 1, Len(bytes)) = SubSeq(bytes, 1, Len(bytes))
      BY <2>2, <2>3, ConcatAdjacentSubSeq
    <3>2. SubSeq(bytes, 1, Len(bytes)) = bytes
      BY <2>2, SubSeqFull
    <3> QED
      BY <2>4, <3>1, <3>2
  <2> QED
    BY <2>1, <2>4, <2>5, <2>7, <2>8 DEF Left
<1> QED
  BY <1>1, <1>2

LEMMA ReadOn ==
  ASSUME NEW frames, frames # <<>>, NEW got, NEW bytes, Left(frames, got, bytes)
  PROVE  Left(Tail(frames), got \o Head(frames), bytes)
<1>1. CASE \E x \in ToSet(frames) : frames = <<x>> /\ got \o x = bytes
  <2>1. PICK x : frames = <<x>> /\ got \o x = bytes
    BY <1>1
  <2>2. Tail(<<x>>) = <<>> /\ Head(<<x>>) = x
    OBVIOUS
  <2> QED
    BY <2>1, <2>2 DEF Left
<1>2. CASE \E x, y \in ToSet(frames) : frames = <<x, y>> /\ (got \o x) \o y = bytes
  <2>1. PICK x, y : frames = <<x, y>> /\ (got \o x) \o y = bytes
    BY <1>2
  <2>2. Tail(<<x, y>>) = <<y>> /\ Head(<<x, y>>) = x
    OBVIOUS
  <2>3. y \in ToSet(<<y>>)
    <3>1. 1 \in DOMAIN <<y>> /\ <<y>>[1] = y
      OBVIOUS
    <3> QED
      BY <3>1 DEF ToSet
  <2> QED
    BY <2>1, <2>2, <2>3 DEF Left
<1> QED
  BY <1>1, <1>2 DEF Left

LEMMA NothingLeft ==
  ASSUME NEW got, NEW bytes, Left(<<>>, got, bytes)
  PROVE  got = bytes
<1>1. \A x, y : <<>> # <<x>> /\ <<>> # <<x, y>>
  OBVIOUS
<1> QED
  BY <1>1 DEF Left

(* What an unharmed message has in common with the one that was sent.       *)
Resembles(old, new) ==
  /\ SaysTheSame(old, new)
  /\ \A f \in SignatureFields :
       /\ Len(new.headers[f]) = Len(old.headers[f])
       /\ DOMAIN new.headers[f] = DOMAIN old.headers[f]
       /\ \A i \in DOMAIN old.headers[f] : SameMember(old.headers[f][i], new.headers[f][i])
  /\ \A bytes : HasDigest(old, bytes) => HasDigest(new, bytes)

LEMMA UnharmedResembles ==
  ASSUME NEW msg, ExchangeMessage(msg), Fielded(msg), NEW m \in {msg} \cup Merged(msg)
  PROVE  Resembles(msg, m)
<1>1. CASE m = msg
  BY <1>1 DEF Resembles, SaysTheSame, SameMember
<1>2. CASE m \in Merged(msg)
  <2>1. PICK f \in DOMAIN msg.headers : m = [msg EXCEPT !.headers[f] = OnOneLine(@)]
    BY <1>2 DEF Merged
  <2> DEFINE h == [msg.headers EXCEPT ![f] = OnOneLine(@)]
  <2>2. m = [msg EXCEPT !.headers = h]
    BY <2>1
  <2>3. /\ DOMAIN h = DOMAIN msg.headers
        /\ \A g \in DOMAIN msg.headers : h[g] \in {msg.headers[g], OnOneLine(msg.headers[g])}
    OBVIOUS
  <2> HIDE DEF h
  <2>4. \A g \in SignatureFields : IsSeq(msg.headers[g]) /\ g \in DOMAIN msg.headers
    BY DEF ExchangeMessage, IsMessage
  <2>5. ASSUME NEW g \in SignatureFields
        PROVE  /\ IsSeq(h[g]) /\ Len(h[g]) = Len(msg.headers[g])
               /\ DOMAIN h[g] = DOMAIN msg.headers[g]
               /\ \A i \in DOMAIN msg.headers[g] : SameMember(msg.headers[g][i], h[g][i])
    <3>1. CASE h[g] = msg.headers[g]
      BY <2>4, <3>1 DEF SameMember
    <3>2. CASE h[g] = OnOneLine(msg.headers[g])
      <4>1. IsSeq(h[g]) /\ DOMAIN h[g] = DOMAIN msg.headers[g]
        BY <2>4, <3>2, OneLineIsSeq DEF OnOneLine
      <4>2. Len(h[g]) = Len(msg.headers[g])
        <5>1. \A s : IsSeq(s) => Len(s) \in Nat /\ DOMAIN s = 1..Len(s)
          BY SeqIsSeq DEF IsSeq
        <5> QED
          BY <2>4, <4>1, <5>1
      <4>3. \A i \in DOMAIN msg.headers[g] : SameMember(msg.headers[g][i], h[g][i])
        BY <3>2, OneLineMember DEF SameMember
      <4> QED
        BY <4>1, <4>2, <4>3
    <3> QED
      BY <2>3, <2>4, <3>1, <3>2
  <2>6. /\ m.kind = msg.kind /\ m.headers = h
        /\ msg.kind = "request" => m.method = msg.method
        /\ msg.kind = "response" => m.status = msg.status
    BY <2>2, <2>3, <2>5, HeadersReplaced
  <2>7. ASSUME NEW g \in {"date", "content-type", "content-digest"}
        PROVE  /\ FieldValue(m, g) = FieldValue(msg, g)
               /\ IsText(FieldOf(msg.headers, g)) => IsText(FieldOf(m.headers, g))
    <3>1. ToLower(g) = g
      BY ExchangeAssumption DEF ToLower
    <3>2. CASE g \in DOMAIN msg.headers
      <4>1. FieldOf(msg.headers, g) = msg.headers[g] /\ FieldOf(m.headers, g) = h[g]
        BY <2>3, <2>6, <3>1, <3>2 DEF FieldOf
      <4>2. \A i \in DOMAIN msg.headers[g] : DOMAIN msg.headers[g][i] = {"form", "key", "val", "first"}
        BY <3>2 DEF Fielded
      <4> QED
        BY <2>3, <3>2, <4>1, <4>2, OneLineField DEF FieldValue
    <3>3. CASE g \notin DOMAIN msg.headers
      BY <2>3, <2>6, <3>1, <3>3 DEF FieldOf, FieldValue
    <3> QED
      BY <3>2, <3>3
  <2>8. SaysTheSame(msg, m)
    BY <2>6, <2>7 DEF SaysTheSame, MethodValue, StatusValue
  <2>9. ASSUME NEW bytes, HasDigest(msg, bytes) PROVE HasDigest(m, bytes)
    BY <2>3, <2>6, <2>9, OneLineDigest DEF HasDigest, ExchangeMessage
  <2> QED
    BY <2>5, <2>6, <2>8, <2>9 DEF Resembles
<1> QED
  BY <1>1, <1>2

LEMMA SignedWellDelivered ==
  ASSUME NEW history, NEW old, NEW new, Resembles(old, new), NEW by, NEW req, AsksTheSame(by, req),
         ExchangeMessage(old), SignedWell(history, old, by)
  PROVE  SignedWell(history, new, req)
<1>1. /\ SaysTheSame(old, new)
      /\ \A f \in SignatureFields :
           /\ Len(new.headers[f]) = Len(old.headers[f])
           /\ DOMAIN new.headers[f] = DOMAIN old.headers[f]
           /\ \A i \in DOMAIN old.headers[f] : SameMember(old.headers[f][i], new.headers[f][i])
  BY DEF Resembles
<1>2. /\ Fields(old).signature = old.headers["signature"]
      /\ Fields(old).input = old.headers["signature-input"]
      /\ Fields(new).signature = new.headers["signature"]
      /\ Fields(new).input = new.headers["signature-input"]
  BY DEF Fields
<1>3. {"signature", "signature-input"} \subseteq SignatureFields
  BY DEF SignatureFields
<1>4. DOMAIN Fields(old).input = DOMAIN Fields(old).signature
  BY SignedWellPairs, PairsAlike DEF ExchangeMessage
<1>5. ASSUME NEW i \in DOMAIN Fields(new).signature PROVE SignedAt(history, new, req, i)
  <2>1. i \in DOMAIN Fields(old).signature /\ SignedAt(history, old, by, i)
    BY <1>1, <1>2, <1>3 DEF SignedWell
  <2>2. SameMember(Fields(old).signature[i], Fields(new).signature[i])
    BY <1>1, <1>2, <1>3, <2>1
  <2>3. SameMember(Fields(old).input[i], Fields(new).input[i])
    <3>1. i \in DOMAIN Fields(old).input
      BY <1>4, <2>1
    <3> QED
      BY <1>1, <1>2, <1>3, <3>1
  <2> QED
    BY <1>1, <2>1, <2>2, <2>3, SignedAtSame
<1> QED
  BY <1>1, <1>2, <1>3, <1>5 DEF SignedWell

-----------------------------------------------------------------------------
(* Signing                                                                  *)

(* The components of the parties are named apart and convert back.          *)
LEMMA CoveredNames ==
  ASSUME NEW kind
  PROVE  LET covered == Covered(kind)
         IN  /\ \A i \in DOMAIN covered :
                  /\ covered[i].name \in {"@method", "@status", "date", "content-type", "content-digest"}
                  /\ \A j \in DOMAIN covered[i].params :
                       covered[i].params[j].p = "req" /\ covered[i].params[j].arg = ""
             /\ \A i, j \in DOMAIN covered : covered[i].name = covered[j].name => i = j
<1>1. PICK param : param = [p |-> "req", arg |-> ""]
  OBVIOUS
<1>2. /\ \A name : Plain(name).name = name /\ Plain(name).params = <<>>
      /\ \A name : OfRequest(name).name = name /\ OfRequest(name).params = <<param>>
  BY <1>1 DEF Plain, OfRequest
<1>3. /\ DOMAIN <<>> = {}
      /\ \A j \in DOMAIN <<param>> : <<param>>[j] = param
  OBVIOUS
<1>4. param.p = "req" /\ param.arg = ""
  BY <1>1
<1>5. \A name : /\ \A j \in DOMAIN Plain(name).params : FALSE
                /\ \A j \in DOMAIN OfRequest(name).params :
                     OfRequest(name).params[j].p = "req" /\ OfRequest(name).params[j].arg = ""
  BY <1>2, <1>3, <1>4
<1>6. /\ DOMAIN COVERED_COMPONENTS_REQ = 1..4
      /\ COVERED_COMPONENTS_REQ[1] = Plain("@method") /\ COVERED_COMPONENTS_REQ[2] = Plain("date")
      /\ COVERED_COMPONENTS_REQ[3] = Plain("content-type")
      /\ COVERED_COMPONENTS_REQ[4] = Plain("content-digest")
  BY DEF COVERED_COMPONENTS_REQ
<1>7. /\ DOMAIN COVERED_COMPONENTS_RES = 1..5
      /\ COVERED_COMPONENTS_RES[1] = Plain("@status")
      /\ COVERED_COMPONENTS_RES[2] = OfRequest("@method")
      /\ COVERED_COMPONENTS_RES[3] = Plain("date")
      /\ COVERED_COMPONENTS_RES[4] = Plain("content-type")
      /\ COVERED_COMPONENTS_RES[5] = OfRequest("content-digest")
  BY DEF COVERED_COMPONENTS_RES
<1> DEFINE Good(covered) ==
      /\ \A i \in DOMAIN covered :
           /\ covered[i].name \in {"@method", "@status", "date", "content-type", "content-digest"}
           /\ \A j \in DOMAIN covered[i].params :
                covered[i].params[j].p = "req" /\ covered[i].params[j].arg = ""
      /\ \A i, j \in DOMAIN covered : covered[i].name = covered[j].name => i = j
<1>8. Good(COVERED_COMPONENTS_REQ)
  <2> DEFINE covered == COVERED_COMPONENTS_REQ
  <2>1. /\ covered[1].name = "@method" /\ covered[2].name = "date"
        /\ covered[3].name = "content-type" /\ covered[4].name = "content-digest"
    BY <1>2, <1>6
  <2>2. \A i \in 1..4 : \A j \in DOMAIN covered[i].params : FALSE
    <3>1. \A i \in 1..4 : i = 1 \/ i = 2 \/ i = 3 \/ i = 4
      OBVIOUS
    <3>2. \A i \in 1..4 : \E name : covered[i] = Plain(name)
      BY <1>6, <3>1
    <3> QED
      BY <1>5, <3>2
  <2>3. DOMAIN covered = 1..4
    BY <1>6
  <2> HIDE DEF covered
  <2>4. Good(covered)
    <3>1. \A i \in 1..4 : i = 1 \/ i = 2 \/ i = 3 \/ i = 4
      OBVIOUS
    <3>2. \A i \in 1..4 :
            covered[i].name \in {"@method", "@status", "date", "content-type", "content-digest"}
      BY <2>1, <3>1
    <3>3. \A i, j \in 1..4 : covered[i].name = covered[j].name => i = j
      BY <2>1, <3>1
    <3> QED
      BY <2>2, <2>3, <3>2, <3>3
  <2> QED
    BY <2>4 DEF covered
<1>9. Good(COVERED_COMPONENTS_RES)
  <2> DEFINE covered == COVERED_COMPONENTS_RES
  <2>1. /\ covered[1].name = "@status" /\ covered[2].name = "@method" /\ covered[3].name = "date"
        /\ covered[4].name = "content-type" /\ covered[5].name = "content-digest"
    BY <1>2, <1>7
  <2>2. \A i \in 1..5 : \A j \in DOMAIN covered[i].params :
          covered[i].params[j].p = "req" /\ covered[i].params[j].arg = ""
    <3>1. \A i \in 1..5 : i = 1 \/ i = 2 \/ i = 3 \/ i = 4 \/ i = 5
      OBVIOUS
    <3>2. \A i \in 1..5 : \E name : covered[i] = Plain(name) \/ covered[i] = OfRequest(name)
      BY <1>7, <3>1
    <3> HIDE DEF covered
    <3>3. ASSUME NEW id, NEW name, id = Plain(name) \/ id = OfRequest(name), NEW j \in DOMAIN id.params
          PROVE  id.params[j].p = "req" /\ id.params[j].arg = ""
      BY <1>5, <3>3
    <3> QED
      BY <3>2, <3>3
  <2>3. DOMAIN covered = 1..5
    BY <1>7
  <2> HIDE DEF covered
  <2>4. Good(covered)
    <3>1. \A i \in 1..5 : i = 1 \/ i = 2 \/ i = 3 \/ i = 4 \/ i = 5
      OBVIOUS
    <3>2. \A i \in 1..5 :
            covered[i].name \in {"@method", "@status", "date", "content-type", "content-digest"}
      BY <2>1, <3>1
    <3>3. \A i, j \in 1..5 : covered[i].name = covered[j].name => i = j
      BY <2>1, <3>1
    <3> QED
      BY <2>2, <2>3, <3>2, <3>3
  <2> QED
    BY <2>4 DEF covered
<1> QED
  BY <1>8, <1>9 DEF Covered

(* What a sender signs with is written and read back as it is.              *)
LEMMA SenderParamsRead ==
  ASSUME Interoperable, now \in 0..MaxTime, Len(signed) + 1 \in 1..MaxSigned, NEW key \in Keys
  PROVE  /\ DisplayForm(SenderParams(key)) = "entry" /\ ParamsOutcome(SenderParams(key)) = "ok"
         /\ SenderParams(key).expires = {} /\ SenderParams(key).keyid = {KeyIdOf[key]}
         /\ SenderParams(key).covered = Covered(message.kind)
<1> DEFINE params == SenderParams(key)
           covered == Covered(message.kind)
<1>1. /\ params.covered = covered /\ params.created = {now} /\ params.expires = {}
      /\ params.keyid = {KeyIdOf[key]} /\ params.alg = {KeyAlg[key]} /\ params.tag = {}
      /\ params.nonce \subseteq {Nonces[Len(signed) + 1]}
  BY DEF SenderParams, Covered
<1> HIDE DEF params, covered
<1>2. /\ \A i \in DOMAIN covered :
           /\ covered[i].name \in {"@method", "@status", "date", "content-type", "content-digest"}
           /\ \A j \in DOMAIN covered[i].params :
                covered[i].params[j].p = "req" /\ covered[i].params[j].arg = ""
      /\ \A i, j \in DOMAIN covered : covered[i].name = covered[j].name => i = j
  BY CoveredNames DEF covered
<1>3. /\ SentStrings \cap (OpaqueStrings \cup UnescapedStrings \cup UnknownDerivedNames) = {}
      /\ MaxSfvInteger \in Nat /\ MaxTime <= MaxSfvInteger
  BY DEF Interoperable
<1>4. WrittenStrings(params) \subseteq SentStrings
  <2>1. KeyAlg[key] \in AlgorithmName
    BY KeyAssumption
  <2>2. params.nonce \cup params.alg \cup params.keyid \cup params.tag \subseteq SentStrings
    BY <1>1, <2>1 DEF SentStrings
  <2>3. {params.covered[i].name : i \in DOMAIN params.covered} \subseteq SentStrings
    <3>1. \A i \in DOMAIN params.covered : params.covered[i].name \in SentStrings
      BY <1>1, <1>2 DEF SentStrings
    <3> QED
      BY <3>1
  <2>4. ASSUME NEW id \in ToSet(params.covered)
        PROVE  {id.params[i].arg : i \in DOMAIN id.params} \subseteq SentStrings
    <3>1. PICK n \in DOMAIN covered : id = covered[n]
      BY <1>1 DEF ToSet
    <3> QED
      BY <1>2, <3>1 DEF SentStrings
  <2> QED
    BY <2>2, <2>3, <2>4 DEF WrittenStrings
<1>5. \A t \in params.created \cup params.expires : ~(t > MaxSfvInteger) /\ ~(t < 0)
  BY <1>1, <1>3, BoundAssumption
<1>6. DisplayForm(params) = "entry"
  BY <1>3, <1>4, <1>5 DEF DisplayForm, UnescapedStrings
<1>7. ASSUME NEW i \in DOMAIN covered PROVE IdOutcome(covered[i]) = "ok"
  <2>1. covered[i].name \notin UnknownDerivedNames
    BY <1>2, <1>3 DEF SentStrings
  <2>2. \A p : p # "req" => ~HasParam(covered[i], p)
    BY <1>2 DEF HasParam
  <2>3. \A j \in DOMAIN covered[i].params : covered[i].params[j].p \in HttpMessageComponentParam
    BY <1>2 DEF HttpMessageComponentParam
  <2> QED
    BY <2>1, <2>2, <2>3 DEF IdOutcome
<1>8. HasUniqueElements(params.covered)
  BY <1>1, <1>2 DEF HasUniqueElements, SameId
<1>9. ParamsOutcome(params) = "ok"
  <2>1. {i \in DOMAIN params.covered : IdOutcome(params.covered[i]) # "ok"} = {}
    BY <1>1, <1>7
  <2> QED
    BY <1>5, <1>8, <2>1 DEF ParamsOutcome
<1> QED
  BY <1>1, <1>6, <1>9 DEF params, covered

(* The members a sender adds to the two fields.                             *)
Signature(key) == Member("entry", NameOf[key], <<"bytes", Len(signed) + 1>>)
SignatureInput(key) == Member("entry", NameOf[key], <<"inner", SenderParams(key)>>)

LEMMA NameWritten ==
  ASSUME Interoperable, NEW key \in Keys
  PROVE  NameForm(SignatureName({NameOf[key]})) = "entry" /\ SignatureName({NameOf[key]}) = NameOf[key]
<1>1. SignatureName({NameOf[key]}) = NameOf[key]
  BY DEF SignatureName
<1>2. NameOf[key] \notin OpaqueStrings \cup NonKeyNames
  BY DEF Interoperable
<1> QED
  BY <1>1, <1>2 DEF NameForm

LEMMA SignatureAdded ==
  ASSUME TypeOK, ExchangeMessage(message), Interoperable, NEW key \in Keys, NEW req,
         NEW list, list = <<[params |-> SenderParams(key), key |-> key, name |-> {NameOf[key]}]>>,
         SetMessageSignatures(list, req)
  PROVE  /\ message'.headers["signature"] = message.headers["signature"] \o <<Signature(key)>>
         /\ message'.headers["signature-input"] =
              message.headers["signature-input"] \o <<SignatureInput(key)>>
<1> DEFINE item == [params |-> SenderParams(key), key |-> key, name |-> {NameOf[key]}]
<1>1. item.params = SenderParams(key) /\ item.name = {NameOf[key]}
  OBVIOUS
<1> HIDE DEF item
<1>2. list = <<item>> /\ Len(list) = 1 /\ DOMAIN list = {1} /\ list[1] = item
  BY DEF item
<1>3. Len(signed) \in Nat /\ Len(signed) + 1 \in 1..MaxSigned /\ now \in 0..MaxTime
  <2>1. Len(signed) \in Nat /\ Len(signed) + 1 <= MaxSigned
    BY <1>2, SeqIsSeq DEF SetMessageSignatures, TypeOK, IsSeq
  <2> QED
    BY <2>1, BoundAssumption DEF TypeOK
<1>4. InputValue(item) = SignatureInput(key)
  BY <1>1, <1>3, SenderParamsRead, NameWritten
  DEF InputValue, SignatureInputHeaderValue, SignatureInput
<1>5. SignatureHeaderValue(SignatureName(item.name), Len(signed) + 1) = Signature(key)
  BY <1>1, NameWritten DEF SignatureHeaderValue, Signature
<1>6. Appended(list) = 1
  <2>1. InputValue(list[1]).form # "opaque"
    BY <1>2, <1>4 DEF SignatureInput, Member
  <2>2. {i \in DOMAIN list : InputValue(list[i]).form = "opaque"} = {}
    BY <1>2, <2>1
  <2> QED
    BY <1>2, <2>2 DEF Appended
<1>7. [i \in 1..Appended(list) |-> InputValue(list[i])] = <<SignatureInput(key)>>
  <2>1. [i \in 1..1 |-> InputValue(list[i])] = [i \in 1..1 |-> SignatureInput(key)]
    BY <1>2, <1>4
  <2>2. \A x : [i \in 1..1 |-> x] = <<x>>
    OBVIOUS
  <2> QED
    BY <1>6, <2>1, <2>2
<1>8. [i \in 1..Appended(list) |-> SignatureHeaderValue(SignatureName(list[i].name), Len(signed) + i)]
        = <<Signature(key)>>
  <2>1. \A i \in 1..1 : SignatureHeaderValue(SignatureName(list[i].name), Len(signed) + i) = Signature(key)
    <3>1. \A i \in 1..1 : i = 1
      OBVIOUS
    <3> QED
      BY <1>2, <1>5, <3>1
  <2>2. \A x : [i \in 1..1 |-> x] = <<x>>
    OBVIOUS
  <2> QED
    BY <1>6, <2>1, <2>2
<1> QED
  BY <1>7, <1>8
  DEF SetMessageSignatures, WithSignatures, SignaturesAppended, ExchangeMessage, IsMessage, SignatureFields

-----------------------------------------------------------------------------
(* The steps of the parties                                                 *)

LEMMA IdleStep ==
  ASSUME PassInv, signed' = signed, call' = NoCall
  PROVE  (BaseInv /\ TriedInv /\ ParamsInv)'
BY DEF PassInv, BaseInv, ParamsInv, TriedInv, NoCall

LEMMA MadeStep ==
  ASSUME PassInv, signed' = signed, Made' \subseteq Made, UNCHANGED <<asked, answered>>
  PROVE  MadeInv'
BY DEF PassInv, MadeInv

LEMMA BuiltPass ==
  ASSUME Interoperable, ExchangeInv, PassInv,
         NEW content \in RequestContents \cup ResponseContents, NEW bytes \in Bodies,
         NEW keys, NEW req, Build(content, bytes, keys, req)
  PROVE  PassInv'
<1>1. /\ message' = content /\ body' = D!Full(bytes) /\ hand.doing = "nothing"
      /\ hand' = [doing |-> "digest", keys |-> keys, req |-> req]
      /\ UNCHANGED <<signed, call, task, historyVars>>
  BY DEF Build, Free
<1>2. call = NoCall /\ task = D!NoTask
  BY <1>1 DEF ExchangeInv, HandInv
<1>3. hand'.doing = "digest" /\ task'.status = "none"
  BY <1>1, <1>2 DEF D!NoTask
<1>4. Fielded(content) /\ \A f \in SignatureFields : content.headers[f] = <<>>
  BY ExchangeAssumption DEF Fielded, Interoperable
<1>5. Reads(bytes)'
  <2>1. Left(<<bytes>>, <<>>, bytes)
    BY ChunksLeft DEF Chunkings, Interoperable
  <2> QED
    BY <1>1, <1>3, <2>1 DEF Reads, Got, D!Full
<1>6. SenderInv'
  BY <1>1, <1>3, <1>4, <1>5 DEF SenderInv, Fielded
<1>7. MadeInv'
  BY <1>1, <1>3, MadeStep DEF Made, historyVars
<1>8. (BodyInv /\ KeyInv /\ IntactPasses)'
  BY <1>3 DEF BodyInv, KeyInv, IntactPasses
<1> QED
  BY <1>1, <1>2, <1>6, <1>7, <1>8, IdleStep DEF PassInv

LEMMA DigestSetWell ==
  ASSUME NEW m, ExchangeMessage(m), Fielded(m), NEW bytes
  PROVE  LET n == D!WithDigest(m, "sha-256", bytes)
         IN  /\ Fielded(n) /\ HasDigest(n, bytes)
             /\ \A f \in SignatureFields : n.headers[f] = m.headers[f]
<1> DEFINE h == [m.headers EXCEPT !["content-digest"] = DigestLine(bytes)]
           n == D!WithDigest(m, "sha-256", bytes)
<1>1. n.headers = h
  BY DEF D!WithDigest, D!CONTENT_DIGEST_HEADER, D!Member, Member, DigestLine, ExchangeMessage, IsMessage
<1>2. /\ DOMAIN h = DOMAIN m.headers /\ h["content-digest"] = DigestLine(bytes)
      /\ \A f \in DOMAIN m.headers : f # "content-digest" => h[f] = m.headers[f]
  BY DEF ExchangeMessage
<1> HIDE DEF h, n
<1>3. \A i \in DOMAIN DigestLine(bytes) :
        DOMAIN DigestLine(bytes)[i] = {"form", "key", "val", "first"}
  <2>1. PICK member : member = Member("entry", "sha-256", D!DeriveDigest("sha-256", bytes))
    OBVIOUS
  <2>2. DigestLine(bytes) = <<member>> /\ DOMAIN member = {"form", "key", "val", "first"}
    BY <2>1 DEF DigestLine, Member
  <2>3. \A i \in DOMAIN <<member>> : <<member>>[i] = member
    OBVIOUS
  <2> QED
    BY <2>2, <2>3
<1>4. Fielded(n)
  BY <1>1, <1>2, <1>3 DEF Fielded
<1>5. \A f \in SignatureFields : f \in DOMAIN m.headers /\ f # "content-digest"
  BY DEF ExchangeMessage, IsMessage, SignatureFields
<1> QED
  BY <1>1, <1>2, <1>4, <1>5 DEF HasDigest, n

LEMMA SetDigestPass ==
  ASSUME ExchangeInv, PassInv, SetDigest
  PROVE  PassInv'
<1>1. /\ hand.doing = "digest" /\ UNCHANGED <<signed, call, historyVars>>
      /\ ExchangeMessage(message) /\ call = NoCall
      /\ DOMAIN hand = {"doing", "keys", "req"}
      /\ task = D!NoTask \/ (IsTask("set") /\ task.alg = "sha-256")
  BY DEF SetDigest, ExchangeInv, HandInv, TaskInv
<1>2. /\ Fielded(message) /\ \A f \in SignatureFields : message.headers[f] = <<>>
      /\ SenderInv
  BY <1>1 DEF PassInv, SenderInv
<1>3. PICK bytes \in Bodies :
        \/ task.status \in {"none", "running"} /\ Reads(bytes)
        \/ task.status = "done" /\ body = D!Full(bytes) /\ HasDigest(message, bytes)
  BY <1>1 DEF PassInv, SenderInv
<1>4. ASSUME hand' = hand, SenderInv' PROVE PassInv'
  <2>1. MadeInv'
    BY <1>1, <1>4, MadeStep DEF Made, historyVars
  <2>2. (BodyInv /\ KeyInv /\ IntactPasses)'
    BY <1>1, <1>4 DEF BodyInv, KeyInv, IntactPasses
  <2> QED
    BY <1>1, <1>4, <2>1, <2>2, IdleStep DEF PassInv
<1>5. CASE D!BeginSet("sha-256") /\ UNCHANGED hand
  <2>1. task.status = "none" /\ task' = D!Running("set", "sha-256", {}) /\ UNCHANGED <<message, body>>
    BY <1>5 DEF D!BeginSet
  <2>2. task'.status = "running" /\ task'.got = <<>>
    BY <2>1 DEF D!Running
  <2>3. Reads(bytes)'
    BY <1>3, <2>1, <2>2 DEF Reads, Got
  <2>4. SenderInv'
    BY <1>1, <1>2, <1>5, <2>1, <2>2, <2>3 DEF SenderInv, Fielded
  <2> QED
    BY <1>4, <1>5, <2>4
<1>6. CASE D!Collect /\ UNCHANGED hand
  <2>1. /\ IsTask("set") /\ task.status = "running" /\ UNCHANGED message /\ body.frames # <<>>
        /\ task' = [task EXCEPT !.got = task.got \o Head(body.frames)]
        /\ body' = [body EXCEPT !.frames = Tail(body.frames)]
    BY <1>1, <1>6 DEF D!Collect, D!NoTask
  <2>2. task'.status = "running" /\ task'.got = task.got \o Head(body.frames)
    BY <2>1 DEF IsTask
  <2>3. Reads(bytes)'
    <3>1. /\ DOMAIN body = {"frames", "end", "trailers"} /\ body.end = "closed"
          /\ Left(body.frames, task.got, bytes)
      BY <1>3, <2>1 DEF Reads, Got
    <3>2. Left(Tail(body.frames), task'.got, bytes)
      BY <2>1, <2>2, <3>1, ReadOn
    <3>3. DOMAIN body' = DOMAIN body /\ body'.end = "closed" /\ body'.frames = Tail(body.frames)
      BY <2>1, <3>1
    <3> QED
      BY <2>2, <3>1, <3>2, <3>3 DEF Reads, Got
  <2>4. SenderInv'
    BY <1>1, <1>2, <1>6, <2>1, <2>2, <2>3 DEF SenderInv, Fielded
  <2> QED
    BY <1>4, <1>6, <2>4
<1>7. CASE D!FinishSet /\ UNCHANGED hand
  <2>1. /\ IsTask("set") /\ task.status = "running" /\ body.frames = <<>>
        /\ message' = D!WithDigest(message, "sha-256", task.got)
        /\ body' = D!Full(task.got) /\ task' = [task EXCEPT !.status = "done"]
    BY <1>1, <1>7 DEF D!FinishSet, D!Collected, D!NoTask
  <2>2. task'.status = "done"
    BY <2>1 DEF IsTask
  <2>3. task.got = bytes
    BY <1>3, <2>1, NothingLeft DEF Reads, Got
  <2>4. /\ Fielded(message') /\ HasDigest(message', bytes)
        /\ \A f \in SignatureFields : message'.headers[f] = <<>>
    BY <1>1, <1>2, <2>1, <2>3, DigestSetWell
  <2>5. SenderInv'
    BY <1>1, <1>7, <2>1, <2>2, <2>3, <2>4 DEF SenderInv, Fielded, HasDigest
  <2> QED
    BY <1>4, <1>7, <2>5
<1>8. CASE D!TakeBack /\ hand' = [hand EXCEPT !.doing = "sign"]
  <2>1. /\ task.status = "done" /\ UNCHANGED <<message, body>>
        /\ body = D!Full(bytes) /\ HasDigest(message, bytes)
    BY <1>3, <1>8 DEF D!TakeBack
  <2>2. hand'.doing = "sign" /\ hand'.req = hand.req
    BY <1>1, <1>8
  <2>3. SenderInv'
    BY <1>2, <2>1, <2>2 DEF SenderInv, Fielded, HasDigest
  <2>4. MadeInv'
    <3>1. SignedWell(signed, message, hand.req.msg)
      <4>1. Fields(message).signature = <<>> /\ Fields(message).input = <<>>
        BY <1>2 DEF Fields, SignatureFields
      <4> QED
        BY <4>1, EmptyIsSeq DEF SignedWell
    <3>2. PICK new : new = [msg |-> message, req |-> hand.req.msg]
      OBVIOUS
    <3>3. new.msg = message /\ new.req = hand.req.msg /\ Made' \subseteq Made \cup {new}
      BY <1>1, <2>1, <2>2, <3>2 DEF Made, historyVars
    <3> QED
      BY <1>1, <3>1, <3>3 DEF PassInv, MadeInv, historyVars
  <2>5. (BodyInv /\ KeyInv /\ IntactPasses)'
    BY <2>2 DEF BodyInv, KeyInv, IntactPasses
  <2> QED
    BY <1>1, <2>3, <2>4, <2>5, IdleStep DEF PassInv
<1> QED
  BY <1>5, <1>6, <1>7, <1>8 DEF SetDigest

(* Another signature of a party leaves the others as they are.              *)
LEMMA SignedOnWell ==
  ASSUME TypeOK, ExchangeMessage(message), Interoperable, NEW key \in Keys, NEW req,
         NEW list, list = <<[params |-> SenderParams(key), key |-> key, name |-> {NameOf[key]}]>>,
         SetMessageSignatures(list, req), SignedWell(signed, message, req)
  PROVE  SignedWell(signed', message', req)
<1> DEFINE signature == Fields(message).signature
           input == Fields(message).input
           params == SenderParams(key)
           s == Len(signed) + 1
<1>1. IsSignRequest(list) /\ Len(list) = 1 /\ DOMAIN list = {1} /\ list[1].params = params /\ list[1].key = key
  BY PartyRequest
<1>2. /\ IsSeq(signed') /\ Len(signed) \in Nat /\ Len(signed') = Len(signed) + 1
      /\ \A t \in DOMAIN signed : t \in DOMAIN signed' /\ signed'[t] = signed[t]
      /\ \A t \in DOMAIN signed' \ DOMAIN signed : signed'[t] = Recorded(list, req, t - Len(signed))
  BY <1>1, HistoryGrows DEF TypeOK
<1>3. s \in DOMAIN signed' /\ signed'[s] = Recorded(list, req, 1)
  <2>1. DOMAIN signed' = 1..Len(signed') /\ DOMAIN signed = 1..Len(signed)
    BY <1>2, SeqIsSeq DEF IsSeq, TypeOK
  <2>2. s \in DOMAIN signed' \ DOMAIN signed /\ s - Len(signed) = 1
    BY <1>2, <2>1
  <2> QED
    BY <1>2, <2>2
<1>4. /\ signed'[s].key = key /\ signed'[s].base.params = params
      /\ signed'[s].values = Values(message, params, req)
  BY <1>1, <1>3, BaseDeterminesValues DEF Recorded
<1>5. SaysTheSame(message, message') /\ message'.kind = message.kind
  BY <1>1, SigningLeaves DEF SaysTheSame
<1>6. /\ Fields(message').signature = signature \o <<Signature(key)>>
      /\ Fields(message').input = input \o <<SignatureInput(key)>>
  BY SignatureAdded DEF Fields
<1>7. /\ IsSeq(signature) /\ IsSeq(input) /\ Len(signature) = Len(input)
  BY SignedWellPairs, PairsAlike DEF ExchangeMessage, SignedWell
<1> HIDE DEF signature, input, params
<1>8. \A member : IsSeq(<<member>>) /\ Len(<<member>>) = 1 /\ <<member>>[1] = member
  <2> TAKE member
  <2>1. <<member>> \in Seq({member}) /\ Len(<<member>>) = 1 /\ <<member>>[1] = member
    OBVIOUS
  <2> QED
    BY <2>1, SeqIsSeq
<1>9. Len(signature) \in Nat
  BY <1>7, SeqIsSeq DEF IsSeq
<1>10. ASSUME NEW field, IsSeq(field), Len(field) = Len(signature), NEW member
       PROVE  /\ DOMAIN (field \o <<member>>) = 1..(Len(signature) + 1)
              /\ Len(field \o <<member>>) = Len(signature) + 1
              /\ DOMAIN field = 1..Len(signature)
              /\ \A i \in DOMAIN field : (field \o <<member>>)[i] = field[i]
              /\ (field \o <<member>>)[Len(signature) + 1] = member
  <2>1. IsSeq(<<member>>) /\ Len(<<member>>) = 1 /\ <<member>>[1] = member
    BY <1>8
  <2>2. DOMAIN field = 1..Len(signature)
    BY <1>10, SeqIsSeq DEF IsSeq
  <2>3. /\ DOMAIN (field \o <<member>>) = 1..(Len(field) + 1) /\ Len(field \o <<member>>) = Len(field) + 1
        /\ \A i \in 1..(Len(field) + 1) :
             (field \o <<member>>)[i] = IF i <= Len(field) THEN field[i] ELSE <<member>>[i - Len(field)]
    BY <1>10, <2>1, ConcatIsSeq
  <2>4. (Len(signature) + 1) - Len(field) = 1 /\ ~(Len(signature) + 1 <= Len(field))
    BY <1>9, <1>10
  <2> QED
    BY <1>9, <1>10, <2>1, <2>2, <2>3, <2>4
<1>11. Len(Fields(message').signature) = Len(Fields(message').input)
  BY <1>6, <1>7, <1>10
<1>12. ASSUME NEW i \in DOMAIN signature PROVE SignedAt(signed', message', req, i)
  <2>1. SignedAt(signed', message, req, i)
    BY <1>2, SignedWellGrows DEF SignedWell, signature
  <2>2. /\ i \in DOMAIN input
        /\ Fields(message').signature[i] = signature[i] /\ Fields(message').input[i] = input[i]
    BY <1>6, <1>7, <1>10
  <2>3. /\ SameMember(signature[i], Fields(message').signature[i])
        /\ SameMember(input[i], Fields(message').input[i])
    BY <2>2 DEF SameMember
  <2> QED
    BY <1>5, <2>1, <2>3, SignedAtSame DEF AsksTheSame, signature, input
<1>13. SignedAt(signed', message', req, Len(signature) + 1)
  <2>1. /\ Fields(message').signature[Len(signature) + 1] = Signature(key)
        /\ Fields(message').input[Len(signature) + 1] = SignatureInput(key)
    BY <1>6, <1>7, <1>10
  <2>2. /\ IsEntry(Signature(key)) /\ Signature(key).val = <<"bytes", s>> /\ Signature(key).key = NameOf[key]
        /\ IsEntry(SignatureInput(key)) /\ SignatureInput(key).val = <<"inner", params>>
        /\ SignatureInput(key).key = NameOf[key]
    BY DEF Signature, SignatureInput, Member, IsEntry, params
  <2>3. Signature(key).val[2] = s
    BY <2>2
  <2>4. params.covered = Covered(message.kind)
    BY DEF SenderParams, Covered, params
  <2>5. BaseOk(message, params, req)
    BY <1>1 DEF SetMessageSignatures, AllBasesOk
  <2>6. /\ BaseOk(message', params, req)
        /\ Values(message', params, req) = Values(message, params, req)
    BY <1>5, <2>4, <2>5, SameBase DEF AsksTheSame
  <2> QED
    BY <1>3, <1>4, <1>5, <2>1, <2>2, <2>3, <2>4, <2>6 DEF SignedAt
<1>14. \A i \in DOMAIN Fields(message').signature : i \in DOMAIN signature \/ i = Len(signature) + 1
  BY <1>6, <1>7, <1>9, <1>10
<1> QED
  BY <1>11, <1>12, <1>13, <1>14 DEF SignedWell

LEMMA SignOnePass ==
  ASSUME Interoperable, ExchangeInv, PassInv, SignOne
  PROVE  PassInv'
<1> DEFINE key == Head(hand.keys)
           list == <<[params |-> SenderParams(key), key |-> key, name |-> {NameOf[key]}]>>
           req == hand.req.msg
<1>1. /\ hand.doing = "sign" /\ hand.keys # <<>> /\ SetMessageSignatures(list, req)
      /\ hand' = [hand EXCEPT !.keys = Tail(hand.keys)]
      /\ UNCHANGED <<body, task, arrived, vouched, historyVars>>
  BY DEF SignOne, SignWith
<1>2. DOMAIN hand = {"doing", "keys", "req"} /\ hand.keys \in Seq(Keys) /\ call = NoCall
  BY <1>1 DEF ExchangeInv, HandInv
<1>3. key \in Keys
  BY <1>1, <1>2
<1>4. TypeOK /\ ExchangeMessage(message)
  BY <1>1, MessageInHand
<1>5. PICK l : l = list
  OBVIOUS
<1> HIDE DEF list
<1>6. l = <<[params |-> SenderParams(key), key |-> key, name |-> {NameOf[key]}]>> /\ SetMessageSignatures(l, req)
  BY <1>1, <1>5 DEF list
<1> HIDE DEF key
<1>7. IsSignRequest(l) /\ Len(l) = 1 /\ DOMAIN l = {1} /\ l[1].params = SenderParams(key) /\ l[1].key = key
  BY <1>3, <1>6, PartyRequest
<1>8. /\ IsSeq(signed') /\ Len(signed) \in Nat /\ Len(signed') = Len(signed) + 1
      /\ \A t \in DOMAIN signed : t \in DOMAIN signed' /\ signed'[t] = signed[t]
      /\ \A t \in DOMAIN signed' \ DOMAIN signed :
           t - Len(signed) \in DOMAIN l /\ signed'[t] = Recorded(l, req, t - Len(signed))
  BY <1>4, <1>6, <1>7, HistoryGrows DEF TypeOK
<1>9. call' = NoCall /\ now' = now
  BY <1>1, <1>2 DEF SetMessageSignatures
<1>10. BaseInv' /\ TriedInv'
  <2>1. BaseInv'
    BY <1>4, <1>6, <1>7, SetMessageSignaturesBaseInv DEF PassInv
  <2> QED
    BY <1>9, <2>1 DEF TriedInv, NoCall
<1>11. ParamsInv'
  <2>1. ASSUME NEW t \in DOMAIN signed'
        PROVE  LET params == signed'[t].base.params
               IN  /\ params.expires = {} /\ params.keyid = {KeyIdOf[signed'[t].key]}
                   /\ ParamsOutcome(params) = "ok"
    <3>1. CASE t \in DOMAIN signed
      BY <1>8, <3>1 DEF PassInv, ParamsInv
    <3>2. CASE t \notin DOMAIN signed
      <4>1. signed'[t] = Recorded(l, req, 1)
        BY <1>7, <1>8, <3>2
      <4>2. signed'[t].base.params = SenderParams(key) /\ signed'[t].key = key
        BY <1>7, <4>1, BaseDeterminesValues DEF Recorded
      <4>3. now \in 0..MaxTime /\ Len(signed) + 1 \in 1..MaxSigned
        BY <1>4, <1>6, <1>7, <1>8, BoundAssumption DEF TypeOK, SetMessageSignatures
      <4> QED
        BY <1>3, <4>2, <4>3, SenderParamsRead
    <3> QED
      BY <3>1, <3>2
  <2> QED
    BY <2>1 DEF ParamsInv
<1>12. hand'.doing = "sign" /\ hand'.req = hand.req
  BY <1>1, <1>2
<1>13. MadeInv'
  <2>1. PICK old : old = [msg |-> message, req |-> req]
    OBVIOUS
  <2>2. PICK new : new = [msg |-> message', req |-> req]
    OBVIOUS
  <2>3. old \in Made /\ old.msg = message /\ old.req = req
    BY <1>1, <2>1 DEF Made
  <2>4. Made' \subseteq Made \cup {new} /\ new.msg = message' /\ new.req = req
    BY <1>1, <1>12, <2>2 DEF Made, historyVars
  <2>5. \A m \in Made : SignedWell(signed, m.msg, m.req) /\ SignedWell(signed', m.msg, m.req)
    BY <1>8, SignedWellGrows DEF PassInv, MadeInv
  <2>6. SignedWell(signed', message', req)
    BY <1>3, <1>4, <1>6, <2>3, <2>5, SignedOnWell
  <2> QED
    BY <1>1, <2>4, <2>5, <2>6 DEF PassInv, MadeInv, historyVars
<1>14. SenderInv'
  <2>1. /\ DOMAIN message'.headers = DOMAIN message.headers
        /\ \A f \in DOMAIN message.headers \ SignatureFields : message'.headers[f] = message.headers[f]
    BY <1>4, <1>6, <1>7, SigningLeaves
  <2>2. {"date", "content-type", "content-digest"} \cap SignatureFields = {}
    BY DEF SignatureFields
  <2>3. Fielded(message) => Fielded(message')
    BY <2>1, <2>2 DEF Fielded
  <2>4. \A bytes : HasDigest(message, bytes) => HasDigest(message', bytes)
    BY <1>4, <2>1, <2>2 DEF HasDigest, ExchangeMessage
  <2> QED
    BY <1>1, <1>12, <2>3, <2>4 DEF PassInv, SenderInv
<1>15. (BodyInv /\ KeyInv /\ IntactPasses)'
  BY <1>12 DEF BodyInv, KeyInv, IntactPasses
<1> QED
  BY <1>10, <1>11, <1>13, <1>14, <1>15 DEF PassInv

LEMMA SendPass ==
  ASSUME ExchangeInv, PassInv, Send
  PROVE  PassInv'
<1> DEFINE bytes == Head(body.frames)
<1>1. /\ hand.doing = "sign" /\ hand' = [doing |-> "nothing"]
      /\ UNCHANGED <<signed, call>>
      /\ \/ /\ message.kind = "request" /\ UNCHANGED answered
            /\ asked' = asked \cup {[msg |-> message, bytes |-> bytes]}
         \/ /\ message.kind # "request" /\ UNCHANGED asked
            /\ answered' = answered \cup {[req |-> hand.req, msg |-> message, bytes |-> bytes]}
  BY DEF Send
<1>2. /\ hand.req \in IF message.kind = "request" THEN {NoAsked} ELSE served
      /\ call = NoCall
  BY <1>1 DEF ExchangeInv, HandInv
<1>3. bytes \in Bodies /\ HasDigest(message, bytes) /\ Fielded(message)
  BY <1>1 DEF PassInv, SenderInv, D!Full
<1> HIDE DEF bytes
<1>4. PICK inHand : inHand = [msg |-> message, req |-> hand.req.msg]
  OBVIOUS
<1>5. inHand \in Made /\ inHand.msg = message /\ inHand.req = hand.req.msg
  BY <1>1, <1>4 DEF Made
<1>6. MadeInv
  BY DEF PassInv
<1>7. ASSUME message.kind = "request" PROVE MadeInv'
  <2>1. PICK new : new = [msg |-> message, bytes |-> bytes]
    OBVIOUS
  <2>2. new.msg = message /\ new.bytes = bytes /\ asked' = asked \cup {new} /\ answered' = answered
    BY <1>1, <1>7, <2>1
  <2>3. hand.req.msg = NoRequest
    BY <1>2, <1>7 DEF NoAsked
  <2>4. Made' \subseteq Made
    BY <1>1, <1>4, <1>5, <2>2, <2>3 DEF Made
  <2> QED
    BY <1>1, <1>3, <1>6, <2>2, <2>4 DEF MadeInv
<1>8. ASSUME message.kind # "request" PROVE MadeInv'
  <2>1. PICK new : new = [req |-> hand.req, msg |-> message, bytes |-> bytes]
    OBVIOUS
  <2>2. /\ new.msg = message /\ new.bytes = bytes /\ new.req = hand.req
        /\ answered' = answered \cup {new} /\ asked' = asked
    BY <1>1, <1>8, <2>1
  <2>3. Made' \subseteq Made
    BY <1>1, <1>4, <1>5, <2>2 DEF Made
  <2> QED
    BY <1>1, <1>3, <1>6, <2>2, <2>3 DEF MadeInv
<1>9. MadeInv'
  BY <1>6, <1>7, <1>8
<1>10. (SenderInv /\ BodyInv /\ KeyInv /\ IntactPasses)'
  BY <1>1 DEF SenderInv, BodyInv, KeyInv, IntactPasses
<1> QED
  BY <1>1, <1>2, <1>9, <1>10, IdleStep DEF PassInv

LEMMA TakenPass ==
  ASSUME Interoperable, ExchangeInv, PassInv, Free, NEW sent, ExchangeMessage(sent.msg),
         Fielded(sent.msg), sent.bytes \in Bodies, HasDigest(sent.msg, sent.bytes),
         NEW by, SignedWell(signed, sent.msg, by), NEW key \in Keys, NEW req, NEW intact,
         intact => AsksTheSame(by, req.msg),
         NEW delivery \in Unharmed(sent) \cup Harmed(sent), Take(delivery, key, req, intact)
  PROVE  PassInv'
<1>1. /\ message' = delivery.msg /\ body' = delivery.body /\ hand.doing = "nothing"
      /\ hand' = [doing |-> "verify", key |-> key, req |-> req,
                  intact |-> delivery.intact /\ intact /\ Carries(delivery.msg, key)]
      /\ UNCHANGED <<signed, call, task, historyVars>>
  BY DEF Take, Free
<1>2. call = NoCall /\ task.status = "none"
  BY <1>1 DEF ExchangeInv, HandInv, D!NoTask
<1>3. /\ hand'.doing = "verify" /\ hand'.key = key /\ hand'.req = req
      /\ hand'.intact <=> delivery.intact /\ intact /\ Carries(delivery.msg, key)
  BY <1>1
<1>4. MadeInv'
  BY <1>1, <1>3, MadeStep DEF Made, historyVars
<1>5. ASSUME hand'.intact
      PROVE  HasDigest(message', sent.bytes) /\ SignedWell(signed, message', req.msg) /\ Reads(sent.bytes)'
  <2>1. delivery \in Unharmed(sent)
    <3>1. \A d \in Harmed(sent) : d.intact = FALSE
      BY DEF Harmed
    <3> QED
      BY <1>3, <1>5, <3>1
  <2>2. PICK msg \in {sent.msg} \cup Merged(sent.msg), frames \in Chunkings(sent.bytes) :
          delivery = [msg |-> msg, body |-> Whole(frames), intact |-> TRUE]
    BY <2>1 DEF Unharmed
  <2>3. message' = msg /\ body' = Whole(frames)
    BY <1>1, <2>2
  <2>4. Resembles(sent.msg, msg)
    BY UnharmedResembles
  <2>5. HasDigest(msg, sent.bytes)
    BY <2>4 DEF Resembles
  <2>6. SignedWell(signed, msg, req.msg)
    BY <1>3, <1>5, <2>4, SignedWellDelivered
  <2>7. Left(frames, <<>>, sent.bytes)
    BY ChunksLeft DEF Interoperable
  <2>8. Reads(sent.bytes)'
    BY <1>1, <1>2, <2>3, <2>7 DEF Reads, Got, Whole
  <2> QED
    BY <2>3, <2>5, <2>6, <2>8
<1>6. BodyInv'
  BY <1>1, <1>2, <1>5 DEF BodyInv
<1>7. KeyInv'
  BY <1>1, <1>2, <1>3, <1>5 DEF KeyInv
<1>8. (SenderInv /\ IntactPasses)'
  BY <1>3 DEF SenderInv, IntactPasses
<1> QED
  BY <1>1, <1>2, <1>4, <1>6, <1>7, <1>8, IdleStep DEF PassInv

(* A request of the same question has the values that a response signs.     *)
LEMMA SameQuestion ==
  ASSUME ExchangeInv, PassInv, NEW old \in served, NEW new \in asked,
         AskedQuestion(new) = AskedQuestion(old)
  PROVE  AsksTheSame(old.msg, new.msg)
<1>1. /\ Digested(old.msg, old.bytes) /\ Digested(new.msg, new.bytes)
      /\ ExchangeMessage(new.msg) /\ new.msg.kind = "request"
  BY DEF ExchangeInv, SentInv
<1>2. HasDigest(new.msg, new.bytes)
  BY DEF PassInv, MadeInv
<1>3. MethodValue(new.msg) = MethodValue(old.msg) /\ new.bytes = old.bytes
  BY QuestionValues DEF AskedQuestion
<1>4. FieldValue(new.msg, "content-digest") = FieldValue(old.msg, "content-digest")
  BY <1>1, <1>3 DEF Digested
<1>5. IsText(FieldOf(new.msg.headers, "content-digest"))
  BY <1>1, <1>2, DigestText
<1> QED
  BY <1>1, <1>3, <1>4, <1>5 DEF AsksTheSame

LEMMA TakePass ==
  ASSUME Interoperable, ExchangeInv, PassInv, TakeRequest \/ TakeResponse
  PROVE  PassInv'
<1>1. SentInv /\ MadeInv
  BY DEF ExchangeInv, PassInv
<1>2. CASE TakeRequest
  <2>1. PICK sent \in asked, key \in Keys : \E delivery \in Unharmed(sent) \cup Harmed(sent) :
          Free /\ Take(delivery, key, NoAsked, TRUE)
    BY <1>2 DEF TakeRequest
  <2>2. ExchangeMessage(sent.msg) /\ Fielded(sent.msg) /\ sent.bytes \in Bodies /\ HasDigest(sent.msg, sent.bytes)
    BY <1>1 DEF SentInv, MadeInv
  <2>3. SignedWell(signed, sent.msg, NoRequest)
    <3>1. PICK m : m = [msg |-> sent.msg, req |-> NoRequest]
      OBVIOUS
    <3>2. m \in Made /\ m.msg = sent.msg /\ m.req = NoRequest
      BY <3>1 DEF Made
    <3> QED
      BY <1>1, <3>2 DEF MadeInv
  <2>4. AsksTheSame(NoRequest, NoAsked.msg)
    BY DEF AsksTheSame, NoAsked
  <2> QED
    BY <2>1, <2>2, <2>3, <2>4, TakenPass
<1>3. CASE TakeResponse
  <2>1. PICK sent \in answered, key \in Keys, req \in asked :
          \E delivery \in Unharmed(sent) \cup Harmed(sent) :
          Free /\ Take(delivery, key, req, AskedQuestion(req) = AskedQuestion(sent.req))
    BY <1>3 DEF TakeResponse
  <2>2. /\ ExchangeMessage(sent.msg) /\ Fielded(sent.msg) /\ sent.bytes \in Bodies
        /\ HasDigest(sent.msg, sent.bytes) /\ sent.req \in served
    BY <1>1 DEF SentInv, MadeInv
  <2>3. SignedWell(signed, sent.msg, sent.req.msg)
    <3>1. PICK m : m = [msg |-> sent.msg, req |-> sent.req.msg]
      OBVIOUS
    <3>2. m \in Made /\ m.msg = sent.msg /\ m.req = sent.req.msg
      BY <3>1 DEF Made
    <3> QED
      BY <1>1, <3>2 DEF MadeInv
  <2>4. AskedQuestion(req) = AskedQuestion(sent.req) => AsksTheSame(sent.req.msg, req.msg)
    BY <2>2, SameQuestion
  <2> QED
    BY <2>1, <2>2, <2>3, <2>4, TakenPass
<1> QED
  BY <1>2, <1>3

(* A message that is put down takes nothing with it.                        *)
LEMMA PutDownPass ==
  ASSUME ExchangeInv, PassInv, Accept \/ LetGo
  PROVE  PassInv'
<1>1. /\ hand.doing # "verify" /\ hand' = [doing |-> "nothing"]
      /\ UNCHANGED <<signed, call, asked, answered>>
  BY DEF Accept, LetGo, historyVars
<1>2. call = NoCall
  BY <1>1 DEF ExchangeInv, HandInv
<1>3. MadeInv'
  BY <1>1, MadeStep DEF Made
<1>4. (SenderInv /\ BodyInv /\ KeyInv /\ IntactPasses)'
  BY <1>1 DEF SenderInv, BodyInv, KeyInv, IntactPasses
<1> QED
  BY <1>1, <1>2, <1>3, <1>4, IdleStep DEF PassInv

(* The one digest of a message is what its verification expects.            *)
LEMMA DigestFound ==
  ASSUME NEW msg, NEW bytes, HasDigest(msg, bytes)
  PROVE  D!ExtractContentDigest(msg) =
           {[alg |-> "sha-256", digest |-> D!DeriveDigest("sha-256", bytes)]}
<1>1. PICK member : member = Member("entry", "sha-256", D!DeriveDigest("sha-256", bytes))
  OBVIOUS
<1>2. /\ member.form = "entry" /\ member.key = "sha-256"
      /\ member.val = D!DeriveDigest("sha-256", bytes) /\ member.val[1] = "bytes"
  BY <1>1 DEF Member, D!DeriveDigest
<1>3. PICK field : field = DigestLine(bytes)
  OBVIOUS
<1>4. msg.headers[D!CONTENT_DIGEST_HEADER] = field /\ DOMAIN field = {1} /\ field[1] = member
  <2>1. DOMAIN <<member>> = {1} /\ <<member>>[1] = member
    OBVIOUS
  <2> QED
    BY <1>1, <1>3, <2>1 DEF DigestLine, HasDigest, D!CONTENT_DIGEST_HEADER
<1>5. D!FirstLine(field) = {1}
  BY <1>4 DEF D!FirstLine, D!SameLine
<1> QED
  BY <1>2, <1>4, <1>5 DEF D!ExtractContentDigest, D!ContentDigestType

LEMMA VerifyBodyPass ==
  ASSUME ExchangeInv, PassInv, VerifyBody
  PROVE  PassInv'
<1>1. /\ hand.doing = "body" /\ UNCHANGED <<signed, call, historyVars>>
      /\ hand' = IF task'.status = "err" THEN Rejected ELSE hand
      /\ call = NoCall /\ DOMAIN hand = {"doing", "key", "req", "intact"}
      /\ task = D!NoTask \/ IsTask("verify")
  BY DEF VerifyBody, ExchangeInv, HandInv, TaskInv
<1>2. hand'.doing \in {"body", "rejected"} /\ hand'.intact = hand.intact
  BY <1>1 DEF Rejected
<1>3. MadeInv'
  BY <1>1, <1>2, MadeStep DEF Made, historyVars
<1>4. (SenderInv /\ KeyInv)'
  BY <1>2 DEF SenderInv, KeyInv
<1>5. CASE ~hand.intact
  <2>1. (BodyInv /\ IntactPasses)'
    BY <1>2, <1>5 DEF BodyInv, IntactPasses
  <2> QED
    BY <1>1, <1>3, <1>4, <2>1, IdleStep DEF PassInv
<1>6. CASE hand.intact
  <2>1. PICK bytes \in Bodies :
          /\ HasDigest(message, bytes)
          /\ task.status # "done" => Reads(bytes)
          /\ task.status = "running" =>
               task.alg = "sha-256" /\ task.expected = {D!DeriveDigest("sha-256", bytes)}
    BY <1>1, <1>6 DEF PassInv, BodyInv
  <2>2. ASSUME message' = message, task'.status # "err", task'.status # "done" => Reads(bytes)',
               task'.status = "running" =>
                 task'.alg = "sha-256" /\ task'.expected = {D!DeriveDigest("sha-256", bytes)}
        PROVE  PassInv'
    <3>1. hand'.doing = "body"
      BY <1>1, <2>2
    <3>2. IntactPasses' /\ BodyInv'
      BY <2>1, <2>2, <3>1 DEF IntactPasses, BodyInv
    <3> QED
      BY <1>1, <1>3, <1>4, <3>2, IdleStep DEF PassInv
  <2>3. CASE D!BeginVerifyDigest
    <3>1. task.status = "none"
      BY <2>3 DEF D!BeginVerifyDigest
    <3>2. PICK found \in D!ExtractContentDigest(message) :
            task' = D!Running("verify", found.alg, {found.digest}) /\ UNCHANGED <<message, body>>
      BY <2>1, <2>3, DigestFound DEF D!BeginVerifyDigest
    <3>3. found.alg = "sha-256" /\ found.digest = D!DeriveDigest("sha-256", bytes)
      BY <2>1, <3>2, DigestFound
    <3>4. /\ task'.status = "running" /\ task'.got = <<>> /\ task'.alg = "sha-256"
          /\ task'.expected = {D!DeriveDigest("sha-256", bytes)}
      BY <3>2, <3>3 DEF D!Running
    <3>5. Reads(bytes)'
      BY <2>1, <3>1, <3>2, <3>4 DEF Reads, Got
    <3> QED
      BY <2>2, <3>2, <3>4, <3>5
  <2>4. CASE D!Collect
    <3>1. /\ IsTask("verify") /\ task.status = "running" /\ message' = message /\ body.frames # <<>>
          /\ task' = [task EXCEPT !.got = task.got \o Head(body.frames)]
          /\ body' = [body EXCEPT !.frames = Tail(body.frames)]
      BY <1>1, <2>4 DEF D!Collect, D!NoTask
    <3>2. /\ task'.status = "running" /\ task'.got = task.got \o Head(body.frames)
          /\ task'.alg = task.alg /\ task'.expected = task.expected
      BY <3>1 DEF IsTask
    <3>3. /\ DOMAIN body = {"frames", "end", "trailers"} /\ body.end = "closed"
          /\ Left(body.frames, task.got, bytes)
      BY <2>1, <3>1 DEF Reads, Got
    <3>4. Left(Tail(body.frames), task'.got, bytes)
      BY <3>1, <3>2, <3>3, ReadOn
    <3>5. DOMAIN body' = DOMAIN body /\ body'.end = "closed" /\ body'.frames = Tail(body.frames)
      BY <3>1, <3>3
    <3>6. Reads(bytes)'
      BY <3>2, <3>3, <3>4, <3>5 DEF Reads, Got
    <3> QED
      BY <2>1, <2>2, <3>1, <3>2, <3>6
  <2>5. CASE D!BodyFails
    <3>1. task.status = "running" /\ body.end = "failed"
      BY <2>5 DEF D!BodyFails
    <3> QED
      BY <2>1, <3>1 DEF Reads
  <2>6. CASE D!FinishVerify
    <3>1. IsTask("verify") /\ task.status = "running" /\ body.frames = <<>>
      BY <1>1, <2>6 DEF D!FinishVerify, D!Collected, D!NoTask
    <3>2. task.got = bytes
      BY <2>1, <3>1, NothingLeft DEF Reads, Got
    <3>3. \E d \in task.expected : D!IsEqualDigest(D!DeriveDigest(task.alg, task.got), d)
      BY <2>1, <3>1, <3>2 DEF D!IsEqualDigest
    <3>4. message' = message /\ task' = [task EXCEPT !.status = "done"]
      BY <2>6, <3>3 DEF D!FinishVerify
    <3>5. task'.status = "done"
      BY <3>1, <3>4 DEF IsTask
    <3> QED
      BY <2>2, <3>4, <3>5
  <2> QED
    BY <2>3, <2>4, <2>5, <2>6 DEF VerifyBody
<1> QED
  BY <1>5, <1>6

(* The headers of a message that was signed well are read whole.            *)
LEMMA SignedWellReads ==
  ASSUME ExchangeMessage(message), ParamsInv, NEW req, SignedWell(signed, message, req),
         NEW key, Carries(message, key)
  PROVE  HeadersOutcome(message) = "ok"
<1> DEFINE signature == Fields(message).signature
           input == Fields(message).input
<1>1. Pairs(message.headers, signed) /\ IsMessage(message)
  BY SignedWellPairs DEF ExchangeMessage
<1>2. DOMAIN input = DOMAIN signature
  BY <1>1, PairsAlike
<1>3. signature # <<>>
  BY EmptyIsSeq DEF Carries, Fields
<1>4. \A i \in DOMAIN signature : SignedAt(signed, message, req, i)
  BY DEF SignedWell
<1>5. IsDictionary(signature) /\ IsDictionary(input)
  BY <1>2, <1>4 DEF IsDictionary, SignedAt, IsEntry
<1>6. ASSUME NEW i \in DOMAIN signature PROVE Legible(message, i)
  <2> DEFINE s == signature[i].val[2]
  <2>1. /\ signature[i].val = <<"bytes", s>> /\ s \in DOMAIN signed
        /\ input[i].val = <<"inner", signed[s].base.params>>
    BY <1>4 DEF SignedAt
  <2>2. ParamsOutcome(signed[s].base.params) = "ok"
    BY <2>1 DEF ParamsInv
  <2> QED
    BY <2>1, <2>2 DEF Legible
<1>7. Acceptable(message)
  BY <1>3, <1>5, <1>6 DEF Acceptable, IsLastOf
<1> QED
  BY <1>1, <1>7, HeadersAccepted

(* No signature in such a message is of a length that a verifier panics at. *)
LEMMA NoPanic ==
  ASSUME Interoperable, ExchangeInv, PassInv, hand.doing = "verify", hand.intact, call # NoCall,
         NEW e \in DOMAIN call.entries
  PROVE  CheckOutcome(call.keys[1].key, call.entries[e]) # "panic"
<1> DEFINE entry == call.entries[e]
           key == call.keys[1].key
<1>1. /\ key \in Keys /\ SignedWell(signed, message, hand.req.msg) /\ call.status \in {"running", "done"}
      /\ TriedInv
  BY DEF PassInv, KeyInv
<1>2. call.entries = ExtractSignatures(message, call.req)
  BY <1>1 DEF TriedInv
<1>3. IsMessage(message) /\ Pairs(message.headers, signed)
  BY <1>1, MessageInHand, SignedWellPairs DEF TypeOK
<1>4. PICK m, name : /\ IsLastOf(Fields(message).signature, m, name)
                     /\ entry.sig = Fields(message).signature[m].val[2]
  BY <1>2, <1>3, EntryStands
<1>5. entry.sig \in DOMAIN signed
  <2>1. SignedAt(signed, message, hand.req.msg, m)
    BY <1>1, <1>4 DEF SignedWell, IsLastOf
  <2> QED
    BY <1>4, <2>1 DEF SignedAt
<1>6. LengthOf(entry.sig) = SignatureLength(KeyAlg[signed[entry.sig].key]) /\ signed[entry.sig].key \in Keys
  BY <1>5 DEF LengthOf, ExchangeInv, ExchangeTypes
<1>7. KeyAlg[key] \in EcdsaAlgorithm => LengthOf(entry.sig) = SignatureLength(KeyAlg[key])
  BY <1>1, <1>6 DEF Interoperable
<1> HIDE DEF entry, key
<1>8. \A genuine : VerifyOutcome(KeyAlg[key], genuine, LengthOf(entry.sig)) # "panic"
  BY <1>7 DEF VerifyOutcome
<1>9. CheckOutcome(key, entry) # "panic"
  BY <1>8 DEF CheckOutcome
<1> QED
  BY <1>9 DEF entry, key

(* The signature of the key it is verified with is found, and verifies.     *)
LEMMA IntactVerifies ==
  ASSUME Interoperable, ExchangeInv, PassInv, hand.doing = "verify", hand.intact, call # NoCall,
         call.status = "done"
  PROVE  call.results[1].ok
<1> SUFFICES ASSUME ~call.results[1].ok PROVE FALSE
  OBVIOUS
<1> DEFINE signature == Fields(message).signature
           input == Fields(message).input
           key == hand.key
           req == hand.req.msg
<1>1. /\ key \in Keys /\ SignedWell(signed, message, req) /\ Carries(message, key)
      /\ call.keys[1].key = key /\ call.keys[1].keyid \in {{}, {KeyIdOf[key]}}
      /\ BaseInv /\ TriedInv /\ ParamsInv
  BY DEF PassInv, KeyInv
<1>2. TypeOK /\ IsMessage(message) /\ IsCall(call) /\ call.req = req /\ Len(call.results) = 1
  BY MessageInHand DEF TypeOK, ExchangeInv, EntriesInv
<1>3. 1 \in DOMAIN call.results
  BY <1>2, SeqIsSeq DEF IsCall, IsSeq
<1>4. Pairs(message.headers, signed) /\ IsSeq(signature)
  BY <1>1, <1>2, SignedWellPairs, PairsAlike
<1>5. PICK i \in DOMAIN signature : signature[i].key = NameOf[key]
  BY <1>1 DEF Carries, Fields
<1>6. PICK m \in DOMAIN signature : IsLastOf(signature, m, NameOf[key])
  <2> HIDE DEF signature
  <2> QED
    BY <1>4, <1>5, LastOfKey
<1> DEFINE s == signature[m].val[2]
           params == signed[s].base.params
<1>7. /\ s \in DOMAIN signed /\ input[m].val = <<"inner", params>>
      /\ signature[m].key = NameOf[signed[s].key] /\ BaseOk(message, params, req)
      /\ signed[s].values = Values(message, params, req)
  BY <1>1 DEF SignedWell, SignedAt
<1>8. signed[s].key = key
  <2>1. NameOf[signed[s].key] = NameOf[key]
    BY <1>6, <1>7 DEF IsLastOf
  <2>2. signed[s].key \in Keys
    BY <1>7 DEF ExchangeInv, ExchangeTypes
  <2> QED
    BY <1>1, <2>1, <2>2 DEF Interoperable
<1>9. input[m].val[2] = params /\ BaseOk(message, input[m].val[2], req)
  BY <1>7
<1>10. PICK e \in DOMAIN ExtractSignatures(message, req) :
         /\ ExtractSignatures(message, req)[e].sig = s
         /\ ExtractSignatures(message, req)[e].params = params
  <2> HIDE DEF s, params, req, key
  <2>1. /\ IsMessage(message) /\ Pairs(message.headers, signed)
        /\ IsLastOf(Fields(message).signature, m, NameOf[key])
        /\ BaseOk(message, Fields(message).input[m].val[2], req)
    BY <1>2, <1>4, <1>6, <1>9
  <2>2. PICK e \in DOMAIN ExtractSignatures(message, req) :
          /\ ExtractSignatures(message, req)[e].sig = Fields(message).signature[m].val[2]
          /\ ExtractSignatures(message, req)[e].params = Fields(message).input[m].val[2]
    BY <2>1, EntryIsRead
  <2> QED
    BY <1>9, <2>2 DEF s
<1>11. call.entries = ExtractSignatures(message, req)
  BY <1>1, <1>2 DEF TriedInv
<1>12. signed[s].base = SignatureBase(message, params, req)
  BY <1>1, <1>7, ValuesDetermineBase DEF BaseInv
<1>13. params.keyid = {KeyIdOf[key]} /\ params.expires = {}
  BY <1>1, <1>7, <1>8 DEF ParamsInv
<1> HIDE DEF params, s
<1>14. e \in DOMAIN call.entries /\ call.entries[e].sig = s /\ call.entries[e].params = params
  BY <1>10, <1>11
<1>15. Deserves(1, call.entries[e])
  <2>1. IsCandidate(call.keys[1].keyid, call.entries[e])
    BY <1>1, <1>13, <1>14 DEF IsCandidate
  <2>2. Genuine(call.keys[1].key, s, SignatureBase(message, params, call.req))
    BY <1>1, <1>2, <1>7, <1>8, <1>12 DEF Genuine, s
  <2>3. ~PastExpiry(params, now)
    BY <1>13 DEF PastExpiry
  <2> QED
    BY <1>14, <2>1, <2>2, <2>3 DEF Deserves
<1> QED
  BY <1>1, <1>3, <1>14, <1>15 DEF TriedInv

LEMMA VerifySignaturePass ==
  ASSUME Interoperable, ExchangeInv, PassInv, VerifySignature
  PROVE  PassInv'
<1>1. /\ hand.doing = "verify" /\ UNCHANGED <<body, task, arrived, vouched, historyVars>>
      /\ DOMAIN hand = {"doing", "key", "req", "intact"}
      /\ TypeOK /\ ExchangeMessage(message) /\ BaseInv /\ TriedInv /\ EntriesInv
  BY MessageInHand DEF VerifySignature, ExchangeInv, HandInv, PassInv
<1>2. /\ UNCHANGED <<message, signed>>
      /\ \/ hand' = hand
         \/ hand' = [hand EXCEPT !.doing = "body"]
         \/ hand' = Rejected
  BY DEF VerifySignature, BeginVerify, CheckSignature, FinishKey, Return
<1>3. hand'.doing \in {"verify", "body", "rejected"} /\ hand'.intact = hand.intact
  BY <1>1, <1>2 DEF Rejected
<1>4. (BaseInv /\ ParamsInv /\ SenderInv /\ BodyInv)'
  <2>1. (BaseInv /\ ParamsInv)'
    BY <1>1, <1>2 DEF PassInv, BaseInv, ParamsInv
  <2>2. SenderInv' /\ BodyInv'
    BY <1>1, <1>2, <1>3 DEF PassInv, SenderInv, BodyInv, Reads, Got
  <2> QED
    BY <2>1, <2>2
<1>5. MadeInv'
  BY <1>1, <1>2, <1>3, MadeStep DEF Made, historyVars
<1>6. ASSUME NEW keyid \in {{}, {KeyIdOf[hand.key]}},
             BeginVerify(<<[key |-> hand.key, keyid |-> keyid]>>, hand.req.msg), hand' = hand
      PROVE  PassInv'
  <2>1. PICK keys : keys = <<[key |-> hand.key, keyid |-> keyid]>>
    OBVIOUS
  <2>2. BeginVerify(keys, hand.req.msg) /\ keys # <<>> /\ keys[1].key = hand.key /\ keys[1].keyid = keyid
    <3>1. PICK item : item = [key |-> hand.key, keyid |-> keyid]
      OBVIOUS
    <3>2. <<item>> # <<>> /\ <<item>>[1] = item
      OBVIOUS
    <3> QED
      BY <1>6, <2>1, <3>1, <3>2
  <2>3. TriedInv'
    BY <1>1, <2>2, BeginVerifyTried
  <2>4. ASSUME hand.intact PROVE KeyInv'
    <3>1. /\ hand.key \in Keys /\ Carries(message, hand.key)
          /\ SignedWell(signed, message, hand.req.msg)
      BY <1>1, <2>4 DEF PassInv, KeyInv
    <3>2. HeadersOutcome(message) = "ok"
      BY <1>1, <3>1, SignedWellReads DEF PassInv
    <3>3. call'.status = "running" /\ call'.keys = keys
      BY <2>2, <3>2 DEF BeginVerify
    <3> QED
      BY <1>1, <1>2, <1>6, <2>2, <3>1, <3>3 DEF KeyInv
  <2>5. KeyInv' /\ IntactPasses'
    BY <1>1, <1>6, <2>4 DEF KeyInv, IntactPasses
  <2> QED
    BY <1>4, <1>5, <2>3, <2>5 DEF PassInv
<1>7. ASSUME CheckSignature \/ FinishKey, hand' = hand
      PROVE  PassInv'
  <2>1. IsCall(call) /\ call # NoCall /\ call.status = "running"
    BY <1>1, <1>7 DEF TypeOK, CheckSignature, FinishKey, NoCall
  <2>2. TriedInv'
    BY <1>1, <1>7, CheckSignatureTried, FinishKeyTried
  <2>3. call'.keys = call.keys
    BY <1>7, <2>1 DEF CheckSignature, FinishKey, IsCall
  <2>4. ASSUME hand.intact PROVE call'.status \in {"running", "done"}
    <3>1. CASE FinishKey
      BY <2>1, <3>1 DEF FinishKey, IsCall
    <3>2. CASE CheckSignature
      <4> DEFINE entry == call.entries[call.next]
                 outcome == IF IsCandidate(Current.keyid, entry) THEN CheckOutcome(Current.key, entry)
                            ELSE "skipped"
      <4>1. call.next \in DOMAIN call.entries
        BY <3>2 DEF CheckSignature
      <4>2. Current = call.keys[1]
        <5>1. Len(call.keys) = 1 /\ Len(call.results) < 1 /\ Len(call.results) \in Nat
          BY <1>1, <2>1, SeqIsSeq DEF EntriesInv, IsCall, IsSeq
        <5>2. Len(call.results) + 1 = 1
          BY <5>1
        <5> QED
          BY <5>2 DEF Current
      <4>3. CheckOutcome(Current.key, entry) # "panic"
        BY <1>1, <2>1, <2>4, <4>1, <4>2, NoPanic
      <4>4. outcome # "panic"
        BY <4>3
      <4>5. call'.status = IF outcome = "panic" THEN "panic" ELSE call.status
        BY <2>1, <3>2 DEF CheckSignature, IsCall
      <4> QED
        BY <2>1, <4>4, <4>5
    <3> QED
      BY <1>7, <3>1, <3>2
  <2>5. KeyInv' /\ IntactPasses'
    BY <1>1, <1>2, <1>7, <2>1, <2>3, <2>4 DEF PassInv, KeyInv, IntactPasses
  <2> QED
    BY <1>4, <1>5, <2>2, <2>5 DEF PassInv
<1>8. ASSUME Return, hand' = IF call.status = "done" /\ call.results[1].ok
                             THEN [hand EXCEPT !.doing = "body"] ELSE Rejected
      PROVE  PassInv'
  <2>1. call' = NoCall /\ call # NoCall /\ call.status \in {"done", "err", "panic"}
    BY <1>8 DEF Return, NoCall
  <2>2. hand.intact => call.status = "done" /\ call.results[1].ok
    BY <1>1, <2>1, IntactVerifies DEF PassInv, KeyInv
  <2>3. KeyInv' /\ IntactPasses'
    BY <1>1, <1>3, <1>8, <2>2 DEF KeyInv, IntactPasses, Rejected
  <2>4. TriedInv'
    BY <2>1 DEF TriedInv, NoCall
  <2> QED
    BY <1>4, <1>5, <2>3, <2>4 DEF PassInv
<1> QED
  BY <1>6, <1>7, <1>8 DEF VerifySignature

LEMMA PassInvInit == ExchangeInit => PassInv
<1> SUFFICES ASSUME ExchangeInit PROVE PassInv
  OBVIOUS
<1>1. /\ signed = <<>> /\ call = NoCall /\ hand.doing = "nothing" /\ asked = {} /\ answered = {}
  BY DEF ExchangeInit
<1>2. BaseInv /\ TriedInv /\ ParamsInv
  BY <1>1, EmptyIsSeq DEF BaseInv, TriedInv, ParamsInv, NoCall
<1>3. MadeInv
  BY <1>1 DEF MadeInv, Made
<1>4. SenderInv /\ BodyInv /\ KeyInv /\ IntactPasses
  BY <1>1 DEF SenderInv, BodyInv, KeyInv, IntactPasses
<1> QED
  BY <1>2, <1>3, <1>4 DEF PassInv

LEMMA PassInvStep ==
  ASSUME Interoperable, ExchangeInv, PassInv, [ExchangeNext]_allVars
  PROVE  PassInv'
<1>1. CASE UNCHANGED allVars
  <2>1. UNCHANGED <<now, message, signed, call, body, task, hand, asked, served, answered>>
    BY <1>1 DEF allVars, vars, handVars, historyVars
  <2>2. (BaseInv /\ ParamsInv)' /\ TriedInv'
    BY <2>1 DEF PassInv, BaseInv, ParamsInv, TriedInv, Deserves, Genuine
  <2>3. MadeInv'
    BY <2>1, MadeStep DEF Made
  <2>4. SenderInv' /\ BodyInv'
    BY <2>1 DEF PassInv, SenderInv, BodyInv, Reads, Got
  <2>5. KeyInv' /\ IntactPasses'
    BY <2>1 DEF PassInv, KeyInv, IntactPasses
  <2> QED
    BY <2>2, <2>3, <2>4, <2>5 DEF PassInv
<1>2. ASSUME BuildRequest \/ BuildResponse PROVE PassInv'
  <2>1. PICK content \in RequestContents \cup ResponseContents, bytes \in Bodies,
             keys \in ClientKeys \cup ServerKeys, req \in {NoAsked} \cup served :
          Build(content, bytes, keys, req)
    BY <1>2 DEF BuildRequest, BuildResponse
  <2> QED
    BY <2>1, BuiltPass
<1> QED
  BY <1>1, <1>2, TakePass, SetDigestPass, SignOnePass, SendPass, VerifySignaturePass,
     VerifyBodyPass, PutDownPass
  DEF ExchangeNext, Parties

(* What is delivered as it was sent passes, whatever its frames, its line   *)
(* breaks, the digest its sender found in it and the other signatures it    *)
(* carries: between parties that settled what Interoperable says, nothing   *)
(* rejects it but a change on the way.                                      *)
THEOREM IntactAlwaysPasses ==
  ASSUME Interoperable
  PROVE  ExchangeSpec => []IntactPasses
<1>1. ExchangeInit => ExchangeInv /\ PassInv
  BY ExchangeInvInit, PassInvInit
<1>2. (ExchangeInv /\ PassInv) /\ [ExchangeNext]_allVars => (ExchangeInv /\ PassInv)'
  BY ExchangeInvStep, PassInvStep
<1>3. ExchangeInv /\ PassInv => IntactPasses
  BY DEF PassInv
<1> QED
  BY <1>1, <1>2, <1>3, PTL DEF ExchangeSpec
=============================================================================
