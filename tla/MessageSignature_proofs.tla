----------------------- MODULE MessageSignature_proofs ------------------------
(***************************************************************************)
(* Theorems about MessageSignature, for every value of its constants.       *)
(***************************************************************************)
EXTENDS MessageSignature, ComponentsFacts

(* A prefix of the list is appended, by both headers alike.                 *)
LEMMA AppendedBound ==
  ASSUME NEW list, IsSeq(list)
  PROVE  Appended(list) \in 0..Len(list)
<1>1. Len(list) \in Nat /\ DOMAIN list = 1..Len(list)
  BY SeqIsSeq DEF IsSeq
<1> DEFINE refused == {i \in DOMAIN list : InputValue(list[i]).form = "opaque"}
<1>2. CASE refused = {}
  BY <1>1, <1>2 DEF Appended
<1>3. CASE refused # {}
  <2>1. refused \subseteq Nat
    BY <1>1
  <2> DEFINE m == CHOOSE i \in refused : \A j \in refused : i <= j
  <2>2. m \in refused
    <3> HIDE DEF refused
    <3> QED
      BY <1>3, <2>1, LeastElement
  <2>3. m \in 1..Len(list)
    BY <1>1, <2>2
  <2>4. Appended(list) = m - 1
    BY <1>3 DEF Appended
  <2> QED
    BY <1>1, <2>3, <2>4
<1> QED
  BY <1>2, <1>3
-----------------------------------------------------------------------------
(* Parsing the two headers succeeds, returns an error or panics: nothing    *)
(* else, whatever the headers hold.                                         *)
LEMMA IdOutcomes ==
  ASSUME NEW id
  PROVE  IdOutcome(id) \in {"ok", "err", "panic"}
BY DEF IdOutcome

LEMMA ParamsOutcomes ==
  ASSUME NEW params
  PROVE  ParamsOutcome(params) \in {"ok", "err", "panic"}
BY IdOutcomes DEF ParamsOutcome

LEMMA HeadersOutcomes ==
  ASSUME NEW msg
  PROVE  HeadersOutcome(msg) \in {"ok", "err", "panic"}
<1>1. \A s, t : TryParseOutcome(s, t) \in {"ok", "err", "panic"}
  BY ParamsOutcomes DEF TryParseOutcome
<1> QED
  BY <1>1 DEF HeadersOutcome

-----------------------------------------------------------------------------
(* Type correctness                                                         *)

(* A message keeps its shape when its two signature fields are replaced by  *)
(* sequences.                                                               *)
LEMMA MessageIsMessage ==
  ASSUME NEW m, IsMessage(m),
         NEW h, SignatureFields \subseteq DOMAIN h,
         \A f \in SignatureFields : IsSeq(h[f])
  PROVE  IsMessage([m EXCEPT !.headers = h])
BY DEF IsMessage

(* What set_message_signatures is called with, and what it records of it.   *)
IsSignRequest(list) ==
  /\ IsSeq(list)
  /\ \A i \in DOMAIN list : list[i].key \in Keys /\ IsParams(list[i].params)

Recorded(list, req, i) ==
  [key |-> list[i].key, name |-> SignatureName(list[i].name),
   base |-> SignatureBase(message, list[i].params, req),
   values |-> Values(message, list[i].params, req)]

LEMMA SignRequestsAre ==
  ASSUME NEW list \in SignRequests
  PROVE  IsSignRequest(list)
BY RequestAssumption DEF IsSignRequest

(* The history only grows, by one record for each item of the list.         *)
LEMMA HistoryGrows ==
  ASSUME IsSeq(signed), NEW list, IsSignRequest(list), NEW req, SetMessageSignatures(list, req)
  PROVE  /\ IsSeq(signed') /\ Len(signed) \in Nat
         /\ Len(signed') = Len(signed) + Len(list)
         /\ \A s \in DOMAIN signed : s \in DOMAIN signed' /\ signed'[s] = signed[s]
         /\ \A s \in DOMAIN signed' \ DOMAIN signed :
              /\ s - Len(signed) \in DOMAIN list
              /\ signed'[s] = Recorded(list, req, s - Len(signed))
<1> DEFINE new == [i \in DOMAIN list |-> Recorded(list, req, i)]
<1>1. signed' = signed \o new
  BY DEF SetMessageSignatures, Recorded
<1>2. Len(list) \in Nat /\ DOMAIN list = 1..Len(list)
  BY SeqIsSeq DEF IsSeq, IsSignRequest
<1>3. new = [i \in 1..Len(list) |-> new[i]] /\ \A i \in DOMAIN list : new[i] = Recorded(list, req, i)
  BY <1>2
<1> HIDE DEF new
<1>4. IsSeq(new) /\ Len(new) = Len(list)
  BY <1>2, <1>3, FunIsSeq
<1>5. Len(signed) \in Nat /\ DOMAIN signed = 1..Len(signed)
  BY SeqIsSeq DEF IsSeq
<1>6. IsSeq(signed') /\ Len(signed') = Len(signed) + Len(list)
  BY <1>1, <1>4, ConcatIsSeq
<1>7. /\ DOMAIN signed' = 1..(Len(signed) + Len(list))
      /\ \A s \in 1..(Len(signed) + Len(list)) :
           signed'[s] = IF s <= Len(signed) THEN signed[s] ELSE new[s - Len(signed)]
  BY <1>1, <1>4, ConcatIsSeq
<1>8. \A s \in DOMAIN signed : s \in DOMAIN signed' /\ signed'[s] = signed[s]
  BY <1>2, <1>5, <1>7
<1>9. ASSUME NEW s \in DOMAIN signed' \ DOMAIN signed
      PROVE  s - Len(signed) \in DOMAIN list /\ signed'[s] = Recorded(list, req, s - Len(signed))
  <2>1. /\ s \in 1..(Len(signed) + Len(list)) /\ ~(s <= Len(signed))
        /\ s - Len(signed) \in DOMAIN list
    BY <1>2, <1>5, <1>7
  <2>2. signed'[s] = new[s - Len(signed)]
    BY <1>7, <2>1
  <2> QED
    BY <1>3, <2>1, <2>2
<1> QED
  BY <1>5, <1>6, <1>8, <1>9

LEMMA SetMessageSignaturesTypeOK ==
  ASSUME TypeOK, NEW list, IsSignRequest(list), NEW req, SetMessageSignatures(list, req)
  PROVE  TypeOK'
<1>1. /\ IsSeq(list) /\ Len(list) \in Nat /\ DOMAIN list = 1..Len(list)
      /\ \A i \in DOMAIN list : list[i].key \in Keys
  BY SeqIsSeq DEF IsSeq, IsSignRequest
<1>5. IsSeq(signed') /\ Len(signed') <= MaxSigned
  BY HistoryGrows DEF TypeOK, SetMessageSignatures
<1>6. \A s \in DOMAIN signed' : signed'[s].key \in Keys
  BY <1>1, HistoryGrows DEF TypeOK, Recorded
<1> DEFINE headers == WithSignatures(message.headers, list, Len(signed))
           inputs == [i \in 1..Appended(list) |-> InputValue(list[i])]
           values == [i \in 1..SignaturesAppended(list) |->
                        SignatureHeaderValue(SignatureName(list[i].name), Len(signed) + i)]
<1>7. Appended(list) \in Nat /\ SignaturesAppended(list) = Appended(list)
  BY <1>1, AppendedBound DEF SignaturesAppended
<1>8. IsSeq(inputs) /\ IsSeq(values)
  <2>1. inputs = [i \in 1..Appended(list) |-> inputs[i]]
    OBVIOUS
  <2>2. values = [i \in 1..Appended(list) |-> values[i]]
    BY <1>7
  <2> HIDE DEF inputs, values
  <2> QED
    BY <1>7, <2>1, <2>2, FunIsSeq
<1>9. headers = [message.headers EXCEPT !["signature-input"] = @ \o inputs,
                                        !["signature"] = @ \o values]
  BY DEF WithSignatures
<1>10. /\ SignatureFields \subseteq DOMAIN headers
       /\ \A f \in SignatureFields : IsSeq(headers[f])
  <2> HIDE DEF inputs, values, headers
  <2>1. /\ IsSeq(message.headers["signature"] \o values)
        /\ IsSeq(message.headers["signature-input"] \o inputs)
    BY <1>8, ConcatIsSeq DEF TypeOK, IsMessage, SignatureFields
  <2> QED
    BY <1>9, <2>1 DEF TypeOK, IsMessage, SignatureFields
<1>11. IsMessage(message')
  <2>1. message' = [message EXCEPT !.headers = headers]
    BY DEF SetMessageSignatures, TypeOK, IsMessage
  <2> HIDE DEF headers
  <2> QED
    BY <1>10, <2>1, MessageIsMessage DEF TypeOK
<1> QED
  BY <1>5, <1>6, <1>11 DEF TypeOK, SetMessageSignatures, IsCall, NoCall

LEMMA BeginVerifyTypeOK ==
  ASSUME TypeOK, NEW keys, IsSeq(keys), NEW req, BeginVerify(keys, req)
  PROVE  TypeOK'
<1>1. IsSeq(keys) /\ Len(keys) \in Nat /\ (keys # <<>> => Len(keys) > 0)
  BY DEF IsSeq
<1>2. IsSeq(<<>>) /\ Len(<<>>) = 0
  BY EmptyIsSeq
<1>3. call'.status \in {"running", "done", "err", "panic"}
  BY HeadersOutcomes DEF BeginVerify
<1>4. call'.status = "running" => keys # <<>>
  BY HeadersOutcomes DEF BeginVerify
<1>5. now \in 0..now /\ now' = now /\ message' = message /\ signed' = signed
  BY BoundAssumption DEF TypeOK, BeginVerify
<1>6. /\ DOMAIN call' = {"status", "keys", "req", "started", "entries", "next", "verified", "results"}
      /\ call'.started = now /\ call'.keys = keys
      /\ call'.verified = <<>> /\ call'.results = <<>>
  BY DEF BeginVerify
<1>7. IsCall(call)'
  BY <1>1, <1>2, <1>3, <1>4, <1>5, <1>6 DEF IsCall
<1> QED
  BY <1>5, <1>7 DEF TypeOK

LEMMA CheckSignatureTypeOK ==
  ASSUME TypeOK, CheckSignature
  PROVE  TypeOK'
<1>1. IsCall(call) /\ call.status = "running"
  BY DEF TypeOK, CheckSignature, NoCall
<1>2. PICK outcome, name :
        call' = [call EXCEPT !.status = IF outcome = "panic" THEN "panic" ELSE @,
                             !.next = After(outcome),
                             !.verified = IF outcome = "ok" THEN Append(@, name) ELSE @]
  BY DEF CheckSignature
<1>3. IsSeq(Append(call.verified, name))
  BY <1>1, AppendIsSeq DEF IsCall
<1>4. now' = now /\ message' = message /\ signed' = signed
  BY DEF CheckSignature
<1>5. IsCall(call)'
  BY <1>1, <1>2, <1>3, <1>4 DEF IsCall
<1> QED
  BY <1>4, <1>5 DEF TypeOK

LEMMA FinishKeyTypeOK ==
  ASSUME TypeOK, FinishKey
  PROVE  TypeOK'
<1>1. IsCall(call) /\ call.status = "running"
  BY DEF TypeOK, FinishKey, NoCall
<1>2. /\ IsSeq(Append(call.results, KeyResult))
      /\ Len(call.results) \in Nat
      /\ Len(Append(call.results, KeyResult)) = Len(call.results) + 1
  BY <1>1, AppendIsSeq DEF IsCall
<1>3. IsSeq(<<>>)
  BY EmptyIsSeq
<1>4. now' = now /\ message' = message /\ signed' = signed
  BY DEF FinishKey
<1>5. Len(call.keys) \in Nat
  BY <1>1, SeqIsSeq DEF IsCall, IsSeq
<1>6. /\ call'.results = Append(call.results, KeyResult) /\ call'.verified = <<>>
      /\ call'.keys = call.keys /\ call'.started = call.started
      /\ call'.status = IF LastKey THEN "done" ELSE "running"
      /\ DOMAIN call' = DOMAIN call
  BY <1>1 DEF FinishKey, IsCall
<1>7. IsCall(call)'
  BY <1>1, <1>2, <1>3, <1>4, <1>5, <1>6 DEF IsCall, LastKey
<1> QED
  BY <1>4, <1>7 DEF TypeOK

LEMMA TickTypeOK ==
  ASSUME TypeOK, Tick
  PROVE  TypeOK'
BY BoundAssumption DEF TypeOK, Tick, IsCall, NoCall

LEMMA RewriteTypeOK ==
  ASSUME TypeOK, NEW content \in Contents, Rewrite(content)
  PROVE  TypeOK'
<1> DEFINE headers == [f \in DOMAIN content.headers |->
                         IF f \in SignatureFields THEN message.headers[f] ELSE content.headers[f]]
<1>1. IsMessage(content)
  BY MessageAssumption
<1>2. message' = [content EXCEPT !.headers = headers]
  BY DEF Rewrite
<1>3. /\ SignatureFields \subseteq DOMAIN headers
      /\ \A f \in SignatureFields : IsSeq(headers[f])
  BY <1>1 DEF TypeOK, IsMessage
<1> HIDE DEF headers
<1>4. IsMessage(message')
  BY <1>1, <1>2, <1>3, MessageIsMessage
<1> QED
  BY <1>4 DEF TypeOK, Rewrite, NoCall, IsCall

LEMMA MergeLinesTypeOK ==
  ASSUME TypeOK, NEW f \in DOMAIN message.headers, MergeLines(f)
  PROVE  TypeOK'
<1> DEFINE field == [i \in DOMAIN message.headers[f] |->
                       [message.headers[f][i] EXCEPT !.first = i = 1]]
           headers == [message.headers EXCEPT ![f] = field]
<1>1. message' = [message EXCEPT !.headers = headers]
  BY DEF MergeLines
<1>2. f \in SignatureFields => IsSeq(field)
  <2> SUFFICES ASSUME f \in SignatureFields PROVE IsSeq(field)
    OBVIOUS
  <2>1. /\ Len(message.headers[f]) \in Nat
        /\ DOMAIN message.headers[f] = 1..Len(message.headers[f])
    BY SeqIsSeq DEF TypeOK, IsMessage, IsSeq
  <2>2. field = [i \in 1..Len(message.headers[f]) |-> field[i]]
    BY <2>1
  <2> HIDE DEF field
  <2> QED
    BY <2>1, <2>2, FunIsSeq
<1>3. /\ SignatureFields \subseteq DOMAIN headers
      /\ \A g \in SignatureFields : IsSeq(headers[g])
  <2> HIDE DEF field
  <2> QED
    BY <1>2 DEF TypeOK, IsMessage
<1> HIDE DEF headers
<1>4. IsMessage(message')
  BY <1>1, <1>3, MessageIsMessage DEF TypeOK
<1> QED
  BY <1>4 DEF TypeOK, MergeLines, NoCall, IsCall

LEMMA StripTypeOK ==
  ASSUME TypeOK, NEW i, Strip(i)
  PROVE  TypeOK'
<1> DEFINE headers == Without(message.headers, i)
<1>1. message' = [message EXCEPT !.headers = headers]
  BY DEF Strip
<1>2. /\ IsSeq(DropMember(message.headers["signature"], i))
      /\ IsSeq(DropMember(message.headers["signature-input"], i))
  BY DropIsSeq DEF TypeOK, IsMessage, SignatureFields, Strip
<1>3. /\ SignatureFields \subseteq DOMAIN headers
      /\ \A f \in SignatureFields : IsSeq(headers[f])
  BY <1>2 DEF TypeOK, IsMessage, SignatureFields, Without
<1> HIDE DEF headers
<1>4. IsMessage(message')
  BY <1>1, <1>3, MessageIsMessage DEF TypeOK
<1> QED
  BY <1>4 DEF TypeOK, Strip, NoCall, IsCall

LEMMA InitTypeOK == Init => TypeOK
BY MessageAssumption, BoundAssumption, EmptyIsSeq DEF Init, TypeOK

LEMMA TypeStep ==
  ASSUME TypeOK, [Next]_vars
  PROVE  TypeOK'
<1>1. CASE Sign
  BY <1>1, SetMessageSignaturesTypeOK, SignRequestsAre DEF Sign
<1>2. CASE Verify
  <2>1. ASSUME NEW keys \in VerifyRequests, NEW req, BeginVerify(keys, req) PROVE TypeOK'
    BY <2>1, BeginVerifyTypeOK, RequestAssumption
  <2>2. CASE Return
    BY <2>2 DEF TypeOK, Return
  <2> QED
    BY <1>2, <2>1, <2>2, CheckSignatureTypeOK, FinishKeyTypeOK DEF Verify
<1>3. CASE Environment
  BY <1>3, TickTypeOK, RewriteTypeOK, MergeLinesTypeOK, StripTypeOK DEF Environment
<1>4. CASE UNCHANGED vars
  BY <1>4 DEF vars, TypeOK, IsCall
<1> QED
  BY <1>1, <1>2, <1>3, <1>4 DEF Next

(* The states a message and a verification of it can be in: the headers     *)
(* stay sequences of members, whatever is signed, merged or stripped, and a *)
(* running verification never has a result for every key.                   *)
THEOREM TypeCorrect == Spec => []TypeOK
BY InitTypeOK, TypeStep, PTL DEF Spec

-----------------------------------------------------------------------------
(* What a verification accepts                                              *)

(* The values recorded with a signature are those in its base.              *)
HistoryInv ==
  \A s \in DOMAIN signed :
    signed[s].values = [i \in DOMAIN signed[s].base.params.covered |-> signed[s].base.lines[i][2]]

(* There is an entry of this name whose signature the k-th key really made  *)
(* over the base of the message as it is, and it was valid during the call. *)
Attests(k, entry) ==
  /\ IsCandidate(call.keys[k].keyid, entry)
  /\ Genuine(call.keys[k].key, entry.sig, SignatureBase(message, entry.params, call.req))
  /\ \E at \in call.started..now : ~PastExpiry(entry.params, at)

Attested(k, name) ==
  \E e \in DOMAIN call.entries : call.entries[e].name = name /\ Attests(k, call.entries[e])

(* The message and the history stand still while a verification runs, so    *)
(* what was found genuine on the way still is when the results come back.   *)
CallInv ==
  call # NoCall =>
    /\ \A n \in DOMAIN call.verified : Attested(Len(call.results) + 1, call.verified[n])
    /\ \A k \in DOMAIN call.results : call.results[k].ok => Attested(k, call.results[k].name)

Inv == TypeOK /\ HistoryInv /\ CallInv

(* The base determines the parameters and the value of every component.     *)
LEMMA BaseDeterminesValues ==
  ASSUME NEW msg, NEW params, NEW req
  PROVE  /\ SignatureBase(msg, params, req).params = params
         /\ Values(msg, params, req) =
              [i \in DOMAIN params.covered |-> SignatureBase(msg, params, req).lines[i][2]]
<1>1. \A i \in DOMAIN params.covered :
         SignatureBase(msg, params, req).lines[i][2] = ComponentValue(msg, params.covered[i], req)
  BY DEF SignatureBase
<1>2. \A i \in DOMAIN params.covered :
         ComponentValue(msg, params.covered[i], req) =
           IF HasParam(params.covered[i], "req") THEN ExtractValue(req, params.covered[i])
                                                 ELSE ExtractValue(msg, params.covered[i])
  BY DEF ComponentValue, Source
<1> QED
  BY <1>1, <1>2 DEF Values, SignatureBase

(* verify_signature_headers returns Ok for a genuine signature that has not *)
(* expired, and for no other.                                               *)
LEMMA CheckedOk ==
  ASSUME NEW key, NEW entry, CheckOutcome(key, entry) = "ok"
  PROVE  /\ ~PastExpiry(entry.params, now)
         /\ Genuine(key, entry.sig, SignatureBase(message, entry.params, call.req))
<1>1. \A alg, genuine, len : VerifyOutcome(alg, genuine, len) = "ok" => genuine
  BY DEF VerifyOutcome
<1> QED
  BY <1>1 DEF CheckOutcome, IsExpired, PastExpiry

LEMMA SetMessageSignaturesHistoryInv ==
  ASSUME TypeOK, HistoryInv, NEW list, IsSignRequest(list), NEW req, SetMessageSignatures(list, req)
  PROVE  HistoryInv'
<1> DEFINE IsRecord(r) == r.values = [i \in DOMAIN r.base.params.covered |-> r.base.lines[i][2]]
<1>1. \A i \in DOMAIN list : IsRecord(Recorded(list, req, i))
  BY BaseDeterminesValues DEF Recorded
<1>2. \A s \in DOMAIN signed : IsRecord(signed[s])
  BY DEF HistoryInv
<1> HIDE DEF IsRecord
<1>3. \A s \in DOMAIN signed' : IsRecord(signed'[s])
  BY <1>1, <1>2, HistoryGrows DEF TypeOK
<1> QED
  BY <1>3 DEF HistoryInv, IsRecord

(* Later in the same call an entry that was attested still is.              *)
LEMMA AttestedStays ==
  ASSUME TypeOK, IsCall(call), call' # NoCall,
         now \in Nat, now' \in Nat, now <= now',
         message' = message, signed' = signed,
         call'.keys = call.keys, call'.req = call.req,
         call'.entries = call.entries, call'.started = call.started,
         NEW k, NEW name, Attested(k, name)
  PROVE  Attested(k, name)'
<1>1. PICK e \in DOMAIN call.entries :
         call.entries[e].name = name /\ Attests(k, call.entries[e])
  BY DEF Attested
<1>2. PICK at \in call.started..now : ~PastExpiry(call.entries[e].params, at)
  BY <1>1 DEF Attests
<1>3. call.started \in Nat
  BY DEF IsCall
<1>4. at \in call'.started..now'
  BY <1>2, <1>3
<1>5. ~PastExpiry(call'.entries[e].params, at)
  BY <1>2
<1>6. Attests(k, call.entries[e])'
  BY <1>1, <1>4, <1>5 DEF Attests, Genuine
<1> QED
  BY <1>1, <1>6 DEF Attested

LEMMA CheckSignatureCallInv ==
  ASSUME TypeOK, CallInv, CheckSignature
  PROVE  CallInv'
<1>1. IsCall(call) /\ call # NoCall
  BY DEF TypeOK, CheckSignature, NoCall
<1> DEFINE entry == call.entries[call.next]
           outcome == IF IsCandidate(Current.keyid, entry) THEN CheckOutcome(Current.key, entry)
                      ELSE "skipped"
           k == Len(call.results) + 1
<1>2. /\ call'.keys = call.keys /\ call'.req = call.req /\ call'.entries = call.entries
      /\ call'.started = call.started /\ call'.results = call.results
      /\ call'.verified = IF outcome = "ok" THEN Append(call.verified, entry.name)
                                            ELSE call.verified
      /\ now' = now /\ message' = message /\ signed' = signed
      /\ call.next \in DOMAIN call.entries
  BY <1>1 DEF CheckSignature, IsCall
<1>3. call' # NoCall
  BY <1>1 DEF CheckSignature, IsCall, NoCall
<1>4. now \in Nat
  BY BoundAssumption DEF TypeOK
<1>5. ASSUME outcome = "ok" PROVE Attested(k, entry.name)
  <2>1. IsCandidate(Current.keyid, entry) /\ CheckOutcome(Current.key, entry) = "ok"
    BY <1>5
  <2>2. /\ ~PastExpiry(entry.params, now)
        /\ Genuine(Current.key, entry.sig, SignatureBase(message, entry.params, call.req))
    BY <2>1, CheckedOk
  <2>3. now \in call.started..now
    BY <1>1, <1>4 DEF IsCall
  <2>4. Attests(k, entry)
    BY <2>1, <2>2, <2>3 DEF Attests, Current
  <2> QED
    BY <1>2, <2>4 DEF Attested
<1> HIDE DEF outcome, entry
<1>6. \A j, name : Attested(j, name) => Attested(j, name)'
  BY <1>1, <1>2, <1>3, <1>4, AttestedStays
<1>7. ASSUME NEW n \in DOMAIN call'.verified PROVE Attested(k, call'.verified[n])
  <2>1. CASE outcome # "ok"
    BY <1>1, <1>2, <1>7, <2>1 DEF CallInv
  <2>2. CASE outcome = "ok"
    <3>1. /\ IsSeq(call.verified) /\ Len(call.verified) \in Nat
          /\ DOMAIN call.verified = 1..Len(call.verified)
      BY <1>1, SeqIsSeq DEF IsCall, IsSeq
    <3>2. /\ call'.verified = Append(call.verified, entry.name)
          /\ DOMAIN call'.verified = 1..(Len(call.verified) + 1)
      BY <1>2, <2>2, <3>1, AppendIsSeq, SeqIsSeq DEF IsSeq
    <3>3. CASE n = Len(call.verified) + 1
      BY <1>5, <2>2, <3>1, <3>2, <3>3, AppendIsSeq
    <3>4. CASE n \in 1..Len(call.verified)
      BY <1>1, <3>1, <3>2, <3>4, AppendIsSeq DEF CallInv
    <3> QED
      BY <1>7, <3>1, <3>2, <3>3, <3>4
  <2> QED
    BY <2>1, <2>2
<1>8. (\A n \in DOMAIN call.verified : Attested(Len(call.results) + 1, call.verified[n]))'
  BY <1>2, <1>6, <1>7
<1>9. (\A j \in DOMAIN call.results : call.results[j].ok => Attested(j, call.results[j].name))'
  BY <1>1, <1>2, <1>6 DEF CallInv
<1> QED
  BY <1>8, <1>9 DEF CallInv

(* A yes for a key comes from one of the signatures it was tried on.        *)
LEMMA ResultAttested ==
  ASSUME TypeOK, CallInv, FinishKey, KeyResult.ok
  PROVE  Attested(Len(call.results) + 1, KeyResult.name)
<1>1. IsCall(call) /\ call # NoCall
  BY DEF TypeOK, FinishKey, NoCall
<1>2. call.verified # <<>> /\ KeyResult.name = Head(call.verified)
  BY DEF KeyResult
<1>3. Head(call.verified) = call.verified[1] /\ 1 \in DOMAIN call.verified
  <2>1. PICK S : call.verified \in Seq(S)
    BY <1>1 DEF IsCall, IsSeq
  <2> QED
    BY <1>2, <2>1
<1> QED
  BY <1>1, <1>2, <1>3 DEF CallInv

LEMMA FinishKeyCallInv ==
  ASSUME TypeOK, CallInv, FinishKey
  PROVE  CallInv'
<1>1. IsCall(call) /\ call # NoCall
  BY DEF TypeOK, FinishKey, NoCall
<1>2. /\ call'.keys = call.keys /\ call'.req = call.req /\ call'.entries = call.entries
      /\ call'.started = call.started /\ call'.results = Append(call.results, KeyResult)
      /\ call'.verified = <<>>
      /\ now' = now /\ message' = message /\ signed' = signed
  BY <1>1 DEF FinishKey, IsCall
<1>3. call' # NoCall
  BY <1>1 DEF FinishKey, IsCall, NoCall
<1>4. now \in Nat
  BY BoundAssumption DEF TypeOK
<1>5. \A j, name : Attested(j, name) => Attested(j, name)'
  BY <1>1, <1>2, <1>3, <1>4, AttestedStays
<1>6. ASSUME KeyResult.ok PROVE Attested(Len(call.results) + 1, KeyResult.name)
  BY <1>6, ResultAttested
<1>7. /\ Len(call.results) \in Nat /\ DOMAIN call.results = 1..Len(call.results)
      /\ DOMAIN call'.results = 1..(Len(call.results) + 1)
      /\ \A j \in 1..Len(call.results) : call'.results[j] = call.results[j]
      /\ call'.results[Len(call.results) + 1] = KeyResult
  BY <1>1, <1>2, AppendIsSeq, SeqIsSeq DEF IsCall, IsSeq
<1>8. (\A n \in DOMAIN call.verified : Attested(Len(call.results) + 1, call.verified[n]))'
  BY <1>2, EmptyIsSeq
<1>9. ASSUME NEW j \in DOMAIN call'.results, call'.results[j].ok
      PROVE  Attested(j, call'.results[j].name)
  <2>1. CASE j \in 1..Len(call.results)
    BY <1>1, <1>7, <1>9, <2>1 DEF CallInv
  <2>2. CASE j = Len(call.results) + 1
    BY <1>6, <1>7, <1>9, <2>2
  <2> QED
    BY <1>7, <2>1, <2>2
<1>10. (\A j \in DOMAIN call.results : call.results[j].ok => Attested(j, call.results[j].name))'
  BY <1>5, <1>9
<1> QED
  BY <1>8, <1>10 DEF CallInv

LEMMA TickCallInv ==
  ASSUME TypeOK, CallInv, Tick
  PROVE  CallInv'
<1>1. SUFFICES ASSUME call # NoCall PROVE CallInv'
  BY DEF CallInv, Tick
<1>2. IsCall(call)
  BY <1>1 DEF TypeOK
<1>3. now \in Nat /\ now' = now + 1
  BY BoundAssumption DEF TypeOK, Tick
<1>4. \A j, name : Attested(j, name) => Attested(j, name)'
  BY <1>1, <1>2, <1>3, AttestedStays DEF Tick
<1> QED
  BY <1>1, <1>4 DEF CallInv, Tick

LEMMA StepInv ==
  ASSUME Inv, [Next]_vars
  PROVE  Inv'
<1> USE DEF Inv
<1>1. TypeOK'
  BY TypeStep
<1>2. (HistoryInv /\ CallInv)'
  <2>1. CASE Sign
    <3>1. PICK list \in SignRequests, req \in ReqForParam : SetMessageSignatures(list, req)
      BY <2>1 DEF Sign
    <3>2. call' = call /\ call = NoCall
      BY <3>1 DEF SetMessageSignatures, TypeOK, IsCall
    <3> QED
      BY <3>1, <3>2, SetMessageSignaturesHistoryInv, SignRequestsAre DEF CallInv
  <2>2. ASSUME NEW keys \in VerifyRequests, NEW req, BeginVerify(keys, req)
        PROVE  (HistoryInv /\ CallInv)'
    <3>1. signed' = signed /\ call'.verified = <<>> /\ call'.results = <<>>
      BY <2>2 DEF BeginVerify
    <3> QED
      BY <3>1, EmptyIsSeq DEF HistoryInv, CallInv
  <2>3. CASE CheckSignature
    BY <2>3, CheckSignatureCallInv DEF HistoryInv, CheckSignature
  <2>4. CASE FinishKey
    BY <2>4, FinishKeyCallInv DEF HistoryInv, FinishKey
  <2>5. CASE Return
    BY <2>5 DEF HistoryInv, CallInv, Return
  <2>6. CASE Tick
    BY <2>6, TickCallInv DEF HistoryInv, Tick
  <2>7. CASE Environment /\ ~Tick
    <3>1. call' = call /\ call.status = "none" /\ signed' = signed
      BY <2>7 DEF Environment, Rewrite, MergeLines, Strip
    <3>2. call = NoCall
      BY <3>1 DEF TypeOK, IsCall
    <3> QED
      BY <3>1, <3>2 DEF HistoryInv, CallInv
  <2>8. CASE UNCHANGED vars
    BY <2>8 DEF vars, HistoryInv, CallInv, Attested, Attests, Genuine
  <2> QED
    BY <2>1, <2>2, <2>3, <2>4, <2>5, <2>6, <2>7, <2>8 DEF Next, Verify, Environment
<1> QED
  BY <1>1, <1>2

THEOREM Invariance == Spec => []Inv
<1>1. Init => Inv
  BY InitTypeOK, EmptyIsSeq DEF Init, Inv, HistoryInv, CallInv
<1> QED
  BY <1>1, StepInv, PTL DEF Spec

(* What Ok from verify_message_signatures means: the key really signed, and *)
(* every component its parameters cover still has the value that was signed *)
(* (for `req` components the value in the request the verifier gives).      *)
THEOREM VerifiedWasSigned == Spec => []AcceptedWasSigned
<1>1. Inv => AcceptedWasSigned
  <2> SUFFICES ASSUME Inv, call.status = "done",
                      NEW k \in DOMAIN call.results, call.results[k].ok
               PROVE  \E e \in DOMAIN call.entries :
                        LET entry == call.entries[e]
                        IN  /\ AcceptedAs(k, entry)
                            /\ IsCandidate(call.keys[k].keyid, entry)
                            /\ entry.sig \in DOMAIN signed
                            /\ signed[entry.sig].key = call.keys[k].key
                            /\ MadeOver(entry.sig, entry)
    BY DEF AcceptedWasSigned
  <2>1. call # NoCall
    BY DEF NoCall
  <2>2. PICK e \in DOMAIN call.entries :
          /\ call.entries[e].name = call.results[k].name
          /\ Attests(k, call.entries[e])
    BY <2>1 DEF Inv, CallInv, Attested
  <2> DEFINE entry == call.entries[e]
             base == SignatureBase(message, entry.params, call.req)
  <2>3. entry.sig \in DOMAIN signed /\ signed[entry.sig].key = call.keys[k].key
        /\ signed[entry.sig].base = base
    BY <2>2 DEF Attests, Genuine
  <2>4. MadeOver(entry.sig, entry)
    <3>1. /\ base.params = entry.params
          /\ Values(message, entry.params, call.req) =
               [i \in DOMAIN entry.params.covered |-> base.lines[i][2]]
      BY BaseDeterminesValues
    <3>2. signed[entry.sig].values =
            [i \in DOMAIN signed[entry.sig].base.params.covered |-> signed[entry.sig].base.lines[i][2]]
      BY <2>3 DEF Inv, HistoryInv
    <3> HIDE DEF entry, base
    <3> QED
      BY <2>3, <3>1, <3>2 DEF MadeOver
  <2> QED
    BY <2>2, <2>3, <2>4 DEF AcceptedAs, Attests
<1> QED
  BY <1>1, Invariance, PTL

(* A signature that is accepted was still valid at some moment of the call. *)
THEOREM VerifiedWasFresh == Spec => []AcceptedWasFresh
<1>1. Inv => AcceptedWasFresh
  BY DEF Inv, CallInv, Attested, Attests, AcceptedWasFresh, AcceptedAs, NoCall
<1> QED
  BY <1>1, Invariance, PTL

LEMMA HeadersMapIsSeq ==
  ASSUME NEW msg, IsMessage(msg)
  PROVE  IsSeq(HeadersMap(msg))
<1> DEFINE map == HeadersMap(msg)
           keys == DictKeys(msg.headers["signature-input"])
<1>1. Len(keys) \in Nat /\ DOMAIN keys = 1..Len(keys)
  BY DictKeysIsSeq DEF IsMessage, SignatureFields
<1>2. map = [i \in DOMAIN keys |-> map[i]]
  BY DEF HeadersMap, TryParse
<1> HIDE DEF map, keys
<1> QED
  BY <1>1, <1>2, FunIsSeq DEF map

(* The entries a verification goes through are those it can rebuild.        *)
LEMMA EntriesRebuild ==
  ASSUME NEW msg, IsMessage(msg), NEW req
  PROVE  \A e \in DOMAIN ExtractSignatures(msg, req) :
           BaseOk(msg, ExtractSignatures(msg, req)[e].params, req)
<1> DEFINE map == HeadersMap(msg)
           at == {i \in DOMAIN map : BaseOk(msg, map[i].params, req)}
<1>1. IsSeq(map)
  BY HeadersMapIsSeq
<1>2. ExtractSignatures(msg, req) = Selected(map, at)
  BY DEF ExtractSignatures
<1> HIDE DEF map
<1>3. PICK pos : Picks(pos, Selected(map, at), map, at, Len(map))
  <2>1. at \subseteq DOMAIN map
    OBVIOUS
  <2> HIDE DEF at
  <2> QED
    BY <1>1, <2>1, SelectedPicks
<1>4. DOMAIN Selected(map, at) = 1..Len(Selected(map, at))
  <2> HIDE DEF at
  <2> QED
    BY <1>3, SeqIsSeq DEF Picks, IsSeq
<1>5. \A n \in 1..Len(Selected(map, at)) : Selected(map, at)[n] = map[pos[n]] /\ pos[n] \in at
  <2> HIDE DEF at
  <2> QED
    BY <1>3 DEF Picks
<1> QED
  BY <1>2, <1>4, <1>5

-----------------------------------------------------------------------------
(* The pairing of the two fields                                            *)

IsMember(member) == {"key", "val"} \subseteq DOMAIN member

(* The i-th members of the two fields belong together, and the number in    *)
(* the signature is 0 or the number of a signing recorded in history.       *)
PairAt(signature, input, i, history) ==
  /\ IsMember(signature[i]) /\ IsMember(input[i])
  /\ signature[i].key = input[i].key
  /\ \/ signature[i].val[2] = 0
     \/ /\ signature[i].val[2] \in DOMAIN history
        /\ input[i].val = <<"inner", history[signature[i].val[2]].base.params>>

Pairs(headers, history) ==
  /\ Len(headers["signature"]) = Len(headers["signature-input"])
  /\ \A i \in DOMAIN headers["signature"] :
       PairAt(headers["signature"], headers["signature-input"], i, history)

PairInv == TypeOK /\ Pairs(message.headers, signed)

LEMMA SetMessageSignaturesPairs ==
  ASSUME PairInv, NEW list \in SignRequests, NEW req, SetMessageSignatures(list, req)
  PROVE  Pairs(message.headers, signed)'
<1> DEFINE new == [i \in DOMAIN list |->
                     [key |-> list[i].key, name |-> SignatureName(list[i].name),
                      base |-> SignatureBase(message, list[i].params, req),
                      values |-> Values(message, list[i].params, req)]]
           inputs == [i \in 1..Appended(list) |-> InputValue(list[i])]
           values == [i \in 1..Appended(list) |->
                        SignatureHeaderValue(SignatureName(list[i].name), Len(signed) + i)]
           sig == message.headers["signature"]
           inp == message.headers["signature-input"]
<1>1. /\ IsSeq(sig) /\ IsSeq(inp) /\ IsSeq(signed)
      /\ Len(sig) \in Nat /\ DOMAIN sig = 1..Len(sig)
      /\ Len(inp) = Len(sig) /\ DOMAIN inp = 1..Len(sig)
      /\ Len(signed) \in Nat /\ DOMAIN signed = 1..Len(signed)
  BY SeqIsSeq DEF PairInv, Pairs, TypeOK, IsMessage, SignatureFields, IsSeq
<1>2. Len(list) \in Nat /\ DOMAIN list = 1..Len(list) /\ Appended(list) \in 0..Len(list)
  BY RequestAssumption, SeqIsSeq, AppendedBound DEF IsSeq
<1>3. /\ message'.headers["signature-input"] = inp \o inputs
      /\ message'.headers["signature"] = sig \o values
  BY DEF SetMessageSignatures, WithSignatures, SignaturesAppended, PairInv, TypeOK, IsMessage,
         SignatureFields
<1>4. signed' = signed \o new
  BY DEF SetMessageSignatures
<1>5. ASSUME NEW j \in 1..Appended(list)
      PROVE  /\ IsMember(inputs[j]) /\ IsMember(values[j]) /\ inputs[j].key = values[j].key
             /\ inputs[j].val = <<"inner", new[j].base.params>>
             /\ values[j].val[2] = Len(signed) + j
  <2>1. j \in DOMAIN list
    BY <1>2
  <2>2. new[j].base.params = list[j].params
    BY <2>1, BaseDeterminesValues
  <2> QED
    BY <2>1, <2>2 DEF InputValue, SignatureInputHeaderValue, SignatureHeaderValue, Member, IsMember
<1>6. /\ IsSeq(inputs) /\ Len(inputs) = Appended(list)
      /\ IsSeq(values) /\ Len(values) = Appended(list)
      /\ IsSeq(new) /\ Len(new) = Len(list)
  <2>1. /\ inputs = [i \in 1..Appended(list) |-> inputs[i]]
        /\ values = [i \in 1..Appended(list) |-> values[i]]
        /\ new = [i \in 1..Len(list) |-> new[i]]
    BY <1>2
  <2> HIDE DEF inputs, values, new
  <2>2. Appended(list) \in Nat
    BY <1>2
  <2>3. IsSeq(inputs) /\ Len(inputs) = Appended(list)
    BY <2>1, <2>2, FunIsSeq
  <2>4. IsSeq(values) /\ Len(values) = Appended(list)
    BY <2>1, <2>2, FunIsSeq
  <2>5. IsSeq(new) /\ Len(new) = Len(list)
    BY <1>2, <2>1, FunIsSeq
  <2> QED
    BY <2>3, <2>4, <2>5
<1>7. \A i \in 1..Len(sig) : PairAt(sig, inp, i, signed)
  BY <1>1 DEF PairInv, Pairs
<1> HIDE DEF new, inputs, values, sig, inp
<1>8. /\ Len(sig \o values) = Len(sig) + Appended(list)
      /\ Len(inp \o inputs) = Len(sig) + Appended(list)
      /\ DOMAIN (sig \o values) = 1..(Len(sig) + Appended(list))
      /\ DOMAIN (signed \o new) = 1..(Len(signed) + Len(list))
  BY <1>1, <1>6, ConcatIsSeq
<1>9. /\ \A i \in 1..(Len(sig) + Appended(list)) :
            (sig \o values)[i] = IF i <= Len(sig) THEN sig[i] ELSE values[i - Len(sig)]
      /\ \A i \in 1..(Len(sig) + Appended(list)) :
            (inp \o inputs)[i] = IF i <= Len(sig) THEN inp[i] ELSE inputs[i - Len(sig)]
      /\ \A i \in 1..(Len(signed) + Len(list)) :
            (signed \o new)[i] = IF i <= Len(signed) THEN signed[i] ELSE new[i - Len(signed)]
  BY <1>1, <1>6, ConcatIsSeq
<1>10. ASSUME NEW i \in 1..(Len(sig) + Appended(list))
       PROVE  PairAt(sig \o values, inp \o inputs, i, signed \o new)
  <2>1. CASE i <= Len(sig)
    <3>1. (sig \o values)[i] = sig[i] /\ (inp \o inputs)[i] = inp[i]
      BY <1>9, <2>1
    <3>2. PairAt(sig, inp, i, signed)
      BY <1>1, <1>2, <1>7, <2>1
    <3>3. \A t \in DOMAIN signed :
            t \in DOMAIN (signed \o new) /\ (signed \o new)[t] = signed[t]
      BY <1>1, <1>2, <1>8, <1>9
    <3> QED
      BY <3>1, <3>2, <3>3 DEF PairAt
  <2>2. CASE ~(i <= Len(sig))
    <3> DEFINE j == i - Len(sig)
    <3>1. j \in 1..Appended(list)
      BY <1>1, <1>2, <2>2
    <3>2. (sig \o values)[i] = values[j] /\ (inp \o inputs)[i] = inputs[j]
      BY <1>9, <2>2
    <3>3. /\ Len(signed) + j \in DOMAIN (signed \o new)
          /\ (signed \o new)[Len(signed) + j] = new[j]
      BY <1>1, <1>2, <1>8, <1>9, <3>1
    <3> HIDE DEF j
    <3>4. /\ IsMember(inputs[j]) /\ IsMember(values[j]) /\ inputs[j].key = values[j].key
          /\ inputs[j].val = <<"inner", new[j].base.params>>
          /\ values[j].val[2] = Len(signed) + j
      BY <1>5, <3>1
    <3> QED
      BY <3>2, <3>3, <3>4 DEF PairAt
  <2> QED
    BY <2>1, <2>2
<1> QED
  BY <1>3, <1>4, <1>8, <1>10 DEF Pairs

LEMMA RewritePairs ==
  ASSUME PairInv, NEW content \in Contents, Rewrite(content)
  PROVE  Pairs(message.headers, signed)'
<1>1. IsMessage(content)
  BY MessageAssumption
<1>2. \A f \in SignatureFields : message'.headers[f] = message.headers[f]
  BY <1>1 DEF Rewrite, IsMessage
<1> QED
  BY <1>2 DEF PairInv, Pairs, Rewrite, SignatureFields

LEMMA MergeLinesPairs ==
  ASSUME PairInv, NEW f \in DOMAIN message.headers, MergeLines(f)
  PROVE  Pairs(message.headers, signed)'
<1> DEFINE Fld(g) == message.headers[g]
<1>1. ASSUME NEW g \in SignatureFields
      PROVE  /\ IsSeq(Fld(g)) /\ DOMAIN Fld(g) = 1..Len(Fld(g)) /\ Len(Fld(g)) \in Nat
             /\ \A i \in DOMAIN Fld(g) : IsMember(Fld(g)[i])
  BY <1>1, SeqIsSeq DEF PairInv, TypeOK, IsMessage, IsSeq, Pairs, PairAt, SignatureFields
<1>2. ASSUME NEW g \in SignatureFields
      PROVE  /\ DOMAIN message'.headers[g] = DOMAIN Fld(g)
             /\ Len(message'.headers[g]) = Len(Fld(g))
             /\ \A i \in DOMAIN Fld(g) :
                  /\ IsMember(message'.headers[g][i])
                  /\ message'.headers[g][i].key = Fld(g)[i].key
                  /\ message'.headers[g][i].val = Fld(g)[i].val
  <2>1. CASE g # f
    BY <1>1, <2>1 DEF MergeLines, PairInv, TypeOK, IsMessage
  <2>2. CASE g = f
    <3> DEFINE field == [i \in DOMAIN Fld(g) |-> [Fld(g)[i] EXCEPT !.first = i = 1]]
    <3>1. message'.headers[g] = field
      BY <2>2 DEF MergeLines, PairInv, TypeOK, IsMessage
    <3>2. field = [i \in 1..Len(Fld(g)) |-> field[i]]
      BY <1>1
    <3>3. \A i \in DOMAIN Fld(g) : IsMember(field[i]) /\ field[i].key = Fld(g)[i].key
                                   /\ field[i].val = Fld(g)[i].val
      BY <1>1 DEF IsMember
    <3> HIDE DEF field
    <3>4. Len(field) = Len(Fld(g)) /\ DOMAIN field = 1..Len(Fld(g))
      BY <1>1, <3>2, FunIsSeq
    <3> QED
      BY <1>1, <3>1, <3>3, <3>4
  <2> QED
    BY <2>1, <2>2
<1>3. signed' = signed
  BY DEF MergeLines
<1>4. Len(Fld("signature")) = Len(Fld("signature-input"))
      /\ \A i \in DOMAIN Fld("signature") :
           PairAt(Fld("signature"), Fld("signature-input"), i, signed)
  BY DEF PairInv, Pairs
<1>5. DOMAIN Fld("signature") = DOMAIN Fld("signature-input")
  BY <1>1, <1>4 DEF SignatureFields
<1> QED
  BY <1>2, <1>3, <1>4, <1>5 DEF Pairs, PairAt, SignatureFields

LEMMA StripPairs ==
  ASSUME PairInv, NEW i, Strip(i)
  PROVE  Pairs(message.headers, signed)'
<1> DEFINE sig == message.headers["signature"]
           inp == message.headers["signature-input"]
<1>1. /\ IsSeq(sig) /\ Len(sig) \in Nat /\ DOMAIN sig = 1..Len(sig)
      /\ IsSeq(inp) /\ Len(inp) = Len(sig) /\ DOMAIN inp = 1..Len(sig)
      /\ i \in 1..Len(sig)
      /\ \A j \in 1..Len(sig) : PairAt(sig, inp, j, signed)
  BY SeqIsSeq DEF PairInv, Pairs, TypeOK, IsMessage, IsSeq, SignatureFields, Strip
<1>2. /\ message'.headers["signature"] = DropMember(sig, i)
      /\ message'.headers["signature-input"] = DropMember(inp, i)
      /\ signed' = signed
  BY DEF Strip, Without, PairInv, TypeOK, IsMessage, SignatureFields
<1> HIDE DEF sig, inp
<1>3. /\ Len(DropMember(sig, i)) = Len(sig) - 1 /\ Len(DropMember(inp, i)) = Len(sig) - 1
      /\ DOMAIN DropMember(sig, i) = 1..(Len(sig) - 1)
  BY <1>1, DropIsSeq DEF DropMember
<1>4. ASSUME NEW j \in 1..(Len(sig) - 1)
      PROVE  PairAt(DropMember(sig, i), DropMember(inp, i), j, signed)
  <2> DEFINE at == IF j < i THEN j ELSE j + 1
  <2>1. at \in 1..Len(sig)
    BY <1>1
  <2>2. PairAt(sig, inp, at, signed)
    BY <1>1, <2>1
  <2>3. ASSUME NEW field \in {sig, inp}
        PROVE  /\ IsMember(DropMember(field, i)[j])
               /\ DropMember(field, i)[j].key = field[at].key
               /\ DropMember(field, i)[j].val = field[at].val
    <3>1. DropMember(field, i)[j] = IF j < i THEN field[at]
                                    ELSE [field[at] EXCEPT !.first = @ \/ (j = i /\ field[i].first)]
      BY <1>1 DEF DropMember
    <3>2. IsMember(field[at])
      BY <2>2 DEF PairAt
    <3> HIDE DEF at
    <3> QED
      BY <3>1, <3>2 DEF IsMember
  <2> HIDE DEF at
  <2> QED
    BY <2>2, <2>3 DEF PairAt
<1> QED
  BY <1>2, <1>3, <1>4 DEF Pairs

LEMMA PairStep ==
  ASSUME PairInv, [Next]_vars
  PROVE  PairInv'
<1> SUFFICES Pairs(message.headers, signed)'
  BY TypeStep DEF PairInv
<1>1. CASE Sign
  BY <1>1, SetMessageSignaturesPairs DEF Sign
<1>2. CASE Verify \/ Tick \/ UNCHANGED vars
  <2>1. message' = message /\ signed' = signed
    BY <1>2 DEF Verify, BeginVerify, CheckSignature, FinishKey, Return, Tick, vars
  <2> QED
    BY <2>1 DEF PairInv
<1>3. CASE Environment /\ ~Tick
  BY <1>3, RewritePairs, MergeLinesPairs, StripPairs DEF Environment
<1> QED
  BY <1>1, <1>2, <1>3 DEF Next

(* The signature and the signature-input field stay paired member by        *)
(* member, and under each signature stand the parameters it was made with,  *)
(* provided that the fields a message comes with are paired.                *)
THEOREM FieldsStayPaired ==
  ASSUME \A m \in InitialMessages : Pairs(m.headers, <<>>)
  PROVE  Spec => []HeadersPaired
<1>1. Init => PairInv
  BY InitTypeOK DEF Init, PairInv
<1>2. PairInv /\ [Next]_vars => PairInv'
  BY PairStep
<1>3. PairInv => HeadersPaired
  <2> SUFFICES ASSUME PairInv PROVE HeadersPaired
    OBVIOUS
  <2>1. DOMAIN signed = 1..Len(signed) /\ Len(signed) \in Nat
    BY SeqIsSeq DEF PairInv, TypeOK, IsSeq
  <2>2. ASSUME NEW i \in DOMAIN message.headers["signature"], NEW s \in DOMAIN signed,
               message.headers["signature"][i].val = <<"bytes", s>>
        PROVE  message.headers["signature-input"][i].val = <<"inner", signed[s].base.params>>
    <3>1. message.headers["signature"][i].val[2] = s /\ s # 0
      BY <2>1, <2>2
    <3> QED
      BY <3>1 DEF PairInv, Pairs, PairAt
  <2> QED
    BY <2>2 DEF HeadersPaired, PairInv, Pairs, PairAt
<1> QED
  BY <1>1, <1>2, <1>3, PTL DEF Spec

-----------------------------------------------------------------------------
(* The promise                                                              *)

LEMMA SignAttests ==
  ASSUME Inv, NEW list \in SignRequests, NEW req \in Requests, SetMessageSignatures(list, req)
  PROVE  Promise!Attest
<1>1. UNCHANGED <<now, call>> /\ call.status = "none"
  BY DEF SetMessageSignatures
<1>2. ASSUME NEW i \in DOMAIN list
      PROVE  /\ BaseOk(message, Recorded(list, req, i).base.params, req)
             /\ Recorded(list, req, i).values
                  = Values(message, Recorded(list, req, i).base.params, req)
  BY BaseDeterminesValues DEF SetMessageSignatures, AllBasesOk, Recorded
<1>3. /\ \A s \in DOMAIN signed : s \in DOMAIN signed' /\ signed'[s] = signed[s]
      /\ \A s \in DOMAIN signed' \ DOMAIN signed :
           \E i \in DOMAIN list : signed'[s] = Recorded(list, req, i)
  BY HistoryGrows, SignRequestsAre DEF Inv, TypeOK
<1>4. Attestations \subseteq Attestations'
  BY <1>3 DEF Attestations
<1>5. ASSUME NEW a \in Attestations' \ Attestations
      PROVE  BaseOk(message, a.params, req) /\ a.values = Values(message, a.params, req)
  <2>1. PICK s \in DOMAIN signed' :
          a = [key |-> signed'[s].key, params |-> signed'[s].base.params, values |-> signed'[s].values]
    BY DEF Attestations
  <2>2. s \notin DOMAIN signed
    BY <1>3, <2>1 DEF Attestations
  <2> QED
    BY <1>2, <1>3, <2>1, <2>2
<1>6. UNCHANGED Inquiry /\ ~Inquiry.open
  BY <1>1 DEF Inquiry
<1> QED
  BY <1>1, <1>4, <1>5, <1>6 DEF Promise!Attest

(* What an inquiry looks like after one more answer.                        *)
LEMMA LongerAnswers ==
  ASSUME NEW r, NEW s, NEW ks, NEW a, NEW b
  PROVE  [open |-> TRUE, req |-> r, started |-> s, keys |-> ks, answers |-> b]
         = [[open |-> TRUE, req |-> r, started |-> s, keys |-> ks, answers |-> a]
              EXCEPT !.answers = b]
<1>1. PICK o : o = [open |-> TRUE, req |-> r, started |-> s, keys |-> ks, answers |-> a]
  OBVIOUS
<1>2. PICK n : n = [x \in DOMAIN o |-> IF x = "answers" THEN b ELSE o[x]]
  OBVIOUS
<1>3. n = [o EXCEPT !.answers = b]
  BY <1>2, Zenon
<1>4. DOMAIN o = {"open", "req", "started", "keys", "answers"}
  BY <1>1
<1>5. /\ DOMAIN n = DOMAIN o /\ n.open = o.open /\ n.req = o.req
      /\ n.started = o.started /\ n.keys = o.keys /\ n.answers = b
  BY <1>2, <1>4
<1>6. n = [open |-> n.open, req |-> n.req, started |-> n.started, keys |-> n.keys,
           answers |-> n.answers]
  BY <1>2, <1>4, <1>5
<1> QED
  BY <1>1, <1>3, <1>5, <1>6

LEMMA FinishKeyAnswers ==
  ASSUME Inv, FinishKey
  PROVE  Promise!Answer
<1>1. IsCall(call) /\ call.status = "running"
  BY DEF Inv, TypeOK, FinishKey, NoCall
<1>2. /\ call'.keys = call.keys /\ call'.req = call.req /\ call'.started = call.started
      /\ call'.results = Append(call.results, KeyResult)
      /\ call'.status # "none"
      /\ UNCHANGED <<now, message, signed>>
  BY <1>1 DEF FinishKey, IsCall
<1> DEFINE n == Len(call.results)
           answers == [k \in DOMAIN call.results |-> call.results[k].ok]
<1>3. /\ n \in Nat /\ DOMAIN call.results = 1..n
      /\ DOMAIN call'.results = 1..(n + 1)
      /\ \A j \in 1..n : call'.results[j] = call.results[j]
      /\ call'.results[n + 1] = KeyResult
  BY <1>1, <1>2, AppendIsSeq, SeqIsSeq DEF IsCall, IsSeq
<1>4. IsSeq(answers) /\ Len(answers) = n
  <2>1. answers = [k \in 1..n |-> answers[k]]
    BY <1>3
  <2> HIDE DEF answers, n
  <2> QED
    BY <1>3, <2>1, FunIsSeq
<1>5. [k \in DOMAIN call'.results |-> call'.results[k].ok] = Append(answers, KeyResult.ok)
  <2> DEFINE longer == Append(answers, KeyResult.ok)
  <2>1. /\ IsSeq(longer) /\ Len(longer) = n + 1
        /\ \A j \in 1..n : longer[j] = answers[j]
        /\ longer[n + 1] = KeyResult.ok
    <3> HIDE DEF answers
    <3> QED
      BY <1>3, <1>4, AppendIsSeq
  <2>2. longer = [k \in 1..(n + 1) |-> longer[k]]
    <3> HIDE DEF longer
    <3>1. PICK S : longer \in Seq(S)
      BY <2>1 DEF IsSeq
    <3> QED
      BY <1>3, <2>1, <3>1
  <2>3. ASSUME NEW k \in 1..(n + 1)
        PROVE  call'.results[k].ok = longer[k]
    <3>1. CASE k = n + 1
      BY <1>3, <2>1, <3>1
    <3>2. CASE k \in 1..n
      <4>1. call'.results[k].ok = answers[k]
        BY <1>3, <3>2
      <4> QED
        BY <2>1, <3>2, <4>1
    <3> QED
      BY <1>3, <3>1, <3>2
  <2> HIDE DEF longer
  <2> QED
    BY <1>3, <2>2, <2>3 DEF longer
<1>6. KeyResult.ok \in BOOLEAN
  BY DEF KeyResult
<1>7. Len(call.results) < Len(call.keys) /\ Len(call.keys) \in Nat
      /\ DOMAIN call.keys = 1..Len(call.keys)
  BY <1>1, SeqIsSeq DEF IsCall, IsSeq
<1>8. Inquiry = [open |-> TRUE, req |-> call.req, started |-> call.started,
                 keys |-> [k \in DOMAIN call.keys |-> call.keys[k].key], answers |-> answers]
  BY <1>1 DEF Inquiry
<1>9. Inquiry' = [Inquiry EXCEPT !.answers = Append(answers, KeyResult.ok)]
  <2>1. Inquiry' = [open |-> TRUE, req |-> call.req, started |-> call.started,
                    keys |-> [k \in DOMAIN call.keys |-> call.keys[k].key],
                    answers |-> [k \in DOMAIN call'.results |-> call'.results[k].ok]]
    BY <1>2 DEF Inquiry
  <2>2. PICK keys : keys = [k \in DOMAIN call.keys |-> call.keys[k].key]
    OBVIOUS
  <2>3. PICK longer : longer = Append(answers, KeyResult.ok)
    OBVIOUS
  <2> HIDE DEF answers
  <2>4. Inquiry = [open |-> TRUE, req |-> call.req, started |-> call.started, keys |-> keys,
                   answers |-> answers]
    BY <1>8, <2>2
  <2>5. Inquiry' = [open |-> TRUE, req |-> call.req, started |-> call.started, keys |-> keys,
                    answers |-> longer]
    BY <1>5, <2>1, <2>2, <2>3
  <2>6. Inquiry' = [Inquiry EXCEPT !.answers = longer]
    BY <2>4, <2>5, LongerAnswers
  <2> QED
    BY <2>3, <2>6
<1>10. Len(Inquiry.keys) = Len(call.keys)
  <2> DEFINE keys == [k \in DOMAIN call.keys |-> call.keys[k].key]
  <2>1. keys = [k \in 1..Len(call.keys) |-> keys[k]]
    BY <1>7
  <2> HIDE DEF keys
  <2>2. Len(keys) = Len(call.keys)
    BY <1>7, <2>1, FunIsSeq
  <2> QED
    BY <1>8, <2>2 DEF keys
<1>11. ASSUME KeyResult.ok
       PROVE  Promise!MayAnswer(Inquiry.keys[n + 1])
  <2>3. Attested(n + 1, KeyResult.name)
    BY <1>11, ResultAttested DEF Inv
  <2>5. PICK e \in DOMAIN call.entries :
          /\ Genuine(call.keys[n + 1].key, call.entries[e].sig,
                     SignatureBase(message, call.entries[e].params, call.req))
          /\ \E at \in call.started..now : ~PastExpiry(call.entries[e].params, at)
    BY <2>3 DEF Attested, Attests
  <2> DEFINE entry == call.entries[e]
             s == entry.sig
             a == [key |-> signed[s].key, params |-> signed[s].base.params,
                   values |-> signed[s].values]
  <2>6. /\ s \in DOMAIN signed /\ signed[s].key = call.keys[n + 1].key
        /\ signed[s].base = SignatureBase(message, entry.params, call.req)
    BY <2>5 DEF Genuine
  <2>7. a \in Attestations
    BY <2>6 DEF Attestations
  <2>8. a.key = call.keys[n + 1].key /\ a.params = entry.params
    BY <2>6, BaseDeterminesValues
  <2>9. a.values = Values(message, entry.params, call.req)
    <3>1. signed[s].values =
            [i \in DOMAIN signed[s].base.params.covered |-> signed[s].base.lines[i][2]]
      BY <2>6 DEF Inv, HistoryInv
    <3>2. Values(message, entry.params, call.req) =
            [i \in DOMAIN entry.params.covered |->
               SignatureBase(message, entry.params, call.req).lines[i][2]]
      BY BaseDeterminesValues
    <3>3. SignatureBase(message, entry.params, call.req).params = entry.params
      BY BaseDeterminesValues
    <3> QED
      BY <2>6, <3>1, <3>2, <3>3
  <2>10. PICK at \in call.started..now : \A t \in entry.params.expires : ~(t < at)
    BY <2>5 DEF PastExpiry
  <2>11. Inquiry.keys[n + 1] = call.keys[n + 1].key
    BY <1>3, <1>7, <1>8
  <2> QED
    BY <1>8, <2>7, <2>8, <2>9, <2>10, <2>11 DEF Promise!MayAnswer
<1> QED
  BY <1>2, <1>3, <1>4, <1>6, <1>7, <1>8, <1>9, <1>10, <1>11 DEF Promise!Answer, Attestations

LEMMA PromiseStep ==
  ASSUME Inv, [Next]_vars
  PROVE  [Promise!AttestationNext]_(Promise!attestationVars)
<1> USE DEF Promise!AttestationNext
<1>1. ASSUME NEW list \in SignRequests, NEW req \in ReqForParam, SetMessageSignatures(list, req)
      PROVE  Promise!Attest
  <2>1. req \in Requests
    BY RequestAssumption DEF ReqForParam
  <2> QED
    BY <1>1, <2>1, SignAttests
<1>2. ASSUME NEW keys, NEW req, BeginVerify(keys, req)
      PROVE  Promise!Ask
  <2>1. /\ call.status = "none" /\ call'.status # "none"
        /\ call'.started = now /\ call'.results = <<>>
        /\ UNCHANGED <<now, message, signed>>
    BY <1>2, HeadersOutcomes DEF BeginVerify
  <2>2. ~Inquiry.open
    BY <2>1 DEF Inquiry
  <2>3. [k \in DOMAIN call'.results |-> call'.results[k].ok] = <<>>
    BY <2>1, EmptyIsSeq
  <2>4. Inquiry'.open /\ Inquiry'.started = now /\ Inquiry'.answers = <<>>
    BY <2>1, <2>3 DEF Inquiry
  <2> QED
    BY <2>1, <2>2, <2>4 DEF Promise!Ask, Attestations
<1>3. CASE CheckSignature
  <2>1. IsCall(call)
    BY <1>3 DEF Inv, TypeOK, CheckSignature, NoCall
  <2>2. /\ call.status # "none" /\ call'.status # "none"
        /\ call'.req = call.req /\ call'.started = call.started
        /\ call'.keys = call.keys /\ call'.results = call.results
        /\ UNCHANGED <<now, message, signed>>
    BY <1>3, <2>1 DEF CheckSignature, IsCall
  <2>3. UNCHANGED Inquiry
    BY <2>2 DEF Inquiry
  <2> QED
    BY <2>2, <2>3 DEF Promise!attestationVars, Attestations
<1>4. ASSUME Return
      PROVE  Promise!Close
  BY <1>4 DEF Return, NoCall, Promise!Close, Promise!Closed, Inquiry, Attestations
<1>5. ASSUME Tick
      PROVE  Promise!Wait
  BY <1>5 DEF Tick, Promise!Wait, Inquiry, Attestations
<1>6. CASE Environment /\ ~Tick
  <2>1. call.status = "none" /\ UNCHANGED <<now, signed, call>>
    BY <1>6 DEF Environment, Rewrite, MergeLines, Strip
  <2>2. Promise!Change
    BY <2>1 DEF Promise!Change, Inquiry, Attestations
  <2> QED
    BY <2>2
<1>7. CASE UNCHANGED vars
  BY <1>7 DEF vars, Promise!attestationVars, Inquiry, Attestations
<1> QED
  BY <1>1, <1>2, <1>3, <1>4, <1>5, <1>6, <1>7, FinishKeyAnswers
     DEF Next, Sign, Verify, Environment

(* Signing and verifying implement the abstract specification: every        *)
(* signing is an attestation of what is so, every result of a verification  *)
(* an answer the promise allows, and everything else goes unnoticed.        *)
THEOREM SigningKeepsPromise == Spec => KeepsPromise
<1>1. Init => Promise!AttestationInit
  BY EmptyIsSeq DEF Init, NoCall, Promise!AttestationInit, Promise!Closed, Attestations, Inquiry
<1> QED
  BY <1>1, PromiseStep, Invariance, PTL DEF Spec, KeepsPromise, Promise!AttestationSpec

-----------------------------------------------------------------------------
(* Nothing hides an intact signature                                        *)

(* What was signed is determined by the parameters and the values.          *)
BaseInv ==
  \A s \in DOMAIN signed :
    LET params == signed[s].base.params
    IN  /\ signed[s].base = [lines |-> [i \in DOMAIN params.covered |->
                                         <<params.covered[i], signed[s].values[i]>>],
                             params |-> params]
        /\ IsParams(params)

(* The k-th key ought to accept this entry.                                 *)
Deserves(k, entry) ==
  /\ IsCandidate(call.keys[k].keyid, entry)
  /\ Genuine(call.keys[k].key, entry.sig, SignatureBase(message, entry.params, call.req))
  /\ ~PastExpiry(entry.params, now)

(* A verification goes through everything it could extract; what it has     *)
(* behind it deserved no yes, or there is one.                              *)
TriedInv ==
  call.status \in {"running", "done"} =>
    /\ call.entries = ExtractSignatures(message, call.req)
    /\ call.next \in 1..(Len(call.entries) + 1)
    /\ call.status = "running" =>
         \A e \in DOMAIN call.entries :
           e < call.next /\ Deserves(Len(call.results) + 1, call.entries[e]) => call.verified # <<>>
    /\ \A k \in DOMAIN call.results : ~call.results[k].ok =>
         \A e \in DOMAIN call.entries : ~Deserves(k, call.entries[e])

LEMMA ValuesDetermineBase ==
  ASSUME NEW msg, NEW params, NEW req
  PROVE  SignatureBase(msg, params, req) =
           [lines |-> [i \in DOMAIN params.covered |->
                         <<params.covered[i], Values(msg, params, req)[i]>>],
            params |-> params]
<1>1. \A i \in DOMAIN params.covered :
        ComponentValue(msg, params.covered[i], req) = Values(msg, params, req)[i]
  BY DEF Values, ComponentValue, Source
<1> QED
  BY <1>1 DEF SignatureBase

LEMMA SetMessageSignaturesBaseInv ==
  ASSUME TypeOK, BaseInv, NEW list, IsSignRequest(list), NEW req, SetMessageSignatures(list, req)
  PROVE  BaseInv'
<1> DEFINE IsRecord(r) ==
      LET params == r.base.params
      IN  /\ r.base = [lines |-> [i \in DOMAIN params.covered |-> <<params.covered[i], r.values[i]>>],
                       params |-> params]
          /\ IsParams(params)
<1>1. ASSUME NEW i \in DOMAIN list PROVE IsRecord(Recorded(list, req, i))
  <2> DEFINE params == list[i].params
  <2>1. /\ Recorded(list, req, i).base = SignatureBase(message, params, req)
        /\ Recorded(list, req, i).values = Values(message, params, req)
    BY DEF Recorded
  <2>2. Recorded(list, req, i).base.params = params
    BY <2>1, BaseDeterminesValues
  <2>3. IsParams(params)
    BY DEF IsSignRequest
  <2> HIDE DEF params
  <2> QED
    BY <2>1, <2>2, <2>3, ValuesDetermineBase
<1>2. \A s \in DOMAIN signed : IsRecord(signed[s])
  BY DEF BaseInv
<1> HIDE DEF IsRecord
<1>3. \A s \in DOMAIN signed' : IsRecord(signed'[s])
  BY <1>1, <1>2, HistoryGrows DEF TypeOK
<1> QED
  BY <1>3 DEF BaseInv, IsRecord

(* What deserves a yes later in the call did so before.                     *)
LEMMA DeservedBefore ==
  ASSUME TypeOK, BaseInv, now' \in Nat, now <= now', message' = message, signed' = signed,
         call'.keys = call.keys, call'.req = call.req,
         NEW k, NEW entry, Deserves(k, entry)'
  PROVE  Deserves(k, entry)
<1>1. /\ IsCandidate(call.keys[k].keyid, entry)
      /\ Genuine(call.keys[k].key, entry.sig, SignatureBase(message, entry.params, call.req))
  BY DEF Deserves, Genuine
<1>2. entry.params.expires \subseteq Nat
  <2>1. /\ entry.sig \in DOMAIN signed
        /\ signed[entry.sig].base = SignatureBase(message, entry.params, call.req)
    BY <1>1 DEF Genuine
  <2>2. signed[entry.sig].base.params = entry.params
    BY <2>1, BaseDeterminesValues
  <2> QED
    BY <2>1, <2>2 DEF BaseInv, IsParams
<1>3. now \in Nat
  BY BoundAssumption DEF TypeOK
<1>4. ~PastExpiry(entry.params, now)
  BY <1>2, <1>3 DEF Deserves, PastExpiry
<1> QED
  BY <1>1, <1>4 DEF Deserves

LEMMA DeservingIsOk ==
  ASSUME NEW k, NEW entry, Deserves(k, entry)
  PROVE  CheckOutcome(call.keys[k].key, entry) = "ok"
<1>1. ~IsExpired(entry.params, now)
  BY DEF Deserves, IsExpired, PastExpiry
<1>2. Genuine(call.keys[k].key, entry.sig, SignatureBase(message, entry.params, call.req)) = TRUE
      /\ LengthOf(entry.sig) = SignatureLength(KeyAlg[call.keys[k].key])
  BY DEF Deserves, Genuine, LengthOf
<1>3. \A alg, len : len = SignatureLength(alg) => VerifyOutcome(alg, TRUE, len) = "ok"
  BY Zenon DEF VerifyOutcome
<1> QED
  BY <1>1, <1>2, <1>3 DEF CheckOutcome

LEMMA EntriesAreSeq ==
  ASSUME NEW msg, IsMessage(msg), NEW req
  PROVE  LET entries == ExtractSignatures(msg, req)
         IN  IsSeq(entries) /\ Len(entries) \in Nat /\ DOMAIN entries = 1..Len(entries)
<1> DEFINE map == HeadersMap(msg)
           at == {i \in DOMAIN map : BaseOk(msg, map[i].params, req)}
<1>1. IsSeq(map) /\ at \subseteq DOMAIN map
  BY HeadersMapIsSeq
<1>2. ExtractSignatures(msg, req) = Selected(map, at)
  BY DEF ExtractSignatures
<1> HIDE DEF map, at
<1> QED
  BY <1>1, <1>2, SelectedIsSeq

LEMMA BeginVerifyTried ==
  ASSUME TypeOK, NEW keys, NEW req, BeginVerify(keys, req)
  PROVE  TriedInv'
<1>1. SUFFICES ASSUME call'.status \in {"running", "done"} PROVE TriedInv'
  BY DEF TriedInv
<1>2. HeadersOutcome(message) = "ok"
  BY <1>1, HeadersOutcomes DEF BeginVerify
<1>3. /\ message' = message /\ call'.req = req /\ call'.entries = ExtractSignatures(message, req)
      /\ call'.next = 1 /\ call'.results = <<>>
  BY <1>2 DEF BeginVerify
<1>4. Len(call'.entries) \in Nat /\ DOMAIN call'.entries = 1..Len(call'.entries)
  BY <1>3, EntriesAreSeq DEF TypeOK
<1>5. \A e \in DOMAIN call'.entries : ~(e < call'.next)
  BY <1>3, <1>4
<1> QED
  BY <1>3, <1>4, <1>5, EmptyIsSeq DEF TriedInv

LEMMA CheckSignatureTried ==
  ASSUME TypeOK, BaseInv, TriedInv, CheckSignature
  PROVE  TriedInv'
<1>1. IsCall(call) /\ call.status = "running" /\ now \in Nat
  BY BoundAssumption DEF TypeOK, CheckSignature, NoCall
<1> DEFINE entry == call.entries[call.next]
           k == Len(call.results) + 1
           outcome == IF IsCandidate(Current.keyid, entry) THEN CheckOutcome(Current.key, entry)
                      ELSE "skipped"
<1>2. /\ call'.keys = call.keys /\ call'.req = call.req /\ call'.entries = call.entries
      /\ call'.results = call.results /\ call'.next = call.next + 1
      /\ call'.verified = IF outcome = "ok" THEN Append(call.verified, entry.name)
                                            ELSE call.verified
      /\ call'.status = IF outcome = "panic" THEN "panic" ELSE "running"
      /\ now' = now /\ message' = message /\ signed' = signed
      /\ call.next \in DOMAIN call.entries
  BY <1>1 DEF CheckSignature, IsCall, After
<1>3. /\ call.entries = ExtractSignatures(message, call.req)
      /\ Len(call.entries) \in Nat /\ DOMAIN call.entries = 1..Len(call.entries)
  BY <1>1, EntriesAreSeq DEF TriedInv, TypeOK
<1>4. Deserves(k, entry) => outcome = "ok"
  <2>1. Current = call.keys[k]
    BY DEF Current
  <2> QED
    BY <2>1, DeservingIsOk DEF Deserves
<1>5. outcome = "ok" => call'.verified # <<>>
  <2>1. /\ Len(Append(call.verified, entry.name)) = Len(call.verified) + 1
        /\ Len(call.verified) \in Nat
    BY <1>1, AppendIsSeq DEF IsCall
  <2>2. Append(call.verified, entry.name) # <<>>
    BY <2>1, EmptyIsSeq
  <2> HIDE DEF outcome
  <2> QED
    BY <1>2, <2>2
<1>6. call.verified # <<>> => call'.verified # <<>>
  BY <1>2, <1>5
<1> HIDE DEF outcome
<1>7. \A j, e : Deserves(j, e)' => Deserves(j, e)
  BY <1>1, <1>2, DeservedBefore
<1>8. ASSUME NEW e \in DOMAIN call.entries, e < call.next + 1, Deserves(k, call.entries[e])
      PROVE  call'.verified # <<>>
  <2>1. CASE e = call.next
    BY <1>4, <1>5, <1>8, <2>1
  <2>2. CASE e # call.next
    <3>1. e < call.next
      BY <1>2, <1>3, <1>8, <2>2
    <3> QED
      BY <1>1, <1>6, <1>8, <3>1 DEF TriedInv
  <2> QED
    BY <2>1, <2>2
<1>9. \A j \in DOMAIN call.results : ~call.results[j].ok =>
         \A e \in DOMAIN call.entries : ~Deserves(j, call.entries[e])
  BY <1>1 DEF TriedInv
<1>10. call'.next \in 1..(Len(call'.entries) + 1)
  BY <1>2, <1>3
<1> HIDE DEF entry
<1> QED
  BY <1>2, <1>3, <1>7, <1>8, <1>9, <1>10 DEF TriedInv

LEMMA FinishKeyTried ==
  ASSUME TypeOK, BaseInv, TriedInv, FinishKey
  PROVE  TriedInv'
<1>1. IsCall(call) /\ call.status = "running" /\ now \in Nat
  BY BoundAssumption DEF TypeOK, FinishKey, NoCall
<1> DEFINE n == Len(call.results)
<1>2. /\ call'.keys = call.keys /\ call'.req = call.req /\ call'.entries = call.entries
      /\ call'.results = Append(call.results, KeyResult) /\ call'.next = 1
      /\ now' = now /\ message' = message /\ signed' = signed
      /\ call.next \notin DOMAIN call.entries
  BY <1>1 DEF FinishKey, IsCall
<1>3. /\ call.entries = ExtractSignatures(message, call.req)
      /\ Len(call.entries) \in Nat /\ DOMAIN call.entries = 1..Len(call.entries)
      /\ call.next \in 1..(Len(call.entries) + 1)
  BY <1>1, EntriesAreSeq DEF TriedInv, TypeOK
<1>4. \A e \in DOMAIN call.entries : e < call.next
  BY <1>2, <1>3
<1>5. /\ n \in Nat /\ DOMAIN call.results = 1..n
      /\ DOMAIN call'.results = 1..(n + 1)
      /\ \A j \in 1..n : call'.results[j] = call.results[j]
      /\ call'.results[n + 1] = KeyResult
  BY <1>1, <1>2, AppendIsSeq, SeqIsSeq DEF IsCall, IsSeq
<1>6. ASSUME ~KeyResult.ok, NEW e \in DOMAIN call.entries PROVE ~Deserves(n + 1, call.entries[e])
  <2>1. CASE IsCandidate(Current.keyid, call.entries[e])
    <3>1. call.verified = <<>>
      BY <1>6, <2>1 DEF KeyResult
    <3> QED
      BY <1>1, <1>4, <3>1 DEF TriedInv
  <2>2. CASE ~IsCandidate(Current.keyid, call.entries[e])
    BY <2>2 DEF Deserves, Current
  <2> QED
    BY <2>1, <2>2
<1>7. \A j, e : Deserves(j, e)' => Deserves(j, e)
  BY <1>1, <1>2, DeservedBefore
<1>8. ASSUME NEW j \in DOMAIN call'.results, ~call'.results[j].ok, NEW e \in DOMAIN call.entries
      PROVE  ~Deserves(j, call.entries[e])
  <2>1. CASE j = n + 1
    BY <1>5, <1>6, <1>8, <2>1
  <2>2. CASE j \in 1..n
    BY <1>1, <1>5, <1>8, <2>2 DEF TriedInv
  <2> QED
    BY <1>5, <2>1, <2>2
<1>9. \A e \in DOMAIN call'.entries : ~(e < call'.next)
  BY <1>2, <1>3
<1> HIDE DEF n
<1> QED
  BY <1>2, <1>3, <1>7, <1>8, <1>9 DEF TriedInv

LEMMA TickTried ==
  ASSUME TypeOK, BaseInv, TriedInv, Tick
  PROVE  TriedInv'
<1>1. now \in Nat /\ now' \in Nat /\ now <= now' /\ UNCHANGED <<message, signed, call>>
  BY BoundAssumption DEF TypeOK, Tick
<1>2. \A j, e : Deserves(j, e)' => Deserves(j, e)
  BY <1>1, DeservedBefore
<1> QED
  BY <1>1, <1>2 DEF TriedInv

LEMMA IntactStep ==
  ASSUME TypeOK, BaseInv, TriedInv, [Next]_vars
  PROVE  (BaseInv /\ TriedInv)'
<1>1. CASE Sign
  <2>1. PICK list \in SignRequests, req \in ReqForParam : SetMessageSignatures(list, req)
    BY <1>1 DEF Sign
  <2>2. call' = call /\ call.status = "none"
    BY <2>1 DEF SetMessageSignatures
  <2> QED
    BY <2>1, <2>2, SetMessageSignaturesBaseInv, SignRequestsAre DEF TriedInv
<1>2. CASE Verify
  <2>1. signed' = signed
    BY <1>2 DEF Verify, BeginVerify, CheckSignature, FinishKey, Return
  <2>2. Return => call'.status = "none"
    BY DEF Return, NoCall
  <2>3. TriedInv'
    BY <1>2, <2>2, BeginVerifyTried, CheckSignatureTried, FinishKeyTried DEF Verify, TriedInv
  <2> QED
    BY <2>1, <2>3 DEF BaseInv
<1>3. CASE Tick
  BY <1>3, TickTried DEF BaseInv, Tick
<1>4. CASE Environment /\ ~Tick
  <2>1. call' = call /\ call.status = "none" /\ signed' = signed
    BY <1>4 DEF Environment, Rewrite, MergeLines, Strip
  <2> QED
    BY <2>1 DEF BaseInv, TriedInv
<1>5. CASE UNCHANGED vars
  BY <1>5 DEF vars, BaseInv, TriedInv, Deserves, Genuine
<1> QED
  BY <1>1, <1>2, <1>3, <1>4, <1>5 DEF Next, Environment

(* An entry whose base can be built is among those a verification goes      *)
(* through, unless a later one has its name.                                *)
Fields(msg) == [signature |-> msg.headers["signature"], input |-> msg.headers["signature-input"]]

LEMMA PairsAlike ==
  ASSUME NEW msg, IsMessage(msg), NEW history, Pairs(msg.headers, history)
  PROVE  LET f == Fields(msg)
         IN  /\ IsSeq(f.signature) /\ IsSeq(f.input)
             /\ Alike(f.signature, f.input) /\ Alike(f.input, f.signature)
             /\ DOMAIN f.signature = 1..Len(f.signature) /\ DOMAIN f.input = DOMAIN f.signature
<1>1. /\ IsSeq(Fields(msg).signature) /\ IsSeq(Fields(msg).input)
      /\ Len(Fields(msg).signature) = Len(Fields(msg).input)
      /\ \A i \in DOMAIN Fields(msg).signature : Fields(msg).signature[i].key = Fields(msg).input[i].key
  BY DEF Fields, IsMessage, SignatureFields, Pairs, PairAt
<1>2. /\ DOMAIN Fields(msg).signature = 1..Len(Fields(msg).signature)
      /\ DOMAIN Fields(msg).input = 1..Len(Fields(msg).input)
  BY <1>1, SeqIsSeq DEF IsSeq
<1> QED
  BY <1>1, <1>2 DEF Alike

LEMMA EntryIsRead ==
  ASSUME NEW msg, IsMessage(msg), NEW history, Pairs(msg.headers, history), NEW req,
         NEW i, NEW key, IsLastOf(Fields(msg).signature, i, key),
         BaseOk(msg, Fields(msg).input[i].val[2], req)
  PROVE  \E e \in DOMAIN ExtractSignatures(msg, req) :
           /\ ExtractSignatures(msg, req)[e].sig = Fields(msg).signature[i].val[2]
           /\ ExtractSignatures(msg, req)[e].params = Fields(msg).input[i].val[2]
<1> DEFINE signature == Fields(msg).signature
           input == Fields(msg).input
           map == HeadersMap(msg)
<1>1. /\ IsSeq(signature) /\ IsSeq(input) /\ Alike(signature, input) /\ IsSeq(map)
      /\ DOMAIN signature = 1..Len(signature) /\ DOMAIN input = DOMAIN signature
  BY HeadersMapIsSeq, PairsAlike
<1>2. /\ DOMAIN map = DOMAIN DictKeys(input)
      /\ \A n \in DOMAIN map :
           map[n] = [name |-> DictKeys(input)[n], sig |-> DictValue(signature, DictKeys(input)[n])[2],
                     params |-> DictValue(input, DictKeys(input)[n])[2]]
  BY DEF HeadersMap, TryParse, Fields
<1> HIDE DEF signature, input, map
<1>3. /\ i \in DOMAIN signature /\ signature[i].key = key
      /\ \A j \in DOMAIN signature : j > i => signature[j].key # key
  BY DEF IsLastOf, signature
<1>4. \A j \in DOMAIN signature : input[j].key = signature[j].key
  BY <1>1 DEF Alike
<1>5. PICK n \in DOMAIN DictKeys(input) : DictKeys(input)[n] = key
  BY <1>1, <1>3, <1>4, DictKeysHas
<1>6. DictValue(signature, key) = signature[i].val
  BY <1>1, <1>3, DictValueIsLast
<1>7. DictValue(input, key) = input[i].val
  BY <1>1, <1>3, <1>4, DictValueIsLast
<1>8. map[n].sig = signature[i].val[2] /\ map[n].params = input[i].val[2] /\ n \in DOMAIN map
  BY <1>2, <1>5, <1>6, <1>7
<1> DEFINE at == {m \in DOMAIN map : BaseOk(msg, map[m].params, req)}
<1>9. n \in at /\ at \subseteq DOMAIN map
  BY <1>8 DEF input
<1>10. ExtractSignatures(msg, req) = Selected(map, at)
  BY DEF ExtractSignatures, map
<1> HIDE DEF at
<1>11. PICK e \in DOMAIN Selected(map, at) : Selected(map, at)[e] = map[n]
  BY <1>1, <1>9, SelectedHas
<1> QED
  BY <1>8, <1>10, <1>11 DEF signature, input

(* An intact signature is one of those entries, with its own parameters.    *)
LEMMA IntactIsRead ==
  ASSUME PairInv, NEW s \in DOMAIN signed, NEW req, BaseOk(message, signed[s].base.params, req),
         NEW i \in DOMAIN message.headers["signature"],
         message.headers["signature"][i].val = <<"bytes", s>>,
         \A j \in DOMAIN message.headers["signature"] :
           j > i => message.headers["signature"][j].key # message.headers["signature"][i].key
  PROVE  \E e \in DOMAIN ExtractSignatures(message, req) :
           /\ ExtractSignatures(message, req)[e].sig = s
           /\ ExtractSignatures(message, req)[e].params = signed[s].base.params
<1> DEFINE signature == Fields(message).signature
           input == Fields(message).input
<1>1. IsLastOf(signature, i, signature[i].key) /\ signature[i].val[2] = s
  BY DEF IsLastOf, Fields
<1>2. input[i].val[2] = signed[s].base.params
  <2>1. DOMAIN signed = 1..Len(signed) /\ Len(signed) \in Nat
    BY SeqIsSeq DEF PairInv, TypeOK, IsSeq
  <2> QED
    BY <1>1, <2>1 DEF PairInv, Pairs, PairAt, Fields
<1>3. IsMessage(message) /\ Pairs(message.headers, signed)
  BY DEF PairInv, TypeOK
<1> HIDE DEF signature, input
<1> QED
  BY <1>1, <1>2, <1>3, EntryIsRead DEF signature, input

(* Nothing else in the message hides an intact signature: foreign entries   *)
(* that cannot be rebuilt, other keys, other names, lines merged on the way. *)
THEOREM IntactIsAlwaysAccepted ==
  ASSUME \A m \in InitialMessages : Pairs(m.headers, <<>>)
  PROVE  Spec => []IntactIsAccepted
<1> DEFINE IntactInv == PairInv /\ BaseInv /\ TriedInv
<1>1. Init => IntactInv
  BY InitTypeOK, EmptyIsSeq DEF Init, PairInv, BaseInv, TriedInv, NoCall
<1>2. IntactInv /\ [Next]_vars => IntactInv'
  BY IntactStep, PairStep DEF PairInv
<1>3. IntactInv => IntactIsAccepted
  <2> SUFFICES ASSUME IntactInv, call.status = "done",
                      NEW k \in DOMAIN call.results, ~call.results[k].ok,
                      NEW s \in DOMAIN signed, signed[s].key = call.keys[k].key,
                      call.keys[k].keyid = {} \/ call.keys[k].keyid = signed[s].base.params.keyid,
                      Intact(s)
               PROVE  FALSE
    BY DEF IntactIsAccepted
  <2> DEFINE params == signed[s].base.params
  <2>1. PICK i \in DOMAIN message.headers["signature"] :
          /\ message.headers["signature"][i].val = <<"bytes", s>>
          /\ \A j \in DOMAIN message.headers["signature"] :
               j > i => message.headers["signature"][j].key # message.headers["signature"][i].key
    BY DEF Intact
  <2>2. /\ BaseOk(message, params, call.req) /\ ~PastExpiry(params, now)
        /\ signed[s].values = Values(message, params, call.req)
    BY DEF Intact
  <2>3. call.entries = ExtractSignatures(message, call.req)
    BY DEF TriedInv
  <2>4. PICK e \in DOMAIN call.entries : call.entries[e].sig = s /\ call.entries[e].params = params
    BY <2>1, <2>2, <2>3, IntactIsRead
  <2>5. signed[s].base = SignatureBase(message, params, call.req)
    BY <2>2, ValuesDetermineBase DEF BaseInv
  <2>6. Deserves(k, call.entries[e])
    BY <2>2, <2>4, <2>5 DEF Deserves, Genuine, IsCandidate
  <2> QED
    BY <2>6 DEF TriedInv
<1> QED
  BY <1>1, <1>2, <1>3, PTL DEF Spec

-----------------------------------------------------------------------------
(* A signing keeps verifiable what was so before                            *)

(* The two headers are accepted when they are dictionaries and whatever     *)
(* they say last under a name can be read.                                  *)
Legible(msg, i) ==
  /\ Fields(msg).signature[i].val[1] = "bytes"
  /\ Fields(msg).input[i].val[1] = "inner"
  /\ ParamsOutcome(Fields(msg).input[i].val[2]) = "ok"

Acceptable(msg) ==
  /\ Fields(msg).signature # <<>>
  /\ IsDictionary(Fields(msg).signature) /\ IsDictionary(Fields(msg).input)
  /\ \A i, key : IsLastOf(Fields(msg).signature, i, key) => Legible(msg, i)

(* The names of the two dictionaries, and where their values stand.         *)
LEMMA NamesAre ==
  ASSUME NEW msg, IsMessage(msg), NEW history, Pairs(msg.headers, history)
  PROVE  LET f == Fields(msg)
             keys == DictKeys(f.input)
         IN  /\ DictKeys(f.signature) = keys
             /\ \A n \in DOMAIN keys : \E m :
                  /\ IsLastOf(f.signature, m, keys[n])
                  /\ DictValue(f.signature, keys[n]) = f.signature[m].val
                  /\ DictValue(f.input, keys[n]) = f.input[m].val
             /\ \A m, key : IsLastOf(f.signature, m, key) => \E n \in DOMAIN keys :
                  /\ DictValue(f.signature, keys[n]) = f.signature[m].val
                  /\ DictValue(f.input, keys[n]) = f.input[m].val
<1> DEFINE signature == Fields(msg).signature
           input == Fields(msg).input
           keys == DictKeys(input)
<1>1. /\ IsSeq(signature) /\ IsSeq(input) /\ Alike(signature, input)
      /\ DOMAIN signature = 1..Len(signature) /\ DOMAIN input = DOMAIN signature
  BY PairsAlike
<1> HIDE DEF signature, input
<1>2. DictKeys(signature) = keys
  BY <1>1, PairsAlike, DictKeysAlike DEF signature, input
<1>3. \A j \in DOMAIN signature : input[j].key = signature[j].key
  BY <1>1 DEF Alike
<1>4. ASSUME NEW m, NEW key, IsLastOf(signature, m, key)
      PROVE  DictValue(signature, key) = signature[m].val /\ DictValue(input, key) = input[m].val
  <2>1. /\ m \in DOMAIN signature /\ signature[m].key = key
        /\ \A j \in DOMAIN signature : j > m => signature[j].key # key
    BY <1>4 DEF IsLastOf
  <2> QED
    BY <1>1, <1>3, <2>1, DictValueIsLast
<1>5. ASSUME NEW n \in DOMAIN keys
      PROVE  \E m : IsLastOf(signature, m, keys[n])
  <2>1. PICK i \in DOMAIN input : keys[n] = input[i].key
    BY <1>1, DictKeysFrom
  <2>2. i \in DOMAIN signature /\ keys[n] = signature[i].key
    BY <1>1, <1>3, <2>1
  <2> QED
    BY <1>1, <2>2, LastOfKey
<1>6. ASSUME NEW m, NEW key, IsLastOf(signature, m, key)
      PROVE  \E n \in DOMAIN keys : keys[n] = key
  <2>1. m \in DOMAIN input /\ input[m].key = key
    BY <1>1, <1>3, <1>6 DEF IsLastOf
  <2> QED
    BY <1>1, <2>1, DictKeysHas
<1> HIDE DEF keys
<1> QED
  BY <1>2, <1>4, <1>5, <1>6 DEF signature, input, keys

LEMMA HeadersAccepted ==
  ASSUME NEW msg, IsMessage(msg), NEW history, Pairs(msg.headers, history)
  PROVE  HeadersOutcome(msg) = "ok" <=> Acceptable(msg)
<1> DEFINE signature == Fields(msg).signature
           input == Fields(msg).input
           keys == DictKeys(input)
           Outcome(n) == ParamsOutcome(DictValue(input, keys[n])[2])
           refused == {n \in DOMAIN keys : Outcome(n) # "ok"}
<1>1. /\ IsSeq(signature) /\ IsSeq(input) /\ Len(signature) = Len(input)
      /\ DOMAIN keys = 1..Len(keys) /\ DictKeys(signature) = keys
  BY PairsAlike, DictKeysIsSeq, NamesAre DEF Alike
<1>2. HeadersOutcome(msg) =
        IF ~(signature # <<>> /\ input # <<>>) \/ ~DictionariesOk(signature, input) THEN "err"
        ELSE IF refused = {} THEN "ok"
        ELSE Outcome(CHOOSE n \in refused : \A j \in refused : n <= j)
  <2>1. HeadersOutcome(msg) = IF ~(signature # <<>> /\ input # <<>>) THEN "err"
                              ELSE TryParseOutcome(signature, input)
    BY DEF HeadersOutcome, HasMessageSignature, Fields
  <2> HIDE DEF signature, input
  <2>2. TryParseOutcome(signature, input) =
          IF ~DictionariesOk(signature, input) THEN "err"
          ELSE IF refused = {} THEN "ok"
          ELSE Outcome(CHOOSE n \in refused : \A j \in refused : n <= j)
    BY DEF TryParseOutcome
  <2> HIDE DEF refused, Outcome
  <2> QED
    BY <2>1, <2>2
<1>3. refused # {} => (CHOOSE n \in refused : \A j \in refused : n <= j) \in refused
  <2>1. refused \subseteq Nat
    BY <1>1
  <2> HIDE DEF refused
  <2> QED
    BY <2>1, LeastElement
<1>4. HeadersOutcome(msg) = "ok" <=>
        signature # <<>> /\ input # <<>> /\ DictionariesOk(signature, input) /\ refused = {}
  <2> DEFINE first == CHOOSE n \in refused : \A j \in refused : n <= j
  <2>1. refused # {} => Outcome(first) # "ok"
    BY <1>3
  <2> HIDE DEF first, refused, Outcome
  <2> QED
    BY <1>2, <2>1 DEF first
<1>5. signature # <<>> <=> input # <<>>
  <2>1. \A S : \A e \in Seq(S) : e = <<>> <=> Len(e) = 0
    BY EmptySeq, LenProperties
  <2> HIDE DEF signature, input
  <2> QED
    BY <1>1, <2>1 DEF IsSeq
<1>6. DictionariesOk(signature, input) <=>
        /\ IsDictionary(signature) /\ IsDictionary(input)
        /\ \A n \in DOMAIN keys : /\ DictValue(signature, keys[n])[1] = "bytes"
                                   /\ DictValue(input, keys[n])[1] = "inner"
  <2>1. IsDictionary(signature) => IsText(signature)
    BY DEF IsDictionary, IsText
  <2>2. IsDictionary(input) => IsText(input)
    BY DEF IsDictionary, IsText
  <2> HIDE DEF signature, input, keys
  <2>3. ToSet(keys) = {keys[n] : n \in DOMAIN keys}
    BY DEF ToSet
  <2>4. DictKeys(input) = keys
    BY DEF keys
  <2> QED
    BY <1>1, <2>1, <2>2, <2>3, <2>4 DEF DictionariesOk
<1> DEFINE AllRead == \A n \in DOMAIN keys :
             /\ DictValue(signature, keys[n])[1] = "bytes"
             /\ DictValue(input, keys[n])[1] = "inner"
             /\ Outcome(n) = "ok"
<1>7. HeadersOutcome(msg) = "ok" <=>
        signature # <<>> /\ IsDictionary(signature) /\ IsDictionary(input) /\ AllRead
  BY <1>4, <1>5, <1>6
<1>8. AllRead <=> \A m, key : IsLastOf(signature, m, key) => Legible(msg, m)
  <2>1. ASSUME AllRead, NEW m, NEW key, IsLastOf(signature, m, key)
        PROVE  Legible(msg, m)
    BY <2>1, NamesAre DEF Legible
  <2>2. ASSUME \A m, key : IsLastOf(signature, m, key) => Legible(msg, m)
        PROVE  AllRead
    BY <2>2, NamesAre DEF Legible
  <2> QED
    BY <2>1, <2>2
<1> QED
  BY <1>7, <1>8 DEF Acceptable

(* The signings of one call, numbered after those before it.                *)
LEMMA NewSignings ==
  ASSUME TypeOK, NEW list \in SignRequests, NEW req, SetMessageSignatures(list, req)
  PROVE  /\ \A j \in DOMAIN list :
              LET s == Len(signed) + j
              IN  /\ s \in DOMAIN signed' \ DOMAIN signed
                  /\ signed'[s].base = SignatureBase(message, list[j].params, req)
                  /\ signed'[s].base.params = list[j].params
                  /\ signed'[s].name = SignatureName(list[j].name)
         /\ \A s \in DOMAIN signed' \ DOMAIN signed : \E j \in DOMAIN list : s = Len(signed) + j
<1>1. /\ IsSignRequest(list) /\ DOMAIN list = 1..Len(list) /\ Len(list) \in Nat
      /\ IsSeq(signed) /\ DOMAIN signed = 1..Len(signed) /\ Len(signed) \in Nat
  BY SignRequestsAre, SeqIsSeq DEF IsSignRequest, IsSeq, TypeOK
<1>2. /\ IsSeq(signed') /\ Len(signed') = Len(signed) + Len(list)
      /\ \A s \in DOMAIN signed' \ DOMAIN signed :
           s - Len(signed) \in DOMAIN list /\ signed'[s] = Recorded(list, req, s - Len(signed))
  BY <1>1, HistoryGrows
<1>3. DOMAIN signed' = 1..(Len(signed) + Len(list))
  BY <1>2, SeqIsSeq DEF IsSeq
<1>4. ASSUME NEW j \in DOMAIN list
      PROVE  /\ Len(signed) + j \in DOMAIN signed' \ DOMAIN signed
             /\ signed'[Len(signed) + j] = Recorded(list, req, j)
  <2>1. Len(signed) + j \in DOMAIN signed' \ DOMAIN signed /\ (Len(signed) + j) - Len(signed) = j
    BY <1>1, <1>3
  <2> QED
    BY <1>2, <2>1
<1>5. ASSUME NEW j \in DOMAIN list
      PROVE  /\ Recorded(list, req, j).base = SignatureBase(message, list[j].params, req)
             /\ Recorded(list, req, j).base.params = list[j].params
             /\ Recorded(list, req, j).name = SignatureName(list[j].name)
  BY BaseDeterminesValues DEF Recorded
<1>6. \A s \in DOMAIN signed' \ DOMAIN signed : s = Len(signed) + (s - Len(signed))
  BY <1>1, <1>3
<1> QED
  BY <1>2, <1>4, <1>5, <1>6

(* The members that such a call adds to the two fields.                     *)
AddedSignature(list, j) ==
  Member("entry", SignatureName(list[j].name), <<"bytes", Len(signed) + j>>)
AddedInput(list, j) ==
  Member("entry", SignatureName(list[j].name), <<"inner", list[j].params>>)

LEMMA AllAreAppended ==
  ASSUME TypeOK, NEW list \in SignRequests, NEW req, SetMessageSignatures(list, req),
         NEW names, names = {signed'[s].name : s \in DOMAIN signed' \ DOMAIN signed},
         SignsApart(DOMAIN signed' \ DOMAIN signed, names)
  PROVE  /\ \A j \in DOMAIN list : SignatureName(list[j].name) \in names
         /\ message'.headers["signature"] =
              message.headers["signature"] \o [j \in DOMAIN list |-> AddedSignature(list, j)]
         /\ message'.headers["signature-input"] =
              message.headers["signature-input"] \o [j \in DOMAIN list |-> AddedInput(list, j)]
<1>1. DOMAIN list = 1..Len(list) /\ Len(list) \in Nat
  BY RequestAssumption, SeqIsSeq DEF IsSeq
<1>2. ASSUME NEW j \in DOMAIN list
      PROVE  /\ SignatureName(list[j].name) \in names
             /\ SignatureHeaderValue(SignatureName(list[j].name), Len(signed) + j) = AddedSignature(list, j)
             /\ InputValue(list[j]) = AddedInput(list, j)
  <2> DEFINE name == SignatureName(list[j].name)
             params == list[j].params
  <2>1. name \in names /\ DisplayForm(params) = "entry"
    BY NewSignings DEF SignsApart
  <2>2. NameForm(name) = "entry"
    BY <2>1 DEF SignsApart, NameForm
  <2> QED
    BY <2>1, <2>2 DEF SignatureHeaderValue, InputValue, SignatureInputHeaderValue,
                      AddedSignature, AddedInput
<1>3. \A j \in DOMAIN list : InputValue(list[j]).form = "entry"
  BY <1>2 DEF AddedInput, Member
<1>4. Appended(list) = Len(list)
  BY <1>3 DEF Appended
<1>5. /\ message'.headers["signature-input"] =
           message.headers["signature-input"] \o [j \in DOMAIN list |-> InputValue(list[j])]
      /\ message'.headers["signature"] =
           message.headers["signature"] \o
             [j \in DOMAIN list |-> SignatureHeaderValue(SignatureName(list[j].name), Len(signed) + j)]
  BY <1>1, <1>4 DEF SetMessageSignatures, WithSignatures, SignaturesAppended, TypeOK, IsMessage,
                    SignatureFields
<1> QED
  BY <1>2, <1>5

LEMMA SigningGrows ==
  ASSUME TypeOK, NEW list \in SignRequests, NEW req, SetMessageSignatures(list, req),
         NEW names, names = {signed'[s].name : s \in DOMAIN signed' \ DOMAIN signed},
         SignsApart(DOMAIN signed' \ DOMAIN signed, names)
  PROVE  GrowsTo(message, message', SignatureFields, names)
<1> DEFINE signatures == [j \in DOMAIN list |-> AddedSignature(list, j)]
           inputs == [j \in DOMAIN list |-> AddedInput(list, j)]
<1>1. DOMAIN list = 1..Len(list) /\ Len(list) \in Nat
  BY RequestAssumption, SeqIsSeq DEF IsSeq
<1>2. /\ signatures = [j \in 1..Len(list) |-> signatures[j]]
      /\ inputs = [j \in 1..Len(list) |-> inputs[j]]
  BY <1>1
<1>3. /\ \A j \in DOMAIN list : SignatureName(list[j].name) \in names
      /\ message'.headers["signature"] = message.headers["signature"] \o signatures
      /\ message'.headers["signature-input"] = message.headers["signature-input"] \o inputs
  BY AllAreAppended
<1>4. ASSUME NEW j \in DOMAIN list
      PROVE  /\ \E key \in names : \E val : val[1] # "loose" /\ signatures[j] = Member("entry", key, val)
             /\ \E key \in names : \E val : val[1] # "loose" /\ inputs[j] = Member("entry", key, val)
  <2>1. PICK key \in names : key = SignatureName(list[j].name)
    BY <1>3
  <2>2. PICK bytes, inner : /\ bytes = <<"bytes", Len(signed) + j>>
                            /\ inner = <<"inner", list[j].params>>
    OBVIOUS
  <2>3. signatures[j] = Member("entry", key, bytes) /\ inputs[j] = Member("entry", key, inner)
    BY <2>1, <2>2 DEF AddedSignature, AddedInput
  <2>4. bytes[1] # "loose" /\ inner[1] # "loose"
    BY <2>2
  <2> QED
    BY <2>3, <2>4
<1>5. DOMAIN signatures = DOMAIN list /\ DOMAIN inputs = DOMAIN list
  OBVIOUS
<1> HIDE DEF signatures, inputs
<1>6. IsSeq(signatures) /\ IsSeq(inputs)
  BY <1>1, <1>2, FunIsSeq
<1>7. Lines(signatures, names) /\ Lines(inputs, names)
  BY <1>4, <1>5, <1>6 DEF Lines
<1>8. IsSeq(message.headers["signature"]) /\ IsSeq(message.headers["signature-input"])
  BY DEF TypeOK, IsMessage, SignatureFields
<1>9. \A f \in SignatureFields :
        IsSeq(message.headers[f]) /\ \E more : Lines(more, names) /\ message'.headers[f] = message.headers[f] \o more
  BY <1>3, <1>7, <1>8 DEF SignatureFields
<1>10. /\ message' = [message EXCEPT !.headers = WithSignatures(@, list, Len(signed))]
       /\ {"kind", "headers"} \subseteq DOMAIN message
  BY DEF SetMessageSignatures, TypeOK, IsMessage
<1>11. /\ message'.headers = WithSignatures(message.headers, list, Len(signed))
       /\ \A x \in DOMAIN message : x # "headers" => message'[x] = message[x]
  BY <1>10
<1>12. /\ DOMAIN message'.headers = DOMAIN message.headers
       /\ \A f \in DOMAIN message.headers :
            f \notin SignatureFields => message'.headers[f] = message.headers[f]
  BY <1>11 DEF WithSignatures, SignatureFields
<1>13. /\ message'.kind = message.kind
       /\ IF message.kind = "request" THEN message'.method = message.method /\ message'.uri = message.uri
                                      ELSE message'.status = message.status
  BY <1>11 DEF TypeOK, IsMessage
<1> QED
  BY <1>9, <1>12, <1>13 DEF GrowsTo

(* Where the added members stand.                                           *)
LEMMA AddedAt ==
  ASSUME PairInv, NEW list \in SignRequests, NEW req, SetMessageSignatures(list, req),
         NEW names, names = {signed'[s].name : s \in DOMAIN signed' \ DOMAIN signed},
         SignsApart(DOMAIN signed' \ DOMAIN signed, names)
  PROVE  LET f == Fields(message)
             g == Fields(message')
             L == Len(f.signature)
         IN  /\ L \in Nat /\ DOMAIN f.signature = 1..L /\ DOMAIN g.input = DOMAIN g.signature
             /\ \A i \in DOMAIN f.signature : /\ i \in DOMAIN g.signature
                                              /\ g.signature[i] = f.signature[i]
                                              /\ g.input[i] = f.input[i]
             /\ \A j \in DOMAIN list : /\ L + j \in DOMAIN g.signature
                                       /\ g.signature[L + j] = AddedSignature(list, j)
                                       /\ g.input[L + j] = AddedInput(list, j)
             /\ \A i \in DOMAIN g.signature \ DOMAIN f.signature : \E j \in DOMAIN list : i = L + j
<1> DEFINE signatures == [j \in DOMAIN list |-> AddedSignature(list, j)]
           inputs == [j \in DOMAIN list |-> AddedInput(list, j)]
           sig == message.headers["signature"]
           inp == message.headers["signature-input"]
           L == Len(sig)
<1>1. DOMAIN list = 1..Len(list) /\ Len(list) \in Nat
  BY RequestAssumption, SeqIsSeq DEF IsSeq
<1>2. /\ signatures = [j \in 1..Len(list) |-> signatures[j]]
      /\ inputs = [j \in 1..Len(list) |-> inputs[j]]
      /\ \A j \in DOMAIN list : signatures[j] = AddedSignature(list, j) /\ inputs[j] = AddedInput(list, j)
  BY <1>1
<1>3. message'.headers["signature"] = sig \o signatures /\ message'.headers["signature-input"] = inp \o inputs
  BY AllAreAppended DEF PairInv
<1>4. /\ IsSeq(sig) /\ IsSeq(inp) /\ Len(inp) = L /\ L \in Nat
      /\ DOMAIN sig = 1..L
  BY SeqIsSeq DEF PairInv, Pairs, TypeOK, IsMessage, SignatureFields, IsSeq
<1> HIDE DEF signatures, inputs
<1>5. IsSeq(signatures) /\ IsSeq(inputs) /\ Len(signatures) = Len(list) /\ Len(inputs) = Len(list)
  BY <1>1, <1>2, FunIsSeq
<1> HIDE DEF sig, inp
<1>6. /\ DOMAIN (sig \o signatures) = 1..(L + Len(list)) /\ DOMAIN (inp \o inputs) = 1..(L + Len(list))
      /\ \A i \in 1..(L + Len(list)) :
           /\ (sig \o signatures)[i] = IF i <= L THEN sig[i] ELSE signatures[i - L]
           /\ (inp \o inputs)[i] = IF i <= L THEN inp[i] ELSE inputs[i - L]
  BY <1>4, <1>5, ConcatIsSeq
<1>7. ASSUME NEW j \in DOMAIN list
      PROVE  /\ L + j \in 1..(L + Len(list))
             /\ (sig \o signatures)[L + j] = AddedSignature(list, j)
             /\ (inp \o inputs)[L + j] = AddedInput(list, j)
  <2>1. L + j \in 1..(L + Len(list)) /\ ~(L + j <= L) /\ (L + j) - L = j
    BY <1>1, <1>4
  <2> QED
    BY <1>2, <1>6, <2>1
<1>8. \A i \in (1..(L + Len(list))) \ (1..L) : i - L \in DOMAIN list /\ i = L + (i - L)
  BY <1>1, <1>4
<1>9. \A i \in 1..L : i \in 1..(L + Len(list)) /\ i <= L
  BY <1>1, <1>4
<1>10. /\ Fields(message).signature = sig /\ Fields(message).input = inp
       /\ Fields(message').signature = sig \o signatures /\ Fields(message').input = inp \o inputs
  BY <1>3 DEF Fields, sig, inp
<1> HIDE DEF L
<1>11. Len(sig) = L
  BY DEF L
<1> QED
  BY <1>4, <1>6, <1>7, <1>8, <1>9, <1>10, <1>11

(* What was the last member of a name still is, and each added member is    *)
(* the last one of its name.                                                *)
LEMMA LastStays ==
  ASSUME PairInv, NEW list \in SignRequests, NEW req, SetMessageSignatures(list, req),
         NEW names, names = {signed'[s].name : s \in DOMAIN signed' \ DOMAIN signed},
         SignsApart(DOMAIN signed' \ DOMAIN signed, names)
  PROVE  LET f == Fields(message).signature
             g == Fields(message').signature
         IN  /\ \A i, key : IsLastOf(f, i, key) => IsLastOf(g, i, key)
             /\ \A i, key : IsLastOf(g, i, key) /\ i \in DOMAIN f => IsLastOf(f, i, key)
             /\ \A j \in DOMAIN list : IsLastOf(g, Len(f) + j, SignatureName(list[j].name))
<1> DEFINE f == Fields(message).signature
           g == Fields(message').signature
           L == Len(f)
           Name(j) == SignatureName(list[j].name)
<1>1. DOMAIN list = 1..Len(list) /\ Len(list) \in Nat
  BY RequestAssumption, SeqIsSeq DEF IsSeq
<1>2. /\ L \in Nat /\ DOMAIN f = 1..L
      /\ \A i \in DOMAIN f : i \in DOMAIN g /\ g[i] = f[i]
      /\ \A j \in DOMAIN list : L + j \in DOMAIN g /\ g[L + j] = AddedSignature(list, j)
      /\ \A i \in DOMAIN g \ DOMAIN f : \E j \in DOMAIN list : i = L + j
  BY AddedAt
<1>3. \A j \in DOMAIN list : g[L + j].key = Name(j) /\ Name(j) \in names
  <2>1. \A j \in DOMAIN list : AddedSignature(list, j).key = Name(j)
    BY DEF AddedSignature, Member
  <2>2. \A j \in DOMAIN list : Name(j) \in names
    BY AllAreAppended DEF PairInv
  <2> HIDE DEF f, g, L, Name
  <2> QED
    BY <1>2, <2>1, <2>2
<1>4. \A i \in DOMAIN f : f[i].key \notin names
  BY DEF SignsApart, Fields
<1>5. ASSUME NEW j \in DOMAIN list, NEW l \in DOMAIN list, j # l
      PROVE  Name(j) # Name(l)
  <2>1. Len(signed) \in Nat
    BY SeqIsSeq DEF PairInv, TypeOK, IsSeq
  <2>2. PICK s \in DOMAIN signed' \ DOMAIN signed : s = Len(signed) + j /\ signed'[s].name = Name(j)
    BY NewSignings DEF PairInv
  <2>3. PICK t \in DOMAIN signed' \ DOMAIN signed : t = Len(signed) + l /\ signed'[t].name = Name(l)
    BY NewSignings DEF PairInv
  <2>4. s # t
    BY <1>1, <1>5, <2>1, <2>2, <2>3
  <2> QED
    BY <2>2, <2>3, <2>4 DEF SignsApart
<1> HIDE DEF f, g, L, Name
<1>6. ASSUME NEW i, NEW key, IsLastOf(f, i, key)
      PROVE  IsLastOf(g, i, key)
  <2>1. i \in DOMAIN f /\ f[i].key = key /\ \A j \in DOMAIN f : j > i => f[j].key # key
    BY <1>6 DEF IsLastOf
  <2>2. key \notin names
    BY <1>4, <2>1
  <2>3. \A j \in DOMAIN g : j > i => g[j].key # key
    BY <1>2, <1>3, <2>1, <2>2
  <2> QED
    BY <1>2, <2>1, <2>3 DEF IsLastOf
<1>7. \A i, key : IsLastOf(g, i, key) /\ i \in DOMAIN f => IsLastOf(f, i, key)
  BY <1>2 DEF IsLastOf
<1>8. ASSUME NEW j \in DOMAIN list
      PROVE  IsLastOf(g, L + j, Name(j))
  <2>1. ASSUME NEW i \in DOMAIN g, i > L + j
        PROVE  g[i].key # Name(j)
    <3>1. i \notin DOMAIN f
      BY <1>1, <1>2, <2>1
    <3>2. PICK l \in DOMAIN list : i = L + l
      BY <1>2, <3>1
    <3>3. l # j
      BY <1>1, <1>2, <2>1, <3>2
    <3> QED
      BY <1>3, <1>5, <3>2, <3>3
  <2> QED
    BY <1>2, <1>3, <2>1 DEF IsLastOf
<1> QED
  BY <1>6, <1>7, <1>8 DEF f, g, L, Name

(* What does not cover the added members is what it was.                    *)
LEMMA BaseGrows ==
  ASSUME NEW old, NEW new, NEW names, GrowsTo(old, new, SignatureFields, names),
         NEW params, IsParams(params), ~CoversSignatures(params, names),
         NEW req, BaseOk(old, params, req)
  PROVE  BaseOk(new, params, req) /\ SignatureBase(new, params, req) = SignatureBase(old, params, req)
<1>1. ASSUME NEW i \in DOMAIN params.covered
      PROVE  ReadsOthers(params.covered[i], SignatureFields, names)
  <2> DEFINE id == params.covered[i]
             keys == {p.arg : p \in {q \in ToSet(id.params) : q.p = "key"}}
  <2>1. /\ ToLower(id.name) \in SignatureFields => keys # {} /\ keys \cap names = {}
        /\ id.name # "@signature-params"
    BY DEF CoversSignatures
  <2>2. keys # {} => \E n \in DOMAIN id.params : id.params[n].p = "key"
    BY DEF ToSet
  <2>3. \A n \in DOMAIN id.params : id.params[n].p = "key" => id.params[n].arg \in keys
    BY DEF ToSet
  <2> HIDE DEF id, keys
  <2>4. ReadsOthers(id, SignatureFields, names)
    BY <2>1, <2>2, <2>3 DEF ReadsOthers
  <2> QED
    BY <2>4 DEF id
<1>2. \A i \in DOMAIN params.covered :
        /\ ComponentOk(new, params.covered[i], req)
        /\ ComponentValue(new, params.covered[i], req) = ComponentValue(old, params.covered[i], req)
  BY <1>1, ComponentGrows DEF BaseOk, IsParams
<1> QED
  BY <1>2 DEF BaseOk, SignatureBase

(* Where the entries of a verification stand.                               *)
LEMMA EntryStands ==
  ASSUME NEW msg, IsMessage(msg), NEW history, Pairs(msg.headers, history), NEW req,
         NEW e \in DOMAIN ExtractSignatures(msg, req)
  PROVE  \E m, key : /\ IsLastOf(Fields(msg).signature, m, key)
                     /\ ExtractSignatures(msg, req)[e].sig = Fields(msg).signature[m].val[2]
                     /\ ExtractSignatures(msg, req)[e].params = Fields(msg).input[m].val[2]
<1> DEFINE map == HeadersMap(msg)
           at == {i \in DOMAIN map : BaseOk(msg, map[i].params, req)}
           keys == DictKeys(Fields(msg).input)
<1>1. IsSeq(map) /\ at \subseteq DOMAIN map
  BY HeadersMapIsSeq
<1>2. ExtractSignatures(msg, req) = Selected(map, at)
  BY DEF ExtractSignatures
<1>3. /\ DOMAIN map = DOMAIN keys
      /\ \A n \in DOMAIN map : /\ map[n].sig = DictValue(Fields(msg).signature, keys[n])[2]
                               /\ map[n].params = DictValue(Fields(msg).input, keys[n])[2]
  BY DEF HeadersMap, TryParse, Fields
<1>4. \A n \in DOMAIN keys : \E m :
        /\ IsLastOf(Fields(msg).signature, m, keys[n])
        /\ DictValue(Fields(msg).signature, keys[n]) = Fields(msg).signature[m].val
        /\ DictValue(Fields(msg).input, keys[n]) = Fields(msg).input[m].val
  BY NamesAre
<1> HIDE DEF map, at, keys
<1>5. PICK pos : Picks(pos, Selected(map, at), map, at, Len(map))
  BY <1>1, SelectedPicks
<1>6. DOMAIN Selected(map, at) = 1..Len(Selected(map, at))
  BY <1>1, SelectedIsSeq
<1>7. PICK n \in DOMAIN keys : ExtractSignatures(msg, req)[e] = map[n]
  BY <1>1, <1>2, <1>3, <1>5, <1>6 DEF Picks
<1> QED
  BY <1>3, <1>4, <1>7

(* The two headers stay readable.                                           *)
LEMMA HeadersStayAccepted ==
  ASSUME PairInv, NEW list \in SignRequests, NEW req, SetMessageSignatures(list, req),
         NEW names, names = {signed'[s].name : s \in DOMAIN signed' \ DOMAIN signed},
         SignsApart(DOMAIN signed' \ DOMAIN signed, names)
  PROVE  Acceptable(message')
<1> DEFINE f == Fields(message)
           g == Fields(message')
           L == Len(f.signature)
<1>1. /\ L \in Nat /\ DOMAIN f.signature = 1..L /\ DOMAIN g.input = DOMAIN g.signature
      /\ \A i \in DOMAIN f.signature : /\ i \in DOMAIN g.signature
                                       /\ g.signature[i] = f.signature[i]
                                       /\ g.input[i] = f.input[i]
      /\ \A j \in DOMAIN list : /\ L + j \in DOMAIN g.signature
                                /\ g.signature[L + j] = AddedSignature(list, j)
                                /\ g.input[L + j] = AddedInput(list, j)
      /\ \A i \in DOMAIN g.signature \ DOMAIN f.signature : \E j \in DOMAIN list : i = L + j
  BY AddedAt
<1>2. f.signature = <<>> \/ Acceptable(message)
  BY HeadersAccepted DEF PairInv, TypeOK, SignsApart, Fields
<1>3. \A i, key : IsLastOf(g.signature, i, key) /\ i \in DOMAIN f.signature => IsLastOf(f.signature, i, key)
  BY LastStays
<1>4. \A j \in DOMAIN list : ParamsOutcome(list[j].params) = "ok"
  BY NewSignings DEF PairInv, SignsApart
<1>5. PICK l \in DOMAIN list : TRUE
  BY NewSignings DEF PairInv, SignsApart
<1>6. DOMAIN f.input = DOMAIN f.signature
  BY PairsAlike DEF PairInv, TypeOK
<1>7. \A j \in DOMAIN list :
        /\ AddedSignature(list, j).form = "entry" /\ AddedSignature(list, j).val[1] = "bytes"
        /\ AddedInput(list, j).form = "entry" /\ AddedInput(list, j).val = <<"inner", list[j].params>>
  BY DEF AddedSignature, AddedInput, Member
<1>8. f.signature = <<>> => DOMAIN f.signature = {}
  BY EmptyIsSeq
<1> HIDE DEF f, g, L
<1>9. ASSUME NEW i \in DOMAIN f.signature
      PROVE  f.signature[i].form = "entry" /\ f.input[i].form = "entry"
  BY <1>2, <1>6, <1>8 DEF Acceptable, IsDictionary, f
<1>10. \A i \in DOMAIN g.signature : g.signature[i].form = "entry" /\ g.input[i].form = "entry"
  BY <1>1, <1>7, <1>9
<1>11. ASSUME NEW i, NEW key, IsLastOf(g.signature, i, key)
       PROVE  Legible(message', i)
  <2>1. i \in DOMAIN g.signature
    BY <1>11 DEF IsLastOf
  <2>2. CASE i \in DOMAIN f.signature
    <3>1. Legible(message, i)
      BY <1>2, <1>3, <1>8, <1>11, <2>2 DEF Acceptable, f
    <3> QED
      BY <1>1, <2>2, <3>1 DEF Legible, f, g
  <2>3. CASE i \notin DOMAIN f.signature
    <3>1. PICK j \in DOMAIN list : i = L + j
      BY <1>1, <2>1, <2>3
    <3>2. g.signature[i].val[1] = "bytes" /\ g.input[i].val = <<"inner", list[j].params>>
      BY <1>1, <1>7, <3>1
    <3> QED
      BY <1>4, <3>2 DEF Legible, g
  <2> QED
    BY <2>2, <2>3
<1>12. g.signature # <<>>
  BY <1>1, <1>5, EmptyIsSeq
<1> QED
  BY <1>1, <1>10, <1>11, <1>12 DEF Acceptable, IsDictionary, g

(* A signing that keeps apart: each signature it makes, and each one that   *)
(* was verifiable, is among the entries and over the same base afterwards.  *)
LEMMA SignKeepsVerifiable ==
  ASSUME PairInv, BaseInv, NEW list \in SignRequests, NEW by, SetMessageSignatures(list, by),
         NEW names, names = {signed'[s].name : s \in DOMAIN signed' \ DOMAIN signed},
         SignsApart(DOMAIN signed' \ DOMAIN signed, names),
         NEW req, NEW s \in DOMAIN signed', ~CoversSignatures(signed'[s].base.params, names),
         MadeVerifiable(s, DOMAIN signed' \ DOMAIN signed, req)
  PROVE  Verifiable(s, req)'
<1> DEFINE f == Fields(message)
           g == Fields(message')
           L == Len(f.signature)
           params == signed'[s].base.params
<1>1. IsMessage(message') /\ Pairs(message'.headers, signed')
  BY SetMessageSignaturesTypeOK, SetMessageSignaturesPairs, SignRequestsAre DEF PairInv, TypeOK
<1>2. HeadersOutcome(message') = "ok"
  BY <1>1, HeadersAccepted, HeadersStayAccepted
<1>3. IsParams(params)
  BY SetMessageSignaturesBaseInv, SignRequestsAre DEF PairInv, BaseInv
<1>4. GrowsTo(message, message', SignatureFields, names)
  BY SigningGrows DEF PairInv
<1>5. /\ BaseOk(message, params, req) /\ signed'[s].base = SignatureBase(message, params, req)
      /\ \E i, key : /\ IsLastOf(g.signature, i, key)
                     /\ g.signature[i].val[2] = s /\ g.input[i].val[2] = params
  <2>1. CASE s \notin DOMAIN signed
    <3>1. BaseOk(message, params, req) /\ signed'[s].base = SignatureBase(message, params, req)
      BY <2>1 DEF MadeVerifiable
    <3>2. PICK j \in DOMAIN list : s = Len(signed) + j /\ params = list[j].params
      BY <2>1, NewSignings DEF PairInv
    <3>3. g.signature[L + j] = AddedSignature(list, j) /\ g.input[L + j] = AddedInput(list, j)
      BY AddedAt
    <3>4. g.signature[L + j].val[2] = s /\ g.input[L + j].val[2] = params
      BY <3>2, <3>3 DEF AddedSignature, AddedInput, Member
    <3>5. IsLastOf(g.signature, L + j, SignatureName(list[j].name))
      BY LastStays
    <3> QED
      BY <3>1, <3>4, <3>5
  <2>2. CASE s \in DOMAIN signed
    <3>1. signed'[s] = signed[s]
      BY <2>2, HistoryGrows, SignRequestsAre DEF PairInv, TypeOK
    <3>2. Verifiable(s, req)
      BY <2>2 DEF MadeVerifiable
    <3>3. PICK e \in DOMAIN ExtractSignatures(message, req) :
            /\ ExtractSignatures(message, req)[e].sig = s
            /\ SignatureBase(message, ExtractSignatures(message, req)[e].params, req) = signed[s].base
      BY <3>2 DEF Verifiable, ToSet
    <3>4. ExtractSignatures(message, req)[e].params = params
      BY <3>1, <3>3, BaseDeterminesValues
    <3>5. BaseOk(message, params, req)
      BY <3>4, EntriesRebuild DEF PairInv, TypeOK
    <3>6. PICK i, key : /\ IsLastOf(f.signature, i, key)
                        /\ f.signature[i].val[2] = s /\ f.input[i].val[2] = params
      BY <3>3, <3>4, EntryStands DEF PairInv, TypeOK
    <3>7. IsLastOf(g.signature, i, key)
      BY <3>6, LastStays
    <3>8. g.signature[i] = f.signature[i] /\ g.input[i] = f.input[i]
      BY <3>6, AddedAt DEF IsLastOf
    <3> QED
      BY <3>1, <3>3, <3>4, <3>5, <3>6, <3>7, <3>8
  <2> QED
    BY <2>1, <2>2
<1> HIDE DEF f, g, params
<1>6. BaseOk(message', params, req) /\ SignatureBase(message', params, req) = signed'[s].base
  BY <1>3, <1>4, <1>5, BaseGrows DEF params
<1>7. PICK i, key : IsLastOf(g.signature, i, key) /\ g.signature[i].val[2] = s /\ g.input[i].val[2] = params
  BY <1>5
<1>8. \E e \in DOMAIN ExtractSignatures(message', req) :
        /\ ExtractSignatures(message', req)[e].sig = s
        /\ ExtractSignatures(message', req)[e].params = params
  <2>1. PICK m, history : m = message' /\ history = signed'
    OBVIOUS
  <2>2. /\ IsMessage(m) /\ Pairs(m.headers, history)
        /\ IsLastOf(Fields(m).signature, i, key) /\ BaseOk(m, Fields(m).input[i].val[2], req)
        /\ Fields(m).signature[i].val[2] = s /\ Fields(m).input[i].val[2] = params
    BY <1>1, <1>6, <1>7, <2>1 DEF g
  <2>3. \E e \in DOMAIN ExtractSignatures(m, req) :
          ExtractSignatures(m, req)[e].sig = s /\ ExtractSignatures(m, req)[e].params = params
    BY <2>2, EntryIsRead
  <2> QED
    BY <2>1, <2>3
<1> QED
  BY <1>2, <1>6, <1>8 DEF Verifiable, ToSet

(* However many signatures a message collects, of whatever components: set  *)
(* under names not in use, they verify at once, and what was verifiable     *)
(* before still is, unless it covers the signature fields as they change.   *)
THEOREM SigningAlwaysKeepsVerifiable ==
  ASSUME \A m \in InitialMessages : Pairs(m.headers, <<>>)
  PROVE  Spec => SigningKeepsVerifiable
<1> DEFINE SignInv == PairInv /\ BaseInv /\ TriedInv
<1>1. Init => SignInv
  BY InitTypeOK, EmptyIsSeq DEF Init, PairInv, BaseInv, TriedInv, NoCall
<1>2. SignInv /\ [Next]_vars => SignInv'
  BY IntactStep, PairStep DEF PairInv
<1>3. SignInv /\ [Next]_vars => [KeepsVerifiable]_vars
  <2> SUFFICES ASSUME SignInv, [Next]_vars PROVE KeepsVerifiable
    OBVIOUS
  <2>1. CASE Sign
    <3>1. PICK list \in SignRequests, by \in ReqForParam : SetMessageSignatures(list, by)
      BY <2>1 DEF Sign
    <3> DEFINE new == DOMAIN signed' \ DOMAIN signed
               names == {signed'[s].name : s \in new}
    <3>2. ASSUME SignsApart(new, names), NEW req \in ReqForParam, NEW s \in DOMAIN signed',
                 ~CoversSignatures(signed'[s].base.params, names), MadeVerifiable(s, new, req)
          PROVE  Verifiable(s, req)'
      BY <3>1, <3>2, SignKeepsVerifiable
    <3> QED
      BY <3>2 DEF KeepsVerifiable
  <2>2. CASE ~Sign
    <3>1. signed' = signed
      BY <2>2 DEF Next, Verify, BeginVerify, CheckSignature, FinishKey, Return, Environment, Tick,
                  Rewrite, MergeLines, Strip, vars
    <3> QED
      BY <3>1 DEF KeepsVerifiable, SignsApart
  <2> QED
    BY <2>1, <2>2
<1> QED
  BY <1>1, <1>2, <1>3, PTL DEF Spec, SigningKeepsVerifiable

=============================================================================
