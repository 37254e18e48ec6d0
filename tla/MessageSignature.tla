-------------------------- MODULE MessageSignature ---------------------------
(***************************************************************************)
(* Signing and verifying one HTTP message (the MessageSignature* traits of  *)
(* httpsig-hyper/src/hyper_http.rs): a message on its way from signers to   *)
(* verifiers, both of which use the library, with whatever rewrites it in   *)
(* between.                                                                 *)
(*                                                                          *)
(* A verification borrows the message for the whole call, so nothing but    *)
(* the clock moves while it runs; it reads the clock once per signature it  *)
(* checks.                                                                  *)
(***************************************************************************)
EXTENDS SignatureHeaders, Crypto

CONSTANTS
  Keys,              \* signing keys; a verifying key is named by its signing key
  KeyAlg,            \* [Keys -> AlgorithmName]
  ForeignLength,     \* bytes of a signature that nobody here made (token 0)
  InitialMessages,   \* messages a program may start with
  Contents,          \* messages whose content a message may be rewritten to
  Requests,          \* what a caller may give as req_for_param
  SignRequests,      \* arguments of set_message_signatures: sequences of
                     \* [params, key, name], name being {} for None
  VerifyRequests,    \* arguments of verify_message_signatures: sequences of
                     \* [key, keyid], keyid being {} for None
  MaxTime, MaxSigned \* bounds on the clock and on the number of signings

SignatureFields == {"signature", "signature-input"}

IsMessage(m) ==
  /\ {"kind", "headers"} \subseteq DOMAIN m
  /\ m.kind \in {"request", "response"}
  /\ IF m.kind = "request" THEN {"method", "uri"} \subseteq DOMAIN m ELSE "status" \in DOMAIN m
  /\ SignatureFields \subseteq DOMAIN m.headers
  /\ \A f \in SignatureFields : IsSeq(m.headers[f])

ASSUME KeyAssumption == KeyAlg \in [Keys -> AlgorithmName]
ASSUME BoundAssumption == MaxTime \in Nat /\ MaxSigned \in Nat
ASSUME MessageAssumption == \A m \in InitialMessages \cup Contents : IsMessage(m)

(* Parameters a program can have: u64 seconds, and lists of parameters.     *)
IsParams(params) ==
  /\ params.expires \subseteq Nat
  /\ \A i \in DOMAIN params.covered : IsSeq(params.covered[i].params)

ASSUME RequestAssumption ==
  /\ \A list \in SignRequests :
       IsSeq(list) /\ \A i \in DOMAIN list : list[i].key \in Keys /\ IsParams(list[i].params)
  /\ \A keys \in VerifyRequests : IsSeq(keys)
  /\ NoRequest \in Requests

(* Text that is read as other parameters than those it was written from is  *)
(* left to ParamsBuilder.                                                   *)
ASSUME StringAssumption ==
  \A list \in SignRequests : \A i \in DOMAIN list : DisplayForm(list[i].params) # "reread"

VARIABLES
  now,         \* seconds since the epoch
  message,     \* the message
  signed,      \* history: everything any key ever signed, in order, with the
               \* values the covered components really had
  call         \* the verification under way, or its outcome until it is returned

vars == <<now, message, signed, call>>

NoCall == [status |-> "none"]

Init ==
  /\ now = 0
  /\ message \in InitialMessages
  /\ signed = <<>>
  /\ call = NoCall

-----------------------------------------------------------------------------
(* Signing                                                                  *)

SignatureName(name) == IF name = {} THEN DEFAULT_SIGNATURE_NAME ELSE CHOOSE n \in name : TRUE

InputValue(item) == SignatureInputHeaderValue(SignatureName(item.name), item.params)

(* How many items of the list are appended: all, or those before the first  *)
(* one whose signature-input value is no header value.                      *)
Appended(list) ==
  LET refused == {i \in DOMAIN list : InputValue(list[i]).form = "opaque"}
  IN  IF refused = {} THEN Len(list)
      ELSE (CHOOSE i \in refused : \A j \in refused : i <= j) - 1

(* Signature values that were appended: each goes after its signature-input. *)
SignatureFirst(list) ==     \* mutant: before it
  IF Appended(list) = Len(list) THEN Len(list) ELSE Appended(list) + 1
SignaturesAppended(list) == Appended(list)

(* The headers after the signatures with the tokens after `last` are set.   *)
InsertedSignatures(headers, list, last) ==     \* mutant: insert for append
  [headers EXCEPT
     !["signature-input"] = [i \in 1..Appended(list) |-> InputValue(list[i])],
     !["signature"] = [i \in 1..SignaturesAppended(list) |->
        SignatureHeaderValue(SignatureName(list[i].name), last + i)]]
WithSignatures(headers, list, last) ==
  [headers EXCEPT
     !["signature-input"] = @ \o [i \in 1..Appended(list) |-> InputValue(list[i])],
     !["signature"] = @ \o [i \in 1..SignaturesAppended(list) |->
        SignatureHeaderValue(SignatureName(list[i].name), last + i)]]

(* History only: the value of each covered component, of the message or of  *)
(* the request that `req` refers to.                                        *)
Values(msg, params, req) ==
  [i \in DOMAIN params.covered |->
     LET id == params.covered[i]
     IN  IF HasParam(id, "req") THEN ExtractValue(req, id) ELSE ExtractValue(msg, id)]

AllBasesOk(list, req) == \A i \in DOMAIN list : BaseOk(message, list[i].params, req)

(* Every base is built and signed before the first header is appended; when *)
(* a base cannot be built the call returns an error and has changed nothing. *)
SetMessageSignatures(list, req) ==
  /\ call.status = "none"
  /\ Len(signed) + Len(list) <= MaxSigned
  /\ AllBasesOk(list, req)
  /\ signed' = signed \o [i \in DOMAIN list |->
                 [key |-> list[i].key, name |-> SignatureName(list[i].name),
                  base |-> SignatureBase(message, list[i].params, req),
                  values |-> Values(message, list[i].params, req)]]
  /\ message' = [message EXCEPT !.headers = WithSignatures(@, list, Len(signed))]
  /\ UNCHANGED <<now, call>>

-----------------------------------------------------------------------------
(* Verifying                                                                *)

(* verify_message_signatures up to its first key.                           *)
BeginVerify(keys, req) ==
  /\ call.status = "none"
  /\ call' =
       [status |-> IF HeadersOutcome(message) # "ok" THEN HeadersOutcome(message)
                   ELSE IF keys = <<>> THEN "done" ELSE "running",
        keys |-> keys, req |-> req, started |-> now,
        entries |-> IF HeadersOutcome(message) = "ok" THEN ExtractSignatures(message, req)
                    ELSE <<>>,
        next |-> 1, verified |-> <<>>, results |-> <<>>]
  /\ UNCHANGED <<now, message, signed>>

(* The key a verification is at, and what it does on it: with a key id only *)
(* the signatures whose parameters name that key id are candidates.         *)
Current == call.keys[Len(call.results) + 1]

ExactKeyId(keyid, entry) == entry.params.keyid = keyid     \* mutant: None is no wildcard
IsCandidate(keyid, entry) == keyid = {} \/ entry.params.keyid = keyid

(* The signature is the one `key` makes of this base.                       *)
Genuine(key, sig, base) ==
  sig \in DOMAIN signed /\ signed[sig].key = key /\ signed[sig].base = base

LengthOf(sig) ==
  IF sig \in DOMAIN signed THEN SignatureLength(KeyAlg[signed[sig].key]) ELSE ForeignLength

(* verify_signature_headers: the clock first, then the key.                 *)
CheckOutcome(key, entry) ==
  IF IsExpired(entry.params, now) THEN "err"
  ELSE VerifyOutcome(KeyAlg[key],
                     Genuine(key, entry.sig, SignatureBase(message, entry.params, call.req)),
                     LengthOf(entry.sig))

(* Every candidate is tried, whatever became of the ones before it.         *)
After(outcome) == call.next + 1

(* The next signature, for the current key.                                 *)
CheckSignature ==
  /\ call.status = "running"
  /\ call.next \in DOMAIN call.entries
  /\ LET entry == call.entries[call.next]
         outcome == IF IsCandidate(Current.keyid, entry) THEN CheckOutcome(Current.key, entry)
                    ELSE "skipped"
     IN  call' = [call EXCEPT
                    !.status = IF outcome = "panic" THEN "panic" ELSE @,
                    !.next = After(outcome),
                    !.verified = IF outcome = "ok" THEN Append(@, entry.name) ELSE @]
  /\ UNCHANGED <<now, message, signed>>

(* The result for the current key: the first signature that verified.       *)
KeyResult ==
  IF ~\E i \in DOMAIN call.entries : IsCandidate(Current.keyid, call.entries[i])
  THEN [ok |-> FALSE, err |-> "NoSignatureHeaders"]
  ELSE IF call.verified # <<>> THEN [ok |-> TRUE, name |-> Head(call.verified)]
  ELSE [ok |-> FALSE, err |-> "InvalidSignature"]

LastKeyIndex == Len(call.results) = Len(call.keys)     \* mutant: indices from 0
LastKey == Len(call.results) + 1 = Len(call.keys)

FinishKey ==
  /\ call.status = "running"
  /\ call.next \notin DOMAIN call.entries
  /\ call' = [call EXCEPT
                !.status = IF LastKey THEN "done" ELSE @,
                !.next = 1,
                !.verified = <<>>,
                !.results = Append(@, KeyResult)]
  /\ UNCHANGED <<now, message, signed>>

(* The caller takes the outcome and lets go of the message.                 *)
Return ==
  /\ call.status \in {"done", "err", "panic"}
  /\ call' = NoCall
  /\ UNCHANGED <<now, message, signed>>

-----------------------------------------------------------------------------
(* The environment                                                          *)

Tick ==
  /\ now < MaxTime
  /\ now' = now + 1
  /\ UNCHANGED <<message, signed, call>>

(* The content changes under the signatures.                                *)
Rewrite(content) ==
  /\ call.status = "none"
  /\ content.kind = message.kind
  /\ message' = [content EXCEPT
       !.headers = [f \in DOMAIN @ |-> IF f \in SignatureFields THEN message.headers[f] ELSE @[f]]]
  /\ UNCHANGED <<now, signed, call>>

(* An intermediary joins the lines of one field.                            *)
MergeLines(f) ==
  /\ call.status = "none"
  /\ \E i \in 2..Len(message.headers[f]) : message.headers[f][i].first
  /\ message' = [message EXCEPT
       !.headers[f] = [i \in DOMAIN @ |-> [@[i] EXCEPT !.first = i = 1]]]
  /\ UNCHANGED <<now, signed, call>>

(* An intermediary takes one signature out of both fields.                  *)
Without(headers, i) ==
  [headers EXCEPT !["signature"] = DropMember(@, i), !["signature-input"] = DropMember(@, i)]
Strip(i) ==
  /\ call.status = "none"
  /\ \A f \in SignatureFields : i \in DOMAIN message.headers[f]
  /\ message' = [message EXCEPT !.headers = Without(@, i)]
  /\ UNCHANGED <<now, signed, call>>

-----------------------------------------------------------------------------
(* The request API takes no req_for_param.                                  *)
ReqForParam == IF message.kind = "request" THEN {NoRequest} ELSE Requests

Sign == \E list \in SignRequests, req \in ReqForParam :
          SetMessageSignatures(list, req)

Verify == \/ \E keys \in VerifyRequests, req \in ReqForParam : BeginVerify(keys, req)
          \/ CheckSignature \/ FinishKey \/ Return

Environment == \/ Tick
               \/ \E content \in Contents : Rewrite(content)
               \/ \E f \in DOMAIN message.headers : MergeLines(f)
               \/ \E i \in DOMAIN message.headers["signature"] : Strip(i)

Next == Sign \/ Verify \/ Environment

Spec == Init /\ [][Next]_vars

-----------------------------------------------------------------------------
(* Properties                                                               *)

(* The states a message and a verification of it can be in.                 *)
IsCall(c) ==
  /\ DOMAIN c = {"status", "keys", "req", "started", "entries", "next", "verified", "results"}
  /\ c.status \in {"running", "done", "err", "panic"}
  /\ c.started \in 0..now
  /\ IsSeq(c.keys) /\ IsSeq(c.verified) /\ IsSeq(c.results)
  /\ Len(c.results) <= Len(c.keys)
  /\ c.status = "running" => Len(c.results) < Len(c.keys)

TypeOK ==
  /\ now \in 0..MaxTime
  /\ IsMessage(message)
  /\ IsSeq(signed) /\ Len(signed) <= MaxSigned
  /\ \A s \in DOMAIN signed : signed[s].key \in Keys
  /\ call = NoCall \/ IsCall(call)

(* The signature and the signature-input field stay paired member by        *)
(* member, and under each signature stand the parameters it was made with:  *)
(* whatever list of signatures fails halfway in set_message_signatures,     *)
(* whatever is merged, rewritten or stripped later.                         *)
HeadersPaired ==
  LET signature == message.headers["signature"]
      input == message.headers["signature-input"]
  IN  /\ Len(signature) = Len(input)
      /\ \A i \in DOMAIN signature :
           /\ signature[i].key = input[i].key
           /\ \A s \in DOMAIN signed :
                signature[i].val = <<"bytes", s>> => input[i].val = <<"inner", signed[s].base.params>>

(* What is verified under this entry is what the signature numbered s was   *)
(* made over: the same parameters, and every component they cover has the   *)
(* value it had then, in the message or in the request given for `req`.     *)
MadeOver(s, entry) ==
  /\ signed[s].base.params = entry.params
  /\ signed[s].values = Values(message, entry.params, call.req)

(* The entries that verify_message_signatures names as the accepted ones.   *)
AcceptedAs(k, entry) == call.results[k].ok /\ call.results[k].name = entry.name

(* What Ok from verify_message_signatures means: the key really signed, and *)
(* every component its parameters cover still has the value that was signed *)
(* (for `req` components the value in the request the verifier gives).      *)
AcceptedWasSigned ==
  call.status = "done" =>
    \A k \in DOMAIN call.results : call.results[k].ok =>
      \E e \in DOMAIN call.entries :
        LET entry == call.entries[e]
        IN  /\ AcceptedAs(k, entry)
            /\ IsCandidate(call.keys[k].keyid, entry)
            /\ entry.sig \in DOMAIN signed
            /\ signed[entry.sig].key = call.keys[k].key
            /\ MadeOver(entry.sig, entry)

(* The time named by `expires` has passed at this second.                   *)
PastExpiry(params, at) == \E t \in params.expires : t < at

(* A signature that is accepted was still valid at some moment of the call: *)
(* one that had expired when the call began is not, however the clock moves *)
(* while the signatures are checked one after the other.                    *)
AcceptedWasFresh ==
  call.status = "done" =>
    \A k \in DOMAIN call.results : call.results[k].ok =>
      \E e \in DOMAIN call.entries :
        /\ AcceptedAs(k, call.entries[e])
        /\ \E at \in call.started..now : ~PastExpiry(call.entries[e].params, at)

(* The signature numbered s is in the message, no later one has taken its   *)
(* name, what it covers is unchanged, and it is not expired.                *)
Intact(s) ==
  LET field == message.headers["signature"]
      params == signed[s].base.params
  IN  /\ \E i \in DOMAIN field :
           /\ field[i].val = <<"bytes", s>>
           /\ \A j \in DOMAIN field : j > i => field[j].key # field[i].key
      /\ BaseOk(message, params, call.req)
      /\ signed[s].values = Values(message, params, call.req)
      /\ ~PastExpiry(params, now)

(* Nothing else in the message hides an intact signature: foreign entries   *)
(* that cannot be rebuilt, other keys, other names, lines merged on the way. *)
(* A key gets an error only when no intact signature of it has its key id.  *)
IntactIsAccepted ==
  call.status = "done" =>
    \A k \in DOMAIN call.results : ~call.results[k].ok =>
      ~\E s \in DOMAIN signed :
        /\ signed[s].key = call.keys[k].key
        /\ call.keys[k].keyid = {} \/ call.keys[k].keyid = signed[s].base.params.keyid
        /\ Intact(s)

(* A verification of the message as it is would find the signature genuine. *)
Verifiable(s, req) ==
  /\ HeadersOutcome(message) = "ok"
  /\ \E e \in ToSet(ExtractSignatures(message, req)) :
       e.sig = s /\ SignatureBase(message, e.params, req) = signed[s].base

(* A component that signatures set under these names change: a signature    *)
(* header as a whole, or its member of one of these names.                  *)
CoversSignatures(params, names) ==
  \E i \in DOMAIN params.covered :
    LET id == params.covered[i]
        keys == {p.arg : p \in {q \in ToSet(id.params) : q.p = "key"}}
    IN  \/ ToLower(id.name) \in SignatureFields /\ (keys = {} \/ keys \cap names # {})
        \/ id.name = "@signature-params"

(* Signatures set under names not in use, with names and parameters that    *)
(* serialize, verify at once and leave verifiable what was so before.       *)
SignsApart(new, names) ==
  LET used == {message.headers["signature"][i].key : i \in DOMAIN message.headers["signature"]}
  IN  /\ new # {}
      /\ message.headers["signature"] = <<>> \/ HeadersOutcome(message) = "ok"
      /\ names \cap (used \cup NonKeyNames \cup OpaqueStrings) = {}
      /\ \A s, t \in new : s # t => signed'[s].name # signed'[t].name
      /\ \A s \in new : /\ DisplayForm(signed'[s].base.params) = "entry"
                         /\ ParamsOutcome(signed'[s].base.params) = "ok"

(* What the signing finds verifiable, or has just made so.                  *)
MadeVerifiable(s, new, req) ==
  IF s \in new THEN /\ BaseOk(message, signed'[s].base.params, req)
                    /\ signed'[s].base = SignatureBase(message, signed'[s].base.params, req)
  ELSE Verifiable(s, req)

KeepsVerifiable ==
  LET new == (DOMAIN signed') \ DOMAIN signed
      names == {signed'[s].name : s \in new}
  IN  SignsApart(new, names) =>
        \A req \in ReqForParam, s \in DOMAIN signed' :
          /\ ~CoversSignatures(signed'[s].base.params, names)
          /\ MadeVerifiable(s, new, req)
          => Verifiable(s, req)'

SigningKeepsVerifiable == [][KeepsVerifiable]_vars

(* The abstract specification: every signing is an attestation, every       *)
(* verification an inquiry, and each result an answer.                      *)
Attestations ==
  {[key |-> signed[s].key, params |-> signed[s].base.params, values |-> signed[s].values] :
     s \in DOMAIN signed}

Inquiry ==
  IF call.status = "none" THEN [open |-> FALSE]
  ELSE [open |-> TRUE, req |-> call.req, started |-> call.started,
        keys |-> [k \in DOMAIN call.keys |-> call.keys[k].key],
        answers |-> [k \in DOMAIN call.results |-> call.results[k].ok]]

Promise == INSTANCE Attestation WITH attested <- Attestations, inquiry <- Inquiry,
                                     Readable <- BaseOk

(* Signing and verifying keep the promise, step by step: whatever an entry  *)
(* is named, whoever else signed, and whatever happens to the headers       *)
(* between the calls, a key gets a yes only for what it attested to.        *)
KeepsPromise == Promise!AttestationSpec

-----------------------------------------------------------------------------
(* What the comments of the repository say and the code does not do         *)

(* "every signature is independent and verified separately": a signature    *)
(* that was appended is one of those a verifier gets to see.                *)
EverySignatureIndependent ==
  HeadersOutcome(message) = "ok" =>
    \A s \in DOMAIN signed :
      (\E i \in DOMAIN message.headers["signature"] :
         message.headers["signature"][i].val = <<"bytes", s>>)
        => \E e \in ToSet(HeadersMap(message)) : e.sig = s

(* "If invalid for the given key or error occurs [...], return Err".        *)
VerifyReturns == call.status # "panic"
=============================================================================
