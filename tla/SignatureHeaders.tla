-------------------------- MODULE SignatureHeaders ---------------------------
(***************************************************************************)
(* The signature base and the pair of headers that carries a signature      *)
(* (httpsig/src/signature_base.rs, and the functions of hyper_http.rs that  *)
(* build the first and parse the second).                                   *)
(*                                                                          *)
(* A signature is a token: the number of the signing that made it.          *)
(***************************************************************************)
EXTENDS SignatureParams

CONSTANTS NonKeyNames     \* signature names that are no structured-field key

DEFAULT_SIGNATURE_NAME == "sig"

(* build_signature_base returns Ok, and the base it returns.                *)
BaseOk(msg, params, req) ==
  \A i \in DOMAIN params.covered : ComponentOk(msg, params.covered[i], req)

ParamsOnlyBase(msg, params, req) == [lines |-> <<>>, params |-> params]     \* mutant
SignatureBase(msg, params, req) ==
  [lines |-> [i \in DOMAIN params.covered |->
                <<params.covered[i], ComponentValue(msg, params.covered[i], req)>>],
   params |-> params]

-----------------------------------------------------------------------------
(* Writing                                                                  *)

NameForm(name) ==
  IF name \in OpaqueStrings THEN "opaque" ELSE IF name \in NonKeyNames THEN "text" ELSE "entry"

SignatureInputHeaderValue(name, params) ==
  Member(IF NameForm(name) = "entry" THEN DisplayForm(params)
         ELSE IF DisplayForm(params) = "opaque" THEN "opaque" ELSE NameForm(name),
         name, <<"inner", params>>)

SignatureHeaderValue(name, sig) == Member(NameForm(name), name, <<"bytes", sig>>)

-----------------------------------------------------------------------------
(* Reading                                                                  *)

HasMessageSignature(headers) == headers["signature"] # <<>> /\ headers["signature-input"] # <<>>

(* The checks HttpSignatureHeaders::try_parse makes on the two dictionaries *)
(* before it reads the parameters.                                          *)
DictionariesOk(signature, signatureInput) ==
  /\ IsText(signature) /\ IsText(signatureInput)
  /\ IsDictionary(signature) /\ IsDictionary(signatureInput)
  /\ Len(DictKeys(signature)) = Len(DictKeys(signatureInput))
  /\ ToSet(DictKeys(signature)) \subseteq ToSet(DictKeys(signatureInput))
  /\ \A key \in ToSet(DictKeys(signature)) : DictValue(signature, key)[1] = "bytes"
  /\ \A key \in ToSet(DictKeys(signatureInput)) : DictValue(signatureInput, key)[1] = "inner"

(* One entry whose parameters do not convert fails the whole map; the first *)
(* such entry decides how.                                                  *)
TryParseOutcome(signature, signatureInput) ==
  IF ~DictionariesOk(signature, signatureInput) THEN "err"
  ELSE LET keys == DictKeys(signatureInput)
           Outcome(i) == ParamsOutcome(DictValue(signatureInput, keys[i])[2])
           refused == {i \in DOMAIN keys : Outcome(i) # "ok"}
       IN  IF refused = {} THEN "ok"
           ELSE Outcome(CHOOSE i \in refused : \A j \in refused : i <= j)

(* The HttpSignatureHeadersMap, in the order of the signature-input field.  *)
TryParse(signature, signatureInput) ==
  LET keys == DictKeys(signatureInput)
  IN  [i \in DOMAIN keys |->
         [name |-> keys[i],
          sig |-> DictValue(signature, keys[i])[2],
          params |-> DictValue(signatureInput, keys[i])[2]]]

HeadersOutcome(msg) ==
  IF ~HasMessageSignature(msg.headers) THEN "err"
  ELSE TryParseOutcome(msg.headers["signature"], msg.headers["signature-input"])

HeadersMap(msg) == TryParse(msg.headers["signature"], msg.headers["signature-input"])

(* extract_signatures: entries whose base cannot be built are left out.     *)
ExtractSignatures(msg, req) ==
  LET map == HeadersMap(msg)
  IN  Selected(map, {i \in DOMAIN map : BaseOk(msg, map[i].params, req)})
=============================================================================
