----------------------------- MODULE Components -----------------------------
(***************************************************************************)
(* Message components: component identifiers, and the value of a component  *)
(* of a request or a response (httpsig/src/message_component and the        *)
(* extract_* functions of httpsig-hyper/src/hyper_http.rs).                 *)
(*                                                                          *)
(* An identifier is [name, params], params the sequence of its parameters   *)
(* [p, arg] in the order they are written.  A request is [kind |-> "request",*)
(* method, uri, headers], uri being [scheme, authority, path, query] and    *)
(* query [present, parts], parts the sequence of <<key>> and <<key, value>> *)
(* between the '&' (an empty query has none); a response is                 *)
(* [kind |-> "response", status, headers].  headers maps every lower-case   *)
(* field name to a field of module Sfv.                                     *)
(*                                                                          *)
(* Every component is a pair of operators: a predicate that says that the   *)
(* code returns Ok, and the value it then returns.  A value is the text of  *)
(* one line of the signature base, cut into a sequence of tuples.           *)
(***************************************************************************)
EXTENDS Sfv

CONSTANTS
  AsciiLower,            \* what to_ascii_lowercase does to the names that it changes
  AsciiUpper,            \* what to_ascii_uppercase does to the methods that it changes
  UnknownDerivedNames    \* names that start with '@' and that the enum does not have

ToLower(s) == IF s \in DOMAIN AsciiLower THEN AsciiLower[s] ELSE s
ToUpper(s) == IF s \in DOMAIN AsciiUpper THEN AsciiUpper[s] ELSE s

(* No request is given for `req`: nothing to read in any part of it.        *)
NoRequest ==
  [kind |-> "none", method |-> "", headers |-> [f \in {} |-> <<>>],
   uri |-> [scheme |-> "", authority |-> "", path |-> "",
            query |-> [present |-> FALSE, parts |-> <<>>]]]

-----------------------------------------------------------------------------
(* Identifiers                                                              *)

DerivedComponentName ==
  {"@method", "@target-uri", "@authority", "@scheme", "@request-target",
   "@path", "@query", "@query-param", "@status", "@signature-params"}

HasParam(id, p) == \E i \in DOMAIN id.params : id.params[i].p = p

(* HttpMessageComponentParam::try_from.  Any other parameter stands also    *)
(* for a `name` or a `key` whose value is no string.                        *)
HttpMessageComponentParam == {"sf", "key", "bs", "tr", "req", "name"}

(* HttpMessageComponentId::try_from: the name is converted first, and a     *)
(* derived name that the enum lacks panics there.                           *)
IdOutcome(id) ==
  CASE id.name \in UnknownDerivedNames -> "panic"
    [] /\ id.name \notin UnknownDerivedNames
       /\ \/ \E i \in DOMAIN id.params : id.params[i].p \notin HttpMessageComponentParam
          \/ HasParam(id, "name") /\ id.name # "@query-param"
          \/ /\ id.name \in DerivedComponentName
             /\ \E p \in {"bs", "sf", "tr", "key"} : HasParam(id, p) -> "err"
    [] OTHER -> "ok"

(* Equality of identifiers: parameters compare as a set (IndexSet).         *)
SameId(a, b) == a.name = b.name /\ ToSet(a.params) = ToSet(b.params)

HasUniqueElements(ids) ==
  \A i, j \in DOMAIN ids : i # j => ~SameId(ids[i], ids[j])

-----------------------------------------------------------------------------
(* HTTP fields                                                              *)

FieldOf(headers, name) ==
  IF ToLower(name) \in DOMAIN headers THEN headers[ToLower(name)] ELSE <<>>

(* handle_params_sf reads each line as a list, and as a dictionary if it is *)
(* none, and writes it anew.  A repeated key goes from a dictionary but not *)
(* from a list, which a dictionary of bare keys is read as.                 *)
SfParses(field) ==
  \A i \in DOMAIN field : OnListLine(field, i) \/ OnDictionaryLine(field, i)

SfChecked(field) == field     \* mutant: parsed, not written anew
SfField(field) ==
  LET SameEntry(i, j) == /\ ~OnListLine(field, i)
                         /\ SameLine(field, i, j)
                         /\ field[i].key = field[j].key
      LastOf(i) == CHOOSE j \in DOMAIN field :
                     /\ j = i \/ SameEntry(i, j)
                     /\ \A m \in DOMAIN field : m > j => ~SameEntry(i, m)
      reserialized == [i \in DOMAIN field |->
                         [field[i] EXCEPT !.val = Canonical(field[LastOf(i)].val)]]
  IN  Selected(reserialized,
               {i \in DOMAIN field : \A j \in DOMAIN field : j < i => ~SameEntry(i, j)})

(* handle_params_key_into looks the key up in each line; a line without it  *)
(* is skipped, and a field in which no line has it becomes empty.  What is  *)
(* found is a list of one item, for the `sf` that may still follow.         *)
KeyField(field, key) ==
  LET found == Selected(field, {i \in DOMAIN field :
                 /\ field[i].key = key
                 /\ \A j \in DOMAIN field :
                      j > i /\ SameLine(field, i, j) => field[j].key # key})
  IN  [n \in DOMAIN found |-> Member("item", "", Canonical(found[n].val))]

(* build_http_field_component goes through the parameters in their order.   *)
ApplyParam(acc, param) ==
  CASE param.p = "req" -> acc
    [] param.p = "sf" ->
         [ok |-> acc.ok /\ SfParses(acc.field),
          field |-> IF SfParses(acc.field) THEN SfField(acc.field) ELSE acc.field]
    [] param.p = "key" ->
         [ok |-> acc.ok /\ IsDictionary(acc.field), field |-> KeyField(acc.field, param.arg)]
    [] OTHER -> [acc EXCEPT !.ok = FALSE]

HttpField(msg, id) ==
  FoldLeft(ApplyParam, [ok |-> TRUE, field |-> FieldOf(msg.headers, id.name)], id.params)

(* extract_http_field: every value of the field, none when it is absent.    *)
HttpFieldOk(msg, id) == IsText(FieldOf(msg.headers, id.name)) /\ HttpField(msg, id).ok
HttpFieldValue(msg, id) == Joined(HttpField(msg, id).field)

-----------------------------------------------------------------------------
(* Derived components                                                       *)

QueryParts(msg) ==
  LET parts == msg.uri.query.parts
  IN  IF msg.uri.query.present
      THEN Selected(parts, {i \in DOMAIN parts : parts[i] # <<"">>})
      ELSE <<>>

QueryText(query) == IF query.present THEN <<<<"?">>>> \o query.parts ELSE <<>>

NameArg(id) == id.params[CHOOSE i \in DOMAIN id.params : id.params[i].p = "name"].arg

PartsNamed(parts, name) ==
  Selected(parts, {i \in DOMAIN parts : Len(parts[i]) = 2 /\ parts[i][1] = name})

FirstQueryParamValue(msg, name) ==   \* mutant: find instead of filter
  LET named == PartsNamed(QueryParts(msg), name)
  IN  IF named = <<>> THEN <<>> ELSE <<<<named[1][2]>>>>

(* Every value of the name, joined; one empty value is written as none is.  *)
QueryParamValue(msg, name) ==
  LET named == PartsNamed(QueryParts(msg), name)
  IN  IF named = <<<<name, "">>>> THEN <<>> ELSE [n \in DOMAIN named |-> <<named[n][2]>>]

RequestTarget(msg) ==
  CASE msg.method = "CONNECT" -> <<<<msg.uri.authority>>>>
    [] msg.method = "OPTIONS" -> <<<<"*">>>>
    [] OTHER -> <<<<msg.uri.path>>>> \o QueryText(msg.uri.query)

(* The first signature-input line without the name in front of its first '='. *)
SignatureParamsLine(msg) ==
  LET field == FieldOf(msg.headers, "signature-input")
      line == Selected(field, {i \in DOMAIN field : SameLine(field, 1, i)})
  IN  [i \in DOMAIN line |-> <<IF i = 1 THEN "" ELSE line[i].key, line[i].val>>]

(* What extract_derived_component lets through.                             *)
DerivedAllowed(msg, id) ==
  /\ \A i \in DOMAIN id.params :
       \/ id.params[i].p = "name" /\ id.name = "@query-param"
       \/ id.params[i].p = "req" /\ msg.kind = "request"
  /\ IF msg.kind = "request" THEN id.name # "@status"
                             ELSE id.name \in {"@status", "@signature-params"}

(* What build_derived_component refuses: no value, no name, no '='.         *)
DerivedBuilds(msg, id) ==
  /\ id.name = "@query-param" => QueryParts(msg) # <<>> /\ HasParam(id, "name")
  /\ id.name = "@signature-params" =>
       LET field == FieldOf(msg.headers, "signature-input")
       IN  /\ field # <<>>
           /\ \A i \in DOMAIN field : SameLine(field, 1, i) => field[i].form # "opaque"

DerivedOk(msg, id) == DerivedAllowed(msg, id) /\ DerivedBuilds(msg, id)

DerivedValue(msg, id) ==
  CASE id.name = "@method" -> <<<<ToUpper(msg.method)>>>>
    [] id.name = "@target-uri" ->
         <<<<msg.uri.scheme, msg.uri.authority, msg.uri.path>>>> \o QueryText(msg.uri.query)
    [] id.name = "@authority" -> <<<<ToLower(msg.uri.authority)>>>>
    [] id.name = "@scheme" -> <<<<ToLower(msg.uri.scheme)>>>>
    [] id.name = "@request-target" -> RequestTarget(msg)
    [] id.name = "@path" -> <<<<IF msg.uri.path = "" THEN "/" ELSE msg.uri.path>>>>
    [] id.name = "@query" -> <<<<"?">>>> \o IF msg.uri.query.present THEN msg.uri.query.parts
                                                                     ELSE <<>>
    [] id.name = "@query-param" -> QueryParamValue(msg, NameArg(id))
    [] id.name = "@status" -> <<<<msg.status>>>>
    [] OTHER -> SignatureParamsLine(msg)

-----------------------------------------------------------------------------
(* extract_http_message_component, and the dispatch of build_signature_base *)
(* between the message and the request given for `req`.                     *)

ExtractOk(msg, id) ==
  IF id.name \in DerivedComponentName THEN DerivedOk(msg, id) ELSE HttpFieldOk(msg, id)

ExtractValue(msg, id) ==
  IF id.name \in DerivedComponentName THEN DerivedValue(msg, id) ELSE HttpFieldValue(msg, id)

MessageOnly(msg, id, req) == msg     \* mutant: `req` is not dispatched
Source(msg, id, req) == IF HasParam(id, "req") THEN req ELSE msg

ComponentOk(msg, id, req) ==
  /\ HasParam(id, "req") => msg.kind = "response" /\ req # NoRequest
  /\ ExtractOk(Source(msg, id, req), id)

ComponentValue(msg, id, req) == ExtractValue(Source(msg, id, req), id)
=============================================================================
