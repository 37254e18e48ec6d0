------------------------------ MODULE Transit -------------------------------
(***************************************************************************)
(* Component values of a request on its way.  The sender signs the values   *)
(* that the library reads from the request it sends, the receiver compares  *)
(* them with the values it reads from the request that arrives.  In between *)
(* intermediaries join and split the lines of a field, write structured     *)
(* values anew, and add or remove members and query parameters.             *)
(*                                                                          *)
(* The library reads `sf` and `key` line by line and joins what it read;    *)
(* the structured field itself is what all lines say together (Meaning), as *)
(* a list or as a dictionary: the type that the field is defined with, which *)
(* the library is not told.                                                 *)
(* The properties say when the one stands for the other.                    *)
(***************************************************************************)
EXTENDS Components

CONSTANTS
  Requests,      \* the requests that are sent
  Ids,           \* identifiers with `sf`, `key` or both, and @query-param
  Members,       \* the members that an intermediary may add
  QueryEntries,  \* the query parameters that an intermediary may add
  MaxHops        \* bound: changes on the way

(* What a field consists of: a dictionary member has a key, a list item none. *)
IsMember(m) ==
  /\ DOMAIN m = {"form", "key", "val", "first"}
  /\ m.form = "entry" => m.key # ""
  /\ m.form = "item" => m.key = ""
IsField(field) == IsSeq(field) /\ \A i \in DOMAIN field : IsMember(field[i])

(* What stands between the '&' of a query: a key, or a key and a value.     *)
IsPart(part) == IsSeq(part) /\ Len(part) \in {1, 2}

IsRequest(m) ==
  /\ m.kind = "request" /\ {"headers", "uri"} \subseteq DOMAIN m
  /\ \A f \in DOMAIN m.headers : IsField(m.headers[f])
  /\ "query" \in DOMAIN m.uri /\ {"present", "parts"} \subseteq DOMAIN m.uri.query
  /\ IsSeq(m.uri.query.parts)
  /\ \A i \in DOMAIN m.uri.query.parts : IsPart(m.uri.query.parts[i])
  /\ ~m.uri.query.present => m.uri.query.parts = <<>>

ASSUME RequestsAssumption ==
  /\ \A m \in Requests : IsRequest(m)
  /\ \A m \in Members : IsMember(m)
  /\ \A part \in QueryEntries : IsPart(part)

ASSUME IdsAssumption ==
  \A id \in Ids :
    LET params == [i \in DOMAIN id.params |-> id.params[i].p]
    IN  /\ IsSeq(id.params)
        /\ IF id.name = "@query-param" THEN params = <<"name">>
           ELSE /\ id.name \notin DerivedComponentName
                /\ params \in {<<"sf">>, <<"key">>, <<"sf", "key">>, <<"key", "sf">>}

VARIABLES
  sent,          \* the request as it was signed
  msg,           \* the request as it is now
  hops           \* changes so far

vars == <<sent, msg, hops>>

TransitInit ==
  /\ sent \in Requests
  /\ msg = sent
  /\ hops = 0

-----------------------------------------------------------------------------
(* Intermediaries                                                           *)

Hop(m) ==
  /\ hops < MaxHops
  /\ msg' = m
  /\ hops' = hops + 1
  /\ UNCHANGED sent

WithField(f, field) == [msg EXCEPT !.headers[f] = field]
WithQuery(parts) == [msg EXCEPT !.uri.query.parts = parts]

(* Two neighbouring lines become one, or a line two.                        *)
JoinOrSplit(f) ==
  \E i \in 2..Len(msg.headers[f]) :
    Hop(WithField(f, [msg.headers[f] EXCEPT ![i].first = ~@]))

Rewrite(f) ==
  \E i \in DOMAIN msg.headers[f] :
    Hop(WithField(f, [msg.headers[f] EXCEPT ![i].val = Canonical(@)]))

Add(f) ==
  \E m \in Members :
    /\ msg.headers[f] = <<>> => m.first
    /\ Hop(WithField(f, Append(msg.headers[f], m)))

Drop(f) == \E i \in DOMAIN msg.headers[f] : Hop(WithField(f, DropMember(msg.headers[f], i)))

AddQueryEntry ==
  \E part \in QueryEntries :
    /\ msg.uri.query.present
    /\ Hop(WithQuery(Append(msg.uri.query.parts, part)))

DropQueryEntry ==
  \E i \in DOMAIN msg.uri.query.parts : Hop(WithQuery(RemoveAt(msg.uri.query.parts, i)))

Done == hops = MaxHops /\ UNCHANGED vars

TransitNext ==
  \/ \E f \in DOMAIN msg.headers : JoinOrSplit(f) \/ Rewrite(f) \/ Add(f) \/ Drop(f)
  \/ AddQueryEntry
  \/ DropQueryEntry
  \/ Done

TransitSpec == TransitInit /\ [][TransitNext]_vars

-----------------------------------------------------------------------------
(* What a component means, all lines of its field read together             *)

FieldTypes == {"list", "dictionary"}

IsOfType(field, type) ==
  IF type = "list" THEN \A i \in DOMAIN field : IsListMember(field[i]) ELSE IsDictionary(field)

Structured(field, type) ==
  IF type = "list"
  THEN [n \in DOMAIN field |-> <<field[n].key, Canonical(field[n].val)>>]
  ELSE LET keys == DictKeys(field)
       IN  [n \in DOMAIN keys |-> <<keys[n], Canonical(DictValue(field, keys[n]))>>]

UnderKey(field, key) ==
  IF \E i \in DOMAIN field : field[i].key = key
  THEN <<<<"", Canonical(DictValue(field, key))>>>>
  ELSE <<>>

(* The values of a query parameter; an absent one counts as empty.          *)
Named(parts, name) ==
  LET named == Selected(parts, {i \in DOMAIN parts : Len(parts[i]) = 2 /\ parts[i][1] = name})
  IN  IF named = <<>> THEN <<<<"">>>> ELSE [n \in DOMAIN named |-> <<named[n][2]>>]

Meaning(m, id, type) ==
  LET field == FieldOf(m.headers, id.name)
      keys == {id.params[i].arg : i \in {n \in DOMAIN id.params : id.params[n].p = "key"}}
  IN  CASE id.name = "@query-param" -> Named(m.uri.query.parts, NameArg(id))
        [] id.name # "@query-param" /\ keys = {} -> Structured(field, type)
        [] OTHER -> UnderKey(field, CHOOSE k \in keys : TRUE)

Reads(m, id) == ComponentOk(m, id, NoRequest)
Line(m, id) == ComponentValue(m, id, NoRequest)

-----------------------------------------------------------------------------
(* A request that arrives with the signed value of a component means what   *)
(* the sender meant, in spite of values read line by line and joined        *)
(* without the boundaries, repeated keys, keys without a value, and         *)
(* repeated query parameters.                                               *)
EqualLinesEqualMeaning ==
  \A id \in Ids, type \in FieldTypes :
    Reads(sent, id) /\ Reads(msg, id) /\ Line(sent, id) = Line(msg, id)
      /\ (id.name # "@query-param" =>
            \A m \in {sent, msg} : IsOfType(FieldOf(m.headers, id.name), type))
    => Meaning(sent, id, type) = Meaning(msg, id, type)

(* A dictionary key that comes back is signed once only on its own line,    *)
(* and there `sf` signs it twice if all keys of the line are bare.          *)
KeysSignedOnce(field, id) ==
  \A i, j \in DOMAIN field :
    i # j /\ field[i].key = field[j].key =>
      SameLine(field, i, j) /\ (HasParam(id, "key") \/ ~OnListLine(field, i))

SaysWhatItMeans(m, id, type) ==
  LET field == FieldOf(m.headers, id.name)
  IN  /\ IsOfType(field, type)
      /\ type = "list" => ~HasParam(id, "key")
      /\ type = "dictionary" => KeysSignedOnce(field, id)

(* What does not change the meaning of a component does not break the       *)
(* signature: lines joined or split, values written anew, members beside a  *)
(* `key` and parameters beside a `name`.  The exceptions are dictionary     *)
(* keys that come back on another line, and under `sf` on a line of bare    *)
(* keys, which the library takes for a list: all their values are signed.   *)
EqualMeaningEqualLines ==
  \A id \in Ids, type \in FieldTypes :
    /\ Reads(sent, id)
    /\ Meaning(sent, id, type) = Meaning(msg, id, type)
    /\ IF id.name = "@query-param"
       THEN QueryParts(msg) # <<>>
       ELSE \A m \in {sent, msg} : SaysWhatItMeans(m, id, type)
    => Reads(msg, id) /\ Line(sent, id) = Line(msg, id)
=============================================================================
