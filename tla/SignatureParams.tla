--------------------------- MODULE SignatureParams ---------------------------
(***************************************************************************)
(* HttpSignatureParams (httpsig/src/signature_params.rs): the record        *)
(*   [created, expires, nonce, alg, keyid, tag, covered]                    *)
(* An Option is the set of its value: {} for None, {v} for Some(v).         *)
(***************************************************************************)
EXTENDS Components, Integers

CONSTANTS
  MaxSfvInteger,     \* the largest integer of a structured field (10^15 - 1)
  UnparsableStrings, \* strings with a '"' or a '\' that no parser reads, whatever is around
  RereadStrings,     \* the other strings with one: their text may be read as something else
  OpaqueStrings      \* strings with a character outside visible ASCII

(* Strings with a '"' or a '\', which Display writes as they are.           *)
UnescapedStrings == UnparsableStrings \cup RereadStrings

(* The second `expires` names is still valid.                               *)
IsExpiredAt(params, now) == \E t \in params.expires : t <= now         \* mutant
IsExpiredLate(params, now) == \E t \in params.expires : t + 1 < now    \* mutant
IsExpired(params, now) == \E t \in params.expires : t < now

(* The strings that Display writes between double quotes.                   *)
WrittenStrings(params) ==
  params.nonce \cup params.alg \cup params.keyid \cup params.tag
    \cup {params.covered[i].name : i \in DOMAIN params.covered}
    \cup UNION {{id.params[i].arg : i \in DOMAIN id.params} : id \in ToSet(params.covered)}

(* What a structured-field parser makes of the text Display writes: the     *)
(* inner list of the same parameters; no structured field at all; or, since *)
(* Display escapes nothing, perhaps other parameters or other components.   *)
DisplayForm(params) ==
  IF WrittenStrings(params) \cap OpaqueStrings # {} THEN "opaque"
  ELSE IF \/ WrittenStrings(params) \cap UnparsableStrings # {}
          \/ \E t \in params.created \cup params.expires : t > MaxSfvInteger
       THEN "text"
  ELSE IF WrittenStrings(params) \cap RereadStrings # {} THEN "reread" ELSE "entry"

(* HttpSignatureParams::try_from an inner list.  The first identifier that  *)
(* does not convert decides between an error and a panic; `created` and     *)
(* `expires` are unwrapped after try_into, so a negative one panics.        *)
ParamsOutcome(params) ==
  LET refused == {i \in DOMAIN params.covered : IdOutcome(params.covered[i]) # "ok"}
  IN  CASE refused # {} ->
             IdOutcome(params.covered[CHOOSE i \in refused : \A j \in refused : i <= j])
        [] refused = {} /\ ~HasUniqueElements(params.covered) -> "err"
        [] OTHER -> IF \E t \in params.created \cup params.expires : t < 0
                    THEN "panic" ELSE "ok"
=============================================================================
