---------------------------- MODULE ParamsBuilder ----------------------------
(***************************************************************************)
(* The life of an HttpSignatureParams (httpsig/src/signature_params.rs): a  *)
(* program makes it with try_new, goes through the setters in any order,    *)
(* writes it as text, and somebody else, or the program itself, converts    *)
(* that text (or the text of a peer that does not use the library) back     *)
(* while the clock moves on.                                                *)
(*                                                                          *)
(* In the text the parameters are a function from the names that occur to   *)
(* [type, value]: a repeated name keeps its last value only.                *)
(***************************************************************************)
EXTENDS SignatureParams

CONSTANTS
  Coverings,             \* sequences of identifiers a program may cover
  Strings,               \* arguments of set_nonce, set_keyid and set_tag
  Algorithms,            \* arguments of set_alg
  KeyInfos,              \* [keyid, alg] of the signing keys
  RandomNonces,          \* what 32 random bytes in base64 may be
  Times,                 \* arguments of set_created and set_expires
  Durations,             \* arguments of set_expires_with_duration, {} for None
  ForeignTexts,          \* texts of peers: [form, covered, list]
  MaxU64,                \* 2^64 - 1
  Start, Pauses,         \* the clock: where it starts, how it may move
  MaxTime, MaxCalls      \* bounds on the clock and on the number of calls

ASSUME ClockAssumption ==
  Start \in Nat /\ MaxTime \in Nat /\ Pauses \subseteq Nat /\ Start <= MaxTime
ASSUME NumberAssumption ==
  /\ MaxU64 \in Nat /\ MaxTime <= MaxU64 /\ MaxCalls \in Nat
  /\ Times \subseteq 0..MaxU64
  /\ \A duration \in Durations : duration = {} \/ \E d \in 0..MaxU64 : duration = {d}
ASSUME CoveringAssumption ==
  \A covered \in Coverings :
    IsSeq(covered) /\ \A i \in DOMAIN covered : IdOutcome(covered[i]) = "ok"
ASSUME TextAssumption ==
  /\ MaxSfvInteger \in 0..MaxU64
  /\ ForeignTexts # {}
  /\ \A t \in ForeignTexts : IsSeq(t.covered)
  /\ \A t \in ForeignTexts : \A name \in DOMAIN t.list :
       t.list[name].type = "integer" =>
         t.list[name].value \in Int /\ t.list[name].value <= MaxSfvInteger

VARIABLES
  now,       \* seconds since the epoch
  params,    \* the parameters in hand, or NoParams
  outcome,   \* of the last call: "ok", "err" or "panic"
  text,      \* the text last written or received, or NoText
  lifetime,  \* history: {[from, at, duration]} when expires was last set from a duration
  calls      \* calls made so far

paramsVars == <<now, params, outcome, text, lifetime, calls>>

IntegerParams == {"created", "expires"}
StringParams == {"nonce", "alg", "keyid", "tag"}
ParamNames == IntegerParams \cup StringParams

NoParams == [covered |-> {}]
NoText == [form |-> "none"]
DEFAULT_DURATION == 300

BuilderInit ==
  /\ now = Start
  /\ params = NoParams
  /\ outcome = "ok"
  /\ text = NoText
  /\ lifetime = {}
  /\ calls = 0

Call == calls < MaxCalls /\ calls' = calls + 1

-----------------------------------------------------------------------------
(* Building                                                                 *)

New(covered, created) ==
  [created |-> {created}, expires |-> {}, nonce |-> {}, alg |-> {}, keyid |-> {}, tag |-> {},
   covered |-> covered]

TryNewUnchecked(covered) ==     \* mutant: duplicates are let through
  /\ Call
  /\ params' = New(covered, now)
  /\ outcome' = "ok"
  /\ lifetime' = {}
  /\ UNCHANGED <<now, text>>
TryNew(covered) ==
  /\ Call
  /\ params' = IF HasUniqueElements(covered) THEN New(covered, now) ELSE NoParams
  /\ outcome' = IF HasUniqueElements(covered) THEN "ok" ELSE "err"
  /\ lifetime' = {}
  /\ UNCHANGED <<now, text>>

(* set_created, set_nonce, set_alg, set_keyid and set_tag.                  *)
Set(field, value) ==
  /\ Call /\ params # NoParams
  /\ params' = [params EXCEPT ![field] = {value}]
  /\ outcome' = "ok"
  /\ UNCHANGED <<now, text, lifetime>>

SetExpires(time) ==
  /\ Call /\ params # NoParams
  /\ params' = [params EXCEPT !.expires = {time}]
  /\ outcome' = "ok"
  /\ lifetime' = {}
  /\ UNCHANGED <<now, text>>

SetKeyInfo(key) ==
  /\ Call /\ params # NoParams
  /\ params' = [params EXCEPT !.keyid = {key.keyid}, !.alg = {key.alg}]
  /\ outcome' = "ok"
  /\ UNCHANGED <<now, text, lifetime>>

Panic == params' = NoParams /\ outcome' = "panic" /\ lifetime' = {}

(* The sum of two u64: a build with overflow checks panics where one        *)
(* without them wraps.  The clock of `at` is history only.                  *)
SetExpiresWithDuration(duration) ==
  /\ Call /\ params # NoParams
  /\ \/ params.created = {} /\ Panic
     \/ \E created \in params.created :
          LET secs == IF duration = {} THEN DEFAULT_DURATION ELSE CHOOSE d \in duration : TRUE
              sum == created + secs
          IN  \/ sum > MaxU64 /\ Panic
              \/ /\ params' = [params EXCEPT !.expires = {sum % (MaxU64 + 1)}]
                 /\ outcome' = "ok"
                 /\ lifetime' = {[from |-> created, at |-> now, duration |-> secs]}
  /\ UNCHANGED <<now, text>>

-----------------------------------------------------------------------------
(* Writing and converting back                                              *)

(* Display writes the parameters that are set.                              *)
Displayed(p) ==
  [name \in {n \in ParamNames : p[n] # {}} |->
     [type |-> IF name \in IntegerParams THEN "integer" ELSE "string",
      value |-> CHOOSE v \in p[name] : TRUE]]

Written(p, life) ==
  [form |-> DisplayForm(p), covered |-> p.covered, list |-> Displayed(p),
   source |-> {[params |-> p, lifetime |-> life]}]

(* What is read otherwise may be any text: it is as good as a peer's.       *)
WrittenLike(t, p) ==
  [form |-> t.form, covered |-> t.covered, list |-> t.list,
   source |-> {[params |-> p, lifetime |-> {}]}]

ToText ==
  /\ Call /\ params # NoParams
  /\ \/ DisplayForm(params) # "reread" /\ text' = Written(params, lifetime)
     \/ DisplayForm(params) = "reread" /\ \E t \in ForeignTexts : text' = WrittenLike(t, params)
  /\ outcome' = "ok"
  /\ UNCHANGED <<now, params, lifetime>>

(* A parameter of another type counts as absent, an unknown name is ignored. *)
Converted(list, name) ==
  LET type == IF name \in IntegerParams THEN "integer" ELSE "string"
  IN  IF name \in DOMAIN list /\ list[name].type = type THEN {list[name].value} ELSE {}

SwappedTimes(covered, list) ==     \* mutant: created and expires swapped
  [created |-> Converted(list, "expires"), expires |-> Converted(list, "created"),
   nonce |-> Converted(list, "nonce"), alg |-> Converted(list, "alg"),
   keyid |-> Converted(list, "keyid"), tag |-> Converted(list, "tag"), covered |-> covered]
FromList(covered, list) ==
  [created |-> Converted(list, "created"), expires |-> Converted(list, "expires"),
   nonce |-> Converted(list, "nonce"), alg |-> Converted(list, "alg"),
   keyid |-> Converted(list, "keyid"), tag |-> Converted(list, "tag"), covered |-> covered]

(* HttpSignatureParams::try_from(&str): a list of exactly one inner list.   *)
TextOutcome(t) ==
  IF t.form = "entry" THEN ParamsOutcome(FromList(t.covered, t.list)) ELSE "err"

TryFromText ==
  /\ Call /\ text # NoText
  /\ params' = IF TextOutcome(text) = "ok" THEN FromList(text.covered, text.list) ELSE NoParams
  /\ outcome' = TextOutcome(text)
  /\ lifetime' = IF TextOutcome(text) = "ok" THEN UNION {s.lifetime : s \in text.source} ELSE {}
  /\ UNCHANGED <<now, text>>

-----------------------------------------------------------------------------
(* The environment                                                          *)

ReceiveText(t) ==
  /\ text = NoText
  /\ text' = [form |-> t.form, covered |-> t.covered, list |-> t.list, source |-> {}]
  /\ UNCHANGED <<now, params, outcome, lifetime, calls>>

Pause(secs) ==
  /\ now + secs <= MaxTime
  /\ now' = now + secs
  /\ UNCHANGED <<params, outcome, text, lifetime, calls>>

Build == \/ \E covered \in Coverings : TryNew(covered)
         \/ \E time \in Times : Set("created", time) \/ SetExpires(time)
         \/ \E s \in Strings : Set("nonce", s) \/ Set("keyid", s) \/ Set("tag", s)
         \/ \E nonce \in RandomNonces : Set("nonce", nonce)
         \/ \E alg \in Algorithms : Set("alg", alg)
         \/ \E key \in KeyInfos : SetKeyInfo(key)
         \/ \E duration \in Durations : SetExpiresWithDuration(duration)

BuilderNext == \/ Build \/ ToText \/ TryFromText
               \/ \E t \in ForeignTexts : ReceiveText(t)
               \/ \E secs \in Pauses : Pause(secs)

BuilderSpec == BuilderInit /\ [][BuilderNext]_paramsVars
-----------------------------------------------------------------------------
(* Properties                                                               *)

IsOption(o) == o = {} \/ \E v \in o : o = {v}

IsParams(p) ==
  /\ p = [created |-> p.created, expires |-> p.expires, nonce |-> p.nonce, alg |-> p.alg,
          keyid |-> p.keyid, tag |-> p.tag, covered |-> p.covered]
  /\ \A name \in ParamNames : IsOption(p[name])
  /\ \A name \in IntegerParams : p[name] \subseteq 0..MaxU64

(* The states that parameters can be in: whatever was called and received,  *)
(* both times are u64 and no component is covered twice.                    *)
BuilderTypeOK ==
  /\ now \in Start..MaxTime
  /\ calls \in 0..MaxCalls
  /\ outcome \in {"ok", "err", "panic"}
  /\ params # NoParams => IsParams(params) /\ HasUniqueElements(params.covered)

(* Text that the library wrote converts back to the very parameters it was  *)
(* written from, or is refused where an integer is too large or a string    *)
(* has a character that no parser reads: nothing is lost or changed on the  *)
(* way, and nothing panics.  It is not so where a string with an unescaped  *)
(* '"' or '\' makes other parameters of the text (signature_params.rs:139). *)
OwnTextConverts ==
  [][TryFromText => \A s \in text.source :
       /\ DisplayForm(s.params) = "entry" => outcome' = "ok" /\ params' = s.params
       /\ DisplayForm(s.params) \in {"text", "opaque"} => outcome' = "err"]_paramsVars

(* Parameters given a duration expire when it is over, counted from the     *)
(* creation time they had: not a second earlier or later, whatever is set   *)
(* afterwards, written, converted, and however the clock moves in between,  *)
(* as long as the sum is a u64 (signature_params.rs:105-121).               *)
DurationCountsFromCreated ==
  \A l \in lifetime :
    l.from + l.duration <= MaxU64 =>
      (IsExpired(params, now) <=> now > l.from + l.duration)

(* What the comment of set_expires_with_duration says: "Set `expires`       *)
(* timestamp from the current timestamp" (signature_params.rs:104).         *)
DurationCountsFromNow ==
  \A l \in lifetime :
    l.at + l.duration <= MaxU64 =>
      (IsExpired(params, now) <=> now > l.at + l.duration)
==============================================================================
