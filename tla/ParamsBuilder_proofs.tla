------------------------- MODULE ParamsBuilder_proofs --------------------------
(***************************************************************************)
(* Proofs about ParamsBuilder.  The inductive invariant adds to the type    *)
(* invariant that the identifiers in hand convert, that `expires` is what   *)
(* the duration made it, and that text of the library is the display of     *)
(* parameters for which the same holds, or is read otherwise and may then   *)
(* be any text.                                                             *)
(***************************************************************************)
EXTENDS ParamsBuilder, ComponentsFacts

(* What holds of parameters that a program can have in hand.                *)
Sound(p) ==
  /\ IsParams(p)
  /\ HasUniqueElements(p.covered)
  /\ IsSeq(p.covered)
  /\ \A i \in DOMAIN p.covered : IdOutcome(p.covered[i]) = "ok"

Lasts(p, life) ==
  \A l \in life :
    /\ l.from \in Nat /\ l.duration \in Nat
    /\ l.from + l.duration <= MaxU64 => p.expires = {l.from + l.duration}

TextOK ==
  \/ text = NoText
  \/ /\ \A s \in text.source : s.lifetime = {} /\ DisplayForm(s.params) = "reread"
     /\ \E t \in ForeignTexts : text.covered = t.covered /\ text.list = t.list
  \/ \E p, life : Sound(p) /\ Lasts(p, life) /\ text = Written(p, life)

BuilderInv ==
  /\ BuilderTypeOK
  /\ params # NoParams => Sound(params)
  /\ params = NoParams => lifetime = {}
  /\ Lasts(params, lifetime)
  /\ TextOK

-----------------------------------------------------------------------------
(* Writing and converting back                                              *)

LEMMA ConvertedDisplay ==
  ASSUME NEW p, IsParams(p), NEW name \in ParamNames
  PROVE  Converted(Displayed(p), name) = p[name]
<1>1. CASE p[name] = {}
  BY <1>1 DEF Converted, Displayed
<1>2. CASE p[name] # {}
  <2>1. PICK v \in p[name] : p[name] = {v}
    BY <1>2 DEF IsParams, IsOption
  <2>2. (CHOOSE w \in p[name] : TRUE) = v
    BY <2>1
  <2>3. /\ name \in DOMAIN Displayed(p)
        /\ Displayed(p)[name] = [type |-> IF name \in IntegerParams THEN "integer" ELSE "string",
                                 value |-> v]
    BY <1>2, <2>2 DEF Displayed
  <2> QED
    BY <2>1, <2>3 DEF Converted
<1> QED
  BY <1>1, <1>2

LEMMA RoundTrip ==
  ASSUME NEW p, IsParams(p)
  PROVE  FromList(p.covered, Displayed(p)) = p
<1>1. /\ Converted(Displayed(p), "created") = p.created
      /\ Converted(Displayed(p), "expires") = p.expires
      /\ Converted(Displayed(p), "nonce") = p.nonce
      /\ Converted(Displayed(p), "alg") = p.alg
      /\ Converted(Displayed(p), "keyid") = p.keyid
      /\ Converted(Displayed(p), "tag") = p.tag
  BY ConvertedDisplay DEF ParamNames, IntegerParams, StringParams
<1>2. p = [created |-> p.created, expires |-> p.expires, nonce |-> p.nonce, alg |-> p.alg,
           keyid |-> p.keyid, tag |-> p.tag, covered |-> p.covered]
  BY DEF IsParams
<1> QED
  BY <1>1, <1>2 DEF FromList

(* Both times of sound parameters are natural numbers, so nothing is        *)
(* unwrapped that is not there.                                             *)
LEMMA SoundConverts ==
  ASSUME NEW p, Sound(p)
  PROVE  ParamsOutcome(p) = "ok"
<1>1. {i \in DOMAIN p.covered : IdOutcome(p.covered[i]) # "ok"} = {}
  BY DEF Sound
<1>2. ~\E t \in p.created \cup p.expires : t < 0
  BY NumberAssumption DEF Sound, IsParams, ParamNames, IntegerParams
<1> QED
  BY <1>1, <1>2 DEF ParamsOutcome, Sound

LEMMA OutcomeRange ==
  ASSUME NEW p, IsSeq(p.covered)
  PROVE  ParamsOutcome(p) \in {"ok", "err", "panic"}
<1> DEFINE refused == {i \in DOMAIN p.covered : IdOutcome(p.covered[i]) # "ok"}
<1>1. CASE refused = {}
  BY <1>1 DEF ParamsOutcome
<1>2. CASE refused # {}
  <2>1. ParamsOutcome(p) = IdOutcome(p.covered[CHOOSE i \in refused : \A j \in refused : i <= j])
    BY <1>2 DEF ParamsOutcome
  <2> QED
    BY <2>1 DEF IdOutcome
<1> QED
  BY <1>1, <1>2

(* What converts is sound, whoever wrote it.                                *)
LEMMA ConvertedIsSound ==
  ASSUME NEW covered, NEW list, IsSeq(covered),
         ParamsOutcome(FromList(covered, list)) = "ok",
         \A name \in DOMAIN list : list[name].type = "integer" =>
           list[name].value \in Int /\ list[name].value <= MaxU64
  PROVE  Sound(FromList(covered, list))
<1> DEFINE p == FromList(covered, list)
<1>1. /\ DOMAIN p = {"created", "expires", "nonce", "alg", "keyid", "tag", "covered"}
      /\ p.covered = covered
      /\ \A name \in ParamNames : p[name] = Converted(list, name)
  BY DEF FromList, ParamNames, IntegerParams, StringParams
<1>2. /\ ~\E t \in p.created \cup p.expires : t < 0
      /\ HasUniqueElements(covered)
      /\ \A i \in DOMAIN covered : IdOutcome(covered[i]) = "ok"
  <2> DEFINE refused == {i \in DOMAIN covered : IdOutcome(covered[i]) # "ok"}
  <2>1. refused = {}
    <3>1. SUFFICES ASSUME refused # {} PROVE FALSE
      OBVIOUS
    <3>2. ParamsOutcome(p) = IdOutcome(covered[CHOOSE i \in refused : \A j \in refused : i <= j])
      BY <3>1, <1>1 DEF ParamsOutcome
    <3>3. DOMAIN covered \subseteq Nat
      BY DEF IsSeq
    <3>4. (CHOOSE i \in refused : \A j \in refused : i <= j) \in refused
      BY <3>1, <3>3, LeastElement
    <3> QED
      BY <3>2, <3>4
  <2> QED
    BY <2>1, <1>1 DEF ParamsOutcome
<1>3. ASSUME NEW name \in ParamNames
      PROVE  IsOption(p[name])
  BY <1>1 DEF Converted, IsOption
<1>4. ASSUME NEW name \in IntegerParams
      PROVE  p[name] \subseteq 0..MaxU64
  <2>1. p[name] = Converted(list, name)
    BY <1>1 DEF ParamNames
  <2>2. \A t \in p[name] : ~(t < 0)
    BY <1>2 DEF IntegerParams
  <2>3. \A t \in p[name] : t \in Int /\ t <= MaxU64
    BY <2>1 DEF Converted
  <2> QED
    BY <2>2, <2>3, NumberAssumption
<1>5. p = [created |-> p.created, expires |-> p.expires, nonce |-> p.nonce, alg |-> p.alg,
           keyid |-> p.keyid, tag |-> p.tag, covered |-> p.covered]
  BY DEF FromList
<1> QED
  BY <1>1, <1>2, <1>3, <1>4, <1>5 DEF Sound, IsParams

-----------------------------------------------------------------------------
(* The invariant                                                            *)

LEMMA BuilderInitInv ==
  BuilderInit => BuilderInv
BY ClockAssumption, NumberAssumption
   DEF BuilderInit, BuilderInv, BuilderTypeOK, Lasts, TextOK

LEMMA NewIsSound ==
  ASSUME NEW covered \in Coverings, HasUniqueElements(covered), NEW t \in 0..MaxU64
  PROVE  Sound(New(covered, t))
<1> DEFINE p == New(covered, t)
<1>1. /\ p.created = {t} /\ p.expires = {} /\ p.nonce = {} /\ p.alg = {} /\ p.keyid = {}
      /\ p.tag = {} /\ p.covered = covered
      /\ p = [created |-> p.created, expires |-> p.expires, nonce |-> p.nonce, alg |-> p.alg,
              keyid |-> p.keyid, tag |-> p.tag, covered |-> p.covered]
      /\ p["created"] = {t} /\ p["expires"] = {} /\ p["nonce"] = {} /\ p["alg"] = {}
      /\ p["keyid"] = {} /\ p["tag"] = {}
  BY DEF New
<1>2. /\ \A name \in ParamNames : IsOption(p[name])
      /\ \A name \in IntegerParams : p[name] \subseteq 0..MaxU64
  BY <1>1 DEF ParamNames, IntegerParams, StringParams, IsOption
<1> HIDE DEF p
<1>3. IsParams(p)
  BY <1>1, <1>2 DEF IsParams
<1> QED
  BY <1>1, <1>3, CoveringAssumption DEF Sound, p

LEMMA SoundDomain ==
  ASSUME NEW p, Sound(p)
  PROVE  DOMAIN p = {"created", "expires", "nonce", "alg", "keyid", "tag", "covered"}
BY DEF Sound, IsParams

LEMMA SetIsSound ==
  ASSUME NEW p, Sound(p), NEW name \in ParamNames, NEW v, NEW q,
         q = [p EXCEPT ![name] = {v}],
         name \in IntegerParams => v \in 0..MaxU64
  PROVE  Sound(q)
<1>1. DOMAIN p = {"created", "expires", "nonce", "alg", "keyid", "tag", "covered"}
  BY SoundDomain
<1>2. /\ q[name] = {v}
      /\ \A n \in ParamNames \ {name} : q[n] = p[n]
      /\ q.covered = p.covered
  BY <1>1 DEF ParamNames, IntegerParams, StringParams
<1>3. q = [created |-> q.created, expires |-> q.expires, nonce |-> q.nonce, alg |-> q.alg,
           keyid |-> q.keyid, tag |-> q.tag, covered |-> q.covered]
  BY <1>1 DEF ParamNames, IntegerParams, StringParams
<1>4. /\ \A n \in ParamNames : IsOption(q[n])
      /\ \A n \in IntegerParams : q[n] \subseteq 0..MaxU64
  BY <1>2 DEF Sound, IsParams, IsOption, ParamNames
<1> QED
  BY <1>2, <1>3, <1>4 DEF Sound, IsParams

LEMMA BuilderStepInv ==
  BuilderInv /\ [BuilderNext]_paramsVars => BuilderInv'
<1> SUFFICES ASSUME BuilderInv, [BuilderNext]_paramsVars
             PROVE  BuilderInv'
  OBVIOUS
<1>a. /\ BuilderTypeOK /\ TextOK
      /\ params # NoParams => Sound(params)
      /\ params = NoParams => lifetime = {}
      /\ Lasts(params, lifetime)
  BY DEF BuilderInv
<1>b. now \in 0..MaxU64 /\ now \in Nat
  BY <1>a, ClockAssumption, NumberAssumption DEF BuilderTypeOK
<1>c. ASSUME UNCHANGED text
      PROVE  TextOK'
  BY <1>a, <1>c DEF TextOK
<1>d. ASSUME Call
      PROVE  calls' \in 0..MaxCalls
  BY <1>a, <1>d, NumberAssumption DEF Call, BuilderTypeOK
(* Enough for a call that ends with sound parameters or with none.          *)
<1>e. ASSUME now' \in Start..MaxTime, calls' \in 0..MaxCalls, outcome' \in {"ok", "err", "panic"},
             \/ params' = NoParams /\ lifetime' = {}
             \/ params' # NoParams /\ Sound(params') /\ Lasts(params', lifetime'),
             TextOK'
      PROVE  BuilderInv'
  BY <1>e DEF BuilderInv, BuilderTypeOK, Sound, Lasts
<1>f. ASSUME NEW p, Sound(p)
      PROVE  p # NoParams
  <2>1. "created" \in DOMAIN p
    BY <1>f DEF Sound, IsParams
  <2> QED
    BY <2>1 DEF NoParams
<1>1. ASSUME NEW covered \in Coverings, TryNew(covered)
      PROVE  BuilderInv'
  <2>1. CASE HasUniqueElements(covered)
    <3>1. params' = New(covered, now) /\ lifetime' = {}
      BY <1>1, <2>1 DEF TryNew
    <3>2. Sound(params')
      BY <1>b, <2>1, <3>1, NewIsSound
    <3>3. Lasts(params', lifetime')
      BY <3>1 DEF Lasts
    <3>4. outcome' = "ok" /\ now' = now /\ UNCHANGED text /\ Call
      BY <1>1, <2>1 DEF TryNew
    <3> QED
      BY <1>a, <1>c, <1>d, <1>e, <1>f, <3>2, <3>3, <3>4 DEF BuilderTypeOK
  <2>2. CASE ~HasUniqueElements(covered)
    <3>1. params' = NoParams /\ lifetime' = {} /\ outcome' = "err" /\ now' = now
          /\ UNCHANGED text /\ Call
      BY <1>1, <2>2 DEF TryNew
    <3> QED
      BY <1>a, <1>c, <1>d, <1>e, <3>1 DEF BuilderTypeOK
  <2> QED
    BY <2>1, <2>2
<1>2. ASSUME NEW field \in ParamNames \ {"expires"}, NEW v, Set(field, v),
             field = "created" => v \in 0..MaxU64
      PROVE  BuilderInv'
  <2>1. /\ params # NoParams /\ params' = [params EXCEPT ![field] = {v}]
        /\ outcome' = "ok" /\ UNCHANGED <<now, text, lifetime>> /\ Call
    BY <1>2 DEF Set
  <2>a. field \in ParamNames /\ (field \in IntegerParams => v \in 0..MaxU64) /\ Sound(params)
    BY <1>2, <1>a, <2>1 DEF IntegerParams
  <2>2. Sound(params')
    BY <2>a, <2>1, SetIsSound
  <2>3. params'.expires = params.expires
    BY <1>2, <2>a, <2>1, SoundDomain
  <2>4. Lasts(params', lifetime')
    BY <1>a, <2>1, <2>3 DEF Lasts
  <2> QED
    BY <1>a, <1>c, <1>d, <1>e, <1>f, <2>1, <2>2, <2>4 DEF BuilderTypeOK
<1>3. ASSUME NEW time \in Times, SetExpires(time)
      PROVE  BuilderInv'
  <2>1. /\ params # NoParams /\ params' = [params EXCEPT !["expires"] = {time}]
        /\ outcome' = "ok" /\ lifetime' = {} /\ UNCHANGED <<now, text>> /\ Call
    BY <1>3 DEF SetExpires
  <2>2. Sound(params')
    BY <1>a, <2>1, SetIsSound, NumberAssumption DEF IntegerParams, ParamNames
  <2>3. Lasts(params', lifetime')
    BY <2>1 DEF Lasts
  <2> QED
    BY <1>a, <1>c, <1>d, <1>e, <1>f, <2>1, <2>2, <2>3 DEF BuilderTypeOK
<1>4. ASSUME NEW key \in KeyInfos, SetKeyInfo(key)
      PROVE  BuilderInv'
  <2>1. /\ params # NoParams
        /\ params' = [params EXCEPT !.keyid = {key.keyid}, !.alg = {key.alg}]
        /\ outcome' = "ok" /\ UNCHANGED <<now, text, lifetime>> /\ Call
    BY <1>4 DEF SetKeyInfo
  <2>2. PICK q : q = [params EXCEPT !["keyid"] = {key.keyid}]
    OBVIOUS
  <2>3. {"keyid", "alg"} \subseteq ParamNames \ IntegerParams /\ Sound(params)
    BY <1>a, <2>1 DEF IntegerParams, StringParams, ParamNames
  <2>a. Sound(q)
    BY <2>2, <2>3, SetIsSound
  <2>b. params' = [q EXCEPT !["alg"] = {key.alg}]
    BY <2>1, <2>2
  <2>4. Sound(params')
    BY <2>3, <2>a, <2>b, SetIsSound
  <2>5. params'.expires = params.expires
    BY <2>1, <2>3, SoundDomain
  <2>6. Lasts(params', lifetime')
    BY <1>a, <2>1, <2>5 DEF Lasts
  <2> QED
    BY <1>a, <1>c, <1>d, <1>e, <1>f, <2>1, <2>4, <2>6 DEF BuilderTypeOK
<1>5. ASSUME NEW duration \in Durations, SetExpiresWithDuration(duration)
      PROVE  BuilderInv'
  <2> DEFINE secs == IF duration = {} THEN DEFAULT_DURATION ELSE CHOOSE d \in duration : TRUE
  <2>0. Call /\ params # NoParams /\ UNCHANGED <<now, text>>
    BY <1>5 DEF SetExpiresWithDuration
  <2>1. secs \in Nat
    BY NumberAssumption DEF DEFAULT_DURATION
  <2>2. CASE Panic
    BY <1>a, <1>c, <1>d, <1>e, <2>0, <2>2 DEF BuilderTypeOK, Panic
  <2>3. ASSUME NEW created \in params.created,
               params' = [params EXCEPT !["expires"] = {(created + secs) % (MaxU64 + 1)}],
               outcome' = "ok",
               lifetime' = {[from |-> created, at |-> now, duration |-> secs]}
        PROVE  BuilderInv'
    <3> HIDE DEF secs
    <3>1. created \in Nat
      BY <1>a, <2>0, NumberAssumption DEF Sound, IsParams, IntegerParams
    <3>2. (created + secs) % (MaxU64 + 1) \in 0..MaxU64
      BY <2>1, <3>1, NumberAssumption
    <3>a. "expires" \in ParamNames /\ Sound(params)
      BY <1>a, <2>0 DEF IntegerParams, ParamNames
    <3>b. PICK e : e = (created + secs) % (MaxU64 + 1)
      OBVIOUS
    <3>c. params' = [params EXCEPT !["expires"] = {e}] /\ e \in 0..MaxU64
      BY <2>3, <3>2, <3>b
    <3>3. Sound(params') /\ params'.expires = {(created + secs) % (MaxU64 + 1)}
      BY <3>a, <3>b, <3>c, SetIsSound, SoundDomain
    <3>4. created + secs <= MaxU64 => (created + secs) % (MaxU64 + 1) = created + secs
      BY <2>1, <3>1, NumberAssumption
    <3>5. Lasts(params', lifetime')
      BY <2>1, <2>3, <3>1, <3>3, <3>4 DEF Lasts
    <3> QED
      BY <1>a, <1>c, <1>d, <1>e, <1>f, <2>0, <2>3, <3>3, <3>5 DEF BuilderTypeOK
  <2> QED
    BY <1>5, <2>2, <2>3 DEF SetExpiresWithDuration
<1>6. CASE ToText
  <2>1. /\ Call /\ params # NoParams /\ outcome' = "ok" /\ UNCHANGED <<now, params, lifetime>>
    BY <1>6 DEF ToText
  <2>2. TextOK'
    <3>1. CASE text' = Written(params, lifetime)
      BY <1>a, <2>1, <3>1 DEF TextOK
    <3>2. ASSUME NEW t \in ForeignTexts, text' = WrittenLike(t, params),
                 DisplayForm(params) = "reread"
          PROVE  TextOK'
      BY <3>2 DEF TextOK, WrittenLike
    <3> QED
      BY <1>6, <3>1, <3>2 DEF ToText
  <2> QED
    BY <1>a, <1>d, <1>e, <2>1, <2>2 DEF BuilderTypeOK
<1>7. CASE TryFromText
  <2>0. Call /\ text # NoText /\ UNCHANGED <<now, text>>
    BY <1>7 DEF TryFromText
  <2>1. CASE TextOutcome(text) # "ok"
    <3>1. params' = NoParams /\ lifetime' = {} /\ outcome' = TextOutcome(text)
      BY <1>7, <2>1 DEF TryFromText
    <3>a. IsSeq(text.covered)
      BY <1>a, <2>0, TextAssumption DEF TextOK, Sound, Written
    <3>b. FromList(text.covered, text.list).covered = text.covered
      BY DEF FromList
    <3>2. TextOutcome(text) \in {"ok", "err", "panic"}
      BY <3>a, <3>b, OutcomeRange DEF TextOutcome
    <3> QED
      BY <1>a, <1>c, <1>d, <1>e, <2>0, <3>1, <3>2 DEF BuilderTypeOK
  <2>2. CASE TextOutcome(text) = "ok"
    <3>1. /\ params' = FromList(text.covered, text.list) /\ outcome' = "ok"
          /\ lifetime' = UNION {s.lifetime : s \in text.source}
          /\ ParamsOutcome(FromList(text.covered, text.list)) = "ok"
      BY <1>7, <2>2 DEF TryFromText, TextOutcome
    <3>2. CASE /\ \A s \in text.source : s.lifetime = {} /\ DisplayForm(s.params) = "reread"
               /\ \E t \in ForeignTexts : text.covered = t.covered /\ text.list = t.list
      <4>1. Sound(params')
        BY <3>1, <3>2, TextAssumption, NumberAssumption, ConvertedIsSound
      <4>2. lifetime' = {}
        BY <3>1, <3>2
      <4>3. Lasts(params', lifetime')
        BY <4>2 DEF Lasts
      <4> QED
        BY <1>a, <1>c, <1>d, <1>e, <1>f, <2>0, <3>1, <4>1, <4>3 DEF BuilderTypeOK
    <3>3. ASSUME NEW p, NEW life, Sound(p), Lasts(p, life), text = Written(p, life)
          PROVE  BuilderInv'
      <4>1. params' = p
        BY <3>1, <3>3, RoundTrip DEF Sound, Written
      <4>2. lifetime' = life
        BY <3>1, <3>3 DEF Written
      <4> QED
        BY <1>a, <1>c, <1>d, <1>e, <1>f, <2>0, <3>1, <3>3, <4>1, <4>2 DEF BuilderTypeOK
    <3> QED
      BY <1>a, <2>0, <3>2, <3>3 DEF TextOK
  <2> QED
    BY <2>1, <2>2
<1>8. ASSUME NEW t \in ForeignTexts, ReceiveText(t)
      PROVE  BuilderInv'
  BY <1>a, <1>8 DEF ReceiveText, BuilderInv, BuilderTypeOK, TextOK, Lasts, Sound
<1>9. ASSUME NEW secs \in Pauses, Pause(secs)
      PROVE  BuilderInv'
  <2>1. now' \in Start..MaxTime
    BY <1>9, <1>a, ClockAssumption DEF Pause, BuilderTypeOK
  <2>2. UNCHANGED <<params, outcome, text, lifetime, calls>>
    BY <1>9 DEF Pause
  <2> QED
    BY <1>a, <1>c, <2>1, <2>2 DEF BuilderInv, BuilderTypeOK, Lasts, Sound
<1>10. CASE UNCHANGED paramsVars
  BY <1>10, <1>a DEF paramsVars, BuilderInv, BuilderTypeOK, TextOK, Lasts, Sound
<1>11. CASE Build
  <2>1. ASSUME NEW v, \/ Set("nonce", v) \/ Set("keyid", v) \/ Set("tag", v) \/ Set("alg", v)
        PROVE  BuilderInv'
    BY <1>2, <2>1 DEF ParamNames, StringParams
  <2>2. ASSUME NEW time \in Times, Set("created", time)
        PROVE  BuilderInv'
    BY <1>2, <2>2, NumberAssumption DEF ParamNames, IntegerParams
  <2> QED
    BY <1>1, <1>3, <1>4, <1>5, <1>11, <2>1, <2>2 DEF Build
<1> QED
  BY <1>6, <1>7, <1>8, <1>9, <1>10, <1>11 DEF BuilderNext

-----------------------------------------------------------------------------
(* The theorems                                                             *)

LEMMA BuilderInvHolds ==
  BuilderSpec => []BuilderInv
BY BuilderInitInv, BuilderStepInv, PTL DEF BuilderSpec

(* Whatever is called and received, parameters in hand keep their shape:    *)
(* both times are u64 and no component is covered twice.                    *)
THEOREM BuilderTypeCorrect ==
  BuilderSpec => []BuilderTypeOK
<1>1. BuilderInv => BuilderTypeOK
  BY DEF BuilderInv
<1> QED
  BY <1>1, BuilderInvHolds, PTL

(* Parameters expire when the duration they were given is over, counted     *)
(* from the creation time they had.                                         *)
THEOREM DurationIsKept ==
  BuilderSpec => []DurationCountsFromCreated
<1>1. BuilderInv => DurationCountsFromCreated
  <2> SUFFICES ASSUME BuilderInv, NEW l \in lifetime, l.from + l.duration <= MaxU64
               PROVE  IsExpired(params, now) <=> now > l.from + l.duration
    BY DEF DurationCountsFromCreated
  <2>1. params.expires = {l.from + l.duration} /\ l.from + l.duration \in Nat /\ now \in Nat
    BY ClockAssumption DEF BuilderInv, Lasts, BuilderTypeOK
  <2> QED
    BY <2>1 DEF IsExpired
<1> QED
  BY <1>1, BuilderInvHolds, PTL

(* Text that the library wrote converts back to the parameters it was       *)
(* written from, or is refused, and it never panics, unless a string in it  *)
(* is one whose unescaped '"' or '\' makes other parameters of the text.    *)
THEOREM OwnTextAlwaysConverts ==
  BuilderSpec => OwnTextConverts
<1>1. BuilderInv /\ [BuilderNext]_paramsVars =>
        [TryFromText => \A s \in text.source :
           /\ DisplayForm(s.params) = "entry" => outcome' = "ok" /\ params' = s.params
           /\ DisplayForm(s.params) \in {"text", "opaque"} => outcome' = "err"]_paramsVars
  <2> SUFFICES ASSUME BuilderInv, TryFromText, NEW s \in text.source,
                      DisplayForm(s.params) # "reread"
               PROVE  /\ DisplayForm(s.params) = "entry" => outcome' = "ok" /\ params' = s.params
                      /\ DisplayForm(s.params) \in {"text", "opaque"} => outcome' = "err"
    OBVIOUS
  <2>1. text # NoText
    BY DEF TryFromText
  <2>2. PICK p, life : Sound(p) /\ text = Written(p, life)
    BY <2>1 DEF BuilderInv, TextOK
  <2>3. /\ s.params = p /\ text.form = DisplayForm(p)
        /\ FromList(text.covered, text.list) = p /\ ParamsOutcome(p) = "ok"
    BY <2>2, RoundTrip, SoundConverts DEF Sound, Written
  <2> QED
    BY <2>3 DEF TryFromText, TextOutcome
<1> QED
  BY <1>1, BuilderInvHolds, PTL DEF BuilderSpec, OwnTextConverts
================================================================================
