------------------------- MODULE ContentDigest_proofs -------------------------
(***************************************************************************)
(* Theorems about ContentDigest, for every value of its constants.          *)
(***************************************************************************)
EXTENDS ContentDigest, ComponentsFacts

(* One more frame behind, and one less in front.                            *)
LEMMA FrameAppended ==
  ASSUME NEW s, IsSeq(s), \A frame \in ToSet(s) : IsSeq(frame), NEW f, IsSeq(f)
  PROVE  IsSeq(Append(s, f)) /\ \A frame \in ToSet(Append(s, f)) : IsSeq(frame)
<1>1. /\ IsSeq(Append(s, f)) /\ Len(Append(s, f)) = Len(s) + 1 /\ Len(s) \in Nat
      /\ \A i \in 1..Len(s) : Append(s, f)[i] = s[i]
      /\ Append(s, f)[Len(s) + 1] = f
  BY AppendIsSeq
<1>2. DOMAIN s = 1..Len(s) /\ DOMAIN Append(s, f) = 1..(Len(s) + 1)
  BY <1>1, SeqIsSeq DEF IsSeq
<1> QED
  BY <1>1, <1>2 DEF ToSet

LEMMA FrameTaken ==
  ASSUME NEW s, IsSeq(s), s # <<>>, \A frame \in ToSet(s) : IsSeq(frame)
  PROVE  /\ IsSeq(Head(s)) /\ IsSeq(Tail(s))
         /\ \A frame \in ToSet(Tail(s)) : IsSeq(frame)
<1>1. s \in Seq(ToSet(s))
  BY DEF IsSeq
<1>2. Head(s) \in ToSet(s) /\ Tail(s) \in Seq(ToSet(s))
  BY <1>1
<1>3. IsSeq(Tail(s))
  BY <1>2, SeqIsSeq
<1>4. ToSet(Tail(s)) \subseteq ToSet(s)
  BY <1>2 DEF ToSet
<1> QED
  BY <1>2, <1>3, <1>4

LEMMA FullIsBody ==
  ASSUME NEW bytes, IsSeq(bytes)
  PROVE  /\ DOMAIN Full(bytes) = {"frames", "end", "trailers"}
         /\ Full(bytes).end = "closed" /\ Full(bytes).frames = <<bytes>>
         /\ IsSeq(<<bytes>>) /\ \A frame \in ToSet(<<bytes>>) : IsSeq(frame)
<1>1. <<bytes>> \in Seq({bytes}) /\ ToSet(<<bytes>>) = {bytes}
  BY DEF ToSet
<1> QED
  BY <1>1, SeqIsSeq DEF Full

LEMMA NoBodyIsBody ==
  /\ DOMAIN NoBody = {"frames", "end", "trailers"} /\ NoBody.end = "closed"
  /\ NoBody.frames = <<>> /\ IsSeq(<<>>) /\ \A frame \in ToSet(<<>>) : IsSeq(frame)
BY EmptyIsSeq DEF NoBody, ToSet

LEMMA DigestTypeStep ==
  ASSUME DigestTypeOK, [DigestNext]_digestVars
  PROVE  DigestTypeOK'
<1> USE DigestInputAssumption, DigestBoundAssumption DEF NoMessage, NoTask
<1>1. ASSUME NEW field \in DigestFields, Receive(field) PROVE DigestTypeOK'
  BY <1>1, EmptyIsSeq, NoBodyIsBody DEF DigestTypeOK, Receive, Incoming
<1>2. ASSUME NEW field \in DigestFields, Replace(field) PROVE DigestTypeOK'
  BY <1>2 DEF DigestTypeOK, Replace, Incoming
<1>3. ASSUME NEW frame \in Frames, Arrive(frame) PROVE DigestTypeOK'
  <2>1. IsSeq(body.frames) /\ IsSeq(arrived) /\ IsSeq(frame)
    BY <1>3 DEF DigestTypeOK
  <2>2. IsSeq(Append(body.frames, frame))
        /\ \A f \in ToSet(Append(body.frames, frame)) : IsSeq(f)
    BY <2>1, FrameAppended DEF DigestTypeOK
  <2>3. IsSeq(arrived \o frame) /\ Len(arrived \o frame) = Len(arrived) + Len(frame)
    BY <2>1, ConcatIsSeq
  <2> QED
    BY <1>3, <2>2, <2>3 DEF DigestTypeOK, Arrive
<1>4. ASSUME NEW end \in {"closed", "failed"}, NEW t \in BOOLEAN, EndBody(end, t)
      PROVE  DigestTypeOK'
  BY <1>4 DEF DigestTypeOK, EndBody
<1>5. ASSUME NEW alg, BeginSet(alg) PROVE DigestTypeOK'
  BY <1>5, EmptyIsSeq DEF DigestTypeOK, BeginSet, Running
<1>6. ASSUME BeginVerifyDigest PROVE DigestTypeOK'
  BY <1>6, EmptyIsSeq, NoBodyIsBody DEF DigestTypeOK, BeginVerifyDigest, Running, Fail, Lose
<1>7. ASSUME Collect PROVE DigestTypeOK'
  <2>1. /\ IsSeq(Head(body.frames)) /\ IsSeq(Tail(body.frames))
        /\ \A f \in ToSet(Tail(body.frames)) : IsSeq(f)
    BY <1>7, FrameTaken DEF DigestTypeOK, Collect
  <2>2. IsSeq(task.got \o Head(body.frames))
    BY <1>7, <2>1, ConcatIsSeq DEF DigestTypeOK, Collect
  <2> QED
    BY <1>7, <2>1, <2>2 DEF DigestTypeOK, Collect
<1>8. ASSUME BodyFails \/ Cancel PROVE DigestTypeOK'
  BY <1>8, NoBodyIsBody DEF DigestTypeOK, BodyFails, Cancel, Fail, Lose
<1>9. ASSUME FinishSet PROVE DigestTypeOK'
  <2>1. IsSeq(task.got) /\ message # NoMessage
    BY <1>9 DEF DigestTypeOK, FinishSet
  <2>2. /\ DOMAIN message' = DOMAIN message /\ DOMAIN message'.headers = DOMAIN message.headers
        /\ message' # NoMessage
    BY <1>9, <2>1 DEF DigestTypeOK, FinishSet, WithDigest
  <2>3. /\ task'.status = "done" /\ task'.got = task.got
        /\ DOMAIN task' = {"status", "op", "alg", "expected", "got"}
    BY <1>9 DEF DigestTypeOK, FinishSet
  <2>4. body' = Full(task.got) /\ arrived' = arrived
    BY <1>9 DEF FinishSet
  <2> HIDE DEF NoMessage
  <2> QED
    BY <2>1, <2>2, <2>3, <2>4, FullIsBody DEF DigestTypeOK
<1>10. ASSUME FinishVerify PROVE DigestTypeOK'
  <2>1. IsSeq(task.got) /\ message # NoMessage
    BY <1>10 DEF DigestTypeOK, FinishVerify
  <2>2. CASE task'.status = "done"
    <3>1. /\ body' = Full(task.got) /\ message' = message /\ arrived' = arrived
          /\ task' = [task EXCEPT !.status = "done"]
      BY <1>10, <2>2 DEF FinishVerify, Fail
    <3>2. /\ task'.got = task.got
          /\ DOMAIN task' = {"status", "op", "alg", "expected", "got"}
      BY <1>10, <3>1 DEF DigestTypeOK, FinishVerify
    <3> HIDE DEF NoMessage
    <3> QED
      BY <2>1, <2>2, <3>1, <3>2, FullIsBody DEF DigestTypeOK
  <2>3. CASE task'.status # "done"
    <3>1. task' = [status |-> "err", op |-> "verify", vouched |-> vouched] /\ Lose
      BY <1>10, <2>1, <2>3 DEF DigestTypeOK, FinishVerify, Fail
    <3> QED
      BY <3>1, NoBodyIsBody DEF DigestTypeOK, Lose
  <2> QED
    BY <2>2, <2>3
<1>11. ASSUME TakeBack \/ UNCHANGED digestVars PROVE DigestTypeOK'
  BY <1>11 DEF DigestTypeOK, TakeBack, digestVars
<1> QED
  BY <1>1, <1>2, <1>3, <1>4, <1>5, <1>6, <1>7, <1>8, <1>9, <1>10, <1>11
  DEF DigestNext, DigestCall, Peer

(* Message, body and call keep their shape, for all fields and frames.      *)
THEOREM DigestTypeCorrect == DigestSpec => []DigestTypeOK
<1>1. DigestInit => DigestTypeOK
  BY DigestInputAssumption, DigestBoundAssumption, EmptyIsSeq, NoBodyIsBody
  DEF DigestInit, DigestTypeOK, NoTask, NoBody, NoMessage, Incoming
<1> QED
  BY <1>1, DigestTypeStep, PTL DEF DigestSpec

-----------------------------------------------------------------------------
(* What Ok means                                                            *)

(* While a verification runs, what it compares with is what the header says; *)
(* once it is done, the digest is that of the body that came back.           *)
ExpectedInv ==
  /\ task.status = "running" /\ task.op = "verify" =>
       \A d \in task.expected : [alg |-> task.alg, digest |-> d] \in ExtractContentDigest(message)
  /\ task.status = "done" /\ task.op = "verify" =>
       /\ body = Full(task.got)
       /\ [alg |-> task.alg, digest |-> DeriveDigest(task.alg, task.got)]
            \in ExtractContentDigest(message)

LEMMA ExpectedStep ==
  ASSUME DigestTypeOK, ExpectedInv, [DigestNext]_digestVars
  PROVE  ExpectedInv'
<1>1. ASSUME BeginVerifyDigest PROVE ExpectedInv'
  <2>1. CASE ExtractContentDigest(message) = {}
    BY <1>1, <2>1 DEF BeginVerifyDigest, ExpectedInv, Fail
  <2>2. CASE ExtractContentDigest(message) # {}
    <3>1. PICK found \in ExtractContentDigest(message) :
            /\ task' = Running("verify", found.alg, {found.digest})
            /\ message' = message
      BY <1>1, <2>2 DEF BeginVerifyDigest
    <3>2. found = [alg |-> found.alg, digest |-> found.digest]
      BY DEF ExtractContentDigest
    <3>3. ExtractContentDigest(message)' = ExtractContentDigest(message)
      BY <3>1
    <3> QED
      BY <3>1, <3>2, <3>3 DEF ExpectedInv, Running
  <2> QED
    BY <2>1, <2>2
<1>2. ASSUME Collect PROVE ExpectedInv'
  <2>1. /\ task'.status = "running" /\ task'.op = task.op /\ task'.alg = task.alg
        /\ task'.expected = task.expected /\ message' = message
    BY <1>2 DEF Collect, DigestTypeOK
  <2> QED
    BY <1>2, <2>1 DEF ExpectedInv, Collect
<1>3. ASSUME FinishVerify PROVE ExpectedInv'
  <2>1. CASE task'.status = "done"
    <3>1. /\ body' = Full(task.got) /\ message' = message
          /\ task' = [task EXCEPT !.status = "done"]
          /\ \E d \in task.expected : DeriveDigest(task.alg, task.got) = d
      BY <1>3, <2>1 DEF FinishVerify, Fail, IsEqualDigest
    <3>2. task'.op = "verify" /\ task'.got = task.got /\ task'.alg = task.alg
      BY <1>3, <3>1 DEF DigestTypeOK, FinishVerify
    <3>3. [alg |-> task.alg, digest |-> DeriveDigest(task.alg, task.got)]
            \in ExtractContentDigest(message)
      BY <1>3, <3>1 DEF ExpectedInv, FinishVerify
    <3>4. ExtractContentDigest(message)' = ExtractContentDigest(message)
      BY <3>1
    <3> QED
      BY <2>1, <3>1, <3>2, <3>3, <3>4 DEF ExpectedInv
  <2>2. CASE task'.status # "done"
    <3>1. task'.status = "err"
      BY <1>3, <2>2 DEF DigestTypeOK, FinishVerify, Fail
    <3> QED
      BY <3>1 DEF ExpectedInv
  <2> QED
    BY <2>1, <2>2
<1>4. ASSUME FinishSet PROVE ExpectedInv'
  <2>1. task'.status = "done" /\ task'.op = "set"
    BY <1>4 DEF FinishSet, DigestTypeOK
  <2> QED
    BY <2>1 DEF ExpectedInv
<1>5. ASSUME NEW alg, BeginSet(alg) PROVE ExpectedInv'
  BY <1>5 DEF ExpectedInv, BeginSet, Running
<1>6. ASSUME BodyFails \/ Cancel \/ TakeBack PROVE ExpectedInv'
  BY <1>6 DEF ExpectedInv, BodyFails, Cancel, TakeBack, Fail, NoTask
<1>7. ASSUME NEW field, Receive(field) \/ Replace(field) PROVE ExpectedInv'
  BY <1>7 DEF ExpectedInv, Receive, Replace, NoTask
<1>8. ASSUME NEW frame, NEW end, NEW t, Arrive(frame) \/ EndBody(end, t) PROVE ExpectedInv'
  <2>1. /\ task' = task /\ message' = message /\ body.end = "open"
        /\ ExtractContentDigest(message)' = ExtractContentDigest(message)
    BY <1>8 DEF Arrive, EndBody
  <2>2. ~(task.status = "done" /\ task.op = "verify")
    BY <2>1 DEF ExpectedInv, Full
  <2> QED
    BY <2>1, <2>2 DEF ExpectedInv
<1>9. ASSUME UNCHANGED digestVars PROVE ExpectedInv'
  BY <1>9 DEF ExpectedInv, digestVars
<1> QED
  BY <1>1, <1>2, <1>3, <1>4, <1>5, <1>6, <1>7, <1>8, <1>9
  DEF DigestNext, DigestCall, Peer

(* What the code reads in the header is what the property says of it.       *)
LEMMA ExtractedIsFirstLine ==
  ASSUME NEW msg, NEW found \in ExtractContentDigest(msg)
  PROVE  LET field == msg.headers[CONTENT_DIGEST_HEADER]
         IN  /\ found.alg \in ContentDigestType
             /\ \E i \in DOMAIN field :
                  /\ SameLine(field, 1, i) /\ field[i].val = found.digest
                  /\ \A j \in DOMAIN field :
                       SameLine(field, 1, j) => field[j].key = found.alg /\ j <= i
BY DEF ExtractContentDigest, FirstLine

(* Ok from verify_content_digest: the body that comes back has the digest   *)
(* that the first content-digest line names, for any fields, frames and     *)
(* interleaving of the peer with the call.                                  *)
THEOREM OkMeansDigestMatches == DigestSpec => []VerifiedMatches
<1>1. DigestInit => ExpectedInv
  BY DEF DigestInit, ExpectedInv, NoTask
<1>2. ExpectedInv => VerifiedMatches
  <2> SUFFICES ASSUME ExpectedInv, task.status = "done", task.op = "verify"
               PROVE  VerifiedMatches
    BY DEF VerifiedMatches
  <2> DEFINE found == [alg |-> task.alg, digest |-> DeriveDigest(task.alg, task.got)]
  <2>1. body.frames = <<task.got>> /\ found \in ExtractContentDigest(message)
    BY DEF ExpectedInv, Full
  <2>2. task.got \in ToSet(body.frames)
    BY <2>1 DEF ToSet
  <2> QED
    BY <2>1, <2>2, ExtractedIsFirstLine DEF VerifiedMatches, DeriveDigest
<1> QED
  BY <1>1, <1>2, ExpectedStep, DigestTypeCorrect, PTL DEF DigestSpec

-----------------------------------------------------------------------------
(* A message that came back with Ok                                         *)

(* The header names one digest, or none.                                    *)
LEMMA OneDigest ==
  ASSUME NEW msg, NEW f \in ExtractContentDigest(msg), NEW g \in ExtractContentDigest(msg),
         IsSeq(msg.headers[CONTENT_DIGEST_HEADER])
  PROVE  f = g
<1> DEFINE field == msg.headers[CONTENT_DIGEST_HEADER]
<1>1. DOMAIN field \subseteq Nat
  BY SeqIsSeq DEF IsSeq
<1>2. PICK i \in FirstLine(field) :
        f = [alg |-> field[i].key, digest |-> field[i].val] /\ \A k \in FirstLine(field) : k <= i
  BY DEF ExtractContentDigest
<1>3. PICK j \in FirstLine(field) :
        g = [alg |-> field[j].key, digest |-> field[j].val] /\ \A k \in FirstLine(field) : k <= j
  BY DEF ExtractContentDigest
<1>4. i \in Nat /\ j \in Nat
  BY <1>1 DEF FirstLine
<1>5. i = j
  BY <1>2, <1>3, <1>4
<1> QED
  BY <1>2, <1>3, <1>5

(* What set_content_digest writes is what verify_content_digest reads.      *)
LEMMA SetIsRead ==
  ASSUME NEW msg, NEW alg \in ContentDigestType, NEW bytes,
         "headers" \in DOMAIN msg, CONTENT_DIGEST_HEADER \in DOMAIN msg.headers
  PROVE  LET new == WithDigest(msg, alg, bytes)
         IN  /\ IsSeq(new.headers[CONTENT_DIGEST_HEADER])
             /\ [alg |-> alg, digest |-> DeriveDigest(alg, bytes)] \in ExtractContentDigest(new)
<1> DEFINE new == WithDigest(msg, alg, bytes)
           m == Member("entry", alg, DeriveDigest(alg, bytes))
           field == new.headers[CONTENT_DIGEST_HEADER]
<1>1. field = <<m>>
  BY DEF WithDigest
<1>2. /\ m.form = "entry" /\ m.key = alg /\ m.val = DeriveDigest(alg, bytes)
      /\ m.val[1] = "bytes"
  BY DEF Member, DeriveDigest
<1> HIDE DEF m, new
<1>3. DOMAIN field = {1} /\ field[1] = m
  BY <1>1
<1>4. IsSeq(field)
  <2>1. <<m>> \in Seq({m})
    OBVIOUS
  <2> QED
    BY <1>1, <2>1, SeqIsSeq
<1>5. 1 \in FirstLine(field) /\ FirstLine(field) \subseteq {1}
  BY <1>3 DEF FirstLine, SameLine
<1> QED
  BY <1>2, <1>3, <1>4, <1>5 DEF ExtractContentDigest, new

(* The header has the digest of the body, and a call that reads the body    *)
(* has all of it, before it or behind it.                                   *)
VouchedFor(alg, bytes) ==
  /\ alg \in ContentDigestType /\ IsSeq(bytes)
  /\ IsSeq(message.headers[CONTENT_DIGEST_HEADER])
  /\ [alg |-> alg, digest |-> DeriveDigest(alg, bytes)] \in ExtractContentDigest(message)
  /\ task.status \in {"none", "done"} => body = Full(bytes)
  /\ task.status = "running" =>
       \/ body = Full(bytes) /\ task.got = <<>>
       \/ body.frames = <<>> /\ body.end = "closed" /\ task.got = bytes
  /\ task.status = "running" /\ task.op = "verify" =>
       task.alg = alg /\ task.expected = {DeriveDigest(alg, bytes)}

VouchedInv ==
  /\ message # NoMessage => IsSeq(message.headers[CONTENT_DIGEST_HEADER])
  /\ vouched => message # NoMessage /\ task.status # "err" /\ \E alg, bytes : VouchedFor(alg, bytes)
  /\ task.status \in {"running", "done"} /\ task.op = "set" => task.alg \in ContentDigestType
  /\ task.status = "err" => ~task.vouched

LEMMA VouchedIsClosed ==
  ASSUME DigestTypeOK, VouchedInv, vouched
  PROVE  body.end = "closed"
<1>1. task.status \in {"none", "running", "done"}
  BY DEF DigestTypeOK, VouchedInv
<1>2. PICK a, b : VouchedFor(a, b)
  BY DEF VouchedInv
<1>3. Full(b).end = "closed"
  BY DEF Full
<1> QED
  BY <1>1, <1>2, <1>3 DEF VouchedFor

LEMMA VouchedStep ==
  ASSUME DigestTypeOK, ExpectedInv, VouchedInv, [DigestNext]_digestVars
  PROVE  VouchedInv'
<1>1. ASSUME NEW field \in DigestFields, Receive(field) \/ Replace(field) PROVE VouchedInv'
  <2>1. IsSeq(field)
    BY DigestInputAssumption
  <2>2. message'.headers[CONTENT_DIGEST_HEADER] = field
    BY <1>1 DEF Receive, Replace, Incoming
  <2> QED
    BY <1>1, <2>1, <2>2 DEF VouchedInv, Receive, Replace, NoTask
<1>2. ASSUME NEW frame, NEW end, NEW t, Arrive(frame) \/ EndBody(end, t) PROVE VouchedInv'
  <2>1. /\ task' = task /\ message' = message /\ vouched' = vouched /\ body.end = "open"
    BY <1>2 DEF Arrive, EndBody
  <2>2. ~vouched
    BY <2>1, VouchedIsClosed
  <2> QED
    BY <2>1, <2>2 DEF VouchedInv
<1>3. ASSUME NEW alg \in ContentDigestType, BeginSet(alg) PROVE VouchedInv'
  <2>1. task' = Running("set", alg, {}) /\ task.status = "none" /\ UNCHANGED <<message, body, vouched>>
    BY <1>3 DEF BeginSet
  <2>2. ASSUME NEW a, NEW b, VouchedFor(a, b) PROVE VouchedFor(a, b)'
    BY <2>1, <2>2 DEF VouchedFor, Running, ExtractContentDigest
  <2> QED
    BY <2>1, <2>2 DEF VouchedInv, Running
<1>4. ASSUME BeginVerifyDigest PROVE VouchedInv'
  <2>1. CASE ExtractContentDigest(message) = {}
    <3>1. task' = [status |-> "err", op |-> "verify", vouched |-> vouched] /\ Lose
      BY <1>4, <2>1 DEF BeginVerifyDigest, Fail
    <3>2. ~vouched
      BY <2>1 DEF VouchedInv, VouchedFor
    <3> QED
      BY <3>1, <3>2 DEF VouchedInv, Lose
  <2>2. CASE ExtractContentDigest(message) # {}
    <3>1. PICK found \in ExtractContentDigest(message) :
            /\ task' = Running("verify", found.alg, {found.digest})
            /\ task.status = "none" /\ UNCHANGED <<message, body, vouched>>
      BY <1>4, <2>2 DEF BeginVerifyDigest
    <3>2. ASSUME NEW a, NEW b, VouchedFor(a, b) PROVE VouchedFor(a, b)'
      <4>1. found = [alg |-> a, digest |-> DeriveDigest(a, b)]
        BY <3>2, OneDigest DEF VouchedFor
      <4> QED
        BY <3>1, <3>2, <4>1 DEF VouchedFor, Running, ExtractContentDigest
    <3> QED
      BY <3>1, <3>2 DEF VouchedInv, Running
  <2> QED
    BY <2>1, <2>2
<1>5. ASSUME Collect PROVE VouchedInv'
  <2>1. /\ task'.status = "running" /\ task.status = "running" /\ task'.op = task.op
        /\ task'.alg = task.alg /\ task'.expected = task.expected
        /\ task'.got = task.got \o Head(body.frames)
        /\ body'.frames = Tail(body.frames) /\ body'.end = body.end
        /\ UNCHANGED <<message, vouched>> /\ body.frames # <<>>
    BY <1>5 DEF Collect, DigestTypeOK
  <2>2. ASSUME NEW a, NEW b, VouchedFor(a, b) PROVE VouchedFor(a, b)'
    <3>1. body = Full(b) /\ task.got = <<>>
      BY <2>1, <2>2 DEF VouchedFor
    <3>2. body.frames = <<b>> /\ body.end = "closed" /\ b \in Seq(ToSet(b))
      BY <2>2, <3>1 DEF Full, VouchedFor, IsSeq
    <3>3. body'.frames = <<>> /\ task'.got = b
      BY <2>1, <3>1, <3>2
    <3> QED
      BY <2>1, <2>2, <3>2, <3>3 DEF VouchedFor, ExtractContentDigest
  <2> QED
    BY <2>1, <2>2 DEF VouchedInv
<1>6. ASSUME BodyFails PROVE VouchedInv'
  <2>1. /\ task' = [status |-> "err", op |-> task.op, vouched |-> vouched] /\ Lose
        /\ body.end = "failed" /\ task.status = "running"
    BY <1>6 DEF BodyFails, Fail
  <2>2. ~vouched
    BY <2>1, VouchedIsClosed
  <2> QED
    BY <2>1, <2>2 DEF VouchedInv, Lose
<1>7. ASSUME FinishSet PROVE VouchedInv'
  <2>1. /\ message' = WithDigest(message, task.alg, task.got) /\ body' = Full(task.got)
        /\ task'.status = "done" /\ task'.alg = task.alg
        /\ task'.got = task.got /\ IsSeq(task.got)
        /\ task.alg \in ContentDigestType /\ message # NoMessage
    BY <1>7 DEF FinishSet, DigestTypeOK, VouchedInv
  <2>2. /\ IsSeq(message'.headers[CONTENT_DIGEST_HEADER])
        /\ [alg |-> task.alg, digest |-> DeriveDigest(task.alg, task.got)]
             \in ExtractContentDigest(message')
    BY <2>1, SetIsRead DEF DigestTypeOK
  <2>3. ExtractContentDigest(message)' = ExtractContentDigest(message')
    BY DEF ExtractContentDigest
  <2>4. VouchedFor(task.alg, task.got)'
    BY <2>1, <2>2, <2>3 DEF VouchedFor
  <2>5. message' # NoMessage
    BY <2>1 DEF DigestTypeOK, WithDigest, NoMessage
  <2> QED
    BY <2>1, <2>2, <2>4, <2>5 DEF VouchedInv
<1>8. ASSUME FinishVerify PROVE VouchedInv'
  <2>1. CASE task'.status = "done"
    <3>1. /\ body' = Full(task.got) /\ message' = message /\ message # NoMessage
          /\ task' = [task EXCEPT !.status = "done"] /\ task.op = "verify"
          /\ task.status = "running" /\ IsSeq(task.got)
          /\ \E d \in task.expected : DeriveDigest(task.alg, task.got) = d
      BY <1>8, <2>1 DEF FinishVerify, Fail, IsEqualDigest, DigestTypeOK
    <3>2. task'.op = "verify"
      BY <3>1 DEF DigestTypeOK
    <3>3. [alg |-> task.alg, digest |-> DeriveDigest(task.alg, task.got)]
            \in ExtractContentDigest(message)
      BY <3>1 DEF ExpectedInv
    <3>4. task.alg \in ContentDigestType
      BY <3>3, ExtractedIsFirstLine
    <3>5. VouchedFor(task.alg, task.got)'
      <4>1. task'.status = "done" /\ task'.alg = task.alg /\ task'.got = task.got
        BY <3>1 DEF DigestTypeOK
      <4>2. ExtractContentDigest(message)' = ExtractContentDigest(message)
        BY <3>1
      <4> QED
        BY <3>1, <3>3, <3>4, <4>1, <4>2 DEF VouchedFor, VouchedInv
    <3> QED
      BY <2>1, <3>1, <3>2, <3>5 DEF VouchedInv
  <2>2. CASE task'.status # "done"
    <3>1. /\ task' = [status |-> "err", op |-> "verify", vouched |-> vouched] /\ Lose
          /\ ~\E d \in task.expected : DeriveDigest(task.alg, task.got) = d
          /\ task.op = "verify" /\ task.status = "running" /\ body.frames = <<>>
      BY <1>8, <2>2 DEF FinishVerify, Fail, IsEqualDigest, DigestTypeOK, Collected
    <3>2. ~vouched
      <4>1. ASSUME NEW a, NEW b, VouchedFor(a, b) PROVE FALSE
        <5>1. body # Full(b)
          BY <3>1 DEF Full
        <5> QED
          BY <3>1, <4>1, <5>1 DEF VouchedFor
      <4> QED
        BY <4>1 DEF VouchedInv
    <3> QED
      BY <3>1, <3>2 DEF VouchedInv, Lose
  <2> QED
    BY <2>1, <2>2
<1>9. ASSUME TakeBack PROVE VouchedInv'
  <2>1. task' = NoTask /\ task.status = "done" /\ UNCHANGED <<message, body, vouched>>
    BY <1>9 DEF TakeBack
  <2>2. ASSUME NEW a, NEW b, VouchedFor(a, b) PROVE VouchedFor(a, b)'
    BY <2>1, <2>2 DEF VouchedFor, NoTask, ExtractContentDigest
  <2> QED
    BY <2>1, <2>2 DEF VouchedInv, NoTask
<1>10. ASSUME Cancel PROVE VouchedInv'
  BY <1>10 DEF Cancel, Lose, VouchedInv, NoTask
<1>11. ASSUME UNCHANGED digestVars PROVE VouchedInv'
  <2>1. UNCHANGED <<message, body, task, vouched>>
    BY <1>11 DEF digestVars
  <2>2. ASSUME NEW a, NEW b, VouchedFor(a, b) PROVE VouchedFor(a, b)'
    BY <2>1, <2>2 DEF VouchedFor, ExtractContentDigest
  <2> QED
    BY <2>1, <2>2 DEF VouchedInv
<1> QED
  BY <1>1, <1>2, <1>3, <1>4, <1>5, <1>6, <1>7, <1>8, <1>9, <1>10, <1>11
  DEF DigestNext, DigestCall, Peer

(* A message that came back from set_content_digest or from                 *)
(* verify_content_digest with Ok verifies again, as long as nothing changes *)
(* it, for any digests it had before.                                       *)
THEOREM OkStaysVerifiable == DigestSpec => []VouchedVerifiesAgain
<1>1. DigestInit => ExpectedInv /\ VouchedInv
  <2> SUFFICES ASSUME DigestInit PROVE ExpectedInv /\ VouchedInv
    OBVIOUS
  <2>1. IsSeq(message.headers[CONTENT_DIGEST_HEADER])
    BY DigestInputAssumption DEF DigestInit, Incoming
  <2> QED
    BY <2>1 DEF DigestInit, ExpectedInv, VouchedInv, NoTask
<1>2. VouchedInv => VouchedVerifiesAgain
  BY DEF VouchedInv, VouchedVerifiesAgain
<1> QED
  BY <1>1, <1>2, ExpectedStep, VouchedStep, DigestTypeCorrect, PTL DEF DigestSpec

-----------------------------------------------------------------------------
(* A message comes back with its whole body                                 *)

(* Concatenation, under a name the provers leave folded, and what the proofs *)
(* below use of it.                                                         *)
Cat(s, t) == s \o t

LEMMA CatAssociative ==
  ASSUME NEW s, NEW t, NEW u, IsSeq(s), IsSeq(t), IsSeq(u)
  PROVE  Cat(Cat(s, t), u) = Cat(s, Cat(t, u))
<1> DEFINE S == ToSet(s) \cup ToSet(t) \cup ToSet(u)
<1>1. s \in Seq(S) /\ t \in Seq(S) /\ u \in Seq(S)
  BY DEF IsSeq
<1> HIDE DEF S
<1> QED
  BY <1>1, ConcatAssociative DEF Cat

LEMMA CatNeutral ==
  ASSUME NEW s, IsSeq(s)
  PROVE  Cat(s, <<>>) = s /\ Cat(<<>>, s) = s
BY ConcatEmptySeq DEF IsSeq, Cat

LEMMA CatIsSeq ==
  ASSUME NEW s, NEW t, IsSeq(s), IsSeq(t)
  PROVE  IsSeq(Cat(s, t))
BY ConcatIsSeq DEF Cat

(* rest[i] is what the frames from the i-th on hold, one after the other.   *)
Rest(rest, frames) ==
  /\ rest[Len(frames) + 1] = <<>>
  /\ \A i \in 1..Len(frames) : rest[i] = Cat(frames[i], rest[i + 1])
  /\ \A i \in 1..(Len(frames) + 1) : IsSeq(rest[i])

(* What arrived is what a call has taken and what the frames still hold.    *)
WholeInv ==
  message # NoMessage =>
    \E rest : /\ Rest(rest, body.frames)
              /\ arrived = IF task.status = "running" THEN Cat(task.got, rest[1]) ELSE rest[1]

LEMMA RestOfNone == \E rest : Rest(rest, <<>>) /\ rest[1] = <<>>
<1> DEFINE rest == [i \in {1} |-> <<>>]
<1>1. rest[1] = <<>> /\ Len(<<>>) = 0
  OBVIOUS
<1>2. Rest(rest, <<>>)
  BY <1>1, EmptyIsSeq DEF Rest
<1> QED
  BY <1>1, <1>2

LEMMA RestOfFull ==
  ASSUME NEW bytes, IsSeq(bytes)
  PROVE  \E rest : Rest(rest, Full(bytes).frames) /\ rest[1] = bytes
<1> DEFINE rest == [i \in 1..2 |-> IF i = 1 THEN bytes ELSE <<>>]
           frames == Full(bytes).frames
<1>1. frames = <<bytes>> /\ Len(frames) = 1 /\ frames[1] = bytes
  BY DEF Full
<1>2. rest[1] = bytes /\ rest[2] = <<>>
  OBVIOUS
<1> HIDE DEF rest, frames
<1>3. Rest(rest, frames)
  BY <1>1, <1>2, CatNeutral, EmptyIsSeq DEF Rest
<1> QED
  BY <1>2, <1>3 DEF frames

(* One more frame behind.                                                   *)
LEMMA RestAppended ==
  ASSUME NEW frames, IsSeq(frames), \A f \in ToSet(frames) : IsSeq(f),
         NEW frame, IsSeq(frame), NEW rest, Rest(rest, frames)
  PROVE  \E new : Rest(new, Append(frames, frame)) /\ new[1] = Cat(rest[1], frame)
<1> DEFINE n == Len(frames)
           new == [i \in 1..(n + 2) |-> IF i = n + 2 THEN <<>> ELSE Cat(rest[i], frame)]
           longer == Append(frames, frame)
<1>1. /\ n \in Nat /\ Len(longer) = n + 1 /\ longer[n + 1] = frame
      /\ \A i \in 1..n : longer[i] = frames[i]
  BY AppendIsSeq
<1>2. \A i \in 1..n : IsSeq(frames[i])
  BY SeqIsSeq DEF IsSeq, ToSet
<1>3. new[n + 2] = <<>> /\ \A i \in 1..(n + 1) : new[i] = Cat(rest[i], frame)
  BY <1>1
<1> HIDE DEF new, longer, n
<1>4. new[n + 1] = frame
  BY <1>1, <1>3, CatNeutral DEF Rest, n
<1>5. ASSUME NEW i \in 1..n PROVE new[i] = Cat(longer[i], new[i + 1])
  <2>1. i + 1 \in 1..(n + 1) /\ i \in 1..(n + 1)
    BY <1>1
  <2>2. rest[i] = Cat(frames[i], rest[i + 1]) /\ IsSeq(rest[i + 1]) /\ IsSeq(frames[i])
    BY <1>2, <2>1 DEF Rest, n
  <2>3. Cat(Cat(frames[i], rest[i + 1]), frame) = Cat(frames[i], Cat(rest[i + 1], frame))
    BY <2>2, CatAssociative
  <2> QED
    BY <1>1, <1>3, <2>1, <2>2, <2>3
<1>6. Cat(longer[n + 1], new[n + 2]) = new[n + 1]
  BY <1>1, <1>3, <1>4, CatNeutral
<1>7. ASSUME NEW i \in 1..(n + 2) PROVE IsSeq(new[i])
  <2>1. CASE i = n + 2
    BY <2>1, <1>3, EmptyIsSeq
  <2>2. CASE i # n + 2
    <3>1. i \in 1..(n + 1)
      BY <1>1, <2>2
    <3> QED
      BY <1>3, <3>1, CatIsSeq DEF Rest, n
  <2> QED
    BY <2>1, <2>2
<1>8. Rest(new, longer)
  <2>1. Len(longer) + 1 = n + 2 /\ n + 1 + 1 = n + 2
    BY <1>1
  <2>2. \A i \in 1..(n + 1) : new[i] = Cat(longer[i], new[i + 1])
    BY <1>1, <1>5, <1>6, <2>1
  <2> QED
    BY <1>1, <1>3, <1>7, <2>1, <2>2 DEF Rest
<1>9. 1 \in 1..(n + 1)
  BY <1>1
<1> QED
  BY <1>3, <1>8, <1>9 DEF longer

(* One less in front.                                                       *)
LEMMA RestTaken ==
  ASSUME NEW frames, IsSeq(frames), frames # <<>>, NEW rest, Rest(rest, frames)
  PROVE  \E new : /\ Rest(new, Tail(frames)) /\ IsSeq(new[1])
                  /\ rest[1] = Cat(Head(frames), new[1])
<1> DEFINE n == Len(frames)
           new == [i \in 1..n |-> rest[i + 1]]
           shorter == Tail(frames)
<1>1. frames \in Seq(ToSet(frames))
  BY DEF IsSeq
<1>2. /\ n \in Nat \ {0} /\ Len(shorter) = n - 1 /\ Head(frames) = frames[1]
      /\ \A i \in 1..(n - 1) : shorter[i] = frames[i + 1]
  BY <1>1
<1>3. \A i \in 1..n : new[i] = rest[i + 1]
  OBVIOUS
<1> HIDE DEF new, shorter, n
<1>4. /\ rest[n + 1] = <<>>
      /\ \A i \in 1..n : rest[i] = Cat(frames[i], rest[i + 1])
      /\ \A i \in 1..(n + 1) : IsSeq(rest[i])
  BY DEF Rest, n
<1>5. new[n] = <<>> /\ \A i \in 1..n : IsSeq(new[i])
  BY <1>2, <1>3, <1>4
<1>6. \A i \in 1..(n - 1) : new[i] = Cat(shorter[i], new[i + 1])
  <2> TAKE i \in 1..(n - 1)
  <2>1. i \in 1..n /\ i + 1 \in 1..n
    BY <1>2
  <2> QED
    BY <1>2, <1>3, <1>4, <2>1
<1>7. Rest(new, shorter)
  <2>1. Len(shorter) + 1 = n
    BY <1>2
  <2> QED
    BY <1>2, <1>5, <1>6, <2>1 DEF Rest
<1>8. 1 \in 1..n
  BY <1>2
<1> QED
  BY <1>2, <1>3, <1>4, <1>5, <1>7, <1>8 DEF shorter

LEMMA WholeStep ==
  ASSUME DigestTypeOK, WholeInv, [DigestNext]_digestVars
  PROVE  WholeInv'
<1>1. ASSUME NEW field \in DigestFields, Receive(field) PROVE WholeInv'
  <2>1. task'.status = "none" /\ arrived' = <<>> /\ body'.frames = <<>>
    BY <1>1 DEF Receive, NoTask, NoBody
  <2> QED
    BY <2>1, RestOfNone DEF WholeInv
<1>2. ASSUME NEW field, Replace(field) PROVE WholeInv'
  BY <1>2 DEF Replace, WholeInv
<1>3. ASSUME NEW frame \in Frames, Arrive(frame) PROVE WholeInv'
  <2>1. /\ body'.frames = Append(body.frames, frame) /\ arrived' = Cat(arrived, frame)
        /\ task' = task /\ message # NoMessage /\ IsSeq(frame)
    BY <1>3, DigestInputAssumption DEF Arrive, DigestTypeOK, Cat
  <2>2. PICK rest : /\ Rest(rest, body.frames)
                    /\ arrived = IF task.status = "running" THEN Cat(task.got, rest[1]) ELSE rest[1]
    BY <2>1 DEF WholeInv
  <2>3. PICK new : Rest(new, body'.frames) /\ new[1] = Cat(rest[1], frame)
    BY <2>1, <2>2, RestAppended DEF DigestTypeOK
  <2>4. IsSeq(rest[1])
    BY <2>2, SeqIsSeq DEF Rest, DigestTypeOK, IsSeq
  <2>5. arrived' = IF task'.status = "running" THEN Cat(task'.got, new[1]) ELSE new[1]
    BY <2>1, <2>2, <2>3, <2>4, CatAssociative DEF DigestTypeOK
  <2> QED
    BY <2>3, <2>5 DEF WholeInv
<1>4. ASSUME NEW end, NEW t, EndBody(end, t) PROVE WholeInv'
  <2>1. body'.frames = body.frames /\ UNCHANGED <<message, task, arrived>>
    BY <1>4 DEF EndBody, DigestTypeOK
  <2> QED
    BY <2>1 DEF WholeInv
<1>5. ASSUME task.status = "none", UNCHANGED <<message, body, arrived>>,
             NEW op, NEW alg, NEW expected, task' = Running(op, alg, expected)
      PROVE  WholeInv'
  <2>1. task'.status = "running" /\ task'.got = <<>>
    BY <1>5 DEF Running
  <2> SUFFICES ASSUME message # NoMessage PROVE WholeInv'
    BY <1>5 DEF WholeInv
  <2>2. PICK rest : Rest(rest, body.frames) /\ arrived = rest[1]
    BY <1>5 DEF WholeInv
  <2>3. arrived = Cat(<<>>, rest[1])
    BY <2>2, CatNeutral DEF DigestTypeOK
  <2> QED
    BY <1>5, <2>1, <2>2, <2>3 DEF WholeInv
<1>6. ASSUME Lose PROVE WholeInv'
  BY <1>6 DEF Lose, WholeInv
<1>7. ASSUME NEW alg, BeginSet(alg) PROVE WholeInv'
  BY <1>5, <1>7 DEF BeginSet
<1>8. ASSUME BeginVerifyDigest PROVE WholeInv'
  BY <1>5, <1>6, <1>8 DEF BeginVerifyDigest, Fail
<1>9. ASSUME Collect PROVE WholeInv'
  <2>1. /\ body.frames # <<>> /\ task.status = "running" /\ task'.status = "running"
        /\ task'.got = Cat(task.got, Head(body.frames))
        /\ body'.frames = Tail(body.frames) /\ UNCHANGED <<message, arrived>>
        /\ message # NoMessage /\ IsSeq(task.got)
    BY <1>9 DEF Collect, DigestTypeOK, Cat
  <2>2. PICK rest : Rest(rest, body.frames) /\ arrived = Cat(task.got, rest[1])
    BY <2>1 DEF WholeInv
  <2>3. PICK new : /\ Rest(new, Tail(body.frames)) /\ IsSeq(new[1])
                   /\ rest[1] = Cat(Head(body.frames), new[1])
    BY <2>1, <2>2, RestTaken DEF DigestTypeOK
  <2>4. IsSeq(Head(body.frames))
    BY <2>1, FrameTaken DEF DigestTypeOK
  <2>5. arrived' = Cat(task'.got, new[1])
    BY <2>1, <2>2, <2>3, <2>4, CatAssociative
  <2> QED
    BY <2>1, <2>3, <2>5 DEF WholeInv
<1>10. ASSUME BodyFails \/ Cancel PROVE WholeInv'
  BY <1>6, <1>10 DEF BodyFails, Cancel, Fail
<1>11. ASSUME task.status = "running", Collected, body' = Full(task.got), arrived' = arrived,
              task'.status = "done"
       PROVE  WholeInv' /\ arrived = task.got
  <2>1. IsSeq(task.got) /\ message # NoMessage /\ body.frames = <<>>
    BY <1>11 DEF Collected, DigestTypeOK
  <2>2. PICK rest : Rest(rest, <<>>) /\ arrived = Cat(task.got, rest[1])
    BY <1>11, <2>1 DEF WholeInv
  <2>3. rest[1] = <<>>
    BY <2>2, EmptyIsSeq DEF Rest
  <2>4. arrived = task.got
    BY <2>1, <2>2, <2>3, CatNeutral
  <2> QED
    BY <1>11, <2>1, <2>4, RestOfFull DEF WholeInv
<1>12. ASSUME FinishSet PROVE WholeInv'
  BY <1>11, <1>12 DEF FinishSet, DigestTypeOK
<1>13. ASSUME FinishVerify PROVE WholeInv'
  BY <1>6, <1>11, <1>13 DEF FinishVerify, Fail, DigestTypeOK
<1>14. ASSUME TakeBack PROVE WholeInv'
  BY <1>14 DEF TakeBack, NoTask, WholeInv
<1>15. ASSUME UNCHANGED digestVars PROVE WholeInv'
  BY <1>15 DEF digestVars, WholeInv
<1> QED
  BY <1>1, <1>2, <1>3, <1>4, <1>7, <1>8, <1>9, <1>10, <1>12, <1>13, <1>14, <1>15
  DEF DigestNext, DigestCall, Peer

(* A call that returns Ok returns every byte that arrived, in order, and    *)
(* only after the body was closed, for any frames and any interleaving of   *)
(* their arrival with the call.                                             *)
THEOREM BodyPassesWhole == DigestSpec => PassedWhole
<1>1. DigestInit => WholeInv
  BY RestOfNone DEF DigestInit, WholeInv, NoBody, NoTask
<1>2. ASSUME DigestTypeOK, WholeInv, [DigestNext]_digestVars,
             task.status = "running", task'.status = "done"
      PROVE  body.end = "closed" /\ body'.frames = <<arrived>>
  <2>1. FinishSet \/ FinishVerify
    <3>1. ~Collect
      BY <1>2 DEF Collect, DigestTypeOK
    <3>2. ~BeginVerifyDigest /\ \A alg : ~BeginSet(alg)
      BY <1>2 DEF BeginVerifyDigest, BeginSet
    <3>3. ~BodyFails /\ ~TakeBack /\ ~Cancel
      BY <1>2 DEF BodyFails, Fail, TakeBack, Cancel, NoTask
    <3>4. ~Peer /\ ~UNCHANGED digestVars
      BY <1>2 DEF Peer, Receive, Replace, Arrive, EndBody, digestVars
    <3> QED
      BY <1>2, <3>1, <3>2, <3>3, <3>4 DEF DigestNext, DigestCall
  <2>2. Collected /\ body' = Full(task.got)
    BY <1>2, <2>1 DEF FinishSet, FinishVerify, Fail
  <2>3. body.frames = <<>> /\ body.end = "closed" /\ message # NoMessage /\ IsSeq(task.got)
    BY <1>2, <2>2 DEF Collected, DigestTypeOK
  <2>4. PICK rest : Rest(rest, <<>>) /\ arrived = Cat(task.got, rest[1])
    BY <1>2, <2>3 DEF WholeInv
  <2>5. arrived = task.got
    BY <2>3, <2>4, EmptyIsSeq, CatNeutral DEF Rest
  <2> QED
    BY <2>2, <2>3, <2>5 DEF Full
<1> QED
  BY <1>1, <1>2, WholeStep, DigestTypeCorrect, PTL DEF DigestSpec, PassedWhole
=============================================================================
