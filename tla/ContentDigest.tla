---------------------------- MODULE ContentDigest ----------------------------
(***************************************************************************)
(* set_content_digest and verify_content_digest of requests and responses   *)
(* (httpsig-hyper/src/hyper_content_digest.rs).  Both take the message by    *)
(* value and await its body frame by frame: the message comes back with Ok   *)
(* only, and is gone after an error or when the future is dropped.           *)
(*                                                                         *)
(* A frame is a sequence of bytes; the bytes of a body are its frames, one   *)
(* after the other.  Digests are ideal: two are equal only for the same      *)
(* algorithm and the same bytes.                                            *)
(***************************************************************************)
EXTENDS Sfv

CONSTANTS
  DigestFields,      \* content-digest fields a message may come with
  Frames,            \* data frames of a body, none empty
  MaxBytes           \* bound on the bytes of a body

ASSUME DigestBoundAssumption == MaxBytes \in Nat
ASSUME DigestInputAssumption ==
  (\A field \in DigestFields : IsSeq(field)) /\ (\A frame \in Frames : IsSeq(frame))

VARIABLES
  message,   \* the message, NoMessage when it is gone
  body,      \* its body: [frames (not read yet), end, trailers]
  task,      \* the future under way, or what it returned
  arrived,   \* history: the bytes that came in this body
  vouched    \* history: the message was returned with Ok and is as it was then

digestVars == <<message, body, task, arrived, vouched>>

CONTENT_DIGEST_HEADER == "content-digest"
ContentDigestType == {"sha-256", "sha-512"}

NoMessage == [kind |-> "none"]
NoBody == [frames |-> <<>>, end |-> "closed", trailers |-> FALSE]
NoTask == [status |-> "none"]

(* derive_digest, as the byte sequence it is written as.                    *)
DeriveDigest(alg, bytes) == <<"bytes", <<alg, bytes>>>>

(* is_equal_digest.                                                         *)
SameLength(d1, d2) == d1[2][1] = d2[2][1]     \* mutant: the lengths only
IsEqualDigest(d1, d2) == d1 = d2

(* http_body_util::Full.                                                    *)
Full(bytes) == [frames |-> <<bytes>>, end |-> "closed", trailers |-> FALSE]

(* HeaderMap::get: the members on the first line of a field.                *)
FirstLine(field) == {i \in DOMAIN field : SameLine(field, 1, i)}

(* extract_content_digest: that line is a dictionary of one member (a later *)
(* one takes the place of an earlier one of its key), of a known type, a    *)
(* byte sequence.  {} stands for an error.                                  *)
ExtractContentDigest(msg) ==
  LET field == msg.headers[CONTENT_DIGEST_HEADER]
      Found(i) == /\ \A j \in FirstLine(field) :
                       j <= i /\ field[j].form = "entry" /\ field[j].key = field[i].key
                  /\ field[i].key \in ContentDigestType
                  /\ field[i].val[1] = "bytes"
  IN  {[alg |-> field[i].key, digest |-> field[i].val] : i \in {i \in FirstLine(field) : Found(i)}}

(* Replaces every line of the field.                                        *)
AppendedDigest(msg, alg, bytes) ==     \* mutant: append for insert
  [msg EXCEPT !.headers[CONTENT_DIGEST_HEADER] =
     @ \o <<Member("entry", alg, DeriveDigest(alg, bytes))>>]
WithDigest(msg, alg, bytes) ==
  [msg EXCEPT !.headers[CONTENT_DIGEST_HEADER] =
     <<Member("entry", alg, DeriveDigest(alg, bytes))>>]

-----------------------------------------------------------------------------
(* Init, and what a peer sends: a message whose body has yet to come.       *)

Incoming(field) == [kind |-> "request", headers |-> [h \in {CONTENT_DIGEST_HEADER} |-> field]]

DigestInit ==
  /\ \E field \in DigestFields : message = Incoming(field)
  /\ body = [NoBody EXCEPT !.end = "open"]
  /\ task = NoTask
  /\ arrived = <<>>
  /\ vouched = FALSE

(* The caller goes on with another message after it lost one.               *)
Receive(field) ==
  /\ message = NoMessage
  /\ task.status # "running"
  /\ message' = Incoming(field)
  /\ body' = [NoBody EXCEPT !.end = "open"]
  /\ task' = NoTask
  /\ arrived' = <<>>
  /\ vouched' = FALSE

Arrive(frame) ==
  /\ message # NoMessage /\ body.end = "open"
  /\ Len(arrived) + Len(frame) <= MaxBytes
  /\ body' = [body EXCEPT !.frames = Append(@, frame)]
  /\ arrived' = arrived \o frame
  /\ UNCHANGED <<message, task, vouched>>

(* The body ends, with or without trailers, or breaks off.                  *)
EndBody(end, trailers) ==
  /\ message # NoMessage /\ body.end = "open"
  /\ body' = [body EXCEPT !.end = end, !.trailers = trailers]
  /\ UNCHANGED <<message, task, arrived, vouched>>

(* The program puts another content-digest field in the message.            *)
Replace(field) ==
  /\ message # NoMessage /\ task.status = "none"
  /\ message' = Incoming(field)
  /\ vouched' = FALSE
  /\ UNCHANGED <<body, task, arrived>>

-----------------------------------------------------------------------------
(* The calls                                                                *)

Running(op, alg, expected) ==
  [status |-> "running", op |-> op, alg |-> alg, expected |-> expected, got |-> <<>>]

BeginSet(alg) ==
  /\ message # NoMessage /\ task.status = "none"
  /\ task' = Running("set", alg, {})
  /\ UNCHANGED <<message, body, arrived, vouched>>

(* The future is dropped, and message and body with it.                     *)
LoseParts ==     \* mutant: the body is kept
  /\ message' = NoMessage
  /\ vouched' = FALSE
  /\ UNCHANGED <<body, arrived>>
Lose ==
  /\ message' = NoMessage
  /\ body' = NoBody
  /\ vouched' = FALSE
  /\ UNCHANGED arrived

Fail(op) == task' = [status |-> "err", op |-> op, vouched |-> vouched] /\ Lose

(* The header is read before the body is.                                   *)
BeginVerifyDigest ==
  /\ message # NoMessage /\ task.status = "none"
  /\ \/ \E found \in ExtractContentDigest(message) :
          /\ task' = Running("verify", found.alg, {found.digest})
          /\ UNCHANGED <<message, body, arrived, vouched>>
     \/ /\ ExtractContentDigest(message) = {}
        /\ Fail("verify")

(* collect: one frame of the body; trailers come last and are not data.     *)
Collect ==
  /\ task.status = "running" /\ body.frames # <<>>
  /\ task' = [task EXCEPT !.got = @ \o Head(body.frames)]
  /\ body' = [body EXCEPT !.frames = Tail(@)]
  /\ UNCHANGED <<message, arrived, vouched>>

FirstFrameFails ==     \* mutant: an error after the first frame goes unnoticed
  /\ task.status = "running" /\ task.got = <<>>
  /\ body.frames = <<>> /\ body.end = "failed"
  /\ Fail(task.op)
BodyFails ==
  /\ task.status = "running" /\ body.frames = <<>> /\ body.end = "failed"
  /\ Fail(task.op)

CollectedSoFar == body.frames = <<>> /\ body.end # "failed"     \* mutant: no more frames yet
Collected == body.frames = <<>> /\ body.end = "closed"

FinishSet ==
  /\ task.status = "running" /\ task.op = "set" /\ Collected
  /\ message' = WithDigest(message, task.alg, task.got)
  /\ body' = Full(task.got)
  /\ task' = [task EXCEPT !.status = "done"]
  /\ vouched' = TRUE
  /\ UNCHANGED arrived

FinishVerify ==
  /\ task.status = "running" /\ task.op = "verify" /\ Collected
  /\ LET matches == \E d \in task.expected : IsEqualDigest(DeriveDigest(task.alg, task.got), d)
     IN  \/ /\ matches
            /\ body' = Full(task.got)
            /\ task' = [task EXCEPT !.status = "done"]
            /\ vouched' = TRUE
            /\ UNCHANGED <<message, arrived>>
         \/ /\ ~matches
            /\ Fail("verify")

(* The caller has the message back.                                         *)
TakeBack ==
  /\ task.status = "done"
  /\ task' = NoTask
  /\ UNCHANGED <<message, body, arrived, vouched>>

(* The caller drops the future while it waits for the body.                 *)
Cancel ==
  /\ task.status = "running"
  /\ task' = NoTask
  /\ Lose

-----------------------------------------------------------------------------
DigestCall == \/ \E alg \in ContentDigestType : BeginSet(alg)
              \/ BeginVerifyDigest \/ Collect \/ BodyFails \/ FinishSet \/ FinishVerify
              \/ TakeBack \/ Cancel

Peer == \/ \E field \in DigestFields : Receive(field) \/ Replace(field)
        \/ \E frame \in Frames : Arrive(frame)
        \/ \E trailers \in BOOLEAN : EndBody("closed", trailers)
        \/ EndBody("failed", FALSE)

DigestNext == DigestCall \/ Peer

DigestSpec == DigestInit /\ [][DigestNext]_digestVars

(* A future is woken for every frame and for the end of the body.           *)
DigestProgress == Collect \/ BodyFails \/ FinishSet \/ FinishVerify

FairDigestSpec == DigestSpec /\ WF_digestVars(DigestProgress)
-----------------------------------------------------------------------------
(* Properties                                                               *)

(* The states a message, its body and a call on them can be in.             *)
DigestTypeOK ==
  /\ message # NoMessage => /\ {"kind", "headers"} \subseteq DOMAIN message
                            /\ CONTENT_DIGEST_HEADER \in DOMAIN message.headers
  /\ DOMAIN body = {"frames", "end", "trailers"}
  /\ body.end \in {"open", "closed", "failed"}
  /\ IsSeq(body.frames) /\ \A frame \in ToSet(body.frames) : IsSeq(frame)
  /\ task.status \in {"none", "running", "done", "err"}
  /\ task.status \in {"running", "done"} =>
       /\ DOMAIN task = {"status", "op", "alg", "expected", "got"}
       /\ message # NoMessage /\ IsSeq(task.got)
  /\ message = NoMessage => body = NoBody
  /\ IsSeq(arrived) /\ Len(arrived) <= MaxBytes

(* A message comes back with its whole body, once the peer has closed it:   *)
(* never with the frames that happen to be there when the task is polled,   *)
(* never with what came before the body broke off, none lost, none twice.   *)
PassedWhole ==
  [][task.status = "running" /\ task'.status = "done"
       => body.end = "closed" /\ body'.frames = <<arrived>>]_digestVars

(* What Ok from verify_content_digest means: the first content-digest line  *)
(* names one algorithm, and its last value for it is the digest of the body *)
(* that comes back.                                                         *)
VerifiedMatches ==
  task.status = "done" /\ task.op = "verify" =>
    LET field == message.headers[CONTENT_DIGEST_HEADER]
    IN  \E alg \in ContentDigestType, bytes \in ToSet(body.frames) :
          /\ body.frames = <<bytes>>
          /\ \E i \in DOMAIN field :
               /\ SameLine(field, 1, i)
               /\ field[i].val = <<"bytes", <<alg, bytes>>>>
               /\ \A j \in DOMAIN field : SameLine(field, 1, j) => field[j].key = alg /\ j <= i

(* A message that came back with Ok, of set or of verify, verifies again as *)
(* long as it is left alone, whatever digests it came with.                 *)
VouchedVerifiesAgain ==
  task.status = "err" => ~task.vouched

(* A call returns once the peer has ended the body or broken it off.        *)
DigestCallEnds ==
  (task.status = "running" /\ body.end # "open") ~> task.status # "running"
=============================================================================
