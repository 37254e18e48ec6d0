----------------------------- MODULE Attestation ------------------------------
(***************************************************************************)
(* What signing and verifying a message promise, without headers, names,    *)
(* signature bases and bytes: keys attest to values, and a verification     *)
(* asks about the message as it is, key by key.  It gets a yes for a key    *)
(* only when that key attested to the very values that the message, and the *)
(* request given with it, have now, and not when that had expired before    *)
(* the question was asked.  Messages are abstract: all that counts is what  *)
(* Values reads in them.                                                    *)
(***************************************************************************)
EXTENDS Naturals, Sequences

CONSTANTS
  Values(_, _, _),   \* values of the covered components of a message and a request
  Readable(_, _, _), \* the message and the request have all these components
  Requests           \* requests that may be given with a message

VARIABLES
  now,         \* seconds since the epoch
  message,     \* the message
  attested,    \* what was attested: [key, params, values]
  inquiry      \* the verification under way: [open], or [open, keys, req, started, answers]

attestationVars == <<now, message, attested, inquiry>>

Closed == [open |-> FALSE]

AttestationInit == now = 0 /\ attested = {} /\ inquiry = Closed

(* Only what is so is attested, once and for all; the message may change.   *)
Attest ==
  /\ ~inquiry.open
  /\ attested \subseteq attested'
  /\ \A a \in attested' \ attested : \E req \in Requests :
       Readable(message, a.params, req) /\ a.values = Values(message, a.params, req)
  /\ UNCHANGED <<now, inquiry>>

Change == ~inquiry.open /\ UNCHANGED <<now, attested, inquiry>>

Wait == now' = now + 1 /\ UNCHANGED <<message, attested, inquiry>>

Ask ==
  /\ ~inquiry.open
  /\ inquiry'.open /\ inquiry'.started = now /\ inquiry'.answers = <<>>
  /\ UNCHANGED <<now, message, attested>>

MayAnswer(key) ==
  \E a \in attested :
    /\ a.key = key
    /\ a.values = Values(message, a.params, inquiry.req)
    /\ \E at \in inquiry.started..now : \A t \in a.params.expires : ~(t < at)

(* The next key gets its answer; the question stays what it was.            *)
Answer ==
  /\ inquiry.open /\ Len(inquiry.answers) < Len(inquiry.keys)
  /\ \E yes \in BOOLEAN :
       /\ yes => MayAnswer(inquiry.keys[Len(inquiry.answers) + 1])
       /\ inquiry' = [inquiry EXCEPT !.answers = Append(@, yes)]
  /\ UNCHANGED <<now, message, attested>>

(* The verification returns, or it ends in a panic.                         *)
Close == inquiry' = Closed /\ UNCHANGED <<now, message, attested>>

AttestationNext == Attest \/ Change \/ Wait \/ Ask \/ Answer \/ Close

AttestationSpec == AttestationInit /\ [][AttestationNext]_attestationVars
===============================================================================
