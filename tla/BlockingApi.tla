------------------------------ MODULE BlockingApi -----------------------------
(***************************************************************************)
(* The *_sync methods of httpsig-hyper (hyper_http.rs, feature "blocking"): *)
(* each runs the async method of its name under                             *)
(* futures::executor::block_on.  Threads call them from plain code, from    *)
(* tasks of a runtime such as tokio, from futures that an executor of the   *)
(* futures crate drives, and from a key that somebody wrote, while it signs *)
(* or verifies.  A call may return, fail, or panic, for what the message    *)
(* says or in such a key, and a panic unwinds through the calls around it.  *)
(***************************************************************************)
EXTENDS Naturals, Sequences, SequencesExt

CONSTANTS
  Threads,
  MaxDepth,        \* bound on what runs inside what on one thread
  MaxSignatures    \* bound on the signatures of a message

ASSUME SignaturesAssumption == MaxSignatures \in Nat

VARIABLES
  stack,        \* stack[t]: what runs on t, outermost first
  entered,      \* ENTERED of the futures crate, one flag per thread
  signatures,   \* signatures[t]: those of the message that t works on
  last          \* last[t]: how the last call on t ended: [outcome, under], under what it was made

blockingVars == <<stack, entered, signatures, last>>

(* `had` is history: the signatures of the message when it was called.      *)
Tokio == [runs |-> "tokio", op |-> "none", had |-> 0]
Futures == [runs |-> "futures", op |-> "none", had |-> 0]
Sync(op, had) == [runs |-> "sync", op |-> op, had |-> had]

(* The frames that hold the flag of their thread.                           *)
HoldsFlag(frames) == \E i \in DOMAIN frames : frames[i].runs \in {"futures", "sync"}

BlockingInit ==
  /\ stack = [t \in Threads |-> <<>>]
  /\ entered = [t \in Threads |-> FALSE]
  /\ signatures = [t \in Threads |-> 0]
  /\ last = [t \in Threads |-> [outcome |-> "none", under |-> <<>>]]

Ended(t, outcome, under) == last' = [last EXCEPT ![t] = [outcome |-> outcome, under |-> under]]

Push(t, frame) ==
  /\ Len(stack[t]) < MaxDepth
  /\ stack' = [stack EXCEPT ![t] = Append(@, frame)]

-----------------------------------------------------------------------------
(* Executors                                                                *)

(* Neither kind of executor can be started inside one of its own.           *)
EnterTokio(t) ==
  /\ \A i \in DOMAIN stack[t] : stack[t][i].runs # "tokio"
  /\ Push(t, Tokio)
  /\ UNCHANGED <<entered, signatures, last>>

EnterFutures(t) ==
  /\ ~entered[t]
  /\ Push(t, Futures)
  /\ entered' = [entered EXCEPT ![t] = TRUE]
  /\ UNCHANGED <<signatures, last>>

LeaveExecutor(t) ==
  /\ stack[t] # <<>> /\ Last(stack[t]).runs \in {"tokio", "futures"}
  /\ stack' = [stack EXCEPT ![t] = Front(@)]
  /\ entered' = [entered EXCEPT ![t] = @ /\ Last(stack[t]).runs # "futures"]
  /\ UNCHANGED <<signatures, last>>

(* A panic unwinds the innermost of the given frames until somebody catches *)
(* it; the guard that block_on holds clears the flag as it is dropped.      *)
KeptFlag(t, frames) ==     \* mutant: the flag is cleared where block_on returns
  \E n \in 0..Len(frames) :
    /\ stack' = [stack EXCEPT ![t] = SubSeq(frames, 1, n)]
    /\ UNCHANGED entered
UnwindTo(t, frames) ==
  \E n \in 0..Len(frames) :
    /\ stack' = [stack EXCEPT ![t] = SubSeq(frames, 1, n)]
    /\ entered' = [entered EXCEPT ![t] = HoldsFlag(SubSeq(frames, 1, n))]

-----------------------------------------------------------------------------
(* The library                                                              *)

(* block_on: enter() first, and the future is not polled when it panics.    *)
Refused(t) == entered[t] /\ UnwindTo(t, stack[t]) /\ Ended(t, "refused", stack[t])

Called(t, op) ==
  /\ ~entered[t]
  /\ Push(t, Sync(op, signatures[t]))
  /\ entered' = [entered EXCEPT ![t] = TRUE]
  /\ UNCHANGED last

(* set_message_signature(s)_sync and verify_message_signature(s)_sync.      *)
SetSync(t) == (Refused(t) \/ Called(t, "set")) /\ UNCHANGED signatures
VerifySync(t) == (Refused(t) \/ Called(t, "verify")) /\ UNCHANGED signatures

(* The future is polled once: the async methods wait for nothing but        *)
(* join_all of blocks without an await.                                     *)
IsPolled(t, op) == stack[t] # <<>> /\ Last(stack[t]).runs = "sync" /\ Last(stack[t]).op = op

Returns(t, outcome) ==
  /\ stack' = [stack EXCEPT ![t] = Front(@)]
  /\ entered' = [entered EXCEPT ![t] = FALSE]
  /\ Ended(t, outcome, Front(stack[t]))

Panics(t) == UnwindTo(t, Front(stack[t])) /\ Ended(t, "panic", Front(stack[t]))

(* The headers of a list are appended one after the other, and one that     *)
(* fails leaves those before it in place.                                   *)
AppendsSome(t) ==
  \E n \in 0..(MaxSignatures - signatures[t]) : signatures' = [signatures EXCEPT ![t] = @ + n]

SetReturns(t) ==
  /\ IsPolled(t, "set")
  /\ AppendsSome(t)
  /\ \E outcome \in {"ok", "err"} : Returns(t, outcome)

(* All signatures of the list are made before the first is appended, so     *)
(* what panics as they are made finds none appended.                        *)
AppendsAsItSigns(t) ==     \* mutant: one loop that signs and appends
  IsPolled(t, "set") /\ Panics(t) /\ AppendsSome(t)
SetPanics(t) == IsPolled(t, "set") /\ Panics(t) /\ UNCHANGED signatures

VerifyReturns(t) ==
  /\ IsPolled(t, "verify")
  /\ \E outcome \in {"ok", "err"} : Returns(t, outcome)
  /\ UNCHANGED signatures

VerifyPanics(t) == IsPolled(t, "verify") /\ Panics(t) /\ UNCHANGED signatures

(* The thread takes another message in hand.                                *)
NewMessage(t) ==
  /\ stack[t] = <<>> /\ signatures[t] > 0
  /\ signatures' = [signatures EXCEPT ![t] = 0]
  /\ UNCHANGED <<stack, entered, last>>

Step(t) ==
  \/ EnterTokio(t) \/ EnterFutures(t) \/ LeaveExecutor(t)
  \/ SetSync(t) \/ VerifySync(t)
  \/ SetReturns(t) \/ SetPanics(t) \/ VerifyReturns(t) \/ VerifyPanics(t)
  \/ NewMessage(t)

BlockingNext == \E t \in Threads : Step(t)

BlockingSpec == BlockingInit /\ [][BlockingNext]_blockingVars

-----------------------------------------------------------------------------
(* A *_sync call is refused where an executor of the futures crate, or      *)
(* another such call, is under way on its thread, and nowhere else: no call *)
(* that panicked before it, at whatever depth it was caught, leaves the     *)
(* thread so that later calls are refused or let through (block_on,         *)
(* hyper_http.rs:504-595).                                                  *)
RefusedWhereNested ==
  \A t \in Threads : last[t].outcome # "none" =>
    (last[t].outcome = "refused" <=> HoldsFlag(last[t].under))

(* A panic, of a refused call or of the polled future, leaves the message   *)
(* of every call that it unwinds with the signatures that it was called     *)
(* with, where a call that fails may leave some of its own.                 *)
UnwoundLeavesMessage ==
  [][\A t \in Threads : \A i \in DOMAIN stack[t] :
       /\ stack[t][i].runs = "sync"
       /\ i \notin DOMAIN stack'[t]
       /\ last'[t].outcome \in {"refused", "panic"}
       => signatures'[t] = stack[t][i].had]_blockingVars

(* What the docs say of every *_sync method: "Calling any `*_sync` method   *)
(* from within an async runtime (e.g. inside a `tokio::spawn` task) will    *)
(* panic" (lib.rs:20-21, and hyper_http.rs:144 and 186).                    *)
PanicsInRuntime ==
  \A t \in Threads :
    Tokio \in ToSet(last[t].under) => last[t].outcome \in {"refused", "panic"}
==============================================================================
