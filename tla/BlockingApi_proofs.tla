-------------------------- MODULE BlockingApi_proofs --------------------------
(***************************************************************************)
(* For any threads, any nesting and any messages: a *_sync call is refused  *)
(* where something on its thread holds the flag and nowhere else, and a     *)
(* panic leaves the message of each call it unwinds as it was.  The flag of *)
(* a thread has to be known to stand for exactly one frame on its stack:    *)
(* one to be set for, and only one to be cleared with.  When that frame is  *)
(* a *_sync call, the message has the signatures it was called with.        *)
(***************************************************************************)
EXTENDS BlockingApi, TLAPS

Ops == {"set", "verify"}

Calls == {Sync(op, had) : op \in Ops, had \in Nat}

(* The frames that hold the flag, and all frames.                           *)
Enterers == {Futures} \cup Calls
Frames == {Tokio} \cup Enterers

(* The flag of a thread is set while one frame on it, and only one, holds it. *)
FlagHeldOnce(frames, flag) ==
  /\ flag = HoldsFlag(frames)
  /\ \A i, j \in DOMAIN frames : frames[i] \in Enterers /\ frames[j] \in Enterers => i = j

(* No call under way has touched its message yet.                           *)
Untouched(frames, count) == \A i \in DOMAIN frames : frames[i] \in Calls => frames[i].had = count

Explained(l) == l.outcome # "none" => (l.outcome = "refused" <=> HoldsFlag(l.under))

ThreadInv(frames, flag, count, l) ==
  /\ frames \in Seq(Frames) /\ flag \in BOOLEAN /\ count \in Nat
  /\ FlagHeldOnce(frames, flag) /\ Untouched(frames, count) /\ Explained(l)

BlockingInv ==
  /\ stack = [t \in Threads |-> stack[t]]
  /\ entered = [t \in Threads |-> entered[t]]
  /\ signatures = [t \in Threads |-> signatures[t]]
  /\ last = [t \in Threads |-> last[t]]
  /\ \A t \in Threads : ThreadInv(stack[t], entered[t], signatures[t], last[t])

(* What kind of frame a frame is can be read in its field.                  *)
LEMMA FrameKinds ==
  /\ Tokio \notin Enterers /\ Tokio \notin Calls /\ Futures \in Enterers /\ Futures \notin Calls
  /\ \A op \in Ops, had \in Nat :
       Sync(op, had) \in Calls /\ Sync(op, had) \in Enterers /\ Sync(op, had).had = had
  /\ Calls \subseteq Enterers /\ Enterers \subseteq Frames /\ Tokio \in Frames
  /\ \A frame \in Frames :
       /\ frame \in Enterers <=> frame.runs \in {"futures", "sync"}
       /\ frame \in Calls <=> frame.runs = "sync"
       /\ frame.runs = "futures" <=> frame \in Enterers \ Calls
       /\ frame.runs = "tokio" <=> frame \notin Enterers
<1>1. Tokio.runs = "tokio" /\ Futures.runs = "futures" BY DEF Tokio, Futures
<1>2. \A frame \in Calls : frame.runs = "sync" BY DEF Calls, Sync
<1>3. \A op \in Ops, had \in Nat : Sync(op, had) \in Calls /\ Sync(op, had).had = had
  <2>1. TAKE op \in Ops, had \in Nat
  <2>2. Sync(op, had).had = had BY DEF Sync
  <2> QED BY <2>2 DEF Calls
<1>4. Tokio \notin Calls /\ Futures \notin Calls /\ Tokio # Futures BY <1>1, <1>2
<1>5. \A frame \in Frames : frame = Tokio \/ frame = Futures \/ frame \in Calls
  BY DEF Frames, Enterers
<1> QED BY <1>1, <1>2, <1>3, <1>4, <1>5 DEF Frames, Enterers

LEMMA FlagOfFrames ==
  ASSUME NEW frames \in Seq(Frames)
  PROVE  HoldsFlag(frames) <=> \E i \in DOMAIN frames : frames[i] \in Enterers
<1>1. \A i \in DOMAIN frames : frames[i] \in Frames OBVIOUS
<1> QED BY <1>1, FrameKinds DEF HoldsFlag

(* A frame that does not hold the flag may come on top.                     *)
LEMMA PushOther ==
  ASSUME NEW frames \in Seq(Frames), NEW flag \in BOOLEAN, FlagHeldOnce(frames, flag)
  PROVE  FlagHeldOnce(Append(frames, Tokio), flag) /\ Append(frames, Tokio) \in Seq(Frames)
<1> DEFINE s == Append(frames, Tokio)
<1>1. Tokio \in Frames /\ Tokio \notin Enterers BY FrameKinds
<1>2. s \in Seq(Frames) /\ Len(s) = Len(frames) + 1 /\ s[Len(frames) + 1] = Tokio
      /\ \A i \in 1..Len(frames) : s[i] = frames[i] BY <1>1
<1>3. DOMAIN s = 1..(Len(frames) + 1) /\ DOMAIN frames = 1..Len(frames) BY <1>2
<1>4. \A i \in DOMAIN s : s[i] \in Enterers => i \in DOMAIN frames /\ s[i] = frames[i]
  BY <1>1, <1>2, <1>3
<1>5. (\E i \in DOMAIN s : s[i] \in Enterers) <=> \E i \in DOMAIN frames : frames[i] \in Enterers
  BY <1>2, <1>3, <1>4
<1>6. HoldsFlag(s) <=> HoldsFlag(frames) BY <1>2, <1>5, FlagOfFrames
<1>7. \A i, j \in DOMAIN s : s[i] \in Enterers /\ s[j] \in Enterers => i = j
  BY <1>4 DEF FlagHeldOnce
<1>8. flag = HoldsFlag(s) BY <1>6 DEF FlagHeldOnce, HoldsFlag
<1> QED BY <1>2, <1>7, <1>8 DEF FlagHeldOnce

(* One that holds it may come on top when none does.                        *)
LEMMA PushEnterer ==
  ASSUME NEW frames \in Seq(Frames), FlagHeldOnce(frames, FALSE), NEW frame \in Enterers
  PROVE  FlagHeldOnce(Append(frames, frame), TRUE) /\ Append(frames, frame) \in Seq(Frames)
<1> DEFINE s == Append(frames, frame)
<1>1. frame \in Frames BY FrameKinds
<1>2. s \in Seq(Frames) /\ Len(s) = Len(frames) + 1 /\ s[Len(frames) + 1] = frame
      /\ \A i \in 1..Len(frames) : s[i] = frames[i] BY <1>1
<1>3. DOMAIN s = 1..(Len(frames) + 1) /\ DOMAIN frames = 1..Len(frames) BY <1>2
<1>4. ~HoldsFlag(frames) BY DEF FlagHeldOnce
<1>5. \A i \in DOMAIN s : s[i] \in Enterers => i = Len(frames) + 1
  BY <1>2, <1>3, <1>4, FlagOfFrames
<1>6. HoldsFlag(s)
  <2>1. Len(frames) + 1 \in DOMAIN s /\ s[Len(frames) + 1] \in Enterers BY <1>2, <1>3
  <2> HIDE DEF s
  <2> QED BY <1>2, <2>1, FlagOfFrames
<1>7. TRUE = HoldsFlag(s) BY <1>6 DEF HoldsFlag
<1> QED BY <1>2, <1>5, <1>7 DEF FlagHeldOnce

(* What is left of a stack after unwinding, with the flag of what is left.  *)
LEMMA Unwound ==
  ASSUME NEW frames \in Seq(Frames), NEW flag, FlagHeldOnce(frames, flag),
         NEW n \in 0..Len(frames)
  PROVE  FlagHeldOnce(SubSeq(frames, 1, n), HoldsFlag(SubSeq(frames, 1, n)))
         /\ SubSeq(frames, 1, n) \in Seq(Frames)
<1> DEFINE s == SubSeq(frames, 1, n)
<1>1. s \in Seq(Frames) /\ Len(s) = n /\ \A i \in 1..n : s[i] = frames[i] OBVIOUS
<1>2. DOMAIN s = 1..n /\ DOMAIN frames = 1..Len(frames) BY <1>1
<1>3. \A i, j \in DOMAIN s : s[i] \in Enterers /\ s[j] \in Enterers => i = j
  BY <1>1, <1>2 DEF FlagHeldOnce
<1> QED BY <1>1, <1>3 DEF FlagHeldOnce

(* The top frame leaves, and the flag with it if it was its own.            *)
LEMMA PopFlag ==
  ASSUME NEW frames \in Seq(Frames), frames # <<>>, NEW flag \in BOOLEAN,
         FlagHeldOnce(frames, flag)
  PROVE  /\ Front(frames) \in Seq(Frames)
         /\ Last(frames) \in Enterers => FlagHeldOnce(Front(frames), FALSE)
         /\ Last(frames) \notin Enterers => FlagHeldOnce(Front(frames), flag)
<1> DEFINE n == Len(frames) - 1
           s == SubSeq(frames, 1, n)
<1>1. n \in 0..Len(frames) /\ Last(frames) = frames[n + 1] /\ n + 1 \in DOMAIN frames
  BY DEF Last
<1>2. Front(frames) = s BY DEF Front
<1>3. FlagHeldOnce(s, HoldsFlag(s)) /\ s \in Seq(Frames) BY <1>1, Unwound
<1>4. Len(s) = n /\ DOMAIN s = 1..n /\ (\A i \in 1..n : s[i] = frames[i])
      /\ DOMAIN frames = 1..(n + 1)
  <2>1. Len(s) = n /\ \A i \in 1..n : s[i] = frames[i]
    <3>1. \A m \in 0..Len(frames) : /\ Len(SubSeq(frames, 1, m)) = m
                                    /\ \A i \in 1..m : SubSeq(frames, 1, m)[i] = frames[i]
      OBVIOUS
    <3> QED BY <1>1, <3>1
  <2>2. DOMAIN s = 1..n BY <1>3, <2>1
  <2>3. DOMAIN frames = 1..(n + 1) OBVIOUS
  <2> QED BY <2>1, <2>2, <2>3
<1>5. Last(frames) \in Enterers => ~HoldsFlag(s)
  <2>1. SUFFICES ASSUME Last(frames) \in Enterers, NEW i \in DOMAIN s, s[i] \in Enterers
                 PROVE  FALSE
    BY <1>3, FlagOfFrames
  <2>2. i \in DOMAIN frames /\ frames[i] \in Enterers /\ i # n + 1 BY <1>4, <2>1
  <2> QED BY <1>1, <2>1, <2>2 DEF FlagHeldOnce
<1>6. Last(frames) \notin Enterers => (HoldsFlag(s) <=> HoldsFlag(frames))
  <2>1. SUFFICES ASSUME Last(frames) \notin Enterers
                 PROVE  (\E i \in DOMAIN s : s[i] \in Enterers)
                          <=> \E i \in DOMAIN frames : frames[i] \in Enterers
    <3> HIDE DEF s
    <3> QED BY <1>3, FlagOfFrames
  <2>2. \A i \in DOMAIN frames : frames[i] \in Enterers => i \in 1..n BY <1>1, <1>4, <2>1
  <2> QED BY <1>4, <2>2
<1>7. CASE Last(frames) \in Enterers
  <2>1. HoldsFlag(s) = FALSE BY <1>5, <1>7 DEF HoldsFlag
  <2> QED BY <1>2, <1>3, <1>7, <2>1
<1>8. CASE Last(frames) \notin Enterers
  <2>1. HoldsFlag(s) = flag BY <1>6, <1>8 DEF HoldsFlag, FlagHeldOnce
  <2> QED BY <1>2, <1>3, <1>8, <2>1
<1> QED BY <1>7, <1>8

(* The message of a call under way stays as the calls above it come and go. *)
LEMMA UntouchedOnTop ==
  ASSUME NEW frames \in Seq(Frames), NEW count, Untouched(frames, count), NEW frame \in Frames,
         frame \in Calls => frame.had = count
  PROVE  Untouched(Append(frames, frame), count)
<1> DEFINE s == Append(frames, frame)
<1>1. Len(s) = Len(frames) + 1 /\ s[Len(frames) + 1] = frame
      /\ (\A i \in 1..Len(frames) : s[i] = frames[i]) OBVIOUS
<1>2. DOMAIN s = 1..(Len(frames) + 1) /\ DOMAIN frames = 1..Len(frames) OBVIOUS
<1>3. \A i \in DOMAIN s : s[i] = frame \/ (i \in DOMAIN frames /\ s[i] = frames[i])
  BY <1>1, <1>2
<1> HIDE DEF s
<1>4. Untouched(s, count) BY <1>3 DEF Untouched
<1> QED BY <1>4 DEF s

LEMMA UntouchedBelow ==
  ASSUME NEW frames \in Seq(Frames), NEW count, Untouched(frames, count), NEW n \in 0..Len(frames)
  PROVE  Untouched(SubSeq(frames, 1, n), count)
<1> DEFINE s == SubSeq(frames, 1, n)
<1>1. Len(s) = n /\ (\A i \in 1..n : s[i] = frames[i]) OBVIOUS
<1>2. DOMAIN s = 1..n /\ 1..n \subseteq DOMAIN frames OBVIOUS
<1> HIDE DEF s
<1>3. Untouched(s, count) BY <1>1, <1>2 DEF Untouched
<1> QED BY <1>3 DEF s

(* With a call on top, what is below holds no flag and is nobody's call.    *)
LEMMA BelowCall ==
  ASSUME NEW frames \in Seq(Frames), frames # <<>>, NEW flag \in BOOLEAN,
         FlagHeldOnce(frames, flag), Last(frames) \in Enterers
  PROVE  /\ Front(frames) \in Seq(Frames)
         /\ FlagHeldOnce(Front(frames), FALSE) /\ ~HoldsFlag(Front(frames))
         /\ \A count : Untouched(Front(frames), count)
<1>1. Front(frames) \in Seq(Frames) /\ FlagHeldOnce(Front(frames), FALSE) BY PopFlag
<1>2. ~HoldsFlag(Front(frames)) BY <1>1 DEF FlagHeldOnce
<1>3. \A i \in DOMAIN Front(frames) : Front(frames)[i] \notin Calls
  BY <1>1, <1>2, FlagOfFrames, FrameKinds
<1> QED BY <1>1, <1>2, <1>3 DEF Untouched

-----------------------------------------------------------------------------
LEMMA BlockingInvInit == BlockingInit => BlockingInv
<1> SUFFICES ASSUME BlockingInit PROVE BlockingInv OBVIOUS
<1>1. <<>> \in Seq(Frames) /\ DOMAIN <<>> = {} OBVIOUS
<1>2. ~HoldsFlag(<<>>) BY <1>1 DEF HoldsFlag
<1>3. FlagHeldOnce(<<>>, FALSE) /\ Untouched(<<>>, 0) BY <1>1, <1>2 DEF FlagHeldOnce, Untouched
<1>4. \A t \in Threads : ThreadInv(stack[t], entered[t], signatures[t], last[t])
  BY <1>1, <1>3 DEF BlockingInit, ThreadInv, Explained
<1> QED BY <1>4 DEF BlockingInit, BlockingInv

(* The invariant after a step of one thread.                                *)
LEMMA StepOfThread ==
  ASSUME BlockingInv, NEW t \in Threads, NEW frames, NEW flag, NEW count, NEW l,
         stack' = [stack EXCEPT ![t] = frames], entered' = [entered EXCEPT ![t] = flag],
         signatures' = [signatures EXCEPT ![t] = count], last' = [last EXCEPT ![t] = l],
         ThreadInv(frames, flag, count, l)
  PROVE  BlockingInv'
<1>1. \A u \in Threads : ThreadInv(stack'[u], entered'[u], signatures'[u], last'[u])
  BY DEF BlockingInv
<1> QED BY <1>1 DEF BlockingInv

LEMMA Same ==
  ASSUME BlockingInv, NEW t \in Threads
  PROVE  /\ ThreadInv(stack[t], entered[t], signatures[t], last[t])
         /\ stack = [stack EXCEPT ![t] = stack[t]] /\ entered = [entered EXCEPT ![t] = entered[t]]
         /\ signatures = [signatures EXCEPT ![t] = signatures[t]]
         /\ last = [last EXCEPT ![t] = last[t]]
  BY DEF BlockingInv

(* A panic that unwinds some of the frames.                                 *)
LEMMA AfterPanic ==
  ASSUME BlockingInv, NEW t \in Threads, NEW frames \in Seq(Frames), NEW flag,
         FlagHeldOnce(frames, flag), Untouched(frames, signatures[t]), UnwindTo(t, frames),
         NEW l, Explained(l), last' = [last EXCEPT ![t] = l], UNCHANGED signatures
  PROVE  BlockingInv'
<1>1. PICK n \in 0..Len(frames) :
        /\ stack' = [stack EXCEPT ![t] = SubSeq(frames, 1, n)]
        /\ entered' = [entered EXCEPT ![t] = HoldsFlag(SubSeq(frames, 1, n))]
  BY DEF UnwindTo
<1>2. HoldsFlag(SubSeq(frames, 1, n)) \in BOOLEAN BY DEF HoldsFlag
<1>3. FlagHeldOnce(SubSeq(frames, 1, n), HoldsFlag(SubSeq(frames, 1, n)))
      /\ SubSeq(frames, 1, n) \in Seq(Frames)
  BY Unwound
<1>4. Untouched(SubSeq(frames, 1, n), signatures[t]) BY UntouchedBelow
<1>5. signatures[t] \in Nat /\ signatures' = [signatures EXCEPT ![t] = signatures[t]]
  BY Same DEF ThreadInv
<1>6. ThreadInv(SubSeq(frames, 1, n), HoldsFlag(SubSeq(frames, 1, n)), signatures[t], l)
  BY <1>2, <1>3, <1>4, <1>5 DEF ThreadInv
<1> QED BY <1>1, <1>5, <1>6, StepOfThread

LEMMA EnterThread ==
  ASSUME BlockingInv, NEW t \in Threads, NEW frame \in Enterers, ~entered[t],
         frame \in Calls => frame.had = signatures[t]
  PROVE  ThreadInv(Append(stack[t], frame), TRUE, signatures[t], last[t])
<1>1. ThreadInv(stack[t], FALSE, signatures[t], last[t]) BY Same DEF ThreadInv
<1>2. FlagHeldOnce(Append(stack[t], frame), TRUE) /\ Append(stack[t], frame) \in Seq(Frames)
  BY <1>1, PushEnterer DEF ThreadInv
<1>3. Untouched(Append(stack[t], frame), signatures[t])
  BY <1>1, UntouchedOnTop, FrameKinds DEF ThreadInv
<1> QED BY <1>1, <1>2, <1>3 DEF ThreadInv

LEMMA AfterEnter ==
  ASSUME BlockingInv, NEW t \in Threads, NEW frame \in Enterers,
         frame \in Calls => frame.had = signatures[t], ~entered[t],
         Push(t, frame), entered' = [entered EXCEPT ![t] = TRUE],
         UNCHANGED signatures, UNCHANGED last
  PROVE  BlockingInv'
<1>1. PICK frames : frames = Append(stack[t], frame) OBVIOUS
<1>2. ThreadInv(frames, TRUE, signatures[t], last[t]) BY <1>1, EnterThread
<1>3. stack' = [stack EXCEPT ![t] = frames] BY <1>1 DEF Push
<1>4. \A u \in Threads : ThreadInv(stack'[u], entered'[u], signatures'[u], last'[u])
  BY <1>2, <1>3 DEF BlockingInv
<1> QED BY <1>3, <1>4 DEF BlockingInv

(* What a call finds, and what a polled call has below it.                  *)
LEMMA Polled ==
  ASSUME BlockingInv, NEW t \in Threads, NEW op \in Ops, IsPolled(t, op)
  PROVE  /\ stack[t] # <<>> /\ Last(stack[t]) \in Calls /\ Last(stack[t]) = stack[t][Len(stack[t])]
         /\ Front(stack[t]) \in Seq(Frames)
         /\ FlagHeldOnce(Front(stack[t]), FALSE) /\ ~HoldsFlag(Front(stack[t]))
         /\ \A count : Untouched(Front(stack[t]), count)
<1>1. ThreadInv(stack[t], entered[t], signatures[t], last[t]) BY Same
<1>2. stack[t] \in Seq(Frames) /\ stack[t] # <<>> /\ Last(stack[t]) = stack[t][Len(stack[t])]
  BY <1>1 DEF ThreadInv, IsPolled, Last
<1>3. Last(stack[t]) \in Frames BY <1>2
<1>4. Last(stack[t]) \in Calls BY <1>3, FrameKinds DEF IsPolled
<1> QED BY <1>1, <1>2, <1>4, FrameKinds, BelowCall DEF ThreadInv

LEMMA AfterReturn ==
  ASSUME BlockingInv, NEW t \in Threads, NEW op \in Ops, IsPolled(t, op),
         NEW outcome \in {"ok", "err"}, Returns(t, outcome), NEW count \in Nat,
         signatures' = [signatures EXCEPT ![t] = count]
  PROVE  BlockingInv'
<1> DEFINE l == [outcome |-> outcome, under |-> Front(stack[t])]
<1>1. Front(stack[t]) \in Seq(Frames) /\ FlagHeldOnce(Front(stack[t]), FALSE)
      /\ ~HoldsFlag(Front(stack[t])) /\ Untouched(Front(stack[t]), count)
  BY Polled
<1>2. Explained(l) BY <1>1 DEF Explained
<1>3. ThreadInv(Front(stack[t]), FALSE, count, l) BY <1>1, <1>2 DEF ThreadInv
<1> QED BY <1>3, StepOfThread DEF Returns, Ended

LEMMA AfterPolledPanic ==
  ASSUME BlockingInv, NEW t \in Threads, NEW op \in Ops, IsPolled(t, op), Panics(t),
         UNCHANGED signatures
  PROVE  BlockingInv'
<1> DEFINE l == [outcome |-> "panic", under |-> Front(stack[t])]
<1>1. Front(stack[t]) \in Seq(Frames) /\ FlagHeldOnce(Front(stack[t]), FALSE)
      /\ ~HoldsFlag(Front(stack[t])) /\ Untouched(Front(stack[t]), signatures[t])
  BY Polled
<1>2. Explained(l) BY <1>1 DEF Explained
<1>3. UnwindTo(t, Front(stack[t])) /\ last' = [last EXCEPT ![t] = l] BY DEF Panics, Ended
<1> QED BY <1>1, <1>2, <1>3, AfterPanic

LEMMA AfterCall ==
  ASSUME BlockingInv, NEW t \in Threads, NEW op \in Ops, Refused(t) \/ Called(t, op),
         UNCHANGED signatures
  PROVE  BlockingInv'
<1>1. ThreadInv(stack[t], entered[t], signatures[t], last[t]) BY Same
<1>2. CASE Refused(t)
  <2> DEFINE l == [outcome |-> "refused", under |-> stack[t]]
  <2>1. HoldsFlag(stack[t]) BY <1>1, <1>2 DEF ThreadInv, FlagHeldOnce, Refused
  <2>2. Explained(l) BY <2>1 DEF Explained
  <2>3. UnwindTo(t, stack[t]) /\ last' = [last EXCEPT ![t] = l] BY <1>2 DEF Refused, Ended
  <2> QED BY <1>1, <2>2, <2>3, AfterPanic DEF ThreadInv
<1>3. CASE Called(t, op)
  <2>1. signatures[t] \in Nat BY <1>1 DEF ThreadInv
  <2>2. Sync(op, signatures[t]) \in Enterers /\ Sync(op, signatures[t]).had = signatures[t]
    BY <2>1, FrameKinds
  <2> QED BY <1>3, <2>2, AfterEnter DEF Called
<1> QED BY <1>2, <1>3

LEMMA BlockingInvStep == BlockingInv /\ [BlockingNext]_blockingVars => BlockingInv'
<1> SUFFICES ASSUME BlockingInv, [BlockingNext]_blockingVars PROVE BlockingInv' OBVIOUS
<1>1. CASE UNCHANGED blockingVars BY <1>1 DEF BlockingInv, blockingVars
<1>2. ASSUME NEW t \in Threads, Step(t) PROVE BlockingInv'
  <2>1. ThreadInv(stack[t], entered[t], signatures[t], last[t]) BY Same
  <2>2. "set" \in Ops /\ "verify" \in Ops BY DEF Ops
  <2>3. CASE EnterTokio(t)
    <3>1. FlagHeldOnce(Append(stack[t], Tokio), entered[t])
          /\ Append(stack[t], Tokio) \in Seq(Frames)
      BY <2>1, PushOther DEF ThreadInv
    <3>2. Untouched(Append(stack[t], Tokio), signatures[t])
      BY <2>1, UntouchedOnTop, FrameKinds DEF ThreadInv
    <3>3. ThreadInv(Append(stack[t], Tokio), entered[t], signatures[t], last[t])
      BY <2>1, <3>1, <3>2 DEF ThreadInv
    <3>4. /\ stack' = [stack EXCEPT ![t] = Append(stack[t], Tokio)]
          /\ entered' = [entered EXCEPT ![t] = entered[t]]
          /\ signatures' = [signatures EXCEPT ![t] = signatures[t]]
          /\ last' = [last EXCEPT ![t] = last[t]]
      BY <2>3, Same DEF EnterTokio, Push
    <3> QED BY <3>3, <3>4, StepOfThread
  <2>4. CASE EnterFutures(t)
    BY <2>4, AfterEnter, FrameKinds DEF EnterFutures
  <2>5. CASE LeaveExecutor(t)
    <3>1. Last(stack[t]) \in Frames BY <2>1, <2>5 DEF ThreadInv, LeaveExecutor, Last
    <3>2. Untouched(Front(stack[t]), signatures[t])
      BY <2>1, <2>5, UntouchedBelow DEF ThreadInv, LeaveExecutor, Front
    <3>3. PICK flag \in BOOLEAN : FlagHeldOnce(Front(stack[t]), flag)
                                  /\ entered' = [entered EXCEPT ![t] = flag]
                                  /\ Front(stack[t]) \in Seq(Frames)
      <4>1. CASE Last(stack[t]).runs = "futures"
        <5>1. entered' = [entered EXCEPT ![t] = FALSE] BY <2>5, <4>1 DEF LeaveExecutor
        <5> QED BY <2>1, <2>5, <3>1, <4>1, <5>1, FrameKinds, PopFlag DEF LeaveExecutor, ThreadInv
      <4>2. CASE Last(stack[t]).runs = "tokio"
        <5>1. entered' = [entered EXCEPT ![t] = entered[t]]
          BY <2>1, <2>5, <4>2 DEF LeaveExecutor, ThreadInv
        <5> QED BY <2>1, <2>5, <3>1, <4>2, <5>1, FrameKinds, PopFlag DEF LeaveExecutor, ThreadInv
      <4> QED BY <2>5, <4>1, <4>2 DEF LeaveExecutor
    <3>4. ThreadInv(Front(stack[t]), flag, signatures[t], last[t])
      BY <2>1, <3>2, <3>3 DEF ThreadInv
    <3>5. /\ stack' = [stack EXCEPT ![t] = Front(stack[t])]
          /\ signatures' = [signatures EXCEPT ![t] = signatures[t]]
          /\ last' = [last EXCEPT ![t] = last[t]]
      BY <2>5, Same DEF LeaveExecutor
    <3> QED BY <3>3, <3>4, <3>5, StepOfThread
  <2>6. CASE SetSync(t) BY <2>2, <2>6, AfterCall DEF SetSync
  <2>7. CASE VerifySync(t) BY <2>2, <2>7, AfterCall DEF VerifySync
  <2>8. CASE SetReturns(t)
    <3>1. PICK n \in 0..(MaxSignatures - signatures[t]) :
            signatures' = [signatures EXCEPT ![t] = @ + n]
      BY <2>8 DEF SetReturns, AppendsSome
    <3>2. PICK outcome \in {"ok", "err"} : Returns(t, outcome) BY <2>8 DEF SetReturns
    <3>3. signatures[t] + n \in Nat /\ signatures' = [signatures EXCEPT ![t] = signatures[t] + n]
      BY <2>1, <3>1, SignaturesAssumption DEF ThreadInv
    <3>4. IsPolled(t, "set") BY <2>8 DEF SetReturns
    <3> QED BY <2>2, <3>2, <3>3, <3>4, AfterReturn
  <2>9. CASE SetPanics(t) BY <2>2, <2>9, AfterPolledPanic DEF SetPanics
  <2>10. CASE VerifyReturns(t)
    <3>1. PICK outcome \in {"ok", "err"} : Returns(t, outcome) BY <2>10 DEF VerifyReturns
    <3>2. signatures[t] \in Nat /\ signatures' = [signatures EXCEPT ![t] = signatures[t]]
      BY <2>1, <2>10, Same DEF VerifyReturns, ThreadInv
    <3> QED BY <2>2, <2>10, <3>1, <3>2, AfterReturn DEF VerifyReturns
  <2>11. CASE VerifyPanics(t) BY <2>2, <2>11, AfterPolledPanic DEF VerifyPanics
  <2>12. CASE NewMessage(t)
    <3>1. DOMAIN <<>> = {} OBVIOUS
    <3>2. Untouched(stack[t], 0) BY <2>12, <3>1 DEF NewMessage, Untouched
    <3>3. ThreadInv(stack[t], entered[t], 0, last[t]) BY <2>1, <3>2 DEF ThreadInv
    <3>4. /\ stack' = [stack EXCEPT ![t] = stack[t]] /\ entered' = [entered EXCEPT ![t] = entered[t]]
          /\ last' = [last EXCEPT ![t] = last[t]] /\ signatures' = [signatures EXCEPT ![t] = 0]
      BY <2>12, Same DEF NewMessage
    <3> QED BY <3>3, <3>4, StepOfThread
  <2> QED BY <1>2, <2>3, <2>4, <2>5, <2>6, <2>7, <2>8, <2>9, <2>10, <2>11, <2>12 DEF Step
<1> QED BY <1>1, <1>2 DEF BlockingNext

(* A *_sync call is refused where something on its thread holds the flag    *)
(* and nowhere else, whatever panicked before, however far it unwound, and  *)
(* whatever other threads do.                                               *)
THEOREM RefusedOnlyWhereNested == BlockingSpec => []RefusedWhereNested
<1>1. BlockingInv => RefusedWhereNested BY DEF BlockingInv, ThreadInv, RefusedWhereNested, Explained
<1> QED BY <1>1, BlockingInvInit, BlockingInvStep, PTL DEF BlockingSpec

-----------------------------------------------------------------------------
(* A call that a panic unwinds has not touched its message                  *)

Unwinds(t, i) ==
  /\ stack[t][i].runs = "sync"
  /\ i \notin DOMAIN stack'[t]
  /\ last'[t].outcome \in {"refused", "panic"}

LEMMA UnwoundUntouched ==
  ASSUME BlockingInv, NEW u \in Threads, Step(u), NEW t \in Threads, NEW i \in DOMAIN stack[t],
         Unwinds(t, i)
  PROVE  signatures'[t] = stack[t][i].had
<1>1. ThreadInv(stack[t], entered[t], signatures[t], last[t]) BY Same
<1>2. stack[t][i] \in Frames BY <1>1 DEF ThreadInv
<1>3. stack[t][i].had = signatures[t] BY <1>1, <1>2, FrameKinds DEF ThreadInv, Untouched, Unwinds
<1>4. SUFFICES ASSUME signatures'[t] # signatures[t] PROVE FALSE BY <1>3
<1>5. SetReturns(u) \/ NewMessage(u)
  BY <1>4 DEF Step, EnterTokio, EnterFutures, LeaveExecutor, SetSync, VerifySync, SetPanics,
             VerifyReturns, VerifyPanics
<1>6. u = t
  BY <1>4, <1>5 DEF BlockingInv, SetReturns, AppendsSome, NewMessage
<1>7. CASE SetReturns(u) BY <1>6, <1>7 DEF SetReturns, Returns, Ended, Unwinds, BlockingInv
<1>8. CASE NewMessage(u)
  <2>1. i \in DOMAIN stack[t] /\ stack[t] = <<>> BY <1>6, <1>8 DEF NewMessage
  <2> QED BY <2>1
<1> QED BY <1>5, <1>7, <1>8

(* A panic, of a refused call or of the polled future, leaves the message   *)
(* of every call that it unwinds with the signatures it was called with.    *)
THEOREM PanicsLeaveMessages == BlockingSpec => UnwoundLeavesMessage
<1>1. BlockingInv /\ [BlockingNext]_blockingVars =>
        [\A t \in Threads : \A i \in DOMAIN stack[t] :
           /\ stack[t][i].runs = "sync"
           /\ i \notin DOMAIN stack'[t]
           /\ last'[t].outcome \in {"refused", "panic"}
           => signatures'[t] = stack[t][i].had]_blockingVars
  BY UnwoundUntouched DEF BlockingNext, Unwinds
<1> QED BY <1>1, BlockingInvInit, BlockingInvStep, PTL DEF BlockingSpec, UnwoundLeavesMessage
==============================================================================
