-------------------------- MODULE AuthenticExchange --------------------------
(***************************************************************************)
(* What a client and a server that sign what they send and check what they  *)
(* receive promise each other: the server serves only what the client asked *)
(* for, and the client takes for an answer to its question only what the    *)
(* server answered to a question that the answer cannot tell from it.       *)
(* Nothing is said of messages, headers, signatures, digests or the network. *)
(***************************************************************************)
CONSTANTS Bound(_)   \* the part of a question that an answer is bound to

VARIABLES
  asked,       \* questions the client sent
  served,      \* questions the server took for asked
  answered,    \* [question, answer] that the server sent
  concluded    \* [question, answer] that the client took for answered

exchangeVars == <<asked, served, answered, concluded>>

ExchangeInit == asked = {} /\ served = {} /\ answered = {} /\ concluded = {}

Ask == asked \subseteq asked' /\ UNCHANGED <<served, answered, concluded>>

Serve ==
  /\ served \subseteq served' /\ served' \subseteq asked
  /\ UNCHANGED <<asked, answered, concluded>>

Answer ==
  /\ answered \subseteq answered'
  /\ \A a \in answered' : a.question \in served
  /\ UNCHANGED <<asked, served, concluded>>

MayConclude(c) ==
  /\ c.question \in asked
  /\ \E a \in answered : a.answer = c.answer /\ Bound(a.question) = Bound(c.question)

Conclude ==
  /\ concluded \subseteq concluded'
  /\ \A c \in concluded' : MayConclude(c)
  /\ UNCHANGED <<asked, served, answered>>

ExchangeNext == Ask \/ Serve \/ Answer \/ Conclude

ExchangeSpec == ExchangeInit /\ [][ExchangeNext]_exchangeVars
==============================================================================
