--------------------------- MODULE ComponentsFacts ----------------------------
(***************************************************************************)
(* Facts that the proofs of the components cite: about sequences of any     *)
(* content, about what is selected from a field, and about what a component *)
(* reads of a field that grows at its end, as the signature fields do when  *)
(* a message is signed.                                                     *)
(***************************************************************************)
EXTENDS Components, SequenceTheorems, WellFoundedInduction, TLAPS

(* IsSeq says that a value is a sequence over some set.                     *)
LEMMA SeqIsSeq ==
  ASSUME NEW S, NEW s \in Seq(S)
  PROVE  IsSeq(s) /\ Len(s) \in Nat /\ DOMAIN s = 1..Len(s)
<1>1. Len(s) \in Nat /\ DOMAIN s = 1..Len(s) /\ s \in [1..Len(s) -> S]
  OBVIOUS
<1>2. s \in [1..Len(s) -> ToSet(s)]
  BY <1>1 DEF ToSet
<1>3. \A T : [1..Len(s) -> T] \subseteq Seq(T)
  BY <1>1, SeqDef
<1> QED
  BY <1>1, <1>2, <1>3 DEF IsSeq

LEMMA EmptyIsSeq == IsSeq(<<>>) /\ Len(<<>>) = 0 /\ DOMAIN <<>> = {}
<1>1. <<>> \in Seq({}) /\ Len(<<>>) = 0
  OBVIOUS
<1>2. IsSeq(<<>>)
  BY <1>1, SeqIsSeq
<1>3. DOMAIN <<>> = {}
  OBVIOUS
<1> QED
  BY <1>1, <1>2, <1>3

(* Appending to a sequence: the elements, and that it stays a sequence.     *)
LEMMA AppendIsSeq ==
  ASSUME NEW s, IsSeq(s), NEW e
  PROVE  /\ IsSeq(Append(s, e))
         /\ Len(s) \in Nat
         /\ Len(Append(s, e)) = Len(s) + 1
         /\ \A i \in 1..Len(s) : Append(s, e)[i] = s[i]
         /\ Append(s, e)[Len(s) + 1] = e
<1> DEFINE S == ToSet(s) \cup {e}
<1>1. s \in Seq(S)
  BY DEF IsSeq
<1>2. Append(s, e) \in Seq(S) /\ Len(s) \in Nat /\ Len(Append(s, e)) = Len(s) + 1
  BY <1>1
<1>3. /\ \A i \in 1..Len(s) : Append(s, e)[i] = s[i]
      /\ Append(s, e)[Len(s) + 1] = e
  BY <1>1
<1>4. IsSeq(Append(s, e))
  BY <1>2, SeqIsSeq
<1> QED
  BY <1>2, <1>3, <1>4

(* A function over 1..n is a sequence, whatever its values.                 *)
LEMMA FunIsSeq ==
  ASSUME NEW n \in Nat, NEW f, f = [i \in 1..n |-> f[i]]
  PROVE  IsSeq(f) /\ Len(f) = n /\ DOMAIN f = 1..n
<1> DEFINE S == {f[i] : i \in 1..n}
<1>1. f \in [1..n -> S]
  OBVIOUS
<1>2. f \in Seq(S)
  BY <1>1, SeqDef
<1> QED
  BY <1>1, <1>2, SeqIsSeq

(* Concatenation keeps the elements of both sides.                          *)
LEMMA ConcatIsSeq ==
  ASSUME NEW s, NEW t, IsSeq(s), IsSeq(t)
  PROVE  /\ IsSeq(s \o t)
         /\ Len(s) \in Nat /\ Len(t) \in Nat
         /\ Len(s \o t) = Len(s) + Len(t)
         /\ DOMAIN (s \o t) = 1..(Len(s) + Len(t))
         /\ \A i \in 1..(Len(s) + Len(t)) :
              (s \o t)[i] = IF i <= Len(s) THEN s[i] ELSE t[i - Len(s)]
<1> DEFINE S == ToSet(s) \cup ToSet(t)
<1>1. s \in Seq(S) /\ t \in Seq(S)
  BY DEF IsSeq
<1>2. s \o t \in Seq(S)
  BY <1>1, ConcatProperties
<1>3. IsSeq(s \o t) /\ DOMAIN (s \o t) = 1..Len(s \o t)
  BY <1>2, SeqIsSeq
<1> HIDE DEF S
<1> QED
  BY <1>1, <1>3, ConcatProperties, LenProperties

(* A sequence without one member.                                           *)
LEMMA DropIsSeq ==
  ASSUME NEW s, IsSeq(s), NEW i \in DOMAIN s
  PROVE  IsSeq(DropMember(s, i)) /\ Len(DropMember(s, i)) = Len(s) - 1
<1>1. Len(s) \in Nat /\ DOMAIN s = 1..Len(s)
  BY SeqIsSeq DEF IsSeq
<1>2. Len(s) - 1 \in Nat
  BY <1>1
<1> DEFINE d == DropMember(s, i)
<1>3. d = [j \in 1..(Len(s) - 1) |-> d[j]]
  BY DEF DropMember
<1> HIDE DEF d
<1>4. IsSeq(d) /\ Len(d) = Len(s) - 1
  BY <1>2, <1>3, FunIsSeq
<1> QED
  BY <1>4 DEF d

(* A set of natural numbers that is not empty has a least element.          *)
LEMMA LeastElement ==
  ASSUME NEW T, T \subseteq Nat, T # {}
  PROVE  \E i \in T : \A j \in T : i <= j
<1>1. PICK i \in T : \A j \in T : <<j, i>> \notin OpToRel(<, Nat)
  BY NatLessThanWellFounded, WFMin
<1>2. \A j \in T : ~(j < i)
  BY <1>1 DEF OpToRel
<1> QED
  BY <1>2

(* So have those up to a bound a greatest one.                              *)
LEMMA GreatestElement ==
  ASSUME NEW n \in Nat, NEW T, T \subseteq 1..n, T # {}
  PROVE  \E i \in T : \A j \in T : j <= i
<1> DEFINE U == {n - i : i \in T}
<1>1. PICK e \in T : TRUE
  OBVIOUS
<1>2. \A i \in T : n - i \in Nat
  OBVIOUS
<1>3. U \subseteq Nat /\ U # {}
  BY <1>1, <1>2
<1>4. \A i \in T : n - i \in U
  OBVIOUS
<1> HIDE DEF U
<1>5. PICK d \in U : \A u \in U : d <= u
  BY <1>3, LeastElement
<1>6. PICK m \in T : d = n - m
  BY DEF U
<1>7. \A j \in T : j <= m
  <2> SUFFICES ASSUME NEW j \in T PROVE j <= m
    OBVIOUS
  <2>1. n - m <= n - j /\ j \in 1..n /\ m \in 1..n
    BY <1>4, <1>5, <1>6
  <2> QED
    BY <2>1
<1> QED
  BY <1>7

(* A property of numbers that holds at 0 and passes to the successor, up to *)
(* N.  The property is given as the set of the numbers that have it.        *)
LEMMA Upwards ==
  ASSUME NEW N \in Nat, NEW T, 0 \in T, \A n \in 0..N : n \in T /\ n < N => n + 1 \in T
  PROVE  \A n \in 0..N : n \in T
<1> DEFINE Bad == {n \in 0..N : n \notin T}
<1>1. SUFFICES ASSUME Bad # {} PROVE FALSE
  OBVIOUS
<1>2. PICK m \in Bad : \A k \in Bad : m <= k
  <2>1. Bad \subseteq Nat
    OBVIOUS
  <2> HIDE DEF Bad
  <2> QED
    BY <1>1, <2>1, LeastElement
<1>3. m # 0 /\ m \in 1..N
  BY <1>2
<1>4. m - 1 \in 0..N /\ m - 1 < N /\ m - 1 \notin Bad
  BY <1>2, <1>3
<1>5. m \in T
  BY <1>3, <1>4
<1> QED
  BY <1>2, <1>5

-----------------------------------------------------------------------------
(* Selected                                                                 *)

(* One position more: the recursion of Selected, and that it has a solution. *)
Grown(r, i, s, at) == IF i \in at THEN Append(r, s[i]) ELSE r

SelectedUpTo(up, s, at, N) ==
  up = [n \in 0..N |-> IF n = 0 THEN <<>> ELSE Grown(up[n - 1], n, s, at)]

LEMMA SelectedRecursion ==
  ASSUME NEW s, NEW at, NEW N \in Nat
  PROVE  \E up : SelectedUpTo(up, s, at, N)
<1> DEFINE T == {n \in Nat : \E up : SelectedUpTo(up, s, at, n)}
<1>1. 0 \in T
  <2> DEFINE up == [n \in 0..0 |-> <<>>]
  <2>1. SelectedUpTo(up, s, at, 0)
    BY DEF SelectedUpTo
  <2> QED
    BY <2>1
<1>2. ASSUME NEW n \in 0..N, n \in T PROVE n + 1 \in T
  <2>1. PICK up : SelectedUpTo(up, s, at, n)
    BY <1>2
  <2> DEFINE longer == [i \in 0..(n + 1) |-> IF i = n + 1 THEN Grown(up[n], n + 1, s, at)
                                                          ELSE up[i]]
  <2>2. SelectedUpTo(longer, s, at, n + 1)
    BY <2>1 DEF SelectedUpTo
  <2> HIDE DEF longer
  <2> QED
    BY <2>2
<1> HIDE DEF T
<1>3. N \in T
  BY <1>1, <1>2, Upwards
<1> QED
  BY <1>3 DEF T

(* What Selected picks, in which order: pos[n] is the position of the n-th. *)
Picks(pos, r, s, at, upper) ==
  /\ IsSeq(r) /\ pos \in [1..Len(r) -> at]
  /\ \A n \in 1..Len(r) : r[n] = s[pos[n]] /\ pos[n] <= upper
  /\ \A m, n \in 1..Len(r) : m < n => pos[m] < pos[n]
  /\ \A i \in at : i <= upper => \E n \in 1..Len(r) : pos[n] = i

LEMMA PicksNext ==
  ASSUME NEW s, NEW at, at \subseteq Nat, NEW n \in Nat, NEW old, NEW pos,
         Picks(pos, old, s, at, n)
  PROVE  \E new : Picks(new, Grown(old, n + 1, s, at), s, at, n + 1)
<1>1. CASE n + 1 \notin at
  <2>1. \A i \in at : i <= n + 1 => i <= n
    BY <1>1
  <2>2. \A m \in 1..Len(old) : pos[m] \in Nat
    BY DEF Picks
  <2>3. Picks(pos, old, s, at, n + 1)
    BY <2>1, <2>2 DEF Picks
  <2> QED
    BY <1>1, <2>3 DEF Grown
<1>2. CASE n + 1 \in at
  <2> DEFINE k == Len(old)
             r == Append(old, s[n + 1])
             new == [m \in 1..(k + 1) |-> IF m = k + 1 THEN n + 1 ELSE pos[m]]
  <2>1. /\ IsSeq(r) /\ k \in Nat /\ Len(r) = k + 1
        /\ \A m \in 1..k : r[m] = old[m]
        /\ r[k + 1] = s[n + 1]
    BY AppendIsSeq DEF Picks
  <2>2. \A m \in 1..k : new[m] = pos[m] /\ pos[m] \in at /\ pos[m] <= n /\ pos[m] \in Nat
    <3> SUFFICES ASSUME NEW m \in 1..k
                 PROVE  new[m] = pos[m] /\ pos[m] \in at /\ pos[m] <= n /\ pos[m] \in Nat
      OBVIOUS
    <3>1. pos[m] \in at /\ pos[m] <= n
      BY DEF Picks
    <3>2. m \in 1..(k + 1) /\ m # k + 1
      BY <2>1
    <3>3. new[m] = pos[m]
      BY <3>2
    <3> QED
      BY <3>1, <3>3
  <2>3. new[k + 1] = n + 1 /\ DOMAIN new = 1..(k + 1)
    BY <2>1
  <2>4. \A m \in 1..k : old[m] = s[pos[m]]
    BY DEF Picks
  <2>5. \A l, m \in 1..k : l < m => pos[l] < pos[m]
    BY DEF Picks
  <2>6. \A i \in at : i <= n => \E m \in 1..k : pos[m] = i
    BY DEF Picks
  <2>7. new = [m \in 1..(k + 1) |-> new[m]]
    OBVIOUS
  <2> HIDE DEF r, new, k
  <2>8. \A m \in 1..(k + 1) : new[m] \in at /\ r[m] = s[new[m]] /\ new[m] <= n + 1
    <3> TAKE m \in 1..(k + 1)
    <3>1. CASE m = k + 1
      BY <1>2, <2>1, <2>3, <3>1
    <3>2. CASE m \in 1..k
      BY <2>1, <2>2, <2>4, <3>2
    <3> QED
      BY <2>1, <3>1, <3>2
  <2>9. new \in [1..(k + 1) -> at]
    BY <2>7, <2>8
  <2>10. \A l, m \in 1..(k + 1) : l < m => new[l] < new[m]
    <3> SUFFICES ASSUME NEW l \in 1..(k + 1), NEW m \in 1..(k + 1), l < m PROVE new[l] < new[m]
      OBVIOUS
    <3>1. l \in 1..k
      BY <2>1
    <3>2. CASE m = k + 1
      BY <2>2, <2>3, <3>1, <3>2
    <3>3. CASE m \in 1..k
      BY <2>2, <2>5, <3>1, <3>3
    <3> QED
      BY <2>1, <3>2, <3>3
  <2>11. ASSUME NEW i \in at, i <= n + 1 PROVE \E m \in 1..(k + 1) : new[m] = i
    <3>1. CASE i = n + 1
      BY <2>1, <2>3, <3>1
    <3>2. CASE i # n + 1
      <4>1. i <= n
        BY <2>11, <3>2
      <4>2. PICK m \in 1..k : pos[m] = i
        BY <2>6, <4>1
      <4> QED
        BY <2>1, <2>2, <4>2
    <3> QED
      BY <3>1, <3>2
  <2>12. Picks(new, r, s, at, n + 1)
    BY <2>1, <2>8, <2>9, <2>10, <2>11 DEF Picks
  <2> QED
    BY <1>2, <2>12 DEF Grown, r
<1> QED
  BY <1>1, <1>2

LEMMA SelectedUnfolds ==
  ASSUME NEW s, IsSeq(s), NEW at
  PROVE  \E up : /\ Selected(s, at) = up[Len(s)]
                 /\ up[0] = <<>>
                 /\ \A n \in 0..Len(s) : n < Len(s) => up[n + 1] = Grown(up[n], n + 1, s, at)
<1> DEFINE N == Len(s)
<1>1. N \in Nat
  BY SeqIsSeq DEF IsSeq
<1> HIDE DEF N
<1> DEFINE up == CHOOSE up : SelectedUpTo(up, s, at, N)
<1>2. SelectedUpTo(up, s, at, N)
  BY <1>1, SelectedRecursion
<1>3. Selected(s, at) = up[N]
  BY DEF Selected, SelectedUpTo, Grown, N
<1> HIDE DEF up
<1>4. up[0] = <<>> /\ \A n \in 0..N : n < N => up[n + 1] = Grown(up[n], n + 1, s, at)
  <2>1. \A n \in 0..N : up[n] = IF n = 0 THEN <<>> ELSE Grown(up[n - 1], n, s, at)
    BY <1>2 DEF SelectedUpTo
  <2>2. \A n \in 0..N : n < N => n + 1 \in 0..N /\ n + 1 # 0 /\ (n + 1) - 1 = n
    BY <1>1
  <2> QED
    BY <1>1, <2>1, <2>2
<1> QED
  BY <1>3, <1>4 DEF N

LEMMA SelectedPicks ==
  ASSUME NEW s, IsSeq(s), NEW at, at \subseteq DOMAIN s
  PROVE  \E pos : Picks(pos, Selected(s, at), s, at, Len(s))
<1> DEFINE N == Len(s)
<1>1. N \in Nat /\ at \subseteq Nat
  BY SeqIsSeq DEF IsSeq
<1>2. PICK up : /\ Selected(s, at) = up[N]
                /\ up[0] = <<>>
                /\ \A n \in 0..N : n < N => up[n + 1] = Grown(up[n], n + 1, s, at)
  BY SelectedUnfolds
<1> HIDE DEF N
<1> DEFINE Picked(n) == \E pos : Picks(pos, up[n], s, at, n)
           T == {n \in 0..N : Picked(n)}
<1>3. Picked(0)
  <2>1. Picks(<<>>, <<>>, s, at, 0)
    <3>1. \A i \in at : i <= 0 => FALSE
      BY SeqIsSeq DEF IsSeq
    <3> QED
      BY <3>1, EmptyIsSeq DEF Picks
  <2> QED
    BY <1>2, <2>1
<1>4. ASSUME NEW n \in 0..N, Picked(n), n < N PROVE Picked(n + 1)
  BY <1>1, <1>2, <1>4, PicksNext
<1> HIDE DEF Picked
<1>5. 0 \in T /\ \A n \in 0..N : n \in T /\ n < N => n + 1 \in T
  BY <1>1, <1>3, <1>4
<1> HIDE DEF T
<1>6. N \in T
  BY <1>1, <1>5, Upwards
<1> QED
  BY <1>2, <1>6 DEF T, Picked, N

LEMMA SelectedIsSeq ==
  ASSUME NEW s, IsSeq(s), NEW at, at \subseteq DOMAIN s
  PROVE  LET r == Selected(s, at) IN IsSeq(r) /\ Len(r) \in Nat /\ DOMAIN r = 1..Len(r)
<1>1. IsSeq(Selected(s, at))
  BY SelectedPicks DEF Picks
<1> QED
  BY <1>1, SeqIsSeq DEF IsSeq

LEMMA DictKeysIsSeq ==
  ASSUME NEW field, IsSeq(field)
  PROVE  LET keys == DictKeys(field) IN IsSeq(keys) /\ Len(keys) \in Nat /\ DOMAIN keys = 1..Len(keys)
<1> DEFINE at == {i \in DOMAIN field : \A j \in DOMAIN field : j < i => field[j].key # field[i].key}
           firsts == Selected(field, at)
           keys == [n \in DOMAIN firsts |-> firsts[n].key]
<1>1. DictKeys(field) = keys
  BY DEF DictKeys
<1>2. Len(firsts) \in Nat /\ DOMAIN firsts = 1..Len(firsts)
  <2>1. at \subseteq DOMAIN field
    OBVIOUS
  <2> HIDE DEF at
  <2> QED
    BY <2>1, SelectedIsSeq
<1> HIDE DEF firsts
<1>3. keys = [n \in 1..Len(firsts) |-> keys[n]]
  BY <1>2
<1> HIDE DEF keys
<1>4. IsSeq(keys) /\ Len(keys) = Len(firsts) /\ DOMAIN keys = 1..Len(firsts)
  BY <1>2, <1>3, FunIsSeq
<1> QED
  BY <1>1, <1>2, <1>4

(* Nothing that is selected is lost, and every key of a dictionary is found. *)
LEMMA SelectedHas ==
  ASSUME NEW s, IsSeq(s), NEW at, at \subseteq DOMAIN s, NEW i \in at
  PROVE  \E n \in DOMAIN Selected(s, at) : Selected(s, at)[n] = s[i]
<1> DEFINE r == Selected(s, at)
<1>1. DOMAIN r = 1..Len(r)
  BY SelectedIsSeq
<1>2. PICK pos : Picks(pos, r, s, at, Len(s))
  BY SelectedPicks
<1>3. i <= Len(s)
  BY SeqIsSeq DEF IsSeq
<1> HIDE DEF r
<1>4. PICK n \in 1..Len(r) : pos[n] = i
  BY <1>2, <1>3 DEF Picks
<1>5. r[n] = s[i]
  BY <1>2, <1>4 DEF Picks
<1> QED
  BY <1>1, <1>5 DEF r

LEMMA DictKeysHas ==
  ASSUME NEW field, IsSeq(field), NEW i \in DOMAIN field
  PROVE  \E n \in DOMAIN DictKeys(field) : DictKeys(field)[n] = field[i].key
<1> DEFINE at == {j \in DOMAIN field : \A l \in DOMAIN field : l < j => field[l].key # field[j].key}
           firsts == Selected(field, at)
           same == {j \in DOMAIN field : field[j].key = field[i].key}
<1>1. DOMAIN field \subseteq Nat
  BY SeqIsSeq DEF IsSeq
<1>2. PICK j \in same : \A l \in same : j <= l
  <2>1. same \subseteq Nat /\ same # {}
    BY <1>1
  <2> HIDE DEF same
  <2> QED
    BY <2>1, LeastElement
<1>3. j \in at /\ field[j].key = field[i].key
  BY <1>1, <1>2
<1>4. PICK n \in DOMAIN firsts : firsts[n] = field[j]
  <2>1. at \subseteq DOMAIN field
    OBVIOUS
  <2> HIDE DEF at
  <2> QED
    BY <1>3, <2>1, SelectedHas
<1>5. DictKeys(field) = [m \in DOMAIN firsts |-> firsts[m].key]
  BY DEF DictKeys
<1> HIDE DEF firsts
<1> QED
  BY <1>3, <1>4, <1>5

(* The value of a key is that of its last member.                           *)
LEMMA DictValueIsLast ==
  ASSUME NEW field, IsSeq(field), NEW i \in DOMAIN field,
         \A j \in DOMAIN field : j > i => field[j].key # field[i].key
  PROVE  DictValue(field, field[i].key) = field[i].val
<1> DEFINE IsLast(j) == /\ field[j].key = field[i].key
                        /\ \A l \in DOMAIN field : l > j => field[l].key # field[i].key
<1>1. DOMAIN field \subseteq Nat
  BY SeqIsSeq DEF IsSeq
<1>2. \A j \in DOMAIN field : IsLast(j) => j = i
  BY <1>1
<1>3. (CHOOSE j \in DOMAIN field : IsLast(j)) = i
  <2>1. IsLast(i)
    OBVIOUS
  <2> HIDE DEF IsLast
  <2> QED
    BY <1>2, <2>1
<1> QED
  BY <1>3 DEF DictValue

-----------------------------------------------------------------------------
(* Fields that grow                                                         *)

LEMMA AppendConcat ==
  ASSUME NEW s, IsSeq(s), NEW t, IsSeq(t), NEW e
  PROVE  Append(s \o t, e) = s \o Append(t, e)
<1> DEFINE S == ToSet(s) \cup ToSet(t) \cup {e}
<1>1. s \in Seq(S) /\ t \in Seq(S) /\ e \in S
  BY DEF IsSeq
<1> HIDE DEF S
<1> QED
  BY <1>1

LEMMA ConcatEmpty ==
  ASSUME NEW s, IsSeq(s)
  PROVE  s \o <<>> = s
BY DEF IsSeq

(* Selecting from a concatenation is selecting from both parts.             *)
Splits(at, s, inS, more, inMore) ==
  /\ \A i \in DOMAIN s : i \in at <=> i \in inS
  /\ \A i \in DOMAIN more : Len(s) + i \in at <=> i \in inMore

LEMMA SelectedConcat ==
  ASSUME NEW s, IsSeq(s), NEW more, IsSeq(more), NEW at, NEW inS, NEW inMore,
         Splits(at, s, inS, more, inMore)
  PROVE  Selected(s \o more, at) = Selected(s, inS) \o Selected(more, inMore)
<1> DEFINE L == Len(s)
           N == Len(more)
           u == s \o more
<1>1. /\ IsSeq(u) /\ L \in Nat /\ N \in Nat /\ Len(u) = L + N
      /\ DOMAIN s = 1..L /\ DOMAIN more = 1..N
      /\ \A i \in 1..(L + N) : u[i] = IF i <= L THEN s[i] ELSE more[i - L]
  BY ConcatIsSeq, SeqIsSeq DEF IsSeq
<1>2. PICK up : /\ Selected(u, at) = up[L + N]
                /\ up[0] = <<>>
                /\ \A n \in 0..(L + N) : n < L + N => up[n + 1] = Grown(up[n], n + 1, u, at)
  <2>1. IsSeq(u) /\ Len(u) = L + N
    BY <1>1
  <2> HIDE DEF u, L, N
  <2>2. PICK up : /\ Selected(u, at) = up[Len(u)]
                  /\ up[0] = <<>>
                  /\ \A n \in 0..Len(u) : n < Len(u) => up[n + 1] = Grown(up[n], n + 1, u, at)
    BY <2>1, SelectedUnfolds
  <2> QED
    BY <2>1, <2>2
<1>3. PICK left : /\ Selected(s, inS) = left[L]
                  /\ left[0] = <<>>
                  /\ \A n \in 0..L : n < L => left[n + 1] = Grown(left[n], n + 1, s, inS)
  BY SelectedUnfolds
<1>4. PICK right : /\ Selected(more, inMore) = right[N]
                   /\ right[0] = <<>>
                   /\ \A n \in 0..N : n < N => right[n + 1] = Grown(right[n], n + 1, more, inMore)
  BY SelectedUnfolds
<1> HIDE DEF u, L, N
<1>5. up[L] = left[L] /\ IsSeq(left[L])
  <2> DEFINE Same(n) == up[n] = left[n] /\ IsSeq(left[n])
             T == {n \in 0..L : Same(n)}
  <2>1. Same(0)
    BY <1>2, <1>3, EmptyIsSeq
  <2>2. ASSUME NEW n \in 0..L, Same(n), n < L PROVE Same(n + 1)
    <3>1. n \in 0..(L + N) /\ n < L + N /\ n + 1 \in DOMAIN s /\ u[n + 1] = s[n + 1]
      BY <1>1, <2>2
    <3>2. up[n + 1] = Grown(up[n], n + 1, u, at) /\ left[n + 1] = Grown(left[n], n + 1, s, inS)
      BY <1>2, <1>3, <2>2, <3>1
    <3>3. up[n + 1] = left[n + 1]
      BY <2>2, <3>1, <3>2 DEF Grown, Splits
    <3>4. IsSeq(left[n + 1])
      BY <2>2, <3>2, AppendIsSeq DEF Grown
    <3> QED
      BY <3>3, <3>4
  <2> HIDE DEF Same
  <2>3. 0 \in T /\ \A n \in 0..L : n \in T /\ n < L => n + 1 \in T
    BY <1>1, <2>1, <2>2
  <2> HIDE DEF T
  <2>4. L \in Nat
    BY <1>1
  <2>5. L \in T
    BY <2>3, <2>4, Upwards
  <2> QED
    BY <2>5 DEF T, Same
<1>6. up[L + N] = left[L] \o right[N]
  <2> DEFINE Same(n) == up[L + n] = left[L] \o right[n] /\ IsSeq(right[n])
             T == {n \in 0..N : Same(n)}
  <2>1. Same(0)
    <3>1. L + 0 = L
      BY <1>1
    <3>2. left[L] \o <<>> = left[L]
      BY <1>5, ConcatEmpty
    <3> QED
      BY <1>4, <1>5, <3>1, <3>2, EmptyIsSeq
  <2>2. ASSUME NEW n \in 0..N, Same(n), n < N PROVE Same(n + 1)
    <3>1. /\ L + n \in 0..(L + N) /\ L + n < L + N /\ n + 1 \in DOMAIN more
          /\ (L + n) + 1 = L + (n + 1) /\ u[L + (n + 1)] = more[n + 1]
      BY <1>1, <2>2
    <3>2. /\ up[L + (n + 1)] = Grown(up[L + n], L + (n + 1), u, at)
          /\ right[n + 1] = Grown(right[n], n + 1, more, inMore)
      BY <1>2, <1>4, <2>2, <3>1
    <3>3. up[L + (n + 1)] = left[L] \o right[n + 1]
      <4>1. L + (n + 1) \in at <=> n + 1 \in inMore
        BY <3>1 DEF L, Splits
      <4>2. PICK l, r, e : l = left[L] /\ r = right[n] /\ e = more[n + 1]
        OBVIOUS
      <4>3. IsSeq(l) /\ IsSeq(r) /\ up[L + n] = l \o r /\ u[L + (n + 1)] = e
        BY <1>5, <2>2, <3>1, <4>2
      <4>4. Append(l \o r, e) = l \o Append(r, e)
        BY <4>3, AppendConcat
      <4> QED
        BY <3>2, <4>1, <4>2, <4>3, <4>4, Zenon DEF Grown
    <3>4. IsSeq(right[n + 1])
      BY <2>2, <3>2, AppendIsSeq DEF Grown
    <3> QED
      BY <3>3, <3>4
  <2> HIDE DEF Same
  <2>3. 0 \in T /\ \A n \in 0..N : n \in T /\ n < N => n + 1 \in T
    BY <1>1, <2>1, <2>2
  <2> HIDE DEF T
  <2>4. N \in Nat
    BY <1>1
  <2>5. N \in T
    BY <2>3, <2>4, Upwards
  <2> QED
    BY <2>5 DEF T, Same
<1> QED
  BY <1>2, <1>3, <1>4, <1>6 DEF u

LEMMA SelectedNone ==
  ASSUME NEW s, IsSeq(s)
  PROVE  Selected(s, {}) = <<>>
<1>1. PICK up : /\ Selected(s, {}) = up[Len(s)]
                /\ up[0] = <<>>
                /\ \A n \in 0..Len(s) : n < Len(s) => up[n + 1] = Grown(up[n], n + 1, s, {})
  BY SelectedUnfolds
<1>2. Len(s) \in Nat
  BY SeqIsSeq DEF IsSeq
<1> DEFINE N == Len(s)
           T == {n \in 0..N : up[n] = <<>>}
<1>3. 0 \in T /\ \A n \in 0..N : n \in T /\ n < N => n + 1 \in T
  BY <1>1, <1>2 DEF Grown
<1>4. N \in Nat
  BY <1>2
<1> HIDE DEF T, N
<1>5. N \in T
  BY <1>3, <1>4, Upwards
<1> QED
  BY <1>1, <1>5 DEF T, N

LEMMA SelectedAll ==
  ASSUME NEW s, IsSeq(s)
  PROVE  Selected(s, DOMAIN s) = s
<1> DEFINE N == Len(s)
<1>1. N \in Nat /\ DOMAIN s = 1..N
  BY SeqIsSeq DEF IsSeq
<1>2. PICK up : /\ Selected(s, DOMAIN s) = up[N]
                /\ up[0] = <<>>
                /\ \A n \in 0..N : n < N => up[n + 1] = Grown(up[n], n + 1, s, DOMAIN s)
  BY SelectedUnfolds
<1> HIDE DEF N
<1> DEFINE Whole(n) == /\ IsSeq(up[n]) /\ Len(up[n]) = n
                      /\ \A i \in 1..n : up[n][i] = s[i]
           T == {n \in 0..N : Whole(n)}
<1>3. Whole(0)
  BY <1>2, EmptyIsSeq
<1>4. ASSUME NEW n \in 0..N, Whole(n), n < N PROVE Whole(n + 1)
  <2>1. up[n + 1] = Append(up[n], s[n + 1])
    <3>1. n + 1 \in DOMAIN s
      BY <1>1, <1>4
    <3> QED
      BY <1>2, <1>4, <3>1 DEF Grown
  <2>2. /\ IsSeq(up[n + 1]) /\ Len(up[n + 1]) = n + 1
        /\ \A i \in 1..n : up[n + 1][i] = up[n][i]
        /\ up[n + 1][n + 1] = s[n + 1]
    BY <1>4, <2>1, AppendIsSeq
  <2> QED
    BY <1>1, <1>4, <2>2
<1> HIDE DEF Whole
<1>5. 0 \in T /\ \A n \in 0..N : n \in T /\ n < N => n + 1 \in T
  BY <1>1, <1>3, <1>4
<1> HIDE DEF T
<1>6. Whole(N)
  <2>1. N \in Nat
    BY <1>1
  <2>2. N \in T
    BY <1>5, <2>1, Upwards
  <2> QED
    BY <2>2 DEF T
<1>7. DOMAIN up[N] = 1..N /\ up[N] = [i \in DOMAIN up[N] |-> up[N][i]]
  BY <1>6, SeqIsSeq DEF IsSeq, Whole
<1>8. s = [i \in DOMAIN s |-> s[i]]
  BY DEF IsSeq
<1> QED
  BY <1>1, <1>2, <1>6, <1>7, <1>8 DEF Whole

-----------------------------------------------------------------------------
(* Keys and values                                                          *)

(* The same positions of fields with the same keys: the same keys again.    *)
Alike(f, g) == Len(f) = Len(g) /\ \A i \in 1..Len(f) : f[i].key = g[i].key

LEMMA SelectedAlike ==
  ASSUME NEW f, IsSeq(f), NEW g, IsSeq(g), Alike(f, g), NEW at
  PROVE  /\ Alike(Selected(f, at), Selected(g, at))
         /\ IsSeq(Selected(f, at)) /\ IsSeq(Selected(g, at))
<1> DEFINE N == Len(f)
<1>1. N \in Nat /\ Len(g) = N
  BY SeqIsSeq DEF IsSeq, Alike
<1>2. PICK left : /\ Selected(f, at) = left[N]
                  /\ left[0] = <<>>
                  /\ \A n \in 0..N : n < N => left[n + 1] = Grown(left[n], n + 1, f, at)
  BY SelectedUnfolds
<1>3. PICK right : /\ Selected(g, at) = right[Len(g)]
                   /\ right[0] = <<>>
                   /\ \A n \in 0..Len(g) : n < Len(g) => right[n + 1] = Grown(right[n], n + 1, g, at)
  BY SelectedUnfolds
<1>4. \A n \in 0..N : n < N => f[n + 1].key = g[n + 1].key
  BY <1>1 DEF Alike
<1> HIDE DEF N
<1> DEFINE Same(n) == IsSeq(left[n]) /\ IsSeq(right[n]) /\ Alike(left[n], right[n])
           T == {n \in 0..N : Same(n)}
<1>5. Same(0)
  BY <1>2, <1>3, EmptyIsSeq DEF Alike
<1>6. ASSUME NEW n \in 0..N, Same(n), n < N PROVE Same(n + 1)
  <2>1. CASE n + 1 \notin at
    BY <1>1, <1>2, <1>3, <1>6, <2>1 DEF Grown
  <2>2. CASE n + 1 \in at
    <3>1. PICK l, r, a, b : l = left[n] /\ r = right[n] /\ a = f[n + 1] /\ b = g[n + 1]
      OBVIOUS
    <3>2. left[n + 1] = Append(l, a) /\ right[n + 1] = Append(r, b)
      BY <1>1, <1>2, <1>3, <1>6, <2>2, <3>1 DEF Grown
    <3>3. IsSeq(l) /\ IsSeq(r) /\ Len(l) = Len(r) /\ a.key = b.key
          /\ \A i \in 1..Len(l) : l[i].key = r[i].key
      BY <1>4, <1>6, <3>1 DEF Alike
    <3>4. /\ IsSeq(Append(l, a)) /\ Len(l) \in Nat /\ Len(Append(l, a)) = Len(l) + 1
          /\ \A i \in 1..Len(l) : Append(l, a)[i] = l[i]
          /\ Append(l, a)[Len(l) + 1] = a
      BY <3>3, AppendIsSeq
    <3>5. /\ IsSeq(Append(r, b)) /\ Len(Append(r, b)) = Len(r) + 1
          /\ \A i \in 1..Len(r) : Append(r, b)[i] = r[i]
          /\ Append(r, b)[Len(r) + 1] = b
      BY <3>3, AppendIsSeq
    <3>6. \A i \in 1..(Len(l) + 1) : Append(l, a)[i].key = Append(r, b)[i].key
      <4> TAKE i \in 1..(Len(l) + 1)
      <4>1. CASE i = Len(l) + 1
        BY <3>3, <3>4, <3>5, <4>1
      <4>2. CASE i \in 1..Len(l)
        BY <3>3, <3>4, <3>5, <4>2
      <4>3. i = Len(l) + 1 \/ i \in 1..Len(l)
        BY <3>4
      <4> QED
        BY <4>1, <4>2, <4>3
    <3> QED
      BY <3>2, <3>3, <3>4, <3>5, <3>6 DEF Alike
  <2> QED
    BY <2>1, <2>2
<1> HIDE DEF Same
<1>7. 0 \in T /\ \A n \in 0..N : n \in T /\ n < N => n + 1 \in T
  BY <1>1, <1>5, <1>6
<1>8. N \in Nat
  BY <1>1
<1> HIDE DEF T
<1>9. N \in T
  BY <1>7, <1>8, Upwards
<1> QED
  BY <1>1, <1>2, <1>3, <1>9 DEF T, Same

LEMMA DictKeysAlike ==
  ASSUME NEW f, IsSeq(f), NEW g, IsSeq(g), Alike(f, g)
  PROVE  DictKeys(f) = DictKeys(g)
<1> DEFINE First(s) == {i \in DOMAIN s : \A j \in DOMAIN s : j < i => s[j].key # s[i].key}
<1>1. First(f) = First(g)
  <2>1. DOMAIN f = 1..Len(f) /\ DOMAIN g = 1..Len(f) /\ Len(f) \in Nat
    BY SeqIsSeq DEF IsSeq, Alike
  <2>2. \A i \in 1..Len(f) : f[i].key = g[i].key
    BY DEF Alike
  <2> QED
    BY <2>1, <2>2
<1>2. /\ DictKeys(f) = [n \in DOMAIN Selected(f, First(f)) |-> Selected(f, First(f))[n].key]
      /\ DictKeys(g) = [n \in DOMAIN Selected(g, First(g)) |-> Selected(g, First(g))[n].key]
  BY DEF DictKeys
<1> HIDE DEF First
<1>3. PICK l, r : l = Selected(f, First(f)) /\ r = Selected(g, First(g))
  OBVIOUS
<1>4. Alike(l, r) /\ IsSeq(l) /\ IsSeq(r)
  BY <1>1, <1>3, SelectedAlike
<1>5. DOMAIN l = 1..Len(l) /\ DOMAIN r = 1..Len(r)
  BY <1>4, SeqIsSeq DEF IsSeq
<1> QED
  BY <1>2, <1>3, <1>4, <1>5 DEF Alike

(* Every key of a dictionary stands in the field, and it has the value of   *)
(* the last member there.                                                   *)
LEMMA DictKeysFrom ==
  ASSUME NEW field, IsSeq(field), NEW n \in DOMAIN DictKeys(field)
  PROVE  \E i \in DOMAIN field : DictKeys(field)[n] = field[i].key
<1> DEFINE at == {j \in DOMAIN field : \A l \in DOMAIN field : l < j => field[l].key # field[j].key}
           firsts == Selected(field, at)
<1>1. DictKeys(field) = [m \in DOMAIN firsts |-> firsts[m].key]
  BY DEF DictKeys
<1>2. at \subseteq DOMAIN field
  OBVIOUS
<1> HIDE DEF at
<1>3. DOMAIN firsts = 1..Len(firsts)
  BY <1>2, SelectedIsSeq
<1>4. PICK pos : Picks(pos, firsts, field, at, Len(field))
  BY <1>2, SelectedPicks
<1> HIDE DEF firsts
<1>5. n \in 1..Len(firsts) /\ DictKeys(field)[n] = firsts[n].key
  BY <1>1, <1>3
<1>6. pos[n] \in DOMAIN field /\ firsts[n] = field[pos[n]]
  BY <1>2, <1>4, <1>5 DEF Picks
<1> QED
  BY <1>5, <1>6

(* The last member of a key.                                                *)
IsLastOf(field, i, key) ==
  /\ i \in DOMAIN field /\ field[i].key = key
  /\ \A j \in DOMAIN field : j > i => field[j].key # key

LEMMA LastOfKey ==
  ASSUME NEW field, IsSeq(field), NEW i \in DOMAIN field
  PROVE  \E m \in DOMAIN field : /\ IsLastOf(field, m, field[i].key)
                               /\ DictValue(field, field[i].key) = field[m].val
<1> DEFINE same == {j \in DOMAIN field : field[j].key = field[i].key}
<1>1. Len(field) \in Nat /\ DOMAIN field = 1..Len(field)
  BY SeqIsSeq DEF IsSeq
<1>2. PICK m \in same : \A j \in same : j <= m
  <2>1. same \subseteq 1..Len(field) /\ same # {}
    BY <1>1
  <2> HIDE DEF same
  <2> QED
    BY <1>1, <2>1, GreatestElement
<1>3. m \in DOMAIN field /\ field[m].key = field[i].key
  OBVIOUS
<1>4. \A j \in DOMAIN field : j > m => field[j].key # field[i].key
  BY <1>1, <1>2, <1>3
<1>5. DictValue(field, field[m].key) = field[m].val
  BY <1>3, <1>4, DictValueIsLast
<1> QED
  BY <1>3, <1>4, <1>5 DEF IsLastOf

-----------------------------------------------------------------------------
(* Parameters                                                               *)

(* The fold over the parameters of an identifier, one parameter at a time.  *)
Iterates(it, acc, params, n) ==
  it = [s \in SUBSET (1..n) |->
          IF s = {} THEN acc ELSE ApplyParam(it[s \ {Max(s)}], params[Max(s)])]

LEMMA MaxOf ==
  ASSUME NEW n \in Nat, NEW s \in SUBSET (1..n), n \in s
  PROVE  Max(s) = n
<1>1. n \in s /\ \A y \in s : n >= y
  OBVIOUS
<1>2. \A x \in s : (\A y \in s : x >= y) => x = n
  OBVIOUS
<1> QED
  BY <1>1, <1>2 DEF Max

LEMMA IterationExists ==
  ASSUME NEW acc, NEW params, NEW N \in Nat
  PROVE  \E it : Iterates(it, acc, params, N)
<1> DEFINE T == {n \in Nat : \E it : Iterates(it, acc, params, n)}
<1>1. 0 \in T
  <2> DEFINE it == [s \in SUBSET (1..0) |-> acc]
  <2>1. \A s \in SUBSET (1..0) : s = {}
    OBVIOUS
  <2>2. Iterates(it, acc, params, 0)
    BY <2>1 DEF Iterates
  <2> QED
    BY <2>2
<1>2. ASSUME NEW n \in 0..N, n \in T PROVE n + 1 \in T
  <2>1. PICK it : Iterates(it, acc, params, n)
    BY <1>2
  <2> DEFINE longer == [s \in SUBSET (1..(n + 1)) |->
                          IF n + 1 \in s THEN ApplyParam(it[s \ {n + 1}], params[n + 1]) ELSE it[s]]
  <2>2. ASSUME NEW s \in SUBSET (1..(n + 1))
        PROVE  longer[s] = IF s = {} THEN acc
                           ELSE ApplyParam(longer[s \ {Max(s)}], params[Max(s)])
    <3>1. CASE n + 1 \in s
      <4>1. Max(s) = n + 1
        BY <3>1, MaxOf
      <4>2. s \ {n + 1} \in SUBSET (1..(n + 1)) /\ n + 1 \notin s \ {n + 1}
        OBVIOUS
      <4>3. longer[s \ {n + 1}] = it[s \ {n + 1}]
        BY <4>2
      <4> QED
        BY <3>1, <4>1, <4>3
    <3>2. CASE n + 1 \notin s
      <4>1. s \in SUBSET (1..n) /\ longer[s] = it[s]
        BY <3>2
      <4>2. longer[s \ {Max(s)}] = it[s \ {Max(s)}]
        BY <3>2
      <4>3. it[s] = IF s = {} THEN acc ELSE ApplyParam(it[s \ {Max(s)}], params[Max(s)])
        BY <2>1, <4>1 DEF Iterates
      <4> QED
        BY <4>1, <4>2, <4>3
    <3> QED
      BY <3>1, <3>2
  <2>3. longer = [s \in SUBSET (1..(n + 1)) |-> longer[s]]
    OBVIOUS
  <2> HIDE DEF longer
  <2>4. Iterates(longer, acc, params, n + 1)
    BY <2>2, <2>3 DEF Iterates
  <2> QED
    BY <2>4
<1> HIDE DEF T
<1>3. N \in T
  BY <1>1, <1>2, Upwards
<1> QED
  BY <1>3 DEF T

AllApplied(acc, params) == FoldLeft(ApplyParam, acc, params)

(* The fold, one parameter after the other.                                 *)
Unfolds(up, acc, params) ==
  /\ up[0] = acc
  /\ \A n \in 0..Len(params) : n < Len(params) => up[n + 1] = ApplyParam(up[n], params[n + 1])

LEMMA ParamsApplied ==
  ASSUME NEW acc, NEW params, IsSeq(params)
  PROVE  \E up : AllApplied(acc, params) = up[Len(params)] /\ Unfolds(up, acc, params)
<1> DEFINE N == Len(params)
           it == CHOOSE it : Iterates(it, acc, params, N)
           up == [n \in 0..N |-> it[1..n]]
<1>1. N \in Nat /\ DOMAIN params = 1..N
  BY SeqIsSeq DEF IsSeq
<1>2. Iterates(it, acc, params, N)
  BY <1>1, IterationExists
<1>3. AllApplied(acc, params) = it[1..N]
  BY <1>1 DEF AllApplied, FoldLeft, MapThenFoldSet, Iterates
<1> HIDE DEF it, N
<1>4. up[0] = acc
  <2>1. 1..0 = {} /\ {} \in SUBSET (1..N)
    OBVIOUS
  <2>2. it[{}] = acc
    BY <1>2, <2>1 DEF Iterates
  <2> QED
    BY <1>1, <2>1, <2>2
<1>5. ASSUME NEW n \in 0..N, n < N PROVE up[n + 1] = ApplyParam(up[n], params[n + 1])
  <2>1. /\ 1..(n + 1) \in SUBSET (1..N) /\ 1..(n + 1) \in SUBSET (1..(n + 1))
        /\ 1..(n + 1) # {} /\ n + 1 \in 1..(n + 1)
        /\ (1..(n + 1)) \ {n + 1} = 1..n /\ n + 1 \in 0..N /\ n + 1 \in Nat
    BY <1>1, <1>5
  <2>2. Max(1..(n + 1)) = n + 1
    BY <2>1, MaxOf
  <2>3. it[1..(n + 1)] = ApplyParam(it[1..n], params[n + 1])
    BY <1>2, <2>1, <2>2 DEF Iterates
  <2> QED
    BY <2>1, <2>3
<1>6. AllApplied(acc, params) = up[N]
  BY <1>1, <1>3
<1>7. \A n \in 0..N : n < N => up[n + 1] = ApplyParam(up[n], params[n + 1])
  BY <1>5
<1> HIDE DEF up
<1>8. Unfolds(up, acc, params)
  BY <1>4, <1>7 DEF N, Unfolds
<1> QED
  BY <1>6, <1>8 DEF N

LEMMA ParamsUnfold ==
  ASSUME NEW acc, NEW params, IsSeq(params)
  PROVE  \E up : /\ AllApplied(acc, params) = up[Len(params)]
                 /\ up[0] = acc
                 /\ \A n \in 0..Len(params) :
                      n < Len(params) => up[n + 1] = ApplyParam(up[n], params[n + 1])
BY ParamsApplied DEF Unfolds

-----------------------------------------------------------------------------
(* Fields with more lines                                                   *)

(* Lines of one dictionary member each, under these names.                  *)
Lines(more, names) ==
  /\ IsSeq(more)
  /\ \A i \in DOMAIN more : \E key \in names : \E val :
       val[1] # "loose" /\ more[i] = Member("entry", key, val)

LEMMA LinesAre ==
  ASSUME NEW names, NEW more, Lines(more, names)
  PROVE  /\ IsSeq(more) /\ Len(more) \in Nat /\ DOMAIN more = 1..Len(more)
         /\ \A i \in DOMAIN more :
              /\ more[i].form = "entry" /\ more[i].key \in names /\ more[i].first
              /\ [more[i] EXCEPT !.val = Canonical(more[i].val)] = more[i]
<1>1. IsSeq(more) /\ Len(more) \in Nat /\ DOMAIN more = 1..Len(more)
  BY SeqIsSeq DEF Lines, IsSeq
<1>2. ASSUME NEW i \in DOMAIN more
      PROVE  /\ more[i].form = "entry" /\ more[i].key \in names /\ more[i].first
             /\ [more[i] EXCEPT !.val = Canonical(more[i].val)] = more[i]
  <2>0. PICK key \in names : \E val : val[1] # "loose" /\ more[i] = Member("entry", key, val)
    BY DEF Lines
  <2>1. PICK val : val[1] # "loose" /\ more[i] = Member("entry", key, val)
    BY <2>0
  <2>2. Canonical(val) = val
    BY <2>1 DEF Canonical
  <2>3. PICK m : m = Member("entry", key, val)
    OBVIOUS
  <2>4. m.form = "entry" /\ m.key = key /\ m.val = val
    BY <2>3 DEF Member
  <2>5. m.first
    BY <2>3 DEF Member
  <2>6. m = [x \in {"form", "key", "val", "first"} |-> m[x]]
    BY <2>3 DEF Member
  <2>7. [m EXCEPT !["val"] = val] = m
    BY <2>4, <2>6
  <2>8. more[i] = m
    BY <2>1, <2>3
  <2> QED
    BY <2>2, <2>4, <2>5, <2>7, <2>8, Zenon
<1> QED
  BY <1>1, <1>2

(* Where the new lines stand: each of them on a line of its own.            *)
Longer(f, more, g) ==
  /\ IsSeq(g) /\ DOMAIN g = 1..(Len(f) + Len(more))
  /\ \A i \in DOMAIN f : i \in DOMAIN g /\ g[i] = f[i]
  /\ \A i \in DOMAIN more : Len(f) + i \in DOMAIN g /\ g[Len(f) + i] = more[i]
  /\ \A i \in DOMAIN g : i \notin DOMAIN f => i > Len(f) /\ i - Len(f) \in DOMAIN more
  /\ \A i, j \in DOMAIN f : SameLine(g, i, j) <=> SameLine(f, i, j)
  /\ \A i, j \in DOMAIN g :
       i # j /\ (i \notin DOMAIN f \/ j \notin DOMAIN f) => ~SameLine(g, i, j)

LEMMA LinesLonger ==
  ASSUME NEW f, IsSeq(f), NEW names, NEW more, Lines(more, names)
  PROVE  Longer(f, more, f \o more)
<1> DEFINE L == Len(f)
           M == Len(more)
           g == f \o more
<1>1. /\ IsSeq(g) /\ L \in Nat /\ M \in Nat /\ DOMAIN g = 1..(L + M)
      /\ DOMAIN f = 1..L /\ DOMAIN more = 1..M
      /\ \A i \in 1..(L + M) : g[i] = IF i <= L THEN f[i] ELSE more[i - L]
  BY ConcatIsSeq, SeqIsSeq, LinesAre DEF IsSeq
<1> HIDE DEF L, M, g
<1>2. \A i \in DOMAIN f : i \in DOMAIN g /\ g[i] = f[i]
  BY <1>1
<1>3. \A i \in DOMAIN more : L + i \in DOMAIN g /\ g[L + i] = more[i]
  BY <1>1
<1>4. \A i \in DOMAIN g : i \notin DOMAIN f => i > L /\ i - L \in DOMAIN more /\ g[i].first
  <2> SUFFICES ASSUME NEW i \in DOMAIN g, i \notin DOMAIN f
               PROVE  i > L /\ i - L \in DOMAIN more /\ g[i].first
    OBVIOUS
  <2>1. i > L /\ i - L \in DOMAIN more /\ g[i] = more[i - L]
    BY <1>1
  <2> QED
    BY <2>1, LinesAre
<1>5. ASSUME NEW i \in DOMAIN f, NEW j \in DOMAIN f
      PROVE  SameLine(g, i, j) <=> SameLine(f, i, j)
  <2>1. \A m \in DOMAIN g : m <= j \/ m <= i => m \in DOMAIN f
    BY <1>1
  <2>2. \A m \in DOMAIN f : m \in DOMAIN g /\ g[m] = f[m]
    BY <1>2
  <2> QED
    BY <2>1, <2>2 DEF SameLine
<1>6. ASSUME NEW i \in DOMAIN g, NEW j \in DOMAIN g, i # j, i \notin DOMAIN f \/ j \notin DOMAIN f
      PROVE  ~SameLine(g, i, j)
  <2>1. CASE i < j
    <3>1. j \notin DOMAIN f
      BY <1>1, <1>6, <2>1
    <3> QED
      BY <1>1, <1>4, <2>1, <3>1 DEF SameLine
  <2>2. CASE j < i
    <3>1. i \notin DOMAIN f
      BY <1>1, <1>6, <2>2
    <3> QED
      BY <1>1, <1>4, <2>2, <3>1 DEF SameLine
  <2> QED
    BY <1>1, <1>6, <2>1, <2>2
<1> QED
  BY <1>1, <1>2, <1>3, <1>4, <1>5, <1>6 DEF Longer, L, M, g

(* Lines of members do not keep a field from being parsed.                  *)
LEMMA ParsesLonger ==
  ASSUME NEW f, IsSeq(f), NEW names, NEW more, Lines(more, names)
  PROVE  /\ SfParses(f) => SfParses(f \o more)
         /\ IsDictionary(f) => IsDictionary(f \o more)
         /\ IsText(f) => IsText(f \o more)
<1> DEFINE g == f \o more
<1>1. Longer(f, more, g)
  BY LinesLonger
<1> HIDE DEF g
<1>2. \A i \in DOMAIN f : g[i] = f[i]
  BY <1>1 DEF Longer
<1>3. ASSUME NEW i \in DOMAIN g, i \notin DOMAIN f PROVE g[i].form = "entry"
  <2>1. PICK m \in DOMAIN more : m = i - Len(f) /\ g[Len(f) + m] = more[m]
    BY <1>1, <1>3 DEF Longer
  <2>2. i = Len(f) + m
    BY <1>1, <2>1, SeqIsSeq DEF Longer, IsSeq
  <2> QED
    BY <2>1, <2>2, LinesAre
<1>4. ASSUME SfParses(f) PROVE SfParses(g)
  <2> SUFFICES ASSUME NEW i \in DOMAIN g PROVE OnListLine(g, i) \/ OnDictionaryLine(g, i)
    BY DEF SfParses
  <2>1. CASE i \in DOMAIN f
    <3>1. \A j \in DOMAIN g : SameLine(g, i, j) => j \in DOMAIN f /\ SameLine(f, i, j)
      BY <1>1, <2>1 DEF Longer
    <3>2. OnListLine(f, i) \/ OnDictionaryLine(f, i)
      BY <1>4, <2>1 DEF SfParses
    <3>3. OnListLine(f, i) => OnListLine(g, i)
      BY <1>2, <3>1 DEF OnListLine
    <3>4. OnDictionaryLine(f, i) => OnDictionaryLine(g, i)
      BY <1>2, <3>1 DEF OnDictionaryLine
    <3> QED
      BY <3>2, <3>3, <3>4
  <2>2. CASE i \notin DOMAIN f
    <3>1. \A j \in DOMAIN g : SameLine(g, i, j) => j = i
      BY <1>1, <2>2 DEF Longer
    <3> QED
      BY <1>3, <2>2, <3>1 DEF OnDictionaryLine
  <2> QED
    BY <2>1, <2>2
<1>5. IsDictionary(f) => IsDictionary(g)
  BY <1>2, <1>3 DEF IsDictionary
<1>6. IsText(f) => IsText(g)
  BY <1>2, <1>3 DEF IsText
<1> QED
  BY <1>4, <1>5, <1>6 DEF g

-----------------------------------------------------------------------------
(* A key that the new lines do not have selects what it did.                *)
LEMMA KeyFieldLonger ==
  ASSUME NEW f, IsSeq(f), NEW names, NEW more, Lines(more, names), NEW key, key \notin names
  PROVE  KeyField(f \o more, key) = KeyField(f, key)
<1> DEFINE g == f \o more
           At(h) == {i \in DOMAIN h : /\ h[i].key = key
                                      /\ \A j \in DOMAIN h : j > i /\ SameLine(h, i, j) => h[j].key # key}
<1>1. Longer(f, more, g)
  BY LinesLonger
<1>2. \A h : KeyField(h, key) =
             [n \in DOMAIN Selected(h, At(h)) |->
                Member("item", "", Canonical(Selected(h, At(h))[n].val))]
  BY DEF KeyField
<1> HIDE DEF g
<1>3. ASSUME NEW i \in DOMAIN g, i \notin DOMAIN f PROVE g[i].key # key
  <2>1. PICK m \in DOMAIN more : m = i - Len(f) /\ g[Len(f) + m] = more[m]
    BY <1>1, <1>3 DEF Longer
  <2>2. i = Len(f) + m
    BY <1>1, <2>1, SeqIsSeq DEF Longer, IsSeq
  <2> QED
    BY <2>1, <2>2, LinesAre
<1>4. ASSUME NEW i \in DOMAIN f PROVE i \in At(g) <=> i \in At(f)
  <2>1. i \in DOMAIN g /\ g[i] = f[i]
    BY <1>1 DEF Longer
  <2>2. \A j \in DOMAIN f : j \in DOMAIN g /\ g[j] = f[j] /\ (SameLine(g, i, j) <=> SameLine(f, i, j))
    BY <1>1 DEF Longer
  <2> QED
    BY <1>3, <2>1, <2>2
<1>5. ASSUME NEW i \in DOMAIN more PROVE Len(f) + i \notin At(g)
  <2>1. Len(f) + i \notin DOMAIN f
    BY SeqIsSeq, LinesAre DEF IsSeq
  <2> QED
    BY <1>3, <2>1
<1>6. At(f) \subseteq DOMAIN f
  OBVIOUS
<1> HIDE DEF At
<1>7. Splits(At(g), f, At(f), more, {})
  BY <1>4, <1>5 DEF Splits
<1>8. Selected(g, At(g)) = Selected(f, At(f)) \o Selected(more, {})
  BY <1>7, SelectedConcat, LinesAre DEF g
<1>9. Selected(g, At(g)) = Selected(f, At(f))
  <2>1. Selected(more, {}) = <<>>
    BY SelectedNone, LinesAre
  <2>2. IsSeq(Selected(f, At(f)))
    BY <1>6, SelectedIsSeq
  <2> QED
    BY <1>8, <2>1, <2>2, ConcatEmpty
<1> QED
  BY <1>2, <1>9 DEF g

-----------------------------------------------------------------------------
(* Serialized anew, the old lines are what they were without the new ones,  *)
(* and the new ones stay as they are.                                       *)
LEMMA SfFieldLonger ==
  ASSUME NEW f, IsSeq(f), NEW names, NEW more, Lines(more, names)
  PROVE  SfField(f \o more) = SfField(f) \o more /\ IsSeq(SfField(f))
<1> DEFINE g == f \o more
           L == Len(f)
           Same(h, i, j) == ~OnListLine(h, i) /\ SameLine(h, i, j) /\ h[i].key = h[j].key
           IsLatest(h, i, j) == /\ j = i \/ Same(h, i, j)
                                /\ \A m \in DOMAIN h : m > j => ~Same(h, i, m)
           Latest(h, i) == CHOOSE j \in DOMAIN h : IsLatest(h, i, j)
           Anew(h) == [i \in DOMAIN h |-> [h[i] EXCEPT !.val = Canonical(h[Latest(h, i)].val)]]
           At(h) == {i \in DOMAIN h : \A j \in DOMAIN h : j < i => ~Same(h, i, j)}
<1>1. Longer(f, more, g)
  BY LinesLonger
<1>2. /\ L \in Nat /\ DOMAIN f = 1..L /\ Len(more) \in Nat /\ DOMAIN more = 1..Len(more)
      /\ DOMAIN g = 1..(L + Len(more))
  BY <1>1, SeqIsSeq, LinesAre DEF IsSeq, Longer
<1>3. \A h : SfField(h) = Selected(Anew(h), At(h))
  BY DEF SfField
<1>4. \A i, j \in DOMAIN f : Same(g, i, j) <=> Same(f, i, j)
  <2>1. ASSUME NEW i \in DOMAIN f PROVE OnListLine(g, i) <=> OnListLine(f, i)
    <3>1. \A j \in DOMAIN g : SameLine(g, i, j) => j \in DOMAIN f /\ SameLine(f, i, j)
      BY <1>1, <2>1 DEF Longer
    <3>2. \A j \in DOMAIN f : j \in DOMAIN g /\ g[j] = f[j] /\ (SameLine(f, i, j) => SameLine(g, i, j))
      BY <1>1, <2>1 DEF Longer
    <3> HIDE DEF g
    <3> QED
      BY <3>1, <3>2 DEF OnListLine
  <2>2. \A i, j \in DOMAIN f : (SameLine(g, i, j) <=> SameLine(f, i, j)) /\ g[i] = f[i] /\ g[j] = f[j]
    BY <1>1 DEF Longer
  <2> HIDE DEF g
  <2> QED
    BY <2>1, <2>2
<1>5. \A i, j \in DOMAIN g : i # j /\ (i \notin DOMAIN f \/ j \notin DOMAIN f) => ~Same(g, i, j)
  BY <1>1 DEF Longer
<1> HIDE DEF Same, g, L
<1>6. ASSUME NEW i \in DOMAIN f
      PROVE  Latest(g, i) = Latest(f, i) /\ Latest(f, i) \in DOMAIN f
  <2> DEFINE T == {j \in DOMAIN f : j = i \/ Same(f, i, j)}
  <2>1. PICK j \in T : \A m \in T : m <= j
    <3>1. T \subseteq 1..L /\ T # {}
      BY <1>2
    <3> HIDE DEF T
    <3> QED
      BY <1>2, <3>1, GreatestElement
  <2>2. j \in DOMAIN f /\ IsLatest(f, i, j)
    BY <1>2, <2>1
  <2>3. ASSUME NEW l PROVE (l \in DOMAIN g /\ IsLatest(g, i, l)) <=> (l \in DOMAIN f /\ IsLatest(f, i, l))
    BY <1>2, <1>4, <1>5
  <2> HIDE DEF IsLatest
  <2> QED
    BY <2>2, <2>3
<1>7. ASSUME NEW i \in DOMAIN g, i \notin DOMAIN f PROVE Latest(g, i) = i
  <2>1. \A j \in DOMAIN g : IsLatest(g, i, j) <=> j = i
    BY <1>2, <1>5, <1>7
  <2> HIDE DEF IsLatest
  <2> QED
    BY <1>7, <2>1
<1> HIDE DEF Latest
<1>8. IsSeq(Anew(f)) /\ Len(Anew(f)) = L /\ DOMAIN Anew(f) = 1..L
  <2>1. Anew(f) = [i \in 1..L |-> Anew(f)[i]]
    BY <1>2
  <2> HIDE DEF Anew
  <2> QED
    BY <1>2, <2>1, FunIsSeq
<1>9. Anew(g) = Anew(f) \o more
  <2>1. /\ DOMAIN (Anew(f) \o more) = 1..(L + Len(more))
        /\ IsSeq(Anew(f) \o more)
        /\ \A i \in 1..(L + Len(more)) :
             (Anew(f) \o more)[i] = IF i <= L THEN Anew(f)[i] ELSE more[i - L]
    <3> HIDE DEF Anew
    <3> QED
      BY <1>8, LinesAre, ConcatIsSeq
  <2>2. ASSUME NEW i \in DOMAIN g PROVE Anew(g)[i] = IF i <= L THEN Anew(f)[i] ELSE more[i - L]
    <3>1. CASE i \in DOMAIN f
      <4>1. g[i] = f[i] /\ g[Latest(g, i)] = f[Latest(f, i)]
        BY <1>1, <1>6, <3>1 DEF Longer
      <4> QED
        BY <1>2, <3>1, <4>1
    <3>2. CASE i \notin DOMAIN f
      <4>1. PICK m \in DOMAIN more : m = i - L /\ g[L + m] = more[m] /\ i > L
        BY <1>1, <3>2 DEF Longer, L
      <4>2. g[i] = more[m]
        BY <1>2, <4>1
      <4>3. Anew(g)[i] = [g[i] EXCEPT !.val = Canonical(g[i].val)]
        BY <1>7, <3>2
      <4>4. [more[m] EXCEPT !.val = Canonical(more[m].val)] = more[m]
        BY LinesAre
      <4> HIDE DEF Anew
      <4>5. Anew(g)[i] = more[i - L]
        BY <4>1, <4>2, <4>3, <4>4
      <4> QED
        BY <1>2, <4>1, <4>5
    <3> QED
      BY <3>1, <3>2
  <2>3. DOMAIN Anew(g) = 1..(L + Len(more)) /\ Anew(g) = [i \in DOMAIN g |-> Anew(g)[i]]
    BY <1>2
  <2>4. Anew(f) \o more = [i \in DOMAIN (Anew(f) \o more) |-> (Anew(f) \o more)[i]]
    BY <2>1 DEF IsSeq
  <2> HIDE DEF Anew
  <2> QED
    BY <1>2, <2>1, <2>2, <2>3, <2>4
<1>10. At(f) \subseteq DOMAIN Anew(f)
  BY <1>2, <1>8
<1>11. \A i \in DOMAIN f : i \in At(g) <=> i \in At(f)
  BY <1>2, <1>4
<1>12. \A i \in DOMAIN more : L + i \in At(g)
  BY <1>2, <1>5
<1> HIDE DEF Anew, At
<1>13. Splits(At(g), Anew(f), At(f), more, DOMAIN more)
  BY <1>2, <1>8, <1>11, <1>12 DEF Splits
<1>14. Selected(Anew(f) \o more, At(g)) = Selected(Anew(f), At(f)) \o Selected(more, DOMAIN more)
  BY <1>8, <1>13, SelectedConcat, LinesAre
<1>15. Selected(more, DOMAIN more) = more
  BY SelectedAll, LinesAre
<1>16. IsSeq(Selected(Anew(f), At(f)))
  BY <1>8, <1>10, SelectedIsSeq
<1> QED
  BY <1>3, <1>9, <1>14, <1>15, <1>16 DEF g

-----------------------------------------------------------------------------
(* Components of such a field                                               *)

LEMMA Applied ==
  ASSUME NEW acc, NEW param, NEW r, r = ApplyParam(acc, param)
  PROVE  /\ param.p = "req" => r = acc
         /\ param.p = "sf" =>
              /\ r.ok <=> acc.ok /\ SfParses(acc.field)
              /\ r.field = IF SfParses(acc.field) THEN SfField(acc.field) ELSE acc.field
              /\ "ok" \in DOMAIN r
         /\ param.p = "key" =>
              /\ r.ok <=> acc.ok /\ IsDictionary(acc.field)
              /\ r.field = KeyField(acc.field, param.arg)
              /\ "ok" \in DOMAIN r
         /\ param.p \notin {"req", "sf", "key"} => r = [acc EXCEPT !.ok = FALSE]
<1>1. CASE param.p = "req"
  <2>1. param.p # "sf" /\ param.p # "key"
    BY <1>1
  <2> QED
    BY <1>1, <2>1, Zenon DEF ApplyParam
<1>2. CASE param.p = "sf"
  <2>1. param.p # "req" /\ param.p # "key"
    BY <1>2
  <2>2. r = [ok |-> acc.ok /\ SfParses(acc.field),
             field |-> IF SfParses(acc.field) THEN SfField(acc.field) ELSE acc.field]
    BY <1>2, <2>1, Zenon DEF ApplyParam
  <2>3. r.ok <=> acc.ok /\ SfParses(acc.field)
    <3>1. r.ok = (acc.ok /\ SfParses(acc.field))
      BY <2>2
    <3> QED
      BY <3>1, Zenon
  <2>4. r.field = IF SfParses(acc.field) THEN SfField(acc.field) ELSE acc.field
    BY <2>2
  <2>5. "ok" \in DOMAIN r
    BY <2>2
  <2> QED
    BY <1>2, <2>1, <2>3, <2>4, <2>5
<1>3. CASE param.p = "key"
  <2>1. param.p # "req" /\ param.p # "sf"
    BY <1>3
  <2>2. r = [ok |-> acc.ok /\ IsDictionary(acc.field), field |-> KeyField(acc.field, param.arg)]
    BY <1>3, <2>1, Zenon DEF ApplyParam
  <2>3. r.ok <=> acc.ok /\ IsDictionary(acc.field)
    <3>1. r.ok = (acc.ok /\ IsDictionary(acc.field))
      BY <2>2
    <3> QED
      BY <3>1, Zenon
  <2>4. r.field = KeyField(acc.field, param.arg)
    BY <2>2
  <2>5. "ok" \in DOMAIN r
    BY <2>2
  <2> QED
    BY <1>3, <2>1, <2>3, <2>4, <2>5
<1>4. CASE param.p \notin {"req", "sf", "key"}
  <2>1. param.p # "req" /\ param.p # "sf" /\ param.p # "key"
    BY <1>4
  <2> QED
    BY <1>4, <2>1, Zenon DEF ApplyParam
<1> QED
  BY <1>1, <1>2, <1>3, <1>4

(* Until a `key` picks its members, the longer field goes along; then it is *)
(* the same.                                                                *)
GoesAlong(old, new, more) ==
  new.ok /\ IsSeq(old.field) /\ new.field = old.field \o more

IsTheSame(old, new) == new.ok /\ new.field = old.field

LEMMA AppliedLonger ==
  ASSUME NEW old, "ok" \in DOMAIN old, NEW new, NEW names, NEW more, Lines(more, names),
         NEW param, param.p = "key" => param.arg \notin names,
         ApplyParam(old, param).ok
  PROVE  /\ old.ok
         /\ IsTheSame(old, new) => IsTheSame(ApplyParam(old, param), ApplyParam(new, param))
         /\ GoesAlong(old, new, more) =>
              IF param.p = "key" THEN IsTheSame(ApplyParam(old, param), ApplyParam(new, param))
              ELSE GoesAlong(ApplyParam(old, param), ApplyParam(new, param), more)
<1>1. CASE param.p = "req"
  BY <1>1, Applied
<1>2. CASE param.p = "sf"
  <2>1. \A acc : LET r == ApplyParam(acc, param)
                 IN  /\ r.ok <=> acc.ok /\ SfParses(acc.field)
                     /\ r.field = IF SfParses(acc.field) THEN SfField(acc.field) ELSE acc.field
    BY <1>2, Applied
  <2>2. old.ok /\ SfParses(old.field) /\ ApplyParam(old, param).field = SfField(old.field)
    BY <2>1
  <2>3. ASSUME GoesAlong(old, new, more)
        PROVE  GoesAlong(ApplyParam(old, param), ApplyParam(new, param), more)
    <3>1. IsSeq(old.field) /\ new.ok /\ new.field = old.field \o more
      BY <2>3 DEF GoesAlong
    <3>2. SfParses(new.field)
      BY <2>2, <3>1, ParsesLonger
    <3>3. SfField(new.field) = SfField(old.field) \o more /\ IsSeq(SfField(old.field))
      BY <3>1, SfFieldLonger
    <3> QED
      BY <2>1, <2>2, <3>1, <3>2, <3>3 DEF GoesAlong
  <2>4. IsTheSame(old, new) => IsTheSame(ApplyParam(old, param), ApplyParam(new, param))
    BY <2>1, <2>2 DEF IsTheSame
  <2> QED
    BY <1>2, <2>2, <2>3, <2>4
<1>3. CASE param.p = "key"
  <2>1. \A acc : LET r == ApplyParam(acc, param)
                 IN  /\ r.ok <=> acc.ok /\ IsDictionary(acc.field)
                     /\ r.field = KeyField(acc.field, param.arg)
    BY <1>3, Applied
  <2>2. old.ok /\ IsDictionary(old.field)
    BY <2>1
  <2>3. ASSUME GoesAlong(old, new, more)
        PROVE  IsTheSame(ApplyParam(old, param), ApplyParam(new, param))
    <3>1. IsSeq(old.field) /\ new.ok /\ new.field = old.field \o more
      BY <2>3 DEF GoesAlong
    <3>2. IsDictionary(new.field)
      BY <2>2, <3>1, ParsesLonger
    <3>3. KeyField(new.field, param.arg) = KeyField(old.field, param.arg)
      BY <1>3, <3>1, KeyFieldLonger
    <3> QED
      BY <2>1, <2>2, <3>1, <3>2, <3>3 DEF IsTheSame
  <2>4. IsTheSame(old, new) => IsTheSame(ApplyParam(old, param), ApplyParam(new, param))
    BY <2>1, <2>2 DEF IsTheSame
  <2> QED
    BY <1>3, <2>2, <2>3, <2>4
<1>4. CASE param.p \notin {"req", "sf", "key"}
  <2>1. ApplyParam(old, param) = [old EXCEPT !.ok = FALSE]
    BY <1>4, Applied
  <2> QED
    BY <2>1
<1> QED
  BY <1>1, <1>2, <1>3, <1>4

(* A field read through a key is read the same when lines under other names *)
(* are added.                                                               *)
LEMMA ReadLonger ==
  ASSUME NEW f, IsSeq(f), NEW names, NEW more, Lines(more, names), NEW params, IsSeq(params),
         \E i \in DOMAIN params : params[i].p = "key",
         \A i \in DOMAIN params : params[i].p = "key" => params[i].arg \notin names,
         AllApplied([ok |-> TRUE, field |-> f], params).ok
  PROVE  IsTheSame(AllApplied([ok |-> TRUE, field |-> f], params),
                   AllApplied([ok |-> TRUE, field |-> f \o more], params))
<1> DEFINE N == Len(params)
           Keyed(n) == \E i \in 1..n : params[i].p = "key"
<1>1. N \in Nat /\ DOMAIN params = 1..N
  BY SeqIsSeq DEF IsSeq
<1>2. PICK a0, b0 : a0 = [ok |-> TRUE, field |-> f] /\ b0 = [ok |-> TRUE, field |-> f \o more]
  OBVIOUS
<1>3. PICK old : AllApplied(a0, params) = old[N] /\ Unfolds(old, a0, params)
  BY ParamsApplied
<1>4. PICK new : AllApplied(b0, params) = new[N] /\ Unfolds(new, b0, params)
  BY ParamsApplied
<1>5. /\ old[0] = a0 /\ new[0] = b0
      /\ \A n \in 0..N : n < N => old[n + 1] = ApplyParam(old[n], params[n + 1])
      /\ \A n \in 0..N : n < N => new[n + 1] = ApplyParam(new[n], params[n + 1])
  BY <1>3, <1>4 DEF Unfolds
<1> HIDE DEF N
<1> DEFINE Related(n) ==
             /\ "ok" \in DOMAIN old[n]
             /\ old[n].ok => IF Keyed(n) THEN IsTheSame(old[n], new[n])
                             ELSE GoesAlong(old[n], new[n], more)
           T == {n \in 0..N : Related(n)}
<1>6. Related(0)
  <2>1. ~Keyed(0)
    OBVIOUS
  <2>2. old[0] = a0 /\ new[0] = b0
    BY <1>5
  <2>3. GoesAlong(a0, b0, more) /\ "ok" \in DOMAIN a0
    BY <1>2 DEF GoesAlong
  <2> HIDE DEF Keyed
  <2> QED
    BY <2>1, <2>2, <2>3
<1>7. ASSUME NEW n \in 0..N, Related(n), n < N PROVE Related(n + 1)
  <2>1. PICK param, a, b : param = params[n + 1] /\ a = old[n] /\ b = new[n]
    OBVIOUS
  <2>2. old[n + 1] = ApplyParam(a, param) /\ new[n + 1] = ApplyParam(b, param)
    BY <1>5, <1>7, <2>1
  <2>3. Keyed(n + 1) <=> Keyed(n) \/ param.p = "key"
    BY <1>1, <2>1
  <2>4. n + 1 \in DOMAIN params
    BY <1>1, <1>7
  <2>5. param.p = "key" => param.arg \notin names
    BY <2>1, <2>4
  <2> HIDE DEF Keyed
  <2>6. "ok" \in DOMAIN a /\ (a.ok => IF Keyed(n) THEN IsTheSame(a, b) ELSE GoesAlong(a, b, more))
    BY <1>7, <2>1
  <2>7. "ok" \in DOMAIN ApplyParam(a, param)
    <3>1. CASE param.p \in {"req", "sf", "key"}
      BY <2>6, <3>1, Applied
    <3>2. CASE param.p \notin {"req", "sf", "key"}
      BY <2>6, <3>2, Applied
    <3> QED
      BY <3>1, <3>2
  <2>8. ASSUME ApplyParam(a, param).ok
        PROVE  IF Keyed(n + 1) THEN IsTheSame(ApplyParam(a, param), ApplyParam(b, param))
               ELSE GoesAlong(ApplyParam(a, param), ApplyParam(b, param), more)
    <3>1. /\ a.ok
          /\ IsTheSame(a, b) => IsTheSame(ApplyParam(a, param), ApplyParam(b, param))
          /\ GoesAlong(a, b, more) =>
               IF param.p = "key" THEN IsTheSame(ApplyParam(a, param), ApplyParam(b, param))
               ELSE GoesAlong(ApplyParam(a, param), ApplyParam(b, param), more)
      BY <2>5, <2>6, <2>8, AppliedLonger
    <3> QED
      BY <2>3, <2>6, <3>1
  <2> QED
    BY <2>2, <2>7, <2>8
<1>8. Keyed(N)
  BY <1>1
<1> HIDE DEF Related
<1>9. 0 \in T /\ \A n \in 0..N : n \in T /\ n < N => n + 1 \in T
  BY <1>1, <1>6, <1>7
<1>10. N \in Nat
  BY <1>1
<1> HIDE DEF T, Keyed
<1>11. N \in T
  BY <1>9, <1>10, Upwards
<1>12. Related(N)
  BY <1>11 DEF T
<1>13. AllApplied(a0, params) = old[N] /\ AllApplied(b0, params) = new[N]
  BY <1>3, <1>4
<1> QED
  BY <1>2, <1>8, <1>12, <1>13 DEF Related

-----------------------------------------------------------------------------
(* A message that is the same but for new lines in some of its fields.      *)
GrowsTo(old, new, fields, names) ==
  /\ new.kind = old.kind
  /\ IF old.kind = "request" THEN new.method = old.method /\ new.uri = old.uri
                             ELSE new.status = old.status
  /\ DOMAIN new.headers = DOMAIN old.headers
  /\ \A f \in DOMAIN old.headers : f \notin fields => new.headers[f] = old.headers[f]
  /\ \A f \in fields :
       IsSeq(old.headers[f])
         /\ \E more : Lines(more, names) /\ new.headers[f] = old.headers[f] \o more

(* What the new lines are not read for: other fields, and keys that are not *)
(* theirs.                                                                  *)
ReadsOthers(id, fields, names) ==
  /\ id.name # "@signature-params"
  /\ ToLower(id.name) \in fields =>
       /\ \E i \in DOMAIN id.params : id.params[i].p = "key"
       /\ \A i \in DOMAIN id.params : id.params[i].p = "key" => id.params[i].arg \notin names

LEMMA FieldGrows ==
  ASSUME NEW old, NEW new, NEW fields, NEW names, GrowsTo(old, new, fields, names),
         NEW id, IsSeq(id.params), ReadsOthers(id, fields, names), HttpFieldOk(old, id)
  PROVE  HttpFieldOk(new, id) /\ HttpFieldValue(new, id) = HttpFieldValue(old, id)
<1> DEFINE f == FieldOf(old.headers, id.name)
           g == FieldOf(new.headers, id.name)
           Folded(field) == AllApplied([ok |-> TRUE, field |-> field], id.params)
<1>1. /\ IsText(f) /\ Folded(f).ok
      /\ HttpFieldOk(new, id) <=> IsText(g) /\ Folded(g).ok
      /\ HttpFieldValue(old, id) = Joined(Folded(f).field)
      /\ HttpFieldValue(new, id) = Joined(Folded(g).field)
  BY DEF HttpFieldOk, HttpFieldValue, HttpField, AllApplied
<1>2. CASE ToLower(id.name) \notin fields \/ ToLower(id.name) \notin DOMAIN old.headers
  <2>1. g = f
    BY <1>2 DEF FieldOf, GrowsTo
  <2> HIDE DEF f, g, Folded
  <2> QED
    BY <1>1, <2>1
<1>3. CASE ToLower(id.name) \in fields /\ ToLower(id.name) \in DOMAIN old.headers
  <2>1. f = old.headers[ToLower(id.name)] /\ g = new.headers[ToLower(id.name)]
    BY <1>3 DEF FieldOf, GrowsTo
  <2>2. PICK more : Lines(more, names) /\ g = f \o more
    BY <1>3, <2>1 DEF GrowsTo
  <2>3. IsSeq(f)
    BY <1>3, <2>1 DEF GrowsTo
  <2>4. /\ \E i \in DOMAIN id.params : id.params[i].p = "key"
        /\ \A i \in DOMAIN id.params : id.params[i].p = "key" => id.params[i].arg \notin names
    BY <1>3 DEF ReadsOthers
  <2> HIDE DEF f, g
  <2>5. IsTheSame(Folded(f), Folded(g))
    BY <1>1, <2>2, <2>3, <2>4, ReadLonger
  <2>6. IsText(g)
    BY <1>1, <2>2, <2>3, ParsesLonger
  <2> HIDE DEF Folded
  <2> QED
    BY <1>1, <2>5, <2>6 DEF IsTheSame
<1> QED
  BY <1>2, <1>3

LEMMA DerivedGrows ==
  ASSUME NEW old, NEW new, NEW fields, NEW names, GrowsTo(old, new, fields, names),
         NEW id, id.name \in DerivedComponentName, ReadsOthers(id, fields, names), DerivedOk(old, id)
  PROVE  DerivedOk(new, id) /\ DerivedValue(new, id) = DerivedValue(old, id)
<1>1. new.kind = old.kind /\ DerivedAllowed(new, id) /\ id.name # "@signature-params"
  BY DEF GrowsTo, DerivedOk, DerivedAllowed, ReadsOthers
<1>2. CASE old.kind = "request"
  <2>1. new.method = old.method /\ new.uri = old.uri /\ id.name # "@status"
    BY <1>2 DEF GrowsTo, DerivedOk, DerivedAllowed
  <2>2. DerivedBuilds(new, id)
    BY <1>1, <2>1 DEF DerivedOk, DerivedBuilds, QueryParts
  <2>3. QueryParamValue(new, NameArg(id)) = QueryParamValue(old, NameArg(id))
    <3> DEFINE Parts(uri) == IF uri.query.present
                             THEN Selected(uri.query.parts,
                                           {i \in DOMAIN uri.query.parts : uri.query.parts[i] # <<"">>})
                             ELSE <<>>
               Named(parts, name) ==
                 LET named == PartsNamed(parts, name)
                 IN  IF named = <<<<name, "">>>> THEN <<>> ELSE [n \in DOMAIN named |-> <<named[n][2]>>]
    <3>1. \A msg, name : QueryParamValue(msg, name) = Named(Parts(msg.uri), name)
      BY Zenon DEF QueryParamValue, QueryParts
    <3> HIDE DEF Parts, Named
    <3> QED
      BY <2>1, <3>1
  <2>4. RequestTarget(new) = RequestTarget(old)
    BY <2>1, Zenon DEF RequestTarget
  <2>5. DerivedValue(new, id) = DerivedValue(old, id)
    BY <1>1, <2>1, <2>3, <2>4, Zenon DEF DerivedValue, DerivedComponentName
  <2> QED
    BY <1>1, <2>2, <2>5 DEF DerivedOk
<1>3. CASE old.kind # "request"
  <2>1. new.status = old.status /\ id.name = "@status"
    BY <1>1, <1>3 DEF GrowsTo, DerivedOk, DerivedAllowed
  <2>2. DerivedBuilds(new, id)
    BY <2>1 DEF DerivedBuilds
  <2>3. DerivedValue(new, id) = DerivedValue(old, id)
    BY <2>1 DEF DerivedValue
  <2> QED
    BY <1>1, <2>2, <2>3 DEF DerivedOk
<1> QED
  BY <1>2, <1>3

(* A component that does not read the new lines is what it was.             *)
LEMMA ComponentGrows ==
  ASSUME NEW old, NEW new, NEW fields, NEW names, GrowsTo(old, new, fields, names),
         NEW id, IsSeq(id.params), ReadsOthers(id, fields, names),
         NEW req, ComponentOk(old, id, req)
  PROVE  ComponentOk(new, id, req) /\ ComponentValue(new, id, req) = ComponentValue(old, id, req)
<1>1. new.kind = old.kind
  BY DEF GrowsTo
<1>2. CASE HasParam(id, "req")
  BY <1>1, <1>2 DEF ComponentOk, ComponentValue, Source
<1>3. CASE ~HasParam(id, "req")
  <2>1. Source(old, id, req) = old /\ Source(new, id, req) = new
    BY <1>3 DEF Source
  <2>2. /\ ExtractOk(old, id)
        /\ ComponentOk(new, id, req) <=> ExtractOk(new, id)
        /\ ComponentValue(old, id, req) = ExtractValue(old, id)
        /\ ComponentValue(new, id, req) = ExtractValue(new, id)
    BY <1>3, <2>1 DEF ComponentOk, ComponentValue
  <2>3. CASE id.name \in DerivedComponentName
    BY <2>2, <2>3, DerivedGrows DEF ExtractOk, ExtractValue
  <2>4. CASE id.name \notin DerivedComponentName
    BY <2>2, <2>4, FieldGrows DEF ExtractOk, ExtractValue
  <2> QED
    BY <2>3, <2>4
<1> QED
  BY <1>2, <1>3
=============================================================================
