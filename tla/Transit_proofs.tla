---------------------------- MODULE Transit_proofs -----------------------------
(***************************************************************************)
(* Theorems about Transit, for every value of its constants.                *)
(***************************************************************************)
EXTENDS Transit, ComponentsFacts

-----------------------------------------------------------------------------
(* Positions that are selected                                              *)

(* The positions of a set in their order.                                   *)
Enumerates(pos, n, at) ==
  /\ pos \in [1..n -> at]
  /\ \A l, m \in 1..n : l < m => pos[l] < pos[m]
  /\ \A i \in at : \E m \in 1..n : pos[m] = i

(* r is what s has at these positions.                                      *)
TakenAt(pos, r, s, at) ==
  /\ Enumerates(pos, Len(r), at)
  /\ \A n \in 1..Len(r) : r[n] = s[pos[n]]

LEMMA SelectedTakes ==
  ASSUME NEW s, IsSeq(s), NEW at, at \subseteq DOMAIN s
  PROVE  /\ IsSeq(Selected(s, at)) /\ Len(Selected(s, at)) \in Nat
         /\ DOMAIN Selected(s, at) = 1..Len(Selected(s, at))
         /\ \E pos : TakenAt(pos, Selected(s, at), s, at)
<1> DEFINE r == Selected(s, at)
<1>1. IsSeq(r) /\ Len(r) \in Nat /\ DOMAIN r = 1..Len(r)
  BY SelectedIsSeq
<1>2. PICK pos : Picks(pos, r, s, at, Len(s))
  BY SelectedPicks
<1>3. \A i \in at : i <= Len(s)
  BY SeqIsSeq DEF IsSeq
<1> HIDE DEF r
<1>4. TakenAt(pos, r, s, at)
  BY <1>2, <1>3 DEF Picks, TakenAt, Enumerates
<1> QED
  BY <1>1, <1>4 DEF r

(* There is one such order.                                                 *)
Agree(p, q, n) == \A i \in 1..n : q[i] = p[i]

LEMMA EnumerationUnique ==
  ASSUME NEW at, at \subseteq Nat, NEW m \in Nat, NEW n \in Nat, NEW p, NEW q,
         Enumerates(p, m, at), Enumerates(q, n, at)
  PROVE  m <= n /\ Agree(p, q, m)
<1>1. /\ \A i \in 1..m : p[i] \in at /\ p[i] \in Nat
      /\ \A i \in 1..n : q[i] \in at /\ q[i] \in Nat
      /\ \A i, j \in 1..m : i < j => p[i] < p[j]
      /\ \A i, j \in 1..n : i < j => q[i] < q[j]
      /\ \A x \in at : (\E i \in 1..m : p[i] = x) /\ (\E i \in 1..n : q[i] = x)
  BY DEF Enumerates
<1> DEFINE Bad == {i \in 1..m : i > n \/ q[i] # p[i]}
<1>2. SUFFICES ASSUME Bad # {} PROVE FALSE
  <2>1. Bad = {} => \A i \in 1..m : i <= n /\ q[i] = p[i]
    OBVIOUS
  <2>2. m = 0 \/ m \in 1..m
    OBVIOUS
  <2> HIDE DEF Bad
  <2> QED
    BY <2>1, <2>2 DEF Agree
<1>3. PICK b \in Bad : \A i \in Bad : b <= i
  <2>1. Bad \subseteq Nat
    OBVIOUS
  <2> HIDE DEF Bad
  <2> QED
    BY <1>2, <2>1, LeastElement
<1>4. b \in 1..m /\ \A i \in 1..m : i < b => i <= n /\ q[i] = p[i]
  BY <1>3
<1>5. PICK j \in 1..n : q[j] = p[b]
  BY <1>1, <1>4
<1>6. ~(j < b)
  <2>1. j < b => j \in 1..m /\ q[j] = p[j] /\ p[j] < p[b]
    BY <1>1, <1>4
  <2> QED
    BY <1>1, <1>4, <1>5, <2>1
<1>7. b \in 1..n
  BY <1>4, <1>6
<1>8. PICK k \in 1..m : p[k] = q[b]
  BY <1>1, <1>7
<1>9. ~(k < b)
  <2>1. k < b => k \in 1..n /\ q[k] = p[k] /\ q[k] < q[b]
    BY <1>1, <1>4, <1>7
  <2> QED
    BY <1>1, <1>7, <1>8, <2>1
<1>10. q[b] <= q[j] /\ p[b] <= p[k]
  BY <1>1, <1>4, <1>6, <1>7, <1>9
<1>11. q[b] = p[b]
  BY <1>1, <1>4, <1>5, <1>7, <1>8, <1>10
<1> QED
  BY <1>3, <1>7, <1>11

LEMMA SameTaken ==
  ASSUME NEW at, at \subseteq Nat, NEW r, IsSeq(r), NEW t, IsSeq(t), NEW p, NEW q, NEW s, NEW u,
         TakenAt(p, r, s, at), TakenAt(q, t, u, at)
  PROVE  Len(r) = Len(t) /\ Agree(p, q, Len(r))
<1>1. Len(r) \in Nat /\ Len(t) \in Nat
  BY SeqIsSeq DEF IsSeq
<1>2. Len(r) <= Len(t) /\ Len(t) <= Len(r) /\ Agree(p, q, Len(r))
  <2>1. PICK m \in Nat, n \in Nat : m = Len(r) /\ n = Len(t)
    BY <1>1
  <2>2. Enumerates(p, m, at) /\ Enumerates(q, n, at)
    BY <2>1 DEF TakenAt
  <2>3. m <= n /\ Agree(p, q, m)
    BY <2>2, EnumerationUnique
  <2>4. n <= m
    BY <2>2, EnumerationUnique
  <2> QED
    BY <2>1, <2>3, <2>4
<1> QED
  BY <1>1, <1>2

(* What is selected from the same positions is the same.                    *)
LEMMA SelectedOnly ==
  ASSUME NEW s, IsSeq(s), NEW at, at \subseteq DOMAIN s, NEW r, IsSeq(r),
         NEW p, TakenAt(p, r, s, at)
  PROVE  Selected(s, at) = r
<1> DEFINE t == Selected(s, at)
<1>1. /\ IsSeq(t) /\ DOMAIN t = 1..Len(t) /\ DOMAIN r = 1..Len(r) /\ at \subseteq Nat
      /\ t = [i \in DOMAIN t |-> t[i]] /\ r = [i \in DOMAIN r |-> r[i]]
  <2>1. IsSeq(t)
    BY SelectedTakes
  <2> HIDE DEF t
  <2> QED
    BY <2>1, SeqIsSeq DEF IsSeq
<1>2. PICK q : TakenAt(q, t, s, at)
  BY SelectedTakes
<1> HIDE DEF t
<1>3. Len(t) = Len(r) /\ \A i \in 1..Len(t) : t[i] = r[i]
  <2>1. Len(t) = Len(r) /\ Agree(q, p, Len(t))
    BY <1>1, <1>2, SameTaken
  <2> QED
    BY <1>2, <2>1 DEF Agree, TakenAt
<1>4. t = r
  BY <1>1, <1>3
<1> QED
  BY <1>4 DEF t

(* Selecting twice is selecting once.                                       *)
LEMMA SelectedTwice ==
  ASSUME NEW s, IsSeq(s), NEW at, at \subseteq DOMAIN s, NEW r, IsSeq(r), NEW p, TakenAt(p, r, s, at),
         NEW inner, inner \subseteq DOMAIN r, NEW in, in \subseteq at,
         \A n \in DOMAIN r : n \in inner <=> p[n] \in in
  PROVE  Selected(r, inner) = Selected(s, in)
<1> DEFINE t == Selected(r, inner)
<1>1. IsSeq(t) /\ Len(t) \in Nat
  BY SelectedTakes
<1>2. PICK q : TakenAt(q, t, r, inner)
  BY SelectedTakes
<1> HIDE DEF t
<1>3. DOMAIN r = 1..Len(r) /\ DOMAIN s = 1..Len(s) /\ Len(r) \in Nat
  BY SeqIsSeq DEF IsSeq
<1> DEFINE pq == [n \in 1..Len(t) |-> p[q[n]]]
<1>4. \A n \in 1..Len(t) : pq[n] = p[q[n]] /\ q[n] \in inner /\ q[n] \in 1..Len(r) /\ t[n] = r[q[n]]
  BY <1>2, <1>3 DEF TakenAt, Enumerates
<1>5. \A n \in 1..Len(r) : r[n] = s[p[n]] /\ p[n] \in at
  BY DEF TakenAt, Enumerates
<1>6. pq \in [1..Len(t) -> in]
  BY <1>3, <1>4
<1> HIDE DEF pq
<1>7. \A l, m \in 1..Len(t) : l < m => pq[l] < pq[m]
  <2> SUFFICES ASSUME NEW l \in 1..Len(t), NEW m \in 1..Len(t), l < m PROVE pq[l] < pq[m]
    OBVIOUS
  <2>1. q[l] < q[m]
    BY <1>2 DEF TakenAt, Enumerates
  <2> QED
    BY <1>4, <2>1 DEF TakenAt, Enumerates
<1>8. ASSUME NEW i \in in PROVE \E n \in 1..Len(t) : pq[n] = i
  <2>1. PICK m \in 1..Len(r) : p[m] = i
    BY DEF TakenAt, Enumerates
  <2>2. PICK n \in 1..Len(t) : q[n] = m
    BY <1>2, <1>3, <2>1 DEF TakenAt, Enumerates
  <2> QED
    BY <1>4, <2>1, <2>2
<1>9. TakenAt(pq, t, s, in)
  BY <1>4, <1>5, <1>6, <1>7, <1>8 DEF TakenAt, Enumerates
<1>10. in \subseteq DOMAIN s
  OBVIOUS
<1>11. Selected(s, in) = t
  BY <1>1, <1>9, <1>10, SelectedOnly
<1> QED
  BY <1>11 DEF t

-----------------------------------------------------------------------------
(* Query parameters                                                         *)

LEMMA QueryNamed ==
  ASSUME NEW m, IsRequest(m), NEW name
  PROVE  PartsNamed(QueryParts(m), name) = PartsNamed(m.uri.query.parts, name)
<1> DEFINE parts == m.uri.query.parts
           at == {i \in DOMAIN parts : parts[i] # <<"">>}
           in == {i \in DOMAIN parts : Len(parts[i]) = 2 /\ parts[i][1] = name}
           r == Selected(parts, at)
           inner == {i \in DOMAIN r : Len(r[i]) = 2 /\ r[i][1] = name}
<1>1. CASE ~m.uri.query.present
  BY <1>1 DEF IsRequest, QueryParts
<1>2. CASE m.uri.query.present
  <2>1. IsSeq(parts) /\ QueryParts(m) = r
    BY <1>2 DEF IsRequest, QueryParts
  <2>2. PartsNamed(r, name) = Selected(r, inner) /\ PartsNamed(parts, name) = Selected(parts, in)
    BY DEF PartsNamed
  <2>3. in \subseteq at /\ at \subseteq DOMAIN parts /\ inner \subseteq DOMAIN r
    <3>1. PICK empty : empty = <<"">>
      OBVIOUS
    <3>2. Len(empty) = 1
      BY <3>1
    <3> HIDE DEF parts
    <3>3. \A i \in DOMAIN parts : Len(parts[i]) = 2 => parts[i] # empty
      BY <3>2
    <3> QED
      BY <3>1, <3>3
  <2> HIDE DEF parts
  <2>4. PICK p : TakenAt(p, r, parts, at)
    BY <2>1, <2>3, SelectedTakes
  <2>5. IsSeq(r) /\ DOMAIN r = 1..Len(r)
    BY <2>1, <2>3, SelectedTakes
  <2>6. \A n \in DOMAIN r : n \in inner <=> p[n] \in in
    <3>1. \A n \in 1..Len(r) : r[n] = parts[p[n]] /\ p[n] \in DOMAIN parts
      BY <2>3, <2>4 DEF TakenAt, Enumerates
    <3> HIDE DEF r
    <3> QED
      BY <2>5, <3>1
  <2> HIDE DEF r, at, in, inner
  <2>7. Selected(r, inner) = Selected(parts, in)
    BY <2>1, <2>3, <2>4, <2>5, <2>6, SelectedTwice
  <2> QED
    BY <2>1, <2>2, <2>7 DEF parts
<1> QED
  BY <1>1, <1>2

(* The value that is signed is the meaning, or empty for an empty one.      *)
LEMMA OneTuple ==
  ASSUME NEW x, NEW t, IsSeq(t)
  PROVE  t = <<x>> <=> DOMAIN t = {1} /\ t[1] = x
<1>1. IsSeq(t) => t = [i \in DOMAIN t |-> t[i]]
  BY DEF IsSeq
<1>2. <<x>> = [i \in {1} |-> x]
  OBVIOUS
<1> QED
  BY <1>1, <1>2

LEMMA PairTuple ==
  ASSUME NEW x, NEW y, NEW t, IsSeq(t)
  PROVE  t = <<x, y>> <=> Len(t) = 2 /\ t[1] = x /\ t[2] = y
<1>1. t = <<x, y>> => Len(t) = 2 /\ t[1] = x /\ t[2] = y
  OBVIOUS
<1>2. ASSUME Len(t) = 2, t[1] = x, t[2] = y PROVE t = <<x, y>>
  BY <1>2 DEF IsSeq
<1> QED
  BY <1>1, <1>2

LEMMA PairNamed ==
  ASSUME NEW name, NEW e, NEW x, IsSeq(x), Len(x) = 2, x[1] = name
  PROVE  x = <<name, e>> <=> x[2] = e
BY PairTuple

LEMMA ValuesOf ==
  ASSUME NEW named, IsSeq(named), NEW name, NEW e,
         \A n \in DOMAIN named : IsSeq(named[n]) /\ Len(named[n]) = 2 /\ named[n][1] = name,
         NEW values, values = [n \in DOMAIN named |-> <<named[n][2]>>]
  PROVE  /\ named = <<>> <=> values = <<>>
         /\ named = <<<<name, e>>>> <=> values = <<<<e>>>>
<1>1. /\ IsSeq(values) /\ DOMAIN values = DOMAIN named
      /\ Len(named) \in Nat /\ DOMAIN named = 1..Len(named)
  <2>1. Len(named) \in Nat /\ DOMAIN named = 1..Len(named)
    BY SeqIsSeq DEF IsSeq
  <2>2. values = [n \in 1..Len(named) |-> values[n]]
    BY <2>1
  <2>3. DOMAIN values = DOMAIN named
    OBVIOUS
  <2> QED
    BY <2>1, <2>2, <2>3, FunIsSeq
<1>2. named = <<>> <=> values = <<>>
  <2>1. \A t : IsSeq(t) => (t = <<>> <=> DOMAIN t = {})
    BY EmptyIsSeq DEF IsSeq
  <2> QED
    BY <1>1, <2>1
<1>3. PICK pair, empty : pair = <<name, e>> /\ empty = <<e>>
  OBVIOUS
<1>4. 1 \in DOMAIN named => (named[1] = pair <=> named[1][2] = e)
  <2> SUFFICES ASSUME 1 \in DOMAIN named PROVE named[1] = pair <=> named[1][2] = e
    OBVIOUS
  <2>1. PICK x : x = named[1]
    OBVIOUS
  <2>2. IsSeq(x) /\ Len(x) = 2 /\ x[1] = name
    BY <2>1
  <2>3. x = pair <=> x[2] = e
    BY <1>3, <2>2, PairNamed
  <2> QED
    BY <2>1, <2>3
<1>5. 1 \in DOMAIN named => (values[1] = empty <=> named[1][2] = e)
  BY <1>3
<1>6. named = <<pair>> <=> values = <<empty>>
  <2>1. named = <<pair>> <=> DOMAIN named = {1} /\ named[1] = pair
    BY OneTuple
  <2>2. values = <<empty>> <=> DOMAIN values = {1} /\ values[1] = empty
    BY <1>1, OneTuple
  <2> QED
    BY <1>1, <1>4, <1>5, <2>1, <2>2
<1> QED
  BY <1>2, <1>3, <1>6

NoValue == ""

LEMMA QueryMeans ==
  ASSUME NEW m, IsRequest(m), NEW name
  PROVE  LET meaning == Named(m.uri.query.parts, name)
         IN  /\ meaning # <<>>
             /\ QueryParamValue(m, name) = IF meaning = <<<<"">>>> THEN <<>> ELSE meaning
<1> DEFINE parts == m.uri.query.parts
           at == {i \in DOMAIN parts : Len(parts[i]) = 2 /\ parts[i][1] = name}
           named == Selected(parts, at)
           values == [n \in DOMAIN named |-> <<named[n][2]>>]
           line == QueryParamValue(m, name)
           meaning == Named(parts, name)
<1>1. line = IF named = <<<<name, "">>>> THEN <<>> ELSE values
  <2>1. PartsNamed(QueryParts(m), name) = PartsNamed(parts, name)
    BY QueryNamed
  <2>2. PartsNamed(parts, name) = named
    BY DEF PartsNamed
  <2> HIDE DEF named
  <2> QED
    BY <2>1, <2>2, Zenon DEF QueryParamValue
<1>2. meaning = IF named = <<>> THEN <<<<"">>>> ELSE values
  BY DEF Named
<1>3. IsSeq(parts) /\ \A i \in DOMAIN parts : IsPart(parts[i])
  BY DEF IsRequest
<1>4. at \subseteq DOMAIN parts
  OBVIOUS
<1> HIDE DEF parts
<1>5. IsSeq(named) /\ DOMAIN named = 1..Len(named)
  BY <1>3, <1>4, SelectedTakes
<1>6. PICK p : TakenAt(p, named, parts, at)
  BY <1>3, <1>4, SelectedTakes
<1> HIDE DEF named
<1>7. \A n \in DOMAIN named : IsSeq(named[n]) /\ Len(named[n]) = 2 /\ named[n][1] = name
  BY <1>3, <1>5, <1>6 DEF TakenAt, Enumerates, IsPart
<1>8. (named = <<>> <=> values = <<>>) /\ (named = <<<<name, "">>>> <=> values = <<<<"">>>>)
  <2>1. (named = <<>> <=> values = <<>>) /\ (named = <<<<name, NoValue>>>> <=> values = <<<<NoValue>>>>)
    <3>1. PICK v : v = values
      OBVIOUS
    <3>2. v = [n \in DOMAIN named |-> <<named[n][2]>>]
      BY <3>1
    <3> HIDE DEF values
    <3>3. (named = <<>> <=> v = <<>>) /\ (named = <<<<name, NoValue>>>> <=> v = <<<<NoValue>>>>)
      BY <1>5, <1>7, <3>2, ValuesOf
    <3> QED
      BY <3>1, <3>3
  <2> QED
    BY <2>1 DEF NoValue
<1>9. PICK one : one = <<<<"">>>>
  OBVIOUS
<1>10. one # <<>>
  BY <1>9
<1> HIDE DEF values, line, meaning
<1>11. meaning # <<>> /\ line = IF meaning = one THEN <<>> ELSE meaning
  BY <1>1, <1>2, <1>8, <1>9, <1>10, Zenon
<1> QED
  BY <1>9, <1>11, Zenon DEF line, meaning, parts

-----------------------------------------------------------------------------
(* Fields written anew                                                      *)

LEMMA FieldIs ==
  ASSUME NEW f, IsField(f)
  PROVE  /\ IsSeq(f) /\ Len(f) \in Nat /\ DOMAIN f = 1..Len(f) /\ DOMAIN f \subseteq Nat
         /\ \A i \in DOMAIN f : IsMember(f[i])
<1>1. IsSeq(f) /\ \A i \in DOMAIN f : IsMember(f[i])
  BY DEF IsField
<1>2. Len(f) \in Nat /\ DOMAIN f = 1..Len(f)
  BY <1>1, SeqIsSeq DEF IsSeq
<1> QED
  BY <1>1, <1>2

LEMMA MemberWritten ==
  ASSUME NEW m, IsMember(m), NEW v
  PROVE  LET w == [m EXCEPT !.val = v]
         IN  /\ IsMember(w) /\ w.val = v
             /\ w.key = m.key /\ w.form = m.form /\ w.first = m.first
<1> DEFINE w == [m EXCEPT !.val = v]
<1>1. /\ DOMAIN w = DOMAIN m /\ w.val = v
      /\ w.key = m.key /\ w.form = m.form /\ w.first = m.first
  BY DEF IsMember
<1> HIDE DEF w
<1>2. IsMember(w)
  BY <1>1 DEF IsMember
<1> QED
  BY <1>1, <1>2 DEF w

LEMMA CanonicalTwice == \A val : Canonical(Canonical(val)) = Canonical(val)
<1> SUFFICES ASSUME NEW val PROVE Canonical(Canonical(val)) = Canonical(val)
  OBVIOUS
<1>1. CASE val[1] = "loose"
  <2>1. PICK c : c = <<"token", val[2]>>
    OBVIOUS
  <2>2. Canonical(val) = c /\ c[1] = "token"
    BY <1>1, <2>1 DEF Canonical
  <2> QED
    BY <2>2 DEF Canonical
<1>2. CASE val[1] # "loose"
  BY <1>2 DEF Canonical
<1> QED
  BY <1>1, <1>2

SameEntry(f, i, j) == ~OnListLine(f, i) /\ SameLine(f, i, j) /\ f[i].key = f[j].key
LastOnLine(f, i) ==
  CHOOSE j \in DOMAIN f : /\ j = i \/ SameEntry(f, i, j)
                          /\ \A m \in DOMAIN f : m > j => ~SameEntry(f, i, m)

(* Every member with its new value, and the members that are written.       *)
Anew(f) == [i \in DOMAIN f |-> [f[i] EXCEPT !.val = Canonical(f[LastOnLine(f, i)].val)]]
SfAt(f) == {i \in DOMAIN f : \A j \in DOMAIN f : j < i => ~SameEntry(f, i, j)}

LEMMA SfFieldIs == \A f : SfField(f) = Selected(Anew(f), SfAt(f))
BY DEF SfField, Anew, SfAt, LastOnLine, SameEntry

LEMMA AnewIs ==
  ASSUME NEW f, IsField(f)
  PROVE  /\ IsField(Anew(f)) /\ Len(Anew(f)) = Len(f) /\ DOMAIN Anew(f) = DOMAIN f
         /\ \A i \in DOMAIN f :
              /\ Anew(f)[i].key = f[i].key /\ Anew(f)[i].form = f[i].form
              /\ Anew(f)[i].first = f[i].first
              /\ Anew(f)[i].val = Canonical(f[LastOnLine(f, i)].val)
<1> DEFINE a == Anew(f)
<1>1. \A i \in DOMAIN f : a[i] = [f[i] EXCEPT !.val = Canonical(f[LastOnLine(f, i)].val)]
  BY DEF Anew
<1>2. \A i \in DOMAIN f : /\ IsMember(a[i]) /\ a[i].key = f[i].key /\ a[i].form = f[i].form
                          /\ a[i].first = f[i].first
                          /\ a[i].val = Canonical(f[LastOnLine(f, i)].val)
  <2> SUFFICES ASSUME NEW i \in DOMAIN f
               PROVE  /\ IsMember(a[i]) /\ a[i].key = f[i].key /\ a[i].form = f[i].form
                      /\ a[i].first = f[i].first
                      /\ a[i].val = Canonical(f[LastOnLine(f, i)].val)
    OBVIOUS
  <2>1. PICK m, v : m = f[i] /\ v = Canonical(f[LastOnLine(f, i)].val)
    OBVIOUS
  <2>2. IsMember(m) /\ a[i] = [m EXCEPT !.val = v]
    BY <1>1, <2>1, FieldIs
  <2> HIDE DEF a
  <2>3. IsMember(a[i]) /\ a[i].val = v /\ a[i].key = m.key /\ a[i].form = m.form
        /\ a[i].first = m.first
    BY <2>2, MemberWritten
  <2> QED
    BY <2>1, <2>3
<1>3. DOMAIN a = DOMAIN f /\ a = [i \in DOMAIN f |-> a[i]]
  BY DEF Anew
<1> HIDE DEF a
<1>4. IsSeq(a) /\ Len(a) = Len(f)
  BY <1>3, FieldIs, FunIsSeq
<1>5. IsField(a)
  BY <1>2, <1>3, <1>4 DEF IsField
<1> QED
  BY <1>2, <1>3, <1>4, <1>5 DEF a

LEMMA SfFieldTakes ==
  ASSUME NEW f, IsField(f)
  PROVE  /\ IsField(SfField(f))
         /\ \E p : TakenAt(p, SfField(f), Anew(f), SfAt(f))
<1> DEFINE g == SfField(f)
<1>1. g = Selected(Anew(f), SfAt(f))
  BY SfFieldIs
<1>2. SfAt(f) \subseteq DOMAIN Anew(f) /\ IsSeq(Anew(f)) /\ \A i \in DOMAIN Anew(f) : IsMember(Anew(f)[i])
  BY AnewIs, FieldIs DEF SfAt
<1> HIDE DEF g
<1>3. IsSeq(g) /\ DOMAIN g = 1..Len(g)
  BY <1>1, <1>2, SelectedTakes
<1>4. PICK p : TakenAt(p, g, Anew(f), SfAt(f))
  BY <1>1, <1>2, SelectedTakes
<1>5. \A n \in DOMAIN g : g[n] = Anew(f)[p[n]] /\ p[n] \in DOMAIN Anew(f)
  BY <1>2, <1>3, <1>4 DEF TakenAt, Enumerates
<1>6. IsField(g)
  BY <1>2, <1>3, <1>5 DEF IsField
<1> QED
  BY <1>4, <1>6 DEF g

(* What it says of each member.                                             *)
LEMMA SfTaken ==
  ASSUME NEW f, IsField(f), NEW g, g = SfField(f), NEW p, TakenAt(p, g, Anew(f), SfAt(f))
  PROVE  /\ IsField(g)
         /\ \A n \in DOMAIN g :
              /\ p[n] \in SfAt(f) /\ p[n] \in DOMAIN f
              /\ g[n].key = f[p[n]].key /\ g[n].form = f[p[n]].form
              /\ g[n].first = f[p[n]].first
              /\ g[n].val = Canonical(f[LastOnLine(f, p[n])].val)
         /\ \A m, n \in DOMAIN g : m < n => p[m] < p[n]
         /\ \A i \in SfAt(f) : \E n \in DOMAIN g : p[n] = i
<1>1. IsField(g) /\ DOMAIN g = 1..Len(g)
  <2>1. IsField(g)
    BY SfFieldTakes
  <2> QED
    BY <2>1, FieldIs
<1>2. \A n \in DOMAIN g : p[n] \in SfAt(f) /\ g[n] = Anew(f)[p[n]]
  BY <1>1 DEF TakenAt, Enumerates
<1>3. SfAt(f) \subseteq DOMAIN f
  BY DEF SfAt
<1>4. \A n \in DOMAIN g : /\ g[n].key = f[p[n]].key /\ g[n].form = f[p[n]].form
                          /\ g[n].first = f[p[n]].first
                          /\ g[n].val = Canonical(f[LastOnLine(f, p[n])].val)
  BY <1>2, <1>3, AnewIs
<1> QED
  BY <1>1, <1>2, <1>3, <1>4 DEF TakenAt, Enumerates

LEMMA LatestIs ==
  ASSUME NEW f, IsField(f), NEW i \in DOMAIN f, NEW l \in DOMAIN f, l = i \/ SameEntry(f, i, l),
         \A m \in DOMAIN f : m > l => ~SameEntry(f, i, m)
  PROVE  LastOnLine(f, i) = l
<1> DEFINE IsLatest(j) == /\ j = i \/ SameEntry(f, i, j)
                          /\ \A m \in DOMAIN f : m > j => ~SameEntry(f, i, m)
<1>1. SameLine(f, i, i)
  BY FieldIs DEF SameLine
<1>2. \A j : SameEntry(f, i, j) => SameEntry(f, i, i)
  BY <1>1 DEF SameEntry
<1>3. \A j \in DOMAIN f : IsLatest(j) => j = l
  BY <1>2, FieldIs
<1>4. (CHOOSE j \in DOMAIN f : IsLatest(j)) = l
  <2>1. IsLatest(l)
    OBVIOUS
  <2> HIDE DEF IsLatest
  <2> QED
    BY <1>3, <2>1
<1> QED
  BY <1>4 DEF LastOnLine

-----------------------------------------------------------------------------
(* Dictionaries written anew                                                *)

LEMMA SameLineJoins ==
  ASSUME NEW f, DOMAIN f \subseteq Nat, NEW i \in DOMAIN f, NEW j \in DOMAIN f, NEW l \in DOMAIN f,
         SameLine(f, i, j)
  PROVE  /\ SameLine(f, j, i)
         /\ SameLine(f, j, l) => SameLine(f, i, l)
         /\ (j <= l /\ l <= i => SameLine(f, l, i))
<1>1. \A m \in DOMAIN f : m \in Nat
  OBVIOUS
<1> QED
  BY <1>1 DEF SameLine

(* Every key is still there, on its line and not behind where it was, and   *)
(* on a line that is read as a list where it was.                           *)
LEMMA SfKeepsKeys ==
  ASSUME NEW f, IsField(f), IsDictionary(f), NEW g, g = SfField(f),
         NEW p, TakenAt(p, g, Anew(f), SfAt(f)), NEW i \in DOMAIN f
  PROVE  \E n \in DOMAIN g : /\ g[n].key = f[i].key /\ p[n] \in DOMAIN f
                             /\ SameLine(f, i, p[n]) /\ p[n] <= i
                             /\ OnListLine(f, i) => p[n] = i
<1> DEFINE same == {j \in DOMAIN f : SameEntry(f, i, j)}
<1>1. DOMAIN f \subseteq Nat /\ SameLine(f, i, i)
  BY FieldIs DEF SameLine
<1>2. CASE OnListLine(f, i)
  <2>1. i \in SfAt(f)
    BY <1>2 DEF SfAt, SameEntry
  <2>2. PICK n \in DOMAIN g : p[n] = i
    BY <2>1, SfTaken
  <2>3. g[n].key = f[i].key
    BY <2>2, SfTaken
  <2> QED
    BY <1>1, <2>2, <2>3
<1>3. CASE ~OnListLine(f, i)
  <2>1. i \in same
    BY <1>1, <1>3 DEF SameEntry
  <2>2. PICK j \in same : \A l \in same : j <= l
    <3>1. same \subseteq Nat /\ same # {}
      BY <1>1, <2>1
    <3> HIDE DEF same
    <3> QED
      BY <3>1, LeastElement
  <2>3. j \in DOMAIN f /\ SameLine(f, i, j) /\ f[j].key = f[i].key /\ j <= i
    BY <2>1, <2>2 DEF SameEntry
  <2>4. j \in SfAt(f)
    <3> SUFFICES ASSUME NEW l \in DOMAIN f, l < j, SameEntry(f, j, l) PROVE FALSE
      BY <2>3 DEF SfAt
    <3>1. SameLine(f, i, l) /\ f[l].key = f[i].key
      BY <1>1, <2>3, SameLineJoins DEF SameEntry
    <3>2. l \in same
      BY <1>3, <3>1 DEF SameEntry
    <3> QED
      BY <1>1, <2>2, <3>2
  <2>5. PICK n \in DOMAIN g : p[n] = j
    BY <2>4, SfTaken
  <2>6. g[n].key = f[j].key
    BY <2>5, SfTaken
  <2> QED
    BY <1>3, <2>3, <2>5, <2>6
<1> QED
  BY <1>2, <1>3

LEMMA SfDictionary ==
  ASSUME NEW f, IsField(f), IsDictionary(f)
  PROVE  IsField(SfField(f)) /\ IsDictionary(SfField(f)) /\ DictKeys(SfField(f)) = DictKeys(f)
<1> DEFINE a == Anew(f)
           g == SfField(f)
           First(s) == {i \in DOMAIN s : \A j \in DOMAIN s : j < i => s[j].key # s[i].key}
<1>1. PICK p : TakenAt(p, g, a, SfAt(f))
  BY SfFieldTakes
<1>2. /\ IsField(a) /\ Len(a) = Len(f) /\ DOMAIN a = DOMAIN f
      /\ \A i \in DOMAIN a : a[i].key = f[i].key
  BY AnewIs
<1>3. /\ IsField(g)
      /\ \A n \in DOMAIN g : /\ p[n] \in SfAt(f) /\ p[n] \in DOMAIN f
                             /\ g[n].key = f[p[n]].key /\ g[n].form = f[p[n]].form
      /\ \A m, n \in DOMAIN g : m < n => p[m] < p[n]
  BY <1>1, SfTaken
<1>4. IsDictionary(g)
  BY <1>3 DEF IsDictionary
<1>5. \A i \in DOMAIN f : \E n \in DOMAIN g : g[n].key = f[i].key /\ p[n] <= i
  BY <1>1, SfKeepsKeys
<1>6. DOMAIN f \subseteq Nat /\ DOMAIN g \subseteq Nat
  BY <1>3, FieldIs
<1> HIDE DEF a, g
<1>7. \A n \in DOMAIN g : n \in First(g) <=> p[n] \in First(a)
  <2> SUFFICES ASSUME NEW n \in DOMAIN g PROVE n \in First(g) <=> p[n] \in First(a)
    OBVIOUS
  <2>1. ASSUME n \in First(g), NEW j \in DOMAIN a, j < p[n] PROVE a[j].key # a[p[n]].key
    <3>1. PICK m \in DOMAIN g : g[m].key = f[j].key /\ p[m] <= j
      BY <1>2, <1>5
    <3>2. p[m] \in Nat /\ p[n] \in Nat /\ j \in Nat
      BY <1>2, <1>3, <1>6
    <3>3. p[m] < p[n]
      BY <2>1, <3>1, <3>2
    <3>4. ~(n < m) /\ n # m
      BY <1>3, <3>2, <3>3
    <3>5. m < n
      BY <1>6, <3>4
    <3> QED
      BY <1>2, <1>3, <2>1, <3>1, <3>5
  <2>2. ASSUME p[n] \in First(a), NEW j \in DOMAIN g, j < n PROVE g[j].key # g[n].key
    <3>1. p[j] < p[n] /\ p[j] \in DOMAIN a
      BY <1>2, <1>3, <2>2
    <3>2. a[p[j]].key # a[p[n]].key
      BY <2>2, <3>1
    <3> QED
      BY <1>2, <1>3, <3>2
  <2> QED
    BY <1>2, <1>3, <2>1, <2>2
<1>8. First(a) \subseteq SfAt(f) /\ SfAt(f) \subseteq DOMAIN a /\ First(g) \subseteq DOMAIN g
  <2>1. ASSUME NEW i \in First(a) PROVE i \in SfAt(f)
    BY <1>2, <2>1 DEF SfAt, SameEntry
  <2> QED
    BY <1>2, <2>1 DEF SfAt
<1>9. \A h : DictKeys(h) = [n \in DOMAIN Selected(h, First(h)) |-> Selected(h, First(h))[n].key]
  BY DEF DictKeys
<1> HIDE DEF First
<1>10. Selected(g, First(g)) = Selected(a, First(a))
  BY <1>1, <1>2, <1>3, <1>7, <1>8, SelectedTwice, FieldIs
<1>11. DictKeys(g) = DictKeys(a)
  BY <1>9, <1>10
<1>12. DictKeys(a) = DictKeys(f)
  <2>1. IsSeq(a) /\ IsSeq(f) /\ DOMAIN f = 1..Len(f) /\ DOMAIN a = 1..Len(a)
    BY <1>2, FieldIs
  <2>2. Alike(a, f)
    BY <1>2, <2>1 DEF Alike
  <2> QED
    BY <2>1, <2>2, DictKeysAlike
<1> QED
  BY <1>3, <1>4, <1>11, <1>12 DEF g

(* The value of a key is what it was, written anew.                         *)
LEMMA SfKeepsValues ==
  ASSUME NEW f, IsField(f), IsDictionary(f), NEW i \in DOMAIN f
  PROVE  LET g == SfField(f)
         IN  /\ \E n \in DOMAIN g : g[n].key = f[i].key
             /\ Canonical(DictValue(g, f[i].key)) = Canonical(DictValue(f, f[i].key))
<1> DEFINE g == SfField(f)
           k == f[i].key
<1>1. PICK p : TakenAt(p, g, Anew(f), SfAt(f))
  BY SfFieldTakes
<1>2. /\ IsField(g)
      /\ \A n \in DOMAIN g : /\ p[n] \in DOMAIN f /\ g[n].key = f[p[n]].key
                             /\ g[n].val = Canonical(f[LastOnLine(f, p[n])].val)
      /\ \A m, n \in DOMAIN g : m < n => p[m] < p[n]
  BY <1>1, SfTaken
<1>3. IsSeq(f) /\ IsSeq(g) /\ DOMAIN f \subseteq Nat /\ DOMAIN g \subseteq Nat
  BY <1>2, FieldIs
<1>4. PICK l \in DOMAIN f : IsLastOf(f, l, k) /\ DictValue(f, k) = f[l].val
  BY <1>3, LastOfKey
<1>5. f[l].key = k /\ \A j \in DOMAIN f : j > l => f[j].key # k
  BY <1>4 DEF IsLastOf
<1>6. PICK m \in DOMAIN g : /\ g[m].key = f[l].key /\ p[m] \in DOMAIN f
                            /\ SameLine(f, l, p[m]) /\ p[m] <= l
                            /\ OnListLine(f, l) => p[m] = l
  BY <1>1, SfKeepsKeys
<1> HIDE DEF g, k
<1>7. PICK n \in DOMAIN g : IsLastOf(g, n, g[m].key) /\ DictValue(g, g[m].key) = g[n].val
  BY <1>3, LastOfKey
<1>8. g[n].key = k /\ \A j \in DOMAIN g : j > n => g[j].key # k
  BY <1>5, <1>6, <1>7 DEF IsLastOf
<1>9. p[m] <= p[n] /\ p[n] <= l /\ p[n] \in DOMAIN f /\ f[p[n]].key = k
  <2>1. p[n] \in DOMAIN f /\ f[p[n]].key = k /\ p[n] \in Nat /\ p[m] \in Nat /\ l \in Nat
    BY <1>2, <1>3, <1>6, <1>8
  <2>2. p[n] <= l
    BY <1>5, <2>1
  <2>3. m <= n
    BY <1>3, <1>5, <1>6, <1>8
  <2>4. m < n \/ m = n
    BY <1>3, <2>3
  <2>5. p[m] <= p[n]
    BY <1>2, <2>1, <2>4
  <2> QED
    BY <2>1, <2>2, <2>5
<1>10. SameLine(f, p[n], l)
  BY <1>3, <1>6, <1>9, SameLineJoins
<1>11. LastOnLine(f, p[n]) = l
  <2>1. p[n] = l \/ SameEntry(f, p[n], l)
    <3>1. CASE OnListLine(f, l)
      BY <1>3, <1>6, <1>9, <3>1
    <3>2. CASE ~OnListLine(f, l)
      <4>1. PICK j \in DOMAIN f : SameLine(f, l, j) /\ ~IsListMember(f[j])
        BY <3>2 DEF OnListLine
      <4>2. SameLine(f, p[n], j)
        BY <1>3, <1>9, <1>10, <4>1, SameLineJoins
      <4>3. ~OnListLine(f, p[n])
        BY <4>1, <4>2 DEF OnListLine
      <4> QED
        BY <1>5, <1>9, <1>10, <4>3 DEF SameEntry
    <3> QED
      BY <3>1, <3>2
  <2>2. \A j \in DOMAIN f : j > l => ~SameEntry(f, p[n], j)
    BY <1>5, <1>9 DEF SameEntry
  <2> QED
    BY <1>9, <2>1, <2>2, LatestIs
<1>12. DictValue(g, k) = Canonical(f[l].val)
  BY <1>2, <1>5, <1>6, <1>7, <1>11
<1>13. Canonical(DictValue(g, k)) = Canonical(DictValue(f, k))
  BY <1>4, <1>12, CanonicalTwice
<1> QED
  BY <1>5, <1>6, <1>13 DEF g, k

(* No key comes back on another line, or none but on a line of its own that *)
(* is read as a dictionary.                                                 *)
KeysStayOnTheirLine(f) == \A i, j \in DOMAIN f : f[i].key = f[j].key => SameLine(f, i, j)
KeysComeOnce(f) ==
  \A i, j \in DOMAIN f : i # j /\ f[i].key = f[j].key => SameLine(f, i, j) /\ ~OnListLine(f, i)

(* Such keys are written once, and the others stay on their line.           *)
LEMMA SfKeysDiffer ==
  ASSUME NEW f, IsField(f), KeysComeOnce(f)
  PROVE  LET g == SfField(f) IN \A m, n \in DOMAIN g : g[m].key = g[n].key => m = n
<1> DEFINE g == SfField(f)
<1>1. PICK p : TakenAt(p, g, Anew(f), SfAt(f))
  BY SfFieldTakes
<1>2. /\ IsField(g)
      /\ \A n \in DOMAIN g : p[n] \in SfAt(f) /\ p[n] \in DOMAIN f /\ g[n].key = f[p[n]].key
      /\ \A m, n \in DOMAIN g : m < n => p[m] < p[n]
  BY <1>1, SfTaken
<1>3. DOMAIN g \subseteq Nat
  BY <1>2, FieldIs
<1> HIDE DEF g
<1>4. ASSUME NEW m \in DOMAIN g, NEW n \in DOMAIN g, m < n PROVE g[m].key # g[n].key
  <2>1. p[m] < p[n] /\ p[m] \in DOMAIN f /\ p[n] \in SfAt(f) /\ p[n] \in DOMAIN f
    BY <1>2, <1>4
  <2>2. ~SameEntry(f, p[n], p[m])
    BY <2>1 DEF SfAt
  <2>3. p[n] # p[m]
    <3>1. p[n] \in Nat /\ p[m] \in Nat
      BY <2>1, FieldIs
    <3> QED
      BY <2>1, <3>1
  <2>4. f[p[n]].key # f[p[m]].key
    BY <2>1, <2>2, <2>3 DEF SameEntry, KeysComeOnce
  <2> QED
    BY <1>2, <2>4
<1>5. \A m, n \in DOMAIN g : g[m].key = g[n].key => m = n
  BY <1>3, <1>4
<1> QED
  BY <1>5 DEF g

LEMMA SfKeysStay ==
  ASSUME NEW f, IsField(f), KeysStayOnTheirLine(f)
  PROVE  KeysStayOnTheirLine(SfField(f))
<1> DEFINE g == SfField(f)
<1>1. PICK p : TakenAt(p, g, Anew(f), SfAt(f))
  BY SfFieldTakes
<1>2. /\ IsField(g)
      /\ \A n \in DOMAIN g : p[n] \in DOMAIN f /\ g[n].key = f[p[n]].key /\ g[n].first = f[p[n]].first
      /\ \A m, n \in DOMAIN g : m < n => p[m] < p[n]
  BY <1>1, SfTaken
<1>3. DOMAIN g \subseteq Nat /\ DOMAIN f \subseteq Nat
  BY <1>2, FieldIs
<1> HIDE DEF g
<1>4. \A n \in DOMAIN g : n \in Nat /\ p[n] \in Nat
  BY <1>2, <1>3
<1>5. \A m, n \in DOMAIN g : m <= n => p[m] <= p[n]
  <2> SUFFICES ASSUME NEW m \in DOMAIN g, NEW n \in DOMAIN g, m <= n PROVE p[m] <= p[n]
    OBVIOUS
  <2>1. m < n \/ m = n
    BY <1>4
  <2> QED
    BY <1>2, <1>4, <2>1
<1>6. ASSUME NEW i \in DOMAIN g, NEW j \in DOMAIN g, g[i].key = g[j].key PROVE SameLine(g, i, j)
  <2>1. SameLine(f, p[i], p[j])
    BY <1>2, <1>6 DEF KeysStayOnTheirLine
  <2> SUFFICES ASSUME NEW m \in DOMAIN g, (m > i /\ m <= j) \/ (m > j /\ m <= i) PROVE ~g[m].first
    BY DEF SameLine
  <2>2. (p[m] > p[i] /\ p[m] <= p[j]) \/ (p[m] > p[j] /\ p[m] <= p[i])
    BY <1>2, <1>4, <1>5
  <2>3. ~f[p[m]].first
    BY <1>2, <2>1, <2>2 DEF SameLine
  <2> QED
    BY <1>2, <2>3
<1> QED
  BY <1>6 DEF KeysStayOnTheirLine, g

-----------------------------------------------------------------------------
(* What a structured field means                                            *)

LEMMA StructuredDictionary ==
  \A f : Structured(f, "dictionary") = [n \in DOMAIN DictKeys(f) |->
                       <<DictKeys(f)[n], Canonical(DictValue(f, DictKeys(f)[n]))>>]
BY DEF Structured

LEMMA StructuredAnew ==
  ASSUME NEW f, IsField(f), IsDictionary(f)
  PROVE  Structured(SfField(f), "dictionary") = Structured(f, "dictionary")
<1>1. IsDictionary(SfField(f)) /\ DictKeys(SfField(f)) = DictKeys(f)
  BY SfDictionary
<1>2. ASSUME NEW n \in DOMAIN DictKeys(f)
      PROVE  LET k == DictKeys(f)[n]
             IN  Canonical(DictValue(SfField(f), k)) = Canonical(DictValue(f, k))
  <2>1. PICK i \in DOMAIN f : DictKeys(f)[n] = f[i].key
    BY DictKeysFrom, FieldIs
  <2> QED
    BY <2>1, SfKeepsValues
<1> QED
  BY <1>1, <1>2, StructuredDictionary

LEMMA SameInterval ==
  ASSUME NEW m \in Nat, NEW n \in Nat, 1..m = 1..n
  PROVE  m = n
<1> SUFFICES ASSUME m # n PROVE FALSE
  OBVIOUS
<1>1. m \in 1..m \/ n \in 1..n
  OBVIOUS
<1> QED
  BY <1>1

(* The text of a dictionary determines what it means.                       *)
LEMMA JoinedIs ==
  ASSUME NEW g, IsField(g)
  PROVE  /\ DOMAIN Joined(g) = DOMAIN g
         /\ \A i \in DOMAIN g : Joined(g)[i] = <<g[i].key, g[i].val>>
         /\ \A i \in DOMAIN g : Joined(g)[i][1] = g[i].key /\ Joined(g)[i][2] = g[i].val
BY DEF Joined

LEMMA SameText ==
  ASSUME NEW g, IsField(g), NEW h, IsField(h), Joined(g) = Joined(h)
  PROVE  DOMAIN g = DOMAIN h /\ \A i \in DOMAIN g : g[i].key = h[i].key /\ g[i].val = h[i].val
<1>1. DOMAIN g = DOMAIN h
  BY JoinedIs
<1>2. ASSUME NEW i \in DOMAIN g PROVE g[i].key = h[i].key /\ g[i].val = h[i].val
  <2>1. Joined(g)[i][1] = g[i].key /\ Joined(g)[i][2] = g[i].val
    BY JoinedIs
  <2>2. Joined(h)[i][1] = h[i].key /\ Joined(h)[i][2] = h[i].val
    BY <1>1, JoinedIs
  <2> QED
    BY <2>1, <2>2
<1> QED
  BY <1>1, <1>2

LEMMA StructuredText ==
  ASSUME NEW g, IsField(g), IsDictionary(g), NEW h, IsField(h), IsDictionary(h), Joined(g) = Joined(h)
  PROVE  Structured(g, "dictionary") = Structured(h, "dictionary")
<1>1. DOMAIN g = DOMAIN h /\ \A i \in DOMAIN g : g[i].key = h[i].key /\ g[i].val = h[i].val
  BY SameText
<1>2. /\ IsSeq(g) /\ Len(g) \in Nat /\ DOMAIN g = 1..Len(g)
      /\ IsSeq(h) /\ Len(h) \in Nat /\ DOMAIN h = 1..Len(h)
  BY FieldIs
<1>3. DictKeys(g) = DictKeys(h)
  <2>1. Len(g) = Len(h)
    BY <1>1, <1>2, SameInterval
  <2>2. Alike(g, h)
    BY <1>1, <1>2, <2>1 DEF Alike
  <2> QED
    BY <1>2, <2>2, DictKeysAlike
<1>4. ASSUME NEW n \in DOMAIN DictKeys(g)
      PROVE  DictValue(g, DictKeys(g)[n]) = DictValue(h, DictKeys(g)[n])
  <2>1. PICK i \in DOMAIN g : DictKeys(g)[n] = g[i].key
    BY <1>2, DictKeysFrom
  <2>2. PICK l \in DOMAIN g : IsLastOf(g, l, g[i].key) /\ DictValue(g, g[i].key) = g[l].val
    BY <1>2, LastOfKey
  <2>3. l \in DOMAIN h /\ h[l].key = g[i].key /\ \A j \in DOMAIN h : j > l => h[j].key # h[l].key
    BY <1>1, <2>2 DEF IsLastOf
  <2>4. DictValue(h, h[l].key) = h[l].val
    BY <1>2, <2>3, DictValueIsLast
  <2> QED
    BY <1>1, <2>1, <2>2, <2>3, <2>4
<1> QED
  BY <1>3, <1>4, StructuredDictionary

(* Where every key stands once, the meaning is the text.                    *)
LEMMA StructuredOnce ==
  ASSUME NEW g, IsField(g), IsDictionary(g), \A m, n \in DOMAIN g : g[m].key = g[n].key => m = n,
         \A n \in DOMAIN g : Canonical(g[n].val) = g[n].val
  PROVE  Structured(g, "dictionary") = Joined(g)
<1>1. IsSeq(g) /\ DOMAIN g \subseteq Nat
  BY FieldIs
<1> DEFINE First == {i \in DOMAIN g : \A j \in DOMAIN g : j < i => g[j].key # g[i].key}
<1>2. First = DOMAIN g
  <2>1. \A i, j \in DOMAIN g : j < i => g[j].key # g[i].key
    BY <1>1
  <2> QED
    BY <2>1
<1>3. DictKeys(g) = [n \in DOMAIN Selected(g, First) |-> Selected(g, First)[n].key]
  BY DEF DictKeys
<1> HIDE DEF First
<1>4. Selected(g, First) = g
  BY <1>1, <1>2, SelectedAll
<1>5. DictKeys(g) = [n \in DOMAIN g |-> g[n].key]
  BY <1>3, <1>4
<1>6. ASSUME NEW n \in DOMAIN g PROVE DictValue(g, g[n].key) = g[n].val
  <2>1. \A j \in DOMAIN g : j > n => g[j].key # g[n].key
    BY <1>1
  <2> QED
    BY <1>1, <2>1, DictValueIsLast
<1>7. Structured(g, "dictionary") = [n \in DOMAIN g |-> <<g[n].key, Canonical(DictValue(g, g[n].key))>>]
  BY <1>5, StructuredDictionary
<1> QED
  BY <1>6, <1>7 DEF Joined

(* Lines that are read as lists are written member by member.               *)
LEMMA ListAnew ==
  ASSUME NEW f, IsField(f), \A i \in DOMAIN f : IsListMember(f[i])
  PROVE  Joined(SfField(f)) = [n \in DOMAIN f |-> <<f[n].key, Canonical(f[n].val)>>]
<1>1. \A i, j \in DOMAIN f : ~SameEntry(f, i, j)
  BY DEF SameEntry, OnListLine
<1>2. SfField(f) = Anew(f)
  <2>1. SfAt(f) = DOMAIN Anew(f)
    BY <1>1, AnewIs DEF SfAt
  <2> QED
    BY <2>1, AnewIs, FieldIs, SfFieldIs, SelectedAll
<1>3. \A i \in DOMAIN f : LastOnLine(f, i) = i
  BY <1>1, LatestIs
<1>4. \A i \in DOMAIN f : Anew(f)[i].key = f[i].key /\ Anew(f)[i].val = Canonical(f[i].val)
  BY <1>3, AnewIs
<1> QED
  BY <1>2, <1>4, AnewIs DEF Joined

LEMMA ListMeans ==
  ASSUME NEW f, IsField(f), IsOfType(f, "list")
  PROVE  Joined(SfField(f)) = Structured(f, "list")
BY ListAnew DEF Structured, IsOfType

LEMMA DictionaryType == \A f : IsOfType(f, "dictionary") <=> IsDictionary(f)
BY DEF IsOfType

(* The text that `sf` signs determines what the field means.                *)
LEMMA SfTextMeans ==
  ASSUME NEW type \in FieldTypes,
         NEW f, IsField(f), IsOfType(f, type), NEW h, IsField(h), IsOfType(h, type),
         Joined(SfField(f)) = Joined(SfField(h))
  PROVE  Structured(f, type) = Structured(h, type)
<1>1. CASE type = "list"
  BY <1>1, ListMeans
<1>2. CASE type = "dictionary"
  <2>1. IsDictionary(f) /\ IsDictionary(h)
    BY <1>2, DictionaryType
  <2> QED
    BY <1>2, <2>1, SfDictionary, StructuredAnew, StructuredText
<1> QED
  BY <1>1, <1>2 DEF FieldTypes

(* Of a list, and where keys come once, it is what the field means.         *)
LEMMA SfTextIsMeaning ==
  ASSUME NEW type \in FieldTypes, NEW f, IsField(f), IsOfType(f, type),
         type = "dictionary" => KeysComeOnce(f)
  PROVE  Joined(SfField(f)) = Structured(f, type)
<1>1. CASE type = "list"
  BY <1>1, ListMeans
<1>2. CASE type = "dictionary"
  <2> DEFINE g == SfField(f)
  <2>0. IsDictionary(f) /\ KeysComeOnce(f)
    BY <1>2, DictionaryType
  <2>1. IsField(g) /\ IsDictionary(g)
    BY <2>0, SfDictionary
  <2>2. \A m, n \in DOMAIN g : g[m].key = g[n].key => m = n
    BY <2>0, SfKeysDiffer
  <2>3. PICK p : TakenAt(p, g, Anew(f), SfAt(f))
    BY SfFieldTakes
  <2>4. \A n \in DOMAIN g : Canonical(g[n].val) = g[n].val
    BY <2>3, SfTaken, CanonicalTwice
  <2>5. Structured(g, type) = Structured(f, type)
    BY <1>2, <2>0, StructuredAnew
  <2> HIDE DEF g
  <2>6. Structured(g, type) = Joined(g)
    BY <1>2, <2>1, <2>2, <2>4, StructuredOnce
  <2> QED
    BY <2>5, <2>6 DEF g
<1> QED
  BY <1>1, <1>2 DEF FieldTypes

-----------------------------------------------------------------------------
(* What stands under a key                                                  *)

KeyAt(f, key) ==
  {i \in DOMAIN f : /\ f[i].key = key
                    /\ \A j \in DOMAIN f : j > i /\ SameLine(f, i, j) => f[j].key # key}

LEMMA ItemIs ==
  ASSUME NEW v, NEW m, m = Member("item", "", v)
  PROVE  IsMember(m) /\ m.form = "item" /\ m.val = v
<1>1. m.form = "item" /\ m.key = "" /\ m.val = v
  BY DEF Member
<1>2. DOMAIN m = {"form", "key", "val", "first"}
  BY DEF Member
<1>3. m.form # "entry"
  BY <1>1
<1> QED
  BY <1>1, <1>2, <1>3 DEF IsMember

LEMMA KeyFieldTakes ==
  ASSUME NEW f, IsField(f), NEW key
  PROVE  /\ IsField(KeyField(f, key)) /\ \A n \in DOMAIN KeyField(f, key) : KeyField(f, key)[n].form = "item"
         /\ \E p : /\ Enumerates(p, Len(KeyField(f, key)), KeyAt(f, key))
                   /\ \A n \in DOMAIN KeyField(f, key) :
                        KeyField(f, key)[n].val = Canonical(f[p[n]].val)
<1> DEFINE found == Selected(f, KeyAt(f, key))
           g == [n \in DOMAIN found |-> Member("item", "", Canonical(found[n].val))]
<1>1. KeyField(f, key) = g
  BY DEF KeyField, KeyAt
<1>2. KeyAt(f, key) \subseteq DOMAIN f /\ IsSeq(f)
  BY FieldIs DEF KeyAt
<1>3. IsSeq(found) /\ Len(found) \in Nat /\ DOMAIN found = 1..Len(found)
  BY <1>2, SelectedTakes
<1>4. PICK p : TakenAt(p, found, f, KeyAt(f, key))
  BY <1>2, SelectedTakes
<1> HIDE DEF found
<1>5. g = [n \in 1..Len(found) |-> g[n]] /\ DOMAIN g = DOMAIN found
  BY <1>3
<1>6. \A n \in DOMAIN g : g[n] = Member("item", "", Canonical(found[n].val))
  OBVIOUS
<1> HIDE DEF g
<1>7. IsSeq(g) /\ Len(g) = Len(found)
  BY <1>3, <1>5, FunIsSeq
<1>8. ASSUME NEW n \in DOMAIN g
      PROVE  IsMember(g[n]) /\ g[n].form = "item" /\ g[n].val = Canonical(f[p[n]].val)
  <2>1. found[n] = f[p[n]]
    BY <1>3, <1>4, <1>5 DEF TakenAt
  <2>2. PICK v : v = Canonical(found[n].val)
    OBVIOUS
  <2>3. g[n] = Member("item", "", v)
    BY <1>6, <2>2
  <2>4. IsMember(g[n]) /\ g[n].form = "item" /\ g[n].val = v
    BY <2>3, ItemIs
  <2> QED
    BY <2>1, <2>2, <2>4
<1>9. IsField(g)
  BY <1>7, <1>8 DEF IsField
<1>10. Enumerates(p, Len(g), KeyAt(f, key))
  BY <1>4, <1>7 DEF TakenAt
<1> QED
  BY <1>1, <1>8, <1>9, <1>10

(* The last of the values that are signed.                                  *)
LastOnly(line) == IF line = <<>> THEN <<>> ELSE <<line[Len(line)]>>

LEMMA JoinedLen ==
  ASSUME NEW g, IsField(g)
  PROVE  IsSeq(Joined(g)) /\ Len(Joined(g)) = Len(g)
<1>1. Joined(g) = [i \in 1..Len(g) |-> Joined(g)[i]]
  BY FieldIs DEF Joined
<1> QED
  BY <1>1, FieldIs, FunIsSeq

LEMMA KeyMeans ==
  ASSUME NEW f, IsField(f), NEW key
  PROVE  UnderKey(f, key) = LastOnly(Joined(KeyField(f, key)))
<1> DEFINE g == KeyField(f, key)
           L == Len(g)
<1>1. IsField(g) /\ \A n \in DOMAIN g : g[n].form = "item"
  BY KeyFieldTakes
<1>2. PICK p : /\ Enumerates(p, Len(g), KeyAt(f, key))
               /\ \A n \in DOMAIN g : g[n].val = Canonical(f[p[n]].val)
  BY KeyFieldTakes
<1>3. /\ L \in Nat /\ DOMAIN g = 1..L /\ IsSeq(Joined(g)) /\ Len(Joined(g)) = L
      /\ DOMAIN f \subseteq Nat /\ IsSeq(f)
  BY <1>1, FieldIs, JoinedLen
<1>4. \A n \in 1..L : p[n] \in DOMAIN f /\ f[p[n]].key = key
  BY <1>2 DEF Enumerates, KeyAt
<1>5. \A n \in DOMAIN g : g[n].key = ""
  BY <1>1 DEF IsField, IsMember
<1> HIDE DEF g
<1>6. CASE \E i \in DOMAIN f : f[i].key = key
  <2>1. PICK l \in DOMAIN f : IsLastOf(f, l, key) /\ DictValue(f, key) = f[l].val
    BY <1>3, <1>6, LastOfKey
  <2>2. f[l].key = key /\ \A j \in DOMAIN f : j > l => f[j].key # key
    BY <2>1 DEF IsLastOf
  <2>3. PICK n \in 1..L : p[n] = l
    <3>1. l \in KeyAt(f, key)
      BY <2>2 DEF KeyAt
    <3> QED
      BY <1>2, <3>1 DEF Enumerates
  <2>4. n = L
    <3>1. L \in 1..L
      BY <1>3
    <3>2. n < L => p[n] < p[L]
      BY <1>2, <3>1 DEF Enumerates
    <3>3. p[L] \in DOMAIN f /\ f[p[L]].key = key
      BY <1>4, <3>1
    <3>4. p[L] \in Nat /\ l \in Nat
      BY <1>3, <3>3
    <3>5. ~(p[L] > l)
      BY <2>2, <3>3
    <3> HIDE DEF L
    <3>6. ~(n < L)
      BY <2>3, <3>2, <3>4, <3>5
    <3> QED
      BY <1>3, <3>6
  <2>5. L \in DOMAIN g /\ g[L].val = Canonical(f[l].val)
    BY <1>2, <1>3, <2>3, <2>4
  <2>6. Joined(g)[L] = <<g[L].key, g[L].val>> /\ L \in DOMAIN Joined(g)
    BY <1>1, <2>5, JoinedIs
  <2>7. Joined(g) # <<>>
    BY <2>6, EmptyIsSeq
  <2>8. UnderKey(f, key) = <<<<"", Canonical(f[l].val)>>>>
    BY <1>6, <2>1 DEF UnderKey
  <2>9. Joined(g)[L] = <<"", Canonical(f[l].val)>>
    BY <1>5, <2>5, <2>6
  <2>10. PICK line : line = Joined(g)
    OBVIOUS
  <2>11. LastOnly(line) = <<line[L]>>
    BY <1>3, <2>7, <2>10 DEF LastOnly
  <2> QED
    BY <2>8, <2>9, <2>10, <2>11 DEF g
<1>7. CASE ~\E i \in DOMAIN f : f[i].key = key
  <2>1. L = 0
    <3>1. L # 0 => 1 \in 1..L
      BY <1>3
    <3> QED
      BY <1>4, <1>7, <3>1
  <2>2. Joined(g) = <<>>
    BY <1>3, <2>1 DEF IsSeq
  <2> QED
    BY <1>7, <2>2 DEF UnderKey, LastOnly, g
<1> QED
  BY <1>6, <1>7

(* A key that stays on its line is written once.                            *)
LEMMA KeyOnce ==
  ASSUME NEW f, IsField(f), KeysStayOnTheirLine(f), NEW key
  PROVE  Joined(KeyField(f, key)) = UnderKey(f, key)
<1> DEFINE g == KeyField(f, key)
           L == Len(g)
<1>1. IsField(g)
  BY KeyFieldTakes
<1>2. PICK p : Enumerates(p, Len(g), KeyAt(f, key))
  BY KeyFieldTakes
<1>3. L \in Nat /\ IsSeq(Joined(g)) /\ Len(Joined(g)) = L
  BY <1>1, FieldIs, JoinedLen
<1>4. ASSUME L > 1 PROVE FALSE
  <2>1. 1 \in 1..L /\ 2 \in 1..L
    BY <1>3, <1>4
  <2>2. p[1] < p[2] /\ p[1] \in KeyAt(f, key) /\ p[2] \in KeyAt(f, key)
    BY <1>2, <2>1 DEF Enumerates
  <2>3. /\ p[1] \in DOMAIN f /\ p[2] \in DOMAIN f /\ f[p[1]].key = key /\ f[p[2]].key = key
        /\ ~SameLine(f, p[1], p[2])
    BY <2>2, FieldIs DEF KeyAt
  <2> QED
    BY <2>3 DEF KeysStayOnTheirLine
<1> HIDE DEF g
<1>5. PICK line : line = Joined(g)
  OBVIOUS
<1>6. IsSeq(line) /\ (Len(line) = 0 \/ Len(line) = 1)
  <2>1. PICK n \in Nat : n = Len(line)
    BY <1>3, <1>5
  <2>2. ~(n > 1)
    BY <1>3, <1>4, <1>5, <2>1
  <2> QED
    BY <1>3, <1>5, <2>1, <2>2
<1>7. LastOnly(line) = line
  <2>1. CASE Len(line) = 0
    <3>1. line = <<>>
      BY <1>6, <2>1 DEF IsSeq
    <3> QED
      BY <3>1 DEF LastOnly
  <2>2. CASE Len(line) = 1
    <3>1. DOMAIN line = 1..1
      BY <1>6, <2>2, SeqIsSeq DEF IsSeq
    <3>2. line = <<line[1]>>
      BY <1>6, <3>1, OneTuple
    <3>3. line # <<>>
      BY <2>2, EmptyIsSeq
    <3> QED
      BY <2>2, <3>2, <3>3 DEF LastOnly
  <2> QED
    BY <1>6, <2>1, <2>2
<1> QED
  BY <1>5, <1>7, KeyMeans DEF g

(* What was read under a key is not changed by `sf`.                        *)
LEMMA SfAfterKey ==
  ASSUME NEW f, IsField(f), NEW key
  PROVE  /\ SfParses(KeyField(f, key))
         /\ Joined(SfField(KeyField(f, key))) = Joined(KeyField(f, key))
<1> DEFINE g == KeyField(f, key)
<1>1. IsField(g) /\ \A n \in DOMAIN g : g[n].form = "item"
  BY KeyFieldTakes
<1>2. PICK p : \A n \in DOMAIN g : g[n].val = Canonical(f[p[n]].val)
  BY KeyFieldTakes
<1> HIDE DEF g
<1>3. \A n \in DOMAIN g : IsListMember(g[n])
  BY <1>1 DEF IsListMember
<1>4. SfParses(g)
  BY <1>3 DEF SfParses, OnListLine
<1>5. \A n \in DOMAIN g : Canonical(g[n].val) = g[n].val
  BY <1>2, CanonicalTwice
<1>6. Joined(SfField(g)) = [n \in DOMAIN g |-> <<g[n].key, Canonical(g[n].val)>>]
  BY <1>1, <1>3, ListAnew
<1>7. Joined(SfField(g)) = Joined(g)
  BY <1>5, <1>6 DEF Joined
<1> QED
  BY <1>4, <1>7 DEF g

(* Nor is what stands under a key by an earlier `sf`.                       *)
LEMMA KeyAfterSf ==
  ASSUME NEW f, IsField(f), IsDictionary(f), NEW key
  PROVE  UnderKey(SfField(f), key) = UnderKey(f, key)
<1> DEFINE g == SfField(f)
<1>1. PICK p : TakenAt(p, g, Anew(f), SfAt(f))
  BY SfFieldTakes
<1>2. \A n \in DOMAIN g : p[n] \in DOMAIN f /\ g[n].key = f[p[n]].key
  BY <1>1, SfTaken
<1>3. CASE \E i \in DOMAIN f : f[i].key = key
  <2>1. /\ \E n \in DOMAIN g : g[n].key = key
        /\ Canonical(DictValue(g, key)) = Canonical(DictValue(f, key))
    BY <1>3, SfKeepsValues
  <2> HIDE DEF g
  <2>2. UnderKey(g, key) = UnderKey(f, key)
    BY <1>3, <2>1 DEF UnderKey
  <2> QED
    BY <2>2 DEF g
<1>4. CASE ~\E i \in DOMAIN f : f[i].key = key
  <2> HIDE DEF g
  <2>1. UnderKey(g, key) = UnderKey(f, key)
    BY <1>2, <1>4 DEF UnderKey
  <2> QED
    BY <2>1 DEF g
<1> QED
  BY <1>3, <1>4

-----------------------------------------------------------------------------
(* The four ways in which Ids read a field                                  *)

OnlySf(params) == Len(params) = 1 /\ params[1].p = "sf"
OnlyKey(params, k) == Len(params) = 1 /\ params[1].p = "key" /\ params[1].arg = k
SfThenKey(params, k) ==
  Len(params) = 2 /\ params[1].p = "sf" /\ params[2].p = "key" /\ params[2].arg = k
KeyThenSf(params, k) ==
  Len(params) = 2 /\ params[1].p = "key" /\ params[1].arg = k /\ params[2].p = "sf"

FieldShape(params) ==
  \/ OnlySf(params)
  \/ \E k : OnlyKey(params, k) \/ SfThenKey(params, k) \/ KeyThenSf(params, k)

LEMMA FieldShapes ==
  ASSUME NEW id \in Ids, id.name # "@query-param"
  PROVE  id.name \notin DerivedComponentName /\ IsSeq(id.params) /\ FieldShape(id.params)
<1> DEFINE P == id.params
           names == [i \in DOMAIN P |-> P[i].p]
<1>1. /\ id.name \notin DerivedComponentName /\ IsSeq(P)
      /\ names \in {<<"sf">>, <<"key">>, <<"sf", "key">>, <<"key", "sf">>}
  BY IdsAssumption
<1>2. DOMAIN P = 1..Len(P) /\ Len(P) \in Nat
  BY <1>1, SeqIsSeq DEF IsSeq
<1>3. PICK n \in Nat : n = Len(P)
  BY <1>2
<1>4. PICK t : t = names
  OBVIOUS
<1>5. DOMAIN t = 1..n /\ \A i \in 1..n : P[i].p = t[i]
  BY <1>2, <1>3, <1>4
<1> HIDE DEF names, P
<1>6. 1 \in 1..2 /\ 2 \in 1..2 /\ 1 \in 1..1 /\ 1..1 # 1..2
  OBVIOUS
<1>7. CASE t = <<"sf">>
  <2>1. DOMAIN t = 1..1 /\ t[1] = "sf"
    BY <1>7
  <2>2. n = 1
    BY <1>5, <2>1, SameInterval
  <2> QED
    BY <1>1, <1>3, <1>5, <2>1, <2>2 DEF FieldShape, OnlySf, P
<1>8. CASE t = <<"key">>
  <2>1. DOMAIN t = 1..1 /\ t[1] = "key"
    BY <1>8
  <2>2. n = 1
    BY <1>5, <2>1, SameInterval
  <2>3. OnlyKey(P, P[1].arg)
    BY <1>3, <1>5, <2>1, <2>2 DEF OnlyKey
  <2> QED
    BY <1>1, <2>3 DEF FieldShape, P
<1>9. CASE t = <<"sf", "key">>
  <2>1. DOMAIN t = 1..2 /\ t[1] = "sf" /\ t[2] = "key"
    BY <1>9
  <2>2. n = 2
    BY <1>5, <2>1, SameInterval
  <2>3. SfThenKey(P, P[2].arg)
    BY <1>3, <1>5, <2>1, <2>2 DEF SfThenKey
  <2> QED
    BY <1>1, <2>3 DEF FieldShape, P
<1>10. CASE t = <<"key", "sf">>
  <2>1. DOMAIN t = 1..2 /\ t[1] = "key" /\ t[2] = "sf"
    BY <1>10
  <2>2. n = 2
    BY <1>5, <2>1, SameInterval
  <2>3. KeyThenSf(P, P[1].arg)
    BY <1>3, <1>5, <2>1, <2>2 DEF KeyThenSf
  <2> QED
    BY <1>1, <2>3 DEF FieldShape, P
<1> QED
  BY <1>1, <1>4, <1>7, <1>8, <1>9, <1>10 DEF names

(* One parameter is applied, or two one after the other.                    *)
LEMMA AppliedOnce ==
  ASSUME NEW acc, NEW params, IsSeq(params), Len(params) = 1
  PROVE  AllApplied(acc, params) = ApplyParam(acc, params[1])
<1>1. PICK up : AllApplied(acc, params) = up[Len(params)] /\ Unfolds(up, acc, params)
  BY ParamsApplied
<1>2. up[0] = acc /\ up[0 + 1] = ApplyParam(up[0], params[0 + 1])
  BY <1>1 DEF Unfolds
<1>3. 0 + 1 = 1
  OBVIOUS
<1> QED
  BY <1>1, <1>2, <1>3

LEMMA AppliedTwice ==
  ASSUME NEW acc, NEW params, IsSeq(params), Len(params) = 2
  PROVE  AllApplied(acc, params) = ApplyParam(ApplyParam(acc, params[1]), params[2])
<1>1. PICK up : AllApplied(acc, params) = up[Len(params)] /\ Unfolds(up, acc, params)
  BY ParamsApplied
<1>2. /\ up[0] = acc
      /\ up[0 + 1] = ApplyParam(up[0], params[0 + 1])
      /\ up[1 + 1] = ApplyParam(up[1], params[1 + 1])
  BY <1>1 DEF Unfolds
<1>3. 0 + 1 = 1 /\ 1 + 1 = 2
  OBVIOUS
<1> QED
  BY <1>1, <1>2, <1>3

Read(f, params) == AllApplied([ok |-> TRUE, field |-> f], params)

LEMMA ReadSf ==
  ASSUME NEW f, NEW params, IsSeq(params), OnlySf(params)
  PROVE  /\ Read(f, params).ok <=> SfParses(f)
         /\ Read(f, params).ok => Read(f, params).field = SfField(f)
<1>1. PICK acc, r, param : /\ acc = [ok |-> TRUE, field |-> f] /\ param = params[1]
                           /\ r = ApplyParam(acc, param)
  OBVIOUS
<1>2. Read(f, params) = r
  BY <1>1, AppliedOnce DEF Read, OnlySf
<1>3. acc.ok /\ acc.field = f
  BY <1>1
<1>4. param.p = "sf"
  BY <1>1 DEF OnlySf
<1>5. /\ r.ok <=> acc.ok /\ SfParses(acc.field)
      /\ r.field = IF SfParses(acc.field) THEN SfField(acc.field) ELSE acc.field
  BY <1>1, <1>4, Applied
<1> QED
  BY <1>2, <1>3, <1>5

LEMMA ReadKey ==
  ASSUME NEW f, NEW params, IsSeq(params), NEW k, OnlyKey(params, k)
  PROVE  /\ Read(f, params).ok <=> IsDictionary(f)
         /\ Read(f, params).field = KeyField(f, k)
<1>1. PICK acc, r, param : /\ acc = [ok |-> TRUE, field |-> f] /\ param = params[1]
                           /\ r = ApplyParam(acc, param)
  OBVIOUS
<1>2. Read(f, params) = r
  BY <1>1, AppliedOnce DEF Read, OnlyKey
<1>3. acc.ok /\ acc.field = f
  BY <1>1
<1>4. param.p = "key" /\ param.arg = k
  BY <1>1 DEF OnlyKey
<1>5. /\ r.ok <=> acc.ok /\ IsDictionary(acc.field)
      /\ r.field = KeyField(acc.field, param.arg)
  BY <1>1, <1>4, Applied
<1> QED
  BY <1>2, <1>3, <1>4, <1>5

LEMMA ReadSfKey ==
  ASSUME NEW f, NEW params, IsSeq(params), NEW k, SfThenKey(params, k)
  PROVE  /\ Read(f, params).ok <=> SfParses(f) /\ IsDictionary(SfField(f))
         /\ Read(f, params).ok => Read(f, params).field = KeyField(SfField(f), k)
<1>1. PICK acc, a, r, sf, key :
        /\ acc = [ok |-> TRUE, field |-> f] /\ sf = params[1] /\ key = params[2]
        /\ a = ApplyParam(acc, sf) /\ r = ApplyParam(a, key)
  OBVIOUS
<1>2. Read(f, params) = r
  BY <1>1, AppliedTwice DEF Read, SfThenKey
<1>3. acc.ok /\ acc.field = f
  BY <1>1
<1>4. sf.p = "sf" /\ key.p = "key" /\ key.arg = k
  BY <1>1 DEF SfThenKey
<1>5. /\ a.ok <=> acc.ok /\ SfParses(acc.field)
      /\ a.field = IF SfParses(acc.field) THEN SfField(acc.field) ELSE acc.field
  BY <1>1, <1>4, Applied
<1>6. /\ r.ok <=> a.ok /\ IsDictionary(a.field)
      /\ r.field = KeyField(a.field, key.arg)
  BY <1>1, <1>4, Applied
<1> QED
  BY <1>2, <1>3, <1>4, <1>5, <1>6

LEMMA ReadKeySf ==
  ASSUME NEW f, IsField(f), NEW params, IsSeq(params), NEW k, KeyThenSf(params, k)
  PROVE  /\ Read(f, params).ok <=> IsDictionary(f)
         /\ Read(f, params).field = SfField(KeyField(f, k))
<1>1. PICK acc, a, r, sf, key :
        /\ acc = [ok |-> TRUE, field |-> f] /\ key = params[1] /\ sf = params[2]
        /\ a = ApplyParam(acc, key) /\ r = ApplyParam(a, sf)
  OBVIOUS
<1>2. Read(f, params) = r
  BY <1>1, AppliedTwice DEF Read, KeyThenSf
<1>3. acc.ok /\ acc.field = f
  BY <1>1
<1>4. sf.p = "sf" /\ key.p = "key" /\ key.arg = k
  BY <1>1 DEF KeyThenSf
<1>5. /\ a.ok <=> acc.ok /\ IsDictionary(acc.field)
      /\ a.field = KeyField(acc.field, key.arg)
  BY <1>1, <1>4, Applied
<1>6. /\ r.ok <=> a.ok /\ SfParses(a.field)
      /\ r.field = IF SfParses(a.field) THEN SfField(a.field) ELSE a.field
  BY <1>1, <1>4, Applied
<1>7. SfParses(KeyField(f, k))
  BY SfAfterKey
<1> QED
  BY <1>2, <1>3, <1>4, <1>5, <1>6, <1>7

(* What is under the parameters of the field, for each of the four ways.    *)
KeysOf(params) == {params[i].arg : i \in {n \in DOMAIN params : params[n].p = "key"}}

FieldMeans(f, params, type) ==
  IF KeysOf(params) = {} THEN Structured(f, type)
  ELSE UnderKey(f, CHOOSE k \in KeysOf(params) : TRUE)

LEMMA MeansStructured ==
  ASSUME NEW params, IsSeq(params), OnlySf(params)
  PROVE  \A f, type : FieldMeans(f, params, type) = Structured(f, type)
<1>1. DOMAIN params = 1..1
  BY SeqIsSeq DEF IsSeq, OnlySf
<1>2. KeysOf(params) = {}
  BY <1>1 DEF KeysOf, OnlySf
<1> QED
  BY <1>2 DEF FieldMeans

LEMMA MeansUnderKey ==
  ASSUME NEW params, IsSeq(params), NEW k,
         OnlyKey(params, k) \/ SfThenKey(params, k) \/ KeyThenSf(params, k)
  PROVE  /\ \A f, type : FieldMeans(f, params, type) = UnderKey(f, k)
         /\ \E i \in DOMAIN params : params[i].p = "key"
<1>1. DOMAIN params = 1..Len(params) /\ Len(params) \in 1..2
  BY SeqIsSeq DEF IsSeq, OnlyKey, SfThenKey, KeyThenSf
<1>2. /\ \E i \in DOMAIN params : params[i].p = "key"
      /\ \A i \in DOMAIN params : params[i].p = "key" => params[i].arg = k
  <2>1. CASE OnlyKey(params, k)
    <3>1. DOMAIN params = {1} /\ params[1].p = "key" /\ params[1].arg = k
      BY <1>1, <2>1 DEF OnlyKey
    <3> QED
      BY <3>1
  <2>2. CASE SfThenKey(params, k)
    <3>1. DOMAIN params = {1, 2} /\ params[1].p = "sf" /\ params[2].p = "key" /\ params[2].arg = k
      BY <1>1, <2>2 DEF SfThenKey
    <3> QED
      BY <3>1
  <2>3. CASE KeyThenSf(params, k)
    <3>1. DOMAIN params = {1, 2} /\ params[2].p = "sf" /\ params[1].p = "key" /\ params[1].arg = k
      BY <1>1, <2>3 DEF KeyThenSf
    <3> QED
      BY <3>1
  <2> QED
    BY <2>1, <2>2, <2>3
<1>3. KeysOf(params) = {k}
  BY <1>2 DEF KeysOf
<1>4. (CHOOSE x \in KeysOf(params) : TRUE) = k
  BY <1>3
<1> QED
  BY <1>2, <1>3, <1>4 DEF FieldMeans

(* A field that is read with `sf` and then with `key` is a dictionary.      *)
LEMMA SfOfDictionary ==
  ASSUME NEW f, IsField(f), SfParses(f), IsDictionary(SfField(f))
  PROVE  IsDictionary(f)
<1> DEFINE g == SfField(f)
<1>1. PICK p : TakenAt(p, g, Anew(f), SfAt(f))
  BY SfFieldTakes
<1>2. ASSUME NEW i \in DOMAIN f PROVE f[i].form = "entry"
  <2>1. CASE OnListLine(f, i)
    <3>1. i \in SfAt(f)
      BY <2>1 DEF SfAt, SameEntry
    <3>2. PICK n \in DOMAIN g : p[n] = i
      BY <1>1, <3>1, SfTaken
    <3>3. g[n].form = f[i].form
      BY <1>1, <3>2, SfTaken
    <3> QED
      BY <3>2, <3>3 DEF IsDictionary
  <2>2. CASE OnDictionaryLine(f, i)
    <3>1. SameLine(f, i, i)
      BY FieldIs DEF SameLine
    <3> QED
      BY <2>2, <3>1 DEF OnDictionaryLine
  <2> QED
    BY <2>1, <2>2 DEF SfParses
<1> QED
  BY <1>2 DEF IsDictionary

(* Two fields that are read as the same text mean the same.                 *)
LEMMA TextMeans ==
  ASSUME NEW params, IsSeq(params), FieldShape(params),
         NEW type \in FieldTypes,
         NEW f, IsField(f), IsOfType(f, type), Read(f, params).ok,
         NEW h, IsField(h), IsOfType(h, type), Read(h, params).ok,
         Joined(Read(f, params).field) = Joined(Read(h, params).field)
  PROVE  FieldMeans(f, params, type) = FieldMeans(h, params, type)
<1>1. CASE OnlySf(params)
  <2>1. Joined(SfField(f)) = Joined(SfField(h))
    BY <1>1, ReadSf
  <2>2. Structured(f, type) = Structured(h, type)
    BY <2>1, SfTextMeans
  <2> QED
    BY <1>1, <2>2, MeansStructured
<1>2. ASSUME NEW k, OnlyKey(params, k) PROVE FieldMeans(f, params, type) = FieldMeans(h, params, type)
  <2>1. Joined(KeyField(f, k)) = Joined(KeyField(h, k))
    BY <1>2, ReadKey
  <2>2. UnderKey(f, k) = UnderKey(h, k)
    BY <2>1, KeyMeans
  <2> QED
    BY <1>2, <2>2, MeansUnderKey
<1>3. ASSUME NEW k, SfThenKey(params, k) PROVE FieldMeans(f, params, type) = FieldMeans(h, params, type)
  <2>1. /\ SfParses(f) /\ SfParses(h)
        /\ IsDictionary(SfField(f)) /\ Read(f, params).field = KeyField(SfField(f), k)
        /\ IsDictionary(SfField(h)) /\ Read(h, params).field = KeyField(SfField(h), k)
    BY <1>3, ReadSfKey
  <2>2. IsDictionary(f) /\ IsDictionary(h) /\ IsField(SfField(f)) /\ IsField(SfField(h))
    BY <2>1, SfOfDictionary, SfFieldTakes
  <2>3. UnderKey(SfField(f), k) = UnderKey(SfField(h), k)
    BY <2>1, <2>2, KeyMeans
  <2>4. UnderKey(f, k) = UnderKey(h, k)
    BY <2>2, <2>3, KeyAfterSf
  <2> QED
    BY <1>3, <2>4, MeansUnderKey
<1>4. ASSUME NEW k, KeyThenSf(params, k) PROVE FieldMeans(f, params, type) = FieldMeans(h, params, type)
  <2>1. Joined(SfField(KeyField(f, k))) = Joined(SfField(KeyField(h, k)))
    BY <1>4, ReadKeySf
  <2>2. Joined(KeyField(f, k)) = Joined(KeyField(h, k))
    BY <2>1, SfAfterKey
  <2>3. UnderKey(f, k) = UnderKey(h, k)
    BY <2>2, KeyMeans
  <2> QED
    BY <1>4, <2>3, MeansUnderKey
<1> QED
  BY <1>1, <1>2, <1>3, <1>4 DEF FieldShape

(* Where a field says what it means, it is read as what it means.           *)
FieldSays(f, params, type) ==
  /\ IsOfType(f, type)
  /\ type = "list" => ~\E i \in DOMAIN params : params[i].p = "key"
  /\ type = "dictionary" =>
       IF \E i \in DOMAIN params : params[i].p = "key" THEN KeysStayOnTheirLine(f) ELSE KeysComeOnce(f)

LEMMA TextIsMeaning ==
  ASSUME NEW params, IsSeq(params), FieldShape(params),
         NEW type \in FieldTypes, NEW f, IsField(f), FieldSays(f, params, type)
  PROVE  /\ Read(f, params).ok
         /\ Joined(Read(f, params).field) = FieldMeans(f, params, type)
<1>1. SfParses(f)
  BY DEF FieldSays, IsOfType, FieldTypes, IsDictionary, SfParses, OnListLine, OnDictionaryLine
<1>6. ASSUME \E i \in DOMAIN params : params[i].p = "key"
      PROVE  IsDictionary(f) /\ KeysStayOnTheirLine(f)
  BY <1>6, DictionaryType DEF FieldSays, FieldTypes
<1>2. CASE OnlySf(params)
  <2>1. Read(f, params).ok /\ Read(f, params).field = SfField(f)
    BY <1>1, <1>2, ReadSf
  <2>2. Joined(SfField(f)) = Structured(f, type)
    <3>1. ~\E i \in DOMAIN params : params[i].p = "key"
      <4>1. DOMAIN params = 1..1
        BY <1>2, SeqIsSeq DEF IsSeq, OnlySf
      <4> QED
        BY <1>2, <4>1 DEF OnlySf
    <3> QED
      BY <3>1, SfTextIsMeaning DEF FieldSays
  <2> QED
    BY <1>2, <2>1, <2>2, MeansStructured
<1>3. ASSUME NEW k, OnlyKey(params, k)
      PROVE  /\ Read(f, params).ok
             /\ Joined(Read(f, params).field) = FieldMeans(f, params, type)
  <2>1. IsDictionary(f) /\ KeysStayOnTheirLine(f) /\ FieldMeans(f, params, type) = UnderKey(f, k)
    BY <1>3, <1>6, MeansUnderKey
  <2>2. Read(f, params).ok /\ Read(f, params).field = KeyField(f, k)
    BY <1>3, <2>1, ReadKey
  <2> QED
    BY <2>1, <2>2, KeyOnce
<1>4. ASSUME NEW k, SfThenKey(params, k)
      PROVE  /\ Read(f, params).ok
             /\ Joined(Read(f, params).field) = FieldMeans(f, params, type)
  <2> DEFINE g == SfField(f)
  <2>1. IsDictionary(f) /\ KeysStayOnTheirLine(f) /\ FieldMeans(f, params, type) = UnderKey(f, k)
    BY <1>4, <1>6, MeansUnderKey
  <2>2. IsField(g) /\ IsDictionary(g) /\ KeysStayOnTheirLine(g)
    BY <2>1, SfDictionary, SfKeysStay
  <2>3. UnderKey(g, k) = UnderKey(f, k)
    BY <2>1, KeyAfterSf
  <2>4. Read(f, params).ok /\ Read(f, params).field = KeyField(g, k)
    BY <1>1, <1>4, <2>2, ReadSfKey
  <2> HIDE DEF g
  <2>5. Joined(KeyField(g, k)) = UnderKey(g, k)
    BY <2>2, KeyOnce
  <2> QED
    BY <2>1, <2>3, <2>4, <2>5
<1>5. ASSUME NEW k, KeyThenSf(params, k)
      PROVE  /\ Read(f, params).ok
             /\ Joined(Read(f, params).field) = FieldMeans(f, params, type)
  <2>1. IsDictionary(f) /\ KeysStayOnTheirLine(f) /\ FieldMeans(f, params, type) = UnderKey(f, k)
    BY <1>5, <1>6, MeansUnderKey
  <2>2. Read(f, params).ok /\ Read(f, params).field = SfField(KeyField(f, k))
    BY <1>5, <2>1, ReadKeySf
  <2>3. Joined(SfField(KeyField(f, k))) = Joined(KeyField(f, k))
    BY SfAfterKey
  <2>4. Joined(KeyField(f, k)) = UnderKey(f, k)
    BY <2>1, KeyOnce
  <2> QED
    BY <2>1, <2>2, <2>3, <2>4
<1> QED
  BY <1>2, <1>3, <1>4, <1>5 DEF FieldShape

-----------------------------------------------------------------------------
(* The components of a request                                              *)

LEMMA FieldComponent ==
  ASSUME NEW id \in Ids, id.name # "@query-param", NEW m, IsRequest(m),
         NEW f, f = FieldOf(m.headers, id.name), NEW type
  PROVE  /\ IsField(f) /\ IsSeq(id.params) /\ FieldShape(id.params)
         /\ Reads(m, id) <=> IsText(f) /\ Read(f, id.params).ok
         /\ Line(m, id) = Joined(Read(f, id.params).field)
         /\ Meaning(m, id, type) = FieldMeans(f, id.params, type)
<1>1. id.name \notin DerivedComponentName /\ IsSeq(id.params) /\ FieldShape(id.params)
  BY FieldShapes
<1>2. IsField(f)
  <2>1. CASE ToLower(id.name) \in DOMAIN m.headers
    BY <2>1 DEF FieldOf, IsRequest
  <2>2. CASE ToLower(id.name) \notin DOMAIN m.headers
    BY <2>2, EmptyIsSeq DEF FieldOf, IsField
  <2> QED
    BY <2>1, <2>2
<1>3. ~HasParam(id, "req")
  <2>1. DOMAIN id.params = 1..Len(id.params)
    BY <1>1, SeqIsSeq DEF IsSeq
  <2>2. Len(id.params) \in {1, 2}
    BY <1>1 DEF FieldShape, OnlySf, OnlyKey, SfThenKey, KeyThenSf
  <2>3. /\ id.params[1].p \in {"sf", "key"}
        /\ Len(id.params) = 2 => id.params[2].p \in {"sf", "key"}
    BY <1>1 DEF FieldShape, OnlySf, OnlyKey, SfThenKey, KeyThenSf
  <2>4. PICK n : n = Len(id.params)
    OBVIOUS
  <2>5. \A i \in DOMAIN id.params : i = 1 \/ (i = 2 /\ Len(id.params) = 2)
    <3>1. CASE n = 1
      BY <2>1, <2>4, <3>1
    <3>2. CASE n = 2
      BY <2>1, <2>4, <3>2
    <3> QED
      BY <2>2, <2>4, <3>1, <3>2
  <2> QED
    BY <2>3, <2>5 DEF HasParam
<1>4. /\ Reads(m, id) <=> HttpFieldOk(m, id)
      /\ Line(m, id) = HttpFieldValue(m, id)
  BY <1>1, <1>3 DEF Reads, Line, ComponentOk, ComponentValue, Source, ExtractOk, ExtractValue
<1>5. HttpField(m, id) = Read(f, id.params)
  BY DEF HttpField, Read, AllApplied
<1>6. Meaning(m, id, type) = FieldMeans(f, id.params, type)
  <2>1. CASE KeysOf(id.params) = {}
    BY <2>1, Zenon DEF Meaning, FieldMeans, KeysOf
  <2>2. CASE KeysOf(id.params) # {}
    <3> DEFINE keys == KeysOf(id.params)
    <3>1. Meaning(m, id, type) =
            CASE id.name = "@query-param" -> Named(m.uri.query.parts, NameArg(id))
              [] id.name # "@query-param" /\ keys = {} -> Structured(f, type)
              [] OTHER -> UnderKey(f, CHOOSE k \in keys : TRUE)
      BY Zenon DEF Meaning, KeysOf
    <3> HIDE DEF keys
    <3>2. keys # {} /\ id.name # "@query-param"
      BY <2>2 DEF keys
    <3>3. Meaning(m, id, type) = UnderKey(f, CHOOSE k \in keys : TRUE)
      BY <3>1, <3>2
    <3> QED
      BY <2>2, <3>3 DEF FieldMeans, keys
  <2> QED
    BY <2>1, <2>2
<1> QED
  BY <1>1, <1>2, <1>4, <1>5, <1>6 DEF HttpFieldOk, HttpFieldValue

LEMMA QueryComponent ==
  ASSUME NEW id \in Ids, id.name = "@query-param", NEW m, IsRequest(m), NEW type
  PROVE  /\ Reads(m, id) <=> QueryParts(m) # <<>>
         /\ Line(m, id) = QueryParamValue(m, NameArg(id))
         /\ Meaning(m, id, type) = Named(m.uri.query.parts, NameArg(id))
<1> DEFINE P == id.params
           names == [i \in DOMAIN P |-> P[i].p]
<1>1. IsSeq(P) /\ names = <<"name">>
  BY IdsAssumption
<1>2. DOMAIN names = DOMAIN P /\ \A i \in DOMAIN P : names[i] = P[i].p
  OBVIOUS
<1> HIDE DEF names, P
<1>3. DOMAIN names = {1} /\ names[1] = "name"
  BY <1>1
<1>4. DOMAIN P = {1} /\ P[1].p = "name"
  BY <1>2, <1>3
<1>5. ~HasParam(id, "req") /\ HasParam(id, "name")
  BY <1>4 DEF HasParam, P
<1>6. m.kind = "request" /\ id.name \in DerivedComponentName
  BY DEF IsRequest, DerivedComponentName
<1>7. /\ Reads(m, id) <=> DerivedOk(m, id)
      /\ Line(m, id) = DerivedValue(m, id)
  BY <1>5, <1>6 DEF Reads, Line, ComponentOk, ComponentValue, Source, ExtractOk, ExtractValue
<1>8. DerivedAllowed(m, id)
  BY <1>4, <1>6 DEF DerivedAllowed, P
<1>9. DerivedBuilds(m, id) <=> QueryParts(m) # <<>>
  BY <1>5 DEF DerivedBuilds
<1>10. DerivedValue(m, id) = QueryParamValue(m, NameArg(id))
  BY Zenon DEF DerivedValue
<1>11. Meaning(m, id, type) = Named(m.uri.query.parts, NameArg(id))
  BY Zenon DEF Meaning
<1> QED
  BY <1>7, <1>8, <1>9, <1>10, <1>11 DEF DerivedOk

-----------------------------------------------------------------------------
(* One identifier, two requests                                             *)

LEMMA EqualLine ==
  ASSUME NEW a, IsRequest(a), NEW b, IsRequest(b), NEW id \in Ids,
         NEW type \in FieldTypes, Reads(a, id), Reads(b, id), Line(a, id) = Line(b, id),
         id.name # "@query-param" =>
           /\ IsOfType(FieldOf(a.headers, id.name), type)
           /\ IsOfType(FieldOf(b.headers, id.name), type)
  PROVE  Meaning(a, id, type) = Meaning(b, id, type)
<1>1. CASE id.name = "@query-param"
  <2>1. PICK v, w : Meaning(a, id, type) = v /\ Meaning(b, id, type) = w
    OBVIOUS
  <2>2. v # <<>> /\ Line(a, id) = IF v = <<<<"">>>> THEN <<>> ELSE v
    BY <1>1, <2>1, QueryComponent, QueryMeans
  <2>3. w # <<>> /\ Line(b, id) = IF w = <<<<"">>>> THEN <<>> ELSE w
    BY <1>1, <2>1, QueryComponent, QueryMeans
  <2> QED
    BY <2>1, <2>2, <2>3
<1>2. CASE id.name # "@query-param"
  <2>1. PICK f, h : f = FieldOf(a.headers, id.name) /\ h = FieldOf(b.headers, id.name)
    OBVIOUS
  <2>2. /\ IsField(f) /\ IsSeq(id.params) /\ FieldShape(id.params)
        /\ Read(f, id.params).ok /\ Line(a, id) = Joined(Read(f, id.params).field)
        /\ Meaning(a, id, type) = FieldMeans(f, id.params, type)
    BY <1>2, <2>1, FieldComponent
  <2>3. /\ IsField(h) /\ Read(h, id.params).ok /\ Line(b, id) = Joined(Read(h, id.params).field)
        /\ Meaning(b, id, type) = FieldMeans(h, id.params, type)
    BY <1>2, <2>1, FieldComponent
  <2>4. IsOfType(f, type) /\ IsOfType(h, type)
    BY <1>2, <2>1
  <2>5. FieldMeans(f, id.params, type) = FieldMeans(h, id.params, type)
    BY <2>2, <2>3, <2>4, TextMeans
  <2> QED
    BY <2>2, <2>3, <2>5
<1> QED
  BY <1>1, <1>2

LEMMA FieldLine ==
  ASSUME NEW m, IsRequest(m), NEW id \in Ids, id.name # "@query-param", NEW type \in FieldTypes,
         SaysWhatItMeans(m, id, type)
  PROVE  Reads(m, id) /\ Line(m, id) = Meaning(m, id, type)
<1>1. PICK f : f = FieldOf(m.headers, id.name)
  OBVIOUS
<1>2. IsOfType(f, type) /\ FieldSays(f, id.params, type)
  <2>1. /\ IsOfType(f, type) /\ (type = "list" => ~HasParam(id, "key"))
        /\ type = "dictionary" => KeysSignedOnce(f, id)
    BY <1>1 DEF SaysWhatItMeans
  <2>2. KeysSignedOnce(f, id) =>
          IF HasParam(id, "key") THEN KeysStayOnTheirLine(f) ELSE KeysComeOnce(f)
    <3>1. IsField(f)
      BY <1>1, FieldComponent
    <3>2. \A i \in DOMAIN f : SameLine(f, i, i)
      BY <3>1, FieldIs DEF SameLine
    <3> QED
      BY <3>2 DEF KeysSignedOnce, KeysStayOnTheirLine, KeysComeOnce
  <2> QED
    BY <2>1, <2>2 DEF FieldSays, HasParam
<1>3. /\ IsField(f) /\ IsSeq(id.params) /\ FieldShape(id.params)
      /\ Reads(m, id) <=> IsText(f) /\ Read(f, id.params).ok
      /\ Line(m, id) = Joined(Read(f, id.params).field)
      /\ Meaning(m, id, type) = FieldMeans(f, id.params, type)
  BY <1>1, FieldComponent
<1>4. IsText(f)
  BY <1>2 DEF IsOfType, IsListMember, IsDictionary, IsText
<1>5. Read(f, id.params).ok /\ Joined(Read(f, id.params).field) = FieldMeans(f, id.params, type)
  BY <1>2, <1>3, TextIsMeaning
<1> QED
  BY <1>3, <1>4, <1>5

LEMMA EqualMeaning ==
  ASSUME NEW a, IsRequest(a), NEW b, IsRequest(b), NEW id \in Ids,
         NEW type \in FieldTypes, Reads(a, id), Meaning(a, id, type) = Meaning(b, id, type),
         IF id.name = "@query-param" THEN QueryParts(b) # <<>>
         ELSE SaysWhatItMeans(a, id, type) /\ SaysWhatItMeans(b, id, type)
  PROVE  Reads(b, id) /\ Line(a, id) = Line(b, id)
<1>1. CASE id.name = "@query-param"
  <2>1. PICK v, line : /\ Meaning(a, id, type) = v /\ Meaning(b, id, type) = v
                       /\ line = IF v = <<<<"">>>> THEN <<>> ELSE v
    OBVIOUS
  <2>2. Line(a, id) = line
    BY <1>1, <2>1, QueryComponent, QueryMeans
  <2>3. Line(b, id) = line
    BY <1>1, <2>1, QueryComponent, QueryMeans
  <2>4. Reads(b, id)
    BY <1>1, QueryComponent
  <2> QED
    BY <2>2, <2>3, <2>4
<1>2. CASE id.name # "@query-param"
  BY <1>2, FieldLine
<1> QED
  BY <1>1, <1>2

-----------------------------------------------------------------------------
(* What arrives is a request, whatever was changed on its way               *)

LEMMA RequestWithField ==
  ASSUME NEW m, IsRequest(m), NEW f \in DOMAIN m.headers, NEW field, IsField(field)
  PROVE  IsRequest([m EXCEPT !.headers[f] = field])
<1> DEFINE n == [m EXCEPT !.headers[f] = field]
<1>1. {"headers", "uri"} \subseteq DOMAIN m
  BY DEF IsRequest
<1>2. /\ DOMAIN n = DOMAIN m /\ n.kind = m.kind /\ n.uri = m.uri
      /\ n.headers = [m.headers EXCEPT ![f] = field]
  BY <1>1
<1> HIDE DEF n
<1>3. \A g \in DOMAIN n.headers : g \in DOMAIN m.headers /\ n.headers[g] = IF g = f THEN field ELSE m.headers[g]
  BY <1>2
<1>4. \A g \in DOMAIN n.headers : IsField(n.headers[g])
  BY <1>3 DEF IsRequest
<1>5. IsRequest(n)
  BY <1>2, <1>4 DEF IsRequest
<1> QED
  BY <1>5 DEF n

LEMMA RequestWithQuery ==
  ASSUME NEW m, IsRequest(m), NEW parts, IsSeq(parts), \A i \in DOMAIN parts : IsPart(parts[i]),
         ~m.uri.query.present => parts = <<>>
  PROVE  IsRequest([m EXCEPT !.uri.query.parts = parts])
<1> DEFINE n == [m EXCEPT !.uri.query.parts = parts]
<1>1. /\ {"headers", "uri"} \subseteq DOMAIN m /\ "query" \in DOMAIN m.uri
      /\ {"present", "parts"} \subseteq DOMAIN m.uri.query
  BY DEF IsRequest
<1>2. /\ DOMAIN n = DOMAIN m /\ n.kind = m.kind /\ n.headers = m.headers
      /\ n.uri = [m.uri EXCEPT !.query = [m.uri.query EXCEPT !.parts = parts]]
  BY <1>1
<1> HIDE DEF n
<1>3. "query" \in DOMAIN n.uri /\ n.uri.query = [m.uri.query EXCEPT !.parts = parts]
  BY <1>1, <1>2
<1>4. /\ DOMAIN n.uri.query = DOMAIN m.uri.query
      /\ n.uri.query.present = m.uri.query.present /\ n.uri.query.parts = parts
  BY <1>1, <1>3
<1>5. IsRequest(n)
  BY <1>2, <1>3, <1>4 DEF IsRequest
<1> QED
  BY <1>5 DEF n

LEMMA FieldWithMember ==
  ASSUME NEW f, IsField(f), NEW i \in DOMAIN f, NEW m, IsMember(m)
  PROVE  IsField([f EXCEPT ![i] = m])
<1> DEFINE g == [f EXCEPT ![i] = m]
<1>1. DOMAIN f = 1..Len(f) /\ Len(f) \in Nat
  BY FieldIs
<1>2. g = [j \in 1..Len(f) |-> g[j]] /\ DOMAIN g = DOMAIN f
  BY <1>1
<1>3. \A j \in DOMAIN f : g[j] = IF j = i THEN m ELSE f[j]
  OBVIOUS
<1> HIDE DEF g
<1>4. IsSeq(g)
  BY <1>1, <1>2, FunIsSeq
<1>5. IsField(g)
  BY <1>2, <1>3, <1>4, FieldIs DEF IsField
<1> QED
  BY <1>5 DEF g

LEMMA MemberMoved ==
  ASSUME NEW m, IsMember(m), NEW b
  PROVE  IsMember([m EXCEPT !.first = b])
<1> DEFINE w == [m EXCEPT !.first = b]
<1>1. DOMAIN w = DOMAIN m /\ w.key = m.key /\ w.form = m.form
  BY DEF IsMember
<1> HIDE DEF w
<1>2. IsMember(w)
  BY <1>1 DEF IsMember
<1> QED
  BY <1>2 DEF w

LEMMA FieldAppended ==
  ASSUME NEW f, IsField(f), NEW m, IsMember(m)
  PROVE  IsField(Append(f, m))
<1> DEFINE g == Append(f, m)
<1>1. IsSeq(f) /\ DOMAIN f = 1..Len(f) /\ \A i \in DOMAIN f : IsMember(f[i])
  BY FieldIs
<1>2. /\ IsSeq(g) /\ Len(f) \in Nat /\ Len(g) = Len(f) + 1
      /\ \A i \in 1..Len(f) : g[i] = f[i]
      /\ g[Len(f) + 1] = m
  BY <1>1, AppendIsSeq
<1> HIDE DEF g
<1>3. DOMAIN g = 1..(Len(f) + 1)
  BY <1>2, SeqIsSeq DEF IsSeq
<1>4. ASSUME NEW i \in DOMAIN g PROVE IsMember(g[i])
  <2>1. i \in 1..Len(f) \/ i = Len(f) + 1
    BY <1>2, <1>3
  <2> QED
    BY <1>1, <1>2, <2>1
<1>5. IsField(g)
  BY <1>2, <1>4 DEF IsField
<1> QED
  BY <1>5 DEF g

LEMMA FieldDropped ==
  ASSUME NEW f, IsField(f), NEW i \in DOMAIN f
  PROVE  IsField(DropMember(f, i))
<1> DEFINE g == DropMember(f, i)
<1>1. IsSeq(f) /\ Len(f) \in Nat /\ DOMAIN f = 1..Len(f) /\ \A j \in DOMAIN f : IsMember(f[j])
  BY FieldIs
<1>2. IsSeq(g) /\ DOMAIN g = 1..(Len(f) - 1)
  BY <1>1, DropIsSeq DEF DropMember
<1>3. ASSUME NEW j \in DOMAIN g PROVE IsMember(g[j])
  <2>1. j \in DOMAIN f /\ j + 1 \in DOMAIN f
    BY <1>1, <1>2
  <2>2. CASE j < i
    BY <1>1, <1>2, <2>1, <2>2 DEF DropMember
  <2>3. CASE ~(j < i)
    <3>1. \E m, b : IsMember(m) /\ g[j] = [m EXCEPT !.first = b]
      <4>1. PICK m : m = f[j + 1]
        OBVIOUS
      <4>2. g[j] = [m EXCEPT !.first = m.first \/ (j = i /\ f[i].first)]
        BY <1>2, <2>3, <4>1 DEF DropMember
      <4> HIDE DEF g
      <4> QED
        BY <1>1, <2>1, <4>1, <4>2
    <3> HIDE DEF g
    <3> QED
      BY <3>1, MemberMoved
  <2> QED
    BY <2>2, <2>3
<1> HIDE DEF g
<1>4. IsField(g)
  BY <1>2, <1>3 DEF IsField
<1> QED
  BY <1>4 DEF g

LEMMA PartAppended ==
  ASSUME NEW parts, IsSeq(parts), \A i \in DOMAIN parts : IsPart(parts[i]), NEW part, IsPart(part)
  PROVE  LET new == Append(parts, part) IN IsSeq(new) /\ \A i \in DOMAIN new : IsPart(new[i])
<1> DEFINE g == Append(parts, part)
<1>1. /\ IsSeq(g) /\ Len(parts) \in Nat /\ Len(g) = Len(parts) + 1
      /\ \A i \in 1..Len(parts) : g[i] = parts[i]
      /\ g[Len(parts) + 1] = part /\ DOMAIN parts = 1..Len(parts)
  BY AppendIsSeq, SeqIsSeq DEF IsSeq
<1> HIDE DEF g
<1>2. DOMAIN g = 1..(Len(parts) + 1)
  BY <1>1, SeqIsSeq DEF IsSeq
<1>3. ASSUME NEW i \in DOMAIN g PROVE IsPart(g[i])
  <2>1. i \in 1..Len(parts) \/ i = Len(parts) + 1
    BY <1>1, <1>2
  <2> QED
    BY <1>1, <2>1
<1> QED
  BY <1>1, <1>3 DEF g

LEMMA PartRemoved ==
  ASSUME NEW parts, IsSeq(parts), \A i \in DOMAIN parts : IsPart(parts[i]), NEW n \in DOMAIN parts
  PROVE  LET new == RemoveAt(parts, n) IN IsSeq(new) /\ \A i \in DOMAIN new : IsPart(new[i])
<1> DEFINE S == {x \in ToSet(parts) : IsPart(x)}
           g == RemoveAt(parts, n)
<1>1. DOMAIN parts = 1..Len(parts) /\ Len(parts) \in Nat /\ parts = [i \in DOMAIN parts |-> parts[i]]
  BY SeqIsSeq DEF IsSeq
<1>2. \A i \in DOMAIN parts : parts[i] \in S
  BY DEF ToSet
<1> HIDE DEF S
<1>3. parts \in Seq(S)
  BY <1>1, <1>2, SeqDef
<1>4. g \in Seq(S)
  <2>1. SubSeq(parts, 1, n - 1) \in Seq(S) /\ SubSeq(parts, n + 1, Len(parts)) \in Seq(S)
    BY <1>1, <1>3, SubSeqProperties
  <2> QED
    BY <2>1, ConcatProperties DEF RemoveAt
<1> HIDE DEF g
<1>5. \A i \in DOMAIN g : g[i] \in S
  BY <1>4
<1>6. IsSeq(g) /\ \A i \in DOMAIN g : IsPart(g[i])
  BY <1>4, <1>5, SeqIsSeq DEF S
<1> QED
  BY <1>6 DEF g

-----------------------------------------------------------------------------
(* The inductive invariant: on both ends a request with its headers in      *)
(* order, which the change of a hop never breaks.                           *)
TransitInv == IsRequest(sent) /\ IsRequest(msg)

LEMMA TransitInvInit == TransitInit => TransitInv
BY RequestsAssumption DEF TransitInit, TransitInv

LEMMA TransitInvStep == TransitInv /\ [TransitNext]_vars => TransitInv'
<1> SUFFICES ASSUME TransitInv, [TransitNext]_vars PROVE TransitInv'
  OBVIOUS
<1> USE DEF TransitInv
<1>1. ASSUME NEW m, IsRequest(m), Hop(m) PROVE TransitInv'
  BY <1>1 DEF Hop
<1>2. ASSUME NEW f \in DOMAIN msg.headers, NEW field, IsField(field), Hop(WithField(f, field))
      PROVE  TransitInv'
  <2>1. IsRequest(WithField(f, field))
    BY <1>2, RequestWithField DEF WithField
  <2> QED
    BY <1>1, <1>2, <2>1
<1>3. ASSUME NEW f \in DOMAIN msg.headers PROVE IsField(msg.headers[f])
  BY <1>3 DEF IsRequest
<1>4. ASSUME NEW f \in DOMAIN msg.headers, JoinOrSplit(f) PROVE TransitInv'
  <2>1. PICK field, i : /\ field = msg.headers[f] /\ i \in 2..Len(field)
                        /\ Hop(WithField(f, [field EXCEPT ![i].first = ~@]))
    BY <1>4 DEF JoinOrSplit
  <2>2. IsField(field) /\ i \in DOMAIN field
    BY <1>3, <2>1, FieldIs
  <2>3. PICK m : m = [field[i] EXCEPT !.first = ~@]
    OBVIOUS
  <2>4. IsMember(m)
    BY <2>2, <2>3, FieldIs, MemberMoved
  <2>5. [field EXCEPT ![i].first = ~@] = [field EXCEPT ![i] = m]
    BY <2>3
  <2>6. IsField([field EXCEPT ![i] = m])
    BY <2>2, <2>4, FieldWithMember
  <2> QED
    BY <1>2, <2>1, <2>5, <2>6
<1>5. ASSUME NEW f \in DOMAIN msg.headers, Rewrite(f) PROVE TransitInv'
  <2>1. PICK field, i : /\ field = msg.headers[f] /\ i \in DOMAIN field
                        /\ Hop(WithField(f, [field EXCEPT ![i].val = Canonical(@)]))
    BY <1>5 DEF Rewrite
  <2>2. IsField(field)
    BY <1>3, <2>1
  <2>3. PICK m : m = [field[i] EXCEPT !.val = Canonical(@)]
    OBVIOUS
  <2>4. IsMember(m)
    BY <2>1, <2>2, <2>3, FieldIs, MemberWritten
  <2>5. [field EXCEPT ![i].val = Canonical(@)] = [field EXCEPT ![i] = m]
    BY <2>3
  <2>6. IsField([field EXCEPT ![i] = m])
    BY <2>1, <2>2, <2>4, FieldWithMember
  <2> QED
    BY <1>2, <2>1, <2>5, <2>6
<1>6. ASSUME NEW f \in DOMAIN msg.headers, Add(f) PROVE TransitInv'
  <2>1. PICK m \in Members : Hop(WithField(f, Append(msg.headers[f], m)))
    BY <1>6 DEF Add
  <2>2. IsField(Append(msg.headers[f], m))
    BY <1>3, FieldAppended, RequestsAssumption
  <2> QED
    BY <1>2, <2>1, <2>2
<1>7. ASSUME NEW f \in DOMAIN msg.headers, Drop(f) PROVE TransitInv'
  <2>1. PICK i \in DOMAIN msg.headers[f] : Hop(WithField(f, DropMember(msg.headers[f], i)))
    BY <1>7 DEF Drop
  <2>2. IsField(DropMember(msg.headers[f], i))
    BY <1>3, FieldDropped
  <2> QED
    BY <1>2, <2>1, <2>2
<1>8. /\ IsSeq(msg.uri.query.parts)
      /\ \A i \in DOMAIN msg.uri.query.parts : IsPart(msg.uri.query.parts[i])
      /\ ~msg.uri.query.present => msg.uri.query.parts = <<>>
  BY DEF IsRequest
<1>9. ASSUME NEW parts, IsSeq(parts), \A i \in DOMAIN parts : IsPart(parts[i]),
             msg.uri.query.present, Hop(WithQuery(parts))
      PROVE  TransitInv'
  <2>1. IsRequest(WithQuery(parts))
    BY <1>9, RequestWithQuery DEF WithQuery
  <2> QED
    BY <1>1, <1>9, <2>1
<1>10. CASE AddQueryEntry
  <2>1. PICK part \in QueryEntries :
          msg.uri.query.present /\ Hop(WithQuery(Append(msg.uri.query.parts, part)))
    BY <1>10 DEF AddQueryEntry
  <2>2. IsPart(part)
    BY RequestsAssumption
  <2> QED
    BY <1>8, <1>9, <2>1, <2>2, PartAppended
<1>11. CASE DropQueryEntry
  <2>1. PICK i \in DOMAIN msg.uri.query.parts : Hop(WithQuery(RemoveAt(msg.uri.query.parts, i)))
    BY <1>11 DEF DropQueryEntry
  <2>2. msg.uri.query.present
    BY <1>8, EmptyIsSeq
  <2> QED
    BY <1>8, <1>9, <2>1, <2>2, PartRemoved
<1>12. CASE Done
  BY <1>12 DEF Done, vars
<1>13. CASE UNCHANGED vars
  BY <1>13 DEF vars
<1> QED
  BY <1>4, <1>5, <1>6, <1>7, <1>10, <1>11, <1>12, <1>13 DEF TransitNext

LEMMA TransitAlwaysInv == TransitSpec => []TransitInv
BY TransitInvInit, TransitInvStep, PTL DEF TransitSpec

(* A signature that still verifies is about the request that was signed:    *)
(* as long as the fields are lists or dictionaries, a component that        *)
(* extract_http_message_component reads the same on both ends says the      *)
(* same, though it reads line by line, joins what it read and writes an     *)
(* empty query parameter as none.  So it is for every request, every        *)
(* identifier with `sf`, `key` or `name`, and any number of hops.           *)
THEOREM EqualLinesAlwaysMean == TransitSpec => []EqualLinesEqualMeaning
<1>1. TransitInv => EqualLinesEqualMeaning
  BY EqualLine DEF TransitInv, EqualLinesEqualMeaning
<1> QED
  BY <1>1, TransitAlwaysInv, PTL

(* What does not change the meaning never breaks a signature: lines joined  *)
(* and split, structured values written anew, and members and query         *)
(* parameters that the component does not name may come and go, and         *)
(* handle_params_sf, handle_params_key_into and the @query-param branch of  *)
(* extract_derived_component still give the value that was signed, as long  *)
(* as no key of a dictionary comes back on another line or, under `sf`, on  *)
(* a line of bare keys, which is taken for a list.                          *)
THEOREM EqualMeaningAlwaysSigns == TransitSpec => []EqualMeaningEqualLines
<1>1. TransitInv => EqualMeaningEqualLines
  <2> SUFFICES ASSUME TransitInv, NEW id \in Ids,
                      NEW type \in FieldTypes,
                      Reads(sent, id), Meaning(sent, id, type) = Meaning(msg, id, type),
                      IF id.name = "@query-param"
                      THEN QueryParts(msg) # <<>>
                      ELSE \A m \in {sent, msg} : SaysWhatItMeans(m, id, type)
               PROVE  Reads(msg, id) /\ Line(sent, id) = Line(msg, id)
    BY Zenon DEF EqualMeaningEqualLines
  <2> QED
    BY EqualMeaning DEF TransitInv
<1> QED
  BY <1>1, TransitAlwaysInv, PTL
=============================================================================
