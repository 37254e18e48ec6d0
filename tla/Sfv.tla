-------------------------------- MODULE Sfv ---------------------------------
(***************************************************************************)
(* Header fields as the code under src/ meets them: the lines of one field  *)
(* of an http::HeaderMap, and what the sfv crate reads in them.  Neither    *)
(* crate is part of the repository: this module models what the code        *)
(* relies on.                                                               *)
(*                                                                          *)
(* A field is the sequence of its members, over all its lines in order.  A  *)
(* member is [form, key, val, first]:                                       *)
(*   form  "entry"   a dictionary member  key=val, or a bare  key           *)
(*         "item"    a list item that is no key (key is "")                 *)
(*         "text"    text no structured-field parser accepts                *)
(*         "opaque"  bytes that are not visible ASCII                       *)
(*   val   a pair <<type, content>>; the types are "bytes" (a byte          *)
(*         sequence), "inner" (an inner list), "token" (anything else,      *)
(*         serialized canonically) and "loose" (the same, not canonical)    *)
(*   first the member is the first one of its line                          *)
(* A bare key is a token of a list and a key of a dictionary whose value is *)
(* true: here an entry with the value True.  key=?1 is the same member in a *)
(* dictionary, <<"loose", "?1">>, and none of a list.                       *)
(* The absent field is <<>>; no line is empty (the code reads an empty line *)
(* and an absent field as the same text).                                   *)
(***************************************************************************)
EXTENDS Naturals, Sequences, SequencesExt

(* A sequence, whatever its elements are.                                   *)
IsSeq(s) == s \in Seq(ToSet(s))

(* A line of one member, as HeaderMap::append adds it.                      *)
Member(form, key, val) == [form |-> form, key |-> key, val |-> val, first |-> TRUE]

(* A field without its i-th member; the rest of the line stays a line.      *)
DropMember(field, i) ==
  [j \in 1..(Len(field) - 1) |->
     IF j < i THEN field[j]
     ELSE [field[j + 1] EXCEPT !.first = @ \/ (j = i /\ field[i].first)]]

(* Lines joined with ", ", the way the library reads every field it signs;  *)
(* the boundaries between the lines are gone.                               *)
Joined(field) == [i \in DOMAIN field |-> <<field[i].key, field[i].val>>]

(* HeaderValue::to_str succeeds on every line.                              *)
IsText(field) == \A i \in DOMAIN field : field[i].form # "opaque"

(* The joined field parses as a dictionary.                                 *)
IsDictionary(field) == \A i \in DOMAIN field : field[i].form = "entry"

(* Members i and j stand on the same line.                                  *)
SameLine(field, i, j) ==
  \A m \in DOMAIN field : (m > i /\ m <= j) \/ (m > j /\ m <= i) => ~field[m].first

(* sfv::List accepts items and bare keys, and a line that has nothing else. *)
True == <<"token", "?1">>
IsListMember(m) == m.form = "item" \/ (m.form = "entry" /\ m.val = True)
OnListLine(field, i) == \A j \in DOMAIN field : SameLine(field, i, j) => IsListMember(field[j])
OnDictionaryLine(field, i) ==
  \A j \in DOMAIN field : SameLine(field, i, j) => field[j].form = "entry"

(* The elements of s at the positions in `at`, in their order.              *)
Selected(s, at) ==
  LET upTo[n \in 0..Len(s)] ==
        IF n = 0 THEN <<>>
        ELSE IF n \in at THEN Append(upTo[n - 1], s[n]) ELSE upTo[n - 1]
  IN  upTo[Len(s)]

(* sfv::Dictionary of the joined field: a repeated key keeps the position   *)
(* of its first member and the value of its last.                           *)
DictKeys(field) ==
  LET firsts == Selected(field, {i \in DOMAIN field :
                  \A j \in DOMAIN field : j < i => field[j].key # field[i].key})
  IN  [n \in DOMAIN firsts |-> firsts[n].key]

DictValue(field, key) ==
  field[CHOOSE i \in DOMAIN field :
          /\ field[i].key = key
          /\ \A j \in DOMAIN field : j > i => field[j].key # key].val

Canonical(val) == IF val[1] = "loose" THEN <<"token", val[2]>> ELSE val
=============================================================================
