------------------------------ MODULE MCTransit -----------------------------
(***************************************************************************)
(* A small instance of Transit for TLC.                                     *)
(***************************************************************************)
EXTENDS Transit, TLC

Par(p, arg) == [p |-> p, arg |-> arg]
Id(name, params) == [name |-> name, params |-> params]

Entry(key, type, content) == Member("entry", key, <<type, content>>)
SameLineAs(m) == [m EXCEPT !.first = FALSE]

Get(field, parts) ==
  [kind |-> "request", method |-> "GET", headers |-> "priority" :> field,
   uri |-> [scheme |-> "", authority |-> "", path |-> "/p",
            query |-> [present |-> TRUE, parts |-> parts]]]

MCIds ==
  {Id("priority", <<Par("sf", "")>>), Id("Priority", <<Par("key", "u")>>),
   Id("priority", <<Par("sf", ""), Par("key", "u")>>),
   Id("priority", <<Par("key", "u"), Par("sf", "")>>),
   Id("@query-param", <<Par("name", "id")>>)}

Bare(key) == Member("entry", key, True)

MCMembers == {Entry("u", "token", "1"), SameLineAs(Entry("u", "loose", "2")), SameLineAs(Bare("u")),
              Entry("i", "token", "1"), Member("item", "", <<"token", "1">>),
              Member("text", "", <<"token", "?">>)}

MCQueryEntries == {<<"id", "1">>, <<"id", "">>, <<"id">>, <<"">>, <<"q", "1">>}

MCRequests ==
  {Get(<<>>, <<<<"id", "">>>>),
   Get(<<Entry("u", "loose", "1"), SameLineAs(Entry("i", "loose", "1"))>>, <<<<"id", "1">>, <<"q", "1">>>>),
   Get(<<Entry("u", "token", "2"), SameLineAs(Entry("u", "token", "1")), Entry("i", "token", "1")>>,
       <<<<"id", "1">>, <<"id", "2">>>>),
   Get(<<Entry("u", "token", "1"), Entry("u", "token", "2")>>, <<<<"id">>>>),
   Get(<<Member("item", "", <<"loose", "1">>), Member("item", "", <<"token", "2">>)>>, <<<<"q", "1">>>>),
   Get(<<Bare("u"), SameLineAs(Bare("i")), SameLineAs(Entry("u", "loose", "?1"))>>, <<<<"id">>, <<"id", "1">>>>),
   Get(<<Bare("i"), SameLineAs(Bare("u"))>>, <<>>)}

MCLower == "Priority" :> "priority"
=============================================================================
