--------------------------- MODULE MCParamsBuilder ---------------------------
(***************************************************************************)
(* A small instance of ParamsBuilder for TLC.                               *)
(***************************************************************************)
EXTENDS ParamsBuilder

NoMapping == [s \in {} |-> s]
MCUnknownDerived == {"@unknown"}

Id(name) == [name |-> name, params |-> <<>>]
WithParams(name, ps) == [name |-> name, params |-> [i \in DOMAIN ps |-> [p |-> ps[i], arg |-> ""]]]

(* `req` and `sf` in either order are the same component.                   *)
MCCoverings ==
  {<<>>, <<Id("date"), Id("@method")>>,
   <<WithParams("date", <<"req", "sf">>), Id("date")>>,
   <<WithParams("date", <<"req", "sf">>), WithParams("date", <<"sf", "req">>)>>}

MCUnparsable == {"say \"hi\""}
MCReread == {"a\";b=\"c"}
MCOpaque == {"caf\\u00e9"}
MCStrings == MCUnparsable \cup MCReread \cup MCOpaque
MCKeyInfos == {[keyid |-> "k1", alg |-> "ed25519"]}
MCRandomNonces == {"cmFuZG9t"}

MCTimes == {0, 600, 1000}
MCDurations == {{}, {1}, {900}}
MCPauses == {300, 301}

Number(v) == [type |-> "integer", value |-> v]
Quoted(v) == [type |-> "string", value |-> v]
Text(form, covered, names, values) ==
  [form |-> form, covered |-> covered,
   list |-> [n \in {names[i] : i \in DOMAIN names} |->
               LET i == CHOOSE i \in DOMAIN names : names[i] = n IN values[i]]]

MCForeignTexts ==
  {Text("entry", <<Id("date")>>, <<>>, <<>>),                            \* no created
   Text("entry", <<Id("date")>>, <<"created", "x">>, <<Number(0), Number(1)>>),
   Text("entry", <<Id("date")>>, <<"created", "nonce">>, <<Quoted("now"), Number(7)>>),
   Text("entry", <<Id("date")>>, <<"created">>, <<Number(-1)>>),
   Text("entry", <<Id("date")>>, <<"expires">>, <<Number(-1)>>),
   Text("entry", <<Id("date"), Id("date")>>, <<>>, <<>>),
   Text("entry", <<Id("@unknown")>>, <<>>, <<>>),
   Text("entry", <<WithParams("@method", <<"sf">>)>>, <<>>, <<>>),
   Text("item", <<>>, <<>>, <<>>),                                       \* no inner list
   Text("text", <<>>, <<>>, <<>>)}
==============================================================================
