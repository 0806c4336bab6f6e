------------------------------ MODULE MCImports ------------------------------
(***************************************************************************)
(* Outside for TLC.  Two features; files of the same two rows in other     *)
(* bytes, and of one of them; two repositories, of which one is pushed to, *)
(* whose tests resemble the cases of one feature or both.                  *)
(***************************************************************************)
EXTENDS Outside, TLC

CONSTANTS t1, t2

MCContent == ("a" :> <<1, 2>>) @@ ("b" :> <<1, 2>>) @@ ("c" :> <<1>>)
MCMatches == {<<1, "f">>, <<1, "g">>, <<2, "g">>}
MCBacked == {<<1, "f">>, <<1, "g">>}

Title(words) == [tokens |-> words, verbs |-> {}, paths |-> {}, codes |-> {}]
TestFile(titles) == <<[path |-> "t", test |-> TRUE, big |-> FALSE, titles |-> titles]>>
MCCasesOf == [f |-> <<Title({"pay"})>>, g |-> <<Title({"cart", "add"})>>]
MCArchives == [r |-> <<TestFile(<<Title({"pay", "card"})>>), TestFile(<<Title({"cart", "add"})>>)>>,
               q |-> <<TestFile(<<Title({"pay", "add"})>>)>>]

Interchange == Permutations(Threads)
=============================================================================
