------------------------ MODULE MCGraphMaintenance ------------------------
(***************************************************************************)
(* Values for model-checking GraphMaintenance: "rust" and "rust-lang" are  *)
(* one entity under normalize_entity_key, "used_in" is a variant of "uses".*)
(***************************************************************************)
EXTENDS GraphMaintenance

MCName == {"rust", "rust-lang", "tokio", "tokio-rs"}
MCKey == [n \in MCName |-> IF n = "rust-lang" THEN "rust" ELSE n]
MCRank == [n \in MCName |->
              CASE n = "rust" -> 1 [] n = "tokio" -> 2 [] n = "tokio-rs" -> 3 [] OTHER -> 4]
MCLabel == {"uses", "used_in"}
MCCanon == [l \in MCLabel |-> "uses"]

NoAliases == [n \in MCName |-> {}]

\* The same two things met under different names, in different words.
MCChunk ==
    [t \in {"m1", "m2"} |->
        IF t = "m1"
        THEN [entities |-> {"rust"}, aliases |-> NoAliases, memory |-> {"rust", "tokio"},
              relations |-> {<<"tokio", "uses", "rust">>}]
        ELSE [entities |-> {"tokio"}, memory |-> {"rust-lang", "tokio"},
              aliases |-> [NoAliases EXCEPT !["tokio"] = {"tokio-rs"}],
              relations |-> {<<"tokio", "used_in", "rust-lang">>}]]

=============================================================================
