--------------------------- MODULE MCRelabelling ---------------------------
(***************************************************************************)
(* Values for model-checking Relabelling: a workflow's transcript of       *)
(* project p, one of rust-cli whose lines carry no working directory and   *)
(* whose directory's name decodes to cli, and one of q that lies outside   *)
(* of the projects directory and whose directory has another name.         *)
(* "gotcha", "gotchas" and "pitfall" resemble one another, and "trap" only *)
(* "pitfall".                                                              *)
(***************************************************************************)
EXTENDS Relabelling

MCTranscript ==
    [m \in Memo |->
        CASE m = "m1" -> [home |-> "p", decoded |-> "p", cwd |-> TRUE, place |-> "projects",
                          segment |-> "wf"]
          [] m = "m2" -> [home |-> "rust-cli", decoded |-> "cli", cwd |-> FALSE,
                          place |-> "projects", segment |-> ""]
          [] m = "m3" -> [home |-> "q", decoded |-> "dir", cwd |-> TRUE, place |-> "elsewhere",
                          segment |-> ""]]

MCSlug ==
    [label \in {"Preference", "gotcha", "gotchas", "pitfall", "trap", "fact"} |->
        IF label = "Preference" THEN "preference" ELSE label]
Answer(decision, label, seed) == [decision |-> decision, label |-> label, seed |-> seed]
MCAnswers ==
    {Answer("global", "Preference", FALSE), Answer("project", "gotchas", FALSE),
     Answer("global", "gotcha", TRUE), Answer("project", "pitfall", FALSE)}
MCUnparsed == Answer("global", "fact", FALSE)
MCCorrections == {[scope |-> <<"r">>, label |-> "trap", seed |-> FALSE]}

MCAlike ==
    LET near == {{"gotcha", "gotchas"}, {"gotcha", "pitfall"}, {"gotchas", "pitfall"},
                 {"pitfall", "trap"}}
    IN  {p \in (UNION near) \X (UNION near) : {p[1], p[2]} \in near}
MCRank ==
    [c \in {"preference", "gotcha", "gotchas", "pitfall", "trap", "fact"} |->
        CASE c = "fact" -> 1 [] c = "trap" -> 2 [] c = "gotcha" -> 3 [] c = "gotchas" -> 4
          [] c = "pitfall" -> 5 [] c = "preference" -> 6]

=============================================================================
