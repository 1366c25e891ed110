------------------------------ MODULE MCPages ------------------------------
(***************************************************************************)
(* Small instances of Pages: a mention at some places of three documents,  *)
(* updates of the same documents with two edits, a mention in a pane, and  *)
(* the history.                                                            *)
(***************************************************************************)
EXTENDS Pages

\* Documents with a header, written by ann before the first revision.
Doc(kinds) == [i \in DOMAIN kinds |-> Char(kinds[i], <<"base", i>>, "ann")]
Text == Doc(<<"word", "newline", "word", "newline", "word", "newline">>)
WithPane == Doc(<<"word", "newline", "word", "pane", "newline", "word">>)
WithBlocks == Doc(<<"word", "newline", "image", "image", "word", "newline">>)
Documents == {Text, WithPane, WithBlocks}

Mail(doc, first, kind, mentioned) ==
    [base |-> doc, log |-> first, kind |-> kind, user |-> "ann", mentioned |-> mentioned,
     revision |-> Len(first), at |-> IF kind = "none" THEN "nothing" ELSE "find"]

Mentioning(at) == <<Insertion(at, Char("mention", <<"revision", 1>>, "ann"))>>

MCMailScenarios ==
    {Mail(Text, Mentioning(at), "mention", "bob") : at \in {0, 3, 5}}
    \cup {Mail(WithPane, Mentioning(3), "mention", "bob"),
          Mail(WithBlocks, Mentioning(2), "mention", "bob")}
    \cup {Mail(Text, Mentioning(3), "mention", mentioned) : mentioned \in {"ann", "everyone"}}
    \cup {Mail(doc, << >>, "update", "nobody") : doc \in Documents}
    \cup {Mail(WithPane, << >>, "paneMention", "bob"), Mail(Text, << >>, "none", "nobody")}

\* A month ago: four units, but later once, and earlier again one unit later.
MCLastMonth == [t \in 0..5 |-> CASE t = 4 -> 1 [] t = 5 -> 0 [] OTHER -> t - 4]

Pauses(a, b, c, d) ==
    [pastDay |-> a, pastWeek |-> b, pastMonth |-> c, greater |-> d]

\* In order, in order but for what is old the same, and the other way round.
MCFlags == {Pauses(0, 1, 2, 3), Pauses(0, 0, 0, 1), Pauses(3, 2, 1, 0)}
=============================================================================
