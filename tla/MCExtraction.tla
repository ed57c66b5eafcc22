---------------------------- MODULE MCExtraction ----------------------------
(* Extraction on batches of up to three sources (four are too many), with     *)
(* identifiers and names that are blank or alike once stripped.               *)
EXTENDS Extraction, TLC

Word(w)   == [word |-> w, padded |-> FALSE]
Padded(w) == [word |-> w, padded |-> TRUE]

Text(id, size) == [id |-> id, size |-> size]

Texts == {Text(Word("a"), 1), Text(Padded("a"), 1), Text(Word("b"), 1), Text(Word("c"), 1),
          Text(Word("c"), 2), Text(Padded(Blank), 1), Text(Word("b"), 0)}

Four == <<Text(Word("a"), 1), Text(Word("b"), 1), Text(Word("c"), 1), Text(Word("d"), 1)>>

NameLists == {<<Word("x")>>, <<Word("x"), Padded("y")>>, <<Word("x"), Padded("x")>>,
              <<Padded(Blank)>>, << >>}

\* The names only matter once the texts are in order.
Bodies ==
    [texts : UNION {[1..n -> Texts] : n \in 0..3} \cup {Four}, names : {<<Word("x")>>}]
    \cup [texts : [1..2 -> {Text(Word("a"), 1), Text(Padded("b"), 1)}], names : NameLists]

Reply(values, x, y) == [raises |-> FALSE, values |-> values,
                        estimates |-> [n \in {"x", "y"} |-> IF n = "x" THEN x ELSE y]]

Nothing == [n \in {} |-> Blank]

SomeReplies ==
    {[Reply(Nothing, "unit", "unit") EXCEPT !.raises = TRUE],
     Reply(Nothing, "unit", "unit"),
     Reply("y" :> "plain", "unit", "raises"),
     Reply("x" :> "plain" @@ "y" :> "plain", "unit", "unit"),
     Reply("x" :> "plain", "raises", "unit"),
     Reply("x" :> "plain", "beyond", "unit"),
     Reply("x" :> "plain" @@ "y" :> "rich", "unit", "beyond"),
     Reply("x" :> "rich", "unit", "unit")}
=============================================================================
