------------------------------ MODULE MCConfig ------------------------------
(* Config for TLC: two keys in one section, of which one is part of the      *)
(* other, such as port and port2, a key that two sections share, a key of    *)
(* its own in another section and one in a section with a long name; a note, *)
(* a malformed row and a value that hold a key; a value with a '#'.          *)
EXTENDS Config

MCPlaces == {<<"A", "k">>, <<"A", "l">>, <<"B", "k">>, <<"B", "m">>, <<"L", "n">>}
MCEmbeds == {<<"l", "k">>, <<"u", "k">>}
MCNotes == {{}, {"k"}}
MCCut == [v \in {"u", "v", "v#"} |-> IF v = "v#" THEN "v" ELSE v]

MCRow == {SectionRow(s) : s \in Sections} \cup {SpacedRow("A"), SpacedRow("B")}
         \cup {Note({"k"}), BadRow({"k"})}
         \cup {Pair("k", "u"), Pair("k", "v"), Pair("l", "v"), Pair("m", "v#"), Pair("n", "v")}
MCFiles == {f \in SeqOf(MCRow, 3) : Loadable(f)}
MCEdits == {<<>>, <<SpacedRow("B"), Pair("m", "v#")>>,
            <<SectionRow("A"), Pair("l", "v"), Pair("k", "u")>>}
=============================================================================
