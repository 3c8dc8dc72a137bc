-------------------------- MODULE MCClientProgram --------------------------
(***************************************************************************)
(* An instance of ClientProgram: a small disk, and command lines that      *)
(* between them use every option.                                          *)
(***************************************************************************)
EXTENDS ClientProgram

CONSTANTS f1, f2, f3, empty, unreadable, root, sub, failing, broken, name1, name2, keep

MCFiles == {f1, f2, f3, empty, unreadable}
MCLocalSize == [f \in MCFiles |-> CASE f = empty -> 0 [] f = unreadable -> -1 [] OTHER -> 1]
MCBaseName == [f \in MCFiles |-> IF f \in {f1, f3} THEN name1 ELSE name2]
MCPrefixOf == {<<f1, f2>>}

\* root/f1, root/sub/f2, root/sub/f3, root/failing (f1, then an error), root/f3,
\* and a directory that cannot be opened.
MCTree == [d \in {root, sub, failing, broken} |->
              CASE d = root    -> <<f1, sub, f3>>
                [] d = sub     -> <<f2, f3>>
                [] d = failing -> <<f1, sub, NULL, f2>>
                [] d = broken  -> <<NULL>>]

Plain(letter) == Option(letter, <<>>, NULL, 0, TRUE)
Num(letter, n) == Option(letter, <<>>, NULL, n, TRUE)
Dir(letter, d) == Option(letter, <<>>, d, 0, TRUE)
Paths(letter, fs) == Option(letter, fs, NULL, 0, TRUE)
Tree_(d, n) == Option("w", <<>>, d, n, TRUE)

\* Command lines that are refused.
Refused == {<<Plain("h"), Plain("f")>>,
            <<Paths("c", <<f1>>)>>,
            <<Plain("f"), Plain("p"), Plain("p")>>,
            <<Plain("f"), Plain("?")>>,
            <<Plain("f"), Option("W", <<>>, NULL, 0, FALSE)>>,
            <<Plain("f"), Dir("D", keep)>>,
            <<Plain("f"), Paths("r", <<f1>>), Dir("D", keep)>>,
            <<Plain("f"), Paths("W", <<f1>>), Plain("t"), Dir("D", keep)>>,
            <<Plain("f"), Num("R", 0), Dir("d", keep), Dir("d", keep)>>}

Accepted == {<<Plain("f"), Tree_(root, 2), Dir("D", keep)>>,
             <<Num("a", 1), Tree_(failing, 2), Plain("p"), Plain("f")>>,
             <<Plain("f"), Tree_(broken, 0), Dir("D", keep), Paths("W", <<f1, empty>>)>>,
             <<Plain("f"), Paths("W", <<unreadable>>), Dir("D", keep), Paths("r", <<f1, f2>>),
               Dir("d", keep)>>,
             <<Plain("f"), Num("R", 1), Dir("d", keep), Plain("t"), Paths("l", <<f1>>),
               Paths("c", <<f1>>), Num("R", 0)>>}

MCCommandLines == Refused \cup Accepted
=============================================================================
