------------------------------ MODULE MCLists ------------------------------
(* A small instance: a pull request, an organization, two notifications, a *)
(* history of two pages of one row; two texts in different languages with  *)
(* the same image, two themes; two pull requests with the same two files,  *)
(* one with a colon in its name, and the notes on them.                    *)
EXTENDS Lists

CONSTANTS x1, x2

MCPages   == {0, 1}
MCLangOf  == [x \in Texts |-> IF x = x1 THEN "go" ELSE "ts"]
MCImageOf == [x \in Texts |-> "u"]

MCFilesOf   == [p \in DiffPRs |-> {"f", "a:b"}]
MCUpToColon == [f \in {"f", "a:b"} |-> IF f = "f" THEN "f" ELSE "a"]

MCNote(file, line, outdated) == [file |-> file, side |-> "additions", line |-> line, outdated |-> outdated]
MCThread(bot, ns)            == [bot |-> bot, notes |-> ns]
MCAnswers ==
  {<<>>,
   << MCThread(FALSE, <<MCNote("f", 3, FALSE), MCNote("f", 9, TRUE)>>), MCThread(TRUE, <<MCNote("f", 9, FALSE)>>) >>,
   << MCThread(FALSE, <<MCNote("f", 9, FALSE), MCNote("a:b", 1, FALSE), MCNote("f", 9, FALSE)>>) >>}
=============================================================================
