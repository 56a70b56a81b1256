---------------------------- MODULE MCDbManager ----------------------------
(* DbManager on a program with both of its threads and on a second program *)
(* whose DB worker uses the same file.                                     *)
EXTENDS DbManager, TLC

CONSTANTS q1, q2, a, b

KeysAlike == Permutations(Keys)

OneProgramAndARival == {<<q1, "main">>, <<q1, "db">>, <<q2, "db">>}

AsInTheProgram ==
    [t \in OneProgramAndARival |->
        CASE t = <<q1, "main">> -> {"save", "clear"}
          [] t = <<q1, "db">> -> {"respond", "claim", "status"}
          [] t = <<q2, "db">> -> {"claim"}]
=============================================================================
