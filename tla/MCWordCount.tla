----------------------------- MODULE MCWordCount -----------------------------
(* WordCount on its own, with the fairness of its threads.                  *)
EXTENDS WordCount

Spec == Init /\ [][Next]_vars /\ Fairness
=============================================================================
