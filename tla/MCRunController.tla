---------------------------- MODULE MCRunController ----------------------------
(* Small runs for TLC.                                                      *)
EXTENDS RunClaims

MCJobNames == {"a", "b"}

\* Sets of initial triggers.
TriggerOn(S) == [j \in MCJobNames |-> j \in S]
Untriggered == {TriggerOn({})}
TriggerOnB == {TriggerOn({"b"})}

\* b runs after a.
ChainBefore == [j \in MCJobNames |-> IF j = "b" THEN <<"a">> ELSE <<>>]

\* The jobs in the order they run in.
ChainSeq == <<"a", "b">>
================================================================================
