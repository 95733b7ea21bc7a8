------------------------------- MODULE MCGx10 -------------------------------
(***************************************************************************)
(* Two scrapes, two devices of which the catalog names one, and a driver   *)
(* whose strings hold what the exposition has to escape.                   *)
(***************************************************************************)
EXTENDS Gx10Exporter

MCAnswers ==
    {[uuid |-> <<"u">>, name |-> <<"a", "\\", "\"", "}", "\n", " ", ",">>,
      percent |-> 7, milliwatts |-> 3, celsius |-> 4, memory |-> [used |-> 1, total |-> 2]],
     [uuid |-> Unread, name |-> <<"\\", "n">>,
      percent |-> 0, milliwatts |-> Unread, celsius |-> Unread, memory |-> Unread]}

MCNumerals == {ToString(n) : n \in 0..9 \cup {70, 1000, 2000, 4000}}
MCCandidates == <<"libnvidia-ml.so.1", "libnvidia-ml.so">>
=============================================================================
