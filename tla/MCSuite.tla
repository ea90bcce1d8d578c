------------------------------- MODULE MCSuite -------------------------------
(***************************************************************************)
(* The instance of Suite that TLC checks.  Lengths are in decimetres.      *)
(***************************************************************************)
EXTENDS Suite

Ind(layout, score, distance, trajectories) ==
    [valid |-> TRUE, stuck |-> FALSE, layout |-> layout, score |-> score,
     distance |-> distance, trajectories |-> trajectories]

(* Layouts: 1, 2 and 3 are walls in the first frame, 4 a wall and 5 a gate *)
(* in the second.  Two individuals share layout 1, and one pair of flights *)
(* is identical.                                                           *)
MCCandidate == {
    Ind(1, 3, 5, <<0>>),
    Ind(1, 2, 5, <<0, 8>>),
    Ind(2, 2, 6, <<20>>),
    Ind(3, 1, 9, <<0>>),
    Ind(4, 2, 6, <<4>>),
    Ind(5, 1, 8, <<6, 9, 3>>),
    [Ind(2, 3, 4, <<5>>) EXCEPT !.stuck = TRUE]}

MCGate == {5}
MCFrame == [layout \in 1..5 |-> IF layout <= 3 THEN 1 ELSE 2]

Cfg(topK, maxPerFrame, keepBestGate, relaxSimilarity) ==
    [topK |-> topK, maxPerFrame |-> maxPerFrame,
     keepBestGate |-> keepBestGate, relaxSimilarity |-> relaxSimilarity]

(* The default and each suite rule switched. *)
MCConfig == {
    Cfg(3, 0, FALSE, TRUE),
    Cfg(2, 0, TRUE, TRUE),
    Cfg(3, 1, FALSE, TRUE),
    Cfg(3, 2, TRUE, TRUE),
    Cfg(2, 1, TRUE, FALSE)}
=============================================================================
