-------------------------- MODULE MCEpisodeLearning --------------------------
(* An instance of EpisodeLearning: two servers with a client each.         *)
EXTENDS EpisodeLearning, TLC

CONSTANTS c1, c2, s1, s2

MCServerOf == (c1 :> s1 @@ c2 :> s2)

=============================================================================
