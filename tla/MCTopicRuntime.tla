----------------------------- MODULE MCTopicRuntime -----------------------------
(***************************************************************************)
(* TopicRuntime for the runs in which the topics are interchangeable: they *)
(* are only compared, and a rejoin visits them in the order in which they  *)
(* were subscribed.                                                        *)
(***************************************************************************)
EXTENDS TopicRuntime, TLC

TopicSymmetry == Permutations(Topics)
=================================================================================
