---------------------------- MODULE MCCompactLog ----------------------------
(***************************************************************************)
(* The instance of CompactLog for TLC: one configuration.                 *)
(***************************************************************************)
EXTENDS CompactLogProperties

CONSTANTS n1

OneConfig == {[R!EmptyConfig EXCEPT !.voters = {n1}]}
=============================================================================
