------------------------------ MODULE MCPubSub ------------------------------
(***************************************************************************)
(* PubSub with one topic and a pattern that matches it: two subscriptions  *)
(* and a publish among three connections, also of peers that fail, or a   *)
(* daemon that is stopped under them.                                      *)
(***************************************************************************)
EXTENDS PubSub

SE == INSTANCE SequencesExt

MCNames == {<<"cam", "front">>, <<"cam", "*">>}

MCBudgets == { [clients |-> 3, frames |-> 3, faults |-> 1, stops |-> FALSE],
               [clients |-> 3, frames |-> 2, faults |-> 2, stops |-> FALSE],
               [clients |-> 3, frames |-> 1, faults |-> 1, stops |-> TRUE],
               [clients |-> 2, frames |-> 2, faults |-> 2, stops |-> TRUE] }

\* The matcher against what the patterns mean, on names of up to four levels,
\* the ones with a level after a '*' too.
ASSUME MatcherMeansCovers ==
  \A p \in SE!BoundedSeq({"cam", "front", "+", "*"}, 4),
     t \in SE!BoundedSeq({"cam", "front"}, 4) :
     topic_matches(p, t) <=> Covers(p, t)
=============================================================================
