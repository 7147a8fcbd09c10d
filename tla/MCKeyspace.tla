---------------------------- MODULE MCKeyspace ----------------------------
(* Keyspace with sets and sorted integers, in the order of the tag table.  *)
EXTENDS Keyspace, TLC

MCTags == <<"set", "sortedint">>

\* Keys and members are interchangeable; the tags are not.
MCSymmetry == Permutations(Keys) \cup Permutations(Members)
============================================================================
