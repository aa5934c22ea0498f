----------------------------- MODULE MCIndexIter ----------------------------
(* IndexIter for TLC: strings of one and two bytes, each a prefix of the next *)
(* or not, ids that come in any order of the strings, and filters that accept *)
(* all, or one of three.                                                      *)
EXTENDS IndexIter

MCKeys == {<<0>>, <<0, 1>>, <<1>>}
MCArgs == {<<0>>, <<0, 1>>}
MCFilters == {Ids, {2}}
MCStores == {r \in [Ids -> MCKeys \cup {NoKey}] : r[3] \in {NoKey, <<0, 1>>}}
MCLoops == {"main"}
=============================================================================
