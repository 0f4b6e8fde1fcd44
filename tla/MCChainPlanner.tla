--------------------------- MODULE MCChainPlanner ---------------------------
(***************************************************************************)
(* ChainPlanner for TLC: override declarations that differ in what they    *)
(* override, a hard limit or a weight, by phase or by segment.             *)
(***************************************************************************)
EXTENDS ChainPlanner

NoProfiles == [p \in Phases |-> NoOverride]
NoSegs == [i \in 1..MaxSegments |-> NoOverride]
Slow(v) == [max |-> v, soft |-> 0]
Weighted(w) == [max |-> 0, soft |-> w]

ManyDeclarations ==
  {[profile |-> NoProfiles, seg |-> NoSegs],
   [profile |-> NoProfiles,
    seg |-> [NoSegs EXCEPT ![2] = [max |-> 2, soft |-> 1],
                           ![3] = Slow(1)]],
   [profile |-> [NoProfiles EXCEPT !["arrival"] = Slow(2),
                                   !["cruise"] = Slow(1)],
    seg |-> NoSegs],
   [profile |-> [NoProfiles EXCEPT !["departure"] = Weighted(1),
                                   !["cruise"] = Weighted(2)],
    seg |-> [NoSegs EXCEPT ![2] = Weighted(1)]]}
=============================================================================
