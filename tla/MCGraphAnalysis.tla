---------------------------- MODULE MCGraphAnalysis ----------------------------
(* Five symbols.  The unit of confidence is a twentieth: 19 is 0.95.       *)
EXTENDS ProcessTracer

MCCall(i, j) == [from |-> i, to |-> j, type |-> "CALLS", confidence |-> 19]
MCMember == [from |-> 4, to |-> 0, type |-> "MEMBER_OF", confidence |-> 20]

\* Every graph of calls from a symbol to a later one, and a method.
MCForward ==
  { {MCMember} \cup { MCCall(p[1], p[2]) : p \in pairs } :
      pairs \in SUBSET { p \in (0 .. 4) \X (0 .. 4) : p[1] < p[2] } }

\* Symbols that call each other, in cycles; on some of these graphs Louvain
\* has more than two levels.
MCMutual ==
  { { MCCall(p[1], p[2]) : p \in {<<4,3>>, <<3,4>>, <<0,1>>, <<1,0>>, <<0,2>>, <<2,0>>,
                                 <<2,4>>, <<0,4>>, <<1,4>>, <<2,3>>} \ less } :
      less \in SUBSET {<<3,4>>, <<1,0>>, <<2,0>>, <<1,4>>} }

MCCalls == MCForward \cup MCMutual
=============================================================================
