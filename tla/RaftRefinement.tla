--------------------------- MODULE RaftRefinement ---------------------------
(***************************************************************************)
(* The cluster implements ReplicatedLog.  The log that is chosen is not a  *)
(* variable of any node: it is the longest sequence of commands that any   *)
(* node has ever applied, a history variable added to the cluster here.    *)
(***************************************************************************)
EXTENDS RaftProperties

VARIABLE chosen   \* history: the longest sequence of commands ever applied

refVars == <<vars, chosen>>

\* Commands that node i has applied beyond what is known to be chosen.
Longer(i) == Len(node'[i].sm.data) > Len(chosen)

RefInit == Init /\ chosen = <<>>

RefNext ==
  /\ Next
  /\ chosen' = IF \E i \in Server : Longer(i)
                 THEN node'[CHOOSE i \in Server : \A j \in Server :
                              Len(node'[j].sm.data) <= Len(node'[i].sm.data)
                           ].sm.data
                 ELSE chosen

RefSpec == RefInit /\ [][RefNext]_refVars

Abstract == INSTANCE ReplicatedLog WITH
  Replica <- Server,
  Writers <- Writes,
  Readers <- Reads,
  log <- chosen,
  applied <- [i \in Server |-> node[i].sm.data]

\* PROPERTY: Whatever the nodes do, with elections, restarts and lost messages,
\* clients and state machines see one growing sequence of commands: what one
\* node has applied, also one that restarted and forgot it, is never applied
\* differently by another; writes are acknowledged when they are on it, once;
\* reads see a prefix of it that has every write acknowledged before.
ImplementsReplicatedLog == Abstract!Spec
=============================================================================
