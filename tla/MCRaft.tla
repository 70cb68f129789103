------------------------------- MODULE MCRaft -------------------------------
(* Small instances of the cluster for TLC. *)
EXTENDS RaftProperties

CONSTANTS n1, n2, n3, w1, w2, r1

\* Everyone starts with the whole cluster as peers.
AllVote == [i \in Server |-> Server]

Write(id) == [id |-> id, op |-> "Write", voters |-> {}]
Read(id) == [id |-> id, op |-> "Read", voters |-> {}]

Change(id, voters) ==
  [id |-> id, op |-> "ChangeMembership", voters |-> voters]

NoRequests == {}
OneWrite == {Write(w1)}
WriteAndRead == {Write(w1), Read(r1)}

ToOne == {Change(w1, {n1})}
DropThree == {Change(w1, {n1, n2})}

NoCut == {}
\* n1 and n3 reach each other only through n2, which is in every quorum.
Hub == {{n1, n3}}

HubSymmetric == Permutations({n1, n3})
FollowerSymmetric == Permutations({n2, n3})
=============================================================================
