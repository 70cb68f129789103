----------------------------- MODULE Membership -----------------------------
(***************************************************************************)
(* Voting configurations of the cluster (src/raft/membership.rs).          *)
(*                                                                         *)
(* A MembershipEntry is Simple(voters) or Joint{old, new}.  Both are one   *)
(* record here: a Simple entry has no old half.  Everything in this module *)
(* is a pure function of its arguments.                                    *)
(***************************************************************************)
EXTENDS Integers, FiniteSets

\* Mutant: a change goes to the new voters at once.
JointSkipped(old, new) == [joint |-> FALSE, old |-> {}, new |-> new]

\* MembershipEntry::Simple and MembershipEntry::Joint.
Simple(voters) == [joint |-> FALSE, old |-> {}, new |-> voters]
Joint(old, new) == [joint |-> TRUE, old |-> old, new |-> new]

MembershipEntry(S) ==
  [joint : BOOLEAN, old : SUBSET S, new : SUBSET S]

\* Everyone with a vote: in a joint configuration the union of both halves.
AllVoters(entry) == entry.old \cup entry.new

\* A strict majority of the voters is among those matched.
Majority(voters, matched) ==
  Cardinality(voters \cap matched) >= Cardinality(voters) \div 2 + 1

\* A joint configuration needs a majority of both halves.
HasQuorum(entry, matched) ==
  /\ entry.joint => Majority(entry.old, matched)
  /\ Majority(entry.new, matched)

-----------------------------------------------------------------------------
(* MembershipState: the configuration a node acts on and whether a change  *)
(* is in flight.                                                           *)

MembershipState(S) == [active : MembershipEntry(S), change_pending : BOOLEAN]

Bootstrap(voters) == [active |-> Simple(voters), change_pending |-> FALSE]

\* A membership entry takes effect as soon as it is in the local log.
ApplyEntry(mem, entry) == [active |-> entry, change_pending |-> TRUE]

\* A committed Joint still has its Simple to come; a committed Simple ends
\* the change.
OnCommit(mem, entry) == [mem EXCEPT !.change_pending = entry.joint]
=============================================================================
