--------------------------- MODULE RaftProperties ---------------------------
(***************************************************************************)
(* What the cluster promises.  The words quoted are those of the comments  *)
(* in src/raft/mod.rs and src/raft/log.rs.                                 *)
(***************************************************************************)
EXTENDS RaftCluster

Leads(i) == node[i].role.kind = "Leader"

\* The index range a node knows to be committed and still stores.
CommittedAt(i) == {k \in 1 .. node[i].log.commit : Stored(node[i].log, k)}

\* Node j holds entry k of node i, in its log or behind its snapshot.
Holds(j, i, k) ==
  \/ k < node[j].log.first
  \/ Stored(node[j].log, k)
     /\ EntryAt(node[j].log, k) = EntryAt(node[i].log, k)

\* INV: At most one node ever leads a term (src/raft/mod.rs, "at most one leader
\* in a term"): also when the first one has stepped down, crashed or restarted.
ElectionSafety ==
  \A a, b \in elected : a.term = b.term => a.leader = b.leader

\* INV: No node ever votes for two candidates of a term, whatever arrives late
\* and however often it restarts, and every vote that a candidate counts or
\* that is under way to it has been persisted by its voter.
VotesBacked ==
  /\ \A a, b \in ballots :
       a.voter = b.voter /\ a.term = b.term => a.vote = b.vote
  /\ \A i \in Server :
       /\ node[i].role.kind = "Candidate"
       /\ node[i].role.phase = "Election"
       => \A v \in node[i].role.votes :
            [voter |-> v, term |-> Term(node[i]), vote |-> i] \in ballots
  /\ \A m \in DOMAIN net :
       m.message.type = "CampaignResponse" /\ m.message.vote
       => [voter |-> m.from, term |-> m.term, vote |-> m.to] \in ballots

\* INV: Two logs that agree on the term of an entry agree on it and on every
\* entry before it that both still store (log.rs, last two log invariants).
LogMatching ==
  \A i, j \in Server :
    LET a == node[i].log
        b == node[j].log
        both == {k \in 1 .. LastIndex(a) : Stored(a, k) /\ Stored(b, k)}
    IN \A k \in both :
         EntryAt(a, k).term = EntryAt(b, k).term =>
           \A l \in both : l <= k => EntryAt(a, l) = EntryAt(b, l)

\* INV: A leader has every entry that any node of its term or an earlier one
\* knows to be committed.
LeaderCompleteness ==
  \A i, j \in Server :
    Leads(j) /\ Term(node[i]) <= Term(node[j]) =>
      \A k \in CommittedAt(i) : Holds(j, i, k)

\* INV: What a node knows to be committed is stored by a quorum, so that no
\* election can lose it.
CommittedOnQuorum ==
  \A i \in Server : \A k \in CommittedAt(i) :
    HasQuorum(node[i].mem.active, {j \in Server : Holds(j, i, k)})

\* INV: State machines run through the same commands: of two, one is a prefix
\* of the other, and at the same applied index they are equal.
StateMachineSafety ==
  \A i, j \in Server :
    LET a == node[i].sm
        b == node[j].sm
    IN a.applied <= b.applied =>
         /\ IsPrefix(a.data, b.data)
         /\ a.applied = b.applied => a.data = b.data

\* INV: What a leader believes a follower of its term stores, it stores: the
\* match index, from append and heartbeat answers in any order, never runs
\* ahead of the follower's log.
MatchBacked ==
  \A i \in Server : Leads(i) =>
    \A p \in DOMAIN node[i].role.progress :
      Term(node[p]) = Term(node[i]) =>
        \A k \in 1 .. node[i].role.progress[p].match :
          Stored(node[i].log, k) => Holds(p, i, k)

\* INV: None of the assertions of node.rs and log.rs on log contents, indexes
\* and terms fails (the panics on an unexpected message type are not among
\* them).
NoAssertionFails ==
  \A i \in Server : node[i].role.kind = "Panicked" =>
    node[i].role.why \in {"unexpected message",
                          "follower received unexpected message"}

\* ACTION PROPERTY: A term never goes back and a vote is never changed within
\* its term, whatever is delivered and however often the node restarts: the
\* assertions of set_term_vote hold of every step.
TermVoteMonotonic ==
  [][\A i \in Server :
       LET l == node[i].log
           k == node'[i].log
       IN /\ k.term >= l.term
          /\ k.term = l.term /\ l.vote # Nil => k.vote = l.vote]_vars

\* ACTION PROPERTY: A leader only appends to its own log, and no step of any
\* node that keeps running removes or replaces an entry it knows is committed.
CommittedStable ==
  [][\A i \in Server :
       LET l == node[i].log
           k == node'[i].log
       IN /\ \A x \in CommittedAt(i) :
               \/ x < k.first
               \/ Stored(k, x) /\ EntryAt(k, x) = EntryAt(l, x)
          /\ Leads(i) /\ node'[i].role.kind = "Leader" =>
               /\ LastIndex(k) >= LastIndex(l)
               /\ \A x \in k.first .. LastIndex(l) :
                    EntryAt(k, x) = EntryAt(l, x)]_vars

Writes == {r.id : r \in {q \in Requests : q.op = "Write"}}
Reads == {r.id : r \in {q \in Requests : q.op = "Read"}}

Succeeded(id) == \E k \in 1 .. Len(replies[id]) : replies[id][k].status = "Ok"

\* INV: Reads are linearizable: a read sees every write that was acknowledged
\* to any client before the read was asked, also when the node that serves it
\* has been deposed without knowing.
ReadsLinearizable ==
  \A id \in Reads : \A k \in 1 .. Len(replies[id]) :
    replies[id][k].status = "Ok" =>
      asked[id] \cap Writes \subseteq
        {replies[id][k].data[x] : x \in 1 .. Len(replies[id][k].data)}

\* INV: A client is answered at most once: the leader's own answer, an abort on
\* a role change and the answer to a forwarded request exclude each other.
AnsweredOnce == \A id \in Ids : Len(replies[id]) <= 1

\* INV: A write that was acknowledged is stored by a quorum for good, across
\* elections and restarts.
AcknowledgedDurable ==
  \A id \in Writes : Succeeded(id) =>
    \E i \in Server : HasQuorum(node[i].mem.active,
      {j \in Server :
         \/ \E k \in 1 .. Len(node[j].log.ents) : node[j].log.ents[k].cmd = id
         \/ \E k \in 1 .. Len(node[j].log.snap.data) :
              node[j].log.snap.data[k] = id})

\* INV: The configuration a node acts on is the newest membership entry of its
\* log (src/raft/membership.rs, "the newest membership log entry, in force once
\* appended"), or the one it was started with when its log has none; stated
\* for logs that were not compacted.
ActiveIsNewest ==
  \A i \in Server :
    LET log == node[i].log
        mems == Memberships(log.ents)
    IN log.first = 1 =>
         node[i].mem.active = IF mems = {} THEN Simple(InitVoters[i])
                              ELSE log.ents[Max(mems)].mem

\* INV: What a node has compacted is in the snapshot it has persisted, command
\* for command as other nodes still store it, so that a restart after the
\* compaction (or after InstallSnapshot) resumes where the log begins.
SnapshotFaithful ==
  \A i \in Server :
    LET log == node[i].log
    IN log.first > 1 =>
         /\ log.snap.applied >= SnapshotIndex(log)
         /\ Len(log.snap.data) = log.snap.applied
         /\ \A j \in Server : \A k \in CommittedAt(j) :
              k <= SnapshotIndex(log) =>
                log.snap.data[k] = EntryAt(node[j].log, k).cmd

\* INV: No step panics; in particular no answer meant for a leader is stepped
\* by a node that has stepped down in the same term.
NoPanic == \A i \in Server : Running(i)
=============================================================================
