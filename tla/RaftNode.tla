------------------------------ MODULE RaftNode ------------------------------
(***************************************************************************)
(* One Raft node (src/raft/node.rs) as a value and its handlers as         *)
(* functions.  A node is the record of RawNode's fields,                   *)
(*                                                                         *)
(*   id, log        the node and its persistent log (RaftLog)              *)
(*   mem            its MembershipState                                    *)
(*   sm             its state machine: the index applied and the commands  *)
(*   role           Follower, Candidate or Leader with the fields of that  *)
(*                  struct, or Panicked with the assertion that failed     *)
(*                                                                         *)
(* and a handler maps a node (and the message it is given) to an outcome   *)
(* [n, out]: the node afterwards and the envelopes it sent.  The calls a   *)
(* handler makes are composed in the order the code makes them.  A panic   *)
(* ends the process: what the step had sent is still in the channel that   *)
(* the main loop drains, and is lost.                                      *)
(*                                                                         *)
(* Ticks are abstracted: an election timeout, a heartbeat and the lapse of *)
(* the check-quorum window are events that may come at any time, so        *)
(* leader_seen, election_duration, since_heartbeat and peer_seen are not   *)
(* kept.  Between two steps leader_seen < election_timeout (tick acts as   *)
(* soon as they meet), so a follower "still hears its leader" in the sense *)
(* of step_prevote exactly when it has one.                                *)
(***************************************************************************)
EXTENDS Integers, Sequences, FiniteSets, FiniteSetsExt, SequencesExt, Membership,
        RaftLog

CONSTANTS
  Server,              \* node ids
  InitVoters,          \* per node: itself and the peers of its configuration
  PreVote,             \* Options.pre_vote
  CheckQuorum,         \* Options.check_quorum
  SnapshotThreshold,   \* Options.snapshot_threshold, 0 = off
  MaxAppendEntries     \* Options.max_append_entries

ASSUME NodeAssumption ==
  /\ Nil \notin Server
  /\ IsFiniteSet(Server)
  /\ InitVoters \in [Server -> SUBSET Server]
  /\ \A i \in Server : i \in InitVoters[i]
  /\ PreVote \in BOOLEAN
  /\ CheckQuorum \in BOOLEAN
  /\ SnapshotThreshold \in Nat
  /\ MaxAppendEntries \in Nat \ {0}

-----------------------------------------------------------------------------
(* Types.  Id is the set of client request ids; a write's command is its   *)
(* request's id.                                                           *)

EntryType(Id) ==
  [term : Nat, cmd : Id \cup {Nil}, mem : MembershipEntry(Server) \cup {Nil}]

StateType(Id) == [applied : Nat, data : Seq(Id \cup {Nil})]

LogType(Id) ==
  [term : Nat, vote : Server \cup {Nil}, first : Nat \ {0}, snapTerm : Nat,
   snap : StateType(Id), ents : Seq(EntryType(Id)), commit : Nat, synced : Nat]

FollowerType(Id) ==
  [kind : {"Follower"}, leader : Server \cup {Nil}, forwarded : SUBSET Id]

CandidateType ==
  [kind : {"Candidate"}, phase : {"PreVote", "Election"}, votes : SUBSET Server]

ProgressType == [match : Nat, next : Nat, read : Nat]

WriteType(Id) == [index : Nat, from : Server, id : Id]
ReadType(Id) == [seq : Nat, from : Server, id : Id]

LeaderType(Id, P) ==
  [kind : {"Leader"}, progress : [P -> ProgressType],
   writes : SUBSET WriteType(Id), membership_writes : SUBSET WriteType(Id),
   reads : SUBSET ReadType(Id), read_seq : Nat]

\* The assertions that a step of a node can fail, and the messages that it
\* does not expect.
Reasons ==
  {"missing base entry", "last term not current", "leader did not vote for self",
   "commit after last index", "commit index missing", "splice",
   "future match index or read sequence number", "future match index",
   "future reject index", "invalid message",
   "unexpected message", "follower received unexpected message"}

PanickedType == [kind : {"Panicked"}, why : Reasons]

\* The nodes that, when they lead, track the peers P.
NodeType(Id, P) ==
  [id : Server, log : LogType(Id), mem : MembershipState(Server),
   sm : StateType(Id),
   role : FollowerType(Id) \cup CandidateType \cup LeaderType(Id, P)
          \cup PanickedType]

MessageType(Req, Id) ==
       [type : {"PreCampaign", "Campaign"}, last_index : Nat, last_term : Nat]
  \cup [type : {"PreCampaignResponse", "CampaignResponse"}, vote : BOOLEAN]
  \cup [type : {"Heartbeat"}, last_index : Nat, commit_index : Nat,
        read_seq : Nat]
  \cup [type : {"HeartbeatResponse"}, match_index : Nat, read_seq : Nat]
  \cup [type : {"Append"}, base_index : Nat, base_term : Nat,
        entries : Seq(EntryType(Id))]
  \cup [type : {"AppendResponse"}, match_index : Nat, reject_index : Nat]
  \cup [type : {"Read", "ReadResponse"}, seq : Nat]
  \cup [type : {"InstallSnapshot"}, last_included_index : Nat,
        last_included_term : Nat, data : StateType(Id),
        membership : MembershipEntry(Server)]
  \cup [type : {"InstallSnapshotResponse"}, last_included_index : Nat]
  \cup [type : {"ClientRequest"}, request : Req]
  \cup [type : {"ClientResponse"}, id : Id, status : {"Ok", "Abort", "Invalid"},
        data : Seq(Id \cup {Nil})]

EnvelopeType(Req, Id) ==
  [from : Server, to : Server, term : Nat, message : MessageType(Req, Id)]

-----------------------------------------------------------------------------
(* Outcomes, envelopes and the state machine.                              *)

Done(n, out) == [n |-> n, out |-> out]

Panic(n, why) ==
  Done([n EXCEPT !.role = [kind |-> "Panicked", why |-> why]], {})

\* A failed assertion after some work: the outcome r unless ok fails.
Require(ok, why, r) == IF ok THEN r ELSE Panic(r.n, why)

\* r's outcome with what was sent before it, unless r panicked.
After(out, r) ==
  IF r.n.role.kind = "Panicked" THEN r ELSE Done(r.n, out \cup r.out)

Term(n) == n.log.term

\* send(): every envelope carries the sender's current term.
Env(n, to, message) ==
  [from |-> n.id, to |-> to, term |-> Term(n), message |-> message]

Peers(n) == AllVoters(n.mem.active) \ {n.id}

IsKnownSender(n, from) == from = n.id \/ from \in AllVoters(n.mem.active)

ClusterSize(n) == Cardinality(AllVoters(n.mem.active))

Broadcast(n, message) == {Env(n, p, message) : p \in Peers(n)}

\* ClientResponse: a result of "Ok" (with what a read saw), "Abort" or
\* "Invalid".
Reply(n, to, id, status, data) ==
  Env(n, to, [type |-> "ClientResponse", id |-> id, status |-> status,
              data |-> data])

Abort(n, to, id) == Reply(n, to, id, "Abort", <<>>)

\* State: the commands applied, in order and noops included, and the index
\* they reach.  They determine the map that Kv holds.
EmptyState == [applied |-> 0, data |-> <<>>]

\* Mutant: the last applied entry is applied again.
AppliedAgain(sm, log) ==
  LET ents == Scan(log, sm.applied, log.commit)
  IN [applied |-> log.commit,
      data |-> sm.data \o [k \in 1 .. Len(ents) |-> ents[k].cmd]]

\* apply() of the stored entries that scan_apply yields.
Applied(sm, log) ==
  LET ents == Scan(log, sm.applied + 1, log.commit)
  IN IF ents = <<>> THEN sm
     ELSE [applied |-> log.commit,
           data |-> sm.data \o [k \in 1 .. Len(ents) |-> ents[k].cmd]]

\* Mutant: only the index is restored.
RestoredIndexOnly(snapshot, index) == [EmptyState EXCEPT !.applied = index]

\* restore(): the snapshot knows how far it reaches, perhaps beyond index.
Restored(snapshot, index) ==
  [snapshot EXCEPT !.applied = Max({index, @})]

\* The membership entries among those about to be applied.
CommittedMemberships(n) ==
  {k \in Memberships(n.log.ents) : /\ k + SnapshotIndex(n.log) > n.sm.applied
                                   /\ k + SnapshotIndex(n.log) <= n.log.commit}

\* maybe_apply: apply what is committed; the last membership committed decides
\* whether a change is pending.
MaybeApply(n) ==
  LET mems == CommittedMemberships(n)
  IN [n EXCEPT
        !.sm = Applied(@, n.log),
        !.mem = IF mems = {} THEN @
                ELSE OnCommit(@, n.log.ents[Max(mems)].mem)]

\* maybe_apply_membership_from_entries: every membership entry of the message
\* is adopted in turn, so the last one stands.
AdoptMemberships(n, ents) ==
  IF Memberships(ents) = {} THEN n
  ELSE [n EXCEPT !.mem = ApplyEntry(@, ents[Max(Memberships(ents))].mem)]

\* The candidate's log is at least as new as this node's.
LogOk(n, message) ==
  \/ LastTerm(n.log) < message.last_term
  \/ LastTerm(n.log) = message.last_term
     /\ LastIndex(n.log) <= message.last_index

-----------------------------------------------------------------------------
(* Roles and the transitions into follower and candidate.                  *)

Follower(leader) == [kind |-> "Follower", leader |-> leader, forwarded |-> {}]

Candidate(phase, votes) ==
  [kind |-> "Candidate", phase |-> phase, votes |-> votes]

\* abort_forwarded: the requests a follower passed on are answered Abort.
AbortForwarded(n) == {Abort(n, n.id, id) : id \in n.role.forwarded}

\* What a leader aborts when it steps down: writes, membership changes, reads.
AbortClients(n) ==
  {Abort(n, w.from, w.id) :
     w \in n.role.writes \cup n.role.membership_writes \cup n.role.reads}

\* into_follower of each role with a newer term: the term is persisted with no
\* vote, the role's clients are aborted, and no leader is known yet.
DiscoverTerm(n, term) ==
  LET later == [n EXCEPT !.log = SetTermVote(@, term, Nil)]
      gone == CASE n.role.kind = "Follower" -> AbortForwarded(n)
                [] n.role.kind = "Leader" -> AbortClients(later)
                [] OTHER -> {}
  IN Done([later EXCEPT !.role = Follower(Nil)], gone)

\* into_follower of a leader in its own term: check-quorum, or removal from
\* the configuration.
StepDown(n) == Done([n EXCEPT !.role = Follower(Nil)], AbortClients(n))

\* campaign: a new term, this node's own vote persisted before anyone is asked.
Campaign(n) ==
  LET c == [n EXCEPT !.log = SetTermVote(@, Term(n) + 1, n.id),
                     !.role = Candidate("Election", {n.id})]
  IN Done(c, Broadcast(c, [type |-> "Campaign",
                           last_index |-> LastIndex(c.log),
                           last_term |-> LastTerm(c.log)]))

QuorumReached(n) == HasQuorum(n.mem.active, n.role.votes)

\* pre_campaign: ask for the next term without entering it.  A node that is a
\* quorum by itself goes on to the real election.
PreCampaign(n) ==
  LET c == [n EXCEPT !.role = Candidate("PreVote", {n.id})]
      ask == [type |-> "PreCampaign", last_index |-> LastIndex(n.log),
              last_term |-> LastTerm(n.log)]
      out == {[from |-> n.id, to |-> p, term |-> Term(n) + 1, message |-> ask]
                : p \in Peers(n)}
  IN IF ClusterSize(n) = 1 THEN Campaign(c)
     ELSE IF QuorumReached(c) THEN After(out, Campaign(c))
     ELSE Done(c, out)

\* into_candidate of a follower.
IntoCandidate(n, use_prevote) ==
  LET a == MaybeApply(n)
  IN After(AbortForwarded(n),
           IF use_prevote /\ PreVote THEN PreCampaign(a) ELSE Campaign(a))

-----------------------------------------------------------------------------
(* The leader's replication, commit and read machinery.                    *)

\* Progress of one peer.
Progress(next) == [match |-> 0, next |-> next, read |-> 0]

\* Leader::new
Leader(n) ==
  [kind |-> "Leader",
   progress |-> [p \in Peers(n) |-> Progress(LastIndex(n.log) + 1)],
   writes |-> {}, membership_writes |-> {}, reads |-> {}, read_seq |-> 0]

\* Mutant: next_index does not follow match_index.
AdvanceMatchOnly(pr, match) == [pr EXCEPT !.match = match]

Advance(pr, match) ==
  [pr EXCEPT !.match = match, !.next = Max({@, match + 1})]

\* regress_next, never below what the peer is known to hold.
RegressNext(pr, next) ==
  IF next >= pr.next \/ pr.next <= pr.match + 1
    THEN pr
    ELSE [pr EXCEPT !.next = Max({next, pr.match + 1})]

\* sync_progress_with_membership
SyncProgress(n) ==
  [n EXCEPT !.role.progress =
     [p \in Peers(n) |-> IF p \in DOMAIN @ THEN @[p]
                         ELSE Progress(LastIndex(n.log) + 1)]]

\* maybe_send_append for one peer: the peer's progress afterwards, what is
\* sent, and whether its assertions hold, the last being that the entry before
\* next is still in the log.
AppendTo(n, peer, probe) ==
  LET log == n.log
      pr == n.role.progress[peer]
      probing == probe /\ pr.next > pr.match + 1
      ents == IF probing THEN <<>>
              ELSE Scan(log, pr.next, pr.next + MaxAppendEntries - 1)
      install == [type |-> "InstallSnapshot",
                  last_included_index |-> SnapshotIndex(log),
                  last_included_term |-> log.snapTerm,
                  data |-> n.sm, membership |-> n.mem.active]
      sound == /\ pr.match < pr.next
               /\ pr.match <= LastIndex(log)
               /\ pr.next <= LastIndex(log) + 1
      append == [type |-> "Append", base_index |-> pr.next - 1,
                 base_term |-> TermAt(log, pr.next - 1), entries |-> ents]
  IN CASE pr.next < log.first ->
            [pr |-> pr, out |-> {Env(n, peer, install)}, ok |-> sound]
       [] \/ pr.next >= log.first /\ pr.match = LastIndex(log)
          \/ pr.next >= log.first /\ pr.next > LastIndex(log) /\ ~probing ->
            [pr |-> pr, out |-> {}, ok |-> sound]
       [] OTHER ->
            [pr |-> [pr EXCEPT !.next = @ + Len(ents)],
             out |-> {Env(n, peer, append)},
             ok |-> sound /\ (pr.next = 1 \/ Stored(log, pr.next - 1))]

\* The outcome of the appends sent, a function of the peers they go to.
Sent(n, sent) ==
  Require(\A p \in DOMAIN sent : sent[p].ok, "missing base entry",
         Done([n EXCEPT !.role.progress =
                 [p \in DOMAIN @ |-> IF p \in DOMAIN sent THEN sent[p].pr
                                     ELSE @[p]]],
              UNION {sent[p].out : p \in DOMAIN sent}))

\* maybe_send_append to each of a set of peers.
MaybeSendAppend(n, peers, probe) ==
  Sent(n, [p \in peers |-> AppendTo(n, p, probe)])

\* Send the entry just appended to the peers that were up to date before it.
ReplicateLast(n) ==
  MaybeSendAppend(n, {p \in Peers(n) :
                        n.role.progress[p].next = LastIndex(n.log)}, FALSE)

\* propose
Propose(n, cmd) ==
  ReplicateLast([n EXCEPT !.log = AppendEntry(@, cmd, Nil)])

\* The tail that propose_membership_change and
\* maybe_propose_simple_after_joint share: the entry takes effect at once.
ProposeMembership(n, entry) ==
  ReplicateLast(SyncProgress(
    [n EXCEPT !.log = AppendEntry(@, Nil, entry),
              !.mem = ApplyEntry(@, entry)]))

\* One turn of the loop over the entries just applied: a committed Joint is
\* followed by its Simple (the outcome p), and a leader outside the
\* configuration that is then active will step down.
MembershipCommitted(r, p) ==
  IF p.n.role.kind = "Panicked"
    THEN [n |-> p.n, out |-> {}, down |-> FALSE]
    ELSE [n |-> SyncProgress(p.n), out |-> r.out \cup p.out,
          down |-> \/ r.down
                   \/ /\ ~p.n.mem.active.joint
                      /\ p.n.id \notin AllVoters(p.n.mem.active)]

AfterCommit(r, entry) ==
  IF entry.mem = Nil \/ r.n.role.kind = "Panicked"
    THEN r
    ELSE MembershipCommitted(r,
           IF entry.mem.joint
             THEN ProposeMembership(r.n, Simple(entry.mem.new))
             ELSE Done(r.n, {}))

\* Mutant: a new leader reads before an entry of its own term is committed.
MaybeReadEarly(n) ==
  LET confirmed == {n.id} \cup {p \in DOMAIN n.role.progress :
                                 n.role.progress[p].read = n.role.read_seq}
  IN IF ~HasQuorum(n.mem.active, confirmed)
       THEN Done(n, {})
       ELSE Done([n EXCEPT !.role.reads = {}],
                 {Reply(n, rd.from, rd.id, "Ok", n.sm.data) :
                    rd \in n.role.reads})

\* maybe_read: answer the reads whose sequence number a quorum has confirmed,
\* once an entry of this term is committed and applied.
MaybeRead(n) ==
  LET seqOf(i) == IF i = n.id THEN n.role.read_seq ELSE n.role.progress[i].read
      ids == {n.id} \cup DOMAIN n.role.progress
      confirmed == {s \in {seqOf(i) : i \in ids} :
                      HasQuorum(n.mem.active, {i \in ids : seqOf(i) >= s})}
      ready == {rd \in n.role.reads : rd.seq <= Max({0} \cup confirmed)}
  IN IF CommitTerm(n.log) < Term(n) \/ n.sm.applied < n.log.commit
       THEN Done(n, {})
       ELSE Done([n EXCEPT !.role.reads = @ \ ready],
                 {Reply(n, rd.from, rd.id, "Ok", n.sm.data) : rd \in ready})

\* Mutant: the log is compacted, the snapshot is not stored.
MaybeSnapshotUnsaved(n) ==
  IF \/ SnapshotThreshold = 0
     \/ n.sm.applied - SnapshotIndex(n.log) < SnapshotThreshold
    THEN n
    ELSE [n EXCEPT !.log = CompactTo(@, n.sm.applied, CommitTerm(@))]

\* maybe_snapshot: snapshot the state machine and drop the log behind it.
MaybeSnapshot(n) ==
  LET at == n.sm.applied
  IN IF \/ SnapshotThreshold = 0
        \/ at <= SnapshotIndex(n.log)
        \/ at - SnapshotIndex(n.log) < SnapshotThreshold
        \/ at < n.log.commit
       THEN n
       ELSE [n EXCEPT !.log =
               CompactTo([@ EXCEPT !.snap = n.sm], at,
                         IF Stored(@, at) THEN TermAt(@, at)
                         ELSE CommitTerm(@))]

\* Mutant: an entry of an earlier term is committed by counting its copies.
CommitTargetAnyTerm(n) ==
  Max({n.log.commit} \cup
      {k \in n.log.commit + 1 .. LastIndex(n.log) :
         HasQuorum(n.mem.active,
           {n.id} \cup {p \in DOMAIN n.role.progress :
                          n.role.progress[p].match >= k})})

\* Mutant: what was sent counts as stored.
CommitTargetSent(n) ==
  Max({n.log.commit} \cup
      {k \in n.log.commit + 1 .. LastIndex(n.log) :
         /\ TermAt(n.log, k) = Term(n)
         /\ HasQuorum(n.mem.active,
              {n.id} \cup {p \in DOMAIN n.role.progress :
                             n.role.progress[p].next > k})})

\* The highest index of this term that a quorum holds, or the commit index.
CommitTarget(n) ==
  Max({n.log.commit} \cup
      {k \in n.log.commit + 1 .. LastIndex(n.log) :
         /\ Stored(n.log, k)
         /\ TermAt(n.log, k) = Term(n)
         /\ HasQuorum(n.mem.active,
              {n.id} \cup {p \in DOMAIN n.role.progress :
                             n.role.progress[p].match >= k})})

\* The end of maybe_commit_and_apply: the outcome m of the loop, reads if this
\* commit is the term's first, and a snapshot unless the caller steps down.
ReadAndSnapshot(n, m, answers) ==
  LET r == IF CommitTerm(n.log) # Term(n) THEN MaybeRead(m.n) ELSE Done(m.n, {})
  IN IF m.n.role.kind = "Panicked"
       THEN m
       ELSE [n |-> IF m.down THEN r.n ELSE MaybeSnapshot(r.n),
             out |-> answers \cup m.out \cup r.out, down |-> m.down]

\* Commit and apply up to target and answer the clients whose entries these are.
CommitTo(n, target) ==
  LET c == [n EXCEPT !.log = Commit(@, target)]
      done(w) == w.index > n.sm.applied /\ w.index <= target
      a == [MaybeApply(c) EXCEPT
              !.role.writes = {w \in @ : ~done(w)},
              !.role.membership_writes = {w \in @ : ~done(w)}]
      applied == [n |-> a, out |-> {}, down |-> FALSE]
  IN ReadAndSnapshot(n,
       IF CommittedMemberships(c) = {} THEN applied
       ELSE FoldLeft(AfterCommit, applied,
                     Scan(c.log, n.sm.applied + 1, target)),
       {Reply(n, w.from, w.id, "Ok", <<>>) :
          w \in {v \in n.role.writes \cup n.role.membership_writes : done(v)}})

\* maybe_commit_and_apply, with the flag that makes the caller step down.
MaybeCommitAndApply(n) ==
  IF CommitTarget(n) > n.log.commit
    THEN CommitTo(n, CommitTarget(n))
    ELSE [n |-> n, out |-> {}, down |-> FALSE]

\* heartbeat
Heartbeat(n) ==
  Require(LastTerm(n.log) = Term(n), "last term not current",
    Done(n, Broadcast(n, [type |-> "Heartbeat",
                          last_index |-> LastIndex(n.log),
                          commit_index |-> n.log.commit,
                          read_seq |-> n.role.read_seq])))

\* A sequence of two steps, the second skipped after a panic.
Then(r, Step(_)) ==
  IF r.n.role.kind = "Panicked" THEN r ELSE After(r.out, Step(r.n))

\* A commit attempt whose step-down flag is ignored, as in into_leader.
Flagless(c) == Done(c.n, c.out)
CommitOnly(n) == Flagless(MaybeCommitAndApply(n))

\* into_leader: a noop of the new term, then a first heartbeat.
IntoLeader(n) ==
  Require(n.log.vote = n.id, "leader did not vote for self",
    Then(Then(Propose([n EXCEPT !.role = Leader(n)], Nil), CommitOnly),
         Heartbeat))

-----------------------------------------------------------------------------
(* Follower::step.  The message is of this node's term.                    *)

\* Only the leader of the term is obeyed; a node without one takes the sender.
Obeys(n, m) == n.role.leader \in {Nil, m.from}

Following(n, m) ==
  IF n.role.leader = Nil THEN [n EXCEPT !.role = Follower(m.from)] ELSE n

\* Mutant: the leader's last entry is acknowledged and its commit index taken
\* over without having that entry.
FollowerHeartbeatUnmatched(n, m) ==
  LET f == Following(n, m)
      h == m.message
      answer == {Env(f, m.from, [type |-> "HeartbeatResponse",
                                 match_index |-> h.last_index,
                                 read_seq |-> h.read_seq])}
  IN IF ~Obeys(n, m) THEN Done(n, {})
     ELSE IF CommitOk(f.log, h.commit_index)
       THEN Done(MaybeApply([f EXCEPT !.log = Commit(@, h.commit_index)]), answer)
       ELSE Done(f, answer)

\* Heartbeat: report whether the leader's last entry is here; commit only if so.
FollowerHeartbeat(n, m) ==
  LET f == Following(n, m)
      h == m.message
      match == IF Has(f.log, h.last_index, m.term) THEN h.last_index ELSE 0
      answer == {Env(f, m.from, [type |-> "HeartbeatResponse",
                                 match_index |-> match,
                                 read_seq |-> h.read_seq])}
  IN IF h.commit_index > h.last_index THEN Panic(n, "commit after last index")
     ELSE IF ~Obeys(n, m) THEN Done(n, {})
     ELSE IF match = 0 \/ h.commit_index <= f.log.commit THEN Done(f, answer)
     ELSE IF CommitOk(f.log, h.commit_index)
       THEN Done(MaybeApply([f EXCEPT !.log = Commit(@, h.commit_index)]), answer)
       ELSE Panic(f, "commit index missing")

AppendAnswer(f, m, match, reject) ==
  {Env(f, m.from, [type |-> "AppendResponse", match_index |-> match,
                   reject_index |-> reject])}

Spliced(f, a) ==
  AdoptMemberships([f EXCEPT !.log = Splice(@, a.base_index, a.entries)],
                   a.entries)

\* Mutant: the base must exist, but its term is not compared.
FollowerAppendUnchecked(n, m) ==
  LET f == Following(n, m)
      a == m.message
  IN IF ~Obeys(n, m) THEN Done(n, {})
     ELSE IF a.base_index > LastIndex(f.log)
       THEN Done(f, AppendAnswer(f, m, 0, LastIndex(f.log) + 1))
       ELSE Done(Spliced(f, a),
                 AppendAnswer(f, m, a.base_index + Len(a.entries), 0))

\* Mutant: a rejection backs up below the log's first entry.
FollowerAppendTooFar(n, m) ==
  LET f == Following(n, m)
      a == m.message
  IN IF ~Obeys(n, m) THEN Done(n, {})
     ELSE IF a.base_index # 0 /\ ~Has(f.log, a.base_index, a.base_term)
       THEN Done(f, AppendAnswer(f, m, 0, LastIndex(f.log) - 1))
       ELSE Done(Spliced(f, a),
                 AppendAnswer(f, m, a.base_index + Len(a.entries), 0))

\* Append: splice after a matching base, else say where to back up to.
FollowerAppend(n, m) ==
  LET f == Following(n, m)
      a == m.message
  IN IF ~Obeys(n, m) THEN Done(n, {})
     ELSE IF a.base_index # 0 /\ ~Has(f.log, a.base_index, a.base_term)
       THEN Done(f, AppendAnswer(f, m, 0,
                                 Min({a.base_index, LastIndex(f.log) + 1})))
     ELSE IF SpliceOk(f.log, a.base_index, a.entries)
       THEN Done(Spliced(f, a),
                 AppendAnswer(f, m, a.base_index + Len(a.entries), 0))
       ELSE Panic(f, "splice")

FollowerRead(n, m) ==
  LET f == Following(n, m)
  IN IF ~Obeys(n, m) THEN Done(n, {})
     ELSE Done(f, {Env(f, m.from, [type |-> "ReadResponse",
                                   seq |-> m.message.seq])})

\* Mutant: the vote is given but not persisted.
FollowerCampaignUnsaved(n, m) ==
  LET grant == n.log.vote \in {Nil, m.from} /\ LogOk(n, m.message)
  IN Done(n, {Env(n, m.from, [type |-> "CampaignResponse", vote |-> grant])})

\* Mutant: an earlier vote in the term is not looked at.
FollowerCampaignRevotes(n, m) ==
  LET v == IF LogOk(n, m.message)
           THEN [n EXCEPT !.log = SetTermVote(@, m.term, m.from)] ELSE n
  IN Done(v, {Env(v, m.from, [type |-> "CampaignResponse",
                              vote |-> LogOk(n, m.message)])})

\* Campaign: one vote per term, for a log at least as new, persisted first.
FollowerCampaign(n, m) ==
  LET grant == /\ n.log.vote \in {Nil, m.from}
               /\ LogOk(n, m.message)
      v == IF grant THEN [n EXCEPT !.log = SetTermVote(@, m.term, m.from)]
           ELSE n
  IN Done(v, {Env(v, m.from, [type |-> "CampaignResponse", vote |-> grant])})

\* ClientRequest of a local client: passed to the leader, or aborted.
FollowerClientRequest(n, m) ==
  IF m.from = n.id /\ n.role.leader # Nil
    THEN Done([n EXCEPT !.role.forwarded = @ \cup {m.message.request.id}],
              {Env(n, n.role.leader, m.message)})
    ELSE Done(n, {Abort(n, m.from, m.message.request.id)})

\* Mutant: the answered request stays on the list of forwarded ones.
FollowerClientResponseKept(n, m) ==
  LET c == m.message
  IN IF m.from # n.role.leader \/ c.id \notin n.role.forwarded
       THEN Done(n, {})
       ELSE Done(n, {Reply(n, n.id, c.id, c.status, c.data)})

\* ClientResponse of the leader to a request this node passed on.
FollowerClientResponse(n, m) ==
  LET c == m.message
  IN IF m.from # n.role.leader \/ c.id \notin n.role.forwarded
       THEN Done(n, {})
       ELSE Done([n EXCEPT !.role.forwarded = @ \ {c.id}],
                 {Reply(n, n.id, c.id, c.status, c.data)})

\* InstallSnapshot: unless it is older than what is already applied.
FollowerInstallSnapshot(n, m) ==
  LET f == Following(n, m)
      s == m.message
      fresh == /\ s.last_included_index >= SnapshotIndex(f.log)
               /\ s.last_included_index >= f.sm.applied
      g == IF ~fresh THEN f
           ELSE [f EXCEPT
                   !.sm = Restored(s.data, s.last_included_index),
                   !.log = ResetWithSnapshot([@ EXCEPT !.snap = s.data],
                             s.last_included_index, s.last_included_term),
                   !.mem = [active |-> s.membership,
                            change_pending |-> s.membership.joint]]
  IN IF ~Obeys(n, m) THEN Done(n, {})
     ELSE Done(g, {Env(g, m.from,
                       [type |-> "InstallSnapshotResponse",
                        last_included_index |-> s.last_included_index])})

FollowerStep(n, m) ==
  CASE m.message.type = "Heartbeat" -> FollowerHeartbeat(n, m)
    [] m.message.type = "Append" -> FollowerAppend(n, m)
    [] m.message.type = "Read" -> FollowerRead(n, m)
    [] m.message.type = "Campaign" -> FollowerCampaign(n, m)
    [] m.message.type = "ClientRequest" -> FollowerClientRequest(n, m)
    [] m.message.type = "ClientResponse" -> FollowerClientResponse(n, m)
    [] m.message.type = "InstallSnapshot" -> FollowerInstallSnapshot(n, m)
    [] m.message.type \in {"CampaignResponse", "InstallSnapshotResponse"} ->
         Done(n, {})
    [] OTHER -> Panic(n, "follower received unexpected message")

-----------------------------------------------------------------------------
(* Pre-vote messages, which no role checks against its own term first.     *)

\* step_prevote and the same code in Candidate::step: nothing is persisted.
\* A follower that has a leader, and a leader, refuse.
PreCampaignStep(n, m) ==
  LET vote == /\ n.role.kind # "Leader"
              /\ n.role.kind = "Follower" => n.role.leader = Nil
              /\ LogOk(n, m.message)
              /\ m.term > Term(n)
  IN Done(n, {Env(n, m.from, [type |-> "PreCampaignResponse", vote |-> vote])})

\* A pre-candidate counts the grant and, with a quorum, starts the election.
PreCampaignResponseStep(n, m) ==
  LET c == [n EXCEPT !.role.votes =
              @ \cup ({m.from} \cap AllVoters(n.mem.active))]
      e == Campaign(c)
  IN IF ~(/\ n.role.kind = "Candidate"
          /\ n.role.phase = "PreVote"
          /\ m.message.vote)
       THEN Done(n, {})
     ELSE IF ~QuorumReached(c) THEN Done(c, {})
     ELSE IF QuorumReached(e.n) THEN Then(e, IntoLeader)
     ELSE e

-----------------------------------------------------------------------------
(* Candidate::step.  The message is of this node's term and not one that   *)
(* turns the candidate into a follower.                                    *)

CandidateCampaignResponse(n, m) ==
  LET c == [n EXCEPT !.role.votes =
              @ \cup ({m.from} \cap AllVoters(n.mem.active))]
  IN IF n.role.phase # "Election" \/ ~m.message.vote THEN Done(n, {})
     ELSE IF QuorumReached(c) THEN IntoLeader(c)
     ELSE Done(c, {})

CandidateStep(n, m) ==
  CASE m.message.type = "CampaignResponse" -> CandidateCampaignResponse(n, m)
    [] m.message.type = "Campaign" ->
         Done(n, {Env(n, m.from, [type |-> "CampaignResponse",
                                  vote |-> FALSE])})
    [] m.message.type = "ClientRequest" ->
         Done(n, {Abort(n, m.from, m.message.request.id)})
    [] m.message.type = "InstallSnapshotResponse" -> Done(n, {})
    [] OTHER -> Panic(n, "unexpected message")

-----------------------------------------------------------------------------
(* Leader::step.  The message is of this node's term.                      *)

\* The handler's last act: a leader no longer in the configuration steps down.
Finish(r, down) ==
  IF down /\ r.n.role.kind # "Panicked" THEN Then(r, StepDown) ELSE r

\* A commit attempt and then Step, ending the handler.
FinishCommit(c, Step(_)) == Finish(Then(Flagless(c), Step), c.down)
CommitThen(n, Step(_)) == FinishCommit(MaybeCommitAndApply(n), Step)

Stay(n) == Done(n, {})

\* maybe_send_append(from), which ignores a peer it no longer tracks.
SendTo(n, peer, probe) ==
  MaybeSendAppend(n, {peer} \cap DOMAIN n.role.progress, probe)

\* progress(from).advance(match) and, if it moved, a commit attempt.
AdvanceThen(n, from, match, Step(_)) ==
  IF match <= n.role.progress[from].match
    THEN Step(n)
    ELSE CommitThen(
           [n EXCEPT !.role.progress[from] = Advance(@, match)], Step)

\* ... followed by more entries for that peer.
AdvanceAndSend(n, from, match) ==
  LET more(k) == SendTo(k, from, FALSE)
  IN AdvanceThen(n, from, match, more)

\* progress(from).advance_read(seq) and, if it moved, maybe_read.
AdvanceRead(n, from, seq) ==
  IF seq <= n.role.progress[from].read
    THEN Done(n, {})
    ELSE MaybeRead([n EXCEPT !.role.progress[from].read = seq])

\* HeartbeatResponse: a peer without the last entry is probed further back.
LeaderHeartbeatResponse(n, m) ==
  LET h == m.message
      probe(k) == SendTo([k EXCEPT !.role.progress[m.from] =
                            RegressNext(@, LastIndex(n.log))], m.from, TRUE)
      advance(k) == AdvanceThen(k, m.from, h.match_index, Stay)
      read == AdvanceRead(n, m.from, h.read_seq)
  IN IF /\ h.match_index <= LastIndex(n.log)
        /\ h.read_seq <= n.role.read_seq
       THEN IF h.match_index = 0 THEN Then(read, probe) ELSE Then(read, advance)
       ELSE Panic(n, "future match index or read sequence number")

LeaderReadResponse(n, m) == AdvanceRead(n, m.from, m.message.seq)

\* AppendResponse, accepted or rejected.
LeaderAppendResponse(n, m) ==
  LET a == m.message
      pr == n.role.progress[m.from]
      back == RegressNext(pr, a.reject_index)
  IN CASE a.match_index > 0 /\ a.reject_index = 0 ->
            IF a.match_index <= LastIndex(n.log)
              THEN AdvanceAndSend(n, m.from, a.match_index)
              ELSE Panic(n, "future match index")
       [] a.match_index = 0 /\ a.reject_index > 0 ->
            IF a.reject_index > LastIndex(n.log)
              THEN Panic(n, "future reject index")
            ELSE IF a.reject_index <= pr.match \/ back = pr
              THEN Done(n, {})
            ELSE SendTo([n EXCEPT !.role.progress[m.from] = back], m.from, TRUE)
       [] OTHER -> Panic(n, "invalid message")

LeaderInstallSnapshotResponse(n, m) ==
  AdvanceAndSend(n, m.from, m.message.last_included_index)

CommitIfAlone(n) ==
  IF ClusterSize(n) = 1 THEN CommitThen(n, Stay) ELSE Done(n, {})

\* Write: append and replicate; the client is answered when it is applied.  A
\* cluster of one commits here.
LeaderWrite(n, m) ==
  LET w == [index |-> LastIndex(n.log) + 1, from |-> m.from,
            id |-> m.message.request.id]
      logged(k) == CommitIfAlone([k EXCEPT !.role.writes = @ \cup {w}])
  IN Then(Propose(n, m.message.request.id), logged)

\* Read: numbered, queued and announced; answered by maybe_read.
LeaderRead(n, m) ==
  LET seq == n.role.read_seq + 1
      r == [n EXCEPT
              !.role.read_seq = seq,
              !.role.reads = @ \cup {[seq |-> seq, from |-> m.from,
                                      id |-> m.message.request.id]}]
      out == Broadcast(r, [type |-> "Read", seq |-> seq])
  IN IF ClusterSize(n) = 1 THEN After(out, MaybeRead(r)) ELSE Done(r, out)

LeaderStatus(n, m) ==
  Done(n, {Reply(n, m.from, m.message.request.id, "Ok", <<>>)})

\* ChangeMembership: one change at a time, to a different, non-empty set.
LeaderChangeMembership(n, m) ==
  LET voters == m.message.request.voters
      refused == \/ n.mem.change_pending
                 \/ voters = {}
                 \/ n.mem.active.joint
                 \/ n.mem.active.new = voters
      w == [index |-> LastIndex(n.log) + 1, from |-> m.from,
            id |-> m.message.request.id]
      logged(k) ==
        CommitIfAlone([k EXCEPT !.role.membership_writes = @ \cup {w}])
  IN IF refused
       THEN Done(n, {Reply(n, m.from, m.message.request.id, "Invalid", <<>>)})
       ELSE Then(ProposeMembership(n, Joint(n.mem.active.new, voters)), logged)

LeaderClientRequest(n, m) ==
  CASE m.message.request.op = "Write" -> LeaderWrite(n, m)
    [] m.message.request.op = "Read" -> LeaderRead(n, m)
    [] m.message.request.op = "Status" -> LeaderStatus(n, m)
    [] OTHER -> LeaderChangeMembership(n, m)

PeerAnswers == {"HeartbeatResponse", "AppendResponse", "ReadResponse",
                "InstallSnapshotResponse"}

\* Answers from a peer whose progress is no longer tracked are ignored.
LeaderStep(n, m) ==
  IF m.message.type \in PeerAnswers /\ m.from \notin DOMAIN n.role.progress
  THEN Done(n, {})
  ELSE
  CASE m.message.type = "ClientRequest" -> LeaderClientRequest(n, m)
    [] m.message.type = "Campaign" ->
         Done(n, {Env(n, m.from, [type |-> "CampaignResponse",
                                  vote |-> FALSE])})
    [] m.message.type \in {"CampaignResponse", "Heartbeat", "Append", "Read",
                           "InstallSnapshot"} -> Done(n, {})
    [] m.message.type = "ClientResponse" -> Panic(n, "unexpected message")
    [] m.message.type = "HeartbeatResponse" -> LeaderHeartbeatResponse(n, m)
    [] m.message.type = "AppendResponse" -> LeaderAppendResponse(n, m)
    [] m.message.type = "ReadResponse" -> LeaderReadResponse(n, m)
    [] OTHER -> LeaderInstallSnapshotResponse(n, m)

-----------------------------------------------------------------------------
(* Node: the entry points of the main loop.                                *)

FromLeaderTypes == {"Heartbeat", "Append", "Read", "InstallSnapshot"}
PreVoteTypes == {"PreCampaign", "PreCampaignResponse"}

\* The three step functions on a message of this node's term.
SameTermStep(n, m) ==
  CASE n.role.kind = "Leader" -> LeaderStep(n, m)
    [] n.role.kind = "Follower" -> FollowerStep(n, m)
    [] n.role.kind = "Candidate" /\ m.message.type \in FromLeaderTypes ->
         FollowerStep([n EXCEPT !.role = Follower(m.from)], m)
    [] OTHER -> CandidateStep(n, m)

\* step: unknown senders and past terms are dropped; a newer term is adopted
\* and then the message is handled, all in one call.
Step(n, m) ==
  LET d == DiscoverTerm(n, m.term)
      dropped == \/ ~IsKnownSender(n, m.from)
                 \/ m.message.type \notin PreVoteTypes /\ m.term < Term(n)
  IN IF dropped THEN Done(n, {})
     ELSE CASE m.message.type = "PreCampaign" -> PreCampaignStep(n, m)
            [] m.message.type = "PreCampaignResponse" ->
                 PreCampaignResponseStep(n, m)
            [] m.message.type \notin PreVoteTypes /\ m.term > Term(n) ->
                 After(d.out, FollowerStep(d.n, m))
            [] OTHER -> SameTermStep(n, m)

\* The tick on which a follower's or candidate's election timeout expires.
ElectionTick(n) ==
  IF n.role.kind = "Follower" THEN IntoCandidate(n, TRUE)
  ELSE IF PreVote THEN PreCampaign(n) ELSE Campaign(n)

\* A leader's tick: a heartbeat if one is due, then check-quorum with the peers
\* heard from within the window.
LeaderTick(n, due, heard) ==
  LET h == IF due THEN Heartbeat(n) ELSE Done(n, {})
      lost == /\ CheckQuorum
              /\ ClusterSize(n) > 1
              /\ ~HasQuorum(n.mem.active, {n.id} \cup heard)
  IN Finish(h, lost)

\* A cluster of one elects itself at once.
Started(n) ==
  IF ClusterSize(n) = 1 THEN Then(IntoCandidate(n, FALSE), IntoLeader)
  ELSE Done(n, {})

\* Node::new on a log, and the state machine restored from its snapshot: the
\* newest membership in the log is in force and what is committed is applied.
NewNode(i, log) ==
  LET mems == Memberships(log.ents)
      last == Max(mems)
      mem == IF mems = {} THEN Bootstrap(InitVoters[i])
             ELSE [active |-> log.ents[last].mem,
                   change_pending |-> \/ log.ents[last].mem.joint
                                      \/ last + SnapshotIndex(log) > log.commit]
      sm == IF log.first > 1 THEN Restored(log.snap, SnapshotIndex(log))
            ELSE EmptyState
  IN Started(MaybeApply([id |-> i, log |-> log, mem |-> mem, sm |-> sm,
                         role |-> Follower(Nil)]))
=============================================================================
