# raft-rust: a TLA+ verification project

This directory models the Raft implementation of the repository in TLA+, checks
small instances of the cluster, of its storage, of its client sessions and of the
in-process cluster with TLC, and proves, with TLAPS, the safety of elections and of
log replication for clusters of every size, that their clients' acknowledged writes
stay and their reads are linearizable, that the log's storage survives crashes at any
point, and that puts take effect once for any number of clients and replicas. Paths below are relative to the repository root.

## 1. The system

| Component | State | Operations |
|---|---|---|
| `src/raft/membership.rs` | `MembershipState`: the active configuration (`Simple` or `Joint`) and `change_pending` | quorum tests, `apply_entry`, `on_commit` |
| `src/raft/log.rs` | term and vote, entries `first_index .. last_index`, commit index, snapshot metadata and bytes, all through an `Engine` | `set_term_vote`, `append_entry`, `commit`, `splice`, `has`, `scan`, `compact_to`, `reset_with_snapshot`, `new` |
| `src/raft/node.rs` | `RawNode<Follower / Candidate / Leader>`: the role's fields, the log, the membership, the state machine | `Node::new`, `step` (one handler per message and role), `tick` |
| `src/raft/message.rs` | – | the messages, requests and responses |
| `src/raft/state.rs`, `kv.rs`, `session.rs` | applied index, the key-value map, per-client `(seq, result)` | `apply`, `read`, `snapshot`, `restore` |
| `src/storage/` | BitCask: an append-only file and its key directory | `set`, `delete`, `flush`, `compact`, rebuild on open |
| `src/net/` | connections to peers | framing, `send_raft`, listener threads |
| `src/bin/raft_node.rs` | `client_replies` | the main loop: select over ticker, inbound and outbound channels |
| `src/bin/raft_cli.rs` | session file | requests with retry over the peers |
| `src/cluster/mod.rs` | in-process transport with loss, reordering and partitions | the test harness around the same `Node` |
| `src/config.rs`, `src/error.rs` | – | YAML, error kinds |

**Interaction.** Each process runs one thread that owns its `Node`. It handles one
tick, one inbound message or one client request at a time by a call of
`tick`/`step`; what the call sends goes to a channel that the same loop drains,
either to a waiting client (envelopes to the node itself) or to the TCP outbox.
So the unit of interleaving is one call of a node together with its sends.
Messages are fire-and-forget: a failed send is logged and forgotten, and
`message.rs` says they may be lost or reordered.

**What is hard.** Interleavings of several nodes' calls; messages delivered late,
in another order, or after the receiver has changed its role; processes that stop
between two calls, and a commit index that is written but not flushed; two
leaders of different terms that both serve clients; configurations that take
effect on append and may be truncated again; logs whose beginning was replaced by
a snapshot. `PROJECT.json` lists these hazards at the lines where they bite, with
the properties that cover them.

**What makes each component correct.**

* Membership: any two quorums that can decide in adjacent configurations intersect; changes do not overlap.
* Log: what is committed is never removed; what was flushed survives a restart.
* Node: one leader per term, logs agree, what is acknowledged stays, state machines agree, reads are linearizable, no assertion fails.
* Main loop: every client is answered at most once.
* Storage: between two methods of `Log` the engine holds exactly the log that the methods compute; a crash at any point keeps the vote and every committed entry.
* Session: however often a write is sent, committed and replayed it takes effect once, in the order of its client's numbers, and is answered with its own result.
* In-process cluster: once faults end and a majority is left, a leader is found and every running node applies the whole log.
* All together: clients see one growing sequence of commands (`ReplicatedLog`).

## 2. The modules

| Module | Models | Extends |
|---|---|---|
| `Membership` | `membership.rs`: configurations and quorums | |
| `RaftLog` | `log.rs`: the log as a record and each method as a function of it | `Membership` |
| `RaftNode` | `node.rs`, `message.rs`: a node as a record and each handler as a function `(node, message) -> [n, out]` | `RaftLog` |
| `RaftCluster` | `bin/raft_node.rs` and the network: the state machine with its actions | `RaftNode` |
| `RaftProperties` | the properties | `RaftCluster` |
| `ReplicatedLog` | what the cluster promises its clients and state machines, without saying how | |
| `RaftRefinement` | the cluster with the chosen log as a history variable, and the mapping by which it implements `ReplicatedLog` | `RaftProperties`, instance of `ReplicatedLog` |
| `BitCask` | `storage/bitcask.rs`: the engine as a record and each method as a function of it | |
| `LogStorage` | `log.rs` as the engine calls its methods make, with crashes between them, related to `RaftLog` | `RaftLog`, `BitCask` |
| `Session` | `session.rs` with `kv.rs`: `SessionState` as a record and its methods as functions | |
| `SessionClients` | `bin/raft_cli.rs`'s `put`, its session file and retries, against replicas that run `Session` | `Session` |
| `InProcess` | `cluster/mod.rs`: `run_node`, the fault-injecting `Transport`, `Cluster`'s operations, with fairness | `RaftNode` |
| `MCRaft`, `MCRefinement`, `MCStorage`, `MCSession`, `MCRecovery` | the instances for TLC | the module above each |
| `NumberProofs`, `RaftNodeProofs`, `RaftElectionProofs` | the proofs about quorums, the calls of a node and elections, each on top of the one before | `RaftProperties` |
| `RaftReplicationProofs` | what one call of a node does to its log and to what it tells others of logs | `RaftNodeProofs` |
| `RaftSafetyProofs` | the proofs about replication in the cluster | `RaftElectionProofs`, `RaftReplicationProofs` |
| `RaftClientProofs` | what calls owe and pay to clients, and the proofs about what clients are told | `RaftSafetyProofs` |
| `StorageProofs` | the proofs about `LogStorage` | `LogStorage`, `NumberProofs` |
| `SessionProofs` | the proofs about `SessionClients` | `SessionClients`, `NumberProofs` |

`RaftNode` is used twice: `RaftCluster` puts its nodes on a network that may do
anything, for safety, and `InProcess` on queues with faults that end, for liveness.
`RaftLog` is used twice as well: by the nodes, for which a method is one step, and by
`LogStorage`, which says when that is justified. `SessionClients` stands on the log
that `ReplicatedLog` promises.

### How state and actions correspond to the code

A node's record holds `RawNode`'s fields: `id`, `log`, `mem`, `sm` (the state
machine) and `role`, a record with the fields of `Follower`, `Candidate` or
`Leader`. Handlers are functions because the code moves a node by value through
`step(self, msg) -> Result<Node>`; `Then`, `After` and `Require` compose the calls
that a handler makes in the order it makes them. A panic is a role of its own
(`Panicked`, with the assertion that failed): the process is gone, and what the
failing step had sent was still in its channel and is lost. `Then` and its like take
operators as arguments, for which `map` has no entry. Which handler is which
line range is recorded in `PROJECT.json` under `map`.

The actions of `RaftCluster` are the branches of the main loop:

* `Timeout(i)`: the tick on which a follower's or candidate's election timeout expires;
* `Tick(i, due, heard)`: a leader's tick with a heartbeat due or not, and the peers heard from within the check-quorum window;
* `Receive(m)`: `Inbound::Raft`, one `Node::step`;
* `Ask(i, r)`: `Inbound::Client`, `Node::step` on an envelope of the node to itself;
* `Restart(i, commit)`: the process stops (or has panicked) and `run()` starts it again: `Log::new`, restore from the snapshot, `Node::new`. The commit index is the last one written, or after a power loss any older one down to the last one flushed; that nothing else is lost is `CrashBetweenMethods` of `LogStorage`.

The history variables `ballots` (votes ever persisted) and `elected` (who led
which term) and, per request, `asked` (the writes acknowledged before it was
asked) exist for the properties only. `spent` counts bounded environment events.

**Refinement.** `RaftRefinement` adds `chosen`, the longest sequence of commands any node
has ever applied, and maps `log <- chosen`, `applied <- node[i].sm.data`; `asked` and
`replies` are the same in both. A step of the cluster may extend the log, run state
machines ahead or put one back (a restart), and answer: writes once they are on the
log, reads from a prefix that has every write acknowledged before they were asked.

**Storage.** In `LogStorage` a method is called (`Call...`) and then makes its engine calls
one by one (`EngineCall`); a `Crash` may come before any of them and leaves any prefix of
the file that includes what was synced (all of it after a kill) and perhaps a torn
record. `log` is the `RaftLog` value that the finished methods have computed, so the
properties compare what is on disk with what `RaftCluster` assumes. `Reopen` is an
orderly stop, which flushes, with or without compaction at the next start.

**Sessions.** In `SessionClients` a process of `raft-cli` does one put in the steps that
others can see: read the file, truncate it, write it, send, send again, give up.
Requests wait in a set and may be committed late, twice, and by any replica. A replica
has a client to answer until it restarts or the client has hung up.

**In-process cluster.** In `InProcess` a thread's branch of `select!` is an action
(`Timeout`, `Beat`, `Receive`), with what it sends delivered at once; mailboxes are
queues. The test harness's operations on the transport and on threads are `Harness`.

### Abstractions

* **Time** (for `RaftCluster`; `InProcess` has its own rules, below). Tick counters (`leader_seen`, `election_duration`, `since_heartbeat`, `peer_seen`) are not kept: a timeout may expire, a heartbeat be due and the check-quorum window lapse at any time. Every run of the code is a run of the model. `step_prevote` refuses while `leader_seen < election_timeout`; between two calls that always holds, since `tick` turns the node into a candidate as soon as they meet, so "has a leader" is the exact condition.
* **Data.** A write's command is its request's id; the state machine is the sequence of commands applied (a noop or membership entry is `Nil`), which determines any deterministic state. A read returns that sequence. `WriteSession` has the same handler as `Write` and is not a request of its own.
* **The network** is a bag. A message that is never received is lost, so loss needs no action. Duplication is not modelled: `send_raft` sends an envelope again, on a new connection, only when a write has failed and so the first frame was not handed over in full.
* **Reductions.** `Emit` forgets messages that no step will ever act on again (`Stale`: of a past term, refused pre-votes, votes for an election that is over), and `Receive` leaves a message that would have no effect where it is. Neither removes a behaviour of the nodes.
* **Atomicity.** A method of `Log` is one step of the cluster. What a crash inside a method leaves is the question `LogStorage` answers.
* **I/O errors** of the engine make `step` or `tick` return an error, on which the main loop ends: a stop.

## 3. What TLC checks

Clusters have three servers. "Hub" cuts the link between `n1` and `n3`, so that
every quorum goes through `n2`: it keeps the interesting conflicts (two leaders, a
voter between them) and removes runs that only differ in who else heard what.
Deadlock is not checked because a bounded number of events is used up in the end.

| Run | Bounds | Checks |
|---|---|---|
| `MCMembership` | hub, a change to `{n1}`, 3 timeouts, 1 leader tick, 1 stop | `ElectionSafety`, `VotesBacked`, `MatchBacked`, `LeaderCompleteness`, `TermVoteMonotonic`, `CommittedStable` |
| `MCReplication` | hub, a write and a read asked in any role, 2 timeouts, 1 stop | `TypeOK`, `NoAssertionFails`, `CommittedOnQuorum`, `AcknowledgedDurable`, `ReadsLinearizable`, `AnsweredOnce`, `ImplementsReplicatedLog` |
| `MCPastTerms` | hub, 7 timeouts, one entry per Append, 2 stops of `n1`, `n3` | `LogMatching`, `LeaderCompleteness`, `CommittedOnQuorum` |
| `MCSnapshot` | full mesh, pre-vote, a write, a snapshot after every commit, 1 timeout and 1 stop of `n1` | `SnapshotFaithful`, `StateMachineSafety` |
| `MCStorage` | 2 terms, 2 indexes, 4 method calls, 2 crashes, 1 reopening | `StoreImplementsLog`, `CrashBetweenMethods`, `CrashKeepsVote`, `CrashKeepsCommitted`, `CrashInAppendLeavesPrefix` |
| `MCSession` | 3 puts, 3 requests sent, 2 replicas, 1 process killed, replica restarted or leader replaced, 2 snapshots taken or installed | `ReplicasAgree`, `EffectsOnceInOrder`, `NumbersFresh`, `AcknowledgedEffective` |
| `MCRecovery` | without pre-vote, 2 faults of any kind (one-way and two-way partitions of `n1`, healing, drops, reordering, `n1` stopped), 1 timer that expires while faults last | `Recovers` |

Why the bounds are enough: two timeouts of different nodes give two candidates of
one term and also an old and a new leader at the same time; a stop of any node
falls between any two of its calls; seven timeouts give the four terms of figure 8
of the paper, in which an entry of an old term is on a majority and still
overwritten (the mutant that commits by counting any term is caught there); a
change from three voters to one makes a majority of the new configuration disjoint
from majorities of the old one, which is what joint consensus must exclude (the
mutant that skips the Joint is caught there); a snapshot threshold of 1 compacts
on every commit. Four calls on the store are enough to make entries, commit one,
compact or install a snapshot and splice behind it, and two indexes to stop between two
deletions or two writes of one method; two crashes, to lose power after a kill has been
survived. Three puts are one given up, one that overtakes it and one more of
another process; two snapshots are one taken and one installed elsewhere. Every
property is broken by a plausible mutant of the code
(listed in `PROJECT.json`, defined before the definition it replaces). Symmetry is
used where the constants treat the permuted servers alike (`n1` and `n3` of the
hub; the followers `n2` and `n3`; processes and replicas of `MCSession`);
`MCMembership` names `n1` and `MCRecovery` checks liveness, and they use none.

### Fairness and time

`RaftCluster`'s properties are safety and its `Spec` is `Init /\ [][Next]_vars`. Liveness is
asked of `InProcess`, whose scheduling the code determines:

* **Weak fairness of threads**, and of nothing else. `run_node` waits in crossbeam's `select!` on its channels and on a ticker that never ends, so a thread that has a message, or whose timer will expire, eventually runs; no operation of the harness is ever obliged to come. `Fairness` is `WF_slice(Busy /\ slice' = 1 - slice)`: `Busy` says that some thread can run and `slice` flips whenever one does, so this is weak fairness of `\E i \in Server : Thread(i)`, in a form in which TLC can evaluate `ENABLED`. (Every receipt of a message is a step of its queue's owner, and queues are finite between two timers, so one condition for all threads is enough.)
* **Timers see a quiet network.** A tick is 100 ms, a channel hop microseconds: a timer expires only when the mailboxes are empty (`Quiet`).
* **A leader's heartbeats hold off the followers they reach** (`Led`): the heartbeat interval is 2 ticks and the election timeout 5 to 10 in `test_options`.
* **No timer always wins.** Election timeouts are drawn anew from a range at every reset; a timer does not expire twice while another keeps running (`expired`). Without that, two candidates may split votes for ever, which in the code has probability zero.
* **While faults last, `MaxTimers` timers expire**, so that terms stay bounded in a cluster without a majority; once `Healthy`, any number does, and TLC finds the state space finite because a leader is found.
* **The last operation leaves the cluster healthy**: a majority runs, nothing is dropped or held and no partition is left between running nodes. With reordering left on, each node's last message is held until another follows, which is no cluster that promises to recover.

`Recovers` is `<>[]Healthy => <>[]Agreed`: from some moment on there is one leader, every
running node is in its term, has its log and has applied all of it.

### Where the code disagrees with what it says

Five runs state a promise of a comment or document and TLC finds a behaviour of
the code that breaks it. Each is described, with the line quoted, under `findings`.

| Run | Property | What happens |
|---|---|---|
| `MCLateResponse` | `NoPanic` | A leader steps down by check-quorum without a change of term; a `HeartbeatResponse` of that term arrives; `Follower::step` panics on it. |
| `MCStaleMembership` | `ActiveIsNewest` | A membership entry is truncated by `splice` and stays active, or a late `Append` makes an older one active again. |
| `MCSnapshotBase` | `NoAssertionFails` | After `compact_to`, `maybe_send_append` looks for the compacted entry before `next_index` and panics on the first write. |
| `MCSnapshotDiscards` | `AcknowledgedDurable` | An `InstallSnapshot` that arrives after later entries were acknowledged deletes them too. |
| `MCStuck` | `LeaderEmerges` | With pre-vote: `n2` leads term 1 with an entry it could not replicate, `n3` wins a pre-vote, campaigns in term 2 and its `Campaign` is dropped, `n1` is stopped, drops end. `n2` steps down by check-quorum. From then on `n3` refuses `n2`'s pre-vote, whose term 2 is not above its own, and `n2` refuses `n3`'s for its shorter log. Neither ever learns the other's term or leaves the loop, although two of three nodes run and hear each other. |

`MCSnapshot` passes next to the last two: it shows that what survives is right
(snapshots are faithful and state machines agree) and leaves availability and
durability to the runs above. `NoAssertionFails` of `MCReplication` and
`AcknowledgedDurable` are checked there without snapshots, and hold.

`MCRecovery` is without pre-vote for the same reason: with it, `Recovers` fails as
`LeaderEmerges` does in `MCStuck`.

What the properties of storage and sessions except, because the code does not keep it:

* Two `raft-cli` processes in one directory that read the session file before either has written it send the same number; the second put is answered from the first one's cache and never takes effect. `docs/en/09`:28 calls the number monotonically increasing within a session. `NumbersFresh` and `AcknowledgedEffective` are stated for `~raced`.
* A kill inside `splice`, after the new entries are written and before the old tail is deleted, leaves the old tail behind the new entries, with terms that go down. `log` is `Nil` there: no value of `RaftLog` stands for it. Committed entries are not concerned (`CrashKeepsCommitted`).
* A kill inside `compact_to` or `reset_with_snapshot` between the last deletion and `SnapshotMeta`, when there was no snapshot before, leaves a log without entries whose commit index is beyond its end.
* `Log::new` does not flush. A kill between the write and the flush of a vote, a restart that uses the vote, and a power loss before anything else is flushed take the vote back (`set_term_vote` returns early when nothing changes). `unsettled` marks these states.
* `compact()` renames a file that was never synced over the one that was: a power loss then may leave any prefix of it.

Other things seen while modelling, for which there is no run: a new leader that
commits `[Joint, Simple, Joint]` as one batch (with an older configuration that a late
`Append` made active again, as in `MCStaleMembership`) proposes a `Simple` for each
`Joint`, also for the one that has had its `Simple`, so that the configurations of two
changes overlap, against `membership.rs`:135; an in-process node that is stopped and
started again has an empty log, and its leader, which still believes its old match
index, never sends it what it lacks (`start` is meant for new members); a forwarding
follower that times out into pre-vote panics on the leader's late
`ClientResponse`; a cluster that is reduced to one voter while running never
elects that voter by `tick` (`pre_campaign` starts the election but only a
response calls `into_leader`); `into_leader` ignores the step-down flag of its
commit; a removed leader steps down when its `Simple` is appended rather than when
it is committed (`docs/en/10`, 5.3, says "after Simple{2,3} commits"); after
compaction and restart the membership is that of the configuration file; the
module comment of `src/raft/mod.rs` still says that there are no snapshots, and
`docs/en/11` that followers compact too, which only the leader does.

## 4. What is proved

TLAPS proves, without a bound on servers, terms, messages, requests, timeouts or
restarts and, except where it says otherwise, for every value of the options:

* `RaftNodeProofs!QuorumsShare` and `JointSharesWithBoth`: two quorums of a configuration share a voter, and a quorum of a `Joint` meets every majority of both halves.
* `RaftElectionProofs`: in `StaticMembership /\ Spec`,
  `StaticElectionSafety` (`[]ElectionSafety`), `StaticVotesBacked` (`[]VotesBacked`),
  `StaticTermVoteMonotonic` (`TermVoteMonotonic`), and `StaticTypes` (`NodesTyped`, `NetTyped` and `HistoryTyped`, the parts of `TypeOK` that concern the protocol).
* `RaftSafetyProofs`: in `StaticMembership /\ SnapshotThreshold = 0 /\ Spec`, the safety
  of replication: `WholeLogMatching`, `WholeMatchBacked`, `WholeLeaderCompleteness`,
  `WholeCommittedOnQuorum`, `WholeStateMachineSafety`, `WholeNoAssertionFails` (each `[]` of
  the property of that name) and `WholeCommittedStable` (`CommittedStable`), from
  `ChronicleHolds` (`[]Chronicled`).
* `RaftClientProofs`: under the same hypotheses, what clients are promised:
  `WholeAcknowledgedDurable`, `WholeReadsLinearizable` and `WholeTypeOK` (each `[]` of the
  property of that name), from `AccountHolds` (`[]Accounted`).
* `StorageProofs`: in `LogStorage!Spec`, without further hypothesis and for any number of terms, indexes, method calls, crashes and reopenings, `StoreAlwaysImplementsLog` (`[]StoreImplementsLog`), `CrashLosesOnlyCommits` (`CrashBetweenMethods`), `CrashNeverForgetsVote` (`CrashKeepsVote`), `CrashNeverLosesCommitted` (`CrashKeepsCommitted`) and `CrashLeavesPrefix` (`CrashInAppendLeavesPrefix`), from `StoreHolds` (`[]StoreInv`).
* `SessionProofs`: in `SessionClients!Spec`, without further hypothesis and for any number of puts, requests sent, replicas, faults and snapshots, `AlwaysReplicasAgree`, `AlwaysEffectsOnceInOrder`, `AlwaysNumbersFresh` and `AlwaysAcknowledgedEffective`, each `[]` of the property of that name, from `SessionInv` (`[]IInv`).

**Assumptions.** `NodeAssumption`, `ClusterAssumption` and `AskedAssumption` on the
constants (a finite set of servers that all know of themselves, a positive batch size,
requests told apart by their ids, a value `Nil` that is none of the ids nor a set of
them), and `StaticMembership`: no client asks for `ChangeMembership` and
every node starts with all servers as voters. Dynamic membership stays with TLC: by
`MCStaleMembership` the code's own bookkeeping of
configurations is not what a proof would need. Replication is proved for
`SnapshotThreshold = 0`, which is the code's default (`Options::default()`, `node.rs`:76):
with snapshots `NoAssertionFails` is false (`MCSnapshotBase`), and an `InstallSnapshot`
that arrives late discards what a follower has vouched for (`MCSnapshotDiscards`), so
that the invariant below does not hold either. Batch size, pre-vote and check-quorum
are arbitrary. For the sessions,
`SessionAssumption`: a process's client id is its own (`Uuid::new_v4`), and the value
that stands for "none" is no id and no record. For the storage, `StorageAssumption`: "none"
is neither a voter nor a log, and the bounds are naturals.

**Elections.** `ElectionSafety` is not inductive: it says nothing about who has voted.
`Inv` adds what the history knows. No recorded ballot is of a later term than its
voter's, and one of the voter's term is the vote persisted (`BallotsPast`); no
voter has two ballots in a term (`OneVote`); every persisted vote is recorded
(`VotesNoted`); every vote that a candidate counts (`Knows`) or that is in flight
(`Carried`) is recorded; whoever has led has a majority of recorded ballots
(`OfficesBacked`). Two leaders of a term then share a voter (`QuorumsShare`), who
voted once.

The proof is in two layers, as the model is. For a single call, `RaftNodeProofs`
shows the contract `Moves`: the result has the right type, terms grow and a vote is
not changed, a granted vote is the one persisted, and votes are counted or an office
entered only on ballots already cast. There is a lemma per handler; most change
neither term nor vote nor grant anything (`Keeps`), which is shown
from the types and the ballot alone. For the cluster, `StepKeepsInv` shows that any
step whose call obeys `Moves` keeps `Inv`, so that `Timeout`, `Tick`, `Receive`, `Ask` and
`Restart` are one case each.

**Replication.** None of the log properties is inductive, and no invariant of nodes and
messages alone will do: whether an entry can still be lost depends on what the
leaders of past terms had in their logs and on who had answered them. A *chronicle*
`w` is a record of the cluster's nodes, mail and ballots together with that past: the
last log of each term's leader (`w.log[t]`), up to where each node's log has been that of
the leader of `t` (`w.held[t][v]`: what it has *vouched for*), who led (`w.offices`) and how
many reads each leader has numbered (`w.reads[t]`). `Chronicled` says that some chronicle
with the state's nodes, mail and ballots is `Consistent`. It is a state predicate,
so the past is not added to the model: each step of the proof gives the next chronicle as
a witness. `Consistent` says that

* logs grow out of leaders' logs (`LeadersRooted`, `NodesRooted`): every entry is in the log of its term's leader, with all before it, and terms only rise. Log matching follows.
* who led was elected (`LedByElected`, `Voted`), once per term; a candidate has not led its term yet (`NotYetLed`), so the log of a term starts empty.
* a leader's log is that of its term and its `match_index` of a peer is at most what the peer has vouched for (`LeadersTrack`); what a node vouched for in its present term is there (`HeldNow`), and `match_index`, `reject_index` and heartbeats in flight are true (`MailClaims`), however late they arrive.
* an entry `k` of term `t` is *chosen* if a majority has vouched for it and *blocked* if a majority has left `t` without vouching for it. Whatever is not blocked is in the log of every later leader (`LeadersKeep`), of every node that vouched for it (`HoldersKeep`) and of every candidate with the ballot of such a node (`CandidatesKeep`). The last one is why a vote may be given before the election is decided, and why `LogOk` compares the last term before the last index. Chosen and blocked exclude each other (`QuorumsShare`); both are stable.
* every commit index covers only a chosen entry of its leader's term and what is before it (`CommitsChosen`), which is what the condition on the term in `maybe_commit_and_apply` is for (figure 8 of the paper).
* nodes are sound (`NodesSound`): the state machine has applied exactly the committed prefix, and a panic is one of the two on message types.

Again the proof is in two layers. `RaftReplicationProofs` shows of a single call, handler by
handler, that it either `Governs` (the node leads after it: its log has only grown
by entries of its term, its reports are true, it commits only what a quorum vouched
for) or `Serves` (it follows: its log is the old one or caught up with the leader's,
its answers vouch for no more than it has), given what it `Relies` on of the message, which
mentions no other node. `RaftSafetyProofs` shows that `Consistent` grants that
(`MessageRelied`), that either kind of call has a next chronicle, and that this
is `Consistent`, a lemma for each conjunct and kind of call (`Served...`, `Governed...`). The
crux is `GovernedLeadersKeep`: the majority that elected a leader and a majority that
vouched for an entry share a voter, whose vote says that the winner's log has
the entry or that it is blocked. `NextKeepsChronicle` then takes the actions one by one; a
restart is a call that `Serves` nobody, with a commit index moved back.

**Clients.** `AcknowledgedDurable` and `ReadsLinearizable` compare what clients were told
with logs and with what was acknowledged when a read was asked; neither a leader's
queues nor a confirmation in flight occurs in them. `Accounted` adds to the chronicle
an *account*: `c[t][v]`, up to where node `v` has confirmed reads to the leader of term
`t`, and relates the two to queues, messages and replies (`Books`, `RepliesGiven`).

* A write is *settled* (`SettledIn`) when its entry is in the log of a term's leader at or below a chosen entry of that term, and whoever leads that term knows it to be committed. A pending write of a leader waits for an entry of its own term with its id (`Owes`), so what is answered when that is applied is settled; and settled entries are on a majority, by `HoldersKeep`.
* What was acknowledged before a request was asked is settled (`AskedSettled`). When a leader numbers a read, whatever is settled then was settled in its term or before: a later term's leader was elected by a majority that left this one, none of whom has confirmed the new number, and a number a majority has left without confirming is never served (`Passed`). So each queued read will *see* what was acknowledged before it, or never be answered (`Seen`, `Attested`), and both are stable.
* A leader answers a read only when a majority has confirmed its number (`Confirmed`), which excludes `Passed` (two majorities share a node), and only when it has committed an entry of its own term: then its committed entries include everything settled in earlier terms (`LeadersKeep`), which is what the test of the commit's term in `maybe_read` is for; what was settled in its own term it knows to be committed.
* Answers, requests and confirmations that are forwarded or late say no more than what they were made from (`Honest`).

As before there is a contract of a single call, `Fares`: a leader goes on and `Earns` (what it
owes and pays afterwards), an office is opened with nothing owed (`Opens`), or the node
does not lead and only passes on what it has heard (`Retires`). It is shown handler by
handler, from the same facts about the call that replication rests on. `DealtBooks` and
`DealtReplies` carry the account over any call, `NextFares` takes the actions one by one.

**Storage.** `StoreImplementsLog` speaks of the moments between methods, and a crash inside
one leaves something between two logs: the invariant must say what. `StoreInv` looks
at the file as it will be when the engine calls still to come are done (`Future`), so
that an engine call changes nothing in what it says but how much of that file is there.
`Pic` is what a number of records shows: the live keys, by their role in the log. A stop
leaves a beginning of the file, and the log opened on it is a function of the picture at
that place (`OpenedAs`, `StopOk`). `StoreOk` requires

* of the picture at the end, that it stands for the log that the method computes (`Stores`);
* of every picture a stop may leave, that it opens at all and that nothing flushed is missing (`AllSound`);
* of those the method under way has made, that they are *between* its two logs: one of the two votes, every committed entry or a snapshot that has it and is used, and, when the method only adds entries, some of them (`Between`);
* while nothing but commit indexes has been written since the last flush, that the pictures differ in nothing else and that the index grows (`OnlyCommits`): `commit` is the one method that does not flush.

The stages left by a method that a kill interrupted, whose records nothing has flushed,
and those of a compacted file that was not synced are excepted, as in `CrashStep`. A
method's lemma (`SetTermVoteOk` .. `InstallCallOk`) goes through its calls in the order
the code makes them and shows that every stage is one of these; the order matters in
`splice` (new entries are written before the old tail is deleted, from the first one
on) and in `compact_to` and `reset_with_snapshot` (the snapshot comes first, `SnapshotMeta`
after the deletions). What a flush or an engine call does is shown once (`EngineCallOk`), and so
is what reopening and compaction do (`ReopenOk`). `KeydirsOf` unfolds the keydir's recursive
definition record by record, with `SetInduction`.

**Sessions.** What a client is promised depends on every entry committed before, so
the invariant `IInv` speaks of all prefixes of the log: `Lawful` says of the state
after each prefix (`StateAfter[k]`, a recursive function) that the puts in effect are
once each and in the order of their numbers, that the session table holds a number at
least as high as each of them (`Ordered`), and that a cached response is the index of
the entry that took effect (`Cached`); `Replicas`, that each replica and each snapshot
is the state after some prefix, however often it restarted or had a snapshot
installed. The rest is about where entries come from: `Traced` (a request under way
or committed is the put of a process that has sent it), `Stages` (which process has an
id and has sent), and `Numbered` (unless two processes used the file at once, no two
puts of an id share a number and the file is never behind one that may be sent).
`EffectsOnceInOrder` by itself is not inductive: nothing in it keeps a table from
forgetting a number. The library's induction theorem takes an operator as a
parameter, which the provers cannot instantiate; `NumberProofs!SetInduction` states
it of a set, from the well-foundedness of the naturals, and `RunUnfolds` and
`RunExtends` unfold `StateAfter` with it.

**What is only model-checked**: single answers (`AnsweredOnce`, which would need an
invariant that counts the copies of a request in the bag, in queues and in lists of
forwarded requests), the refinement of `ReplicatedLog` (whose `Answer` also forbids a
second answer, so that a proof needs the first), snapshots (`SnapshotFaithful`) and every property of
replication and of clients with them, recovery, and everything with a changing
membership. `Chronicled` and `Accounted` quantify over functions on all terms, and
`StoreInv` over all logs, which TLC cannot enumerate: what it checks first are the
properties they imply. Liveness and `ENABLED` are out of this prover's reach.

## 5. Plan

Done: all modules of section 2, their runs, and the proofs of section 4. From
here:

1. Proofs about the cluster, on top of `AccountHolds`: `AnsweredOnce`; with it the refinement of `ReplicatedLog`, whose answers `Settled` and `Seen` already describe.
2. A run with snapshots and membership together, once the snapshot defects no longer end every behaviour early.

## 6. Not modelled

The wire codec, YAML configuration, command line parsing and error conversions (pure
I/O and data conversion); TCP connections, their cache and the threads of the listener
(a lost connection is a lost message; a client's connection carries one request); the
contents of `Status`. Of the in-process cluster: `start` and `set_members`, which are for
membership changes driven by tests, and `Client`, whose retries without a session make
a put at-least-once. Of the storage: byte layout, the file lock and I/O errors. Ticks
are not counted anywhere: what a timer may do when is stated instead (section 3).
