--------------------------- MODULE RaftNodeProofs ---------------------------
(***************************************************************************)
(* What the handlers of a node preserve, in a cluster whose membership     *)
(* does not change: the outcome of each is a node and envelopes of the     *)
(* right types, and the persisted term and vote, the votes a candidate     *)
(* counts and the votes it gives move only as the election rules allow.    *)
(* Before that, what all elections and commits rest on: quorums of a       *)
(* configuration, and of one and the next on the way through a joint one,  *)
(* have a voter in common.                                                 *)
(***************************************************************************)
EXTENDS RaftProperties, NumberProofs, TLAPS, FiniteSetTheorems, SequenceTheorems

-----------------------------------------------------------------------------
(* Quorums.                                                                *)

\* Two strict majorities of the same finite set of voters share a voter.
LEMMA MajoritiesShare ==
  ASSUME NEW V, IsFiniteSet(V), NEW A, NEW B, Majority(V, A), Majority(V, B)
  PROVE  \E v \in V : v \in A /\ v \in B
<1> DEFINE a == V \cap A
           b == V \cap B
<1>1. Cardinality(V) \in Nat
  BY FS_CardinalityType
<1>2. /\ a \in SUBSET V /\ b \in SUBSET V
      /\ IsFiniteSet(a) /\ IsFiniteSet(b)
  BY FS_Subset
<1>3. Cardinality(a) \in Nat /\ Cardinality(b) \in Nat
  BY <1>2, FS_CardinalityType
<1>4. /\ Cardinality(a) >= Cardinality(V) \div 2 + 1
      /\ Cardinality(b) >= Cardinality(V) \div 2 + 1
  BY DEF Majority
<1>5. Cardinality(a) + Cardinality(b) > Cardinality(V)
  <2> HIDE DEF a, b
  <2> QED BY <1>1, <1>3, <1>4
<1>6. a \cap b # {}
  BY <1>2, <1>5, FS_MajoritiesIntersect
<1> QED BY <1>6

\* THEOREM: Any two quorums of one configuration, simple or joint, share a
\* voter (Membership::has_quorum and MembershipEntry::has_quorum).
THEOREM QuorumsShare ==
  ASSUME NEW S, IsFiniteSet(S), NEW c \in MembershipEntry(S),
         NEW A, NEW B, HasQuorum(c, A), HasQuorum(c, B)
  PROVE  \E v \in AllVoters(c) : v \in A /\ v \in B
<1>1. c.new \in SUBSET S /\ Majority(c.new, A) /\ Majority(c.new, B)
  BY DEF MembershipEntry, HasQuorum
<1>2. IsFiniteSet(c.new)
  BY <1>1, FS_Subset
<1> QED BY <1>1, <1>2, MajoritiesShare DEF AllVoters

\* THEOREM: On the way from one set of voters to another, however different,
\* a quorum of the joint configuration shares a voter with every quorum of the
\* configuration before it and with every quorum of the one after it: while
\* the change is under way neither half can decide without the other.
THEOREM JointSharesWithBoth ==
  ASSUME NEW S, IsFiniteSet(S), NEW old \in SUBSET S, NEW new \in SUBSET S,
         NEW A, NEW B, HasQuorum(Joint(old, new), A),
         \/ HasQuorum(Simple(old), B)
         \/ HasQuorum(Simple(new), B)
  PROVE  \E v \in S : v \in A /\ v \in B
<1>1. Majority(old, A) /\ Majority(new, A)
  BY DEF HasQuorum, Joint
<1>2. Majority(old, B) \/ Majority(new, B)
  BY DEF HasQuorum, Simple
<1>3. IsFiniteSet(old) /\ IsFiniteSet(new)
  BY FS_Subset
<1> QED BY <1>1, <1>2, <1>3, MajoritiesShare

-----------------------------------------------------------------------------
(* The types of a cluster whose membership does not change.                *)

Cmd == Ids \cup {Nil}
State == StateType(Ids)
StaticEntry == [term : Nat, cmd : Cmd, mem : {Nil}]
StaticLog ==
  [term : Nat, vote : Server \cup {Nil}, first : Nat \ {0}, snapTerm : Nat,
   snap : State, ents : Seq(StaticEntry), commit : Nat, synced : Nat]

\* Neither the term nor the vote is touched.
SameBallot(log, k) == k.term = log.term /\ k.vote = log.vote

-----------------------------------------------------------------------------
(* Log.                                                                    *)

\* The last index and the snapshot index of a log are naturals.
LEMMA IndexTypes ==
  ASSUME NEW log \in StaticLog
  PROVE  /\ LastIndex(log) \in Nat
         /\ SnapshotIndex(log) \in Nat
         /\ LastIndex(log) >= SnapshotIndex(log)
         /\ Len(log.ents) \in Nat
<1>1. log.first \in Nat \ {0} /\ log.ents \in Seq(StaticEntry)
  BY DEF StaticLog
<1>2. Len(log.ents) \in Nat
  BY <1>1, LenProperties
<1> QED BY <1>1, <1>2 DEF LastIndex, SnapshotIndex

\* What get() finds is an entry.
LEMMA EntryTypes ==
  ASSUME NEW log \in StaticLog, NEW k \in Int, Stored(log, k)
  PROVE  EntryAt(log, k) \in StaticEntry
<1>1. log.first \in Nat \ {0} /\ log.ents \in Seq(StaticEntry)
  BY DEF StaticLog
<1>2. Len(log.ents) \in Nat
  BY <1>1, LenProperties
<1>3. k + 1 - log.first \in 1 .. Len(log.ents)
  BY <1>1, <1>2 DEF Stored, LastIndex
<1> QED BY <1>1, <1>3, ElementOfSeq DEF EntryAt

\* The terms read from a log are naturals.
LEMMA TermTypes ==
  ASSUME NEW log \in StaticLog
  PROVE  /\ \A k \in Int : TermAt(log, k) \in Nat
         /\ LastTerm(log) \in Nat
         /\ CommitTerm(log) \in Nat
<1>1. \A k \in Int : TermAt(log, k) \in Nat
  <2> TAKE k \in Int
  <2>1. CASE Stored(log, k)
    BY <2>1, EntryTypes DEF TermAt, StaticEntry
  <2>2. CASE ~Stored(log, k)
    BY <2>2 DEF TermAt, StaticLog
  <2> QED BY <2>1, <2>2
<1>2. LastIndex(log) \in Int /\ log.commit \in Int
  BY IndexTypes DEF StaticLog
<1> QED BY <1>1, <1>2 DEF LastTerm, CommitTerm

\* A flush changes neither the entries nor the ballot.
LEMMA FlushedType ==
  ASSUME NEW log \in StaticLog
  PROVE  /\ Flushed(log) \in StaticLog
         /\ SameBallot(log, Flushed(log))
         /\ Flushed(log).ents = log.ents
BY DEF Flushed, StaticLog, SameBallot

\* set_term_vote writes the term and vote it is given.
LEMMA SetTermVoteType ==
  ASSUME NEW log \in StaticLog, NEW t \in Nat, NEW v \in Server \cup {Nil}
  PROVE  /\ SetTermVote(log, t, v) \in StaticLog
         /\ SetTermVote(log, t, v).term = t
         /\ SetTermVote(log, t, v).vote = v
         /\ SetTermVote(log, t, v).ents = log.ents
<1> DEFINE k == [log EXCEPT !.term = t, !.vote = v]
<1>1. k \in StaticLog /\ k.term = t /\ k.vote = v /\ k.ents = log.ents
  BY DEF StaticLog
<1>2. Flushed(k) \in StaticLog /\ SameBallot(k, Flushed(k))
      /\ Flushed(k).ents = k.ents
  BY <1>1, FlushedType
<1> QED BY <1>1, <1>2 DEF SetTermVote, SameBallot

\* append keeps the ballot.
LEMMA AppendEntryType ==
  ASSUME NEW log \in StaticLog, NEW cmd \in Cmd
  PROVE  /\ AppendEntry(log, cmd, Nil) \in StaticLog
         /\ SameBallot(log, AppendEntry(log, cmd, Nil))
<1> DEFINE e == Entry(cmd, Nil, log.term)
           k == [log EXCEPT !.ents = Append(@, e)]
<1>1. e \in StaticEntry
  BY DEF Entry, StaticEntry, StaticLog
<1>2. Append(log.ents, e) \in Seq(StaticEntry)
  BY <1>1, AppendProperties DEF StaticLog
<1>3. k \in StaticLog /\ SameBallot(log, k)
  BY <1>2 DEF StaticLog, SameBallot
<1>4. Flushed(k) \in StaticLog /\ SameBallot(k, Flushed(k))
  BY <1>3, FlushedType
<1> QED BY <1>3, <1>4 DEF AppendEntry, SameBallot

\* scan yields entries, whatever its bounds.
LEMMA ScanType ==
  ASSUME NEW log \in StaticLog, NEW from \in Int, NEW to \in Int
  PROVE  Scan(log, from, to) \in Seq(StaticEntry)
<1> DEFINE a == (IF from < log.first THEN log.first ELSE from) + 1 - log.first
           b == (IF to > LastIndex(log) THEN LastIndex(log) ELSE to)
                + 1 - log.first
<1>1. log.first \in Nat \ {0} /\ log.ents \in Seq(StaticEntry)
  BY DEF StaticLog
<1>2. LastIndex(log) \in Nat /\ Len(log.ents) \in Nat
  BY IndexTypes
<1>3. a \in Int /\ a >= 1
  BY <1>1
<1>31. b \in Int /\ b <= Len(log.ents)
  <2>1. LastIndex(log) = log.first + Len(log.ents) - 1
    BY DEF LastIndex
  <2> QED BY <1>1, <1>2, <2>1
<1>4. \A k \in a .. b : log.ents[k] \in StaticEntry
  <2> HIDE DEF a, b
  <2> TAKE k \in a .. b
  <2>1. k \in 1 .. Len(log.ents)
    BY <1>2, <1>3, <1>31
  <2> QED BY <1>1, <2>1, ElementOfSeq
<1>5. SubSeq(log.ents, a, b) \in Seq(StaticEntry)
  <2> HIDE DEF a, b
  <2> QED BY <1>3, <1>31, <1>4, SubSeqProperties
<1> QED BY <1>5 DEF Scan

\* Without a change of membership no entry carries a configuration.
LEMMA NoMemberships ==
  ASSUME NEW ents \in Seq(StaticEntry)
  PROVE  Memberships(ents) = {}
<1> SUFFICES ASSUME NEW k \in 1 .. Len(ents)
             PROVE  ents[k].mem = Nil
  BY DEF Memberships
<1>1. ents[k] \in StaticEntry
  BY ElementOfSeq
<1> QED BY <1>1 DEF StaticEntry

\* commit touches the commit index only.
LEMMA CommitType ==
  ASSUME NEW log \in StaticLog, NEW index \in Nat
  PROVE  /\ Commit(log, index) \in StaticLog
         /\ SameBallot(log, Commit(log, index))
         /\ Commit(log, index).ents = log.ents
BY DEF Commit, StaticLog, SameBallot

\* splice, when its assertions hold, keeps the ballot.
LEMMA SpliceType ==
  ASSUME NEW log \in StaticLog, NEW base \in Nat, NEW ents \in Seq(StaticEntry),
         SpliceOk(log, base, ents)
  PROVE  /\ Splice(log, base, ents) \in StaticLog
         /\ SameBallot(log, Splice(log, base, ents))
<1> DEFINE new == SubSeq(log.ents, 1, base + 1 - log.first) \o ents
           k == [log EXCEPT !.ents = new]
<1>1. CASE \A j \in 1 .. Len(ents) : Agrees(log, base, ents, j)
  BY <1>1 DEF Splice, SameBallot
<1>2. CASE ~ \A j \in 1 .. Len(ents) : Agrees(log, base, ents, j)
  <2>1. ents # <<>>
    BY <1>2, EmptySeq
  <2>2. Stored(log, base) \/ (base = 0 /\ log.first = 1)
    BY <2>1 DEF SpliceOk
  <2>3. log.first \in Nat \ {0} /\ log.ents \in Seq(StaticEntry)
    BY DEF StaticLog
  <2>4. Len(log.ents) \in Nat
    BY <2>3, LenProperties
  <2>5. base + 1 - log.first \in Int /\ base + 1 - log.first <= Len(log.ents)
    BY <2>2, <2>3, <2>4 DEF Stored, LastIndex
  <2>6. \A j \in 1 .. base + 1 - log.first : log.ents[j] \in StaticEntry
    BY <2>3, <2>4, <2>5, ElementOfSeq
  <2>7. SubSeq(log.ents, 1, base + 1 - log.first) \in Seq(StaticEntry)
    BY <2>5, <2>6, SubSeqProperties
  <2>8. new \in Seq(StaticEntry)
    BY <2>7, ConcatProperties
  <2>9. k \in StaticLog /\ SameBallot(log, k)
    <3> HIDE DEF new
    <3> QED BY <2>8 DEF StaticLog, SameBallot
  <2>10. Flushed(k) \in StaticLog /\ SameBallot(k, Flushed(k))
    <3> HIDE DEF k
    <3> QED BY <2>9, FlushedType
  <2>11. Splice(log, base, ents) = Flushed(k)
    BY <1>2 DEF Splice
  <2> QED BY <2>9, <2>10, <2>11 DEF SameBallot
<1> QED BY <1>1, <1>2

\* compact_to keeps the ballot.
LEMMA CompactToType ==
  ASSUME NEW log \in StaticLog, NEW index \in Nat, NEW t \in Nat
  PROVE  /\ CompactTo(log, index, t) \in StaticLog
         /\ SameBallot(log, CompactTo(log, index, t))
<1> DEFINE new == SubSeq(log.ents, index + 2 - log.first, Len(log.ents))
           k == [log EXCEPT !.ents = new, !.first = index + 1, !.snapTerm = t]
<1>1. CASE index < log.first
  BY <1>1 DEF CompactTo, SameBallot
<1>2. CASE ~(index < log.first)
  <2>1. log.first \in Nat \ {0} /\ log.ents \in Seq(StaticEntry)
    BY DEF StaticLog
  <2>2. Len(log.ents) \in Nat
    BY <2>1, LenProperties
  <2>3. index + 2 - log.first \in Int /\ index + 2 - log.first >= 1
    BY <1>2, <2>1
  <2>4. \A j \in index + 2 - log.first .. Len(log.ents) :
          log.ents[j] \in StaticEntry
    BY <2>1, <2>2, <2>3, ElementOfSeq
  <2>5. new \in Seq(StaticEntry)
    BY <2>2, <2>3, <2>4, SubSeqProperties
  <2>6. k \in StaticLog /\ SameBallot(log, k)
    <3> HIDE DEF new
    <3>1. index + 1 \in Nat \ {0}
      OBVIOUS
    <3> QED BY <2>5, <3>1 DEF StaticLog, SameBallot
  <2>7. Flushed(k) \in StaticLog /\ SameBallot(k, Flushed(k))
    <3> HIDE DEF k
    <3> QED BY <2>6, FlushedType
  <2>8. CompactTo(log, index, t) = Flushed(k)
    BY <1>2 DEF CompactTo
  <2> QED BY <2>6, <2>7, <2>8 DEF SameBallot
<1> QED BY <1>1, <1>2

\* reset_with_snapshot keeps the ballot.
LEMMA ResetType ==
  ASSUME NEW log \in StaticLog, NEW index \in Nat, NEW t \in Nat
  PROVE  /\ ResetWithSnapshot(log, index, t) \in StaticLog
         /\ SameBallot(log, ResetWithSnapshot(log, index, t))
<1> DEFINE k == [log EXCEPT !.ents = <<>>, !.first = index + 1, !.snapTerm = t,
                            !.commit = index]
<1>1. k \in StaticLog /\ SameBallot(log, k)
  <2>1. index + 1 \in Nat \ {0} /\ <<>> \in Seq(StaticEntry)
    BY EmptySeq
  <2> QED BY <2>1 DEF StaticLog, SameBallot
<1>2. Flushed(k) \in StaticLog /\ SameBallot(k, Flushed(k))
  BY <1>1, FlushedType
<1> QED BY <1>1, <1>2 DEF ResetWithSnapshot, SameBallot

\* The log of a node that was never started.
LEMMA EmptyLogType ==
  ASSUME NEW s \in State
  PROVE  EmptyLog(s) \in StaticLog
BY EmptySeq DEF EmptyLog, StaticLog

-----------------------------------------------------------------------------
(* Nodes and messages.                                                     *)


Lead(i) == LeaderType(Ids, Server \ {i})
Role(i) == FollowerType(Ids) \cup CandidateType \cup Lead(i) \cup PanickedType

StaticNode(i) ==
  [id : {i}, log : StaticLog, mem : {Bootstrap(Server)}, sm : State,
   role : Role(i)]

StaticMessage ==
       [type : {"PreCampaign", "Campaign"}, last_index : Nat, last_term : Nat]
  \cup [type : {"PreCampaignResponse", "CampaignResponse"}, vote : BOOLEAN]
  \cup [type : {"Heartbeat"}, last_index : Nat, commit_index : Nat,
        read_seq : Nat]
  \cup [type : {"HeartbeatResponse"}, match_index : Nat, read_seq : Nat]
  \cup [type : {"Append"}, base_index : Nat, base_term : Nat,
        entries : Seq(StaticEntry)]
  \cup [type : {"AppendResponse"}, match_index : Nat, reject_index : Nat]
  \cup [type : {"Read", "ReadResponse"}, seq : Nat]
  \cup [type : {"InstallSnapshot"}, last_included_index : Nat,
        last_included_term : Nat, data : State, membership : {Simple(Server)}]
  \cup [type : {"InstallSnapshotResponse"}, last_included_index : Nat]
  \cup [type : {"ClientRequest"}, request : Requests]
  \cup [type : {"ClientResponse"}, id : Ids, status : {"Ok", "Abort", "Invalid"},
        data : Seq(Cmd)]

StaticEnv(i) ==
  [from : {i}, to : Server, term : Nat, message : StaticMessage]

Outcome(i) == [n : StaticNode(i), out : SUBSET StaticEnv(i)]

\* A vote given in a real election.
Granted(m) == m.message.type = "CampaignResponse" /\ m.message.vote

Quiet(out) == \A m \in out : ~Granted(m)

\* A step that neither touches the term and vote nor gives a vote.
Keeps(i, n, r) ==
  r \in Outcome(i) /\ SameBallot(n.log, r.n.log) /\ Quiet(r.out)

\* ... of a leader that goes on leading.
Leading(i, n, r) == Keeps(i, n, r) /\ r.n.role.kind \in {"Leader", "Panicked"}

-----------------------------------------------------------------------------
(* Parts of a node replaced.                                               *)

\* A node with another log.
LEMMA SetLog ==
  ASSUME NEW i \in Server, NEW n \in StaticNode(i), NEW l \in StaticLog
  PROVE  /\ [n EXCEPT !.log = l] \in StaticNode(i)
         /\ [n EXCEPT !.log = l].log = l
         /\ [n EXCEPT !.log = l].role = n.role
         /\ [n EXCEPT !.log = l].sm = n.sm
BY DEF StaticNode

\* A node with another role.
LEMMA SetRole ==
  ASSUME NEW i \in Server, NEW n \in StaticNode(i), NEW r \in Role(i)
  PROVE  /\ [n EXCEPT !.role = r] \in StaticNode(i)
         /\ [n EXCEPT !.role = r].log = n.log
         /\ [n EXCEPT !.role = r].role = r
         /\ [n EXCEPT !.role = r].sm = n.sm
BY DEF StaticNode

\* A leader with other progress, of all peers or of one.
LEMMA SetLead ==
  ASSUME NEW i \in Server, NEW n \in StaticNode(i), n.role.kind = "Leader"
  PROVE  /\ n.role \in Lead(i)
         /\ \A x \in [Server \ {i} -> ProgressType] :
              /\ [n.role EXCEPT !.progress = x] \in Lead(i)
              /\ [n EXCEPT !.role.progress = x]
                   = [n EXCEPT !.role = [n.role EXCEPT !.progress = x]]
         /\ \A p \in Server \ {i} : \A x \in ProgressType :
              /\ [n.role EXCEPT !.progress[p] = x] \in Lead(i)
              /\ [n EXCEPT !.role.progress[p] = x]
                   = [n EXCEPT !.role = [n.role EXCEPT !.progress[p] = x]]
<1>1. n.role \in Role(i)
  BY DEF StaticNode
<1>2. n.role \in Lead(i)
  BY <1>1 DEF Role, FollowerType, CandidateType, PanickedType
<1>3. ASSUME NEW x \in [Server \ {i} -> ProgressType]
      PROVE  [n.role EXCEPT !.progress = x] \in Lead(i)
  BY <1>2 DEF Lead, LeaderType
<1>4. ASSUME NEW p \in Server \ {i}, NEW x \in ProgressType
      PROVE  [n.role EXCEPT !.progress[p] = x] \in Lead(i)
  BY <1>2 DEF Lead, LeaderType
<1> QED BY <1>2, <1>3, <1>4

\* The fields of a node.
LEMMA FieldTypes ==
  ASSUME NEW i \in Server, NEW n \in StaticNode(i)
  PROVE  /\ n.id = i /\ n.log \in StaticLog /\ n.sm \in State
         /\ n.role \in Role(i)
         /\ n.mem.active = Simple(Server) /\ n.mem.change_pending = FALSE
         /\ n.log.term \in Nat /\ n.log.vote \in Server \cup {Nil}
         /\ n.log.commit \in Nat /\ n.sm.applied \in Nat
         /\ n.log.snapTerm \in Nat /\ n.log.first \in Nat \ {0}
<1>1. /\ n.id = i /\ n.log \in StaticLog /\ n.sm \in State
      /\ n.role \in Role(i) /\ n.mem = Bootstrap(Server)
  BY DEF StaticNode
<1> QED BY <1>1 DEF StaticLog, State, StateType, Bootstrap

\* With a fixed membership the voters are the cluster, and a quorum is a
\* majority of it.
LEMMA PeersOf ==
  ASSUME NEW i \in Server, NEW n \in StaticNode(i)
  PROVE  /\ AllVoters(n.mem.active) = Server
         /\ Peers(n) = Server \ {i}
         /\ ClusterSize(n) = Cardinality(Server)
         /\ \A Q : HasQuorum(n.mem.active, Q) <=> Majority(Server, Q)
<1>1. n.id = i /\ n.mem.active = Simple(Server)
  BY FieldTypes
<1>2. AllVoters(n.mem.active) = Server
  BY <1>1 DEF AllVoters, Simple
<1>3. ASSUME NEW Q
      PROVE  HasQuorum(n.mem.active, Q) <=> Majority(Server, Q)
  <2>1. ~Simple(Server).joint /\ Simple(Server).new = Server
    BY DEF Simple
  <2> QED BY <1>1, <2>1 DEF HasQuorum
<1>4. Peers(n) = Server \ {i} /\ ClusterSize(n) = Cardinality(Server)
  <2>1. /\ Peers(n) = AllVoters(n.mem.active) \ {n.id}
        /\ ClusterSize(n) = Cardinality(AllVoters(n.mem.active))
    BY DEF Peers, ClusterSize
  <2> QED BY <1>1, <1>2, <2>1, Zenon
<1> QED BY <1>2, <1>3, <1>4, Zenon

\* send() makes an envelope of the sender and its term.
LEMMA EnvType ==
  ASSUME NEW i \in Server, NEW n \in StaticNode(i), NEW to \in Server,
         NEW msg \in StaticMessage
  PROVE  /\ Env(n, to, msg) \in StaticEnv(i)
         /\ Env(n, to, msg).message = msg
         /\ Env(n, to, msg).to = to
         /\ Env(n, to, msg).term = n.log.term
BY FieldTypes DEF Env, StaticEnv, Term

\* broadcast sends envelopes to the peers, none of them a vote.
LEMMA BroadcastType ==
  ASSUME NEW i \in Server, NEW n \in StaticNode(i),
         NEW msg \in StaticMessage, msg.type # "CampaignResponse"
  PROVE  Broadcast(n, msg) \subseteq StaticEnv(i) /\ Quiet(Broadcast(n, msg))
BY EnvType, PeersOf DEF Broadcast, Quiet, Granted

\* An answer to a client is an envelope, and not a vote.
LEMMA ReplyType ==
  ASSUME NEW i \in Server, NEW n \in StaticNode(i), NEW to \in Server,
         NEW id \in Ids, NEW status \in {"Ok", "Abort", "Invalid"},
         NEW data \in Seq(Cmd)
  PROVE  /\ Reply(n, to, id, status, data) \in StaticEnv(i)
         /\ ~Granted(Reply(n, to, id, status, data))
<1> DEFINE msg == [type |-> "ClientResponse", id |-> id, status |-> status,
                   data |-> data]
<1>1. msg \in StaticMessage
  BY DEF StaticMessage
<1>2. Env(n, to, msg) \in StaticEnv(i) /\ Env(n, to, msg).message = msg
  BY <1>1, EnvType
<1>3. msg.type # "CampaignResponse"
  OBVIOUS
<1> QED
  <2> HIDE DEF msg
  <2> QED BY <1>2, <1>3 DEF Reply, Granted, msg

\* So is an abort.
LEMMA AbortType ==
  ASSUME NEW i \in Server, NEW n \in StaticNode(i), NEW to \in Server,
         NEW id \in Ids
  PROVE  Abort(n, to, id) \in StaticEnv(i) /\ ~Granted(Abort(n, to, id))
<1>1. <<>> \in Seq(Cmd)
  BY EmptySeq
<1> QED BY <1>1, ReplyType DEF Abort

\* So is everything that a follower or a leader aborts.
LEMMA AbortTypes ==
  ASSUME NEW i \in Server, NEW n \in StaticNode(i)
  PROVE  /\ n.role.kind = "Follower" =>
              AbortForwarded(n) \subseteq StaticEnv(i) /\ Quiet(AbortForwarded(n))
         /\ n.role.kind = "Leader" =>
              AbortClients(n) \subseteq StaticEnv(i) /\ Quiet(AbortClients(n))
<1>1. n.id = i /\ n.role \in Role(i)
  BY FieldTypes
<1>2. ASSUME n.role.kind = "Follower"
      PROVE  AbortForwarded(n) \subseteq StaticEnv(i) /\ Quiet(AbortForwarded(n))
  <2>1. n.role.forwarded \subseteq Ids
    BY <1>1, <1>2 DEF Role, FollowerType, CandidateType, Lead, LeaderType,
                      PanickedType
  <2> QED BY <1>1, <2>1, AbortType DEF AbortForwarded, Quiet
<1>3. ASSUME n.role.kind = "Leader"
      PROVE  AbortClients(n) \subseteq StaticEnv(i) /\ Quiet(AbortClients(n))
  <2> DEFINE W == n.role.writes \cup n.role.membership_writes \cup n.role.reads
  <2>1. n.role \in LeaderType(Ids, Server \ {i})
    BY <1>3, SetLead DEF Lead
  <2>2. \A w \in W : w.from \in Server /\ w.id \in Ids
    BY <2>1 DEF LeaderType, WriteType, ReadType
  <2> QED BY <2>2, AbortType DEF AbortClients, Quiet
<1> QED BY <1>2, <1>3

\* A node with an unchanged ballot and what it sends is a quiet outcome.
LEMMA DoneType ==
  ASSUME NEW i \in Server, NEW n, NEW k \in StaticNode(i),
         SameBallot(n.log, k.log),
         NEW out \in SUBSET StaticEnv(i), Quiet(out)
  PROVE  Keeps(i, n, Done(k, out)) /\ Done(k, out).n = k /\ Done(k, out).out = out
BY DEF Done, Keeps, Outcome

\* A panic keeps the ballot and sends nothing.
LEMMA PanicType ==
  ASSUME NEW i \in Server, NEW n \in StaticNode(i), NEW why \in Reasons
  PROVE  Leading(i, n, Panic(n, why)) /\ Panic(n, why).n.role.kind = "Panicked"
<1> DEFINE r == [kind |-> "Panicked", why |-> why]
           k == [n EXCEPT !.role = r]
<1>1. r \in Role(i) /\ r.kind = "Panicked"
  BY DEF Role, PanickedType
<1>2. k \in StaticNode(i) /\ SameBallot(n.log, k.log) /\ k.role = r
  <2> HIDE DEF r
  <2> QED BY <1>1, SetRole DEF SameBallot
<1>3. {} \in SUBSET StaticEnv(i) /\ Quiet({})
  BY DEF Quiet
<1> QED
  <2> HIDE DEF k, r
  <2>1. Keeps(i, n, Done(k, {})) /\ Done(k, {}).n = k
    BY <1>2, <1>3, DoneType
  <2>2. Panic(n, why) = Done(k, {})
    BY DEF Panic, k, r
  <2> QED BY <1>1, <1>2, <2>1, <2>2 DEF Leading

\* What was sent before a quiet call does not make it less so.
LEMMA AfterType ==
  ASSUME NEW i \in Server, NEW n, NEW r, Keeps(i, n, r),
         NEW out \in SUBSET StaticEnv(i), Quiet(out)
  PROVE  Keeps(i, n, After(out, r)) /\ After(out, r).n = r.n
<1>1. CASE r.n.role.kind = "Panicked"
  BY <1>1 DEF After
<1>2. CASE r.n.role.kind # "Panicked"
  <2>1. r.n \in StaticNode(i) /\ SameBallot(n.log, r.n.log)
        /\ out \cup r.out \in SUBSET StaticEnv(i) /\ Quiet(out \cup r.out)
    BY DEF Keeps, Outcome, Quiet
  <2> QED BY <1>2, <2>1, DoneType DEF After
<1> QED BY <1>1, <1>2

-----------------------------------------------------------------------------
(* The state machine.                                                      *)

\* Applying entries yields a state.
LEMMA AppliedType ==
  ASSUME NEW sm \in State, NEW log \in StaticLog
  PROVE  Applied(sm, log) \in State
<1> DEFINE ents == Scan(log, sm.applied + 1, log.commit)
           cmds == [k \in 1 .. Len(ents) |-> ents[k].cmd]
<1>1. sm.applied \in Nat /\ sm.data \in Seq(Cmd) /\ log.commit \in Nat
  BY DEF State, StateType, StaticLog, Cmd
<1>2. ents \in Seq(StaticEntry)
  BY <1>1, ScanType
<1>3. cmds \in Seq(Cmd)
  <2> HIDE DEF ents
  <2>1. Len(ents) \in Nat /\ \A k \in 1 .. Len(ents) : ents[k] \in StaticEntry
    BY <1>2, LenProperties, ElementOfSeq
  <2>2. \A k \in 1 .. Len(ents) : ents[k].cmd \in Cmd
    BY <2>1 DEF StaticEntry
  <2> QED BY <2>1, <2>2, IsASeq
<1>4. sm.data \o cmds \in Seq(Cmd)
  <2> HIDE DEF cmds
  <2> QED BY <1>1, <1>3, ConcatProperties
<1>5. [applied |-> log.commit, data |-> sm.data \o cmds] \in State
  <2> HIDE DEF cmds
  <2> QED BY <1>1, <1>4 DEF State, StateType, Cmd
<1> QED BY <1>5 DEF Applied

\* Restoring a snapshot yields a state.
LEMMA RestoredType ==
  ASSUME NEW s \in State, NEW index \in Nat
  PROVE  Restored(s, index) \in State
<1>1. s.applied \in Nat
  BY DEF State, StateType
<1>2. Max({index, s.applied}) \in Nat
  BY <1>1, MaxOfTwo
<1> QED BY <1>2 DEF Restored, State, StateType

\* maybe_apply changes the state machine only.
LEMMA MaybeApplyType ==
  ASSUME NEW i \in Server, NEW n \in StaticNode(i)
  PROVE  /\ MaybeApply(n) \in StaticNode(i)
         /\ MaybeApply(n).log = n.log
         /\ MaybeApply(n).role = n.role
         /\ CommittedMemberships(n) = {}
<1>1. n.log.ents \in Seq(StaticEntry)
  BY FieldTypes DEF StaticLog
<1>2. CommittedMemberships(n) = {}
  BY <1>1, NoMemberships DEF CommittedMemberships
<1>3. Applied(n.sm, n.log) \in State
  BY FieldTypes, AppliedType
<1>4. MaybeApply(n) = [n EXCEPT !.sm = Applied(n.sm, n.log), !.mem = n.mem]
  BY <1>2 DEF MaybeApply
<1> DEFINE x == Applied(n.sm, n.log)
           k == [n EXCEPT !.sm = x, !.mem = n.mem]
<1> HIDE DEF x
<1>5. k \in StaticNode(i) /\ k.log = n.log /\ k.role = n.role
  <2>1. x \in State
    BY <1>3 DEF x
  <2> QED BY <2>1 DEF StaticNode
<1>6. MaybeApply(n) = k
  BY <1>4 DEF x
<1> QED
  <2> HIDE DEF k
  <2> QED BY <1>2, <1>5, <1>6

-----------------------------------------------------------------------------
(* Becoming a follower or a candidate.                                     *)

\* Followers and candidates are roles.
LEMMA RoleTypes ==
  ASSUME NEW i \in Server
  PROVE  /\ \A l \in Server \cup {Nil} :
              Follower(l) \in Role(i) /\ Follower(l).kind = "Follower"
         /\ \A phase \in {"PreVote", "Election"} : \A V \in SUBSET Server :
              /\ Candidate(phase, V) \in Role(i)
              /\ Candidate(phase, V).kind = "Candidate"
              /\ Candidate(phase, V).phase = phase
              /\ Candidate(phase, V).votes = V
<1>1. ASSUME NEW l \in Server \cup {Nil}
      PROVE  Follower(l) \in Role(i) /\ Follower(l).kind = "Follower"
  BY DEF Follower, Role, FollowerType
<1>2. ASSUME NEW phase \in {"PreVote", "Election"}, NEW V \in SUBSET Server
      PROVE  /\ Candidate(phase, V) \in Role(i)
             /\ Candidate(phase, V).kind = "Candidate"
             /\ Candidate(phase, V).phase = phase
             /\ Candidate(phase, V).votes = V
  BY DEF Candidate, Role, CandidateType
<1> QED BY <1>1, <1>2

\* A newer term is entered without a vote.
LEMMA DiscoverTermType ==
  ASSUME NEW i \in Server, NEW n \in StaticNode(i), NEW t \in Nat
  PROVE  /\ DiscoverTerm(n, t) \in Outcome(i)
         /\ Quiet(DiscoverTerm(n, t).out)
         /\ DiscoverTerm(n, t).n.log.term = t
         /\ DiscoverTerm(n, t).n.log.vote = Nil
         /\ DiscoverTerm(n, t).n.role = Follower(Nil)
<1> DEFINE l == SetTermVote(n.log, t, Nil)
           later == [n EXCEPT !.log = l]
           k == [later EXCEPT !.role = Follower(Nil)]
           gone == CASE n.role.kind = "Follower" -> AbortForwarded(n)
                     [] n.role.kind = "Leader" -> AbortClients(later)
                     [] OTHER -> {}
<1>1. l \in StaticLog /\ l.term = t /\ l.vote = Nil
  <2>1. n.log \in StaticLog /\ Nil \in Server \cup {Nil}
    BY FieldTypes
  <2> QED BY <2>1, SetTermVoteType
<1>2. later \in StaticNode(i) /\ later.log = l /\ later.role = n.role
  <2> HIDE DEF l
  <2> QED BY <1>1, SetLog
<1>3. k \in StaticNode(i) /\ k.log = l /\ k.role = Follower(Nil)
  <2>1. Follower(Nil) \in Role(i)
    BY RoleTypes
  <2> HIDE DEF later, l
  <2> QED BY <1>2, <2>1, SetRole
<1>4. gone \in SUBSET StaticEnv(i) /\ Quiet(gone)
  <2> HIDE DEF later
  <2>1. CASE n.role.kind = "Follower"
    BY <2>1, AbortTypes
  <2>2. CASE n.role.kind = "Leader"
    BY <1>2, <2>2, AbortTypes
  <2>3. CASE n.role.kind \notin {"Follower", "Leader"}
    BY <2>3 DEF Quiet
  <2> QED BY <2>1, <2>2, <2>3
<1>5. DiscoverTerm(n, t) = Done(k, gone)
  BY DEF DiscoverTerm
<1> HIDE DEF k, gone, l
<1> QED BY <1>1, <1>3, <1>4, <1>5 DEF Done, Outcome

\* A leader that steps down in its term keeps its ballot.
LEMMA StepDownType ==
  ASSUME NEW i \in Server, NEW n \in StaticNode(i), n.role.kind = "Leader"
  PROVE  Keeps(i, n, StepDown(n)) /\ StepDown(n).n.role.kind = "Follower"
<1>1. Follower(Nil) \in Role(i) /\ Follower(Nil).kind = "Follower"
  BY RoleTypes
<1>2. /\ [n EXCEPT !.role = Follower(Nil)] \in StaticNode(i)
      /\ SameBallot(n.log, [n EXCEPT !.role = Follower(Nil)].log)
      /\ [n EXCEPT !.role = Follower(Nil)].role.kind = "Follower"
  BY <1>1, SetRole DEF SameBallot
<1>3. AbortClients(n) \in SUBSET StaticEnv(i) /\ Quiet(AbortClients(n))
  BY AbortTypes
<1> DEFINE k == [n EXCEPT !.role = Follower(Nil)]
<1> HIDE DEF k
<1>4. StepDown(n) = Done(k, AbortClients(n))
  BY DEF StepDown, k
<1>5. k \in StaticNode(i) /\ SameBallot(n.log, k.log) /\ k.role.kind = "Follower"
  BY <1>2 DEF k
<1> QED BY <1>3, <1>4, <1>5, DoneType

\* A new election: the next term, this node's own vote, no other vote counted.
Runs(i, n, r) ==
  /\ r \in Outcome(i) /\ Quiet(r.out)
  /\ r.n.log.term = n.log.term + 1 /\ r.n.log.vote = i
  /\ r.n.role = Candidate("Election", {i})

\* campaign enters the next term with a vote for the node itself.
LEMMA CampaignType ==
  ASSUME NEW i \in Server, NEW n \in StaticNode(i)
  PROVE  Runs(i, n, Campaign(n))
<1> DEFINE l == SetTermVote(n.log, n.log.term + 1, i)
           v == [n EXCEPT !.log = l]
           k == [v EXCEPT !.role = Candidate("Election", {i})]
           msg == [type |-> "Campaign", last_index |-> LastIndex(k.log),
                   last_term |-> LastTerm(k.log)]
<1>1. l \in StaticLog /\ l.term = n.log.term + 1 /\ l.vote = i
  <2>1. n.log \in StaticLog /\ n.log.term \in Nat
    BY FieldTypes
  <2>2. n.log.term + 1 \in Nat /\ i \in Server \cup {Nil}
    BY <2>1
  <2> DEFINE t == n.log.term + 1
  <2> HIDE DEF l, t
  <2>3. l = SetTermVote(n.log, t, i)
    BY DEF l, t
  <2>4. t \in Nat
    BY <2>2 DEF t
  <2>5. LET z == SetTermVote(n.log, t, i)
        IN z \in StaticLog /\ z.term = t /\ z.vote = i
    <3> DEFINE o == n.log
    <3>1. o \in StaticLog
      BY <2>1
    <3> HIDE DEF o
    <3>2. LET z == SetTermVote(o, t, i)
          IN z \in StaticLog /\ z.term = t /\ z.vote = i
      BY <2>2, <2>4, <3>1, SetTermVoteType
    <3> QED BY <3>2 DEF o
  <2>6. l \in StaticLog /\ l.term = t /\ l.vote = i
    BY <2>3, <2>5
  <2> QED BY <2>6 DEF t
<1>2. k \in StaticNode(i) /\ k.log = l /\ k.role = Candidate("Election", {i})
  <2> HIDE DEF l
  <2>1. Candidate("Election", {i}) \in Role(i)
    BY RoleTypes
  <2>2. v \in StaticNode(i) /\ v.log = l
    BY <1>1, SetLog
  <2> HIDE DEF v
  <2> QED BY <2>1, <2>2, SetRole
<1>3. msg \in StaticMessage /\ msg.type # "CampaignResponse"
  <2> HIDE DEF k, l
  <2>1. LastIndex(k.log) \in Nat /\ LastTerm(k.log) \in Nat
    BY <1>1, <1>2, IndexTypes, TermTypes
  <2> QED BY <2>1 DEF StaticMessage
<1>4. Broadcast(k, msg) \subseteq StaticEnv(i) /\ Quiet(Broadcast(k, msg))
  <2> HIDE DEF k, msg, l
  <2> QED BY <1>2, <1>3, BroadcastType
<1>5. Campaign(n) = Done(k, Broadcast(k, msg))
  <2>1. n.id = i /\ Term(n) = n.log.term
    BY FieldTypes DEF Term
  <2>2. [n EXCEPT !.log = l, !.role = Candidate("Election", {i})] = k
    OBVIOUS
  <2> QED BY <2>1, <2>2 DEF Campaign
<1> HIDE DEF k, msg, l
<1> QED BY <1>1, <1>2, <1>4, <1>5 DEF Done, Outcome, Runs

\* Asking for pre-votes, or running at once.
Stands(i, n, r) ==
  \/ Runs(i, n, r)
  \/ Keeps(i, n, r) /\ r.n.role.kind = "Candidate" /\ r.n.role.phase = "PreVote"

\* What was sent before an election is started does not matter to it.
LEMMA AfterRuns ==
  ASSUME NEW i \in Server, NEW n, NEW r, Runs(i, n, r),
         NEW out \in SUBSET StaticEnv(i), Quiet(out)
  PROVE  Runs(i, n, After(out, r))
<1>1. r.n.role.kind # "Panicked"
  BY DEF Runs, Candidate
<1>2. out \cup r.out \in SUBSET StaticEnv(i) /\ Quiet(out \cup r.out)
      /\ r.n \in StaticNode(i)
  BY DEF Runs, Outcome, Quiet
<1>3. After(out, r) = Done(r.n, out \cup r.out)
  BY <1>1 DEF After
<1>4. After(out, r) \in Outcome(i) /\ After(out, r).n = r.n
      /\ After(out, r).out = out \cup r.out
  BY <1>2, <1>3 DEF Done, Outcome
<1> QED BY <1>2, <1>4 DEF Runs

\* pre_campaign asks without touching the ballot, or starts an election.
LEMMA PreCampaignType ==
  ASSUME NEW i \in Server, NEW n \in StaticNode(i)
  PROVE  Stands(i, n, PreCampaign(n))
<1> DEFINE c == [n EXCEPT !.role = Candidate("PreVote", {i})]
           ask == [type |-> "PreCampaign", last_index |-> LastIndex(n.log),
                   last_term |-> LastTerm(n.log)]
           out == {[from |-> i, to |-> p, term |-> n.log.term + 1,
                    message |-> ask] : p \in Server \ {i}}
<1>1. /\ c \in StaticNode(i) /\ c.log = n.log
      /\ c.role.kind = "Candidate" /\ c.role.phase = "PreVote"
  BY RoleTypes, SetRole
<1>2. ask \in StaticMessage /\ ask.type # "CampaignResponse"
  <2>1. LastIndex(n.log) \in Nat /\ LastTerm(n.log) \in Nat
    BY FieldTypes, IndexTypes, TermTypes
  <2> QED BY <2>1 DEF StaticMessage
<1>3. out \in SUBSET StaticEnv(i) /\ Quiet(out)
  <2>1. n.log.term \in Nat
    BY FieldTypes
  <2>2. n.log.term + 1 \in Nat
    BY <2>1
  <2> HIDE DEF ask
  <2> QED BY <1>2, <2>2 DEF StaticEnv, Quiet, Granted
<1>4. n.id = i /\ Peers(n) = Server \ {i} /\ Term(n) = n.log.term
  BY FieldTypes, PeersOf DEF Term
<1>5. PreCampaign(n) = IF ClusterSize(n) = 1 THEN Campaign(c)
                       ELSE IF QuorumReached(c) THEN After(out, Campaign(c))
                       ELSE Done(c, out)
  BY <1>4 DEF PreCampaign
<1> HIDE DEF c, out
<1>6. Runs(i, n, Campaign(c))
  BY <1>1, CampaignType DEF Runs
<1>7. Runs(i, n, After(out, Campaign(c)))
  BY <1>3, <1>6, AfterRuns
<1>8. Keeps(i, n, Done(c, out)) /\ Done(c, out).n = c
  <2>1. SameBallot(n.log, c.log)
    BY <1>1 DEF SameBallot
  <2> QED BY <1>1, <1>3, <2>1, DoneType
<1> QED BY <1>1, <1>5, <1>6, <1>7, <1>8 DEF Stands

\* into_candidate does the same, or starts an election at once.
LEMMA IntoCandidateType ==
  ASSUME NEW i \in Server, NEW n \in StaticNode(i), n.role.kind = "Follower",
         NEW b \in BOOLEAN
  PROVE  /\ Stands(i, n, IntoCandidate(n, b))
         /\ ~b => Runs(i, n, IntoCandidate(n, b))
<1> DEFINE a == MaybeApply(n)
           r == IF b /\ PreVote THEN PreCampaign(a) ELSE Campaign(a)
<1>1. a \in StaticNode(i) /\ a.log = n.log
  BY MaybeApplyType
<1>2. AbortForwarded(n) \in SUBSET StaticEnv(i) /\ Quiet(AbortForwarded(n))
  BY AbortTypes
<1> HIDE DEF a
<1>3. Runs(i, n, Campaign(a)) /\ Stands(i, n, PreCampaign(a))
  <2>1. Runs(i, a, Campaign(a)) /\ Stands(i, a, PreCampaign(a))
    BY <1>1, CampaignType, PreCampaignType
  <2> QED BY <1>1, <2>1 DEF Runs, Stands, Keeps
<1>4. Stands(i, n, r) /\ (~b => Runs(i, n, r))
  BY <1>3 DEF Stands
<1> HIDE DEF r
<1>5. IntoCandidate(n, b) = After(AbortForwarded(n), r)
  BY DEF IntoCandidate, r, a
<1>6. CASE Runs(i, n, r)
  BY <1>2, <1>5, <1>6, AfterRuns DEF Stands
<1>7. CASE ~Runs(i, n, r)
  <2>1. Keeps(i, n, r) /\ r.n.role.kind = "Candidate" /\ r.n.role.phase = "PreVote"
    BY <1>4, <1>7 DEF Stands
  <2> QED BY <1>2, <1>4, <1>5, <1>7, <2>1, AfterType DEF Stands
<1> QED BY <1>6, <1>7

-----------------------------------------------------------------------------
(* The leader's machinery.                                                 *)

\* The fields of a leader.
LEMMA LeadTypes ==
  ASSUME NEW i \in Server, NEW n \in StaticNode(i), n.role.kind = "Leader"
  PROVE  /\ n.role \in Lead(i)
         /\ n.role.progress \in [Server \ {i} -> ProgressType]
         /\ n.role.writes \in SUBSET WriteType(Ids)
         /\ n.role.membership_writes \in SUBSET WriteType(Ids)
         /\ n.role.reads \in SUBSET ReadType(Ids)
         /\ n.role.read_seq \in Nat
<1>1. n.role \in Lead(i)
  BY SetLead
<1> QED BY <1>1 DEF Lead, LeaderType

\* advance, regress_next and the other updates of Progress yield a Progress.
LEMMA ProgressTypes ==
  ASSUME NEW pr \in ProgressType, NEW k \in Nat
  PROVE  /\ pr.match \in Nat /\ pr.next \in Nat /\ pr.read \in Nat
         /\ Advance(pr, k) \in ProgressType
         /\ RegressNext(pr, k) \in ProgressType
         /\ Progress(k) \in ProgressType
         /\ [pr EXCEPT !.next = k] \in ProgressType
         /\ [pr EXCEPT !.read = k] \in ProgressType
<1>1. pr.match \in Nat /\ pr.next \in Nat /\ pr.read \in Nat
  BY DEF ProgressType
<1>2. pr.match + 1 \in Nat /\ k + 1 \in Nat
  BY <1>1
<1>3. Max({pr.next, k + 1}) \in Nat /\ Max({k, pr.match + 1}) \in Nat
  BY <1>1, <1>2, MaxOfTwo
<1>4. Advance(pr, k) \in ProgressType
  BY <1>3 DEF Advance, ProgressType
<1>5. RegressNext(pr, k) \in ProgressType
  BY <1>3 DEF RegressNext, ProgressType
<1>6. /\ Progress(k) \in ProgressType
      /\ [pr EXCEPT !.next = k] \in ProgressType
      /\ [pr EXCEPT !.read = k] \in ProgressType
  BY DEF Progress, ProgressType
<1> QED BY <1>1, <1>4, <1>5, <1>6

\* maybe_send_append to one peer yields its Progress and envelopes.
LEMMA AppendToType ==
  ASSUME NEW i \in Server, NEW n \in StaticNode(i), n.role.kind = "Leader",
         NEW p \in Server \ {i}, NEW probe \in BOOLEAN
  PROVE  /\ AppendTo(n, p, probe).pr \in ProgressType
         /\ AppendTo(n, p, probe).out \in SUBSET StaticEnv(i)
         /\ Quiet(AppendTo(n, p, probe).out)
<1> DEFINE log == n.log
           pr == n.role.progress[p]
           probing == probe /\ pr.next > pr.match + 1
           ents == IF probing THEN <<>>
                   ELSE Scan(log, pr.next, pr.next + MaxAppendEntries - 1)
           install == [type |-> "InstallSnapshot",
                       last_included_index |-> SnapshotIndex(log),
                       last_included_term |-> log.snapTerm,
                       data |-> n.sm, membership |-> n.mem.active]
           sound == /\ pr.match < pr.next
                    /\ pr.match <= LastIndex(log)
                    /\ pr.next <= LastIndex(log) + 1
           append == [type |-> "Append", base_index |-> pr.next - 1,
                      base_term |-> TermAt(log, pr.next - 1), entries |-> ents]
           snapshot == [pr |-> pr, out |-> {Env(n, p, install)}, ok |-> sound]
           nothing == [pr |-> pr, out |-> {}, ok |-> sound]
           entries == [pr |-> [pr EXCEPT !.next = @ + Len(ents)],
                 out |-> {Env(n, p, append)},
                 ok |-> sound /\ (pr.next = 1 \/ Stored(log, pr.next - 1))]
<1>1. log \in StaticLog /\ log.first \in Nat \ {0} /\ log.snapTerm \in Nat
      /\ n.sm \in State /\ n.mem.active = Simple(Server)
  BY FieldTypes
<1>2. pr \in ProgressType /\ pr.next \in Nat /\ pr.match \in Nat
  <2>1. n.role.progress \in [Server \ {i} -> ProgressType]
    BY LeadTypes
  <2>2. pr \in ProgressType
    BY <2>1
  <2> QED BY <2>2 DEF ProgressType
<1>3. ents \in Seq(StaticEntry) /\ Len(ents) \in Nat
  <2>1. pr.next \in Int /\ pr.next + MaxAppendEntries - 1 \in Int
    BY <1>2, NodeAssumption
  <2>2. Scan(log, pr.next, pr.next + MaxAppendEntries - 1) \in Seq(StaticEntry)
    <3> HIDE DEF pr, log
    <3> QED BY <1>1, <2>1, ScanType
  <2>3. ents \in Seq(StaticEntry)
    BY <2>2, EmptySeq
  <2> HIDE DEF ents
  <2> QED BY <2>3, LenProperties
<1>4. \/ AppendTo(n, p, probe) = snapshot
      \/ AppendTo(n, p, probe) = nothing
      \/ pr.next >= log.first /\ AppendTo(n, p, probe) = entries
  <2> HIDE DEF pr, log
  <2> HIDE DEF snapshot, nothing, entries
  <2>1. CASE pr.next < log.first
    <3>1. AppendTo(n, p, probe) = snapshot
      BY <1>1, <1>2, <2>1 DEF AppendTo, pr, log, snapshot
    <3> QED BY <3>1
  <2>2. CASE pr.next >= log.first
    <3> DEFINE still == \/ pr.next >= log.first /\ pr.match = LastIndex(log)
                       \/ /\ pr.next >= log.first /\ pr.next > LastIndex(log)
                          /\ ~probing
    <3>1. CASE still
      <4>1. AppendTo(n, p, probe) = nothing
        BY <2>2, <3>1, <1>1, <1>2 DEF AppendTo, pr, log, nothing
      <4> QED BY <4>1
    <3>2. CASE ~still
      <4>1. AppendTo(n, p, probe) = entries
        BY <2>2, <3>2, <1>1, <1>2 DEF AppendTo, pr, log, entries
      <4> QED BY <2>2, <4>1
    <3> QED BY <3>1, <3>2
  <2> QED BY <1>1, <1>2, <2>1, <2>2
<1>5. install \in StaticMessage /\ install.type # "CampaignResponse"
  <2>1. SnapshotIndex(log) \in Nat
    BY <1>1, IndexTypes
  <2> QED BY <1>1, <2>1 DEF StaticMessage
<1>6. Env(n, p, install) \in StaticEnv(i) /\ ~Granted(Env(n, p, install))
  <2> HIDE DEF install
  <2> QED BY <1>5, EnvType DEF Granted
<1>7. ASSUME pr.next >= log.first
      PROVE  Env(n, p, append) \in StaticEnv(i) /\ ~Granted(Env(n, p, append))
  <2> HIDE DEF ents, pr, log
  <2>1. pr.next - 1 \in Nat /\ pr.next - 1 \in Int
    BY <1>1, <1>2, <1>7
  <2>2. TermAt(log, pr.next - 1) \in Nat
    BY <1>1, <2>1, TermTypes
  <2>3. append \in StaticMessage /\ append.type # "CampaignResponse"
    BY <1>3, <2>1, <2>2 DEF StaticMessage
  <2> HIDE DEF append
  <2> QED BY <2>3, EnvType DEF Granted
<1>8. [pr EXCEPT !.next = @ + Len(ents)] \in ProgressType
  <2> HIDE DEF pr, ents
  <2>1. pr.next + Len(ents) \in Nat
    BY <1>2, <1>3
  <2> QED BY <1>2, <2>1, ProgressTypes
<1> DEFINE next == [pr EXCEPT !.next = @ + Len(ents)]
<1> HIDE DEF install, append, sound, pr, log, ents, next
<1>9. CASE AppendTo(n, p, probe) = snapshot
  BY <1>2, <1>6, <1>9 DEF Quiet
<1>10. CASE AppendTo(n, p, probe) = nothing
  BY <1>2, <1>10 DEF Quiet
<1>11. CASE pr.next >= log.first /\ AppendTo(n, p, probe) = entries
  <2>1. AppendTo(n, p, probe).pr = next
        /\ AppendTo(n, p, probe).out = {Env(n, p, append)}
    BY <1>11 DEF next
  <2>2. next \in ProgressType
    BY <1>8 DEF next
  <2> QED BY <1>7, <1>11, <2>1, <2>2 DEF Quiet
<1> QED BY <1>4, <1>9, <1>10, <1>11

\* A leader with other fields is still one.
LEMMA LeadRole ==
  ASSUME NEW i \in Server, NEW n \in StaticNode(i), NEW x \in Lead(i)
  PROVE  /\ [n EXCEPT !.role = x] \in StaticNode(i)
         /\ [n EXCEPT !.role = x].log = n.log
         /\ [n EXCEPT !.role = x].role = x
         /\ x.kind = "Leader"
<1>1. x \in Role(i) /\ x.kind = "Leader"
  BY DEF Role, Lead, LeaderType
<1> QED BY <1>1, SetRole

\* A leader with an unchanged ballot and what it sends.
LEMMA LeadDone ==
  ASSUME NEW i \in Server, NEW n \in StaticNode(i), NEW k \in StaticNode(i),
         SameBallot(n.log, k.log), k.role.kind = "Leader",
         NEW out \in SUBSET StaticEnv(i), Quiet(out)
  PROVE  Leading(i, n, Done(k, out)) /\ Done(k, out).n = k
BY DoneType DEF Leading

\* maybe_send_append keeps the ballot of the leader, or panics.
LEMMA MaybeSendAppendType ==
  ASSUME NEW i \in Server, NEW n \in StaticNode(i), n.role.kind = "Leader",
         NEW P \in SUBSET (Server \ {i}), NEW probe \in BOOLEAN
  PROVE  Leading(i, n, MaybeSendAppend(n, P, probe))
<1> DEFINE sent == [p \in P |-> AppendTo(n, p, probe)]
           old == n.role.progress
           new == [p \in DOMAIN old |-> IF p \in DOMAIN sent THEN sent[p].pr
                                        ELSE old[p]]
           x == [n.role EXCEPT !.progress = new]
           k == [n EXCEPT !.role = x]
           out == UNION {sent[p].out : p \in DOMAIN sent}
<1>1. old \in [Server \ {i} -> ProgressType]
  BY LeadTypes
<1>2. \A p \in P : /\ sent[p].pr \in ProgressType
                   /\ sent[p].out \in SUBSET StaticEnv(i) /\ Quiet(sent[p].out)
  BY AppendToType
<1>3. new \in [Server \ {i} -> ProgressType]
  <2> HIDE DEF old
  <2>1. DOMAIN sent = P
    OBVIOUS
  <2> HIDE DEF sent
  <2> QED BY <1>1, <1>2, <2>1
<1>4. out \in SUBSET StaticEnv(i) /\ Quiet(out)
  <2>1. DOMAIN sent = P
    OBVIOUS
  <2> HIDE DEF sent
  <2> QED BY <1>2, <2>1 DEF Quiet
<1>5. x \in Lead(i) /\ [n EXCEPT !.role.progress = new] = k
  <2> HIDE DEF new
  <2> QED BY <1>3, SetLead
<1>6. k \in StaticNode(i) /\ SameBallot(n.log, k.log) /\ k.role.kind = "Leader"
  <2> HIDE DEF x
  <2> QED BY <1>5, LeadRole DEF SameBallot
<1>7. MaybeSendAppend(n, P, probe) =
        Require(\A p \in DOMAIN sent : sent[p].ok, "missing base entry",
                Done(k, out))
  <2>1. MaybeSendAppend(n, P, probe) =
          Require(\A p \in DOMAIN sent : sent[p].ok, "missing base entry",
                  Done([n EXCEPT !.role.progress = new], out))
    BY DEF MaybeSendAppend, Sent
  <2> HIDE DEF sent, new, k, out
  <2> QED BY <1>5, <2>1
<1> HIDE DEF k, out, sent
<1>8. Leading(i, n, Done(k, out)) /\ Done(k, out).n = k
  BY <1>4, <1>6, LeadDone
<1>9. Leading(i, n, Panic(k, "missing base entry"))
  <2>1. Leading(i, k, Panic(k, "missing base entry"))
    <3>1. "missing base entry" \in Reasons
      BY DEF Reasons
    <3> QED BY <1>6, <3>1, PanicType
  <2> QED BY <1>6, <2>1 DEF Leading, Keeps, SameBallot
<1> QED BY <1>7, <1>8, <1>9 DEF Require

\* So does sending the entry just appended.
LEMMA ReplicateLastType ==
  ASSUME NEW i \in Server, NEW n \in StaticNode(i), n.role.kind = "Leader"
  PROVE  Leading(i, n, ReplicateLast(n))
<1> DEFINE P == {p \in Peers(n) : n.role.progress[p].next = LastIndex(n.log)}
<1>1. P \in SUBSET (Server \ {i})
  BY PeersOf
<1> HIDE DEF P
<1>2. Leading(i, n, MaybeSendAppend(n, P, FALSE))
  <2>1. FALSE \in BOOLEAN
    OBVIOUS
  <2> QED BY <1>1, <2>1, MaybeSendAppendType, Zenon
<1> QED BY <1>2 DEF ReplicateLast, P

\* propose keeps the ballot of the leader, or panics.
LEMMA ProposeType ==
  ASSUME NEW i \in Server, NEW n \in StaticNode(i), n.role.kind = "Leader",
         NEW cmd \in Cmd
  PROVE  Leading(i, n, Propose(n, cmd))
<1> DEFINE l == AppendEntry(n.log, cmd, Nil)
           k == [n EXCEPT !.log = l]
<1>1. l \in StaticLog /\ SameBallot(n.log, l)
  BY FieldTypes, AppendEntryType
<1>2. k \in StaticNode(i) /\ k.log = l /\ k.role = n.role
  <2> HIDE DEF l
  <2> QED BY <1>1, SetLog
<1>3. Propose(n, cmd) = ReplicateLast(k)
  BY DEF Propose
<1> HIDE DEF k, l
<1>4. Leading(i, k, ReplicateLast(k))
  BY <1>2, ReplicateLastType
<1> QED BY <1>1, <1>2, <1>3, <1>4 DEF Leading, Keeps, SameBallot

\* maybe_read answers reads and keeps the rest.
LEMMA MaybeReadType ==
  ASSUME NEW i \in Server, NEW n \in StaticNode(i), n.role.kind = "Leader"
  PROVE  /\ Leading(i, n, MaybeRead(n))
         /\ MaybeRead(n).n.role.kind = "Leader"
<1> DEFINE seqOf(j) == IF j = n.id THEN n.role.read_seq ELSE n.role.progress[j].read
           ids == {n.id} \cup DOMAIN n.role.progress
           confirmed == {s \in {seqOf(j) : j \in ids} :
                           HasQuorum(n.mem.active, {j \in ids : seqOf(j) >= s})}
           ready == {rd \in n.role.reads : rd.seq <= Max({0} \cup confirmed)}
           x == [n.role EXCEPT !.reads = n.role.reads \ ready]
           k == [n EXCEPT !.role = x]
           out == {Reply(n, rd.from, rd.id, "Ok", n.sm.data) : rd \in ready}
<1>1. n.role \in Lead(i) /\ n.role.reads \in SUBSET ReadType(Ids)
  BY LeadTypes
<1>2. ready \in SUBSET n.role.reads
  OBVIOUS
<1>3. MaybeRead(n) = IF CommitTerm(n.log) < Term(n) \/ n.sm.applied < n.log.commit
                     THEN Done(n, {}) ELSE Done(k, out)
  BY DEF MaybeRead
<1> HIDE DEF ready
<1>4. x \in Lead(i)
  BY <1>1, <1>2 DEF Lead, LeaderType
<1>5. k \in StaticNode(i) /\ SameBallot(n.log, k.log) /\ k.role.kind = "Leader"
  <2> HIDE DEF x
  <2> QED BY <1>4, LeadRole DEF SameBallot
<1>6. out \in SUBSET StaticEnv(i) /\ Quiet(out)
  <2>1. \A rd \in ready : rd.from \in Server /\ rd.id \in Ids
    BY <1>1, <1>2 DEF ReadType
  <2>2. n.sm.data \in Seq(Cmd)
    BY FieldTypes DEF State, StateType, Cmd
  <2> QED BY <2>1, <2>2, ReplyType DEF Quiet
<1>7. {} \in SUBSET StaticEnv(i) /\ Quiet({}) /\ SameBallot(n.log, n.log)
  BY DEF Quiet, SameBallot
<1> HIDE DEF k, out
<1> QED BY <1>3, <1>5, <1>6, <1>7, LeadDone

\* maybe_snapshot changes the log only, and not its ballot.
LEMMA MaybeSnapshotType ==
  ASSUME NEW i \in Server, NEW n \in StaticNode(i)
  PROVE  /\ MaybeSnapshot(n) \in StaticNode(i)
         /\ SameBallot(n.log, MaybeSnapshot(n).log)
         /\ MaybeSnapshot(n).role = n.role
<1> DEFINE at == n.sm.applied
           t == IF Stored(n.log, at) THEN TermAt(n.log, at) ELSE CommitTerm(n.log)
           s == [n.log EXCEPT !.snap = n.sm]
           l == CompactTo(s, at, t)
           k == [n EXCEPT !.log = l]
<1>1. n.log \in StaticLog /\ n.sm \in State /\ at \in Nat
  BY FieldTypes
<1>2. t \in Nat
  BY <1>1, TermTypes
<1>3. s \in StaticLog /\ SameBallot(n.log, s)
  BY <1>1 DEF StaticLog, SameBallot
<1>4. l \in StaticLog /\ SameBallot(n.log, l)
  <2> HIDE DEF s, t, at
  <2> QED BY <1>1, <1>2, <1>3, CompactToType DEF SameBallot
<1>5. k \in StaticNode(i) /\ k.log = l /\ k.role = n.role
  <2> HIDE DEF l
  <2> QED BY <1>4, SetLog
<1>6. MaybeSnapshot(n) \in {n, k}
  BY DEF MaybeSnapshot
<1> HIDE DEF k, l
<1> QED BY <1>4, <1>5, <1>6 DEF SameBallot

\* The index to commit is a natural: the set it is the maximum of is bounded by
\* the commit index and the last index.
LEMMA CommitTargetType ==
  ASSUME NEW i \in Server, NEW n \in StaticNode(i)
  PROVE  CommitTarget(n) \in Nat
<1> DEFINE c == n.log.commit
           l == LastIndex(n.log)
           ok(k) == /\ Stored(n.log, k)
                    /\ TermAt(n.log, k) = Term(n)
                    /\ HasQuorum(n.mem.active,
                         {n.id} \cup {p \in DOMAIN n.role.progress :
                                        n.role.progress[p].match >= k})
           S == {c} \cup {k \in c + 1 .. l : ok(k)}
<1>1. c \in Nat /\ l \in Nat
  BY FieldTypes, IndexTypes
<1>2. CommitTarget(n) = Max(S)
  BY DEF CommitTarget
<1> HIDE DEF c, l, ok
<1>3. S \in SUBSET Nat /\ S # {} /\ c + l \in Nat /\ \A x \in S : x <= c + l
  BY <1>1
<1> HIDE DEF S
<1> QED BY <1>2, <1>3, MaxOfBounded

\* A commit attempt: no membership entry means that the leader stays.
Commits(i, n, c) ==
  /\ Leading(i, n, Flagless(c)) /\ c.n.role.kind = "Leader"
  /\ c.down = FALSE

\* The reads and the snapshot after a commit keep the ballot of the leader.
LEMMA ReadAndSnapshotType ==
  ASSUME NEW i \in Server, NEW n \in StaticNode(i), NEW a \in StaticNode(i),
         SameBallot(n.log, a.log), a.role.kind = "Leader",
         NEW answers \in SUBSET StaticEnv(i), Quiet(answers)
  PROVE  Commits(i, n, ReadAndSnapshot(n, [n |-> a, out |-> {}, down |-> FALSE],
                                       answers))
<1> DEFINE m == [n |-> a, out |-> {}, down |-> FALSE]
           r == IF CommitTerm(n.log) # Term(n) THEN MaybeRead(a) ELSE Done(a, {})
           s == MaybeSnapshot(r.n)
           c == [n |-> s, out |-> answers \cup {} \cup r.out, down |-> FALSE]
<1>1. Leading(i, a, r) /\ r.n.role.kind = "Leader"
  <2>1. Leading(i, a, MaybeRead(a)) /\ MaybeRead(a).n.role.kind = "Leader"
    BY MaybeReadType
  <2>2. {} \in SUBSET StaticEnv(i) /\ Quiet({}) /\ SameBallot(a.log, a.log)
    BY DEF Quiet, SameBallot
  <2>3. Leading(i, a, Done(a, {})) /\ Done(a, {}).n.role.kind = "Leader"
    BY <2>2, LeadDone
  <2> QED BY <2>1, <2>3
<1>2. ReadAndSnapshot(n, m, answers) = c
  BY DEF ReadAndSnapshot
<1> HIDE DEF r
<1>3. /\ r.n \in StaticNode(i) /\ SameBallot(n.log, r.n.log)
      /\ r.out \in SUBSET StaticEnv(i) /\ Quiet(r.out)
  BY <1>1 DEF Leading, Keeps, Outcome, SameBallot
<1>4. s \in StaticNode(i) /\ SameBallot(n.log, s.log) /\ s.role.kind = "Leader"
  BY <1>1, <1>3, MaybeSnapshotType DEF SameBallot
<1> HIDE DEF s
<1> DEFINE out == answers \cup {} \cup r.out
<1>5. out \in SUBSET StaticEnv(i) /\ Quiet(out)
  BY <1>3 DEF Quiet
<1>6. Flagless(c) = Done(s, out)
  BY DEF Flagless
<1> HIDE DEF out
<1>7. Leading(i, n, Flagless(c))
  BY <1>4, <1>5, <1>6, LeadDone
<1> QED BY <1>2, <1>4, <1>7 DEF Commits

\* Committing and applying keeps the ballot of the leader.
LEMMA CommitToType ==
  ASSUME NEW i \in Server, NEW n \in StaticNode(i), n.role.kind = "Leader",
         NEW target \in Nat
  PROVE  Commits(i, n, CommitTo(n, target))
<1> DEFINE l == Commit(n.log, target)
           c == [n EXCEPT !.log = l]
           done(w) == w.index > n.sm.applied /\ w.index <= target
           b == MaybeApply(c)
           W == {w \in b.role.writes : ~done(w)}
           M == {w \in b.role.membership_writes : ~done(w)}
           x == [b.role EXCEPT !.writes = W, !.membership_writes = M]
           a == [b EXCEPT !.role = x]
           D == {v \in n.role.writes \cup n.role.membership_writes : done(v)}
           out == {Reply(n, w.from, w.id, "Ok", <<>>) : w \in D}
<1>1. l \in StaticLog /\ SameBallot(n.log, l)
  BY FieldTypes, CommitType
<1>2. c \in StaticNode(i) /\ c.log = l /\ c.role = n.role
  <2> HIDE DEF l
  <2> QED BY <1>1, SetLog
<1>3. /\ b \in StaticNode(i) /\ b.log = l /\ b.role = n.role
      /\ CommittedMemberships(c) = {}
  <2> HIDE DEF c
  <2> QED BY <1>2, MaybeApplyType
<1>4. CommitTo(n, target) =
        ReadAndSnapshot(n, [n |-> a, out |-> {}, down |-> FALSE], out)
  <2>1. CommittedMemberships(c) = {}
    BY <1>3
  <2>2. [b EXCEPT !.role.writes = W, !.role.membership_writes = M] = a
    OBVIOUS
  <2> QED BY <2>1, <2>2 DEF CommitTo
<1> HIDE DEF b, done
<1>5. x \in Lead(i)
  <2>1. b.role \in Lead(i)
    BY <1>3, LeadTypes
  <2> QED BY <2>1, Zenon DEF Lead, LeaderType
<1>6. a \in StaticNode(i) /\ a.log = l /\ a.role.kind = "Leader"
  <2> HIDE DEF x
  <2> QED BY <1>3, <1>5, LeadRole
<1>7. out \in SUBSET StaticEnv(i) /\ Quiet(out)
  <2>1. /\ n.role.writes \in SUBSET WriteType(Ids)
        /\ n.role.membership_writes \in SUBSET WriteType(Ids)
    BY LeadTypes
  <2>2. \A w \in D : w.from \in Server /\ w.id \in Ids
    BY <2>1 DEF WriteType
  <2>3. <<>> \in Seq(Cmd)
    BY EmptySeq
  <2> HIDE DEF D
  <2>4. \A e \in out : e \in StaticEnv(i) /\ ~Granted(e)
    BY <2>2, <2>3, ReplyType
  <2> HIDE DEF out
  <2> QED BY <2>4 DEF Quiet
<1> HIDE DEF a, out
<1> QED BY <1>1, <1>4, <1>6, <1>7, ReadAndSnapshotType

\* maybe_commit_and_apply keeps the ballot of the leader.
LEMMA MaybeCommitAndApplyType ==
  ASSUME NEW i \in Server, NEW n \in StaticNode(i), n.role.kind = "Leader"
  PROVE  Commits(i, n, MaybeCommitAndApply(n))
<1>1. Commits(i, n, CommitTo(n, CommitTarget(n)))
  BY CommitTargetType, CommitToType
<1> DEFINE c == [n |-> n, out |-> {}, down |-> FALSE]
<1>2. Commits(i, n, c)
  <2>1. {} \in SUBSET StaticEnv(i) /\ Quiet({}) /\ SameBallot(n.log, n.log)
    BY DEF Quiet, SameBallot
  <2>2. Leading(i, n, Done(n, {}))
    BY <2>1, LeadDone
  <2>3. Flagless(c) = Done(n, {})
    BY DEF Flagless
  <2> QED BY <2>2, <2>3 DEF Commits
<1> QED BY <1>1, <1>2 DEF MaybeCommitAndApply

\* One call after another, as Then composes them.
LEMMA ThenLead ==
  ASSUME NEW i \in Server, NEW n \in StaticNode(i), NEW r, Leading(i, n, r),
         NEW q, r.n.role.kind = "Leader" => Leading(i, r.n, q)
  PROVE  Leading(i, n, IF r.n.role.kind = "Panicked" THEN r
                       ELSE After(r.out, q))
<1>1. CASE r.n.role.kind = "Panicked"
  BY <1>1
<1>2. CASE r.n.role.kind # "Panicked"
  <2>1. Leading(i, r.n, q)
    BY <1>2 DEF Leading
  <2>2. Keeps(i, n, q) /\ q.n.role.kind \in {"Leader", "Panicked"}
    BY <2>1 DEF Leading, Keeps, SameBallot
  <2>3. r.out \in SUBSET StaticEnv(i) /\ Quiet(r.out)
    BY DEF Leading, Keeps, Outcome
  <2>4. Keeps(i, n, After(r.out, q)) /\ After(r.out, q).n = q.n
    BY <2>2, <2>3, AfterType
  <2> QED BY <1>2, <2>2, <2>4 DEF Leading
<1> QED BY <1>1, <1>2

\* A panic after a leader's call.
LEMMA PanicLead ==
  ASSUME NEW i \in Server, NEW n \in StaticNode(i), NEW r, Leading(i, n, r),
         NEW why \in Reasons
  PROVE  Leading(i, n, Panic(r.n, why))
<1>1. r.n \in StaticNode(i) /\ SameBallot(n.log, r.n.log)
  BY DEF Leading, Keeps, Outcome
<1>2. Leading(i, r.n, Panic(r.n, why))
  BY <1>1, PanicType
<1> QED BY <1>1, <1>2 DEF Leading, Keeps, SameBallot

\* heartbeat sends to the peers, or panics.
LEMMA HeartbeatType ==
  ASSUME NEW i \in Server, NEW n \in StaticNode(i), n.role.kind = "Leader"
  PROVE  Leading(i, n, Heartbeat(n))
<1> DEFINE msg == [type |-> "Heartbeat", last_index |-> LastIndex(n.log),
                   commit_index |-> n.log.commit, read_seq |-> n.role.read_seq]
           out == Broadcast(n, msg)
<1>1. msg \in StaticMessage /\ msg.type # "CampaignResponse"
  <2>1. LastIndex(n.log) \in Nat /\ n.log.commit \in Nat /\ n.role.read_seq \in Nat
    BY FieldTypes, IndexTypes, LeadTypes
  <2> QED BY <2>1 DEF StaticMessage
<1>2. out \in SUBSET StaticEnv(i) /\ Quiet(out)
  <2> HIDE DEF msg
  <2> QED BY <1>1, BroadcastType
<1>3. Heartbeat(n) = Require(LastTerm(n.log) = Term(n), "last term not current",
                             Done(n, out))
  BY DEF Heartbeat
<1> HIDE DEF out
<1>4. Leading(i, n, Done(n, out))
  BY <1>2, LeadDone DEF SameBallot
<1>5. "last term not current" \in Reasons
  BY DEF Reasons
<1>6. Leading(i, n, Panic(Done(n, out).n, "last term not current"))
  BY <1>4, <1>5, PanicLead
<1> QED BY <1>3, <1>4, <1>6 DEF Require

\* Leader::new
LEMMA LeaderRole ==
  ASSUME NEW i \in Server, NEW n \in StaticNode(i)
  PROVE  Leader(n) \in Lead(i)
<1>1. Peers(n) = Server \ {i}
  BY PeersOf
<1>2. LastIndex(n.log) + 1 \in Nat
  <2>1. LastIndex(n.log) \in Nat
    BY FieldTypes, IndexTypes
  <2> QED BY <2>1
<1>3. Progress(LastIndex(n.log) + 1) \in ProgressType
  BY <1>2 DEF Progress, ProgressType
<1>4. [p \in Peers(n) |-> Progress(LastIndex(n.log) + 1)]
        \in [Server \ {i} -> ProgressType]
  BY <1>1, <1>3
<1> QED BY <1>4 DEF Leader, Lead, LeaderType

\* into_leader enters office without touching the ballot, or panics.
LEMMA IntoLeaderType ==
  ASSUME NEW i \in Server, NEW n \in StaticNode(i)
  PROVE  Leading(i, n, IntoLeader(n))
<1> DEFINE k == [n EXCEPT !.role = Leader(n)]
           p == Propose(k, Nil)
           c == MaybeCommitAndApply(p.n)
           q == IF p.n.role.kind = "Panicked" THEN p ELSE After(p.out, Flagless(c))
           h == Heartbeat(q.n)
           r == IF q.n.role.kind = "Panicked" THEN q ELSE After(q.out, h)
<1>1. k \in StaticNode(i) /\ k.log = n.log /\ k.role.kind = "Leader"
  BY LeaderRole, LeadRole
<1>2. IntoLeader(n) = Require(n.log.vote = n.id, "leader did not vote for self", r)
  BY DEF IntoLeader, Then, CommitOnly
<1>3. Leading(i, n, p)
  <2> HIDE DEF k
  <2>1. Nil \in Cmd
    BY DEF Cmd
  <2>2. Leading(i, k, p)
    BY <1>1, <2>1, ProposeType
  <2> QED BY <1>1, <2>2 DEF Leading, Keeps
<1>4. Leading(i, n, q)
  <2> HIDE DEF p
  <2>1. p.n.role.kind = "Leader" => Leading(i, p.n, Flagless(c))
    BY <1>3, MaybeCommitAndApplyType DEF Commits, Leading, Keeps, Outcome
  <2> QED BY <1>3, <2>1, ThenLead
<1>5. Leading(i, n, r)
  <2> HIDE DEF q
  <2>1. q.n.role.kind = "Leader" => Leading(i, q.n, h)
    BY <1>4, HeartbeatType DEF Leading, Keeps, Outcome
  <2> QED BY <1>4, <2>1, ThenLead
<1>6. "leader did not vote for self" \in Reasons
  BY DEF Reasons
<1> HIDE DEF r
<1>7. Leading(i, n, Panic(r.n, "leader did not vote for self"))
  BY <1>5, <1>6, PanicLead
<1> QED BY <1>2, <1>5, <1>7 DEF Require

-----------------------------------------------------------------------------
(* Node::step, Node::tick and Node::new: each moves the ballots only as    *)
(* the election rules allow (Moves).                                       *)

\* A candidate of a real election.
Elective(n) == n.role.kind = "Candidate" /\ n.role.phase = "Election"

\* K is a set of ballots known to be cast.  It holds those that a candidate
\* has counted, and the one that a message carries.
Knows(i, n, K) ==
  Elective(n) => \A v \in n.role.votes :
    [voter |-> v, term |-> n.log.term, vote |-> i] \in K

Carried(m, K) ==
  Granted(m) => [voter |-> m.from, term |-> m.term, vote |-> m.to] \in K

\* v's vote for i is known, or is i's own and persisted.
Backed(i, n, K, v) ==
  \/ [voter |-> v, term |-> n.log.term, vote |-> i] \in K
  \/ v = i /\ n.log.vote = i

\* What a call may do: the term and vote obey set_term_vote, a vote is given
\* only as persisted, and votes are counted, and an office entered, only with
\* ballots that were cast.
Moves(i, n, K, r) ==
  /\ r \in Outcome(i)
  /\ r.n.log.term >= n.log.term
  /\ r.n.log.term = n.log.term /\ n.log.vote # Nil => r.n.log.vote = n.log.vote
  /\ \A m \in r.out : Granted(m) => m.term = r.n.log.term /\ m.to = r.n.log.vote
  /\ Elective(r.n) => \A v \in r.n.role.votes : Backed(i, r.n, K, v)
  /\ r.n.role.kind = "Leader" =>
       \/ n.role.kind = "Leader" /\ r.n.log.term = n.log.term
       \/ \E Q \in SUBSET Server : /\ Majority(Server, Q)
                                   /\ \A v \in Q : Backed(i, r.n, K, v)

-----------------------------------------------------------------------------
(* How calls move when they keep the ballot, or run.                       *)

\* A call that keeps the ballot and starts neither an election nor an office.
LEMMA KeepsMoves ==
  ASSUME NEW i \in Server, NEW n \in StaticNode(i), NEW K, NEW r,
         Keeps(i, n, r), ~Elective(r.n),
         r.n.role.kind = "Leader" => n.role.kind = "Leader"
  PROVE  Moves(i, n, K, r)
<1>1. r.n \in StaticNode(i)
  BY DEF Keeps, Outcome
<1>2. r.n.log.term = n.log.term /\ r.n.log.vote = n.log.vote /\ n.log.term \in Nat
  BY FieldTypes DEF Keeps, SameBallot
<1> QED BY <1>2 DEF Moves, Keeps, Quiet

\* A call that leaves the node as it is.
LEMMA StaysMoves ==
  ASSUME NEW i \in Server, NEW n \in StaticNode(i), NEW K, Knows(i, n, K),
         NEW out \in SUBSET StaticEnv(i), Quiet(out)
  PROVE  Moves(i, n, K, Done(n, out))
<1> DEFINE r == Done(n, out)
<1>1. Keeps(i, n, r) /\ r.n = n /\ r.out = out
  BY DoneType DEF SameBallot
<1> HIDE DEF r
<1>2. r.n.log.term = n.log.term /\ r.n.log.vote = n.log.vote /\ n.log.term \in Nat
  BY <1>1, FieldTypes
<1>3. Elective(r.n) => \A v \in r.n.role.votes : Backed(i, r.n, K, v)
  BY <1>1 DEF Knows, Backed
<1>4. Moves(i, n, K, r)
  BY <1>1, <1>2, <1>3 DEF Moves, Keeps, Quiet
<1> QED BY <1>4 DEF r

\* A new election counts the candidate's own vote.
LEMMA RunsMoves ==
  ASSUME NEW i \in Server, NEW n \in StaticNode(i), NEW K, NEW r, Runs(i, n, r)
  PROVE  Moves(i, n, K, r)
<1>1. r.n.log.term = n.log.term + 1 /\ n.log.term \in Nat /\ r.n.log.vote = i
  BY FieldTypes DEF Runs
<1>2. r.n.role.kind = "Candidate" /\ r.n.role.votes = {i}
  BY DEF Runs, Candidate
<1>3. \A v \in r.n.role.votes : Backed(i, r.n, K, v)
  BY <1>1, <1>2 DEF Backed
<1>4. r \in Outcome(i) /\ Quiet(r.out)
  BY DEF Runs
<1> QED BY <1>1, <1>2, <1>3, <1>4 DEF Moves, Quiet

\* A pre-campaign, or an election.
LEMMA StandsMoves ==
  ASSUME NEW i \in Server, NEW n \in StaticNode(i), NEW K, NEW r, Stands(i, n, r)
  PROVE  Moves(i, n, K, r)
<1>1. CASE Runs(i, n, r)
  BY <1>1, RunsMoves
<1>2. CASE ~Runs(i, n, r)
  <2>1. Keeps(i, n, r) /\ r.n.role.kind = "Candidate" /\ r.n.role.phase = "PreVote"
    BY <1>2 DEF Stands
  <2> QED BY <2>1, KeepsMoves DEF Elective
<1> QED BY <1>1, <1>2

\* A call on a node that is k by then, with the same or no ballot in a later
\* term, after out was sent.
LEMMA LaterMoves ==
  ASSUME NEW i \in Server, NEW n \in StaticNode(i), NEW k \in StaticNode(i),
         NEW K, NEW r, Moves(i, k, K, r), k.role.kind # "Leader",
         SameBallot(n.log, k.log) \/ k.log.term > n.log.term,
         NEW out \in SUBSET StaticEnv(i), Quiet(out)
  PROVE  Moves(i, n, K, After(out, r)) /\ Moves(i, n, K, r)
<1>1. n.log.term \in Nat /\ k.log.term \in Nat /\ r \in Outcome(i)
  BY FieldTypes DEF Moves
<1>2. r.n.log.term \in Nat
  BY <1>1, FieldTypes DEF Outcome
<1>3. Moves(i, n, K, r)
  BY <1>1, <1>2 DEF Moves, SameBallot
<1>4. CASE r.n.role.kind = "Panicked"
  BY <1>3, <1>4 DEF After
<1>5. CASE r.n.role.kind # "Panicked"
  <2>1. After(out, r) = Done(r.n, out \cup r.out)
    BY <1>5 DEF After
  <2>2. After(out, r) \in Outcome(i) /\ After(out, r).n = r.n
        /\ After(out, r).out = out \cup r.out
    BY <1>1, <2>1 DEF Done, Outcome
  <2> QED BY <1>3, <2>2 DEF Moves, Quiet
<1> QED BY <1>3, <1>4, <1>5

-----------------------------------------------------------------------------
(* Messages, by type.                                                      *)

\* What the fields of each kind of message are.
LEMMA MessageFields ==
  ASSUME NEW msg \in StaticMessage
  PROVE  /\ msg.type \in {"PreCampaign", "Campaign"} =>
              msg.last_index \in Nat /\ msg.last_term \in Nat
         /\ msg.type = "Heartbeat" =>
              /\ msg.last_index \in Nat /\ msg.commit_index \in Nat
              /\ msg.read_seq \in Nat
         /\ msg.type = "HeartbeatResponse" =>
              msg.match_index \in Nat /\ msg.read_seq \in Nat
         /\ msg.type = "Append" =>
              /\ msg.base_index \in Nat /\ msg.base_term \in Nat
              /\ msg.entries \in Seq(StaticEntry)
         /\ msg.type = "AppendResponse" =>
              msg.match_index \in Nat /\ msg.reject_index \in Nat
         /\ msg.type \in {"Read", "ReadResponse"} => msg.seq \in Nat
         /\ msg.type = "InstallSnapshot" =>
              /\ msg.last_included_index \in Nat
              /\ msg.last_included_term \in Nat
              /\ msg.data \in State /\ msg.membership = Simple(Server)
         /\ msg.type = "InstallSnapshotResponse" =>
              msg.last_included_index \in Nat
         /\ msg.type = "ClientRequest" =>
              msg.request \in Requests /\ msg.request.id \in Ids
         /\ msg.type = "ClientResponse" =>
              /\ msg.id \in Ids /\ msg.data \in Seq(Cmd)
              /\ msg.status \in {"Ok", "Abort", "Invalid"}
<1>1. \A r \in Requests : r.id \in Ids
  BY DEF Ids
<1> QED BY <1>1 DEF StaticMessage

\* An envelope on its way to node i.
Mail(i) ==
  [from : Server, to : {i}, term : Nat, message : StaticMessage]

-----------------------------------------------------------------------------
(* Follower::step.                                                         *)

\* A call that leaves a follower a follower, its ballot as it was.
Follows(i, n, r) == Keeps(i, n, r) /\ r.n.role.kind \in {"Follower", "Panicked"}

\* A follower with an unchanged ballot and what it sends.
LEMMA FollowsDone ==
  ASSUME NEW i \in Server, NEW n \in StaticNode(i), NEW k \in StaticNode(i),
         SameBallot(n.log, k.log), k.role.kind = "Follower",
         NEW out \in SUBSET StaticEnv(i), Quiet(out)
  PROVE  Follows(i, n, Done(k, out))
BY DoneType DEF Follows

\* A message that a follower ignores.
LEMMA FollowsNothing ==
  ASSUME NEW i \in Server, NEW n \in StaticNode(i), n.role.kind = "Follower"
  PROVE  Follows(i, n, Done(n, {}))
<1>1. {} \in SUBSET StaticEnv(i) /\ Quiet({}) /\ SameBallot(n.log, n.log)
  BY DEF Quiet, SameBallot
<1> QED BY <1>1, FollowsDone

\* A panic of a follower.
LEMMA FollowsPanic ==
  ASSUME NEW i \in Server, NEW n \in StaticNode(i), NEW k \in StaticNode(i),
         SameBallot(n.log, k.log), NEW why \in Reasons
  PROVE  Follows(i, n, Panic(k, why))
<1>1. Leading(i, k, Panic(k, why)) /\ Panic(k, why).n.role.kind = "Panicked"
  BY PanicType
<1> QED BY <1>1 DEF Leading, Keeps, Follows, SameBallot

\* One envelope that is not a vote given.
LEMMA One ==
  ASSUME NEW i \in Server, NEW k \in StaticNode(i), NEW to \in Server,
         NEW msg \in StaticMessage, msg.type # "CampaignResponse" \/ ~msg.vote
  PROVE  {Env(k, to, msg)} \in SUBSET StaticEnv(i) /\ Quiet({Env(k, to, msg)})
BY EnvType DEF Quiet, Granted

\* A follower without a leader takes the sender for its leader.
LEMMA FollowingType ==
  ASSUME NEW i \in Server, NEW n \in StaticNode(i), n.role.kind = "Follower",
         NEW m \in Mail(i)
  PROVE  /\ Following(n, m) \in StaticNode(i)
         /\ Following(n, m).log = n.log
         /\ Following(n, m).role.kind = "Follower"
         /\ m.from \in Server
<1>1. m.from \in Server /\ m.from \in Server \cup {Nil}
  BY DEF Mail
<1>2. Follower(m.from) \in Role(i) /\ Follower(m.from).kind = "Follower"
  BY <1>1, RoleTypes
<1> DEFINE f == [n EXCEPT !.role = Follower(m.from)]
<1>3. f \in StaticNode(i) /\ f.log = n.log /\ f.role.kind = "Follower"
  BY <1>2, SetRole
<1>4. Following(n, m) \in {n, f}
  BY DEF Following
<1> HIDE DEF f
<1> QED BY <1>1, <1>3, <1>4

\* Heartbeat keeps the ballot.
LEMMA FollowerHeartbeatType ==
  ASSUME NEW i \in Server, NEW n \in StaticNode(i), n.role.kind = "Follower",
         NEW m \in Mail(i), m.message.type = "Heartbeat"
  PROVE  Follows(i, n, FollowerHeartbeat(n, m))
<1> DEFINE f == Following(n, m)
           h == m.message
           match == IF Has(f.log, h.last_index, m.term) THEN h.last_index ELSE 0
           msg == [type |-> "HeartbeatResponse", match_index |-> match,
                   read_seq |-> h.read_seq]
           answer == {Env(f, m.from, msg)}
           l == Commit(f.log, h.commit_index)
           c == [f EXCEPT !.log = l]
           a == MaybeApply(c)
<1>1. f \in StaticNode(i) /\ f.log = n.log /\ f.role.kind = "Follower"
      /\ m.from \in Server
  BY FollowingType
<1>2. h \in StaticMessage /\ h.type = "Heartbeat"
  BY DEF Mail
<1>3. h.last_index \in Nat /\ h.commit_index \in Nat /\ h.read_seq \in Nat
  BY <1>2, MessageFields
<1>4. FollowerHeartbeat(n, m) \in
        {Panic(n, "commit after last index"), Done(n, {}), Done(f, answer),
         Done(a, answer), Panic(f, "commit index missing")}
  BY DEF FollowerHeartbeat
<1> HIDE DEF f, h
<1>5. answer \in SUBSET StaticEnv(i) /\ Quiet(answer)
  <2>1. match \in Nat
    BY <1>3
  <2> HIDE DEF match
  <2>2. msg \in StaticMessage /\ msg.type # "CampaignResponse"
    BY <1>3, <2>1 DEF StaticMessage
  <2> HIDE DEF msg
  <2> QED BY <1>1, <2>2, One
<1>6. l \in StaticLog /\ SameBallot(n.log, l)
  BY <1>1, <1>3, FieldTypes, CommitType
<1> HIDE DEF l
<1>7. c \in StaticNode(i) /\ c.log = l /\ c.role.kind = "Follower"
  BY <1>1, <1>6, SetLog
<1> HIDE DEF c
<1>8. a \in StaticNode(i) /\ SameBallot(n.log, a.log) /\ a.role.kind = "Follower"
  BY <1>6, <1>7, MaybeApplyType
<1> HIDE DEF a, answer
<1>9. Follows(i, n, Done(a, answer)) /\ Follows(i, n, Done(f, answer))
  BY <1>1, <1>5, <1>8, FollowsDone DEF SameBallot
<1>10. /\ Follows(i, n, Panic(n, "commit after last index"))
       /\ Follows(i, n, Panic(f, "commit index missing"))
  <2>1. /\ "commit after last index" \in Reasons
        /\ "commit index missing" \in Reasons
    BY DEF Reasons
  <2>2. SameBallot(n.log, n.log) /\ SameBallot(n.log, f.log)
    BY <1>1 DEF SameBallot
  <2> QED BY <1>1, <2>1, <2>2, FollowsPanic
<1>11. Follows(i, n, Done(n, {}))
  BY FollowsNothing
<1> QED BY <1>4, <1>9, <1>10, <1>11

\* Append keeps the ballot, whether spliced, rejected or refused.
LEMMA FollowerAppendType ==
  ASSUME NEW i \in Server, NEW n \in StaticNode(i), n.role.kind = "Follower",
         NEW m \in Mail(i), m.message.type = "Append"
  PROVE  Follows(i, n, FollowerAppend(n, m))
<1> DEFINE f == Following(n, m)
           a == m.message
           back == Min({a.base_index, LastIndex(f.log) + 1})
           no == AppendAnswer(f, m, 0, back)
           yes == AppendAnswer(f, m, a.base_index + Len(a.entries), 0)
           l == Splice(f.log, a.base_index, a.entries)
           s == [f EXCEPT !.log = l]
<1>1. f \in StaticNode(i) /\ f.log = n.log /\ f.role.kind = "Follower"
      /\ m.from \in Server
  BY FollowingType
<1>2. a \in StaticMessage /\ a.type = "Append"
  BY DEF Mail
<1>3. a.base_index \in Nat /\ a.base_term \in Nat /\ a.entries \in Seq(StaticEntry)
  BY <1>2, MessageFields
<1>4. Spliced(f, a) = s
  <2>1. Memberships(a.entries) = {}
    BY <1>3, NoMemberships
  <2> QED BY <2>1 DEF Spliced, AdoptMemberships
<1>5. \/ FollowerAppend(n, m) \in {Done(n, {}), Done(f, no), Panic(f, "splice")}
      \/ /\ SpliceOk(f.log, a.base_index, a.entries)
         /\ FollowerAppend(n, m) = Done(s, yes)
  BY <1>4 DEF FollowerAppend
<1> HIDE DEF f, a
<1>6. ASSUME NEW x \in Nat, NEW y \in Nat
      PROVE  /\ AppendAnswer(f, m, x, y) \in SUBSET StaticEnv(i)
             /\ Quiet(AppendAnswer(f, m, x, y))
  <2> DEFINE msg == [type |-> "AppendResponse", match_index |-> x,
                     reject_index |-> y]
  <2>1. msg \in StaticMessage /\ msg.type # "CampaignResponse"
    BY DEF StaticMessage
  <2>2. AppendAnswer(f, m, x, y) = {Env(f, m.from, msg)}
    BY DEF AppendAnswer
  <2>3. m.from \in Server
    BY DEF Mail
  <2> HIDE DEF msg
  <2>4. {Env(f, m.from, msg)} \in SUBSET StaticEnv(i)
        /\ Quiet({Env(f, m.from, msg)})
    BY <1>1, <2>1, <2>3, One
  <2> QED BY <2>2, <2>4
<1>7. no \in SUBSET StaticEnv(i) /\ Quiet(no)
  <2>1. LastIndex(f.log) \in Nat
    BY <1>1, FieldTypes, IndexTypes
  <2>2. LastIndex(f.log) + 1 \in Nat
    BY <2>1
  <2>3. back \in Nat
    BY <1>3, <2>2, MinOfTwo
  <2> HIDE DEF back
  <2> QED BY <1>6, <2>3
<1>8. yes \in SUBSET StaticEnv(i) /\ Quiet(yes)
  <2>1. Len(a.entries) \in Nat
    BY <1>3, LenProperties
  <2>2. a.base_index + Len(a.entries) \in Nat
    BY <1>3, <2>1
  <2> QED BY <1>6, <2>2
<1> HIDE DEF no, yes
<1>9. Follows(i, n, Done(f, no))
  BY <1>1, <1>7, FollowsDone DEF SameBallot
<1>10. ASSUME SpliceOk(f.log, a.base_index, a.entries)
       PROVE  Follows(i, n, Done(s, yes))
  <2>1. l \in StaticLog /\ SameBallot(n.log, l)
    BY <1>1, <1>3, <1>10, FieldTypes, SpliceType
  <2> HIDE DEF l
  <2>2. s \in StaticNode(i) /\ s.log = l /\ s.role.kind = "Follower"
    BY <1>1, <2>1, SetLog
  <2> HIDE DEF s
  <2> QED BY <1>8, <2>1, <2>2, FollowsDone
<1>11. Follows(i, n, Panic(f, "splice"))
  <2>1. "splice" \in Reasons /\ SameBallot(n.log, f.log)
    BY <1>1 DEF Reasons, SameBallot
  <2> QED BY <1>1, <2>1, FollowsPanic
<1>12. Follows(i, n, Done(n, {}))
  BY FollowsNothing
<1> QED BY <1>5, <1>9, <1>10, <1>11, <1>12

\* Read keeps the ballot.
LEMMA FollowerReadType ==
  ASSUME NEW i \in Server, NEW n \in StaticNode(i), n.role.kind = "Follower",
         NEW m \in Mail(i), m.message.type = "Read"
  PROVE  Follows(i, n, FollowerRead(n, m))
<1> DEFINE f == Following(n, m)
           msg == [type |-> "ReadResponse", seq |-> m.message.seq]
           out == {Env(f, m.from, msg)}
<1>1. f \in StaticNode(i) /\ f.log = n.log /\ f.role.kind = "Follower"
      /\ m.from \in Server
  BY FollowingType
<1>2. m.message \in StaticMessage
  BY DEF Mail
<1>3. m.message.seq \in Nat
  BY <1>2, MessageFields
<1>4. FollowerRead(n, m) \in {Done(n, {}), Done(f, out)}
  BY DEF FollowerRead
<1>5. msg \in StaticMessage /\ msg.type # "CampaignResponse"
  BY <1>3 DEF StaticMessage
<1> HIDE DEF f, msg
<1>6. out \in SUBSET StaticEnv(i) /\ Quiet(out)
  BY <1>1, <1>5, One
<1> HIDE DEF out
<1>7. Follows(i, n, Done(f, out))
  BY <1>1, <1>6, FollowsDone DEF SameBallot
<1>8. Follows(i, n, Done(n, {}))
  BY FollowsNothing
<1> QED BY <1>4, <1>7, <1>8

\* The follower's lists of forwarded requests.
LEMMA SetForwarded ==
  ASSUME NEW i \in Server, NEW n \in StaticNode(i), n.role.kind = "Follower",
         NEW F \in SUBSET Ids
  PROVE  /\ [n EXCEPT !.role.forwarded = F] \in StaticNode(i)
         /\ [n EXCEPT !.role.forwarded = F].log = n.log
         /\ [n EXCEPT !.role.forwarded = F].role.kind = "Follower"
         /\ n.role.forwarded \in SUBSET Ids
         /\ n.role.leader \in Server \cup {Nil}
<1>1. n.role \in Role(i)
  BY FieldTypes
<1>2. n.role \in FollowerType(Ids)
  BY <1>1 DEF Role, CandidateType, Lead, LeaderType, PanickedType
<1> DEFINE x == [n.role EXCEPT !.forwarded = F]
<1>3. x \in FollowerType(Ids) /\ x.kind = "Follower"
  BY <1>2 DEF FollowerType
<1>4. [n EXCEPT !.role.forwarded = F] = [n EXCEPT !.role = x]
  OBVIOUS
<1> HIDE DEF x
<1>5. /\ [n EXCEPT !.role = x] \in StaticNode(i)
      /\ [n EXCEPT !.role = x].log = n.log /\ [n EXCEPT !.role = x].role = x
  BY <1>3, SetRole DEF Role
<1> QED BY <1>2, <1>3, <1>4, <1>5 DEF FollowerType

\* A client request is forwarded or aborted.
LEMMA FollowerClientRequestType ==
  ASSUME NEW i \in Server, NEW n \in StaticNode(i), n.role.kind = "Follower",
         NEW m \in Mail(i), m.message.type = "ClientRequest"
  PROVE  Follows(i, n, FollowerClientRequest(n, m))
<1> DEFINE id == m.message.request.id
           F == n.role.forwarded \cup {id}
           k == [n EXCEPT !.role.forwarded = F]
           to == n.role.leader
<1>1. m.from \in Server /\ m.message \in StaticMessage
  BY DEF Mail
<1>2. id \in Ids
  BY <1>1, MessageFields
<1>3. /\ n.role.forwarded \in SUBSET Ids
      /\ to \in Server \cup {Nil}
  BY SetForwarded
<1>4. F \in SUBSET Ids
  BY <1>2, <1>3
<1>5. k \in StaticNode(i) /\ k.log = n.log /\ k.role.kind = "Follower"
  <2> HIDE DEF F
  <2> QED BY <1>4, SetForwarded
<1>6. \/ to # Nil /\ FollowerClientRequest(n, m) = Done(k, {Env(n, to, m.message)})
      \/ FollowerClientRequest(n, m) = Done(n, {Abort(n, m.from, id)})
  BY DEF FollowerClientRequest
<1> HIDE DEF k, to, id
<1>7. ASSUME to # Nil
      PROVE  Follows(i, n, Done(k, {Env(n, to, m.message)}))
  <2>1. to \in Server
    BY <1>3, <1>7
  <2>2. /\ {Env(n, to, m.message)} \in SUBSET StaticEnv(i)
        /\ Quiet({Env(n, to, m.message)})
    BY <1>1, <2>1, One
  <2> QED BY <1>5, <2>2, FollowsDone DEF SameBallot
<1>8. Follows(i, n, Done(n, {Abort(n, m.from, id)}))
  <2>1. /\ {Abort(n, m.from, id)} \in SUBSET StaticEnv(i)
        /\ Quiet({Abort(n, m.from, id)}) /\ SameBallot(n.log, n.log)
    BY <1>1, <1>2, AbortType DEF Quiet, SameBallot
  <2> QED BY <2>1, FollowsDone
<1> QED BY <1>6, <1>7, <1>8

\* A leader's answer is passed on or ignored.
LEMMA FollowerClientResponseType ==
  ASSUME NEW i \in Server, NEW n \in StaticNode(i), n.role.kind = "Follower",
         NEW m \in Mail(i), m.message.type = "ClientResponse"
  PROVE  Follows(i, n, FollowerClientResponse(n, m))
<1> DEFINE c == m.message
           F == n.role.forwarded \ {c.id}
           k == [n EXCEPT !.role.forwarded = F]
           e == Reply(n, n.id, c.id, c.status, c.data)
<1>1. c \in StaticMessage
  BY DEF Mail
<1>2. c.id \in Ids /\ c.data \in Seq(Cmd) /\ c.status \in {"Ok", "Abort", "Invalid"}
  BY <1>1, MessageFields
<1>3. F \in SUBSET Ids
  BY SetForwarded
<1>4. k \in StaticNode(i) /\ k.log = n.log /\ k.role.kind = "Follower"
  <2> HIDE DEF F
  <2> QED BY <1>3, SetForwarded
<1>5. FollowerClientResponse(n, m) \in {Done(n, {}), Done(k, {e})}
  BY DEF FollowerClientResponse
<1>6. n.id = i
  BY FieldTypes
<1>7. {e} \in SUBSET StaticEnv(i) /\ Quiet({e})
  BY <1>2, <1>6, ReplyType DEF Quiet
<1> HIDE DEF k, e
<1>8. Follows(i, n, Done(k, {e}))
  BY <1>4, <1>7, FollowsDone DEF SameBallot
<1>9. Follows(i, n, Done(n, {}))
  BY FollowsNothing
<1> QED BY <1>5, <1>8, <1>9

\* InstallSnapshot replaces log and state and keeps the ballot.
LEMMA FollowerInstallSnapshotType ==
  ASSUME NEW i \in Server, NEW n \in StaticNode(i), n.role.kind = "Follower",
         NEW m \in Mail(i), m.message.type = "InstallSnapshot"
  PROVE  Follows(i, n, FollowerInstallSnapshot(n, m))
<1> DEFINE f == Following(n, m)
           s == m.message
           index == s.last_included_index
           sm == Restored(s.data, index)
           kept == [f.log EXCEPT !.snap = s.data]
           l == ResetWithSnapshot(kept, index, s.last_included_term)
           mem == [active |-> s.membership, change_pending |-> s.membership.joint]
           g == [f EXCEPT !.sm = sm, !.log = l, !.mem = mem]
           msg == [type |-> "InstallSnapshotResponse",
                   last_included_index |-> index]
<1>1. f \in StaticNode(i) /\ f.log = n.log /\ f.role.kind = "Follower"
      /\ m.from \in Server
  BY FollowingType
<1>2. s \in StaticMessage
  BY DEF Mail
<1>3. index \in Nat /\ s.last_included_term \in Nat /\ s.data \in State
      /\ s.membership = Simple(Server)
  BY <1>2, MessageFields
<1>4. FollowerInstallSnapshot(n, m) \in
        {Done(n, {}), Done(f, {Env(f, m.from, msg)}), Done(g, {Env(g, m.from, msg)})}
  BY DEF FollowerInstallSnapshot
<1>5. msg \in StaticMessage /\ msg.type # "CampaignResponse"
  BY <1>3 DEF StaticMessage
<1>6. mem = Bootstrap(Server)
  BY <1>3 DEF Bootstrap, Simple
<1> HIDE DEF f, s, index, msg, mem
<1>7. sm \in State
  BY <1>3, RestoredType
<1>8. kept \in StaticLog /\ SameBallot(n.log, kept)
  <2>1. f.log \in StaticLog
    BY <1>1, FieldTypes
  <2> QED BY <1>1, <1>3, <2>1 DEF StaticLog, SameBallot
<1> HIDE DEF kept
<1>9. l \in StaticLog /\ SameBallot(n.log, l)
  BY <1>3, <1>8, ResetType DEF SameBallot
<1> HIDE DEF sm, l
<1>10. g \in StaticNode(i) /\ g.log = l /\ g.role = f.role
  BY <1>1, <1>6, <1>7, <1>9 DEF StaticNode
<1> HIDE DEF g
<1>11. Follows(i, n, Done(g, {Env(g, m.from, msg)}))
  <2>1. {Env(g, m.from, msg)} \in SUBSET StaticEnv(i) /\ Quiet({Env(g, m.from, msg)})
    BY <1>1, <1>5, <1>10, One
  <2> QED BY <1>1, <1>9, <1>10, <2>1, FollowsDone
<1>12. Follows(i, n, Done(f, {Env(f, m.from, msg)}))
  <2>1. {Env(f, m.from, msg)} \in SUBSET StaticEnv(i) /\ Quiet({Env(f, m.from, msg)})
    BY <1>1, <1>5, One
  <2> QED BY <1>1, <2>1, FollowsDone DEF SameBallot
<1>13. Follows(i, n, Done(n, {}))
  BY FollowsNothing
<1> QED BY <1>4, <1>11, <1>12, <1>13

\* A vote is given in this term only, to the node the vote is persisted for.
LEMMA FollowerCampaignMoves ==
  ASSUME NEW i \in Server, NEW n \in StaticNode(i), n.role.kind = "Follower",
         NEW m \in Mail(i), m.term = n.log.term, NEW K
  PROVE  Moves(i, n, K, FollowerCampaign(n, m))
<1> DEFINE grant == n.log.vote \in {Nil, m.from} /\ LogOk(n, m.message)
           l == SetTermVote(n.log, m.term, m.from)
           k == [n EXCEPT !.log = l]
           yes == [type |-> "CampaignResponse", vote |-> TRUE]
           no == [type |-> "CampaignResponse", vote |-> FALSE]
<1>1. m.from \in Server /\ m.term \in Nat
  BY DEF Mail
<1>2. yes \in StaticMessage /\ no \in StaticMessage /\ ~no.vote
  BY DEF StaticMessage
<1>3. CASE grant
  <2>1. l \in StaticLog /\ l.term = n.log.term /\ l.vote = m.from
    <3>1. n.log \in StaticLog /\ m.from \in Server \cup {Nil}
      BY <1>1, FieldTypes
    <3> QED BY <1>1, <3>1, SetTermVoteType
  <2> HIDE DEF l
  <2>2. k \in StaticNode(i) /\ k.log = l /\ k.role = n.role
    BY <2>1, SetLog
  <2> DEFINE e == Env(k, m.from, yes)
             r == Done(k, {e})
  <2>3. FollowerCampaign(n, m) = r
    BY <1>3 DEF FollowerCampaign, l
  <2> HIDE DEF k
  <2>4. e \in StaticEnv(i) /\ e.to = m.from /\ e.term = l.term
    <3> HIDE DEF yes
    <3> QED BY <1>1, <1>2, <2>2, EnvType
  <2> HIDE DEF e
  <2>5. r \in Outcome(i) /\ r.n = k /\ r.out = {e}
    BY <2>2, <2>4 DEF Done, Outcome
  <2> HIDE DEF r
  <2>6. n.log.vote \in {Nil, m.from} /\ n.log.term \in Nat
    BY <1>3, FieldTypes
  <2>7. r.n.role.kind = "Follower" /\ r.n.log = l
    BY <2>2, <2>5
  <2> QED BY <2>1, <2>3, <2>4, <2>5, <2>6, <2>7 DEF Moves, Elective
<1>4. CASE ~grant
  <2> DEFINE e == Env(n, m.from, no)
  <2>1. FollowerCampaign(n, m) = Done(n, {e})
    BY <1>4 DEF FollowerCampaign
  <2>2. {e} \in SUBSET StaticEnv(i) /\ Quiet({e})
    <3> HIDE DEF no
    <3> QED BY <1>1, <1>2, One
  <2> HIDE DEF e
  <2>3. Knows(i, n, K)
    BY DEF Knows, Elective
  <2> QED BY <2>1, <2>2, <2>3, StaysMoves
<1> QED BY <1>3, <1>4

\* Follower::step.
LEMMA FollowerStepMoves ==
  ASSUME NEW i \in Server, NEW n \in StaticNode(i), n.role.kind = "Follower",
         NEW m \in Mail(i), m.term = n.log.term, NEW K
  PROVE  Moves(i, n, K, FollowerStep(n, m))
<1> DEFINE t == m.message.type
           r == FollowerStep(n, m)
<1>1. ASSUME Follows(i, n, r)
      PROVE  Moves(i, n, K, r)
  <2> HIDE DEF r
  <2>1. Keeps(i, n, r) /\ ~Elective(r.n) /\ r.n.role.kind # "Leader"
    BY <1>1 DEF Follows, Elective
  <2> QED BY <2>1, KeepsMoves
<1>2. CASE t = "Heartbeat"
  <2>1. r = FollowerHeartbeat(n, m)
    BY <1>2 DEF FollowerStep
  <2> QED BY <1>1, <1>2, <2>1, FollowerHeartbeatType
<1>3. CASE t = "Append"
  <2>1. r = FollowerAppend(n, m)
    BY <1>3 DEF FollowerStep
  <2> QED BY <1>1, <1>3, <2>1, FollowerAppendType
<1>4. CASE t = "Read"
  <2>1. r = FollowerRead(n, m)
    BY <1>4 DEF FollowerStep
  <2> QED BY <1>1, <1>4, <2>1, FollowerReadType
<1>5. CASE t = "Campaign"
  <2>1. r = FollowerCampaign(n, m)
    BY <1>5 DEF FollowerStep
  <2> QED BY <2>1, FollowerCampaignMoves
<1>6. CASE t = "ClientRequest"
  <2>1. r = FollowerClientRequest(n, m)
    BY <1>6 DEF FollowerStep
  <2> QED BY <1>1, <1>6, <2>1, FollowerClientRequestType
<1>7. CASE t = "ClientResponse"
  <2>1. r = FollowerClientResponse(n, m)
    BY <1>7 DEF FollowerStep
  <2> QED BY <1>1, <1>7, <2>1, FollowerClientResponseType
<1>8. CASE t = "InstallSnapshot"
  <2>1. r = FollowerInstallSnapshot(n, m)
    BY <1>8 DEF FollowerStep
  <2> QED BY <1>1, <1>8, <2>1, FollowerInstallSnapshotType
<1>9. CASE t \in {"CampaignResponse", "InstallSnapshotResponse"}
  <2>1. r = Done(n, {})
    BY <1>9 DEF FollowerStep
  <2> QED BY <1>1, <2>1, FollowsNothing
<1>10. CASE t \notin {"Heartbeat", "Append", "Read", "Campaign", "ClientRequest",
                     "ClientResponse", "InstallSnapshot", "CampaignResponse",
                     "InstallSnapshotResponse"}
  <2>1. r = Panic(n, "follower received unexpected message")
    BY <1>10 DEF FollowerStep
  <2>2. "follower received unexpected message" \in Reasons /\ SameBallot(n.log, n.log)
    BY DEF Reasons, SameBallot
  <2> QED BY <1>1, <2>1, <2>2, FollowsPanic
<1> HIDE DEF r
<1> QED BY <1>2, <1>3, <1>4, <1>5, <1>6, <1>7, <1>8, <1>9, <1>10

-----------------------------------------------------------------------------
(* Pre-votes and candidates.                                               *)

\* An office entered with the ballots of a quorum.
LEMMA OfficeMoves ==
  ASSUME NEW i \in Server, NEW n \in StaticNode(i), NEW k \in StaticNode(i),
         k.log.term >= n.log.term,
         k.log.term = n.log.term /\ n.log.vote # Nil => k.log.vote = n.log.vote,
         NEW K, NEW Q \in SUBSET Server, Majority(Server, Q),
         \A v \in Q : Backed(i, k, K, v),
         NEW out \in SUBSET StaticEnv(i), Quiet(out)
  PROVE  /\ Moves(i, n, K, IntoLeader(k))
         /\ Moves(i, n, K, After(out, IntoLeader(k)))
<1> DEFINE r == IntoLeader(k)
           a == After(out, r)
<1>1. Leading(i, k, r)
  BY IntoLeaderType
<1> HIDE DEF r
<1>2. Keeps(i, k, r) /\ Keeps(i, k, a) /\ a.n = r.n
  BY <1>1, AfterType DEF Leading
<1> HIDE DEF a
<1>3. ASSUME NEW x, Keeps(i, k, x), x.n = r.n
      PROVE  Moves(i, n, K, x)
  <2>1. x.n.log.term = k.log.term /\ x.n.log.vote = k.log.vote
    BY <1>3 DEF Keeps, SameBallot
  <2>2. \A v \in Q : Backed(i, x.n, K, v)
    BY <2>1 DEF Backed
  <2>3. x \in Outcome(i) /\ Quiet(x.out) /\ ~Elective(x.n)
    BY <1>1, <1>3 DEF Keeps, Leading, Elective
  <2> QED BY <2>1, <2>2, <2>3 DEF Moves, Quiet
<1> QED BY <1>2, <1>3 DEF r, a

\* A pre-vote leaves the node as it is.
LEMMA PreCampaignMoves ==
  ASSUME NEW i \in Server, NEW n \in StaticNode(i), NEW m \in Mail(i),
         NEW K, Knows(i, n, K)
  PROVE  Moves(i, n, K, PreCampaignStep(n, m))
<1> DEFINE vote == /\ n.role.kind # "Leader"
                   /\ n.role.kind = "Follower" => n.role.leader = Nil
                   /\ LogOk(n, m.message)
                   /\ m.term > Term(n)
           yes == [type |-> "PreCampaignResponse", vote |-> TRUE]
           no == [type |-> "PreCampaignResponse", vote |-> FALSE]
<1>1. /\ yes \in StaticMessage /\ no \in StaticMessage
      /\ yes.type # "CampaignResponse" /\ no.type # "CampaignResponse"
  BY DEF StaticMessage
<1>2. m.from \in Server
  BY DEF Mail
<1>3. CASE vote
  <2>1. PreCampaignStep(n, m) = Done(n, {Env(n, m.from, yes)})
    BY <1>3 DEF PreCampaignStep
  <2> HIDE DEF yes
  <2>2. {Env(n, m.from, yes)} \in SUBSET StaticEnv(i) /\ Quiet({Env(n, m.from, yes)})
    BY <1>1, <1>2, One
  <2> QED BY <2>1, <2>2, StaysMoves
<1>4. CASE ~vote
  <2>1. PreCampaignStep(n, m) = Done(n, {Env(n, m.from, no)})
    BY <1>4 DEF PreCampaignStep
  <2> HIDE DEF no
  <2>2. {Env(n, m.from, no)} \in SUBSET StaticEnv(i) /\ Quiet({Env(n, m.from, no)})
    BY <1>1, <1>2, One
  <2> QED BY <2>1, <2>2, StaysMoves
<1> QED BY <1>3, <1>4

\* A candidate that has counted one more vote.
LEMMA VotesOf ==
  ASSUME NEW i \in Server, NEW n \in StaticNode(i), n.role.kind = "Candidate"
  PROVE  /\ n.role.votes \in SUBSET Server
         /\ n.role.phase \in {"PreVote", "Election"}
         /\ n.role \in CandidateType
<1>1. n.role \in Role(i)
  BY FieldTypes
<1>2. n.role \in CandidateType
  BY <1>1 DEF Role, FollowerType, Lead, LeaderType, PanickedType
<1> QED BY <1>2 DEF CandidateType

\* ... and the candidate with other votes.
WithVotes(n, V) == [n EXCEPT !.role.votes = V]

LEMMA SetVotes ==
  ASSUME NEW i \in Server, NEW n \in StaticNode(i), n.role.kind = "Candidate",
         NEW V \in SUBSET Server
  PROVE  LET c == WithVotes(n, V)
         IN /\ c \in StaticNode(i) /\ c.log = n.log /\ c.sm = n.sm
            /\ c.role.kind = "Candidate" /\ c.role.phase = n.role.phase
            /\ c.role.votes = V
<1> DEFINE x == [n.role EXCEPT !.votes = V]
           c == WithVotes(n, V)
<1>1. n.role \in CandidateType
  BY VotesOf
<1>2. x \in CandidateType /\ x.kind = "Candidate" /\ x.phase = n.role.phase
      /\ x.votes = V
  BY <1>1 DEF CandidateType
<1>3. c = [n EXCEPT !.role = x]
  BY DEF WithVotes
<1> HIDE DEF x, c
<1>4. x \in Role(i)
  BY <1>2 DEF Role
<1>5. /\ [n EXCEPT !.role = x] \in StaticNode(i)
      /\ [n EXCEPT !.role = x].log = n.log /\ [n EXCEPT !.role = x].role = x
      /\ [n EXCEPT !.role = x].sm = n.sm
  BY <1>4, SetRole
<1>6. c \in StaticNode(i) /\ c.log = n.log /\ c.role = x /\ c.sm = n.sm
  BY <1>3, <1>5
<1> QED BY <1>2, <1>6 DEF c

\* A node for which its candidacy has a quorum.
LEMMA QuorumOf ==
  ASSUME NEW i \in Server, NEW k \in StaticNode(i), QuorumReached(k)
  PROVE  Majority(Server, k.role.votes)
BY PeersOf DEF QuorumReached

\* Nothing sent is quiet.
LEMMA NoOut == \A i \in Server : {} \in SUBSET StaticEnv(i) /\ Quiet({})
BY DEF Quiet

\* Pre-votes only ever lead to an election, with a vote for the node itself.
LEMMA PreCampaignResponseMoves ==
  ASSUME NEW i \in Server, NEW n \in StaticNode(i), NEW m \in Mail(i),
         NEW K, Knows(i, n, K)
  PROVE  Moves(i, n, K, PreCampaignResponseStep(n, m))
<1> DEFINE asks == /\ n.role.kind = "Candidate"
                   /\ n.role.phase = "PreVote"
                   /\ m.message.vote
           V == n.role.votes \cup ({m.from} \cap AllVoters(n.mem.active))
           c == [n EXCEPT !.role.votes = V]
           e == Campaign(c)
<1>1. PreCampaignResponseStep(n, m) =
        IF ~asks THEN Done(n, {})
        ELSE IF ~QuorumReached(c) THEN Done(c, {})
        ELSE IF QuorumReached(e.n)
          THEN IF e.n.role.kind = "Panicked" THEN e ELSE After(e.out, IntoLeader(e.n))
        ELSE e
  BY DEF PreCampaignResponseStep, Then
<1>2. Moves(i, n, K, Done(n, {}))
  BY NoOut, StaysMoves
<1>3. CASE asks
  <2>1. V \in SUBSET Server
    <3>1. n.role.votes \in SUBSET Server /\ AllVoters(n.mem.active) = Server
      BY <1>3, VotesOf, PeersOf
    <3> QED BY <3>1
  <2> HIDE DEF V
  <2>2. c \in StaticNode(i) /\ c.log = n.log /\ c.role.kind = "Candidate"
        /\ c.role.phase = "PreVote"
    <3>1. c = WithVotes(n, V)
      BY DEF WithVotes
    <3> HIDE DEF c
    <3> QED BY <1>3, <2>1, <3>1, SetVotes
  <2> HIDE DEF c
  <2>3. Moves(i, n, K, Done(c, {}))
    <3>1. Keeps(i, n, Done(c, {})) /\ Done(c, {}).n = c
      <4>1. SameBallot(n.log, c.log) /\ {} \in SUBSET StaticEnv(i) /\ Quiet({})
        BY <2>2, NoOut DEF SameBallot
      <4> QED BY <2>2, <4>1, DoneType
    <3>2. ~Elective(c)
      BY <2>2 DEF Elective
    <3> QED BY <2>2, <3>1, <3>2, KeepsMoves
  <2>4. Runs(i, c, e)
    BY <2>2, CampaignType
  <2>5. Runs(i, n, e)
    BY <2>2, <2>4 DEF Runs
  <2> HIDE DEF e
  <2>6. Moves(i, n, K, e)
    BY <2>5, RunsMoves
  <2>7. ASSUME QuorumReached(e.n)
        PROVE  Moves(i, n, K, After(e.out, IntoLeader(e.n)))
    <3>1. e.n \in StaticNode(i) /\ e.out \in SUBSET StaticEnv(i) /\ Quiet(e.out)
      BY <2>5 DEF Runs, Outcome
    <3>2. n.log.term \in Nat /\ e.n.log.term = n.log.term + 1 /\ e.n.log.vote = i
      BY <2>5, FieldTypes DEF Runs
    <3>3. e.n.role.votes = {i}
      BY <2>5 DEF Runs, Candidate
    <3>4. Majority(Server, {i})
      BY <2>7, <3>1, <3>3, QuorumOf
    <3>5. \A v \in {i} : Backed(i, e.n, K, v)
      BY <3>2 DEF Backed
    <3>6. {i} \in SUBSET Server /\ e.n.log.term >= n.log.term
          /\ e.n.log.term # n.log.term
      BY <3>2
    <3> QED BY <3>1, <3>4, <3>5, <3>6, OfficeMoves
  <2> QED BY <1>1, <1>2, <1>3, <2>3, <2>6, <2>7
<1>4. CASE ~asks
  BY <1>1, <1>2, <1>4
<1> QED BY <1>3, <1>4

\* A vote that arrives is counted; with a quorum the candidate leads.
LEMMA CandidateCampaignResponseMoves ==
  ASSUME NEW i \in Server, NEW n \in StaticNode(i), n.role.kind = "Candidate",
         NEW m \in Mail(i), m.term = n.log.term,
         m.message.type = "CampaignResponse",
         NEW K, Knows(i, n, K), Carried(m, K)
  PROVE  Moves(i, n, K, CandidateCampaignResponse(n, m))
<1> DEFINE counts == n.role.phase = "Election" /\ m.message.vote
           V == n.role.votes \cup ({m.from} \cap AllVoters(n.mem.active))
           c == [n EXCEPT !.role.votes = V]
<1>1. CandidateCampaignResponse(n, m) =
        IF ~counts THEN Done(n, {})
        ELSE IF QuorumReached(c) THEN IntoLeader(c) ELSE Done(c, {})
  BY DEF CandidateCampaignResponse
<1>2. CASE counts
  <2>1. V \in SUBSET Server /\ V \subseteq n.role.votes \cup {m.from}
    <3>1. n.role.votes \in SUBSET Server /\ AllVoters(n.mem.active) = Server
      BY VotesOf, PeersOf
    <3> QED BY <3>1
  <2> HIDE DEF V
  <2>2. c \in StaticNode(i) /\ c.log = n.log /\ c.role.kind = "Candidate"
        /\ c.role.phase = "Election" /\ c.role.votes = V
    <3>1. c = WithVotes(n, V)
      BY DEF WithVotes
    <3> HIDE DEF c
    <3> QED BY <1>2, <2>1, <3>1, SetVotes
  <2> HIDE DEF c
  <2>3. \A v \in V : Backed(i, c, K, v)
    <3>1. m.to = i
      BY DEF Mail
    <3>2. [voter |-> m.from, term |-> n.log.term, vote |-> i] \in K
      BY <1>2, <3>1 DEF Carried, Granted
    <3>3. \A v \in n.role.votes : [voter |-> v, term |-> n.log.term, vote |-> i] \in K
      BY <1>2 DEF Knows, Elective
    <3> QED BY <2>1, <2>2, <3>2, <3>3 DEF Backed
  <2>4. {} \in SUBSET StaticEnv(i) /\ Quiet({}) /\ SameBallot(n.log, c.log)
        /\ n.log.term \in Nat
    BY <2>2, NoOut, FieldTypes DEF SameBallot
  <2>5. Moves(i, n, K, Done(c, {}))
    <3> DEFINE r == Done(c, {})
    <3>1. Keeps(i, n, r) /\ r.n = c
      BY <2>2, <2>4, DoneType
    <3> HIDE DEF r
    <3>2. r.n.log.term = n.log.term /\ r.n.log.vote = n.log.vote
          /\ r.n.role.kind # "Leader"
      BY <2>2, <3>1
    <3>3. \A v \in r.n.role.votes : Backed(i, r.n, K, v)
      BY <2>2, <2>3, <3>1
    <3>4. Moves(i, n, K, r)
      BY <2>4, <3>1, <3>2, <3>3 DEF Moves, Keeps, Quiet
    <3> QED BY <3>4 DEF r
  <2>6. ASSUME QuorumReached(c)
        PROVE  Moves(i, n, K, IntoLeader(c))
    <3>1. Majority(Server, V)
      BY <2>2, <2>6, QuorumOf
    <3>2. c.log.term >= n.log.term /\ c.log.vote = n.log.vote
      BY <2>2, <2>4
    <3> QED BY <2>1, <2>2, <2>3, <2>4, <3>1, <3>2, OfficeMoves
  <2> QED BY <1>1, <1>2, <2>5, <2>6
<1>3. CASE ~counts
  <2>1. Moves(i, n, K, Done(n, {}))
    BY NoOut, StaysMoves
  <2> QED BY <1>1, <1>3, <2>1
<1> QED BY <1>2, <1>3

\* Candidate::step.
LEMMA CandidateStepMoves ==
  ASSUME NEW i \in Server, NEW n \in StaticNode(i), n.role.kind = "Candidate",
         NEW m \in Mail(i), m.term = n.log.term,
         NEW K, Knows(i, n, K), Carried(m, K)
  PROVE  Moves(i, n, K, CandidateStep(n, m))
<1> DEFINE t == m.message.type
           r == CandidateStep(n, m)
           no == [type |-> "CampaignResponse", vote |-> FALSE]
<1>1. m.from \in Server /\ m.message \in StaticMessage
  BY DEF Mail
<1>2. CASE t = "CampaignResponse"
  <2>1. r = CandidateCampaignResponse(n, m)
    BY <1>2 DEF CandidateStep
  <2> QED BY <1>2, <2>1, CandidateCampaignResponseMoves
<1>3. CASE t = "Campaign"
  <2>1. r = Done(n, {Env(n, m.from, no)})
    BY <1>3 DEF CandidateStep
  <2>2. no \in StaticMessage /\ ~no.vote
    BY DEF StaticMessage
  <2> HIDE DEF no
  <2>3. {Env(n, m.from, no)} \in SUBSET StaticEnv(i) /\ Quiet({Env(n, m.from, no)})
    BY <1>1, <2>2, One
  <2> QED BY <2>1, <2>3, StaysMoves
<1>4. CASE t = "ClientRequest"
  <2> DEFINE e == Abort(n, m.from, m.message.request.id)
  <2>1. r = Done(n, {e})
    BY <1>4 DEF CandidateStep
  <2>2. m.message.request.id \in Ids
    BY <1>1, <1>4, MessageFields
  <2>3. {e} \in SUBSET StaticEnv(i) /\ Quiet({e})
    BY <1>1, <2>2, AbortType DEF Quiet
  <2> HIDE DEF e
  <2> QED BY <2>1, <2>3, StaysMoves
<1>5. CASE t = "InstallSnapshotResponse"
  <2>1. r = Done(n, {})
    BY <1>5 DEF CandidateStep
  <2> QED BY <2>1, NoOut, StaysMoves
<1>6. CASE t \notin {"CampaignResponse", "Campaign", "ClientRequest",
                    "InstallSnapshotResponse"}
  <2>1. r = Panic(n, "unexpected message")
    BY <1>6 DEF CandidateStep
  <2>2. "unexpected message" \in Reasons
    BY DEF Reasons
  <2> HIDE DEF r
  <2>3. Keeps(i, n, r) /\ r.n.role.kind = "Panicked"
    BY <2>1, <2>2, PanicType DEF Leading
  <2>4. ~Elective(r.n) /\ r.n.role.kind # "Leader"
    BY <2>3 DEF Elective
  <2>5. Moves(i, n, K, r)
    BY <2>3, <2>4, KeepsMoves
  <2> QED BY <2>5 DEF r
<1> HIDE DEF r
<1> QED BY <1>2, <1>3, <1>4, <1>5, <1>6

-----------------------------------------------------------------------------
(* Leader::step.                                                           *)

\* A message that a leader ignores.
LEMMA LeadNothing ==
  ASSUME NEW i \in Server, NEW n \in StaticNode(i), n.role.kind = "Leader"
  PROVE  Leading(i, n, Done(n, {}))
<1>1. {} \in SUBSET StaticEnv(i) /\ Quiet({}) /\ SameBallot(n.log, n.log)
  BY NoOut DEF SameBallot
<1> QED BY <1>1, LeadDone

\* maybe_send_append to one peer.
LEMMA SendToType ==
  ASSUME NEW i \in Server, NEW n \in StaticNode(i), n.role.kind = "Leader",
         NEW p, NEW probe \in BOOLEAN
  PROVE  Leading(i, n, SendTo(n, p, probe))
<1> DEFINE P == {p} \cap DOMAIN n.role.progress
<1>1. n.role.progress \in [Server \ {i} -> ProgressType]
  BY LeadTypes
<1>2. P \in SUBSET (Server \ {i})
  BY <1>1
<1>3. SendTo(n, p, probe) = MaybeSendAppend(n, P, probe)
  BY DEF SendTo
<1> HIDE DEF P
<1> QED BY <1>2, <1>3, MaybeSendAppendType

\* The progress of one peer replaced.
LEMMA SetProgress ==
  ASSUME NEW i \in Server, NEW n \in StaticNode(i), n.role.kind = "Leader",
         NEW p \in Server \ {i}, NEW x \in ProgressType
  PROVE  /\ [n EXCEPT !.role.progress[p] = x] \in StaticNode(i)
         /\ [n EXCEPT !.role.progress[p] = x].log = n.log
         /\ [n EXCEPT !.role.progress[p] = x].role.kind = "Leader"
<1> DEFINE y == [n.role EXCEPT !.progress[p] = x]
<1>1. y \in Lead(i) /\ [n EXCEPT !.role.progress[p] = x] = [n EXCEPT !.role = y]
  BY SetLead
<1> HIDE DEF y
<1>2. /\ [n EXCEPT !.role = y] \in StaticNode(i)
      /\ [n EXCEPT !.role = y].log = n.log
      /\ [n EXCEPT !.role = y].role.kind = "Leader"
  BY <1>1, LeadRole
<1> QED BY <1>1, <1>2

\* ... and a probe sent to it.
LEMMA ProbeType ==
  ASSUME NEW i \in Server, NEW n \in StaticNode(i), n.role.kind = "Leader",
         NEW p \in Server \ {i}, NEW x \in ProgressType
  PROVE  Leading(i, n, SendTo([n EXCEPT !.role.progress[p] = x], p, TRUE))
<1> DEFINE k == [n EXCEPT !.role.progress[p] = x]
           b == SendTo(k, p, TRUE)
<1>1. k \in StaticNode(i) /\ k.log = n.log /\ k.role.kind = "Leader"
  BY SetProgress
<1> HIDE DEF k
<1>2. TRUE \in BOOLEAN
  OBVIOUS
<1>3. Leading(i, k, b)
  BY <1>1, <1>2, SendToType, Zenon
<1>4. Leading(i, n, b)
  BY <1>1, <1>3 DEF Leading, Keeps
<1> QED BY <1>4 DEF k

\* The Progress of a peer.
LEMMA ProgressOf ==
  ASSUME NEW i \in Server, NEW n \in StaticNode(i), n.role.kind = "Leader",
         NEW p \in Server \ {i}
  PROVE  n.role.progress[p] \in ProgressType
<1>1. n.role.progress \in [Server \ {i} -> ProgressType]
  BY LeadTypes
<1> QED BY <1>1

\* A commit attempt and a further call.
LEMMA CommitLead ==
  ASSUME NEW i \in Server, NEW n \in StaticNode(i), n.role.kind = "Leader",
         NEW c, Commits(i, n, c), NEW q, Leading(i, c.n, q)
  PROVE  Leading(i, n, Finish(IF Flagless(c).n.role.kind = "Panicked"
                              THEN Flagless(c)
                              ELSE After(Flagless(c).out, q), c.down))
<1> DEFINE f == Flagless(c)
           r == IF f.n.role.kind = "Panicked" THEN f ELSE After(f.out, q)
<1>1. Leading(i, n, f) /\ f.n = c.n
  BY DEF Commits, Flagless, Done
<1> HIDE DEF f
<1>2. Leading(i, n, r)
  BY <1>1, ThenLead
<1> HIDE DEF r
<1>3. Finish(r, c.down) = r
  BY DEF Finish, Commits
<1> QED BY <1>2, <1>3 DEF r, f

\* Advance of one peer's match index, a commit attempt if it moved, then
\* nothing more, or a further append to that peer.
LEMMA AdvanceLead ==
  ASSUME NEW i \in Server, NEW n \in StaticNode(i), n.role.kind = "Leader",
         NEW p \in Server \ {i}, NEW match \in Nat
  PROVE  LET k == [n EXCEPT !.role.progress[p] =
                     Advance(n.role.progress[p], match)]
         IN Commits(i, n, MaybeCommitAndApply(k))
<1> DEFINE x == Advance(n.role.progress[p], match)
           k == [n EXCEPT !.role.progress[p] = x]
<1>1. x \in ProgressType
  BY ProgressOf, ProgressTypes
<1> HIDE DEF x
<1>2. k \in StaticNode(i) /\ k.log = n.log /\ k.role.kind = "Leader"
  BY <1>1, SetProgress
<1> HIDE DEF k
<1>3. Commits(i, k, MaybeCommitAndApply(k))
  BY <1>2, MaybeCommitAndApplyType
<1>4. Commits(i, n, MaybeCommitAndApply(k))
  BY <1>2, <1>3 DEF Commits, Leading, Keeps
<1> QED BY <1>4 DEF k, x

\* An advance with no further append.
LEMMA AdvanceStay ==
  ASSUME NEW i \in Server, NEW n \in StaticNode(i), n.role.kind = "Leader",
         NEW p \in Server \ {i}, NEW match \in Nat
  PROVE  Leading(i, n, AdvanceThen(n, p, match, Stay))
<1> DEFINE k == [n EXCEPT !.role.progress[p] =
                   Advance(n.role.progress[p], match)]
           c == MaybeCommitAndApply(k)
           q == Done(c.n, {})
           r == Finish(IF Flagless(c).n.role.kind = "Panicked" THEN Flagless(c)
                       ELSE After(Flagless(c).out, q), c.down)
<1>1. Commits(i, n, c)
  BY AdvanceLead
<1>2. AdvanceThen(n, p, match, Stay) =
        IF match <= n.role.progress[p].match THEN Done(n, {}) ELSE r
  <2>1. Flagless(c).n = c.n
    BY DEF Flagless, Done
  <2> QED BY <2>1 DEF AdvanceThen, CommitThen, FinishCommit, Then, Stay
<1> HIDE DEF c
<1>3. Leading(i, c.n, q)
  BY <1>1, LeadNothing DEF Commits, Leading, Keeps, Outcome, Flagless, Done
<1>4. Leading(i, n, r)
  BY <1>1, <1>3, CommitLead
<1>5. Leading(i, n, Done(n, {}))
  BY LeadNothing
<1> QED BY <1>2, <1>4, <1>5

\* An advance and a further append.
LEMMA AdvanceSend ==
  ASSUME NEW i \in Server, NEW n \in StaticNode(i), n.role.kind = "Leader",
         NEW p \in Server \ {i}, NEW match \in Nat
  PROVE  Leading(i, n, AdvanceAndSend(n, p, match))
<1> DEFINE k == [n EXCEPT !.role.progress[p] =
                   Advance(n.role.progress[p], match)]
           c == MaybeCommitAndApply(k)
           q == SendTo(c.n, p, FALSE)
           r == Finish(IF Flagless(c).n.role.kind = "Panicked" THEN Flagless(c)
                       ELSE After(Flagless(c).out, q), c.down)
<1>1. Commits(i, n, c)
  BY AdvanceLead
<1>2. AdvanceAndSend(n, p, match) =
        IF match <= n.role.progress[p].match THEN SendTo(n, p, FALSE) ELSE r
  <2>1. Flagless(c).n = c.n
    BY DEF Flagless, Done
  <2> QED BY <2>1 DEF AdvanceAndSend, AdvanceThen, CommitThen, FinishCommit, Then
<1> HIDE DEF c
<1>3. FALSE \in BOOLEAN
  OBVIOUS
<1>4. Leading(i, c.n, q)
  <2>1. c.n \in StaticNode(i) /\ c.n.role.kind = "Leader"
    BY <1>1 DEF Commits, Leading, Keeps, Outcome, Flagless, Done
  <2> QED BY <1>3, <2>1, SendToType, Zenon
<1>5. Leading(i, n, r)
  BY <1>1, <1>4, CommitLead
<1>6. Leading(i, n, SendTo(n, p, FALSE))
  BY <1>3, SendToType, Zenon
<1> QED BY <1>2, <1>5, <1>6

\* Advance of one peer's read sequence number.
LEMMA AdvanceReadType ==
  ASSUME NEW i \in Server, NEW n \in StaticNode(i), n.role.kind = "Leader",
         NEW p \in Server \ {i}, NEW seq \in Nat
  PROVE  Leading(i, n, AdvanceRead(n, p, seq))
<1> DEFINE x == [n.role.progress[p] EXCEPT !.read = seq]
           k == [n EXCEPT !.role.progress[p] = x]
<1>1. x \in ProgressType
  <2>1. n.role.progress[p] \in ProgressType
    BY ProgressOf
  <2> QED BY <2>1 DEF ProgressType
<1>2. AdvanceRead(n, p, seq) \in {Done(n, {}), MaybeRead(k)}
  BY DEF AdvanceRead
<1> HIDE DEF x
<1>3. k \in StaticNode(i) /\ k.log = n.log /\ k.role.kind = "Leader"
  BY <1>1, SetProgress
<1> HIDE DEF k
<1>4. Leading(i, k, MaybeRead(k))
  BY <1>3, MaybeReadType
<1>5. Leading(i, n, MaybeRead(k))
  BY <1>3, <1>4 DEF Leading, Keeps
<1>6. Leading(i, n, Done(n, {}))
  BY LeadNothing
<1> QED BY <1>2, <1>5, <1>6

\* HeartbeatResponse keeps the ballot of the leader, or panics.
LEMMA LeaderHeartbeatResponseType ==
  ASSUME NEW i \in Server, NEW n \in StaticNode(i), n.role.kind = "Leader",
         NEW m \in Mail(i), m.message.type = "HeartbeatResponse",
         m.from \in Server \ {i}
  PROVE  Leading(i, n, LeaderHeartbeatResponse(n, m))
<1> DEFINE h == m.message
           p == m.from
           read == AdvanceRead(n, p, h.read_seq)
           back == RegressNext(read.n.role.progress[p], LastIndex(n.log))
           k == [read.n EXCEPT !.role.progress[p] = back]
           q == SendTo(k, p, TRUE)
           a == AdvanceThen(read.n, p, h.match_index, Stay)
           stop == "future match index or read sequence number"
<1>1. h \in StaticMessage
  BY DEF Mail
<1>2. h.match_index \in Nat /\ h.read_seq \in Nat
  BY <1>1, MessageFields
<1>3. LeaderHeartbeatResponse(n, m) \in
        {IF read.n.role.kind = "Panicked" THEN read ELSE After(read.out, q),
         IF read.n.role.kind = "Panicked" THEN read ELSE After(read.out, a),
         Panic(n, stop)}
  BY DEF LeaderHeartbeatResponse, Then
<1>4. Leading(i, n, read)
  BY <1>2, AdvanceReadType
<1> HIDE DEF read
<1>5. read.n \in StaticNode(i)
  BY <1>4 DEF Leading, Keeps, Outcome
<1>6. ASSUME read.n.role.kind = "Leader"
      PROVE  Leading(i, read.n, q)
  <2>1. LastIndex(n.log) \in Nat
    BY FieldTypes, IndexTypes
  <2>2. back \in ProgressType
    <3>1. read.n.role.progress[p] \in ProgressType
      BY <1>5, <1>6, ProgressOf
    <3> QED BY <2>1, <3>1, ProgressTypes
  <2> HIDE DEF back
  <2>3. p \in Server \ {i}
    OBVIOUS
  <2> HIDE DEF p
  <2> QED BY <1>5, <1>6, <2>2, <2>3, ProbeType, Zenon
<1>7. ASSUME read.n.role.kind = "Leader"
      PROVE  Leading(i, read.n, a)
  BY <1>2, <1>5, <1>7, AdvanceStay
<1> HIDE DEF q, a, stop
<1>8. /\ Leading(i, n, IF read.n.role.kind = "Panicked" THEN read
                       ELSE After(read.out, q))
      /\ Leading(i, n, IF read.n.role.kind = "Panicked" THEN read
                       ELSE After(read.out, a))
  BY <1>4, <1>6, <1>7, ThenLead
<1>9. Leading(i, n, Panic(n, stop))
  <2>1. stop \in Reasons
    BY DEF stop, Reasons
  <2> QED BY <2>1, PanicType
<1> QED BY <1>3, <1>8, <1>9

\* AppendResponse keeps the ballot of the leader, or panics.
LEMMA LeaderAppendResponseType ==
  ASSUME NEW i \in Server, NEW n \in StaticNode(i), n.role.kind = "Leader",
         NEW m \in Mail(i), m.message.type = "AppendResponse",
         m.from \in Server \ {i}
  PROVE  Leading(i, n, LeaderAppendResponse(n, m))
<1> DEFINE x == m.message
           p == m.from
           pr == n.role.progress[p]
           back == RegressNext(pr, x.reject_index)
           a == AdvanceAndSend(n, p, x.match_index)
           k == [n EXCEPT !.role.progress[p] = back]
           b == SendTo(k, p, TRUE)
<1>1. x \in StaticMessage
  BY DEF Mail
<1>2. x.match_index \in Nat /\ x.reject_index \in Nat
  BY <1>1, MessageFields
<1>3. LeaderAppendResponse(n, m) \in
        {a, Panic(n, "future match index"), Panic(n, "future reject index"),
         Done(n, {}), b, Panic(n, "invalid message")}
  <2> DEFINE R == LeaderAppendResponse(n, m)
  <2>1. CASE x.match_index > 0 /\ x.reject_index = 0
    <3>1. ~(x.match_index = 0 /\ x.reject_index > 0)
      BY <2>1
    <3>2. R = IF x.match_index <= LastIndex(n.log) THEN a
              ELSE Panic(n, "future match index")
      BY <2>1, <3>1 DEF LeaderAppendResponse
    <3> HIDE DEF a, b, R
    <3> QED BY <3>2 DEF R
  <2>2. CASE x.match_index = 0 /\ x.reject_index > 0
    <3>1. ~(x.match_index > 0 /\ x.reject_index = 0)
      BY <2>2
    <3>2. R = IF x.reject_index > LastIndex(n.log)
                THEN Panic(n, "future reject index")
              ELSE IF x.reject_index <= pr.match \/ back = pr THEN Done(n, {})
              ELSE b
      BY <2>2, <3>1 DEF LeaderAppendResponse
    <3> HIDE DEF a, b, R
    <3> QED BY <3>2 DEF R
  <2>3. CASE /\ ~(x.match_index > 0 /\ x.reject_index = 0)
             /\ ~(x.match_index = 0 /\ x.reject_index > 0)
    <3>1. R = Panic(n, "invalid message")
      BY <2>3 DEF LeaderAppendResponse
    <3> HIDE DEF a, b, R
    <3> QED BY <3>1 DEF R
  <2> QED BY <2>1, <2>2, <2>3
<1>4. Leading(i, n, a)
  BY <1>2, AdvanceSend
<1>5. Leading(i, n, b)
  <2>1. back \in ProgressType
    BY <1>2, ProgressOf, ProgressTypes
  <2> HIDE DEF back
  <2> QED BY <2>1, ProbeType
<1> HIDE DEF a, b
<1>6. /\ Leading(i, n, Panic(n, "future match index"))
      /\ Leading(i, n, Panic(n, "future reject index"))
      /\ Leading(i, n, Panic(n, "invalid message"))
  <2>1. {"future match index", "future reject index", "invalid message"}
          \subseteq Reasons
    BY DEF Reasons
  <2> QED BY <2>1, PanicType
<1>7. Leading(i, n, Done(n, {}))
  BY LeadNothing
<1> QED BY <1>3, <1>4, <1>5, <1>6, <1>7

\* InstallSnapshotResponse keeps the ballot of the leader, or panics.
LEMMA LeaderInstallSnapshotResponseType ==
  ASSUME NEW i \in Server, NEW n \in StaticNode(i), n.role.kind = "Leader",
         NEW m \in Mail(i), m.message.type = "InstallSnapshotResponse",
         m.from \in Server \ {i}
  PROVE  Leading(i, n, LeaderInstallSnapshotResponse(n, m))
<1> DEFINE a == AdvanceAndSend(n, m.from, m.message.last_included_index)
<1>1. m.message \in StaticMessage
  BY DEF Mail
<1>2. m.message.last_included_index \in Nat
  BY <1>1, MessageFields
<1>3. Leading(i, n, a)
  BY <1>2, AdvanceSend
<1> QED BY <1>3 DEF LeaderInstallSnapshotResponse

\* No client asks for a change of membership and every node is configured
\* with the whole cluster.
StaticMembership ==
  /\ \A r \in Requests : r.op # "ChangeMembership"
  /\ \A i \in Server : InitVoters[i] = Server

\* A leader's queue of writes replaced.
LEMMA SetWrites ==
  ASSUME NEW i \in Server, NEW n \in StaticNode(i), n.role.kind = "Leader",
         NEW W \in SUBSET WriteType(Ids)
  PROVE  /\ [n EXCEPT !.role.writes = W] \in StaticNode(i)
         /\ [n EXCEPT !.role.writes = W].log = n.log
         /\ [n EXCEPT !.role.writes = W].role.kind = "Leader"
<1> DEFINE y == [n.role EXCEPT !.writes = W]
<1>1. y \in Lead(i)
  BY LeadTypes DEF Lead, LeaderType
<1>2. [n EXCEPT !.role.writes = W] = [n EXCEPT !.role = y]
  OBVIOUS
<1> HIDE DEF y
<1>3. /\ [n EXCEPT !.role = y] \in StaticNode(i)
      /\ [n EXCEPT !.role = y].log = n.log
      /\ [n EXCEPT !.role = y].role.kind = "Leader"
  BY <1>1, LeadRole
<1> QED BY <1>2, <1>3

\* CommitIfAlone: at most a commit attempt.
LEMMA CommitIfAloneType ==
  ASSUME NEW i \in Server, NEW n \in StaticNode(i), n.role.kind = "Leader"
  PROVE  Leading(i, n, CommitIfAlone(n))
<1> DEFINE c == MaybeCommitAndApply(n)
           q == Done(c.n, {})
           r == Finish(IF Flagless(c).n.role.kind = "Panicked" THEN Flagless(c)
                       ELSE After(Flagless(c).out, q), c.down)
<1>1. Commits(i, n, c)
  BY MaybeCommitAndApplyType
<1>2. CommitIfAlone(n) = IF ClusterSize(n) = 1 THEN r ELSE Done(n, {})
  <2>1. Flagless(c).n = c.n
    BY DEF Flagless, Done
  <2> QED BY <2>1 DEF CommitIfAlone, CommitThen, FinishCommit, Then, Stay
<1> HIDE DEF c
<1>3. Leading(i, c.n, q)
  BY <1>1, LeadNothing DEF Commits, Leading, Keeps, Outcome, Flagless, Done
<1>4. Leading(i, n, r)
  BY <1>1, <1>3, CommitLead
<1>5. Leading(i, n, Done(n, {}))
  BY LeadNothing
<1> QED BY <1>2, <1>4, <1>5

\* Write: the entry is proposed and its client queued.
LEMMA LeaderWriteType ==
  ASSUME NEW i \in Server, NEW n \in StaticNode(i), n.role.kind = "Leader",
         NEW m \in Mail(i), m.message.type = "ClientRequest"
  PROVE  Leading(i, n, LeaderWrite(n, m))
<1> DEFINE id == m.message.request.id
           w == [index |-> LastIndex(n.log) + 1, from |-> m.from, id |-> id]
           p == Propose(n, id)
           W == p.n.role.writes \cup {w}
           k == [p.n EXCEPT !.role.writes = W]
           q == CommitIfAlone(k)
<1>1. m.message \in StaticMessage /\ m.from \in Server
  BY DEF Mail
<1>2. id \in Ids
  BY <1>1, MessageFields
<1>3. id \in Cmd
  BY <1>2 DEF Cmd
<1>4. w \in WriteType(Ids)
  <2>1. LastIndex(n.log) \in Nat
    BY FieldTypes, IndexTypes
  <2> QED BY <1>1, <1>2, <2>1 DEF WriteType
<1>5. LeaderWrite(n, m) =
        IF p.n.role.kind = "Panicked" THEN p ELSE After(p.out, q)
  BY DEF LeaderWrite, Then
<1>6. Leading(i, n, p)
  <2> HIDE DEF id
  <2> QED BY <1>3, ProposeType
<1> HIDE DEF p, w
<1>7. ASSUME p.n.role.kind = "Leader"
      PROVE  Leading(i, p.n, q)
  <2>1. p.n \in StaticNode(i)
    BY <1>6 DEF Leading, Keeps, Outcome
  <2>2. W \in SUBSET WriteType(Ids)
    BY <1>4, <1>7, <2>1, LeadTypes
  <2> HIDE DEF W
  <2>3. k \in StaticNode(i) /\ k.log = p.n.log /\ k.role.kind = "Leader"
    BY <1>7, <2>1, <2>2, SetWrites
  <2> HIDE DEF k
  <2>4. Leading(i, k, q)
    BY <2>3, CommitIfAloneType
  <2> QED BY <2>3, <2>4 DEF Leading, Keeps
<1> HIDE DEF q
<1> QED BY <1>5, <1>6, <1>7, ThenLead

\* Read: a sequence number is taken and announced.
LEMMA LeaderReadType ==
  ASSUME NEW i \in Server, NEW n \in StaticNode(i), n.role.kind = "Leader",
         NEW m \in Mail(i), m.message.type = "ClientRequest"
  PROVE  Leading(i, n, LeaderRead(n, m))
<1> DEFINE id == m.message.request.id
           seq == n.role.read_seq + 1
           R == n.role.reads \cup {[seq |-> seq, from |-> m.from, id |-> id]}
           k == [n EXCEPT !.role.read_seq = seq, !.role.reads = R]
           msg == [type |-> "Read", seq |-> seq]
           out == Broadcast(k, msg)
<1>1. m.message \in StaticMessage /\ m.from \in Server
  BY DEF Mail
<1>2. id \in Ids
  BY <1>1, MessageFields
<1>3. seq \in Nat
  <2>1. n.role.read_seq \in Nat
    BY LeadTypes
  <2> QED BY <2>1
<1>4. LeaderRead(n, m) = IF ClusterSize(n) = 1 THEN After(out, MaybeRead(k))
                         ELSE Done(k, out)
  BY DEF LeaderRead
<1> HIDE DEF seq
<1>5. R \in SUBSET ReadType(Ids)
  <2> HIDE DEF id
  <2>1. [seq |-> seq, from |-> m.from, id |-> id] \in ReadType(Ids)
    BY <1>1, <1>2, <1>3 DEF ReadType
  <2> QED BY <2>1, LeadTypes
<1> HIDE DEF R
<1>6. k \in StaticNode(i) /\ k.log = n.log /\ k.role.kind = "Leader"
  <2> DEFINE y == [n.role EXCEPT !.read_seq = seq, !.reads = R]
  <2>1. y \in Lead(i)
    BY <1>3, <1>5, LeadTypes DEF Lead, LeaderType
  <2>2. k = [n EXCEPT !.role = y]
    OBVIOUS
  <2> HIDE DEF y, k
  <2>3. /\ [n EXCEPT !.role = y] \in StaticNode(i)
        /\ [n EXCEPT !.role = y].log = n.log
        /\ [n EXCEPT !.role = y].role.kind = "Leader"
    BY <2>1, LeadRole
  <2> QED BY <2>2, <2>3
<1> HIDE DEF k
<1>7. out \in SUBSET StaticEnv(i) /\ Quiet(out)
  <2>1. msg \in StaticMessage /\ msg.type # "CampaignResponse"
    BY <1>3 DEF StaticMessage
  <2> HIDE DEF msg
  <2> QED BY <1>6, <2>1, BroadcastType
<1> HIDE DEF out
<1>8. Leading(i, n, Done(k, out))
  BY <1>6, <1>7, LeadDone DEF SameBallot
<1>9. Leading(i, n, After(out, MaybeRead(k)))
  <2> DEFINE r == MaybeRead(k)
  <2>1. Leading(i, k, r)
    BY <1>6, MaybeReadType
  <2> HIDE DEF r
  <2>2. Leading(i, n, r)
    BY <1>6, <2>1 DEF Leading, Keeps
  <2>3. Leading(i, n, After(out, r))
    BY <1>7, <2>2, AfterType DEF Leading
  <2> QED BY <2>3 DEF r
<1> QED BY <1>4, <1>8, <1>9

\* Write, Read and Status; no client asks for another configuration.
LEMMA LeaderClientRequestType ==
  ASSUME NEW i \in Server, NEW n \in StaticNode(i), n.role.kind = "Leader",
         NEW m \in Mail(i), m.message.type = "ClientRequest", StaticMembership
  PROVE  Leading(i, n, LeaderClientRequest(n, m))
<1> DEFINE op == m.message.request.op
<1>1. m.message \in StaticMessage /\ m.from \in Server
  BY DEF Mail
<1>2. m.message.request \in Requests /\ m.message.request.id \in Ids
  BY <1>1, MessageFields
<1>3. op \in {"Write", "Read", "Status"}
  BY <1>2, ClusterAssumption DEF StaticMembership
<1>4. CASE op = "Write"
  <2>1. LeaderClientRequest(n, m) = LeaderWrite(n, m)
    BY <1>4 DEF LeaderClientRequest
  <2> QED BY <2>1, LeaderWriteType
<1>5. CASE op = "Read"
  <2>1. LeaderClientRequest(n, m) = LeaderRead(n, m)
    BY <1>5 DEF LeaderClientRequest
  <2> QED BY <2>1, LeaderReadType
<1>6. CASE op = "Status"
  <2> DEFINE e == Reply(n, m.from, m.message.request.id, "Ok", <<>>)
  <2>1. LeaderClientRequest(n, m) = Done(n, {e})
    BY <1>6 DEF LeaderClientRequest, LeaderStatus
  <2>2. "Ok" \in {"Ok", "Abort", "Invalid"} /\ <<>> \in Seq(Cmd)
    BY EmptySeq
  <2>3. {e} \in SUBSET StaticEnv(i) /\ Quiet({e})
    <3>1. e \in StaticEnv(i) /\ ~Granted(e)
      BY <1>1, <1>2, <2>2, ReplyType, Zenon
    <3> HIDE DEF e
    <3> QED BY <3>1 DEF Quiet
  <2> HIDE DEF e
  <2>4. SameBallot(n.log, n.log)
    BY DEF SameBallot
  <2> QED BY <2>1, <2>3, <2>4, LeadDone
<1> QED BY <1>3, <1>4, <1>5, <1>6

\* The kinds of messages.
LEMMA MessageKinds ==
  ASSUME NEW msg \in StaticMessage
  PROVE  msg.type \in {"PreCampaign", "Campaign", "PreCampaignResponse",
                       "CampaignResponse", "Heartbeat", "HeartbeatResponse",
                       "Append", "AppendResponse", "Read", "ReadResponse",
                       "InstallSnapshot", "InstallSnapshotResponse",
                       "ClientRequest", "ClientResponse"}
BY DEF StaticMessage

\* Leader::step keeps the ballot; the leader goes on leading or panics.
LEMMA LeaderStepType ==
  ASSUME NEW i \in Server, NEW n \in StaticNode(i), n.role.kind = "Leader",
         NEW m \in Mail(i), m.message.type \notin PreVoteTypes, StaticMembership
  PROVE  Leading(i, n, LeaderStep(n, m))
<1> DEFINE t == m.message.type
           r == LeaderStep(n, m)
           no == [type |-> "CampaignResponse", vote |-> FALSE]
<1>1. m.from \in Server /\ m.message \in StaticMessage
  BY DEF Mail
<1>2. DOMAIN n.role.progress = Server \ {i}
  BY LeadTypes
<1>3. CASE t = "ClientRequest"
  <2>1. r = LeaderClientRequest(n, m)
    BY <1>3 DEF LeaderStep, PeerAnswers
  <2> QED BY <1>3, <2>1, LeaderClientRequestType
<1>4. CASE t = "Campaign"
  <2>1. r = Done(n, {Env(n, m.from, no)})
    BY <1>4 DEF LeaderStep, PeerAnswers
  <2>2. no \in StaticMessage /\ ~no.vote
    BY DEF StaticMessage
  <2> HIDE DEF no
  <2>3. {Env(n, m.from, no)} \in SUBSET StaticEnv(i) /\ Quiet({Env(n, m.from, no)})
    BY <1>1, <2>2, One
  <2>4. SameBallot(n.log, n.log)
    BY DEF SameBallot
  <2> QED BY <2>1, <2>3, <2>4, LeadDone
<1>5. CASE t \in {"CampaignResponse", "Heartbeat", "Append", "Read",
                  "InstallSnapshot"}
  <2>1. r = Done(n, {})
    BY <1>5 DEF LeaderStep, PeerAnswers
  <2> QED BY <2>1, LeadNothing
<1>6. CASE t = "ClientResponse"
  <2>1. r = Panic(n, "unexpected message")
    BY <1>6 DEF LeaderStep, PeerAnswers
  <2>2. "unexpected message" \in Reasons
    BY DEF Reasons
  <2> QED BY <2>1, <2>2, PanicType
<1>7. CASE t \in PeerAnswers /\ m.from = i
  <2>1. r = Done(n, {})
    BY <1>2, <1>7 DEF LeaderStep, PeerAnswers
  <2> QED BY <2>1, LeadNothing
<1>8. CASE t \in PeerAnswers /\ m.from # i
  <2>1. m.from \in Server \ {i} /\ m.from \in DOMAIN n.role.progress
    BY <1>1, <1>2, <1>8
  <2>2. CASE t = "HeartbeatResponse"
    <3>1. r = LeaderHeartbeatResponse(n, m)
      BY <2>1, <2>2 DEF LeaderStep, PeerAnswers
    <3> QED BY <2>1, <2>2, <3>1, LeaderHeartbeatResponseType
  <2>3. CASE t = "AppendResponse"
    <3>1. r = LeaderAppendResponse(n, m)
      BY <2>1, <2>3 DEF LeaderStep, PeerAnswers
    <3> QED BY <2>1, <2>3, <3>1, LeaderAppendResponseType
  <2>4. CASE t = "ReadResponse"
    <3>1. r = AdvanceRead(n, m.from, m.message.seq)
      BY <2>1, <2>4 DEF LeaderStep, PeerAnswers, LeaderReadResponse
    <3>2. m.message.seq \in Nat
      BY <1>1, <2>4, MessageFields
    <3> QED BY <2>1, <3>1, <3>2, AdvanceReadType
  <2>5. CASE t = "InstallSnapshotResponse"
    <3>1. r = LeaderInstallSnapshotResponse(n, m)
      BY <2>1, <2>5 DEF LeaderStep, PeerAnswers
    <3> QED BY <2>1, <2>5, <3>1, LeaderInstallSnapshotResponseType
  <2> QED BY <1>8, <2>2, <2>3, <2>4, <2>5 DEF PeerAnswers
<1>9. t \in {"Campaign", "CampaignResponse", "Heartbeat", "HeartbeatResponse",
             "Append", "AppendResponse", "Read", "ReadResponse",
             "InstallSnapshot", "InstallSnapshotResponse",
             "ClientRequest", "ClientResponse"}
  BY <1>1, MessageKinds DEF PreVoteTypes
<1> HIDE DEF r
<1> QED BY <1>3, <1>4, <1>5, <1>6, <1>7, <1>8, <1>9 DEF PeerAnswers

-----------------------------------------------------------------------------
(* Node::step and Node::tick.                                              *)

\* A call of a leader.
LEMMA LeadingMoves ==
  ASSUME NEW i \in Server, NEW n \in StaticNode(i), n.role.kind = "Leader",
         NEW K, NEW r, Leading(i, n, r)
  PROVE  Moves(i, n, K, r)
<1>1. Keeps(i, n, r) /\ ~Elective(r.n)
  BY DEF Leading, Elective
<1> QED BY <1>1, KeepsMoves

\* A message of the node's own term.
LEMMA SameTermStepMoves ==
  ASSUME NEW i \in Server, NEW n \in StaticNode(i), n.role.kind # "Panicked",
         NEW m \in Mail(i), m.term = n.log.term,
         m.message.type \notin PreVoteTypes,
         NEW K, Knows(i, n, K), Carried(m, K), StaticMembership
  PROVE  Moves(i, n, K, SameTermStep(n, m))
<1> DEFINE r == SameTermStep(n, m)
<1>1. n.role.kind \in {"Follower", "Candidate", "Leader"}
  <2>1. n.role \in Role(i)
    BY FieldTypes
  <2> QED BY <2>1 DEF Role, FollowerType, CandidateType, Lead, LeaderType,
                      PanickedType
<1>2. CASE n.role.kind = "Leader"
  <2>1. r = LeaderStep(n, m)
    BY <1>2 DEF SameTermStep
  <2>2. Leading(i, n, r)
    BY <1>2, <2>1, LeaderStepType
  <2> HIDE DEF r
  <2>3. Moves(i, n, K, r)
    BY <1>2, <2>2, LeadingMoves
  <2> QED BY <2>3 DEF r
<1>3. CASE n.role.kind = "Follower"
  <2>1. r = FollowerStep(n, m)
    BY <1>3 DEF SameTermStep
  <2> QED BY <1>3, <2>1, FollowerStepMoves
<1>4. CASE n.role.kind = "Candidate" /\ m.message.type \in FromLeaderTypes
  <2> DEFINE k == [n EXCEPT !.role = Follower(m.from)]
             x == FollowerStep(k, m)
  <2>1. r = x
    BY <1>4 DEF SameTermStep
  <2>2. m.from \in Server \cup {Nil}
    BY DEF Mail
  <2>3. Follower(m.from) \in Role(i) /\ Follower(m.from).kind = "Follower"
    BY <2>2, RoleTypes
  <2>4. k \in StaticNode(i) /\ k.log = n.log /\ k.role.kind = "Follower"
    BY <2>3, SetRole
  <2> HIDE DEF k
  <2>5. Moves(i, k, K, x)
    BY <2>4, FollowerStepMoves
  <2> HIDE DEF x
  <2>6. SameBallot(n.log, k.log) /\ {} \in SUBSET StaticEnv(i) /\ Quiet({})
    BY <2>4, NoOut DEF SameBallot
  <2>7. Moves(i, n, K, x)
    BY <2>4, <2>5, <2>6, LaterMoves
  <2> QED BY <2>1, <2>7
<1>5. CASE n.role.kind = "Candidate" /\ m.message.type \notin FromLeaderTypes
  <2>1. r = CandidateStep(n, m)
    BY <1>5 DEF SameTermStep
  <2> QED BY <1>5, <2>1, CandidateStepMoves
<1> HIDE DEF r
<1> QED BY <1>1, <1>2, <1>3, <1>4, <1>5

\* Node::step.
LEMMA StepMoves ==
  ASSUME NEW i \in Server, NEW n \in StaticNode(i), n.role.kind # "Panicked",
         NEW m \in Mail(i), NEW K, Knows(i, n, K), Carried(m, K),
         StaticMembership
  PROVE  Moves(i, n, K, Step(n, m))
<1> DEFINE t == m.message.type
           d == DiscoverTerm(n, m.term)
           f == FollowerStep(d.n, m)
           dropped == \/ ~IsKnownSender(n, m.from)
                      \/ t \notin PreVoteTypes /\ m.term < Term(n)
           r == Step(n, m)
<1>1. n.log.term \in Nat /\ m.term \in Nat /\ Term(n) = n.log.term
  BY FieldTypes DEF Mail, Term
<1>2. CASE dropped
  <2>1. r = Done(n, {})
    BY <1>2 DEF Step
  <2> QED BY <2>1, NoOut, StaysMoves
<1>3. CASE ~dropped /\ t = "PreCampaign"
  <2>1. r = PreCampaignStep(n, m)
    BY <1>3 DEF Step, PreVoteTypes
  <2> QED BY <2>1, PreCampaignMoves
<1>4. CASE ~dropped /\ t = "PreCampaignResponse"
  <2>1. r = PreCampaignResponseStep(n, m)
    BY <1>4 DEF Step, PreVoteTypes
  <2> QED BY <2>1, PreCampaignResponseMoves
<1>5. CASE ~dropped /\ t \notin PreVoteTypes /\ m.term > n.log.term
  <2>1. r = After(d.out, f)
    <3>1. t # "PreCampaign" /\ t # "PreCampaignResponse"
      BY <1>5 DEF PreVoteTypes
    <3> QED BY <1>1, <1>5, <3>1 DEF Step
  <2>2. /\ d \in Outcome(i) /\ Quiet(d.out) /\ d.n.log.term = m.term
        /\ d.n.role.kind = "Follower"
    BY <1>1, DiscoverTermType DEF Follower
  <2> HIDE DEF d
  <2>3. d.n \in StaticNode(i) /\ d.out \in SUBSET StaticEnv(i)
    BY <2>2 DEF Outcome
  <2>4. Moves(i, d.n, K, f)
    BY <2>2, <2>3, FollowerStepMoves
  <2> HIDE DEF f
  <2>5. Moves(i, n, K, After(d.out, f))
    BY <1>1, <1>5, <2>2, <2>3, <2>4, LaterMoves
  <2> QED BY <2>1, <2>5
<1>6. CASE ~dropped /\ t \notin PreVoteTypes /\ m.term = n.log.term
  <2>1. r = SameTermStep(n, m)
    <3>1. t # "PreCampaign" /\ t # "PreCampaignResponse"
          /\ ~(m.term > Term(n))
      BY <1>1, <1>6 DEF PreVoteTypes
    <3> QED BY <1>6, <3>1 DEF Step
  <2> QED BY <1>6, <2>1, SameTermStepMoves
<1>7. \/ dropped
      \/ ~dropped /\ t = "PreCampaign"
      \/ ~dropped /\ t = "PreCampaignResponse"
      \/ ~dropped /\ t \notin PreVoteTypes /\ m.term > n.log.term
      \/ ~dropped /\ t \notin PreVoteTypes /\ m.term = n.log.term
  BY <1>1 DEF PreVoteTypes
<1> HIDE DEF r
<1> QED BY <1>2, <1>3, <1>4, <1>5, <1>6, <1>7

\* Node::tick of a follower or candidate whose election timeout expires.
LEMMA ElectionTickMoves ==
  ASSUME NEW i \in Server, NEW n \in StaticNode(i), NEW K
  PROVE  Moves(i, n, K, ElectionTick(n))
<1> DEFINE r == ElectionTick(n)
<1>1. CASE n.role.kind = "Follower"
  <2>1. r = IntoCandidate(n, TRUE)
    BY <1>1 DEF ElectionTick
  <2>2. TRUE \in BOOLEAN
    OBVIOUS
  <2>3. Stands(i, n, IntoCandidate(n, TRUE))
    BY <1>1, <2>2, IntoCandidateType, Zenon
  <2> QED BY <2>1, <2>3, StandsMoves
<1>2. CASE n.role.kind # "Follower"
  <2>1. r \in {PreCampaign(n), Campaign(n)}
    BY <1>2 DEF ElectionTick
  <2>2. Stands(i, n, PreCampaign(n)) /\ Runs(i, n, Campaign(n))
    BY PreCampaignType, CampaignType
  <2> QED BY <2>1, <2>2, StandsMoves, RunsMoves
<1> QED BY <1>1, <1>2

\* Node::tick of a leader: a heartbeat, or the way back to follower.
LEMMA LeaderTickMoves ==
  ASSUME NEW i \in Server, NEW n \in StaticNode(i), n.role.kind = "Leader",
         NEW due \in BOOLEAN, NEW heard, NEW K
  PROVE  Moves(i, n, K, LeaderTick(n, due, heard))
<1> DEFINE h == IF due THEN Heartbeat(n) ELSE Done(n, {})
           q == StepDown(h.n)
           x == After(h.out, q)
           lost == /\ CheckQuorum
                   /\ ClusterSize(n) > 1
                   /\ ~HasQuorum(n.mem.active, {n.id} \cup heard)
<1>1. LeaderTick(n, due, heard) =
        IF lost /\ h.n.role.kind # "Panicked" THEN x ELSE h
  <2>1. LeaderTick(n, due, heard) =
          IF lost /\ h.n.role.kind # "Panicked"
          THEN IF h.n.role.kind = "Panicked" THEN h ELSE After(h.out, StepDown(h.n))
          ELSE h
    BY DEF LeaderTick, Finish, Then
  <2> HIDE DEF h, lost
  <2> QED BY <2>1
<1> HIDE DEF lost
<1>2. Leading(i, n, h)
  BY HeartbeatType, LeadNothing
<1> HIDE DEF h
<1>3. Moves(i, n, K, h)
  BY <1>2, LeadingMoves
<1>4. ASSUME h.n.role.kind # "Panicked"
      PROVE  Moves(i, n, K, x)
  <2>1. /\ h.n \in StaticNode(i) /\ h.n.role.kind = "Leader" /\ Quiet(h.out)
        /\ h.out \in SUBSET StaticEnv(i) /\ SameBallot(n.log, h.n.log)
    BY <1>2, <1>4 DEF Leading, Keeps, Outcome
  <2>2. Keeps(i, h.n, q) /\ q.n.role.kind = "Follower"
    BY <2>1, StepDownType
  <2> HIDE DEF q
  <2>3. Keeps(i, n, q)
    BY <2>1, <2>2 DEF Keeps, SameBallot
  <2>4. Keeps(i, n, x) /\ x.n = q.n
    BY <2>1, <2>3, AfterType
  <2> HIDE DEF x
  <2>5. ~Elective(x.n) /\ x.n.role.kind # "Leader"
    BY <2>2, <2>4 DEF Elective
  <2> QED BY <2>4, <2>5, KeepsMoves
<1> HIDE DEF x
<1> QED BY <1>1, <1>3, <1>4

-----------------------------------------------------------------------------
(* Node::new.                                                              *)

\* The node that Node::new makes of a log before it starts.
Fresh(i, log) ==
  [id |-> i, log |-> log, mem |-> Bootstrap(Server),
   sm |-> IF log.first > 1 THEN Restored(log.snap, SnapshotIndex(log))
          ELSE EmptyState,
   role |-> Follower(Nil)]

\* Without membership entries in the log, the configured peers are in force.
LEMMA FreshType ==
  ASSUME NEW i \in Server, NEW log \in StaticLog, StaticMembership
  PROVE  /\ Fresh(i, log) \in StaticNode(i)
         /\ Fresh(i, log).log = log
         /\ Fresh(i, log).role.kind = "Follower"
         /\ NewNode(i, log) = Started(MaybeApply(Fresh(i, log)))
<1>1. log.snap \in State /\ log.ents \in Seq(StaticEntry)
      /\ SnapshotIndex(log) \in Nat
  BY IndexTypes DEF StaticLog
<1>2. Memberships(log.ents) = {}
  BY <1>1, NoMemberships
<1>3. Nil \in Server \cup {Nil}
  OBVIOUS
<1>4. Follower(Nil) \in Role(i) /\ Follower(Nil).kind = "Follower"
  BY <1>3, RoleTypes
<1>5. EmptyState \in State
  BY EmptySeq DEF EmptyState, State, StateType, Cmd
<1> DEFINE sm == IF log.first > 1 THEN Restored(log.snap, SnapshotIndex(log))
                 ELSE EmptyState
<1>6. sm \in State
  <2>1. Restored(log.snap, SnapshotIndex(log)) \in State
    BY <1>1, RestoredType
  <2> QED BY <1>5, <2>1
<1>7. Fresh(i, log) = [id |-> i, log |-> log, mem |-> Bootstrap(Server),
                       sm |-> sm, role |-> Follower(Nil)]
  BY DEF Fresh
<1>8. NewNode(i, log) = Started(MaybeApply(Fresh(i, log)))
  BY <1>2 DEF NewNode, Fresh, StaticMembership
<1> HIDE DEF sm
<1> QED BY <1>4, <1>6, <1>7, <1>8 DEF StaticNode

\* A node that has just been started: a follower with the ballot of its log,
\* or, alone in the cluster, its leader.
LEMMA NewNodeMoves ==
  ASSUME NEW i \in Server, NEW log \in StaticLog, StaticMembership, NEW K,
         NEW n \in StaticNode(i), SameBallot(n.log, log)
  PROVE  Moves(i, n, K, NewNode(i, log))
<1> DEFINE a == MaybeApply(Fresh(i, log))
           c == IntoCandidate(a, FALSE)
           l == IntoLeader(c.n)
<1>1. a \in StaticNode(i) /\ SameBallot(n.log, a.log) /\ a.role.kind = "Follower"
  BY FreshType, MaybeApplyType
<1>2. NewNode(i, log) = Started(a)
  BY FreshType
<1> HIDE DEF a
<1>3. Started(a) = IF Cardinality(Server) = 1
                   THEN IF c.n.role.kind = "Panicked" THEN c ELSE After(c.out, l)
                   ELSE Done(a, {})
  <2>1. ClusterSize(a) = Cardinality(Server)
    BY <1>1, PeersOf
  <2> QED BY <2>1 DEF Started, Then
<1>4. Moves(i, n, K, Done(a, {}))
  <2>1. {} \in SUBSET StaticEnv(i) /\ Quiet({})
    BY NoOut
  <2> DEFINE r == Done(a, {})
  <2>2. Keeps(i, n, r) /\ r.n = a
    BY <1>1, <2>1, DoneType
  <2> HIDE DEF r
  <2>3. ~Elective(r.n) /\ r.n.role.kind # "Leader"
    BY <1>1, <2>2 DEF Elective
  <2>4. Moves(i, n, K, r)
    BY <2>2, <2>3, KeepsMoves
  <2> QED BY <2>4 DEF r
<1>5. Runs(i, a, c)
  <2>1. FALSE \in BOOLEAN
    OBVIOUS
  <2> QED BY <1>1, <2>1, IntoCandidateType, Zenon
<1> HIDE DEF c
<1>6. /\ c.n \in StaticNode(i) /\ c.out \in SUBSET StaticEnv(i) /\ Quiet(c.out)
      /\ c.n.log.vote = i /\ c.n.log.term = n.log.term + 1 /\ n.log.term \in Nat
      /\ c.n.role.kind = "Candidate"
  <2>1. a.log.term = n.log.term /\ n.log.term \in Nat
    BY <1>1, FieldTypes DEF SameBallot
  <2>2. c.n.role.kind = "Candidate"
    BY <1>5 DEF Runs, Candidate
  <2>3. c.n \in StaticNode(i) /\ c.out \in SUBSET StaticEnv(i) /\ Quiet(c.out)
    BY <1>5 DEF Runs, Outcome
  <2> QED BY <1>5, <2>1, <2>2, <2>3 DEF Runs
<1>7. ASSUME Cardinality(Server) = 1
      PROVE  Moves(i, n, K, After(c.out, l))
  <2>1. Majority(Server, {i})
    <3>1. Server \cap {i} = {i}
      OBVIOUS
    <3>2. Cardinality({i}) = 1
      BY FS_Singleton
    <3> QED BY <1>7, <3>1, <3>2 DEF Majority
  <2>2. \A v \in {i} : Backed(i, c.n, K, v)
    BY <1>6 DEF Backed
  <2>3. {i} \in SUBSET Server /\ c.n.log.term >= n.log.term
        /\ c.n.log.term # n.log.term
    BY <1>6
  <2> QED BY <1>6, <2>1, <2>2, <2>3, OfficeMoves
<1> HIDE DEF l
<1> QED BY <1>2, <1>3, <1>4, <1>6, <1>7
=============================================================================
