------------------------ MODULE RaftSafetyProofs ------------------------
(***************************************************************************)
(* Replication is safe in every cluster whose membership does not change   *)
(* and that takes no snapshots, whatever its size, its clients, its        *)
(* timeouts and its restarts.                                              *)
(*                                                                         *)
(* The invariant speaks of more than the cluster's state: of the log that  *)
(* the leader of each term had last, of how much of it each node has       *)
(* vouched for to that leader, and of who led.  A chronicle is a record of *)
(* the nodes, the mail and the ballots together with these; the cluster    *)
(* satisfies the invariant if it has a chronicle that does.                *)
(***************************************************************************)
EXTENDS RaftElectionProofs, RaftReplicationProofs

\* A chronicle w.  Held(w, t, v): up to where v's log has been, in term t, that
\* of the leader of t.
Ents(w, v) == w.node[v].log.ents
TermOf(w, v) == w.node[v].log.term
CommitOf(w, v) == w.node[v].log.commit
LogOf(w, t) == w.log[t]
Held(w, t, v) == w.held[t][v]

Chronicle(w) ==
  /\ w.node \in [Server -> Nodes]
  /\ \A i \in Server : w.node[i] \in StaticNode(i)
  /\ w.mail \subseteq Envelope
  /\ w.ballots \subseteq BallotType
  /\ w.offices \subseteq [leader : Server, term : Nat]
  /\ Histories(w.held, w.log)
  /\ w.reads \in [Nat -> Nat]

\* Every entry of l is in the log of the leader of its term, with all before it.
Rooted(w, l) ==
  \A k \in 1 .. Len(l) : SameTo(l, LogOf(w, l[k].term), k)

\* Terms only rise along l, up to t.
Rising(l, t) ==
  \A y \in 1 .. Len(l) :
    /\ l[y].term > 0 /\ l[y].term <= t
    /\ \A x \in 1 .. y : l[x].term <= l[y].term

\* Entry k of the leader of t is of its own term.
Own(w, k, t) == k \in 1 .. Len(LogOf(w, t)) /\ LogOf(w, t)[k].term = t

\* A majority has left term t without having vouched for entry k of it: the
\* leader of t will never commit it.
Blocked(w, k, t) ==
  \E Q \in SUBSET Server :
    /\ Majority(Server, Q)
    /\ \A v \in Q : TermOf(w, v) > t /\ Held(w, t, v) < k

\* A majority has vouched for it.
Chosen(w, k, t) ==
  \E Q \in SUBSET Server :
    /\ Majority(Server, Q)
    /\ \A v \in Q : Held(w, t, v) >= k

\* The first c entries of l are those of a log that a leader has, by term t,
\* committed.
Committed(w, l, c, t) ==
  c > 0 => \E s \in Nat : \E k \in Nat :
    /\ s <= t /\ c <= k /\ Own(w, k, s) /\ Chosen(w, k, s)
    /\ SameTo(l, LogOf(w, s), c)

-----------------------------------------------------------------------------
(* The invariant of chronicles.                                            *)

LeadersRooted(w) ==
  \A t \in Nat : Rooted(w, LogOf(w, t)) /\ Rising(LogOf(w, t), t)

NodesRooted(w) ==
  \A v \in Server : Rooted(w, Ents(w, v)) /\ Rising(Ents(w, v), TermOf(w, v))

\* What has a leader's log or reads had a leader, with a majority of ballots.
LedByElected(w) ==
  /\ \A t \in Nat : LogOf(w, t) # <<>> \/ w.reads[t] > 0 =>
       \E e \in w.offices : e.term = t
  /\ \A e \in w.offices :
       Polled(e, w.ballots) /\ e.term <= TermOf(w, e.leader)

\* A candidate of a real election has not led its term and voted for itself.
NotYetLed(w) ==
  \A v \in Server : Elective(w.node[v]) =>
    /\ [leader |-> v, term |-> TermOf(w, v)] \notin w.offices
    /\ TermOf(w, v) > 0 /\ w.node[v].log.vote = v

\* A leader's log is the log of its term, and it tracks what is vouched for.
LeadersTrack(w) ==
  \A i \in Server : w.node[i].role.kind = "Leader" =>
    LET t == TermOf(w, i)
    IN /\ [leader |-> i, term |-> t] \in w.offices
       /\ Ents(w, i) = LogOf(w, t) /\ Held(w, t, i) = Len(LogOf(w, t))
       /\ Tracks(i, w.held[t], w.node[i]) /\ Current(w.node[i])
       /\ w.node[i].role.read_seq = w.reads[t]

\* What is vouched for in a node's term is there.
HeldNow(w) ==
  \A v \in Server :
    /\ \A t \in Nat : /\ Held(w, t, v) <= Len(LogOf(w, t))
                      /\ Held(w, t, v) > 0 => t <= TermOf(w, v)
    /\ SameTo(Ents(w, v), LogOf(w, TermOf(w, v)), Held(w, TermOf(w, v), v))

\* An entry of its leader's term is in the log of every later leader, of every
\* node that vouched for it and of every candidate with the ballot of such a
\* node, or will never be committed.
LeadersKeep(w) ==
  \A t \in Nat : \A T \in Nat : \A k \in Nat :
    Own(w, k, t) /\ T > t /\ LogOf(w, T) # <<>> =>
      SameTo(LogOf(w, T), LogOf(w, t), k) \/ Blocked(w, k, t)

HoldersKeep(w) ==
  \A t \in Nat : \A k \in Nat : \A v \in Server :
    Own(w, k, t) /\ Held(w, t, v) >= k =>
      SameTo(Ents(w, v), LogOf(w, t), k) \/ Blocked(w, k, t)

CandidatesKeep(w) ==
  \A t \in Nat : \A k \in Nat : \A b \in w.ballots :
    /\ Own(w, k, t) /\ Held(w, t, b.voter) >= k /\ b.term > t
    /\ Elective(w.node[b.vote]) /\ TermOf(w, b.vote) = b.term
    => SameTo(Ents(w, b.vote), LogOf(w, t), k) \/ Blocked(w, k, t)

CommitsChosen(w) ==
  \A v \in Server : Committed(w, Ents(w, v), CommitOf(w, v), TermOf(w, v))

\* What a message says of logs is true.
Claims(w, m) ==
  LET t == m.term
      c == m.message
      from == w.node[m.from]
  IN /\ c.type \notin {"InstallSnapshot", "InstallSnapshotResponse"}
     /\ c.type = "Append" => Segment(LogOf(w, t), c)
     /\ c.type = "Heartbeat" =>
          /\ c.last_index <= Len(LogOf(w, t)) /\ c.commit_index <= c.last_index
          /\ Committed(w, LogOf(w, t), c.commit_index, t)
          /\ c.read_seq <= w.reads[t]
     /\ c.type = "AppendResponse" =>
          /\ c.match_index <= Held(w, t, m.from)
          /\ c.reject_index <= Len(LogOf(w, t))
          /\ (c.match_index > 0) # (c.reject_index > 0)
     /\ c.type = "HeartbeatResponse" =>
          c.match_index <= Held(w, t, m.from) /\ c.read_seq <= w.reads[t]
     /\ c.type = "Campaign" =>
          /\ t <= TermOf(w, m.from)
          /\ Elective(from) /\ from.log.term = t =>
               /\ c.last_index = Len(from.log.ents)
               /\ c.last_term = LastTerm(from.log)

MailClaims(w) == \A m \in w.mail : Claims(w, m)

\* What the election invariant says of ballots, and that nobody is voted for in
\* a term it has not reached.
Voted(w) ==
  /\ \A b \in w.ballots : b.term <= TermOf(w, b.voter)
  /\ \A v \in Server : w.node[v].log.vote # Nil =>
       [voter |-> v, term |-> TermOf(w, v), vote |-> w.node[v].log.vote]
         \in w.ballots
  /\ \A a, b \in w.ballots :
       a.voter = b.voter /\ a.term = b.term => a.vote = b.vote

CandidatesThere(w) == \A b \in w.ballots : b.term <= TermOf(w, b.vote)

NodesSound(w) ==
  \A v \in Server :
    /\ Sound(w.node[v])
    /\ w.node[v].role.kind = "Panicked" => w.node[v].role.why \in Unexpected

Consistent(w) ==
  /\ Chronicle(w) /\ Voted(w) /\ CandidatesThere(w) /\ NodesSound(w)
  /\ LeadersRooted(w) /\ NodesRooted(w) /\ LedByElected(w) /\ NotYetLed(w)
  /\ LeadersTrack(w) /\ HeldNow(w)
  /\ LeadersKeep(w) /\ HoldersKeep(w) /\ CandidatesKeep(w)
  /\ CommitsChosen(w) /\ MailClaims(w)

-----------------------------------------------------------------------------
(* Chronicles and sequences.                                               *)

\* The parts of a chronicle.
LEMMA Parts ==
  ASSUME NEW w, Chronicle(w)
  PROVE  /\ \A v \in Server :
              /\ w.node[v] \in StaticNode(v)
              /\ Ents(w, v) \in Seq(StaticEntry) /\ Len(Ents(w, v)) \in Nat
              /\ TermOf(w, v) \in Nat /\ CommitOf(w, v) \in Nat
              /\ \A k \in 1 .. Len(Ents(w, v)) : Ents(w, v)[k].term \in Nat
         /\ \A t \in Nat :
              /\ LogOf(w, t) \in Seq(StaticEntry) /\ Len(LogOf(w, t)) \in Nat
              /\ w.reads[t] \in Nat
              /\ \A v \in Server : Held(w, t, v) \in Nat
              /\ \A k \in 1 .. Len(LogOf(w, t)) : LogOf(w, t)[k].term \in Nat
<1>1. ASSUME NEW l \in Seq(StaticEntry)
      PROVE  Len(l) \in Nat /\ \A k \in 1 .. Len(l) : l[k].term \in Nat
  <2>1. Len(l) \in Nat
    BY LenProperties
  <2>2. ASSUME NEW k \in 1 .. Len(l)
        PROVE  l[k].term \in Nat
    <3>1. l[k] \in StaticEntry
      BY ElementOfSeq
    <3> QED BY <3>1 DEF StaticEntry
  <2> QED BY <2>1, <2>2
<1>2. ASSUME NEW v \in Server
      PROVE  /\ w.node[v] \in StaticNode(v)
             /\ Ents(w, v) \in Seq(StaticEntry)
             /\ TermOf(w, v) \in Nat /\ CommitOf(w, v) \in Nat
  <2>1. w.node[v] \in StaticNode(v)
    BY DEF Chronicle
  <2>2. w.node[v].log \in StaticLog /\ w.node[v].log.term \in Nat
        /\ w.node[v].log.commit \in Nat
    BY <2>1, FieldTypes
  <2> QED BY <2>1, <2>2 DEF StaticLog, Ents, TermOf, CommitOf
<1>3. ASSUME NEW t \in Nat
      PROVE  /\ LogOf(w, t) \in Seq(StaticEntry) /\ w.reads[t] \in Nat
             /\ \A v \in Server : Held(w, t, v) \in Nat
  <2>1. /\ w.log \in [Nat -> Seq(StaticEntry)] /\ w.reads \in [Nat -> Nat]
        /\ w.held \in [Nat -> [Server -> Nat]]
    BY DEF Chronicle, Histories
  <2>2. w.log[t] \in Seq(StaticEntry) /\ w.reads[t] \in Nat
    BY <2>1
  <2>3. w.held[t] \in [Server -> Nat]
    BY <2>1
  <2> QED BY <2>2, <2>3 DEF LogOf, Held
<1> QED BY <1>1, <1>2, <1>3

\* How far two logs are the same.
LEMMA SameLess ==
  ASSUME NEW a, NEW b, NEW k \in Nat, NEW j \in Nat, j <= k, SameTo(a, b, k),
         Len(a) \in Nat, Len(b) \in Nat
  PROVE  SameTo(a, b, j) /\ SameTo(b, a, j)
BY DEF SameTo

\* Logs that agree with the same one agree with each other.
LEMMA SameOver ==
  ASSUME NEW a, NEW b, NEW c, NEW k, SameTo(a, b, k), SameTo(b, c, k)
  PROVE  SameTo(a, c, k)
BY DEF SameTo

\* An entry of what both have.
LEMMA SameAt ==
  ASSUME NEW a, NEW b, NEW k \in Nat, SameTo(a, b, k), NEW j \in 1 .. k
  PROVE  a[j] = b[j]
BY DEF SameTo

\* A log that is longer is still the same so far.
LEMMA SameLonger ==
  ASSUME NEW a, NEW b, NEW c, NEW k \in Nat, SameTo(a, b, k), Len(a) \in Nat,
         Len(b) \in Nat, Len(c) \in Nat, SameTo(b, c, Len(b))
  PROVE  SameTo(a, c, k)
BY DEF SameTo

\* Nothing is the same as anything.
LEMMA SameNone ==
  ASSUME NEW a, NEW b, Len(a) \in Nat, Len(b) \in Nat
  PROVE  SameTo(a, b, 0)
BY DEF SameTo

\* Only the empty log has no length.
LEMMA EmptyLen ==
  ASSUME NEW l \in Seq(StaticEntry)
  PROVE  (l = <<>>) <=> (Len(l) = 0)
BY EmptySeq, LenProperties

\* What a majority has vouched for is not blocked.
LEMMA ChosenNotBlocked ==
  ASSUME NEW w, Chronicle(w), NEW k \in Nat, NEW t \in Nat,
         Chosen(w, k, t), Blocked(w, k, t)
  PROVE  FALSE
<1>1. PICK A \in SUBSET Server :
        Majority(Server, A) /\ \A v \in A : Held(w, t, v) >= k
  BY DEF Chosen
<1>2. PICK B \in SUBSET Server :
        Majority(Server, B) /\ \A v \in B : Held(w, t, v) < k
  BY DEF Blocked
<1>3. PICK v \in Server : v \in A /\ v \in B
  <2>1. IsFiniteSet(Server)
    BY NodeAssumption
  <2> QED BY <1>1, <1>2, <2>1, MajoritiesShare
<1>4. Held(w, t, v) \in Nat
  BY Parts
<1>5. Held(w, t, v) >= k /\ Held(w, t, v) < k
  BY <1>1, <1>2, <1>3
<1> QED BY <1>4, <1>5
-----------------------------------------------------------------------------
(* What every call has in common.                                          *)

\* A call of node i that leads from w to x, in whose term T alone anything is
\* appended, vouched for or voted.
Advances(w, x, i) ==
  LET T == TermOf(x, i)
  IN /\ Chronicle(w) /\ Chronicle(x)
     /\ \A v \in Server : v # i => x.node[v] = w.node[v]
     /\ TermOf(w, i) <= T
     /\ \A t \in Nat : t # T => LogOf(x, t) = LogOf(w, t)
     /\ \A t \in Nat : t # T => x.reads[t] = w.reads[t]
     /\ SameTo(LogOf(w, T), LogOf(x, T), Len(LogOf(w, T)))
     /\ w.reads[T] <= x.reads[T]
     /\ \A t \in Nat : \A v \in Server :
          t # T \/ v # i => Held(x, t, v) = Held(w, t, v)
     /\ Held(w, T, i) <= Held(x, T, i)
     /\ w.offices \subseteq x.offices
     /\ \A e \in x.offices : e \in w.offices \/ (e.leader = i /\ e.term = T)
     /\ w.ballots \subseteq x.ballots
     /\ \A b \in x.ballots : b \in w.ballots \/
          (b.voter = i /\ b.term = T /\ b.vote = x.node[i].log.vote)

\* Nothing is lost.
LEMMA Grows ==
  ASSUME NEW w, NEW x, NEW i \in Server, Advances(w, x, i)
  PROVE  /\ \A v \in Server : TermOf(w, v) <= TermOf(x, v)
         /\ \A v \in Server : v # i => /\ TermOf(x, v) = TermOf(w, v)
                                       /\ Ents(x, v) = Ents(w, v)
                                       /\ CommitOf(x, v) = CommitOf(w, v)
         /\ \A t \in Nat :
              /\ SameTo(LogOf(w, t), LogOf(x, t), Len(LogOf(w, t)))
              /\ Len(LogOf(w, t)) <= Len(LogOf(x, t))
              /\ w.reads[t] <= x.reads[t]
         /\ \A t \in Nat : \A v \in Server :
              /\ Held(w, t, v) <= Held(x, t, v)
              /\ TermOf(w, v) > t => Held(x, t, v) = Held(w, t, v)
<1> DEFINE T == TermOf(x, i)
<1>1. T \in Nat /\ TermOf(w, i) \in Nat /\ TermOf(w, i) <= T
  BY Parts DEF Advances
<1>2. ASSUME NEW v \in Server, v # i
      PROVE  /\ TermOf(x, v) = TermOf(w, v) /\ TermOf(w, v) \in Nat
             /\ Ents(x, v) = Ents(w, v) /\ CommitOf(x, v) = CommitOf(w, v)
  <2>1. x.node[v] = w.node[v]
    BY <1>2 DEF Advances
  <2>2. TermOf(w, v) \in Nat
    BY Parts DEF Advances
  <2> QED BY <2>1, <2>2 DEF TermOf, Ents, CommitOf
<1>3. \A v \in Server : TermOf(w, v) <= TermOf(x, v)
  BY <1>1, <1>2
<1>4. ASSUME NEW t \in Nat
      PROVE  /\ SameTo(LogOf(w, t), LogOf(x, t), Len(LogOf(w, t)))
             /\ Len(LogOf(w, t)) <= Len(LogOf(x, t))
             /\ w.reads[t] <= x.reads[t]
  <2>1. Len(LogOf(w, t)) \in Nat /\ w.reads[t] \in Nat
    BY Parts DEF Advances
  <2>2. CASE t = T
    BY <2>2 DEF Advances, SameTo
  <2>3. CASE t # T
    <3>1. LogOf(x, t) = LogOf(w, t) /\ x.reads[t] = w.reads[t]
      BY <2>3 DEF Advances
    <3> QED BY <2>1, <3>1 DEF SameTo
  <2> QED BY <2>2, <2>3
<1>5. ASSUME NEW t \in Nat, NEW v \in Server
      PROVE  /\ Held(w, t, v) <= Held(x, t, v)
             /\ TermOf(w, v) > t => Held(x, t, v) = Held(w, t, v)
  <2>1. Held(w, t, v) \in Nat
    BY Parts DEF Advances
  <2>2. CASE t = T /\ v = i
    <3>1. Held(w, t, v) <= Held(x, t, v)
      BY <2>2 DEF Advances
    <3> QED BY <1>1, <2>2, <3>1
  <2>3. CASE t # T \/ v # i
    <3>1. Held(x, t, v) = Held(w, t, v)
      BY <2>3 DEF Advances
    <3> QED BY <2>1, <3>1
  <2> QED BY <2>2, <2>3
<1> QED BY <1>2, <1>3, <1>4, <1>5

\* What agrees with a leader's log still does when that log has grown.
LEMMA SameGrows ==
  ASSUME NEW w, NEW x, NEW i \in Server, Advances(w, x, i), NEW t \in Nat,
         NEW l, Len(l) \in Nat, NEW k \in Nat, SameTo(l, LogOf(w, t), k)
  PROVE  SameTo(l, LogOf(x, t), k)
<1>1. Len(LogOf(w, t)) \in Nat /\ Len(LogOf(x, t)) \in Nat
  BY Parts DEF Advances
<1>2. SameTo(LogOf(w, t), LogOf(x, t), Len(LogOf(w, t)))
  BY Grows
<1> QED BY <1>1, <1>2, SameLonger

\* A log rooted in the leaders' logs stays so when one of them grows.
LEMMA RootedGrows ==
  ASSUME NEW w, NEW x, NEW i \in Server, Advances(w, x, i),
         NEW l \in Seq(StaticEntry), Rooted(w, l)
  PROVE  Rooted(x, l)
<1> SUFFICES ASSUME NEW k \in 1 .. Len(l)
             PROVE  SameTo(l, LogOf(x, l[k].term), k)
  BY DEF Rooted
<1>1. Len(l) \in Nat /\ l[k] \in StaticEntry /\ k \in Nat
  BY LenProperties, ElementOfSeq
<1>2. l[k].term \in Nat
  BY <1>1 DEF StaticEntry
<1>3. SameTo(l, LogOf(w, l[k].term), k)
  BY DEF Rooted
<1> QED BY <1>1, <1>2, <1>3, SameGrows

\* An entry that will never be committed never will be.
LEMMA BlockedGrows ==
  ASSUME NEW w, NEW x, NEW i \in Server, Advances(w, x, i), NEW k \in Nat,
         NEW t \in Nat, Blocked(w, k, t)
  PROVE  Blocked(x, k, t)
<1>1. PICK Q \in SUBSET Server :
        /\ Majority(Server, Q)
        /\ \A v \in Q : TermOf(w, v) > t /\ Held(w, t, v) < k
  BY DEF Blocked
<1>2. ASSUME NEW v \in Q
      PROVE  TermOf(x, v) > t /\ Held(x, t, v) < k
  <2>1. v \in Server /\ TermOf(w, v) > t /\ Held(w, t, v) < k
    BY <1>1
  <2>2. TermOf(w, v) \in Nat /\ TermOf(x, v) \in Nat
    BY <2>1, Parts DEF Advances
  <2>3. TermOf(w, v) <= TermOf(x, v) /\ Held(x, t, v) = Held(w, t, v)
    BY <2>1, Grows
  <2> QED BY <2>1, <2>2, <2>3
<1> QED BY <1>1, <1>2 DEF Blocked

\* An entry that a majority has vouched for stays so.
LEMMA ChosenGrows ==
  ASSUME NEW w, NEW x, NEW i \in Server, Advances(w, x, i), NEW k \in Nat,
         NEW t \in Nat, Chosen(w, k, t)
  PROVE  Chosen(x, k, t)
<1>1. PICK Q \in SUBSET Server :
        Majority(Server, Q) /\ \A v \in Q : Held(w, t, v) >= k
  BY DEF Chosen
<1>2. ASSUME NEW v \in Q
      PROVE  Held(x, t, v) >= k
  <2>1. v \in Server /\ Held(w, t, v) >= k
    BY <1>1
  <2>2. Held(w, t, v) \in Nat /\ Held(x, t, v) \in Nat
    BY <2>1, Parts DEF Advances
  <2>3. Held(w, t, v) <= Held(x, t, v)
    BY <2>1, Grows
  <2> QED BY <2>1, <2>2, <2>3
<1> QED BY <1>1, <1>2 DEF Chosen

\* An entry of the leader's term stays one; a new one is beyond the old log of
\* the term that the call is made in.
LEMMA OwnGrows ==
  ASSUME NEW w, NEW x, NEW i \in Server, Advances(w, x, i), NEW k, NEW t \in Nat
  PROVE  /\ Own(w, k, t) =>
              Own(x, k, t) /\ SameTo(LogOf(w, t), LogOf(x, t), k)
         /\ Own(x, k, t) /\ k <= Len(LogOf(w, t)) => Own(w, k, t)
         /\ Own(x, k, t) /\ ~Own(w, k, t) =>
              t = TermOf(x, i) /\ k > Len(LogOf(w, t))
<1>1. Len(LogOf(w, t)) \in Nat /\ Len(LogOf(x, t)) \in Nat
  BY Parts DEF Advances
<1>2. SameTo(LogOf(w, t), LogOf(x, t), Len(LogOf(w, t)))
      /\ Len(LogOf(w, t)) <= Len(LogOf(x, t))
  BY Grows
<1>3. \A y \in 1 .. Len(LogOf(w, t)) : LogOf(w, t)[y] = LogOf(x, t)[y]
  BY <1>2 DEF SameTo
<1>4. ASSUME Own(w, k, t)
      PROVE  Own(x, k, t) /\ SameTo(LogOf(w, t), LogOf(x, t), k)
  <2>1. k \in 1 .. Len(LogOf(w, t)) /\ LogOf(w, t)[k].term = t
    BY <1>4 DEF Own
  <2>2. k \in 1 .. Len(LogOf(x, t)) /\ LogOf(x, t)[k].term = t
    BY <1>1, <1>2, <1>3, <2>1
  <2>3. k \in Nat /\ k <= Len(LogOf(w, t))
    BY <1>1, <2>1
  <2> QED BY <1>1, <1>2, <2>2, <2>3, SameLess DEF Own
<1>5. ASSUME Own(x, k, t), k <= Len(LogOf(w, t))
      PROVE  Own(w, k, t)
  <2>1. k \in 1 .. Len(LogOf(x, t)) /\ LogOf(x, t)[k].term = t
    BY <1>5 DEF Own
  <2>2. k \in 1 .. Len(LogOf(w, t))
    BY <1>1, <1>5, <2>1
  <2> QED BY <1>3, <2>1, <2>2 DEF Own
<1>6. ASSUME Own(x, k, t), ~Own(w, k, t)
      PROVE  t = TermOf(x, i) /\ k > Len(LogOf(w, t))
  <2>1. k \in Nat
    BY <1>1, <1>6 DEF Own
  <2>2. k > Len(LogOf(w, t))
    BY <1>1, <1>5, <1>6, <2>1
  <2>3. CASE t # TermOf(x, i)
    BY <1>6, <2>3 DEF Advances, Own
  <2> QED BY <2>2, <2>3
<1> QED BY <1>4, <1>5, <1>6

\* So is what a leader has committed, and what is the same up to there.
LEMMA CommittedGrows ==
  ASSUME NEW w, NEW x, NEW i \in Server, Advances(w, x, i), NEW l,
         Len(l) \in Nat, NEW c \in Nat, NEW t \in Nat, NEW u \in Nat, t <= u,
         Committed(w, l, c, t)
  PROVE  Committed(x, l, c, u)
<1> SUFFICES ASSUME c > 0
             PROVE  \E s \in Nat : \E k \in Nat :
                      /\ s <= u /\ c <= k /\ Own(x, k, s) /\ Chosen(x, k, s)
                      /\ SameTo(l, LogOf(x, s), c)
  BY DEF Committed
<1>1. PICK s \in Nat : \E k \in Nat :
        /\ s <= t /\ c <= k /\ Own(w, k, s) /\ Chosen(w, k, s)
        /\ SameTo(l, LogOf(w, s), c)
  BY DEF Committed
<1>2. PICK k \in Nat : /\ s <= t /\ c <= k /\ Own(w, k, s) /\ Chosen(w, k, s)
                       /\ SameTo(l, LogOf(w, s), c)
  BY <1>1
<1>3. s <= u
  BY <1>2
<1>4. Own(x, k, s)
  BY <1>2, OwnGrows
<1>5. Chosen(x, k, s)
  BY <1>2, ChosenGrows
<1>6. SameTo(l, LogOf(x, s), c)
  BY <1>2, SameGrows
<1> QED BY <1>2, <1>3, <1>4, <1>5, <1>6

\* A log that agrees with one whose entries are committed has them committed,
\* and so have shorter parts of it.
LEMMA CommittedSame ==
  ASSUME NEW w, NEW l, NEW a, Len(l) \in Nat, Len(a) \in Nat, NEW c \in Nat,
         NEW d \in Nat, d <= c, NEW t \in Nat, Committed(w, l, c, t),
         SameTo(a, l, d), \A s \in Nat : Len(LogOf(w, s)) \in Nat
  PROVE  Committed(w, a, d, t)
<1> SUFFICES ASSUME d > 0
             PROVE  \E s \in Nat : \E k \in Nat :
                      /\ s <= t /\ d <= k /\ Own(w, k, s) /\ Chosen(w, k, s)
                      /\ SameTo(a, LogOf(w, s), d)
  BY DEF Committed
<1>1. c > 0
  OBVIOUS
<1>2. PICK s \in Nat : \E k \in Nat :
        /\ s <= t /\ c <= k /\ Own(w, k, s) /\ Chosen(w, k, s)
        /\ SameTo(l, LogOf(w, s), c)
  BY <1>1 DEF Committed
<1>3. PICK k \in Nat : /\ s <= t /\ c <= k /\ Own(w, k, s) /\ Chosen(w, k, s)
                       /\ SameTo(l, LogOf(w, s), c)
  BY <1>2
<1>4. SameTo(l, LogOf(w, s), d)
  BY <1>3, SameLess
<1>5. SameTo(a, LogOf(w, s), d)
  BY <1>4, SameOver
<1>6. d <= k
  BY <1>3
<1> QED BY <1>3, <1>5, <1>6

\* A candidate that is one after a call of the same term was one before, with
\* the same log.
Stays(w, x, i) ==
  Elective(x.node[i]) /\ TermOf(x, i) = TermOf(w, i) =>
    Elective(w.node[i]) /\ Ents(x, i) = Ents(w, i)

\* The last term of a log without a snapshot.
LastOf(l) == IF l = <<>> THEN 0 ELSE l[Len(l)].term

\* Without snapshots, last_term() and last_index() are those of the entries.
LEMMA LastTermOf ==
  ASSUME NEW w, Chronicle(w), NodesSound(w), NEW v \in Server
  PROVE  /\ LastTerm(w.node[v].log) = LastOf(Ents(w, v))
         /\ LastIndex(w.node[v].log) = Len(Ents(w, v))
<1>1. w.node[v] \in StaticNode(v) /\ Sound(w.node[v])
  BY Parts DEF NodesSound
<1> QED BY <1>1, SoundLog DEF LastOf, Ents

\* A message stays true.
LEMMA ClaimsGrow ==
  ASSUME NEW w, NEW x, NEW i \in Server, Advances(w, x, i), Stays(w, x, i),
         NodesSound(w), NodesSound(x), NEW m \in Envelope, Claims(w, m)
  PROVE  Claims(x, m)
<1> DEFINE t == m.term
           c == m.message
<1>1. t \in Nat /\ m.from \in Server /\ c \in StaticMessage
  BY DEF Envelope
<1>2. /\ Len(LogOf(w, t)) \in Nat /\ Len(LogOf(x, t)) \in Nat
      /\ w.reads[t] \in Nat /\ x.reads[t] \in Nat
      /\ Held(w, t, m.from) \in Nat /\ Held(x, t, m.from) \in Nat
      /\ TermOf(w, m.from) \in Nat /\ TermOf(x, m.from) \in Nat
  BY <1>1, Parts DEF Advances
<1>3. /\ SameTo(LogOf(w, t), LogOf(x, t), Len(LogOf(w, t)))
      /\ Len(LogOf(w, t)) <= Len(LogOf(x, t))
      /\ w.reads[t] <= x.reads[t]
      /\ Held(w, t, m.from) <= Held(x, t, m.from)
      /\ TermOf(w, m.from) <= TermOf(x, m.from)
  BY <1>1, Grows
<1>4. c.type \notin {"InstallSnapshot", "InstallSnapshotResponse"}
  BY DEF Claims
<1>5. ASSUME c.type = "Append"
      PROVE  Segment(LogOf(x, t), c)
  <2>1. Segment(LogOf(w, t), c)
    BY <1>5 DEF Claims
  <2>2. c.base_index \in Nat /\ c.entries \in Seq(StaticEntry)
    BY <1>1, <1>5, MessageFields
  <2>3. Len(c.entries) \in Nat
    BY <2>2, LenProperties
  <2>4. \A y \in 1 .. Len(LogOf(w, t)) : LogOf(w, t)[y] = LogOf(x, t)[y]
    BY <1>3 DEF SameTo
  <2> HIDE DEF c, t
  <2>5. /\ c.base_index + Len(c.entries) <= Len(LogOf(w, t))
        /\ c.base_index + Len(c.entries) > 0
        /\ \A k \in 1 .. Len(c.entries) : c.entries[k] = LogOf(w, t)[c.base_index + k]
        /\ c.base_index > 0 => c.base_term = LogOf(w, t)[c.base_index].term
    BY <2>1 DEF Segment
  <2>6. c.base_index + Len(c.entries) <= Len(LogOf(x, t))
    BY <1>2, <1>3, <2>2, <2>3, <2>5
  <2>7. ASSUME NEW k \in 1 .. Len(c.entries)
        PROVE  c.entries[k] = LogOf(x, t)[c.base_index + k]
    <3>1. c.base_index + k \in 1 .. Len(LogOf(w, t))
      <4> DEFINE b == c.base_index
                 e == Len(c.entries)
                 o == Len(LogOf(w, t))
      <4>1. b \in Nat /\ e \in Nat /\ o \in Nat /\ b + e <= o /\ k \in 1 .. e
        BY <1>2, <2>2, <2>3, <2>5
      <4> HIDE DEF b, e, o
      <4>2. b + k \in 1 .. o
        BY <4>1
      <4> QED BY <4>2 DEF b, o
    <3>2. LogOf(w, t)[c.base_index + k] = LogOf(x, t)[c.base_index + k]
      BY <2>4, <3>1
    <3>3. c.entries[k] = LogOf(w, t)[c.base_index + k]
      BY <2>5
    <3> QED BY <3>2, <3>3
  <2>8. ASSUME c.base_index > 0
        PROVE  c.base_term = LogOf(x, t)[c.base_index].term
    <3>1. c.base_index \in 1 .. Len(LogOf(w, t))
      <4> DEFINE b == c.base_index
                 e == Len(c.entries)
                 o == Len(LogOf(w, t))
      <4>1. b \in Nat /\ e \in Nat /\ o \in Nat /\ b + e <= o /\ b > 0
        BY <1>2, <2>2, <2>3, <2>5, <2>8
      <4> HIDE DEF b, e, o
      <4>2. b \in 1 .. o
        BY <4>1
      <4> QED BY <4>2 DEF b, o
    <3>2. LogOf(w, t)[c.base_index] = LogOf(x, t)[c.base_index]
      BY <2>4, <3>1
    <3>3. c.base_term = LogOf(w, t)[c.base_index].term
      BY <2>5, <2>8
    <3> QED BY <3>2, <3>3
  <2> QED BY <2>5, <2>6, <2>7, <2>8 DEF Segment
<1>6. ASSUME c.type = "Heartbeat"
      PROVE  /\ c.last_index <= Len(LogOf(x, t)) /\ c.commit_index <= c.last_index
             /\ Committed(x, LogOf(x, t), c.commit_index, t)
             /\ c.read_seq <= x.reads[t]
  <2>1. /\ c.last_index <= Len(LogOf(w, t)) /\ c.commit_index <= c.last_index
        /\ Committed(w, LogOf(w, t), c.commit_index, t)
        /\ c.read_seq <= w.reads[t]
    BY <1>6 DEF Claims
  <2>2. c.last_index \in Nat /\ c.commit_index \in Nat /\ c.read_seq \in Nat
    BY <1>1, <1>6, MessageFields
  <2> HIDE DEF c, t
  <2>3. SameTo(LogOf(x, t), LogOf(w, t), c.commit_index)
    <3>1. c.commit_index <= Len(LogOf(w, t))
      BY <1>2, <2>1, <2>2
    <3> QED BY <1>2, <1>3, <2>2, <3>1, SameLess
  <2>4. Committed(x, LogOf(w, t), c.commit_index, t)
    <3>1. t <= t /\ t \in Nat
      BY <1>1
    <3> QED BY <1>2, <2>1, <2>2, <3>1, CommittedGrows
  <2>5. Committed(x, LogOf(x, t), c.commit_index, t)
    <3>1. \A s \in Nat : Len(LogOf(x, s)) \in Nat
      BY Parts DEF Advances
    <3>2. c.commit_index <= c.commit_index /\ t \in Nat
      BY <1>1, <2>2
    <3> QED BY <1>2, <2>2, <2>3, <2>4, <3>1, <3>2, CommittedSame
  <2> QED BY <1>2, <1>3, <2>1, <2>2, <2>5
<1>7. ASSUME c.type = "AppendResponse"
      PROVE  /\ c.match_index <= Held(x, t, m.from)
             /\ c.reject_index <= Len(LogOf(x, t))
             /\ (c.match_index > 0) # (c.reject_index > 0)
  <2>1. /\ c.match_index <= Held(w, t, m.from)
        /\ c.reject_index <= Len(LogOf(w, t))
        /\ (c.match_index > 0) # (c.reject_index > 0)
    BY <1>7 DEF Claims
  <2>2. c.match_index \in Nat /\ c.reject_index \in Nat
    BY <1>1, <1>7, MessageFields
  <2> HIDE DEF c, t
  <2> QED BY <1>2, <1>3, <2>1, <2>2
<1>8. ASSUME c.type = "HeartbeatResponse"
      PROVE  c.match_index <= Held(x, t, m.from) /\ c.read_seq <= x.reads[t]
  <2>1. c.match_index <= Held(w, t, m.from) /\ c.read_seq <= w.reads[t]
    BY <1>8 DEF Claims
  <2>2. c.match_index \in Nat /\ c.read_seq \in Nat
    BY <1>1, <1>8, MessageFields
  <2> HIDE DEF c, t
  <2> QED BY <1>2, <1>3, <2>1, <2>2
<1>9. ASSUME c.type = "Campaign"
      PROVE  /\ t <= TermOf(x, m.from)
             /\ Elective(x.node[m.from]) /\ TermOf(x, m.from) = t =>
                  /\ c.last_index = Len(Ents(x, m.from))
                  /\ c.last_term = LastTerm(x.node[m.from].log)
  <2>1. /\ t <= TermOf(w, m.from)
        /\ Elective(w.node[m.from]) /\ TermOf(w, m.from) = t =>
             /\ c.last_index = Len(Ents(w, m.from))
             /\ c.last_term = LastTerm(w.node[m.from].log)
    BY <1>9 DEF Claims, TermOf, Ents
  <2> HIDE DEF c, t
  <2>2. t <= TermOf(x, m.from)
    BY <1>1, <1>2, <1>3, <2>1
  <2>3. ASSUME Elective(x.node[m.from]), TermOf(x, m.from) = t
        PROVE  /\ c.last_index = Len(Ents(x, m.from))
               /\ c.last_term = LastTerm(x.node[m.from].log)
    <3>1. TermOf(w, m.from) = t
      BY <1>1, <1>2, <1>3, <2>1, <2>3
    <3>2. Elective(w.node[m.from]) /\ Ents(x, m.from) = Ents(w, m.from)
      <4>1. CASE m.from = i
        BY <2>3, <3>1, <4>1 DEF Stays
      <4>2. CASE m.from # i
        BY <1>1, <2>3, <4>2, Grows DEF Advances
      <4> QED BY <4>1, <4>2
    <3>3. /\ LastTerm(w.node[m.from].log) = LastOf(Ents(w, m.from))
          /\ LastTerm(x.node[m.from].log) = LastOf(Ents(x, m.from))
      BY <1>1, LastTermOf DEF Advances
    <3> QED BY <2>1, <3>1, <3>2, <3>3
  <2> QED BY <2>2, <2>3
<1> QED BY <1>4, <1>5, <1>6, <1>7, <1>8, <1>9 DEF Claims, TermOf, Ents

-----------------------------------------------------------------------------
(* The two kinds of calls.                                                 *)

\* Node i's call r serves, and it has vouched for e entries of its leader's.
ServedBy(w, x, i, r, M, e) ==
  LET T == TermOf(x, i)
  IN /\ Consistent(w) /\ Voted(x) /\ Advances(w, x, i) /\ x.node[i] = r.n
     /\ Serves(i, M, LogOf(w, T), w.node[i], e, r)
     /\ \A m \in M : m \in Envelope /\ Claims(w, m)
     /\ x.log = w.log /\ x.reads = w.reads /\ x.offices = w.offices
     /\ x.mail \subseteq w.mail \cup r.out
     /\ e \in Nat /\ e <= Held(x, T, i) /\ Held(x, T, i) \in {e, Held(w, T, i)}

\* Node i's call r governs, and the log of its term is then its own.
GovernedBy(w, x, i, r, s) ==
  LET T == TermOf(x, i)
  IN /\ Consistent(w) /\ Voted(x) /\ Advances(w, x, i) /\ x.node[i] = r.n
     /\ Governs(i, w.held[T], s, w.node[i], r)
     /\ LogOf(x, T) = Ents(x, i) /\ Held(x, T, i) = Len(Ents(x, i))
     /\ x.reads[T] = s
     /\ x.offices = w.offices \cup {[leader |-> i, term |-> T]}
     /\ Polled([leader |-> i, term |-> T], x.ballots)
     /\ x.mail \subseteq w.mail \cup r.out

\* What a node's step on the requests of a leader, or on none, leaves: the node's
\* log is the old one or caught up with the leader's, its commit index is covered
\* by what it matched, and it voted only for a log at least as good as its own.
LEMMA Served ==
  ASSUME NEW w, NEW x, NEW i \in Server, NEW r, NEW M, NEW e,
         ServedBy(w, x, i, r, M, e)
  PROVE  LET T == TermOf(x, i)
             l == LogOf(w, T)
             n == w.node[i]
             k == x.node[i]
         IN /\ Advances(w, x, i) /\ Consistent(w) /\ Voted(x)
            /\ k = r.n /\ k \in StaticNode(i) /\ n \in StaticNode(i)
            /\ Sound(k) /\ k.role.kind # "Leader"
            /\ k.role.kind = "Panicked" => k.role.why \in Unexpected
            /\ \A t \in Nat : LogOf(x, t) = LogOf(w, t) /\ x.reads[t] = w.reads[t]
            /\ \/ Ents(x, i) = Ents(w, i)
               \/ /\ CatchesUp(Ents(w, i), Ents(x, i), l)
                  /\ CommitOf(x, i) = CommitOf(w, i)
            /\ SameTo(Ents(x, i), l, e)
            /\ \/ CommitOf(x, i) <= CommitOf(w, i)
               \/ /\ CommitOf(x, i) <= e
                  /\ \E m \in M : /\ m.message.type = "Heartbeat"
                                  /\ m.term = T
                                  /\ CommitOf(x, i) <= m.message.commit_index
            /\ \/ /\ T = TermOf(w, i) /\ k.log.vote = n.log.vote
                  /\ Elective(k) => Elective(n) /\ Ents(x, i) = Ents(w, i)
               \/ /\ T > TermOf(w, i) /\ k.log.vote = i
                  /\ Ents(x, i) = Ents(w, i)
               \/ T > TermOf(w, i) /\ k.log.vote = Nil /\ ~Elective(k)
               \/ /\ ~Elective(k) /\ Ents(x, i) = Ents(w, i)
                  /\ \E m \in M : /\ m.message.type = "Campaign" /\ m.term = T
                                  /\ m.from = k.log.vote /\ LogOk(n, m.message)
            /\ Vouches(M, l, e, k, r.out)
            /\ r.out \subseteq StaticEnv(i)
<1> DEFINE T == TermOf(x, i)
           l == LogOf(w, T)
           n == w.node[i]
           k == x.node[i]
<1>1. /\ Advances(w, x, i) /\ Consistent(w) /\ Voted(x) /\ k = r.n
      /\ Serves(i, M, l, n, e, r)
  BY DEF ServedBy
<1>2. \A t \in Nat : LogOf(x, t) = LogOf(w, t) /\ x.reads[t] = w.reads[t]
  BY DEF ServedBy, LogOf
<1>3. k \in StaticNode(i) /\ n \in StaticNode(i)
  BY <1>1, Parts DEF Advances
<1>4. /\ T = k.log.term /\ TermOf(w, i) = n.log.term
      /\ Ents(x, i) = k.log.ents /\ Ents(w, i) = n.log.ents
      /\ CommitOf(x, i) = k.log.commit /\ CommitOf(w, i) = n.log.commit
  BY DEF TermOf, Ents, CommitOf
<1> HIDE DEF T, l, n, k
<1>5. /\ Sound(k) /\ k.role.kind # "Leader"
      /\ k.role.kind = "Panicked" => k.role.why \in Unexpected
      /\ \/ k.log.ents = n.log.ents
         \/ CatchesUp(n.log.ents, k.log.ents, l) /\ k.log.commit = n.log.commit
      /\ SameTo(k.log.ents, l, e)
  BY <1>1 DEF Serves
<1>6. /\ \/ k.log.commit <= n.log.commit
         \/ /\ k.log.commit <= e
            /\ \E m \in M : /\ m.message.type = "Heartbeat"
                            /\ m.term = k.log.term
                            /\ k.log.commit <= m.message.commit_index
      /\ Casts(i, M, n, k)
      /\ Vouches(M, l, e, k, r.out)
      /\ r.out \subseteq StaticEnv(i)
  BY <1>1 DEF Serves, Outcome
<1>7. \/ /\ T = TermOf(w, i) /\ k.log.vote = n.log.vote
         /\ Elective(k) => Elective(n) /\ Ents(x, i) = Ents(w, i)
      \/ /\ T > TermOf(w, i) /\ k.log.vote = i
         /\ Ents(x, i) = Ents(w, i)
      \/ T > TermOf(w, i) /\ k.log.vote = Nil /\ ~Elective(k)
      \/ /\ ~Elective(k) /\ Ents(x, i) = Ents(w, i)
         /\ \E m \in M : /\ m.message.type = "Campaign" /\ m.term = T
                         /\ m.from = k.log.vote /\ LogOk(n, m.message)
  BY <1>4, <1>6 DEF Casts, SameBallot
<1>8. /\ \/ Ents(x, i) = Ents(w, i)
         \/ /\ CatchesUp(Ents(w, i), Ents(x, i), l)
            /\ CommitOf(x, i) = CommitOf(w, i)
      /\ SameTo(Ents(x, i), l, e)
      /\ \/ CommitOf(x, i) <= CommitOf(w, i)
         \/ /\ CommitOf(x, i) <= e
            /\ \E m \in M : /\ m.message.type = "Heartbeat"
                            /\ m.term = T
                            /\ CommitOf(x, i) <= m.message.commit_index
  BY <1>4, <1>5, <1>6
<1> QED BY <1>1, <1>2, <1>3, <1>5, <1>6, <1>7, <1>8 DEF T, l, n, k

\* What a step that makes or keeps a node the leader of its term leaves: its log
\* has only grown by entries of the term, what it tells followers is true, and it
\* commits only what a quorum has vouched for.
LEMMA Governed ==
  ASSUME NEW w, NEW x, NEW i \in Server, NEW r, NEW s,
         GovernedBy(w, x, i, r, s)
  PROVE  LET T == TermOf(x, i)
             n == w.node[i]
             k == x.node[i]
         IN /\ Advances(w, x, i) /\ Consistent(w) /\ Voted(x)
            /\ k = r.n /\ k \in StaticNode(i) /\ n \in StaticNode(i)
            /\ Sound(k) /\ k.role.kind # "Candidate" /\ ~Elective(k)
            /\ k.role.kind = "Panicked" => k.role.why \in Unexpected
            /\ Longer(Ents(w, i), Ents(x, i), T)
            /\ CommitOf(x, i) <= CommitOf(w, i) \/ Agreed(i, w.held[T], k)
            /\ Reports(T, Ents(x, i), CommitOf(x, i), s, r.out)
            /\ k.role.kind = "Leader" =>
                 /\ Tracks(i, w.held[T], k) /\ Current(k) /\ k.role.read_seq = s
            /\ \/ /\ n.role.kind = "Leader" /\ T = TermOf(w, i)
                  /\ k.log.vote = n.log.vote /\ s >= n.role.read_seq
               \/ /\ k.role.kind = "Leader" /\ k.log.vote = i
                  /\ \/ Elective(n) /\ T = TermOf(w, i)
                     \/ T > TermOf(w, i)
            /\ r.out \subseteq StaticEnv(i)
<1> DEFINE T == TermOf(x, i)
           n == w.node[i]
           k == x.node[i]
<1>1. /\ Advances(w, x, i) /\ Consistent(w) /\ Voted(x) /\ k = r.n
      /\ Governs(i, w.held[T], s, n, r)
  BY DEF GovernedBy
<1>3. k \in StaticNode(i) /\ n \in StaticNode(i)
  BY <1>1, Parts DEF Advances
<1>4. /\ T = k.log.term /\ TermOf(w, i) = n.log.term
      /\ Ents(x, i) = k.log.ents /\ Ents(w, i) = n.log.ents
      /\ CommitOf(x, i) = k.log.commit /\ CommitOf(w, i) = n.log.commit
  BY DEF TermOf, Ents, CommitOf
<1> HIDE DEF T, n, k
<1>5. /\ Sound(k) /\ k.role.kind # "Candidate"
      /\ k.role.kind = "Panicked" => k.role.why \in Unexpected
      /\ Longer(n.log.ents, k.log.ents, k.log.term)
      /\ k.log.commit <= n.log.commit \/ Agreed(i, w.held[T], k)
      /\ Reports(k.log.term, k.log.ents, k.log.commit, s, r.out)
      /\ k.role.kind = "Leader" =>
           Tracks(i, w.held[T], k) /\ Current(k) /\ k.role.read_seq = s
      /\ r.out \subseteq StaticEnv(i)
  BY <1>1 DEF Governs, Outcome
<1>6. \/ /\ n.role.kind = "Leader" /\ SameBallot(n.log, k.log)
         /\ s >= n.role.read_seq
      \/ /\ k.role.kind = "Leader" /\ k.log.vote = i
         /\ \/ Elective(n) /\ k.log.term = n.log.term
            \/ k.log.term > n.log.term
  BY <1>1 DEF Governs
<1>7. \/ /\ n.role.kind = "Leader" /\ T = TermOf(w, i)
         /\ k.log.vote = n.log.vote /\ s >= n.role.read_seq
      \/ /\ k.role.kind = "Leader" /\ k.log.vote = i
         /\ \/ Elective(n) /\ T = TermOf(w, i)
            \/ T > TermOf(w, i)
  BY <1>4, <1>6 DEF SameBallot
<1>8. ~Elective(k)
  BY <1>5 DEF Elective
<1>9. /\ Longer(Ents(w, i), Ents(x, i), T)
      /\ CommitOf(x, i) <= CommitOf(w, i) \/ Agreed(i, w.held[T], k)
      /\ Reports(T, Ents(x, i), CommitOf(x, i), s, r.out)
  BY <1>4, <1>5
<1> QED BY <1>1, <1>3, <1>5, <1>7, <1>8, <1>9 DEF T, n, k

-----------------------------------------------------------------------------
(* Offices.                                                                *)

\* Two leaders of a term are one: two majorities share a voter.
LEMMA OneOffice ==
  ASSUME NEW B, \A a, b \in B : a.voter = b.voter /\ a.term = b.term
                                  => a.vote = b.vote,
         NEW d, NEW e, Polled(d, B), Polled(e, B), d.term = e.term
  PROVE  d.leader = e.leader
<1>1. PICK P \in SUBSET Server :
        /\ Majority(Server, P)
        /\ \A v \in P : [voter |-> v, term |-> d.term, vote |-> d.leader] \in B
  BY DEF Polled
<1>2. PICK Q \in SUBSET Server :
        /\ Majority(Server, Q)
        /\ \A v \in Q : [voter |-> v, term |-> e.term, vote |-> e.leader] \in B
  BY DEF Polled
<1>3. PICK v \in Server : v \in P /\ v \in Q
  <2>1. IsFiniteSet(Server)
    BY NodeAssumption
  <2> QED BY <1>1, <1>2, <2>1, MajoritiesShare
<1> QED BY <1>1, <1>2, <1>3

\* A majority of ballots is one among more ballots.
LEMMA PolledMore ==
  ASSUME NEW e, NEW A, NEW B, A \subseteq B, Polled(e, A)
  PROVE  Polled(e, B)
BY DEF Polled

\* A term that nobody has led has no log.
LEMMA Unled ==
  ASSUME NEW w, Consistent(w), NEW t \in Nat, \A e \in w.offices : e.term # t
  PROVE  /\ LogOf(w, t) = <<>> /\ Len(LogOf(w, t)) = 0 /\ w.reads[t] = 0
         /\ \A v \in Server : Held(w, t, v) = 0
<1>1. Chronicle(w) /\ LedByElected(w) /\ HeldNow(w)
  BY DEF Consistent
<1>2. LogOf(w, t) = <<>> /\ ~(w.reads[t] > 0)
  BY <1>1 DEF LedByElected
<1>3. LogOf(w, t) \in Seq(StaticEntry) /\ w.reads[t] \in Nat
  BY <1>1, Parts
<1>4. Len(LogOf(w, t)) = 0
  BY <1>2, <1>3, EmptyLen
<1>5. ASSUME NEW v \in Server
      PROVE  Held(w, t, v) = 0
  <2>1. Held(w, t, v) \in Nat /\ Held(w, t, v) <= Len(LogOf(w, t))
    BY <1>1, Parts DEF HeldNow
  <2> QED BY <1>4, <2>1
<1> QED BY <1>2, <1>3, <1>4, <1>5

\* The term T that node i governs was its own already, or nobody has led it.
Seated(w, i, k, s, T) ==
  LET n == w.node[i]
  IN /\ T > 0 /\ w.reads[T] <= s
     /\ \/ /\ n.role.kind = "Leader" /\ T = TermOf(w, i)
           /\ [leader |-> i, term |-> T] \in w.offices
           /\ LogOf(w, T) = Ents(w, i) /\ LogOf(w, T) # <<>>
           /\ w.reads[T] = n.role.read_seq
        \/ /\ k.role.kind = "Leader" /\ k.log.vote = i
           /\ (Elective(n) /\ T = TermOf(w, i)) \/ T > TermOf(w, i)
           /\ \A e \in w.offices : e.term # T
           /\ LogOf(w, T) = <<>>

\* A node that leads after its step was seated: it led before the step or has won
\* the election of its term, which nobody else has led.
LEMMA OfficeIs ==
  ASSUME NEW w, Consistent(w), NEW i \in Server, NEW r, NEW s \in Nat, NEW a,
         Governs(i, a, s, w.node[i], r), NEW B, w.ballots \subseteq B,
         \A b, c \in B : b.voter = c.voter /\ b.term = c.term => b.vote = c.vote,
         NEW T \in Nat, T = r.n.log.term,
         Polled([leader |-> i, term |-> T], B)
  PROVE  Seated(w, i, r.n, s, T)
<1> DEFINE n == w.node[i]
           o == [leader |-> i, term |-> T]
<1>1. /\ Chronicle(w) /\ LeadersTrack(w) /\ NotYetLed(w) /\ LedByElected(w)
      /\ NodesRooted(w)
  BY DEF Consistent
<1>2. TermOf(w, i) \in Nat /\ TermOf(w, i) = n.log.term /\ Ents(w, i) = n.log.ents
      /\ Ents(w, i) \in Seq(StaticEntry) /\ Len(Ents(w, i)) \in Nat
  BY <1>1, Parts DEF TermOf, Ents
<1>3. \/ n.role.kind = "Leader" /\ T = TermOf(w, i) /\ s >= n.role.read_seq
      \/ /\ r.n.role.kind = "Leader" /\ r.n.log.vote = i
         /\ \/ Elective(n) /\ T = TermOf(w, i)
            \/ T > TermOf(w, i)
  BY <1>2 DEF Governs, SameBallot
<1>4. CASE n.role.kind = "Leader" /\ T = TermOf(w, i) /\ s >= n.role.read_seq
  <2>1. /\ [leader |-> i, term |-> T] \in w.offices
        /\ Ents(w, i) = LogOf(w, T) /\ Current(n)
        /\ n.role.read_seq = w.reads[T]
    BY <1>1, <1>4 DEF LeadersTrack
  <2>2. Len(Ents(w, i)) > 0 /\ Ents(w, i)[Len(Ents(w, i))].term = T
    BY <1>2, <1>4, <2>1 DEF Current
  <2>3. T > 0
    <3>1. Rising(Ents(w, i), T)
      BY <1>1, <1>4 DEF NodesRooted
    <3>2. Len(Ents(w, i)) \in 1 .. Len(Ents(w, i))
      BY <1>2, <2>2
    <3> QED BY <2>2, <3>1, <3>2 DEF Rising
  <2>4. LogOf(w, T) # <<>>
    BY <1>2, <2>1, <2>2, EmptyLen
  <2>5. w.reads[T] \in Nat /\ w.reads[T] <= s
    BY <1>1, <1>4, <2>1, Parts
  <2> QED BY <1>4, <2>1, <2>3, <2>4, <2>5 DEF Seated
<1>5. CASE /\ r.n.role.kind = "Leader" /\ r.n.log.vote = i
           /\ \/ Elective(n) /\ T = TermOf(w, i)
              \/ T > TermOf(w, i)
  <2>1. o \notin w.offices
    <3>1. CASE Elective(n) /\ T = TermOf(w, i)
      BY <1>1, <3>1 DEF NotYetLed
    <3>2. CASE T > TermOf(w, i)
      <4> SUFFICES ASSUME o \in w.offices
                   PROVE  FALSE
        OBVIOUS
      <4>1. o.term <= TermOf(w, o.leader)
        BY <1>1, Zenon DEF LedByElected
      <4> QED BY <1>2, <3>2, <4>1
    <3> QED BY <1>5, <3>1, <3>2
  <2>2. \A e \in w.offices : e.term # T
    <3> SUFFICES ASSUME NEW e \in w.offices, e.term = T
                 PROVE  FALSE
      OBVIOUS
    <3>1. Polled(e, w.ballots)
      BY <1>1 DEF LedByElected
    <3>2. Polled(e, B)
      BY <3>1, PolledMore
    <3>3. e.leader = o.leader
      <4>1. e.term = o.term
        OBVIOUS
      <4>2. Polled(o, B)
        OBVIOUS
      <4> HIDE DEF o
      <4> QED BY <3>2, <4>1, <4>2, OneOffice
    <3>4. e \in [leader : Server, term : Nat]
      BY <1>1 DEF Chronicle
    <3>5. e = o
      BY <3>3, <3>4
    <3> QED BY <2>1, <3>5
  <2>3. LogOf(w, T) = <<>> /\ w.reads[T] = 0
    BY <2>2, Unled
  <2>4. T > 0
    <3>1. CASE Elective(n) /\ T = TermOf(w, i)
      BY <1>1, <3>1 DEF NotYetLed
    <3>2. CASE T > TermOf(w, i)
      BY <1>2, <3>2
    <3> QED BY <1>5, <3>1, <3>2
  <2>5. w.reads[T] <= s
    BY <2>3
  <2> QED BY <1>5, <2>2, <2>3, <2>4, <2>5 DEF Seated
<1> QED BY <1>3, <1>4, <1>5

\* What was known of the term that a call of node i governs, whose reads have
\* reached s: i led it already, or nobody did.
TakesOffice(w, x, i, s) ==
  LET T == TermOf(x, i)
      n == w.node[i]
  IN /\ T > 0 /\ s \in Nat /\ T \in Nat
     /\ \/ /\ n.role.kind = "Leader" /\ T = TermOf(w, i)
           /\ [leader |-> i, term |-> T] \in w.offices
           /\ LogOf(w, T) = Ents(w, i) /\ LogOf(w, T) # <<>>
           /\ x.node[i].log.vote = n.log.vote
        \/ /\ x.node[i].role.kind = "Leader" /\ x.node[i].log.vote = i
           /\ (Elective(n) /\ T = TermOf(w, i)) \/ T > TermOf(w, i)
           /\ \A e \in w.offices : e.term # T
           /\ LogOf(w, T) = <<>>

LEMMA OfficeBefore ==
  ASSUME NEW w, NEW x, NEW i \in Server, NEW r, NEW s,
         GovernedBy(w, x, i, r, s)
  PROVE  TakesOffice(w, x, i, s)
<1> DEFINE T == TermOf(x, i)
           n == w.node[i]
           a == w.held[T]
<1>1. /\ Consistent(w) /\ Voted(x) /\ Advances(w, x, i) /\ x.node[i] = r.n
      /\ Governs(i, a, s, n, r) /\ x.reads[T] = s
      /\ Polled([leader |-> i, term |-> T], x.ballots)
  BY DEF GovernedBy
<1>2. T \in Nat /\ s \in Nat /\ T = r.n.log.term /\ TermOf(w, i) \in Nat
  BY <1>1, Parts DEF Advances, TermOf
<1>3. w.ballots \subseteq x.ballots
      /\ \A b, c \in x.ballots : b.voter = c.voter /\ b.term = c.term
                                   => b.vote = c.vote
  BY <1>1 DEF Advances, Voted
<1> HIDE DEF T, a
<1>4. Seated(w, i, r.n, s, T)
  <2>1. Governs(i, a, s, w.node[i], r)
    BY <1>1
  <2>2. Polled([leader |-> i, term |-> T], x.ballots)
    BY <1>1
  <2>3. Consistent(w) /\ T \in Nat /\ T = r.n.log.term /\ s \in Nat
    BY <1>1, <1>2
  <2> QED BY <1>3, <2>1, <2>2, <2>3, OfficeIs
<1>5. ASSUME n.role.kind = "Leader", T = TermOf(w, i)
      PROVE  x.node[i].log.vote = n.log.vote
  <2>1. ~Elective(n) /\ ~(T > TermOf(w, i))
    BY <1>2, <1>5 DEF Elective
  <2> QED BY <2>1, Governed DEF T
<1> QED BY <1>1, <1>2, <1>4, <1>5 DEF T, Seated, TakesOffice

-----------------------------------------------------------------------------
(* Logs stay rooted and terms rise.                                        *)

\* A node that campaigns in its old term after serving a leader did so before, with
\* the same log.
LEMMA ServedStays ==
  ASSUME NEW w, NEW x, NEW i \in Server, NEW r, NEW M, NEW e,
         ServedBy(w, x, i, r, M, e)
  PROVE  Stays(w, x, i)
<1>1. TermOf(w, i) \in Nat /\ TermOf(x, i) \in Nat
  BY Parts DEF ServedBy, Advances
<1> QED BY <1>1, Served DEF Stays

\* A step of a leader leaves it no candidate.
LEMMA GovernedStays ==
  ASSUME NEW w, NEW x, NEW i \in Server, NEW r, NEW s,
         GovernedBy(w, x, i, r, s)
  PROVE  Stays(w, x, i)
BY Governed DEF Stays

\* A rooted log that goes on with entries of the term of the log it is.
LEMMA RootedLonger ==
  ASSUME NEW w, NEW a \in Seq(StaticEntry), NEW b \in Seq(StaticEntry),
         NEW T \in Nat, NEW u \in Nat, u <= T, T > 0, Rooted(w, a), Rising(a, u),
         Longer(a, b, T), LogOf(w, T) = b
  PROVE  Rooted(w, b) /\ Rising(b, T)
<1>1. Len(a) \in Nat /\ Len(b) \in Nat /\ SameTo(a, b, Len(a))
      /\ \A y \in Len(a) + 1 .. Len(b) : b[y].term = T
  BY LenProperties DEF Longer
<1>2. Len(a) <= Len(b) /\ \A y \in 1 .. Len(a) : a[y] = b[y]
  BY <1>1 DEF SameTo
<1>3. \A y \in 1 .. Len(a) : a[y].term \in Nat
  <2> SUFFICES ASSUME NEW y \in 1 .. Len(a)
               PROVE  a[y].term \in Nat
    OBVIOUS
  <2>1. a[y] \in StaticEntry
    BY ElementOfSeq
  <2> QED BY <2>1 DEF StaticEntry
<1>4. ASSUME NEW k \in 1 .. Len(b)
      PROVE  k \in Nat /\ \/ k \in 1 .. Len(a) /\ b[k] = a[k]
                          \/ k \in Len(a) + 1 .. Len(b) /\ b[k].term = T
  BY <1>1, <1>2
<1>5. ASSUME NEW k \in 1 .. Len(b)
      PROVE  SameTo(b, LogOf(w, b[k].term), k)
  <2>1. CASE k \in 1 .. Len(a) /\ b[k] = a[k]
    <3>1. SameTo(a, LogOf(w, a[k].term), k)
      BY <2>1 DEF Rooted
    <3>2. SameTo(b, a, k)
      BY <1>1, <1>2, <2>1 DEF SameTo
    <3> QED BY <2>1, <3>1, <3>2, SameOver
  <2>2. CASE k \in Len(a) + 1 .. Len(b) /\ b[k].term = T
    <3>1. SameTo(b, b, k)
      BY <1>1 DEF SameTo
    <3> QED BY <2>2, <3>1
  <2> QED BY <1>4, <2>1, <2>2
<1>6. ASSUME NEW y \in 1 .. Len(b)
      PROVE  /\ b[y].term > 0 /\ b[y].term <= T
             /\ \A z \in 1 .. y : b[z].term <= b[y].term
  <2>1. CASE y \in 1 .. Len(a) /\ b[y] = a[y]
    <3>1. a[y].term > 0 /\ a[y].term <= u /\ \A z \in 1 .. y : a[z].term <= a[y].term
      BY <2>1 DEF Rising
    <3>2. a[y].term \in Nat
      BY <1>3, <2>1
    <3>3. \A z \in 1 .. y : b[z] = a[z]
      BY <1>1, <1>2, <2>1
    <3> QED BY <2>1, <3>1, <3>2, <3>3
  <2>2. CASE y \in Len(a) + 1 .. Len(b) /\ b[y].term = T
    <3>1. ASSUME NEW z \in 1 .. y
          PROVE  b[z].term <= T
      <4>1. z \in 1 .. Len(b)
        BY <1>1
      <4>2. CASE z \in 1 .. Len(a) /\ b[z] = a[z]
        <5>1. a[z].term <= u /\ a[z].term \in Nat
          BY <1>3, <4>2 DEF Rising
        <5> QED BY <4>2, <5>1
      <4>3. CASE b[z].term = T
        BY <4>3
      <4> QED BY <1>4, <4>1, <4>2, <4>3
    <3> QED BY <2>2, <3>1
  <2> QED BY <1>4, <2>1, <2>2
<1> QED BY <1>5, <1>6 DEF Rooted, Rising

\* Terms that rise up to a term rise up to a later one.
LEMMA RisingLater ==
  ASSUME NEW l \in Seq(StaticEntry), NEW t \in Nat, NEW u \in Nat, t <= u,
         Rising(l, t)
  PROVE  Rising(l, u)
<1> SUFFICES ASSUME NEW y \in 1 .. Len(l)
             PROVE  l[y].term <= u
  BY DEF Rising
<1>1. l[y] \in StaticEntry
  BY ElementOfSeq
<1> QED BY <1>1 DEF Rising, StaticEntry

\* So does a stretch of a rooted log.
LEMMA RootedPrefix ==
  ASSUME NEW w, NEW a \in Seq(StaticEntry), NEW b \in Seq(StaticEntry),
         NEW t, Rooted(w, b), Rising(b, t), SameTo(a, b, Len(a))
  PROVE  Rooted(w, a) /\ Rising(a, t)
<1>1. Len(a) \in Nat /\ Len(b) \in Nat /\ Len(a) <= Len(b)
      /\ \A y \in 1 .. Len(a) : a[y] = b[y]
  BY LenProperties DEF SameTo
<1>2. ASSUME NEW k \in 1 .. Len(a)
      PROVE  SameTo(a, LogOf(w, a[k].term), k)
  <2>1. k \in 1 .. Len(b) /\ a[k] = b[k] /\ k \in Nat
    BY <1>1
  <2>2. SameTo(b, LogOf(w, b[k].term), k)
    BY <2>1 DEF Rooted
  <2>3. SameTo(a, b, k)
    BY <1>1 DEF SameTo
  <2> QED BY <2>1, <2>2, <2>3, SameOver
<1>3. Rising(a, t)
  <2> SUFFICES ASSUME NEW y \in 1 .. Len(a)
               PROVE  /\ a[y].term > 0 /\ a[y].term <= t
                      /\ \A z \in 1 .. y : a[z].term <= a[y].term
    BY DEF Rising
  <2>1. y \in 1 .. Len(b) /\ a[y] = b[y] /\ \A z \in 1 .. y : a[z] = b[z]
    BY <1>1
  <2> QED BY <2>1 DEF Rising
<1> QED BY <1>2, <1>3 DEF Rooted

\* The logs of leaders are rooted.
LEMMA ServedLeadersRooted ==
  ASSUME NEW w, NEW x, NEW i \in Server, NEW r, NEW M, NEW e,
         ServedBy(w, x, i, r, M, e)
  PROVE  LeadersRooted(x)
<1>1. Consistent(w) /\ Advances(w, x, i) /\ Chronicle(w)
  BY DEF ServedBy, Consistent
<1>2. ASSUME NEW t \in Nat
      PROVE  Rooted(x, LogOf(x, t)) /\ Rising(LogOf(x, t), t)
  <2>1. LogOf(x, t) = LogOf(w, t)
    BY DEF ServedBy, LogOf
  <2>2. Rooted(w, LogOf(w, t)) /\ Rising(LogOf(w, t), t)
    BY <1>1 DEF Consistent, LeadersRooted
  <2>3. LogOf(w, t) \in Seq(StaticEntry)
    BY <1>1, Parts
  <2>4. Rooted(x, LogOf(w, t))
    BY <1>1, <2>2, <2>3, RootedGrows
  <2> QED BY <2>1, <2>2, <2>4
<1> QED BY <1>2 DEF LeadersRooted

\* A leader's new entries are of its term, on top of a rooted log (append() of
\* RawNode<Leader>): the logs of leaders stay rooted.
LEMMA GovernedLeadersRooted ==
  ASSUME NEW w, NEW x, NEW i \in Server, NEW r, NEW s,
         GovernedBy(w, x, i, r, s)
  PROVE  /\ LeadersRooted(x)
         /\ Rooted(x, Ents(x, i)) /\ Rising(Ents(x, i), TermOf(x, i))
<1> DEFINE T == TermOf(x, i)
<1>1. /\ Consistent(w) /\ Advances(w, x, i) /\ Chronicle(w) /\ Chronicle(x)
      /\ LogOf(x, T) = Ents(x, i)
  BY DEF GovernedBy, Consistent, Advances
<1>2. /\ T \in Nat /\ TermOf(w, i) \in Nat
      /\ Ents(w, i) \in Seq(StaticEntry) /\ Ents(x, i) \in Seq(StaticEntry)
  BY <1>1, Parts
<1>3. TermOf(w, i) <= T /\ T > 0 /\ Longer(Ents(w, i), Ents(x, i), T)
  BY <1>1, OfficeBefore, Governed DEF Advances, TakesOffice
<1>4. Rooted(w, Ents(w, i)) /\ Rising(Ents(w, i), TermOf(w, i))
  BY <1>1 DEF Consistent, NodesRooted
<1>5. Rooted(x, Ents(w, i))
  BY <1>1, <1>2, <1>4, RootedGrows
<1>6. Rooted(x, Ents(x, i)) /\ Rising(Ents(x, i), T)
  <2> HIDE DEF T
  <2> QED BY <1>1, <1>2, <1>3, <1>4, <1>5, RootedLonger
<1>7. ASSUME NEW t \in Nat
      PROVE  Rooted(x, LogOf(x, t)) /\ Rising(LogOf(x, t), t)
  <2>1. CASE t = T
    BY <1>1, <1>6, <2>1
  <2>2. CASE t # T
    <3>1. LogOf(x, t) = LogOf(w, t)
      BY <1>1, <2>2 DEF Advances
    <3>2. Rooted(w, LogOf(w, t)) /\ Rising(LogOf(w, t), t)
      BY <1>1 DEF Consistent, LeadersRooted
    <3>3. LogOf(w, t) \in Seq(StaticEntry)
      BY <1>1, Parts
    <3>4. Rooted(x, LogOf(w, t))
      BY <1>1, <3>2, <3>3, RootedGrows
    <3> QED BY <3>1, <3>2, <3>4
  <2> QED BY <2>1, <2>2
<1> QED BY <1>6, <1>7 DEF LeadersRooted

\* So are the logs of nodes: i's is, whatever it did, and the others' are as
\* they were.
LEMMA OthersRooted ==
  ASSUME NEW w, NEW x, NEW i \in Server, Consistent(w), Advances(w, x, i),
         Rooted(x, Ents(x, i)), Rising(Ents(x, i), TermOf(x, i))
  PROVE  NodesRooted(x)
<1>1. ASSUME NEW v \in Server, v # i
      PROVE  Rooted(x, Ents(x, v)) /\ Rising(Ents(x, v), TermOf(x, v))
  <2>1. Ents(x, v) = Ents(w, v) /\ TermOf(x, v) = TermOf(w, v)
    BY <1>1, Grows
  <2>2. Rooted(w, Ents(w, v)) /\ Rising(Ents(w, v), TermOf(w, v))
    BY DEF Consistent, NodesRooted
  <2>3. Ents(w, v) \in Seq(StaticEntry)
    BY Parts DEF Consistent
  <2>4. Rooted(x, Ents(w, v))
    BY <2>2, <2>3, RootedGrows
  <2> QED BY <2>1, <2>2, <2>4
<1> QED BY <1>1 DEF NodesRooted

\* A follower that splices entries of the leader in keeps a rooted log.
LEMMA ServedNodesRooted ==
  ASSUME NEW w, NEW x, NEW i \in Server, NEW r, NEW M, NEW e,
         ServedBy(w, x, i, r, M, e)
  PROVE  NodesRooted(x)
<1> DEFINE T == TermOf(x, i)
           l == LogOf(w, T)
<1>1. Consistent(w) /\ Advances(w, x, i) /\ Chronicle(w) /\ Chronicle(x)
  BY DEF ServedBy, Consistent, Advances
<1>2. /\ T \in Nat /\ TermOf(w, i) \in Nat /\ TermOf(w, i) <= T
      /\ Ents(w, i) \in Seq(StaticEntry) /\ Ents(x, i) \in Seq(StaticEntry)
      /\ l \in Seq(StaticEntry)
  BY <1>1, Parts DEF Advances
<1>3. Ents(x, i) = Ents(w, i) \/ CatchesUp(Ents(w, i), Ents(x, i), l)
  BY Served
<1> HIDE DEF T, l
<1>4. Rooted(w, Ents(x, i)) /\ Rising(Ents(x, i), T)
  <2>1. CASE Ents(x, i) = Ents(w, i)
    <3>1. Rooted(w, Ents(w, i)) /\ Rising(Ents(w, i), TermOf(w, i))
      BY <1>1 DEF Consistent, NodesRooted
    <3> QED BY <1>2, <2>1, <3>1, RisingLater
  <2>2. CASE CatchesUp(Ents(w, i), Ents(x, i), l)
    <3>1. Rooted(w, l) /\ Rising(l, T)
      BY <1>1, <1>2 DEF Consistent, LeadersRooted, l
    <3>2. SameTo(Ents(x, i), l, Len(Ents(x, i)))
      BY <2>2 DEF CatchesUp
    <3> QED BY <1>2, <3>1, <3>2, RootedPrefix
  <2> QED BY <1>3, <2>1, <2>2
<1>5. Rooted(x, Ents(x, i))
  BY <1>1, <1>2, <1>4, RootedGrows
<1> QED BY <1>1, <1>4, <1>5, OthersRooted DEF T

\* A leader that appends entries keeps a rooted log.
LEMMA GovernedNodesRooted ==
  ASSUME NEW w, NEW x, NEW i \in Server, NEW r, NEW s,
         GovernedBy(w, x, i, r, s)
  PROVE  NodesRooted(x)
<1>1. Consistent(w) /\ Advances(w, x, i)
  BY DEF GovernedBy
<1>2. Rooted(x, Ents(x, i)) /\ Rising(Ents(x, i), TermOf(x, i))
  BY GovernedLeadersRooted
<1> QED BY <1>1, <1>2, OthersRooted

-----------------------------------------------------------------------------
(* Who led.                                                                *)

\* Serving a leader puts nobody in office.
LEMMA ServedLed ==
  ASSUME NEW w, NEW x, NEW i \in Server, NEW r, NEW M, NEW e,
         ServedBy(w, x, i, r, M, e)
  PROVE  LedByElected(x)
<1>1. /\ LedByElected(w) /\ Advances(w, x, i) /\ x.offices = w.offices
      /\ Chronicle(w) /\ Chronicle(x)
  BY DEF ServedBy, Consistent, Advances
<1>2. ASSUME NEW t \in Nat, LogOf(x, t) # <<>> \/ x.reads[t] > 0
      PROVE  \E o \in x.offices : o.term = t
  <2>1. LogOf(w, t) # <<>> \/ w.reads[t] > 0
    BY <1>2 DEF ServedBy, LogOf
  <2> QED BY <1>1, <2>1 DEF LedByElected
<1>3. ASSUME NEW o \in x.offices
      PROVE  Polled(o, x.ballots) /\ o.term <= TermOf(x, o.leader)
  <2>1. Polled(o, w.ballots) /\ o.term <= TermOf(w, o.leader)
    BY <1>1 DEF LedByElected
  <2>2. o.leader \in Server /\ o.term \in Nat
    BY <1>1 DEF Chronicle
  <2>3. Polled(o, x.ballots)
    <3>1. w.ballots \subseteq x.ballots
      BY <1>1 DEF Advances
    <3> QED BY <2>1, <3>1, PolledMore
  <2>4. TermOf(w, o.leader) <= TermOf(x, o.leader)
    BY <1>1, <2>2, Grows
  <2>5. TermOf(w, o.leader) \in Nat /\ TermOf(x, o.leader) \in Nat
    BY <1>1, <2>2, Parts
  <2> QED BY <2>1, <2>2, <2>3, <2>4, <2>5
<1> QED BY <1>2, <1>3 DEF LedByElected

\* Who leads was in office, or has just won its election with a majority.
LEMMA GovernedLed ==
  ASSUME NEW w, NEW x, NEW i \in Server, NEW r, NEW s,
         GovernedBy(w, x, i, r, s)
  PROVE  LedByElected(x)
<1> DEFINE T == TermOf(x, i)
           p == [leader |-> i, term |-> T]
<1>1. /\ LedByElected(w) /\ Advances(w, x, i) /\ x.offices = w.offices \cup {p}
      /\ Polled(p, x.ballots) /\ Chronicle(w) /\ Chronicle(x)
  BY DEF GovernedBy, Consistent, Advances
<1>2. ASSUME NEW t \in Nat, LogOf(x, t) # <<>> \/ x.reads[t] > 0
      PROVE  \E o \in x.offices : o.term = t
  <2>1. CASE t = T
    BY <1>1, <2>1
  <2>2. CASE t # T
    <3>1. LogOf(x, t) = LogOf(w, t) /\ x.reads[t] = w.reads[t]
      BY <1>1, <2>2 DEF Advances
    <3>2. LogOf(w, t) # <<>> \/ w.reads[t] > 0
      BY <1>2, <3>1
    <3> QED BY <1>1, <3>2 DEF LedByElected
  <2> QED BY <2>1, <2>2
<1>3. ASSUME NEW o \in x.offices
      PROVE  Polled(o, x.ballots) /\ o.term <= TermOf(x, o.leader)
  <2>1. CASE o \in w.offices
    <3>1. Polled(o, w.ballots) /\ o.term <= TermOf(w, o.leader)
      BY <1>1, <2>1 DEF LedByElected
    <3>2. o.leader \in Server /\ o.term \in Nat
      BY <1>1 DEF Chronicle
    <3>3. Polled(o, x.ballots)
      <4>1. w.ballots \subseteq x.ballots
        BY <1>1 DEF Advances
      <4> QED BY <3>1, <4>1, PolledMore
    <3>4. TermOf(w, o.leader) <= TermOf(x, o.leader)
      BY <1>1, <3>2, Grows
    <3>5. TermOf(w, o.leader) \in Nat /\ TermOf(x, o.leader) \in Nat
      BY <1>1, <3>2, Parts
    <3> QED BY <3>1, <3>2, <3>3, <3>4, <3>5
  <2>2. CASE o = p
    <3>1. T \in Nat
      BY <1>1, Parts
    <3>2. T <= T
      BY <3>1
    <3> QED BY <1>1, <2>2, <3>2
  <2> QED BY <1>1, <2>1, <2>2
<1> QED BY <1>2, <1>3 DEF LedByElected

\* A node that campaigns after a step has not led the term it campaigns for.
LEMMA ServedNotYetLed ==
  ASSUME NEW w, NEW x, NEW i \in Server, NEW r, NEW M, NEW e,
         ServedBy(w, x, i, r, M, e)
  PROVE  NotYetLed(x)
<1> DEFINE T == TermOf(x, i)
<1>1. /\ NotYetLed(w) /\ LedByElected(w) /\ Advances(w, x, i)
      /\ x.offices = w.offices /\ Chronicle(w) /\ Chronicle(x)
  BY DEF ServedBy, Consistent, Advances
<1>2. T \in Nat /\ TermOf(w, i) \in Nat
  BY <1>1, Parts
<1>3. ASSUME NEW v \in Server, Elective(x.node[v])
      PROVE  /\ [leader |-> v, term |-> TermOf(x, v)] \notin x.offices
             /\ TermOf(x, v) > 0 /\ x.node[v].log.vote = v
  <2>1. CASE v # i
    <3>1. x.node[v] = w.node[v] /\ TermOf(x, v) = TermOf(w, v)
      BY <1>1, <2>1 DEF Advances, TermOf
    <3> QED BY <1>1, <1>3, <3>1 DEF NotYetLed
  <2>2. CASE v = i
    <3>1. \/ /\ T = TermOf(w, i) /\ x.node[i].log.vote = w.node[i].log.vote
             /\ Elective(w.node[i])
          \/ T > TermOf(w, i) /\ x.node[i].log.vote = i
      BY <1>3, <2>2, Served
    <3>2. CASE /\ T = TermOf(w, i) /\ x.node[i].log.vote = w.node[i].log.vote
               /\ Elective(w.node[i])
      BY <1>1, <2>2, <3>2 DEF NotYetLed
    <3>3. CASE T > TermOf(w, i) /\ x.node[i].log.vote = i
      <4>1. ASSUME [leader |-> i, term |-> T] \in w.offices
            PROVE  FALSE
        <5>1. T <= TermOf(w, i)
          BY <1>1, <4>1 DEF LedByElected
        <5> QED BY <1>2, <3>3, <5>1
      <4> QED BY <1>1, <1>2, <2>2, <3>3, <4>1
    <3> QED BY <3>1, <3>2, <3>3
  <2> QED BY <2>1, <2>2
<1> QED BY <1>3 DEF NotYetLed

\* A step of a leader leaves no candidate in a term that has been led.
LEMMA GovernedNotYetLed ==
  ASSUME NEW w, NEW x, NEW i \in Server, NEW r, NEW s,
         GovernedBy(w, x, i, r, s)
  PROVE  NotYetLed(x)
<1> DEFINE T == TermOf(x, i)
<1>1. /\ NotYetLed(w) /\ Advances(w, x, i)
      /\ x.offices = w.offices \cup {[leader |-> i, term |-> T]}
  BY DEF GovernedBy, Consistent
<1>2. ASSUME NEW v \in Server, Elective(x.node[v])
      PROVE  /\ [leader |-> v, term |-> TermOf(x, v)] \notin x.offices
             /\ TermOf(x, v) > 0 /\ x.node[v].log.vote = v
  <2>1. v # i
    <3>1. ~Elective(x.node[i])
      BY Governed
    <3> QED BY <1>2, <3>1
  <2>2. x.node[v] = w.node[v] /\ TermOf(x, v) = TermOf(w, v)
    BY <1>1, <2>1 DEF Advances, TermOf
  <2> QED BY <1>1, <1>2, <2>1, <2>2 DEF NotYetLed
<1> QED BY <1>2 DEF NotYetLed

-----------------------------------------------------------------------------
(* Leaders and what is vouched for.                                        *)

\* What a leader knows of its followers stays true when they vouch for more.
LEMMA TracksMore ==
  ASSUME NEW i \in Server, NEW a \in [Server -> Nat], NEW b \in [Server -> Nat],
         \A v \in Server : a[v] <= b[v], NEW n, Tracks(i, a, n)
  PROVE  Tracks(i, b, n)
<1>1. /\ n \in StaticNode(i) /\ n.role.kind = "Leader" /\ Sound(n)
      /\ \A p \in Server \ {i} :
           /\ n.role.progress[p].match < n.role.progress[p].next
           /\ n.role.progress[p].next <= Len(n.log.ents) + 1
           /\ n.role.progress[p].match <= a[p]
  BY DEF Tracks
<1>2. ASSUME NEW p \in Server \ {i}
      PROVE  n.role.progress[p].match <= b[p]
  <2>1. n.role.progress[p].match \in Nat
    BY TracksTypes
  <2>2. a[p] \in Nat /\ b[p] \in Nat /\ a[p] <= b[p]
    OBVIOUS
  <2> QED BY <1>1, <2>1, <2>2
<1> QED BY <1>1, <1>2 DEF Tracks

\* What a chronicle says of a leader.
LeaderTracks(w, i) ==
  LET t == TermOf(w, i)
  IN /\ [leader |-> i, term |-> t] \in w.offices
     /\ Ents(w, i) = LogOf(w, t) /\ Held(w, t, i) = Len(LogOf(w, t))
     /\ Tracks(i, w.held[t], w.node[i]) /\ Current(w.node[i])
     /\ w.node[i].role.read_seq = w.reads[t]

\* Another leader goes on tracking, its term being another or its log the same.
LEMMA OthersTrack ==
  ASSUME NEW w, NEW x, NEW i \in Server, Advances(w, x, i), Consistent(w),
         NEW j \in Server, j # i, x.node[j].role.kind = "Leader",
         LogOf(x, TermOf(x, j)) = LogOf(w, TermOf(x, j)),
         x.reads[TermOf(x, j)] = w.reads[TermOf(x, j)]
  PROVE  LeaderTracks(x, j)
<1> DEFINE t == TermOf(x, j)
<1>1. /\ x.node[j] = w.node[j] /\ t = TermOf(w, j) /\ Ents(x, j) = Ents(w, j)
  BY Grows DEF Advances
<1>2. LeaderTracks(w, j)
  BY <1>1 DEF Consistent, LeadersTrack, LeaderTracks
<1>3. t \in Nat
  BY Parts DEF Advances
<1> HIDE DEF t
<1>4. /\ [leader |-> j, term |-> t] \in w.offices
      /\ Ents(w, j) = LogOf(w, t) /\ Held(w, t, j) = Len(LogOf(w, t))
      /\ Tracks(j, w.held[t], w.node[j]) /\ Current(w.node[j])
      /\ w.node[j].role.read_seq = w.reads[t]
  BY <1>1, <1>2 DEF LeaderTracks
<1>5. Held(x, t, j) = Held(w, t, j)
  BY <1>3 DEF Advances
<1>6. w.held[t] \in [Server -> Nat] /\ x.held[t] \in [Server -> Nat]
  BY <1>3 DEF Advances, Chronicle, Histories
<1>7. \A v \in Server : w.held[t][v] <= x.held[t][v]
  BY <1>3, Grows DEF Held
<1>8. Tracks(j, x.held[t], x.node[j])
  <2>1. Tracks(j, x.held[t], w.node[j])
    BY <1>4, <1>6, <1>7, TracksMore
  <2> QED BY <1>1, <2>1
<1>9. [leader |-> j, term |-> t] \in x.offices
  BY <1>4 DEF Advances
<1>10. LogOf(x, t) = LogOf(w, t) /\ x.reads[t] = w.reads[t]
  BY DEF t
<1>11. /\ [leader |-> j, term |-> t] \in x.offices
       /\ Ents(x, j) = LogOf(x, t) /\ Held(x, t, j) = Len(LogOf(x, t))
       /\ Tracks(j, x.held[t], x.node[j]) /\ Current(x.node[j])
       /\ x.node[j].role.read_seq = x.reads[t]
  BY <1>1, <1>4, <1>5, <1>8, <1>9, <1>10
<1> QED BY <1>11 DEF LeaderTracks, t

\* A step that serves a leader leaves what the leaders know of others true.
LEMMA ServedTrack ==
  ASSUME NEW w, NEW x, NEW i \in Server, NEW r, NEW M, NEW e,
         ServedBy(w, x, i, r, M, e)
  PROVE  LeadersTrack(x)
<1>1. Consistent(w) /\ Advances(w, x, i) /\ x.log = w.log /\ x.reads = w.reads
  BY DEF ServedBy
<1>2. x.node[i].role.kind # "Leader"
  BY DEF ServedBy, Serves
<1>3. ASSUME NEW j \in Server, x.node[j].role.kind = "Leader"
      PROVE  LeaderTracks(x, j)
  <2>1. j # i
    BY <1>2, <1>3
  <2>2. LogOf(x, TermOf(x, j)) = LogOf(w, TermOf(x, j))
        /\ x.reads[TermOf(x, j)] = w.reads[TermOf(x, j)]
    BY <1>1 DEF LogOf
  <2> QED BY <1>1, <1>3, <2>1, <2>2, OthersTrack
<1> QED BY <1>3 DEF LeadersTrack, LeaderTracks

\* A leader's step leaves what it knows of its followers true: match_index is
\* never above what they vouched for.
LEMMA GovernedTrack ==
  ASSUME NEW w, NEW x, NEW i \in Server, NEW r, NEW s,
         GovernedBy(w, x, i, r, s)
  PROVE  LeadersTrack(x)
<1> DEFINE T == TermOf(x, i)
           p == [leader |-> i, term |-> T]
<1>1. /\ Consistent(w) /\ Voted(x) /\ Advances(w, x, i) /\ LogOf(x, T) = Ents(x, i)
      /\ Held(x, T, i) = Len(Ents(x, i)) /\ x.reads[T] = s
      /\ x.offices = w.offices \cup {p} /\ Polled(p, x.ballots)
      /\ Chronicle(w) /\ Chronicle(x)
  BY DEF GovernedBy, Advances
<1>2. T \in Nat
  BY <1>1, Parts
<1>3. ASSUME NEW j \in Server, j # i, x.node[j].role.kind = "Leader"
      PROVE  LeaderTracks(x, j)
  <2> DEFINE q == [leader |-> j, term |-> TermOf(x, j)]
  <2>1. x.node[j] = w.node[j] /\ TermOf(x, j) = TermOf(w, j) /\ TermOf(x, j) \in Nat
    BY <1>1, <1>3, Parts DEF Advances, TermOf
  <2>2. q \in w.offices
    BY <1>1, <1>3, <2>1 DEF Consistent, LeadersTrack
  <2>3. Polled(q, w.ballots)
    BY <1>1, <2>2 DEF Consistent, LedByElected
  <2>4. Polled(q, x.ballots)
    <3>1. w.ballots \subseteq x.ballots
      BY <1>1 DEF Advances
    <3> QED BY <2>3, <3>1, PolledMore
  <2>5. TermOf(x, j) # T
    <3> SUFFICES ASSUME TermOf(x, j) = T
                 PROVE  FALSE
      OBVIOUS
    <3>1. p.term = q.term
      OBVIOUS
    <3>2. \A a, b \in x.ballots : a.voter = b.voter /\ a.term = b.term
                                    => a.vote = b.vote
      BY <1>1 DEF Voted
    <3> HIDE DEF p, q
    <3>3. p.leader = q.leader
      BY <1>1, <2>4, <3>1, <3>2, OneOffice
    <3> QED BY <1>3, <3>3 DEF p, q
  <2>6. LogOf(x, TermOf(x, j)) = LogOf(w, TermOf(x, j))
        /\ x.reads[TermOf(x, j)] = w.reads[TermOf(x, j)]
    BY <1>1, <2>1, <2>5 DEF Advances
  <2> QED BY <1>1, <1>3, <2>6, OthersTrack
<1>4. ASSUME x.node[i].role.kind = "Leader"
      PROVE  LeaderTracks(x, i)
  <2>1. Tracks(i, w.held[T], x.node[i]) /\ Current(x.node[i])
        /\ x.node[i].role.read_seq = s
    BY <1>4, Governed
  <2>2. w.held[T] \in [Server -> Nat] /\ x.held[T] \in [Server -> Nat]
    BY <1>1, <1>2 DEF Chronicle, Histories
  <2>3. \A v \in Server : w.held[T][v] <= x.held[T][v]
    BY <1>1, <1>2, Grows DEF Held
  <2>4. Tracks(i, x.held[T], x.node[i])
    BY <2>1, <2>2, <2>3, TracksMore
  <2>5. p \in x.offices /\ Ents(x, i) = LogOf(x, T)
        /\ Held(x, T, i) = Len(LogOf(x, T)) /\ x.node[i].role.read_seq = x.reads[T]
    BY <1>1, <2>1
  <2> QED BY <2>1, <2>4, <2>5 DEF LeaderTracks
<1> QED BY <1>3, <1>4 DEF LeadersTrack, LeaderTracks

\* What node i vouched for in its term is there, and for the others nothing
\* has changed.
LEMMA HeldNowFor ==
  ASSUME NEW w, NEW x, NEW i \in Server, Consistent(w), Advances(w, x, i),
         SameTo(Ents(x, i), LogOf(x, TermOf(x, i)), Held(x, TermOf(x, i), i))
  PROVE  HeldNow(x)
<1> DEFINE T == TermOf(x, i)
<1>1. Chronicle(w) /\ Chronicle(x) /\ HeldNow(w) /\ T \in Nat
  BY Parts DEF Advances, Consistent
<1>2. ASSUME NEW v \in Server, NEW t \in Nat
      PROVE  /\ Held(x, t, v) <= Len(LogOf(x, t))
             /\ Held(x, t, v) > 0 => t <= TermOf(x, v)
  <2>1. CASE v = i /\ t = T
    <3>1. Held(x, t, v) <= Len(LogOf(x, t))
      BY <2>1 DEF SameTo
    <3>2. T <= T
      BY <1>1
    <3> QED BY <2>1, <3>1, <3>2
  <2>2. CASE v # i \/ t # T
    <3>1. Held(x, t, v) = Held(w, t, v)
      BY <2>2 DEF Advances
    <3>2. /\ Held(w, t, v) \in Nat /\ Len(LogOf(w, t)) \in Nat
          /\ Len(LogOf(x, t)) \in Nat
          /\ TermOf(w, v) \in Nat /\ TermOf(x, v) \in Nat
      BY <1>1, Parts
    <3>3. Len(LogOf(w, t)) <= Len(LogOf(x, t)) /\ TermOf(w, v) <= TermOf(x, v)
      BY Grows
    <3>4. Held(w, t, v) <= Len(LogOf(w, t)) /\ (Held(w, t, v) > 0 => t <= TermOf(w, v))
      BY <1>1 DEF HeldNow
    <3> QED BY <3>1, <3>2, <3>3, <3>4
  <2> QED BY <2>1, <2>2
<1>3. ASSUME NEW v \in Server
      PROVE  SameTo(Ents(x, v), LogOf(x, TermOf(x, v)), Held(x, TermOf(x, v), v))
  <2>1. CASE v = i
    BY <2>1
  <2>2. CASE v # i
    <3>1. TermOf(x, v) = TermOf(w, v) /\ Ents(x, v) = Ents(w, v)
      BY <2>2, Grows
    <3>2. TermOf(w, v) \in Nat /\ Len(Ents(w, v)) \in Nat
      BY <1>1, Parts
    <3>3. Held(x, TermOf(w, v), v) = Held(w, TermOf(w, v), v)
      BY <2>2, <3>2 DEF Advances
    <3>4. SameTo(Ents(w, v), LogOf(w, TermOf(w, v)), Held(w, TermOf(w, v), v))
      BY <1>1 DEF HeldNow
    <3>5. Held(w, TermOf(w, v), v) \in Nat
      BY <1>1, <3>2, Parts
    <3>6. SameTo(Ents(w, v), LogOf(x, TermOf(w, v)), Held(w, TermOf(w, v), v))
      BY <3>2, <3>4, <3>5, SameGrows
    <3> QED BY <3>1, <3>3, <3>6
  <2> QED BY <2>1, <2>2
<1> QED BY <1>2, <1>3 DEF HeldNow

\* What a follower vouches for in its term is in its log.
LEMMA ServedHeldNow ==
  ASSUME NEW w, NEW x, NEW i \in Server, NEW r, NEW M, NEW e,
         ServedBy(w, x, i, r, M, e)
  PROVE  HeldNow(x)
<1> DEFINE T == TermOf(x, i)
           l == LogOf(w, T)
           h == Held(w, T, i)
<1>1. /\ Consistent(w) /\ Advances(w, x, i) /\ Chronicle(w) /\ Chronicle(x)
      /\ HeldNow(w) /\ Held(x, T, i) \in {e, h}
      /\ LogOf(x, T) = l
  BY DEF ServedBy, Consistent, Advances, LogOf
<1>2. /\ T \in Nat /\ TermOf(w, i) \in Nat /\ TermOf(w, i) <= T /\ h \in Nat
      /\ Len(l) \in Nat /\ Len(Ents(w, i)) \in Nat /\ Len(Ents(x, i)) \in Nat
  BY <1>1, Parts DEF Advances
<1>3. /\ Ents(x, i) = Ents(w, i) \/ CatchesUp(Ents(w, i), Ents(x, i), l)
      /\ SameTo(Ents(x, i), l, e)
  BY Served
<1>4. SameTo(Ents(w, i), l, h)
  <2>1. CASE T = TermOf(w, i)
    BY <1>1, <2>1 DEF HeldNow
  <2>2. CASE T > TermOf(w, i)
    <3>1. h > 0 => T <= TermOf(w, i)
      BY <1>1, <1>2 DEF HeldNow
    <3>2. h = 0
      BY <1>2, <2>2, <3>1
    <3> QED BY <1>2, <3>2, SameNone
  <2> QED BY <1>2, <2>1, <2>2
<1>5. SameTo(Ents(x, i), l, h)
  <2>1. CASE CatchesUp(Ents(w, i), Ents(x, i), l)
    <3>1. h < Len(Ents(x, i)) /\ SameTo(Ents(x, i), l, Len(Ents(x, i)))
      BY <1>2, <1>4, <2>1 DEF CatchesUp
    <3> QED BY <1>2, <3>1, SameLess
  <2> QED BY <1>3, <1>4, <2>1
<1>6. SameTo(Ents(x, i), LogOf(x, T), Held(x, T, i))
  BY <1>1, <1>3, <1>5
<1> QED BY <1>1, <1>6, HeldNowFor

\* What a leader vouches for in its term, its whole log, is in it.
LEMMA GovernedHeldNow ==
  ASSUME NEW w, NEW x, NEW i \in Server, NEW r, NEW s,
         GovernedBy(w, x, i, r, s)
  PROVE  HeldNow(x)
<1>1. /\ Consistent(w) /\ Advances(w, x, i) /\ LogOf(x, TermOf(x, i)) = Ents(x, i)
      /\ Held(x, TermOf(x, i), i) = Len(Ents(x, i)) /\ Chronicle(x)
  BY DEF GovernedBy, Advances
<1>2. Len(Ents(x, i)) \in Nat
  BY <1>1, Parts
<1>3. SameTo(Ents(x, i), Ents(x, i), Len(Ents(x, i)))
  BY <1>2 DEF SameTo
<1> QED BY <1>1, <1>3, HeldNowFor

-----------------------------------------------------------------------------
(* What is, or may be, committed is kept.                                  *)

\* What is the same as the old log of a term, or blocked, stays so.
LEMMA KeptGrows ==
  ASSUME NEW w, NEW x, NEW i \in Server, Advances(w, x, i), NEW t \in Nat,
         NEW k, Own(w, k, t), NEW l, Len(l) \in Nat,
         SameTo(l, LogOf(w, t), k) \/ Blocked(w, k, t)
  PROVE  SameTo(l, LogOf(x, t), k) \/ Blocked(x, k, t)
<1>1. k \in Nat
  BY Parts DEF Own, Advances
<1>2. CASE SameTo(l, LogOf(w, t), k)
  BY <1>1, <1>2, SameGrows
<1>3. CASE Blocked(w, k, t)
  BY <1>1, <1>3, BlockedGrows
<1> QED BY <1>2, <1>3

\* No log of a leader changes in a step that serves one, and a term left without
\* vouching stays left.
LEMMA ServedLeadersKeep ==
  ASSUME NEW w, NEW x, NEW i \in Server, NEW r, NEW M, NEW e,
         ServedBy(w, x, i, r, M, e)
  PROVE  LeadersKeep(x)
<1>1. /\ Consistent(w) /\ Advances(w, x, i) /\ Chronicle(w)
      /\ \A t \in Nat : LogOf(x, t) = LogOf(w, t)
  BY DEF ServedBy, Consistent, LogOf
<1> SUFFICES ASSUME NEW t \in Nat, NEW T \in Nat, NEW k \in Nat,
                    Own(x, k, t), T > t, LogOf(x, T) # <<>>
             PROVE  SameTo(LogOf(x, T), LogOf(x, t), k) \/ Blocked(x, k, t)
  BY DEF LeadersKeep
<1>2. Own(w, k, t) /\ LogOf(w, T) # <<>>
  BY <1>1 DEF Own
<1>3. SameTo(LogOf(w, T), LogOf(w, t), k) \/ Blocked(w, k, t)
  BY <1>1, <1>2 DEF Consistent, LeadersKeep
<1>4. Len(LogOf(w, T)) \in Nat
  BY <1>1, Parts
<1> QED BY <1>1, <1>2, <1>3, <1>4, KeptGrows

\* Every voter of a term is in it by then.
LEMMA VotersThere ==
  ASSUME NEW x, Chronicle(x), Voted(x), NEW i \in Server, NEW T \in Nat, NEW Q,
         Q \subseteq Server,
         \A v \in Q : [voter |-> v, term |-> T, vote |-> i] \in x.ballots
  PROVE  \A v \in Q : T <= TermOf(x, v)
<1> SUFFICES ASSUME NEW v \in Q
             PROVE  T <= TermOf(x, v)
  OBVIOUS
<1> DEFINE b == [voter |-> v, term |-> T, vote |-> i]
<1>1. b.term <= TermOf(x, b.voter)
  BY Zenon DEF Voted
<1> QED BY <1>1

\* A new leader has, of the entries of earlier leaders, all that may be
\* committed: one of its voters holds them, and would have refused it.
LEMMA NewLeaderKeeps ==
  ASSUME NEW w, NEW x, NEW i \in Server, NEW r, NEW s,
         GovernedBy(w, x, i, r, s), LogOf(w, TermOf(x, i)) = <<>>,
         NEW t \in Nat, TermOf(x, i) > t, NEW k \in Nat, Own(w, k, t)
  PROVE  SameTo(Ents(w, i), LogOf(w, t), k) \/ Blocked(x, k, t)
<1> DEFINE T == TermOf(x, i)
           p == [leader |-> i, term |-> T]
           n == w.node[i]
<1>1. /\ Consistent(w) /\ Voted(x) /\ Advances(w, x, i) /\ Polled(p, x.ballots)
      /\ Chronicle(w) /\ Chronicle(x) /\ HoldersKeep(w) /\ CandidatesKeep(w)
      /\ CandidatesThere(w)
  BY DEF GovernedBy, Consistent, Advances
<1>2. T \in Nat /\ TermOf(w, i) \in Nat
  BY <1>1, Parts
<1>3. (Elective(n) /\ T = TermOf(w, i)) \/ T > TermOf(w, i)
  <2>1. TakesOffice(w, x, i, s)
    BY OfficeBefore
  <2> QED BY <2>1 DEF TakesOffice
<1>4. PICK Q \in SUBSET Server :
        /\ Majority(Server, Q)
        /\ \A v \in Q : [voter |-> v, term |-> T, vote |-> i] \in x.ballots
  BY <1>1 DEF Polled
<1>5. CASE \E v \in Q : Held(w, t, v) >= k
  <2>1. PICK v \in Q : Held(w, t, v) >= k
    BY <1>5
  <2>2. SameTo(Ents(w, i), LogOf(w, t), k) \/ Blocked(w, k, t)
    <3>1. CASE v = i
      BY <1>1, <2>1, <3>1 DEF HoldersKeep
    <3>2. CASE v # i
      <4> DEFINE b == [voter |-> v, term |-> T, vote |-> i]
      <4>1. b \in x.ballots
        BY <1>4
      <4>2. b \in w.ballots
        BY <1>1, <3>2, <4>1 DEF Advances
      <4>3. T <= TermOf(w, i)
        <5>1. b.term <= TermOf(w, b.vote)
          BY <1>1, <4>2, Zenon DEF CandidatesThere
        <5> QED BY <5>1
      <4>4. Elective(n) /\ T = TermOf(w, i)
        BY <1>2, <1>3, <4>3
      <4>5. /\ b.voter = v /\ b.term = T /\ b.vote = i
        OBVIOUS
      <4> HIDE DEF b, T
      <4>6. /\ Own(w, k, t) /\ Held(w, t, b.voter) >= k /\ b.term > t
            /\ Elective(w.node[b.vote]) /\ TermOf(w, b.vote) = b.term
        BY <2>1, <4>4, <4>5 DEF T
      <4>7. SameTo(Ents(w, b.vote), LogOf(w, t), k) \/ Blocked(w, k, t)
        BY <1>1, <4>2, <4>6 DEF CandidatesKeep
      <4> QED BY <4>5, <4>7
    <3> QED BY <3>1, <3>2
  <2>3. Blocked(w, k, t) => Blocked(x, k, t)
    BY <1>1, BlockedGrows
  <2> QED BY <2>2, <2>3
<1>6. CASE \A v \in Q : ~(Held(w, t, v) >= k)
  <2>1. \A v \in Q : T <= TermOf(x, v)
    BY <1>1, <1>2, <1>4, VotersThere
  <2>2. ASSUME NEW v \in Q
        PROVE  TermOf(x, v) > t /\ Held(x, t, v) < k
    <3>1. v \in Server /\ TermOf(x, v) \in Nat /\ Held(w, t, v) \in Nat
      BY <1>1, Parts
    <3>2. TermOf(x, v) > t
      BY <1>2, <2>1, <3>1
    <3>3. Held(x, t, v) = Held(w, t, v)
      BY <1>1, <1>2, <3>1 DEF Advances
    <3>4. ~(Held(w, t, v) >= k)
      BY <1>6
    <3> QED BY <3>1, <3>2, <3>3, <3>4
  <2> QED BY <1>4, <2>2 DEF Blocked
<1> QED BY <1>5, <1>6

\* A new leader has every entry of earlier terms that may still be committed: the
\* majority that elected it and one that vouched for the entry share a node.
LEMMA GovernedLeadersKeep ==
  ASSUME NEW w, NEW x, NEW i \in Server, NEW r, NEW s,
         GovernedBy(w, x, i, r, s)
  PROVE  LeadersKeep(x)
<1> DEFINE U == TermOf(x, i)
<1>1. /\ Consistent(w) /\ Advances(w, x, i) /\ Chronicle(w) /\ Chronicle(x)
      /\ LogOf(x, U) = Ents(x, i) /\ LedByElected(w) /\ Voted(w) /\ HeldNow(w)
  BY DEF GovernedBy, Consistent, Advances
<1> SUFFICES ASSUME NEW t \in Nat, NEW T \in Nat, NEW k \in Nat,
                    Own(x, k, t), T > t, LogOf(x, T) # <<>>
             PROVE  SameTo(LogOf(x, T), LogOf(x, t), k) \/ Blocked(x, k, t)
  BY DEF LeadersKeep
<1>2. /\ U \in Nat /\ Len(LogOf(w, T)) \in Nat /\ Len(LogOf(x, T)) \in Nat
      /\ Len(LogOf(w, t)) \in Nat /\ Len(Ents(w, i)) \in Nat
      /\ Len(Ents(x, i)) \in Nat /\ TermOf(w, i) \in Nat
  BY <1>1, Parts
<1>3. CASE Own(w, k, t) /\ LogOf(w, T) # <<>>
  <2>1. SameTo(LogOf(w, T), LogOf(w, t), k) \/ Blocked(w, k, t)
    BY <1>1, <1>3 DEF Consistent, LeadersKeep
  <2>2. SameTo(LogOf(w, T), LogOf(x, t), k) \/ Blocked(x, k, t)
    BY <1>1, <1>2, <1>3, <2>1, KeptGrows
  <2>3. CASE SameTo(LogOf(w, T), LogOf(x, t), k)
    <3>1. SameTo(LogOf(w, T), LogOf(x, T), Len(LogOf(w, T)))
      BY <1>1, Grows
    <3>2. k <= Len(LogOf(w, T))
      BY <2>3 DEF SameTo
    <3>3. SameTo(LogOf(x, T), LogOf(w, T), k)
      BY <1>2, <3>1, <3>2, SameLess
    <3> QED BY <2>3, <3>3, SameOver
  <2> QED BY <2>2, <2>3
<1>4. CASE Own(w, k, t) /\ LogOf(w, T) = <<>>
  <2>1. T = U
    <3> SUFFICES ASSUME T # U
                 PROVE  FALSE
      OBVIOUS
    <3>1. LogOf(x, T) = LogOf(w, T)
      BY <1>1 DEF Advances
    <3> QED BY <1>4, <3>1
  <2>2. SameTo(Ents(w, i), LogOf(w, t), k) \/ Blocked(x, k, t)
    BY <1>4, <2>1, NewLeaderKeeps
  <2>3. CASE SameTo(Ents(w, i), LogOf(w, t), k)
    <3>1. SameTo(Ents(w, i), Ents(x, i), Len(Ents(w, i)))
      BY Governed DEF Longer
    <3>2. k <= Len(Ents(w, i))
      BY <2>3 DEF SameTo
    <3>3. SameTo(Ents(x, i), Ents(w, i), k)
      BY <1>2, <3>1, <3>2, SameLess
    <3>4. SameTo(Ents(w, i), LogOf(x, t), k)
      BY <1>1, <1>2, <2>3, SameGrows
    <3>5. SameTo(Ents(x, i), LogOf(x, t), k)
      BY <3>3, <3>4, SameOver
    <3> QED BY <1>1, <2>1, <3>5
  <2> QED BY <2>2, <2>3
<1>5. CASE ~Own(w, k, t)
  <2>1. t = U /\ k > Len(LogOf(w, t))
    BY <1>1, <1>5, OwnGrows
  <2>2. LogOf(w, T) # <<>>
    <3>1. T # U
      BY <1>2, <2>1
    <3> QED BY <1>1, <3>1 DEF Advances
  <2>3. PICK o \in w.offices : o.term = T
    BY <1>1, <2>2 DEF LedByElected
  <2>4. Polled(o, w.ballots) /\ o.leader \in Server
    BY <1>1 DEF LedByElected, Chronicle
  <2>5. PICK Q \in SUBSET Server :
          /\ Majority(Server, Q)
          /\ \A v \in Q : [voter |-> v, term |-> T, vote |-> o.leader] \in w.ballots
    BY <2>3, <2>4 DEF Polled
  <2>6. \A v \in Q : T <= TermOf(w, v)
    BY <1>1, <2>4, <2>5, VotersThere
  <2>7. ASSUME NEW v \in Q
        PROVE  TermOf(x, v) > t /\ Held(x, t, v) < k
    <3>1. v \in Server /\ TermOf(w, v) \in Nat /\ T <= TermOf(w, v)
          /\ Held(w, t, v) \in Nat
      BY <1>1, <2>6, Parts
    <3>2. TermOf(w, i) <= U
      BY <1>1 DEF Advances
    <3>3. v # i
      BY <1>2, <2>1, <3>1, <3>2
    <3>4. TermOf(x, v) = TermOf(w, v) /\ Held(x, t, v) = Held(w, t, v)
      BY <1>1, <3>1, <3>3, Grows DEF Advances
    <3>5. Held(w, t, v) <= Len(LogOf(w, t))
      BY <1>1, <3>1 DEF HeldNow
    <3> QED BY <1>2, <2>1, <3>1, <3>4, <3>5
  <2> QED BY <2>5, <2>7 DEF Blocked
<1> QED BY <1>3, <1>4, <1>5

\* A node that serves keeps, catching up or not, what may be committed.
LEMMA ServedKept ==
  ASSUME NEW w, NEW x, NEW i \in Server, NEW r, NEW M, NEW e,
         ServedBy(w, x, i, r, M, e), NEW t \in Nat, t <= TermOf(x, i),
         NEW k \in Nat, Own(w, k, t), NEW c \in Nat, c <= k,
         SameTo(Ents(w, i), LogOf(w, t), c)
  PROVE  SameTo(Ents(x, i), LogOf(w, t), c) \/ Blocked(w, k, t)
<1> DEFINE T == TermOf(x, i)
           l == LogOf(w, T)
           a == Ents(w, i)
           b == Ents(x, i)
<1>1. Consistent(w) /\ Chronicle(w) /\ Chronicle(x) /\ LeadersKeep(w)
  BY DEF ServedBy, Consistent, Advances
<1>2. /\ T \in Nat /\ l \in Seq(StaticEntry) /\ Len(l) \in Nat
      /\ Len(a) \in Nat /\ Len(b) \in Nat /\ Len(LogOf(w, t)) \in Nat
  BY <1>1, Parts
<1>3. b = a \/ CatchesUp(a, b, l)
  BY Served
<1> HIDE DEF T, l, a, b
<1>4. CASE CatchesUp(a, b, l)
  <2>1. /\ SameTo(b, l, Len(b))
        /\ \A y \in Nat : SameTo(a, l, y) => y < Len(b)
    BY <1>4 DEF CatchesUp
  <2>2. SameTo(l, LogOf(w, t), c) \/ Blocked(w, k, t)
    <3>1. CASE t = T
      <4>1. c <= Len(l)
        BY <3>1 DEF SameTo, l
      <4> QED BY <1>2, <3>1, <4>1 DEF SameTo, l
    <3>2. CASE t # T
      <4>1. T > t
        BY <1>2, <3>2 DEF T
      <4>2. l # <<>>
        <5> SUFFICES ASSUME l = <<>>
                     PROVE  FALSE
          OBVIOUS
        <5>1. Len(l) = 0
          BY <1>2, EmptyLen
        <5>2. Len(b) <= 0
          BY <2>1, <5>1 DEF SameTo
        <5>3. SameTo(a, l, 0)
          BY <1>2, SameNone
        <5>4. 0 < Len(b)
          BY <2>1, <5>3
        <5> QED BY <1>2, <5>2, <5>4
      <4>3. SameTo(l, LogOf(w, t), k) \/ Blocked(w, k, t)
        BY <1>1, <1>2, <4>1, <4>2 DEF LeadersKeep, l
      <4> QED BY <1>2, <4>3, SameLess
    <3> QED BY <3>1, <3>2
  <2>3. CASE SameTo(l, LogOf(w, t), c)
    <3>1. SameTo(LogOf(w, t), l, c)
      <4>1. c <= c
        OBVIOUS
      <4> QED BY <1>2, <2>3, <4>1, SameLess
    <3>2. SameTo(a, LogOf(w, t), c)
      BY DEF a
    <3>3. SameTo(a, l, c)
      BY <3>1, <3>2, SameOver
    <3>4. c < Len(b)
      BY <2>1, <3>3
    <3>5. SameTo(b, l, c)
      BY <1>2, <2>1, <3>4, SameLess
    <3>6. SameTo(b, LogOf(w, t), c)
      BY <2>3, <3>5, SameOver
    <3> QED BY <3>6 DEF b
  <2> QED BY <2>2, <2>3
<1>5. CASE b = a
  BY <1>5 DEF a, b
<1> QED BY <1>3, <1>4, <1>5

\* What is at the front of a leader's log stays there.
LEMMA GovernedKept ==
  ASSUME NEW w, NEW x, NEW i \in Server, NEW r, NEW s,
         GovernedBy(w, x, i, r, s), NEW l, NEW c \in Nat, SameTo(Ents(w, i), l, c)
  PROVE  SameTo(Ents(x, i), l, c)
<1>1. Chronicle(w) /\ Chronicle(x)
  BY DEF GovernedBy, Advances
<1>2. Len(Ents(w, i)) \in Nat /\ Len(Ents(x, i)) \in Nat
  BY <1>1, Parts
<1>3. SameTo(Ents(w, i), Ents(x, i), Len(Ents(w, i)))
  BY Governed DEF Longer
<1>4. c <= Len(Ents(w, i))
  BY DEF SameTo
<1>5. SameTo(Ents(x, i), Ents(w, i), c)
  BY <1>2, <1>3, <1>4, SameLess
<1> QED BY <1>5, SameOver

\* Who vouched for an entry of an earlier term did so before.
LEMMA HeldBefore ==
  ASSUME NEW w, NEW x, NEW i \in Server, Consistent(w), Advances(w, x, i),
         NEW t \in Nat, NEW k \in Nat, Own(x, k, t), NEW v \in Server,
         Held(x, t, v) >= k, v # i \/ t # TermOf(x, i)
  PROVE  Own(w, k, t) /\ Held(w, t, v) >= k /\ t <= TermOf(w, v)
<1>1. Chronicle(w) /\ Chronicle(x) /\ HeldNow(w)
  BY DEF Consistent, Advances
<1>2. /\ Held(w, t, v) \in Nat /\ Len(LogOf(w, t)) \in Nat
      /\ Len(LogOf(x, t)) \in Nat
  BY <1>1, Parts
<1>3. Held(x, t, v) = Held(w, t, v)
  BY DEF Advances
<1>4. Held(w, t, v) <= Len(LogOf(w, t)) /\ (Held(w, t, v) > 0 => t <= TermOf(w, v))
  BY <1>1 DEF HeldNow
<1>5. k > 0
  BY <1>2 DEF Own
<1>6. k <= Len(LogOf(w, t)) /\ Held(w, t, v) > 0
  BY <1>2, <1>3, <1>4, <1>5
<1>7. Own(w, k, t)
  BY <1>6, OwnGrows
<1> QED BY <1>3, <1>4, <1>6, <1>7

\* Holders keep, if node i does what it held before.
LEMMA HoldersKeepFor ==
  ASSUME NEW w, NEW x, NEW i \in Server, Consistent(w), Advances(w, x, i),
         HeldNow(x),
         \A t \in Nat : \A k \in Nat :
           /\ Own(w, k, t) /\ t <= TermOf(x, i)
           /\ SameTo(Ents(w, i), LogOf(w, t), k)
           => SameTo(Ents(x, i), LogOf(w, t), k) \/ Blocked(w, k, t)
  PROVE  HoldersKeep(x)
<1>1. Chronicle(w) /\ Chronicle(x) /\ HoldersKeep(w)
  BY DEF Consistent, Advances
<1> SUFFICES ASSUME NEW t \in Nat, NEW k \in Nat, NEW v \in Server,
                    Own(x, k, t), Held(x, t, v) >= k
             PROVE  SameTo(Ents(x, v), LogOf(x, t), k) \/ Blocked(x, k, t)
  BY DEF HoldersKeep
<1>2. /\ Len(Ents(x, v)) \in Nat /\ Len(LogOf(x, t)) \in Nat
      /\ TermOf(x, i) \in Nat /\ TermOf(w, i) \in Nat /\ Held(x, t, v) \in Nat
      /\ Len(Ents(w, v)) \in Nat
  BY <1>1, Parts
<1>3. CASE v = i /\ t = TermOf(x, i)
  <2>1. SameTo(Ents(x, v), LogOf(x, t), Held(x, t, v))
    BY <1>3 DEF HeldNow
  <2> QED BY <1>2, <2>1, SameLess
<1>4. CASE v # i \/ t # TermOf(x, i)
  <2>1. Own(w, k, t) /\ Held(w, t, v) >= k /\ t <= TermOf(w, v)
    BY <1>4, HeldBefore
  <2>2. SameTo(Ents(w, v), LogOf(w, t), k) \/ Blocked(w, k, t)
    BY <1>1, <2>1 DEF HoldersKeep
  <2>3. SameTo(Ents(x, v), LogOf(w, t), k) \/ Blocked(w, k, t)
    <3>1. CASE v = i
      <4>1. TermOf(w, i) <= TermOf(x, i)
        BY Grows
      <4>2. t <= TermOf(x, i)
        BY <1>2, <2>1, <3>1, <4>1
      <4> QED BY <2>1, <2>2, <3>1, <4>2
    <3>2. CASE v # i
      <4>1. Ents(x, v) = Ents(w, v)
        BY <3>2, Grows
      <4> QED BY <2>2, <4>1
    <3> QED BY <3>1, <3>2
  <2> QED BY <1>2, <2>1, <2>3, KeptGrows
<1> QED BY <1>3, <1>4

\* A follower keeps what it vouched for in earlier terms when it takes entries of
\* a leader: the leader of the term has them too, or they are blocked.
LEMMA ServedHoldersKeep ==
  ASSUME NEW w, NEW x, NEW i \in Server, NEW r, NEW M, NEW e,
         ServedBy(w, x, i, r, M, e)
  PROVE  HoldersKeep(x)
<1>1. Consistent(w) /\ Advances(w, x, i)
  BY DEF ServedBy
<1>2. HeldNow(x)
  BY ServedHeldNow
<1>3. ASSUME NEW t \in Nat, NEW k \in Nat, Own(w, k, t), t <= TermOf(x, i),
             SameTo(Ents(w, i), LogOf(w, t), k)
      PROVE  SameTo(Ents(x, i), LogOf(w, t), k) \/ Blocked(w, k, t)
  <2>1. k <= k
    OBVIOUS
  <2> QED BY <1>3, <2>1, ServedKept
<1> QED BY <1>1, <1>2, <1>3, HoldersKeepFor

\* A leader keeps what it vouched for in earlier terms.
LEMMA GovernedHoldersKeep ==
  ASSUME NEW w, NEW x, NEW i \in Server, NEW r, NEW s,
         GovernedBy(w, x, i, r, s)
  PROVE  HoldersKeep(x)
<1>1. Consistent(w) /\ Advances(w, x, i)
  BY DEF GovernedBy
<1>2. HeldNow(x)
  BY GovernedHeldNow
<1>3. ASSUME NEW t \in Nat, NEW k \in Nat, SameTo(Ents(w, i), LogOf(w, t), k)
      PROVE  SameTo(Ents(x, i), LogOf(w, t), k)
  BY <1>3, GovernedKept
<1> QED BY <1>1, <1>2, <1>3, HoldersKeepFor

-----------------------------------------------------------------------------
(* Ballots and candidates.                                                 *)

\* A ballot cast in a call: of node i, in its term, for whom it has noted.
LEMMA CastNow ==
  ASSUME NEW w, NEW x, NEW i \in Server, Consistent(w), Advances(w, x, i),
         NEW b \in x.ballots, b \notin w.ballots
  PROVE  /\ b.voter = i /\ b.term = TermOf(x, i)
         /\ b.vote = x.node[i].log.vote /\ b.vote \in Server
         /\ ~(/\ TermOf(x, i) = TermOf(w, i)
              /\ x.node[i].log.vote = w.node[i].log.vote)
<1>1. /\ b.voter = i /\ b.term = TermOf(x, i)
      /\ b.vote = x.node[i].log.vote
  BY DEF Advances
<1>2. b \in BallotType
  BY DEF Advances, Chronicle
<1>3. b.vote # Nil
  BY <1>2, NodeAssumption DEF BallotType
<1>4. ASSUME TermOf(x, i) = TermOf(w, i),
             x.node[i].log.vote = w.node[i].log.vote
      PROVE  FALSE
  <2>1. [voter |-> i, term |-> TermOf(w, i), vote |-> w.node[i].log.vote]
           \in w.ballots
    BY <1>1, <1>3, <1>4 DEF Consistent, Voted
  <2>2. b = [voter |-> i, term |-> TermOf(w, i), vote |-> w.node[i].log.vote]
    BY <1>1, <1>2, <1>4 DEF BallotType
  <2> QED BY <2>1, <2>2
<1> QED BY <1>1, <1>2, <1>4 DEF BallotType

\* Whoever serves casts it for itself, or for a candidate it has heard of.
LEMMA ServedCast ==
  ASSUME NEW w, NEW x, NEW i \in Server, NEW r, NEW M, NEW e,
         ServedBy(w, x, i, r, M, e), NEW b \in x.ballots, b \notin w.ballots
  PROVE  \/ b.vote = i
         \/ \E m \in M : /\ m \in Envelope /\ Claims(w, m)
                         /\ m.message.type = "Campaign" /\ m.term = b.term
                         /\ m.from = b.vote /\ LogOk(w.node[i], m.message)
<1>1. Consistent(w) /\ Advances(w, x, i) /\ \A m \in M : m \in Envelope /\ Claims(w, m)
  BY DEF ServedBy
<1>2. /\ b.voter = i /\ b.term = TermOf(x, i)
      /\ b.vote = x.node[i].log.vote /\ b.vote \in Server
      /\ ~(/\ TermOf(x, i) = TermOf(w, i)
           /\ x.node[i].log.vote = w.node[i].log.vote)
  BY <1>1, CastNow
<1>3. b.vote # Nil
  BY <1>2, NodeAssumption
<1>4. \/ x.node[i].log.vote = i
      \/ \E m \in M : /\ m.message.type = "Campaign" /\ m.term = TermOf(x, i)
                      /\ m.from = x.node[i].log.vote
                      /\ LogOk(w.node[i], m.message)
  BY <1>2, <1>3, Served
<1> QED BY <1>1, <1>2, <1>4

\* Whoever governs casts it for itself.
LEMMA GovernedCast ==
  ASSUME NEW w, NEW x, NEW i \in Server, NEW r, NEW s,
         GovernedBy(w, x, i, r, s), NEW b \in x.ballots, b \notin w.ballots
  PROVE  b.vote = i
<1>1. Consistent(w) /\ Advances(w, x, i)
  BY DEF GovernedBy
<1>2. /\ b.voter = i /\ b.term = TermOf(x, i)
      /\ b.vote = x.node[i].log.vote /\ b.vote \in Server
      /\ ~(/\ TermOf(x, i) = TermOf(w, i)
           /\ x.node[i].log.vote = w.node[i].log.vote)
  BY <1>1, CastNow
<1>3. \/ /\ TermOf(x, i) = TermOf(w, i)
         /\ x.node[i].log.vote = w.node[i].log.vote
      \/ x.node[i].log.vote = i
  <2>1. Governs(i, w.held[TermOf(x, i)], s, w.node[i], r) /\ x.node[i] = r.n
    BY DEF GovernedBy
  <2> QED BY <2>1 DEF Governs, SameBallot, TermOf
<1> QED BY <1>2, <1>3

\* Nobody is voted for in a term it has not reached.
LEMMA CandidatesThereFor ==
  ASSUME NEW w, NEW x, NEW i \in Server, Consistent(w), Advances(w, x, i),
         \A b \in x.ballots : b \notin w.ballots =>
           b.vote = i \/ b.term <= TermOf(w, b.vote)
  PROVE  CandidatesThere(x)
<1> SUFFICES ASSUME NEW b \in x.ballots
             PROVE  b.term <= TermOf(x, b.vote)
  BY DEF CandidatesThere
<1>1. Chronicle(w) /\ Chronicle(x) /\ CandidatesThere(w)
  BY DEF Consistent, Advances
<1>2. b.term \in Nat /\ b.vote \in Server
  BY <1>1 DEF Chronicle, BallotType
<1>3. TermOf(w, b.vote) \in Nat /\ TermOf(x, b.vote) \in Nat
      /\ TermOf(w, b.vote) <= TermOf(x, b.vote)
  BY <1>1, <1>2, Parts, Grows
<1>4. CASE b.term <= TermOf(w, b.vote)
  BY <1>2, <1>3, <1>4
<1>5. CASE b \in w.ballots
  BY <1>1, <1>4, <1>5 DEF CandidatesThere
<1>6. CASE b \notin w.ballots /\ b.vote = i
  <2>1. b.term = TermOf(x, i)
    BY <1>6 DEF Advances
  <2> QED BY <1>2, <1>6, <2>1
<1> QED BY <1>4, <1>5, <1>6

\* Serving a leader gives ballots only to nodes that reached the term.
LEMMA ServedCandidates ==
  ASSUME NEW w, NEW x, NEW i \in Server, NEW r, NEW M, NEW e,
         ServedBy(w, x, i, r, M, e)
  PROVE  CandidatesThere(x)
<1>1. Consistent(w) /\ Advances(w, x, i)
  BY DEF ServedBy
<1>2. ASSUME NEW b \in x.ballots, b \notin w.ballots
      PROVE  b.vote = i \/ b.term <= TermOf(w, b.vote)
  <2>1. CASE b.vote = i
    BY <2>1
  <2>2. CASE b.vote # i
    <3> DEFINE Heard(m) == /\ m \in Envelope /\ Claims(w, m)
                           /\ m.message.type = "Campaign" /\ m.term = b.term
                           /\ m.from = b.vote /\ LogOk(w.node[i], m.message)
    <3>3. b.vote = i \/ \E m \in M : Heard(m)
      BY <1>2, ServedCast
    <3>1. PICK m \in M : Heard(m)
      BY <2>2, <3>3
    <3>2. m.term <= TermOf(w, m.from)
      BY <3>1 DEF Claims
    <3> QED BY <3>1, <3>2
  <2> QED BY <2>1, <2>2
<1> QED BY <1>1, <1>2, CandidatesThereFor

\* A leader gives no ballot except its own.
LEMMA GovernedCandidates ==
  ASSUME NEW w, NEW x, NEW i \in Server, NEW r, NEW s,
         GovernedBy(w, x, i, r, s)
  PROVE  CandidatesThere(x)
<1>1. Consistent(w) /\ Advances(w, x, i)
  BY DEF GovernedBy
<1>2. \A b \in x.ballots : b \notin w.ballots => b.vote = i
  BY GovernedCast
<1> QED BY <1>1, <1>2, CandidatesThereFor

\* A log at least as new as one with an entry of a leader's term has it too, or
\* the entry will never be committed.
LEMMA NewerLogKeeps ==
  ASSUME NEW w, Consistent(w), NEW v \in Server, NEW j \in Server,
         NEW t \in Nat, NEW k \in Nat, Own(w, k, t),
         SameTo(Ents(w, v), LogOf(w, t), k),
         NEW c, c.last_index = Len(Ents(w, j)), c.last_term = LastOf(Ents(w, j)),
         LogOk(w.node[v], c)
  PROVE  SameTo(Ents(w, j), LogOf(w, t), k) \/ Blocked(w, k, t)
<1> DEFINE a == Ents(w, v)
           b == Ents(w, j)
           p == Len(b)
           u == b[p].term
<1>1. /\ Chronicle(w) /\ NodesSound(w) /\ LeadersRooted(w) /\ NodesRooted(w)
      /\ LeadersKeep(w)
  BY DEF Consistent
<1>2. /\ a \in Seq(StaticEntry) /\ b \in Seq(StaticEntry) /\ Len(a) \in Nat
      /\ Len(b) \in Nat /\ Len(LogOf(w, t)) \in Nat /\ p \in Nat
      /\ \A y \in 1 .. Len(a) : a[y].term \in Nat
      /\ \A y \in 1 .. Len(b) : b[y].term \in Nat
      /\ \A y \in 1 .. Len(LogOf(w, t)) : LogOf(w, t)[y].term \in Nat
  BY <1>1, Parts
<1>3. \/ LastOf(a) < LastOf(b)
      \/ LastOf(a) = LastOf(b) /\ Len(a) <= Len(b)
  BY <1>1, LastTermOf DEF LogOk
<1>4. /\ k \in 1 .. Len(LogOf(w, t)) /\ LogOf(w, t)[k].term = t
      /\ k <= Len(a) /\ k > 0
  BY <1>2 DEF Own, SameTo
<1>5. a[k].term = t /\ t > 0
  <2>1. a[k] = LogOf(w, t)[k]
    BY <1>4 DEF SameTo
  <2>2. Rising(LogOf(w, t), t)
    BY <1>1 DEF LeadersRooted
  <2>3. LogOf(w, t)[k].term > 0
    BY <1>4, <2>2 DEF Rising
  <2> QED BY <1>4, <2>1, <2>3
<1>6. LastOf(a) >= t /\ LastOf(a) \in Nat
  <2>1. Rising(a, TermOf(w, v))
    BY <1>1 DEF NodesRooted
  <2>2. Len(a) \in 1 .. Len(a) /\ k \in 1 .. Len(a)
    BY <1>2, <1>4
  <2>3. a[k].term <= a[Len(a)].term
    BY <2>1, <2>2 DEF Rising
  <2>4. a # <<>>
    BY <1>2, <1>4, EmptyLen
  <2>5. LastOf(a) = a[Len(a)].term /\ a[Len(a)].term \in Nat
    BY <1>2, <2>2, <2>4 DEF LastOf
  <2> HIDE DEF a
  <2> QED BY <1>5, <2>3, <2>5
<1> HIDE DEF a, b, p, u
<1>7. LastOf(b) >= t /\ LastOf(b) > 0
  <2>1. LastOf(b) \in Nat
    <3>1. CASE b = <<>>
      BY <3>1 DEF LastOf
    <3>2. CASE b # <<>>
      <4>1. Len(b) \in 1 .. Len(b)
        BY <1>2, <3>2, EmptyLen
      <4> QED BY <1>2, <3>2, <4>1 DEF LastOf
    <3> QED BY <3>1, <3>2
  <2> QED BY <1>3, <1>5, <1>6, <2>1
<1>8. b # <<>> /\ LastOf(b) = u
  <2>1. b # <<>>
    BY <1>7 DEF LastOf
  <2> QED BY <2>1 DEF LastOf, u, p
<1>9. p \in 1 .. Len(b) /\ u \in Nat /\ u >= t
  <2>1. p \in 1 .. Len(b)
    BY <1>2, <1>8, EmptyLen DEF p
  <2> QED BY <1>2, <1>7, <1>8, <2>1 DEF u
<1>10. SameTo(b, LogOf(w, u), p)
  BY <1>1, <1>9 DEF NodesRooted, Rooted, b, u
<1>11. Len(LogOf(w, u)) \in Nat
  BY <1>1, <1>9, Parts
<1>12. CASE u > t
  <2>1. LogOf(w, u) # <<>>
    <3>1. Len(LogOf(w, u)) > 0
      BY <1>9, <1>10, <1>11 DEF SameTo
    <3>2. Len(<<>>) = 0
      OBVIOUS
    <3> QED BY <3>1, <3>2
  <2>2. SameTo(LogOf(w, u), LogOf(w, t), k) \/ Blocked(w, k, t)
    BY <1>1, <1>9, <1>12, <2>1 DEF LeadersKeep
  <2>3. CASE SameTo(LogOf(w, u), LogOf(w, t), k)
    <3>1. k <= p
      <4> SUFFICES ASSUME p < k
                   PROVE  FALSE
        BY <1>9, <1>2
      <4>1. p \in 1 .. k
        BY <1>2, <1>9
      <4>2. b[p] = LogOf(w, u)[p] /\ LogOf(w, u)[p] = LogOf(w, t)[p]
        BY <1>2, <1>9, <1>10, <2>3, <4>1 DEF SameTo
      <4>3. p \in 1 .. Len(LogOf(w, t))
        BY <1>2, <1>4, <4>1
      <4>4. LogOf(w, t)[p].term <= t
        BY <1>1, <4>3 DEF LeadersRooted, Rising
      <4>5. u = LogOf(w, t)[p].term
        BY <4>2 DEF u
      <4> QED BY <1>9, <1>12, <4>4, <4>5
    <3>2. SameTo(b, LogOf(w, u), k)
      BY <1>2, <1>10, <1>11, <3>1, SameLess
    <3> QED BY <2>3, <3>2, SameOver DEF b
  <2> QED BY <2>2, <2>3
<1>13. CASE u = t
  <2>1. LastOf(a) = LastOf(b)
    BY <1>3, <1>6, <1>8, <1>13
  <2>2. Len(a) <= Len(b)
    BY <1>3, <1>6, <2>1
  <2>3. k <= p
    BY <1>2, <1>4, <2>2 DEF p
  <2>4. SameTo(b, LogOf(w, t), k)
    BY <1>2, <1>10, <1>11, <1>13, <2>3, SameLess
  <2> QED BY <2>4 DEF b
<1> QED BY <1>9, <1>12, <1>13

\* Candidates keep, if a ballot cast for another is for a log as new.
LEMMA CandidatesKeepFor ==
  ASSUME NEW w, NEW x, NEW i \in Server, Consistent(w), Advances(w, x, i),
         Voted(x), HoldersKeep(x), Stays(w, x, i),
         Elective(x.node[i]) =>
           TermOf(x, i) = TermOf(w, i) \/ TermOf(x, i) > TermOf(w, i),
         \A b \in x.ballots : \A t \in Nat : \A k \in Nat :
           /\ b \notin w.ballots /\ b.vote # i /\ b.term > t
           /\ Elective(w.node[b.vote]) /\ TermOf(w, b.vote) = b.term
           /\ Own(w, k, t) /\ Held(w, t, i) >= k
           => SameTo(Ents(w, b.vote), LogOf(w, t), k) \/ Blocked(w, k, t)
  PROVE  CandidatesKeep(x)
<1>1. /\ Chronicle(w) /\ Chronicle(x) /\ CandidatesKeep(w) /\ CandidatesThere(w)
  BY DEF Consistent, Advances
<1> SUFFICES ASSUME NEW t \in Nat, NEW k \in Nat, NEW b \in x.ballots,
                    Own(x, k, t), Held(x, t, b.voter) >= k, b.term > t,
                    Elective(x.node[b.vote]), TermOf(x, b.vote) = b.term
             PROVE  SameTo(Ents(x, b.vote), LogOf(x, t), k) \/ Blocked(x, k, t)
  BY DEF CandidatesKeep
<1> DEFINE T == TermOf(x, i)
           j == b.vote
<1>2. b.term \in Nat /\ j \in Server /\ b.voter \in Server
  BY <1>1 DEF Chronicle, BallotType
<1>3. /\ T \in Nat /\ TermOf(w, i) \in Nat /\ TermOf(w, i) <= T
      /\ Len(Ents(w, j)) \in Nat /\ TermOf(w, j) \in Nat
  BY <1>1, <1>2, Parts DEF Advances
<1>4. Own(w, k, t) /\ Held(w, t, b.voter) >= k /\ t <= TermOf(w, b.voter)
  <2>1. b.voter # i \/ t # T
    <3>1. b.term <= TermOf(x, b.voter)
      BY DEF Voted
    <3> QED BY <1>2, <1>3, <3>1
  <2> QED BY <1>2, <2>1, HeldBefore
<1>5. CASE b \notin w.ballots /\ j = i
  <2>1. b.voter = i
    BY <1>5 DEF Advances
  <2> QED BY <1>2, <1>5, <2>1 DEF HoldersKeep
<1>6. CASE b \notin w.ballots /\ j # i
  <2>1. b.voter = i
    BY <1>6 DEF Advances
  <2>2. /\ x.node[j] = w.node[j] /\ TermOf(x, j) = TermOf(w, j)
        /\ Ents(x, j) = Ents(w, j)
    BY <1>2, <1>6, Grows DEF Advances
  <2>3. SameTo(Ents(w, j), LogOf(w, t), k) \/ Blocked(w, k, t)
    BY <1>4, <1>6, <2>1, <2>2
  <2> QED BY <1>3, <1>4, <2>2, <2>3, KeptGrows
<1>7. CASE b \in w.ballots
  <2>1. Elective(w.node[j]) /\ TermOf(w, j) = b.term /\ Ents(x, j) = Ents(w, j)
    <3>1. CASE j # i
      BY <1>2, <3>1, Grows DEF Advances
    <3>2. CASE j = i
      <4>1. b.term <= TermOf(w, j)
        BY <1>1, <1>7 DEF CandidatesThere
      <4>2. TermOf(x, i) = TermOf(w, i)
        BY <1>2, <1>3, <3>2, <4>1
      <4> QED BY <3>2, <4>2 DEF Stays
    <3> QED BY <3>1, <3>2
  <2>2. SameTo(Ents(w, j), LogOf(w, t), k) \/ Blocked(w, k, t)
    BY <1>1, <1>4, <1>7, <2>1 DEF CandidatesKeep
  <2> QED BY <1>3, <1>4, <2>1, <2>2, KeptGrows
<1> QED BY <1>5, <1>6, <1>7

\* A voter gives its ballot only to a log at least as good as its own: what it
\* vouched for is in the candidate's log, or will never be committed.
LEMMA ServedCandidatesKeep ==
  ASSUME NEW w, NEW x, NEW i \in Server, NEW r, NEW M, NEW e,
         ServedBy(w, x, i, r, M, e)
  PROVE  CandidatesKeep(x)
<1>1. /\ Consistent(w) /\ Advances(w, x, i) /\ Voted(x) /\ HoldersKeep(w)
      /\ Chronicle(w) /\ NodesSound(w) /\ Chronicle(x)
  BY DEF ServedBy, Consistent, Advances
<1>2. ASSUME NEW b \in x.ballots, NEW t \in Nat, NEW k \in Nat,
             b \notin w.ballots, b.vote # i, b.term > t,
             Elective(w.node[b.vote]), TermOf(w, b.vote) = b.term,
             Own(w, k, t), Held(w, t, i) >= k
      PROVE  SameTo(Ents(w, b.vote), LogOf(w, t), k) \/ Blocked(w, k, t)
  <2> DEFINE Heard(m) == /\ m \in Envelope /\ Claims(w, m)
                         /\ m.message.type = "Campaign" /\ m.term = b.term
                         /\ m.from = b.vote /\ LogOk(w.node[i], m.message)
  <2>1. b.vote = i \/ \E m \in M : Heard(m)
    BY <1>2, ServedCast
  <2>2. PICK m \in M : Heard(m)
    BY <1>2, <2>1
  <2>3. b.vote \in Server
    BY <1>1 DEF Chronicle, BallotType
  <2>4. /\ m.message.last_index = Len(Ents(w, b.vote))
        /\ m.message.last_term = LastTerm(w.node[b.vote].log)
    BY <1>2, <2>2 DEF Claims, TermOf, Ents
  <2>5. m.message.last_term = LastOf(Ents(w, b.vote))
    BY <1>1, <2>3, <2>4, LastTermOf
  <2>6. SameTo(Ents(w, i), LogOf(w, t), k) \/ Blocked(w, k, t)
    BY <1>1, <1>2 DEF HoldersKeep
  <2>7. CASE SameTo(Ents(w, i), LogOf(w, t), k)
    <3>1. LogOk(w.node[i], m.message)
      BY <2>2
    <3> QED BY <1>1, <1>2, <2>3, <2>4, <2>5, <2>7, <3>1, NewerLogKeeps
  <2> QED BY <2>6, <2>7
<1>3. HoldersKeep(x) /\ Stays(w, x, i)
  BY ServedHoldersKeep, ServedStays
<1>4. TermOf(x, i) = TermOf(w, i) \/ TermOf(x, i) > TermOf(w, i)
  BY <1>1, Parts DEF Advances
<1> QED BY <1>1, <1>2, <1>3, <1>4, CandidatesKeepFor

\* A leader's step leaves the logs of the candidates as they are.
LEMMA GovernedCandidatesKeep ==
  ASSUME NEW w, NEW x, NEW i \in Server, NEW r, NEW s,
         GovernedBy(w, x, i, r, s)
  PROVE  CandidatesKeep(x)
<1>1. Consistent(w) /\ Advances(w, x, i) /\ Voted(x) /\ Chronicle(w) /\ Chronicle(x)
  BY DEF GovernedBy, Advances
<1>2. \A b \in x.ballots : b \notin w.ballots => b.vote = i
  BY GovernedCast
<1>3. HoldersKeep(x) /\ Stays(w, x, i)
  BY GovernedHoldersKeep, GovernedStays
<1>4. TermOf(x, i) = TermOf(w, i) \/ TermOf(x, i) > TermOf(w, i)
  BY <1>1, Parts DEF Advances
<1> QED BY <1>1, <1>2, <1>3, <1>4, CandidatesKeepFor

-----------------------------------------------------------------------------
(* Commits and messages.                                                   *)

\* What a node commits, a leader has committed.
LEMMA CommitsChosenFor ==
  ASSUME NEW w, NEW x, NEW i \in Server, Consistent(w), Advances(w, x, i),
         Committed(x, Ents(x, i), CommitOf(x, i), TermOf(x, i))
  PROVE  CommitsChosen(x)
<1> SUFFICES ASSUME NEW v \in Server, v # i
             PROVE  Committed(x, Ents(x, v), CommitOf(x, v), TermOf(x, v))
  BY DEF CommitsChosen
<1>1. /\ Ents(x, v) = Ents(w, v) /\ CommitOf(x, v) = CommitOf(w, v)
      /\ TermOf(x, v) = TermOf(w, v)
  BY Grows
<1>2. Committed(w, Ents(w, v), CommitOf(w, v), TermOf(w, v))
  BY DEF Consistent, CommitsChosen
<1>3. /\ Len(Ents(w, v)) \in Nat /\ CommitOf(w, v) \in Nat /\ TermOf(w, v) \in Nat
  BY Parts DEF Advances
<1>4. TermOf(w, v) <= TermOf(w, v)
  BY <1>3
<1> QED BY <1>1, <1>2, <1>3, <1>4, CommittedGrows

\* A follower's commit index covers only entries that its leader had committed.
LEMMA ServedCommits ==
  ASSUME NEW w, NEW x, NEW i \in Server, NEW r, NEW M, NEW e,
         ServedBy(w, x, i, r, M, e)
  PROVE  CommitsChosen(x)
<1> DEFINE T == TermOf(x, i)
           l == LogOf(w, T)
           c == CommitOf(w, i)
           d == CommitOf(x, i)
           b == Ents(x, i)
<1>1. /\ Consistent(w) /\ Advances(w, x, i) /\ Chronicle(w) /\ Chronicle(x)
      /\ CommitsChosen(w) /\ e \in Nat
      /\ \A m \in M : m \in Envelope /\ Claims(w, m)
  BY DEF ServedBy, Consistent, Advances
<1>2. /\ T \in Nat /\ TermOf(w, i) \in Nat /\ TermOf(w, i) <= T /\ c \in Nat
      /\ d \in Nat /\ Len(b) \in Nat /\ Len(Ents(w, i)) \in Nat /\ Len(l) \in Nat
      /\ \A t \in Nat : Len(LogOf(w, t)) \in Nat
  BY <1>1, Parts DEF Advances
<1>3. /\ b = Ents(w, i) \/ d = c
      /\ SameTo(b, l, e)
      /\ \/ d <= c
         \/ /\ d <= e
            /\ \E m \in M : /\ m.message.type = "Heartbeat" /\ m.term = T
                            /\ d <= m.message.commit_index
  BY Served
<1>4. Committed(w, Ents(w, i), c, TermOf(w, i))
  BY <1>1 DEF CommitsChosen
<1> HIDE DEF T, l, c, d, b
<1>5. Committed(w, b, d, T)
  <2> SUFFICES ASSUME d > 0
               PROVE  \E t \in Nat : \E k \in Nat :
                        /\ t <= T /\ d <= k /\ Own(w, k, t) /\ Chosen(w, k, t)
                        /\ SameTo(b, LogOf(w, t), d)
    BY DEF Committed
  <2>1. CASE d <= c
    <3>1. c > 0
      BY <1>2, <2>1
    <3>2. PICK t \in Nat : \E k \in Nat :
            /\ t <= TermOf(w, i) /\ c <= k /\ Own(w, k, t) /\ Chosen(w, k, t)
            /\ SameTo(Ents(w, i), LogOf(w, t), c)
      BY <1>4, <3>1 DEF Committed
    <3>3. PICK k \in Nat :
            /\ t <= TermOf(w, i) /\ c <= k /\ Own(w, k, t) /\ Chosen(w, k, t)
            /\ SameTo(Ents(w, i), LogOf(w, t), c)
      BY <3>2
    <3>4. t <= T /\ d <= k
      BY <1>2, <2>1, <3>3
    <3>5. SameTo(Ents(w, i), LogOf(w, t), d)
      BY <1>2, <2>1, <3>3, SameLess
    <3>6. SameTo(b, LogOf(w, t), d) \/ Blocked(w, k, t)
      BY <1>2, <3>3, <3>4, <3>5, ServedKept DEF T, b
    <3>7. ~Blocked(w, k, t)
      BY <1>1, <3>3, ChosenNotBlocked
    <3> QED BY <3>3, <3>4, <3>6, <3>7
  <2>2. CASE ~(d <= c)
    <3>1. d <= e
      BY <1>3, <2>2
    <3>2. PICK m \in M : /\ m.message.type = "Heartbeat" /\ m.term = T
                         /\ d <= m.message.commit_index
      BY <1>3, <2>2
    <3>3. Committed(w, l, m.message.commit_index, T)
      BY <1>1, <3>2 DEF Claims, l
    <3> DEFINE ci == m.message.commit_index
    <3>4. ci \in Nat /\ d <= ci
      <4>1. m.message \in StaticMessage
        BY <1>1 DEF Envelope
      <4> QED BY <3>2, <4>1, MessageFields
    <3>12. Committed(w, l, ci, T)
      BY <3>3
    <3> HIDE DEF ci
    <3>13. d \in Nat
      BY <1>2
    <3>5. ci > 0
      BY <3>4, <3>13
    <3>6. PICK t \in Nat : \E k \in Nat :
            /\ t <= T /\ ci <= k /\ Own(w, k, t) /\ Chosen(w, k, t)
            /\ SameTo(l, LogOf(w, t), ci)
      BY <3>12, <3>5 DEF Committed
    <3>7. PICK k \in Nat :
            /\ t <= T /\ ci <= k /\ Own(w, k, t) /\ Chosen(w, k, t)
            /\ SameTo(l, LogOf(w, t), ci)
      BY <3>6
    <3>8. SameTo(l, LogOf(w, t), d)
      BY <1>2, <3>4, <3>7, SameLess
    <3>9. SameTo(b, l, d)
      BY <1>1, <1>2, <1>3, <3>1, SameLess
    <3>10. SameTo(b, LogOf(w, t), d)
      BY <3>8, <3>9, SameOver
    <3>11. d <= k
      <4>1. ci <= k /\ k \in Nat
        BY <3>7
      <4> QED BY <3>4, <3>13, <4>1
    <3> QED BY <3>7, <3>10, <3>11
  <2> QED BY <2>1, <2>2
<1>6. T <= T
  BY <1>2
<1>7. Committed(x, b, d, T)
  BY <1>1, <1>2, <1>5, <1>6, CommittedGrows
<1> QED BY <1>1, <1>7, CommitsChosenFor DEF T, b, d

\* A leader commits an entry of its term that a quorum has, with all before it.
LEMMA GovernedCommits ==
  ASSUME NEW w, NEW x, NEW i \in Server, NEW r, NEW s,
         GovernedBy(w, x, i, r, s)
  PROVE  CommitsChosen(x)
<1> DEFINE T == TermOf(x, i)
           c == CommitOf(w, i)
           d == CommitOf(x, i)
           b == Ents(x, i)
<1>1. /\ Consistent(w) /\ Advances(w, x, i) /\ Chronicle(w) /\ Chronicle(x)
      /\ CommitsChosen(w) /\ LogOf(x, T) = b /\ Held(x, T, i) = Len(b)
  BY DEF GovernedBy, Consistent, Advances
<1>2. /\ T \in Nat /\ TermOf(w, i) \in Nat /\ TermOf(w, i) <= T /\ c \in Nat
      /\ d \in Nat /\ Len(b) \in Nat /\ Len(Ents(w, i)) \in Nat
      /\ \A t \in Nat : Len(LogOf(w, t)) \in Nat
  BY <1>1, Parts DEF Advances
<1>3. d <= c \/ Agreed(i, w.held[T], x.node[i])
  BY Governed
<1>4. CASE d <= c
  <2>1. Committed(w, Ents(w, i), c, TermOf(w, i))
    BY <1>1 DEF CommitsChosen
  <2>2. Len(Ents(w, i)) >= c
    <3>1. Sound(w.node[i])
      BY <1>1 DEF Consistent, NodesSound
    <3> QED BY <1>2, <3>1 DEF Sound, CommitOf, Ents
  <2>3. SameTo(Ents(w, i), Ents(w, i), d)
    BY <1>2, <1>4, <2>2 DEF SameTo
  <2>4. SameTo(b, Ents(w, i), d)
    BY <1>2, <2>3, GovernedKept
  <2> HIDE DEF T, c, d, b
  <2>5. Committed(w, b, d, TermOf(w, i))
    BY <1>2, <1>4, <2>1, <2>4, CommittedSame
  <2>6. Committed(x, b, d, T)
    BY <1>1, <1>2, <2>5, CommittedGrows
  <2> QED BY <1>1, <2>6, CommitsChosenFor DEF T, b, d
<1>5. CASE Agreed(i, w.held[T], x.node[i])
  <2>1. /\ d \in 1 .. Len(b) /\ b[d].term = T
        /\ \E Q \in SUBSET Server :
             /\ Majority(Server, Q)
             /\ \A v \in Q : v = i \/ w.held[T][v] >= d
    BY <1>5 DEF Agreed, CommitOf, Ents, TermOf
  <2>2. PICK Q \in SUBSET Server : /\ Majority(Server, Q)
                                   /\ \A v \in Q : v = i \/ w.held[T][v] >= d
    BY <2>1
  <2>3. ASSUME NEW v \in Q
        PROVE  Held(x, T, v) >= d
    <3>1. CASE v = i
      BY <1>1, <1>2, <2>1, <3>1
    <3>2. CASE v # i
      <4>1. w.held[T][v] >= d
        BY <2>2, <3>2
      <4>2. Held(x, T, v) = Held(w, T, v)
        BY <1>1, <1>2, <3>2 DEF Advances
      <4> QED BY <4>1, <4>2 DEF Held
    <3> QED BY <3>1, <3>2
  <2> HIDE DEF T, c, d, b
  <2>4. Chosen(x, d, T)
    BY <2>2, <2>3 DEF Chosen
  <2>5. Own(x, d, T)
    BY <1>1, <2>1 DEF Own
  <2>6. SameTo(b, LogOf(x, T), d)
    BY <1>1, <1>2, <2>1 DEF SameTo
  <2>7. T <= T /\ d <= d
    BY <1>2
  <2>8. Committed(x, b, d, T)
    BY <1>2, <2>4, <2>5, <2>6, <2>7 DEF Committed
  <2> QED BY <1>1, <2>8, CommitsChosenFor DEF T, b, d
<1> QED BY <1>3, <1>4, <1>5

\* The nodes stay sound.
LEMMA ServedSound ==
  ASSUME NEW w, NEW x, NEW i \in Server, NEW r, NEW M, NEW e,
         ServedBy(w, x, i, r, M, e)
  PROVE  NodesSound(x)
<1>1. /\ NodesSound(w) /\ Sound(x.node[i])
      /\ x.node[i].role.kind = "Panicked" => x.node[i].role.why \in Unexpected
      /\ \A v \in Server : v # i => x.node[v] = w.node[v]
  BY DEF ServedBy, Serves, Consistent, Advances
<1> QED BY <1>1 DEF NodesSound

\* A leader's step leaves the nodes sound, and panics nowhere but where it may.
LEMMA GovernedSound ==
  ASSUME NEW w, NEW x, NEW i \in Server, NEW r, NEW s,
         GovernedBy(w, x, i, r, s)
  PROVE  NodesSound(x)
<1>1. /\ NodesSound(w) /\ Sound(x.node[i])
      /\ x.node[i].role.kind = "Panicked" => x.node[i].role.why \in Unexpected
      /\ \A v \in Server : v # i => x.node[v] = w.node[v]
  BY DEF GovernedBy, Governs, Consistent, Advances
<1> QED BY <1>1 DEF NodesSound

\* What is not about logs claims nothing.
LEMMA PlainClaims ==
  ASSUME NEW w, NEW m, Plain({m})
  PROVE  Claims(w, m)
<1>1. m.message.type \in {"ClientRequest", "ClientResponse", "Read",
                          "ReadResponse", "PreCampaign",
                          "PreCampaignResponse", "CampaignResponse"}
  BY DEF Plain
<1> QED BY <1>1 DEF Claims

\* Mail is as true as what is sent.
LEMMA MailClaimsFor ==
  ASSUME NEW w, NEW x, NEW i \in Server, Consistent(w), Advances(w, x, i),
         Stays(w, x, i), NodesSound(x), NEW out, x.mail \subseteq w.mail \cup out,
         \A m \in out : Claims(x, m)
  PROVE  MailClaims(x)
<1>1. /\ NodesSound(w) /\ w.mail \subseteq Envelope
      /\ \A m \in w.mail : Claims(w, m)
  BY DEF Consistent, Chronicle, MailClaims
<1>2. ASSUME NEW m \in x.mail
      PROVE  Claims(x, m)
  <2>1. CASE m \in out
    BY <2>1
  <2>2. CASE m \in w.mail
    <3>1. m \in Envelope /\ Claims(w, m)
      BY <1>1, <2>2
    <3> QED BY <1>1, <3>1, ClaimsGrow
  <2> QED BY <2>1, <2>2
<1> QED BY <1>2 DEF MailClaims

\* What a node says of its log, in its answers and when it campaigns, is true.
LEMMA ServedMail ==
  ASSUME NEW w, NEW x, NEW i \in Server, NEW r, NEW M, NEW e,
         ServedBy(w, x, i, r, M, e)
  PROVE  MailClaims(x)
<1> DEFINE T == TermOf(x, i)
           l == LogOf(w, T)
           k == x.node[i]
<1>1. /\ Consistent(w) /\ Advances(w, x, i) /\ Chronicle(x)
      /\ x.mail \subseteq w.mail \cup r.out
      /\ \A m \in M : m \in Envelope /\ Claims(w, m)
      /\ e <= Held(x, T, i) /\ e \in Nat
      /\ LogOf(x, T) = l /\ x.reads[T] = w.reads[T]
      /\ k = r.n
  BY DEF ServedBy, Advances, LogOf
<1>2. /\ Vouches(M, l, e, k, r.out) /\ r.out \subseteq StaticEnv(i)
      /\ k.log.term = T
  BY <1>1 DEF ServedBy, Serves, Outcome, TermOf
<1>3. /\ T \in Nat /\ Held(x, T, i) \in Nat /\ w.reads[T] \in Nat
      /\ x.reads[T] \in Nat
      /\ LastTerm(k.log) = LastTerm(x.node[i].log)
      /\ Ents(x, i) = k.log.ents
  <2>1. Chronicle(w)
    BY <1>1 DEF Consistent
  <2> QED BY <1>1, <2>1, Parts DEF Ents
<1> HIDE DEF T, l, k
<1>4. ASSUME NEW m \in r.out
      PROVE  Claims(x, m)
  <2>1. m.from = i /\ m.message \in StaticMessage
    BY <1>2 DEF StaticEnv
  <2>2. \/ Plain({m})
        \/ /\ m.message.type = "AppendResponse" /\ m.term = T
           /\ m.message.match_index <= e /\ m.message.reject_index <= Len(l)
           /\ (m.message.match_index > 0) # (m.message.reject_index > 0)
        \/ /\ m.message.type = "HeartbeatResponse" /\ m.term = T
           /\ m.message.match_index <= e
           /\ \E q \in M : /\ q.message.type = "Heartbeat" /\ q.term = T
                           /\ m.message.read_seq <= q.message.read_seq
        \/ /\ m.message.type = "Campaign" /\ m.term = T
           /\ m.message.last_index = Len(k.log.ents)
           /\ m.message.last_term = LastTerm(k.log)
    BY <1>2 DEF Vouches
  <2>3. CASE Plain({m})
    BY <2>3, PlainClaims
  <2>4. CASE /\ m.message.type = "AppendResponse" /\ m.term = T
             /\ m.message.match_index <= e /\ m.message.reject_index <= Len(l)
             /\ (m.message.match_index > 0) # (m.message.reject_index > 0)
    <3> DEFINE z == m.message.match_index
    <3>1. z \in Nat /\ z <= e
      BY <2>1, <2>4, MessageFields
    <3> HIDE DEF z
    <3>2. z <= Held(x, T, i)
      BY <1>1, <1>3, <3>1
    <3>3. m.message.match_index <= Held(x, T, i)
      BY <3>2 DEF z
    <3> QED BY <1>1, <2>1, <2>4, <3>3 DEF Claims
  <2>5. CASE /\ m.message.type = "HeartbeatResponse" /\ m.term = T
             /\ m.message.match_index <= e
             /\ \E q \in M : /\ q.message.type = "Heartbeat" /\ q.term = T
                             /\ m.message.read_seq <= q.message.read_seq
    <3> DEFINE z == m.message.match_index
               y == m.message.read_seq
    <3>1. z \in Nat /\ z <= e /\ y \in Nat
      BY <2>1, <2>5, MessageFields
    <3>2. PICK q \in M : /\ q.message.type = "Heartbeat" /\ q.term = T
                         /\ m.message.read_seq <= q.message.read_seq
      BY <2>5
    <3> DEFINE p == q.message.read_seq
    <3>3. q.message \in StaticMessage
      BY <1>1 DEF Envelope
    <3>4. p \in Nat
      BY <3>2, <3>3, MessageFields
    <3>5. p <= w.reads[T]
      BY <1>1, <3>2 DEF Claims
    <3>6. y <= p
      BY <3>2
    <3> HIDE DEF z, y, p
    <3>7. z <= Held(x, T, i)
      BY <1>1, <1>3, <3>1
    <3>8. y <= w.reads[T]
      BY <1>3, <3>1, <3>4, <3>5, <3>6
    <3>9. /\ m.message.match_index <= Held(x, T, i)
          /\ m.message.read_seq <= x.reads[T]
      BY <1>1, <3>7, <3>8 DEF z, y
    <3> QED BY <2>1, <2>5, <3>9 DEF Claims
  <2>6. CASE /\ m.message.type = "Campaign" /\ m.term = T
             /\ m.message.last_index = Len(k.log.ents)
             /\ m.message.last_term = LastTerm(k.log)
    <3>1. T <= TermOf(x, m.from)
      <4>1. T = TermOf(x, m.from)
        BY <2>1 DEF T
      <4> QED BY <1>3, <4>1
    <3> QED BY <1>3, <2>1, <2>6, <3>1 DEF Claims, k
  <2> QED BY <2>2, <2>3, <2>4, <2>5, <2>6
<1> QED BY <1>1, <1>4, ServedStays, ServedSound, MailClaimsFor

\* What a leader says of its log, in Appends and Heartbeats, is true.
LEMMA GovernedMail ==
  ASSUME NEW w, NEW x, NEW i \in Server, NEW r, NEW s,
         GovernedBy(w, x, i, r, s)
  PROVE  MailClaims(x)
<1> DEFINE T == TermOf(x, i)
           l == LogOf(x, T)
           c == CommitOf(x, i)
<1>1. /\ Consistent(w) /\ Advances(w, x, i) /\ Chronicle(x)
      /\ x.mail \subseteq w.mail \cup r.out
      /\ l = Ents(x, i) /\ x.reads[T] = s /\ x.node[i] = r.n
  BY DEF GovernedBy, Advances
<1>2. /\ Reports(T, l, c, s, r.out) /\ r.out \subseteq StaticEnv(i)
      /\ r.n.role.kind # "Candidate"
  BY <1>1 DEF GovernedBy, Governs, Outcome, TermOf, Ents, CommitOf
<1>3. /\ T \in Nat /\ c \in Nat /\ Len(l) \in Nat
      /\ \A t \in Nat : Len(LogOf(x, t)) \in Nat
  BY <1>1, Parts
<1>4. Committed(x, l, c, T)
  <2>1. CommitsChosen(x)
    BY GovernedCommits
  <2> QED BY <1>1, <2>1 DEF CommitsChosen
<1> HIDE DEF T, l, c
<1>5. ASSUME NEW m \in r.out
      PROVE  Claims(x, m)
  <2>1. m.from = i /\ m.message \in StaticMessage
    BY <1>2 DEF StaticEnv
  <2>2. \/ Plain({m})
        \/ m.message.type = "Campaign" /\ m.term = T
        \/ /\ m.message.type = "Append" /\ m.term = T
           /\ Segment(l, m.message)
        \/ /\ m.message.type = "Heartbeat" /\ m.term = T
           /\ m.message.last_index <= Len(l)
           /\ m.message.commit_index <= m.message.last_index
           /\ m.message.commit_index <= c
           /\ m.message.read_seq <= s
    BY <1>2 DEF Reports
  <2>3. CASE Plain({m})
    BY <2>3, PlainClaims
  <2>4. CASE m.message.type = "Campaign" /\ m.term = T
    <3>1. T <= TermOf(x, m.from)
      <4>1. T = TermOf(x, m.from)
        BY <2>1 DEF T
      <4> QED BY <1>3, <4>1
    <3>2. ~Elective(x.node[m.from])
      BY <1>1, <1>2, <2>1 DEF Elective
    <3> QED BY <2>4, <3>1, <3>2 DEF Claims
  <2>5. CASE /\ m.message.type = "Append" /\ m.term = T
             /\ Segment(l, m.message)
    BY <2>5 DEF Claims, l
  <2>6. CASE /\ m.message.type = "Heartbeat" /\ m.term = T
             /\ m.message.last_index <= Len(l)
             /\ m.message.commit_index <= m.message.last_index
             /\ m.message.commit_index <= c
             /\ m.message.read_seq <= s
    <3> DEFINE d == m.message.commit_index
               z == m.message.last_index
    <3>1. d \in Nat /\ d <= c /\ z \in Nat /\ d <= z /\ z <= Len(l)
      BY <2>1, <2>6, MessageFields
    <3> HIDE DEF d, z
    <3>2. d <= Len(l)
      BY <1>3, <3>1
    <3>3. SameTo(l, l, d)
      BY <3>2 DEF SameTo
    <3>4. Committed(x, l, d, T)
      BY <1>3, <1>4, <3>1, <3>3, CommittedSame
    <3>5. Committed(x, LogOf(x, T), m.message.commit_index, T)
      BY <3>4 DEF d, l
    <3>6. /\ m.message.last_index <= Len(LogOf(x, T))
          /\ m.message.read_seq <= x.reads[T]
      BY <1>1, <2>6 DEF l
    <3> QED BY <2>6, <3>5, <3>6 DEF Claims
  <2> QED BY <2>2, <2>3, <2>4, <2>5, <2>6
<1> QED BY <1>1, <1>5, GovernedStays, GovernedSound, MailClaimsFor

-----------------------------------------------------------------------------
(* Every call leads from one consistent chronicle to another.              *)

\* A step on the requests of a leader, or on none, keeps the invariant.
LEMMA ServedConsistent ==
  ASSUME NEW w, NEW x, NEW i \in Server, NEW r, NEW M, NEW e,
         ServedBy(w, x, i, r, M, e)
  PROVE  Consistent(x)
<1>1. Chronicle(x) /\ Voted(x)
  BY DEF ServedBy, Advances
<1> QED BY <1>1, ServedCandidates, ServedSound, ServedLeadersRooted,
           ServedNodesRooted, ServedLed, ServedNotYetLed, ServedTrack,
           ServedHeldNow, ServedLeadersKeep, ServedHoldersKeep,
           ServedCandidatesKeep, ServedCommits, ServedMail DEF Consistent

\* A step that makes or keeps a node the leader of its term keeps the invariant.
LEMMA GovernedConsistent ==
  ASSUME NEW w, NEW x, NEW i \in Server, NEW r, NEW s,
         GovernedBy(w, x, i, r, s)
  PROVE  Consistent(x)
<1>1. Chronicle(x) /\ Voted(x)
  BY DEF GovernedBy, Advances
<1> QED BY <1>1, GovernedCandidates, GovernedSound, GovernedLeadersRooted,
           GovernedNodesRooted, GovernedLed, GovernedNotYetLed, GovernedTrack,
           GovernedHeldNow, GovernedLeadersKeep, GovernedHoldersKeep,
           GovernedCandidatesKeep, GovernedCommits, GovernedMail
           DEF Consistent

-----------------------------------------------------------------------------
(* A chronicle goes on with every call.                                    *)

\* State y is that after node i's call r in a state with chronicle w.
CalledIn(w, y, i, r) ==
  /\ r \in Outcome(i) /\ TermOf(w, i) <= r.n.log.term
  /\ y.node = [w.node EXCEPT ![i] = r.n]
  /\ y.mail \subseteq w.mail \cup r.out
  /\ y.ballots = w.ballots \cup Ballot(r.n)

\* x is a chronicle of state y.
ChronicleOf(x, y) ==
  x.node = y.node /\ x.mail = y.mail /\ x.ballots = y.ballots

\* A chronicle of a state has the ballots of that state.
LEMMA VotedOf ==
  ASSUME NEW x, NEW y, ChronicleOf(x, y), Voted(y)
  PROVE  Voted(x)
BY DEF ChronicleOf, Voted, TermOf

\* What goes on, whatever is recorded of logs.
LEMMA CalledChronicle ==
  ASSUME NEW w, Chronicle(w), NEW i \in Server, NEW r, NEW y,
         CalledIn(w, y, i, r), NEW x, ChronicleOf(x, y),
         x.offices \subseteq [leader : Server, term : Nat],
         Histories(x.held, x.log), x.reads \in [Nat -> Nat]
  PROVE  /\ Chronicle(x) /\ x.node[i] = r.n
         /\ \A v \in Server : v # i => x.node[v] = w.node[v]
         /\ TermOf(x, i) = r.n.log.term /\ TermOf(w, i) <= TermOf(x, i)
         /\ TermOf(x, i) \in Nat
         /\ x.mail \subseteq w.mail \cup r.out
         /\ w.ballots \subseteq x.ballots
         /\ \A b \in x.ballots : b \in w.ballots \/
              (b.voter = i /\ b.term = TermOf(x, i)
                 /\ b.vote = x.node[i].log.vote)
<1>1. /\ r.n \in StaticNode(i) /\ r.out \subseteq StaticEnv(i)
      /\ TermOf(w, i) <= r.n.log.term
      /\ x.node = [w.node EXCEPT ![i] = r.n]
      /\ x.mail \subseteq w.mail \cup r.out
      /\ x.ballots = w.ballots \cup Ballot(r.n)
  BY DEF CalledIn, ChronicleOf, Outcome
<1>2. /\ w.node \in [Server -> Nodes]
      /\ \A v \in Server : w.node[v] \in StaticNode(v)
      /\ w.mail \subseteq Envelope /\ w.ballots \subseteq BallotType
  BY DEF Chronicle
<1>3. /\ x.node[i] = r.n /\ x.node \in [Server -> Nodes]
      /\ \A v \in Server : v # i => x.node[v] = w.node[v]
  <2>1. r.n \in Nodes
    BY <1>1 DEF Nodes
  <2> QED BY <1>1, <1>2, <2>1
<1>4. \A v \in Server : x.node[v] \in StaticNode(v)
  BY <1>1, <1>2, <1>3
<1>5. x.mail \subseteq Envelope
  BY <1>1, <1>2 DEF Envelope, StaticEnv
<1>6. /\ Ballot(r.n) \subseteq BallotType
      /\ \A b \in Ballot(r.n) : /\ b.voter = i /\ b.term = r.n.log.term
                                /\ b.vote = r.n.log.vote
  BY <1>1, NotedType, Zenon
<1>7. TermOf(x, i) = r.n.log.term /\ r.n.log.term \in Nat
  BY <1>1, <1>3, FieldTypes DEF TermOf
<1>8. Chronicle(x)
  BY <1>1, <1>2, <1>3, <1>4, <1>5, <1>6 DEF Chronicle
<1> QED BY <1>1, <1>3, <1>6, <1>7, <1>8

\* Node i loses nothing that it knew was committed and, if it leads, nothing.
Retains(w, x, i) ==
  /\ SameTo(Ents(w, i), Ents(x, i), CommitOf(w, i))
  /\ x.node[i].role.kind = "Leader" =>
       SameTo(Ents(w, i), Ents(x, i), Len(Ents(w, i)))

\* A node that serves replaces nothing of what a leader has committed.
LEMMA ServedRetains ==
  ASSUME NEW w, NEW x, NEW i \in Server, NEW r, NEW M, NEW e,
         ServedBy(w, x, i, r, M, e)
  PROVE  Retains(w, x, i)
<1> DEFINE a == Ents(w, i)
           b == Ents(x, i)
           c == CommitOf(w, i)
<1>1. /\ Chronicle(w) /\ CommitsChosen(w) /\ Chronicle(x) /\ NodesSound(w)
      /\ x.node[i].role.kind # "Leader" /\ TermOf(w, i) <= TermOf(x, i)
  BY DEF ServedBy, Serves, Consistent, Advances
<1>2. /\ Len(a) \in Nat /\ Len(b) \in Nat /\ c \in Nat
      /\ TermOf(w, i) \in Nat /\ TermOf(x, i) \in Nat
      /\ \A t \in Nat : Len(LogOf(w, t)) \in Nat
  BY <1>1, Parts
<1>3. Committed(w, a, c, TermOf(w, i))
  BY <1>1 DEF CommitsChosen
<1> HIDE DEF a, b, c
<1>4. SameTo(a, b, c)
  <2>1. CASE c = 0
    BY <1>2, <2>1, SameNone
  <2>2. CASE c > 0
    <3>1. PICK t \in Nat : \E k \in Nat :
            /\ t <= TermOf(w, i) /\ c <= k /\ Own(w, k, t) /\ Chosen(w, k, t)
            /\ SameTo(a, LogOf(w, t), c)
      BY <1>3, <2>2 DEF Committed
    <3>2. PICK k \in Nat :
            /\ t <= TermOf(w, i) /\ c <= k /\ Own(w, k, t) /\ Chosen(w, k, t)
            /\ SameTo(a, LogOf(w, t), c)
      BY <3>1
    <3>3. t <= TermOf(x, i)
      BY <1>1, <1>2, <3>2
    <3>4. SameTo(b, LogOf(w, t), c) \/ Blocked(w, k, t)
      BY <1>2, <3>2, <3>3, ServedKept DEF a, b
    <3>5. ~Blocked(w, k, t)
      BY <1>1, <3>2, ChosenNotBlocked
    <3>6. SameTo(LogOf(w, t), b, c)
      <4>1. c <= c /\ Len(LogOf(w, t)) \in Nat
        BY <1>2
      <4> QED BY <1>2, <3>4, <3>5, <4>1, SameLess
    <3> QED BY <3>2, <3>6, SameOver
  <2> QED BY <1>2, <2>1, <2>2
<1> QED BY <1>1, <1>4 DEF Retains, a, b, c

\* A node that governs only appends.
LEMMA GovernedRetains ==
  ASSUME NEW w, NEW x, NEW i \in Server, NEW r, NEW s,
         GovernedBy(w, x, i, r, s)
  PROVE  Retains(w, x, i)
<1>1. /\ Chronicle(w) /\ NodesSound(w)
      /\ SameTo(Ents(w, i), Ents(x, i), Len(Ents(w, i)))
  BY DEF GovernedBy, Governs, Consistent, Longer, Ents
<1>2. Len(Ents(w, i)) \in Nat /\ CommitOf(w, i) \in Nat
  BY <1>1, Parts
<1>3. CommitOf(w, i) <= Len(Ents(w, i))
  BY <1>1 DEF NodesSound, Sound, CommitOf, Ents
<1>4. SameTo(Ents(w, i), Ents(x, i), CommitOf(w, i))
  BY <1>1, <1>2, <1>3 DEF SameTo
<1> QED BY <1>1, <1>4 DEF Retains

\* Node i's call r, on the messages M, leads from w to x.
Goes(w, x, i, r, M) ==
  \/ \E e : ServedBy(w, x, i, r, M, e)
  \/ \E s : GovernedBy(w, x, i, r, s)

\* A node that leads after the call led the term before it, or nobody did.
LEMMA LeadsSince ==
  ASSUME NEW w, NEW x, NEW i \in Server, NEW r, NEW M, Goes(w, x, i, r, M),
         r.n.role.kind = "Leader"
  PROVE  \/ w.node[i].role.kind = "Leader" /\ TermOf(x, i) = TermOf(w, i)
         \/ LogOf(w, TermOf(x, i)) = <<>>
<1>1. ASSUME NEW e, ServedBy(w, x, i, r, M, e)
      PROVE  FALSE
  BY <1>1 DEF ServedBy, Serves
<1>2. ASSUME NEW s, GovernedBy(w, x, i, r, s)
      PROVE  \/ w.node[i].role.kind = "Leader" /\ TermOf(x, i) = TermOf(w, i)
             \/ LogOf(w, TermOf(x, i)) = <<>>
  <2>1. TakesOffice(w, x, i, s)
    BY <1>2, OfficeBefore
  <2> QED BY <2>1 DEF TakesOffice
<1> QED BY <1>1, <1>2 DEF Goes

\* A node that serves is recorded as having vouched for more.
LEMMA ServesOn ==
  ASSUME NEW w, Consistent(w), NEW i \in Server, NEW r, NEW y,
         CalledIn(w, y, i, r), Voted(y), NEW M, NEW e \in Nat,
         Serves(i, M, LogOf(w, r.n.log.term), w.node[i], e, r),
         \A m \in M : m \in Envelope /\ Claims(w, m)
  PROVE  \E x : /\ ChronicleOf(x, y) /\ Consistent(x) /\ Retains(w, x, i)
               /\ Goes(w, x, i, r, M)
<1> DEFINE T == r.n.log.term
           held == [t \in Nat |-> [v \in Server |->
                      IF t = T /\ v = i /\ w.held[t][v] <= e THEN e
                      ELSE w.held[t][v]]]
           x == [node |-> y.node, mail |-> y.mail, ballots |-> y.ballots,
                 offices |-> w.offices, log |-> w.log, held |-> held,
                 reads |-> w.reads]
<1>1. /\ Chronicle(w) /\ Histories(w.held, w.log) /\ w.reads \in [Nat -> Nat]
      /\ w.offices \subseteq [leader : Server, term : Nat]
  BY DEF Consistent, Chronicle
<1>2. w.held \in [Nat -> [Server -> Nat]] /\ w.log \in [Nat -> Seq(StaticEntry)]
  BY <1>1 DEF Histories
<1> DEFINE h(t, v) == IF t = T /\ v = i /\ w.held[t][v] <= e THEN e
                      ELSE w.held[t][v]
<1>3. \A t \in Nat : \A v \in Server : w.held[t][v] \in Nat
  BY <1>2
<1>4. held \in [Nat -> [Server -> Nat]]
  <2>1. \A t \in Nat : \A v \in Server : h(t, v) \in Nat
    BY <1>3
  <2>2. held = [t \in Nat |-> [v \in Server |-> h(t, v)]]
    OBVIOUS
  <2> HIDE DEF held, h
  <2> QED BY <2>1, <2>2
<1>5. \A t \in Nat : \A v \in Server : held[t][v] = h(t, v)
  <2>2. held = [t \in Nat |-> [v \in Server |-> h(t, v)]]
    OBVIOUS
  <2> HIDE DEF held, h
  <2> QED BY <2>2
<1> HIDE DEF held
<1>6. /\ ChronicleOf(x, y) /\ x.offices = w.offices /\ x.log = w.log
      /\ x.reads = w.reads /\ x.held = held
  BY DEF ChronicleOf
<1> HIDE DEF x
<1>7. Histories(x.held, x.log)
  BY <1>2, <1>4, <1>6 DEF Histories
<1>8. /\ Chronicle(x) /\ x.node[i] = r.n
      /\ \A v \in Server : v # i => x.node[v] = w.node[v]
      /\ TermOf(x, i) = T /\ TermOf(w, i) <= TermOf(x, i)
      /\ TermOf(x, i) \in Nat
      /\ x.mail \subseteq w.mail \cup r.out
      /\ w.ballots \subseteq x.ballots
      /\ \A b \in x.ballots : b \in w.ballots \/
           (b.voter = i /\ b.term = TermOf(x, i)
              /\ b.vote = x.node[i].log.vote)
  BY <1>1, <1>6, <1>7, CalledChronicle
<1> HIDE DEF T
<1>9. \A t \in Nat : \A v \in Server : Held(x, t, v) = h(t, v)
  BY <1>5, <1>6 DEF Held
<1>10. \A t \in Nat : \A v \in Server : Held(w, t, v) = w.held[t][v]
  BY DEF Held
<1>11. /\ \A t \in Nat : \A v \in Server :
            t # TermOf(x, i) \/ v # i => Held(x, t, v) = Held(w, t, v)
       /\ Held(w, T, i) <= Held(x, T, i) /\ e <= Held(x, T, i)
       /\ Held(x, T, i) \in {e, Held(w, T, i)}
  BY <1>3, <1>8, <1>9, <1>10
<1>12. \A t \in Nat : LogOf(x, t) = LogOf(w, t) /\ x.reads[t] = w.reads[t]
  BY <1>6 DEF LogOf
<1>13. /\ SameTo(LogOf(w, T), LogOf(x, T), Len(LogOf(w, T)))
       /\ w.reads[T] <= x.reads[T]
  <2>1. T \in Nat
    BY <1>8
  <2>2. Len(LogOf(w, T)) \in Nat /\ w.reads[T] \in Nat
    BY <1>1, <2>1, Parts
  <2>3. LogOf(w, T) = LogOf(x, T) /\ w.reads[T] = x.reads[T]
    BY <1>12, <2>1
  <2> QED BY <2>2, <2>3, SameToSelf
<1>14. Advances(w, x, i)
  <2>1. /\ w.offices \subseteq x.offices
        /\ \A o \in x.offices : o \in w.offices
    BY <1>6
  <2> QED BY <1>1, <1>8, <1>11, <1>12, <1>13, <2>1 DEF Advances
<1>15. ServedBy(w, x, i, r, M, e)
  <2>1. Voted(x)
    BY <1>6, VotedOf
  <2>2. Serves(i, M, LogOf(w, T), w.node[i], e, r)
    BY DEF T
  <2> QED BY <1>6, <1>8, <1>11, <1>14, <2>1, <2>2 DEF ServedBy
<1>16. Goes(w, x, i, r, M)
  BY <1>15 DEF Goes
<1> QED BY <1>6, <1>15, <1>16, ServedConsistent, ServedRetains

\* For a node that governs, its log is recorded as that of its term.
LEMMA GovernsOn ==
  ASSUME NEW w, Consistent(w), NEW i \in Server, NEW r, NEW y,
         CalledIn(w, y, i, r), Voted(y), NEW s \in Nat,
         Governs(i, w.held[r.n.log.term], s, w.node[i], r),
         Polled([leader |-> i, term |-> r.n.log.term], y.ballots)
  PROVE  \E x : /\ ChronicleOf(x, y) /\ Consistent(x) /\ Retains(w, x, i)
               /\ \A M : Goes(w, x, i, r, M)
<1> DEFINE T == r.n.log.term
           l == r.n.log.ents
           o == [leader |-> i, term |-> T]
           h(t, v) == IF t = T /\ v = i THEN Len(l) ELSE w.held[t][v]
           held == [t \in Nat |-> [v \in Server |-> h(t, v)]]
           x == [node |-> y.node, mail |-> y.mail, ballots |-> y.ballots,
                 offices |-> w.offices \cup {o}, log |-> [w.log EXCEPT ![T] = l],
                 held |-> held, reads |-> [w.reads EXCEPT ![T] = s]]
<1>1. /\ Chronicle(w) /\ Histories(w.held, w.log) /\ w.reads \in [Nat -> Nat]
      /\ w.offices \subseteq [leader : Server, term : Nat]
      /\ LeadersTrack(w)
  BY DEF Consistent, Chronicle
<1>2. w.held \in [Nat -> [Server -> Nat]] /\ w.log \in [Nat -> Seq(StaticEntry)]
  BY <1>1 DEF Histories
<1>3. /\ T \in Nat /\ l \in Seq(StaticEntry) /\ Len(l) \in Nat
      /\ Longer(Ents(w, i), l, T) /\ r.n.role.kind # "Candidate"
  <2>1. r.n \in StaticNode(i)
    BY DEF CalledIn, Outcome
  <2>2. T \in Nat /\ l \in Seq(StaticEntry)
    BY <2>1, FieldTypes DEF StaticLog
  <2> QED BY <2>2, LenProperties DEF Governs, Ents
<1>4. /\ \A t \in Nat : \A v \in Server : held[t][v] = h(t, v)
      /\ held \in [Nat -> [Server -> Nat]]
  <2>1. \A t \in Nat : \A v \in Server : h(t, v) \in Nat
    BY <1>2, <1>3
  <2>2. held = [t \in Nat |-> [v \in Server |-> h(t, v)]]
    OBVIOUS
  <2> HIDE DEF held, h
  <2> QED BY <2>1, <2>2
<1>5. Seated(w, i, r.n, s, T)
  <2>1. w.ballots \subseteq y.ballots
    BY DEF CalledIn
  <2>2. \A b, c \in y.ballots :
          b.voter = c.voter /\ b.term = c.term => b.vote = c.vote
    BY DEF Voted
  <2>3. Governs(i, w.held[T], s, w.node[i], r) /\ Polled(o, y.ballots)
    OBVIOUS
  <2> QED BY <1>3, <2>1, <2>2, <2>3, OfficeIs
<1> HIDE DEF held
<1>6. /\ ChronicleOf(x, y) /\ x.offices = w.offices \cup {o}
      /\ x.log = [w.log EXCEPT ![T] = l]
      /\ x.reads = [w.reads EXCEPT ![T] = s] /\ x.held = held
      /\ x.ballots = y.ballots
  BY DEF ChronicleOf
<1> HIDE DEF x
<1>7. /\ Histories(x.held, x.log) /\ x.reads \in [Nat -> Nat]
      /\ x.offices \subseteq [leader : Server, term : Nat]
  <2>1. o \in [leader : Server, term : Nat]
    BY <1>3
  <2>2. [w.log EXCEPT ![T] = l] \in [Nat -> Seq(StaticEntry)]
    BY <1>2, <1>3
  <2>3. [w.reads EXCEPT ![T] = s] \in [Nat -> Nat]
    BY <1>1, <1>3
  <2> HIDE DEF h, o
  <2>4. x.held \in [Nat -> [Server -> Nat]] /\ x.log \in [Nat -> Seq(StaticEntry)]
        /\ x.reads \in [Nat -> Nat]
    BY <1>4, <1>6, <2>2, <2>3
  <2>5. x.offices \subseteq [leader : Server, term : Nat]
    BY <1>1, <1>6, <2>1
  <2> QED BY <2>4, <2>5 DEF Histories
<1>8. /\ Chronicle(x) /\ x.node[i] = r.n
      /\ \A v \in Server : v # i => x.node[v] = w.node[v]
      /\ TermOf(x, i) = T /\ TermOf(w, i) <= TermOf(x, i)
      /\ TermOf(x, i) \in Nat
      /\ x.mail \subseteq w.mail \cup r.out
      /\ w.ballots \subseteq x.ballots
      /\ \A b \in x.ballots : b \in w.ballots \/
           (b.voter = i /\ b.term = TermOf(x, i)
              /\ b.vote = x.node[i].log.vote)
  BY <1>1, <1>6, <1>7, CalledChronicle
<1>9. /\ Ents(x, i) = l
      /\ \A t \in Nat : t # T => LogOf(x, t) = LogOf(w, t)
      /\ \A t \in Nat : t # T => x.reads[t] = w.reads[t]
      /\ LogOf(x, T) = l /\ x.reads[T] = s
  BY <1>1, <1>2, <1>3, <1>6, <1>8 DEF LogOf, Ents
<1>10. \A t \in Nat : \A v \in Server :
         Held(x, t, v) = h(t, v) /\ Held(w, t, v) = w.held[t][v]
  BY <1>4, <1>6 DEF Held
<1> HIDE DEF T, l
<1>11. /\ \A t \in Nat : \A v \in Server :
            t # TermOf(x, i) \/ v # i => Held(x, t, v) = Held(w, t, v)
       /\ Held(x, T, i) = Len(l)
  BY <1>3, <1>8, <1>10
<1>12. /\ Len(Ents(w, i)) \in Nat /\ Held(w, T, i) \in Nat
       /\ Len(LogOf(w, T)) \in Nat
  BY <1>1, <1>3, Parts
<1>13. /\ Held(w, T, i) <= Len(l)
       /\ SameTo(LogOf(w, T), l, Len(LogOf(w, T)))
  <2>1. CASE /\ w.node[i].role.kind = "Leader" /\ T = TermOf(w, i)
             /\ LogOf(w, T) = Ents(w, i)
    <3>1. Held(w, T, i) = Len(LogOf(w, T))
      BY <1>1, <2>1 DEF LeadersTrack
    <3>2. SameTo(Ents(w, i), l, Len(Ents(w, i)))
      BY <1>3 DEF Longer
    <3>3. Len(Ents(w, i)) <= Len(l)
      BY <3>2 DEF SameTo
    <3> QED BY <2>1, <3>1, <3>2, <3>3
  <2>2. CASE \A e \in w.offices : e.term # T
    <3>1. Len(LogOf(w, T)) = 0 /\ Held(w, T, i) = 0
      BY <1>3, <2>2, Unled
    <3> QED BY <1>3, <3>1, SameNone, <1>12
  <2> QED BY <1>5, <2>1, <2>2 DEF Seated
<1>14. w.reads[T] <= s
  BY <1>5 DEF Seated
<1>15. Advances(w, x, i)
  <2>1. /\ w.offices \subseteq x.offices
        /\ \A e \in x.offices : e \in w.offices \/ (e.leader = i /\ e.term = T)
    BY <1>6
  <2>2. Held(w, T, i) <= Held(x, T, i)
    BY <1>11, <1>13
  <2>3. SameTo(LogOf(w, T), LogOf(x, T), Len(LogOf(w, T)))
    BY <1>9, <1>13
  <2>4. w.reads[T] <= x.reads[T]
    BY <1>9, <1>14
  <2> HIDE DEF o, h
  <2> QED BY <1>1, <1>8, <1>9, <1>11, <2>1, <2>2, <2>3, <2>4 DEF Advances
<1>16. GovernedBy(w, x, i, r, s)
  <2>1. Voted(x)
    BY <1>6, VotedOf
  <2>2. Governs(i, w.held[T], s, w.node[i], r)
    BY DEF T
  <2>3. Polled(o, x.ballots) /\ x.offices = w.offices \cup {o}
        /\ o = [leader |-> i, term |-> T]
    BY <1>6 DEF T
  <2> HIDE DEF o, h
  <2> QED BY <1>8, <1>9, <1>11, <1>15, <2>1, <2>2, <2>3 DEF GovernedBy
<1>17. \A M : Goes(w, x, i, r, M)
  BY <1>16 DEF Goes
<1> QED BY <1>6, <1>16, <1>17, GovernedConsistent, GovernedRetains

\* So it does with whatever a call may do.
LEMMA ActsOn ==
  ASSUME NEW w, Consistent(w), NEW i \in Server, NEW r, NEW y,
         CalledIn(w, y, i, r), Voted(y), NEW M,
         Acts(i, w.held, w.log, M, w.node[i], r),
         \A m \in M : m \in Envelope /\ Claims(w, m),
         \/ r.n.role.kind = "Leader"
         \/ w.node[i].role.kind = "Leader" /\ SameBallot(w.node[i].log, r.n.log)
         => Polled([leader |-> i, term |-> r.n.log.term], y.ballots)
  PROVE  \E x : /\ ChronicleOf(x, y) /\ Consistent(x) /\ Retains(w, x, i)
               /\ Goes(w, x, i, r, M)
<1> DEFINE T == r.n.log.term
<1>1. CASE \E e \in Nat : Serves(i, M, w.log[T], w.node[i], e, r)
  <2>1. PICK e \in Nat : Serves(i, M, w.log[T], w.node[i], e, r)
    BY <1>1
  <2>2. Serves(i, M, LogOf(w, T), w.node[i], e, r)
    BY <2>1 DEF LogOf
  <2> QED BY <2>2, ServesOn
<1>2. CASE \E s \in Nat : Governs(i, w.held[T], s, w.node[i], r)
  <2>1. PICK s \in Nat : Governs(i, w.held[T], s, w.node[i], r)
    BY <1>2
  <2>2. Polled([leader |-> i, term |-> r.n.log.term], y.ballots)
    BY <2>1 DEF Governs
  <2> QED BY <2>1, <2>2, GovernsOn
<1> QED BY <1>1, <1>2 DEF Acts

-----------------------------------------------------------------------------
(* What a consistent chronicle grants a call.                              *)

\* The invariant gives the handlers what they rely on of the log histories.
LEMMA Grants ==
  ASSUME NEW w, Consistent(w), NEW i \in Server
  PROVE  Histories(w.held, w.log) /\ Granting(i, w.held, w.node[i])
<1> DEFINE n == w.node[i]
<1>1. /\ Histories(w.held, w.log) /\ n \in StaticNode(i) /\ Sound(n)
  BY DEF Consistent, Chronicle, NodesSound
<1>2. n.role.kind = "Leader" => Tracks(i, w.held[n.log.term], n) /\ Current(n)
  BY DEF Consistent, LeadersTrack, TermOf
<1>3. Elective(n) => n.log.vote = i
  BY DEF Consistent, NotYetLed
<1> QED BY <1>1, <1>2, <1>3 DEF Granting

\* A leader is told no more than was vouched for.
LEMMA LeaderHears ==
  ASSUME NEW w, Consistent(w), NEW i \in Server, NEW m \in Mail(i),
         Claims(w, m), w.node[i].role.kind = "Leader",
         m.term = w.node[i].log.term
  PROVE  HeardBy(w.held[w.node[i].log.term], w.node[i], m)
<1> DEFINE n == w.node[i]
           t == m.term
           c == m.message
<1>1. /\ t \in Nat /\ m.from \in Server /\ c \in StaticMessage
      /\ t = TermOf(w, i)
  BY DEF Mail, TermOf
<1>2. /\ Ents(w, i) = LogOf(w, t) /\ n.role.read_seq = w.reads[t]
  BY <1>1 DEF Consistent, LeadersTrack
<1>3. Held(w, t, m.from) <= Len(LogOf(w, t))
  BY <1>1 DEF Consistent, HeldNow
<1>4. Held(w, t, m.from) \in Nat /\ Len(LogOf(w, t)) \in Nat
  BY <1>1, Parts DEF Consistent
<1>5. /\ w.held[w.node[i].log.term][m.from] = Held(w, t, m.from)
      /\ Len(n.log.ents) = Len(LogOf(w, t))
  BY <1>2 DEF Held, Ents
<1> HIDE DEF n, t, c
<1>6. ASSUME c.type = "HeartbeatResponse"
      PROVE  /\ c.match_index <= Len(n.log.ents)
             /\ c.match_index <= w.held[w.node[i].log.term][m.from]
             /\ c.read_seq <= n.role.read_seq
  <2> DEFINE z == c.match_index
  <2>1. z \in Nat
    BY <1>1, <1>6, MessageFields
  <2>2. z <= Held(w, t, m.from) /\ c.read_seq <= w.reads[t]
    BY <1>6 DEF Claims, c, t
  <2> HIDE DEF z
  <2>3. z <= Len(LogOf(w, t))
    BY <1>3, <1>4, <2>1, <2>2
  <2> QED BY <1>2, <1>5, <2>2, <2>3 DEF z
<1>7. ASSUME c.type = "AppendResponse"
      PROVE  /\ c.match_index <= Len(n.log.ents)
             /\ c.match_index <= w.held[w.node[i].log.term][m.from]
             /\ c.reject_index <= Len(n.log.ents)
             /\ (c.match_index > 0) # (c.reject_index > 0)
  <2> DEFINE z == c.match_index
  <2>1. z \in Nat
    BY <1>1, <1>7, MessageFields
  <2>2. z <= Held(w, t, m.from) /\ c.reject_index <= Len(LogOf(w, t))
        /\ (c.match_index > 0) # (c.reject_index > 0)
    BY <1>7 DEF Claims, c, t
  <2> HIDE DEF z
  <2>3. z <= Len(LogOf(w, t))
    BY <1>3, <1>4, <2>1, <2>2
  <2> QED BY <1>5, <2>2, <2>3 DEF z
<1>8. c.type # "InstallSnapshotResponse"
  BY DEF Claims, c
<1> QED BY <1>6, <1>7, <1>8 DEF HeardBy, c, n

\* The log of the leader of a term that a node is in or before fits its own.
LEMMA LeaderFits ==
  ASSUME NEW w, Consistent(w), NEW i \in Server, NEW t \in Nat,
         TermOf(w, i) <= t
  PROVE  Fits(LogOf(w, t), w.node[i], t)
<1> DEFINE l == LogOf(w, t)
           a == Ents(w, i)
           c == CommitOf(w, i)
<1>1. /\ Chronicle(w) /\ NodesRooted(w) /\ LeadersRooted(w) /\ LeadersKeep(w)
      /\ CommitsChosen(w) /\ NodesSound(w)
  BY DEF Consistent
<1>2. /\ l \in Seq(StaticEntry) /\ Len(l) \in Nat /\ Len(a) \in Nat /\ c \in Nat
      /\ TermOf(w, i) \in Nat /\ a \in Seq(StaticEntry)
      /\ \A k \in 1 .. Len(a) : a[k].term \in Nat
      /\ \A s \in Nat : Len(LogOf(w, s)) \in Nat
  BY <1>1, Parts
<1>3. /\ Rooted(w, a) /\ Rooted(w, l) /\ Rising(l, t)
  BY <1>1 DEF NodesRooted, LeadersRooted
<1>4. Committed(w, a, c, TermOf(w, i))
  BY <1>1 DEF CommitsChosen
<1> HIDE DEF l, a, c
<1>5. ASSUME NEW k \in 1 .. Len(a),
             a[k].term = t \/ (k <= Len(l) /\ a[k].term = l[k].term)
      PROVE  SameTo(a, l, k)
  <2> DEFINE u == a[k].term
  <2>1. u \in Nat /\ k \in Nat /\ SameTo(a, LogOf(w, u), k)
    BY <1>2, <1>3 DEF Rooted
  <2>2. CASE u = t
    BY <2>1, <2>2 DEF l
  <2>3. CASE k <= Len(l) /\ u = l[k].term
    <3>1. k \in 1 .. Len(l)
      BY <1>2, <2>3
    <3>2. SameTo(l, LogOf(w, u), k)
      BY <1>3, <2>3, <3>1 DEF Rooted
    <3>3. SameTo(LogOf(w, u), l, k)
      <4>1. Len(LogOf(w, u)) \in Nat
        BY <1>2, <2>1
      <4>2. k \in Nat
        BY <2>1
      <4>3. k <= k
        BY <4>2
      <4> QED BY <1>2, <3>2, <4>1, <4>2, <4>3, SameLess
    <3> QED BY <2>1, <3>3, SameOver
  <2> QED BY <1>5, <2>2, <2>3
<1>6. ASSUME l # <<>>
      PROVE  SameTo(a, l, c)
  <2>1. CASE c = 0
    BY <1>2, <2>1, SameNone
  <2>2. CASE c > 0
    <3>1. PICK s \in Nat : \E k \in Nat :
            /\ s <= TermOf(w, i) /\ c <= k /\ Own(w, k, s) /\ Chosen(w, k, s)
            /\ SameTo(a, LogOf(w, s), c)
      BY <1>4, <2>2 DEF Committed
    <3>2. PICK k \in Nat :
            /\ s <= TermOf(w, i) /\ c <= k /\ Own(w, k, s) /\ Chosen(w, k, s)
            /\ SameTo(a, LogOf(w, s), c)
      BY <3>1
    <3>3. CASE s = t
      BY <3>2, <3>3 DEF l
    <3>4. CASE s # t
      <4>1. s < t
        BY <1>2, <3>2, <3>4
      <4>2. SameTo(l, LogOf(w, s), k) \/ Blocked(w, k, s)
        BY <1>1, <1>6, <3>2, <4>1 DEF LeadersKeep, l
      <4>3. ~Blocked(w, k, s)
        BY <1>1, <3>2, ChosenNotBlocked
      <4>4. SameTo(LogOf(w, s), l, c)
        <5>1. c <= k /\ Len(LogOf(w, s)) \in Nat
          BY <1>2, <3>2
        <5> QED BY <1>2, <4>2, <4>3, <5>1, SameLess
      <4> QED BY <3>2, <4>4, SameOver
    <3> QED BY <3>3, <3>4
  <2> QED BY <1>2, <2>1, <2>2
<1>7. /\ \A k \in 1 .. Len(l) : l[k].term > 0 /\ l[k].term <= t
      /\ \A x, y \in 1 .. Len(l) : x <= y => l[x].term <= l[y].term
  <2>1. \A y \in 1 .. Len(l) :
          /\ l[y].term > 0 /\ l[y].term <= t
          /\ \A x \in 1 .. y : l[x].term <= l[y].term
    BY <1>3 DEF Rising
  <2>2. ASSUME NEW x \in 1 .. Len(l), NEW y \in 1 .. Len(l), x <= y
        PROVE  l[x].term <= l[y].term
    <3>1. x \in 1 .. y
      BY <1>2, <2>2
    <3> QED BY <2>1, <3>1
  <2> QED BY <2>1, <2>2
<1>8. a = w.node[i].log.ents /\ c = w.node[i].log.commit
  BY DEF a, c, Ents, CommitOf
<1> QED BY <1>2, <1>5, <1>6, <1>7, <1>8 DEF Fits, l

\* What a call may rely on of a message.
LEMMA MessageRelied ==
  ASSUME NEW w, Consistent(w), NEW i \in Server, NEW m \in Mail(i), Claims(w, m)
  PROVE  Relies(w.held, w.log, w.node[i], m)
<1>1. m.term \in Nat /\ w.node[i].log.term = TermOf(w, i)
      /\ w.log[m.term] = LogOf(w, m.term)
  BY DEF Mail, TermOf, LogOf
<1>2. Told(LogOf(w, m.term), m)
  BY DEF Claims, Told
<1>3. m.term >= w.node[i].log.term => Fits(LogOf(w, m.term), w.node[i], m.term)
  <2>1. TermOf(w, i) \in Nat
    BY Parts DEF Consistent
  <2>2. m.term >= TermOf(w, i) => TermOf(w, i) <= m.term
    BY <1>1, <2>1
  <2> QED BY <1>1, <2>2, LeaderFits
<1>4. w.node[i].role.kind = "Leader" /\ m.term = w.node[i].log.term
        => HeardBy(w.held[w.node[i].log.term], w.node[i], m)
  BY LeaderHears
<1> QED BY <1>1, <1>2, <1>3, <1>4 DEF Relies

-----------------------------------------------------------------------------
(* The cluster.                                                            *)

\* The present state has a consistent chronicle.
Chronicled ==
  \E w : /\ w.node = node /\ w.mail = DOMAIN net /\ w.ballots = ballots
         /\ Consistent(w)

\* Every step is a call that acts on what the chronicle grants it.
LEMMA NextCalls ==
  ASSUME SnapshotThreshold = 0, StaticMembership, Inv, Next,
         NEW w, w.node = node, w.mail = DOMAIN net, Consistent(w)
  PROVE  \E i \in Server : \E r : \E bag : \E M :
           /\ DOMAIN bag \subseteq DOMAIN net
           /\ Update(i, r, bag)
           /\ Acts(i, w.held, w.log, M, node[i], r)
           /\ \A m \in M : m \in Envelope /\ Claims(w, m)
<1> DEFINE G == w.held
           H == w.log
           Called(i, r, bag, M) ==
             /\ DOMAIN bag \subseteq DOMAIN net
             /\ Update(i, r, bag)
             /\ Acts(i, G, H, M, node[i], r)
             /\ \A m \in M : m \in Envelope /\ Claims(w, m)
<1>1. /\ \A i \in Server : Histories(G, H) /\ Granting(i, G, node[i])
      /\ \A m \in DOMAIN net : m \in Envelope /\ Claims(w, m)
      /\ \A i \in Server : node[i] \in StaticNode(i) /\ Sound(node[i])
      /\ DOMAIN net \subseteq DOMAIN net
  <2>1. \A i \in Server : Histories(G, H) /\ Granting(i, G, node[i])
    BY Grants
  <2>2. w.mail \subseteq Envelope /\ \A m \in w.mail : Claims(w, m)
    BY DEF Consistent, Chronicle, MailClaims
  <2> QED BY <2>1, <2>2 DEF Granting
<1>2. \A i \in Server : \A m \in Mail(i) : Claims(w, m) => Relies(G, H, node[i], m)
  BY MessageRelied
<1> HIDE DEF G, H
<1>3. ASSUME NEW i \in Server, Timeout(i)
      PROVE  Called(i, ElectionTick(node[i]), net, {})
  <2>1. Update(i, ElectionTick(node[i]), net)
    BY <1>3 DEF Timeout
  <2>2. Acts(i, G, H, {}, node[i], ElectionTick(node[i]))
    BY <1>1, ElectionTickActs
  <2> QED BY <1>1, <2>1, <2>2
<1>4. ASSUME NEW i \in Server, NEW due \in BOOLEAN, NEW heard, Tick(i, due, heard)
      PROVE  Called(i, LeaderTick(node[i], due, heard), net, {})
  <2>1. node[i].role.kind = "Leader" /\ Update(i, LeaderTick(node[i], due, heard), net)
    BY <1>4 DEF Tick
  <2>2. Acts(i, G, H, {}, node[i], LeaderTick(node[i], due, heard))
    BY <1>1, <2>1, LeaderTickActs
  <2> QED BY <1>1, <2>1, <2>2
<1>5. ASSUME NEW m \in DOMAIN net, Receive(m)
      PROVE  /\ m.to \in Server
             /\ Called(m.to, Step(node[m.to], m), net (-) SetToBag({m}), {m})
  <2>1. m.to \in Server /\ m \in Mail(m.to) /\ m \in Envelope /\ Claims(w, m)
    BY <1>1 DEF Envelope, Mail
  <2>2. /\ node[m.to].role.kind # "Panicked"
        /\ Update(m.to, Step(node[m.to], m), net (-) SetToBag({m}))
    BY <1>5 DEF Receive, Running, Apply
  <2>3. Acts(m.to, G, H, {m}, node[m.to], Step(node[m.to], m))
    BY <1>1, <1>2, <2>1, <2>2, StepActs
  <2>4. DOMAIN (net (-) SetToBag({m})) \subseteq DOMAIN net
    BY RemoveType
  <2> QED BY <2>1, <2>2, <2>3, <2>4
<1>6. ASSUME NEW i \in Server, NEW q \in Requests, Ask(i, q)
      PROVE  Called(i, Step(node[i], ClientEnv(i, q)), net, {ClientEnv(i, q)})
  <2> DEFINE msg == [type |-> "ClientRequest", request |-> q]
             m == ClientEnv(i, q)
  <2>1. msg \in StaticMessage /\ msg.type = "ClientRequest"
    BY DEF StaticMessage
  <2>2. m = Env(node[i], i, msg)
    BY DEF ClientEnv
  <2>3. node[i].role.kind # "Panicked" /\ Update(i, Step(node[i], m), net)
    BY <1>6, ClusterAssumption DEF Ask
  <2> HIDE DEF m, msg
  <2>4. m \in StaticEnv(i) /\ m.to = i /\ m.message = msg
    BY <1>1, <2>1, <2>2, EnvType
  <2>5. m \in Mail(i) /\ m \in Envelope
    BY <2>4 DEF Mail, StaticEnv, Envelope
  <2>6. Claims(w, m)
    BY <2>1, <2>4 DEF Claims
  <2>7. Acts(i, G, H, {m}, node[i], Step(node[i], m))
    BY <1>1, <1>2, <2>3, <2>5, <2>6, StepActs
  <2>8. Called(i, Step(node[i], m), net, {m})
    BY <1>1, <2>3, <2>5, <2>6, <2>7
  <2> HIDE DEF Called
  <2> QED BY <2>8 DEF m
<1>7. ASSUME NEW i \in Server, NEW c \in 0 .. node[i].log.commit, Restart(i, c)
      PROVE  Called(i, NewNode(i, Reopened(node[i].log, c)), net, {})
  <2>1. node[i].log.commit \in Nat
    BY <1>1, FieldTypes
  <2>2. c \in Nat /\ c <= node[i].log.commit
    BY <2>1
  <2>3. Update(i, NewNode(i, Reopened(node[i].log, c)), net)
    BY <1>7 DEF Restart
  <2>4. Acts(i, G, H, {}, node[i], NewNode(i, Reopened(node[i].log, c)))
    BY <1>1, <2>2, NewNodeActs
  <2> QED BY <1>1, <2>3, <2>4
<1>8. \E i \in Server : \E r : \E bag : \E M : Called(i, r, bag, M)
  <2> HIDE DEF Called
  <2>1. CASE \E i \in Server : Timeout(i)
    BY <1>3, <2>1
  <2>2. CASE \E i \in Server, due \in BOOLEAN : \E heard \in SUBSET Peers(node[i]) :
               Tick(i, due, heard)
    BY <1>4, <2>2
  <2>3. CASE \E m \in DOMAIN net : Receive(m)
    BY <1>5, <2>3
  <2>4. CASE \E i \in Server, q \in Requests : Ask(i, q)
    BY <1>6, <2>4
  <2>5. CASE \E i \in Server : \E c \in 0 .. node[i].log.commit : Restart(i, c)
    BY <1>7, <2>5
  <2> QED BY <2>1, <2>2, <2>3, <2>4, <2>5 DEF Next
<1> QED BY <1>8 DEF G, H

\* What the election invariant says of ballots in a state.
LEMMA InvVoted ==
  ASSUME Inv, NEW y, y.node = node, y.ballots = ballots
  PROVE  Voted(y)
<1>1. BallotsPast /\ OneVote /\ VotesNoted
  BY DEF Inv
<1>2. \A b \in y.ballots : b.term <= TermOf(y, b.voter)
  BY <1>1 DEF BallotsPast, TermOf
<1>3. \A v \in Server : y.node[v].log.vote # Nil =>
        [voter |-> v, term |-> TermOf(y, v), vote |-> y.node[v].log.vote]
          \in y.ballots
  BY <1>1 DEF VotesNoted, TermOf
<1>4. \A a, b \in y.ballots :
        a.voter = b.voter /\ a.term = b.term => a.vote = b.vote
  BY <1>1 DEF OneVote
<1> QED BY <1>2, <1>3, <1>4 DEF Voted

\* Terms do not go back.
LEMMA TermsRise ==
  ASSUME Inv, Next, NEW i \in Server
  PROVE  node'[i].log.term >= node[i].log.term
<1>1. PICK j \in Server : \E r : \E bag :
        Moves(j, node[j], ballots, r) /\ DOMAIN bag \subseteq DOMAIN net
          /\ Update(j, r, bag)
  BY NextMoves
<1>2. PICK r : \E bag : Moves(j, node[j], ballots, r) /\ Update(j, r, bag)
  BY <1>1
<1>3. /\ node' = [node EXCEPT ![j] = r.n]
      /\ r.n.log.term >= node[j].log.term
  BY <1>2 DEF Moves, Update
<1>4. node \in [Server -> Nodes] /\ node[i] \in StaticNode(i)
  BY DEF Inv, NodesStatic
<1>5. node[i].log.term \in Nat
  BY <1>4, FieldTypes
<1> QED BY <1>3, <1>4, <1>5

\* The chronicle goes on with a call that acts on what it grants.
LEMMA StepGoes ==
  ASSUME Inv, Next,
         NEW w, w.node = node, w.mail = DOMAIN net, w.ballots = ballots,
         Consistent(w), NEW i \in Server, NEW r, NEW bag, NEW M,
         DOMAIN bag \subseteq DOMAIN net, Update(i, r, bag),
         Acts(i, w.held, w.log, M, node[i], r),
         \A m \in M : m \in Envelope /\ Claims(w, m)
  PROVE  /\ node' = [node EXCEPT ![i] = r.n]
         /\ \E x : /\ x.node = node' /\ x.mail = DOMAIN net'
                  /\ x.ballots = ballots' /\ Consistent(x)
                  /\ Retains(w, x, i) /\ Goes(w, x, i, r, M)
<1> DEFINE y == [node |-> node', mail |-> DOMAIN net', ballots |-> ballots']
<1>1. /\ node' = [node EXCEPT ![i] = r.n]
      /\ ballots' = ballots \cup Ballot(r.n)
      /\ elected' = elected \cup Office(r.n)
      /\ net' = Emit(node', bag, r.out)
  BY DEF Update
<1>2. Inv'
  BY NextKeepsInv
<1>3. /\ BallotsPast' /\ OneVote' /\ VotesNoted' /\ OfficesBacked'
      /\ node \in [Server -> Nodes]
  BY <1>2 DEF Inv, NodesStatic
<1>4. Voted(y)
  <2>1. \A b \in y.ballots : b.term <= TermOf(y, b.voter)
    BY <1>3 DEF BallotsPast, TermOf
  <2>2. \A v \in Server : y.node[v].log.vote # Nil =>
          [voter |-> v, term |-> TermOf(y, v), vote |-> y.node[v].log.vote]
            \in y.ballots
    BY <1>3 DEF VotesNoted, TermOf
  <2>3. \A a, b \in y.ballots :
          a.voter = b.voter /\ a.term = b.term => a.vote = b.vote
    BY <1>3 DEF OneVote
  <2> QED BY <2>1, <2>2, <2>3 DEF Voted
<1>5. node'[i] = r.n /\ r.n.log.term >= node[i].log.term
  BY <1>1, <1>3, TermsRise
<1>6. r \in Outcome(i)
  BY DEF Acts, Serves, Governs
<1>7. CalledIn(w, y, i, r)
  <2>1. DOMAIN net' \subseteq DOMAIN net \cup r.out
    BY <1>1, EmitType
  <2>2. TermOf(w, i) <= r.n.log.term
    <3>1. node[i] \in StaticNode(i) /\ r.n \in StaticNode(i)
      BY <1>6 DEF Inv, NodesStatic, Outcome
    <3>2. node[i].log.term \in Nat /\ r.n.log.term \in Nat
      BY <3>1, FieldTypes
    <3>3. TermOf(w, i) = node[i].log.term
      BY DEF TermOf
    <3> QED BY <1>5, <3>2, <3>3
  <2> QED BY <1>1, <1>6, <2>1, <2>2 DEF CalledIn
<1>8. ASSUME \/ r.n.role.kind = "Leader"
              \/ /\ w.node[i].role.kind = "Leader"
                 /\ SameBallot(w.node[i].log, r.n.log)
       PROVE  Polled([leader |-> i, term |-> r.n.log.term], y.ballots)
  <2>1. [leader |-> i, term |-> r.n.log.term] \in elected'
    <3>1. CASE r.n.role.kind = "Leader"
      BY <1>3, <1>5, <3>1 DEF OfficesBacked
    <3>2. CASE /\ w.node[i].role.kind = "Leader"
               /\ SameBallot(w.node[i].log, r.n.log)
      <4>1. [leader |-> i, term |-> node[i].log.term] \in elected
        BY <3>2 DEF Inv, OfficesBacked
      <4> QED BY <1>1, <3>2, <4>1 DEF SameBallot
    <3> QED BY <1>8, <3>1, <3>2
  <2> QED BY <1>3, <2>1 DEF OfficesBacked
<1>9. Acts(i, w.held, w.log, M, w.node[i], r)
  OBVIOUS
<1>10. \A m \in M : m \in Envelope /\ Claims(w, m)
  OBVIOUS
<1>11. PICK x : /\ ChronicleOf(x, y) /\ Consistent(x) /\ Retains(w, x, i)
             /\ Goes(w, x, i, r, M)
  <2> HIDE DEF y
  <2> QED BY <1>4, <1>7, <1>8, <1>9, <1>10, ActsOn
<1>12. /\ x.node = node' /\ x.mail = DOMAIN net' /\ x.ballots = ballots'
  BY <1>11 DEF ChronicleOf
<1> QED BY <1>1, <1>11, <1>12

\* A step leads from a state with a chronicle to one with a chronicle.
LEMMA NextKeepsChronicle ==
  ASSUME SnapshotThreshold = 0, StaticMembership, Inv, Next, Chronicled
  PROVE  /\ Chronicled'
         /\ \A v \in Server :
              LET l == node[v].log.ents
                  k == node'[v].log.ents
              IN /\ SameTo(l, k, node[v].log.commit)
                 /\ node[v].role.kind = "Leader" /\ node'[v].role.kind = "Leader"
                      => SameTo(l, k, Len(l))
<1>1. PICK w : /\ w.node = node /\ w.mail = DOMAIN net /\ w.ballots = ballots
               /\ Consistent(w)
  BY DEF Chronicled
<1>2. \E i \in Server : \E r : \E bag : \E M :
        /\ DOMAIN bag \subseteq DOMAIN net
        /\ Update(i, r, bag)
        /\ Acts(i, w.held, w.log, M, node[i], r)
        /\ \A m \in M : m \in Envelope /\ Claims(w, m)
  BY <1>1, NextCalls
<1>3. PICK i \in Server : \E r : \E bag : \E M :
        /\ DOMAIN bag \subseteq DOMAIN net
        /\ Update(i, r, bag)
        /\ Acts(i, w.held, w.log, M, node[i], r)
        /\ \A m \in M : m \in Envelope /\ Claims(w, m)
  BY <1>2
<1>4. PICK r : \E bag : \E M :
        /\ DOMAIN bag \subseteq DOMAIN net
        /\ Update(i, r, bag)
        /\ Acts(i, w.held, w.log, M, node[i], r)
        /\ \A m \in M : m \in Envelope /\ Claims(w, m)
  BY <1>3
<1>5. PICK bag : \E M :
        /\ DOMAIN bag \subseteq DOMAIN net
        /\ Update(i, r, bag)
        /\ Acts(i, w.held, w.log, M, node[i], r)
        /\ \A m \in M : m \in Envelope /\ Claims(w, m)
  BY <1>4
<1>6. PICK M : /\ DOMAIN bag \subseteq DOMAIN net
               /\ Update(i, r, bag)
               /\ Acts(i, w.held, w.log, M, node[i], r)
               /\ \A m \in M : m \in Envelope /\ Claims(w, m)
  BY <1>5
<1>7. /\ node' = [node EXCEPT ![i] = r.n]
      /\ \E x : /\ x.node = node' /\ x.mail = DOMAIN net'
               /\ x.ballots = ballots' /\ Consistent(x)
               /\ Retains(w, x, i) /\ Goes(w, x, i, r, M)
  BY <1>1, <1>6, StepGoes
<1>8. PICK x : /\ x.node = node' /\ x.mail = DOMAIN net'
               /\ x.ballots = ballots' /\ Consistent(x) /\ Retains(w, x, i)
  BY <1>7
<1>9. Chronicled'
  BY <1>8 DEF Chronicled
<1>10. node \in [Server -> Nodes]
  BY DEF Inv, NodesStatic
<1>11. ASSUME NEW v \in Server
       PROVE  /\ SameTo(node[v].log.ents, node'[v].log.ents, node[v].log.commit)
              /\ /\ node[v].role.kind = "Leader"
                 /\ node'[v].role.kind = "Leader"
                 => SameTo(node[v].log.ents, node'[v].log.ents,
                           Len(node[v].log.ents))
  <2>2. CASE v = i
    BY <1>1, <1>8, <2>2 DEF Retains, Ents, CommitOf
  <2>3. CASE v # i
    <3>1. node'[v] = node[v]
      BY <1>7, <2>3, <1>10
    <3>2. /\ Len(node[v].log.ents) \in Nat /\ node[v].log.commit \in Nat
          /\ node[v].log.commit <= Len(node[v].log.ents)
      <4>1. Chronicle(w) /\ Sound(w.node[v])
        BY <1>1 DEF Consistent, NodesSound
      <4>2. Len(Ents(w, v)) \in Nat /\ CommitOf(w, v) \in Nat
        BY <4>1, Parts
      <4> QED BY <1>1, <4>1, <4>2 DEF Sound, Ents, CommitOf
    <3> QED BY <3>1, <3>2 DEF SameTo
  <2> QED BY <2>2, <2>3
<1> QED BY <1>9, <1>11

-----------------------------------------------------------------------------
(* The initial states.                                                     *)

\* Nodes that Node::new has made of empty logs, before any stands for election.
Blank(i) == MaybeApply(Fresh(i, EmptyLog(EmptyState)))

\* A node that has never run: an empty log, term 0, no vote.
LEMMA BlankIs ==
  ASSUME StaticMembership, NEW i \in Server
  PROVE  /\ Blank(i) \in StaticNode(i) /\ Sound(Blank(i))
         /\ Blank(i).log = EmptyLog(EmptyState)
         /\ Blank(i).log.ents = <<>> /\ Blank(i).log.term = 0
         /\ Blank(i).log.vote = Nil /\ Blank(i).log.commit = 0
         /\ Blank(i).role.kind = "Follower"
         /\ NewNode(i, EmptyLog(EmptyState)) = Started(Blank(i))
<1> DEFINE l == EmptyLog(EmptyState)
           f == Fresh(i, l)
<1>1. EmptyState \in State
  BY EmptySeq DEF EmptyState, State, StateType, Cmd
<1>2. l \in StaticLog
  BY <1>1, EmptyLogType
<1>3. /\ l.ents = <<>> /\ l.term = 0 /\ l.vote = Nil /\ l.commit = 0
      /\ l.first = 1 /\ l.snapTerm = 0
  BY DEF EmptyLog
<1>4. f.sm = Played(f.log.ents, 0)
  <2>1. f.sm = EmptyState
    BY <1>3 DEF Fresh
  <2>2. Played(f.log.ents, 0) = EmptyState
    BY DEF Played, EmptyState
  <2> QED BY <2>1, <2>2
<1> HIDE DEF l
<1>5. /\ f \in StaticNode(i) /\ f.log = l /\ f.role.kind = "Follower"
      /\ NewNode(i, l) = Started(MaybeApply(f))
  BY <1>2, FreshType
<1> HIDE DEF f
<1>6. /\ MaybeApply(f) \in StaticNode(i) /\ Sound(MaybeApply(f))
      /\ MaybeApply(f).log = f.log /\ MaybeApply(f).role = f.role
  <2>1. f.log.first = 1 /\ f.log.snapTerm = 0 /\ 0 <= f.log.commit
        /\ f.log.commit <= Len(f.log.ents)
    BY <1>3, <1>5
  <2> QED BY <1>4, <1>5, <2>1, ApplySound
<1>7. Blank(i) = MaybeApply(f)
  BY DEF Blank, f, l
<1> QED BY <1>3, <1>5, <1>6, <1>7 DEF l

\* Before anything has happened.
Blanks ==
  [node |-> [i \in Server |-> Blank(i)], mail |-> {}, ballots |-> {},
   offices |-> {}, log |-> [t \in Nat |-> <<>>],
   held |-> [t \in Nat |-> [v \in Server |-> 0]], reads |-> [t \in Nat |-> 0]]

\* A cluster of nodes that have never run satisfies the invariant.
LEMMA BlanksConsistent ==
  ASSUME StaticMembership
  PROVE  Consistent(Blanks)
<1> DEFINE w == Blanks
<1>1. /\ w.node = [i \in Server |-> Blank(i)] /\ w.mail = {} /\ w.ballots = {}
      /\ w.offices = {}
      /\ \A t \in Nat : LogOf(w, t) = <<>> /\ w.reads[t] = 0
      /\ \A t \in Nat : \A v \in Server : Held(w, t, v) = 0
      /\ w.held \in [Nat -> [Server -> Nat]] /\ w.log \in [Nat -> Seq(StaticEntry)]
      /\ w.reads \in [Nat -> Nat]
  BY EmptySeq DEF Blanks, LogOf, Held
<1> HIDE DEF w
<1>2. \A i \in Server : /\ w.node[i] = Blank(i) /\ w.node[i] \in StaticNode(i)
                        /\ Sound(w.node[i]) /\ Ents(w, i) = <<>>
                        /\ TermOf(w, i) = 0 /\ w.node[i].log.vote = Nil
                        /\ CommitOf(w, i) = 0
                        /\ w.node[i].role.kind = "Follower"
  BY <1>1, BlankIs DEF Ents, TermOf, CommitOf
<1>3. \A i \in Server : ~Elective(w.node[i])
  BY <1>2 DEF Elective
<1>4. Len(<<>>) = 0
  OBVIOUS
<1>5. Chronicle(w)
  <2>1. w.node \in [Server -> Nodes]
    BY <1>1, <1>2 DEF Nodes
  <2> QED BY <1>1, <1>2, <2>1 DEF Chronicle, Histories
<1>6. Voted(w) /\ CandidatesThere(w)
  BY <1>1, <1>2 DEF Voted, CandidatesThere
<1>7. NodesSound(w)
  BY <1>2 DEF NodesSound
<1>8. LeadersRooted(w) /\ NodesRooted(w)
  <2>1. \A t : Rooted(w, <<>>) /\ Rising(<<>>, t)
    BY <1>4 DEF Rooted, Rising
  <2>2. LeadersRooted(w)
    BY <1>1, <2>1 DEF LeadersRooted
  <2>3. NodesRooted(w)
    BY <1>2, <2>1 DEF NodesRooted
  <2> QED BY <2>2, <2>3
<1>9. LedByElected(w)
  <2>1. ASSUME NEW t \in Nat
        PROVE  LogOf(w, t) = <<>> /\ ~(w.reads[t] > 0)
    <3>1. LogOf(w, t) = <<>> /\ w.reads[t] = 0
      BY <1>1
    <3> QED BY <3>1
  <2>2. \A e \in w.offices : FALSE
    BY <1>1
  <2> QED BY <2>1, <2>2 DEF LedByElected
<1>10. NotYetLed(w) /\ LeadersTrack(w)
  BY <1>2, <1>3 DEF NotYetLed, LeadersTrack
<1>11. HeldNow(w)
  <2>1. ASSUME NEW v \in Server
        PROVE  /\ \A t \in Nat : /\ Held(w, t, v) <= Len(LogOf(w, t))
                                 /\ Held(w, t, v) > 0 => t <= TermOf(w, v)
               /\ SameTo(Ents(w, v), LogOf(w, TermOf(w, v)),
                         Held(w, TermOf(w, v), v))
    <3>1. ASSUME NEW t \in Nat
          PROVE  /\ Held(w, t, v) <= Len(LogOf(w, t))
                 /\ Held(w, t, v) > 0 => t <= TermOf(w, v)
      <4>1. Held(w, t, v) = 0 /\ Len(LogOf(w, t)) = 0
        BY <1>1, <1>4
      <4> QED BY <4>1
    <3>2. /\ Ents(w, v) = <<>> /\ LogOf(w, TermOf(w, v)) = <<>>
          /\ Held(w, TermOf(w, v), v) = 0
      <4>1. TermOf(w, v) \in Nat
        BY <1>2
      <4> QED BY <1>1, <1>2, <4>1
    <3>3. SameTo(<<>>, <<>>, 0)
      BY <1>4 DEF SameTo
    <3> QED BY <3>1, <3>2, <3>3
  <2> QED BY <2>1 DEF HeldNow
<1>12. \A t \in Nat : \A k : ~Own(w, k, t)
  BY <1>1, <1>4 DEF Own
<1>13. LeadersKeep(w) /\ HoldersKeep(w) /\ CandidatesKeep(w)
  BY <1>12 DEF LeadersKeep, HoldersKeep, CandidatesKeep
<1>14. CommitsChosen(w)
  BY <1>2 DEF CommitsChosen, Committed
<1>15. MailClaims(w)
  BY <1>1 DEF MailClaims
<1>16. Consistent(w)
  BY <1>5, <1>6, <1>7, <1>8, <1>9, <1>10, <1>11, <1>13, <1>14, <1>15
     DEF Consistent
<1> QED BY <1>16 DEF w

\* Several nodes start as followers.  One alone starts as the leader: its
\* election is its first call.
LEMMA InitGoes ==
  ASSUME SnapshotThreshold = 0, StaticMembership, Init
  PROVE  \/ node = Blanks.node /\ DOMAIN net = {} /\ ballots = {}
         \/ \E i \in Server : \E x :
              /\ x.node = node /\ x.mail = DOMAIN net /\ x.ballots = ballots
              /\ Consistent(x) /\ Goes(Blanks, x, i, Started(Blank(i)), {})
<1> DEFINE l == EmptyLog(EmptyState)
           w == Blanks
           s(i) == NewNode(i, l)
<1>1. /\ node = [i \in Server |-> s(i).n]
      /\ net = Emit(node, EmptyBag, UNION {s(i).out : i \in Server})
      /\ ballots = UNION {Ballot(node[i]) : i \in Server}
  BY DEF Init
<1>2. Consistent(w)
  BY BlanksConsistent
<1>3. w.node = [i \in Server |-> Blank(i)] /\ w.mail = {} /\ w.ballots = {}
  BY DEF Blanks
<1>4. DOMAIN net \subseteq UNION {s(i).out : i \in Server}
  <2>1. DOMAIN net \subseteq DOMAIN EmptyBag \cup UNION {s(i).out : i \in Server}
    BY <1>1, EmitType
  <2>2. DOMAIN EmptyBag = {}
    BY DEF EmptyBag, SetToBag
  <2> QED BY <2>1, <2>2
<1>5. ASSUME NEW i \in Server
      PROVE  /\ s(i) = Started(Blank(i)) /\ Blank(i) \in StaticNode(i)
             /\ Blank(i).log = l /\ Blank(i).log.vote = Nil
             /\ Blank(i).log.commit = 0 /\ Blank(i).log.term = 0
             /\ Sound(Blank(i))
             /\ ClusterSize(Blank(i)) = Cardinality(Server)
  BY BlankIs, PeersOf
<1> HIDE DEF w
<1>6. CASE Cardinality(Server) # 1
  <2>1. ASSUME NEW i \in Server
        PROVE  s(i).n = Blank(i) /\ s(i).out = {} /\ Ballot(Blank(i)) = {}
    <3>1. s(i) = Done(Blank(i), {})
      BY <1>5, <1>6 DEF Started
    <3>2. s(i).n = Blank(i) /\ s(i).out = {}
      BY <3>1 DEF Done
    <3>3. Ballot(Blank(i)) = {}
      BY <1>5 DEF Ballot
    <3> QED BY <3>2, <3>3
  <2> HIDE DEF s
  <2>2. node = w.node
    BY <1>1, <1>3, <2>1
  <2>3. DOMAIN net = {} /\ ballots = {}
    <3>1. ASSUME NEW m \in DOMAIN net
          PROVE  FALSE
      <4>1. PICK i \in Server : m \in s(i).out
        BY <1>4
      <4> QED BY <2>1, <4>1
    <3>2. ASSUME NEW b \in ballots
          PROVE  FALSE
      <4>1. PICK i \in Server : b \in Ballot(node[i])
        BY <1>1
      <4>2. node[i] = Blank(i)
        BY <1>3, <2>2
      <4> QED BY <2>1, <4>1, <4>2
    <3> QED BY <3>1, <3>2
  <2> QED BY <2>2, <2>3 DEF w
<1>7. CASE Cardinality(Server) = 1
  <2>1. PICK i : Server = {i}
    BY <1>7, NodeAssumption, FS_Singleton
  <2>2. i \in Server
    BY <2>1
  <2> DEFINE r == s(i)
             y == [node |-> node, mail |-> DOMAIN net, ballots |-> ballots]
             n == w.node[i]
  <2>3. /\ n = Blank(i) /\ n \in StaticNode(i) /\ Sound(n) /\ n.log = l
        /\ n.log.commit = 0 /\ n.log.term = 0
    BY <1>3, <1>5, <2>2
  <2>4. Reopened(n.log, 0) = l
    BY <2>3 DEF Reopened, EmptyLog
  <2>5. Histories(w.held, w.log)
    BY <1>2, <2>2, Grants
  <2>6. Acts(i, w.held, w.log, {}, n, r)
    <3>1. 0 \in Nat /\ 0 <= n.log.commit
      BY <2>3
    <3> HIDE DEF n, l
    <3>2. Acts(i, w.held, w.log, {}, n, NewNode(i, Reopened(n.log, 0)))
      BY <2>2, <2>3, <2>5, <3>1, NewNodeActs
    <3> QED BY <2>4, <3>2
  <2> HIDE DEF l
  <2>7. r \in Outcome(i)
    <3> HIDE DEF r, n
    <3> QED BY <2>6 DEF Acts, Serves, Governs
  <2>8. /\ node[i] = r.n /\ node = [w.node EXCEPT ![i] = r.n]
        /\ DOMAIN net \subseteq r.out /\ ballots = Ballot(r.n)
    <3>1. node = [j \in {i} |-> s(j).n]
      BY <1>1, <2>1
    <3>2. node[i] = r.n
      BY <3>1
    <3>3. w.node = [j \in {i} |-> Blank(j)]
      BY <1>3, <2>1
    <3> HIDE DEF r
    <3>4. node = [w.node EXCEPT ![i] = r.n]
      BY <3>1, <3>2, <3>3
    <3>5. DOMAIN net \subseteq r.out
      BY <1>4, <2>1 DEF r
    <3>6. ballots = Ballot(r.n)
      BY <1>1, <2>1, <3>2
    <3> QED BY <3>2, <3>4, <3>5, <3>6
  <2> HIDE DEF s, r
  <2>9. Inv
    BY InitInv
  <2>10. Voted(y)
    BY <2>9, InvVoted
  <2>11. CalledIn(w, y, i, r)
    <3>1. TermOf(w, i) = 0
      BY <2>3 DEF TermOf
    <3>2. r.n \in StaticNode(i)
      BY <2>7 DEF Outcome
    <3>3. 0 <= r.n.log.term
      <4>1. r.n.log.term \in Nat
        BY <3>2, <2>2, FieldTypes
      <4> QED BY <4>1
    <3> QED BY <1>3, <2>7, <2>8, <3>1, <3>3 DEF CalledIn
  <2>12. ASSUME r.n.role.kind = "Leader"
         PROVE  Polled([leader |-> i, term |-> r.n.log.term], y.ballots)
    BY <2>2, <2>8, <2>9, <2>12 DEF Inv, OfficesBacked
  <2>13. n.role.kind # "Leader"
    BY <2>2, <2>3, BlankIs
  <2>14. PICK x : ChronicleOf(x, y) /\ Consistent(x) /\ Goes(w, x, i, r, {})
    <3> HIDE DEF y
    <3> QED BY <1>2, <2>2, <2>6, <2>10, <2>11, <2>12, <2>13, ActsOn
  <2>15. x.node = node /\ x.mail = DOMAIN net /\ x.ballots = ballots
    BY <2>14 DEF ChronicleOf
  <2>16. r = Started(Blank(i))
    BY <1>5, <2>2 DEF r, s
  <2> QED BY <2>2, <2>14, <2>15, <2>16 DEF w
<1> QED BY <1>6, <1>7

LEMMA InitChronicled ==
  ASSUME SnapshotThreshold = 0, StaticMembership, Init
  PROVE  Chronicled
<1>1. CASE node = Blanks.node /\ DOMAIN net = {} /\ ballots = {}
  <2>1. Blanks.mail = {} /\ Blanks.ballots = {}
    BY DEF Blanks
  <2> QED BY <1>1, <2>1, BlanksConsistent DEF Chronicled
<1>2. CASE \E x : /\ x.node = node /\ x.mail = DOMAIN net
                  /\ x.ballots = ballots /\ Consistent(x)
  BY <1>2 DEF Chronicled
<1> QED BY <1>1, <1>2, InitGoes

\* THEOREM: Every reachable state has a consistent chronicle, in a cluster
\* whose membership does not change and that takes no snapshots.
THEOREM ChronicleHolds ==
  StaticMembership /\ SnapshotThreshold = 0 /\ Spec => [](Inv /\ Chronicled)
<1> SUFFICES ASSUME SnapshotThreshold = 0
             PROVE  StaticMembership /\ Spec => [](Inv /\ Chronicled)
  OBVIOUS
<1> DEFINE Both == Inv /\ Chronicled
<1>1. StaticMembership /\ Init => Both
  BY InitInv, InitChronicled
<1>2. Both /\ [Next]_vars => Both'
  <2> SUFFICES ASSUME Inv, Chronicled, [Next]_vars
               PROVE  Inv' /\ Chronicled'
    OBVIOUS
  <2>1. Inv'
    BY NextKeepsInv
  <2>2. StaticMembership
    BY DEF Inv
  <2>3. CASE Next
    BY <2>1, <2>2, <2>3, NextKeepsChronicle
  <2>4. CASE UNCHANGED vars
    BY <2>1, <2>4 DEF Chronicled, vars
  <2> QED BY <2>1, <2>3, <2>4
<1> QED BY <1>1, <1>2, PTL DEF Spec

-----------------------------------------------------------------------------
(* What follows.                                                           *)

\* A node and its part in a chronicle.
LEMMA NodeIs ==
  ASSUME NEW w, Consistent(w), w.node = node, NEW i \in Server
  PROVE  /\ node[i] \in StaticNode(i) /\ Sound(node[i])
         /\ node[i].log.ents = Ents(w, i) /\ node[i].log.term = TermOf(w, i)
         /\ node[i].log.commit = CommitOf(w, i) /\ node[i].log.first = 1
         /\ Len(Ents(w, i)) \in Nat /\ CommitOf(w, i) \in Nat
         /\ TermOf(w, i) \in Nat /\ CommitOf(w, i) <= Len(Ents(w, i))
         /\ LastIndex(node[i].log) = Len(Ents(w, i))
         /\ \A k \in Int : Stored(node[i].log, k) <=> k \in 1 .. Len(Ents(w, i))
         /\ \A k \in 1 .. Len(Ents(w, i)) :
              EntryAt(node[i].log, k) = Ents(w, i)[k]
         /\ CommittedAt(i) = 1 .. CommitOf(w, i)
<1>1. Chronicle(w) /\ Sound(w.node[i])
  BY DEF Consistent, NodesSound
<1>2. /\ node[i] \in StaticNode(i) /\ Sound(node[i])
      /\ node[i].log.ents = Ents(w, i) /\ node[i].log.term = TermOf(w, i)
      /\ node[i].log.commit = CommitOf(w, i)
      /\ node[i].log.first = 1 /\ CommitOf(w, i) <= Len(Ents(w, i))
  BY <1>1 DEF Chronicle, Ents, TermOf, CommitOf, Sound
<1>3. /\ Len(Ents(w, i)) \in Nat /\ CommitOf(w, i) \in Nat
      /\ TermOf(w, i) \in Nat
  BY <1>1, Parts
<1>4. /\ LastIndex(node[i].log) = Len(Ents(w, i))
      /\ \A k \in Int : Stored(node[i].log, k) <=> k \in 1 .. Len(Ents(w, i))
      /\ \A k \in 1 .. Len(Ents(w, i)) :
           EntryAt(node[i].log, k) = Ents(w, i)[k]
  BY <1>2, SoundLog
<1>5. CommittedAt(i) = 1 .. CommitOf(w, i)
  BY <1>2, <1>3, <1>4 DEF CommittedAt
<1> QED BY <1>2, <1>3, <1>4, <1>5

\* Where logs are the same, a node holds the other's entries.
LEMMA SameHolds ==
  ASSUME NEW w, Consistent(w), w.node = node, NEW i \in Server, NEW j \in Server,
         NEW k \in Nat, SameTo(Ents(w, j), Ents(w, i), k), NEW x \in 1 .. k
  PROVE  Holds(j, i, x) /\ Stored(node[i].log, x)
<1>1. /\ Len(Ents(w, i)) \in Nat /\ Len(Ents(w, j)) \in Nat
      /\ \A y \in Int : Stored(node[i].log, y) <=> y \in 1 .. Len(Ents(w, i))
      /\ \A y \in Int : Stored(node[j].log, y) <=> y \in 1 .. Len(Ents(w, j))
      /\ \A y \in 1 .. Len(Ents(w, i)) : EntryAt(node[i].log, y) = Ents(w, i)[y]
      /\ \A y \in 1 .. Len(Ents(w, j)) : EntryAt(node[j].log, y) = Ents(w, j)[y]
  BY NodeIs
<1>2. k <= Len(Ents(w, j)) /\ k <= Len(Ents(w, i))
      /\ Ents(w, j)[x] = Ents(w, i)[x]
  BY SameAt DEF SameTo
<1>3. x \in 1 .. Len(Ents(w, i)) /\ x \in 1 .. Len(Ents(w, j)) /\ x \in Int
  BY <1>1, <1>2
<1> QED BY <1>1, <1>2, <1>3 DEF Holds

\* What a node knows to be committed is in the log of a leader, by its term,
\* whose entry there or after it a majority has vouched for.
LEMMA CommitSeen ==
  ASSUME NEW w, Consistent(w), NEW i \in Server, CommitOf(w, i) > 0
  PROVE  \E t \in Nat : \E k \in Nat :
           /\ t <= TermOf(w, i) /\ CommitOf(w, i) <= k /\ Own(w, k, t)
           /\ Chosen(w, k, t) /\ ~Blocked(w, k, t)
           /\ SameTo(Ents(w, i), LogOf(w, t), CommitOf(w, i))
<1>1. /\ Chronicle(w)
      /\ Committed(w, Ents(w, i), CommitOf(w, i), TermOf(w, i))
  BY DEF Consistent, CommitsChosen
<1>2. PICK t \in Nat : \E k \in Nat :
        /\ t <= TermOf(w, i) /\ CommitOf(w, i) <= k /\ Own(w, k, t)
        /\ Chosen(w, k, t) /\ SameTo(Ents(w, i), LogOf(w, t), CommitOf(w, i))
  BY <1>1 DEF Committed
<1>3. PICK k \in Nat :
        /\ t <= TermOf(w, i) /\ CommitOf(w, i) <= k /\ Own(w, k, t)
        /\ Chosen(w, k, t) /\ SameTo(Ents(w, i), LogOf(w, t), CommitOf(w, i))
  BY <1>2
<1>4. ~Blocked(w, k, t)
  BY <1>1, <1>3, ChosenNotBlocked
<1> QED BY <1>3, <1>4

\* Of the committed entries of leaders, those of the later one have the
\* others before them.
LEMMA ChosenKept ==
  ASSUME NEW w, Consistent(w), NEW s \in Nat, NEW t \in Nat, s <= t,
         NEW j \in Nat, NEW k \in Nat, Own(w, j, s), ~Blocked(w, j, s),
         Own(w, k, t), NEW d \in Nat, d <= j, d <= k
  PROVE  SameTo(LogOf(w, s), LogOf(w, t), d)
<1>1. /\ LeadersKeep(w) /\ Chronicle(w) /\ Len(LogOf(w, s)) \in Nat
      /\ Len(LogOf(w, t)) \in Nat /\ LogOf(w, t) \in Seq(StaticEntry)
  BY Parts DEF Consistent
<1>2. j <= Len(LogOf(w, s)) /\ k \in 1 .. Len(LogOf(w, t))
  BY <1>1 DEF Own
<1>3. CASE s = t
  <2>1. d <= Len(LogOf(w, s))
    BY <1>1, <1>2
  <2> QED BY <1>3, <2>1 DEF SameTo
<1>4. CASE s # t
  <2>1. s < t
    BY <1>4
  <2>2. LogOf(w, t) # <<>>
    <3>1. Len(LogOf(w, t)) # 0
      BY <1>1, <1>2
    <3> QED BY <1>1, <3>1, EmptyLen
  <2>3. SameTo(LogOf(w, t), LogOf(w, s), j)
    BY <1>1, <2>1, <2>2 DEF LeadersKeep
  <2> QED BY <1>1, <2>3, SameLess
<1> QED BY <1>3, <1>4

\* Two nodes have the same committed entries.
LEMMA CommitsAgree ==
  ASSUME NEW w, Consistent(w), NEW i \in Server, NEW j \in Server, NEW d \in Nat,
         d <= CommitOf(w, i), d <= CommitOf(w, j)
  PROVE  SameTo(Ents(w, i), Ents(w, j), d)
<1>1. /\ Chronicle(w) /\ Len(Ents(w, i)) \in Nat /\ Len(Ents(w, j)) \in Nat
      /\ CommitOf(w, i) \in Nat /\ CommitOf(w, j) \in Nat
      /\ \A t \in Nat : Len(LogOf(w, t)) \in Nat
  BY Parts DEF Consistent
<1>2. CASE d = 0
  BY <1>1, <1>2, SameNone
<1>3. CASE d > 0
  <2> DEFINE Seen(v, t, k) ==
        /\ CommitOf(w, v) <= k /\ Own(w, k, t) /\ ~Blocked(w, k, t)
        /\ SameTo(Ents(w, v), LogOf(w, t), CommitOf(w, v))
  <2>0. CommitOf(w, i) \in Nat /\ CommitOf(w, j) \in Nat
    BY <1>1
  <2>1. CommitOf(w, i) > 0 /\ CommitOf(w, j) > 0
    BY <1>3, <2>0
  <2>2. PICK s \in Nat : \E k \in Nat : Seen(i, s, k)
    BY <2>1, CommitSeen
  <2>3. PICK a \in Nat : Seen(i, s, a)
    BY <2>2
  <2>4. PICK t \in Nat : \E k \in Nat : Seen(j, t, k)
    BY <2>1, CommitSeen
  <2>5. PICK b \in Nat : Seen(j, t, b)
    BY <2>4
  <2>6. d <= a /\ d <= b
    <3>1. CommitOf(w, i) <= a /\ CommitOf(w, j) <= b
      BY <2>3, <2>5
    <3> HIDE DEF Seen
    <3> QED BY <2>0, <3>1
  <2>7. SameTo(Ents(w, i), LogOf(w, s), d)
    BY <1>1, <2>3, SameLess
  <2>8. SameTo(LogOf(w, t), Ents(w, j), d)
    BY <1>1, <2>5, SameLess
  <2>9. SameTo(LogOf(w, s), LogOf(w, t), d)
    <3>1. CASE s <= t
      BY <2>3, <2>5, <2>6, <3>1, ChosenKept
    <3>2. CASE t <= s
      <4>1. SameTo(LogOf(w, t), LogOf(w, s), d)
        BY <2>3, <2>5, <2>6, <3>2, ChosenKept
      <4>2. d <= d
        OBVIOUS
      <4> QED BY <1>1, <4>1, <4>2, SameLess
    <3> QED BY <3>1, <3>2
  <2>10. SameTo(Ents(w, i), LogOf(w, t), d)
    BY <2>7, <2>9, SameOver
  <2> QED BY <2>8, <2>10, SameOver
<1> QED BY <1>2, <1>3

\* Logs match: what two have of one term is what its leader had.
LEMMA MatchingLogs ==
  ASSUME NEW w, Consistent(w), w.node = node
  PROVE  LogMatching
<1> SUFFICES ASSUME NEW i \in Server, NEW j \in Server,
                    NEW k \in 1 .. LastIndex(node[i].log),
                    Stored(node[i].log, k), Stored(node[j].log, k),
                    EntryAt(node[i].log, k).term = EntryAt(node[j].log, k).term,
                    NEW l \in 1 .. LastIndex(node[i].log), l <= k,
                    Stored(node[i].log, l), Stored(node[j].log, l)
             PROVE  EntryAt(node[i].log, l) = EntryAt(node[j].log, l)
  BY DEF LogMatching
<1> DEFINE a == Ents(w, i)
           b == Ents(w, j)
<1>1. /\ Chronicle(w) /\ Rooted(w, a) /\ Rooted(w, b)
  BY DEF Consistent, NodesRooted
<1>2. /\ Len(a) \in Nat /\ Len(b) \in Nat
      /\ LastIndex(node[i].log) = Len(a)
      /\ \A y \in Int : Stored(node[i].log, y) <=> y \in 1 .. Len(a)
      /\ \A y \in Int : Stored(node[j].log, y) <=> y \in 1 .. Len(b)
      /\ \A y \in 1 .. Len(a) : EntryAt(node[i].log, y) = a[y]
      /\ \A y \in 1 .. Len(b) : EntryAt(node[j].log, y) = b[y]
      /\ \A y \in 1 .. Len(a) : a[y].term \in Nat
  BY <1>1, NodeIs, Parts
<1> HIDE DEF a, b
<1>3. k \in Int /\ l \in Int /\ k \in Nat
  BY <1>2
<1>4. k \in 1 .. Len(a) /\ k \in 1 .. Len(b) /\ l \in 1 .. Len(a)
      /\ l \in 1 .. Len(b)
  BY <1>2, <1>3
<1>5. a[k].term = b[k].term
  BY <1>2, <1>4
<1> DEFINE u == LogOf(w, a[k].term)
<1>6. SameTo(a, u, k) /\ SameTo(b, u, k)
  BY <1>1, <1>4, <1>5 DEF Rooted
<1>7. l \in 1 .. k
  BY <1>3, <1>4
<1> HIDE DEF u
<1>8. a[l] = b[l]
  BY <1>6, <1>7 DEF SameTo
<1> QED BY <1>2, <1>4, <1>8

\* A leader's matches are what the chronicle has it told.
LEMMA BackedMatches ==
  ASSUME NEW w, Consistent(w), w.node = node
  PROVE  MatchBacked
<1> SUFFICES ASSUME NEW i \in Server, Leads(i),
                    NEW p \in DOMAIN node[i].role.progress,
                    Term(node[p]) = Term(node[i]),
                    NEW k \in 1 .. node[i].role.progress[p].match
             PROVE  Holds(p, i, k)
  BY DEF MatchBacked
<1> DEFINE T == TermOf(w, i)
<1>1. /\ Chronicle(w) /\ Ents(w, i) = LogOf(w, T) /\ Tracks(i, w.held[T], node[i])
      /\ T \in Nat /\ T = node[i].log.term
  BY NodeIs DEF Consistent, LeadersTrack, Leads
<1>2. w.held[T] \in [Server -> Nat]
  BY <1>1 DEF Chronicle, Histories
<1>3. /\ node[i].role.progress \in [Server \ {i} -> ProgressType]
      /\ \A v \in Server \ {i} : /\ node[i].role.progress[v].match \in Nat
                                 /\ w.held[T][v] \in Nat
  BY <1>1, <1>2, TracksTypes
<1>4. p \in Server \ {i}
  BY <1>3
<1>5. TermOf(w, p) = T
  <2>1. node[p].log.term = TermOf(w, p)
    BY <1>4, NodeIs
  <2> QED BY <1>1, <2>1 DEF Term
<1>6. SameTo(Ents(w, p), LogOf(w, T), Held(w, T, p))
  BY <1>4, <1>5 DEF Consistent, HeldNow
<1>7. /\ node[i].role.progress[p].match <= Held(w, T, p)
      /\ node[i].role.progress[p].match \in Nat /\ Held(w, T, p) \in Nat
  BY <1>1, <1>3, <1>4 DEF Tracks, Held
<1>8. k \in 1 .. Held(w, T, p)
  BY <1>7
<1> QED BY <1>1, <1>4, <1>6, <1>7, <1>8, SameHolds

\* A leader's log fits that of a node in its term or before it.
LEMMA CompleteLeaders ==
  ASSUME NEW w, Consistent(w), w.node = node
  PROVE  LeaderCompleteness
<1> SUFFICES ASSUME NEW i \in Server, NEW j \in Server, Leads(j),
                    Term(node[i]) <= Term(node[j]), NEW k \in CommittedAt(i)
             PROVE  Holds(j, i, k)
  BY DEF LeaderCompleteness
<1> DEFINE T == TermOf(w, j)
<1>1. /\ Ents(w, j) = LogOf(w, T) /\ Current(node[j])
  BY DEF Consistent, LeadersTrack, Leads
<1>2. /\ T \in Nat /\ T = node[j].log.term /\ TermOf(w, i) = node[i].log.term
      /\ node[i].log.ents = Ents(w, i) /\ node[i].log.commit = CommitOf(w, i)
      /\ node[j].log.ents = Ents(w, j) /\ CommitOf(w, i) \in Nat
      /\ Len(Ents(w, i)) \in Nat /\ Len(Ents(w, j)) \in Nat
      /\ CommittedAt(i) = 1 .. CommitOf(w, i)
  BY NodeIs
<1>3. Fits(LogOf(w, T), node[i], T)
  <2>1. TermOf(w, i) <= T
    BY <1>2 DEF Term
  <2> QED BY <1>2, <2>1, LeaderFits
<1>4. LogOf(w, T) # <<>>
  <2>1. Chronicle(w) /\ Len(LogOf(w, T)) > 0
    BY <1>1, <1>2 DEF Consistent, Current
  <2>2. LogOf(w, T) \in Seq(StaticEntry) /\ Len(LogOf(w, T)) # 0
    BY <1>2, <2>1, Parts
  <2> QED BY <2>2, EmptyLen
<1>5. SameTo(Ents(w, i), Ents(w, j), CommitOf(w, i))
  BY <1>1, <1>2, <1>3, <1>4 DEF Fits
<1>6. SameTo(Ents(w, j), Ents(w, i), CommitOf(w, i))
  <2>1. CommitOf(w, i) <= CommitOf(w, i)
    BY <1>2
  <2> QED BY <1>2, <1>5, <2>1, SameLess
<1> QED BY <1>2, <1>6, SameHolds

\* The majority that vouched for what is committed holds it.
LEMMA CommitsHeld ==
  ASSUME NEW w, Consistent(w), w.node = node
  PROVE  CommittedOnQuorum
<1> SUFFICES ASSUME NEW i \in Server, NEW x \in CommittedAt(i)
             PROVE  HasQuorum(node[i].mem.active, {j \in Server : Holds(j, i, x)})
  BY DEF CommittedOnQuorum
<1> DEFINE c == CommitOf(w, i)
           H == {j \in Server : Holds(j, i, x)}
<1>1. /\ node[i] \in StaticNode(i) /\ c \in Nat /\ x \in 1 .. c
      /\ Len(Ents(w, i)) \in Nat /\ Chronicle(w) /\ HoldersKeep(w)
      /\ \A v \in Server : Len(Ents(w, v)) \in Nat
      /\ \A t \in Nat : Len(LogOf(w, t)) \in Nat
  BY NodeIs, Parts DEF Consistent
<1>2. c > 0
  BY <1>1
<1>3. PICK t \in Nat : \E k \in Nat :
        /\ c <= k /\ Own(w, k, t) /\ Chosen(w, k, t) /\ ~Blocked(w, k, t)
        /\ SameTo(Ents(w, i), LogOf(w, t), c)
  BY <1>2, CommitSeen
<1>4. PICK k \in Nat :
        /\ c <= k /\ Own(w, k, t) /\ Chosen(w, k, t) /\ ~Blocked(w, k, t)
        /\ SameTo(Ents(w, i), LogOf(w, t), c)
  BY <1>3
<1>5. PICK Q \in SUBSET Server : /\ Majority(Server, Q)
                                 /\ \A v \in Q : Held(w, t, v) >= k
  BY <1>4 DEF Chosen
<1>6. ASSUME NEW v \in Q
      PROVE  v \in H
  <2>1. SameTo(Ents(w, v), LogOf(w, t), k)
    BY <1>1, <1>4, <1>5 DEF HoldersKeep
  <2> HIDE DEF c, H
  <2>2. SameTo(Ents(w, v), LogOf(w, t), c)
    BY <1>1, <1>4, <1>5, <2>1, SameLess
  <2>3. SameTo(LogOf(w, t), Ents(w, i), c)
    <3>1. c <= c
      BY <1>1
    <3> QED BY <1>1, <1>4, <3>1, SameLess
  <2>4. SameTo(Ents(w, v), Ents(w, i), c)
    BY <2>2, <2>3, SameOver
  <2>5. Holds(v, i, x)
    BY <1>1, <1>5, <2>4, SameHolds
  <2> QED BY <1>5, <2>5 DEF H
<1> HIDE DEF c, H
<1>7. Majority(Server, H)
  <2>1. Server \cap Q \subseteq Server \cap H
    BY <1>6
  <2>2. IsFiniteSet(Server) /\ IsFiniteSet(Server \cap H)
    BY NodeAssumption, FS_Subset
  <2>3. /\ IsFiniteSet(Server \cap Q)
        /\ Cardinality(Server \cap Q) <= Cardinality(Server \cap H)
    BY <2>1, <2>2, FS_Subset
  <2>4. /\ Cardinality(Server) \in Nat /\ Cardinality(Server \cap Q) \in Nat
        /\ Cardinality(Server \cap H) \in Nat
    BY <2>2, <2>3, FS_CardinalityType
  <2>5. Cardinality(Server \cap Q) >= Cardinality(Server) \div 2 + 1
    BY <1>5 DEF Majority
  <2>6. Cardinality(Server \cap H) >= Cardinality(Server) \div 2 + 1
    BY <2>3, <2>4, <2>5
  <2> QED BY <2>6 DEF Majority
<1> QED BY <1>1, <1>7, PeersOf DEF H

\* The commands of a prefix are a prefix of the commands.
LEMMA PlayedPrefix ==
  ASSUME NEW a, NEW b, NEW c \in Nat, NEW d \in Nat, c <= d, SameTo(a, b, c)
  PROVE  IsPrefix(Played(a, c).data, Played(b, d).data)
<1> DEFINE s == [x \in 1 .. c |-> a[x].cmd]
           t == [x \in 1 .. d |-> b[x].cmd]
<1>1. Len(s) = c /\ Len(t) = d
  OBVIOUS
<1>2. \A x \in 1 .. c : x \in 1 .. d /\ a[x] = b[x]
  BY DEF SameTo
<1>3. \A x \in 1 .. c : s[x] = t[x]
  BY <1>2
<1>4. /\ SubSeq(s, 1, c) = [x \in 1 .. c |-> s[x]]
      /\ SubSeq(t, 1, c) = [x \in 1 .. c |-> t[x]]
  OBVIOUS
<1> HIDE DEF s, t
<1>5. SubSeq(s, 1, c) = SubSeq(t, 1, c)
  BY <1>3, <1>4
<1>6. IsPrefix(s, t)
  BY <1>1, <1>5 DEF IsPrefix
<1> QED BY <1>6 DEF Played, s, t

\* State machines have run through what is committed.
LEMMA SafeStateMachines ==
  ASSUME NEW w, Consistent(w), w.node = node
  PROVE  StateMachineSafety
<1> SUFFICES ASSUME NEW i \in Server, NEW j \in Server,
                    node[i].sm.applied <= node[j].sm.applied
             PROVE  /\ IsPrefix(node[i].sm.data, node[j].sm.data)
                    /\ node[i].sm.applied = node[j].sm.applied =>
                         node[i].sm.data = node[j].sm.data
  BY DEF StateMachineSafety
<1> DEFINE a == Ents(w, i)
           b == Ents(w, j)
           c == CommitOf(w, i)
           d == CommitOf(w, j)
<1>1. /\ node[i].sm = Played(a, c) /\ node[j].sm = Played(b, d)
      /\ c \in Nat /\ d \in Nat
  BY NodeIs DEF Sound
<1>2. c <= d
  BY <1>1 DEF Played
<1>3. SameTo(a, b, c)
  <2>1. c <= c
    BY <1>1
  <2> QED BY <1>1, <1>2, <2>1, CommitsAgree
<1> HIDE DEF a, b, c, d
<1>4. IsPrefix(node[i].sm.data, node[j].sm.data)
  BY <1>1, <1>2, <1>3, PlayedPrefix
<1>5. ASSUME node[i].sm.applied = node[j].sm.applied
      PROVE  node[i].sm.data = node[j].sm.data
  <2>1. c = d
    BY <1>1, <1>5 DEF Played
  <2>2. Played(a, c) = Played(b, c)
    BY <1>3, PlayedSame
  <2> QED BY <1>1, <2>1, <2>2
<1> QED BY <1>4, <1>5

\* Panics are for unexpected messages only.
LEMMA AssertionsHold ==
  ASSUME NEW w, Consistent(w), w.node = node
  PROVE  NoAssertionFails
BY DEF Consistent, NodesSound, Unexpected, NoAssertionFails

\* All that a chronicle says of a state.
LEMMA ChronicledSafe ==
  ASSUME Chronicled
  PROVE  /\ LogMatching /\ MatchBacked /\ LeaderCompleteness
         /\ CommittedOnQuorum /\ StateMachineSafety /\ NoAssertionFails
<1>1. PICK w : w.node = node /\ Consistent(w)
  BY DEF Chronicled
<1> QED BY <1>1, MatchingLogs, BackedMatches, CompleteLeaders, CommitsHeld,
           SafeStateMachines, AssertionsHold

\* What CommittedStable says of one log.
LEMMA StableLog ==
  ASSUME NEW i \in Server, NEW n \in StaticNode(i), Sound(n),
         NEW k \in StaticNode(i), Sound(k), NEW c \in Nat,
         SameTo(n.log.ents, k.log.ents, c)
  PROVE  /\ LastIndex(k.log) >= c
         /\ \A x \in 1 .. c : /\ Stored(k.log, x)
                              /\ EntryAt(k.log, x) = EntryAt(n.log, x)
<1>1. /\ Len(n.log.ents) \in Nat /\ Len(k.log.ents) \in Nat
      /\ LastIndex(k.log) = Len(k.log.ents)
      /\ \A x \in Int : Stored(k.log, x) <=> x \in 1 .. Len(k.log.ents)
      /\ \A x \in 1 .. Len(k.log.ents) : EntryAt(k.log, x) = k.log.ents[x]
      /\ \A x \in 1 .. Len(n.log.ents) : EntryAt(n.log, x) = n.log.ents[x]
  BY SoundLog
<1>2. c <= Len(n.log.ents) /\ c <= Len(k.log.ents)
      /\ \A x \in 1 .. c : n.log.ents[x] = k.log.ents[x]
  BY DEF SameTo
<1>3. LastIndex(k.log) >= c
  BY <1>1, <1>2
<1>4. ASSUME NEW x \in 1 .. c
      PROVE  Stored(k.log, x) /\ EntryAt(k.log, x) = EntryAt(n.log, x)
  <2>1. x \in 1 .. Len(n.log.ents) /\ x \in 1 .. Len(k.log.ents) /\ x \in Int
    BY <1>1, <1>2
  <2> QED BY <1>1, <1>2, <2>1
<1> QED BY <1>3, <1>4

\* A step replaces nothing committed, and a leader nothing of its own.
LEMMA StepStable ==
  ASSUME SnapshotThreshold = 0, Inv, Chronicled, Next, NEW i \in Server
  PROVE  LET l == node[i].log
             k == node'[i].log
         IN /\ \A x \in CommittedAt(i) :
                 \/ x < k.first
                 \/ Stored(k, x) /\ EntryAt(k, x) = EntryAt(l, x)
            /\ Leads(i) /\ node'[i].role.kind = "Leader" =>
                 /\ LastIndex(k) >= LastIndex(l)
                 /\ \A x \in k.first .. LastIndex(l) :
                      EntryAt(k, x) = EntryAt(l, x)
<1> DEFINE n == node[i]
           m == node'[i]
<1>1. StaticMembership
  BY DEF Inv
<1>2. /\ Chronicled'
      /\ SameTo(n.log.ents, m.log.ents, n.log.commit)
      /\ n.role.kind = "Leader" /\ m.role.kind = "Leader"
           => SameTo(n.log.ents, m.log.ents, Len(n.log.ents))
  BY <1>1, NextKeepsChronicle
<1>3. n \in StaticNode(i) /\ Sound(n)
  <2>1. PICK w : w.node = node /\ Consistent(w)
    BY DEF Chronicled
  <2> QED BY <2>1 DEF Consistent, Chronicle, NodesSound
<1>4. m \in StaticNode(i) /\ Sound(m)
  <2>1. PICK x : x.node = node' /\ Consistent(x)
    BY <1>2 DEF Chronicled
  <2> QED BY <2>1 DEF Consistent, Chronicle, NodesSound
<1>5. /\ n.log.commit \in Nat /\ Len(n.log.ents) \in Nat
      /\ LastIndex(n.log) = Len(n.log.ents) /\ m.log.first = 1
  BY <1>3, <1>4, SoundLog DEF Sound
<1>6. CommittedAt(i) \subseteq 1 .. n.log.commit
  BY DEF CommittedAt
<1> HIDE DEF n, m
<1>7. \A x \in CommittedAt(i) :
        Stored(m.log, x) /\ EntryAt(m.log, x) = EntryAt(n.log, x)
  BY <1>2, <1>3, <1>4, <1>5, <1>6, StableLog
<1>8. ASSUME n.role.kind = "Leader", m.role.kind = "Leader"
      PROVE  /\ LastIndex(m.log) >= LastIndex(n.log)
             /\ \A x \in m.log.first .. LastIndex(n.log) :
                  EntryAt(m.log, x) = EntryAt(n.log, x)
  <2>1. SameTo(n.log.ents, m.log.ents, Len(n.log.ents))
    BY <1>2, <1>8
  <2>2. /\ LastIndex(m.log) >= Len(n.log.ents)
        /\ \A x \in 1 .. Len(n.log.ents) : EntryAt(m.log, x) = EntryAt(n.log, x)
    BY <1>3, <1>4, <1>5, <2>1, StableLog
  <2> QED BY <1>5, <2>2
<1> QED BY <1>7, <1>8 DEF n, m, Leads

-----------------------------------------------------------------------------
(* The theorems.  SnapshotThreshold = 0, no snapshots, is the default of    *)
(* Options in src/raft/node.rs.                                            *)

\* THEOREM: Logs that have an entry of the same index and term are the same up
\* to there, in a cluster of any size whose membership does not change and that
\* takes no snapshots, however messages are lost, delayed, duplicated by
\* resending or reordered and however often nodes time out, stop and restart:
\* what Node::step's Append handler and Log::splice keep.
THEOREM WholeLogMatching ==
  StaticMembership /\ SnapshotThreshold = 0 /\ Spec => []LogMatching
<1>1. Chronicled => LogMatching
  BY ChronicledSafe
<1> QED BY <1>1, ChronicleHolds, PTL

\* THEOREM: ... a leader's match index of a follower never runs ahead of what
\* that follower stores of the leader's log.
THEOREM WholeMatchBacked ==
  StaticMembership /\ SnapshotThreshold = 0 /\ Spec => []MatchBacked
<1>1. Chronicled => MatchBacked
  BY ChronicledSafe
<1> QED BY <1>1, ChronicleHolds, PTL

\* THEOREM: ... a leader has every entry that any node of its term or an
\* earlier one knows to be committed: what the comparison of logs in a vote
\* and the commit rule of maybe_commit_and_apply are for.
THEOREM WholeLeaderCompleteness ==
  StaticMembership /\ SnapshotThreshold = 0 /\ Spec => []LeaderCompleteness
<1>1. Chronicled => LeaderCompleteness
  BY ChronicledSafe
<1> QED BY <1>1, ChronicleHolds, PTL

\* THEOREM: ... what a node knows to be committed is stored by a majority.
THEOREM WholeCommittedOnQuorum ==
  StaticMembership /\ SnapshotThreshold = 0 /\ Spec => []CommittedOnQuorum
<1>1. Chronicled => CommittedOnQuorum
  BY ChronicledSafe
<1> QED BY <1>1, ChronicleHolds, PTL

\* THEOREM: ... the state machines apply the same commands in the same order,
\* also after a restart that replays the log.
THEOREM WholeStateMachineSafety ==
  StaticMembership /\ SnapshotThreshold = 0 /\ Spec => []StateMachineSafety
<1>1. Chronicled => StateMachineSafety
  BY ChronicledSafe
<1> QED BY <1>1, ChronicleHolds, PTL

\* THEOREM: ... no assertion of node.rs or log.rs fails.
THEOREM WholeNoAssertionFails ==
  StaticMembership /\ SnapshotThreshold = 0 /\ Spec => []NoAssertionFails
<1>1. Chronicled => NoAssertionFails
  BY ChronicledSafe
<1> QED BY <1>1, ChronicleHolds, PTL

\* THEOREM: ... no step removes or replaces an entry that its node knows to be
\* committed, and a leader only appends to its log.
THEOREM WholeCommittedStable ==
  StaticMembership /\ SnapshotThreshold = 0 /\ Spec => CommittedStable
<1> SUFFICES ASSUME SnapshotThreshold = 0
             PROVE  StaticMembership /\ Spec => CommittedStable
  OBVIOUS
<1> DEFINE Stable ==
             \A i \in Server :
               LET l == node[i].log
                   k == node'[i].log
               IN /\ \A x \in CommittedAt(i) :
                       \/ x < k.first
                       \/ Stored(k, x) /\ EntryAt(k, x) = EntryAt(l, x)
                  /\ Leads(i) /\ node'[i].role.kind = "Leader" =>
                       /\ LastIndex(k) >= LastIndex(l)
                       /\ \A x \in k.first .. LastIndex(l) :
                            EntryAt(k, x) = EntryAt(l, x)
<1>1. Inv /\ Chronicled /\ [Next]_vars => [Stable]_vars
  BY StepStable
<1>2. Spec => [][Next]_vars
  BY PTL DEF Spec
<1>3. StaticMembership /\ Spec => [](Inv /\ Chronicled)
  BY ChronicleHolds
<1> QED BY <1>1, <1>2, <1>3, PTL DEF CommittedStable

=============================================================================
