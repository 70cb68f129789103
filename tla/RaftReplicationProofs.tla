----------------------- MODULE RaftReplicationProofs -----------------------
(***************************************************************************)
(* What Node::step, Node::tick and Node::new do to a node's log, to what   *)
(* it applies and to what it tells others of logs, in a cluster whose      *)
(* membership does not change and that takes no snapshots.                 *)
(*                                                                         *)
(* A call either makes the node lead, or go on leading, its term (Governs) *)
(* or leaves it behind the leader of its term (Serves).  Neither mentions  *)
(* other nodes: what the call relies on, such as how much a message says   *)
(* a peer stores, is a hypothesis, and RaftSafetyProofs shows that every   *)
(* reachable state of the cluster grants it.                               *)
(***************************************************************************)
EXTENDS RaftNodeProofs

\* Entries a and b are there and the same up to k.
SameTo(a, b, k) ==
  k <= Len(a) /\ k <= Len(b) /\ \A x \in 1 .. k : a[x] = b[x]

\* Entries k are l followed by entries of term t.
Longer(l, k, t) ==
  SameTo(l, k, Len(l)) /\ \A x \in Len(l) + 1 .. Len(k) : k[x].term = t

\* The state after the first k entries of l.
Played(l, k) == [applied |-> k, data |-> [x \in 1 .. k |-> l[x].cmd]]

\* The log is whole, and what is committed, no more and no less, is applied.
Sound(n) ==
  /\ n.log.first = 1 /\ n.log.snapTerm = 0
  /\ n.log.commit <= Len(n.log.ents)
  /\ n.sm = Played(n.log.ents, n.log.commit)

\* The reasons to panic that are left.
Unexpected ==
  {"unexpected message", "follower received unexpected message"}

\* The parts of an Append that replicates entries of l.
Segment(l, w) ==
  /\ w.base_index + Len(w.entries) <= Len(l)
  /\ w.base_index + Len(w.entries) > 0
  /\ \A k \in 1 .. Len(w.entries) : w.entries[k] = l[w.base_index + k]
  /\ w.base_index > 0 => w.base_term = l[w.base_index].term

\* What is sent says nothing of logs.
Plain(out) ==
  \A m \in out : m.message.type \in {"ClientRequest", "ClientResponse", "Read",
                                     "ReadResponse", "PreCampaign",
                                     "PreCampaignResponse", "CampaignResponse"}

-----------------------------------------------------------------------------
(* What a leader does.                                                     *)

\* What the leader of term t, with entries l of which c are committed, and
\* with reads up to number s, sends, its bids for the term included.
Reports(t, l, c, s, out) ==
  \A m \in out :
    \/ Plain({m})
    \/ m.message.type = "Campaign" /\ m.term = t
    \/ /\ m.message.type = "Append" /\ m.term = t
       /\ Segment(l, m.message)
    \/ /\ m.message.type = "Heartbeat" /\ m.term = t
       /\ m.message.last_index <= Len(l)
       /\ m.message.commit_index <= m.message.last_index
       /\ m.message.commit_index <= c
       /\ m.message.read_seq <= s

\* A leader whose progress is consistent with its log and with a, what its
\* peers have vouched for.
Tracks(i, a, n) ==
  /\ n \in StaticNode(i) /\ n.role.kind = "Leader" /\ Sound(n)
  /\ \A p \in Server \ {i} :
       /\ n.role.progress[p].match < n.role.progress[p].next
       /\ n.role.progress[p].next <= Len(n.log.ents) + 1
       /\ n.role.progress[p].match <= a[p]

\* Its last entry is of its term.
Current(n) ==
  Len(n.log.ents) > 0 /\ n.log.ents[Len(n.log.ents)].term = n.log.term

\* Its commit index is that of an entry of its term that a majority vouched for.
Agreed(i, a, n) ==
  /\ n.log.commit \in 1 .. Len(n.log.ents)
  /\ n.log.ents[n.log.commit].term = n.log.term
  /\ \E Q \in SUBSET Server :
       /\ Majority(Server, Q)
       /\ \A v \in Q : v = i \/ a[v] >= n.log.commit

Works(i, a, n, r) ==
  /\ Leading(i, n, r)
  /\ Tracks(i, a, r.n)
  /\ Longer(n.log.ents, r.n.log.ents, n.log.term)
  /\ r.n.log.commit >= n.log.commit
  /\ r.n.log.commit = n.log.commit \/ Agreed(i, a, r.n)
  /\ r.n.role.read_seq >= n.role.read_seq
  /\ Reports(r.n.log.term, r.n.log.ents, r.n.log.commit, r.n.role.read_seq, r.out)

\* Entries are the same as themselves.
LEMMA SameToSelf ==
  ASSUME NEW l, Len(l) \in Nat
  PROVE  SameTo(l, l, Len(l)) /\ \A t : Longer(l, l, t)
BY DEF SameTo, Longer

\* What has been appended to twice has been appended to.
LEMMA LongerTwice ==
  ASSUME NEW a, NEW b, NEW c, NEW t, Len(a) \in Nat, Len(b) \in Nat,
         Len(c) \in Nat, Longer(a, b, t), Longer(b, c, t)
  PROVE  Longer(a, c, t)
BY DEF SameTo, Longer

\* The state after the first entries depends on nothing else.
LEMMA PlayedSame ==
  ASSUME NEW a, NEW b, NEW k, SameTo(a, b, k)
  PROVE  Played(a, k) = Played(b, k)
BY DEF SameTo, Played

\* The lengths in a log are naturals, and without snapshots its indexes are
\* places.
LEMMA SoundLog ==
  ASSUME NEW i \in Server, NEW n \in StaticNode(i), Sound(n)
  PROVE  /\ Len(n.log.ents) \in Nat /\ LastIndex(n.log) = Len(n.log.ents)
         /\ n.log.ents \in Seq(StaticEntry)
         /\ n.log.commit \in Nat /\ n.log.term \in Nat
         /\ SnapshotIndex(n.log) = 0
         /\ \A k \in Int : Stored(n.log, k) <=> k \in 1 .. Len(n.log.ents)
         /\ \A k \in 1 .. Len(n.log.ents) :
              /\ EntryAt(n.log, k) = n.log.ents[k]
              /\ TermAt(n.log, k) = n.log.ents[k].term
              /\ n.log.ents[k] \in StaticEntry
         /\ LastTerm(n.log) = IF n.log.ents = <<>> THEN 0
                              ELSE n.log.ents[Len(n.log.ents)].term
<1>1. n.log.ents \in Seq(StaticEntry) /\ n.log.commit \in Nat /\ n.log.term \in Nat
      /\ n.log.first = 1 /\ n.log.snapTerm = 0
  BY FieldTypes DEF Sound, StaticLog
<1>2. Len(n.log.ents) \in Nat
  BY <1>1, LenProperties
<1>3. LastIndex(n.log) = Len(n.log.ents)
  BY <1>1, <1>2 DEF LastIndex
<1>4. SnapshotIndex(n.log) = 0
  BY <1>1 DEF SnapshotIndex
<1>5. \A k \in Int : Stored(n.log, k) <=> k \in 1 .. Len(n.log.ents)
  BY <1>1, <1>2, <1>3 DEF Stored
<1>6. ASSUME NEW k \in 1 .. Len(n.log.ents)
      PROVE  /\ EntryAt(n.log, k) = n.log.ents[k]
             /\ TermAt(n.log, k) = n.log.ents[k].term
             /\ n.log.ents[k] \in StaticEntry
  <2>1. EntryAt(n.log, k) = n.log.ents[k]
    BY <1>1, <1>2 DEF EntryAt
  <2>2. Stored(n.log, k)
    BY <1>5
  <2>3. n.log.ents[k] \in StaticEntry
    BY <1>1, ElementOfSeq
  <2> QED BY <2>1, <2>2, <2>3 DEF TermAt
<1>7. LastTerm(n.log) = IF n.log.ents = <<>> THEN 0
                        ELSE n.log.ents[Len(n.log.ents)].term
  <2>1. CASE n.log.ents = <<>>
    <3>1. LastIndex(n.log) = 0 /\ ~Stored(n.log, 0)
      BY <1>1, <1>3, <2>1, <1>5, EmptySeq
    <3> QED BY <1>1, <2>1, <3>1 DEF LastTerm, TermAt
  <2>2. CASE n.log.ents # <<>>
    <3>1. Len(n.log.ents) \in 1 .. Len(n.log.ents)
      BY <1>1, <1>2, <2>2, EmptySeq
    <3> QED BY <1>3, <1>6, <2>2, <3>1 DEF LastTerm
  <2> QED BY <2>1, <2>2
<1> QED BY <1>1, <1>2, <1>3, <1>4, <1>5, <1>6, <1>7

-----------------------------------------------------------------------------
(* Works, composed.                                                        *)

\* More may be reported of a longer log.
LEMMA ReportsMore ==
  ASSUME NEW t, NEW l, NEW k, NEW c \in Nat, NEW d \in Nat, NEW s \in Nat,
         NEW q \in Nat, NEW i \in Server, NEW out \in SUBSET StaticEnv(i),
         Len(l) \in Nat, Len(k) \in Nat, Longer(l, k, t), c <= d, s <= q,
         Reports(t, l, c, s, out)
  PROVE  Reports(t, k, d, q, out)
<1> SUFFICES ASSUME NEW m \in out, ~Plain({m}),
                    ~(m.message.type = "Campaign" /\ m.term = t)
             PROVE  \/ /\ m.message.type = "Append" /\ m.term = t
                       /\ Segment(k, m.message)
                    \/ /\ m.message.type = "Heartbeat" /\ m.term = t
                       /\ m.message.last_index <= Len(k)
                       /\ m.message.commit_index <= m.message.last_index
                       /\ m.message.commit_index <= d
                       /\ m.message.read_seq <= q
  BY DEF Reports
<1> DEFINE w == m.message
<1>1. w \in StaticMessage
  BY DEF StaticEnv
<1>2. SameTo(l, k, Len(l)) /\ Len(l) <= Len(k)
  BY DEF Longer, SameTo
<1>3. CASE w.type = "Append" /\ m.term = t /\ Segment(l, w)
  <2>1. w.base_index \in Nat /\ Len(w.entries) \in Nat
    BY <1>1, <1>3, MessageFields, LenProperties
  <2>2. Segment(k, w)
    <3> HIDE DEF w
    <3>1. \A x \in 1 .. Len(w.entries) :
            w.base_index + x \in 1 .. Len(l) /\ k[w.base_index + x] = l[w.base_index + x]
      <4> TAKE x \in 1 .. Len(w.entries)
      <4>1. w.base_index + x \in 1 .. Len(l)
        BY <1>3, <2>1 DEF Segment
      <4>2. \A y \in 1 .. Len(l) : l[y] = k[y]
        BY <1>2 DEF SameTo
      <4> QED BY <4>1, <4>2
    <3>2. w.base_index > 0 => k[w.base_index] = l[w.base_index]
      <4>1. w.base_index > 0 => w.base_index \in 1 .. Len(l)
        BY <1>3, <2>1 DEF Segment
      <4>2. \A y \in 1 .. Len(l) : l[y] = k[y]
        BY <1>2 DEF SameTo
      <4> QED BY <4>1, <4>2
    <3> QED BY <1>2, <1>3, <2>1, <3>1, <3>2 DEF Segment
  <2> QED BY <1>3, <2>2
<1>4. CASE /\ w.type = "Heartbeat" /\ m.term = t
           /\ w.last_index <= Len(l)
           /\ w.commit_index <= w.last_index
           /\ w.commit_index <= c
           /\ w.read_seq <= s
  <2>1. w.last_index \in Nat /\ w.commit_index \in Nat /\ w.read_seq \in Nat
    BY <1>1, <1>4, MessageFields
  <2> QED BY <1>2, <1>4, <2>1
<1> QED BY <1>3, <1>4 DEF Reports

\* What says nothing of logs may be reported.
LEMMA PlainReports ==
  ASSUME NEW out, Plain(out)
  PROVE  \A t, l, c, s : Reports(t, l, c, s, out)
BY DEF Plain, Reports

\* The fields of a leader that are compared.
LEMMA TracksTypes ==
  ASSUME NEW i \in Server, NEW a \in [Server -> Nat], NEW n, Tracks(i, a, n)
  PROVE  /\ n \in StaticNode(i) /\ n.role.kind = "Leader" /\ Sound(n)
         /\ Len(n.log.ents) \in Nat /\ n.log.commit \in Nat
         /\ n.log.term \in Nat /\ n.role.read_seq \in Nat
         /\ n.role.progress \in [Server \ {i} -> ProgressType]
         /\ \A p \in Server \ {i} : /\ n.role.progress[p].match \in Nat
                                    /\ n.role.progress[p].next \in Nat
                                    /\ a[p] \in Nat
<1>1. n \in StaticNode(i) /\ n.role.kind = "Leader" /\ Sound(n)
  BY DEF Tracks
<1>2. n.role.read_seq \in Nat /\ n.role.progress \in [Server \ {i} -> ProgressType]
  BY <1>1, LeadTypes
<1>3. ASSUME NEW p \in Server \ {i}
      PROVE  n.role.progress[p].match \in Nat /\ n.role.progress[p].next \in Nat
  BY <1>2 DEF ProgressType
<1> QED BY <1>1, <1>2, <1>3, SoundLog

\* A leader whose log and state are as they were.
LEMMA WorksDone ==
  ASSUME NEW i \in Server, NEW a \in [Server -> Nat], NEW n, Tracks(i, a, n),
         NEW k, Tracks(i, a, k), k.log = n.log, k.role.read_seq >= n.role.read_seq,
         NEW out \in SUBSET StaticEnv(i), Quiet(out),
         Reports(n.log.term, n.log.ents, n.log.commit, k.role.read_seq, out)
  PROVE  Works(i, a, n, Done(k, out)) /\ Done(k, out).n = k
<1>1. /\ n \in StaticNode(i) /\ k \in StaticNode(i) /\ Len(n.log.ents) \in Nat
      /\ n.log.commit \in Nat /\ k.role.kind = "Leader"
  BY TracksTypes
<1>2. Leading(i, n, Done(k, out)) /\ Done(k, out).n = k
  BY <1>1, LeadDone DEF SameBallot
<1>3. Done(k, out).out = out
  BY DEF Done
<1>4. Longer(n.log.ents, n.log.ents, n.log.term)
  BY <1>1, SameToSelf
<1> HIDE DEF Longer, Tracks, Leading
<1> QED BY <1>1, <1>2, <1>3, <1>4 DEF Works

\* ... that sends nothing.
LEMMA WorksStay ==
  ASSUME NEW i \in Server, NEW a \in [Server -> Nat], NEW n, Tracks(i, a, n)
  PROVE  Works(i, a, n, Done(n, {}))
<1>1. {} \in SUBSET StaticEnv(i) /\ Quiet({}) /\ Plain({})
  BY DEF Quiet, Plain
<1>2. n.role.read_seq >= n.role.read_seq
  <2>1. n.role.read_seq \in Nat
    BY TracksTypes
  <2> QED BY <2>1
<1> QED BY <1>1, <1>2, PlainReports, WorksDone

\* A commit index that was agreed on stays so.
LEMMA AgreedStays ==
  ASSUME NEW i \in Server, NEW a \in [Server -> Nat], NEW n, Tracks(i, a, n),
         NEW k, Tracks(i, a, k), Longer(n.log.ents, k.log.ents, n.log.term),
         k.log.term = n.log.term, k.log.commit = n.log.commit, Agreed(i, a, n)
  PROVE  Agreed(i, a, k)
<1>1. Len(n.log.ents) \in Nat /\ Len(k.log.ents) \in Nat /\ n.log.commit \in Nat
  BY TracksTypes
<1>2. /\ k.log.commit \in 1 .. Len(k.log.ents)
      /\ k.log.ents[k.log.commit] = n.log.ents[n.log.commit]
  <2> DEFINE c == n.log.commit
  <2>1. c \in 1 .. Len(n.log.ents)
    BY DEF Agreed
  <2>2. /\ Len(n.log.ents) <= Len(k.log.ents)
        /\ \A y \in 1 .. Len(n.log.ents) : k.log.ents[y] = n.log.ents[y]
    BY DEF Longer, SameTo
  <2> QED BY <1>1, <2>1, <2>2
<1> QED BY <1>2 DEF Agreed

\* One call after another.
LEMMA WorksAfter ==
  ASSUME NEW i \in Server, NEW a \in [Server -> Nat], NEW n, Tracks(i, a, n),
         NEW r, Works(i, a, n, r), NEW q, Works(i, a, r.n, q)
  PROVE  /\ Works(i, a, n, After(r.out, q))
         /\ After(r.out, q).n = q.n
         /\ (IF r.n.role.kind = "Panicked" THEN r ELSE After(r.out, q))
              = After(r.out, q)
<1> DEFINE z == After(r.out, q)
<1>1. Tracks(i, a, r.n) /\ Tracks(i, a, q.n)
  BY DEF Works
<1>2. n \in StaticNode(i) /\ r.n.role.kind = "Leader" /\ q.n.role.kind = "Leader"
  BY <1>1, TracksTypes
<1>3. /\ Leading(i, n, r) /\ Leading(i, r.n, q)
      /\ r \in Outcome(i) /\ q \in Outcome(i)
      /\ SameBallot(n.log, r.n.log) /\ SameBallot(r.n.log, q.n.log)
  BY DEF Works, Leading, Keeps
<1>4. z = Done(q.n, r.out \cup q.out)
  BY <1>2 DEF After
<1>5. Leading(i, n, z)
  <2>1. Leading(i, n, IF r.n.role.kind = "Panicked" THEN r ELSE z)
    BY <1>2, <1>3, ThenLead
  <2> QED BY <1>2, <2>1
<1>6. z.n = q.n /\ z.out = r.out \cup q.out
  BY <1>4 DEF Done
<1> HIDE DEF z
<1>7. /\ Len(n.log.ents) \in Nat /\ Len(r.n.log.ents) \in Nat
      /\ Len(q.n.log.ents) \in Nat
      /\ n.log.commit \in Nat /\ r.n.log.commit \in Nat /\ q.n.log.commit \in Nat
      /\ n.role.read_seq \in Nat /\ r.n.role.read_seq \in Nat
      /\ q.n.role.read_seq \in Nat
  BY <1>1, TracksTypes
<1>8. /\ r.n.log.term = n.log.term /\ q.n.log.term = n.log.term
  BY <1>3 DEF SameBallot
<1>9. /\ Longer(n.log.ents, r.n.log.ents, n.log.term)
      /\ Longer(r.n.log.ents, q.n.log.ents, n.log.term)
      /\ Longer(n.log.ents, q.n.log.ents, n.log.term)
  <2>1. /\ Longer(n.log.ents, r.n.log.ents, n.log.term)
        /\ Longer(r.n.log.ents, q.n.log.ents, n.log.term)
    BY <1>8 DEF Works
  <2> QED BY <1>7, <2>1, LongerTwice
<1>10. /\ r.n.log.commit >= n.log.commit /\ q.n.log.commit >= r.n.log.commit
       /\ r.n.role.read_seq >= n.role.read_seq
       /\ q.n.role.read_seq >= r.n.role.read_seq
  BY DEF Works
<1>11. q.n.log.commit = n.log.commit \/ Agreed(i, a, q.n)
  <2>1. CASE q.n.log.commit # r.n.log.commit
    BY <2>1 DEF Works
  <2>2. CASE q.n.log.commit = r.n.log.commit /\ r.n.log.commit # n.log.commit
    <3>1. Agreed(i, a, r.n)
      BY <2>2 DEF Works
    <3> QED BY <1>1, <1>8, <1>9, <2>2, <3>1, AgreedStays
  <2> QED BY <2>1, <2>2
<1>12. Reports(q.n.log.term, q.n.log.ents, q.n.log.commit, q.n.role.read_seq, z.out)
  <2>1. Reports(n.log.term, r.n.log.ents, r.n.log.commit, r.n.role.read_seq, r.out)
    BY <1>8 DEF Works
  <2>2. r.out \in SUBSET StaticEnv(i)
    BY <1>3 DEF Outcome
  <2>3. Reports(n.log.term, q.n.log.ents, q.n.log.commit, q.n.role.read_seq, r.out)
    <3>1. /\ r.n.log.commit <= q.n.log.commit
          /\ r.n.role.read_seq <= q.n.role.read_seq
      BY <1>7, <1>10
    <3> QED BY <1>7, <1>9, <2>1, <2>2, <3>1, ReportsMore
  <2>4. Reports(n.log.term, q.n.log.ents, q.n.log.commit, q.n.role.read_seq, q.out)
    BY <1>8 DEF Works
  <2> QED BY <1>6, <1>8, <2>3, <2>4 DEF Reports
<1>13. /\ q.n.log.commit >= n.log.commit /\ q.n.role.read_seq >= n.role.read_seq
  BY <1>7, <1>10
<1>14. Works(i, a, n, z)
  BY <1>1, <1>5, <1>6, <1>9, <1>11, <1>12, <1>13 DEF Works
<1>15. (IF r.n.role.kind = "Panicked" THEN r ELSE z) = z
  BY <1>2
<1> QED BY <1>6, <1>14, <1>15 DEF z

-----------------------------------------------------------------------------
(* Replication.                                                            *)

\* scan of a whole log from an index on yields a stretch of it.
LEMMA ScanWhole ==
  ASSUME NEW log \in StaticLog, log.first = 1,
         NEW from \in Nat \ {0}, NEW to \in Nat, from <= Len(log.ents) + 1
  PROVE  LET e == Scan(log, from, to)
         IN /\ e \in Seq(StaticEntry)
            /\ from - 1 + Len(e) <= Len(log.ents)
            /\ \A k \in 1 .. Len(e) : e[k] = log.ents[from - 1 + k]
            /\ from <= to /\ from <= Len(log.ents) => Len(e) > 0
            /\ from - 1 <= to /\ to <= Len(log.ents) => Len(e) = to - from + 1
<1> DEFINE l == log.ents
           u == IF to > Len(l) THEN Len(l) ELSE to
           e == Scan(log, from, to)
<1>1. l \in Seq(StaticEntry) /\ Len(l) \in Nat /\ LastIndex(log) = Len(l)
      /\ log.first = 1
  <2>1. l \in Seq(StaticEntry)
    BY DEF StaticLog
  <2>2. Len(l) \in Nat
    BY <2>1, LenProperties
  <2> QED BY <2>1, <2>2 DEF LastIndex
<1>2. e = SubSeq(l, from, u)
  <2>1. ~(from < log.first) /\ from + 1 - log.first = from
        /\ u + 1 - log.first = u
    BY <1>1
  <2> QED BY <1>1, <2>1 DEF Scan
<1> HIDE DEF e, l
<1>3. u \in Nat /\ u <= Len(l)
  BY <1>1
<1>4. CASE from <= u
  <2>1. Len(e) = u - from + 1 /\ \A k \in 1 .. u - from + 1 : e[k] = l[from + k - 1]
        /\ e \in Seq(StaticEntry)
    BY <1>1, <1>2, <1>3, <1>4, SubSeqProperties
  <2>2. \A k \in 1 .. Len(e) : from + k - 1 = from - 1 + k
    BY <2>1
  <2> HIDE DEF u
  <2>3. from - 1 + Len(e) = u /\ Len(e) > 0
    BY <1>3, <1>4, <2>1
  <2>4. to <= Len(l) => u = to
    BY DEF u
  <2> QED BY <1>1, <1>3, <2>1, <2>2, <2>3, <2>4 DEF e, l
<1>5. CASE u < from
  <2>1. e = <<>> /\ Len(e) = 0 /\ e \in Seq(StaticEntry)
    <3>1. SubSeq(l, from, u) = <<>>
      BY <1>1, <1>3, <1>5, SubSeqProperties
    <3> QED BY <1>2, <3>1, EmptySeq
  <2> QED BY <1>1, <1>3, <1>5, <2>1 DEF e, l
<1> QED BY <1>3, <1>4, <1>5

\* maybe_send_append to one peer: its assertions hold and what it sends is a
\* stretch of the log.
LEMMA AppendToWorks ==
  ASSUME NEW i \in Server, NEW a \in [Server -> Nat], NEW n, Tracks(i, a, n),
         NEW p \in Server \ {i}, NEW probe \in BOOLEAN
  PROVE  LET s == AppendTo(n, p, probe)
         IN /\ s.ok
            /\ s.pr.match = n.role.progress[p].match
            /\ s.pr.match < s.pr.next
            /\ s.pr.next <= Len(n.log.ents) + 1
            /\ Reports(n.log.term, n.log.ents, n.log.commit, n.role.read_seq, s.out)
<1> DEFINE log == n.log
           pr == n.role.progress[p]
           probing == probe /\ pr.next > pr.match + 1
           ents == IF probing THEN <<>>
                   ELSE Scan(log, pr.next, pr.next + MaxAppendEntries - 1)
           sound == /\ pr.match < pr.next
                    /\ pr.match <= LastIndex(log)
                    /\ pr.next <= LastIndex(log) + 1
           append == [type |-> "Append", base_index |-> pr.next - 1,
                      base_term |-> TermAt(log, pr.next - 1), entries |-> ents]
           still == \/ pr.next >= log.first /\ pr.match = LastIndex(log)
                    \/ /\ pr.next >= log.first /\ pr.next > LastIndex(log)
                       /\ ~probing
           nothing == [pr |-> pr, out |-> {}, ok |-> sound]
           next == [pr EXCEPT !.next = @ + Len(ents)]
           ok == sound /\ (pr.next = 1 \/ Stored(log, pr.next - 1))
           entries == [pr |-> next, out |-> {Env(n, p, append)}, ok |-> ok]
<1>1. /\ n \in StaticNode(i) /\ Sound(n) /\ log.first = 1
      /\ Len(log.ents) \in Nat /\ LastIndex(log) = Len(log.ents)
      /\ n.role.kind = "Leader"
  <2>1. /\ n \in StaticNode(i) /\ Sound(n) /\ Len(n.log.ents) \in Nat
        /\ n.role.kind = "Leader"
    BY TracksTypes
  <2>2. LastIndex(n.log) = Len(n.log.ents)
    BY <2>1, SoundLog
  <2>3. n.log.first = 1
    BY <2>1 DEF Sound
  <2> QED BY <2>1, <2>2, <2>3
<1>2. /\ pr \in ProgressType /\ pr.next \in Nat /\ pr.match \in Nat
      /\ pr.match < pr.next /\ pr.next <= Len(log.ents) + 1
  <2>1. n.role.progress \in [Server \ {i} -> ProgressType]
    BY TracksTypes
  <2>2. pr \in ProgressType
    BY <2>1
  <2>3. pr.match < pr.next /\ pr.next <= Len(log.ents) + 1
    BY DEF Tracks
  <2> QED BY <2>2, <2>3 DEF ProgressType
<1>3. sound /\ pr.next >= log.first /\ ~(pr.next < log.first)
  <2> HIDE DEF pr, log
  <2> QED BY <1>1, <1>2
<1>4. AppendTo(n, p, probe) = IF still THEN nothing ELSE entries
  <2> HIDE DEF entries, nothing
  <2>1. CASE still
    <3>1. AppendTo(n, p, probe) = nothing
      <4> HIDE DEF pr, log
      <4> QED BY <2>1, <1>3 DEF AppendTo, pr, log, nothing
    <3> QED BY <2>1, <3>1
  <2>2. CASE ~still
    <3>1. AppendTo(n, p, probe) = entries
      <4> HIDE DEF pr, log
      <4> QED BY <2>2, <1>3 DEF AppendTo, pr, log, entries
    <3> QED BY <2>2, <3>1
  <2> QED BY <2>1, <2>2
<1> HIDE DEF pr, log
<1>5. CASE still
  <2>1. AppendTo(n, p, probe) = nothing
    BY <1>4, <1>5
  <2>2. /\ nothing.ok = sound /\ nothing.pr = pr /\ nothing.out = {}
    OBVIOUS
  <2> HIDE DEF nothing, sound
  <2>3. Reports(n.log.term, n.log.ents, n.log.commit, n.role.read_seq, {})
    BY DEF Reports
  <2> QED BY <1>2, <1>3, <2>1, <2>2, <2>3 DEF pr, log
<1>6. CASE ~still
  <2>1. AppendTo(n, p, probe) = entries
    BY <1>4, <1>6
  <2>2. /\ ents \in Seq(StaticEntry) /\ Len(ents) \in Nat
        /\ pr.next - 1 + Len(ents) <= Len(log.ents)
        /\ pr.next - 1 + Len(ents) > 0
        /\ \A k \in 1 .. Len(ents) : ents[k] = log.ents[pr.next - 1 + k]
    <3>1. CASE probing
      <4>1. ents = <<>> /\ Len(ents) = 0
        BY <3>1, EmptySeq
      <4>2. pr.next > 1
        BY <1>2, <3>1
      <4>3. ents \in Seq(StaticEntry)
        BY <4>1, EmptySeq
      <4> HIDE DEF ents
      <4> QED BY <1>1, <1>2, <4>1, <4>2, <4>3
    <3>2. CASE ~probing
      <4> DEFINE to == pr.next + MaxAppendEntries - 1
      <4>1. pr.next \in Nat \ {0} /\ to \in Nat /\ pr.next <= to
            /\ pr.next <= Len(log.ents)
        BY <1>1, <1>2, <1>3, <1>6, <3>2, NodeAssumption
      <4>2. ents = Scan(log, pr.next, to)
        BY <3>2
      <4> HIDE DEF to, ents
      <4>3. /\ ents \in Seq(StaticEntry)
            /\ pr.next - 1 + Len(ents) <= Len(log.ents)
            /\ \A k \in 1 .. Len(ents) : ents[k] = log.ents[pr.next - 1 + k]
            /\ Len(ents) > 0
        <5> DEFINE from == pr.next
                   e == Scan(n.log, from, to)
        <5>1. /\ from \in Nat \ {0} /\ to \in Nat /\ from <= to
              /\ from <= Len(n.log.ents) /\ from <= Len(n.log.ents) + 1
          BY <1>1, <1>2, <4>1 DEF log
        <5> HIDE DEF from
        <5>2. /\ e \in Seq(StaticEntry)
              /\ from - 1 + Len(e) <= Len(n.log.ents)
              /\ \A k \in 1 .. Len(e) : e[k] = n.log.ents[from - 1 + k]
              /\ Len(e) > 0
          <6>1. n.log \in StaticLog /\ n.log.first = 1
            BY <1>1, FieldTypes DEF log
          <6> QED BY <5>1, <6>1, ScanWhole
        <5>3. ents = e
          BY <4>2 DEF log, from
        <5> HIDE DEF e
        <5> QED BY <5>2, <5>3 DEF log, from
      <4>4. Len(ents) \in Nat
        BY <4>3, LenProperties
      <4> QED BY <1>2, <4>1, <4>3, <4>4
    <3> QED BY <3>1, <3>2
  <2>3. pr.next = 1 \/ Stored(log, pr.next - 1)
    <3>1. pr.next - 1 \in Int /\ (pr.next # 1 => pr.next - 1 \in 1 .. Len(log.ents))
      BY <1>1, <1>2
    <3> QED BY <1>1, <3>1, SoundLog DEF log
  <2>4. next.match = pr.match /\ next.next = pr.next + Len(ents)
    <3> HIDE DEF ents
    <3> QED BY <1>2 DEF ProgressType
  <2>5. next.match < next.next /\ next.next <= Len(log.ents) + 1
    <3> DEFINE e == Len(ents)
               b == pr.next
               o == Len(log.ents)
    <3>1. /\ b \in Nat /\ e \in Nat /\ o \in Nat /\ b - 1 + e <= o
          /\ pr.match \in Nat /\ pr.match < b
          /\ next.match = pr.match /\ next.next = b + e
      BY <1>1, <1>2, <2>2, <2>4
    <3> HIDE DEF next, pr, e, b, o
    <3> QED BY <3>1 DEF o
  <2>6. Segment(log.ents, append)
    <3>1. /\ append.base_index = pr.next - 1 /\ append.entries = ents
          /\ append.base_term = TermAt(log, pr.next - 1)
      OBVIOUS
    <3>2. pr.next - 1 > 0 => TermAt(log, pr.next - 1) = log.ents[pr.next - 1].term
      <4>1. pr.next - 1 > 0 => pr.next - 1 \in 1 .. Len(log.ents)
        BY <1>1, <1>2
      <4> QED BY <1>1, <4>1, SoundLog DEF log
    <3> HIDE DEF append, ents
    <3> QED BY <2>2, <3>1, <3>2 DEF Segment
  <2>7. /\ Env(n, p, append).message = append /\ append.type = "Append"
        /\ Env(n, p, append).term = n.log.term
    <3> HIDE DEF ents
    <3> QED BY DEF Env, Term
  <2>8. Reports(n.log.term, n.log.ents, n.log.commit, n.role.read_seq,
                {Env(n, p, append)})
    <3> HIDE DEF append
    <3> QED BY <2>6, <2>7 DEF Reports, log
  <2>9. entries.ok = ok /\ entries.pr = next /\ entries.out = {Env(n, p, append)}
    <3> HIDE DEF next, append, ok
    <3> QED OBVIOUS
  <2>10. ok
    BY <1>3, <2>3
  <2> HIDE DEF entries, next, append, ok
  <2> QED BY <2>1, <2>4, <2>5, <2>8, <2>9, <2>10 DEF pr, log
<1> QED BY <1>5, <1>6

\* A leader with other fields, whose progress is still consistent.
LEMMA TracksRole ==
  ASSUME NEW i \in Server, NEW a \in [Server -> Nat], NEW n, Tracks(i, a, n),
         NEW x \in Lead(i),
         \A p \in Server \ {i} :
           /\ x.progress[p].match < x.progress[p].next
           /\ x.progress[p].next <= Len(n.log.ents) + 1
           /\ x.progress[p].match <= a[p]
  PROVE  LET k == [n EXCEPT !.role = x]
         IN Tracks(i, a, k) /\ k.log = n.log /\ k.role = x /\ k.sm = n.sm
<1> DEFINE k == [n EXCEPT !.role = x]
<1>1. n \in StaticNode(i) /\ Sound(n)
  BY DEF Tracks
<1>2. k \in StaticNode(i) /\ k.log = n.log /\ k.role = x /\ x.kind = "Leader"
      /\ k.sm = n.sm
  <2>1. x \in Role(i)
    BY DEF Role
  <2> QED BY <1>1, <2>1, LeadRole, SetRole
<1> HIDE DEF k
<1> QED BY <1>1, <1>2 DEF Tracks, Sound, k

\* A leader that has moved on, and then works.
LEMMA WorksFrom ==
  ASSUME NEW i \in Server, NEW a \in [Server -> Nat], NEW n, Tracks(i, a, n),
         NEW k, Tracks(i, a, k), SameBallot(n.log, k.log),
         Longer(n.log.ents, k.log.ents, n.log.term),
         k.log.commit >= n.log.commit,
         k.log.commit = n.log.commit \/ Agreed(i, a, k),
         k.role.read_seq >= n.role.read_seq, NEW r, Works(i, a, k, r)
  PROVE  Works(i, a, n, r)
<1> DEFINE d == Done(k, {})
<1>1. /\ n \in StaticNode(i) /\ k \in StaticNode(i) /\ k.role.kind = "Leader"
  BY TracksTypes
<1>2. {} \in SUBSET StaticEnv(i) /\ Quiet({}) /\ Plain({})
  BY DEF Quiet, Plain
<1>3. Leading(i, n, d) /\ d.n = k
  BY <1>1, <1>2, LeadDone
<1>4. d.out = {}
  BY DEF Done
<1> HIDE DEF d
<1>5. Reports(k.log.term, k.log.ents, k.log.commit, k.role.read_seq, {})
  BY <1>2, PlainReports
<1>6. Works(i, a, n, d)
  BY <1>3, <1>4, <1>5 DEF Works
<1>7. Works(i, a, n, After(d.out, r))
  BY <1>3, <1>6, WorksAfter
<1>8. r \in Outcome(i) /\ r.n.role.kind # "Panicked"
  BY DEF Works, Leading, Keeps, Tracks
<1>9. After(d.out, r) = r
  BY <1>4, <1>8 DEF After, Done, Outcome
<1> QED BY <1>7, <1>9

\* A leader whose progress has moved, and then works.
LEMMA WorksRole ==
  ASSUME NEW i \in Server, NEW a \in [Server -> Nat], NEW n, Tracks(i, a, n),
         NEW k, Tracks(i, a, k), k.log = n.log,
         k.role.read_seq >= n.role.read_seq, NEW r, Works(i, a, k, r)
  PROVE  Works(i, a, n, r)
<1>1. SameBallot(n.log, k.log) /\ Longer(n.log.ents, k.log.ents, n.log.term)
      /\ k.log.commit >= n.log.commit
  <2>1. Len(n.log.ents) \in Nat /\ n.log.commit \in Nat
    BY TracksTypes
  <2> QED BY <2>1, SameToSelf DEF SameBallot
<1> QED BY <1>1, WorksFrom

\* maybe_send_append keeps the progress consistent with the log.
LEMMA SendWorks ==
  ASSUME NEW i \in Server, NEW a \in [Server -> Nat], NEW n, Tracks(i, a, n),
         NEW P \in SUBSET (Server \ {i}), NEW probe \in BOOLEAN
  PROVE  /\ Works(i, a, n, MaybeSendAppend(n, P, probe))
         /\ MaybeSendAppend(n, P, probe).n.log = n.log
<1> DEFINE sent == [p \in P |-> AppendTo(n, p, probe)]
           old == n.role.progress
           new == [p \in DOMAIN old |-> IF p \in DOMAIN sent THEN sent[p].pr
                                        ELSE old[p]]
           x == [n.role EXCEPT !.progress = new]
           k == [n EXCEPT !.role = x]
           out == UNION {sent[p].out : p \in DOMAIN sent}
<1>1. n \in StaticNode(i) /\ n.role.kind = "Leader"
      /\ old \in [Server \ {i} -> ProgressType] /\ n.role.read_seq \in Nat
  BY TracksTypes
<1>2. \A p \in P :
        /\ sent[p].pr \in ProgressType
        /\ sent[p].out \in SUBSET StaticEnv(i) /\ Quiet(sent[p].out)
        /\ sent[p].ok
        /\ sent[p].pr.match = old[p].match
        /\ sent[p].pr.match < sent[p].pr.next
        /\ sent[p].pr.next <= Len(n.log.ents) + 1
        /\ Reports(n.log.term, n.log.ents, n.log.commit, n.role.read_seq,
                   sent[p].out)
  BY <1>1, AppendToType, AppendToWorks
<1>3. DOMAIN sent = P /\ DOMAIN old = Server \ {i}
  BY <1>1
<1>4. /\ new \in [Server \ {i} -> ProgressType]
      /\ \A p \in Server \ {i} : /\ new[p].match < new[p].next
                                 /\ new[p].next <= Len(n.log.ents) + 1
                                 /\ new[p].match <= a[p]
  <2>1. \A p \in Server \ {i} : /\ old[p].match < old[p].next
                                /\ old[p].next <= Len(n.log.ents) + 1
                                /\ old[p].match <= a[p]
    BY DEF Tracks
  <2> HIDE DEF old, sent
  <2> QED BY <1>1, <1>2, <1>3, <2>1
<1>5. /\ out \in SUBSET StaticEnv(i) /\ Quiet(out)
      /\ Reports(n.log.term, n.log.ents, n.log.commit, n.role.read_seq, out)
  <2> HIDE DEF sent
  <2>1. out \in SUBSET StaticEnv(i) /\ Quiet(out)
    BY <1>2, <1>3 DEF Quiet
  <2>2. ASSUME NEW m \in out
        PROVE  \E S : m \in S /\ Reports(n.log.term, n.log.ents, n.log.commit,
                                         n.role.read_seq, S)
    BY <1>2, <1>3
  <2>3. Reports(n.log.term, n.log.ents, n.log.commit, n.role.read_seq, out)
    <3> HIDE DEF out
    <3> QED BY <2>2, Zenon DEF Reports
  <2> QED BY <2>1, <2>3
<1>6. /\ x \in Lead(i) /\ [n EXCEPT !.role.progress = new] = k
      /\ x.progress = new /\ x.read_seq = n.role.read_seq
  <2> HIDE DEF new
  <2>1. n.role \in Lead(i)
    BY <1>1, LeadTypes
  <2>2. x.progress = new /\ x.read_seq = n.role.read_seq
    BY <2>1 DEF Lead, LeaderType
  <2> QED BY <1>1, <1>4, <2>2, SetLead
<1>7. Tracks(i, a, k) /\ k.log = n.log /\ k.role = x
  <2> HIDE DEF x, new, old
  <2> QED BY <1>4, <1>6, TracksRole
<1>8. MaybeSendAppend(n, P, probe) =
        Require(\A p \in DOMAIN sent : sent[p].ok, "missing base entry",
                Done(k, out))
  <2>1. MaybeSendAppend(n, P, probe) =
          Require(\A p \in DOMAIN sent : sent[p].ok, "missing base entry",
                  Done([n EXCEPT !.role.progress = new], out))
    BY DEF MaybeSendAppend, Sent
  <2> HIDE DEF sent, new, k, out
  <2> QED BY <1>6, <2>1
<1> HIDE DEF k, out, sent, x, new
<1>9. MaybeSendAppend(n, P, probe) = Done(k, out)
  BY <1>2, <1>3, <1>8 DEF Require
<1>10. k.role.read_seq >= n.role.read_seq /\ k.role.read_seq = n.role.read_seq
  BY <1>1, <1>6, <1>7
<1>11. Works(i, a, n, Done(k, out)) /\ Done(k, out).n = k
  BY <1>5, <1>7, <1>10, WorksDone
<1> QED BY <1>7, <1>9, <1>11

\* So does sending the entry just appended.
LEMMA ReplicateLastWorks ==
  ASSUME NEW i \in Server, NEW a \in [Server -> Nat], NEW n, Tracks(i, a, n)
  PROVE  /\ Works(i, a, n, ReplicateLast(n))
         /\ ReplicateLast(n).n.log = n.log
<1> DEFINE P == {p \in Peers(n) : n.role.progress[p].next = LastIndex(n.log)}
<1>1. P \in SUBSET (Server \ {i})
  BY TracksTypes, PeersOf
<1> HIDE DEF P
<1>2. /\ Works(i, a, n, MaybeSendAppend(n, P, FALSE))
      /\ MaybeSendAppend(n, P, FALSE).n.log = n.log
  <2> DEFINE no == FALSE
  <2>1. no \in BOOLEAN
    OBVIOUS
  <2> HIDE DEF no
  <2>2. /\ Works(i, a, n, MaybeSendAppend(n, P, no))
        /\ MaybeSendAppend(n, P, no).n.log = n.log
    BY <1>1, <2>1, SendWorks
  <2> QED BY <2>2, Zenon DEF no
<1> QED BY <1>2 DEF ReplicateLast, P

\* The leader n with an entry of its term for command cmd.
WithEntry(n, cmd) == [n EXCEPT !.log = AppendEntry(@, cmd, Nil)]

LEMMA WithEntryTracks ==
  ASSUME NEW i \in Server, NEW a \in [Server -> Nat], NEW n, Tracks(i, a, n),
         NEW cmd \in Cmd
  PROVE  LET k == WithEntry(n, cmd)
         IN /\ Tracks(i, a, k) /\ k.role = n.role
            /\ SameBallot(n.log, k.log) /\ k.log.commit = n.log.commit
            /\ Longer(n.log.ents, k.log.ents, n.log.term)
            /\ Len(k.log.ents) = Len(n.log.ents) + 1
            /\ k.log.ents[Len(n.log.ents) + 1].cmd = cmd
            /\ k.log.ents[Len(n.log.ents) + 1].term = n.log.term
<1> DEFINE e == Entry(cmd, Nil, n.log.term)
           l == AppendEntry(n.log, cmd, Nil)
           k == [n EXCEPT !.log = l]
<1>1. /\ n \in StaticNode(i) /\ n.role.kind = "Leader" /\ Sound(n)
      /\ n.log \in StaticLog /\ n.log.ents \in Seq(StaticEntry)
      /\ Len(n.log.ents) \in Nat /\ n.log.commit \in Nat /\ n.role.read_seq \in Nat
      /\ n.log.term \in Nat
      /\ n.log.commit <= Len(n.log.ents)
  <2>1. n \in StaticNode(i) /\ Sound(n) /\ n.role.kind = "Leader"
        /\ n.role.read_seq \in Nat
    BY TracksTypes
  <2>2. n.log \in StaticLog
    BY <2>1, FieldTypes
  <2> QED BY <2>1, <2>2, SoundLog DEF Sound
<1>2. /\ l \in StaticLog /\ SameBallot(n.log, l) /\ l.ents = Append(n.log.ents, e)
      /\ l.first = n.log.first /\ l.snapTerm = n.log.snapTerm
      /\ l.commit = n.log.commit
  <2>1. l \in StaticLog /\ SameBallot(n.log, l)
    BY <1>1, AppendEntryType
  <2> QED BY <1>1, <2>1 DEF AppendEntry, Flushed, StaticLog
<1>3. /\ Len(l.ents) = Len(n.log.ents) + 1
      /\ \A y \in 1 .. Len(n.log.ents) : l.ents[y] = n.log.ents[y]
      /\ l.ents[Len(n.log.ents) + 1] = e /\ e.term = n.log.term /\ e.cmd = cmd
  <2>1. e \in StaticEntry /\ e.term = n.log.term /\ e.cmd = cmd
    BY <1>1 DEF e, Entry, StaticEntry
  <2> HIDE DEF e, l
  <2> QED BY <1>1, <1>2, <2>1, AppendProperties
<1>4. k \in StaticNode(i) /\ k.log = l /\ k.role = n.role /\ k.sm = n.sm
  <2> HIDE DEF l
  <2> QED BY <1>1, <1>2, SetLog
<1>5. WithEntry(n, cmd) = k
  BY DEF WithEntry
<1> HIDE DEF k, l, e
<1>6. Tracks(i, a, k)
  <2>1. Played(n.log.ents, n.log.commit) = Played(k.log.ents, n.log.commit)
    <3>1. SameTo(n.log.ents, k.log.ents, n.log.commit)
      BY <1>1, <1>3, <1>4 DEF SameTo
    <3> QED BY <3>1, PlayedSame
  <2>2. Sound(k)
    <3>1. /\ k.log.first = 1 /\ k.log.snapTerm = 0
          /\ k.log.commit = n.log.commit
      BY <1>1, <1>2, <1>4 DEF Sound
    <3>2. k.sm = Played(k.log.ents, k.log.commit)
      BY <1>1, <1>4, <2>1, <3>1 DEF Sound
    <3>3. k.log.commit <= Len(k.log.ents)
      BY <1>1, <1>3, <1>4, <3>1
    <3> QED BY <3>1, <3>2, <3>3 DEF Sound
  <2>3. ASSUME NEW p \in Server \ {i}
        PROVE  /\ k.role.progress[p].match < k.role.progress[p].next
               /\ k.role.progress[p].next <= Len(k.log.ents) + 1
               /\ k.role.progress[p].match <= a[p]
    <3>1. n.role.progress[p].next \in Nat
      BY TracksTypes
    <3> QED BY <1>1, <1>3, <1>4, <3>1 DEF Tracks
  <2> QED BY <1>1, <1>4, <2>2, <2>3 DEF Tracks
<1>7. Longer(n.log.ents, k.log.ents, n.log.term)
  BY <1>1, <1>3, <1>4 DEF Longer, SameTo
<1> QED BY <1>1, <1>2, <1>3, <1>4, <1>5, <1>6, <1>7

\* propose appends an entry of the term.
LEMMA ProposeWorks ==
  ASSUME NEW i \in Server, NEW a \in [Server -> Nat], NEW n, Tracks(i, a, n),
         NEW cmd \in Cmd
  PROVE  Works(i, a, n, Propose(n, cmd)) /\ Current(Propose(n, cmd).n)
<1> DEFINE k == WithEntry(n, cmd)
<1>1. /\ Tracks(i, a, k) /\ k.role = n.role
      /\ SameBallot(n.log, k.log) /\ k.log.commit = n.log.commit
      /\ Longer(n.log.ents, k.log.ents, n.log.term)
      /\ Len(k.log.ents) = Len(n.log.ents) + 1
      /\ k.log.ents[Len(n.log.ents) + 1].term = n.log.term
  BY WithEntryTracks
<1>2. Propose(n, cmd) = ReplicateLast(k)
  BY DEF Propose, WithEntry
<1> HIDE DEF k
<1>3. Works(i, a, k, ReplicateLast(k)) /\ ReplicateLast(k).n.log = k.log
  BY <1>1, ReplicateLastWorks
<1>4. /\ Len(n.log.ents) \in Nat /\ n.log.commit \in Nat
      /\ n.role.read_seq \in Nat
  BY TracksTypes
<1>5. Works(i, a, n, ReplicateLast(k))
  <2>1. k.log.commit >= n.log.commit /\ k.role.read_seq >= n.role.read_seq
    BY <1>1, <1>4
  <2> QED BY <1>1, <1>3, <2>1, WorksFrom
<1>6. Current(ReplicateLast(k).n)
  BY <1>1, <1>3, <1>4 DEF Current, SameBallot
<1> QED BY <1>2, <1>5, <1>6

-----------------------------------------------------------------------------
(* Commits, reads and heartbeats.                                          *)

\* Applying what is stored up to the commit index leads to the state after it.
LEMMA AppliedPlays ==
  ASSUME NEW log \in StaticLog, log.first = 1, NEW c \in Nat,
         c <= log.commit, log.commit <= Len(log.ents)
  PROVE  Applied(Played(log.ents, c), log) = Played(log.ents, log.commit)
<1> DEFINE l == log.ents
           d == log.commit
           e == Scan(log, c + 1, d)
           s == Played(l, c)
           cmds == [k \in 1 .. Len(e) |-> e[k].cmd]
           all == [x \in 1 .. d |-> l[x].cmd]
           from == c + 1
<1>1. l \in Seq(StaticEntry) /\ Len(l) \in Nat /\ d \in Nat
  <2>1. l \in Seq(StaticEntry) /\ d \in Nat
    BY DEF StaticLog
  <2> QED BY <2>1, LenProperties
<1>2. \A x \in 1 .. Len(l) : l[x].cmd \in Cmd
  <2> HIDE DEF l
  <2>1. \A x \in 1 .. Len(l) : l[x] \in StaticEntry
    BY <1>1, ElementOfSeq
  <2> QED BY <2>1 DEF StaticEntry
<1>3. s.applied = c /\ s.data = [x \in 1 .. c |-> l[x].cmd]
  BY DEF Played
<1>4. /\ e \in Seq(StaticEntry) /\ Len(e) \in Nat /\ Len(e) = d - c
      /\ \A k \in 1 .. Len(e) : e[k] = l[c + k]
  <2>1. from \in Nat \ {0} /\ from <= Len(l) + 1 /\ from - 1 <= d /\ d <= Len(l)
        /\ d - from + 1 = d - c /\ from - 1 = c
    BY <1>1
  <2> HIDE DEF from
  <2> DEFINE z == Scan(log, from, d)
  <2>2. /\ z \in Seq(StaticEntry) /\ Len(z) = d - from + 1
        /\ \A k \in 1 .. Len(z) : z[k] = l[from - 1 + k]
    BY <1>1, <2>1, ScanWhole
  <2>3. e = z
    BY DEF from
  <2>4. Len(z) \in Nat
    BY <2>2, LenProperties
  <2> HIDE DEF z, e
  <2> QED BY <2>1, <2>2, <2>3, <2>4
<1> HIDE DEF e, l, d
<1>5. s.data \in Seq(Cmd) /\ Len(s.data) = c
  <2> DEFINE f == [x \in 1 .. c |-> l[x].cmd]
  <2>1. f \in Seq(Cmd)
    <3>1. \A x \in 1 .. c : l[x].cmd \in Cmd
      BY <1>1, <1>2 DEF l, d
    <3> QED BY <3>1, IsASeq
  <2>2. DOMAIN f = 1 .. c /\ DOMAIN f = 1 .. Len(f) /\ Len(f) \in Nat
    BY <2>1, LenProperties
  <2> HIDE DEF f
  <2>3. Len(f) = c
    BY <2>2
  <2> QED BY <1>3, <2>1, <2>3 DEF f
<1>6. cmds \in Seq(Cmd) /\ Len(cmds) = d - c
  <2>1. \A k \in 1 .. Len(e) : e[k].cmd \in Cmd
    <3>1. \A k \in 1 .. Len(e) : e[k] \in StaticEntry
      BY <1>4, ElementOfSeq
    <3> QED BY <3>1 DEF StaticEntry
  <2>2. cmds \in Seq(Cmd)
    BY <1>4, <2>1, IsASeq
  <2>3. DOMAIN cmds = 1 .. Len(e) /\ DOMAIN cmds = 1 .. Len(cmds) /\ Len(cmds) \in Nat
    BY <2>2, LenProperties
  <2> HIDE DEF cmds
  <2> QED BY <1>4, <2>2, <2>3
<1>7. s.data \o cmds = all
  <2> DEFINE f == s.data
             g == f \o cmds
  <2>1. /\ g \in Seq(Cmd) /\ Len(g) = d
        /\ \A x \in 1 .. d : g[x] = IF x <= c THEN f[x] ELSE cmds[x - c]
    <3>1. /\ f \in Seq(Cmd) /\ cmds \in Seq(Cmd)
          /\ Len(f) = c /\ Len(cmds) = d - c
      BY <1>5, <1>6
    <3> HIDE DEF f, cmds
    <3>2. Len(f) + Len(cmds) = d
      BY <1>1, <3>1
    <3> QED BY <3>1, <3>2, ConcatProperties
  <2>2. \A x \in 1 .. d : g[x] = l[x].cmd
    <3> TAKE x \in 1 .. d
    <3>1. CASE x <= c
      <4>1. x \in 1 .. c
        BY <3>1
      <4> QED BY <1>3, <2>1, <3>1, <4>1
    <3>2. CASE ~(x <= c)
      <4>1. x - c \in 1 .. Len(e) /\ c + (x - c) = x
        BY <1>1, <1>4, <3>2
      <4>2. cmds[x - c] = e[x - c].cmd /\ e[x - c] = l[x]
        BY <1>4, <4>1
      <4> QED BY <2>1, <3>2, <4>2
    <3> QED BY <3>1, <3>2
  <2>3. g \in [1 .. d -> Cmd]
    BY <2>1, LenProperties
  <2> HIDE DEF g
  <2>4. g = [x \in 1 .. d |-> l[x].cmd]
    BY <2>2, <2>3
  <2> QED BY <2>4 DEF g
<1>8. Applied(s, log) = IF e = <<>> THEN s
                        ELSE [applied |-> d, data |-> s.data \o cmds]
  BY <1>3 DEF Applied, e, d
<1>9. CASE e = <<>>
  <2>1. d = c
    BY <1>1, <1>4, <1>9, EmptySeq
  <2> QED BY <1>8, <1>9, <2>1 DEF l, d
<1>10. CASE e # <<>>
  BY <1>7, <1>8, <1>10 DEF Played, l, d
<1> QED BY <1>9, <1>10

\* maybe_apply catches up with the commit index.
LEMMA ApplySound ==
  ASSUME NEW i \in Server, NEW k \in StaticNode(i), NEW c \in Nat,
         k.log.first = 1, k.log.snapTerm = 0, k.sm = Played(k.log.ents, c),
         c <= k.log.commit, k.log.commit <= Len(k.log.ents)
  PROVE  /\ MaybeApply(k) \in StaticNode(i) /\ Sound(MaybeApply(k))
         /\ MaybeApply(k).log = k.log /\ MaybeApply(k).role = k.role
<1>1. /\ MaybeApply(k) \in StaticNode(i)
      /\ MaybeApply(k).log = k.log /\ MaybeApply(k).role = k.role
      /\ CommittedMemberships(k) = {}
  BY MaybeApplyType
<1>2. k.log \in StaticLog
  BY FieldTypes
<1>3. MaybeApply(k).sm = Applied(k.sm, k.log)
  BY <1>1 DEF MaybeApply, StaticNode
<1>4. MaybeApply(k).sm = Played(k.log.ents, k.log.commit)
  BY <1>2, <1>3, AppliedPlays
<1> HIDE DEF MaybeApply
<1> QED BY <1>1, <1>4 DEF Sound

\* maybe_read answers reads; the log stays.
LEMMA MaybeReadWorks ==
  ASSUME NEW i \in Server, NEW a \in [Server -> Nat], NEW n, Tracks(i, a, n)
  PROVE  Works(i, a, n, MaybeRead(n)) /\ MaybeRead(n).n.log = n.log
<1> DEFINE seqOf(j) == IF j = n.id THEN n.role.read_seq ELSE n.role.progress[j].read
           ids == {n.id} \cup DOMAIN n.role.progress
           confirmed == {s \in {seqOf(j) : j \in ids} :
                           HasQuorum(n.mem.active, {j \in ids : seqOf(j) >= s})}
           ready == {rd \in n.role.reads : rd.seq <= Max({0} \cup confirmed)}
           x == [n.role EXCEPT !.reads = n.role.reads \ ready]
           k == [n EXCEPT !.role = x]
           out == {Reply(n, rd.from, rd.id, "Ok", n.sm.data) : rd \in ready}
<1>1. /\ n \in StaticNode(i) /\ n.role.kind = "Leader" /\ n.role.read_seq \in Nat
      /\ n.role \in Lead(i) /\ n.role.reads \in SUBSET ReadType(Ids)
  BY TracksTypes, LeadTypes
<1>2. ready \in SUBSET n.role.reads
  OBVIOUS
<1>3. MaybeRead(n) = IF CommitTerm(n.log) < Term(n) \/ n.sm.applied < n.log.commit
                     THEN Done(n, {}) ELSE Done(k, out)
  BY DEF MaybeRead
<1> HIDE DEF ready
<1>4. x \in Lead(i) /\ x.progress = n.role.progress /\ x.read_seq = n.role.read_seq
  BY <1>1, <1>2 DEF Lead, LeaderType
<1>5. Tracks(i, a, k) /\ k.log = n.log /\ k.role = x
  <2> HIDE DEF x
  <2>1. \A p \in Server \ {i} : /\ x.progress[p].match < x.progress[p].next
                                /\ x.progress[p].next <= Len(n.log.ents) + 1
                                /\ x.progress[p].match <= a[p]
    BY <1>4 DEF Tracks
  <2> QED BY <1>4, <2>1, TracksRole
<1>6. out \in SUBSET StaticEnv(i) /\ Quiet(out) /\ Plain(out)
  <2>1. \A rd \in ready : rd.from \in Server /\ rd.id \in Ids
    BY <1>1, <1>2 DEF ReadType
  <2>2. n.sm.data \in Seq(Cmd)
    BY <1>1, FieldTypes DEF State, StateType, Cmd
  <2>3. \A rd \in ready :
          Reply(n, rd.from, rd.id, "Ok", n.sm.data).message.type = "ClientResponse"
    BY DEF Reply, Env
  <2> QED BY <1>1, <2>1, <2>2, <2>3, ReplyType DEF Quiet, Plain
<1>7. Works(i, a, n, Done(n, {})) /\ Done(n, {}).n = n
  BY WorksStay DEF Done
<1> HIDE DEF k, out, x
<1>8. Works(i, a, n, Done(k, out)) /\ Done(k, out).n = k
  <2>1. k.role.read_seq >= n.role.read_seq
    BY <1>1, <1>4, <1>5
  <2> QED BY <1>5, <1>6, <2>1, PlainReports, WorksDone
<1> QED BY <1>3, <1>5, <1>7, <1>8

\* Without a snapshot threshold no snapshot is taken.
LEMMA SnapshotOff ==
  ASSUME SnapshotThreshold = 0, NEW n
  PROVE  MaybeSnapshot(n) = n
BY DEF MaybeSnapshot

\* What follows a commit: reads if it is the term's first, and no snapshot.
LEMMA ReadAndSnapshotWorks ==
  ASSUME SnapshotThreshold = 0, NEW n,
         NEW i \in Server, NEW a \in [Server -> Nat],
         NEW m, Tracks(i, a, m.n), m.out = {}, ~m.down,
         NEW answers \in SUBSET StaticEnv(i), Quiet(answers), Plain(answers)
  PROVE  LET c == ReadAndSnapshot(n, m, answers)
         IN /\ Works(i, a, m.n, Flagless(c)) /\ c.n.log = m.n.log
            /\ ~c.down
<1> DEFINE b == m.n
           r == IF CommitTerm(n.log) # Term(n) THEN MaybeRead(b) ELSE Done(b, {})
           c == [n |-> r.n, out |-> answers \cup {} \cup r.out, down |-> m.down]
           d == Done(b, answers)
<1>1. b.role.kind = "Leader" /\ b.role.read_seq \in Nat /\ Tracks(i, a, b)
  BY TracksTypes
<1>2. Works(i, a, b, r) /\ r.n.log = b.log
  <2>1. Works(i, a, b, Done(b, {})) /\ Done(b, {}).n = b
    BY WorksStay DEF Done
  <2> QED BY <2>1, MaybeReadWorks
<1>3. ReadAndSnapshot(n, m, answers) = c
  <2>1. MaybeSnapshot(r.n) = r.n
    BY SnapshotOff
  <2> QED BY <1>1, <2>1 DEF ReadAndSnapshot
<1> HIDE DEF r
<1>4. Works(i, a, b, d) /\ d.n = b /\ d.out = answers
  <2>1. b.role.read_seq >= b.role.read_seq
    BY <1>1
  <2>2. Works(i, a, b, d) /\ d.n = b
    BY <2>1, PlainReports, WorksDone
  <2> QED BY <2>2 DEF Done
<1> HIDE DEF d
<1>5. Works(i, a, b, After(answers, r))
  BY <1>2, <1>4, WorksAfter
<1>6. r.n.role.kind # "Panicked"
  BY <1>2 DEF Works, Tracks
<1>7. Flagless(c) = After(answers, r)
  BY <1>6 DEF Flagless, After, Done
<1> QED BY <1>2, <1>3, <1>5, <1>7

\* What is answered when the leader n commits up to target.
Answerable(n, target) ==
  {w \in n.role.writes \cup n.role.membership_writes :
     w.index > n.sm.applied /\ w.index <= target}
Acknowledged(n, target) ==
  {Reply(n, w.from, w.id, "Ok", <<>>) : w \in Answerable(n, target)}

\* What a commit up to target leaves before its last part: a leader k that has
\* applied what is committed and waits for the other writes.
CommitsVia(i, a, n, target, k) ==
  /\ Tracks(i, a, k) /\ k.role.progress = n.role.progress
  /\ k.role.writes = n.role.writes \ Answerable(n, target)
  /\ k.role.membership_writes =
       n.role.membership_writes \ Answerable(n, target)
  /\ k.role.reads = n.role.reads /\ k.role.read_seq = n.role.read_seq
  /\ SameBallot(n.log, k.log) /\ k.log.ents = n.log.ents
  /\ k.log.commit = target
  /\ CommitTo(n, target) =
       ReadAndSnapshot(n, [n |-> k, out |-> {}, down |-> FALSE],
                       Acknowledged(n, target))
  /\ Acknowledged(n, target) \in SUBSET StaticEnv(i)
  /\ Quiet(Acknowledged(n, target)) /\ Plain(Acknowledged(n, target))

LEMMA CommitToIs ==
  ASSUME NEW i \in Server, NEW a \in [Server -> Nat], NEW n, Tracks(i, a, n),
         NEW target \in Nat, target > n.log.commit, target <= Len(n.log.ents)
  PROVE  \E k : CommitsVia(i, a, n, target, k)
<1> DEFINE l == Commit(n.log, target)
           c == [n EXCEPT !.log = l]
           done(w) == w.index > n.sm.applied /\ w.index <= target
           b == MaybeApply(c)
           W == {w \in b.role.writes : ~done(w)}
           M == {w \in b.role.membership_writes : ~done(w)}
           x == [b.role EXCEPT !.writes = W, !.membership_writes = M]
           k == [b EXCEPT !.role = x]
           D == {v \in n.role.writes \cup n.role.membership_writes : done(v)}
           out == {Reply(n, w.from, w.id, "Ok", <<>>) : w \in D}
<1>1. /\ n \in StaticNode(i) /\ n.role.kind = "Leader" /\ Sound(n)
      /\ n.log \in StaticLog /\ n.log.commit \in Nat /\ Len(n.log.ents) \in Nat
      /\ n.role.read_seq \in Nat
  <2>1. n \in StaticNode(i) /\ n.role.kind = "Leader" /\ Sound(n)
        /\ n.log.commit \in Nat /\ Len(n.log.ents) \in Nat /\ n.role.read_seq \in Nat
    BY TracksTypes
  <2> QED BY <2>1, FieldTypes
<1>2. /\ l \in StaticLog /\ SameBallot(n.log, l) /\ l.ents = n.log.ents
      /\ l.commit = target /\ l.first = n.log.first /\ l.snapTerm = n.log.snapTerm
  <2>1. l \in StaticLog /\ SameBallot(n.log, l) /\ l.ents = n.log.ents
    BY <1>1, CommitType
  <2> QED BY <1>1, <2>1 DEF Commit, StaticLog
<1>3. c \in StaticNode(i) /\ c.log = l /\ c.role = n.role /\ c.sm = n.sm
  <2> HIDE DEF l
  <2> QED BY <1>1, <1>2, SetLog
<1>4. /\ b \in StaticNode(i) /\ b.log = l /\ b.role = n.role /\ Sound(b)
      /\ CommittedMemberships(c) = {}
  <2> HIDE DEF c, l
  <2>1. CommittedMemberships(c) = {}
    BY <1>3, MaybeApplyType
  <2>2. /\ c.log.first = 1 /\ c.log.snapTerm = 0
        /\ c.sm = Played(c.log.ents, n.log.commit)
        /\ n.log.commit <= c.log.commit /\ c.log.commit <= Len(c.log.ents)
    BY <1>1, <1>2, <1>3 DEF Sound
  <2> QED BY <1>1, <1>3, <2>1, <2>2, ApplySound
<1>5. CommitTo(n, target) =
        ReadAndSnapshot(n, [n |-> k, out |-> {}, down |-> FALSE], out)
  <2>1. CommittedMemberships(c) = {}
    BY <1>4
  <2>2. [b EXCEPT !.role.writes = W, !.role.membership_writes = M] = k
    OBVIOUS
  <2> QED BY <2>1, <2>2 DEF CommitTo
<1>14. /\ D = Answerable(n, target) /\ out = Acknowledged(n, target)
       /\ b.role = n.role =>
            /\ W = n.role.writes \ D
            /\ M = n.role.membership_writes \ D
  BY DEF Answerable, Acknowledged
<1> HIDE DEF b, done, l, c
<1>6. /\ x \in Lead(i) /\ x.progress = n.role.progress /\ x.read_seq = n.role.read_seq
      /\ x.writes = W /\ x.membership_writes = M /\ x.reads = n.role.reads
  <2>1. b.role \in Lead(i)
    BY <1>1, <1>4, LeadTypes
  <2> QED BY <1>4, <2>1, Zenon DEF Lead, LeaderType
<1>7. Tracks(i, a, b)
  <2>1. ASSUME NEW p \in Server \ {i}
        PROVE  /\ b.role.progress[p].match < b.role.progress[p].next
               /\ b.role.progress[p].next <= Len(b.log.ents) + 1
               /\ b.role.progress[p].match <= a[p]
    BY <1>2, <1>4 DEF Tracks
  <2> QED BY <1>1, <1>4, <2>1 DEF Tracks
<1>8. Tracks(i, a, k) /\ k.log = l /\ k.role = x
  <2> HIDE DEF x
  <2>1. \A p \in Server \ {i} : /\ x.progress[p].match < x.progress[p].next
                                /\ x.progress[p].next <= Len(b.log.ents) + 1
                                /\ x.progress[p].match <= a[p]
    BY <1>4, <1>6, <1>7 DEF Tracks
  <2> QED BY <1>4, <1>6, <1>7, <2>1, TracksRole
<1>9. out \in SUBSET StaticEnv(i) /\ Quiet(out) /\ Plain(out)
  <2>1. /\ n.role.writes \in SUBSET WriteType(Ids)
        /\ n.role.membership_writes \in SUBSET WriteType(Ids)
    BY <1>1, LeadTypes
  <2>2. \A w \in D : w.from \in Server /\ w.id \in Ids
    BY <2>1 DEF WriteType
  <2>3. <<>> \in Seq(Cmd)
    BY EmptySeq
  <2>4. \A w \in D : Reply(n, w.from, w.id, "Ok", <<>>).message.type = "ClientResponse"
    BY DEF Reply, Env
  <2> HIDE DEF D
  <2>5. \A w \in D : /\ Reply(n, w.from, w.id, "Ok", <<>>) \in StaticEnv(i)
                     /\ ~Granted(Reply(n, w.from, w.id, "Ok", <<>>))
    BY <1>1, <2>2, <2>3, ReplyType
  <2> QED BY <2>4, <2>5 DEF Quiet, Plain
<1> HIDE DEF k, out, x, D, W, M
<1>15. /\ k.role.writes = n.role.writes \ Answerable(n, target)
       /\ k.role.membership_writes =
            n.role.membership_writes \ Answerable(n, target)
  BY <1>4, <1>6, <1>8, <1>14
<1>16. CommitTo(n, target) =
         ReadAndSnapshot(n, [n |-> k, out |-> {}, down |-> FALSE],
                         Acknowledged(n, target))
  BY <1>5, <1>14
<1>17. /\ SameBallot(n.log, k.log) /\ k.log.ents = n.log.ents
       /\ k.log.commit = target
       /\ k.role.progress = n.role.progress
       /\ k.role.reads = n.role.reads /\ k.role.read_seq = n.role.read_seq
  BY <1>2, <1>6, <1>8
<1>18. CommitsVia(i, a, n, target, k)
  BY <1>8, <1>9, <1>14, <1>15, <1>16, <1>17 DEF CommitsVia
<1> QED BY <1>18

\* A commit index that a majority vouched for is adopted.
LEMMA CommitToWorks ==
  ASSUME SnapshotThreshold = 0,
         NEW i \in Server, NEW a \in [Server -> Nat], NEW n, Tracks(i, a, n),
         NEW target \in Nat, target > n.log.commit, target <= Len(n.log.ents),
         n.log.ents[target].term = n.log.term,
         \E Q \in SUBSET Server : /\ Majority(Server, Q)
                                  /\ \A v \in Q : v = i \/ a[v] >= target
  PROVE  LET c == CommitTo(n, target)
         IN /\ Works(i, a, n, Flagless(c)) /\ c.n.log.ents = n.log.ents
            /\ ~c.down
<1>0. PICK k : CommitsVia(i, a, n, target, k)
  BY CommitToIs
<1>1. /\ Tracks(i, a, k) /\ k.role.read_seq = n.role.read_seq
      /\ SameBallot(n.log, k.log) /\ k.log.ents = n.log.ents
      /\ k.log.commit = target
      /\ CommitTo(n, target) =
           ReadAndSnapshot(n, [n |-> k, out |-> {}, down |-> FALSE],
                           Acknowledged(n, target))
      /\ Acknowledged(n, target) \in SUBSET StaticEnv(i)
      /\ Quiet(Acknowledged(n, target)) /\ Plain(Acknowledged(n, target))
  BY <1>0 DEF CommitsVia
<1>2. LET z == CommitTo(n, target)
      IN Works(i, a, k, Flagless(z)) /\ z.n.log = k.log /\ ~z.down
  <2> DEFINE m == [n |-> k, out |-> {}, down |-> FALSE]
             out == Acknowledged(n, target)
             y == ReadAndSnapshot(n, m, out)
  <2>1. Works(i, a, k, Flagless(y)) /\ y.n.log = k.log /\ ~y.down
    <3>1. m.n = k /\ m.out = {} /\ ~m.down
      OBVIOUS
    <3>2. out \in SUBSET StaticEnv(i) /\ Quiet(out) /\ Plain(out)
      BY <1>1
    <3> HIDE DEF m, out
    <3>3. Tracks(i, a, m.n)
      BY <1>1, <3>1
    <3>4. Works(i, a, m.n, Flagless(y)) /\ y.n.log = m.n.log /\ ~y.down
      BY <3>1, <3>2, <3>3, ReadAndSnapshotWorks
    <3> QED BY <3>1, <3>4
  <2>2. CommitTo(n, target) = y
    BY <1>1
  <2> HIDE DEF y
  <2> QED BY <2>1, <2>2
<1>3. Len(n.log.ents) \in Nat /\ n.log.commit \in Nat /\ n.role.read_seq \in Nat
  BY TracksTypes
<1>4. Agreed(i, a, k)
  BY <1>1, <1>3 DEF Agreed, SameBallot
<1>5. /\ Longer(n.log.ents, k.log.ents, n.log.term)
      /\ k.log.commit >= n.log.commit /\ k.role.read_seq >= n.role.read_seq
  BY <1>1, <1>3, SameToSelf
<1>6. Works(i, a, n, Flagless(CommitTo(n, target)))
  BY <1>1, <1>2, <1>4, <1>5, WorksFrom
<1> QED BY <1>1, <1>2, <1>6

\* The index to commit: as it is, or that of an entry of this term that a
\* majority is known to store.
LEMMA CommitTargetIs ==
  ASSUME NEW i \in Server, NEW a \in [Server -> Nat], NEW n, Tracks(i, a, n),
         CommitTarget(n) > n.log.commit
  PROVE  /\ CommitTarget(n) \in Nat /\ CommitTarget(n) <= Len(n.log.ents)
         /\ n.log.ents[CommitTarget(n)].term = n.log.term
         /\ \E Q \in SUBSET Server :
              /\ Majority(Server, Q)
              /\ \A v \in Q : v = i \/ a[v] >= CommitTarget(n)
<1> DEFINE c == n.log.commit
           l == LastIndex(n.log)
           Q(k) == {n.id} \cup {p \in DOMAIN n.role.progress :
                                  n.role.progress[p].match >= k}
           ok(k) == /\ Stored(n.log, k)
                    /\ TermAt(n.log, k) = Term(n)
                    /\ HasQuorum(n.mem.active, Q(k))
           S == {c} \cup {k \in c + 1 .. l : ok(k)}
           t == CommitTarget(n)
<1>1. /\ n \in StaticNode(i) /\ Sound(n) /\ c \in Nat /\ l = Len(n.log.ents)
      /\ l \in Nat /\ n.id = i
      /\ n.role.progress \in [Server \ {i} -> ProgressType]
  <2>1. n \in StaticNode(i) /\ Sound(n)
        /\ n.role.progress \in [Server \ {i} -> ProgressType]
    BY TracksTypes
  <2>2. n.id = i /\ c \in Nat
    BY <2>1, FieldTypes
  <2>3. l = Len(n.log.ents) /\ Len(n.log.ents) \in Nat
    BY <2>1, SoundLog
  <2> QED BY <2>1, <2>2, <2>3
<1>2. t = Max(S)
  BY DEF CommitTarget
<1> HIDE DEF c, l, ok
<1>3. S \in SUBSET Nat /\ S # {} /\ c + l \in Nat /\ \A x \in S : x <= c + l
  BY <1>1
<1>4. t \in S
  <2> HIDE DEF S
  <2> QED BY <1>2, <1>3, MaxOfBounded
<1>5. t \in c + 1 .. l /\ ok(t)
  <2>1. t # c
    BY <1>1 DEF c
  <2> HIDE DEF t
  <2> QED BY <1>4, <2>1
<1> HIDE DEF t
<1>6. t \in Nat /\ t <= Len(n.log.ents) /\ t \in 1 .. Len(n.log.ents)
  BY <1>1, <1>5
<1>7. n.log.ents[t].term = n.log.term
  BY <1>1, <1>5, <1>6, SoundLog DEF ok, Term
<1>8. Majority(Server, Q(t)) /\ Q(t) \in SUBSET Server
  BY <1>1, <1>5, PeersOf DEF ok
<1>9. \A v \in Q(t) : v = i \/ a[v] >= t
  <2> SUFFICES ASSUME NEW v \in Server \ {i}, n.role.progress[v].match >= t
               PROVE  a[v] >= t
    BY <1>1
  <2>1. n.role.progress[v].match \in Nat /\ a[v] \in Nat
    BY TracksTypes
  <2>2. n.role.progress[v].match <= a[v]
    BY DEF Tracks
  <2> QED BY <1>6, <2>1, <2>2
<1> HIDE DEF Q
<1> QED BY <1>6, <1>7, <1>8, <1>9 DEF t

\* maybe_commit_and_apply; nobody steps down.
LEMMA CommitWorks ==
  ASSUME SnapshotThreshold = 0,
         NEW i \in Server, NEW a \in [Server -> Nat], NEW n, Tracks(i, a, n)
  PROVE  LET c == MaybeCommitAndApply(n)
         IN /\ Works(i, a, n, Flagless(c)) /\ c.n.log.ents = n.log.ents
            /\ ~c.down
<1>1. CASE CommitTarget(n) > n.log.commit
  <2>1. LET c == CommitTo(n, CommitTarget(n))
        IN /\ Works(i, a, n, Flagless(c)) /\ c.n.log.ents = n.log.ents
           /\ ~c.down
    <3> DEFINE t == CommitTarget(n)
    <3>1. /\ t \in Nat /\ t <= Len(n.log.ents) /\ t > n.log.commit
          /\ n.log.ents[t].term = n.log.term
          /\ \E Q \in SUBSET Server :
               /\ Majority(Server, Q)
               /\ \A v \in Q : v = i \/ a[v] >= t
      BY <1>1, CommitTargetIs
    <3> HIDE DEF t
    <3>2. LET c == CommitTo(n, t)
          IN /\ Works(i, a, n, Flagless(c)) /\ c.n.log.ents = n.log.ents
             /\ ~c.down
      BY <3>1, CommitToWorks
    <3> QED BY <3>2 DEF t
  <2> QED BY <1>1, <2>1 DEF MaybeCommitAndApply
<1>2. CASE ~(CommitTarget(n) > n.log.commit)
  <2> DEFINE c == [n |-> n, out |-> {}, down |-> FALSE]
  <2>1. Works(i, a, n, Done(n, {}))
    BY WorksStay
  <2>2. MaybeCommitAndApply(n) = c
    BY <1>2 DEF MaybeCommitAndApply
  <2>3. Flagless(c) = Done(n, {}) /\ c.n = n /\ ~c.down
    BY DEF Flagless
  <2> HIDE DEF c
  <2> QED BY <2>1, <2>2, <2>3
<1> QED BY <1>1, <1>2

\* The last entry stays one of the term.
LEMMA CurrentStays ==
  ASSUME NEW i \in Server, NEW a \in [Server -> Nat], NEW n, Tracks(i, a, n),
         Current(n), NEW r, Works(i, a, n, r)
  PROVE  Current(r.n)
<1>1. Longer(n.log.ents, r.n.log.ents, n.log.term) /\ r.n.log.term = n.log.term
      /\ Tracks(i, a, r.n)
  BY DEF Works, Leading, Keeps, SameBallot
<1>2. Len(n.log.ents) \in Nat /\ Len(r.n.log.ents) \in Nat
  BY <1>1, TracksTypes
<1> DEFINE l == n.log.ents
           k == r.n.log.ents
<1>3. /\ Len(l) > 0 /\ l[Len(l)].term = n.log.term /\ Len(l) <= Len(k)
      /\ \A x \in 1 .. Len(l) : l[x] = k[x]
      /\ \A x \in Len(l) + 1 .. Len(k) : k[x].term = n.log.term
  BY <1>1 DEF Current, Longer, SameTo
<1>4. Len(k) > 0 /\ k[Len(k)].term = n.log.term
  <2> HIDE DEF l, k
  <2>1. Len(l) \in Nat /\ Len(k) \in Nat
    BY <1>2 DEF l, k
  <2>2. CASE Len(k) = Len(l)
    <3>1. Len(l) \in 1 .. Len(l)
      BY <1>3, <2>1
    <3> QED BY <1>3, <2>1, <2>2, <3>1
  <2>3. CASE Len(k) > Len(l)
    <3>1. Len(k) \in Len(l) + 1 .. Len(k)
      BY <2>1, <2>3
    <3> QED BY <1>3, <2>1, <2>3, <3>1
  <2> QED BY <1>3, <2>1, <2>2, <2>3
<1> QED BY <1>1, <1>4 DEF Current

\* heartbeat: its assertion holds when the last entry is of the term.
LEMMA HeartbeatWorks ==
  ASSUME NEW i \in Server, NEW a \in [Server -> Nat], NEW n, Tracks(i, a, n),
         Current(n)
  PROVE  Works(i, a, n, Heartbeat(n))
<1> DEFINE msg == [type |-> "Heartbeat", last_index |-> LastIndex(n.log),
                   commit_index |-> n.log.commit, read_seq |-> n.role.read_seq]
           out == Broadcast(n, msg)
<1>1. /\ n \in StaticNode(i) /\ n.role.kind = "Leader" /\ Sound(n)
      /\ n.role.read_seq \in Nat /\ n.log.commit \in Nat /\ Len(n.log.ents) \in Nat
      /\ LastIndex(n.log) = Len(n.log.ents) /\ LastTerm(n.log) = n.log.term
  <2>1. /\ n \in StaticNode(i) /\ n.role.kind = "Leader" /\ Sound(n)
        /\ n.role.read_seq \in Nat /\ n.log.commit \in Nat /\ Len(n.log.ents) \in Nat
    BY TracksTypes
  <2>2. LastIndex(n.log) = Len(n.log.ents) /\ n.log.ents \in Seq(StaticEntry)
        /\ LastTerm(n.log) = IF n.log.ents = <<>> THEN 0
                              ELSE n.log.ents[Len(n.log.ents)].term
    BY <2>1, SoundLog
  <2>3. n.log.ents # <<>> /\ n.log.ents[Len(n.log.ents)].term = n.log.term
    BY EmptySeq DEF Current
  <2> QED BY <2>1, <2>2, <2>3
<1>2. msg \in StaticMessage /\ msg.type # "CampaignResponse"
  BY <1>1 DEF StaticMessage
<1>3. out \in SUBSET StaticEnv(i) /\ Quiet(out)
  <2> HIDE DEF msg
  <2> QED BY <1>1, <1>2, BroadcastType
<1>4. Reports(n.log.term, n.log.ents, n.log.commit, n.role.read_seq, out)
  <2>1. \A m \in out : m.message = msg /\ m.term = n.log.term
    <3> HIDE DEF msg
    <3> QED BY DEF Broadcast, Env, Term
  <2>2. /\ msg.type = "Heartbeat" /\ msg.last_index = Len(n.log.ents)
        /\ msg.commit_index = n.log.commit /\ msg.read_seq = n.role.read_seq
    BY <1>1
  <2>3. n.log.commit <= Len(n.log.ents)
    BY <1>1 DEF Sound
  <2> HIDE DEF msg, out
  <2> QED BY <1>1, <2>1, <2>2, <2>3 DEF Reports
<1>5. Heartbeat(n) = Done(n, out)
  <2>1. Heartbeat(n) = Require(LastTerm(n.log) = Term(n), "last term not current",
                               Done(n, out))
    BY DEF Heartbeat
  <2> HIDE DEF out
  <2> QED BY <1>1, <2>1 DEF Require, Term
<1> HIDE DEF out
<1>6. n.role.read_seq >= n.role.read_seq
  BY <1>1
<1> QED BY <1>3, <1>4, <1>5, <1>6, WorksDone

-----------------------------------------------------------------------------
(* Entering office.                                                        *)

\* into_leader of a node that voted for itself: it tracks its peers, proposes
\* and announces itself.
LEMMA IntoLeaderWorks ==
  ASSUME SnapshotThreshold = 0,
         NEW i \in Server, NEW a \in [Server -> Nat], NEW n \in StaticNode(i),
         Sound(n), n.log.vote = i
  PROVE  \E k : /\ Tracks(i, a, k) /\ k.log = n.log
                /\ Works(i, a, k, IntoLeader(n))
                /\ Current(IntoLeader(n).n)
<1> DEFINE x == Leader(n)
           k == [n EXCEPT !.role = x]
           p == Propose(k, Nil)
           c == MaybeCommitAndApply(p.n)
           q == IF p.n.role.kind = "Panicked" THEN p ELSE After(p.out, Flagless(c))
           h == Heartbeat(q.n)
           r == IF q.n.role.kind = "Panicked" THEN q ELSE After(q.out, h)
<1>1. /\ x \in Lead(i) /\ n.id = i /\ Len(n.log.ents) \in Nat
      /\ LastIndex(n.log) = Len(n.log.ents) /\ Peers(n) = Server \ {i}
  BY LeaderRole, FieldTypes, SoundLog, PeersOf
<1>2. \A j \in Server \ {i} : /\ x.progress[j].match = 0
                              /\ x.progress[j].next = Len(n.log.ents) + 1
  BY <1>1 DEF Leader, Progress
<1>3. k \in StaticNode(i) /\ k.log = n.log /\ k.role = x /\ k.sm = n.sm
      /\ x.kind = "Leader"
  <2> HIDE DEF x
  <2>1. x \in Role(i)
    BY <1>1 DEF Role
  <2> QED BY <1>1, <2>1, LeadRole, SetRole
<1> HIDE DEF x, k
<1>4. Tracks(i, a, k)
  <2>1. Sound(k)
    BY <1>3 DEF Sound
  <2>2. ASSUME NEW j \in Server \ {i}
        PROVE  /\ k.role.progress[j].match < k.role.progress[j].next
               /\ k.role.progress[j].next <= Len(k.log.ents) + 1
               /\ k.role.progress[j].match <= a[j]
    BY <1>1, <1>2, <1>3
  <2> QED BY <1>3, <2>1, <2>2 DEF Tracks
<1>5. IntoLeader(n) = r
  <2>1. IntoLeader(n) = Require(n.log.vote = n.id, "leader did not vote for self", r)
    BY DEF IntoLeader, Then, CommitOnly, k, x
  <2> HIDE DEF r
  <2> QED BY <1>1, <2>1 DEF Require
<1>6. Works(i, a, k, p) /\ Current(p.n)
  <2>1. Nil \in Cmd
    BY DEF Cmd
  <2> QED BY <1>4, <2>1, ProposeWorks
<1> HIDE DEF p
<1>7. Works(i, a, k, q) /\ Tracks(i, a, p.n) /\ Tracks(i, a, q.n) /\ Current(q.n)
  <2>1. Tracks(i, a, p.n)
    BY <1>6 DEF Works
  <2>2. Works(i, a, p.n, Flagless(c)) /\ Flagless(c).n = c.n
    BY <2>1, CommitWorks DEF Flagless, Done
  <2>3. Works(i, a, k, q) /\ q.n = c.n
    <3> DEFINE f == Flagless(c)
    <3> HIDE DEF f, c
    <3>1. Works(i, a, p.n, f)
      BY <2>2 DEF f
    <3>2. /\ Works(i, a, k, After(p.out, f)) /\ After(p.out, f).n = f.n
          /\ q = After(p.out, f)
      BY <1>4, <1>6, <3>1, WorksAfter DEF f
    <3> QED BY <2>2, <3>2 DEF f
  <2>4. Current(c.n)
    BY <1>6, <2>1, <2>2, CurrentStays
  <2>5. Tracks(i, a, q.n)
    <3> HIDE DEF q
    <3> QED BY <2>3 DEF Works
  <2> HIDE DEF q, c
  <2> QED BY <2>1, <2>3, <2>4, <2>5
<1> HIDE DEF q
<1>8. Works(i, a, k, r) /\ Current(r.n)
  <2>1. Works(i, a, q.n, h)
    BY <1>7, HeartbeatWorks
  <2> HIDE DEF h
  <2>2. Works(i, a, k, After(q.out, h)) /\ After(q.out, h).n = h.n
        /\ r = After(q.out, h)
    BY <1>4, <1>7, <2>1, WorksAfter
  <2>3. Current(h.n)
    BY <1>7, <2>1, CurrentStays
  <2> QED BY <2>2, <2>3
<1> HIDE DEF r
<1> QED BY <1>3, <1>4, <1>5, <1>8

-----------------------------------------------------------------------------
(* Leader::step.                                                           *)

\* maybe_send_append to one peer.
LEMMA SendToWorks ==
  ASSUME NEW i \in Server, NEW a \in [Server -> Nat], NEW n, Tracks(i, a, n),
         NEW p, NEW probe \in BOOLEAN
  PROVE  Works(i, a, n, SendTo(n, p, probe))
<1> DEFINE P == {p} \cap DOMAIN n.role.progress
<1>1. P \in SUBSET (Server \ {i})
  <2>1. n.role.progress \in [Server \ {i} -> ProgressType]
    BY TracksTypes
  <2> QED BY <2>1
<1> HIDE DEF P
<1>2. Works(i, a, n, MaybeSendAppend(n, P, probe))
  BY <1>1, SendWorks
<1> QED BY <1>2 DEF SendTo, P

\* The leader n with y for the progress of peer p.
WithPeer(n, p, y) == [n EXCEPT !.role.progress[p] = y]

\* The progress of one peer replaced by a consistent one.
LEMMA TracksProgress ==
  ASSUME NEW i \in Server, NEW a \in [Server -> Nat], NEW n, Tracks(i, a, n),
         NEW p \in Server \ {i}, NEW y \in ProgressType,
         y.match < y.next, y.next <= Len(n.log.ents) + 1, y.match <= a[p]
  PROVE  LET k == WithPeer(n, p, y)
         IN Tracks(i, a, k) /\ k.log = n.log /\ k.role.read_seq = n.role.read_seq
<1> DEFINE x == [n.role EXCEPT !.progress[p] = y]
           k == WithPeer(n, p, y)
<1>1. /\ n \in StaticNode(i) /\ n.role.kind = "Leader" /\ n.role \in Lead(i)
      /\ n.role.progress \in [Server \ {i} -> ProgressType]
  BY TracksTypes, LeadTypes
<1>2. x \in Lead(i) /\ k = [n EXCEPT !.role = x]
  BY <1>1, SetLead DEF WithPeer
<1>3. /\ x.read_seq = n.role.read_seq
      /\ x.progress = [n.role.progress EXCEPT ![p] = y]
  BY <1>1 DEF Lead, LeaderType
<1> HIDE DEF x, k
<1>4. \A j \in Server \ {i} : x.progress[j] = IF j = p THEN y ELSE n.role.progress[j]
  BY <1>1, <1>3
<1>5. \A j \in Server \ {i} : /\ x.progress[j].match < x.progress[j].next
                              /\ x.progress[j].next <= Len(n.log.ents) + 1
                              /\ x.progress[j].match <= a[j]
  BY <1>4 DEF Tracks
<1>6. Tracks(i, a, k) /\ k.log = n.log /\ k.role = x
  BY <1>2, <1>5, TracksRole
<1> QED BY <1>3, <1>6 DEF k

\* The progress of a peer that a leader tracks.
LEMMA TracksPeer ==
  ASSUME NEW i \in Server, NEW a \in [Server -> Nat], NEW n, Tracks(i, a, n),
         NEW p \in Server \ {i}
  PROVE  LET pr == n.role.progress[p]
         IN /\ pr \in ProgressType /\ pr.match \in Nat /\ pr.next \in Nat
            /\ pr.match < pr.next /\ pr.next <= Len(n.log.ents) + 1
            /\ pr.match <= a[p]
            /\ Len(n.log.ents) \in Nat /\ n.role.read_seq \in Nat
<1>1. /\ n.role.progress[p].match < n.role.progress[p].next
      /\ n.role.progress[p].next <= Len(n.log.ents) + 1
      /\ n.role.progress[p].match <= a[p]
  BY DEF Tracks
<1>2. /\ n.role.progress \in [Server \ {i} -> ProgressType]
      /\ n.role.progress[p].match \in Nat /\ n.role.progress[p].next \in Nat
      /\ Len(n.log.ents) \in Nat /\ n.role.read_seq \in Nat
  BY TracksTypes
<1> QED BY <1>1, <1>2

\* A commit attempt and a further call.
LEMMA CommitThenWorks ==
  ASSUME SnapshotThreshold = 0,
         NEW i \in Server, NEW a \in [Server -> Nat], NEW n, Tracks(i, a, n),
         NEW q, Works(i, a, MaybeCommitAndApply(n).n, q)
  PROVE  LET c == MaybeCommitAndApply(n)
             f == Flagless(c)
         IN Works(i, a, n, Finish(IF f.n.role.kind = "Panicked" THEN f
                                  ELSE After(f.out, q), c.down))
<1> DEFINE c == MaybeCommitAndApply(n)
           f == Flagless(c)
           r == IF f.n.role.kind = "Panicked" THEN f ELSE After(f.out, q)
<1>1. Works(i, a, n, f) /\ ~c.down /\ f.n = c.n
  BY CommitWorks DEF Flagless, Done
<1> HIDE DEF c, f
<1>2. Works(i, a, f.n, q)
  BY <1>1 DEF c
<1>3. Works(i, a, n, r)
  BY <1>1, <1>2, WorksAfter
<1> HIDE DEF r
<1>4. Finish(r, c.down) = r
  BY <1>1 DEF Finish
<1> QED BY <1>3, <1>4 DEF c, f, r

\* A peer's progress moved to what it has vouched for, or back.
LEMMA AdvanceTracks ==
  ASSUME NEW i \in Server, NEW a \in [Server -> Nat], NEW n, Tracks(i, a, n),
         NEW p \in Server \ {i}, NEW match \in Nat,
         match <= Len(n.log.ents), match <= a[p]
  PROVE  LET k == WithPeer(n, p, Advance(n.role.progress[p], match))
         IN Tracks(i, a, k) /\ k.log = n.log /\ k.role.read_seq = n.role.read_seq
<1> DEFINE pr == n.role.progress[p]
           y == Advance(pr, match)
<1>1. pr \in ProgressType /\ pr.next \in Nat /\ pr.next <= Len(n.log.ents) + 1
      /\ Len(n.log.ents) \in Nat
  BY TracksPeer
<1>2. y \in ProgressType
  BY <1>1, ProgressTypes
<1>3. y.match = match /\ y.next = Max({pr.next, match + 1})
  BY <1>1 DEF Advance, ProgressType
<1> HIDE DEF pr, y
<1>4. y.match < y.next /\ y.next <= Len(n.log.ents) + 1 /\ y.match <= a[p]
  <2>1. match + 1 \in Nat
    OBVIOUS
  <2>2. /\ Max({pr.next, match + 1}) >= match + 1
        /\ Max({pr.next, match + 1}) \in {pr.next, match + 1}
    BY <1>1, <2>1, MaxOfTwo
  <2> QED BY <1>1, <1>3, <2>2
<1>9. LET k == WithPeer(n, p, y)
      IN Tracks(i, a, k) /\ k.log = n.log /\ k.role.read_seq = n.role.read_seq
  BY <1>2, <1>4, TracksProgress
<1> QED BY <1>9 DEF y, pr

\* regress_next leaves at least one entry after the match index to send.
Regressed(n, p, next) ==
  WithPeer(n, p, RegressNext(n.role.progress[p], next))

LEMMA RegressTracks ==
  ASSUME NEW i \in Server, NEW a \in [Server -> Nat], NEW n, Tracks(i, a, n),
         NEW p \in Server \ {i}, NEW next \in Nat
  PROVE  LET k == Regressed(n, p, next)
         IN Tracks(i, a, k) /\ k.log = n.log /\ k.role.read_seq = n.role.read_seq
<1> DEFINE pr == n.role.progress[p]
           y == RegressNext(pr, next)
<1>1. pr \in ProgressType /\ pr.next \in Nat /\ pr.match \in Nat
      /\ pr.next <= Len(n.log.ents) + 1 /\ pr.match < pr.next /\ pr.match <= a[p]
      /\ Len(n.log.ents) \in Nat
  BY TracksPeer
<1>2. y \in ProgressType
  BY <1>1, ProgressTypes
<1>3. \/ y = pr
      \/ next < pr.next /\ pr.next > pr.match + 1
         /\ y = [pr EXCEPT !.next = Max({next, pr.match + 1})]
  <2> HIDE DEF pr
  <2> QED BY <1>1 DEF RegressNext
<1>4. [pr EXCEPT !.next = Max({next, pr.match + 1})].match = pr.match
      /\ [pr EXCEPT !.next = Max({next, pr.match + 1})].next
           = Max({next, pr.match + 1})
  BY <1>1 DEF ProgressType
<1> HIDE DEF pr, y
<1>5. y.match < y.next /\ y.next <= Len(n.log.ents) + 1 /\ y.match <= a[p]
  <2>1. pr.match + 1 \in Nat
    BY <1>1
  <2> DEFINE x == Max({next, pr.match + 1})
  <2>2. x >= pr.match + 1 /\ x \in {next, pr.match + 1}
    BY <2>1, MaxOfTwo
  <2> HIDE DEF x
  <2>3. \/ y = pr
        \/ /\ next < pr.next /\ pr.next > pr.match + 1
           /\ y.match = pr.match /\ y.next = x
    BY <1>3, <1>4 DEF x
  <2>4. pr.match + 1 \in Nat /\ x \in Nat /\ x > pr.match
        /\ (pr.next > pr.match + 1 /\ next < pr.next => x < pr.next)
    BY <1>1, <2>2
  <2>5. CASE y = pr
    BY <1>1, <2>5
  <2>6. CASE y.match = pr.match /\ y.next = x /\ x < pr.next
    BY <1>1, <2>4, <2>6
  <2> QED BY <2>3, <2>4, <2>5, <2>6
<1>9. LET z == WithPeer(n, p, y)
      IN Tracks(i, a, z) /\ z.log = n.log /\ z.role.read_seq = n.role.read_seq
  BY <1>2, <1>5, TracksProgress
<1>10. Regressed(n, p, next) = WithPeer(n, p, y)
  BY DEF Regressed, y, pr
<1> QED BY <1>9, <1>10

\* The advance of a peer's match index, a commit attempt and a further call.
LEMMA AdvanceThenWorks ==
  ASSUME SnapshotThreshold = 0,
         NEW i \in Server, NEW a \in [Server -> Nat], NEW n, Tracks(i, a, n),
         NEW p \in Server \ {i}, NEW match \in Nat,
         match <= Len(n.log.ents), match <= a[p],
         NEW k, k = WithPeer(n, p, Advance(n.role.progress[p], match)),
         NEW q, Tracks(i, a, MaybeCommitAndApply(k).n)
                  => Works(i, a, MaybeCommitAndApply(k).n, q)
  PROVE  LET c == MaybeCommitAndApply(k)
             f == Flagless(c)
         IN Works(i, a, n, Finish(IF f.n.role.kind = "Panicked" THEN f
                                  ELSE After(f.out, q), c.down))
<1> DEFINE c == MaybeCommitAndApply(k)
           r == Finish(IF Flagless(c).n.role.kind = "Panicked" THEN Flagless(c)
                       ELSE After(Flagless(c).out, q), c.down)
<1>1. Tracks(i, a, k) /\ k.log = n.log /\ k.role.read_seq = n.role.read_seq
  BY AdvanceTracks
<1>2. Tracks(i, a, c.n)
  BY <1>1, CommitWorks DEF Works, Flagless, Done
<1>3. Works(i, a, c.n, q)
  BY <1>2
<1>4. Works(i, a, k, r)
  BY <1>1, <1>3, CommitThenWorks
<1>5. k.role.read_seq >= n.role.read_seq
  <2>1. n.role.read_seq \in Nat
    BY TracksTypes
  <2> QED BY <1>1, <2>1
<1> HIDE DEF r
<1>6. Works(i, a, n, r)
  BY <1>1, <1>4, <1>5, WorksRole
<1> QED BY <1>6 DEF r, c

\* An advance with no further append.
LEMMA AdvanceStayWorks ==
  ASSUME SnapshotThreshold = 0,
         NEW i \in Server, NEW a \in [Server -> Nat], NEW n, Tracks(i, a, n),
         NEW p \in Server \ {i}, NEW match \in Nat,
         match <= Len(n.log.ents), match <= a[p]
  PROVE  Works(i, a, n, AdvanceThen(n, p, match, Stay))
<1> DEFINE k == WithPeer(n, p, Advance(n.role.progress[p], match))
           c == MaybeCommitAndApply(k)
           q == Done(c.n, {})
           r == Finish(IF Flagless(c).n.role.kind = "Panicked" THEN Flagless(c)
                       ELSE After(Flagless(c).out, q), c.down)
<1>1. AdvanceThen(n, p, match, Stay) =
        IF match <= n.role.progress[p].match THEN Done(n, {}) ELSE r
  <2>1. Flagless(c).n = c.n
    BY DEF Flagless, Done
  <2> QED BY <2>1 DEF AdvanceThen, CommitThen, FinishCommit, Then, WithPeer, Stay
<1>2. Tracks(i, a, c.n) => Works(i, a, c.n, q)
  <2> HIDE DEF c
  <2> QED BY WorksStay
<1>3. Works(i, a, n, r)
  <2> HIDE DEF q, k
  <2>1. k = WithPeer(n, p, Advance(n.role.progress[p], match))
    BY DEF k
  <2> QED BY <1>2, <2>1, AdvanceThenWorks
<1>4. Works(i, a, n, Done(n, {}))
  BY WorksStay
<1> QED BY <1>1, <1>3, <1>4

\* An advance and a further append.
LEMMA AdvanceSendWorks ==
  ASSUME SnapshotThreshold = 0,
         NEW i \in Server, NEW a \in [Server -> Nat], NEW n, Tracks(i, a, n),
         NEW p \in Server \ {i}, NEW match \in Nat,
         match <= Len(n.log.ents), match <= a[p]
  PROVE  Works(i, a, n, AdvanceAndSend(n, p, match))
<1> DEFINE no == FALSE
           k == WithPeer(n, p, Advance(n.role.progress[p], match))
           c == MaybeCommitAndApply(k)
           q == SendTo(c.n, p, no)
           r == Finish(IF Flagless(c).n.role.kind = "Panicked" THEN Flagless(c)
                       ELSE After(Flagless(c).out, q), c.down)
<1>1. AdvanceAndSend(n, p, match) =
        IF match <= n.role.progress[p].match THEN SendTo(n, p, no) ELSE r
  <2>1. Flagless(c).n = c.n
    BY DEF Flagless, Done
  <2> QED BY <2>1
          DEF AdvanceAndSend, AdvanceThen, CommitThen, FinishCommit, Then,
              WithPeer
<1>2. no \in BOOLEAN
  OBVIOUS
<1> HIDE DEF no
<1>3. Tracks(i, a, c.n) => Works(i, a, c.n, q)
  <2> HIDE DEF c
  <2> QED BY <1>2, SendToWorks
<1>4. Works(i, a, n, r)
  <2> HIDE DEF q, k
  <2>1. k = WithPeer(n, p, Advance(n.role.progress[p], match))
    BY DEF k
  <2> QED BY <1>3, <2>1, AdvanceThenWorks
<1>5. Works(i, a, n, SendTo(n, p, no))
  BY <1>2, SendToWorks
<1> QED BY <1>1, <1>4, <1>5

\* Advance of one peer's read sequence number.
LEMMA AdvanceReadWorks ==
  ASSUME NEW i \in Server, NEW a \in [Server -> Nat], NEW n, Tracks(i, a, n),
         NEW p \in Server \ {i}, NEW seq \in Nat
  PROVE  /\ Works(i, a, n, AdvanceRead(n, p, seq))
         /\ AdvanceRead(n, p, seq).n.log = n.log
<1> DEFINE x == [n.role.progress[p] EXCEPT !.read = seq]
           k == WithPeer(n, p, x)
<1>1. /\ n.role.progress[p] \in ProgressType
      /\ n.role.progress[p].match < n.role.progress[p].next
      /\ n.role.progress[p].next <= Len(n.log.ents) + 1
      /\ n.role.progress[p].match <= a[p]
      /\ n.role.read_seq \in Nat
  BY TracksPeer
<1>2. x \in ProgressType /\ x.match = n.role.progress[p].match
      /\ x.next = n.role.progress[p].next
  BY <1>1 DEF ProgressType
<1>3. AdvanceRead(n, p, seq) \in {Done(n, {}), MaybeRead(k)}
  BY DEF AdvanceRead, WithPeer
<1> HIDE DEF x, k
<1>4. Tracks(i, a, k) /\ k.log = n.log /\ k.role.read_seq = n.role.read_seq
  <2>1. x.match < x.next /\ x.next <= Len(n.log.ents) + 1 /\ x.match <= a[p]
    BY <1>1, <1>2
  <2> QED BY <1>2, <2>1, TracksProgress DEF k
<1>5. Works(i, a, k, MaybeRead(k)) /\ MaybeRead(k).n.log = k.log
  BY <1>4, MaybeReadWorks
<1>6. Works(i, a, n, MaybeRead(k))
  <2>1. k.role.read_seq >= n.role.read_seq
    BY <1>1, <1>4
  <2> HIDE DEF x
  <2> QED BY <1>4, <1>5, <2>1, WorksRole
<1>7. Works(i, a, n, Done(n, {})) /\ Done(n, {}).n = n
  BY WorksStay DEF Done
<1> QED BY <1>3, <1>4, <1>5, <1>6, <1>7

\* HeartbeatResponse: reads advance, then the match index, or a probe is sent.
LEMMA LeaderHeartbeatResponseWorks ==
  ASSUME SnapshotThreshold = 0,
         NEW i \in Server, NEW a \in [Server -> Nat], NEW n, Tracks(i, a, n),
         NEW m \in Mail(i), m.message.type = "HeartbeatResponse",
         m.from \in Server \ {i},
         m.message.match_index <= Len(n.log.ents),
         m.message.match_index <= a[m.from],
         m.message.read_seq <= n.role.read_seq
  PROVE  Works(i, a, n, LeaderHeartbeatResponse(n, m))
<1> DEFINE yes == TRUE
           h == m.message
           p == m.from
           read == AdvanceRead(n, p, h.read_seq)
           k == WithPeer(read.n, p, RegressNext(read.n.role.progress[p],
                                                LastIndex(n.log)))
           q == SendTo(k, p, yes)
           s == AdvanceThen(read.n, p, h.match_index, Stay)
<1>1. h \in StaticMessage
  BY DEF Mail
<1>2. h.match_index \in Nat /\ h.read_seq \in Nat
  BY <1>1, MessageFields
<1>3. LastIndex(n.log) = Len(n.log.ents) /\ Len(n.log.ents) \in Nat
      /\ n \in StaticNode(i)
  BY TracksTypes, SoundLog
<1>4. LeaderHeartbeatResponse(n, m) \in
        {IF read.n.role.kind = "Panicked" THEN read ELSE After(read.out, q),
         IF read.n.role.kind = "Panicked" THEN read ELSE After(read.out, s)}
  BY <1>2, <1>3 DEF LeaderHeartbeatResponse, Then, WithPeer
<1>5. Works(i, a, n, read) /\ read.n.log = n.log
  BY <1>2, AdvanceReadWorks
<1> HIDE DEF read
<1>6. Tracks(i, a, read.n)
  BY <1>5 DEF Works
<1>7. Works(i, a, read.n, q)
  <2>1. Tracks(i, a, k) /\ k.log = read.n.log
        /\ k.role.read_seq = read.n.role.read_seq
    <3> DEFINE last == LastIndex(n.log)
               z == read.n
    <3>1. last \in Nat
      BY <1>3
    <3>2. k = Regressed(z, p, last)
      BY DEF Regressed
    <3>3. p \in Server \ {i} /\ Tracks(i, a, z)
      BY <1>6
    <3> HIDE DEF last, k, z, p
    <3>4. LET y == Regressed(z, p, last)
          IN Tracks(i, a, y) /\ y.log = z.log /\ y.role.read_seq = z.role.read_seq
      BY <3>1, <3>3, RegressTracks
    <3>5. Tracks(i, a, k) /\ k.log = z.log /\ k.role.read_seq = z.role.read_seq
      BY <3>2, <3>4
    <3> QED BY <3>5 DEF z
  <2> HIDE DEF k
  <2>2. yes \in BOOLEAN
    OBVIOUS
  <2> HIDE DEF yes
  <2>3. Works(i, a, k, q)
    BY <2>1, <2>2, SendToWorks
  <2>4. k.role.read_seq >= read.n.role.read_seq
    <3>1. read.n.role.read_seq \in Nat
      BY <1>6, TracksTypes
    <3> QED BY <2>1, <3>1
  <2> HIDE DEF q
  <2> QED BY <1>6, <2>1, <2>3, <2>4, WorksRole
<1>8. Works(i, a, read.n, s)
  <2>1. h.match_index <= Len(read.n.log.ents)
    BY <1>5
  <2> QED BY <1>2, <1>6, <2>1, AdvanceStayWorks
<1> HIDE DEF q, s
<1>9. Works(i, a, n, IF read.n.role.kind = "Panicked" THEN read
                     ELSE After(read.out, q))
  BY <1>5, <1>7, WorksAfter
<1>10. Works(i, a, n, IF read.n.role.kind = "Panicked" THEN read
                      ELSE After(read.out, s))
  BY <1>5, <1>8, WorksAfter
<1> QED BY <1>4, <1>9, <1>10

\* AppendResponse, accepted or rejected.
LEMMA LeaderAppendResponseWorks ==
  ASSUME SnapshotThreshold = 0,
         NEW i \in Server, NEW a \in [Server -> Nat], NEW n, Tracks(i, a, n),
         NEW m \in Mail(i), m.message.type = "AppendResponse",
         m.from \in Server \ {i},
         m.message.match_index <= Len(n.log.ents),
         m.message.match_index <= a[m.from],
         m.message.reject_index <= Len(n.log.ents),
         (m.message.match_index > 0) # (m.message.reject_index > 0)
  PROVE  Works(i, a, n, LeaderAppendResponse(n, m))
<1> DEFINE yes == TRUE
           x == m.message
           p == m.from
           pr == n.role.progress[p]
           back == RegressNext(pr, x.reject_index)
           s == AdvanceAndSend(n, p, x.match_index)
           k == WithPeer(n, p, back)
           q == SendTo(k, p, yes)
<1>1. x \in StaticMessage
  BY DEF Mail
<1>2. x.match_index \in Nat /\ x.reject_index \in Nat
  BY <1>1, MessageFields
<1>3. LastIndex(n.log) = Len(n.log.ents) /\ Len(n.log.ents) \in Nat
      /\ n.role.read_seq \in Nat
  BY TracksTypes, SoundLog
<1>4. LeaderAppendResponse(n, m) \in {s, Done(n, {}), q}
  <2> DEFINE R == LeaderAppendResponse(n, m)
  <2>1. CASE x.match_index > 0
    <3>1. x.reject_index = 0 /\ ~(x.match_index = 0 /\ x.reject_index > 0)
      BY <1>2, <2>1
    <3>2. R = s
      BY <1>3, <2>1, <3>1 DEF LeaderAppendResponse
    <3> HIDE DEF s, q, R
    <3> QED BY <3>2 DEF R
  <2>2. CASE ~(x.match_index > 0)
    <3>1. x.match_index = 0 /\ x.reject_index > 0
          /\ ~(x.match_index > 0 /\ x.reject_index = 0)
      BY <1>2, <2>2
    <3>2. R = IF x.reject_index <= pr.match \/ back = pr THEN Done(n, {})
              ELSE SendTo([n EXCEPT !.role.progress[p] = back], p, yes)
      <4>1. ~(x.reject_index > LastIndex(n.log))
        BY <1>2, <1>3
      <4> QED BY <3>1, <4>1 DEF LeaderAppendResponse
    <3>3. k = [n EXCEPT !.role.progress[p] = back]
      BY DEF WithPeer
    <3>4. q = SendTo([n EXCEPT !.role.progress[p] = back], p, yes)
      BY <3>3
    <3> HIDE DEF s, q, R, k, back
    <3> QED BY <3>2, <3>4 DEF R
  <2> QED BY <2>1, <2>2
<1>5. Works(i, a, n, s)
  BY <1>2, AdvanceSendWorks
<1>6. Works(i, a, n, q)
  <2>1. Tracks(i, a, k) /\ k.log = n.log /\ k.role.read_seq = n.role.read_seq
    <3> DEFINE back_to == x.reject_index
    <3>1. k = Regressed(n, p, back_to)
      BY DEF Regressed
    <3>2. p \in Server \ {i} /\ back_to \in Nat
      BY <1>2
    <3> HIDE DEF k, p, back_to
    <3>3. LET z == Regressed(n, p, back_to)
          IN Tracks(i, a, z) /\ z.log = n.log /\ z.role.read_seq = n.role.read_seq
      BY <3>2, RegressTracks
    <3> QED BY <3>1, <3>3
  <2> HIDE DEF k
  <2>2. yes \in BOOLEAN
    OBVIOUS
  <2> HIDE DEF yes
  <2>3. Works(i, a, k, q)
    BY <2>1, <2>2, SendToWorks
  <2>4. k.role.read_seq >= n.role.read_seq
    BY <1>3, <2>1
  <2> HIDE DEF q
  <2> QED BY <2>1, <2>3, <2>4, WorksRole
<1> HIDE DEF s, q
<1>7. Works(i, a, n, Done(n, {}))
  BY WorksStay
<1> QED BY <1>4, <1>5, <1>6, <1>7

\* CommitIfAlone: at most a commit attempt.
LEMMA CommitIfAloneWorks ==
  ASSUME SnapshotThreshold = 0,
         NEW i \in Server, NEW a \in [Server -> Nat], NEW n, Tracks(i, a, n)
  PROVE  Works(i, a, n, CommitIfAlone(n))
<1> DEFINE c == MaybeCommitAndApply(n)
           q == Done(c.n, {})
           r == Finish(IF Flagless(c).n.role.kind = "Panicked" THEN Flagless(c)
                       ELSE After(Flagless(c).out, q), c.down)
<1>1. CommitIfAlone(n) = IF ClusterSize(n) = 1 THEN r ELSE Done(n, {})
  <2>1. Flagless(c).n = c.n
    BY DEF Flagless, Done
  <2> QED BY <2>1 DEF CommitIfAlone, CommitThen, FinishCommit, Then, Stay
<1>2. Tracks(i, a, c.n)
  BY CommitWorks DEF Works, Flagless, Done
<1>3. Works(i, a, c.n, q)
  <2> HIDE DEF c
  <2> QED BY <1>2, WorksStay
<1>4. Works(i, a, n, r)
  <2> HIDE DEF q
  <2> QED BY <1>3, CommitThenWorks
<1>5. Works(i, a, n, Done(n, {}))
  BY WorksStay
<1> QED BY <1>1, <1>4, <1>5

\* A leader with other queues of clients and a later read number.
LEMMA TracksQueues ==
  ASSUME NEW i \in Server, NEW a \in [Server -> Nat], NEW n, Tracks(i, a, n),
         NEW x \in Lead(i), x.progress = n.role.progress
  PROVE  LET k == [n EXCEPT !.role = x]
         IN Tracks(i, a, k) /\ k.log = n.log /\ k.role = x
<1>1. \A p \in Server \ {i} : /\ x.progress[p].match < x.progress[p].next
                              /\ x.progress[p].next <= Len(n.log.ents) + 1
                              /\ x.progress[p].match <= a[p]
  BY DEF Tracks
<1> QED BY <1>1, TracksRole

\* Write: the entry is proposed and its client queued.
LEMMA LeaderWriteWorks ==
  ASSUME SnapshotThreshold = 0,
         NEW i \in Server, NEW a \in [Server -> Nat], NEW n, Tracks(i, a, n),
         NEW m \in Mail(i), m.message.type = "ClientRequest"
  PROVE  Works(i, a, n, LeaderWrite(n, m))
<1> DEFINE id == m.message.request.id
           w == [index |-> LastIndex(n.log) + 1, from |-> m.from, id |-> id]
           p == Propose(n, id)
           W == p.n.role.writes \cup {w}
           y == [p.n.role EXCEPT !.writes = W]
           k == [p.n EXCEPT !.role = y]
           q == CommitIfAlone(k)
<1>1. m.message \in StaticMessage /\ m.from \in Server /\ n \in StaticNode(i)
  BY TracksTypes DEF Mail
<1>2. id \in Ids
  BY <1>1, MessageFields
<1>3. id \in Cmd
  BY <1>2 DEF Cmd
<1>4. w \in WriteType(Ids)
  <2>1. LastIndex(n.log) \in Nat
    BY <1>1, FieldTypes, IndexTypes
  <2> QED BY <1>1, <1>2, <2>1 DEF WriteType
<1>5. LeaderWrite(n, m) =
        IF p.n.role.kind = "Panicked" THEN p ELSE After(p.out, q)
  BY DEF LeaderWrite, Then
<1>6. Works(i, a, n, p)
  <2> HIDE DEF id
  <2> QED BY <1>3, ProposeWorks
<1> HIDE DEF p, w
<1>7. Tracks(i, a, p.n) /\ p.n.role.read_seq \in Nat
  <2>1. Tracks(i, a, p.n)
    BY <1>6 DEF Works
  <2> QED BY <2>1, TracksTypes
<1>8. W \in SUBSET WriteType(Ids)
  BY <1>4, <1>7, TracksTypes, LeadTypes
<1> HIDE DEF W
<1>9. y \in Lead(i) /\ y.progress = p.n.role.progress
      /\ y.read_seq = p.n.role.read_seq
  <2>1. p.n.role \in Lead(i)
    BY <1>7, TracksTypes, LeadTypes
  <2> QED BY <1>8, <2>1 DEF Lead, LeaderType
<1> HIDE DEF y
<1>10. Tracks(i, a, k) /\ k.log = p.n.log /\ k.role = y
  BY <1>7, <1>9, TracksQueues
<1> HIDE DEF k
<1>11. Works(i, a, k, q)
  BY <1>10, CommitIfAloneWorks
<1> HIDE DEF q
<1>12. Works(i, a, p.n, q)
  <2>1. k.role.read_seq >= p.n.role.read_seq
    BY <1>7, <1>9, <1>10
  <2> QED BY <1>7, <1>10, <1>11, <2>1, WorksRole
<1>13. Works(i, a, n, IF p.n.role.kind = "Panicked" THEN p ELSE After(p.out, q))
  BY <1>6, <1>12, WorksAfter
<1> QED BY <1>5, <1>13

\* Read: a sequence number is taken and announced.
LEMMA LeaderReadWorks ==
  ASSUME NEW i \in Server, NEW a \in [Server -> Nat], NEW n, Tracks(i, a, n),
         NEW m \in Mail(i), m.message.type = "ClientRequest"
  PROVE  Works(i, a, n, LeaderRead(n, m))
<1> DEFINE id == m.message.request.id
           seq == n.role.read_seq + 1
           R == n.role.reads \cup {[seq |-> seq, from |-> m.from, id |-> id]}
           y == [n.role EXCEPT !.read_seq = seq, !.reads = R]
           k == [n EXCEPT !.role = y]
           msg == [type |-> "Read", seq |-> seq]
           out == Broadcast(k, msg)
<1>1. m.message \in StaticMessage /\ m.from \in Server /\ n \in StaticNode(i)
      /\ n.role.kind = "Leader"
  BY TracksTypes DEF Mail
<1>2. id \in Ids
  BY <1>1, MessageFields
<1>3. seq \in Nat /\ seq >= n.role.read_seq
  <2>1. n.role.read_seq \in Nat
    BY TracksTypes
  <2> QED BY <2>1
<1>4. LeaderRead(n, m) = IF ClusterSize(n) = 1 THEN After(out, MaybeRead(k))
                         ELSE Done(k, out)
  <2> DEFINE z == [n EXCEPT !.role.read_seq = seq, !.role.reads = R]
  <2>1. k = z
    OBVIOUS
  <2>2. LeaderRead(n, m) =
          IF ClusterSize(n) = 1 THEN After(Broadcast(z, msg), MaybeRead(z))
          ELSE Done(z, Broadcast(z, msg))
    BY DEF LeaderRead
  <2> HIDE DEF z, k
  <2> QED BY <2>1, <2>2
<1> HIDE DEF seq
<1>5. R \in SUBSET ReadType(Ids)
  <2> HIDE DEF id
  <2>1. [seq |-> seq, from |-> m.from, id |-> id] \in ReadType(Ids)
    BY <1>1, <1>2, <1>3 DEF ReadType
  <2> QED BY <1>1, <2>1, LeadTypes
<1> HIDE DEF R
<1>6. y \in Lead(i) /\ y.progress = n.role.progress /\ y.read_seq = seq
  BY <1>1, <1>3, <1>5, LeadTypes DEF Lead, LeaderType
<1> HIDE DEF y
<1>7. Tracks(i, a, k) /\ k.log = n.log /\ k.role = y
  BY <1>6, TracksQueues
<1> HIDE DEF k
<1>8. k \in StaticNode(i)
  BY <1>7, TracksTypes
<1>9. out \in SUBSET StaticEnv(i) /\ Quiet(out) /\ Plain(out)
  <2>1. msg \in StaticMessage /\ msg.type # "CampaignResponse" /\ msg.type = "Read"
    BY <1>3 DEF StaticMessage
  <2> HIDE DEF msg
  <2>2. \A e \in out : e.message = msg
    BY DEF Broadcast, Env
  <2> QED BY <1>8, <2>1, <2>2, BroadcastType DEF Plain
<1> HIDE DEF out
<1>10. Works(i, a, n, Done(k, out)) /\ Done(k, out).n = k
  <2>1. Reports(n.log.term, n.log.ents, n.log.commit, k.role.read_seq, out)
    BY <1>9, PlainReports
  <2>2. k.role.read_seq >= n.role.read_seq
    BY <1>3, <1>6, <1>7
  <2> QED BY <1>7, <1>9, <2>1, <2>2, WorksDone
<1>11. Works(i, a, n, After(out, MaybeRead(k)))
  <2> DEFINE r == MaybeRead(k)
             d == Done(k, out)
  <2>1. Works(i, a, k, r)
    BY <1>7, MaybeReadWorks
  <2> HIDE DEF r
  <2>2. d.n = k /\ d.out = out
    BY DEF Done
  <2> HIDE DEF d
  <2>3. Works(i, a, n, d) /\ Works(i, a, d.n, r)
    BY <1>10, <2>1, <2>2 DEF d
  <2>4. Works(i, a, n, After(d.out, r))
    BY <2>3, WorksAfter
  <2> QED BY <2>2, <2>4 DEF r
<1> QED BY <1>4, <1>10, <1>11

\* Something plain sent, and nothing changed.
LEMMA WorksPlain ==
  ASSUME NEW i \in Server, NEW a \in [Server -> Nat], NEW n, Tracks(i, a, n),
         NEW e \in StaticEnv(i), ~Granted(e), Plain({e})
  PROVE  Works(i, a, n, Done(n, {e}))
<1>1. {e} \in SUBSET StaticEnv(i) /\ Quiet({e})
  BY DEF Quiet
<1>2. n.role.read_seq >= n.role.read_seq
  <2>1. n.role.read_seq \in Nat
    BY TracksTypes
  <2> QED BY <2>1
<1> QED BY <1>1, <1>2, PlainReports, WorksDone

\* Write, Read and Status; no client asks for another configuration.
LEMMA LeaderClientRequestWorks ==
  ASSUME SnapshotThreshold = 0,
         NEW i \in Server, NEW a \in [Server -> Nat], NEW n, Tracks(i, a, n),
         NEW m \in Mail(i), m.message.type = "ClientRequest", StaticMembership
  PROVE  Works(i, a, n, LeaderClientRequest(n, m))
<1> DEFINE op == m.message.request.op
<1>1. m.message \in StaticMessage /\ m.from \in Server /\ n \in StaticNode(i)
  BY TracksTypes DEF Mail
<1>2. m.message.request \in Requests /\ m.message.request.id \in Ids
  BY <1>1, MessageFields
<1>3. op \in {"Write", "Read", "Status"}
  BY <1>2, ClusterAssumption DEF StaticMembership
<1>4. CASE op = "Write"
  <2>1. LeaderClientRequest(n, m) = LeaderWrite(n, m)
    BY <1>4 DEF LeaderClientRequest
  <2> QED BY <2>1, LeaderWriteWorks
<1>5. CASE op = "Read"
  <2>1. LeaderClientRequest(n, m) = LeaderRead(n, m)
    BY <1>5 DEF LeaderClientRequest
  <2> QED BY <2>1, LeaderReadWorks
<1>6. CASE op = "Status"
  <2> DEFINE e == Reply(n, m.from, m.message.request.id, "Ok", <<>>)
  <2>1. LeaderClientRequest(n, m) = Done(n, {e})
    BY <1>6 DEF LeaderClientRequest, LeaderStatus
  <2>2. "Ok" \in {"Ok", "Abort", "Invalid"} /\ <<>> \in Seq(Cmd)
    BY EmptySeq
  <2>3. e \in StaticEnv(i) /\ ~Granted(e)
    BY <1>1, <1>2, <2>2, ReplyType, Zenon
  <2>4. Plain({e})
    BY DEF Plain, Reply, Env
  <2> HIDE DEF e
  <2> QED BY <2>1, <2>3, <2>4, WorksPlain
<1> QED BY <1>3, <1>4, <1>5, <1>6

\* What an answer from a peer says is what that peer vouched for, and nothing
\* that the leader n has not sent.
HeardBy(a, n, m) ==
  /\ m.message.type = "HeartbeatResponse" =>
       /\ m.message.match_index <= Len(n.log.ents)
       /\ m.message.match_index <= a[m.from]
       /\ m.message.read_seq <= n.role.read_seq
  /\ m.message.type = "AppendResponse" =>
       /\ m.message.match_index <= Len(n.log.ents)
       /\ m.message.match_index <= a[m.from]
       /\ m.message.reject_index <= Len(n.log.ents)
       /\ (m.message.match_index > 0) # (m.message.reject_index > 0)
  /\ m.message.type # "InstallSnapshotResponse"

\* Leader::step works; a client's answer that comes to a leader is not expected.
LEMMA LeaderStepWorks ==
  ASSUME SnapshotThreshold = 0,
         NEW i \in Server, NEW a \in [Server -> Nat], NEW n, Tracks(i, a, n),
         NEW m \in Mail(i), m.message.type \notin PreVoteTypes, HeardBy(a, n, m),
         StaticMembership
  PROVE  \/ Works(i, a, n, LeaderStep(n, m))
         \/ LeaderStep(n, m) = Panic(n, "unexpected message")
<1> DEFINE t == m.message.type
           r == LeaderStep(n, m)
           no == [type |-> "CampaignResponse", vote |-> FALSE]
           e == Env(n, m.from, no)
<1>1. m.from \in Server /\ m.message \in StaticMessage /\ n \in StaticNode(i)
  BY TracksTypes DEF Mail
<1>2. DOMAIN n.role.progress = Server \ {i}
  BY TracksTypes
<1>3. CASE t = "ClientRequest"
  <2>1. r = LeaderClientRequest(n, m)
    BY <1>3 DEF LeaderStep, PeerAnswers
  <2> QED BY <1>3, <2>1, LeaderClientRequestWorks
<1>4. CASE t = "Campaign"
  <2>1. r = Done(n, {e})
    BY <1>4 DEF LeaderStep, PeerAnswers
  <2>2. no \in StaticMessage /\ ~no.vote /\ no.type = "CampaignResponse"
    BY DEF StaticMessage
  <2> HIDE DEF no
  <2>3. e \in StaticEnv(i) /\ e.message = no
    BY <1>1, <2>2, EnvType
  <2>4. ~Granted(e) /\ Plain({e})
    BY <2>2, <2>3 DEF Granted, Plain
  <2> HIDE DEF e
  <2> QED BY <2>1, <2>3, <2>4, WorksPlain
<1>5. CASE t \in {"CampaignResponse", "Heartbeat", "Append", "Read",
                  "InstallSnapshot"}
  <2>1. r = Done(n, {})
    BY <1>5 DEF LeaderStep, PeerAnswers
  <2> QED BY <2>1, WorksStay
<1>6. CASE t = "ClientResponse"
  BY <1>6 DEF LeaderStep, PeerAnswers
<1>7. CASE t \in PeerAnswers /\ m.from = i
  <2>1. r = Done(n, {})
    BY <1>2, <1>7 DEF LeaderStep, PeerAnswers
  <2> QED BY <2>1, WorksStay
<1>8. CASE t \in PeerAnswers /\ m.from # i
  <2>1. m.from \in Server \ {i} /\ m.from \in DOMAIN n.role.progress
    BY <1>1, <1>2, <1>8
  <2>2. CASE t = "HeartbeatResponse"
    <3>1. r = LeaderHeartbeatResponse(n, m)
      BY <2>1, <2>2 DEF LeaderStep, PeerAnswers
    <3>2. /\ m.message.match_index <= Len(n.log.ents)
          /\ m.message.match_index <= a[m.from]
          /\ m.message.read_seq <= n.role.read_seq
      BY <2>2 DEF HeardBy
    <3>3. Works(i, a, n, LeaderHeartbeatResponse(n, m))
      BY <2>1, <2>2, <3>2, LeaderHeartbeatResponseWorks
    <3> QED BY <3>1, <3>3
  <2>3. CASE t = "AppendResponse"
    <3>1. r = LeaderAppendResponse(n, m)
      BY <2>1, <2>3 DEF LeaderStep, PeerAnswers
    <3>2. /\ m.message.match_index <= Len(n.log.ents)
          /\ m.message.match_index <= a[m.from]
          /\ m.message.reject_index <= Len(n.log.ents)
          /\ (m.message.match_index > 0) # (m.message.reject_index > 0)
      BY <2>3 DEF HeardBy
    <3>3. Works(i, a, n, LeaderAppendResponse(n, m))
      BY <2>1, <2>3, <3>2, LeaderAppendResponseWorks
    <3> QED BY <3>1, <3>3
  <2>4. CASE t = "ReadResponse"
    <3>1. r = AdvanceRead(n, m.from, m.message.seq)
      BY <2>1, <2>4 DEF LeaderStep, PeerAnswers, LeaderReadResponse
    <3>2. m.message.seq \in Nat
      BY <1>1, <2>4, MessageFields
    <3>3. Works(i, a, n, AdvanceRead(n, m.from, m.message.seq))
      BY <2>1, <3>2, AdvanceReadWorks
    <3> QED BY <3>1, <3>3
  <2> QED BY <1>8, <2>2, <2>3, <2>4 DEF PeerAnswers, HeardBy
<1>9. t \in {"Campaign", "CampaignResponse", "Heartbeat", "HeartbeatResponse",
             "Append", "AppendResponse", "Read", "ReadResponse",
             "InstallSnapshot", "InstallSnapshotResponse",
             "ClientRequest", "ClientResponse"}
  BY <1>1, MessageKinds DEF PreVoteTypes
<1> HIDE DEF r
<1> QED BY <1>3, <1>4, <1>5, <1>6, <1>7, <1>8, <1>9 DEF PeerAnswers

-----------------------------------------------------------------------------
(* Governs: the call of a node that leads, or begins to.                   *)

\* A leader's call, or one that wins the election of a term the node has not
\* led: entries are appended, an entry of the term that a majority vouched for
\* is committed, and what is sent is true of the log afterwards.  s is the
\* highest number of a read that the leader has announced.
Governs(i, a, s, n, r) ==
  /\ r \in Outcome(i) /\ Sound(r.n)
  /\ Longer(n.log.ents, r.n.log.ents, r.n.log.term)
  /\ r.n.log.commit <= n.log.commit \/ Agreed(i, a, r.n)
  /\ Reports(r.n.log.term, r.n.log.ents, r.n.log.commit, s, r.out)
  /\ r.n.role.kind # "Candidate"
  /\ r.n.role.kind = "Leader" =>
       Tracks(i, a, r.n) /\ Current(r.n) /\ r.n.role.read_seq = s
  /\ r.n.role.kind = "Panicked" => r.n.role.why \in Unexpected
  /\ \/ /\ n.role.kind = "Leader" /\ SameBallot(n.log, r.n.log)
        /\ s >= n.role.read_seq
     \/ /\ r.n.role.kind = "Leader" /\ r.n.log.vote = i
        /\ \/ Elective(n) /\ r.n.log.term = n.log.term
           \/ r.n.log.term > n.log.term

\* A leader at work governs.
LEMMA WorksGoverns ==
  ASSUME NEW i \in Server, NEW a \in [Server -> Nat], NEW n, Tracks(i, a, n),
         Current(n), NEW r, Works(i, a, n, r)
  PROVE  Governs(i, a, r.n.role.read_seq, n, r)
<1>1. r \in Outcome(i) /\ SameBallot(n.log, r.n.log) /\ Tracks(i, a, r.n)
  BY DEF Works, Leading, Keeps
<1>2. Current(r.n)
  BY CurrentStays
<1>3. /\ n.role.kind = "Leader" /\ r.n.role.kind = "Leader" /\ Sound(r.n)
      /\ n.log.commit \in Nat
  BY <1>1, TracksTypes
<1>4. Longer(n.log.ents, r.n.log.ents, r.n.log.term)
  BY <1>1 DEF Works, SameBallot
<1>5. r.n.log.commit <= n.log.commit \/ Agreed(i, a, r.n)
  BY <1>3 DEF Works
<1>6. /\ Reports(r.n.log.term, r.n.log.ents, r.n.log.commit, r.n.role.read_seq, r.out)
      /\ r.n.role.read_seq >= n.role.read_seq
  BY DEF Works
<1> QED BY <1>1, <1>2, <1>3, <1>4, <1>5, <1>6 DEF Governs

\* A panic leaves the log, and all but the role, as it was.
LEMMA PanicSound ==
  ASSUME NEW i \in Server, NEW n \in StaticNode(i), Sound(n),
         NEW why \in Unexpected
  PROVE  LET r == Panic(n, why)
         IN /\ r \in Outcome(i) /\ Sound(r.n) /\ r.n.log = n.log /\ r.out = {}
            /\ r.n.role.kind = "Panicked" /\ r.n.role.why = why
<1> DEFINE x == [kind |-> "Panicked", why |-> why]
<1>1. why \in Reasons
  BY DEF Reasons, Unexpected
<1>2. x \in Role(i)
  BY <1>1 DEF Role, PanickedType
<1>3. x.kind = "Panicked" /\ x.why = why
  OBVIOUS
<1> HIDE DEF x
<1>4. /\ [n EXCEPT !.role = x] \in StaticNode(i)
      /\ [n EXCEPT !.role = x].log = n.log
      /\ [n EXCEPT !.role = x].role = x
      /\ [n EXCEPT !.role = x].sm = n.sm
  BY <1>2, SetRole
<1>5. Panic(n, why) = Done([n EXCEPT !.role = x], {})
  BY DEF Panic, x
<1> DEFINE k == [n EXCEPT !.role = x]
<1> HIDE DEF k
<1>6. Panic(n, why).n = k /\ Panic(n, why).out = {} /\ Panic(n, why) \in Outcome(i)
  BY <1>4, <1>5 DEF Done, Outcome, k
<1> QED BY <1>3, <1>4, <1>6 DEF Sound, k

\* So a leader that panics is one that stopped governing.
LEMMA PanicGoverns ==
  ASSUME NEW i \in Server, NEW a \in [Server -> Nat], NEW n, Tracks(i, a, n),
         NEW why \in Unexpected
  PROVE  Governs(i, a, n.role.read_seq, n, Panic(n, why))
<1> DEFINE r == Panic(n, why)
<1>1. /\ n \in StaticNode(i) /\ n.role.kind = "Leader" /\ Sound(n)
      /\ Len(n.log.ents) \in Nat /\ n.log.commit \in Nat /\ n.role.read_seq \in Nat
  BY TracksTypes
<1>2. /\ r \in Outcome(i) /\ Sound(r.n) /\ r.n.log = n.log /\ r.out = {}
      /\ r.n.role.kind = "Panicked" /\ r.n.role.why = why
  BY <1>1, PanicSound
<1> HIDE DEF r
<1>3. Longer(n.log.ents, n.log.ents, n.log.term)
  BY <1>1, SameToSelf
<1>4. Reports(r.n.log.term, r.n.log.ents, r.n.log.commit, n.role.read_seq, r.out)
  BY <1>2 DEF Reports
<1>5. SameBallot(n.log, r.n.log) /\ n.role.read_seq >= n.role.read_seq
      /\ r.n.log.commit <= n.log.commit
  BY <1>1, <1>2 DEF SameBallot
<1>6. Governs(i, a, n.role.read_seq, n, r)
  BY <1>1, <1>2, <1>3, <1>4, <1>5 DEF Governs
<1> QED BY <1>6 DEF r

\* Leader::step
LEMMA LeaderStepGoverns ==
  ASSUME SnapshotThreshold = 0,
         NEW i \in Server, NEW a \in [Server -> Nat], NEW n, Tracks(i, a, n),
         Current(n),
         NEW m \in Mail(i), m.message.type \notin PreVoteTypes, HeardBy(a, n, m),
         StaticMembership
  PROVE  \E s \in Nat : Governs(i, a, s, n, LeaderStep(n, m))
<1> DEFINE r == LeaderStep(n, m)
<1>1. CASE Works(i, a, n, r)
  <2> HIDE DEF r
  <2>1. Governs(i, a, r.n.role.read_seq, n, r)
    BY <1>1, WorksGoverns
  <2>2. Tracks(i, a, r.n)
    BY <1>1 DEF Works
  <2>3. r.n.role.read_seq \in Nat
    BY <2>2, TracksTypes
  <2> QED BY <2>1, <2>3 DEF r
<1>2. CASE r = Panic(n, "unexpected message")
  <2>1. n.role.read_seq \in Nat
    BY TracksTypes
  <2>2. "unexpected message" \in Unexpected
    BY DEF Unexpected
  <2>3. Governs(i, a, n.role.read_seq, n, r)
    BY <1>2, <2>2, PanicGoverns
  <2> QED BY <2>1, <2>3
<1> QED BY <1>1, <1>2, LeaderStepWorks

\* A leader that steps down aborts its clients and keeps its log.
LEMMA StepDownSound ==
  ASSUME NEW i \in Server, NEW n \in StaticNode(i), n.role.kind = "Leader",
         Sound(n)
  PROVE  LET r == StepDown(n)
         IN /\ r \in Outcome(i) /\ Sound(r.n) /\ r.n.log = n.log
            /\ Plain(r.out) /\ r.n.role.kind = "Follower"
<1> DEFINE x == Follower(Nil)
           k == [n EXCEPT !.role = x]
<1>1. x \in Role(i) /\ x.kind = "Follower"
  BY RoleTypes
<1> HIDE DEF x
<1>2. k \in StaticNode(i) /\ k.log = n.log /\ k.role = x /\ k.sm = n.sm
  BY <1>1, SetRole
<1>3. StepDown(n) = Done(k, AbortClients(n))
  BY DEF StepDown, x
<1> HIDE DEF k
<1>4. Plain(AbortClients(n))
  BY DEF Plain, AbortClients, Abort, Reply, Env
<1>5. StepDown(n).n = k /\ StepDown(n).out = AbortClients(n)
  BY <1>3 DEF Done
<1>6. StepDown(n) \in Outcome(i)
  BY StepDownType DEF Keeps
<1> QED BY <1>1, <1>2, <1>4, <1>5, <1>6 DEF Sound

\* What is reported stays so when more is sent that says nothing of logs.
LEMMA ReportsBoth ==
  ASSUME NEW t, NEW l, NEW c, NEW s, NEW A, NEW B,
         Reports(t, l, c, s, A), Reports(t, l, c, s, B)
  PROVE  Reports(t, l, c, s, A \cup B)
BY DEF Reports

\* Node::tick of a leader: a heartbeat, or the way back to follower.
LEMMA LeaderTickGoverns ==
  ASSUME NEW i \in Server, NEW a \in [Server -> Nat], NEW n, Tracks(i, a, n),
         Current(n), NEW due \in BOOLEAN, NEW heard
  PROVE  /\ \E s \in Nat : Governs(i, a, s, n, LeaderTick(n, due, heard))
         /\ SameBallot(n.log, LeaderTick(n, due, heard).n.log)
<1> DEFINE h == IF due THEN Heartbeat(n) ELSE Done(n, {})
           q == StepDown(h.n)
           x == After(h.out, q)
           s == h.n.role.read_seq
           lost == /\ CheckQuorum
                   /\ ClusterSize(n) > 1
                   /\ ~HasQuorum(n.mem.active, {n.id} \cup heard)
<1>1. LeaderTick(n, due, heard) =
        IF lost /\ h.n.role.kind # "Panicked" THEN x ELSE h
  <2>1. LeaderTick(n, due, heard) =
          IF lost /\ h.n.role.kind # "Panicked"
          THEN IF h.n.role.kind = "Panicked" THEN h ELSE After(h.out, StepDown(h.n))
          ELSE h
    BY DEF LeaderTick, Finish, Then
  <2> HIDE DEF h, lost
  <2> QED BY <2>1
<1> HIDE DEF lost
<1>2. Works(i, a, n, h)
  BY HeartbeatWorks, WorksStay
<1> HIDE DEF h
<1>3. Tracks(i, a, h.n)
  BY <1>2 DEF Works
<1>4. s \in Nat /\ h.n \in StaticNode(i) /\ h.n.role.kind = "Leader" /\ Sound(h.n)
  BY <1>3, TracksTypes
<1>5. Governs(i, a, s, n, h)
  BY <1>2, WorksGoverns
<1>6. Governs(i, a, s, n, x) /\ SameBallot(n.log, x.n.log)
  <2>1. /\ q \in Outcome(i) /\ Sound(q.n) /\ q.n.log = h.n.log
        /\ Plain(q.out) /\ q.n.role.kind = "Follower"
    BY <1>4, StepDownSound
  <2> HIDE DEF q
  <2>2. x = Done(q.n, h.out \cup q.out)
    BY <2>1 DEF After
  <2>3. x.n = q.n /\ x.out = h.out \cup q.out
    BY <2>2 DEF Done
  <2>4. x \in Outcome(i)
    <3>1. h \in Outcome(i)
      BY <1>5 DEF Governs
    <3> QED BY <2>1, <2>2, <3>1 DEF Outcome, Done
  <2> HIDE DEF x
  <2>5. Reports(x.n.log.term, x.n.log.ents, x.n.log.commit, s, x.out)
    <3>1. Reports(h.n.log.term, h.n.log.ents, h.n.log.commit, s, h.out)
      BY <1>5 DEF Governs
    <3>2. Reports(h.n.log.term, h.n.log.ents, h.n.log.commit, s, q.out)
      BY <2>1, PlainReports
    <3> QED BY <2>1, <2>3, <3>1, <3>2, ReportsBoth
  <2>6. /\ Longer(n.log.ents, x.n.log.ents, x.n.log.term)
        /\ x.n.log.commit <= n.log.commit \/ Agreed(i, a, x.n)
    BY <1>5, <2>1, <2>3 DEF Governs, Agreed
  <2>7. n.role.kind = "Leader" /\ SameBallot(n.log, x.n.log) /\ s >= n.role.read_seq
    BY <1>2, <2>1, <2>3, TracksTypes DEF Works, Leading, Keeps, SameBallot
  <2> QED BY <2>1, <2>3, <2>4, <2>5, <2>6, <2>7 DEF Governs
<1>7. SameBallot(n.log, h.n.log)
  BY <1>2 DEF Works, Leading, Keeps
<1> HIDE DEF x
<1> QED BY <1>1, <1>4, <1>5, <1>6, <1>7

\* What a node sends that asks for its election in term t, or says nothing of
\* logs.
Bids(t, out) ==
  \A m \in out : Plain({m}) \/ (m.message.type = "Campaign" /\ m.term = t)

\* The office of a term that the node has not led yet.
LEMMA OfficeGoverns ==
  ASSUME SnapshotThreshold = 0,
         NEW i \in Server, NEW a \in [Server -> Nat],
         NEW n \in StaticNode(i), NEW k \in StaticNode(i), Sound(k),
         k.log.vote = i, k.log.ents = n.log.ents, k.log.commit <= n.log.commit,
         \/ Elective(n) /\ k.log.term = n.log.term
         \/ k.log.term > n.log.term,
         NEW out \in SUBSET StaticEnv(i), Bids(k.log.term, out)
  PROVE  \E s \in Nat : /\ Governs(i, a, s, n, IntoLeader(k))
                        /\ Governs(i, a, s, n, After(out, IntoLeader(k)))
<1> DEFINE r == IntoLeader(k)
           s == r.n.role.read_seq
           x == After(out, r)
<1>1. PICK z : Tracks(i, a, z) /\ z.log = k.log /\ Works(i, a, z, r) /\ Current(r.n)
  BY IntoLeaderWorks
<1> HIDE DEF r
<1>2. r \in Outcome(i) /\ SameBallot(k.log, r.n.log) /\ Tracks(i, a, r.n)
  BY <1>1 DEF Works, Leading, Keeps
<1>3. r.n.role.kind = "Leader" /\ Sound(r.n) /\ s \in Nat
  BY <1>2, TracksTypes
<1>4. r.n.log.term = k.log.term /\ r.n.log.vote = i
  BY <1>2 DEF SameBallot
<1>5. Longer(n.log.ents, r.n.log.ents, r.n.log.term)
  BY <1>1, <1>4 DEF Works
<1>6. r.n.log.commit <= n.log.commit \/ Agreed(i, a, r.n)
  BY <1>1 DEF Works
<1>7. Reports(r.n.log.term, r.n.log.ents, r.n.log.commit, s, r.out)
  BY <1>1 DEF Works
<1>8. x.n = r.n /\ x.out = out \cup r.out /\ x \in Outcome(i)
  <2>1. x = Done(r.n, out \cup r.out)
    BY <1>3 DEF After
  <2> QED BY <1>2, <2>1 DEF Done, Outcome
<1>9. Reports(r.n.log.term, r.n.log.ents, r.n.log.commit, s, x.out)
  <2>1. Reports(r.n.log.term, r.n.log.ents, r.n.log.commit, s, out)
    BY <1>4 DEF Bids, Reports
  <2> QED BY <1>7, <1>8, <2>1, ReportsBoth
<1> HIDE DEF x
<1>10. Governs(i, a, s, n, r)
  <2> HIDE DEF s
  <2> QED BY <1>1, <1>2, <1>3, <1>4, <1>5, <1>6, <1>7 DEF Governs, s
<1>11. Governs(i, a, s, n, x)
  BY <1>8, <1>9, <1>10 DEF Governs
<1> QED BY <1>3, <1>10, <1>11 DEF x, r

-----------------------------------------------------------------------------
(* Serves: the call of a node that does not lead.                          *)

\* Entries b are the first of l, and more of them than a had.
CatchesUp(a, b, l) ==
  /\ SameTo(b, l, Len(b))
  /\ \A y \in Nat : SameTo(a, l, y) => y < Len(b)

\* The ballot is kept, cast in a later term for the node itself, blank in a
\* later term, or given to a candidate whose message is in M and whose log is
\* at least as new; whoever is a candidate keeps its log.
Casts(i, M, n, k) ==
  \/ /\ SameBallot(n.log, k.log)
     /\ Elective(k) => Elective(n) /\ k.log.ents = n.log.ents
  \/ /\ k.log.term > n.log.term /\ k.log.vote = i /\ k.log.ents = n.log.ents
  \/ /\ k.log.term > n.log.term /\ k.log.vote = Nil /\ ~Elective(k)
  \/ /\ ~Elective(k) /\ k.log.ents = n.log.ents
     /\ \E m \in M : /\ m.message.type = "Campaign" /\ m.term = k.log.term
                     /\ m.from = k.log.vote /\ LogOk(n, m.message)

\* What a node k sends that does not lead, e being how far its log is known to
\* be that of its leader, l.
Vouches(M, l, e, k, out) ==
  \A x \in out :
    \/ Plain({x})
    \/ /\ x.message.type = "AppendResponse" /\ x.term = k.log.term
       /\ x.message.match_index <= e /\ x.message.reject_index <= Len(l)
       /\ (x.message.match_index > 0) # (x.message.reject_index > 0)
    \/ /\ x.message.type = "HeartbeatResponse" /\ x.term = k.log.term
       /\ x.message.match_index <= e
       /\ \E m \in M : /\ m.message.type = "Heartbeat" /\ m.term = k.log.term
                       /\ x.message.read_seq <= m.message.read_seq
    \/ /\ x.message.type = "Campaign" /\ x.term = k.log.term
       /\ x.message.last_index = Len(k.log.ents)
       /\ x.message.last_term = LastTerm(k.log)

\* A call on node n, given the messages M, after which r.n does not lead; its
\* log is the same as l, the log of the leader of its term then, up to e.
Serves(i, M, l, n, e, r) ==
  /\ r \in Outcome(i) /\ Sound(r.n)
  /\ r.n.role.kind # "Leader"
  /\ r.n.role.kind = "Panicked" => r.n.role.why \in Unexpected
  /\ \/ r.n.log.ents = n.log.ents
     \/ CatchesUp(n.log.ents, r.n.log.ents, l) /\ r.n.log.commit = n.log.commit
  /\ SameTo(r.n.log.ents, l, e)
  /\ \/ r.n.log.commit <= n.log.commit
     \/ /\ r.n.log.commit <= e
        /\ \E m \in M : /\ m.message.type = "Heartbeat"
                        /\ m.term = r.n.log.term
                        /\ r.n.log.commit <= m.message.commit_index
  /\ Casts(i, M, n, r.n)
  /\ Vouches(M, l, e, r.n, r.out)

\* A node with the same log and state is as sound.
LEMMA SoundSame ==
  ASSUME NEW n, NEW k, Sound(n), k.log = n.log, k.sm = n.sm
  PROVE  Sound(k)
BY DEF Sound

\* A node that keeps its log and says nothing of it.
LEMMA ServesIdle ==
  ASSUME NEW i \in Server, NEW M, NEW l, Len(l) \in Nat,
         NEW n \in StaticNode(i), NEW k \in StaticNode(i), Sound(k),
         k.log.ents = n.log.ents, k.log.commit <= n.log.commit,
         k.role.kind \notin {"Leader", "Panicked"}, Casts(i, M, n, k),
         NEW out \in SUBSET StaticEnv(i), Vouches(M, l, 0, k, out)
  PROVE  Serves(i, M, l, n, 0, Done(k, out))
<1> DEFINE r == Done(k, out)
<1>1. r \in Outcome(i) /\ r.n = k /\ r.out = out
  BY DEF Done, Outcome
<1> HIDE DEF r
<1>2. SameTo(k.log.ents, l, 0)
  <2>1. Len(k.log.ents) \in Nat
    BY SoundLog
  <2> QED BY <2>1 DEF SameTo
<1>3. /\ r \in Outcome(i) /\ Sound(r.n)
      /\ r.n.role.kind # "Leader"
      /\ r.n.role.kind = "Panicked" => r.n.role.why \in Unexpected
      /\ r.n.log.ents = n.log.ents
      /\ SameTo(r.n.log.ents, l, 0)
      /\ r.n.log.commit <= n.log.commit
      /\ Casts(i, M, n, r.n)
      /\ Vouches(M, l, 0, r.n, r.out)
  BY <1>1, <1>2
<1>4. Serves(i, M, l, n, 0, r)
  BY <1>3 DEF Serves
<1> QED BY <1>4 DEF r

\* What says nothing of logs may be said.
LEMMA PlainVouches ==
  ASSUME NEW out, Plain(out)
  PROVE  \A M, l, e, k : Vouches(M, l, e, k, out)
BY DEF Plain, Vouches

\* A node that keeps its ballot and its log.
LEMMA ServesKept ==
  ASSUME NEW i \in Server, NEW M, NEW l, Len(l) \in Nat,
         NEW n \in StaticNode(i), Sound(n), NEW k \in StaticNode(i),
         k.log = n.log, k.sm = n.sm,
         k.role.kind \notin {"Leader", "Panicked"}, Elective(k) => Elective(n),
         NEW out \in SUBSET StaticEnv(i), Plain(out)
  PROVE  Serves(i, M, l, n, 0, Done(k, out))
<1>1. Sound(k)
  BY SoundSame
<1>2. Casts(i, M, n, k)
  BY DEF Casts, SameBallot
<1>3. Vouches(M, l, 0, k, out)
  BY PlainVouches
<1>4. k.log.ents = n.log.ents /\ k.log.commit <= n.log.commit
  <2>1. n.log.commit \in Nat
    BY FieldTypes
  <2> QED BY <2>1
<1> QED BY <1>1, <1>2, <1>3, <1>4, ServesIdle

\* A node that is not Elective and panics over a message.
LEMMA ServesPanic ==
  ASSUME NEW i \in Server, NEW M, NEW l, Len(l) \in Nat,
         NEW n \in StaticNode(i), Sound(n), NEW why \in Unexpected
  PROVE  Serves(i, M, l, n, 0, Panic(n, why))
<1> DEFINE r == Panic(n, why)
<1>1. /\ r \in Outcome(i) /\ Sound(r.n) /\ r.n.log = n.log /\ r.out = {}
      /\ r.n.role.kind = "Panicked" /\ r.n.role.why = why
  BY PanicSound
<1> HIDE DEF r
<1>2. Casts(i, M, n, r.n)
  BY <1>1 DEF Casts, SameBallot, Elective
<1>3. Vouches(M, l, 0, r.n, r.out)
  BY <1>1 DEF Vouches
<1>4. SameTo(r.n.log.ents, l, 0)
  <2>1. Len(n.log.ents) \in Nat
    BY SoundLog
  <2> QED BY <1>1, <2>1 DEF SameTo
<1>5. n.log.commit <= n.log.commit
  <2>1. n.log.commit \in Nat
    BY FieldTypes
  <2> QED BY <2>1
<1>6. Serves(i, M, l, n, 0, r)
  BY <1>1, <1>2, <1>3, <1>4, <1>5 DEF Serves
<1> QED BY <1>6 DEF r

\* What is said before a call that serves.
LEMMA ServesAfter ==
  ASSUME NEW i \in Server, NEW M, NEW l, NEW n, NEW e, NEW r,
         Serves(i, M, l, n, e, r), NEW out \in SUBSET StaticEnv(i), Plain(out)
  PROVE  Serves(i, M, l, n, e, After(out, r))
<1> DEFINE x == After(out, r)
<1>1. r \in Outcome(i) /\ Vouches(M, l, e, r.n, r.out)
  BY DEF Serves
<1>2. x.n = r.n /\ x \in Outcome(i) /\ x.out \subseteq out \cup r.out
  BY <1>1 DEF After, Done, Outcome
<1>3. Vouches(M, l, e, x.n, x.out)
  <2>1. Vouches(M, l, e, r.n, out)
    BY PlainVouches
  <2> HIDE DEF x
  <2> QED BY <1>1, <1>2, <2>1 DEF Vouches
<1> HIDE DEF x
<1>4. Serves(i, M, l, n, e, x)
  BY <1>2, <1>3 DEF Serves
<1> QED BY <1>4 DEF x

\* A call on a node that is k by then: no candidate, with the same entries, and
\* with the same ballot or none in a later term.
LEMMA ServesFrom ==
  ASSUME NEW i \in Server, NEW M, NEW l, NEW n \in StaticNode(i), Sound(n),
         NEW k \in StaticNode(i), Sound(k), k.log.ents = n.log.ents,
         k.log.commit = n.log.commit, ~Elective(k),
         \/ SameBallot(n.log, k.log)
         \/ k.log.term > n.log.term /\ k.log.vote = Nil,
         NEW e, NEW r, Serves(i, M, l, k, e, r), r.n.log.term >= k.log.term
  PROVE  Serves(i, M, l, n, e, r)
<1>1. Casts(i, M, k, r.n)
  BY DEF Serves
<1>2. \A x : LogOk(k, x) <=> LogOk(n, x)
  <2>1. LastIndex(k.log) = LastIndex(n.log)
    BY SoundLog
  <2>2. LastTerm(k.log) = LastTerm(n.log)
    BY SoundLog
  <2> QED BY <2>1, <2>2 DEF LogOk
<1>3. n.log.term \in Nat /\ k.log.term \in Nat /\ r.n.log.term \in Nat
  <2>1. r.n \in StaticNode(i)
    BY DEF Serves, Outcome
  <2> QED BY <2>1, FieldTypes
<1>4. Casts(i, M, n, r.n)
  <2>1. CASE /\ SameBallot(k.log, r.n.log)
             /\ Elective(r.n) => Elective(k) /\ r.n.log.ents = k.log.ents
    BY <2>1, <1>3 DEF Casts, SameBallot
  <2>2. CASE /\ r.n.log.term > k.log.term /\ r.n.log.vote = i /\ r.n.log.ents = k.log.ents
    BY <2>2, <1>3 DEF Casts, SameBallot
  <2>3. CASE r.n.log.term > k.log.term /\ r.n.log.vote = Nil /\ ~Elective(r.n)
    BY <2>3, <1>3 DEF Casts, SameBallot
  <2>4. CASE ~Elective(r.n) /\ r.n.log.ents = k.log.ents
             /\ \E m \in M : /\ m.message.type = "Campaign" /\ m.term = r.n.log.term
                             /\ m.from = r.n.log.vote /\ LogOk(k, m.message)
    BY <2>4, <1>2 DEF Casts
  <2> QED BY <1>1, <2>1, <2>2, <2>3, <2>4 DEF Casts
<1> QED BY <1>4 DEF Serves

\* A follower that may have caught up or committed in the term of l.
LEMMA ServesHeard ==
  ASSUME NEW i \in Server, NEW M, NEW l, NEW n \in StaticNode(i),
         NEW k \in StaticNode(i), Sound(k), SameBallot(n.log, k.log),
         k.role.kind = "Follower",
         \/ k.log.ents = n.log.ents
         \/ CatchesUp(n.log.ents, k.log.ents, l) /\ k.log.commit = n.log.commit,
         NEW e, SameTo(k.log.ents, l, e),
         \/ k.log.commit <= n.log.commit
         \/ /\ k.log.commit <= e
            /\ \E m \in M : /\ m.message.type = "Heartbeat"
                            /\ m.term = k.log.term
                            /\ k.log.commit <= m.message.commit_index,
         NEW out \in SUBSET StaticEnv(i), Vouches(M, l, e, k, out)
  PROVE  Serves(i, M, l, n, e, Done(k, out))
<1> DEFINE r == Done(k, out)
<1>1. r \in Outcome(i) /\ r.n = k /\ r.out = out
  BY DEF Done, Outcome
<1> HIDE DEF r
<1>2. Casts(i, M, n, k)
  BY DEF Casts, Elective
<1>3. Serves(i, M, l, n, e, r)
  BY <1>1, <1>2 DEF Serves
<1> QED BY <1>3 DEF r

\* The log of node n goes with l, the log of the leader of term t: where both
\* have an entry of the same term, or n has one of term t, they are the same so
\* far; and l, if it is known, has what n knows to be committed.
Fits(l, n, t) ==
  /\ l \in Seq(StaticEntry)
  /\ \A k \in 1 .. Len(n.log.ents) :
       \/ n.log.ents[k].term = t
       \/ k <= Len(l) /\ n.log.ents[k].term = l[k].term
       => SameTo(n.log.ents, l, k)
  /\ l # <<>> => SameTo(n.log.ents, l, n.log.commit)
  /\ \A k \in 1 .. Len(l) : l[k].term > 0 /\ l[k].term <= t
  /\ \A x, y \in 1 .. Len(l) : x <= y => l[x].term <= l[y].term

\* What a leader with log l says.
Told(l, m) ==
  /\ m.message.type = "Append" => Segment(l, m.message)
  /\ m.message.type = "Heartbeat" =>
       m.message.commit_index <= m.message.last_index
  /\ m.message.type # "InstallSnapshot"

\* A follower that takes the sender for its leader is as sound.
LEMMA FollowingSound ==
  ASSUME NEW i \in Server, NEW n \in StaticNode(i), n.role.kind = "Follower",
         Sound(n), NEW m \in Mail(i)
  PROVE  LET f == Following(n, m)
         IN /\ f \in StaticNode(i) /\ Sound(f) /\ f.log = n.log /\ f.sm = n.sm
            /\ f.role.kind = "Follower" /\ ~Elective(f)
            /\ m.from \in Server
<1> DEFINE f == Following(n, m)
<1>1. f \in StaticNode(i) /\ f.log = n.log /\ f.role.kind = "Follower"
      /\ m.from \in Server
  BY FollowingType
<1>2. f.sm = n.sm
  BY DEF Following, StaticNode
<1> HIDE DEF f
<1>3. Sound(f) /\ ~Elective(f)
  BY <1>1, <1>2, SoundSame DEF Elective
<1> QED BY <1>1, <1>2, <1>3 DEF f

\* Heartbeat: what is acknowledged is there, and what is committed with it.
LEMMA FollowerHeartbeatServes ==
  ASSUME NEW i \in Server, NEW n \in StaticNode(i), n.role.kind = "Follower",
         Sound(n), NEW m \in Mail(i), m.message.type = "Heartbeat",
         m.term = n.log.term, NEW l, Fits(l, n, m.term), Told(l, m)
  PROVE  \E e \in Nat : Serves(i, {m}, l, n, e, FollowerHeartbeat(n, m))
<1> DEFINE f == Following(n, m)
           h == m.message
           match == IF Has(f.log, h.last_index, m.term) THEN h.last_index ELSE 0
           msg == [type |-> "HeartbeatResponse", match_index |-> match,
                   read_seq |-> h.read_seq]
           answer == {Env(f, m.from, msg)}
           g == Commit(f.log, h.commit_index)
           c == [f EXCEPT !.log = g]
           a == MaybeApply(c)
           r == FollowerHeartbeat(n, m)
<1>1. /\ f \in StaticNode(i) /\ Sound(f) /\ f.log = n.log /\ f.sm = n.sm
      /\ f.role.kind = "Follower" /\ ~Elective(f) /\ m.from \in Server
  BY FollowingSound
<1>2. h \in StaticMessage /\ h.type = "Heartbeat"
  BY DEF Mail
<1>3. h.last_index \in Nat /\ h.commit_index \in Nat /\ h.read_seq \in Nat
  BY <1>2, MessageFields
<1>4. h.commit_index <= h.last_index
  BY DEF Told
<1>5. \/ r = Done(n, {})
      \/ (match = 0 \/ h.commit_index <= f.log.commit) /\ r = Done(f, answer)
      \/ /\ match # 0 /\ h.commit_index > f.log.commit
         /\ CommitOk(f.log, h.commit_index) /\ r = Done(a, answer)
      \/ /\ match # 0 /\ h.commit_index > f.log.commit
         /\ ~CommitOk(f.log, h.commit_index)
  <2>1. ~(h.commit_index > h.last_index)
    BY <1>3, <1>4
  <2>2. f.log.commit \in Nat
    BY <1>1, FieldTypes
  <2>3. ~(h.commit_index <= f.log.commit) => h.commit_index > f.log.commit
    BY <1>3, <2>2
  <2> QED BY <2>1, <2>3 DEF FollowerHeartbeat
<1>6. /\ Len(n.log.ents) \in Nat /\ n.log.commit \in Nat
      /\ LastIndex(n.log) = Len(n.log.ents)
      /\ \A k \in Int : Stored(n.log, k) <=> k \in 1 .. Len(n.log.ents)
      /\ \A k \in 1 .. Len(n.log.ents) : TermAt(n.log, k) = n.log.ents[k].term
  BY SoundLog
<1>7. l \in Seq(StaticEntry) /\ Len(l) \in Nat
  <2>1. l \in Seq(StaticEntry)
    BY DEF Fits
  <2> QED BY <2>1, LenProperties
<1> SUFFICES \E e \in Nat : Serves(i, {m}, l, n, e, r)
  OBVIOUS
<1> HIDE DEF f, h, r
<1>8. match \in Nat /\ SameTo(f.log.ents, l, match) /\ match <= Len(n.log.ents)
  <2>1. CASE ~Has(f.log, h.last_index, m.term)
    BY <2>1, <1>1, <1>6, <1>7 DEF SameTo
  <2>2. CASE Has(f.log, h.last_index, m.term)
    <3>1. match = h.last_index /\ match # 0 /\ match <= Len(n.log.ents)
          /\ TermAt(n.log, match) = m.term
      BY <2>2, <1>1, <1>6 DEF Has
    <3>2. match \in 1 .. Len(n.log.ents)
      BY <3>1, <1>3, <1>6
    <3> HIDE DEF match
    <3>3. n.log.ents[match].term = m.term
      BY <3>1, <3>2, <1>6
    <3>4. SameTo(n.log.ents, l, match)
      BY <3>2, <3>3 DEF Fits
    <3> QED BY <3>1, <3>4, <1>1, <1>3
  <2> QED BY <2>1, <2>2
<1>9. match # 0 => match = h.last_index
  OBVIOUS
<1> HIDE DEF match
<1>10. msg \in StaticMessage /\ msg.type = "HeartbeatResponse"
       /\ msg.match_index = match /\ msg.read_seq = h.read_seq
  BY <1>3, <1>8 DEF StaticMessage
<1> HIDE DEF msg
<1>11. answer \in SUBSET StaticEnv(i)
  BY <1>1, <1>10, One
<1>12. ASSUME NEW k, k.log.term = n.log.term
       PROVE  Vouches({m}, l, match, k, answer)
  <2> DEFINE x == Env(f, m.from, msg)
  <2>1. x.message = msg /\ x.term = n.log.term
    BY <1>1, <1>10, EnvType
  <2> HIDE DEF x
  <2>2. x.message.read_seq <= m.message.read_seq /\ x.message.match_index <= match
    BY <2>1, <1>3, <1>8, <1>10 DEF h
  <2>3. m.message.type = "Heartbeat" /\ m.term = k.log.term
    BY <1>12
  <2>4. x.message.type = "HeartbeatResponse" /\ x.term = k.log.term
    BY <2>1, <1>10, <1>12
  <2>5. answer = {x}
    BY DEF x
  <2> HIDE DEF answer
  <2> QED BY <2>2, <2>3, <2>4, <2>5 DEF Vouches
<1> HIDE DEF answer
<1>13. CASE r = Done(n, {})
  <2>1. Serves(i, {m}, l, n, 0, Done(n, {}))
    <3>1. Plain({})
      BY DEF Plain
    <3>2. n.role.kind \notin {"Leader", "Panicked"}
      OBVIOUS
    <3> QED BY <1>7, <3>1, <3>2, ServesKept
  <2> QED BY <1>13, <2>1
<1>14. CASE r = Done(f, answer)
  <2>1. SameBallot(n.log, f.log) /\ f.log.commit <= n.log.commit
        /\ f.log.term = n.log.term
    BY <1>1, <1>6 DEF SameBallot
  <2>2. Vouches({m}, l, match, f, answer)
    BY <2>1, <1>12
  <2>3. Serves(i, {m}, l, n, match, Done(f, answer))
    BY <2>1, <2>2, <1>1, <1>8, <1>11, ServesHeard
  <2> QED BY <1>8, <1>14, <2>3
<1>15. ASSUME match # 0, h.commit_index > f.log.commit
       PROVE  CommitOk(f.log, h.commit_index) /\ h.commit_index <= match
  <2>1. h.commit_index \in 1 .. Len(n.log.ents) /\ h.commit_index <= match
    BY <1>1, <1>3, <1>4, <1>6, <1>8, <1>9, <1>15
  <2>2. Stored(f.log, h.commit_index)
    BY <2>1, <1>1, <1>6
  <2>3. h.commit_index >= f.log.commit
    BY <1>1, <1>3, <1>6, <1>15
  <2> QED BY <2>1, <2>2, <2>3 DEF CommitOk
<1>16. CASE /\ match # 0 /\ h.commit_index > f.log.commit
            /\ r = Done(a, answer)
  <2>1. h.commit_index <= match /\ h.commit_index <= Len(n.log.ents)
    BY <1>3, <1>6, <1>8, <1>15, <1>16
  <2>2. g \in StaticLog /\ g.commit = h.commit_index /\ g.first = 1
        /\ g.snapTerm = 0 /\ g.ents = n.log.ents /\ SameBallot(n.log, g)
    <3>1. f.log \in StaticLog
      BY <1>1, FieldTypes
    <3>2. g \in StaticLog /\ SameBallot(f.log, g) /\ g.ents = f.log.ents
      BY <3>1, <1>3, CommitType
    <3>3. g.commit = h.commit_index /\ g.first = f.log.first
          /\ g.snapTerm = f.log.snapTerm
      BY <3>1 DEF Commit, StaticLog
    <3> QED BY <3>2, <3>3, <1>1 DEF Sound
  <2> HIDE DEF g
  <2>3. c \in StaticNode(i) /\ c.log = g /\ c.role = f.role /\ c.sm = f.sm
    BY <2>2, <1>1, SetLog
  <2> HIDE DEF c
  <2>4. c.sm = Played(c.log.ents, n.log.commit)
    BY <2>2, <2>3, <1>1 DEF Sound
  <2>5. n.log.commit <= c.log.commit /\ c.log.commit <= Len(c.log.ents)
    BY <2>1, <2>2, <2>3, <1>1, <1>3, <1>6, <1>16
  <2>6. /\ a \in StaticNode(i) /\ Sound(a) /\ a.log = g /\ a.role = f.role
    BY <2>2, <2>3, <2>4, <2>5, <1>6, ApplySound
  <2> HIDE DEF a
  <2>7. a.log.ents = n.log.ents /\ SameTo(a.log.ents, l, match)
        /\ a.role.kind = "Follower" /\ SameBallot(n.log, a.log)
        /\ a.log.commit = h.commit_index
    BY <2>2, <2>6, <1>1, <1>8
  <2>8. a.log.term = n.log.term
    BY <2>7 DEF SameBallot
  <2>9. Vouches({m}, l, match, a, answer)
    BY <2>8, <1>12
  <2>10. \E x \in {m} : /\ x.message.type = "Heartbeat" /\ x.term = a.log.term
                        /\ a.log.commit <= x.message.commit_index
    BY <2>7, <2>8, <1>2, <1>3 DEF h
  <2>11. a.log.commit <= match
    BY <2>1, <2>7
  <2>12. Serves(i, {m}, l, n, match, Done(a, answer))
    BY <2>6, <2>7, <2>9, <2>10, <2>11, <1>11, ServesHeard
  <2> QED BY <2>12, <1>8, <1>16
<1>17. CASE /\ match # 0 /\ h.commit_index > f.log.commit
            /\ ~CommitOk(f.log, h.commit_index)
  BY <1>15, <1>17
<1> HIDE DEF a
<1> QED BY <1>5, <1>13, <1>14, <1>16, <1>17

-----------------------------------------------------------------------------
(* Append.                                                                 *)

\* The assertions of splice hold of a stretch of a log that the follower's log
\* goes with, after a base that it has.
LEMMA SpliceHolds ==
  ASSUME NEW i \in Server, NEW n \in StaticNode(i), Sound(n),
         NEW l, Fits(l, n, n.log.term), NEW w, Segment(l, w),
         w.base_index \in Nat, w.entries \in Seq(StaticEntry),
         w.base_index = 0 \/ Has(n.log, w.base_index, w.base_term)
  PROVE  SpliceOk(n.log, w.base_index, w.entries)
<1> DEFINE b == w.base_index
           s == w.entries
           a == n.log.ents
<1>1. /\ Len(a) \in Nat /\ n.log.commit \in Nat /\ n.log.term \in Nat
      /\ LastIndex(n.log) = Len(a)
      /\ \A k \in Int : Stored(n.log, k) <=> k \in 1 .. Len(a)
      /\ \A k \in 1 .. Len(a) : /\ EntryAt(n.log, k) = a[k]
                                /\ TermAt(n.log, k) = a[k].term
                                /\ a[k] \in StaticEntry
  BY SoundLog
<1>2. /\ l \in Seq(StaticEntry)
      /\ \A k \in 1 .. Len(l) : l[k].term > 0 /\ l[k].term <= n.log.term
      /\ \A x, y \in 1 .. Len(l) : x <= y => l[x].term <= l[y].term
  BY DEF Fits
<1>3. Len(l) \in Nat /\ b \in Nat /\ s \in Seq(StaticEntry) /\ Len(s) \in Nat
  BY <1>2, LenProperties
<1>4. /\ b + Len(s) <= Len(l)
      /\ \A k \in 1 .. Len(s) : s[k] = l[b + k]
      /\ b > 0 => w.base_term = l[b].term
  BY DEF Segment
<1>5. b = 0 \/ Has(n.log, b, w.base_term)
  OBVIOUS
<1>6. n.log.first = 1
  BY DEF Sound
<1> HIDE DEF a, b, s
<1>7. SUFFICES ASSUME s # <<>> PROVE SpliceOk(n.log, b, s)
  BY DEF SpliceOk, b, s
<1>8. Len(s) > 0
  BY <1>3, <1>7, EmptySeq
<1>9. \A k \in 1 .. Len(s) : b + k \in 1 .. Len(l)
  BY <1>3, <1>4
<1>10. s[1].term > 0
  <2>1. 1 \in 1 .. Len(s)
    BY <1>3, <1>8
  <2> QED BY <2>1, <1>2, <1>4, <1>9
<1>11. \A k \in 1 .. Len(s) - 1 : s[k].term <= s[k + 1].term
  <2> TAKE k \in 1 .. Len(s) - 1
  <2>1. k \in 1 .. Len(s) /\ k + 1 \in 1 .. Len(s)
    BY <1>3
  <2>2. b + k \in 1 .. Len(l) /\ b + (k + 1) \in 1 .. Len(l)
    BY <2>1, <1>9
  <2>3. b + k <= b + (k + 1)
    BY <2>1, <1>3
  <2>4. l[b + k].term <= l[b + (k + 1)].term
    BY <2>2, <2>3, <1>2
  <2> QED BY <2>1, <2>4, <1>4
<1>12. s[Len(s)].term <= n.log.term
  <2>1. Len(s) \in 1 .. Len(s)
    BY <1>3, <1>8
  <2> QED BY <2>1, <1>2, <1>4, <1>9
<1>13. b > 0 => b \in 1 .. Len(a) /\ a[b].term = l[b].term /\ b \in 1 .. Len(l)
  <2> HAVE b > 0
  <2>1. b # 0 /\ b <= Len(a) /\ TermAt(n.log, b) = w.base_term
    BY <1>1, <1>3, <1>5 DEF Has
  <2>2. b \in 1 .. Len(a)
    BY <2>1, <1>1, <1>3
  <2>3. b \in 1 .. Len(l)
    BY <1>3, <1>4
  <2> QED BY <2>1, <2>2, <2>3, <1>1, <1>4
<1>14. \/ Stored(n.log, b) /\ EntryAt(n.log, b).term <= s[1].term
       \/ b = 0 /\ n.log.first = 1
  <2>1. CASE b = 0
    BY <2>1, <1>6
  <2>2. CASE b > 0
    <3>1. 1 \in 1 .. Len(s) /\ b \in 1 .. Len(l) /\ b + 1 \in 1 .. Len(l)
      BY <2>2, <1>3, <1>8, <1>9, <1>13
    <3>2. l[b].term <= l[b + 1].term
      <4>1. b <= b + 1
        BY <1>3
      <4> QED BY <3>1, <4>1, <1>2
    <3>3. s[1] = l[b + 1]
      BY <3>1, <1>4
    <3> QED BY <2>2, <3>2, <3>3, <1>1, <1>13
  <2> QED BY <2>1, <2>2, <1>3
<1>15. ASSUME NEW k \in 1 .. Len(s)
       PROVE  IF Agrees(n.log, b, s, k) THEN EntryAt(n.log, b + k) = s[k]
              ELSE b + k > n.log.commit
  <2>1. b + k \in Int /\ b + k \in 1 .. Len(l) /\ b + k > 0
    BY <1>3, <1>9
  <2>2. CASE Agrees(n.log, b, s, k)
    <3>1. b + k \in 1 .. Len(a) /\ a[b + k].term = s[k].term
      BY <2>1, <2>2, <1>1 DEF Agrees
    <3>2. a[b + k].term = l[b + k].term /\ b + k <= Len(l)
      BY <2>1, <3>1, <1>3, <1>4
    <3>3. SameTo(a, l, b + k)
      BY <3>1, <3>2 DEF Fits, a
    <3>4. a[b + k] = l[b + k]
      BY <2>1, <3>3 DEF SameTo
    <3> QED BY <2>2, <3>1, <3>4, <1>1, <1>4
  <2>3. ASSUME b + k <= n.log.commit
        PROVE  Agrees(n.log, b, s, k)
    <3>1. l # <<>>
      BY <2>1, <1>3, EmptySeq
    <3>2. SameTo(a, l, n.log.commit)
      BY <3>1 DEF Fits, a
    <3>3. b + k \in 1 .. Len(a) /\ a[b + k] = l[b + k]
      <4>1. b + k \in 1 .. n.log.commit
        BY <2>1, <2>3, <1>1
      <4> QED BY <4>1, <3>2, <1>1 DEF SameTo
    <3>4. Stored(n.log, b + k) /\ EntryAt(n.log, b + k) = s[k]
      BY <2>1, <3>3, <1>1, <1>4
    <3> QED BY <3>4 DEF Agrees
  <2>4. b + k <= n.log.commit \/ b + k > n.log.commit
    BY <2>1, <1>1
  <2> QED BY <2>2, <2>3, <2>4
<1> QED BY <1>10, <1>11, <1>12, <1>14, <1>15 DEF SpliceOk

\* After a splice the log is that of the leader up to the last entry received:
\* as it was, or cut there.
LEMMA SpliceCatchesUp ==
  ASSUME NEW i \in Server, NEW n \in StaticNode(i), Sound(n),
         NEW l, Fits(l, n, n.log.term), NEW w, Segment(l, w),
         w.base_index \in Nat, w.entries \in Seq(StaticEntry),
         w.base_index = 0 \/ Has(n.log, w.base_index, w.base_term)
  PROVE  LET k == Splice(n.log, w.base_index, w.entries)
         IN /\ k.ents = n.log.ents \/ CatchesUp(n.log.ents, k.ents, l)
            /\ SameTo(k.ents, l, w.base_index + Len(w.entries))
            /\ k.commit = n.log.commit /\ k.first = 1 /\ k.snapTerm = 0
            /\ k.commit <= Len(k.ents)
            /\ SameTo(n.log.ents, k.ents, k.commit)
<1> DEFINE b == w.base_index
           s == w.entries
           a == n.log.ents
           k == Splice(n.log, b, s)
<1>1. /\ Len(a) \in Nat /\ n.log.commit \in Nat /\ n.log.term \in Nat
      /\ LastIndex(n.log) = Len(a) /\ a \in Seq(StaticEntry)
      /\ \A x \in Int : Stored(n.log, x) <=> x \in 1 .. Len(a)
      /\ \A x \in 1 .. Len(a) : /\ EntryAt(n.log, x) = a[x]
                                /\ TermAt(n.log, x) = a[x].term
                                /\ a[x] \in StaticEntry
  BY SoundLog
<1>2. l \in Seq(StaticEntry)
  BY DEF Fits
<1>3. Len(l) \in Nat /\ b \in Nat /\ s \in Seq(StaticEntry) /\ Len(s) \in Nat
  BY <1>2, LenProperties
<1>4. /\ b + Len(s) <= Len(l) /\ b + Len(s) > 0
      /\ \A x \in 1 .. Len(s) : s[x] = l[b + x]
      /\ b > 0 => w.base_term = l[b].term
  BY DEF Segment
<1>5. b = 0 \/ Has(n.log, b, w.base_term)
  OBVIOUS
<1>6. n.log.first = 1 /\ n.log.snapTerm = 0 /\ n.log.commit <= Len(a)
  BY DEF Sound
<1>7. n.log \in StaticLog
  BY FieldTypes
<1> HIDE DEF a, b, s
<1>8. SameTo(a, l, n.log.commit)
  <2>1. l # <<>>
    BY <1>3, <1>4, EmptySeq
  <2> QED BY <2>1 DEF Fits, a
<1>9. b > 0 => b \in 1 .. Len(a) /\ a[b].term = l[b].term /\ b \in 1 .. Len(l)
               /\ SameTo(a, l, b)
  <2> HAVE b > 0
  <2>1. b # 0 /\ b <= Len(a) /\ TermAt(n.log, b) = w.base_term
    BY <1>1, <1>3, <1>5 DEF Has
  <2>2. b \in 1 .. Len(a)
    BY <2>1, <1>1, <1>3
  <2>3. b \in 1 .. Len(l) /\ b <= Len(l)
    BY <1>3, <1>4
  <2>4. a[b].term = l[b].term
    BY <2>1, <2>2, <1>1, <1>4
  <2>5. SameTo(a, l, b)
    BY <2>2, <2>3, <2>4 DEF Fits, a
  <2> QED BY <2>2, <2>3, <2>4, <2>5
<1>10. CASE \A x \in 1 .. Len(s) : Agrees(n.log, b, s, x)
  <2>1. k = n.log
    BY <1>10 DEF Splice
  <2>2. SameTo(a, l, b + Len(s))
    <3>1. CASE Len(s) = 0
      BY <3>1, <1>3, <1>4, <1>9
    <3>2. CASE Len(s) > 0
      <4>1. Len(s) \in 1 .. Len(s) /\ b + Len(s) \in Int
        BY <3>2, <1>3
      <4>2. Agrees(n.log, b, s, Len(s))
        BY <4>1, <1>10
      <4>3. b + Len(s) \in 1 .. Len(a) /\ a[b + Len(s)].term = s[Len(s)].term
        BY <4>1, <4>2, <1>1 DEF Agrees
      <4>4. a[b + Len(s)].term = l[b + Len(s)].term
        BY <4>1, <4>3, <1>4
      <4> QED BY <4>3, <4>4, <1>4 DEF Fits, a
    <3> QED BY <3>1, <3>2, <1>3
  <2>3. SameTo(a, a, n.log.commit)
    BY <1>1, <1>6 DEF SameTo
  <2> HIDE DEF k
  <2> QED BY <2>1, <2>2, <2>3, <1>6 DEF k, a, b, s
<1>11. CASE ~\A x \in 1 .. Len(s) : Agrees(n.log, b, s, x)
  <2> DEFINE p == SubSeq(a, 1, b)
             g == [n.log EXCEPT !.ents = p \o s]
  <2>1. k = Flushed(g)
    <3>1. b + 1 - n.log.first = b
      BY <1>3, <1>6
    <3> QED BY <1>11, <3>1 DEF Splice, a
  <2>2. p \in Seq(StaticEntry) /\ Len(p) = b /\ \A x \in 1 .. b : p[x] = a[x]
    <3>1. \A x \in 1 .. b : a[x] \in StaticEntry
      BY <1>1, <1>3, <1>9
    <3>2. /\ p \in Seq(StaticEntry)
          /\ Len(p) = IF 1 <= b THEN b - 1 + 1 ELSE 0
          /\ \A x \in 1 .. b - 1 + 1 : p[x] = a[1 + x - 1]
      BY <3>1, <1>3, SubSeqProperties
    <3>3. Len(p) = b
      BY <3>2, <1>3
    <3>4. \A x \in 1 .. b : p[x] = a[x]
      <4> TAKE x \in 1 .. b
      <4>1. 1 + x - 1 = x /\ x \in 1 .. b - 1 + 1
        BY <1>3
      <4> QED BY <4>1, <3>2
    <3> QED BY <3>2, <3>3, <3>4
  <2> HIDE DEF p
  <2>3. /\ p \o s \in Seq(StaticEntry) /\ Len(p \o s) = b + Len(s)
        /\ \A x \in 1 .. b + Len(s) :
             (p \o s)[x] = IF x <= b THEN p[x] ELSE s[x - b]
    <3>1. /\ p \o s \in Seq(StaticEntry) /\ Len(p \o s) = Len(p) + Len(s)
          /\ \A x \in 1 .. Len(p) + Len(s) :
               (p \o s)[x] = IF x <= Len(p) THEN p[x] ELSE s[x - Len(p)]
      BY <2>2, <1>3, ConcatProperties
    <3> QED BY <2>2, <3>1
  <2>4. k.ents = p \o s /\ k.commit = n.log.commit /\ k.first = 1
        /\ k.snapTerm = 0
    BY <2>1, <2>3, <1>6, <1>7 DEF Flushed, StaticLog
  <2>5. SameTo(k.ents, l, b + Len(s))
    <3>1. ASSUME NEW x \in 1 .. b + Len(s)
          PROVE  (p \o s)[x] = l[x]
      <4>1. CASE x <= b
        <5>1. x \in 1 .. b /\ b > 0
          BY <4>1, <1>3
        <5>2. a[x] = l[x]
          BY <5>1, <1>9 DEF SameTo
        <5> QED BY <4>1, <5>1, <5>2, <2>2, <2>3
      <4>2. CASE x > b
        <5>1. x - b \in 1 .. Len(s) /\ b + (x - b) = x /\ ~(x <= b)
          BY <4>2, <1>3
        <5> QED BY <5>1, <2>3, <1>4
      <4>3. x <= b \/ x > b
        BY <1>3
      <4> QED BY <4>1, <4>2, <4>3
    <3> QED BY <3>1, <2>3, <2>4, <1>3, <1>4 DEF SameTo
  <2>6. ASSUME NEW y \in Nat, SameTo(a, l, y)
        PROVE  y < b + Len(s)
    <3>1. SUFFICES ASSUME b + Len(s) <= y PROVE FALSE
      BY <1>3
    <3>2. PICK x \in 1 .. Len(s) : ~Agrees(n.log, b, s, x)
      BY <1>11
    <3>3. b + x \in 1 .. y /\ b + x \in 1 .. Len(a) /\ b + x \in Int
      BY <3>1, <2>6, <1>1, <1>3 DEF SameTo
    <3>4. a[b + x] = s[x]
      BY <3>3, <2>6, <1>4 DEF SameTo
    <3> QED BY <3>2, <3>3, <3>4, <1>1 DEF Agrees
  <2>7. CatchesUp(a, k.ents, l)
    BY <2>3, <2>4, <2>5, <2>6 DEF CatchesUp
  <2>8. n.log.commit < b + Len(s)
    BY <2>6, <1>1, <1>8
  <2>9. SameTo(a, k.ents, n.log.commit)
    <3>1. n.log.commit <= Len(a) /\ n.log.commit <= Len(k.ents)
      BY <2>3, <2>4, <2>8, <1>1, <1>3, <1>6
    <3>2. \A x \in 1 .. n.log.commit : a[x] = k.ents[x]
      <4> TAKE x \in 1 .. n.log.commit
      <4>1. x \in 1 .. b + Len(s)
        BY <2>8, <1>1, <1>3
      <4> QED BY <4>1, <2>5, <1>8 DEF SameTo
    <3> QED BY <3>1, <3>2 DEF SameTo
  <2>10. n.log.commit <= Len(k.ents)
    BY <2>3, <2>4, <2>8, <1>1, <1>3
  <2> HIDE DEF k
  <2> QED BY <2>4, <2>5, <2>7, <2>9, <2>10 DEF k, a, b, s
<1> QED BY <1>10, <1>11

\* Append: what is acknowledged is there, and a rejection asks for an index that
\* the leader has.
LEMMA FollowerAppendServes ==
  ASSUME NEW i \in Server, NEW n \in StaticNode(i), n.role.kind = "Follower",
         Sound(n), NEW m \in Mail(i), m.message.type = "Append",
         m.term = n.log.term, NEW l, Fits(l, n, m.term), Told(l, m)
  PROVE  \E e \in Nat : Serves(i, {m}, l, n, e, FollowerAppend(n, m))
<1> DEFINE f == Following(n, m)
           w == m.message
           b == w.base_index
           back == Min({b, LastIndex(f.log) + 1})
           no == AppendAnswer(f, m, 0, back)
           e == b + Len(w.entries)
           yes == AppendAnswer(f, m, e, 0)
           g == Splice(f.log, b, w.entries)
           s == [f EXCEPT !.log = g]
           r == FollowerAppend(n, m)
<1>1. /\ f \in StaticNode(i) /\ Sound(f) /\ f.log = n.log /\ f.sm = n.sm
      /\ f.role.kind = "Follower" /\ ~Elective(f) /\ m.from \in Server
  BY FollowingSound
<1>2. w \in StaticMessage /\ w.type = "Append"
  BY DEF Mail
<1>3. b \in Nat /\ w.base_term \in Nat /\ w.entries \in Seq(StaticEntry)
      /\ Len(w.entries) \in Nat
  BY <1>2, MessageFields, LenProperties
<1>4. Segment(l, w) /\ b + Len(w.entries) <= Len(l) /\ b + Len(w.entries) > 0
  BY DEF Told, Segment
<1>5. Spliced(f, w) = s
  <2>1. Memberships(w.entries) = {}
    BY <1>3, NoMemberships
  <2> QED BY <2>1 DEF Spliced, AdoptMemberships
<1>6. Fits(l, f, f.log.term)
  BY <1>1 DEF Fits
<1>7. \/ r = Done(n, {})
      \/ b # 0 /\ r = Done(f, no)
      \/ /\ b = 0 \/ Has(f.log, b, w.base_term)
         /\ r = IF SpliceOk(f.log, b, w.entries) THEN Done(s, yes)
                ELSE Panic(f, "splice")
  BY <1>5 DEF FollowerAppend
<1>8. Len(l) \in Nat /\ l \in Seq(StaticEntry)
  <2>1. l \in Seq(StaticEntry)
    BY DEF Fits
  <2> QED BY <2>1, LenProperties
<1>9. LastIndex(f.log) \in Nat /\ n.log.commit \in Nat
  BY <1>1, FieldTypes, IndexTypes
<1> SUFFICES \E x \in Nat : Serves(i, {m}, l, n, x, r)
  OBVIOUS
<1> HIDE DEF f, w, r
<1>10. ASSUME NEW x \in Nat, NEW y \in Nat, NEW z \in Nat, x <= z, y <= Len(l),
              (x > 0) # (y > 0), NEW k, k.log.term = n.log.term
       PROVE  /\ AppendAnswer(f, m, x, y) \in SUBSET StaticEnv(i)
              /\ Vouches({m}, l, z, k, AppendAnswer(f, m, x, y))
  <2> DEFINE msg == [type |-> "AppendResponse", match_index |-> x,
                     reject_index |-> y]
             v == Env(f, m.from, msg)
  <2>1. msg \in StaticMessage /\ msg.type = "AppendResponse"
        /\ msg.match_index = x /\ msg.reject_index = y
    BY DEF StaticMessage
  <2>2. AppendAnswer(f, m, x, y) = {Env(f, m.from, msg)}
    BY DEF AppendAnswer
  <2> HIDE DEF msg
  <2>3. {Env(f, m.from, msg)} \in SUBSET StaticEnv(i)
    BY <1>1, <2>1, One
  <2>4. v.message = msg /\ v.term = n.log.term
    BY <1>1, <2>1, EnvType
  <2> HIDE DEF v
  <2>5. v.message.type = "AppendResponse" /\ v.term = k.log.term
        /\ v.message.match_index = x /\ v.message.reject_index = y
    BY <2>1, <2>4, <1>10
  <2>6. AppendAnswer(f, m, x, y) = {v}
    BY <2>2 DEF v
  <2>7. Vouches({m}, l, z, k, {v})
    BY <2>5, <1>10 DEF Vouches
  <2> QED BY <2>2, <2>3, <2>6, <2>7
<1>11. CASE r = Done(n, {})
  <2>1. Plain({}) /\ n.role.kind \notin {"Leader", "Panicked"}
    BY DEF Plain
  <2>2. Serves(i, {m}, l, n, 0, Done(n, {}))
    BY <1>8, <2>1, ServesKept
  <2> QED BY <1>11, <2>2
<1>12. CASE b # 0 /\ r = Done(f, no)
  <2> DEFINE u == LastIndex(f.log) + 1
  <2>1. u \in Nat /\ u > 0
    BY <1>9
  <2> HIDE DEF u
  <2>2. Min({b, u}) \in {b, u} /\ Min({b, u}) <= b
    BY <2>1, <1>3, MinOfTwo
  <2>3. back = Min({b, u})
    BY DEF u
  <2>4. back \in Nat /\ back > 0 /\ back <= Len(l)
    BY <1>3, <1>4, <1>8, <1>12, <2>1, <2>2, <2>3
  <2> HIDE DEF back
  <2>5. f.log.term = n.log.term
    BY <1>1
  <2>6. (0 > 0) # (back > 0) /\ 0 <= 0
    BY <2>4
  <2>7. no \in SUBSET StaticEnv(i) /\ Vouches({m}, l, 0, f, no)
    BY <1>10, <2>4, <2>5, <2>6
  <2> HIDE DEF no
  <2>8. Casts(i, {m}, n, f)
    BY <1>1 DEF Casts, SameBallot
  <2>9. f.log.ents = n.log.ents /\ f.log.commit <= n.log.commit
        /\ f.role.kind \notin {"Leader", "Panicked"}
    BY <1>1, <1>9
  <2>10. Serves(i, {m}, l, n, 0, Done(f, no))
    BY <2>7, <2>8, <2>9, <1>1, <1>8, ServesIdle
  <2> QED BY <2>10, <1>12
<1>13. CASE /\ b = 0 \/ Has(f.log, b, w.base_term)
            /\ r = IF SpliceOk(f.log, b, w.entries) THEN Done(s, yes)
                   ELSE Panic(f, "splice")
  <2>1. SpliceOk(f.log, b, w.entries)
    BY <1>1, <1>3, <1>4, <1>6, <1>13, SpliceHolds
  <2>2. /\ g.ents = f.log.ents \/ CatchesUp(f.log.ents, g.ents, l)
        /\ SameTo(g.ents, l, b + Len(w.entries))
        /\ g.commit = f.log.commit /\ g.first = 1 /\ g.snapTerm = 0
        /\ g.commit <= Len(g.ents)
        /\ SameTo(f.log.ents, g.ents, g.commit)
    BY <1>1, <1>3, <1>4, <1>6, <1>13, SpliceCatchesUp
  <2>3. g \in StaticLog /\ SameBallot(f.log, g)
    BY <1>1, <1>3, <2>1, FieldTypes, SpliceType
  <2> HIDE DEF g
  <2>4. s \in StaticNode(i) /\ s.log = g /\ s.role = f.role /\ s.sm = f.sm
    BY <1>1, <2>3, SetLog
  <2> HIDE DEF s
  <2>5. Sound(s)
    <3>1. f.sm = Played(f.log.ents, f.log.commit)
      BY <1>1 DEF Sound
    <3>2. Played(f.log.ents, g.commit) = Played(g.ents, g.commit)
      BY <2>2, PlayedSame
    <3> QED BY <2>2, <2>4, <3>1, <3>2 DEF Sound
  <2>6. e \in Nat /\ e > 0 /\ e <= Len(l) /\ 0 <= Len(l) /\ (e > 0) # (0 > 0)
        /\ e <= e
    BY <1>3, <1>4, <1>8
  <2>7. s.log.term = n.log.term /\ SameBallot(n.log, s.log)
        /\ s.role.kind = "Follower"
    BY <2>3, <2>4, <1>1 DEF SameBallot
  <2>8. SameTo(s.log.ents, l, e) /\ s.log.commit = n.log.commit
        /\ s.log.commit <= n.log.commit
        /\ \/ s.log.ents = n.log.ents
           \/ CatchesUp(n.log.ents, s.log.ents, l) /\ s.log.commit = n.log.commit
    BY <2>2, <2>4, <1>1, <1>9
  <2> HIDE DEF e
  <2>9. yes \in SUBSET StaticEnv(i) /\ Vouches({m}, l, e, s, yes)
    BY <1>10, <2>6, <2>7
  <2> HIDE DEF yes
  <2>10. Serves(i, {m}, l, n, e, Done(s, yes))
    BY <2>4, <2>5, <2>7, <2>8, <2>9, ServesHeard
  <2> QED BY <2>1, <2>6, <2>10, <1>13
<1> QED BY <1>7, <1>11, <1>12, <1>13

-----------------------------------------------------------------------------
(* Follower::step.                                                         *)

\* Read: nothing but an answer.
LEMMA FollowerReadServes ==
  ASSUME NEW i \in Server, NEW n \in StaticNode(i), n.role.kind = "Follower",
         Sound(n), NEW m \in Mail(i), m.message.type = "Read",
         NEW M, NEW l, Len(l) \in Nat
  PROVE  Serves(i, M, l, n, 0, FollowerRead(n, m))
<1> DEFINE f == Following(n, m)
           msg == [type |-> "ReadResponse", seq |-> m.message.seq]
           out == {Env(f, m.from, msg)}
<1>1. /\ f \in StaticNode(i) /\ Sound(f) /\ f.log = n.log /\ f.sm = n.sm
      /\ f.role.kind = "Follower" /\ ~Elective(f) /\ m.from \in Server
  BY FollowingSound
<1>2. m.message \in StaticMessage
  BY DEF Mail
<1>3. m.message.seq \in Nat
  BY <1>2, MessageFields
<1>4. FollowerRead(n, m) \in {Done(n, {}), Done(f, out)}
  BY DEF FollowerRead
<1>5. msg \in StaticMessage /\ msg.type = "ReadResponse"
  BY <1>3 DEF StaticMessage
<1> HIDE DEF f, msg
<1>6. out \in SUBSET StaticEnv(i)
  BY <1>1, <1>5, One
<1>7. Plain(out)
  <2>1. Env(f, m.from, msg).message = msg
    BY <1>1, <1>5, EnvType
  <2> QED BY <1>5, <2>1 DEF Plain
<1> HIDE DEF out
<1>8. f.role.kind \notin {"Leader", "Panicked"}
  BY <1>1
<1>9. Serves(i, M, l, n, 0, Done(f, out))
  BY <1>1, <1>6, <1>7, <1>8, ServesKept
<1>10. Serves(i, M, l, n, 0, Done(n, {}))
  <2>1. Plain({}) /\ n.role.kind \notin {"Leader", "Panicked"}
    BY DEF Plain
  <2> QED BY <2>1, ServesKept
<1> QED BY <1>4, <1>9, <1>10

\* A node that writes a term and vote keeps its log and state.
LEMMA VoteSound ==
  ASSUME NEW i \in Server, NEW n \in StaticNode(i), Sound(n), NEW t \in Nat,
         NEW v \in Server \cup {Nil}
  PROVE  LET g == SetTermVote(n.log, t, v)
             k == [n EXCEPT !.log = g]
         IN /\ k \in StaticNode(i) /\ Sound(k) /\ k.log = g
            /\ k.role = n.role /\ k.sm = n.sm
            /\ g.term = t /\ g.vote = v /\ g.ents = n.log.ents
            /\ g.commit = n.log.commit
<1> DEFINE g == SetTermVote(n.log, t, v)
           k == [n EXCEPT !.log = g]
<1>1. n.log \in StaticLog
  BY FieldTypes
<1>2. g \in StaticLog /\ g.term = t /\ g.vote = v /\ g.ents = n.log.ents
  BY <1>1, SetTermVoteType
<1>3. g.commit = n.log.commit /\ g.first = n.log.first
      /\ g.snapTerm = n.log.snapTerm
  BY <1>1 DEF SetTermVote, Flushed, StaticLog
<1> HIDE DEF g
<1>4. k \in StaticNode(i) /\ k.log = g /\ k.role = n.role /\ k.sm = n.sm
  BY <1>2, SetLog
<1> HIDE DEF k
<1>5. Sound(k)
  BY <1>2, <1>3, <1>4 DEF Sound
<1> QED BY <1>2, <1>3, <1>4, <1>5 DEF g, k

\* Campaign: the vote goes to a candidate whose log is at least as new.
LEMMA FollowerCampaignServes ==
  ASSUME NEW i \in Server, NEW n \in StaticNode(i), n.role.kind = "Follower",
         Sound(n), NEW m \in Mail(i), m.message.type = "Campaign",
         m.term = n.log.term, NEW l, Len(l) \in Nat
  PROVE  Serves(i, {m}, l, n, 0, FollowerCampaign(n, m))
<1> DEFINE grant == n.log.vote \in {Nil, m.from} /\ LogOk(n, m.message)
           g == SetTermVote(n.log, m.term, m.from)
           k == [n EXCEPT !.log = g]
<1>1. m.from \in Server /\ m.from \in Server \cup {Nil} /\ m.term \in Nat
  BY DEF Mail
<1>2. ASSUME NEW q \in StaticNode(i), NEW b \in BOOLEAN
      PROVE  LET out == {Env(q, m.from, [type |-> "CampaignResponse", vote |-> b])}
             IN out \in SUBSET StaticEnv(i) /\ Plain(out)
  <2> DEFINE msg == [type |-> "CampaignResponse", vote |-> b]
  <2>1. msg \in StaticMessage /\ msg.type = "CampaignResponse"
    BY DEF StaticMessage
  <2> HIDE DEF msg
  <2>2. /\ Env(q, m.from, msg) \in StaticEnv(i)
        /\ Env(q, m.from, msg).message = msg
    BY <1>1, <2>1, EnvType
  <2>3. Plain({Env(q, m.from, msg)})
    BY <2>1, <2>2 DEF Plain
  <2> QED BY <2>2, <2>3 DEF msg
<1>3. n.role \in Role(i) /\ n.log.commit \in Nat
  BY FieldTypes
<1>4. CASE grant
  <2> DEFINE out == {Env(k, m.from, [type |-> "CampaignResponse", vote |-> TRUE])}
  <2>1. /\ k \in StaticNode(i) /\ Sound(k) /\ k.log = g /\ k.role = n.role
        /\ g.term = m.term /\ g.vote = m.from /\ g.ents = n.log.ents
        /\ g.commit = n.log.commit
    BY <1>1, <1>3, VoteSound
  <2>2. FollowerCampaign(n, m) = Done(k, out)
    BY <1>4 DEF FollowerCampaign
  <2>3. out \in SUBSET StaticEnv(i) /\ Plain(out)
    <3> HIDE DEF k
    <3> QED BY <1>2, <2>1
  <2> HIDE DEF out, k
  <2>4. Casts(i, {m}, n, k)
    BY <1>4, <2>1 DEF Casts, Elective
  <2>5. Vouches({m}, l, 0, k, out)
    BY <2>3, PlainVouches
  <2>6. k.log.ents = n.log.ents /\ k.log.commit <= n.log.commit
        /\ k.role.kind \notin {"Leader", "Panicked"}
    BY <2>1, <1>3
  <2>7. Serves(i, {m}, l, n, 0, Done(k, out))
    BY <2>1, <2>3, <2>4, <2>5, <2>6, ServesIdle
  <2> QED BY <2>2, <2>7
<1>5. CASE ~grant
  <2> DEFINE out == {Env(n, m.from, [type |-> "CampaignResponse", vote |-> FALSE])}
  <2>1. FollowerCampaign(n, m) = Done(n, out)
    BY <1>5 DEF FollowerCampaign
  <2>2. out \in SUBSET StaticEnv(i) /\ Plain(out)
    BY <1>2
  <2> HIDE DEF out
  <2>3. n.role.kind \notin {"Leader", "Panicked"}
    OBVIOUS
  <2>4. Serves(i, {m}, l, n, 0, Done(n, out))
    BY <2>2, <2>3, ServesKept
  <2> QED BY <2>1, <2>4
<1> QED BY <1>4, <1>5

\* A follower's list of forwarded requests does not concern its log.
LEMMA ForwardedSound ==
  ASSUME NEW i \in Server, NEW n \in StaticNode(i), n.role.kind = "Follower",
         NEW F \in SUBSET Ids
  PROVE  LET k == [n EXCEPT !.role.forwarded = F]
         IN /\ k \in StaticNode(i) /\ k.log = n.log /\ k.sm = n.sm
            /\ k.role.kind \notin {"Leader", "Panicked"} /\ ~Elective(k)
            /\ n.role.forwarded \in SUBSET Ids
            /\ n.role.leader \in Server \cup {Nil}
<1> DEFINE k == [n EXCEPT !.role.forwarded = F]
<1>1. k \in StaticNode(i) /\ k.log = n.log /\ k.role.kind = "Follower"
  BY SetForwarded
<1>2. n.role.forwarded \in SUBSET Ids /\ n.role.leader \in Server \cup {Nil}
  BY SetForwarded
<1>3. k.sm = n.sm
  BY DEF StaticNode
<1> HIDE DEF k
<1>4. k.role.kind \notin {"Leader", "Panicked"} /\ ~Elective(k)
  BY <1>1 DEF Elective
<1> QED BY <1>1, <1>2, <1>3, <1>4 DEF k

\* A client request is forwarded or aborted.
LEMMA FollowerClientRequestServes ==
  ASSUME NEW i \in Server, NEW n \in StaticNode(i), n.role.kind = "Follower",
         Sound(n), NEW m \in Mail(i), m.message.type = "ClientRequest",
         NEW M, NEW l, Len(l) \in Nat
  PROVE  Serves(i, M, l, n, 0, FollowerClientRequest(n, m))
<1> DEFINE id == m.message.request.id
           F == n.role.forwarded \cup {id}
           k == [n EXCEPT !.role.forwarded = F]
           to == n.role.leader
           yes == {Env(n, to, m.message)}
           no == {Abort(n, m.from, id)}
<1>1. m.from \in Server /\ m.message \in StaticMessage
  BY DEF Mail
<1>2. id \in Ids
  BY <1>1, MessageFields
<1>3. /\ n.role.forwarded \in SUBSET Ids
      /\ to \in Server \cup {Nil}
  BY SetForwarded
<1>4. F \in SUBSET Ids
  BY <1>2, <1>3
<1>5. k \in StaticNode(i) /\ k.log = n.log /\ k.sm = n.sm
      /\ k.role.kind \notin {"Leader", "Panicked"} /\ ~Elective(k)
  <2> HIDE DEF F
  <2> QED BY <1>4, ForwardedSound
<1>6. \/ to # Nil /\ FollowerClientRequest(n, m) = Done(k, yes)
      \/ FollowerClientRequest(n, m) = Done(n, no)
  BY DEF FollowerClientRequest
<1> HIDE DEF k, to
<1>7. ASSUME to # Nil
      PROVE  Serves(i, M, l, n, 0, Done(k, yes))
  <2>1. to \in Server
    BY <1>3, <1>7
  <2>2. yes \in SUBSET StaticEnv(i)
    BY <1>1, <2>1, One
  <2>3. Plain(yes)
    <3>1. Env(n, to, m.message).message = m.message
      BY <1>1, <2>1, EnvType
    <3> QED BY <3>1 DEF Plain
  <2> HIDE DEF yes
  <2> QED BY <1>5, <2>2, <2>3, ServesKept
<1>8. Serves(i, M, l, n, 0, Done(n, no))
  <2>1. no \in SUBSET StaticEnv(i)
    <3> HIDE DEF id
    <3> QED BY <1>1, <1>2, AbortType
  <2>2. Plain(no)
    BY DEF Plain, Abort, Reply, Env
  <2> HIDE DEF no
  <2>3. n.role.kind \notin {"Leader", "Panicked"}
    OBVIOUS
  <2> QED BY <2>1, <2>2, <2>3, ServesKept
<1> QED BY <1>6, <1>7, <1>8

\* A leader's answer is passed on or ignored.
LEMMA FollowerClientResponseServes ==
  ASSUME NEW i \in Server, NEW n \in StaticNode(i), n.role.kind = "Follower",
         Sound(n), NEW m \in Mail(i), m.message.type = "ClientResponse",
         NEW M, NEW l, Len(l) \in Nat
  PROVE  Serves(i, M, l, n, 0, FollowerClientResponse(n, m))
<1> DEFINE c == m.message
           F == n.role.forwarded \ {c.id}
           k == [n EXCEPT !.role.forwarded = F]
           out == {Reply(n, n.id, c.id, c.status, c.data)}
<1>1. c \in StaticMessage
  BY DEF Mail
<1>2. c.id \in Ids /\ c.data \in Seq(Cmd) /\ c.status \in {"Ok", "Abort", "Invalid"}
  BY <1>1, MessageFields
<1>3. F \in SUBSET Ids
  BY SetForwarded
<1>4. k \in StaticNode(i) /\ k.log = n.log /\ k.sm = n.sm
      /\ k.role.kind \notin {"Leader", "Panicked"} /\ ~Elective(k)
  <2> HIDE DEF F
  <2> QED BY <1>3, ForwardedSound
<1>5. FollowerClientResponse(n, m) \in {Done(n, {}), Done(k, out)}
  BY DEF FollowerClientResponse
<1>6. n.id = i
  BY FieldTypes
<1>7. out \in SUBSET StaticEnv(i)
  BY <1>2, <1>6, ReplyType
<1>8. Plain(out)
  BY DEF Plain, Reply, Env
<1> HIDE DEF k, out
<1>9. Serves(i, M, l, n, 0, Done(k, out))
  BY <1>4, <1>7, <1>8, ServesKept
<1>10. Serves(i, M, l, n, 0, Done(n, {}))
  <2>1. Plain({}) /\ n.role.kind \notin {"Leader", "Panicked"}
    BY DEF Plain
  <2> QED BY <2>1, ServesKept
<1> QED BY <1>5, <1>9, <1>10

\* Follower::step
LEMMA FollowerStepServes ==
  ASSUME NEW i \in Server, NEW n \in StaticNode(i), n.role.kind = "Follower",
         Sound(n), NEW m \in Mail(i), m.term = n.log.term,
         NEW l, Fits(l, n, m.term), Told(l, m)
  PROVE  \E e \in Nat : Serves(i, {m}, l, n, e, FollowerStep(n, m))
<1> DEFINE t == m.message.type
           r == FollowerStep(n, m)
<1>1. Len(l) \in Nat
  <2>1. l \in Seq(StaticEntry)
    BY DEF Fits
  <2> QED BY <2>1, LenProperties
<1>2. t # "InstallSnapshot"
  BY DEF Told
<1>3. ASSUME Serves(i, {m}, l, n, 0, r)
      PROVE  \E e \in Nat : Serves(i, {m}, l, n, e, r)
  BY <1>3
<1>4. CASE t = "Heartbeat"
  <2>1. r = FollowerHeartbeat(n, m)
    BY <1>4 DEF FollowerStep
  <2> QED BY <1>4, <2>1, FollowerHeartbeatServes
<1>5. CASE t = "Append"
  <2>1. r = FollowerAppend(n, m)
    BY <1>5 DEF FollowerStep
  <2> QED BY <1>5, <2>1, FollowerAppendServes
<1>6. CASE t = "Read"
  <2>1. r = FollowerRead(n, m)
    BY <1>6 DEF FollowerStep
  <2> QED BY <1>1, <1>3, <1>6, <2>1, FollowerReadServes
<1>7. CASE t = "Campaign"
  <2>1. r = FollowerCampaign(n, m)
    BY <1>7 DEF FollowerStep
  <2> QED BY <1>1, <1>3, <1>7, <2>1, FollowerCampaignServes
<1>8. CASE t = "ClientRequest"
  <2>1. r = FollowerClientRequest(n, m)
    BY <1>8 DEF FollowerStep
  <2> QED BY <1>1, <1>3, <1>8, <2>1, FollowerClientRequestServes
<1>9. CASE t = "ClientResponse"
  <2>1. r = FollowerClientResponse(n, m)
    BY <1>9 DEF FollowerStep
  <2> QED BY <1>1, <1>3, <1>9, <2>1, FollowerClientResponseServes
<1>10. CASE t \in {"CampaignResponse", "InstallSnapshotResponse"}
  <2>1. r = Done(n, {})
    BY <1>10 DEF FollowerStep
  <2>2. Plain({}) /\ n.role.kind \notin {"Leader", "Panicked"}
    BY DEF Plain
  <2>3. Serves(i, {m}, l, n, 0, Done(n, {}))
    BY <1>1, <2>2, ServesKept
  <2> QED BY <1>3, <2>1, <2>3
<1>11. CASE t \notin {"Heartbeat", "Append", "Read", "Campaign", "ClientRequest",
                     "ClientResponse", "InstallSnapshot", "CampaignResponse",
                     "InstallSnapshotResponse"}
  <2>1. r = Panic(n, "follower received unexpected message")
    BY <1>11 DEF FollowerStep
  <2>2. "follower received unexpected message" \in Unexpected
    BY DEF Unexpected
  <2>3. Serves(i, {m}, l, n, 0, Panic(n, "follower received unexpected message"))
    BY <1>1, <2>2, ServesPanic
  <2> QED BY <1>3, <2>1, <2>3
<1> HIDE DEF r
<1> QED BY <1>2, <1>4, <1>5, <1>6, <1>7, <1>8, <1>9, <1>10, <1>11

-----------------------------------------------------------------------------
(* Standing for election.                                                  *)

\* A new election of node n: the next term, its own vote, the same log, and
\* nothing said but bids.
Bidding(i, n, r) ==
  /\ r.n \in StaticNode(i) /\ Sound(r.n) /\ r.n.role.kind = "Candidate"
  /\ r.n.log.vote = i /\ r.n.log.ents = n.log.ents
  /\ r.n.log.commit = n.log.commit /\ r.n.log.term > n.log.term
  /\ r.out \in SUBSET StaticEnv(i) /\ Bids(r.n.log.term, r.out)

\* campaign
LEMMA CampaignServes ==
  ASSUME NEW i \in Server, NEW n \in StaticNode(i), Sound(n),
         NEW M, NEW l, Len(l) \in Nat
  PROVE  Serves(i, M, l, n, 0, Campaign(n)) /\ Bidding(i, n, Campaign(n))
<1> DEFINE g == SetTermVote(n.log, n.log.term + 1, i)
           v == [n EXCEPT !.log = g]
           x == Candidate("Election", {i})
           k == [v EXCEPT !.role = x]
           msg == [type |-> "Campaign", last_index |-> LastIndex(k.log),
                   last_term |-> LastTerm(k.log)]
           out == Broadcast(k, msg)
<1>1. n.log.term \in Nat /\ n.log.term + 1 \in Nat /\ i \in Server \cup {Nil}
      /\ n.log.commit \in Nat /\ n.id = i
  <2>1. n.log.term \in Nat /\ n.log.commit \in Nat /\ n.id = i
    BY FieldTypes
  <2> QED BY <2>1
<1>2. /\ v \in StaticNode(i) /\ Sound(v) /\ v.log = g
      /\ v.role = n.role /\ v.sm = n.sm
      /\ g.term = n.log.term + 1 /\ g.vote = i /\ g.ents = n.log.ents
      /\ g.commit = n.log.commit
  BY <1>1, VoteSound
<1>3. x \in Role(i) /\ x.kind = "Candidate"
  BY RoleTypes
<1>4. Campaign(n) = Done(k, out)
  <2>1. Term(n) = n.log.term
    BY DEF Term
  <2>2. [n EXCEPT !.log = g, !.role = x] = k
    OBVIOUS
  <2> QED BY <1>1, <2>1, <2>2 DEF Campaign
<1> HIDE DEF v, x
<1>5. k \in StaticNode(i) /\ k.log = v.log /\ k.role = x /\ k.sm = v.sm
  BY <1>2, <1>3, SetRole
<1> HIDE DEF k
<1>6. Sound(k)
  BY <1>2, <1>5, SoundSame
<1>7. /\ k.log.term = n.log.term + 1 /\ k.log.vote = i
      /\ k.log.ents = n.log.ents /\ k.log.commit = n.log.commit
      /\ k.role.kind = "Candidate"
  BY <1>2, <1>3, <1>5
<1>8. k.log.term > n.log.term /\ k.log.commit <= n.log.commit
      /\ k.role.kind \notin {"Leader", "Panicked"}
  BY <1>1, <1>7
<1>9. LastIndex(k.log) = Len(k.log.ents) /\ LastIndex(k.log) \in Nat
      /\ LastTerm(k.log) \in Nat
  <2>1. LastIndex(k.log) = Len(k.log.ents)
    BY <1>5, <1>6, SoundLog
  <2>2. k.log \in StaticLog
    BY <1>5, FieldTypes
  <2> QED BY <2>1, <2>2, IndexTypes, TermTypes
<1>10. msg \in StaticMessage /\ msg.type = "Campaign"
       /\ msg.last_index = Len(k.log.ents) /\ msg.last_term = LastTerm(k.log)
  BY <1>9 DEF StaticMessage
<1> HIDE DEF msg
<1>11. out \in SUBSET StaticEnv(i)
  BY <1>5, <1>10, BroadcastType
<1>12. \A y \in out : y.message = msg /\ y.term = k.log.term
  BY DEF Broadcast, Env, Term
<1> HIDE DEF out
<1>13. Vouches(M, l, 0, k, out)
  BY <1>10, <1>12 DEF Vouches
<1>14. Bids(k.log.term, out)
  BY <1>10, <1>12 DEF Bids
<1>15. Casts(i, M, n, k)
  BY <1>7, <1>8 DEF Casts
<1>16. Serves(i, M, l, n, 0, Done(k, out))
  BY <1>5, <1>6, <1>7, <1>8, <1>11, <1>13, <1>15, ServesIdle
<1>17. Bidding(i, n, Done(k, out))
  BY <1>5, <1>6, <1>7, <1>8, <1>11, <1>14 DEF Bidding, Done
<1> QED BY <1>4, <1>16, <1>17

\* What is plain may be said with a bid.
LEMMA BiddingAfter ==
  ASSUME NEW i \in Server, NEW n, NEW k, k.log = n.log,
         NEW r, Bidding(i, k, r), NEW out \in SUBSET StaticEnv(i), Plain(out)
  PROVE  Bidding(i, n, After(out, r))
<1> DEFINE x == After(out, r)
<1>1. x = Done(r.n, out \cup r.out)
  BY DEF After, Bidding
<1>2. x.n = r.n /\ x.out = out \cup r.out
  BY <1>1 DEF Done
<1> HIDE DEF x
<1>3. \A t : Bids(t, out)
  BY DEF Bids, Plain
<1>4. Bids(r.n.log.term, out \cup r.out)
  BY <1>3 DEF Bids, Bidding
<1>5. Bidding(i, n, x)
  BY <1>2, <1>4 DEF Bidding
<1> QED BY <1>5 DEF x

\* pre_campaign
LEMMA PreCampaignServes ==
  ASSUME NEW i \in Server, NEW n \in StaticNode(i), Sound(n),
         NEW M, NEW l, Len(l) \in Nat
  PROVE  Serves(i, M, l, n, 0, PreCampaign(n))
<1> DEFINE x == Candidate("PreVote", {i})
           c == [n EXCEPT !.role = x]
           ask == [type |-> "PreCampaign", last_index |-> LastIndex(n.log),
                   last_term |-> LastTerm(n.log)]
           out == {[from |-> i, to |-> p, term |-> n.log.term + 1,
                    message |-> ask] : p \in Server \ {i}}
           r == Campaign(c)
<1>1. x \in Role(i) /\ x.kind = "Candidate" /\ x.phase = "PreVote"
  BY RoleTypes
<1>2. n.id = i /\ Peers(n) = Server \ {i} /\ Term(n) = n.log.term
  BY FieldTypes, PeersOf DEF Term
<1>3. PreCampaign(n) = IF ClusterSize(n) = 1 THEN r
                       ELSE IF QuorumReached(c) THEN After(out, r)
                       ELSE Done(c, out)
  BY <1>2 DEF PreCampaign
<1> HIDE DEF x
<1>4. c \in StaticNode(i) /\ c.log = n.log /\ c.role = x /\ c.sm = n.sm
  BY <1>1, SetRole
<1> HIDE DEF c
<1>5. Sound(c) /\ ~Elective(c) /\ c.role.kind \notin {"Leader", "Panicked"}
  BY <1>1, <1>4, SoundSame DEF Elective
<1>6. ask \in StaticMessage /\ ask.type = "PreCampaign"
  <2>1. LastIndex(n.log) \in Nat /\ LastTerm(n.log) \in Nat
    BY FieldTypes, IndexTypes, TermTypes
  <2> QED BY <2>1 DEF StaticMessage
<1>7. out \in SUBSET StaticEnv(i) /\ Plain(out)
  <2>1. n.log.term \in Nat
    BY FieldTypes
  <2>2. n.log.term + 1 \in Nat
    BY <2>1
  <2> HIDE DEF ask
  <2> QED BY <1>6, <2>2 DEF StaticEnv, Plain
<1> HIDE DEF out
<1>8. Serves(i, M, l, n, 0, Done(c, out))
  BY <1>4, <1>5, <1>7, ServesKept
<1>9. Serves(i, M, l, c, 0, r) /\ Bidding(i, c, r)
  BY <1>4, <1>5, CampaignServes
<1> HIDE DEF r
<1>10. Serves(i, M, l, n, 0, r)
  <2>1. r.n.log.term >= c.log.term
    <3>1. c.log.term \in Nat /\ r.n.log.term \in Nat
      BY <1>4, <1>9, FieldTypes DEF Bidding
    <3> QED BY <1>9, <3>1 DEF Bidding
  <2>2. SameBallot(n.log, c.log) /\ c.log.ents = n.log.ents
        /\ c.log.commit = n.log.commit
    BY <1>4 DEF SameBallot
  <2> QED BY <1>4, <1>5, <1>9, <2>1, <2>2, ServesFrom
<1>11. Serves(i, M, l, n, 0, After(out, r))
  BY <1>7, <1>10, ServesAfter
<1> QED BY <1>3, <1>8, <1>10, <1>11

\* What a follower aborts is answered to its own clients.
LEMMA AbortsPlain ==
  ASSUME NEW n
  PROVE  Plain(AbortForwarded(n)) /\ Plain(AbortClients(n))
BY DEF Plain, AbortForwarded, AbortClients, Abort, Reply, Env

\* into_candidate
LEMMA IntoCandidateServes ==
  ASSUME NEW i \in Server, NEW n \in StaticNode(i), n.role.kind = "Follower",
         Sound(n), NEW b \in BOOLEAN, NEW M, NEW l, Len(l) \in Nat
  PROVE  /\ Serves(i, M, l, n, 0, IntoCandidate(n, b))
         /\ ~b => Bidding(i, n, IntoCandidate(n, b))
<1> DEFINE a == MaybeApply(n)
           r == IF b /\ PreVote THEN PreCampaign(a) ELSE Campaign(a)
           out == AbortForwarded(n)
<1>1. a \in StaticNode(i) /\ Sound(a) /\ a.log = n.log /\ a.role = n.role
  <2>0. n.log.commit \in Nat
    BY FieldTypes
  <2>1. n.log.commit \in Nat /\ n.log.commit <= n.log.commit
    BY <2>0
  <2>2. n.log.first = 1 /\ n.log.snapTerm = 0 /\ n.log.commit <= Len(n.log.ents)
        /\ n.sm = Played(n.log.ents, n.log.commit)
    BY DEF Sound
  <2> QED BY <2>1, <2>2, ApplySound
<1>2. IntoCandidate(n, b) = After(out, r)
  BY DEF IntoCandidate
<1>3. out \in SUBSET StaticEnv(i) /\ Plain(out)
  BY AbortTypes, AbortsPlain
<1> HIDE DEF a, out
<1>4. Serves(i, M, l, a, 0, Campaign(a)) /\ Bidding(i, a, Campaign(a))
  BY <1>1, CampaignServes
<1>5. Serves(i, M, l, a, 0, PreCampaign(a))
  BY <1>1, PreCampaignServes
<1>6. Serves(i, M, l, a, 0, r) /\ (~b => Bidding(i, a, r))
  BY <1>4, <1>5
<1>7. r.n.log.term >= a.log.term
  <2>1. Stands(i, a, Campaign(a)) /\ Stands(i, a, PreCampaign(a))
    BY <1>1, CampaignType, PreCampaignType DEF Stands
  <2>2. Stands(i, a, r)
    BY <2>1
  <2> HIDE DEF r
  <2>3. a.log.term \in Nat
    BY <1>1, FieldTypes
  <2> QED BY <2>2, <2>3 DEF Stands, Runs, Keeps, SameBallot
<1> HIDE DEF r
<1>8. Serves(i, M, l, n, 0, r)
  <2>1. SameBallot(n.log, a.log) /\ ~Elective(a) /\ a.log.ents = n.log.ents
        /\ a.log.commit = n.log.commit
    BY <1>1 DEF SameBallot, Elective
  <2> QED BY <1>1, <1>6, <1>7, <2>1, ServesFrom
<1>9. Serves(i, M, l, n, 0, After(out, r))
  BY <1>3, <1>8, ServesAfter
<1>10. ~b => Bidding(i, n, After(out, r))
  BY <1>1, <1>3, <1>6, BiddingAfter
<1> QED BY <1>2, <1>9, <1>10

-----------------------------------------------------------------------------
(* Candidate::step and pre-votes.                                          *)

\* One envelope that says nothing of logs.
LEMMA OnePlain ==
  ASSUME NEW i \in Server, NEW n \in StaticNode(i), NEW to \in Server,
         NEW msg \in StaticMessage,
         msg.type \in {"ClientResponse", "PreCampaignResponse",
                       "CampaignResponse"}
  PROVE  {Env(n, to, msg)} \in SUBSET StaticEnv(i) /\ Plain({Env(n, to, msg)})
<1>1. Env(n, to, msg) \in StaticEnv(i) /\ Env(n, to, msg).message = msg
  BY EnvType
<1> QED BY <1>1 DEF Plain

\* What a node that is not a leader leaves as it is, but for votes counted.
LEMMA CountsServes ==
  ASSUME NEW i \in Server, NEW n \in StaticNode(i), Sound(n),
         n.role.kind = "Candidate", NEW V \in SUBSET Server,
         NEW M, NEW l, Len(l) \in Nat
  PROVE  LET c == [n EXCEPT !.role.votes = V]
         IN /\ c \in StaticNode(i) /\ Sound(c) /\ c.log = n.log
            /\ c.role.kind = "Candidate" /\ c.role.phase = n.role.phase
            /\ Serves(i, M, l, n, 0, Done(c, {}))
<1> DEFINE c == [n EXCEPT !.role.votes = V]
<1>1. c = WithVotes(n, V)
  BY DEF WithVotes
<1> HIDE DEF c
<1>2. /\ c \in StaticNode(i) /\ c.log = n.log /\ c.role.kind = "Candidate"
      /\ c.role.phase = n.role.phase /\ c.sm = n.sm
  BY <1>1, SetVotes
<1>3. Sound(c) /\ (Elective(c) => Elective(n))
  BY <1>2, SoundSame DEF Elective
<1>4. {} \in SUBSET StaticEnv(i) /\ Plain({})
  BY DEF Plain
<1>5. Serves(i, M, l, n, 0, Done(c, {}))
  BY <1>2, <1>3, <1>4, ServesKept
<1> QED BY <1>2, <1>3, <1>5 DEF c

\* A pre-vote, given or refused, by a node that does not lead.
LEMMA PreCampaignStepServes ==
  ASSUME NEW i \in Server, NEW n \in StaticNode(i), Sound(n),
         n.role.kind \notin {"Leader", "Panicked"},
         NEW m \in Mail(i), NEW M, NEW l, Len(l) \in Nat
  PROVE  Serves(i, M, l, n, 0, PreCampaignStep(n, m))
<1> DEFINE vote == /\ n.role.kind # "Leader"
                   /\ n.role.kind = "Follower" => n.role.leader = Nil
                   /\ LogOk(n, m.message)
                   /\ m.term > Term(n)
           msg == [type |-> "PreCampaignResponse", vote |-> vote]
           out == {Env(n, m.from, msg)}
<1>1. PreCampaignStep(n, m) = Done(n, out)
  BY DEF PreCampaignStep
<1>2. vote \in BOOLEAN
  OBVIOUS
<1> HIDE DEF vote
<1>3. msg \in StaticMessage /\ msg.type = "PreCampaignResponse"
  BY <1>2 DEF StaticMessage
<1> HIDE DEF msg
<1>4. m.from \in Server
  BY DEF Mail
<1>5. out \in SUBSET StaticEnv(i) /\ Plain(out)
  BY <1>3, <1>4, OnePlain
<1> HIDE DEF out
<1> QED BY <1>1, <1>5, ServesKept

\* ... and by a leader, who refuses.
LEMMA PreCampaignStepGoverns ==
  ASSUME NEW i \in Server, NEW a \in [Server -> Nat], NEW n, Tracks(i, a, n),
         Current(n), NEW m \in Mail(i)
  PROVE  \E s \in Nat : Governs(i, a, s, n, PreCampaignStep(n, m))
<1> DEFINE msg == [type |-> "PreCampaignResponse", vote |-> FALSE]
           e == Env(n, m.from, msg)
           r == PreCampaignStep(n, m)
<1>1. n \in StaticNode(i) /\ n.role.kind = "Leader" /\ m.from \in Server
  BY DEF Tracks, Mail
<1>2. r = Done(n, {e})
  BY <1>1 DEF PreCampaignStep
<1>3. msg \in StaticMessage /\ msg.type = "PreCampaignResponse"
  BY DEF StaticMessage
<1> HIDE DEF msg
<1>4. {e} \in SUBSET StaticEnv(i) /\ Plain({e})
  BY <1>1, <1>3, OnePlain
<1>5. e \in StaticEnv(i) /\ ~Granted(e)
  <2>1. e.message = msg
    BY <1>1, <1>3, EnvType
  <2> QED BY <1>3, <1>4, <2>1 DEF Granted
<1> HIDE DEF e, r
<1>6. Works(i, a, n, r)
  BY <1>2, <1>4, <1>5, WorksPlain
<1>7. Governs(i, a, r.n.role.read_seq, n, r)
  BY <1>6, WorksGoverns
<1>8. r.n.role.read_seq \in Nat
  BY <1>6, TracksTypes DEF Works
<1> QED BY <1>7, <1>8 DEF r

\* Pre-votes: counted, and with a quorum a real election, which a node that is
\* a majority by itself wins at once.
LEMMA PreCampaignResponseStepMay ==
  ASSUME SnapshotThreshold = 0,
         NEW i \in Server, NEW a \in [Server -> Nat],
         NEW n \in StaticNode(i), Sound(n),
         n.role.kind \notin {"Leader", "Panicked"},
         NEW m \in Mail(i), NEW M, NEW l, Len(l) \in Nat
  PROVE  LET r == PreCampaignResponseStep(n, m)
         IN \/ Serves(i, M, l, n, 0, r)
            \/ \E s \in Nat : Governs(i, a, s, n, r)
<1> DEFINE asks == /\ n.role.kind = "Candidate"
                   /\ n.role.phase = "PreVote"
                   /\ m.message.vote
           V == n.role.votes \cup ({m.from} \cap AllVoters(n.mem.active))
           c == [n EXCEPT !.role.votes = V]
           e == Campaign(c)
           won == IF e.n.role.kind = "Panicked" THEN e
                  ELSE After(e.out, IntoLeader(e.n))
           r == PreCampaignResponseStep(n, m)
<1>1. r = IF ~asks THEN Done(n, {})
          ELSE IF ~QuorumReached(c) THEN Done(c, {})
          ELSE IF QuorumReached(e.n) THEN won ELSE e
  BY DEF PreCampaignResponseStep, Then
<1>2. Serves(i, M, l, n, 0, Done(n, {}))
  <2>1. {} \in SUBSET StaticEnv(i) /\ Plain({})
    BY DEF Plain
  <2> QED BY <2>1, ServesKept
<1>3. CASE asks
  <2>1. V \in SUBSET Server
    <3>1. n.role.votes \in SUBSET Server /\ AllVoters(n.mem.active) = Server
      BY <1>3, VotesOf, PeersOf
    <3> QED BY <3>1
  <2> HIDE DEF V
  <2>2. /\ c \in StaticNode(i) /\ Sound(c) /\ c.log = n.log
        /\ c.role.kind = "Candidate" /\ c.role.phase = "PreVote"
        /\ Serves(i, M, l, n, 0, Done(c, {}))
    BY <1>3, <2>1, CountsServes
  <2> HIDE DEF c
  <2>3. Serves(i, M, l, c, 0, e) /\ Bidding(i, c, e)
    BY <2>2, CampaignServes
  <2> HIDE DEF e
  <2>4. c.log.term \in Nat /\ e.n.log.term \in Nat
    BY <2>2, <2>3, FieldTypes DEF Bidding
  <2>5. Serves(i, M, l, n, 0, e)
    <3>1. e.n.log.term >= c.log.term
      BY <2>3, <2>4 DEF Bidding
    <3>2. SameBallot(n.log, c.log) /\ ~Elective(c) /\ c.log.ents = n.log.ents
          /\ c.log.commit = n.log.commit
      BY <2>2 DEF SameBallot, Elective
    <3> QED BY <2>2, <2>3, <3>1, <3>2, ServesFrom
  <2>6. \E s \in Nat : Governs(i, a, s, n, won)
    <3>1. won = After(e.out, IntoLeader(e.n))
      BY <2>3 DEF Bidding
    <3>2. /\ e.n \in StaticNode(i) /\ Sound(e.n) /\ e.n.log.vote = i
          /\ e.n.log.ents = n.log.ents /\ e.n.log.term > n.log.term
          /\ e.out \in SUBSET StaticEnv(i) /\ Bids(e.n.log.term, e.out)
      BY <2>2, <2>3 DEF Bidding
    <3>3. e.n.log.commit <= n.log.commit
      <4>1. e.n.log.commit = n.log.commit /\ n.log.commit \in Nat
        BY <2>2, <2>3, FieldTypes DEF Bidding
      <4> QED BY <4>1
    <3> HIDE DEF won
    <3> QED BY <3>1, <3>2, <3>3, OfficeGoverns
  <2> HIDE DEF won, r
  <2>7. r \in {Done(c, {}), won, e}
    BY <1>1, <1>3
  <2> QED BY <2>2, <2>5, <2>6, <2>7 DEF r
<1>4. CASE ~asks
  <2>1. r = Done(n, {})
    BY <1>1, <1>4
  <2> QED BY <1>2, <2>1
<1> QED BY <1>3, <1>4

\* CampaignResponse: a vote is counted, and with a majority the candidate leads.
LEMMA CandidateCampaignResponseMay ==
  ASSUME SnapshotThreshold = 0,
         NEW i \in Server, NEW a \in [Server -> Nat],
         NEW n \in StaticNode(i), Sound(n), n.role.kind = "Candidate",
         Elective(n) => n.log.vote = i,
         NEW m \in Mail(i), NEW M, NEW l, Len(l) \in Nat
  PROVE  LET r == CandidateCampaignResponse(n, m)
         IN \/ Serves(i, M, l, n, 0, r)
            \/ \E s \in Nat : Governs(i, a, s, n, r)
<1> DEFINE counts == n.role.phase = "Election" /\ m.message.vote
           V == n.role.votes \cup ({m.from} \cap AllVoters(n.mem.active))
           c == [n EXCEPT !.role.votes = V]
           r == CandidateCampaignResponse(n, m)
<1>1. r = IF ~counts THEN Done(n, {})
          ELSE IF QuorumReached(c) THEN IntoLeader(c) ELSE Done(c, {})
  BY DEF CandidateCampaignResponse
<1>2. V \in SUBSET Server
  <2>1. n.role.votes \in SUBSET Server /\ AllVoters(n.mem.active) = Server
    BY VotesOf, PeersOf
  <2> QED BY <2>1
<1> HIDE DEF V
<1>3. /\ c \in StaticNode(i) /\ Sound(c) /\ c.log = n.log
      /\ Serves(i, M, l, n, 0, Done(c, {}))
  BY <1>2, CountsServes
<1>4. Serves(i, M, l, n, 0, Done(n, {}))
  <2>1. {} \in SUBSET StaticEnv(i) /\ Plain({})
    BY DEF Plain
  <2> QED BY <2>1, ServesKept
<1> HIDE DEF c
<1>5. ASSUME counts PROVE \E s \in Nat : Governs(i, a, s, n, IntoLeader(c))
  <2>1. Elective(n) /\ c.log.vote = i /\ c.log.ents = n.log.ents
        /\ c.log.term = n.log.term
    BY <1>3, <1>5 DEF Elective
  <2>2. c.log.commit <= n.log.commit
    <3>1. n.log.commit \in Nat
      BY FieldTypes
    <3> QED BY <1>3, <3>1
  <2>3. {} \in SUBSET StaticEnv(i) /\ Bids(c.log.term, {})
    BY DEF Bids
  <2> QED BY <1>3, <2>1, <2>2, <2>3, OfficeGoverns
<1> HIDE DEF r
<1> QED BY <1>1, <1>3, <1>4, <1>5 DEF r

\* Candidate::step
LEMMA CandidateStepMay ==
  ASSUME SnapshotThreshold = 0,
         NEW i \in Server, NEW a \in [Server -> Nat],
         NEW n \in StaticNode(i), Sound(n), n.role.kind = "Candidate",
         Elective(n) => n.log.vote = i,
         NEW m \in Mail(i), NEW M, NEW l, Len(l) \in Nat
  PROVE  LET r == CandidateStep(n, m)
         IN \/ Serves(i, M, l, n, 0, r)
            \/ \E s \in Nat : Governs(i, a, s, n, r)
<1> DEFINE t == m.message.type
           r == CandidateStep(n, m)
           no == [type |-> "CampaignResponse", vote |-> FALSE]
<1>1. m.from \in Server /\ m.message \in StaticMessage
  BY DEF Mail
<1>2. ASSUME NEW out \in SUBSET StaticEnv(i), Plain(out)
      PROVE  Serves(i, M, l, n, 0, Done(n, out))
  BY <1>2, ServesKept
<1>3. CASE t = "CampaignResponse"
  <2>1. r = CandidateCampaignResponse(n, m)
    BY <1>3 DEF CandidateStep
  <2> HIDE DEF r
  <2> QED BY <2>1, CandidateCampaignResponseMay DEF r
<1>4. CASE t = "Campaign"
  <2>1. r = Done(n, {Env(n, m.from, no)})
    BY <1>4 DEF CandidateStep
  <2>2. no \in StaticMessage /\ no.type = "CampaignResponse"
    BY DEF StaticMessage
  <2> HIDE DEF no
  <2>3. {Env(n, m.from, no)} \in SUBSET StaticEnv(i) /\ Plain({Env(n, m.from, no)})
    BY <1>1, <2>2, OnePlain
  <2> QED BY <1>2, <2>1, <2>3
<1>5. CASE t = "ClientRequest"
  <2> DEFINE e == Abort(n, m.from, m.message.request.id)
  <2>1. r = Done(n, {e})
    BY <1>5 DEF CandidateStep
  <2>2. m.message.request.id \in Ids
    BY <1>1, <1>5, MessageFields
  <2>3. {e} \in SUBSET StaticEnv(i)
    BY <1>1, <2>2, AbortType
  <2>4. Plain({e})
    BY DEF Plain, Abort, Reply, Env
  <2> HIDE DEF e
  <2> QED BY <1>2, <2>1, <2>3, <2>4
<1>6. CASE t = "InstallSnapshotResponse"
  <2>1. r = Done(n, {})
    BY <1>6 DEF CandidateStep
  <2>2. {} \in SUBSET StaticEnv(i) /\ Plain({})
    BY DEF Plain
  <2> QED BY <1>2, <2>1, <2>2
<1>7. CASE t \notin {"CampaignResponse", "Campaign", "ClientRequest",
                    "InstallSnapshotResponse"}
  <2>1. r = Panic(n, "unexpected message")
    BY <1>7 DEF CandidateStep
  <2>2. "unexpected message" \in Unexpected
    BY DEF Unexpected
  <2> HIDE DEF r
  <2>3. Serves(i, M, l, n, 0, r)
    BY <2>1, <2>2, ServesPanic
  <2> QED BY <2>3 DEF r
<1> QED BY <1>3, <1>4, <1>5, <1>6, <1>7

\* Follower::step keeps the term.
LEMMA FollowerStepTerm ==
  ASSUME NEW i \in Server, NEW n \in StaticNode(i), n.role.kind = "Follower",
         Sound(n), NEW m \in Mail(i), m.term = n.log.term
  PROVE  FollowerStep(n, m).n.log.term = n.log.term
<1> DEFINE t == m.message.type
           r == FollowerStep(n, m)
<1>1. ASSUME Follows(i, n, r)
      PROVE  r.n.log.term = n.log.term
  <2> HIDE DEF r
  <2> QED BY <1>1 DEF Follows, Keeps, SameBallot
<1>2. CASE t = "Heartbeat"
  <2>1. r = FollowerHeartbeat(n, m)
    BY <1>2 DEF FollowerStep
  <2> QED BY <1>1, <1>2, <2>1, FollowerHeartbeatType
<1>3. CASE t = "Append"
  <2>1. r = FollowerAppend(n, m)
    BY <1>3 DEF FollowerStep
  <2> QED BY <1>1, <1>3, <2>1, FollowerAppendType
<1>4. CASE t = "Read"
  <2>1. r = FollowerRead(n, m)
    BY <1>4 DEF FollowerStep
  <2> QED BY <1>1, <1>4, <2>1, FollowerReadType
<1>5. CASE t = "Campaign"
  <2> DEFINE to == m.from
             g == SetTermVote(n.log, m.term, to)
             v == [n EXCEPT !.log = g]
  <2>1. r = FollowerCampaign(n, m)
    BY <1>5 DEF FollowerStep
  <2>2. r.n \in {n, v}
    BY <2>1 DEF FollowerCampaign, Done
  <2>3. m.term \in Nat /\ to \in Server \cup {Nil}
    BY DEF Mail
  <2> HIDE DEF to
  <2>4. /\ v \in StaticNode(i) /\ Sound(v) /\ v.log = g
        /\ v.role = n.role /\ v.sm = n.sm
        /\ g.term = m.term /\ g.vote = to /\ g.ents = n.log.ents
        /\ g.commit = n.log.commit
    BY <2>3, VoteSound
  <2> HIDE DEF r, v
  <2>5. r.n.log.term = n.log.term
    BY <2>2, <2>4
  <2> QED BY <2>5 DEF r
<1>6. CASE t = "ClientRequest"
  <2>1. r = FollowerClientRequest(n, m)
    BY <1>6 DEF FollowerStep
  <2> QED BY <1>1, <1>6, <2>1, FollowerClientRequestType
<1>7. CASE t = "ClientResponse"
  <2>1. r = FollowerClientResponse(n, m)
    BY <1>7 DEF FollowerStep
  <2> QED BY <1>1, <1>7, <2>1, FollowerClientResponseType
<1>8. CASE t = "InstallSnapshot"
  <2>1. r = FollowerInstallSnapshot(n, m)
    BY <1>8 DEF FollowerStep
  <2> QED BY <1>1, <1>8, <2>1, FollowerInstallSnapshotType
<1>9. CASE t \in {"CampaignResponse", "InstallSnapshotResponse"}
  <2>1. r = Done(n, {})
    BY <1>9 DEF FollowerStep
  <2> QED BY <1>1, <2>1, FollowsNothing
<1>10. CASE t \notin {"Heartbeat", "Append", "Read", "Campaign", "ClientRequest",
                     "ClientResponse", "InstallSnapshot", "CampaignResponse",
                     "InstallSnapshotResponse"}
  <2>1. r = Panic(n, "follower received unexpected message")
    BY <1>10 DEF FollowerStep
  <2>2. "follower received unexpected message" \in Reasons /\ SameBallot(n.log, n.log)
    BY DEF Reasons, SameBallot
  <2> QED BY <1>1, <2>1, <2>2, FollowsPanic
<1> HIDE DEF r
<1> QED BY <1>2, <1>3, <1>4, <1>5, <1>6, <1>7, <1>8, <1>9, <1>10

\* A follower of a term just discovered is as sound.
LEMMA DiscoverTermSound ==
  ASSUME NEW i \in Server, NEW n \in StaticNode(i), Sound(n), NEW t \in Nat
  PROVE  LET d == DiscoverTerm(n, t)
         IN /\ d \in Outcome(i) /\ Sound(d.n) /\ Plain(d.out)
            /\ d.n.log.ents = n.log.ents /\ d.n.log.commit = n.log.commit
            /\ d.n.log.term = t /\ d.n.log.vote = Nil
            /\ d.n.role.kind = "Follower"
<1> DEFINE g == SetTermVote(n.log, t, Nil)
           v == [n EXCEPT !.log = g]
           x == Follower(Nil)
           k == [v EXCEPT !.role = x]
           d == DiscoverTerm(n, t)
<1>1. /\ v \in StaticNode(i) /\ Sound(v) /\ v.log = g
      /\ v.role = n.role /\ v.sm = n.sm
      /\ g.term = t /\ g.vote = Nil /\ g.ents = n.log.ents
      /\ g.commit = n.log.commit
  BY VoteSound
<1>2. x \in Role(i) /\ x.kind = "Follower"
  BY RoleTypes
<1>3. d.n = k /\ d.out \in {AbortForwarded(n), AbortClients(v), {}}
  BY DEF DiscoverTerm, Done
<1>4. Plain({}) /\ Plain(AbortForwarded(n)) /\ Plain(AbortClients(v))
  BY AbortsPlain DEF Plain
<1>5. d \in Outcome(i)
  BY DiscoverTermType
<1> HIDE DEF v, x, d
<1>6. k \in StaticNode(i) /\ k.log = v.log /\ k.role = x /\ k.sm = v.sm
  BY <1>1, <1>2, SetRole
<1> HIDE DEF k
<1>7. Sound(k)
  BY <1>1, <1>6, SoundSame
<1> QED BY <1>1, <1>2, <1>3, <1>4, <1>5, <1>6, <1>7 DEF d

-----------------------------------------------------------------------------
(* Node::step and Node::tick.                                              *)

\* What a call may do, H and G being, per term, the log of its leader and what
\* has been vouched for to it: govern, or serve.
Acts(i, G, H, M, n, r) ==
  \/ \E e \in Nat : Serves(i, M, H[r.n.log.term], n, e, r)
  \/ \E s \in Nat : Governs(i, G[r.n.log.term], s, n, r)

\* The logs of leaders, and what is vouched for, by term.
Histories(G, H) ==
  G \in [Nat -> [Server -> Nat]] /\ H \in [Nat -> Seq(StaticEntry)]

\* What the cluster grants of a node: if it leads, it tracks its peers, and if
\* it is a candidate, it voted for itself.
Granting(i, G, n) ==
  /\ n \in StaticNode(i) /\ Sound(n)
  /\ n.role.kind = "Leader" => Tracks(i, G[n.log.term], n) /\ Current(n)
  /\ Elective(n) => n.log.vote = i

\* ... and of a message that reaches it.
Relies(G, H, n, m) ==
  /\ n.role.kind = "Leader" /\ m.term = n.log.term
       => HeardBy(G[n.log.term], n, m)
  /\ m.message.type \notin PreVoteTypes /\ m.term >= n.log.term
       => Fits(H[m.term], n, m.term) /\ Told(H[m.term], m)

\* What serves whatever the leader's log, or governs whatever was vouched for.
LEMMA MayActs ==
  ASSUME NEW i \in Server, NEW G, NEW H, Histories(G, H), NEW n, NEW M, NEW r,
         \A a \in [Server -> Nat] : \A l \in Seq(StaticEntry) :
           \/ Serves(i, M, l, n, 0, r)
           \/ \E s \in Nat : Governs(i, a, s, n, r)
  PROVE  Acts(i, G, H, M, n, r)
<1> DEFINE t == r.n.log.term
<1>1. r \in Outcome(i)
  <2>1. [v \in Server |-> 0] \in [Server -> Nat] /\ <<>> \in Seq(StaticEntry)
    BY EmptySeq
  <2> QED BY <2>1 DEF Serves, Governs
<1>2. t \in Nat
  <2>1. r.n \in StaticNode(i)
    BY <1>1 DEF Outcome
  <2> QED BY <2>1, FieldTypes
<1> HIDE DEF t
<1>3. G[t] \in [Server -> Nat] /\ H[t] \in Seq(StaticEntry)
  BY <1>2 DEF Histories
<1>4. \/ Serves(i, M, H[t], n, 0, r)
      \/ \E s \in Nat : Governs(i, G[t], s, n, r)
  BY <1>3
<1> QED BY <1>4 DEF Acts, t

\* A leader's call in its term.
LEMMA LeaderActs ==
  ASSUME NEW i \in Server, NEW G, NEW H, NEW n, NEW M, NEW r,
         SameBallot(n.log, r.n.log),
         \E s \in Nat : Governs(i, G[n.log.term], s, n, r)
  PROVE  Acts(i, G, H, M, n, r)
BY DEF Acts, SameBallot

\* A node that is left as it is.
LEMMA StaysActs ==
  ASSUME NEW i \in Server, NEW G, NEW H, Histories(G, H), NEW n,
         Granting(i, G, n), n.role.kind # "Panicked", NEW M
  PROVE  Acts(i, G, H, M, n, Done(n, {}))
<1> DEFINE r == Done(n, {})
<1>1. n \in StaticNode(i) /\ Sound(n) /\ {} \in SUBSET StaticEnv(i) /\ Plain({})
  BY DEF Granting, Plain
<1>2. r.n = n
  BY DEF Done
<1>3. CASE n.role.kind = "Leader"
  <2> DEFINE a == G[n.log.term]
  <2>1. Tracks(i, a, n) /\ Current(n)
    BY <1>3 DEF Granting
  <2>2. a \in [Server -> Nat] /\ SameBallot(n.log, n.log)
    <3>1. n.log.term \in Nat
      BY <1>1, FieldTypes
    <3> QED BY <3>1 DEF Histories, SameBallot
  <2> HIDE DEF a
  <2>3. Works(i, a, n, r)
    BY <2>1, <2>2, WorksStay
  <2>4. n.role.read_seq \in Nat
    BY <2>1, <2>2, TracksTypes
  <2> HIDE DEF r
  <2>5. Governs(i, a, n.role.read_seq, n, r)
    BY <1>2, <2>1, <2>2, <2>3, WorksGoverns
  <2>6. Acts(i, G, H, M, n, r)
    BY <1>2, <2>2, <2>4, <2>5, LeaderActs DEF a
  <2> QED BY <2>6 DEF r
<1>4. CASE n.role.kind # "Leader"
  <2>1. ASSUME NEW l \in Seq(StaticEntry)
        PROVE  Serves(i, M, l, n, 0, r)
    BY <1>1, <1>4, LenProperties, ServesKept
  <2> HIDE DEF r
  <2>2. Acts(i, G, H, M, n, r)
    BY <2>1, MayActs
  <2> QED BY <2>2 DEF r
<1> QED BY <1>3, <1>4

\* Follower::step of a node k that has taken on the message's term, n before.
LEMMA FollowerStepActs ==
  ASSUME NEW i \in Server, NEW G, NEW H, Histories(G, H),
         NEW n \in StaticNode(i), Sound(n), NEW k \in StaticNode(i), Sound(k),
         k.role.kind = "Follower", k.log.ents = n.log.ents,
         k.log.commit = n.log.commit,
         \/ SameBallot(n.log, k.log)
         \/ k.log.term > n.log.term /\ k.log.vote = Nil,
         NEW m \in Mail(i), m.term = k.log.term,
         Fits(H[m.term], n, m.term), Told(H[m.term], m),
         NEW out \in SUBSET StaticEnv(i), Plain(out)
  PROVE  /\ Acts(i, G, H, {m}, n, FollowerStep(k, m))
         /\ Acts(i, G, H, {m}, n, After(out, FollowerStep(k, m)))
<1> DEFINE l == H[m.term]
           r == FollowerStep(k, m)
           x == After(out, r)
<1>1. Fits(l, k, m.term)
  BY DEF Fits
<1>2. PICK e \in Nat : Serves(i, {m}, l, k, e, r)
  BY <1>1, FollowerStepServes
<1>3. r.n.log.term = k.log.term
  BY FollowerStepTerm
<1>4. k.log.term \in Nat
  BY FieldTypes
<1> HIDE DEF r, l
<1>5. Serves(i, {m}, l, n, e, r)
  <2>1. ~Elective(k) /\ r.n.log.term >= k.log.term
    BY <1>3, <1>4 DEF Elective
  <2> QED BY <1>2, <2>1, ServesFrom
<1>6. Serves(i, {m}, l, n, e, x)
  BY <1>5, ServesAfter
<1>7. x.n.log.term = m.term
  BY <1>3 DEF After, Done
<1> HIDE DEF x
<1>8. Acts(i, G, H, {m}, n, r) /\ Acts(i, G, H, {m}, n, x)
  BY <1>3, <1>5, <1>6, <1>7 DEF Acts, l
<1> QED BY <1>8 DEF x, r

\* A message of the node's own term.
LEMMA SameTermStepActs ==
  ASSUME SnapshotThreshold = 0, StaticMembership,
         NEW i \in Server, NEW G, NEW H, Histories(G, H), NEW n,
         Granting(i, G, n), n.role.kind # "Panicked",
         NEW m \in Mail(i), m.term = n.log.term,
         m.message.type \notin PreVoteTypes, Relies(G, H, n, m)
  PROVE  Acts(i, G, H, {m}, n, SameTermStep(n, m))
<1> DEFINE r == SameTermStep(n, m)
<1>1. /\ n \in StaticNode(i) /\ Sound(n) /\ n.log.term \in Nat
      /\ n.role.kind \in {"Follower", "Candidate", "Leader"}
  <2>1. n \in StaticNode(i) /\ Sound(n)
    BY DEF Granting
  <2>2. n.role \in Role(i) /\ n.log.term \in Nat
    BY <2>1, FieldTypes
  <2> QED BY <2>1, <2>2 DEF Role, FollowerType, CandidateType, Lead, LeaderType,
                            PanickedType
<1>2. Fits(H[m.term], n, m.term) /\ Told(H[m.term], m)
  <2>1. m.term >= n.log.term
    BY <1>1
  <2> QED BY <2>1 DEF Relies
<1>3. {} \in SUBSET StaticEnv(i) /\ Plain({}) /\ SameBallot(n.log, n.log)
  BY DEF Plain, SameBallot
<1>4. CASE n.role.kind = "Leader"
  <2> DEFINE a == G[n.log.term]
  <2>1. r = LeaderStep(n, m)
    BY <1>4 DEF SameTermStep
  <2>2. a \in [Server -> Nat]
    BY <1>1 DEF Histories
  <2>3. Tracks(i, a, n) /\ Current(n) /\ HeardBy(a, n, m)
    BY <1>4 DEF Granting, Relies
  <2> HIDE DEF a
  <2>4. \E s \in Nat : Governs(i, a, s, n, LeaderStep(n, m))
    BY <2>2, <2>3, LeaderStepGoverns
  <2>5. SameBallot(n.log, LeaderStep(n, m).n.log)
    BY <1>1, <1>4, LeaderStepType DEF Leading, Keeps
  <2> HIDE DEF r
  <2>6. Acts(i, G, H, {m}, n, r)
    BY <2>1, <2>4, <2>5, LeaderActs DEF a
  <2> QED BY <2>6 DEF r
<1>5. CASE n.role.kind = "Follower"
  <2>1. r = FollowerStep(n, m)
    BY <1>5 DEF SameTermStep
  <2>2. Acts(i, G, H, {m}, n, FollowerStep(n, m))
    BY <1>1, <1>2, <1>3, <1>5, FollowerStepActs
  <2> QED BY <2>1, <2>2
<1>6. CASE n.role.kind = "Candidate" /\ m.message.type \in FromLeaderTypes
  <2> DEFINE x == Follower(m.from)
             k == [n EXCEPT !.role = x]
  <2>1. r = FollowerStep(k, m)
    BY <1>6 DEF SameTermStep
  <2>2. m.from \in Server \cup {Nil}
    BY DEF Mail
  <2>3. x \in Role(i) /\ x.kind = "Follower"
    BY <2>2, RoleTypes
  <2> HIDE DEF x
  <2>4. k \in StaticNode(i) /\ k.log = n.log /\ k.role = x /\ k.sm = n.sm
    BY <1>1, <2>3, SetRole
  <2> HIDE DEF k
  <2>5. Sound(k)
    BY <1>1, <2>4, SoundSame
  <2>6. Acts(i, G, H, {m}, n, FollowerStep(k, m))
    BY <1>1, <1>2, <1>3, <2>3, <2>4, <2>5, FollowerStepActs
  <2> HIDE DEF r
  <2> QED BY <2>1, <2>6 DEF r
<1>7. CASE n.role.kind = "Candidate" /\ m.message.type \notin FromLeaderTypes
  <2>1. r = CandidateStep(n, m)
    BY <1>7 DEF SameTermStep
  <2>2. Elective(n) => n.log.vote = i
    BY DEF Granting
  <2>3. ASSUME NEW a \in [Server -> Nat], NEW l \in Seq(StaticEntry)
        PROVE  \/ Serves(i, {m}, l, n, 0, CandidateStep(n, m))
               \/ \E s \in Nat : Governs(i, a, s, n, CandidateStep(n, m))
    BY <1>1, <1>7, <2>2, LenProperties, CandidateStepMay
  <2>4. Acts(i, G, H, {m}, n, CandidateStep(n, m))
    BY <2>3, MayActs
  <2> QED BY <2>1, <2>4
<1> QED BY <1>1, <1>4, <1>5, <1>6, <1>7

\* Node::step
LEMMA StepActs ==
  ASSUME SnapshotThreshold = 0, StaticMembership,
         NEW i \in Server, NEW G, NEW H, Histories(G, H), NEW n,
         Granting(i, G, n), n.role.kind # "Panicked",
         NEW m \in Mail(i), Relies(G, H, n, m)
  PROVE  Acts(i, G, H, {m}, n, Step(n, m))
<1> DEFINE t == m.message.type
           d == DiscoverTerm(n, m.term)
           dropped == \/ ~IsKnownSender(n, m.from)
                      \/ t \notin PreVoteTypes /\ m.term < Term(n)
           r == Step(n, m)
<1>1. /\ n \in StaticNode(i) /\ Sound(n) /\ n.log.term \in Nat /\ m.term \in Nat
      /\ Term(n) = n.log.term
  <2>1. n \in StaticNode(i) /\ Sound(n)
    BY DEF Granting
  <2> QED BY <2>1, FieldTypes DEF Mail, Term
<1>2. CASE dropped
  <2>1. r = Done(n, {})
    BY <1>2 DEF Step
  <2> QED BY <2>1, StaysActs
<1>3. CASE ~dropped /\ t = "PreCampaign"
  <2> DEFINE p == PreCampaignStep(n, m)
  <2>1. r = p
    BY <1>3 DEF Step, PreVoteTypes
  <2>2. CASE n.role.kind = "Leader"
    <3> DEFINE a == G[n.log.term]
    <3>1. a \in [Server -> Nat] /\ Tracks(i, a, n) /\ Current(n)
      BY <1>1, <2>2 DEF Histories, Granting
    <3> HIDE DEF a
    <3>2. \E s \in Nat : Governs(i, a, s, n, p)
      BY <3>1, PreCampaignStepGoverns
    <3>3. SameBallot(n.log, p.n.log)
      BY DEF SameBallot, PreCampaignStep, Done
    <3> HIDE DEF p
    <3>4. Acts(i, G, H, {m}, n, p)
      BY <3>2, <3>3, LeaderActs DEF a
    <3> QED BY <2>1, <3>4
  <2>3. CASE n.role.kind # "Leader"
    <3>1. ASSUME NEW l \in Seq(StaticEntry)
          PROVE  Serves(i, {m}, l, n, 0, p)
      BY <1>1, <2>3, LenProperties, PreCampaignStepServes
    <3> HIDE DEF p
    <3>2. Acts(i, G, H, {m}, n, p)
      BY <3>1, MayActs
    <3> QED BY <2>1, <3>2
  <2> QED BY <2>2, <2>3
<1>4. CASE ~dropped /\ t = "PreCampaignResponse"
  <2> DEFINE p == PreCampaignResponseStep(n, m)
  <2>1. r = p
    BY <1>4 DEF Step, PreVoteTypes
  <2>2. CASE n.role.kind = "Leader"
    <3>1. p = Done(n, {})
      BY <2>2 DEF PreCampaignResponseStep
    <3> QED BY <2>1, <3>1, StaysActs
  <2>3. CASE n.role.kind # "Leader"
    <3>1. ASSUME NEW a \in [Server -> Nat], NEW l \in Seq(StaticEntry)
          PROVE  \/ Serves(i, {m}, l, n, 0, p)
                 \/ \E s \in Nat : Governs(i, a, s, n, p)
      BY <1>1, <2>3, LenProperties, PreCampaignResponseStepMay
    <3> HIDE DEF p
    <3>2. Acts(i, G, H, {m}, n, p)
      BY <3>1, MayActs
    <3> QED BY <2>1, <3>2
  <2> QED BY <2>2, <2>3
<1>5. CASE ~dropped /\ t \notin PreVoteTypes /\ m.term > n.log.term
  <2>1. r = After(d.out, FollowerStep(d.n, m))
    <3>1. t # "PreCampaign" /\ t # "PreCampaignResponse"
      BY <1>5 DEF PreVoteTypes
    <3> QED BY <1>1, <1>5, <3>1 DEF Step
  <2>2. /\ d \in Outcome(i) /\ Sound(d.n) /\ Plain(d.out)
        /\ d.n.log.ents = n.log.ents /\ d.n.log.commit = n.log.commit
        /\ d.n.log.term = m.term /\ d.n.log.vote = Nil
        /\ d.n.role.kind = "Follower"
    BY <1>1, DiscoverTermSound
  <2> HIDE DEF d
  <2>3. d.n \in StaticNode(i) /\ d.out \in SUBSET StaticEnv(i)
        /\ d.n.log.term > n.log.term
    BY <1>5, <2>2 DEF Outcome
  <2>4. Fits(H[m.term], n, m.term) /\ Told(H[m.term], m)
    <3>1. m.term >= n.log.term
      BY <1>1, <1>5
    <3> QED BY <1>5, <3>1 DEF Relies
  <2>5. Acts(i, G, H, {m}, n, After(d.out, FollowerStep(d.n, m)))
    BY <1>1, <2>2, <2>3, <2>4, FollowerStepActs
  <2> HIDE DEF r
  <2> QED BY <2>1, <2>5 DEF r
<1>6. CASE ~dropped /\ t \notin PreVoteTypes /\ m.term = n.log.term
  <2>1. r = SameTermStep(n, m)
    <3>1. t # "PreCampaign" /\ t # "PreCampaignResponse"
          /\ ~(m.term > Term(n))
      BY <1>1, <1>6 DEF PreVoteTypes
    <3> QED BY <1>6, <3>1 DEF Step
  <2> QED BY <1>6, <2>1, SameTermStepActs
<1>7. \/ dropped
      \/ ~dropped /\ t = "PreCampaign"
      \/ ~dropped /\ t = "PreCampaignResponse"
      \/ ~dropped /\ t \notin PreVoteTypes /\ m.term > n.log.term
      \/ ~dropped /\ t \notin PreVoteTypes /\ m.term = n.log.term
  BY <1>1 DEF PreVoteTypes
<1> HIDE DEF r
<1> QED BY <1>2, <1>3, <1>4, <1>5, <1>6, <1>7

\* Node::tick of a node whose election timeout expires.
LEMMA ElectionTickActs ==
  ASSUME NEW i \in Server, NEW G, NEW H, Histories(G, H), NEW n,
         Granting(i, G, n), NEW M
  PROVE  Acts(i, G, H, M, n, ElectionTick(n))
<1> DEFINE r == ElectionTick(n)
<1>1. n \in StaticNode(i) /\ Sound(n)
  BY DEF Granting
<1>2. ASSUME NEW l \in Seq(StaticEntry)
      PROVE  Serves(i, M, l, n, 0, r)
  <2>1. Len(l) \in Nat
    BY LenProperties
  <2>2. CASE n.role.kind = "Follower"
    <3>1. r = IntoCandidate(n, TRUE)
      BY <2>2 DEF ElectionTick
    <3>2. TRUE \in BOOLEAN
      OBVIOUS
    <3>3. Serves(i, M, l, n, 0, IntoCandidate(n, TRUE))
      BY <1>1, <2>1, <2>2, <3>2, IntoCandidateServes, Zenon
    <3> QED BY <3>1, <3>3
  <2>3. CASE n.role.kind # "Follower"
    <3>1. r \in {PreCampaign(n), Campaign(n)}
      BY <2>3 DEF ElectionTick
    <3>2. Serves(i, M, l, n, 0, PreCampaign(n))
      BY <1>1, <2>1, PreCampaignServes
    <3>3. Serves(i, M, l, n, 0, Campaign(n))
      BY <1>1, <2>1, CampaignServes
    <3> QED BY <3>1, <3>2, <3>3
  <2> QED BY <2>2, <2>3
<1> HIDE DEF r
<1>3. Acts(i, G, H, M, n, r)
  BY <1>2, MayActs
<1> QED BY <1>3 DEF r

\* Node::tick of a leader.
LEMMA LeaderTickActs ==
  ASSUME NEW i \in Server, NEW G, NEW H, Histories(G, H), NEW n,
         Granting(i, G, n), n.role.kind = "Leader", NEW M,
         NEW due \in BOOLEAN, NEW heard
  PROVE  Acts(i, G, H, M, n, LeaderTick(n, due, heard))
<1> DEFINE a == G[n.log.term]
           r == LeaderTick(n, due, heard)
<1>1. Tracks(i, a, n) /\ Current(n) /\ n \in StaticNode(i)
  BY DEF Granting
<1>2. a \in [Server -> Nat]
  <2>1. n.log.term \in Nat
    BY <1>1, FieldTypes
  <2> QED BY <2>1 DEF Histories
<1> HIDE DEF a
<1>3. \E s \in Nat : Governs(i, a, s, n, r)
  BY <1>1, <1>2, LeaderTickGoverns
<1>4. SameBallot(n.log, r.n.log)
  BY <1>1, <1>2, LeaderTickGoverns
<1> HIDE DEF r
<1>5. Acts(i, G, H, M, n, r)
  BY <1>3, <1>4, LeaderActs DEF a
<1> QED BY <1>5 DEF r

-----------------------------------------------------------------------------
(* Node::new.                                                              *)

\* A node started again on what it had persisted, its commit index perhaps an
\* earlier one: a follower with the same log, or, alone, the next leader.
LEMMA NewNodeActs ==
  ASSUME SnapshotThreshold = 0, StaticMembership,
         NEW i \in Server, NEW G, NEW H, Histories(G, H),
         NEW n \in StaticNode(i), Sound(n), NEW M,
         NEW commit \in Nat, commit <= n.log.commit
  PROVE  Acts(i, G, H, M, n, NewNode(i, Reopened(n.log, commit)))
<1> DEFINE log == Reopened(n.log, commit)
           f == Fresh(i, log)
           k == MaybeApply(f)
           c == IntoCandidate(k, FALSE)
           won == IF c.n.role.kind = "Panicked" THEN c
                  ELSE After(c.out, IntoLeader(c.n))
           r == NewNode(i, log)
<1>1. /\ n.log \in StaticLog /\ n.log.commit \in Nat /\ n.log.first = 1
      /\ n.log.snapTerm = 0 /\ n.log.commit <= Len(n.log.ents)
      /\ Len(n.log.ents) \in Nat
  BY FieldTypes, SoundLog DEF Sound
<1>2. /\ log \in StaticLog /\ log.first = 1 /\ log.snapTerm = 0
      /\ log.commit = commit /\ log.ents = n.log.ents
      /\ SameBallot(n.log, log)
  BY <1>1 DEF Reopened, StaticLog, SameBallot
<1> HIDE DEF log
<1>3. f \in StaticNode(i) /\ f.log = log /\ f.role.kind = "Follower"
      /\ r = Started(k)
  BY <1>2, FreshType
<1>4. f.sm = Played(f.log.ents, 0)
  <2>1. f.sm = EmptyState
    BY <1>2 DEF Fresh
  <2>2. Played(f.log.ents, 0) = EmptyState
    BY DEF Played, EmptyState
  <2> QED BY <2>1, <2>2
<1> HIDE DEF f
<1>5. k \in StaticNode(i) /\ Sound(k) /\ k.log = log /\ k.role.kind = "Follower"
  <2>1. f.log.first = 1 /\ f.log.snapTerm = 0 /\ 0 <= f.log.commit
        /\ f.log.commit <= Len(f.log.ents)
    BY <1>1, <1>2, <1>3
  <2> QED BY <1>3, <1>4, <2>1, ApplySound
<1> HIDE DEF k, r
<1>6. r = IF Cardinality(Server) = 1 THEN won ELSE Done(k, {})
  <2>1. ClusterSize(k) = Cardinality(Server)
    BY <1>5, PeersOf
  <2> QED BY <1>3, <2>1 DEF Started, Then
<1>7. ASSUME NEW l \in Seq(StaticEntry)
      PROVE  Serves(i, M, l, n, 0, Done(k, {}))
  <2>1. k.log.ents = n.log.ents /\ k.log.commit <= n.log.commit
        /\ k.role.kind \notin {"Leader", "Panicked"}
    BY <1>2, <1>5
  <2>2. Casts(i, M, n, k)
    BY <1>2, <1>5 DEF Casts, Elective
  <2>3. {} \in SUBSET StaticEnv(i) /\ Vouches(M, l, 0, k, {})
    BY DEF Vouches
  <2> QED BY <1>5, <2>1, <2>2, <2>3, LenProperties, ServesIdle
<1>8. ASSUME NEW a \in [Server -> Nat]
      PROVE  \E s \in Nat : Governs(i, a, s, n, won)
  <2> DEFINE no == FALSE
  <2>1. no \in BOOLEAN /\ ~no /\ Len(<<>>) \in Nat
    OBVIOUS
  <2>2. c = IntoCandidate(k, no)
    OBVIOUS
  <2> HIDE DEF c, no
  <2>3. Bidding(i, k, c)
    BY <1>5, <2>1, <2>2, IntoCandidateServes
  <2>4. won = After(c.out, IntoLeader(c.n))
    BY <2>3 DEF Bidding
  <2>5. /\ c.n \in StaticNode(i) /\ Sound(c.n) /\ c.n.log.vote = i
        /\ c.n.log.ents = n.log.ents /\ c.n.log.commit <= n.log.commit
        /\ c.out \in SUBSET StaticEnv(i) /\ Bids(c.n.log.term, c.out)
    BY <1>2, <1>5, <2>3 DEF Bidding
  <2>6. c.n.log.term > n.log.term
    BY <1>2, <1>5, <2>3 DEF Bidding, SameBallot
  <2> HIDE DEF won
  <2> QED BY <2>4, <2>5, <2>6, OfficeGoverns
<1> HIDE DEF won
<1>9. Acts(i, G, H, M, n, r)
  <2>1. ASSUME NEW a \in [Server -> Nat], NEW l \in Seq(StaticEntry)
        PROVE  \/ Serves(i, M, l, n, 0, r)
               \/ \E s \in Nat : Governs(i, a, s, n, r)
    BY <1>6, <1>7, <1>8
  <2> QED BY <2>1, MayActs
<1> QED BY <1>9 DEF r, log
=============================================================================
