-------------------------- MODULE RaftClientProofs --------------------------
(***************************************************************************)
(* What clients are told is true in every cluster whose membership does    *)
(* not change and that takes no snapshots: an acknowledged write stays on  *)
(* a majority, and a read shows every write acknowledged before it.        *)
(*                                                                         *)
(* The invariant adds to the chronicle of RaftSafetyProofs an account: per *)
(* term, up to where each node has confirmed the reads of that term's      *)
(* leader.  A write is settled when a leader has committed its entry.  A   *)
(* read that a leader has numbered sees what was settled by then: that was *)
(* settled in the leader's term or in an earlier one, unless a majority    *)
(* has left the term without confirming the read, which is then never      *)
(* served.                                                                 *)
(***************************************************************************)
EXTENDS RaftSafetyProofs

\* A successful answer to one of a set of requests.
OkTo(S, m) ==
  /\ m.message.type = "ClientResponse"
  /\ m.message.status = "Ok"
  /\ m.message.id \in S

\* The answers to clients among what is sent.
Answering(out) == {m \in out : m.message.type = "ClientResponse"}

\* What is sent concerns neither clients nor reads.
Hush(out) ==
  \A m \in out : m.message.type \in {"Append", "Heartbeat", "Campaign",
                                     "InstallSnapshot", "CampaignResponse",
                                     "PreCampaign", "PreCampaignResponse"}

\* A majority has confirmed reads up to number s to node i, c being up to where
\* each node has confirmed reads to it.
Confirmed(i, c, s) ==
  \E Q \in SUBSET Server :
    /\ Majority(Server, Q)
    /\ \A v \in Q : v = i \/ c[v] >= s

-----------------------------------------------------------------------------
(* What a leader owes its clients and what it pays them.                   *)

\* Queued writes are entries of the term, queued reads are numbered, and
\* read confirmations that are counted were given.
Owes(i, c, n) ==
  /\ n.log.term > 0
  /\ IsFiniteSet(n.role.writes) /\ IsFiniteSet(n.role.reads)
  /\ n.role.membership_writes = {}
  /\ \A w \in n.role.writes :
       /\ w.index \in 1 .. Len(n.log.ents)
       /\ n.log.ents[w.index].cmd = w.id
       /\ n.log.ents[w.index].term = n.log.term
       /\ w.id \in Writes
  /\ \A rd \in n.role.reads :
       rd.seq > 0 /\ rd.seq <= n.role.read_seq /\ rd.id \in Reads
  /\ \A p \in Server \ {i} : /\ n.role.progress[p].read <= c[p]
                             /\ n.role.progress[p].read <= n.role.read_seq

\* A read that the leader n has queued, or queues in a call for one of the
\* requests in M, with a number not used before.
Queued(M, n, rd) ==
  \/ rd \in n.role.reads
  \/ /\ rd.seq > n.role.read_seq
     /\ \E m \in M : /\ m.message.type = "ClientRequest"
                     /\ m.message.request.id = rd.id

\* What a call on the leader n sends, k being the leader afterwards: a write is
\* acknowledged when an entry of the term with it is committed; a read is
\* answered when its number is confirmed, with all that is committed, an entry
\* of the term included.
Pays(i, c, M, n, k, m) ==
  /\ OkTo(Writes, m) =>
       \E y \in 1 .. k.log.commit :
         /\ k.log.ents[y].cmd = m.message.id
         /\ k.log.ents[y].term = k.log.term
  /\ OkTo(Reads, m) =>
       \E rd \in ReadType(Ids) :
         /\ Queued(M, n, rd) /\ rd.id = m.message.id
         /\ Confirmed(i, c, rd.seq)
         /\ \E y \in 1 .. k.log.commit :
              /\ y >= n.log.commit
              /\ k.log.ents[y].term >= k.log.term
              /\ m.message.data = Played(k.log.ents, y).data
  /\ m.message.type = "Read" =>
       m.term = k.log.term /\ m.message.seq <= k.role.read_seq
  /\ m.message.type \notin {"ClientRequest", "ReadResponse", "HeartbeatResponse"}

Earns(i, c, M, n, r) ==
  /\ Owes(i, c, r.n)
  /\ \A rd \in r.n.role.reads : Queued(M, n, rd)
  /\ IsFiniteSet(Answering(r.out))
  /\ \A m \in r.out : Pays(i, c, M, n, r.n, m)

\* What is neither an answer nor about reads is sent freely.
LEMMA HushPays ==
  ASSUME NEW i, NEW c, NEW M, NEW n, NEW k, NEW out, Hush(out)
  PROVE  /\ \A m \in out : Pays(i, c, M, n, k, m)
         /\ Answering(out) = {}
<1>1. ASSUME NEW m \in out
      PROVE  m.message.type \notin {"ClientRequest", "ClientResponse", "Read",
                                    "ReadResponse", "HeartbeatResponse"}
  BY DEF Hush
<1>2. Answering(out) = {}
  BY <1>1 DEF Answering
<1> QED BY <1>1, <1>2 DEF Pays, OkTo

\* Reads of a leader that has numbered more since.
LEMMA QueuedFrom ==
  ASSUME NEW M, NEW n, NEW k, n.role.read_seq \in Nat, k.role.read_seq \in Nat,
         \A rd \in k.role.reads : Queued(M, n, rd),
         k.role.read_seq >= n.role.read_seq,
         NEW rd \in ReadType(Ids), Queued(M, k, rd)
  PROVE  Queued(M, n, rd)
<1>1. rd.seq \in Nat
  BY DEF ReadType
<1>2. CASE rd \in k.role.reads
  BY <1>2
<1>3. CASE rd \notin k.role.reads
  BY <1>1, <1>3 DEF Queued
<1> QED BY <1>2, <1>3


\* The numbers of reads are naturals.
LEMMA SeqTypes ==
  ASSUME NEW m \in StaticMessage
  PROVE  /\ m.type \in {"Read", "ReadResponse"} => m.seq \in Nat
         /\ m.type \in {"Heartbeat", "HeartbeatResponse"} => m.read_seq \in Nat
         /\ m.type = "ClientRequest" => m.request \in Requests
         /\ m.type = "ClientResponse" =>
              /\ m.id \in Ids /\ m.status \in {"Ok", "Abort", "Invalid"}
              /\ m.data \in Seq(Cmd)
BY DEF StaticMessage

\* What was paid stays paid when the leader goes on.
LEMMA PaysOn ==
  ASSUME NEW i \in Server, NEW a \in [Server -> Nat], NEW c, NEW M, NEW n,
         NEW k, Tracks(i, a, k), NEW q, Works(i, a, k, q),
         NEW m \in StaticEnv(i), Pays(i, c, M, n, k, m)
  PROVE  Pays(i, c, M, n, q.n, m)
<1> DEFINE x == k.log.ents
           z == q.n.log.ents
<1>1. /\ k.log.commit \in Nat /\ q.n.log.commit \in Nat
      /\ k.log.commit <= q.n.log.commit /\ q.n.log.term = k.log.term
      /\ k.log.commit <= Len(x) /\ Len(x) \in Nat
      /\ k.role.read_seq \in Nat /\ q.n.role.read_seq \in Nat
      /\ q.n.role.read_seq >= k.role.read_seq
  BY TracksTypes, Zenon DEF Works, Tracks, Sound, Leading, Keeps, SameBallot
<1>2. \A y \in 1 .. Len(x) : x[y] = z[y]
  BY DEF Works, Longer, SameTo
<1> HIDE DEF x, z
<1>3. \A y \in 1 .. k.log.commit : y \in 1 .. q.n.log.commit /\ x[y] = z[y]
  BY <1>1, <1>2
<1>4. \A y \in 1 .. k.log.commit : Played(x, y) = Played(z, y)
  <2> SUFFICES ASSUME NEW y \in 1 .. k.log.commit
               PROVE  Played(x, y) = Played(z, y)
    OBVIOUS
  <2>1. \A u \in 1 .. y : x[u] = z[u]
    BY <1>1, <1>2
  <2> QED BY <2>1 DEF Played
<1>5. OkTo(Writes, m) =>
        \E y \in 1 .. q.n.log.commit : /\ z[y].cmd = m.message.id
                                      /\ z[y].term = q.n.log.term
  BY <1>1, <1>3 DEF Pays, x
<1>6. OkTo(Reads, m) =>
        \E rd \in ReadType(Ids) :
          /\ Queued(M, n, rd) /\ rd.id = m.message.id
          /\ Confirmed(i, c, rd.seq)
          /\ \E y \in 1 .. q.n.log.commit :
               /\ y >= n.log.commit
               /\ z[y].term >= q.n.log.term
               /\ m.message.data = Played(z, y).data
  <2> HAVE OkTo(Reads, m)
  <2>1. PICK rd \in ReadType(Ids) :
          /\ Queued(M, n, rd) /\ rd.id = m.message.id
          /\ Confirmed(i, c, rd.seq)
          /\ \E y \in 1 .. k.log.commit :
               /\ y >= n.log.commit
               /\ x[y].term >= k.log.term
               /\ m.message.data = Played(x, y).data
    BY DEF Pays, x
  <2>2. PICK y \in 1 .. k.log.commit :
               /\ y >= n.log.commit
               /\ x[y].term >= k.log.term
               /\ m.message.data = Played(x, y).data
    BY <2>1
  <2>3. /\ y \in 1 .. q.n.log.commit /\ z[y].term >= q.n.log.term
        /\ m.message.data = Played(z, y).data
    BY <1>1, <1>3, <1>4, <2>2
  <2> QED BY <2>1, <2>2, <2>3
<1>7. m.message.type = "Read" =>
        m.term = q.n.log.term /\ m.message.seq <= q.n.role.read_seq
  <2> HAVE m.message.type = "Read"
  <2>1. m.message \in StaticMessage
    BY DEF StaticEnv
  <2>2. m.message.seq \in Nat
    BY <2>1, SeqTypes
  <2>3. m.term = k.log.term /\ m.message.seq <= k.role.read_seq
    BY DEF Pays
  <2> QED BY <1>1, <2>2, <2>3
<1> QED BY <1>5, <1>6, <1>7 DEF Pays, z

\* What is paid on behalf of a leader that has gone on since.
LEMMA PaysFrom ==
  ASSUME NEW i, NEW c, NEW M, NEW n, NEW k, NEW q, NEW m,
         n.log.commit \in Nat, k.log.commit \in Nat,
         n.log.commit <= k.log.commit,
         \A rd \in ReadType(Ids) : Queued(M, k, rd) => Queued(M, n, rd),
         Pays(i, c, M, k, q, m)
  PROVE  Pays(i, c, M, n, q, m)
<1>1. OkTo(Reads, m) =>
        \E rd \in ReadType(Ids) :
          /\ Queued(M, n, rd) /\ rd.id = m.message.id
          /\ Confirmed(i, c, rd.seq)
          /\ \E y \in 1 .. q.log.commit :
               /\ y >= n.log.commit
               /\ q.log.ents[y].term >= q.log.term
               /\ m.message.data = Played(q.log.ents, y).data
  <2> HAVE OkTo(Reads, m)
  <2>1. PICK rd \in ReadType(Ids) :
          /\ Queued(M, k, rd) /\ rd.id = m.message.id
          /\ Confirmed(i, c, rd.seq)
          /\ \E y \in 1 .. q.log.commit :
               /\ y >= k.log.commit
               /\ q.log.ents[y].term >= q.log.term
               /\ m.message.data = Played(q.log.ents, y).data
    BY DEF Pays
  <2>2. \A y \in 1 .. q.log.commit : y >= k.log.commit => y >= n.log.commit
    OBVIOUS
  <2> QED BY <2>1, <2>2
<1> QED BY <1>1 DEF Pays

\* One call after another.
LEMMA EarnsAfter ==
  ASSUME NEW i \in Server, NEW a \in [Server -> Nat], NEW c, NEW M, NEW n,
         Tracks(i, a, n), NEW r, Works(i, a, n, r), Earns(i, c, M, n, r),
         NEW q, Works(i, a, r.n, q), Earns(i, c, M, r.n, q)
  PROVE  Earns(i, c, M, n, After(r.out, q))
<1> DEFINE s == Done(q.n, r.out \cup q.out)
<1>1. /\ Tracks(i, a, r.n) /\ Tracks(i, a, q.n) /\ r.out \in SUBSET StaticEnv(i)
      /\ q.n.role.kind = "Leader"
      /\ r.n.log.commit >= n.log.commit /\ r.n.role.read_seq >= n.role.read_seq
  BY DEF Works, Leading, Keeps, Outcome, Tracks
<1>2. n.log.commit \in Nat /\ r.n.log.commit \in Nat
      /\ n.role.read_seq \in Nat /\ r.n.role.read_seq \in Nat
  BY <1>1, TracksTypes
<1>3. After(r.out, q) = s /\ s.n = q.n /\ s.out = r.out \cup q.out
  BY <1>1 DEF After, Done
<1>4. \A rd \in ReadType(Ids) : Queued(M, r.n, rd) => Queued(M, n, rd)
  BY <1>1, <1>2, QueuedFrom DEF Earns
<1>5. \A rd \in q.n.role.reads : Queued(M, n, rd)
  <2>1. q.n.role.reads \subseteq ReadType(Ids)
    BY <1>1, LeadTypes DEF Tracks, Lead, LeaderType
  <2> QED BY <1>4, <2>1 DEF Earns
<1>6. IsFiniteSet(Answering(s.out))
  <2>1. IsFiniteSet(Answering(r.out)) /\ IsFiniteSet(Answering(q.out))
    BY DEF Earns
  <2>2. Answering(s.out) = Answering(r.out) \cup Answering(q.out)
    BY <1>3 DEF Answering
  <2> QED BY <2>1, <2>2, FS_Union
<1>7. \A m \in s.out : Pays(i, c, M, n, q.n, m)
  <2> SUFFICES ASSUME NEW m \in s.out
               PROVE  Pays(i, c, M, n, q.n, m)
    OBVIOUS
  <2>1. CASE m \in r.out
    <3>1. m \in StaticEnv(i) /\ Pays(i, c, M, n, r.n, m)
      BY <1>1, <2>1 DEF Earns
    <3> QED BY <1>1, <3>1, PaysOn
  <2>2. CASE m \in q.out
    <3>1. Pays(i, c, M, r.n, q.n, m)
      BY <2>2 DEF Earns
    <3> QED BY <1>1, <1>2, <1>4, <3>1, PaysFrom
  <2> QED BY <1>3, <2>1, <2>2
<1> HIDE DEF s
<1> QED BY <1>3, <1>5, <1>6, <1>7 DEF Earns

\* The leader k is as the leader n was for clients, its log perhaps longer.
Alike(i, n, k) ==
  /\ k.role.kind = "Leader"
  /\ k.role.writes = n.role.writes
  /\ k.role.membership_writes = n.role.membership_writes
  /\ k.role.reads = n.role.reads
  /\ k.role.read_seq = n.role.read_seq
  /\ \A p \in Server \ {i} : k.role.progress[p].read = n.role.progress[p].read

\* It owes the same.
LEMMA OwesAlike ==
  ASSUME NEW i, NEW c, NEW n, Owes(i, c, n), NEW k, Alike(i, n, k),
         k.log.term = n.log.term, Len(n.log.ents) \in Nat, Len(k.log.ents) \in Nat,
         Longer(n.log.ents, k.log.ents, n.log.term)
  PROVE  /\ Owes(i, c, k)
         /\ \A M : \A rd \in k.role.reads : Queued(M, n, rd)
<1> DEFINE x == n.log.ents
           z == k.log.ents
<1>1. Len(x) <= Len(z) /\ \A y \in 1 .. Len(x) : x[y] = z[y]
  BY DEF Longer, SameTo
<1>2. \A w \in n.role.writes :
        /\ w.index \in 1 .. Len(x)
        /\ x[w.index].cmd = w.id
        /\ x[w.index].term = n.log.term
        /\ w.id \in Writes
  BY DEF Owes
<1> HIDE DEF x, z
<1>3. \A w \in n.role.writes :
        /\ w.index \in 1 .. Len(z)
        /\ z[w.index].cmd = w.id
        /\ z[w.index].term = k.log.term
        /\ w.id \in Writes
  BY <1>1, <1>2 DEF x, z
<1>4. \A M : \A rd \in k.role.reads : Queued(M, n, rd)
  BY DEF Alike, Queued
<1> QED BY <1>3, <1>4 DEF Alike, Owes, z

\* A call that concerns neither clients nor reads.
LEMMA EarnsHush ==
  ASSUME NEW i \in Server, NEW a \in [Server -> Nat], NEW c, NEW M, NEW n,
         Tracks(i, a, n), Owes(i, c, n), NEW r, Works(i, a, n, r),
         Alike(i, n, r.n), Hush(r.out)
  PROVE  Earns(i, c, M, n, r)
<1>1. /\ Len(n.log.ents) \in Nat /\ Len(r.n.log.ents) \in Nat
      /\ r.n.log.term = n.log.term
      /\ Longer(n.log.ents, r.n.log.ents, n.log.term)
  BY TracksTypes, Zenon DEF Works, Leading, Keeps, SameBallot
<1>2. /\ Owes(i, c, r.n)
      /\ \A rd \in r.n.role.reads : Queued(M, n, rd)
  BY <1>1, OwesAlike
<1>3. Answering(r.out) = {} /\ \A m \in r.out : Pays(i, c, M, n, r.n, m)
  BY HushPays
<1>4. IsFiniteSet(Answering(r.out))
  BY <1>3, FS_EmptySet
<1> QED BY <1>2, <1>3, <1>4 DEF Earns

-----------------------------------------------------------------------------
(* Replication concerns no client.                                         *)

\* maybe_send_append to one peer sends entries and leaves what the peer has
\* confirmed of reads.
LEMMA AppendToHush ==
  ASSUME NEW i \in Server, NEW n \in StaticNode(i), n.role.kind = "Leader",
         NEW p \in Server \ {i}, NEW probe \in BOOLEAN
  PROVE  LET s == AppendTo(n, p, probe)
         IN s.pr.read = n.role.progress[p].read /\ Hush(s.out)
<1> DEFINE log == n.log
           pr == n.role.progress[p]
           probing == probe /\ pr.next > pr.match + 1
           ents == IF probing THEN <<>>
                   ELSE Scan(log, pr.next, pr.next + MaxAppendEntries - 1)
           install == [type |-> "InstallSnapshot",
                       last_included_index |-> SnapshotIndex(log),
                       last_included_term |-> log.snapTerm,
                       data |-> n.sm, membership |-> n.mem.active]
           sound == /\ pr.match < pr.next
                    /\ pr.match <= LastIndex(log)
                    /\ pr.next <= LastIndex(log) + 1
           append == [type |-> "Append", base_index |-> pr.next - 1,
                      base_term |-> TermAt(log, pr.next - 1), entries |-> ents]
           still == \/ pr.next >= log.first /\ pr.match = LastIndex(log)
                    \/ /\ pr.next >= log.first /\ pr.next > LastIndex(log)
                       /\ ~probing
           snapshot == [pr |-> pr, out |-> {Env(n, p, install)}, ok |-> sound]
           nothing == [pr |-> pr, out |-> {}, ok |-> sound]
           next == [pr EXCEPT !.next = @ + Len(ents)]
           ok == sound /\ (pr.next = 1 \/ Stored(log, pr.next - 1))
           entries == [pr |-> next, out |-> {Env(n, p, append)}, ok |-> ok]
<1>1. log.first \in Nat /\ pr \in ProgressType /\ pr.next \in Nat
  <2>1. n.role.progress \in [Server \ {i} -> ProgressType]
    BY LeadTypes
  <2>2. pr \in ProgressType
    BY <2>1
  <2> QED BY <2>2, FieldTypes DEF ProgressType
<1>2. AppendTo(n, p, probe) \in {snapshot, nothing, entries}
  <2> HIDE DEF snapshot, nothing, entries
  <2>1. CASE pr.next < log.first
    <3>1. AppendTo(n, p, probe) = snapshot
      <4> HIDE DEF pr, log
      <4> QED BY <1>1, <2>1 DEF AppendTo, pr, log, snapshot
    <3> QED BY <3>1
  <2>2. CASE pr.next >= log.first /\ still
    <3>1. AppendTo(n, p, probe) = nothing
      <4> HIDE DEF pr, log
      <4> QED BY <1>1, <2>2 DEF AppendTo, pr, log, nothing
    <3> QED BY <3>1
  <2>3. CASE pr.next >= log.first /\ ~still
    <3>1. AppendTo(n, p, probe) = entries
      <4> HIDE DEF pr, log
      <4> QED BY <1>1, <2>3 DEF AppendTo, pr, log, entries
    <3> QED BY <3>1
  <2> HIDE DEF pr, log
  <2> QED BY <1>1, <2>1, <2>2, <2>3
<1>3. /\ Env(n, p, install).message.type = "InstallSnapshot"
      /\ Env(n, p, append).message.type = "Append"
  BY DEF Env
<1>4. next.read = pr.read
  <2> HIDE DEF ents, pr
  <2> QED BY <1>1 DEF ProgressType
<1> HIDE DEF install, append, ents, pr, log, next, sound, ok
<1>5. CASE AppendTo(n, p, probe) = snapshot
  BY <1>3, <1>5 DEF Hush, pr
<1>6. CASE AppendTo(n, p, probe) = nothing
  BY <1>6 DEF Hush, pr
<1>7. CASE AppendTo(n, p, probe) = entries
  BY <1>3, <1>4, <1>7 DEF Hush, pr
<1> HIDE DEF snapshot, nothing, entries
<1> QED BY <1>2, <1>5, <1>6, <1>7

\* The leader with another progress of its peers, as far as clients go.
LEMMA ProgressAlike ==
  ASSUME NEW i \in Server, NEW n \in StaticNode(i), n.role.kind = "Leader",
         NEW new, \A p \in Server \ {i} : new[p].read = n.role.progress[p].read
  PROVE  Alike(i, n, [n EXCEPT !.role.progress = new])
<1> DEFINE x == [n.role EXCEPT !.progress = new]
           k == [n EXCEPT !.role.progress = new]
<1>1. n.role \in Lead(i)
  BY LeadTypes
<1>2. /\ x.progress = new /\ x.writes = n.role.writes /\ x.kind = "Leader"
      /\ x.membership_writes = n.role.membership_writes
      /\ x.reads = n.role.reads /\ x.read_seq = n.role.read_seq
  BY <1>1 DEF Lead, LeaderType
<1>3. k.role = x
  BY DEF StaticNode
<1> HIDE DEF x, k
<1> QED BY <1>2, <1>3 DEF Alike, k

\* maybe_send_append
LEMMA SendEarns ==
  ASSUME NEW i \in Server, NEW a \in [Server -> Nat], NEW c, NEW M, NEW n,
         Tracks(i, a, n), Owes(i, c, n),
         NEW P \in SUBSET (Server \ {i}), NEW probe \in BOOLEAN
  PROVE  /\ Earns(i, c, M, n, MaybeSendAppend(n, P, probe))
         /\ Alike(i, n, MaybeSendAppend(n, P, probe).n)
         /\ Hush(MaybeSendAppend(n, P, probe).out)
<1> DEFINE sent == [p \in P |-> AppendTo(n, p, probe)]
           old == n.role.progress
           new == [p \in DOMAIN old |-> IF p \in DOMAIN sent THEN sent[p].pr
                                        ELSE old[p]]
           k == [n EXCEPT !.role.progress = new]
           out == UNION {sent[p].out : p \in DOMAIN sent}
           r == MaybeSendAppend(n, P, probe)
           all == \A p \in DOMAIN sent : sent[p].ok
<1>1. /\ n \in StaticNode(i) /\ n.role.kind = "Leader"
      /\ old \in [Server \ {i} -> ProgressType]
  BY TracksTypes
<1>2. \A p \in P : sent[p].pr.read = old[p].read /\ Hush(sent[p].out)
  BY <1>1, AppendToHush
<1>3. DOMAIN sent = P /\ DOMAIN old = Server \ {i}
  BY <1>1
<1>4. \A p \in Server \ {i} : new[p].read = old[p].read
  <2> HIDE DEF old, sent
  <2> QED BY <1>2, <1>3
<1>5. Hush(out)
  <2> HIDE DEF sent
  <2> QED BY <1>2, <1>3 DEF Hush
<1>6. Alike(i, n, k)
  <2> HIDE DEF new
  <2> QED BY <1>1, <1>4, ProgressAlike
<1>7. Works(i, a, n, r)
  BY SendWorks
<1>8. r = Require(all, "missing base entry", Done(k, out))
  BY DEF MaybeSendAppend, Sent
<1> HIDE DEF k, out, all, r
<1>9. r.n.role.kind = "Leader"
  BY <1>7, TracksTypes DEF Works
<1>10. r = Done(k, out)
  <2>1. CASE all
    BY <1>8, <2>1 DEF Require
  <2>2. CASE ~all
    <3>1. r = Panic(k, "missing base entry")
      BY <1>8, <2>2 DEF Require, Done
    <3>2. \A y : [k EXCEPT !.role = y].role = y
      BY <1>1 DEF k, StaticNode
    <3> DEFINE z == [kind |-> "Panicked", why |-> "missing base entry"]
    <3>3. z.kind = "Panicked"
      OBVIOUS
    <3>4. r.n.role = z
      BY <3>1, <3>2 DEF Panic, Done
    <3> HIDE DEF z
    <3> QED BY <1>9, <3>3, <3>4
  <2> QED BY <2>1, <2>2
<1>11. r.n = k /\ r.out = out
  BY <1>10 DEF Done
<1>12. Earns(i, c, M, n, r)
  BY <1>5, <1>6, <1>7, <1>11, EarnsHush
<1> QED BY <1>5, <1>6, <1>11, <1>12 DEF r

\* So does sending the entry just appended.
LEMMA ReplicateLastEarns ==
  ASSUME NEW i \in Server, NEW a \in [Server -> Nat], NEW c, NEW M, NEW n,
         Tracks(i, a, n), Owes(i, c, n)
  PROVE  /\ Earns(i, c, M, n, ReplicateLast(n))
         /\ Alike(i, n, ReplicateLast(n).n) /\ Hush(ReplicateLast(n).out)
<1> DEFINE P == {p \in Peers(n) : n.role.progress[p].next = LastIndex(n.log)}
           no == FALSE
<1>1. P \in SUBSET (Server \ {i}) /\ no \in BOOLEAN
  BY TracksTypes, PeersOf
<1>2. ReplicateLast(n) = MaybeSendAppend(n, P, no)
  BY DEF ReplicateLast
<1> HIDE DEF P, no
<1> QED BY <1>1, <1>2, SendEarns

\* maybe_send_append to one peer.
LEMMA SendToEarns ==
  ASSUME NEW i \in Server, NEW a \in [Server -> Nat], NEW c, NEW M, NEW n,
         Tracks(i, a, n), Owes(i, c, n), NEW p, NEW probe \in BOOLEAN
  PROVE  Earns(i, c, M, n, SendTo(n, p, probe))
<1> DEFINE P == {p} \cap DOMAIN n.role.progress
<1>1. P \in SUBSET (Server \ {i})
  BY TracksTypes
<1>2. SendTo(n, p, probe) = MaybeSendAppend(n, P, probe)
  BY DEF SendTo
<1> HIDE DEF P
<1> QED BY <1>1, <1>2, SendEarns

\* What a leader does on behalf of another that it is, with a longer log perhaps.
LEMMA EarnsFrom ==
  ASSUME NEW i \in Server, NEW a \in [Server -> Nat], NEW c, NEW M, NEW n,
         Tracks(i, a, n), NEW k, Tracks(i, a, k), k.log.commit >= n.log.commit,
         \A rd \in ReadType(Ids) : Queued(M, k, rd) => Queued(M, n, rd),
         NEW r, Works(i, a, k, r), Earns(i, c, M, k, r)
  PROVE  Earns(i, c, M, n, r)
<1>1. n.log.commit \in Nat /\ k.log.commit \in Nat
  BY TracksTypes
<1>2. r.n.role.reads \subseteq ReadType(Ids)
  <2>1. r.n \in StaticNode(i) /\ r.n.role.kind = "Leader"
    BY DEF Works, Tracks
  <2> QED BY <2>1, LeadTypes
<1>3. \A m \in r.out : Pays(i, c, M, n, r.n, m)
  <2> SUFFICES ASSUME NEW m \in r.out
               PROVE  Pays(i, c, M, n, r.n, m)
    OBVIOUS
  <2>1. Pays(i, c, M, k, r.n, m)
    BY DEF Earns
  <2> QED BY <1>1, <2>1, PaysFrom
<1> QED BY <1>2, <1>3 DEF Earns

\* Reads that are queued by one leader are queued by the other.
LEMMA QueuedAlike ==
  ASSUME NEW i, NEW n, NEW k, Alike(i, n, k)
  PROVE  \A M, rd : Queued(M, k, rd) => Queued(M, n, rd)
BY DEF Alike, Queued

LEMMA AlikeTwice ==
  ASSUME NEW i, NEW n, NEW k, NEW q, Alike(i, n, k), Alike(i, k, q)
  PROVE  Alike(i, n, q)
BY DEF Alike

\* The queues and reads are in the role.
LEMMA AlikeRole ==
  ASSUME NEW i, NEW n, NEW k, k.role = n.role, n.role.kind = "Leader"
  PROVE  Alike(i, n, k)
BY DEF Alike

\* Nothing happens.
LEMMA EarnsStay ==
  ASSUME NEW i \in Server, NEW a \in [Server -> Nat], NEW c, NEW M, NEW n,
         Tracks(i, a, n), Owes(i, c, n)
  PROVE  Earns(i, c, M, n, Done(n, {}))
<1> DEFINE r == Done(n, {})
<1>1. r.n = n /\ r.out = {}
  BY DEF Done
<1>2. Works(i, a, n, r)
  BY WorksStay
<1>3. n.role.kind = "Leader"
  BY DEF Tracks
<1> HIDE DEF r
<1>4. Alike(i, n, r.n) /\ Hush(r.out)
  BY <1>1, <1>3, AlikeRole DEF Hush
<1>5. Earns(i, c, M, n, r)
  BY <1>2, <1>4, EarnsHush
<1> QED BY <1>5 DEF r

\* propose answers nobody: the entry's client is queued by the caller.
LEMMA ProposeEarns ==
  ASSUME NEW i \in Server, NEW a \in [Server -> Nat], NEW c, NEW M, NEW n,
         Tracks(i, a, n), Owes(i, c, n), NEW cmd \in Cmd
  PROVE  LET r == Propose(n, cmd)
         IN /\ Earns(i, c, M, n, r) /\ Alike(i, n, r.n) /\ Hush(r.out)
            /\ Len(r.n.log.ents) = Len(n.log.ents) + 1
            /\ r.n.log.ents[Len(n.log.ents) + 1].cmd = cmd
            /\ r.n.log.ents[Len(n.log.ents) + 1].term = r.n.log.term
<1> DEFINE k == WithEntry(n, cmd)
           r == ReplicateLast(k)
<1>1. /\ Tracks(i, a, k) /\ k.role = n.role
      /\ SameBallot(n.log, k.log) /\ k.log.commit = n.log.commit
      /\ Longer(n.log.ents, k.log.ents, n.log.term)
      /\ Len(k.log.ents) = Len(n.log.ents) + 1
      /\ k.log.ents[Len(n.log.ents) + 1].cmd = cmd
      /\ k.log.ents[Len(n.log.ents) + 1].term = n.log.term
  BY WithEntryTracks
<1>2. Propose(n, cmd) = r
  BY DEF Propose, WithEntry
<1>3. /\ Len(n.log.ents) \in Nat /\ Len(k.log.ents) \in Nat
      /\ n.role.kind = "Leader"
  BY <1>1, TracksTypes
<1> HIDE DEF k
<1>4. Alike(i, n, k)
  BY <1>1, <1>3, AlikeRole
<1>5. Owes(i, c, k)
  BY <1>1, <1>3, <1>4, OwesAlike DEF SameBallot
<1>6. Alike(i, k, r.n) /\ Hush(r.out)
  BY <1>1, <1>5, ReplicateLastEarns
<1>7. r.n.log = k.log
  BY <1>1, ReplicateLastWorks
<1>8. Works(i, a, n, r)
  BY <1>2, ProposeWorks
<1> HIDE DEF r
<1>9. Alike(i, n, r.n)
  BY <1>4, <1>6, AlikeTwice
<1>10. Earns(i, c, M, n, r)
  BY <1>6, <1>8, <1>9, EarnsHush
<1> QED BY <1>1, <1>2, <1>6, <1>7, <1>9, <1>10 DEF SameBallot

\* Answers to as many clients are as many.
LEMMA ImageFinite ==
  ASSUME NEW S, IsFiniteSet(S), NEW f, DOMAIN f = S, NEW T,
         T \subseteq {f[x] : x \in S}
  PROVE  IsFiniteSet(T)
<1> DEFINE R == {f[x] : x \in S}
           g == [x \in S |-> f[x]]
<1>1. g \in Surjection(S, R)
  BY DEF Surjection
<1>2. IsFiniteSet(R)
  BY <1>1, FS_Surjection
<1> QED BY <1>2, FS_Subset

\* No request is both a read and a write.
LEMMA ReadsNotWrites == Reads \cap Writes = {}
<1> SUFFICES ASSUME NEW p \in Requests, NEW q \in Requests, p.op = "Read",
                    q.op = "Write", p.id = q.id
             PROVE  FALSE
  BY DEF Reads, Writes
<1> QED BY ClusterAssumption

-----------------------------------------------------------------------------
(* Reads and commits.                                                      *)

\* The term of what is committed, 0 if nothing is.
LEMMA CommitTermOf ==
  ASSUME NEW i \in Server, NEW n \in StaticNode(i), Sound(n), n.log.term > 0,
         CommitTerm(n.log) >= n.log.term
  PROVE  /\ n.log.commit \in 1 .. n.log.commit
         /\ n.log.ents[n.log.commit].term >= n.log.term
<1>1. /\ n.log.commit \in Nat /\ n.log.term \in Nat
      /\ n.log.commit <= Len(n.log.ents) /\ Len(n.log.ents) \in Nat
      /\ n.log.first = 1 /\ n.log.snapTerm = 0
      /\ \A k \in 1 .. Len(n.log.ents) : TermAt(n.log, k) = n.log.ents[k].term
      /\ \A k \in Int : Stored(n.log, k) <=> k \in 1 .. Len(n.log.ents)
  BY SoundLog DEF Sound
<1>2. n.log.commit # 0
  <2> SUFFICES ASSUME n.log.commit = 0
               PROVE  FALSE
    OBVIOUS
  <2>1. ~Stored(n.log, 0)
    BY <1>1
  <2>2. TermAt(n.log, 0) = 0
    BY <1>1, <2>1 DEF TermAt
  <2> QED BY <1>1, <2>2 DEF CommitTerm
<1>3. n.log.commit \in 1 .. Len(n.log.ents)
  BY <1>1, <1>2
<1> QED BY <1>1, <1>2, <1>3 DEF CommitTerm

\* A number that a quorum of a leader's peers has confirmed, or the leader
\* itself.
LEMMA ConfirmedBy ==
  ASSUME NEW i \in Server, NEW a \in [Server -> Nat], NEW c \in [Server -> Nat],
         NEW n, Tracks(i, a, n), Owes(i, c, n), NEW s \in Nat,
         NEW Q \in SUBSET Server, Majority(Server, Q),
         \A v \in Q \ {i} : n.role.progress[v].read >= s
  PROVE  Confirmed(i, c, s)
<1>1. ASSUME NEW v \in Q, v # i
      PROVE  c[v] >= s
  <2>1. v \in Server \ {i}
    BY <1>1
  <2> DEFINE progress == n.role.progress
  <2>2. n.role.progress[v] \in ProgressType
    <3>1. progress \in [Server \ {i} -> ProgressType]
      BY TracksTypes
    <3> HIDE DEF progress
    <3>2. progress[v] \in ProgressType
      BY <2>1, <3>1
    <3> QED BY <3>2 DEF progress
  <2>3. n.role.progress[v].read \in Nat /\ c[v] \in Nat
    BY <2>2 DEF ProgressType
  <2>4. n.role.progress[v].read >= s /\ n.role.progress[v].read <= c[v]
    BY <1>1, <2>1 DEF Owes
  <2> QED BY <2>3, <2>4
<1> QED BY <1>1 DEF Confirmed

\* The answers of maybe_read are to reads whose number is confirmed, and show
\* all that is committed.
LEMMA MaybeReadEarns ==
  ASSUME NEW i \in Server, NEW a \in [Server -> Nat], NEW c \in [Server -> Nat],
         NEW M, NEW n, Tracks(i, a, n), Owes(i, c, n)
  PROVE  Earns(i, c, M, n, MaybeRead(n))
<1> DEFINE seqOf(j) == IF j = n.id THEN n.role.read_seq ELSE n.role.progress[j].read
           ids == {n.id} \cup DOMAIN n.role.progress
           voters(s) == {j \in ids : seqOf(j) >= s}
           confirmed == {s \in {seqOf(j) : j \in ids} :
                           HasQuorum(n.mem.active, voters(s))}
           top == Max({0} \cup confirmed)
           ready == {rd \in n.role.reads : rd.seq <= top}
           x == [n.role EXCEPT !.reads = n.role.reads \ ready]
           k == [n EXCEPT !.role = x]
           answer == [rd \in ready |-> Reply(n, rd.from, rd.id, "Ok", n.sm.data)]
           out == {answer[rd] : rd \in ready}
           s == Done(k, out)
<1>1. /\ n \in StaticNode(i) /\ n.role.kind = "Leader" /\ n.role.read_seq \in Nat
      /\ n.role \in Lead(i) /\ n.role.reads \in SUBSET ReadType(Ids) /\ Sound(n)
      /\ n.role.progress \in [Server \ {i} -> ProgressType]
      /\ n.id = i /\ n.log.commit \in Nat
  <2>1. n \in StaticNode(i) /\ n.role.kind = "Leader" /\ Sound(n)
        /\ n.role.read_seq \in Nat /\ n.log.commit \in Nat
        /\ n.role.progress \in [Server \ {i} -> ProgressType]
    BY TracksTypes
  <2>2. n.id = i
    BY <2>1, FieldTypes
  <2> QED BY <2>1, <2>2, LeadTypes
<1>2. MaybeRead(n) = IF CommitTerm(n.log) < Term(n) \/ n.sm.applied < n.log.commit
                     THEN Done(n, {}) ELSE s
  BY DEF MaybeRead
<1>3. CASE CommitTerm(n.log) < Term(n) \/ n.sm.applied < n.log.commit
  BY <1>2, <1>3, EarnsStay
<1>4. CASE ~(CommitTerm(n.log) < Term(n) \/ n.sm.applied < n.log.commit)
  <2>1. MaybeRead(n) = s
    BY <1>2, <1>4
  <2>2. /\ n.log.commit \in 1 .. n.log.commit
        /\ n.log.ents[n.log.commit].term >= n.log.term
    <3>1. CommitTerm(n.log) >= n.log.term
      <4>1. n.log \in StaticLog /\ n.log.term \in Nat
        BY <1>1, FieldTypes
      <4>2. CommitTerm(n.log) \in Nat
        BY <4>1, TermTypes DEF CommitTerm
      <4> QED BY <1>4, <4>1, <4>2 DEF Term
    <3>2. n.log.term > 0
      BY DEF Owes
    <3> QED BY <1>1, <3>1, <3>2, CommitTermOf
  <2>3. ASSUME NEW rd \in ready
        PROVE  /\ rd \in n.role.reads /\ rd.id \in Reads /\ rd \in ReadType(Ids)
               /\ Confirmed(i, c, rd.seq)
    <3>1. /\ rd \in n.role.reads /\ rd.seq <= top /\ rd.seq > 0
          /\ rd.id \in Reads /\ rd \in ReadType(Ids) /\ rd.seq \in Nat
      BY <1>1 DEF Owes, ReadType
    <3>2. \A j \in ids : seqOf(j) \in Nat /\ seqOf(j) <= n.role.read_seq
      <4> SUFFICES ASSUME NEW j \in Server \ {i}
                   PROVE  /\ n.role.progress[j].read \in Nat
                          /\ n.role.progress[j].read <= n.role.read_seq
        BY <1>1
      <4>1. n.role.progress[j] \in ProgressType
        BY <1>1
      <4> QED BY <4>1 DEF Owes, ProgressType
    <3> HIDE DEF seqOf
    <3>3. top \in {0} \cup confirmed
      <4> DEFINE S == {0} \cup confirmed
      <4>1. S \in SUBSET Nat /\ S # {} /\ \A y \in S : y <= n.role.read_seq
        BY <1>1, <3>2
      <4> HIDE DEF S
      <4>2. Max(S) \in S
        BY <1>1, <4>1, MaxOfBounded
      <4> QED BY <4>2 DEF S
    <3> HIDE DEF top
    <3>4. top \in confirmed /\ top \in Nat
      BY <3>1, <3>2, <3>3
    <3> DEFINE Q == voters(top)
    <3>5. Majority(Server, Q) /\ Q \in SUBSET Server
      <4>1. HasQuorum(n.mem.active, Q)
        BY <3>4
      <4>2. ids = Server
        BY <1>1
      <4> QED BY <1>1, <4>1, <4>2, PeersOf
    <3>6. \A v \in Q \ {i} : n.role.progress[v].read >= rd.seq
      <4> SUFFICES ASSUME NEW v \in Server \ {i}, v \in Q
                   PROVE  n.role.progress[v].read >= rd.seq
        BY <3>5
      <4>1. seqOf(v) >= top /\ seqOf(v) \in Nat
        BY <3>2
      <4>2. seqOf(v) = n.role.progress[v].read
        BY <1>1 DEF seqOf
      <4> QED BY <3>1, <3>4, <4>1, <4>2
    <3> HIDE DEF Q
    <3>7. Confirmed(i, c, rd.seq)
      BY <3>1, <3>5, <3>6, ConfirmedBy
    <3> QED BY <3>1, <3>7
  <2> HIDE DEF ready
  <2>4. ready \subseteq n.role.reads
    BY <2>3
  <2>5. /\ x.progress = n.role.progress /\ x.read_seq = n.role.read_seq
        /\ x.writes = n.role.writes /\ x.kind = "Leader"
        /\ x.membership_writes = n.role.membership_writes
        /\ x.reads = n.role.reads \ ready
    BY <1>1 DEF Lead, LeaderType
  <2>6. k.role = x /\ k.log = n.log
    <3> HIDE DEF x
    <3> QED BY <1>1 DEF StaticNode
  <2> HIDE DEF x, k
  <2>7. Owes(i, c, k)
    <3>1. IsFiniteSet(x.reads)
      BY <2>5, FS_Subset DEF Owes
    <3> QED BY <2>5, <2>6, <3>1 DEF Owes
  <2>8. \A rd \in k.role.reads : Queued(M, n, rd)
    BY <2>5, <2>6 DEF Queued
  <2>9. ASSUME NEW rd \in ready
        PROVE  Pays(i, c, M, n, k, answer[rd])
    <3> DEFINE m == answer[rd]
    <3>1. /\ m.message.type = "ClientResponse" /\ m.message.id = rd.id
          /\ m.message.data = n.sm.data
      BY DEF Reply, Env
    <3> HIDE DEF m
    <3>2. ~OkTo(Writes, m)
      BY <2>3, <3>1, ReadsNotWrites DEF OkTo
    <3>3. n.sm.data = Played(n.log.ents, n.log.commit).data
      BY <1>1 DEF Sound
    <3>4. \E y \in 1 .. k.log.commit :
            /\ y >= n.log.commit
            /\ k.log.ents[y].term >= k.log.term
            /\ m.message.data = Played(k.log.ents, y).data
      BY <1>1, <2>2, <2>6, <3>1, <3>3
    <3>5. Pays(i, c, M, n, k, m)
      BY <2>3, <3>1, <3>2, <3>4 DEF Pays, Queued
    <3> QED BY <3>5 DEF m
  <2>10. IsFiniteSet(Answering(out))
    <3>1. IsFiniteSet(ready)
      BY <2>4, FS_Subset DEF Owes
    <3>2. DOMAIN answer = ready
      OBVIOUS
    <3> HIDE DEF answer
    <3>3. Answering(out) \subseteq out
      BY DEF Answering
    <3> QED BY <3>1, <3>2, <3>3, ImageFinite
  <2>11. s.n = k /\ s.out = out
    BY DEF Done
  <2> HIDE DEF s, answer
  <2>12. \A m \in s.out : Pays(i, c, M, n, k, m)
    BY <2>9, <2>11
  <2> HIDE DEF out
  <2> QED BY <2>1, <2>7, <2>8, <2>10, <2>11, <2>12 DEF Earns
<1> QED BY <1>3, <1>4

\* What follows a commit.
LEMMA ReadAndSnapshotEarns ==
  ASSUME SnapshotThreshold = 0, NEW n,
         NEW i \in Server, NEW a \in [Server -> Nat], NEW c \in [Server -> Nat],
         NEW M, NEW m, Tracks(i, a, m.n), m.out = {}, ~m.down,
         NEW answers \in SUBSET StaticEnv(i), Quiet(answers), Plain(answers),
         Owes(i, c, m.n), IsFiniteSet(answers),
         \A e \in answers : Pays(i, c, M, m.n, m.n, e)
  PROVE  Earns(i, c, M, m.n, Flagless(ReadAndSnapshot(n, m, answers)))
<1> DEFINE b == m.n
           r == IF CommitTerm(n.log) # Term(n) THEN MaybeRead(b) ELSE Done(b, {})
           z == [n |-> r.n, out |-> answers \cup {} \cup r.out, down |-> m.down]
           d == Done(b, answers)
<1>1. b.role.kind = "Leader" /\ b.role.read_seq \in Nat /\ Tracks(i, a, b)
  BY TracksTypes
<1>2. Works(i, a, b, r) /\ Earns(i, c, M, b, r)
  BY WorksStay, MaybeReadWorks, EarnsStay, MaybeReadEarns
<1>3. ReadAndSnapshot(n, m, answers) = z
  <2>1. MaybeSnapshot(r.n) = r.n
    BY SnapshotOff
  <2> QED BY <1>1, <2>1 DEF ReadAndSnapshot
<1> HIDE DEF r
<1>4. Works(i, a, b, d) /\ d.n = b /\ d.out = answers
  <2>1. b.role.read_seq >= b.role.read_seq
    BY <1>1
  <2>2. Works(i, a, b, d) /\ d.n = b
    BY <2>1, PlainReports, WorksDone
  <2> QED BY <2>2 DEF Done
<1> HIDE DEF d
<1>5. Earns(i, c, M, b, d)
  <2>1. Answering(d.out) \subseteq answers
    BY <1>4 DEF Answering
  <2>2. IsFiniteSet(Answering(d.out))
    BY <2>1, FS_Subset
  <2>3. \A rd \in d.n.role.reads : Queued(M, b, rd)
    BY <1>4 DEF Queued
  <2> QED BY <1>4, <2>2, <2>3 DEF Earns
<1>6. Earns(i, c, M, b, After(answers, r))
  BY <1>1, <1>2, <1>4, <1>5, EarnsAfter
<1>7. r.n.role.kind # "Panicked"
  BY <1>2 DEF Works, Tracks
<1>8. Flagless(z) = After(answers, r)
  BY <1>7 DEF Flagless, After, Done
<1> QED BY <1>3, <1>6, <1>8

\* A commit answers writes whose entries are committed.
LEMMA CommitToEarns ==
  ASSUME SnapshotThreshold = 0,
         NEW i \in Server, NEW a \in [Server -> Nat], NEW c \in [Server -> Nat],
         NEW M, NEW n, Tracks(i, a, n), Owes(i, c, n),
         NEW target \in Nat, target > n.log.commit, target <= Len(n.log.ents)
  PROVE  Earns(i, c, M, n, Flagless(CommitTo(n, target)))
<1>0. PICK k : CommitsVia(i, a, n, target, k)
  BY CommitToIs
<1>1. /\ Tracks(i, a, k) /\ k.role.progress = n.role.progress
      /\ k.role.writes = n.role.writes \ Answerable(n, target)
      /\ k.role.membership_writes =
           n.role.membership_writes \ Answerable(n, target)
      /\ k.role.reads = n.role.reads /\ k.role.read_seq = n.role.read_seq
      /\ SameBallot(n.log, k.log) /\ k.log.ents = n.log.ents
      /\ k.log.commit = target
      /\ CommitTo(n, target) =
           ReadAndSnapshot(n, [n |-> k, out |-> {}, down |-> FALSE],
                           Acknowledged(n, target))
      /\ Acknowledged(n, target) \in SUBSET StaticEnv(i)
      /\ Quiet(Acknowledged(n, target)) /\ Plain(Acknowledged(n, target))
  BY <1>0 DEF CommitsVia
<1> DEFINE D == Answerable(n, target)
           answer == [w \in D |-> Reply(n, w.from, w.id, "Ok", <<>>)]
           out == Acknowledged(n, target)
<1> HIDE DEF answer
<1>2. n.log.commit \in Nat /\ n.role.writes \in SUBSET WriteType(Ids)
  BY TracksTypes, LeadTypes
<1>3. D = {w \in n.role.writes : w.index > n.sm.applied /\ w.index <= target}
  BY DEF Answerable, Owes, D
<1>4. Owes(i, c, k)
  <2>1. IsFiniteSet(k.role.writes)
    BY <1>1, FS_Subset DEF Owes
  <2>2. k.log.term = n.log.term
    BY <1>1 DEF SameBallot
  <2> QED BY <1>1, <2>1, <2>2 DEF Owes
<1>5. IsFiniteSet(out)
  <2>1. IsFiniteSet(D)
    BY <1>3, FS_Subset DEF Owes
  <2>2. DOMAIN answer = D /\ out \subseteq {answer[w] : w \in D}
    BY DEF Acknowledged, D, out, answer
  <2> QED BY <2>1, <2>2, ImageFinite
<1>6. \A e \in out : Pays(i, c, M, k, k, e)
  <2> SUFFICES ASSUME NEW w \in D
               PROVE  Pays(i, c, M, k, k, Reply(n, w.from, w.id, "Ok", <<>>))
    BY DEF Acknowledged, D, out
  <2> DEFINE e == Reply(n, w.from, w.id, "Ok", <<>>)
  <2>1. e.message.type = "ClientResponse" /\ e.message.id = w.id
    BY DEF Reply, Env
  <2> HIDE DEF e
  <2>2. /\ w.index \in 1 .. Len(n.log.ents) /\ n.log.ents[w.index].cmd = w.id
        /\ n.log.ents[w.index].term = n.log.term /\ w.id \in Writes
        /\ w.index <= target
    BY <1>3 DEF Owes
  <2>3. ~OkTo(Reads, e)
    BY <2>1, <2>2, ReadsNotWrites DEF OkTo
  <2>4. \E y \in 1 .. k.log.commit : /\ k.log.ents[y].cmd = e.message.id
                                     /\ k.log.ents[y].term = k.log.term
    <3>1. w.index \in 1 .. target
      BY <2>2
    <3>2. k.log.commit = target /\ k.log.ents = n.log.ents
          /\ k.log.term = n.log.term
      BY <1>1 DEF SameBallot
    <3> QED BY <2>1, <2>2, <3>1, <3>2
  <2>5. Pays(i, c, M, k, k, e)
    BY <2>1, <2>3, <2>4 DEF Pays
  <2> QED BY <2>5 DEF e
<1>7. LET z == CommitTo(n, target)
      IN Works(i, a, k, Flagless(z)) /\ Earns(i, c, M, k, Flagless(z))
  <2> DEFINE m == [n |-> k, out |-> {}, down |-> FALSE]
             y == ReadAndSnapshot(n, m, out)
  <2>1. m.n = k /\ m.out = {} /\ ~m.down
    OBVIOUS
  <2>2. CommitTo(n, target) = y
    BY <1>1
  <2> HIDE DEF m
  <2>3. Tracks(i, a, m.n) /\ Owes(i, c, m.n)
        /\ \A e \in out : Pays(i, c, M, m.n, m.n, e)
    BY <1>1, <1>4, <1>6, <2>1
  <2>4. Works(i, a, m.n, Flagless(y))
    BY <1>1, <2>1, <2>3, ReadAndSnapshotWorks
  <2>5. Earns(i, c, M, m.n, Flagless(y))
    BY <1>1, <1>5, <2>1, <2>3, ReadAndSnapshotEarns
  <2> HIDE DEF y
  <2> QED BY <2>1, <2>2, <2>4, <2>5
<1>8. \A rd \in ReadType(Ids) : Queued(M, k, rd) => Queued(M, n, rd)
  BY <1>1 DEF Queued
<1>9. k.log.commit >= n.log.commit
  BY <1>1, <1>2
<1> QED BY <1>1, <1>7, <1>8, <1>9, EarnsFrom

\* maybe_commit_and_apply
LEMMA CommitEarns ==
  ASSUME SnapshotThreshold = 0,
         NEW i \in Server, NEW a \in [Server -> Nat], NEW c \in [Server -> Nat],
         NEW M, NEW n, Tracks(i, a, n), Owes(i, c, n)
  PROVE  Earns(i, c, M, n, Flagless(MaybeCommitAndApply(n)))
<1>1. CASE CommitTarget(n) > n.log.commit
  <2> DEFINE t == CommitTarget(n)
  <2>1. t \in Nat /\ t <= Len(n.log.ents) /\ t > n.log.commit
    BY <1>1, CommitTargetIs
  <2>2. MaybeCommitAndApply(n) = CommitTo(n, t)
    BY <1>1 DEF MaybeCommitAndApply
  <2> HIDE DEF t
  <2> QED BY <2>1, <2>2, CommitToEarns
<1>2. CASE ~(CommitTarget(n) > n.log.commit)
  <2>1. MaybeCommitAndApply(n) = [n |-> n, out |-> {}, down |-> FALSE]
    BY <1>2 DEF MaybeCommitAndApply
  <2>2. Flagless(MaybeCommitAndApply(n)) = Done(n, {})
    BY <2>1 DEF Flagless
  <2> QED BY <2>2, EarnsStay
<1> QED BY <1>1, <1>2

\* heartbeat
LEMMA HeartbeatEarns ==
  ASSUME NEW i \in Server, NEW a \in [Server -> Nat], NEW c, NEW M, NEW n,
         Tracks(i, a, n), Owes(i, c, n), Current(n)
  PROVE  Earns(i, c, M, n, Heartbeat(n))
<1> DEFINE beat == [type |-> "Heartbeat", last_index |-> LastIndex(n.log),
                    commit_index |-> n.log.commit,
                    read_seq |-> n.role.read_seq]
           r == Heartbeat(n)
<1>1. Works(i, a, n, r)
  BY HeartbeatWorks
<1>2. n \in StaticNode(i) /\ n.role.kind = "Leader" /\ Sound(n)
      /\ n.log.term \in Nat
  BY TracksTypes
<1>3. r = Done(n, Broadcast(n, beat))
  <2>1. LastTerm(n.log) = Term(n)
    BY <1>2, SoundLog, EmptySeq DEF Current, Term
  <2> QED BY <2>1 DEF Heartbeat, Require
<1>4. \A m \in Broadcast(n, beat) : m.message.type = "Heartbeat"
  BY DEF Broadcast, Env
<1> HIDE DEF beat
<1>5. r.n = n /\ r.out = Broadcast(n, beat)
  BY <1>3 DEF Done
<1> HIDE DEF r
<1>6. Alike(i, n, r.n) /\ Hush(r.out)
  BY <1>2, <1>4, <1>5, AlikeRole DEF Hush
<1>7. Earns(i, c, M, n, r)
  BY <1>1, <1>6, EarnsHush
<1> QED BY <1>7 DEF r

-----------------------------------------------------------------------------
(* Answers from peers.                                                     *)

\* A leader with the same log that is as another for clients.
LEMMA OwesRole ==
  ASSUME NEW i \in Server, NEW a \in [Server -> Nat], NEW c, NEW n,
         Tracks(i, a, n), Owes(i, c, n), NEW k, Alike(i, n, k), k.log = n.log
  PROVE  Owes(i, c, k)
<1>1. Len(n.log.ents) \in Nat
  BY TracksTypes
<1>2. Longer(n.log.ents, k.log.ents, n.log.term)
  BY <1>1, SameToSelf
<1> QED BY <1>1, <1>2, OwesAlike

LEMMA EarnsRole ==
  ASSUME NEW i \in Server, NEW a \in [Server -> Nat], NEW c, NEW M, NEW n,
         Tracks(i, a, n), NEW k, Tracks(i, a, k), k.log = n.log, Alike(i, n, k),
         NEW r, Works(i, a, k, r), Earns(i, c, M, k, r)
  PROVE  Earns(i, c, M, n, r)
<1>1. k.log.commit >= n.log.commit
  <2>1. n.log.commit \in Nat
    BY TracksTypes
  <2> QED BY <2>1
<1>2. \A rd \in ReadType(Ids) : Queued(M, k, rd) => Queued(M, n, rd)
  BY QueuedAlike
<1> QED BY <1>1, <1>2, EarnsFrom

\* Another progress of a peer that has confirmed as much of reads.
LEMMA WithPeerAlike ==
  ASSUME NEW i \in Server, NEW a \in [Server -> Nat], NEW n, Tracks(i, a, n),
         NEW p \in Server \ {i}, NEW y,
         y.read = n.role.progress[p].read
  PROVE  Alike(i, n, WithPeer(n, p, y))
<1> DEFINE new == [n.role.progress EXCEPT ![p] = y]
<1>1. n \in StaticNode(i) /\ n.role.kind = "Leader"
      /\ n.role.progress \in [Server \ {i} -> ProgressType]
  BY TracksTypes
<1>2. \A q \in Server \ {i} : new[q].read = n.role.progress[q].read
  BY <1>1
<1>3. WithPeer(n, p, y) = [n EXCEPT !.role.progress = new]
  BY DEF WithPeer
<1> HIDE DEF new
<1> QED BY <1>1, <1>2, <1>3, ProgressAlike

LEMMA AdvanceAlike ==
  ASSUME NEW i \in Server, NEW a \in [Server -> Nat], NEW n, Tracks(i, a, n),
         NEW p \in Server \ {i}, NEW match \in Nat
  PROVE  Alike(i, n, WithPeer(n, p, Advance(n.role.progress[p], match)))
<1> DEFINE pr == n.role.progress[p]
           y == Advance(pr, match)
<1>1. pr \in ProgressType
  BY TracksPeer
<1>2. y.read = pr.read
  BY <1>1 DEF Advance, ProgressType
<1> HIDE DEF y
<1>3. Alike(i, n, WithPeer(n, p, y))
  BY <1>2, WithPeerAlike
<1> QED BY <1>3 DEF y

LEMMA RegressAlike ==
  ASSUME NEW i \in Server, NEW a \in [Server -> Nat], NEW n, Tracks(i, a, n),
         NEW p \in Server \ {i}, NEW next
  PROVE  Alike(i, n, Regressed(n, p, next))
<1> DEFINE pr == n.role.progress[p]
           y == RegressNext(pr, next)
<1>1. pr \in ProgressType
  BY TracksPeer
<1>2. y.read = pr.read
  BY <1>1 DEF RegressNext, ProgressType
<1> HIDE DEF y
<1>3. Alike(i, n, WithPeer(n, p, y))
  BY <1>2, WithPeerAlike
<1> QED BY <1>3 DEF y, Regressed

\* A commit attempt and a further call.
LEMMA CommitThenEarns ==
  ASSUME SnapshotThreshold = 0,
         NEW i \in Server, NEW a \in [Server -> Nat], NEW c \in [Server -> Nat],
         NEW M, NEW n, Tracks(i, a, n), Owes(i, c, n),
         NEW q, Works(i, a, MaybeCommitAndApply(n).n, q),
         Owes(i, c, MaybeCommitAndApply(n).n)
           => Earns(i, c, M, MaybeCommitAndApply(n).n, q)
  PROVE  LET z == MaybeCommitAndApply(n)
             f == Flagless(z)
         IN Earns(i, c, M, n, Finish(IF f.n.role.kind = "Panicked" THEN f
                                     ELSE After(f.out, q), z.down))
<1> DEFINE z == MaybeCommitAndApply(n)
           f == Flagless(z)
           r == IF f.n.role.kind = "Panicked" THEN f ELSE After(f.out, q)
<1>1. Works(i, a, n, f) /\ ~z.down /\ f.n = z.n /\ Earns(i, c, M, n, f)
  BY CommitWorks, CommitEarns DEF Flagless, Done
<1>2. Works(i, a, z.n, q) /\ (Owes(i, c, z.n) => Earns(i, c, M, z.n, q))
  OBVIOUS
<1> HIDE DEF z, f
<1>3. Works(i, a, f.n, q) /\ Earns(i, c, M, f.n, q)
  BY <1>1, <1>2 DEF Earns
<1>4. r = After(f.out, q)
  BY <1>1, <1>3, WorksAfter
<1>5. Earns(i, c, M, n, r)
  BY <1>1, <1>3, <1>4, EarnsAfter
<1> HIDE DEF r
<1>6. Finish(r, z.down) = r
  BY <1>1 DEF Finish
<1> QED BY <1>5, <1>6 DEF z, f, r

\* The advance of a peer's match index, a commit attempt and a further call.
LEMMA AdvanceThenEarns ==
  ASSUME SnapshotThreshold = 0,
         NEW i \in Server, NEW a \in [Server -> Nat], NEW c \in [Server -> Nat],
         NEW M, NEW n, Tracks(i, a, n), Owes(i, c, n),
         NEW p \in Server \ {i}, NEW match \in Nat,
         match <= Len(n.log.ents), match <= a[p],
         NEW k, k = WithPeer(n, p, Advance(n.role.progress[p], match)),
         NEW q, Tracks(i, a, MaybeCommitAndApply(k).n)
                  => Works(i, a, MaybeCommitAndApply(k).n, q),
         Tracks(i, a, MaybeCommitAndApply(k).n)
           /\ Owes(i, c, MaybeCommitAndApply(k).n)
           => Earns(i, c, M, MaybeCommitAndApply(k).n, q)
  PROVE  LET z == MaybeCommitAndApply(k)
             f == Flagless(z)
         IN Earns(i, c, M, n, Finish(IF f.n.role.kind = "Panicked" THEN f
                                     ELSE After(f.out, q), z.down))
<1> DEFINE z == MaybeCommitAndApply(k)
           r == Finish(IF Flagless(z).n.role.kind = "Panicked" THEN Flagless(z)
                       ELSE After(Flagless(z).out, q), z.down)
<1>1. Tracks(i, a, k) /\ k.log = n.log /\ Alike(i, n, k)
  BY AdvanceTracks, AdvanceAlike
<1>2. Tracks(i, a, z.n)
  BY <1>1, CommitWorks DEF Works, Flagless, Done
<1>3. Works(i, a, z.n, q) /\ (Owes(i, c, z.n) => Earns(i, c, M, z.n, q))
  BY <1>2
<1>4. Owes(i, c, k)
  BY <1>1, OwesRole
<1>5. Works(i, a, k, r)
  BY <1>1, <1>3, CommitThenWorks
<1>6. Earns(i, c, M, k, r)
  BY <1>1, <1>3, <1>4, CommitThenEarns
<1> HIDE DEF r
<1>7. Earns(i, c, M, n, r)
  BY <1>1, <1>5, <1>6, EarnsRole
<1> QED BY <1>7 DEF r, z

LEMMA AdvanceStayEarns ==
  ASSUME SnapshotThreshold = 0,
         NEW i \in Server, NEW a \in [Server -> Nat], NEW c \in [Server -> Nat],
         NEW M, NEW n, Tracks(i, a, n), Owes(i, c, n),
         NEW p \in Server \ {i}, NEW match \in Nat,
         match <= Len(n.log.ents), match <= a[p]
  PROVE  Earns(i, c, M, n, AdvanceThen(n, p, match, Stay))
<1> DEFINE k == WithPeer(n, p, Advance(n.role.progress[p], match))
           z == MaybeCommitAndApply(k)
           q == Done(z.n, {})
           r == Finish(IF Flagless(z).n.role.kind = "Panicked" THEN Flagless(z)
                       ELSE After(Flagless(z).out, q), z.down)
<1>1. AdvanceThen(n, p, match, Stay) =
        IF match <= n.role.progress[p].match THEN Done(n, {}) ELSE r
  <2>1. Flagless(z).n = z.n
    BY DEF Flagless, Done
  <2> QED BY <2>1 DEF AdvanceThen, CommitThen, FinishCommit, Then, WithPeer, Stay
<1>2. /\ Tracks(i, a, z.n) => Works(i, a, z.n, q)
      /\ Tracks(i, a, z.n) /\ Owes(i, c, z.n) => Earns(i, c, M, z.n, q)
  <2> HIDE DEF z
  <2> QED BY WorksStay, EarnsStay
<1>3. Earns(i, c, M, n, r)
  <2> HIDE DEF q, k
  <2>1. k = WithPeer(n, p, Advance(n.role.progress[p], match))
    BY DEF k
  <2> QED BY <1>2, <2>1, AdvanceThenEarns
<1>4. Earns(i, c, M, n, Done(n, {}))
  BY EarnsStay
<1> QED BY <1>1, <1>3, <1>4

LEMMA AdvanceSendEarns ==
  ASSUME SnapshotThreshold = 0,
         NEW i \in Server, NEW a \in [Server -> Nat], NEW c \in [Server -> Nat],
         NEW M, NEW n, Tracks(i, a, n), Owes(i, c, n),
         NEW p \in Server \ {i}, NEW match \in Nat,
         match <= Len(n.log.ents), match <= a[p]
  PROVE  Earns(i, c, M, n, AdvanceAndSend(n, p, match))
<1> DEFINE no == FALSE
           k == WithPeer(n, p, Advance(n.role.progress[p], match))
           z == MaybeCommitAndApply(k)
           q == SendTo(z.n, p, no)
           r == Finish(IF Flagless(z).n.role.kind = "Panicked" THEN Flagless(z)
                       ELSE After(Flagless(z).out, q), z.down)
<1>1. AdvanceAndSend(n, p, match) =
        IF match <= n.role.progress[p].match THEN SendTo(n, p, no) ELSE r
  <2>1. Flagless(z).n = z.n
    BY DEF Flagless, Done
  <2> QED BY <2>1
          DEF AdvanceAndSend, AdvanceThen, CommitThen, FinishCommit, Then,
              WithPeer
<1>2. no \in BOOLEAN
  OBVIOUS
<1> HIDE DEF no
<1>3. /\ Tracks(i, a, z.n) => Works(i, a, z.n, q)
      /\ Tracks(i, a, z.n) /\ Owes(i, c, z.n) => Earns(i, c, M, z.n, q)
  <2> HIDE DEF z
  <2> QED BY <1>2, SendToWorks, SendToEarns
<1>4. Earns(i, c, M, n, r)
  <2> HIDE DEF q, k
  <2>1. k = WithPeer(n, p, Advance(n.role.progress[p], match))
    BY DEF k
  <2> QED BY <1>3, <2>1, AdvanceThenEarns
<1>5. Earns(i, c, M, n, SendTo(n, p, no))
  BY <1>2, SendToEarns
<1> QED BY <1>1, <1>4, <1>5

\* A peer confirms reads; what it confirms is at most what is recorded of it.
LEMMA AdvanceReadEarns ==
  ASSUME NEW i \in Server, NEW a \in [Server -> Nat], NEW c \in [Server -> Nat],
         NEW M, NEW n, Tracks(i, a, n), Owes(i, c, n),
         NEW p \in Server \ {i}, NEW seq \in Nat, seq <= c[p],
         seq <= n.role.read_seq
  PROVE  Earns(i, c, M, n, AdvanceRead(n, p, seq))
<1> DEFINE x == [n.role.progress[p] EXCEPT !.read = seq]
           k == WithPeer(n, p, x)
<1>1. /\ n.role.progress[p] \in ProgressType
      /\ n.role.progress[p].match < n.role.progress[p].next
      /\ n.role.progress[p].next <= Len(n.log.ents) + 1
      /\ n.role.progress[p].match <= a[p]
      /\ n.role.read_seq \in Nat
  BY TracksPeer
<1>2. x \in ProgressType /\ x.match = n.role.progress[p].match
      /\ x.next = n.role.progress[p].next /\ x.read = seq
  BY <1>1 DEF ProgressType
<1>3. AdvanceRead(n, p, seq) \in {Done(n, {}), MaybeRead(k)}
  BY DEF AdvanceRead, WithPeer
<1>4. /\ k.role.writes = n.role.writes /\ k.role.reads = n.role.reads
      /\ k.role.membership_writes = n.role.membership_writes
      /\ \A q \in Server \ {i} :
           k.role.progress[q].read = IF q = p THEN seq ELSE n.role.progress[q].read
  <2> DEFINE y == [n.role EXCEPT !.progress[p] = x]
  <2>1. /\ n \in StaticNode(i) /\ n.role.kind = "Leader" /\ n.role \in Lead(i)
        /\ n.role.progress \in [Server \ {i} -> ProgressType]
    BY TracksTypes, LeadTypes
  <2>2. y \in Lead(i) /\ k = [n EXCEPT !.role = y]
    <3> HIDE DEF x
    <3> QED BY <1>2, <2>1, SetLead DEF WithPeer
  <2>3. /\ y.writes = n.role.writes /\ y.reads = n.role.reads
        /\ y.membership_writes = n.role.membership_writes
        /\ y.progress = [n.role.progress EXCEPT ![p] = x]
    <3> HIDE DEF x
    <3> QED BY <2>1 DEF Lead, LeaderType
  <2> HIDE DEF x, y, k
  <2>4. k.role = y
    BY <2>1, <2>2 DEF StaticNode
  <2>5. \A q \in Server \ {i} :
          y.progress[q].read = IF q = p THEN seq ELSE n.role.progress[q].read
    BY <1>2, <2>1, <2>3
  <2> QED BY <2>3, <2>4, <2>5
<1> HIDE DEF x, k
<1>5. Tracks(i, a, k) /\ k.log = n.log /\ k.role.read_seq = n.role.read_seq
  <2>1. x.match < x.next /\ x.next <= Len(n.log.ents) + 1 /\ x.match <= a[p]
    BY <1>1, <1>2
  <2> QED BY <1>2, <2>1, TracksProgress DEF k
<1>6. Owes(i, c, k)
  BY <1>4, <1>5 DEF Owes
<1>7. Works(i, a, k, MaybeRead(k)) /\ Earns(i, c, M, k, MaybeRead(k))
  BY <1>5, <1>6, MaybeReadWorks, MaybeReadEarns
<1>8. Earns(i, c, M, n, MaybeRead(k))
  <2>1. \A rd \in ReadType(Ids) : Queued(M, k, rd) => Queued(M, n, rd)
    BY <1>4, <1>5 DEF Queued
  <2>2. k.log.commit >= n.log.commit
    <3>1. n.log.commit \in Nat
      BY TracksTypes
    <3> QED BY <1>5, <3>1
  <2> QED BY <1>5, <1>7, <2>1, <2>2, EarnsFrom
<1>9. Earns(i, c, M, n, Done(n, {}))
  BY EarnsStay
<1> QED BY <1>3, <1>8, <1>9

\* HeartbeatResponse
LEMMA LeaderHeartbeatResponseEarns ==
  ASSUME SnapshotThreshold = 0,
         NEW i \in Server, NEW a \in [Server -> Nat], NEW c \in [Server -> Nat],
         NEW M, NEW n, Tracks(i, a, n), Owes(i, c, n),
         NEW m \in Mail(i), m.message.type = "HeartbeatResponse",
         m.from \in Server \ {i},
         m.message.match_index <= Len(n.log.ents),
         m.message.match_index <= a[m.from],
         m.message.read_seq <= n.role.read_seq,
         m.message.read_seq <= c[m.from]
  PROVE  Earns(i, c, M, n, LeaderHeartbeatResponse(n, m))
<1> DEFINE yes == TRUE
           h == m.message
           p == m.from
           read == AdvanceRead(n, p, h.read_seq)
           k == WithPeer(read.n, p, RegressNext(read.n.role.progress[p],
                                                LastIndex(n.log)))
           q == SendTo(k, p, yes)
           s == AdvanceThen(read.n, p, h.match_index, Stay)
<1>1. h \in StaticMessage
  BY DEF Mail
<1>2. h.match_index \in Nat /\ h.read_seq \in Nat
  BY <1>1, MessageFields
<1>3. LastIndex(n.log) = Len(n.log.ents) /\ Len(n.log.ents) \in Nat
      /\ n \in StaticNode(i)
  BY TracksTypes, SoundLog
<1>4. LeaderHeartbeatResponse(n, m) \in
        {IF read.n.role.kind = "Panicked" THEN read ELSE After(read.out, q),
         IF read.n.role.kind = "Panicked" THEN read ELSE After(read.out, s)}
  BY <1>2, <1>3 DEF LeaderHeartbeatResponse, Then, WithPeer
<1>5. /\ Works(i, a, n, read) /\ read.n.log = n.log
      /\ Earns(i, c, M, n, read)
  <2>1. /\ p \in Server \ {i} /\ h.read_seq \in Nat
        /\ h.read_seq <= c[p] /\ h.read_seq <= n.role.read_seq
    BY <1>2
  <2> HIDE DEF h, p, read
  <2>2. /\ Works(i, a, n, AdvanceRead(n, p, h.read_seq))
        /\ AdvanceRead(n, p, h.read_seq).n.log = n.log
    BY <2>1, AdvanceReadWorks
  <2>3. Earns(i, c, M, n, AdvanceRead(n, p, h.read_seq))
    BY <2>1, AdvanceReadEarns
  <2> QED BY <2>2, <2>3 DEF read
<1> HIDE DEF read
<1>6. Tracks(i, a, read.n) /\ Owes(i, c, read.n)
  BY <1>5 DEF Works, Earns
<1>7. Works(i, a, read.n, q) /\ Earns(i, c, M, read.n, q)
  <2>1. Tracks(i, a, k) /\ k.log = read.n.log
        /\ k.role.read_seq = read.n.role.read_seq /\ Alike(i, read.n, k)
    <3> DEFINE last == LastIndex(n.log)
               z == read.n
    <3>1. last \in Nat
      BY <1>3
    <3>2. k = Regressed(z, p, last)
      BY DEF Regressed
    <3>3. p \in Server \ {i} /\ Tracks(i, a, z)
      BY <1>6
    <3> HIDE DEF last, k, z, p
    <3>4. LET y == Regressed(z, p, last)
          IN Tracks(i, a, y) /\ y.log = z.log /\ y.role.read_seq = z.role.read_seq
      BY <3>1, <3>3, RegressTracks
    <3>5. Alike(i, z, Regressed(z, p, last))
      BY <3>3, RegressAlike
    <3>6. Tracks(i, a, k) /\ k.log = z.log /\ k.role.read_seq = z.role.read_seq
          /\ Alike(i, z, k)
      BY <3>2, <3>4, <3>5
    <3> QED BY <3>6 DEF z
  <2> HIDE DEF k
  <2>2. yes \in BOOLEAN
    OBVIOUS
  <2> HIDE DEF yes
  <2>3. Owes(i, c, k)
    BY <1>6, <2>1, OwesRole
  <2>4. Works(i, a, k, q) /\ Earns(i, c, M, k, q)
    BY <2>1, <2>2, <2>3, SendToWorks, SendToEarns
  <2>5. k.role.read_seq >= read.n.role.read_seq
    <3>1. read.n.role.read_seq \in Nat
      BY <1>6, TracksTypes
    <3> QED BY <2>1, <3>1
  <2> HIDE DEF q
  <2>6. Works(i, a, read.n, q)
    BY <1>6, <2>1, <2>4, <2>5, WorksRole
  <2>7. Earns(i, c, M, read.n, q)
    BY <1>6, <2>1, <2>4, EarnsRole
  <2> QED BY <2>6, <2>7
<1>8. Works(i, a, read.n, s) /\ Earns(i, c, M, read.n, s)
  <2>1. h.match_index <= Len(read.n.log.ents)
    BY <1>5
  <2> QED BY <1>2, <1>6, <2>1, AdvanceStayWorks, AdvanceStayEarns
<1> HIDE DEF q, s
<1>9. read.n.role.kind # "Panicked"
  BY <1>5 DEF Works, Tracks
<1>10. Earns(i, c, M, n, After(read.out, q))
  BY <1>5, <1>7, EarnsAfter
<1>11. Earns(i, c, M, n, After(read.out, s))
  BY <1>5, <1>8, EarnsAfter
<1> QED BY <1>4, <1>9, <1>10, <1>11

\* AppendResponse, accepted or rejected.
LEMMA LeaderAppendResponseEarns ==
  ASSUME SnapshotThreshold = 0,
         NEW i \in Server, NEW a \in [Server -> Nat], NEW c \in [Server -> Nat],
         NEW M, NEW n, Tracks(i, a, n), Owes(i, c, n),
         NEW m \in Mail(i), m.message.type = "AppendResponse",
         m.from \in Server \ {i},
         m.message.match_index <= Len(n.log.ents),
         m.message.match_index <= a[m.from],
         m.message.reject_index <= Len(n.log.ents),
         (m.message.match_index > 0) # (m.message.reject_index > 0)
  PROVE  Earns(i, c, M, n, LeaderAppendResponse(n, m))
<1> DEFINE yes == TRUE
           x == m.message
           p == m.from
           pr == n.role.progress[p]
           back == RegressNext(pr, x.reject_index)
           s == AdvanceAndSend(n, p, x.match_index)
           k == WithPeer(n, p, back)
           q == SendTo(k, p, yes)
<1>1. x \in StaticMessage
  BY DEF Mail
<1>2. x.match_index \in Nat /\ x.reject_index \in Nat
  BY <1>1, MessageFields
<1>3. LastIndex(n.log) = Len(n.log.ents) /\ Len(n.log.ents) \in Nat
  BY TracksTypes, SoundLog
<1>4. LeaderAppendResponse(n, m) \in {s, Done(n, {}), q}
  <2> DEFINE R == LeaderAppendResponse(n, m)
  <2>1. CASE x.match_index > 0
    <3>1. x.reject_index = 0 /\ ~(x.match_index = 0 /\ x.reject_index > 0)
      BY <1>2, <2>1
    <3>2. R = s
      BY <1>3, <2>1, <3>1 DEF LeaderAppendResponse
    <3> HIDE DEF s, q, R
    <3> QED BY <3>2 DEF R
  <2>2. CASE ~(x.match_index > 0)
    <3>1. x.match_index = 0 /\ x.reject_index > 0
          /\ ~(x.match_index > 0 /\ x.reject_index = 0)
      BY <1>2, <2>2
    <3>2. R = IF x.reject_index <= pr.match \/ back = pr THEN Done(n, {})
              ELSE SendTo([n EXCEPT !.role.progress[p] = back], p, yes)
      <4>1. ~(x.reject_index > LastIndex(n.log))
        BY <1>2, <1>3
      <4> QED BY <3>1, <4>1 DEF LeaderAppendResponse
    <3>3. k = [n EXCEPT !.role.progress[p] = back]
      BY DEF WithPeer
    <3>4. q = SendTo([n EXCEPT !.role.progress[p] = back], p, yes)
      BY <3>3
    <3> HIDE DEF s, q, R, k, back
    <3> QED BY <3>2, <3>4 DEF R
  <2> QED BY <2>1, <2>2
<1>5. Earns(i, c, M, n, s)
  BY <1>2, AdvanceSendEarns
<1>6. Earns(i, c, M, n, q)
  <2>1. Tracks(i, a, k) /\ k.log = n.log /\ Alike(i, n, k)
    <3> DEFINE back_to == x.reject_index
    <3>1. k = Regressed(n, p, back_to)
      BY DEF Regressed
    <3>2. p \in Server \ {i} /\ back_to \in Nat
      BY <1>2
    <3> HIDE DEF k, p, back_to
    <3>3. LET z == Regressed(n, p, back_to)
          IN Tracks(i, a, z) /\ z.log = n.log /\ z.role.read_seq = n.role.read_seq
      BY <3>2, RegressTracks
    <3>4. Alike(i, n, Regressed(n, p, back_to))
      BY <3>2, RegressAlike
    <3> QED BY <3>1, <3>3, <3>4
  <2> HIDE DEF k
  <2>2. yes \in BOOLEAN
    OBVIOUS
  <2> HIDE DEF yes
  <2>3. Owes(i, c, k)
    BY <2>1, OwesRole
  <2>4. Works(i, a, k, q) /\ Earns(i, c, M, k, q)
    BY <2>1, <2>2, <2>3, SendToWorks, SendToEarns
  <2> HIDE DEF q
  <2> QED BY <2>1, <2>4, EarnsRole
<1> HIDE DEF s, q
<1>7. Earns(i, c, M, n, Done(n, {}))
  BY EarnsStay
<1> QED BY <1>4, <1>5, <1>6, <1>7

\* CommitIfAlone
LEMMA CommitIfAloneEarns ==
  ASSUME SnapshotThreshold = 0,
         NEW i \in Server, NEW a \in [Server -> Nat], NEW c \in [Server -> Nat],
         NEW M, NEW n, Tracks(i, a, n), Owes(i, c, n)
  PROVE  Earns(i, c, M, n, CommitIfAlone(n))
<1> DEFINE z == MaybeCommitAndApply(n)
           q == Done(z.n, {})
           r == Finish(IF Flagless(z).n.role.kind = "Panicked" THEN Flagless(z)
                       ELSE After(Flagless(z).out, q), z.down)
<1>1. CommitIfAlone(n) = IF ClusterSize(n) = 1 THEN r ELSE Done(n, {})
  <2>1. Flagless(z).n = z.n
    BY DEF Flagless, Done
  <2> QED BY <2>1 DEF CommitIfAlone, CommitThen, FinishCommit, Then, Stay
<1>2. Tracks(i, a, z.n)
  BY CommitWorks DEF Works, Flagless, Done
<1>3. Works(i, a, z.n, q) /\ (Owes(i, c, z.n) => Earns(i, c, M, z.n, q))
  <2> HIDE DEF z
  <2> QED BY <1>2, WorksStay, EarnsStay
<1>4. Earns(i, c, M, n, r)
  <2> HIDE DEF q
  <2> QED BY <1>3, CommitThenEarns
<1>5. Earns(i, c, M, n, Done(n, {}))
  BY EarnsStay
<1> QED BY <1>1, <1>4, <1>5

\* A client whose entry of the term is in the log is queued.
LEMMA OwesWrite ==
  ASSUME NEW i \in Server, NEW a \in [Server -> Nat], NEW c, NEW n,
         Tracks(i, a, n), Owes(i, c, n), NEW w,
         w.index \in 1 .. Len(n.log.ents), n.log.ents[w.index].cmd = w.id,
         n.log.ents[w.index].term = n.log.term, w.id \in Writes,
         NEW k, k.log = n.log, k.role.writes = n.role.writes \cup {w},
         k.role.membership_writes = n.role.membership_writes,
         k.role.reads = n.role.reads, k.role.read_seq = n.role.read_seq,
         k.role.progress = n.role.progress
  PROVE  /\ Owes(i, c, k)
         /\ \A M, rd : Queued(M, k, rd) => Queued(M, n, rd)
<1>1. IsFiniteSet(k.role.writes)
  <2>1. IsFiniteSet({w}) /\ IsFiniteSet(n.role.writes)
    BY FS_Singleton DEF Owes
  <2>2. IsFiniteSet(n.role.writes \cup {w})
    BY <2>1, FS_Union
  <2> QED BY <2>2
<1>2. \A v \in k.role.writes :
        /\ v.index \in 1 .. Len(k.log.ents)
        /\ k.log.ents[v.index].cmd = v.id
        /\ k.log.ents[v.index].term = k.log.term
        /\ v.id \in Writes
  BY DEF Owes
<1>3. \A M, rd : Queued(M, k, rd) => Queued(M, n, rd)
  BY DEF Queued
<1> QED BY <1>1, <1>2, <1>3 DEF Owes

\* Write
LEMMA LeaderWriteEarns ==
  ASSUME SnapshotThreshold = 0,
         NEW i \in Server, NEW a \in [Server -> Nat], NEW c \in [Server -> Nat],
         NEW M, NEW n, Tracks(i, a, n), Owes(i, c, n),
         NEW m \in Mail(i), m.message.type = "ClientRequest",
         m.message.request.id \in Writes
  PROVE  Earns(i, c, M, n, LeaderWrite(n, m))
<1> DEFINE id == m.message.request.id
           w == [index |-> LastIndex(n.log) + 1, from |-> m.from, id |-> id]
           p == Propose(n, id)
           W == p.n.role.writes \cup {w}
           y == [p.n.role EXCEPT !.writes = W]
           k == [p.n EXCEPT !.role = y]
           q == CommitIfAlone(k)
<1>1. m.message \in StaticMessage /\ m.from \in Server /\ n \in StaticNode(i)
  BY TracksTypes DEF Mail
<1>2. id \in Ids
  BY <1>1, MessageFields
<1>3. id \in Cmd
  BY <1>2 DEF Cmd
<1>4. w \in WriteType(Ids)
  <2>1. LastIndex(n.log) \in Nat
    BY <1>1, FieldTypes, IndexTypes
  <2> QED BY <1>1, <1>2, <2>1 DEF WriteType
<1>5. LeaderWrite(n, m) =
        IF p.n.role.kind = "Panicked" THEN p ELSE After(p.out, q)
  BY DEF LeaderWrite, Then
<1>6. /\ Works(i, a, n, p) /\ Earns(i, c, M, n, p)
      /\ Len(p.n.log.ents) = Len(n.log.ents) + 1
      /\ p.n.log.ents[Len(n.log.ents) + 1].cmd = id
      /\ p.n.log.ents[Len(n.log.ents) + 1].term = p.n.log.term
  <2> HIDE DEF id
  <2> QED BY <1>3, ProposeWorks, ProposeEarns
<1>7. w.index = Len(n.log.ents) + 1 /\ w.id = id /\ Len(n.log.ents) \in Nat
  BY TracksTypes, SoundLog
<1> HIDE DEF p, w
<1>8. Tracks(i, a, p.n) /\ p.n.role.read_seq \in Nat /\ Owes(i, c, p.n)
  <2>1. Tracks(i, a, p.n) /\ Owes(i, c, p.n)
    BY <1>6 DEF Works, Earns
  <2> QED BY <2>1, TracksTypes
<1>9. W \in SUBSET WriteType(Ids)
  BY <1>4, <1>8, TracksTypes, LeadTypes
<1>10. /\ y \in Lead(i) /\ y.progress = p.n.role.progress
       /\ y.read_seq = p.n.role.read_seq /\ y.writes = p.n.role.writes \cup {w}
       /\ y.membership_writes = p.n.role.membership_writes
       /\ y.reads = p.n.role.reads
  <2>1. p.n.role \in Lead(i)
    BY <1>8, TracksTypes, LeadTypes
  <2> HIDE DEF W
  <2>2. /\ y \in Lead(i) /\ y.progress = p.n.role.progress
        /\ y.read_seq = p.n.role.read_seq /\ y.writes = W
        /\ y.membership_writes = p.n.role.membership_writes
        /\ y.reads = p.n.role.reads
    BY <1>9, <2>1 DEF Lead, LeaderType
  <2> QED BY <2>2 DEF W
<1> HIDE DEF W, y
<1>11. Tracks(i, a, k) /\ k.log = p.n.log /\ k.role = y
  BY <1>8, <1>10, TracksQueues
<1> HIDE DEF k
<1>12. Owes(i, c, k) /\ \A rd : Queued(M, k, rd) => Queued(M, p.n, rd)
  <2>1. /\ w.index \in 1 .. Len(p.n.log.ents)
        /\ p.n.log.ents[w.index].cmd = w.id
        /\ p.n.log.ents[w.index].term = p.n.log.term
    BY <1>6, <1>7
  <2> HIDE DEF id
  <2>2. w.id \in Writes
    BY <1>7 DEF id
  <2> QED BY <1>8, <1>10, <1>11, <2>1, <2>2, OwesWrite
<1>13. Works(i, a, k, q) /\ Earns(i, c, M, k, q)
  BY <1>11, <1>12, CommitIfAloneWorks, CommitIfAloneEarns
<1> HIDE DEF q
<1>14. Works(i, a, p.n, q)
  <2>1. k.role.read_seq >= p.n.role.read_seq
    BY <1>8, <1>10, <1>11
  <2> QED BY <1>8, <1>11, <1>13, <2>1, WorksRole
<1>15. Earns(i, c, M, p.n, q)
  <2>1. k.log.commit >= p.n.log.commit
    <3>1. p.n.log.commit \in Nat
      BY <1>8, TracksTypes
    <3> QED BY <1>11, <3>1
  <2> QED BY <1>8, <1>11, <1>12, <1>13, <2>1, EarnsFrom
<1>16. p.n.role.kind # "Panicked"
  BY <1>6 DEF Works, Tracks
<1>17. Earns(i, c, M, n, After(p.out, q))
  BY <1>6, <1>14, <1>15, EarnsAfter
<1> QED BY <1>5, <1>16, <1>17

\* One more read is queued, with a number not used before.
LEMMA OwesRead ==
  ASSUME NEW i \in Server, NEW a \in [Server -> Nat], NEW c, NEW n,
         Tracks(i, a, n), Owes(i, c, n), NEW M, NEW m \in M,
         m.message.type = "ClientRequest", NEW rd \in ReadType(Ids),
         rd.seq = n.role.read_seq + 1, rd.id = m.message.request.id,
         rd.id \in Reads,
         NEW k, k.log = n.log, k.role.reads = n.role.reads \cup {rd},
         k.role.writes = n.role.writes,
         k.role.membership_writes = n.role.membership_writes,
         k.role.read_seq = rd.seq, k.role.progress = n.role.progress
  PROVE  /\ Owes(i, c, k)
         /\ \A x \in k.role.reads : Queued(M, n, x)
<1>1. n.role.read_seq \in Nat /\ n.role.reads \in SUBSET ReadType(Ids)
      /\ \A p \in Server \ {i} : n.role.progress[p].read \in Nat
  <2>1. n.role.read_seq \in Nat /\ n.role.reads \in SUBSET ReadType(Ids)
    BY TracksTypes, LeadTypes
  <2>2. \A p \in Server \ {i} : n.role.progress[p] \in ProgressType
    BY TracksPeer
  <2> QED BY <2>1, <2>2 DEF ProgressType
<1>2. IsFiniteSet(k.role.reads)
  <2>1. IsFiniteSet({rd}) /\ IsFiniteSet(n.role.reads)
    BY FS_Singleton DEF Owes
  <2>2. IsFiniteSet(n.role.reads \cup {rd})
    BY <2>1, FS_Union
  <2> QED BY <2>2
<1>3. \A x \in k.role.reads :
        x.seq > 0 /\ x.seq <= k.role.read_seq /\ x.id \in Reads
  <2> SUFFICES ASSUME NEW x \in k.role.reads
               PROVE  x.seq > 0 /\ x.seq <= k.role.read_seq /\ x.id \in Reads
    OBVIOUS
  <2>1. CASE x = rd
    BY <1>1, <2>1
  <2>2. CASE x \in n.role.reads
    <3>1. x.seq > 0 /\ x.seq <= n.role.read_seq /\ x.id \in Reads
      BY <2>2 DEF Owes
    <3>2. x.seq \in Nat
      BY <1>1, <2>2 DEF ReadType
    <3> QED BY <1>1, <3>1, <3>2
  <2> QED BY <2>1, <2>2
<1>4. \A p \in Server \ {i} : /\ k.role.progress[p].read <= c[p]
                              /\ k.role.progress[p].read <= k.role.read_seq
  <2>1. \A p \in Server \ {i} : /\ n.role.progress[p].read <= c[p]
                                /\ n.role.progress[p].read <= n.role.read_seq
    BY DEF Owes
  <2> QED BY <1>1, <2>1
<1>5. Owes(i, c, k)
  BY <1>2, <1>3, <1>4 DEF Owes
<1>6. \A x \in k.role.reads : Queued(M, n, x)
  BY <1>1 DEF Queued
<1> QED BY <1>5, <1>6

\* Read: queued, announced and, alone, answered.
LEMMA LeaderReadEarns ==
  ASSUME NEW i \in Server, NEW a \in [Server -> Nat], NEW c \in [Server -> Nat],
         NEW M, NEW n, Tracks(i, a, n), Owes(i, c, n),
         NEW m \in Mail(i), m.message.type = "ClientRequest", m \in M,
         m.message.request.id \in Reads
  PROVE  Earns(i, c, M, n, LeaderRead(n, m))
<1> DEFINE id == m.message.request.id
           seq == n.role.read_seq + 1
           rd == [seq |-> seq, from |-> m.from, id |-> id]
           R == n.role.reads \cup {rd}
           y == [n.role EXCEPT !.read_seq = seq, !.reads = R]
           k == [n EXCEPT !.role = y]
           msg == [type |-> "Read", seq |-> seq]
           out == Broadcast(k, msg)
<1>1. m.message \in StaticMessage /\ m.from \in Server /\ n \in StaticNode(i)
      /\ n.role.kind = "Leader"
  BY TracksTypes DEF Mail
<1>2. id \in Ids
  BY <1>1, MessageFields
<1>3. seq \in Nat /\ seq >= n.role.read_seq /\ seq = n.role.read_seq + 1
      /\ n.role.read_seq \in Nat
  <2>1. n.role.read_seq \in Nat
    BY TracksTypes
  <2> QED BY <2>1
<1>4. LeaderRead(n, m) = IF ClusterSize(n) = 1 THEN After(out, MaybeRead(k))
                         ELSE Done(k, out)
  <2> DEFINE z == [n EXCEPT !.role.read_seq = seq, !.role.reads = R]
  <2>1. k = z
    OBVIOUS
  <2>2. LeaderRead(n, m) =
          IF ClusterSize(n) = 1 THEN After(Broadcast(z, msg), MaybeRead(z))
          ELSE Done(z, Broadcast(z, msg))
    BY DEF LeaderRead
  <2> HIDE DEF z, k
  <2> QED BY <2>1, <2>2
<1> HIDE DEF seq
<1>5. rd \in ReadType(Ids) /\ rd.seq = seq /\ rd.id = id
  <2> HIDE DEF id
  <2> QED BY <1>1, <1>2, <1>3 DEF ReadType
<1> HIDE DEF rd
<1>6. R \in SUBSET ReadType(Ids)
  BY <1>1, <1>5, LeadTypes
<1>7. /\ y \in Lead(i) /\ y.progress = n.role.progress /\ y.read_seq = seq
      /\ y.writes = n.role.writes /\ y.reads = n.role.reads \cup {rd}
      /\ y.membership_writes = n.role.membership_writes
  <2> HIDE DEF R
  <2>1. /\ y \in Lead(i) /\ y.progress = n.role.progress /\ y.read_seq = seq
        /\ y.writes = n.role.writes /\ y.reads = R
        /\ y.membership_writes = n.role.membership_writes
    BY <1>1, <1>3, <1>6, LeadTypes DEF Lead, LeaderType
  <2> QED BY <2>1 DEF R
<1> HIDE DEF y, R
<1>8. Tracks(i, a, k) /\ k.log = n.log /\ k.role = y
  BY <1>7, TracksQueues
<1> HIDE DEF k
<1>9. Owes(i, c, k) /\ \A x \in k.role.reads : Queued(M, n, x)
  <2> HIDE DEF id
  <2>1. rd.id = m.message.request.id /\ rd.id \in Reads
    BY <1>5 DEF id
  <2>2. rd.seq = n.role.read_seq + 1
    BY <1>3, <1>5
  <2> QED BY <1>5, <1>7, <1>8, <2>1, <2>2, OwesRead
<1>10. k \in StaticNode(i) /\ k.role.read_seq = seq
  BY <1>7, <1>8, TracksTypes
<1>11. out \in SUBSET StaticEnv(i) /\ Quiet(out) /\ Plain(out)
       /\ \A e \in out : e.message = msg /\ e.term = k.log.term
  <2>1. msg \in StaticMessage /\ msg.type # "CampaignResponse" /\ msg.type = "Read"
    BY <1>3 DEF StaticMessage
  <2> HIDE DEF msg
  <2>2. \A e \in out : e.message = msg /\ e.term = k.log.term
    BY DEF Broadcast, Env, Term
  <2> QED BY <1>10, <2>1, <2>2, BroadcastType DEF Plain
<1>12. \A e \in out : e.message.type = "Read" /\ e.message.seq = k.role.read_seq
  BY <1>10, <1>11
<1> HIDE DEF out
<1> DEFINE d == Done(k, out)
<1>13. Works(i, a, n, d) /\ d.n = k /\ d.out = out
  <2>1. Reports(n.log.term, n.log.ents, n.log.commit, k.role.read_seq, out)
    BY <1>11, PlainReports
  <2>2. k.role.read_seq >= n.role.read_seq
    BY <1>3, <1>10
  <2>3. Works(i, a, n, d) /\ d.n = k
    BY <1>8, <1>11, <2>1, <2>2, WorksDone
  <2> QED BY <2>3 DEF Done
<1>14. Earns(i, c, M, n, d)
  <2>1. \A e \in out : Pays(i, c, M, n, k, e)
    <3>1. k.role.read_seq <= k.role.read_seq
      BY <1>3, <1>10
    <3> QED BY <1>11, <1>12, <3>1 DEF Pays, OkTo
  <2>2. Answering(out) = {}
    BY <1>12 DEF Answering
  <2>3. IsFiniteSet(Answering(out))
    BY <2>2, FS_EmptySet
  <2> HIDE DEF d
  <2> QED BY <1>9, <1>13, <2>1, <2>3 DEF Earns
<1>15. Earns(i, c, M, n, After(out, MaybeRead(k)))
  <2> DEFINE r == MaybeRead(k)
  <2>1. Works(i, a, k, r) /\ Earns(i, c, M, k, r)
    BY <1>8, <1>9, MaybeReadWorks, MaybeReadEarns
  <2> HIDE DEF r, d
  <2>2. Works(i, a, d.n, r) /\ Earns(i, c, M, d.n, r)
    BY <1>13, <2>1
  <2>3. Earns(i, c, M, n, After(d.out, r))
    BY <1>13, <1>14, <2>2, EarnsAfter
  <2> QED BY <1>13, <2>3 DEF r
<1> QED BY <1>4, <1>14, <1>15

\* One envelope that is no answer to a read or a write and does not concern
\* reads.
LEMMA EarnsOne ==
  ASSUME NEW i \in Server, NEW a \in [Server -> Nat], NEW c, NEW M, NEW n,
         Tracks(i, a, n), Owes(i, c, n), NEW e,
         ~OkTo(Writes, e), ~OkTo(Reads, e),
         e.message.type \notin {"Read", "ClientRequest", "ReadResponse",
                                "HeartbeatResponse"}
  PROVE  Earns(i, c, M, n, Done(n, {e}))
<1>1. Pays(i, c, M, n, n, e)
  BY DEF Pays
<1>2. IsFiniteSet(Answering({e}))
  <2>1. Answering({e}) \subseteq {e}
    BY DEF Answering
  <2> QED BY <2>1, FS_Singleton, FS_Subset
<1>3. \A rd \in n.role.reads : Queued(M, n, rd)
  BY DEF Queued
<1> QED BY <1>1, <1>2, <1>3 DEF Earns, Done

\* Write, Read and Status.
LEMMA LeaderClientRequestEarns ==
  ASSUME SnapshotThreshold = 0, StaticMembership,
         NEW i \in Server, NEW a \in [Server -> Nat], NEW c \in [Server -> Nat],
         NEW M, NEW n, Tracks(i, a, n), Owes(i, c, n),
         NEW m \in Mail(i), m.message.type = "ClientRequest", m \in M
  PROVE  Earns(i, c, M, n, LeaderClientRequest(n, m))
<1> DEFINE q == m.message.request
           op == q.op
<1>1. m.message \in StaticMessage /\ m.from \in Server /\ n \in StaticNode(i)
  BY TracksTypes DEF Mail
<1>2. q \in Requests /\ q.id \in Ids
  BY <1>1, MessageFields, SeqTypes
<1>3. op \in {"Write", "Read", "Status"}
  BY <1>2, ClusterAssumption DEF StaticMembership
<1>4. CASE op = "Write"
  <2>1. LeaderClientRequest(n, m) = LeaderWrite(n, m)
    BY <1>4 DEF LeaderClientRequest
  <2>2. q.id \in Writes
    BY <1>2, <1>4 DEF Writes
  <2> QED BY <2>1, <2>2, LeaderWriteEarns
<1>5. CASE op = "Read"
  <2>1. LeaderClientRequest(n, m) = LeaderRead(n, m)
    BY <1>5 DEF LeaderClientRequest
  <2>2. q.id \in Reads
    BY <1>2, <1>5 DEF Reads
  <2> QED BY <2>1, <2>2, LeaderReadEarns
<1>6. CASE op = "Status"
  <2> DEFINE e == Reply(n, m.from, q.id, "Ok", <<>>)
  <2>1. LeaderClientRequest(n, m) = Done(n, {e})
    BY <1>6 DEF LeaderClientRequest, LeaderStatus
  <2>2. e.message.type = "ClientResponse" /\ e.message.id = q.id
    BY DEF Reply, Env
  <2> HIDE DEF e
  <2>3. q.id \notin Reads /\ q.id \notin Writes
    BY <1>2, <1>6, ClusterAssumption DEF Reads, Writes
  <2>4. ~OkTo(Writes, e) /\ ~OkTo(Reads, e)
    BY <2>2, <2>3 DEF OkTo
  <2> QED BY <2>1, <2>2, <2>4, EarnsOne
<1> QED BY <1>3, <1>4, <1>5, <1>6

\* What an answer from a peer confirms of reads is recorded of that peer.
ConfirmsTo(c, n, m) ==
  /\ m.message.type = "HeartbeatResponse" => m.message.read_seq <= c[m.from]
  /\ m.message.type = "ReadResponse" =>
       m.message.seq <= c[m.from] /\ m.message.seq <= n.role.read_seq

\* A client's answer that comes to a leader is not expected.
Startled(n, r) == r = Panic(n, "unexpected message")

\* Leader::step
LEMMA LeaderStepEarns ==
  ASSUME SnapshotThreshold = 0, StaticMembership,
         NEW i \in Server, NEW a \in [Server -> Nat], NEW c \in [Server -> Nat],
         NEW M, NEW n, Tracks(i, a, n), Owes(i, c, n),
         NEW m \in Mail(i), m.message.type \notin PreVoteTypes, HeardBy(a, n, m),
         ConfirmsTo(c, n, m), m \in M
  PROVE  \/ /\ Works(i, a, n, LeaderStep(n, m))
            /\ Earns(i, c, M, n, LeaderStep(n, m))
         \/ Startled(n, LeaderStep(n, m))
<1> DEFINE t == m.message.type
           r == LeaderStep(n, m)
           no == [type |-> "CampaignResponse", vote |-> FALSE]
           e == Env(n, m.from, no)
<1>1. m.from \in Server /\ m.message \in StaticMessage /\ n \in StaticNode(i)
  BY TracksTypes DEF Mail
<1>2. DOMAIN n.role.progress = Server \ {i}
  BY TracksTypes
<1> SUFFICES Earns(i, c, M, n, r) \/ r = Panic(n, "unexpected message")
  BY LeaderStepWorks DEF Works, Tracks, Panic, Done, Startled
<1>3. CASE t = "ClientRequest"
  <2>1. r = LeaderClientRequest(n, m)
    BY <1>3 DEF LeaderStep, PeerAnswers
  <2>2. Earns(i, c, M, n, LeaderClientRequest(n, m))
    BY <1>3, LeaderClientRequestEarns
  <2> HIDE DEF r
  <2> QED BY <2>1, <2>2
<1>4. CASE t = "Campaign"
  <2>1. r = Done(n, {e})
    BY <1>4 DEF LeaderStep, PeerAnswers
  <2>2. e.message.type = "CampaignResponse"
    BY DEF Env
  <2> HIDE DEF e, r
  <2>3. ~OkTo(Writes, e) /\ ~OkTo(Reads, e)
    BY <2>2 DEF OkTo
  <2>4. Earns(i, c, M, n, Done(n, {e}))
    BY <2>2, <2>3, EarnsOne
  <2> QED BY <2>1, <2>4
<1>5. CASE t \in {"CampaignResponse", "Heartbeat", "Append", "Read",
                  "InstallSnapshot"}
  <2>1. r = Done(n, {})
    BY <1>5 DEF LeaderStep, PeerAnswers
  <2> QED BY <2>1, EarnsStay
<1>6. CASE t = "ClientResponse"
  BY <1>6 DEF LeaderStep, PeerAnswers
<1>7. CASE t \in PeerAnswers /\ m.from = i
  <2>1. r = Done(n, {})
    BY <1>2, <1>7 DEF LeaderStep, PeerAnswers
  <2> QED BY <2>1, EarnsStay
<1>8. CASE t \in PeerAnswers /\ m.from # i
  <2>1. m.from \in Server \ {i} /\ m.from \in DOMAIN n.role.progress
    BY <1>1, <1>2, <1>8
  <2>2. CASE t = "HeartbeatResponse"
    <3>1. r = LeaderHeartbeatResponse(n, m)
      BY <2>1, <2>2 DEF LeaderStep, PeerAnswers
    <3>2. /\ m.message.match_index <= Len(n.log.ents)
          /\ m.message.match_index <= a[m.from]
          /\ m.message.read_seq <= n.role.read_seq
          /\ m.message.read_seq <= c[m.from]
      BY <2>2 DEF HeardBy, ConfirmsTo
    <3>3. Earns(i, c, M, n, LeaderHeartbeatResponse(n, m))
      BY <2>1, <2>2, <3>2, LeaderHeartbeatResponseEarns
    <3> QED BY <3>1, <3>3
  <2>3. CASE t = "AppendResponse"
    <3>1. r = LeaderAppendResponse(n, m)
      BY <2>1, <2>3 DEF LeaderStep, PeerAnswers
    <3>2. /\ m.message.match_index <= Len(n.log.ents)
          /\ m.message.match_index <= a[m.from]
          /\ m.message.reject_index <= Len(n.log.ents)
          /\ (m.message.match_index > 0) # (m.message.reject_index > 0)
      BY <2>3 DEF HeardBy
    <3>3. Earns(i, c, M, n, LeaderAppendResponse(n, m))
      BY <2>1, <2>3, <3>2, LeaderAppendResponseEarns
    <3> QED BY <3>1, <3>3
  <2>4. CASE t = "ReadResponse"
    <3> DEFINE p == m.from
               s == m.message.seq
    <3>1. r = AdvanceRead(n, p, s)
      BY <2>1, <2>4 DEF LeaderStep, PeerAnswers, LeaderReadResponse
    <3>2. s \in Nat /\ s <= c[p] /\ s <= n.role.read_seq
      BY <1>1, <2>4, MessageFields DEF ConfirmsTo
    <3>3. p \in Server \ {i}
      BY <2>1
    <3> HIDE DEF p, s, r
    <3>4. Earns(i, c, M, n, AdvanceRead(n, p, s))
      BY <3>2, <3>3, AdvanceReadEarns
    <3> QED BY <3>1, <3>4
  <2> QED BY <1>8, <2>2, <2>3, <2>4 DEF PeerAnswers, HeardBy
<1>9. t \in {"Campaign", "CampaignResponse", "Heartbeat", "HeartbeatResponse",
             "Append", "AppendResponse", "Read", "ReadResponse",
             "InstallSnapshot", "InstallSnapshotResponse",
             "ClientRequest", "ClientResponse"}
  BY <1>1, MessageKinds DEF PreVoteTypes
<1> HIDE DEF r
<1> QED BY <1>3, <1>4, <1>5, <1>6, <1>7, <1>8, <1>9 DEF PeerAnswers

\* A leader refuses pre-votes.
LEMMA LeaderPreCampaignEarns ==
  ASSUME NEW i \in Server, NEW a \in [Server -> Nat], NEW c, NEW M, NEW n,
         Tracks(i, a, n), Owes(i, c, n), NEW m \in Mail(i)
  PROVE  /\ Earns(i, c, M, n, PreCampaignStep(n, m))
         /\ PreCampaignStep(n, m).n = n
<1> DEFINE msg == [type |-> "PreCampaignResponse", vote |-> FALSE]
           e == Env(n, m.from, msg)
<1>1. n.role.kind = "Leader"
  BY DEF Tracks
<1>2. PreCampaignStep(n, m) = Done(n, {e})
  BY <1>1 DEF PreCampaignStep
<1>3. e.message.type = "PreCampaignResponse"
  BY DEF Env
<1> HIDE DEF e
<1>4. Earns(i, c, M, n, Done(n, {e}))
  BY <1>3, EarnsOne DEF OkTo
<1> QED BY <1>2, <1>4 DEF Done

-----------------------------------------------------------------------------
(* Nodes that do not lead.                                                 *)

\* What is sent answers no request with success and does not concern reads.
Humble(out) ==
  /\ IsFiniteSet(Answering(out))
  /\ \A m \in out : /\ ~OkTo(Ids, m)
                    /\ m.message.type \notin {"ClientRequest", "Read",
                                              "ReadResponse", "HeartbeatResponse"}

\* What a node of term t passes on of the messages M: requests, answers, and
\* confirmations of the reads announced in the term.
Relays(M, t, m) ==
  /\ m.message.type # "Read"
  /\ m.message.type = "ClientRequest" => \E e \in M : e.message = m.message
  /\ OkTo(Ids, m) =>
       \E e \in M : OkTo({m.message.id}, e) /\ e.message.data = m.message.data
  /\ m.message.type = "ReadResponse" =>
       /\ m.term = t
       /\ \E e \in M : /\ e.message.type = "Read" /\ e.term = t
                       /\ e.message.seq = m.message.seq
  /\ m.message.type = "HeartbeatResponse" =>
       /\ m.term = t
       /\ \E e \in M : /\ e.message.type = "Heartbeat" /\ e.term = t
                       /\ e.message.read_seq = m.message.read_seq

\* The node does not lead after the call, and passes on what it has heard.
Retires(M, r) ==
  /\ r.n.role.kind # "Leader"
  /\ r.n.role.kind = "Follower" => IsFiniteSet(r.n.role.forwarded)
  /\ IsFiniteSet(Answering(r.out))
  /\ \A m \in r.out : Relays(M, r.n.log.term, m)

\* The answers of two sets.
LEMMA AnsweringBoth ==
  ASSUME NEW A, NEW B, IsFiniteSet(Answering(A)), IsFiniteSet(Answering(B))
  PROVE  IsFiniteSet(Answering(A \cup B))
<1>1. IsFiniteSet(Answering(A) \cup Answering(B))
  BY FS_Union, Zenon
<1>2. Answering(A \cup B) = Answering(A) \cup Answering(B)
  BY DEF Answering
<1> QED BY <1>1, <1>2

\* What is humble may be sent, on any account.
LEMMA HumbleRelays ==
  ASSUME NEW out, Humble(out), NEW m \in out, NEW M, NEW t
  PROVE  Relays(M, t, m)
BY DEF Humble, Relays

\* A node that does not lead and what it sends.
LEMMA RetiresDone ==
  ASSUME NEW M, NEW k, k.role.kind # "Leader",
         k.role.kind = "Follower" => IsFiniteSet(k.role.forwarded),
         NEW out, Humble(out)
  PROVE  Retires(M, Done(k, out))
<1>1. Done(k, out).n = k /\ Done(k, out).out = out
  BY DEF Done
<1>2. \A m \in out : Relays(M, k.log.term, m)
  BY HumbleRelays
<1> QED BY <1>1, <1>2 DEF Retires, Humble

\* Nothing is humble.
LEMMA NothingHumble == Humble({})
<1>1. Answering({}) = {}
  BY DEF Answering
<1> QED BY <1>1, FS_EmptySet DEF Humble

\* One envelope.
LEMMA OneAnswering ==
  ASSUME NEW m
  PROVE  IsFiniteSet(Answering({m}))
<1>1. IsFiniteSet({m})
  BY FS_Singleton, Zenon
<1>2. Answering({m}) \in SUBSET {m}
  BY DEF Answering
<1> QED BY <1>1, <1>2, FS_Subset, Zenon

LEMMA RetiresOne ==
  ASSUME NEW M, NEW k, k.role.kind # "Leader",
         k.role.kind = "Follower" => IsFiniteSet(k.role.forwarded),
         NEW m, Relays(M, k.log.term, m)
  PROVE  Retires(M, Done(k, {m}))
<1>1. Done(k, {m}).n = k /\ Done(k, {m}).out = {m}
  BY DEF Done
<1>2. IsFiniteSet(Answering({m}))
  BY OneAnswering
<1> QED BY <1>1, <1>2 DEF Retires

\* A panic.
LEMMA RetiresPanic ==
  ASSUME NEW i \in Server, NEW n \in StaticNode(i), NEW M, NEW why
  PROVE  Retires(M, Panic(n, why))
<1>1. /\ Panic(n, why).n.role.kind = "Panicked" /\ Panic(n, why).out = {}
  BY DEF Panic, Done, StaticNode
<1> QED BY <1>1, NothingHumble DEF Retires, Humble

\* More is sent first.
LEMMA RetiresAfter ==
  ASSUME NEW M, NEW r, Retires(M, r), NEW out, Humble(out)
  PROVE  Retires(M, After(out, r))
<1>1. CASE r.n.role.kind = "Panicked"
  BY <1>1 DEF After
<1>2. CASE r.n.role.kind # "Panicked"
  <2>1. After(out, r).n = r.n /\ After(out, r).out = out \cup r.out
    BY <1>2 DEF After, Done
  <2>2. IsFiniteSet(Answering(out \cup r.out))
    BY AnsweringBoth DEF Retires, Humble
  <2>3. \A m \in out : Relays(M, r.n.log.term, m)
    BY HumbleRelays
  <2> QED BY <2>1, <2>2, <2>3 DEF Retires
<1> QED BY <1>1, <1>2

\* Aborts are humble when they are as many as the queue.
LEMMA AbortHumble ==
  ASSUME NEW out, IsFiniteSet(out),
         \A m \in out : /\ m.message.type = "ClientResponse"
                        /\ m.message.status = "Abort"
  PROVE  Humble(out)
<1>1. IsFiniteSet(Answering(out))
  <2>1. Answering(out) \in SUBSET out
    BY DEF Answering
  <2> QED BY <2>1, FS_Subset, Zenon
<1> QED BY <1>1 DEF Humble, OkTo

LEMMA AbortForwardedHumble ==
  ASSUME NEW n, IsFiniteSet(n.role.forwarded)
  PROVE  Humble(AbortForwarded(n))
<1> DEFINE F == n.role.forwarded
           f == [id \in F |-> Abort(n, n.id, id)]
<1>1. \A id \in F : f[id] = Abort(n, n.id, id)
  OBVIOUS
<1>2. DOMAIN f = F
  OBVIOUS
<1>3. AbortForwarded(n) \subseteq {f[id] : id \in F}
  BY <1>1 DEF AbortForwarded
<1> HIDE DEF f
<1>4. IsFiniteSet(AbortForwarded(n))
  BY <1>2, <1>3, ImageFinite
<1>5. \A m \in AbortForwarded(n) :
        m.message.type = "ClientResponse" /\ m.message.status = "Abort"
  BY DEF AbortForwarded, Abort, Reply, Env
<1> QED BY <1>4, <1>5, AbortHumble

LEMMA AbortClientsHumble ==
  ASSUME NEW n, IsFiniteSet(n.role.writes), IsFiniteSet(n.role.reads),
         n.role.membership_writes = {}
  PROVE  Humble(AbortClients(n))
<1> DEFINE F == n.role.writes \cup n.role.membership_writes \cup n.role.reads
           f == [w \in F |-> Abort(n, w.from, w.id)]
<1>1. \A w \in F : f[w] = Abort(n, w.from, w.id)
  OBVIOUS
<1>2. DOMAIN f = F
  OBVIOUS
<1>3. AbortClients(n) \subseteq {f[w] : w \in F}
  BY <1>1 DEF AbortClients
<1>4. IsFiniteSet(F)
  <2>1. IsFiniteSet(n.role.writes \cup n.role.reads)
    BY FS_Union, Zenon
  <2>2. F = n.role.writes \cup n.role.reads
    OBVIOUS
  <2> QED BY <2>1, <2>2
<1> HIDE DEF f, F
<1>5. IsFiniteSet(AbortClients(n))
  BY <1>2, <1>3, <1>4, ImageFinite
<1>6. \A m \in AbortClients(n) :
        m.message.type = "ClientResponse" /\ m.message.status = "Abort"
  BY DEF AbortClients, Abort, Reply, Env
<1> QED BY <1>5, <1>6, AbortHumble

-----------------------------------------------------------------------------
(* Follower::step.                                                         *)

\* A follower whose list of forwarded requests is finite.
Attends(i, n) ==
  /\ n \in StaticNode(i) /\ n.role.kind = "Follower"
  /\ IsFiniteSet(n.role.forwarded)

\* Taking the sender for its leader empties the list at most.
LEMMA FollowingAttends ==
  ASSUME NEW i \in Server, NEW n, Attends(i, n), NEW m \in Mail(i)
  PROVE  Attends(i, Following(n, m)) /\ Following(n, m).log = n.log
<1> DEFINE f == Following(n, m)
<1>1. f \in StaticNode(i) /\ f.role.kind = "Follower" /\ f.log = n.log
  BY FollowingType DEF Attends
<1>2. f.role = n.role \/ f.role = Follower(m.from)
  BY DEF Following, StaticNode, Attends
<1>3. IsFiniteSet(f.role.forwarded)
  <2>1. Follower(m.from).forwarded = {}
    BY DEF Follower
  <2> QED BY <1>2, <2>1, FS_EmptySet DEF Attends
<1> QED BY <1>1, <1>3 DEF Attends

\* The role survives another log, and what is applied of it.
LEMMA RoleKept ==
  ASSUME NEW i \in Server, NEW n \in StaticNode(i), NEW L
  PROVE  LET k == [n EXCEPT !.log = L]
         IN /\ k.role = n.role /\ MaybeApply(k).role = n.role
            /\ \A e : AdoptMemberships(k, e).role = n.role
<1> DEFINE k == [n EXCEPT !.log = L]
<1>1. k.role = n.role /\ DOMAIN k = {"id", "log", "mem", "sm", "role"}
  BY DEF StaticNode
<1> HIDE DEF k
<1>2. MaybeApply(k).role = k.role
  BY <1>1 DEF MaybeApply
<1>3. \A e : AdoptMemberships(k, e).role = k.role
  BY <1>1 DEF AdoptMemberships
<1> QED BY <1>1, <1>2, <1>3 DEF k

\* A follower's answer to a message of its term.
LEMMA AnswerRetires ==
  ASSUME NEW i \in Server, NEW n, Attends(i, n), NEW M, NEW m \in Mail(i),
         m.term = n.log.term, NEW f, f.log = n.log, NEW k,
         k.role.kind = "Follower", IsFiniteSet(k.role.forwarded),
         k.log.term = n.log.term, NEW msg, NEW to,
         Relays(M, n.log.term, Env(f, to, msg))
  PROVE  Retires(M, Done(k, {Env(f, to, msg)}))
<1>1. Relays(M, k.log.term, Env(f, to, msg))
  OBVIOUS
<1> QED BY <1>1, RetiresOne

LEMMA IgnoresRetires ==
  ASSUME NEW i \in Server, NEW n, Attends(i, n), NEW M
  PROVE  Retires(M, Done(n, {}))
BY RetiresDone, NothingHumble DEF Attends

\* Heartbeat: the reads announced with it are confirmed.
LEMMA FollowerHeartbeatRetires ==
  ASSUME NEW i \in Server, NEW n, Attends(i, n), NEW M, NEW m \in Mail(i),
         m.term = n.log.term, m \in M, m.message.type = "Heartbeat"
  PROVE  Retires(M, FollowerHeartbeat(n, m))
<1> DEFINE f == Following(n, m)
           h == m.message
           match == IF Has(f.log, h.last_index, m.term) THEN h.last_index ELSE 0
           msg == [type |-> "HeartbeatResponse", match_index |-> match,
                   read_seq |-> h.read_seq]
           k == MaybeApply([f EXCEPT !.log = Commit(@, h.commit_index)])
           r == FollowerHeartbeat(n, m)
<1>1. Attends(i, f) /\ f.log = n.log
  BY FollowingAttends
<1>2. r \in {Panic(n, "commit after last index"), Done(n, {}),
             Done(f, {Env(f, m.from, msg)}), Done(k, {Env(f, m.from, msg)}),
             Panic(f, "commit index missing")}
  BY Zenon DEF FollowerHeartbeat
<1>3. r.n.log.term = n.log.term
  BY FollowerHeartbeatType DEF Follows, Keeps, SameBallot, Attends
<1>4. k.role = f.role
  BY <1>1, RoleKept DEF Attends
<1>5. Relays(M, n.log.term, Env(f, m.from, msg))
  <2>1. /\ Env(f, m.from, msg).term = n.log.term
        /\ Env(f, m.from, msg).message = msg
    BY <1>1 DEF Env, Term
  <2>2. msg.type = "HeartbeatResponse" /\ msg.read_seq = h.read_seq
    OBVIOUS
  <2> QED BY <2>1, <2>2 DEF Relays, OkTo
<1>6. Done(k, {Env(f, m.from, msg)}).n = k /\ Done(f, {Env(f, m.from, msg)}).n = f
  BY DEF Done
<1> SUFFICES Retires(M, r)
  OBVIOUS
<1> HIDE DEF f, k, msg, r, match
<1>7. CASE r = Done(f, {Env(f, m.from, msg)})
  BY <1>1, <1>5, <1>7, AnswerRetires DEF Attends
<1>8. CASE r = Done(k, {Env(f, m.from, msg)})
  <2>1. k.role.kind = "Follower" /\ IsFiniteSet(k.role.forwarded)
    BY <1>1, <1>4 DEF Attends
  <2>2. k.log.term = n.log.term
    BY <1>3, <1>6, <1>8
  <2>3. Retires(M, Done(k, {Env(f, m.from, msg)}))
    BY <1>1, <1>5, <2>1, <2>2, AnswerRetires
  <2> QED BY <1>8, <2>3
<1>9. CASE r = Done(n, {})
  BY <1>9, IgnoresRetires
<1>10. CASE r = Panic(n, "commit after last index")
  BY <1>10, RetiresPanic DEF Attends
<1>11. CASE r = Panic(f, "commit index missing")
  BY <1>1, <1>11, RetiresPanic DEF Attends
<1> QED BY <1>2, <1>7, <1>8, <1>9, <1>10, <1>11

\* An envelope that is no answer to a client and does not concern reads.
LEMMA QuietRelays ==
  ASSUME NEW M, NEW t, NEW n, NEW to, NEW msg,
         msg.type \in {"AppendResponse", "CampaignResponse",
                       "PreCampaignResponse"}
  PROVE  Relays(M, t, Env(n, to, msg))
<1>1. Env(n, to, msg).message = msg
  BY DEF Env
<1> HIDE DEF Env
<1> QED BY <1>1 DEF Relays, OkTo

\* Append
LEMMA FollowerAppendRetires ==
  ASSUME NEW i \in Server, NEW n, Attends(i, n), NEW M, NEW m \in Mail(i),
         m.term = n.log.term, m.message.type = "Append"
  PROVE  Retires(M, FollowerAppend(n, m))
<1> DEFINE f == Following(n, m)
           a == m.message
           msg(x, y) == [type |-> "AppendResponse", match_index |-> x,
                         reject_index |-> y]
           k == Spliced(f, a)
           r == FollowerAppend(n, m)
           no == Min({a.base_index, LastIndex(f.log) + 1})
           yes == a.base_index + Len(a.entries)
<1>1. Attends(i, f) /\ f.log = n.log
  BY FollowingAttends
<1>2. r \in {Done(n, {}), Done(f, {Env(f, m.from, msg(0, no))}),
             Done(k, {Env(f, m.from, msg(yes, 0))}), Panic(f, "splice")}
  BY Zenon DEF FollowerAppend, AppendAnswer
<1>3. r.n.log.term = n.log.term
  BY FollowerAppendType DEF Follows, Keeps, SameBallot, Attends
<1>4. k.role = f.role
  BY <1>1, RoleKept DEF Attends, Spliced
<1>5. \A x, y : msg(x, y).type = "AppendResponse"
  OBVIOUS
<1>6. Done(k, {Env(f, m.from, msg(yes, 0))}).n = k
  BY DEF Done
<1> SUFFICES Retires(M, r)
  OBVIOUS
<1> HIDE DEF f, k, msg, r, no, yes
<1>7. \A x, y : Relays(M, n.log.term, Env(f, m.from, msg(x, y)))
  BY <1>5, QuietRelays
<1>8. CASE r = Done(f, {Env(f, m.from, msg(0, no))})
  <2>1. Retires(M, Done(f, {Env(f, m.from, msg(0, no))}))
    BY <1>1, <1>7, AnswerRetires DEF Attends
  <2> QED BY <1>8, <2>1
<1>9. CASE r = Done(k, {Env(f, m.from, msg(yes, 0))})
  <2>1. k.role.kind = "Follower" /\ IsFiniteSet(k.role.forwarded)
    BY <1>1, <1>4 DEF Attends
  <2>2. k.log.term = n.log.term
    BY <1>3, <1>6, <1>9
  <2>3. Retires(M, Done(k, {Env(f, m.from, msg(yes, 0))}))
    BY <1>1, <1>7, <2>1, <2>2, AnswerRetires
  <2> QED BY <1>9, <2>3
<1>10. CASE r = Done(n, {})
  BY <1>10, IgnoresRetires
<1>11. CASE r = Panic(f, "splice")
  BY <1>1, <1>11, RetiresPanic DEF Attends
<1> QED BY <1>2, <1>8, <1>9, <1>10, <1>11

\* Read: confirmed.
LEMMA FollowerReadRetires ==
  ASSUME NEW i \in Server, NEW n, Attends(i, n), NEW M, NEW m \in Mail(i),
         m.term = n.log.term, m \in M, m.message.type = "Read"
  PROVE  Retires(M, FollowerRead(n, m))
<1> DEFINE f == Following(n, m)
           msg == [type |-> "ReadResponse", seq |-> m.message.seq]
           r == FollowerRead(n, m)
<1>1. Attends(i, f) /\ f.log = n.log
  BY FollowingAttends
<1>2. r \in {Done(n, {}), Done(f, {Env(f, m.from, msg)})}
  BY Zenon DEF FollowerRead
<1>3. Relays(M, n.log.term, Env(f, m.from, msg))
  <2>1. /\ Env(f, m.from, msg).term = n.log.term
        /\ Env(f, m.from, msg).message = msg
    BY <1>1 DEF Env, Term
  <2>2. msg.type = "ReadResponse" /\ msg.seq = m.message.seq
    OBVIOUS
  <2> QED BY <2>1, <2>2 DEF Relays, OkTo
<1> SUFFICES Retires(M, r)
  OBVIOUS
<1> HIDE DEF f, msg, r
<1>4. CASE r = Done(f, {Env(f, m.from, msg)})
  BY <1>1, <1>3, <1>4, AnswerRetires DEF Attends
<1>5. CASE r = Done(n, {})
  BY <1>5, IgnoresRetires
<1> QED BY <1>2, <1>4, <1>5

\* Campaign
LEMMA FollowerCampaignRetires ==
  ASSUME NEW i \in Server, NEW n, Attends(i, n), NEW M, NEW m \in Mail(i),
         m.message.type = "Campaign"
  PROVE  Retires(M, FollowerCampaign(n, m))
<1> DEFINE grant == n.log.vote \in {Nil, m.from} /\ LogOk(n, m.message)
           v == IF grant
                THEN [n EXCEPT !.log = SetTermVote(@, m.term, m.from)] ELSE n
           msg == [type |-> "CampaignResponse", vote |-> grant]
<1>1. FollowerCampaign(n, m) = Done(v, {Env(v, m.from, msg)})
  BY Zenon DEF FollowerCampaign
<1>2. v.role = n.role
  BY RoleKept DEF Attends
<1>3. msg.type = "CampaignResponse"
  OBVIOUS
<1> HIDE DEF v, msg
<1>4. Relays(M, v.log.term, Env(v, m.from, msg))
  BY <1>3, QuietRelays
<1> QED BY <1>1, <1>2, <1>4, RetiresOne DEF Attends

\* A follower has such a list.
LEMMA ForwardedField ==
  ASSUME NEW i \in Server, NEW n \in StaticNode(i), n.role.kind = "Follower"
  PROVE  "role" \in DOMAIN n /\ "forwarded" \in DOMAIN n.role
<1>1. n.role \in Role(i)
  BY FieldTypes
<1>2. n.role \in FollowerType(Ids)
  BY <1>1 DEF Role, CandidateType, Lead, LeaderType, PanickedType
<1>3. "forwarded" \in DOMAIN n.role
  BY <1>2 DEF FollowerType
<1>4. "role" \in DOMAIN n
  BY DEF StaticNode
<1> QED BY <1>3, <1>4

\* A client's request is passed on or aborted.
LEMMA FollowerClientRequestRetires ==
  ASSUME NEW i \in Server, NEW n, Attends(i, n), NEW M, NEW m \in Mail(i),
         m \in M, m.message.type = "ClientRequest"
  PROVE  Retires(M, FollowerClientRequest(n, m))
<1> DEFINE id == m.message.request.id
           F == n.role.forwarded \cup {id}
           k == [n EXCEPT !.role.forwarded = @ \cup {id}]
           e == Env(n, n.role.leader, m.message)
           g == Abort(n, m.from, id)
           r == FollowerClientRequest(n, m)
<1>1. id \in Ids
  BY MessageFields, Zenon DEF Mail
<1>2. r \in {Done(k, {e}), Done(n, {g})}
  BY Zenon DEF FollowerClientRequest
<1>3. k.role.kind = "Follower" /\ k.role.forwarded = F
  <2>1. F \in SUBSET Ids
    BY <1>1, SetForwarded DEF Attends
  <2>2. k = [n EXCEPT !.role.forwarded = F]
    OBVIOUS
  <2>3. k.role.kind = "Follower"
    BY <2>1, <2>2, SetForwarded DEF Attends
  <2>4. "role" \in DOMAIN n /\ "forwarded" \in DOMAIN n.role
    BY ForwardedField DEF Attends
  <2>5. k.role.forwarded = F
    BY <2>4
  <2> QED BY <2>3, <2>5
<1>4. IsFiniteSet(F)
  BY FS_AddElement, Zenon DEF Attends
<1>5. \A t : Relays(M, t, e)
  <2>1. e.message = m.message
    BY DEF Env
  <2> HIDE DEF e
  <2> QED BY <2>1 DEF Relays, OkTo
<1>6. \A t : Relays(M, t, g)
  <2>1. g.message.type = "ClientResponse" /\ g.message.status = "Abort"
    BY DEF Abort, Reply, Env
  <2> HIDE DEF g
  <2> QED BY <2>1 DEF Relays, OkTo
<1> SUFFICES Retires(M, r)
  OBVIOUS
<1> HIDE DEF k, e, g, r, F, id
<1>7. CASE r = Done(k, {e})
  BY <1>3, <1>4, <1>5, <1>7, RetiresOne
<1>8. CASE r = Done(n, {g})
  BY <1>6, <1>8, RetiresOne DEF Attends
<1> QED BY <1>2, <1>7, <1>8

\* The leader's answer is passed on or ignored.
LEMMA FollowerClientResponseRetires ==
  ASSUME NEW i \in Server, NEW n, Attends(i, n), NEW M, NEW m \in Mail(i),
         m \in M, m.message.type = "ClientResponse"
  PROVE  Retires(M, FollowerClientResponse(n, m))
<1> DEFINE c == m.message
           F == n.role.forwarded \ {c.id}
           k == [n EXCEPT !.role.forwarded = @ \ {c.id}]
           e == Reply(n, n.id, c.id, c.status, c.data)
           r == FollowerClientResponse(n, m)
<1>1. r \in {Done(n, {}), Done(k, {e})}
  BY Zenon DEF FollowerClientResponse
<1>2. k.role.kind = "Follower" /\ k.role.forwarded = F
  <2>1. F \in SUBSET Ids
    BY SetForwarded DEF Attends
  <2>2. k = [n EXCEPT !.role.forwarded = F]
    OBVIOUS
  <2>3. k.role.kind = "Follower"
    BY <2>1, <2>2, SetForwarded DEF Attends
  <2>4. "role" \in DOMAIN n /\ "forwarded" \in DOMAIN n.role
    BY ForwardedField DEF Attends
  <2>5. k.role.forwarded = F
    BY <2>4
  <2> QED BY <2>3, <2>5
<1>3. IsFiniteSet(F)
  BY FS_RemoveElement, Zenon DEF Attends
<1>4. \A t : Relays(M, t, e)
  <2>1. /\ e.message.type = "ClientResponse" /\ e.message.id = c.id
        /\ e.message.status = c.status /\ e.message.data = c.data
    BY DEF Reply, Env
  <2> HIDE DEF e
  <2> QED BY <2>1 DEF Relays, OkTo
<1> SUFFICES Retires(M, r)
  OBVIOUS
<1> HIDE DEF k, e, r, F, c
<1>5. CASE r = Done(k, {e})
  BY <1>2, <1>3, <1>4, <1>5, RetiresOne
<1>6. CASE r = Done(n, {})
  BY <1>6, IgnoresRetires
<1> QED BY <1>1, <1>5, <1>6

\* Follower::step
LEMMA FollowerStepRetires ==
  ASSUME NEW i \in Server, NEW n, Attends(i, n), NEW M, NEW m \in Mail(i),
         m.term = n.log.term, m \in M, m.message.type # "InstallSnapshot"
  PROVE  Retires(M, FollowerStep(n, m))
<1> DEFINE t == m.message.type
<1>1. CASE t = "Heartbeat"
  BY <1>1, FollowerHeartbeatRetires DEF FollowerStep
<1>2. CASE t = "Append"
  BY <1>2, FollowerAppendRetires DEF FollowerStep
<1>3. CASE t = "Read"
  BY <1>3, FollowerReadRetires DEF FollowerStep
<1>4. CASE t = "Campaign"
  BY <1>4, FollowerCampaignRetires DEF FollowerStep
<1>5. CASE t = "ClientRequest"
  BY <1>5, FollowerClientRequestRetires DEF FollowerStep
<1>6. CASE t = "ClientResponse"
  BY <1>6, FollowerClientResponseRetires DEF FollowerStep
<1>7. CASE t \in {"CampaignResponse", "InstallSnapshotResponse"}
  BY <1>7, IgnoresRetires DEF FollowerStep
<1>8. CASE t \notin {"Heartbeat", "Append", "Read", "Campaign", "ClientRequest",
                     "ClientResponse", "CampaignResponse",
                     "InstallSnapshotResponse"}
  <2>1. FollowerStep(n, m) = Panic(n, "follower received unexpected message")
    BY <1>8 DEF FollowerStep
  <2>2. n \in StaticNode(i)
    BY DEF Attends
  <2> HIDE DEF t
  <2> QED BY <2>1, <2>2, RetiresPanic
<1> HIDE DEF t
<1> QED BY <1>1, <1>2, <1>3, <1>4, <1>5, <1>6, <1>7, <1>8

-----------------------------------------------------------------------------
(* Into follower, into candidate.                                          *)

\* The queues of a node are finite.
Bounded(n) ==
  /\ n.role.kind = "Leader" =>
       /\ IsFiniteSet(n.role.writes) /\ IsFiniteSet(n.role.reads)
       /\ n.role.membership_writes = {}
  /\ n.role.kind = "Follower" => IsFiniteSet(n.role.forwarded)

\* A new term empties them.
LEMMA DiscoverTermAttends ==
  ASSUME NEW i \in Server, NEW n \in StaticNode(i), Sound(n), Bounded(n),
         NEW t \in Nat
  PROVE  LET d == DiscoverTerm(n, t)
         IN Attends(i, d.n) /\ d.n.log.term = t /\ Humble(d.out)
<1> DEFINE d == DiscoverTerm(n, t)
           later == [n EXCEPT !.log = SetTermVote(@, t, Nil)]
<1>1. d.n \in StaticNode(i) /\ d.n.log.term = t /\ d.n.role.kind = "Follower"
  BY DiscoverTermSound DEF Outcome
<1>2. later.role = n.role /\ DOMAIN later = {"id", "log", "mem", "sm", "role"}
  BY DEF StaticNode
<1>3. d.n.role = Follower(Nil)
  BY <1>2 DEF DiscoverTerm, Done
<1>4. d.out \in {AbortForwarded(n), AbortClients(later), {}}
  BY DEF DiscoverTerm, Done
<1>5. /\ n.role.kind = "Follower" => d.out = AbortForwarded(n)
      /\ n.role.kind = "Leader" => d.out = AbortClients(later)
      /\ n.role.kind \notin {"Follower", "Leader"} => d.out = {}
  BY DEF DiscoverTerm, Done
<1> HIDE DEF d, later
<1>6. Attends(i, d.n)
  <2>1. d.n.role.forwarded = {}
    BY <1>3 DEF Follower
  <2> QED BY <1>1, <2>1, FS_EmptySet DEF Attends
<1>7. Humble(d.out)
  <2>1. CASE n.role.kind = "Follower"
    BY <1>5, <2>1, AbortForwardedHumble DEF Bounded
  <2>2. CASE n.role.kind = "Leader"
    BY <1>2, <1>5, <2>2, AbortClientsHumble DEF Bounded
  <2>3. CASE n.role.kind \notin {"Follower", "Leader"}
    BY <1>5, <2>3, NothingHumble
  <2> QED BY <2>1, <2>2, <2>3
<1> QED BY <1>1, <1>6, <1>7 DEF d

\* So does stepping down.
LEMMA StepDownRetires ==
  ASSUME NEW i \in Server, NEW n \in StaticNode(i), n.role.kind = "Leader",
         Bounded(n), NEW M
  PROVE  Retires(M, StepDown(n))
<1> DEFINE k == [n EXCEPT !.role = Follower(Nil)]
<1>1. StepDown(n) = Done(k, AbortClients(n))
  BY DEF StepDown
<1>2. k.role.kind = "Follower" /\ k.role.forwarded = {}
  BY DEF StaticNode, Follower
<1>3. Humble(AbortClients(n))
  BY AbortClientsHumble DEF Bounded
<1> HIDE DEF k
<1> QED BY <1>1, <1>2, <1>3, RetiresDone, FS_EmptySet

-----------------------------------------------------------------------------
(* A new office.                                                           *)

Unread == [v \in Server |-> 0]

\* The node leads a term in which it was not asked before, and owes nothing
\* but what it has paid.
Opens(i, r) ==
  /\ r.n.role.kind = "Leader"
  /\ \E k : k.role.reads = {} /\ Earns(i, Unread, {}, k, r)

LEMMA OpensAfter ==
  ASSUME NEW i, NEW r, Opens(i, r), NEW out, Humble(out)
  PROVE  Opens(i, After(out, r)) /\ After(out, r).n = r.n
<1> DEFINE q == After(out, r)
<1>1. q.n = r.n /\ q.out = out \cup r.out
  BY DEF Opens, After, Done
<1> HIDE DEF q
<1>2. PICK k : k.role.reads = {} /\ Earns(i, Unread, {}, k, r)
  BY DEF Opens
<1>3. IsFiniteSet(Answering(q.out))
  BY <1>1, <1>2, AnsweringBoth DEF Earns, Humble
<1>4. Reads \subseteq Ids /\ Writes \subseteq Ids
  BY DEF Reads, Writes, Ids
<1>5. ASSUME NEW m \in out
      PROVE  Pays(i, Unread, {}, k, r.n, m)
  <2>1. ~OkTo(Reads, m) /\ ~OkTo(Writes, m)
    BY <1>4 DEF Humble, OkTo
  <2>2. m.message.type \notin {"ClientRequest", "Read", "ReadResponse",
                               "HeartbeatResponse"}
    BY DEF Humble
  <2> QED BY <2>1, <2>2 DEF Pays
<1>6. Earns(i, Unread, {}, k, q)
  BY <1>1, <1>2, <1>3, <1>5 DEF Earns
<1> QED BY <1>1, <1>2, <1>6 DEF Opens, q

\* into_leader
LEMMA IntoLeaderOpens ==
  ASSUME SnapshotThreshold = 0,
         NEW i \in Server, NEW n \in StaticNode(i), Sound(n), n.log.vote = i,
         n.log.term > 0
  PROVE  Opens(i, IntoLeader(n)) /\ IntoLeader(n).n.log.term = n.log.term
<1> DEFINE x == Leader(n)
           k == [n EXCEPT !.role = x]
           p == Propose(k, Nil)
           f == Flagless(MaybeCommitAndApply(p.n))
           q == IF p.n.role.kind = "Panicked" THEN p ELSE After(p.out, f)
           h == Heartbeat(q.n)
           r == IF q.n.role.kind = "Panicked" THEN q ELSE After(q.out, h)
           a == Unread
<1>0. a \in [Server -> Nat]
  BY DEF Unread
<1>1. /\ x \in Lead(i) /\ n.id = i /\ Len(n.log.ents) \in Nat
      /\ LastIndex(n.log) = Len(n.log.ents) /\ Peers(n) = Server \ {i}
  BY LeaderRole, FieldTypes, SoundLog, PeersOf
<1>2. \A j \in Server \ {i} : /\ x.progress[j].match = 0
                              /\ x.progress[j].next = Len(n.log.ents) + 1
                              /\ x.progress[j].read = 0
  BY <1>1 DEF Leader, Progress
<1>3. k \in StaticNode(i) /\ k.log = n.log /\ k.role = x /\ k.sm = n.sm
      /\ x.kind = "Leader"
  <2> HIDE DEF x
  <2>1. x \in Role(i)
    BY <1>1 DEF Role
  <2> QED BY <1>1, <2>1, LeadRole, SetRole
<1>4. /\ x.writes = {} /\ x.membership_writes = {} /\ x.reads = {}
      /\ x.read_seq = 0
  BY DEF Leader
<1>5. IntoLeader(n) = r
  <2>1. IntoLeader(n) = Require(n.log.vote = n.id, "leader did not vote for self", r)
    BY DEF IntoLeader, Then, CommitOnly
  <2> HIDE DEF r
  <2> QED BY <1>1, <2>1 DEF Require
<1> HIDE DEF x, k, a
<1>6. Tracks(i, a, k)
  <2>1. Sound(k)
    BY <1>3 DEF Sound
  <2>2. \A j \in Server \ {i} : a[j] = 0
    BY DEF a, Unread
  <2>3. ASSUME NEW j \in Server \ {i}
        PROVE  /\ k.role.progress[j].match < k.role.progress[j].next
               /\ k.role.progress[j].next <= Len(k.log.ents) + 1
               /\ k.role.progress[j].match <= a[j]
    BY <1>1, <1>2, <1>3, <2>2
  <2> QED BY <1>3, <2>1, <2>3 DEF Tracks
<1>7. Owes(i, a, k)
  <2>1. \A j \in Server \ {i} : a[j] = 0
    BY DEF a, Unread
  <2>2. \A j \in Server \ {i} : /\ k.role.progress[j].read <= a[j]
                                /\ k.role.progress[j].read <= k.role.read_seq
    BY <1>2, <1>3, <1>4, <2>1
  <2> QED BY <1>3, <1>4, <2>2, FS_EmptySet DEF Owes
<1>8. Nil \in Cmd
  BY DEF Cmd
<1>9. /\ Works(i, a, k, p) /\ Earns(i, a, {}, k, p) /\ Current(p.n)
      /\ Tracks(i, a, p.n) /\ Owes(i, a, p.n)
  BY <1>0, <1>6, <1>7, <1>8, ProposeWorks, ProposeEarns DEF Works, Earns
<1> HIDE DEF p
<1>10. Works(i, a, p.n, f) /\ Earns(i, a, {}, p.n, f)
  BY <1>0, <1>9, CommitWorks, CommitEarns
<1> HIDE DEF f
<1>11. /\ Works(i, a, k, q) /\ Earns(i, a, {}, k, q) /\ q.n = f.n
  <2>1. /\ Works(i, a, k, After(p.out, f)) /\ After(p.out, f).n = f.n
        /\ q = After(p.out, f)
    BY <1>0, <1>6, <1>9, <1>10, WorksAfter
  <2>2. Earns(i, a, {}, k, After(p.out, f))
    BY <1>0, <1>6, <1>9, <1>10, EarnsAfter
  <2> QED BY <2>1, <2>2
<1>12. Current(q.n) /\ Tracks(i, a, q.n) /\ Owes(i, a, q.n)
  <2>1. Current(f.n)
    BY <1>0, <1>9, <1>10, CurrentStays
  <2> HIDE DEF q
  <2> QED BY <1>11, <2>1 DEF Works, Earns
<1> HIDE DEF q
<1>13. Works(i, a, q.n, h) /\ Earns(i, a, {}, q.n, h)
  BY <1>0, <1>12, HeartbeatWorks, HeartbeatEarns
<1> HIDE DEF h
<1>14. Works(i, a, k, r) /\ Earns(i, a, {}, k, r)
  <2>1. Works(i, a, k, After(q.out, h)) /\ r = After(q.out, h)
    BY <1>0, <1>6, <1>11, <1>13, WorksAfter
  <2>2. Earns(i, a, {}, k, After(q.out, h))
    BY <1>0, <1>6, <1>11, <1>13, EarnsAfter
  <2> QED BY <2>1, <2>2
<1> HIDE DEF r
<1>15. r.n.role.kind = "Leader" /\ r.n.log.term = n.log.term
  BY <1>3, <1>14 DEF Works, Leading, Keeps, SameBallot, Tracks
<1>16. k.role.reads = {}
  BY <1>3, <1>4
<1>17. Opens(i, r)
  BY <1>14, <1>15, <1>16 DEF Opens, a
<1> QED BY <1>5, <1>15, <1>17

-----------------------------------------------------------------------------
(* Candidates and pre-votes.                                               *)

\* A candidate that has asked for votes.
Stood(r) == r.n.role.kind = "Candidate" /\ Humble(r.out)

LEMMA StoodRetires ==
  ASSUME NEW r, Stood(r)
  PROVE  \A M : Retires(M, r)
<1>1. ASSUME NEW M
      PROVE  \A m \in r.out : Relays(M, r.n.log.term, m)
  BY HumbleRelays DEF Stood
<1> QED BY <1>1 DEF Stood, Retires, Humble

LEMMA HumbleBoth ==
  ASSUME NEW A, NEW B, Humble(A), Humble(B)
  PROVE  Humble(A \cup B)
<1>1. IsFiniteSet(Answering(A \cup B))
  BY AnsweringBoth DEF Humble
<1> QED BY <1>1 DEF Humble

LEMMA StoodAfter ==
  ASSUME NEW r, Stood(r), NEW out, Humble(out)
  PROVE  Stood(After(out, r))
<1>1. After(out, r).n = r.n /\ After(out, r).out = out \cup r.out
  BY DEF Stood, After, Done
<1> QED BY <1>1, HumbleBoth DEF Stood

\* Requests for votes are humble.
LEMMA AsksHumble ==
  ASSUME NEW out,
         \A m \in out : m.message.type \in {"Campaign", "PreCampaign"}
  PROVE  Humble(out)
<1>1. Answering(out) = {}
  BY DEF Answering
<1> QED BY <1>1, FS_EmptySet DEF Humble, OkTo

LEMMA CampaignStood ==
  ASSUME NEW i \in Server, NEW n \in StaticNode(i)
  PROVE  Stood(Campaign(n))
<1> DEFINE c == [n EXCEPT !.log = SetTermVote(@, Term(n) + 1, n.id),
                          !.role = Candidate("Election", {n.id})]
           msg == [type |-> "Campaign", last_index |-> LastIndex(c.log),
                   last_term |-> LastTerm(c.log)]
<1>1. Campaign(n) = Done(c, Broadcast(c, msg))
  BY DEF Campaign
<1>2. c.role.kind = "Candidate"
  BY DEF StaticNode, Candidate
<1> HIDE DEF c
<1>3. \A m \in Broadcast(c, msg) : m.message.type \in {"Campaign", "PreCampaign"}
  BY DEF Broadcast, Env
<1> HIDE DEF msg
<1>4. Humble(Broadcast(c, msg))
  BY <1>3, AsksHumble
<1> QED BY <1>1, <1>2, <1>4 DEF Stood, Done

LEMMA PreCampaignStood ==
  ASSUME NEW i \in Server, NEW n \in StaticNode(i)
  PROVE  Stood(PreCampaign(n))
<1> DEFINE c == [n EXCEPT !.role = Candidate("PreVote", {n.id})]
           ask == [type |-> "PreCampaign", last_index |-> LastIndex(n.log),
                   last_term |-> LastTerm(n.log)]
           out == {[from |-> n.id, to |-> p, term |-> Term(n) + 1,
                    message |-> ask] : p \in Peers(n)}
           r == PreCampaign(n)
<1>1. r \in {Campaign(c), After(out, Campaign(c)), Done(c, out)}
  BY Zenon DEF PreCampaign
<1>2. c.role.kind = "Candidate"
  BY DEF StaticNode, Candidate
<1>3. c \in StaticNode(i)
  <2>1. n.id = i
    BY FieldTypes
  <2>2. {n.id} \in SUBSET Server
    BY <2>1
  <2>3. Candidate("PreVote", {n.id}) \in Role(i)
    BY <2>2, RoleTypes
  <2> HIDE DEF Candidate
  <2> QED BY <2>3, SetRole
<1>4. Humble(out)
  <2>1. \A m \in out : m.message.type \in {"Campaign", "PreCampaign"}
    OBVIOUS
  <2> HIDE DEF out
  <2> QED BY <2>1, AsksHumble
<1> HIDE DEF c, out
<1>5. Stood(Campaign(c)) /\ Stood(After(out, Campaign(c)))
  BY <1>3, <1>4, CampaignStood, StoodAfter
<1>6. Stood(Done(c, out))
  BY <1>2, <1>4 DEF Stood, Done
<1> QED BY <1>1, <1>5, <1>6

\* into_candidate of a follower
LEMMA IntoCandidateStood ==
  ASSUME NEW i \in Server, NEW n, Attends(i, n), NEW b \in BOOLEAN
  PROVE  Stood(IntoCandidate(n, b))
<1> DEFINE a == MaybeApply(n)
           q == IF b /\ PreVote THEN PreCampaign(a) ELSE Campaign(a)
<1>1. a \in StaticNode(i)
  BY MaybeApplyType DEF Attends
<1> HIDE DEF a
<1>2. Stood(PreCampaign(a)) /\ Stood(Campaign(a))
  BY <1>1, PreCampaignStood, CampaignStood
<1>3. IntoCandidate(n, b) = After(AbortForwarded(n), q)
  BY DEF IntoCandidate, a
<1>4. Stood(q)
  BY <1>2
<1>5. Humble(AbortForwarded(n))
  BY AbortForwardedHumble DEF Attends
<1> HIDE DEF q
<1> QED BY <1>3, <1>4, <1>5, StoodAfter

\* What a call costs: a leader goes on leading its term and pays its clients,
\* an office is opened, or the node does not lead.  C is, per term, up to where
\* each node has confirmed reads.
Fares(i, C, M, n, r) ==
  \/ /\ n.role.kind = "Leader" /\ r.n.role.kind = "Leader"
     /\ r.n.log.term = n.log.term /\ r.n.log.commit >= n.log.commit
     /\ Earns(i, C[n.log.term], M, n, r)
  \/ /\ Opens(i, r)
     /\ n.role.kind = "Leader" => r.n.log.term > n.log.term
  \/ Retires(M, r)

\* PreCampaign: a pre-vote, given or refused.
LEMMA PreCampaignStepRetires ==
  ASSUME NEW n, n.role.kind # "Leader", Bounded(n), NEW m, NEW M
  PROVE  Retires(M, PreCampaignStep(n, m))
<1> DEFINE vote == /\ n.role.kind # "Leader"
                   /\ n.role.kind = "Follower" => n.role.leader = Nil
                   /\ LogOk(n, m.message)
                   /\ m.term > Term(n)
           msg == [type |-> "PreCampaignResponse", vote |-> vote]
<1>1. PreCampaignStep(n, m) = Done(n, {Env(n, m.from, msg)})
  BY DEF PreCampaignStep
<1>2. msg.type = "PreCampaignResponse"
  OBVIOUS
<1> HIDE DEF msg
<1>3. Relays(M, n.log.term, Env(n, m.from, msg))
  BY <1>2, QuietRelays
<1> QED BY <1>1, <1>3, RetiresOne DEF Bounded

\* A candidate's call that leaves it as it is, but for votes counted.
LEMMA CountsRetires ==
  ASSUME NEW n, n.role.kind # "Leader", Bounded(n), NEW M
  PROVE  Retires(M, Done(n, {}))
BY RetiresDone, NothingHumble DEF Bounded

\* PreCampaignResponse: counted, and with a quorum an election, won at once by
\* a node that is a majority by itself.
LEMMA PreCampaignResponseStepFares ==
  ASSUME SnapshotThreshold = 0,
         NEW i \in Server, NEW n \in StaticNode(i), Sound(n),
         n.role.kind \notin {"Leader", "Panicked"}, Bounded(n),
         NEW m \in Mail(i), NEW M, NEW C
  PROVE  Fares(i, C, M, n, PreCampaignResponseStep(n, m))
<1> DEFINE asks == /\ n.role.kind = "Candidate"
                   /\ n.role.phase = "PreVote"
                   /\ m.message.vote
           V == n.role.votes \cup ({m.from} \cap AllVoters(n.mem.active))
           c == [n EXCEPT !.role.votes = V]
           e == Campaign(c)
           won == IF e.n.role.kind = "Panicked" THEN e
                  ELSE After(e.out, IntoLeader(e.n))
           r == PreCampaignResponseStep(n, m)
<1>1. r = IF ~asks THEN Done(n, {})
          ELSE IF ~QuorumReached(c) THEN Done(c, {})
          ELSE IF QuorumReached(e.n) THEN won ELSE e
  BY DEF PreCampaignResponseStep, Then
<1> SUFFICES Fares(i, C, M, n, r)
  OBVIOUS
<1>2. CASE ~asks
  <2>1. r = Done(n, {})
    BY <1>1, <1>2
  <2> HIDE DEF r
  <2> QED BY <2>1, CountsRetires DEF Fares
<1>3. CASE asks
  <2>1. V \in SUBSET Server
    <3>1. n.role.votes \in SUBSET Server /\ AllVoters(n.mem.active) = Server
      BY <1>3, VotesOf, PeersOf
    <3> QED BY <3>1
  <2> HIDE DEF V
  <2>2. c \in StaticNode(i) /\ Sound(c) /\ c.log = n.log
        /\ c.role.kind = "Candidate"
    <3>1. \E l : Len(l) \in Nat
      <4>1. Len(n.log.ents) \in Nat
        BY SoundLog
      <4> QED BY <4>1
    <3> QED BY <1>3, <2>1, <3>1, CountsServes
  <2> HIDE DEF c
  <2>3. Stood(e) /\ Bidding(i, c, e)
    <3>1. Len(n.log.ents) \in Nat
      BY SoundLog
    <3> QED BY <2>2, <3>1, CampaignServes, CampaignStood
  <2> HIDE DEF e
  <2>4. c.log.term \in Nat /\ e.n.log.term \in Nat
    BY <2>2, <2>3, SoundLog DEF Bidding
  <2>5. Opens(i, IntoLeader(e.n))
    <3>1. e.n.log.term > 0
      BY <2>3, <2>4 DEF Bidding
    <3> QED BY <2>3, <3>1, IntoLeaderOpens DEF Bidding
  <2>6. Opens(i, won)
    <3>1. won = After(e.out, IntoLeader(e.n))
      BY <2>3 DEF Stood
    <3> HIDE DEF won
    <3> QED BY <2>3, <2>5, <3>1, OpensAfter DEF Stood
  <2>7. Retires(M, e)
    BY <2>3, StoodRetires
  <2>8. Retires(M, Done(c, {}))
    BY <2>2, CountsRetires DEF Bounded
  <2>9. r \in {Done(c, {}), won, e}
    BY <1>1, <1>3
  <2> HIDE DEF r, won, asks
  <2> QED BY <2>6, <2>7, <2>8, <2>9 DEF Fares
<1> QED BY <1>2, <1>3

-----------------------------------------------------------------------------
(* Node::step, Node::tick and Node::new.                                   *)

\* CampaignResponse: counted, and with a majority the candidate leads.
LEMMA CandidateCampaignResponseFares ==
  ASSUME SnapshotThreshold = 0,
         NEW i \in Server, NEW n \in StaticNode(i), Sound(n),
         n.role.kind = "Candidate",
         Elective(n) => n.log.vote = i /\ n.log.term > 0,
         NEW m \in Mail(i), NEW M, NEW C
  PROVE  Fares(i, C, M, n, CandidateCampaignResponse(n, m))
<1> DEFINE counts == n.role.phase = "Election" /\ m.message.vote
           V == n.role.votes \cup ({m.from} \cap AllVoters(n.mem.active))
           c == [n EXCEPT !.role.votes = V]
           r == CandidateCampaignResponse(n, m)
<1>1. r = IF ~counts THEN Done(n, {})
          ELSE IF QuorumReached(c) THEN IntoLeader(c) ELSE Done(c, {})
  BY DEF CandidateCampaignResponse
<1>2. V \in SUBSET Server
  <2>1. n.role.votes \in SUBSET Server /\ AllVoters(n.mem.active) = Server
    BY VotesOf, PeersOf
  <2> QED BY <2>1
<1> SUFFICES Fares(i, C, M, n, r)
  OBVIOUS
<1> HIDE DEF V
<1>3. c \in StaticNode(i) /\ Sound(c) /\ c.log = n.log /\ c.role.kind = "Candidate"
  <2>1. Len(n.log.ents) \in Nat
    BY SoundLog
  <2> QED BY <1>2, <2>1, CountsServes
<1>4. Retires(M, Done(n, {}))
  BY CountsRetires DEF Bounded
<1> HIDE DEF c
<1>5. Retires(M, Done(c, {}))
  BY <1>3, CountsRetires DEF Bounded
<1>6. ASSUME counts PROVE Opens(i, IntoLeader(c))
  <2>1. c.log.vote = i /\ c.log.term > 0
    BY <1>3, <1>6 DEF Elective
  <2> QED BY <1>3, <2>1, IntoLeaderOpens
<1> HIDE DEF r
<1> QED BY <1>1, <1>4, <1>5, <1>6 DEF Fares

\* Candidate::step
LEMMA CandidateStepFares ==
  ASSUME SnapshotThreshold = 0,
         NEW i \in Server, NEW n \in StaticNode(i), Sound(n),
         n.role.kind = "Candidate",
         Elective(n) => n.log.vote = i /\ n.log.term > 0,
         NEW m \in Mail(i), NEW M, NEW C
  PROVE  Fares(i, C, M, n, CandidateStep(n, m))
<1> DEFINE t == m.message.type
           r == CandidateStep(n, m)
           no == [type |-> "CampaignResponse", vote |-> FALSE]
           e == Env(n, m.from, no)
           g == Abort(n, m.from, m.message.request.id)
<1>1. Bounded(n)
  BY DEF Bounded
<1> SUFFICES Fares(i, C, M, n, r)
  OBVIOUS
<1>2. CASE t = "CampaignResponse"
  <2>1. r = CandidateCampaignResponse(n, m)
    BY <1>2 DEF CandidateStep
  <2> HIDE DEF r
  <2> QED BY <2>1, CandidateCampaignResponseFares
<1>3. CASE t = "Campaign"
  <2>1. r = Done(n, {e})
    BY <1>3 DEF CandidateStep
  <2>2. Relays(M, n.log.term, e)
    BY QuietRelays
  <2> HIDE DEF r, e
  <2> QED BY <1>1, <2>1, <2>2, RetiresOne DEF Fares, Bounded
<1>4. CASE t = "ClientRequest"
  <2>1. r = Done(n, {g})
    BY <1>4 DEF CandidateStep
  <2>2. g.message.type = "ClientResponse" /\ g.message.status = "Abort"
    BY DEF Abort, Reply, Env
  <2> HIDE DEF r, g
  <2>3. Relays(M, n.log.term, g)
    BY <2>2 DEF Relays, OkTo
  <2> QED BY <1>1, <2>1, <2>3, RetiresOne DEF Fares, Bounded
<1>5. CASE t = "InstallSnapshotResponse"
  <2>1. r = Done(n, {})
    BY <1>5 DEF CandidateStep
  <2> HIDE DEF r
  <2> QED BY <1>1, <2>1, CountsRetires DEF Fares
<1>6. CASE t \notin {"CampaignResponse", "Campaign", "ClientRequest",
                     "InstallSnapshotResponse"}
  <2>1. r = Panic(n, "unexpected message")
    BY <1>6 DEF CandidateStep
  <2> HIDE DEF r
  <2> QED BY <2>1, RetiresPanic DEF Fares
<1> HIDE DEF r, t
<1> QED BY <1>2, <1>3, <1>4, <1>5, <1>6

\* What the cluster grants of a node's queues, C being, per term, up to where
\* each node has confirmed reads.
Owing(i, C, n) ==
  /\ n.role.kind = "Leader" => Owes(i, C[n.log.term], n)
  /\ n.role.kind = "Follower" => IsFiniteSet(n.role.forwarded)
  /\ Elective(n) => n.log.term > 0

\* ... and of a message that reaches it.
Confirming(C, n, m) ==
  n.role.kind = "Leader" /\ m.term = n.log.term
    => ConfirmsTo(C[n.log.term], n, m)

LEMMA OwingBounded ==
  ASSUME NEW i, NEW C, NEW n, Owing(i, C, n)
  PROVE  Bounded(n)
BY DEF Owing, Bounded, Owes

\* A node that is left as it is.
LEMMA StaysFares ==
  ASSUME NEW i \in Server, NEW G, NEW H, Histories(G, H), NEW C, NEW n,
         Granting(i, G, n), Owing(i, C, n), NEW M
  PROVE  Fares(i, C, M, n, Done(n, {}))
<1>1. Done(n, {}).n = n
  BY DEF Done
<1>2. CASE n.role.kind = "Leader"
  <2> DEFINE a == G[n.log.term]
             c == C[n.log.term]
  <2>1. n.log.term \in Nat /\ n.log.commit \in Nat
    BY FieldTypes DEF Granting
  <2>2. a \in [Server -> Nat] /\ Tracks(i, a, n) /\ Owes(i, c, n)
    BY <1>2, <2>1 DEF Granting, Owing, Histories
  <2> HIDE DEF a, c
  <2>3. Earns(i, c, M, n, Done(n, {}))
    BY <2>2, EarnsStay
  <2> QED BY <1>1, <1>2, <2>1, <2>3 DEF Fares, c
<1>3. CASE n.role.kind # "Leader"
  BY <1>3, OwingBounded, CountsRetires DEF Fares
<1> QED BY <1>2, <1>3

\* A message of the node's own term.
LEMMA SameTermStepFares ==
  ASSUME SnapshotThreshold = 0, StaticMembership,
         NEW i \in Server, NEW G, NEW H, Histories(G, H),
         NEW C \in [Nat -> [Server -> Nat]], NEW n,
         Granting(i, G, n), Owing(i, C, n), n.role.kind # "Panicked",
         NEW m \in Mail(i), m.term = n.log.term,
         m.message.type \notin PreVoteTypes, Relies(G, H, n, m),
         Confirming(C, n, m), NEW M, m \in M
  PROVE  Fares(i, C, M, n, SameTermStep(n, m))
<1> DEFINE r == SameTermStep(n, m)
<1>1. /\ n \in StaticNode(i) /\ Sound(n) /\ n.log.term \in Nat
      /\ n.role.kind \in {"Follower", "Candidate", "Leader"}
  <2>1. n \in StaticNode(i) /\ Sound(n)
    BY DEF Granting
  <2>2. n.role \in Role(i) /\ n.log.term \in Nat
    BY <2>1, FieldTypes
  <2> QED BY <2>1, <2>2 DEF Role, FollowerType, CandidateType, Lead, LeaderType,
                            PanickedType
<1>2. m.message.type # "InstallSnapshot"
  <2>1. m.term >= n.log.term
    BY <1>1
  <2> QED BY <2>1 DEF Relies, Told
<1> SUFFICES Fares(i, C, M, n, r)
  OBVIOUS
<1>3. CASE n.role.kind = "Leader"
  <2> DEFINE a == G[n.log.term]
             c == C[n.log.term]
             q == LeaderStep(n, m)
  <2>1. r = q
    BY <1>3 DEF SameTermStep
  <2>2. a \in [Server -> Nat] /\ c \in [Server -> Nat]
    BY <1>1 DEF Histories
  <2>3. /\ Tracks(i, a, n) /\ HeardBy(a, n, m) /\ Owes(i, c, n)
        /\ ConfirmsTo(c, n, m)
    BY <1>3 DEF Granting, Relies, Owing, Confirming
  <2> HIDE DEF a, c
  <2>4. \/ Works(i, a, n, q) /\ Earns(i, c, M, n, q)
        \/ Startled(n, q)
    BY <2>2, <2>3, LeaderStepEarns
  <2> HIDE DEF q, r
  <2>5. CASE Works(i, a, n, q) /\ Earns(i, c, M, n, q)
    <3>1. /\ q.n.role.kind = "Leader" /\ q.n.log.term = n.log.term
          /\ q.n.log.commit >= n.log.commit
      BY <2>5 DEF Works, Leading, Keeps, SameBallot, Tracks
    <3> QED BY <1>3, <2>1, <2>5, <3>1 DEF Fares, c
  <2>6. CASE Startled(n, q)
    BY <1>1, <2>1, <2>6, RetiresPanic DEF Fares, Startled
  <2> QED BY <2>4, <2>5, <2>6
<1>4. CASE n.role.kind = "Follower"
  <2>1. r = FollowerStep(n, m)
    BY <1>4 DEF SameTermStep
  <2>2. Attends(i, n)
    BY <1>1, <1>4 DEF Owing, Attends
  <2> HIDE DEF r
  <2> QED BY <1>2, <2>1, <2>2, FollowerStepRetires DEF Fares
<1>5. CASE n.role.kind = "Candidate" /\ m.message.type \in FromLeaderTypes
  <2> DEFINE x == Follower(m.from)
             k == [n EXCEPT !.role = x]
  <2>1. r = FollowerStep(k, m)
    BY <1>5 DEF SameTermStep
  <2>2. m.from \in Server \cup {Nil}
    BY DEF Mail
  <2>3. x \in Role(i) /\ x.kind = "Follower" /\ x.forwarded = {}
    BY <2>2, RoleTypes DEF Follower
  <2> HIDE DEF x
  <2>4. k \in StaticNode(i) /\ k.log = n.log /\ k.role = x
    BY <1>1, <2>3, SetRole
  <2> HIDE DEF k, r
  <2>5. Attends(i, k)
    BY <2>3, <2>4, FS_EmptySet DEF Attends
  <2>6. m.term = k.log.term
    BY <2>4
  <2> QED BY <1>2, <2>1, <2>5, <2>6, FollowerStepRetires DEF Fares
<1>6. CASE n.role.kind = "Candidate" /\ m.message.type \notin FromLeaderTypes
  <2>1. r = CandidateStep(n, m)
    BY <1>6 DEF SameTermStep
  <2>2. Elective(n) => n.log.vote = i /\ n.log.term > 0
    BY DEF Granting, Owing
  <2> HIDE DEF r
  <2> QED BY <1>1, <1>6, <2>1, <2>2, CandidateStepFares
<1> HIDE DEF r
<1> QED BY <1>1, <1>3, <1>4, <1>5, <1>6

\* Node::step
LEMMA StepFares ==
  ASSUME SnapshotThreshold = 0, StaticMembership,
         NEW i \in Server, NEW G, NEW H, Histories(G, H),
         NEW C \in [Nat -> [Server -> Nat]], NEW n,
         Granting(i, G, n), Owing(i, C, n), n.role.kind # "Panicked",
         NEW m \in Mail(i), Relies(G, H, n, m), Confirming(C, n, m),
         NEW M, m \in M
  PROVE  Fares(i, C, M, n, Step(n, m))
<1> DEFINE t == m.message.type
           d == DiscoverTerm(n, m.term)
           dropped == \/ ~IsKnownSender(n, m.from)
                      \/ t \notin PreVoteTypes /\ m.term < Term(n)
           r == Step(n, m)
<1>1. /\ n \in StaticNode(i) /\ Sound(n) /\ n.log.term \in Nat /\ m.term \in Nat
      /\ Term(n) = n.log.term
  <2>1. n \in StaticNode(i) /\ Sound(n)
    BY DEF Granting
  <2> QED BY <2>1, FieldTypes DEF Mail, Term
<1>2. Bounded(n)
  BY OwingBounded
<1> SUFFICES Fares(i, C, M, n, r)
  OBVIOUS
<1>3. CASE dropped
  <2>1. r = Done(n, {})
    BY <1>3 DEF Step
  <2> HIDE DEF r
  <2> QED BY <2>1, StaysFares
<1>4. CASE ~dropped /\ t = "PreCampaign"
  <2> DEFINE p == PreCampaignStep(n, m)
  <2>1. r = p
    BY <1>4 DEF Step, PreVoteTypes
  <2> HIDE DEF r
  <2>2. CASE n.role.kind = "Leader"
    <3> DEFINE a == G[n.log.term]
               c == C[n.log.term]
    <3>1. a \in [Server -> Nat] /\ Tracks(i, a, n) /\ Owes(i, c, n)
      BY <1>1, <2>2 DEF Histories, Granting, Owing
    <3> HIDE DEF a, c
    <3>2. Earns(i, c, M, n, p) /\ p.n = n
      BY <3>1, LeaderPreCampaignEarns
    <3>3. n.log.commit \in Nat
      BY <1>1, FieldTypes
    <3> HIDE DEF p
    <3> QED BY <2>1, <2>2, <3>2, <3>3 DEF Fares, c
  <2>3. CASE n.role.kind # "Leader"
    <3>1. Retires(M, p)
      BY <1>2, <2>3, PreCampaignStepRetires
    <3> HIDE DEF p
    <3> QED BY <2>1, <3>1 DEF Fares
  <2> QED BY <2>2, <2>3
<1>5. CASE ~dropped /\ t = "PreCampaignResponse"
  <2> DEFINE p == PreCampaignResponseStep(n, m)
  <2>1. r = p
    BY <1>5 DEF Step, PreVoteTypes
  <2> HIDE DEF r
  <2>2. CASE n.role.kind = "Leader"
    <3>1. p = Done(n, {})
      BY <2>2 DEF PreCampaignResponseStep
    <3> HIDE DEF p
    <3> QED BY <2>1, <3>1, StaysFares
  <2>3. CASE n.role.kind # "Leader"
    BY <1>1, <1>2, <2>1, <2>3, PreCampaignResponseStepFares
  <2> QED BY <2>2, <2>3
<1>6. CASE ~dropped /\ t \notin PreVoteTypes /\ m.term > n.log.term
  <2>1. r = After(d.out, FollowerStep(d.n, m))
    <3>1. t # "PreCampaign" /\ t # "PreCampaignResponse"
      BY <1>6 DEF PreVoteTypes
    <3> QED BY <1>1, <1>6, <3>1 DEF Step
  <2>2. Attends(i, d.n) /\ d.n.log.term = m.term /\ Humble(d.out)
    BY <1>1, <1>2, DiscoverTermAttends
  <2>3. t # "InstallSnapshot"
    <3>1. m.term >= n.log.term
      BY <1>1, <1>6
    <3> QED BY <1>6, <3>1 DEF Relies, Told
  <2> HIDE DEF d, r
  <2>4. Retires(M, FollowerStep(d.n, m))
    BY <2>2, <2>3, FollowerStepRetires
  <2>5. Retires(M, After(d.out, FollowerStep(d.n, m)))
    BY <2>2, <2>4, RetiresAfter
  <2> QED BY <2>1, <2>5 DEF Fares
<1>7. CASE ~dropped /\ t \notin PreVoteTypes /\ m.term = n.log.term
  <2>1. r = SameTermStep(n, m)
    <3>1. /\ t # "PreCampaign" /\ t # "PreCampaignResponse"
          /\ ~(m.term > Term(n))
      BY <1>1, <1>7 DEF PreVoteTypes
    <3> QED BY <1>7, <3>1 DEF Step
  <2>2. m.term = n.log.term
    BY <1>7
  <2>3. t \notin PreVoteTypes
    BY <1>7
  <2> HIDE DEF r
  <2>4. Fares(i, C, M, n, SameTermStep(n, m))
    BY <2>2, <2>3, SameTermStepFares
  <2> QED BY <2>1, <2>4
<1>8. \/ dropped
      \/ ~dropped /\ t = "PreCampaign"
      \/ ~dropped /\ t = "PreCampaignResponse"
      \/ ~dropped /\ t \notin PreVoteTypes /\ m.term > n.log.term
      \/ ~dropped /\ t \notin PreVoteTypes /\ m.term = n.log.term
  <2> DEFINE x == m.term
             y == n.log.term
  <2>1. x \in Nat /\ y \in Nat
    BY <1>1
  <2> HIDE DEF x, y
  <2>2. x < y \/ x > y \/ x = y
    BY <2>1
  <2>3. m.term < n.log.term \/ m.term > n.log.term \/ m.term = n.log.term
    BY <2>2 DEF x, y
  <2>4. t \notin PreVoteTypes /\ m.term < n.log.term => dropped
    BY <1>1
  <2> HIDE DEF dropped
  <2> QED BY <2>3, <2>4 DEF PreVoteTypes
<1> HIDE DEF r, dropped
<1> QED BY <1>3, <1>4, <1>5, <1>6, <1>7, <1>8

\* Node::tick of a node whose election timeout expires.
LEMMA ElectionTickFares ==
  ASSUME NEW i \in Server, NEW G, NEW C, NEW n, Granting(i, G, n),
         Owing(i, C, n), n.role.kind # "Leader", NEW M
  PROVE  Fares(i, C, M, n, ElectionTick(n))
<1> DEFINE r == ElectionTick(n)
           yes == TRUE
<1>1. n \in StaticNode(i)
  BY DEF Granting
<1>2. \/ n.role.kind = "Follower" /\ r = IntoCandidate(n, yes)
      \/ r = PreCampaign(n)
      \/ r = Campaign(n)
  BY DEF ElectionTick
<1>3. yes \in BOOLEAN
  OBVIOUS
<1> SUFFICES Fares(i, C, M, n, r)
  OBVIOUS
<1> HIDE DEF r, yes
<1>4. ASSUME n.role.kind = "Follower"
      PROVE  Stood(IntoCandidate(n, yes))
  <2>1. Attends(i, n)
    BY <1>1, <1>4 DEF Owing, Attends
  <2> QED BY <1>3, <2>1, IntoCandidateStood
<1>5. Stood(PreCampaign(n)) /\ Stood(Campaign(n))
  BY <1>1, PreCampaignStood, CampaignStood
<1>6. Stood(r)
  BY <1>2, <1>4, <1>5
<1> QED BY <1>6, StoodRetires DEF Fares

\* Node::tick of a leader.
LEMMA LeaderTickFares ==
  ASSUME NEW i \in Server, NEW G, NEW H, Histories(G, H), NEW C, NEW n,
         Granting(i, G, n), Owing(i, C, n), n.role.kind = "Leader", NEW M,
         NEW due \in BOOLEAN, NEW heard
  PROVE  Fares(i, C, M, n, LeaderTick(n, due, heard))
<1> DEFINE a == G[n.log.term]
           c == C[n.log.term]
           h == IF due THEN Heartbeat(n) ELSE Done(n, {})
           x == After(h.out, StepDown(h.n))
           lost == /\ CheckQuorum
                   /\ ClusterSize(n) > 1
                   /\ ~HasQuorum(n.mem.active, {n.id} \cup heard)
           r == LeaderTick(n, due, heard)
           msg == [type |-> "Heartbeat", last_index |-> LastIndex(n.log),
                   commit_index |-> n.log.commit, read_seq |-> n.role.read_seq]
<1>1. r \in {x, h}
  <2>1. r = IF lost /\ h.n.role.kind # "Panicked"
            THEN IF h.n.role.kind = "Panicked" THEN h ELSE x
            ELSE h
    BY DEF LeaderTick, Finish, Then
  <2> HIDE DEF h, lost, r
  <2> QED BY <2>1
<1>2. n.log.term \in Nat /\ n.log.commit \in Nat /\ n \in StaticNode(i)
  BY FieldTypes DEF Granting
<1>3. a \in [Server -> Nat] /\ Tracks(i, a, n) /\ Owes(i, c, n) /\ Current(n)
  BY <1>2 DEF Granting, Owing, Histories
<1>4. h \in {Panic(n, "last term not current"), Done(n, Broadcast(n, msg)),
             Done(n, {})}
  BY DEF Heartbeat, Require, Done
<1>5. Broadcast(n, msg) \in SUBSET {m \in Broadcast(n, msg) :
                                     m.message.type = "Heartbeat"}
  BY DEF Broadcast, Env
<1> HIDE DEF msg, a, c
<1>6. Earns(i, c, M, n, h)
  <2>1. Earns(i, c, M, n, Heartbeat(n)) /\ Earns(i, c, M, n, Done(n, {}))
    BY <1>3, HeartbeatEarns, EarnsStay
  <2> QED BY <2>1
<1>7. Works(i, a, n, h)
  <2>1. Works(i, a, n, Heartbeat(n)) /\ Works(i, a, n, Done(n, {}))
    BY <1>3, HeartbeatWorks, WorksStay
  <2> QED BY <2>1
<1> SUFFICES Fares(i, C, M, n, r)
  OBVIOUS
<1> HIDE DEF h, r
<1>8. /\ h.n.role.kind = "Leader" /\ h.n.log.term = n.log.term
      /\ h.n.log.commit >= n.log.commit /\ h.n \in StaticNode(i)
  BY <1>7 DEF Works, Leading, Keeps, SameBallot, Tracks
<1>9. Humble(h.out)
  <2>1. \/ h.out = {}
        \/ h.out = Broadcast(n, msg)
    <3>1. Panic(n, "last term not current").out = {} /\ Done(n, {}).out = {}
      BY DEF Panic, Done
    <3>2. Done(n, Broadcast(n, msg)).out = Broadcast(n, msg)
      BY DEF Done
    <3> QED BY <1>4, <3>1, <3>2
  <2>2. Humble(Broadcast(n, msg))
    <3>1. \A m \in Broadcast(n, msg) : m.message.type = "Heartbeat"
      BY <1>5
    <3>2. Answering(Broadcast(n, msg)) = {}
      BY <3>1 DEF Answering
    <3> QED BY <3>1, <3>2, FS_EmptySet DEF Humble, OkTo
  <2> QED BY <2>1, <2>2, NothingHumble
<1>10. Retires(M, x)
  <2>1. Bounded(h.n)
    BY <1>6, <1>8 DEF Earns, Owes, Bounded
  <2>2. Retires(M, StepDown(h.n))
    BY <1>8, <2>1, StepDownRetires
  <2> QED BY <1>9, <2>2, RetiresAfter
<1>11. CASE r = h
  BY <1>6, <1>8, <1>11 DEF Fares, c
<1>12. CASE r = x
  BY <1>10, <1>12 DEF Fares
<1> QED BY <1>1, <1>11, <1>12

\* A node that starts as k where n was before.
LEMMA StartedFares ==
  ASSUME SnapshotThreshold = 0,
         NEW i \in Server, NEW k, Attends(i, k), Sound(k), NEW n, NEW M, NEW C,
         n.role.kind = "Leader" => k.log.term = n.log.term
  PROVE  Fares(i, C, M, n, Started(k))
<1> DEFINE no == FALSE
           c == IntoCandidate(k, no)
           won == IF c.n.role.kind = "Panicked" THEN c
                  ELSE After(c.out, IntoLeader(c.n))
           r == Started(k)
<1>1. r \in {won, Done(k, {})}
  BY DEF Started, Then
<1>2. no \in BOOLEAN /\ ~no /\ k \in StaticNode(i) /\ k.role.kind = "Follower"
  BY DEF Attends
<1>3. Len(k.log.ents) \in Nat /\ k.log.term \in Nat
  BY <1>2, SoundLog
<1> SUFFICES Fares(i, C, M, n, r)
  OBVIOUS
<1> HIDE DEF no
<1>4. Bidding(i, k, c)
  BY <1>2, <1>3, IntoCandidateServes
<1>5. Stood(c)
  BY <1>2, IntoCandidateStood
<1> HIDE DEF c, r
<1>6. c.n.log.term \in Nat /\ c.n.log.term > k.log.term
  BY <1>4, FieldTypes DEF Bidding
<1>7. Opens(i, IntoLeader(c.n)) /\ IntoLeader(c.n).n.log.term = c.n.log.term
  <2>1. c.n.log.term > 0
    BY <1>3, <1>6
  <2> QED BY <1>4, <2>1, IntoLeaderOpens DEF Bidding
<1>8. won = After(c.out, IntoLeader(c.n))
  BY <1>5 DEF Stood
<1> HIDE DEF won
<1>9. Opens(i, won) /\ won.n.log.term > k.log.term
  <2>1. Humble(c.out)
    BY <1>5 DEF Stood
  <2>2. /\ Opens(i, After(c.out, IntoLeader(c.n)))
        /\ After(c.out, IntoLeader(c.n)).n = IntoLeader(c.n).n
    BY <1>7, <2>1, OpensAfter
  <2> QED BY <1>6, <1>7, <1>8, <2>2
<1>10. Retires(M, Done(k, {}))
  BY RetiresDone, NothingHumble DEF Attends
<1> QED BY <1>1, <1>9, <1>10 DEF Fares

\* Node::new on what the node had persisted.
LEMMA NewNodeFares ==
  ASSUME SnapshotThreshold = 0, StaticMembership,
         NEW i \in Server, NEW n \in StaticNode(i), Sound(n), NEW M, NEW C,
         NEW commit \in Nat, commit <= n.log.commit
  PROVE  Fares(i, C, M, n, NewNode(i, Reopened(n.log, commit)))
<1> DEFINE log == Reopened(n.log, commit)
           f == Fresh(i, log)
           k == MaybeApply(f)
<1>1. /\ n.log \in StaticLog /\ n.log.commit \in Nat /\ n.log.first = 1
      /\ n.log.snapTerm = 0 /\ n.log.commit <= Len(n.log.ents)
      /\ Len(n.log.ents) \in Nat
  BY FieldTypes, SoundLog DEF Sound
<1>2. /\ log \in StaticLog /\ log.first = 1 /\ log.snapTerm = 0
      /\ log.commit = commit /\ log.ents = n.log.ents
      /\ SameBallot(n.log, log)
  BY <1>1 DEF Reopened, StaticLog, SameBallot
<1> SUFFICES Fares(i, C, M, n, NewNode(i, log))
  OBVIOUS
<1> HIDE DEF log
<1>3. f \in StaticNode(i) /\ f.log = log /\ f.role.kind = "Follower"
      /\ NewNode(i, log) = Started(k)
  BY <1>2, FreshType
<1>4. f.sm = Played(f.log.ents, 0) /\ f.role.forwarded = {}
  <2>1. f.sm = EmptyState /\ f.role.forwarded = {}
    BY <1>2 DEF Fresh, Follower
  <2>2. Played(f.log.ents, 0) = EmptyState
    BY DEF Played, EmptyState
  <2> QED BY <2>1, <2>2
<1> HIDE DEF f
<1>5. k \in StaticNode(i) /\ Sound(k) /\ k.log = log /\ k.role = f.role
  <2>1. f.log.first = 1 /\ f.log.snapTerm = 0 /\ 0 <= f.log.commit
        /\ f.log.commit <= Len(f.log.ents)
    BY <1>1, <1>2, <1>3
  <2> QED BY <1>3, <1>4, <2>1, ApplySound
<1> HIDE DEF k
<1>6. Attends(i, k)
  BY <1>3, <1>4, <1>5, FS_EmptySet DEF Attends
<1>7. k.log.term = n.log.term
  BY <1>2, <1>5 DEF SameBallot
<1>8. Fares(i, C, M, n, Started(k))
  BY <1>5, <1>6, <1>7, StartedFares
<1> QED BY <1>3, <1>8

-----------------------------------------------------------------------------
(* What the cluster owes its clients.  c(t, v): up to where node v has      *)
(* confirmed reads, in term t, to the leader of t; A: per request, what was *)
(* acknowledged when it was asked; R: the replies.                          *)

\* A leader of s has committed an entry with command a, and whoever leads s
\* knows.
SettledIn(w, s, a) ==
  \E k \in Nat : \E x \in 1 .. k :
    /\ Own(w, k, s) /\ Chosen(w, k, s)
    /\ LogOf(w, s)[x].cmd = a
    /\ \A v \in Server :
         w.node[v].role.kind = "Leader" /\ TermOf(w, v) = s => CommitOf(w, v) >= x

Settled(w, a) == \E s \in Nat : SettledIn(w, s, a)

\* A majority has left term t without having confirmed reads up to q: the
\* leader of t will never serve them.
Passed(w, c, t, q) ==
  \E Q \in SUBSET Server :
    /\ Majority(Server, Q)
    /\ \A v \in Q : TermOf(w, v) > t /\ c[t][v] < q

\* Read q of the leader of t, if it is served, sees a.
Seen(w, c, t, a, q) ==
  \/ \E s \in Nat : s <= t /\ SettledIn(w, s, a)
  \/ Passed(w, c, t, q)

\* What request id was answered shows what was acknowledged before it.
Shown(A, id, data) ==
  A[id] # Nil /\ A[id] \cap Writes \subseteq {data[x] : x \in 1 .. Len(data)}

\* What a message says of clients and reads is true.
Honest(w, c, A, m) ==
  LET g == m.message
  IN /\ g.type = "ClientRequest" => A[g.request.id] # Nil
     /\ g.type = "Read" => g.seq <= w.reads[m.term]
     /\ g.type = "ReadResponse" => g.seq <= c[m.term][m.from]
     /\ g.type = "HeartbeatResponse" => g.read_seq <= c[m.term][m.from]
     /\ OkTo(Writes, m) => Settled(w, g.id)
     /\ OkTo(Reads, m) => Shown(A, g.id, g.data)

\* Reads are confirmed only when they were announced.
Counted(w, c) ==
  /\ c \in [Nat -> [Server -> Nat]]
  /\ \A t \in Nat : \A v \in Server : c[t][v] <= w.reads[t]

\* What was acknowledged before a read that node v has queued will be seen.
Attested(w, c, A, v) ==
  w.node[v].role.kind = "Leader" =>
    \A rd \in w.node[v].role.reads :
      /\ A[rd.id] # Nil
      /\ \A a \in A[rd.id] \cap Writes : Seen(w, c, TermOf(w, v), a, rd.seq)

\* What was acknowledged is settled.
AskedSettled(w, A) ==
  /\ A \in [Ids -> (SUBSET Ids) \cup {Nil}]
  /\ \A id \in Ids : A[id] # Nil => \A a \in A[id] \cap Writes : Settled(w, a)

Answer == [status : {"Ok", "Abort", "Invalid"}, data : Seq(Cmd)]

\* An answer that a client was given is true.
Given(w, A, id, e) ==
  /\ e \in Answer
  /\ e.status = "Ok" => /\ id \in Writes => Settled(w, id)
                        /\ id \in Reads => Shown(A, id, e.data)

RepliesGiven(w, A, R) ==
  /\ R \in [Ids -> Seq(Answer)]
  /\ \A id \in Ids : \A k \in 1 .. Len(R[id]) : Given(w, A, id, R[id][k])

\* What the cluster owes, and what was asked of it.
Books(w, c, A) ==
  /\ Consistent(w) /\ Counted(w, c)
  /\ \A v \in Server : Owing(v, c, w.node[v]) /\ Attested(w, c, A, v)
  /\ \A m \in w.mail : Honest(w, c, A, m)
  /\ AskedSettled(w, A)

-----------------------------------------------------------------------------
(* What every call leaves.                                                 *)

\* Whatever the call, it leads on.
LEMMA GoesOn ==
  ASSUME NEW w, NEW x, NEW i \in Server, NEW r, NEW M, Goes(w, x, i, r, M)
  PROVE  /\ Consistent(w) /\ Advances(w, x, i) /\ x.node[i] = r.n
         /\ x.mail \subseteq w.mail \cup r.out /\ r \in Outcome(i)
<1>1. ASSUME NEW e, ServedBy(w, x, i, r, M, e)
      PROVE  /\ Consistent(w) /\ Advances(w, x, i) /\ x.node[i] = r.n
             /\ x.mail \subseteq w.mail \cup r.out /\ r \in Outcome(i)
  BY <1>1 DEF ServedBy, Serves
<1>2. ASSUME NEW s, GovernedBy(w, x, i, r, s)
      PROVE  /\ Consistent(w) /\ Advances(w, x, i) /\ x.node[i] = r.n
             /\ x.mail \subseteq w.mail \cup r.out /\ r \in Outcome(i)
  BY <1>2 DEF GovernedBy, Governs
<1> QED BY <1>1, <1>2 DEF Goes

\* What is settled stays so.
LEMMA SettledGrows ==
  ASSUME NEW w, NEW x, NEW i \in Server, NEW r, NEW M, Goes(w, x, i, r, M),
         NEW C, Fares(i, C, M, w.node[i], r),
         NEW s \in Nat, NEW a, SettledIn(w, s, a)
  PROVE  SettledIn(x, s, a)
<1>1. /\ Consistent(w) /\ Advances(w, x, i) /\ x.node[i] = r.n
      /\ r \in Outcome(i) /\ Chronicle(w) /\ Chronicle(x)
  BY GoesOn DEF Consistent, Advances
<1>2. PICK k \in Nat : \E y \in 1 .. k :
        /\ Own(w, k, s) /\ Chosen(w, k, s) /\ LogOf(w, s)[y].cmd = a
        /\ \A v \in Server :
             w.node[v].role.kind = "Leader" /\ TermOf(w, v) = s
               => CommitOf(w, v) >= y
  BY DEF SettledIn
<1>3. PICK y \in 1 .. k :
        /\ Own(w, k, s) /\ Chosen(w, k, s) /\ LogOf(w, s)[y].cmd = a
        /\ \A v \in Server :
             w.node[v].role.kind = "Leader" /\ TermOf(w, v) = s
               => CommitOf(w, v) >= y
  BY <1>2
<1>4. /\ Own(x, k, s) /\ SameTo(LogOf(w, s), LogOf(x, s), k) /\ Chosen(x, k, s)
  BY <1>1, <1>3, OwnGrows, ChosenGrows
<1>5. LogOf(x, s)[y].cmd = a
  <2>1. LogOf(w, s)[y] = LogOf(x, s)[y]
    BY <1>4, SameAt
  <2> QED BY <1>3, <2>1
<1>6. LogOf(w, s) # <<>>
  <2>1. k \in 1 .. Len(LogOf(w, s))
    BY <1>3 DEF Own
  <2>2. Len(<<>>) = 0
    OBVIOUS
  <2> QED BY <2>1, <2>2
<1>7. ASSUME NEW v \in Server, x.node[v].role.kind = "Leader", TermOf(x, v) = s
      PROVE  CommitOf(x, v) >= y
  <2>1. CASE v # i
    <3>1. x.node[v] = w.node[v]
      BY <1>1, <2>1 DEF Advances
    <3> QED BY <1>3, <1>7, <3>1 DEF TermOf, CommitOf
  <2>2. CASE v = i
    <3>1. r.n.role.kind = "Leader" /\ TermOf(x, i) = s
      BY <1>1, <1>7, <2>2
    <3>2. w.node[i].role.kind = "Leader" /\ TermOf(x, i) = TermOf(w, i)
      BY <1>6, <3>1, LeadsSince
    <3>3. CommitOf(w, i) >= y
      BY <1>3, <3>1, <3>2
    <3>4. CommitOf(x, i) >= CommitOf(w, i)
      <4>1. ~Retires(M, r)
        BY <3>1 DEF Retires
      <4>2. r.n.log.term = w.node[i].log.term
        BY <1>1, <3>2 DEF TermOf
      <4>3. w.node[i].log.term \in Nat
        BY <1>1, Parts DEF TermOf
      <4>4. ~(r.n.log.term > w.node[i].log.term)
        BY <4>2, <4>3
      <4>5. r.n.log.commit >= w.node[i].log.commit
        BY <3>2, <4>1, <4>4 DEF Fares
      <4> QED BY <1>1, <4>5 DEF CommitOf
    <3>5. CommitOf(w, i) \in Nat /\ CommitOf(x, i) \in Nat
      BY <1>1, Parts
    <3> QED BY <2>2, <3>3, <3>4, <3>5
  <2> QED BY <2>1, <2>2
<1> QED BY <1>4, <1>5, <1>7 DEF SettledIn

\* Up to where reads are confirmed after a call of node i: in its term, all.
Counting(x, c, i) == [c EXCEPT ![TermOf(x, i)][i] = x.reads[TermOf(x, i)]]

LEMMA CountingGrows ==
  ASSUME NEW w, NEW x, NEW i \in Server, Advances(w, x, i), NEW c, Counted(w, c)
  PROVE  /\ Counted(x, Counting(x, c, i))
         /\ \A t \in Nat : \A v \in Server : c[t][v] <= Counting(x, c, i)[t][v]
         /\ \A t \in Nat : \A v \in Server : t # TermOf(x, i) \/ v # i =>
              Counting(x, c, i)[t][v] = c[t][v]
         /\ Counting(x, c, i)[TermOf(x, i)][i] = x.reads[TermOf(x, i)]
<1> DEFINE T == TermOf(x, i)
           d == Counting(x, c, i)
<1>1. Chronicle(w) /\ Chronicle(x) /\ T \in Nat
  BY Parts DEF Advances
<1>2. /\ w.reads \in [Nat -> Nat] /\ x.reads \in [Nat -> Nat]
      /\ c \in [Nat -> [Server -> Nat]]
      /\ \A t \in Nat : w.reads[t] <= x.reads[t]
      /\ \A t \in Nat : \A v \in Server : c[t][v] <= w.reads[t]
  BY <1>1, Grows DEF Chronicle, Counted
<1>3. d = [c EXCEPT ![T] = [c[T] EXCEPT ![i] = x.reads[T]]]
  BY DEF Counting
<1> HIDE DEF T, d
<1>4. d \in [Nat -> [Server -> Nat]]
  BY <1>1, <1>2, <1>3
<1>5. ASSUME NEW t \in Nat, NEW v \in Server
      PROVE  /\ t # T \/ v # i => d[t][v] = c[t][v]
             /\ d[T][i] = x.reads[T]
             /\ c[t][v] <= d[t][v] /\ d[t][v] <= x.reads[t]
  <2>1. c[t] \in [Server -> Nat] /\ c[T] \in [Server -> Nat]
    BY <1>1, <1>2
  <2>2. /\ c[t][v] \in Nat /\ w.reads[t] \in Nat /\ x.reads[t] \in Nat
        /\ c[t][v] <= w.reads[t] /\ w.reads[t] <= x.reads[t]
    BY <1>2, <2>1
  <2>3. d[T][i] = x.reads[T]
    BY <1>1, <1>2, <1>3, <2>1
  <2>4. t # T \/ v # i => d[t][v] = c[t][v]
    BY <1>1, <1>2, <1>3, <2>1
  <2>5. CASE t = T /\ v = i
    BY <2>2, <2>3, <2>5
  <2>6. CASE t # T \/ v # i
    BY <2>2, <2>3, <2>4, <2>6
  <2> QED BY <2>5, <2>6
<1>6. d[T][i] = x.reads[T]
  BY <1>1, <1>5
<1>7. Counted(x, d)
  BY <1>4, <1>5 DEF Counted
<1> QED BY <1>5, <1>6, <1>7 DEF T, d

\* A read that will never be served never will be.
LEMMA PassedGrows ==
  ASSUME NEW w, NEW x, NEW i \in Server, Advances(w, x, i), NEW c, Counted(w, c),
         NEW t \in Nat, NEW q, Passed(w, c, t, q)
  PROVE  Passed(x, Counting(x, c, i), t, q)
<1>1. PICK Q \in SUBSET Server :
        /\ Majority(Server, Q)
        /\ \A v \in Q : TermOf(w, v) > t /\ c[t][v] < q
  BY DEF Passed
<1>2. ASSUME NEW v \in Q
      PROVE  TermOf(x, v) > t /\ Counting(x, c, i)[t][v] < q
  <2>1. /\ TermOf(w, v) \in Nat /\ TermOf(x, v) \in Nat
        /\ TermOf(w, v) <= TermOf(x, v)
    BY Grows, Parts DEF Advances
  <2>2. TermOf(x, v) > t
    BY <1>1, <2>1
  <2>3. t # TermOf(x, i) \/ v # i
    BY <2>1, <2>2
  <2>4. Counting(x, c, i)[t][v] = c[t][v]
    BY <2>3, CountingGrows
  <2> QED BY <1>1, <2>2, <2>4
<1> QED BY <1>1, <1>2 DEF Passed

LEMMA SeenGrows ==
  ASSUME NEW w, NEW x, NEW i \in Server, NEW r, NEW M, Goes(w, x, i, r, M),
         NEW C, Fares(i, C, M, w.node[i], r), NEW c, Counted(w, c),
         NEW t \in Nat, NEW a, NEW q, Seen(w, c, t, a, q)
  PROVE  Seen(x, Counting(x, c, i), t, a, q)
<1>1. Advances(w, x, i)
  BY GoesOn
<1>2. CASE \E s \in Nat : s <= t /\ SettledIn(w, s, a)
  BY <1>2, SettledGrows DEF Seen
<1>3. CASE Passed(w, c, t, q)
  BY <1>1, <1>3, PassedGrows DEF Seen
<1> QED BY <1>2, <1>3 DEF Seen

\* A call, and what it is worth to clients.
Dealt(w, x, i, r, M, c) ==
  /\ Goes(w, x, i, r, M) /\ Consistent(x) /\ Counted(w, c)
  /\ Fares(i, c, M, w.node[i], r)

LEMMA DealtOn ==
  ASSUME NEW w, NEW x, NEW i \in Server, NEW r, NEW M, NEW c,
         Dealt(w, x, i, r, M, c)
  PROVE  /\ Consistent(w) /\ Consistent(x) /\ Advances(w, x, i)
         /\ Chronicle(w) /\ Chronicle(x)
         /\ x.node[i] = r.n /\ r \in Outcome(i)
         /\ x.mail \subseteq w.mail \cup r.out
         /\ Counted(w, c) /\ Counted(x, Counting(x, c, i))
         /\ TermOf(w, i) \in Nat /\ TermOf(x, i) \in Nat
         /\ TermOf(w, i) = w.node[i].log.term /\ TermOf(x, i) = r.n.log.term
         /\ w.node[i] \in StaticNode(i) /\ r.n \in StaticNode(i)
<1>1. /\ Consistent(w) /\ Consistent(x) /\ Advances(w, x, i)
      /\ x.node[i] = r.n /\ r \in Outcome(i)
      /\ x.mail \subseteq w.mail \cup r.out /\ Counted(w, c)
  BY GoesOn DEF Dealt
<1>2. Chronicle(w) /\ Chronicle(x)
  BY <1>1 DEF Consistent
<1>3. Counted(x, Counting(x, c, i))
  BY <1>1, CountingGrows
<1>4. /\ TermOf(w, i) \in Nat /\ TermOf(x, i) \in Nat
      /\ w.node[i] \in StaticNode(i) /\ x.node[i] \in StaticNode(i)
  BY <1>2, Parts
<1> QED BY <1>1, <1>2, <1>3, <1>4 DEF TermOf

LEMMA LeadRead ==
  ASSUME NEW i \in Server, NEW n \in StaticNode(i), n.role.kind = "Leader",
         NEW p \in Server \ {i}
  PROVE  n.role.progress[p].read \in Nat
<1>1. n.role.progress \in [Server \ {i} -> ProgressType]
  BY LeadTypes
<1>2. n.role.progress[p] \in ProgressType
  BY <1>1
<1> QED BY <1>2 DEF ProgressType

\* What a leader owes is no less when more was confirmed.
LEMMA OwesMore ==
  ASSUME NEW i \in Server, NEW n \in StaticNode(i), n.role.kind = "Leader",
         NEW c, NEW d, Owes(i, c, n),
         \A p \in Server : c[p] \in Nat /\ d[p] \in Nat /\ c[p] <= d[p]
  PROVE  Owes(i, d, n)
<1>1. ASSUME NEW p \in Server \ {i}
      PROVE  /\ n.role.progress[p].read <= d[p]
             /\ n.role.progress[p].read <= n.role.read_seq
  <2>1. n.role.progress[p].read \in Nat
    BY LeadRead
  <2>2. /\ n.role.progress[p].read <= c[p]
        /\ n.role.progress[p].read <= n.role.read_seq
    BY DEF Owes
  <2>3. c[p] \in Nat /\ d[p] \in Nat /\ c[p] <= d[p]
    OBVIOUS
  <2> QED BY <2>1, <2>2, <2>3
<1> QED BY <1>1 DEF Owes

\* Every node goes on owing what it may.
LEMMA DealtOwing ==
  ASSUME NEW w, NEW x, NEW i \in Server, NEW r, NEW M, NEW c,
         Dealt(w, x, i, r, M, c), NEW v \in Server, Owing(v, c, w.node[v])
  PROVE  Owing(v, Counting(x, c, i), x.node[v])
<1> DEFINE d == Counting(x, c, i)
           n == x.node[v]
           T == TermOf(x, v)
<1>1. /\ Consistent(x) /\ Advances(w, x, i) /\ Chronicle(x) /\ x.node[i] = r.n
      /\ Counted(w, c) /\ Counted(x, Counting(x, c, i))
  BY DealtOn
<1>2. n \in StaticNode(v) /\ T \in Nat /\ T = n.log.term
  BY <1>1, Parts DEF TermOf
<1>3. \A p \in Server : c[T][p] \in Nat /\ d[T][p] \in Nat /\ c[T][p] <= d[T][p]
  <2>1. \A p \in Server : c[T][p] <= d[T][p]
    BY <1>1, <1>2, CountingGrows
  <2>2. c \in [Nat -> [Server -> Nat]] /\ d \in [Nat -> [Server -> Nat]]
    BY <1>1 DEF Counted
  <2> HIDE DEF d
  <2> QED BY <1>2, <2>1, <2>2
<1>4. Elective(n) => n.log.term > 0
  BY <1>1, <1>2 DEF Consistent, NotYetLed
<1> HIDE DEF d
<1>5. CASE v # i
  <2>1. n = w.node[v]
    BY <1>1, <1>5 DEF Advances
  <2> HIDE DEF n, T
  <2>2. ASSUME n.role.kind = "Leader"
        PROVE  Owes(v, d[n.log.term], n)
    <3>1. Owes(v, c[T], n)
      BY <1>2, <2>1, <2>2 DEF Owing
    <3>2. Owes(v, d[T], n)
      BY <1>2, <1>3, <2>2, <3>1, OwesMore
    <3> QED BY <1>2, <3>2
  <2>3. n.role.kind = "Follower" => IsFiniteSet(n.role.forwarded)
    BY <2>1 DEF Owing
  <2>4. Owing(v, d, n)
    BY <1>4, <2>2, <2>3 DEF Owing
  <2> QED BY <2>4 DEF d, n
<1>6. CASE v = i
  <2>1. n = r.n /\ Fares(i, c, M, w.node[i], r)
    BY <1>1, <1>6 DEF Dealt
  <2> HIDE DEF n, T
  <2>2. CASE Retires(M, r)
    <3>1. n.role.kind # "Leader"
      BY <2>1, <2>2 DEF Retires
    <3>2. n.role.kind = "Follower" => IsFiniteSet(n.role.forwarded)
      BY <2>1, <2>2 DEF Retires
    <3>3. Owing(v, d, n)
      BY <1>4, <3>1, <3>2 DEF Owing
    <3> QED BY <3>3 DEF d, n
  <2>3. ASSUME NEW b, Owes(i, b, n), n.role.kind = "Leader",
               \A p \in Server : b[p] \in Nat /\ b[p] <= d[T][p]
        PROVE  Owing(v, Counting(x, c, i), x.node[v])
    <3>1. \A p \in Server : b[p] \in Nat /\ d[T][p] \in Nat /\ b[p] <= d[T][p]
      BY <1>3, <2>3
    <3>2. n \in StaticNode(i)
      BY <1>2, <1>6
    <3>3. Owes(i, d[T], n)
      BY <2>3, <3>1, <3>2, OwesMore
    <3>4. n.role.kind # "Follower"
      BY <2>3
    <3>5. Owing(v, d, n)
      BY <1>2, <1>4, <1>6, <3>3, <3>4 DEF Owing
    <3> QED BY <3>5 DEF d, n
  <2>4. CASE Opens(i, r)
    <3>1. Owes(i, Unread, n) /\ n.role.kind = "Leader"
      BY <2>1, <2>4 DEF Opens, Earns
    <3>2. \A p \in Server : Unread[p] \in Nat /\ Unread[p] <= d[T][p]
      BY <1>3 DEF Unread
    <3> QED BY <2>3, <3>1, <3>2
  <2>5. CASE /\ r.n.role.kind = "Leader"
             /\ r.n.log.term = w.node[i].log.term
             /\ Earns(i, c[w.node[i].log.term], M, w.node[i], r)
    <3>1. Owes(i, c[T], n) /\ n.role.kind = "Leader"
      BY <1>2, <2>1, <2>5 DEF Earns
    <3> QED BY <1>3, <2>3, <3>1
  <2> QED BY <2>1, <2>2, <2>4, <2>5 DEF Fares
<1> QED BY <1>5, <1>6

\* What is settled when a leader numbers a read, that read will see.
LEMMA NewlySeen ==
  ASSUME NEW w, Consistent(w), NEW c, Counted(w, c), NEW i \in Server,
         w.node[i].role.kind = "Leader", NEW q \in Nat,
         q > w.node[i].role.read_seq, NEW a, Settled(w, a)
  PROVE  Seen(w, c, TermOf(w, i), a, q)
<1> DEFINE T == TermOf(w, i)
<1>1. /\ Chronicle(w) /\ HeldNow(w) /\ T \in Nat
      /\ w.node[i].role.read_seq = w.reads[T] /\ w.reads[T] \in Nat
  <2>1. Chronicle(w) /\ HeldNow(w) /\ LeadersTrack(w)
    BY DEF Consistent
  <2>2. T \in Nat
    BY <2>1, Parts
  <2> QED BY <2>1, <2>2, Parts DEF LeadersTrack
<1>2. PICK s \in Nat : SettledIn(w, s, a)
  BY DEF Settled
<1> HIDE DEF T
<1>3. CASE s <= T
  BY <1>2, <1>3 DEF Seen, T
<1>4. CASE s > T
  <2>1. PICK k \in Nat : k > 0 /\ Chosen(w, k, s)
    <3>1. PICK k \in Nat : \E y \in 1 .. k : Chosen(w, k, s)
      BY <1>2 DEF SettledIn
    <3>2. k > 0
      BY <3>1
    <3> QED BY <3>1, <3>2
  <2>2. PICK Q \in SUBSET Server : /\ Majority(Server, Q)
                                   /\ \A v \in Q : Held(w, s, v) >= k
    BY <2>1 DEF Chosen
  <2>3. ASSUME NEW v \in Q
        PROVE  TermOf(w, v) > T /\ c[T][v] < q
    <3>1. Held(w, s, v) \in Nat /\ TermOf(w, v) \in Nat
      BY <1>1, Parts
    <3>2. Held(w, s, v) > 0
      BY <2>1, <2>2, <3>1
    <3>3. s <= TermOf(w, v)
      BY <1>1, <3>2 DEF HeldNow
    <3>4. TermOf(w, v) > T
      BY <1>1, <1>4, <3>1, <3>3
    <3>5. c[T][v] \in Nat /\ c[T][v] <= w.reads[T]
      BY <1>1 DEF Counted
    <3>6. c[T][v] < q
      BY <1>1, <3>5
    <3> QED BY <3>4, <3>6
  <2>4. Passed(w, c, T, q)
    BY <2>2, <2>3 DEF Passed
  <2> QED BY <2>4 DEF Seen, T
<1> QED BY <1>1, <1>3, <1>4

\* What was acknowledged before a read that a leader has queued, or queues in
\* the call, that read will see; B is what was acknowledged before requests by
\* then.
LEMMA QueuedSeen ==
  ASSUME NEW w, Consistent(w), NEW c, Counted(w, c), NEW i \in Server,
         w.node[i].role.kind = "Leader", NEW M, NEW A, NEW B,
         AskedSettled(w, B), \A id \in Ids : A[id] # Nil => B[id] = A[id],
         \A m \in M : Honest(w, c, B, m), Attested(w, c, A, i),
         NEW rd \in ReadType(Ids), Queued(M, w.node[i], rd)
  PROVE  /\ B[rd.id] # Nil
         /\ \A a \in B[rd.id] \cap Writes : Seen(w, c, TermOf(w, i), a, rd.seq)
<1> DEFINE n == w.node[i]
<1>1. rd.seq \in Nat /\ rd.id \in Ids
  BY DEF ReadType
<1>2. CASE rd \in n.role.reads
  <2>1. /\ A[rd.id] # Nil
        /\ \A a \in A[rd.id] \cap Writes : Seen(w, c, TermOf(w, i), a, rd.seq)
    BY <1>2 DEF Attested
  <2>2. B[rd.id] = A[rd.id]
    BY <1>1, <2>1
  <2> QED BY <2>1, <2>2
<1>3. CASE /\ rd.seq > n.role.read_seq
           /\ \E m \in M : /\ m.message.type = "ClientRequest"
                           /\ m.message.request.id = rd.id
  <2>1. PICK m \in M : /\ m.message.type = "ClientRequest"
                       /\ m.message.request.id = rd.id
    BY <1>3
  <2>2. B[rd.id] # Nil
    BY <2>1 DEF Honest
  <2>3. ASSUME NEW a \in B[rd.id] \cap Writes
        PROVE  Seen(w, c, TermOf(w, i), a, rd.seq)
    <3>1. Settled(w, a)
      BY <1>1, <2>2, <2>3 DEF AskedSettled
    <3> QED BY <1>1, <1>3, <3>1, NewlySeen
  <2> QED BY <2>2, <2>3
<1> QED BY <1>2, <1>3 DEF Queued

\* Reads that are queued after a call will see that too.
LEMMA DealtAttested ==
  ASSUME NEW w, NEW x, NEW i \in Server, NEW r, NEW M, NEW c,
         Dealt(w, x, i, r, M, c), NEW A, NEW B, AskedSettled(w, B),
         \A id \in Ids : A[id] # Nil => B[id] = A[id],
         \A m \in M : Honest(w, c, B, m),
         NEW v \in Server, Owing(v, c, w.node[v]), Attested(w, c, A, v)
  PROVE  Attested(x, Counting(x, c, i), B, v)
<1> DEFINE d == Counting(x, c, i)
           n == w.node[v]
           k == x.node[v]
           T == TermOf(x, v)
           Sees(rd) == /\ B[rd.id] # Nil
                       /\ \A a \in B[rd.id] \cap Writes : Seen(x, d, T, a, rd.seq)
<1>1. /\ Consistent(w) /\ Consistent(x) /\ Advances(w, x, i)
      /\ Chronicle(w) /\ Chronicle(x) /\ x.node[i] = r.n
      /\ Counted(w, c) /\ Goes(w, x, i, r, M) /\ Fares(i, c, M, w.node[i], r)
  BY DealtOn DEF Dealt
<1>2. T \in Nat /\ k \in StaticNode(v) /\ T = k.log.term
      /\ TermOf(w, v) \in Nat /\ n \in StaticNode(v) /\ TermOf(w, v) = n.log.term
  BY <1>1, Parts DEF TermOf
<1>3. SUFFICES ASSUME k.role.kind = "Leader", NEW rd \in k.role.reads
               PROVE  Sees(rd)
  BY DEF Attested
<1> HIDE DEF d, n, k, T
<1>4. ASSUME NEW id \in Ids, NEW q, T = TermOf(w, v), A[id] # Nil,
             \A a \in A[id] \cap Writes : Seen(w, c, TermOf(w, v), a, q)
      PROVE  /\ B[id] # Nil
             /\ \A a \in B[id] \cap Writes : Seen(x, d, T, a, q)
  <2>1. B[id] = A[id]
    BY <1>4
  <2>2. ASSUME NEW a \in B[id] \cap Writes
        PROVE  Seen(x, d, T, a, q)
    <3>1. Seen(w, c, T, a, q)
      BY <1>4, <2>1, <2>2
    <3> QED BY <1>1, <1>2, <3>1, SeenGrows DEF d
  <2> QED BY <1>4, <2>1, <2>2
<1>5. ASSUME n.role.kind = "Leader", rd \in n.role.reads, T = TermOf(w, v)
      PROVE  Sees(rd)
  <2>1. rd.id \in Ids
    <3>1. Owes(v, c[n.log.term], n)
      BY <1>5 DEF Owing, n
    <3>2. rd.id \in Reads
      BY <1>5, <3>1 DEF Owes
    <3> QED BY <3>2 DEF Reads, Ids
  <2>2. /\ A[rd.id] # Nil
        /\ \A a \in A[rd.id] \cap Writes : Seen(w, c, TermOf(w, v), a, rd.seq)
    BY <1>5 DEF Attested, n
  <2> QED BY <1>4, <1>5, <2>1, <2>2
<1>6. CASE v # i
  <2>1. k = n
    BY <1>1, <1>6 DEF Advances, k, n
  <2> QED BY <1>2, <1>3, <1>5, <2>1
<1>7. CASE v = i
  <2>1. k = r.n /\ Fares(i, c, M, n, r)
    BY <1>1, <1>7 DEF k, n
  <2>2. ~Retires(M, r)
    BY <1>3, <2>1 DEF Retires
  <2>3. CASE Opens(i, r)
    <3>1. PICK o : o.role.reads = {} /\ Earns(i, Unread, {}, o, r)
      BY <2>3 DEF Opens
    <3>2. Queued({}, o, rd)
      BY <1>3, <2>1, <3>1 DEF Earns
    <3> QED BY <3>1, <3>2 DEF Queued
  <2>4. CASE /\ n.role.kind = "Leader" /\ r.n.log.term = n.log.term
             /\ Earns(i, c[n.log.term], M, n, r)
    <3>1. T = TermOf(w, v)
      BY <1>2, <2>1, <2>4
    <3>2. Queued(M, n, rd)
      BY <1>3, <2>1, <2>4 DEF Earns
    <3>3. rd \in ReadType(Ids)
      BY <1>2, <1>3, LeadTypes
    <3>4. /\ B[rd.id] # Nil
          /\ \A a \in B[rd.id] \cap Writes :
               Seen(w, c, TermOf(w, v), a, rd.seq)
      BY <1>1, <1>7, <2>4, <3>2, <3>3, QueuedSeen DEF n
    <3> QED BY <1>1, <1>2, <3>1, <3>4, SeenGrows DEF d
  <2> QED BY <2>1, <2>2, <2>3, <2>4 DEF Fares
<1> QED BY <1>6, <1>7

\* What a majority has confirmed to a leader is not passed.
LEMMA ConfirmedNotPassed ==
  ASSUME NEW w, NEW c, Counted(w, c), NEW i \in Server, NEW q \in Nat,
         Chronicle(w), Confirmed(i, c[TermOf(w, i)], q),
         Passed(w, c, TermOf(w, i), q)
  PROVE  FALSE
<1> DEFINE T == TermOf(w, i)
<1>1. T \in Nat /\ c \in [Nat -> [Server -> Nat]]
  BY Parts DEF Counted
<1> HIDE DEF T
<1>2. PICK P \in SUBSET Server : /\ Majority(Server, P)
                                 /\ \A v \in P : v = i \/ c[T][v] >= q
  BY DEF Confirmed, T
<1>3. PICK Q \in SUBSET Server :
        Majority(Server, Q) /\ \A v \in Q : TermOf(w, v) > T /\ c[T][v] < q
  BY DEF Passed, T
<1>4. PICK v \in Server : v \in P /\ v \in Q
  <2>1. IsFiniteSet(Server)
    BY NodeAssumption
  <2> QED BY <1>2, <1>3, <2>1, MajoritiesShare
<1>5. CASE v = i
  <2>1. T > T
    BY <1>3, <1>4, <1>5 DEF T
  <2> QED BY <1>1, <2>1
<1>6. CASE c[T][v] >= q
  <2>1. c[T][v] \in Nat
    BY <1>1
  <2> QED BY <1>3, <1>4, <1>6, <2>1
<1> QED BY <1>2, <1>4, <1>5, <1>6

\* A read that is served sees what it is to see.
LEMMA ServedSees ==
  ASSUME NEW w, Consistent(w), NEW x, Consistent(x), NEW i \in Server,
         Advances(w, x, i), NEW c, Counted(w, c),
         w.node[i].role.kind = "Leader", x.node[i].role.kind = "Leader",
         TermOf(x, i) = TermOf(w, i), NEW q \in Nat, NEW a,
         Seen(w, c, TermOf(w, i), a, q), Confirmed(i, c[TermOf(w, i)], q),
         NEW y \in 1 .. CommitOf(x, i), y >= CommitOf(w, i),
         Ents(x, i)[y].term >= TermOf(w, i)
  PROVE  \E z \in 1 .. y : Ents(x, i)[z].cmd = a
<1> DEFINE T == TermOf(w, i)
           l == LogOf(w, T)
           e == Ents(x, i)
<1>1. Chronicle(w) /\ Chronicle(x)
  BY DEF Consistent
<1>2. /\ T \in Nat /\ CommitOf(w, i) \in Nat /\ CommitOf(x, i) \in Nat
      /\ l \in Seq(StaticEntry) /\ Len(l) \in Nat
      /\ e \in Seq(StaticEntry) /\ Len(e) \in Nat
      /\ \A j \in 1 .. Len(e) : e[j].term \in Nat
      /\ CommitOf(x, i) <= Len(e)
  <2>1. Sound(x.node[i])
    BY DEF Consistent, NodesSound
  <2>2. CommitOf(x, i) <= Len(e)
    BY <2>1 DEF Sound, CommitOf, Ents
  <2> QED BY <1>1, <2>2, Parts
<1>3. /\ LogOf(x, T) = e /\ SameTo(l, e, Len(l)) /\ Rising(e, T)
      /\ l # <<>>
  <2>1. LogOf(x, T) = e
    BY DEF Consistent, LeadersTrack
  <2>2. SameTo(l, e, Len(l))
    BY <1>2, <2>1, Grows
  <2>3. Rising(e, T)
    BY <1>2, <2>1 DEF Consistent, LeadersRooted
  <2>4. l = Ents(w, i) /\ Current(w.node[i])
    BY DEF Consistent, LeadersTrack
  <2>5. Len(l) > 0
    BY <2>4 DEF Current, Ents
  <2>6. Len(<<>>) = 0
    OBVIOUS
  <2> QED BY <2>1, <2>2, <2>3, <2>5, <2>6
<1> HIDE DEF l, e
<1>4. PICK s \in Nat : s <= T /\ SettledIn(w, s, a)
  BY <1>1, ConfirmedNotPassed DEF Seen
<1>5. PICK k \in Nat : \E z \in 1 .. k :
        /\ Own(w, k, s) /\ Chosen(w, k, s) /\ LogOf(w, s)[z].cmd = a
        /\ \A v \in Server :
             w.node[v].role.kind = "Leader" /\ TermOf(w, v) = s
               => CommitOf(w, v) >= z
  BY <1>4 DEF SettledIn
<1>6. PICK z \in 1 .. k :
        /\ Own(w, k, s) /\ Chosen(w, k, s) /\ LogOf(w, s)[z].cmd = a
        /\ \A v \in Server :
             w.node[v].role.kind = "Leader" /\ TermOf(w, v) = s
               => CommitOf(w, v) >= z
  BY <1>5
<1>7. CASE s = T
  <2>1. CommitOf(w, i) >= z
    BY <1>6, <1>7
  <2>2. z \in 1 .. y
    BY <1>2, <2>1
  <2>3. z \in 1 .. Len(l)
    BY <1>2, <1>6, <1>7 DEF Own, l
  <2>4. l[z] = e[z]
    BY <1>2, <1>3, <2>3, SameAt
  <2>5. l[z].cmd = a
    BY <1>6, <1>7 DEF l
  <2> QED BY <2>2, <2>4, <2>5 DEF e
<1>8. CASE s < T
  <2>1. SameTo(l, LogOf(w, s), k)
    <3>1. ~Blocked(w, k, s)
      BY <1>1, <1>6, ChosenNotBlocked
    <3>2. LeadersKeep(w)
      BY DEF Consistent
    <3> QED BY <1>2, <1>3, <1>6, <1>8, <3>1, <3>2 DEF LeadersKeep, l
  <2>2. k \in 1 .. Len(l) /\ k <= Len(e)
    <3>1. k <= Len(l)
      BY <2>1 DEF SameTo
    <3>2. Len(l) <= Len(e)
      BY <1>3 DEF SameTo
    <3>3. k > 0
      BY <1>6
    <3> QED BY <1>2, <3>1, <3>2, <3>3
  <2>3. /\ LogOf(w, s)[k].term = s
        /\ l[k] = LogOf(w, s)[k] /\ l[z] = LogOf(w, s)[z]
    BY <1>6, <2>1, <2>2, SameAt DEF Own
  <2>4. e[k] = l[k] /\ e[z] = l[z]
    <3>1. z \in 1 .. Len(l) /\ k \in 1 .. Len(l)
      BY <1>2, <2>2
    <3> QED BY <1>2, <1>3, <3>1, SameAt
  <2>5. e[k].term = s /\ e[z].cmd = a
    BY <1>6, <2>3, <2>4
  <2>6. y >= z
    <3>1. CASE y >= k
      BY <1>2, <3>1
    <3>2. CASE y < k
      <4>1. y \in 1 .. k /\ k \in 1 .. Len(e) /\ y \in 1 .. Len(e)
        BY <1>2, <2>2, <3>2
      <4>2. e[y].term <= e[k].term
        BY <1>3, <4>1 DEF Rising
      <4>3. e[y].term >= T /\ e[y].term \in Nat
        BY <1>2, <4>1 DEF e, T
      <4> QED BY <1>2, <1>8, <2>5, <4>2, <4>3
    <3> QED BY <1>2, <3>1, <3>2
  <2>7. z \in 1 .. y
    BY <1>2, <2>6
  <2> QED BY <2>5, <2>7 DEF e
<1> QED BY <1>2, <1>4, <1>7, <1>8

\* A leader has settled what it has committed of its term.
LEMMA CommittedSettles ==
  ASSUME NEW x, Consistent(x), NEW i \in Server, x.node[i].role.kind = "Leader",
         NEW y \in 1 .. CommitOf(x, i), NEW a, Ents(x, i)[y].cmd = a,
         Ents(x, i)[y].term = TermOf(x, i)
  PROVE  SettledIn(x, TermOf(x, i), a)
<1> DEFINE T == TermOf(x, i)
           b == CommitOf(x, i)
<1>1. /\ Chronicle(x) /\ Voted(x) /\ LeadersRooted(x) /\ LedByElected(x)
      /\ LeadersTrack(x) /\ CommitsChosen(x)
  BY DEF Consistent
<1>2. /\ T \in Nat /\ b \in Nat
      /\ \A t \in Nat : /\ Len(LogOf(x, t)) \in Nat
                        /\ \A k \in 1 .. Len(LogOf(x, t)) :
                             LogOf(x, t)[k].term \in Nat
  BY <1>1, Parts
<1>3. y \in Nat /\ y >= 1 /\ y <= b /\ b > 0
  BY <1>2
<1>4. PICK s \in Nat : \E k \in Nat :
        /\ s <= T /\ b <= k /\ Own(x, k, s) /\ Chosen(x, k, s)
        /\ SameTo(Ents(x, i), LogOf(x, s), b)
  BY <1>1, <1>3 DEF CommitsChosen, Committed
<1>5. PICK k \in Nat :
        /\ s <= T /\ b <= k /\ Own(x, k, s) /\ Chosen(x, k, s)
        /\ SameTo(Ents(x, i), LogOf(x, s), b)
  BY <1>4
<1>6. y \in 1 .. b /\ y \in 1 .. k
  BY <1>2, <1>3, <1>5
<1>7. LogOf(x, s)[y] = Ents(x, i)[y]
  BY <1>2, <1>5, <1>6, SameAt
<1>8. T <= s
  <2>1. k <= Len(LogOf(x, s)) /\ Len(LogOf(x, s)) \in Nat
    BY <1>2, <1>5 DEF Own
  <2>2. y \in 1 .. Len(LogOf(x, s))
    BY <1>6, <2>1
  <2>3. Rising(LogOf(x, s), s)
    BY <1>1 DEF LeadersRooted
  <2>4. LogOf(x, s)[y].term <= s
    BY <2>2, <2>3 DEF Rising
  <2> QED BY <1>7, <2>4
<1>9. s = T
  BY <1>2, <1>5, <1>8
<1>10. ASSUME NEW v \in Server, x.node[v].role.kind = "Leader", TermOf(x, v) = T
       PROVE  CommitOf(x, v) >= y
  <2> DEFINE d == [leader |-> i, term |-> T]
             e == [leader |-> v, term |-> T]
  <2>1. d \in x.offices /\ e \in x.offices
    BY <1>1, <1>10 DEF LeadersTrack
  <2>2. Polled(d, x.ballots) /\ Polled(e, x.ballots)
    BY <1>1, <2>1 DEF LedByElected
  <2>3. \A p, q \in x.ballots :
          p.voter = q.voter /\ p.term = q.term => p.vote = q.vote
    BY <1>1 DEF Voted
  <2>4. d.term = e.term /\ d.leader = i /\ e.leader = v
    OBVIOUS
  <2> HIDE DEF d, e
  <2>5. d.leader = e.leader
    BY <2>2, <2>3, <2>4, OneOffice
  <2> QED BY <1>2, <1>3, <2>4, <2>5
<1>11. LogOf(x, T)[y].cmd = a
  BY <1>7, <1>9
<1> HIDE DEF T
<1>12. Own(x, k, T) /\ Chosen(x, k, T)
  BY <1>5, <1>9
<1>13. SettledIn(x, T, a)
  BY <1>6, <1>10, <1>11, <1>12 DEF SettledIn
<1> QED BY <1>13 DEF T

\* A message stays true, whatever the call, and whoever is asked for the first
\* time.
LEMMA DealtHonest ==
  ASSUME NEW w, NEW x, NEW i \in Server, NEW r, NEW M, NEW c,
         Dealt(w, x, i, r, M, c), NEW A, NEW B,
         \A id \in Ids : A[id] # Nil => B[id] = A[id],
         NEW m \in Envelope, Honest(w, c, A, m)
  PROVE  Honest(x, Counting(x, c, i), B, m)
<1> DEFINE d == Counting(x, c, i)
           g == m.message
<1>1. /\ Advances(w, x, i) /\ Counted(w, c) /\ Counted(x, d)
      /\ Chronicle(w) /\ Chronicle(x) /\ Goes(w, x, i, r, M)
      /\ Fares(i, c, M, w.node[i], r)
  BY DealtOn DEF Dealt
<1>2. g \in StaticMessage /\ m.term \in Nat /\ m.from \in Server
  BY DEF Envelope
<1>3. /\ \A t \in Nat : w.reads[t] \in Nat /\ x.reads[t] \in Nat
                        /\ w.reads[t] <= x.reads[t]
      /\ \A t \in Nat : \A v \in Server : c[t][v] <= d[t][v]
  BY <1>1, Grows, Parts, CountingGrows
<1>4. \A t \in Nat : \A v \in Server : c[t][v] \in Nat /\ d[t][v] \in Nat
  BY <1>1 DEF Counted
<1> HIDE DEF d
<1>5. g.type = "ClientRequest" => B[g.request.id] # Nil
  <2>1. g.type = "ClientRequest" => g.request.id \in Ids
    BY <1>2, SeqTypes DEF Ids
  <2> QED BY <2>1 DEF Honest
<1>6. g.type = "Read" => g.seq <= x.reads[m.term]
  <2>1. g.type = "Read" => g.seq \in Nat
    BY <1>2, SeqTypes
  <2> QED BY <1>2, <1>3, <2>1 DEF Honest
<1>7. g.type = "ReadResponse" => g.seq <= d[m.term][m.from]
  <2>1. g.type = "ReadResponse" => g.seq \in Nat
    BY <1>2, SeqTypes
  <2>2. c[m.term][m.from] <= d[m.term][m.from]
        /\ c[m.term][m.from] \in Nat /\ d[m.term][m.from] \in Nat
    BY <1>2, <1>3, <1>4
  <2> QED BY <2>1, <2>2 DEF Honest
<1>8. g.type = "HeartbeatResponse" => g.read_seq <= d[m.term][m.from]
  <2>1. g.type = "HeartbeatResponse" => g.read_seq \in Nat
    BY <1>2, SeqTypes
  <2>2. c[m.term][m.from] <= d[m.term][m.from]
        /\ c[m.term][m.from] \in Nat /\ d[m.term][m.from] \in Nat
    BY <1>2, <1>3, <1>4
  <2> QED BY <2>1, <2>2 DEF Honest
<1>9. OkTo(Writes, m) => Settled(x, g.id)
  <2>1. ASSUME Settled(w, g.id)
        PROVE  Settled(x, g.id)
    BY <1>1, <2>1, SettledGrows DEF Settled
  <2> QED BY <2>1 DEF Honest
<1>10. OkTo(Reads, m) => Shown(B, g.id, g.data)
  <2>1. g.type = "ClientResponse" => g.id \in Ids
    BY <1>2, SeqTypes
  <2>2. OkTo(Reads, m) => g.type = "ClientResponse"
    BY DEF OkTo
  <2> QED BY <2>1, <2>2 DEF Honest, Shown
<1>11. Honest(x, d, B, m)
  BY <1>5, <1>6, <1>7, <1>8, <1>9, <1>10 DEF Honest
<1> QED BY <1>11 DEF d

\* What a leader pays is true, if the answers to reads are.
LEMMA PaidHonest ==
  ASSUME NEW x, Consistent(x), NEW d, NEW i \in Server,
         x.node[i].role.kind = "Leader", NEW a, NEW M, NEW n, NEW m,
         Pays(i, a, M, n, x.node[i], m), NEW B,
         OkTo(Reads, m) => Shown(B, m.message.id, m.message.data)
  PROVE  Honest(x, d, B, m)
<1> DEFINE k == x.node[i]
           g == m.message
<1>1. /\ k.log.term = TermOf(x, i) /\ k.log.commit = CommitOf(x, i)
      /\ k.log.ents = Ents(x, i)
  BY DEF TermOf, CommitOf, Ents
<1>2. k.role.read_seq = x.reads[TermOf(x, i)]
  BY DEF Consistent, LeadersTrack
<1> HIDE DEF k
<1>3. Pays(i, a, M, n, k, m)
  BY DEF k
<1>4. g.type = "Read" => g.seq <= x.reads[m.term]
  BY <1>1, <1>2, <1>3 DEF Pays
<1>5. g.type \notin {"ClientRequest", "ReadResponse", "HeartbeatResponse"}
  BY <1>3 DEF Pays
<1>6. ASSUME OkTo(Writes, m)
      PROVE  Settled(x, g.id)
  <2>1. PICK y \in 1 .. k.log.commit :
          k.log.ents[y].cmd = g.id /\ k.log.ents[y].term = k.log.term
    BY <1>3, <1>6 DEF Pays
  <2>2. TermOf(x, i) \in Nat
    BY Parts DEF Consistent
  <2>3. SettledIn(x, TermOf(x, i), g.id)
    BY <1>1, <2>1, CommittedSettles
  <2> QED BY <2>2, <2>3 DEF Settled
<1> QED BY <1>4, <1>5, <1>6 DEF Honest

\* What a leader's log shows of its first y entries.
LEMMA PlayedShows ==
  ASSUME NEW l, NEW y \in Nat, NEW S,
         \A a \in S : \E z \in 1 .. y : l[z].cmd = a
  PROVE  LET data == Played(l, y).data
         IN S \subseteq {data[z] : z \in 1 .. Len(data)}
<1> DEFINE data == Played(l, y).data
<1>1. data = [z \in 1 .. y |-> l[z].cmd]
  BY DEF Played
<1> HIDE DEF data
<1>2. Len(data) = y
  BY <1>1
<1>3. ASSUME NEW a \in S
      PROVE  a \in {data[z] : z \in 1 .. Len(data)}
  <2>1. PICK z \in 1 .. y : l[z].cmd = a
    OBVIOUS
  <2>2. data[z] = a
    BY <1>1, <2>1
  <2> QED BY <1>2, <2>2
<1> QED BY <1>3 DEF data

\* An answer that shows all that its read is to see.
LEMMA ReadShown ==
  ASSUME NEW w, NEW x, NEW i \in Server, NEW r, NEW M, NEW c,
         Dealt(w, x, i, r, M, c), w.node[i].role.kind = "Leader",
         r.n.role.kind = "Leader", r.n.log.term = w.node[i].log.term,
         NEW A, NEW B, AskedSettled(w, B),
         \A id \in Ids : A[id] # Nil => B[id] = A[id],
         \A m \in M : Honest(w, c, B, m), Attested(w, c, A, i),
         NEW m, OkTo(Reads, m),
         Pays(i, c[w.node[i].log.term], M, w.node[i], r.n, m)
  PROVE  Shown(B, m.message.id, m.message.data)
<1> DEFINE n == w.node[i]
           k == r.n
           g == m.message
           T == TermOf(w, i)
<1>1. /\ Consistent(w) /\ Consistent(x) /\ Advances(w, x, i) /\ x.node[i] = k
      /\ Counted(w, c) /\ T \in Nat /\ T = n.log.term
      /\ TermOf(x, i) = T
      /\ k.log.commit = CommitOf(x, i) /\ k.log.ents = Ents(x, i)
      /\ n.log.commit = CommitOf(w, i) /\ k.log.term = T
  <2>1. Goes(w, x, i, r, M) /\ Consistent(x) /\ Counted(w, c)
    BY DEF Dealt
  <2>2. Consistent(w) /\ Advances(w, x, i) /\ x.node[i] = k
    BY <2>1, GoesOn
  <2>3. T \in Nat
    BY <2>2, Parts DEF Advances
  <2>4. T = n.log.term /\ n.log.commit = CommitOf(w, i)
    BY DEF TermOf, CommitOf
  <2>5. /\ TermOf(x, i) = k.log.term /\ k.log.commit = CommitOf(x, i)
        /\ k.log.ents = Ents(x, i)
    BY <2>2 DEF TermOf, CommitOf, Ents
  <2> QED BY <2>1, <2>2, <2>3, <2>4, <2>5
<1> HIDE DEF n, k, T
<1>2. Pays(i, c[T], M, n, k, m)
  BY <1>1 DEF n, k
<1>3. PICK rd \in ReadType(Ids) :
        /\ Queued(M, n, rd) /\ rd.id = g.id /\ Confirmed(i, c[T], rd.seq)
        /\ \E y \in 1 .. k.log.commit :
             /\ y >= n.log.commit /\ k.log.ents[y].term >= k.log.term
             /\ g.data = Played(k.log.ents, y).data
  BY <1>2 DEF Pays
<1>4. PICK y \in 1 .. CommitOf(x, i) :
        /\ y >= CommitOf(w, i) /\ Ents(x, i)[y].term >= T
        /\ g.data = Played(Ents(x, i), y).data
  BY <1>1, <1>3
<1>5. rd.seq \in Nat
  BY DEF ReadType
<1>6. /\ B[rd.id] # Nil
      /\ \A a \in B[rd.id] \cap Writes : Seen(w, c, T, a, rd.seq)
  BY <1>1, <1>3, QueuedSeen DEF n, T
<1>7. ASSUME NEW a \in B[rd.id] \cap Writes
      PROVE  \E z \in 1 .. y : Ents(x, i)[z].cmd = a
  <2>1. Seen(w, c, TermOf(w, i), a, rd.seq)
        /\ Confirmed(i, c[TermOf(w, i)], rd.seq)
    BY <1>3, <1>6, <1>7 DEF T
  <2>2. w.node[i].role.kind = "Leader" /\ x.node[i].role.kind = "Leader"
    BY <1>1 DEF k
  <2>3. TermOf(x, i) = TermOf(w, i) /\ Ents(x, i)[y].term >= TermOf(w, i)
    BY <1>1, <1>4 DEF T
  <2> QED BY <1>1, <1>4, <1>5, <2>1, <2>2, <2>3, ServedSees
<1>8. CommitOf(x, i) \in Nat /\ y \in Nat
  BY <1>1, Parts DEF Consistent
<1>9. B[rd.id] \cap Writes \subseteq {g.data[z] : z \in 1 .. Len(g.data)}
  <2> DEFINE S == B[rd.id] \cap Writes
             l == Ents(x, i)
  <2>1. \A a \in S : \E z \in 1 .. y : l[z].cmd = a
    BY <1>7
  <2> HIDE DEF S, l
  <2> DEFINE data == Played(l, y).data
  <2>2. S \subseteq {data[z] : z \in 1 .. Len(data)}
    BY <1>8, <2>1, PlayedShows
  <2>3. g.data = data
    BY <1>4 DEF l
  <2> HIDE DEF data
  <2>4. S \subseteq {g.data[z] : z \in 1 .. Len(g.data)}
    BY <2>2, <2>3
  <2> QED BY <2>4 DEF S
<1> QED BY <1>3, <1>6, <1>9 DEF Shown

\* What is passed on is true of what it was heard from.
LEMMA RelayedHonest ==
  ASSUME NEW w, NEW x, NEW i \in Server, NEW r, NEW M, NEW c,
         Dealt(w, x, i, r, M, c), NEW B,
         \A e \in M : e \in Envelope /\ Honest(w, c, B, e) /\ Claims(w, e),
         NEW m \in StaticEnv(i), Relays(M, TermOf(x, i), m)
  PROVE  Honest(x, Counting(x, c, i), B, m)
<1> DEFINE d == Counting(x, c, i)
           g == m.message
           T == TermOf(x, i)
<1>1. /\ Advances(w, x, i) /\ Counted(w, c) /\ Chronicle(w) /\ Chronicle(x)
      /\ Goes(w, x, i, r, M) /\ Fares(i, c, M, w.node[i], r) /\ T \in Nat
  BY DealtOn DEF Dealt
<1>2. g \in StaticMessage /\ m.from = i
  BY DEF StaticEnv
<1>3. w.reads[T] \in Nat /\ x.reads[T] \in Nat /\ w.reads[T] <= x.reads[T]
      /\ d[T][i] = x.reads[T]
  <2>1. w.reads[T] \in Nat /\ x.reads[T] \in Nat
    BY <1>1, Parts
  <2>2. w.reads[T] <= x.reads[T]
    BY <1>1, Grows
  <2>3. d[T][i] = x.reads[T]
    BY <1>1, CountingGrows
  <2> QED BY <2>1, <2>2, <2>3
<1>4. \A e \in M : e.message \in StaticMessage
  BY DEF Envelope
<1> HIDE DEF d, T
<1>5. Relays(M, T, m)
  BY DEF T
<1>6. g.type = "ClientRequest" => B[g.request.id] # Nil
  BY <1>5 DEF Relays, Honest
<1>7. ASSUME g.type = "ReadResponse"
      PROVE  g.seq <= d[m.term][m.from]
  <2>1. PICK e \in M : e.message.type = "Read" /\ e.term = T
                       /\ e.message.seq = g.seq
    BY <1>5, <1>7 DEF Relays
  <2>2. e.message.seq <= w.reads[T] /\ e.message.seq \in Nat
    BY <1>4, <2>1, SeqTypes DEF Honest
  <2>3. m.term = T
    BY <1>5, <1>7 DEF Relays
  <2> QED BY <1>2, <1>3, <2>1, <2>2, <2>3
<1>8. ASSUME g.type = "HeartbeatResponse"
      PROVE  g.read_seq <= d[m.term][m.from]
  <2>1. PICK e \in M : e.message.type = "Heartbeat" /\ e.term = T
                       /\ e.message.read_seq = g.read_seq
    BY <1>5, <1>8 DEF Relays
  <2>2. e.message.read_seq <= w.reads[T]
    BY <2>1 DEF Claims
  <2>3. e.message.read_seq \in Nat
    BY <1>4, <2>1, SeqTypes
  <2>4. m.term = T
    BY <1>5, <1>8 DEF Relays
  <2> QED BY <1>2, <1>3, <2>1, <2>2, <2>3, <2>4
<1>9. OkTo(Writes, m) => Settled(x, g.id)
  <2>1. ASSUME OkTo(Writes, m)
        PROVE  \E e \in M : OkTo({g.id}, e) /\ g.id \in Writes
    <3>1. OkTo(Ids, m)
      BY <2>1 DEF OkTo, Writes, Ids
    <3> QED BY <1>5, <2>1, <3>1 DEF Relays, OkTo
  <2>2. OkTo(Writes, m) => Settled(w, g.id)
    BY <2>1 DEF Honest, OkTo
  <2> QED BY <1>1, <2>2, SettledGrows DEF Settled
<1>10. OkTo(Reads, m) => Shown(B, g.id, g.data)
  <2>1. ASSUME OkTo(Reads, m)
        PROVE  \E e \in M : OkTo({g.id}, e) /\ e.message.data = g.data
                            /\ g.id \in Reads
    <3>1. OkTo(Ids, m)
      BY <2>1 DEF OkTo, Reads, Ids
    <3> QED BY <1>5, <2>1, <3>1 DEF Relays, OkTo
  <2> QED BY <2>1 DEF Honest, OkTo
<1>11. g.type # "Read"
  BY <1>5 DEF Relays
<1>12. Honest(x, d, B, m)
  BY <1>6, <1>7, <1>8, <1>9, <1>10, <1>11 DEF Honest
<1> QED BY <1>12 DEF d

\* What a call sends is true.
LEMMA DealtSent ==
  ASSUME NEW w, NEW x, NEW i \in Server, NEW r, NEW M, NEW c,
         Dealt(w, x, i, r, M, c), NEW A, NEW B, AskedSettled(w, B),
         \A id \in Ids : A[id] # Nil => B[id] = A[id], Attested(w, c, A, i),
         \A e \in M : e \in Envelope /\ Honest(w, c, B, e) /\ Claims(w, e),
         NEW m \in r.out
  PROVE  m \in StaticEnv(i) /\ Honest(x, Counting(x, c, i), B, m)
<1> DEFINE n == w.node[i]
<1> HIDE DEF n
<1>1. /\ Consistent(x) /\ x.node[i] = r.n /\ r \in Outcome(i)
      /\ TermOf(x, i) = r.n.log.term
  <2>1. Goes(w, x, i, r, M) /\ Consistent(x)
    BY DEF Dealt
  <2>2. x.node[i] = r.n /\ r \in Outcome(i)
    BY <2>1, GoesOn
  <2> QED BY <2>1, <2>2 DEF TermOf
<1> USE DEF n
<1>2. m \in StaticEnv(i)
  BY <1>1 DEF Outcome
<1>3. Fares(i, c, M, n, r)
  BY DEF Dealt
<1>4. CASE /\ n.role.kind = "Leader" /\ r.n.role.kind = "Leader"
           /\ r.n.log.term = n.log.term
           /\ Earns(i, c[n.log.term], M, n, r)
  <2>1. Pays(i, c[n.log.term], M, n, r.n, m)
    BY <1>4 DEF Earns
  <2>2. OkTo(Reads, m) => Shown(B, m.message.id, m.message.data)
    BY <1>4, <2>1, ReadShown
  <2> QED BY <1>1, <1>2, <1>4, <2>1, <2>2, PaidHonest
<1>5. CASE Opens(i, r)
  <2>1. PICK k : k.role.reads = {} /\ Earns(i, Unread, {}, k, r)
    BY <1>5 DEF Opens
  <2>2. Pays(i, Unread, {}, k, r.n, m) /\ r.n.role.kind = "Leader"
    BY <1>5, <2>1 DEF Earns, Opens
  <2>3. ~OkTo(Reads, m)
    BY <2>1, <2>2 DEF Pays, Queued
  <2> QED BY <1>1, <1>2, <2>2, <2>3, PaidHonest
<1>6. CASE Retires(M, r)
  <2>1. Relays(M, TermOf(x, i), m)
    BY <1>1, <1>6 DEF Retires
  <2> QED BY <1>2, <2>1, RelayedHonest
<1> QED BY <1>3, <1>4, <1>5, <1>6 DEF Fares

-----------------------------------------------------------------------------
(* The books and the replies after every call.                             *)

\* What was asked is settled still.
LEMMA AskedSettledGrows ==
  ASSUME NEW w, NEW x, NEW i \in Server, NEW r, NEW M, NEW c,
         Dealt(w, x, i, r, M, c), NEW A, AskedSettled(w, A)
  PROVE  AskedSettled(x, A)
<1>1. Goes(w, x, i, r, M) /\ Fares(i, c, M, w.node[i], r)
  BY DEF Dealt
<1>2. ASSUME NEW a, Settled(w, a)
      PROVE  Settled(x, a)
  BY <1>1, <1>2, SettledGrows DEF Settled
<1> QED BY <1>2 DEF AskedSettled

LEMMA DealtBooks ==
  ASSUME NEW w, NEW x, NEW i \in Server, NEW r, NEW M, NEW c,
         Dealt(w, x, i, r, M, c), NEW A, Books(w, c, A), NEW B,
         AskedSettled(w, B), \A id \in Ids : A[id] # Nil => B[id] = A[id],
         \A e \in M : e \in Envelope /\ Honest(w, c, B, e) /\ Claims(w, e)
  PROVE  Books(x, Counting(x, c, i), B)
<1> DEFINE d == Counting(x, c, i)
<1>1. /\ \A v \in Server : Owing(v, c, w.node[v]) /\ Attested(w, c, A, v)
      /\ \A m \in w.mail : Honest(w, c, A, m)
  BY DEF Books
<1>2. Consistent(x) /\ Counted(x, d) /\ x.mail \subseteq w.mail \cup r.out
      /\ w.mail \subseteq Envelope
  <2>1. Chronicle(w) /\ Counted(x, d) /\ x.mail \subseteq w.mail \cup r.out
    BY DealtOn
  <2> QED BY <2>1 DEF Chronicle, Dealt
<1> HIDE DEF d
<1>3. ASSUME NEW v \in Server
      PROVE  Owing(v, d, x.node[v]) /\ Attested(x, d, B, v)
  <2>1. Owing(v, d, x.node[v])
    BY <1>1, DealtOwing DEF d
  <2>2. Attested(x, d, B, v)
    BY <1>1, DealtAttested DEF d
  <2> QED BY <2>1, <2>2
<1>4. ASSUME NEW m \in x.mail
      PROVE  Honest(x, d, B, m)
  <2>1. CASE m \in w.mail
    BY <1>1, <1>2, <2>1, DealtHonest DEF d
  <2>2. CASE m \in r.out
    BY <1>1, <2>2, DealtSent DEF d
  <2> QED BY <1>2, <2>1, <2>2
<1>5. AskedSettled(x, B)
  BY AskedSettledGrows
<1>6. Books(x, d, B)
  BY <1>2, <1>3, <1>4, <1>5 DEF Books
<1> QED BY <1>6 DEF d

\* A finite set as a sequence.
LEMMA SetToSeqIs ==
  ASSUME NEW S, IsFiniteSet(S)
  PROVE  SetToSeq(S) \in Seq(S)
<1>1. /\ Cardinality(S) \in Nat
      /\ ExistsBijection(1 .. Cardinality(S), S)
  BY FS_CardinalityType
<1>2. \E f \in [1 .. Cardinality(S) -> S] : IsInjective(f)
  BY <1>1 DEF ExistsBijection, Bijection, Injection
<1>3. SetToSeq(S) \in [1 .. Cardinality(S) -> S]
  BY <1>2 DEF SetToSeq
<1> HIDE DEF SetToSeq
<1> QED BY <1>1, <1>3

\* Whatever the call, it answers finitely many.
LEMMA FaresAnswering ==
  ASSUME NEW i, NEW C, NEW M, NEW n, NEW r, Fares(i, C, M, n, r)
  PROVE  IsFiniteSet(Answering(r.out))
BY DEF Fares, Opens, Earns, Retires

\* The answers of a call are true.
LEMMA AnswersGiven ==
  ASSUME NEW w, NEW x, NEW i \in Server, NEW r, NEW M, NEW c,
         Dealt(w, x, i, r, M, c), NEW A, Books(w, c, A), NEW B,
         AskedSettled(w, B), \A id \in Ids : A[id] # Nil => B[id] = A[id],
         \A e \in M : e \in Envelope /\ Honest(w, c, B, e) /\ Claims(w, e),
         NEW id \in Ids
  PROVE  /\ SetToSeq(Answers(r.out, id)) \in Seq(Answers(r.out, id))
         /\ \A e \in Answers(r.out, id) : Given(x, B, id, e)
<1>1. IsFiniteSet(Answering(r.out))
  BY FaresAnswering DEF Dealt
<1>2. IsFiniteSet(Answers(r.out, id))
  <2> DEFINE f == [m \in Answering(r.out) |->
                     [status |-> m.message.status, data |-> m.message.data]]
  <2>1. DOMAIN f = Answering(r.out)
    OBVIOUS
  <2>2. Answers(r.out, id) \subseteq {f[m] : m \in Answering(r.out)}
    BY DEF Answers, Answering
  <2> HIDE DEF f
  <2> QED BY <1>1, <2>1, <2>2, ImageFinite
<1>3. SetToSeq(Answers(r.out, id)) \in Seq(Answers(r.out, id))
  BY <1>2, SetToSeqIs
<1>4. ASSUME NEW e \in Answers(r.out, id)
      PROVE  Given(x, B, id, e)
  <2>1. PICK m \in r.out :
          /\ m.message.type = "ClientResponse" /\ m.message.id = id
          /\ e = [status |-> m.message.status, data |-> m.message.data]
    BY <1>4 DEF Answers
  <2>2. Attested(w, c, A, i)
    BY DEF Books
  <2>3. m \in StaticEnv(i) /\ Honest(x, Counting(x, c, i), B, m)
    BY <2>2, DealtSent
  <2>4. m.message.status \in {"Ok", "Abort", "Invalid"}
        /\ m.message.data \in Seq(Cmd)
    <3>1. m.message \in StaticMessage
      BY <2>3 DEF StaticEnv
    <3> QED BY <2>1, <3>1, SeqTypes
  <2>5. e \in Answer
    BY <2>1, <2>4 DEF Answer
  <2> QED BY <2>1, <2>3, <2>5 DEF Given, Honest, OkTo
<1> QED BY <1>3, <1>4

\* The replies R and the answers in what is sent.
Replied(R, out) == [id \in Ids |-> R[id] \o SetToSeq(Answers(out, id))]

\* What clients have been told is true after every call.
LEMMA DealtReplies ==
  ASSUME NEW w, NEW x, NEW i \in Server, NEW r, NEW M, NEW c,
         Dealt(w, x, i, r, M, c), NEW A, Books(w, c, A), NEW B,
         AskedSettled(w, B), \A id \in Ids : A[id] # Nil => B[id] = A[id],
         \A e \in M : e \in Envelope /\ Honest(w, c, B, e) /\ Claims(w, e),
         NEW R, RepliesGiven(w, A, R)
  PROVE  RepliesGiven(x, B, Replied(R, r.out))
<1> DEFINE N(id) == SetToSeq(Answers(r.out, id))
           q == [id \in Ids |-> R[id] \o N(id)]
<1>1. Goes(w, x, i, r, M) /\ Fares(i, c, M, w.node[i], r)
  BY DEF Dealt
<1>2. ASSUME NEW id \in Ids, NEW e, Given(w, A, id, e)
      PROVE  Given(x, B, id, e)
  <2>1. Settled(w, id) => Settled(x, id)
    BY <1>1, SettledGrows DEF Settled
  <2>2. Shown(A, id, e.data) => Shown(B, id, e.data)
    BY DEF Shown
  <2> QED BY <1>2, <2>1, <2>2 DEF Given
<1>3. ASSUME NEW id \in Ids
      PROVE  /\ N(id) \in Seq(Answers(r.out, id))
             /\ \A e \in Answers(r.out, id) : Given(x, B, id, e)
  BY AnswersGiven
<1> HIDE DEF N
<1>4. ASSUME NEW id \in Ids
      PROVE  /\ q[id] \in Seq(Answer)
             /\ \A k \in 1 .. Len(q[id]) : Given(x, B, id, q[id][k])
  <2>1. R[id] \in Seq(Answer)
        /\ \A k \in 1 .. Len(R[id]) : Given(x, B, id, R[id][k])
    BY <1>2 DEF RepliesGiven
  <2>2. N(id) \in Seq(Answer)
        /\ \A k \in 1 .. Len(N(id)) : Given(x, B, id, N(id)[k])
    <3>1. Answers(r.out, id) \subseteq Answer
      BY <1>3 DEF Given
    <3>2. \A k \in 1 .. Len(N(id)) : N(id)[k] \in Answers(r.out, id)
      BY <1>3
    <3> QED BY <1>3, <3>1, <3>2
  <2> DEFINE a == R[id]
             b == N(id)
  <2>3. q[id] = a \o b
    OBVIOUS
  <2> HIDE DEF q, a, b
  <2>4. a \in Seq(Answer) /\ b \in Seq(Answer)
    BY <2>1, <2>2 DEF a, b
  <2>5. a \o b \in Seq(Answer) /\ Len(a \o b) = Len(a) + Len(b)
    BY <2>4
  <2>6. ASSUME NEW k \in 1 .. Len(a \o b)
        PROVE  Given(x, B, id, (a \o b)[k])
    <3>1. CASE k <= Len(a)
      <4>1. k \in 1 .. Len(a) /\ (a \o b)[k] = a[k]
        BY <2>4, <2>5, <2>6, <3>1
      <4> QED BY <2>1, <4>1 DEF a
    <3>2. CASE ~(k <= Len(a))
      <4>1. k - Len(a) \in 1 .. Len(b) /\ (a \o b)[k] = b[k - Len(a)]
        BY <2>4, <2>5, <2>6, <3>2
      <4> QED BY <2>2, <4>1 DEF b
    <3> QED BY <3>1, <3>2
  <2> QED BY <2>3, <2>5, <2>6
<1> HIDE DEF q
<1>5. DOMAIN q = Ids /\ q = [id \in Ids |-> q[id]]
  BY DEF q
<1>6. q \in [Ids -> Seq(Answer)]
  BY <1>4, <1>5
<1>7. RepliesGiven(x, B, q)
  BY <1>4, <1>6 DEF RepliesGiven
<1> QED BY <1>7 DEF Replied, q, N

-----------------------------------------------------------------------------
(* The cluster.                                                             *)

\* There is a chronicle, and an account of the reads confirmed, with which the
\* cluster owes nobody more than it can pay.
Accounted ==
  \E w : \E c :
    /\ w.node = node /\ w.mail = DOMAIN net /\ w.ballots = ballots
    /\ Books(w, c, asked) /\ RepliesGiven(w, asked, replies)

Unconfirmed == [t \in Nat |-> [v \in Server |-> 0]]

\* A node that has never run attends to requests.
LEMMA BlankAttends ==
  ASSUME StaticMembership, NEW i \in Server
  PROVE  Attends(i, Blank(i))
<1> DEFINE l == EmptyLog(EmptyState)
           f == Fresh(i, l)
<1>1. l \in StaticLog /\ l.first = 1 /\ l.snapTerm = 0 /\ l.ents = <<>>
      /\ l.commit = 0
  <2>1. EmptyState \in State
    BY EmptySeq DEF EmptyState, State, StateType, Cmd
  <2>2. l \in StaticLog
    BY <2>1, EmptyLogType
  <2>3. l.first = 1 /\ l.snapTerm = 0 /\ l.ents = <<>> /\ l.commit = 0
    BY DEF EmptyLog
  <2> QED BY <2>2, <2>3
<1> HIDE DEF l
<1>2. f.sm = EmptyState /\ f.role.forwarded = {}
  BY <1>1 DEF Fresh, Follower
<1>3. f \in StaticNode(i) /\ f.log = l /\ f.role.kind = "Follower"
  BY <1>1, FreshType
<1> HIDE DEF f
<1>4. MaybeApply(f).role = f.role
  <2>1. f.sm = Played(f.log.ents, 0)
    BY <1>2 DEF Played, EmptyState
  <2>2. f.log.first = 1 /\ f.log.snapTerm = 0 /\ 0 <= f.log.commit
        /\ f.log.commit <= Len(f.log.ents)
    BY <1>1, <1>3
  <2> QED BY <1>3, <2>1, <2>2, ApplySound
<1>5. Blank(i) = MaybeApply(f)
  BY DEF Blank, f, l
<1> QED BY <1>2, <1>4, <1>5, BlankIs, FS_EmptySet DEF Attends

\* A cluster that has never run owes nothing.
LEMMA BlankBooks ==
  ASSUME StaticMembership
  PROVE  Books(Blanks, Unconfirmed, [id \in Ids |-> Nil])
<1> DEFINE w == Blanks
           c == Unconfirmed
           A == [id \in Ids |-> Nil]
<1>1. Consistent(w)
  BY BlanksConsistent
<1>2. /\ \A v \in Server : w.node[v] = Blank(v)
      /\ w.mail = {} /\ w.reads = [t \in Nat |-> 0]
  BY DEF Blanks
<1>3. Counted(w, c)
  BY <1>2 DEF Counted, Unconfirmed
<1>4. ASSUME NEW v \in Server
      PROVE  Owing(v, c, w.node[v]) /\ Attested(w, c, A, v)
  <2>1. /\ w.node[v].role.kind = "Follower"
        /\ IsFiniteSet(w.node[v].role.forwarded)
    BY <1>2, <1>4, BlankAttends DEF Attends
  <2> QED BY <2>1 DEF Owing, Attested, Elective
<1>5. AskedSettled(w, A)
  BY DEF AskedSettled
<1> QED BY <1>1, <1>2, <1>3, <1>4, <1>5 DEF Books

LEMMA InitAccounted ==
  ASSUME SnapshotThreshold = 0, StaticMembership, Init
  PROVE  Accounted
<1> DEFINE A == [id \in Ids |-> Nil]
           R == [id \in Ids |-> <<>>]
           c == Unconfirmed
<1>1. asked = A /\ replies = R
  BY DEF Init
<1>2. ASSUME NEW x
      PROVE  RepliesGiven(x, A, R)
  <2>1. <<>> \in Seq(Answer) /\ Len(<<>>) = 0
    OBVIOUS
  <2>2. \A id \in Ids : R[id] = <<>>
    OBVIOUS
  <2>3. R \in [Ids -> Seq(Answer)]
    BY <2>1
  <2> QED BY <2>1, <2>2, <2>3 DEF RepliesGiven
<1>3. Books(Blanks, c, A)
  BY BlankBooks
<1>4. CASE node = Blanks.node /\ DOMAIN net = {} /\ ballots = {}
  <2>1. Blanks.mail = {} /\ Blanks.ballots = {}
    BY DEF Blanks
  <2> QED BY <1>1, <1>2, <1>3, <1>4, <2>1 DEF Accounted
<1>5. CASE \E i \in Server : \E x :
             /\ x.node = node /\ x.mail = DOMAIN net /\ x.ballots = ballots
             /\ Consistent(x) /\ Goes(Blanks, x, i, Started(Blank(i)), {})
  <2>1. PICK i \in Server : \E x :
             /\ x.node = node /\ x.mail = DOMAIN net /\ x.ballots = ballots
             /\ Consistent(x) /\ Goes(Blanks, x, i, Started(Blank(i)), {})
    BY <1>5
  <2>2. PICK x :
             /\ x.node = node /\ x.mail = DOMAIN net /\ x.ballots = ballots
             /\ Consistent(x) /\ Goes(Blanks, x, i, Started(Blank(i)), {})
    BY <2>1
  <2> DEFINE r == Started(Blank(i))
             d == Counting(x, c, i)
  <2>3. Blanks.node[i] = Blank(i)
    BY DEF Blanks
  <2>4. Attends(i, Blank(i)) /\ Sound(Blank(i))
        /\ Blank(i).role.kind # "Leader"
    BY BlankAttends, BlankIs
  <2>5. Fares(i, c, {}, Blank(i), r)
    BY <2>4, StartedFares
  <2> HIDE DEF r, A, c, d
  <2>6. Dealt(Blanks, x, i, r, {}, c)
    BY <1>3, <2>2, <2>3, <2>5 DEF Dealt, Books, r
  <2>7. AskedSettled(Blanks, A)
    BY <1>3 DEF Books
  <2>8. Books(x, d, A)
    BY <1>3, <2>6, <2>7, DealtBooks DEF d
  <2> QED BY <1>1, <1>2, <2>2, <2>8 DEF Accounted
<1> QED BY <1>4, <1>5, InitGoes

\* A leader is told of no more reads than were confirmed.
LEMMA MessageConfirms ==
  ASSUME NEW w, Consistent(w), NEW c, Counted(w, c), NEW A, NEW i \in Server,
         NEW m \in Mail(i), Honest(w, c, A, m)
  PROVE  Confirming(c, w.node[i], m)
<1> DEFINE n == w.node[i]
           t == n.log.term
           g == m.message
<1> SUFFICES ASSUME n.role.kind = "Leader", m.term = t
             PROVE  ConfirmsTo(c[t], n, m)
  BY DEF Confirming
<1>1. t \in Nat /\ n.role.read_seq = w.reads[t] /\ w.reads[t] \in Nat
  <2>1. t = TermOf(w, i)
    BY DEF TermOf
  <2>2. n.role.read_seq = w.reads[TermOf(w, i)]
    BY DEF Consistent, LeadersTrack
  <2> QED BY <2>1, <2>2, Parts DEF Consistent
<1>2. g \in StaticMessage /\ m.from \in Server
  BY DEF Mail
<1> HIDE DEF n, t
<1>3. c[t][m.from] <= w.reads[t] /\ c[t][m.from] \in Nat
  BY <1>1, <1>2 DEF Counted
<1>4. m.term = t
  BY DEF n, t
<1>5. g.type = "HeartbeatResponse" => g.read_seq <= c[t][m.from]
  BY <1>4 DEF Honest
<1>6. ASSUME g.type = "ReadResponse"
      PROVE  g.seq <= c[t][m.from] /\ g.seq <= n.role.read_seq
  <2>1. g.seq \in Nat
    BY <1>2, <1>6, SeqTypes
  <2>2. g.seq <= c[t][m.from]
    BY <1>4, <1>6 DEF Honest
  <2> QED BY <1>1, <1>3, <2>1, <2>2
<1> QED BY <1>5, <1>6 DEF ConfirmsTo

\* A request notes what was acknowledged by then, and once.
LEMMA AskedNext ==
  ASSUME Next, NEW w, AskedSettled(w, asked), RepliesGiven(w, asked, replies)
  PROVE  /\ AskedSettled(w, asked')
         /\ \A id \in Ids : asked[id] # Nil => asked'[id] = asked[id]
<1>1. CASE UNCHANGED asked
  BY <1>1
<1>2. CASE \E i \in Server, q \in Requests : Ask(i, q)
  <2>1. PICK q \in Requests : \E i \in Server : Ask(i, q)
    BY <1>2
  <2> DEFINE S == {v \in Ids : \E k \in 1 .. Len(replies[v]) :
                     replies[v][k].status = "Ok"}
  <2>2. asked[q.id] = Nil /\ asked' = [asked EXCEPT ![q.id] = S] /\ q.id \in Ids
    BY <2>1 DEF Ask, Ids
  <2>3. \A a \in S \cap Writes : Settled(w, a)
    BY DEF RepliesGiven, Given
  <2>4. S \in SUBSET Ids
    OBVIOUS
  <2> HIDE DEF S
  <2>5. asked \in [Ids -> (SUBSET Ids) \cup {Nil}]
        /\ \A id \in Ids : asked[id] # Nil =>
             \A a \in asked[id] \cap Writes : Settled(w, a)
    BY DEF AskedSettled
  <2>6. asked' \in [Ids -> (SUBSET Ids) \cup {Nil}]
    BY <2>2, <2>4, <2>5
  <2>7. \A id \in Ids : id # q.id => asked'[id] = asked[id]
    BY <2>2, <2>5
  <2>8. asked'[q.id] = S
    BY <2>2, <2>5
  <2>9. \A id \in Ids : asked'[id] # Nil =>
          \A a \in asked'[id] \cap Writes : Settled(w, a)
    BY <2>3, <2>5, <2>7, <2>8
  <2> QED BY <2>2, <2>6, <2>7, <2>9 DEF AskedSettled
<1>3. UNCHANGED asked \/ \E i \in Server, q \in Requests : Ask(i, q)
  BY DEF Next, Timeout, Tick, Receive, Restart
<1> QED BY <1>1, <1>2, <1>3

\* Every step of the cluster is a call that acts on what the chronicle grants
\* and pays for what it costs.
LEMMA NextFares ==
  ASSUME SnapshotThreshold = 0, StaticMembership, Inv, Next,
         NEW w, w.node = node, w.mail = DOMAIN net, NEW c, Books(w, c, asked),
         RepliesGiven(w, asked, replies)
  PROVE  \E i \in Server : \E r : \E bag : \E M :
           /\ DOMAIN bag \subseteq DOMAIN net
           /\ Update(i, r, bag)
           /\ Acts(i, w.held, w.log, M, node[i], r)
           /\ Fares(i, c, M, node[i], r)
           /\ \A m \in M : m \in Envelope /\ Honest(w, c, asked', m) /\ Claims(w, m)
<1> DEFINE G == w.held
           H == w.log
           Called(i, r, bag, M) ==
             /\ DOMAIN bag \subseteq DOMAIN net
             /\ Update(i, r, bag)
             /\ Acts(i, G, H, M, node[i], r)
             /\ Fares(i, c, M, node[i], r)
             /\ \A m \in M : m \in Envelope /\ Honest(w, c, asked', m) /\ Claims(w, m)
<1>0. Consistent(w) /\ Counted(w, c) /\ AskedSettled(w, asked)
  BY DEF Books
<1>1. /\ \A i \in Server : Histories(G, H) /\ Granting(i, G, node[i])
      /\ \A m \in DOMAIN net :
           m \in Envelope /\ Claims(w, m) /\ Honest(w, c, asked, m)
      /\ \A i \in Server : node[i] \in StaticNode(i) /\ Sound(node[i])
      /\ \A i \in Server : Owing(i, c, node[i])
      /\ DOMAIN net \subseteq DOMAIN net
      /\ c \in [Nat -> [Server -> Nat]]
  <2>1. \A i \in Server : Histories(G, H) /\ Granting(i, G, node[i])
    BY <1>0, Grants
  <2>2. w.mail \subseteq Envelope /\ \A m \in w.mail : Claims(w, m)
    BY <1>0 DEF Consistent, Chronicle, MailClaims
  <2>3. /\ \A m \in w.mail : Honest(w, c, asked, m)
        /\ \A i \in Server : Owing(i, c, node[i])
    BY DEF Books
  <2>4. c \in [Nat -> [Server -> Nat]]
    BY <1>0 DEF Counted
  <2> QED BY <2>1, <2>2, <2>3, <2>4 DEF Granting
<1>2. \A i \in Server : \A m \in Mail(i) :
        Claims(w, m) => Relies(G, H, node[i], m)
  BY <1>0, MessageRelied
<1>3. \A A : \A i \in Server : \A m \in Mail(i) :
        Honest(w, c, A, m) => Confirming(c, node[i], m)
  BY <1>0, MessageConfirms
<1>4. /\ AskedSettled(w, asked')
      /\ \A id \in Ids : asked[id] # Nil => asked'[id] = asked[id]
  BY <1>0, AskedNext
<1> HIDE DEF G, H
<1>5. ASSUME NEW i \in Server, Timeout(i)
      PROVE  Called(i, ElectionTick(node[i]), net, {})
  <2>1. Update(i, ElectionTick(node[i]), net) /\ node[i].role.kind # "Leader"
    BY <1>5 DEF Timeout
  <2>2. Acts(i, G, H, {}, node[i], ElectionTick(node[i]))
    BY <1>1, ElectionTickActs
  <2>3. Fares(i, c, {}, node[i], ElectionTick(node[i]))
    BY <1>1, <2>1, ElectionTickFares
  <2> QED BY <1>1, <2>1, <2>2, <2>3
<1>6. ASSUME NEW i \in Server, NEW due \in BOOLEAN, NEW heard, Tick(i, due, heard)
      PROVE  Called(i, LeaderTick(node[i], due, heard), net, {})
  <2>1. node[i].role.kind = "Leader" /\ Update(i, LeaderTick(node[i], due, heard), net)
    BY <1>6 DEF Tick
  <2>2. Acts(i, G, H, {}, node[i], LeaderTick(node[i], due, heard))
    BY <1>1, <2>1, LeaderTickActs
  <2>3. Fares(i, c, {}, node[i], LeaderTick(node[i], due, heard))
    BY <1>1, <2>1, LeaderTickFares
  <2> QED BY <1>1, <2>1, <2>2, <2>3
<1>7. ASSUME NEW m \in DOMAIN net, Receive(m)
      PROVE  /\ m.to \in Server
             /\ Called(m.to, Step(node[m.to], m), net (-) SetToBag({m}), {m})
  <2>1. m.to \in Server /\ m \in Mail(m.to) /\ m \in Envelope /\ Claims(w, m)
        /\ Honest(w, c, asked, m)
    BY <1>1 DEF Envelope, Mail
  <2>2. /\ node[m.to].role.kind # "Panicked"
        /\ Update(m.to, Step(node[m.to], m), net (-) SetToBag({m}))
        /\ asked' = asked
    BY <1>7 DEF Receive, Running, Apply
  <2>3. Relies(G, H, node[m.to], m) /\ Confirming(c, node[m.to], m)
    BY <1>2, <1>3, <2>1
  <2>4. Acts(m.to, G, H, {m}, node[m.to], Step(node[m.to], m))
    BY <1>1, <2>1, <2>2, <2>3, StepActs
  <2>5. Fares(m.to, c, {m}, node[m.to], Step(node[m.to], m))
    BY <1>1, <2>1, <2>2, <2>3, StepFares
  <2>6. DOMAIN (net (-) SetToBag({m})) \subseteq DOMAIN net
    BY RemoveType
  <2> QED BY <2>1, <2>2, <2>4, <2>5, <2>6
<1>8. ASSUME NEW i \in Server, NEW q \in Requests, Ask(i, q)
      PROVE  Called(i, Step(node[i], ClientEnv(i, q)), net, {ClientEnv(i, q)})
  <2> DEFINE msg == [type |-> "ClientRequest", request |-> q]
             m == ClientEnv(i, q)
  <2>1. msg \in StaticMessage /\ msg.type = "ClientRequest" /\ msg.request = q
    BY DEF StaticMessage
  <2>2. m = Env(node[i], i, msg)
    BY DEF ClientEnv
  <2>3. node[i].role.kind # "Panicked" /\ Update(i, Step(node[i], m), net)
    BY <1>8, ClusterAssumption DEF Ask
  <2>4. asked'[q.id] # Nil
    <3>1. q.id \in Ids /\ DOMAIN asked = Ids
      BY <1>0 DEF AskedSettled, Ids
    <3> DEFINE S == {v \in Ids : \E k \in 1 .. Len(replies[v]) :
                       replies[v][k].status = "Ok"}
    <3>2. asked' = [asked EXCEPT ![q.id] = S]
      BY <1>8 DEF Ask
    <3>3. asked'[q.id] = S
      BY <3>1, <3>2
    <3>4. S \in SUBSET Ids
      OBVIOUS
    <3> HIDE DEF S
    <3>5. S # Nil
      BY <3>4, AskedAssumption
    <3> QED BY <3>3, <3>5
  <2> HIDE DEF m, msg
  <2>5. m \in StaticEnv(i) /\ m.to = i /\ m.message = msg
    BY <1>1, <2>1, <2>2, EnvType
  <2>6. m \in Mail(i) /\ m \in Envelope
    BY <2>5 DEF Mail, StaticEnv, Envelope
  <2>7. Claims(w, m)
    BY <2>1, <2>5 DEF Claims
  <2>8. Honest(w, c, asked', m)
    BY <2>1, <2>4, <2>5 DEF Honest, OkTo
  <2>9. Relies(G, H, node[i], m) /\ Confirming(c, node[i], m)
    BY <1>2, <1>3, <2>6, <2>7, <2>8
  <2>10. Acts(i, G, H, {m}, node[i], Step(node[i], m))
    BY <1>1, <2>3, <2>6, <2>9, StepActs
  <2>11. Fares(i, c, {m}, node[i], Step(node[i], m))
    BY <1>1, <2>3, <2>6, <2>9, StepFares
  <2>12. Called(i, Step(node[i], m), net, {m})
    BY <1>1, <2>3, <2>6, <2>7, <2>8, <2>10, <2>11
  <2> HIDE DEF Called
  <2> QED BY <2>12 DEF m
<1>9. ASSUME NEW i \in Server, NEW b \in 0 .. node[i].log.commit, Restart(i, b)
      PROVE  Called(i, NewNode(i, Reopened(node[i].log, b)), net, {})
  <2>1. node[i].log.commit \in Nat
    BY <1>1, FieldTypes
  <2>2. b \in Nat /\ b <= node[i].log.commit
    BY <2>1
  <2>3. Update(i, NewNode(i, Reopened(node[i].log, b)), net)
    BY <1>9 DEF Restart
  <2>4. Acts(i, G, H, {}, node[i], NewNode(i, Reopened(node[i].log, b)))
    BY <1>1, <2>2, NewNodeActs
  <2>5. Fares(i, c, {}, node[i], NewNode(i, Reopened(node[i].log, b)))
    BY <1>1, <2>2, NewNodeFares
  <2> QED BY <1>1, <2>3, <2>4, <2>5
<1>10. \E i \in Server : \E r : \E bag : \E M : Called(i, r, bag, M)
  <2> HIDE DEF Called
  <2>1. CASE \E i \in Server : Timeout(i)
    BY <1>5, <2>1
  <2>2. CASE \E i \in Server, due \in BOOLEAN : \E heard \in SUBSET Peers(node[i]) :
               Tick(i, due, heard)
    BY <1>6, <2>2
  <2>3. CASE \E m \in DOMAIN net : Receive(m)
    BY <1>7, <2>3
  <2>4. CASE \E i \in Server, q \in Requests : Ask(i, q)
    BY <1>8, <2>4
  <2>5. CASE \E i \in Server : \E b \in 0 .. node[i].log.commit : Restart(i, b)
    BY <1>9, <2>5
  <2> QED BY <2>1, <2>2, <2>3, <2>4, <2>5 DEF Next
<1> QED BY <1>10 DEF G, H

\* The account goes on with every step.
LEMMA NextKeepsAccount ==
  ASSUME SnapshotThreshold = 0, StaticMembership, Inv, Accounted, Next
  PROVE  Accounted'
<1>1. PICK w : \E c :
        /\ w.node = node /\ w.mail = DOMAIN net /\ w.ballots = ballots
        /\ Books(w, c, asked) /\ RepliesGiven(w, asked, replies)
  BY DEF Accounted
<1>2. PICK c :
        /\ w.node = node /\ w.mail = DOMAIN net /\ w.ballots = ballots
        /\ Books(w, c, asked) /\ RepliesGiven(w, asked, replies)
  BY <1>1
<1> DEFINE Called(i, r, bag, M) ==
             /\ DOMAIN bag \subseteq DOMAIN net
             /\ Update(i, r, bag)
             /\ Acts(i, w.held, w.log, M, node[i], r)
             /\ Fares(i, c, M, node[i], r)
             /\ \A m \in M : m \in Envelope /\ Honest(w, c, asked', m) /\ Claims(w, m)
<1>3. \E i \in Server : \E r : \E bag : \E M : Called(i, r, bag, M)
  BY <1>2, NextFares
<1> HIDE DEF Called
<1>4. PICK i \in Server : \E r : \E bag : \E M : Called(i, r, bag, M)
  BY <1>3
<1>5. PICK r : \E bag : \E M : Called(i, r, bag, M)
  BY <1>4
<1>6. PICK bag : \E M : Called(i, r, bag, M)
  BY <1>5
<1>7. PICK M : Called(i, r, bag, M)
  BY <1>6
<1>8. /\ DOMAIN bag \subseteq DOMAIN net /\ Update(i, r, bag)
      /\ Acts(i, w.held, w.log, M, node[i], r) /\ Fares(i, c, M, node[i], r)
      /\ \A m \in M : m \in Envelope /\ Claims(w, m)
      /\ \A m \in M : m \in Envelope /\ Honest(w, c, asked', m) /\ Claims(w, m)
  BY <1>7 DEF Called
<1>9. Consistent(w) /\ Counted(w, c) /\ AskedSettled(w, asked)
  BY <1>2 DEF Books
<1>10. \E x : /\ x.node = node' /\ x.mail = DOMAIN net'
              /\ x.ballots = ballots' /\ Consistent(x) /\ Goes(w, x, i, r, M)
  BY <1>2, <1>8, <1>9, StepGoes
<1>11. PICK x : /\ x.node = node' /\ x.mail = DOMAIN net'
                /\ x.ballots = ballots' /\ Consistent(x) /\ Goes(w, x, i, r, M)
  BY <1>10
<1>12. Dealt(w, x, i, r, M, c)
  BY <1>2, <1>8, <1>9, <1>11 DEF Dealt
<1>13. /\ AskedSettled(w, asked')
       /\ \A id \in Ids : asked[id] # Nil => asked'[id] = asked[id]
  BY <1>2, <1>9, AskedNext
<1>14. replies' = [id \in Ids |-> replies[id] \o SetToSeq(Answers(r.out, id))]
  BY <1>8 DEF Update
<1>15. Books(x, Counting(x, c, i), asked')
  BY <1>2, <1>8, <1>12, <1>13, DealtBooks
<1>16. RepliesGiven(x, asked', replies')
  <2>1. RepliesGiven(x, asked', Replied(replies, r.out))
    BY <1>2, <1>8, <1>12, <1>13, DealtReplies
  <2> QED BY <1>14, <2>1 DEF Replied
<1> QED BY <1>11, <1>15, <1>16 DEF Accounted

\* THEOREM: Every reachable state has a chronicle that accounts for what its
\* clients were told, in a cluster whose membership does not change and that
\* takes no snapshots.
THEOREM AccountHolds ==
  StaticMembership /\ SnapshotThreshold = 0 /\ Spec => [](Inv /\ Accounted)
<1> SUFFICES ASSUME SnapshotThreshold = 0
             PROVE  StaticMembership /\ Spec => [](Inv /\ Accounted)
  OBVIOUS
<1> DEFINE Both == Inv /\ Accounted
<1>1. StaticMembership /\ Init => Both
  BY InitInv, InitAccounted
<1>2. Both /\ [Next]_vars => Both'
  <2> SUFFICES ASSUME Inv, Accounted, [Next]_vars
               PROVE  Inv' /\ Accounted'
    OBVIOUS
  <2>1. Inv'
    BY NextKeepsInv
  <2>2. StaticMembership
    BY DEF Inv
  <2>3. CASE Next
    BY <2>1, <2>2, <2>3, NextKeepsAccount
  <2>4. CASE UNCHANGED vars
    BY <2>1, <2>4 DEF Accounted, vars
  <2> QED BY <2>1, <2>3, <2>4
<1> QED BY <1>1, <1>2, PTL DEF Spec

-----------------------------------------------------------------------------
(* What follows for clients.                                               *)

\* Who vouched for what is settled holds it, and is a majority.
LEMMA SettledHeld ==
  ASSUME NEW w, Consistent(w), NEW a, Settled(w, a)
  PROVE  \E Q \in SUBSET Server :
           /\ Majority(Server, Q)
           /\ \A v \in Q : \E y \in 1 .. Len(Ents(w, v)) : Ents(w, v)[y].cmd = a
<1>1. /\ Chronicle(w) /\ HoldersKeep(w)
      /\ \A v \in Server : Len(Ents(w, v)) \in Nat
  BY Parts DEF Consistent
<1>2. PICK s \in Nat : SettledIn(w, s, a)
  BY DEF Settled
<1>3. PICK k \in Nat : \E y \in 1 .. k :
        Own(w, k, s) /\ Chosen(w, k, s) /\ LogOf(w, s)[y].cmd = a
  BY <1>2 DEF SettledIn
<1>4. PICK y \in 1 .. k :
        Own(w, k, s) /\ Chosen(w, k, s) /\ LogOf(w, s)[y].cmd = a
  BY <1>3
<1>5. ~Blocked(w, k, s)
  BY <1>1, <1>4, ChosenNotBlocked
<1>6. PICK Q \in SUBSET Server : /\ Majority(Server, Q)
                                 /\ \A v \in Q : Held(w, s, v) >= k
  BY <1>4 DEF Chosen
<1>7. ASSUME NEW v \in Q
      PROVE  \E z \in 1 .. Len(Ents(w, v)) : Ents(w, v)[z].cmd = a
  <2>1. SameTo(Ents(w, v), LogOf(w, s), k)
    BY <1>1, <1>4, <1>5, <1>6 DEF HoldersKeep
  <2>2. Ents(w, v)[y] = LogOf(w, s)[y]
    BY <2>1, SameAt
  <2>3. k <= Len(Ents(w, v))
    BY <2>1 DEF SameTo
  <2>4. y \in 1 .. Len(Ents(w, v))
    BY <1>1, <1>6, <2>3
  <2> QED BY <1>4, <2>2, <2>4
<1> QED BY <1>6, <1>7

\* More than a majority is one.
LEMMA MajorityMore ==
  ASSUME NEW Q, NEW H, Q \subseteq H, Majority(Server, Q)
  PROVE  Majority(Server, H)
<1>1. IsFiniteSet(Server) /\ Server \cap Q \subseteq Server \cap H
  BY NodeAssumption
<1>2. IsFiniteSet(Server \cap H) /\ Cardinality(Server) \in Nat
  BY <1>1, FS_Subset, FS_CardinalityType
<1>3. /\ IsFiniteSet(Server \cap Q)
      /\ Cardinality(Server \cap Q) <= Cardinality(Server \cap H)
  BY <1>1, <1>2, FS_Subset
<1>4. Cardinality(Server \cap Q) \in Nat /\ Cardinality(Server \cap H) \in Nat
  BY <1>2, <1>3, FS_CardinalityType
<1>5. Cardinality(Server \cap Q) >= Cardinality(Server) \div 2 + 1
  BY DEF Majority
<1>6. Cardinality(Server \cap H) >= Cardinality(Server) \div 2 + 1
  BY <1>2, <1>3, <1>4, <1>5
<1> QED BY <1>6 DEF Majority

\* A majority has a member.
LEMMA MajoritySome ==
  ASSUME NEW Q, Majority(Server, Q)
  PROVE  Server # {}
<1>1. Cardinality(Server \cap Q) >= Cardinality(Server) \div 2 + 1
  BY DEF Majority
<1>2. CASE Server = {}
  <2>1. Cardinality(Server) = 0 /\ Cardinality(Server \cap Q) = 0
    BY <1>2, FS_EmptySet
  <2> QED BY <1>1, <2>1
<1> QED BY <1>2

LEMMA AccountedSafe ==
  ASSUME Inv, Accounted
  PROVE  AcknowledgedDurable /\ ReadsLinearizable /\ ClientsTyped
<1>1. PICK w : \E c :
        /\ w.node = node /\ w.mail = DOMAIN net /\ w.ballots = ballots
        /\ Books(w, c, asked) /\ RepliesGiven(w, asked, replies)
  BY DEF Accounted
<1>2. Consistent(w) /\ AskedSettled(w, asked)
  BY <1>1 DEF Books
<1>3. /\ replies \in [Ids -> Seq(Answer)]
      /\ \A id \in Ids : \A k \in 1 .. Len(replies[id]) :
           Given(w, asked, id, replies[id][k])
  BY <1>1 DEF RepliesGiven
<1>4. Reads \subseteq Ids /\ Writes \subseteq Ids
  BY DEF Reads, Writes, Ids
<1>5. ASSUME NEW id \in Writes, Succeeded(id)
      PROVE  \E i \in Server : HasQuorum(node[i].mem.active,
               {j \in Server :
                  \/ \E k \in 1 .. Len(node[j].log.ents) :
                       node[j].log.ents[k].cmd = id
                  \/ \E k \in 1 .. Len(node[j].log.snap.data) :
                       node[j].log.snap.data[k] = id})
  <2> DEFINE H == {j \in Server :
                     \/ \E k \in 1 .. Len(node[j].log.ents) :
                          node[j].log.ents[k].cmd = id
                     \/ \E k \in 1 .. Len(node[j].log.snap.data) :
                          node[j].log.snap.data[k] = id}
  <2>1. Settled(w, id)
    BY <1>3, <1>4, <1>5 DEF Succeeded, Given
  <2>2. PICK Q \in SUBSET Server :
          /\ Majority(Server, Q)
          /\ \A v \in Q : \E y \in 1 .. Len(Ents(w, v)) : Ents(w, v)[y].cmd = id
    BY <1>2, <2>1, SettledHeld
  <2>3. Q \subseteq H
    BY <1>1, <2>2 DEF Ents
  <2> HIDE DEF H
  <2>4. Majority(Server, H)
    BY <2>2, <2>3, MajorityMore
  <2>5. PICK i : i \in Server
    BY <2>2, MajoritySome
  <2>6. HasQuorum(node[i].mem.active, H)
    <3>1. node[i] \in StaticNode(i)
      BY <2>5 DEF Inv, NodesStatic
    <3> QED BY <2>4, <2>5, <3>1, PeersOf
  <2> QED BY <2>5, <2>6 DEF H
<1>6. AcknowledgedDurable
  BY <1>5 DEF AcknowledgedDurable
<1>7. ReadsLinearizable
  <2>1. ASSUME NEW id \in Reads, NEW k \in 1 .. Len(replies[id]),
               replies[id][k].status = "Ok"
        PROVE  asked[id] \cap Writes \subseteq
                 {replies[id][k].data[x] : x \in 1 .. Len(replies[id][k].data)}
    BY <1>3, <1>4, <2>1 DEF Given, Shown
  <2> QED BY <2>1 DEF ReadsLinearizable
<1>8. ClientsTyped
  BY <1>2, <1>3 DEF ClientsTyped, AskedSettled, Answer, Cmd
<1> QED BY <1>6, <1>7, <1>8

\* THEOREM: A write that was acknowledged is stored by a majority for good,
\* across elections and restarts, in a cluster of any size whose membership
\* does not change and that takes no snapshots: what the commit rule, the
\* answers of maybe_commit_and_apply and their forwarding by followers keep.
THEOREM WholeAcknowledgedDurable ==
  StaticMembership /\ SnapshotThreshold = 0 /\ Spec => []AcknowledgedDurable
<1>1. Inv /\ Accounted => AcknowledgedDurable
  BY AccountedSafe
<1> QED BY <1>1, AccountHolds, PTL

\* THEOREM: ... a read sees every write that was acknowledged to any client
\* before the read was asked, whichever node was asked and whoever leads: what
\* the read confirmations and the check of the commit's term in maybe_read are
\* for.
THEOREM WholeReadsLinearizable ==
  StaticMembership /\ SnapshotThreshold = 0 /\ Spec => []ReadsLinearizable
<1>1. Inv /\ Accounted => ReadsLinearizable
  BY AccountedSafe
<1> QED BY <1>1, AccountHolds, PTL

\* THEOREM: ... the nodes, the messages, what clients asked and were told and
\* the history are of their types.
THEOREM WholeTypeOK ==
  StaticMembership /\ SnapshotThreshold = 0 /\ Spec => []TypeOK
<1>1. Inv /\ Accounted => ClientsTyped
  BY AccountedSafe
<1>2. NodesTyped /\ NetTyped /\ HistoryTyped /\ ClientsTyped => TypeOK
  BY DEF TypeOK
<1> QED BY <1>1, <1>2, AccountHolds, StaticTypes, PTL

=============================================================================
