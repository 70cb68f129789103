---------------------------- MODULE SessionProofs ----------------------------
(***************************************************************************)
(* What SessionClients promises, for any number of puts, requests sent,    *)
(* replicas, faults and snapshots.                                         *)
(***************************************************************************)
EXTENDS SessionClients, NumberProofs

EntryTypes == [id : Cli \cup {Nil}, seq : Nat, cmd : Cli \cup {Nil}]

SessionTypes == [seq : Nat, resp : Nat]

StateTypes == [applied : Nat, data : Seq(Cli),
               sessions : [Cli -> SessionTypes \cup {Nil}]]

CliTypes ==
  [pc : {"idle", "loaded", "saving", "ready", "waiting", "failed", "done",
         "killed"},
   id : Cli \cup {Nil}, seq : Nat, attempt : Nat, resp : Nat]

\* The parts of the invariant.  Every variable but the bounds has its type.
Typed ==
  /\ file \in [id : Cli, last : Nat] \cup {Nil}
  /\ cli \in [Cli -> CliTypes]
  /\ net \subseteq [cli : Cli, attempt : Nat, entry : EntryTypes]
  /\ log \in Seq(EntryTypes)
  /\ sm \in [Replica -> StateTypes]
  /\ waiting \in [Replica -> SUBSET [index : Nat, cli : Cli]]
  /\ DOMAIN snap = Replica
  /\ raced \in BOOLEAN

Sent(p) == cli[p].attempt > 0

\* A process that has been through the file has an id, which is that of a
\* process that has; one that has sent something is through.
Stages ==
  /\ \A p \in Cli :
       /\ cli[p].pc # "idle" => cli[p].id \in Cli
       /\ cli[p].pc = "idle" => cli[p].id = Nil
       /\ cli[p].id \in Cli => cli[cli[p].id].pc # "idle"
       /\ Sent(p) => cli[p].pc \in {"waiting", "failed", "done"}
       /\ cli[p].pc = "waiting" => Sent(p)
  /\ file # Nil => cli[file.id].pc # "idle"

\* Entry e is the put of process p.
PutOf(p, e) ==
  /\ p \in Cli
  /\ Sent(p)
  /\ cli[p].id \in Cli
  /\ e = [id |-> cli[p].id, seq |-> cli[p].seq, cmd |-> p]

Traced ==
  /\ \A m \in net : PutOf(m.cli, m.entry)
  /\ \A k \in 1 .. Len(log) :
       log[k].cmd # Nil => PutOf(log[k].cmd, log[k])
  /\ \A r \in Replica : \A w \in waiting[r] :
       /\ w.index \in 1 .. Len(log)
       /\ log[w.index].cmd = w.cli

\* The number taken is saved or about to be, or the put was never sent.
Saved(p) == cli[p].pc = "ready" \/ Sent(p)

Numbered ==
  ~raced =>
    /\ \A p, q \in Cli : InFile(p) /\ InFile(q) => p = q
    /\ \A p \in Cli :
         Saved(p) /\ file # Nil /\ cli[p].id = file.id =>
           cli[p].seq <= file.last
    /\ \A p, q \in Cli :
         InFile(p) /\ Saved(q) /\ cli[p].id = cli[q].id =>
           cli[q].seq < cli[p].seq
    /\ \A p, q \in Cli :
         Saved(p) /\ Saved(q) /\ cli[p].id = cli[q].id
         /\ cli[p].seq = cli[q].seq => p = q

\* The states of a replica that never stops, on log l: StateAfter, for a log
\* that need not be the current one.
After(f, l, k) ==
  IF k = 0 THEN NewState ELSE SessionApply(f[k - 1], k, l[k]).state

RunOn(l) == CHOOSE f : f = [k \in 0 .. Len(l) |-> After(f, l, k)]

\* What the puts that took effect in state s and its sessions tell of each
\* other, when c are the processes.
Ordered(c, s) ==
  /\ \A i \in 1 .. Len(s.data) :
       /\ c[s.data[i]].attempt > 0
       /\ c[s.data[i]].id \in Cli
       /\ s.sessions[c[s.data[i]].id] # Nil
       /\ c[s.data[i]].seq <= s.sessions[c[s.data[i]].id].seq
  /\ \A i, j \in 1 .. Len(s.data) :
       i < j /\ c[s.data[i]].id = c[s.data[j]].id =>
         c[s.data[i]].seq < c[s.data[j]].seq

\* A response cached in state s is the index, in l, of the entry that took
\* effect.
Cached(l, s, k) ==
  \A c \in Cli : s.sessions[c] # Nil =>
    LET n == s.sessions[c].resp
    IN /\ n \in 1 .. k
       /\ l[n].cmd # Nil
       /\ l[n].id = c
       /\ l[n].seq = s.sessions[c].seq
       /\ RunOn(l)[n].data # RunOn(l)[n - 1].data

Lawful ==
  \A k \in 0 .. Len(log) :
    /\ StateAfter[k] \in StateTypes
    /\ StateAfter[k].applied = k
    /\ Ordered(cli, StateAfter[k])
    /\ Cached(log, StateAfter[k], k)

\* State s was reached by the log.
Reached(s) == s.applied \in 0 .. Len(log) /\ s = StateAfter[s.applied]

Replicas ==
  \A r \in Replica :
    /\ Reached(sm[r])
    /\ snap[r] # Nil => \E s \in StateTypes : Reached(s) /\ snap[r] = Snapshot(s)

IInv == Typed /\ Stages /\ Traced /\ Numbered /\ Lawful /\ Replicas
             /\ AcknowledgedEffective

-----------------------------------------------------------------------------
(* The replica that never stops.                                           *)

LEMMA RunExists ==
  ASSUME NEW S, NEW l \in Seq(S)
  PROVE  RunOn(l) = [k \in 0 .. Len(l) |-> After(RunOn(l), l, k)]
<1> DEFINE Upto(f, n) == f = [k \in 0 .. n |-> After(f, l, k)]
           T == {n \in Nat : \E f : Upto(f, n)}
<1>1. 0 \in T
  <2> DEFINE f == [k \in 0 .. 0 |-> NewState]
  <2>1. f = [k \in 0 .. 0 |-> After(f, l, k)]
    BY DEF After
  <2> QED BY <2>1
<1>2. \A n \in T : n + 1 \in T
  <2> TAKE n \in T
  <2>1. PICK f : Upto(f, n)
    OBVIOUS
  <2> DEFINE g == [k \in 0 .. n + 1 |->
                     IF k <= n THEN f[k] ELSE SessionApply(f[n], n + 1, l[n + 1]).state]
  <2>2. n \in Nat
    OBVIOUS
  <2>7. \A k \in 0 .. n : f[k] = After(f, l, k)
    BY <2>1
  <2>3. \A k \in 0 .. n : g[k] = f[k]
    BY <2>2
  <2>4. \A k \in 0 .. n + 1 : g[k] = After(g, l, k)
    <3> TAKE k \in 0 .. n + 1
    <3>1. CASE k <= n
      <4>1. f[k] = After(f, l, k)
        BY <2>7, <2>2, <3>1
      <4>2. k # 0 => g[k - 1] = f[k - 1]
        BY <2>2, <2>3, <3>1
      <4> QED BY <2>2, <2>3, <3>1, <4>1, <4>2 DEF After
    <3>2. CASE ~(k <= n)
      <4>1. k = n + 1 /\ k # 0 /\ k - 1 = n /\ n \in 0 .. n
        BY <2>2, <3>2
      <4>2. g[k] = SessionApply(f[n], n + 1, l[n + 1]).state
        BY <2>2, <3>2, <4>1
      <4>3. g[k - 1] = f[n]
        BY <2>3, <4>1
      <4> HIDE DEF g
      <4> QED BY <4>1, <4>2, <4>3 DEF After
    <3> QED BY <3>1, <3>2
  <2>5. g = [k \in 0 .. n + 1 |-> After(g, l, k)]
    <3>1. g = [k \in 0 .. n + 1 |-> g[k]]
      OBVIOUS
    <3> HIDE DEF g
    <3> QED BY <2>4, <3>1
  <2>6. \E h : Upto(h, n + 1)
    BY <2>5
  <2> QED BY <2>2, <2>6
<1>3. T \in SUBSET Nat
  OBVIOUS
<1>4. Len(l) \in T
  <2> HIDE DEF T
  <2>1. \A n \in Nat : n \in T
    BY <1>1, <1>2, <1>3, SetInduction
  <2> QED BY <2>1
<1>5. \E f : Upto(f, Len(l))
  BY <1>4
<1> QED BY <1>5, Zenon DEF RunOn

\* Its states are determined by the log, prefix by prefix.
LEMMA RunUnfolds ==
  ASSUME NEW S, NEW l \in Seq(S)
  PROVE  /\ RunOn(l)[0] = NewState
         /\ \A k \in 1 .. Len(l) :
              RunOn(l)[k] = SessionApply(RunOn(l)[k - 1], k, l[k]).state
<1> DEFINE f == RunOn(l)
<1>1. f = [k \in 0 .. Len(l) |-> After(f, l, k)] /\ Len(l) \in Nat
  BY RunExists
<1> HIDE DEF f
<1>2. \A k \in 0 .. Len(l) : f[k] = After(f, l, k)
  BY <1>1
<1>3. f[0] = NewState
  BY <1>1, <1>2 DEF After
<1>4. ASSUME NEW k \in 1 .. Len(l)
      PROVE  f[k] = SessionApply(f[k - 1], k, l[k]).state
  <2>1. k \in 0 .. Len(l) /\ k # 0
    BY <1>1
  <2> QED BY <1>2, <2>1 DEF After
<1> QED BY <1>3, <1>4 DEF f

LEMMA RunExtends ==
  ASSUME NEW S, NEW l \in Seq(S), NEW e \in S
  PROVE  LET g == RunOn(Append(l, e))
         IN /\ \A k \in 0 .. Len(l) : g[k] = RunOn(l)[k]
            /\ g[Len(l) + 1] =
                 SessionApply(RunOn(l)[Len(l)], Len(l) + 1, e).state
<1> DEFINE f == RunOn(l)
           m == Append(l, e)
           g == RunOn(m)
           n == Len(l)
           T == {k \in Nat : k <= n => g[k] = f[k]}
<1>1. /\ m \in Seq(S) /\ n \in Nat /\ Len(m) = n + 1
      /\ m[n + 1] = e /\ \A k \in 1 .. n : m[k] = l[k]
  OBVIOUS
<1>2. /\ f[0] = NewState
      /\ \A k \in 1 .. n : f[k] = SessionApply(f[k - 1], k, l[k]).state
  BY RunUnfolds
<1>3. /\ g[0] = NewState
      /\ \A k \in 1 .. Len(m) : g[k] = SessionApply(g[k - 1], k, m[k]).state
  <2> HIDE DEF m
  <2> QED BY <1>1, RunUnfolds
<1> HIDE DEF f, g, m, n
<1>4. 0 \in T
  BY <1>2, <1>3
<1>5. \A k \in T : k + 1 \in T
  <2> TAKE k \in T
  <2>1. k \in Nat /\ (k <= n => g[k] = f[k])
    OBVIOUS
  <2>2. CASE k + 1 <= n
    <3>1. k + 1 \in 1 .. n /\ k + 1 \in 1 .. Len(m) /\ (k + 1) - 1 = k /\ g[k] = f[k]
      BY <1>1, <2>1, <2>2
    <3>2. /\ g[k + 1] = SessionApply(g[(k + 1) - 1], k + 1, m[k + 1]).state
          /\ f[k + 1] = SessionApply(f[(k + 1) - 1], k + 1, l[k + 1]).state
          /\ m[k + 1] = l[k + 1]
      BY <1>1, <1>2, <1>3, <3>1
    <3> QED BY <2>1, <3>1, <3>2
  <2> QED BY <2>1, <2>2
<1>6. \A k \in Nat : k \in T
  <2>1. T \in SUBSET Nat
    OBVIOUS
  <2> HIDE DEF T
  <2> QED BY <1>4, <1>5, <2>1, SetInduction
<1>7. \A k \in 0 .. n : g[k] = f[k]
  BY <1>1, <1>6
<1>8. g[n + 1] = SessionApply(f[n], n + 1, e).state
  <2>1. n + 1 \in 1 .. Len(m) /\ (n + 1) - 1 = n /\ n \in 0 .. n
    BY <1>1
  <2>2. g[n + 1] = SessionApply(g[(n + 1) - 1], n + 1, m[n + 1]).state
    BY <1>3, <2>1
  <2> QED BY <1>1, <1>7, <2>1, <2>2
<1> QED BY <1>7, <1>8 DEF f, g, m, n

\* StateAfter is the run on the current log.
LEMMA StateAfterRun == StateAfter = RunOn(log)
BY DEF StateAfter, RunOn, After

-----------------------------------------------------------------------------
(* One entry applied.                                                      *)

\* An entry the log can hold: one without a command or one with an id.
Whole(e) == e \in EntryTypes /\ (e.cmd # Nil => e.id \in Cli)

\* Entry e, applied to s as the k-th, takes effect: its number is above the
\* last one of its client.
TakesEffect(s, k, e, r) ==
  /\ e.cmd # Nil
  /\ s.sessions[e.id] # Nil => s.sessions[e.id].seq < e.seq
  /\ r.state = [applied |-> k, data |-> Append(s.data, e.cmd),
                sessions |-> [s.sessions EXCEPT ![e.id] =
                                [seq |-> e.seq, resp |-> k]]]
  /\ r.resp = k

\* It takes none, and what is answered comes from the cache or is no answer.
Skipped(s, k, e, r) ==
  /\ r.state = [applied |-> k, data |-> s.data, sessions |-> s.sessions]
  /\ \/ r.resp = NoBytes
     \/ /\ e.cmd # Nil
        /\ s.sessions[e.id] # Nil
        /\ e.seq = s.sessions[e.id].seq
        /\ r.resp = s.sessions[e.id].resp

LEMMA ApplyCases ==
  ASSUME NEW s \in StateTypes, NEW k \in Nat, NEW e, Whole(e)
  PROVE  LET r == SessionApply(s, k, e)
         IN TakesEffect(s, k, e, r) \/ Skipped(s, k, e, r)
<1> DEFINE r == SessionApply(s, k, e)
           last == s.sessions[e.id]
<1>1. s = [applied |-> s.applied, data |-> s.data, sessions |-> s.sessions]
  BY DEF StateTypes
<1>2. /\ KvApply(s, k, Nil).state =
            [applied |-> k, data |-> s.data, sessions |-> s.sessions]
      /\ KvApply(s, k, Nil).resp = NoBytes
  BY <1>1 DEF KvApply, Result
<1>3. e.cmd # Nil =>
        /\ KvApply(s, k, e.cmd).state =
             [applied |-> k, data |-> Append(s.data, e.cmd),
              sessions |-> s.sessions]
        /\ KvApply(s, k, e.cmd).resp = k
  BY <1>1 DEF KvApply, Result
<1>4. e.cmd # Nil => e.id # Nil /\ e.id \in Cli
  BY SessionAssumption DEF Whole
<1>5. CASE e.cmd = Nil
  BY <1>2, <1>5 DEF SessionApply, Skipped
<1>6. CASE e.cmd # Nil /\ last # Nil /\ e.seq = last.seq
  BY <1>2, <1>4, <1>6 DEF SessionApply, Skipped, Result
<1>7. CASE e.cmd # Nil /\ last # Nil /\ e.seq < last.seq
  BY <1>2, <1>4, <1>7 DEF SessionApply, Skipped, Result
<1>8. CASE e.cmd # Nil /\ ~(last # Nil /\ e.seq = last.seq)
                       /\ ~(last # Nil /\ e.seq < last.seq)
  <2>1. last # Nil => last.seq < e.seq
    <3>1. last # Nil => last.seq \in Nat
      BY <1>4, <1>8 DEF StateTypes, SessionTypes
    <3>2. e.seq \in Nat
      BY DEF Whole, EntryTypes
    <3> QED BY <1>8, <3>1, <3>2
  <2>2. r = Result([KvApply(s, k, e.cmd).state EXCEPT !.sessions[e.id] =
                      [seq |-> e.seq, resp |-> k]], k)
    BY <1>3, <1>4, <1>8 DEF SessionApply
  <2> DEFINE run == KvApply(s, k, e.cmd).state
             kept == [seq |-> e.seq, resp |-> k]
  <2>3. r.resp = k /\ r.state = [run EXCEPT !.sessions[e.id] = kept]
    BY <2>2 DEF Result
  <2>4. r.state = [applied |-> k, data |-> Append(s.data, e.cmd),
                   sessions |-> [s.sessions EXCEPT ![e.id] = kept]]
    <3>1. run = [applied |-> k, data |-> Append(s.data, e.cmd),
                 sessions |-> s.sessions]
      BY <1>3, <1>8
    <3> HIDE DEF run, kept, r
    <3> QED BY <2>3, <3>1
  <2> QED BY <1>8, <2>1, <2>3, <2>4 DEF TakesEffect
<1> QED BY <1>5, <1>6, <1>7, <1>8

LEMMA ApplyType ==
  ASSUME NEW s \in StateTypes, NEW k \in Nat, NEW e, Whole(e)
  PROVE  LET r == SessionApply(s, k, e)
         IN /\ r.state \in StateTypes
            /\ r.state.applied = k
            /\ r.resp \in Nat
<1> DEFINE r == SessionApply(s, k, e)
<1>1. /\ s.data \in Seq(Cli)
      /\ s.sessions \in [Cli -> SessionTypes \cup {Nil}]
  BY DEF StateTypes
<1>2. CASE TakesEffect(s, k, e, r)
  <2>1. e.cmd \in Cli /\ e.id \in Cli /\ e.seq \in Nat
    BY <1>2 DEF TakesEffect, Whole, EntryTypes
  <2>2. Append(s.data, e.cmd) \in Seq(Cli)
    BY <1>1, <2>1
  <2>3. [s.sessions EXCEPT ![e.id] = [seq |-> e.seq, resp |-> k]]
          \in [Cli -> SessionTypes \cup {Nil}]
    BY <1>1, <2>1 DEF SessionTypes
  <2> QED BY <1>2, <2>2, <2>3 DEF TakesEffect, StateTypes
<1>3. CASE Skipped(s, k, e, r)
  <2>1. r.state \in StateTypes /\ r.state.applied = k
    BY <1>1, <1>3 DEF Skipped, StateTypes
  <2>2. e.cmd # Nil => e.id \in Cli
    BY DEF Whole
  <2>3. r.resp \in Nat
    BY <1>1, <1>3, <2>2 DEF Skipped, SessionTypes, NoBytes
  <2> QED BY <2>1, <2>3
<1> QED BY <1>2, <1>3, ApplyCases

LEMMA NewStateType == NewState \in StateTypes /\ NewState.applied = 0
BY SessionAssumption DEF NewState, StateTypes

\* A state comes back from its snapshot as it was.
LEMMA RestoreSnapshot ==
  ASSUME NEW s \in StateTypes
  PROVE  /\ Restore(Snapshot(s), Snapshot(s).applied) = s
         /\ Snapshot(s).applied = s.applied
<1> DEFINE t == Snapshot(s)
           u == Restore(t, t.applied)
<1>1. /\ s.applied \in Nat
      /\ s.sessions \in [Cli -> SessionTypes \cup {Nil}]
      /\ s = [applied |-> s.applied, data |-> s.data, sessions |-> s.sessions]
  BY DEF StateTypes
<1>2. /\ t.applied = s.applied /\ t.data = s.data
      /\ t.sessions = {[id |-> c, last |-> s.sessions[c]] :
                         c \in {k \in Cli : s.sessions[k] # Nil}}
  BY SessionAssumption DEF Snapshot
<1> HIDE DEF t
<1>3. u = [applied |-> s.applied, data |-> s.data,
           sessions |-> [c \in Cli |->
             IF \E x \in t.sessions : x.id = c
               THEN (CHOOSE x \in t.sessions : x.id = c).last
               ELSE Nil]]
  BY <1>1, <1>2, SessionAssumption DEF Restore
<1>4. ASSUME NEW c \in Cli
      PROVE  (IF \E x \in t.sessions : x.id = c
                THEN (CHOOSE x \in t.sessions : x.id = c).last
                ELSE Nil) = s.sessions[c]
  <2>1. CASE s.sessions[c] = Nil
    <3>1. ~ \E x \in t.sessions : x.id = c
      BY <1>2, <2>1
    <3> QED BY <2>1, <3>1
  <2>2. CASE s.sessions[c] # Nil
    <3> DEFINE x0 == [id |-> c, last |-> s.sessions[c]]
    <3>1. x0 \in t.sessions /\ x0.id = c
      BY <1>2, <2>2
    <3>2. \A x \in t.sessions : x.id = c => x = x0
      BY <1>2
    <3>3. (CHOOSE x \in t.sessions : x.id = c) = x0
      BY <3>1, <3>2
    <3> HIDE DEF x0
    <3>4. x0.last = s.sessions[c]
      BY DEF x0
    <3> QED BY <3>1, <3>3, <3>4, Zenon
  <2> QED BY <2>1, <2>2
<1>5. u.sessions = s.sessions
  BY <1>1, <1>3, <1>4
<1> QED BY <1>1, <1>2, <1>3, <1>5 DEF t

-----------------------------------------------------------------------------
(* Types, and what a process goes through.                                 *)

LEMMA FileIds == \A x \in [id : Cli, last : Nat] : x # Nil
BY SessionAssumption

LEMMA PutFields ==
  ASSUME NEW p, NEW e, PutOf(p, e)
  PROVE  /\ p \in Cli /\ cli[p].id \in Cli /\ Sent(p)
         /\ e.id = cli[p].id /\ e.seq = cli[p].seq /\ e.cmd = p
BY DEF PutOf

\* The next entry a replica applies is one the log can hold.
LEMMA NextEntry ==
  ASSUME Typed, Traced, NEW r \in Replica, sm[r].applied < Len(log)
  PROVE  /\ sm[r] \in StateTypes
         /\ sm[r].applied + 1 \in 1 .. Len(log)
         /\ Whole(log[sm[r].applied + 1])
<1>1. sm[r] \in StateTypes /\ sm[r].applied \in Nat
  BY DEF Typed, StateTypes
<1> DEFINE k == sm[r].applied + 1
<1>2. k \in 1 .. Len(log) /\ log[k] \in EntryTypes
  BY <1>1 DEF Typed
<1> HIDE DEF k
<1>3. log[k].cmd # Nil => log[k].id \in Cli
  <2> SUFFICES ASSUME log[k].cmd # Nil
               PROVE  log[k].id \in Cli
    OBVIOUS
  <2>1. PutOf(log[k].cmd, log[k])
    BY <1>2 DEF Traced
  <2>2. log[k].id = cli[log[k].cmd].id
    BY <2>1, PutFields
  <2> QED BY <2>1, <2>2 DEF PutOf
<1> QED BY <1>1, <1>2, <1>3 DEF k, Whole

\* What a replica is restored to is a state it, or another one, was in.
LEMMA Restored ==
  ASSUME Replicas, NEW q \in Replica, snap[q] # Nil
  PROVE  \E s \in StateTypes :
           /\ Reached(s)
           /\ snap[q] = Snapshot(s)
           /\ Restore(snap[q], snap[q].applied) = s
BY RestoreSnapshot DEF Replicas

LEMMA NextTyped ==
  Typed /\ Stages /\ Traced /\ Replicas /\ [Next]_vars => Typed'
<1> SUFFICES ASSUME Typed, Stages, Traced, Replicas, [Next]_vars
             PROVE  Typed'
  OBVIOUS
<1> USE DEF Typed
<1>1. ASSUME NEW p \in Cli, Load(p)
      PROVE  Typed'
  <2> DEFINE t == IF file = Nil THEN [id |-> p, last |-> 0] ELSE file
  <2>1. t \in [id : Cli, last : Nat]
    OBVIOUS
  <2>2. /\ cli' = [cli EXCEPT ![p].pc = "loaded", ![p].id = t.id,
                              ![p].seq = t.last + 1]
        /\ raced' = (raced \/ \E q \in Cli : InFile(q))
        /\ UNCHANGED <<file, net, log, sm, waiting, snap>>
    BY <1>1 DEF Load, cluster
  <2> HIDE DEF t
  <2>3. cli' \in [Cli -> CliTypes]
    <3>1. [cli[p] EXCEPT !.pc = "loaded", !.id = t.id, !.seq = t.last + 1]
            \in CliTypes
      <4>1. cli[p] \in CliTypes /\ t.id \in Cli /\ t.last + 1 \in Nat
        BY <2>1
      <4> QED BY <4>1 DEF CliTypes
    <3> QED BY <2>2, <3>1
  <2>4. raced' \in BOOLEAN
    BY <2>2
  <2> QED BY <2>2, <2>3, <2>4
<1>2. ASSUME NEW p \in Cli, Truncate(p) \/ Save(p) \/ GiveUp(p) \/ Kill(p)
      PROVE  Typed'
  <2>1. \E c \in {"saving", "ready", "failed", "killed"} :
          cli' = [cli EXCEPT ![p].pc = c]
    BY <1>2 DEF Truncate, Save, GiveUp, Kill
  <2>2. cli' \in [Cli -> CliTypes]
    <3>1. \A c \in {"saving", "ready", "failed", "killed"} :
            [cli[p] EXCEPT !.pc = c] \in CliTypes
      BY DEF CliTypes
    <3> QED BY <2>1, <3>1
  <2>3. file' \in [id : Cli, last : Nat] \cup {Nil}
    <3>1. CASE Save(p)
      <4>1. file' = [id |-> cli[p].id, last |-> cli[p].seq]
        BY <3>1 DEF Save
      <4>2. cli[p].id \in Cli /\ cli[p].seq \in Nat
        BY <3>1 DEF Save, Stages, CliTypes
      <4> QED BY <4>1, <4>2
    <3> QED BY <1>2, <3>1 DEF Truncate, GiveUp, Kill
  <2>4. UNCHANGED <<net, log, sm, snap, raced>>
    BY <1>2 DEF Truncate, Save, GiveUp, Kill, cluster
  <2>5. waiting' \in [Replica -> SUBSET [index : Nat, cli : Cli]]
    BY <1>2 DEF Truncate, Save, GiveUp, Kill, cluster, Hangup
  <2> QED BY <2>2, <2>3, <2>4, <2>5
<1>3. ASSUME NEW p \in Cli, Send(p)
      PROVE  Typed'
  <2>1. cli' \in [Cli -> CliTypes]
    BY <1>3 DEF Send, CliTypes
  <2>2. waiting' \in [Replica -> SUBSET [index : Nat, cli : Cli]]
    BY <1>3 DEF Send, Hangup
  <2>3. net' \subseteq [cli : Cli, attempt : Nat, entry : EntryTypes]
    BY <1>3 DEF Send, CliTypes, EntryTypes
  <2> QED BY <1>3, <2>1, <2>2, <2>3 DEF Send
<1>4. ASSUME NEW r \in Replica, NEW m \in net, Commit(r, m)
      PROVE  Typed'
  <2>1. m.entry \in EntryTypes /\ m.cli \in Cli
    OBVIOUS
  <2>2. log' \in Seq(EntryTypes)
    BY <1>4, <2>1 DEF Commit
  <2>3. waiting' \in [Replica -> SUBSET [index : Nat, cli : Cli]]
    BY <1>4, <2>1 DEF Commit
  <2> QED BY <1>4, <2>2, <2>3 DEF Commit
<1>5. ASSUME Noop
      PROVE  Typed'
  <2>1. [id |-> Nil, seq |-> 0, cmd |-> Nil] \in EntryTypes
    BY DEF EntryTypes
  <2> QED BY <1>5, <2>1 DEF Noop
<1>6. ASSUME NEW r \in Replica, Apply(r)
      PROVE  Typed'
  <2> DEFINE index == sm[r].applied + 1
             res == SessionApply(sm[r], index, log[index])
             mine == {w \in waiting[r] : w.index = index}
  <2>1. /\ sm' = [sm EXCEPT ![r] = res.state]
        /\ waiting' = [waiting EXCEPT ![r] = @ \ mine]
        /\ cli' = [p \in Cli |-> IF \E w \in mine : w.cli = p
                                   THEN Answered(cli[p], res.resp) ELSE cli[p]]
        /\ UNCHANGED <<file, net, log, snap, raced>>
    BY <1>6 DEF Apply
  <2>2. res.state \in StateTypes /\ res.resp \in Nat
    BY <1>6, NextEntry, ApplyType DEF Apply
  <2> HIDE DEF res, mine
  <2>3. \A p \in Cli : Answered(cli[p], res.resp) \in CliTypes
    <3> SUFFICES ASSUME NEW p \in Cli
                 PROVE  Answered(cli[p], res.resp) \in CliTypes
      OBVIOUS
    <3> DEFINE c == cli[p]
    <3>1. c \in CliTypes
      BY DEF Typed
    <3> HIDE DEF c
    <3>2. Answered(c, res.resp) \in CliTypes
      BY <2>2, <3>1 DEF CliTypes, Answered
    <3> QED BY <3>2 DEF c
  <2>4. cli' \in [Cli -> CliTypes]
    BY <2>1, <2>3
  <2>5. waiting' \in [Replica -> SUBSET [index : Nat, cli : Cli]]
    BY <2>1
  <2>6. sm' \in [Replica -> StateTypes]
    BY <2>1, <2>2
  <2> QED BY <2>1, <2>4, <2>5, <2>6
<1>7. ASSUME NEW r \in Replica, TakeSnapshot(r)
      PROVE  Typed'
  BY <1>7 DEF TakeSnapshot
<1>8. ASSUME NEW r \in Replica, NEW q \in Replica, Install(r, q)
      PROVE  Typed'
  <2>1. Restore(snap[q], snap[q].applied) \in StateTypes
    BY <1>8, Restored DEF Install
  <2> QED BY <1>8, <2>1 DEF Install
<1>9. ASSUME NEW r \in Replica, Restart(r)
      PROVE  Typed'
  <2>1. snap[r] # Nil => Restore(snap[r], snap[r].applied) \in StateTypes
    BY Restored
  <2> QED BY <1>9, <2>1, NewStateType DEF Restart
<1>10. CASE UNCHANGED vars
  BY <1>10 DEF vars, cluster
<1> QED BY <1>1, <1>2, <1>3, <1>4, <1>5, <1>6, <1>7, <1>8, <1>9, <1>10
        DEF Next

\* An answer goes to a process that has sent its put.
LEMMA Waits ==
  ASSUME Typed, Traced, NEW r \in Replica, NEW w \in waiting[r]
  PROVE  w.cli \in Cli /\ Sent(w.cli) /\ PutOf(w.cli, log[w.index])
<1>1. /\ w.index \in 1 .. Len(log) /\ log[w.index].cmd = w.cli
      /\ w.cli \in Cli
  BY DEF Traced, Typed
<1>2. w.cli # Nil
  BY <1>1, SessionAssumption
<1>3. PutOf(w.cli, log[w.index])
  BY <1>1, <1>2 DEF Traced
<1> QED BY <1>1, <1>3, PutFields

\* Only Load gives a process its id and number; nothing makes it idle again.
OnlyMovesOn ==
  \A p \in Cli :
    /\ cli'[p].id = cli[p].id
    /\ cli'[p].seq = cli[p].seq
    /\ cli[p].attempt > 0 => cli'[p].attempt > 0
    /\ cli'[p].pc = "idle" <=> cli[p].pc = "idle"
    /\ cli'[p].attempt > 0 =>
         \/ cli'[p].pc \in {"waiting", "failed", "done"}
         \/ cli'[p].pc = cli[p].pc /\ cli[p].attempt > 0
    /\ cli'[p].pc = "waiting" => cli[p].pc = "waiting" \/ cli'[p].attempt > 0

LEMMA NextMovesOn ==
  ASSUME Typed, Stages, Traced, [Next]_vars
  PROVE  (\E p \in Cli : Load(p)) \/ OnlyMovesOn
<1> USE DEF Typed, OnlyMovesOn
<1>0. \A p \in Cli : /\ cli[p].attempt \in Nat
                     /\ Sent(p) => cli[p].pc \in {"waiting", "failed", "done"}
  BY DEF CliTypes, Stages
<1>2. ASSUME NEW p \in Cli, Truncate(p) \/ Save(p) \/ Kill(p)
      PROVE  OnlyMovesOn
  <2>1. /\ cli[p].pc \in {"loaded", "saving", "ready"}
        /\ \E c \in {"saving", "ready", "killed"} :
             cli' = [cli EXCEPT ![p].pc = c]
    BY <1>2 DEF Truncate, Save, Kill
  <2>2. ~Sent(p)
    BY <1>0, <2>1
  <2> QED BY <1>0, <2>1, <2>2 DEF Sent
<1>3. ASSUME NEW p \in Cli, Send(p)
      PROVE  OnlyMovesOn
  BY <1>0, <1>3 DEF Send
<1>4. ASSUME NEW p \in Cli, GiveUp(p)
      PROVE  OnlyMovesOn
  BY <1>0, <1>4 DEF GiveUp
<1>5. ASSUME NEW r \in Replica, Apply(r)
      PROVE  OnlyMovesOn
  <2> DEFINE index == sm[r].applied + 1
             res == SessionApply(sm[r], index, log[index])
             mine == {w \in waiting[r] : w.index = index}
  <2>1. cli' = [p \in Cli |-> IF \E w \in mine : w.cli = p
                                THEN Answered(cli[p], res.resp) ELSE cli[p]]
    BY <1>5 DEF Apply
  <2>2. \A w \in mine : Sent(w.cli)
    BY Waits
  <2> HIDE DEF mine, res
  <2>3. ASSUME NEW p \in Cli, NEW w \in mine, w.cli = p
        PROVE  /\ cli'[p].pc \in {"failed", "done"} /\ cli[p].pc # "idle"
               /\ cli'[p].id = cli[p].id /\ cli'[p].seq = cli[p].seq
               /\ cli'[p].attempt = cli[p].attempt
    <3>1. cli'[p] = Answered(cli[p], res.resp)
      BY <2>1, <2>3
    <3>2. cli[p].pc # "idle"
      BY <1>0, <2>2, <2>3
    <3>3. cli[p] \in CliTypes
      OBVIOUS
    <3> QED BY <3>1, <3>2, <3>3 DEF Answered, CliTypes
  <2>4. ASSUME NEW p \in Cli, ~ \E w \in mine : w.cli = p
        PROVE  cli'[p] = cli[p]
    BY <2>1, <2>4
  <2> QED BY <1>0, <2>3, <2>4 DEF Sent
<1>6. CASE UNCHANGED cli
  BY <1>0, <1>6
<1> QED BY <1>2, <1>3, <1>4, <1>5, <1>6
        DEF Next, vars, cluster, Commit, Noop, TakeSnapshot, Install, Restart

\* A put that was sent keeps its id and number.
SentStays ==
  \A p \in Cli :
    Sent(p) => Sent(p)' /\ cli'[p].id = cli[p].id /\ cli'[p].seq = cli[p].seq

LEMMA NextSentStays ==
  ASSUME Typed, Stages, Traced, [Next]_vars
  PROVE  SentStays
<1>0. \A p \in Cli : /\ cli[p].attempt \in Nat
                     /\ Sent(p) => cli[p].pc # "idle"
  BY DEF Typed, CliTypes, Stages
<1>1. ASSUME NEW p \in Cli, Load(p)
      PROVE  SentStays
  <2>1. ~Sent(p)
    BY <1>0, <1>1 DEF Load
  <2>2. \A q \in Cli : q # p => cli'[q] = cli[q]
    BY <1>1 DEF Load, Typed
  <2> QED BY <2>1, <2>2 DEF SentStays, Sent
<1>2. CASE OnlyMovesOn
  BY <1>2 DEF SentStays, Sent, OnlyMovesOn
<1> QED BY <1>1, <1>2, NextMovesOn

LEMMA NextStages ==
  ASSUME Typed, Stages, Traced, [Next]_vars
  PROVE  Stages'
<1>0. \A p \in Cli : cli[p].attempt \in Nat
  BY DEF Typed, CliTypes
<1>1. ASSUME NEW p \in Cli, Load(p)
      PROVE  Stages'
  <2> DEFINE t == IF file = Nil THEN [id |-> p, last |-> 0] ELSE file
  <2>1. /\ cli[p].pc = "idle" /\ file' = file
        /\ cli' = [cli EXCEPT ![p].pc = "loaded", ![p].id = t.id,
                              ![p].seq = t.last + 1]
    BY <1>1 DEF Load
  <2>2. t.id \in Cli /\ (t.id = p \/ (t.id # p /\ cli[t.id].pc # "idle"))
    BY <2>1 DEF Stages, Typed
  <2>3. file # Nil => file.id \in Cli /\ file.id # p
    BY <2>1 DEF Stages, Typed
  <2> HIDE DEF t
  <2>4. /\ cli'[p].pc = "loaded" /\ cli'[p].id = t.id
        /\ cli'[p].attempt = cli[p].attempt
        /\ \A q \in Cli : q # p => cli'[q] = cli[q]
    BY <2>1 DEF Typed
  <2>5. ~Sent(p)
    BY <2>1 DEF Stages
  <2>6. ASSUME NEW q \in Cli
        PROVE  /\ cli'[q].pc # "idle" => cli'[q].id \in Cli
               /\ cli'[q].pc = "idle" => cli'[q].id = Nil
               /\ cli'[q].id \in Cli => cli'[cli'[q].id].pc # "idle"
               /\ cli'[q].attempt > 0 =>
                    cli'[q].pc \in {"waiting", "failed", "done"}
               /\ cli'[q].pc = "waiting" => cli'[q].attempt > 0
    <3>1. CASE q = p
      BY <2>2, <2>4, <2>5, <3>1 DEF Stages, Sent
    <3>2. CASE q # p
      <4>1. cli'[q] = cli[q]
        BY <2>4, <3>2
      <4>2. cli[q].id \in Cli => cli'[cli[q].id].pc # "idle"
        <5>1. cli[q].id \in Cli => cli[cli[q].id].pc # "idle"
          BY DEF Stages
        <5> QED BY <2>4, <5>1
      <4> QED BY <4>1, <4>2 DEF Stages, Sent
    <3> QED BY <3>1, <3>2
  <2>7. file' # Nil => cli'[file'.id].pc # "idle"
    BY <2>1, <2>3, <2>4 DEF Stages
  <2> QED BY <2>6, <2>7 DEF Stages, Sent
<1>2. ASSUME OnlyMovesOn
      PROVE  Stages'
  <2>1. file' # Nil => file'.id \in Cli /\ cli[file'.id].pc # "idle"
    <3>1. ASSUME NEW p \in Cli, Save(p)
          PROVE  file' # Nil => file'.id \in Cli /\ cli[file'.id].pc # "idle"
      BY <3>1 DEF Save, Stages
    <3>2. file' = file \/ file' = Nil \/ \E p \in Cli : Save(p) \/ Load(p)
      BY DEF Next, vars, cluster, Truncate, Send, GiveUp, Kill, Commit, Noop,
             Apply, TakeSnapshot, Install, Restart
    <3>3. \A p \in Cli : Load(p) => file' = file
      BY DEF Load
    <3>4. file # Nil => file.id \in Cli /\ cli[file.id].pc # "idle"
      BY DEF Stages, Typed
    <3> QED BY <3>1, <3>2, <3>3, <3>4
  <2> QED BY <1>0, <1>2, <2>1 DEF Stages, Sent, OnlyMovesOn
<1> QED BY <1>1, <1>2, NextMovesOn

-----------------------------------------------------------------------------
(* The log, and where its entries come from.                               *)

\* PutOf in the next state.
PutThen(p, e) ==
  /\ p \in Cli
  /\ cli'[p].attempt > 0
  /\ cli'[p].id \in Cli
  /\ e = [id |-> cli'[p].id, seq |-> cli'[p].seq, cmd |-> p]

LEMMA PutStays ==
  ASSUME SentStays, NEW p, NEW e, PutOf(p, e)
  PROVE  PutThen(p, e)
BY DEF SentStays, Sent, PutOf, PutThen

LogGrows ==
  \/ log' = log
  \/ \E e \in EntryTypes : /\ log' = Append(log, e)
                           /\ e.cmd # Nil => PutOf(e.cmd, e)

LEMMA NextLogGrows ==
  ASSUME Typed, Traced, [Next]_vars
  PROVE  LogGrows
<1>1. ASSUME NEW r \in Replica, NEW m \in net, Commit(r, m)
      PROVE  LogGrows
  <2>1. m.entry \in EntryTypes
    BY DEF Typed
  <2>2. PutOf(m.entry.cmd, m.entry)
    <3>1. PutOf(m.cli, m.entry)
      BY DEF Traced
    <3> QED BY <3>1, PutFields
  <2> QED BY <1>1, <2>1, <2>2 DEF Commit, LogGrows
<1>2. ASSUME Noop
      PROVE  LogGrows
  <2> DEFINE e == [id |-> Nil, seq |-> 0, cmd |-> Nil]
  <2>1. e \in EntryTypes /\ e.cmd = Nil
    BY DEF EntryTypes
  <2> QED BY <1>2, <2>1 DEF Noop, LogGrows
<1>3. CASE UNCHANGED log
  BY <1>3 DEF LogGrows
<1> QED BY <1>1, <1>2, <1>3
        DEF Next, vars, cluster, Load, Truncate, Save, Send, GiveUp, Kill, Apply,
            TakeSnapshot, Install, Restart

LEMMA GrownEntry ==
  ASSUME Typed, NEW e \in EntryTypes, log' = Append(log, e)
  PROVE  /\ Len(log) \in Nat
         /\ Len(log') = Len(log) + 1
         /\ log'[Len(log) + 1] = e
         /\ \A k \in 1 .. Len(log) : log'[k] = log[k]
BY DEF Typed

LEMMA NextTraced ==
  ASSUME Typed, Stages, Traced, [Next]_vars
  PROVE  Traced'
<1>1. SentStays
  BY NextSentStays
<1>2. \A m \in net' : PutThen(m.cli, m.entry)
  <2>1. ASSUME NEW p \in Cli, Send(p)
        PROVE  \A m \in net' : PutThen(m.cli, m.entry)
    <3> DEFINE e == [id |-> cli[p].id, seq |-> cli[p].seq, cmd |-> p]
               m == [cli |-> p, attempt |-> cli[p].attempt + 1, entry |-> e]
    <3>1. net' = net \cup {m}
      BY <2>1 DEF Send
    <3>2. cli[p].attempt \in Nat /\ cli[p].id \in Cli
      BY <2>1 DEF Send, Typed, CliTypes, Stages
    <3>3. /\ cli'[p].id = cli[p].id /\ cli'[p].seq = cli[p].seq
          /\ cli'[p].attempt = cli[p].attempt + 1
      BY <2>1 DEF Send, Typed
    <3>4. PutThen(p, e)
      BY <3>2, <3>3 DEF PutThen, Typed
    <3>5. m.cli = p /\ m.entry = e
      OBVIOUS
    <3> HIDE DEF m, e
    <3> QED BY <1>1, <3>1, <3>4, <3>5, PutStays DEF Traced
  <2>2. CASE net' \subseteq net
    BY <1>1, <2>2, PutStays DEF Traced
  <2> QED BY <2>1, <2>2
          DEF Next, vars, cluster, Load, Truncate, Save, GiveUp, Kill, Commit,
              Noop, Apply, TakeSnapshot, Install, Restart
<1>3. \A k \in 1 .. Len(log') :
        log'[k].cmd # Nil => PutThen(log'[k].cmd, log'[k])
  <2>1. CASE log' = log
    BY <1>1, <2>1, PutStays DEF Traced
  <2>2. ASSUME NEW e \in EntryTypes, log' = Append(log, e),
               e.cmd # Nil => PutOf(e.cmd, e)
        PROVE  \A k \in 1 .. Len(log') :
                 log'[k].cmd # Nil => PutThen(log'[k].cmd, log'[k])
    <3> TAKE k \in 1 .. Len(log')
    <3>1. CASE k \in 1 .. Len(log)
      BY <1>1, <2>2, <3>1, GrownEntry, PutStays DEF Traced
    <3>2. CASE k = Len(log) + 1
      BY <1>1, <2>2, <3>2, GrownEntry, PutStays
    <3> QED BY <2>2, <3>1, <3>2, GrownEntry
  <2> QED BY <2>1, <2>2, NextLogGrows DEF LogGrows
<1>4. \A r \in Replica : \A w \in waiting'[r] :
        w.index \in 1 .. Len(log') /\ log'[w.index].cmd = w.cli
  <2>1. ASSUME NEW r \in Replica, NEW w \in waiting[r]
        PROVE  w.index \in 1 .. Len(log') /\ log'[w.index].cmd = w.cli
    <3>1. w.index \in 1 .. Len(log) /\ log[w.index].cmd = w.cli
      BY DEF Traced
    <3> QED BY <3>1, NextLogGrows, GrownEntry DEF LogGrows
  <2>2. CASE \A r \in Replica : waiting'[r] \subseteq waiting[r]
    BY <2>1, <2>2
  <2>3. ASSUME NEW r \in Replica, NEW m \in net, Commit(r, m)
        PROVE  \A q \in Replica : \A w \in waiting'[q] :
                 w.index \in 1 .. Len(log') /\ log'[w.index].cmd = w.cli
    <3>1. /\ log' = Append(log, m.entry) /\ m.entry \in EntryTypes
          /\ m.entry.cmd = m.cli
      <4>1. PutOf(m.cli, m.entry)
        BY DEF Traced
      <4> QED BY <2>3, <4>1, PutFields DEF Commit, Typed
    <3>2. \A q \in Replica : \A w \in waiting'[q] :
            w \in waiting[q] \/ (w.index = Len(log) + 1 /\ w.cli = m.cli)
      BY <2>3 DEF Commit, Typed
    <3>3. ASSUME NEW w, w.index = Len(log) + 1, w.cli = m.cli
          PROVE  w.index \in 1 .. Len(log') /\ log'[w.index].cmd = w.cli
      BY <3>1, <3>3, GrownEntry
    <3> QED BY <2>1, <3>2, <3>3
  <2>4. \A p \in Cli : Send(p) \/ GiveUp(p) =>
          \A r \in Replica : waiting'[r] \subseteq waiting[r]
    BY DEF Send, GiveUp, Hangup
  <2>5. \A r \in Replica : Apply(r) \/ Restart(r) =>
          \A q \in Replica : waiting'[q] \subseteq waiting[q]
    BY DEF Apply, Restart, Typed
  <2>6. waiting' = waiting => \A r \in Replica : waiting'[r] \subseteq waiting[r]
    OBVIOUS
  <2> QED BY <2>2, <2>3, <2>4, <2>5, <2>6
          DEF Next, vars, cluster, Load, Truncate, Save, Kill, Noop, TakeSnapshot,
              Install
<1> QED BY <1>2, <1>3, <1>4 DEF Traced, PutOf, PutThen, Sent

-----------------------------------------------------------------------------
(* The states the log leads through.                                       *)

LEMMA OrderedStays ==
  ASSUME Typed, SentStays, NEW s \in StateTypes, Ordered(cli, s)
  PROVE  Ordered(cli', s)
<1>1. \A i \in 1 .. Len(s.data) : s.data[i] \in Cli
  BY DEF StateTypes
<1>2. \A i \in 1 .. Len(s.data) :
        LET p == s.data[i]
        IN cli'[p].attempt > 0 /\ cli'[p].id = cli[p].id
                               /\ cli'[p].seq = cli[p].seq
  BY <1>1 DEF Ordered, SentStays, Sent
<1> QED BY <1>2 DEF Ordered

LEMMA OrderedApply ==
  ASSUME Typed, NEW s \in StateTypes, Ordered(cli, s), NEW k \in Nat,
         NEW e \in EntryTypes, e.cmd # Nil => PutOf(e.cmd, e)
  PROVE  Ordered(cli, SessionApply(s, k, e).state)
<1> DEFINE r == SessionApply(s, k, e)
           t == r.state
<1>1. Whole(e)
  BY PutFields DEF Whole
<1>2. CASE Skipped(s, k, e, r)
  <2>1. t.data = s.data /\ t.sessions = s.sessions
    BY <1>2 DEF Skipped
  <2> QED BY <2>1 DEF Ordered
<1>3. CASE TakesEffect(s, k, e, r)
  <2> DEFINE n == Len(s.data)
             new == [seq |-> e.seq, resp |-> k]
             p == e.cmd
  <2>1. /\ p \in Cli /\ cli[p].id \in Cli /\ cli[p].attempt > 0
        /\ e.id = cli[p].id /\ e.seq = cli[p].seq
    BY <1>3, PutFields DEF TakesEffect, Sent
  <2>2. /\ t.data = Append(s.data, p)
        /\ t.sessions = [s.sessions EXCEPT ![e.id] = new]
        /\ s.sessions[e.id] # Nil => s.sessions[e.id].seq < e.seq
    BY <1>3 DEF TakesEffect
  <2>3. /\ s.data \in Seq(Cli) /\ e.seq \in Nat /\ new # Nil /\ new.seq = e.seq
        /\ s.sessions \in [Cli -> SessionTypes \cup {Nil}]
    BY SessionAssumption DEF StateTypes, EntryTypes
  <2> HIDE DEF t, new, r
  <2>4. /\ n \in Nat /\ Len(t.data) = n + 1 /\ t.data[n + 1] = p
        /\ \A i \in 1 .. n : t.data[i] = s.data[i] /\ s.data[i] \in Cli
    BY <2>1, <2>2, <2>3
  <2>5. t.sessions[e.id] = new /\ \A c \in Cli : c # e.id => t.sessions[c] = s.sessions[c]
    BY <2>1, <2>2, <2>3
  <2>6. ASSUME NEW i \in 1 .. n
        PROVE  /\ cli[s.data[i]].attempt > 0 /\ cli[s.data[i]].id \in Cli
               /\ cli[s.data[i]].seq \in Nat
               /\ s.sessions[cli[s.data[i]].id] # Nil
               /\ s.sessions[cli[s.data[i]].id].seq \in Nat
               /\ cli[s.data[i]].seq <= s.sessions[cli[s.data[i]].id].seq
               /\ cli[s.data[i]].id = e.id => cli[s.data[i]].seq < e.seq
    <3>1. /\ cli[s.data[i]].attempt > 0 /\ cli[s.data[i]].id \in Cli
          /\ s.sessions[cli[s.data[i]].id] # Nil
          /\ cli[s.data[i]].seq <= s.sessions[cli[s.data[i]].id].seq
      BY DEF Ordered
    <3>2. cli[s.data[i]].seq \in Nat
      BY <2>4 DEF Typed, CliTypes
    <3>3. s.sessions[cli[s.data[i]].id].seq \in Nat
      BY <2>3, <3>1 DEF SessionTypes
    <3>4. cli[s.data[i]].id = e.id => cli[s.data[i]].seq < e.seq
      BY <2>2, <2>3, <3>1, <3>2, <3>3
    <3> QED BY <3>1, <3>2, <3>3, <3>4
  <2>7. ASSUME NEW i \in 1 .. n + 1
        PROVE  /\ cli[t.data[i]].attempt > 0 /\ cli[t.data[i]].id \in Cli
               /\ t.sessions[cli[t.data[i]].id] # Nil
               /\ cli[t.data[i]].seq <= t.sessions[cli[t.data[i]].id].seq
    <3>1. CASE i \in 1 .. n
      <4> DEFINE q == s.data[i]
      <4>1. t.data[i] = q
        BY <2>4, <3>1
      <4>2. CASE cli[q].id = e.id
        <5>1. cli[q].seq <= new.seq
          BY <2>3, <2>6, <3>1, <4>2
        <5>2. /\ cli[q].attempt > 0 /\ cli[q].id \in Cli
              /\ t.sessions[cli[q].id] = new /\ new # Nil
          BY <2>3, <2>5, <2>6, <3>1, <4>2
        <5> HIDE DEF q
        <5> QED BY <4>1, <5>1, <5>2
      <4>3. CASE cli[q].id # e.id
        BY <2>5, <2>6, <3>1, <4>1, <4>3
      <4> QED BY <4>2, <4>3
    <3>2. CASE i = n + 1
      <4>1. t.data[i] = p /\ cli[p].id = e.id /\ cli[p].seq = new.seq
        BY <2>1, <2>3, <2>4, <3>2
      <4>2. cli[p].attempt > 0 /\ cli[p].id \in Cli /\ cli[p].seq \in Nat
        BY <2>1, <2>3
      <4>3. t.sessions[cli[p].id] = new /\ new # Nil
        BY <2>3, <2>5, <4>1
      <4> QED BY <2>3, <4>1, <4>2, <4>3
    <3> QED BY <2>4, <3>1, <3>2
  <2>8. ASSUME NEW i \in 1 .. n + 1, NEW j \in 1 .. n + 1, i < j,
               cli[t.data[i]].id = cli[t.data[j]].id
        PROVE  cli[t.data[i]].seq < cli[t.data[j]].seq
    <3>1. i \in 1 .. n
      BY <2>4, <2>8
    <3>2. CASE j \in 1 .. n
      BY <2>4, <2>8, <3>1, <3>2 DEF Ordered
    <3>3. CASE j = n + 1
      <4>1. t.data[i] = s.data[i] /\ t.data[j] = p
        BY <2>4, <3>1, <3>3
      <4>2. cli[s.data[i]].id = e.id
        BY <2>1, <2>8, <4>1
      <4> QED BY <2>1, <2>6, <3>1, <4>1, <4>2
    <3> QED BY <2>4, <3>2, <3>3
  <2>9. Ordered(cli, t)
    <3> HIDE DEF n
    <3> QED BY <2>4, <2>7, <2>8 DEF Ordered
  <2> QED BY <2>9 DEF t, r
<1> QED BY <1>1, <1>2, <1>3, ApplyCases

LEMMA CachedApply ==
  ASSUME NEW l \in Seq(EntryTypes), NEW e \in EntryTypes, Whole(e),
         NEW s \in StateTypes, s = RunOn(l)[Len(l)], Cached(l, s, Len(l))
  PROVE  LET k == Len(l) + 1
         IN Cached(Append(l, e), SessionApply(s, k, e).state, k)
<1> DEFINE k == Len(l) + 1
           r == SessionApply(s, k, e)
           t == r.state
           m == Append(l, e)
<1>1. /\ Len(l) \in Nat /\ k \in Nat /\ m[k] = e
      /\ \A n \in 1 .. Len(l) : m[n] = l[n]
  OBVIOUS
<1>7. k - 1 = Len(l) /\ Len(l) \in 0 .. Len(l)
  <2> SUFFICES ASSUME NEW n \in Nat
               PROVE  (n + 1) - 1 = n /\ n \in 0 .. n
    BY <1>1
  <2> QED OBVIOUS
<1>2. /\ \A n \in 0 .. Len(l) : RunOn(m)[n] = RunOn(l)[n]
      /\ RunOn(m)[k] = t
  BY RunExtends
<1>3. TakesEffect(s, k, e, r) \/ Skipped(s, k, e, r)
  BY <1>1, ApplyCases
<1> HIDE DEF r, m
<1>4. ASSUME NEW c \in Cli, s.sessions[c] # Nil
      PROVE  LET n == s.sessions[c].resp
             IN /\ n \in 1 .. k
                /\ m[n].cmd # Nil
                /\ m[n].id = c
                /\ m[n].seq = s.sessions[c].seq
                /\ RunOn(m)[n].data # RunOn(m)[n - 1].data
  <2> DEFINE n == s.sessions[c].resp
  <2>1. /\ n \in 1 .. Len(l)
        /\ l[n].cmd # Nil
        /\ l[n].id = c
        /\ l[n].seq = s.sessions[c].seq
        /\ RunOn(l)[n].data # RunOn(l)[n - 1].data
    BY <1>4 DEF Cached
  <2> HIDE DEF n
  <2>2. n \in 0 .. Len(l) /\ n - 1 \in 0 .. Len(l) /\ n \in 1 .. k
    BY <1>1, <2>1
  <2>3. RunOn(m)[n] = RunOn(l)[n] /\ RunOn(m)[n - 1] = RunOn(l)[n - 1]
    BY <1>2, <2>2
  <2> QED BY <1>1, <2>1, <2>2, <2>3 DEF n
<1>5. CASE Skipped(s, k, e, r)
  <2>1. t.sessions = s.sessions
    BY <1>5 DEF Skipped
  <2>2. Cached(m, t, k)
    <3> HIDE DEF t, k
    <3>1. ASSUME NEW c \in Cli, t.sessions[c] # Nil
          PROVE  LET n == t.sessions[c].resp
                 IN /\ n \in 1 .. k /\ m[n].cmd # Nil /\ m[n].id = c
                    /\ m[n].seq = t.sessions[c].seq
                    /\ RunOn(m)[n].data # RunOn(m)[n - 1].data
      <4> DEFINE n == s.sessions[c].resp
      <4>1. t.sessions[c] = s.sessions[c]
        BY <2>1
      <4>2. s.sessions[c] # Nil
        BY <3>1, <4>1
      <4>3. /\ n \in 1 .. k /\ m[n].cmd # Nil /\ m[n].id = c
            /\ m[n].seq = s.sessions[c].seq
            /\ RunOn(m)[n].data # RunOn(m)[n - 1].data
        BY <1>4, <4>2
      <4> HIDE DEF n
      <4> QED BY <4>1, <4>3 DEF n
    <3> QED BY <3>1 DEF Cached
  <2> QED BY <2>2 DEF r, m
<1>6. CASE TakesEffect(s, k, e, r)
  <2> DEFINE new == [seq |-> e.seq, resp |-> k]
  <2>1. /\ e.cmd \in Cli /\ e.id \in Cli /\ e.cmd # Nil
    BY <1>6 DEF TakesEffect, Whole, EntryTypes
  <2>2. /\ t.sessions = [s.sessions EXCEPT ![e.id] = new]
        /\ t.data = Append(s.data, e.cmd)
    BY <1>6 DEF TakesEffect
  <2>3. new.seq = e.seq /\ new.resp = k
    OBVIOUS
  <2>4. s.sessions \in [Cli -> SessionTypes \cup {Nil}] /\ s.data \in Seq(Cli)
    BY DEF StateTypes
  <2> HIDE DEF new
  <2>5. t.data # s.data
    <3>1. Len(t.data) = Len(s.data) + 1 /\ Len(s.data) \in Nat
      BY <2>1, <2>2, <2>4
    <3> QED BY <3>1
  <2>6. RunOn(m)[k].data # RunOn(m)[k - 1].data
    <3> HIDE DEF k
    <3> QED BY <1>2, <1>7, <2>5
  <2> SUFFICES ASSUME NEW c \in Cli, t.sessions[c] # Nil
               PROVE  LET n == t.sessions[c].resp
                      IN /\ n \in 1 .. k
                         /\ m[n].cmd # Nil
                         /\ m[n].id = c
                         /\ m[n].seq = t.sessions[c].seq
                         /\ RunOn(m)[n].data # RunOn(m)[n - 1].data
    BY DEF Cached, r, m
  <2>7. CASE c = e.id
    <3>1. t.sessions[c] = new
      BY <2>1, <2>2, <2>4, <2>7
    <3>2. k \in 1 .. k
      BY <1>1
    <3> HIDE DEF k, t
    <3> QED BY <1>1, <2>1, <2>3, <2>6, <2>7, <3>1, <3>2
  <2>8. CASE c # e.id
    <3>1. t.sessions[c] = s.sessions[c]
      BY <2>1, <2>2, <2>4, <2>8
    <3> HIDE DEF k, t
    <3>2. s.sessions[c] # Nil
      BY <3>1
    <3> DEFINE n == s.sessions[c].resp
    <3>3. /\ n \in 1 .. k /\ m[n].cmd # Nil /\ m[n].id = c
          /\ m[n].seq = s.sessions[c].seq
          /\ RunOn(m)[n].data # RunOn(m)[n - 1].data
      BY <1>4, <3>2
    <3> HIDE DEF n
    <3> QED BY <3>1, <3>3 DEF n
  <2> QED BY <2>7, <2>8
<1> QED BY <1>3, <1>5, <1>6

LEMMA NextLawful ==
  ASSUME Typed, Stages, Traced, Lawful, [Next]_vars
  PROVE  Lawful'
<1> DEFINE f == RunOn(log)
           g == RunOn(log')
           n == Len(log)
<1>1. /\ log \in Seq(EntryTypes) /\ n \in Nat
      /\ StateAfter = f /\ StateAfter' = g
  BY StateAfterRun DEF Typed, StateAfter, RunOn, After
<1>2. SentStays
  BY NextSentStays
<1>3. \A k \in 0 .. n : /\ f[k] \in StateTypes /\ f[k].applied = k
                        /\ Ordered(cli, f[k]) /\ Cached(log, f[k], k)
  BY <1>1 DEF Lawful
<1>4. \A k \in 0 .. n : Ordered(cli', f[k])
  BY <1>2, <1>3, OrderedStays
<1>5. CASE log' = log
  BY <1>1, <1>3, <1>4, <1>5 DEF Lawful
<1>6. ASSUME NEW e \in EntryTypes, log' = Append(log, e),
             e.cmd # Nil => PutOf(e.cmd, e)
      PROVE  Lawful'
  <2>1. /\ \A k \in 0 .. n : g[k] = f[k]
        /\ g[n + 1] = SessionApply(f[n], n + 1, e).state
    BY <1>1, <1>6, RunExtends
  <2>2. Len(log') = n + 1 /\ log'[n + 1] = e /\ \A k \in 1 .. n : log'[k] = log[k]
    BY <1>6, GrownEntry
  <2>3. Whole(e)
    BY <1>6, PutFields DEF Whole
  <2> DEFINE t == SessionApply(f[n], n + 1, e).state
  <2>4. n \in 0 .. n /\ n + 1 \in Nat
    BY <1>1
  <2>5. t \in StateTypes /\ t.applied = n + 1
    BY <1>3, <2>3, <2>4, ApplyType
  <2>6. Ordered(cli', t)
    <3>1. Ordered(cli, t)
      BY <1>3, <1>6, <2>4, OrderedApply
    <3> QED BY <1>2, <2>5, <3>1, OrderedStays
  <2>7. Cached(log', t, n + 1)
    BY <1>1, <1>3, <1>6, <2>3, <2>4, CachedApply
  <2> HIDE DEF t, f, g, n
  <2>8. ASSUME NEW k \in 0 .. n
        PROVE  Cached(log', g[k], k)
    <3>1. Cached(log, f[k], k) /\ g[k] = f[k]
      BY <1>3, <2>1
    <3>2. ASSUME NEW c \in Cli, f[k].sessions[c] # Nil
          PROVE  LET x == f[k].sessions[c].resp
                 IN /\ x \in 1 .. k
                    /\ log'[x].cmd # Nil
                    /\ log'[x].id = c
                    /\ log'[x].seq = f[k].sessions[c].seq
                    /\ g[x].data # g[x - 1].data
      <4> DEFINE x == f[k].sessions[c].resp
      <4>1. /\ x \in 1 .. k
            /\ log[x].cmd # Nil
            /\ log[x].id = c
            /\ log[x].seq = f[k].sessions[c].seq
            /\ f[x].data # f[x - 1].data
        BY <3>1, <3>2 DEF Cached, f
      <4> HIDE DEF x
      <4>2. x \in 1 .. n /\ x \in 0 .. n /\ x - 1 \in 0 .. n
        BY <1>1, <4>1
      <4> QED BY <2>1, <2>2, <4>1, <4>2 DEF x
    <3> QED BY <3>1, <3>2 DEF Cached, g
  <2>9. ASSUME NEW k \in 0 .. n + 1
        PROVE  /\ g[k] \in StateTypes /\ g[k].applied = k
               /\ Ordered(cli', g[k]) /\ Cached(log', g[k], k)
    <3>1. CASE k \in 0 .. n
      BY <1>3, <1>4, <2>1, <2>8, <3>1
    <3>2. CASE k = n + 1
      BY <2>1, <2>5, <2>6, <2>7, <3>2 DEF t
    <3> QED BY <1>1, <3>1, <3>2
  <2> QED BY <1>1, <2>2, <2>9 DEF Lawful
<1> QED BY <1>5, <1>6, NextLogGrows DEF LogGrows

\* A state reached stays reached when the log grows.
LEMMA ReachedStays ==
  ASSUME Typed, Traced, [Next]_vars, NEW s, Reached(s)
  PROVE  s.applied \in 0 .. Len(log') /\ s = StateAfter'[s.applied]
<1>1. StateAfter = RunOn(log) /\ StateAfter' = RunOn(log')
  BY DEF StateAfter, RunOn, After
<1>2. s.applied \in 0 .. Len(log) /\ s = RunOn(log)[s.applied]
  BY <1>1 DEF Reached
<1>3. CASE log' = log
  BY <1>1, <1>2, <1>3
<1>4. ASSUME NEW e \in EntryTypes, log' = Append(log, e)
      PROVE  s.applied \in 0 .. Len(log') /\ s = RunOn(log')[s.applied]
  <2>1. RunOn(log')[s.applied] = RunOn(log)[s.applied]
    BY <1>2, <1>4, RunExtends DEF Typed
  <2> QED BY <1>2, <1>4, <2>1, GrownEntry
<1> QED BY <1>1, <1>3, <1>4, NextLogGrows DEF LogGrows

LEMMA NextReplicas ==
  ASSUME Typed, Traced, Lawful, Replicas, [Next]_vars
  PROVE  Replicas'
<1> DEFINE Then(s) == s.applied \in 0 .. Len(log') /\ s = StateAfter'[s.applied]
           Meant(x) == x # Nil => \E s \in StateTypes : Then(s) /\ x = Snapshot(s)
<1>1. \A s : Reached(s) => Then(s)
  BY ReachedStays
<1>2. \A r \in Replica : Then(sm[r]) /\ Meant(snap[r])
  BY <1>1 DEF Replicas
<1>3. /\ sm \in [Replica -> StateTypes] /\ DOMAIN snap = Replica
  BY DEF Typed
<1>4. ASSUME NEW r \in Replica, Apply(r)
      PROVE  \A q \in Replica : Then(sm'[q]) /\ Meant(snap'[q])
  <2> DEFINE k == sm[r].applied + 1
             t == SessionApply(sm[r], k, log[k]).state
  <2>1. /\ sm' = [sm EXCEPT ![r] = t] /\ snap' = snap /\ log' = log
        /\ sm[r].applied < Len(log)
    BY <1>4 DEF Apply
  <2>2. /\ sm[r] \in StateTypes /\ k \in 1 .. Len(log) /\ Whole(log[k])
        /\ k \in Nat /\ k - 1 = sm[r].applied
    <3>1. /\ sm[r] \in StateTypes /\ k \in 1 .. Len(log) /\ Whole(log[k])
      BY <2>1, NextEntry
    <3>2. sm[r].applied \in Nat
      BY <3>1 DEF StateTypes
    <3> QED BY <3>1, <3>2
  <2>3. t.applied = k
    BY <2>2, ApplyType
  <2>4. t = StateAfter[k]
    <3>1. RunOn(log)[k] = SessionApply(RunOn(log)[k - 1], k, log[k]).state
      BY <2>2, RunUnfolds DEF Typed
    <3>2. sm[r] = RunOn(log)[k - 1]
      BY <2>2, StateAfterRun DEF Replicas, Reached
    <3> QED BY <3>1, <3>2, StateAfterRun
  <2> HIDE DEF k, t
  <2>5. Then(t)
    <3>1. Reached(t)
      BY <2>2, <2>3, <2>4 DEF Reached
    <3> QED BY <1>1, <3>1
  <2>6. \A q \in Replica : sm'[q] = IF q = r THEN t ELSE sm[q]
    BY <1>3, <2>1
  <2> HIDE DEF Then, Meant
  <2> QED BY <1>2, <2>1, <2>5, <2>6
<1>5. ASSUME NEW r \in Replica, TakeSnapshot(r)
      PROVE  \A q \in Replica : Then(sm'[q]) /\ Meant(snap'[q])
  <2>1. sm' = sm /\ snap' = [snap EXCEPT ![r] = Snapshot(sm[r])]
    BY <1>5 DEF TakeSnapshot
  <2>2. Meant(Snapshot(sm[r]))
    BY <1>2, <1>3
  <2>3. \A q \in Replica : snap'[q] = IF q = r THEN Snapshot(sm[r]) ELSE snap[q]
    BY <1>3, <2>1
  <2> HIDE DEF Then, Meant
  <2> QED BY <1>2, <2>1, <2>2, <2>3
<1>6. ASSUME NEW r \in Replica, NEW q \in Replica, Install(r, q)
      PROVE  \A u \in Replica : Then(sm'[u]) /\ Meant(snap'[u])
  <2> DEFINE t == Restore(snap[q], snap[q].applied)
  <2>1. /\ sm' = [sm EXCEPT ![r] = t] /\ snap' = [snap EXCEPT ![r] = snap[q]]
        /\ snap[q] # Nil
    BY <1>6 DEF Install
  <2>2. Reached(t)
    BY <2>1, Restored
  <2>3. Then(t)
    BY <1>1, <2>2
  <2> HIDE DEF Then, Meant, t
  <2>4. \A u \in Replica : /\ sm'[u] = IF u = r THEN t ELSE sm[u]
                           /\ snap'[u] = IF u = r THEN snap[q] ELSE snap[u]
    BY <1>3, <2>1
  <2> QED BY <1>2, <2>3, <2>4
<1>7. ASSUME NEW r \in Replica, Restart(r)
      PROVE  \A u \in Replica : Then(sm'[u]) /\ Meant(snap'[u])
  <2> DEFINE t == IF snap[r] = Nil THEN NewState
                  ELSE Restore(snap[r], snap[r].applied)
  <2>1. sm' = [sm EXCEPT ![r] = t] /\ snap' = snap
    BY <1>7 DEF Restart
  <2>2. Reached(NewState)
    <3>1. StateAfter[0] = NewState
      BY RunUnfolds, StateAfterRun DEF Typed
    <3>2. 0 \in 0 .. Len(log)
      BY DEF Typed
    <3> QED BY <3>1, <3>2, NewStateType DEF Reached
  <2>3. Reached(t)
    BY <2>2, Restored
  <2>4. Then(t)
    BY <1>1, <2>3
  <2> HIDE DEF Then, Meant, t
  <2>5. \A u \in Replica : sm'[u] = IF u = r THEN t ELSE sm[u]
    BY <1>3, <2>1
  <2> QED BY <1>2, <2>1, <2>4, <2>5
<1>8. ASSUME UNCHANGED <<sm, snap>>
      PROVE  \A r \in Replica : Then(sm'[r]) /\ Meant(snap'[r])
  <2> HIDE DEF Then, Meant
  <2> QED BY <1>2, <1>8
<1>9. \A r \in Replica : Then(sm'[r]) /\ Meant(snap'[r])
  <2> HIDE DEF Then, Meant
  <2> QED BY <1>4, <1>5, <1>6, <1>7, <1>8
          DEF Next, vars, cluster, Load, Truncate, Save, Send, GiveUp, Kill,
              Commit, Noop
<1> QED BY <1>9 DEF Replicas, Reached

-----------------------------------------------------------------------------
(* Numbers.                                                                *)

LEMMA NextNumbered ==
  ASSUME Typed, Stages, Traced, Numbered, [Next]_vars
  PROVE  Numbered'
<1> SUFFICES ASSUME ~raced'
             PROVE  Numbered'
  BY DEF Numbered
<1>0. \A p \in Cli : /\ cli[p].seq \in Nat /\ cli[p].attempt \in Nat
                     /\ Sent(p) => cli[p].pc \in {"waiting", "failed", "done"}
  <2>1. \A p \in Cli : cli[p] \in CliTypes
    BY DEF Typed
  <2>2. \A c \in CliTypes : c.seq \in Nat /\ c.attempt \in Nat
    BY DEF CliTypes
  <2>3. \A p \in Cli : Sent(p) => cli[p].pc \in {"waiting", "failed", "done"}
    BY DEF Stages
  <2> QED BY <2>1, <2>2, <2>3
<1>1. ~raced
  BY DEF Next, vars, cluster, Load, Truncate, Save, Send, GiveUp, Kill, Commit,
         Noop, Apply, TakeSnapshot, Install, Restart
<1>2. /\ \A p, q \in Cli : InFile(p) /\ InFile(q) => p = q
      /\ \A p \in Cli :
           Saved(p) /\ file # Nil /\ cli[p].id = file.id =>
             cli[p].seq <= file.last
      /\ \A p, q \in Cli :
           InFile(p) /\ Saved(q) /\ cli[p].id = cli[q].id =>
             cli[q].seq < cli[p].seq
      /\ \A p, q \in Cli :
           Saved(p) /\ Saved(q) /\ cli[p].id = cli[q].id
           /\ cli[p].seq = cli[q].seq => p = q
  BY <1>1 DEF Numbered
<1>3. ASSUME NEW p \in Cli, Load(p)
      PROVE  Numbered'
  <2> DEFINE t == IF file = Nil THEN [id |-> p, last |-> 0] ELSE file
  <2>1. /\ cli[p].pc = "idle" /\ file' = file
        /\ cli' = [cli EXCEPT ![p].pc = "loaded", ![p].id = t.id,
                              ![p].seq = t.last + 1]
        /\ \A q \in Cli : ~InFile(q)
    BY <1>3 DEF Load
  <2>2. /\ t.id \in Cli /\ t.last \in Nat
        /\ file = Nil => t.id = p
        /\ file # Nil => t = file
    BY DEF Typed
  <2> HIDE DEF t
  <2>3. /\ cli'[p].pc = "loaded" /\ cli'[p].id = t.id /\ cli'[p].seq = t.last + 1
        /\ cli'[p].attempt = cli[p].attempt
        /\ \A q \in Cli : q # p => cli'[q] = cli[q]
    BY <2>1 DEF Typed
  <2>4. ~Saved(p) /\ ~Saved(p)'
    BY <1>0, <2>1, <2>3 DEF Saved, Sent
  <2>5. \A q \in Cli : q # p => Saved(q)' = Saved(q) /\ InFile(q)' = InFile(q)
    BY <2>3 DEF Saved, Sent, InFile
  <2>6. ASSUME NEW q \in Cli, Saved(q), cli[q].id = t.id
        PROVE  cli[q].seq < t.last + 1
    <3>1. CASE file = Nil
      <4>1. cli[q].id = p /\ p \in Cli
        BY <2>2, <2>6, <3>1
      <4>2. cli[p].pc # "idle"
        BY <4>1 DEF Stages
      <4> QED BY <2>1, <4>2
    <3>2. CASE file # Nil
      <4>1. cli[q].seq <= t.last
        BY <1>2, <2>2, <2>6, <3>2
      <4> QED BY <1>0, <2>2, <4>1
    <3> QED BY <3>1, <3>2
  <2>7. \A q \in Cli : Saved(q)' => q # p /\ Saved(q) /\ cli'[q] = cli[q]
    BY <2>3, <2>4, <2>5
  <2>8. \A q \in Cli : InFile(q)' => q = p
    BY <2>1, <2>5
  <2>9. ASSUME NEW q \in Cli, Saved(q)', file # Nil, cli'[q].id = file.id
        PROVE  cli'[q].seq <= file.last
    BY <1>2, <2>7, <2>9
  <2>10. ASSUME NEW q \in Cli, Saved(q)', cli'[q].id = cli'[p].id
         PROVE  cli'[q].seq < cli'[p].seq
    BY <2>3, <2>6, <2>7, <2>10
  <2>11. ASSUME NEW q \in Cli, NEW u \in Cli, Saved(q)', Saved(u)',
                cli'[q].id = cli'[u].id, cli'[q].seq = cli'[u].seq
         PROVE  q = u
    BY <1>2, <2>7, <2>11
  <2> QED BY <2>1, <2>8, <2>9, <2>10, <2>11 DEF Numbered
<1>4. ASSUME NEW p \in Cli, Save(p)
      PROVE  Numbered'
  <2>1. /\ cli[p].pc = "saving" /\ cli' = [cli EXCEPT ![p].pc = "ready"]
        /\ file' = [id |-> cli[p].id, last |-> cli[p].seq]
    BY <1>4 DEF Save
  <2>2. /\ cli'[p].pc = "ready" /\ cli'[p].id = cli[p].id
        /\ cli'[p].seq = cli[p].seq
        /\ \A q \in Cli : q # p => cli'[q] = cli[q]
    BY <2>1 DEF Typed, CliTypes
  <2>3. InFile(p) /\ ~InFile(p)'
    BY <2>1, <2>2 DEF InFile
  <2>4. \A q \in Cli : q # p => Saved(q)' = Saved(q) /\ ~InFile(q)'
    BY <1>2, <2>2, <2>3 DEF Saved, Sent, InFile
  <2>5. \A q \in Cli : q # p /\ Saved(q) /\ cli[q].id = cli[p].id =>
          cli[q].seq < cli[p].seq
    BY <1>2, <2>3
  <2>6. file'.id = cli[p].id /\ file'.last = cli[p].seq
    BY <2>1
  <2>7. ASSUME NEW q \in Cli, Saved(q)', cli'[q].id = file'.id
        PROVE  cli'[q].seq <= file'.last
    <3>1. CASE q = p
      BY <1>0, <2>2, <2>6, <3>1
    <3>2. CASE q # p
      BY <1>0, <2>2, <2>4, <2>5, <2>6, <2>7, <3>2
    <3> QED BY <3>1, <3>2
  <2>8. ASSUME NEW q \in Cli, NEW u \in Cli, Saved(q)', Saved(u)',
               cli'[q].id = cli'[u].id, cli'[q].seq = cli'[u].seq
        PROVE  q = u
    <3>1. CASE q = p \/ u = p
      BY <1>0, <2>2, <2>4, <2>5, <2>8, <3>1
    <3>2. CASE q # p /\ u # p
      BY <1>2, <2>2, <2>4, <2>8, <3>2
    <3> QED BY <3>1, <3>2
  <2> QED BY <2>3, <2>4, <2>7, <2>8 DEF Numbered
<1>5. ASSUME OnlyMovesOn, file' = file \/ file' = Nil,
             \A p \in Cli : (InFile(p)' => InFile(p)) /\ (Saved(p)' => Saved(p))
      PROVE  Numbered'
  BY <1>2, <1>5 DEF Numbered, OnlyMovesOn
<1>6. ASSUME NEW p \in Cli, Truncate(p) \/ Kill(p) \/ Send(p) \/ GiveUp(p)
      PROVE  /\ file' = file \/ file' = Nil
             /\ \A q \in Cli : (InFile(q)' => InFile(q)) /\ (Saved(q)' => Saved(q))
  <2>1. file' = file \/ file' = Nil
    BY <1>6 DEF Truncate, Kill, Send, GiveUp, cluster
  <2>2. \A q \in Cli : q # p => cli'[q] = cli[q]
    BY <1>6 DEF Truncate, Kill, Send, GiveUp, Typed
  <2>3. CASE Truncate(p)
    <3>1. cli[p].pc = "loaded" /\ cli' = [cli EXCEPT ![p].pc = "saving"]
      BY <2>3 DEF Truncate
    <3>2. cli'[p].pc = "saving" /\ cli'[p].attempt = cli[p].attempt
      BY <3>1 DEF Typed, CliTypes
    <3> QED BY <2>1, <2>2, <3>1, <3>2 DEF InFile, Saved, Sent
  <2>4. CASE Kill(p) \/ GiveUp(p)
    <3>1. \E c \in {"killed", "failed"} : cli' = [cli EXCEPT ![p].pc = c]
      BY <2>4 DEF Kill, GiveUp
    <3>2. /\ cli'[p].pc \in {"killed", "failed"}
          /\ cli'[p].attempt = cli[p].attempt
      BY <3>1 DEF Typed, CliTypes
    <3> QED BY <2>1, <2>2, <3>2 DEF InFile, Saved, Sent
  <2>5. CASE Send(p)
    <3>1. /\ cli[p].pc = "ready" \/ cli[p].pc = "waiting"
          /\ cli'[p].pc = "waiting"
      BY <2>5 DEF Send, Typed, CliTypes
    <3>2. cli[p].pc = "waiting" => Sent(p)
      BY DEF Stages
    <3> QED BY <2>1, <2>2, <3>1, <3>2 DEF InFile, Saved, Sent
  <2> QED BY <1>6, <2>3, <2>4, <2>5
<1>7. ASSUME NEW r \in Replica, Apply(r)
      PROVE  /\ file' = file
             /\ \A q \in Cli : (InFile(q)' => InFile(q)) /\ (Saved(q)' => Saved(q))
  <2> DEFINE index == sm[r].applied + 1
             res == SessionApply(sm[r], index, log[index])
             mine == {w \in waiting[r] : w.index = index}
  <2>1. cli' = [p \in Cli |-> IF \E w \in mine : w.cli = p
                                THEN Answered(cli[p], res.resp) ELSE cli[p]]
    BY <1>7 DEF Apply
  <2> HIDE DEF mine, res
  <2>2. ASSUME NEW q \in Cli
        PROVE  cli'[q] = cli[q] \/ cli'[q] = Answered(cli[q], res.resp)
    BY <2>1
  <2>3. ASSUME NEW q \in Cli, cli'[q] = Answered(cli[q], res.resp)
        PROVE  /\ cli'[q].pc \in {"failed", "done"}
               /\ cli'[q].attempt = cli[q].attempt
    <3>1. cli[q] \in CliTypes
      BY DEF Typed
    <3> QED BY <2>3, <3>1 DEF Answered, CliTypes
  <2>4. file' = file
    BY <1>7 DEF Apply
  <2> QED BY <2>2, <2>3, <2>4 DEF InFile, Saved, Sent
<1>8. ASSUME UNCHANGED <<cli, file>>
      PROVE  /\ file' = file
             /\ \A q \in Cli : (InFile(q)' => InFile(q)) /\ (Saved(q)' => Saved(q))
  BY <1>8 DEF InFile, Saved, Sent
<1>9. CASE OnlyMovesOn
  <2>1. \/ \E p \in Cli : Load(p) \/ Save(p)
        \/ \E p \in Cli : Truncate(p) \/ Kill(p) \/ Send(p) \/ GiveUp(p)
        \/ \E r \in Replica : Apply(r)
        \/ UNCHANGED <<cli, file>>
    <3>1. CASE UNCHANGED vars
      BY <3>1 DEF vars, cluster
    <3>2. CASE Next
      BY <3>2 DEF Next, cluster, Commit, Noop, TakeSnapshot, Install, Restart
    <3> QED BY <3>1, <3>2
  <2> QED BY <1>3, <1>4, <1>5, <1>6, <1>7, <1>8, <1>9, <2>1
<1> QED BY <1>3, <1>9, NextMovesOn

-----------------------------------------------------------------------------
(* Answers, and the theorems.                                              *)

\* The answer that an applied entry gives is the index at which a put with its
\* id and number took effect.
LEMMA AnswerEffective ==
  ASSUME Typed, Traced, Lawful, Replicas, NEW r \in Replica,
         sm[r].applied < Len(log)
  PROVE  LET k == sm[r].applied + 1
             n == SessionApply(sm[r], k, log[k]).resp
         IN log[k].cmd # Nil /\ n # NoBytes =>
              /\ n \in 1 .. Len(log)
              /\ log[n].cmd # Nil
              /\ log[n].id = log[k].id
              /\ log[n].seq = log[k].seq
              /\ StateAfter[n].data # StateAfter[n - 1].data
<1> DEFINE s == sm[r]
           k == s.applied + 1
           e == log[k]
           res == SessionApply(s, k, e)
           n == res.resp
<1>1. s \in StateTypes /\ k \in 1 .. Len(log) /\ Whole(e)
  BY NextEntry
<1>2. s.applied \in Nat /\ Len(log) \in Nat
  BY <1>1 DEF StateTypes, Typed
<1>3. /\ s.applied \in 0 .. Len(log) /\ s = StateAfter[s.applied]
      /\ k - 1 = s.applied /\ k \in Nat
  BY <1>2 DEF Replicas, Reached
<1>4. StateAfter[k] = res.state
  <2>1. RunOn(log)[k] = SessionApply(RunOn(log)[k - 1], k, e).state
    BY <1>1, RunUnfolds DEF Typed
  <2> QED BY <1>3, <2>1, StateAfterRun
<1>5. Cached(log, s, s.applied)
  BY <1>3 DEF Lawful
<1>6. TakesEffect(s, k, e, res) \/ Skipped(s, k, e, res)
  BY <1>1, <1>3, ApplyCases
<1>7. e.cmd # Nil => e.id \in Cli
  <2>1. \A x : Whole(x) => (x.cmd # Nil => x.id \in Cli)
    BY DEF Whole
  <2> HIDE DEF e
  <2> QED BY <1>1, <2>1
<1> HIDE DEF s, k, e, res
<1>8. CASE TakesEffect(s, k, e, res)
  <2>1. /\ res.resp = k
        /\ res.state.data = Append(s.data, e.cmd)
        /\ e.cmd # Nil
    BY <1>8 DEF TakesEffect
  <2>2. s.data \in Seq(Cli) /\ e.cmd \in Cli
    BY <1>1, <2>1 DEF StateTypes, Whole, EntryTypes
  <2>3. res.state.data # s.data
    <3>1. Len(Append(s.data, e.cmd)) = Len(s.data) + 1 /\ Len(s.data) \in Nat
      BY <2>2
    <3> QED BY <2>1, <3>1
  <2>4. n = k
    BY <2>1
  <2> HIDE DEF n
  <2>5. StateAfter[n].data # StateAfter[n - 1].data
    BY <1>3, <1>4, <2>3, <2>4
  <2> QED BY <1>1, <2>1, <2>4, <2>5 DEF s, k, e, res, n
<1>9. CASE Skipped(s, k, e, res)
  <2> SUFFICES ASSUME e.cmd # Nil, n # NoBytes
               PROVE  /\ n \in 1 .. Len(log)
                      /\ log[n].cmd # Nil
                      /\ log[n].id = e.id
                      /\ log[n].seq = e.seq
                      /\ StateAfter[n].data # StateAfter[n - 1].data
    BY DEF s, k, e, res, n
  <2>1. /\ s.sessions[e.id] # Nil
        /\ e.seq = s.sessions[e.id].seq
        /\ n = s.sessions[e.id].resp
    BY <1>9 DEF Skipped
  <2>2. /\ n \in 1 .. s.applied
        /\ log[n].cmd # Nil
        /\ log[n].id = e.id
        /\ log[n].seq = s.sessions[e.id].seq
        /\ RunOn(log)[n].data # RunOn(log)[n - 1].data
    <3>1. e.id \in Cli
      BY <1>7
    <3> HIDE DEF n
    <3> QED BY <1>5, <2>1, <3>1 DEF Cached
  <2> HIDE DEF n
  <2> QED BY <1>2, <1>3, <2>1, <2>2, StateAfterRun
<1> QED BY <1>6, <1>8, <1>9

LEMMA NextAcknowledged ==
  ASSUME Typed, Stages, Traced, Numbered, Lawful, Replicas,
         AcknowledgedEffective, [Next]_vars
  PROVE  AcknowledgedEffective'
<1> SUFFICES ASSUME ~raced', NEW p \in Cli, cli'[p].pc = "done"
             PROVE  LET n == cli'[p].resp
                    IN /\ n \in 1 .. Len(log')
                       /\ log'[n].cmd = p
                       /\ StateAfter'[n].data # StateAfter'[n - 1].data
  BY DEF AcknowledgedEffective, EffectiveAt
<1>1. ~raced
  BY DEF Next, vars, cluster, Load, Truncate, Save, Send, GiveUp, Kill, Commit,
         Noop, Apply, TakeSnapshot, Install, Restart
<1> DEFINE Stayed == cli[p].pc = "done" /\ cli'[p].resp = cli[p].resp
           n == cli'[p].resp
<1>2. Stayed \/ EffectiveAt(p, n)
  <2>1. ASSUME NEW r \in Replica, Apply(r), ~Stayed
        PROVE  EffectiveAt(p, n)
    <3> DEFINE k == sm[r].applied + 1
               res == SessionApply(sm[r], k, log[k])
               mine == {w \in waiting[r] : w.index = k}
    <3>1. /\ cli' = [q \in Cli |-> IF \E w \in mine : w.cli = q
                                     THEN Answered(cli[q], res.resp) ELSE cli[q]]
          /\ sm[r].applied < Len(log)
      BY <2>1 DEF Apply
    <3>2. PICK w \in mine : w.cli = p
      BY <2>1, <3>1
    <3>3. cli'[p] = Answered(cli[p], res.resp)
      BY <3>1, <3>2
    <3>4. res.resp # NoBytes /\ n = res.resp
      <4>1. cli[p] \in CliTypes
        BY DEF Typed
      <4> HIDE DEF res
      <4> QED BY <3>3, <4>1 DEF Answered, CliTypes
    <3>5. PutOf(p, log[k])
      BY <3>2, Waits
    <3>6. /\ log[k].cmd = p /\ log[k].id = cli[p].id /\ log[k].seq = cli[p].seq
          /\ p # Nil /\ Sent(p)
      <4> DEFINE e == log[k]
      <4>1. PutOf(p, e)
        BY <3>5
      <4> HIDE DEF e, k, res, mine
      <4>2. /\ e.cmd = p /\ e.id = cli[p].id /\ e.seq = cli[p].seq
            /\ p \in Cli /\ Sent(p)
        BY <4>1, PutFields
      <4> QED BY <4>2, SessionAssumption DEF e
    <3> HIDE DEF res, mine
    <3>7. /\ n \in 1 .. Len(log) /\ log[n].cmd # Nil
          /\ log[n].id = log[k].id /\ log[n].seq = log[k].seq
          /\ StateAfter[n].data # StateAfter[n - 1].data
      <4>1. LET h == sm[r].applied + 1
                o == SessionApply(sm[r], h, log[h]).resp
            IN log[h].cmd # Nil /\ o # NoBytes =>
                 /\ o \in 1 .. Len(log) /\ log[o].cmd # Nil
                 /\ log[o].id = log[h].id /\ log[o].seq = log[h].seq
                 /\ StateAfter[o].data # StateAfter[o - 1].data
        BY <3>1, AnswerEffective
      <4>2. n = SessionApply(sm[r], k, log[k]).resp
        BY <3>4 DEF res
      <4>3. log[k].cmd # Nil /\ n # NoBytes
        BY <3>4, <3>6
      <4> HIDE DEF n
      <4> QED BY <4>1, <4>2, <4>3
    <3> DEFINE q == log[n].cmd
    <3>8. PutOf(q, log[n])
      BY <3>7 DEF Traced
    <3>9. q = p
      <4>1. /\ q \in Cli /\ Sent(q) /\ cli[q].id = cli[p].id
            /\ cli[q].seq = cli[p].seq
        BY <3>6, <3>7, <3>8, PutFields
      <4> QED BY <1>1, <3>6, <4>1 DEF Numbered, Saved
    <3> QED BY <3>7, <3>9 DEF EffectiveAt
  <2>2. ASSUME NEW q \in Cli, Load(q) \/ Truncate(q) \/ Save(q) \/ Send(q)
                                \/ GiveUp(q) \/ Kill(q)
        PROVE  Stayed
    <3>1. cli'[q].pc # "done"
      BY <2>2 DEF Load, Truncate, Save, Send, GiveUp, Kill, Typed, CliTypes
    <3>2. p # q
      BY <3>1
    <3>3. cli'[p] = cli[p]
      BY <2>2, <3>2 DEF Load, Truncate, Save, Send, GiveUp, Kill, Typed
    <3> QED BY <3>3
  <2>3. CASE UNCHANGED cli
    BY <2>3
  <2> QED BY <2>1, <2>2, <2>3
          DEF Next, vars, cluster, Commit, Noop, TakeSnapshot, Install, Restart
<1>3. EffectiveAt(p, n)
  BY <1>1, <1>2 DEF AcknowledgedEffective
<1> HIDE DEF n
<1>4. /\ n \in 1 .. Len(log') /\ log'[n].cmd = p
      /\ StateAfter'[n].data # StateAfter'[n - 1].data
  <2>1. StateAfter = RunOn(log) /\ StateAfter' = RunOn(log')
    BY DEF StateAfter, RunOn, After
  <2>2. /\ n \in 1 .. Len(log) /\ log[n].cmd = p
        /\ RunOn(log)[n].data # RunOn(log)[n - 1].data
    BY <1>3, <2>1 DEF EffectiveAt
  <2>3. CASE log' = log
    BY <2>1, <2>2, <2>3
  <2>4. ASSUME NEW e \in EntryTypes, log' = Append(log, e)
        PROVE  /\ n \in 1 .. Len(log') /\ log'[n].cmd = p
               /\ RunOn(log')[n].data # RunOn(log')[n - 1].data
    <3>1. n \in 0 .. Len(log) /\ n - 1 \in 0 .. Len(log)
      BY <2>2 DEF Typed
    <3>2. /\ RunOn(log')[n] = RunOn(log)[n]
          /\ RunOn(log')[n - 1] = RunOn(log)[n - 1]
      BY <2>4, <3>1, RunExtends DEF Typed
    <3> QED BY <2>2, <2>4, <3>2, GrownEntry
  <2> QED BY <2>1, <2>3, <2>4, NextLogGrows DEF LogGrows
<1> QED BY <1>4 DEF n

LEMMA InitIInv == Init => IInv
<1> SUFFICES ASSUME Init
             PROVE  IInv
  OBVIOUS
<1> USE DEF Init
<1>1. /\ \A p \in Cli : cli[p] = [pc |-> "idle", id |-> Nil, seq |-> 0,
                                  attempt |-> 0, resp |-> NoBytes]
      /\ log \in Seq(EntryTypes) /\ Len(log) = 0
      /\ \A r \in Replica : sm[r] = NewState /\ snap[r] = Nil
  OBVIOUS
<1>2. Typed
  <2>1. sm \in [Replica -> StateTypes]
    BY NewStateType
  <2>2. cli \in [Cli -> CliTypes]
    BY DEF CliTypes, NoBytes
  <2> QED BY <1>1, <2>1, <2>2 DEF Typed
<1>3. Stages
  BY <1>1, SessionAssumption DEF Stages, Sent
<1>4. Traced
  BY <1>1 DEF Traced
<1>5. Numbered
  BY <1>1 DEF Numbered, InFile, Saved, Sent
<1>6. StateAfter[0] = NewState
  BY <1>1, RunUnfolds, StateAfterRun
<1>7. Lawful
  <2>1. Ordered(cli, NewState) /\ Cached(log, NewState, 0)
    BY SessionAssumption DEF Ordered, Cached, NewState
  <2>2. \A k \in 0 .. Len(log) : k = 0
    BY <1>1
  <2> QED BY <1>6, <2>1, <2>2, NewStateType DEF Lawful
<1>8. Replicas
  BY <1>1, <1>6, NewStateType DEF Replicas, Reached
<1>9. AcknowledgedEffective
  BY <1>1 DEF AcknowledgedEffective
<1> QED BY <1>2, <1>3, <1>4, <1>5, <1>7, <1>8, <1>9 DEF IInv

\* THEOREM: The invariant behind the four that follow.
THEOREM SessionInv == Spec => []IInv
<1>1. IInv /\ [Next]_vars => IInv'
  BY NextTyped, NextStages, NextTraced, NextNumbered, NextLawful, NextReplicas,
     NextAcknowledged DEF IInv
<1> QED BY <1>1, InitIInv, PTL DEF Spec

THEOREM AlwaysReplicasAgree == Spec => []ReplicasAgree
<1>1. IInv => ReplicasAgree
  BY DEF IInv, Replicas, Reached, ReplicasAgree
<1> QED BY <1>1, SessionInv, PTL

THEOREM AlwaysEffectsOnceInOrder == Spec => []EffectsOnceInOrder
<1>1. IInv => EffectsOnceInOrder
  <2> SUFFICES ASSUME IInv, NEW r \in Replica, NEW i \in 1 .. Len(sm[r].data),
                      NEW j \in 1 .. Len(sm[r].data), i < j
               PROVE  /\ sm[r].data[i] # sm[r].data[j]
                      /\ cli[sm[r].data[i]].id = cli[sm[r].data[j]].id =>
                           cli[sm[r].data[i]].seq < cli[sm[r].data[j]].seq
    BY DEF EffectsOnceInOrder
  <2> DEFINE d == sm[r].data
  <2>1. Ordered(cli, sm[r]) /\ sm[r] \in StateTypes
    <3>1. Typed /\ Lawful /\ Reached(sm[r])
      BY DEF IInv, Replicas
    <3> QED BY <3>1 DEF Reached, Lawful, Typed
  <2>2. cli[d[i]].id = cli[d[j]].id => cli[d[i]].seq < cli[d[j]].seq
    BY <2>1 DEF Ordered
  <2>3. d[i] \in Cli
    BY <2>1 DEF StateTypes
  <2>4. cli[d[i]].seq \in Nat
    BY <2>3 DEF IInv, Typed, CliTypes
  <2> HIDE DEF d
  <2>5. d[i] # d[j]
    BY <2>2, <2>4
  <2> QED BY <2>2, <2>5 DEF d
<1> QED BY <1>1, SessionInv, PTL

THEOREM AlwaysNumbersFresh == Spec => []NumbersFresh
<1>1. IInv => NumbersFresh
  BY DEF IInv, Numbered, NumbersFresh, Clash, Saved, Sent
<1> QED BY <1>1, SessionInv, PTL

THEOREM AlwaysAcknowledgedEffective == Spec => []AcknowledgedEffective
<1>1. IInv => AcknowledgedEffective
  BY DEF IInv
<1> QED BY <1>1, SessionInv, PTL
=============================================================================
