--------------------------- MODULE SessionClients ---------------------------
(***************************************************************************)
(* Puts of raft-cli (src/bin/raft_cli.rs) against replicas that run        *)
(* SessionState over a committed log.                                      *)
(*                                                                         *)
(* A process of raft-cli does one put.  It reads the session file of its   *)
(* working directory, takes the next number, writes the file (truncating   *)
(* it first, as fs::write does) and sends the same request to one peer     *)
(* after another until it gets an answer it does not retry.  A request     *)
(* that was given up may still be committed later, and committed twice.    *)
(* The log is that of ReplicatedLog: appending to it stands for committing *)
(* at some leader, which answers when it applies the entry unless it has   *)
(* restarted since.  An attempt given up has its connection closed, so its *)
(* answer goes nowhere; an answer that is lost is one to an attempt that   *)
(* was given up before the entry was applied.                              *)
(***************************************************************************)
EXTENDS Session, FiniteSets

CONSTANTS
  Cli,            \* the processes, each with a put of its own
  Replica,        \* the replicas
  MaxSends,       \* how many requests reach the cluster
  MaxFaults,      \* how many processes are killed, replicas restarted and
                  \* leaders replaced
  MaxSnapshots    \* how many snapshots are taken or installed

ASSUME SessionAssumption ==
  /\ ClientIds = Cli          \* Uuid::new_v4(): a process's own fresh id
  /\ Nil \notin Cli
  /\ Nil \notin [seq : Nat, resp : Nat]
  /\ Nil \notin [id : Cli, last : Nat]
  /\ {MaxSends, MaxFaults, MaxSnapshots} \subseteq Nat

VARIABLES
  file,           \* .raft-cli-session: Nil (absent or empty) or [id, last]
  cli,            \* the processes
  net,            \* the requests under way
  log,            \* the committed entries
  sm,             \* per replica: its state machine
  waiting,        \* per replica: the entries it has a client to answer for
  snap,           \* per replica: Nil or its last snapshot
  raced,          \* history: two processes used the session file at once
  spent           \* how much of each bound is used

cluster == <<log, sm, waiting, snap>>
vars == <<file, cli, net, cluster, raced, spent>>

Spend(what, max) ==
  /\ spent[what] < max
  /\ spent' = [spent EXCEPT ![what] = @ + 1]

Init ==
  /\ file = Nil
  /\ cli = [p \in Cli |-> [pc |-> "idle", id |-> Nil, seq |-> 0,
                           attempt |-> 0, resp |-> NoBytes]]
  /\ net = {}
  /\ log = <<>>
  /\ sm = [r \in Replica |-> NewState]
  /\ waiting = [r \in Replica |-> {}]
  /\ snap = [r \in Replica |-> Nil]
  /\ raced = FALSE
  /\ spent = [what \in {"sends", "faults", "snapshots"} |-> 0]

-----------------------------------------------------------------------------
(* raft-cli put.                                                           *)

\* The process has read the file and not written it yet.
InFile(p) == cli[p].pc \in {"loaded", "saving"}

\* SessionStore::load and next_seq: a file without a client id starts a new
\* client at number 1.
Load(p) ==
  /\ cli[p].pc = "idle"
  /\ LET s == IF file = Nil THEN [id |-> p, last |-> 0] ELSE file
     IN cli' = [cli EXCEPT ![p].pc = "loaded", ![p].id = s.id,
                           ![p].seq = s.last + 1]
  /\ raced' = (raced \/ \E q \in Cli : InFile(q))
  /\ UNCHANGED <<file, net, cluster, spent>>

\* save, first half: fs::write opens the file and truncates it.
Truncate(p) ==
  /\ cli[p].pc = "loaded"
  /\ cli' = [cli EXCEPT ![p].pc = "saving"]
  /\ file' = Nil
  /\ UNCHANGED <<net, cluster, raced, spent>>

\* Mutant: what is saved is the number before the one taken.
SaveNothing(p) ==
  /\ cli[p].pc = "saving"
  /\ cli' = [cli EXCEPT ![p].pc = "ready"]
  /\ file' = [id |-> cli[p].id, last |-> cli[p].seq - 1]
  /\ UNCHANGED <<net, cluster, raced, spent>>

\* save, second half.  Only now is the request sent.
Save(p) ==
  /\ cli[p].pc = "saving"
  /\ cli' = [cli EXCEPT ![p].pc = "ready"]
  /\ file' = [id |-> cli[p].id, last |-> cli[p].seq]
  /\ UNCHANGED <<net, cluster, raced, spent>>

\* run_client_request returns: no replica answers p on that connection again.
Hangup(p) ==
  waiting' = [r \in Replica |-> {w \in waiting[r] : w.cli # p}]

\* request_with_retry: the first attempt, or the next one after an Abort, an
\* I/O error or a timeout; always with the number taken.
Send(p) ==
  /\ cli[p].pc \in {"ready", "waiting"}
  /\ Spend("sends", MaxSends)
  /\ cli' = [cli EXCEPT ![p].pc = "waiting", ![p].attempt = @ + 1]
  /\ net' = net \cup {[cli |-> p, attempt |-> cli[p].attempt + 1,
                       entry |-> [id |-> cli[p].id, seq |-> cli[p].seq,
                                  cmd |-> p]]}
  /\ Hangup(p)
  /\ UNCHANGED <<file, log, sm, snap, raced>>

\* The last round has failed, or the process is killed in one.
GiveUp(p) ==
  /\ cli[p].pc = "waiting"
  /\ cli' = [cli EXCEPT ![p].pc = "failed"]
  /\ Hangup(p)
  /\ UNCHANGED <<file, net, log, sm, snap, raced, spent>>

\* The process is killed before it has sent anything.
Kill(p) ==
  /\ cli[p].pc \in {"loaded", "saving", "ready"}
  /\ Spend("faults", MaxFaults)
  /\ cli' = [cli EXCEPT ![p].pc = "killed"]
  /\ UNCHANGED <<file, net, cluster, raced>>

-----------------------------------------------------------------------------
(* The replicas.                                                           *)

\* A leader commits a request: encode_session puts number and command into the
\* entry.  Until it restarts it has the client to answer for the entry.
Commit(r, m) ==
  /\ log' = Append(log, m.entry)
  /\ waiting' = [waiting EXCEPT ![r] = @ \cup
       {[index |-> Len(log) + 1, cli |-> p] :
          p \in {q \in {m.cli} : /\ cli[q].pc = "waiting"
                                 /\ cli[q].attempt = m.attempt}}]
  /\ net' = net \ {m}
  /\ UNCHANGED <<file, cli, sm, snap, raced, spent>>

\* A new leader's noop.
Noop ==
  /\ Spend("faults", MaxFaults)
  /\ log' = Append(log, [id |-> Nil, seq |-> 0, cmd |-> Nil])
  /\ UNCHANGED <<file, cli, net, sm, waiting, snap, raced>>

\* What raft-cli makes of a response: bytes it cannot decode are an error.
Answered(c, resp) ==
  [c EXCEPT !.pc = IF resp = NoBytes THEN "failed" ELSE "done", !.resp = resp]

\* maybe_apply of the next entry, and the answer to its client if this replica
\* has one.
Apply(r) ==
  /\ sm[r].applied < Len(log)
  /\ LET index == sm[r].applied + 1
         res == SessionApply(sm[r], index, log[index])
         mine == {w \in waiting[r] : w.index = index}
     IN /\ sm' = [sm EXCEPT ![r] = res.state]
        /\ waiting' = [waiting EXCEPT ![r] = @ \ mine]
        /\ cli' = [p \in Cli |-> IF \E w \in mine : w.cli = p
                                   THEN Answered(cli[p], res.resp) ELSE cli[p]]
  /\ UNCHANGED <<file, net, log, snap, raced, spent>>

\* The replica persists a snapshot of what it has applied.
TakeSnapshot(r) ==
  /\ sm[r].applied > 0
  /\ Spend("snapshots", MaxSnapshots)
  /\ snap' = [snap EXCEPT ![r] = Snapshot(sm[r])]
  /\ UNCHANGED <<file, cli, net, log, sm, waiting, raced>>

\* InstallSnapshot of q's snapshot at r, which is not ahead of it.
Install(r, q) ==
  /\ snap[q] # Nil
  /\ snap[q].applied >= sm[r].applied
  /\ Spend("snapshots", MaxSnapshots)
  /\ sm' = [sm EXCEPT ![r] = Restore(snap[q], snap[q].applied)]
  /\ snap' = [snap EXCEPT ![r] = snap[q]]
  /\ UNCHANGED <<file, cli, net, log, waiting, raced>>

\* The replica starts again, from its snapshot if it has one, and applies the
\* log from there.
Restart(r) ==
  /\ Spend("faults", MaxFaults)
  /\ sm' = [sm EXCEPT ![r] = IF snap[r] = Nil THEN NewState
                             ELSE Restore(snap[r], snap[r].applied)]
  /\ waiting' = [waiting EXCEPT ![r] = {}]
  /\ UNCHANGED <<file, cli, net, log, snap, raced>>

Next ==
  \/ \E p \in Cli : \/ Load(p) \/ Truncate(p) \/ Save(p) \/ Send(p)
                    \/ GiveUp(p) \/ Kill(p)
  \/ \E r \in Replica, m \in net : Commit(r, m)
  \/ Noop
  \/ \E r \in Replica : Apply(r) \/ TakeSnapshot(r) \/ Restart(r)
  \/ \E r, q \in Replica : Install(r, q)

Spec == Init /\ [][Next]_vars

-----------------------------------------------------------------------------
\* The state after the first k entries, applied one by one by a replica that
\* never stops.
StateAfter[k \in 0 .. Len(log)] ==
  IF k = 0 THEN NewState
  ELSE SessionApply(StateAfter[k - 1], k, log[k]).state

\* INV: Replicas that are at the same index hold the same data and the same
\* sessions, whether they got there entry by entry, after a restart or from a
\* snapshot of another replica (session.rs: the snapshot holds the session
\* table, so that dedup survives it).
ReplicasAgree == \A r \in Replica : sm[r] = StateAfter[sm[r].applied]

\* INV: A put takes effect at most once at a replica, however often it is sent,
\* committed and replayed, and a client's puts take effect in the order of
\* their numbers: one given up that is committed late does not undo a later
\* one.  (docs/en/09: "at-most-once application".)
EffectsOnceInOrder ==
  \A r \in Replica :
    LET d == sm[r].data
    IN \A i, j \in 1 .. Len(d) : i < j =>
         /\ d[i] # d[j]
         /\ cli[d[i]].id = cli[d[j]].id => cli[d[i]].seq < cli[d[j]].seq

\* Two puts were sent with the same client id and number.
Clash(p, q) ==
  /\ p # q
  /\ cli[p].attempt > 0 /\ cli[q].attempt > 0
  /\ cli[p].id = cli[q].id /\ cli[p].seq = cli[q].seq

\* INV: As long as no two processes have used the session file at once, no two
\* puts are sent with the same client id and number, whichever were killed
\* while they wrote the file.  (docs/en/09: "save before sending (the sequence
\* never regresses after a crash)".)
NumbersFresh == ~raced => \A p, q \in Cli : ~Clash(p, q)

\* The index at which a put took effect, if it did.
EffectiveAt(p, k) ==
  /\ k \in 1 .. Len(log)
  /\ log[k].cmd = p
  /\ StateAfter[k].data # StateAfter[k - 1].data

\* INV: A put that raft-cli reported as done took effect, at the index it
\* printed: also when the answer came from a retry, was read from a cache that
\* had been through a snapshot, or crossed the puts of other processes.
AcknowledgedEffective ==
  ~raced => \A p \in Cli : cli[p].pc = "done" => EffectiveAt(p, cli[p].resp)
=============================================================================
