------------------------------- MODULE RaftLog -------------------------------
(***************************************************************************)
(* The persistent Raft log (src/raft/log.rs) as a value and the functions  *)
(* on it that Log's methods compute.                                       *)
(*                                                                         *)
(*   term, vote    Key::TermVote                                           *)
(*   first         first_index: the oldest entry still stored              *)
(*   snapTerm      snapshot_term, the term of entry first - 1              *)
(*   snap          Key::SnapshotData, a state machine snapshot             *)
(*   ents          the entries first .. last_index                         *)
(*   commit        Key::CommitIndex (its term is that of the entry there)  *)
(*   synced        the commit index that the last flush() made durable:    *)
(*                 commit() writes but does not flush                      *)
(*                                                                         *)
(* Each method is one step here; LastIndex and LastTerm, cached in fields  *)
(* of Log, are computed.                                                   *)
(***************************************************************************)
EXTENDS Integers, Sequences, FiniteSets, Membership

CONSTANT Nil            \* None: no vote, no leader, no command, no membership

\* An entry's index is its place in the log.
Entry(cmd, mem, term) == [term |-> term, cmd |-> cmd, mem |-> mem]

EmptyLog(snapshot) ==
  [term |-> 0, vote |-> Nil, first |-> 1, snapTerm |-> 0, snap |-> snapshot,
   ents |-> <<>>, commit |-> 0, synced |-> 0]

LastIndex(log) == log.first + Len(log.ents) - 1

\* get(index) finds an entry.
Stored(log, index) == log.first <= index /\ index <= LastIndex(log)

EntryAt(log, index) == log.ents[index + 1 - log.first]

\* The term of an entry, of the snapshot just before the entries, or 0.
TermAt(log, index) ==
  IF Stored(log, index) THEN EntryAt(log, index).term
  ELSE IF index = log.first - 1 THEN log.snapTerm ELSE 0

LastTerm(log) == TermAt(log, LastIndex(log))

CommitTerm(log) == TermAt(log, log.commit)

\* has(index, term): the entry, or the snapshot base, at index has this term.
Has(log, index, term) ==
  /\ index # 0
  /\ index <= LastIndex(log)
  /\ log.first <= index + 1
  /\ TermAt(log, index) = term

\* get_snapshot_meta().0
SnapshotIndex(log) == log.first - 1

\* engine.flush(): everything written so far is durable.
Flushed(log) == [log EXCEPT !.synced = log.commit]

\* set_term_vote, always flushed.  Its assertions are TermVoteMonotonic.
SetTermVote(log, term, vote) ==
  IF term = log.term /\ vote = log.vote
    THEN log
    ELSE Flushed([log EXCEPT !.term = term, !.vote = vote])

\* append_entry: in the current term, flushed.
AppendEntry(log, cmd, mem) ==
  Flushed([log EXCEPT !.ents = Append(@, Entry(cmd, mem, log.term))])

\* scan(from..=to): the stored entries of the range, in order.
Scan(log, from, to) ==
  SubSeq(log.ents,
         (IF from < log.first THEN log.first ELSE from) + 1 - log.first,
         (IF to > LastIndex(log) THEN LastIndex(log) ELSE to) + 1 - log.first)

\* Where a sequence of entries holds membership entries.
Memberships(ents) == {k \in 1 .. Len(ents) : ents[k].mem # Nil}

\* commit(index): the entry exists and the commit index does not go back.
CommitOk(log, index) == Stored(log, index) /\ index >= log.commit

Commit(log, index) == [log EXCEPT !.commit = index]

\* splice: the entry after base + k - 1 is already in the log.
Agrees(log, base, ents, k) ==
  /\ Stored(log, base + k)
  /\ EntryAt(log, base + k).term = ents[k].term

\* The assertions of splice on entries base + 1, base + 2, ...
SpliceOk(log, base, ents) ==
  ents # <<>> =>
    /\ ents[1].term > 0
    /\ \A k \in 1 .. Len(ents) - 1 : ents[k].term <= ents[k + 1].term
    /\ ents[Len(ents)].term <= log.term
    /\ \/ Stored(log, base) /\ EntryAt(log, base).term <= ents[1].term
       \/ base = 0 /\ log.first = 1
    /\ \A k \in 1 .. Len(ents) :
         (\A j \in 1 .. k - 1 : Agrees(log, base, ents, j)) =>
            IF Agrees(log, base, ents, k)
              THEN EntryAt(log, base + k) = ents[k]
              ELSE base + k > log.commit

\* Mutant: the log always ends with the entries received.
SpliceTruncates(log, base, ents) ==
  Flushed([log EXCEPT !.ents = SubSeq(@, 1, base + 1 - log.first) \o ents])

\* splice: entries already there are skipped; from the first one that is not,
\* the log is replaced by the new entries.
Splice(log, base, ents) ==
  IF \A k \in 1 .. Len(ents) : Agrees(log, base, ents, k)
    THEN log
    ELSE Flushed([log EXCEPT !.ents =
                    SubSeq(@, 1, base + 1 - log.first) \o ents])

\* compact_to: the entries up to index give way to the snapshot.
CompactTo(log, index, term) ==
  IF index < log.first
    THEN log
    ELSE Flushed([log EXCEPT
           !.ents = SubSeq(@, index + 2 - log.first, Len(@)),
           !.first = index + 1,
           !.snapTerm = term])

\* reset_with_snapshot: every entry is discarded, later ones included.
ResetWithSnapshot(log, index, term) ==
  Flushed([log EXCEPT
    !.ents = <<>>, !.first = index + 1, !.snapTerm = term, !.commit = index])

\* Log::new after a stop: everything flushed is there, and the commit index is
\* the last one written or, after a power loss, the last one flushed.
Reopened(log, commit) == [log EXCEPT !.commit = commit]
=============================================================================
