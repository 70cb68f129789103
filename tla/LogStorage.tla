----------------------------- MODULE LogStorage -----------------------------
(***************************************************************************)
(* How the Raft log (src/raft/log.rs) keeps itself in the storage engine:  *)
(* every method is a sequence of engine calls, and the process may stop    *)
(* between any two of them, or in the middle of a write.                   *)
(*                                                                         *)
(* The module relates this to RaftLog, where a method is one step: log is  *)
(* the RaftLog value that the methods called so far have computed, or Nil  *)
(* when a stop has left records that no RaftLog value stands for, or part  *)
(* of a compacted file that was never synced.                              *)
(*                                                                         *)
(* Entries differ in their terms only.  A snapshot of the state machine is *)
(* the index it was taken at.                                              *)
(***************************************************************************)
EXTENDS RaftLog, BitCask, FiniteSetsExt, SequencesExt

CONSTANTS
  Voter,          \* whom a node may vote for
  MaxTerm,        \* the largest term
  MaxIndex,       \* the largest log index
  MaxCalls,       \* how many methods of Log are called
  MaxCrashes,     \* how many times the process stops in the middle of things
  MaxReopens      \* how many times the engine is dropped and opened again

\* The entries and the RaftLog values that are stored.
Entries == [term : Nat, cmd : {Nil}, mem : {Nil}]
LogValues ==
  [term : Nat, vote : Voter \cup {Nil}, first : Nat \ {0}, snapTerm : Nat,
   snap : Nat, ents : Seq(Entries), commit : Nat, synced : Nat]

ASSUME StorageAssumption ==
  /\ Nil \notin Voter \cup LogValues
  /\ {MaxTerm, MaxIndex, MaxCalls, MaxCrashes, MaxReopens} \subseteq Nat

VARIABLES
  engine,         \* the BitCask value
  fields,         \* the fields of Log: what it caches of the engine
  pending,        \* the engine calls that the method under way has still to do
  result,         \* the fields and the RaftLog value when they are done, or Nil
  log,            \* the RaftLog value of the methods done, or Nil
  unsettled,      \* history: a stop has left records of an unfinished method
                  \* that nothing has flushed since
  spent           \* how much of each bound is used

vars == <<engine, fields, pending, result, log, unsettled, spent>>

-----------------------------------------------------------------------------
(* Keys and engine calls.                                                  *)

EntryKey(index) == <<"Entry", index>>
TermVote == <<"TermVote", 0>>
CommitIndex == <<"CommitIndex", 0>>
SnapshotMeta == <<"SnapshotMeta", 0>>
SnapshotData == <<"SnapshotData", 0>>

Put(key, value) == [do |-> "set", key |-> key, value |-> value]
Drop(key) == [do |-> "delete", key |-> key, value |-> <<>>]
Sync == [do |-> "flush", key |-> <<>>, value |-> <<>>]

Perform(e, op) ==
  CASE op.do = "set" -> Set(e, op.key, op.value)
    [] op.do = "delete" -> Delete(e, op.key)
    [] OTHER -> Flush(e)

\* Entries from .. to, one call each, in order.
PutEntries(from, ents) ==
  [k \in 1 .. Len(ents) |-> Put(EntryKey(from + k - 1), ents[k])]
DropEntries(from, to) ==
  [k \in 1 .. (IF to < from THEN 0 ELSE to - from + 1) |->
     Drop(EntryKey(from + k - 1))]

GetOr(e, key, default) == IF Live(e, key) THEN Get(e, key) ELSE default

\* The indexes that scan finds entries at.
Indexes(e) == {k[2] : k \in {j \in DOMAIN e.keydir : j[1] = "Entry"}}

\* The numbers of a finite set, the smallest first.
InOrder(S) ==
  CHOOSE s \in [1 .. Cardinality(S) -> S] :
    \A j, k \in 1 .. Cardinality(S) : j < k => s[j] < s[k]

\* Log::new: the fields, from what the engine has.  Without SnapshotMeta the
\* first entry found is the first one; with it, neither the last nor the commit
\* index is below it.
LogNew(e) ==
  LET tv == GetOr(e, TermVote, <<0, Nil>>)
      found == Indexes(e)
      last == Max(found \cup {0})
      commit == GetOr(e, CommitIndex, <<0, 0>>)
      meta == GetOr(e, SnapshotMeta, <<0, 0>>)
      behind == last < meta[1]
  IN [term |-> tv[1],
      vote |-> tv[2],
      first |-> IF meta[1] > 0 THEN meta[1] + 1
                ELSE IF found = {} THEN 1 ELSE Min(found),
      snapTerm |-> meta[2],
      last |-> IF behind THEN meta[1] ELSE last,
      lastTerm |-> IF behind THEN meta[2]
                   ELSE IF found = {} THEN 0
                   ELSE Get(e, EntryKey(last)).term,
      commit |-> Max({commit[1], meta[1]}),
      commitTerm |-> IF commit[1] < meta[1] THEN meta[2] ELSE commit[2]]

\* raft_node's start: the index that the state machine is restored at; the
\* snapshot is used when the log does not begin at 1.
RestoredAt(e) ==
  LET base == LogNew(e).first - 1
  IN IF base > 0 /\ Live(e, SnapshotData) THEN Max({base, Get(e, SnapshotData)})
     ELSE 0

\* The RaftLog value that records and fields stand for, if they stand for one.
AsLog(e, f, synced) ==
  IF /\ Indexes(e) = f.first .. f.last
     /\ f.commit <= f.last
     /\ f.first = GetOr(e, SnapshotMeta, <<0, 0>>)[1] + 1
    THEN [term |-> f.term, vote |-> f.vote, first |-> f.first,
          snapTerm |-> f.snapTerm, snap |-> GetOr(e, SnapshotData, 0),
          ents |-> [k \in 1 .. f.last + 1 - f.first |->
                      Get(e, EntryKey(f.first + k - 1))],
          commit |-> f.commit, synced |-> synced]
    ELSE Nil

-----------------------------------------------------------------------------
(* The methods of Log, as the engine calls they make.                      *)

Idle == pending = <<>>

Spend(what, max) ==
  /\ spent[what] < max
  /\ spent' = [spent EXCEPT ![what] = @ + 1]

\* A method starts: ops are its engine calls, f and l what it leaves behind.
Call(ops, f, l) ==
  /\ Idle
  /\ log # Nil
  /\ Spend("calls", MaxCalls)
  /\ pending' = ops
  /\ result' = [fields |-> f, log |-> l]
  /\ UNCHANGED <<engine, fields, log, unsettled>>

\* Mutant: the vote is written and not flushed.
TermVoteUnflushed(term, vote) == <<Put(TermVote, <<term, vote>>)>>

TermVoteOps(term, vote) == <<Put(TermVote, <<term, vote>>), Sync>>

\* ACTION: set_term_vote.
CallSetTermVote(term, vote) ==
  /\ log # Nil
  /\ \/ term > log.term
     \/ term = log.term /\ log.vote = Nil /\ vote # Nil
  /\ Call(TermVoteOps(term, vote),
          [fields EXCEPT !.term = term, !.vote = vote],
          SetTermVote(log, term, vote))

\* ACTION: append_entry, in the current term.
CallAppendEntry ==
  /\ fields.term > 0
  /\ fields.last < MaxIndex
  /\ Call(<<Put(EntryKey(fields.last + 1), Entry(Nil, Nil, fields.term)), Sync>>,
          [fields EXCEPT !.last = @ + 1, !.lastTerm = fields.term],
          AppendEntry(log, Nil, Nil))

\* ACTION: commit, which does not flush.
CallCommit(index) ==
  /\ log # Nil
  /\ CommitOk(log, index)
  /\ index > fields.commit
  /\ LET term == Get(engine, EntryKey(index)).term
     IN Call(<<Put(CommitIndex, <<index, term>>)>>,
             [fields EXCEPT !.commit = index, !.commitTerm = term],
             Commit(log, index))

\* Mutant: what follows the last new entry is not deleted.
SpliceOpsKeepTail(base, ents, skip, last) ==
  PutEntries(base + skip + 1, SubSeq(ents, skip + 1, Len(ents))) \o <<Sync>>

\* Mutant: the new entries are written from the last one down.
SpliceOpsBackwards(base, ents, skip, last) ==
  Reverse(PutEntries(base + skip + 1, SubSeq(ents, skip + 1, Len(ents))))
  \o DropEntries(base + Len(ents) + 1, last) \o <<Sync>>

\* splice after base, when the first skip of the new entries are there already:
\* the others are written, then what followed the last of them is deleted.
SpliceOps(base, ents, skip, last) ==
  PutEntries(base + skip + 1, SubSeq(ents, skip + 1, Len(ents)))
  \o DropEntries(base + Len(ents) + 1, last)
  \o <<Sync>>

\* ACTION: splice of new entries with these terms.
CallSplice(base, terms) ==
  LET ents == [k \in 1 .. Len(terms) |-> Entry(Nil, Nil, terms[k])]
      skip == Max({n \in 0 .. Len(ents) :
                     \A k \in 1 .. n : Agrees(log, base, ents, k)})
      last == terms[Len(terms)]
  IN /\ log # Nil
     /\ SpliceOk(log, base, ents)
     /\ skip < Len(ents)
     /\ Call(SpliceOps(base, ents, skip, fields.last),
             [fields EXCEPT !.last = base + Len(ents), !.lastTerm = last],
             Splice(log, base, ents))

\* Mutant: the snapshot is written when the entries are gone.
CompactOpsDataLast(first, index, term) ==
  DropEntries(first, index)
  \o <<Put(SnapshotMeta, <<index, term>>), Put(SnapshotData, index), Sync>>

\* maybe_snapshot and compact_to: the snapshot, the deletions, then the index
\* and term it stands for.
CompactOps(first, index, term) ==
  <<Put(SnapshotData, index)>>
  \o DropEntries(first, index)
  \o <<Put(SnapshotMeta, <<index, term>>), Sync>>

\* ACTION: maybe_snapshot, with everything committed applied.
CallSnapshot ==
  /\ log # Nil
  /\ fields.commit >= fields.first
  /\ LET index == fields.commit
         term == Get(engine, EntryKey(index)).term
     IN Call(CompactOps(fields.first, index, term),
             [fields EXCEPT !.first = index + 1, !.snapTerm = term],
             CompactTo([log EXCEPT !.snap = index], index, term))

\* reset_with_snapshot, after the snapshot itself: every entry found goes.
ResetOps(found, index, term) ==
  <<Put(SnapshotData, index)>>
  \o [k \in 1 .. Cardinality(found) |->
        Drop(EntryKey(InOrder(found)[k]))]
  \o <<Put(SnapshotMeta, <<index, term>>),
       Put(CommitIndex, <<index, term>>), Sync>>

\* ACTION: InstallSnapshot of a leader, not older than what is applied.
CallInstall(index, term) ==
  /\ log # Nil
  /\ index >= fields.commit
  /\ term \in fields.commitTerm .. fields.term
  /\ index = fields.commit => term = fields.commitTerm
  /\ Call(ResetOps(Indexes(engine), index, term),
          [fields EXCEPT !.first = index + 1, !.snapTerm = term,
                         !.last = index, !.lastTerm = term,
                         !.commit = index, !.commitTerm = term],
          ResetWithSnapshot([log EXCEPT !.snap = index], index, term))

\* ACTION: the next engine call of the method under way, and the method's end
\* after the last one.
EngineCall ==
  /\ ~Idle
  /\ engine' = Perform(engine, Head(pending))
  /\ pending' = Tail(pending)
  /\ unsettled' = (unsettled /\ Head(pending) # Sync)
  /\ IF Len(pending) = 1
       THEN fields' = result.fields /\ log' = result.log /\ result' = Nil
       ELSE UNCHANGED <<fields, log, result>>
  /\ UNCHANGED spent

\* Everything in memory goes; the log is opened on engine e.
Started(e, l) ==
  /\ engine' = e
  /\ fields' = LogNew(e)
  /\ pending' = <<>>
  /\ result' = Nil
  /\ log' = l

\* ACTION: the process is killed or the power fails; n records of the file are
\* left, and perhaps the beginning of another.
Crash(n, torn) ==
  /\ log # Nil
  /\ n \in engine.synced .. Len(engine.file)
  /\ Spend("crashes", MaxCrashes)
  /\ unsettled' = ((unsettled \/ ~Idle) /\ n > engine.synced)
  /\ LET e == Open(engine, Remains(engine, n, torn))
     IN Started(e, IF engine.renamed /\ n < Len(engine.file) THEN Nil
                   ELSE AsLog(e, LogNew(e), log.synced))

\* The live keys in the order of their encoding: entries first.
KeyOrder(e) ==
  LET IfLive(key) == IF Live(e, key) THEN <<key>> ELSE <<>>
  IN [k \in 1 .. Cardinality(Indexes(e)) |-> EntryKey(InOrder(Indexes(e))[k])]
     \o IfLive(TermVote) \o IfLive(CommitIndex)
     \o IfLive(SnapshotMeta) \o IfLive(SnapshotData)

\* ACTION: the engine is dropped, which flushes it, and opened again, and may
\* then be compacted (new_maybe_compact).
Reopen(compact) ==
  /\ Idle
  /\ log # Nil
  /\ Spend("reopens", MaxReopens)
  /\ unsettled' = FALSE
  /\ LET e == Open(Flush(engine), engine.file)
     IN Started(IF compact THEN Compact(e, KeyOrder(e)) ELSE e, Flushed(log))

Init ==
  /\ engine = NewEngine
  /\ fields = LogNew(engine)
  /\ pending = <<>>
  /\ result = Nil
  /\ log = EmptyLog(0)
  /\ unsettled = FALSE
  /\ spent = [what \in {"calls", "crashes", "reopens"} |-> 0]

Next ==
  \/ \E t \in 1 .. MaxTerm, v \in Voter \cup {Nil} : CallSetTermVote(t, v)
  \/ CallAppendEntry
  \/ \E i \in 1 .. MaxIndex : CallCommit(i)
  \/ \E base \in 0 .. MaxIndex : \E n \in 1 .. MaxIndex - base :
       \E terms \in [1 .. n -> 1 .. MaxTerm] : CallSplice(base, terms)
  \/ CallSnapshot
  \/ \E i \in 1 .. MaxIndex, t \in 1 .. MaxTerm : CallInstall(i, t)
  \/ EngineCall
  \/ \E n \in 0 .. Len(engine.file), torn \in BOOLEAN : Crash(n, torn)
  \/ \E compact \in BOOLEAN : Reopen(compact)

Spec == Init /\ [][Next]_vars

-----------------------------------------------------------------------------
\* INV: Between two methods the records and the cached fields stand for the
\* value that RaftLog's functions compute: no entry is left over or missing,
\* opening the store now would give the same fields, and a state machine
\* restored now would have everything before the first entry.
StoreImplementsLog ==
  /\ engine.keydir = KeydirOf(engine.file)
  /\ Idle /\ log # Nil =>
       /\ fields = LogNew(engine)
       /\ log = AsLog(engine, fields, log.synced)
       /\ fields.lastTerm = LastTerm(log)
       /\ fields.commitTerm = CommitTerm(log)
       /\ RestoredAt(engine) >= SnapshotIndex(log)

\* A crash, and not a power loss that hits a compacted file which was renamed
\* into place before its contents were synced, or records of a method that a
\* kill interrupted before its flush: the process that was started on them has
\* used them (Log::new does not flush).
CrashStep ==
  /\ spent'["crashes"] > spent["crashes"]
  /\ engine.renamed \/ unsettled => Len(engine'.file) = Len(engine.file)

\* ACTION PROPERTY: A crash between two methods loses nothing but commit
\* indexes that were written and not flushed, whatever garbage is at the end
\* of the file: RaftCluster's Restart.
CrashBetweenMethods ==
  [][CrashStep /\ Idle =>
       \E c \in log.synced .. log.commit : log' = Reopened(log, c)]_vars

\* ACTION PROPERTY: A crash at any point keeps the term and the vote, or leaves
\* those that the method under way was about to return.
CrashKeepsVote ==
  [][CrashStep =>
       \/ fields'.term = fields.term /\ fields'.vote = fields.vote
       \/ /\ ~Idle
          /\ fields'.term = result.fields.term
          /\ fields'.vote = result.fields.vote]_vars

\* ACTION PROPERTY: A crash at any point keeps every committed entry, in the
\* log or in the snapshot that is restored; or it hit compact_to or
\* reset_with_snapshot between the last deletion and SnapshotMeta, and the log
\* that is opened shows it: it ends before its commit index.
CrashKeepsCommitted ==
  [][CrashStep =>
       \/ fields'.commit > fields'.last
       \/ \A k \in 1 .. log.commit :
            \/ k <= RestoredAt(engine')
            \/ /\ Stored(log, k)
               /\ Live(engine', EntryKey(k))
               /\ Get(engine', EntryKey(k)) = EntryAt(log, k)]_vars

\* ACTION PROPERTY: A crash inside a method that only adds entries leaves the
\* old log with some of them, in order and without a gap.
CrashInAppendLeavesPrefix ==
  [][CrashStep /\ ~Idle /\ log.first = result.log.first
               /\ IsPrefix(log.ents, result.log.ents) =>
       /\ log' # Nil
       /\ IsPrefix(log.ents, log'.ents)
       /\ IsPrefix(log'.ents, result.log.ents)]_vars
=============================================================================
