------------------------------ MODULE BitCask ------------------------------
(***************************************************************************)
(* The storage engine (src/storage/bitcask.rs) as a value and the          *)
(* functions on it that Engine's methods compute.                          *)
(*                                                                         *)
(*   file       the records of the log file in the order they were written *)
(*   synced     how many of them sync_all has made durable                 *)
(*   renamed    the file was put in place by a rename since the last sync  *)
(*   keydir     in memory: the place in the file of every live key's value *)
(*                                                                         *)
(* A record is a key with a value, a key with a tombstone, or the torn     *)
(* rest of a write that did not complete.                                  *)
(***************************************************************************)
EXTENDS Integers, Sequences

Record(key, value) == [kind |-> "value", key |-> key, value |-> value]
Tombstone(key) == [kind |-> "tombstone", key |-> key, value |-> <<>>]
Torn == [kind |-> "torn", key |-> <<>>, value |-> <<>>]

\* A record takes a key's place in the keydir, or takes the key out of it.
Located(keydir, rec, place) ==
  [k \in (DOMAIN keydir \ {rec.key})
         \cup (IF rec.kind = "value" THEN {rec.key} ELSE {}) |->
     IF k = rec.key THEN place ELSE keydir[k]]

NoKeys == [k \in {} |-> 0]

NewEngine == [file |-> <<>>, synced |-> 0, renamed |-> FALSE, keydir |-> NoKeys]

\* build_keydir, the reading: where the first n records of a file put the keys.
KeydirOf(file) ==
  LET upto[n \in 0 .. Len(file)] ==
        IF n = 0 THEN NoKeys ELSE Located(upto[n - 1], file[n], n)
  IN upto[Len(file)]

\* Mutant: an incomplete record is skipped but stays in the file.
OpenKeepsTorn(engine, file) ==
  LET torn == {n \in 1 .. Len(file) : file[n].kind = "torn"}
      whole == IF torn = {} THEN Len(file)
               ELSE (CHOOSE n \in torn : \A m \in torn : n <= m) - 1
  IN [engine EXCEPT !.file = file, !.keydir = KeydirOf(SubSeq(file, 1, whole))]

\* BitCask::new on what is left of an engine's file, which is truncated at the
\* first incomplete record.
Open(engine, file) ==
  LET torn == {n \in 1 .. Len(file) : file[n].kind = "torn"}
      whole == IF torn = {} THEN Len(file)
               ELSE (CHOOSE n \in torn : \A m \in torn : n <= m) - 1
      kept == SubSeq(file, 1, whole)
  IN [engine EXCEPT !.file = kept, !.keydir = KeydirOf(kept)]

Live(engine, key) == key \in DOMAIN engine.keydir

Get(engine, key) == engine.file[engine.keydir[key]].value

\* write_entry: one buffered write at the end of the file.
Written(engine, rec) ==
  [engine EXCEPT !.file = Append(@, rec),
                 !.keydir = Located(@, rec, Len(engine.file) + 1)]

Set(engine, key, value) == Written(engine, Record(key, value))

Delete(engine, key) == Written(engine, Tombstone(key))

\* flush: sync_all.
Flush(engine) ==
  [engine EXCEPT !.synced = Len(engine.file), !.renamed = FALSE]

\* compact: a new file with the live records (in some order of the keys)
\* replaces the old one by a rename, and is not synced.
Compact(engine, order) ==
  LET kept == [n \in 1 .. Len(order) |->
                 Record(order[n], Get(engine, order[n]))]
  IN [file |-> kept, synced |-> 0, renamed |-> TRUE, keydir |-> KeydirOf(kept)]

\* What a stop in the middle of things can leave of the file: a power loss the
\* records that were synced and some of those after them, a kill all of them;
\* and after them the beginning of one more.
Remains(engine, n, torn) ==
  SubSeq(engine.file, 1, n) \o IF torn THEN <<Torn>> ELSE <<>>
=============================================================================
