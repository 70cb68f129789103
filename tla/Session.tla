------------------------------- MODULE Session -------------------------------
(***************************************************************************)
(* The state machine that raft-node runs: Kv (src/raft/kv.rs) inside       *)
(* SessionState (src/raft/session.rs), as a value and the functions on it. *)
(*                                                                         *)
(*   applied     Kv.applied_index                                          *)
(*   data        the puts that took effect, in order; they determine       *)
(*               Kv.data                                                   *)
(*   sessions    per client id: Nil, or the last sequence number that took *)
(*               effect and the response it was given                      *)
(*                                                                         *)
(* A log entry is [id, seq, cmd]: a SessionCommand, a bare command (id Nil)*)
(* or a leader's noop (cmd Nil).  The response to a put is the index it    *)
(* was applied at; the empty response of a noop or of an outdated put is   *)
(* NoBytes, which no client can decode.                                    *)
(***************************************************************************)
EXTENDS Integers, Sequences

CONSTANTS ClientIds, Nil

NoBytes == 0

NewState ==
  [applied |-> 0, data |-> <<>>, sessions |-> [c \in ClientIds |-> Nil]]

Result(state, resp) == [state |-> state, resp |-> resp]

\* Kv::apply: a put takes effect and is answered with its index.
KvApply(state, index, cmd) ==
  IF cmd = Nil THEN Result([state EXCEPT !.applied = index], NoBytes)
  ELSE Result([state EXCEPT !.applied = index, !.data = Append(@, cmd)], index)

\* Mutant: only the retry of the last put is recognised.
SessionApplyStaleRuns(state, index, e) ==
  LET r == KvApply(state, index, e.cmd)
      last == state.sessions[e.id]
  IN IF e.cmd = Nil \/ e.id = Nil THEN r
     ELSE IF last # Nil /\ e.seq = last.seq
       THEN Result(KvApply(state, index, Nil).state, last.resp)
     ELSE Result([r.state EXCEPT !.sessions[e.id] =
                    [seq |-> e.seq, resp |-> r.resp]], r.resp)

\* Mutant: every number not above the last one is answered from the cache.
SessionApplyStaleCached(state, index, e) ==
  LET r == KvApply(state, index, e.cmd)
      last == state.sessions[e.id]
  IN IF e.cmd = Nil \/ e.id = Nil THEN r
     ELSE IF last # Nil /\ e.seq <= last.seq
       THEN Result(KvApply(state, index, Nil).state, last.resp)
     ELSE Result([r.state EXCEPT !.sessions[e.id] =
                    [seq |-> e.seq, resp |-> r.resp]], r.resp)

\* SessionState::apply: a number above the client's last one takes effect, the
\* last one again is answered from the cache, an older one with no bytes.
SessionApply(state, index, e) ==
  LET run == KvApply(state, index, e.cmd)
      skip == KvApply(state, index, Nil).state
      last == state.sessions[e.id]
  IN IF e.cmd = Nil \/ e.id = Nil THEN run
     ELSE IF last # Nil /\ e.seq = last.seq THEN Result(skip, last.resp)
     ELSE IF last # Nil /\ e.seq < last.seq THEN Result(skip, NoBytes)
     ELSE Result([run.state EXCEPT !.sessions[e.id] =
                    [seq |-> e.seq, resp |-> run.resp]], run.resp)

\* Mutant: the sessions are not part of the snapshot.
SnapshotWithoutSessions(state) ==
  [applied |-> state.applied, data |-> state.data, sessions |-> {}]

\* SessionState::snapshot: Kv, and a list of the clients' last numbers and
\* responses.
Snapshot(state) ==
  [applied |-> state.applied, data |-> state.data,
   sessions |-> {[id |-> c, last |-> state.sessions[c]] :
                   c \in {k \in ClientIds : state.sessions[k] # Nil}}]

\* SessionState::restore, at the index the snapshot stands for: Kv keeps the
\* larger of that and the index in the snapshot.
Restore(snapshot, index) ==
  [applied |-> IF index > snapshot.applied THEN index ELSE snapshot.applied,
   data |-> snapshot.data,
   sessions |-> [c \in ClientIds |->
     IF \E s \in snapshot.sessions : s.id = c
       THEN (CHOOSE s \in snapshot.sessions : s.id = c).last
       ELSE Nil]]
=============================================================================
