---------------------------- MODULE ReplicatedLog ----------------------------
(***************************************************************************)
(* What the cluster promises its clients and its state machines, without a *)
(* word about how: src/raft/mod.rs, a replicated state machine whose       *)
(* replicas run through one sequence of commands, and linearizable reads.  *)
(*                                                                         *)
(* One step of the cluster may choose commands, apply them and answer      *)
(* several clients at once, so a step is described by what may become of   *)
(* each variable.                                                          *)
(***************************************************************************)
EXTENDS Integers, Sequences, SequencesExt

CONSTANTS
  Replica,        \* the replicas
  Writers,        \* the requests that write; a write's command is its name
  Readers,        \* the requests that read
  Nil             \* a noop, and a request not asked yet

VARIABLES
  log,            \* the commands chosen so far, in order
  applied,        \* per replica: the commands its state machine has run
  asked,          \* per request: Nil or the writes acknowledged before it
  replies         \* per request: the answers given to it, in order

vars == <<log, applied, asked, replies>>

Init ==
  /\ log = <<>>
  /\ applied = [r \in Replica |-> <<>>]
  /\ \A id \in DOMAIN asked : asked[id] = Nil
  /\ \A id \in DOMAIN replies : replies[id] = <<>>

Ok(id) == \E k \in 1 .. Len(replies[id]) : replies[id][k].status = "Ok"

\* What is chosen stays chosen, at its place.
Choose == IsPrefix(log, log')

\* A state machine runs ahead along the log, or restarts and is somewhere on it.
Run == \A r \in Replica : IsPrefix(applied'[r], log')

\* A request is asked once; what was acknowledged by then it will have to see.
Ask == \A id \in DOMAIN asked :
         asked'[id] # asked[id] =>
           asked[id] = Nil /\ asked'[id] = {w \in DOMAIN replies : Ok(w)}

\* A request is answered at most once, and after it was asked: a write
\* successfully only when its command is chosen, a read with what some prefix
\* of the log leaves that has every write acknowledged before the read.
Answer ==
  \A id \in DOMAIN replies :
    replies'[id] # replies[id] =>
      /\ replies[id] = <<>>
      /\ Len(replies'[id]) = 1
      /\ asked'[id] # Nil
      /\ LET a == replies'[id][1]
         IN a.status = "Ok" =>
              /\ id \in Writers => id \in Range(log')
              /\ id \in Readers =>
                   /\ IsPrefix(a.data, log')
                   /\ asked'[id] \cap Writers \subseteq Range(a.data)

Next == Choose /\ Run /\ Ask /\ Answer

Spec == Init /\ [][Next]_vars
=============================================================================
