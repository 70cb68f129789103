---------------------------- MODULE StorageProofs ----------------------------
(***************************************************************************)
(* Proofs about LogStorage: that the log kept in the storage engine is the *)
(* RaftLog value its methods compute, and what a crash leaves of it.       *)
(*                                                                         *)
(* A file is read as the picture it gives of the log: the term and vote,   *)
(* the commit index, the snapshot and the entries (Pic).  The invariant    *)
(* speaks of the file as it will be when the method under way is done      *)
(* (Future), and of the picture that each beginning of it gives (At): a    *)
(* stop leaves a beginning of the file, so that what a crash leaves is a   *)
(* picture the invariant has already looked at.                            *)
(***************************************************************************)
EXTENDS LogStorage, NumberProofs, FiniteSetTheorems, SequenceTheorems

-----------------------------------------------------------------------------
(* Where the records of a file put the keys.                               *)

\* The keydir after each number of records.
Upto(f, file, n) ==
  IF n = 0 THEN NoKeys ELSE Located(f[n - 1], file[n], n)

KeydirsOf(file) == CHOOSE f : f = [n \in 0 .. Len(file) |-> Upto(f, file, n)]

\* The recursive definition of the keydirs has its one value.
LEMMA KeydirsExist ==
  ASSUME NEW S, NEW file \in Seq(S)
  PROVE  KeydirsOf(file) = [n \in 0 .. Len(file) |-> Upto(KeydirsOf(file), file, n)]
<1> DEFINE Till(f, n) == f = [k \in 0 .. n |-> Upto(f, file, k)]
           T == {n \in Nat : \E f : Till(f, n)}
<1>1. 0 \in T
  <2> DEFINE f == [k \in 0 .. 0 |-> NoKeys]
  <2>1. f = [k \in 0 .. 0 |-> Upto(f, file, k)]
    BY DEF Upto
  <2> QED BY <2>1
<1>2. \A n \in T : n + 1 \in T
  <2> TAKE n \in T
  <2>1. PICK f : Till(f, n)
    OBVIOUS
  <2> DEFINE g == [k \in 0 .. n + 1 |->
                     IF k <= n THEN f[k] ELSE Located(f[n], file[n + 1], n + 1)]
  <2>2. n \in Nat
    OBVIOUS
  <2>7. \A k \in 0 .. n : f[k] = Upto(f, file, k)
    BY <2>1
  <2>3. \A k \in 0 .. n : g[k] = f[k]
    BY <2>2
  <2>4. \A k \in 0 .. n + 1 : g[k] = Upto(g, file, k)
    <3> TAKE k \in 0 .. n + 1
    <3>1. CASE k <= n
      <4>1. f[k] = Upto(f, file, k)
        BY <2>7, <2>2, <3>1
      <4>2. k # 0 => g[k - 1] = f[k - 1]
        BY <2>2, <2>3, <3>1
      <4> QED BY <2>2, <2>3, <3>1, <4>1, <4>2 DEF Upto
    <3>2. CASE ~(k <= n)
      <4>1. k = n + 1 /\ k # 0 /\ k - 1 = n /\ n \in 0 .. n
        BY <2>2, <3>2
      <4>2. g[k] = Located(f[n], file[n + 1], n + 1)
        BY <2>2, <3>2, <4>1
      <4>3. g[k - 1] = f[n]
        BY <2>3, <4>1
      <4> HIDE DEF g
      <4> QED BY <4>1, <4>2, <4>3 DEF Upto
    <3> QED BY <3>1, <3>2
  <2>5. g = [k \in 0 .. n + 1 |-> Upto(g, file, k)]
    <3>1. g = [k \in 0 .. n + 1 |-> g[k]]
      OBVIOUS
    <3> HIDE DEF g
    <3> QED BY <2>4, <3>1
  <2>6. \E h : Till(h, n + 1)
    BY <2>5
  <2> QED BY <2>2, <2>6
<1>3. T \in SUBSET Nat
  OBVIOUS
<1>4. Len(file) \in T
  <2> HIDE DEF T
  <2>1. \A n \in Nat : n \in T
    BY <1>1, <1>2, <1>3, SetInduction
  <2> QED BY <2>1
<1>5. \E f : Till(f, Len(file))
  BY <1>4
<1> QED BY <1>5, Zenon DEF KeydirsOf

\* A record changes the keydir that the records before it give.
LEMMA KeydirsUnfold ==
  ASSUME NEW S, NEW file \in Seq(S)
  PROVE  /\ KeydirsOf(file)[0] = NoKeys
         /\ \A n \in 1 .. Len(file) :
              KeydirsOf(file)[n] = Located(KeydirsOf(file)[n - 1], file[n], n)
         /\ KeydirOf(file) = KeydirsOf(file)[Len(file)]
<1> DEFINE f == KeydirsOf(file)
<1>1. f = [n \in 0 .. Len(file) |-> Upto(f, file, n)] /\ Len(file) \in Nat
  BY KeydirsExist
<1>2. KeydirOf(file) = f[Len(file)]
  BY DEF KeydirOf, KeydirsOf, Upto
<1> HIDE DEF f
<1>3. \A n \in 0 .. Len(file) : f[n] = Upto(f, file, n)
  BY <1>1
<1>4. f[0] = NoKeys
  BY <1>1, <1>3 DEF Upto
<1>5. ASSUME NEW n \in 1 .. Len(file)
      PROVE  f[n] = Located(f[n - 1], file[n], n)
  <2>1. n \in 0 .. Len(file) /\ n # 0
    BY <1>1
  <2> QED BY <1>3, <2>1 DEF Upto
<1> QED BY <1>2, <1>4, <1>5 DEF f

\* A prefix of a file has the keydirs of the file.
LEMMA KeydirsAgree ==
  ASSUME NEW S, NEW a \in Seq(S), NEW b \in Seq(S), NEW n \in Nat,
         n <= Len(a), n <= Len(b), \A k \in 1 .. n : a[k] = b[k]
  PROVE  \A k \in 0 .. n : KeydirsOf(a)[k] = KeydirsOf(b)[k]
<1> DEFINE f == KeydirsOf(a)
           g == KeydirsOf(b)
           T == {k \in Nat : k <= n => f[k] = g[k]}
<1>1. /\ f[0] = NoKeys /\ g[0] = NoKeys
      /\ \A k \in 1 .. Len(a) : f[k] = Located(f[k - 1], a[k], k)
      /\ \A k \in 1 .. Len(b) : g[k] = Located(g[k - 1], b[k], k)
      /\ Len(a) \in Nat /\ Len(b) \in Nat
  BY KeydirsUnfold
<1> HIDE DEF f, g
<1>2. 0 \in T
  BY <1>1
<1>3. \A k \in T : k + 1 \in T
  <2> TAKE k \in T
  <2>1. k \in Nat /\ (k <= n => f[k] = g[k])
    OBVIOUS
  <2>2. CASE k + 1 <= n
    <3>1. k + 1 \in 1 .. n /\ k + 1 \in 1 .. Len(a) /\ k + 1 \in 1 .. Len(b)
          /\ (k + 1) - 1 = k /\ f[k] = g[k]
      BY <1>1, <2>1, <2>2
    <3>2. /\ f[k + 1] = Located(f[(k + 1) - 1], a[k + 1], k + 1)
          /\ g[k + 1] = Located(g[(k + 1) - 1], b[k + 1], k + 1)
          /\ a[k + 1] = b[k + 1]
      BY <1>1, <3>1
    <3> QED BY <2>1, <3>1, <3>2
  <2> QED BY <2>1, <2>2
<1>4. \A k \in Nat : k \in T
  <2>1. T \in SUBSET Nat
    OBVIOUS
  <2> HIDE DEF T
  <2> QED BY <1>2, <1>3, <2>1, SetInduction
<1> QED BY <1>4 DEF f, g

-----------------------------------------------------------------------------
(* What a file shows: the live keys with their values.                     *)

NothingShown == [k \in {} |-> <<>>]

Shown(file, n) ==
  LET d == KeydirsOf(file)[n] IN [k \in DOMAIN d |-> file[d[k]].value]

\* A record added to what is shown.
Changed(w, rec) ==
  [k \in (DOMAIN w \ {rec.key}) \cup (IF rec.kind = "value" THEN {rec.key} ELSE {}) |->
     IF k = rec.key THEN rec.value ELSE w[k]]

\* A record changes what the records before it show.
LEMMA ShownUnfolds ==
  ASSUME NEW S, NEW file \in Seq(S)
  PROVE  /\ Shown(file, 0) = NothingShown
         /\ \A n \in 1 .. Len(file) :
              Shown(file, n) = Changed(Shown(file, n - 1), file[n])
<1>1. KeydirsOf(file)[0] = NoKeys
  BY KeydirsUnfold
<1>2. Shown(file, 0) = NothingShown
  <2>1. DOMAIN KeydirsOf(file)[0] = {}
    BY <1>1 DEF NoKeys
  <2>2. Shown(file, 0) = [k \in {} |-> file[KeydirsOf(file)[0][k]].value]
    BY <2>1 DEF Shown
  <2> QED BY <2>2 DEF NothingShown
<1>3. ASSUME NEW n \in 1 .. Len(file)
      PROVE  Shown(file, n) = Changed(Shown(file, n - 1), file[n])
  <2> DEFINE d == KeydirsOf(file)[n - 1]
             c == KeydirsOf(file)[n]
             r == file[n]
             K == (DOMAIN d \ {r.key}) \cup (IF r.kind = "value" THEN {r.key} ELSE {})
  <2>1. c = Located(d, r, n)
    BY KeydirsUnfold
  <2>2. DOMAIN c = K /\ \A k \in K : c[k] = IF k = r.key THEN n ELSE d[k]
    BY <2>1 DEF Located
  <2>3. Shown(file, n) = [k \in K |-> file[c[k]].value]
    BY <2>2 DEF Shown
  <2>4. Shown(file, n - 1) = [k \in DOMAIN d |-> file[d[k]].value]
    BY DEF Shown
  <2>5. Changed(Shown(file, n - 1), r) =
          [k \in K |-> IF k = r.key THEN r.value ELSE file[d[k]].value]
    <3> HIDE DEF d, r
    <3>1. DOMAIN Shown(file, n - 1) = DOMAIN d
      BY <2>4
    <3>2. \A k \in DOMAIN d : Shown(file, n - 1)[k] = file[d[k]].value
      BY <2>4
    <3>3. \A k \in K : k # r.key => k \in DOMAIN d
      OBVIOUS
    <3> QED BY <3>1, <3>2, <3>3 DEF Changed
  <2>6. \A k \in K : file[c[k]].value = IF k = r.key THEN r.value ELSE file[d[k]].value
    BY <2>2
  <2> HIDE DEF c, d, r, K
  <2> QED BY <2>3, <2>5, <2>6 DEF r
<1> QED BY <1>2, <1>3

\* A prefix of a file shows what the file shows at that place.
LEMMA ShownAgrees ==
  ASSUME NEW S, NEW a \in Seq(S), NEW b \in Seq(S), NEW n \in Nat,
         n <= Len(a), n <= Len(b), \A k \in 1 .. n : a[k] = b[k]
  PROVE  \A k \in 0 .. n : Shown(a, k) = Shown(b, k)
<1> DEFINE T == {k \in Nat : k <= n => Shown(a, k) = Shown(b, k)}
<1>1. /\ Shown(a, 0) = NothingShown /\ Shown(b, 0) = NothingShown
      /\ \A k \in 1 .. Len(a) : Shown(a, k) = Changed(Shown(a, k - 1), a[k])
      /\ \A k \in 1 .. Len(b) : Shown(b, k) = Changed(Shown(b, k - 1), b[k])
      /\ Len(a) \in Nat /\ Len(b) \in Nat
  BY ShownUnfolds
<1>2. 0 \in T
  BY <1>1
<1>3. \A k \in T : k + 1 \in T
  <2> TAKE k \in T
  <2>1. k \in Nat /\ (k <= n => Shown(a, k) = Shown(b, k))
    OBVIOUS
  <2>2. CASE k + 1 <= n
    <3>1. k + 1 \in 1 .. n /\ k + 1 \in 1 .. Len(a) /\ k + 1 \in 1 .. Len(b)
          /\ (k + 1) - 1 = k /\ Shown(a, k) = Shown(b, k)
      BY <1>1, <2>1, <2>2
    <3>2. /\ Shown(a, k + 1) = Changed(Shown(a, (k + 1) - 1), a[k + 1])
          /\ Shown(b, k + 1) = Changed(Shown(b, (k + 1) - 1), b[k + 1])
          /\ a[k + 1] = b[k + 1]
      BY <1>1, <3>1
    <3> QED BY <2>1, <3>1, <3>2
  <2> QED BY <2>1, <2>2
<1>4. \A k \in Nat : k \in T
  <2>1. T \in SUBSET Nat
    OBVIOUS
  <2> HIDE DEF T
  <2> QED BY <1>2, <1>3, <2>1, SetInduction
<1> QED BY <1>4

-----------------------------------------------------------------------------
(* Engines.                                                                *)

\* The keys that Log uses, and the records that an engine writes.
Keys == {EntryKey(k) : k \in Nat} \cup {TermVote, CommitIndex, SnapshotMeta, SnapshotData}

WholeRecord(r) ==
  \/ r.kind = "value" /\ r.key \in Keys
  \/ r.kind = "tombstone" /\ \E k \in Nat : r.key = EntryKey(k)

\* An engine that has every record of its file.
Whole(e) ==
  /\ \E S : e.file \in Seq(S)
  /\ \A p \in 1 .. Len(e.file) : WholeRecord(e.file[p])
  /\ e.keydir = KeydirOf(e.file)
  /\ e = [file |-> e.file, synced |-> e.synced, renamed |-> e.renamed,
          keydir |-> e.keydir]
  /\ e.synced \in 0 .. Len(e.file)
  /\ e.renamed \in BOOLEAN

\* What an engine shows.
Sight(e) == Shown(e.file, Len(e.file))

\* A key is live when it is shown, and get returns what is shown.
LEMMA WholeShows ==
  ASSUME NEW e, Whole(e)
  PROVE  /\ \A k : Live(e, k) <=> k \in DOMAIN Sight(e)
         /\ \A k \in DOMAIN Sight(e) : Get(e, k) = Sight(e)[k]
<1>1. PICK S : e.file \in Seq(S)
  BY DEF Whole
<1>2. e.keydir = KeydirsOf(e.file)[Len(e.file)]
  BY <1>1, KeydirsUnfold DEF Whole
<1>3. Sight(e) = [k \in DOMAIN e.keydir |-> e.file[e.keydir[k]].value]
  BY <1>2 DEF Sight, Shown
<1> QED BY <1>3 DEF Live, Get

\* The keys shown are those of Log.
LEMMA ShownKeys ==
  ASSUME NEW S, NEW file \in Seq(S), \A p \in 1 .. Len(file) : WholeRecord(file[p])
  PROVE  \A n \in 0 .. Len(file) : DOMAIN Shown(file, n) \subseteq Keys
<1> DEFINE T == {n \in Nat : n <= Len(file) => DOMAIN Shown(file, n) \subseteq Keys}
<1>1. /\ Shown(file, 0) = NothingShown /\ Len(file) \in Nat
      /\ \A n \in 1 .. Len(file) : Shown(file, n) = Changed(Shown(file, n - 1), file[n])
  BY ShownUnfolds
<1>2. 0 \in T
  BY <1>1 DEF NothingShown
<1>3. \A n \in T : n + 1 \in T
  <2> TAKE n \in T
  <2>1. n \in Nat /\ (n <= Len(file) => DOMAIN Shown(file, n) \subseteq Keys)
    OBVIOUS
  <2>2. CASE n + 1 <= Len(file)
    <3>1. n + 1 \in 1 .. Len(file) /\ (n + 1) - 1 = n /\ DOMAIN Shown(file, n) \subseteq Keys
      BY <1>1, <2>1, <2>2
    <3>2. Shown(file, n + 1) = Changed(Shown(file, n), file[n + 1])
      BY <1>1, <3>1
    <3>3. file[n + 1].key \in Keys
      BY <3>1 DEF WholeRecord, Keys
    <3>4. DOMAIN Shown(file, n + 1) \subseteq Keys
      <4> HIDE DEF T
      <4> QED BY <3>1, <3>2, <3>3 DEF Changed
    <3> QED BY <2>1, <3>4
  <2> QED BY <2>1, <2>2
<1>4. \A n \in Nat : n \in T
  <2>1. T \in SUBSET Nat
    OBVIOUS
  <2> HIDE DEF T
  <2> QED BY <1>2, <1>3, <2>1, SetInduction
<1> QED BY <1>4

\* A new engine has every record of its file, which has none.
LEMMA NewEngineWhole == Whole(NewEngine) /\ Sight(NewEngine) = NothingShown
<1> DEFINE none == <<>>
<1>1. none \in Seq({}) /\ Len(none) = 0
  BY EmptySeq
<1>2. KeydirOf(none) = KeydirsOf(none)[0] /\ KeydirsOf(none)[0] = NoKeys
      /\ Shown(none, 0) = NothingShown
  BY <1>1, KeydirsUnfold, ShownUnfolds
<1>3. NewEngine.file = none /\ NewEngine.keydir = NoKeys /\ NewEngine.synced = 0
      /\ NewEngine.renamed = FALSE
  BY DEF NewEngine
<1>4. NewEngine = [file |-> NewEngine.file, synced |-> NewEngine.synced,
                   renamed |-> NewEngine.renamed, keydir |-> NewEngine.keydir]
  BY DEF NewEngine
<1> HIDE DEF none
<1>5. Whole(NewEngine)
  <2>1. \E S : NewEngine.file \in Seq(S)
    BY <1>1, <1>3
  <2>2. \A p \in 1 .. Len(NewEngine.file) : WholeRecord(NewEngine.file[p])
    BY <1>1, <1>3
  <2>3. NewEngine.keydir = KeydirOf(NewEngine.file)
    BY <1>1, <1>2, <1>3
  <2>4. NewEngine.synced \in 0 .. Len(NewEngine.file) /\ NewEngine.renamed \in BOOLEAN
    <3>1. Len(NewEngine.file) = 0
      BY <1>1, <1>3
    <3>2. NewEngine.synced = 0 /\ NewEngine.renamed = FALSE
      BY DEF NewEngine
    <3>3. 0 \in 0 .. Len(NewEngine.file)
      BY <3>1
    <3>4. NewEngine.synced \in 0 .. Len(NewEngine.file)
      BY <3>2, <3>3, Zenon
    <3>5. NewEngine.renamed \in BOOLEAN
      BY <3>2, Zenon
    <3> QED BY <3>4, <3>5
  <2> QED BY <1>4, <2>1, <2>2, <2>3, <2>4 DEF Whole
<1> QED BY <1>1, <1>2, <1>3, <1>5 DEF Sight

\* set and delete add a record and change what is shown by it.
LEMMA WrittenWhole ==
  ASSUME NEW e, Whole(e), NEW r, WholeRecord(r)
  PROVE  LET w == Written(e, r)
         IN /\ Whole(w) /\ w.synced = e.synced /\ w.renamed = e.renamed
            /\ Len(w.file) = Len(e.file) + 1
            /\ \A n \in 0 .. Len(e.file) : Shown(w.file, n) = Shown(e.file, n)
            /\ Sight(w) = Changed(Sight(e), r)
<1> DEFINE w == Written(e, r)
           m == Append(e.file, r)
           n == Len(e.file)
<1>1. PICK S : e.file \in Seq(S)
  BY DEF Whole
<1>2. e.file \in Seq(S \cup {r})
  BY <1>1, SeqDef
<1>3. /\ m \in Seq(S \cup {r}) /\ n \in Nat /\ Len(m) = n + 1 /\ m[n + 1] = r
      /\ \A k \in 1 .. n : m[k] = e.file[k]
  BY <1>2
<1>4. /\ w.file = m /\ w.keydir = Located(e.keydir, r, n + 1)
      /\ w.synced = e.synced /\ w.renamed = e.renamed
      /\ w = [file |-> w.file, synced |-> w.synced, renamed |-> w.renamed,
              keydir |-> w.keydir]
  <2> DEFINE f == e.file
             d == e.keydir
             s == e.synced
             b == e.renamed
  <2>1. e = [file |-> f, synced |-> s, renamed |-> b, keydir |-> d]
    BY DEF Whole
  <2>2. w = [e EXCEPT !.file = Append(e.file, r),
                      !.keydir = Located(e.keydir, r, Len(e.file) + 1)]
    BY DEF Written
  <2> HIDE DEF w, f, d, s, b
  <2>3. w = [file |-> Append(f, r), synced |-> s, renamed |-> b,
             keydir |-> Located(d, r, Len(f) + 1)]
    BY <2>1, <2>2
  <2> QED BY <2>3 DEF f, d, s, b
<1> HIDE DEF w, m, n
<1>5. /\ \A k \in 0 .. n : KeydirsOf(m)[k] = KeydirsOf(e.file)[k]
      /\ \A k \in 0 .. n : Shown(m, k) = Shown(e.file, k)
  <2> DEFINE R == S \cup {r}
  <2>1. /\ m \in Seq(R) /\ e.file \in Seq(R) /\ n \in Nat
        /\ n <= Len(m) /\ n <= Len(e.file)
        /\ \A k \in 1 .. n : m[k] = e.file[k]
    BY <1>2, <1>3 DEF n
  <2> HIDE DEF R
  <2> QED BY <2>1, KeydirsAgree, ShownAgrees
<1>6. \A k \in 0 .. n : Shown(m, k) = Shown(e.file, k)
  BY <1>5
<1>7. KeydirOf(m) = Located(KeydirsOf(m)[n], r, n + 1)
  <2>1. n + 1 \in 1 .. Len(m) /\ (n + 1) - 1 = n
    BY <1>3
  <2> QED BY <1>3, <2>1, KeydirsUnfold
<1>8. KeydirsOf(e.file)[n] = e.keydir
  BY <1>1, KeydirsUnfold DEF Whole, n
<1>9. Shown(m, n + 1) = Changed(Shown(m, n), r)
  <2>1. n + 1 \in 1 .. Len(m) /\ (n + 1) - 1 = n
    BY <1>3
  <2> QED BY <1>3, <2>1, ShownUnfolds
<1>10. w.keydir = KeydirOf(w.file)
  BY <1>3, <1>4, <1>5, <1>7, <1>8
<1>11. \A p \in 1 .. Len(m) : WholeRecord(m[p])
  BY <1>3 DEF Whole, n
<1>12. Whole(w)
  BY <1>3, <1>4, <1>10, <1>11 DEF Whole, n
<1>13. Sight(w) = Changed(Sight(e), r)
  BY <1>3, <1>4, <1>6, <1>9 DEF Sight, n
<1> QED BY <1>3, <1>4, <1>6, <1>12, <1>13 DEF w, n

\* flush changes nothing that is shown.
LEMMA FlushWhole ==
  ASSUME NEW e, Whole(e)
  PROVE  /\ Whole(Flush(e)) /\ Flush(e).file = e.file
         /\ Flush(e).synced = Len(e.file) /\ Flush(e).renamed = FALSE
<1> DEFINE f == e.file
           d == e.keydir
           s == e.synced
           b == e.renamed
           w == Flush(e)
<1>1. e = [file |-> f, synced |-> s, renamed |-> b, keydir |-> d]
  BY DEF Whole
<1>2. w = [e EXCEPT !.synced = Len(f), !.renamed = FALSE]
  BY DEF Flush
<1> HIDE DEF w, f, d, s, b
<1>3. w = [file |-> f, synced |-> Len(f), renamed |-> FALSE, keydir |-> d]
  BY <1>1, <1>2
<1>4. Len(f) \in 0 .. Len(f)
  <2>1. PICK S : f \in Seq(S)
    BY DEF Whole, f
  <2> QED BY <2>1
<1> QED BY <1>3, <1>4 DEF Whole, f, d, w

\* Opening what a stop left of the file: the records that are whole.
LEMMA OpenWhole ==
  ASSUME NEW e, Whole(e), NEW n \in 0 .. Len(e.file), n >= e.synced, NEW torn \in BOOLEAN
  PROVE  LET o == Open(e, Remains(e, n, torn))
         IN /\ Whole(o) /\ o.synced = e.synced /\ o.renamed = e.renamed
            /\ Len(o.file) = n /\ o.file = SubSeq(e.file, 1, n)
            /\ \A k \in 0 .. n : Shown(o.file, k) = Shown(e.file, k)
<1> DEFINE left == Remains(e, n, torn)
           T == {p \in 1 .. Len(left) : left[p].kind = "torn"}
           whole == IF T = {} THEN Len(left)
                    ELSE (CHOOSE p \in T : \A q \in T : p <= q) - 1
           kept == SubSeq(e.file, 1, n)
           o == Open(e, left)
<1>1. PICK S : e.file \in Seq(S)
  BY DEF Whole
<1>2. /\ kept \in Seq(S) /\ Len(kept) = n /\ n \in Nat /\ Len(e.file) \in Nat
      /\ \A k \in 1 .. n : kept[k] = e.file[k]
  BY <1>1
<1>3. \A p \in 1 .. n : kept[p].kind # "torn"
  <2>1. \A p \in 1 .. Len(e.file) : WholeRecord(e.file[p])
    BY DEF Whole
  <2>2. \A p \in 1 .. n : WholeRecord(kept[p])
    BY <1>2, <2>1
  <2> QED BY <2>2 DEF WholeRecord
<1> HIDE DEF kept
<1>4. left = kept \o (IF torn THEN <<Torn>> ELSE <<>>)
  BY DEF Remains, kept
<1>5. whole = n /\ SubSeq(left, 1, whole) = kept
  <2> HIDE DEF left
  <2>1. CASE torn
    <3>1. left = kept \o <<Torn>>
      BY <1>4, <2>1
    <3>2. kept \in Seq(S \cup {Torn}) /\ <<Torn>> \in Seq(S \cup {Torn})
      BY <1>2, SeqDef
    <3>3. /\ left \in Seq(S \cup {Torn}) /\ Len(left) = n + 1 /\ left[n + 1] = Torn
          /\ \A p \in 1 .. n : left[p] = kept[p]
      BY <1>2, <3>1, <3>2
    <3>4. T = {n + 1}
      BY <1>2, <1>3, <3>3 DEF Torn
    <3>5. whole = n
      <4> DEFINE c == CHOOSE p \in T : \A q \in T : p <= q
      <4> HIDE DEF T
      <4>1. \E p \in T : \A q \in T : p <= q
        <5>1. n + 1 <= n + 1
          BY <1>2
        <5> QED BY <3>4, <5>1
      <4>2. c \in T
        BY <4>1, Zenon
      <4>3. T # {} /\ c = n + 1
        <5> HIDE DEF c
        <5> QED BY <3>4, <4>2
      <4>4. whole = c - 1
        BY <4>3
      <4> HIDE DEF whole, c
      <4> QED BY <1>2, <4>3, <4>4
    <3>6. /\ SubSeq(left, 1, n) \in Seq(S \cup {Torn}) /\ Len(SubSeq(left, 1, n)) = n
          /\ \A p \in 1 .. n : SubSeq(left, 1, n)[p] = left[p]
      BY <1>2, <3>3
    <3>7. SubSeq(left, 1, n) = kept
      BY <1>2, <3>3, <3>6
    <3> HIDE DEF whole
    <3> QED BY <3>5, <3>7
  <2>2. CASE ~torn
    <3>1. left = kept
      BY <1>2, <1>4, <2>2
    <3>2. T = {}
      BY <1>2, <1>3, <3>1
    <3>3. SubSeq(left, 1, n) = kept
      BY <1>2, <3>1
    <3> QED BY <1>2, <3>1, <3>2, <3>3
  <2> QED BY <2>1, <2>2
<1>6. o = [e EXCEPT !.file = SubSeq(left, 1, whole), !.keydir = KeydirOf(SubSeq(left, 1, whole))]
  BY DEF Open
<1> HIDE DEF left, o, whole
<1>7. o = [file |-> kept, synced |-> e.synced, renamed |-> e.renamed, keydir |-> KeydirOf(kept)]
  <2> DEFINE f == e.file
             d == e.keydir
             s == e.synced
             b == e.renamed
  <2>1. e = [file |-> f, synced |-> s, renamed |-> b, keydir |-> d]
    BY DEF Whole
  <2>2. o = [e EXCEPT !.file = kept, !.keydir = KeydirOf(kept)]
    BY <1>5, <1>6
  <2> HIDE DEF f, d, s, b
  <2>3. o = [file |-> kept, synced |-> s, renamed |-> b, keydir |-> KeydirOf(kept)]
    BY <2>1, <2>2
  <2> QED BY <2>3 DEF s, b
<1>8. \A p \in 1 .. n : WholeRecord(kept[p])
  BY <1>2 DEF Whole
<1>9. e.synced \in 0 .. n /\ e.renamed \in BOOLEAN
  BY <1>2 DEF Whole
<1>10. Whole(o)
  BY <1>2, <1>7, <1>8, <1>9 DEF Whole
<1>11. \A k \in 0 .. n : Shown(kept, k) = Shown(e.file, k)
  BY <1>1, <1>2, ShownAgrees
<1> QED BY <1>2, <1>7, <1>10, <1>11 DEF o, left, kept

-----------------------------------------------------------------------------
(* What is shown, by the keys of Log.                                      *)

Seen(w, key, default) == IF key \in DOMAIN w THEN w[key] ELSE default

Picture(tv, c, m, d, live, ents) ==
  [tv |-> tv, c |-> c, m |-> m, d |-> d, live |-> live, ents |-> ents]

\* The term and vote, the commit index, the snapshot's index and term, the
\* snapshot, if there is one, and the entries.
Pic(w) ==
  Picture(Seen(w, TermVote, <<0, Nil>>), Seen(w, CommitIndex, <<0, 0>>),
          Seen(w, SnapshotMeta, <<0, 0>>), Seen(w, SnapshotData, 0),
          SnapshotData \in DOMAIN w,
          [i \in {k \in Nat : EntryKey(k) \in DOMAIN w} |-> w[EntryKey(i)]])

Blank == Picture(<<0, Nil>>, <<0, 0>>, <<0, 0>>, 0, FALSE, [i \in {} |-> 0])

WithVote(p, tv) == Picture(tv, p.c, p.m, p.d, p.live, p.ents)
WithCommit(p, c) == Picture(p.tv, c, p.m, p.d, p.live, p.ents)
WithMeta(p, m) == Picture(p.tv, p.c, m, p.d, p.live, p.ents)
WithData(p, d) == Picture(p.tv, p.c, p.m, d, TRUE, p.ents)
WithEntries(p, f) == Picture(p.tv, p.c, p.m, p.d, p.live, f)

Entered(f, k, v) == [i \in DOMAIN f \cup {k} |-> IF i = k THEN v ELSE f[i]]
Removed(f, K) == [i \in DOMAIN f \ K |-> f[i]]

\* The keys of Log are different from each other.
LEMMA KeysDiffer ==
  /\ \A j, k : EntryKey(j) = EntryKey(k) => j = k
  /\ \A k : /\ EntryKey(k) # TermVote /\ EntryKey(k) # CommitIndex
            /\ EntryKey(k) # SnapshotMeta /\ EntryKey(k) # SnapshotData
  /\ TermVote # CommitIndex /\ TermVote # SnapshotMeta /\ TermVote # SnapshotData
  /\ CommitIndex # SnapshotMeta /\ CommitIndex # SnapshotData
  /\ SnapshotMeta # SnapshotData
BY DEF EntryKey, TermVote, CommitIndex, SnapshotMeta, SnapshotData

\* A file without records gives the picture of an empty log.
LEMMA PicBlank == Pic(NothingShown) = Blank
<1>1. DOMAIN NothingShown = {}
  BY DEF NothingShown
<1>2. {k \in Nat : EntryKey(k) \in DOMAIN NothingShown} = {}
  BY <1>1
<1>3. [i \in {} |-> NothingShown[EntryKey(i)]] = [i \in {} |-> 0]
  OBVIOUS
<1>4. Pic(NothingShown) =
        Picture(<<0, Nil>>, <<0, 0>>, <<0, 0>>, 0, SnapshotData \in DOMAIN NothingShown,
                [i \in {} |-> NothingShown[EntryKey(i)]])
  BY <1>1, <1>2 DEF Pic, Seen
<1>5. (SnapshotData \in DOMAIN NothingShown) = FALSE
  BY <1>1
<1> QED BY <1>3, <1>4, <1>5 DEF Blank

\* A key that is set shows its value, the others what they did.
LEMMA PicSet ==
  ASSUME NEW w, NEW key, NEW v
  PROVE  LET p == Pic(w)
             q == Pic(Changed(w, Record(key, v)))
         IN /\ key = TermVote => q = WithVote(p, v)
            /\ key = CommitIndex => q = WithCommit(p, v)
            /\ key = SnapshotMeta => q = WithMeta(p, v)
            /\ key = SnapshotData => q = WithData(p, v)
            /\ \A k \in Nat : key = EntryKey(k) => q = WithEntries(p, Entered(p.ents, k, v))
<1> DEFINE x == Changed(w, Record(key, v))
           E(z) == [i \in {k \in Nat : EntryKey(k) \in DOMAIN z} |-> z[EntryKey(i)]]
<1>1. DOMAIN x = DOMAIN w \cup {key} /\ \A k \in DOMAIN x : x[k] = IF k = key THEN v ELSE w[k]
  BY DEF Changed, Record
<1>2. \A k, d : Seen(x, k, d) = IF k = key THEN v ELSE Seen(w, k, d)
  <2> HIDE DEF x
  <2> QED BY <1>1 DEF Seen
<1> HIDE DEF x
<1>3. key \notin {EntryKey(k) : k \in Nat} => E(x) = E(w)
  <2> SUFFICES ASSUME key \notin {EntryKey(k) : k \in Nat}
               PROVE  E(x) = E(w)
    OBVIOUS
  <2>1. \A k \in Nat : EntryKey(k) \in DOMAIN x <=> EntryKey(k) \in DOMAIN w
    BY <1>1
  <2>2. {k \in Nat : EntryKey(k) \in DOMAIN x} = {k \in Nat : EntryKey(k) \in DOMAIN w}
    BY <2>1
  <2>3. \A k \in Nat : EntryKey(k) \in DOMAIN w => x[EntryKey(k)] = w[EntryKey(k)]
    BY <1>1
  <2> QED BY <2>2, <2>3
<1>4. key # SnapshotData => ((SnapshotData \in DOMAIN x) = (SnapshotData \in DOMAIN w))
  BY <1>1
<1>5. key = SnapshotData => ((SnapshotData \in DOMAIN x) = TRUE)
  BY <1>1
<1>6. key \in {TermVote, CommitIndex, SnapshotMeta, SnapshotData}
        => key \notin {EntryKey(k) : k \in Nat}
  BY KeysDiffer
<1>7. /\ Pic(x) = Picture(Seen(x, TermVote, <<0, Nil>>), Seen(x, CommitIndex, <<0, 0>>),
                          Seen(x, SnapshotMeta, <<0, 0>>), Seen(x, SnapshotData, 0),
                          SnapshotData \in DOMAIN x, E(x))
      /\ Pic(w).tv = Seen(w, TermVote, <<0, Nil>>) /\ Pic(w).c = Seen(w, CommitIndex, <<0, 0>>)
      /\ Pic(w).m = Seen(w, SnapshotMeta, <<0, 0>>) /\ Pic(w).d = Seen(w, SnapshotData, 0)
      /\ Pic(w).live = (SnapshotData \in DOMAIN w) /\ Pic(w).ents = E(w)
  BY DEF Pic, Picture
<1>8. ASSUME NEW k \in Nat, key = EntryKey(k)
      PROVE  E(x) = Entered(E(w), k, v)
  <2> DEFINE D(z) == {i \in Nat : EntryKey(i) \in DOMAIN z}
  <2>1. \A i \in Nat : EntryKey(i) \in DOMAIN x <=> EntryKey(i) \in DOMAIN w \/ i = k
    BY <1>1, <1>8, KeysDiffer
  <2>2. D(x) = D(w) \cup {k}
    BY <2>1
  <2>3. \A i \in D(x) : x[EntryKey(i)] = IF i = k THEN v ELSE w[EntryKey(i)]
    BY <1>1, <1>8, KeysDiffer
  <2>4. DOMAIN E(w) = D(w) /\ \A i \in D(w) : E(w)[i] = w[EntryKey(i)]
    OBVIOUS
  <2>5. E(x) = [i \in D(x) |-> x[EntryKey(i)]]
    OBVIOUS
  <2> HIDE DEF E, D
  <2>6. Entered(E(w), k, v) = [i \in D(x) |-> IF i = k THEN v ELSE E(w)[i]]
    BY <2>2, <2>4 DEF Entered
  <2>7. \A i \in D(x) : i # k => i \in D(w)
    BY <2>2
  <2> QED BY <2>3, <2>4, <2>5, <2>6, <2>7
<1> HIDE DEF E
<1>9. key = TermVote => Pic(x) = WithVote(Pic(w), v)
  BY <1>2, <1>3, <1>4, <1>6, <1>7, KeysDiffer DEF WithVote
<1>10. key = CommitIndex => Pic(x) = WithCommit(Pic(w), v)
  BY <1>2, <1>3, <1>4, <1>6, <1>7, KeysDiffer DEF WithCommit
<1>11. key = SnapshotMeta => Pic(x) = WithMeta(Pic(w), v)
  BY <1>2, <1>3, <1>4, <1>6, <1>7, KeysDiffer DEF WithMeta
<1>12. key = SnapshotData => Pic(x) = WithData(Pic(w), v)
  BY <1>2, <1>3, <1>5, <1>6, <1>7, KeysDiffer DEF WithData
<1>13. ASSUME NEW k \in Nat, key = EntryKey(k)
       PROVE  Pic(x) = WithEntries(Pic(w), Entered(Pic(w).ents, k, v))
  <2>1. E(x) = Entered(Pic(w).ents, k, v)
    BY <1>7, <1>8, <1>13
  <2> QED BY <1>2, <1>4, <1>7, <1>13, <2>1, KeysDiffer DEF WithEntries
<1> QED BY <1>9, <1>10, <1>11, <1>12, <1>13 DEF x

\* An entry's key that is deleted takes the entry away.
LEMMA PicDrop ==
  ASSUME NEW w, NEW k \in Nat
  PROVE  LET p == Pic(w)
         IN Pic(Changed(w, Tombstone(EntryKey(k)))) = WithEntries(p, Removed(p.ents, {k}))
<1> DEFINE key == EntryKey(k)
           x == Changed(w, Tombstone(key))
           E(z) == [i \in {j \in Nat : EntryKey(j) \in DOMAIN z} |-> z[EntryKey(i)]]
           D(z) == {i \in Nat : EntryKey(i) \in DOMAIN z}
<1>1. DOMAIN x = DOMAIN w \ {key} /\ \A j \in DOMAIN x : x[j] = w[j]
  BY DEF Changed, Tombstone
<1>2. /\ Seen(x, TermVote, <<0, Nil>>) = Seen(w, TermVote, <<0, Nil>>)
      /\ Seen(x, CommitIndex, <<0, 0>>) = Seen(w, CommitIndex, <<0, 0>>)
      /\ Seen(x, SnapshotMeta, <<0, 0>>) = Seen(w, SnapshotMeta, <<0, 0>>)
      /\ Seen(x, SnapshotData, 0) = Seen(w, SnapshotData, 0)
      /\ (SnapshotData \in DOMAIN x) = (SnapshotData \in DOMAIN w)
  <2> HIDE DEF x
  <2> QED BY <1>1, KeysDiffer DEF Seen
<1> HIDE DEF x
<1>3. D(x) = D(w) \ {k}
  <2>1. \A i \in Nat : EntryKey(i) \in DOMAIN x <=> EntryKey(i) \in DOMAIN w /\ i # k
    BY <1>1, KeysDiffer
  <2> QED BY <2>1
<1>4. \A i \in D(x) : x[EntryKey(i)] = w[EntryKey(i)]
  BY <1>1
<1>5. DOMAIN E(w) = D(w) /\ \A i \in D(w) : E(w)[i] = w[EntryKey(i)]
  OBVIOUS
<1>6. E(x) = [i \in D(x) |-> x[EntryKey(i)]]
  OBVIOUS
<1>7. /\ Pic(x) = Picture(Seen(x, TermVote, <<0, Nil>>), Seen(x, CommitIndex, <<0, 0>>),
                          Seen(x, SnapshotMeta, <<0, 0>>), Seen(x, SnapshotData, 0),
                          SnapshotData \in DOMAIN x, E(x))
      /\ Pic(w).tv = Seen(w, TermVote, <<0, Nil>>) /\ Pic(w).c = Seen(w, CommitIndex, <<0, 0>>)
      /\ Pic(w).m = Seen(w, SnapshotMeta, <<0, 0>>) /\ Pic(w).d = Seen(w, SnapshotData, 0)
      /\ Pic(w).live = (SnapshotData \in DOMAIN w) /\ Pic(w).ents = E(w)
  BY DEF Pic, Picture
<1> HIDE DEF E, D
<1>8. E(x) = Removed(E(w), {k})
  BY <1>3, <1>4, <1>5, <1>6 DEF Removed
<1> QED BY <1>2, <1>7, <1>8 DEF WithEntries, x

-----------------------------------------------------------------------------
(* Runs of records.                                                        *)

\* A picture is a record of these fields.
LEMMA PicFields ==
  ASSUME NEW w
  PROVE  LET p == Pic(w)
         IN /\ p = Picture(p.tv, p.c, p.m, p.d, p.live, p.ents)
            /\ p.ents = [i \in DOMAIN p.ents |-> p.ents[i]]
            /\ DOMAIN p.ents \subseteq Nat
BY DEF Pic, Picture

\* The values vals from place from on, up to the j-th.
Overlaid(f, from, j, vals) ==
  [i \in DOMAIN f \cup (from .. from + j - 1) |->
     IF i \in from .. from + j - 1 THEN vals[i - from + 1] ELSE f[i]]

PutsAt(file, n, P, from, vals) ==
  \A j \in 1 .. P : file[n + j] = Record(EntryKey(from + j - 1), vals[j])

ShowsPuts(file, n, P, from, vals) ==
  LET p == Pic(Shown(file, n))
  IN \A j \in 0 .. P :
       Pic(Shown(file, n + j)) = WithEntries(p, Overlaid(p.ents, from, j, vals))

\* A run of entries that are written shows them one by one.
LEMMA PutRun ==
  ASSUME NEW S, NEW file \in Seq(S), NEW n \in Nat, NEW P \in Nat, n + P <= Len(file),
         NEW from \in Nat, NEW vals, PutsAt(file, n, P, from, vals)
  PROVE  ShowsPuts(file, n, P, from, vals)
<1>0. \A j \in 1 .. P : file[n + j] = Record(EntryKey(from + j - 1), vals[j])
  BY DEF PutsAt
<1> DEFINE p == Pic(Shown(file, n))
           q(j) == WithEntries(p, Overlaid(p.ents, from, j, vals))
           T == {j \in Nat : j <= P => Pic(Shown(file, n + j)) = q(j)}
<1>1. /\ p = Picture(p.tv, p.c, p.m, p.d, p.live, p.ents)
      /\ p.ents = [i \in DOMAIN p.ents |-> p.ents[i]]
      /\ Len(file) \in Nat
  BY PicFields
<1>2. 0 \in T
  <2> HIDE DEF p
  <2>1. from .. from + 0 - 1 = {}
    OBVIOUS
  <2>2. Overlaid(p.ents, from, 0, vals) = [i \in DOMAIN p.ents |-> p.ents[i]]
    BY <2>1 DEF Overlaid
  <2>3. q(0) = p
    BY <1>1, <2>2 DEF WithEntries
  <2>4. n + 0 = n
    OBVIOUS
  <2>5. Pic(Shown(file, n + 0)) = q(0)
    BY <2>3, <2>4 DEF p
  <2> HIDE DEF q
  <2> QED BY <2>5
<1>3. \A j \in T : j + 1 \in T
  <2> TAKE j \in T
  <2>1. j \in Nat /\ (j <= P => Pic(Shown(file, n + j)) = q(j))
    OBVIOUS
  <2> SUFFICES ASSUME j + 1 <= P
               PROVE  Pic(Shown(file, n + (j + 1))) = q(j + 1)
    <3> HIDE DEF q
    <3> QED BY <2>1
  <2> DEFINE k == from + j
             v == vals[j + 1]
             f == Overlaid(p.ents, from, j, vals)
  <2>2. /\ n + (j + 1) \in 1 .. Len(file) /\ (n + (j + 1)) - 1 = n + j
        /\ j + 1 \in 1 .. P /\ from + (j + 1) - 1 = from + j /\ k \in Nat
    BY <1>1, <2>1
  <2>3. Shown(file, n + (j + 1)) = Changed(Shown(file, n + j), Record(EntryKey(k), v))
    <3>1. Shown(file, n + (j + 1)) = Changed(Shown(file, (n + (j + 1)) - 1), file[n + (j + 1)])
      BY <2>2, ShownUnfolds
    <3>2. file[n + (j + 1)] = Record(EntryKey(from + (j + 1) - 1), v)
      BY <1>0, <2>2
    <3> QED BY <2>2, <3>1, <3>2
  <2>4. Pic(Shown(file, n + j)) = WithEntries(p, f)
    BY <2>1
  <2> HIDE DEF p, f, v, k
  <2>5. Pic(Shown(file, n + (j + 1))) =
          WithEntries(Pic(Shown(file, n + j)), Entered(Pic(Shown(file, n + j)).ents, k, v))
    BY <2>2, <2>3, PicSet
  <2>6. WithEntries(p, f).ents = f
    BY DEF WithEntries, Picture
  <2>7. WithEntries(WithEntries(p, f), Entered(f, k, v)) = WithEntries(p, Entered(f, k, v))
    BY DEF WithEntries, Picture
  <2>8. Entered(f, k, v) = Overlaid(p.ents, from, j + 1, vals)
    <3> DEFINE A == from .. from + j - 1
               B == from .. from + (j + 1) - 1
               h == p.ents
    <3>1. B = A \cup {k} /\ k \notin A /\ k - from + 1 = j + 1
      BY <2>1 DEF k
    <3>2. DOMAIN f = DOMAIN h \cup A
          /\ \A i \in DOMAIN f : f[i] = IF i \in A THEN vals[i - from + 1] ELSE h[i]
      BY DEF f, Overlaid
    <3>3. Overlaid(h, from, j + 1, vals) =
            [i \in DOMAIN h \cup B |-> IF i \in B THEN vals[i - from + 1] ELSE h[i]]
      BY DEF Overlaid
    <3> HIDE DEF A, B, h
    <3>4. DOMAIN f \cup {k} = DOMAIN h \cup B
      BY <3>1, <3>2
    <3>5. \A i \in DOMAIN h \cup B :
            (IF i = k THEN v ELSE f[i]) = (IF i \in B THEN vals[i - from + 1] ELSE h[i])
      BY <3>1, <3>2, <3>4 DEF v
    <3>6. Entered(f, k, v) = [i \in DOMAIN h \cup B |-> IF i = k THEN v ELSE f[i]]
      BY <3>4 DEF Entered
    <3> QED BY <3>3, <3>5, <3>6 DEF h
  <2> QED BY <2>4, <2>5, <2>6, <2>7, <2>8
<1>4. \A j \in Nat : j \in T
  <2>1. T \in SUBSET Nat
    OBVIOUS
  <2> HIDE DEF T
  <2> QED BY <1>2, <1>3, <2>1, SetInduction
<1> HIDE DEF q, p
<1>5. \A j \in 0 .. P : Pic(Shown(file, n + j)) = q(j)
  BY <1>4
<1> QED BY <1>5 DEF q, p, ShowsPuts

DropsAt(file, n, D, o) ==
  \A j \in 1 .. D : o[j] \in Nat /\ file[n + j] = Tombstone(EntryKey(o[j]))

ShowsDrops(file, n, D, o) ==
  LET p == Pic(Shown(file, n))
  IN \A j \in 0 .. D :
       Pic(Shown(file, n + j)) = WithEntries(p, Removed(p.ents, {o[i] : i \in 1 .. j}))

\* A run of deletions takes the entries away one by one.
LEMMA DropRun ==
  ASSUME NEW S, NEW file \in Seq(S), NEW n \in Nat, NEW D \in Nat, n + D <= Len(file),
         NEW o, DropsAt(file, n, D, o)
  PROVE  ShowsDrops(file, n, D, o)
<1>0. \A j \in 1 .. D : o[j] \in Nat /\ file[n + j] = Tombstone(EntryKey(o[j]))
  BY DEF DropsAt
<1> DEFINE p == Pic(Shown(file, n))
           K(j) == {o[i] : i \in 1 .. j}
           q(j) == WithEntries(p, Removed(p.ents, K(j)))
           T == {j \in Nat : j <= D => Pic(Shown(file, n + j)) = q(j)}
<1>1. /\ p = Picture(p.tv, p.c, p.m, p.d, p.live, p.ents)
      /\ p.ents = [i \in DOMAIN p.ents |-> p.ents[i]]
      /\ Len(file) \in Nat
  BY PicFields
<1>2. 0 \in T
  <2> HIDE DEF p
  <2>1. K(0) = {}
    OBVIOUS
  <2>2. Removed(p.ents, K(0)) = [i \in DOMAIN p.ents |-> p.ents[i]]
    BY <2>1 DEF Removed
  <2>3. q(0) = p
    BY <1>1, <2>2 DEF WithEntries
  <2>4. n + 0 = n
    OBVIOUS
  <2>5. Pic(Shown(file, n + 0)) = q(0)
    BY <2>3, <2>4 DEF p
  <2> HIDE DEF q
  <2> QED BY <2>5
<1>3. \A j \in T : j + 1 \in T
  <2> TAKE j \in T
  <2>1. j \in Nat /\ (j <= D => Pic(Shown(file, n + j)) = q(j))
    OBVIOUS
  <2> SUFFICES ASSUME j + 1 <= D
               PROVE  Pic(Shown(file, n + (j + 1))) = q(j + 1)
    <3> HIDE DEF q
    <3> QED BY <2>1
  <2> DEFINE k == o[j + 1]
             f == Removed(p.ents, K(j))
  <2>2. /\ n + (j + 1) \in 1 .. Len(file) /\ (n + (j + 1)) - 1 = n + j
        /\ j + 1 \in 1 .. D /\ k \in Nat
    BY <1>0, <1>1, <2>1
  <2>3. Shown(file, n + (j + 1)) = Changed(Shown(file, n + j), Tombstone(EntryKey(k)))
    <3>1. Shown(file, n + (j + 1)) = Changed(Shown(file, (n + (j + 1)) - 1), file[n + (j + 1)])
      BY <2>2, ShownUnfolds
    <3>2. file[n + (j + 1)] = Tombstone(EntryKey(k))
      BY <1>0, <2>2
    <3> QED BY <2>2, <3>1, <3>2
  <2>4. Pic(Shown(file, n + j)) = WithEntries(p, f)
    BY <2>1
  <2>9. K(j + 1) = K(j) \cup {k}
    <3>1. \A i : i \in 1 .. j + 1 <=> i \in 1 .. j \/ i = j + 1
      BY <2>1
    <3> QED BY <3>1
  <2> HIDE DEF p, f, k, K
  <2>5. Pic(Shown(file, n + (j + 1))) =
          WithEntries(Pic(Shown(file, n + j)), Removed(Pic(Shown(file, n + j)).ents, {k}))
    BY <2>2, <2>3, PicDrop
  <2>6. WithEntries(p, f).ents = f
    BY DEF WithEntries, Picture
  <2>7. WithEntries(WithEntries(p, f), Removed(f, {k})) = WithEntries(p, Removed(f, {k}))
    BY DEF WithEntries, Picture
  <2>8. Removed(f, {k}) = Removed(p.ents, K(j + 1))
    BY <2>9 DEF Removed, f
  <2> QED BY <2>4, <2>5, <2>6, <2>7, <2>8
<1>4. \A j \in Nat : j \in T
  <2>1. T \in SUBSET Nat
    OBVIOUS
  <2> HIDE DEF T
  <2> QED BY <1>2, <1>3, <2>1, SetInduction
<1> HIDE DEF q, p
<1>5. \A j \in 0 .. D : Pic(Shown(file, n + j)) = q(j)
  BY <1>4
<1> QED BY <1>5 DEF q, p, ShowsDrops

-----------------------------------------------------------------------------
(* The numbers of a set in order.                                          *)

Enumerates(s, n, A) ==
  /\ s \in [1 .. n -> A]
  /\ \A j, k \in 1 .. n : j < k => s[j] < s[k]
  /\ \A x \in A : \E k \in 1 .. n : s[k] = x

\* A bounded set of naturals can be put in order, and InOrder does it.
LEMMA OrderExists ==
  ASSUME NEW N \in Nat, NEW A \in SUBSET (1 .. N)
  PROVE  \E n \in Nat : \E s : Enumerates(s, n, A)
<1> DEFINE T ==
             {m \in Nat : \A B \in SUBSET (1 .. m) : \E n \in Nat : \E s : Enumerates(s, n, B)}
<1>1. 0 \in T
  <2> SUFFICES ASSUME NEW B \in SUBSET (1 .. 0)
               PROVE  \E n \in Nat : \E s : Enumerates(s, n, B)
    OBVIOUS
  <2>1. Enumerates([k \in 1 .. 0 |-> 0], 0, B)
    BY DEF Enumerates
  <2> QED BY <2>1
<1>2. \A m \in T : m + 1 \in T
  <2> TAKE m \in T
  <2>0. m \in Nat
    OBVIOUS
  <2> SUFFICES ASSUME NEW B \in SUBSET (1 .. m + 1)
               PROVE  \E n \in Nat : \E s : Enumerates(s, n, B)
    BY <2>0
  <2> DEFINE C == B \ {m + 1}
  <2>1. C \in SUBSET (1 .. m)
    BY <2>0
  <2>5. PICK n \in Nat : \E s : Enumerates(s, n, C)
    BY <2>1
  <2>2. PICK s : Enumerates(s, n, C)
    BY <2>5
  <2>3. CASE m + 1 \notin B
    <3>1. C = B
      BY <2>3
    <3> QED BY <2>2, <3>1
  <2>4. CASE m + 1 \in B
    <3> DEFINE t == [k \in 1 .. n + 1 |-> IF k = n + 1 THEN m + 1 ELSE s[k]]
    <3>1. \A k \in 1 .. n : s[k] \in C /\ s[k] < m + 1 /\ t[k] = s[k] /\ s[k] \in Nat
      <4> SUFFICES ASSUME NEW k \in 1 .. n
                   PROVE  s[k] \in C /\ s[k] < m + 1 /\ t[k] = s[k] /\ s[k] \in Nat
        OBVIOUS
      <4>1. s[k] \in C
        <5> HIDE DEF C
        <5> QED BY <2>2 DEF Enumerates
      <4>2. s[k] \in 1 .. m
        BY <2>1, <4>1
      <4>3. k \in 1 .. n + 1 /\ k # n + 1
        OBVIOUS
      <4>4. t[k] = s[k]
        BY <4>3
      <4> HIDE DEF t, C
      <4> QED BY <2>0, <4>1, <4>2, <4>4
    <3>2. t[n + 1] = m + 1 /\ \A k \in 1 .. n + 1 : k = n + 1 \/ k \in 1 .. n
      OBVIOUS
    <3>3. t \in [1 .. n + 1 -> B]
      <4>1. \A k \in 1 .. n + 1 : t[k] \in B
        BY <2>4, <3>1, <3>2
      <4>2. t = [k \in 1 .. n + 1 |-> t[k]]
        OBVIOUS
      <4> HIDE DEF t
      <4> QED BY <4>1, <4>2
    <3>4. \A j, k \in 1 .. n + 1 : j < k => t[j] < t[k]
      <4> SUFFICES ASSUME NEW j \in 1 .. n + 1, NEW k \in 1 .. n + 1, j < k
                   PROVE  t[j] < t[k]
        OBVIOUS
      <4>1. j \in 1 .. n
        OBVIOUS
      <4> HIDE DEF t
      <4> QED BY <2>2, <3>1, <3>2, <4>1 DEF Enumerates
    <3>5. \A x \in B : \E k \in 1 .. n + 1 : t[k] = x
      <4> SUFFICES ASSUME NEW x \in B
                   PROVE  \E k \in 1 .. n + 1 : t[k] = x
        OBVIOUS
      <4>1. CASE x = m + 1
        BY <3>2, <4>1
      <4>2. CASE x # m + 1
        <5>1. PICK k \in 1 .. n : s[k] = x
          BY <2>2, <4>2 DEF Enumerates
        <5> HIDE DEF t
        <5>2. k \in 1 .. n + 1
          OBVIOUS
        <5> QED BY <3>1, <5>1, <5>2
      <4> QED BY <4>1, <4>2
    <3> HIDE DEF t
    <3>6. Enumerates(t, n + 1, B)
      BY <3>3, <3>4, <3>5 DEF Enumerates
    <3> QED BY <3>6
  <2> QED BY <2>3, <2>4
<1>3. \A m \in Nat : m \in T
  <2>1. T \in SUBSET Nat
    OBVIOUS
  <2> HIDE DEF T
  <2> QED BY <1>1, <1>2, <2>1, SetInduction
<1> QED BY <1>3

\* InOrder lists the elements of a set, the smallest first.
LEMMA InOrderIs ==
  ASSUME NEW N \in Nat, NEW A \in SUBSET (1 .. N)
  PROVE  Cardinality(A) \in Nat /\ Enumerates(InOrder(A), Cardinality(A), A)
<1>0. PICK n \in Nat : \E s : Enumerates(s, n, A)
  BY OrderExists
<1>1. PICK s : Enumerates(s, n, A)
  BY <1>0
<1>2. s \in Bijection(1 .. n, A)
  <2>1. \A j, k \in 1 .. n : s[j] = s[k] => j = k
    <3> SUFFICES ASSUME NEW j \in 1 .. n, NEW k \in 1 .. n, s[j] = s[k], j # k
                 PROVE  FALSE
      OBVIOUS
    <3>1. s[j] \in Nat /\ s[k] \in Nat
      <4>1. s[j] \in A /\ s[k] \in A
        BY <1>1 DEF Enumerates
      <4>2. A \subseteq Nat
        OBVIOUS
      <4> QED BY <4>1, <4>2
    <3>2. j < k \/ k < j
      OBVIOUS
    <3>3. s[j] < s[k] \/ s[k] < s[j]
      BY <1>1, <3>2 DEF Enumerates
    <3> QED BY <3>1, <3>3
  <2> QED BY <1>1, <2>1 DEF Enumerates, Bijection, Injection, Surjection, IsInjective
<1>3. IsFiniteSet(1 .. n) /\ Cardinality(1 .. n) = n
  <2>1. Cardinality(1 .. n) = IF 1 > n THEN 0 ELSE n - 1 + 1
    BY FS_Interval
  <2> QED BY <2>1, FS_Interval
<1>4. IsFiniteSet(A) /\ Cardinality(A) = n
  <2>1. ExistsBijection(1 .. n, A)
    BY <1>2 DEF ExistsBijection
  <2> DEFINE I == 1 .. n
  <2>2. IsFiniteSet(I) /\ Cardinality(I) = n /\ ExistsBijection(I, A)
    BY <1>3, <2>1
  <2> HIDE DEF I
  <2> QED BY <2>2, FS_Bijection
<1>5. \E t \in [1 .. Cardinality(A) -> A] :
        \A j, k \in 1 .. Cardinality(A) : j < k => t[j] < t[k]
  BY <1>1, <1>4 DEF Enumerates
<1> DEFINE t == InOrder(A)
<1>6. t \in [1 .. n -> A] /\ \A j, k \in 1 .. n : j < k => t[j] < t[k]
  <2>1. /\ InOrder(A) \in [1 .. Cardinality(A) -> A]
        /\ \A j, k \in 1 .. Cardinality(A) : j < k => InOrder(A)[j] < InOrder(A)[k]
    BY <1>5, Zenon DEF InOrder
  <2> QED BY <1>4, <2>1
<1> HIDE DEF t
<1>7. t \in Injection(1 .. n, A)
  <2>1. \A j, k \in 1 .. n : t[j] = t[k] => j = k
    <3> SUFFICES ASSUME NEW j \in 1 .. n, NEW k \in 1 .. n, t[j] = t[k], j # k
                 PROVE  FALSE
      OBVIOUS
    <3>1. t[j] \in Nat /\ t[k] \in Nat
      <4>1. t[j] \in A /\ t[k] \in A
        BY <1>6
      <4>2. A \subseteq Nat
        OBVIOUS
      <4> QED BY <4>1, <4>2
    <3>2. j < k \/ k < j
      OBVIOUS
    <3>3. t[j] < t[k] \/ t[k] < t[j]
      BY <1>6, <3>2
    <3> QED BY <3>1, <3>3
  <2> QED BY <1>6, <2>1 DEF Injection, IsInjective
<1>9. t \in Surjection(1 .. n, A)
  <2> DEFINE I == 1 .. n
  <2>1. t \in Injection(I, A) /\ IsFiniteSet(A) /\ Cardinality(I) = Cardinality(A)
    BY <1>3, <1>4, <1>7
  <2> HIDE DEF I
  <2>2. t \in Surjection(I, A)
    BY <2>1, FS_Injection
  <2> QED BY <2>2 DEF I
<1>10. \A x \in A : \E k \in 1 .. n : t[k] = x
  BY <1>9 DEF Surjection
<1> QED BY <1>4, <1>6, <1>10 DEF Enumerates, t

-----------------------------------------------------------------------------
(* Opening what a file shows.                                              *)

\* What every stop can leave, whether or not it stands for a log.
Sound(p) ==
  /\ p.tv \in Nat \X (Voter \cup {Nil})
  /\ p.c \in Nat \X Nat
  /\ p.m \in Nat \X Nat /\ p.m[1] <= MaxIndex
  /\ p.d \in Nat
  /\ DOMAIN p.ents \subseteq 1 .. MaxIndex
  /\ \A k \in DOMAIN p.ents : p.ents[k] \in Entries
  /\ p.m[1] = 0 => p.m[2] = 0
  /\ p.m[1] > 0 => p.live
  /\ p.c[1] = p.m[1] => p.c[2] = p.m[2]
  /\ p.c[1] \in DOMAIN p.ents => p.c[2] = p.ents[p.c[1]].term

CommitOf(p) == IF p.c[1] < p.m[1] THEN p.m[1] ELSE p.c[1]

\* Log::new.
OpenedAs(p) ==
  LET found == DOMAIN p.ents
      last == Max(found \cup {0})
      behind == last < p.m[1]
  IN [term |-> p.tv[1],
      vote |-> p.tv[2],
      first |-> IF p.m[1] > 0 THEN p.m[1] + 1
                ELSE IF found = {} THEN 1 ELSE Min(found),
      snapTerm |-> p.m[2],
      last |-> IF behind THEN p.m[1] ELSE last,
      lastTerm |-> IF behind THEN p.m[2]
                   ELSE IF found = {} THEN 0
                   ELSE p.ents[last].term,
      commit |-> Max({p.c[1], p.m[1]}),
      commitTerm |-> IF p.c[1] < p.m[1] THEN p.m[2] ELSE p.c[2]]

Coherent(p) ==
  LET f == OpenedAs(p)
  IN /\ DOMAIN p.ents = f.first .. f.last
     /\ f.commit <= f.last
     /\ f.first = p.m[1] + 1

Rebuilt(p, synced) ==
  LET f == OpenedAs(p)
  IN [term |-> f.term, vote |-> f.vote, first |-> f.first,
      snapTerm |-> f.snapTerm, snap |-> p.d,
      ents |-> [k \in 1 .. f.last + 1 - f.first |-> p.ents[f.first + k - 1]],
      commit |-> f.commit, synced |-> synced]

\* A non-empty set of naturals has a minimum, which Min picks.
LEMMA MinOfSome ==
  ASSUME NEW S \in SUBSET Nat, S # {}
  PROVE  Min(S) \in S /\ \A x \in S : Min(S) <= x
<1> DEFINE R == {p \in Nat \X Nat : p[1] < p[2]}
<1>1. PICK t \in S : \A u \in S : ~ (<<u, t>> \in R)
  BY NatLess, WFMin, Zenon
<1>2. \A u \in S : t <= u
  <2> SUFFICES ASSUME NEW u \in S, ~(t <= u)
               PROVE  FALSE
    OBVIOUS
  <2>1. u \in Nat /\ t \in Nat
    OBVIOUS
  <2>2. u < t
    BY <2>1
  <2>3. <<u, t>> \in R
    BY <2>1, <2>2
  <2> QED BY <1>1, <2>3
<1>3. \E x \in S : \A y \in S : x <= y
  BY <1>2
<1> QED BY <1>3, Zenon DEF Min

\* The last entry found, if there is one.
LEMMA LastFound ==
  ASSUME NEW D, D \subseteq 1 .. MaxIndex
  PROVE  LET last == Max(D \cup {0})
         IN /\ last \in Nat
            /\ D = {} => last = 0
            /\ D # {} => last \in D
            /\ \A k \in D : k <= last
<1> DEFINE T == D \cup {0}
<1>1. T \in SUBSET Nat /\ T # {} /\ MaxIndex \in Nat /\ \A x \in T : x <= MaxIndex
  BY StorageAssumption
<1>2. Max(T) \in T /\ \A x \in T : Max(T) >= x
  BY <1>1, MaxOfBounded
<1>3. ASSUME D # {}
      PROVE  Max(T) \in D
  <2>1. PICK x \in D : TRUE
    BY <1>3
  <2>2. x \in Nat /\ x > 0 /\ Max(T) >= x
    BY <1>2
  <2> QED BY <1>2, <2>2
<1> HIDE DEF T
<1>4. Max(T) \in Nat
  BY <1>1, <1>2
<1>5. D = {} => Max(T) = 0
  BY <1>2 DEF T
<1>6. \A k \in D : k <= Max(T)
  BY <1>1, <1>2 DEF T
<1> QED BY <1>3, <1>4, <1>5, <1>6 DEF T

\* The fields that Log::new computes, one by one.
LEMMA OpenedFields ==
  ASSUME NEW p, Sound(p)
  PROVE  LET f == OpenedAs(p)
         IN /\ f.term = p.tv[1] /\ f.vote = p.tv[2] /\ f.snapTerm = p.m[2]
            /\ f.commit = CommitOf(p)
            /\ f.commitTerm = IF p.c[1] < p.m[1] THEN p.m[2] ELSE p.c[2]
            /\ f.first \in Nat /\ f.first > 0 /\ f.last \in Nat
            /\ p.m[1] > 0 => f.first = p.m[1] + 1
            /\ DOMAIN p.ents = {} => f.last = p.m[1] /\ f.lastTerm = p.m[2]
            /\ DOMAIN p.ents = {} /\ p.m[1] = 0 => f.first = 1
            /\ DOMAIN p.ents # {} /\ p.m[1] = 0 =>
                 f.first \in DOMAIN p.ents /\ \A k \in DOMAIN p.ents : f.first <= k
            /\ p.m[1] <= f.last
            /\ \A k \in DOMAIN p.ents : k <= f.last
            /\ f.last # p.m[1] => f.last \in DOMAIN p.ents
            /\ f.last \in DOMAIN p.ents => f.lastTerm = p.ents[f.last].term
            /\ f = [term |-> f.term, vote |-> f.vote, first |-> f.first,
                    snapTerm |-> f.snapTerm, last |-> f.last, lastTerm |-> f.lastTerm,
                    commit |-> f.commit, commitTerm |-> f.commitTerm]
<1> DEFINE D == DOMAIN p.ents
           last == Max(D \cup {0})
           low == Min(D)
           top == Max({p.c[1], p.m[1]})
           f == OpenedAs(p)
<1>1. D \subseteq 1 .. MaxIndex /\ p.c[1] \in Nat /\ p.m[1] \in Nat /\ p.m[2] \in Nat
      /\ (p.m[1] = 0 => p.m[2] = 0)
  BY DEF Sound
<1>2. /\ last \in Nat /\ (D = {} => last = 0) /\ (D # {} => last \in D)
      /\ \A k \in D : k <= last
  BY <1>1, LastFound
<1>3. D # {} => low \in D /\ \A k \in D : low <= k
  <2>1. D \in SUBSET Nat
    BY <1>1
  <2> QED BY <2>1, MinOfSome
<1>4. top = CommitOf(p)
  <2>1. top >= p.c[1] /\ top >= p.m[1] /\ top \in {p.c[1], p.m[1]}
    BY <1>1, MaxOfTwo
  <2> QED BY <1>1, <2>1 DEF CommitOf
<1>5. f = [term |-> p.tv[1], vote |-> p.tv[2],
           first |-> IF p.m[1] > 0 THEN p.m[1] + 1 ELSE IF D = {} THEN 1 ELSE low,
           snapTerm |-> p.m[2],
           last |-> IF last < p.m[1] THEN p.m[1] ELSE last,
           lastTerm |-> IF last < p.m[1] THEN p.m[2]
                        ELSE IF D = {} THEN 0 ELSE p.ents[last].term,
           commit |-> top,
           commitTerm |-> IF p.c[1] < p.m[1] THEN p.m[2] ELSE p.c[2]]
  BY DEF OpenedAs
<1> HIDE DEF last, low, top, f
<1>6. /\ f.term = p.tv[1] /\ f.vote = p.tv[2] /\ f.snapTerm = p.m[2]
      /\ f.commit = CommitOf(p)
      /\ f.commitTerm = IF p.c[1] < p.m[1] THEN p.m[2] ELSE p.c[2]
      /\ f.first = IF p.m[1] > 0 THEN p.m[1] + 1 ELSE IF D = {} THEN 1 ELSE low
      /\ f.last = IF last < p.m[1] THEN p.m[1] ELSE last
      /\ f.lastTerm = IF last < p.m[1] THEN p.m[2]
                      ELSE IF D = {} THEN 0 ELSE p.ents[last].term
      /\ f = [term |-> f.term, vote |-> f.vote, first |-> f.first,
              snapTerm |-> f.snapTerm, last |-> f.last, lastTerm |-> f.lastTerm,
              commit |-> f.commit, commitTerm |-> f.commitTerm]
  BY <1>4, <1>5
<1>7. \A k \in D : k \in Nat /\ k > 0
  BY <1>1
<1> HIDE DEF D
<1>8. f.first \in Nat /\ f.first > 0 /\ f.last \in Nat /\ p.m[1] <= f.last
  BY <1>1, <1>2, <1>3, <1>6, <1>7
<1>9. /\ p.m[1] > 0 => f.first = p.m[1] + 1
      /\ D = {} => f.last = p.m[1] /\ f.lastTerm = p.m[2]
      /\ D = {} /\ p.m[1] = 0 => f.first = 1
      /\ D # {} /\ p.m[1] = 0 => f.first \in D /\ \A k \in D : f.first <= k
  BY <1>1, <1>2, <1>3, <1>6
<1>10. /\ \A k \in D : k <= f.last
       /\ f.last # p.m[1] => f.last \in D
  BY <1>1, <1>2, <1>6, <1>7
<1>11. f.last \in D => f.lastTerm = p.ents[f.last].term
  <2>1. f.last \in D => f.last <= last /\ D # {}
    BY <1>2
  <2> QED BY <1>1, <1>2, <1>6, <1>8, <2>1
<1> QED BY <1>6, <1>8, <1>9, <1>10, <1>11 DEF f, D

\* What Log reads of an engine is what the engine shows.
LEMMA OpenedIs ==
  ASSUME NEW e, Whole(e), Sound(Pic(Sight(e)))
  PROVE  LET p == Pic(Sight(e))
         IN /\ Indexes(e) = DOMAIN p.ents
            /\ LogNew(e) = OpenedAs(p)
            /\ GetOr(e, SnapshotMeta, <<0, 0>>) = p.m
            /\ GetOr(e, SnapshotData, 0) = p.d
            /\ Live(e, SnapshotData) <=> p.live
            /\ p.live => Get(e, SnapshotData) = p.d
            /\ \A k \in DOMAIN p.ents :
                 Live(e, EntryKey(k)) /\ Get(e, EntryKey(k)) = p.ents[k]
            /\ p.tv = GetOr(e, TermVote, <<0, Nil>>)
            /\ p.c = GetOr(e, CommitIndex, <<0, 0>>)
            /\ Live(e, TermVote) => Get(e, TermVote) = p.tv
            /\ Live(e, CommitIndex) => Get(e, CommitIndex) = p.c
            /\ Live(e, SnapshotMeta) => Get(e, SnapshotMeta) = p.m
<1> DEFINE w == Sight(e)
           p == Pic(w)
           D == {k \in Nat : EntryKey(k) \in DOMAIN w}
<1>1. /\ \A k : Live(e, k) <=> k \in DOMAIN w
      /\ \A k \in DOMAIN w : Get(e, k) = w[k]
      /\ \A k : k \in DOMAIN e.keydir <=> k \in DOMAIN w
  BY WholeShows DEF Live
<1>2. DOMAIN w \subseteq Keys
  <2>1. PICK S : e.file \in Seq(S)
    BY DEF Whole
  <2>2. Len(e.file) \in 0 .. Len(e.file) /\ \A i \in 1 .. Len(e.file) : WholeRecord(e.file[i])
    BY <2>1 DEF Whole
  <2> QED BY <2>1, <2>2, ShownKeys DEF Sight
<1>3. \A key, d : GetOr(e, key, d) = Seen(w, key, d)
  BY <1>1 DEF GetOr, Seen
<1>4. /\ p.tv = Seen(w, TermVote, <<0, Nil>>) /\ p.c = Seen(w, CommitIndex, <<0, 0>>)
      /\ p.m = Seen(w, SnapshotMeta, <<0, 0>>) /\ p.d = Seen(w, SnapshotData, 0)
      /\ p.live = (SnapshotData \in DOMAIN w)
      /\ p.ents = [i \in D |-> w[EntryKey(i)]]
  BY DEF Pic, Picture
<1> HIDE DEF p, w
<1>5. Indexes(e) = D
  <2>1. ASSUME NEW k \in Indexes(e)
        PROVE  k \in D
    <3>1. PICK j \in DOMAIN e.keydir : j[1] = "Entry" /\ k = j[2]
      BY DEF Indexes
    <3>2. j \in Keys /\ j \in DOMAIN w
      BY <1>1, <1>2
    <3>3. j \notin {TermVote, CommitIndex, SnapshotMeta, SnapshotData}
      BY <3>1 DEF TermVote, CommitIndex, SnapshotMeta, SnapshotData
    <3>4. PICK i \in Nat : j = EntryKey(i)
      BY <3>2, <3>3 DEF Keys
    <3>5. i = k
      BY <3>1, <3>4 DEF EntryKey
    <3> QED BY <3>2, <3>4, <3>5
  <2>2. ASSUME NEW k \in D
        PROVE  k \in Indexes(e)
    <3>1. EntryKey(k) \in DOMAIN e.keydir /\ EntryKey(k)[1] = "Entry" /\ EntryKey(k)[2] = k
      BY <1>1 DEF EntryKey
    <3> QED BY <3>1 DEF Indexes
  <2> QED BY <2>1, <2>2
<1>6. DOMAIN p.ents = D /\ \A k \in D : p.ents[k] = w[EntryKey(k)]
  BY <1>4
<1>7. \A k \in D : Live(e, EntryKey(k)) /\ Get(e, EntryKey(k)) = p.ents[k]
  BY <1>1, <1>6
<1>8. LogNew(e) = OpenedAs(p)
  <2> DEFINE last == Max(D \cup {0})
  <2>1. D = {} \/ last \in D
    <3>1. D \subseteq 1 .. MaxIndex
      BY <1>6 DEF Sound, p, w
    <3> HIDE DEF D
    <3> QED BY <3>1, LastFound
  <2>2. D # {} => Get(e, EntryKey(last)).term = p.ents[last].term
    BY <1>7, <2>1
  <2>3. LogNew(e) =
          [term |-> p.tv[1],
           vote |-> p.tv[2],
           first |-> IF p.m[1] > 0 THEN p.m[1] + 1
                     ELSE IF D = {} THEN 1 ELSE Min(D),
           snapTerm |-> p.m[2],
           last |-> IF last < p.m[1] THEN p.m[1] ELSE last,
           lastTerm |-> IF last < p.m[1] THEN p.m[2]
                        ELSE IF D = {} THEN 0
                        ELSE Get(e, EntryKey(last)).term,
           commit |-> Max({p.c[1], p.m[1]}),
           commitTerm |-> IF p.c[1] < p.m[1] THEN p.m[2] ELSE p.c[2]]
    BY <1>3, <1>4, <1>5 DEF LogNew
  <2>4. OpenedAs(p) =
          [term |-> p.tv[1],
           vote |-> p.tv[2],
           first |-> IF p.m[1] > 0 THEN p.m[1] + 1
                     ELSE IF D = {} THEN 1 ELSE Min(D),
           snapTerm |-> p.m[2],
           last |-> IF last < p.m[1] THEN p.m[1] ELSE last,
           lastTerm |-> IF last < p.m[1] THEN p.m[2]
                        ELSE IF D = {} THEN 0 ELSE p.ents[last].term,
           commit |-> Max({p.c[1], p.m[1]}),
           commitTerm |-> IF p.c[1] < p.m[1] THEN p.m[2] ELSE p.c[2]]
    BY <1>6 DEF OpenedAs
  <2> HIDE DEF last, D
  <2>5. (IF D = {} THEN 0 ELSE Get(e, EntryKey(last)).term)
          = (IF D = {} THEN 0 ELSE p.ents[last].term)
    BY <2>2
  <2> QED BY <2>3, <2>4, <2>5
<1>9. \A key : key \in DOMAIN w => Get(e, key) = w[key]
  BY <1>1
<1>10. /\ p.live => Get(e, SnapshotData) = p.d
       /\ Live(e, TermVote) => Get(e, TermVote) = p.tv
       /\ Live(e, CommitIndex) => Get(e, CommitIndex) = p.c
       /\ Live(e, SnapshotMeta) => Get(e, SnapshotMeta) = p.m
  BY <1>1, <1>4 DEF Seen
<1>11. Live(e, SnapshotData) <=> p.live
  BY <1>1, <1>4
<1> QED BY <1>3, <1>4, <1>5, <1>6, <1>7, <1>8, <1>10, <1>11 DEF p, w

\* An engine stands for a log when what it shows does.
LEMMA AsLogIs ==
  ASSUME NEW e, Whole(e), Sound(Pic(Sight(e))), NEW s
  PROVE  AsLog(e, LogNew(e), s) =
           IF Coherent(Pic(Sight(e))) THEN Rebuilt(Pic(Sight(e)), s) ELSE Nil
<1> DEFINE p == Pic(Sight(e))
           f == LogNew(e)
<1>1. /\ Indexes(e) = DOMAIN p.ents /\ f = OpenedAs(p)
      /\ GetOr(e, SnapshotMeta, <<0, 0>>) = p.m /\ GetOr(e, SnapshotData, 0) = p.d
      /\ \A k \in DOMAIN p.ents : Get(e, EntryKey(k)) = p.ents[k]
      /\ f.first \in Nat /\ f.last \in Nat
  BY OpenedIs, OpenedFields
<1> HIDE DEF p, f
<1>2. CASE Coherent(p)
  <2>1. DOMAIN p.ents = f.first .. f.last /\ f.commit <= f.last /\ f.first = p.m[1] + 1
    BY <1>1, <1>2 DEF Coherent
  <2>2. \A k \in 1 .. f.last + 1 - f.first :
          Get(e, EntryKey(f.first + k - 1)) = p.ents[f.first + k - 1]
    <3> TAKE k \in 1 .. f.last + 1 - f.first
    <3>1. f.first + k - 1 \in f.first .. f.last
      BY <1>1
    <3> QED BY <1>1, <2>1, <3>1
  <2>3. AsLog(e, f, s) =
          [term |-> f.term, vote |-> f.vote, first |-> f.first,
           snapTerm |-> f.snapTerm, snap |-> p.d,
           ents |-> [k \in 1 .. f.last + 1 - f.first |->
                       Get(e, EntryKey(f.first + k - 1))],
           commit |-> f.commit, synced |-> s]
    BY <1>1, <2>1 DEF AsLog
  <2>4. Rebuilt(p, s) =
          [term |-> f.term, vote |-> f.vote, first |-> f.first,
           snapTerm |-> f.snapTerm, snap |-> p.d,
           ents |-> [k \in 1 .. f.last + 1 - f.first |-> p.ents[f.first + k - 1]],
           commit |-> f.commit, synced |-> s]
    BY <1>1 DEF Rebuilt
  <2>5. AsLog(e, f, s) = Rebuilt(p, s)
    BY <2>2, <2>3, <2>4
  <2> QED BY <1>2, <2>5 DEF p, f
<1>3. CASE ~Coherent(p)
  <2>1. ~(DOMAIN p.ents = f.first .. f.last /\ f.commit <= f.last /\ f.first = p.m[1] + 1)
    BY <1>1, <1>3 DEF Coherent
  <2>2. AsLog(e, f, s) = Nil
    BY <1>1, <2>1 DEF AsLog
  <2> QED BY <1>3, <2>2 DEF p, f
<1> QED BY <1>2, <1>3

-----------------------------------------------------------------------------
(* The RaftLog values that pictures stand for.                             *)

Proper(l) ==
  /\ l \in LogValues
  /\ LastIndex(l) <= MaxIndex
  /\ l.commit \in l.first - 1 .. LastIndex(l)
  /\ l.synced <= l.commit

\* The fields of Log.
CacheOf(l) ==
  [term |-> l.term, vote |-> l.vote, first |-> l.first, snapTerm |-> l.snapTerm,
   last |-> LastIndex(l), lastTerm |-> LastTerm(l), commit |-> l.commit,
   commitTerm |-> CommitTerm(l)]

\* Everything of l but its commit index.
Holds(p, l) ==
  /\ p.tv = <<l.term, l.vote>>
  /\ p.m = <<l.first - 1, l.snapTerm>>
  /\ p.d = l.snap
  /\ DOMAIN p.ents = l.first .. LastIndex(l)
  /\ \A k \in l.first .. LastIndex(l) : p.ents[k] = EntryAt(l, k)

Stores(p, l) == Holds(p, l) /\ CommitOf(p) = l.commit

\* The fields of a RaftLog value, and where its entries are.
LEMMA LogFacts ==
  ASSUME NEW l, l \in LogValues
  PROVE  /\ l.term \in Nat /\ l.vote \in Voter \cup {Nil}
         /\ l.first \in Nat /\ l.first > 0 /\ l.snapTerm \in Nat /\ l.snap \in Nat
         /\ l.ents \in Seq(Entries) /\ Len(l.ents) \in Nat
         /\ l.commit \in Nat /\ l.synced \in Nat
         /\ LastIndex(l) = l.first + Len(l.ents) - 1 /\ LastIndex(l) \in Nat
         /\ l.first - 1 \in Nat /\ l.first - 1 <= LastIndex(l)
         /\ \A k \in l.first .. LastIndex(l) :
              /\ EntryAt(l, k) = l.ents[k + 1 - l.first]
              /\ k + 1 - l.first \in 1 .. Len(l.ents)
              /\ EntryAt(l, k) \in Entries
         /\ l = [term |-> l.term, vote |-> l.vote, first |-> l.first,
                 snapTerm |-> l.snapTerm, snap |-> l.snap, ents |-> l.ents,
                 commit |-> l.commit, synced |-> l.synced]
<1>1. /\ l.term \in Nat /\ l.vote \in Voter \cup {Nil}
      /\ l.first \in Nat /\ l.first > 0 /\ l.snapTerm \in Nat /\ l.snap \in Nat
      /\ l.ents \in Seq(Entries) /\ Len(l.ents) \in Nat
      /\ l.commit \in Nat /\ l.synced \in Nat
  BY DEF LogValues
<1>2. LastIndex(l) = l.first + Len(l.ents) - 1
  BY DEF LastIndex
<1>3. ASSUME NEW k \in l.first .. LastIndex(l)
      PROVE  /\ EntryAt(l, k) = l.ents[k + 1 - l.first]
             /\ k + 1 - l.first \in 1 .. Len(l.ents)
             /\ EntryAt(l, k) \in Entries
  <2>1. k + 1 - l.first \in 1 .. Len(l.ents)
    BY <1>1, <1>2
  <2>2. l.ents[k + 1 - l.first] \in Entries
    BY <1>1, <2>1
  <2> QED BY <2>1, <2>2 DEF EntryAt
<1>4. l = [term |-> l.term, vote |-> l.vote, first |-> l.first,
           snapTerm |-> l.snapTerm, snap |-> l.snap, ents |-> l.ents,
           commit |-> l.commit, synced |-> l.synced]
  BY DEF LogValues
<1>5. LastIndex(l) \in Nat /\ l.first - 1 \in Nat /\ l.first - 1 <= LastIndex(l)
  BY <1>1, <1>2
<1> QED BY <1>1, <1>2, <1>3, <1>4, <1>5

\* Another commit index.
LEMMA ReopenedFacts ==
  ASSUME NEW l, Proper(l), NEW c \in Nat, l.first - 1 <= c, c <= LastIndex(l),
         l.synced <= c
  PROVE  LET r == Reopened(l, c)
         IN /\ Proper(r) /\ LastIndex(r) = LastIndex(l) /\ r.commit = c
            /\ r.term = l.term /\ r.vote = l.vote /\ r.first = l.first
            /\ r.snapTerm = l.snapTerm /\ r.snap = l.snap /\ r.ents = l.ents
            /\ r.synced = l.synced
            /\ \A p : Holds(p, r) <=> Holds(p, l)
<1> DEFINE r == Reopened(l, c)
<1>1. l \in LogValues
  BY DEF Proper
<1>2. /\ r \in LogValues /\ r.commit = c
      /\ r.term = l.term /\ r.vote = l.vote /\ r.first = l.first
      /\ r.snapTerm = l.snapTerm /\ r.snap = l.snap /\ r.ents = l.ents
      /\ r.synced = l.synced
  BY <1>1 DEF Reopened, LogValues
<1> HIDE DEF r
<1>3. LastIndex(r) = LastIndex(l) /\ \A k : EntryAt(r, k) = EntryAt(l, k)
  BY <1>2 DEF LastIndex, EntryAt
<1>4. Proper(r)
  BY <1>1, <1>2, <1>3, LogFacts DEF Proper
<1>5. \A p : Holds(p, r) <=> Holds(p, l)
  BY <1>2, <1>3 DEF Holds
<1> QED BY <1>2, <1>3, <1>4, <1>5 DEF r

\* What stands for a log opens as that log.
LEMMA HoldsOpens ==
  ASSUME NEW p, Sound(p), NEW l, Proper(l), Stores(p, l)
  PROVE  /\ OpenedAs(p) = CacheOf(l)
         /\ Coherent(p)
         /\ Rebuilt(p, l.synced) = l
<1> DEFINE f == OpenedAs(p)
           D == DOMAIN p.ents
           n == LastIndex(l)
<1>1. /\ l.first \in Nat /\ l.first > 0 /\ n \in Nat /\ l.snapTerm \in Nat
      /\ n = l.first + Len(l.ents) - 1 /\ l.ents \in Seq(Entries) /\ Len(l.ents) \in Nat
      /\ l.commit \in l.first - 1 .. n /\ l.commit \in Nat
      /\ \A k \in l.first .. n : EntryAt(l, k) = l.ents[k + 1 - l.first]
      /\ l = [term |-> l.term, vote |-> l.vote, first |-> l.first,
              snapTerm |-> l.snapTerm, snap |-> l.snap, ents |-> l.ents,
              commit |-> l.commit, synced |-> l.synced]
  BY LogFacts DEF Proper
<1>2. /\ p.tv[1] = l.term /\ p.tv[2] = l.vote /\ p.m[1] = l.first - 1
      /\ p.m[2] = l.snapTerm /\ p.d = l.snap /\ D = l.first .. n
      /\ \A k \in l.first .. n : p.ents[k] = EntryAt(l, k)
      /\ CommitOf(p) = l.commit
  BY DEF Stores, Holds
<1>3. /\ p.c[1] \in Nat /\ p.c[2] \in Nat
      /\ (p.c[1] = p.m[1] => p.c[2] = p.m[2])
      /\ (p.c[1] \in D => p.c[2] = p.ents[p.c[1]].term)
      /\ p.m[1] \in Nat
  BY DEF Sound
<1>4. /\ f.term = l.term /\ f.vote = l.vote /\ f.snapTerm = l.snapTerm
      /\ f.commit = l.commit
      /\ f.commitTerm = IF p.c[1] < p.m[1] THEN p.m[2] ELSE p.c[2]
      /\ f.first \in Nat /\ f.first > 0 /\ f.last \in Nat
      /\ (p.m[1] > 0 => f.first = p.m[1] + 1)
      /\ (D = {} => f.last = p.m[1] /\ f.lastTerm = p.m[2])
      /\ (D = {} /\ p.m[1] = 0 => f.first = 1)
      /\ (D # {} /\ p.m[1] = 0 => f.first \in D /\ \A k \in D : f.first <= k)
      /\ p.m[1] <= f.last
      /\ (\A k \in D : k <= f.last)
      /\ (f.last # p.m[1] => f.last \in D)
      /\ (f.last \in D => f.lastTerm = p.ents[f.last].term)
      /\ f = [term |-> f.term, vote |-> f.vote, first |-> f.first,
              snapTerm |-> f.snapTerm, last |-> f.last, lastTerm |-> f.lastTerm,
              commit |-> f.commit, commitTerm |-> f.commitTerm]
  BY <1>2, OpenedFields
<1> HIDE DEF f, D, n
<1>5. f.first = l.first
  <2>1. CASE p.m[1] > 0
    BY <1>1, <1>2, <1>4, <2>1
  <2>2. CASE ~(p.m[1] > 0)
    <3>1. l.first = 1 /\ p.m[1] = 0
      BY <1>1, <1>2, <1>3, <2>2
    <3>2. D = {} => f.first = 1
      BY <1>4, <3>1
    <3>3. D # {} => f.first = 1
      <4> SUFFICES ASSUME D # {}
                   PROVE  f.first = 1
        OBVIOUS
      <4>1. PICK k \in D : TRUE
        OBVIOUS
      <4>2. 1 \in D
        BY <1>1, <1>2, <3>1, <4>1
      <4>3. f.first <= 1
        BY <1>4, <3>1, <4>2
      <4> QED BY <1>4, <4>3
    <3> QED BY <3>1, <3>2, <3>3
  <2> QED BY <2>1, <2>2
<1>6. f.last = n
  <2>1. CASE l.first <= n
    <3>1. n \in D /\ p.m[1] < n
      BY <1>1, <1>2, <2>1
    <3>2. n <= f.last
      BY <1>4, <3>1
    <3>3. f.last \in D
      BY <1>1, <1>3, <1>4, <3>1, <3>2
    <3> QED BY <1>1, <1>2, <1>4, <3>2, <3>3
  <2>2. CASE ~(l.first <= n)
    <3>1. D = {} /\ n = l.first - 1
      BY <1>1, <1>2, <2>2
    <3> QED BY <1>2, <1>4, <3>1
  <2> QED BY <2>1, <2>2
<1>7. f.lastTerm = LastTerm(l)
  <2>1. CASE l.first <= n
    <3>1. n \in D /\ n \in l.first .. n
      BY <1>1, <1>2, <2>1
    <3>2. f.lastTerm = EntryAt(l, n).term
      BY <1>2, <1>4, <1>6, <3>1
    <3>3. LastTerm(l) = EntryAt(l, n).term
      BY <1>1, <2>1 DEF LastTerm, TermAt, Stored, n
    <3> QED BY <3>2, <3>3
  <2>2. CASE ~(l.first <= n)
    <3>1. D = {} /\ n = l.first - 1
      BY <1>1, <1>2, <2>2
    <3>2. f.lastTerm = l.snapTerm
      BY <1>2, <1>4, <3>1
    <3>3. LastTerm(l) = l.snapTerm
      BY <2>2, <3>1 DEF LastTerm, TermAt, Stored, n
    <3> QED BY <3>2, <3>3
  <2> QED BY <2>1, <2>2
<1>8. f.commitTerm = CommitTerm(l)
  <2>1. CASE l.commit = l.first - 1
    <3>1. CommitTerm(l) = l.snapTerm
      <4>1. ~(l.first <= l.commit)
        BY <1>1, <2>1
      <4> QED BY <2>1, <4>1 DEF CommitTerm, TermAt, Stored
    <3>2. f.commitTerm = p.m[2]
      BY <1>2, <1>3, <1>4, <2>1 DEF CommitOf
    <3> QED BY <1>2, <3>1, <3>2
  <2>2. CASE l.commit # l.first - 1
    <3>1. l.commit \in l.first .. n
      BY <1>1, <2>2
    <3>2. CommitTerm(l) = EntryAt(l, l.commit).term
      <4>1. l.first <= l.commit /\ l.commit <= n
        BY <1>1, <3>1
      <4> QED BY <4>1 DEF CommitTerm, TermAt, Stored, n
    <3>3. p.c[1] = l.commit /\ ~(p.c[1] < p.m[1])
      BY <1>2, <1>3, <2>2 DEF CommitOf
    <3>4. f.commitTerm = p.ents[l.commit].term
      BY <1>2, <1>3, <1>4, <3>1, <3>3
    <3> QED BY <1>2, <3>1, <3>2, <3>4
  <2> QED BY <2>1, <2>2
<1>9. f = CacheOf(l)
  BY <1>4, <1>5, <1>6, <1>7, <1>8 DEF CacheOf, n
<1>10. Coherent(p)
  <2>1. DOMAIN p.ents = f.first .. f.last /\ f.commit <= f.last /\ f.first = p.m[1] + 1
    BY <1>1, <1>2, <1>4, <1>5, <1>6 DEF D
  <2> QED BY <2>1 DEF Coherent, f
<1>11. Rebuilt(p, l.synced) = l
  <2>1. Rebuilt(p, l.synced) =
          [term |-> f.term, vote |-> f.vote, first |-> f.first,
           snapTerm |-> f.snapTerm, snap |-> p.d,
           ents |-> [k \in 1 .. f.last + 1 - f.first |-> p.ents[f.first + k - 1]],
           commit |-> f.commit, synced |-> l.synced]
    BY DEF Rebuilt, f
  <2>2. 1 .. f.last + 1 - f.first = 1 .. Len(l.ents)
    BY <1>1, <1>5, <1>6
  <2>3. \A k \in 1 .. Len(l.ents) : p.ents[f.first + k - 1] = l.ents[k]
    <3> TAKE k \in 1 .. Len(l.ents)
    <3>1. /\ l.first + k - 1 \in l.first .. n
          /\ (l.first + k - 1) + 1 - l.first = k
      BY <1>1
    <3> QED BY <1>1, <1>2, <1>5, <3>1
  <2>4. l.ents = [k \in 1 .. Len(l.ents) |-> l.ents[k]]
    BY <1>1
  <2>5. [k \in 1 .. f.last + 1 - f.first |-> p.ents[f.first + k - 1]] = l.ents
    BY <2>2, <2>3, <2>4
  <2> QED BY <1>1, <1>2, <1>4, <1>5, <2>1, <2>5
<1> QED BY <1>9, <1>10, <1>11 DEF f

\* What opens as a log stands for it.
LEMMA RebuiltHolds ==
  ASSUME NEW p, Sound(p), Coherent(p), NEW s \in Nat, s <= CommitOf(p)
  PROVE  LET l == Rebuilt(p, s)
         IN Proper(l) /\ Stores(p, l) /\ l.synced = s /\ OpenedAs(p) = CacheOf(l)
<1> DEFINE f == OpenedAs(p)
           D == DOMAIN p.ents
           l == Rebuilt(p, s)
           q == [k \in 1 .. f.last + 1 - f.first |-> p.ents[f.first + k - 1]]
<1>1. /\ f.term = p.tv[1] /\ f.vote = p.tv[2] /\ f.snapTerm = p.m[2]
      /\ f.commit = CommitOf(p)
      /\ f.first \in Nat /\ f.first > 0 /\ f.last \in Nat
      /\ p.m[1] <= f.last
      /\ (f.last # p.m[1] => f.last \in D)
      /\ DOMAIN p.ents = f.first .. f.last /\ f.commit <= f.last /\ f.first = p.m[1] + 1
  BY OpenedFields DEF Coherent
<1>2. /\ p.tv[1] \in Nat /\ p.tv[2] \in Voter \cup {Nil} /\ p.tv = <<p.tv[1], p.tv[2]>>
      /\ p.m[1] \in Nat /\ p.m[2] \in Nat /\ p.m = <<p.m[1], p.m[2]>>
      /\ p.c[1] \in Nat /\ p.d \in Nat /\ D \subseteq 1 .. MaxIndex
      /\ MaxIndex \in Nat
      /\ \A k \in D : p.ents[k] \in Entries
  BY StorageAssumption DEF Sound
<1>3. /\ l.term = f.term /\ l.vote = f.vote /\ l.first = f.first
      /\ l.snapTerm = f.snapTerm /\ l.snap = p.d /\ l.ents = q
      /\ l.commit = f.commit /\ l.synced = s
      /\ l = [term |-> f.term, vote |-> f.vote, first |-> f.first,
              snapTerm |-> f.snapTerm, snap |-> p.d, ents |-> q,
              commit |-> f.commit, synced |-> s]
  BY DEF Rebuilt
<1>4. f.last + 1 - f.first \in Nat
  BY <1>1, <1>2
<1>5. /\ \A k \in 1 .. f.last + 1 - f.first :
           f.first + k - 1 \in f.first .. f.last /\ q[k] \in Entries
      /\ q \in Seq(Entries) /\ Len(q) = f.last + 1 - f.first
  <2>1. \A k \in 1 .. f.last + 1 - f.first :
          f.first + k - 1 \in f.first .. f.last /\ p.ents[f.first + k - 1] \in Entries
    <3> TAKE k \in 1 .. f.last + 1 - f.first
    <3>1. f.first + k - 1 \in f.first .. f.last
      BY <1>1
    <3> QED BY <1>1, <1>2, <3>1
  <2> DEFINE n == f.last + 1 - f.first
  <2>2. n \in Nat
    BY <1>4
  <2>3. /\ q = [k \in 1 .. n |-> p.ents[f.first + k - 1]]
        /\ \A k \in 1 .. n : q[k] = p.ents[f.first + k - 1]
    OBVIOUS
  <2> HIDE DEF f, n, q
  <2>4. \A k \in 1 .. n : q[k] \in Entries /\ f.first + k - 1 \in f.first .. f.last
    BY <2>1, <2>3 DEF n
  <2>5. q \in Seq(Entries) /\ Len(q) = n
    <3>1. q = [k \in 1 .. n |-> q[k]]
      BY <2>3, Zenon
    <3>2. q \in [1 .. n -> Entries]
      BY <2>4, <3>1
    <3> QED BY <2>2, <3>2
  <2> QED BY <2>4, <2>5 DEF n
<1>6. CommitOf(p) \in Nat /\ p.m[1] <= CommitOf(p)
  BY <1>2 DEF CommitOf
<1> HIDE DEF f, q, l
<1>7. l \in LogValues
  <2>1. f.first \in Nat \ {0}
    BY <1>1
  <2> QED BY <1>1, <1>2, <1>3, <1>5, <1>6, <2>1 DEF LogValues
<1>8. LastIndex(l) = f.last
  BY <1>1, <1>3, <1>5 DEF LastIndex
<1>9. f.last <= MaxIndex
  BY <1>1, <1>2 DEF Sound
<1>10. Holds(p, l)
  <2>1. p.tv = <<l.term, l.vote>> /\ p.d = l.snap
    BY <1>1, <1>2, <1>3
  <2>2. p.m = <<l.first - 1, l.snapTerm>>
    BY <1>1, <1>2, <1>3
  <2>3. DOMAIN p.ents = l.first .. LastIndex(l)
    BY <1>1, <1>3, <1>8
  <2>4. ASSUME NEW k \in l.first .. LastIndex(l)
        PROVE  p.ents[k] = EntryAt(l, k)
    <3>1. /\ k + 1 - f.first \in 1 .. f.last + 1 - f.first
          /\ f.first + (k + 1 - f.first) - 1 = k
      BY <1>1, <1>3, <1>8
    <3>2. q[k + 1 - f.first] = p.ents[k]
      BY <3>1 DEF q
    <3> QED BY <1>3, <3>2 DEF EntryAt
  <2> QED BY <2>1, <2>2, <2>3, <2>4 DEF Holds
<1>11. Proper(l)
  <2>1. l.commit \in l.first - 1 .. LastIndex(l)
    BY <1>1, <1>2, <1>3, <1>6, <1>8
  <2> QED BY <1>1, <1>3, <1>7, <1>8, <1>9, <2>1 DEF Proper
<1>12. Stores(p, l) /\ l.synced = s
  BY <1>1, <1>3, <1>10 DEF Stores
<1> QED BY <1>11, <1>12, HoldsOpens DEF l

-----------------------------------------------------------------------------
(* The calls of a method, as the records they write.                       *)

\* A flush can only be the last call.
Flushes(ops) == ops # <<>> /\ ops[Len(ops)] = Sync

Writes(ops) == IF Flushes(ops) THEN Len(ops) - 1 ELSE Len(ops)

AsRecord(op) ==
  IF op.do = "set" THEN Record(op.key, op.value) ELSE Tombstone(op.key)

WriteOp(op) == op.do \in {"set", "delete"} /\ WholeRecord(AsRecord(op))

OpsOk(ops) ==
  /\ \E S : ops \in Seq(S)
  /\ \A k \in 1 .. Writes(ops) : WriteOp(ops[k])

\* The file when the calls are done.
Future(file, ops) ==
  [k \in 1 .. Len(file) + Writes(ops) |->
     IF k <= Len(file) THEN file[k] ELSE AsRecord(ops[k - Len(file)])]

End(file, ops) == Len(file) + Writes(ops)

\* What is shown when it has n records.
At(file, ops, n) == Pic(Shown(Future(file, ops), n))

\* A flush is not a write.
LEMMA SyncFlushes == Sync.do = "flush" /\ ~WriteOp(Sync)
BY DEF Sync, WriteOp

\* The file when the calls are done begins with the file now.
LEMMA FutureFacts ==
  ASSUME NEW e, Whole(e), NEW ops, OpsOk(ops)
  PROVE  LET F == Future(e.file, ops)
         IN /\ Len(e.file) \in Nat /\ Len(ops) \in Nat /\ Writes(ops) \in Nat
            /\ \E S : F \in Seq(S)
            /\ Len(F) = End(e.file, ops) /\ Len(F) \in Nat
            /\ Len(F) = Len(e.file) + Writes(ops)
            /\ \A k \in 1 .. Len(e.file) : F[k] = e.file[k]
            /\ \A k \in 1 .. Writes(ops) : F[Len(e.file) + k] = AsRecord(ops[k])
            /\ \A k \in 1 .. Len(F) : WholeRecord(F[k])
            /\ \A n \in 0 .. Len(e.file) : Shown(F, n) = Shown(e.file, n)
            /\ At(e.file, ops, Len(e.file)) = Pic(Sight(e))
<1> DEFINE F == Future(e.file, ops)
           m == Len(e.file)
           w == Writes(ops)
           V == {F[k] : k \in 1 .. m + w}
<1>1. PICK S : e.file \in Seq(S)
  BY DEF Whole
<1>2. PICK T : ops \in Seq(T)
  BY DEF OpsOk
<1>3. m \in Nat /\ Len(ops) \in Nat /\ w \in Nat
  <2>1. ops # <<>> => Len(ops) > 0
    BY <1>2, EmptySeq
  <2> QED BY <1>1, <1>2, <2>1 DEF Writes, Flushes
<1>4. F = [k \in 1 .. m + w |-> IF k <= m THEN e.file[k] ELSE AsRecord(ops[k - m])]
  BY DEF Future
<1> HIDE DEF F, w, m
<1>5. F \in Seq(V) /\ Len(F) = m + w
  BY <1>3, <1>4
<1>6. \A k \in 1 .. m : F[k] = e.file[k]
  BY <1>3, <1>4
<1>7. \A k \in 1 .. w : F[m + k] = AsRecord(ops[k])
  <2> TAKE k \in 1 .. w
  <2>1. m + k \in 1 .. m + w /\ ~(m + k <= m) /\ (m + k) - m = k
    BY <1>3
  <2> HIDE DEF V
  <2> QED BY <1>4, <2>1
<1>8. ASSUME NEW k \in 1 .. Len(F)
      PROVE  WholeRecord(F[k])
  <2>1. CASE k <= m
    <3>1. k \in 1 .. m
      BY <1>3, <1>5, <2>1
    <3> QED BY <1>6, <3>1 DEF Whole, m
  <2>2. CASE ~(k <= m)
    <3>1. k - m \in 1 .. w /\ m + (k - m) = k
      BY <1>3, <1>5, <2>2
    <3> QED BY <1>7, <3>1 DEF OpsOk, WriteOp, w
  <2> QED BY <2>1, <2>2
<1>9. \A n \in 0 .. m : Shown(F, n) = Shown(e.file, n)
  <2> DEFINE R == S \cup V
  <2>1. F \in Seq(R) /\ e.file \in Seq(R)
    BY <1>1, <1>5, SeqDef
  <2>2. m <= Len(F) /\ m <= Len(e.file) /\ m \in Nat
    BY <1>3, <1>5 DEF m
  <2> HIDE DEF R
  <2> QED BY <1>6, <2>1, <2>2, ShownAgrees
<1>10. At(e.file, ops, m) = Pic(Sight(e))
  <2>1. m \in 0 .. m
    BY <1>3
  <2>2. Shown(F, m) = Shown(e.file, m)
    BY <1>9, <2>1
  <2> QED BY <2>2 DEF At, Sight, F, m
<1>11. Len(F) = End(e.file, ops) /\ Len(F) \in Nat
  BY <1>3, <1>5 DEF End, m, w
<1> QED BY <1>3, <1>5, <1>6, <1>7, <1>8, <1>9, <1>10, <1>11 DEF F, m, w

\* Without calls to come, that file is the file now.
LEMMA NothingComing ==
  /\ OpsOk(<<>>) /\ ~Flushes(<<>>) /\ Writes(<<>>) = 0
  /\ \A e : Whole(e) => /\ Future(e.file, <<>>) = e.file
                        /\ End(e.file, <<>>) = Len(e.file)
                        /\ \A n : At(e.file, <<>>, n) = Pic(Shown(e.file, n))
<1> DEFINE none == <<>>
<1>1. none \in Seq({}) /\ Len(none) = 0
  BY EmptySeq
<1>2. ~Flushes(none)
  BY DEF Flushes
<1> HIDE DEF none
<1>3. Writes(none) = 0
  BY <1>1, <1>2 DEF Writes
<1>4. OpsOk(none)
  <2>1. 1 .. Writes(none) = {}
    BY <1>3
  <2> QED BY <1>1, <2>1 DEF OpsOk
<1>5. ASSUME NEW e, Whole(e)
      PROVE  /\ Future(e.file, none) = e.file
             /\ End(e.file, none) = Len(e.file)
             /\ \A n : At(e.file, none, n) = Pic(Shown(e.file, n))
  <2>1. PICK S : e.file \in Seq(S)
    BY <1>5 DEF Whole
  <2>2. Len(e.file) \in Nat /\ e.file = [k \in 1 .. Len(e.file) |-> e.file[k]]
    BY <2>1
  <2>3. Len(e.file) + Writes(none) = Len(e.file)
    BY <1>3, <2>2
  <2>4. Future(e.file, none) =
          [k \in 1 .. Len(e.file) |->
             IF k <= Len(e.file) THEN e.file[k] ELSE AsRecord(none[k - Len(e.file)])]
    BY <2>3 DEF Future
  <2>5. \A k \in 1 .. Len(e.file) : k <= Len(e.file)
    BY <2>2
  <2>6. Future(e.file, none) = e.file
    BY <2>2, <2>4, <2>5
  <2> QED BY <2>3, <2>6 DEF End, At
<1> QED BY <1>2, <1>3, <1>4, <1>5 DEF none

\* A call that writes leaves the future as it was.
LEMMA EngineWrite ==
  ASSUME NEW e, Whole(e), NEW ops, OpsOk(ops), Writes(ops) # 0
  PROVE  LET d == Perform(e, Head(ops))
             t == Tail(ops)
         IN /\ Whole(d) /\ d.synced = e.synced /\ d.renamed = e.renamed
            /\ Len(d.file) = Len(e.file) + 1
            /\ OpsOk(t) /\ Writes(t) = Writes(ops) - 1 /\ Flushes(t) = Flushes(ops)
            /\ Future(d.file, t) = Future(e.file, ops)
            /\ Head(ops) # Sync
            /\ Len(ops) = 1 => t = <<>>
            /\ Len(ops) # 1 => t # <<>>
<1> DEFINE op == Head(ops)
           t == Tail(ops)
           d == Perform(e, op)
           m == Len(e.file)
           n == Len(ops)
<1>1. PICK T : ops \in Seq(T)
  BY DEF OpsOk
<1>2. PICK S : e.file \in Seq(S)
  BY DEF Whole
<1>3. m \in Nat /\ n \in Nat /\ Writes(ops) \in Nat /\ Writes(ops) <= n
  <2>1. m \in Nat /\ Writes(ops) \in Nat
    BY FutureFacts
  <2>2. n \in Nat
    BY <1>1
  <2> QED BY <2>1, <2>2 DEF Writes
<1>4. n > 0 /\ op = ops[1] /\ 1 \in 1 .. Writes(ops)
  BY <1>1, <1>3
<1>5. WriteOp(op) /\ op # Sync
  BY <1>4, SyncFlushes DEF OpsOk
<1>6. d = Written(e, AsRecord(op))
  BY <1>5 DEF WriteOp, Perform, Set, Delete, AsRecord
<1>7. /\ Whole(d) /\ d.synced = e.synced /\ d.renamed = e.renamed
      /\ Len(d.file) = m + 1
  BY <1>5, <1>6, WrittenWhole DEF WriteOp
<1>8. d.file = Append(e.file, AsRecord(op))
  <2>1. e = [file |-> e.file, synced |-> e.synced, renamed |-> e.renamed,
             keydir |-> e.keydir]
    BY DEF Whole
  <2> QED BY <1>6, <2>1 DEF Written
<1>9. ops # <<>> /\ t \in Seq(T) /\ Len(t) = n - 1 /\ \A k \in 1 .. n - 1 : t[k] = ops[k + 1]
  BY <1>1, <1>4
<1> HIDE DEF t, d, op, m, n
<1>16. n = 1 => Len(t) = 0
  BY <1>9
<1>10. n = 1 => t = <<>>
  BY <1>9, <1>16, EmptySeq
<1>11. n # 1 => t # <<>>
  <2>1. n # 1 => Len(t) # 0
    BY <1>3, <1>4, <1>9
  <2>2. Len(<<>>) = 0
    OBVIOUS
  <2> QED BY <2>1, <2>2
<1>12. Flushes(t) = Flushes(ops)
  <2>1. CASE n = 1
    <3>1. ~Flushes(ops)
      BY <1>4, <1>5, <1>9, <2>1 DEF n, Flushes
    <3> QED BY <1>10, <2>1, <3>1 DEF Flushes
  <2>2. CASE n # 1
    <3>1. n - 1 \in 1 .. n - 1 /\ (n - 1) + 1 = n
      BY <1>3, <1>4, <2>2
    <3>2. t[Len(t)] = ops[n]
      BY <1>9, <3>1
    <3> QED BY <1>9, <1>11, <2>2, <3>2 DEF Flushes, n
  <2> QED BY <2>1, <2>2
<1>13. Writes(t) = Writes(ops) - 1
  BY <1>3, <1>9, <1>12 DEF Writes, n
<1>14. OpsOk(t)
  <2>1. ASSUME NEW k \in 1 .. Writes(t)
        PROVE  WriteOp(t[k])
    <3>1. k \in 1 .. n - 1 /\ k + 1 \in 1 .. Writes(ops)
      BY <1>3, <1>13
    <3> QED BY <1>9, <3>1 DEF OpsOk
  <2> QED BY <1>9, <2>1 DEF OpsOk
<1>15. Future(d.file, t) = Future(e.file, ops)
  <2>1. Len(d.file) + Writes(t) = m + Writes(ops)
    BY <1>3, <1>7, <1>13
  <2> DEFINE N == m + Writes(ops)
  <2>2. Future(d.file, t) =
          [k \in 1 .. N |-> IF k <= m + 1 THEN d.file[k] ELSE AsRecord(t[k - (m + 1)])]
    BY <1>7, <2>1 DEF Future
  <2>3. Future(e.file, ops) =
          [k \in 1 .. N |-> IF k <= m THEN e.file[k] ELSE AsRecord(ops[k - m])]
    BY DEF Future, m
  <2>4. ASSUME NEW k \in 1 .. N
        PROVE  (IF k <= m + 1 THEN d.file[k] ELSE AsRecord(t[k - (m + 1)]))
                 = (IF k <= m THEN e.file[k] ELSE AsRecord(ops[k - m]))
    <3>0. k \in Nat /\ N \in Nat
      BY <1>3
    <3>1. CASE k <= m
      <4>1. k \in 1 .. m /\ k <= m + 1
        BY <1>3, <3>0, <3>1
      <4>2. d.file[k] = e.file[k]
        <5> DEFINE rec == AsRecord(op)
        <5>1. e.file \in Seq(S \cup {rec}) /\ rec \in S \cup {rec} /\ k \in 1 .. Len(e.file)
          BY <1>2, <4>1, SeqDef DEF m
        <5> HIDE DEF rec
        <5>2. Append(e.file, rec)[k] = e.file[k]
          BY <5>1
        <5> QED BY <1>8, <5>2 DEF rec
      <4> QED BY <3>1, <4>1, <4>2
    <3>2. CASE k = m + 1
      <4>1. k <= m + 1 /\ ~(k <= m) /\ k - m = 1
        BY <1>3, <3>2
      <4>2. d.file[k] = AsRecord(op)
        <5> DEFINE rec == AsRecord(op)
        <5>1. e.file \in Seq(S \cup {rec}) /\ rec \in S \cup {rec} /\ k = Len(e.file) + 1
          BY <1>2, <3>2, SeqDef DEF m
        <5> HIDE DEF rec
        <5>2. Append(e.file, rec)[k] = rec
          BY <5>1
        <5> QED BY <1>8, <5>2 DEF rec
      <4> QED BY <1>4, <4>1, <4>2
    <3>3. CASE k > m + 1
      <4>1. ~(k <= m + 1) /\ ~(k <= m) /\ k - (m + 1) \in 1 .. n - 1
            /\ (k - (m + 1)) + 1 = k - m
        BY <1>3, <3>0, <3>3
      <4> QED BY <1>9, <4>1
    <3> QED BY <1>3, <3>0, <3>1, <3>2, <3>3
  <2> HIDE DEF N
  <2> QED BY <2>2, <2>3, <2>4
<1> QED BY <1>5, <1>7, <1>10, <1>11, <1>12, <1>13, <1>14, <1>15 DEF t, d, op, m, n

\* A call that does not write is the flush at the end.
LEMMA EngineFlush ==
  ASSUME NEW e, Whole(e), NEW ops, OpsOk(ops), ops # <<>>, Writes(ops) = 0
  PROVE  /\ Perform(e, Head(ops)) = Flush(e) /\ Head(ops) = Sync
         /\ Len(ops) = 1 /\ Tail(ops) = <<>> /\ Flushes(ops)
<1>1. PICK T : ops \in Seq(T)
  BY DEF OpsOk
<1>2. Len(ops) \in Nat /\ Len(ops) # 0
  BY <1>1, EmptySeq
<1>3. Flushes(ops) /\ Len(ops) = 1
  BY <1>2 DEF Writes
<1>4. Head(ops) = Sync
  BY <1>1, <1>3 DEF Flushes
<1>5. Tail(ops) \in Seq(T) /\ Len(Tail(ops)) = 0
  BY <1>1, <1>3
<1>6. Tail(ops) = <<>>
  BY <1>5, EmptySeq
<1>7. Perform(e, Sync) = Flush(e)
  BY DEF Perform, Sync
<1> QED BY <1>3, <1>4, <1>6, <1>7

-----------------------------------------------------------------------------
(* The invariant.                                                          *)

\* The log r begins with the entries of l.
Grows(l, r) ==
  /\ l.first = r.first
  /\ Len(l.ents) <= Len(r.ents)
  /\ \A k \in 1 .. Len(l.ents) : r.ents[k] = l.ents[k]

VoteKept(p, l, r) == p.tv = <<l.term, l.vote>> \/ p.tv = <<r.term, r.vote>>

\* Every committed entry is there; or it is in the snapshot, and what is opened
\* uses it or shows that the entries are missing.
CommittedKept(p, l) ==
  \/ /\ p.m[1] = l.first - 1
     /\ \A k \in l.first .. l.commit :
          k \in DOMAIN p.ents /\ p.ents[k] = EntryAt(l, k)
  \/ /\ p.live /\ p.d >= l.commit
     /\ p.m[1] > 0 \/ (1 \notin DOMAIN p.ents /\ p.c[1] = l.commit)

OnlyAdded(p, l, r) ==
  Grows(l, r) =>
    \E x : Proper(x) /\ x.synced = l.synced /\ Stores(p, x) /\ Grows(l, x) /\ Grows(x, r)

\* What is shown in the middle of a method that takes l to r.
Between(p, l, r) == VoteKept(p, l, r) /\ CommittedKept(p, l) /\ OnlyAdded(p, l, r)

\* The least number of records that a stop can leave and that are opened.
Floor(e) == IF e.renamed THEN Len(e.file) ELSE e.synced

\* The same, without those of a method interrupted earlier.
Recent(e, u) == IF e.renamed \/ u THEN Len(e.file) ELSE e.synced

\* Every stop leaves something sound, with the commit index at least s.
AllSound(e, ops, s) ==
  \A n \in Floor(e) .. End(e.file, ops) :
    Sound(At(e.file, ops, n)) /\ s <= CommitOf(At(e.file, ops, n))

\* Nothing but commit indexes has been written since the last flush.
OnlyCommits(e, ops, l) ==
  /\ \A n \in e.synced .. End(e.file, ops) : Holds(At(e.file, ops, n), l)
  /\ \A m, n \in e.synced .. End(e.file, ops) :
       m <= n => CommitOf(At(e.file, ops, m)) <= CommitOf(At(e.file, ops, n))

StoreOk(e, ops, f, l, r, u) ==
  /\ Proper(l) /\ f = CacheOf(l)
  /\ OpsOk(ops)
  /\ AllSound(e, ops, l.synced)
  /\ ops = <<>> => Stores(At(e.file, ops, End(e.file, ops)), l)
  /\ ops # <<>> =>
       /\ Proper(r.log) /\ r.fields = CacheOf(r.log)
       /\ Stores(At(e.file, ops, End(e.file, ops)), r.log)
       /\ ~Flushes(ops) => r.log.synced = l.synced
       /\ \A n \in Recent(e, u) .. End(e.file, ops) :
            Between(At(e.file, ops, n), l, r.log)
  /\ ~Flushes(ops) /\ ~u /\ ~e.renamed =>
       OnlyCommits(e, ops, IF ops = <<>> THEN l ELSE r.log)

StoreInv ==
  /\ Whole(engine) /\ unsettled \in BOOLEAN
  /\ spent \in [{"calls", "crashes", "reopens"} -> Nat]
  /\ log = Nil => pending = <<>>
  /\ log # Nil => StoreOk(engine, pending, fields, log, result, unsettled)

\* The commit index opened is one of the two that are stored.
LEMMA CommitOfNat ==
  ASSUME NEW p, Sound(p)
  PROVE  CommitOf(p) \in Nat /\ p.m[1] <= CommitOf(p) /\ p.c[1] <= CommitOf(p)
         /\ p.m[1] \in Nat /\ p.c[1] \in Nat
         /\ (CommitOf(p) # p.m[1] => CommitOf(p) = p.c[1])
<1>1. p.m[1] \in Nat /\ p.c[1] \in Nat
  BY DEF Sound
<1> QED BY <1>1 DEF CommitOf

\* Before a method has written anything, its log is shown, perhaps with an
\* earlier commit index.
LEMMA HoldsReopened ==
  ASSUME NEW l, Proper(l), NEW p, Sound(p), Holds(p, l),
         l.synced <= CommitOf(p), CommitOf(p) <= l.commit
  PROVE  LET x == Reopened(l, CommitOf(p))
         IN /\ Proper(x) /\ Stores(p, x) /\ x.synced = l.synced
            /\ Rebuilt(p, l.synced) = x /\ Coherent(p)
            /\ x.ents = l.ents /\ x.first = l.first
<1> DEFINE x == Reopened(l, CommitOf(p))
           c == CommitOf(p)
<1>1. /\ c \in Nat /\ l.first - 1 <= c /\ c <= LastIndex(l) /\ l.synced <= c
  <2>1. l.commit \in l.first - 1 .. LastIndex(l) /\ l.commit \in Nat
        /\ LastIndex(l) \in Nat /\ l.first \in Nat
    BY LogFacts DEF Proper
  <2>2. c \in Nat /\ p.m[1] <= c /\ p.m[1] = l.first - 1
    BY CommitOfNat DEF Holds
  <2> QED BY <2>1, <2>2
<1>2. /\ Proper(x) /\ x.commit = c /\ x.synced = l.synced /\ Holds(p, x)
      /\ x.ents = l.ents /\ x.first = l.first
  BY <1>1, ReopenedFacts
<1> HIDE DEF x
<1>3. Stores(p, x)
  BY <1>2 DEF Stores
<1>4. Rebuilt(p, l.synced) = x /\ Coherent(p)
  BY <1>2, <1>3, HoldsOpens
<1> QED BY <1>2, <1>3, <1>4 DEF x

\* What stands for the log before a method is a stage of the method.
LEMMA HoldsBetween ==
  ASSUME NEW l, Proper(l), NEW p, Sound(p), Holds(p, l),
         l.synced <= CommitOf(p), CommitOf(p) <= l.commit, NEW r
  PROVE  Between(p, l, r)
<1>1. VoteKept(p, l, r)
  BY DEF VoteKept, Holds
<1>2. CommittedKept(p, l)
  <2>1. p.m[1] = l.first - 1
    BY DEF Holds
  <2>2. ASSUME NEW k \in l.first .. l.commit
        PROVE  k \in DOMAIN p.ents /\ p.ents[k] = EntryAt(l, k)
    <3>1. l.commit \in l.first - 1 .. LastIndex(l) /\ l.commit \in Nat
          /\ LastIndex(l) \in Nat /\ l.first \in Nat
      BY LogFacts DEF Proper
    <3>2. k \in l.first .. LastIndex(l)
      BY <3>1
    <3> QED BY <3>2 DEF Holds
  <2> QED BY <2>1, <2>2 DEF CommittedKept
<1>3. OnlyAdded(p, l, r)
  <2> SUFFICES ASSUME Grows(l, r)
               PROVE  \E x : /\ Proper(x) /\ x.synced = l.synced /\ Stores(p, x)
                             /\ Grows(l, x) /\ Grows(x, r)
    BY DEF OnlyAdded
  <2> DEFINE x == Reopened(l, CommitOf(p))
  <2>1. Proper(x) /\ Stores(p, x) /\ x.synced = l.synced /\ x.ents = l.ents /\ x.first = l.first
    BY HoldsReopened
  <2> HIDE DEF x
  <2>2. Grows(x, r)
    BY <2>1 DEF Grows
  <2>3. Grows(l, x)
    <3>1. Len(l.ents) \in Nat
      BY LogFacts DEF Proper
    <3> QED BY <2>1, <3>1 DEF Grows
  <2> QED BY <2>1, <2>2, <2>3
<1> QED BY <1>1, <1>2, <1>3 DEF Between

-----------------------------------------------------------------------------
(* Stops.                                                                  *)

\* What is opened after a stop shows what the file showed at that point.
LEMMA StopShows ==
  ASSUME NEW e, Whole(e), NEW ops, OpsOk(ops),
         NEW n \in e.synced .. Len(e.file), NEW torn \in BOOLEAN
  PROVE  LET o == Open(e, Remains(e, n, torn))
         IN /\ Whole(o) /\ o.synced = e.synced /\ o.renamed = e.renamed
            /\ Len(o.file) = n /\ End(o.file, <<>>) = n
            /\ Pic(Sight(o)) = At(e.file, ops, n)
            /\ \A k \in 0 .. n : At(o.file, <<>>, k) = At(e.file, ops, k)
            /\ n \in Nat /\ e.synced \in Nat /\ n <= End(e.file, ops)
<1> DEFINE o == Open(e, Remains(e, n, torn))
<1>1. /\ Len(e.file) \in Nat /\ Writes(ops) \in Nat /\ e.synced \in Nat
      /\ \A k \in 0 .. Len(e.file) : Shown(Future(e.file, ops), k) = Shown(e.file, k)
  BY FutureFacts DEF Whole
<1>2. n \in 0 .. Len(e.file) /\ n >= e.synced /\ n \in Nat /\ n <= End(e.file, ops)
  BY <1>1 DEF End
<1>3. /\ Whole(o) /\ o.synced = e.synced /\ o.renamed = e.renamed
      /\ Len(o.file) = n
      /\ \A k \in 0 .. n : Shown(o.file, k) = Shown(e.file, k)
  BY <1>2, OpenWhole
<1> HIDE DEF o
<1>4. ASSUME NEW k \in 0 .. n
      PROVE  At(o.file, <<>>, k) = At(e.file, ops, k)
  <2>1. k \in 0 .. Len(e.file)
    BY <1>1, <1>2
  <2>2. At(o.file, <<>>, k) = Pic(Shown(o.file, k))
    BY <1>3, NothingComing
  <2>3. At(e.file, ops, k) = Pic(Shown(e.file, k))
    BY <1>1, <2>1 DEF At
  <2> QED BY <1>3, <2>2, <2>3
<1>5. End(o.file, <<>>) = n
  BY <1>3, NothingComing
<1>6. Pic(Sight(o)) = At(e.file, ops, n)
  <2>1. Pic(Sight(o)) = At(o.file, <<>>, n)
    BY <1>3, NothingComing DEF Sight
  <2> QED BY <1>2, <1>4, <2>1
<1> QED BY <1>1, <1>2, <1>3, <1>4, <1>5, <1>6 DEF o

\* A stop leaves a store as it should be, or one that no log value stands for.
LEMMA StopOk ==
  ASSUME NEW e, Whole(e), NEW ops, NEW f, NEW l, NEW r, NEW u \in BOOLEAN,
         StoreOk(e, ops, f, l, r, u),
         NEW n \in e.synced .. Len(e.file), NEW torn \in BOOLEAN
  PROVE  LET o == Open(e, Remains(e, n, torn))
             p == At(e.file, ops, n)
             x == IF e.renamed /\ n < Len(e.file) THEN Nil
                  ELSE AsLog(o, LogNew(o), l.synced)
         IN /\ Whole(o)
            /\ ~(e.renamed /\ n < Len(e.file)) =>
                 /\ Sound(p) /\ LogNew(o) = OpenedAs(p)
                 /\ x = IF Coherent(p) THEN Rebuilt(p, l.synced) ELSE Nil
            /\ x # Nil => StoreOk(o, <<>>, LogNew(o), x, Nil,
                                  (u \/ ops # <<>>) /\ n > e.synced)
<1> DEFINE o == Open(e, Remains(e, n, torn))
           p == At(e.file, ops, n)
           x == IF e.renamed /\ n < Len(e.file) THEN Nil
                ELSE AsLog(o, LogNew(o), l.synced)
           v == (u \/ ops # <<>>) /\ n > e.synced
<1>1. /\ Proper(l) /\ OpsOk(ops) /\ AllSound(e, ops, l.synced)
  BY DEF StoreOk
<1>2. /\ Whole(o) /\ o.synced = e.synced /\ o.renamed = e.renamed
      /\ Len(o.file) = n /\ End(o.file, <<>>) = n
      /\ Pic(Sight(o)) = p
      /\ \A k \in 0 .. n : At(o.file, <<>>, k) = At(e.file, ops, k)
      /\ n \in Nat /\ e.synced \in Nat /\ n <= End(e.file, ops)
  BY <1>1, StopShows
<1>3. Len(e.file) \in Nat /\ End(e.file, ops) \in Nat
  BY <1>1, FutureFacts
<1> HIDE DEF o, p
<1>4. ASSUME ~(e.renamed /\ n < Len(e.file))
      PROVE  /\ Sound(p) /\ l.synced <= CommitOf(p) /\ LogNew(o) = OpenedAs(p)
             /\ x = IF Coherent(p) THEN Rebuilt(p, l.synced) ELSE Nil
             /\ n \in Floor(e) .. End(e.file, ops)
  <2>1. n \in Floor(e) .. End(e.file, ops)
    BY <1>2, <1>3, <1>4 DEF Floor
  <2>2. Sound(p) /\ l.synced <= CommitOf(p)
    BY <1>1, <2>1 DEF AllSound, p
  <2>3. LogNew(o) = OpenedAs(p) /\ AsLog(o, LogNew(o), l.synced)
                                  = IF Coherent(p) THEN Rebuilt(p, l.synced) ELSE Nil
    BY <1>2, <2>2, OpenedIs, AsLogIs
  <2> QED BY <1>4, <2>1, <2>2, <2>3
<1>5. ASSUME x # Nil
      PROVE  StoreOk(o, <<>>, LogNew(o), x, Nil, v)
  <2>0. ~(e.renamed /\ n < Len(e.file))
    BY <1>5
  <2>1. /\ Sound(p) /\ l.synced <= CommitOf(p) /\ LogNew(o) = OpenedAs(p)
        /\ Coherent(p) /\ x = Rebuilt(p, l.synced)
        /\ n \in Floor(e) .. End(e.file, ops)
    BY <1>4, <1>5, <2>0
  <2>2. l.synced \in Nat
    BY <1>1, LogFacts DEF Proper
  <2> HIDE DEF x
  <2>3. /\ Proper(x) /\ Stores(p, x) /\ x.synced = l.synced /\ OpenedAs(p) = CacheOf(x)
    BY <2>1, <2>2, RebuiltHolds
  <2>4. At(o.file, <<>>, n) = p
    BY <1>2 DEF p
  <2>5. AllSound(o, <<>>, x.synced)
    <3> SUFFICES ASSUME NEW k \in Floor(o) .. n
                 PROVE  /\ Sound(At(o.file, <<>>, k))
                        /\ l.synced <= CommitOf(At(o.file, <<>>, k))
      BY <1>2, <2>3 DEF AllSound
    <3>1. k \in 0 .. n /\ k \in Floor(e) .. End(e.file, ops)
      BY <1>2, <1>3, <2>0 DEF Floor
    <3> QED BY <1>1, <1>2, <3>1 DEF AllSound
  <2>6. ASSUME ~v, ~o.renamed
        PROVE  OnlyCommits(o, <<>>, x)
    <3>1. CASE n = e.synced
      <4>1. \A k \in o.synced .. End(o.file, <<>>) : k = n
        BY <1>2, <3>1
      <4>2. CommitOf(p) <= CommitOf(p)
        BY <2>1, CommitOfNat
      <4> QED BY <2>3, <2>4, <4>1, <4>2 DEF OnlyCommits, Stores
    <3>2. CASE n # e.synced
      <4>1. ~u /\ ops = <<>> /\ ~e.renamed
        BY <1>2, <2>6, <3>2
      <4>2. OnlyCommits(e, ops, l) /\ Stores(At(e.file, ops, End(e.file, ops)), l)
        BY <4>1, NothingComing DEF StoreOk
      <4>3. \A k \in o.synced .. End(o.file, <<>>) :
              k \in 0 .. n /\ k \in e.synced .. End(e.file, ops)
        BY <1>2, <1>3
      <4>4. Holds(p, l) /\ CommitOf(p) <= l.commit
        <5>1. n \in e.synced .. End(e.file, ops)
              /\ End(e.file, ops) \in e.synced .. End(e.file, ops) /\ n <= End(e.file, ops)
          BY <1>2, <1>3
        <5> QED BY <4>2, <5>1 DEF OnlyCommits, Stores, p
      <4>5. \A q : Holds(q, x) <=> Holds(q, l)
        <5>1. /\ CommitOf(p) \in Nat /\ l.first - 1 <= CommitOf(p)
              /\ CommitOf(p) <= LastIndex(l) /\ l.synced <= CommitOf(p)
          <6>1. l.commit \in l.first - 1 .. LastIndex(l) /\ l.commit \in Nat
                /\ LastIndex(l) \in Nat /\ l.first \in Nat
            BY <1>1, LogFacts DEF Proper
          <6>2. CommitOf(p) \in Nat /\ p.m[1] <= CommitOf(p) /\ p.m[1] = l.first - 1
            BY <2>1, <4>4, CommitOfNat DEF Holds
          <6> QED BY <2>1, <4>4, <6>1, <6>2
        <5>2. x = Reopened(l, CommitOf(p))
          BY <1>1, <2>1, <4>4, HoldsReopened
        <5> QED BY <1>1, <5>1, <5>2, ReopenedFacts
      <4> QED BY <1>2, <4>2, <4>3, <4>5 DEF OnlyCommits
    <3> QED BY <3>1, <3>2
  <2> QED BY <1>2, <2>1, <2>3, <2>4, <2>5, <2>6, NothingComing DEF StoreOk
<1> QED BY <1>2, <1>4, <1>5 DEF o, p

-----------------------------------------------------------------------------
(* The steps between methods and inside them.                              *)

\* A store of which only the last record counts.
LEMMA OnePoint ==
  ASSUME NEW c, Whole(c), NEW x, Proper(x), Sound(Pic(Sight(c))), Stores(Pic(Sight(c)), x),
         ~c.renamed => c.synced = Len(c.file), NEW r, NEW v
  PROVE  StoreOk(c, <<>>, CacheOf(x), x, r, v) /\ LogNew(c) = CacheOf(x)
<1> DEFINE n == Len(c.file)
           p == Pic(Sight(c))
<1>1. n \in Nat /\ End(c.file, <<>>) = n /\ At(c.file, <<>>, n) = p
      /\ OpsOk(<<>>) /\ ~Flushes(<<>>)
  BY NothingComing, FutureFacts DEF Sight
<1>2. Floor(c) = n
  BY DEF Floor
<1>3. x.synced <= CommitOf(p)
  BY DEF Proper, Stores
<1> HIDE DEF n, p
<1>4. AllSound(c, <<>>, x.synced)
  <2>1. \A k \in Floor(c) .. End(c.file, <<>>) : k = n
    BY <1>1, <1>2
  <2> QED BY <1>1, <1>3, <2>1 DEF AllSound, p
<1>5. ~c.renamed => OnlyCommits(c, <<>>, x)
  <2> SUFFICES ASSUME ~c.renamed
               PROVE  OnlyCommits(c, <<>>, x)
    OBVIOUS
  <2>1. \A k \in c.synced .. End(c.file, <<>>) : k = n
    BY <1>1 DEF n
  <2>2. CommitOf(p) <= CommitOf(p)
    BY CommitOfNat DEF p
  <2> QED BY <1>1, <2>1, <2>2 DEF OnlyCommits, Stores, p
<1>6. LogNew(c) = CacheOf(x)
  BY OpenedIs, HoldsOpens
<1> QED BY <1>1, <1>4, <1>5, <1>6 DEF StoreOk, p

\* What a store between methods shows.
LEMMA IdleShows ==
  ASSUME NEW e, Whole(e), NEW f, NEW l, NEW r, NEW u, StoreOk(e, <<>>, f, l, r, u)
  PROVE  LET p == Pic(Sight(e))
         IN /\ Proper(l) /\ f = CacheOf(l) /\ Sound(p) /\ Stores(p, l)
            /\ At(e.file, <<>>, Len(e.file)) = p
<1>1. /\ Len(e.file) \in Nat /\ End(e.file, <<>>) = Len(e.file)
      /\ At(e.file, <<>>, Len(e.file)) = Pic(Sight(e))
  BY NothingComing, FutureFacts DEF Sight
<1>2. Len(e.file) \in Floor(e) .. End(e.file, <<>>)
  BY <1>1 DEF Floor, Whole
<1> QED BY <1>1, <1>2 DEF StoreOk, AllSound

\* A method goes on as it should, and its last call ends it.
LEMMA EngineCallOk ==
  ASSUME NEW e, Whole(e), NEW ops, ops # <<>>, NEW f, NEW l, NEW r, NEW u \in BOOLEAN,
         StoreOk(e, ops, f, l, r, u)
  PROVE  LET d == Perform(e, Head(ops))
             t == Tail(ops)
             v == u /\ Head(ops) # Sync
         IN /\ Whole(d)
            /\ Len(ops) = 1 => t = <<>> /\ StoreOk(d, t, r.fields, r.log, Nil, v)
            /\ Len(ops) # 1 => t # <<>> /\ StoreOk(d, t, f, l, r, v)
<1> DEFINE d == Perform(e, Head(ops))
           t == Tail(ops)
           v == u /\ Head(ops) # Sync
           N == End(e.file, ops)
<1>1. /\ Proper(l) /\ f = CacheOf(l) /\ OpsOk(ops) /\ AllSound(e, ops, l.synced)
      /\ Proper(r.log) /\ r.fields = CacheOf(r.log)
      /\ Stores(At(e.file, ops, N), r.log)
      /\ (~Flushes(ops) => r.log.synced = l.synced)
      /\ (\A n \in Recent(e, u) .. N : Between(At(e.file, ops, n), l, r.log))
      /\ (~Flushes(ops) /\ ~u /\ ~e.renamed => OnlyCommits(e, ops, r.log))
  BY DEF StoreOk
<1>2. /\ Len(e.file) \in Nat /\ N \in Nat /\ Len(e.file) <= N
      /\ N = Len(e.file) + Writes(ops) /\ Writes(ops) \in Nat
      /\ At(e.file, ops, Len(e.file)) = Pic(Sight(e))
  BY <1>1, FutureFacts DEF End
<1>3. e.synced \in Nat /\ e.synced <= Len(e.file) /\ e.renamed \in BOOLEAN
  BY <1>2 DEF Whole
<1> HIDE DEF d, t
<1>4. CASE Writes(ops) # 0
  <2>1. /\ Whole(d) /\ d.synced = e.synced /\ d.renamed = e.renamed
        /\ Len(d.file) = Len(e.file) + 1
        /\ OpsOk(t) /\ Writes(t) = Writes(ops) - 1 /\ Flushes(t) = Flushes(ops)
        /\ Future(d.file, t) = Future(e.file, ops)
        /\ Head(ops) # Sync
        /\ (Len(ops) = 1 => t = <<>>)
        /\ (Len(ops) # 1 => t # <<>>)
    <3> HIDE DEF N, v
    <3> QED BY <1>1, <1>4, EngineWrite DEF d, t
  <2>0. v = u
    BY <2>1
  <2>2. End(d.file, t) = N /\ \A n : At(d.file, t, n) = At(e.file, ops, n)
    BY <1>2, <2>1 DEF End, At
  <2> HIDE DEF v, N
  <2>3. /\ \A n \in Floor(d) .. N : n \in Floor(e) .. N
        /\ \A n \in Recent(d, v) .. N : n \in Recent(e, u) .. N
    <3>1. Floor(d) \in Nat /\ Floor(e) \in Nat /\ Floor(e) <= Floor(d)
      BY <1>2, <1>3, <2>1 DEF Floor
    <3>2. Recent(d, v) \in Nat /\ Recent(e, u) \in Nat /\ Recent(e, u) <= Recent(d, v)
      BY <1>2, <1>3, <2>0, <2>1 DEF Recent
    <3> QED BY <1>2, <3>1, <3>2
  <2>4. AllSound(d, t, l.synced)
    BY <1>1, <2>2, <2>3 DEF AllSound, N
  <2>5. ASSUME ~Flushes(t), ~v, ~d.renamed
        PROVE  OnlyCommits(d, t, r.log)
    <3>1. OnlyCommits(e, ops, r.log)
      BY <1>1, <2>0, <2>1, <2>5
    <3> QED BY <2>1, <2>2, <3>1 DEF OnlyCommits, N
  <2>6. CASE Len(ops) = 1
    <3>1. t = <<>> /\ ~Flushes(ops) /\ r.log.synced = l.synced
      BY <1>1, <2>1, <2>6, NothingComing
    <3> QED BY <1>1, <2>1, <2>2, <2>4, <2>5, <2>6, <3>1 DEF StoreOk, d, t, v
  <2>7. CASE Len(ops) # 1
    <3>1. t # <<>> /\ \A n \in Recent(d, v) .. End(d.file, t) :
                        Between(At(d.file, t, n), l, r.log)
      BY <1>1, <2>1, <2>2, <2>3, <2>7
    <3> QED BY <1>1, <2>1, <2>2, <2>4, <2>5, <2>7, <3>1 DEF StoreOk, d, t, v
  <2> QED BY <2>6, <2>7
<1>5. CASE Writes(ops) = 0
  <2>1. d = Flush(e) /\ Len(ops) = 1 /\ t = <<>>
    BY <1>1, <1>5, EngineFlush DEF d, t
  <2>2. Whole(d) /\ d.file = e.file /\ d.synced = Len(e.file) /\ d.renamed = FALSE
    BY <2>1, FlushWhole
  <2>3. N = Len(e.file) /\ Pic(Sight(d)) = At(e.file, ops, N)
    BY <1>2, <1>5, <2>2 DEF Sight
  <2>4. N \in Floor(e) .. N
    BY <1>2, <1>3 DEF Floor
  <2>5. Sound(Pic(Sight(d))) /\ Stores(Pic(Sight(d)), r.log)
    BY <1>1, <2>3, <2>4 DEF AllSound
  <2>6. StoreOk(d, <<>>, r.fields, r.log, Nil, v)
    BY <1>1, <2>2, <2>5, OnePoint
  <2> QED BY <2>1, <2>2, <2>6 DEF d, t
<1> QED BY <1>4, <1>5

\* The start of a method that takes l to x, when every stage of it is sound and
\* a stop at any of them keeps what it must.
LEMMA CallOk ==
  ASSUME NEW e, Whole(e), NEW f, NEW l, NEW r, NEW u \in BOOLEAN,
         StoreOk(e, <<>>, f, l, r, u),
         NEW ops, ops # <<>>, OpsOk(ops), NEW x, Proper(x),
         \A k \in 0 .. Writes(ops) :
           LET q == At(e.file, ops, Len(e.file) + k)
           IN Sound(q) /\ l.synced <= CommitOf(q) /\ Between(q, l, x),
         Stores(At(e.file, ops, Len(e.file) + Writes(ops)), x),
         ~Flushes(ops) =>
           /\ x.synced = l.synced /\ l.commit <= x.commit /\ Writes(ops) = 1
           /\ \A q : Holds(q, l) => Holds(q, x)
  PROVE  StoreOk(e, ops, f, l, [fields |-> CacheOf(x), log |-> x], u)
<1> DEFINE n == Len(e.file)
           w == Writes(ops)
           z == [fields |-> CacheOf(x), log |-> x]
<1>1. /\ Proper(l) /\ f = CacheOf(l) /\ AllSound(e, <<>>, l.synced)
      /\ (~u /\ ~e.renamed => OnlyCommits(e, <<>>, l))
  BY NothingComing DEF StoreOk
<1>2. /\ n \in Nat /\ w \in Nat /\ End(e.file, ops) = n + w
      /\ \A k \in 0 .. n : Shown(Future(e.file, ops), k) = Shown(e.file, k)
      /\ End(e.file, <<>>) = n
      /\ \A k : At(e.file, <<>>, k) = Pic(Shown(e.file, k))
  BY FutureFacts, NothingComing DEF End
<1>3. \A k \in 0 .. n : At(e.file, ops, k) = At(e.file, <<>>, k)
  BY <1>2 DEF At
<1>4. e.synced \in Nat /\ e.synced <= n /\ e.renamed \in BOOLEAN
  BY <1>2 DEF Whole
<1>5. /\ Sound(Pic(Sight(e))) /\ Stores(Pic(Sight(e)), l)
      /\ At(e.file, <<>>, n) = Pic(Sight(e))
  BY IdleShows
<1>6. \A k \in n .. n + w :
        LET q == At(e.file, ops, k)
        IN Sound(q) /\ l.synced <= CommitOf(q) /\ Between(q, l, x)
  <2> TAKE k \in n .. n + w
  <2>1. k - n \in 0 .. w /\ n + (k - n) = k
    BY <1>2
  <2> QED BY <2>1
<1> HIDE DEF n, w
<1>7. AllSound(e, ops, l.synced)
  <2> SUFFICES ASSUME NEW k \in Floor(e) .. n + w
               PROVE  Sound(At(e.file, ops, k)) /\ l.synced <= CommitOf(At(e.file, ops, k))
    BY <1>2 DEF AllSound
  <2>1. CASE k <= n
    <3>1. k \in 0 .. n /\ k \in Floor(e) .. n
      BY <1>2, <1>4, <2>1 DEF Floor, n
    <3> QED BY <1>1, <1>2, <1>3, <3>1 DEF AllSound
  <2>2. CASE ~(k <= n)
    <3>1. k \in n .. n + w
      BY <1>2, <1>4, <2>2 DEF Floor, n
    <3> QED BY <1>6, <3>1
  <2> QED BY <2>1, <2>2
<1>8. ASSUME NEW k \in Recent(e, u) .. n + w
      PROVE  Between(At(e.file, ops, k), l, x)
  <2>1. CASE k < n
    <3>1. ~u /\ ~e.renamed /\ k \in e.synced .. n /\ k \in 0 .. n /\ n \in e.synced .. n
          /\ k \in Floor(e) .. n /\ k <= n
      BY <1>2, <1>4, <1>8, <2>1 DEF Recent, Floor, n
    <3> DEFINE q == At(e.file, <<>>, k)
    <3>2. Holds(q, l) /\ CommitOf(q) <= CommitOf(At(e.file, <<>>, n))
      BY <1>1, <1>2, <3>1 DEF OnlyCommits
    <3>3. Sound(q) /\ l.synced <= CommitOf(q)
      BY <1>1, <1>2, <3>1 DEF AllSound
    <3>4. CommitOf(q) <= l.commit
      BY <1>5, <3>2 DEF Stores
    <3> HIDE DEF q
    <3>5. Between(q, l, x)
      BY <1>1, <3>2, <3>3, <3>4, HoldsBetween
    <3> QED BY <1>3, <3>1, <3>5 DEF q
  <2>2. CASE ~(k < n)
    <3>1. k \in n .. n + w
      BY <1>2, <1>4, <1>8, <2>2 DEF Recent, n
    <3> QED BY <1>6, <3>1
  <2> QED BY <2>1, <2>2
<1>9. ASSUME ~Flushes(ops), ~u, ~e.renamed
      PROVE  OnlyCommits(e, ops, x)
  <2>1. /\ l.commit <= x.commit /\ w = 1 /\ \A q : Holds(q, l) => Holds(q, x)
        /\ OnlyCommits(e, <<>>, l)
    BY <1>1, <1>9 DEF w
  <2>2. Stores(At(e.file, ops, n + 1), x)
    BY <2>1 DEF n, w
  <2>3. \A k \in e.synced .. n + 1 : k \in e.synced .. n \/ k = n + 1
    BY <1>2, <1>4
  <2>4. \A k \in e.synced .. n :
          At(e.file, ops, k) = At(e.file, <<>>, k) /\ Holds(At(e.file, <<>>, k), l)
    BY <1>2, <1>3, <1>4, <2>1 DEF OnlyCommits
  <2>5. \A k \in e.synced .. n + 1 : Holds(At(e.file, ops, k), x)
    BY <2>1, <2>2, <2>3, <2>4 DEF Stores
  <2>6. ASSUME NEW i \in e.synced .. n + 1, NEW j \in e.synced .. n + 1, i <= j
        PROVE  CommitOf(At(e.file, ops, i)) <= CommitOf(At(e.file, ops, j))
    <3>1. CASE j \in e.synced .. n
      <4>1. i \in e.synced .. n
        BY <1>2, <1>4, <2>6, <3>1
      <4> QED BY <1>2, <2>1, <2>4, <2>6, <3>1, <4>1 DEF OnlyCommits
    <3>2. CASE j = n + 1 /\ i = n + 1
      <4>1. Sound(At(e.file, ops, n + 1))
        <5>1. n + 1 \in n .. n + w
          BY <1>2, <2>1
        <5> QED BY <1>6, <5>1
      <4> QED BY <3>2, <4>1, CommitOfNat
    <3>3. CASE j = n + 1 /\ i \in e.synced .. n
      <4>1. n \in e.synced .. n /\ i <= n
        BY <1>2, <1>4, <3>3
      <4>2. CommitOf(At(e.file, ops, i)) <= l.commit
        BY <1>2, <1>5, <2>1, <2>4, <3>3, <4>1 DEF OnlyCommits, Stores
      <4>3. /\ CommitOf(At(e.file, ops, n + 1)) = x.commit
            /\ x.commit \in Nat /\ l.commit \in Nat
        BY <1>1, <2>2, LogFacts DEF Stores, Proper
      <4>4. CommitOf(At(e.file, ops, i)) \in Nat
        <5>1. i \in Floor(e) .. n
          BY <1>9, <3>3 DEF Floor
        <5>2. Sound(At(e.file, <<>>, i))
          BY <1>1, <1>2, <5>1 DEF AllSound
        <5> QED BY <2>4, <3>3, <5>2, CommitOfNat
      <4> QED BY <2>1, <3>3, <4>2, <4>3, <4>4
    <3> QED BY <2>3, <3>1, <3>2, <3>3
  <2> QED BY <1>2, <2>1, <2>5, <2>6 DEF OnlyCommits
<1>10. /\ z.log = x /\ z.fields = CacheOf(x)
       /\ Stores(At(e.file, ops, End(e.file, ops)), x)
  BY <1>2 DEF n, w
<1> HIDE DEF z
<1>11. StoreOk(e, ops, f, l, z, u)
  BY <1>1, <1>2, <1>7, <1>8, <1>9, <1>10 DEF StoreOk
<1> QED BY <1>11 DEF z

-----------------------------------------------------------------------------
(* Compaction.                                                             *)

Elements(s) == {s[i] : i \in 1 .. Len(s)}

\* Two sequences joined have the elements of both.
LEMMA ElementsJoin ==
  ASSUME NEW S, NEW s \in Seq(S), NEW t \in Seq(S)
  PROVE  s \o t \in Seq(S) /\ Elements(s \o t) = Elements(s) \cup Elements(t)
<1>1. /\ s \o t \in Seq(S) /\ Len(s \o t) = Len(s) + Len(t)
      /\ Len(s) \in Nat /\ Len(t) \in Nat
      /\ \A i \in 1 .. Len(s) + Len(t) :
           (s \o t)[i] = IF i <= Len(s) THEN s[i] ELSE t[i - Len(s)]
  OBVIOUS
<1> DEFINE j == s \o t
<1> HIDE DEF j
<1>2. ASSUME NEW i \in 1 .. Len(j)
      PROVE  j[i] \in Elements(s) \cup Elements(t)
  <2>1. CASE i <= Len(s)
    <3>1. i \in 1 .. Len(s) /\ j[i] = s[i]
      BY <1>1, <2>1 DEF j
    <3> QED BY <3>1 DEF Elements
  <2>2. CASE ~(i <= Len(s))
    <3>1. i - Len(s) \in 1 .. Len(t) /\ j[i] = t[i - Len(s)]
      BY <1>1, <2>2 DEF j
    <3> QED BY <3>1 DEF Elements
  <2> QED BY <2>1, <2>2
<1>3. ASSUME NEW i \in 1 .. Len(s)
      PROVE  s[i] \in Elements(j)
  <2>1. i \in 1 .. Len(j) /\ j[i] = s[i]
    BY <1>1 DEF j
  <2> QED BY <2>1 DEF Elements
<1>4. ASSUME NEW i \in 1 .. Len(t)
      PROVE  t[i] \in Elements(j)
  <2>1. Len(s) + i \in 1 .. Len(j) /\ j[Len(s) + i] = t[i]
    <3>1. Len(s) + i \in 1 .. Len(s) + Len(t) /\ ~(Len(s) + i <= Len(s))
          /\ (Len(s) + i) - Len(s) = i
      BY <1>1
    <3> QED BY <1>1, <3>1 DEF j
  <2> QED BY <2>1 DEF Elements
<1>5. Elements(j) = Elements(s) \cup Elements(t)
  BY <1>2, <1>3, <1>4 DEF Elements
<1> QED BY <1>1, <1>5 DEF j

\* The order in which live keys are written has each of them.
LEMMA KeyOrderHasAll ==
  ASSUME NEW e, Whole(e), Sound(Pic(Sight(e)))
  PROVE  /\ KeyOrder(e) \in Seq(Keys)
         /\ Elements(KeyOrder(e)) = DOMAIN Sight(e)
<1> DEFINE w == DOMAIN Sight(e)
           D == DOMAIN Pic(Sight(e)).ents
           IfLive(key) == IF Live(e, key) THEN <<key>> ELSE <<>>
           c == Cardinality(Indexes(e))
           a == [k \in 1 .. c |-> EntryKey(InOrder(Indexes(e))[k])]
           others == {TermVote, CommitIndex, SnapshotMeta, SnapshotData}
<1>1. D = Indexes(e) /\ D \subseteq 1 .. MaxIndex
      /\ \A k \in Nat : EntryKey(k) \in w <=> k \in D
  <2>1. D = {k \in Nat : EntryKey(k) \in w}
    BY DEF Pic, Picture
  <2>2. D = Indexes(e) /\ D \subseteq 1 .. MaxIndex
    BY OpenedIs DEF Sound
  <2> QED BY <2>1, <2>2
<1>2. c \in Nat /\ Enumerates(InOrder(Indexes(e)), c, D)
  <2>1. MaxIndex \in Nat
    BY StorageAssumption
  <2> QED BY <1>1, <2>1, InOrderIs
<1>3. w \subseteq Keys /\ \A key : Live(e, key) <=> key \in w
  <2>1. PICK S : e.file \in Seq(S)
    BY DEF Whole
  <2>2. Len(e.file) \in 0 .. Len(e.file) /\ \A i \in 1 .. Len(e.file) : WholeRecord(e.file[i])
    BY <2>1 DEF Whole
  <2> QED BY <2>1, <2>2, ShownKeys, WholeShows DEF Sight
<1>4. a \in Seq(Keys) /\ Elements(a) = {EntryKey(k) : k \in D}
  <2> DEFINE s == InOrder(Indexes(e))
  <2>1. s \in [1 .. c -> D] /\ \A x \in D : \E k \in 1 .. c : s[k] = x
    BY <1>2 DEF Enumerates
  <2> HIDE DEF s, c, D
  <2>2. \A k \in 1 .. c : s[k] \in D /\ s[k] \in Nat
    BY <1>1, <2>1
  <2>3. [k \in 1 .. c |-> EntryKey(s[k])] \in Seq(Keys)
        /\ Len([k \in 1 .. c |-> EntryKey(s[k])]) = c
    BY <1>2, <2>2 DEF Keys
  <2>4. Elements([k \in 1 .. c |-> EntryKey(s[k])]) = {EntryKey(k) : k \in D}
    <3>1. Elements([k \in 1 .. c |-> EntryKey(s[k])]) = {EntryKey(s[k]) : k \in 1 .. c}
      BY <2>3 DEF Elements
    <3> QED BY <2>1, <2>2, <3>1
  <2> QED BY <2>3, <2>4 DEF s, c, D
<1>5. ASSUME NEW key \in others
      PROVE  IfLive(key) \in Seq(Keys) /\ Elements(IfLive(key)) = {key} \cap w
  <2>1. key \in Keys
    BY DEF Keys
  <2>2. CASE Live(e, key)
    <3>1. <<key>> \in Seq(Keys) /\ Len(<<key>>) = 1 /\ <<key>>[1] = key
      BY <2>1
    <3>2. Elements(<<key>>) = {key}
      BY <3>1 DEF Elements
    <3>3. {key} \cap w = {key}
      BY <1>3, <2>2
    <3> QED BY <2>2, <3>1, <3>2, <3>3
  <2>3. CASE ~Live(e, key)
    <3>1. <<>> \in Seq(Keys) /\ Elements(<<>>) = {}
      BY DEF Elements
    <3>2. {key} \cap w = {}
      BY <1>3, <2>3
    <3> QED BY <2>3, <3>1, <3>2
  <2> QED BY <2>2, <2>3
<1>6. KeyOrder(e) = a \o IfLive(TermVote) \o IfLive(CommitIndex)
                      \o IfLive(SnapshotMeta) \o IfLive(SnapshotData)
  BY DEF KeyOrder
<1> DEFINE b1 == IfLive(TermVote)
           b2 == IfLive(CommitIndex)
           b3 == IfLive(SnapshotMeta)
           b4 == IfLive(SnapshotData)
<1>7. /\ b1 \in Seq(Keys) /\ Elements(b1) = {TermVote} \cap w
      /\ b2 \in Seq(Keys) /\ Elements(b2) = {CommitIndex} \cap w
      /\ b3 \in Seq(Keys) /\ Elements(b3) = {SnapshotMeta} \cap w
      /\ b4 \in Seq(Keys) /\ Elements(b4) = {SnapshotData} \cap w
  BY <1>5
<1> DEFINE c1 == a \o b1
           c2 == c1 \o b2
           c3 == c2 \o b3
<1>8. KeyOrder(e) = c3 \o b4
  BY <1>6
<1> HIDE DEF a, b1, b2, b3, b4, IfLive
<1>9. c1 \in Seq(Keys) /\ Elements(c1) = Elements(a) \cup Elements(b1)
  BY <1>4, <1>7, ElementsJoin
<1> HIDE DEF c1
<1>10. c2 \in Seq(Keys) /\ Elements(c2) = Elements(c1) \cup Elements(b2)
  BY <1>7, <1>9, ElementsJoin
<1> HIDE DEF c2
<1>11. c3 \in Seq(Keys) /\ Elements(c3) = Elements(c2) \cup Elements(b3)
  BY <1>7, <1>10, ElementsJoin
<1> HIDE DEF c3
<1>12. KeyOrder(e) \in Seq(Keys)
       /\ Elements(KeyOrder(e)) = Elements(c3) \cup Elements(b4)
  <2> DEFINE c4 == c3 \o b4
  <2>1. c4 \in Seq(Keys) /\ Elements(c4) = Elements(c3) \cup Elements(b4)
    BY <1>7, <1>11, ElementsJoin
  <2> HIDE DEF c4
  <2>2. KeyOrder(e) = c4
    BY <1>8 DEF c4
  <2> QED BY <2>1, <2>2
<1>13. Elements(KeyOrder(e)) = {EntryKey(k) : k \in D} \cup (others \cap w)
  BY <1>4, <1>7, <1>9, <1>10, <1>11, <1>12
<1>14. w = {EntryKey(k) : k \in D} \cup (others \cap w)
  <2>1. D \subseteq Nat
    BY <1>1
  <2>2. \A x \in w : x \in others \/ \E k \in Nat : x = EntryKey(k)
    BY <1>3 DEF Keys
  <2> HIDE DEF w, D
  <2> QED BY <1>1, <2>1, <2>2
<1> QED BY <1>12, <1>13, <1>14

\* The compacted engine shows what the engine did.
LEMMA CompactWhole ==
  ASSUME NEW e, Whole(e), NEW order \in Seq(Keys), Elements(order) = DOMAIN Sight(e)
  PROVE  LET c == Compact(e, order)
         IN Whole(c) /\ c.renamed = TRUE /\ Sight(c) = Sight(e)
<1> DEFINE n == Len(order)
           kept == [i \in 1 .. n |-> Record(order[i], Get(e, order[i]))]
           R == {kept[i] : i \in 1 .. n}
           K(j) == {order[i] : i \in 1 .. j}
           X(j) == [k \in K(j) |-> Sight(e)[k]]
           c == Compact(e, order)
<1>1. n \in Nat /\ \A i \in 1 .. n : order[i] \in Keys
  OBVIOUS
<1>2. kept \in Seq(R) /\ Len(kept) = n
      /\ \A i \in 1 .. n : kept[i] = Record(order[i], Get(e, order[i]))
  BY <1>1
<1>3. \A i \in 1 .. n : Get(e, order[i]) = Sight(e)[order[i]]
  BY WholeShows DEF Elements
<1>4. c = [file |-> kept, synced |-> 0, renamed |-> TRUE, keydir |-> KeydirOf(kept)]
  BY DEF Compact
<1> HIDE DEF kept, R, n
<1>5. Whole(c)
  <2>1. \A i \in 1 .. Len(kept) : WholeRecord(kept[i])
    BY <1>1, <1>2 DEF WholeRecord, Record
  <2>2. 0 \in 0 .. Len(kept)
    BY <1>1, <1>2
  <2> HIDE DEF c
  <2>3. /\ c.file = kept /\ c.synced = 0 /\ c.renamed = TRUE /\ c.keydir = KeydirOf(kept)
        /\ c = [file |-> c.file, synced |-> c.synced, renamed |-> c.renamed,
                keydir |-> c.keydir]
    BY <1>4
  <2> QED BY <1>2, <2>1, <2>2, <2>3 DEF Whole
<1>6. /\ Shown(kept, 0) = NothingShown
      /\ \A i \in 1 .. n : Shown(kept, i) = Changed(Shown(kept, i - 1), kept[i])
  BY <1>2, ShownUnfolds
<1> DEFINE T == {j \in Nat : j <= n => Shown(kept, j) = X(j)}
<1>7. 0 \in T
  <2>1. K(0) = {}
    OBVIOUS
  <2>2. X(0) = [k \in {} |-> <<>>]
    BY <2>1
  <2> HIDE DEF X
  <2> QED BY <1>6, <2>2 DEF NothingShown
<1>8. \A j \in T : j + 1 \in T
  <2> TAKE j \in T
  <2>1. j \in Nat /\ (j <= n => Shown(kept, j) = X(j))
    OBVIOUS
  <2> SUFFICES ASSUME j + 1 <= n
               PROVE  Shown(kept, j + 1) = X(j + 1)
    <3> HIDE DEF X
    <3> QED BY <2>1
  <2>2. j + 1 \in 1 .. n /\ (j + 1) - 1 = j /\ j <= n
    BY <1>1, <2>1
  <2> DEFINE key == order[j + 1]
             v == Sight(e)[key]
  <2>3. Shown(kept, j + 1) = Changed(X(j), Record(key, v))
    <3> HIDE DEF X
    <3> QED BY <1>2, <1>3, <1>6, <2>1, <2>2
  <2>4. K(j + 1) = K(j) \cup {key}
    <3>1. \A i : i \in 1 .. j + 1 <=> i \in 1 .. j \/ i = j + 1
      BY <2>1
    <3> QED BY <3>1
  <2>5. DOMAIN X(j) = K(j) /\ \A k \in K(j) : X(j)[k] = Sight(e)[k]
    OBVIOUS
  <2>6. X(j + 1) = [k \in K(j + 1) |-> Sight(e)[k]]
    OBVIOUS
  <2> DEFINE x == X(j)
  <2> HIDE DEF key, K, x
  <2>7. Changed(x, Record(key, v)) = [k \in K(j + 1) |-> IF k = key THEN v ELSE x[k]]
    <3>1. (DOMAIN x \ {key}) \cup {key} = K(j + 1)
      BY <2>4, <2>5 DEF x
    <3> QED BY <3>1 DEF Changed, Record
  <2>8. \A k \in K(j + 1) : (IF k = key THEN v ELSE x[k]) = Sight(e)[k]
    BY <2>4, <2>5 DEF x
  <2> QED BY <2>3, <2>6, <2>7, <2>8 DEF x
<1>9. \A j \in Nat : j \in T
  <2>1. T \in SUBSET Nat
    OBVIOUS
  <2> HIDE DEF T
  <2> QED BY <1>7, <1>8, <2>1, SetInduction
<1>10. Shown(kept, n) = X(n)
  <2> HIDE DEF X
  <2> QED BY <1>1, <1>9
<1>11. K(n) = DOMAIN Sight(e)
  BY DEF Elements, n
<1>12. Sight(e) = [k \in DOMAIN Sight(e) |-> Sight(e)[k]]
  BY DEF Sight, Shown
<1>13. Sight(c) = Sight(e)
  <2>1. c.file = kept
    BY <1>4
  <2>2. Sight(c) = X(n)
    BY <1>2, <1>10, <2>1 DEF Sight
  <2> HIDE DEF K
  <2> QED BY <1>11, <1>12, <2>2
<1>14. c.renamed = TRUE
  BY <1>4
<1> QED BY <1>5, <1>13, <1>14 DEF c

\* Dropping the engine and opening it again, compacted or not, is harmless.
LEMMA ReopenOk ==
  ASSUME NEW e, Whole(e), NEW f, NEW l, NEW r, NEW u, StoreOk(e, <<>>, f, l, r, u),
         NEW compact \in BOOLEAN
  PROVE  LET o == Open(Flush(e), e.file)
             c == IF compact THEN Compact(o, KeyOrder(o)) ELSE o
         IN Whole(c) /\ StoreOk(c, <<>>, LogNew(c), Flushed(l), Nil, FALSE)
<1> DEFINE o == Open(Flush(e), e.file)
           c == IF compact THEN Compact(o, KeyOrder(o)) ELSE o
           p == Pic(Sight(e))
           x == Flushed(l)
<1>1. Proper(l) /\ Sound(p) /\ Stores(p, l)
  BY IdleShows
<1>2. PICK S : e.file \in Seq(S)
  BY DEF Whole
<1>3. /\ Whole(Flush(e)) /\ Flush(e).file = e.file
      /\ Flush(e).synced = Len(e.file) /\ Flush(e).renamed = FALSE
  BY FlushWhole
<1>4. Remains(Flush(e), Len(e.file), FALSE) = e.file
  <2>1. SubSeq(e.file, 1, Len(e.file)) = e.file
    BY <1>2
  <2>2. e.file \o <<>> = e.file
    BY <1>2
  <2> QED BY <1>3, <2>1, <2>2 DEF Remains
<1>5. /\ Whole(o) /\ o.synced = Len(e.file) /\ o.renamed = FALSE
      /\ Len(o.file) = Len(e.file) /\ Sight(o) = Sight(e)
  <2>1. Len(e.file) \in 0 .. Len(e.file) /\ Len(e.file) >= Flush(e).synced /\ Len(e.file) \in Nat
    BY <1>2, <1>3
  <2>2. LET q == Open(Flush(e), Remains(Flush(e), Len(e.file), FALSE))
        IN /\ Whole(q) /\ q.synced = Flush(e).synced /\ q.renamed = Flush(e).renamed
           /\ Len(q.file) = Len(e.file)
           /\ \A k \in 0 .. Len(e.file) : Shown(q.file, k) = Shown(e.file, k)
    <3> DEFINE F == Flush(e)
               n == Len(e.file)
    <3>1. Whole(F) /\ F.file = e.file /\ n \in 0 .. Len(F.file) /\ n >= F.synced
      BY <1>3, <2>1
    <3> HIDE DEF F, n
    <3>2. LET q == Open(F, Remains(F, n, FALSE))
          IN /\ Whole(q) /\ q.synced = F.synced /\ q.renamed = F.renamed
             /\ Len(q.file) = n
             /\ \A k \in 0 .. n : Shown(q.file, k) = Shown(F.file, k)
      BY <3>1, OpenWhole
    <3> QED BY <3>1, <3>2 DEF F, n
  <2> QED BY <1>3, <1>4, <2>1, <2>2 DEF Sight
<1> HIDE DEF o
<1>6. Whole(c) /\ Sight(c) = Sight(e) /\ (~c.renamed => c.synced = Len(c.file))
  <2>1. CASE compact
    <3>1. KeyOrder(o) \in Seq(Keys) /\ Elements(KeyOrder(o)) = DOMAIN Sight(o)
      BY <1>1, <1>5, KeyOrderHasAll
    <3> QED BY <1>5, <2>1, <3>1, CompactWhole
  <2>2. CASE ~compact
    BY <1>5, <2>2
  <2> QED BY <2>1, <2>2
<1>7. Proper(x) /\ Stores(p, x)
  <2>1. l \in LogValues
    BY <1>1 DEF Proper
  <2>2. /\ x \in LogValues /\ x.commit = l.commit /\ x.synced = l.commit
        /\ x.term = l.term /\ x.vote = l.vote /\ x.first = l.first
        /\ x.snapTerm = l.snapTerm /\ x.snap = l.snap /\ x.ents = l.ents
    BY <2>1 DEF Flushed, LogValues
  <2> HIDE DEF x
  <2>3. LastIndex(x) = LastIndex(l) /\ \A k : EntryAt(x, k) = EntryAt(l, k)
    BY <2>2 DEF LastIndex, EntryAt
  <2>4. x.synced <= x.commit
    BY <2>2 DEF LogValues
  <2> QED BY <1>1, <2>2, <2>3, <2>4 DEF Proper, Stores, Holds
<1> HIDE DEF c, x, p
<1>8. StoreOk(c, <<>>, LogNew(c), x, Nil, FALSE)
  BY <1>1, <1>6, <1>7, OnePoint DEF p
<1> QED BY <1>6, <1>8 DEF c, x, o

-----------------------------------------------------------------------------
(* The stages of a method.                                                 *)

\* The calls of Log are writes of whole records.
LEMMA PutWrites ==
  /\ \A v : \A key \in Keys : WriteOp(Put(key, v)) /\ AsRecord(Put(key, v)) = Record(key, v)
  /\ \A k \in Nat : /\ WriteOp(Drop(EntryKey(k)))
                    /\ AsRecord(Drop(EntryKey(k))) = Tombstone(EntryKey(k))
  /\ \A k \in Nat : EntryKey(k) \in Keys
  /\ {TermVote, CommitIndex, SnapshotMeta, SnapshotData} \subseteq Keys
BY DEF WriteOp, AsRecord, Put, Drop, WholeRecord, Record, Tombstone, Keys

\* Writes and then a flush.
LEMMA WritesThenFlush ==
  ASSUME NEW S, NEW ops \in Seq(S), NEW w \in Nat, Len(ops) = w + 1, ops[w + 1] = Sync,
         \A k \in 1 .. w : WriteOp(ops[k])
  PROVE  ops # <<>> /\ OpsOk(ops) /\ Writes(ops) = w /\ Flushes(ops)
<1>1. Len(<<>>) = 0
  OBVIOUS
<1>2. ops # <<>> /\ Flushes(ops)
  BY <1>1 DEF Flushes
<1>3. Writes(ops) = w
  BY <1>2 DEF Writes
<1> QED BY <1>2, <1>3 DEF OpsOk

\* The first stage is what the engine shows, and each call changes it.
LEMMA StageStep ==
  ASSUME NEW e, Whole(e), NEW ops, OpsOk(ops)
  PROVE  LET n == Len(e.file)
             F == Future(e.file, ops)
         IN /\ At(e.file, ops, n + 0) = Pic(Sight(e))
            /\ \A k \in 1 .. Writes(ops) :
                 Shown(F, n + k) = Changed(Shown(F, n + (k - 1)), AsRecord(ops[k]))
            /\ \A k \in 1 .. Writes(ops) : \A v :
                 LET q == At(e.file, ops, n + (k - 1))
                     z == At(e.file, ops, n + k)
                 IN /\ ops[k] = Put(TermVote, v) => z = WithVote(q, v)
                    /\ ops[k] = Put(CommitIndex, v) => z = WithCommit(q, v)
                    /\ ops[k] = Put(SnapshotMeta, v) => z = WithMeta(q, v)
                    /\ ops[k] = Put(SnapshotData, v) => z = WithData(q, v)
                    /\ \A i \in Nat : ops[k] = Put(EntryKey(i), v) =>
                         z = WithEntries(q, Entered(q.ents, i, v))
<1> DEFINE n == Len(e.file)
           F == Future(e.file, ops)
           w == Writes(ops)
<1>1. /\ n \in Nat /\ w \in Nat /\ Len(F) = n + w
      /\ \A k \in 1 .. w : F[n + k] = AsRecord(ops[k])
      /\ At(e.file, ops, n) = Pic(Sight(e))
  BY FutureFacts
<1>2. PICK S : F \in Seq(S)
  BY FutureFacts
<1>3. \A z, k : At(e.file, ops, k) = Pic(Shown(F, k))
  BY DEF At
<1> HIDE DEF F, n, w
<1>4. ASSUME NEW k \in 1 .. w
      PROVE  Shown(F, n + k) = Changed(Shown(F, n + (k - 1)), AsRecord(ops[k]))
  <2>1. n + k \in 1 .. Len(F) /\ (n + k) - 1 = n + (k - 1)
    BY <1>1
  <2> QED BY <1>1, <1>2, <2>1, ShownUnfolds
<1>5. ASSUME NEW k \in 1 .. w, NEW v, NEW key \in Keys, ops[k] = Put(key, v)
      PROVE  LET q == At(e.file, ops, n + (k - 1))
                 z == At(e.file, ops, n + k)
             IN /\ key = TermVote => z = WithVote(q, v)
                /\ key = CommitIndex => z = WithCommit(q, v)
                /\ key = SnapshotMeta => z = WithMeta(q, v)
                /\ key = SnapshotData => z = WithData(q, v)
                /\ \A i \in Nat : key = EntryKey(i) => z = WithEntries(q, Entered(q.ents, i, v))
  <2>1. AsRecord(ops[k]) = Record(key, v)
    BY <1>5, PutWrites
  <2>2. Shown(F, n + k) = Changed(Shown(F, n + (k - 1)), Record(key, v))
    BY <1>4, <2>1
  <2> QED BY <1>3, <2>2, PicSet
<1>6. n + 0 = n
  BY <1>1
<1>7. ASSUME NEW k \in 1 .. w, NEW v
      PROVE  LET q == At(e.file, ops, n + (k - 1))
                 z == At(e.file, ops, n + k)
             IN /\ ops[k] = Put(TermVote, v) => z = WithVote(q, v)
                /\ ops[k] = Put(CommitIndex, v) => z = WithCommit(q, v)
                /\ ops[k] = Put(SnapshotMeta, v) => z = WithMeta(q, v)
                /\ ops[k] = Put(SnapshotData, v) => z = WithData(q, v)
                /\ \A i \in Nat : ops[k] = Put(EntryKey(i), v) =>
                     z = WithEntries(q, Entered(q.ents, i, v))
  BY <1>5, PutWrites
<1> QED BY <1>1, <1>4, <1>6, <1>7 DEF F, n, w

\* The first call changes what the engine shows.
LEMMA FirstStage ==
  ASSUME NEW e, Whole(e), NEW ops, OpsOk(ops), 1 \in 1 .. Writes(ops), NEW v
  PROVE  LET p == Pic(Sight(e))
             z == At(e.file, ops, Len(e.file) + 1)
         IN /\ ops[1] = Put(TermVote, v) => z = WithVote(p, v)
            /\ ops[1] = Put(CommitIndex, v) => z = WithCommit(p, v)
            /\ ops[1] = Put(SnapshotData, v) => z = WithData(p, v)
            /\ \A i \in Nat : ops[1] = Put(EntryKey(i), v) =>
                 z = WithEntries(p, Entered(p.ents, i, v))
<1>1. At(e.file, ops, Len(e.file) + (1 - 1)) = Pic(Sight(e))
  <2>1. At(e.file, ops, Len(e.file) + 0) = Pic(Sight(e)) /\ 1 - 1 = 0
    BY StageStep
  <2> QED BY <2>1
<1> DEFINE q == At(e.file, ops, Len(e.file) + (1 - 1))
           z == At(e.file, ops, Len(e.file) + 1)
<1>2. ops[1] = Put(TermVote, v) => z = WithVote(q, v)
  BY StageStep
<1>3. ops[1] = Put(CommitIndex, v) => z = WithCommit(q, v)
  BY StageStep
<1>4. ops[1] = Put(SnapshotData, v) => z = WithData(q, v)
  BY StageStep
<1>5. ASSUME NEW i \in Nat, ops[1] = Put(EntryKey(i), v)
      PROVE  z = WithEntries(q, Entered(q.ents, i, v))
  BY <1>5, StageStep, SMTT(30)
<1> QED BY <1>1, <1>2, <1>3, <1>4, <1>5

PutsFrom(ops, b, P, from, vals) ==
  \A j \in 1 .. P : ops[b + j] = Put(EntryKey(from + j - 1), vals[j])

StagesOfPuts(e, ops, b, P, from, vals) ==
  LET q == At(e.file, ops, Len(e.file) + b)
  IN \A j \in 0 .. P :
       At(e.file, ops, Len(e.file) + (b + j)) =
         WithEntries(q, Overlaid(q.ents, from, j, vals))

\* The stages of a run of entries that are written.
LEMMA PutStages ==
  ASSUME NEW e, Whole(e), NEW ops, OpsOk(ops), NEW b \in Nat, NEW P \in Nat,
         b + P <= Writes(ops), NEW from \in Nat, NEW vals,
         PutsFrom(ops, b, P, from, vals)
  PROVE  StagesOfPuts(e, ops, b, P, from, vals)
<1> DEFINE n == Len(e.file)
           F == Future(e.file, ops)
           w == Writes(ops)
<1>1. /\ n \in Nat /\ w \in Nat /\ Len(F) = n + w
      /\ \A k \in 1 .. w : F[n + k] = AsRecord(ops[k])
  BY FutureFacts
<1>2. PICK S : F \in Seq(S)
  BY FutureFacts
<1>3. \A k : At(e.file, ops, k) = Pic(Shown(F, k))
  BY DEF At
<1>4. b + P <= w
  OBVIOUS
<1> HIDE DEF F, n, w
<1>5. n + b \in Nat /\ (n + b) + P <= Len(F)
  BY <1>1, <1>4
<1>6. ASSUME NEW j \in 1 .. P
      PROVE  F[(n + b) + j] = Record(EntryKey(from + j - 1), vals[j])
  <2>1. b + j \in 1 .. w /\ n + (b + j) = (n + b) + j /\ from + j - 1 \in Nat
    BY <1>1, <1>4
  <2> QED BY <1>1, <2>1, PutWrites DEF PutsFrom
<1>7. \A j \in 0 .. P :
        Pic(Shown(F, (n + b) + j)) =
          WithEntries(Pic(Shown(F, n + b)),
                      Overlaid(Pic(Shown(F, n + b)).ents, from, j, vals))
  <2> DEFINE N == n + b
  <2>1. N \in Nat /\ N + P <= Len(F) /\ PutsAt(F, N, P, from, vals)
    BY <1>5, <1>6 DEF PutsAt
  <2> HIDE DEF N
  <2>2. ShowsPuts(F, N, P, from, vals)
    BY <1>2, <2>1, PutRun
  <2> QED BY <2>2 DEF N, ShowsPuts
<1>8. \A j \in 0 .. P : (n + b) + j = n + (b + j)
  BY <1>1
<1> QED BY <1>3, <1>7, <1>8 DEF n, StagesOfPuts

DropsFrom(ops, b, D, o) ==
  \A j \in 1 .. D : o[j] \in Nat /\ ops[b + j] = Drop(EntryKey(o[j]))

StagesOfDrops(e, ops, b, D, o) ==
  LET q == At(e.file, ops, Len(e.file) + b)
  IN \A j \in 0 .. D :
       At(e.file, ops, Len(e.file) + (b + j)) =
         WithEntries(q, Removed(q.ents, {o[i] : i \in 1 .. j}))

\* The stages of a run of deletions.
LEMMA DropStages ==
  ASSUME NEW e, Whole(e), NEW ops, OpsOk(ops), NEW b \in Nat, NEW D \in Nat,
         b + D <= Writes(ops), NEW o, DropsFrom(ops, b, D, o)
  PROVE  StagesOfDrops(e, ops, b, D, o)
<1> DEFINE n == Len(e.file)
           F == Future(e.file, ops)
           w == Writes(ops)
<1>1. /\ n \in Nat /\ w \in Nat /\ Len(F) = n + w
      /\ \A k \in 1 .. w : F[n + k] = AsRecord(ops[k])
  BY FutureFacts
<1>2. PICK S : F \in Seq(S)
  BY FutureFacts
<1>3. \A k : At(e.file, ops, k) = Pic(Shown(F, k))
  BY DEF At
<1>4. b + D <= w
  OBVIOUS
<1> HIDE DEF F, n, w
<1>5. n + b \in Nat /\ (n + b) + D <= Len(F)
  BY <1>1, <1>4
<1>6. ASSUME NEW j \in 1 .. D
      PROVE  F[(n + b) + j] = Tombstone(EntryKey(o[j]))
  <2>1. b + j \in 1 .. w /\ n + (b + j) = (n + b) + j /\ o[j] \in Nat
    BY <1>1, <1>4 DEF DropsFrom
  <2> QED BY <1>1, <2>1, PutWrites DEF DropsFrom
<1>7. \A j \in 0 .. D :
        Pic(Shown(F, (n + b) + j)) =
          WithEntries(Pic(Shown(F, n + b)),
                      Removed(Pic(Shown(F, n + b)).ents, {o[i] : i \in 1 .. j}))
  <2> DEFINE N == n + b
  <2>1. N \in Nat /\ N + D <= Len(F) /\ DropsAt(F, N, D, o)
    BY <1>5, <1>6 DEF DropsAt, DropsFrom
  <2> HIDE DEF N
  <2>2. ShowsDrops(F, N, D, o)
    BY <1>2, <2>1, DropRun
  <2> QED BY <2>2 DEF N, ShowsDrops
<1>8. \A j \in 0 .. D : (n + b) + j = n + (b + j)
  BY <1>1
<1> QED BY <1>3, <1>7, <1>8 DEF n, StagesOfDrops

\* The last stage, which stands for the method's result.
LEMMA LastBetween ==
  ASSUME NEW l, Proper(l), NEW x, Proper(x), NEW q, Stores(q, x),
         l.commit <= x.commit, CommittedKept(q, l)
  PROVE  Between(q, l, x)
<1>1. VoteKept(q, l, x)
  BY DEF VoteKept, Stores, Holds
<1>2. OnlyAdded(q, l, x)
  <2> SUFFICES ASSUME Grows(l, x)
               PROVE  \E y : /\ Proper(y) /\ y.synced = l.synced /\ Stores(q, y)
                             /\ Grows(l, y) /\ Grows(y, x)
    BY DEF OnlyAdded
  <2> DEFINE y == [x EXCEPT !.synced = l.synced]
  <2>1. x \in LogValues /\ l.synced \in Nat /\ l.synced <= x.commit
    <3>1. /\ x \in LogValues /\ l \in LogValues /\ l.synced <= l.commit
      BY DEF Proper
    <3>2. l.synced \in Nat /\ l.commit \in Nat /\ x.commit \in Nat
      BY <3>1, LogFacts
    <3> QED BY <3>1, <3>2
  <2>2. /\ y \in LogValues /\ y.commit = x.commit /\ y.synced = l.synced
        /\ y.term = x.term /\ y.vote = x.vote /\ y.first = x.first
        /\ y.snapTerm = x.snapTerm /\ y.snap = x.snap /\ y.ents = x.ents
    BY <2>1 DEF LogValues
  <2> HIDE DEF y
  <2>3. LastIndex(y) = LastIndex(x) /\ \A k : EntryAt(y, k) = EntryAt(x, k)
    BY <2>2 DEF LastIndex, EntryAt
  <2>4. Proper(y) /\ Stores(q, y)
    BY <2>1, <2>2, <2>3 DEF Proper, Stores, Holds
  <2>5. Grows(l, y) /\ Grows(y, x)
    <3>1. Len(x.ents) \in Nat
      BY LogFacts DEF Proper
    <3> QED BY <2>2, <3>1 DEF Grows
  <2> QED BY <2>2, <2>4, <2>5
<1> QED BY <1>1, <1>2 DEF Between

\* The first stage.
LEMMA FirstBetween ==
  ASSUME NEW l, Proper(l), NEW p, Sound(p), Stores(p, l), NEW x
  PROVE  Between(p, l, x) /\ l.synced <= CommitOf(p) /\ CommittedKept(p, l)
<1>1. l.synced <= CommitOf(p) /\ CommitOf(p) <= l.commit /\ Holds(p, l)
  <2>1. l.commit \in Nat
    BY LogFacts DEF Proper
  <2> QED BY <2>1 DEF Stores, Proper
<1> QED BY <1>1, HoldsBetween DEF Between

-----------------------------------------------------------------------------
(* The methods that write one record.                                      *)

FieldNames ==
  {"term", "vote", "first", "snapTerm", "last", "lastTerm", "commit", "commitTerm"}

IsCache(f) == f = [k \in FieldNames |-> f[k]]

\* Two records of Log's fields are equal when the fields are.
LEMMA SameCache ==
  ASSUME NEW f, NEW g, IsCache(f), IsCache(g),
         f.term = g.term, f.vote = g.vote, f.first = g.first, f.snapTerm = g.snapTerm,
         f.last = g.last, f.lastTerm = g.lastTerm, f.commit = g.commit,
         f.commitTerm = g.commitTerm
  PROVE  f = g
<1>1. \A k \in FieldNames : f[k] = g[k]
  BY DEF FieldNames
<1> QED BY <1>1 DEF IsCache

\* The fields that CacheOf gives, one by one.
LEMMA CacheFields ==
  ASSUME NEW l
  PROVE  LET f == CacheOf(l)
         IN /\ IsCache(f)
            /\ f.term = l.term /\ f.vote = l.vote /\ f.first = l.first
            /\ f.snapTerm = l.snapTerm /\ f.last = LastIndex(l) /\ f.lastTerm = LastTerm(l)
            /\ f.commit = l.commit /\ f.commitTerm = CommitTerm(l)
BY DEF CacheOf, IsCache, FieldNames

\* A changed picture differs in one field.
LEMMA WithFields ==
  ASSUME NEW p, NEW v
  PROVE  /\ LET q == WithVote(p, v)
            IN q.tv = v /\ q.c = p.c /\ q.m = p.m /\ q.d = p.d /\ q.live = p.live
               /\ q.ents = p.ents
         /\ LET q == WithCommit(p, v)
            IN q.tv = p.tv /\ q.c = v /\ q.m = p.m /\ q.d = p.d /\ q.live = p.live
               /\ q.ents = p.ents
         /\ LET q == WithMeta(p, v)
            IN q.tv = p.tv /\ q.c = p.c /\ q.m = v /\ q.d = p.d /\ q.live = p.live
               /\ q.ents = p.ents
         /\ LET q == WithData(p, v)
            IN q.tv = p.tv /\ q.c = p.c /\ q.m = p.m /\ q.d = v /\ q.live = TRUE
               /\ q.ents = p.ents
         /\ LET q == WithEntries(p, v)
            IN q.tv = p.tv /\ q.c = p.c /\ q.m = p.m /\ q.d = p.d /\ q.live = p.live
               /\ q.ents = v
BY DEF WithVote, WithCommit, WithMeta, WithData, WithEntries, Picture

\* One write and a flush.
LEMMA OneWrite ==
  ASSUME NEW op, WriteOp(op)
  PROVE  /\ LET ops == <<op, Sync>>
            IN ops # <<>> /\ OpsOk(ops) /\ Writes(ops) = 1 /\ Flushes(ops) /\ ops[1] = op
         /\ LET ops == <<op>>
            IN ops # <<>> /\ OpsOk(ops) /\ Writes(ops) = 1 /\ ~Flushes(ops) /\ ops[1] = op
<1>1. LET ops == <<op, Sync>>
      IN ops # <<>> /\ OpsOk(ops) /\ Writes(ops) = 1 /\ Flushes(ops) /\ ops[1] = op
  <2> DEFINE ops == <<op, Sync>>
  <2>1. ops \in Seq({op, Sync}) /\ Len(ops) = 1 + 1 /\ ops[1] = op /\ ops[1 + 1] = Sync
    OBVIOUS
  <2> HIDE DEF ops
  <2>2. \A k \in 1 .. 1 : WriteOp(ops[k])
    BY <2>1
  <2> QED BY <2>1, <2>2, WritesThenFlush DEF ops
<1>2. LET ops == <<op>>
      IN ops # <<>> /\ OpsOk(ops) /\ Writes(ops) = 1 /\ ~Flushes(ops) /\ ops[1] = op
  <2> DEFINE ops == <<op>>
  <2>1. ops \in Seq({op}) /\ Len(ops) = 1 /\ ops[1] = op /\ ops # <<>>
    OBVIOUS
  <2> HIDE DEF ops
  <2>2. ~Flushes(ops)
    BY <2>1, SyncFlushes DEF Flushes
  <2>3. Writes(ops) = 1
    BY <2>1, <2>2 DEF Writes
  <2>4. OpsOk(ops)
    BY <2>1, <2>3 DEF OpsOk
  <2> QED BY <2>1, <2>2, <2>3, <2>4 DEF ops
<1> QED BY <1>1, <1>2

\* A method of one write: it is enough to show its one stage.
LEMMA OneWriteOk ==
  ASSUME NEW e, Whole(e), NEW f, NEW l, NEW r, NEW u \in BOOLEAN,
         StoreOk(e, <<>>, f, l, r, u),
         NEW op, WriteOp(op), NEW ops, ops = <<op, Sync>> \/ ops = <<op>>,
         NEW x, Proper(x), NEW q, q = At(e.file, ops, Len(e.file) + 1),
         Sound(q), Stores(q, x), CommittedKept(q, l), l.commit <= x.commit,
         ops = <<op>> => x.synced = l.synced /\ \A z : Holds(z, l) => Holds(z, x)
  PROVE  StoreOk(e, ops, f, l, [fields |-> CacheOf(x), log |-> x], u)
<1>1. /\ ops # <<>> /\ OpsOk(ops) /\ Writes(ops) = 1
      /\ (~Flushes(ops) => ops = <<op>>)
  BY OneWrite
<1>2. /\ Proper(l) /\ Sound(Pic(Sight(e))) /\ Stores(Pic(Sight(e)), l)
      /\ At(e.file, ops, Len(e.file) + 0) = Pic(Sight(e))
  BY <1>1, IdleShows, StageStep
<1>3. /\ Between(Pic(Sight(e)), l, x) /\ l.synced <= CommitOf(Pic(Sight(e)))
  BY <1>2, FirstBetween
<1>4. Between(q, l, x) /\ l.synced <= CommitOf(q)
  <2>1. Between(q, l, x)
    BY <1>2, LastBetween
  <2>2. /\ l.synced \in Nat /\ l.commit \in Nat /\ x.commit \in Nat
        /\ l.synced <= l.commit /\ CommitOf(q) = x.commit
    BY <1>2, LogFacts DEF Proper, Stores
  <2> QED BY <2>1, <2>2
<1>5. \A k \in 0 .. Writes(ops) : k = 0 \/ k = 1
  BY <1>1
<1>6. \A k \in 0 .. Writes(ops) :
        LET z == At(e.file, ops, Len(e.file) + k)
        IN Sound(z) /\ l.synced <= CommitOf(z) /\ Between(z, l, x)
  BY <1>2, <1>3, <1>4, <1>5
<1>7. Stores(At(e.file, ops, Len(e.file) + Writes(ops)), x)
  BY <1>1
<1> QED BY <1>1, <1>6, <1>7, CallOk

\* What is committed is not touched.
LEMMA KeepsCommitted ==
  ASSUME NEW l, Proper(l), NEW p, Stores(p, l), NEW q, q.m = p.m,
         \A k \in l.first .. l.commit : k \in DOMAIN q.ents /\ q.ents[k] = p.ents[k]
  PROVE  CommittedKept(q, l)
<1>1. \A k \in l.first .. l.commit : k \in l.first .. LastIndex(l)
  <2>1. l.commit \in l.first - 1 .. LastIndex(l) /\ l.commit \in Nat
        /\ LastIndex(l) \in Nat /\ l.first \in Nat
    BY LogFacts DEF Proper
  <2> QED BY <2>1
<1> QED BY <1>1 DEF CommittedKept, Stores, Holds

\* set_term_vote starts as it should.
LEMMA SetTermVoteOk ==
  ASSUME NEW e, Whole(e), NEW f, NEW l, NEW r, NEW u \in BOOLEAN,
         StoreOk(e, <<>>, f, l, r, u),
         NEW term \in Nat, NEW vote \in Voter \cup {Nil}, term # l.term \/ vote # l.vote
  PROVE  LET x == SetTermVote(l, term, vote)
         IN StoreOk(e, TermVoteOps(term, vote), f, l,
                    [fields |-> [f EXCEPT !.term = term, !.vote = vote], log |-> x], u)
<1> DEFINE x == SetTermVote(l, term, vote)
           op == Put(TermVote, <<term, vote>>)
           ops == TermVoteOps(term, vote)
           p == Pic(Sight(e))
           q == WithVote(p, <<term, vote>>)
<1>1. Proper(l) /\ f = CacheOf(l) /\ Sound(p) /\ Stores(p, l)
  BY IdleShows
<1>2. WriteOp(op) /\ ops = <<op, Sync>>
  BY PutWrites DEF TermVoteOps
<1>3. q = At(e.file, ops, Len(e.file) + 1)
  <2>1. OpsOk(ops) /\ Writes(ops) = 1 /\ ops[1] = op
    BY <1>2, OneWrite
  <2>2. 1 \in 1 .. Writes(ops) /\ 1 - 1 = 0
    BY <2>1
  <2> QED BY <2>1, <2>2, FirstStage
<1>4. l \in LogValues /\ l.commit \in Nat
  BY <1>1, LogFacts DEF Proper
<1>5. /\ x \in LogValues /\ x.commit = l.commit /\ x.synced = l.commit
      /\ x.term = term /\ x.vote = vote /\ x.first = l.first
      /\ x.snapTerm = l.snapTerm /\ x.snap = l.snap /\ x.ents = l.ents
  BY <1>4 DEF SetTermVote, Flushed, LogValues
<1> HIDE DEF x, q, ops, op
<1>6. /\ LastIndex(x) = LastIndex(l) /\ LastTerm(x) = LastTerm(l)
      /\ CommitTerm(x) = CommitTerm(l) /\ \A k : EntryAt(x, k) = EntryAt(l, k)
  BY <1>5 DEF LastIndex, LastTerm, CommitTerm, TermAt, Stored, EntryAt
<1>7. Proper(x) /\ l.commit <= x.commit
  BY <1>1, <1>4, <1>5, <1>6 DEF Proper
<1>8. q.tv = <<term, vote>> /\ q.c = p.c /\ q.m = p.m /\ q.d = p.d
      /\ q.live = p.live /\ q.ents = p.ents
  BY DEF q, WithVote, Picture
<1>9. Sound(q)
  BY <1>1, <1>8 DEF Sound
<1>10. Stores(q, x)
  BY <1>1, <1>5, <1>6, <1>8 DEF Stores, Holds, CommitOf
<1>11. CommittedKept(q, l)
  BY <1>1, <1>8, FirstBetween DEF CommittedKept
<1>12. [f EXCEPT !.term = term, !.vote = vote] = CacheOf(x)
  <2> DEFINE g == [f EXCEPT !.term = term, !.vote = vote]
  <2>1. IsCache(f)
    BY <1>1, CacheFields
  <2>2. /\ IsCache(g) /\ g.term = term /\ g.vote = vote /\ g.first = f.first
        /\ g.snapTerm = f.snapTerm /\ g.last = f.last /\ g.lastTerm = f.lastTerm
        /\ g.commit = f.commit /\ g.commitTerm = f.commitTerm
    BY <2>1 DEF IsCache, FieldNames
  <2> HIDE DEF g
  <2>3. g = CacheOf(x)
    BY <1>1, <1>5, <1>6, <2>2, CacheFields, SameCache
  <2> QED BY <2>3 DEF g
<1>13. ops # <<op>>
  BY <1>2, OneWrite
<1>14. StoreOk(e, ops, f, l, [fields |-> CacheOf(x), log |-> x], u)
  BY <1>2, <1>3, <1>7, <1>9, <1>10, <1>11, <1>13, OneWriteOk
<1> QED BY <1>12, <1>14 DEF x, ops

\* append_entry starts as it should.
LEMMA AppendEntryOk ==
  ASSUME NEW e, Whole(e), NEW f, NEW l, NEW r, NEW u \in BOOLEAN,
         StoreOk(e, <<>>, f, l, r, u), f.last < MaxIndex
  PROVE  LET x == AppendEntry(l, Nil, Nil)
         IN StoreOk(e, <<Put(EntryKey(f.last + 1), Entry(Nil, Nil, f.term)), Sync>>, f, l,
                    [fields |-> [f EXCEPT !.last = @ + 1, !.lastTerm = f.term], log |-> x], u)
<1> DEFINE x == AppendEntry(l, Nil, Nil)
           z == Entry(Nil, Nil, l.term)
           n == LastIndex(l)
           op == Put(EntryKey(n + 1), z)
           ops == <<op, Sync>>
           p == Pic(Sight(e))
           q == WithEntries(p, Entered(p.ents, n + 1, z))
<1>1. Proper(l) /\ f = CacheOf(l) /\ Sound(p) /\ Stores(p, l) /\ f.term = l.term /\ f.last = n
  BY IdleShows DEF CacheOf
<1>2. /\ l \in LogValues /\ l.commit \in Nat /\ n \in Nat /\ l.first \in Nat /\ l.first > 0
      /\ l.ents \in Seq(Entries) /\ Len(l.ents) \in Nat /\ n = l.first + Len(l.ents) - 1
      /\ l.commit \in l.first - 1 .. n /\ l.term \in Nat /\ MaxIndex \in Nat
      /\ \A k \in l.first .. n : k + 1 - l.first \in 1 .. Len(l.ents)
      /\ l.first - 1 <= n
  BY <1>1, LogFacts, StorageAssumption DEF Proper
<1>3. z \in Entries
  BY <1>2 DEF Entries, Entry
<1>4. WriteOp(op)
  BY <1>2, PutWrites
<1>5. q = At(e.file, ops, Len(e.file) + 1)
  <2>1. OpsOk(ops) /\ Writes(ops) = 1 /\ ops[1] = op
    BY <1>4, OneWrite
  <2>2. 1 \in 1 .. Writes(ops) /\ 1 - 1 = 0 /\ n + 1 \in Nat
    BY <1>2, <2>1
  <2> HIDE DEF ops
  <2> QED BY <2>1, <2>2, FirstStage
<1>6. /\ x \in LogValues /\ x.commit = l.commit /\ x.synced = l.commit
      /\ x.term = l.term /\ x.vote = l.vote /\ x.first = l.first
      /\ x.snapTerm = l.snapTerm /\ x.snap = l.snap /\ x.ents = Append(l.ents, z)
  <2>1. Append(l.ents, z) \in Seq(Entries)
    BY <1>2, <1>3
  <2> HIDE DEF z
  <2>2. x = Flushed([l EXCEPT !.ents = Append(l.ents, z)])
    BY DEF AppendEntry, z
  <2> QED BY <1>2, <2>1, <2>2 DEF Flushed, LogValues
<1> HIDE DEF x, q, ops, op, n
<1>7. /\ Len(x.ents) = Len(l.ents) + 1 /\ x.ents[Len(l.ents) + 1] = z
      /\ \A k \in 1 .. Len(l.ents) : x.ents[k] = l.ents[k]
  BY <1>2, <1>3, <1>6
<1>8. /\ LastIndex(x) = n + 1 /\ EntryAt(x, n + 1) = z
      /\ \A k \in l.first .. n : EntryAt(x, k) = EntryAt(l, k)
  <2>1. LastIndex(x) = n + 1
    BY <1>2, <1>6, <1>7 DEF LastIndex
  <2>2. (n + 1) + 1 - l.first = Len(l.ents) + 1
    BY <1>2
  <2> QED BY <1>2, <1>6, <1>7, <2>1, <2>2 DEF EntryAt
<1>9. LastTerm(x) = l.term
  <2>1. l.first <= n + 1 /\ n + 1 <= n + 1
    BY <1>2
  <2>2. z.term = l.term
    BY DEF Entry
  <2> QED BY <1>6, <1>8, <2>1, <2>2 DEF LastTerm, TermAt, Stored
<1>10. CommitTerm(x) = CommitTerm(l)
  <2>1. CASE l.first <= l.commit
    <3>1. l.commit \in l.first .. n /\ l.commit <= n /\ l.commit <= n + 1
      BY <1>2, <2>1
    <3> QED BY <1>6, <1>8, <2>1, <3>1 DEF CommitTerm, TermAt, Stored, n
  <2>2. CASE ~(l.first <= l.commit)
    BY <1>6, <2>2 DEF CommitTerm, TermAt, Stored
  <2> QED BY <2>1, <2>2
<1>11. Proper(x) /\ l.commit <= x.commit
  <2>1. n + 1 <= MaxIndex /\ l.commit \in l.first - 1 .. n + 1 /\ l.commit <= l.commit
    BY <1>1, <1>2
  <2> QED BY <1>6, <1>8, <2>1 DEF Proper
<1>12. /\ q.tv = p.tv /\ q.c = p.c /\ q.m = p.m /\ q.d = p.d /\ q.live = p.live
       /\ DOMAIN q.ents = DOMAIN p.ents \cup {n + 1} /\ q.ents[n + 1] = z
       /\ \A k \in DOMAIN p.ents : k # n + 1 => q.ents[k] = p.ents[k]
  <2>1. /\ q.tv = p.tv /\ q.c = p.c /\ q.m = p.m /\ q.d = p.d /\ q.live = p.live
        /\ q.ents = Entered(p.ents, n + 1, z)
    BY DEF q, WithEntries, Picture
  <2> HIDE DEF z
  <2> QED BY <2>1 DEF Entered
<1>13. /\ DOMAIN p.ents = l.first .. n /\ \A k \in l.first .. n : p.ents[k] = EntryAt(l, k)
       /\ p.m = <<l.first - 1, l.snapTerm>> /\ CommitOf(p) = l.commit
       /\ p.tv = <<l.term, l.vote>> /\ p.d = l.snap
  BY <1>1 DEF Stores, Holds, n
<1>14. \A k \in l.first .. n : k # n + 1 /\ k \in l.first .. n + 1
  BY <1>2
<1>15. DOMAIN q.ents = l.first .. n + 1
  BY <1>2, <1>12, <1>13
<1>16. Sound(q)
  <2>1. n + 1 \in 1 .. MaxIndex
    BY <1>1, <1>2
  <2>2. p.c[1] # n + 1
    <3>1. p.c[1] <= CommitOf(p) /\ p.c[1] \in Nat
      BY <1>1, CommitOfNat
    <3> QED BY <1>2, <1>13, <3>1
  <2> QED BY <1>1, <1>3, <1>12, <2>1, <2>2 DEF Sound
<1>17. Stores(q, x)
  <2>1. ASSUME NEW k \in l.first .. n + 1
        PROVE  q.ents[k] = EntryAt(x, k)
    <3>1. k = n + 1 \/ k \in l.first .. n
      BY <1>2
    <3> QED BY <1>8, <1>12, <1>13, <1>14, <3>1
  <2> QED BY <1>6, <1>8, <1>12, <1>13, <1>15, <2>1 DEF Stores, Holds, CommitOf
<1>18. CommittedKept(q, l)
  <2>1. \A k \in l.first .. l.commit : k \in l.first .. n
    BY <1>2
  <2>2. \A k \in l.first .. l.commit : k \in DOMAIN q.ents /\ q.ents[k] = p.ents[k]
    BY <1>12, <1>13, <1>14, <2>1
  <2> QED BY <1>1, <1>12, <2>2, KeepsCommitted
<1>19. [f EXCEPT !.last = @ + 1, !.lastTerm = f.term] = CacheOf(x)
  <2> DEFINE g == [f EXCEPT !.last = @ + 1, !.lastTerm = f.term]
  <2>1. IsCache(f)
    BY <1>1, CacheFields
  <2>2. /\ IsCache(g) /\ g.term = f.term /\ g.vote = f.vote /\ g.first = f.first
        /\ g.snapTerm = f.snapTerm /\ g.last = f.last + 1 /\ g.lastTerm = f.term
        /\ g.commit = f.commit /\ g.commitTerm = f.commitTerm
    BY <2>1 DEF IsCache, FieldNames
  <2> HIDE DEF g
  <2>3. g = CacheOf(x)
    BY <1>1, <1>6, <1>8, <1>9, <1>10, <2>2, CacheFields, SameCache DEF n
  <2> QED BY <2>3 DEF g
<1>20. ops = <<op, Sync>> /\ ops # <<op>>
  BY <1>4, OneWrite DEF ops
<1>21. StoreOk(e, ops, f, l, [fields |-> CacheOf(x), log |-> x], u)
  BY <1>4, <1>5, <1>11, <1>16, <1>17, <1>18, <1>20, OneWriteOk
<1> QED BY <1>1, <1>19, <1>21 DEF x, ops, op

\* commit starts as it should, although it does not flush.
LEMMA CommitCallOk ==
  ASSUME NEW e, Whole(e), NEW f, NEW l, NEW r, NEW u \in BOOLEAN,
         StoreOk(e, <<>>, f, l, r, u),
         NEW index \in Nat, CommitOk(l, index), index > f.commit
  PROVE  LET term == Get(e, EntryKey(index)).term
             x == Commit(l, index)
         IN StoreOk(e, <<Put(CommitIndex, <<index, term>>)>>, f, l,
                    [fields |-> [f EXCEPT !.commit = index, !.commitTerm = term], log |-> x], u)
<1> DEFINE x == Commit(l, index)
           n == LastIndex(l)
           term == Get(e, EntryKey(index)).term
           op == Put(CommitIndex, <<index, term>>)
           ops == <<op>>
           p == Pic(Sight(e))
           q == WithCommit(p, <<index, term>>)
<1>1. Proper(l) /\ f = CacheOf(l) /\ Sound(p) /\ Stores(p, l) /\ f.commit = l.commit
  BY IdleShows DEF CacheOf
<1>2. /\ l \in LogValues /\ l.commit \in Nat /\ n \in Nat /\ l.first \in Nat /\ l.first > 0
      /\ l.commit \in l.first - 1 .. n /\ l.synced \in Nat /\ l.synced <= l.commit
  BY <1>1, LogFacts DEF Proper
<1>3. index \in l.first .. n /\ index > l.commit
  BY <1>1, <1>2 DEF CommitOk, Stored, n
<1>4. /\ DOMAIN p.ents = l.first .. n /\ \A k \in l.first .. n : p.ents[k] = EntryAt(l, k)
      /\ p.m = <<l.first - 1, l.snapTerm>> /\ CommitOf(p) = l.commit
      /\ p.tv = <<l.term, l.vote>> /\ p.d = l.snap
  BY <1>1 DEF Stores, Holds, n
<1>5. term = p.ents[index].term /\ p.ents[index] = EntryAt(l, index) /\ p.ents[index] \in Entries
      /\ term \in Nat
  <2>1. Get(e, EntryKey(index)) = p.ents[index]
    BY <1>1, <1>3, <1>4, OpenedIs
  <2>2. p.ents[index] \in Entries
    BY <1>1, <1>3, <1>4 DEF Sound
  <2> QED BY <1>3, <1>4, <2>1, <2>2 DEF Entries
<1> HIDE DEF term
<1>6. WriteOp(op)
  BY PutWrites
<1>7. q = At(e.file, ops, Len(e.file) + 1)
  <2>1. OpsOk(ops) /\ Writes(ops) = 1 /\ ops[1] = op
    BY <1>6, OneWrite
  <2>2. 1 \in 1 .. Writes(ops) /\ 1 - 1 = 0
    BY <2>1
  <2> HIDE DEF ops
  <2> QED BY <2>1, <2>2, FirstStage
<1>8. /\ x \in LogValues /\ x.commit = index /\ x.synced = l.synced
      /\ x.term = l.term /\ x.vote = l.vote /\ x.first = l.first
      /\ x.snapTerm = l.snapTerm /\ x.snap = l.snap /\ x.ents = l.ents
  BY <1>2 DEF Commit, LogValues
<1> HIDE DEF x, q, ops, op, n
<1>9. /\ LastIndex(x) = n /\ LastTerm(x) = LastTerm(l)
      /\ \A k : EntryAt(x, k) = EntryAt(l, k)
  BY <1>8 DEF LastIndex, LastTerm, TermAt, Stored, EntryAt, n
<1>10. CommitTerm(x) = term
  <2>1. l.first <= index /\ index <= n
    BY <1>2, <1>3
  <2> QED BY <1>5, <1>8, <1>9, <2>1 DEF CommitTerm, TermAt, Stored
<1>11. Proper(x) /\ l.commit <= x.commit
  <2>1. n <= MaxIndex
    BY <1>1 DEF Proper, n
  <2> QED BY <1>2, <1>3, <1>8, <1>9, <2>1 DEF Proper
<1>12. q.tv = p.tv /\ q.c = <<index, term>> /\ q.m = p.m /\ q.d = p.d
       /\ q.live = p.live /\ q.ents = p.ents
  BY DEF q, WithCommit, Picture
<1>13. index # p.m[1] /\ ~(index < p.m[1])
  BY <1>2, <1>3, <1>4
<1>14. Sound(q)
  BY <1>1, <1>5, <1>12, <1>13 DEF Sound
<1>15. \A z : Holds(z, l) => Holds(z, x)
  BY <1>8, <1>9 DEF Holds, n
<1>16. Stores(q, x)
  <2>1. Holds(q, l)
    BY <1>1, <1>12 DEF Stores, Holds
  <2>2. CommitOf(q) = index
    BY <1>12, <1>13 DEF CommitOf
  <2> QED BY <1>8, <1>15, <2>1, <2>2 DEF Stores
<1>17. CommittedKept(q, l)
  <2>1. \A k \in l.first .. l.commit : k \in l.first .. n
    BY <1>2
  <2>2. \A k \in l.first .. l.commit : k \in DOMAIN q.ents /\ q.ents[k] = p.ents[k]
    BY <1>4, <1>12, <2>1
  <2> QED BY <1>1, <1>12, <2>2, KeepsCommitted
<1>18. [f EXCEPT !.commit = index, !.commitTerm = term] = CacheOf(x)
  <2> DEFINE g == [f EXCEPT !.commit = index, !.commitTerm = term]
  <2>1. IsCache(f)
    BY <1>1, CacheFields
  <2>2. /\ IsCache(g) /\ g.term = f.term /\ g.vote = f.vote /\ g.first = f.first
        /\ g.snapTerm = f.snapTerm /\ g.last = f.last /\ g.lastTerm = f.lastTerm
        /\ g.commit = index /\ g.commitTerm = term
    BY <2>1 DEF IsCache, FieldNames
  <2> HIDE DEF g
  <2>3. g = CacheOf(x)
    BY <1>1, <1>8, <1>9, <1>10, <2>2, CacheFields, SameCache DEF n
  <2> QED BY <2>3 DEF g
<1>19. ops = <<op>>
  BY DEF ops
<1>20. StoreOk(e, ops, f, l, [fields |-> CacheOf(x), log |-> x], u)
  BY <1>6, <1>7, <1>8, <1>11, <1>14, <1>15, <1>16, <1>17, <1>19, OneWriteOk
<1> QED BY <1>18, <1>20 DEF x, ops, op, term

-----------------------------------------------------------------------------
(* splice.                                                                 *)

\* Where the elements of two joined sequences are.
LEMMA JoinFacts ==
  ASSUME NEW S, NEW s \in Seq(S), NEW t \in Seq(S)
  PROVE  /\ s \o t \in Seq(S) /\ Len(s \o t) = Len(s) + Len(t)
         /\ \A k \in 1 .. Len(s) + Len(t) :
              (s \o t)[k] = IF k <= Len(s) THEN s[k] ELSE t[k - Len(s)]
OBVIOUS

\* How many of the new entries are there already.
Skipped(l, base, ents) ==
  Max({n \in 0 .. Len(ents) : \A k \in 1 .. n : Agrees(l, base, ents, k)})

\* What splice makes of the log, when it changes it.
LEMMA SpliceFacts ==
  ASSUME NEW l, Proper(l), NEW base \in Nat, NEW ents \in Seq(Entries), ents # <<>>,
         base + Len(ents) <= MaxIndex, SpliceOk(l, base, ents),
         Skipped(l, base, ents) < Len(ents)
  PROVE  LET from == base + Skipped(l, base, ents) + 1
             x == Splice(l, base, ents)
             to == base + Len(ents)
         IN /\ Skipped(l, base, ents) \in 0 .. Len(ents)
            /\ from \in l.first .. LastIndex(l) + 1 /\ from > l.commit
            /\ Proper(x) /\ LastIndex(x) = to
            /\ x.commit = l.commit /\ x.synced = l.commit
            /\ x.term = l.term /\ x.vote = l.vote /\ x.first = l.first
            /\ x.snapTerm = l.snapTerm /\ x.snap = l.snap
            /\ \A k \in l.first .. from - 1 : EntryAt(x, k) = EntryAt(l, k)
            /\ \A k \in from .. to : EntryAt(x, k) = ents[k - base]
            /\ LastTerm(x) = ents[Len(ents)].term /\ CommitTerm(x) = CommitTerm(l)
<1> DEFINE m == Len(ents)
           n == LastIndex(l)
           A == {i \in 0 .. m : \A k \in 1 .. i : Agrees(l, base, ents, k)}
           skip == Skipped(l, base, ents)
           from == base + skip + 1
           x == Splice(l, base, ents)
           head == SubSeq(l.ents, 1, base + 1 - l.first)
<1>1. /\ l \in LogValues /\ l.commit \in Nat /\ n \in Nat /\ l.first \in Nat /\ l.first > 0
      /\ l.ents \in Seq(Entries) /\ Len(l.ents) \in Nat /\ n = l.first + Len(l.ents) - 1
      /\ l.commit \in l.first - 1 .. n /\ l.first - 1 <= n
      /\ \A k \in l.first .. n : EntryAt(l, k) = l.ents[k + 1 - l.first]
                                 /\ k + 1 - l.first \in 1 .. Len(l.ents)
  BY LogFacts DEF Proper
<1>2. m \in Nat /\ m > 0
  <2>1. m \in Nat
    OBVIOUS
  <2>2. m # 0
    BY EmptySeq
  <2> QED BY <2>1, <2>2
<1>3. skip \in A /\ \A i \in A : skip >= i
  <2>1. 0 \in A
    BY <1>2
  <2>2. A \in SUBSET Nat /\ A # {} /\ \A i \in A : i <= m
    BY <1>2, <2>1
  <2> HIDE DEF A
  <2>3. Max(A) \in A /\ \A i \in A : Max(A) >= i
    BY <1>2, <2>2, MaxOfBounded
  <2> QED BY <2>3 DEF A, Skipped
<1> HIDE DEF skip
<1>4. /\ skip \in 0 .. m /\ skip < m /\ skip + 1 \in 1 .. m
      /\ \A k \in 1 .. skip : Agrees(l, base, ents, k)
      /\ ~Agrees(l, base, ents, skip + 1)
  <2>1. skip \in 0 .. m /\ skip < m /\ \A k \in 1 .. skip : Agrees(l, base, ents, k)
    BY <1>3 DEF skip
  <2>2. ASSUME Agrees(l, base, ents, skip + 1)
        PROVE  FALSE
    <3>1. skip + 1 \in 0 .. m
      BY <1>2, <2>1
    <3>2. \A k \in 1 .. skip + 1 : k \in 1 .. skip \/ k = skip + 1
      BY <2>1
    <3>3. skip + 1 \in A
      BY <2>1, <2>2, <3>1, <3>2
    <3>4. skip >= skip + 1
      BY <1>3, <3>3
    <3> QED BY <2>1, <3>4
  <2> QED BY <1>2, <2>1, <2>2
<1>5. /\ \/ Stored(l, base)
         \/ base = 0 /\ l.first = 1
      /\ \A k \in 1 .. m :
           (\A j \in 1 .. k - 1 : Agrees(l, base, ents, j)) =>
              IF Agrees(l, base, ents, k)
                THEN EntryAt(l, base + k) = ents[k]
                ELSE base + k > l.commit
  BY DEF SpliceOk
<1>6. base + 1 >= l.first /\ base <= n
  BY <1>1, <1>5 DEF Stored, n
<1>7. from > l.commit
  <2>1. (skip + 1) - 1 = skip
    BY <1>4
  <2>2. base + (skip + 1) > l.commit
    BY <1>4, <1>5, <2>1
  <2> QED BY <1>1, <1>4, <2>2
<1>8. \A k \in 1 .. skip : base + k \in l.first .. n /\ EntryAt(l, base + k) = ents[k]
  <2> TAKE k \in 1 .. skip
  <2>1. Agrees(l, base, ents, k) /\ k \in 1 .. m
    BY <1>4
  <2>2. \A j \in 1 .. k - 1 : j \in 1 .. skip
    BY <1>4
  <2>3. EntryAt(l, base + k) = ents[k]
    BY <1>4, <1>5, <2>1, <2>2
  <2>4. base + k \in l.first .. n
    <3>1. l.first <= base + k /\ base + k <= n
      BY <2>1 DEF Agrees, Stored, n
    <3> QED BY <1>1, <3>1
  <2> QED BY <2>3, <2>4
<1>9. from \in l.first .. n + 1
  <2>1. CASE skip = 0
    BY <1>1, <1>6, <2>1
  <2>2. CASE skip # 0
    <3>1. skip \in 1 .. skip /\ skip \in Nat
      BY <1>4, <2>2
    <3>2. base + skip \in l.first .. n
      BY <1>8, <3>1
    <3> QED BY <1>1, <3>1, <3>2
  <2> QED BY <2>1, <2>2
<1>10. ~(\A k \in 1 .. Len(ents) : Agrees(l, base, ents, k))
  BY <1>4
<1>11. x = Flushed([l EXCEPT !.ents = head \o ents])
  BY <1>10 DEF Splice
<1>12. /\ base + 1 - l.first \in 0 .. Len(l.ents)
       /\ head \in Seq(Entries) /\ Len(head) = base + 1 - l.first
       /\ \A k \in 1 .. base + 1 - l.first : head[k] = l.ents[k]
  <2> DEFINE c == base + 1 - l.first
             s == l.ents
  <2>1. c \in 0 .. Len(s) /\ s \in Seq(Entries) /\ Len(s) \in Nat /\ head = SubSeq(s, 1, c)
    BY <1>1, <1>6
  <2> HIDE DEF c, s, head
  <2>2. head \in Seq(Entries) /\ Len(head) = c /\ \A k \in 1 .. c : head[k] = s[k]
    BY <2>1
  <2> QED BY <2>1, <2>2 DEF c, s
<1> HIDE DEF head
<1>13. /\ head \o ents \in Seq(Entries) /\ Len(head \o ents) = base + 1 - l.first + m
       /\ \A k \in 1 .. Len(head \o ents) :
            (head \o ents)[k] = IF k <= base + 1 - l.first THEN head[k]
                                ELSE ents[k - (base + 1 - l.first)]
  <2>1. /\ head \o ents \in Seq(Entries) /\ Len(head \o ents) = Len(head) + Len(ents)
          /\ \A k \in 1 .. Len(head) + Len(ents) :
               (head \o ents)[k] = IF k <= Len(head) THEN head[k] ELSE ents[k - Len(head)]
    BY <1>12, JoinFacts
  <2> QED BY <1>12, <2>1
<1>14. /\ x \in LogValues /\ x.commit = l.commit /\ x.synced = l.commit
       /\ x.term = l.term /\ x.vote = l.vote /\ x.first = l.first
       /\ x.snapTerm = l.snapTerm /\ x.snap = l.snap /\ x.ents = head \o ents
  <2> DEFINE j == head \o ents
  <2> HIDE DEF j
  <2> SUFFICES /\ x \in LogValues /\ x.commit = l.commit /\ x.synced = l.commit
               /\ x.term = l.term /\ x.vote = l.vote /\ x.first = l.first
               /\ x.snapTerm = l.snapTerm /\ x.snap = l.snap /\ x.ents = j
    BY DEF j
  <2>1. j \in Seq(Entries)
    BY <1>13 DEF j
  <2>2. x = Flushed([l EXCEPT !.ents = j])
    BY <1>11 DEF j
  <2> QED BY <1>1, <2>1, <2>2 DEF Flushed, LogValues
<1> HIDE DEF x
<1>15. LastIndex(x) = base + m
  <2>1. LastIndex(x) = l.first + (base + 1 - l.first + m) - 1
    BY <1>13, <1>14 DEF LastIndex
  <2> HIDE DEF m
  <2> QED BY <1>1, <1>2, <2>1
<1>16. ASSUME NEW k \in l.first .. base + m
       PROVE  EntryAt(x, k) = IF k <= base THEN EntryAt(l, k) ELSE ents[k - base]
  <2>0. Len(head \o ents) = base + 1 - l.first + m
    BY <1>13
  <2>1. k + 1 - l.first \in 1 .. Len(head \o ents)
    <3>1. l.first \in Nat /\ base \in Nat /\ m \in Nat
      BY <1>1, <1>2
    <3> HIDE DEF m, head
    <3>2. k + 1 - l.first \in 1 .. base + 1 - l.first + m
      BY <3>1
    <3> QED BY <2>0, <3>2
  <2>2. EntryAt(x, k) = (head \o ents)[k + 1 - l.first]
    BY <1>14 DEF EntryAt
  <2>3. CASE k <= base
    <3>1. /\ k + 1 - l.first \in 1 .. base + 1 - l.first /\ k \in l.first .. n
          /\ k + 1 - l.first <= base + 1 - l.first
      BY <1>1, <1>6, <2>3
    <3>2. (head \o ents)[k + 1 - l.first] = head[k + 1 - l.first]
      BY <1>13, <2>1, <3>1
    <3>3. head[k + 1 - l.first] = l.ents[k + 1 - l.first]
      BY <1>12, <3>1
    <3>4. EntryAt(l, k) = l.ents[k + 1 - l.first]
      BY <1>1, <3>1
    <3> QED BY <2>2, <2>3, <3>2, <3>3, <3>4
  <2>4. CASE ~(k <= base)
    <3>1. ~(k + 1 - l.first <= base + 1 - l.first)
          /\ (k + 1 - l.first) - (base + 1 - l.first) = k - base
      BY <1>1, <2>4
    <3> QED BY <1>13, <2>1, <2>2, <2>4, <3>1
  <2> QED BY <2>3, <2>4
<1>17. \A k \in l.first .. from - 1 : EntryAt(x, k) = EntryAt(l, k)
  <2> TAKE k \in l.first .. from - 1
  <2>1. k \in l.first .. base + m
    BY <1>1, <1>4
  <2>2. CASE k <= base
    BY <1>16, <2>1, <2>2
  <2>3. CASE ~(k <= base)
    <3>1. k - base \in 1 .. skip /\ base + (k - base) = k
      BY <1>1, <1>4, <2>3
    <3>2. EntryAt(l, base + (k - base)) = ents[k - base]
      BY <1>8, <3>1
    <3> QED BY <1>16, <2>1, <2>3, <3>1, <3>2
  <2> QED BY <2>2, <2>3
<1>18. \A k \in from .. base + m : EntryAt(x, k) = ents[k - base]
  <2> TAKE k \in from .. base + m
  <2>1. k \in l.first .. base + m /\ ~(k <= base)
    BY <1>1, <1>4, <1>9
  <2> QED BY <1>16, <2>1
<1>19. Proper(x)
  <2>1. l.commit \in l.first - 1 .. base + m /\ l.commit <= l.commit
    BY <1>1, <1>2, <1>4, <1>7
  <2> QED BY <1>14, <1>15, <2>1 DEF Proper
<1>20. LastTerm(x) = ents[Len(ents)].term
  <2>1. base + m \in from .. base + m /\ l.first <= base + m /\ base + m <= base + m
        /\ (base + m) - base = m
    BY <1>1, <1>2, <1>4, <1>9
  <2> QED BY <1>14, <1>15, <1>18, <2>1 DEF LastTerm, TermAt, Stored, m
<1>21. CommitTerm(x) = CommitTerm(l)
  <2>1. CASE l.first <= l.commit
    <3>1. l.commit \in l.first .. from - 1 /\ l.commit <= n /\ l.commit <= base + m
      BY <1>1, <1>2, <1>4, <1>7, <2>1
    <3> QED BY <1>14, <1>15, <1>17, <2>1, <3>1 DEF CommitTerm, TermAt, Stored, n
  <2>2. CASE ~(l.first <= l.commit)
    BY <1>14, <2>2 DEF CommitTerm, TermAt, Stored
  <2> QED BY <2>1, <2>2
<1> QED BY <1>4, <1>7, <1>9, <1>14, <1>15, <1>17, <1>18, <1>19, <1>20, <1>21 DEF x, skip, n

\* Entries after the commit index come and go.
LEMMA TailChanged ==
  ASSUME NEW l, Proper(l), NEW p, Sound(p), Stores(p, l), NEW g,
         DOMAIN g \subseteq 1 .. MaxIndex, \A k \in DOMAIN g : g[k] \in Entries,
         \A k \in 1 .. l.commit : /\ k \in DOMAIN g <=> k \in DOMAIN p.ents
                                  /\ k \in DOMAIN g => g[k] = p.ents[k]
  PROVE  LET q == WithEntries(p, g)
         IN Sound(q) /\ l.synced <= CommitOf(q) /\ CommitOf(q) = l.commit
            /\ (\A x : VoteKept(q, l, x)) /\ CommittedKept(q, l)
<1> DEFINE q == WithEntries(p, g)
<1>1. q.tv = p.tv /\ q.c = p.c /\ q.m = p.m /\ q.d = p.d /\ q.live = p.live /\ q.ents = g
  BY DEF WithEntries, Picture
<1> HIDE DEF q
<1>2. CommitOf(q) = CommitOf(p) /\ CommitOf(p) = l.commit
  BY <1>1 DEF CommitOf, Stores
<1>3. Sound(q)
  <2>1. p.c[1] \in DOMAIN g => p.c[1] \in DOMAIN p.ents /\ g[p.c[1]] = p.ents[p.c[1]]
    <3>1. p.c[1] <= l.commit /\ p.c[1] \in Nat
      BY <1>2, CommitOfNat
    <3>2. p.c[1] \in DOMAIN g => p.c[1] \in 1 .. l.commit
      <4>1. l.commit \in Nat
        BY LogFacts DEF Proper
      <4> QED BY <3>1, <4>1
    <3> QED BY <3>2
  <2> QED BY <1>1, <2>1 DEF Sound
<1>4. \A x : VoteKept(q, l, x)
  BY <1>1 DEF VoteKept, Stores, Holds
<1>5. CommittedKept(q, l)
  <2>1. ASSUME NEW k \in l.first .. l.commit
        PROVE  k \in DOMAIN q.ents /\ q.ents[k] = p.ents[k]
    <3>1. /\ l.commit \in l.first - 1 .. LastIndex(l) /\ l.commit \in Nat
          /\ LastIndex(l) \in Nat /\ l.first \in Nat /\ l.first > 0
      BY LogFacts DEF Proper
    <3>2. k \in 1 .. l.commit /\ k \in l.first .. LastIndex(l)
      BY <3>1
    <3>3. k \in DOMAIN p.ents
      BY <3>2 DEF Stores, Holds
    <3> QED BY <1>1, <3>2, <3>3
  <2> QED BY <1>1, <2>1, KeepsCommitted
<1>6. l.synced <= CommitOf(q)
  BY <1>2 DEF Proper
<1> QED BY <1>2, <1>3, <1>4, <1>5, <1>6 DEF q

\* Some of the new entries are there, in order.
LEMMA PrefixAdded ==
  ASSUME NEW l, Proper(l), NEW x, Proper(x), Grows(l, x), NEW q,
         q.tv = <<l.term, l.vote>>, q.m = <<l.first - 1, l.snapTerm>>, q.d = l.snap,
         CommitOf(q) = l.commit,
         NEW h \in LastIndex(l) .. LastIndex(x),
         DOMAIN q.ents = l.first .. h,
         \A k \in l.first .. h : q.ents[k] = EntryAt(x, k)
  PROVE  OnlyAdded(q, l, x)
<1> DEFINE c == h - l.first + 1
           y == [l EXCEPT !.ents = SubSeq(x.ents, 1, c)]
<1>1. /\ l \in LogValues /\ l.commit \in Nat /\ l.first \in Nat /\ l.first > 0
      /\ Len(l.ents) \in Nat /\ LastIndex(l) = l.first + Len(l.ents) - 1
      /\ l.commit \in l.first - 1 .. LastIndex(l) /\ l.synced <= l.commit
  BY LogFacts DEF Proper
<1>2. /\ x.ents \in Seq(Entries) /\ Len(x.ents) \in Nat /\ x.first = l.first
      /\ LastIndex(x) = l.first + Len(x.ents) - 1 /\ LastIndex(x) <= MaxIndex
      /\ MaxIndex \in Nat
  BY LogFacts, StorageAssumption DEF Proper, Grows
<1>0. h \in Int /\ LastIndex(l) <= h /\ h <= LastIndex(x)
  BY <1>1, <1>2
<1>3. c \in Len(l.ents) .. Len(x.ents) /\ c \in Nat /\ h \in Nat /\ c = h - l.first + 1
  <2>1. l.first + Len(l.ents) - 1 <= h /\ h <= l.first + Len(x.ents) - 1 /\ h \in Int
    BY <1>0, <1>1, <1>2
  <2>2. Len(l.ents) \in Nat /\ Len(x.ents) \in Nat /\ l.first \in Nat /\ l.first > 0
    BY <1>1, <1>2
  <2>3. c = h - l.first + 1
    OBVIOUS
  <2> HIDE DEF c
  <2>4. Len(l.ents) <= c /\ c <= Len(x.ents) /\ c \in Int
    BY <2>1, <2>2, <2>3
  <2> QED BY <2>1, <2>2, <2>3, <2>4
<1> DEFINE t == SubSeq(x.ents, 1, c)
<1>4. t \in Seq(Entries) /\ Len(t) = c /\ \A k \in 1 .. c : t[k] = x.ents[k]
  <2> DEFINE s == x.ents
  <2>1. s \in Seq(Entries) /\ c \in Nat /\ c <= Len(s) /\ t = SubSeq(s, 1, c)
    BY <1>2, <1>3
  <2> HIDE DEF s, c, t
  <2>2. t \in Seq(Entries) /\ Len(t) = c /\ \A k \in 1 .. c : t[k] = s[k]
    BY <2>1
  <2> QED BY <2>2 DEF s
<1> HIDE DEF t, c
<1>5. /\ y \in LogValues /\ y.commit = l.commit /\ y.synced = l.synced
      /\ y.term = l.term /\ y.vote = l.vote /\ y.first = l.first
      /\ y.snapTerm = l.snapTerm /\ y.snap = l.snap /\ y.ents = t
  BY <1>1, <1>4 DEF LogValues, t
<1> HIDE DEF y
<1>6. LastIndex(y) = h
  <2>1. LastIndex(y) = l.first + c - 1
    BY <1>4, <1>5 DEF LastIndex
  <2> QED BY <1>1, <1>3, <2>1
<1>7. \A k \in l.first .. h : EntryAt(y, k) = EntryAt(x, k)
  <2> TAKE k \in l.first .. h
  <2>1. k + 1 - l.first \in 1 .. c
    <3>1. h \in Nat /\ l.first \in Nat /\ c = h - l.first + 1
      BY <1>1, <1>3
    <3> QED BY <3>1
  <2> QED BY <1>2, <1>4, <1>5, <2>1 DEF EntryAt
<1>8. Proper(y)
  <2>1. h <= MaxIndex /\ l.commit \in l.first - 1 .. h
    BY <1>0, <1>1, <1>2
  <2> QED BY <1>1, <1>5, <1>6, <2>1 DEF Proper
<1>9. Stores(q, y)
  BY <1>5, <1>6, <1>7 DEF Stores, Holds
<1>10. Grows(l, y) /\ Grows(y, x)
  <2>1. \A k \in 1 .. Len(l.ents) : k \in 1 .. c /\ x.ents[k] = l.ents[k]
    BY <1>1, <1>3 DEF Grows
  <2> QED BY <1>2, <1>3, <1>4, <1>5, <2>1 DEF Grows
<1> QED BY <1>5, <1>8, <1>9, <1>10 DEF OnlyAdded

\* A run of n writes.
RunOf(a, n) == a = [k \in 1 .. n |-> a[k]] /\ \A k \in 1 .. n : WriteOp(a[k])

TwoRuns(ops, a, m, b, n) ==
  /\ ops # <<>> /\ OpsOk(ops) /\ Writes(ops) = m + n /\ Flushes(ops)
  /\ \A k \in 1 .. m : ops[0 + k] = a[k]
  /\ \A k \in 1 .. n : ops[m + k] = b[k]

\* Two runs of writes and a flush.
LEMMA RunsJoin ==
  ASSUME NEW m \in Nat, NEW n \in Nat, NEW a, NEW b, RunOf(a, m), RunOf(b, n)
  PROVE  TwoRuns(a \o b \o <<Sync>>, a, m, b, n)
<1> DEFINE S == {a[k] : k \in 1 .. m} \cup {b[k] : k \in 1 .. n} \cup {Sync}
           ab == a \o b
           last == <<Sync>>
           ops == ab \o last
<1>0. /\ a = [k \in 1 .. m |-> a[k]] /\ \A k \in 1 .. m : WriteOp(a[k])
      /\ b = [k \in 1 .. n |-> b[k]] /\ \A k \in 1 .. n : WriteOp(b[k])
  BY DEF RunOf
<1>1. /\ a \in Seq(S) /\ Len(a) = m /\ b \in Seq(S) /\ Len(b) = n
      /\ last \in Seq(S) /\ Len(last) = 1 /\ last[1] = Sync
  <2>1. (\A k \in 1 .. m : a[k] \in S) /\ (\A k \in 1 .. n : b[k] \in S) /\ Sync \in S
    OBVIOUS
  <2> HIDE DEF S
  <2>2. [k \in 1 .. m |-> a[k]] \in Seq(S) /\ Len([k \in 1 .. m |-> a[k]]) = m
    BY <2>1
  <2>3. [k \in 1 .. n |-> b[k]] \in Seq(S) /\ Len([k \in 1 .. n |-> b[k]]) = n
    BY <2>1
  <2>4. last \in Seq(S) /\ Len(last) = 1 /\ last[1] = Sync
    BY <2>1
  <2> QED BY <1>0, <2>2, <2>3, <2>4
<1> HIDE DEF S, last
<1>2. /\ ab \in Seq(S) /\ Len(ab) = m + n
      /\ \A k \in 1 .. m + n : ab[k] = IF k <= m THEN a[k] ELSE b[k - m]
  BY <1>1, JoinFacts
<1> HIDE DEF ab
<1>3. /\ ops \in Seq(S) /\ Len(ops) = m + n + 1
      /\ \A k \in 1 .. m + n + 1 : ops[k] = IF k <= m + n THEN ab[k] ELSE last[k - (m + n)]
  <2>0. ab \in Seq(S) /\ last \in Seq(S)
    BY <1>1, <1>2
  <2>1. /\ ab \o last \in Seq(S) /\ Len(ab \o last) = Len(ab) + Len(last)
        /\ \A k \in 1 .. Len(ab) + Len(last) :
             (ab \o last)[k] = IF k <= Len(ab) THEN ab[k] ELSE last[k - Len(ab)]
    BY <2>0, JoinFacts
  <2> QED BY <1>1, <1>2, <2>1
<1> HIDE DEF ops
<1>4. /\ \A k \in 1 .. m : ops[k] = a[k]
      /\ \A k \in 1 .. n : ops[m + k] = b[k]
      /\ ops[m + n + 1] = Sync
  <2>1. ASSUME NEW k \in 1 .. m
        PROVE  ops[k] = a[k]
    <3>1. k \in 1 .. m + n + 1 /\ k \in 1 .. m + n /\ k <= m + n /\ k <= m
      OBVIOUS
    <3> QED BY <1>2, <1>3, <3>1
  <2>2. ASSUME NEW k \in 1 .. n
        PROVE  ops[m + k] = b[k]
    <3>1. m + k \in 1 .. m + n + 1 /\ m + k \in 1 .. m + n /\ m + k <= m + n
          /\ ~(m + k <= m) /\ (m + k) - m = k
      OBVIOUS
    <3>2. ops[m + k] = ab[m + k]
      BY <1>3, <3>1
    <3>3. ab[m + k] = b[(m + k) - m]
      BY <1>2, <3>1
    <3> QED BY <3>1, <3>2, <3>3
  <2>3. m + n + 1 \in 1 .. m + n + 1 /\ ~(m + n + 1 <= m + n) /\ (m + n + 1) - (m + n) = 1
    OBVIOUS
  <2>4. ops[m + n + 1] = last[(m + n + 1) - (m + n)]
    BY <1>3, <2>3
  <2> QED BY <1>1, <2>1, <2>2, <2>3, <2>4
<1>5. ASSUME NEW k \in 1 .. m + n
      PROVE  WriteOp(ops[k])
  <2>1. CASE k <= m
    <3>1. k \in 1 .. m
      BY <2>1
    <3> QED BY <1>0, <1>4, <3>1
  <2>2. CASE ~(k <= m)
    <3>1. k - m \in 1 .. n /\ m + (k - m) = k
      BY <2>2
    <3>2. ops[m + (k - m)] = b[k - m]
      BY <1>4, <3>1
    <3> QED BY <1>0, <3>1, <3>2
  <2> QED BY <2>1, <2>2
<1>6. ops # <<>> /\ OpsOk(ops) /\ Writes(ops) = m + n /\ Flushes(ops)
  <2>1. m + n \in Nat
    OBVIOUS
  <2> QED BY <1>3, <1>4, <1>5, <2>1, WritesThenFlush
<1>7. \A k \in 1 .. m : 0 + k = k
  OBVIOUS
<1>8. TwoRuns(ops, a, m, b, n)
  BY <1>4, <1>6, <1>7 DEF TwoRuns
<1> QED BY <1>8 DEF ops, ab, last

\* How many entries a deletion takes.
HowMany(from, to) == IF to < from THEN 0 ELSE to - from + 1

\* The calls of splice: entries, deletions and a flush.
LEMMA SpliceOpsFacts ==
  ASSUME NEW base \in Nat, NEW ents \in Seq(Entries), NEW skip \in 0 .. Len(ents),
         NEW last \in Nat
  PROVE  LET ops == SpliceOps(base, ents, skip, last)
             P == Len(ents) - skip
             D == HowMany(base + Len(ents) + 1, last)
         IN /\ ops # <<>> /\ OpsOk(ops) /\ Writes(ops) = P + D /\ Flushes(ops)
            /\ P \in Nat /\ D \in Nat
            /\ PutsFrom(ops, 0, P, base + skip + 1, SubSeq(ents, skip + 1, Len(ents)))
            /\ DropsFrom(ops, P, D, [j \in 1 .. D |-> base + Len(ents) + j])
            /\ \A j \in 1 .. P : SubSeq(ents, skip + 1, Len(ents))[j] = ents[skip + j]
<1> DEFINE m == Len(ents)
           P == m - skip
           D == HowMany(base + m + 1, last)
           vals == SubSeq(ents, skip + 1, m)
           from == base + skip + 1
           a == PutEntries(from, vals)
           b == DropEntries(base + m + 1, last)
           ops == SpliceOps(base, ents, skip, last)
<1>1. m \in Nat /\ skip \in Nat /\ skip <= m /\ P \in Nat /\ from \in Nat
  OBVIOUS
<1>2. D \in Nat
  BY <1>1 DEF HowMany
<1>3. Len(vals) = P /\ \A j \in 1 .. P : vals[j] = ents[skip + j]
  <2>1. vals \in Seq(Entries) /\ Len(vals) = P
    BY <1>1
  <2>2. ASSUME NEW j \in 1 .. P
        PROVE  vals[j] = ents[skip + j]
    <3>1. vals[j] = ents[(skip + 1) + j - 1] /\ (skip + 1) + j - 1 = skip + j
      BY <1>1
    <3> QED BY <3>1
  <2> QED BY <2>1, <2>2
<1>4. a = [k \in 1 .. P |-> Put(EntryKey(from + k - 1), vals[k])]
  BY <1>3 DEF PutEntries
<1>5. b = [k \in 1 .. D |-> Drop(EntryKey((base + m + 1) + k - 1))]
  BY DEF DropEntries, HowMany
<1>6. ops = a \o b \o <<Sync>>
  BY DEF SpliceOps
<1> HIDE DEF a, b, ops, D, P, vals, from, m
<1>7. /\ a = [k \in 1 .. P |-> a[k]]
      /\ \A k \in 1 .. P : a[k] = Put(EntryKey(from + k - 1), vals[k]) /\ WriteOp(a[k])
  <2>1. \A k \in 1 .. P : from + k - 1 \in Nat
    BY <1>1
  <2> QED BY <1>4, <2>1, PutWrites
<1>8. /\ b = [k \in 1 .. D |-> b[k]]
      /\ \A k \in 1 .. D : /\ b[k] = Drop(EntryKey(base + m + k)) /\ WriteOp(b[k])
                           /\ base + m + k \in Nat
  <2>1. \A k \in 1 .. D : (base + m + 1) + k - 1 \in Nat /\ (base + m + 1) + k - 1 = base + m + k
    BY <1>1, <1>2
  <2> QED BY <1>5, <2>1, PutWrites
<1>9. /\ ops # <<>> /\ OpsOk(ops) /\ Writes(ops) = P + D /\ Flushes(ops)
      /\ \A k \in 1 .. P : ops[0 + k] = a[k]
      /\ \A k \in 1 .. D : ops[P + k] = b[k]
  <2>1. RunOf(a, P)
    BY <1>7 DEF RunOf
  <2>2. RunOf(b, D)
    BY <1>8 DEF RunOf
  <2>3. P \in Nat /\ D \in Nat
    BY <1>1, <1>2
  <2>4. TwoRuns(ops, a, P, b, D)
    BY <1>6, <2>1, <2>2, <2>3, RunsJoin
  <2> QED BY <2>4 DEF TwoRuns
<1>10. PutsFrom(ops, 0, P, from, vals)
  BY <1>7, <1>9 DEF PutsFrom
<1> DEFINE o == [j \in 1 .. D |-> base + m + j]
<1>11. DropsFrom(ops, P, D, o)
  BY <1>8, <1>9 DEF DropsFrom
<1> QED BY <1>1, <1>2, <1>3, <1>9, <1>10, <1>11 DEF ops, P, D, vals, from, m

\* x is l with the P values vals in place of what follows from - 1.
NewEntries(l, x, from, P, vals) ==
  /\ x.first = l.first /\ x.term = l.term /\ x.vote = l.vote
  /\ x.snapTerm = l.snapTerm /\ x.snap = l.snap /\ x.commit = l.commit
  /\ from \in l.first .. LastIndex(l) + 1
  /\ l.commit < from
  /\ from + P - 1 = LastIndex(x)
  /\ \A i \in 1 .. P : vals[i] = EntryAt(x, from + i - 1)
  /\ \A k \in l.first .. from - 1 : EntryAt(x, k) = EntryAt(l, k)

\* What a stage of splice must be.
StageOk(q, l, x) == Sound(q) /\ l.synced <= CommitOf(q) /\ Between(q, l, x)

\* What holds when j of them are written over what p shows.
Overlaying(l, x, p, from, P, vals, j) ==
  LET g == Overlaid(p.ents, from, j, vals)
      q == WithEntries(p, g)
  IN /\ StageOk(q, l, x)
     /\ j = P /\ LastIndex(l) <= LastIndex(x) => Stores(q, x)
     /\ j = P /\ LastIndex(x) < LastIndex(l) =>
          /\ DOMAIN g = l.first .. LastIndex(l)
          /\ \A k \in l.first .. LastIndex(x) : g[k] = EntryAt(x, k)
     /\ \A k \in DOMAIN g : g[k] \in Entries
     /\ \A k \in 1 .. l.commit : /\ k \in DOMAIN g <=> k \in DOMAIN p.ents
                                 /\ k \in DOMAIN g => g[k] = p.ents[k]

\* Some of the new entries are written.
LEMMA OverlayStage ==
  ASSUME NEW l, Proper(l), NEW x, Proper(x), NEW p, Sound(p), Stores(p, l),
         NEW from, NEW P \in Nat, NEW vals, NewEntries(l, x, from, P, vals),
         NEW j \in 0 .. P
  PROVE  Overlaying(l, x, p, from, P, vals, j)
<1> DEFINE g == Overlaid(p.ents, from, j, vals)
           q == WithEntries(p, g)
           n == LastIndex(l)
           to == LastIndex(x)
           N == from .. from + j - 1
           H == IF n < from + j - 1 THEN from + j - 1 ELSE n
<1>1. /\ l.commit \in Nat /\ n \in Nat /\ l.first \in Nat /\ l.first > 0
      /\ l.commit \in l.first - 1 .. n /\ n <= MaxIndex
      /\ \A k \in l.first .. n : EntryAt(l, k) \in Entries
  BY LogFacts DEF Proper
<1>2. /\ to \in Nat /\ x.first \in Nat /\ to <= MaxIndex /\ MaxIndex \in Nat
      /\ \A k \in x.first .. to : EntryAt(x, k) \in Entries
  BY LogFacts, StorageAssumption DEF Proper
<1>3. /\ x.first = l.first /\ x.term = l.term /\ x.vote = l.vote
      /\ x.snapTerm = l.snapTerm /\ x.snap = l.snap /\ x.commit = l.commit
      /\ from \in l.first .. n + 1 /\ l.commit < from /\ from + P - 1 = to
      /\ \A i \in 1 .. P : vals[i] = EntryAt(x, from + i - 1)
      /\ \A k \in l.first .. from - 1 : EntryAt(x, k) = EntryAt(l, k)
  BY DEF NewEntries
<1>4. /\ p.tv = <<l.term, l.vote>> /\ p.m = <<l.first - 1, l.snapTerm>> /\ p.d = l.snap
      /\ DOMAIN p.ents = l.first .. n /\ \A k \in l.first .. n : p.ents[k] = EntryAt(l, k)
      /\ CommitOf(p) = l.commit
  BY DEF Stores, Holds
<1>5. /\ DOMAIN g = (l.first .. n) \cup N
      /\ \A k \in DOMAIN g : g[k] = IF k \in N THEN vals[k - from + 1] ELSE p.ents[k]
  BY <1>4 DEF Overlaid
<1>6. from \in Nat /\ j \in Nat /\ j <= P /\ H \in Nat
  BY <1>1, <1>3
<1> HIDE DEF g, n, to
<1>7. DOMAIN g = l.first .. H
  BY <1>1, <1>3, <1>5, <1>6
<1>8. \A k \in N : k \in l.first .. to /\ k \in DOMAIN g /\ g[k] = EntryAt(x, k)
  <2> TAKE k \in N
  <2>1. k - from + 1 \in 1 .. P /\ from + (k - from + 1) - 1 = k /\ k \in l.first .. to
    BY <1>1, <1>2, <1>3, <1>6
  <2>2. vals[k - from + 1] = EntryAt(x, from + (k - from + 1) - 1)
    BY <1>3, <2>1
  <2> QED BY <1>5, <2>1, <2>2
<1>9. \A k \in l.first .. n : k \notin N => g[k] = EntryAt(l, k)
  BY <1>4, <1>5
<1> HIDE DEF N
<1>10. \A k \in DOMAIN g : g[k] \in Entries
  <2> TAKE k \in DOMAIN g
  <2>1. CASE k \in N
    BY <1>2, <1>3, <1>8, <2>1 DEF to
  <2>2. CASE k \notin N
    BY <1>1, <1>5, <1>9, <2>2 DEF n
  <2> QED BY <2>1, <2>2
<1>11. DOMAIN g \subseteq 1 .. MaxIndex
  <2>1. l.first \in 1 .. MaxIndex + 1 /\ H <= MaxIndex
    BY <1>1, <1>2, <1>3, <1>6 DEF n, to
  <2> HIDE DEF H
  <2> QED BY <1>1, <1>2, <1>6, <1>7, <2>1
<1>12. \A k \in 1 .. l.commit : /\ k \in DOMAIN g <=> k \in DOMAIN p.ents
                                /\ k \in DOMAIN g => g[k] = p.ents[k]
  <2> TAKE k \in 1 .. l.commit
  <2>1. k \notin N
    BY <1>1, <1>3, <1>6 DEF N
  <2> QED BY <1>4, <1>5, <2>1
<1>13. /\ Sound(q) /\ l.synced <= CommitOf(q) /\ CommitOf(q) = l.commit
       /\ VoteKept(q, l, x) /\ CommittedKept(q, l)
  BY <1>10, <1>11, <1>12, TailChanged
<1>14. /\ q.tv = p.tv /\ q.m = p.m /\ q.d = p.d /\ q.ents = g
  BY DEF WithEntries, Picture
<1> HIDE DEF q
<1>15. OnlyAdded(q, l, x)
  <2>1. ASSUME Grows(l, x)
        PROVE  OnlyAdded(q, l, x)
    <3>1. n <= to
      <4>1. /\ n = l.first + Len(l.ents) - 1 /\ to = x.first + Len(x.ents) - 1
            /\ Len(l.ents) \in Nat /\ Len(x.ents) \in Nat
        BY LogFacts DEF Proper, n, to
      <4>2. Len(l.ents) <= Len(x.ents)
        BY <2>1 DEF Grows
      <4>3. l.first \in Nat /\ x.first = l.first
        BY <1>1, <1>3
      <4> QED BY <4>1, <4>2, <4>3
    <3>2. H \in n .. to
      BY <1>1, <1>2, <1>3, <1>6, <3>1 DEF n, to
    <3>3. ASSUME NEW k \in l.first .. H
          PROVE  q.ents[k] = EntryAt(x, k)
      <4>1. CASE k \in N
        BY <1>8, <1>14, <4>1
      <4>2. CASE k \notin N
        <5>1. k \in l.first .. n
          BY <1>5, <1>7, <4>2
        <5>2. k + 1 - l.first \in 1 .. Len(l.ents) /\ EntryAt(l, k) = l.ents[k + 1 - l.first]
          BY <5>1, LogFacts DEF Proper, n
        <5>3. EntryAt(x, k) = x.ents[k + 1 - l.first]
          BY <1>3 DEF EntryAt
        <5> QED BY <1>9, <1>14, <2>1, <4>2, <5>1, <5>2, <5>3 DEF Grows
      <4> QED BY <4>1, <4>2
    <3>4. DOMAIN q.ents = l.first .. H
      BY <1>7, <1>14
    <3> HIDE DEF H
    <3>5. q.tv = <<l.term, l.vote>> /\ q.m = <<l.first - 1, l.snapTerm>> /\ q.d = l.snap
      BY <1>4, <1>14
    <3> QED BY <1>13, <2>1, <3>2, <3>3, <3>4, <3>5, PrefixAdded DEF n, to
  <2> QED BY <2>1 DEF OnlyAdded
<1>16. StageOk(q, l, x)
  BY <1>13, <1>15 DEF StageOk, Between
<1>17. ASSUME j = P
       PROVE  \A k \in l.first .. to : k \in DOMAIN g => g[k] = EntryAt(x, k)
  <2> TAKE k \in l.first .. to
  <2>1. CASE k \in N
    BY <1>8, <2>1
  <2>2. CASE k \notin N
    <3>1. k \in l.first .. from - 1 /\ k \in l.first .. n
      BY <1>1, <1>2, <1>3, <1>6, <1>17, <2>2 DEF N
    <3> QED BY <1>3, <1>9, <2>2, <3>1
  <2> QED BY <2>1, <2>2
<1>18. ASSUME j = P, n <= to
       PROVE  Stores(q, x)
  <2>1. H = to
    BY <1>1, <1>2, <1>3, <1>6, <1>18 DEF n, to
  <2>2. DOMAIN q.ents = x.first .. to /\ \A k \in x.first .. to : q.ents[k] = EntryAt(x, k)
    BY <1>3, <1>7, <1>14, <1>17, <1>18, <2>1
  <2> QED BY <1>3, <1>4, <1>13, <1>14, <2>2 DEF Stores, Holds, to
<1>19. ASSUME j = P, to < n
       PROVE  /\ DOMAIN g = l.first .. n
              /\ \A k \in l.first .. to : g[k] = EntryAt(x, k)
  <2>1. H = n
    BY <1>1, <1>2, <1>3, <1>6, <1>19 DEF n, to
  <2>2. \A k \in l.first .. to : k \in l.first .. n
    BY <1>1, <1>2, <1>3, <1>19 DEF n, to
  <2> QED BY <1>7, <1>17, <1>19, <2>1, <2>2
<1> QED BY <1>10, <1>12, <1>16, <1>18, <1>19 DEF q, g, n, to, Overlaying

\* Some of the entries after the new ones are deleted.
LEMMA TrimStage ==
  ASSUME NEW l, Proper(l), NEW x, Proper(x), NEW p, Sound(p), Stores(p, l),
         NEW from, NEW P \in Nat, NEW vals, NewEntries(l, x, from, P, vals),
         NEW D, D = HowMany(LastIndex(x) + 1, LastIndex(l)), NEW j \in 1 .. D,
         NEW K, K = {LastIndex(x) + i : i \in 1 .. j}
  PROVE  LET q == WithEntries(p, Removed(Overlaid(p.ents, from, P, vals), K))
         IN StageOk(q, l, x) /\ (j = D => Stores(q, x))
<1> DEFINE f == Overlaid(p.ents, from, P, vals)
           g == Removed(f, K)
           q == WithEntries(p, g)
           n == LastIndex(l)
           to == LastIndex(x)
<1>1. /\ l.commit \in Nat /\ n \in Nat /\ l.first \in Nat /\ l.first > 0
      /\ l.commit \in l.first - 1 .. n /\ n <= MaxIndex
  BY LogFacts DEF Proper
<1>2. /\ to \in Nat /\ x.first \in Nat /\ to <= MaxIndex /\ MaxIndex \in Nat
  BY LogFacts, StorageAssumption DEF Proper
<1>3. /\ x.first = l.first /\ x.term = l.term /\ x.vote = l.vote
      /\ x.snapTerm = l.snapTerm /\ x.snap = l.snap /\ x.commit = l.commit
      /\ from \in l.first .. n + 1 /\ l.commit < from /\ from + P - 1 = to
  BY DEF NewEntries
<1> HIDE DEF f, n, to
<1>4. to < n /\ D = n - to /\ D \in Nat
  <2>1. j \in Nat /\ j > 0 /\ D > 0
    BY <1>1, <1>2 DEF HowMany, n, to
  <2> QED BY <1>1, <1>2, <2>1 DEF HowMany, n, to
<1>5. /\ DOMAIN f = l.first .. n
      /\ \A k \in l.first .. to : f[k] = EntryAt(x, k)
      /\ \A k \in DOMAIN f : f[k] \in Entries
      /\ \A k \in 1 .. l.commit : /\ k \in DOMAIN f <=> k \in DOMAIN p.ents
                                  /\ k \in DOMAIN f => f[k] = p.ents[k]
  <2>1. P \in 0 .. P /\ P = P
    OBVIOUS
  <2>2. Overlaying(l, x, p, from, P, vals, P)
    BY <2>1, OverlayStage
  <2> QED BY <1>4, <2>2 DEF Overlaying, f, n, to
<1>6. DOMAIN g = (l.first .. n) \ K /\ \A k \in DOMAIN g : g[k] = f[k]
  BY <1>5 DEF Removed
<1> HIDE DEF g
<1>7. \A k \in K : k > to /\ k \in Nat
  BY <1>2, <1>4 DEF to
<1>8. l.commit <= to
  BY <1>3, <1>2 DEF to, Proper
<1>9. \A k \in 1 .. l.commit : k \notin K
  BY <1>1, <1>2, <1>7, <1>8
<1>10. /\ DOMAIN g \subseteq 1 .. MaxIndex /\ \A k \in DOMAIN g : g[k] \in Entries
       /\ \A k \in 1 .. l.commit : /\ k \in DOMAIN g <=> k \in DOMAIN p.ents
                                   /\ k \in DOMAIN g => g[k] = p.ents[k]
  <2>1. DOMAIN g \subseteq 1 .. MaxIndex
    BY <1>1, <1>2, <1>6
  <2> QED BY <1>5, <1>6, <1>9, <2>1
<1>11. /\ Sound(q) /\ l.synced <= CommitOf(q) /\ CommitOf(q) = l.commit
       /\ VoteKept(q, l, x) /\ CommittedKept(q, l)
  BY <1>10, TailChanged
<1>12. /\ q.tv = p.tv /\ q.m = p.m /\ q.d = p.d /\ q.ents = g
  BY DEF WithEntries, Picture
<1> HIDE DEF q
<1>13. ~Grows(l, x)
  <2>1. /\ n = l.first + Len(l.ents) - 1 /\ to = x.first + Len(x.ents) - 1
        /\ Len(l.ents) \in Nat /\ Len(x.ents) \in Nat
    BY LogFacts DEF Proper, n, to
  <2>2. Grows(l, x) => Len(l.ents) <= Len(x.ents)
    BY DEF Grows
  <2>3. l.first \in Nat /\ x.first = l.first /\ to < n
    BY <1>1, <1>3, <1>4
  <2>4. Len(x.ents) < Len(l.ents)
    BY <2>1, <2>3
  <2>5. ~(Len(l.ents) <= Len(x.ents))
    BY <2>1, <2>4
  <2> QED BY <2>2, <2>5
<1>14. StageOk(q, l, x)
  BY <1>11, <1>13 DEF StageOk, Between, OnlyAdded
<1>15. ASSUME j = D
       PROVE  Stores(q, x)
  <2>1. ASSUME NEW k \in l.first .. n
        PROVE  k \in K <=> k > to
    <3>1. k > to => k - to \in 1 .. j /\ to + (k - to) = k
      BY <1>1, <1>2, <1>4, <1>15
    <3> QED BY <1>7, <3>1 DEF to
  <2>2. DOMAIN g = l.first .. to
    BY <1>1, <1>2, <1>4, <1>6, <2>1
  <2>3. DOMAIN q.ents = x.first .. to /\ \A k \in x.first .. to : q.ents[k] = EntryAt(x, k)
    BY <1>3, <1>5, <1>6, <1>12, <2>2
  <2>4. /\ p.tv = <<l.term, l.vote>> /\ p.m = <<l.first - 1, l.snapTerm>> /\ p.d = l.snap
    BY DEF Stores, Holds
  <2> QED BY <1>3, <1>11, <1>12, <2>3, <2>4 DEF Stores, Holds, to
<1> QED BY <1>14, <1>15 DEF q, g, f

\* A method whose every stage is sound, in the form that CallOk takes.
Staged(e, ops, l, x) ==
  \A k \in 0 .. Writes(ops) : StageOk(At(e.file, ops, Len(e.file) + k), l, x)

\* Such a method starts as it should.
LEMMA StagedCallOk ==
  ASSUME NEW e, Whole(e), NEW f, NEW l, NEW r, NEW u \in BOOLEAN,
         StoreOk(e, <<>>, f, l, r, u),
         NEW ops, ops # <<>>, OpsOk(ops), Flushes(ops), NEW x, Proper(x), Staged(e, ops, l, x),
         Stores(At(e.file, ops, Len(e.file) + Writes(ops)), x)
  PROVE  StoreOk(e, ops, f, l, [fields |-> CacheOf(x), log |-> x], u)
<1>1. \A k \in 0 .. Writes(ops) :
        LET q == At(e.file, ops, Len(e.file) + k)
        IN Sound(q) /\ l.synced <= CommitOf(q) /\ Between(q, l, x)
  BY DEF Staged, StageOk
<1> QED BY <1>1, CallOk

\* splice starts as it should.
LEMMA SpliceCallOk ==
  ASSUME NEW e, Whole(e), NEW f, NEW l, NEW r, NEW u \in BOOLEAN,
         StoreOk(e, <<>>, f, l, r, u),
         NEW base \in Nat, NEW ents \in Seq(Entries), ents # <<>>,
         base + Len(ents) <= MaxIndex, SpliceOk(l, base, ents),
         Skipped(l, base, ents) < Len(ents)
  PROVE  LET x == Splice(l, base, ents)
         IN StoreOk(e, SpliceOps(base, ents, Skipped(l, base, ents), f.last), f, l,
                    [fields |-> [f EXCEPT !.last = base + Len(ents),
                                          !.lastTerm = ents[Len(ents)].term],
                     log |-> x], u)
<1> DEFINE x == Splice(l, base, ents)
           skip == Skipped(l, base, ents)
           m == Len(ents)
           n == LastIndex(l)
           from == base + skip + 1
           ops == SpliceOps(base, ents, skip, n)
           p == Pic(Sight(e))
           P == m - skip
           D == HowMany(base + m + 1, n)
           vals == SubSeq(ents, skip + 1, m)
           o == [j \in 1 .. D |-> base + m + j]
           N == Len(e.file)
<1>1. Proper(l) /\ f = CacheOf(l) /\ Sound(p) /\ Stores(p, l) /\ f.last = n
  BY IdleShows DEF CacheOf
<1>2. /\ skip \in 0 .. m /\ from \in l.first .. n + 1 /\ from > l.commit
      /\ Proper(x) /\ LastIndex(x) = base + m
      /\ x.commit = l.commit /\ x.synced = l.commit
      /\ x.term = l.term /\ x.vote = l.vote /\ x.first = l.first
      /\ x.snapTerm = l.snapTerm /\ x.snap = l.snap
      /\ \A k \in l.first .. from - 1 : EntryAt(x, k) = EntryAt(l, k)
      /\ \A k \in from .. base + m : EntryAt(x, k) = ents[k - base]
      /\ LastTerm(x) = ents[m].term /\ CommitTerm(x) = CommitTerm(l)
  BY <1>1, SpliceFacts
<1>3. m \in Nat /\ n \in Nat /\ N \in Nat /\ skip \in Nat /\ l.first \in Nat /\ l.commit \in Nat
  <2>1. n \in Nat /\ l.first \in Nat /\ l.commit \in Nat
    BY <1>1, LogFacts DEF Proper
  <2>2. N \in Nat
    BY FutureFacts, NothingComing
  <2>3. m \in Nat
    OBVIOUS
  <2> QED BY <1>2, <2>1, <2>2, <2>3
<1> HIDE DEF x, skip, n, N
<1>4. /\ ops # <<>> /\ OpsOk(ops) /\ Writes(ops) = P + D /\ Flushes(ops)
      /\ P \in Nat /\ D \in Nat
      /\ PutsFrom(ops, 0, P, from, vals) /\ DropsFrom(ops, P, D, o)
      /\ \A j \in 1 .. P : vals[j] = ents[skip + j]
  BY <1>2, <1>3, SpliceOpsFacts
<1> HIDE DEF ops, vals, D
<1>5. NewEntries(l, x, from, P, vals)
  <2>1. from + P - 1 = base + m
    BY <1>2, <1>3
  <2>2. ASSUME NEW i \in 1 .. P
        PROVE  vals[i] = EntryAt(x, from + i - 1)
    <3>1. from + i - 1 \in from .. base + m /\ (from + i - 1) - base = skip + i
      BY <1>2, <1>3
    <3> QED BY <1>2, <1>4, <3>1
  <2>3. l.commit < from
    BY <1>2, <1>3
  <2> QED BY <1>2, <2>1, <2>2, <2>3 DEF NewEntries, n
<1> HIDE DEF from
<1>6. At(e.file, ops, N + 0) = p
  BY <1>4, StageStep DEF N
<1>7. \A j \in 0 .. P : At(e.file, ops, N + j) = WithEntries(p, Overlaid(p.ents, from, j, vals))
  <2>1. from \in Nat /\ 0 \in Nat /\ 0 + P <= Writes(ops)
    <3> HIDE DEF P
    <3> QED BY <1>2, <1>3, <1>4
  <2>2. StagesOfPuts(e, ops, 0, P, from, vals)
    BY <1>4, <2>1, PutStages
  <2>3. \A j \in 0 .. P : 0 + j = j
    BY <1>4
  <2> HIDE DEF P
  <2> QED BY <1>6, <2>2, <2>3 DEF StagesOfPuts, N
<1> HIDE DEF P, p, m
<1>8. \A j \in 0 .. D :
        At(e.file, ops, N + (P + j)) =
          WithEntries(p, Removed(Overlaid(p.ents, from, P, vals), {o[i] : i \in 1 .. j}))
  <2>1. P + D <= Writes(ops)
    BY <1>4
  <2>2. StagesOfDrops(e, ops, P, D, o)
    BY <1>4, <2>1, DropStages
  <2>3. P \in 0 .. P
    BY <1>4
  <2> DEFINE g == Overlaid(p.ents, from, P, vals)
  <2>4. At(e.file, ops, N + P) = WithEntries(p, g)
    BY <1>7, <2>3
  <2> HIDE DEF g
  <2>5. WithEntries(p, g).ents = g /\ \A h : WithEntries(WithEntries(p, g), h) = WithEntries(p, h)
    BY DEF WithEntries, Picture
  <2> HIDE DEF o
  <2> QED BY <2>2, <2>4, <2>5 DEF StagesOfDrops, N, g
<1>9. /\ \A j \in 0 .. P : Overlaying(l, x, p, from, P, vals, j)
  BY <1>1, <1>2, <1>4, <1>5, OverlayStage
<1>10. ASSUME NEW j \in 1 .. D
       PROVE  LET q == At(e.file, ops, N + (P + j))
              IN StageOk(q, l, x) /\ (j = D => Stores(q, x))
  <2> DEFINE K == {LastIndex(x) + i : i \in 1 .. j}
             q == WithEntries(p, Removed(Overlaid(p.ents, from, P, vals), K))
  <2>1. \A i \in 1 .. j : o[i] = LastIndex(x) + i
    BY <1>2, <1>4
  <2>2. {o[i] : i \in 1 .. j} = K
    BY <2>1
  <2>3. D = HowMany(LastIndex(x) + 1, LastIndex(l))
    BY <1>2 DEF D, n
  <2>4. StageOk(q, l, x) /\ (j = D => Stores(q, x))
    BY <1>1, <1>2, <1>4, <1>5, <2>3, TrimStage
  <2>5. j \in 0 .. D
    BY <1>4
  <2> HIDE DEF o
  <2> QED BY <1>8, <2>2, <2>4, <2>5
<1> HIDE DEF o
<1>11. Staged(e, ops, l, x)
  <2> SUFFICES ASSUME NEW k \in 0 .. P + D
               PROVE  StageOk(At(e.file, ops, N + k), l, x)
    BY <1>4 DEF Staged, N
  <2>1. CASE k <= P
    <3>1. k \in 0 .. P
      BY <1>4, <2>1
    <3>2. Overlaying(l, x, p, from, P, vals, k)
      BY <1>9, <3>1
    <3>3. StageOk(WithEntries(p, Overlaid(p.ents, from, k, vals)), l, x)
      BY <3>2 DEF Overlaying
    <3> QED BY <1>7, <3>1, <3>3
  <2>2. CASE ~(k <= P)
    <3>1. k - P \in 1 .. D /\ P + (k - P) = k
      BY <1>4, <2>2
    <3>2. StageOk(At(e.file, ops, N + (P + (k - P))), l, x)
      BY <1>10, <3>1
    <3> QED BY <3>1, <3>2
  <2> QED BY <2>1, <2>2
<1>12. Stores(At(e.file, ops, N + Writes(ops)), x)
  <2>1. CASE D = 0
    <3>1. n <= LastIndex(x)
      BY <1>2, <1>3, <2>1 DEF D, HowMany, m
    <3>2. P \in 0 .. P /\ P + D = P
      BY <1>4, <2>1
    <3>3. Overlaying(l, x, p, from, P, vals, P)
      BY <1>9, <3>2
    <3>4. Stores(WithEntries(p, Overlaid(p.ents, from, P, vals)), x)
      BY <3>1, <3>3 DEF Overlaying, n
    <3> QED BY <1>4, <1>7, <3>2, <3>4
  <2>2. CASE D # 0
    <3>1. D \in 1 .. D
      BY <1>4, <2>2
    <3> QED BY <1>4, <1>10, <3>1
  <2> QED BY <2>1, <2>2
<1>13. StoreOk(e, ops, f, l, [fields |-> CacheOf(x), log |-> x], u)
  BY <1>2, <1>4, <1>11, <1>12, StagedCallOk DEF N
<1>14. [f EXCEPT !.last = base + m, !.lastTerm = ents[m].term] = CacheOf(x)
  <2> DEFINE t == ents[m].term
             g == [f EXCEPT !.last = base + m, !.lastTerm = t]
  <2>1. IsCache(f)
    BY <1>1, CacheFields
  <2>2. LastTerm(x) = t
    BY <1>2
  <2> HIDE DEF t
  <2>3. /\ IsCache(g) /\ g.term = f.term /\ g.vote = f.vote /\ g.first = f.first
        /\ g.snapTerm = f.snapTerm /\ g.last = base + m /\ g.lastTerm = t
        /\ g.commit = f.commit /\ g.commitTerm = f.commitTerm
    BY <2>1 DEF IsCache, FieldNames
  <2> HIDE DEF g
  <2>4. g = CacheOf(x)
    BY <1>1, <1>2, <2>2, <2>3, CacheFields, SameCache
  <2> QED BY <2>4 DEF g, t
<1> QED BY <1>1, <1>13, <1>14 DEF x, skip, m, n, ops

-----------------------------------------------------------------------------
(* compact_to and reset_with_snapshot.                                     *)

\* The calls t end with a flush after c writes.
EndsWith(t, c) ==
  /\ \E S : t \in Seq(S)
  /\ Len(t) = c + 1 /\ t[c + 1] = Sync
  /\ \A k \in 1 .. c : WriteOp(t[k])

Surrounded(ops, h, b, n, t, c) ==
  /\ ops # <<>> /\ OpsOk(ops) /\ Writes(ops) = 1 + n + c /\ Flushes(ops)
  /\ ops[1] = h
  /\ \A k \in 1 .. n : ops[1 + k] = b[k]
  /\ \A k \in 1 .. c : ops[1 + n + k] = t[k]

\* A write, a run of writes, and the writes before the flush.
LEMMA SurroundedRun ==
  ASSUME NEW n \in Nat, NEW c \in Nat, NEW h, WriteOp(h), NEW b, RunOf(b, n),
         NEW t, EndsWith(t, c)
  PROVE  Surrounded(<<h>> \o b \o t, h, b, n, t, c)
<1> DEFINE a == <<h>>
           ab == a \o b
           ops == ab \o t
<1>1. PICK T : t \in Seq(T)
  BY DEF EndsWith
<1>2. /\ Len(t) = c + 1 /\ t[c + 1] = Sync /\ \A k \in 1 .. c : WriteOp(t[k])
      /\ b = [k \in 1 .. n |-> b[k]] /\ \A k \in 1 .. n : WriteOp(b[k])
  BY DEF EndsWith, RunOf
<1> DEFINE S == {b[k] : k \in 1 .. n} \cup {h} \cup T
<1>3. /\ a \in Seq(S) /\ Len(a) = 1 /\ a[1] = h /\ b \in Seq(S) /\ Len(b) = n /\ t \in Seq(S)
  <2>1. (\A k \in 1 .. n : b[k] \in S) /\ h \in S /\ T \subseteq S
    OBVIOUS
  <2> HIDE DEF S
  <2>2. [k \in 1 .. n |-> b[k]] \in Seq(S) /\ Len([k \in 1 .. n |-> b[k]]) = n
    BY <2>1
  <2>3. t \in Seq(S)
    BY <1>1, <2>1, SeqDef
  <2>4. a \in Seq(S) /\ Len(a) = 1 /\ a[1] = h
    BY <2>1
  <2> QED BY <1>2, <2>2, <2>3, <2>4
<1> HIDE DEF S, a
<1>4. /\ ab \in Seq(S) /\ Len(ab) = Len(a) + Len(b)
      /\ \A k \in 1 .. Len(a) + Len(b) : ab[k] = IF k <= Len(a) THEN a[k] ELSE b[k - Len(a)]
  BY <1>3, JoinFacts
<1>5. /\ ab \in Seq(S) /\ Len(ab) = 1 + n
      /\ \A k \in 1 .. 1 + n : ab[k] = IF k <= 1 THEN a[k] ELSE b[k - 1]
  BY <1>3, <1>4
<1> HIDE DEF ab
<1>6. /\ ab \o t \in Seq(S) /\ Len(ab \o t) = Len(ab) + Len(t)
      /\ \A k \in 1 .. Len(ab) + Len(t) :
           (ab \o t)[k] = IF k <= Len(ab) THEN ab[k] ELSE t[k - Len(ab)]
  BY <1>3, <1>5, JoinFacts
<1> HIDE DEF ops
<1>7. /\ ops \in Seq(S) /\ Len(ops) = (1 + n) + (c + 1)
      /\ \A k \in 1 .. (1 + n) + (c + 1) : ops[k] = IF k <= 1 + n THEN ab[k] ELSE t[k - (1 + n)]
  BY <1>2, <1>5, <1>6 DEF ops
<1>8. ops[1] = h
  <2>1. 1 \in 1 .. (1 + n) + (c + 1) /\ 1 <= 1 + n /\ 1 \in 1 .. 1 + n
    OBVIOUS
  <2> QED BY <1>3, <1>5, <1>7, <2>1
<1>9. ASSUME NEW k \in 1 .. n
      PROVE  ops[1 + k] = b[k]
  <2>1. /\ 1 + k \in 1 .. (1 + n) + (c + 1) /\ 1 + k <= 1 + n /\ 1 + k \in 1 .. 1 + n
        /\ ~(1 + k <= 1) /\ (1 + k) - 1 = k
    OBVIOUS
  <2>2. ops[1 + k] = ab[1 + k]
    BY <1>7, <2>1
  <2>3. ab[1 + k] = b[(1 + k) - 1]
    BY <1>5, <2>1
  <2> QED BY <2>1, <2>2, <2>3
<1>10. ASSUME NEW k \in 1 .. c + 1
       PROVE  ops[1 + n + k] = t[k]
  <2>1. /\ 1 + n + k \in 1 .. (1 + n) + (c + 1) /\ ~(1 + n + k <= 1 + n)
        /\ (1 + n + k) - (1 + n) = k
    OBVIOUS
  <2>2. ops[1 + n + k] = t[(1 + n + k) - (1 + n)]
    BY <1>7, <2>1
  <2> QED BY <2>1, <2>2
<1>11. ASSUME NEW k \in 1 .. 1 + n + c
       PROVE  WriteOp(ops[k])
  <2>1. CASE k = 1
    BY <1>8, <2>1
  <2>2. CASE k # 1 /\ k <= 1 + n
    <3>1. k - 1 \in 1 .. n /\ 1 + (k - 1) = k
      BY <2>2
    <3>2. ops[1 + (k - 1)] = b[k - 1]
      BY <1>9, <3>1
    <3> QED BY <1>2, <3>1, <3>2
  <2>3. CASE ~(k <= 1 + n)
    <3>1. k - (1 + n) \in 1 .. c /\ k - (1 + n) \in 1 .. c + 1 /\ 1 + n + (k - (1 + n)) = k
      BY <2>3
    <3>2. ops[1 + n + (k - (1 + n))] = t[k - (1 + n)]
      BY <1>10, <3>1
    <3> QED BY <1>2, <3>1, <3>2
  <2> QED BY <2>1, <2>2, <2>3
<1>12. ops # <<>> /\ OpsOk(ops) /\ Writes(ops) = 1 + n + c /\ Flushes(ops)
  <2>1. 1 + n + c \in Nat /\ (1 + n) + (c + 1) = (1 + n + c) + 1
        /\ c + 1 \in 1 .. c + 1 /\ 1 + n + (c + 1) = (1 + n + c) + 1
    OBVIOUS
  <2>2. ops[(1 + n + c) + 1] = Sync /\ Len(ops) = (1 + n + c) + 1
    BY <1>2, <1>7, <1>10, <2>1
  <2> QED BY <1>7, <1>11, <2>1, <2>2, WritesThenFlush
<1>13. \A k \in 1 .. c : k \in 1 .. c + 1
  OBVIOUS
<1>14. Surrounded(ops, h, b, n, t, c)
  BY <1>8, <1>9, <1>10, <1>12, <1>13 DEF Surrounded
<1> QED BY <1>14 DEF ops, ab, a

\* The stages of a method that writes the snapshot and then deletes.
StagesOfDeletion(e, ops, index, D, o) ==
  LET p == Pic(Sight(e))
  IN /\ At(e.file, ops, Len(e.file) + 0) = p
     /\ At(e.file, ops, Len(e.file) + 1) = WithData(p, index)
     /\ \A j \in 0 .. D :
          At(e.file, ops, Len(e.file) + (1 + j)) =
            WithEntries(WithData(p, index), Removed(p.ents, {o[i] : i \in 1 .. j}))

\* They are the snapshot written, and the entries gone one by one.
LEMMA DeletionStages ==
  ASSUME NEW e, Whole(e), NEW ops, OpsOk(ops), NEW index, ops[1] = Put(SnapshotData, index),
         NEW D \in Nat, 1 + D <= Writes(ops), NEW o, DropsFrom(ops, 1, D, o)
  PROVE  StagesOfDeletion(e, ops, index, D, o)
<1> DEFINE p == Pic(Sight(e))
           q == WithData(p, index)
<1>1. Writes(ops) \in Nat /\ 1 \in 1 .. Writes(ops) /\ 1 - 1 = 0
  <2>1. Writes(ops) \in Nat
    BY FutureFacts
  <2> QED BY <2>1
<1>2. At(e.file, ops, Len(e.file) + 0) = p
  BY StageStep
<1>3. At(e.file, ops, Len(e.file) + 1) = q
  BY <1>1, <1>2, FirstStage
<1>4. StagesOfDrops(e, ops, 1, D, o)
  BY DropStages
<1>5. q.ents = p.ents
  BY DEF WithData, Picture
<1> HIDE DEF q, p
<1>6. \A j \in 0 .. D :
        At(e.file, ops, Len(e.file) + (1 + j)) =
          WithEntries(q, Removed(p.ents, {o[i] : i \in 1 .. j}))
  BY <1>3, <1>4, <1>5 DEF StagesOfDrops
<1> QED BY <1>2, <1>3, <1>6 DEF p, q, StagesOfDeletion

\* What every stage but the last writes keeps: all but that nothing is added.
KeepsAll(q, l, x) ==
  /\ Sound(q) /\ l.synced <= CommitOf(q)
  /\ VoteKept(q, l, x) /\ CommittedKept(q, l)

\* The snapshot is written.
LEMMA DataStage ==
  ASSUME NEW l, Proper(l), NEW p, Sound(p), Stores(p, l), NEW index \in Nat, NEW x
  PROVE  LET q == WithData(p, index)
         IN KeepsAll(q, l, x) /\ CommitOf(q) = l.commit
<1> DEFINE q == WithData(p, index)
<1>1. /\ q.tv = p.tv /\ q.c = p.c /\ q.m = p.m /\ q.d = index /\ q.live = TRUE
      /\ q.ents = p.ents
  BY DEF WithData, Picture
<1> HIDE DEF q
<1>2. Sound(q)
  BY <1>1 DEF Sound
<1>3. CommitOf(q) = l.commit /\ l.synced <= CommitOf(q)
  BY <1>1 DEF CommitOf, Stores, Proper
<1>4. VoteKept(q, l, x)
  BY <1>1 DEF VoteKept, Stores, Holds
<1>5. CommittedKept(q, l)
  <2>1. \A k \in l.first .. l.commit : k \in l.first .. LastIndex(l)
    <3>1. l.commit \in l.first - 1 .. LastIndex(l) /\ l.commit \in Nat
          /\ LastIndex(l) \in Nat /\ l.first \in Nat
      BY LogFacts DEF Proper
    <3> QED BY <3>1
  <2>2. \A k \in l.first .. l.commit : k \in DOMAIN q.ents /\ q.ents[k] = p.ents[k]
    BY <1>1, <2>1 DEF Stores, Holds
  <2> QED BY <1>1, <2>2, KeepsCommitted
<1> QED BY <1>2, <1>3, <1>4, <1>5 DEF q, KeepsAll

\* Entries are gone, the first one among them.
LEMMA DeletedStage ==
  ASSUME NEW l, Proper(l), NEW p, Sound(p), Stores(p, l), NEW index \in Nat,
         l.commit <= index, NEW K, 1 \in DOMAIN p.ents => 1 \in K, NEW x
  PROVE  LET q == WithEntries(WithData(p, index), Removed(p.ents, K))
         IN KeepsAll(q, l, x) /\ CommitOf(q) = l.commit
<1> DEFINE q == WithEntries(WithData(p, index), Removed(p.ents, K))
<1>1. /\ q.tv = p.tv /\ q.c = p.c /\ q.m = p.m /\ q.d = index /\ q.live = TRUE
      /\ q.ents = Removed(p.ents, K)
  BY DEF WithData, WithEntries, Picture
<1> HIDE DEF q
<1>2. DOMAIN q.ents = DOMAIN p.ents \ K /\ \A k \in DOMAIN q.ents : q.ents[k] = p.ents[k]
  BY <1>1 DEF Removed
<1>3. Sound(q)
  BY <1>1, <1>2 DEF Sound
<1>4. CommitOf(q) = CommitOf(p) /\ CommitOf(p) = l.commit /\ l.synced <= CommitOf(q)
  BY <1>1 DEF CommitOf, Stores, Proper
<1>5. VoteKept(q, l, x)
  BY <1>1 DEF VoteKept, Stores, Holds
<1>6. CommittedKept(q, l)
  <2>1. p.m[1] \in Nat /\ p.c[1] \in Nat
    BY CommitOfNat
  <2>2. q.m[1] > 0 \/ (1 \notin DOMAIN q.ents /\ q.c[1] = l.commit)
    <3>1. CASE p.m[1] > 0
      BY <1>1, <3>1
    <3>2. CASE ~(p.m[1] > 0)
      <4>1. CommitOf(p) = p.c[1]
        BY <2>1, <3>2 DEF CommitOf
      <4> QED BY <1>1, <1>2, <1>4, <4>1
    <3> QED BY <3>1, <3>2
  <2> QED BY <1>1, <2>2 DEF CommittedKept
<1> QED BY <1>3, <1>4, <1>5, <1>6 DEF q, KeepsAll

\* The calls of compact_to: the snapshot, deletions, SnapshotMeta and a flush.
LEMMA CompactOpsFacts ==
  ASSUME NEW first \in Nat, NEW index \in Nat, first <= index, NEW term
  PROVE  LET ops == CompactOps(first, index, term)
             D == index + 1 - first
         IN /\ ops # <<>> /\ OpsOk(ops) /\ Writes(ops) = D + 2 /\ Flushes(ops)
            /\ D \in Nat /\ D > 0
            /\ ops[1] = Put(SnapshotData, index)
            /\ DropsFrom(ops, 1, D, [j \in 1 .. D |-> first + j - 1])
            /\ ops[D + 2] = Put(SnapshotMeta, <<index, term>>)
<1> DEFINE D == index + 1 - first
           h == Put(SnapshotData, index)
           b == DropEntries(first, index)
           g == Put(SnapshotMeta, <<index, term>>)
           t == <<g, Sync>>
           ops == CompactOps(first, index, term)
           o == [j \in 1 .. D |-> first + j - 1]
<1>1. D \in Nat /\ D > 0
  OBVIOUS
<1>2. WriteOp(h) /\ WriteOp(g)
  BY PutWrites
<1>3. b = [k \in 1 .. D |-> Drop(EntryKey(first + k - 1))]
  <2>1. index - first + 1 = D /\ ~(index < first)
    OBVIOUS
  <2> QED BY <2>1 DEF DropEntries
<1>4. ops = <<h>> \o b \o t
  BY DEF CompactOps
<1> HIDE DEF ops, b, h, g
<1>5. EndsWith(t, 1)
  <2>1. t \in Seq({g, Sync}) /\ Len(t) = 1 + 1 /\ t[1 + 1] = Sync /\ t[1] = g
    OBVIOUS
  <2> HIDE DEF t
  <2>2. \A k \in 1 .. 1 : WriteOp(t[k])
    BY <1>2, <2>1
  <2> QED BY <2>1, <2>2 DEF EndsWith
<1>6. t[1] = g
  OBVIOUS
<1> HIDE DEF t, D
<1>7. /\ b = [k \in 1 .. D |-> b[k]]
      /\ \A k \in 1 .. D : /\ b[k] = Drop(EntryKey(first + k - 1))
                           /\ WriteOp(b[k]) /\ first + k - 1 \in Nat
  <2>1. \A k \in 1 .. D : first + k - 1 \in Nat
    BY <1>1
  <2> QED BY <1>3, <2>1, PutWrites
<1>8. Surrounded(ops, h, b, D, t, 1)
  <2>1. RunOf(b, D)
    BY <1>7 DEF RunOf
  <2> QED BY <1>1, <1>2, <1>4, <1>5, <2>1, SurroundedRun
<1>9. /\ ops # <<>> /\ OpsOk(ops) /\ Writes(ops) = 1 + D + 1 /\ Flushes(ops)
      /\ ops[1] = h /\ \A k \in 1 .. D : ops[1 + k] = b[k]
      /\ ops[1 + D + 1] = t[1]
  BY <1>8 DEF Surrounded
<1>10. DropsFrom(ops, 1, D, o)
  BY <1>7, <1>9 DEF DropsFrom
<1>11. 1 + D + 1 = D + 2
  BY <1>1
<1> QED BY <1>1, <1>6, <1>9, <1>10, <1>11 DEF ops, D, h, g

\* Where the elements of the rest of a sequence are.
LEMMA TailFacts ==
  ASSUME NEW S, NEW s \in Seq(S), NEW d \in 0 .. Len(s)
  PROVE  LET t == SubSeq(s, d + 1, Len(s))
         IN /\ t \in Seq(S) /\ Len(t) = Len(s) - d
            /\ \A k \in 1 .. Len(s) - d : t[k] = s[d + k]
<1> DEFINE m == Len(s)
           t == SubSeq(s, d + 1, m)
<1>1. m \in Nat /\ d \in Nat /\ d <= m
  OBVIOUS
<1>2. t \in Seq(S) /\ Len(t) = m - d
  BY <1>1
<1>3. ASSUME NEW k \in 1 .. m - d
      PROVE  t[k] = s[d + k]
  <2>1. t[k] = s[(d + 1) + k - 1] /\ (d + 1) + k - 1 = d + k
    BY <1>1
  <2> QED BY <2>1
<1> QED BY <1>2, <1>3

\* maybe_snapshot starts as it should.
LEMMA SnapshotCallOk ==
  ASSUME NEW e, Whole(e), NEW f, NEW l, NEW r, NEW u \in BOOLEAN,
         StoreOk(e, <<>>, f, l, r, u), f.commit >= f.first
  PROVE  LET index == f.commit
             term == Get(e, EntryKey(index)).term
             x == CompactTo([l EXCEPT !.snap = index], index, term)
         IN StoreOk(e, CompactOps(f.first, index, term), f, l,
                    [fields |-> [f EXCEPT !.first = index + 1, !.snapTerm = term],
                     log |-> x], u)
<1> DEFINE index == l.commit
           term == Get(e, EntryKey(index)).term
           x == CompactTo([l EXCEPT !.snap = index], index, term)
           n == LastIndex(l)
           ops == CompactOps(l.first, index, term)
           p == Pic(Sight(e))
           D == index + 1 - l.first
           o == [j \in 1 .. D |-> l.first + j - 1]
           K(j) == {o[i] : i \in 1 .. j}
           N == Len(e.file)
           q == WithMeta(WithEntries(WithData(p, index), Removed(p.ents, K(D))), <<index, term>>)
<1>1. /\ Proper(l) /\ f = CacheOf(l) /\ Sound(p) /\ Stores(p, l)
      /\ f.commit = index /\ f.first = l.first
  BY IdleShows DEF CacheOf
<1>2. /\ l \in LogValues /\ index \in Nat /\ n \in Nat /\ l.first \in Nat /\ l.first > 0
      /\ l.first <= index /\ index <= n /\ n <= MaxIndex /\ MaxIndex \in Nat
      /\ l.synced \in Nat /\ l.synced <= index
      /\ l.ents \in Seq(Entries) /\ Len(l.ents) \in Nat /\ n = l.first + Len(l.ents) - 1
  BY <1>1, LogFacts, StorageAssumption DEF Proper
<1>3. /\ DOMAIN p.ents = l.first .. n /\ \A k \in l.first .. n : p.ents[k] = EntryAt(l, k)
      /\ p.m = <<l.first - 1, l.snapTerm>> /\ CommitOf(p) = index
      /\ p.tv = <<l.term, l.vote>> /\ p.d = l.snap
  BY <1>1 DEF Stores, Holds
<1>4. index \in DOMAIN p.ents /\ term = p.ents[index].term /\ term = EntryAt(l, index).term
      /\ term \in Nat
  <2>1. index \in l.first .. n
    BY <1>2
  <2>0. \A k \in DOMAIN p.ents : Get(e, EntryKey(k)) = p.ents[k]
    <3> HIDE DEF index, term, x, n, ops, D, o, K, N, q
    <3> QED BY <1>1, OpenedIs
  <2>2. Get(e, EntryKey(index)) = p.ents[index]
    BY <1>3, <2>1, <2>0
  <2>3. p.ents[index] \in Entries
    BY <1>1, <1>3, <2>1 DEF Sound
  <2>4. p.ents[index].term \in Nat
    BY <2>3 DEF Entries
  <2> QED BY <1>3, <2>1, <2>2, <2>4
<1>5. p.c[1] = index /\ p.c[2] = term
  <2>1. /\ CommitOf(p) \in Nat /\ (CommitOf(p) # p.m[1] => CommitOf(p) = p.c[1])
    BY <1>1, CommitOfNat
  <2>2. p.m[1] = l.first - 1
    BY <1>3
  <2>3. p.c[1] = index
    BY <1>2, <1>3, <2>1, <2>2
  <2> QED BY <1>1, <1>4, <2>3 DEF Sound
<1> HIDE DEF index, term, x, p
<1>6. /\ ops # <<>> /\ OpsOk(ops) /\ Writes(ops) = D + 2 /\ Flushes(ops)
      /\ D \in Nat /\ D > 0
      /\ ops[1] = Put(SnapshotData, index)
      /\ DropsFrom(ops, 1, D, o)
      /\ ops[D + 2] = Put(SnapshotMeta, <<index, term>>)
  <2>1. l.first \in Nat /\ index \in Nat /\ l.first <= index
    BY <1>2
  <2> QED BY <2>1, CompactOpsFacts
<1> DEFINE c == n - index
           t == SubSeq(l.ents, D + 1, Len(l.ents))
<1>7. /\ t \in Seq(Entries) /\ Len(t) = c /\ c \in Nat
      /\ \A k \in 1 .. c : t[k] = l.ents[D + k]
  <2>1. /\ index \in Nat /\ l.first \in Nat /\ l.first > 0 /\ l.first <= index /\ index <= n
        /\ n = l.first + Len(l.ents) - 1 /\ Len(l.ents) \in Nat /\ n \in Nat
    BY <1>2
  <2>2. D \in 0 .. Len(l.ents) /\ Len(l.ents) - D = c /\ c \in Nat
    <3> DEFINE a == l.first
               b == Len(l.ents)
    <3> HIDE DEF a, b, n
    <3>1. index \in Nat /\ a \in Nat /\ a > 0 /\ a <= index /\ index <= n /\ n = a + b - 1
          /\ b \in Nat /\ n \in Nat /\ D = index + 1 - a
      BY <2>1 DEF a, b
    <3> QED BY <3>1 DEF a, b
  <2> HIDE DEF D, c
  <2> QED BY <1>2, <2>2, TailFacts DEF t
<1> HIDE DEF t
<1>8. /\ x \in LogValues /\ x.commit = index /\ x.synced = index
      /\ x.term = l.term /\ x.vote = l.vote /\ x.first = index + 1
      /\ x.snapTerm = term /\ x.snap = index /\ x.ents = t
  <2>1. ~(index < l.first) /\ index + 2 - l.first = D + 1 /\ index + 1 \in Nat \ {0}
    BY <1>2
  <2> DEFINE y == [l EXCEPT !.snap = index]
  <2>2. /\ y \in LogValues /\ y.commit = index /\ y.term = l.term /\ y.vote = l.vote
        /\ y.first = l.first /\ y.snap = index /\ y.ents = l.ents
    BY <1>2 DEF LogValues, index
  <2>3. x = CompactTo(y, index, term)
    BY DEF x
  <2> HIDE DEF y
  <2> DEFINE z == [y EXCEPT !.ents = t, !.first = index + 1, !.snapTerm = term]
  <2>4. x = Flushed(z)
    BY <2>1, <2>2, <2>3 DEF CompactTo, t
  <2>5. /\ z \in LogValues /\ z.commit = index /\ z.term = l.term /\ z.vote = l.vote
        /\ z.first = index + 1 /\ z.snap = index /\ z.ents = t /\ z.snapTerm = term
    BY <1>4, <1>7, <2>1, <2>2 DEF LogValues
  <2> HIDE DEF z
  <2> QED BY <1>2, <2>4, <2>5 DEF Flushed, LogValues
<1>9. LastIndex(x) = n
  <2>1. LastIndex(x) = (index + 1) + c - 1
    BY <1>7, <1>8 DEF LastIndex
  <2>2. index \in Nat /\ n \in Nat
    BY <1>2
  <2> HIDE DEF n
  <2> QED BY <2>1, <2>2
<1>10. \A k \in index + 1 .. n : EntryAt(x, k) = EntryAt(l, k)
  <2> TAKE k \in index + 1 .. n
  <2>1. k + 1 - (index + 1) \in 1 .. c /\ D + (k + 1 - (index + 1)) = k + 1 - l.first
    BY <1>2
  <2>2. EntryAt(x, k) = t[k + 1 - (index + 1)]
    BY <1>8 DEF EntryAt
  <2>3. t[k + 1 - (index + 1)] = l.ents[D + (k + 1 - (index + 1))]
    BY <1>7, <2>1
  <2> QED BY <2>1, <2>2, <2>3 DEF EntryAt
<1>11. LastTerm(x) = LastTerm(l)
  <2>1. CASE index < n
    <3>1. l.first <= n /\ index + 1 <= n /\ n <= n /\ n \in index + 1 .. n
      BY <1>2, <2>1
    <3> QED BY <1>8, <1>9, <1>10, <3>1 DEF LastTerm, TermAt, Stored, n
  <2>2. CASE ~(index < n)
    <3>1. index = n /\ ~(index + 1 <= n) /\ n = (index + 1) - 1
      BY <1>2, <2>2
    <3> QED BY <1>2, <1>4, <1>8, <1>9, <3>1 DEF LastTerm, TermAt, Stored, n
  <2> QED BY <2>1, <2>2
<1>12. CommitTerm(x) = CommitTerm(l)
  <2>1. ~(index + 1 <= index) /\ index = (index + 1) - 1
    BY <1>2
  <2>2. CommitTerm(x) = term
    BY <1>8, <2>1 DEF CommitTerm, TermAt, Stored
  <2>3. CommitTerm(l) = term
    BY <1>2, <1>4 DEF CommitTerm, TermAt, Stored, index, n
  <2> QED BY <2>2, <2>3
<1>13. Proper(x)
  <2>1. index \in (index + 1) - 1 .. n /\ index <= index
    BY <1>2
  <2> QED BY <1>2, <1>8, <1>9, <2>1 DEF Proper
<1> HIDE DEF ops
<1>14. /\ At(e.file, ops, N + 0) = p
       /\ At(e.file, ops, N + 1) = WithData(p, index)
       /\ \A j \in 0 .. D :
            At(e.file, ops, N + (1 + j)) =
              WithEntries(WithData(p, index), Removed(p.ents, K(j)))
  <2>1. 1 + D <= Writes(ops)
    BY <1>6
  <2> HIDE DEF o, D
  <2>2. StagesOfDeletion(e, ops, index, D, o)
    BY <1>6, <2>1, DeletionStages
  <2> QED BY <2>2 DEF StagesOfDeletion, p
<1>15. At(e.file, ops, N + (D + 2)) = q
  <2>1. D + 2 \in 1 .. Writes(ops) /\ (D + 2) - 1 = 1 + D /\ D \in 0 .. D
    BY <1>6
  <2> DEFINE k == D + 2
             v == <<index, term>>
  <2>3. k \in 1 .. Writes(ops) /\ ops[k] = Put(SnapshotMeta, v)
    BY <1>6, <2>1
  <2> HIDE DEF k, v
  <2>4. At(e.file, ops, N + k) = WithMeta(At(e.file, ops, N + (k - 1)), v)
    BY <1>6, <2>3, StageStep
  <2>2. At(e.file, ops, N + (D + 2)) =
          WithMeta(At(e.file, ops, N + ((D + 2) - 1)), <<index, term>>)
    BY <2>4 DEF k, v
  <2> QED BY <1>14, <2>1, <2>2
<1>16. ~Grows(l, x)
  BY <1>2, <1>8 DEF Grows
<1>17. StageOk(p, l, x) /\ StageOk(WithData(p, index), l, x)
  <2>1. StageOk(p, l, x)
    BY <1>1, FirstBetween DEF StageOk
  <2>2. KeepsAll(WithData(p, index), l, x)
    BY <1>1, <1>2, DataStage
  <2> QED BY <1>16, <2>1, <2>2 DEF KeepsAll, StageOk, Between, OnlyAdded
<1>18. ASSUME NEW j \in 1 .. D
       PROVE  StageOk(WithEntries(WithData(p, index), Removed(p.ents, K(j))), l, x)
  <2>1. 1 \in DOMAIN p.ents => 1 \in K(j)
    <3>1. 1 \in DOMAIN p.ents => l.first = 1
      BY <1>2, <1>3
    <3>2. 1 \in 1 .. j /\ 1 \in 1 .. D /\ o[1] = l.first + 1 - 1 /\ l.first + 1 - 1 = l.first
      BY <1>2, <1>6
    <3> QED BY <3>1, <3>2
  <2>2. l.commit <= index
    BY <1>2 DEF index
  <2> DEFINE k == K(j)
  <2> HIDE DEF k
  <2>3. KeepsAll(WithEntries(WithData(p, index), Removed(p.ents, k)), l, x)
    BY <1>1, <1>2, <2>1, <2>2, DeletedStage DEF k
  <2> QED BY <1>16, <2>3 DEF KeepsAll, StageOk, Between, OnlyAdded, k
<1>19. \A k \in l.first .. n : k \in K(D) <=> k <= index
  <2> TAKE k \in l.first .. n
  <2>1. k <= index => k + 1 - l.first \in 1 .. D /\ o[k + 1 - l.first] = k
    BY <1>2
  <2>2. \A i \in 1 .. D : o[i] <= index
    BY <1>2
  <2> QED BY <2>1, <2>2
<1>20. /\ q.tv = p.tv /\ q.c = p.c /\ q.m = <<index, term>> /\ q.d = index /\ q.live = TRUE
       /\ q.ents = Removed(p.ents, K(D))
  BY DEF WithData, WithEntries, WithMeta, Picture
<1>21. /\ DOMAIN q.ents = index + 1 .. n
       /\ \A k \in index + 1 .. n : q.ents[k] = EntryAt(x, k) /\ q.ents[k] \in Entries
  <2> DEFINE z == Removed(p.ents, K(D))
  <2>1. DOMAIN z = DOMAIN p.ents \ K(D) /\ \A k \in DOMAIN z : z[k] = p.ents[k]
    BY DEF Removed
  <2> HIDE DEF K, q, z
  <2>2. DOMAIN z = index + 1 .. n
    BY <1>2, <1>3, <1>19, <2>1
  <2>4. \A k \in DOMAIN p.ents : p.ents[k] \in Entries
    BY <1>1 DEF Sound
  <2>5. \A k \in index + 1 .. n : k \in l.first .. n
    BY <1>2
  <2>3. \A k \in index + 1 .. n : k \in l.first .. n /\ p.ents[k] \in Entries
    BY <1>3, <2>4, <2>5
  <2> QED BY <1>3, <1>10, <1>20, <2>1, <2>2, <2>3 DEF z
<1> HIDE DEF q, K, o
<1>22. CommitOf(q) = index
  BY <1>2, <1>5, <1>20 DEF CommitOf
<1>23. Sound(q)
  <2>1. q.m[1] = index /\ q.m[2] = term /\ q.m \in Nat \X Nat /\ index <= MaxIndex /\ index # 0
    BY <1>2, <1>4, <1>20
  <2>2. DOMAIN q.ents \subseteq 1 .. MaxIndex
    BY <1>2, <1>21
  <2>3. q.c[1] \notin DOMAIN q.ents
    BY <1>2, <1>5, <1>20, <1>21
  <2>4. q.tv \in Nat \X (Voter \cup {Nil}) /\ q.c \in Nat \X Nat
    BY <1>1, <1>20 DEF Sound
  <2> QED BY <1>2, <1>5, <1>20, <1>21, <2>1, <2>2, <2>3, <2>4 DEF Sound
<1>24. Stores(q, x)
  <2>1. (index + 1) - 1 = index
    BY <1>2
  <2> QED BY <1>3, <1>8, <1>9, <1>20, <1>21, <1>22, <2>1 DEF Stores, Holds
<1>25. StageOk(q, l, x)
  <2>1. VoteKept(q, l, x)
    BY <1>3, <1>20 DEF VoteKept
  <2>2. q.m[1] > 0 /\ q.d >= l.commit
    BY <1>2, <1>20 DEF index
  <2>3. CommittedKept(q, l)
    BY <1>20, <2>2 DEF CommittedKept
  <2> QED BY <1>2, <1>16, <1>22, <1>23, <2>1, <2>3 DEF StageOk, Between, OnlyAdded
<1>26. Staged(e, ops, l, x)
  <2> SUFFICES ASSUME NEW k \in 0 .. D + 2
               PROVE  StageOk(At(e.file, ops, N + k), l, x)
    BY <1>6 DEF Staged
  <2>1. k = 0 \/ k = 1 \/ k = D + 2 \/ (k - 1 \in 1 .. D /\ 1 + (k - 1) = k /\ k - 1 \in 0 .. D)
    BY <1>6
  <2> HIDE DEF D, N
  <2>2. CASE k = 0
    BY <1>14, <1>17, <2>2
  <2>3. CASE k = 1
    BY <1>14, <1>17, <2>3
  <2>4. CASE k = D + 2
    BY <1>15, <1>25, <2>4
  <2>5. CASE k - 1 \in 1 .. D /\ 1 + (k - 1) = k /\ k - 1 \in 0 .. D
    <3>1. At(e.file, ops, N + (1 + (k - 1))) =
            WithEntries(WithData(p, index), Removed(p.ents, K(k - 1)))
      BY <1>14, <2>5
    <3>2. StageOk(At(e.file, ops, N + (1 + (k - 1))), l, x)
      BY <1>18, <2>5, <3>1
    <3> QED BY <2>5, <3>2
  <2> QED BY <2>1, <2>2, <2>3, <2>4, <2>5
<1>27. Stores(At(e.file, ops, N + Writes(ops)), x)
  BY <1>6, <1>15, <1>24
<1>28. StoreOk(e, ops, f, l, [fields |-> CacheOf(x), log |-> x], u)
  BY <1>6, <1>13, <1>26, <1>27, StagedCallOk
<1>29. [f EXCEPT !.first = index + 1, !.snapTerm = term] = CacheOf(x)
  <2> DEFINE i == index + 1
             g == [f EXCEPT !.first = i, !.snapTerm = term]
  <2>1. IsCache(f)
    BY <1>1, CacheFields
  <2> HIDE DEF i
  <2>2. /\ IsCache(g) /\ g.term = f.term /\ g.vote = f.vote /\ g.first = i
        /\ g.snapTerm = term /\ g.last = f.last /\ g.lastTerm = f.lastTerm
        /\ g.commit = f.commit /\ g.commitTerm = f.commitTerm
    BY <2>1 DEF IsCache, FieldNames
  <2> HIDE DEF g
  <2>3. f.last = n
    BY <1>1, CacheFields DEF n
  <2>4. g = CacheOf(x)
    BY <1>1, <1>8, <1>9, <1>11, <1>12, <2>2, <2>3, CacheFields, SameCache DEF i
  <2> QED BY <2>4 DEF g, i
<1> QED BY <1>1, <1>28, <1>29 DEF x, index, term, ops

\* The calls of reset_with_snapshot: v is the snapshot's index and term.
Resetting(ops, found, index, v) ==
  LET D == Cardinality(found)
      o == InOrder(found)
  IN /\ ops # <<>> /\ OpsOk(ops) /\ Writes(ops) = D + 3 /\ Flushes(ops)
     /\ D \in Nat /\ Enumerates(o, D, found)
     /\ ops[1] = Put(SnapshotData, index)
     /\ DropsFrom(ops, 1, D, o)
     /\ ops[D + 2] = Put(SnapshotMeta, v)
     /\ ops[D + 3] = Put(CommitIndex, v)

\* Those calls are what ResetOps lists.
LEMMA ResetOpsFacts ==
  ASSUME NEW M \in Nat, NEW found \in SUBSET (1 .. M), NEW index \in Nat, NEW term
  PROVE  Resetting(ResetOps(found, index, term), found, index, <<index, term>>)
<1> DEFINE D == Cardinality(found)
           o == InOrder(found)
           h == Put(SnapshotData, index)
           b == [k \in 1 .. D |-> Drop(EntryKey(o[k]))]
           g == Put(SnapshotMeta, <<index, term>>)
           c == Put(CommitIndex, <<index, term>>)
           t == <<g, c, Sync>>
           ops == ResetOps(found, index, term)
<1>1. D \in Nat /\ Enumerates(o, D, found)
  BY InOrderIs
<1>2. WriteOp(h) /\ WriteOp(g) /\ WriteOp(c)
  BY PutWrites
<1>3. ops = <<h>> \o b \o t
  BY DEF ResetOps
<1> HIDE DEF ops, h, g, c, D, o
<1>4. EndsWith(t, 2)
  <2>1. t \in Seq({g, c, Sync}) /\ Len(t) = 2 + 1 /\ t[2 + 1] = Sync /\ t[1] = g /\ t[2] = c
    OBVIOUS
  <2> HIDE DEF t
  <2>2. \A k \in 1 .. 2 : WriteOp(t[k])
    <3>1. \A k \in 1 .. 2 : k = 1 \/ k = 2
      OBVIOUS
    <3> QED BY <1>2, <2>1, <3>1
  <2> QED BY <2>1, <2>2 DEF EndsWith
<1>5. t[1] = g /\ t[2] = c
  OBVIOUS
<1> HIDE DEF t
<1>6. \A k \in 1 .. D : o[k] \in Nat
  <2> TAKE k \in 1 .. D
  <2>1. o[k] \in found
    BY <1>1 DEF Enumerates
  <2>2. o[k] \in 1 .. M
    BY <2>1
  <2> QED BY <2>2
<1>7. /\ b = [k \in 1 .. D |-> b[k]]
      /\ \A k \in 1 .. D : b[k] = Drop(EntryKey(o[k])) /\ WriteOp(b[k])
  BY <1>6, PutWrites
<1> HIDE DEF b
<1>8. Surrounded(ops, h, b, D, t, 2)
  <2>1. RunOf(b, D)
    BY <1>7 DEF RunOf
  <2> QED BY <1>1, <1>2, <1>3, <1>4, <2>1, SurroundedRun
<1>9. /\ ops # <<>> /\ OpsOk(ops) /\ Writes(ops) = 1 + D + 2 /\ Flushes(ops)
      /\ ops[1] = h /\ \A k \in 1 .. D : ops[1 + k] = b[k]
      /\ ops[1 + D + 1] = g /\ ops[1 + D + 2] = c
  BY <1>5, <1>8 DEF Surrounded
<1>10. DropsFrom(ops, 1, D, o)
  BY <1>6, <1>7, <1>9 DEF DropsFrom
<1>11. 1 + D + 1 = D + 2 /\ 1 + D + 2 = D + 3
  BY <1>1
<1>12. /\ ops[D + 2] = g /\ ops[D + 3] = c /\ Writes(ops) = D + 3
  BY <1>9, <1>11
<1> QED BY <1>1, <1>9, <1>10, <1>12 DEF ops, D, h, g, c, o, Resetting

\* A log without entries that a method leaves as it is.
LEMMA NoneAdded ==
  ASSUME NEW l, Proper(l), NEW x, Grows(l, x), LastIndex(l) < l.first, NEW q,
         q.tv = <<l.term, l.vote>>, q.m = <<l.first - 1, l.snapTerm>>, q.d \in Nat,
         CommitOf(q) = l.commit, DOMAIN q.ents = {}
  PROVE  OnlyAdded(q, l, x)
<1> DEFINE d == q.d
           y == [l EXCEPT !.snap = d]
<1>1. /\ l \in LogValues /\ LastIndex(l) = l.first + Len(l.ents) - 1 /\ l.first \in Nat
      /\ LastIndex(l) \in Nat /\ Len(l.ents) \in Nat
  BY LogFacts DEF Proper
<1>2. d \in Nat
  OBVIOUS
<1> HIDE DEF d
<1>3. /\ y \in LogValues /\ y.commit = l.commit /\ y.synced = l.synced
      /\ y.term = l.term /\ y.vote = l.vote /\ y.first = l.first
      /\ y.snapTerm = l.snapTerm /\ y.snap = d /\ y.ents = l.ents
  BY <1>1, <1>2 DEF LogValues
<1> HIDE DEF y
<1>4. LastIndex(y) = LastIndex(l)
  BY <1>3 DEF LastIndex
<1>5. Proper(y)
  BY <1>3, <1>4 DEF Proper
<1>6. \A k : k \notin l.first .. LastIndex(l)
  BY <1>1
<1>7. Stores(q, y)
  BY <1>3, <1>4, <1>6 DEF Stores, Holds, d
<1>8. Grows(l, y) /\ Grows(y, x)
  BY <1>1, <1>3 DEF Grows
<1> QED BY <1>3, <1>5, <1>7, <1>8 DEF OnlyAdded

\* The installation of a snapshot starts as it should.
LEMMA InstallCallOk ==
  ASSUME NEW e, Whole(e), NEW f, NEW l, NEW r, NEW u \in BOOLEAN,
         StoreOk(e, <<>>, f, l, r, u),
         NEW index \in Nat, 0 < index, index <= MaxIndex, index >= f.commit,
         NEW term \in Nat, index = f.commit => term = f.commitTerm
  PROVE  LET x == ResetWithSnapshot([l EXCEPT !.snap = index], index, term)
         IN StoreOk(e, ResetOps(Indexes(e), index, term), f, l,
                    [fields |-> [f EXCEPT !.first = index + 1, !.snapTerm = term,
                                          !.last = index, !.lastTerm = term,
                                          !.commit = index, !.commitTerm = term],
                     log |-> x], u)
<1> DEFINE x == ResetWithSnapshot([l EXCEPT !.snap = index], index, term)
           n == LastIndex(l)
           p == Pic(Sight(e))
           found == DOMAIN p.ents
           ops == ResetOps(found, index, term)
           D == Cardinality(found)
           o == InOrder(found)
           K(j) == {o[i] : i \in 1 .. j}
           N == Len(e.file)
           v == <<index, term>>
           a == WithEntries(WithData(p, index), Removed(p.ents, K(D)))
           b == WithMeta(a, v)
           q == WithCommit(b, v)
<1>1. /\ Proper(l) /\ f = CacheOf(l) /\ Sound(p) /\ Stores(p, l)
      /\ f.commit = l.commit /\ f.commitTerm = CommitTerm(l) /\ found = Indexes(e)
  BY IdleShows, OpenedIs DEF CacheOf
<1>2. /\ l \in LogValues /\ l.commit \in Nat /\ n \in Nat /\ l.first \in Nat /\ l.first > 0
      /\ l.commit \in l.first - 1 .. n /\ n <= MaxIndex /\ MaxIndex \in Nat
      /\ l.synced \in Nat /\ l.synced <= l.commit /\ l.commit <= index
  BY <1>1, LogFacts, StorageAssumption DEF Proper
<1>3. /\ found = l.first .. n /\ \A k \in l.first .. n : p.ents[k] = EntryAt(l, k)
      /\ p.m = <<l.first - 1, l.snapTerm>> /\ CommitOf(p) = l.commit
      /\ p.tv = <<l.term, l.vote>> /\ p.d = l.snap
  BY <1>1 DEF Stores, Holds
<1>4. found \in SUBSET (1 .. n)
  BY <1>2, <1>3
\* The commit index found is not above the new one, and at it has its term.
<1>5. /\ p.c[1] \in Nat /\ p.c[2] \in Nat /\ p.c[1] <= l.commit
      /\ p.c[1] = index => p.c[2] = term
      /\ ~(p.m[1] > 0) => p.c[1] = l.commit
  <2>1. /\ p.c[1] \in Nat /\ p.c[1] <= CommitOf(p) /\ p.m[1] \in Nat
        /\ (CommitOf(p) # p.m[1] => CommitOf(p) = p.c[1])
    BY <1>1, CommitOfNat
  <2>2. p.c[2] \in Nat
    BY <1>1 DEF Sound
  <2>3. ASSUME p.c[1] = index
        PROVE  p.c[2] = term
    <3>1. index = l.commit /\ term = CommitTerm(l)
      BY <1>1, <1>2, <1>3, <2>1, <2>3
    <3>2. CASE l.first <= l.commit
      <4>1. l.commit \in l.first .. n /\ l.commit <= n
        BY <1>2, <3>2
      <4>2. p.c[1] \in found /\ p.ents[p.c[1]] = EntryAt(l, l.commit)
        BY <1>3, <2>3, <3>1, <4>1
      <4>3. p.c[2] = p.ents[p.c[1]].term
        BY <1>1, <4>2 DEF Sound
      <4>4. CommitTerm(l) = EntryAt(l, l.commit).term
        BY <3>2, <4>1 DEF CommitTerm, TermAt, Stored, n
      <4> QED BY <3>1, <4>2, <4>3, <4>4
    <3>3. CASE ~(l.first <= l.commit)
      <4>1. l.commit = l.first - 1
        BY <1>2, <3>3
      <4>2. p.c[1] = p.m[1] /\ p.m[2] = l.snapTerm
        BY <1>3, <2>3, <3>1, <4>1
      <4>3. p.c[2] = p.m[2]
        BY <1>1, <4>2 DEF Sound
      <4>4. CommitTerm(l) = l.snapTerm
        BY <3>3, <4>1 DEF CommitTerm, TermAt, Stored
      <4> QED BY <3>1, <4>2, <4>3, <4>4
    <3> QED BY <3>2, <3>3
  <2>4. ~(p.m[1] > 0) => p.c[1] = l.commit
    BY <1>3, <2>1 DEF CommitOf
  <2> QED BY <1>3, <2>1, <2>2, <2>3, <2>4
<1> HIDE DEF x, p, found
<1>6. /\ ops # <<>> /\ OpsOk(ops) /\ Writes(ops) = D + 3 /\ Flushes(ops)
      /\ D \in Nat /\ Enumerates(o, D, found)
      /\ ops[1] = Put(SnapshotData, index)
      /\ DropsFrom(ops, 1, D, o)
      /\ ops[D + 2] = Put(SnapshotMeta, v)
      /\ ops[D + 3] = Put(CommitIndex, v)
  <2>1. Resetting(ops, found, index, v)
    BY <1>2, <1>4, ResetOpsFacts
  <2> QED BY <2>1 DEF Resetting
<1>7. /\ x \in LogValues /\ x.commit = index /\ x.synced = index
      /\ x.term = l.term /\ x.vote = l.vote /\ x.first = index + 1
      /\ x.snapTerm = term /\ x.snap = index /\ x.ents = <<>>
  <2> DEFINE y == [l EXCEPT !.snap = index]
             t == <<>>
             i == index + 1
             z == [y EXCEPT !.ents = t, !.first = i, !.snapTerm = term, !.commit = index]
  <2>1. y \in LogValues /\ y.term = l.term /\ y.vote = l.vote /\ y.snap = index
    BY <1>2 DEF LogValues
  <2>2. x = Flushed(z)
    BY DEF x, ResetWithSnapshot
  <2> HIDE DEF y
  <2>3. t \in Seq(Entries) /\ i \in Nat \ {0}
    OBVIOUS
  <2> HIDE DEF t, i
  <2>4. /\ z \in LogValues /\ z.commit = index /\ z.term = l.term /\ z.vote = l.vote
        /\ z.first = i /\ z.snap = index /\ z.ents = t /\ z.snapTerm = term
    BY <2>1, <2>3 DEF LogValues
  <2> HIDE DEF z
  <2> QED BY <2>2, <2>4 DEF Flushed, LogValues, t, i
<1>8. /\ LastIndex(x) = index /\ LastTerm(x) = term /\ CommitTerm(x) = term /\ Proper(x)
  <2>1. Len(x.ents) = 0
    BY <1>7
  <2>2. LastIndex(x) = index
    BY <1>7, <2>1 DEF LastIndex
  <2>3. ~(index + 1 <= index) /\ index = (index + 1) - 1 /\ index \in (index + 1) - 1 .. index
    OBVIOUS
  <2>4. LastTerm(x) = term /\ CommitTerm(x) = term
    BY <1>7, <2>2, <2>3 DEF LastTerm, CommitTerm, TermAt, Stored
  <2> QED BY <1>7, <2>2, <2>3, <2>4 DEF Proper
<1> HIDE DEF ops, D, o, v
<1>9. /\ At(e.file, ops, N + 0) = p
      /\ At(e.file, ops, N + 1) = WithData(p, index)
      /\ \A j \in 0 .. D :
           At(e.file, ops, N + (1 + j)) =
             WithEntries(WithData(p, index), Removed(p.ents, K(j)))
  <2>1. 1 + D <= Writes(ops)
    BY <1>6
  <2>2. StagesOfDeletion(e, ops, index, D, o)
    BY <1>6, <2>1, DeletionStages
  <2> QED BY <2>2 DEF StagesOfDeletion, p
<1> HIDE DEF a, b, q
<1>10. At(e.file, ops, N + (1 + D)) = a
  <2>1. D \in 0 .. D
    BY <1>6
  <2> QED BY <1>9, <2>1 DEF a
<1>11. At(e.file, ops, N + (D + 2)) = b
  <2> DEFINE k == D + 2
  <2>1. k \in 1 .. Writes(ops) /\ ops[k] = Put(SnapshotMeta, v) /\ k - 1 = 1 + D
    BY <1>6
  <2> HIDE DEF k
  <2>2. At(e.file, ops, N + k) = WithMeta(At(e.file, ops, N + (k - 1)), v)
    BY <1>6, <2>1, StageStep
  <2> QED BY <1>10, <2>1, <2>2 DEF k, b
<1>12. At(e.file, ops, N + (D + 3)) = q
  <2> DEFINE k == D + 3
  <2>1. k \in 1 .. Writes(ops) /\ ops[k] = Put(CommitIndex, v) /\ k - 1 = D + 2
    BY <1>6
  <2> HIDE DEF k
  <2>2. At(e.file, ops, N + k) = WithCommit(At(e.file, ops, N + (k - 1)), v)
    BY <1>6, <2>1, StageStep
  <2> QED BY <1>11, <2>1, <2>2 DEF k, q
\* Only a log that ends at index can grow: nothing is deleted.
<1>13. ASSUME Grows(l, x)
       PROVE  /\ found = {} /\ n < l.first /\ l.first - 1 = index /\ l.commit = index
              /\ term = l.snapTerm /\ D = 0
  <2>1. /\ l.first = index + 1 /\ Len(l.ents) = 0
    <3>1. Len(l.ents) \in Nat /\ Len(x.ents) = 0
      BY <1>2, <1>7, LogFacts
    <3> QED BY <1>7, <1>13, <3>1 DEF Grows
  <2>2. n = l.first - 1
    BY <1>2, <2>1, LogFacts DEF n
  <2>3. l.commit = index
    BY <1>2, <2>1
  <2>4. found = {}
    BY <1>2, <1>3, <2>2
  <2>5. CommitTerm(l) = l.snapTerm
    <3>1. ~(l.first <= l.commit) /\ l.commit = l.first - 1
      BY <2>1, <2>3
    <3> QED BY <3>1 DEF CommitTerm, TermAt, Stored
  <2>6. D = 0
    BY <2>4, FS_EmptySet DEF D
  <2> QED BY <1>1, <2>1, <2>2, <2>3, <2>4, <2>5, <2>6
<1>14. StageOk(p, l, x)
  BY <1>1, FirstBetween DEF StageOk
<1>15. StageOk(WithData(p, index), l, x)
  <2> DEFINE z == WithData(p, index)
  <2>1. KeepsAll(z, l, x) /\ CommitOf(z) = l.commit
    BY <1>1, <1>2, DataStage
  <2>2. z.tv = p.tv /\ z.m = p.m /\ z.d = index /\ z.ents = p.ents
    BY DEF WithData, Picture
  <2> HIDE DEF z
  <2>3. ASSUME Grows(l, x)
        PROVE  OnlyAdded(z, l, x)
    <3>1. n < l.first /\ DOMAIN z.ents = {}
      BY <1>13, <2>2, <2>3 DEF found
    <3>2. z.tv = <<l.term, l.vote>> /\ z.m = <<l.first - 1, l.snapTerm>> /\ z.d \in Nat
      BY <1>3, <2>2
    <3> QED BY <1>1, <2>1, <2>3, <3>1, <3>2, NoneAdded DEF n
  <2> QED BY <2>1, <2>3 DEF KeepsAll, StageOk, Between, OnlyAdded, z
<1>16. ASSUME NEW j \in 1 .. D
       PROVE  StageOk(WithEntries(WithData(p, index), Removed(p.ents, K(j))), l, x)
  <2>1. 1 \in DOMAIN p.ents => 1 \in K(j)
    <3>1. ASSUME 1 \in found
          PROVE  1 \in K(j)
      <4>1. PICK i \in 1 .. D : o[i] = 1
        BY <1>6, <3>1 DEF Enumerates
      <4>2. 1 \in 1 .. D /\ 1 \in 1 .. j /\ 1 <= i
        BY <1>6
      <4>3. o[1] \in found
        BY <1>6, <4>2 DEF Enumerates
      <4>4. o[1] \in 1 .. n
        BY <1>4, <4>3
      <4>5. i # 1 => o[1] < o[i]
        BY <1>6, <4>2 DEF Enumerates
      <4>6. o[1] = 1
        BY <1>2, <4>1, <4>4, <4>5
      <4> QED BY <4>2, <4>6
    <3> QED BY <3>1 DEF found
  <2>2. ~Grows(l, x)
    BY <1>13
  <2> DEFINE k == K(j)
  <2> HIDE DEF k
  <2>3. KeepsAll(WithEntries(WithData(p, index), Removed(p.ents, k)), l, x)
    BY <1>1, <1>2, <2>1, DeletedStage DEF k
  <2> QED BY <2>2, <2>3 DEF KeepsAll, StageOk, Between, OnlyAdded, k
<1>17. /\ a.tv = p.tv /\ a.c = p.c /\ a.m = p.m /\ a.d = index /\ a.live = TRUE
       /\ DOMAIN a.ents = {}
  <2>1. /\ a.tv = p.tv /\ a.c = p.c /\ a.m = p.m /\ a.d = index /\ a.live = TRUE
        /\ a.ents = Removed(p.ents, K(D))
    BY DEF a, WithData, WithEntries, Picture
  <2>2. DOMAIN a.ents = found \ K(D)
    BY <2>1 DEF Removed, found
  <2>3. \A i \in found : i \in K(D)
    BY <1>6 DEF Enumerates
  <2> QED BY <2>1, <2>2, <2>3
<1>18. /\ b.tv = p.tv /\ b.c = p.c /\ b.m = v /\ b.d = index /\ b.live = TRUE
       /\ DOMAIN b.ents = {}
  BY <1>17 DEF b, WithMeta, Picture
<1>19. /\ q.tv = p.tv /\ q.c = v /\ q.m = v /\ q.d = index /\ q.live = TRUE
       /\ DOMAIN q.ents = {}
  BY <1>18 DEF q, WithCommit, Picture
<1>20. v[1] = index /\ v[2] = term /\ v \in Nat \X Nat
  BY DEF v
<1> HIDE DEF K
<1>21. ASSUME NEW z, z \in {b, q}
       PROVE  Sound(z) /\ CommitOf(z) = index /\ StageOk(z, l, x)
  <2>1. /\ z.tv = p.tv /\ z.m = v /\ z.d = index /\ z.live = TRUE /\ DOMAIN z.ents = {}
        /\ z.c = p.c \/ z.c = v
    BY <1>18, <1>19, <1>21
  <2>2. z.c \in Nat \X Nat /\ z.c[1] <= index /\ (z.c[1] = index => z.c[2] = term)
    <3>1. p.c \in Nat \X Nat
      BY <1>1 DEF Sound
    <3> QED BY <1>2, <1>5, <1>20, <2>1, <3>1
  <2>3. Sound(z)
    <3>1. z.tv \in Nat \X (Voter \cup {Nil})
      BY <1>1, <2>1 DEF Sound
    <3> QED BY <1>20, <2>1, <2>2, <3>1 DEF Sound
  <2>4. CommitOf(z) = index
    BY <1>20, <2>1, <2>2 DEF CommitOf
  <2>5. VoteKept(z, l, x)
    BY <1>3, <2>1 DEF VoteKept
  <2>6. CommittedKept(z, l)
    BY <1>2, <1>20, <2>1 DEF CommittedKept
  <2>7. ASSUME Grows(l, x)
        PROVE  OnlyAdded(z, l, x)
    <3>1. n < l.first /\ l.commit = index /\ z.m = <<l.first - 1, l.snapTerm>>
      BY <1>13, <2>1, <2>7 DEF v
    <3>2. z.tv = <<l.term, l.vote>> /\ z.d \in Nat
      BY <1>3, <2>1
    <3> QED BY <1>1, <2>1, <2>4, <2>7, <3>1, <3>2, NoneAdded DEF n
  <2>8. l.synced <= CommitOf(z)
    BY <1>2, <2>4
  <2> QED BY <2>3, <2>4, <2>5, <2>6, <2>7, <2>8 DEF StageOk, Between, OnlyAdded
<1>22. Stores(q, x)
  <2>1. (index + 1) - 1 = index /\ \A k : k \notin index + 1 .. index
    OBVIOUS
  <2>2. DOMAIN q.ents = index + 1 .. index
    BY <1>19, <2>1
  <2> QED BY <1>3, <1>7, <1>8, <1>19, <1>21, <2>1, <2>2 DEF Stores, Holds, v
<1>23. Staged(e, ops, l, x)
  <2> SUFFICES ASSUME NEW k \in 0 .. D + 3
               PROVE  StageOk(At(e.file, ops, N + k), l, x)
    BY <1>6 DEF Staged
  <2>1. \/ k = 0 \/ k = 1 \/ k = D + 2 \/ k = D + 3
        \/ (k - 1 \in 1 .. D /\ 1 + (k - 1) = k /\ k - 1 \in 0 .. D)
    BY <1>6
  <2> HIDE DEF N
  <2>2. CASE k = 0
    BY <1>9, <1>14, <2>2
  <2>3. CASE k = 1
    BY <1>9, <1>15, <2>3
  <2>4. CASE k = D + 2
    BY <1>11, <1>21, <2>4
  <2>5. CASE k = D + 3
    BY <1>12, <1>21, <2>5
  <2>6. CASE k - 1 \in 1 .. D /\ 1 + (k - 1) = k /\ k - 1 \in 0 .. D
    <3>1. At(e.file, ops, N + (1 + (k - 1))) =
            WithEntries(WithData(p, index), Removed(p.ents, K(k - 1)))
      BY <1>9, <2>6
    <3>2. StageOk(At(e.file, ops, N + (1 + (k - 1))), l, x)
      BY <1>16, <2>6, <3>1
    <3> QED BY <2>6, <3>2
  <2> QED BY <2>1, <2>2, <2>3, <2>4, <2>5, <2>6
<1>24. Stores(At(e.file, ops, N + Writes(ops)), x)
  BY <1>6, <1>12, <1>22
<1>25. StoreOk(e, ops, f, l, [fields |-> CacheOf(x), log |-> x], u)
  BY <1>6, <1>8, <1>23, <1>24, StagedCallOk
<1>26. [f EXCEPT !.first = index + 1, !.snapTerm = term, !.last = index, !.lastTerm = term,
                 !.commit = index, !.commitTerm = term] = CacheOf(x)
  <2> DEFINE i == index + 1
             g == [f EXCEPT !.first = i, !.snapTerm = term, !.last = index, !.lastTerm = term,
                            !.commit = index, !.commitTerm = term]
  <2>1. IsCache(f)
    BY <1>1, CacheFields
  <2> HIDE DEF i
  <2>2. /\ IsCache(g) /\ g.term = f.term /\ g.vote = f.vote /\ g.first = i
        /\ g.snapTerm = term /\ g.last = index /\ g.lastTerm = term
        /\ g.commit = index /\ g.commitTerm = term
    BY <2>1 DEF IsCache, FieldNames
  <2> HIDE DEF g
  <2>3. g = CacheOf(x)
    BY <1>1, <1>7, <1>8, <2>2, CacheFields, SameCache DEF i
  <2> QED BY <2>3 DEF g, i
<1> QED BY <1>1, <1>25, <1>26 DEF x, ops

-----------------------------------------------------------------------------
(* The invariant holds.                                                    *)

\* Spending one bound leaves the others.
LEMMA SpendGrows ==
  ASSUME StoreInv, NEW what \in {"calls", "crashes", "reopens"}, NEW max, Spend(what, max)
  PROVE  /\ spent' \in [{"calls", "crashes", "reopens"} -> Nat]
         /\ what = "crashes" \/ spent'["crashes"] = spent["crashes"]
<1>1. spent \in [{"calls", "crashes", "reopens"} -> Nat]
  BY DEF StoreInv
<1>2. spent' = [spent EXCEPT ![what] = spent[what] + 1]
  BY DEF Spend
<1>3. spent[what] + 1 \in Nat
  BY <1>1
<1> QED BY <1>1, <1>2, <1>3

\* A new store is as it should be.
LEMMA InitStoreInv == Init => StoreInv
<1> SUFFICES ASSUME Init
             PROVE  StoreInv
  OBVIOUS
<1> DEFINE x == EmptyLog(0)
<1>1. /\ engine = NewEngine /\ fields = LogNew(engine) /\ pending = <<>> /\ log = x
      /\ unsettled \in BOOLEAN /\ spent \in [{"calls", "crashes", "reopens"} -> Nat]
  BY DEF Init
<1>2. Whole(engine) /\ Pic(Sight(engine)) = Blank
  BY <1>1, NewEngineWhole, PicBlank
<1>3. /\ x.term = 0 /\ x.vote = Nil /\ x.first = 1 /\ x.snapTerm = 0 /\ x.snap = 0
      /\ x.ents = <<>> /\ x.commit = 0 /\ x.synced = 0 /\ x \in LogValues
  BY DEF EmptyLog, LogValues
<1>4. LastIndex(x) = 0 /\ MaxIndex \in Nat
  BY <1>3, StorageAssumption DEF LastIndex
<1> HIDE DEF x
<1>5. Proper(x)
  BY <1>3, <1>4 DEF Proper
<1>6. /\ Blank.tv = <<0, Nil>> /\ Blank.c = <<0, 0>> /\ Blank.m = <<0, 0>>
      /\ Blank.d = 0 /\ Blank.live = FALSE /\ Blank.ents = [i \in {} |-> 0]
  BY DEF Blank, Picture
<1>7. Sound(Blank)
  BY <1>4, <1>6 DEF Sound
<1>8. Stores(Blank, x)
  BY <1>3, <1>4, <1>6 DEF Stores, Holds, CommitOf
<1>9. engine.synced = Len(engine.file)
  BY <1>1 DEF NewEngine
<1>10. StoreOk(engine, <<>>, CacheOf(x), x, result, unsettled) /\ LogNew(engine) = CacheOf(x)
  BY <1>2, <1>5, <1>7, <1>8, <1>9, OnePoint
<1> QED BY <1>1, <1>2, <1>10 DEF StoreInv

\* A method called between two others starts as its lemma says.
LEMMA CallKeeps ==
  ASSUME StoreInv, NEW ops, NEW f, NEW l, Call(ops, f, l),
         StoreOk(engine, ops, fields, log, [fields |-> f, log |-> l], unsettled)
  PROVE  StoreInv' /\ spent'["crashes"] = spent["crashes"]
<1>1. /\ log # Nil /\ pending' = ops /\ result' = [fields |-> f, log |-> l]
      /\ UNCHANGED <<engine, fields, log, unsettled>> /\ Spend("calls", MaxCalls)
  BY DEF Call
<1>2. /\ spent' \in [{"calls", "crashes", "reopens"} -> Nat]
      /\ spent'["crashes"] = spent["crashes"]
  BY <1>1, SpendGrows
<1> QED BY <1>1, <1>2 DEF StoreInv

\* What the invariant says between two methods.
LEMMA BetweenMethods ==
  ASSUME StoreInv, Idle, log # Nil
  PROVE  /\ StoreOk(engine, <<>>, fields, log, result, unsettled)
         /\ Whole(engine) /\ unsettled \in BOOLEAN
         /\ Proper(log) /\ fields = CacheOf(log)
BY DEF StoreInv, Idle, StoreOk

\* set_term_vote keeps the invariant.
LEMMA SetTermVoteKeeps ==
  ASSUME StoreInv, NEW t \in 1 .. MaxTerm, NEW v \in Voter \cup {Nil}, CallSetTermVote(t, v)
  PROVE  StoreInv' /\ spent'["crashes"] = spent["crashes"]
<1> DEFINE f == [fields EXCEPT !.term = t, !.vote = v]
           l == SetTermVote(log, t, v)
<1>1. Idle /\ log # Nil /\ Call(TermVoteOps(t, v), f, l)
      /\ (t > log.term \/ (log.vote = Nil /\ v # Nil))
  BY DEF CallSetTermVote, Call
<1>2. /\ StoreOk(engine, <<>>, fields, log, result, unsettled)
      /\ Whole(engine) /\ unsettled \in BOOLEAN /\ log.term \in Nat
  BY <1>1, BetweenMethods, LogFacts DEF Proper
<1>3. t \in Nat /\ (t # log.term \/ v # log.vote)
  BY <1>1, <1>2, StorageAssumption
<1>4. StoreOk(engine, TermVoteOps(t, v), fields, log, [fields |-> f, log |-> l], unsettled)
  BY <1>2, <1>3, SetTermVoteOk
<1> QED BY <1>1, <1>4, CallKeeps

\* append_entry keeps it.
LEMMA AppendEntryKeeps ==
  ASSUME StoreInv, CallAppendEntry
  PROVE  StoreInv' /\ spent'["crashes"] = spent["crashes"]
<1> DEFINE ops == <<Put(EntryKey(fields.last + 1), Entry(Nil, Nil, fields.term)), Sync>>
           f == [fields EXCEPT !.last = @ + 1, !.lastTerm = fields.term]
           l == AppendEntry(log, Nil, Nil)
<1>1. Idle /\ log # Nil /\ Call(ops, f, l) /\ fields.last < MaxIndex
  BY DEF CallAppendEntry, Call
<1>2. /\ StoreOk(engine, <<>>, fields, log, result, unsettled)
      /\ Whole(engine) /\ unsettled \in BOOLEAN
  BY <1>1, BetweenMethods
<1>3. StoreOk(engine, ops, fields, log, [fields |-> f, log |-> l], unsettled)
  BY <1>1, <1>2, AppendEntryOk
<1> QED BY <1>1, <1>3, CallKeeps

\* commit keeps it.
LEMMA CommitKeeps ==
  ASSUME StoreInv, NEW index \in 1 .. MaxIndex, CallCommit(index)
  PROVE  StoreInv' /\ spent'["crashes"] = spent["crashes"]
<1> DEFINE term == Get(engine, EntryKey(index)).term
           ops == <<Put(CommitIndex, <<index, term>>)>>
           f == [fields EXCEPT !.commit = index, !.commitTerm = term]
           l == Commit(log, index)
<1>1. Idle /\ log # Nil /\ Call(ops, f, l) /\ CommitOk(log, index) /\ index > fields.commit
  BY DEF CallCommit, Call
<1>2. /\ StoreOk(engine, <<>>, fields, log, result, unsettled)
      /\ Whole(engine) /\ unsettled \in BOOLEAN /\ index \in Nat
  BY <1>1, BetweenMethods, StorageAssumption
<1>3. StoreOk(engine, ops, fields, log, [fields |-> f, log |-> l], unsettled)
  BY <1>1, <1>2, CommitCallOk
<1> QED BY <1>1, <1>3, CallKeeps

\* splice keeps it.
LEMMA SpliceKeeps ==
  ASSUME StoreInv, NEW base \in 0 .. MaxIndex, NEW n \in 1 .. MaxIndex - base,
         NEW terms \in [1 .. n -> 1 .. MaxTerm], CallSplice(base, terms)
  PROVE  StoreInv' /\ spent'["crashes"] = spent["crashes"]
<1> DEFINE ents == [k \in 1 .. Len(terms) |-> Entry(Nil, Nil, terms[k])]
           skip == Max({m \in 0 .. Len(ents) :
                          \A k \in 1 .. m : Agrees(log, base, ents, k)})
           last == terms[Len(terms)]
           f == [fields EXCEPT !.last = base + Len(ents), !.lastTerm = last]
           l == Splice(log, base, ents)
<1>1. /\ log # Nil /\ SpliceOk(log, base, ents) /\ skip < Len(ents)
      /\ Call(SpliceOps(base, ents, skip, fields.last), f, l)
  BY DEF CallSplice
<1>2. /\ Idle /\ StoreOk(engine, <<>>, fields, log, result, unsettled)
      /\ Whole(engine) /\ unsettled \in BOOLEAN
  BY <1>1, BetweenMethods DEF Call
<1>3. /\ n \in Nat /\ base \in Nat /\ base + n <= MaxIndex /\ n > 0
      /\ MaxTerm \in Nat
  BY StorageAssumption
<1>4. Len(terms) = n /\ n \in 1 .. n
  BY <1>3
<1>5. /\ ents = [k \in 1 .. n |-> Entry(Nil, Nil, terms[k])]
      /\ \A k \in 1 .. n : Entry(Nil, Nil, terms[k]) \in Entries
  BY <1>3, <1>4 DEF Entries, Entry
<1>6. /\ ents \in Seq(Entries) /\ Len(ents) = n /\ ents # <<>>
      /\ ents[Len(ents)].term = last
  <2>1. ents \in [1 .. n -> Entries]
    BY <1>5
  <2>2. ents[n] = Entry(Nil, Nil, terms[n])
    BY <1>4, <1>5
  <2>3. ents[n].term = terms[n]
    BY <2>2 DEF Entry
  <2> HIDE DEF ents
  <2>4. ents \in Seq(Entries) /\ Len(ents) = n
    BY <1>3, <2>1
  <2> QED BY <1>3, <1>4, <2>3, <2>4
<1>7. skip = Skipped(log, base, ents)
  BY DEF Skipped
<1> HIDE DEF ents, skip, last
<1>8. StoreOk(engine, SpliceOps(base, ents, Skipped(log, base, ents), fields.last), fields, log,
              [fields |-> [fields EXCEPT !.last = base + Len(ents),
                                         !.lastTerm = ents[Len(ents)].term],
               log |-> l], unsettled)
  BY <1>1, <1>2, <1>3, <1>6, <1>7, SpliceCallOk
<1>9. StoreOk(engine, SpliceOps(base, ents, skip, fields.last), fields, log,
              [fields |-> f, log |-> l], unsettled)
  BY <1>6, <1>7, <1>8
<1> QED BY <1>1, <1>9, CallKeeps

\* maybe_snapshot keeps it.
LEMMA SnapshotKeeps ==
  ASSUME StoreInv, CallSnapshot
  PROVE  StoreInv' /\ spent'["crashes"] = spent["crashes"]
<1> DEFINE index == fields.commit
           term == Get(engine, EntryKey(index)).term
           ops == CompactOps(fields.first, index, term)
           f == [fields EXCEPT !.first = index + 1, !.snapTerm = term]
           l == CompactTo([log EXCEPT !.snap = index], index, term)
<1>1. log # Nil /\ Call(ops, f, l) /\ fields.commit >= fields.first
  BY DEF CallSnapshot
<1>2. /\ Idle /\ StoreOk(engine, <<>>, fields, log, result, unsettled)
      /\ Whole(engine) /\ unsettled \in BOOLEAN
  BY <1>1, BetweenMethods DEF Call
<1>3. StoreOk(engine, ops, fields, log, [fields |-> f, log |-> l], unsettled)
  BY <1>1, <1>2, SnapshotCallOk
<1> QED BY <1>1, <1>3, CallKeeps

\* The installation of a snapshot keeps it.
LEMMA InstallKeeps ==
  ASSUME StoreInv, NEW index \in 1 .. MaxIndex, NEW term \in 1 .. MaxTerm,
         CallInstall(index, term)
  PROVE  StoreInv' /\ spent'["crashes"] = spent["crashes"]
<1> DEFINE ops == ResetOps(Indexes(engine), index, term)
           f == [fields EXCEPT !.first = index + 1, !.snapTerm = term,
                               !.last = index, !.lastTerm = term,
                               !.commit = index, !.commitTerm = term]
           l == ResetWithSnapshot([log EXCEPT !.snap = index], index, term)
<1>1. /\ log # Nil /\ Call(ops, f, l) /\ index >= fields.commit
      /\ index = fields.commit => term = fields.commitTerm
  BY DEF CallInstall
<1>2. /\ Idle /\ StoreOk(engine, <<>>, fields, log, result, unsettled)
      /\ Whole(engine) /\ unsettled \in BOOLEAN
  BY <1>1, BetweenMethods DEF Call
<1>3. index \in Nat /\ 0 < index /\ index <= MaxIndex /\ term \in Nat
  BY StorageAssumption
<1>4. StoreOk(engine, ops, fields, log, [fields |-> f, log |-> l], unsettled)
  BY <1>1, <1>2, <1>3, InstallCallOk
<1> QED BY <1>1, <1>4, CallKeeps

\* Every engine call of a method keeps it.
LEMMA EngineCallKeeps ==
  ASSUME StoreInv, EngineCall
  PROVE  StoreInv' /\ spent' = spent
<1> DEFINE d == Perform(engine, Head(pending))
           t == Tail(pending)
           v == unsettled /\ Head(pending) # Sync
<1>1. /\ pending # <<>> /\ engine' = d /\ pending' = t /\ unsettled' = v /\ spent' = spent
      /\ Len(pending) = 1 => fields' = result.fields /\ log' = result.log /\ result' = Nil
      /\ Len(pending) # 1 => fields' = fields /\ log' = log /\ result' = result
  BY DEF EngineCall, Idle
<1>2. /\ Whole(engine) /\ log # Nil /\ unsettled \in BOOLEAN
      /\ StoreOk(engine, pending, fields, log, result, unsettled)
      /\ spent \in [{"calls", "crashes", "reopens"} -> Nat]
  BY <1>1 DEF StoreInv
<1>3. /\ Whole(d)
      /\ Len(pending) = 1 => t = <<>> /\ StoreOk(d, t, result.fields, result.log, Nil, v)
      /\ Len(pending) # 1 => t # <<>> /\ StoreOk(d, t, fields, log, result, v)
  BY <1>1, <1>2, EngineCallOk
<1>4. v \in BOOLEAN
  BY <1>2
<1> HIDE DEF d, t, v
<1>5. CASE Len(pending) = 1
  BY <1>1, <1>2, <1>3, <1>4, <1>5 DEF StoreInv
<1>6. CASE Len(pending) # 1
  BY <1>1, <1>2, <1>3, <1>4, <1>6 DEF StoreInv
<1> QED BY <1>1, <1>5, <1>6

\* A crash keeps it.
LEMMA CrashKeeps ==
  ASSUME StoreInv, NEW n, NEW torn \in BOOLEAN, Crash(n, torn)
  PROVE  StoreInv'
<1> DEFINE o == Open(engine, Remains(engine, n, torn))
           x == IF engine.renamed /\ n < Len(engine.file) THEN Nil
                ELSE AsLog(o, LogNew(o), log.synced)
           v == (unsettled \/ pending # <<>>) /\ n > engine.synced
<1>1. /\ log # Nil /\ n \in engine.synced .. Len(engine.file)
      /\ engine' = o /\ fields' = LogNew(o) /\ pending' = <<>> /\ result' = Nil /\ log' = x
      /\ unsettled' = v /\ Spend("crashes", MaxCrashes)
  BY DEF Crash, Started, Idle
<1>2. /\ Whole(engine) /\ unsettled \in BOOLEAN
      /\ StoreOk(engine, pending, fields, log, result, unsettled)
      /\ spent \in [{"calls", "crashes", "reopens"} -> Nat]
  BY <1>1 DEF StoreInv
<1>3. /\ Whole(o) /\ (x # Nil => StoreOk(o, <<>>, LogNew(o), x, Nil, v))
  BY <1>1, <1>2, StopOk
<1>4. v \in BOOLEAN /\ spent' \in [{"calls", "crashes", "reopens"} -> Nat]
  <2>1. spent' \in [{"calls", "crashes", "reopens"} -> Nat]
    BY <1>1, SpendGrows
  <2>2. v \in BOOLEAN
    BY <1>2
  <2> QED BY <2>1, <2>2
<1> HIDE DEF o, x, v
<1> QED BY <1>1, <1>3, <1>4 DEF StoreInv

\* Opening the engine again keeps it.
LEMMA ReopenKeeps ==
  ASSUME StoreInv, NEW compact \in BOOLEAN, Reopen(compact)
  PROVE  StoreInv' /\ spent'["crashes"] = spent["crashes"]
<1> DEFINE o == Open(Flush(engine), engine.file)
           c == IF compact THEN Compact(o, KeyOrder(o)) ELSE o
<1>1. /\ Idle /\ log # Nil /\ engine' = c /\ fields' = LogNew(c) /\ pending' = <<>>
      /\ result' = Nil /\ log' = Flushed(log) /\ unsettled' = FALSE
      /\ Spend("reopens", MaxReopens)
  BY DEF Reopen, Started
<1>2. /\ StoreOk(engine, <<>>, fields, log, result, unsettled) /\ Whole(engine)
  BY <1>1, BetweenMethods
<1>3. Whole(c) /\ StoreOk(c, <<>>, LogNew(c), Flushed(log), Nil, FALSE)
  BY <1>2, ReopenOk
<1>4. /\ spent' \in [{"calls", "crashes", "reopens"} -> Nat]
      /\ spent'["crashes"] = spent["crashes"]
  BY <1>1, SpendGrows
<1> HIDE DEF o, c
<1> QED BY <1>1, <1>3, <1>4 DEF StoreInv

\* The invariant is kept, and only a crash spends a crash.
LEMMA NextStoreInv ==
  ASSUME StoreInv, [Next]_vars
  PROVE  /\ StoreInv'
         /\ \/ spent'["crashes"] = spent["crashes"]
            \/ \E n \in 0 .. Len(engine.file), torn \in BOOLEAN : Crash(n, torn)
<1>1. ASSUME NEW t \in 1 .. MaxTerm, NEW v \in Voter \cup {Nil}, CallSetTermVote(t, v)
      PROVE  StoreInv' /\ spent'["crashes"] = spent["crashes"]
  BY <1>1, SetTermVoteKeeps
<1>2. CASE CallAppendEntry
  BY <1>2, AppendEntryKeeps
<1>3. ASSUME NEW i \in 1 .. MaxIndex, CallCommit(i)
      PROVE  StoreInv' /\ spent'["crashes"] = spent["crashes"]
  BY <1>3, CommitKeeps
<1>4. ASSUME NEW base \in 0 .. MaxIndex, NEW n \in 1 .. MaxIndex - base,
             NEW terms \in [1 .. n -> 1 .. MaxTerm], CallSplice(base, terms)
      PROVE  StoreInv' /\ spent'["crashes"] = spent["crashes"]
  BY <1>4, SpliceKeeps
<1>5. CASE CallSnapshot
  BY <1>5, SnapshotKeeps
<1>6. ASSUME NEW i \in 1 .. MaxIndex, NEW t \in 1 .. MaxTerm, CallInstall(i, t)
      PROVE  StoreInv' /\ spent'["crashes"] = spent["crashes"]
  BY <1>6, InstallKeeps
<1>7. CASE EngineCall
  BY <1>7, EngineCallKeeps
<1>8. ASSUME NEW n \in 0 .. Len(engine.file), NEW torn \in BOOLEAN, Crash(n, torn)
      PROVE  StoreInv'
  BY <1>8, CrashKeeps
<1>9. ASSUME NEW compact \in BOOLEAN, Reopen(compact)
      PROVE  StoreInv' /\ spent'["crashes"] = spent["crashes"]
  BY <1>9, ReopenKeeps
<1>10. CASE UNCHANGED vars
  BY <1>10 DEF StoreInv, vars
<1> QED BY <1>1, <1>2, <1>3, <1>4, <1>5, <1>6, <1>7, <1>8, <1>9, <1>10 DEF Next

\* The invariant of the store.
THEOREM StoreHolds == Spec => []StoreInv
<1>1. StoreInv /\ [Next]_vars => StoreInv'
  BY NextStoreInv
<1> QED BY <1>1, InitStoreInv, PTL DEF Spec

-----------------------------------------------------------------------------
(* What the invariant says of a store, and of a crash.                     *)

\* Between two methods the store implements the log.
LEMMA IdleImplements == StoreInv => StoreImplementsLog
<1> SUFFICES ASSUME StoreInv
             PROVE  StoreImplementsLog
  OBVIOUS
<1>1. engine.keydir = KeydirOf(engine.file)
  BY DEF StoreInv, Whole
<1>2. ASSUME Idle, log # Nil
      PROVE  /\ fields = LogNew(engine)
             /\ log = AsLog(engine, fields, log.synced)
             /\ fields.lastTerm = LastTerm(log)
             /\ fields.commitTerm = CommitTerm(log)
             /\ RestoredAt(engine) >= SnapshotIndex(log)
  <2> DEFINE p == Pic(Sight(engine))
  <2>1. Whole(engine) /\ StoreOk(engine, <<>>, fields, log, result, unsettled)
    BY <1>2, BetweenMethods
  <2>2. Proper(log) /\ fields = CacheOf(log) /\ Sound(p) /\ Stores(p, log)
    BY <2>1, IdleShows
  <2>3. /\ LogNew(engine) = OpenedAs(p)
        /\ Live(engine, SnapshotData) <=> p.live
        /\ p.live => Get(engine, SnapshotData) = p.d
    BY <2>1, <2>2, OpenedIs
  <2>4. OpenedAs(p) = CacheOf(log) /\ Coherent(p) /\ Rebuilt(p, log.synced) = log
    BY <2>2, HoldsOpens
  <2>5. AsLog(engine, LogNew(engine), log.synced) = log
    BY <2>1, <2>2, <2>4, AsLogIs
  <2>6. /\ LogNew(engine).first = log.first
        /\ fields.lastTerm = LastTerm(log) /\ fields.commitTerm = CommitTerm(log)
    BY <2>2, <2>3, <2>4, CacheFields
  <2>7. p.m[1] = log.first - 1 /\ log.first \in Nat /\ log.first > 0 /\ p.d \in Nat
        /\ (p.m[1] > 0 => p.live)
    BY <2>2, LogFacts DEF Proper, Stores, Holds, Sound
  <2> HIDE DEF p
  <2>8. RestoredAt(engine) >= log.first - 1
    <3> DEFINE base == log.first - 1
    <3>1. RestoredAt(engine) = IF base > 0 /\ p.live THEN Max({base, p.d}) ELSE 0
      BY <2>3, <2>6 DEF RestoredAt
    <3>2. base \in Nat /\ (base > 0 => p.live)
      BY <2>7
    <3>3. Max({base, p.d}) >= base
      BY <2>7, <3>2, MaxOfTwo
    <3> HIDE DEF base
    <3>4. RestoredAt(engine) >= base
      BY <3>1, <3>2, <3>3
    <3> QED BY <3>4 DEF base
  <2> QED BY <2>2, <2>3, <2>4, <2>5, <2>6, <2>8 DEF SnapshotIndex
<1> QED BY <1>1, <1>2 DEF StoreImplementsLog

\* What a crash leaves, in terms of what the file shows at the place where it
\* stops: all of the log between methods; inside one, a stage of it.
CrashLeaves(p) ==
  /\ Sound(p) /\ Proper(log) /\ fields = CacheOf(log)
  /\ log.synced <= CommitOf(p)
  /\ Whole(engine') /\ Pic(Sight(engine')) = p
  /\ fields' = OpenedAs(p)
  /\ log' = IF Coherent(p) THEN Rebuilt(p, log.synced) ELSE Nil
  /\ pending = <<>> => Holds(p, log) /\ CommitOf(p) <= log.commit
  /\ pending # <<>> =>
       /\ Proper(result.log) /\ result.fields = CacheOf(result.log)
       /\ Between(p, log, result.log)

\* Every crash leaves what CrashLeaves says.
LEMMA CrashShows ==
  ASSUME StoreInv, [Next]_vars, CrashStep
  PROVE  \E p : CrashLeaves(p)
<1>1. PICK n \in 0 .. Len(engine.file), torn \in BOOLEAN : Crash(n, torn)
  <2>1. spent'["crashes"] # spent["crashes"]
    <3>1. spent["crashes"] \in Nat
      BY DEF StoreInv
    <3> QED BY <3>1 DEF CrashStep
  <2> QED BY <2>1, NextStoreInv
<1> DEFINE o == Open(engine, Remains(engine, n, torn))
           p == At(engine.file, pending, n)
           x == IF engine.renamed /\ n < Len(engine.file) THEN Nil
                ELSE AsLog(o, LogNew(o), log.synced)
           last == End(engine.file, pending)
<1>2. /\ log # Nil /\ n \in engine.synced .. Len(engine.file)
      /\ engine' = o /\ fields' = LogNew(o) /\ log' = x
  BY <1>1 DEF Crash, Started
<1>3. /\ Whole(engine) /\ unsettled \in BOOLEAN
      /\ StoreOk(engine, pending, fields, log, result, unsettled)
  BY <1>2 DEF StoreInv
<1>4. /\ Proper(log) /\ fields = CacheOf(log) /\ OpsOk(pending)
      /\ AllSound(engine, pending, log.synced)
  BY <1>3 DEF StoreOk
<1>5. /\ Whole(o) /\ Len(o.file) = n /\ Pic(Sight(o)) = p
      /\ n \in Nat /\ engine.synced \in Nat /\ n <= last
  BY <1>2, <1>3, <1>4, StopShows
<1>6. Len(engine.file) \in Nat /\ last \in Nat
  BY <1>3, <1>4, FutureFacts
<1>7. engine.renamed \/ unsettled => n = Len(engine.file)
  BY <1>2, <1>5 DEF CrashStep
<1>8. ~(engine.renamed /\ n < Len(engine.file))
  BY <1>6, <1>7
<1>9. /\ Sound(p) /\ LogNew(o) = OpenedAs(p)
      /\ x = IF Coherent(p) THEN Rebuilt(p, log.synced) ELSE Nil
  BY <1>2, <1>3, <1>8, StopOk
<1>10. /\ n \in engine.synced .. last /\ last \in engine.synced .. last
       /\ n \in Floor(engine) .. last /\ n \in Recent(engine, unsettled) .. last
       /\ (n = Len(engine.file) \/ (~engine.renamed /\ ~unsettled))
  BY <1>2, <1>3, <1>5, <1>6, <1>7 DEF Floor, Recent, Whole
<1>11. log.synced <= CommitOf(p)
  BY <1>4, <1>10 DEF AllSound
<1>12. ASSUME pending = <<>>
       PROVE  Holds(p, log) /\ CommitOf(p) <= log.commit
  <2>1. ~Flushes(pending) /\ Stores(At(engine.file, pending, last), log)
        /\ last = Len(engine.file)
    BY <1>3, <1>12, NothingComing DEF StoreOk
  <2>2. CASE n = Len(engine.file)
    <3>1. Holds(p, log) /\ CommitOf(p) = log.commit
      BY <2>1, <2>2 DEF Stores
    <3>2. log.commit \in Nat
      BY <1>4, LogFacts DEF Proper
    <3> QED BY <3>1, <3>2
  <2>3. CASE ~engine.renamed /\ ~unsettled
    <3>1. OnlyCommits(engine, pending, log)
      BY <1>3, <1>12, <2>1, <2>3 DEF StoreOk
    <3>2. Holds(p, log) /\ CommitOf(p) <= CommitOf(At(engine.file, pending, last))
      BY <1>5, <1>10, <3>1 DEF OnlyCommits
    <3> QED BY <2>1, <3>2 DEF Stores
  <2> QED BY <1>10, <2>2, <2>3
<1>13. ASSUME pending # <<>>
       PROVE  /\ Proper(result.log) /\ result.fields = CacheOf(result.log)
              /\ Between(p, log, result.log)
  BY <1>3, <1>10, <1>13 DEF StoreOk
<1> HIDE DEF o, p, x
<1>14. CrashLeaves(p)
  BY <1>2, <1>4, <1>5, <1>9, <1>11, <1>12, <1>13 DEF CrashLeaves
<1> QED BY <1>14

-----------------------------------------------------------------------------
(* The properties of the store.                                            *)

\* Between two methods the records and the cached fields stand for the value
\* that RaftLog's functions compute, so that RaftNode may use it.
THEOREM StoreAlwaysImplementsLog == Spec => []StoreImplementsLog
BY StoreHolds, IdleImplements, PTL

\* A crash between two methods loses nothing but commit indexes that were
\* written and not flushed.
THEOREM CrashLosesOnlyCommits == Spec => CrashBetweenMethods
<1> DEFINE Kept ==
        CrashStep /\ Idle =>
          \E c \in log.synced .. log.commit : log' = Reopened(log, c)
<1>1. ASSUME StoreInv, [Next]_vars
      PROVE  Kept
  <2> SUFFICES ASSUME CrashStep, pending = <<>>
               PROVE  \E c \in log.synced .. log.commit : log' = Reopened(log, c)
    BY DEF Idle
  <2>1. PICK p : CrashLeaves(p)
    BY <1>1, CrashShows
  <2> DEFINE c == CommitOf(p)
  <2>2. /\ Sound(p) /\ Proper(log) /\ log.synced <= c /\ c <= log.commit /\ Holds(p, log)
        /\ log' = IF Coherent(p) THEN Rebuilt(p, log.synced) ELSE Nil
    BY <2>1 DEF CrashLeaves
  <2>3. Rebuilt(p, log.synced) = Reopened(log, c) /\ Coherent(p)
    BY <2>2, HoldsReopened
  <2>4. c \in log.synced .. log.commit
    <3>1. c \in Nat /\ log.synced \in Nat /\ log.commit \in Nat
      BY <2>2, CommitOfNat, LogFacts DEF Proper
    <3> QED BY <2>2, <3>1
  <2> QED BY <2>2, <2>3, <2>4
<1>2. StoreInv /\ [Next]_vars => [Kept]_vars
  BY <1>1
<1>3. Spec => [][Next]_vars
  BY PTL DEF Spec
<1> QED BY <1>2, <1>3, StoreHolds, PTL DEF CrashBetweenMethods

\* A crash at any point keeps the term and the vote, or leaves those that the
\* method under way was about to return.
THEOREM CrashNeverForgetsVote == Spec => CrashKeepsVote
<1> DEFINE Kept ==
        CrashStep =>
          \/ fields'.term = fields.term /\ fields'.vote = fields.vote
          \/ /\ ~Idle
             /\ fields'.term = result.fields.term
             /\ fields'.vote = result.fields.vote
<1>1. ASSUME StoreInv, [Next]_vars
      PROVE  Kept
  <2> SUFFICES ASSUME CrashStep
               PROVE  \/ fields'.term = fields.term /\ fields'.vote = fields.vote
                      \/ /\ pending # <<>>
                         /\ fields'.term = result.fields.term
                         /\ fields'.vote = result.fields.vote
    BY DEF Idle
  <2>1. PICK p : CrashLeaves(p)
    BY <1>1, CrashShows
  <2>2. Sound(p) /\ fields = CacheOf(log) /\ fields' = OpenedAs(p)
    BY <2>1 DEF CrashLeaves
  <2>3. fields'.term = p.tv[1] /\ fields'.vote = p.tv[2]
    BY <2>2, OpenedFields
  <2>4. fields.term = log.term /\ fields.vote = log.vote
    BY <2>2, CacheFields
  <2>5. CASE pending = <<>>
    <3>1. p.tv = <<log.term, log.vote>>
      BY <2>1, <2>5 DEF CrashLeaves, Holds
    <3> QED BY <2>3, <2>4, <3>1
  <2>6. CASE pending # <<>>
    <3>1. result.fields = CacheOf(result.log) /\ VoteKept(p, log, result.log)
      BY <2>1, <2>6 DEF CrashLeaves, Between
    <3>2. result.fields.term = result.log.term /\ result.fields.vote = result.log.vote
      BY <3>1, CacheFields
    <3> QED BY <2>3, <2>4, <2>6, <3>1, <3>2 DEF VoteKept
  <2> QED BY <2>5, <2>6
<1>2. StoreInv /\ [Next]_vars => [Kept]_vars
  BY <1>1
<1>3. Spec => [][Next]_vars
  BY PTL DEF Spec
<1> QED BY <1>2, <1>3, StoreHolds, PTL DEF CrashKeepsVote

\* Where the log is opened with a base and a snapshot, what the state machine
\* is restored at is not below either.
LEMMA RestoredFrom ==
  ASSUME NEW e, Whole(e), Sound(Pic(Sight(e))), LogNew(e).first > 1, Pic(Sight(e)).live
  PROVE  /\ RestoredAt(e) \in Nat
         /\ RestoredAt(e) >= LogNew(e).first - 1 /\ RestoredAt(e) >= Pic(Sight(e)).d
<1> DEFINE p == Pic(Sight(e))
           base == LogNew(e).first - 1
<1>1. /\ LogNew(e) = OpenedAs(p) /\ Live(e, SnapshotData) /\ Get(e, SnapshotData) = p.d
  BY OpenedIs
<1>2. LogNew(e).first \in Nat
  BY <1>1, OpenedFields
<1>3. base \in Nat /\ base > 0 /\ p.d \in Nat
  BY <1>2 DEF Sound
<1>4. RestoredAt(e) = Max({base, p.d})
  BY <1>1, <1>3 DEF RestoredAt
<1> HIDE DEF base, p
<1>5. RestoredAt(e) \in Nat /\ RestoredAt(e) >= base /\ RestoredAt(e) >= p.d
  BY <1>3, <1>4, MaxOfTwo
<1> QED BY <1>5 DEF base, p

\* A crash at any point keeps every committed entry, in the log or in the
\* snapshot that is restored, or the log that is opened ends before its commit
\* index.
THEOREM CrashNeverLosesCommitted == Spec => CrashKeepsCommitted
<1> DEFINE Kept ==
        CrashStep =>
          \/ fields'.commit > fields'.last
          \/ \A k \in 1 .. log.commit :
               \/ k <= RestoredAt(engine')
               \/ /\ Stored(log, k)
                  /\ Live(engine', EntryKey(k))
                  /\ Get(engine', EntryKey(k)) = EntryAt(log, k)
<1>1. ASSUME StoreInv, [Next]_vars
      PROVE  Kept
  <2> SUFFICES ASSUME CrashStep, NEW k \in 1 .. log.commit, ~(fields'.commit > fields'.last)
               PROVE  \/ k <= RestoredAt(engine')
                      \/ /\ Stored(log, k)
                         /\ Live(engine', EntryKey(k))
                         /\ Get(engine', EntryKey(k)) = EntryAt(log, k)
    OBVIOUS
  <2>1. PICK p : CrashLeaves(p)
    BY <1>1, CrashShows
  <2> DEFINE e == engine'
             f == fields'
  <2>2. /\ Sound(p) /\ Proper(log) /\ Whole(e) /\ Pic(Sight(e)) = p /\ f = OpenedAs(p)
        /\ log.synced <= CommitOf(p)
    BY <2>1 DEF CrashLeaves
  <2>3. CommittedKept(p, log)
    <3>1. CASE pending = <<>>
      <4>1. Holds(p, log) /\ CommitOf(p) <= log.commit
        BY <2>1, <3>1 DEF CrashLeaves
      <4>2. Between(p, log, log)
        BY <2>2, <4>1, HoldsBetween
      <4> QED BY <4>2 DEF Between
    <3>2. CASE pending # <<>>
      BY <2>1, <3>2 DEF CrashLeaves, Between
    <3> QED BY <3>1, <3>2
  <2>4. /\ LogNew(e) = f
        /\ \A i \in DOMAIN p.ents : Live(e, EntryKey(i)) /\ Get(e, EntryKey(i)) = p.ents[i]
    BY <2>2, OpenedIs
  <2>5. /\ f.commit = CommitOf(p) /\ f.first \in Nat /\ f.last \in Nat
        /\ p.m[1] > 0 => f.first = p.m[1] + 1
        /\ DOMAIN p.ents = {} => f.last = p.m[1]
        /\ DOMAIN p.ents # {} /\ p.m[1] = 0 => f.first \in DOMAIN p.ents
        /\ f.first > 0
    BY <2>2, OpenedFields
  <2>6. /\ log.first \in Nat /\ log.first > 0 /\ log.commit \in Nat /\ LastIndex(log) \in Nat
        /\ log.commit <= LastIndex(log) /\ k \in Nat /\ k > 0 /\ k <= log.commit
    BY <2>2, LogFacts DEF Proper
  <2>7. /\ p.m[1] \in Nat /\ p.d \in Nat /\ (p.m[1] > 0 => p.live)
        /\ CommitOf(p) \in Nat /\ p.c[1] <= CommitOf(p) /\ p.c[1] \in Nat
    BY <2>2, CommitOfNat DEF Sound
  <2>8. ~(f.commit > f.last)
    OBVIOUS
  <2> HIDE DEF e, f
  <2>9. ASSUME f.first > 1, p.live
        PROVE  RestoredAt(e) \in Nat /\ RestoredAt(e) >= f.first - 1 /\ RestoredAt(e) >= p.d
    BY <2>2, <2>4, <2>9, RestoredFrom
  <2>10. CASE /\ p.m[1] = log.first - 1
              /\ \A i \in log.first .. log.commit :
                   i \in DOMAIN p.ents /\ p.ents[i] = EntryAt(log, i)
    <3>1. CASE k < log.first
      <4>1. p.m[1] > 0 /\ k <= p.m[1] /\ f.first = p.m[1] + 1
        BY <2>5, <2>6, <2>7, <2>10, <3>1
      <4>2. RestoredAt(e) \in Nat /\ RestoredAt(e) >= p.m[1]
        BY <2>5, <2>7, <2>9, <4>1
      <4>3. k <= RestoredAt(e)
        BY <2>6, <2>7, <4>1, <4>2
      <4> QED BY <4>3 DEF e
    <3>2. CASE ~(k < log.first)
      <4>1. k \in log.first .. log.commit
        BY <2>6, <3>2
      <4>2. Live(e, EntryKey(k)) /\ Get(e, EntryKey(k)) = EntryAt(log, k)
        BY <2>4, <2>10, <4>1
      <4>3. Stored(log, k)
        BY <2>6, <3>2 DEF Stored
      <4> QED BY <4>2, <4>3 DEF e
    <3> QED BY <3>1, <3>2
  <2>11. CASE /\ p.live /\ p.d >= log.commit
              /\ p.m[1] > 0 \/ (1 \notin DOMAIN p.ents /\ p.c[1] = log.commit)
    <3>1. f.first > 1
      <4>1. CASE p.m[1] > 0
        BY <2>5, <2>7, <4>1
      <4>2. CASE p.m[1] = 0
        <5>1. 1 \notin DOMAIN p.ents /\ p.c[1] = log.commit
          BY <2>11, <4>2
        <5>2. DOMAIN p.ents # {}
          <6>1. CommitOf(p) > 0
            BY <2>6, <2>7, <5>1
          <6> QED BY <2>5, <2>8, <4>2, <6>1
        <5>3. f.first # 1
          BY <2>5, <4>2, <5>1, <5>2
        <5> QED BY <2>5, <5>3
      <4> QED BY <2>7, <4>1, <4>2
    <3>2. k <= RestoredAt(e)
      <4>1. RestoredAt(e) \in Nat /\ RestoredAt(e) >= p.d /\ p.d >= log.commit
        BY <2>9, <2>11, <3>1
      <4> QED BY <2>6, <2>7, <4>1
    <3> QED BY <3>2 DEF e
  <2> QED BY <2>3, <2>10, <2>11 DEF CommittedKept
<1>2. StoreInv /\ [Next]_vars => [Kept]_vars
  BY <1>1
<1>3. Spec => [][Next]_vars
  BY PTL DEF Spec
<1> QED BY <1>2, <1>3, StoreHolds, PTL DEF CrashKeepsCommitted

\* One log's entries are the beginning of another's.
LEMMA PrefixIsGrowth ==
  ASSUME NEW a \in Seq(Entries), NEW b \in Seq(Entries)
  PROVE  IsPrefix(a, b) <=> /\ Len(a) <= Len(b)
                            /\ \A k \in 1 .. Len(a) : b[k] = a[k]
<1>1. IsPrefix(a, b) <=> Len(a) <= Len(b) /\ SubSeq(a, 1, Len(a)) = SubSeq(b, 1, Len(a))
  BY DEF IsPrefix
<1>2. Len(a) \in Nat /\ Len(b) \in Nat /\ SubSeq(a, 1, Len(a)) = a
  OBVIOUS
<1>3. ASSUME Len(a) <= Len(b)
      PROVE  /\ SubSeq(b, 1, Len(a)) \in Seq(Entries) /\ Len(SubSeq(b, 1, Len(a))) = Len(a)
             /\ \A k \in 1 .. Len(a) : SubSeq(b, 1, Len(a))[k] = b[k]
  BY <1>2, <1>3
<1>4. ASSUME Len(a) <= Len(b), \A k \in 1 .. Len(a) : b[k] = a[k]
      PROVE  a = SubSeq(b, 1, Len(a))
  <2> DEFINE s == SubSeq(b, 1, Len(a))
  <2>1. s \in Seq(Entries) /\ Len(s) = Len(a) /\ \A k \in 1 .. Len(a) : s[k] = a[k]
    BY <1>3, <1>4
  <2> HIDE DEF s
  <2>2. s = a
    BY <2>1, SeqEqual
  <2> QED BY <2>2 DEF s
<1>5. ASSUME Len(a) <= Len(b), a = SubSeq(b, 1, Len(a))
      PROVE  \A k \in 1 .. Len(a) : b[k] = a[k]
  BY <1>3, <1>5
<1> QED BY <1>1, <1>2, <1>4, <1>5

\* A crash inside a method that only adds entries leaves the old log with some
\* of them, in order and without a gap.
THEOREM CrashLeavesPrefix == Spec => CrashInAppendLeavesPrefix
<1> DEFINE Kept ==
        CrashStep /\ ~Idle /\ log.first = result.log.first
          /\ IsPrefix(log.ents, result.log.ents) =>
             /\ log' # Nil
             /\ IsPrefix(log.ents, log'.ents)
             /\ IsPrefix(log'.ents, result.log.ents)
<1>1. ASSUME StoreInv, [Next]_vars
      PROVE  Kept
  <2> SUFFICES ASSUME CrashStep, pending # <<>>, log.first = result.log.first,
                      IsPrefix(log.ents, result.log.ents)
               PROVE  /\ log' # Nil
                      /\ IsPrefix(log.ents, log'.ents)
                      /\ IsPrefix(log'.ents, result.log.ents)
    BY DEF Idle
  <2>1. PICK p : CrashLeaves(p)
    BY <1>1, CrashShows
  <2> DEFINE r == result.log
             z == log'
  <2>2. /\ Sound(p) /\ Proper(log) /\ Proper(r) /\ OnlyAdded(p, log, r)
        /\ z = IF Coherent(p) THEN Rebuilt(p, log.synced) ELSE Nil
    BY <2>1 DEF CrashLeaves, Between
  <2>3. log.first = r.first /\ IsPrefix(log.ents, r.ents)
    OBVIOUS
  <2> HIDE DEF r, z
  <2>4. log.ents \in Seq(Entries) /\ r.ents \in Seq(Entries)
    BY <2>2, LogFacts DEF Proper
  <2>5. Grows(log, r)
    BY <2>3, <2>4, PrefixIsGrowth DEF Grows
  <2>6. PICK x : /\ Proper(x) /\ x.synced = log.synced /\ Stores(p, x)
                 /\ Grows(log, x) /\ Grows(x, r)
    BY <2>2, <2>5 DEF OnlyAdded
  <2>7. Coherent(p) /\ Rebuilt(p, log.synced) = x
    BY <2>2, <2>6, HoldsOpens
  <2>8. z = x /\ z \in LogValues /\ z.ents \in Seq(Entries)
    BY <2>2, <2>6, <2>7, LogFacts DEF Proper
  <2>9. IsPrefix(log.ents, z.ents) /\ IsPrefix(z.ents, r.ents)
    BY <2>4, <2>6, <2>8, PrefixIsGrowth DEF Grows
  <2>10. z # Nil
    BY <2>8, StorageAssumption
  <2> QED BY <2>9, <2>10 DEF r, z
<1>2. StoreInv /\ [Next]_vars => [Kept]_vars
  BY <1>1
<1>3. Spec => [][Next]_vars
  BY PTL DEF Spec
<1> QED BY <1>2, <1>3, StoreHolds, PTL DEF CrashInAppendLeavesPrefix
=============================================================================
