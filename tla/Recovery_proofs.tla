--------------------------- MODULE Recovery_proofs ---------------------------
(***************************************************************************)
(* Proofs about Recovery: its types; that a sync covers the vault          *)
(* (SyncCovers), that a restore swaps in what was selected                 *)
(* (RestoresSelected) and that retention keeps the newest snapshots        *)
(* (NewestKept).  Each invariant is proved from lemmas that say which      *)
(* steps touch a variable, and how.                                        *)
(***************************************************************************)
EXTENDS Recovery, Integers, FiniteSetTheorems, SequenceTheorems, TLAPS

Pairs    == (1..MaxMessages) \X Nat
Db       == [rows : SUBSET Row, bound : Vaults \cup {None}]
Message  == [kind : {"service", "doc", "snap", "gone"}, db : Db \cup {None}]
TaskKind == {"none", "sync", "health", "delete", "create", "restore"}
TaskSort == [kind : TaskKind, pc : {"idle", "ensure", "act", "replace", "copy"},
             r : Requests \cup {None}, i : Nat, db : Db \cup {None}]
SyncPc   == {"off", "scan", "look", "insert", "update", "done", "failed"}
SyncSort == [pc : SyncPc, v : Vaults \cup {None}, todo : SUBSET (1..MaxMessages), top : Nat,
             at : Pairs \cup {None}, dropped : SUBSET (1..MaxMessages),
             behind : SUBSET (1..MaxMessages)]
UpSort   == [pc : {"idle", "replace", "create", "done"}, v : Vaults \cup {None}, i : 0..MaxMessages]
Purge    == [pc : {"idle", "call", "delete"}, id : Pairs \cup {None}, i : 0..MaxMessages]
OpPc     == {"idle", "lock", "call", "wait", "swap", "copy", "reopen", "answer"}
Content  == Db \cup {None, Broken}
OpSort   == [kind : {"none", "create", "restore", "local"}, pc : OpPc, i : Nat, want : Content,
             from : Content, ok : BOOLEAN]

\* A database whose rows are known by their identifiers, and those were handed out for the
\* messages of the rows (m is what has been handed out).
Sound(d, m) == /\ d \in Db
               /\ \A r, q \in d.rows : r.id = q.id => r = q
               /\ \A r \in d.rows : r.id[1] = r.i /\ r.id[2] < m[r.i]

\* The same, of an installation that has a vault: all that is ever saved or restored.
Bound(d, m) == Sound(d, m) /\ d.bound \in Vaults

\* The messages of a vault, the databases of the snapshots among them, and what a step may do
\* to them.
Holding(ms, m) == /\ ms \in Seq(Message) /\ Len(ms) <= MaxMessages
                  /\ \A i \in 1..Len(ms) : ms[i].kind = "snap" => Bound(ms[i].db, m)
Grown(ms, ns) == /\ Len(ms) <= Len(ns)
                 /\ \A i \in 1..Len(ms) : ns[i] = ms[i] \/ ns[i].kind = "gone"

VaultsTyped == vault \in [Vaults -> Seq(Message)] /\ \A v \in Vaults : Holding(vault[v], made)

FilesTyped == /\ Sound(db, made)
              /\ path \in Db \cup {Same, Broken} /\ (path \in {Same, Broken} \/ Bound(path, made))
              /\ temp \in Content /\ (temp \in {None, Broken} \/ Bound(temp, made))
              /\ made \in [1..MaxMessages -> Nat] /\ writer \in Requests \cup {None}

TaskTyped == /\ task \in TaskSort
             /\ task.kind \in {"create", "restore"} => task.r \in Requests /\ Bound(task.db, made)
             /\ task.pc \in {"replace", "copy"} => task.kind = "restore"

Runs(p) == sync[p].pc \in {"look", "insert", "update"}

SyncsTyped == /\ sync \in [Syncs -> SyncSort]
              /\ \A p \in Syncs : Runs(p) => /\ sync[p].v \in Vaults
                                             /\ sync[p].top <= Len(vault[sync[p].v])
              /\ \A p \in Syncs : sync[p].pc \in {"insert", "update"} => sync[p].todo # {}

UpsTyped == /\ up \in [Uploads -> UpSort]
            /\ \A u \in Uploads : up[u].pc \in {"replace", "create"} =>
                                    up[u].v \in Vaults /\ up[u].i \in 1..MaxMessages

PurgeTyped == purge \in Purge /\ (purge.pc # "idle" => purge.id \in Pairs /\ purge.i = purge.id[1])

\* What the requests are at: each kind goes its own way, a success is known only at the end, and
\* the worker works for the request that waits for it.
Stage(x, m) == /\ x.kind = "none" => x = NoOp
               /\ x.kind = "create" => x.pc \in {"call", "wait", "answer"}
               /\ x.kind = "restore" => x.pc \in {"call", "wait", "reopen", "answer"}
               /\ x.kind = "local" => x.pc \in {"lock", "swap", "copy", "reopen", "answer"}
               /\ x.kind \in {"create", "restore"} => Bound(x.want, m)
               /\ x.pc = "copy" => Bound(x.from, m)
               /\ x.ok => x.pc \in {"reopen", "answer"}
Waits(r) == task.r = r /\ task.kind = op[r].kind /\ task.i = op[r].i /\ task.pc # "idle"

OpsTyped == /\ op \in [Requests -> OpSort]
            /\ \A r \in Requests : Stage(op[r], made) /\ (op[r].pc = "wait" => Waits(r))
            /\ \A r, q \in Requests : Locked(r) /\ Locked(q) => r = q

\* Nothing goes on while the process is down; while it is up there is a bound database.
HostTyped == /\ host \in {"off", "login", "server"} /\ open \in BOOLEAN /\ stale \in BOOLEAN
             /\ DOMAIN others = Requests /\ cached \in Vaults \cup {None}
             /\ host = "off" <=> cached = None
             /\ host # "off" => db.bound \in Vaults
             /\ host = "off" => /\ ~open /\ path \in {Same, Broken} /\ task = NoTask /\ purge = NoPurge
                                /\ sync = [p \in Syncs |-> NoSync]
                                /\ op = [r \in Requests |-> NoOp]

\* A sync by hand is a task of the worker.
ManualTyped == sync["manual"].pc \in {"scan", "look", "insert", "update"} =>
                 task.kind = "sync" /\ task.pc = "idle"

Typed == /\ VaultsTyped /\ FilesTyped /\ TaskTyped /\ SyncsTyped /\ UpsTyped /\ PurgeTyped
         /\ OpsTyped /\ HostTyped /\ ManualTyped

\* What a sync that runs has covered.
Covered(p) == Runs(p) =>
    /\ \A i \in Due(p) \ sync[p].behind : i \in sync[p].todo \/ HasRow(i)
    /\ sync[p].pc = "update" => \/ Greatest(sync[p].todo) \in sync[p].dropped
                                \/ HasRow(Greatest(sync[p].todo))

AllCovered == \A p \in Syncs : Covered(p)

\* What a request that restores has in hand: what it selected, or what others have put in its
\* place; the worker does not restore anything else while a restore of the list is put in place.
Choices(r) == {op[r].want} \cup others[r]
Listing(r) == op[r].kind = "restore" /\ op[r].pc \in {"call", "wait"} =>
    /\ op[r].i \in DOMAIN vault[db.bound]
    /\ vault[db.bound][op[r].i].kind = "snap" => vault[db.bound][op[r].i].db = op[r].want
Fetched(r) == op[r].kind = "restore" /\ op[r].pc = "wait" /\ task.pc \in {"replace", "copy"}
                => task.db \in Choices(r) /\ (task.pc = "copy" => writer = None)
Received(r) == op[r].pc \in {"lock", "swap"} => temp = None \/ temp \in Choices(r)
Swapping(r) == op[r].pc = "copy" => op[r].from \in Choices(r) /\ (writer = r \/ path \in others[r])
Alone(r)    == op[r].kind = "restore" /\ Restores(r) => task.kind # "restore"
Swapped(r)  == Restores(r) => path \in Choices(r)

Selected == \A r \in Requests : /\ Listing(r) /\ Fetched(r) /\ Received(r) /\ Swapping(r)
                                /\ Alone(r) /\ Swapped(r)

-----------------------------------------------------------------------------
(* Counting. *)

\* The elements of S above i.
Above(S, i) == {j \in S : j > i}
Rank(S, i) == Cardinality(Above(S, i))

\* Counting the numbers above each element of a finite set numbers its elements downwards,
\* from none above the greatest: the places of messages in a history and of snapshots in a list.
LEMMA Ranks ==
    ASSUME NEW S \in SUBSET Nat, IsFiniteSet(S)
    PROVE  /\ Cardinality(S) \in Nat
           /\ \A i \in Nat : Rank(S, i) \in Nat /\ Rank(S, i) <= Cardinality(S)
           /\ \A i \in S : Rank(S, i) < Cardinality(S)
           /\ \A i, j \in S : i < j => Rank(S, j) < Rank(S, i)
           /\ \A k \in 0..(Cardinality(S) - 1) : \E i \in S : Rank(S, i) = k
<1>1. Cardinality(S) \in Nat
  BY FS_CardinalityType
<1>2. ASSUME NEW i \in Nat
      PROVE  IsFiniteSet(Above(S, i)) /\ Rank(S, i) \in Nat /\ Rank(S, i) <= Cardinality(S)
  <2>1. Above(S, i) \in SUBSET S
    BY DEF Above
  <2>2. QED
    BY <2>1, FS_Subset, FS_CardinalityType DEF Rank
<1>3. ASSUME NEW i \in S PROVE Rank(S, i) < Cardinality(S)
  <2>1. i \in Nat
    OBVIOUS
  <2>2. Above(S, i) \in SUBSET S /\ i \notin Above(S, i)
    BY <2>1 DEF Above
  <2>3. Rank(S, i) # Cardinality(S)
    BY <2>2, FS_Subset DEF Rank
  <2>4. QED
    BY <1>1, <1>2, <2>1, <2>3
<1>4. ASSUME NEW i \in S, NEW j \in S, i < j PROVE Rank(S, j) < Rank(S, i)
  <2>1. i \in Nat /\ j \in Nat
    OBVIOUS
  <2>2. Above(S, j) \in SUBSET Above(S, i) /\ j \in Above(S, i) /\ j \notin Above(S, j)
    <3>1. ASSUME NEW l \in S, l > j PROVE l > i
      BY <1>4, <2>1, <3>1
    <3>2. j > i /\ ~(j > j)
      BY <1>4, <2>1
    <3>3. QED
      BY <3>1, <3>2 DEF Above
  <2>3. IsFiniteSet(Above(S, i)) /\ Rank(S, i) \in Nat /\ Rank(S, j) \in Nat
    BY <1>2, <2>1
  <2>4. Rank(S, j) <= Rank(S, i) /\ Rank(S, j) # Rank(S, i)
    BY <2>2, <2>3, FS_Subset DEF Rank
  <2>5. QED
    BY <2>3, <2>4
<1>5. ASSUME NEW k \in 0..(Cardinality(S) - 1) PROVE \E i \in S : Rank(S, i) = k
  <2>1. PICK T : T = 0..(Cardinality(S) - 1)
    OBVIOUS
  <2>2. IsFiniteSet(T) /\ Cardinality(T) = Cardinality(S)
    BY <1>1, <2>1, FS_Interval
  <2>3. PICK f : f = [i \in S |-> Rank(S, i)]
    OBVIOUS
  <2>4. f \in [S -> T]
    BY <1>1, <1>2, <1>3, <2>1, <2>3
  <2>5. ASSUME NEW i \in S, NEW j \in S, f[i] = f[j] PROVE i = j
    <3>1. i \in Nat /\ j \in Nat /\ Rank(S, i) \in Nat /\ Rank(S, j) \in Nat
      BY <1>2
    <3>2. Rank(S, i) = Rank(S, j)
      BY <2>3, <2>5
    <3>3. ~(i < j) /\ ~(j < i)
      BY <1>4, <3>1, <3>2
    <3>4. QED
      BY <3>1, <3>3
  <2>6. f \in Injection(S, T)
    BY <2>4, <2>5 DEF Injection, IsInjective
  <2>7. f \in Surjection(S, T)
    BY <2>2, <2>6, FS_Injection
  <2>8. PICK i \in S : f[i] = k
    BY <2>1, <2>7 DEF Surjection
  <2>9. QED
    BY <2>3, <2>8
<1>6. QED
  BY <1>1, <1>2, <1>3, <1>4, <1>5

\* As many elements have their number in a range as the range has numbers.
LEMMA RankedBetween ==
    ASSUME NEW S \in SUBSET Nat, IsFiniteSet(S), NEW a \in Nat, NEW b \in Nat, b <= Cardinality(S), a <= b
    PROVE  Cardinality({i \in S : a <= Rank(S, i) /\ Rank(S, i) < b}) = b - a
<1>1. PICK T : T = {i \in S : a <= Rank(S, i) /\ Rank(S, i) < b}
  OBVIOUS
<1>2. PICK I : I = a..(b - 1)
  OBVIOUS
<1>3. IsFiniteSet(I) /\ Cardinality(I) = b - a
  <2>1. a \in Int /\ b - 1 \in Int
    OBVIOUS
  <2>2. /\ IsFiniteSet(a..(b - 1))
        /\ Cardinality(a..(b - 1)) = IF a > b - 1 THEN 0 ELSE (b - 1) - a + 1
    BY <2>1, FS_Interval
  <2>3. QED
    BY <1>2, <2>2
<1>4. Cardinality(S) \in Nat /\ \A i \in S : Rank(S, i) \in Nat
  BY Ranks
<1>5. PICK f : f = [i \in T |-> Rank(S, i)]
  OBVIOUS
<1>6. f \in [T -> I]
  <2>1. ASSUME NEW i \in T PROVE Rank(S, i) \in I
    <3>1. Rank(S, i) \in Nat /\ a <= Rank(S, i) /\ Rank(S, i) < b
      BY <1>1, <1>4
    <3>2. QED
      BY <1>2, <3>1
  <2>2. QED
    BY <1>5, <2>1
<1>7. ASSUME NEW i \in T, NEW j \in T, f[i] = f[j] PROVE i = j
  <2>1. i \in S /\ j \in S /\ Rank(S, i) = Rank(S, j)
    BY <1>1, <1>5, <1>7
  <2>2. i \in Nat /\ j \in Nat /\ Rank(S, i) \in Nat /\ Rank(S, j) \in Nat
    BY <1>4, <2>1
  <2>3. ~(i < j) /\ ~(j < i)
    BY <2>1, <2>2, Ranks
  <2>4. QED
    BY <2>2, <2>3
<1>8. f \in Injection(T, I)
  BY <1>6, <1>7 DEF Injection, IsInjective
<1>9. ASSUME NEW k \in I PROVE \E i \in T : f[i] = k
  <2>1. k \in Nat /\ a <= k /\ k < b /\ k \in 0..(Cardinality(S) - 1)
    BY <1>2, <1>4
  <2>2. PICK i \in S : Rank(S, i) = k
    BY <2>1, Ranks
  <2>3. i \in T
    BY <1>1, <2>1, <2>2
  <2>4. QED
    BY <1>5, <2>2, <2>3
<1>10. f \in Surjection(T, I)
  BY <1>6, <1>9 DEF Surjection
<1>11. IsFiniteSet(T) /\ Cardinality(T) = Cardinality(I)
  BY <1>3, <1>8, <1>10, FS_Injection
<1>12. QED
  BY <1>1, <1>3, <1>11

\* A finite set of numbers has a greatest.
LEMMA GreatestIs ==
    ASSUME NEW S \in SUBSET Nat, IsFiniteSet(S), S # {}
    PROVE  Greatest(S) \in S /\ \A j \in S : j <= Greatest(S)
<1>1. Cardinality(S) \in Nat /\ Cardinality(S) # 0
  BY FS_EmptySet, FS_CardinalityType
<1>2. 0 \in 0..(Cardinality(S) - 1)
  BY <1>1
<1>3. PICK i \in S : Rank(S, i) = 0
  BY <1>2, Ranks
<1>4. Above(S, i) = {}
  <2>1. Above(S, i) \in SUBSET S
    BY DEF Above
  <2>2. IsFiniteSet(Above(S, i))
    BY <2>1, FS_Subset
  <2>3. QED
    BY <1>3, <2>2, FS_EmptySet DEF Rank
<1>5. \A j \in S : j <= i
  BY <1>4 DEF Above
<1>6. QED
  BY <1>5 DEF Greatest

\* Division of natural numbers.
LEMMA Division ==
    ASSUME NEW x \in Nat, NEW p \in Nat \ {0}
    PROVE  x \div p \in Nat /\ p * (x \div p) <= x /\ x < p * (x \div p) + p
OBVIOUS

\* The multiples of a number are that number apart.
LEMMA Multiples ==
    ASSUME NEW p \in Nat \ {0}, NEW a \in Nat, NEW b \in Nat, a < b
    PROVE  p * a + p <= p * b /\ p * a \in Nat
<1>1. PICK c \in Nat : b = a + 1 + c
  <2>1. b - a - 1 \in Nat /\ b = a + 1 + (b - a - 1)
    OBVIOUS
  <2>2. QED
    BY <2>1
<1>2. p * b = p * a + p + p * c
  BY <1>1
<1>3. p * c >= 0 /\ p * a \in Nat /\ p * b \in Nat /\ p * c \in Nat
  OBVIOUS
<1>4. QED
  BY <1>2, <1>3

\* The multiples of p that x is in.
LEMMA Quotient ==
    ASSUME NEW x \in Nat, NEW p \in Nat \ {0}, NEW k \in Nat
    PROVE  x \div p = k <=> p * k <= x /\ x < p * k + p
<1>1. PICK q : q = x \div p
  OBVIOUS
<1>2. q \in Nat /\ p * q <= x /\ x < p * q + p
  BY <1>1, Division
<1>3. ASSUME k < q, x < p * k + p PROVE FALSE
  BY <1>2, <1>3, Multiples
<1>4. ASSUME q < k, p * k <= x PROVE FALSE
  <2>1. p * q + p <= p * k /\ p * q \in Nat /\ p * k \in Nat
    BY <1>2, <1>4, Multiples
  <2>2. QED
    BY <1>2, <1>4, <2>1
<1>5. q = k \/ q < k \/ k < q
  BY <1>2
<1>6. QED
  BY <1>1, <1>2, <1>3, <1>4, <1>5

-----------------------------------------------------------------------------
(* A scan. *)

Visible(ms) == {j \in DOMAIN ms : ms[j].kind # "gone"}

\* The place of a message in the history is its rank among those that are not deleted.
LEMMA Places ==
    ASSUME NEW ms \in Seq(Message)
    PROVE  /\ Visible(ms) \in SUBSET Nat /\ IsFiniteSet(Visible(ms))
           /\ \A i : Place(ms, i) = Rank(Visible(ms), i)
<1>1. Len(ms) \in Nat /\ DOMAIN ms = 1..Len(ms)
  OBVIOUS
<1>2. Visible(ms) \in SUBSET Nat /\ \A j \in Visible(ms) : j <= Len(ms)
  BY <1>1 DEF Visible
<1>3. IsFiniteSet(Visible(ms))
  BY <1>1, <1>2, FS_BoundedSetOfNaturals
<1>4. ASSUME NEW i PROVE Place(ms, i) = Rank(Visible(ms), i)
  <2>1. {j \in DOMAIN ms : j > i /\ ms[j].kind # "gone"} = Above(Visible(ms), i)
    BY DEF Above, Visible
  <2>2. QED
    BY <2>1 DEF Place, Rank
<1>5. QED
  BY <1>2, <1>3, <1>4

\* Where no pinned snapshot has left a service message on a page before the one of a document,
\* those pages are full: the scan sees the document.
LEMMA ScanSeesAll ==
    ASSUME RecoveryAssumption, NEW v \in Vaults, vault[v] \in Seq(Message),
           NEW i \in Numbers(v, {"doc"}), i \notin Behind(v)
    PROVE  i \in Scanned(v)
<1>1. PICK ms \in Seq(Message) : ms = vault[v]
  OBVIOUS
<1>2. PICK S : S = Visible(ms)
  OBVIOUS
<1>3. /\ S \in SUBSET Nat /\ IsFiniteSet(S) /\ Cardinality(S) \in Nat
      /\ \A j : Place(ms, j) = Rank(S, j)
  BY <1>2, Places, FS_CardinalityType
<1>4. Len(ms) \in Nat /\ DOMAIN ms = 1..Len(ms)
  OBVIOUS
<1>5. i \in 1..Len(ms) /\ ms[i].kind = "doc" /\ i \in S /\ i \in Nat
  BY <1>1, <1>2, <1>4 DEF Numbers, Visible
<1>6. PageSize \in Nat \ {0}
  BY DEF RecoveryAssumption
<1>7. /\ Rank(S, i) \in Nat /\ Rank(S, i) <= Cardinality(S)
      /\ \A j \in S : Rank(S, j) \in Nat
      /\ \A j \in S : j < i => Rank(S, i) < Rank(S, j)
  BY <1>3, <1>5, Ranks
<1>8. PICK q \in Nat : q = PageOf(v, i) /\ q = Rank(S, i) \div PageSize
  BY <1>1, <1>3, <1>6, <1>7, Division DEF PageOf
<1>9. ASSUME NEW k \in 0..q, k < q PROVE GoesOn(v, k)
  <2>1. k \in Nat
    OBVIOUS
  <2>2. PICK a \in Nat : a = PageSize * k /\ a + PageSize <= PageSize * q
    BY <1>6, <1>9, <2>1, Multiples
  <2>3. a + PageSize <= Rank(S, i)
    <3>1. PICK x \in Nat : x = Rank(S, i)
      BY <1>7
    <3>2. PICK z : z = PageSize * q
      OBVIOUS
    <3>3. z <= x /\ z \in Nat
      <4>1. q = x \div PageSize
        BY <1>8, <3>1
      <4>2. PageSize * (x \div PageSize) <= x
        BY <1>6, Division
      <4>3. PageSize * q \in Nat
        BY <1>6
      <4>4. QED
        BY <3>2, <4>1, <4>2, <4>3
    <3>4. PICK w : w = PageSize
      OBVIOUS
    <3>5. a + w <= z /\ w \in Nat
      BY <1>6, <2>2, <3>2, <3>4
    <3>6. a + w <= x
      BY <3>3, <3>5
    <3>7. QED
      BY <3>1, <3>4, <3>6
  <2>4. PICK T : T = {j \in S : a <= Rank(S, j) /\ Rank(S, j) < a + PageSize}
    OBVIOUS
  <2>5. Cardinality(T) = PageSize
    <3>1. a + PageSize \in Nat /\ a + PageSize <= Cardinality(S) /\ a <= a + PageSize
      BY <1>3, <1>6, <1>7, <2>3
    <3>2. Cardinality(T) = (a + PageSize) - a
      BY <1>3, <2>4, <3>1, RankedBetween
    <3>3. QED
      BY <1>6, <3>2
  <2>6. ASSUME NEW j \in S PROVE PageOf(v, j) = k <=> j \in T
    <3>1. PageOf(v, j) = Rank(S, j) \div PageSize /\ Rank(S, j) \in Nat
      BY <1>1, <1>3, <1>7 DEF PageOf
    <3>2. QED
      BY <1>6, <2>1, <2>2, <2>4, <3>1, Quotient
  <2>7. ASSUME NEW j \in T PROVE j \in Numbers(v, {"doc", "snap"})
    <3>1. j \in S /\ j \in 1..Len(ms) /\ ms[j].kind # "gone" /\ Rank(S, j) \in Nat
      BY <1>2, <1>4, <1>7, <2>4 DEF Visible
    <3>2. Rank(S, j) < Rank(S, i)
      BY <1>6, <1>7, <2>3, <2>4, <3>1
    <3>3. j > i
      BY <1>5, <1>7, <3>1, <3>2
    <3>4. j > 1
      BY <1>5, <3>1, <3>3
    <3>5. ms[j].kind # "service"
      <4>1. SUFFICES ASSUME ms[j].kind = "service" PROVE i \in Behind(v)
        BY <1>1
      <4>2. PageOf(v, j) < PageOf(v, i)
        BY <1>8, <1>9, <2>6, <2>7, <3>1
      <4>3. j \in Numbers(v, {"service"})
        BY <1>1, <1>4, <3>1, <4>1 DEF Numbers
      <4>4. QED
        BY <3>4, <4>2, <4>3 DEF Behind
    <3>6. ms[j].kind \in {"service", "doc", "snap", "gone"}
      <4>1. ms[j] \in Message
        BY <1>4, <3>1, ElementOfSeq
      <4>2. QED
        BY <4>1 DEF Message
    <3>7. QED
      BY <1>1, <1>4, <3>1, <3>5, <3>6 DEF Numbers
  <2>8. \A j \in Numbers(v, {"doc", "snap"}) : j \in S
    BY <1>1, <1>2 DEF Numbers, Visible
  <2>9. InPage(v, k, {"doc", "snap"}) = T
    BY <2>4, <2>6, <2>7, <2>8 DEF InPage
  <2>10. QED
    BY <2>5, <2>9 DEF GoesOn
<1>10. QED
  BY <1>8, <1>9 DEF Scanned

-----------------------------------------------------------------------------
(* Retention. *)

\* The listed snapshots are some of the messages, finitely many.
LEMMA ListedIs ==
    ASSUME NEW ms \in Seq(Message)
    PROVE  Listed(ms) \in SUBSET Nat /\ IsFiniteSet(Listed(ms)) /\ Listed(ms) \subseteq DOMAIN ms
<1>1. Len(ms) \in Nat /\ DOMAIN ms = 1..Len(ms)
  OBVIOUS
<1>2. Listed(ms) \subseteq DOMAIN ms
  BY DEF Listed
<1>3. Listed(ms) \in SUBSET Nat /\ \A j \in Listed(ms) : j <= Len(ms)
  BY <1>1, <1>2
<1>4. QED
  BY <1>1, <1>2, <1>3, FS_BoundedSetOfNaturals

\* A snapshot that PruneSnapshots deletes is older than Keep that it leaves.
LEMMA PrunedKeeps ==
    ASSUME RecoveryAssumption, NEW ms \in Seq(Message), NEW i \in DOMAIN ms,
           ms[i].kind = "snap", Pruned(ms)[i].kind = "gone"
    PROVE  Cardinality({j \in DOMAIN Pruned(ms) : j > i /\ Pruned(ms)[j].kind = "snap"}) >= Keep
<1>1. PICK S : S = Listed(ms)
  OBVIOUS
<1>2. S \in SUBSET Nat /\ IsFiniteSet(S) /\ S \subseteq DOMAIN ms /\ \A j \in S : ms[j].kind = "snap"
  BY <1>1, ListedIs DEF Listed
<1>3. Keep \in Nat \ {0} /\ 0 \in Nat /\ i \in Nat /\ DOMAIN ms = 1..Len(ms) /\ Len(ms) \in Nat
  BY DEF RecoveryAssumption
<1>4. PICK after : after = Pruned(ms)
  OBVIOUS
<1>5. after = [j \in DOMAIN ms |-> IF j \in S /\ Rank(S, j) >= Keep
                                     THEN [kind |-> "gone", db |-> None] ELSE ms[j]]
  <2>1. \A j : Rank(S, j) = Cardinality({l \in Listed(ms) : l > j})
    BY <1>1 DEF Rank, Above
  <2>2. QED
    BY <1>1, <1>4, <2>1 DEF Pruned, Gone
<1>6. i \in S /\ Rank(S, i) >= Keep
  BY <1>4, <1>5
<1>7. /\ Rank(S, i) \in Nat /\ Rank(S, i) <= Cardinality(S) /\ Cardinality(S) \in Nat
      /\ \A j \in S : Rank(S, j) \in Nat
      /\ \A j \in S : j < i => Rank(S, i) < Rank(S, j)
  BY <1>2, <1>3, <1>6, Ranks
<1>8. PICK T : T = {j \in S : 0 <= Rank(S, j) /\ Rank(S, j) < Keep}
  OBVIOUS
<1>9. Cardinality(T) = Keep
  <2>1. Keep <= Cardinality(S) /\ 0 <= Keep
    BY <1>3, <1>6, <1>7
  <2>2. Cardinality(T) = Keep - 0
    BY <1>2, <1>3, <1>8, <2>1, RankedBetween
  <2>3. QED
    BY <1>3, <2>2
<1>10. PICK left : left = {j \in DOMAIN after : j > i /\ after[j].kind = "snap"}
  OBVIOUS
<1>11. ASSUME NEW j \in T PROVE j \in left
  <2>1. j \in S /\ j \in DOMAIN ms /\ j \in Nat /\ Rank(S, j) \in Nat /\ Rank(S, j) < Keep
    BY <1>2, <1>7, <1>8
  <2>2. Rank(S, j) < Rank(S, i)
    BY <1>3, <1>6, <1>7, <2>1
  <2>3. ~(j < i) /\ j # i
    BY <1>7, <2>1, <2>2
  <2>4. j > i
    BY <1>3, <2>1, <2>3
  <2>5. ~(Rank(S, j) >= Keep)
    BY <1>3, <2>1
  <2>6. after[j] = ms[j] /\ j \in DOMAIN after
    BY <1>5, <2>1, <2>5
  <2>7. QED
    BY <1>2, <1>10, <2>1, <2>4, <2>6
<1>12. IsFiniteSet(left) /\ Cardinality(left) \in Nat
  <2>1. left \in SUBSET (1..Len(ms))
    BY <1>3, <1>5, <1>10
  <2>2. IsFiniteSet(1..Len(ms))
    BY <1>3, FS_Interval
  <2>3. QED
    BY <2>1, <2>2, FS_Subset, FS_CardinalityType
<1>13. T \in SUBSET left
  BY <1>11
<1>14. Cardinality(T) <= Cardinality(left)
  BY <1>12, <1>13, FS_Subset
<1>15. QED
  BY <1>3, <1>4, <1>9, <1>10, <1>12, <1>14

-----------------------------------------------------------------------------
(* Which steps touch what. *)

LifeStep == Start \/ Crash \/ LoginEnd \/ Wipe \/ \E v \in Vaults : Login(v) \/ LoginNew(v)

SyncStep ==
    \/ SyncByHand
    \/ \E p \in Syncs : Scan(p) \/ Look(p) \/ InsertRow(p) \/ UpdateRow(p) \/ SyncFails(p) \/ SyncEnds(p)

UserStep ==
    \/ \E u \in Uploads : Commit(u) \/ ReplaceOld(u) \/ CreateRow(u) \/ CreateFails(u)
    \/ \E r \in db.rows : Rename(r) \/ PurgeLooks(r)
    \/ PurgeCalls \/ PurgeCallFails \/ PurgeDeletes

OpStep ==
    \E r \in Requests : \/ BeginCreate(r) \/ BeginRestore(r) \/ Receive(r) \/ LockReceived(r)
                        \/ Swap(r) \/ SwapFails(r) \/ CopyReceived(r) \/ CopyBreaks(r)
                        \/ Reopen(r) \/ ReopenFails(r) \/ Answer(r) \/ Submit(r) \/ Abandon(r)

TaskStep ==
    \/ Health \/ DeleteSnapshot \/ Ensure \/ UploadSnapshot \/ DeleteMessage \/ CallFails \/ HealthEnds
    \/ Fetch \/ FetchFails \/ Replace \/ Copy \/ CopyStops
    \/ \E v \in Vaults : EnsureMakes(v)

\* A step is of the process, of a sync, of a user, of a request or of the worker.
LEMMA Steps == Next => LifeStep \/ SyncStep \/ UserStep \/ OpStep \/ TaskStep
BY DEF Next, LifeStep, SyncStep, UserStep, OpStep, TaskStep

\* What the steps of each group leave alone.
LEMMA LifeLeaves == ASSUME LifeStep PROVE made' = made /\ (others' = others \/ Stop)
BY DEF LifeStep, Start, Crash, LoginEnd, Stop, Wipe, Login, LoginNew, Memory, History

\* A sync touches rows, itself and, when it is by hand, the worker.
LEMMA SyncLeaves ==
    ASSUME SyncStep PROVE UNCHANGED <<vault, host, path, writer, open, stale, cached, up, purge, op, temp, others>>
BY DEF SyncStep, SyncByHand, Scan, Look, InsertRow, UpdateRow, SyncFails, SyncEnds, History

\* Users touch the messages, the rows and what they have begun.
LEMMA UserLeaves ==
    ASSUME UserStep PROVE UNCHANGED <<host, path, writer, open, stale, cached, task, op, temp, others>>
BY DEF UserStep, Commit, ReplaceOld, CreateRow, CreateFails, Rename, PurgeLooks, PurgeCalls,
       PurgeCallFails, PurgeDeletes, Memory, History

\* Requests touch neither the messages nor the process.
LEMMA OpLeaves ==
    ASSUME OpStep PROVE UNCHANGED <<vault, host, cached, up, purge, made>>
BY DEF OpStep, BeginCreate, BeginRestore, Receive, LockReceived, Swap, SwapFails, CopyReceived,
       CopyBreaks, Reopen, ReopenFails, Answer, Submit, Abandon, History

\* The worker does not touch the rows, the handles, nor what users have begun.
LEMMA TaskLeaves ==
    ASSUME TaskStep PROVE UNCHANGED <<host, db, open, stale, sync, up, purge, temp, made>>
BY DEF TaskStep, Health, DeleteSnapshot, StartTask, Ensure, EnsureMakes, UploadSnapshot, DeleteMessage,
       CallFails, HealthEnds, Fetch, FetchFails, Replace, Copy, CopyStops, History

\* The messages: a vault is made, an upload is committed, a snapshot is uploaded, or a message
\* is deleted.
LEMMA VaultMoves ==
    ASSUME Next
    PROVE  \/ vault' = vault
           \/ \E v \in Vaults : vault[v] = <<>> /\ vault' = [vault EXCEPT ![v] = <<Service>>]
           \/ \E u \in Uploads : Commit(u)
           \/ PurgeCalls \/ UploadSnapshot \/ DeleteMessage
<1>1. CASE LifeStep
  BY <1>1 DEF LifeStep, Start, Crash, LoginEnd, Stop, Wipe, Login, LoginNew, Known
<1>2. CASE SyncStep
  BY <1>2, SyncLeaves
<1>3. CASE UserStep
  BY <1>3 DEF UserStep, ReplaceOld, CreateRow, CreateFails, Rename, PurgeLooks, PurgeCallFails,
              PurgeDeletes
<1>4. CASE OpStep
  BY <1>4, OpLeaves
<1>5. CASE TaskStep
  BY <1>5 DEF TaskStep, Health, DeleteSnapshot, StartTask, Ensure, EnsureMakes, CallFails, HealthEnds,
              Fetch, FetchFails, Replace, Copy, CopyStops, Known
<1>6. QED
  BY <1>1, <1>2, <1>3, <1>4, <1>5, Steps

\* The database: rows are inserted, refreshed, renamed or deleted, or it is another one.
LEMMA DbMoves ==
    ASSUME Next
    PROVE  \/ db' = db
           \/ (Crash \/ LoginEnd) /\ Stop
           \/ Wipe
           \/ \E v \in Vaults : Login(v) \/ LoginNew(v)
           \/ \E p \in Syncs : InsertRow(p) \/ UpdateRow(p)
           \/ \E u \in Uploads : ReplaceOld(u) \/ CreateRow(u)
           \/ \E r \in db.rows : Rename(r)
           \/ PurgeDeletes
           \/ \E r \in Requests : Reopen(r)
<1>1. CASE LifeStep
  BY <1>1 DEF LifeStep, Start, Crash, LoginEnd
<1>2. CASE SyncStep
  BY <1>2 DEF SyncStep, SyncByHand, Scan, Look, SyncFails, SyncEnds
<1>3. CASE UserStep
  BY <1>3 DEF UserStep, Commit, CreateFails, PurgeLooks, PurgeCalls, PurgeCallFails
<1>4. CASE OpStep
  BY <1>4 DEF OpStep, BeginCreate, BeginRestore, Receive, LockReceived, Swap, SwapFails, CopyReceived,
              CopyBreaks, ReopenFails, Answer, Submit, Abandon
<1>5. CASE TaskStep
  BY <1>5, TaskLeaves
<1>6. QED
  BY <1>1, <1>2, <1>3, <1>4, <1>5, Steps

\* The file at DBPath.
LEMMA PathMoves ==
    ASSUME Next
    PROVE  \/ path' = path
           \/ (Crash \/ LoginEnd) /\ Stop
           \/ Wipe
           \/ \E r \in Requests : Swap(r) \/ CopyReceived(r) \/ Reopen(r)
           \/ Replace \/ Copy
<1>1. CASE LifeStep
  BY <1>1 DEF LifeStep, Start, Crash, LoginEnd, Login, LoginNew
<1>2. CASE SyncStep
  BY <1>2, SyncLeaves
<1>3. CASE UserStep
  BY <1>3, UserLeaves
<1>4. CASE OpStep
  BY <1>4 DEF OpStep, BeginCreate, BeginRestore, Receive, LockReceived, SwapFails,
              CopyBreaks, ReopenFails, Answer, Submit, Abandon
<1>5. CASE TaskStep
  BY <1>5 DEF TaskStep, Health, DeleteSnapshot, StartTask, Ensure, EnsureMakes, UploadSnapshot,
              DeleteMessage, CallFails, HealthEnds, Fetch, FetchFails, CopyStops
<1>6. QED
  BY <1>1, <1>2, <1>3, <1>4, <1>5, Steps

\* Whose file it is.
LEMMA WriterMoves ==
    ASSUME Next
    PROVE  \/ writer' = writer
           \/ writer' = None /\ (Stop \/ Replace)
           \/ \E r \in Requests : Swap(r) /\ writer' = r
<1>1. CASE LifeStep
  BY <1>1 DEF LifeStep, Start, Crash, LoginEnd, Stop, Wipe, Login, LoginNew
<1>2. CASE SyncStep
  BY <1>2, SyncLeaves
<1>3. CASE UserStep
  BY <1>3, UserLeaves
<1>4. CASE OpStep
  BY <1>4 DEF OpStep, BeginCreate, BeginRestore, Receive, LockReceived, Swap, SwapFails, CopyReceived,
              CopyBreaks, Reopen, ReopenFails, Answer, Submit, Abandon
<1>5. CASE TaskStep
  BY <1>5 DEF TaskStep, Health, DeleteSnapshot, StartTask, Ensure, EnsureMakes, UploadSnapshot,
              DeleteMessage, CallFails, HealthEnds, Fetch, FetchFails, Replace, Copy, CopyStops
<1>6. QED
  BY <1>1, <1>2, <1>3, <1>4, <1>5, Steps

\* The temporary file.
LEMMA TempMoves ==
    ASSUME Next
    PROVE  \/ temp' = temp
           \/ temp' = None
           \/ \E r \in Requests : Receive(r)
<1>1. CASE LifeStep
  BY <1>1 DEF LifeStep, Start, Crash, LoginEnd, Stop, Wipe, Login, LoginNew
<1>2. CASE SyncStep
  BY <1>2, SyncLeaves
<1>3. CASE UserStep
  BY <1>3, UserLeaves
<1>4. CASE OpStep
  BY <1>4 DEF OpStep, BeginCreate, BeginRestore, LockReceived, Swap, SwapFails, CopyReceived,
              CopyBreaks, Reopen, ReopenFails, Answer, Submit, Abandon
<1>5. CASE TaskStep
  BY <1>5, TaskLeaves
<1>6. QED
  BY <1>1, <1>2, <1>3, <1>4, <1>5, Steps

\* The identifiers of rows.
LEMMA MadeMoves ==
    ASSUME Next
    PROVE  \/ made' = made
           \/ \E i : made' = [made EXCEPT ![i] = @ + 1]
<1>1. CASE LifeStep
  BY <1>1, LifeLeaves
<1>2. CASE SyncStep
  BY <1>2 DEF SyncStep, SyncByHand, Scan, Look, InsertRow, Insert, UpdateRow, SyncFails, SyncEnds, History
<1>3. CASE UserStep
  BY <1>3 DEF UserStep, Commit, ReplaceOld, CreateRow, Insert, CreateFails, Rename, PurgeLooks,
              PurgeCalls, PurgeCallFails, PurgeDeletes, History
<1>4. CASE OpStep
  BY <1>4, OpLeaves
<1>5. CASE TaskStep
  BY <1>5, TaskLeaves
<1>6. QED
  BY <1>1, <1>2, <1>3, <1>4, <1>5, Steps

\* The worker.
LEMMA TaskMoves ==
    ASSUME Next
    PROVE  \/ task' = task
           \/ Stop
           \/ SyncFails("manual") \/ SyncEnds("manual")
           \/ task.pc \in {"act", "copy"} /\ \E ok \in BOOLEAN : Finish(ok)
           \/ SyncByHand \/ Health \/ DeleteSnapshot
           \/ \E r \in Requests : Submit(r)
           \/ task.pc = "ensure" /\ task' = [task EXCEPT !.pc = "act"]
           \/ Fetch \/ Replace
<1>1. CASE LifeStep
  BY <1>1 DEF LifeStep, Start, Crash, LoginEnd, Wipe, Login, LoginNew, Memory
<1>2. CASE SyncStep
  <2>1. ASSUME NEW p \in Syncs, SyncFails(p) \/ SyncEnds(p), p # "manual" PROVE task' = task
    BY <2>1 DEF SyncFails, SyncEnds, Release
  <2>2. QED
    BY <1>2, <2>1 DEF SyncStep, Scan, Look, InsertRow, UpdateRow
<1>3. CASE UserStep
  BY <1>3, UserLeaves
<1>4. CASE OpStep
  BY <1>4 DEF OpStep, BeginCreate, BeginRestore, Receive, LockReceived, Swap, SwapFails, CopyReceived,
              CopyBreaks, Reopen, ReopenFails, Answer, Abandon
<1>5. CASE TaskStep
  BY <1>5 DEF TaskStep, Ensure, EnsureMakes, UploadSnapshot,
              DeleteMessage, CallFails, HealthEnds, FetchFails, Copy, CopyStops, Acting
<1>6. QED
  BY <1>1, <1>2, <1>3, <1>4, <1>5, Steps

\* The syncs.
LEMMA SyncMoves ==
    ASSUME Next
    PROVE  \/ sync' = sync
           \/ (Crash \/ LoginEnd) /\ Stop
           \/ host = "off" /\ sync' = [sync EXCEPT !["start"] = [NoSync EXCEPT !.pc = "scan"]]
           \/ SyncByHand
           \/ \E p \in Syncs : \/ Scan(p) \/ Look(p) \/ InsertRow(p) \/ UpdateRow(p)
                               \/ SyncFails(p) \/ SyncEnds(p)
           \/ \E u \in Uploads : ReplaceOld(u)
           \/ PurgeDeletes
           \/ \E r \in Requests : Reopen(r)
<1>1. CASE LifeStep
  BY <1>1 DEF LifeStep, Start, Crash, LoginEnd, Wipe, Login, LoginNew, Memory
<1>2. CASE SyncStep
  BY <1>2 DEF SyncStep
<1>3. CASE UserStep
  BY <1>3 DEF UserStep, Commit, CreateRow, CreateFails, Rename, PurgeLooks, PurgeCalls,
              PurgeCallFails, Memory
<1>4. CASE OpStep
  BY <1>4 DEF OpStep, BeginCreate, BeginRestore, Receive, LockReceived, Swap, SwapFails, CopyReceived,
              CopyBreaks, ReopenFails, Answer, Submit, Abandon
<1>5. CASE TaskStep
  BY <1>5, TaskLeaves
<1>6. QED
  BY <1>1, <1>2, <1>3, <1>4, <1>5, Steps

\* Ends of uploads.
LEMMA UpMoves ==
    ASSUME Next
    PROVE  \/ up' = up
           \/ (Crash \/ LoginEnd) /\ Stop
           \/ \E u \in Uploads : Commit(u) \/ ReplaceOld(u) \/ up' = [up EXCEPT ![u] = Ended]
<1>1. CASE LifeStep
  BY <1>1 DEF LifeStep, Start, Crash, LoginEnd, Wipe, Login, LoginNew, Memory
<1>2. CASE SyncStep
  BY <1>2, SyncLeaves
<1>3. CASE UserStep
  BY <1>3 DEF UserStep, CreateRow, CreateFails, Rename, PurgeLooks, PurgeCalls,
              PurgeCallFails, PurgeDeletes, Memory
<1>4. CASE OpStep
  BY <1>4, OpLeaves
<1>5. CASE TaskStep
  BY <1>5, TaskLeaves
<1>6. QED
  BY <1>1, <1>2, <1>3, <1>4, <1>5, Steps

\* The purge.
LEMMA PurgeMoves ==
    ASSUME Next
    PROVE  \/ purge' = purge
           \/ purge' = NoPurge
           \/ \E r \in db.rows : PurgeLooks(r)
           \/ purge.pc = "call" /\ purge' = [purge EXCEPT !.pc = "delete"]
<1>1. CASE LifeStep
  BY <1>1 DEF LifeStep, Start, Crash, LoginEnd, Stop, Wipe, Login, LoginNew, Memory
<1>2. CASE SyncStep
  BY <1>2, SyncLeaves
<1>3. CASE UserStep
  BY <1>3 DEF UserStep, Commit, ReplaceOld, CreateRow, CreateFails, Rename, PurgeCalls,
              PurgeCallFails, PurgeDeletes, Memory
<1>4. CASE OpStep
  BY <1>4, OpLeaves
<1>5. CASE TaskStep
  BY <1>5, TaskLeaves
<1>6. QED
  BY <1>1, <1>2, <1>3, <1>4, <1>5, Steps

\* The requests.
LEMMA OpMoves ==
    ASSUME Next
    PROVE  \/ op' = op
           \/ (Crash \/ LoginEnd) /\ Stop
           \/ OpStep
           \/ \E ok \in BOOLEAN : Finish(ok) /\ TaskStep
<1>1. CASE LifeStep
  BY <1>1 DEF LifeStep, Start, Crash, LoginEnd, Wipe, Login, LoginNew, Memory
<1>2. CASE SyncStep
  BY <1>2, SyncLeaves
<1>3. CASE UserStep
  BY <1>3, UserLeaves
<1>4. CASE TaskStep
  BY <1>4 DEF TaskStep, Health, DeleteSnapshot, StartTask, Ensure, EnsureMakes, UploadSnapshot,
              DeleteMessage, CallFails, HealthEnds, Fetch, FetchFails, Replace, Copy, CopyStops
<1>5. QED
  BY <1>1, <1>2, <1>3, <1>4, Steps

\* The process, its handles and the vault the manager has in memory.
LEMMA HostMoves ==
    ASSUME Next
    PROVE  \/ UNCHANGED <<host, open, stale, cached>>
           \/ (Crash \/ LoginEnd) /\ Stop
           \/ Start
           \/ \E v \in Vaults : Login(v) \/ LoginNew(v)
           \/ OpStep /\ UNCHANGED <<host, cached>>
           \/ Ensure
           \/ \E v \in Vaults : EnsureMakes(v)
<1>1. CASE LifeStep
  BY <1>1 DEF LifeStep, Crash, LoginEnd, Wipe, Memory
<1>2. CASE SyncStep
  BY <1>2, SyncLeaves
<1>3. CASE UserStep
  BY <1>3, UserLeaves
<1>4. CASE OpStep
  BY <1>4, OpLeaves
<1>5. CASE TaskStep
  BY <1>5 DEF TaskStep, Health, DeleteSnapshot, StartTask, UploadSnapshot,
              DeleteMessage, CallFails, HealthEnds, Fetch, FetchFails, Replace, Copy, CopyStops
<1>6. QED
  BY <1>1, <1>2, <1>3, <1>4, <1>5, Steps

\* The history of what others have put in place: it grows until the request has its answer.
LEMMA OthersMoves ==
    ASSUME Next, DOMAIN others = Requests
    PROVE  /\ DOMAIN others' = Requests
           /\ \A r \in Requests : others[r] \subseteq others'[r] \/ Answer(r) \/ Stop
<1>1. ASSUME NEW rs, NEW d, InPlace(rs, d)
      PROVE  DOMAIN others' = Requests /\ \A r \in Requests : others[r] \subseteq others'[r]
  BY <1>1 DEF InPlace
<1>2. ASSUME NEW q \in Requests, Answer(q)
      PROVE  /\ DOMAIN others' = Requests
             /\ \A r \in Requests : others[r] \subseteq others'[r] \/ Answer(r)
  <2>1. others' = [others EXCEPT ![q] = {}]
    BY <1>2 DEF Answer
  <2>2. \A r \in Requests : r # q => others'[r] = others[r]
    BY <2>1
  <2>3. QED
    BY <1>2, <2>1, <2>2
<1>3. ASSUME NEW q \in Requests, Receive(q) PROVE \E rs, d : InPlace(rs, d)
  BY <1>3 DEF Receive
<1>4. CASE OpStep
  <2>1. ASSUME NEW q \in Requests, ~Receive(q), ~Answer(q),
               \/ BeginCreate(q) \/ BeginRestore(q) \/ LockReceived(q)
               \/ Swap(q) \/ SwapFails(q) \/ CopyReceived(q) \/ CopyBreaks(q)
               \/ Reopen(q) \/ ReopenFails(q) \/ Submit(q) \/ Abandon(q)
        PROVE  others' = others
    BY <2>1 DEF BeginCreate, BeginRestore, LockReceived, Swap, SwapFails, CopyReceived, CopyBreaks,
                Reopen, ReopenFails, Submit, Abandon, History
  <2>2. QED
    BY <1>1, <1>2, <1>3, <1>4, <2>1 DEF OpStep
<1>5. CASE TaskStep
  <2>1. ASSUME Fetch \/ Replace \/ Copy PROVE others' = others \/ \E rs, d : InPlace(rs, d)
    BY <2>1 DEF Fetch, Replace, Copy
  <2>2. ASSUME ~Fetch, ~Replace, ~Copy PROVE others' = others
    BY <1>5, <2>2 DEF TaskStep, Health, DeleteSnapshot, StartTask, Ensure, EnsureMakes, UploadSnapshot,
                      DeleteMessage, CallFails, HealthEnds, FetchFails, CopyStops, History
  <2>3. QED
    BY <1>1, <2>1, <2>2
<1>6. CASE Stop
  BY <1>6 DEF Stop
<1>7. QED
  BY <1>4, <1>5, <1>6, Steps, LifeLeaves, SyncLeaves, UserLeaves

-----------------------------------------------------------------------------
(* Types. *)

\* What the assumption gives, fact by fact.
LEMMA Constants ==
    ASSUME RecoveryAssumption
    PROVE  /\ None \notin Vaults /\ None \notin Requests /\ MaxMessages \in Nat /\ 1 \in 1..MaxMessages
           /\ OldVaults \subseteq Vaults /\ Len(OldMessages) \in 1..MaxMessages
           /\ OldMessages \in [1..Len(OldMessages) -> {"service", "doc", "snap"}]
<1>1. OldMessages \in Seq({"service", "doc", "snap"}) /\ OldMessages # <<>> /\ Len(OldMessages) <= MaxMessages
      /\ MaxMessages \in Nat
  BY DEF RecoveryAssumption
<1>2. Len(OldMessages) \in Nat /\ Len(OldMessages) # 0
  BY <1>1, EmptySeq
<1>3. Len(OldMessages) \in 1..MaxMessages /\ 1 \in 1..MaxMessages
  BY <1>1, <1>2
<1>4. OldMessages \in [1..Len(OldMessages) -> {"service", "doc", "snap"}]
  BY <1>1
<1>5. QED
  BY <1>1, <1>3, <1>4 DEF RecoveryAssumption

\* The types of what is at rest.
LEMMA Idles ==
    ASSUME RecoveryAssumption
    PROVE  /\ NoTask \in TaskSort /\ NoSync \in SyncSort /\ NoPurge \in Purge /\ NoOp \in OpSort
           /\ NoUpload \in UpSort /\ Ended \in UpSort /\ Ended.pc = "done" /\ NoUpload.pc = "idle"
           /\ Service \in Message /\ Document \in Message
           /\ Service.kind = "service" /\ Document.kind = "doc"
<1>1. NoTask \in TaskSort
  BY DEF NoTask, TaskSort, TaskKind
<1>2. NoSync \in SyncSort
  BY DEF NoSync, SyncSort, SyncPc
<1>3. MaxMessages \in Nat
  BY Constants
<1>4. NoPurge \in Purge /\ NoUpload \in UpSort /\ NoUpload.pc = "idle"
  BY <1>3 DEF NoPurge, Purge, NoUpload, UpSort
<1>5. NoOp \in OpSort
  BY DEF NoOp, OpSort, OpPc, Content
<1>6. Ended \in UpSort /\ Ended.pc = "done"
  BY <1>3 DEF Ended, NoUpload, UpSort
<1>7. Service \in Message /\ Document \in Message /\ Service.kind = "service" /\ Document.kind = "doc"
  BY DEF Service, Document, Message
<1>8. QED
  BY <1>1, <1>2, <1>4, <1>5, <1>6, <1>7

\* A database stays sound while more identifiers are handed out.
LEMMA SoundGrows ==
    ASSUME NEW d, NEW m \in [1..MaxMessages -> Nat], NEW n \in [1..MaxMessages -> Nat],
           \A i \in 1..MaxMessages : m[i] <= n[i]
    PROVE  (Sound(d, m) => Sound(d, n)) /\ (Bound(d, m) => Bound(d, n))
<1>1. ASSUME Sound(d, m) PROVE Sound(d, n)
  <2>1. ASSUME NEW r \in d.rows PROVE r.id[1] = r.i /\ r.id[2] < n[r.i]
    <3>1. r.id[1] = r.i /\ r.id[2] < m[r.i] /\ r \in Row
      BY <1>1 DEF Sound, Db
    <3>2. r.i \in 1..MaxMessages /\ r.id[2] \in Nat
      BY <3>1 DEF Row
    <3>3. m[r.i] <= n[r.i] /\ m[r.i] \in Nat /\ n[r.i] \in Nat
      BY <3>2
    <3>4. r.id[2] < n[r.i]
      BY <3>1, <3>2, <3>3
    <3>5. QED
      BY <3>1, <3>4
  <2>2. QED
    BY <1>1, <2>1 DEF Sound
<1>2. QED
  BY <1>1 DEF Bound

\* No identifier is handed out twice.
LEMMA MadeGrows ==
    ASSUME FilesTyped, Next
    PROVE  made' \in [1..MaxMessages -> Nat] /\ \A i \in 1..MaxMessages : made[i] <= made'[i]
<1>1. made \in [1..MaxMessages -> Nat]
  BY DEF FilesTyped
<1>2. CASE made' = made
  <2>1. \A i \in 1..MaxMessages : made[i] \in Nat
    BY <1>1
  <2>2. QED
    BY <1>1, <1>2, <2>1
<1>3. ASSUME NEW i, made' = [made EXCEPT ![i] = @ + 1]
      PROVE  made' \in [1..MaxMessages -> Nat] /\ \A j \in 1..MaxMessages : made[j] <= made'[j]
  <2>1. \A j \in 1..MaxMessages : made[j] \in Nat /\ made'[j] = (IF j = i THEN made[j] + 1 ELSE made[j])
    BY <1>1, <1>3
  <2>2. \A j \in 1..MaxMessages : made'[j] \in Nat /\ made[j] <= made'[j]
    BY <2>1
  <2>3. made' \in [1..MaxMessages -> Nat]
    <3>1. PICK n : n = made[i] + 1
      OBVIOUS
    <3>2. made' = [made EXCEPT ![i] = n] /\ (i \in 1..MaxMessages => n \in Nat)
      BY <1>1, <1>3, <3>1
    <3>3. QED
      BY <1>1, <3>2
  <2>4. QED
    BY <2>2, <2>3
<1>4. QED
  BY <1>2, <1>3, MadeMoves

\* What is sound stays sound in every step.
LEMMA StaySound ==
    ASSUME FilesTyped, Next, NEW d
    PROVE  (Sound(d, made) => Sound(d, made')) /\ (Bound(d, made) => Bound(d, made'))
<1>1. /\ made \in [1..MaxMessages -> Nat] /\ made' \in [1..MaxMessages -> Nat]
      /\ \A i \in 1..MaxMessages : made[i] <= made'[i]
  BY MadeGrows DEF FilesTyped
<1>2. PICK m : m = made
  OBVIOUS
<1>3. PICK n : n = made'
  OBVIOUS
<1>4. (Sound(d, m) => Sound(d, n)) /\ (Bound(d, m) => Bound(d, n))
  BY <1>1, <1>2, <1>3, SoundGrows
<1>5. QED
  BY <1>2, <1>3, <1>4

-----------------------------------------------------------------------------
(* Messages. *)

\* Messages may be deleted.
LEMMA GoneIs ==
    ASSUME NEW ms \in Seq(Message), NEW S, NEW m, Holding(ms, m)
    PROVE  Holding(Gone(ms, S), m) /\ Grown(ms, Gone(ms, S))
<1>1. Len(ms) \in Nat /\ DOMAIN ms = 1..Len(ms) /\ \A i \in 1..Len(ms) : ms[i] \in Message
  BY ElementOfSeq
<1>2. PICK g : g = [kind |-> "gone", db |-> None]
  OBVIOUS
<1>3. g \in Message /\ g.kind = "gone"
  BY <1>2 DEF Message
<1>4. PICK ns : ns = [i \in 1..Len(ms) |-> IF i \in S THEN g ELSE ms[i]]
  OBVIOUS
<1>5. ns = Gone(ms, S)
  BY <1>1, <1>2, <1>4 DEF Gone
<1>6. ns \in Seq(Message) /\ Len(ns) = Len(ms)
  <2>1. \A i \in 1..Len(ms) : ns[i] \in Message
    BY <1>1, <1>3, <1>4
  <2>2. ns \in Seq(Message)
    BY <1>1, <1>4, <2>1, IsASeq
  <2>3. DOMAIN ns = 1..Len(ms) /\ DOMAIN ns = 1..Len(ns) /\ Len(ns) \in Nat
    BY <1>4, <2>2
  <2>4. QED
    BY <1>1, <2>2, <2>3
<1>7. \A i \in 1..Len(ms) : ns[i] = ms[i] \/ ns[i].kind = "gone"
  BY <1>3, <1>4
<1>8. QED
  BY <1>1, <1>5, <1>6, <1>7 DEF Holding, Grown

\* A message may be appended.
LEMMA AppendedIs ==
    ASSUME RecoveryAssumption, NEW ms \in Seq(Message), NEW m, Holding(ms, m), NEW x \in Message,
           x.kind = "snap" => Bound(x.db, m), Len(ms) + 1 <= MaxMessages
    PROVE  /\ Holding(Append(ms, x), m) /\ Grown(ms, Append(ms, x)) /\ Len(Append(ms, x)) = Len(ms) + 1
           /\ Append(ms, x) \in Seq(Message) /\ \A i \in 1..Len(ms) : Append(ms, x)[i] = ms[i]
<1>1. Len(ms) \in Nat /\ MaxMessages \in Nat
  BY Constants
<1>2. PICK ns : ns = Append(ms, x)
  OBVIOUS
<1>3. ns \in Seq(Message) /\ Len(ns) = Len(ms) + 1 /\ ns[Len(ms) + 1] = x
      /\ \A i \in 1..Len(ms) : ns[i] = ms[i]
  BY <1>2, AppendProperties
<1>4. \A i \in 1..Len(ns) : i \in 1..Len(ms) \/ i = Len(ms) + 1
  BY <1>1, <1>3
<1>5. \A i \in 1..Len(ns) : ns[i].kind = "snap" => Bound(ns[i].db, m)
  BY <1>3, <1>4 DEF Holding
<1>6. Len(ns) <= MaxMessages /\ Len(ms) <= Len(ns)
  BY <1>1, <1>3
<1>7. QED
  BY <1>2, <1>3, <1>5, <1>6 DEF Holding, Grown

\* Two changes make one.
LEMMA GrownTwice ==
    ASSUME NEW ms \in Seq(Message), NEW ns \in Seq(Message), NEW os \in Seq(Message),
           Grown(ms, ns), Grown(ns, os)
    PROVE  Grown(ms, os)
<1>1. Len(ms) \in Nat /\ Len(ns) \in Nat /\ Len(os) \in Nat /\ Len(ms) <= Len(ns) /\ Len(ns) <= Len(os)
  BY DEF Grown
<1>2. ASSUME NEW i \in 1..Len(ms) PROVE os[i] = ms[i] \/ os[i].kind = "gone"
  <2>1. i \in 1..Len(ns)
    BY <1>1
  <2>2. QED
    BY <2>1 DEF Grown
<1>3. Len(ms) <= Len(os)
  BY <1>1
<1>4. QED
  BY <1>2, <1>3 DEF Grown

\* What UploadSnapshot leaves in the vault.
LEMMA UploadedIs ==
    ASSUME RecoveryAssumption, NEW old \in Seq(Message), NEW m, Holding(old, m), Len(old) + 2 <= MaxMessages,
           NEW d \in Db, Bound(d, m), NEW pin \in {<<>>, <<Service>>}, NEW ms,
           ms = old \o <<[kind |-> "snap", db |-> d]>> \o pin
    PROVE  /\ ms \in Seq(Message) /\ Holding(ms, m) /\ Grown(old, ms)
           /\ \A i \in 1..Len(old) : ms[i] = old[i]
           /\ Holding(Pruned(ms), m) /\ Grown(old, Pruned(ms))
<1>1. PICK x : x = [kind |-> "snap", db |-> d]
  OBVIOUS
<1>2. x \in Message /\ x.kind = "snap" /\ x.db = d
  BY <1>1 DEF Message
<1>3. Len(old) \in Nat /\ MaxMessages \in Nat /\ Service \in Message /\ Service.kind = "service"
  BY Constants, Idles
<1>4. PICK one : one = Append(old, x)
  OBVIOUS
<1>5. /\ one \in Seq(Message) /\ Holding(one, m) /\ Grown(old, one) /\ Len(one) = Len(old) + 1
      /\ \A i \in 1..Len(old) : one[i] = old[i]
  BY <1>2, <1>3, <1>4, AppendedIs
<1>6. one = old \o <<x>>
  BY <1>2, <1>4, AppendIsConcat
<1>7. ASSUME ms \in Seq(Message), Holding(ms, m), Grown(old, ms)
      PROVE  Holding(Pruned(ms), m) /\ Grown(old, Pruned(ms))
  <2>1. Holding(Pruned(ms), m) /\ Grown(ms, Pruned(ms))
    BY <1>7, GoneIs DEF Pruned
  <2>2. Pruned(ms) \in Seq(Message)
    BY <2>1 DEF Holding
  <2>3. Grown(old, Pruned(ms))
    BY <1>7, <2>1, <2>2, GrownTwice
  <2>4. QED
    BY <2>1, <2>3
<1>8. CASE pin = <<>>
  <2>1. ms = one
    BY <1>1, <1>5, <1>6, <1>8, ConcatEmptySeq
  <2>2. /\ ms \in Seq(Message) /\ Holding(ms, m) /\ Grown(old, ms)
        /\ \A i \in 1..Len(old) : ms[i] = old[i]
    BY <1>5, <2>1
  <2>3. QED
    BY <1>7, <2>2
<1>9. CASE pin = <<Service>>
  <2>1. ms = Append(one, Service)
    BY <1>1, <1>3, <1>5, <1>6, <1>9, AppendIsConcat
  <2>2. /\ ms \in Seq(Message) /\ Holding(ms, m) /\ Grown(one, ms) /\ \A i \in 1..Len(one) : ms[i] = one[i]
    <3>1. Len(one) + 1 <= MaxMessages
      BY <1>3, <1>5
    <3>2. Service.kind = "snap" => Bound(Service.db, m)
      BY <1>3
    <3>3. one \in Seq(Message) /\ Service \in Message /\ Holding(one, m)
      BY <1>3, <1>5
    <3>4. Append(one, Service) \in Seq(Message)
      BY <3>3, AppendProperties
    <3>5. Holding(Append(one, Service), m)
      BY <3>1, <3>2, <3>3, AppendedIs
    <3>6. Grown(one, Append(one, Service))
      BY <3>1, <3>2, <3>3, AppendedIs
    <3>7. \A i \in 1..Len(one) : Append(one, Service)[i] = one[i]
      BY <3>1, <3>2, <3>3, AppendedIs
    <3>8. QED
      BY <2>1, <3>4, <3>5, <3>6, <3>7
  <2>3. \A i \in 1..Len(old) : i \in 1..Len(one)
    BY <1>3, <1>5
  <2>4. Grown(old, ms) /\ \A i \in 1..Len(old) : ms[i] = old[i]
    BY <1>5, <2>2, <2>3, GrownTwice
  <2>5. QED
    BY <1>7, <2>2, <2>4
<1>10. QED
  BY <1>8, <1>9

\* The process is up while something goes on in it.
LEMMA Up ==
    ASSUME HostTyped
    PROVE  /\ host # "off" => cached \in Vaults /\ db.bound \in Vaults
           /\ task # NoTask => host # "off"
           /\ purge # NoPurge => host # "off"
           /\ open => host # "off"
           /\ \A p \in Syncs : sync[p] # NoSync => host # "off"
           /\ \A r \in Requests : op[r] # NoOp => host # "off"
<1>1. ASSUME host = "off"
      PROVE  /\ ~open /\ task = NoTask /\ purge = NoPurge
             /\ \A p \in Syncs : sync[p] = NoSync
             /\ \A r \in Requests : op[r] = NoOp
  BY <1>1 DEF HostTyped
<1>2. ASSUME host # "off" PROVE cached \in Vaults /\ db.bound \in Vaults
  BY <1>2 DEF HostTyped
<1>3. QED
  BY <1>1, <1>2

\* One vault gets other messages.
LEMMA VaultBecomes ==
    ASSUME VaultsTyped, FilesTyped, Next, NEW v \in Vaults, NEW ns \in Seq(Message),
           Holding(ns, made), Grown(vault[v], ns), vault' = [vault EXCEPT ![v] = ns]
    PROVE  VaultsTyped' /\ \A w \in Vaults : Grown(vault[w], vault'[w])
<1>1. vault \in [Vaults -> Seq(Message)] /\ \A w \in Vaults : Holding(vault[w], made)
  BY DEF VaultsTyped
<1>2. ASSUME NEW ms, Holding(ms, made) PROVE Holding(ms, made')
  BY <1>2, StaySound DEF Holding
<1>3. \A w \in Vaults : vault'[w] = IF w = v THEN ns ELSE vault[w]
  BY <1>1
<1>4. vault' \in [Vaults -> Seq(Message)]
  BY <1>1
<1>5. \A w \in Vaults : Holding(vault'[w], made')
  BY <1>1, <1>2, <1>3
<1>6. ASSUME NEW w \in Vaults PROVE Grown(vault[w], vault'[w])
  <2>1. Len(vault[w]) \in Nat
    BY <1>1
  <2>2. Grown(vault[w], vault[w])
    BY <2>1 DEF Grown
  <2>3. QED
    BY <1>3, <2>2
<1>7. QED
  BY <1>4, <1>5, <1>6 DEF VaultsTyped

\* The messages of every vault keep their numbers and their kinds, or are deleted.
LEMMA VaultStep ==
    ASSUME RecoveryAssumption, Typed, Next
    PROVE  VaultsTyped' /\ \A w \in Vaults : Grown(vault[w], vault'[w])
<1>1. /\ VaultsTyped /\ FilesTyped /\ HostTyped /\ TaskTyped /\ PurgeTyped
      /\ vault \in [Vaults -> Seq(Message)] /\ \A v \in Vaults : Holding(vault[v], made)
  BY DEF Typed, VaultsTyped
<1>2. CASE vault' = vault
  <2>1. ASSUME NEW w \in Vaults PROVE Holding(vault[w], made') /\ Grown(vault[w], vault[w])
    <3>1. Len(vault[w]) \in Nat
      BY <1>1
    <3>2. QED
      BY <1>1, <3>1, StaySound DEF Holding, Grown
  <2>2. QED
    BY <1>1, <1>2, <2>1 DEF VaultsTyped
<1>3. ASSUME NEW v \in Vaults, vault[v] = <<>>, vault' = [vault EXCEPT ![v] = <<Service>>]
      PROVE  VaultsTyped' /\ \A w \in Vaults : Grown(vault[w], vault'[w])
  <2>1. PICK ns : ns = <<Service>>
    OBVIOUS
  <2>2. ns \in Seq(Message) /\ Len(ns) = 1 /\ ns[1] = Service
    BY <2>1, Idles
  <2>3. Holding(ns, made)
    BY <2>2, Idles, Constants DEF Holding
  <2>4. Grown(vault[v], ns)
    BY <1>3, <2>2, EmptySeq DEF Grown
  <2>5. QED
    BY <1>1, <1>3, <2>1, <2>2, <2>3, <2>4, VaultBecomes
<1>4. ASSUME NEW u \in Uploads, Commit(u)
      PROVE  VaultsTyped' /\ \A w \in Vaults : Grown(vault[w], vault'[w])
  <2>1. cached \in Vaults /\ Len(vault[cached]) + 1 <= MaxMessages
    BY <1>1, <1>4, Up DEF Commit, Room
  <2>2. PICK ns : ns = Append(vault[cached], Document)
    OBVIOUS
  <2>3. ns \in Seq(Message) /\ Holding(ns, made) /\ Grown(vault[cached], ns)
    BY <1>1, <2>1, <2>2, Idles, AppendedIs
  <2>4. vault' = [vault EXCEPT ![cached] = ns]
    BY <1>4, <2>2 DEF Commit
  <2>5. QED
    BY <1>1, <2>1, <2>3, <2>4, VaultBecomes
<1>5. ASSUME NEW S, cached \in Vaults, vault' = [vault EXCEPT ![cached] = Gone(vault[cached], S)]
      PROVE  VaultsTyped' /\ \A w \in Vaults : Grown(vault[w], vault'[w])
  <2>1. PICK ns : ns = Gone(vault[cached], S)
    OBVIOUS
  <2>2. Holding(ns, made) /\ Grown(vault[cached], ns)
    BY <1>1, <1>5, <2>1, GoneIs
  <2>3. QED
    BY <1>1, <1>5, <2>1, <2>2, VaultBecomes DEF Holding
<1>6. CASE PurgeCalls
  <2>1. cached \in Vaults
    BY <1>1, <1>6, Up DEF PurgeCalls, NoPurge
  <2>2. QED
    BY <1>5, <1>6, <2>1 DEF PurgeCalls
<1>7. CASE DeleteMessage
  <2>1. cached \in Vaults
    BY <1>1, <1>7, Up DEF DeleteMessage, Acting, NoTask
  <2>2. QED
    BY <1>5, <1>7, <2>1 DEF DeleteMessage
<1>8. CASE UploadSnapshot
  <2>1. cached \in Vaults /\ Len(vault[cached]) + 2 <= MaxMessages
    BY <1>1, <1>8, Up DEF UploadSnapshot, Acting, NoTask, Room
  <2>2. task.db \in Db /\ Bound(task.db, made)
    BY <1>1, <1>8 DEF TaskTyped, UploadSnapshot, Acting, Bound, Sound
  <2>3. PICK pin \in {<<>>, <<Service>>} :
           \E kept : /\ LET ms == vault[cached] \o <<[kind |-> "snap", db |-> task.db]>> \o pin
                        IN  kept \in {ms, Pruned(ms)}
                     /\ vault' = [vault EXCEPT ![cached] = kept]
    BY <1>8 DEF UploadSnapshot
  <2>4. PICK ms : ms = vault[cached] \o <<[kind |-> "snap", db |-> task.db]>> \o pin
    OBVIOUS
  <2>5. PICK kept : kept \in {ms, Pruned(ms)} /\ vault' = [vault EXCEPT ![cached] = kept]
    BY <2>3, <2>4
  <2>6. Holding(kept, made) /\ Grown(vault[cached], kept)
    <3>1. /\ Holding(ms, made) /\ Grown(vault[cached], ms)
          /\ Holding(Pruned(ms), made) /\ Grown(vault[cached], Pruned(ms))
      BY <1>1, <2>1, <2>2, <2>4, UploadedIs
    <3>2. QED
      BY <2>5, <3>1
  <2>7. QED
    BY <1>1, <2>1, <2>5, <2>6, VaultBecomes DEF Holding
<1>9. QED
  BY <1>2, <1>3, <1>4, <1>6, <1>7, <1>8, VaultMoves

-----------------------------------------------------------------------------
(* Databases. *)

\* Other rows, another binding.
LEMMA RowsAre ==
    ASSUME NEW d \in Db, NEW S \in SUBSET Row
    PROVE  [d EXCEPT !.rows = S] \in Db /\ [d EXCEPT !.rows = S].rows = S
           /\ [d EXCEPT !.rows = S].bound = d.bound
BY DEF Db

\* A database is bound to a vault.
LEMMA BindingIs ==
    ASSUME NEW d \in Db, NEW v \in Vaults
    PROVE  [d EXCEPT !.bound = v] \in Db /\ [d EXCEPT !.bound = v].rows = d.rows
           /\ [d EXCEPT !.bound = v].bound = v
BY DEF Db

\* Rows may go.
LEMMA FewerRows ==
    ASSUME NEW d, NEW m, Sound(d, m), NEW S \in SUBSET d.rows
    PROVE  Sound([d EXCEPT !.rows = S], m) /\ [d EXCEPT !.rows = S].bound = d.bound
<1>1. d \in Db /\ S \in SUBSET Row
  BY DEF Sound, Db
<1>2. PICK e : e = [d EXCEPT !.rows = S]
  OBVIOUS
<1>3. e \in Db /\ e.rows = S /\ e.bound = d.bound
  BY <1>1, <1>2, RowsAre
<1>4. Sound(e, m)
  BY <1>3 DEF Sound
<1>5. QED
  BY <1>2, <1>3, <1>4

\* A row may be added under the next identifier of its message.
LEMMA OneMoreRow ==
    ASSUME NEW d, NEW m \in [1..MaxMessages -> Nat], NEW n \in [1..MaxMessages -> Nat], Sound(d, m),
           \A j \in 1..MaxMessages : m[j] <= n[j], NEW x \in Row,
           x.id[1] = x.i, x.id[2] = m[x.i], x.id[2] < n[x.i],
           NEW e \in Db, e.rows = d.rows \cup {x}
    PROVE  Sound(e, n)
<1>1. /\ d \in Db /\ \A r, q \in d.rows : r.id = q.id => r = q
      /\ \A r \in d.rows : r.id[1] = r.i /\ r.id[2] < m[r.i]
      /\ d.rows \in SUBSET Row
  BY DEF Sound, Db
<1>2. Sound(d, n)
  BY SoundGrows
<1>3. m[x.i] \in Nat
  BY DEF Row
<1>4. \A r \in d.rows : r.id # x.id
  <2>1. ASSUME NEW r \in d.rows, r.id = x.id PROVE FALSE
    <3>1. r.i = x.i /\ r.id[2] = m[x.i] /\ r.id[2] < m[r.i]
      BY <1>1, <2>1
    <3>2. QED
      BY <1>3, <3>1
  <2>2. QED
    BY <2>1
<1>5. \A r, q \in e.rows : r.id = q.id => r = q
  BY <1>1, <1>4
<1>6. \A r \in e.rows : r.id[1] = r.i /\ r.id[2] < n[r.i]
  BY <1>2 DEF Sound
<1>7. QED
  BY <1>5, <1>6 DEF Sound

\* A row may get another name and another vault.
LEMMA RowsRefreshed ==
    ASSUME NEW d, NEW m, Sound(d, m), NEW S, NEW f \in [d.rows -> Row],
           \A r \in d.rows : f[r].id = r.id /\ f[r].i = r.i,
           S = {f[r] : r \in d.rows}
    PROVE  Sound([d EXCEPT !.rows = S], m) /\ [d EXCEPT !.rows = S].bound = d.bound
<1>1. d \in Db /\ S \in SUBSET Row
  BY DEF Sound
<1>2. PICK e : e = [d EXCEPT !.rows = S]
  OBVIOUS
<1>3. e \in Db /\ e.rows = S /\ e.bound = d.bound
  BY <1>1, <1>2, RowsAre
<1>4. \A r, q \in S : r.id = q.id => r = q
  BY DEF Sound
<1>5. \A r \in S : r.id[1] = r.i /\ r.id[2] < m[r.i]
  BY DEF Sound
<1>6. Sound(e, m)
  BY <1>3, <1>4, <1>5 DEF Sound
<1>7. QED
  BY <1>2, <1>3, <1>6

\* A row that is refreshed keeps its identifier and its message.
LEMMA RefreshedIs ==
    ASSUME NEW r \in Row, NEW s, s.v \in Vaults
    PROVE  Refreshed(r, s) \in Row /\ Refreshed(r, s).id = r.id /\ Refreshed(r, s).i = r.i
<1>1. PICK q : q = [r EXCEPT !.v = s.v, !.name = "sent"]
  OBVIOUS
<1>2. q \in Row /\ q.id = r.id /\ q.i = r.i
  BY <1>1 DEF Row
<1>3. QED
  BY <1>1, <1>2 DEF Refreshed

\* A new database is sound.
LEMMA UnusedIs == \A m : Sound(Unused, m)
BY DEF Sound, Unused, Db

-----------------------------------------------------------------------------
(* The database, the file at DBPath, the temporary file. *)

\* The document a sync is at.
LEMMA AtDocument ==
    ASSUME RecoveryAssumption, NEW p \in Syncs, sync[p].todo \in SUBSET (1..MaxMessages), sync[p].todo # {}
    PROVE  Greatest(sync[p].todo) \in sync[p].todo /\ Greatest(sync[p].todo) \in 1..MaxMessages
<1>1. MaxMessages \in Nat
  BY Constants
<1>2. PICK S : S = sync[p].todo
  OBVIOUS
<1>3. S \in SUBSET Nat /\ S # {} /\ \A j \in S : j <= MaxMessages
  BY <1>1, <1>2
<1>4. IsFiniteSet(S)
  BY <1>1, <1>3, FS_BoundedSetOfNaturals
<1>5. Greatest(S) \in S
  BY <1>3, <1>4, GreatestIs
<1>6. QED
  BY <1>2, <1>5

\* The types of a sync, fact by fact.
LEMMA SyncFacts ==
    ASSUME SyncsTyped, NEW p \in Syncs
    PROVE  /\ sync \in [Syncs -> SyncSort] /\ sync[p] \in SyncSort
           /\ sync[p].todo \in SUBSET (1..MaxMessages) /\ sync[p].dropped \in SUBSET (1..MaxMessages)
           /\ Runs(p) => sync[p].v \in Vaults /\ sync[p].top <= Len(vault[sync[p].v])
           /\ sync[p].pc \in {"insert", "update"} => sync[p].todo # {}
           /\ sync[p].top \in Nat
<1>1. sync[p] \in SyncSort
  BY DEF SyncsTyped
<1>2. /\ sync[p].todo \in SUBSET (1..MaxMessages) /\ sync[p].dropped \in SUBSET (1..MaxMessages)
      /\ sync[p].top \in Nat
  BY <1>1 DEF SyncSort
<1>3. QED
  BY <1>1, <1>2 DEF SyncsTyped

\* A row is inserted for a message: the rows there were stay, and the message has one.
LEMMA RowInserted ==
    ASSUME FilesTyped, NEW v \in Vaults, NEW i \in 1..MaxMessages, Insert(v, i)
    PROVE  /\ Sound(db', made') /\ db'.bound = db.bound
           /\ \A r \in db.rows : r \in db'.rows
           /\ \E r \in db'.rows : r.i = i
<1>1. Sound(db, made) /\ made \in [1..MaxMessages -> Nat]
  BY DEF FilesTyped
<1>2. PICK x : x = [id |-> <<i, made[i]>>, v |-> v, i |-> i, name |-> "sent"]
  OBVIOUS
<1>3. made' = [made EXCEPT ![i] = made[i] + 1]
  BY <1>1 DEF Insert
<1>4. db' = [db EXCEPT !.rows = db.rows \cup {x}]
  BY <1>2 DEF Insert
<1>5. Sound(db', made') /\ db'.bound = db.bound
  <2>1. made[i] \in Nat /\ made[i] < made[i] + 1 /\ made[i] + 1 \in Nat
    BY <1>1
  <2>2. x \in Row /\ x.i = i /\ x.id[1] = i /\ x.id[2] = made[i]
    BY <1>2, <2>1 DEF Row
  <2>3. PICK m \in [1..MaxMessages -> Nat] : m = made
    BY <1>1
  <2>4. PICK n : n = [m EXCEPT ![i] = m[i] + 1]
    OBVIOUS
  <2>5. n \in [1..MaxMessages -> Nat] /\ n[i] = made[i] + 1
    BY <2>1, <2>3, <2>4
  <2>6. \A j \in 1..MaxMessages : m[j] <= n[j]
    <3>1. \A j \in 1..MaxMessages : m[j] \in Nat /\ n[j] = IF j = i THEN m[i] + 1 ELSE m[j]
      BY <2>1, <2>4
    <3>2. QED
      BY <3>1
  <2>7. x.id[1] = x.i /\ x.id[2] = m[x.i] /\ x.id[2] < n[x.i]
    BY <2>1, <2>2, <2>3, <2>5
  <2>8. PICK d : d = db
    OBVIOUS
  <2>9. PICK e : e = [d EXCEPT !.rows = d.rows \cup {x}]
    OBVIOUS
  <2>10. Sound(d, m) /\ e \in Db /\ e.rows = d.rows \cup {x} /\ e.bound = d.bound
    BY <1>1, <2>2, <2>3, <2>8, <2>9 DEF Sound, Db
  <2>11. Sound(e, n)
    BY <2>2, <2>3, <2>5, <2>6, <2>7, <2>10, OneMoreRow
  <2>12. db' = e /\ made' = n
    BY <1>3, <1>4, <2>3, <2>4, <2>8, <2>9
  <2>13. QED
    BY <2>8, <2>10, <2>11, <2>12
<1>6. db'.rows = db.rows \cup {x} /\ x.i = i
  BY <1>1, <1>2, <1>4 DEF Sound, Db
<1>7. QED
  BY <1>5, <1>6

\* Rows are deleted.
LEMMA RowsDeleted ==
    ASSUME FilesTyped, NEW rs, Delete(rs)
    PROVE  Sound(db', made) /\ db'.bound = db.bound /\ db'.rows = db.rows \ rs
<1>1. Sound(db, made) /\ db \in Db
  BY DEF FilesTyped, Sound
<1>2. db' = [db EXCEPT !.rows = db.rows \ rs]
  BY DEF Delete
<1>3. QED
  BY <1>1, <1>2, FewerRows DEF Db

\* A row is renamed: no message loses its row.
LEMMA RowRenamed ==
    ASSUME FilesTyped, NEW r \in db.rows, Rename(r)
    PROVE  /\ Sound(db', made) /\ db'.bound = db.bound
           /\ \A i : HasRow(i) => HasRow(i)'
<1>1. Sound(db, made) /\ db \in Db /\ db.rows \in SUBSET Row
  BY DEF FilesTyped, Sound, Db
<1>2. PICK q : q = [r EXCEPT !.name = "given"]
  OBVIOUS
<1>3. q \in Row /\ q.id = r.id /\ q.i = r.i
  BY <1>1, <1>2 DEF Row
<1>4. PICK f : f = [x \in db.rows |-> IF x = r THEN q ELSE x]
  OBVIOUS
<1>5. f \in [db.rows -> Row] /\ \A x \in db.rows : f[x].id = x.id /\ f[x].i = x.i
  BY <1>1, <1>3, <1>4
<1>6. PICK S : S = {f[x] : x \in db.rows}
  OBVIOUS
<1>7. S = (db.rows \ {r}) \cup {q}
  BY <1>4, <1>6
<1>8. db' = [db EXCEPT !.rows = S]
  BY <1>2, <1>7 DEF Rename
<1>9. Sound(db', made) /\ db'.bound = db.bound
  BY <1>1, <1>5, <1>6, <1>8, RowsRefreshed
<1>10. db'.rows = S
  BY <1>1, <1>8 DEF Db
<1>11. QED
  BY <1>5, <1>6, <1>9, <1>10 DEF HasRow, Holds

\* A row is refreshed: no message loses its row.
LEMMA RowsUpdated ==
    ASSUME FilesTyped, NEW p \in Syncs, sync[p].v \in Vaults, UpdateRow(p)
    PROVE  /\ Sound(db', made) /\ db'.bound = db.bound
           /\ \A i : HasRow(i) => HasRow(i)'
<1>1. Sound(db, made) /\ db \in Db /\ db.rows \in SUBSET Row
  BY DEF FilesTyped, Sound, Db
<1>2. PICK f : f = [x \in db.rows |-> Refreshed(x, sync[p])]
  OBVIOUS
<1>3. f \in [db.rows -> Row] /\ \A x \in db.rows : f[x].id = x.id /\ f[x].i = x.i
  BY <1>1, <1>2, RefreshedIs
<1>4. PICK S : S = {f[x] : x \in db.rows}
  OBVIOUS
<1>5. S = {Refreshed(x, sync[p]) : x \in db.rows}
  BY <1>2, <1>4
<1>6. db' = [db EXCEPT !.rows = S]
  BY <1>5 DEF UpdateRow
<1>7. Sound(db', made) /\ db'.bound = db.bound
  BY <1>1, <1>3, <1>4, <1>6, RowsRefreshed
<1>8. db'.rows = S
  BY <1>1, <1>6 DEF Db
<1>9. QED
  BY <1>3, <1>4, <1>7, <1>8 DEF HasRow, Holds

\* The database that is connected to a vault at a login.
LEMMA LoggedIn ==
    ASSUME RecoveryAssumption, VaultsTyped, NEW v \in Vaults, Login(v)
    PROVE  Sound(db', made) /\ db'.bound = v
<1>1. PICK d : /\ d \in {Unused} \cup IF Listed(vault[v]) = {} THEN {}
                                      ELSE {vault[v][Greatest(Listed(vault[v]))].db}
               /\ db' = [d EXCEPT !.bound = v]
  BY DEF Login
<1>2. vault[v] \in Seq(Message) /\ Holding(vault[v], made)
  BY DEF VaultsTyped
<1>3. Sound(d, made)
  <2>1. CASE d = Unused
    BY <2>1, UnusedIs
  <2>2. CASE d # Unused
    <3>1. PICK S : S = Listed(vault[v])
      OBVIOUS
    <3>2. S \in SUBSET Nat /\ IsFiniteSet(S) /\ S \subseteq DOMAIN vault[v] /\ S # {}
          /\ \A i \in S : vault[v][i].kind = "snap"
      BY <1>1, <1>2, <2>2, <3>1, ListedIs DEF Listed
    <3>3. Greatest(S) \in S
      BY <3>2, GreatestIs
    <3>4. d = vault[v][Greatest(S)].db /\ vault[v][Greatest(S)].kind = "snap"
      BY <1>1, <2>2, <3>1, <3>2, <3>3
    <3>5. Greatest(S) \in 1..Len(vault[v])
      <4>1. DOMAIN vault[v] = 1..Len(vault[v])
        BY <1>2, LenProperties
      <4>2. QED
        BY <3>2, <3>3, <4>1
    <3>6. QED
      BY <1>2, <3>4, <3>5 DEF Holding, Bound
  <2>3. QED
    BY <2>1, <2>2
<1>4. PICK e : e = [d EXCEPT !.bound = v]
  OBVIOUS
<1>5. e \in Db /\ e.rows = d.rows /\ e.bound = v
  BY <1>3, <1>4, BindingIs DEF Sound
<1>6. Sound(e, made)
  BY <1>3, <1>5 DEF Sound
<1>7. QED
  BY <1>1, <1>4, <1>5, <1>6

\* A process comes up with a database that is bound.
LEMMA ComesUp ==
    ASSUME Next, host = "off", host' # "off"
    PROVE  \/ Start /\ db' = db /\ db.bound # None
           \/ \E v \in Vaults : Login(v) \/ LoginNew(v)
<1>1. ~OpStep \/ host' = host
  BY OpLeaves
<1>2. ASSUME Ensure \/ \E v \in Vaults : EnsureMakes(v) PROVE host' = host
  BY <1>2 DEF Ensure, EnsureMakes
<1>3. ASSUME Stop PROVE host' = "off"
  BY <1>3 DEF Stop
<1>4. CASE Start
  BY <1>4 DEF Start
<1>5. QED
  BY <1>1, <1>2, <1>3, <1>4, HostMoves

\* The database stays sound, and bound while the process is up.
LEMMA DbStep ==
    ASSUME RecoveryAssumption, Typed, Next
    PROVE  Sound(db', made') /\ (host' # "off" => db'.bound \in Vaults)
<1>1. /\ VaultsTyped /\ FilesTyped /\ HostTyped /\ SyncsTyped /\ UpsTyped /\ PurgeTyped /\ OpsTyped
      /\ Sound(db, made) /\ db \in Db
  BY DEF Typed, FilesTyped, Sound
<1>2. \A d : (Sound(d, made) => Sound(d, made')) /\ (Bound(d, made) => Bound(d, made'))
  BY <1>1, StaySound
<1>3. CASE db' = db
  <2>1. ASSUME host' # "off", host # "off" PROVE db.bound \in Vaults
    BY <1>1, <2>1 DEF HostTyped
  <2>2. ASSUME host' # "off", host = "off" PROVE db'.bound \in Vaults
    <3>1. CASE Start
      <4>1. db.bound # None /\ db.bound \in Vaults \cup {None}
        BY <1>1, <3>1 DEF Start, Db
      <4>2. QED
        BY <1>3, <4>1
    <3>2. ASSUME NEW v \in Vaults, Login(v) PROVE db'.bound \in Vaults
      BY <1>1, <3>2, LoggedIn
    <3>3. ASSUME NEW v \in Vaults, LoginNew(v) PROVE db'.bound \in Vaults
      BY <1>1, <3>3, BindingIs DEF LoginNew
    <3>4. QED
      BY <2>2, <3>1, <3>2, <3>3, ComesUp
  <2>3. QED
    BY <1>1, <1>2, <1>3, <2>1, <2>2
<1>4. CASE Stop
  <2>1. host' = "off" /\ made' = made /\ (db' = db \/ (db' = path /\ path \notin {Same, Broken}))
    BY <1>4 DEF Stop, History
  <2>2. QED
    BY <1>1, <2>1 DEF FilesTyped, Bound
<1>5. CASE Wipe
  BY <1>5, UnusedIs DEF Wipe
<1>6. ASSUME NEW v \in Vaults, Login(v) PROVE Sound(db', made') /\ db'.bound \in Vaults
  BY <1>1, <1>2, <1>6, LoggedIn
<1>7. ASSUME NEW v \in Vaults, LoginNew(v) PROVE Sound(db', made') /\ db'.bound \in Vaults
  <2>1. PICK e : e = [db EXCEPT !.bound = v]
    OBVIOUS
  <2>2. e \in Db /\ e.rows = db.rows /\ e.bound = v
    BY <1>1, <2>1, BindingIs
  <2>3. Sound(e, made)
    BY <1>1, <2>2 DEF Sound
  <2>4. db' = e
    BY <1>7, <2>1 DEF LoginNew
  <2>5. QED
    BY <1>2, <2>2, <2>3, <2>4
<1>8. ASSUME open \/ purge # NoPurge, Sound(db', made'), db'.bound = db.bound
      PROVE  Sound(db', made') /\ (host' # "off" => db'.bound \in Vaults)
  BY <1>1, <1>8, Up
<1>9. ASSUME NEW p \in Syncs, InsertRow(p)
      PROVE  Sound(db', made') /\ (host' # "off" => db'.bound \in Vaults)
  <2>1. /\ sync[p].v \in Vaults /\ Greatest(sync[p].todo) \in 1..MaxMessages /\ open
        /\ Insert(sync[p].v, Greatest(sync[p].todo))
    BY <1>1, <1>9, SyncFacts, AtDocument DEF InsertRow, Runs, MgrOpen
  <2>2. QED
    BY <1>1, <1>8, <2>1, RowInserted
<1>10. ASSUME NEW p \in Syncs, UpdateRow(p)
       PROVE  Sound(db', made') /\ (host' # "off" => db'.bound \in Vaults)
  <2>1. sync[p].v \in Vaults /\ open
    BY <1>1, <1>10, SyncFacts DEF UpdateRow, Runs, MgrOpen
  <2>2. QED
    BY <1>1, <1>2, <1>8, <1>10, <2>1, RowsUpdated
<1>11. ASSUME NEW u \in Uploads, ReplaceOld(u), db' # db
       PROVE  Sound(db', made') /\ (host' # "off" => db'.bound \in Vaults)
  <2>1. open /\ \E rs : Delete(rs)
    BY <1>11 DEF ReplaceOld
  <2>2. QED
    BY <1>1, <1>2, <1>8, <2>1, RowsDeleted
<1>12. ASSUME NEW u \in Uploads, CreateRow(u)
       PROVE  Sound(db', made') /\ (host' # "off" => db'.bound \in Vaults)
  <2>1. up[u].v \in Vaults /\ up[u].i \in 1..MaxMessages /\ open /\ Insert(up[u].v, up[u].i)
    BY <1>1, <1>12 DEF CreateRow, UpsTyped
  <2>2. QED
    BY <1>1, <1>8, <2>1, RowInserted
<1>13. ASSUME NEW r \in db.rows, Rename(r)
       PROVE  Sound(db', made') /\ (host' # "off" => db'.bound \in Vaults)
  <2>1. open
    BY <1>13 DEF Rename
  <2>2. QED
    BY <1>1, <1>2, <1>8, <1>13, <2>1, RowRenamed
<1>14. ASSUME PurgeDeletes, db' # db
       PROVE  Sound(db', made') /\ (host' # "off" => db'.bound \in Vaults)
  <2>1. open /\ \E rs : Delete(rs)
    BY <1>14 DEF PurgeDeletes
  <2>2. QED
    BY <1>1, <1>2, <1>8, <2>1, RowsDeleted
<1>15. ASSUME NEW r \in Requests, Reopen(r), db' # db
       PROVE  Sound(db', made') /\ (host' # "off" => db'.bound \in Vaults)
  <2>1. db' = path /\ path \notin {Same, Broken}
    BY <1>15 DEF Reopen
  <2>2. Bound(db', made')
    BY <1>1, <1>2, <2>1 DEF FilesTyped
  <2>3. QED
    BY <2>2 DEF Bound
<1>16. QED
  BY <1>3, <1>4, <1>5, <1>6, <1>7, <1>9, <1>10, <1>11, <1>12, <1>13, <1>14, <1>15, DbMoves DEF Wipe

\* The types of a request, fact by fact.
LEMMA OpFacts ==
    ASSUME OpsTyped, NEW r \in Requests
    PROVE  /\ op \in [Requests -> OpSort] /\ op[r] \in OpSort /\ Stage(op[r], made)
           /\ (op[r].pc = "wait" => Waits(r))
           /\ op[r].kind \in {"none", "create", "restore", "local"} /\ op[r].pc \in OpPc
           /\ op[r].i \in Nat /\ op[r].want \in Content /\ op[r].from \in Content
           /\ op[r].ok \in BOOLEAN
<1>1. op[r] \in OpSort
  BY DEF OpsTyped
<1>2. QED
  BY <1>1 DEF OpsTyped, OpSort

\* A request at one of these places is at work.
LEMMA AtWork ==
    ASSUME OpsTyped, NEW r \in Requests, op[r].pc # "idle"
    PROVE  op[r] # NoOp /\ op[r].kind # "none"
<1>1. NoOp.pc = "idle"
  BY DEF NoOp
<1>2. QED
  BY <1>1, OpFacts DEF Stage

\* A snapshot holds a sound database that is bound.
LEMMA SnapshotIs ==
    ASSUME VaultsTyped, NEW v \in Vaults, NEW i \in DOMAIN vault[v], vault[v][i].kind = "snap"
    PROVE  Bound(vault[v][i].db, made) /\ vault[v][i].db \in Db
<1>1. vault[v] \in Seq(Message) /\ Holding(vault[v], made)
  BY DEF VaultsTyped
<1>2. i \in 1..Len(vault[v])
  BY <1>1, LenProperties
<1>3. QED
  BY <1>1, <1>2 DEF Holding, Bound, Sound

\* The types of the files.
LEMMA FilesStep ==
    ASSUME RecoveryAssumption, Typed, Next
    PROVE  FilesTyped'
<1>1. /\ VaultsTyped /\ FilesTyped /\ TaskTyped /\ OpsTyped
      /\ path \in Db \cup {Same, Broken} /\ temp \in Content
  BY DEF Typed, FilesTyped
<1>2. \A d : Bound(d, made) => Bound(d, made')
  BY <1>1, StaySound
<1>3. Sound(db', made')
  BY DbStep
<1>4. made' \in [1..MaxMessages -> Nat]
  BY <1>1, MadeGrows
<1>5. path' \in Db \cup {Same, Broken} /\ (path' \in {Same, Broken} \/ Bound(path', made'))
  <2>1. CASE path' = path
    BY <1>1, <1>2, <2>1 DEF FilesTyped
  <2>2. CASE path' \in {Same, Broken}
    BY <2>2
  <2>3. ASSUME NEW d, Bound(d, made), path' = d
        PROVE  path' \in Db \cup {Same, Broken} /\ (path' \in {Same, Broken} \/ Bound(path', made'))
    BY <1>2, <2>3 DEF Bound, Sound
  <2>4. ASSUME NEW r \in Requests, CopyReceived(r) PROVE Bound(op[r].from, made) /\ path' \in {path, op[r].from}
    BY <1>1, <2>4, OpFacts DEF CopyReceived, Stage
  <2>5. ASSUME Copy PROVE Bound(task.db, made) /\ path' \in {path, task.db}
    BY <1>1, <2>5 DEF Copy, TaskTyped
  <2>6. ASSUME Stop \/ Wipe \/ Replace \/ \E r \in Requests : Swap(r) \/ Reopen(r) PROVE path' \in {Same, Broken}
    BY <2>6 DEF Stop, Wipe, Replace, Swap, Reopen
  <2>7. QED
    BY <2>1, <2>2, <2>3, <2>4, <2>5, <2>6, PathMoves
<1>6. temp' \in Content /\ (temp' \in {None, Broken} \/ Bound(temp', made'))
  <2>1. CASE temp' = temp
    BY <1>1, <1>2, <2>1 DEF FilesTyped
  <2>2. CASE temp' = None
    BY <2>2 DEF Content
  <2>3. ASSUME NEW r \in Requests, Receive(r)
        PROVE  temp' \in Content /\ (temp' \in {None, Broken} \/ Bound(temp', made'))
    <3>1. PICK d \in {Broken} \cup UNION {{vault[v][i].db : i \in Numbers(v, {"snap"})} : v \in Vaults} :
             temp' = d
      BY <2>3 DEF Receive
    <3>2. CASE d = Broken
      BY <3>1, <3>2 DEF Content
    <3>3. CASE d # Broken
      <4>1. PICK v \in Vaults : \E i \in Numbers(v, {"snap"}) : d = vault[v][i].db
        BY <3>1, <3>3
      <4>2. Bound(d, made) /\ d \in Db
        BY <1>1, <4>1, SnapshotIs DEF Numbers
      <4>3. QED
        BY <1>2, <3>1, <4>2 DEF Content
    <3>4. QED
      BY <3>2, <3>3
  <2>4. QED
    BY <2>1, <2>2, <2>3, TempMoves
<1>7. writer' \in Requests \cup {None}
  BY <1>1, WriterMoves DEF FilesTyped
<1>8. QED
  BY <1>3, <1>4, <1>5, <1>6, <1>7 DEF FilesTyped

\* The types of the worker.
LEMMA TaskStepTyped ==
    ASSUME RecoveryAssumption, Typed, Next
    PROVE  TaskTyped'
<1>1. /\ VaultsTyped /\ FilesTyped /\ TaskTyped /\ OpsTyped /\ HostTyped
      /\ task \in TaskSort
      /\ task.kind \in {"create", "restore"} => task.r \in Requests /\ Bound(task.db, made)
      /\ task.pc \in {"replace", "copy"} => task.kind = "restore"
  BY DEF Typed, TaskTyped
<1>2. \A d : Bound(d, made) => Bound(d, made')
  BY <1>1, StaySound
<1>3. NoTask \in TaskSort /\ NoTask.kind = "none" /\ NoTask.pc = "idle"
  BY Idles DEF NoTask
<1>4. CASE task' = task
  BY <1>1, <1>2, <1>4 DEF TaskTyped
<1>5. ASSUME Stop \/ SyncFails("manual") \/ SyncEnds("manual") \/ \E ok \in BOOLEAN : Finish(ok)
      PROVE  TaskTyped'
  <2>1. task' = NoTask
    BY <1>5 DEF Stop, SyncFails, SyncEnds, Release, Finish
  <2>2. QED
    BY <1>3, <2>1 DEF TaskTyped
<1>6. ASSUME NEW k \in {"sync", "health", "delete"}, NEW i \in Nat,
             task' = [NoTask EXCEPT !.kind = k, !.pc = "ensure", !.i = i]
      PROVE  TaskTyped'
  <2>1. PICK t : t = [NoTask EXCEPT !.kind = k, !.pc = "ensure", !.i = i]
    OBVIOUS
  <2>2. t \in TaskSort /\ t.kind = k /\ t.pc = "ensure"
    BY <1>3, <2>1 DEF TaskSort, TaskKind
  <2>3. QED
    BY <1>6, <2>1, <2>2 DEF TaskTyped
<1>7. CASE SyncByHand
  <2>1. PICK t : t = [NoTask EXCEPT !.kind = "sync"]
    OBVIOUS
  <2>2. t \in TaskSort /\ t.kind = "sync" /\ t.pc = "idle"
    BY <1>3, <2>1 DEF TaskSort, TaskKind
  <2>3. QED
    BY <1>7, <2>1, <2>2 DEF SyncByHand, TaskTyped
<1>8. CASE Health
  BY <1>6, <1>8 DEF Health, StartTask
<1>9. CASE DeleteSnapshot
  <2>1. db.bound \in Vaults
    BY <1>1, <1>9, Up DEF DeleteSnapshot
  <2>2. \A i \in Listed(vault[db.bound]) : i \in Nat
    BY <1>1, <2>1, ListedIs DEF VaultsTyped
  <2>3. QED
    BY <1>6, <1>9, <2>2 DEF DeleteSnapshot, StartTask
<1>10. ASSUME NEW r \in Requests, Submit(r) PROVE TaskTyped'
  <2>1. op[r].pc = "call" /\ task' = [kind |-> op[r].kind, pc |-> "ensure", r |-> r, i |-> op[r].i, db |-> op[r].want]
    BY <1>10 DEF Submit
  <2>2. op[r].kind \in {"create", "restore"} /\ Bound(op[r].want, made) /\ op[r].i \in Nat
    <3>1. op[r].kind # "none"
      BY <1>1, <2>1, AtWork
    <3>2. QED
      BY <1>1, <2>1, <3>1, OpFacts DEF Stage
  <2>3. op[r].want \in Db
    BY <2>2 DEF Bound, Sound
  <2>4. task' \in TaskSort /\ task'.pc = "ensure" /\ task'.r = r /\ task'.db = op[r].want
    BY <2>1, <2>2, <2>3 DEF TaskSort, TaskKind
  <2>5. QED
    BY <1>2, <2>2, <2>4 DEF TaskTyped
<1>11. ASSUME NEW a \in {"act", "copy"}, task' = [task EXCEPT !.pc = a], a = "copy" => task.pc = "replace"
       PROVE  TaskTyped'
  <2>1. PICK t : t = [task EXCEPT !.pc = a]
    OBVIOUS
  <2>2. t \in TaskSort /\ t.pc = a /\ t.kind = task.kind /\ t.r = task.r /\ t.db = task.db
    BY <1>1, <2>1 DEF TaskSort
  <2>3. QED
    BY <1>1, <1>2, <1>11, <2>1, <2>2 DEF TaskTyped
<1>12. CASE Fetch
  <2>1. task.kind = "restore" /\ task.i \in Numbers(cached, {"snap"}) /\ cached \in Vaults
    BY <1>1, <1>3, <1>12, Up DEF Fetch, Acting
  <2>2. PICK d : d = vault[cached][task.i].db
    OBVIOUS
  <2>3. Bound(d, made) /\ d \in Db
    BY <1>1, <2>1, <2>2, SnapshotIs DEF Numbers
  <2>4. PICK t : t = [task EXCEPT !.pc = "replace", !.db = d]
    OBVIOUS
  <2>5. t \in TaskSort /\ t.pc = "replace" /\ t.kind = "restore" /\ t.r = task.r /\ t.db = d
    BY <1>1, <2>1, <2>3, <2>4 DEF TaskSort
  <2>6. task' = t
    BY <1>12, <2>2, <2>4 DEF Fetch
  <2>7. QED
    BY <1>1, <1>2, <2>1, <2>3, <2>5, <2>6 DEF TaskTyped
<1>13. CASE Replace
  BY <1>11, <1>13 DEF Replace
<1>14. QED
  BY <1>4, <1>5, <1>7, <1>8, <1>9, <1>10, <1>11, <1>12, <1>13, TaskMoves

\* The types of the purge.
LEMMA PurgeStep ==
    ASSUME RecoveryAssumption, Typed, Next
    PROVE  PurgeTyped'
<1>1. PurgeTyped /\ FilesTyped /\ MaxMessages \in Nat
  BY Constants DEF Typed
<1>2. CASE purge' = purge
  BY <1>1, <1>2 DEF PurgeTyped
<1>3. CASE purge' = NoPurge
  BY <1>3, Idles DEF PurgeTyped, NoPurge
<1>4. ASSUME NEW r \in db.rows, PurgeLooks(r) PROVE PurgeTyped'
  <2>1. r \in Row /\ r.id[1] = r.i
    BY <1>1 DEF FilesTyped, Sound, Db
  <2>2. r.id \in Pairs /\ r.i \in 1..MaxMessages /\ r.i \in 0..MaxMessages
    BY <1>1, <2>1 DEF Row, Pairs
  <2>3. QED
    BY <1>4, <2>1, <2>2 DEF PurgeLooks, PurgeTyped, Purge
<1>5. CASE purge.pc = "call" /\ purge' = [purge EXCEPT !.pc = "delete"]
  <2>1. PICK q : q = [purge EXCEPT !.pc = "delete"]
    OBVIOUS
  <2>2. q \in Purge /\ q.pc = "delete" /\ q.id = purge.id /\ q.i = purge.i
    BY <1>1, <2>1 DEF PurgeTyped, Purge
  <2>3. QED
    BY <1>1, <1>5, <2>1, <2>2 DEF PurgeTyped
<1>6. QED
  BY <1>2, <1>3, <1>4, <1>5, PurgeMoves

\* The types of the ends of uploads.
LEMMA UpStep ==
    ASSUME RecoveryAssumption, Typed, Next
    PROVE  UpsTyped'
<1>1. VaultsTyped /\ UpsTyped /\ HostTyped /\ MaxMessages \in Nat /\ up \in [Uploads -> UpSort]
  BY Constants DEF Typed, UpsTyped
<1>2. CASE up' = up
  BY <1>1, <1>2 DEF UpsTyped
<1>3. CASE Stop
  BY <1>3, Idles DEF Stop, UpsTyped
<1>4. ASSUME NEW u \in Uploads, NEW x \in UpSort, up' = [up EXCEPT ![u] = x],
             x.pc \in {"replace", "create"} => x.v \in Vaults /\ x.i \in 1..MaxMessages
      PROVE  UpsTyped'
  BY <1>1, <1>4 DEF UpsTyped
<1>5. ASSUME NEW u \in Uploads, Commit(u) PROVE UpsTyped'
  <2>1. cached \in Vaults /\ Len(vault[cached]) + 1 <= MaxMessages
    BY <1>1, <1>5, Up DEF Commit, Room
  <2>2. vault[cached] \in Seq(Message)
    BY <1>1, <2>1 DEF VaultsTyped
  <2>3. PICK n : n = Len(vault[cached]) + 1
    OBVIOUS
  <2>4. n \in 1..MaxMessages /\ n \in 0..MaxMessages
    <3>1. Len(vault[cached]) \in Nat
      BY <2>2
    <3>2. QED
      BY <1>1, <2>1, <2>3, <3>1
  <2>5. PICK x : x = [pc |-> "replace", v |-> cached, i |-> n]
    OBVIOUS
  <2>6. x \in UpSort /\ x.v \in Vaults /\ x.i \in 1..MaxMessages
    BY <2>1, <2>4, <2>5 DEF UpSort
  <2>7. up' = [up EXCEPT ![u] = x]
    BY <1>5, <2>3, <2>5 DEF Commit
  <2>8. QED
    BY <1>4, <2>6, <2>7
<1>6. ASSUME NEW u \in Uploads, ReplaceOld(u) PROVE UpsTyped'
  <2>1. up[u].pc = "replace" /\ up' = [up EXCEPT ![u].pc = "create"]
    BY <1>6 DEF ReplaceOld
  <2>2. PICK x : x = [up[u] EXCEPT !.pc = "create"]
    OBVIOUS
  <2>3. x \in UpSort /\ x.v = up[u].v /\ x.i = up[u].i
    BY <1>1, <2>2 DEF UpSort
  <2>4. up[u].v \in Vaults /\ up[u].i \in 1..MaxMessages
    BY <1>1, <2>1 DEF UpsTyped
  <2>5. up' = [up EXCEPT ![u] = x]
    BY <2>1, <2>2
  <2>6. QED
    BY <1>4, <2>3, <2>4, <2>5
<1>7. ASSUME NEW u \in Uploads, up' = [up EXCEPT ![u] = Ended] PROVE UpsTyped'
  BY <1>4, <1>7, Idles
<1>8. QED
  BY <1>2, <1>3, <1>5, <1>6, <1>7, UpMoves


-----------------------------------------------------------------------------
(* The syncs. *)

\* One sync gets another state.
LEMMA SyncBecomes ==
    ASSUME RecoveryAssumption, Typed, Next, NEW p \in Syncs, NEW s \in SyncSort,
           sync' = [sync EXCEPT ![p] = s],
           s.pc \in {"look", "insert", "update"} => s.v \in Vaults /\ s.top <= Len(vault[s.v]),
           s.pc \in {"insert", "update"} => s.todo # {}
    PROVE  SyncsTyped'
<1>1. /\ SyncsTyped /\ VaultsTyped /\ VaultsTyped' /\ sync \in [Syncs -> SyncSort]
      /\ \A w \in Vaults : Grown(vault[w], vault'[w])
  BY VaultStep DEF Typed, SyncsTyped
<1>2. ASSUME NEW v \in Vaults, NEW n \in Nat, n <= Len(vault[v]) PROVE n <= Len(vault'[v])
  <2>1. Len(vault[v]) \in Nat /\ Len(vault'[v]) \in Nat /\ Len(vault[v]) <= Len(vault'[v])
    BY <1>1 DEF VaultsTyped, Grown
  <2>2. QED
    BY <1>2, <2>1
<1>3. \A q \in Syncs : sync'[q] = IF q = p THEN s ELSE sync[q]
  BY <1>1
<1>4. sync' \in [Syncs -> SyncSort]
  BY <1>1
<1>5. s.top \in Nat
  BY DEF SyncSort
<1>6. ASSUME NEW q \in Syncs, sync'[q].pc \in {"look", "insert", "update"}
      PROVE  sync'[q].v \in Vaults /\ sync'[q].top <= Len(vault'[sync'[q].v])
  <2>1. CASE q = p
    BY <1>2, <1>3, <1>5, <1>6, <2>1
  <2>2. CASE q # p
    <3>1. sync[q].v \in Vaults /\ sync[q].top <= Len(vault[sync[q].v]) /\ sync[q].top \in Nat
      BY <1>1, <1>3, <1>6, <2>2, SyncFacts DEF Runs
    <3>2. QED
      BY <1>2, <1>3, <2>2, <3>1
  <2>3. QED
    BY <2>1, <2>2
<1>7. \A q \in Syncs : sync'[q].pc \in {"insert", "update"} => sync'[q].todo # {}
  BY <1>1, <1>3 DEF SyncsTyped
<1>8. QED
  BY <1>4, <1>6, <1>7 DEF SyncsTyped, Runs

\* All that run drop rows.
LEMMA SyncsDrop ==
    ASSUME SyncsTyped, NEW S \in SUBSET (1..MaxMessages), Drop(S)
    PROVE  /\ sync' \in [Syncs -> SyncSort]
           /\ \A p \in Syncs : /\ sync'[p].pc = sync[p].pc /\ sync'[p].v = sync[p].v
                               /\ sync'[p].todo = sync[p].todo /\ sync'[p].top = sync[p].top
                               /\ sync'[p].behind = sync[p].behind
                               /\ Runs(p) => sync'[p].dropped = sync[p].dropped \cup S
                               /\ sync[p].dropped \subseteq sync'[p].dropped
<1>1. sync \in [Syncs -> SyncSort]
  BY DEF SyncsTyped
<1>2. \A p \in Syncs : sync'[p] = IF Runs(p) THEN [sync[p] EXCEPT !.dropped = sync[p].dropped \cup S]
                                  ELSE sync[p]
  BY DEF Drop, Running, Runs
<1>3. ASSUME NEW p \in Syncs
      PROVE  /\ sync'[p] \in SyncSort
             /\ sync'[p].pc = sync[p].pc /\ sync'[p].v = sync[p].v
             /\ sync'[p].todo = sync[p].todo /\ sync'[p].top = sync[p].top
             /\ sync'[p].behind = sync[p].behind
             /\ Runs(p) => sync'[p].dropped = sync[p].dropped \cup S
             /\ sync[p].dropped \subseteq sync'[p].dropped
  <2>1. CASE ~Runs(p)
    BY <1>1, <1>2, <2>1
  <2>2. CASE Runs(p)
    <3>1. PICK s \in SyncSort : s = sync[p]
      BY <1>1
    <3>2. PICK D : D = s.dropped \cup S
      OBVIOUS
    <3>3. D \in SUBSET (1..MaxMessages)
      BY <3>2 DEF SyncSort
    <3>4. PICK t : t = [s EXCEPT !.dropped = D]
      OBVIOUS
    <3>5. t \in SyncSort /\ t.pc = s.pc /\ t.v = s.v /\ t.todo = s.todo /\ t.top = s.top
          /\ t.behind = s.behind /\ t.dropped = D
      BY <3>3, <3>4 DEF SyncSort
    <3>6. sync'[p] = t
      BY <1>2, <2>2, <3>1, <3>2, <3>4
    <3>7. QED
      BY <3>1, <3>2, <3>5, <3>6
  <2>3. QED
    BY <2>1, <2>2
<1>4. sync' \in [Syncs -> SyncSort]
  BY <1>3 DEF Drop
<1>5. QED
  BY <1>3, <1>4

\* What a sync has left when it is done with a document.
LEMMA NextDocumentIs ==
    ASSUME NEW s \in SyncSort
    PROVE  /\ NextDocument(s) \in SyncSort /\ NextDocument(s).pc = "look"
           /\ NextDocument(s).todo = s.todo \ {Greatest(s.todo)}
           /\ NextDocument(s).v = s.v /\ NextDocument(s).top = s.top
           /\ NextDocument(s).dropped = s.dropped /\ NextDocument(s).behind = s.behind
<1>1. PICK T : T = s.todo \ {Greatest(s.todo)}
  OBVIOUS
<1>2. T \in SUBSET (1..MaxMessages)
  BY <1>1 DEF SyncSort
<1>3. PICK t : t = [s EXCEPT !.pc = "look", !.todo = T, !.at = None]
  OBVIOUS
<1>4. t \in SyncSort /\ t.pc = "look" /\ t.todo = T /\ t.v = s.v /\ t.top = s.top
      /\ t.dropped = s.dropped /\ t.behind = s.behind
  BY <1>2, <1>3 DEF SyncSort, SyncPc
<1>5. t = NextDocument(s)
  BY <1>1, <1>3 DEF NextDocument
<1>6. QED
  BY <1>1, <1>4, <1>5

\* What a scan leaves behind.
LEMMA ScanIs ==
    ASSUME RecoveryAssumption, Typed, NEW p \in Syncs, Scan(p)
    PROVE  /\ cached \in Vaults
           /\ sync'[p] \in SyncSort /\ sync' = [sync EXCEPT ![p] = sync'[p]]
           /\ sync'[p].pc = "look" /\ sync'[p].v = cached /\ sync'[p].todo = Scanned(cached)
           /\ sync'[p].top = Len(vault[cached]) /\ sync'[p].behind = Behind(cached)
<1>1. VaultsTyped /\ HostTyped /\ SyncsTyped /\ MaxMessages \in Nat
  BY Constants DEF Typed
<1>2. cached \in Vaults
  BY <1>1, Up DEF Scan, NoSync
<1>3. vault[cached] \in Seq(Message) /\ Len(vault[cached]) <= MaxMessages
  BY <1>1, <1>2 DEF VaultsTyped, Holding
<1>4. PICK T : T = Scanned(cached)
  OBVIOUS
<1>5. PICK n : n = Len(vault[cached])
  OBVIOUS
<1>6. PICK b : b = Behind(cached)
  OBVIOUS
<1>7. T \in SUBSET (1..MaxMessages) /\ b \in SUBSET (1..MaxMessages)
  <2>1. DOMAIN vault[cached] = 1..Len(vault[cached]) /\ Len(vault[cached]) \in Nat
    BY <1>3, LenProperties
  <2>2. 1..Len(vault[cached]) \subseteq 1..MaxMessages
    BY <1>1, <1>3, <2>1
  <2>3. T \subseteq DOMAIN vault[cached] /\ b \subseteq DOMAIN vault[cached]
    BY <1>4, <1>6 DEF Scanned, Behind, Numbers
  <2>4. QED
    BY <2>1, <2>2, <2>3
<1>8. n \in Nat
  BY <1>3, <1>5
<1>9. PICK s : s = [NoSync EXCEPT !.pc = "look", !.v = cached, !.todo = T, !.top = n, !.behind = b]
  OBVIOUS
<1>10. s \in SyncSort /\ s.pc = "look" /\ s.v = cached /\ s.todo = T /\ s.top = n /\ s.behind = b
  BY <1>2, <1>7, <1>8, <1>9, Idles DEF SyncSort, SyncPc
<1>11. sync' = [sync EXCEPT ![p] = s]
  BY <1>4, <1>5, <1>6, <1>9 DEF Scan, Set
<1>12. sync'[p] = s
  BY <1>1, <1>11 DEF SyncsTyped
<1>13. QED
  BY <1>2, <1>4, <1>5, <1>6, <1>10, <1>11, <1>12

\* The types of the syncs.
LEMMA SyncStepTyped ==
    ASSUME RecoveryAssumption, Typed, Next
    PROVE  SyncsTyped'
<1>1. /\ VaultsTyped /\ SyncsTyped /\ FilesTyped /\ HostTyped /\ PurgeTyped
      /\ sync \in [Syncs -> SyncSort] /\ MaxMessages \in Nat
      /\ VaultsTyped' /\ \A w \in Vaults : Grown(vault[w], vault'[w])
  BY VaultStep, Constants DEF Typed, SyncsTyped
<1>2. ASSUME sync' \in [Syncs -> SyncSort],
             \A p \in Syncs : /\ sync'[p].pc = sync[p].pc /\ sync'[p].v = sync[p].v
                              /\ sync'[p].todo = sync[p].todo /\ sync'[p].top = sync[p].top
      PROVE  SyncsTyped'
  <2>1. ASSUME NEW p \in Syncs, sync[p].pc \in {"look", "insert", "update"}
        PROVE  sync[p].v \in Vaults /\ sync[p].top <= Len(vault'[sync[p].v])
    <3>1. sync[p].v \in Vaults /\ sync[p].top <= Len(vault[sync[p].v]) /\ sync[p].top \in Nat
      BY <1>1, <2>1, SyncFacts DEF Runs
    <3>2. Len(vault[sync[p].v]) <= Len(vault'[sync[p].v])
      BY <1>1, <3>1 DEF Grown
    <3>3. Len(vault[sync[p].v]) \in Nat /\ Len(vault'[sync[p].v]) \in Nat
      BY <1>1, <3>1 DEF VaultsTyped
    <3>4. QED
      BY <3>1, <3>2, <3>3
  <2>2. \A p \in Syncs : sync'[p].pc \in {"insert", "update"} => sync'[p].todo # {}
    BY <1>1, <1>2 DEF SyncsTyped
  <2>3. QED
    BY <1>2, <2>1, <2>2 DEF SyncsTyped, Runs
<1>3. CASE sync' = sync
  BY <1>1, <1>2, <1>3
<1>4. CASE Stop
  <2>1. sync' = [p \in Syncs |-> NoSync] /\ NoSync \in SyncSort /\ NoSync.pc = "off"
    BY <1>4, Idles DEF Stop, NoSync
  <2>2. QED
    BY <2>1 DEF SyncsTyped, Runs
<1>5. ASSUME NEW p \in Syncs, NEW a \in {"scan", "failed", "done"},
             sync' = [sync EXCEPT ![p] = [NoSync EXCEPT !.pc = a]]
      PROVE  SyncsTyped'
  <2>1. PICK s : s = [NoSync EXCEPT !.pc = a]
    OBVIOUS
  <2>2. s \in SyncSort /\ s.pc = a
    BY <2>1, Idles DEF SyncSort, SyncPc
  <2>3. QED
    BY <1>5, <2>1, <2>2, SyncBecomes
<1>6. ASSUME NEW p \in Syncs, Scan(p) PROVE SyncsTyped'
  <2>1. PICK s : s = sync'[p]
    OBVIOUS
  <2>2. /\ cached \in Vaults /\ s \in SyncSort /\ sync' = [sync EXCEPT ![p] = s] /\ s.pc = "look"
        /\ s.v = cached /\ s.top = Len(vault[cached])
    BY <1>6, <2>1, ScanIs
  <2>3. Len(vault[cached]) \in Nat
    BY <1>1, <2>2 DEF VaultsTyped
  <2>4. s.v \in Vaults /\ s.top <= Len(vault[s.v])
    BY <2>2, <2>3
  <2>5. QED
    BY <2>2, <2>4, SyncBecomes
<1>7. ASSUME NEW p \in Syncs, Look(p) PROVE SyncsTyped'
  <2>1. /\ sync[p] \in SyncSort /\ sync[p].pc = "look" /\ sync[p].todo # {}
        /\ sync[p].v \in Vaults /\ sync[p].top <= Len(vault[sync[p].v])
    BY <1>1, <1>7, SyncFacts DEF Look, Runs
  <2>2. ASSUME NEW s \in SyncSort, s.v = sync[p].v, s.top = sync[p].top, s.todo = sync[p].todo,
               sync' = [sync EXCEPT ![p] = s]
        PROVE  SyncsTyped'
    BY <2>1, <2>2, SyncBecomes
  <2>3. CASE sync' = [sync EXCEPT ![p] = [sync[p] EXCEPT !.pc = "insert"]]
    <3>1. PICK s : s = [sync[p] EXCEPT !.pc = "insert"]
      OBVIOUS
    <3>2. s \in SyncSort /\ s.v = sync[p].v /\ s.top = sync[p].top /\ s.todo = sync[p].todo
      BY <2>1, <3>1 DEF SyncSort, SyncPc
    <3>3. QED
      BY <2>2, <2>3, <3>1, <3>2
  <2>4. ASSUME NEW r \in Holds(Greatest(sync[p].todo)),
               sync' = [sync EXCEPT ![p] = [sync[p] EXCEPT !.pc = "update", !.at = r.id]]
        PROVE  SyncsTyped'
    <3>1. r.id \in Pairs
      BY <1>1 DEF Holds, FilesTyped, Sound, Db, Row, Pairs
    <3>2. PICK s : s = [sync[p] EXCEPT !.pc = "update", !.at = r.id]
      OBVIOUS
    <3>3. s \in SyncSort /\ s.v = sync[p].v /\ s.top = sync[p].top /\ s.todo = sync[p].todo
      BY <2>1, <3>1, <3>2 DEF SyncSort, SyncPc
    <3>4. QED
      BY <2>2, <2>4, <3>2, <3>3
  <2>5. QED
    BY <1>7, <2>3, <2>4 DEF Look, Set
<1>8. ASSUME NEW p \in Syncs, InsertRow(p) \/ UpdateRow(p) PROVE SyncsTyped'
  <2>1. /\ sync[p] \in SyncSort /\ sync[p].v \in Vaults /\ sync[p].top <= Len(vault[sync[p].v])
        /\ sync' = [sync EXCEPT ![p] = NextDocument(sync[p])]
    BY <1>1, <1>8, SyncFacts DEF InsertRow, UpdateRow, Runs, Set
  <2>2. PICK s : s = NextDocument(sync[p])
    OBVIOUS
  <2>3. s \in SyncSort /\ s.pc = "look" /\ s.v = sync[p].v /\ s.top = sync[p].top
    BY <2>1, <2>2, NextDocumentIs
  <2>4. QED
    BY <2>1, <2>2, <2>3, SyncBecomes
<1>9. ASSUME SyncByHand \/ sync' = [sync EXCEPT !["start"] = [NoSync EXCEPT !.pc = "scan"]]
             \/ \E p \in Syncs : SyncFails(p) \/ SyncEnds(p)
      PROVE  SyncsTyped'
  BY <1>5, <1>9 DEF SyncByHand, SyncFails, SyncEnds, Set, Syncs
<1>10. ASSUME NEW S \in SUBSET (1..MaxMessages), Drop(S) PROVE SyncsTyped'
  BY <1>1, <1>2, <1>10, SyncsDrop
<1>11. ASSUME NEW u \in Uploads, ReplaceOld(u), sync' # sync PROVE SyncsTyped'
  <2>1. PICK r \in db.rows : Drop({r.i})
    BY <1>11 DEF ReplaceOld
  <2>2. r.i \in 1..MaxMessages
    BY <1>1 DEF FilesTyped, Sound, Db, Row
  <2>3. QED
    BY <1>10, <2>1, <2>2
<1>12. ASSUME PurgeDeletes, sync' # sync PROVE SyncsTyped'
  <2>1. Drop({purge.i}) /\ purge.id \in Pairs /\ purge.i = purge.id[1]
    BY <1>1, <1>12 DEF PurgeDeletes, PurgeTyped
  <2>2. {purge.i} \in SUBSET (1..MaxMessages)
    BY <2>1 DEF Pairs
  <2>3. QED
    BY <1>10, <2>1, <2>2
<1>13. ASSUME NEW r \in Requests, Reopen(r), sync' # sync PROVE SyncsTyped'
  BY <1>10, <1>13 DEF Reopen, DropAll
<1>14. QED
  BY <1>3, <1>4, <1>6, <1>7, <1>8, <1>9, <1>11, <1>12, <1>13, SyncMoves

-----------------------------------------------------------------------------
(* The requests, the process. *)

\* Who waits goes on waiting for the same task.
LEMMA WaitsOn ==
    ASSUME RecoveryAssumption, Typed, Next, NEW r \in Requests, op[r].pc = "wait", op'[r].pc = "wait"
    PROVE  task'.r = r /\ task'.kind = task.kind /\ task'.i = task.i /\ task'.pc # "idle"
<1>1. /\ TaskTyped /\ OpsTyped /\ ManualTyped /\ task \in TaskSort /\ op \in [Requests -> OpSort] /\ Waits(r)
      /\ op[r].kind \in {"create", "restore"}
  <2>1. OpsTyped /\ TaskTyped /\ ManualTyped
    BY DEF Typed
  <2>2. op[r].kind # "none"
    BY <2>1, AtWork
  <2>3. QED
    BY <2>1, <2>2, OpFacts DEF TaskTyped, OpsTyped, Stage
<1>2. task.r = r /\ task.kind = op[r].kind /\ task.pc # "idle"
  BY <1>1 DEF Waits
<1>3. task # NoTask
  BY <1>2 DEF NoTask
<1>4. CASE task' = task
  BY <1>2, <1>4
<1>5. ~Stop
  BY DEF Stop, NoOp
<1>6. ~SyncFails("manual") /\ ~SyncEnds("manual")
  BY <1>1, <1>2 DEF ManualTyped, SyncFails, SyncEnds
<1>7. ASSUME NEW ok \in BOOLEAN, Finish(ok) PROVE FALSE
  <2>1. PICK pc : pc = IF task.kind = "create" THEN "answer" ELSE "reopen"
    OBVIOUS
  <2>2. op' = [op EXCEPT ![r] = [op[r] EXCEPT !.pc = pc, !.ok = ok]]
    <3>1. task.r = r /\ r # None /\ op[task.r].pc = "wait"
      BY <1>2, Constants
    <3>2. QED
      BY <1>7, <2>1, <3>1 DEF Finish
  <2>3. op'[r].pc = pc
    BY <1>1, <2>2 DEF OpSort
  <2>4. QED
    BY <2>1, <2>3
<1>8. ~SyncByHand /\ ~Health /\ ~DeleteSnapshot /\ \A q \in Requests : ~Submit(q)
  BY <1>3 DEF SyncByHand, Health, DeleteSnapshot, StartTask, Submit
<1>9. ASSUME NEW a \in {"act", "copy", "replace"}, NEW d, task' = [task EXCEPT !.pc = a, !.db = d]
      PROVE  task'.r = r /\ task'.kind = task.kind /\ task'.i = task.i /\ task'.pc # "idle"
  <2>1. PICK t : t = [task EXCEPT !.pc = a, !.db = d]
    OBVIOUS
  <2>2. t.r = task.r /\ t.kind = task.kind /\ t.i = task.i /\ t.pc = a
    BY <1>1, <2>1 DEF TaskSort
  <2>3. QED
    BY <1>2, <1>9, <2>1, <2>2
<1>10. ASSUME NEW a \in {"act", "copy"}, task' = [task EXCEPT !.pc = a]
       PROVE  task'.r = r /\ task'.kind = task.kind /\ task'.i = task.i /\ task'.pc # "idle"
  <2>1. PICK t : t = [task EXCEPT !.pc = a]
    OBVIOUS
  <2>2. t.r = task.r /\ t.kind = task.kind /\ t.i = task.i /\ t.pc = a
    BY <1>1, <2>1 DEF TaskSort
  <2>3. QED
    BY <1>2, <1>10, <2>1, <2>2
<1>11. CASE Fetch
  BY <1>9, <1>11 DEF Fetch
<1>12. CASE Replace
  BY <1>10, <1>12 DEF Replace
<1>13. QED
  BY <1>4, <1>5, <1>6, <1>7, <1>8, <1>10, <1>11, <1>12, TaskMoves

\* The requests go on: each stays on its way, who begins to wait is the one the worker works
\* for, and a lock is taken only when it is free.
LEMMA OpsBecome ==
    ASSUME RecoveryAssumption, Typed, Next, op' \in [Requests -> OpSort],
           \A q \in Requests : Stage(op'[q], made) \/ op'[q] = op[q],
           \A q \in Requests : op'[q].pc = "wait" /\ op[q].pc = "wait" => op'[q].kind = op[q].kind /\ op'[q].i = op[q].i,
           \A q \in Requests : op'[q].pc = "wait" /\ op[q].pc # "wait" => Waits(q)',
           \A q \in Requests : Locked(q)' => Locked(q) \/ (Free /\ \A p \in Requests : p = q \/ Locked(p)' = Locked(p))
    PROVE  OpsTyped'
<1>1. /\ FilesTyped /\ OpsTyped
      /\ \A q \in Requests : Stage(op[q], made) /\ (op[q].pc = "wait" => Waits(q))
      /\ \A r, q \in Requests : Locked(r) /\ Locked(q) => r = q
  BY DEF Typed, OpsTyped
<1>2. \A q \in Requests : Stage(op'[q], made)
  BY <1>1
<1>3. \A d : Bound(d, made) => Bound(d, made')
  BY <1>1, StaySound
<1>4. \A q \in Requests : Stage(op'[q], made')
  BY <1>2, <1>3 DEF Stage
<1>5. ASSUME NEW q \in Requests, op'[q].pc = "wait", op[q].pc = "wait" PROVE Waits(q)'
  BY <1>1, <1>5, WaitsOn DEF Waits
<1>6. \A r, q \in Requests : Locked(r)' /\ Locked(q)' => r = q
  <2>1. ASSUME NEW r \in Requests, NEW q \in Requests, Locked(r)', Locked(q)', r # q PROVE FALSE
    BY <1>1, <2>1 DEF Free
  <2>2. QED
    BY <2>1
<1>7. QED
  BY <1>4, <1>5, <1>6 DEF OpsTyped

\* One request gets another state.
LEMMA OneOp ==
    ASSUME RecoveryAssumption, Typed, Next, NEW r \in Requests, NEW x \in OpSort,
           op' = [op EXCEPT ![r] = x], Stage(x, made),
           x.pc = "wait" => IF op[r].pc = "wait" THEN x.kind = op[r].kind /\ x.i = op[r].i ELSE Waits(r)',
           x.pc \in {"call", "wait", "swap", "copy", "reopen"} => Locked(r) \/ Free
    PROVE  OpsTyped'
<1>1. op \in [Requests -> OpSort]
  BY DEF Typed, OpsTyped
<1>2. \A q \in Requests : op'[q] = IF q = r THEN x ELSE op[q]
  BY <1>1
<1>3. op' \in [Requests -> OpSort]
  BY <1>1
<1>4. \A q \in Requests : Locked(q)' => Locked(q) \/ (Free /\ \A p \in Requests : p = q \/ Locked(p)' = Locked(p))
  BY <1>2 DEF Locked
<1>5. QED
  BY <1>2, <1>3, <1>4, OpsBecome

\* A request goes on to another place.
LEMMA GoesTo ==
    ASSUME RecoveryAssumption, Typed, Next, NEW r \in Requests, Goto(r, op'[r].pc), NEW a \in OpPc,
           op'[r].pc = a, a # "copy", op[r].ok => a \in {"reopen", "answer"},
           op[r].kind = "create" => a = "wait",
           op[r].kind = "restore" => a \in {"wait", "reopen", "answer"},
           op[r].kind = "local" => a \in {"swap", "reopen", "answer"},
           op[r].kind # "none",
           a = "wait" => Waits(r)' /\ op[r].pc = "call",
           a \in {"call", "wait", "swap", "copy", "reopen"} => Locked(r) \/ Free
    PROVE  OpsTyped'
<1>1. OpsTyped /\ op[r] \in OpSort /\ Stage(op[r], made)
  BY OpFacts DEF Typed
<1>2. PICK x : x = [op[r] EXCEPT !.pc = a]
  OBVIOUS
<1>3. x \in OpSort /\ x.pc = a /\ x.kind = op[r].kind /\ x.want = op[r].want /\ x.ok = op[r].ok /\ x.i = op[r].i
  BY <1>1, <1>2 DEF OpSort
<1>4. op' = [op EXCEPT ![r] = x]
  BY <1>2 DEF Goto
<1>5. Stage(x, made)
  BY <1>1, <1>3 DEF Stage, OpSort
<1>6. QED
  BY <1>3, <1>4, <1>5, OneOp

\* A request begins.
LEMMA OpsBegin ==
    ASSUME RecoveryAssumption, Typed, Next, NEW r \in Requests, BeginCreate(r) \/ BeginRestore(r) \/ Receive(r)
    PROVE  OpsTyped'
<1>1. /\ FilesTyped /\ VaultsTyped /\ HostTyped /\ OpsTyped /\ NoOp \in OpSort /\ NoOp.pc = "idle"
      /\ NoOp.ok = FALSE /\ op \in [Requests -> OpSort]
  BY Idles DEF Typed, NoOp, OpsTyped
<1>2. CASE BeginCreate(r)
  <2>1. Bound(db, made) /\ db \in Db
    BY <1>1, <1>2 DEF BeginCreate, HostTyped, FilesTyped, Bound, Sound
  <2>2. PICK x : x = [NoOp EXCEPT !.kind = "create", !.pc = "call", !.want = db]
    OBVIOUS
  <2>3. x \in OpSort /\ x.kind = "create" /\ x.pc = "call" /\ x.want = db /\ x.ok = FALSE
    BY <1>1, <2>1, <2>2 DEF OpSort, OpPc, Content
  <2>4. Stage(x, made)
    BY <2>1, <2>3 DEF Stage
  <2>5. op' = [op EXCEPT ![r] = x] /\ Free
    BY <1>2, <2>2 DEF BeginCreate, SetOp
  <2>6. QED
    BY <2>3, <2>4, <2>5, OneOp
<1>3. CASE BeginRestore(r)
  <2>1. db.bound \in Vaults
    BY <1>1, <1>3 DEF BeginRestore, HostTyped
  <2>2. PICK i \in Listed(vault[db.bound]) :
           op' = [op EXCEPT ![r] = [NoOp EXCEPT !.kind = "restore", !.pc = "call", !.i = i,
                                                !.want = vault[db.bound][i].db]]
    BY <1>3 DEF BeginRestore, SetOp
  <2>3. i \in Nat /\ i \in DOMAIN vault[db.bound] /\ vault[db.bound][i].kind = "snap"
    BY <1>1, <2>1, <2>2, ListedIs DEF VaultsTyped, Listed
  <2>4. PICK d : d = vault[db.bound][i].db
    OBVIOUS
  <2>5. Bound(d, made) /\ d \in Db
    BY <1>1, <2>1, <2>3, <2>4, SnapshotIs
  <2>6. PICK x : x = [NoOp EXCEPT !.kind = "restore", !.pc = "call", !.i = i, !.want = d]
    OBVIOUS
  <2>7. x \in OpSort /\ x.kind = "restore" /\ x.pc = "call" /\ x.want = d /\ x.ok = FALSE
    BY <1>1, <2>3, <2>5, <2>6 DEF OpSort, OpPc, Content
  <2>8. Stage(x, made)
    BY <2>5, <2>7 DEF Stage
  <2>9. op' = [op EXCEPT ![r] = x] /\ Free
    BY <1>3, <2>2, <2>4, <2>6 DEF BeginRestore
  <2>10. QED
    BY <2>7, <2>8, <2>9, OneOp
<1>4. CASE Receive(r)
  <2>1. temp' \in Content
    BY <1>1, <1>4, FilesStep DEF FilesTyped
  <2>2. PICK d \in Content : d = temp'
    BY <2>1
  <2>3. PICK x : x = [NoOp EXCEPT !.kind = "local", !.pc = "lock", !.want = d]
    OBVIOUS
  <2>4. x \in OpSort /\ x.kind = "local" /\ x.pc = "lock" /\ x.ok = FALSE
    BY <1>1, <2>3 DEF OpSort, OpPc
  <2>5. Stage(x, made)
    BY <2>4 DEF Stage
  <2>6. op' = [op EXCEPT ![r] = x]
    BY <1>4, <2>2, <2>3 DEF Receive, SetOp
  <2>7. QED
    BY <2>4, <2>5, <2>6, OneOp
<1>5. QED
  BY <1>2, <1>3, <1>4

\* A request takes a step of its own.
LEMMA OpsGoOn ==
    ASSUME RecoveryAssumption, Typed, Next, OpStep
    PROVE  OpsTyped'
<1>1. FilesTyped /\ OpsTyped /\ op \in [Requests -> OpSort]
  BY DEF Typed, OpsTyped
<1>2. ASSUME NEW r \in Requests, op[r].pc # "idle"
      PROVE  /\ op[r] \in OpSort /\ Stage(op[r], made) /\ op[r].kind \in {"create", "restore", "local"}
             /\ op[r].kind # "none"
  BY <1>1, <1>2, OpFacts, AtWork
<1>3. ASSUME NEW r \in Requests, NEW a \in OpPc, Goto(r, a) PROVE op'[r].pc = a
  <2>1. PICK x : x = [op[r] EXCEPT !.pc = a]
    OBVIOUS
  <2>2. x.pc = a /\ op'[r] = x
    BY <1>1, <1>3, <2>1, OpFacts DEF Goto, OpSort
  <2>3. QED
    BY <2>2
<1>4. ASSUME NEW r \in Requests, LockReceived(r) PROVE OpsTyped'
  <2>1. op[r].pc = "lock" /\ Free /\ Goto(r, "swap") /\ "swap" \in OpPc
    BY <1>4 DEF LockReceived, OpPc
  <2>2. op[r].kind = "local" /\ ~op[r].ok
    BY <1>2, <2>1 DEF Stage
  <2>3. op'[r].pc = "swap"
    BY <1>3, <2>1
  <2>4. QED
    BY <2>1, <2>2, <2>3, GoesTo
<1>5. ASSUME NEW r \in Requests, Swap(r) PROVE OpsTyped'
  <2>1. op[r].pc = "swap" /\ Bound(temp, made) /\ temp \in Content /\ Locked(r)
    BY <1>1, <1>5 DEF Swap, FilesTyped, Locked
  <2>2. op[r] \in OpSort /\ op[r].kind = "local" /\ ~op[r].ok
    BY <1>2, <2>1 DEF Stage
  <2>3. PICK x : x = [op[r] EXCEPT !.pc = "copy", !.from = temp]
    OBVIOUS
  <2>4. x \in OpSort /\ x.pc = "copy" /\ x.kind = "local" /\ x.from = temp /\ x.ok = op[r].ok
    BY <2>1, <2>2, <2>3 DEF OpSort, OpPc
  <2>5. Stage(x, made)
    BY <2>1, <2>2, <2>4 DEF Stage
  <2>6. op' = [op EXCEPT ![r] = x]
    BY <1>5, <2>3 DEF Swap, SetOp
  <2>7. QED
    BY <2>1, <2>4, <2>5, <2>6, OneOp
<1>6. ASSUME NEW r \in Requests, SwapFails(r) \/ CopyBreaks(r) PROVE OpsTyped'
  <2>1. op[r].pc \in {"swap", "copy"} /\ Goto(r, "reopen") /\ "reopen" \in OpPc /\ Locked(r)
    BY <1>6 DEF SwapFails, CopyBreaks, OpPc, Locked
  <2>2. op[r].kind = "local"
    BY <1>2, <2>1 DEF Stage
  <2>3. op'[r].pc = "reopen"
    BY <1>3, <2>1
  <2>4. QED
    BY <2>1, <2>2, <2>3, GoesTo
<1>7. ASSUME NEW r \in Requests, NEW a \in {"reopen", "answer"}, NEW ok \in BOOLEAN,
             op[r].kind \in {"restore", "local"}, Locked(r),
             op' = [op EXCEPT ![r] = [op[r] EXCEPT !.pc = a, !.ok = ok]]
      PROVE  OpsTyped'
  <2>1. op[r] \in OpSort /\ Stage(op[r], made)
    BY <1>1, OpFacts
  <2>2. PICK x : x = [op[r] EXCEPT !.pc = a, !.ok = ok]
    OBVIOUS
  <2>3. x \in OpSort /\ x.pc = a /\ x.kind = op[r].kind /\ x.want = op[r].want /\ x.ok = ok
    BY <2>1, <2>2 DEF OpSort, OpPc
  <2>4. Stage(x, made)
    BY <1>7, <2>1, <2>3 DEF Stage
  <2>5. QED
    BY <1>7, <2>2, <2>3, <2>4, OneOp
<1>8. ASSUME NEW r \in Requests, CopyReceived(r) \/ ReopenFails(r) PROVE OpsTyped'
  <2>1. op[r].pc \in {"copy", "reopen"} /\ Locked(r)
    BY <1>8 DEF CopyReceived, ReopenFails, Locked
  <2>2. op[r].kind \in {"restore", "local"}
    BY <1>2, <2>1 DEF Stage
  <2>3. QED
    BY <1>7, <1>8, <2>1, <2>2 DEF CopyReceived, ReopenFails, SetOp
<1>9. ASSUME NEW r \in Requests, Reopen(r) PROVE OpsTyped'
  <2>1. op[r].pc = "reopen" /\ Goto(r, "answer") /\ "answer" \in OpPc
    BY <1>9 DEF Reopen, OpPc
  <2>2. op[r].kind \in {"restore", "local"}
    BY <1>2, <2>1 DEF Stage
  <2>3. op'[r].pc = "answer"
    BY <1>3, <2>1
  <2>4. QED
    BY <2>1, <2>2, <2>3, GoesTo
<1>10. ASSUME NEW r \in Requests, SetOp(r, NoOp) PROVE OpsTyped'
  <2>1. NoOp \in OpSort /\ NoOp.pc = "idle" /\ NoOp.kind = "none" /\ ~NoOp.ok
    BY Idles DEF NoOp
  <2>2. Stage(NoOp, made)
    BY <2>1 DEF Stage
  <2>3. QED
    BY <1>10, <2>1, <2>2, OneOp DEF SetOp
<1>11. ASSUME NEW r \in Requests, Submit(r) PROVE OpsTyped'
  <2>1. /\ op[r].pc = "call" /\ Goto(r, "wait") /\ "wait" \in OpPc /\ Locked(r)
        /\ task' = [kind |-> op[r].kind, pc |-> "ensure", r |-> r, i |-> op[r].i, db |-> op[r].want]
    BY <1>11 DEF Submit, OpPc, Locked
  <2>2. op[r] \in OpSort /\ op[r].kind \in {"create", "restore"} /\ ~op[r].ok
    BY <1>2, <2>1 DEF Stage
  <2>3. op'[r].pc = "wait"
    BY <1>3, <2>1
  <2>4. Waits(r)'
    <3>1. PICK x : x = [op[r] EXCEPT !.pc = "wait"]
      OBVIOUS
    <3>2. x.kind = op[r].kind /\ x.i = op[r].i /\ op'[r] = x
      BY <1>1, <2>1, <2>2, <3>1 DEF Goto, OpSort
    <3>3. QED
      BY <2>1, <3>2 DEF Waits
  <2>5. QED
    BY <2>1, <2>2, <2>3, <2>4, GoesTo
<1>12. ASSUME NEW r \in Requests, Abandon(r) PROVE OpsTyped'
  <2>1. op[r].pc \in {"call", "wait"} /\ Locked(r) /\ "reopen" \in OpPc
    BY <1>12 DEF Abandon, Locked, OpPc
  <2>2. CASE op[r].kind = "create"
    BY <1>10, <1>12, <2>2 DEF Abandon
  <2>3. CASE op[r].kind # "create"
    <3>1. op[r].kind = "restore" /\ Goto(r, "reopen")
      BY <1>2, <1>12, <2>1, <2>3 DEF Abandon, Stage
    <3>2. op'[r].pc = "reopen"
      BY <1>3, <2>1, <3>1
    <3>3. QED
      BY <2>1, <3>1, <3>2, GoesTo
  <2>4. QED
    BY <2>2, <2>3
<1>13. ASSUME NEW r \in Requests, Answer(r) PROVE OpsTyped'
  BY <1>10, <1>13 DEF Answer
<1>14. QED
  BY <1>4, <1>5, <1>6, <1>8, <1>9, <1>11, <1>12, <1>13, OpsBegin DEF OpStep

\* The types of the requests, in every step.
LEMMA OpsStep ==
    ASSUME RecoveryAssumption, Typed, Next
    PROVE  OpsTyped'
<1>1. FilesTyped /\ TaskTyped /\ OpsTyped /\ op \in [Requests -> OpSort]
  BY DEF Typed, OpsTyped
<1>2. CASE op' = op
  BY <1>1, <1>2, OpsBecome DEF Locked
<1>3. CASE Stop
  <2>1. \A q \in Requests : op'[q] = NoOp
    BY <1>3 DEF Stop
  <2>2. NoOp \in OpSort /\ NoOp.pc = "idle" /\ NoOp.kind = "none" /\ ~NoOp.ok
    BY Idles DEF NoOp
  <2>3. \A m : Stage(NoOp, m)
    BY <2>2 DEF Stage
  <2>4. op' \in [Requests -> OpSort]
    BY <1>3, <2>2 DEF Stop
  <2>5. \A q \in Requests : op'[q].pc # "wait" /\ ~Locked(q)'
    BY <2>1, <2>2 DEF Locked
  <2>6. QED
    BY <2>1, <2>3, <2>4, <2>5, OpsBecome
<1>4. ASSUME NEW ok \in BOOLEAN, Finish(ok) PROVE OpsTyped'
  <2>1. CASE op' = op
    BY <1>2, <2>1
  <2>2. CASE op' # op
    <3>1. PICK r : r = task.r
      OBVIOUS
    <3>2. PICK a : a = IF task.kind = "create" THEN "answer" ELSE "reopen"
      OBVIOUS
    <3>3. r # None /\ op[r].pc = "wait" /\ op' = [op EXCEPT ![r] = [op[r] EXCEPT !.pc = a, !.ok = ok]]
      BY <1>4, <2>2, <3>1, <3>2 DEF Finish
    <3>4. r \in Requests
      BY <1>1, <3>1, <3>3 DEF TaskTyped, TaskSort
    <3>5. op[r] \in OpSort /\ Stage(op[r], made) /\ Waits(r) /\ Locked(r) /\ op[r].kind \in {"create", "restore"}
      <4>1. op[r].kind # "none"
        BY <1>1, <3>3, <3>4, AtWork
      <4>2. QED
        BY <1>1, <3>3, <3>4, <4>1, OpFacts DEF Locked, Stage
    <3>6. a = IF op[r].kind = "create" THEN "answer" ELSE "reopen"
      BY <3>2, <3>5 DEF Waits
    <3>7. PICK x : x = [op[r] EXCEPT !.pc = a, !.ok = ok]
      OBVIOUS
    <3>8. x \in OpSort /\ x.pc = a /\ x.kind = op[r].kind /\ x.want = op[r].want /\ x.ok = ok
      BY <3>5, <3>6, <3>7 DEF OpSort, OpPc
    <3>9. Stage(x, made)
      BY <3>5, <3>6, <3>8 DEF Stage
    <3>10. op' = [op EXCEPT ![r] = x] /\ x.pc # "wait"
      BY <3>3, <3>6, <3>7, <3>8
    <3>11. QED
      BY <3>4, <3>5, <3>8, <3>9, <3>10, OneOp
  <2>3. QED
    BY <2>1, <2>2
<1>5. QED
  BY <1>2, <1>3, <1>4, OpsGoOn, OpMoves

\* While the process is down, nothing happens but that it comes up or that its file goes.
LEMMA Down ==
    ASSUME HostTyped, Next, host = "off"
    PROVE  \/ Start \/ Wipe \/ \E v \in Vaults : Login(v) \/ LoginNew(v)
           \/ UNCHANGED <<host, open, stale, cached, path, task, purge, sync, op>>
<1>1. /\ ~open /\ task = NoTask /\ purge = NoPurge
      /\ \A p \in Syncs : sync[p] = NoSync
      /\ \A r \in Requests : op[r] = NoOp
  BY DEF HostTyped
<1>2. task.pc = "idle" /\ task.kind = "none" /\ purge.pc = "idle"
  BY <1>1 DEF NoTask, NoPurge
<1>3. \A p \in Syncs : sync[p].pc = "off"
  BY <1>1 DEF NoSync
<1>4. \A r \in Requests : op[r].pc = "idle"
  BY <1>1 DEF NoOp
<1>5. CASE LifeStep
  BY <1>5 DEF LifeStep, Crash, LoginEnd
<1>6. ~SyncStep
  BY <1>3 DEF SyncStep, SyncByHand, Scan, Look, InsertRow, UpdateRow, SyncFails, SyncEnds
<1>7. CASE UserStep
  <2>1. UNCHANGED <<purge, sync>>
    BY <1>1, <1>2, <1>7 DEF UserStep, Commit, ReplaceOld, CreateRow, CreateFails, Rename, PurgeLooks,
                            PurgeCalls, PurgeCallFails, PurgeDeletes
  <2>2. QED
    BY <1>7, <2>1, UserLeaves
<1>8. ~OpStep
  BY <1>4 DEF OpStep, BeginCreate, BeginRestore, Receive, LockReceived, Swap, SwapFails, CopyReceived,
              CopyBreaks, Reopen, ReopenFails, Answer, Submit, Abandon
<1>9. ~TaskStep
  BY <1>1, <1>2 DEF TaskStep, Health, DeleteSnapshot, StartTask, Ensure, EnsureMakes, UploadSnapshot,
                    DeleteMessage, CallFails, HealthEnds, Fetch, FetchFails, Replace, Copy, CopyStops, Acting
<1>10. QED
  BY <1>5, <1>6, <1>7, <1>8, <1>9, Steps

\* What the steps of the process give its handles and the manager's vault.
LEMMA HandlesStep ==
    ASSUME RecoveryAssumption, Typed, Next
    PROVE  /\ host' \in {"off", "login", "server"} /\ open' \in BOOLEAN /\ stale' \in BOOLEAN
           /\ cached' \in Vaults \cup {None} /\ (host' = "off" <=> cached' = None)
<1>1. /\ HostTyped /\ FilesTyped /\ OpsTyped /\ TaskTyped
      /\ host \in {"off", "login", "server"} /\ open \in BOOLEAN /\ stale \in BOOLEAN
      /\ cached \in Vaults \cup {None} /\ (host = "off" <=> cached = None)
  BY DEF Typed, HostTyped
<1>2. None \notin Vaults
  BY Constants
<1>3. CASE UNCHANGED <<host, open, stale, cached>>
  BY <1>1, <1>3
<1>4. CASE Stop
  BY <1>4 DEF Stop
<1>5. CASE Start
  <2>1. db.bound \in Vaults
    BY <1>1, <1>5 DEF Start, FilesTyped, Sound, Db
  <2>2. QED
    BY <1>2, <1>5, <2>1 DEF Start
<1>6. ASSUME NEW v \in Vaults, Login(v) \/ LoginNew(v)
      PROVE  /\ host' \in {"off", "login", "server"} /\ open' \in BOOLEAN /\ stale' \in BOOLEAN
             /\ cached' \in Vaults \cup {None} /\ (host' = "off" <=> cached' = None)
  BY <1>1, <1>2, <1>6 DEF Login, LoginNew
<1>7. CASE OpStep /\ UNCHANGED <<host, cached>>
  <2>1. open' \in BOOLEAN
    BY <1>1, <1>7 DEF OpStep, BeginCreate, BeginRestore, Receive, LockReceived, Swap, SwapFails,
                      CopyReceived, CopyBreaks, Reopen, ReopenFails, Answer, Submit, Abandon
  <2>2. stale' \in BOOLEAN
    BY <1>1, <1>7 DEF OpStep, BeginCreate, BeginRestore, Receive, LockReceived, Swap, SwapFails,
                      CopyReceived, CopyBreaks, Reopen, ReopenFails, Answer, Submit, Abandon
  <2>3. QED
    BY <1>1, <1>7, <2>1, <2>2
<1>8. ASSUME Ensure \/ \E v \in Vaults : EnsureMakes(v)
      PROVE  /\ host' \in {"off", "login", "server"} /\ open' \in BOOLEAN /\ stale' \in BOOLEAN
             /\ cached' \in Vaults \cup {None} /\ (host' = "off" <=> cached' = None)
  <2>1. task # NoTask /\ UNCHANGED <<host, open, stale>>
    BY <1>8 DEF Ensure, EnsureMakes, NoTask
  <2>2. host # "off" /\ db.bound \in Vaults
    BY <1>1, <2>1, Up
  <2>3. cached' \in Vaults
    BY <1>8, <2>2 DEF Ensure, EnsureMakes, Best, Known
  <2>4. QED
    BY <1>1, <1>2, <2>1, <2>2, <2>3
<1>9. QED
  BY <1>3, <1>4, <1>5, <1>6, <1>7, <1>8, HostMoves

\* The types of the process.
LEMMA HostStep ==
    ASSUME RecoveryAssumption, Typed, Next
    PROVE  HostTyped'
<1>1. HostTyped /\ DOMAIN others = Requests
  BY DEF Typed, HostTyped
<1>2. host' # "off" => db'.bound \in Vaults
  BY DbStep
<1>3. DOMAIN others' = Requests
  BY <1>1, OthersMoves
<1>4. ASSUME host' = "off"
      PROVE  /\ ~open' /\ path' \in {Same, Broken} /\ task' = NoTask /\ purge' = NoPurge
             /\ sync' = [p \in Syncs |-> NoSync]
             /\ op' = [r \in Requests |-> NoOp]
  <2>1. CASE Stop
    BY <2>1 DEF Stop
  <2>2. CASE ~Stop
    <3>1. host = "off"
      <4>1. ~OpStep \/ host' = host
        BY OpLeaves
      <4>2. Start \/ Ensure \/ (\E v \in Vaults : Login(v) \/ LoginNew(v) \/ EnsureMakes(v)) =>
               host' = host \/ host' # "off"
        BY DEF Start, Ensure, Login, LoginNew, EnsureMakes
      <4>3. QED
        BY <1>4, <2>2, <4>1, <4>2, HostMoves
    <3>2. ~Start /\ \A v \in Vaults : ~Login(v) /\ ~LoginNew(v)
      BY <1>4 DEF Start, Login, LoginNew
    <3>3. Wipe => UNCHANGED <<open, task, purge, sync, op>> /\ path' = Same
      BY DEF Wipe, Memory
    <3>4. /\ ~open /\ path \in {Same, Broken} /\ task = NoTask /\ purge = NoPurge
          /\ sync = [p \in Syncs |-> NoSync]
          /\ op = [r \in Requests |-> NoOp]
      BY <1>1, <3>1 DEF HostTyped
    <3>5. QED
      BY <1>1, <3>1, <3>2, <3>3, <3>4, Down
  <2>3. QED
    BY <2>1, <2>2
<1>5. QED
  BY <1>2, <1>3, <1>4, HandlesStep DEF HostTyped

\* A sync by hand keeps the worker until it ends.
LEMMA ManualStep ==
    ASSUME RecoveryAssumption, Typed, Next
    PROVE  ManualTyped'
<1> DEFINE Active == {"scan", "look", "insert", "update"}
<1>1. /\ SyncsTyped /\ ManualTyped /\ HostTyped
      /\ sync \in [Syncs -> SyncSort] /\ "manual" \in Syncs /\ "start" \in Syncs
      /\ NoTask.kind = "none" /\ NoTask.pc = "idle" /\ NoSync.pc = "off"
  BY DEF Typed, SyncsTyped, Syncs, NoTask, NoSync
<1>2. CASE SyncByHand
  BY <1>2 DEF SyncByHand, ManualTyped, NoTask
<1>3. CASE Stop
  BY <1>1, <1>3 DEF Stop, ManualTyped
<1>4. ASSUME sync'["manual"].pc \in Active, ~SyncByHand, ~Stop
      PROVE  sync["manual"].pc \in Active /\ ~SyncFails("manual") /\ ~SyncEnds("manual")
  <2>1. CASE sync' = sync
    BY <1>1, <1>4, <2>1 DEF SyncFails, SyncEnds, Set, NoSync
  <2>2. CASE sync' = [sync EXCEPT !["start"] = [NoSync EXCEPT !.pc = "scan"]]
    BY <1>1, <1>4, <2>2 DEF SyncFails, SyncEnds, Set, NoSync
  <2>3. ASSUME SyncFails("manual") \/ SyncEnds("manual") PROVE FALSE
    <3>1. PICK a \in {"failed", "done"} : sync' = [sync EXCEPT !["manual"] = [NoSync EXCEPT !.pc = a]]
      BY <2>3 DEF SyncFails, SyncEnds, Set
    <3>2. sync'["manual"].pc = a
      BY <1>1, <3>1 DEF NoSync
    <3>3. QED
      BY <1>4, <3>1, <3>2
  <2>4. ASSUME NEW p \in Syncs, \/ Scan(p) \/ Look(p) \/ InsertRow(p) \/ UpdateRow(p)
                                \/ SyncFails(p) \/ SyncEnds(p)
        PROVE  sync["manual"].pc \in Active
    <3>1. CASE p = "manual"
      BY <2>4, <3>1 DEF Scan, Look, InsertRow, UpdateRow, SyncFails, SyncEnds
    <3>2. CASE p # "manual"
      <4>1. sync'["manual"] = sync["manual"]
        BY <1>1, <2>4, <3>2 DEF Scan, Look, InsertRow, UpdateRow, SyncFails, SyncEnds, Set
      <4>2. QED
        BY <1>4, <4>1
    <3>3. QED
      BY <3>1, <3>2
  <2>5. ASSUME NEW S, Drop(S) PROVE sync'["manual"].pc = sync["manual"].pc
    <3>1. PICK s \in SyncSort : s = sync["manual"]
      BY <1>1
    <3>2. PICK t : t = [s EXCEPT !.dropped = s.dropped \cup S]
      OBVIOUS
    <3>3. t.pc = s.pc
      BY <3>2 DEF SyncSort
    <3>4. sync'["manual"] \in {s, t}
      BY <1>1, <2>5, <3>1, <3>2 DEF Drop
    <3>5. QED
      BY <3>1, <3>3, <3>4
  <2>6. ASSUME \/ \E u \in Uploads : ReplaceOld(u)
               \/ PurgeDeletes
               \/ \E r \in Requests : Reopen(r)
        PROVE  sync' = sync \/ \E S : Drop(S)
    BY <2>6 DEF ReplaceOld, PurgeDeletes, Reopen, DropAll
  <2>7. sync["manual"].pc \in Active
    BY <1>4, <2>1, <2>2, <2>4, <2>5, <2>6, SyncMoves DEF Syncs
  <2>8. QED
    BY <2>3, <2>7
<1>5. ASSUME sync'["manual"].pc \in Active, ~SyncByHand, ~Stop
      PROVE  task'.kind = "sync" /\ task'.pc = "idle"
  <2>1. task.kind = "sync" /\ task.pc = "idle" /\ task # NoTask
    BY <1>1, <1>4, <1>5 DEF ManualTyped
  <2>2. ~Health /\ ~DeleteSnapshot /\ ~Fetch /\ ~Replace /\ \A r \in Requests : ~Submit(r)
    BY <2>1 DEF Health, DeleteSnapshot, StartTask, Fetch, Acting, Replace, Submit
  <2>3. task' = task
    BY <1>4, <1>5, <2>1, <2>2, TaskMoves
  <2>4. QED
    BY <2>1, <2>3
<1>6. QED
  BY <1>2, <1>3, <1>5 DEF ManualTyped

\* The old databases.
LEMMA OldDbIs ==
    ASSUME RecoveryAssumption, NEW v \in OldVaults, NEW n \in 1..Len(OldMessages),
           NEW m, m = [i \in 1..MaxMessages |-> 1]
    PROVE  Bound(OldDb(v, n), m)
<1>1. v \in Vaults /\ MaxMessages \in Nat /\ Len(OldMessages) \in 1..MaxMessages
  BY Constants
<1>2. PICK S : S = {[id |-> <<i, 0>>, v |-> v, i |-> i, name |-> "sent"] : i \in {j \in 1..n : OldMessages[j] = "doc"}}
  OBVIOUS
<1>3. \A i \in 1..n : i \in 1..MaxMessages
  BY <1>1
<1>4. ASSUME NEW r \in S
      PROVE  /\ r \in Row /\ r.id = <<r.i, 0>> /\ r.i \in 1..MaxMessages
             /\ r = [id |-> <<r.i, 0>>, v |-> v, i |-> r.i, name |-> "sent"]
  <2>1. PICK i \in 1..n : r = [id |-> <<i, 0>>, v |-> v, i |-> i, name |-> "sent"]
    BY <1>2
  <2>2. i \in 1..MaxMessages /\ 0 \in Nat
    BY <1>3
  <2>3. QED
    BY <1>1, <2>1, <2>2 DEF Row
<1>5. \A r, q \in S : r.id = q.id => r = q
  <2>1. ASSUME NEW r \in S, NEW q \in S, r.id = q.id PROVE r = q
    <3>1. r.i = q.i
      BY <1>4, <2>1
    <3>2. QED
      BY <1>4, <3>1
  <2>2. QED
    BY <2>1
<1>6. \A r \in S : r.id[1] = r.i /\ r.id[2] < m[r.i]
  BY <1>4
<1>7. PICK d : d = [bound |-> v, rows |-> S]
  OBVIOUS
<1>8. d \in Db /\ d.rows = S /\ d.bound = v
  BY <1>1, <1>4, <1>7 DEF Db
<1>9. Bound(d, m)
  BY <1>1, <1>5, <1>6, <1>8 DEF Bound, Sound
<1>10. d = OldDb(v, n)
  BY <1>2, <1>7 DEF OldDb
<1>11. QED
  BY <1>9, <1>10

\* The messages at first.
LEMMA VaultsInit ==
    ASSUME RecoveryAssumption, Init
    PROVE  VaultsTyped
<1>1. /\ MaxMessages \in Nat /\ Len(OldMessages) \in 1..MaxMessages
      /\ OldMessages \in [1..Len(OldMessages) -> {"service", "doc", "snap"}]
      /\ DOMAIN OldMessages = 1..Len(OldMessages)
      /\ made = [i \in 1..MaxMessages |-> 1]
  BY Constants DEF Init
<1>2. PICK old \in SUBSET OldVaults :
         vault = [v \in Vaults |-> IF v \notin old THEN <<>> ELSE
                    [i \in DOMAIN OldMessages |-> [kind |-> OldMessages[i], db |->
                       IF OldMessages[i] = "snap" THEN OldDb(v, i) ELSE None]]]
  BY DEF Init
<1>3. ASSUME NEW v \in Vaults PROVE vault[v] \in Seq(Message) /\ Holding(vault[v], made)
  <2>1. CASE v \notin old
    <3>1. vault[v] = <<>>
      BY <1>2, <2>1
    <3>2. <<>> \in Seq(Message) /\ Len(<<>>) = 0
      BY EmptySeq
    <3>3. QED
      BY <1>1, <3>1, <3>2 DEF Holding
  <2>2. CASE v \in old
    <3>1. PICK f : f = [i \in 1..Len(OldMessages) |->
                          [kind |-> OldMessages[i], db |-> IF OldMessages[i] = "snap" THEN OldDb(v, i) ELSE None]]
      OBVIOUS
    <3>2. vault[v] = f
      BY <1>1, <1>2, <2>2, <3>1
    <3>3. ASSUME NEW i \in 1..Len(OldMessages)
          PROVE  f[i] \in Message /\ (f[i].kind = "snap" => Bound(f[i].db, made))
      <4>1. Bound(OldDb(v, i), made)
        BY <1>1, <1>2, <2>2, OldDbIs
      <4>2. OldMessages[i] \in {"service", "doc", "snap"}
        BY <1>1
      <4>3. OldDb(v, i) \in Db
        BY <4>1 DEF Bound, Sound
      <4>4. PICK d : d = IF OldMessages[i] = "snap" THEN OldDb(v, i) ELSE None
        OBVIOUS
      <4>5. f[i] = [kind |-> OldMessages[i], db |-> d] /\ d \in Db \cup {None}
        BY <3>1, <4>3, <4>4
      <4>6. QED
        BY <4>1, <4>2, <4>4, <4>5 DEF Message
    <3>4. f \in Seq(Message) /\ Len(f) = Len(OldMessages)
      <4>1. Len(OldMessages) \in Nat
        BY <1>1
      <4>2. f \in Seq(Message)
        BY <3>1, <3>3, <4>1, IsASeq
      <4>3. DOMAIN f = 1..Len(f) /\ Len(f) \in Nat /\ DOMAIN f = 1..Len(OldMessages)
        BY <3>1, <4>2, LenProperties
      <4>4. QED
        BY <4>1, <4>2, <4>3
    <3>5. QED
      BY <1>1, <3>2, <3>3, <3>4 DEF Holding
  <2>3. QED
    BY <2>1, <2>2
<1>4. vault \in [Vaults -> Seq(Message)]
  <2>1. vault = [v \in Vaults |-> vault[v]]
    BY <1>2
  <2>2. QED
    BY <1>3, <2>1
<1>5. QED
  BY <1>3, <1>4 DEF VaultsTyped

\* The files at first.
LEMMA FilesInit ==
    ASSUME RecoveryAssumption, Init
    PROVE  FilesTyped
<1>1. Len(OldMessages) \in 1..MaxMessages /\ MaxMessages \in Nat /\ made = [i \in 1..MaxMessages |-> 1]
  BY Constants DEF Init
<1>2. Len(OldMessages) \in 1..Len(OldMessages)
  BY <1>1
<1>3. \A v \in OldVaults : Bound(OldDb(v, Len(OldMessages)), made)
  BY <1>1, <1>2, OldDbIs
<1>4. Sound(db, made)
  BY <1>3, UnusedIs DEF Init, Bound
<1>5. made \in [1..MaxMessages -> Nat]
  BY <1>1
<1>6. path = Same /\ temp = None /\ writer = None
  BY DEF Init
<1>7. QED
  BY <1>4, <1>5, <1>6 DEF FilesTyped, Content

\* The types hold at first.
LEMMA TypedInit ==
    ASSUME RecoveryAssumption, Init
    PROVE  Typed
<1>1. /\ NoTask \in TaskSort /\ NoTask.kind = "none" /\ NoTask.pc = "idle"
      /\ NoSync \in SyncSort /\ NoSync.pc = "off"
      /\ NoPurge \in Purge /\ NoPurge.pc = "idle"
      /\ NoUpload \in UpSort /\ NoUpload.pc = "idle"
      /\ NoOp \in OpSort /\ NoOp.kind = "none" /\ NoOp.pc = "idle" /\ ~NoOp.ok
  BY Idles DEF NoTask, NoSync, NoPurge, NoOp
<1>2. TaskTyped
  BY <1>1 DEF Init, TaskTyped
<1>3. SyncsTyped
  BY <1>1 DEF Init, SyncsTyped, Runs
<1>4. UpsTyped
  BY <1>1 DEF Init, UpsTyped
<1>5. PurgeTyped
  BY <1>1 DEF Init, PurgeTyped
<1>6. OpsTyped
  <2>1. op \in [Requests -> OpSort] /\ \A r \in Requests : op[r] = NoOp
    BY <1>1 DEF Init
  <2>2. Stage(NoOp, made)
    BY <1>1 DEF Stage
  <2>3. QED
    BY <1>1, <2>1, <2>2 DEF OpsTyped, Locked
<1>7. HostTyped
  BY DEF Init, HostTyped
<1>8. ManualTyped
  BY <1>1 DEF Init, ManualTyped, Syncs
<1>9. QED
  BY <1>2, <1>3, <1>4, <1>5, <1>6, <1>7, <1>8, VaultsInit, FilesInit DEF Typed

\* The types hold after every step.
LEMMA TypedStep ==
    ASSUME RecoveryAssumption, Typed, [Next]_vars
    PROVE  Typed'
<1>1. CASE Next
  BY <1>1, VaultStep, FilesStep, TaskStepTyped, SyncStepTyped, UpStep, PurgeStep, OpsStep, HostStep,
     ManualStep DEF Typed
<1>2. CASE UNCHANGED vars
  <2>1. UNCHANGED <<vault, host, db, path, writer, open, stale, cached, task, sync, up, purge, op, temp, made,
                   others>>
    BY <1>2 DEF vars
  <2>2. VaultsTyped' /\ FilesTyped'
    BY <2>1 DEF Typed, VaultsTyped, FilesTyped
  <2>3. TaskTyped' /\ UpsTyped' /\ PurgeTyped' /\ ManualTyped'
    BY <2>1 DEF Typed, TaskTyped, UpsTyped, PurgeTyped, ManualTyped
  <2>4. SyncsTyped'
    BY <2>1 DEF Typed, SyncsTyped, Runs
  <2>5. OpsTyped'
    BY <2>1 DEF Typed, OpsTyped, Waits, Locked
  <2>6. HostTyped'
    BY <2>1 DEF Typed, HostTyped
  <2>7. QED
    BY <2>2, <2>3, <2>4, <2>5, <2>6 DEF Typed
<1>3. QED
  BY <1>1, <1>2

\* The types hold always.
LEMMA TypedAlways == ASSUME RecoveryAssumption PROVE Spec => []Typed
<1>1. Init => Typed
  BY TypedInit
<1>2. Typed /\ [Next]_vars => Typed'
  BY TypedStep
<1>3. QED
  BY <1>1, <1>2, PTL DEF Spec

\* They are what TypeOK says, and more.
LEMMA TypedImplies ==
    ASSUME RecoveryAssumption, Typed
    PROVE  TypeOK
<1>1. /\ VaultsTyped /\ FilesTyped /\ TaskTyped /\ SyncsTyped /\ UpsTyped /\ PurgeTyped
      /\ OpsTyped /\ HostTyped /\ None \notin Vaults
  BY Constants DEF Typed
<1>2. \A d, m : Sound(d, m) => IsDb(d)
  BY DEF Sound, IsDb, Db
<1>3. ASSUME NEW v \in Vaults
      PROVE  /\ Len(vault[v]) <= MaxMessages
             /\ \A i \in DOMAIN vault[v] :
                  /\ vault[v][i].kind \in {"service", "doc", "snap", "gone"}
                  /\ vault[v][i].kind = "snap" => IsDb(vault[v][i].db)
  <2>1. vault[v] \in Seq(Message) /\ Holding(vault[v], made)
    BY <1>1 DEF VaultsTyped
  <2>2. \A i \in DOMAIN vault[v] : i \in 1..Len(vault[v]) /\ vault[v][i] \in Message
    BY <2>1, ElementOfSeq, LenProperties
  <2>3. \A i \in DOMAIN vault[v] : vault[v][i].kind \in {"service", "doc", "snap", "gone"}
    BY <2>2 DEF Message
  <2>4. QED
    BY <1>2, <2>1, <2>2, <2>3 DEF Holding, Bound
<1>4. /\ IsDb(db) /\ (host # "off" => db.bound # None) /\ (path \in {Same, Broken} \/ IsDb(path))
      /\ writer \in Requests \cup {None}
  BY <1>1, <1>2 DEF FilesTyped, HostTyped, Bound
<1>5. /\ host \in {"off", "login", "server"} /\ open \in BOOLEAN /\ stale \in BOOLEAN
      /\ cached \in Vaults \cup {None} /\ (host = "off" <=> cached = None) /\ DOMAIN others = Requests
  BY <1>1 DEF HostTyped
<1>6. /\ task.kind \in {"none", "sync", "health", "delete", "create", "restore"}
      /\ task.pc \in {"idle", "ensure", "act", "replace", "copy"}
  BY <1>1 DEF TaskTyped, TaskSort, TaskKind
<1>7. ASSUME NEW p \in Syncs
      PROVE  /\ sync[p].pc \in {"off", "scan", "look", "insert", "update", "done", "failed"}
             /\ sync[p].todo \subseteq 1..MaxMessages
  BY <1>1, SyncFacts DEF SyncSort, SyncPc
<1>8. /\ \A u \in Uploads : up[u].pc \in {"idle", "replace", "create", "done"}
      /\ purge.pc \in {"idle", "call", "delete"}
  BY <1>1 DEF UpsTyped, UpSort, PurgeTyped, Purge
<1>9. ASSUME NEW r \in Requests
      PROVE  /\ op[r].pc \in {"idle", "lock", "call", "wait", "swap", "copy", "reopen", "answer"}
             /\ op[r].pc = "wait" => task.r = r /\ task.kind = op[r].kind
  BY <1>1, OpFacts DEF OpPc, Waits
<1>10. Cardinality({r \in Requests : Locked(r)}) <= 1
  <2>1. PICK S : S = {r \in Requests : Locked(r)}
    OBVIOUS
  <2>2. \A r, q \in S : r = q
    BY <1>1, <2>1 DEF OpsTyped
  <2>3. CASE S = {}
    <3>1. Cardinality(S) = 0
      BY <2>3, FS_EmptySet
    <3>2. QED
      BY <2>1, <3>1
  <2>4. CASE S # {}
    <3>1. PICK r : r \in S
      BY <2>4
    <3>2. S = {r}
      BY <2>2, <3>1
    <3>3. Cardinality(S) = 1
      BY <3>2, FS_Singleton
    <3>4. QED
      BY <2>1, <3>3
  <2>5. QED
    BY <2>3, <2>4
<1>11. \A r \in db.rows : r.id[2] < made[r.id[1]]
  BY <1>1 DEF FilesTyped, Sound
<1>12. QED
  BY <1>3, <1>4, <1>5, <1>6, <1>7, <1>8, <1>9, <1>10, <1>11 DEF TypeOK

\* The types of Recovery: whatever the vaults hold, however many requests and uploads there are,
\* a server has a bound database, the rows of every database that is in use, saved or restored
\* have identifiers of their own, and at most one request holds the lock of snapshotMu.
THEOREM RecoveryTyped == ASSUME RecoveryAssumption PROVE Spec => []TypeOK
<1>1. Typed => TypeOK
  BY TypedImplies
<1>2. QED
  BY <1>1, TypedAlways, PTL

-----------------------------------------------------------------------------
(* A sync covers the vault. *)

\* A row of a message that is there stays, or the syncs that run drop the message.
LEMMA RowsLast ==
    ASSUME RecoveryAssumption, Typed, Next, NEW p \in Syncs, Runs(p), Runs(p)', NEW i, HasRow(i)
    PROVE  HasRow(i)' \/ i \in sync'[p].dropped
<1>1. /\ FilesTyped /\ SyncsTyped /\ PurgeTyped /\ UpsTyped /\ HostTyped /\ db \in Db
      /\ \A r \in db.rows : r \in Row /\ r.id[1] = r.i
  BY DEF Typed, FilesTyped, Sound, Db
<1>2. PICK r \in db.rows : r.i = i
  BY DEF HasRow, Holds
<1>3. i \in 1..MaxMessages
  BY <1>1, <1>2 DEF Row
<1>4. host # "off"
  BY <1>1, Up DEF Runs, NoSync
<1>5. ~Stop
  BY DEF Stop, Runs, NoSync
<1>6. ~Wipe /\ \A v \in Vaults : ~Login(v) /\ ~LoginNew(v)
  BY <1>4 DEF Wipe, Login, LoginNew
<1>7. CASE db' = db
  BY <1>7 DEF HasRow, Holds
<1>8. ASSUME NEW j \in 1..MaxMessages, NEW v \in Vaults, Insert(v, j) PROVE HasRow(i)'
  <2>1. r \in db'.rows
    BY <1>1, <1>8, RowInserted
  <2>2. QED
    BY <1>2, <2>1 DEF HasRow, Holds
<1>9. ASSUME NEW q \in Syncs, InsertRow(q) PROVE HasRow(i)'
  <2>1. /\ sync[q].v \in Vaults /\ Greatest(sync[q].todo) \in 1..MaxMessages
        /\ Insert(sync[q].v, Greatest(sync[q].todo))
    BY <1>1, <1>9, SyncFacts, AtDocument DEF InsertRow, Runs
  <2>2. QED
    BY <1>8, <2>1
<1>10. ASSUME NEW q \in Syncs, UpdateRow(q) PROVE HasRow(i)'
  <2>1. sync[q].v \in Vaults
    BY <1>1, <1>10, SyncFacts DEF UpdateRow, Runs
  <2>2. QED
    BY <1>1, <1>10, <2>1, RowsUpdated
<1>11. ASSUME NEW u \in Uploads, CreateRow(u) PROVE HasRow(i)'
  <2>1. up[u].v \in Vaults /\ up[u].i \in 1..MaxMessages /\ Insert(up[u].v, up[u].i)
    BY <1>1, <1>11 DEF CreateRow, UpsTyped
  <2>2. QED
    BY <1>8, <2>1
<1>12. ASSUME NEW q \in db.rows, Rename(q) PROVE HasRow(i)'
  BY <1>1, <1>12, RowRenamed
<1>13. ASSUME NEW rs, NEW j \in 1..MaxMessages, Delete(rs), Drop({j}), \A q \in rs : q.i = j
       PROVE  HasRow(i)' \/ i \in sync'[p].dropped
  <2>1. db'.rows = db.rows \ rs
    BY <1>1, <1>13, RowsDeleted
  <2>2. sync'[p].dropped = sync[p].dropped \cup {j}
    BY <1>1, <1>13, SyncsDrop
  <2>3. QED
    BY <1>2, <1>13, <2>1, <2>2 DEF HasRow, Holds
<1>14. ASSUME NEW u \in Uploads, ReplaceOld(u), db' # db PROVE HasRow(i)' \/ i \in sync'[p].dropped
  <2>1. PICK q \in db.rows : Delete({q}) /\ Drop({q.i})
    BY <1>14 DEF ReplaceOld
  <2>2. q.i \in 1..MaxMessages
    BY <1>1 DEF Row
  <2>3. QED
    BY <1>13, <2>1, <2>2
<1>15. ASSUME PurgeDeletes, db' # db PROVE HasRow(i)' \/ i \in sync'[p].dropped
  <2>1. PICK rs : rs = {q \in db.rows : q.id = purge.id}
    OBVIOUS
  <2>2. Delete(rs) /\ Drop({purge.i}) /\ purge.id \in Pairs /\ purge.i = purge.id[1]
    BY <1>1, <1>15, <2>1 DEF PurgeDeletes, PurgeTyped
  <2>3. purge.i \in 1..MaxMessages /\ \A q \in rs : q.i = purge.i
    BY <1>1, <2>1, <2>2 DEF Pairs
  <2>4. QED
    BY <1>13, <2>2, <2>3
<1>16. ASSUME NEW q \in Requests, Reopen(q), db' # db PROVE i \in sync'[p].dropped
  <2>1. Drop(1..MaxMessages)
    BY <1>16 DEF Reopen, DropAll
  <2>2. sync'[p].dropped = sync[p].dropped \cup 1..MaxMessages
    BY <1>1, <2>1, SyncsDrop
  <2>3. QED
    BY <1>3, <2>2
<1>17. QED
  BY <1>5, <1>6, <1>7, <1>9, <1>10, <1>11, <1>12, <1>14, <1>15, <1>16, DbMoves

\* The documents a sync had to see get fewer.
LEMMA DueShrinks ==
    ASSUME RecoveryAssumption, Typed, Next, NEW p \in Syncs, Runs(p), sync'[p].v = sync[p].v,
           sync'[p].top = sync[p].top, sync[p].dropped \subseteq sync'[p].dropped,
           NEW i \in Due(p)'
    PROVE  i \in Due(p)
<1>1. /\ SyncsTyped /\ VaultsTyped /\ VaultsTyped' /\ \A w \in Vaults : Grown(vault[w], vault'[w])
  BY VaultStep DEF Typed
<1>2. PICK v \in Vaults : v = sync[p].v
  BY <1>1, SyncFacts
<1>3. /\ i \in DOMAIN vault'[v] /\ vault'[v][i].kind = "doc" /\ i <= sync[p].top
      /\ i \notin sync[p].dropped
  BY <1>2 DEF Due, Numbers
<1>4. /\ vault[v] \in Seq(Message) /\ vault'[v] \in Seq(Message) /\ sync[p].top \in Nat
      /\ sync[p].top <= Len(vault[v])
  BY <1>1, <1>2, SyncFacts DEF VaultsTyped
<1>5. i \in 1..Len(vault[v])
  <2>1. i \in 1..Len(vault'[v]) /\ Len(vault'[v]) \in Nat /\ Len(vault[v]) \in Nat
    BY <1>3, <1>4, LenProperties
  <2>2. QED
    BY <1>3, <1>4, <2>1
<1>6. vault[v][i].kind = "doc"
  BY <1>1, <1>3, <1>5 DEF Grown
<1>7. i \in DOMAIN vault[v]
  BY <1>4, <1>5, LenProperties
<1>8. QED
  BY <1>2, <1>3, <1>6, <1>7 DEF Due, Numbers

\* A sync that stays at its document has covered what it had.
LEMMA CoverStays ==
    ASSUME RecoveryAssumption, Typed, Next, NEW p \in Syncs, Runs(p), Covered(p), Runs(p)',
           sync'[p].pc = sync[p].pc, sync'[p].v = sync[p].v, sync'[p].todo = sync[p].todo,
           sync'[p].top = sync[p].top, sync'[p].behind = sync[p].behind,
           sync[p].dropped \subseteq sync'[p].dropped
    PROVE  Covered(p)'
<1>1. ASSUME NEW i \in Due(p)', i \notin sync[p].behind PROVE i \in sync[p].todo \/ HasRow(i)'
  <2>1. i \in Due(p) /\ i \notin sync'[p].dropped
    BY DueShrinks DEF Due
  <2>2. i \in sync[p].todo \/ HasRow(i)
    BY <1>1, <2>1 DEF Covered
  <2>3. QED
    BY <2>1, <2>2, RowsLast
<1>2. ASSUME sync[p].pc = "update"
      PROVE  \/ Greatest(sync[p].todo) \in sync'[p].dropped
             \/ HasRow(Greatest(sync[p].todo))'
  <2>1. PICK i : i = Greatest(sync[p].todo)
    OBVIOUS
  <2>2. i \in sync[p].dropped \/ HasRow(i)
    BY <1>2, <2>1 DEF Covered
  <2>3. i \in sync'[p].dropped \/ HasRow(i)'
    BY <2>2, RowsLast
  <2>4. QED
    BY <2>1, <2>3
<1>3. QED
  BY <1>1, <1>2 DEF Covered

\* A sync that is done with a document.
LEMMA CoverGoesOn ==
    ASSUME RecoveryAssumption, Typed, Next, NEW p \in Syncs, Covered(p), InsertRow(p) \/ UpdateRow(p)
    PROVE  Covered(p)'
<1>1. /\ FilesTyped /\ SyncsTyped /\ sync \in [Syncs -> SyncSort] /\ sync[p] \in SyncSort /\ Runs(p)
      /\ sync[p].v \in Vaults
      /\ Greatest(sync[p].todo) \in sync[p].todo /\ Greatest(sync[p].todo) \in 1..MaxMessages
  <2>1. SyncsTyped /\ FilesTyped /\ Runs(p) /\ sync[p].pc \in {"insert", "update"}
    BY DEF Typed, InsertRow, UpdateRow, Runs
  <2>2. QED
    BY <2>1, SyncFacts, AtDocument
<1>2. sync'[p] = NextDocument(sync[p])
  BY <1>1 DEF InsertRow, UpdateRow, Set
<1>3. PICK g : g = Greatest(sync[p].todo)
  OBVIOUS
<1>4. /\ sync'[p].pc = "look" /\ sync'[p].todo = sync[p].todo \ {g}
      /\ sync'[p].v = sync[p].v /\ sync'[p].top = sync[p].top
      /\ sync'[p].dropped = sync[p].dropped /\ sync'[p].behind = sync[p].behind
  BY <1>1, <1>2, <1>3, NextDocumentIs
<1>5. Runs(p)'
  BY <1>4 DEF Runs
<1>6. g \in sync'[p].dropped \/ HasRow(g)'
  <2>1. CASE InsertRow(p)
    BY <1>1, <1>3, <2>1, RowInserted DEF InsertRow, HasRow, Holds
  <2>2. CASE UpdateRow(p)
    <3>1. g \in sync[p].dropped \/ HasRow(g)
      BY <1>1, <1>3, <2>2 DEF Covered, UpdateRow
    <3>2. QED
      BY <1>1, <1>4, <1>5, <3>1, RowsLast
  <2>3. QED
    BY <2>1, <2>2
<1>7. ASSUME NEW i \in Due(p)', i \notin sync[p].behind PROVE i \in sync'[p].todo \/ HasRow(i)'
  <2>1. i \in Due(p) /\ i \notin sync'[p].dropped
    BY <1>1, <1>4, DueShrinks DEF Due
  <2>2. CASE i = g
    BY <1>6, <2>1, <2>2
  <2>3. CASE i # g
    <3>1. i \in sync[p].todo \/ HasRow(i)
      BY <1>1, <1>7, <2>1 DEF Covered
    <3>2. QED
      BY <1>1, <1>4, <1>5, <2>1, <2>3, <3>1, RowsLast
  <2>4. QED
    BY <2>2, <2>3
<1>8. QED
  BY <1>4, <1>7 DEF Covered

\* Every step keeps what the syncs have covered.
LEMMA CoveredStep ==
    ASSUME RecoveryAssumption, Typed, AllCovered, [Next]_vars
    PROVE  AllCovered'
<1>1. CASE UNCHANGED vars
  BY <1>1 DEF vars, AllCovered, Covered, Runs, Due, Numbers, HasRow, Holds
<1>2. ASSUME Next, NEW p \in Syncs PROVE Covered(p)'
  <2>1. /\ FilesTyped /\ VaultsTyped /\ SyncsTyped /\ PurgeTyped /\ HostTyped
        /\ sync \in [Syncs -> SyncSort] /\ Covered(p)
    BY DEF Typed, AllCovered, SyncsTyped
  <2>2. CASE ~Runs(p)'
    BY <2>2 DEF Covered
  <2>3. ASSUME Runs(p)', sync'[p] = sync[p] PROVE Covered(p)'
    <3>1. Runs(p)
      BY <2>3 DEF Runs
    <3>2. QED
      BY <1>2, <2>1, <2>3, <3>1, CoverStays
  <2>4. CASE Stop
    <3>1. ~Runs(p)'
      BY <2>4 DEF Stop, Runs, NoSync
    <3>2. QED
      BY <2>2, <3>1
  <2>5. ASSUME NEW q \in Syncs, NEW a \in {"scan", "failed", "done"}, Runs(p)',
               sync' = [sync EXCEPT ![q] = [NoSync EXCEPT !.pc = a]]
        PROVE  Covered(p)'
    <3>1. CASE q = p
      <4>1. sync'[p].pc = a
        BY <2>1, <2>5, <3>1 DEF NoSync
      <4>2. QED
        BY <2>5, <4>1 DEF Runs
    <3>2. CASE q # p
      BY <2>1, <2>3, <2>5, <3>2
    <3>3. QED
      BY <3>1, <3>2
  <2>6. ASSUME NEW q \in Syncs, q # p, Runs(p)', \/ Scan(q) \/ Look(q) \/ InsertRow(q) \/ UpdateRow(q)
        PROVE  Covered(p)'
    <3>1. sync'[p] = sync[p]
      BY <2>1, <2>6 DEF Scan, Look, InsertRow, UpdateRow, Set
    <3>2. QED
      BY <2>3, <2>6, <3>1
  <2>7. CASE Scan(p)
    <3>1. /\ cached \in Vaults /\ sync'[p].pc = "look" /\ sync'[p].v = cached /\ sync'[p].todo = Scanned(cached)
          /\ sync'[p].behind = Behind(cached) /\ vault' = vault
      BY <2>7, ScanIs DEF Scan
    <3>2. vault[cached] \in Seq(Message)
      BY <2>1, <3>1 DEF VaultsTyped
    <3>3. ASSUME NEW i \in Due(p)', i \notin Behind(cached) PROVE i \in Scanned(cached)
      <4>1. i \in Numbers(cached, {"doc"})
        BY <3>1, <3>3 DEF Due, Numbers
      <4>2. QED
        BY <3>1, <3>2, <3>3, <4>1, ScanSeesAll
    <3>4. QED
      BY <3>1, <3>3 DEF Covered
  <2>8. CASE Look(p)
    <3>1. /\ sync[p] \in SyncSort /\ Runs(p) /\ sync[p].todo # {} /\ sync[p].pc = "look"
          /\ UNCHANGED <<vault, db>>
      BY <2>1, <2>8, SyncFacts DEF Look, Runs
    <3>2. PICK s : s = sync[p]
      OBVIOUS
    <3>3. PICK a \in {"insert", "update"}, c \in Pairs \cup {None} :
             sync'[p] = [s EXCEPT !.pc = a, !.at = c] /\ (a = "update" => HasRow(Greatest(s.todo)))
      <4>1. CASE sync' = [sync EXCEPT ![p] = [sync[p] EXCEPT !.pc = "insert"]]
        <5>1. [s EXCEPT !.pc = "insert"] = [s EXCEPT !.pc = "insert", !.at = s.at]
          BY <3>1, <3>2 DEF SyncSort
        <5>2. s.at \in Pairs \cup {None}
          BY <3>1, <3>2 DEF SyncSort
        <5>3. QED
          BY <2>1, <3>2, <4>1, <5>1, <5>2
      <4>2. ASSUME NEW r \in Holds(Greatest(sync[p].todo)),
                   sync' = [sync EXCEPT ![p] = [sync[p] EXCEPT !.pc = "update", !.at = r.id]]
            PROVE  \E c \in Pairs \cup {None} :
                      sync'[p] = [s EXCEPT !.pc = "update", !.at = c] /\ HasRow(Greatest(s.todo))
        <5>1. r.id \in Pairs
          BY <2>1 DEF Holds, FilesTyped, Sound, Db, Row, Pairs
        <5>2. QED
          BY <2>1, <3>2, <4>2, <5>1 DEF HasRow
      <4>3. QED
        BY <2>8, <4>1, <4>2 DEF Look, Set
    <3>4. PICK t : t = [s EXCEPT !.pc = a, !.at = c]
      OBVIOUS
    <3>5. t.pc = a /\ t.v = s.v /\ t.todo = s.todo /\ t.top = s.top /\ t.dropped = s.dropped /\ t.behind = s.behind
      BY <3>1, <3>2, <3>4 DEF SyncSort
    <3>6. sync'[p] = t
      BY <3>3, <3>4
    <3>7. \A i : HasRow(i)' <=> HasRow(i)
      BY <3>1 DEF HasRow, Holds
    <3>8. Due(p)' = Due(p)
      BY <3>1, <3>2, <3>5, <3>6 DEF Due, Numbers
    <3>9. \A i \in Due(p) \ sync[p].behind : i \in sync[p].todo \/ HasRow(i)
      BY <2>1, <3>1 DEF Covered
    <3>10. QED
      BY <3>2, <3>3, <3>5, <3>6, <3>7, <3>8, <3>9 DEF Covered
  <2>9. CASE InsertRow(p) \/ UpdateRow(p)
    BY <1>2, <2>1, <2>9, CoverGoesOn
  <2>10. ASSUME NEW S \in SUBSET (1..MaxMessages), Drop(S), Runs(p)' PROVE Covered(p)'
    <3>1. /\ sync'[p].pc = sync[p].pc /\ sync'[p].v = sync[p].v
          /\ sync'[p].todo = sync[p].todo /\ sync'[p].top = sync[p].top
          /\ sync'[p].behind = sync[p].behind /\ sync[p].dropped \subseteq sync'[p].dropped
      BY <2>1, <2>10, SyncsDrop
    <3>2. Runs(p)
      BY <2>10, <3>1 DEF Runs
    <3>3. QED
      BY <1>2, <2>1, <2>10, <3>1, <3>2, CoverStays
  <2>11. ASSUME \/ \E u \in Uploads : ReplaceOld(u)
                \/ PurgeDeletes
                \/ \E r \in Requests : Reopen(r)
         PROVE  sync' = sync \/ \E S \in SUBSET (1..MaxMessages) : Drop(S)
    <3>1. ASSUME NEW u \in Uploads, ReplaceOld(u), sync' # sync
          PROVE  \E S \in SUBSET (1..MaxMessages) : Drop(S)
      <4>1. PICK r \in db.rows : Drop({r.i})
        BY <3>1 DEF ReplaceOld
      <4>2. {r.i} \in SUBSET (1..MaxMessages)
        BY <2>1 DEF FilesTyped, Sound, Db, Row
      <4>3. QED
        BY <4>1, <4>2
    <3>2. ASSUME PurgeDeletes, sync' # sync PROVE \E S \in SUBSET (1..MaxMessages) : Drop(S)
      <4>1. Drop({purge.i}) /\ purge.id \in Pairs /\ purge.i = purge.id[1]
        BY <2>1, <3>2 DEF PurgeDeletes, PurgeTyped
      <4>2. {purge.i} \in SUBSET (1..MaxMessages)
        BY <4>1 DEF Pairs
      <4>3. QED
        BY <4>1, <4>2
    <3>3. ASSUME NEW r \in Requests, Reopen(r), sync' # sync PROVE \E S \in SUBSET (1..MaxMessages) : Drop(S)
      BY <3>3 DEF Reopen, DropAll
    <3>4. QED
      BY <2>11, <3>1, <3>2, <3>3
  <2>12. CASE sync' = sync
    BY <2>2, <2>3, <2>12
  <2>13. ASSUME \/ SyncByHand \/ sync' = [sync EXCEPT !["start"] = [NoSync EXCEPT !.pc = "scan"]]
                \/ \E q \in Syncs : SyncFails(q) \/ SyncEnds(q)
         PROVE  Covered(p)'
    <3>1. \E q \in Syncs, a \in {"scan", "failed", "done"} : sync' = [sync EXCEPT ![q] = [NoSync EXCEPT !.pc = a]]
      BY <2>13 DEF SyncByHand, SyncFails, SyncEnds, Set, Syncs
    <3>2. QED
      BY <2>2, <2>5, <3>1
  <2>14. QED
    BY <1>2, <2>2, <2>4, <2>6, <2>7, <2>8, <2>9, <2>10, <2>11, <2>12, <2>13, SyncMoves
<1>3. QED
  BY <1>1, <1>2 DEF AllCovered

\* A sync that succeeds leaves no document without a row that is on a page of the history up to
\* the newest one with the service message of a pinned snapshot (SyncCovers), and no document at
\* all where no snapshot was pinned: those pages are full, so that the scan reads on, and every
\* document it has seen gets a row or has one, however many uploads, purges, renames and restores
\* there are meanwhile.  It says nothing of documents on older pages, nor of vaults of more than
\* the 5000 documents at which the scan stops.
THEOREM SyncsCover == ASSUME RecoveryAssumption PROVE Spec => []SyncCovers
<1>1. Init => AllCovered
  BY DEF Init, AllCovered, Covered, Runs, NoSync
<1>2. Typed /\ AllCovered /\ [Next]_vars => AllCovered'
  BY CoveredStep
<1>3. Typed /\ AllCovered => SyncCovers
  BY DEF AllCovered, Covered, SyncCovers, Ends, Runs
<1>4. QED
  BY <1>1, <1>2, <1>3, TypedAlways, PTL DEF Spec

-----------------------------------------------------------------------------
(* Retention. *)

\* Only the upload of a snapshot prunes, and it keeps the newest.
LEMMA KeptStep ==
    ASSUME RecoveryAssumption, Typed, Next, task.kind = "create", NEW v \in Vaults,
           NEW i \in Numbers(v, {"snap"}), vault'[v][i].kind = "gone"
    PROVE  Cardinality({j \in DOMAIN vault'[v] : j > i /\ vault'[v][j].kind = "snap"}) >= Keep
<1>1. /\ vault \in [Vaults -> Seq(Message)] /\ Holding(vault[v], made) /\ HostTyped /\ TaskTyped
      /\ i \in DOMAIN vault[v] /\ vault[v][i].kind = "snap"
  BY DEF Typed, VaultsTyped, Numbers
<1>2. task # NoTask
  BY DEF NoTask
<1>3. vault' # vault
  BY <1>1
<1>4. ~\E w \in Vaults : vault[w] = <<>> /\ vault' = [vault EXCEPT ![w] = <<Service>>]
  <2>1. ASSUME NEW w \in Vaults, vault[w] = <<>>, vault' = [vault EXCEPT ![w] = <<Service>>] PROVE FALSE
    <3>1. CASE w = v
      <4>1. DOMAIN vault[v] = {}
        BY <2>1, <3>1
      <4>2. QED
        BY <1>1, <4>1
    <3>2. CASE w # v
      BY <1>1, <2>1, <3>2
    <3>3. QED
      BY <3>1, <3>2
  <2>2. QED
    BY <2>1
<1>5. ~PurgeCalls /\ ~DeleteMessage /\ \A u \in Uploads : ~Commit(u)
  BY <1>2 DEF PurgeCalls, DeleteMessage, Acting, Commit
<1>6. UploadSnapshot
  BY <1>3, <1>4, <1>5, VaultMoves
<1>7. cached \in Vaults /\ Len(vault[cached]) + 2 <= MaxMessages
  BY <1>1, <1>2, <1>6, Up DEF UploadSnapshot, Room
<1>8. task.db \in Db /\ Bound(task.db, made)
  BY <1>1 DEF TaskTyped, Bound, Sound
<1>9. PICK pin \in {<<>>, <<Service>>} :
         \E kept : /\ LET ms == vault[cached] \o <<[kind |-> "snap", db |-> task.db]>> \o pin
                      IN  kept \in {ms, Pruned(ms)}
                   /\ vault' = [vault EXCEPT ![cached] = kept]
  BY <1>6 DEF UploadSnapshot
<1>10. PICK ms : ms = vault[cached] \o <<[kind |-> "snap", db |-> task.db]>> \o pin
  OBVIOUS
<1>11. PICK kept : kept \in {ms, Pruned(ms)} /\ vault' = [vault EXCEPT ![cached] = kept]
  BY <1>9, <1>10
<1>12. v = cached
  BY <1>1, <1>11
<1>13. vault'[v] = kept
  BY <1>1, <1>11, <1>12
<1>14. ms \in Seq(Message) /\ Grown(vault[v], ms) /\ \A j \in 1..Len(vault[v]) : ms[j] = vault[v][j]
  <2>1. PICK old \in Seq(Message) : old = vault[v]
    BY <1>1
  <2>2. PICK d \in Db : d = task.db
    BY <1>8
  <2>3. PICK m : m = made
    OBVIOUS
  <2>4. /\ ms = old \o <<[kind |-> "snap", db |-> d]>> \o pin /\ Len(old) + 2 <= MaxMessages
        /\ Holding(old, m) /\ Bound(d, m)
    BY <1>1, <1>7, <1>8, <1>10, <1>12, <2>1, <2>2, <2>3
  <2>5. ms \in Seq(Message) /\ Grown(old, ms) /\ \A j \in 1..Len(old) : ms[j] = old[j]
    <3>1. ms \in Seq(Message)
      BY <2>4, UploadedIs
    <3>2. Grown(old, ms)
      BY <2>4, UploadedIs
    <3>3. \A j \in 1..Len(old) : ms[j] = old[j]
      BY <2>4, UploadedIs
    <3>4. QED
      BY <3>1, <3>2, <3>3
  <2>6. QED
    BY <2>1, <2>5
<1>15. i \in 1..Len(vault[v]) /\ i \in DOMAIN ms
  <2>1. /\ DOMAIN vault[v] = 1..Len(vault[v]) /\ DOMAIN ms = 1..Len(ms)
        /\ Len(vault[v]) \in Nat /\ Len(ms) \in Nat /\ Len(vault[v]) <= Len(ms)
    BY <1>1, <1>14, LenProperties DEF Grown
  <2>2. QED
    BY <1>1, <2>1
<1>16. ms[i].kind = "snap"
  BY <1>1, <1>14, <1>15
<1>17. kept = Pruned(ms)
  BY <1>11, <1>13, <1>16
<1>18. QED
  BY <1>13, <1>14, <1>15, <1>16, <1>17, PrunedKeeps

\* Retention never takes one of the newest Keep snapshots of a vault (NewestKept): with any
\* Keep, any Window and whatever else the vault holds.
THEOREM RetentionKeeps == ASSUME RecoveryAssumption PROVE Spec => NewestKept
<1>1. Typed /\ [Next]_vars =>
        [task.kind = "create" => \A v \in Vaults : \A i \in Numbers(v, {"snap"}) :
             vault'[v][i].kind = "gone" =>
               Cardinality({j \in DOMAIN vault'[v] : j > i /\ vault'[v][j].kind = "snap"}) >= Keep]_vars
  <2>1. ASSUME Typed, [Next]_vars, vars' # vars PROVE Next
    BY <2>1
  <2>2. QED
    BY <2>1, KeptStep
<1>2. QED
  BY <1>1, TypedAlways, PTL DEF Spec, NewestKept

-----------------------------------------------------------------------------
(* A restore swaps in what was selected. *)

\* While a request holds the lock and is not about to open the database again, the database is
\* bound to the same vault.
LEMMA BindingStays ==
    ASSUME RecoveryAssumption, Typed, Next, NEW r \in Requests, op[r].pc \in {"call", "wait"},
           op'[r].pc \in {"call", "wait"}
    PROVE  db'.bound = db.bound
<1>1. /\ FilesTyped /\ HostTyped /\ OpsTyped /\ SyncsTyped /\ UpsTyped
      /\ \A p, q \in Requests : Locked(p) /\ Locked(q) => p = q
  BY DEF Typed, OpsTyped
<1>2. host # "off"
  BY <1>1, Up DEF NoOp
<1>3. ~Stop
  BY DEF Stop, NoOp
<1>4. ~Wipe /\ \A v \in Vaults : ~Login(v) /\ ~LoginNew(v)
  BY <1>2 DEF Wipe, Login, LoginNew
<1>5. \A q \in Requests : ~Reopen(q)
  BY <1>1 DEF Reopen, Locked
<1>6. ASSUME NEW v \in Vaults, NEW i \in 1..MaxMessages, Insert(v, i) PROVE db'.bound = db.bound
  BY <1>1, <1>6, RowInserted
<1>7. ASSUME NEW rs, Delete(rs) PROVE db'.bound = db.bound
  BY <1>1, <1>7, RowsDeleted
<1>8. ASSUME NEW p \in Syncs, InsertRow(p) PROVE db'.bound = db.bound
  <2>1. /\ sync[p].v \in Vaults /\ Greatest(sync[p].todo) \in 1..MaxMessages
        /\ Insert(sync[p].v, Greatest(sync[p].todo))
    BY <1>1, <1>8, SyncFacts, AtDocument DEF InsertRow, Runs
  <2>2. QED
    BY <1>6, <2>1
<1>9. ASSUME NEW p \in Syncs, UpdateRow(p) PROVE db'.bound = db.bound
  <2>1. sync[p].v \in Vaults
    BY <1>1, <1>9, SyncFacts DEF UpdateRow, Runs
  <2>2. QED
    BY <1>1, <1>9, <2>1, RowsUpdated
<1>10. ASSUME NEW u \in Uploads, CreateRow(u) PROVE db'.bound = db.bound
  <2>1. up[u].v \in Vaults /\ up[u].i \in 1..MaxMessages /\ Insert(up[u].v, up[u].i)
    BY <1>1, <1>10 DEF CreateRow, UpsTyped
  <2>2. QED
    BY <1>6, <2>1
<1>11. ASSUME NEW u \in Uploads, ReplaceOld(u) PROVE db'.bound = db.bound
  BY <1>7, <1>11 DEF ReplaceOld
<1>12. ASSUME PurgeDeletes PROVE db'.bound = db.bound
  BY <1>7, <1>12 DEF PurgeDeletes
<1>13. ASSUME NEW q \in db.rows, Rename(q) PROVE db'.bound = db.bound
  BY <1>1, <1>13, RowRenamed
<1>14. QED
  BY <1>3, <1>4, <1>5, <1>8, <1>9, <1>10, <1>11, <1>12, <1>13, DbMoves

\* The worker answers a restore with success only at the end of Copy.
LEMMA Answers ==
    ASSUME Next, op' # op
    PROVE  \/ Stop
           \/ OpStep
           \/ \E ok \in BOOLEAN : Finish(ok) /\ (ok => task.kind # "restore" \/ Copy)
<1>1. CASE LifeStep
  BY <1>1 DEF LifeStep, Start, Crash, LoginEnd, Wipe, Login, LoginNew, Memory
<1>2. CASE TaskStep
  <2>1. ASSUME UploadSnapshot \/ DeleteMessage \/ HealthEnds PROVE Finish(TRUE) /\ task.kind # "restore"
    BY <2>1 DEF UploadSnapshot, DeleteMessage, HealthEnds, Acting
  <2>2. ASSUME CallFails \/ FetchFails \/ CopyStops PROVE Finish(FALSE)
    BY <2>2 DEF CallFails, FetchFails, CopyStops
  <2>3. Copy => Finish(TRUE)
    BY DEF Copy
  <2>4. ~Health /\ ~DeleteSnapshot /\ ~Ensure /\ ~Fetch /\ ~Replace /\ \A v \in Vaults : ~EnsureMakes(v)
    BY DEF Health, DeleteSnapshot, StartTask, Ensure, EnsureMakes, Fetch, Replace
  <2>5. QED
    BY <1>2, <2>1, <2>2, <2>3, <2>4 DEF TaskStep
<1>3. QED
  BY <1>1, <1>2, Steps, SyncLeaves, UserLeaves

\* All that a step may do to a request.
LEMMA OpChanges ==
    ASSUME RecoveryAssumption, Typed, Next, NEW r \in Requests
    PROVE  \/ op'[r] = op[r]
           \/ op'[r].pc \in {"idle", "answer"}
           \/ op'[r].kind = "create" /\ op'[r].pc = "call"
           \/ BeginRestore(r) \/ Receive(r) \/ LockReceived(r) \/ Swap(r) \/ CopyReceived(r) \/ Submit(r)
           \/ op'[r].pc = "reopen" /\ op'[r].ok = FALSE
           \/ Copy /\ task.r = r /\ op[r].pc = "wait" /\ op'[r] = [op[r] EXCEPT !.pc = "reopen", !.ok = TRUE]
<1>1. /\ OpsTyped /\ TaskTyped /\ op \in [Requests -> OpSort] /\ op[r] \in OpSort /\ Stage(op[r], made)
      /\ NoOp \in OpSort /\ NoOp.pc = "idle"
  BY OpFacts, Idles DEF Typed, OpsTyped, NoOp
<1>2. CASE op'[r] = op[r]
  BY <1>2
<1>3. CASE Stop
  BY <1>1, <1>3 DEF Stop
<1>4. ASSUME NEW a, Goto(r, a) PROVE op'[r] = [op[r] EXCEPT !.pc = a] /\ op'[r].pc = a /\ op'[r].ok = op[r].ok
  <2>1. PICK x : x = [op[r] EXCEPT !.pc = a]
    OBVIOUS
  <2>2. x.pc = a /\ x.ok = op[r].ok /\ op'[r] = x
    BY <1>1, <1>4, <2>1 DEF Goto, OpSort
  <2>3. QED
    BY <2>1, <2>2
<1>5. ASSUME BeginCreate(r) PROVE op'[r].kind = "create" /\ op'[r].pc = "call"
  <2>1. PICK x : x = [NoOp EXCEPT !.kind = "create", !.pc = "call", !.want = db]
    OBVIOUS
  <2>2. x.kind = "create" /\ x.pc = "call" /\ op'[r] = x
    BY <1>1, <1>5, <2>1 DEF BeginCreate, SetOp, OpSort
  <2>3. QED
    BY <2>2
<1>6. ASSUME SwapFails(r) \/ CopyBreaks(r) PROVE op'[r].pc = "reopen" /\ op'[r].ok = FALSE
  <2>1. op[r].pc \in {"swap", "copy"} /\ Goto(r, "reopen")
    BY <1>6 DEF SwapFails, CopyBreaks
  <2>2. op[r].ok = FALSE
    BY <1>1, <2>1 DEF Stage, OpSort
  <2>3. QED
    BY <1>4, <2>1, <2>2
<1>7. ASSUME Reopen(r) \/ Answer(r) \/ ReopenFails(r) PROVE op'[r].pc \in {"idle", "answer"}
  <2>1. CASE Reopen(r)
    BY <1>4, <2>1 DEF Reopen
  <2>2. CASE Answer(r)
    BY <1>1, <2>2 DEF Answer, SetOp
  <2>3. CASE ReopenFails(r)
    <3>1. PICK x : x = [op[r] EXCEPT !.pc = "answer", !.ok = FALSE]
      OBVIOUS
    <3>2. x.pc = "answer" /\ op'[r] = x
      BY <1>1, <2>3, <3>1 DEF ReopenFails, SetOp, OpSort
    <3>3. QED
      BY <3>2
  <2>4. QED
    BY <1>7, <2>1, <2>2, <2>3
<1>8. ASSUME Abandon(r) PROVE op'[r].pc = "idle" \/ (op'[r].pc = "reopen" /\ op'[r].ok = FALSE)
  <2>1. op[r].pc \in {"call", "wait"} /\ (SetOp(r, NoOp) \/ Goto(r, "reopen"))
    BY <1>8 DEF Abandon
  <2>2. op[r].ok = FALSE
    BY <1>1, <2>1 DEF Stage, OpSort
  <2>3. CASE SetOp(r, NoOp)
    BY <1>1, <2>3 DEF SetOp
  <2>4. CASE Goto(r, "reopen")
    BY <1>4, <2>2, <2>4
  <2>5. QED
    BY <2>1, <2>3, <2>4
<1>9. ASSUME NEW q \in Requests, q # r,
              \/ BeginCreate(q) \/ BeginRestore(q) \/ Receive(q) \/ LockReceived(q)
              \/ Swap(q) \/ SwapFails(q) \/ CopyReceived(q) \/ CopyBreaks(q)
              \/ Reopen(q) \/ ReopenFails(q) \/ Answer(q) \/ Submit(q) \/ Abandon(q)
       PROVE  op'[r] = op[r]
  BY <1>1, <1>9 DEF BeginCreate, BeginRestore, Receive, LockReceived, Swap, SwapFails, CopyReceived, CopyBreaks,
                     Reopen, ReopenFails, Answer, Submit, Abandon, SetOp, Goto
<1>10. ASSUME NEW ok \in BOOLEAN, Finish(ok), ok => task.kind # "restore" \/ Copy
       PROVE  \/ op'[r] = op[r]
              \/ op'[r].pc = "answer"
              \/ op'[r].pc = "reopen" /\ op'[r].ok = FALSE
              \/ Copy /\ task.r = r /\ op[r].pc = "wait" /\ op'[r] = [op[r] EXCEPT !.pc = "reopen", !.ok = TRUE]
  <2>1. CASE task.r # r \/ op[r].pc # "wait"
    BY <1>1, <1>10, <2>1 DEF Finish
  <2>2. CASE task.r = r /\ op[r].pc = "wait"
    <3>1. task.kind = op[r].kind /\ op[r].kind \in {"create", "restore"} /\ r # None
      <4>1. op[r].kind # "none"
        BY <1>1, <2>2, AtWork
      <4>2. QED
        BY <1>1, <2>2, <4>1, OpFacts, Constants DEF Waits, Stage
    <3>2. PICK a : a = IF task.kind = "create" THEN "answer" ELSE "reopen"
      OBVIOUS
    <3>3. PICK x : x = [op[r] EXCEPT !.pc = a, !.ok = ok]
      OBVIOUS
    <3>4. op'[r] = x
      BY <1>1, <1>10, <2>2, <3>1, <3>2, <3>3 DEF Finish
    <3>5. x.pc = a /\ x.ok = ok
      BY <1>1, <3>3 DEF OpSort
    <3>6. CASE task.kind = "create"
      BY <3>2, <3>4, <3>5, <3>6
    <3>7. CASE task.kind # "create" /\ ok = FALSE
      BY <3>2, <3>4, <3>5, <3>7
    <3>8. CASE task.kind # "create" /\ ok = TRUE
      BY <1>10, <2>2, <3>1, <3>2, <3>3, <3>4, <3>8
    <3>9. QED
      BY <3>6, <3>7, <3>8
  <2>3. QED
    BY <2>1, <2>2
<1>11. CASE OpStep
  BY <1>5, <1>6, <1>7, <1>8, <1>9, <1>11 DEF OpStep
<1>12. QED
  BY <1>2, <1>3, <1>10, <1>11, Answers

\* The snapshot a request has selected stays where it is, or is deleted.
LEMMA ListingStep ==
    ASSUME RecoveryAssumption, Typed, Next, NEW r \in Requests, Listing(r)
    PROVE  Listing(r)'
<1>1. /\ VaultsTyped /\ VaultsTyped' /\ HostTyped /\ OpsTyped /\ \A w \in Vaults : Grown(vault[w], vault'[w])
      /\ op[r] \in OpSort /\ op \in [Requests -> OpSort]
  BY VaultStep, OpFacts DEF Typed
<1>2. ASSUME op'[r].kind = "restore", op'[r].pc \in {"call", "wait"}, op[r].pc \in {"call", "wait"},
             op'[r].kind = op[r].kind, op'[r].i = op[r].i, op'[r].want = op[r].want
      PROVE  Listing(r)'
  <2>1. db'.bound = db.bound /\ db.bound \in Vaults
    BY <1>1, <1>2, BindingStays, Up DEF NoOp
  <2>2. PICK v \in Vaults : v = db.bound
    BY <2>1
  <2>3. op[r].i \in DOMAIN vault[v] /\ (vault[v][op[r].i].kind = "snap" => vault[v][op[r].i].db = op[r].want)
    BY <1>2, <2>2 DEF Listing
  <2>4. vault[v] \in Seq(Message) /\ vault'[v] \in Seq(Message) /\ Grown(vault[v], vault'[v])
    BY <1>1 DEF VaultsTyped
  <2>5. op[r].i \in 1..Len(vault[v]) /\ op[r].i \in DOMAIN vault'[v]
    <3>1. /\ DOMAIN vault[v] = 1..Len(vault[v]) /\ DOMAIN vault'[v] = 1..Len(vault'[v])
          /\ Len(vault[v]) \in Nat /\ Len(vault'[v]) \in Nat /\ Len(vault[v]) <= Len(vault'[v])
      BY <2>4, LenProperties DEF Grown
    <3>2. QED
      BY <2>3, <3>1
  <2>6. vault'[v][op[r].i] = vault[v][op[r].i] \/ vault'[v][op[r].i].kind = "gone"
    BY <2>4, <2>5 DEF Grown
  <2>7. QED
    BY <1>2, <2>1, <2>2, <2>3, <2>5, <2>6 DEF Listing
<1>3. CASE op'[r] = op[r]
  BY <1>2, <1>3 DEF Listing
<1>4. CASE Submit(r)
  <2>1. op[r].pc = "call" /\ Goto(r, "wait")
    BY <1>4 DEF Submit
  <2>2. PICK x : x = [op[r] EXCEPT !.pc = "wait"]
    OBVIOUS
  <2>3. x.pc = "wait" /\ x.kind = op[r].kind /\ x.i = op[r].i /\ x.want = op[r].want /\ op'[r] = x
    BY <1>1, <2>1, <2>2 DEF Goto, OpSort
  <2>4. QED
    BY <1>2, <2>1, <2>3 DEF Listing
<1>5. CASE BeginRestore(r)
  <2>1. PICK i \in Listed(vault[db.bound]) :
           op' = [op EXCEPT ![r] = [NoOp EXCEPT !.kind = "restore", !.pc = "call", !.i = i,
                                                !.want = vault[db.bound][i].db]]
    BY <1>5 DEF BeginRestore, SetOp
  <2>2. PICK d : d = vault[db.bound][i].db
    OBVIOUS
  <2>3. PICK x : x = [NoOp EXCEPT !.kind = "restore", !.pc = "call", !.i = i, !.want = d]
    OBVIOUS
  <2>4. x.i = i /\ x.want = d
    BY <2>3, Idles DEF OpSort
  <2>5. op'[r] = x
    BY <1>1, <2>1, <2>2, <2>3
  <2>6. i \in DOMAIN vault[db.bound]
    BY <2>1 DEF Listed
  <2>7. UNCHANGED <<vault, db>>
    BY <1>5 DEF BeginRestore
  <2>8. QED
    BY <2>2, <2>4, <2>5, <2>6, <2>7 DEF Listing
<1>6. ASSUME Receive(r) \/ LockReceived(r) \/ Swap(r) \/ CopyReceived(r) PROVE Listing(r)'
  <2>1. CASE Receive(r)
    <3>1. PICK d : op'[r] = [NoOp EXCEPT !.kind = "local", !.pc = "lock", !.want = d]
      BY <1>1, <2>1 DEF Receive, SetOp
    <3>2. op'[r].pc = "lock"
      BY <3>1, Idles DEF OpSort
    <3>3. QED
      BY <3>2 DEF Listing
  <2>2. CASE LockReceived(r)
    BY <1>1, <2>2 DEF LockReceived, Goto, OpSort, Listing
  <2>3. CASE Swap(r)
    BY <1>1, <2>3 DEF Swap, SetOp, OpSort, Listing
  <2>4. CASE CopyReceived(r)
    BY <1>1, <2>4 DEF CopyReceived, SetOp, OpSort, Listing
  <2>5. QED
    BY <1>6, <2>1, <2>2, <2>3, <2>4
<1>7. CASE Copy /\ op'[r] = [op[r] EXCEPT !.pc = "reopen", !.ok = TRUE]
  BY <1>1, <1>7 DEF OpSort, Listing
<1>8. CASE op'[r].pc \in {"idle", "answer", "reopen"} \/ op'[r].kind = "create"
  BY <1>8 DEF Listing
<1>9. QED
  BY <1>3, <1>4, <1>5, <1>6, <1>7, <1>8, OpChanges

\* A restore from the list begins with a call.
LEMMA RestoreBegins ==
    ASSUME RecoveryAssumption, OpsTyped, NEW r \in Requests, BeginRestore(r)
    PROVE  op'[r].pc = "call"
<1>1. PICK i \in Listed(vault[db.bound]) :
         op' = [op EXCEPT ![r] = [NoOp EXCEPT !.kind = "restore", !.pc = "call", !.i = i,
                                              !.want = vault[db.bound][i].db]]
  BY DEF BeginRestore, SetOp
<1>2. PICK d : d = vault[db.bound][i].db
  OBVIOUS
<1>3. PICK x : x = [NoOp EXCEPT !.kind = "restore", !.pc = "call", !.i = i, !.want = d]
  OBVIOUS
<1>4. x.pc = "call"
  BY <1>3, Idles DEF OpSort
<1>5. op'[r] = x
  BY <1>1, <1>2, <1>3 DEF OpsTyped
<1>6. QED
  BY <1>4, <1>5

\* The history of a request that goes on is not forgotten.
LEMMA OthersStay ==
    ASSUME RecoveryAssumption, Typed, Next, NEW r \in Requests, op'[r].pc # "idle"
    PROVE  others[r] \subseteq others'[r]
<1>1. DOMAIN others = Requests /\ op \in [Requests -> OpSort]
  BY DEF Typed, HostTyped, OpsTyped
<1>2. ~Stop
  BY DEF Stop, NoOp
<1>3. ~Answer(r)
  BY <1>1 DEF Answer, SetOp, NoOp
<1>4. QED
  BY <1>1, <1>2, <1>3, OthersMoves

\* What the steps that do not leave a request alone make of it.
LEMMA Goes ==
    ASSUME RecoveryAssumption, Typed, NEW r \in Requests
    PROVE  /\ BeginRestore(r) => op'[r].pc = "call"
           /\ Receive(r) => op'[r].pc = "lock" /\ op'[r].want = temp'
           /\ LockReceived(r) => op'[r].pc = "swap" /\ op'[r].want = op[r].want
           /\ Swap(r) => op'[r].pc = "copy" /\ op'[r].want = op[r].want /\ op'[r].from = temp
           /\ CopyReceived(r) => op'[r].pc = "reopen" /\ op'[r].want = op[r].want
                                   /\ op'[r].kind = op[r].kind
           /\ Submit(r) => op'[r].pc = "wait"
           /\ Reopen(r) => op'[r].pc = "answer"
<1>1. OpsTyped /\ op \in [Requests -> OpSort] /\ op[r] \in OpSort /\ NoOp \in OpSort
  BY OpFacts, Idles DEF Typed, OpsTyped
<1>2. BeginRestore(r) => op'[r].pc = "call"
  BY <1>1, RestoreBegins
<1>3. ASSUME Receive(r) PROVE op'[r].pc = "lock" /\ op'[r].want = temp'
  <2>1. PICK d : temp' = d /\ op' = [op EXCEPT ![r] = [NoOp EXCEPT !.kind = "local", !.pc = "lock", !.want = d]]
    BY <1>3 DEF Receive, SetOp
  <2>2. PICK x : x = [NoOp EXCEPT !.kind = "local", !.pc = "lock", !.want = d]
    OBVIOUS
  <2>3. x.pc = "lock" /\ x.want = d /\ op'[r] = x
    BY <1>1, <2>1, <2>2 DEF OpSort
  <2>4. QED
    BY <2>1, <2>3
<1>4. LockReceived(r) => op'[r].pc = "swap" /\ op'[r].want = op[r].want
  BY <1>1 DEF LockReceived, Goto, OpSort
<1>5. ASSUME Swap(r) PROVE op'[r].pc = "copy" /\ op'[r].want = op[r].want /\ op'[r].from = temp
  <2>1. PICK x : x = [op[r] EXCEPT !.pc = "copy", !.from = temp]
    OBVIOUS
  <2>2. op'[r] = x /\ x.pc = "copy" /\ x.from = temp /\ x.want = op[r].want
    BY <1>1, <1>5, <2>1 DEF Swap, SetOp, OpSort
  <2>3. QED
    BY <2>2
<1>6. ASSUME CopyReceived(r)
      PROVE  op'[r].pc = "reopen" /\ op'[r].want = op[r].want /\ op'[r].kind = op[r].kind
  <2>1. PICK x : x = [op[r] EXCEPT !.pc = "reopen", !.ok = TRUE]
    OBVIOUS
  <2>2. op'[r] = x /\ x.pc = "reopen" /\ x.want = op[r].want /\ x.kind = op[r].kind
    BY <1>1, <1>6, <2>1 DEF CopyReceived, SetOp, OpSort
  <2>3. QED
    BY <2>2
<1>7. Submit(r) => op'[r].pc = "wait"
  BY <1>1 DEF Submit, Goto, OpSort
<1>8. Reopen(r) => op'[r].pc = "answer"
  BY <1>1 DEF Reopen, Goto, OpSort
<1>9. QED
  BY <1>2, <1>3, <1>4, <1>5, <1>6, <1>7, <1>8

\* What the worker has fetched for a request is what it selected, or comes from another vault.
LEMMA FetchedStep ==
    ASSUME RecoveryAssumption, Typed, Next, NEW r \in Requests, Listing(r), Fetched(r)
    PROVE  Fetched(r)'
<1>1. /\ VaultsTyped /\ HostTyped /\ OpsTyped /\ TaskTyped /\ op \in [Requests -> OpSort] /\ op[r] \in OpSort
      /\ task \in TaskSort
  BY OpFacts DEF Typed, OpsTyped, TaskTyped
<1>2. SUFFICES ASSUME op'[r].kind = "restore", op'[r].pc = "wait", task'.pc \in {"replace", "copy"}
               PROVE  task'.db \in Choices(r)' /\ (task'.pc = "copy" => writer' = None)
  BY DEF Fetched
<1>3. op'[r] = op[r]
  <2>1. /\ ~Receive(r) /\ ~BeginRestore(r) /\ ~LockReceived(r) /\ ~Swap(r) /\ ~CopyReceived(r)
    BY <1>2, Goes
  <2>2. ~Submit(r)
    BY <1>2 DEF Submit
  <2>3. op'[r] # [op[r] EXCEPT !.pc = "reopen", !.ok = TRUE]
    BY <1>1, <1>2 DEF OpSort
  <2>4. QED
    BY <1>2, <2>1, <2>2, <2>3, OpChanges
<1>4. op[r].pc = "wait" /\ op[r].kind = "restore" /\ others[r] \subseteq others'[r]
  BY <1>2, <1>3, OthersStay
<1>5. task.r = r /\ task.kind = "restore" /\ task.i = op[r].i /\ task # NoTask
  BY <1>1, <1>4 DEF OpsTyped, Waits, NoTask
<1>6. task.db \in Choices(r) => task.db \in Choices(r)'
  BY <1>3, <1>4 DEF Choices
<1>7. CASE task' = task
  <2>1. ASSUME NEW q \in Requests, Swap(q) PROVE FALSE
    BY <1>1, <1>4, <2>1 DEF OpsTyped, Swap, Locked
  <2>2. ~Stop /\ ~Replace
    <3>1. Replace => task.pc = "replace" /\ task' = [task EXCEPT !.pc = "copy"]
      BY DEF Replace
    <3>2. Stop => op'[r] = NoOp /\ NoOp.pc = "idle"
      BY DEF Stop, NoOp
    <3>3. QED
      BY <1>1, <1>2, <1>7, <3>1, <3>2 DEF TaskSort
  <2>3. writer' = writer
    BY <2>1, <2>2, WriterMoves
  <2>4. QED
    BY <1>2, <1>4, <1>6, <1>7, <2>3 DEF Fetched
<1>8. CASE Replace
  <2>1. PICK t : t = [task EXCEPT !.pc = "copy"]
    OBVIOUS
  <2>2. t.db = task.db /\ task' = t /\ task.pc = "replace"
    BY <1>1, <1>8, <2>1 DEF Replace, TaskSort
  <2>3. writer' = None
    BY <1>8 DEF Replace
  <2>4. QED
    BY <1>4, <1>6, <2>2, <2>3 DEF Fetched
<1>9. CASE Fetch
  <2>1. PICK d : d = vault[cached][task.i].db
    OBVIOUS
  <2>2. PICK t : t = [task EXCEPT !.pc = "replace", !.db = d]
    OBVIOUS
  <2>3. t.db = d /\ t.pc = "replace" /\ task' = t
    BY <1>1, <1>9, <2>1, <2>2 DEF Fetch, TaskSort
  <2>4. task.i \in Numbers(cached, {"snap"})
    BY <1>9 DEF Fetch
  <2>5. CASE cached = db.bound
    <3>1. d = op[r].want
      BY <1>4, <1>5, <2>1, <2>4, <2>5 DEF Listing, Numbers
    <3>2. QED
      BY <1>3, <2>3, <3>1 DEF Choices
  <2>6. CASE cached # db.bound
    <3>1. InPlace({q \in {task.r} : op[q].pc = "wait" /\ cached # db.bound}, task'.db)
      BY <1>9 DEF Fetch
    <3>2. task'.db \in others'[r]
      BY <1>4, <1>5, <2>6, <3>1 DEF InPlace
    <3>3. QED
      BY <2>3, <3>2 DEF Choices
  <2>7. QED
    BY <2>5, <2>6
<1>10. ASSUME task.pc = "ensure", task' = [task EXCEPT !.pc = "act"] PROVE FALSE
  BY <1>1, <1>2, <1>10 DEF TaskSort
<1>11. ASSUME \/ Stop \/ SyncFails("manual") \/ SyncEnds("manual") \/ \E ok \in BOOLEAN : Finish(ok)
       PROVE  FALSE
  <2>1. task' = NoTask
    BY <1>11 DEF Stop, SyncFails, SyncEnds, Release, Finish
  <2>2. QED
    BY <1>2, <2>1 DEF NoTask
<1>12. ~SyncByHand /\ ~Health /\ ~DeleteSnapshot /\ \A q \in Requests : ~Submit(q)
  BY <1>5 DEF SyncByHand, Health, DeleteSnapshot, StartTask, Submit
<1>13. QED
  BY <1>7, <1>8, <1>9, <1>10, <1>11, <1>12, TaskMoves

\* The temporary file holds what the request received or another has received since, or is gone.
LEMMA ReceivedStep ==
    ASSUME RecoveryAssumption, Typed, Next, NEW r \in Requests, Received(r)
    PROVE  Received(r)'
<1>1. OpsTyped /\ op \in [Requests -> OpSort] /\ op[r] \in OpSort
  BY OpFacts DEF Typed, OpsTyped
<1>2. SUFFICES ASSUME op'[r].pc \in {"lock", "swap"}
               PROVE  temp' = None \/ temp' \in Choices(r)'
  BY DEF Received
<1>3. CASE Receive(r)
  BY <1>3, Goes DEF Choices
<1>4. ASSUME op[r].pc \in {"lock", "swap"}, op[r].want = op'[r].want, ~Receive(r)
      PROVE  temp' = None \/ temp' \in Choices(r)'
  <2>1. ASSUME NEW q \in Requests, Receive(q) PROVE temp' \in others'[r]
    <3>1. InPlace({p \in Requests : op[p].pc \in {"lock", "swap"}}, temp')
      BY <2>1 DEF Receive
    <3>2. QED
      BY <1>4, <3>1 DEF InPlace
  <2>2. others[r] \subseteq others'[r]
    BY <1>2, OthersStay
  <2>3. temp = None \/ temp \in Choices(r)
    BY <1>4 DEF Received
  <2>4. QED
    BY <1>4, <2>1, <2>2, <2>3, TempMoves DEF Choices
<1>5. CASE op'[r] = op[r] /\ ~Receive(r)
  BY <1>2, <1>4, <1>5
<1>6. CASE LockReceived(r) /\ ~Receive(r)
  BY <1>4, <1>6, Goes DEF LockReceived
<1>7. ~BeginRestore(r) /\ ~Swap(r) /\ ~CopyReceived(r) /\ ~Submit(r)
  BY <1>2, Goes
<1>8. op'[r] # [op[r] EXCEPT !.pc = "reopen", !.ok = TRUE]
  BY <1>1, <1>2 DEF OpSort
<1>9. QED
  BY <1>2, <1>3, <1>5, <1>6, <1>7, <1>8, OpChanges

\* The file at DBPath stays in the hands of the request whose restore is under way or has
\* succeeded, or the task of a departed client takes it, as the history then shows.
LEMMA Undisturbed ==
    ASSUME RecoveryAssumption, Typed, Next, NEW r \in Requests, op'[r] = op[r],
           op[r].pc = "copy" \/ (Restores(r) /\ Alone(r))
    PROVE  path' \in others'[r] \/ (path' = path /\ writer' = writer)
<1>1. /\ OpsTyped /\ HostTyped /\ TaskTyped /\ op[r] \in OpSort /\ Stage(op[r], made)
      /\ \A p, q \in Requests : Locked(p) /\ Locked(q) => p = q
  BY OpFacts DEF Typed, OpsTyped
<1>2. op[r].pc \in {"copy", "reopen"} /\ Locked(r) /\ op[r].kind # "none"
  BY <1>1, AtWork DEF Restores, Locked
<1>3. ~Stop
  BY <1>2 DEF Stop, NoOp
<1>4. ~Wipe
  <2>1. host # "off"
    BY <1>1, <1>2, Up DEF NoOp
  <2>2. QED
    BY <2>1 DEF Wipe
<1>5. ASSUME NEW q \in Requests, Swap(q) \/ CopyReceived(q) \/ Reopen(q) PROVE FALSE
  <2>1. q = r
    BY <1>1, <1>2, <1>5 DEF Swap, CopyReceived, Reopen, Locked
  <2>2. op[r].pc = "swap" \/ op'[r].pc # op[r].pc
    BY <1>5, <2>1, Goes DEF Swap, CopyReceived, Reopen
  <2>3. QED
    BY <1>2, <2>2
<1>6. ASSUME Replace \/ (Copy /\ writer = None) PROVE path' \in others'[r]
  <2>1. task.kind = "restore"
    BY <1>1, <1>6 DEF Replace, Copy, TaskTyped
  <2>2. op[r].pc = "copy" \/ op[r].kind = "local"
    BY <1>1, <1>2, <2>1 DEF Alone, Stage, OpSort
  <2>3. r \in Overrun
    BY <1>2, <2>2 DEF Overrun
  <2>4. InPlace(Overrun, path')
    BY <1>6 DEF Replace, Copy
  <2>5. QED
    BY <2>3, <2>4 DEF InPlace
<1>7. ASSUME Copy, writer # None PROVE path' = path /\ writer' = writer
  BY <1>7 DEF Copy
<1>8. QED
  BY <1>3, <1>4, <1>5, <1>6, <1>7, PathMoves, WriterMoves

\* What is copied over the old file is what was received, and goes to DBPath unless a task has
\* removed the file meanwhile.
LEMMA SwappingStep ==
    ASSUME RecoveryAssumption, Typed, Next, NEW r \in Requests, Received(r), Swapping(r)
    PROVE  Swapping(r)'
<1>1. op[r] \in OpSort
  BY OpFacts DEF Typed
<1>2. SUFFICES ASSUME op'[r].pc = "copy"
               PROVE  op'[r].from \in Choices(r)' /\ (writer' = r \/ path' \in others'[r])
  BY DEF Swapping
<1>3. others[r] \subseteq others'[r]
  BY <1>2, OthersStay
<1>4. CASE op'[r] = op[r]
  BY <1>2, <1>3, <1>4, Undisturbed DEF Swapping, Choices
<1>5. CASE Swap(r)
  <2>1. op'[r].from = temp /\ op'[r].want = op[r].want /\ op[r].pc = "swap" /\ temp # None
    BY <1>5, Goes DEF Swap
  <2>2. writer' = r
    BY <1>5 DEF Swap
  <2>3. QED
    BY <1>3, <2>1, <2>2 DEF Received, Choices
<1>6. ~BeginRestore(r) /\ ~Receive(r) /\ ~LockReceived(r) /\ ~CopyReceived(r) /\ ~Submit(r)
  BY <1>2, Goes
<1>7. op'[r] # [op[r] EXCEPT !.pc = "reopen", !.ok = TRUE]
  BY <1>1, <1>2 DEF OpSort
<1>8. QED
  BY <1>2, <1>4, <1>5, <1>6, <1>7, OpChanges

\* A restore that has succeeded was so before the step, or succeeds by it.
LEMMA Succeeds ==
    ASSUME RecoveryAssumption, Typed, Next, NEW r \in Requests, Restores(r)'
    PROVE  \/ op'[r] = op[r] /\ Restores(r)
           \/ CopyReceived(r)
           \/ Copy /\ task.r = r /\ op[r].pc = "wait" /\ op'[r] = [op[r] EXCEPT !.pc = "reopen", !.ok = TRUE]
<1>1. op'[r].pc = "reopen" /\ op'[r].ok
  BY DEF Restores
<1>2. ~BeginRestore(r) /\ ~Receive(r) /\ ~LockReceived(r) /\ ~Swap(r) /\ ~Submit(r)
  BY <1>1, Goes
<1>3. op'[r] = op[r] => Restores(r)
  BY <1>1 DEF Restores
<1>4. QED
  BY <1>1, <1>2, <1>3, OpChanges

\* The worker has nothing to restore after a restore of the list has succeeded: the next one
\* waits for the lock.
LEMMA AloneStep ==
    ASSUME RecoveryAssumption, Typed, Next, NEW r \in Requests, Alone(r)
    PROVE  Alone(r)'
<1>1. /\ OpsTyped /\ TaskTyped /\ op[r] \in OpSort /\ Stage(op[r], made) /\ task \in TaskSort
      /\ \A p, q \in Requests : Locked(p) /\ Locked(q) => p = q
  BY OpFacts DEF Typed, OpsTyped, TaskTyped
<1>2. SUFFICES ASSUME op'[r].kind = "restore", Restores(r)' PROVE task'.kind # "restore"
  BY DEF Alone
<1>3. NoTask.kind # "restore"
  BY DEF NoTask
<1>4. CASE Copy
  BY <1>3, <1>4 DEF Copy, Finish
<1>5. ~CopyReceived(r)
  <2>1. ASSUME CopyReceived(r) PROVE FALSE
    <3>1. op[r].pc = "copy" /\ op'[r].kind = op[r].kind
      BY <2>1, Goes DEF CopyReceived
    <3>2. QED
      BY <1>1, <1>2, <3>1 DEF Stage
  <2>2. QED
    BY <2>1
<1>6. CASE op'[r] = op[r] /\ Restores(r)
  <2>1. task.kind # "restore" /\ Locked(r) /\ op[r].pc = "reopen"
    BY <1>2, <1>6 DEF Alone, Restores, Locked
  <2>2. \A q \in Requests : ~Submit(q)
    <3>1. ASSUME NEW q \in Requests, Submit(q) PROVE FALSE
      <4>1. op[q].pc = "call" /\ q = r
        BY <1>1, <2>1, <3>1 DEF Submit, Locked
      <4>2. QED
        BY <2>1, <4>1
    <3>2. QED
      BY <3>1
  <2>3. ASSUME SyncByHand \/ Health \/ DeleteSnapshot PROVE task'.kind # "restore"
    BY <2>3 DEF SyncByHand, Health, DeleteSnapshot, StartTask, NoTask
  <2>4. ASSUME \/ Stop \/ SyncFails("manual") \/ SyncEnds("manual") \/ \E ok \in BOOLEAN : Finish(ok)
        PROVE  task' = NoTask
    BY <2>4 DEF Stop, SyncFails, SyncEnds, Release, Finish
  <2>5. ASSUME task' = [task EXCEPT !.pc = "act"] PROVE task'.kind = task.kind
    <3>1. PICK t : t = [task EXCEPT !.pc = "act"]
      OBVIOUS
    <3>2. t.kind = task.kind
      BY <1>1, <3>1 DEF TaskSort
    <3>3. QED
      BY <2>5, <3>1, <3>2
  <2>6. ~Fetch /\ ~Replace
    BY <1>1, <2>1 DEF Fetch, Acting, Replace, TaskTyped
  <2>7. QED
    BY <1>3, <2>1, <2>2, <2>3, <2>4, <2>5, <2>6, TaskMoves
<1>7. QED
  BY <1>2, <1>4, <1>5, <1>6, Succeeds

\* The file at DBPath is what was selected, or what others have put in its place, once a restore
\* has succeeded.
LEMMA SwappedStep ==
    ASSUME RecoveryAssumption, Typed, Next, NEW r \in Requests, Fetched(r), Swapping(r), Alone(r), Swapped(r)
    PROVE  Swapped(r)'
<1>1. /\ OpsTyped /\ HostTyped /\ TaskTyped /\ op[r] \in OpSort /\ Stage(op[r], made)
      /\ \A p, q \in Requests : Locked(p) /\ Locked(q) => p = q
  BY OpFacts DEF Typed, OpsTyped
<1>2. SUFFICES ASSUME Restores(r)'
               PROVE  path' \in Choices(r)'
  BY DEF Swapped
<1>3. op'[r].pc = "reopen" /\ others[r] \subseteq others'[r]
  BY <1>2, OthersStay DEF Restores
<1>4. CASE op'[r] = op[r] /\ Restores(r)
  <2>1. path \in Choices(r)
    BY <1>4 DEF Swapped
  <2>2. path' \in others'[r] \/ path' = path
    BY <1>4, Undisturbed
  <2>3. QED
    BY <1>3, <1>4, <2>1, <2>2 DEF Choices
<1>5. CASE CopyReceived(r)
  <2>1. op[r].pc = "copy" /\ op'[r].want = op[r].want
    BY <1>5, Goes DEF CopyReceived
  <2>2. path' = IF writer = r THEN op[r].from ELSE path
    BY <1>5 DEF CopyReceived
  <2>3. QED
    BY <1>3, <2>1, <2>2 DEF Swapping, Choices
<1>6. CASE Copy /\ task.r = r /\ op[r].pc = "wait" /\ op'[r] = [op[r] EXCEPT !.pc = "reopen", !.ok = TRUE]
  <2>1. PICK x : x = [op[r] EXCEPT !.pc = "reopen", !.ok = TRUE]
    OBVIOUS
  <2>2. op'[r] = x /\ x.want = op[r].want
    BY <1>1, <1>6, <2>1 DEF OpSort
  <2>3. task.pc = "copy" /\ task.kind = "restore" /\ (writer = None => path' = task.db)
    BY <1>1, <1>6 DEF Copy, TaskTyped
  <2>4. op[r].kind = "restore"
    BY <1>1, <1>6, <2>3 DEF OpsTyped, Waits
  <2>5. QED
    BY <1>3, <1>6, <2>2, <2>3, <2>4 DEF Fetched, Choices
<1>7. QED
  BY <1>2, <1>4, <1>5, <1>6, Succeeds

\* Every step keeps what the requests have in hand.
LEMMA SelectedStep ==
    ASSUME RecoveryAssumption, Typed, Selected, [Next]_vars
    PROVE  Selected'
<1>1. CASE Next
  BY <1>1, ListingStep, FetchedStep, ReceivedStep, SwappingStep, AloneStep, SwappedStep DEF Selected
<1>2. CASE UNCHANGED vars
  BY <1>2 DEF vars, Selected, Listing, Fetched, Received, Swapping, Alone, Swapped, Restores, Choices
<1>3. QED
  BY <1>1, <1>2

\* A restore that succeeds has put in place the database of the snapshot that was selected, or
\* one that others have put in its place (RestoresSelected), for any number of requests: a restore
\* of the list is undone by nobody, and differs only by what the worker fetched from another
\* vault; an uploaded snapshot differs by what was uploaded over the temporary file before the
\* swap, or by what the task of a departed client has made of the file at DBPath since.
THEOREM RestoresSound == ASSUME RecoveryAssumption PROVE Spec => []RestoresSelected
<1>1. Init => Selected
  BY DEF Init, Selected, Listing, Fetched, Received, Swapping, Alone, Swapped, Restores, NoOp
<1>2. Typed /\ Selected /\ [Next]_vars => Selected'
  BY SelectedStep
<1>3. Selected => RestoresSelected
  BY DEF Selected, Swapped, RestoresSelected, Choices
<1>4. QED
  BY <1>1, <1>2, <1>3, TypedAlways, PTL DEF Spec
=============================================================================
