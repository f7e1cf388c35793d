----------------------------- MODULE Upload_proofs -----------------------------
(***************************************************************************)
(* Proofs about Upload, for any number of uploads, requests, files, parts, *)
(* parts per chunk and faults: the types, that a file at rest has its      *)
(* bytes, that a right hash vouches for them, and that sending a chunk     *)
(* again is harmless for an upload to Telegram.                            *)
(*                                                                         *)
(* The inductive invariant UploadInv has six parts: types and what a       *)
(* request holds at each statement (Typed), the browser and the requests   *)
(* of its upload (Browsing), the parts Telegram holds (Telegram), rows and *)
(* the requests that make them (Named), the staging files and the ledger   *)
(* of disk uploads (Staging), and objects (Objects).                       *)
(***************************************************************************)
EXTENDS Upload, SequenceTheorems, TLAPS

-----------------------------------------------------------------------------
(* Bytes.  Chunk k of a file is its parts from End(k) up to End(k + 1).    *)

End(j) == IF j * ChunkParts < Size THEN j * ChunkParts ELSE Size

\* The first n parts of a file.
Prefix(n) == SubSeq(WholeSeq, 1, n)

Bytes(s) == IF staged[s] = None THEN <<>> ELSE staged[s]

\* The staging file of s is the first j chunks of the file.
At(s, j) == j \in 0..Chunks /\ Bytes(s) = Prefix(End(j))

Placed(s) == \E j \in 0..Chunks : At(s, j)

-----------------------------------------------------------------------------
(* Types, and what a request holds at its statements.                      *)

Pcs == {"idle", "refused", "hash", "save", "stat", "append", "commit", "check", "find", "drop",
        "delete", "create", "rename", "undo", "point", "close", "ok", "failed"}

Call == [op : {"none", "chunk", "complete", "purge"}, pc : Pcs, s : Sessions \cup {None},
         k : 0..Chunks, todo : Seq(PartSet), sha : {"none", "right", "wrong"},
         parts : SUBSET PartSet, f : Files \cup {None}, old : Files \cup {None},
         obj : Files \cup {None}]

Entry == [st : {"none", "row", "gone"}, s : Sessions \cup {None},
          path : {"none", "staging", "object"}, sha : {"none", "right", "wrong"},
          parts : SUBSET PartSet]

ChunkCall(h) ==
    /\ req[h].pc \in {"refused", "hash", "save", "stat", "append", "ok", "failed"}
    /\ req[h].s \in Sessions /\ req[h].k < Chunks
    /\ req[h].pc = "save" => req[h].s \notin Disk
    /\ req[h].pc \in {"stat", "append"} => req[h].s \in Disk /\ req[h].todo = PartsOf(req[h].k)

EndCall(h) ==
    /\ req[h].pc \in Pcs \ {"idle", "save", "stat", "append"}
    /\ req[h].s \in Sessions
    /\ req[h].pc = "commit" => req[h].s \notin Disk
    /\ req[h].pc \in {"check", "drop", "rename", "undo", "point"} => req[h].s \in Disk

Called(h) ==
    /\ req[h].op = "none" => req[h] = NoReq
    /\ req[h].op = "chunk" => ChunkCall(h)
    /\ req[h].op = "complete" => EndCall(h)
    /\ req[h].op = "purge" => req[h].pc \in {"drop", "delete"} /\ req[h].s = None
    /\ Len(req[h].todo) <= ChunkParts
    /\ req[h].pc \in {"rename", "undo", "point"} => req[h].f \in Files
    /\ req[h].pc \in {"drop", "delete"} => req[h].old \in Files /\ req[h].obj \in {None, req[h].old}

Typed ==
    /\ session \in [Sessions -> {"none", "open", "deleted"}]
    /\ client \in [Sessions -> Item]
    /\ req \in [Handlers -> Call]
    /\ ledger \in [Sessions -> 1..Wrong \cup {None}]
    /\ staged \in [Sessions -> Seq(PartSet) \cup {None}]
    /\ saved \in [Sessions -> SUBSET PartSet]
    /\ file \in [Files -> Entry]
    /\ object \in [Files -> Seq(PartSet) \cup {None}]
    /\ faults \in 0..MaxFaults
    /\ overlapped \subseteq Disk /\ unfollowed \subseteq Disk /\ ended \subseteq Disk /\ cut \subseteq Files
    /\ \A h \in Handlers : Called(h)

-----------------------------------------------------------------------------
(* A browser and the requests of its upload.                               *)

Unopened(s) ==
    session[s] = "none" => /\ client[s].pc = "new" /\ ledger[s] = None /\ staged[s] = None
                           /\ \A h \in Handlers : req[h].s # s

Waits(s) ==
    IF client[s].pc = "wait"
    THEN LET h == client[s].h IN
         /\ h \in Handlers /\ req[h].s = s /\ req[h].k = client[s].next
         /\ req[h].op = IF client[s].next < Chunks THEN "chunk" ELSE "complete"
    ELSE client[s].h = None

Follows(h) ==
    /\ req[h].op = "chunk" => req[h].k <= client[req[h].s].next
    /\ req[h].op = "complete" => client[req[h].s].next = Chunks

\* A session is closed after its chunks.
Opened(s) ==
    /\ client[s].pc = "new" => client[s].next = 0 /\ client[s].tries = 0 /\ session[s] = "none"
    /\ client[s].pc # "new" /\ client[s].next < Chunks => session[s] = "open"

Browsing ==
    /\ \A s \in Sessions : Unopened(s) /\ Waits(s) /\ Opened(s)
    /\ \A h \in Handlers : Follows(h)

-----------------------------------------------------------------------------
(* Uploads to Telegram.                                                    *)

\* The failures the upload manager has counted or is about to count.
Failures(s) == client[s].tries + IF client[s].pc = "wait" /\ req[client[s].h].pc = "failed" THEN 1 ELSE 0

Resends(s) ==
    client[s].next < Chunks =>
      /\ Failures(s) <= faults
      /\ client[s].pc = "failed" => faults >= 3
      /\ client[s].pc = "wait" => req[client[s].h].pc # "refused"

Between(i, j) == {p \in PartSet : End(i) <= p /\ p < End(j)}

Sending(h) ==
    LET s == req[h].s IN
    /\ req[h].op = "chunk" /\ req[h].pc = "save" =>
         \A p \in Between(req[h].k, req[h].k + 1) :
            p \in saved[s] \/ \E i \in 1..Len(req[h].todo) : req[h].todo[i] = p
    /\ req[h].op = "chunk" /\ req[h].pc = "ok" => Between(req[h].k, req[h].k + 1) \subseteq saved[s]
    /\ req[h].op = "complete" /\ req[h].pc \in {"find", "drop", "delete", "create"} => req[h].parts = PartSet

Telegram ==
    /\ \A s \in Sessions \ Disk : Resends(s) /\ Between(0, client[s].next) \subseteq saved[s]
    /\ \A h \in Handlers : req[h].s \in Sessions \ Disk => Sending(h)
    /\ \A f \in Rows : file[f].s \in Sessions \ Disk => file[f].parts = PartSet

-----------------------------------------------------------------------------
(* Rows and the requests that make or delete them.                         *)

Making(h) == req[h].pc \in {"rename", "undo", "point"}
Made(h) ==
    LET f == req[h].f IN
    Making(h) => /\ file[f].st # "none"
                 /\ f \in Rows => file[f].s = req[h].s /\ file[f].sha = req[h].sha

Named ==
    /\ \A h \in Handlers : Made(h)
    /\ \A g, h \in Handlers : Making(g) /\ Making(h) /\ req[g].f = req[h].f => g = h
    /\ \A f \in Files : file[f].st = "row" => file[f].s \in Sessions
    /\ \A f \in Files : file[f].path = "object" => file[f].s \in Disk

-----------------------------------------------------------------------------
(* Uploads to the disk.                                                    *)

Chunking(h, s) == req[h].op = "chunk" /\ req[h].s = s
Ending(h, s) == req[h].op = "complete" /\ req[h].s = s
Writing(h, s) == Chunking(h, s) /\ req[h].pc \in {"stat", "append"}
Appending(h, s) == Chunking(h, s) /\ req[h].pc = "append"

\* The hash is taken, the staging file is not yet the object.
Taken(h, s) == Ending(h, s) /\ req[h].pc \in {"check", "find", "drop", "delete", "create", "rename"}
Checked(h, s) == Taken(h, s) /\ req[h].pc # "check"

\* What a request that is going to append has seen still holds.
Fits(s) == \A h \in Handlers : Appending(h, s) => At(s, req[h].k)

\* The chunks the client knows, or is about to be told, to have landed.
Acked(s) == \E j \in 0..Chunks : /\ At(s, j) /\ client[s].next <= j
                                 /\ \A h \in Handlers : Chunking(h, s) /\ req[h].pc = "ok" => req[h].k < j

Alone(s) ==
    /\ \A g, h \in InFlight(s) : g = h
    /\ Placed(s) /\ Fits(s)
    /\ \A h \in Handlers : Checked(h, s) => staged[s] = WholeSeq
    /\ s \in ended => ledger[s] = None /\ \A h \in Handlers : ~Chunking(h, s)
    /\ s \notin ended => Acked(s)

\* The entry of the ledger is of chunks in order: each was sent once.
Followed(s) ==
    /\ Acked(s) /\ Fits(s)
    /\ \A h \in Handlers : Writing(h, s) => req[h].k < ledger[s]
    /\ \A g, h \in Handlers : Writing(g, s) /\ Writing(h, s) /\ req[g].k = req[h].k => g = h

\* There is no entry: the next one starts with all that is staged, or is wrong.
Restarted(s) ==
    \/ Acked(s) /\ \A h \in Handlers : ~Writing(h, s)
    \/ client[s].next >= 1 /\ \A h \in Handlers : Chunking(h, s) => req[h].k # 0

Vouched(s) ==
    /\ s \notin ended => /\ ledger[s] \in 1..Chunks => Followed(s)
                         /\ ledger[s] = None => Restarted(s)
    /\ \A g, h \in Handlers : Taken(g, s) /\ Taken(h, s) => g = h
    /\ \A h \in Handlers : Taken(h, s) /\ req[h].sha = "right" =>
          staged[s] = WholeSeq /\ \A g \in Handlers : ~Appending(g, s)

OnDisk(s) ==
    /\ s \in ended => client[s].next = Chunks
    /\ \A h \in Handlers : Taken(h, s) => s \in ended
    /\ s \notin unfollowed => Vouched(s)
    /\ s \notin unfollowed \cup overlapped => Alone(s)

Staging == \A s \in Disk : OnDisk(s)

-----------------------------------------------------------------------------
(* Objects.                                                                *)

Unsettled(f) == \E h \in Handlers : \/ req[h].pc \in {"rename", "undo"} /\ req[h].f = f
                                    \/ req[h].pc \in {"drop", "delete"} /\ req[h].old = f

Stored(f) ==
    /\ object[f] # None
    /\ object[f] = WholeSeq \/ file[f].s \in overlapped \cup unfollowed
    /\ file[f].sha = "right" /\ file[f].s \notin unfollowed => object[f] = WholeSeq

Objects == \A f \in Rows : file[f].s \in Disk /\ f \notin cut => Unsettled(f) \/ Stored(f)

UploadInv == Typed /\ Browsing /\ Telegram /\ Named /\ Staging /\ Objects

-----------------------------------------------------------------------------
(* Sizes, chunks and their sequences. *)

LEMMA Sizes ==
    /\ Size \in Nat \ {0} /\ ChunkParts \in Nat \ {0} /\ Chunks \in Nat \ {0}
    /\ Chunks * ChunkParts >= Size
    /\ \A j \in 0..Chunks : j < Chunks => j * ChunkParts < Size
<1>1. Size \in Nat \ {0} /\ ChunkParts \in Nat \ {0}
  BY UploadAssumption
<1>2. PICK n \in Nat : n = Size + ChunkParts - 1 /\ n >= ChunkParts
  BY <1>1
<1>3. PICK c : c = n \div ChunkParts
  OBVIOUS
<1>4. c \in Int /\ c * ChunkParts <= n /\ n < (c + 1) * ChunkParts
  BY <1>1, <1>2, <1>3
<1>5. (c + 1) * ChunkParts = c * ChunkParts + ChunkParts
  BY <1>1, <1>4
<1>6. c >= 1
  <2>1. CASE c <= 0
    <3>1. c * ChunkParts <= 0
      BY <1>1, <1>4, <2>1
    <3>2. QED
      BY <1>1, <1>2, <1>4, <1>5, <3>1
  <2>2. QED
    BY <1>4, <2>1
<1>7. Chunks = c
  BY <1>2, <1>3 DEF Chunks
<1>8. c * ChunkParts >= Size
  BY <1>1, <1>2, <1>4, <1>5
<1>9. ASSUME NEW j \in 0..c, j < c PROVE j * ChunkParts < Size
  <2>1. (j + 1) * ChunkParts <= c * ChunkParts
    BY <1>1, <1>4, <1>9
  <2>2. (j + 1) * ChunkParts = j * ChunkParts + ChunkParts
    BY <1>1, <1>9
  <2>3. j * ChunkParts \in Int
    BY <1>1, <1>9
  <2>4. QED
    BY <1>1, <1>2, <1>4, <2>1, <2>2, <2>3
<1>10. QED
  BY <1>1, <1>4, <1>6, <1>7, <1>8, <1>9

\* Where the chunks of a file end.
LEMMA Products ==
    ASSUME NEW j \in 0..Chunks, j < Chunks
    PROVE  /\ End(j) = j * ChunkParts /\ End(j) < Size
           /\ End(j) < End(j + 1) /\ End(j + 1) <= End(j) + ChunkParts
           /\ End(j) \div ChunkParts = j
<1>1. Size \in Nat \ {0} /\ ChunkParts \in Nat \ {0} /\ Chunks \in Nat \ {0}
  BY Sizes
<1>2. j * ChunkParts < Size /\ j * ChunkParts \in Nat
  BY <1>1, Sizes
<1>3. End(j) = j * ChunkParts
  BY <1>2 DEF End
<1>4. (j + 1) * ChunkParts = j * ChunkParts + ChunkParts
  BY <1>1
<1>5. End(j) < End(j + 1) /\ End(j + 1) <= End(j) + ChunkParts
  BY <1>1, <1>2, <1>3, <1>4 DEF End
<1>6. (j * ChunkParts) \div ChunkParts = j
  BY <1>1
<1>7. QED
  BY <1>2, <1>3, <1>5, <1>6

LEMMA Ends ==
    /\ End(0) = 0 /\ End(Chunks) = Size
    /\ \A j \in 0..Chunks : End(j) \in 0..Size
    /\ \A j \in 0..Chunks : j < Chunks => /\ End(j) < Size /\ j + 1 \in 0..Chunks
                                          /\ End(j) < End(j + 1) /\ End(j + 1) <= End(j) + ChunkParts
<1>1. /\ Size \in Nat \ {0} /\ ChunkParts \in Nat \ {0} /\ Chunks \in Nat \ {0}
      /\ Chunks * ChunkParts >= Size
  BY Sizes
<1>2. End(0) = 0 /\ End(Chunks) = Size
  BY <1>1 DEF End
<1>3. ASSUME NEW j \in 0..Chunks PROVE End(j) \in 0..Size
  <2>1. j * ChunkParts \in Nat
    BY <1>1
  <2>2. QED
    BY <1>1, <2>1 DEF End
<1>4. ASSUME NEW j \in 0..Chunks, j < Chunks
      PROVE  /\ End(j) < Size /\ End(j) < End(j + 1) /\ End(j + 1) <= End(j) + ChunkParts
  BY <1>4, Products
<1>5. QED
  BY <1>1, <1>2, <1>3, <1>4

LEMMA EndsGrow == \A i, j \in 0..Chunks : i < j => End(i) < End(j)
<1> SUFFICES ASSUME NEW i \in 0..Chunks, NEW j \in 0..Chunks, i < j PROVE End(i) < End(j)
  OBVIOUS
<1>1. Size \in Nat /\ ChunkParts \in Nat \ {0} /\ Chunks \in Nat
  BY Sizes
<1>2. i < Chunks
  BY <1>1
<1>3. End(i) = i * ChunkParts /\ End(i) < Size
  BY <1>2, Products
<1>4. CASE j = Chunks
  BY <1>3, <1>4, Ends
<1>5. CASE j < Chunks
  <2>1. End(j) = j * ChunkParts
    BY <1>5, Products
  <2>2. (j - i) * ChunkParts >= 1
    BY <1>1
  <2>3. (j - i) * ChunkParts = j * ChunkParts - i * ChunkParts
    BY <1>1
  <2>4. i * ChunkParts \in Int /\ j * ChunkParts \in Int
    BY <1>1
  <2>5. QED
    BY <1>3, <2>1, <2>2, <2>3, <2>4
<1>6. QED
  BY <1>1, <1>4, <1>5

\* The parts of a chunk.
LEMMA WholeFile ==
    WholeSeq \in Seq(PartSet) /\ Len(WholeSeq) = Size /\ \A i \in 1..Size : WholeSeq[i] = i - 1
<1>1. Size \in Nat \ {0}
  BY Sizes
<1>2. QED
  BY <1>1 DEF WholeSeq, PartSet

LEMMA ChunkParted ==
    ASSUME NEW k \in 0..Chunks, k < Chunks
    PROVE  /\ PartsOf(k) = SubSeq(WholeSeq, End(k) + 1, End(k + 1))
           /\ PartsOf(k) \in Seq(PartSet) /\ Len(PartsOf(k)) = End(k + 1) - End(k)
           /\ Len(PartsOf(k)) \in 1..ChunkParts
           /\ \A i \in 1..Len(PartsOf(k)) : PartsOf(k)[i] = End(k) + i - 1
<1>1. Size \in Nat \ {0} /\ ChunkParts \in Nat \ {0} /\ Chunks \in Nat
  BY Sizes
<1>2. PartsOf(k) = SubSeq(WholeSeq, End(k) + 1, End(k + 1))
  BY Products DEF PartsOf, End
<1>3. PICK a, b \in Nat : a = End(k) /\ b = End(k + 1) /\ a < b /\ b <= Size /\ b <= a + ChunkParts
  <2>1. k + 1 \in 0..Chunks
    BY <1>1
  <2>2. QED
    BY <1>1, <2>1, Ends
<1>4. ASSUME NEW i \in (a + 1)..b PROVE WholeSeq[i] \in PartSet /\ WholeSeq[i] = i - 1
  <2>1. i \in 1..Size /\ i - 1 \in PartSet
    BY <1>1, <1>3 DEF PartSet
  <2>2. QED
    BY <2>1, WholeFile
<1>5. PICK p : p = SubSeq(WholeSeq, a + 1, b)
  OBVIOUS
<1>6. /\ p \in Seq(PartSet) /\ Len(p) = IF a + 1 <= b THEN b - (a + 1) + 1 ELSE 0
      /\ \A i \in 1..(b - (a + 1) + 1) : p[i] = WholeSeq[a + 1 + i - 1]
  <2>1. a + 1 \in Int /\ b \in Int /\ \A i \in (a + 1)..b : WholeSeq[i] \in PartSet
    BY <1>3, <1>4
  <2>2. QED
    BY <1>5, <2>1, SubSeqProperties
<1>7. Len(p) = b - a /\ Len(p) \in 1..ChunkParts
  BY <1>1, <1>3, <1>6
<1>8. ASSUME NEW i \in 1..(b - a) PROVE p[i] = a + i - 1
  <2>1. i \in 1..(b - (a + 1) + 1) /\ a + 1 + i - 1 \in (a + 1)..b
    BY <1>3
  <2>2. p[i] = (a + 1 + i - 1) - 1
    BY <1>4, <1>6, <2>1
  <2>3. QED
    BY <1>3, <2>2
<1>9. QED
  BY <1>2, <1>3, <1>5, <1>6, <1>7, <1>8

\* A chunk written in its place.
LEMMA Grows ==
    /\ Prefix(End(0)) = <<>> /\ Prefix(End(Chunks)) = WholeSeq
    /\ \A k \in 0..Chunks : /\ Prefix(End(k)) \in Seq(PartSet) /\ Len(Prefix(End(k))) = End(k)
                            /\ k < Chunks => Prefix(End(k)) \o PartsOf(k) = Prefix(End(k + 1))
<1>1. Size \in Nat \ {0} /\ Chunks \in Nat
  BY Sizes
<1>2. Prefix(End(0)) = <<>>
  BY Ends, SubSeqEmpty DEF Prefix
<1>3. Prefix(End(Chunks)) = WholeSeq
  BY Ends, WholeFile, SubSeqFull DEF Prefix
<1>4. ASSUME NEW k \in 0..Chunks PROVE Prefix(End(k)) \in Seq(PartSet) /\ Len(Prefix(End(k))) = End(k)
  <2>1. PICK a \in 0..Size : a = End(k)
    BY Ends
  <2>2. 1 \in Int /\ a \in Int /\ \A i \in 1..a : WholeSeq[i] \in PartSet
    BY <1>1, <2>1, WholeFile DEF PartSet
  <2>3. PICK p : p = SubSeq(WholeSeq, 1, a)
    OBVIOUS
  <2>4. p \in Seq(PartSet) /\ Len(p) = IF 1 <= a THEN a - 1 + 1 ELSE 0
    BY <2>2, <2>3, SubSeqProperties
  <2>5. Len(p) = a
    BY <1>1, <2>1, <2>4
  <2>6. QED
    BY <2>1, <2>3, <2>4, <2>5 DEF Prefix
<1>5. ASSUME NEW k \in 0..Chunks, k < Chunks PROVE Prefix(End(k)) \o PartsOf(k) = Prefix(End(k + 1))
  <2>1. PICK a, b \in Nat : a = End(k) /\ b = End(k + 1) /\ a < b /\ b <= Size
    <3>1. k + 1 \in 0..Chunks
      BY <1>1, <1>5
    <3>2. QED
      BY <1>1, <1>5, <3>1, Ends
  <2>2. 1 \in 1..(Len(WholeSeq) + 1) /\ a \in (1 - 1)..Len(WholeSeq) /\ b \in a..Len(WholeSeq)
    BY <1>1, <2>1, WholeFile
  <2>3. WholeSeq \in Seq(PartSet)
    BY WholeFile
  <2>4. SubSeq(WholeSeq, 1, a) \o SubSeq(WholeSeq, a + 1, b) = SubSeq(WholeSeq, 1, b)
    BY <2>2, <2>3, ConcatAdjacentSubSeq
  <2>5. QED
    BY <1>5, <2>1, <2>4, ChunkParted DEF Prefix
<1>6. QED
  BY <1>2, <1>3, <1>4, <1>5

-----------------------------------------------------------------------------
(* Steps of one request. *)

Others(h) == \A g \in Handlers : g # h => req'[g] = req[g]

\* The upload and the chunk a request is for.
CallerKept(h) == req'[h].op = req[h].op /\ req'[h].s = req[h].s /\ req'[h].k = req[h].k

FileKept(h) == req'[h].f = req[h].f /\ req'[h].sha = req[h].sha /\ req'[h].parts = req[h].parts
OldKept(h) == req'[h].old = req[h].old /\ req'[h].obj = req[h].obj

Requests == req \in [Handlers -> Call] /\ \A h \in Handlers : Called(h)

LEMMA Nothing == NoReq \in Call /\ NoReq.op = "none" /\ NoReq.pc = "idle" /\ NoReq.s = None
                 /\ NoReq.todo = <<>> /\ NoReq.k = 0
<1>1. 0 \in 0..Chunks
  BY Sizes
<1>2. <<>> \in Seq(PartSet)
  OBVIOUS
<1>3. QED
  BY <1>1, <1>2 DEF NoReq, Call, Pcs

LEMMA Replaced ==
    ASSUME Requests, NEW h \in Handlers, NEW q \in Call, req' = [req EXCEPT ![h] = q]
    PROVE  req' \in [Handlers -> Call] /\ req'[h] = q /\ Others(h)
BY DEF Requests, Others

LEMMA Emptied ==
    ASSUME Requests, NEW h \in Handlers, req' = [req EXCEPT ![h] = NoReq]
    PROVE  Requests' /\ req'[h] = NoReq /\ Others(h)
<1>1. req' \in [Handlers -> Call] /\ req'[h] = NoReq /\ Others(h)
  BY Nothing, Replaced
<1>2. Called(h)'
  <2>1. Len(NoReq.todo) = 0 /\ ChunkParts \in Nat
    BY Nothing, Sizes
  <2>2. QED
    BY <1>1, <2>1, Nothing DEF Called
<1>3. ASSUME NEW g \in Handlers, g # h PROVE Called(g)'
  <2>1. req'[g] = req[g] /\ Called(g)
    BY <1>1, <1>3 DEF Others, Requests
  <2>2. QED
    BY <2>1 DEF Called, ChunkCall, EndCall
<1>4. QED
  BY <1>1, <1>2, <1>3 DEF Requests

LEMMA Went ==
    ASSUME Requests, NEW h \in Handlers, NEW p \in Pcs, Goto(h, p)
    PROVE  /\ req' \in [Handlers -> Call] /\ Others(h)
           /\ req'[h].pc = p /\ req'[h].todo = req[h].todo
           /\ CallerKept(h) /\ FileKept(h) /\ OldKept(h)
<1>1. PICK q : q = [req[h] EXCEPT !.pc = p]
  OBVIOUS
<1>2. req[h] \in Call
  BY DEF Requests
<1>3. /\ q \in Call /\ q.pc = p /\ q.todo = req[h].todo /\ q.op = req[h].op /\ q.s = req[h].s
      /\ q.k = req[h].k /\ q.f = req[h].f /\ q.sha = req[h].sha /\ q.parts = req[h].parts
      /\ q.old = req[h].old /\ q.obj = req[h].obj
  BY <1>1, <1>2 DEF Call
<1>4. req' = [req EXCEPT ![h] = q]
  BY <1>1, <1>2 DEF Goto, Requests
<1>5. req' \in [Handlers -> Call] /\ req'[h] = q /\ Others(h)
  BY <1>3, <1>4, Replaced
<1>6. QED
  BY <1>3, <1>5 DEF CallerKept, FileKept, OldKept

\* The request that has taken a step is again one that can be there.
LEMMA CalledAgain ==
    ASSUME Requests, NEW h \in Handlers, req' \in [Handlers -> Call], Others(h), Called(h)'
    PROVE  Requests'
<1>1. ASSUME NEW g \in Handlers, g # h PROVE Called(g)'
  <2>1. req'[g] = req[g] /\ Called(g)
    BY <1>1 DEF Others, Requests
  <2>2. QED
    BY <2>1 DEF Called, ChunkCall, EndCall
<1>2. QED
  BY <1>1 DEF Requests

-----------------------------------------------------------------------------
(* What each statement does to its request. *)

LEMMA ChunkHashSteps ==
    ASSUME Requests, NEW h \in Handlers, ChunkHash(h)
    PROVE  /\ Requests' /\ Others(h) /\ CallerKept(h) /\ FileKept(h) /\ OldKept(h)
           /\ req[h].op = "chunk" /\ req[h].pc = "hash" /\ req[h].s \in Sessions
           /\ req'[h].pc = (IF req[h].s \in Disk THEN "stat" ELSE "save")
           /\ req'[h].todo = PartsOf(req[h].k)
<1>1. req[h] \in Call /\ req[h].op = "chunk" /\ req[h].pc = "hash" /\ ChunkCall(h)
  BY DEF Requests, Called, ChunkHash
<1>2. req[h].k \in 0..Chunks /\ req[h].k < Chunks /\ req[h].s \in Sessions
  BY <1>1 DEF Call, ChunkCall
<1>3. PartsOf(req[h].k) \in Seq(PartSet) /\ Len(PartsOf(req[h].k)) \in 1..ChunkParts
  BY <1>2, ChunkParted
<1>4. PICK p : p = IF req[h].s \in Disk THEN "stat" ELSE "save"
  OBVIOUS
<1>5. PICK q : q = [req[h] EXCEPT !.pc = p, !.todo = PartsOf(req[h].k)]
  OBVIOUS
<1>6. /\ q \in Call /\ q.pc = p /\ q.todo = PartsOf(req[h].k) /\ q.op = "chunk" /\ q.s = req[h].s
      /\ q.k = req[h].k /\ q.f = req[h].f /\ q.sha = req[h].sha /\ q.parts = req[h].parts
      /\ q.old = req[h].old /\ q.obj = req[h].obj
  BY <1>1, <1>3, <1>4, <1>5, ZenonT(30) DEF Call, Pcs
<1>7. req' = [req EXCEPT ![h] = q]
  BY <1>1, <1>4, <1>5 DEF ChunkHash
<1>8. req' \in [Handlers -> Call] /\ req'[h] = q /\ Others(h)
  BY <1>6, <1>7, Replaced
<1>9. Called(h)'
  <2>1. ChunkCall(h)'
    BY <1>2, <1>4, <1>6, <1>8 DEF ChunkCall
  <2>2. Len(q.todo) <= ChunkParts
    BY <1>3, <1>6, Sizes
  <2>3. QED
    BY <1>4, <1>6, <1>8, <2>1, <2>2 DEF Called
<1>10. QED
  BY <1>1, <1>2, <1>4, <1>6, <1>8, <1>9, CalledAgain DEF CallerKept, FileKept, OldKept

LEMMA PartSaveSteps ==
    ASSUME Requests, NEW h \in Handlers, PartSave(h)
    PROVE  /\ Requests' /\ Others(h) /\ CallerKept(h) /\ FileKept(h) /\ OldKept(h)
           /\ req[h].op = "chunk" /\ req[h].pc = "save" /\ req[h].s \in Sessions \ Disk
           /\ req[h].todo \in Seq(PartSet) /\ req[h].todo # <<>>
           /\ IF session[req[h].s] = "open" THEN req'[h].pc = "save" /\ req'[h].todo = Tail(req[h].todo)
                                            ELSE req'[h].pc = "failed" /\ req'[h].todo = req[h].todo
<1>1. req[h] \in Call /\ Called(h) /\ req[h].pc = "save" /\ req[h].todo # <<>>
  BY DEF Requests, PartSave
<1>2. req[h].op = "chunk" /\ ChunkCall(h)
  BY <1>1, Nothing DEF Called, Call, EndCall
<1>3. req[h].todo \in Seq(PartSet) /\ req[h].s \in Sessions \ Disk
  BY <1>1, <1>2 DEF Call, ChunkCall
<1>4. Len(req[h].todo) <= ChunkParts /\ Len(req[h].todo) \in Nat
  BY <1>1, <1>3 DEF Called
<1>5. Tail(req[h].todo) \in Seq(PartSet) /\ Len(Tail(req[h].todo)) <= ChunkParts
  <2>1. Tail(req[h].todo) \in Seq(PartSet) /\ Len(Tail(req[h].todo)) = Len(req[h].todo) - 1
    BY <1>1, <1>3, HeadTailProperties
  <2>2. ChunkParts \in Nat
    BY Sizes
  <2>3. QED
    BY <1>4, <2>1, <2>2
<1>6. PICK q : q = IF session[req[h].s] = "open" THEN [req[h] EXCEPT !.todo = Tail(req[h].todo)]
                                                 ELSE [req[h] EXCEPT !.pc = "failed"]
  OBVIOUS
<1>7. /\ q \in Call /\ q.op = "chunk" /\ q.s = req[h].s
      /\ q.k = req[h].k /\ q.f = req[h].f /\ q.sha = req[h].sha /\ q.parts = req[h].parts
      /\ q.old = req[h].old /\ q.obj = req[h].obj
      /\ IF session[req[h].s] = "open" THEN q.pc = "save" /\ q.todo = Tail(req[h].todo)
                                       ELSE q.pc = "failed" /\ q.todo = req[h].todo
  BY <1>1, <1>2, <1>5, <1>6 DEF Call, Pcs
<1>8. req' = [req EXCEPT ![h] = q]
  BY <1>1, <1>6 DEF PartSave
<1>9. req' \in [Handlers -> Call] /\ req'[h] = q /\ Others(h)
  BY <1>7, <1>8, Replaced
<1>10. Called(h)'
  <2>1. ChunkCall(h)'
    BY <1>2, <1>3, <1>7, <1>9 DEF ChunkCall
  <2>2. Len(q.todo) <= ChunkParts
    BY <1>4, <1>5, <1>7
  <2>3. QED
    BY <1>7, <1>9, <2>1, <2>2 DEF Called
<1>11. QED
  BY <1>1, <1>2, <1>3, <1>7, <1>9, <1>10, CalledAgain DEF CallerKept, FileKept, OldKept

\* A handler of a chunk goes on.
LEMMA ChunkWent ==
    ASSUME Requests, NEW h \in Handlers, NEW p, Goto(h, p), req[h].op = "chunk",
           p \in {"refused", "ok", "failed"} \/ (p = "append" /\ req[h].pc = "stat")
    PROVE  /\ Requests' /\ Others(h) /\ CallerKept(h) /\ FileKept(h) /\ OldKept(h)
           /\ req'[h].pc = p /\ req'[h].todo = req[h].todo
<1>1. p \in Pcs
  BY DEF Pcs
<1>2. /\ req' \in [Handlers -> Call] /\ Others(h) /\ req'[h].pc = p /\ req'[h].todo = req[h].todo
      /\ CallerKept(h) /\ FileKept(h) /\ OldKept(h)
  BY <1>1, Went
<1>3. ChunkCall(h) /\ Len(req[h].todo) <= ChunkParts
  BY DEF Requests, Called
<1>4. ChunkCall(h)'
  BY <1>2, <1>3 DEF ChunkCall, CallerKept
<1>5. Called(h)'
  BY <1>2, <1>3, <1>4 DEF Called, CallerKept
<1>6. QED
  BY <1>2, <1>5, CalledAgain

\* A handler of an end, or a purge, goes on.
LEMMA EndWent ==
    ASSUME Requests, NEW h \in Handlers, NEW p, Goto(h, p), req[h].op \in {"complete", "purge"},
           \/ p \in {"failed", "find", "create", "close", "ok"} /\ req[h].op = "complete"
           \/ p \in {"undo", "point"} /\ req[h].pc = "rename" /\ req[h].op = "complete"
           \/ p = "delete" /\ req[h].pc = "drop"
    PROVE  /\ Requests' /\ Others(h) /\ CallerKept(h) /\ FileKept(h) /\ OldKept(h)
           /\ req'[h].pc = p
<1>1. p \in Pcs
  BY DEF Pcs
<1>2. /\ req' \in [Handlers -> Call] /\ Others(h) /\ req'[h].pc = p /\ req'[h].todo = req[h].todo
      /\ CallerKept(h) /\ FileKept(h) /\ OldKept(h)
  BY <1>1, Went
<1>3. Called(h)
  BY DEF Requests
<1>4. req[h].op = "complete" => EndCall(h)'
  BY <1>1, <1>2, <1>3 DEF Called, EndCall, CallerKept
<1>5. Called(h)'
  BY <1>2, <1>3, <1>4 DEF Called, CallerKept, FileKept, OldKept
<1>6. QED
  BY <1>2, <1>5, CalledAgain

LEMMA WhatItIs ==
    ASSUME Requests, NEW h \in Handlers
    PROVE  /\ req[h] \in Call /\ Called(h)
           /\ req[h].pc \in {"save", "stat", "append"} => req[h].op = "chunk" /\ ChunkCall(h)
           /\ req[h].pc \in {"commit", "check", "find", "create", "rename", "undo", "point", "close"} =>
                req[h].op = "complete" /\ EndCall(h)
           /\ req[h].pc \in {"drop", "delete"} =>
                (req[h].op = "complete" /\ EndCall(h)) \/ (req[h].op = "purge" /\ req[h].s = None)
           /\ req[h].pc \in {"hash", "refused", "ok", "failed"} =>
                (req[h].op = "complete" /\ EndCall(h)) \/ (req[h].op = "chunk" /\ ChunkCall(h))
<1>1. req[h] \in Call /\ Called(h)
  BY DEF Requests
<1>2. req[h].op \in {"none", "chunk", "complete", "purge"}
  BY <1>1 DEF Call
<1>3. CASE req[h].op = "none"
  <2>1. req[h].pc = "idle"
    BY <1>1, <1>3, Nothing DEF Called
  <2>2. QED
    BY <1>1, <2>1
<1>4. CASE req[h].op = "chunk"
  BY <1>1, <1>4 DEF Called, ChunkCall
<1>5. CASE req[h].op = "complete"
  BY <1>1, <1>5 DEF Called, EndCall
<1>6. CASE req[h].op = "purge"
  BY <1>1, <1>6 DEF Called
<1>7. QED
  BY <1>2, <1>3, <1>4, <1>5, <1>6

\* The request h goes from the statement p to the statement q.
Moves(h, p, q) ==
    /\ Requests' /\ Others(h) /\ CallerKept(h) /\ FileKept(h) /\ OldKept(h)
    /\ req[h] \in Call /\ req[h].pc = p /\ req'[h].pc = q

ChunkMoves(h, p, q) ==
    /\ Moves(h, p, q) /\ req[h].op = "chunk" /\ req'[h].todo = req[h].todo
    /\ req[h].s \in Sessions /\ req[h].k \in 0..Chunks /\ req[h].k < Chunks

LEMMA ChunkMove ==
    ASSUME Requests, NEW h \in Handlers, NEW p \in {"save", "stat", "append"}, NEW q,
           req[h].pc = p, Goto(h, q), q \in {"refused", "ok", "failed"} \/ (q = "append" /\ p = "stat")
    PROVE  ChunkMoves(h, p, q)
<1>1. req[h] \in Call /\ req[h].op = "chunk" /\ ChunkCall(h)
  BY WhatItIs
<1>2. /\ Requests' /\ Others(h) /\ CallerKept(h) /\ FileKept(h) /\ OldKept(h)
      /\ req'[h].pc = q /\ req'[h].todo = req[h].todo
  BY <1>1, ChunkWent
<1>3. QED
  BY <1>1, <1>2 DEF ChunkMoves, Moves, ChunkCall, Call

LEMMA PartsSavedMoves ==
    ASSUME Requests, NEW h \in Handlers, PartsSaved(h)
    PROVE  ChunkMoves(h, "save", "ok") /\ req[h].s \notin Disk /\ req[h].todo = <<>>
<1>1. req[h].pc = "save" /\ Goto(h, "ok") /\ req[h].todo = <<>>
  BY DEF PartsSaved
<1>2. QED
  BY <1>1, ChunkMove, WhatItIs DEF ChunkCall

LEMMA SaveFailsMoves ==
    ASSUME Requests, NEW h \in Handlers, SaveFails(h)
    PROVE  ChunkMoves(h, "save", "failed") /\ req[h].s \notin Disk
<1>1. req[h].pc = "save" /\ Goto(h, "failed")
  BY DEF SaveFails
<1>2. QED
  BY <1>1, ChunkMove, WhatItIs DEF ChunkCall

LEMMA ChunkStatMoves ==
    ASSUME Requests, NEW h \in Handlers, ChunkStat(h)
    PROVE  \E q : /\ ChunkMoves(h, "stat", q) /\ req[h].s \in Disk
                  /\ q = (IF StagedSize(req[h].s) >= Size THEN "ok"
                          ELSE IF req[h].k # StagedSize(req[h].s) \div ChunkParts
                               THEN "refused" ELSE "append")
<1>1. PICK q : q = (IF StagedSize(req[h].s) >= Size THEN "ok"
                    ELSE IF req[h].k # StagedSize(req[h].s) \div ChunkParts THEN "refused" ELSE "append")
  OBVIOUS
<1>2. req[h].pc = "stat" /\ Goto(h, q) /\ q \in {"ok", "refused", "append"}
  BY <1>1 DEF ChunkStat
<1>3. QED
  BY <1>1, <1>2, ChunkMove, WhatItIs DEF ChunkCall

LEMMA ChunkAppendMoves ==
    ASSUME Requests, NEW h \in Handlers, ChunkAppend(h)
    PROVE  ChunkMoves(h, "append", "ok") /\ req[h].s \in Disk /\ req[h].todo = PartsOf(req[h].k)
<1>1. req[h].pc = "append" /\ Goto(h, "ok")
  BY DEF ChunkAppend
<1>2. QED
  BY <1>1, ChunkMove, WhatItIs DEF ChunkCall

LEMMA ShortWriteMoves ==
    ASSUME Requests, NEW h \in Handlers, ShortWrite(h)
    PROVE  ChunkMoves(h, "append", "failed") /\ req[h].s \in Disk /\ req[h].todo = PartsOf(req[h].k)
<1>1. req[h].pc = "append" /\ Goto(h, "failed")
  BY DEF ShortWrite
<1>2. QED
  BY <1>1, ChunkMove, WhatItIs DEF ChunkCall

\* The statements of an end that only move on.
EndMoves(h, p, q) == Moves(h, p, q) /\ req[h].op = "complete" /\ EndCall(h) /\ req[h].s \in Sessions

LEMMA EndMove ==
    ASSUME Requests, NEW h \in Handlers, NEW p \in {"commit", "check", "find", "rename", "undo", "point", "close"},
           NEW q, req[h].pc = p, Goto(h, q),
           \/ q \in {"failed", "find", "create", "close", "ok"}
           \/ q \in {"undo", "point"} /\ p = "rename"
    PROVE  EndMoves(h, p, q)
<1>1. req[h] \in Call /\ req[h].op = "complete" /\ EndCall(h)
  BY WhatItIs
<1>2. /\ Requests' /\ Others(h) /\ CallerKept(h) /\ FileKept(h) /\ OldKept(h)
      /\ req'[h].pc = q
  BY <1>1, EndWent
<1>3. QED
  BY <1>1, <1>2 DEF EndMoves, Moves, EndCall

LEMMA CommitFailsMoves ==
    ASSUME Requests, NEW h \in Handlers, CommitFails(h)
    PROVE  EndMoves(h, "commit", "failed") /\ req[h].s \notin Disk
<1>1. req[h].pc = "commit" /\ Goto(h, "failed")
  BY DEF CommitFails
<1>2. QED
  BY <1>1, EndMove, WhatItIs DEF EndCall

LEMMA CheckStagedMoves ==
    ASSUME Requests, NEW h \in Handlers, CheckStaged(h)
    PROVE  /\ EndMoves(h, "check", IF StagedSize(req[h].s) = Size THEN "find" ELSE "failed")
           /\ req[h].s \in Disk
<1>1. PICK q : q = IF StagedSize(req[h].s) = Size THEN "find" ELSE "failed"
  OBVIOUS
<1>2. req[h].pc = "check" /\ Goto(h, q)
  BY <1>1 DEF CheckStaged
<1>3. EndMoves(h, "check", q)
  BY <1>1, <1>2, EndMove
<1>4. req[h].s \in Disk
  BY <1>2, WhatItIs DEF EndCall
<1>5. QED
  BY <1>1, <1>3, <1>4

LEMMA DropObjectMoves ==
    ASSUME Requests, NEW h \in Handlers, DropObject(h)
    PROVE  /\ Moves(h, "drop", "delete") /\ req[h].old \in Files /\ req[h].obj \in {None, req[h].old}
           /\ req[h].op \in {"complete", "purge"}
<1>1. req[h].pc = "drop" /\ Goto(h, "delete")
  BY DEF DropObject
<1>2. Called(h) /\ req[h] \in Call /\ req[h].op \in {"complete", "purge"}
  BY <1>1, WhatItIs
<1>3. /\ Requests' /\ Others(h) /\ CallerKept(h) /\ FileKept(h) /\ OldKept(h)
      /\ req'[h].pc = "delete"
  BY <1>1, <1>2, EndWent
<1>4. QED
  BY <1>1, <1>2, <1>3 DEF Moves, Called

LEMMA RenameMoves ==
    ASSUME Requests, NEW h \in Handlers, Rename(h)
    PROVE  /\ EndMoves(h, "rename", IF staged[req[h].s] = None THEN "undo" ELSE "point")
           /\ req[h].s \in Disk /\ req[h].f \in Files
<1>1. PICK q : q = IF staged[req[h].s] = None THEN "undo" ELSE "point"
  OBVIOUS
<1>2. req[h].pc = "rename" /\ Goto(h, q)
  BY <1>1 DEF Rename
<1>3. EndMoves(h, "rename", q)
  BY <1>1, <1>2, EndMove
<1>4. req[h].s \in Disk /\ req[h].f \in Files
  BY <1>2, WhatItIs DEF EndCall, Called
<1>5. QED
  BY <1>1, <1>3, <1>4

LEMMA UndoMoves ==
    ASSUME Requests, NEW h \in Handlers, Undo(h)
    PROVE  EndMoves(h, "undo", "failed") /\ req[h].s \in Disk /\ req[h].f \in Files
<1>1. req[h].pc = "undo" /\ Goto(h, "failed")
  BY DEF Undo
<1>2. QED
  BY <1>1, EndMove, WhatItIs DEF EndCall, Called

LEMMA PointMoves ==
    ASSUME Requests, NEW h \in Handlers, Point(h)
    PROVE  EndMoves(h, "point", "close") /\ req[h].s \in Disk /\ req[h].f \in Files
<1>1. req[h].pc = "point" /\ Goto(h, "close")
  BY DEF Point
<1>2. QED
  BY <1>1, EndMove, WhatItIs DEF EndCall, Called

LEMMA CloseMoves ==
    ASSUME Requests, NEW h \in Handlers, CloseSession(h)
    PROVE  EndMoves(h, "close", "ok")
<1>1. req[h].pc = "close" /\ Goto(h, "ok")
  BY DEF CloseSession
<1>2. QED
  BY <1>1, EndMove

LEMMA TakeHashSteps ==
    ASSUME Requests, NEW h \in Handlers, TakeHash(h)
    PROVE  /\ Requests' /\ Others(h) /\ CallerKept(h)
           /\ req[h].op = "complete" /\ req[h].pc = "hash" /\ req[h].s \in Sessions
           /\ req'[h].pc = (IF req[h].s \in Disk THEN "check" ELSE "commit")
           /\ req'[h].sha = (IF ledger[req[h].s] = None THEN "none"
                             ELSE IF ledger[req[h].s] = Chunks THEN "right" ELSE "wrong")
<1>1. req[h].op = "complete" /\ req[h].pc = "hash"
  BY DEF TakeHash
<1>2. req[h] \in Call /\ EndCall(h) /\ Called(h)
  BY <1>1, WhatItIs
<1>3. PICK p : p = IF req[h].s \in Disk THEN "check" ELSE "commit"
  OBVIOUS
<1>4. PICK x : x = (IF ledger[req[h].s] = None THEN "none"
                    ELSE IF ledger[req[h].s] = Chunks THEN "right" ELSE "wrong")
  OBVIOUS
<1>5. PICK q : q = [req[h] EXCEPT !.pc = p, !.sha = x]
  OBVIOUS
<1>6. q \in Call /\ q.pc = p /\ q.sha = x /\ q.op = "complete" /\ q.s = req[h].s /\ q.k = req[h].k
      /\ q.todo = req[h].todo
  <2>1. p \in Pcs /\ x \in {"none", "right", "wrong"}
    BY <1>3, <1>4 DEF Pcs
  <2>2. QED
    BY <1>1, <1>2, <1>5, <2>1 DEF Call
<1>7. req' = [req EXCEPT ![h] = q]
  BY <1>3, <1>4, <1>5 DEF TakeHash
<1>8. req' \in [Handlers -> Call] /\ req'[h] = q /\ Others(h)
  BY <1>6, <1>7, Replaced
<1>9. EndCall(h)'
  BY <1>2, <1>3, <1>6, <1>8 DEF EndCall, Pcs
<1>10. Called(h)'
  BY <1>2, <1>3, <1>6, <1>8, <1>9 DEF Called
<1>11. req[h].s \in Sessions
  BY <1>2 DEF EndCall
<1>12. QED
  BY <1>1, <1>3, <1>4, <1>6, <1>8, <1>10, <1>11, CalledAgain DEF CallerKept

LEMMA CommitSteps ==
    ASSUME Requests, saved \in [Sessions -> SUBSET PartSet], NEW h \in Handlers, Commit(h)
    PROVE  /\ Requests' /\ Others(h) /\ CallerKept(h)
           /\ req[h].op = "complete" /\ req[h].pc = "commit" /\ req[h].s \in Sessions \ Disk
           /\ req'[h].pc = "find" /\ req'[h].parts = saved[req[h].s]
<1>1. req[h].pc = "commit"
  BY DEF Commit
<1>2. req[h] \in Call /\ EndCall(h) /\ Called(h) /\ req[h].op = "complete" /\ req[h].s \in Sessions
  BY <1>1, WhatItIs DEF EndCall
<1>3. PICK x : x = saved[req[h].s] /\ x \subseteq PartSet
  BY <1>2
<1>5. PICK q : q = [req[h] EXCEPT !.pc = "find", !.parts = x]
  OBVIOUS
<1>6. q \in Call /\ q.pc = "find" /\ q.parts = x /\ q.op = "complete" /\ q.s = req[h].s /\ q.k = req[h].k
      /\ q.todo = req[h].todo
  BY <1>2, <1>3, <1>5 DEF Call, Pcs
<1>7. req' = [req EXCEPT ![h] = q]
  BY <1>3, <1>5 DEF Commit
<1>8. req' \in [Handlers -> Call] /\ req'[h] = q /\ Others(h)
  BY <1>6, <1>7, Replaced
<1>9. EndCall(h)'
  BY <1>2, <1>6, <1>8 DEF EndCall, Pcs
<1>10. Called(h)'
  BY <1>2, <1>6, <1>8, <1>9 DEF Called
<1>11. req[h].s \notin Disk
  BY <1>1, <1>2 DEF EndCall
<1>12. QED
  BY <1>1, <1>2, <1>3, <1>6, <1>8, <1>10, <1>11, CalledAgain DEF CallerKept

\* FindByNameInFolder finds nothing, or the request goes on with the row it has found.
LEMMA FindSteps ==
    ASSUME Requests, NEW h \in Handlers, Find(h)
    PROVE  /\ Requests' /\ Others(h) /\ CallerKept(h) /\ FileKept(h)
           /\ req[h].op = "complete" /\ req[h].pc = "find" /\ req[h].s \in Sessions
           /\ \/ req'[h].pc = "create"
              \/ /\ req'[h].pc = (IF req[h].s \in Disk THEN "drop" ELSE "delete")
                 /\ req'[h].old \in Rows /\ req'[h].obj = ObjectOf(req'[h].old)
<1>1. req[h].pc = "find"
  BY DEF Find
<1>2. req[h] \in Call /\ EndCall(h) /\ Called(h) /\ req[h].op = "complete" /\ req[h].s \in Sessions
  BY <1>1, WhatItIs DEF EndCall
<1>3. CASE Goto(h, "create")
  <2>1. EndMoves(h, "find", "create")
    BY <1>1, <1>3, EndMove
  <2>2. QED
    BY <1>1, <1>2, <2>1 DEF EndMoves, Moves
<1>4. ASSUME NEW f \in Rows,
             req' = [req EXCEPT ![h] = [@ EXCEPT !.old = f, !.obj = ObjectOf(f),
                       !.pc = IF req[h].s \in Disk THEN "drop" ELSE "delete"]]
      PROVE  /\ Requests' /\ Others(h) /\ CallerKept(h) /\ FileKept(h)
             /\ req'[h].pc = (IF req[h].s \in Disk THEN "drop" ELSE "delete")
             /\ req'[h].old = f /\ req'[h].obj = ObjectOf(f)
  <2>1. PICK p : p = IF req[h].s \in Disk THEN "drop" ELSE "delete"
    OBVIOUS
  <2>2. PICK x : x = ObjectOf(f) /\ x \in {None, f} /\ f \in Files
    BY DEF ObjectOf, Rows
  <2>3. PICK q : q = [req[h] EXCEPT !.old = f, !.obj = x, !.pc = p]
    OBVIOUS
  <2>4. p \in Pcs
    BY <2>1 DEF Pcs
  <2>5. /\ q \in Call /\ q.pc = p /\ q.old = f /\ q.obj = x /\ q.op = "complete" /\ q.s = req[h].s
        /\ q.k = req[h].k /\ q.f = req[h].f /\ q.sha = req[h].sha /\ q.parts = req[h].parts
        /\ q.todo = req[h].todo
    BY <1>2, <2>2, <2>3, <2>4 DEF Call
  <2>6. req' = [req EXCEPT ![h] = q]
    BY <1>4, <2>1, <2>2, <2>3 DEF Requests
  <2>7. req' \in [Handlers -> Call] /\ req'[h] = q /\ Others(h)
    BY <2>5, <2>6, Replaced
  <2>8. EndCall(h)'
    BY <1>2, <2>1, <2>4, <2>5, <2>7 DEF EndCall
  <2>9. Called(h)'
    BY <1>2, <2>1, <2>2, <2>5, <2>7, <2>8 DEF Called
  <2>10. Requests'
    BY <2>7, <2>9, CalledAgain
  <2>11. CallerKept(h) /\ FileKept(h)
    BY <1>2, <2>5, <2>7 DEF CallerKept, FileKept
  <2>12. QED
    BY <2>1, <2>2, <2>5, <2>7, <2>10, <2>11
<1>5. QED
  BY <1>1, <1>2, <1>3, <1>4 DEF Find, EndMoves, Moves

LEMMA DeleteOldSteps ==
    ASSUME Requests, NEW h \in Handlers, DeleteOld(h)
    PROVE  /\ Requests' /\ Others(h) /\ req[h].pc = "delete" /\ req[h].old \in Files
           /\ \/ req[h].op = "purge" /\ req[h].s = None /\ req'[h] = NoReq
              \/ /\ req[h].op = "complete" /\ req[h].s \in Sessions /\ req'[h].pc = "create"
                 /\ CallerKept(h) /\ FileKept(h)
<1>1. req[h].pc = "delete"
  BY DEF DeleteOld
<1>2. req[h] \in Call /\ Called(h) /\ req[h].old \in Files
  BY <1>1, WhatItIs DEF Called
<1>3. CASE req[h].op = "purge"
  <2>1. req' = [req EXCEPT ![h] = NoReq]
    BY <1>3 DEF DeleteOld
  <2>2. req[h].s = None
    BY <1>2, <1>3 DEF Called
  <2>3. QED
    BY <1>1, <1>2, <1>3, <2>1, <2>2, Emptied
<1>4. CASE req[h].op # "purge"
  <2>1. req[h].op = "complete" /\ EndCall(h) /\ req[h].s \in Sessions
    BY <1>1, <1>4, WhatItIs DEF EndCall
  <2>2. PICK q : q = [req[h] EXCEPT !.pc = "create", !.old = None, !.obj = None]
    OBVIOUS
  <2>3. /\ q \in Call /\ q.pc = "create" /\ q.op = "complete" /\ q.s = req[h].s
        /\ q.k = req[h].k /\ q.f = req[h].f /\ q.sha = req[h].sha /\ q.parts = req[h].parts
        /\ q.todo = req[h].todo
    BY <1>2, <2>1, <2>2 DEF Call, Pcs
  <2>4. req' = [req EXCEPT ![h] = q]
    BY <1>4, <2>2 DEF DeleteOld
  <2>5. req' \in [Handlers -> Call] /\ req'[h] = q /\ Others(h)
    BY <2>3, <2>4, Replaced
  <2>6. EndCall(h)'
    BY <2>1, <2>3, <2>5 DEF EndCall, Pcs
  <2>7. Called(h)'
    BY <1>2, <2>3, <2>5, <2>6 DEF Called
  <2>8. QED
    BY <1>1, <1>2, <2>1, <2>3, <2>5, <2>7, CalledAgain DEF CallerKept, FileKept
<1>5. QED
  BY <1>3, <1>4

LEMMA CreateSteps ==
    ASSUME Requests, NEW h \in Handlers, NEW f \in Files, Create(h, f)
    PROVE  /\ Requests' /\ Others(h) /\ CallerKept(h)
           /\ req[h].op = "complete" /\ req[h].pc = "create" /\ req[h].s \in Sessions /\ req[h] \in Call
           /\ req'[h].pc = (IF req[h].s \in Disk THEN "rename" ELSE "close")
           /\ req'[h].f = f /\ req'[h].sha = req[h].sha
<1>1. req[h].pc = "create"
  BY DEF Create
<1>2. req[h] \in Call /\ EndCall(h) /\ Called(h) /\ req[h].op = "complete" /\ req[h].s \in Sessions
  BY <1>1, WhatItIs DEF EndCall
<1>3. PICK p : p = IF req[h].s \in Disk THEN "rename" ELSE "close"
  OBVIOUS
<1>4. p \in Pcs
  BY <1>3 DEF Pcs
<1>5. PICK q : q = [req[h] EXCEPT !.pc = p, !.f = f]
  OBVIOUS
<1>6. q \in Call /\ q.pc = p /\ q.f = f /\ q.op = "complete" /\ q.s = req[h].s /\ q.k = req[h].k
      /\ q.todo = req[h].todo /\ q.sha = req[h].sha
  BY <1>2, <1>4, <1>5 DEF Call
<1>7. req' = [req EXCEPT ![h] = q]
  BY <1>3, <1>5 DEF Create
<1>8. req' \in [Handlers -> Call] /\ req'[h] = q /\ Others(h)
  BY <1>6, <1>7, Replaced
<1>9. EndCall(h)'
  BY <1>2, <1>3, <1>4, <1>6, <1>8 DEF EndCall
<1>10. Called(h)'
  BY <1>2, <1>3, <1>6, <1>8, <1>9 DEF Called
<1>11. QED
  BY <1>1, <1>2, <1>3, <1>6, <1>8, <1>10, CalledAgain DEF CallerKept

LEMMA PurgeSteps ==
    ASSUME Requests, NEW h \in Handlers, NEW f \in Files, Purge(h, f)
    PROVE  /\ Requests' /\ Others(h) /\ req[h] = NoReq /\ f \in Rows
           /\ req'[h].op = "purge" /\ req'[h].pc = "drop" /\ req'[h].s = None
           /\ req'[h].old = f /\ req'[h].obj = ObjectOf(f)
<1>1. req[h] = NoReq /\ f \in Rows
  BY DEF Purge
<1>2. PICK x : x = ObjectOf(f) /\ x \in {None, f}
  BY DEF ObjectOf
<1>3. PICK q : q = [NoReq EXCEPT !.op = "purge", !.pc = "drop", !.old = f, !.obj = x]
  OBVIOUS
<1>4. NoReq \in Call /\ NoReq.s = None /\ NoReq.todo = <<>>
  BY Nothing
<1>5. q \in Call /\ q.op = "purge" /\ q.pc = "drop" /\ q.old = f /\ q.obj = x /\ q.s = None /\ q.todo = <<>>
  <2>1. PICK n : n = NoReq /\ n \in Call
    BY <1>4
  <2>2. n = [op |-> n.op, pc |-> n.pc, s |-> n.s, k |-> n.k, todo |-> n.todo, sha |-> n.sha,
             parts |-> n.parts, f |-> n.f, old |-> n.old, obj |-> n.obj]
    BY <2>1 DEF Call
  <2>3. q = [n EXCEPT !.op = "purge", !.pc = "drop", !.old = f, !.obj = x]
    BY <1>3, <2>1
  <2>4. q = [op |-> "purge", pc |-> "drop", s |-> n.s, k |-> n.k, todo |-> n.todo, sha |-> n.sha,
             parts |-> n.parts, f |-> n.f, old |-> f, obj |-> x]
    BY <2>2, <2>3
  <2>5. q.op = "purge" /\ q.pc = "drop" /\ q.old = f /\ q.obj = x /\ q.s = None /\ q.todo = <<>>
    BY <1>4, <2>1, <2>4
  <2>6. /\ n.s \in Sessions \cup {None} /\ n.k \in 0..Chunks /\ n.todo \in Seq(PartSet)
        /\ n.sha \in {"none", "right", "wrong"} /\ n.parts \in SUBSET PartSet /\ n.f \in Files \cup {None}
    BY <2>1 DEF Call
  <2>7. "drop" \in Pcs /\ x \in Files \cup {None}
    BY <1>2 DEF Pcs
  <2>8. QED
    BY <2>4, <2>5, <2>6, <2>7 DEF Call
<1>6. req' = [req EXCEPT ![h] = q]
  BY <1>2, <1>3 DEF Purge
<1>7. req' \in [Handlers -> Call] /\ req'[h] = q /\ Others(h)
  BY <1>5, <1>6, Replaced
<1>8. Called(h)'
  <2>1. Len(q.todo) = 0 /\ ChunkParts \in Nat
    BY <1>5, Sizes
  <2>2. QED
    BY <1>2, <1>5, <1>7, <2>1 DEF Called
<1>9. QED
  BY <1>1, <1>2, <1>5, <1>7, <1>8, CalledAgain

Clients == client \in [Sessions -> Item]

LEMMA RequestSteps ==
    ASSUME Requests, Clients, NEW s \in Sessions, NEW h \in Handlers,
           SendChunk(s, h) \/ SendComplete(s, h)
    PROVE  /\ Requests' /\ Others(h) /\ req[h] = NoReq
           /\ client[s].pc = "send" /\ client[s].next \in 0..Chunks
           /\ req'[h].op = (IF client[s].next < Chunks THEN "chunk" ELSE "complete")
           /\ req'[h].s = s /\ req'[h].k = client[s].next
           /\ req'[h].pc = (IF session[s] # "open" THEN "refused" ELSE "hash")
<1>1. client[s].next \in 0..Chunks /\ client[s].pc = "send"
  BY DEF Clients, Item, SendChunk, SendComplete
<1>2. PICK o : /\ o = (IF client[s].next < Chunks THEN "chunk" ELSE "complete")
               /\ o \in {"none", "chunk", "complete", "purge"} /\ Request(s, h, o)
  BY <1>1, Sizes DEF SendChunk, SendComplete
<1>3. PICK p : p = (IF session[s] # "open" THEN "refused" ELSE "hash") /\ p \in Pcs
  BY DEF Pcs
<1>4. NoReq \in Call /\ NoReq.todo = <<>> /\ req[h] = NoReq
  BY <1>2, Nothing DEF Request
<1>n. PICK n : n = client[s].next /\ n \in 0..Chunks
  BY <1>1
<1>5. PICK q : q = [NoReq EXCEPT !.op = o, !.s = s, !.k = n, !.pc = p]
  OBVIOUS
<1>6. q \in Call /\ q.op = o /\ q.pc = p /\ q.s = s /\ q.k = n /\ q.todo = <<>>
  <2>1. q.op = o /\ q.pc = p /\ q.s = s /\ q.k = n /\ q.todo = <<>>
    BY <1>4, <1>5 DEF Call
  <2>2. /\ NoReq \in Call /\ o \in {"none", "chunk", "complete", "purge"} /\ p \in Pcs
        /\ n \in 0..Chunks /\ s \in Sessions \cup {None}
    BY <1>2, <1>3, <1>4, <1>n
  <2>3. q \in Call
    BY <1>5, <2>2 DEF Call
  <2>4. QED
    BY <2>1, <2>3
<1>7. req' = [req EXCEPT ![h] = q]
  BY <1>2, <1>3, <1>5, <1>n DEF Request
<1>8. req' \in [Handlers -> Call] /\ req'[h] = q /\ Others(h)
  BY <1>6, <1>7, Replaced
<1>9. Called(h)'
  <2>1. Len(q.todo) = 0 /\ ChunkParts \in Nat
    BY <1>6, Sizes
  <2>2. o = "chunk" => ChunkCall(h)'
    BY <1>2, <1>3, <1>6, <1>8, <1>n DEF ChunkCall
  <2>3. o = "complete" => EndCall(h)'
    BY <1>3, <1>6, <1>8 DEF EndCall
  <2>4. QED
    BY <1>2, <1>3, <1>6, <1>8, <2>1, <2>2, <2>3 DEF Called
<1>10. QED
  BY <1>1, <1>2, <1>3, <1>4, <1>6, <1>8, <1>9, <1>n, CalledAgain

LEMMA ReplySteps ==
    ASSUME Requests, NEW h \in Handlers, Reply(h)
    PROVE  /\ Requests' /\ Others(h) /\ req'[h] = NoReq
           /\ req[h].pc \in {"ok", "refused", "failed"} /\ req[h].op \in {"chunk", "complete"}
           /\ req[h].s \in Sessions
<1>1. req' = [req EXCEPT ![h] = NoReq] /\ req[h].pc \in {"ok", "refused", "failed"}
  BY DEF Reply
<1>2. QED
  BY <1>1, Emptied, WhatItIs DEF ChunkCall, EndCall

-----------------------------------------------------------------------------
(* What the steps do to the items of the upload manager and to the types. *)

LEMMA TriesAgain ==
    ASSUME NEW c \in Item
    PROVE  /\ TryAgain(c) \in Item /\ TryAgain(c).next = c.next /\ TryAgain(c).h = None
           /\ IF c.next < Chunks /\ c.tries < 2
              THEN TryAgain(c).pc = "send" /\ TryAgain(c).tries = c.tries + 1
              ELSE TryAgain(c).pc = "failed" /\ TryAgain(c).tries = c.tries
<1>1. c.next \in 0..Chunks /\ c.tries \in 0..2 /\ None \in Handlers \cup {None}
  BY DEF Item
<1>2. CASE c.next < Chunks /\ c.tries < 2
  <2>1. PICK n : n = c.tries + 1 /\ n \in 0..2
    BY <1>1, <1>2
  <2>2. TryAgain(c) = [c EXCEPT !.pc = "send", !.tries = n, !.h = None]
    BY <1>2, <2>1 DEF TryAgain
  <2>3. QED
    BY <1>1, <1>2, <2>1, <2>2 DEF Item
<1>3. CASE ~(c.next < Chunks /\ c.tries < 2)
  <2>1. TryAgain(c) = [c EXCEPT !.pc = "failed", !.h = None]
    BY <1>3 DEF TryAgain
  <2>2. QED
    BY <1>1, <1>3, <2>1 DEF Item
<1>4. QED
  BY <1>2, <1>3

LEMMA Succeeds ==
    ASSUME NEW c \in Item
    PROVE  /\ Succeed(c) \in Item /\ Succeed(c).h = None
           /\ IF c.next < Chunks
              THEN Succeed(c).pc = "send" /\ Succeed(c).next = c.next + 1 /\ Succeed(c).tries = 0
              ELSE Succeed(c).pc = "done" /\ Succeed(c).next = c.next /\ Succeed(c).tries = c.tries
<1>1. c.next \in 0..Chunks /\ c.tries \in 0..2 /\ None \in Handlers \cup {None} /\ Chunks \in Nat
  BY Sizes DEF Item
<1>2. CASE c.next < Chunks
  <2>1. PICK n : n = c.next + 1 /\ n \in 0..Chunks
    BY <1>1, <1>2
  <2>2. Succeed(c) = [c EXCEPT !.pc = "send", !.next = n, !.tries = 0, !.h = None]
    BY <1>2, <2>1 DEF Succeed
  <2>3. 0 \in 0..2
    OBVIOUS
  <2>4. QED
    BY <1>1, <1>2, <2>1, <2>2, <2>3 DEF Item
<1>3. CASE ~(c.next < Chunks)
  <2>1. Succeed(c) = [c EXCEPT !.pc = "done", !.h = None]
    BY <1>3 DEF Succeed
  <2>2. QED
    BY <1>1, <1>3, <2>1 DEF Item
<1>4. QED
  BY <1>2, <1>3

\* The items of the other uploads stay as they are.
ItemsKept(s) == \A t \in Sessions : t # s => client'[t] = client[t]

LEMMA ItemReplaced ==
    ASSUME Clients, NEW s \in Sessions, NEW c \in Item, client' = [client EXCEPT ![s] = c]
    PROVE  Clients' /\ ItemsKept(s) /\ client'[s] = c
BY DEF Clients, ItemsKept

LEMMA OpenSessionItem ==
    ASSUME Clients, NEW s \in Sessions, OpenSession(s)
    PROVE  /\ Clients' /\ ItemsKept(s) /\ client[s].pc = "new"
           /\ client'[s].pc = "send" /\ client'[s].next = client[s].next
           /\ client'[s].tries = client[s].tries /\ client'[s].h = client[s].h
<1>1. PICK c : c = [client[s] EXCEPT !.pc = "send"]
  OBVIOUS
<1>2. client[s] \in Item
  BY DEF Clients
<1>3. /\ c \in Item /\ c.pc = "send" /\ c.next = client[s].next /\ c.tries = client[s].tries
      /\ c.h = client[s].h
  BY <1>1, <1>2 DEF Item
<1>4. client' = [client EXCEPT ![s] = c] /\ client[s].pc = "new"
  BY <1>1 DEF OpenSession, Clients
<1>5. QED
  BY <1>3, <1>4, ItemReplaced

LEMMA RequestItem ==
    ASSUME Clients, NEW s \in Sessions, NEW h \in Handlers, SendChunk(s, h) \/ SendComplete(s, h)
    PROVE  /\ Clients' /\ ItemsKept(s)
           /\ client'[s].pc = "wait" /\ client'[s].next = client[s].next
           /\ client'[s].tries = client[s].tries /\ client'[s].h = h
<1>1. PICK c : c = [client[s] EXCEPT !.pc = "wait", !.h = h]
  OBVIOUS
<1>2. client[s] \in Item
  BY DEF Clients
<1>3. c \in Item /\ c.pc = "wait" /\ c.next = client[s].next /\ c.tries = client[s].tries /\ c.h = h
  BY <1>1, <1>2 DEF Item
<1>4. client' = [client EXCEPT ![s] = c]
  BY <1>1 DEF Clients, SendChunk, SendComplete, Request
<1>5. QED
  BY <1>3, <1>4, ItemReplaced

LEMMA AnswerLostItem ==
    ASSUME Clients, NEW s \in Sessions, AnswerLost(s)
    PROVE  /\ Clients' /\ ItemsKept(s) /\ client[s] \in Item /\ client[s].pc = "wait"
           /\ client'[s] = TryAgain(client[s])
<1>1. client[s] \in Item /\ TryAgain(client[s]) \in Item
  BY TriesAgain DEF Clients
<1>2. client' = [client EXCEPT ![s] = TryAgain(client[s])] /\ client[s].pc = "wait"
  BY DEF AnswerLost, Clients
<1>3. QED
  BY <1>1, <1>2, ItemReplaced

LEMMA RetryItem ==
    ASSUME Clients, NEW s \in Sessions, Retry(s)
    PROVE  /\ Clients' /\ ItemsKept(s) /\ client[s].pc = "failed"
           /\ client'[s].pc = "send" /\ client'[s].next = client[s].next
           /\ client'[s].tries = 0 /\ client'[s].h = client[s].h
<1>1. PICK c : c = [client[s] EXCEPT !.pc = "send", !.tries = 0]
  OBVIOUS
<1>2. client[s] \in Item /\ 0 \in 0..2
  BY DEF Clients
<1>3. c \in Item /\ c.pc = "send" /\ c.next = client[s].next /\ c.tries = 0 /\ c.h = client[s].h
  BY <1>1, <1>2 DEF Item
<1>4. client' = [client EXCEPT ![s] = c] /\ client[s].pc = "failed"
  BY <1>1 DEF Retry, Clients
<1>5. QED
  BY <1>3, <1>4, ItemReplaced

LEMMA ReplyItem ==
    ASSUME Clients, Requests, NEW h \in Handlers, Reply(h)
    PROVE  /\ Clients' /\ ItemsKept(req[h].s) /\ client[req[h].s] \in Item
           /\ client'[req[h].s] = IF client[req[h].s].h # h THEN client[req[h].s]
                                  ELSE IF req[h].pc = "ok" THEN Succeed(client[req[h].s])
                                  ELSE TryAgain(client[req[h].s])
<1>1. PICK s : s = req[h].s
  OBVIOUS
<1>2. s \in Sessions
  BY <1>1, ReplySteps
<1>3. client[s] \in Item /\ TryAgain(client[s]) \in Item /\ Succeed(client[s]) \in Item
  BY <1>2, TriesAgain, Succeeds DEF Clients
<1>4. CASE client[s].h # h
  <2>1. client' = client
    BY <1>1, <1>4 DEF Reply
  <2>2. QED
    BY <1>1, <1>3, <1>4, <2>1 DEF ItemsKept, Clients
<1>5. CASE client[s].h = h
  <2>1. PICK c : c = IF req[h].pc = "ok" THEN Succeed(client[s]) ELSE TryAgain(client[s])
    OBVIOUS
  <2>2. client' = [client EXCEPT ![s] = c]
    BY <1>1, <1>5, <2>1 DEF Reply, Clients
  <2>3. c \in Item
    BY <1>3, <2>1
  <2>4. QED
    BY <1>1, <1>2, <1>3, <1>5, <2>1, <2>2, <2>3, ItemReplaced
<1>6. QED
  BY <1>4, <1>5

LEMMA RestartItems ==
    ASSUME Clients, Restart
    PROVE  /\ Clients'
           /\ \A s \in Sessions : /\ client[s] \in Item
                                  /\ client'[s] = IF client[s].pc = "wait" THEN TryAgain(client[s])
                                                                           ELSE client[s]
<1>1. \A s \in Sessions : client[s] \in Item /\ TryAgain(client[s]) \in Item
  BY TriesAgain DEF Clients
<1>2. client' = [s \in Sessions |-> IF client[s].pc = "wait" THEN TryAgain(client[s]) ELSE client[s]]
  BY DEF Restart
<1>3. QED
  BY <1>1, <1>2 DEF Clients

-----------------------------------------------------------------------------
(* Types. *)

LEMMA AppendedIs ==
    ASSUME staged \in [Sessions -> Seq(PartSet) \cup {None}], NEW s \in Sessions, NEW p \in Seq(PartSet),
           Appended(s, p)
    PROVE  /\ staged' \in [Sessions -> Seq(PartSet) \cup {None}]
           /\ Bytes(s)' = Bytes(s) \o p /\ staged'[s] # None /\ staged'[s] = Bytes(s) \o p
           /\ \A t \in Sessions : t # s => staged'[t] = staged[t]
<1>1. Bytes(s) \in Seq(PartSet)
  BY DEF Bytes
<1>2. PICK q : q = Bytes(s) \o p
  OBVIOUS
<1>3. q \in Seq(PartSet)
  BY <1>1, <1>2
<1>4. q # None
  <2>1. PartSet \subseteq Nat
    BY Sizes DEF PartSet
  <2>2. q \in Seq(Nat)
    BY <1>3, <2>1, SeqMonotonic
  <2>3. QED
    BY <2>2, UploadAssumption
<1>5. staged' = [staged EXCEPT ![s] = q]
  BY <1>2 DEF Appended, Bytes
<1>6. QED
  BY <1>2, <1>3, <1>4, <1>5 DEF Bytes

\* The statements that append parts append some first parts of a chunk.
LEMMA FirstParts ==
    ASSUME NEW p \in Seq(PartSet), NEW n \in 0..Len(p)
    PROVE  SubSeq(p, 1, n) \in Seq(PartSet)
<1>1. Len(p) \in Nat /\ n \in Nat /\ n <= Len(p)
  OBVIOUS
<1>2. 1 \in Int /\ n \in Int /\ \A i \in 1..n : p[i] \in PartSet
  BY <1>1
<1>3. QED
  BY <1>2, SubSeqProperties

StoresTyped ==
    /\ session \in [Sessions -> {"none", "open", "deleted"}]
    /\ ledger \in [Sessions -> 1..Wrong \cup {None}]
    /\ saved \in [Sessions -> SUBSET PartSet]
    /\ file \in [Files -> Entry]
    /\ object \in [Files -> Seq(PartSet) \cup {None}]

StagedTyped == staged \in [Sessions -> Seq(PartSet) \cup {None}]

HistoriesTyped ==
    faults \in 0..MaxFaults /\ overlapped \subseteq Disk /\ unfollowed \subseteq Disk
    /\ ended \subseteq Disk /\ cut \subseteq Files

LEMMA TypedParts == Typed <=> Clients /\ Requests /\ StoresTyped /\ StagedTyped /\ HistoriesTyped
BY DEF Typed, Clients, Requests, StoresTyped, StagedTyped, HistoriesTyped

LEMMA Faulted ==
    ASSUME faults \in 0..MaxFaults, Fault
    PROVE  faults' \in 0..MaxFaults /\ faults' = faults + 1
BY UploadAssumption DEF Fault

\* The entry of the ledger after a chunk.
LEMMA Entered ==
    ASSUME NEW e \in 1..Wrong \cup {None}, NEW k \in 0..Chunks, k < Chunks
    PROVE  /\ Hashed(e, k) \in 1..Wrong /\ Hashed(e, k) # None
           /\ Hashed(e, k) \in 1..Chunks => Hashed(e, k) = k + 1 /\ (e = k \/ (e = None /\ k = 0))
           /\ e = k \/ (e = None /\ k = 0) => Hashed(e, k) = k + 1
<1>1. Chunks \in Nat \ {0}
  BY Sizes
<1>2. Wrong = Chunks + 1
  BY DEF Wrong
<1>3. CASE e = k \/ (e = None /\ k = 0)
  <2>1. Hashed(e, k) = k + 1
    BY <1>3 DEF Hashed
  <2>2. k + 1 \in 1..Wrong
    BY <1>1, <1>2
  <2>3. QED
    BY <1>3, <2>1, <2>2, UploadAssumption
<1>4. CASE ~(e = k \/ (e = None /\ k = 0))
  <2>1. Hashed(e, k) = Wrong
    BY <1>4 DEF Hashed
  <2>2. Wrong \in 1..Wrong /\ Wrong \notin 1..Chunks
    BY <1>1, <1>2
  <2>3. QED
    BY <1>4, <2>1, <2>2, UploadAssumption
<1>5. QED
  BY <1>3, <1>4

LEMMA NothingIs == NoFile \in Entry /\ NoFile.st = "none" /\ NoFile.path = "none"
BY DEF NoFile, Entry

\* DeleteFile and SetFileStorage.
LEMMA DeletedIs ==
    ASSUME file \in [Files -> Entry], NEW f \in Files, Deleted(f)
    PROVE  /\ file' \in [Files -> Entry] /\ \A g \in Files : g # f => file'[g] = file[g]
           /\ IF f \in Rows THEN file'[f].st = "gone" /\ file'[f].path = "none"
                            ELSE file'[f] = file[f]
<1>1. PICK e : e = [NoFile EXCEPT !.st = "gone"]
  OBVIOUS
<1>2. e \in Entry /\ e.st = "gone" /\ e.path = "none"
  BY <1>1 DEF NoFile, Entry
<1>3. PICK d : d = IF f \in Rows THEN e ELSE file[f]
  OBVIOUS
<1>4. d \in Entry
  BY <1>2, <1>3
<1>5. file' = [file EXCEPT ![f] = d]
  BY <1>1, <1>3 DEF Deleted
<1>6. QED
  BY <1>2, <1>3, <1>4, <1>5

LEMMA CreatedIs ==
    ASSUME file \in [Files -> Entry], Requests, NEW h \in Handlers, NEW f \in Files, Create(h, f)
    PROVE  /\ file' \in [Files -> Entry] /\ \A g \in Files : g # f => file'[g] = file[g]
           /\ file[f].st = "none" /\ file'[f].st = "row" /\ file'[f].s = req[h].s
           /\ file'[f].sha = req[h].sha /\ file'[f].parts = req[h].parts /\ file'[f].path # "object"
<1>1. req[h] \in Call /\ req[h].s \in Sessions
  BY CreateSteps
<1>2. PICK p : p = IF req[h].s \in Disk THEN "staging" ELSE "none"
  OBVIOUS
<1>3. PICK e : e = [st |-> "row", s |-> req[h].s, sha |-> req[h].sha, parts |-> req[h].parts, path |-> p]
  OBVIOUS
<1>4. e \in Entry /\ e.st = "row" /\ e.s = req[h].s /\ e.sha = req[h].sha /\ e.parts = req[h].parts /\ e.path = p
  BY <1>1, <1>2, <1>3 DEF Entry, Call
<1>5. file' = [file EXCEPT ![f] = e] /\ file[f].st = "none"
  BY <1>2, <1>3 DEF Create
<1>6. QED
  BY <1>2, <1>4, <1>5

LEMMA PointedIs ==
    ASSUME file \in [Files -> Entry], Requests, NEW h \in Handlers, Point(h)
    PROVE  /\ file' \in [Files -> Entry] /\ \A g \in Files : g # req[h].f => file'[g] = file[g]
           /\ req[h].f \in Files
           /\ file'[req[h].f].st = file[req[h].f].st /\ file'[req[h].f].s = file[req[h].f].s
           /\ file'[req[h].f].sha = file[req[h].f].sha /\ file'[req[h].f].parts = file[req[h].f].parts
           /\ file'[req[h].f].path = IF req[h].f \in Rows THEN "object" ELSE file[req[h].f].path
<1>1. PICK f \in Files : f = req[h].f
  BY PointMoves
<1>2. file[f] \in Entry
  BY <1>1
<1>3. PICK p : p = IF f \in Rows THEN "object" ELSE file[f].path
  OBVIOUS
<1>4. PICK e : e = [file[f] EXCEPT !.path = p]
  OBVIOUS
<1>5. p \in {"none", "staging", "object"}
  BY <1>2, <1>3 DEF Entry
<1>6. /\ e \in Entry /\ e.st = file[f].st /\ e.s = file[f].s /\ e.sha = file[f].sha
      /\ e.parts = file[f].parts /\ e.path = p
  BY <1>2, <1>4, <1>5 DEF Entry
<1>7. file' = [file EXCEPT ![f] = e]
  BY <1>1, <1>3, <1>4 DEF Point
<1>8. QED
  BY <1>1, <1>3, <1>6, <1>7

-----------------------------------------------------------------------------
(* The types are kept. *)

LEMMA TypedInit == Init => Typed
<1> SUFFICES ASSUME Init PROVE Typed
  OBVIOUS
<1>1. Clients
  <2>1. 0 \in 0..Chunks /\ 0 \in 0..2
    BY Sizes
  <2>2. NewItem \in Item
    BY <2>1 DEF NewItem, Item
  <2>3. QED
    BY <2>2 DEF Init, Clients
<1>2. Requests
  <2>1. req = [h \in Handlers |-> NoReq]
    BY DEF Init
  <2>2. Len(NoReq.todo) = 0 /\ ChunkParts \in Nat
    BY Nothing, Sizes
  <2>3. ASSUME NEW h \in Handlers PROVE Called(h)
    BY <2>1, <2>2, Nothing DEF Called
  <2>4. QED
    BY <2>1, <2>3, Nothing DEF Requests
<1>3. StoresTyped /\ StagedTyped
  BY NothingIs DEF Init, StoresTyped, StagedTyped
<1>4. HistoriesTyped
  BY UploadAssumption DEF Init, HistoriesTyped
<1>5. QED
  BY <1>1, <1>2, <1>3, <1>4, TypedParts

LEMMA ReqClientsStep ==
    ASSUME Typed, Next
    PROVE  Requests' /\ Clients'
<1>1. Requests /\ Clients /\ StoresTyped
  BY TypedParts
<1>2. ASSUME NEW s \in Sessions, OpenSession(s) PROVE Requests' /\ Clients'
  <2>1. req' = req
    BY <1>2 DEF OpenSession
  <2>2. Requests'
    BY <1>1, <2>1 DEF Requests, Called, ChunkCall, EndCall
  <2>3. QED
    BY <1>1, <1>2, <2>2, OpenSessionItem
<1>3. ASSUME NEW s \in Sessions, AnswerLost(s) PROVE Requests' /\ Clients'
  <2>1. req' = req
    BY <1>3 DEF AnswerLost
  <2>2. Requests'
    BY <1>1, <2>1 DEF Requests, Called, ChunkCall, EndCall
  <2>3. QED
    BY <1>1, <1>3, <2>2, AnswerLostItem
<1>4. ASSUME NEW s \in Sessions, Retry(s) PROVE Requests' /\ Clients'
  <2>1. req' = req
    BY <1>4 DEF Retry
  <2>2. Requests'
    BY <1>1, <2>1 DEF Requests, Called, ChunkCall, EndCall
  <2>3. QED
    BY <1>1, <1>4, <2>2, RetryItem
<1>5. ASSUME NEW s \in Sessions, NEW h \in Handlers, SendChunk(s, h) \/ SendComplete(s, h)
      PROVE  Requests' /\ Clients'
  BY <1>1, <1>5, RequestSteps, RequestItem
<1>6. ASSUME NEW h \in Handlers, Reply(h) PROVE Requests' /\ Clients'
  BY <1>1, <1>6, ReplySteps, ReplyItem
<1>7. ASSUME Restart PROVE Requests' /\ Clients'
  <2>1. req' = [h \in Handlers |-> NoReq]
    BY <1>7 DEF Restart
  <2>2. Len(NoReq.todo) = 0 /\ ChunkParts \in Nat
    BY Nothing, Sizes
  <2>3. ASSUME NEW h \in Handlers PROVE Called(h)'
    BY <2>1, <2>2, Nothing DEF Called
  <2>4. Requests'
    BY <2>1, <2>3, Nothing DEF Requests
  <2>5. QED
    BY <1>1, <1>7, <2>4, RestartItems
<1>8. ASSUME NEW h \in Handlers,
             \/ ChunkHash(h) \/ PartSave(h) \/ PartsSaved(h) \/ SaveFails(h)
             \/ ChunkStat(h) \/ ChunkAppend(h) \/ ShortWrite(h)
             \/ TakeHash(h) \/ Commit(h) \/ CommitFails(h) \/ CheckStaged(h) \/ Find(h)
             \/ DropObject(h) \/ DeleteOld(h) \/ (\E f \in Files : Create(h, f))
             \/ Rename(h) \/ Undo(h) \/ Point(h) \/ CloseSession(h) \/ (\E f \in Files : Purge(h, f))
      PROVE  Requests' /\ Clients'
  <2>1. client' = client
    BY <1>8 DEF ChunkHash, PartSave, PartsSaved, SaveFails, ChunkStat, ChunkAppend, ShortWrite, TakeHash,
                Commit, CommitFails, CheckStaged, Find, DropObject, DeleteOld, Create, Rename, Undo,
                Point, CloseSession, Purge, ChunkOnly, FinishOnly
  <2>2. Clients'
    BY <1>1, <2>1 DEF Clients
  <2>3. CASE \/ ChunkHash(h) \/ PartSave(h) \/ PartsSaved(h) \/ SaveFails(h)
             \/ ChunkStat(h) \/ ChunkAppend(h) \/ ShortWrite(h)
    BY <1>1, <2>3, <2>2, ChunkHashSteps, PartSaveSteps, PartsSavedMoves, SaveFailsMoves,
       ChunkStatMoves, ChunkAppendMoves, ShortWriteMoves DEF ChunkMoves, Moves
  <2>4. CASE TakeHash(h) \/ Commit(h) \/ CommitFails(h) \/ CheckStaged(h) \/ Find(h) \/ DropObject(h)
    <3>1. saved \in [Sessions -> SUBSET PartSet]
      BY <1>1 DEF StoresTyped
    <3>2. QED
      BY <1>1, <2>4, <2>2, <3>1, TakeHashSteps, CommitSteps, CommitFailsMoves, CheckStagedMoves,
         FindSteps, DropObjectMoves DEF EndMoves, Moves
  <2>5. CASE \/ DeleteOld(h) \/ (\E f \in Files : Create(h, f))
             \/ Rename(h) \/ Undo(h) \/ Point(h) \/ CloseSession(h) \/ (\E f \in Files : Purge(h, f))
    BY <1>1, <2>5, <2>2, DeleteOldSteps, CreateSteps, RenameMoves, UndoMoves, PointMoves, CloseMoves,
       PurgeSteps DEF EndMoves, Moves
  <2>6. QED
    BY <1>8, <2>3, <2>4, <2>5
<1>9. QED
  BY <1>2, <1>3, <1>4, <1>5, <1>6, <1>7, <1>8 DEF Next, Browser, Handle

\* What the steps of the requests leave alone.
LEMMA StoresStep ==
    ASSUME Typed, Next
    PROVE  StoresTyped'
<1>1. Requests /\ Clients /\ StoresTyped /\ StagedTyped
  BY TypedParts
<1>2. /\ session \in [Sessions -> {"none", "open", "deleted"}]
      /\ ledger \in [Sessions -> 1..Wrong \cup {None}]
      /\ saved \in [Sessions -> SUBSET PartSet]
      /\ file \in [Files -> Entry]
      /\ object \in [Files -> Seq(PartSet) \cup {None}]
      /\ staged \in [Sessions -> Seq(PartSet) \cup {None}]
  BY <1>1 DEF StoresTyped, StagedTyped
<1>3. CASE UNCHANGED <<session, Stores>>
  BY <1>2, <1>3 DEF StoresTyped, Stores
<1>4. ASSUME NEW s \in Sessions, Browser(s) PROVE StoresTyped'
  <2>1. CASE OpenSession(s)
    <3>1. session' = [session EXCEPT ![s] = "open"] /\ UNCHANGED Stores
      BY <2>1 DEF OpenSession
    <3>2. QED
      BY <1>2, <3>1 DEF StoresTyped, Stores
  <2>2. CASE ~OpenSession(s)
    <3>1. UNCHANGED <<session, Stores>>
      BY <1>4, <2>2 DEF Browser, AnswerLost, Retry, SendChunk, SendComplete, Request
    <3>2. QED
      BY <1>3, <3>1
  <2>3. QED
    BY <2>1, <2>2
<1>5. ASSUME NEW h \in Handlers,
             \/ PartsSaved(h) \/ SaveFails(h) \/ ChunkStat(h) \/ ChunkAppend(h) \/ ShortWrite(h)
             \/ Commit(h) \/ CommitFails(h) \/ CheckStaged(h) \/ Find(h) \/ Reply(h)
             \/ (\E f \in Files : Purge(h, f))
      PROVE  StoresTyped'
  <2>1. UNCHANGED <<session, ledger, saved, file, object>>
    BY <1>5 DEF PartsSaved, SaveFails, ChunkStat, ChunkAppend, ShortWrite, Commit, CommitFails,
                CheckStaged, Find, Reply, Purge, ChunkOnly, FinishOnly, Stores
  <2>2. QED
    BY <1>2, <2>1 DEF StoresTyped
<1>6. ASSUME NEW h \in Handlers, ChunkHash(h) PROVE StoresTyped'
  <2>1. PICK s \in Sessions : s = req[h].s
    BY <1>1, <1>6, ChunkHashSteps
  <2>2. req[h].k \in 0..Chunks /\ req[h].k < Chunks /\ ledger[s] \in 1..Wrong \cup {None}
    BY <1>1, <1>2, <1>6, <2>1, WhatItIs DEF ChunkHash, Requests, Called, ChunkCall, Call
  <2>3. PICK e \in 1..Wrong : e = Hashed(ledger[s], req[h].k)
    BY <2>2, Entered
  <2>4. PICK swept \in SUBSET Sessions :
          ledger' = [t \in Sessions |-> IF t = s THEN e ELSE IF t \in swept THEN None ELSE ledger[t]]
    BY <1>6, <2>1, <2>3 DEF ChunkHash
  <2>5. ledger' \in [Sessions -> 1..Wrong \cup {None}]
    BY <1>2, <2>4
  <2>6. UNCHANGED <<session, saved, file, object>>
    BY <1>6 DEF ChunkHash
  <2>7. QED
    BY <1>2, <2>5, <2>6 DEF StoresTyped
<1>7. ASSUME NEW h \in Handlers, PartSave(h) PROVE StoresTyped'
  <2>1. PICK s \in Sessions : s = req[h].s
    BY <1>1, <1>7, PartSaveSteps
  <2>2. Head(req[h].todo) \in PartSet
    BY <1>1, <1>7, PartSaveSteps, HeadTailProperties
  <2>3. saved' = [saved EXCEPT ![s] = @ \cup {Head(req[h].todo)}]
    BY <1>7, <2>1 DEF PartSave
  <2>4. saved' \in [Sessions -> SUBSET PartSet]
    BY <1>2, <2>1, <2>2, <2>3
  <2>5. UNCHANGED <<session, ledger, file, object>>
    BY <1>7 DEF PartSave, ChunkOnly
  <2>6. QED
    BY <1>2, <2>4, <2>5 DEF StoresTyped
<1>8. ASSUME NEW h \in Handlers, TakeHash(h) PROVE StoresTyped'
  <2>1. ledger' = [ledger EXCEPT ![req[h].s] = None] /\ UNCHANGED <<session, saved, file, object>>
    BY <1>8 DEF TakeHash
  <2>2. QED
    BY <1>2, <2>1 DEF StoresTyped
<1>9. ASSUME NEW h \in Handlers, DropObject(h) PROVE StoresTyped'
  <2>1. /\ object' = [f \in Files |-> IF f = req[h].obj THEN None ELSE object[f]]
        /\ UNCHANGED <<session, ledger, saved, file>>
    BY <1>9 DEF DropObject, FinishOnly
  <2>2. QED
    BY <1>2, <2>1 DEF StoresTyped
<1>10. ASSUME NEW h \in Handlers, DeleteOld(h) \/ Undo(h) \/ Point(h) \/ \E f \in Files : Create(h, f)
       PROVE  StoresTyped'
  <2>1. file' \in [Files -> Entry]
    <3>1. CASE DeleteOld(h)
      BY <1>1, <1>2, <3>1, DeletedIs, DeleteOldSteps DEF DeleteOld
    <3>2. CASE Undo(h)
      BY <1>1, <1>2, <3>2, DeletedIs, UndoMoves DEF Undo
    <3>3. CASE Point(h)
      BY <1>1, <1>2, <3>3, PointedIs
    <3>4. CASE \E f \in Files : Create(h, f)
      BY <1>1, <1>2, <3>4, CreatedIs
    <3>5. QED
      BY <1>10, <3>1, <3>2, <3>3, <3>4
  <2>2. UNCHANGED <<session, ledger, saved, object>>
    BY <1>10 DEF DeleteOld, Undo, Point, Create, FinishOnly
  <2>3. QED
    BY <1>2, <2>1, <2>2 DEF StoresTyped
<1>11. ASSUME NEW h \in Handlers, Rename(h) PROVE StoresTyped'
  <2>1. PICK s \in Sessions : s = req[h].s
    BY <1>1, <1>11, RenameMoves DEF EndMoves
  <2>2. object' \in [Files -> Seq(PartSet) \cup {None}]
    <3>1. CASE staged[s] = None
      BY <1>2, <1>11, <2>1, <3>1 DEF Rename
    <3>2. CASE staged[s] # None
      <4>1. object' = [object EXCEPT ![req[h].f] = staged[s]]
        BY <1>11, <2>1, <3>2 DEF Rename
      <4>2. staged[s] \in Seq(PartSet)
        BY <1>2, <3>2
      <4>3. QED
        BY <1>2, <4>1, <4>2
    <3>3. QED
      BY <3>1, <3>2
  <2>3. UNCHANGED <<session, ledger, saved, file>>
    BY <1>11 DEF Rename, FinishOnly
  <2>4. QED
    BY <1>2, <2>2, <2>3 DEF StoresTyped
<1>12. ASSUME NEW h \in Handlers, CloseSession(h) PROVE StoresTyped'
  <2>1. session' = [session EXCEPT ![req[h].s] = "deleted"] /\ UNCHANGED <<ledger, saved, file, object>>
    BY <1>12 DEF CloseSession, FinishOnly
  <2>2. QED
    BY <1>2, <2>1 DEF StoresTyped
<1>13. CASE Restart
  <2>1. ledger' = [s \in Sessions |-> None] /\ UNCHANGED <<session, saved, file, object>>
    BY <1>13 DEF Restart
  <2>2. QED
    BY <1>2, <2>1 DEF StoresTyped
<1>14. QED
  BY <1>4, <1>5, <1>6, <1>7, <1>8, <1>9, <1>10, <1>11, <1>12, <1>13 DEF Next, Handle

LEMMA StagedStep ==
    ASSUME Typed, Next
    PROVE  StagedTyped'
<1>1. Requests /\ Clients /\ StoresTyped /\ StagedTyped
  BY TypedParts
<1>2. staged \in [Sessions -> Seq(PartSet) \cup {None}]
  BY <1>1 DEF StagedTyped
<1>3. CASE UNCHANGED staged
  BY <1>2, <1>3 DEF StagedTyped
<1>4. ASSUME NEW s \in Sessions, staged' = [staged EXCEPT ![s] = None] PROVE StagedTyped'
  BY <1>2, <1>4 DEF StagedTyped
<1>5. ASSUME NEW h \in Handlers, req[h].pc = "append"
      PROVE  /\ req[h].s \in Sessions /\ req[h].todo \in Seq(PartSet)
             /\ \A n \in 0..(Len(req[h].todo) - 1) : SubSeq(req[h].todo, 1, n) \in Seq(PartSet)
  <2>1. req[h].s \in Sessions /\ req[h].todo \in Seq(PartSet)
    BY <1>1, <1>5, WhatItIs DEF ChunkCall, Call
  <2>2. ASSUME NEW n \in 0..(Len(req[h].todo) - 1) PROVE n \in 0..Len(req[h].todo)
    BY <2>1
  <2>3. QED
    BY <2>1, <2>2, FirstParts
<1>6. ASSUME NEW h \in Handlers, ChunkAppend(h) PROVE StagedTyped'
  <2>1. Appended(req[h].s, req[h].todo) /\ req[h].pc = "append"
    BY <1>6 DEF ChunkAppend
  <2>2. QED
    BY <1>2, <1>5, <2>1, AppendedIs DEF StagedTyped
<1>7. ASSUME NEW h \in Handlers, ShortWrite(h) PROVE StagedTyped'
  <2>1. req[h].pc = "append" /\ \E n \in 0..(Len(req[h].todo) - 1) : Appended(req[h].s, SubSeq(req[h].todo, 1, n))
    BY <1>7 DEF ShortWrite
  <2>2. QED
    BY <1>2, <1>5, <2>1, AppendedIs DEF StagedTyped
<1>8. CASE Restart
  <2>1. ASSUME NEW h \in Handlers, NEW n \in 1..(Len(req[h].todo) - 1), req[h].pc = "append",
               Appended(req[h].s, SubSeq(req[h].todo, 1, n))
        PROVE  StagedTyped'
    <3>1. n \in 0..(Len(req[h].todo) - 1)
      OBVIOUS
    <3>2. QED
      BY <1>2, <1>5, <2>1, <3>1, AppendedIs DEF StagedTyped
  <2>2. QED
    BY <1>3, <1>8, <2>1 DEF Restart
<1>9. ASSUME NEW h \in Handlers, CheckStaged(h) PROVE StagedTyped'
  BY <1>1, <1>3, <1>4, <1>9, CheckStagedMoves DEF CheckStaged, EndMoves
<1>10. ASSUME NEW h \in Handlers, Rename(h) PROVE StagedTyped'
  BY <1>1, <1>3, <1>4, <1>10, RenameMoves DEF Rename, EndMoves
<1>11. ASSUME NEW h \in Handlers,
             \/ ChunkHash(h) \/ PartSave(h) \/ PartsSaved(h) \/ SaveFails(h) \/ ChunkStat(h)
             \/ TakeHash(h) \/ Commit(h) \/ CommitFails(h) \/ Find(h) \/ DropObject(h) \/ DeleteOld(h)
             \/ (\E f \in Files : Create(h, f)) \/ Undo(h) \/ Point(h) \/ CloseSession(h) \/ Reply(h)
             \/ (\E f \in Files : Purge(h, f))
      PROVE  UNCHANGED staged
  BY <1>11 DEF ChunkHash, PartSave, PartsSaved, SaveFails, ChunkStat, TakeHash, Commit, CommitFails, Find,
               DropObject, DeleteOld, Create, Undo, Point, CloseSession, Reply, Purge, Stores
<1>12. ASSUME NEW s \in Sessions, Browser(s) PROVE UNCHANGED staged
  BY <1>12 DEF Browser, OpenSession, AnswerLost, Retry, SendChunk, SendComplete, Request, Stores
<1>13. QED
  BY <1>3, <1>6, <1>7, <1>8, <1>9, <1>10, <1>11, <1>12 DEF Next, Handle

LEMMA HistoriesStep ==
    ASSUME Typed, Next
    PROVE  HistoriesTyped'
<1>1. Requests /\ Clients /\ HistoriesTyped
  BY TypedParts
<1>2. /\ faults \in 0..MaxFaults /\ overlapped \subseteq Disk /\ unfollowed \subseteq Disk
      /\ ended \subseteq Disk /\ cut \subseteq Files
  BY <1>1 DEF HistoriesTyped
<1>3. ASSUME UNCHANGED faults \/ Fault PROVE faults' \in 0..MaxFaults
  BY <1>2, <1>3, Faulted
<1>4. ASSUME UNCHANGED faults \/ Fault, UNCHANGED histories PROVE HistoriesTyped'
  <2>1. faults' \in 0..MaxFaults
    BY <1>3, <1>4
  <2>2. QED
    BY <1>2, <1>4, <2>1 DEF histories, HistoriesTyped
<1>5. ASSUME NEW s \in Sessions, OpenSession(s) \/ AnswerLost(s) \/ Retry(s) PROVE HistoriesTyped'
  BY <1>4, <1>5 DEF OpenSession, AnswerLost, Retry
<1>6. ASSUME NEW s \in Sessions, NEW h \in Handlers, SendChunk(s, h) \/ SendComplete(s, h)
      PROVE  HistoriesTyped'
  <2>1. UNCHANGED <<faults, unfollowed, ended, cut>> /\ overlapped' \subseteq Disk
    BY <1>2, <1>6 DEF SendChunk, SendComplete, Request
  <2>2. QED
    BY <1>2, <2>1 DEF HistoriesTyped
<1>7. ASSUME NEW h \in Handlers,
             \/ PartSave(h) \/ PartsSaved(h) \/ SaveFails(h) \/ ChunkStat(h) \/ ChunkAppend(h)
             \/ Commit(h) \/ CommitFails(h) \/ CheckStaged(h) \/ Find(h) \/ DropObject(h) \/ DeleteOld(h)
             \/ (\E f \in Files : Create(h, f)) \/ Rename(h) \/ Undo(h) \/ Point(h) \/ CloseSession(h)
             \/ Reply(h) \/ (\E f \in Files : Purge(h, f))
      PROVE  HistoriesTyped'
  <2>1. (UNCHANGED faults \/ Fault) /\ UNCHANGED histories
    BY <1>7 DEF PartSave, PartsSaved, SaveFails, ChunkStat, ChunkAppend, Commit, CommitFails, CheckStaged,
                Find, DropObject, DeleteOld, Create, Rename, Undo, Point, CloseSession, Reply, Purge, FinishOnly
  <2>2. QED
    BY <1>4, <2>1
<1>8. ASSUME NEW h \in Handlers, ChunkHash(h) PROVE HistoriesTyped'
  <2>1. \E swept : unfollowed' = unfollowed \cup (swept \cap overlapped)
    BY <1>8 DEF ChunkHash
  <2>2. UNCHANGED <<faults, overlapped, ended, cut>>
    BY <1>8 DEF ChunkHash
  <2>3. unfollowed' \subseteq Disk
    BY <1>2, <2>1
  <2>4. QED
    BY <1>2, <2>2, <2>3 DEF HistoriesTyped
<1>9. ASSUME NEW h \in Handlers, ShortWrite(h) PROVE HistoriesTyped'
  <2>1. Fault /\ unfollowed' = unfollowed \cup {req[h].s} /\ UNCHANGED <<overlapped, ended, cut>>
    BY <1>9 DEF ShortWrite
  <2>2. req[h].s \in Disk
    BY <1>1, <1>9, ShortWriteMoves
  <2>3. faults' \in 0..MaxFaults
    BY <1>3, <2>1
  <2>4. unfollowed' \subseteq Disk
    BY <1>2, <2>1, <2>2
  <2>5. QED
    BY <1>2, <2>1, <2>3, <2>4 DEF HistoriesTyped
<1>10. ASSUME NEW h \in Handlers, TakeHash(h) PROVE HistoriesTyped'
  <2>1. /\ ended' = ended \cup ({req[h].s} \cap Disk)
        /\ unfollowed' = unfollowed \cup ({req[h].s} \cap ended \cap overlapped)
        /\ UNCHANGED <<faults, overlapped, cut>>
    BY <1>10 DEF TakeHash
  <2>2. QED
    BY <1>2, <2>1 DEF HistoriesTyped
<1>11. CASE Restart
  <2>1. ASSUME NEW h \in Handlers PROVE Touched(h) \subseteq Files
    <3>1. Called(h)
      BY <1>1 DEF Requests
    <3>2. QED
      BY <3>1 DEF Called, Touched
  <2>2. cut' \subseteq Files
    <3>1. cut' = cut \cup UNION {Touched(h) : h \in Handlers}
      BY <1>11 DEF Restart
    <3>2. QED
      BY <1>2, <2>1, <3>1
  <2>3. ASSUME NEW h \in Handlers, req[h].pc = "append" PROVE req[h].s \in Disk
    BY <1>1, <2>3, WhatItIs DEF ChunkCall
  <2>4. unfollowed' \subseteq Disk
    <3>1. \/ unfollowed' = unfollowed \cup overlapped
          \/ \E h \in Handlers : req[h].pc = "append" /\ unfollowed' = unfollowed \cup overlapped \cup {req[h].s}
      BY <1>11 DEF Restart
    <3>2. QED
      BY <1>2, <2>3, <3>1
  <2>5. faults' \in 0..MaxFaults /\ UNCHANGED <<overlapped, ended>>
    BY <1>3, <1>11 DEF Restart
  <2>6. QED
    BY <1>2, <2>2, <2>4, <2>5 DEF HistoriesTyped
<1>12. QED
  BY <1>5, <1>6, <1>7, <1>8, <1>9, <1>10, <1>11 DEF Next, Browser, Handle

\* The types are kept.
LEMMA TypedStep == ASSUME Typed, Next PROVE Typed'
<1>1. Requests' /\ Clients' /\ StoresTyped' /\ StagedTyped' /\ HistoriesTyped'
  BY ReqClientsStep, StoresStep, StagedStep, HistoriesStep
<1>2. QED
  BY <1>1 DEF Typed, Clients, Requests, StoresTyped, StagedTyped, HistoriesTyped

-----------------------------------------------------------------------------
(* A browser and the requests of its upload. *)

LEMMA BrowsingInit == Init => Browsing
<1> SUFFICES ASSUME Init PROVE Browsing
  OBVIOUS
<1>1. /\ \A s \in Sessions : session[s] = "none" /\ client[s] = NewItem /\ ledger[s] = None /\ staged[s] = None
      /\ \A h \in Handlers : req[h] = NoReq
  BY DEF Init
<1>2. /\ NewItem.pc = "new" /\ NewItem.next = 0 /\ NewItem.tries = 0 /\ NewItem.h = None
      /\ NoReq.op = "none" /\ NoReq.s = None
  BY DEF NewItem, NoReq
<1>3. None \notin Sessions
  BY UploadAssumption
<1>4. QED
  BY <1>1, <1>2, <1>3 DEF Browsing, Unopened, Waits, Opened, Follows

\* What is not opened has neither an entry nor a staging file.
Untouched == \A s \in Sessions : session[s] = "none" => ledger'[s] = None /\ staged'[s] = None

\* A step of a request that stays for the same chunk.
LEMMA BrowsingKept ==
    ASSUME Browsing, UNCHANGED <<session, client>>, Untouched, NEW h \in Handlers, CallerKept(h), Others(h)
    PROVE  Browsing'
<1>1. \A g \in Handlers : req'[g].op = req[g].op /\ req'[g].s = req[g].s /\ req'[g].k = req[g].k
  BY DEF CallerKept, Others
<1>2. ASSUME NEW s \in Sessions PROVE (Unopened(s) /\ Waits(s) /\ Opened(s))'
  <2>1. Unopened(s) /\ Waits(s) /\ Opened(s)
    BY DEF Browsing
  <2>2. Unopened(s)'
    BY <1>1, <2>1 DEF Unopened, Untouched
  <2>3. Waits(s)'
    BY <1>1, <2>1 DEF Waits
  <2>4. Opened(s)'
    BY <2>1 DEF Opened
  <2>5. QED
    BY <2>2, <2>3, <2>4
<1>3. ASSUME NEW g \in Handlers PROVE Follows(g)'
  <2>1. Follows(g)
    BY DEF Browsing
  <2>2. QED
    BY <1>1, <2>1 DEF Follows
<1>4. QED
  BY <1>2, <1>3 DEF Browsing

\* A step of a purge.
LEMMA BrowsingApart ==
    ASSUME Browsing, UNCHANGED <<session, client>>, Untouched, NEW h \in Handlers, Others(h),
           req[h].s = None, req'[h].s = None, req'[h].op \in {"none", "purge"}
    PROVE  Browsing'
<1>1. None \notin Sessions
  BY UploadAssumption
<1>2. ASSUME NEW s \in Sessions PROVE (Unopened(s) /\ Waits(s) /\ Opened(s))'
  <2>1. Unopened(s) /\ Waits(s) /\ Opened(s)
    BY DEF Browsing
  <2>2. Unopened(s)'
    BY <1>1, <2>1 DEF Unopened, Untouched, Others
  <2>3. Waits(s)'
    BY <1>1, <2>1 DEF Waits, Others
  <2>4. Opened(s)'
    BY <2>1 DEF Opened
  <2>5. QED
    BY <2>2, <2>3, <2>4
<1>3. ASSUME NEW g \in Handlers PROVE Follows(g)'
  <2>1. Follows(g)
    BY DEF Browsing
  <2>2. QED
    BY <1>1, <2>1 DEF Follows, Others
<1>4. QED
  BY <1>2, <1>3 DEF Browsing

\* A request belongs to an opened upload.
LEMMA Belongs ==
    ASSUME Browsing, NEW h \in Handlers, req[h].s \in Sessions
    PROVE  session[req[h].s] # "none" /\ client[req[h].s].pc # "new"
<1>1. Unopened(req[h].s) /\ Opened(req[h].s)
  BY DEF Browsing
<1>2. QED
  BY <1>1 DEF Unopened, Opened

LEMMA BrowsingOpens ==
    ASSUME Typed, Browsing, NEW s \in Sessions, OpenSession(s)
    PROVE  Browsing'
<1>1. Clients /\ StoresTyped
  BY TypedParts
<1>2. /\ ItemsKept(s) /\ client[s].pc = "new"
      /\ client'[s].pc = "send" /\ client'[s].next = client[s].next /\ client'[s].h = client[s].h
  BY <1>1, OpenSessionItem
<1>3. session' = [session EXCEPT ![s] = "open"] /\ UNCHANGED <<req, ledger, staged>>
  BY DEF OpenSession, Stores
<1>4. session'[s] = "open" /\ \A t \in Sessions : t # s => session'[t] = session[t]
  BY <1>1, <1>3 DEF StoresTyped
<1>5. ASSUME NEW t \in Sessions PROVE (Unopened(t) /\ Waits(t) /\ Opened(t))'
  <2>1. Unopened(t) /\ Waits(t) /\ Opened(t)
    BY DEF Browsing
  <2>2. CASE t = s
    <3>1. Unopened(t)' /\ Opened(t)'
      BY <1>2, <1>4, <2>2 DEF Unopened, Opened
    <3>2. Waits(t)'
      BY <1>2, <2>1, <2>2 DEF Waits
    <3>3. QED
      BY <3>1, <3>2
  <2>3. CASE t # s
    <3>1. client'[t] = client[t] /\ session'[t] = session[t]
      BY <1>2, <1>4, <2>3 DEF ItemsKept
    <3>2. QED
      BY <1>3, <2>1, <3>1 DEF Unopened, Waits, Opened
  <2>4. QED
    BY <2>2, <2>3
<1>6. ASSUME NEW g \in Handlers PROVE Follows(g)'
  <2>1. Follows(g) /\ req'[g] = req[g]
    BY <1>3 DEF Browsing
  <2>2. CASE req[g].s \in Sessions
    <3>1. client'[req[g].s] = client[req[g].s]
      BY <1>2, <2>2, Belongs DEF ItemsKept
    <3>2. QED
      BY <2>1, <3>1 DEF Follows
  <2>3. CASE req[g].s \notin Sessions
    <3>1. req[g].op \notin {"chunk", "complete"}
      BY <2>3, TypedParts DEF Requests, Called, ChunkCall, EndCall
    <3>2. QED
      BY <2>1, <3>1 DEF Follows
  <2>4. QED
    BY <2>2, <2>3
<1>7. QED
  BY <1>5, <1>6 DEF Browsing

\* An item that gives up waiting, or starts again.
LEMMA BrowsingItem ==
    ASSUME Typed, Browsing, NEW s \in Sessions, AnswerLost(s) \/ Retry(s)
    PROVE  Browsing'
<1>1. Clients
  BY TypedParts
<1>2. /\ ItemsKept(s) /\ client[s].pc \in {"wait", "failed"}
      /\ client'[s].pc \in {"send", "failed"} /\ client'[s].next = client[s].next /\ client'[s].h = None
  <2>1. CASE AnswerLost(s)
    BY <1>1, <2>1, AnswerLostItem, TriesAgain
  <2>2. CASE Retry(s)
    <3>1. client[s].pc = "failed" /\ Waits(s)
      BY <1>1, <2>2, RetryItem DEF Browsing
    <3>2. client[s].h = None
      BY <3>1 DEF Waits
    <3>3. QED
      BY <1>1, <2>2, <3>2, RetryItem
  <2>3. QED
    BY <2>1, <2>2
<1>3. UNCHANGED <<session, req, ledger, staged>>
  BY DEF AnswerLost, Retry, Stores
<1>4. ASSUME NEW t \in Sessions PROVE (Unopened(t) /\ Waits(t) /\ Opened(t))'
  <2>1. Unopened(t) /\ Waits(t) /\ Opened(t)
    BY DEF Browsing
  <2>2. CASE t = s
    BY <1>2, <1>3, <2>1, <2>2 DEF Unopened, Opened, Waits
  <2>3. CASE t # s
    <3>1. client'[t] = client[t]
      BY <1>2, <2>3 DEF ItemsKept
    <3>2. QED
      BY <1>3, <2>1, <3>1 DEF Unopened, Waits, Opened
  <2>4. QED
    BY <2>2, <2>3
<1>5. ASSUME NEW g \in Handlers PROVE Follows(g)'
  <2>1. Follows(g) /\ req'[g] = req[g]
    BY <1>3 DEF Browsing
  <2>2. CASE req[g].s \in Sessions
    <3>1. client'[req[g].s].next = client[req[g].s].next
      BY <1>2, <2>2 DEF ItemsKept
    <3>2. QED
      BY <2>1, <3>1 DEF Follows
  <2>3. CASE req[g].s \notin Sessions
    <3>1. req[g].op \notin {"chunk", "complete"}
      BY <2>3, TypedParts DEF Requests, Called, ChunkCall, EndCall
    <3>2. QED
      BY <2>1, <3>1 DEF Follows
  <2>4. QED
    BY <2>2, <2>3
<1>6. QED
  BY <1>4, <1>5 DEF Browsing

\* A request that has not moved, when no item has gone back.
LEMMA FollowsKept ==
    ASSUME Typed, Browsing, NEW g \in Handlers, req'[g] = req[g], Clients',
           \A t \in Sessions : client'[t].next >= client[t].next
    PROVE  Follows(g)'
<1>1. Follows(g) /\ Requests /\ Clients
  BY TypedParts DEF Browsing
<1>2. CASE req[g].s \in Sessions
  <2>1. PICK t \in Sessions : t = req[g].s
    BY <1>2
  <2>2. client[t].next \in 0..Chunks /\ client'[t].next \in 0..Chunks /\ client'[t].next >= client[t].next
    BY <1>1 DEF Clients, Item
  <2>3. req[g].k \in 0..Chunks
    BY <1>1 DEF Requests, Call
  <2>4. Chunks \in Nat
    BY Sizes
  <2>5. QED
    BY <1>1, <2>1, <2>2, <2>3, <2>4 DEF Follows
<1>3. CASE req[g].s \notin Sessions
  <2>1. req[g].op \notin {"chunk", "complete"}
    BY <1>1, <1>3 DEF Requests, Called, ChunkCall, EndCall
  <2>2. QED
    BY <2>1 DEF Follows
<1>4. QED
  BY <1>2, <1>3

LEMMA BrowsingAsks ==
    ASSUME Typed, Browsing, NEW s \in Sessions, NEW h \in Handlers, SendChunk(s, h) \/ SendComplete(s, h)
    PROVE  Browsing'
<1>1. Clients /\ Requests
  BY TypedParts
<1>2. /\ Others(h) /\ req[h] = NoReq
      /\ client[s].pc = "send" /\ client[s].next \in 0..Chunks
      /\ req'[h].op = (IF client[s].next < Chunks THEN "chunk" ELSE "complete")
      /\ req'[h].s = s /\ req'[h].k = client[s].next
  BY <1>1, RequestSteps
<1>3. /\ Clients' /\ ItemsKept(s) /\ client'[s].pc = "wait" /\ client'[s].next = client[s].next
      /\ client'[s].h = h
  BY <1>1, RequestItem
<1>4. UNCHANGED <<session, ledger, staged>>
  BY DEF SendChunk, SendComplete, Request, Stores
<1>5. req[h].s = None /\ None \notin Sessions
  BY <1>2, Nothing, UploadAssumption
<1>6. Unopened(s) /\ Waits(s) /\ Opened(s)
  BY DEF Browsing
<1>7. session[s] # "none"
  BY <1>2, <1>6 DEF Unopened
<1>8. ASSUME NEW t \in Sessions PROVE (Unopened(t) /\ Waits(t) /\ Opened(t))'
  <2>1. Unopened(t) /\ Waits(t) /\ Opened(t)
    BY DEF Browsing
  <2>2. CASE t = s
    <3>1. Unopened(t)'
      BY <1>4, <1>7, <2>2 DEF Unopened
    <3>2. Waits(t)'
      BY <1>2, <1>3, <2>2 DEF Waits
    <3>3. Opened(t)'
      BY <1>2, <1>3, <1>4, <1>6, <2>2 DEF Opened
    <3>4. QED
      BY <3>1, <3>2, <3>3
  <2>3. CASE t # s
    <3>1. client'[t] = client[t]
      BY <1>3, <2>3 DEF ItemsKept
    <3>2. Unopened(t)'
      BY <1>2, <1>4, <2>1, <2>3, <3>1 DEF Unopened, Others
    <3>3. Waits(t)'
      BY <1>2, <1>5, <2>1, <3>1 DEF Waits, Others
    <3>4. Opened(t)'
      BY <1>4, <2>1, <3>1 DEF Opened
    <3>5. QED
      BY <3>2, <3>3, <3>4
  <2>4. QED
    BY <2>2, <2>3
<1>9. \A t \in Sessions : client'[t].next >= client[t].next
  <2>1. ASSUME NEW t \in Sessions PROVE client'[t].next = client[t].next /\ client[t].next \in Int
    BY <1>1, <1>3 DEF ItemsKept, Clients, Item
  <2>2. QED
    BY <2>1
<1>10. ASSUME NEW g \in Handlers PROVE Follows(g)'
  <2>1. CASE g = h
    <3>1. Chunks \in Nat
      BY Sizes
    <3>2. QED
      BY <1>2, <1>3, <2>1, <3>1 DEF Follows
  <2>2. CASE g # h
    BY <1>2, <1>3, <1>9, <2>2, FollowsKept DEF Others
  <2>3. QED
    BY <2>1, <2>2
<1>11. QED
  BY <1>8, <1>10 DEF Browsing

LEMMA BrowsingReply ==
    ASSUME Typed, Browsing, NEW h \in Handlers, Reply(h)
    PROVE  Browsing'
<1>1. Clients /\ Requests
  BY TypedParts
<1>2. Others(h) /\ req'[h] = NoReq /\ req[h].op \in {"chunk", "complete"}
  BY <1>1, ReplySteps
<1>3. PICK s \in Sessions : s = req[h].s
  BY <1>1, ReplySteps
<1>4. /\ Clients' /\ ItemsKept(s) /\ client[s] \in Item
      /\ client'[s] = IF client[s].h # h THEN client[s]
                      ELSE IF req[h].pc = "ok" THEN Succeed(client[s]) ELSE TryAgain(client[s])
  BY <1>1, <1>3, ReplyItem
<1>5. UNCHANGED <<session, ledger, staged>>
  BY DEF Reply, Stores
<1>6. NoReq.s = None /\ NoReq.op = "none" /\ None \notin Sessions /\ None \notin Handlers
  BY Nothing, UploadAssumption
<1>7. Unopened(s) /\ Waits(s) /\ Opened(s) /\ session[s] # "none" /\ client[s].pc # "new"
  BY <1>3, Belongs DEF Browsing
<1>8. client[s].next \in 0..Chunks /\ Chunks \in Nat
  BY <1>4, Sizes DEF Item
<1>9. ASSUME client[s].h = h
      PROVE  /\ client'[s].pc \in {"send", "failed", "done"} /\ client'[s].h = None
             /\ client'[s].next >= client[s].next
             /\ client'[s].next < Chunks => client[s].next < Chunks
  <2>2. CASE req[h].pc = "ok"
    <3>1. client'[s] = Succeed(client[s])
      BY <1>4, <1>9, <2>2
    <3>2. /\ client'[s].h = None
          /\ IF client[s].next < Chunks THEN client'[s].pc = "send" /\ client'[s].next = client[s].next + 1
                                        ELSE client'[s].pc = "done" /\ client'[s].next = client[s].next
      BY <1>4, <3>1, Succeeds
    <3>3. QED
      BY <1>8, <3>2
  <2>3. CASE req[h].pc # "ok"
    <3>1. client'[s] = TryAgain(client[s])
      BY <1>4, <1>9, <2>3
    <3>2. client'[s].h = None /\ client'[s].next = client[s].next /\ client'[s].pc \in {"send", "failed"}
      BY <1>4, <3>1, TriesAgain
    <3>3. QED
      BY <1>8, <3>2
  <2>4. QED
    BY <2>2, <2>3
<1>10. ASSUME NEW t \in Sessions PROVE (Unopened(t) /\ Waits(t) /\ Opened(t))'
  <2>1. Unopened(t) /\ Waits(t) /\ Opened(t)
    BY DEF Browsing
  <2>2. CASE t = s /\ client[s].h = h
    <3>1. Unopened(t)'
      BY <1>5, <1>7, <2>2 DEF Unopened
    <3>2. Waits(t)'
      BY <1>9, <2>2 DEF Waits
    <3>3. Opened(t)'
      BY <1>5, <1>7, <1>9, <2>2 DEF Opened
    <3>4. QED
      BY <3>1, <3>2, <3>3
  <2>3. CASE ~(t = s /\ client[s].h = h)
    <3>1. client'[t] = client[t]
      BY <1>4, <2>3 DEF ItemsKept
    <3>2. Unopened(t)'
      BY <1>2, <1>5, <1>6, <2>1, <3>1 DEF Unopened, Others
    <3>3. Waits(t)'
      BY <1>2, <1>3, <2>1, <2>3, <3>1 DEF Waits, Others
    <3>4. Opened(t)'
      BY <1>5, <2>1, <3>1 DEF Opened
    <3>5. QED
      BY <3>2, <3>3, <3>4
  <2>4. QED
    BY <2>2, <2>3
<1>11. \A t \in Sessions : client'[t].next >= client[t].next
  <2>1. ASSUME NEW t \in Sessions, ~(t = s /\ client[s].h = h)
        PROVE  client'[t].next = client[t].next /\ client[t].next \in Int
    BY <1>1, <1>4, <2>1 DEF ItemsKept, Clients, Item
  <2>2. \A t \in Sessions : ~(t = s /\ client[s].h = h) => client'[t].next >= client[t].next
    BY <2>1
  <2>3. QED
    BY <1>9, <2>2
<1>12. ASSUME NEW g \in Handlers PROVE Follows(g)'
  <2>1. CASE g = h
    BY <1>2, <1>6, <2>1 DEF Follows
  <2>2. CASE g # h
    BY <1>2, <1>4, <1>11, <2>2, FollowsKept DEF Others
  <2>3. QED
    BY <2>1, <2>2
<1>13. QED
  BY <1>10, <1>12 DEF Browsing

LEMMA BrowsingCloses ==
    ASSUME Typed, Browsing, NEW h \in Handlers, CloseSession(h)
    PROVE  Browsing'
<1>1. Requests /\ StoresTyped /\ Clients
  BY TypedParts
<1>2. Others(h) /\ CallerKept(h) /\ req[h].op = "complete" /\ req[h].s \in Sessions
  BY <1>1, CloseMoves DEF EndMoves, Moves
<1>3. PICK s \in Sessions : s = req[h].s
  BY <1>2
<1>4. session' = [session EXCEPT ![s] = "deleted"] /\ UNCHANGED <<client, ledger, staged>>
  BY <1>3 DEF CloseSession, FinishOnly
<1>5. session'[s] = "deleted" /\ \A t \in Sessions : t # s => session'[t] = session[t]
  BY <1>1, <1>4 DEF StoresTyped
<1>6. session[s] # "none" /\ client[s].pc # "new"
  BY <1>3, Belongs
<1>7. client[s].next = Chunks /\ ~(client[s].next < Chunks)
  <2>1. client[s].next = Chunks
    BY <1>2, <1>3 DEF Browsing, Follows
  <2>2. QED
    BY <2>1, Sizes
<1>8. \A g \in Handlers : req'[g].op = req[g].op /\ req'[g].s = req[g].s /\ req'[g].k = req[g].k
  BY <1>2 DEF CallerKept, Others
<1>9. ASSUME NEW t \in Sessions PROVE (Unopened(t) /\ Waits(t) /\ Opened(t))'
  <2>1. Unopened(t) /\ Waits(t) /\ Opened(t)
    BY DEF Browsing
  <2>2. Unopened(t)'
    BY <1>4, <1>5, <1>8, <2>1 DEF Unopened
  <2>3. Waits(t)'
    BY <1>4, <1>8, <2>1 DEF Waits
  <2>4. Opened(t)'
    BY <1>4, <1>5, <1>6, <1>7, <2>1 DEF Opened
  <2>5. QED
    BY <2>2, <2>3, <2>4
<1>10. ASSUME NEW g \in Handlers PROVE Follows(g)'
  <2>1. Follows(g)
    BY DEF Browsing
  <2>2. QED
    BY <1>4, <1>8, <2>1 DEF Follows
<1>11. QED
  BY <1>9, <1>10 DEF Browsing

LEMMA BrowsingRestart ==
    ASSUME Typed, Browsing, Restart
    PROVE  Browsing'
<1>1. Clients
  BY TypedParts
<1>2. \A s \in Sessions : /\ client[s] \in Item
                          /\ client'[s] = IF client[s].pc = "wait" THEN TryAgain(client[s]) ELSE client[s]
  BY <1>1, RestartItems
<1>3. /\ req' = [h \in Handlers |-> NoReq] /\ session' = session /\ ledger' = [s \in Sessions |-> None]
  BY DEF Restart
<1>4. NoReq.s = None /\ NoReq.op = "none" /\ None \notin Sessions /\ None \notin Handlers
  BY Nothing, UploadAssumption
<1>5. ASSUME NEW s \in Sessions, session[s] = "none" PROVE staged'[s] = None
  <2>1. staged[s] = None /\ \A h \in Handlers : req[h].s # s
    BY <1>5 DEF Browsing, Unopened
  <2>2. CASE UNCHANGED staged
    BY <2>1, <2>2
  <2>3. ASSUME NEW h \in Handlers, NEW p, Appended(req[h].s, p) PROVE staged'[s] = None
    <3>1. staged \in [Sessions -> Seq(PartSet) \cup {None}]
      BY TypedParts DEF StagedTyped
    <3>2. QED
      BY <2>1, <2>3, <3>1 DEF Appended
  <2>4. QED
    BY <2>2, <2>3 DEF Restart
<1>6. ASSUME NEW s \in Sessions
      PROVE  /\ client'[s].next = client[s].next /\ client'[s].pc # "wait" /\ client'[s].h = None
             /\ \/ client'[s].pc = client[s].pc /\ client'[s].tries = client[s].tries
                \/ client[s].pc = "wait" /\ client'[s].pc \in {"send", "failed"}
  <2>1. CASE client[s].pc = "wait"
    BY <1>2, <2>1, TriesAgain
  <2>2. CASE client[s].pc # "wait"
    <3>1. Waits(s)
      BY DEF Browsing
    <3>2. QED
      BY <1>2, <2>2, <3>1 DEF Waits
  <2>3. QED
    BY <2>1, <2>2
<1>7. ASSUME NEW s \in Sessions PROVE (Unopened(s) /\ Waits(s) /\ Opened(s))'
  <2>1. Unopened(s) /\ Opened(s)
    BY DEF Browsing
  <2>2. Unopened(s)'
    BY <1>3, <1>4, <1>5, <1>6, <2>1 DEF Unopened
  <2>3. Waits(s)'
    BY <1>6 DEF Waits
  <2>4. Opened(s)'
    BY <1>3, <1>6, <2>1 DEF Opened
  <2>5. QED
    BY <2>2, <2>3, <2>4
<1>8. ASSUME NEW g \in Handlers PROVE Follows(g)'
  BY <1>3, <1>4 DEF Follows
<1>9. QED
  BY <1>7, <1>8 DEF Browsing

LEMMA BrowsingHandled ==
    ASSUME Typed, Browsing, NEW h \in Handlers, Handle(h) \/ \E f \in Files : Purge(h, f)
    PROVE  Browsing'
<1>1. Requests /\ Clients /\ StoresTyped /\ StagedTyped
  BY TypedParts
<1>2. CASE Reply(h)
  BY <1>2, BrowsingReply
<1>3. CASE CloseSession(h)
  BY <1>3, BrowsingCloses
<1>4. CASE ChunkHash(h)
  <2>1. Others(h) /\ CallerKept(h) /\ req[h].s \in Sessions
    BY <1>1, <1>4, ChunkHashSteps
  <2>2. UNCHANGED <<session, client, staged>>
    BY <1>4 DEF ChunkHash
  <2>3. ASSUME NEW t \in Sessions, session[t] = "none" PROVE ledger'[t] = None /\ staged'[t] = None
    <3>1. ledger[t] = None /\ staged[t] = None /\ req[h].s # t
      BY <2>3 DEF Browsing, Unopened
    <3>2. ledger'[t] = None
      BY <1>4, <3>1 DEF ChunkHash
    <3>3. QED
      BY <2>2, <3>1, <3>2
  <2>4. QED
    BY <2>1, <2>2, <2>3, BrowsingKept DEF Untouched
<1>5. ASSUME UNCHANGED <<session, client, ledger, staged>> PROVE Untouched
  BY <1>5 DEF Untouched, Browsing, Unopened
<1>6. CASE \/ PartSave(h) \/ PartsSaved(h) \/ SaveFails(h) \/ ChunkStat(h)
           \/ CommitFails(h) \/ Find(h) \/ (\E f \in Files : Create(h, f)) \/ Undo(h) \/ Point(h)
  <2>1. Others(h) /\ CallerKept(h)
    BY <1>1, <1>6, PartSaveSteps, PartsSavedMoves, SaveFailsMoves, ChunkStatMoves, CommitFailsMoves,
       FindSteps, CreateSteps, UndoMoves, PointMoves DEF ChunkMoves, EndMoves, Moves
  <2>2. UNCHANGED <<session, client, ledger, staged>>
    BY <1>6 DEF PartSave, PartsSaved, SaveFails, ChunkStat, CommitFails, Find, Create, Undo, Point,
                ChunkOnly, FinishOnly, Stores
  <2>3. QED
    BY <1>5, <2>1, <2>2, BrowsingKept
<1>7. CASE Commit(h)
  <2>1. Others(h) /\ CallerKept(h)
    BY <1>1, <1>7, CommitSteps DEF StoresTyped
  <2>2. UNCHANGED <<session, client, ledger, staged>>
    BY <1>7 DEF Commit, FinishOnly
  <2>3. QED
    BY <1>5, <2>1, <2>2, BrowsingKept
<1>8. CASE DropObject(h)
  <2>1. Others(h) /\ CallerKept(h)
    BY <1>1, <1>8, DropObjectMoves DEF Moves
  <2>2. UNCHANGED <<session, client, ledger, staged>>
    BY <1>8 DEF DropObject, FinishOnly
  <2>3. QED
    BY <1>5, <2>1, <2>2, BrowsingKept
<1>9. CASE DeleteOld(h)
  <2>1. UNCHANGED <<session, client, ledger, staged>>
    BY <1>9 DEF DeleteOld, FinishOnly
  <2>2. \/ Others(h) /\ CallerKept(h)
        \/ Others(h) /\ req[h].s = None /\ req'[h].s = None /\ req'[h].op = "none"
    BY <1>1, <1>9, DeleteOldSteps, Nothing
  <2>3. QED
    BY <1>5, <2>1, <2>2, BrowsingKept, BrowsingApart
<1>10. CASE \E f \in Files : Purge(h, f)
  <2>1. UNCHANGED <<session, client, ledger, staged>>
    BY <1>10 DEF Purge, Stores
  <2>2. Others(h) /\ req[h].s = None /\ req'[h].s = None /\ req'[h].op = "purge"
    BY <1>1, <1>10, PurgeSteps, Nothing
  <2>3. QED
    BY <1>5, <2>1, <2>2, BrowsingApart
<1>11. CASE ChunkAppend(h) \/ ShortWrite(h)
  <2>1. Others(h) /\ CallerKept(h) /\ req[h].s \in Sessions
    BY <1>1, <1>11, ChunkAppendMoves, ShortWriteMoves DEF ChunkMoves, Moves
  <2>2. UNCHANGED <<session, client, ledger>> /\ \E p : Appended(req[h].s, p)
    BY <1>11 DEF ChunkAppend, ShortWrite, ChunkOnly
  <2>3. ASSUME NEW t \in Sessions, session[t] = "none" PROVE ledger'[t] = None /\ staged'[t] = None
    <3>1. ledger[t] = None /\ staged[t] = None /\ req[h].s # t
      BY <2>3 DEF Browsing, Unopened
    <3>2. staged'[t] = None
      BY <1>1, <2>2, <3>1 DEF Appended, StagedTyped
    <3>3. QED
      BY <2>2, <3>1, <3>2
  <2>4. QED
    BY <2>1, <2>2, <2>3, BrowsingKept DEF Untouched
<1>12. CASE TakeHash(h) \/ CheckStaged(h) \/ Rename(h)
  <2>1. Others(h) /\ CallerKept(h)
    BY <1>1, <1>12, TakeHashSteps, CheckStagedMoves, RenameMoves DEF EndMoves, Moves
  <2>2. UNCHANGED <<session, client>>
    BY <1>12 DEF TakeHash, CheckStaged, Rename, FinishOnly
  <2>3. ASSUME NEW t \in Sessions, session[t] = "none" PROVE ledger'[t] = None /\ staged'[t] = None
    <3>1. ledger[t] = None /\ staged[t] = None
      BY <2>3 DEF Browsing, Unopened
    <3>2. ledger' = ledger \/ ledger' = [ledger EXCEPT ![req[h].s] = None]
      BY <1>12 DEF TakeHash, CheckStaged, Rename
    <3>3. staged' = staged \/ staged' = [staged EXCEPT ![req[h].s] = None]
      BY <1>12 DEF TakeHash, CheckStaged, Rename
    <3>4. QED
      BY <1>1, <3>1, <3>2, <3>3 DEF StoresTyped, StagedTyped
  <2>4. QED
    BY <2>1, <2>2, <2>3, BrowsingKept DEF Untouched
<1>13. QED
  BY <1>2, <1>3, <1>4, <1>6, <1>7, <1>8, <1>9, <1>10, <1>11, <1>12 DEF Handle

\* The requests of an upload follow its item.
LEMMA BrowsingStep == ASSUME Typed, Browsing, Next PROVE Browsing'
BY BrowsingOpens, BrowsingItem, BrowsingAsks, BrowsingHandled, BrowsingRestart DEF Next, Browser

-----------------------------------------------------------------------------
(* Uploads to Telegram. *)

\* The statements of a request that leave the items alone.
LEMMA ItemsStay ==
    ASSUME NEW h \in Handlers, Handle(h) \/ \E f \in Files : Purge(h, f), ~Reply(h)
    PROVE  UNCHANGED client
BY DEF Handle, ChunkHash, PartSave, PartsSaved, SaveFails, ChunkStat, ChunkAppend, ShortWrite, TakeHash,
       Commit, CommitFails, CheckStaged, Find, DropObject, DeleteOld, Create, Rename, Undo,
       Point, CloseSession, Purge, ChunkOnly, FinishOnly

\* An item goes on to the next chunk when it is told that the last one has landed.
Advances(s, h) ==
    /\ Reply(h) /\ req[h].s = s /\ client[s].h = h /\ client[s].pc = "wait" /\ req[h].pc = "ok"
    /\ req[h].op = "chunk" /\ req[h].k = client[s].next /\ client[s].next < Chunks
    /\ client'[s].next = client[s].next + 1 /\ client'[s].pc = "send" /\ client'[s].tries = 0

LEMMA ItemsAdvance ==
    ASSUME Typed, Browsing, Next, NEW s \in Sessions
    PROVE  client'[s].next = client[s].next \/ \E h \in Handlers : Advances(s, h)
<1>1. Requests /\ Clients
  BY TypedParts
<1>2. ASSUME NEW t \in Sessions, OpenSession(t) \/ AnswerLost(t) \/ Retry(t)
      PROVE  client'[s].next = client[s].next
  <2>1. ItemsKept(t) /\ client'[t].next = client[t].next
    BY <1>1, <1>2, OpenSessionItem, AnswerLostItem, RetryItem, TriesAgain
  <2>2. QED
    BY <2>1 DEF ItemsKept
<1>3. ASSUME NEW t \in Sessions, NEW h \in Handlers, SendChunk(t, h) \/ SendComplete(t, h)
      PROVE  client'[s].next = client[s].next
  <2>1. ItemsKept(t) /\ client'[t].next = client[t].next
    BY <1>1, <1>3, RequestItem
  <2>2. QED
    BY <2>1 DEF ItemsKept
<1>4. ASSUME NEW h \in Handlers, Reply(h)
      PROVE  client'[s].next = client[s].next \/ Advances(s, h)
  <2>1. /\ req[h].s \in Sessions /\ ItemsKept(req[h].s) /\ client[req[h].s] \in Item
        /\ client'[req[h].s] = IF client[req[h].s].h # h THEN client[req[h].s]
                               ELSE IF req[h].pc = "ok" THEN Succeed(client[req[h].s])
                               ELSE TryAgain(client[req[h].s])
    BY <1>1, <1>4, ReplyItem, ReplySteps
  <2>2. CASE req[h].s = s /\ client[s].h = h /\ req[h].pc = "ok" /\ client[s].next < Chunks
    <3>1. client'[s].next = client[s].next + 1 /\ client'[s].pc = "send" /\ client'[s].tries = 0
      BY <2>1, <2>2, Succeeds
    <3>2. client[s].pc = "wait" /\ req[h].k = client[s].next /\ req[h].op = "chunk"
      BY <2>2, UploadAssumption DEF Browsing, Waits
    <3>3. QED
      BY <1>4, <2>2, <3>1, <3>2 DEF Advances
  <2>3. CASE ~(req[h].s = s /\ client[s].h = h /\ req[h].pc = "ok" /\ client[s].next < Chunks)
    <3>1. CASE req[h].s # s
      BY <2>1, <3>1 DEF ItemsKept
    <3>2. CASE req[h].s = s
      BY <2>1, <2>3, <3>2, TriesAgain, Succeeds
    <3>3. QED
      BY <3>1, <3>2
  <2>4. QED
    BY <2>2, <2>3
<1>5. CASE Restart
  <2>1. client[s] \in Item /\ client'[s] = IF client[s].pc = "wait" THEN TryAgain(client[s]) ELSE client[s]
    BY <1>1, <1>5, RestartItems
  <2>2. QED
    BY <2>1, TriesAgain
<1>6. ASSUME NEW h \in Handlers, Handle(h) \/ \E f \in Files : Purge(h, f), ~Reply(h)
      PROVE  client'[s].next = client[s].next
  BY <1>6, ItemsStay
<1>7. QED
  BY <1>2, <1>3, <1>4, <1>5, <1>6 DEF Next, Browser

\* A fault is counted, and nothing else changes the count.
LEMMA FaultsCount == ASSUME Typed, Next PROVE faults \in Nat /\ (faults' = faults \/ faults' = faults + 1)
<1>1. faults \in Nat
  BY UploadAssumption DEF Typed
<1>2. faults' = faults \/ Fault
  BY ZenonT(30) DEF Next, Browser, Handle, OpenSession, AnswerLost, Retry, SendChunk, SendComplete, Request,
         ChunkHash, PartSave, PartsSaved, SaveFails, ChunkStat, ChunkAppend, ShortWrite, TakeHash,
         Commit, CommitFails, CheckStaged, Find, DropObject, DeleteOld, Create, Rename, Undo, Reply,
         Point, CloseSession, Purge, Restart, FinishOnly
<1>3. QED
  BY <1>1, <1>2 DEF Fault

LEMMA SavedGrows == ASSUME Typed, Next, NEW s \in Sessions PROVE saved[s] \subseteq saved'[s]
<1>1. saved' = saved \/ \E h \in Handlers : PartSave(h)
  BY ZenonT(30) DEF Next, Browser, Handle, OpenSession, AnswerLost, Retry, SendChunk, SendComplete, Request,
         ChunkHash, PartsSaved, SaveFails, ChunkStat, ChunkAppend, ShortWrite, TakeHash,
         Commit, CommitFails, CheckStaged, Find, DropObject, DeleteOld, Create, Rename, Undo, Reply,
         Point, CloseSession, Purge, Restart, FinishOnly, Stores
<1>2. saved \in [Sessions -> SUBSET PartSet]
  BY TypedParts DEF StoresTyped
<1>3. ASSUME NEW h \in Handlers, PartSave(h) PROVE saved[s] \subseteq saved'[s]
  <2>1. saved' = [saved EXCEPT ![req[h].s] = @ \cup {Head(req[h].todo)}]
    BY <1>3 DEF PartSave
  <2>2. QED
    BY <1>2, <2>1
<1>4. QED
  BY <1>1, <1>3

\* The parts of one chunk more.
LEMMA Further ==
    ASSUME NEW j \in 0..Chunks, j < Chunks
    PROVE  Between(0, j + 1) \subseteq Between(0, j) \cup Between(j, j + 1)
<1>1. \A p \in PartSet : p \in Int
  BY Sizes DEF PartSet
<1>2. End(j) \in Int
  BY Ends
<1>3. QED
  BY <1>1, <1>2 DEF Between

LEMMA AllParts == Between(0, Chunks) = PartSet /\ Between(0, 0) = {}
<1>1. End(0) = 0 /\ End(Chunks) = Size /\ Size \in Nat
  BY Ends, Sizes
<1>2. \A p \in PartSet : 0 <= p /\ p < Size
  BY <1>1 DEF PartSet
<1>3. \A p \in PartSet : ~(0 <= p /\ p < 0)
  BY <1>1 DEF PartSet
<1>4. QED
  BY <1>1, <1>2, <1>3 DEF Between

\* The parts of a chunk are those between its ends.
LEMMA InChunk ==
    ASSUME NEW k \in 0..Chunks, k < Chunks, NEW p \in Between(k, k + 1)
    PROVE  \E i \in 1..Len(PartsOf(k)) : PartsOf(k)[i] = p
<1>1. /\ Len(PartsOf(k)) = End(k + 1) - End(k)
      /\ \A i \in 1..Len(PartsOf(k)) : PartsOf(k)[i] = End(k) + i - 1
  BY ChunkParted
<1>2. PICK a, b \in Int : a = End(k) /\ b = End(k + 1)
  <2>1. k + 1 \in 0..Chunks
    BY Ends
  <2>2. QED
    BY <2>1, Ends
<1>3. p \in Int /\ a <= p /\ p < b
  BY <1>2, Sizes DEF Between, PartSet
<1>4. PICK i : i = p - a + 1
  OBVIOUS
<1>5. i \in 1..(b - a) /\ a + i - 1 = p
  BY <1>2, <1>3, <1>4
<1>6. QED
  BY <1>1, <1>2, <1>5

\* Telegram holds the chunks an item has been told of.
Held == \A s \in Sessions \ Disk : Between(0, client[s].next) \subseteq saved[s]

LEMMA HeldStep == ASSUME Typed, Browsing, Telegram, Next PROVE Held'
<1> SUFFICES ASSUME NEW s \in Sessions \ Disk
             PROVE  Between(0, client'[s].next) \subseteq saved'[s]
  BY DEF Held, Between, End
<1>1. Between(0, client[s].next) \subseteq saved[s] /\ saved[s] \subseteq saved'[s]
  BY SavedGrows DEF Telegram
<1>2. CASE client'[s].next = client[s].next
  BY <1>1, <1>2
<1>3. ASSUME NEW h \in Handlers, Advances(s, h) PROVE Between(0, client'[s].next) \subseteq saved'[s]
  <2>1. /\ req[h].op = "chunk" /\ req[h].pc = "ok" /\ req[h].s = s /\ req[h].k = client[s].next
        /\ client[s].next < Chunks /\ client'[s].next = client[s].next + 1
    BY <1>3 DEF Advances
  <2>2. client[s].next \in 0..Chunks
    BY DEF Typed, Item
  <2>3. Between(client[s].next, client[s].next + 1) \subseteq saved[s]
    BY <2>1 DEF Telegram, Sending
  <2>4. Between(0, client[s].next + 1) \subseteq saved[s]
    BY <1>1, <2>1, <2>2, <2>3, Further
  <2>5. QED
    BY <1>1, <2>1, <2>4
<1>4. QED
  BY <1>2, <1>3, ItemsAdvance

\* A request that is to be read no further.
LEMMA SendingEasy ==
    ASSUME NEW h \in Handlers,
           \/ req'[h].s \notin Sessions \ Disk
           \/ req'[h].op = "chunk" /\ req'[h].pc \notin {"save", "ok"}
           \/ req'[h].op = "complete" /\ req'[h].pc \notin {"find", "drop", "delete", "create"}
    PROVE  req'[h].s \in Sessions \ Disk => Sending(h)'
BY DEF Sending

LEMMA SendingHandled ==
    ASSUME Typed, Browsing, Telegram, NEW h \in Handlers, Handle(h) \/ \E f \in Files : Purge(h, f)
    PROVE  /\ Others(h)
           /\ req'[h].s \in Sessions \ Disk => Sending(h)'
<1>1. Requests /\ Clients /\ StoresTyped
  BY TypedParts
<1>2. req[h].s \in Sessions \ Disk => Sending(h)
  BY DEF Telegram
<1>3. None \notin Sessions
  BY UploadAssumption
<1>4. CASE ChunkHash(h)
  <2>1. /\ Others(h) /\ CallerKept(h) /\ req[h].op = "chunk" /\ req'[h].pc \in {"save", "stat"}
        /\ req'[h].todo = PartsOf(req[h].k)
    BY <1>1, <1>4, ChunkHashSteps
  <2>2. req[h].k \in 0..Chunks /\ req[h].k < Chunks
    BY <1>1, <2>1, WhatItIs DEF Called, ChunkCall, Call
  <2>3. \A p \in Between(req[h].k, req[h].k + 1) : \E i \in 1..Len(PartsOf(req[h].k)) : PartsOf(req[h].k)[i] = p
    BY <2>2, InChunk
  <2>4. Sending(h)'
    BY <2>1, <2>3 DEF Sending, CallerKept, Between, End
  <2>5. QED
    BY <2>1, <2>4
<1>5. CASE PartSave(h)
  <2>1. /\ Others(h) /\ CallerKept(h) /\ req[h].op = "chunk" /\ req[h].pc = "save" /\ req[h].s \in Sessions \ Disk
        /\ req[h].todo \in Seq(PartSet) /\ req[h].todo # <<>>
        /\ \/ req'[h].pc = "save" /\ req'[h].todo = Tail(req[h].todo)
           \/ req'[h].pc = "failed"
    BY <1>1, <1>5, PartSaveSteps
  <2>2. saved'[req[h].s] = saved[req[h].s] \cup {Head(req[h].todo)}
    BY <1>1, <1>5, <2>1 DEF PartSave, StoresTyped
  <2>3. CASE req'[h].pc = "failed"
    BY <2>1, <2>3, SendingEasy DEF CallerKept
  <2>4. CASE req'[h].pc = "save" /\ req'[h].todo = Tail(req[h].todo)
    <3>1. PICK q \in Seq(PartSet) : q = req[h].todo
      BY <2>1
    <3>2. /\ Tail(q) \in Seq(PartSet) /\ Len(Tail(q)) = Len(q) - 1
          /\ \A i \in 1..Len(Tail(q)) : Tail(q)[i] = q[i + 1]
      BY <2>1, <3>1, HeadTailProperties
    <3>3. ASSUME NEW p \in Between(req[h].k, req[h].k + 1)
          PROVE  p \in saved'[req[h].s] \/ \E i \in 1..Len(Tail(q)) : Tail(q)[i] = p
      <4>1. p \in saved[req[h].s] \/ \E i \in 1..Len(q) : q[i] = p
        BY <1>2, <2>1, <3>1, <3>3 DEF Sending
      <4>2. ASSUME NEW i \in 1..Len(q), q[i] = p, i # 1
            PROVE  \E j \in 1..Len(Tail(q)) : Tail(q)[j] = p
        <5>1. PICK j : j = i - 1
          OBVIOUS
        <5>2. j \in 1..Len(Tail(q)) /\ i = j + 1
          BY <3>1, <3>2, <4>2, <5>1
        <5>3. QED
          BY <3>2, <4>2, <5>2
      <4>3. ASSUME NEW i \in 1..Len(q), q[i] = p, i = 1
            PROVE  p \in saved'[req[h].s]
        <5>1. Head(q) = q[1]
          BY <3>1
        <5>2. QED
          BY <2>2, <3>1, <4>3, <5>1
      <4>4. QED
        BY <2>2, <4>1, <4>2, <4>3
    <3>4. Sending(h)'
      BY <2>1, <2>4, <3>1, <3>3 DEF Sending, CallerKept, Between, End
    <3>5. QED
      BY <2>1, <3>4
  <2>5. QED
    BY <2>1, <2>3, <2>4
<1>6. CASE PartsSaved(h)
  <2>1. ChunkMoves(h, "save", "ok") /\ req[h].s \in Sessions \ Disk /\ req[h].todo = <<>>
    BY <1>1, <1>6, PartsSavedMoves DEF ChunkMoves
  <2>2. /\ Others(h) /\ CallerKept(h) /\ req[h].op = "chunk" /\ req[h].pc = "save" /\ req'[h].pc = "ok"
        /\ saved' = saved
    BY <1>6, <2>1 DEF PartsSaved, ChunkMoves, Moves
  <2>3. Len(req[h].todo) = 0
    BY <2>1
  <2>4. \A p \in Between(req[h].k, req[h].k + 1) : p \in saved[req[h].s]
    BY <1>2, <2>1, <2>2, <2>3 DEF Sending
  <2>5. Sending(h)'
    BY <2>2, <2>4 DEF Sending, CallerKept, Between, End
  <2>6. QED
    BY <2>2, <2>5
<1>7. CASE SaveFails(h) \/ CommitFails(h)
  <2>1. /\ Others(h) /\ CallerKept(h) /\ req[h].op \in {"chunk", "complete"} /\ req'[h].pc = "failed"
    BY <1>1, <1>7, SaveFailsMoves, CommitFailsMoves DEF ChunkMoves, EndMoves, Moves
  <2>2. QED
    BY <2>1, SendingEasy DEF CallerKept
<1>8. CASE ChunkStat(h) \/ ChunkAppend(h) \/ ShortWrite(h)
  <2>1. Others(h) /\ CallerKept(h) /\ req[h].s \in Disk
    BY <1>1, <1>8, ChunkStatMoves, ChunkAppendMoves, ShortWriteMoves DEF ChunkMoves, Moves
  <2>2. QED
    BY <2>1, SendingEasy DEF CallerKept
<1>9. CASE TakeHash(h) \/ (\E f \in Files : Create(h, f)) \/ CloseSession(h)
  <2>1. Others(h) /\ CallerKept(h) /\ req[h].op = "complete" /\ req'[h].pc \in {"check", "commit", "rename", "close", "ok"}
    BY <1>1, <1>9, TakeHashSteps, CreateSteps, CloseMoves DEF EndMoves, Moves
  <2>2. QED
    BY <2>1, SendingEasy DEF CallerKept
<1>10. CASE Commit(h)
  <2>1. /\ Others(h) /\ CallerKept(h) /\ req[h].op = "complete" /\ req[h].s \in Sessions \ Disk
        /\ req'[h].pc = "find" /\ req'[h].parts = saved[req[h].s]
    BY <1>1, <1>10, CommitSteps DEF StoresTyped
  <2>2. client[req[h].s].next = Chunks
    BY <2>1 DEF Browsing, Follows
  <2>3. Between(0, client[req[h].s].next) \subseteq saved[req[h].s]
    BY <2>1 DEF Telegram
  <2>4. PartSet \subseteq saved[req[h].s] /\ saved[req[h].s] \subseteq PartSet
    BY <1>1, <2>1, <2>2, <2>3, AllParts DEF StoresTyped
  <2>5. Sending(h)'
    BY <2>1, <2>4 DEF Sending, CallerKept
  <2>6. QED
    BY <2>1, <2>5
<1>11. CASE CheckStaged(h) \/ Rename(h) \/ Undo(h) \/ Point(h)
  <2>1. Others(h) /\ CallerKept(h) /\ req[h].s \in Disk
    BY <1>1, <1>11, CheckStagedMoves, RenameMoves, UndoMoves, PointMoves DEF EndMoves, Moves
  <2>2. QED
    BY <2>1, SendingEasy DEF CallerKept
<1>12. CASE Find(h)
  <2>1. Others(h) /\ CallerKept(h) /\ FileKept(h) /\ req[h].op = "complete" /\ req[h].pc = "find"
    BY <1>1, <1>12, FindSteps
  <2>2. QED
    BY <1>2, <2>1 DEF Sending, CallerKept, FileKept
<1>13. CASE DropObject(h)
  <2>1. Others(h) /\ CallerKept(h) /\ req[h].pc = "drop"
    BY <1>1, <1>13, DropObjectMoves DEF Moves
  <2>2. req[h].s \notin Sessions \ Disk
    BY <1>1, <1>3, <2>1, WhatItIs DEF EndCall
  <2>3. QED
    BY <2>1, <2>2, SendingEasy DEF CallerKept
<1>14. CASE DeleteOld(h)
  <2>1. CASE req[h].op = "purge"
    BY <1>1, <1>3, <1>14, <2>1, DeleteOldSteps, Nothing
  <2>2. CASE req[h].op # "purge"
    <3>1. /\ Others(h) /\ CallerKept(h) /\ FileKept(h) /\ req[h].op = "complete" /\ req[h].pc = "delete"
          /\ req'[h].pc = "create"
      BY <1>1, <1>14, <2>2, DeleteOldSteps
    <3>2. QED
      BY <1>2, <3>1 DEF Sending, CallerKept, FileKept
  <2>3. QED
    BY <2>1, <2>2
<1>15. CASE Reply(h) \/ \E f \in Files : Purge(h, f)
  <2>1. Others(h) /\ req'[h].s = None
    BY <1>1, <1>15, ReplySteps, PurgeSteps, Nothing
  <2>2. QED
    BY <1>3, <2>1
<1>16. QED
  BY <1>4, <1>5, <1>6, <1>7, <1>8, <1>9, <1>10, <1>11, <1>12, <1>13, <1>14, <1>15 DEF Handle

LEMMA SendingStep ==
    ASSUME Typed, Browsing, Telegram, Next, NEW g \in Handlers
    PROVE  req'[g].s \in Sessions \ Disk => Sending(g)'
<1>1. Requests /\ Clients
  BY TypedParts
<1>2. req[g].s \in Sessions \ Disk => Sending(g)
  BY DEF Telegram
<1>3. ASSUME req'[g] = req[g] PROVE req'[g].s \in Sessions \ Disk => Sending(g)'
  <2>1. \A s \in Sessions : saved[s] \subseteq saved'[s]
    BY SavedGrows
  <2>2. QED
    BY <1>2, <1>3, <2>1 DEF Sending, Between, End
<1>4. ASSUME NEW h \in Handlers, Handle(h) \/ \E f \in Files : Purge(h, f)
      PROVE  req'[g].s \in Sessions \ Disk => Sending(g)'
  <2>1. CASE g = h
    BY <1>4, <2>1, SendingHandled
  <2>2. CASE g # h
    BY <1>3, <1>4, <2>2, SendingHandled DEF Others
  <2>3. QED
    BY <2>1, <2>2
<1>5. ASSUME NEW s \in Sessions, NEW h \in Handlers, SendChunk(s, h) \/ SendComplete(s, h)
      PROVE  req'[g].s \in Sessions \ Disk => Sending(g)'
  <2>1. Others(h) /\ req'[h].op \in {"chunk", "complete"} /\ req'[h].pc \in {"refused", "hash"}
    BY <1>1, <1>5, RequestSteps
  <2>2. CASE g = h
    BY <2>1, <2>2, SendingEasy
  <2>3. CASE g # h
    BY <1>3, <2>1, <2>3 DEF Others
  <2>4. QED
    BY <2>2, <2>3
<1>6. CASE Restart
  <2>1. req'[g].s = None /\ None \notin Sessions
    BY <1>6, Nothing, UploadAssumption DEF Restart
  <2>2. QED
    BY <2>1
<1>7. ASSUME NEW s \in Sessions, OpenSession(s) \/ AnswerLost(s) \/ Retry(s)
      PROVE  req'[g].s \in Sessions \ Disk => Sending(g)'
  BY <1>3, <1>7 DEF OpenSession, AnswerLost, Retry
<1>8. QED
  BY <1>4, <1>5, <1>6, <1>7 DEF Next, Browser

\* What can become of a row.
LEMMA RowsMove ==
    ASSUME Typed, Next, NEW f \in Files
    PROVE  \/ file'[f] = file[f]
           \/ \E h \in Handlers : Create(h, f)
           \/ \E h \in Handlers : /\ (DeleteOld(h) /\ req[h].old = f) \/ (Undo(h) /\ req[h].f = f)
                                  /\ file'[f].st = "gone" /\ file'[f].path = "none"
           \/ \E h \in Handlers : /\ Point(h) /\ req[h].f = f /\ f \in Rows
                                  /\ file'[f].st = file[f].st /\ file'[f].s = file[f].s
                                  /\ file'[f].sha = file[f].sha /\ file'[f].parts = file[f].parts
                                  /\ file'[f].path = "object"
<1>1. Requests /\ StoresTyped /\ file \in [Files -> Entry]
  BY TypedParts DEF StoresTyped
<1>2. \/ file' = file
      \/ \E h \in Handlers : DeleteOld(h) \/ Undo(h) \/ Point(h) \/ \E g \in Files : Create(h, g)
  BY ZenonT(30) DEF Next, Browser, Handle, OpenSession, AnswerLost, Retry, SendChunk, SendComplete, Request,
         ChunkHash, PartSave, PartsSaved, SaveFails, ChunkStat, ChunkAppend, ShortWrite, TakeHash,
         Commit, CommitFails, CheckStaged, Find, DropObject, Rename, Reply,
         CloseSession, Purge, Restart, FinishOnly, ChunkOnly, Stores
<1>3. ASSUME NEW h \in Handlers, NEW g \in Files, Create(h, g)
      PROVE  file'[f] = file[f] \/ Create(h, f)
  BY <1>1, <1>3, CreatedIs
<1>4. ASSUME NEW h \in Handlers, DeleteOld(h)
      PROVE  \/ file'[f] = file[f]
             \/ req[h].old = f /\ file'[f].st = "gone" /\ file'[f].path = "none"
  <2>1. Deleted(req[h].old) /\ req[h].old \in Files
    BY <1>1, <1>4, DeleteOldSteps DEF DeleteOld
  <2>2. QED
    BY <1>1, <2>1, DeletedIs
<1>5. ASSUME NEW h \in Handlers, Undo(h)
      PROVE  \/ file'[f] = file[f]
             \/ req[h].f = f /\ file'[f].st = "gone" /\ file'[f].path = "none"
  <2>1. Deleted(req[h].f) /\ req[h].f \in Files
    BY <1>1, <1>5, UndoMoves DEF Undo
  <2>2. QED
    BY <1>1, <2>1, DeletedIs
<1>6. ASSUME NEW h \in Handlers, Point(h)
      PROVE  \/ file'[f] = file[f]
             \/ /\ req[h].f = f /\ f \in Rows
                /\ file'[f].st = file[f].st /\ file'[f].s = file[f].s
                /\ file'[f].sha = file[f].sha /\ file'[f].parts = file[f].parts
                /\ file'[f].path = "object"
  <2>1. PICK g \in Files : g = req[h].f
    BY <1>1, <1>6, PointedIs
  <2>2. CASE f # g
    BY <1>1, <1>6, <2>1, <2>2, PointedIs
  <2>3. CASE f = g /\ f \in Rows
    BY <1>1, <1>6, <2>1, <2>3, PointedIs
  <2>4. CASE f = g /\ f \notin Rows
    <3>1. file' = [file EXCEPT ![f].path = file[f].path]
      BY <1>6, <2>1, <2>4 DEF Point
    <3>2. file[f] \in Entry
      BY <1>1
    <3>3. [file[f] EXCEPT !.path = file[f].path] = file[f]
      BY <3>2 DEF Entry
    <3>4. QED
      BY <1>1, <3>1, <3>3
  <2>5. QED
    BY <2>2, <2>3, <2>4
<1>7. QED
  BY <1>2, <1>3, <1>4, <1>5, <1>6

LEMMA RowsPartsStep ==
    ASSUME Typed, Telegram, Next, NEW f \in Files, file'[f].st = "row", file'[f].s \in Sessions \ Disk
    PROVE  file'[f].parts = PartSet
<1>1. file[f].st = "row" /\ file[f].s \in Sessions \ Disk => file[f].parts = PartSet
  BY DEF Telegram, Rows
<1>2. CASE file'[f] = file[f]
  BY <1>1, <1>2
<1>3. ASSUME NEW h \in Handlers, Create(h, f) PROVE file'[f].parts = PartSet
  <2>1. Requests /\ file \in [Files -> Entry]
    BY TypedParts DEF StoresTyped
  <2>2. /\ file'[f].s = req[h].s /\ file'[f].parts = req[h].parts /\ req[h].op = "complete"
        /\ req[h].pc = "create"
    BY <1>3, <2>1, CreatedIs, CreateSteps
  <2>3. Sending(h)
    BY <2>2 DEF Telegram
  <2>4. QED
    BY <2>2, <2>3 DEF Sending
<1>4. QED
  BY <1>1, <1>2, <1>3, RowsMove

\* The request an item waits for, while it sends chunks: it is of the item, and the
\* session is open.
LEMMA Awaits ==
    ASSUME Typed, Browsing, NEW s \in Sessions, client[s].pc = "wait", client[s].next < Chunks
    PROVE  /\ client[s].h \in Handlers /\ req[client[s].h].s = s
           /\ req[client[s].h].op = "chunk" /\ session[s] = "open"
BY DEF Browsing, Waits, Opened

\* When the item does not move.
LEMMA ResendsKept ==
    ASSUME Typed, Browsing, Telegram, Next, NEW s \in Sessions \ Disk, client'[s] = client[s],
           \A h \in Handlers : req[h].op = "chunk" /\ req[h].s = s /\ session[s] = "open" =>
              /\ req'[h].pc = "refused" => req[h].pc = "refused"
              /\ req'[h].pc = "failed" => req[h].pc = "failed" \/ faults' = faults + 1
    PROVE  Resends(s)'
<1>1. client[s] \in Item /\ Resends(s)
  BY DEF Typed, Telegram
<1>2. faults \in Nat /\ (faults' = faults \/ faults' = faults + 1)
  BY FaultsCount
<1>3. client[s].tries \in 0..2
  BY <1>1 DEF Item
<1>4. SUFFICES ASSUME client[s].next < Chunks
               PROVE  /\ Failures(s)' <= faults'
                      /\ client[s].pc = "failed" => faults' >= 3
                      /\ client[s].pc = "wait" => req'[client[s].h].pc # "refused"
  BY DEF Resends
<1>5. /\ Failures(s) <= faults
      /\ client[s].pc = "failed" => faults >= 3
      /\ client[s].pc = "wait" => req[client[s].h].pc # "refused"
  BY <1>1, <1>4 DEF Resends
<1>6. CASE client[s].pc # "wait"
  <2>1. Failures(s) = client[s].tries + 0 /\ Failures(s)' = client[s].tries + 0
    BY <1>6 DEF Failures
  <2>2. QED
    BY <1>2, <1>3, <1>5, <1>6, <2>1
<1>7. CASE client[s].pc = "wait"
  <2>1. PICK h \in Handlers : h = client[s].h /\ req[h].s = s /\ req[h].op = "chunk" /\ session[s] = "open"
    BY <1>4, <1>7, Awaits
  <2>2. /\ req'[h].pc = "refused" => req[h].pc = "refused"
        /\ req'[h].pc = "failed" => req[h].pc = "failed" \/ faults' = faults + 1
    BY <2>1
  <2>3. /\ Failures(s) = client[s].tries + IF req[h].pc = "failed" THEN 1 ELSE 0
        /\ Failures(s)' = client[s].tries + IF req'[h].pc = "failed" THEN 1 ELSE 0
    BY <1>7, <2>1 DEF Failures
  <2>4. Failures(s)' <= faults'
    <3>1. CASE req'[h].pc # "failed"
      <4>1. Failures(s)' = client[s].tries + 0
        BY <2>3, <3>1
      <4>2. client[s].tries <= Failures(s)
        BY <1>3, <2>3
      <4>3. Failures(s) \in Int
        BY <1>3, <2>3
      <4>4. QED
        BY <1>2, <1>3, <1>5, <4>1, <4>2, <4>3
    <3>2. CASE req'[h].pc = "failed"
      <4>1. Failures(s)' = client[s].tries + 1
        BY <2>3, <3>2
      <4>2. CASE req[h].pc = "failed"
        <5>1. Failures(s) = client[s].tries + 1
          BY <2>3, <4>2
        <5>2. QED
          BY <1>2, <1>3, <1>5, <4>1, <5>1
      <4>3. CASE req[h].pc # "failed"
        <5>1. Failures(s) = client[s].tries + 0 /\ faults' = faults + 1
          BY <2>2, <2>3, <3>2, <4>3
        <5>2. QED
          BY <1>2, <1>3, <1>5, <4>1, <5>1
      <4>4. QED
        BY <4>2, <4>3
    <3>3. QED
      BY <3>1, <3>2
  <2>5. QED
    BY <1>5, <1>7, <2>1, <2>2, <2>4
<1>8. QED
  BY <1>6, <1>7

LEMMA TriesBound ==
    ASSUME Typed, Telegram, NEW s \in Sessions \ Disk, client[s].next < Chunks
    PROVE  /\ client[s].tries <= faults
           /\ client[s].pc = "wait" => req[client[s].h].pc # "refused"
           /\ client[s].pc = "wait" /\ req[client[s].h].pc = "failed" => client[s].tries + 1 <= faults
           /\ client[s].pc = "failed" => faults >= 3
<1>1. /\ Failures(s) <= faults
      /\ client[s].pc = "failed" => faults >= 3
      /\ client[s].pc = "wait" => req[client[s].h].pc # "refused"
  BY DEF Telegram, Resends
<1>2. client[s].tries \in 0..2 /\ faults \in Nat
  BY UploadAssumption DEF Typed, Item
<1>3. CASE client[s].pc = "wait" /\ req[client[s].h].pc = "failed"
  <2>1. Failures(s) = client[s].tries + 1
    BY <1>3 DEF Failures
  <2>2. QED
    BY <1>1, <1>2, <2>1
<1>4. CASE ~(client[s].pc = "wait" /\ req[client[s].h].pc = "failed")
  <2>1. Failures(s) = client[s].tries + 0
    BY <1>4 DEF Failures
  <2>2. QED
    BY <1>1, <1>2, <1>4, <2>1
<1>5. QED
  BY <1>3, <1>4

\* An item that is about to send.
LEMMA ResendsSends ==
    ASSUME NEW s \in Sessions, client'[s].pc = "send", client'[s].next < Chunks => client'[s].tries <= faults',
           Clients'
    PROVE  Resends(s)'
<1>1. client'[s].tries \in 0..2
  BY DEF Clients, Item
<1>2. Failures(s)' = client'[s].tries + 0
  BY DEF Failures
<1>3. client'[s].next < Chunks => Failures(s)' <= faults'
  BY <1>1, <1>2
<1>4. QED
  BY <1>3 DEF Resends

\* An item that counts a failure.
LEMMA ResendsCounts ==
    ASSUME Typed, Clients', NEW s \in Sessions, client'[s] = TryAgain(client[s]), faults' \in Nat,
           client[s].next < Chunks => client[s].tries + 1 <= faults'
    PROVE  Resends(s)'
<1>1. client[s] \in Item /\ client[s].tries \in 0..2
  BY DEF Typed, Item
<1>2. CASE client[s].next < Chunks /\ client[s].tries < 2
  <2>1. client'[s].pc = "send" /\ client'[s].tries = client[s].tries + 1
    BY <1>1, <1>2, TriesAgain
  <2>2. QED
    BY <1>2, <2>1, ResendsSends
<1>3. CASE client[s].next < Chunks /\ ~(client[s].tries < 2)
  <2>1. client'[s].pc = "failed" /\ client'[s].tries = client[s].tries /\ client'[s].next = client[s].next
    BY <1>1, <1>3, TriesAgain
  <2>2. Failures(s)' = client'[s].tries + 0
    BY <2>1 DEF Failures
  <2>3. faults' >= 3 /\ client'[s].tries = 2
    BY <1>1, <1>3, <2>1
  <2>4. Failures(s)' <= faults'
    BY <2>2, <2>3
  <2>5. QED
    BY <2>1, <2>3, <2>4 DEF Resends
<1>4. CASE ~(client[s].next < Chunks)
  <2>1. ~(client'[s].next < Chunks)
    BY <1>1, <1>4, TriesAgain
  <2>2. QED
    BY <2>1 DEF Resends
<1>5. QED
  BY <1>2, <1>3, <1>4

LEMMA ResendsStep ==
    ASSUME Typed, Browsing, Telegram, Next, NEW s \in Sessions \ Disk
    PROVE  Resends(s)'
<1>1. Requests /\ Clients /\ Clients' /\ client[s] \in Item
  BY TypedParts, ReqClientsStep DEF Clients
<1>2. faults \in Nat /\ (faults' = faults \/ faults' = faults + 1)
  BY FaultsCount
<1>3. client[s].tries \in 0..2
  BY <1>1 DEF Item
<1>4. ASSUME client'[s] = client[s], req' = req PROVE Resends(s)'
  BY <1>4, ResendsKept
<1>5. ASSUME NEW t \in Sessions, OpenSession(t) \/ Retry(t) \/ AnswerLost(t) PROVE Resends(s)'
  <2>1. req' = req /\ ItemsKept(t)
    BY <1>1, <1>5, OpenSessionItem, RetryItem, AnswerLostItem DEF OpenSession, Retry, AnswerLost
  <2>2. CASE t # s
    BY <1>4, <2>1, <2>2 DEF ItemsKept
  <2>3. CASE t = s /\ (OpenSession(t) \/ Retry(t))
    <3>1. client'[s].pc = "send" /\ client'[s].tries = 0
      BY <1>1, <2>3, OpenSessionItem, RetryItem DEF Browsing, Opened
    <3>2. 0 <= faults'
      BY <1>2
    <3>3. QED
      BY <1>1, <3>1, <3>2, ResendsSends
  <2>4. CASE t = s /\ AnswerLost(t)
    <3>1. client'[s] = TryAgain(client[s]) /\ faults' = faults + 1
      BY <1>1, <2>4, AnswerLostItem DEF AnswerLost, Fault
    <3>2. client[s].next < Chunks => client[s].tries <= faults
      BY TriesBound
    <3>3. client[s].next < Chunks => client[s].tries + 1 <= faults'
      BY <1>2, <1>3, <3>1, <3>2
    <3>4. faults' \in Nat
      BY <1>2
    <3>5. QED
      BY <1>1, <3>1, <3>3, <3>4, ResendsCounts
  <2>5. QED
    BY <1>5, <2>2, <2>3, <2>4
<1>6. CASE Restart
  <2>1. client'[s] = IF client[s].pc = "wait" THEN TryAgain(client[s]) ELSE client[s]
    BY <1>1, <1>6, RestartItems
  <2>2. CASE client[s].pc = "wait"
    <3>1. faults' = faults + 1
      BY <1>6 DEF Restart, Fault
    <3>2. client[s].next < Chunks => client[s].tries <= faults
      BY TriesBound
    <3>3. client[s].next < Chunks => client[s].tries + 1 <= faults'
      BY <1>2, <1>3, <3>1, <3>2
    <3>4. faults' \in Nat
      BY <1>2
    <3>5. QED
      BY <1>1, <2>1, <2>2, <3>3, <3>4, ResendsCounts
  <2>3. CASE client[s].pc # "wait"
    <3>1. \A h \in Handlers : req'[h].pc = "idle"
      BY <1>6, Nothing DEF Restart
    <3>2. QED
      BY <2>1, <2>3, <3>1, ResendsKept
  <2>4. QED
    BY <2>2, <2>3
<1>7. ASSUME NEW t \in Sessions, NEW h \in Handlers, SendChunk(t, h) \/ SendComplete(t, h)
      PROVE  Resends(s)'
  <2>1. /\ Others(h) /\ req[h] = NoReq /\ client[t].pc = "send" /\ req'[h].s = t
        /\ req'[h].pc = (IF session[t] # "open" THEN "refused" ELSE "hash")
    BY <1>1, <1>7, RequestSteps
  <2>2. ItemsKept(t) /\ client'[t].pc = "wait" /\ client'[t].next = client[t].next
        /\ client'[t].tries = client[t].tries /\ client'[t].h = h
    BY <1>1, <1>7, RequestItem
  <2>3. CASE t # s
    <3>1. ASSUME NEW g \in Handlers, req[g].op = "chunk" PROVE req'[g] = req[g]
      <4>1. g # h
        BY <2>1, <3>1, Nothing
      <4>2. QED
        BY <2>1, <4>1 DEF Others
    <3>2. client'[s] = client[s]
      BY <2>2, <2>3 DEF ItemsKept
    <3>3. QED
      BY <3>1, <3>2, ResendsKept
  <2>4. CASE t = s
    <3>1. ASSUME client[s].next < Chunks PROVE req'[h].pc = "hash" /\ client[s].tries <= faults
      <4>1. session[s] = "open"
        BY <2>1, <2>4, <3>1 DEF Browsing, Opened
      <4>2. QED
        BY <2>1, <2>4, <3>1, <4>1, TriesBound
    <3>2. client[s].next < Chunks => Failures(s)' = client[s].tries + 0
      BY <2>2, <2>4, <3>1 DEF Failures
    <3>3. client[s].next < Chunks => Failures(s)' <= faults'
      BY <1>2, <1>3, <3>1, <3>2
    <3>4. QED
      BY <2>2, <2>4, <3>1, <3>3 DEF Resends
  <2>5. QED
    BY <2>3, <2>4
<1>8. ASSUME NEW h \in Handlers, Reply(h) PROVE Resends(s)'
  <2>1. Others(h) /\ req'[h] = NoReq /\ req[h].pc \in {"ok", "refused", "failed"}
    BY <1>1, <1>8, ReplySteps
  <2>2. /\ ItemsKept(req[h].s)
        /\ client'[req[h].s] = IF client[req[h].s].h # h THEN client[req[h].s]
                               ELSE IF req[h].pc = "ok" THEN Succeed(client[req[h].s])
                               ELSE TryAgain(client[req[h].s])
    BY <1>1, <1>8, ReplyItem
  <2>3. CASE client'[s] = client[s]
    <3>1. \A g \in Handlers : req'[g] = req[g] \/ req'[g].pc = "idle"
      BY <2>1, Nothing DEF Others
    <3>2. QED
      BY <2>3, <3>1, ResendsKept
  <2>4. CASE client'[s] # client[s]
    <3>1. /\ req[h].s = s /\ client[s].h = h
          /\ client'[s] = IF req[h].pc = "ok" THEN Succeed(client[s]) ELSE TryAgain(client[s])
      BY <2>2, <2>4 DEF ItemsKept
    <3>2. client[s].pc = "wait"
      BY <3>1, UploadAssumption DEF Browsing, Waits
    <3>3. CASE req[h].pc = "ok"
      <4>1. CASE client[s].next < Chunks
        <5>1. client'[s].pc = "send" /\ client'[s].tries = 0 /\ 0 <= faults'
          BY <1>1, <1>2, <3>1, <3>3, <4>1, Succeeds
        <5>2. QED
          BY <1>1, <5>1, ResendsSends
      <4>2. CASE ~(client[s].next < Chunks)
        <5>1. ~(client'[s].next < Chunks)
          BY <1>1, <3>1, <3>3, <4>2, Succeeds
        <5>2. QED
          BY <5>1 DEF Resends
      <4>3. QED
        BY <4>1, <4>2
    <3>4. CASE req[h].pc # "ok"
      <4>1. client[s].next < Chunks => client[s].tries + 1 <= faults
        BY <2>1, <3>1, <3>2, <3>4, TriesBound
      <4>2. faults' = faults
        BY <1>8 DEF Reply
      <4>3. QED
        BY <1>1, <1>2, <3>1, <3>4, <4>1, <4>2, ResendsCounts
    <3>5. QED
      BY <3>3, <3>4
  <2>5. QED
    BY <2>3, <2>4
<1>9. ASSUME NEW h \in Handlers, Handle(h) \/ (\E f \in Files : Purge(h, f)), ~Reply(h)
      PROVE  Resends(s)'
  <2>1. client'[s] = client[s]
    BY <1>9, ItemsStay
  <2>2. Others(h)
    BY <1>9, SendingHandled
  <2>3. ASSUME req[h].op = "chunk", req[h].s = s, session[s] = "open"
        PROVE  /\ req'[h].pc = "refused" => req[h].pc = "refused"
               /\ req'[h].pc = "failed" => req[h].pc = "failed" \/ faults' = faults + 1
    <3>1. CASE ChunkHash(h)
      BY <1>1, <3>1, ChunkHashSteps
    <3>2. CASE PartSave(h)
      BY <1>1, <2>3, <3>2, PartSaveSteps
    <3>3. CASE PartsSaved(h)
      BY <1>1, <3>3, PartsSavedMoves DEF ChunkMoves, Moves
    <3>4. CASE SaveFails(h)
      <4>1. faults' = faults + 1
        BY <3>4 DEF SaveFails, Fault
      <4>2. req'[h].pc = "failed"
        BY <1>1, <3>4, SaveFailsMoves DEF ChunkMoves, Moves
      <4>3. QED
        BY <4>1, <4>2
    <3>5. CASE ChunkStat(h) \/ ChunkAppend(h) \/ ShortWrite(h)
      BY <1>1, <2>3, <3>5, ChunkStatMoves, ChunkAppendMoves, ShortWriteMoves
    <3>6. CASE \/ TakeHash(h) \/ Commit(h) \/ CommitFails(h) \/ CheckStaged(h) \/ Find(h)
               \/ DropObject(h) \/ DeleteOld(h) \/ (\E f \in Files : Create(h, f))
               \/ Rename(h) \/ Undo(h) \/ Point(h) \/ CloseSession(h) \/ (\E f \in Files : Purge(h, f))
      <4>1. req[h].pc \in {"commit", "check", "find", "drop", "delete", "create", "rename", "undo", "point", "close"}
            \/ req[h].op = "complete" \/ req[h] = NoReq
        BY <3>6 DEF TakeHash, Commit, CommitFails, CheckStaged, Find, DropObject, DeleteOld, Create,
                    Rename, Undo, Point, CloseSession, Purge
      <4>2. req[h].op # "chunk"
        BY <1>1, <4>1, WhatItIs, Nothing
      <4>3. QED
        BY <2>3, <4>2
    <3>7. QED
      BY <1>9, <3>1, <3>2, <3>3, <3>4, <3>5, <3>6 DEF Handle
  <2>4. QED
    BY <2>1, <2>2, <2>3, ResendsKept DEF Others
<1>10. QED
  BY <1>5, <1>6, <1>7, <1>8, <1>9 DEF Next, Browser

LEMMA TelegramInit == Init => Telegram
<1> SUFFICES ASSUME Init PROVE Telegram
  OBVIOUS
<1>1. /\ \A s \in Sessions : client[s] = NewItem /\ saved[s] = {}
      /\ \A h \in Handlers : req[h] = NoReq
      /\ \A f \in Files : file[f] = NoFile
      /\ faults = 0
  BY DEF Init
<1>2. NewItem.pc = "new" /\ NewItem.next = 0 /\ NewItem.tries = 0 /\ NoFile.st = "none"
      /\ NoReq.s = None /\ None \notin Sessions
  BY UploadAssumption DEF NewItem, NoFile, NoReq
<1>3. ASSUME NEW s \in Sessions PROVE Resends(s) /\ Between(0, client[s].next) \subseteq saved[s]
  <2>1. Failures(s) = 0
    BY <1>1, <1>2 DEF Failures
  <2>2. QED
    BY <1>1, <1>2, <2>1, AllParts DEF Resends
<1>4. QED
  BY <1>1, <1>2, <1>3 DEF Telegram, Rows

\* What Telegram holds of the uploads, and how often they have failed.
LEMMA TelegramStep == ASSUME Typed, Browsing, Telegram, Next PROVE Telegram'
<1>1. \A s \in Sessions \ Disk : Resends(s)'
  BY ResendsStep
<1>2. Held'
  BY HeldStep
<1>3. \A g \in Handlers : req'[g].s \in Sessions \ Disk => Sending(g)'
  BY SendingStep
<1>4. \A f \in Files : file'[f].st = "row" /\ file'[f].s \in Sessions \ Disk => file'[f].parts = PartSet
  BY RowsPartsStep
<1>5. QED
  BY <1>1, <1>2, <1>3, <1>4 DEF Telegram, Held, Rows

-----------------------------------------------------------------------------
(* Rows and the requests that make or delete them. *)

LEMMA NamedInit == Init => Named
<1> SUFFICES ASSUME Init PROVE Named
  OBVIOUS
<1>1. (\A h \in Handlers : req[h].pc = "idle") /\ \A f \in Files : file[f].st = "none" /\ file[f].path = "none"
  BY NothingIs, Nothing DEF Init
<1>2. QED
  BY <1>1 DEF Named, Made, Making

\* A request comes to make a file by creating its row.
Continues(g) ==
    Making(g) /\ req'[g].f = req[g].f /\ req'[g].s = req[g].s /\ req'[g].sha = req[g].sha

LEMMA MakingHandled ==
    ASSUME Typed, NEW h \in Handlers, Handle(h) \/ \E f \in Files : Purge(h, f), Making(h)'
    PROVE  (\E f \in Files : Create(h, f)) \/ Continues(h)
<1>1. Requests /\ StoresTyped
  BY TypedParts
<1>2. req'[h].pc \in {"rename", "undo", "point"}
  BY DEF Making
<1>3. CASE \/ ChunkHash(h) \/ PartSave(h) \/ PartsSaved(h) \/ SaveFails(h)
           \/ ChunkStat(h) \/ ChunkAppend(h) \/ ShortWrite(h)
  BY <1>1, <1>2, <1>3, ChunkHashSteps, PartSaveSteps, PartsSavedMoves, SaveFailsMoves,
     ChunkStatMoves, ChunkAppendMoves, ShortWriteMoves DEF ChunkMoves, Moves
<1>4. CASE TakeHash(h) \/ Commit(h) \/ CommitFails(h) \/ CheckStaged(h) \/ Find(h) \/ DropObject(h)
  BY <1>1, <1>2, <1>4, TakeHashSteps, CommitSteps, CommitFailsMoves, CheckStagedMoves,
     FindSteps, DropObjectMoves DEF EndMoves, Moves, StoresTyped
<1>5. CASE DeleteOld(h) \/ Reply(h) \/ (\E f \in Files : Purge(h, f)) \/ CloseSession(h) \/ Point(h) \/ Undo(h)
  BY <1>1, <1>2, <1>5, DeleteOldSteps, ReplySteps, PurgeSteps, CloseMoves, PointMoves, UndoMoves, Nothing
     DEF EndMoves, Moves
<1>6. CASE Rename(h)
  BY <1>1, <1>2, <1>6, RenameMoves DEF EndMoves, Moves, Continues, Making, CallerKept, FileKept
<1>7. QED
  BY <1>3, <1>4, <1>5, <1>6 DEF Handle

\* Requests move one at a time, or are all gone.
LEMMA OneMoves ==
    ASSUME Typed, Browsing, Telegram, Next
    PROVE  \/ req' = req /\ \E s \in Sessions : OpenSession(s) \/ AnswerLost(s) \/ Retry(s)
           \/ Restart /\ \A h \in Handlers : req'[h] = NoReq
           \/ \E s \in Sessions, h \in Handlers :
                /\ SendChunk(s, h) \/ SendComplete(s, h)
                /\ Others(h) /\ req[h] = NoReq /\ req'[h].s = s /\ req'[h].pc \in {"refused", "hash"}
           \/ \E h \in Handlers : Others(h) /\ (Handle(h) \/ \E f \in Files : Purge(h, f))
<1>1. Requests /\ Clients
  BY TypedParts
<1>2. ASSUME NEW s \in Sessions, OpenSession(s) \/ AnswerLost(s) \/ Retry(s) PROVE req' = req
  BY <1>2 DEF OpenSession, AnswerLost, Retry
<1>3. Restart => \A h \in Handlers : req'[h] = NoReq
  BY DEF Restart
<1>4. ASSUME NEW s \in Sessions, NEW h \in Handlers, SendChunk(s, h) \/ SendComplete(s, h)
      PROVE  Others(h) /\ req[h] = NoReq /\ req'[h].s = s /\ req'[h].pc \in {"refused", "hash"}
  BY <1>1, <1>4, RequestSteps
<1>5. ASSUME NEW h \in Handlers, Handle(h) \/ \E f \in Files : Purge(h, f) PROVE Others(h)
  BY <1>5, SendingHandled
<1>6. QED
  BY <1>2, <1>3, <1>4, <1>5 DEF Next, Browser

LEMMA MakingFrom ==
    ASSUME Typed, Browsing, Telegram, Next, NEW g \in Handlers, Making(g)'
    PROVE  (\E f \in Files : Create(g, f)) \/ Continues(g)
<1>1. req'[g].pc \in {"rename", "undo", "point"}
  BY DEF Making
<1>2. CASE req'[g] = req[g]
  BY <1>1, <1>2 DEF Continues, Making
<1>3. CASE Restart
  BY <1>1, <1>3, Nothing DEF Restart
<1>4. ASSUME NEW s \in Sessions, NEW h \in Handlers, Others(h), req'[h].pc \in {"refused", "hash"}
      PROVE  Continues(g)
  BY <1>1, <1>2, <1>4 DEF Others, Continues, Making
<1>5. ASSUME NEW h \in Handlers, Others(h), Handle(h) \/ \E f \in Files : Purge(h, f)
      PROVE  (\E f \in Files : Create(g, f)) \/ Continues(g)
  <2>1. CASE g = h
    BY <1>5, <2>1, MakingHandled
  <2>2. CASE g # h
    BY <1>2, <1>5, <2>2 DEF Others
  <2>3. QED
    BY <2>1, <2>2
<1>6. QED
  BY <1>2, <1>3, <1>4, <1>5, OneMoves

\* A row that a request has made keeps its name.
LEMMA MadeStep ==
    ASSUME Typed, Browsing, Telegram, Named, Next, NEW g \in Handlers
    PROVE  Made(g)'
<1> SUFFICES ASSUME Making(g)'
             PROVE  /\ file'[req'[g].f].st # "none"
                    /\ file'[req'[g].f].st = "row" => /\ file'[req'[g].f].s = req'[g].s
                                                      /\ file'[req'[g].f].sha = req'[g].sha
  BY DEF Made, Rows
<1>1. Requests /\ StoresTyped /\ file \in [Files -> Entry]
  BY TypedParts DEF StoresTyped
<1>2. ASSUME NEW f \in Files, Create(g, f)
      PROVE  /\ file'[req'[g].f].st # "none"
             /\ file'[req'[g].f].st = "row" => /\ file'[req'[g].f].s = req'[g].s
                                               /\ file'[req'[g].f].sha = req'[g].sha
  BY <1>1, <1>2, CreateSteps, CreatedIs DEF CallerKept
<1>3. CASE Continues(g)
  <2>1. Making(g) /\ Made(g) /\ req'[g].f = req[g].f /\ req'[g].s = req[g].s /\ req'[g].sha = req[g].sha
    BY <1>3 DEF Continues, Named
  <2>2. PICK f \in Files : f = req[g].f
    BY <1>1, <2>1 DEF Requests, Called, Making
  <2>3. file[f].st # "none" /\ (file[f].st = "row" => file[f].s = req[g].s /\ file[f].sha = req[g].sha)
    BY <2>1, <2>2 DEF Made, Rows
  <2>4. \A h \in Handlers : ~Create(h, f)
    BY <2>3 DEF Create
  <2>5. QED
    BY <2>1, <2>2, <2>3, <2>4, RowsMove
<1>4. QED
  BY <1>2, <1>3, MakingFrom

LEMMA NamedStep == ASSUME Typed, Browsing, Telegram, Named, Next PROVE Named'
<1>1. Requests /\ StoresTyped /\ file \in [Files -> Entry]
  BY TypedParts DEF StoresTyped
<1>2. \A g \in Handlers : Made(g)'
  BY MadeStep
<1>3. ASSUME NEW g \in Handlers, NEW h \in Handlers, Making(g)', Making(h)', req'[g].f = req'[h].f
      PROVE  g = h
  <2>1. ASSUME NEW a \in Handlers, NEW b \in Handlers, NEW f \in Files, Create(a, f), Continues(b)
        PROVE  req'[a].f # req'[b].f
    <3>1. req'[a].f = f /\ file[f].st = "none"
      BY <1>1, <2>1, CreateSteps DEF Create
    <3>2. req'[b].f = req[b].f /\ Making(b) /\ Made(b)
      BY <2>1 DEF Continues, Named
    <3>3. QED
      BY <3>1, <3>2 DEF Made
  <2>2. CASE Continues(g) /\ Continues(h)
    BY <1>3, <2>2 DEF Continues, Named
  <2>3. CASE (\E f \in Files : Create(g, f)) /\ (\E f \in Files : Create(h, f))
    <3>1. Others(g) /\ Others(h) /\ req[g].pc = "create" /\ req'[g].pc \in {"rename", "close"}
      BY <1>1, <2>3, CreateSteps
    <3>2. QED
      BY <3>1 DEF Others
  <2>4. QED
    BY <1>3, <2>1, <2>2, <2>3, MakingFrom
<1>4. ASSUME NEW f \in Files, file'[f].st = "row" PROVE file'[f].s \in Sessions
  BY <1>1, <1>4, RowsMove, CreatedIs, CreateSteps DEF Named
<1>5. ASSUME NEW f \in Files, file'[f].path = "object" PROVE file'[f].s \in Disk
  <2>1. file[f].path = "object" => file[f].s \in Disk
    BY DEF Named
  <2>2. ASSUME NEW h \in Handlers, Point(h), req[h].f = f, f \in Rows, file'[f].s = file[f].s
        PROVE  file'[f].s \in Disk
    <3>1. req[h].pc = "point" /\ Made(h) /\ req[h].s \in Disk
      BY <1>1, <2>2, PointMoves DEF Point, Named
    <3>2. QED
      BY <2>2, <3>1 DEF Made, Making
  <2>3. QED
    BY <1>1, <1>5, <2>1, <2>2, RowsMove, CreatedIs
<1>6. QED
  BY <1>2, <1>3, <1>4, <1>5 DEF Named

-----------------------------------------------------------------------------
(* Uploads to the disk: places in a staging file. *)

LEMMA AtOne ==
    ASSUME NEW s \in Sessions, NEW i \in 0..Chunks, NEW j \in 0..Chunks, At(s, i), At(s, j)
    PROVE  i = j
<1>1. Len(Prefix(End(i))) = End(i) /\ Len(Prefix(End(j))) = End(j)
  BY Grows
<1>2. End(i) = End(j)
  BY <1>1 DEF At
<1>3. End(i) \in Int /\ End(j) \in Int /\ i \in Int /\ j \in Int
  BY Ends
<1>4. (i < j => End(i) < End(j)) /\ (j < i => End(j) < End(i))
  BY EndsGrow
<1>5. QED
  BY <1>2, <1>3, <1>4

\* The size of a staging file tells the chunks in it.
LEMMA SizeTells ==
    ASSUME NEW s \in Sessions, NEW j \in 0..Chunks, At(s, j)
    PROVE  /\ StagedSize(s) = End(j)
           /\ StagedSize(s) >= Size <=> j = Chunks
           /\ StagedSize(s) = Size <=> j = Chunks
           /\ j # Chunks => StagedSize(s) \div ChunkParts = j
<1>1. Len(Prefix(End(j))) = End(j) /\ End(j) \in 0..Size /\ Size \in Nat /\ Chunks \in Nat
  BY Grows, Ends, Sizes
<1>2. Len(<<>>) = 0
  OBVIOUS
<1>3. StagedSize(s) = End(j)
  BY <1>1, <1>2 DEF At, Bytes, StagedSize
<1>4. CASE j = Chunks
  BY <1>1, <1>3, <1>4, Ends
<1>5. CASE j # Chunks
  <2>1. j < Chunks
    BY <1>1, <1>5
  <2>2. End(j) < Size /\ End(j) \div ChunkParts = j
    BY <2>1, Products
  <2>3. QED
    BY <1>1, <1>3, <1>5, <2>2
<1>6. QED
  BY <1>4, <1>5

LEMMA WholeAt == ASSUME NEW s \in Sessions, At(s, Chunks) PROVE staged[s] = WholeSeq
<1>1. Bytes(s) = WholeSeq
  BY Grows DEF At
<1>2. WholeSeq # <<>>
  <2>1. Len(WholeSeq) = Size /\ Size # 0 /\ Len(<<>>) = 0
    BY WholeFile, Sizes
  <2>2. QED
    BY <2>1
<1>3. QED
  BY <1>1, <1>2 DEF Bytes

LEMMA EmptyAt == ASSUME NEW s \in Sessions, Bytes(s) = <<>> PROVE At(s, 0)
<1>1. 0 \in 0..Chunks
  BY Sizes
<1>2. QED
  BY <1>1, Grows DEF At

\* A chunk is appended in its place.
LEMMA AtNext ==
    ASSUME NEW s \in Sessions, NEW k \in 0..Chunks, k < Chunks, At(s, k), Bytes(s)' = Bytes(s) \o PartsOf(k)
    PROVE  At(s, k + 1)' /\ k + 1 \in 0..Chunks
<1>1. k + 1 \in 0..Chunks
  BY Ends
<1>2. Bytes(s) = Prefix(End(k)) /\ Prefix(End(k)) \o PartsOf(k) = Prefix(End(k + 1))
  BY Grows DEF At
<1>3. Bytes(s)' = Prefix(End(k + 1))
  BY <1>2
<1>4. QED
  BY <1>1, <1>3 DEF At, Prefix, End, WholeSeq

-----------------------------------------------------------------------------
(* Steps that leave an upload as it is. *)

TakenPcs == {"check", "find", "drop", "delete", "create", "rename"}

\* The request goes from a statement to one that is no different for the staging file.
Alike(g) ==
    /\ CallerKept(g) /\ req'[g].sha = req[g].sha
    /\ \A p \in {"stat", "append", "check"} : req'[g].pc = p <=> req[g].pc = p
    /\ req[g].op = "chunk" => (req'[g].pc = "ok" <=> req[g].pc = "ok")
    /\ req'[g].pc \in TakenPcs <=> req[g].pc \in TakenPcs

SameRequests(s) == \A g \in Handlers : req[g].s = s \/ req'[g].s = s => Alike(g)

SameMarks(s) == /\ s \in ended' <=> s \in ended
                /\ s \in overlapped' <=> s \in overlapped
                /\ s \in unfollowed' <=> s \in unfollowed

SameUpload(s) == /\ client'[s].next = client[s].next /\ ledger'[s] = ledger[s] /\ staged'[s] = staged[s]
                 /\ SameMarks(s)

\* Two requests are of one kind for an upload.
SameKind(g, s) ==
    /\ req'[g].s = s <=> req[g].s = s
    /\ Chunking(g, s)' <=> Chunking(g, s)
    /\ Writing(g, s)' <=> Writing(g, s)
    /\ Appending(g, s)' <=> Appending(g, s)
    /\ Taken(g, s)' <=> Taken(g, s)
    /\ Checked(g, s)' <=> Checked(g, s)
    /\ Chunking(g, s) => req'[g].k = req[g].k /\ (req'[g].pc = "ok" <=> req[g].pc = "ok")
    /\ Taken(g, s) => req'[g].sha = req[g].sha

LEMMA KindKept == ASSUME NEW s, NEW g \in Handlers, SameRequests(s) PROVE SameKind(g, s)
<1>1. CASE req[g].s = s \/ req'[g].s = s
  <2>1. Alike(g)
    BY <1>1 DEF SameRequests
  <2>2. QED
    BY <2>1 DEF Alike, SameKind, CallerKept, Chunking, Ending, Writing, Appending, Taken, Checked, TakenPcs
<1>2. CASE ~(req[g].s = s \/ req'[g].s = s)
  BY <1>2 DEF SameKind, Chunking, Ending, Writing, Appending, Taken, Checked
<1>3. QED
  BY <1>1, <1>2

LEMMA AtKept == ASSUME NEW s, staged'[s] = staged[s], NEW j PROVE At(s, j)' <=> At(s, j)
BY DEF At, Bytes, Prefix, End, WholeSeq

LEMMA OnDiskKept ==
    ASSUME NEW s \in Sessions, OnDisk(s), SameRequests(s), SameUpload(s)
    PROVE  OnDisk(s)'
<1>1. \A g \in Handlers : SameKind(g, s)
  BY KindKept
<1>2. \A j : At(s, j)' <=> At(s, j)
  BY AtKept DEF SameUpload
<1>3. Fits(s) => Fits(s)'
  BY <1>1, <1>2 DEF Fits, SameKind, Appending
<1>4. Acked(s) => Acked(s)'
  BY <1>1, <1>2 DEF Acked, SameKind, SameUpload
<1>5. Followed(s) => Followed(s)'
  <2>1. ASSUME Followed(s), NEW h \in Handlers, Writing(h, s)' PROVE Writing(h, s) /\ req'[h].k = req[h].k
    BY <1>1, <2>1 DEF SameKind, Writing
  <2>2. QED
    BY <1>3, <1>4, <2>1 DEF Followed, SameUpload
<1>6. Restarted(s) => Restarted(s)'
  BY <1>1, <1>4 DEF Restarted, SameKind, SameUpload
<1>7. Vouched(s) => Vouched(s)'
  <2>1. SUFFICES ASSUME Vouched(s) PROVE Vouched(s)'
    OBVIOUS
  <2>2. s \notin ended' => /\ ledger'[s] \in 1..Chunks => Followed(s)'
                           /\ ledger'[s] = None => Restarted(s)'
    BY <1>5, <1>6, <2>1 DEF Vouched, SameUpload, SameMarks
  <2>3. \A g, h \in Handlers : Taken(g, s)' /\ Taken(h, s)' => g = h
    BY <1>1, <2>1 DEF Vouched, SameKind
  <2>4. \A h \in Handlers : Taken(h, s)' /\ req'[h].sha = "right" =>
          staged'[s] = WholeSeq /\ \A g \in Handlers : ~Appending(g, s)'
    BY <1>1, <2>1 DEF Vouched, SameKind, SameUpload
  <2>5. QED
    BY <2>2, <2>3, <2>4 DEF Vouched, Chunks, WholeSeq
<1>8. Alone(s) => Alone(s)'
  <2>1. SUFFICES ASSUME Alone(s) PROVE Alone(s)'
    OBVIOUS
  <2>2. \A g, h \in InFlight(s)' : g = h
    BY <1>1, <2>1 DEF Alone, InFlight, SameKind
  <2>3. Placed(s)'
    BY <1>2, <2>1 DEF Alone, Placed
  <2>4. \A h \in Handlers : Checked(h, s)' => staged'[s] = WholeSeq
    BY <1>1, <2>1 DEF Alone, SameKind, SameUpload
  <2>5. s \in ended' => ledger'[s] = None /\ \A h \in Handlers : ~Chunking(h, s)'
    BY <1>1, <2>1 DEF Alone, SameKind, SameUpload, SameMarks
  <2>6. s \notin ended' => Acked(s)'
    BY <1>4, <2>1 DEF Alone, SameUpload, SameMarks
  <2>7. QED
    BY <1>3, <2>1, <2>2, <2>3, <2>4, <2>5, <2>6 DEF Alone, WholeSeq
<1>9. QED
  BY <1>1, <1>7, <1>8 DEF OnDisk, SameKind, SameUpload, SameMarks

-----------------------------------------------------------------------------
(* Steps of the requests for one disk upload. *)

\* What a staging file has, once the end has been asked for and the chunks are in.
LEMMA AllIn ==
    ASSUME NEW s \in Sessions, Acked(s), client[s].next = Chunks
    PROVE  At(s, Chunks)
<1>1. PICK j \in 0..Chunks : At(s, j) /\ Chunks <= j
  BY DEF Acked
<1>2. j = Chunks
  BY <1>1, Sizes
<1>3. QED
  BY <1>1, <1>2

LEMMA OnDiskAsks ==
    ASSUME Typed, Browsing, NEW s \in Disk, OnDisk(s), NEW h \in Handlers, SendChunk(s, h) \/ SendComplete(s, h)
    PROVE  OnDisk(s)'
<1>1. Requests /\ Clients /\ s \in Sessions
  BY TypedParts, UploadAssumption
<1>2. /\ Others(h) /\ req[h] = NoReq /\ client[s].next \in 0..Chunks
      /\ req'[h].op = (IF client[s].next < Chunks THEN "chunk" ELSE "complete")
      /\ req'[h].s = s /\ req'[h].k = client[s].next /\ req'[h].pc \in {"refused", "hash"}
  BY <1>1, RequestSteps
<1>3. client'[s].next = client[s].next
  BY <1>1, RequestItem
<1>4. /\ UNCHANGED <<ledger, staged, unfollowed, ended>>
      /\ overlapped' = IF InFlight(s) # {} THEN overlapped \cup {s} ELSE overlapped
  BY DEF SendChunk, SendComplete, Request, Stores
<1>5. ASSUME NEW g \in Handlers, g # h PROVE SameKind(g, s)
  BY <1>2, <1>5 DEF Others, SameKind, Chunking, Ending, Writing, Appending, Taken, Checked
<1>6. /\ ~Chunking(h, s) /\ ~Taken(h, s) /\ ~Writing(h, s)' /\ ~Appending(h, s)' /\ ~Taken(h, s)'
      /\ ~Checked(h, s)' /\ ~(Chunking(h, s)' /\ req'[h].pc = "ok")
      /\ Chunking(h, s)' => client[s].next < Chunks /\ req'[h].k = client[s].next
  BY <1>1, <1>2, Nothing DEF Chunking, Ending, Writing, Appending, Taken, Checked
<1>7. \A j : At(s, j)' <=> At(s, j)
  BY <1>4, AtKept
<1>8. Fits(s) => Fits(s)'
  BY <1>5, <1>6, <1>7 DEF Fits, SameKind, Appending
<1>9. Acked(s) => Acked(s)'
  <2>1. ASSUME NEW g \in Handlers, Chunking(g, s)', req'[g].pc = "ok"
        PROVE  Chunking(g, s) /\ req[g].pc = "ok" /\ req'[g].k = req[g].k
    BY <1>5, <1>6, <2>1 DEF SameKind
  <2>2. QED
    BY <1>3, <1>7, <2>1 DEF Acked
<1>10. Vouched(s) => Vouched(s)'
  <2>1. SUFFICES ASSUME Vouched(s) PROVE Vouched(s)'
    OBVIOUS
  <2>2. ASSUME s \notin ended, ledger[s] \in 1..Chunks PROVE Followed(s)'
    <3>1. Followed(s)
      BY <2>1, <2>2 DEF Vouched
    <3>2. ASSUME NEW g \in Handlers, Writing(g, s)' PROVE Writing(g, s) /\ req'[g].k = req[g].k
      BY <1>5, <1>6, <3>2 DEF SameKind, Writing
    <3>3. QED
      BY <1>4, <1>8, <1>9, <3>1, <3>2 DEF Followed
  <2>3. ASSUME s \notin ended, ledger[s] = None PROVE Restarted(s)'
    <3>1. Restarted(s)
      BY <2>1, <2>3 DEF Vouched
    <3>2. CASE Acked(s) /\ \A g \in Handlers : ~Writing(g, s)
      BY <1>5, <1>6, <1>9, <3>2 DEF Restarted, SameKind
    <3>3. CASE client[s].next >= 1 /\ \A g \in Handlers : Chunking(g, s) => req[g].k # 0
      <4>1. ASSUME NEW g \in Handlers, Chunking(g, s)' PROVE req'[g].k # 0
        BY <1>2, <1>5, <1>6, <3>3, <4>1 DEF SameKind
      <4>2. QED
        BY <1>3, <3>3, <4>1 DEF Restarted
    <3>4. QED
      BY <3>1, <3>2, <3>3 DEF Restarted
  <2>4. \A f, g \in Handlers : Taken(f, s)' /\ Taken(g, s)' => f = g
    BY <1>5, <1>6, <2>1 DEF Vouched, SameKind
  <2>5. \A f \in Handlers : Taken(f, s)' /\ req'[f].sha = "right" =>
          staged'[s] = WholeSeq /\ \A g \in Handlers : ~Appending(g, s)'
    BY <1>4, <1>5, <1>6, <2>1 DEF Vouched, SameKind, Appending
  <2>6. QED
    BY <1>4, <2>2, <2>3, <2>4, <2>5 DEF Vouched, Chunks, WholeSeq
<1>11. Alone(s) /\ InFlight(s) = {} /\ (s \in ended => client[s].next = Chunks) => Alone(s)'
  <2>1. SUFFICES ASSUME Alone(s), InFlight(s) = {}, s \in ended => client[s].next = Chunks PROVE Alone(s)'
    OBVIOUS
  <2>2. \A f, g \in InFlight(s)' : f = g
    BY <1>5, <2>1 DEF InFlight, SameKind
  <2>3. Placed(s)' /\ Fits(s)'
    BY <1>7, <1>8, <2>1 DEF Alone, Placed
  <2>4. \A g \in Handlers : Checked(g, s)' => staged'[s] = WholeSeq
    BY <1>4, <1>5, <1>6, <2>1 DEF Alone, SameKind
  <2>5. s \in ended => ledger[s] = None /\ \A g \in Handlers : ~Chunking(g, s)'
    <3>1. s \in ended => ~(client[s].next < Chunks)
      BY <2>1, Sizes
    <3>2. QED
      BY <1>5, <1>6, <2>1, <3>1 DEF Alone, SameKind
  <2>6. s \notin ended => Acked(s)'
    BY <1>9, <2>1 DEF Alone
  <2>7. QED
    BY <1>4, <2>2, <2>3, <2>4, <2>5, <2>6 DEF Alone, WholeSeq
<1>12. \A g \in Handlers : Taken(g, s)' => Taken(g, s)
  BY <1>5, <1>6 DEF SameKind
<1>13. QED
  BY <1>3, <1>4, <1>10, <1>11, <1>12 DEF OnDisk

LEMMA OnDiskReply ==
    ASSUME Typed, Browsing, NEW s \in Disk, OnDisk(s), NEW h \in Handlers, Reply(h), req[h].s = s, Next
    PROVE  OnDisk(s)'
<1>1. Requests /\ Clients /\ s \in Sessions
  BY TypedParts, UploadAssumption
<1>2. Others(h) /\ req'[h] = NoReq
  BY <1>1, ReplySteps
<1>3. UNCHANGED <<ledger, staged, overlapped, unfollowed, ended>>
  BY DEF Reply, Stores, histories
<1>4. ASSUME NEW g \in Handlers, g # h PROVE SameKind(g, s)
  BY <1>2, <1>4 DEF Others, SameKind, Chunking, Ending, Writing, Appending, Taken, Checked
<1>5. /\ req'[h].s # s /\ ~Chunking(h, s)' /\ ~Writing(h, s)' /\ ~Appending(h, s)' /\ ~Taken(h, s)' /\ ~Checked(h, s)'
  BY <1>1, <1>2, Nothing, UploadAssumption DEF Chunking, Ending, Writing, Appending, Taken, Checked
<1>6. \A j : At(s, j)' <=> At(s, j)
  BY <1>3, AtKept
<1>7. client[s].next \in 0..Chunks /\ Chunks \in Nat
  BY <1>1, Sizes DEF Clients, Item
<1>8. \/ client'[s].next = client[s].next
      \/ /\ Chunking(h, s) /\ req[h].pc = "ok" /\ req[h].k = client[s].next /\ client[s].next < Chunks
         /\ client'[s].next = client[s].next + 1
  <2>1. ASSUME NEW g \in Handlers, Advances(s, g) PROVE g = h
    <3>1. Reply(g)
      BY <2>1 DEF Advances
    <3>2. req' = [req EXCEPT ![g] = NoReq] /\ req[g] # NoReq /\ g \in Handlers
      BY <1>1, <3>1, ReplySteps, Nothing DEF Reply
    <3>3. QED
      BY <1>1, <1>2, <3>2 DEF Others, Requests
  <2>2. QED
    BY <1>1, <2>1, ItemsAdvance DEF Advances, Chunking
<1>9. Fits(s) => Fits(s)'
  BY <1>4, <1>5, <1>6 DEF Fits, SameKind, Appending
<1>10. Acked(s) => Acked(s)'
  <2>1. SUFFICES ASSUME Acked(s) PROVE Acked(s)'
    OBVIOUS
  <2>2. PICK j \in 0..Chunks : /\ At(s, j) /\ client[s].next <= j
                               /\ \A g \in Handlers : Chunking(g, s) /\ req[g].pc = "ok" => req[g].k < j
    BY <2>1 DEF Acked
  <2>3. client'[s].next <= j
    <3>1. CASE client'[s].next = client[s].next
      BY <2>2, <3>1
    <3>2. CASE client'[s].next # client[s].next
      <4>1. client[s].next < j /\ client'[s].next = client[s].next + 1
        BY <1>8, <2>2, <3>2
      <4>2. QED
        BY <1>7, <4>1
    <3>3. QED
      BY <3>1, <3>2
  <2>4. \A g \in Handlers : Chunking(g, s)' /\ req'[g].pc = "ok" => req'[g].k < j
    BY <1>4, <1>5, <2>2 DEF SameKind
  <2>5. QED
    BY <1>6, <2>2, <2>3, <2>4 DEF Acked, Chunks
<1>11. Vouched(s) => Vouched(s)'
  <2>1. SUFFICES ASSUME Vouched(s) PROVE Vouched(s)'
    OBVIOUS
  <2>2. ASSUME s \notin ended, ledger[s] \in 1..Chunks PROVE Followed(s)'
    <3>1. Followed(s)
      BY <2>1, <2>2 DEF Vouched
    <3>2. ASSUME NEW g \in Handlers, Writing(g, s)' PROVE Writing(g, s) /\ req'[g].k = req[g].k
      BY <1>4, <1>5, <3>2 DEF SameKind, Writing
    <3>3. QED
      BY <1>3, <1>9, <1>10, <3>1, <3>2 DEF Followed
  <2>3. ASSUME s \notin ended, ledger[s] = None PROVE Restarted(s)'
    <3>1. Restarted(s)
      BY <2>1, <2>3 DEF Vouched
    <3>2. client[s].next >= 1 => client'[s].next >= 1
      BY <1>7, <1>8
    <3>3. CASE Acked(s) /\ \A g \in Handlers : ~Writing(g, s)
      BY <1>4, <1>5, <1>10, <3>3 DEF Restarted, SameKind
    <3>4. CASE client[s].next >= 1 /\ \A g \in Handlers : Chunking(g, s) => req[g].k # 0
      BY <1>4, <1>5, <3>2, <3>4 DEF Restarted, SameKind
    <3>5. QED
      BY <3>1, <3>3, <3>4 DEF Restarted
  <2>4. \A f, g \in Handlers : Taken(f, s)' /\ Taken(g, s)' => f = g
    BY <1>4, <1>5, <2>1 DEF Vouched, SameKind
  <2>5. \A f \in Handlers : Taken(f, s)' /\ req'[f].sha = "right" =>
          staged'[s] = WholeSeq /\ \A g \in Handlers : ~Appending(g, s)'
    BY <1>3, <1>4, <1>5, <2>1 DEF Vouched, SameKind
  <2>6. QED
    BY <1>3, <2>2, <2>3, <2>4, <2>5 DEF Vouched, Chunks, WholeSeq
<1>12. Alone(s) => Alone(s)'
  <2>1. SUFFICES ASSUME Alone(s) PROVE Alone(s)'
    OBVIOUS
  <2>2. \A f, g \in InFlight(s)' : f = g
    BY <1>4, <1>5, <2>1 DEF Alone, InFlight, SameKind
  <2>3. Placed(s)' /\ Fits(s)'
    BY <1>6, <1>9, <2>1 DEF Alone, Placed
  <2>4. \A g \in Handlers : Checked(g, s)' => staged'[s] = WholeSeq
    BY <1>3, <1>4, <1>5, <2>1 DEF Alone, SameKind
  <2>5. s \in ended => ledger[s] = None /\ \A g \in Handlers : ~Chunking(g, s)'
    BY <1>4, <1>5, <2>1 DEF Alone, SameKind
  <2>6. s \notin ended => Acked(s)'
    BY <1>10, <2>1 DEF Alone
  <2>7. QED
    BY <1>3, <2>2, <2>3, <2>4, <2>5, <2>6 DEF Alone, WholeSeq
<1>13. \A g \in Handlers : Taken(g, s)' => Taken(g, s)
  BY <1>4, <1>5 DEF SameKind
<1>14. client[s].next = Chunks => client'[s].next = Chunks
  BY <1>7, <1>8
<1>15. QED
  BY <1>3, <1>11, <1>12, <1>13, <1>14 DEF OnDisk

\* A request of another upload, or one that has not moved, stays of its kind.
LEMMA KindOthers ==
    ASSUME NEW h \in Handlers, Others(h), NEW g \in Handlers, g # h, NEW s
    PROVE  SameKind(g, s)
BY DEF Others, SameKind, Chunking, Ending, Writing, Appending, Taken, Checked

LEMMA OnDiskHash ==
    ASSUME Typed, Browsing, NEW s \in Disk, OnDisk(s), NEW h \in Handlers, ChunkHash(h), req[h].s = s
    PROVE  OnDisk(s)'
<1>1. Requests /\ Clients /\ s \in Sessions /\ ledger \in [Sessions -> 1..Wrong \cup {None}]
  BY TypedParts, UploadAssumption DEF StoresTyped
<1>2. /\ Others(h) /\ CallerKept(h) /\ req[h].op = "chunk" /\ req[h].pc = "hash" /\ req'[h].pc = "stat"
  BY <1>1, ChunkHashSteps
<1>3. PICK k \in 0..Chunks : k = req[h].k /\ k < Chunks
  BY <1>1, <1>2, WhatItIs DEF ChunkCall, Call
<1>4. /\ UNCHANGED <<client, staged, overlapped, ended>>
      /\ ledger'[s] = Hashed(ledger[s], k)
      /\ s \in unfollowed' <=> s \in unfollowed
  <2>1. UNCHANGED <<client, staged, overlapped, ended>>
    BY DEF ChunkHash
  <2>2. PICK swept \in SUBSET (Sessions \ {s}) :
          /\ ledger' = [t \in Sessions |-> IF t = s THEN Hashed(ledger[s], k)
                                           ELSE IF t \in swept THEN None ELSE ledger[t]]
          /\ unfollowed' = unfollowed \cup (swept \cap overlapped)
    BY <1>3 DEF ChunkHash
  <2>3. QED
    BY <1>1, <2>1, <2>2
<1>5. /\ ledger'[s] # None
      /\ ledger'[s] \in 1..Chunks =>
           ledger'[s] = k + 1 /\ (ledger[s] = k \/ (ledger[s] = None /\ k = 0))
  BY <1>1, <1>3, <1>4, Entered
<1>6. \A g \in Handlers : g # h => SameKind(g, s)
  BY <1>2, KindOthers
<1>7. /\ Chunking(h, s) /\ Chunking(h, s)' /\ ~Writing(h, s) /\ Writing(h, s)' /\ req'[h].k = k
      /\ ~Appending(h, s)' /\ ~Taken(h, s) /\ ~Taken(h, s)' /\ ~Checked(h, s)'
      /\ ~Appending(h, s) /\ req'[h].pc # "ok" /\ req'[h].s = s
  BY <1>2, <1>3 DEF CallerKept, Chunking, Ending, Writing, Appending, Taken, Checked
<1>8. \A j : At(s, j)' <=> At(s, j)
  BY <1>4, AtKept
<1>9. Fits(s) => Fits(s)'
  BY <1>6, <1>7, <1>8 DEF Fits, SameKind, Appending
<1>10. Acked(s) => Acked(s)'
  BY <1>4, <1>6, <1>7, <1>8 DEF Acked, SameKind
<1>11. Vouched(s) => Vouched(s)'
  <2>1. SUFFICES ASSUME Vouched(s) PROVE Vouched(s)'
    OBVIOUS
  <2>2. ASSUME s \notin ended, ledger'[s] \in 1..Chunks PROVE Followed(s)'
    <3>1. CASE ledger[s] = k
      <4>1. k \in 1..Chunks
        BY <1>1, <1>3, <3>1, UploadAssumption
      <4>2. Followed(s)
        BY <2>1, <2>2, <3>1, <4>1 DEF Vouched
      <4>3. ASSUME NEW g \in Handlers, Writing(g, s)', g # h
            PROVE  Writing(g, s) /\ req'[g].k = req[g].k /\ req'[g].k < k
        BY <1>6, <3>1, <4>2, <4>3 DEF SameKind, Writing, Followed
      <4>4. ASSUME NEW g \in Handlers, Writing(g, s)' PROVE req'[g].k < ledger'[s]
        <5>1. req'[g].k \in 0..Chunks
          BY <1>1, <1>7, <4>3, <4>4, <1>3 DEF Requests, Call
        <5>2. QED
          BY <1>3, <1>5, <1>7, <2>2, <4>3, <4>4, <5>1
      <4>5. ASSUME NEW f \in Handlers, NEW g \in Handlers, Writing(f, s)', Writing(g, s)', req'[f].k = req'[g].k
            PROVE  f = g
        <5>1. CASE f # h /\ g # h
          BY <4>2, <4>3, <4>5, <5>1 DEF Followed
        <5>2. CASE f = h /\ g # h
          BY <1>3, <1>7, <4>3, <4>5, <5>2
        <5>3. CASE f # h /\ g = h
          BY <1>3, <1>7, <4>3, <4>5, <5>3
        <5>4. QED
          BY <5>1, <5>2, <5>3
      <4>6. QED
        BY <1>9, <1>10, <4>2, <4>4, <4>5 DEF Followed
    <3>2. CASE ledger[s] = None /\ k = 0
      <4>1. Acked(s) /\ \A g \in Handlers : ~Writing(g, s)
        BY <1>3, <1>7, <2>1, <2>2, <3>2 DEF Vouched, Restarted
      <4>2. \A g \in Handlers : Writing(g, s)' => g = h
        BY <1>6, <4>1 DEF SameKind
      <4>3. Fits(s)
        BY <4>1 DEF Fits, Writing, Appending
      <4>4. k < ledger'[s]
        BY <1>3, <1>5, <2>2
      <4>5. QED
        BY <1>7, <1>9, <1>10, <4>1, <4>2, <4>3, <4>4 DEF Followed
    <3>3. QED
      BY <1>5, <2>2, <3>1, <3>2
  <2>3. \A f, g \in Handlers : Taken(f, s)' /\ Taken(g, s)' => f = g
    BY <1>6, <1>7, <2>1 DEF Vouched, SameKind
  <2>4. \A f \in Handlers : Taken(f, s)' /\ req'[f].sha = "right" =>
          staged'[s] = WholeSeq /\ \A g \in Handlers : ~Appending(g, s)'
    BY <1>4, <1>6, <1>7, <2>1 DEF Vouched, SameKind
  <2>5. QED
    BY <1>4, <1>5, <2>2, <2>3, <2>4 DEF Vouched, Chunks, WholeSeq
<1>12. Alone(s) => Alone(s)'
  <2>1. SUFFICES ASSUME Alone(s) PROVE Alone(s)'
    OBVIOUS
  <2>2. \A f, g \in InFlight(s)' : f = g
    BY <1>6, <1>7, <2>1 DEF Alone, InFlight, SameKind, Chunking
  <2>3. Placed(s)' /\ Fits(s)'
    BY <1>8, <1>9, <2>1 DEF Alone, Placed
  <2>4. \A g \in Handlers : Checked(g, s)' => staged'[s] = WholeSeq
    BY <1>4, <1>6, <1>7, <2>1 DEF Alone, SameKind
  <2>5. s \notin ended /\ Acked(s)'
    BY <1>7, <1>10, <2>1 DEF Alone
  <2>6. QED
    BY <1>4, <2>2, <2>3, <2>4, <2>5 DEF Alone, WholeSeq
<1>13. \A g \in Handlers : Taken(g, s)' => Taken(g, s)
  BY <1>6, <1>7 DEF SameKind
<1>14. QED
  BY <1>4, <1>11, <1>12, <1>13 DEF OnDisk

\* The entry of another upload is swept out of the ledger.
LEMMA OnDiskSwept ==
    ASSUME Typed, Browsing, NEW t \in Disk, OnDisk(t), NEW h \in Handlers, ChunkHash(h), req[h].s # t
    PROVE  OnDisk(t)'
<1>1. Requests /\ Clients /\ t \in Sessions /\ ledger \in [Sessions -> 1..Wrong \cup {None}]
  BY TypedParts, UploadAssumption DEF StoresTyped
<1>2. Others(h) /\ CallerKept(h)
  BY <1>1, ChunkHashSteps
<1>3. \A g \in Handlers : req[g].s = t \/ req'[g].s = t => req'[g] = req[g]
  BY <1>2 DEF Others, CallerKept
<1>4. SameRequests(t)
  BY <1>3 DEF SameRequests, Alike, CallerKept
<1>5. UNCHANGED <<client, staged, overlapped, ended>>
  BY DEF ChunkHash
<1>6. \/ ledger'[t] = ledger[t] /\ (t \in unfollowed' <=> t \in unfollowed)
      \/ /\ ledger'[t] = None /\ Old(t)
         /\ t \in unfollowed' <=> t \in unfollowed \/ t \in overlapped
  BY <1>1 DEF ChunkHash
<1>7. CASE ledger'[t] = ledger[t] /\ (t \in unfollowed' <=> t \in unfollowed)
  BY <1>1, <1>4, <1>5, <1>7, OnDiskKept DEF SameUpload, SameMarks
<1>8. CASE /\ ledger'[t] = None /\ Old(t)
           /\ t \in unfollowed' <=> t \in unfollowed \/ t \in overlapped
  <2>1. \A g \in Handlers : SameKind(g, t)
    BY <1>4, KindKept
  <2>2. \A j : At(t, j)' <=> At(t, j)
    BY <1>5, AtKept
  <2>3. ASSUME t \notin unfollowed' PROVE Vouched(t)' /\ Alone(t)'
    <3>1. Alone(t) /\ Vouched(t)
      BY <1>8, <2>3 DEF OnDisk
    <3>2. Acked(t) => Acked(t)'
      BY <1>5, <2>1, <2>2 DEF Acked, SameKind
    <3>3. Fits(t)'
      BY <2>1, <2>2, <3>1 DEF Alone, Fits, SameKind, Appending
    <3>4. ASSUME t \notin ended PROVE Restarted(t)'
      <4>1. Acked(t) /\ Acked(t)'
        BY <3>1, <3>2, <3>4 DEF Alone
      <4>2. CASE \A g \in Handlers : ~Writing(g, t)
        BY <2>1, <4>1, <4>2 DEF Restarted, SameKind
      <4>3. ASSUME NEW f \in Handlers, Writing(f, t) PROVE Restarted(t)'
        <5>1. \A g \in Handlers : Chunking(g, t) => g = f
          BY <3>1, <4>3 DEF Alone, InFlight, Writing, Chunking
        <5>2. req[f].k # 0
          BY <1>8, <4>3 DEF Old, InFlight, Writing, Chunking
        <5>3. req[f].k <= client[t].next
          BY <4>3 DEF Browsing, Follows, Writing, Chunking
        <5>4. req[f].k \in 0..Chunks /\ client[t].next \in 0..Chunks
          BY <1>1 DEF Requests, Call, Clients, Item
        <5>5. client[t].next >= 1
          BY <5>2, <5>3, <5>4
        <5>6. \A g \in Handlers : Chunking(g, t)' => req'[g].k # 0
          BY <2>1, <5>1, <5>2 DEF SameKind
        <5>7. QED
          BY <1>5, <5>5, <5>6 DEF Restarted
      <4>4. QED
        BY <4>2, <4>3
    <3>5. Vouched(t)'
      <4>1. \A f, g \in Handlers : Taken(f, t)' /\ Taken(g, t)' => f = g
        BY <2>1, <3>1 DEF Vouched, SameKind
      <4>2. \A f \in Handlers : Taken(f, t)' /\ req'[f].sha = "right" =>
              staged'[t] = WholeSeq /\ \A g \in Handlers : ~Appending(g, t)'
        BY <1>5, <2>1, <3>1 DEF Vouched, SameKind
      <4>3. None \notin 1..Chunks
        BY UploadAssumption
      <4>4. QED
        BY <1>5, <1>8, <3>4, <4>1, <4>2, <4>3 DEF Vouched, Chunks, WholeSeq
    <3>6. Alone(t)'
      <4>1. \A f, g \in InFlight(t)' : f = g
        BY <2>1, <3>1 DEF Alone, InFlight, SameKind
      <4>2. Placed(t)'
        BY <2>2, <3>1 DEF Alone, Placed
      <4>3. \A g \in Handlers : Checked(g, t)' => staged'[t] = WholeSeq
        BY <1>5, <2>1, <3>1 DEF Alone, SameKind
      <4>4. t \in ended => \A g \in Handlers : ~Chunking(g, t)'
        BY <2>1, <3>1 DEF Alone, SameKind
      <4>5. t \notin ended => Acked(t)'
        BY <3>1, <3>2 DEF Alone
      <4>6. QED
        BY <1>5, <1>8, <3>3, <4>1, <4>2, <4>3, <4>4, <4>5 DEF Alone, WholeSeq
    <3>7. QED
      BY <3>5, <3>6
  <2>4. \A g \in Handlers : Taken(g, t)' => Taken(g, t)
    BY <2>1 DEF SameKind
  <2>5. QED
    BY <1>5, <2>3, <2>4 DEF OnDisk
<1>9. QED
  BY <1>6, <1>7, <1>8

LEMMA OnDiskStat ==
    ASSUME Typed, Browsing, NEW s \in Disk, OnDisk(s), NEW h \in Handlers, ChunkStat(h), req[h].s = s
    PROVE  OnDisk(s)'
<1>1. Requests /\ Clients /\ s \in Sessions
  BY TypedParts, UploadAssumption
<1>2. PICK q : /\ ChunkMoves(h, "stat", q)
               /\ q = (IF StagedSize(s) >= Size THEN "ok"
                       ELSE IF req[h].k # StagedSize(s) \div ChunkParts THEN "refused" ELSE "append")
  BY <1>1, ChunkStatMoves
<1>3. PICK k \in 0..Chunks : k = req[h].k /\ k < Chunks
  BY <1>2 DEF ChunkMoves
<1>4. /\ Others(h) /\ CallerKept(h) /\ req[h].op = "chunk" /\ req[h].pc = "stat" /\ req'[h].pc = q
  BY <1>2 DEF ChunkMoves, Moves
<1>5. UNCHANGED <<client, ledger, staged, overlapped, unfollowed, ended>>
  BY DEF ChunkStat, ChunkOnly, histories
<1>6. \A g \in Handlers : g # h => SameKind(g, s)
  BY <1>4, KindOthers
<1>7. /\ Chunking(h, s) /\ Chunking(h, s)' /\ Writing(h, s) /\ req'[h].k = k /\ req'[h].s = s
      /\ ~Taken(h, s) /\ ~Taken(h, s)' /\ ~Checked(h, s)' /\ ~Appending(h, s)
      /\ Appending(h, s)' <=> q = "append"
      /\ Writing(h, s)' <=> q = "append"
  BY <1>2, <1>3, <1>4 DEF CallerKept, Chunking, Ending, Writing, Appending, Taken, Checked
<1>8. \A j : At(s, j)' <=> At(s, j)
  BY <1>5, AtKept
<1>9. ASSUME NEW j \in 0..Chunks, At(s, j)
      PROVE  (q = "ok" => k < j) /\ (q = "append" => k = j)
  <2>1. /\ StagedSize(s) >= Size <=> j = Chunks
        /\ j # Chunks => StagedSize(s) \div ChunkParts = j
    BY <1>1, <1>9, SizeTells
  <2>2. CASE j = Chunks
    <3>1. q = "ok"
      BY <1>2, <2>1, <2>2
    <3>2. QED
      BY <1>3, <2>2, <3>1
  <2>3. CASE j # Chunks
    <3>1. PICK d : d = StagedSize(s) \div ChunkParts
      OBVIOUS
    <3>2. d = j /\ ~(StagedSize(s) >= Size)
      BY <2>1, <2>3, <3>1
    <3>3. q = IF req[h].k # d THEN "refused" ELSE "append"
      BY <1>2, <3>1, <3>2
    <3>4. QED
      BY <1>3, <3>2, <3>3
  <2>4. QED
    BY <2>2, <2>3
<1>10. ASSUME Placed(s), Fits(s) PROVE Fits(s)'
  <2>1. PICK j \in 0..Chunks : At(s, j)
    BY <1>10 DEF Placed
  <2>2. q = "append" => At(s, k)
    BY <1>9, <2>1
  <2>3. QED
    BY <1>6, <1>7, <1>8, <1>10, <2>2 DEF Fits, SameKind, Appending
<1>11. ASSUME Acked(s) PROVE Acked(s)'
  <2>1. PICK j \in 0..Chunks : /\ At(s, j) /\ client[s].next <= j
                               /\ \A g \in Handlers : Chunking(g, s) /\ req[g].pc = "ok" => req[g].k < j
    BY <1>11 DEF Acked
  <2>2. q = "ok" => k < j
    BY <1>9, <2>1
  <2>3. \A g \in Handlers : Chunking(g, s)' /\ req'[g].pc = "ok" => req'[g].k < j
    BY <1>4, <1>6, <1>7, <2>1, <2>2 DEF SameKind
  <2>4. QED
    BY <1>5, <1>8, <2>1, <2>3 DEF Acked, Chunks
<1>12. Acked(s) => Placed(s)
  BY DEF Acked, Placed
<1>13. Vouched(s) => Vouched(s)'
  <2>1. SUFFICES ASSUME Vouched(s) PROVE Vouched(s)'
    OBVIOUS
  <2>2. ASSUME s \notin ended, ledger[s] \in 1..Chunks PROVE Followed(s)'
    <3>1. Followed(s)
      BY <2>1, <2>2 DEF Vouched
    <3>2. ASSUME NEW g \in Handlers, Writing(g, s)' PROVE Writing(g, s) /\ req'[g].k = req[g].k
      BY <1>3, <1>6, <1>7, <3>2 DEF SameKind, Writing
    <3>3. Fits(s)' /\ Acked(s)'
      BY <1>10, <1>11, <1>12, <3>1 DEF Followed
    <3>4. QED
      BY <1>5, <3>1, <3>2, <3>3 DEF Followed
  <2>3. ASSUME s \notin ended, ledger[s] = None PROVE Restarted(s)'
    <3>1. client[s].next >= 1 /\ \A g \in Handlers : Chunking(g, s) => req[g].k # 0
      BY <1>7, <2>1, <2>3 DEF Vouched, Restarted
    <3>2. \A g \in Handlers : Chunking(g, s)' => req'[g].k # 0
      BY <1>3, <1>6, <1>7, <3>1 DEF SameKind
    <3>3. QED
      BY <1>5, <3>1, <3>2 DEF Restarted
  <2>4. \A f, g \in Handlers : Taken(f, s)' /\ Taken(g, s)' => f = g
    BY <1>6, <1>7, <2>1 DEF Vouched, SameKind
  <2>5. ASSUME NEW f \in Handlers, Taken(f, s)', req'[f].sha = "right"
        PROVE  staged'[s] = WholeSeq /\ \A g \in Handlers : ~Appending(g, s)'
    <3>1. staged[s] = WholeSeq /\ \A g \in Handlers : ~Appending(g, s)
      BY <1>6, <1>7, <2>1, <2>5 DEF Vouched, SameKind
    <3>2. StagedSize(s) = Size /\ Size \in Nat
      <4>1. Len(WholeSeq) = Size /\ WholeSeq \in Seq(PartSet)
        BY WholeFile
      <4>2. WholeSeq # None
        <5>1. PartSet \subseteq Nat
          BY Sizes DEF PartSet
        <5>2. WholeSeq \in Seq(Nat)
          BY <4>1, <5>1, SeqMonotonic
        <5>3. QED
          BY <5>2, UploadAssumption
      <4>3. QED
        BY <3>1, <4>1, <4>2, Sizes DEF StagedSize
    <3>3. q = "ok"
      BY <1>2, <3>2
    <3>4. QED
      BY <1>5, <1>6, <1>7, <3>1, <3>3 DEF SameKind
  <2>6. QED
    BY <1>5, <2>2, <2>3, <2>4, <2>5 DEF Vouched, Chunks, WholeSeq
<1>14. Alone(s) => Alone(s)'
  <2>1. SUFFICES ASSUME Alone(s) PROVE Alone(s)'
    OBVIOUS
  <2>2. \A f, g \in InFlight(s)' : f = g
    BY <1>6, <1>7, <2>1 DEF Alone, InFlight, SameKind, Chunking
  <2>3. Placed(s)' /\ Fits(s)'
    BY <1>8, <1>10, <2>1 DEF Alone, Placed
  <2>4. \A g \in Handlers : Checked(g, s)' => staged'[s] = WholeSeq
    BY <1>5, <1>6, <1>7, <2>1 DEF Alone, SameKind
  <2>5. s \notin ended /\ Acked(s)'
    BY <1>7, <1>11, <2>1 DEF Alone
  <2>6. QED
    BY <1>5, <2>2, <2>3, <2>4, <2>5 DEF Alone, WholeSeq
<1>15. \A g \in Handlers : Taken(g, s)' => Taken(g, s)
  BY <1>6, <1>7 DEF SameKind
<1>16. QED
  BY <1>5, <1>13, <1>14, <1>15 DEF OnDisk

LEMMA OnDiskAppend ==
    ASSUME Typed, Browsing, NEW s \in Disk, OnDisk(s), NEW h \in Handlers, ChunkAppend(h), req[h].s = s
    PROVE  OnDisk(s)'
<1>1. Requests /\ Clients /\ StagedTyped /\ s \in Sessions
  BY TypedParts, UploadAssumption
<1>2. ChunkMoves(h, "append", "ok") /\ req[h].todo = PartsOf(req[h].k)
  BY <1>1, ChunkAppendMoves
<1>3. PICK k \in 0..Chunks : k = req[h].k /\ k < Chunks
  BY <1>2 DEF ChunkMoves
<1>4. /\ Others(h) /\ CallerKept(h) /\ req[h].op = "chunk" /\ req[h].pc = "append" /\ req'[h].pc = "ok"
  BY <1>2 DEF ChunkMoves, Moves
<1>5. UNCHANGED <<client, ledger, overlapped, unfollowed, ended>>
  BY DEF ChunkAppend, ChunkOnly, histories
<1>6. Bytes(s)' = Bytes(s) \o PartsOf(k)
  <2>1. Appended(s, PartsOf(k)) /\ PartsOf(k) \in Seq(PartSet)
    BY <1>2, <1>3, ChunkParted DEF ChunkAppend
  <2>2. QED
    BY <1>1, <2>1, AppendedIs DEF StagedTyped
<1>7. \A g \in Handlers : g # h => SameKind(g, s)
  BY <1>4, KindOthers
<1>8. /\ Chunking(h, s) /\ Chunking(h, s)' /\ Writing(h, s) /\ req'[h].k = k /\ req'[h].s = s
      /\ ~Taken(h, s) /\ ~Taken(h, s)' /\ ~Checked(h, s)' /\ Appending(h, s)
      /\ ~Appending(h, s)' /\ ~Writing(h, s)'
  BY <1>3, <1>4 DEF CallerKept, Chunking, Ending, Writing, Appending, Taken, Checked
<1>9. ASSUME Fits(s) PROVE At(s, k) /\ At(s, k + 1)' /\ k + 1 \in 0..Chunks
  <2>1. At(s, k)
    BY <1>3, <1>8, <1>9 DEF Fits
  <2>2. QED
    BY <1>1, <1>3, <1>6, <2>1, AtNext
<1>10. ASSUME Fits(s), Acked(s) PROVE Acked(s)'
  <2>1. PICK j \in 0..Chunks : /\ At(s, j) /\ client[s].next <= j
                               /\ \A g \in Handlers : Chunking(g, s) /\ req[g].pc = "ok" => req[g].k < j
    BY <1>10 DEF Acked
  <2>2. j = k
    BY <1>1, <1>9, <1>10, <2>1, AtOne
  <2>3. client'[s].next <= k + 1
    BY <1>1, <1>5, <2>1, <2>2 DEF Clients, Item
  <2>4. ASSUME NEW g \in Handlers, Chunking(g, s)', req'[g].pc = "ok" PROVE req'[g].k < k + 1
    <3>1. CASE g = h
      BY <1>8, <3>1
    <3>2. CASE g # h
      <4>1. Chunking(g, s) /\ req[g].pc = "ok" /\ req'[g].k = req[g].k
        BY <1>7, <2>4, <3>2 DEF SameKind
      <4>2. req[g].k < k /\ req[g].k \in Int
        BY <1>1, <2>1, <2>2, <4>1 DEF Requests, Call
      <4>3. QED
        BY <4>1, <4>2
    <3>3. QED
      BY <3>1, <3>2
  <2>5. QED
    BY <1>9, <1>10, <2>3, <2>4 DEF Acked, Chunks
<1>11. Vouched(s) => Vouched(s)'
  <2>1. SUFFICES ASSUME Vouched(s) PROVE Vouched(s)'
    OBVIOUS
  <2>2. ASSUME s \notin ended, ledger[s] \in 1..Chunks PROVE Followed(s)'
    <3>1. Followed(s)
      BY <2>1, <2>2 DEF Vouched
    <3>2. ASSUME NEW g \in Handlers, Writing(g, s)' PROVE Writing(g, s) /\ req'[g].k = req[g].k /\ g # h
      BY <1>7, <1>8, <3>2 DEF SameKind, Writing
    <3>3. Acked(s)'
      BY <1>10, <3>1 DEF Followed
    <3>4. ASSUME NEW g \in Handlers PROVE ~Appending(g, s)'
      <4>1. CASE g = h
        BY <1>8, <4>1
      <4>2. CASE g # h
        <5>1. ASSUME Appending(g, s) PROVE FALSE
          <6>1. At(s, req[g].k) /\ req[g].k \in 0..Chunks
            BY <1>1, <3>1, <5>1 DEF Followed, Fits, Requests, Call
          <6>2. req[g].k = k
            BY <1>1, <1>9, <3>1, <6>1, AtOne DEF Followed
          <6>3. Writing(g, s)
            BY <5>1 DEF Writing, Appending
          <6>4. QED
            BY <1>3, <1>8, <3>1, <4>2, <6>2, <6>3 DEF Followed
        <5>2. QED
          BY <1>7, <4>2, <5>1 DEF SameKind
      <4>3. QED
        BY <4>1, <4>2
    <3>5. Fits(s)'
      BY <3>4 DEF Fits
    <3>6. QED
      BY <1>5, <3>1, <3>2, <3>3, <3>5 DEF Followed
  <2>3. ASSUME s \notin ended, ledger[s] = None PROVE Restarted(s)'
    <3>1. client[s].next >= 1 /\ \A g \in Handlers : Chunking(g, s) => req[g].k # 0
      BY <1>8, <2>1, <2>3 DEF Vouched, Restarted
    <3>2. \A g \in Handlers : Chunking(g, s)' => req'[g].k # 0
      BY <1>3, <1>7, <1>8, <3>1 DEF SameKind
    <3>3. QED
      BY <1>5, <3>1, <3>2 DEF Restarted
  <2>4. \A f, g \in Handlers : Taken(f, s)' /\ Taken(g, s)' => f = g
    BY <1>7, <1>8, <2>1 DEF Vouched, SameKind
  <2>5. ASSUME NEW f \in Handlers, Taken(f, s)', req'[f].sha = "right"
        PROVE  FALSE
    BY <1>7, <1>8, <2>1, <2>5 DEF Vouched, SameKind
  <2>6. QED
    BY <1>5, <2>2, <2>3, <2>4, <2>5 DEF Vouched, Chunks, WholeSeq
<1>12. Alone(s) => Alone(s)'
  <2>1. SUFFICES ASSUME Alone(s) PROVE Alone(s)'
    OBVIOUS
  <2>2. \A g \in Handlers : g # h => req[g].s # s
    BY <1>8, <2>1 DEF Alone, InFlight, Chunking
  <2>3. \A g \in Handlers : g # h => req'[g].s # s
    BY <1>7, <2>2 DEF SameKind
  <2>4. \A f, g \in InFlight(s)' : f = g
    BY <2>3 DEF InFlight
  <2>5. Placed(s)'
    BY <1>9, <2>1 DEF Alone, Placed, Chunks
  <2>6. Fits(s)'
    BY <1>8, <2>3 DEF Fits, Appending, Chunking
  <2>7. \A g \in Handlers : Checked(g, s)' => staged'[s] = WholeSeq
    BY <1>8, <2>3 DEF Checked, Taken, Ending
  <2>8. s \notin ended /\ Acked(s)'
    BY <1>8, <1>10, <2>1 DEF Alone
  <2>9. QED
    BY <1>5, <2>4, <2>5, <2>6, <2>7, <2>8 DEF Alone, WholeSeq
<1>13. \A g \in Handlers : Taken(g, s)' => Taken(g, s)
  BY <1>7, <1>8 DEF SameKind
<1>14. QED
  BY <1>5, <1>11, <1>12, <1>13 DEF OnDisk

\* A write that is cut short: the upload is no longer followed.
LEMMA OnDiskShort ==
    ASSUME Typed, NEW s \in Disk, OnDisk(s), NEW h \in Handlers, ShortWrite(h), req[h].s = s
    PROVE  OnDisk(s)'
<1>1. Requests
  BY TypedParts
<1>2. /\ Others(h) /\ CallerKept(h) /\ req[h].op = "chunk"
  BY <1>1, ShortWriteMoves DEF ChunkMoves, Moves
<1>3. UNCHANGED <<client, overlapped, ended>> /\ s \in unfollowed'
  BY DEF ShortWrite, ChunkOnly
<1>4. \A g \in Handlers : Taken(g, s)' => Taken(g, s)
  BY <1>2 DEF Others, CallerKept, Taken, Ending
<1>5. QED
  BY <1>3, <1>4 DEF OnDisk

LEMMA OnDiskTakes ==
    ASSUME Typed, Browsing, NEW s \in Disk, OnDisk(s), NEW h \in Handlers, TakeHash(h), req[h].s = s
    PROVE  OnDisk(s)'
<1>1. Requests /\ Clients /\ s \in Sessions /\ ledger \in [Sessions -> 1..Wrong \cup {None}]
  BY TypedParts, UploadAssumption DEF StoresTyped
<1>2. /\ Others(h) /\ CallerKept(h) /\ req[h].op = "complete" /\ req[h].pc = "hash"
      /\ req'[h].pc = "check"
      /\ req'[h].sha = (IF ledger[s] = None THEN "none" ELSE IF ledger[s] = Chunks THEN "right" ELSE "wrong")
  BY <1>1, TakeHashSteps
<1>3. /\ UNCHANGED <<client, staged, overlapped>> /\ ledger'[s] = None /\ s \in ended'
      /\ s \in unfollowed' <=> s \in unfollowed \/ (s \in ended /\ s \in overlapped)
  BY <1>1 DEF TakeHash
<1>4. \A g \in Handlers : g # h => SameKind(g, s)
  BY <1>2, KindOthers
<1>5. /\ Taken(h, s)' /\ ~Checked(h, s)' /\ ~Chunking(h, s) /\ ~Chunking(h, s)' /\ ~Appending(h, s)'
      /\ ~Writing(h, s)' /\ req'[h].s = s /\ ~Taken(h, s)
  BY <1>2 DEF CallerKept, Chunking, Ending, Writing, Appending, Taken, Checked
<1>6. client[s].next = Chunks
  BY <1>2 DEF Browsing, Follows
<1>7. \A j : At(s, j)' <=> At(s, j)
  BY <1>3, AtKept
<1>8. ASSUME s \notin unfollowed' PROVE \A g \in Handlers : Taken(g, s)' => g = h
  <2>1. CASE s \in ended
    <3>1. Alone(s)
      BY <1>3, <1>8, <2>1 DEF OnDisk
    <3>2. \A g \in Handlers : g # h => req[g].s # s
      BY <3>1 DEF Alone, InFlight
    <3>3. QED
      BY <1>4, <3>2 DEF SameKind, Taken, Ending
  <2>2. CASE s \notin ended
    <3>1. \A g \in Handlers : ~Taken(g, s)
      BY <2>2 DEF OnDisk
    <3>2. QED
      BY <1>4, <3>1 DEF SameKind
  <2>3. QED
    BY <2>1, <2>2
<1>9. ASSUME s \notin unfollowed', req'[h].sha = "right"
      PROVE  staged[s] = WholeSeq /\ \A g \in Handlers : ~Appending(g, s)'
  <2>1. ledger[s] = Chunks
    BY <1>2, <1>9
  <2>2. s \notin ended
    <3>1. CASE s \in ended
      <4>1. Alone(s)
        BY <1>3, <1>9, <3>1 DEF OnDisk
      <4>2. ledger[s] = None
        BY <3>1, <4>1 DEF Alone
      <4>3. QED
        BY <1>2, <1>9, <4>2
    <3>2. QED
      BY <3>1
  <2>3. ledger[s] \in 1..Chunks
    BY <2>1, Sizes
  <2>4. Followed(s)
    BY <1>3, <1>9, <2>2, <2>3 DEF OnDisk, Vouched
  <2>5. At(s, Chunks) /\ Chunks \in 0..Chunks
    BY <1>1, <1>6, <2>4, AllIn, Sizes DEF Followed
  <2>6. staged[s] = WholeSeq
    BY <1>1, <2>5, WholeAt
  <2>7. ASSUME NEW g \in Handlers, Appending(g, s) PROVE FALSE
    <3>1. At(s, req[g].k) /\ req[g].k \in 0..Chunks /\ req[g].k < Chunks
      BY <1>1, <2>4, <2>7 DEF Followed, Fits, Requests, Call, Called, ChunkCall, Appending, Chunking
    <3>2. req[g].k = Chunks
      BY <1>1, <2>5, <3>1, AtOne
    <3>3. QED
      BY <3>1, <3>2, Sizes
  <2>8. QED
    BY <1>4, <1>5, <2>6, <2>7 DEF SameKind
<1>10. s \notin unfollowed' => Vouched(s)'
  <2>1. ASSUME s \notin unfollowed' PROVE \A f, g \in Handlers : Taken(f, s)' /\ Taken(g, s)' => f = g
    BY <1>8, <2>1
  <2>2. ASSUME s \notin unfollowed', NEW f \in Handlers, Taken(f, s)', req'[f].sha = "right"
        PROVE  staged'[s] = WholeSeq /\ \A g \in Handlers : ~Appending(g, s)'
    BY <1>3, <1>8, <1>9, <2>2
  <2>3. QED
    BY <1>3, <2>1, <2>2 DEF Vouched, WholeSeq
<1>11. s \notin unfollowed' /\ s \notin overlapped => Alone(s)'
  <2>1. SUFFICES ASSUME s \notin unfollowed', s \notin overlapped PROVE Alone(s)'
    OBVIOUS
  <2>2. Alone(s)
    BY <1>3, <2>1 DEF OnDisk
  <2>3. \A g \in Handlers : g # h => req[g].s # s
    BY <2>2 DEF Alone, InFlight
  <2>4. \A g \in Handlers : g # h => req'[g].s # s
    BY <1>4, <2>3 DEF SameKind
  <2>5. Placed(s)'
    BY <1>7, <2>2 DEF Alone, Placed
  <2>6. \A g \in Handlers : ~Chunking(g, s)' /\ ~Checked(g, s)'
    BY <1>5, <2>4 DEF Chunking, Checked, Taken, Ending
  <2>7. Fits(s)'
    BY <2>6 DEF Fits, Appending
  <2>8. QED
    BY <1>3, <2>4, <2>5, <2>6, <2>7 DEF Alone, InFlight
<1>12. QED
  BY <1>3, <1>6, <1>10, <1>11 DEF OnDisk

\* The end of an upload that finds its staging file short or gone, or has made it an object.
LEMMA OnDiskLeaves ==
    ASSUME Typed, Browsing, NEW s \in Disk, OnDisk(s), NEW h \in Handlers, Others(h), CallerKept(h), Taken(h, s),
           req'[h].pc \notin TakenPcs, UNCHANGED <<client, ledger, overlapped, unfollowed, ended>>,
           staged'[s] = None
    PROVE  OnDisk(s)'
<1>1. s \in Sessions /\ s \in ended
  BY UploadAssumption DEF OnDisk
<1>2. \A g \in Handlers : g # h => SameKind(g, s)
  BY KindOthers
<1>3. /\ req[h].s = s /\ req'[h].s = s /\ ~Chunking(h, s) /\ ~Chunking(h, s)' /\ ~Appending(h, s)'
      /\ ~Taken(h, s)' /\ ~Checked(h, s)'
  BY DEF CallerKept, Chunking, Ending, Appending, Taken, Checked, TakenPcs
<1>4. ASSUME Vouched(s) PROVE Vouched(s)'
  <2>1. \A g \in Handlers : ~Taken(g, s)'
    BY <1>2, <1>3, <1>4 DEF Vouched, SameKind
  <2>2. QED
    BY <1>1, <2>1 DEF Vouched
<1>5. ASSUME Alone(s) PROVE Alone(s)'
  <2>1. \A g \in Handlers : g # h => req[g].s # s
    BY <1>3, <1>5 DEF Alone, InFlight
  <2>2. \A g \in Handlers : g # h => req'[g].s # s
    BY <1>2, <2>1 DEF SameKind
  <2>3. At(s, 0)'
    <3>1. Bytes(s)' = <<>>
      BY DEF Bytes
    <3>2. 0 \in 0..Chunks /\ Prefix(End(0)) = <<>>
      BY Sizes, Grows
    <3>3. QED
      BY <3>1, <3>2 DEF At, Prefix, End, WholeSeq, Chunks
  <2>4. Placed(s)'
    <3>1. 0 \in 0..Chunks
      BY Sizes
    <3>2. QED
      BY <2>3, <3>1 DEF Placed, Chunks
  <2>5. \A g \in Handlers : ~Chunking(g, s)' /\ ~Checked(g, s)'
    BY <1>3, <2>2 DEF Chunking, Checked, Taken, Ending
  <2>6. Fits(s)'
    BY <2>5 DEF Fits, Appending
  <2>7. ledger'[s] = None
    BY <1>1, <1>5 DEF Alone
  <2>8. QED
    BY <1>1, <2>2, <2>4, <2>5, <2>6, <2>7 DEF Alone, InFlight
<1>6. \A g \in Handlers : Taken(g, s)' => Taken(g, s)
  BY <1>2, <1>3 DEF SameKind
<1>7. QED
  BY <1>4, <1>5, <1>6 DEF OnDisk

\* The staging file has its size: it is the file, if nobody was in the way.
LEMMA OnDiskChecked ==
    ASSUME Typed, Browsing, NEW s \in Disk, OnDisk(s), NEW h \in Handlers, CheckStaged(h), req[h].s = s,
           StagedSize(s) = Size
    PROVE  OnDisk(s)'
<1>1. Requests /\ s \in Sessions
  BY TypedParts, UploadAssumption
<1>2. /\ Others(h) /\ CallerKept(h) /\ FileKept(h) /\ req[h].op = "complete" /\ req[h].pc = "check"
      /\ req'[h].pc = "find"
  BY <1>1, CheckStagedMoves DEF EndMoves, Moves
<1>3. UNCHANGED <<client, ledger, staged, overlapped, unfollowed, ended>>
  BY DEF CheckStaged, FinishOnly, histories
<1>4. \A g \in Handlers : g # h => SameKind(g, s)
  BY <1>2, KindOthers
<1>5. /\ req'[h].s = s /\ ~Chunking(h, s) /\ ~Chunking(h, s)' /\ ~Appending(h, s)' /\ Taken(h, s) /\ Taken(h, s)'
      /\ Checked(h, s)' /\ req'[h].sha = req[h].sha
  BY <1>2 DEF CallerKept, FileKept, Chunking, Ending, Appending, Taken, Checked
<1>6. s \in ended /\ \A g \in Handlers : Taken(g, s)' <=> Taken(g, s)
  BY <1>4, <1>5 DEF OnDisk, SameKind
<1>7. ASSUME Vouched(s) PROVE Vouched(s)'
  <2>1. \A f, g \in Handlers : Taken(f, s)' /\ Taken(g, s)' => f = g
    BY <1>6, <1>7 DEF Vouched
  <2>2. ASSUME NEW f \in Handlers, Taken(f, s)', req'[f].sha = "right"
        PROVE  staged'[s] = WholeSeq /\ \A g \in Handlers : ~Appending(g, s)'
    <3>1. Taken(f, s) /\ req[f].sha = "right"
      BY <1>4, <1>5, <1>6, <2>2 DEF SameKind
    <3>2. QED
      BY <1>3, <1>4, <1>5, <1>7, <3>1 DEF Vouched, SameKind
  <2>3. QED
    BY <1>3, <1>6, <2>1, <2>2 DEF Vouched, WholeSeq
<1>8. ASSUME Alone(s) PROVE Alone(s)'
  <2>1. \A g \in Handlers : g # h => req[g].s # s
    BY <1>8 DEF Alone, InFlight
  <2>2. \A g \in Handlers : g # h => req'[g].s # s
    BY <1>4, <2>1 DEF SameKind
  <2>3. PICK j \in 0..Chunks : At(s, j)
    BY <1>8 DEF Alone, Placed
  <2>4. j = Chunks
    BY <1>1, <2>3, SizeTells
  <2>5. staged[s] = WholeSeq
    BY <1>1, <2>3, <2>4, WholeAt
  <2>6. Placed(s)'
    BY <1>3, <2>3, AtKept DEF Placed, Chunks
  <2>7. \A g \in Handlers : ~Chunking(g, s)'
    BY <1>5, <2>2 DEF Chunking
  <2>8. Fits(s)'
    BY <2>7 DEF Fits, Appending
  <2>9. ledger[s] = None
    BY <1>6, <1>8 DEF Alone
  <2>10. QED
    BY <1>3, <1>6, <2>2, <2>5, <2>6, <2>7, <2>8, <2>9 DEF Alone, InFlight, WholeSeq
<1>9. QED
  BY <1>3, <1>6, <1>7, <1>8 DEF OnDisk

\* A restart: what was in flight has gone.
LEMMA OnDiskRestart ==
    ASSUME Typed, Browsing, NEW s \in Disk, OnDisk(s), Restart
    PROVE  OnDisk(s)'
<1>1. Clients /\ StagedTyped /\ Requests /\ s \in Sessions
  BY TypedParts, UploadAssumption
<1>2. /\ \A g \in Handlers : req'[g].s # s
      /\ ledger'[s] = None /\ UNCHANGED <<overlapped, ended>> /\ (unfollowed \cup overlapped) \subseteq unfollowed'
  BY <1>1, Nothing, UploadAssumption DEF Restart
<1>3. client'[s].next = client[s].next
  BY <1>1, RestartItems, TriesAgain
<1>4. \A g \in Handlers : /\ ~Chunking(g, s)' /\ ~Taken(g, s)' /\ ~Checked(g, s)' /\ ~Writing(g, s)'
                          /\ ~Appending(g, s)'
  BY <1>2 DEF Chunking, Taken, Ending, Checked, Writing, Appending
<1>5. ASSUME s \notin unfollowed' PROVE staged'[s] = staged[s]
  <2>1. CASE UNCHANGED staged
    BY <2>1
  <2>2. ASSUME NEW h \in Handlers, NEW p, Appended(req[h].s, p), unfollowed' = unfollowed \cup overlapped \cup {req[h].s}
        PROVE  staged'[s] = staged[s]
    <3>1. req[h].s # s
      BY <1>5, <2>2
    <3>2. QED
      BY <1>1, <2>2, <3>1 DEF Appended, StagedTyped
  <2>3. QED
    BY <2>1, <2>2 DEF Restart
<1>6. ASSUME s \notin unfollowed' PROVE Vouched(s)' /\ Alone(s)'
  <2>1. Alone(s)
    BY <1>2, <1>6 DEF OnDisk
  <2>2. \A j : At(s, j)' <=> At(s, j)
    BY <1>5, <1>6, AtKept
  <2>3. Acked(s) => Acked(s)'
    BY <1>3, <1>4, <2>2 DEF Acked
  <2>4. Fits(s)'
    BY <1>4 DEF Fits
  <2>5. Placed(s)'
    BY <2>1, <2>2 DEF Alone, Placed
  <2>6. s \notin ended' => Acked(s)'
    BY <1>2, <2>1, <2>3 DEF Alone
  <2>7. s \notin ended' => Restarted(s)'
    BY <1>4, <2>6 DEF Restarted
  <2>8. None \notin 1..Chunks
    BY UploadAssumption
  <2>9. Vouched(s)'
    BY <1>2, <1>4, <2>7, <2>8 DEF Vouched, Chunks
  <2>10. Alone(s)'
    BY <1>2, <1>4, <2>4, <2>5, <2>6 DEF Alone, InFlight
  <2>11. QED
    BY <2>9, <2>10
<1>7. QED
  BY <1>2, <1>3, <1>4, <1>6 DEF OnDisk

\* A request of another upload.
LEMMA OnDiskApart ==
    ASSUME Typed, Browsing, Telegram, NEW t \in Disk, OnDisk(t), NEW h \in Handlers,
           Handle(h) \/ \E f \in Files : Purge(h, f), req[h].s # t, ~ChunkHash(h)
    PROVE  OnDisk(t)'
<1>1. Requests /\ Clients /\ StoresTyped /\ StagedTyped /\ t \in Sessions
  BY TypedParts, UploadAssumption
<1>2. Others(h)
  BY SendingHandled
<1>3. NoReq.s = None /\ None \notin Sessions
  BY Nothing, UploadAssumption
<1>4. ASSUME req'[h].s # t, SameUpload(t) PROVE OnDisk(t)'
  <2>1. SameRequests(t)
    BY <1>2, <1>4 DEF SameRequests, Others, Alike, CallerKept
  <2>2. QED
    BY <1>1, <1>4, <2>1, OnDiskKept
<1>5. CASE Reply(h)
  <2>1. /\ req'[h] = NoReq /\ ItemsKept(req[h].s)
    BY <1>1, <1>5, ReplySteps, ReplyItem
  <2>2. UNCHANGED <<ledger, staged, overlapped, unfollowed, ended>>
    BY <1>5 DEF Reply, Stores, histories
  <2>3. QED
    BY <1>1, <1>3, <1>4, <2>1, <2>2 DEF ItemsKept, SameUpload, SameMarks
<1>6. CASE TakeHash(h)
  <2>1. CallerKept(h)
    BY <1>1, <1>6, TakeHashSteps
  <2>2. /\ UNCHANGED <<client, staged, overlapped>> /\ ledger' = [ledger EXCEPT ![req[h].s] = None]
        /\ ended' = ended \cup ({req[h].s} \cap Disk)
        /\ unfollowed' = unfollowed \cup ({req[h].s} \cap ended \cap overlapped)
    BY <1>6 DEF TakeHash
  <2>3. QED
    BY <1>1, <1>4, <2>1, <2>2 DEF CallerKept, SameUpload, SameMarks, StoresTyped
<1>7. CASE ShortWrite(h) \/ ChunkAppend(h)
  <2>1. CallerKept(h)
    BY <1>1, <1>7, ShortWriteMoves, ChunkAppendMoves DEF ChunkMoves, Moves
  <2>2. /\ UNCHANGED <<client, ledger, overlapped, ended>>
        /\ \E p : Appended(req[h].s, p)
        /\ unfollowed' = unfollowed \/ unfollowed' = unfollowed \cup {req[h].s}
    BY <1>7 DEF ShortWrite, ChunkAppend, ChunkOnly, histories
  <2>3. staged'[t] = staged[t]
    BY <1>1, <2>2 DEF Appended, StagedTyped
  <2>4. QED
    BY <1>4, <2>1, <2>2, <2>3 DEF CallerKept, SameUpload, SameMarks
<1>8. CASE CheckStaged(h) \/ Rename(h)
  <2>1. CallerKept(h)
    BY <1>1, <1>8, CheckStagedMoves, RenameMoves DEF EndMoves, Moves
  <2>2. /\ UNCHANGED <<client, ledger, overlapped, unfollowed, ended>>
        /\ staged' = staged \/ staged' = [staged EXCEPT ![req[h].s] = None]
    BY <1>8 DEF CheckStaged, Rename, FinishOnly, histories
  <2>3. QED
    BY <1>1, <1>4, <2>1, <2>2 DEF CallerKept, SameUpload, SameMarks, StagedTyped
<1>9. CASE \/ PartSave(h) \/ PartsSaved(h) \/ SaveFails(h) \/ ChunkStat(h)
           \/ Commit(h) \/ CommitFails(h) \/ Find(h) \/ DropObject(h) \/ DeleteOld(h)
           \/ (\E f \in Files : Create(h, f)) \/ Undo(h) \/ Point(h) \/ CloseSession(h)
           \/ (\E f \in Files : Purge(h, f))
  <2>1. UNCHANGED <<client, ledger, staged, overlapped, unfollowed, ended>>
    BY <1>9 DEF PartSave, PartsSaved, SaveFails, ChunkStat, Commit, CommitFails, Find, DropObject,
                DeleteOld, Create, Undo, Point, CloseSession, Purge, ChunkOnly, FinishOnly, Stores, histories
  <2>2. req'[h].s = req[h].s \/ req'[h].s = None
    <3>1. CASE \/ PartSave(h) \/ PartsSaved(h) \/ SaveFails(h) \/ ChunkStat(h) \/ Commit(h) \/ CommitFails(h)
               \/ Find(h) \/ DropObject(h)
      BY <1>1, <3>1, PartSaveSteps, PartsSavedMoves, SaveFailsMoves, ChunkStatMoves, CommitSteps,
         CommitFailsMoves, FindSteps, DropObjectMoves DEF StoresTyped, ChunkMoves, EndMoves, Moves, CallerKept
    <3>2. CASE \/ DeleteOld(h) \/ (\E f \in Files : Create(h, f)) \/ Undo(h) \/ Point(h) \/ CloseSession(h)
               \/ (\E f \in Files : Purge(h, f))
      BY <1>1, <1>3, <3>2, DeleteOldSteps, CreateSteps, UndoMoves, PointMoves, CloseMoves, PurgeSteps
         DEF EndMoves, Moves, CallerKept
    <3>3. QED
      BY <1>9, <3>1, <3>2
  <2>3. QED
    BY <1>1, <1>3, <1>4, <2>1, <2>2 DEF SameUpload, SameMarks
<1>10. QED
  BY <1>5, <1>6, <1>7, <1>8, <1>9 DEF Handle

\* A request of the upload.
LEMMA OnDiskHandled ==
    ASSUME Typed, Browsing, Telegram, NEW s \in Disk, OnDisk(s), NEW h \in Handlers,
           Handle(h) \/ \E f \in Files : Purge(h, f), req[h].s = s, Next
    PROVE  OnDisk(s)'
<1>1. Requests /\ Clients /\ StoresTyped /\ StagedTyped /\ s \in Sessions
  BY TypedParts, UploadAssumption
<1>2. Others(h)
  BY SendingHandled
<1>3. CASE \/ ChunkHash(h) \/ ChunkStat(h) \/ ChunkAppend(h) \/ ShortWrite(h) \/ TakeHash(h) \/ Reply(h)
  BY <1>3, OnDiskHash, OnDiskStat, OnDiskAppend, OnDiskShort, OnDiskTakes, OnDiskReply
<1>4. CASE CheckStaged(h)
  <2>1. CASE StagedSize(s) = Size
    BY <1>4, <2>1, OnDiskChecked
  <2>2. CASE StagedSize(s) # Size
    <3>1. CallerKept(h) /\ req[h].op = "complete" /\ req[h].pc = "check" /\ req'[h].pc = "failed"
      BY <1>1, <1>4, <2>2, CheckStagedMoves DEF EndMoves, Moves
    <3>2. staged' = [staged EXCEPT ![s] = None]
      BY <1>4, <2>2 DEF CheckStaged
    <3>3. staged'[s] = None /\ UNCHANGED <<client, ledger, overlapped, unfollowed, ended>>
      BY <1>1, <1>4, <3>2 DEF CheckStaged, FinishOnly, histories, StagedTyped
    <3>4. Taken(h, s) /\ req'[h].pc \notin TakenPcs
      BY <3>1 DEF Taken, Ending, TakenPcs
    <3>5. QED
      BY <1>2, <3>1, <3>3, <3>4, OnDiskLeaves
  <2>3. QED
    BY <2>1, <2>2
<1>5. CASE Rename(h)
  <2>1. CallerKept(h) /\ req[h].op = "complete" /\ req[h].pc = "rename" /\ req'[h].pc \in {"undo", "point"}
    BY <1>1, <1>5, RenameMoves DEF EndMoves, Moves
  <2>2. staged'[s] = None /\ UNCHANGED <<client, ledger, overlapped, unfollowed, ended>>
    BY <1>1, <1>5 DEF Rename, FinishOnly, histories, StagedTyped
  <2>3. Taken(h, s) /\ req'[h].pc \notin TakenPcs
    BY <2>1 DEF Taken, Ending, TakenPcs
  <2>4. QED
    BY <1>2, <2>1, <2>2, <2>3, OnDiskLeaves
<1>6. CASE \/ Find(h) \/ DropObject(h) \/ DeleteOld(h) \/ (\E f \in Files : Create(h, f))
           \/ Undo(h) \/ Point(h) \/ CloseSession(h)
  <2>1. UNCHANGED <<client, ledger, staged, overlapped, unfollowed, ended>>
    BY <1>6 DEF Find, DropObject, DeleteOld, Create, Undo, Point, CloseSession, FinishOnly, histories
  <2>2. Alike(h)
    <3>1. CASE Find(h)
      BY <1>1, <3>1, FindSteps DEF Alike, FileKept, TakenPcs
    <3>2. CASE DropObject(h)
      BY <1>1, <3>2, DropObjectMoves DEF Moves, Alike, FileKept, TakenPcs
    <3>3. CASE DeleteOld(h)
      BY <1>1, <3>3, DeleteOldSteps, UploadAssumption DEF Alike, FileKept, TakenPcs
    <3>4. CASE \E f \in Files : Create(h, f)
      BY <1>1, <3>4, CreateSteps DEF Alike, TakenPcs
    <3>5. CASE Undo(h)
      BY <1>1, <3>5, UndoMoves DEF EndMoves, Moves, Alike, FileKept, TakenPcs
    <3>6. CASE Point(h)
      BY <1>1, <3>6, PointMoves DEF EndMoves, Moves, Alike, FileKept, TakenPcs
    <3>7. CASE CloseSession(h)
      BY <1>1, <3>7, CloseMoves DEF EndMoves, Moves, Alike, FileKept, TakenPcs
    <3>8. QED
      BY <1>6, <3>1, <3>2, <3>3, <3>4, <3>5, <3>6, <3>7
  <2>3. SameRequests(s)
    BY <1>2, <2>2 DEF SameRequests, Others, Alike, CallerKept
  <2>4. QED
    BY <1>1, <2>1, <2>3, OnDiskKept DEF SameUpload, SameMarks
<1>7. CASE \/ PartSave(h) \/ PartsSaved(h) \/ SaveFails(h) \/ Commit(h) \/ CommitFails(h)
           \/ \E f \in Files : Purge(h, f)
  <2>1. req[h].s \notin Disk
    BY <1>1, <1>7, PartSaveSteps, PartsSavedMoves, SaveFailsMoves, CommitSteps, CommitFailsMoves, PurgeSteps,
       Nothing, UploadAssumption DEF StoresTyped
  <2>2. QED
    BY <2>1
<1>8. QED
  BY <1>3, <1>4, <1>5, <1>6, <1>7 DEF Handle

LEMMA StagingInit == Init => Staging
<1> SUFFICES ASSUME Init, NEW s \in Disk PROVE OnDisk(s)
  BY DEF Staging
<1>1. s \in Sessions /\ None \notin Sessions /\ None \notin 1..Chunks /\ 0 \in 0..Chunks
  BY UploadAssumption, Sizes
<1>2. /\ client[s].next = 0 /\ ledger[s] = None /\ staged[s] = None /\ ended = {}
      /\ \A h \in Handlers : req[h].s = None
  BY <1>1, Nothing DEF Init, NewItem
<1>3. \A h \in Handlers : /\ ~Chunking(h, s) /\ ~Taken(h, s) /\ ~Checked(h, s) /\ ~Writing(h, s) /\ ~Appending(h, s)
  BY <1>1, <1>2 DEF Chunking, Taken, Ending, Checked, Writing, Appending
<1>4. At(s, 0)
  BY <1>1, <1>2, EmptyAt DEF Bytes
<1>5. Acked(s) /\ Placed(s) /\ Fits(s)
  BY <1>1, <1>2, <1>3, <1>4 DEF Acked, Placed, Fits
<1>6. Vouched(s)
  BY <1>1, <1>2, <1>3, <1>5 DEF Vouched, Restarted
<1>7. Alone(s)
  BY <1>1, <1>2, <1>3, <1>5 DEF Alone, InFlight
<1>8. QED
  BY <1>2, <1>3, <1>6, <1>7 DEF OnDisk

\* The staging files and the ledger.
LEMMA StagingStep == ASSUME Typed, Browsing, Telegram, Staging, Next PROVE Staging'
<1> SUFFICES ASSUME NEW t \in Disk PROVE OnDisk(t)'
  BY DEF Staging
<1>1. Requests /\ Clients /\ OnDisk(t) /\ t \in Sessions
  BY TypedParts, UploadAssumption DEF Staging
<1>2. ASSUME NEW s \in Sessions, OpenSession(s) \/ AnswerLost(s) \/ Retry(s) PROVE OnDisk(t)'
  <2>1. ItemsKept(s) /\ client'[s].next = client[s].next
    BY <1>1, <1>2, OpenSessionItem, AnswerLostItem, RetryItem, TriesAgain
  <2>2. UNCHANGED <<req, ledger, staged, overlapped, unfollowed, ended>>
    BY <1>2 DEF OpenSession, AnswerLost, Retry, Stores, histories
  <2>3. SameRequests(t) /\ SameUpload(t)
    BY <1>1, <2>1, <2>2 DEF SameRequests, Alike, CallerKept, SameUpload, SameMarks, ItemsKept
  <2>4. QED
    BY <1>1, <2>3, OnDiskKept
<1>3. ASSUME NEW s \in Sessions, NEW h \in Handlers, SendChunk(s, h) \/ SendComplete(s, h) PROVE OnDisk(t)'
  <2>1. CASE s = t
    BY <1>1, <1>3, <2>1, OnDiskAsks
  <2>2. CASE s # t
    <3>1. Others(h) /\ req[h].s = None /\ req'[h].s = s /\ ItemsKept(s)
      BY <1>1, <1>3, RequestSteps, RequestItem, Nothing
    <3>2. /\ UNCHANGED <<ledger, staged, unfollowed, ended>>
          /\ overlapped' = overlapped \/ overlapped' = overlapped \cup {s}
      BY <1>3 DEF SendChunk, SendComplete, Request, Stores
    <3>3. SameRequests(t)
      BY <1>1, <2>2, <3>1, UploadAssumption DEF SameRequests, Others, Alike, CallerKept
    <3>4. SameUpload(t)
      BY <1>1, <2>2, <3>1, <3>2 DEF SameUpload, SameMarks, ItemsKept
    <3>5. QED
      BY <1>1, <3>3, <3>4, OnDiskKept
  <2>3. QED
    BY <2>1, <2>2
<1>4. CASE Restart
  BY <1>1, <1>4, OnDiskRestart
<1>5. ASSUME NEW h \in Handlers, Handle(h) \/ \E f \in Files : Purge(h, f) PROVE OnDisk(t)'
  <2>1. CASE req[h].s = t
    BY <1>1, <1>5, <2>1, OnDiskHandled
  <2>2. CASE req[h].s # t /\ ChunkHash(h)
    BY <1>1, <2>2, OnDiskSwept
  <2>3. CASE req[h].s # t /\ ~ChunkHash(h)
    BY <1>1, <1>5, <2>3, OnDiskApart
  <2>4. QED
    BY <2>1, <2>2, <2>3
<1>6. QED
  BY <1>2, <1>3, <1>4, <1>5 DEF Next, Browser

-----------------------------------------------------------------------------
(* Objects. *)

LEMMA ObjectsInit == Init => Objects
BY NothingIs DEF Init, Objects, Rows

\* The histories only grow, and no other step than these two touches an object.
LEMMA ObjectsMove ==
    ASSUME Typed, Next, NEW f \in Files
    PROVE  /\ overlapped \subseteq overlapped' /\ unfollowed \subseteq unfollowed' /\ cut \subseteq cut'
           /\ \/ object'[f] = object[f]
              \/ \E h \in Handlers : Rename(h) /\ req[h].f = f /\ staged[req[h].s] # None
              \/ \E h \in Handlers : DropObject(h) /\ req[h].obj = f
<1>1. overlapped \subseteq overlapped'
  BY ZenonT(30) DEF Next, Browser, Handle, OpenSession, AnswerLost, Retry, SendChunk, SendComplete, Request,
         ChunkHash, PartSave, PartsSaved, SaveFails, ChunkStat, ChunkAppend, ShortWrite, TakeHash,
         Commit, CommitFails, CheckStaged, Find, DropObject, DeleteOld, Create, Rename, Undo, Point,
         Reply, CloseSession, Purge, Restart, FinishOnly, histories
<1>2. unfollowed \subseteq unfollowed'
  BY ZenonT(30) DEF Next, Browser, Handle, OpenSession, AnswerLost, Retry, SendChunk, SendComplete, Request,
         ChunkHash, PartSave, PartsSaved, SaveFails, ChunkStat, ChunkAppend, ShortWrite, TakeHash,
         Commit, CommitFails, CheckStaged, Find, DropObject, DeleteOld, Create, Rename, Undo, Point,
         Reply, CloseSession, Purge, Restart, FinishOnly, histories
<1>3. cut \subseteq cut'
  BY ZenonT(30) DEF Next, Browser, Handle, OpenSession, AnswerLost, Retry, SendChunk, SendComplete, Request,
         ChunkHash, PartSave, PartsSaved, SaveFails, ChunkStat, ChunkAppend, ShortWrite, TakeHash,
         Commit, CommitFails, CheckStaged, Find, DropObject, DeleteOld, Create, Rename, Undo, Point,
         Reply, CloseSession, Purge, Restart, FinishOnly, histories
<1>4. object' = object \/ \E h \in Handlers : Rename(h) \/ DropObject(h)
  BY ZenonT(30) DEF Next, Browser, Handle, OpenSession, AnswerLost, Retry, SendChunk, SendComplete, Request,
         ChunkHash, PartSave, PartsSaved, SaveFails, ChunkStat, ChunkAppend, ShortWrite, TakeHash,
         Commit, CommitFails, CheckStaged, Find, DeleteOld, Create, Undo, Point,
         Reply, CloseSession, Purge, Restart, FinishOnly, ChunkOnly, Stores
<1>5. object \in [Files -> Seq(PartSet) \cup {None}]
  BY DEF Typed
<1>6. ASSUME NEW h \in Handlers, Rename(h)
      PROVE  object'[f] = object[f] \/ (req[h].f = f /\ staged[req[h].s] # None)
  BY <1>5, <1>6 DEF Rename
<1>7. ASSUME NEW h \in Handlers, DropObject(h) PROVE object'[f] = object[f] \/ req[h].obj = f
  BY <1>5, <1>7 DEF DropObject
<1>8. QED
  BY <1>1, <1>2, <1>3, <1>4, <1>6, <1>7

\* The request h is about to delete the file f, or has yet to give it its object.
Unsettles(h, f) == \/ req[h].pc \in {"rename", "undo"} /\ req[h].f = f
                   \/ req[h].pc \in {"drop", "delete"} /\ req[h].old = f

\* It does so in a later step, or a restart leaves the file cut.
LEMMA UnsettledMoves ==
    ASSUME Typed, Browsing, Telegram, Next, NEW f \in Files, NEW h \in Handlers, Unsettles(h, f)
    PROVE  \/ Unsettles(h, f)' \/ f \in cut' \/ file'[f].st # "row"
           \/ Rename(h) /\ req[h].f = f /\ staged[req[h].s] # None
<1>1. Requests /\ Clients /\ StoresTyped /\ file \in [Files -> Entry]
  BY TypedParts DEF StoresTyped
<1>2. CASE req'[h] = req[h]
  BY <1>2 DEF Unsettles
<1>3. CASE Restart
  <2>1. f \in Touched(h)
    <3>1. CASE req[h].pc \in {"rename", "undo"} /\ req[h].f = f
      BY <3>1 DEF Touched
    <3>2. CASE req[h].pc \in {"drop", "delete"} /\ req[h].old = f
      BY <3>2 DEF Touched
    <3>3. QED
      BY <3>1, <3>2 DEF Unsettles
  <2>2. QED
    BY <1>3, <2>1 DEF Restart
<1>4. ASSUME Handle(h) \/ \E g \in Files : Purge(h, g)
      PROVE  \/ Unsettles(h, f)' \/ file'[f].st # "row"
             \/ Rename(h) /\ req[h].f = f /\ staged[req[h].s] # None
  <2>1. req[h].pc \in {"rename", "undo", "drop", "delete"}
    BY DEF Unsettles
  <2>2. DropObject(h) \/ DeleteOld(h) \/ Rename(h) \/ Undo(h)
    BY <1>4, <2>1, Nothing
       DEF Handle, ChunkHash, PartSave, PartsSaved, SaveFails, ChunkStat, ChunkAppend, ShortWrite, TakeHash,
           Commit, CommitFails, CheckStaged, Find, Create, Point, Reply, CloseSession, Purge
  <2>3. CASE DropObject(h)
    BY <1>1, <2>3, DropObjectMoves DEF Moves, OldKept, Unsettles
  <2>4. CASE DeleteOld(h)
    <3>1. req[h].old = f /\ Deleted(f)
      BY <2>4 DEF DeleteOld, Unsettles
    <3>2. QED
      BY <1>1, <3>1, DeletedIs DEF Rows
  <2>5. CASE Rename(h)
    BY <1>1, <2>5, RenameMoves DEF EndMoves, Moves, FileKept, Unsettles
  <2>6. CASE Undo(h)
    <3>1. req[h].f = f /\ Deleted(f)
      BY <2>6 DEF Undo, Unsettles
    <3>2. QED
      BY <1>1, <3>1, DeletedIs DEF Rows
  <2>7. QED
    BY <2>2, <2>3, <2>4, <2>5, <2>6
<1>5. ASSUME NEW s \in Sessions, NEW g \in Handlers,
             SendChunk(s, g) \/ SendComplete(s, g), Others(g), req[g] = NoReq
      PROVE  req'[h] = req[h]
  <2>1. g # h
    BY <1>5, Nothing DEF Unsettles
  <2>2. QED
    BY <1>5, <2>1 DEF Others
<1>6. ASSUME NEW g \in Handlers, Others(g), g # h PROVE req'[h] = req[h]
  BY <1>6 DEF Others
<1>7. QED
  BY <1>2, <1>3, <1>4, <1>5, <1>6, OneMoves

\* The staging file that becomes an object is the file, as far as the histories allow.
LEMMA StoredNow ==
    ASSUME Typed, Named, Staging, NEW h \in Handlers, Rename(h), staged[req[h].s] # None,
           NEW f \in Files, req[h].f = f, f \in Rows
    PROVE  Stored(f)'
<1>1. Requests /\ StoresTyped /\ object \in [Files -> Seq(PartSet) \cup {None}]
  BY TypedParts DEF StoresTyped
<1>2. UNCHANGED file
  BY DEF Rename
<1>3. PICK s \in Disk : s = req[h].s
  BY <1>1, RenameMoves
<1>4. req[h].op = "complete" /\ req[h].pc = "rename"
  BY <1>1, RenameMoves DEF EndMoves, Moves
<1>5. file[f].s = s /\ file[f].sha = req[h].sha
  BY <1>3, <1>4 DEF Named, Made, Making
<1>6. object'[f] = staged[s] /\ staged[s] # None /\ UNCHANGED <<overlapped, unfollowed>>
  BY <1>1, <1>3 DEF Rename, FinishOnly, histories
<1>7. Taken(h, s) /\ Checked(h, s) /\ OnDisk(s)
  BY <1>3, <1>4 DEF Taken, Checked, Ending, Staging
<1>8. s \notin unfollowed \cup overlapped => staged[s] = WholeSeq
  BY <1>7 DEF OnDisk, Alone
<1>9. s \notin unfollowed /\ req[h].sha = "right" => staged[s] = WholeSeq
  BY <1>7 DEF OnDisk, Vouched
<1>10. QED
  BY <1>2, <1>5, <1>6, <1>8, <1>9 DEF Stored, WholeSeq

LEMMA StoredKept ==
    ASSUME NEW f, Stored(f), object'[f] = object[f], file'[f].s = file[f].s, file'[f].sha = file[f].sha,
           overlapped \subseteq overlapped', unfollowed \subseteq unfollowed'
    PROVE  Stored(f)'
BY DEF Stored, WholeSeq

\* Rows that stay have the objects they had, or get them now.
LEMMA ObjectsStep ==
    ASSUME Typed, Browsing, Telegram, Named, Staging, Objects, Next
    PROVE  Objects'
<1> SUFFICES ASSUME NEW f \in Files, file'[f].st = "row", file'[f].s \in Disk, f \notin cut'
             PROVE  Unsettled(f)' \/ Stored(f)'
  BY DEF Objects, Rows
<1>1. Requests /\ StoresTyped /\ file \in [Files -> Entry]
  BY TypedParts DEF StoresTyped
<1>2. /\ \A h \in Handlers : Unsettles(h, f) => Unsettled(f)
      /\ Unsettled(f) => \E h \in Handlers : Unsettles(h, f)
      /\ \A h \in Handlers : Unsettles(h, f)' => Unsettled(f)'
  BY DEF Unsettles, Unsettled
<1>3. CASE \E h \in Handlers : Create(h, f)
  <2>1. PICK h \in Handlers : Create(h, f)
    BY <1>3
  <2>2. file'[f].s = req[h].s /\ req'[h].f = f /\ req'[h].pc = (IF req[h].s \in Disk THEN "rename" ELSE "close")
    BY <1>1, <2>1, CreatedIs, CreateSteps
  <2>3. QED
    BY <1>2, <2>2 DEF Unsettles
<1>4. CASE ~\E h \in Handlers : Create(h, f)
  <2>1. file[f].st = "row" /\ file'[f].s = file[f].s /\ file'[f].sha = file[f].sha
    BY <1>4, RowsMove DEF Rows
  <2>2. f \in Rows /\ f \notin cut /\ overlapped \subseteq overlapped' /\ unfollowed \subseteq unfollowed'
    BY <2>1, ObjectsMove DEF Rows
  <2>3. Unsettled(f) \/ Stored(f)
    BY <2>1, <2>2 DEF Objects
  <2>4. ASSUME NEW h \in Handlers, Rename(h), req[h].f = f, staged[req[h].s] # None PROVE Stored(f)'
    BY <2>2, <2>4, StoredNow
  <2>5. ASSUME NEW h \in Handlers, DropObject(h), req[h].obj = f PROVE Unsettled(f)'
    <3>1. req[h].old = f /\ req'[h].old = f /\ req'[h].pc = "delete"
      BY <1>1, <2>5, DropObjectMoves, UploadAssumption DEF Moves, OldKept
    <3>2. QED
      BY <1>2, <3>1 DEF Unsettles
  <2>6. CASE Unsettled(f)
    BY <1>2, <2>4, <2>6, UnsettledMoves
  <2>7. CASE Stored(f) /\ object'[f] = object[f]
    BY <2>1, <2>2, <2>7, StoredKept
  <2>8. QED
    BY <2>3, <2>4, <2>5, <2>6, <2>7, ObjectsMove
<1>5. QED
  BY <1>3, <1>4

-----------------------------------------------------------------------------
(* The inductive invariant. *)

LEMMA UploadInit == Init => UploadInv
BY TypedInit, BrowsingInit, TelegramInit, NamedInit, StagingInit, ObjectsInit DEF UploadInv

LEMMA UploadNext == ASSUME UploadInv, Next PROVE UploadInv'
<1>1. Typed /\ Browsing /\ Telegram /\ Named /\ Staging /\ Objects
  BY DEF UploadInv
<1>2. Typed' /\ Browsing' /\ Telegram'
  BY <1>1, TypedStep, BrowsingStep, TelegramStep
<1>3. Named' /\ Staging' /\ Objects'
  BY <1>1, NamedStep, StagingStep, ObjectsStep
<1>4. QED
  BY <1>2, <1>3 DEF UploadInv

LEMMA UploadStutters == ASSUME UploadInv, UNCHANGED vars PROVE UploadInv'
<1>1. Typed'
  BY DEF UploadInv, Typed, vars, histories, Called, ChunkCall, EndCall
<1>2. Browsing'
  BY DEF UploadInv, Browsing, vars, histories, Unopened, Waits, Opened, Follows
<1>3. Telegram'
  BY DEF UploadInv, Telegram, vars, histories, Resends, Failures, Sending, Between, End, PartSet, Rows
<1>4. Named'
  BY DEF UploadInv, Named, vars, histories, Made, Making, Rows
<1>5. Staging'
  <2> SUFFICES ASSUME NEW s \in Disk PROVE OnDisk(s)'
    BY DEF Staging
  <2>1. OnDisk(s) /\ s \in Sessions
    BY UploadAssumption DEF UploadInv, Staging
  <2>2. SameRequests(s) /\ SameUpload(s)
    BY DEF vars, histories, SameRequests, Alike, CallerKept, SameUpload, SameMarks
  <2>3. QED
    BY <2>1, <2>2, OnDiskKept
<1>6. Objects'
  BY DEF UploadInv, Objects, vars, histories, Unsettled, Stored, Rows, WholeSeq
<1>7. QED
  BY <1>1, <1>2, <1>3, <1>4, <1>5, <1>6 DEF UploadInv

\* What a browser, the requests, the stores and the files hold together, at every moment.
THEOREM UploadInvariant == Spec => []UploadInv
<1>1. UploadInv /\ [Next]_vars => UploadInv'
  BY UploadNext, UploadStutters
<1>2. QED
  BY UploadInit, <1>1, PTL DEF Spec

LEMMA TypesImplied == UploadInv => TypeOK
<1> SUFFICES ASSUME UploadInv PROVE TypeOK
  OBVIOUS
<1>1. Typed /\ Browsing /\ Named
  BY DEF UploadInv
<1>2. Requests /\ Clients /\ StoresTyped /\ StagedTyped /\ HistoriesTyped
  BY <1>1, TypedParts
<1>3. ASSUME NEW h \in Handlers
      PROVE  /\ req[h].op \in {"none", "chunk", "complete", "purge"}
             /\ req[h].s \in Sessions \cup {None} /\ req[h].k \in 0..Chunks
             /\ req[h].f \in Files \cup {None} /\ req[h].old \in Files \cup {None}
             /\ req[h].parts \subseteq PartSet /\ req[h].todo \in Parts
  <2>1. req[h] \in Call /\ Len(req[h].todo) <= ChunkParts
    BY <1>2 DEF Requests, Called
  <2>2. PICK q \in Seq(PartSet) : q = req[h].todo
    BY <2>1 DEF Call
  <2>3. Len(q) \in Nat /\ q \in [1..Len(q) -> PartSet]
    BY LenProperties
  <2>4. Len(q) \in 0..ChunkParts
    BY <2>1, <2>2, <2>3, Sizes
  <2>5. q \in Parts
    BY <2>3, <2>4 DEF Parts
  <2>6. QED
    BY <2>1, <2>2, <2>5 DEF Call
<1>4. ASSUME NEW s \in Sessions
      PROVE  /\ ledger[s] \in 1..Wrong \cup {None}
             /\ staged[s] = None \/ \A i \in 1..Len(staged[s]) : staged[s][i] \in PartSet
             /\ saved[s] \subseteq PartSet
             /\ session[s] = "none" => ledger[s] = None /\ staged[s] = None
             /\ client[s].pc = "wait" => req[client[s].h].s = s
  <2>1. ledger[s] \in 1..Wrong \cup {None} /\ saved[s] \subseteq PartSet
    BY <1>2 DEF StoresTyped
  <2>2. staged[s] = None \/ staged[s] \in Seq(PartSet)
    BY <1>2 DEF StagedTyped
  <2>3. staged[s] = None \/ \A i \in 1..Len(staged[s]) : staged[s][i] \in PartSet
    BY <2>2
  <2>4. Unopened(s) /\ Waits(s)
    BY <1>1 DEF Browsing
  <2>5. QED
    BY <2>1, <2>3, <2>4 DEF Unopened, Waits
<1>5. /\ session \in [Sessions -> {"none", "open", "deleted"}] /\ client \in [Sessions -> Item]
      /\ faults \in 0..MaxFaults
      /\ \A f \in Files : file[f].path = "object" => file[f].s \in Disk
  BY <1>1, <1>2 DEF StoresTyped, Clients, HistoriesTyped, Named
<1>6. QED
  BY <1>3, <1>4, <1>5 DEF TypeOK

\* The types, and what a session that was never opened cannot have.
THEOREM UploadsTyped == Spec => []TypeOK
BY UploadInvariant, TypesImplied, PTL

\* A settled file is at rest.
LEMMA AtRest == ASSUME NEW f \in Settled PROVE f \in Files /\ f \in Rows /\ f \notin cut /\ ~Unsettled(f)
<1>1. f \in Files /\ f \in Rows /\ f \notin cut /\ \A h \in Handlers : f \notin Touched(h)
  BY DEF Settled, Rows
<1>2. ASSUME NEW h \in Handlers, Unsettles(h, f) PROVE f \in Touched(h)
  <2>1. CASE req[h].pc \in {"rename", "undo"} /\ req[h].f = f
    BY <2>1 DEF Touched
  <2>2. CASE req[h].pc \in {"drop", "delete"} /\ req[h].old = f
    BY <2>2 DEF Touched
  <2>3. QED
    BY <1>2, <2>1, <2>2 DEF Unsettles
<1>3. QED
  BY <1>1, <1>2 DEF Unsettled, Unsettles

LEMMA SettledWhole == UploadInv => RowsWhole /\ HashVouches
<1> SUFFICES ASSUME UploadInv, NEW f \in Settled
             PROVE  /\ Whole(f) \/ (file[f].s \in overlapped \cup unfollowed /\ object[f] # None)
                    /\ file[f].sha = "right" /\ file[f].s \notin unfollowed => Whole(f)
  BY DEF RowsWhole, HashVouches
<1>1. f \in Files /\ f \in Rows /\ f \notin cut /\ ~Unsettled(f)
  BY AtRest
<1>2. CASE file[f].s \in Disk
  <2>1. Stored(f)
    BY <1>1, <1>2 DEF UploadInv, Objects
  <2>2. QED
    BY <1>2, <2>1 DEF Stored, Whole
<1>3. CASE file[f].s \notin Disk
  <2>1. file[f].s \in Sessions \ Disk
    BY <1>1, <1>3 DEF UploadInv, Named, Rows
  <2>2. file[f].parts = PartSet
    BY <1>1, <2>1 DEF UploadInv, Telegram
  <2>3. QED
    BY <1>3, <2>2 DEF Whole
<1>4. QED
  BY <1>2, <1>3

\* Whatever number of uploads, chunks, requests and faults interleave, a file at rest has
\* its bytes, all of them and in order, but for disk uploads with overlapping or short
\* writes, which have an object.
THEOREM FilesWhole == Spec => []RowsWhole
BY UploadInvariant, SettledWhole, PTL

\* A right hash vouches for the bytes, also where chunks overtook each other.
THEOREM HashesVouch == Spec => []HashVouches
BY UploadInvariant, SettledWhole, PTL

LEMMA ResendsImplied == UploadInv => TelegramResends
BY DEF UploadInv, Telegram, Resends, TelegramResends

\* The item of a Telegram upload does not fail before its end with fewer than three faults.
THEOREM ResendsHarmless == Spec => []TelegramResends
BY UploadInvariant, ResendsImplied, PTL
=============================================================================
