------------------------------- MODULE Streaming -------------------------------
(***************************************************************************)
(* How a file of the channel is sent to a browser: the Range header is     *)
(* parsed, the message resolved to a location with a file reference        *)
(* (through a cache), and the bytes fetched in aligned chunks and written  *)
(* to a response whose Content-Length is already announced.  Telegram      *)
(* rotates references at any time.  When the first attempt fails the       *)
(* message is resolved again and the range is sent again from its start.   *)
(*                                                                         *)
(* Bytes are positions in the file.  Telegram and net/http are external:   *)
(* upload.getFile wants the current reference, and a Write that goes past  *)
(* Content-Length fails as a whole.                                        *)
(***************************************************************************)
EXTENDS Integers, Sequences

CONSTANTS Readers,       \* the requests under way
          MaxSize,       \* bound: size of the file
          Chunk,         \* bytes that one upload.getFile returns (512 KB)
          TTL,           \* age at which a cached location is resolved again
          MaxRotations,  \* bound
          MaxFaults,     \* bound: calls of Telegram that fail
          None

\* What is assumed of the constants.
StreamAssumption == /\ {MaxSize, Chunk, TTL} \subseteq Nat \ {0}
                    /\ {MaxRotations, MaxFaults} \subseteq Nat

VARIABLES size,      \* files.size
          ref,       \* Telegram: the current reference of the document
          readable,  \* Telegram: whether the message can be read
          cache,     \* docCache: None, or the reference and its age
          req,       \* per reader: the request, its attempt and what it has sent
          faults     \* number of calls that failed

vars == <<size, ref, readable, cache, req, faults>>

Idle == [pc |-> "idle"]

Init == /\ size \in 1 .. MaxSize
        /\ ref = 0 /\ readable = TRUE
        /\ cache = None
        /\ req = [h \in Readers |-> Idle]
        /\ faults = 0

-----------------------------------------------------------------------------
(* Range: none, from-to, from-, or -n.                                     *)

Bounds == 0 .. MaxSize + 1

Headers == [kind : {"none"}] \cup [kind : {"from"}, from : Bounds]
           \cup [kind : {"span"}, from : Bounds, to : Bounds] \cup [kind : {"suffix"}, n : Bounds]

Least(a, b) == IF a < b THEN a ELSE b

BadRange == [ok |-> FALSE]

Span(from, to) == [ok |-> TRUE, first |-> from, last |-> to]

ParseRange(hdr) ==
    CASE hdr.kind = "none" -> Span(0, size - 1)
      [] hdr.kind = "suffix" -> IF hdr.n = 0 THEN BadRange ELSE Span(size - Least(hdr.n, size), size - 1)
      [] hdr.kind = "from" -> IF hdr.from >= size THEN BadRange ELSE Span(hdr.from, size - 1)
      [] hdr.kind = "span" -> IF hdr.from >= size \/ hdr.to < hdr.from THEN BadRange
                              ELSE Span(hdr.from, Least(hdr.to, size - 1))

\* A header that cannot be satisfied is answered 416 and changes nothing.
Ask(h, hdr) ==
    LET r == ParseRange(hdr)
    IN  /\ req[h].pc = "idle" /\ r.ok
        /\ req' = [req EXCEPT ![h] = [pc |-> "resolve", first |-> r.first, last |-> r.last,
                                      try |-> 1, loc |-> None, offset |-> 0, out |-> << >>,
                                      torn |-> FALSE, disturbed |-> FALSE]]
        /\ UNCHANGED <<size, ref, readable, cache, faults>>

-----------------------------------------------------------------------------
(* Locations.                                                              *)

\* A request under way that something outside happens to.
Disturbed(r) == IF r.pc = "idle" THEN r ELSE [r EXCEPT !.disturbed = TRUE]

Fresh == cache # None /\ cache.age < TTL

Aligned(pos) == (pos \div Chunk) * Chunk

FetchFrom(h, loc, try) == [req[h] EXCEPT !.pc = "fetch", !.loc = loc, !.try = try, !.offset = Aligned(req[h].first)]

UseCached(h) ==
    /\ req[h].pc = "resolve" /\ Fresh
    /\ req' = [req EXCEPT ![h] = FetchFrom(h, cache.ref, 1)]
    /\ UNCHANGED <<size, ref, readable, cache, faults>>

Resolve(h) ==
    /\ req[h].pc = "resolve" /\ ~Fresh /\ readable
    /\ cache' = [ref |-> ref, age |-> 0]
    /\ req' = [req EXCEPT ![h] = FetchFrom(h, ref, 1)]
    /\ UNCHANGED <<size, ref, readable, faults>>

\* The stored coordinates have no reference, which serves until the first rotation.  No second attempt.
FallBack(h) ==
    /\ req[h].pc = "resolve" /\ ~Fresh /\ ~readable
    /\ req' = [req EXCEPT ![h] = Disturbed(FetchFrom(h, 0, 2))]
    /\ UNCHANGED <<size, ref, readable, cache, faults>>

-----------------------------------------------------------------------------
(* Chunks.                                                                 *)

ContentLength(h) == req[h].last - req[h].first + 1

\* Fault: the overlap with the end is one byte short.
SliceShort(h, offset) ==
    LET n == Least(Chunk, size - offset)
        from == IF req[h].first > offset THEN req[h].first - offset ELSE 0
        to == IF req[h].last < offset + n - 1 THEN n - (offset + n - req[h].last) ELSE n
    IN  [i \in 1 .. to - from |-> offset + from + i - 1]

\* The part of the chunk at an offset that belongs to the range, by the slice bounds of the code.
Slice(h, offset) ==
    LET n == Least(Chunk, size - offset)
        from == IF req[h].first > offset THEN req[h].first - offset ELSE 0
        to == IF req[h].last < offset + n - 1 THEN n - (offset + n - 1 - req[h].last) ELSE n
    IN  [i \in 1 .. to - from |-> offset + from + i - 1]

\* net/http refuses a Write past the announced length.
Fits(h, data) == Len(req[h].out) + Len(data) <= ContentLength(h)

FetchChunk(h) ==
    LET data == Slice(h, req[h].offset)
        offset == req[h].offset + Least(Chunk, size - req[h].offset)
    IN  /\ req[h].pc = "fetch" /\ req[h].loc = ref /\ Fits(h, data)
        /\ req' = [req EXCEPT ![h] = [@ EXCEPT !.out = req[h].out \o data, !.offset = offset,
                                      !.pc = IF offset > req[h].last THEN "done" ELSE "fetch"]]
        /\ UNCHANGED <<size, ref, readable, cache, faults>>

\* The range is sent again, from its start, from a new location.
SendAgain(r, h, loc) == [FetchFrom(h, loc, 2) EXCEPT !.torn = (r.out # << >>), !.disturbed = r.disturbed]

GiveUp(r) == [r EXCEPT !.pc = "failed", !.disturbed = r.disturbed \/ ~readable]

\* Fault: the cached location is not dropped and serves the second attempt.
RetryCached(h, r) ==
    /\ req' = [req EXCEPT ![h] = IF r.try = 1 /\ (Fresh \/ readable)
                                 THEN SendAgain(r, h, IF Fresh THEN cache.ref ELSE ref) ELSE GiveUp(r)]
    /\ UNCHANGED cache

\* An attempt has failed.  The first one drops the cached location and resolves again.
Retry(h, r) ==
    /\ cache' = IF r.try = 1 THEN None ELSE cache
    /\ req' = [req EXCEPT ![h] = IF r.try = 1 /\ readable THEN SendAgain(r, h, ref) ELSE GiveUp(r)]

StaleReference(h) ==
    /\ req[h].pc = "fetch" /\ req[h].loc # ref
    /\ Retry(h, req[h])
    /\ UNCHANGED <<size, ref, readable, faults>>

WriteRefused(h) ==
    /\ req[h].pc = "fetch" /\ req[h].loc = ref /\ ~Fits(h, Slice(h, req[h].offset))
    /\ Retry(h, req[h])
    /\ UNCHANGED <<size, ref, readable, faults>>

CallFails(h) ==
    /\ req[h].pc = "fetch" /\ faults < MaxFaults
    /\ faults' = faults + 1
    /\ Retry(h, Disturbed(req[h]))
    /\ UNCHANGED <<size, ref, readable>>

Leave(h) ==
    /\ req[h].pc \in {"done", "failed"}
    /\ req' = [req EXCEPT ![h] = Idle]
    /\ UNCHANGED <<size, ref, readable, cache, faults>>

-----------------------------------------------------------------------------
(* Telegram and the clock.                                                 *)

DisturbAll == req' = [h \in Readers |-> Disturbed(req[h])]

Rotate ==
    /\ ref < MaxRotations
    /\ ref' = ref + 1
    /\ DisturbAll
    /\ UNCHANGED <<size, readable, cache, faults>>

\* The message is deleted, or the channel cannot be reached for a while.
Hide ==
    /\ readable' = ~readable
    /\ DisturbAll
    /\ UNCHANGED <<size, ref, cache, faults>>

Age ==
    /\ Fresh
    /\ cache' = [cache EXCEPT !.age = @ + 1]
    /\ UNCHANGED <<size, ref, readable, req, faults>>

Next == \/ \E h \in Readers :
               \/ \E hdr \in Headers : Ask(h, hdr)
               \/ UseCached(h) \/ Resolve(h) \/ FallBack(h) \/ FetchChunk(h)
               \/ StaleReference(h) \/ WriteRefused(h) \/ CallFails(h) \/ Leave(h)
        \/ Rotate \/ Hide \/ Age

Spec == Init /\ [][Next]_vars

-----------------------------------------------------------------------------

Active(h) == req[h].pc # "idle"

Requested(h) == [i \in 1 .. ContentLength(h) |-> req[h].first + i - 1]

TypeOK == /\ size \in 1 .. MaxSize /\ ref \in Nat
          /\ \A h \in Readers : Active(h) => 0 <= req[h].first /\ req[h].first <= req[h].last /\ req[h].last < size

\* The bytes a header asks for, by its definition.
Wanted(hdr) == {p \in 0 .. size - 1 :
                  CASE hdr.kind = "none" -> TRUE
                    [] hdr.kind = "suffix" -> p >= size - hdr.n
                    [] hdr.kind = "from" -> p >= hdr.from
                    [] hdr.kind = "span" -> p >= hdr.from /\ p <= hdr.to}

\* Every header is answered with the bytes it asks for that the file has, and refused when there
\* are none, for sizes and numbers up to the bound (ParseRange, downloader.go).
RangesUnderstood ==
    \A hdr \in Headers : LET r == ParseRange(hdr)
                         IN  IF r.ok THEN Wanted(hdr) # {} /\ Wanted(hdr) = r.first .. r.last ELSE Wanted(hdr) = {}

\* As long as no attempt has broken off after sending something, what was sent is the beginning of
\* the range that was asked for, and all of it once the request is done: whatever the alignment of
\* the chunks and however many other readers share the cache (DownloadRangeLoc).
SentInOrder ==
    \A h \in Readers : Active(h) /\ ~req[h].torn =>
        /\ req[h].out = SubSeq(Requested(h), 1, Len(req[h].out))
        /\ req[h].pc = "done" => req[h].out = Requested(h)

\* A reference that was rotated before the request came never makes it fail: only a rotation or a
\* failed call during the request, or a message that cannot be read, does (DownloadRangeByMessage).
RotationHeals ==
    \A h \in Readers : req[h].pc = "failed" => req[h].disturbed

\* A response of the announced length has the bytes that were asked for.
CompleteIsRight ==
    \A h \in Readers : Active(h) /\ Len(req[h].out) = ContentLength(h) => req[h].out = Requested(h)
=============================================================================
