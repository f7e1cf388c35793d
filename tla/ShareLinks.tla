------------------------------- MODULE ShareLinks -------------------------------
(***************************************************************************)
(* The public share links of files: a row of share_links with an optional  *)
(* password, expiry and limit of downloads.  A download reads the row,     *)
(* looks the file up, counts itself in a second statement and then sends   *)
(* the file; links are revoked, and files trashed and purged, in between.  *)
(* Only the landing page looks at the expiry.  The routes of a link read   *)
(* the bytes from Telegram, wherever the file is stored.                   *)
(***************************************************************************)
EXTENDS Naturals, FiniteSets

CONSTANTS Visitors,   \* the browsers, with one request at a time each
          Files,
          OnDisk,     \* the files that the disk backend stores
          Links,      \* the tokens, never reused
          Limit,      \* max_downloads of a link that has one
          MaxCount    \* bound: downloads begun through a link

\* What is assumed of the constants.
ShareAssumption == /\ OnDisk \subseteq Files
                   /\ Limit \in Nat \ {0} /\ MaxCount \in Nat
                   /\ IsFiniteSet(Visitors)

VARIABLES file,      \* "live", "trashed" or "purged"
          link,      \* the row, and whether it is there: "none", "on", "off"
          unlocked,  \* the cookies td_unlocked_<token>
          req,       \* per visitor: the link and how far its download is
          served,    \* history: downloads sent through a link
          broken     \* history: files whose sending failed although they are stored

vars == <<file, link, unlocked, req, served, broken>>

Idle == [pc |-> "idle"]

Init == /\ file = [f \in Files |-> "live"]
        /\ link = [l \in Links |-> [st |-> "none"]]
        /\ unlocked = {}
        /\ req = [v \in Visitors |-> Idle]
        /\ served = [l \in Links |-> 0]
        /\ broken = {}

On(l) == link[l].st = "on"

At(v, pc, l) == req[v].pc = pc /\ req[v].link = l

Goto(v, pc, l) == req' = [req EXCEPT ![v] = [pc |-> pc, link |-> l]]

Finish(v) == req' = [req EXCEPT ![v] = Idle]

-----------------------------------------------------------------------------
(* The owner.                                                              *)

CreateShare(l, f) ==
    /\ link[l].st = "none" /\ file[f] = "live"
    /\ \E limited, locked, preview \in BOOLEAN :
           link' = [link EXCEPT ![l] = [st |-> "on", file |-> f, count |-> 0, limited |-> limited,
                                        locked |-> locked, preview |-> preview, expired |-> FALSE]]
    /\ UNCHANGED <<file, unlocked, req, served, broken>>

Revoked(l) == [link[l] EXCEPT !.st = "off"]

DeleteShare(l) ==
    /\ On(l)
    /\ link' = [link EXCEPT ![l] = Revoked(l)]
    /\ UNCHANGED <<file, unlocked, req, served, broken>>

\* expires_at passes.
Expire(l) ==
    /\ On(l) /\ ~link[l].expired
    /\ link' = [link EXCEPT ![l].expired = TRUE]
    /\ UNCHANGED <<file, unlocked, req, served, broken>>

MarkFile(f, from, to) ==
    /\ file[f] = from
    /\ file' = [file EXCEPT ![f] = to]
    /\ UNCHANGED <<link, unlocked, req, served, broken>>

TrashFile(f) == MarkFile(f, "live", "trashed")
RestoreFile(f) == MarkFile(f, "trashed", "live")

\* share_links.file_id REFERENCES files ON DELETE CASCADE
PurgeFile(f) ==
    /\ file[f] = "trashed"
    /\ file' = [file EXCEPT ![f] = "purged"]
    /\ link' = [l \in Links |-> IF On(l) /\ link[l].file = f THEN Revoked(l) ELSE link[l]]
    /\ UNCHANGED <<unlocked, req, served, broken>>

-----------------------------------------------------------------------------
(* The visitor.                                                            *)

Unlock(v, l) ==
    /\ On(l) /\ <<v, l>> \notin unlocked
    /\ unlocked' = unlocked \cup {<<v, l>>}
    /\ UNCHANGED <<file, link, req, served, broken>>

MayOpen(v, l) == On(l) /\ (link[l].locked => <<v, l>> \in unlocked)

\* Fault: the limit is compared one too late.
WithinLimitLate(l) == link[l].limited => link[l].count <= Limit

WithinLimit(l) == link[l].limited => link[l].count < Limit

MayDownload(v, l) == MayOpen(v, l) /\ WithinLimit(l) /\ ~link[l].preview

\* The row is read and judged.
BeginDownload(v, l) ==
    /\ req[v].pc = "idle" /\ MayDownload(v, l)
    /\ link[l].count < MaxCount
    /\ Goto(v, "find", l)
    /\ UNCHANGED <<file, link, unlocked, served, broken>>

\* 404 for a file that is not shown, 503 while Telegram is not ready.
FindFile(v, l) ==
    /\ At(v, "find", l)
    /\ \/ file[link[l].file] = "live" /\ Goto(v, "count", l)
       \/ Finish(v)
    /\ UNCHANGED <<file, link, unlocked, served, broken>>

\* An UPDATE of a row that is gone changes nothing, and its result is not looked at.  A HEAD
\* request is counted too and ends here.
CountDownload(v, l) ==
    /\ At(v, "count", l)
    /\ link' = IF On(l) THEN [link EXCEPT ![l].count = @ + 1] ELSE link
    /\ \/ Goto(v, "send", l)
       \/ Finish(v)
    /\ UNCHANGED <<file, unlocked, served, broken>>

\* The bytes come from the message of the file; a file on the disk has none.
Send(v, l) ==
    LET f == link[l].file
    IN  /\ At(v, "send", l)
        /\ IF f \in OnDisk
           THEN broken' = broken \cup {f} /\ UNCHANGED served
           ELSE served' = [served EXCEPT ![l] = @ + 1] /\ UNCHANGED broken
        /\ Finish(v)
        /\ UNCHANGED <<file, link, unlocked>>

\* The preview is not counted, limited or refused by preview_only.
Stream(v, l) ==
    LET f == link[l].file
    IN  /\ req[v].pc = "idle" /\ MayOpen(v, l) /\ file[f] = "live"
        /\ broken' = IF f \in OnDisk THEN broken \cup {f} ELSE broken
        /\ UNCHANGED <<file, link, unlocked, req, served>>

Next == \/ \E l \in Links, f \in Files : CreateShare(l, f)
        \/ \E l \in Links : DeleteShare(l) \/ Expire(l)
        \/ \E f \in Files : TrashFile(f) \/ RestoreFile(f) \/ PurgeFile(f)
        \/ \E v \in Visitors, l \in Links :
               \/ Unlock(v, l) \/ BeginDownload(v, l) \/ FindFile(v, l)
               \/ CountDownload(v, l) \/ Send(v, l) \/ Stream(v, l)

Spec == Init /\ [][Next]_vars

-----------------------------------------------------------------------------

TypeOK == /\ file \in [Files -> {"live", "trashed", "purged"}]
          /\ \A l \in Links : link[l].st # "none" => link[l].file \in Files /\ link[l].count \in Nat
          /\ unlocked \subseteq Visitors \X Links
          /\ \A v \in Visitors : req[v].pc # "idle" => link[req[v].link].st # "none"

InFlight(l) == {v \in Visitors : \E pc \in {"find", "count"} : At(v, pc, l)}

\* The limit of a link is exceeded by no more downloads than could be under way at once, because
\* each is counted before it is sent (handleShareDownload and IncrementShareDownload).
OverrunBound ==
    \A l \in Links : link[l].st # "none" /\ link[l].limited =>
        served[l] <= Limit - 1 + Cardinality(Visitors)

\* While a link exists, it has counted every download it has sent or is sending.
EveryDownloadCounted ==
    \A l \in Links : On(l) => served[l] + Cardinality({v \in Visitors : At(v, "send", l)}) <= link[l].count

\* The file of a link is downloaded no more often than its limit says.
LimitKept == \A l \in Links : link[l].st # "none" /\ link[l].limited => served[l] <= Limit

\* A link whose landing page answers 410 sends nothing any more.
ExpiredSendsNothing ==
    [][\A v \in Visitors, l \in Links : BeginDownload(v, l) => ~link[l].expired]_vars

\* A stored file can be had through its link.
DiskFilesShared == broken = {}
=============================================================================
