------------------------------- MODULE MCRequests -------------------------------
(***************************************************************************)
(* What concurrent requests do beside the library, for TLC: the rate       *)
(* limiter, share links, the bytes of a download and the registry of       *)
(* accounts beside FileRequests, in one run.  Only the part that scenario  *)
(* names takes steps, the others rest in a first state of theirs.          *)
(***************************************************************************)
EXTENDS FileRequests, Integers

CONSTANTS Third,                                           \* a third request at once
          Clients, Limit, Window, MaxKeys, Lag, MaxTime,   \* RateLimiter
          Files, OnDisk, Links, MaxDownloads, MaxCount,    \* ShareLinks
          MaxSize, Chunk, TTL, MaxRotations, MaxFaults,    \* Streaming
          Accounts, Registered, MaxLoops, MaxManagers      \* Accounts

VARIABLES scenario,
          now, hits, call, granted,
          file, link, unlocked, visit, served, broken,
          size, ref, readable, cache, reading, faults,
          list, recorded, session, channel, vaults, deleted, managers, made, running, cancels,
          loop, ended, told, errand

Three == Handlers \cup {Third}

Limiter == INSTANCE RateLimiter WITH Callers <- Handlers
Shares == INSTANCE ShareLinks WITH Visitors <- Three, Limit <- MaxDownloads, req <- visit
Download == INSTANCE Streaming WITH Readers <- Handlers, req <- reading
Registry == INSTANCE Accounts WITH Requests <- Three, req <- errand

ASSUME RequestsParameters ==
    /\ Limiter!LimiterAssumption /\ Shares!ShareAssumption /\ RequestAssumption
    /\ Download!StreamAssumption /\ Registry!AccountsAssumption

limiter == <<now, hits, call, granted>>
shares == <<file, link, unlocked, visit, served, broken>>
download == <<size, ref, readable, cache, reading, faults>>
registry == <<list, recorded, session, channel, vaults, deleted, managers, made, running, cancels,
              loop, ended, told, errand>>

RequestsInit ==
    /\ scenario \in {"limiter", "shares", "inbox", "download", "registry"}
    /\ Init /\ Limiter!Init /\ Shares!Init /\ Download!Init /\ Registry!Init
    /\ scenario # "download" => size = 1

LimiterNext == /\ scenario = "limiter" /\ Limiter!Next
               /\ UNCHANGED <<scenario, shares, vars, download, registry>>
SharesNext == /\ scenario = "shares" /\ Shares!Next
              /\ UNCHANGED <<scenario, limiter, vars, download, registry>>
InboxNext == /\ scenario = "inbox" /\ Next
             /\ UNCHANGED <<scenario, limiter, shares, download, registry>>
DownloadNext == /\ scenario = "download" /\ Download!Next
                /\ UNCHANGED <<scenario, limiter, shares, vars, registry>>
RegistryNext == /\ scenario = "registry" /\ Registry!Next
                /\ UNCHANGED <<scenario, limiter, shares, vars, download>>

RequestsNext == LimiterNext \/ SharesNext \/ InboxNext \/ DownloadNext \/ RegistryNext

RequestsSpec == /\ RequestsInit
                /\ [][RequestsNext]_<<scenario, limiter, shares, vars, download, registry>>

-----------------------------------------------------------------------------
\* The types of the part that takes steps.
RequestsTypes == /\ scenario = "limiter" => Limiter!TypeOK
                 /\ scenario = "shares" => Shares!TypeOK
                 /\ scenario = "inbox" => TypeOK
                 /\ scenario = "download" => Download!TypeOK
                 /\ scenario = "registry" => Registry!TypeOK

\* The accepted calls of a key keep the distance of the window (RateLimiter; security.go).
WindowBound == Limiter!WindowBound

\* A link's file is downloaded no more often than its limit and the downloads at once allow;
\* the stream route, which counts nothing, is left out (ShareLinks; handlers_share.go).
OverrunBound == Shares!OverrunBound

\* What is sent is the range that was asked for, in order, and a reference that Telegram
\* rotated before the request fails none (Streaming; downloader.go).
SentInOrder == Download!SentInOrder
RotationHeals == Download!RotationHeals

\* The registry knows the one loop of an account, and a deletion cancels it
\* (Accounts; accounts.go).
LoopsKnown == Registry!LoopsKnown
=============================================================================
