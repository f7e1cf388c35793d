------------------------ MODULE BackupPipeline_proofs ------------------------
(***************************************************************************)
(* A copy that is recorded has its parts in their places, for any number   *)
(* of accounts, snapshots and requests and any size of file.               *)
(*                                                                         *)
(* The upload never reads more than Parts parts.  A download that starts   *)
(* over finds the parts of its first attempt already read, so it can only  *)
(* finish if there were none: PipeInv.                                     *)
(***************************************************************************)
EXTENDS BackupPipeline, TLAPS

\* What the pipe of account a has carried.
PipeOf(a) ==
    LET c == copy[a] IN
    /\ c.dl = "first" => c.got = c.sent
    /\ c.dl = "again" => c.sent <= c.got
    /\ Downloading(a) /\ c.sent = c.got => ~c.torn
    /\ c.dl \in {"none", "ask"} => c.sent = 0 /\ c.got = 0 /\ ~c.torn
    /\ c.dl = "ok" => ~c.torn
    /\ c.up = "none" => c.dl = "none"

PipeInv == \A a \in Accounts : PipeOf(a)

IInv == TypeOK /\ PipeInv /\ CopiesWhole
-----------------------------------------------------------------------------
\* An idle account is in a state of the type.
LEMMA NoCopyType == NoCopy \in CopyState
<1>1. 0 \in 0..Parts /\ MaxCopies \in 0..MaxCopies BY PipelineAssumption
<1> QED BY <1>1 DEF NoCopy, CopyState

\* Before the first copy nothing has gone through a pipe.
LEMMA InitInv == Init => IInv
BY PipelineAssumption, NoCopyType
   DEF Init, IInv, TypeOK, PipeInv, PipeOf, CopiesWhole, CopyState, NoCopy, Downloading

\* Steps that change the copy of one account a, to c: the others keep theirs.
LEMMA CopyStep ==
    ASSUME IInv, NEW a \in Accounts, NEW c \in CopyState, copy' = [copy EXCEPT ![a] = c],
           PipeOf(a)'
    PROVE  /\ copy' \in [Accounts -> CopyState]
           /\ PipeInv'
           /\ \A b \in Accounts \ {a} : copy'[b] = copy[b]
           /\ copy'[a] = c
<1>1. copy \in [Accounts -> CopyState] BY DEF IInv, TypeOK
<1>2. \A b \in Accounts \ {a} : copy'[b] = copy[b] BY <1>1
<1>3. \A b \in Accounts \ {a} : PipeOf(b)' BY <1>2 DEF IInv, PipeInv, PipeOf, Downloading
<1> QED BY <1>1, <1>2, <1>3 DEF PipeInv

\* The download writes, ends, starts over or fails.
LEMMA DownloadInv ==
    ASSUME IInv, NEW a \in Accounts, DownloadStep(a)
    PROVE  IInv'
<1> USE PipelineAssumption DEF CopyState
<1> DEFINE c == copy[a]
<1>0. c \in CopyState /\ PipeOf(a) /\ copy \in [Accounts -> CopyState]
  BY DEF IInv, TypeOK, PipeInv
<1>1. CASE \E attempt \in {"first", "again"} : DownloadStart(a, attempt)
  <2> PICK attempt \in {"first", "again"} : DownloadStart(a, attempt) BY <1>1
  <2> DEFINE d == [c EXCEPT !.dl = attempt]
  <2>1. d \in CopyState /\ copy' = [copy EXCEPT ![a] = d] BY <1>0 DEF DownloadStart
  <2>2. copy'[a] = d BY <2>1, <1>0
  <2>2a. /\ copy'[a].dl = attempt /\ copy'[a].up = c.up /\ copy'[a].sent = c.sent
        /\ copy'[a].got = c.got /\ copy'[a].torn = c.torn
    BY <2>2, <1>0
  <2>2b. c.dl = "ask" BY DEF DownloadStart
  <2>3. PipeOf(a)' BY <1>0, <2>2a, <2>2b DEF PipeOf, Downloading
  <2>4. primary' = a /\ UNCHANGED <<uploadMu, snap, request, recorded>> BY DEF DownloadStart
  <2> HIDE DEF d
  <2>5. PipeInv' /\ copy' \in [Accounts -> CopyState] /\ \A b \in Accounts \ {a} : copy'[b] = copy[b]
    BY <2>1, <2>3, CopyStep
  <2>6. copy'[a].dl = attempt /\ copy'[a].up = copy[a].up BY <2>2, <1>0 DEF d
  <2> QED BY <2>4, <2>5, <2>6 DEF IInv, TypeOK, CopiesWhole, Downloading
<1>2. CASE DownloadRefused(a)
  <2> DEFINE d == [c EXCEPT !.dl = "failed"]
  <2>1. d \in CopyState /\ copy' = [copy EXCEPT ![a] = d] BY <1>2, <1>0 DEF DownloadRefused
  <2>2. copy'[a] = d BY <2>1, <1>0
  <2>2a. copy'[a].dl = "failed" /\ copy'[a].up = c.up BY <2>2, <1>0
  <2>2b. c.up # "none" BY <1>0, <1>2 DEF DownloadRefused, PipeOf
  <2>3. PipeOf(a)' BY <2>2a, <2>2b DEF PipeOf, Downloading
  <2> HIDE DEF d
  <2>5. PipeInv' /\ copy' \in [Accounts -> CopyState] /\ \A b \in Accounts \ {a} : copy'[b] = copy[b]
    BY <2>1, <2>3, CopyStep
  <2>6. copy'[a].up = copy[a].up /\ primary # a
    BY <2>2, <1>0, <1>2 DEF d, DownloadRefused, IInv, TypeOK, Downloading
  <2> QED BY <1>2, <2>5, <2>6 DEF IInv, TypeOK, CopiesWhole, Downloading, DownloadRefused
<1>3. CASE Part(a)
  <2> DEFINE d == [c EXCEPT !.sent = c.sent + 1, !.got = c.got + 1,
                           !.torn = c.torn \/ c.sent # c.got]
  <2>1. d \in CopyState /\ copy' = [copy EXCEPT ![a] = d]
    <3>1. c.sent + 1 \in 0..Parts /\ c.got + 1 \in 0..Parts BY <1>0, <1>3 DEF Part
    <3>2. (c.torn \/ c.sent # c.got) \in BOOLEAN OBVIOUS
    <3>3. copy' = [copy EXCEPT ![a] = d] BY <1>3 DEF Part
    <3> QED BY <1>0, <3>1, <3>2, <3>3
  <2>2. copy'[a] = d BY <2>1, <1>0
  <2>3. /\ copy'[a].dl = c.dl /\ copy'[a].up = c.up
        /\ copy'[a].sent = c.sent + 1 /\ copy'[a].got = c.got + 1
        /\ copy'[a].torn = (c.torn \/ c.sent # c.got)
    BY <2>2, <1>0
  <2>4. PipeOf(a)' BY <1>0, <1>3, <2>3 DEF Part, PipeOf, Downloading
  <2> HIDE DEF d
  <2>5. PipeInv' /\ copy' \in [Accounts -> CopyState] /\ \A b \in Accounts \ {a} : copy'[b] = copy[b]
    BY <2>1, <2>4, CopyStep
  <2>6. UNCHANGED <<primary, uploadMu, snap, request, recorded>> BY <1>3 DEF Part
  <2> QED BY <2>3, <2>5, <2>6 DEF IInv, TypeOK, CopiesWhole, Downloading
<1>4. CASE DownloadEnd(a)
  <2> DEFINE d == [c EXCEPT !.dl = "ok"]
  <2>1. d \in CopyState /\ copy' = [copy EXCEPT ![a] = d] BY <1>4, <1>0 DEF DownloadEnd
  <2>2. copy'[a] = d BY <2>1, <1>0
  <2>3. c.sent = c.got /\ ~c.torn
    BY <1>0, <1>4 DEF DownloadEnd, PipeOf, Downloading
  <2>2a. /\ copy'[a].dl = "ok" /\ copy'[a].up = c.up /\ copy'[a].torn = c.torn
    BY <2>2, <1>0
  <2>2b. c.up # "none" BY <1>0, <1>4 DEF DownloadEnd, PipeOf, Downloading
  <2>4. PipeOf(a)' BY <2>3, <2>2a, <2>2b DEF PipeOf, Downloading
  <2> HIDE DEF d
  <2>5. PipeInv' /\ copy' \in [Accounts -> CopyState] /\ \A b \in Accounts \ {a} : copy'[b] = copy[b]
    BY <2>1, <2>4, CopyStep
  <2>6. copy'[a].up = copy[a].up BY <2>2, <1>0 DEF d
  <2> QED BY <1>4, <2>5, <2>6 DEF IInv, TypeOK, CopiesWhole, DownloadEnd
<1>5. CASE DownloadRetry(a)
  <2> DEFINE d == [c EXCEPT !.dl = "again", !.sent = 0]
  <2>0. 0 \in 0..Parts OBVIOUS
  <2>1. d \in CopyState /\ copy' = [copy EXCEPT ![a] = d] BY <2>0, <1>5, <1>0 DEF DownloadRetry
  <2>2. copy'[a] = d BY <2>1, <1>0
  <2>3. PipeOf(a)' BY <2>2, <1>0, <1>5 DEF DownloadRetry, PipeOf, Downloading
  <2> HIDE DEF d
  <2>5. PipeInv' /\ copy' \in [Accounts -> CopyState] /\ \A b \in Accounts \ {a} : copy'[b] = copy[b]
    BY <2>1, <2>3, CopyStep
  <2>6. copy'[a].dl = "again" /\ copy'[a].up = copy[a].up BY <2>2, <1>0 DEF d
  <2> QED BY <1>5, <2>5, <2>6 DEF IInv, TypeOK, CopiesWhole, Downloading, DownloadRetry
<1>6. CASE DownloadFails(a) \/ DownloadCut(a)
  <2> DEFINE d == [c EXCEPT !.dl = "failed"]
  <2>1. d \in CopyState /\ copy' = [copy EXCEPT ![a] = d]
    BY <1>6, <1>0 DEF DownloadFails, DownloadCut
  <2>2. copy'[a] = d BY <2>1, <1>0
  <2>2a. copy'[a].dl = "failed" /\ copy'[a].up = c.up BY <2>2, <1>0
  <2>2b. c.up # "none" BY <1>0, <1>6 DEF DownloadFails, DownloadCut, PipeOf, Downloading
  <2>3. PipeOf(a)' BY <2>2a, <2>2b DEF PipeOf, Downloading
  <2> HIDE DEF d
  <2>5. PipeInv' /\ copy' \in [Accounts -> CopyState] /\ \A b \in Accounts \ {a} : copy'[b] = copy[b]
    BY <2>1, <2>3, CopyStep
  <2>6. copy'[a].up = copy[a].up BY <2>2, <1>0 DEF d
  <2> QED BY <1>6, <2>5, <2>6 DEF IInv, TypeOK, CopiesWhole, DownloadFails, DownloadCut
<1> QED BY <1>1, <1>2, <1>3, <1>4, <1>5, <1>6 DEF DownloadStep

\* The upload takes the mutex, ends or fails: what was read stays as it is.
LEMMA UploadInv ==
    ASSUME IInv, NEW a \in Accounts, UploadStep(a)
    PROVE  IInv'
<1> USE PipelineAssumption DEF CopyState
<1>0. copy[a] \in CopyState /\ PipeOf(a) /\ copy \in [Accounts -> CopyState]
  BY DEF IInv, TypeOK, PipeInv
<1>1. PICK u \in {"read", "ok", "failed"} :
        /\ copy' = [copy EXCEPT ![a].up = u]
        /\ uploadMu' = IF u = "read" THEN a ELSE Free
        /\ UNCHANGED <<primary, snap, request, recorded>>
  BY DEF UploadStep, UploadLock, UploadEnd, UploadCut, UploadFails, UploadLeave
<1> DEFINE d == [copy[a] EXCEPT !.up = u]
<1>2. d \in CopyState /\ copy' = [copy EXCEPT ![a] = d] BY <1>0, <1>1
<1>3. copy'[a] = d BY <1>2, <1>0
<1>4. PipeOf(a)' BY <1>0, <1>3 DEF PipeOf, Downloading
<1> HIDE DEF d
<1>5. PipeInv' /\ copy' \in [Accounts -> CopyState] /\ \A b \in Accounts \ {a} : copy'[b] = copy[b]
  BY <1>2, <1>4, CopyStep
<1>6. copy'[a].dl = copy[a].dl /\ copy'[a].up = u BY <1>3, <1>0 DEF d
<1> QED BY <1>1, <1>5, <1>6 DEF IInv, TypeOK, CopiesWhole, Downloading

\* A copy begins with an empty pipe, and what is recorded at its end is whole.
LEMMA CopyInv ==
    ASSUME IInv, NEW a \in Accounts, CopyStart(a) \/ CopyEnd(a)
    PROVE  IInv'
<1> USE PipelineAssumption DEF CopyState
<1>0. copy[a] \in CopyState /\ PipeOf(a) /\ copy \in [Accounts -> CopyState]
  BY DEF IInv, TypeOK, PipeInv
<1>1. CASE CopyStart(a)
  <2> DEFINE d == [NoCopy EXCEPT !.dl = "ask", !.up = "lock", !.left = copy[a].left - 1]
  <2>1. d \in CopyState /\ copy' = [copy EXCEPT ![a] = d]
    <3>1. copy[a].left - 1 \in 0..MaxCopies BY <1>0, <1>1 DEF CopyStart
    <3>2. copy' = [copy EXCEPT ![a] = d] BY <1>1 DEF CopyStart
    <3> QED BY <3>1, <3>2, NoCopyType
  <2>2. copy'[a] = d BY <2>1, <1>0
  <2>3. PipeOf(a)' BY <2>2 DEF PipeOf, Downloading, NoCopy
  <2>4. d.dl = "ask" /\ d.up = "lock" BY DEF NoCopy
  <2> HIDE DEF d
  <2>5. PipeInv' /\ copy' \in [Accounts -> CopyState] /\ \A b \in Accounts \ {a} : copy'[b] = copy[b]
    BY <2>1, <2>3, CopyStep
  <2>6. primary # a /\ uploadMu # a
    <3>1. copy[a].up = "none" /\ copy[a].dl = "none" BY <1>0, <1>1 DEF CopyStart, PipeOf
    <3> QED BY <3>1 DEF IInv, TypeOK, Downloading
  <2> QED BY <1>1, <2>5, <2>6 DEF IInv, TypeOK, CopiesWhole, Downloading, CopyStart
<1>2. CASE CopyEnd(a)
  <2> DEFINE d == [NoCopy EXCEPT !.left = copy[a].left]
  <2>1. d \in CopyState /\ copy' = [copy EXCEPT ![a] = d]
    <3>1. copy[a].left \in 0..MaxCopies BY <1>0
    <3>2. copy' = [copy EXCEPT ![a] = d] BY <1>2 DEF CopyEnd
    <3> QED BY <3>1, <3>2, NoCopyType
  <2>2. copy'[a] = d BY <2>1, <1>0
  <2>3. PipeOf(a)' BY <2>2 DEF PipeOf, Downloading, NoCopy
  <2> HIDE DEF d
  <2>5. PipeInv' /\ copy' \in [Accounts -> CopyState] /\ \A b \in Accounts \ {a} : copy'[b] = copy[b]
    BY <2>1, <2>3, CopyStep
  <2>6. recorded' \subseteq recorded \cup {"whole"}
    BY <1>0, <1>2 DEF CopyEnd, PipeOf
  <2>7. primary # a /\ uploadMu # a
    BY <1>2 DEF CopyEnd, IInv, TypeOK, Downloading
  <2>8. UNCHANGED <<primary, uploadMu, snap, request>> BY <1>2 DEF CopyEnd
  <2> QED BY <2>5, <2>6, <2>7, <2>8 DEF IInv, TypeOK, CopiesWhole, Downloading
<1> QED BY <1>1, <1>2

\* Snapshots and requests leave the pipes alone.
LEMMA OtherInv ==
    ASSUME IInv,
           \/ \E s \in Snapshots : SnapStart(s) \/ SnapTask(s) \/ SnapLock(s) \/ SnapEnd(s)
           \/ \E r \in Requests : RequestStart(r) \/ RequestTask(r) \/ RequestEnd(r)
    PROVE  IInv'
<1> USE PipelineAssumption
<1>1. UNCHANGED <<copy, recorded>>
  BY DEF SnapStart, SnapTask, SnapLock, SnapEnd, RequestStart, RequestTask, RequestEnd
<1>2. PipeInv' /\ CopiesWhole' BY <1>1 DEF IInv, PipeInv, PipeOf, CopiesWhole, Downloading
<1>3. CASE \E s \in Snapshots : SnapStart(s) \/ SnapTask(s) \/ SnapLock(s) \/ SnapEnd(s)
  <2> PICK s \in Snapshots : SnapStart(s) \/ SnapTask(s) \/ SnapLock(s) \/ SnapEnd(s) BY <1>3
  <2>1. TypeOK'
    BY <1>1 DEF IInv, TypeOK, Downloading, SnapStart, SnapTask, SnapLock, SnapEnd
  <2> QED BY <1>2, <2>1 DEF IInv
<1>4. CASE \E r \in Requests : RequestStart(r) \/ RequestTask(r) \/ RequestEnd(r)
  <2> PICK r \in Requests : RequestStart(r) \/ RequestTask(r) \/ RequestEnd(r) BY <1>4
  <2>1. TypeOK' BY <1>1 DEF IInv, TypeOK, Downloading, RequestStart, RequestTask, RequestEnd
  <2> QED BY <1>2, <2>1 DEF IInv
<1> QED BY <1>3, <1>4

\* Types, holders and pipes are as described in every reachable state.
THEOREM Invariance == Spec => []IInv
<1>1. IInv /\ [Next]_vars => IInv'
  <2> SUFFICES ASSUME IInv, [Next]_vars PROVE IInv' OBVIOUS
  <2>1. CASE UNCHANGED vars
    BY <2>1 DEF IInv, TypeOK, PipeInv, PipeOf, CopiesWhole, Downloading, vars
  <2>2. CASE Next BY <2>2, DownloadInv, UploadInv, CopyInv, OtherInv DEF Next
  <2> QED BY <2>1, <2>2
<1> QED BY InitInv, <1>1, PTL DEF Spec

\* Types, and that a holder of the task or of the upload mutex is where it holds it.
THEOREM PipelineTyped == Spec => []TypeOK
<1>1. IInv => TypeOK BY DEF IInv
<1> QED BY Invariance, <1>1, PTL

\* No recorded copy has a part in the place of another, whatever fails and starts over.
THEOREM RecordedWhole == Spec => []CopiesWhole
<1>1. IInv => CopiesWhole BY DEF IInv
<1> QED BY Invariance, <1>1, PTL
=============================================================================
