---------------------------- MODULE Requests_proofs ----------------------------
(***************************************************************************)
(* Proofs about MCRequests: every safety property of what requests do      *)
(* beside the library, for any number of clients, links, visitors, bytes,  *)
(* accounts and requests at once.  Each part keeps an invariant of its     *)
(* own; the whole has their conjunction (RequestsInv), since a step of one *)
(* part leaves the others alone.                                           *)
(***************************************************************************)
EXTENDS MCRequests, TLAPS, FiniteSetTheorems, SequenceTheorems, WellFoundedInduction

-----------------------------------------------------------------------------
(* Share links.                                                            *)

NewLink == [st |-> "none"]

LinkRow == [st : {"on", "off"}, file : Files, count : Nat, limited : BOOLEAN, locked : BOOLEAN,
            preview : BOOLEAN, expired : BOOLEAN]

ShareVisit == [pc : {"find", "count", "send"}, link : Links]

\* Types of everything that the count depends on.
SharesTyped ==
    /\ Shares!TypeOK
    /\ link \in [Links -> {NewLink} \cup LinkRow]
    /\ visit \in [Three -> {Shares!Idle} \cup ShareVisit]
    /\ served \in [Links -> Nat]

Sending(l) == {v \in Three : Shares!At(v, "send", l)}
Underway(l) == {v \in Three : visit[v].pc # "idle" /\ visit[v].link = l}

\* A row that is there has counted what was sent and what is being sent.
CountedSends ==
    \A l \in Links : link[l].st = "on" => served[l] + Cardinality(Sending(l)) <= link[l].count

\* The bound, with the downloads that are under way, whether the row is there or gone.
UnderwayBound ==
    \A l \in Links : link[l].st # "none" /\ link[l].limited =>
        served[l] + Cardinality(Underway(l)) <= MaxDownloads - 1 + Cardinality(Three)

\* Nothing has been sent through a link that was never made, and nothing is being sent.
UnusedLinks == \A l \in Links : link[l].st = "none" => served[l] = 0 /\ Underway(l) = {}

SharesInv == SharesTyped /\ CountedSends /\ UnderwayBound /\ UnusedLinks

\* The visitors of a link are finitely many.
LEMMA VisitorSets ==
    ASSUME Shares!ShareAssumption, NEW l \in Links
    PROVE  /\ IsFiniteSet(Sending(l)) /\ IsFiniteSet(Underway(l))
           /\ Cardinality(Sending(l)) \in Nat /\ Cardinality(Underway(l)) \in Nat
           /\ Cardinality(Three) \in Nat /\ Cardinality(Underway(l)) <= Cardinality(Three)
<1>1. IsFiniteSet(Three)
  BY DEF Shares!ShareAssumption, Shares!IsFiniteSet, IsFiniteSet
<1>2. Sending(l) \subseteq Three /\ Underway(l) \subseteq Three
  BY DEF Sending, Underway
<1>3. QED
  BY <1>1, <1>2, FS_Subset, FS_CardinalityType

LEMMA SharesInitInv == ASSUME Shares!ShareAssumption, Shares!Init PROVE SharesInv
<1>1. SharesTyped
  BY DEF Shares!Init, SharesTyped, Shares!TypeOK, NewLink, Shares!Idle
<1>2. \A l \in Links : link[l].st = "none" /\ served[l] = 0
  BY DEF Shares!Init
<1>3. \A l \in Links : Underway(l) = {}
  BY DEF Shares!Init, Shares!Idle, Underway
<1>4. QED
  BY <1>1, <1>2, <1>3 DEF SharesInv, CountedSends, UnderwayBound, UnusedLinks
-----------------------------------------------------------------------------

\* What a step may do to a link without a visitor taking part: it is made, or it keeps its count
\* and its limit and does not come back.
LinksStay ==
    /\ visit' = visit /\ served' = served
    /\ \A l \in Links : \/ link'[l] = link[l]
                        \/ link[l].st = "none" /\ link'[l].st = "on" /\ link'[l].count = 0
                        \/ /\ link[l].st = "on" /\ link'[l].st \in {"on", "off"}
                           /\ link'[l].count = link[l].count /\ link'[l].limited = link[l].limited

LEMMA StayInv ==
    ASSUME Shares!ShareAssumption, SharesInv, SharesTyped', LinksStay PROVE SharesInv'
<1>1. ASSUME NEW l \in Links PROVE Sending(l)' = Sending(l) /\ Underway(l)' = Underway(l)
  BY DEF LinksStay, Sending, Underway, Shares!At
<1>2. ASSUME NEW l \in Links
      PROVE /\ link'[l].st = "on" => (served[l] + Cardinality(Sending(l)) <= link[l].count)'
            /\ link'[l].st # "none" /\ link'[l].limited =>
                  served[l] + Cardinality(Underway(l)) <= MaxDownloads - 1 + Cardinality(Three)
            /\ link'[l].st = "none" => served[l] = 0 /\ Underway(l) = {}
  <2>1. CASE link'[l] = link[l]
    BY <2>1, <1>1 DEF SharesInv, CountedSends, UnderwayBound, UnusedLinks, LinksStay
  <2>2. CASE link[l].st = "none" /\ link'[l].st = "on" /\ link'[l].count = 0
    <3>1. served[l] = 0 /\ Underway(l) = {} /\ Sending(l) = {}
      BY <2>2 DEF SharesInv, UnusedLinks, Underway, Sending, Shares!At
    <3>2. Cardinality({}) = 0
      BY FS_EmptySet
    <3>3. Cardinality(Sending(l)') = 0 /\ Cardinality(Underway(l)') = 0 /\ served'[l] = 0
      BY <3>1, <3>2, <1>1 DEF LinksStay
    <3>4. 0 <= MaxDownloads - 1 + Cardinality(Three)
      BY VisitorSets DEF Shares!ShareAssumption
    <3>5. served[l] + Cardinality(Underway(l)) <= MaxDownloads - 1 + Cardinality(Three)
      BY <3>1, <3>2, <3>4
    <3>6. (served[l] + Cardinality(Sending(l)) <= link[l].count)'
      BY <3>3, <2>2
    <3>7. QED
      BY <2>2, <3>1, <3>5, <3>6
  <2>3. CASE /\ link[l].st = "on" /\ link'[l].st \in {"on", "off"}
             /\ link'[l].count = link[l].count /\ link'[l].limited = link[l].limited
    BY <2>3, <1>1 DEF SharesInv, CountedSends, UnderwayBound, UnusedLinks, LinksStay
  <2>4. QED
    BY <2>1, <2>2, <2>3 DEF LinksStay
<1>3. CountedSends' /\ UnderwayBound' /\ UnusedLinks'
  BY <1>1, <1>2 DEF CountedSends, UnderwayBound, UnusedLinks, LinksStay
<1>4. QED
  BY <1>3 DEF SharesInv

\* The visitor's calls.
LEMMA TypedSteps == ASSUME SharesTyped, [Shares!Next]_(Shares!vars) PROVE SharesTyped'
<1> USE DEF SharesTyped, Shares!TypeOK
<1>1. CASE UNCHANGED Shares!vars
  BY <1>1 DEF Shares!vars
<1>2. ASSUME NEW l \in Links, NEW f \in Files, Shares!CreateShare(l, f) PROVE SharesTyped'
  BY <1>2 DEF Shares!CreateShare, NewLink, LinkRow
<1>3. ASSUME NEW l \in Links, Shares!DeleteShare(l) \/ Shares!Expire(l) PROVE SharesTyped'
  <2>1. \A k \in Links : link[k] \in LinkRow =>
            [link[k] EXCEPT !.st = "off"] \in LinkRow /\ [link[k] EXCEPT !.expired = TRUE] \in LinkRow
    BY DEF LinkRow
  <2>2. link[l] \in LinkRow
    BY <1>3 DEF Shares!DeleteShare, Shares!Expire, Shares!On, NewLink
  <2>3. PICK row \in LinkRow : link' = [link EXCEPT ![l] = row] /\ row.file = link[l].file
    BY <1>3, <2>1, <2>2 DEF Shares!DeleteShare, Shares!Expire, Shares!Revoked, LinkRow
  <2>4. \A q \in LinkRow : q.st # "none" /\ q.file \in Files /\ q.count \in Nat
    BY DEF LinkRow
  <2>5. UNCHANGED <<file, unlocked, visit, served>>
    BY <1>3 DEF Shares!DeleteShare, Shares!Expire
  <2>6. link' \in [Links -> {NewLink} \cup LinkRow]
    BY <2>3
  <2>7. \A k \in Links : link[k].st # "none" => link'[k].st # "none"
    BY <2>3, <2>4
  <2>8. \A v \in Three : visit[v].pc # "idle" => visit[v].link \in Links
    BY DEF Shares!Idle, ShareVisit
  <2>9. \A k \in Links : link'[k].st # "none" => link'[k].file \in Files /\ link'[k].count \in Nat
    BY <2>6, <2>4 DEF NewLink
  <2>10. QED
    BY <2>5, <2>6, <2>7, <2>8, <2>9
<1>4. ASSUME NEW f \in Files, Shares!TrashFile(f) \/ Shares!RestoreFile(f) PROVE SharesTyped'
  BY <1>4 DEF Shares!TrashFile, Shares!RestoreFile, Shares!MarkFile
<1>5. ASSUME NEW f \in Files, Shares!PurgeFile(f) PROVE SharesTyped'
  <2>1. \A k \in Links : link[k] \in LinkRow =>
            [link[k] EXCEPT !.st = "off"] \in LinkRow
    BY DEF LinkRow
  <2>2. \A k \in Links : link[k].st = "on" => link[k] \in LinkRow
    BY DEF NewLink
  <2>3. link' \in [Links -> {NewLink} \cup LinkRow]
    BY <1>5, <2>1, <2>2 DEF Shares!PurgeFile, Shares!On, Shares!Revoked
  <2>4. \A q \in LinkRow : q.st # "none" /\ q.file \in Files /\ q.count \in Nat
    BY DEF LinkRow
  <2>5. \A k \in Links : link[k].st # "none" => link'[k].st # "none"
    BY <1>5, <2>1, <2>2, <2>4 DEF Shares!PurgeFile, Shares!On, Shares!Revoked
  <2>6. \A v \in Three : visit[v].pc # "idle" => visit[v].link \in Links
    BY DEF Shares!Idle, ShareVisit
  <2>7. \A k \in Links : link'[k].st # "none" => link'[k].file \in Files /\ link'[k].count \in Nat
    BY <2>3, <2>4 DEF NewLink
  <2>8. file' \in [Files -> {"live", "trashed", "purged"}] /\ UNCHANGED <<unlocked, visit, served>>
    BY <1>5 DEF Shares!PurgeFile
  <2>9. QED
    BY <2>3, <2>5, <2>6, <2>7, <2>8
<1>6. ASSUME NEW v \in Three, NEW l \in Links, Shares!Unlock(v, l) \/ Shares!Stream(v, l)
      PROVE SharesTyped'
  BY <1>6 DEF Shares!Unlock, Shares!Stream
<1>7. ASSUME NEW v \in Three, NEW l \in Links, Shares!BeginDownload(v, l) PROVE SharesTyped'
  BY <1>7 DEF Shares!BeginDownload, Shares!MayDownload, Shares!MayOpen, Shares!On, Shares!Goto,
              Shares!Idle, ShareVisit
<1>8. ASSUME NEW v \in Three, NEW l \in Links, Shares!FindFile(v, l) PROVE SharesTyped'
  BY <1>8 DEF Shares!FindFile, Shares!At, Shares!Goto, Shares!Finish, Shares!Idle, ShareVisit
<1>9. ASSUME NEW v \in Three, NEW l \in Links, Shares!CountDownload(v, l) PROVE SharesTyped'
  <2>1. link' \in [Links -> {NewLink} \cup LinkRow]
        /\ \A k \in Links : link[k].st # "none" => link'[k].st # "none"
    <3>1. CASE link[l].st = "on"
      <4>1. link[l] \in LinkRow
        BY <3>1 DEF NewLink
      <4>2. PICK row \in LinkRow : link' = [link EXCEPT ![l] = row]
        <5>1. [link[l] EXCEPT !.count = link[l].count + 1] \in LinkRow
          BY <4>1 DEF LinkRow
        <5>2. QED
          BY <1>9, <3>1, <5>1 DEF Shares!CountDownload, Shares!On
      <4>3. row.st # "none"
        BY DEF LinkRow
      <4>4. QED
        BY <4>2, <4>3
    <3>2. CASE link[l].st # "on"
      BY <1>9, <3>2 DEF Shares!CountDownload, Shares!On
    <3>3. QED
      BY <3>1, <3>2
  <2>2. visit' \in [Three -> {Shares!Idle} \cup ShareVisit]
        /\ \A w \in Three : visit'[w].pc # "idle" => visit[w].pc # "idle" /\ visit'[w].link = visit[w].link
    BY <1>9 DEF Shares!CountDownload, Shares!At, Shares!Goto, Shares!Finish, Shares!Idle, ShareVisit
  <2>3. UNCHANGED <<file, unlocked, served>>
    BY <1>9 DEF Shares!CountDownload
  <2>4. \A k \in Links : link'[k].st # "none" => link'[k].file \in Files /\ link'[k].count \in Nat
    BY <2>1 DEF NewLink, LinkRow
  <2>5. \A w \in Three : visit[w].pc # "idle" => visit[w].link \in Links
    BY DEF Shares!Idle, ShareVisit
  <2>6. QED
    BY <2>1, <2>2, <2>3, <2>4, <2>5
<1>10. ASSUME NEW v \in Three, NEW l \in Links, Shares!Send(v, l) PROVE SharesTyped'
  BY <1>10 DEF Shares!Send, Shares!At, Shares!Goto, Shares!Finish, Shares!Idle, ShareVisit
<1>11. QED
  BY <1>1, <1>2, <1>3, <1>4, <1>5, <1>6, <1>7, <1>8, <1>9, <1>10 DEF Shares!Next
\* A download moves on: those of the other visitors stay as they are.
LEMMA VisitSteps ==
    ASSUME SharesTyped, NEW v \in Three, NEW l \in Links, NEW to,
           visit' = [visit EXCEPT ![v] = to], to = Shares!Idle \/ to \in ShareVisit,
           visit[v].pc # "idle" => visit[v].link = l, to.pc # "idle" => to.link = l
    PROVE  /\ \A k \in Links \ {l} : Sending(k)' = Sending(k) /\ Underway(k)' = Underway(k)
           /\ Sending(l)' = IF to.pc = "send" THEN Sending(l) \cup {v} ELSE Sending(l) \ {v}
           /\ Underway(l)' = IF to.pc # "idle" THEN Underway(l) \cup {v} ELSE Underway(l) \ {v}
<1>1. \A w \in Three : visit'[w] = IF w = v THEN to ELSE visit[w]
  BY DEF SharesTyped
<1>2. to.pc = "idle" \/ to.pc \in {"find", "count", "send"}
  BY DEF Shares!Idle, ShareVisit
<1>3. \A w \in Three : visit[w].pc = "idle" \/ visit[w].pc \in {"find", "count", "send"}
  BY DEF SharesTyped, Shares!Idle, ShareVisit
<1>4. QED
  BY <1>1, <1>2, <1>3 DEF Sending, Underway, Shares!At

\* Only the link of the visitor is concerned.
LEMMA OneLink ==
    ASSUME SharesInv, SharesTyped', NEW l \in Links,
           \A k \in Links \ {l} : /\ Sending(k)' = Sending(k) /\ Underway(k)' = Underway(k)
                                  /\ link'[k] = link[k] /\ served'[k] = served[k],
           link[l].st # "none" /\ link'[l].st # "none",
           link'[l].st = "on" => (served[l] + Cardinality(Sending(l)) <= link[l].count)',
           link'[l].limited =>
               (served[l] + Cardinality(Underway(l)))' <= MaxDownloads - 1 + Cardinality(Three)
    PROVE  SharesInv'
BY DEF SharesInv, CountedSends, UnderwayBound, UnusedLinks

\* A set and what one visitor more or less makes of its size.
LEMMA OneVisitor ==
    ASSUME NEW S, IsFiniteSet(S), NEW v
    PROVE  /\ Cardinality(S \cup {v}) = IF v \in S THEN Cardinality(S) ELSE Cardinality(S) + 1
           /\ Cardinality(S \ {v}) = IF v \in S THEN Cardinality(S) - 1 ELSE Cardinality(S)
           /\ Cardinality(S) \in Nat
BY FS_AddElement, FS_RemoveElement, FS_CardinalityType

LEMMA BeginInv ==
    ASSUME Shares!ShareAssumption, SharesInv, SharesTyped', NEW v \in Three, NEW l \in Links,
           Shares!BeginDownload(v, l)
    PROVE  SharesInv'
<1>1. /\ visit[v].pc = "idle" /\ link[l].st = "on" /\ link' = link /\ served' = served
      /\ link[l].limited => link[l].count < MaxDownloads
  BY DEF Shares!BeginDownload, Shares!MayDownload, Shares!MayOpen, Shares!On, Shares!WithinLimit
<1>2. PICK to : /\ to = [pc |-> "find", link |-> l] /\ visit' = [visit EXCEPT ![v] = to]
  BY DEF Shares!BeginDownload, Shares!Goto
<1>3. to \in ShareVisit /\ to.pc = "find" /\ to.link = l
  BY <1>2 DEF ShareVisit
<1>4. /\ \A k \in Links \ {l} : Sending(k)' = Sending(k) /\ Underway(k)' = Underway(k)
      /\ Sending(l)' = Sending(l) \ {v} /\ Underway(l)' = Underway(l) \cup {v}
  BY <1>1, <1>2, <1>3, VisitSteps DEF SharesInv
<1>5. Sending(l)' = Sending(l)
  BY <1>1, <1>4 DEF Sending, Shares!At
<1>6. served[l] + Cardinality(Sending(l)) <= link[l].count
  BY <1>1 DEF SharesInv, CountedSends
<1>7. ASSUME link[l].limited
      PROVE served[l] + Cardinality(Underway(l)') <= MaxDownloads - 1 + Cardinality(Three)
  <2>1. link[l].count < MaxDownloads
    BY <1>1, <1>7
  <2>2. Underway(l)' \subseteq Three
    BY DEF Underway
  <2>3. IsFiniteSet(Three)
    BY DEF Shares!ShareAssumption, Shares!IsFiniteSet, IsFiniteSet
  <2>4. Cardinality(Underway(l)') <= Cardinality(Three) /\ Cardinality(Underway(l)') \in Nat
    BY <2>2, <2>3, FS_Subset, FS_CardinalityType
  <2>5. link[l].count \in Nat /\ served[l] \in Nat /\ MaxDownloads \in Nat
    BY <1>1 DEF SharesInv, SharesTyped, Shares!TypeOK, Shares!ShareAssumption
  <2>6. QED
    BY <2>1, <2>4, <2>5, <1>6, VisitorSets
<1>8. QED
  BY <1>1, <1>4, <1>5, <1>6, <1>7, OneLink

\* The file is looked up.
LEMMA FindInv ==
    ASSUME Shares!ShareAssumption, SharesInv, SharesTyped', NEW v \in Three, NEW l \in Links,
           Shares!FindFile(v, l)
    PROVE  SharesInv'
<1>1. visit[v].pc = "find" /\ visit[v].link = l /\ link' = link /\ served' = served
  BY DEF Shares!FindFile, Shares!At
<1>2. PICK to : /\ to = Shares!Idle \/ to = [pc |-> "count", link |-> l]
                /\ visit' = [visit EXCEPT ![v] = to]
  BY DEF Shares!FindFile, Shares!Goto, Shares!Finish
<1>3. /\ to = Shares!Idle \/ to \in ShareVisit
      /\ to.pc # "send" /\ (to.pc # "idle" => to.link = l)
  BY <1>2 DEF ShareVisit, Shares!Idle
<1>4. /\ \A k \in Links \ {l} : Sending(k)' = Sending(k) /\ Underway(k)' = Underway(k)
      /\ Sending(l)' = Sending(l) \ {v} /\ Underway(l)' \in {Underway(l) \cup {v}, Underway(l) \ {v}}
  BY <1>1, <1>2, <1>3, VisitSteps DEF SharesInv
<1>5. Sending(l)' = Sending(l) /\ v \in Underway(l)
  BY <1>1, <1>4 DEF Sending, Shares!At, Underway
<1>6. Underway(l)' \subseteq Underway(l)
  BY <1>4, <1>5
<1>7. link[l].st # "none"
  BY <1>1 DEF SharesInv, SharesTyped, Shares!TypeOK
<1>8. ASSUME link[l].limited
      PROVE served[l] + Cardinality(Underway(l)') <= MaxDownloads - 1 + Cardinality(Three)
  <2>1. served[l] + Cardinality(Underway(l)) <= MaxDownloads - 1 + Cardinality(Three)
    BY <1>7, <1>8 DEF SharesInv, UnderwayBound
  <2>2. Cardinality(Underway(l)') <= Cardinality(Underway(l)) /\ Cardinality(Underway(l)') \in Nat
    BY <1>6, VisitorSets, FS_Subset, FS_CardinalityType
  <2>3. served[l] \in Nat /\ MaxDownloads \in Nat
    BY DEF SharesInv, SharesTyped, Shares!ShareAssumption
  <2>4. QED
    BY <2>1, <2>2, <2>3, VisitorSets
<1>9. link[l].st = "on" => served[l] + Cardinality(Sending(l)) <= link[l].count
  BY DEF SharesInv, CountedSends
<1>10. QED
  BY <1>1, <1>4, <1>5, <1>7, <1>8, <1>9, OneLink

\* The download is counted, and sent or not.
LEMMA CountInv ==
    ASSUME Shares!ShareAssumption, SharesInv, SharesTyped', NEW v \in Three, NEW l \in Links,
           Shares!CountDownload(v, l)
    PROVE  SharesInv'
<1>1. visit[v].pc = "count" /\ visit[v].link = l /\ served' = served
  BY DEF Shares!CountDownload, Shares!At
<1>2. link[l].st # "none"
  BY <1>1 DEF SharesInv, SharesTyped, Shares!TypeOK
<1>3. /\ link'[l].st = link[l].st /\ link'[l].limited = link[l].limited
      /\ link[l].st = "on" => link'[l].count = link[l].count + 1
      /\ \A k \in Links \ {l} : link'[k] = link[k]
  BY <1>2 DEF Shares!CountDownload, Shares!On, SharesInv, SharesTyped, NewLink, LinkRow
<1>4. PICK to : /\ to = Shares!Idle \/ to = [pc |-> "send", link |-> l]
                /\ visit' = [visit EXCEPT ![v] = to]
  BY DEF Shares!CountDownload, Shares!Goto, Shares!Finish
<1>5. /\ to = Shares!Idle \/ to \in ShareVisit
      /\ to.pc # "idle" => to.link = l
  BY <1>4 DEF ShareVisit, Shares!Idle
<1>6. /\ \A k \in Links \ {l} : Sending(k)' = Sending(k) /\ Underway(k)' = Underway(k)
      /\ Sending(l)' \in {Sending(l) \cup {v}, Sending(l) \ {v}}
      /\ Underway(l)' \in {Underway(l) \cup {v}, Underway(l) \ {v}}
  BY <1>1, <1>4, <1>5, VisitSteps DEF SharesInv
<1>7. v \in Underway(l)
  BY <1>1 DEF Underway
<1>8. Underway(l)' \subseteq Underway(l)
  BY <1>6, <1>7
<1>9. /\ Cardinality(Underway(l)') <= Cardinality(Underway(l))
      /\ Cardinality(Underway(l)) \in Nat /\ Cardinality(Underway(l)') \in Nat
  BY <1>8, VisitorSets, FS_Subset, FS_CardinalityType
<1>10. /\ Cardinality(Sending(l)') <= Cardinality(Sending(l)) + 1
       /\ Cardinality(Sending(l)) \in Nat /\ Cardinality(Sending(l)') \in Nat
  <2>1. IsFiniteSet(Sending(l))
    BY VisitorSets
  <2>2. PICK S : S = Sending(l)
    OBVIOUS
  <2>3. Cardinality(S \cup {v}) \in {Cardinality(S), Cardinality(S) + 1}
        /\ Cardinality(S \ {v}) \in {Cardinality(S), Cardinality(S) - 1} /\ Cardinality(S) \in Nat
        /\ Cardinality(S \ {v}) \in Nat
    BY <2>1, <2>2, OneVisitor, FS_RemoveElement, FS_CardinalityType
  <2>4. PICK T : T = Sending(l)'
    OBVIOUS
  <2>5. T = S \cup {v} \/ T = S \ {v}
    BY <2>2, <2>4, <1>6
  <2>6. Cardinality(T) <= Cardinality(S) + 1 /\ Cardinality(T) \in Nat
    <3>1. Cardinality(T) = Cardinality(S \cup {v}) \/ Cardinality(T) = Cardinality(S \ {v})
      BY <2>5
    <3>2. QED
      BY <2>3, <3>1
  <2>7. QED
    BY <2>2, <2>3, <2>4, <2>6
<1>11. served[l] \in Nat /\ MaxDownloads \in Nat
  BY DEF SharesInv, SharesTyped, Shares!ShareAssumption
<1>12. ASSUME link'[l].st = "on" PROVE served[l] + Cardinality(Sending(l)') <= link'[l].count
  <2>1. served[l] + Cardinality(Sending(l)) <= link[l].count /\ link'[l].count = link[l].count + 1
    BY <1>12, <1>3 DEF SharesInv, CountedSends
  <2>2. link[l].count \in Nat
    BY <1>2 DEF SharesInv, SharesTyped, Shares!TypeOK
  <2>3. QED
    BY <2>1, <2>2, <1>10, <1>11
<1>13. ASSUME link'[l].limited
       PROVE served[l] + Cardinality(Underway(l)') <= MaxDownloads - 1 + Cardinality(Three)
  <2>1. served[l] + Cardinality(Underway(l)) <= MaxDownloads - 1 + Cardinality(Three)
    BY <1>13, <1>2, <1>3 DEF SharesInv, UnderwayBound
  <2>2. QED
    BY <2>1, <1>9, <1>11, VisitorSets
<1>14. QED
  BY <1>1, <1>2, <1>3, <1>6, <1>12, <1>13, OneLink

\* The file is sent, or there is nothing to send.
LEMMA SendInv ==
    ASSUME Shares!ShareAssumption, SharesInv, SharesTyped', NEW v \in Three, NEW l \in Links,
           Shares!Send(v, l)
    PROVE  SharesInv'
<1>1. visit[v].pc = "send" /\ visit[v].link = l /\ link' = link
      /\ visit' = [visit EXCEPT ![v] = Shares!Idle]
  BY DEF Shares!Send, Shares!At, Shares!Finish
<1>2. served[l] \in Nat /\ served'[l] \in {served[l], served[l] + 1}
      /\ \A k \in Links \ {l} : served'[k] = served[k]
  BY DEF Shares!Send, SharesInv, SharesTyped
<1>3. /\ \A k \in Links \ {l} : Sending(k)' = Sending(k) /\ Underway(k)' = Underway(k)
      /\ Sending(l)' = Sending(l) \ {v} /\ Underway(l)' = Underway(l) \ {v}
  <2>1. PICK to : to = Shares!Idle
    OBVIOUS
  <2>2. to.pc = "idle"
    BY <2>1 DEF Shares!Idle
  <2>3. QED
    BY <1>1, <2>1, <2>2, VisitSteps DEF SharesInv
<1>4. v \in Sending(l) /\ v \in Underway(l)
  BY <1>1 DEF Sending, Underway, Shares!At
<1>5. Cardinality(Sending(l)') = Cardinality(Sending(l)) - 1
  BY <1>3, <1>4, VisitorSets, FS_RemoveElement
<1>6. Cardinality(Underway(l)') = Cardinality(Underway(l)) - 1
  BY <1>3, <1>4, VisitorSets, FS_RemoveElement
<1>7. link[l].st # "none"
  BY <1>1 DEF SharesInv, SharesTyped, Shares!TypeOK
<1>8. ASSUME link[l].st = "on" PROVE served'[l] + Cardinality(Sending(l)') <= link[l].count
  <2>1. served[l] + Cardinality(Sending(l)) <= link[l].count
    BY <1>8 DEF SharesInv, CountedSends
  <2>2. link[l].count \in Nat
    BY <1>7 DEF SharesInv, SharesTyped, Shares!TypeOK
  <2>3. QED
    BY <2>1, <2>2, <1>2, <1>5, VisitorSets
<1>9. ASSUME link[l].limited
      PROVE served'[l] + Cardinality(Underway(l)') <= MaxDownloads - 1 + Cardinality(Three)
  <2>1. served[l] + Cardinality(Underway(l)) <= MaxDownloads - 1 + Cardinality(Three)
    BY <1>7, <1>9 DEF SharesInv, UnderwayBound
  <2>2. QED
    BY <2>1, <1>2, <1>6, VisitorSets DEF Shares!ShareAssumption
<1>10. QED
  BY <1>1, <1>2, <1>3, <1>7, <1>8, <1>9, OneLink

LEMMA SharesNextInv ==
    ASSUME Shares!ShareAssumption, SharesInv, [Shares!Next]_(Shares!vars) PROVE SharesInv'
<1>1. SharesTyped'
  BY TypedSteps DEF SharesInv
<1>2. ASSUME NEW l \in Links, NEW f \in Files, Shares!CreateShare(l, f) PROVE LinksStay
  BY <1>2 DEF Shares!CreateShare, LinksStay, SharesInv, SharesTyped
<1>3. ASSUME NEW l \in Links, Shares!DeleteShare(l) \/ Shares!Expire(l) PROVE LinksStay
  BY <1>3 DEF Shares!DeleteShare, Shares!Expire, Shares!On, Shares!Revoked, LinksStay, SharesInv,
              SharesTyped, NewLink, LinkRow
<1>4. ASSUME NEW f \in Files, Shares!PurgeFile(f) PROVE LinksStay
  <2>1. \A k \in Links : link[k].st = "on" => link[k] \in LinkRow
    BY DEF SharesInv, SharesTyped, NewLink
  <2>2. \A k \in Links : link'[k] = link[k] \/
             (link[k].st = "on" /\ link'[k] = [link[k] EXCEPT !.st = "off"])
    BY <1>4 DEF Shares!PurgeFile, Shares!On, Shares!Revoked
  <2>3. \A row \in LinkRow : /\ [row EXCEPT !.st = "off"].st = "off"
                             /\ [row EXCEPT !.st = "off"].count = row.count
                             /\ [row EXCEPT !.st = "off"].limited = row.limited
    BY DEF LinkRow
  <2>4. visit' = visit /\ served' = served
    BY <1>4 DEF Shares!PurgeFile
  <2>5. ASSUME NEW k \in Links, link'[k] # link[k]
        PROVE /\ link[k].st = "on" /\ link'[k].st \in {"on", "off"}
              /\ link'[k].count = link[k].count /\ link'[k].limited = link[k].limited
    <3>1. link[k].st = "on" /\ link'[k] = [link[k] EXCEPT !.st = "off"]
      BY <2>2, <2>5
    <3>2. link[k] \in LinkRow
      BY <2>1, <3>1
    <3>3. QED
      BY <2>3, <3>1, <3>2
  <2>6. QED
    BY <2>4, <2>5 DEF LinksStay
<1>5. ASSUME \/ UNCHANGED Shares!vars
             \/ \E f \in Files : Shares!TrashFile(f) \/ Shares!RestoreFile(f)
             \/ \E v \in Three, l \in Links : Shares!Unlock(v, l) \/ Shares!Stream(v, l)
      PROVE LinksStay
  BY <1>5 DEF Shares!vars, Shares!TrashFile, Shares!RestoreFile, Shares!MarkFile, Shares!Unlock,
              Shares!Stream, LinksStay
<1>6. QED
  BY <1>1, <1>2, <1>3, <1>4, <1>5, StayInv, BeginInv, FindInv, CountInv, SendInv DEF Shares!Next

LEMMA SharesBound == ASSUME Shares!ShareAssumption, SharesInv PROVE Shares!OverrunBound
<1>1. ASSUME NEW l \in Links, link[l].st # "none", link[l].limited
      PROVE served[l] <= MaxDownloads - 1 + Cardinality(Three)
  <2>1. served[l] + Cardinality(Underway(l)) <= MaxDownloads - 1 + Cardinality(Three)
    BY <1>1 DEF SharesInv, UnderwayBound
  <2>2. served[l] \in Nat /\ MaxDownloads \in Nat
    BY DEF SharesInv, SharesTyped, Shares!ShareAssumption
  <2>3. QED
    BY <2>1, <2>2, VisitorSets
<1>2. Shares!Cardinality(Three) = Cardinality(Three)
  BY DEF Shares!Cardinality, Cardinality
<1>3. QED
  BY <1>1, <1>2 DEF Shares!OverrunBound
-----------------------------------------------------------------------------
(* The registry of accounts.                                               *)

\* A handler between Claim and Launch holds a loop of its account that nobody else touches.
ClaimsHeld ==
    \A r \in Three : errand[r].pc = "launch" =>
        /\ errand[r].loop \in Registry!Loops /\ errand[r].acct \in Accounts
        /\ loop[errand[r].loop].at = "claimed" /\ loop[errand[r].loop].acct = errand[r].acct
        /\ \A q \in Three \ {r} : errand[q].pc = "launch" => errand[q].loop # errand[r].loop

\* A handler at work has an account, and a loop that lives has one.
AccountsNamed ==
    /\ \A r \in Three : errand[r].pc \notin {"idle", "over"} => errand[r].acct \in Accounts
    /\ \A l \in Registry!Loops : Registry!Live(l) => loop[l].acct \in Accounts

RegistryInv == Registry!TypeOK /\ AccountsNamed /\ ClaimsHeld /\ Registry!LoopsKnown

Errand == [kind : {"none", "add", "delete", "wizard", "refresh", "backup"},
           acct : Accounts \cup {None},
           pc : {"idle", "start", "launch", "manager", "wait", "flow", "look", "create",
                 "stop", "remove", "load", "save", "keys", "over"},
           names : SUBSET Accounts, channels : SUBSET Accounts,
           loop : Registry!Loops \cup {0}, mgr : Registry!Managers \cup {0}]

RunLoop == [acct : Accounts \cup {None}, mgr : Registry!Managers \cup {0},
            at : {"none", "claimed", "connecting", "up", "looking", "serving", "returned", "exited"}]

LEMMA RegistryTypes ==
    /\ Registry!TypeOK <=>
        /\ list \subseteq Accounts /\ recorded \subseteq Accounts /\ deleted \subseteq Accounts
        /\ session \subseteq Accounts /\ channel \subseteq Accounts /\ vaults \in [Accounts -> Nat]
        /\ made \in 0..MaxManagers
        /\ managers \in [Accounts -> Registry!Managers \cup {0}]
        /\ running \subseteq Accounts
        /\ cancels \in [Accounts -> Registry!Loops \cup {0}]
        /\ loop \in [Registry!Loops -> RunLoop]
        /\ ended \subseteq Registry!Loops /\ told \subseteq Registry!Loops
        /\ errand \in [Three -> Errand]
    /\ Registry!TypeOK' <=>
        /\ list' \subseteq Accounts /\ recorded' \subseteq Accounts /\ deleted' \subseteq Accounts
        /\ session' \subseteq Accounts /\ channel' \subseteq Accounts /\ vaults' \in [Accounts -> Nat]
        /\ made' \in 0..MaxManagers
        /\ managers' \in [Accounts -> Registry!Managers \cup {0}]
        /\ running' \subseteq Accounts
        /\ cancels' \in [Accounts -> Registry!Loops \cup {0}]
        /\ loop' \in [Registry!Loops -> RunLoop]
        /\ ended' \subseteq Registry!Loops /\ told' \subseteq Registry!Loops
        /\ errand' \in [Three -> Errand]
BY DEF Registry!TypeOK, Errand, RunLoop

LEMMA RegistryInitInv == ASSUME Registry!AccountsAssumption, Registry!Init PROVE RegistryInv
<1>1. Registry!NoLoop \in RunLoop
  BY DEF Registry!NoLoop, RunLoop
<1>2. Registry!NoRequest \in Errand
  BY DEF Registry!NoRequest, Errand
<1>3. Registry!TypeOK
  BY <1>1, <1>2, RegistryTypes DEF Registry!Init, Registry!AccountsAssumption
<1>4. \A r \in Three : errand[r].pc = "idle"
  BY DEF Registry!Init, Registry!NoRequest
<1>5. \A l \in Registry!Loops : ~Registry!Live(l)
  BY DEF Registry!Init, Registry!Live, Registry!NoLoop
<1>6. told = {}
  BY DEF Registry!Init
<1>7. QED
  BY <1>3, <1>4, <1>5, <1>6 DEF RegistryInv, AccountsNamed, ClaimsHeld, Registry!LoopsKnown

\* A handler that goes on to another place, and keeps its account; it does not come to hold a loop.
Walks(r) == \E q \in Errand : /\ errand' = [errand EXCEPT ![r] = q] /\ q.pc # "launch"
                              /\ q.pc \notin {"idle", "over"} => q.acct \in Accounts

LEMMA WalksOn ==
    ASSUME Registry!TypeOK, AccountsNamed, NEW r \in Three, errand[r].pc \notin {"idle", "over"},
           \/ \E p \in {"idle", "start", "manager", "wait", "flow", "look", "create",
                        "stop", "remove", "load", "save", "keys", "over"} : Registry!Goto(r, p)
           \/ Registry!Answer(r)
    PROVE  Walks(r)
<1>1. errand[r] \in Errand /\ errand[r].acct \in Accounts
  BY RegistryTypes DEF AccountsNamed
<1>2. ASSUME NEW p \in {"idle", "start", "manager", "wait", "flow", "look", "create",
                        "stop", "remove", "load", "save", "keys", "over"}, Registry!Goto(r, p)
      PROVE Walks(r)
  <2>1. PICK q : q = [errand[r] EXCEPT !.pc = p]
    OBVIOUS
  <2>2. q \in Errand /\ q.pc = p /\ q.acct = errand[r].acct
    BY <1>1, <2>1 DEF Errand
  <2>3. errand' = [errand EXCEPT ![r] = q]
    BY <1>2, <2>1 DEF Registry!Goto
  <2>4. QED
    BY <1>1, <2>2, <2>3 DEF Walks
<1>3. CASE Registry!Answer(r)
  <2>1. PICK q : q = [errand[r] EXCEPT !.pc = "over", !.names = {}, !.channels = {}, !.loop = 0]
    OBVIOUS
  <2>2. q \in Errand /\ q.pc = "over"
    BY <1>1, <2>1 DEF Errand
  <2>3. errand' = [errand EXCEPT ![r] = q]
    BY <1>3, <2>1 DEF Registry!Answer
  <2>4. QED
    BY <2>2, <2>3 DEF Walks
<1>4. QED
  BY <1>2, <1>3

\* The settings of the accounts stay settings of accounts.
SettingsTyped == /\ list \subseteq Accounts /\ recorded \subseteq Accounts /\ deleted \subseteq Accounts
                 /\ session \subseteq Accounts /\ channel \subseteq Accounts
                 /\ vaults \in [Accounts -> Nat]

ManagersTyped == made \in 0..MaxManagers /\ managers \in [Accounts -> Registry!Managers \cup {0}]

\* A step of a handler that leaves the loops, their marks and their cancel functions alone.
LEMMA WalkInv ==
    ASSUME RegistryInv, NEW r \in Three, Walks(r), SettingsTyped', ManagersTyped',
           UNCHANGED <<running, cancels, loop, ended, told>>
    PROVE  RegistryInv'
<1>1. PICK q \in Errand : /\ errand' = [errand EXCEPT ![r] = q] /\ q.pc # "launch"
                          /\ q.pc \notin {"idle", "over"} => q.acct \in Accounts
  BY DEF Walks
<1>2. errand \in [Three -> Errand]
  BY RegistryTypes DEF RegistryInv
<1>3. \A p \in Three : errand'[p] = IF p = r THEN q ELSE errand[p]
  BY <1>1, <1>2
<1>4. Registry!TypeOK'
  BY <1>1, <1>2, RegistryTypes DEF RegistryInv, SettingsTyped, ManagersTyped
<1>5. AccountsNamed'
  BY <1>1, <1>3 DEF RegistryInv, AccountsNamed, Registry!Live
<1>6. ClaimsHeld'
  BY <1>1, <1>3 DEF RegistryInv, ClaimsHeld
<1>7. Registry!LoopsKnown'
  BY DEF RegistryInv, Registry!LoopsKnown, Registry!Live
<1>8. QED
  BY <1>4, <1>5, <1>6, <1>7 DEF RegistryInv

\* The steps of a handler but for Claim, Launch and Stop.
LEMMA HandlerInv ==
    ASSUME RegistryInv, NEW r \in Three,
           \/ \E a \in Accounts : Registry!Add(r, a)
           \/ \E a \in Accounts, k \in {"delete", "wizard", "refresh", "backup"} : Registry!Find(r, a, k)
           \/ Registry!AlreadyRunning(r) \/ Registry!Manage(r) \/ Registry!Running(r)
           \/ Registry!NotRunning(r) \/ Registry!Remove(r) \/ Registry!Flow(r) \/ Registry!Look(r)
           \/ Registry!Create(r) \/ Registry!Load(r) \/ Registry!Save(r) \/ Registry!DeleteKeys(r)
    PROVE  RegistryInv'
<1>1. /\ Registry!TypeOK /\ AccountsNamed /\ SettingsTyped /\ ManagersTyped
      /\ errand \in [Three -> Errand]
  BY RegistryTypes DEF RegistryInv, SettingsTyped, ManagersTyped
<1>2. UNCHANGED <<running, cancels, loop, ended, told>>
  BY DEF Registry!Add, Registry!Find, Registry!AlreadyRunning, Registry!Manage, Registry!Running,
         Registry!NotRunning, Registry!Remove, Registry!Flow, Registry!Look, Registry!Create,
         Registry!Load, Registry!Save, Registry!DeleteKeys, Registry!registry, Registry!loops
<1>3. ASSUME NEW a \in Accounts, Registry!Add(r, a)
      PROVE Walks(r) /\ UNCHANGED Registry!settings /\ UNCHANGED Registry!registry
  <2>1. [Registry!NoRequest EXCEPT !.kind = "add", !.acct = a, !.pc = "load"] \in Errand
    BY DEF Registry!NoRequest, Errand
  <2>2. QED
    BY <1>3, <2>1 DEF Registry!Add, Walks, Registry!NoRequest
<1>4. ASSUME NEW a \in Accounts, NEW k \in {"delete", "wizard", "refresh", "backup"},
             Registry!Find(r, a, k)
      PROVE Walks(r) /\ UNCHANGED Registry!settings /\ UNCHANGED Registry!registry
  <2>1. PICK p : p = CASE k = "delete" -> "stop"
                       [] k = "refresh" -> IF a \in channel THEN "load" ELSE "over"
                       [] OTHER -> "start"
    OBVIOUS
  <2>2. p \in {"stop", "load", "over", "start"}
    BY <2>1
  <2>3. PICK q : q = [Registry!NoRequest EXCEPT !.kind = k, !.acct = a, !.pc = p]
    OBVIOUS
  <2>4. q \in Errand /\ q.acct = a /\ q.pc = p
    BY <2>2, <2>3 DEF Registry!NoRequest, Errand
  <2>5. errand' = [errand EXCEPT ![r] = q]
    BY <1>4, <2>1, <2>3 DEF Registry!Find
  <2>6. UNCHANGED Registry!settings /\ UNCHANGED Registry!registry
    BY <1>4 DEF Registry!Find
  <2>7. QED
    BY <2>2, <2>4, <2>5, <2>6 DEF Walks
<1>5. ASSUME \/ Registry!AlreadyRunning(r) \/ Registry!Running(r) \/ Registry!NotRunning(r)
      PROVE Walks(r) /\ UNCHANGED Registry!settings /\ UNCHANGED Registry!registry
  BY <1>5, <1>1, WalksOn DEF Registry!AlreadyRunning, Registry!Running, Registry!NotRunning
<1>6. ASSUME Registry!Manage(r) PROVE Walks(r) /\ UNCHANGED Registry!settings /\ ManagersTyped'
  <2>1. errand[r].pc = "manager" /\ errand[r].acct \in Accounts /\ errand[r] \in Errand
    BY <1>1, <1>6 DEF Registry!Manage, AccountsNamed
  <2>2. PICK m \in Registry!ManagerFor(errand[r].acct) :
            /\ managers' = [managers EXCEPT ![errand[r].acct] = m]
            /\ made' = IF m > made THEN m ELSE made
            /\ errand' = [errand EXCEPT ![r] = [errand[r] EXCEPT !.pc = "wait", !.mgr = m]]
    BY <1>6 DEF Registry!Manage
  <2>3. m \in Registry!Managers \cup {0} /\ (m # 0 => m \in 1..MaxManagers)
    BY <2>1, <1>1 DEF Registry!ManagerFor, ManagersTyped, Registry!Managers
  <2>4. ManagersTyped'
    BY <1>1, <2>1, <2>2, <2>3 DEF ManagersTyped, Registry!Managers
  <2>5. PICK q : q = [errand[r] EXCEPT !.pc = "wait", !.mgr = m]
    OBVIOUS
  <2>6. q \in Errand /\ q.pc = "wait" /\ q.acct = errand[r].acct
    BY <2>1, <2>3, <2>5 DEF Errand
  <2>7. Walks(r)
    BY <2>1, <2>2, <2>5, <2>6 DEF Walks
  <2>8. QED
    BY <1>6, <2>4, <2>7 DEF Registry!Manage
<1>7. ASSUME Registry!Remove(r) PROVE Walks(r) /\ UNCHANGED Registry!settings /\ ManagersTyped'
  <2>1. Walks(r)
    BY <1>1, <1>7, WalksOn DEF Registry!Remove
  <2>2. ManagersTyped'
    BY <1>1, <1>7 DEF Registry!Remove, ManagersTyped
  <2>3. QED
    BY <1>7, <2>1, <2>2 DEF Registry!Remove
<1>8. ASSUME Registry!Flow(r) \/ Registry!Look(r) \/ Registry!Create(r)
      PROVE Walks(r) /\ SettingsTyped' /\ UNCHANGED Registry!registry
  <2>1. errand[r].pc \in {"flow", "look", "create"} /\ errand[r].acct \in Accounts
    BY <1>1, <1>8 DEF Registry!Flow, Registry!Look, Registry!Create, AccountsNamed
  <2>2. Walks(r)
    BY <1>1, <1>8, <2>1, WalksOn DEF Registry!Flow, Registry!Look, Registry!Create, Registry!Bound
  <2>3. SettingsTyped'
    BY <1>1, <1>8, <2>1 DEF SettingsTyped, Registry!Flow, Registry!Look, Registry!Create
  <2>4. QED
    BY <1>8, <2>2, <2>3 DEF Registry!Flow, Registry!Look, Registry!Create
<1>9. ASSUME Registry!Load(r)
      PROVE Walks(r) /\ UNCHANGED Registry!settings /\ UNCHANGED Registry!registry
  <2>1. errand[r].acct \in Accounts /\ errand[r] \in Errand
    BY <1>1, <1>9 DEF Registry!Load, AccountsNamed
  <2>2. PICK p : p = IF errand[r].kind = "add" \/ errand[r].acct \in list THEN "save" ELSE "over"
    OBVIOUS
  <2>3. p \in {"save", "over"}
    BY <2>2
  <2>4. PICK q : q = [errand[r] EXCEPT !.names = list, !.channels = recorded, !.pc = p]
    OBVIOUS
  <2>5. q \in Errand /\ q.pc = p /\ q.acct = errand[r].acct
    BY <1>1, <2>1, <2>3, <2>4 DEF Errand, SettingsTyped
  <2>6. errand' = [errand EXCEPT ![r] = q]
    BY <1>9, <2>2, <2>4 DEF Registry!Load
  <2>7. QED
    BY <1>9, <2>1, <2>3, <2>5, <2>6 DEF Walks, Registry!Load
<1>10. ASSUME Registry!Save(r) \/ Registry!DeleteKeys(r)
       PROVE Walks(r) /\ SettingsTyped' /\ UNCHANGED Registry!registry
  <2>1. errand[r].pc \in {"save", "keys"} /\ errand[r].acct \in Accounts /\ errand[r] \in Errand
    BY <1>1, <1>10 DEF Registry!Save, Registry!DeleteKeys, AccountsNamed
  <2>2. Walks(r)
    BY <1>1, <1>10, <2>1, WalksOn DEF Registry!Save, Registry!DeleteKeys
  <2>3. Registry!Written(r).names \subseteq Accounts /\ Registry!Written(r).channels \subseteq Accounts
    BY <2>1 DEF Registry!Written, Errand
  <2>4. SettingsTyped'
    BY <1>1, <1>10, <2>1, <2>3 DEF SettingsTyped, Registry!Save, Registry!DeleteKeys
  <2>5. QED
    BY <1>10, <2>2, <2>4 DEF Registry!Save, Registry!DeleteKeys
<1>11. UNCHANGED Registry!settings => SettingsTyped'
  BY <1>1 DEF Registry!settings, SettingsTyped
<1>12. UNCHANGED Registry!registry => ManagersTyped'
  BY <1>1 DEF Registry!registry, ManagersTyped
<1>13. QED
  BY <1>2, <1>3, <1>4, <1>5, <1>6, <1>7, <1>8, <1>9, <1>10, <1>11, <1>12, WalkInv

\* The run loop moves on: the marks of its account stay.
LEMMA LoopMoves ==
    ASSUME RegistryInv, NEW l \in Registry!Loops, NEW p \in {"up", "looking", "serving", "returned"},
           loop[l].at \in {"connecting", "up", "looking", "serving"},
           loop' = [loop EXCEPT ![l].at = p], SettingsTyped',
           UNCHANGED <<managers, made, running, cancels, ended, told, errand>>
    PROVE  RegistryInv'
<1>1. loop \in [Registry!Loops -> RunLoop] /\ loop[l] \in RunLoop
  BY RegistryTypes DEF RegistryInv
<1>2. [loop[l] EXCEPT !.at = p] \in RunLoop
  BY <1>1 DEF RunLoop
<1>3. loop' \in [Registry!Loops -> RunLoop]
  BY <1>1, <1>2
<1>4. Registry!TypeOK'
  BY <1>3, RegistryTypes DEF RegistryInv, SettingsTyped
<1>5. \A k \in Registry!Loops : /\ loop'[k].acct = loop[k].acct
                                /\ k # l => loop'[k].at = loop[k].at
  BY <1>1 DEF RunLoop
<1>6. \A k \in Registry!Loops : /\ Registry!Live(k)' => Registry!Live(k)
                                /\ loop[k].at = "claimed" => k # l
  BY <1>5 DEF Registry!Live
<1>7. AccountsNamed' /\ Registry!LoopsKnown'
  BY <1>5, <1>6 DEF RegistryInv, AccountsNamed, Registry!LoopsKnown
<1>8. ClaimsHeld'
  BY <1>5, <1>6 DEF RegistryInv, ClaimsHeld
<1>9. QED
  BY <1>4, <1>7, <1>8 DEF RegistryInv

LEMMA TurnInv == ASSUME RegistryInv, NEW l \in Registry!Loops, Registry!Turn(l) PROVE RegistryInv'
<1>1. SettingsTyped /\ cancels \in [Accounts -> Registry!Loops \cup {0}]
      /\ loop \in [Registry!Loops -> RunLoop]
  BY RegistryTypes DEF RegistryInv, SettingsTyped
<1>2. loop[l].at \in {"connecting", "up", "looking", "serving", "returned"}
  BY DEF Registry!Turn, Registry!Connect, Registry!LoopLooks, Registry!LoopCreates,
         Registry!RunReturns, Registry!Exit
<1>3. loop[l].acct \in Accounts
  BY <1>2 DEF RegistryInv, AccountsNamed, Registry!Live
<1>4. CASE Registry!Connect(l)
  <2>1. SettingsTyped' /\ UNCHANGED <<managers, made, running, cancels, ended, told, errand>>
    BY <1>1, <1>4 DEF Registry!Connect, Registry!settings, Registry!registry, SettingsTyped
  <2>2. QED
    BY <1>4, <2>1, LoopMoves DEF Registry!Connect
<1>5. CASE Registry!LoopLooks(l)
  <2>1. SettingsTyped' /\ UNCHANGED <<managers, made, running, cancels, ended, told, errand>>
    BY <1>1, <1>3, <1>5 DEF Registry!LoopLooks, Registry!registry, SettingsTyped
  <2>2. loop[l].at = "up" /\ \E p \in {"serving", "looking"} : loop' = [loop EXCEPT ![l].at = p]
    BY <1>5 DEF Registry!LoopLooks
  <2>3. QED
    BY <2>1, <2>2, LoopMoves
<1>6. CASE Registry!LoopCreates(l)
  <2>1. SettingsTyped' /\ UNCHANGED <<managers, made, running, cancels, ended, told, errand>>
    BY <1>1, <1>3, <1>6 DEF Registry!LoopCreates, Registry!registry, SettingsTyped
  <2>2. QED
    BY <1>6, <2>1, LoopMoves DEF Registry!LoopCreates
<1>7. CASE Registry!RunReturns(l)
  <2>1. SettingsTyped' /\ UNCHANGED <<managers, made, running, cancels, ended, told, errand>>
    BY <1>1, <1>7 DEF Registry!RunReturns, Registry!settings, Registry!registry, SettingsTyped
  <2>2. QED
    BY <1>7, <2>1, LoopMoves DEF Registry!RunReturns
<1>8. CASE Registry!Exit(l)
  <2>1. /\ loop[l].at = "returned" /\ loop' = [loop EXCEPT ![l].at = "exited"]
        /\ running' = running \ {loop[l].acct} /\ cancels' = [cancels EXCEPT ![loop[l].acct] = 0]
        /\ UNCHANGED <<managers, made, ended, told, errand>> /\ SettingsTyped'
    BY <1>1, <1>8 DEF Registry!Exit, Registry!settings, SettingsTyped
  <2>2. [loop[l] EXCEPT !.at = "exited"] \in RunLoop
    BY <1>1 DEF RunLoop
  <2>3. loop' \in [Registry!Loops -> RunLoop]
    BY <1>1, <2>1, <2>2
  <2>4. Registry!TypeOK'
    BY <1>1, <1>3, <2>1, <2>3, RegistryTypes DEF RegistryInv, SettingsTyped
  <2>5. \A k \in Registry!Loops : /\ loop'[k].acct = loop[k].acct
                                  /\ k # l => loop'[k].at = loop[k].at
    BY <1>1, <2>1 DEF RunLoop
  <2>6. loop'[l].at = "exited"
    BY <1>1, <2>1 DEF RunLoop
  <2>7. \A k \in Registry!Loops : Registry!Live(k)' => Registry!Live(k) /\ k # l
    BY <2>5, <2>6 DEF Registry!Live
  <2>8. Registry!Live(l) /\ cancels[loop[l].acct] = l
    BY <2>1 DEF Registry!Live, RegistryInv, Registry!LoopsKnown
  <2>9. \A k \in Registry!Loops : Registry!Live(k)' => loop[k].acct # loop[l].acct
    BY <2>7, <2>8 DEF RegistryInv, Registry!LoopsKnown
  <2>10. AccountsNamed'
    BY <2>1, <2>5, <2>7 DEF RegistryInv, AccountsNamed
  <2>11. Registry!LoopsKnown'
    BY <1>1, <2>1, <2>5, <2>7, <2>9 DEF RegistryInv, Registry!LoopsKnown, AccountsNamed
  <2>12. ClaimsHeld'
    BY <2>1, <2>5 DEF RegistryInv, ClaimsHeld
  <2>13. QED
    BY <2>4, <2>10, <2>11, <2>12 DEF RegistryInv
<1>9. QED
  BY <1>4, <1>5, <1>6, <1>7, <1>8 DEF Registry!Turn

\* Start marks the account and keeps the cancel function of the new loop, in one step.
LEMMA ClaimInv == ASSUME RegistryInv, NEW r \in Three, Registry!Claim(r) PROVE RegistryInv'
<1>1. PICK l \in Registry!Loops :
          /\ errand[r].pc = "start" /\ errand[r].acct \notin running
          /\ loop[l].at = "none"
          /\ running' = running \cup {errand[r].acct}
          /\ cancels' = [cancels EXCEPT ![errand[r].acct] = l]
          /\ loop' = [loop EXCEPT ![l] = [acct |-> errand[r].acct, mgr |-> 0, at |-> "claimed"]]
          /\ errand' = [errand EXCEPT ![r] = [errand[r] EXCEPT !.pc = "launch", !.loop = l]]
          /\ UNCHANGED <<Registry!settings, managers, made, ended, told>>
  BY DEF Registry!Claim
<1>2. PICK a : a = errand[r].acct
  OBVIOUS
<1>3. /\ a \in Accounts /\ errand \in [Three -> Errand] /\ loop \in [Registry!Loops -> RunLoop]
      /\ cancels \in [Accounts -> Registry!Loops \cup {0}] /\ running \subseteq Accounts
  BY <1>1, <1>2, RegistryTypes DEF RegistryInv, AccountsNamed
<1>4. PICK q : q = [errand[r] EXCEPT !.pc = "launch", !.loop = l]
  OBVIOUS
<1>5. q \in Errand /\ q.pc = "launch" /\ q.loop = l /\ q.acct = a
  BY <1>2, <1>3, <1>4, ZenonT(30) DEF Errand
<1>6. PICK new : new = [acct |-> a, mgr |-> 0, at |-> "claimed"]
  OBVIOUS
<1>7. new \in RunLoop /\ new.at = "claimed" /\ new.acct = a
  BY <1>3, <1>6 DEF RunLoop
<1>8. /\ errand' \in [Three -> Errand] /\ loop' \in [Registry!Loops -> RunLoop]
      /\ \A p \in Three : errand'[p] = IF p = r THEN q ELSE errand[p]
      /\ \A k \in Registry!Loops : loop'[k] = IF k = l THEN new ELSE loop[k]
  BY <1>1, <1>2, <1>3, <1>4, <1>5, <1>6, <1>7
<1>9. /\ cancels' \in [Accounts -> Registry!Loops \cup {0}] /\ running' \subseteq Accounts
      /\ \A b \in Accounts : cancels'[b] = IF b = a THEN l ELSE cancels[b]
      /\ running' = running \cup {a} /\ a \notin running
  BY <1>1, <1>2, <1>3
<1>10. UNCHANGED <<list, recorded, deleted, session, channel, vaults, made, managers, ended, told>>
  BY <1>1 DEF Registry!settings
<1>11. Registry!TypeOK'
  BY <1>8, <1>9, <1>10, RegistryTypes DEF RegistryInv
<1>12. AccountsNamed'
  BY <1>3, <1>5, <1>7, <1>8 DEF RegistryInv, AccountsNamed, Registry!Live
<1>13. Registry!LoopsKnown'
  <2>1. ASSUME NEW k \in Registry!Loops, Registry!Live(k)'
        PROVE (loop[k].acct \in running /\ cancels[loop[k].acct] = k)'
    <3>1. CASE k = l
      BY <1>3, <1>7, <1>8, <1>9, <3>1
    <3>2. CASE k # l
      <4>1. loop'[k] = loop[k] /\ Registry!Live(k)
        BY <1>8, <2>1, <3>2 DEF Registry!Live
      <4>2. loop[k].acct \in running /\ cancels[loop[k].acct] = k /\ loop[k].acct \in Accounts
        BY <4>1 DEF RegistryInv, Registry!LoopsKnown, AccountsNamed
      <4>3. QED
        BY <1>9, <4>1, <4>2
    <3>3. QED
      BY <3>1, <3>2
  <2>2. QED
    BY <2>1, <1>10 DEF RegistryInv, Registry!LoopsKnown
<1>14. ClaimsHeld'
  <2>1. \A p \in Three : errand[p].pc = "launch" => errand[p].loop # l /\ p # r
    BY <1>1 DEF RegistryInv, ClaimsHeld
  <2>2. ASSUME NEW p \in Three, errand'[p].pc = "launch"
        PROVE /\ errand'[p].loop \in Registry!Loops /\ errand'[p].acct \in Accounts
              /\ loop'[errand'[p].loop].at = "claimed"
              /\ loop'[errand'[p].loop].acct = errand'[p].acct
              /\ \A s \in Three \ {p} : errand'[s].pc = "launch" => errand'[s].loop # errand'[p].loop
    <3>1. CASE p = r
      BY <1>3, <1>5, <1>7, <1>8, <2>1, <3>1
    <3>2. CASE p # r
      <4>1. errand'[p] = errand[p] /\ errand[p].loop # l
        BY <1>8, <2>1, <2>2, <3>2
      <4>2. QED
        BY <1>5, <1>8, <2>2, <4>1 DEF RegistryInv, ClaimsHeld
    <3>3. QED
      BY <3>1, <3>2
  <2>3. QED
    BY <2>2 DEF ClaimsHeld
<1>15. QED
  BY <1>11, <1>12, <1>13, <1>14 DEF RegistryInv

\* The goroutine of the loop that was claimed; it ends at once when its manager runs already.
LEMMA LaunchInv == ASSUME RegistryInv, NEW r \in Three, Registry!Launch(r) PROVE RegistryInv'
<1>1. PICK a, l : a = errand[r].acct /\ l = errand[r].loop
  OBVIOUS
<1>2. PICK m \in Registry!ManagerFor(a) :
          /\ errand[r].pc = "launch"
          /\ managers' = [managers EXCEPT ![a] = m]
          /\ made' = IF m > made THEN m ELSE made
          /\ loop' = [loop EXCEPT ![l] = [loop[l] EXCEPT !.mgr = m,
                          !.at = IF Registry!Up(m) THEN "returned" ELSE "connecting"]]
          /\ Registry!Goto(r, "manager")
          /\ UNCHANGED <<Registry!settings, running, cancels, ended, told>>
  BY <1>1 DEF Registry!Launch
<1>3. /\ l \in Registry!Loops /\ a \in Accounts /\ loop[l].at = "claimed" /\ loop[l].acct = a
      /\ \A q \in Three \ {r} : errand[q].pc = "launch" => errand[q].loop # l
  BY <1>1, <1>2 DEF RegistryInv, ClaimsHeld
<1>4. /\ errand \in [Three -> Errand] /\ loop \in [Registry!Loops -> RunLoop]
      /\ ManagersTyped
  BY RegistryTypes DEF RegistryInv, ManagersTyped
<1>5. m \in Registry!Managers \cup {0} /\ (m # 0 => m \in 1..MaxManagers)
  BY <1>2, <1>3, <1>4 DEF Registry!ManagerFor, ManagersTyped, Registry!Managers
<1>6. ManagersTyped'
  BY <1>2, <1>3, <1>4, <1>5 DEF ManagersTyped, Registry!Managers
<1>7. PICK at : at = IF Registry!Up(m) THEN "returned" ELSE "connecting"
  OBVIOUS
<1>8. at \in {"returned", "connecting"}
  BY <1>7
<1>9. PICK new : new = [loop[l] EXCEPT !.mgr = m, !.at = at]
  OBVIOUS
<1>10. new \in RunLoop /\ new.at = at /\ new.acct = a
  BY <1>3, <1>4, <1>5, <1>8, <1>9 DEF RunLoop
<1>11. /\ loop' \in [Registry!Loops -> RunLoop]
       /\ \A k \in Registry!Loops : loop'[k] = IF k = l THEN new ELSE loop[k]
  BY <1>2, <1>3, <1>4, <1>7, <1>9, <1>10
<1>12. PICK q : q = [errand[r] EXCEPT !.pc = "manager"]
  OBVIOUS
<1>13. q \in Errand /\ q.pc = "manager" /\ q.acct = a
  BY <1>1, <1>4, <1>12 DEF Errand
<1>14. errand' \in [Three -> Errand] /\ \A p \in Three : errand'[p] = IF p = r THEN q ELSE errand[p]
  BY <1>2, <1>4, <1>12, <1>13 DEF Registry!Goto
<1>15. UNCHANGED <<list, recorded, deleted, session, channel, vaults, running, cancels, ended, told>>
  BY <1>2 DEF Registry!settings
<1>16. Registry!TypeOK'
  BY <1>6, <1>11, <1>14, <1>15, RegistryTypes DEF RegistryInv, ManagersTyped
<1>17. \A k \in Registry!Loops : /\ Registry!Live(k)' => Registry!Live(k)
                                 /\ loop'[k].acct = loop[k].acct
  BY <1>3, <1>10, <1>11 DEF Registry!Live
<1>18. AccountsNamed'
  BY <1>3, <1>13, <1>14, <1>17 DEF RegistryInv, AccountsNamed
<1>19. Registry!LoopsKnown'
  BY <1>15, <1>17 DEF RegistryInv, Registry!LoopsKnown
<1>20. ClaimsHeld'
  <2>1. ASSUME NEW p \in Three, errand'[p].pc = "launch"
        PROVE p # r /\ errand'[p] = errand[p] /\ errand[p].loop # l
    BY <1>3, <1>13, <1>14, <2>1
  <2>2. ASSUME NEW p \in Three, errand'[p].pc = "launch"
        PROVE /\ errand'[p].loop \in Registry!Loops /\ errand'[p].acct \in Accounts
              /\ loop'[errand'[p].loop].at = "claimed"
              /\ loop'[errand'[p].loop].acct = errand'[p].acct
              /\ \A s \in Three \ {p} : errand'[s].pc = "launch" => errand'[s].loop # errand'[p].loop
    BY <1>11, <2>1, <2>2 DEF RegistryInv, ClaimsHeld
  <2>3. QED
    BY <2>2 DEF ClaimsHeld
<1>21. QED
  BY <1>16, <1>18, <1>19, <1>20 DEF RegistryInv

\* A deletion cancels the loop whose cancel function is kept, and this is the one that lives.
LEMMA StopInv == ASSUME RegistryInv, NEW r \in Three, Registry!Stop(r) PROVE RegistryInv'
<1>1. PICK a : a = errand[r].acct
  OBVIOUS
<1>2. /\ errand[r].pc = "stop" /\ ended' = ended \cup ({cancels[a]} \ {0})
      /\ told' = told \cup {l \in Registry!Loops : loop[l].acct = a /\ Registry!Live(l)}
      /\ Registry!Goto(r, "remove")
      /\ UNCHANGED <<Registry!settings, Registry!registry, loop>>
  BY <1>1 DEF Registry!Stop
<1>3. /\ errand \in [Three -> Errand] /\ a \in Accounts
      /\ cancels \in [Accounts -> Registry!Loops \cup {0}]
      /\ ended \subseteq Registry!Loops /\ told \subseteq Registry!Loops
  BY <1>1, <1>2, RegistryTypes DEF RegistryInv, AccountsNamed
<1>4. PICK q : q = [errand[r] EXCEPT !.pc = "remove"]
  OBVIOUS
<1>5. q \in Errand /\ q.pc = "remove" /\ q.acct = a
  BY <1>1, <1>3, <1>4 DEF Errand
<1>6. errand' \in [Three -> Errand] /\ \A p \in Three : errand'[p] = IF p = r THEN q ELSE errand[p]
  BY <1>2, <1>3, <1>4, <1>5 DEF Registry!Goto
<1>7. UNCHANGED <<list, recorded, deleted, session, channel, vaults, made, managers, running, cancels>>
  BY <1>2 DEF Registry!settings, Registry!registry
<1>8. ended' \subseteq Registry!Loops /\ told' \subseteq Registry!Loops
  BY <1>2, <1>3
<1>9. Registry!TypeOK'
  BY <1>2, <1>6, <1>7, <1>8, RegistryTypes DEF RegistryInv
<1>10. AccountsNamed' /\ ClaimsHeld'
  BY <1>2, <1>3, <1>5, <1>6 DEF RegistryInv, AccountsNamed, ClaimsHeld, Registry!Live
<1>11. ASSUME NEW l \in Registry!Loops, loop[l].acct = a, Registry!Live(l) PROVE l \in ended'
  <2>1. cancels[a] = l
    BY <1>11 DEF RegistryInv, Registry!LoopsKnown
  <2>2. l # 0
    BY DEF Registry!Loops
  <2>3. QED
    BY <1>2, <2>1, <2>2
<1>12. Registry!LoopsKnown'
  BY <1>2, <1>7, <1>11 DEF RegistryInv, Registry!LoopsKnown, Registry!Live
<1>13. QED
  BY <1>9, <1>10, <1>12 DEF RegistryInv

LEMMA RegistryNextInv ==
    ASSUME RegistryInv, [Registry!Next]_(Registry!vars) PROVE RegistryInv'
<1>1. CASE UNCHANGED Registry!vars
  BY <1>1, RegistryTypes DEF Registry!vars, Registry!settings, Registry!registry, Registry!loops,
     RegistryInv, AccountsNamed, ClaimsHeld, Registry!LoopsKnown, Registry!Live
<1>2. ASSUME NEW r \in Three, Registry!Handle(r) PROVE RegistryInv'
  BY <1>2, HandlerInv, ClaimInv, LaunchInv, StopInv DEF Registry!Handle
<1>3. QED
  BY <1>1, <1>2, TurnInv DEF Registry!Next
-----------------------------------------------------------------------------
(* Downloads.                                                              *)

Fetch == [pc : {"resolve", "fetch", "done", "failed"}, first : Nat, last : Nat, try : {1, 2},
          loc : Nat \cup {None}, offset : Nat, out : Seq(Nat), torn : BOOLEAN, disturbed : BOOLEAN]

\* Types of everything that what is sent depends on.
DownloadTyped ==
    /\ size \in 1..MaxSize /\ ref \in Nat /\ readable \in BOOLEAN
    /\ cache \in {None} \cup [ref : Nat, age : Nat]
    /\ reading \in [Handlers -> {Download!Idle} \cup Fetch]

InFile(r) == r.first <= r.last /\ r.last < size

\* How many bytes of the range lie before an offset.
Before(r, offset) == IF offset > r.first THEN offset - r.first ELSE 0

\* The first n bytes of the range.
Beginning(r, n) == [i \in 1..n |-> r.first + i - 1]

\* What an attempt that nothing has broken off has sent: the range up to the offset.
Sent(r) ==
    /\ r.pc = "fetch" => r.out = Beginning(r, Before(r, r.offset))
    /\ r.pc = "done" => r.out = Beginning(r, r.last - r.first + 1)
    /\ r.pc = "failed" => \E n \in 0..(r.last - r.first + 1) : r.out = Beginning(r, n)

\* A request to which nothing happens from outside has the reference of Telegram as soon as it has
\* sent something or resolves for the second time, and breaks off at most before its first byte.
Undisturbed(r) ==
    /\ r.pc # "failed" /\ ~r.torn
    /\ r.pc = "fetch" => r.loc = ref \/ (r.try = 1 /\ r.out = << >>)

FetchInv(r) == /\ InFile(r)
               /\ r.pc = "resolve" => ~r.torn /\ r.out = << >>
               /\ r.pc = "fetch" => r.offset <= r.last /\ r.first < r.offset + Chunk
               /\ ~r.torn => Sent(r)
               /\ ~r.disturbed => Undisturbed(r)

DownloadInv == /\ DownloadTyped
               /\ \A h \in Handlers : reading[h].pc # "idle" => FetchInv(reading[h])

-----------------------------------------------------------------------------

\* An attempt begins at the chunk that holds the first byte.
LEMMA AlignedPos ==
    ASSUME Download!StreamAssumption, NEW p \in Nat
    PROVE  /\ Download!Aligned(p) \in Nat /\ Download!Aligned(p) <= p
           /\ p < Download!Aligned(p) + Chunk
BY DEF Download!StreamAssumption, Download!Aligned

\* A sequence made of two.
LEMMA Appended ==
    ASSUME NEW x \in Seq(Nat), NEW y \in Seq(Nat), NEW z \in Seq(Nat), Len(z) = Len(x) + Len(y),
           \A i \in 1..Len(x) : z[i] = x[i],
           \A i \in 1..Len(y) : z[Len(x) + i] = y[i]
    PROVE  x \o y = z
<1>1. x \o y \in Seq(Nat) /\ Len(x \o y) = Len(x) + Len(y)
  BY ConcatProperties
<1>2. Len(x) \in Nat /\ Len(y) \in Nat
  OBVIOUS
<1>3. ASSUME NEW i \in 1..Len(x \o y) PROVE (x \o y)[i] = z[i]
  <2>1. i \in 1..(Len(x) + Len(y)) /\ i \in Nat
    BY <1>1
  <2>2. (x \o y)[i] = IF i <= Len(x) THEN x[i] ELSE y[i - Len(x)]
    BY <2>1, ConcatProperties
  <2>3. i <= Len(x) => i \in 1..Len(x)
    BY <1>2, <2>1
  <2>4. ~(i <= Len(x)) => i - Len(x) \in 1..Len(y) /\ Len(x) + (i - Len(x)) = i
    BY <1>2, <2>1
  <2>5. QED
    BY <2>2, <2>3, <2>4
<1>4. QED
  BY <1>1, <1>3, SeqEqual

LEMMA BeginningSeq ==
    ASSUME NEW r, r.first \in Nat, NEW n \in Nat
    PROVE  /\ Beginning(r, n) \in Seq(Nat) /\ Len(Beginning(r, n)) = n
           /\ \A i \in 1..n : Beginning(r, n)[i] = r.first + i - 1
BY DEF Beginning

\* Two stretches of the range, one after the other.
LEMMA Stretches ==
    ASSUME NEW r, r.first \in Nat, NEW b \in Nat, NEW m \in Nat,
           NEW data \in Seq(Nat), Len(data) = m, \A i \in 1..m : data[i] = r.first + b + i - 1
    PROVE  Beginning(r, b) \o data = Beginning(r, b + m)
<1>1. PICK x, z : x = Beginning(r, b) /\ z = Beginning(r, b + m)
  OBVIOUS
<1>2. x \in Seq(Nat) /\ Len(x) = b /\ \A i \in 1..b : x[i] = r.first + i - 1
  BY <1>1, BeginningSeq
<1>3. b + m \in Nat
  OBVIOUS
<1>4. z \in Seq(Nat) /\ Len(z) = b + m /\ \A i \in 1..(b + m) : z[i] = r.first + i - 1
  BY <1>1, <1>3, BeginningSeq
<1>5. \A i \in 1..b : z[i] = x[i]
  <2>1. \A i \in 1..b : i \in 1..(b + m)
    OBVIOUS
  <2>2. QED
    BY <1>2, <1>4, <2>1
<1>6. \A i \in 1..m : z[b + i] = data[i]
  <2>1. \A i \in 1..m : b + i \in 1..(b + m) /\ r.first + (b + i) - 1 = r.first + b + i - 1
    OBVIOUS
  <2>2. QED
    BY <1>4, <2>1
<1>7. x \o data = z
  BY <1>2, <1>4, <1>5, <1>6, Appended
<1>8. QED
  BY <1>1, <1>7

\* The slice of the chunk at the offset continues the range.
LEMMA SliceContinues ==
    ASSUME Download!StreamAssumption, DownloadTyped, NEW h \in Handlers, NEW r \in Fetch, r = reading[h],
           InFile(r), r.offset <= r.last, r.first < r.offset + Chunk,
           NEW next, next = r.offset + Download!Least(Chunk, size - r.offset)
    PROVE  /\ next \in Nat /\ r.first < next
           /\ r.out \o Download!Slice(h, r.offset) \in Seq(Nat)
           /\ r.out = Beginning(r, Before(r, r.offset)) =>
                  /\ Len(r.out) + Len(Download!Slice(h, r.offset)) <= r.last - r.first + 1
                  /\ r.out \o Download!Slice(h, r.offset) =
                         Beginning(r, IF next <= r.last THEN Before(r, next) ELSE r.last - r.first + 1)
<1>1. PICK first, last, offset : first = r.first /\ last = r.last /\ offset = r.offset
  OBVIOUS
<1>2. /\ {first, last, offset} \subseteq Nat /\ first <= last /\ last < size /\ size \in Nat
      /\ Chunk \in Nat \ {0} /\ offset <= last /\ first < offset + Chunk
  BY <1>1 DEF Fetch, InFile, DownloadTyped, Download!StreamAssumption
<1>3. PICK n : n = Download!Least(Chunk, size - offset)
  OBVIOUS
<1>4. n \in Nat /\ n >= 1 /\ n <= Chunk /\ n <= size - offset /\ (n = Chunk \/ n = size - offset)
  BY <1>2, <1>3 DEF Download!Least
<1>5. PICK from : from = IF first > offset THEN first - offset ELSE 0
  OBVIOUS
<1>6. PICK to : to = IF last < offset + n - 1 THEN n - (offset + n - 1 - last) ELSE n
  OBVIOUS
<1>7. Download!Slice(h, offset) = [i \in 1..(to - from) |-> offset + from + i - 1]
  BY <1>1, <1>3, <1>5, <1>6 DEF Download!Slice
<1>8. PICK b : b = Before(r, offset)
  OBVIOUS
<1>9. b \in Nat /\ offset + from = first + b
  BY <1>1, <1>2, <1>5, <1>8 DEF Before
<1>10. from \in Nat /\ to \in Nat /\ from < to
  BY <1>2, <1>4, <1>5, <1>6
<1>11. PICK m : m = to - from
  OBVIOUS
<1>12. m \in Nat
  BY <1>10, <1>11
<1>13. Download!Slice(h, offset) = [i \in 1..m |-> r.first + b + i - 1]
  BY <1>1, <1>7, <1>9, <1>11
<1>14. PICK data : data = Download!Slice(h, offset)
  OBVIOUS
<1>15. data \in Seq(Nat) /\ Len(data) = m
  <2>1. r.first \in Nat
    BY <1>1, <1>2
  <2>2. QED
    BY <1>9, <1>12, <1>13, <1>14, <2>1
<1>16. r.out \in Seq(Nat) /\ r.out \o data \in Seq(Nat)
  <2>1. r.out \in Seq(Nat)
    BY DEF Fetch
  <2>2. QED
    BY <1>15, <2>1, ConcatProperties
<1>17. ASSUME r.out = Beginning(r, Before(r, r.offset))
       PROVE Len(r.out) = b /\ r.out \o data = Beginning(r, b + m)
  <2>1. r.out = Beginning(r, b)
    BY <1>1, <1>8, <1>17
  <2>2. b + m \in Nat /\ r.first \in Nat
    BY <1>1, <1>2, <1>9, <1>12
  <2>3. \A i \in 1..m : data[i] = r.first + b + i - 1
    BY <1>9, <1>12, <1>13, <1>14, <2>2
  <2>4. Len(r.out) = b
    BY <1>9, <2>1, <2>2, BeginningSeq
  <2>5. Beginning(r, b) \o data = Beginning(r, b + m)
    BY <1>9, <1>12, <1>15, <2>2, <2>3, Stretches
  <2>6. QED
    BY <2>1, <2>4, <2>5
<1>18. next = offset + n
  BY <1>1, <1>3
<1>19. next \in Nat /\ offset < next /\ first < next
  BY <1>2, <1>4, <1>5, <1>18
<1>20. b + m = offset + to - first
  BY <1>2, <1>9, <1>10, <1>11, <1>12
<1>21. (next <= last => to = n) /\ (next > last => to = last + 1 - offset)
  BY <1>2, <1>4, <1>6, <1>18
<1>22. /\ b + m = IF next <= last THEN Before(r, next) ELSE last - first + 1
       /\ b + m <= last - first + 1
  BY <1>1, <1>2, <1>4, <1>10, <1>18, <1>19, <1>20, <1>21 DEF Before
<1>23. QED
  BY <1>1, <1>14, <1>15, <1>16, <1>17, <1>19, <1>22

LEMMA DownloadInitInv == ASSUME Download!StreamAssumption, Download!Init PROVE DownloadInv
<1>1. DownloadTyped
  BY DEF Download!Init, DownloadTyped
<1>2. \A h \in Handlers : reading[h].pc = "idle"
  BY DEF Download!Init, Download!Idle
<1>3. QED
  BY <1>1, <1>2 DEF DownloadInv

\* The requests under way are as they should be: the reference counts for those that nothing
\* has happened to.
LEMMA FetchesInv ==
    ASSUME DownloadTyped', size' = size,
           \A h \in Handlers : reading'[h].pc # "idle" =>
               FetchInv(reading'[h]) /\ (reading'[h].disturbed \/ ref' = ref)
    PROVE  DownloadInv'
BY DEF DownloadInv, FetchInv, InFile, Sent, Undisturbed, Before, Beginning

\* One reader goes on, Telegram and the file stay.
LEMMA OneReader ==
    ASSUME DownloadInv, NEW h \in Handlers, NEW q, reading' = [reading EXCEPT ![h] = q],
           q = Download!Idle \/ (q \in Fetch /\ FetchInv(q)),
           cache' \in {None} \cup [ref : Nat, age : Nat],
           UNCHANGED <<size, ref, readable>>
    PROVE  DownloadInv'
<1>1. DownloadTyped'
  BY DEF DownloadInv, DownloadTyped
<1>2. \A g \in Handlers : reading'[g] = IF g = h THEN q ELSE reading[g]
  BY DEF DownloadInv, DownloadTyped
<1>3. \A g \in Handlers : reading'[g].pc # "idle" => FetchInv(reading'[g])
  BY <1>2 DEF DownloadInv, Download!Idle
<1>4. QED
  BY <1>1, <1>3, FetchesInv

\* A range that is answered lies in the file.
LEMMA RangeInFile ==
    ASSUME Download!StreamAssumption, DownloadTyped, NEW hdr \in Download!Headers, NEW r,
           r = Download!ParseRange(hdr), r.ok
    PROVE  r.first \in Nat /\ r.last \in Nat /\ r.first <= r.last /\ r.last < size
<1>1. size \in Nat /\ size >= 1 /\ MaxSize \in Nat
  BY DEF DownloadTyped, Download!StreamAssumption
<1>2. /\ \A a, b : Download!Span(a, b).first = a /\ Download!Span(a, b).last = b
      /\ ~Download!BadRange.ok
  BY DEF Download!Span, Download!BadRange
<1>3. CASE hdr.kind = "none"
  <2>1. r = Download!Span(0, size - 1)
    BY <1>3 DEF Download!ParseRange
  <2>2. QED
    BY <1>1, <1>2, <2>1
<1>4. CASE hdr.kind = "suffix"
  <2>1. hdr.n \in Nat
    BY <1>1, <1>4 DEF Download!Headers, Download!Bounds
  <2>2. hdr.n # 0 /\ r = Download!Span(size - Download!Least(hdr.n, size), size - 1)
    BY <1>2, <1>4 DEF Download!ParseRange
  <2>3. Download!Least(hdr.n, size) \in 1..size
    BY <1>1, <2>1, <2>2 DEF Download!Least
  <2>4. QED
    BY <1>1, <1>2, <2>2, <2>3
<1>5. CASE hdr.kind = "from"
  <2>1. hdr.from \in Nat
    BY <1>1, <1>5 DEF Download!Headers, Download!Bounds
  <2>2. hdr.from < size /\ r = Download!Span(hdr.from, size - 1)
    BY <1>1, <1>2, <1>5, <2>1 DEF Download!ParseRange
  <2>3. QED
    BY <1>1, <1>2, <2>1, <2>2
<1>6. CASE hdr.kind = "span"
  <2>1. hdr.from \in Nat /\ hdr.to \in Nat
    BY <1>1, <1>6 DEF Download!Headers, Download!Bounds
  <2>2. hdr.from < size /\ hdr.from <= hdr.to /\ r = Download!Span(hdr.from, Download!Least(hdr.to, size - 1))
    BY <1>1, <1>2, <1>6, <2>1 DEF Download!ParseRange
  <2>3. Download!Least(hdr.to, size - 1) \in hdr.from..(size - 1)
    BY <1>1, <2>1, <2>2 DEF Download!Least
  <2>4. QED
    BY <1>1, <1>2, <2>1, <2>2, <2>3
<1>7. QED
  BY <1>3, <1>4, <1>5, <1>6 DEF Download!Headers

\* A header is answered.
LEMMA AskInv ==
    ASSUME Download!StreamAssumption, DownloadInv, NEW h \in Handlers, NEW hdr \in Download!Headers,
           Download!Ask(h, hdr)
    PROVE  DownloadInv'
<1>1. PICK r : r = Download!ParseRange(hdr)
  OBVIOUS
<1>2. r.ok
  BY <1>1 DEF Download!Ask
<1>3. r.first \in Nat /\ r.last \in Nat /\ r.first <= r.last /\ r.last < size
  BY <1>1, <1>2, RangeInFile DEF DownloadInv
<1>4. PICK q : q = [pc |-> "resolve", first |-> r.first, last |-> r.last, try |-> 1, loc |-> None,
                    offset |-> 0, out |-> << >>, torn |-> FALSE, disturbed |-> FALSE]
  OBVIOUS
<1>5. q \in Fetch
  BY <1>3, <1>4 DEF Fetch
<1>6. FetchInv(q)
  BY <1>3, <1>4 DEF FetchInv, InFile, Sent, Undisturbed
<1>7. reading' = [reading EXCEPT ![h] = q]
  BY <1>1, <1>4 DEF Download!Ask
<1>8. UNCHANGED <<size, ref, readable, cache>>
  BY DEF Download!Ask
<1>9. QED
  BY <1>5, <1>6, <1>7, <1>8, OneReader DEF DownloadInv, DownloadTyped

\* An attempt begins, after nothing was sent, or broken off.
LEMMA AttemptBegins ==
    ASSUME Download!StreamAssumption, DownloadInv, NEW h \in Handlers, reading[h] \in Fetch, InFile(reading[h]),
           NEW loc \in Nat, NEW try \in {1, 2}, NEW torn \in BOOLEAN, NEW disturbed \in BOOLEAN,
           ~torn => reading[h].out = << >>,
           ~disturbed => ~torn /\ (loc = ref \/ try = 1),
           NEW q, q = [reading[h] EXCEPT !.pc = "fetch", !.loc = loc, !.try = try,
                           !.offset = Download!Aligned(reading[h].first),
                           !.torn = torn, !.disturbed = disturbed]
    PROVE  q \in Fetch /\ FetchInv(q)
<1>1. PICK r \in Fetch : r = reading[h]
  OBVIOUS
<1>2. /\ q.pc = "fetch" /\ q.loc = loc /\ q.try = try /\ q.offset = Download!Aligned(r.first)
      /\ q.torn = torn /\ q.disturbed = disturbed /\ q.first = r.first /\ q.last = r.last /\ q.out = r.out
  BY <1>1 DEF Fetch
<1>3. r.first \in Nat /\ r.last \in Nat
  BY <1>1 DEF Fetch
<1>4. /\ Download!Aligned(r.first) \in Nat /\ Download!Aligned(r.first) <= r.first
      /\ r.first < Download!Aligned(r.first) + Chunk
  BY <1>3, AlignedPos
<1>5. q \in Fetch
  BY <1>1, <1>4 DEF Fetch
<1>6. Before(q, q.offset) = 0 /\ Beginning(q, 0) = << >>
  BY <1>2, <1>3, <1>4 DEF Before, Beginning
<1>7. InFile(q) /\ q.offset <= q.last
  BY <1>1, <1>2, <1>3, <1>4 DEF InFile, DownloadInv, DownloadTyped
<1>8. ~torn => Sent(q)
  BY <1>1, <1>2, <1>4, <1>6, <1>7 DEF Sent
<1>9. ~disturbed => Undisturbed(q)
  BY <1>1, <1>2 DEF Undisturbed
<1>10. q.offset <= q.last /\ q.first < q.offset + Chunk
  BY <1>2, <1>4, <1>7
<1>11. q.pc # "resolve"
  BY <1>2
<1>12. QED
  BY <1>2, <1>5, <1>7, <1>8, <1>9, <1>10, <1>11 DEF FetchInv

\* The location is found.
LEMMA LocatedInv ==
    ASSUME Download!StreamAssumption, DownloadInv, NEW h \in Handlers,
           Download!UseCached(h) \/ Download!Resolve(h) \/ Download!FallBack(h)
    PROVE  DownloadInv'
<1>1. reading[h].pc = "resolve" /\ UNCHANGED <<size, ref, readable>>
  BY DEF Download!UseCached, Download!Resolve, Download!FallBack
<1>2. /\ reading \in [Handlers -> {Download!Idle} \cup Fetch] /\ ref \in Nat
      /\ cache \in {None} \cup [ref : Nat, age : Nat]
  BY DEF DownloadInv, DownloadTyped
<1>3. /\ reading[h] \in Fetch /\ InFile(reading[h])
      /\ ~reading[h].torn /\ reading[h].out = << >>
  BY <1>1, <1>2 DEF DownloadInv, FetchInv, Download!Idle
<1>4. ASSUME NEW loc \in Nat, NEW try \in {1, 2}, NEW disturbed \in BOOLEAN,
             disturbed \/ loc = ref \/ try = 1,
             NEW q, q = [reading[h] EXCEPT !.pc = "fetch", !.loc = loc, !.try = try,
                            !.offset = Download!Aligned(reading[h].first), !.disturbed = disturbed]
      PROVE q \in Fetch /\ FetchInv(q)
  <2>1. q = [reading[h] EXCEPT !.pc = "fetch", !.loc = loc, !.try = try,
                 !.offset = Download!Aligned(reading[h].first), !.torn = FALSE, !.disturbed = disturbed]
    BY <1>3, <1>4 DEF Fetch
  <2>2. QED
    BY <1>3, <1>4, <2>1, AttemptBegins
<1>5. ASSUME NEW loc \in Nat, NEW try \in {1, 2}, loc = ref \/ try = 1
      PROVE Download!FetchFrom(h, loc, try) \in Fetch /\ FetchInv(Download!FetchFrom(h, loc, try))
  <2>1. PICK d : d = reading[h].disturbed
    OBVIOUS
  <2>2. d \in BOOLEAN
    BY <1>3, <2>1 DEF Fetch
  <2>3. Download!FetchFrom(h, loc, try) =
            [reading[h] EXCEPT !.pc = "fetch", !.loc = loc, !.try = try,
                !.offset = Download!Aligned(reading[h].first), !.disturbed = d]
    BY <1>3, <2>1 DEF Fetch, Download!FetchFrom
  <2>4. QED
    BY <1>4, <1>5, <2>2, <2>3
<1>6. CASE Download!UseCached(h)
  <2>1. cache.ref \in Nat
    BY <1>2, <1>6 DEF Download!UseCached, Download!Fresh
  <2>2. PICK q : q = Download!FetchFrom(h, cache.ref, 1)
    OBVIOUS
  <2>3. q \in Fetch /\ FetchInv(q)
    BY <1>5, <2>1, <2>2
  <2>4. reading' = [reading EXCEPT ![h] = q] /\ cache' = cache
    BY <1>6, <2>2 DEF Download!UseCached
  <2>5. QED
    BY <1>1, <1>2, <2>3, <2>4, OneReader
<1>7. CASE Download!Resolve(h)
  <2>1. PICK q : q = Download!FetchFrom(h, ref, 1)
    OBVIOUS
  <2>2. q \in Fetch /\ FetchInv(q)
    BY <1>2, <1>5, <2>1
  <2>3. reading' = [reading EXCEPT ![h] = q] /\ cache' \in [ref : Nat, age : Nat]
    BY <1>2, <1>7, <2>1 DEF Download!Resolve
  <2>4. QED
    BY <1>1, <2>2, <2>3, OneReader
<1>8. CASE Download!FallBack(h)
  <2>1. PICK q : q = Download!Disturbed(Download!FetchFrom(h, 0, 2))
    OBVIOUS
  <2>2. q = [reading[h] EXCEPT !.pc = "fetch", !.loc = 0, !.try = 2,
                 !.offset = Download!Aligned(reading[h].first), !.disturbed = TRUE]
    BY <1>3, <2>1 DEF Fetch, Download!FetchFrom, Download!Disturbed
  <2>3. q \in Fetch /\ FetchInv(q)
    BY <1>4, <2>2
  <2>4. reading' = [reading EXCEPT ![h] = q] /\ cache' = cache
    BY <1>8, <2>1 DEF Download!FallBack
  <2>5. QED
    BY <1>1, <1>2, <2>3, <2>4, OneReader
<1>9. QED
  BY <1>6, <1>7, <1>8

\* A reader that is fetching.
LEMMA Fetching ==
    ASSUME DownloadInv, NEW h \in Handlers, NEW r, r = reading[h], r.pc = "fetch"
    PROVE  /\ r \in Fetch /\ FetchInv(r) /\ InFile(r) /\ r.offset <= r.last /\ r.first < r.offset + Chunk
           /\ ~r.torn => r.out = Beginning(r, Before(r, r.offset))
BY DEF DownloadInv, DownloadTyped, Download!Idle, FetchInv, Sent

LEMMA ChunkInv ==
    ASSUME Download!StreamAssumption, DownloadInv, NEW h \in Handlers, Download!FetchChunk(h)
    PROVE  DownloadInv'
<1>1. PICK r : r = reading[h]
  OBVIOUS
<1>2. PICK next : next = r.offset + Download!Least(Chunk, size - r.offset)
  OBVIOUS
<1>3. PICK out : out = r.out \o Download!Slice(h, r.offset)
  OBVIOUS
<1>4. PICK pc : pc = IF next > r.last THEN "done" ELSE "fetch"
  OBVIOUS
<1>5. PICK q : q = [r EXCEPT !.out = out, !.offset = next, !.pc = pc]
  OBVIOUS
<1>6. /\ r.pc = "fetch" /\ r.loc = ref
      /\ reading' = [reading EXCEPT ![h] = q]
      /\ UNCHANGED <<size, ref, readable, cache>>
  BY <1>1, <1>2, <1>3, <1>4, <1>5 DEF Download!FetchChunk
<1>7. /\ r \in Fetch /\ FetchInv(r) /\ InFile(r) /\ r.offset <= r.last /\ r.first < r.offset + Chunk
      /\ ~r.torn => r.out = Beginning(r, Before(r, r.offset))
  BY <1>1, <1>6, Fetching
<1>8. /\ next \in Nat /\ r.first < next /\ out \in Seq(Nat)
      /\ ~r.torn => out = Beginning(r, IF next <= r.last THEN Before(r, next) ELSE r.last - r.first + 1)
  BY <1>1, <1>2, <1>3, <1>7, SliceContinues DEF DownloadInv
<1>9. pc \in {"done", "fetch"} /\ r.last \in Nat /\ r.first \in Nat /\ Chunk \in Nat
  BY <1>4, <1>7 DEF Fetch, Download!StreamAssumption
<1>10. /\ q \in Fetch /\ q.out = out /\ q.offset = next /\ q.pc = pc
       /\ q.first = r.first /\ q.last = r.last /\ q.loc = r.loc /\ q.torn = r.torn
       /\ q.disturbed = r.disturbed
  BY <1>5, <1>7, <1>8, <1>9 DEF Fetch
<1>11. InFile(q) /\ (q.pc = "fetch" => q.offset <= q.last /\ q.first < q.offset + Chunk)
  BY <1>4, <1>7, <1>8, <1>9, <1>10 DEF InFile
<1>12. ASSUME ~q.torn PROVE Sent(q)
  <2>1. \A n : Beginning(q, n) = Beginning(r, n)
    BY <1>10 DEF Beginning
  <2>2. Before(q, next) = Before(r, next)
    BY <1>10 DEF Before
  <2>3. pc = "fetch" => next <= r.last
    BY <1>4, <1>8, <1>9
  <2>4. pc = "done" => ~(next <= r.last)
    BY <1>4, <1>8, <1>9
  <2>5. pc = "fetch" => out = Beginning(r, Before(r, next))
    BY <1>8, <1>10, <1>12, <2>3
  <2>6. pc = "done" => out = Beginning(r, r.last - r.first + 1)
    BY <1>8, <1>10, <1>12, <2>4
  <2>7. QED
    BY <1>9, <1>10, <2>1, <2>2, <2>5, <2>6 DEF Sent
<1>13. ~q.disturbed => Undisturbed(q)
  BY <1>6, <1>7, <1>9, <1>10 DEF FetchInv, Undisturbed
<1>14. FetchInv(q)
  BY <1>9, <1>10, <1>11, <1>12, <1>13 DEF FetchInv
<1>15. QED
  BY <1>6, <1>10, <1>14, OneReader DEF DownloadInv, DownloadTyped

\* The second attempt, or none: an undisturbed request fails neither, because its reference is
\* Telegram's by then and its bytes fit.
LEMMA RetryInv ==
    ASSUME Download!StreamAssumption, DownloadInv, NEW h \in Handlers, reading[h].pc = "fetch",
           NEW r, r = reading[h] \/ r = Download!Disturbed(reading[h]),
           ~r.disturbed => r.loc # ref, Download!Retry(h, r), UNCHANGED <<size, ref, readable>>
    PROVE  DownloadInv'
<1>1. PICK c : c = reading[h]
  OBVIOUS
<1>2. /\ c \in Fetch /\ FetchInv(c) /\ InFile(c) /\ c.offset <= c.last /\ c.first < c.offset + Chunk
      /\ ~c.torn => c.out = Beginning(c, Before(c, c.offset))
  BY <1>1, Fetching
<1>3. r = c \/ r = [c EXCEPT !.disturbed = TRUE]
  BY <1>1, <1>2 DEF Download!Disturbed
<1>4. /\ r \in Fetch /\ r.pc = c.pc /\ r.first = c.first /\ r.last = c.last /\ r.try = c.try
      /\ r.loc = c.loc /\ r.offset = c.offset /\ r.out = c.out /\ r.torn = c.torn
      /\ ~r.disturbed => r = c
  BY <1>2, <1>3 DEF Fetch
<1>5. ref \in Nat /\ readable \in BOOLEAN /\ reading \in [Handlers -> {Download!Idle} \cup Fetch]
      /\ cache \in {None} \cup [ref : Nat, age : Nat]
  BY DEF DownloadInv, DownloadTyped
<1>6. cache' \in {None} \cup [ref : Nat, age : Nat]
  BY <1>5 DEF Download!Retry
<1>7. ~r.disturbed => r.try = 1 /\ r.out = << >>
  BY <1>1, <1>2, <1>4 DEF FetchInv, Undisturbed
<1>8. CASE r.try = 1 /\ readable
  <2>1. PICK q : q = Download!SendAgain(r, h, ref)
    OBVIOUS
  <2>2. PICK torn, disturbed : torn = (r.out # << >>) /\ disturbed = r.disturbed
    OBVIOUS
  <2>3. torn \in BOOLEAN /\ disturbed \in BOOLEAN
    BY <1>4, <2>2 DEF Fetch
  <2>4. q = [c EXCEPT !.pc = "fetch", !.loc = ref, !.try = 2,
                 !.offset = Download!Aligned(c.first), !.torn = torn, !.disturbed = disturbed]
    BY <1>1, <1>2, <2>1, <2>2 DEF Fetch, Download!SendAgain, Download!FetchFrom
  <2>5. ~torn => c.out = << >>
    BY <1>4, <2>2
  <2>6. ~disturbed => ~torn
    BY <1>7, <2>2
  <2>7. q \in Fetch /\ FetchInv(q)
    BY <1>1, <1>2, <1>5, <2>3, <2>4, <2>5, <2>6, AttemptBegins
  <2>8. reading' = [reading EXCEPT ![h] = q]
    BY <1>8, <2>1 DEF Download!Retry
  <2>9. QED
    BY <1>6, <2>7, <2>8, OneReader
<1>9. CASE ~(r.try = 1 /\ readable)
  <2>1. PICK q : q = Download!GiveUp(r)
    OBVIOUS
  <2>2. PICK disturbed : disturbed = (r.disturbed \/ ~readable)
    OBVIOUS
  <2>3. disturbed
    BY <1>7, <1>9, <2>2
  <2>4. q = [r EXCEPT !.pc = "failed", !.disturbed = TRUE]
    BY <2>1, <2>2, <2>3 DEF Download!GiveUp
  <2>5. /\ q \in Fetch /\ q.pc = "failed" /\ q.disturbed /\ q.out = r.out /\ q.torn = r.torn
        /\ q.first = r.first /\ q.last = r.last
    BY <1>4, <2>4 DEF Fetch
  <2>6. ASSUME ~q.torn PROVE \E n \in 0..(q.last - q.first + 1) : q.out = Beginning(q, n)
    <3>1. /\ c.first \in Nat /\ c.last \in Nat /\ c.offset \in Nat /\ c.first <= c.last
          /\ c.offset <= c.last
      BY <1>2 DEF Fetch, InFile
    <3>2. Before(c, c.offset) \in 0..(c.last - c.first + 1)
      BY <3>1 DEF Before
    <3>3. q.out = Beginning(c, Before(c, c.offset))
      BY <1>2, <1>4, <2>5, <2>6
    <3>4. \A n : Beginning(q, n) = Beginning(c, n)
      BY <1>4, <2>5 DEF Beginning
    <3>5. QED
      BY <1>4, <2>5, <3>2, <3>3, <3>4
  <2>7. FetchInv(q)
    BY <1>2, <1>4, <2>5, <2>6 DEF FetchInv, Sent, InFile
  <2>8. reading' = [reading EXCEPT ![h] = q]
    BY <1>9, <2>1 DEF Download!Retry
  <2>9. QED
    BY <1>6, <2>5, <2>7, <2>8, OneReader
<1>10. QED
  BY <1>8, <1>9

LEMMA AttemptFails ==
    ASSUME Download!StreamAssumption, DownloadInv, NEW h \in Handlers,
           Download!StaleReference(h) \/ Download!WriteRefused(h) \/ Download!CallFails(h)
    PROVE  DownloadInv'
<1>1. reading[h].pc = "fetch" /\ UNCHANGED <<size, ref, readable>>
  BY DEF Download!StaleReference, Download!WriteRefused, Download!CallFails
<1>2. CASE Download!StaleReference(h)
  <2>1. reading[h].loc # ref /\ Download!Retry(h, reading[h])
    BY <1>2 DEF Download!StaleReference
  <2>2. QED
    BY <1>1, <2>1, RetryInv
<1>3. CASE Download!WriteRefused(h)
  <2>1. PICK r : r = reading[h]
    OBVIOUS
  <2>2. /\ r \in Fetch /\ FetchInv(r) /\ InFile(r) /\ r.offset <= r.last /\ r.first < r.offset + Chunk
        /\ ~r.torn => r.out = Beginning(r, Before(r, r.offset))
    BY <1>1, <2>1, Fetching
  <2>3. ~Download!Fits(h, Download!Slice(h, r.offset)) /\ Download!Retry(h, r)
    BY <1>3, <2>1 DEF Download!WriteRefused
  <2>4. ~(Len(r.out) + Len(Download!Slice(h, r.offset)) <= r.last - r.first + 1)
    BY <2>1, <2>3 DEF Download!Fits, Download!ContentLength
  <2>5. r.torn
    BY <2>1, <2>2, <2>4, SliceContinues DEF DownloadInv
  <2>6. r.disturbed
    BY <2>2, <2>5 DEF FetchInv, Undisturbed
  <2>7. QED
    BY <1>1, <2>1, <2>3, <2>6, RetryInv
<1>4. CASE Download!CallFails(h)
  <2>1. PICK r : r = Download!Disturbed(reading[h])
    OBVIOUS
  <2>2. r.disturbed
    BY <1>1, <2>1, Fetching DEF Download!Disturbed, Fetch
  <2>3. Download!Retry(h, r)
    BY <1>4, <2>1 DEF Download!CallFails
  <2>4. QED
    BY <1>1, <2>1, <2>2, <2>3, RetryInv
<1>5. QED
  BY <1>2, <1>3, <1>4

\* Something happens to every request under way.
LEMMA DisturbInv ==
    ASSUME DownloadInv, Download!Rotate \/ Download!Hide PROVE DownloadInv'
<1>1. /\ reading' = [h \in Handlers |-> Download!Disturbed(reading[h])]
      /\ size' = size /\ cache' = cache
  BY DEF Download!Rotate, Download!Hide, Download!DisturbAll
<1>2. ref' \in Nat
  BY DEF Download!Rotate, Download!Hide, DownloadInv, DownloadTyped
<1>3. readable' \in BOOLEAN
  BY DEF Download!Rotate, Download!Hide, DownloadInv, DownloadTyped
<1>4. ASSUME NEW h \in Handlers
      PROVE /\ reading'[h] \in {Download!Idle} \cup Fetch
            /\ reading'[h].pc # "idle" => FetchInv(reading'[h]) /\ reading'[h].disturbed
  <2>1. CASE reading[h].pc = "idle"
    BY <1>1, <2>1 DEF Download!Disturbed, DownloadInv, DownloadTyped
  <2>2. CASE reading[h].pc # "idle"
    <3>1. PICK r \in Fetch : r = reading[h]
      BY <2>2 DEF DownloadInv, DownloadTyped, Download!Idle
    <3>2. FetchInv(r)
      BY <2>2, <3>1 DEF DownloadInv
    <3>3. PICK q : q = [r EXCEPT !.disturbed = TRUE]
      OBVIOUS
    <3>4. reading'[h] = q
      BY <1>1, <2>2, <3>1, <3>3 DEF Download!Disturbed
    <3>5. /\ q \in Fetch /\ q.pc = r.pc /\ q.first = r.first /\ q.last = r.last /\ q.offset = r.offset
          /\ q.out = r.out /\ q.torn = r.torn /\ q.disturbed
      BY <3>3 DEF Fetch
    <3>6. \A n : Beginning(q, n) = Beginning(r, n)
      BY <3>5 DEF Beginning
    <3>7. Before(q, q.offset) = Before(r, r.offset)
      BY <3>5 DEF Before
    <3>8. Sent(r) => Sent(q)
      BY <3>5, <3>6, <3>7 DEF Sent
    <3>9. FetchInv(q)
      BY <3>2, <3>5, <3>8 DEF FetchInv, InFile
    <3>10. QED
      BY <3>4, <3>5, <3>9
  <2>3. QED
    BY <2>1, <2>2
<1>5. DownloadTyped'
  BY <1>1, <1>2, <1>3, <1>4 DEF DownloadInv, DownloadTyped
<1>6. QED
  BY <1>1, <1>4, <1>5, FetchesInv

LEMMA DownloadNextInv ==
    ASSUME Download!StreamAssumption, DownloadInv, [Download!Next]_(Download!vars) PROVE DownloadInv'
<1>1. CASE UNCHANGED Download!vars
  <2>1. DownloadTyped' /\ UNCHANGED <<size, ref, reading>>
    BY <1>1 DEF Download!vars, DownloadInv, DownloadTyped
  <2>2. QED
    BY <2>1, FetchesInv DEF DownloadInv
<1>2. ASSUME NEW h \in Handlers, Download!Leave(h) PROVE DownloadInv'
  <2>1. reading' = [reading EXCEPT ![h] = Download!Idle] /\ UNCHANGED <<size, ref, readable, cache>>
    BY <1>2 DEF Download!Leave
  <2>2. QED
    BY <2>1, OneReader DEF DownloadInv, DownloadTyped
<1>3. CASE Download!Age
  <2>1. /\ cache \in [ref : Nat, age : Nat] /\ cache' = [cache EXCEPT !.age = cache.age + 1]
        /\ UNCHANGED <<size, ref, readable, reading>>
    BY <1>3 DEF Download!Age, Download!Fresh, DownloadInv, DownloadTyped
  <2>2. cache' \in [ref : Nat, age : Nat]
    BY <2>1
  <2>3. QED
    BY <2>1, <2>2, FetchesInv DEF DownloadInv, DownloadTyped
<1>4. QED
  BY <1>1, <1>2, <1>3, AskInv, LocatedInv, ChunkInv, AttemptFails, DisturbInv DEF Download!Next

\* What was sent is the range, or its beginning.
LEMMA InOrder == ASSUME DownloadInv PROVE Download!SentInOrder
<1>1. ASSUME NEW h \in Handlers, Download!Active(h), ~reading[h].torn
      PROVE /\ reading[h].out = SubSeq(Download!Requested(h), 1, Len(reading[h].out))
            /\ reading[h].pc = "done" => reading[h].out = Download!Requested(h)
  <2>1. PICK r \in Fetch : r = reading[h]
    BY <1>1 DEF DownloadInv, DownloadTyped, Download!Active, Download!Idle
  <2>2. /\ FetchInv(r) /\ Sent(r) /\ r.first \in Nat /\ r.last \in Nat /\ r.first <= r.last
        /\ r.offset \in Nat /\ r.pc \in {"resolve", "fetch", "done", "failed"}
    BY <1>1, <2>1 DEF DownloadInv, FetchInv, InFile, Fetch, Download!Active
  <2>3. PICK whole \in Nat : whole = r.last - r.first + 1
    BY <2>2
  <2>4. Download!Requested(h) = Beginning(r, whole)
    BY <2>1, <2>3 DEF Download!Requested, Download!ContentLength, Beginning
  <2>5. Beginning(r, 0) = << >>
    BY DEF Beginning
  <2>6. r.pc = "fetch" => Before(r, r.offset) \in 0..whole
    BY <2>2, <2>3 DEF Before, FetchInv
  <2>7. PICK n \in 0..whole : r.out = Beginning(r, n)
    <3>1. whole \in 0..whole /\ 0 \in 0..whole
      OBVIOUS
    <3>2. QED
      BY <2>2, <2>3, <2>5, <2>6, <3>1 DEF Sent, FetchInv
  <2>8. Beginning(r, n) \in Seq(Nat) /\ Len(Beginning(r, n)) = n
        /\ Beginning(r, whole) \in Seq(Nat) /\ Len(Beginning(r, whole)) = whole
    BY <2>2, BeginningSeq
  <2>9. SubSeq(Beginning(r, whole), 1, n) = Beginning(r, n)
    <3>1. SubSeq(Beginning(r, whole), 1, n) = [i \in 1..n |-> Beginning(r, whole)[i]]
      BY <2>8
    <3>2. \A i \in 1..n : Beginning(r, whole)[i] = r.first + i - 1
      BY <2>2, <2>7 DEF Beginning
    <3>3. QED
      BY <3>1, <3>2 DEF Beginning
  <2>10. r.pc = "done" => r.out = Beginning(r, whole)
    BY <2>2, <2>3 DEF Sent
  <2>11. QED
    BY <2>1, <2>4, <2>7, <2>8, <2>9, <2>10
<1>2. QED
  BY <1>1 DEF Download!SentInOrder

LEMMA Heals == ASSUME DownloadInv PROVE Download!RotationHeals
BY DEF Download!RotationHeals, DownloadInv, FetchInv, Undisturbed

LEMMA DownloadIsTyped == ASSUME DownloadInv PROVE Download!TypeOK
<1>1. ASSUME NEW h \in Handlers, Download!Active(h)
      PROVE  0 <= reading[h].first /\ reading[h].first <= reading[h].last /\ reading[h].last < size
  <2>1. reading[h] \in Fetch /\ InFile(reading[h])
    BY <1>1 DEF DownloadInv, DownloadTyped, FetchInv, Download!Active, Download!Idle
  <2>2. QED
    BY <2>1 DEF Fetch, InFile
<1>2. QED
  BY <1>1 DEF DownloadInv, DownloadTyped, Download!TypeOK
-----------------------------------------------------------------------------
(* The rate limiter.                                                       *)

Log == UNION {[S -> Nat] : S \in SUBSET (Nat \ {0})}

Waiting == [pc : {"enter"}, key : Clients, stamp : Nat]

\* Types of everything the window depends on; a goroutine waits no longer than Lag.
LimiterTyped ==
    /\ now \in 0..MaxTime
    /\ hits \in [Clients -> Log]
    /\ \A k \in Clients : \A n \in DOMAIN hits[k] : hits[k][n] <= now
    /\ call \in [Handlers -> {Limiter!Idle} \cup Waiting]
    /\ \A c \in Handlers : call[c].pc = "enter" => call[c].stamp <= now /\ now <= call[c].stamp + Lag
    /\ granted \in [Clients -> Seq(Nat)]

\* The times of the accepted calls, none later than t.
InTime(G, t) == /\ \A i, j \in 1..Len(G) : i <= j => G[i] <= G[j]
                /\ \A i \in 1..Len(G) : G[i] <= t

\* The accepted calls of the last window, less the longest wait, have the last entries of the
\* log, in the same order: counted from the end, up to the highest number that was given.
Entered(G, log, top, t) ==
    /\ DOMAIN log \subseteq 1..top
    /\ \A i \in 1..Len(G) : G[i] + Window > t + Lag =>
           /\ top - (Len(G) - i) \in DOMAIN log
           /\ log[top - (Len(G) - i)] + Lag >= G[i]

\* The bound on the accepted calls of one key.
Spaced(G) == Len(G) <= Limit + 1 /\ (Len(G) = Limit + 1 => G[1] + Window <= G[Limit + 1] + Lag)

KeyInv(k) == /\ InTime(granted[k], now) /\ Spaced(granted[k])
             /\ \E top \in Nat : Entered(granted[k], hits[k], top, now)

LimiterInv == LimiterTyped /\ \A k \in Clients : KeyInv(k)

LEMMA LimiterConstants ==
    ASSUME Limiter!LimiterAssumption
    PROVE  Limit \in Nat \ {0} /\ Window \in Nat \ {0} /\ MaxKeys \in Nat /\ Lag \in Nat /\ MaxTime \in Nat
BY DEF Limiter!LimiterAssumption

\* A log is a function on the numbers of its entries.
LEMMA LogType ==
    ASSUME NEW log
    PROVE  log \in Log <=> /\ log = [n \in DOMAIN log |-> log[n]] /\ DOMAIN log \subseteq Nat \ {0}
                           /\ \A n \in DOMAIN log : log[n] \in Nat
<1>1. ASSUME log \in Log
      PROVE /\ log = [n \in DOMAIN log |-> log[n]] /\ DOMAIN log \subseteq Nat \ {0}
            /\ \A n \in DOMAIN log : log[n] \in Nat
  BY <1>1 DEF Log
<1>2. ASSUME log = [n \in DOMAIN log |-> log[n]], DOMAIN log \subseteq Nat \ {0},
             \A n \in DOMAIN log : log[n] \in Nat
      PROVE log \in Log
  <2>1. log \in [DOMAIN log -> Nat]
    BY <1>2
  <2>2. QED
    BY <1>2, <2>1 DEF Log
<1>3. QED
  BY <1>1, <1>2

\* What is still in the window of a call.
LEMMA FreshLog ==
    ASSUME NEW log \in Log, NEW stamp \in Nat, Limiter!LimiterAssumption
    PROVE  /\ Limiter!Fresh(log, stamp) \in Log
           /\ DOMAIN Limiter!Fresh(log, stamp) = {n \in DOMAIN log : log[n] + Window > stamp}
           /\ \A n \in DOMAIN Limiter!Fresh(log, stamp) : Limiter!Fresh(log, stamp)[n] = log[n]
<1>1. DOMAIN log \subseteq Nat \ {0} /\ \A n \in DOMAIN log : log[n] \in Nat
  BY LogType
<1>2. PICK S : S = {n \in DOMAIN log : log[n] > stamp - Window}
  OBVIOUS
<1>3. S = {n \in DOMAIN log : log[n] + Window > stamp}
  BY <1>1, <1>2, LimiterConstants
<1>4. Limiter!Fresh(log, stamp) = [n \in S |-> log[n]]
  BY <1>2 DEF Limiter!Fresh, Limiter!Restrict
<1>5. S \in SUBSET (Nat \ {0}) /\ \A n \in S : log[n] \in Nat
  BY <1>1, <1>2
<1>6. PICK kept : kept = Limiter!Fresh(log, stamp)
  OBVIOUS
<1>7. kept \in Log /\ DOMAIN kept = S /\ \A n \in S : kept[n] = log[n]
  BY <1>4, <1>5, <1>6 DEF Log
<1>8. QED
  BY <1>3, <1>6, <1>7

LEMMA EmptyLog == Limiter!NoLog \in Log /\ DOMAIN Limiter!NoLog = {}
BY DEF Log, Limiter!NoLog

\* Bounded numbers have a greatest.
LEMMA NewestEntry ==
    ASSUME NEW log \in Log, NEW top \in Nat, DOMAIN log \subseteq 1..top, ~Limiter!Empty(log)
    PROVE  /\ Limiter!Newest(log) \in DOMAIN log
           /\ \A n \in DOMAIN log : n <= Limiter!Newest(log)
<1>1. DOMAIN log # {}
  BY DEF Limiter!Empty
<1>2. PICK T : T = {top - n : n \in DOMAIN log}
  OBVIOUS
<1>3. T \subseteq Nat /\ T # {}
  BY <1>1, <1>2
<1>4. PICK d \in T : \A e \in T : ~(<<e, d>> \in OpToRel(<, Nat))
  BY <1>3, WFMin, NatLessThanWellFounded
<1>5. \A e \in T : d <= e
  <2>1. ASSUME NEW e \in T, e < d PROVE FALSE
    <3>1. e \in Nat /\ d \in Nat
      BY <1>3
    <3>2. <<e, d>> \in OpToRel(<, Nat)
      BY <2>1, <3>1 DEF OpToRel
    <3>3. QED
      BY <1>4, <3>2
  <2>2. QED
    BY <1>3, <2>1
<1>6. PICK n \in DOMAIN log : d = top - n
  BY <1>2, <1>4
<1>7. \A m \in DOMAIN log : m <= n
  <2>1. \A m \in DOMAIN log : m \in Nat /\ top - m \in T
    BY <1>2
  <2>2. QED
    BY <1>5, <1>6, <2>1
<1>8. QED
  BY <1>6, <1>7 DEF Limiter!Newest

\* Where the accepted calls of the last window have their entries, there are the newest ones.
LEMMA RecentIsNewest ==
    ASSUME Limiter!LimiterAssumption, NEW G \in Seq(Nat), NEW t \in Nat, InTime(G, t), NEW log \in Log,
           NEW top \in Nat, Entered(G, log, top, t),
           NEW i \in 1..Len(G), G[i] + Window > t + Lag
    PROVE  /\ ~Limiter!Empty(log) /\ Limiter!Newest(log) = top
           /\ top \in DOMAIN log /\ log[top] \in Nat /\ log[top] + Window > t
<1>1. Len(G) \in Nat /\ Len(G) \in 1..Len(G) /\ i <= Len(G)
  OBVIOUS
<1>2. G[i] <= G[Len(G)] /\ G[i] \in Nat /\ G[Len(G)] \in Nat
  BY <1>1 DEF InTime
<1>3. G[Len(G)] + Window > t + Lag
  BY <1>2, LimiterConstants, SMTT(20)
<1>4. top - (Len(G) - Len(G)) = top
  BY <1>1
<1>5. top \in DOMAIN log /\ log[top] + Lag >= G[Len(G)]
  BY <1>1, <1>3, <1>4 DEF Entered
<1>6. log[top] \in Nat
  BY <1>5, LogType
<1>7. log[top] + Window > t
  <2>1. Window \in Nat /\ Lag \in Nat
    BY LimiterConstants
  <2>2. QED
    BY <1>2, <1>3, <1>5, <1>6, <2>1, SMTT(20)
<1>8. ~Limiter!Empty(log)
  BY <1>5 DEF Limiter!Empty
<1>9. Limiter!Newest(log) \in DOMAIN log /\ top <= Limiter!Newest(log)
  <2>1. DOMAIN log \subseteq 1..top
    BY DEF Entered
  <2>2. Limiter!Newest(log) \in DOMAIN log /\ \A n \in DOMAIN log : n <= Limiter!Newest(log)
    BY <1>8, <2>1, NewestEntry
  <2>3. QED
    BY <1>5, <2>2
<1>10. Limiter!Newest(log) = top
  BY <1>9 DEF Entered
<1>11. QED
  BY <1>5, <1>6, <1>7, <1>8, <1>10

\* No call of the window loses its entry to another one's stamp.
LEMMA FreshEntered ==
    ASSUME Limiter!LimiterAssumption, NEW G \in Seq(Nat), NEW t \in Nat, NEW log \in Log, NEW top \in Nat,
           Entered(G, log, top, t), NEW stamp \in Nat, stamp <= t
    PROVE  Entered(G, Limiter!Fresh(log, stamp), top, t)
<1>1. PICK kept : kept = Limiter!Fresh(log, stamp)
  OBVIOUS
<1>2. /\ DOMAIN kept = {n \in DOMAIN log : log[n] + Window > stamp}
      /\ \A n \in DOMAIN kept : kept[n] = log[n]
  BY <1>1, FreshLog
<1>3. ASSUME NEW i \in 1..Len(G), G[i] + Window > t + Lag
      PROVE /\ top - (Len(G) - i) \in DOMAIN kept
            /\ kept[top - (Len(G) - i)] + Lag >= G[i]
  <2>1. PICK n : n = top - (Len(G) - i)
    OBVIOUS
  <2>2. n \in DOMAIN log /\ log[n] + Lag >= G[i]
    BY <1>3, <2>1 DEF Entered
  <2>3. log[n] \in Nat /\ G[i] \in Nat
    BY <2>2, LogType
  <2>4. log[n] + Window > stamp
    <3>1. Window \in Nat /\ Lag \in Nat
      BY LimiterConstants
    <3>2. QED
      BY <1>3, <2>2, <2>3, <3>1, SMTT(20)
  <2>5. n \in DOMAIN kept /\ kept[n] = log[n]
    BY <1>2, <2>2, <2>4
  <2>6. QED
    BY <2>1, <2>2, <2>5
<1>4. DOMAIN kept \subseteq 1..top
  BY <1>2 DEF Entered
<1>5. QED
  BY <1>1, <1>3, <1>4 DEF Entered

\* The oldest call is forgotten by the history.
LEMMA TailEntered ==
    ASSUME NEW G \in Seq(Nat), Len(G) > 0, NEW t \in Nat, InTime(G, t), NEW log, NEW top \in Nat,
           Entered(G, log, top, t)
    PROVE  /\ Tail(G) \in Seq(Nat) /\ Len(Tail(G)) = Len(G) - 1
           /\ InTime(Tail(G), t) /\ Entered(Tail(G), log, top, t)
<1>1. PICK H : H = Tail(G)
  OBVIOUS
<1>2. H \in Seq(Nat) /\ Len(H) = Len(G) - 1 /\ \A i \in 1..Len(H) : H[i] = G[i + 1]
  BY <1>1
<1>3. \A i \in 1..Len(H) : i + 1 \in 1..Len(G) /\ Len(G) - (i + 1) = Len(H) - i
  BY <1>2
<1>4. InTime(H, t)
  <2>1. \A i, j \in 1..Len(H) : i <= j => i + 1 <= j + 1
    BY <1>2
  <2>2. QED
    BY <1>2, <1>3, <2>1 DEF InTime
<1>5. Entered(H, log, top, t)
  BY <1>2, <1>3 DEF Entered
<1>6. QED
  BY <1>1, <1>2, <1>4, <1>5

\* The call that is accepted makes the entry after the others.
LEMMA AppendEntered ==
    ASSUME Limiter!LimiterAssumption, NEW G \in Seq(Nat), NEW t \in Nat, InTime(G, t), NEW log \in Log,
           NEW top \in Nat, Entered(G, log, top, t),
           NEW stamp \in Nat, stamp <= t, t <= stamp + Lag
    PROVE  /\ Append(G, t) \in Seq(Nat) /\ InTime(Append(G, t), t)
           /\ Limiter!Appended(log, stamp) \in Log
           /\ \A n \in DOMAIN Limiter!Appended(log, stamp) :
                  \/ Limiter!Appended(log, stamp)[n] = stamp
                  \/ n \in DOMAIN log /\ Limiter!Appended(log, stamp)[n] = log[n]
           /\ \E up \in Nat : Entered(Append(G, t), Limiter!Appended(log, stamp), up, t)
<1>1. PICK H : H = Append(G, t)
  OBVIOUS
<1>2. /\ H \in Seq(Nat) /\ Len(H) = Len(G) + 1 /\ Len(G) \in Nat
      /\ \A i \in 1..Len(G) : H[i] = G[i]
      /\ H[Len(G) + 1] = t
  BY <1>1
<1>3. \A i \in 1..Len(H) : i \in 1..Len(G) \/ i = Len(G) + 1
  BY <1>2
<1>4. InTime(H, t)
  <2>1. \A i \in 1..Len(G) : G[i] <= t /\ G[i] \in Nat
    BY DEF InTime
  <2>2. \A i \in 1..Len(H) : H[i] <= t
    BY <1>2, <1>3, <2>1, SMTT(20)
  <2>3. ASSUME NEW i \in 1..Len(H), NEW j \in 1..Len(H), i <= j PROVE H[i] <= H[j]
    <3>1. CASE j \in 1..Len(G)
      <4>1. i \in 1..Len(G)
        BY <1>2, <2>3, <3>1
      <4>2. QED
        BY <1>2, <2>3, <3>1, <4>1 DEF InTime
    <3>2. CASE j = Len(G) + 1
      BY <1>2, <2>2, <3>2
    <3>3. QED
      BY <1>3, <3>1, <3>2
  <2>4. QED
    BY <2>2, <2>3 DEF InTime
<1>5. PICK next : next = IF Limiter!Empty(log) THEN 1 ELSE Limiter!Newest(log) + 1
  OBVIOUS
<1>6. DOMAIN log \subseteq 1..top
  BY DEF Entered
<1>7. next \in Nat \ {0} /\ \A n \in DOMAIN log : n < next
  <2>1. CASE Limiter!Empty(log)
    BY <1>5, <2>1 DEF Limiter!Empty
  <2>2. CASE ~Limiter!Empty(log)
    <3>1. Limiter!Newest(log) \in DOMAIN log /\ \A n \in DOMAIN log : n <= Limiter!Newest(log)
      BY <1>6, <2>2, NewestEntry
    <3>2. QED
      BY <1>5, <1>6, <2>2, <3>1
  <2>3. QED
    BY <2>1, <2>2
<1>8. PICK new : new = Limiter!Appended(log, stamp)
  OBVIOUS
<1>9. new = [n \in DOMAIN log \cup {next} |-> IF n = next THEN stamp ELSE log[n]]
  BY <1>5, <1>8 DEF Limiter!Appended
<1>10. /\ DOMAIN new = DOMAIN log \cup {next} /\ new[next] = stamp
       /\ \A n \in DOMAIN log : new[n] = log[n]
  BY <1>7, <1>9
<1>11. new \in Log
  <2>1. DOMAIN log \cup {next} \subseteq Nat \ {0}
    BY <1>7, LogType
  <2>2. new \in [DOMAIN log \cup {next} -> Nat]
    BY <1>9, LogType
  <2>3. QED
    BY <2>1, <2>2 DEF Log
<1>12. DOMAIN new \subseteq 1..next
  BY <1>6, <1>7, <1>10
<1>13. ASSUME NEW i \in 1..Len(H), H[i] + Window > t + Lag
       PROVE  next - (Len(H) - i) \in DOMAIN new /\ new[next - (Len(H) - i)] + Lag >= H[i]
  <2>1. CASE i = Len(G) + 1
    <3>1. next - (Len(H) - i) = next
      BY <1>2, <1>7, <2>1
    <3>2. QED
      BY <1>2, <1>10, <2>1, <3>1, LimiterConstants
  <2>2. CASE i \in 1..Len(G)
    <3>1. G[i] + Window > t + Lag
      BY <1>2, <1>13, <2>2
    <3>2. ~Limiter!Empty(log) /\ Limiter!Newest(log) = top
      BY <2>2, <3>1, RecentIsNewest
    <3>3. next = top + 1
      BY <1>5, <3>2
    <3>4. next - (Len(H) - i) = top - (Len(G) - i)
      BY <1>2, <2>2, <3>3
    <3>5. top - (Len(G) - i) \in DOMAIN log /\ log[top - (Len(G) - i)] + Lag >= G[i]
      BY <2>2, <3>1 DEF Entered
    <3>6. QED
      BY <1>2, <1>10, <2>2, <3>4, <3>5
  <2>3. QED
    BY <1>3, <2>1, <2>2
<1>14. Entered(H, new, next, t)
  BY <1>12, <1>13 DEF Entered
<1>15. \A n \in DOMAIN new : new[n] = stamp \/ (n \in DOMAIN log /\ new[n] = log[n])
  BY <1>10
<1>16. \E up \in Nat : Entered(H, new, up, t)
  BY <1>7, <1>14
<1>17. Append(G, t) \in Seq(Nat) /\ InTime(Append(G, t), t)
  BY <1>1, <1>2, <1>4
<1>18. Limiter!Appended(log, stamp) \in Log
  BY <1>8, <1>11
<1>19. \A n \in DOMAIN Limiter!Appended(log, stamp) :
           \/ Limiter!Appended(log, stamp)[n] = stamp
           \/ n \in DOMAIN log /\ Limiter!Appended(log, stamp)[n] = log[n]
  BY <1>8, <1>15
<1>20. \E up \in Nat : Entered(Append(G, t), Limiter!Appended(log, stamp), up, t)
  BY <1>1, <1>8, <1>16
<1>21. QED
  BY <1>17, <1>18, <1>19, <1>20

\* A key that looks quiet has no accepted call in the window.
LEMMA QuietEntered ==
    ASSUME Limiter!LimiterAssumption, NEW G \in Seq(Nat), NEW t \in Nat, InTime(G, t), NEW log \in Log,
           NEW top \in Nat, Entered(G, log, top, t),
           NEW stamp \in Nat, stamp <= t, Limiter!Quiet(log, stamp)
    PROVE  Entered(G, Limiter!NoLog, top, t)
<1>1. ASSUME NEW i \in 1..Len(G), G[i] + Window > t + Lag PROVE FALSE
  <2>1. Limiter!Newest(log) = top /\ log[top] \in Nat /\ log[top] + Window > t
    BY <1>1, RecentIsNewest
  <2>2. log[top] < stamp - Window
    BY <2>1 DEF Limiter!Quiet
  <2>3. QED
    BY <2>1, <2>2, LimiterConstants, SMTT(20)
<1>2. QED
  BY <1>1, EmptyLog DEF Entered

\* As many calls of the window as the limit allows leave no room for another.
LEMMA FullWindow ==
    ASSUME Limiter!LimiterAssumption, NEW G \in Seq(Nat), NEW t \in Nat, InTime(G, t), NEW log \in Log,
           NEW top \in Nat, Entered(G, log, top, t), Len(G) >= Limit,
           Cardinality(DOMAIN log) < Limit
    PROVE  G[1] + Window <= t + Lag
<1>1. Limit \in Nat \ {0} /\ Len(G) \in Nat /\ Window \in Nat /\ Lag \in Nat /\ 1 \in 1..Len(G)
  BY LimiterConstants
<1>2. SUFFICES ASSUME G[1] + Window > t + Lag PROVE FALSE
  BY <1>1
<1>3. ASSUME NEW i \in 1..Len(G) PROVE top - (Len(G) - i) \in DOMAIN log
  <2>1. G[1] <= G[i] /\ G[1] \in Nat /\ G[i] \in Nat
    BY <1>1 DEF InTime
  <2>2. G[i] + Window > t + Lag
    BY <1>1, <1>2, <2>1, SMTT(20)
  <2>3. QED
    BY <2>2 DEF Entered
<1>4. PICK f : f = [i \in 1..Len(G) |-> top - (Len(G) - i)]
  OBVIOUS
<1>5. f \in [1..Len(G) -> DOMAIN log] /\ \A i, j \in 1..Len(G) : f[i] = f[j] => i = j
  BY <1>1, <1>3, <1>4
<1>6. f \in Injection(1..Len(G), DOMAIN log)
  BY <1>5 DEF Injection, IsInjective
<1>7. DOMAIN log \subseteq 1..top
  BY DEF Entered
<1>8. IsFiniteSet(DOMAIN log)
  <2>1. IsFiniteSet(1..top)
    BY FS_Interval
  <2>2. QED
    BY <1>7, <2>1, FS_Subset
<1>9. Cardinality(1..Len(G)) <= Cardinality(DOMAIN log)
  BY <1>6, <1>8, FS_Injection
<1>10. Cardinality(1..Len(G)) = Len(G)
  <2>1. Cardinality(1..Len(G)) = IF 1 > Len(G) THEN 0 ELSE Len(G) - 1 + 1
    BY <1>1, FS_Interval
  <2>2. QED
    BY <1>1, <2>1
<1>11. Cardinality(DOMAIN log) \in Nat
  BY <1>8, FS_CardinalityType
<1>12. QED
  BY <1>1, <1>9, <1>10, <1>11

LEMMA LimiterInitInv == ASSUME Limiter!LimiterAssumption, Limiter!Init PROVE LimiterInv
<1>1. LimiterTyped
  BY EmptyLog, LimiterConstants DEF Limiter!Init, LimiterTyped, Limiter!Idle
<1>2. ASSUME NEW k \in Clients PROVE KeyInv(k)
  <2>1. granted[k] = << >> /\ hits[k] = Limiter!NoLog
    BY <1>2 DEF Limiter!Init
  <2>2. Entered(<< >>, Limiter!NoLog, 0, now) /\ InTime(<< >>, now) /\ Spaced(<< >>)
    BY EmptyLog, LimiterConstants DEF Entered, InTime, Spaced
  <2>3. QED
    BY <2>1, <2>2 DEF KeyInv
<1>3. QED
  BY <1>1, <1>2 DEF LimiterInv

\* Dropping the quiet keys leaves every key as it should be.
LEMMA PrunedKey ==
    ASSUME Limiter!LimiterAssumption, NEW h \in [Clients -> Log], NEW stamp \in Nat, NEW t \in Nat, stamp <= t,
           NEW k \in Clients, NEW G \in Seq(Nat), InTime(G, t),
           \E top \in Nat : Entered(G, h[k], top, t),
           \A n \in DOMAIN h[k] : h[k][n] <= t
    PROVE  /\ Limiter!Pruned(h, stamp)[k] \in Log
           /\ \E top \in Nat : Entered(G, Limiter!Pruned(h, stamp)[k], top, t)
           /\ \A n \in DOMAIN Limiter!Pruned(h, stamp)[k] : Limiter!Pruned(h, stamp)[k][n] <= t
<1>1. PICK log : log = Limiter!Pruned(h, stamp)[k]
  OBVIOUS
<1>2. log = h[k] \/ (log = Limiter!NoLog /\ Limiter!Quiet(h[k], stamp))
  BY <1>1 DEF Limiter!Pruned
<1>3. CASE log = h[k]
  BY <1>1, <1>3
<1>4. CASE log = Limiter!NoLog /\ Limiter!Quiet(h[k], stamp)
  <2>1. PICK top \in Nat : Entered(G, h[k], top, t)
    OBVIOUS
  <2>2. h[k] \in Log
    OBVIOUS
  <2>3. Entered(G, log, top, t)
    BY <1>4, <2>1, <2>2, QuietEntered
  <2>4. log \in Log /\ DOMAIN log = {}
    BY <1>4, EmptyLog
  <2>5. QED
    BY <1>1, <2>3, <2>4
<1>5. QED
  BY <1>2, <1>3, <1>4

LEMMA GrantInv ==
    ASSUME Limiter!LimiterAssumption, LimiterInv, NEW c \in Handlers, NEW k \in Clients,
           Limiter!Grant(c, k)
    PROVE  LimiterInv'
<1>1. PICK stamp, kept, more, G :
          /\ stamp = call[c].stamp /\ kept = Limiter!Fresh(hits[k], stamp)
          /\ more = [hits EXCEPT ![k] = Limiter!Appended(kept, stamp)]
          /\ G = IF Len(granted[k]) > Limit THEN Tail(granted[k]) ELSE granted[k]
  OBVIOUS
<1>2. /\ call[c].pc = "enter" /\ Cardinality(DOMAIN kept) < Limit
      /\ hits' = Limiter!Pruned(more, stamp)
      /\ granted' = [granted EXCEPT ![k] = Append(G, now)]
      /\ call' = [call EXCEPT ![c] = Limiter!Idle]
      /\ now' = now
  <2>1. call[c].pc = "enter"
    BY DEF Limiter!Grant, Limiter!Entering
  <2>2. Cardinality(DOMAIN kept) < Limit
    BY <1>1 DEF Limiter!Grant, Limiter!Cardinality, Cardinality
  <2>3. hits' = Limiter!Pruned(more, stamp)
    BY <1>1 DEF Limiter!Grant
  <2>4. granted' = [granted EXCEPT ![k] = Append(G, now)]
    BY <1>1 DEF Limiter!Grant
  <2>5. call' = [call EXCEPT ![c] = Limiter!Idle] /\ now' = now
    BY DEF Limiter!Grant
  <2>6. QED
    BY <2>1, <2>2, <2>3, <2>4, <2>5
<1>3. /\ now \in Nat /\ hits \in [Clients -> Log] /\ granted \in [Clients -> Seq(Nat)]
      /\ call \in [Handlers -> {Limiter!Idle} \cup Waiting]
      /\ \A x \in Clients : \A n \in DOMAIN hits[x] : hits[x][n] <= now
  BY LimiterConstants DEF LimiterInv, LimiterTyped
<1>4. stamp \in Nat /\ stamp <= now /\ now <= stamp + Lag
  BY <1>1, <1>2, <1>3 DEF LimiterInv, LimiterTyped, Limiter!Idle, Waiting
<1>5. PICK top \in Nat : Entered(granted[k], hits[k], top, now)
  BY DEF LimiterInv, KeyInv
<1>6. InTime(granted[k], now) /\ Spaced(granted[k]) /\ hits[k] \in Log /\ granted[k] \in Seq(Nat)
  BY <1>3 DEF LimiterInv, KeyInv
<1>7. kept \in Log /\ Entered(granted[k], kept, top, now)
  BY <1>1, <1>3, <1>4, <1>5, <1>6, FreshEntered, FreshLog
<1>8. /\ G \in Seq(Nat) /\ InTime(G, now) /\ Entered(G, kept, top, now)
      /\ Len(G) \in Nat /\ Len(G) <= Limit
  <2>1. Limit \in Nat \ {0} /\ Len(granted[k]) \in Nat /\ Len(granted[k]) <= Limit + 1
    BY <1>6, LimiterConstants DEF Spaced
  <2>2. CASE Len(granted[k]) > Limit
    <3>1. Len(granted[k]) > 0 /\ G = Tail(granted[k])
      BY <1>1, <2>1, <2>2
    <3>2. /\ G \in Seq(Nat) /\ Len(G) = Len(granted[k]) - 1
          /\ InTime(G, now) /\ Entered(G, kept, top, now)
      BY <1>3, <1>6, <1>7, <3>1, TailEntered
    <3>3. QED
      BY <2>1, <2>2, <3>2
  <2>3. CASE ~(Len(granted[k]) > Limit)
    BY <1>1, <1>6, <1>7, <2>1, <2>3
  <2>4. QED
    BY <2>2, <2>3
<1>9. PICK H, log : H = Append(G, now) /\ log = Limiter!Appended(kept, stamp)
  OBVIOUS
<1>10. /\ H \in Seq(Nat) /\ InTime(H, now) /\ log \in Log
       /\ \A n \in DOMAIN log : log[n] = stamp \/ (n \in DOMAIN kept /\ log[n] = kept[n])
       /\ \E up \in Nat : Entered(H, log, up, now)
  BY <1>3, <1>4, <1>7, <1>8, <1>9, AppendEntered
<1>11. \A n \in DOMAIN kept : kept[n] <= now
  <2>1. /\ DOMAIN kept = {n \in DOMAIN hits[k] : hits[k][n] + Window > stamp}
        /\ \A n \in DOMAIN kept : kept[n] = hits[k][n]
    <3>1. hits[k] \in Log
      BY <1>3
    <3>2. QED
      BY <1>1, <1>4, <3>1, FreshLog
  <2>2. \A n \in DOMAIN kept : n \in DOMAIN hits[k]
    BY <2>1
  <2>3. QED
    BY <1>3, <2>1, <2>2
<1>12. \A n \in DOMAIN log : log[n] <= now
  BY <1>4, <1>10, <1>11
<1>13. Spaced(H)
  <2>1. Len(H) = Len(G) + 1 /\ \A i \in 1..Len(G) : H[i] = G[i]
    BY <1>3, <1>8, <1>9
  <2>2. H[Len(G) + 1] = now
    BY <1>3, <1>8, <1>9
  <2>3. Limit \in Nat \ {0}
    BY LimiterConstants
  <2>4. ASSUME Len(H) = Limit + 1 PROVE H[1] + Window <= H[Limit + 1] + Lag
    <3>1. Len(G) = Limit /\ 1 \in 1..Len(G)
      BY <1>8, <2>1, <2>3, <2>4
    <3>2. G[1] + Window <= now + Lag
      BY <1>2, <1>3, <1>7, <1>8, <3>1, FullWindow
    <3>3. QED
      BY <2>1, <2>2, <3>1, <3>2
  <2>5. QED
    BY <1>8, <2>1, <2>3, <2>4 DEF Spaced
<1>14. /\ more \in [Clients -> Log] /\ more[k] = log
       /\ \A x \in Clients \ {k} : more[x] = hits[x]
  BY <1>1, <1>3, <1>9, <1>10
<1>15. /\ granted' \in [Clients -> Seq(Nat)] /\ granted'[k] = H
       /\ \A x \in Clients \ {k} : granted'[x] = granted[x]
  BY <1>2, <1>3, <1>9, <1>10
<1>16. ASSUME NEW x \in Clients
       PROVE /\ hits'[x] \in Log /\ \A n \in DOMAIN hits'[x] : hits'[x][n] <= now
             /\ InTime(granted'[x], now) /\ Spaced(granted'[x])
             /\ \E up \in Nat : Entered(granted'[x], hits'[x], up, now)
  <2>1. /\ InTime(granted'[x], now) /\ Spaced(granted'[x]) /\ granted'[x] \in Seq(Nat)
        /\ \E up \in Nat : Entered(granted'[x], more[x], up, now)
        /\ \A n \in DOMAIN more[x] : more[x][n] <= now
    <3>1. CASE x = k
      BY <1>10, <1>12, <1>13, <1>14, <1>15, <3>1
    <3>2. CASE x # k
      BY <1>3, <1>14, <1>15, <3>2 DEF LimiterInv, KeyInv
    <3>3. QED
      BY <3>1, <3>2
  <2>2. QED
    BY <1>2, <1>3, <1>4, <1>14, <2>1, PrunedKey
<1>17. hits' \in [Clients -> Log]
  <2>1. hits' = [x \in Clients |-> hits'[x]]
    BY <1>2, <1>14 DEF Limiter!Pruned
  <2>2. QED
    BY <1>16, <2>1
<1>18. call' \in [Handlers -> {Limiter!Idle} \cup Waiting]
       /\ \A d \in Handlers : call'[d] = call[d] \/ call'[d].pc # "enter"
  BY <1>2, <1>3 DEF Limiter!Idle
<1>19. LimiterTyped'
  BY <1>2, <1>15, <1>16, <1>17, <1>18 DEF LimiterInv, LimiterTyped
<1>20. \A x \in Clients : KeyInv(x)'
  BY <1>2, <1>16 DEF KeyInv
<1>21. QED
  BY <1>19, <1>20 DEF LimiterInv

LEMMA RefuseInv ==
    ASSUME Limiter!LimiterAssumption, LimiterInv, NEW c \in Handlers, NEW k \in Clients,
           Limiter!Refuse(c, k)
    PROVE  LimiterInv'
<1>1. PICK stamp, kept : stamp = call[c].stamp /\ kept = Limiter!Fresh(hits[k], stamp)
  OBVIOUS
<1>2. /\ call[c].pc = "enter" /\ hits' = [hits EXCEPT ![k] = kept]
      /\ call' = [call EXCEPT ![c] = Limiter!Idle]
      /\ now' = now /\ granted' = granted
  BY <1>1 DEF Limiter!Refuse, Limiter!Entering, Limiter!LogAfterRefusal
<1>3. /\ now \in Nat /\ hits \in [Clients -> Log] /\ granted \in [Clients -> Seq(Nat)]
      /\ call \in [Handlers -> {Limiter!Idle} \cup Waiting]
      /\ \A x \in Clients : \A n \in DOMAIN hits[x] : hits[x][n] <= now
  BY LimiterConstants DEF LimiterInv, LimiterTyped
<1>4. stamp \in Nat /\ stamp <= now /\ now <= stamp + Lag
  BY <1>1, <1>2, <1>3 DEF LimiterInv, LimiterTyped, Limiter!Idle, Waiting
<1>5. PICK top \in Nat : Entered(granted[k], hits[k], top, now)
  BY DEF LimiterInv, KeyInv
<1>6. kept \in Log /\ Entered(granted[k], kept, top, now)
  BY <1>1, <1>3, <1>4, <1>5, FreshEntered, FreshLog
<1>7. \A n \in DOMAIN kept : kept[n] <= now
  <2>1. /\ DOMAIN kept = {n \in DOMAIN hits[k] : hits[k][n] + Window > stamp}
        /\ \A n \in DOMAIN kept : kept[n] = hits[k][n]
    <3>1. hits[k] \in Log
      BY <1>3
    <3>2. QED
      BY <1>1, <1>4, <3>1, FreshLog
  <2>2. \A n \in DOMAIN kept : n \in DOMAIN hits[k]
    BY <2>1
  <2>3. QED
    BY <1>3, <2>1, <2>2
<1>8. hits' \in [Clients -> Log] /\ hits'[k] = kept /\ \A x \in Clients \ {k} : hits'[x] = hits[x]
  BY <1>2, <1>3, <1>6
<1>9. call' \in [Handlers -> {Limiter!Idle} \cup Waiting]
      /\ \A d \in Handlers : call'[d] = call[d] \/ call'[d].pc # "enter"
  BY <1>2, <1>3 DEF Limiter!Idle
<1>10. LimiterTyped'
  BY <1>2, <1>3, <1>7, <1>8, <1>9 DEF LimiterInv, LimiterTyped
<1>11. \A x \in Clients : KeyInv(x)'
  BY <1>2, <1>6, <1>8 DEF LimiterInv, KeyInv
<1>12. QED
  BY <1>10, <1>11 DEF LimiterInv

LEMMA LimiterNextInv ==
    ASSUME Limiter!LimiterAssumption, LimiterInv, [Limiter!Next]_(Limiter!vars) PROVE LimiterInv'
<1> USE DEF LimiterInv, KeyInv
<1>1. CASE UNCHANGED Limiter!vars
  BY <1>1 DEF Limiter!vars, LimiterTyped
<1>2. ASSUME NEW c \in Handlers, NEW k \in Clients, Limiter!Call(c, k) PROVE LimiterInv'
  <2>1. /\ call' = [call EXCEPT ![c] = [pc |-> "enter", key |-> k, stamp |-> now]]
        /\ UNCHANGED <<now, hits, granted>>
    BY <1>2 DEF Limiter!Call
  <2>2. now \in Nat /\ Lag \in Nat
    BY LimiterConstants DEF LimiterTyped
  <2>3. PICK new : new = [pc |-> "enter", key |-> k, stamp |-> now]
    OBVIOUS
  <2>4. new \in Waiting /\ new.stamp = now
    BY <2>2, <2>3 DEF Waiting
  <2>5. LimiterTyped'
    BY <2>1, <2>2, <2>3, <2>4 DEF LimiterTyped
  <2>6. QED
    BY <2>1, <2>5
<1>3. ASSUME NEW k \in Clients, Limiter!Reset(k) PROVE LimiterInv'
  <2>1. /\ hits' = [hits EXCEPT ![k] = Limiter!NoLog] /\ granted' = [granted EXCEPT ![k] = << >>]
        /\ UNCHANGED <<now, call>>
    BY <1>3 DEF Limiter!Reset
  <2>2. Entered(<< >>, Limiter!NoLog, 0, now) /\ InTime(<< >>, now) /\ Spaced(<< >>)
    BY EmptyLog, LimiterConstants DEF Entered, InTime, Spaced
  <2>3. LimiterTyped'
    BY <2>1, EmptyLog DEF LimiterTyped
  <2>4. \A x \in Clients : KeyInv(x)'
    BY <2>1, <2>2 DEF LimiterTyped
  <2>5. QED
    BY <2>3, <2>4
<1>4. CASE Limiter!Tick
  <2>1. /\ now < MaxTime /\ now' = now + 1 /\ UNCHANGED <<hits, call, granted>>
        /\ \A c \in Handlers : call[c].pc = "enter" => now - call[c].stamp < Lag
    BY <1>4 DEF Limiter!Tick
  <2>2. now \in Nat /\ now + 1 \in 0..MaxTime /\ Window \in Nat /\ Lag \in Nat
    BY <2>1, LimiterConstants DEF LimiterTyped
  <2>3. \A c \in Handlers : call[c].pc = "enter" => call[c].stamp \in Nat
    BY DEF LimiterTyped, Limiter!Idle, Waiting
  <2>4. \A c \in Handlers : call[c].pc = "enter" => call[c].stamp <= now + 1 /\ now + 1 <= call[c].stamp + Lag
    <3>1. ASSUME NEW c \in Handlers, call[c].pc = "enter"
          PROVE  call[c].stamp <= now + 1 /\ now + 1 <= call[c].stamp + Lag
      <4>1. PICK s \in Nat : s = call[c].stamp
        BY <2>3, <3>1
      <4>2. s <= now /\ now - s < Lag
        BY <2>1, <3>1, <4>1 DEF LimiterTyped
      <4>3. s <= now + 1 /\ now + 1 <= s + Lag
        BY <2>2, <4>2
      <4>4. QED
        BY <4>1, <4>3
    <3>2. QED
      BY <3>1
  <2>5. \A k \in Clients : \A n \in DOMAIN hits[k] : hits[k][n] <= now + 1
    <3>1. \A k \in Clients : \A n \in DOMAIN hits[k] : hits[k][n] \in Nat /\ hits[k][n] <= now
      BY LogType DEF LimiterTyped
    <3>2. QED
      BY <2>2, <3>1
  <2>6. LimiterTyped'
    BY <2>1, <2>2, <2>4, <2>5 DEF LimiterTyped
  <2>7. ASSUME NEW k \in Clients PROVE KeyInv(k)'
    <3>1. PICK G \in Seq(Nat) : G = granted[k]
      BY DEF LimiterTyped
    <3>2. PICK top \in Nat : Entered(G, hits[k], top, now)
      BY <3>1
    <3>3. \A i \in 1..Len(G) : G[i] \in Nat
      OBVIOUS
    <3>4. \A i \in 1..Len(G) : G[i] + Window > now + 1 + Lag => G[i] + Window > now + Lag
      BY <2>2, <3>3
    <3>5. Entered(G, hits[k], top, now + 1)
      BY <3>2, <3>4 DEF Entered
    <3>6. InTime(G, now + 1)
      BY <2>2, <3>1, <3>3, SMTT(20) DEF InTime
    <3>7. QED
      BY <2>1, <3>1, <3>5, <3>6
  <2>8. QED
    BY <2>6, <2>7
<1>5. QED
  BY <1>1, <1>2, <1>3, <1>4, GrantInv, RefuseInv DEF Limiter!Next

LEMMA LimiterBound == ASSUME Limiter!LimiterAssumption, LimiterInv PROVE Limiter!WindowBound
<1>1. ASSUME NEW k \in Clients, Len(granted[k]) > Limit
      PROVE granted[k][Limit + 1] - granted[k][1] >= Window - Lag
  <2>1. PICK G \in Seq(Nat) : G = granted[k]
    BY DEF LimiterInv, LimiterTyped
  <2>2. Limit \in Nat /\ Window \in Nat /\ Lag \in Nat
    BY LimiterConstants
  <2>3. Len(G) = Limit + 1 /\ G[1] + Window <= G[Limit + 1] + Lag
    BY <1>1, <2>1, <2>2 DEF LimiterInv, KeyInv, Spaced
  <2>4. G[1] \in Nat /\ G[Limit + 1] \in Nat
    BY <2>2, <2>3
  <2>5. QED
    BY <2>1, <2>2, <2>3, <2>4
<1>2. QED
  BY <1>1 DEF Limiter!WindowBound

LEMMA LimiterIsTyped == ASSUME Limiter!LimiterAssumption, LimiterInv PROVE Limiter!TypeOK
<1>1. ASSUME NEW k \in Clients, NEW n \in DOMAIN hits[k] PROVE hits[k][n] \in 0..now
  <2>1. hits[k][n] \in Nat /\ hits[k][n] <= now /\ now \in Nat
    BY LogType DEF LimiterInv, LimiterTyped
  <2>2. QED
    BY <2>1
<1>2. QED
  BY <1>1 DEF LimiterInv, LimiterTyped, Limiter!TypeOK, Limiter!Idle, Waiting
-----------------------------------------------------------------------------
(* File requests.                                                          *)

\* The folder of the link, or the root after a purge.
Near(p, r) == p = target[r] \/ (p = Root /\ folder[target[r]] = "purged")

LinksNear == \A r \in Requests : request[r].st # "none" => Near(request[r].place, r)

Begun == \A s \in Sessions : begunBy[s] # None =>
             /\ upload[s].st # "none" /\ request[begunBy[s]].st # "none"
             /\ Near(upload[s].place, begunBy[s])

Owned == \A s \in Sessions : owner[s] # None => owner[s] = begunBy[s]

\* What a handler has read before it goes on.
CallingOf(h) ==
    /\ req[h].pc = "init" => request[req[h].r].st # "none" /\ Near(req[h].place, req[h].r)
    /\ req[h].pc \in {"link", "chunk", "complete", "write", "finish", "unlink"} => req[h].s \in Sessions
    /\ req[h].pc \in {"link", "write", "finish", "unlink"} => begunBy[req[h].s] = req[h].r
    /\ req[h].pc = "finish" => Near(req[h].place, req[h].r)

Calling == \A h \in Handlers : CallingOf(h)

Arrived == \A x \in landed : begunBy[x.s] = x.via /\ Near(x.place, x.via)

IInv == TypeOK /\ LinksNear /\ Begun /\ Owned /\ Calling /\ Arrived
-----------------------------------------------------------------------------
LEMMA InitInv == ASSUME RequestAssumption, Init PROVE IInv
<1>1. TypeOK
  BY DEF Init, TypeOK, Row, Upload, Call, Arrival, Places, Idle
<1>2. \A h \in Handlers : req[h].pc = "idle"
  BY DEF Init, Idle
<1>3. QED
  BY <1>1, <1>2 DEF Init, IInv, LinksNear, Begun, Owned, Calling, CallingOf, Arrived

\* What the bytes and the end of an upload change of its row.
LEMMA Written ==
    ASSUME TypeOK, NEW h \in Handlers, req[h].s \in Sessions, WriteChunk(h) \/ FinishUpload(h)
    PROVE  /\ upload' \in [Sessions -> Upload]
           /\ upload[req[h].s].st # "none" => upload'[req[h].s].st # "none"
           /\ \A s \in Sessions : upload'[s].place = upload[s].place
           /\ \A s \in Sessions : s # req[h].s => upload'[s] = upload[s]
<1>1. upload[req[h].s] \in Upload
  BY DEF TypeOK
<1>2. ASSUME NEW u \in Upload, NEW b \in BOOLEAN
      PROVE  /\ [u EXCEPT !.whole = b] \in Upload
             /\ [u EXCEPT !.whole = b].st = u.st /\ [u EXCEPT !.whole = b].place = u.place
  BY DEF Upload
<1>3. CASE WriteChunk(h)
  <2>1. PICK b \in BOOLEAN : b = (upload[req[h].s].st = "on")
    OBVIOUS
  <2>2. upload' = [upload EXCEPT ![req[h].s] = [upload[req[h].s] EXCEPT !.whole = b]]
    BY <1>3, <2>1 DEF WriteChunk
  <2>3. QED
    BY <1>1, <1>2, <2>2 DEF TypeOK
<1>4. CASE FinishUpload(h)
  <2>1. \/ upload' = upload
        \/ upload' = [upload EXCEPT ![req[h].s] = [upload[req[h].s] EXCEPT !.st = "off", !.whole = FALSE]]
    BY <1>4 DEF FinishUpload
  <2>2. ASSUME NEW u \in Upload
        PROVE  /\ [u EXCEPT !.st = "off", !.whole = FALSE] \in Upload
               /\ [u EXCEPT !.st = "off", !.whole = FALSE].st = "off"
               /\ [u EXCEPT !.st = "off", !.whole = FALSE].place = u.place
    BY DEF Upload
  <2>3. PICK u \in Upload : u = upload[req[h].s]
    BY <1>1
  <2>4. PICK v \in Upload : /\ v.st = "off" /\ v.place = u.place
                            /\ upload' = upload \/ upload' = [upload EXCEPT ![req[h].s] = v]
    BY <2>1, <2>2, <2>3
  <2>5. QED
    BY <2>3, <2>4 DEF TypeOK
<1>5. QED
  BY <1>3, <1>4

\* The folder of a link that exists stays near it, an upload keeps the link that has begun it,
\* and no row returns to "none".
LEMMA Lasting ==
    ASSUME RequestAssumption, IInv, Next
    PROVE  /\ \A r \in Requests : request[r].st # "none" => request'[r].st # "none"
           /\ \A r \in Requests, p \in Places : request[r].st # "none" /\ Near(p, r) => Near(p, r)'
           /\ \A s \in Sessions : upload[s].st # "none" => /\ upload'[s].st # "none"
                                                           /\ begunBy'[s] = begunBy[s]
<1>1. TypeOK
  BY DEF IInv
<1>2. \A r \in Requests : request[r].st # "none" => request'[r].st # "none" /\ target'[r] = target[r]
  <2>1. CASE \E r \in Requests : DeleteRequest(r) \/ Expire(r)
    BY <1>1, <2>1 DEF TypeOK, Row, DeleteRequest, Expire, CloseRequest
  <2>2. CASE \E r \in Requests, p \in Places : CreateRequest(r, p)
    BY <1>1, <2>2 DEF TypeOK, Row, CreateRequest
  <2>3. CASE \E f \in Folders : PurgeFolder(f)
    <3>1. \A r \in Requests : request'[r].st = request[r].st
      BY <1>1, <2>3 DEF TypeOK, Row, PurgeFolder
    <3>2. QED
      BY <2>3, <3>1 DEF PurgeFolder
  <2>4. CASE request' = request /\ target' = target
    BY <2>4
  <2>5. QED
    BY <2>1, <2>2, <2>3, <2>4 DEF Next, MarkFolder, TrashFolder, RestoreFolder, DashboardInit,
           ValidateInit, ValidateUse, NewSession, LinkSession, CheckChunk, CheckComplete,
           CheckSession, WriteChunk, FinishUpload, UnlinkSession
<1>3. \A f \in Folders : folder[f] = "purged" => folder'[f] = "purged"
  BY <1>1 DEF TypeOK, Next, CreateRequest, DeleteRequest, Expire, CloseRequest, MarkFolder, TrashFolder,
         RestoreFolder, PurgeFolder, DashboardInit, ValidateInit, ValidateUse, NewSession,
         LinkSession, CheckChunk, CheckComplete, CheckSession, WriteChunk, FinishUpload, UnlinkSession
<1>4. \A r \in Requests : target[r] \in Folders \/ target[r] = Root
  BY <1>1 DEF TypeOK, Places
<1>5. \A s \in Sessions : upload[s].st # "none" => upload'[s].st # "none" /\ begunBy'[s] = begunBy[s]
  <2>1. CASE \E s \in Sessions, p \in Places : DashboardInit(s, p)
    BY <1>1, <2>1 DEF TypeOK, Upload, DashboardInit
  <2>2. CASE \E f \in Folders : PurgeFolder(f)
    <3>1. \A s \in Sessions : upload'[s].st = upload[s].st
      BY <1>1, <2>2 DEF TypeOK, Upload, PurgeFolder
    <3>2. QED
      BY <2>2, <3>1 DEF PurgeFolder
  <2>3. CASE \E h \in Handlers, s \in Sessions : NewSession(h, s)
    BY <1>1, <2>3 DEF TypeOK, Upload, NewSession, StartSession
  <2>4. CASE \E h \in Handlers : WriteChunk(h) \/ FinishUpload(h)
    <3>1. ASSUME NEW s \in Sessions, upload[s].st # "none" PROVE upload'[s].st # "none"
      <4>1. PICK h \in Handlers : WriteChunk(h) \/ FinishUpload(h)
        BY <2>4
      <4>2. CASE s = req[h].s
        BY <1>1, <3>1, <4>1, <4>2, Written
      <4>3. CASE s # req[h].s
        BY <1>1, <3>1, <4>1, <4>3 DEF TypeOK, WriteChunk, FinishUpload
      <4>4. QED
        BY <4>2, <4>3
    <3>2. begunBy' = begunBy
      BY <2>4 DEF WriteChunk, FinishUpload
    <3>3. QED
      BY <3>1, <3>2
  <2>5. CASE upload' = upload /\ begunBy' = begunBy
    BY <2>5
  <2>6. QED
    BY <2>1, <2>2, <2>3, <2>4, <2>5 DEF Next, CreateRequest, DeleteRequest, Expire, CloseRequest,
           MarkFolder, TrashFolder, RestoreFolder, ValidateInit, ValidateUse, LinkSession, CheckChunk,
           CheckComplete, CheckSession, UnlinkSession
<1>6. QED
  BY <1>2, <1>3, <1>4, <1>5 DEF Near

\* A finished upload belongs to its link, which exists.
LEMMA ArrivedLinks ==
    ASSUME RequestAssumption, IInv, NEW x \in landed
    PROVE  /\ x.s \in Sessions /\ x.via \in Requests /\ x.place \in Places
           /\ upload[x.s].st # "none" /\ request[x.via].st # "none"
<1>1. x.s \in Sessions /\ x.via \in Requests /\ x.place \in Places
  BY DEF IInv, TypeOK, Arrival
<1>2. begunBy[x.s] # None
  BY <1>1 DEF RequestAssumption, IInv, Arrived
<1>3. QED
  BY <1>1, <1>2 DEF IInv, Begun, Arrived

\* What has arrived stays where it belongs.
LEMMA ArrivedStays == ASSUME RequestAssumption, IInv, Next, landed' = landed PROVE Arrived'
<1>1. ASSUME NEW x \in landed PROVE begunBy'[x.s] = x.via /\ Near(x.place, x.via)'
  <2>1. /\ x.s \in Sessions /\ x.via \in Requests /\ x.place \in Places
        /\ upload[x.s].st # "none" /\ request[x.via].st # "none"
    BY ArrivedLinks
  <2>2. begunBy[x.s] = x.via /\ Near(x.place, x.via)
    BY DEF IInv, Arrived
  <2>3. QED
    BY <2>1, <2>2, Lasting
<1>2. QED
  BY <1>1 DEF Arrived

\* A step that leaves the uploads and their owners, and does not move the links.
LEMMA BegunStays ==
    ASSUME RequestAssumption, IInv, Next, upload' = upload, begunBy' = begunBy PROVE Begun'
<1>1. ASSUME NEW s \in Sessions, begunBy[s] # None
      PROVE  \E r \in Requests : /\ r = begunBy[s] /\ request'[r].st # "none"
                                 /\ Near(upload[s].place, r)'
  <2>1. PICK r \in Requests : r = begunBy[s]
    BY <1>1 DEF IInv, TypeOK
  <2>2. request[r].st # "none" /\ Near(upload[s].place, r) /\ upload[s].place \in Places
    BY <1>1, <2>1 DEF IInv, Begun, TypeOK, Upload
  <2>3. PICK p \in Places : p = upload[s].place
    BY <2>2
  <2>4. Near(p, r)'
    BY <2>2, <2>3, Lasting
  <2>5. QED
    BY <2>1, <2>2, <2>3, <2>4, Lasting
<1>2. QED
  BY <1>1 DEF IInv, Begun

\* What the handlers have read holds on while they wait.
LEMMA CallingStays ==
    ASSUME RequestAssumption, IInv, Next, NEW h \in Handlers, req'[h] = req[h] PROVE CallingOf(h)'
<1>1. CASE req[h] \notin Call
  BY <1>1 DEF IInv, TypeOK, Idle, CallingOf
<1>2. CASE req[h] \in Call
  <2>1. PICK r \in Requests, p \in Places : r = req[h].r /\ p = req[h].place
    BY <1>2 DEF Call
  <2>2. CallingOf(h)
    BY DEF IInv, Calling
  <2>3. ASSUME NEW s \in Sessions, begunBy[s] = r
        PROVE  begunBy'[s] = r /\ request[r].st # "none"
    <3>1. upload[s].st # "none" /\ request[r].st # "none"
      BY <2>3 DEF RequestAssumption, IInv, Begun
    <3>2. QED
      BY <2>3, <3>1, Lasting
  <2>4. request[r].st # "none" /\ Near(p, r) => request'[r].st # "none" /\ Near(p, r)'
    BY Lasting
  <2>5. /\ req[h].pc = "init" => request'[r].st # "none" /\ Near(p, r)'
        /\ req[h].pc \in {"link", "write", "finish", "unlink"} => begunBy'[req[h].s] = r
        /\ req[h].pc = "finish" => Near(p, r)'
    BY <2>1, <2>2, <2>3, <2>4 DEF CallingOf
  <2>6. QED
    BY <2>1, <2>2, <2>5 DEF CallingOf, Near
<1>3. QED
  BY <1>1, <1>2

\* Links are made, closed and forgotten, folders trashed, restored and purged.
LEMMA OwnerInv ==
    ASSUME RequestAssumption, IInv, Next,
           \/ \E r \in Requests : DeleteRequest(r) \/ Expire(r) \/ \E p \in Places : CreateRequest(r, p)
           \/ \E f \in Folders : TrashFolder(f) \/ RestoreFolder(f)
    PROVE  IInv'
<1>1. UNCHANGED <<upload, owner, req, begunBy, landed>>
  BY DEF DeleteRequest, Expire, CloseRequest, CreateRequest, MarkFolder, TrashFolder, RestoreFolder
<1>2. TypeOK'
  <2>1. CASE \E r \in Requests : DeleteRequest(r) \/ Expire(r)
    <3>1. PICK r \in Requests : DeleteRequest(r) \/ Expire(r)
      BY <2>1
    <3>2. request' = [request EXCEPT ![r] = [request[r] EXCEPT !.st = "off"]]
          \/ request' = [request EXCEPT ![r] = [request[r] EXCEPT !.expired = TRUE]]
      BY <3>1 DEF DeleteRequest, Expire, CloseRequest
    <3>3. ASSUME NEW w \in Row
          PROVE  [w EXCEPT !.st = "off"] \in Row /\ [w EXCEPT !.expired = TRUE] \in Row
      BY DEF Row
    <3>4. request' \in [Requests -> Row]
      <4>1. PICK w \in Row : w = request[r]
        BY DEF IInv, TypeOK
      <4>2. PICK v \in Row : request' = [request EXCEPT ![r] = v]
        BY <3>2, <3>3, <4>1
      <4>3. QED
        BY <4>2 DEF IInv, TypeOK
    <3>5. UNCHANGED <<target, folder>>
      BY <3>1 DEF DeleteRequest, Expire, CloseRequest
    <3>6. QED
      BY <1>1, <3>4, <3>5 DEF IInv, TypeOK
  <2>2. CASE \E r \in Requests, p \in Places : CreateRequest(r, p)
    BY <2>2 DEF IInv, TypeOK, Row, CreateRequest
  <2>3. CASE \E f \in Folders : TrashFolder(f) \/ RestoreFolder(f)
    <3>1. PICK f \in Folders, to \in {"live", "trashed"} :
              folder[f] # "purged" /\ folder' = [folder EXCEPT ![f] = to]
      BY <2>3 DEF MarkFolder, TrashFolder, RestoreFolder
    <3>2. UNCHANGED <<request, target>>
      BY <2>3 DEF MarkFolder, TrashFolder, RestoreFolder
    <3>3. \A s \in Sessions : upload[s].place \in Folders \cup {Root}
      BY DEF IInv, TypeOK, Upload, Places
    <3>4. QED
      BY <1>1, <3>1, <3>2, <3>3 DEF IInv, TypeOK
  <2>4. QED
    BY <2>1, <2>2, <2>3
<1>3. LinksNear'
  <2>1. CASE \E r \in Requests : DeleteRequest(r) \/ Expire(r)
    <3>1. \A q \in Requests : /\ request'[q].place = request[q].place
                              /\ request'[q].st # "none" => request[q].st # "none"
      BY <2>1 DEF IInv, TypeOK, Row, DeleteRequest, Expire, CloseRequest
    <3>2. UNCHANGED <<target, folder>>
      BY <2>1 DEF DeleteRequest, Expire, CloseRequest
    <3>3. QED
      BY <3>1, <3>2 DEF IInv, LinksNear, Near
  <2>2. CASE \E r \in Requests, p \in Places : CreateRequest(r, p)
    BY <2>2 DEF IInv, TypeOK, LinksNear, Near, CreateRequest
  <2>3. CASE \E f \in Folders : TrashFolder(f) \/ RestoreFolder(f)
    <3>1. PICK f \in Folders, to \in {"live", "trashed"} :
              folder[f] # "purged" /\ folder' = [folder EXCEPT ![f] = to]
      BY <2>3 DEF MarkFolder, TrashFolder, RestoreFolder
    <3>2. UNCHANGED <<request, target>>
      BY <2>3 DEF MarkFolder, TrashFolder, RestoreFolder
    <3>3. \A r \in Requests : target[r] \in Folders \cup {Root}
      BY DEF IInv, TypeOK, Places
    <3>4. QED
      BY <3>1, <3>2, <3>3 DEF IInv, TypeOK, LinksNear, Near
  <2>4. QED
    BY <2>1, <2>2, <2>3
<1>4. Begun' /\ Arrived'
  BY <1>1, BegunStays, ArrivedStays
<1>5. QED
  BY <1>1, <1>2, <1>3, <1>4, CallingStays DEF IInv, Owned, Calling

\* A purge moves the rows of the folder to the root.
LEMMA PurgeInv == ASSUME RequestAssumption, IInv, Next, NEW f \in Folders, PurgeFolder(f) PROVE IInv'
<1>1. /\ folder[f] = "trashed" /\ folder' = [folder EXCEPT ![f] = "purged"]
      /\ UNCHANGED <<owner, req, target, begunBy, landed>>
  BY DEF PurgeFolder
<1>2. /\ request' \in [Requests -> Row]
      /\ \A r \in Requests :
             /\ request'[r].st = request[r].st
             /\ request'[r].place = IF request[r].place = f THEN Root ELSE request[r].place
  <2>1. ASSUME NEW w \in Row
        PROVE  /\ [w EXCEPT !.place = Root] \in Row /\ [w EXCEPT !.place = Root].st = w.st
               /\ [w EXCEPT !.place = Root].place = Root
    BY DEF Row, Places
  <2>2. QED
    BY <2>1 DEF IInv, TypeOK, PurgeFolder
<1>3. /\ upload' \in [Sessions -> Upload]
      /\ \A s \in Sessions :
             /\ upload'[s].st = upload[s].st
             /\ upload'[s].place = IF upload[s].place = f THEN Root ELSE upload[s].place
  <2>1. ASSUME NEW u \in Upload
        PROVE  /\ [u EXCEPT !.place = Root] \in Upload /\ [u EXCEPT !.place = Root].st = u.st
               /\ [u EXCEPT !.place = Root].place = Root
    BY DEF Upload, Places
  <2>2. QED
    BY <2>1 DEF IInv, TypeOK, PurgeFolder
<1>4. TypeOK'
  <2>1. \A s \in Sessions : upload'[s].place # Root => folder'[upload'[s].place] # "purged"
    BY <1>1, <1>3 DEF IInv, TypeOK, Upload, Places
  <2>2. QED
    BY <1>1, <1>2, <1>3, <2>1 DEF IInv, TypeOK
\* The folder of a row that is near its link stays near it when both are moved.
<1>5. ASSUME NEW r \in Requests, NEW p \in Places, request[r].st # "none", Near(p, r),
             NEW q, q = IF p = f THEN Root ELSE p
      PROVE  Near(q, r)'
  BY <1>1, <1>5 DEF IInv, TypeOK, Near, Places
<1>6. LinksNear'
  <2>1. ASSUME NEW r \in Requests, request'[r].st # "none" PROVE Near(request[r].place, r)'
    <3>1. PICK q : q = request'[r].place
      OBVIOUS
    <3>2. Near(q, r)'
      BY <1>2, <1>5, <2>1, <3>1 DEF IInv, TypeOK, Row, LinksNear
    <3>3. QED
      BY <3>1, <3>2
  <2>2. QED
    BY <2>1 DEF LinksNear
<1>7. Begun'
  <2>1. ASSUME NEW s \in Sessions, begunBy[s] # None
        PROVE  \E r \in Requests : /\ r = begunBy[s] /\ request'[r].st # "none" /\ upload'[s].st # "none"
                                   /\ Near(upload[s].place, r)'
    <3>1. PICK r \in Requests : r = begunBy[s]
      BY <2>1 DEF IInv, TypeOK
    <3>2. /\ request[r].st # "none" /\ upload[s].st # "none" /\ Near(upload[s].place, r)
          /\ upload[s].place \in Places
      BY <2>1, <3>1 DEF IInv, Begun, TypeOK, Upload
    <3>3. PICK q : q = upload'[s].place
      OBVIOUS
    <3>4. Near(q, r)'
      BY <1>3, <1>5, <3>2, <3>3
    <3>5. QED
      BY <1>2, <1>3, <3>1, <3>2, <3>3, <3>4
  <2>2. QED
    BY <1>1, <2>1 DEF Begun
<1>8. QED
  BY <1>1, <1>4, <1>6, <1>7, ArrivedStays, CallingStays DEF IInv, Owned, Calling

\* A new row of the owner or of a link.
LEMMA DashboardInv ==
    ASSUME RequestAssumption, IInv, Next, NEW s \in Sessions, NEW p \in Places, DashboardInit(s, p)
    PROVE  IInv'
<1>1. /\ upload[s].st = "none" /\ p \in {Root} \cup {f \in Folders : folder[f] = "live"}
      /\ UNCHANGED <<folder, request, owner, req, target, begunBy, landed>>
  BY DEF DashboardInit, Shown
<1>2. PICK u \in Upload : u.st = "on" /\ u.place = p /\ upload' = [upload EXCEPT ![s] = u]
  BY DEF DashboardInit, Upload
<1>3. TypeOK'
  BY <1>1, <1>2 DEF IInv, TypeOK
<1>4. begunBy[s] = None
  BY <1>1 DEF IInv, Begun
<1>5. LinksNear' /\ Begun'
  BY <1>1, <1>2, <1>4 DEF IInv, TypeOK, LinksNear, Begun, Near
<1>6. QED
  BY <1>1, <1>3, <1>5, ArrivedStays, CallingStays DEF IInv, Owned, Calling

\* A call is taken, and checked against the row of its session.
LEMMA CheckInv ==
    ASSUME RequestAssumption, IInv, Next, NEW h \in Handlers,
           \/ \E r \in Requests : ValidateInit(h, r)
           \/ \E r \in Requests, s \in Sessions, c \in {"chunk", "complete"} : ValidateUse(h, r, s, c)
           \/ CheckChunk(h) \/ CheckComplete(h)
    PROVE  IInv'
<1>1. UNCHANGED <<folder, request, upload, owner, target, begunBy, landed>>
  BY DEF ValidateInit, ValidateUse, CheckChunk, CheckComplete, CheckSession
<1>2. PICK c \in Call \cup {Idle} :
          /\ req' = [req EXCEPT ![h] = c]
          /\ c.pc = "init" => request[c.r].st # "none" /\ Near(c.place, c.r)
          /\ c.pc \in {"link", "chunk", "complete", "write", "finish", "unlink"} => c.s \in Sessions
          /\ c.pc \in {"link", "write", "finish", "unlink"} => begunBy[c.s] = c.r
          /\ c.pc = "finish" => Near(c.place, c.r)
  <2>1. CASE \E r \in Requests : ValidateInit(h, r)
    <3>1. PICK r \in Requests : ValidateInit(h, r)
      BY <2>1
    <3>2. request[r].st # "none" /\ request[r].place \in Places /\ Near(request[r].place, r)
      BY <3>1 DEF IInv, TypeOK, Row, LinksNear, ValidateInit, Open
    <3>3. PICK c \in Call : /\ c.pc = "init" /\ c.r = r /\ c.place = request[r].place
                            /\ req' = [req EXCEPT ![h] = c]
      BY <3>1, <3>2 DEF Call, ValidateInit
    <3>4. QED
      BY <3>2, <3>3
  <2>2. CASE \E r \in Requests, s \in Sessions, c \in {"chunk", "complete"} : ValidateUse(h, r, s, c)
    <3>1. PICK c \in Call : /\ c.pc \in {"chunk", "complete"} /\ c.s \in Sessions
                            /\ req' = [req EXCEPT ![h] = c]
      BY <2>2 DEF Call, ValidateUse, Places
    <3>2. QED
      BY <3>1
  <2>3. CASE CheckChunk(h) \/ CheckComplete(h)
    <3>1. req[h] \in Call /\ req[h].s \in Sessions
      BY <2>3 DEF IInv, TypeOK, Idle, Calling, CallingOf, CheckChunk, CheckComplete, CheckSession
    <3>2. CASE req' = [req EXCEPT ![h] = Idle]
      <4>1. PICK c \in {Idle} : c.pc = "idle" /\ req' = [req EXCEPT ![h] = c]
        BY <3>2 DEF Idle
      <4>2. QED
        BY <4>1
    <3>3. CASE /\ MayUse(h)
               /\ \E next \in {"write", "finish"} :
                      req' = [req EXCEPT ![h] = [req[h] EXCEPT !.pc = next, !.place = upload[req[h].s].place]]
      <4>1. PICK k \in Call : k = req[h]
        BY <3>1
      <4>2. PICK r \in Requests, s \in Sessions : r = k.r /\ s = k.s
        BY <3>1, <4>1 DEF Call
      <4>3. owner[s] = r /\ begunBy[s] = r /\ upload[s].place \in Places /\ Near(upload[s].place, r)
        BY <3>3, <4>1, <4>2 DEF RequestAssumption, IInv, TypeOK, Upload, Owned, Begun, MayUse
      <4>4. PICK next \in {"write", "finish"}, p \in Places :
                /\ p = upload[s].place
                /\ req' = [req EXCEPT ![h] = [k EXCEPT !.pc = next, !.place = p]]
        BY <3>3, <4>1, <4>2, <4>3
      <4>5. /\ [k EXCEPT !.pc = next, !.place = p] \in Call
            /\ [k EXCEPT !.pc = next, !.place = p].pc = next
            /\ [k EXCEPT !.pc = next, !.place = p].place = p
            /\ [k EXCEPT !.pc = next, !.place = p].r = r
            /\ [k EXCEPT !.pc = next, !.place = p].s = s
        BY <4>2 DEF Call
      <4>6. PICK c \in Call : /\ c = [k EXCEPT !.pc = next, !.place = p]
                              /\ c.pc = next /\ c.place = p /\ c.r = r /\ c.s = s
        BY <4>5
      <4>7. req' = [req EXCEPT ![h] = c]
        BY <4>4, <4>6
      <4>8. c.s \in Sessions /\ begunBy[c.s] = c.r /\ Near(c.place, c.r) /\ c.pc # "init"
        BY <4>3, <4>4, <4>6
      <4>9. QED
        BY <4>7, <4>8
    <3>4. QED
      BY <2>3, <3>2, <3>3 DEF CheckChunk, CheckComplete, CheckSession, Finish
  <2>4. QED
    BY <2>1, <2>2, <2>3
<1>3. TypeOK'
  BY <1>1, <1>2 DEF IInv, TypeOK
<1>4. CallingOf(h)'
  BY <1>1, <1>2 DEF IInv, TypeOK, CallingOf, Near
<1>5. \A k \in Handlers \ {h} : req'[k] = req[k]
  BY <1>2 DEF IInv, TypeOK
<1>6. Calling'
  BY <1>4, <1>5, CallingStays DEF Calling
<1>7. QED
  BY <1>1, <1>3, <1>6, ArrivedStays, BegunStays DEF IInv, Owned, LinksNear, Near

\* A session is begun, or refused.
LEMMA NewSessionInv ==
    ASSUME RequestAssumption, IInv, Next, NEW h \in Handlers, NEW s \in Sessions, NewSession(h, s)
    PROVE  IInv'
<1>1. /\ req[h].pc = "init" /\ upload[s].st = "none" /\ begunBy[s] = None
      /\ UNCHANGED <<folder, request, owner, target, landed>>
  BY DEF IInv, Begun, NewSession
<1>2. CASE ~Shown(req[h].place)
  <2>1. req' = [req EXCEPT ![h] = Idle] /\ UNCHANGED <<upload, begunBy>>
    BY <1>2 DEF NewSession, Finish
  <2>2. TypeOK'
    BY <1>1, <2>1 DEF IInv, TypeOK
  <2>3. CallingOf(h)'
    BY <2>1 DEF IInv, TypeOK, CallingOf, Idle
  <2>4. \A k \in Handlers \ {h} : req'[k] = req[k]
    BY <2>1 DEF IInv, TypeOK
  <2>5. Calling'
    BY <2>3, <2>4, CallingStays DEF Calling
  <2>6. QED
    BY <1>1, <2>1, <2>2, <2>5, ArrivedStays, BegunStays DEF IInv, Owned, LinksNear, Near
<1>3. CASE Shown(req[h].place)
  <2>1. PICK k \in Call : k = req[h]
    BY <1>1 DEF IInv, TypeOK, Idle
  <2>2. PICK r \in Requests, p \in Places : r = k.r /\ p = k.place
    BY DEF Call
  <2>3. request[r].st # "none" /\ Near(p, r) /\ p \in {Root} \cup {f \in Folders : folder[f] = "live"}
    BY <1>1, <1>3, <2>1, <2>2 DEF IInv, Calling, CallingOf, Shown
  <2>4. PICK u \in Upload : u.st = "on" /\ u.place = p /\ upload' = [upload EXCEPT ![s] = u]
    BY <1>3, <2>1, <2>2 DEF NewSession, StartSession, Upload
  <2>5. PICK c \in Call : c.pc = "link" /\ c.s = s /\ c.r = r /\ req' = [req EXCEPT ![h] = c]
    <3>1. req' = [req EXCEPT ![h] = [k EXCEPT !.pc = "link", !.s = s]]
      BY <1>3, <2>1 DEF NewSession, StartSession
    <3>2. /\ [k EXCEPT !.pc = "link", !.s = s] \in Call
          /\ [k EXCEPT !.pc = "link", !.s = s].pc = "link"
          /\ [k EXCEPT !.pc = "link", !.s = s].s = s /\ [k EXCEPT !.pc = "link", !.s = s].r = r
      BY <2>2 DEF Call
    <3>3. QED
      BY <3>1, <3>2
  <2>6. begunBy' = [begunBy EXCEPT ![s] = r]
    BY <1>3, <2>1, <2>2 DEF NewSession, StartSession
  <2>7. TypeOK'
    BY <1>1, <2>3, <2>4, <2>5, <2>6 DEF IInv, TypeOK
  <2>8. Begun'
    BY <1>1, <2>3, <2>4, <2>6 DEF IInv, TypeOK, Begun, Near
  <2>9. Owned'
    BY <1>1, <2>6 DEF IInv, TypeOK, Owned
  <2>10. CallingOf(h)'
    BY <2>5, <2>6 DEF IInv, TypeOK, CallingOf
  <2>11. \A q \in Handlers \ {h} : req'[q] = req[q]
    BY <2>5 DEF IInv, TypeOK
  <2>12. Calling'
    BY <2>10, <2>11, CallingStays DEF Calling
  <2>13. QED
    BY <1>1, <2>7, <2>8, <2>9, <2>12, ArrivedStays DEF IInv, LinksNear, Near
<1>4. QED
  BY <1>2, <1>3

\* The row of request_sessions is written and deleted.
LEMMA OwnerRowInv ==
    ASSUME RequestAssumption, IInv, Next, NEW h \in Handlers, LinkSession(h) \/ UnlinkSession(h)
    PROVE  IInv'
<1>1. /\ req[h].pc \in {"link", "unlink"} /\ req' = [req EXCEPT ![h] = Idle]
      /\ UNCHANGED <<folder, request, upload, target, begunBy, landed>>
  BY DEF LinkSession, UnlinkSession, Finish
<1>2. PICK s \in Sessions, r \in Requests : s = req[h].s /\ r = req[h].r /\ begunBy[s] = r
  <2>1. req[h] \in Call /\ CallingOf(h)
    BY <1>1 DEF IInv, TypeOK, Idle, Calling
  <2>2. QED
    BY <1>1, <2>1 DEF Call, CallingOf
<1>3. owner' = [owner EXCEPT ![s] = r] \/ owner' = [owner EXCEPT ![s] = None]
  BY <1>2 DEF LinkSession, UnlinkSession
<1>4. TypeOK'
  BY <1>1, <1>3 DEF IInv, TypeOK
<1>5. Owned'
  BY <1>1, <1>2, <1>3 DEF IInv, TypeOK, Owned
<1>6. CallingOf(h)'
  BY <1>1 DEF IInv, TypeOK, CallingOf, Idle
<1>7. \A k \in Handlers \ {h} : req'[k] = req[k]
  BY <1>1 DEF IInv, TypeOK
<1>8. Calling'
  BY <1>6, <1>7, CallingStays DEF Calling
<1>9. QED
  BY <1>1, <1>4, <1>5, <1>8, ArrivedStays, BegunStays DEF IInv, LinksNear, Near

\* The bytes of an upload, and its end.
LEMMA FinishInv ==
    ASSUME RequestAssumption, IInv, Next, NEW h \in Handlers, WriteChunk(h) \/ FinishUpload(h)
    PROVE  IInv'
<1>1. req[h].pc \in {"write", "finish"} /\ UNCHANGED <<folder, request, owner, target, begunBy>>
  BY DEF WriteChunk, FinishUpload
<1>2. PICK k \in Call, s \in Sessions, r \in Requests :
          k = req[h] /\ s = k.s /\ r = k.r /\ begunBy[s] = r
  <2>1. req[h] \in Call /\ CallingOf(h)
    BY <1>1 DEF IInv, TypeOK, Idle, Calling
  <2>2. QED
    BY <1>1, <2>1 DEF Call, CallingOf
<1>3. /\ upload' \in [Sessions -> Upload]
      /\ \A q \in Sessions : upload'[q].place = upload[q].place
  BY <1>2, Written DEF IInv
<1>4. PICK c \in Call \cup {Idle} :
          req' = [req EXCEPT ![h] = c] /\ (c # Idle => c.pc = "unlink" /\ c.s = s /\ c.r = r)
  <2>1. req' = [req EXCEPT ![h] = Idle] \/ req' = [req EXCEPT ![h] = [k EXCEPT !.pc = "unlink"]]
    BY <1>2 DEF WriteChunk, FinishUpload, Finish, Goto
  <2>2. /\ [k EXCEPT !.pc = "unlink"] \in Call /\ [k EXCEPT !.pc = "unlink"].pc = "unlink"
        /\ [k EXCEPT !.pc = "unlink"].s = s /\ [k EXCEPT !.pc = "unlink"].r = r
    BY <1>2 DEF Call
  <2>3. QED
    BY <2>1, <2>2
<1>5. ASSUME NEW x \in landed'
      PROVE  x \in Arrival /\ begunBy[x.s] = x.via /\ Near(x.place, x.via)'
  <2>1. CASE x \in landed
    <3>1. /\ x.s \in Sessions /\ x.via \in Requests /\ x.place \in Places
          /\ request[x.via].st # "none"
      BY <2>1, ArrivedLinks
    <3>2. x \in Arrival /\ begunBy[x.s] = x.via /\ Near(x.place, x.via)
      BY <2>1 DEF IInv, TypeOK, Arrived
    <3>3. QED
      BY <3>1, <3>2, Lasting
  <2>2. CASE x \notin landed
    <3>1. req[h].pc = "finish" /\ x = [s |-> s, via |-> r, place |-> k.place]
      BY <1>2, <2>2 DEF WriteChunk, FinishUpload
    <3>2. k.place \in Places /\ Near(k.place, r)
      BY <1>2, <3>1 DEF IInv, Calling, CallingOf, Call
    <3>3. QED
      BY <1>1, <1>2, <3>1, <3>2 DEF Arrival, Near
  <2>3. QED
    BY <2>1, <2>2
<1>6. TypeOK'
  BY <1>1, <1>3, <1>4, <1>5 DEF IInv, TypeOK
<1>7. Begun' /\ Arrived'
  <2>1. \A q \in Sessions : upload[q].st # "none" => upload'[q].st # "none"
    BY Lasting
  <2>2. QED
    BY <1>1, <1>3, <1>5, <2>1 DEF IInv, Begun, Arrived, Near
<1>8. CallingOf(h)'
  BY <1>1, <1>2, <1>4 DEF IInv, TypeOK, CallingOf, Idle
<1>9. \A q \in Handlers \ {h} : req'[q] = req[q]
  BY <1>4 DEF IInv, TypeOK
<1>10. Calling'
  BY <1>8, <1>9, CallingStays DEF Calling
<1>11. QED
  BY <1>1, <1>6, <1>7, <1>10 DEF IInv, Owned, LinksNear, Near

LEMMA NextInv == ASSUME RequestAssumption, IInv, [Next]_vars PROVE IInv'
<1>1. CASE UNCHANGED vars
  BY <1>1 DEF vars, IInv, TypeOK, LinksNear, Begun, Owned, Calling, CallingOf, Arrived, Near
<1>2. CASE Next
  BY <1>2, OwnerInv, PurgeInv, DashboardInv, CheckInv, NewSessionInv, OwnerRowInv, FinishInv DEF Next
<1>3. QED
  BY <1>1, <1>2

-----------------------------------------------------------------------------
(* The whole.                                                              *)

RequestsVars == <<scenario, limiter, shares, vars, download, registry>>

\* A step of the whole is a step of every part, or leaves it alone.
LEMMA RequestsParts ==
    ASSUME [RequestsNext]_RequestsVars
    PROVE  /\ [Limiter!Next]_(Limiter!vars) /\ [Shares!Next]_(Shares!vars) /\ [Next]_vars
           /\ [Download!Next]_(Download!vars) /\ [Registry!Next]_(Registry!vars)
<1>1. /\ (Limiter!Next \/ UNCHANGED limiter) /\ (Shares!Next \/ UNCHANGED shares) /\ [Next]_vars
      /\ (Download!Next \/ UNCHANGED download) /\ (Registry!Next \/ UNCHANGED registry)
  BY DEF RequestsVars, RequestsNext, LimiterNext, SharesNext, InboxNext, DownloadNext, RegistryNext
<1>2. /\ UNCHANGED limiter => UNCHANGED Limiter!vars
      /\ UNCHANGED shares => UNCHANGED Shares!vars
      /\ UNCHANGED download => UNCHANGED Download!vars
      /\ UNCHANGED registry => UNCHANGED Registry!vars
  BY DEF limiter, shares, download, registry, Limiter!vars, Shares!vars, Download!vars,
         Registry!vars, Registry!settings, Registry!registry, Registry!loops
<1>3. QED
  BY <1>1, <1>2

\* The inductive invariant of the whole.
RequestsInv == LimiterInv /\ SharesInv /\ IInv /\ DownloadInv /\ RegistryInv

LEMMA RequestsInitInv == RequestsInit => RequestsInv
BY RequestsParameters, LimiterInitInv, SharesInitInv, InitInv, DownloadInitInv, RegistryInitInv
   DEF RequestsInit, RequestsInv

LEMMA RequestsNextInv == ASSUME RequestsInv, [RequestsNext]_RequestsVars PROVE RequestsInv'
<1>1. LimiterInv' /\ SharesInv'
  BY RequestsParts, RequestsParameters, LimiterNextInv, SharesNextInv DEF RequestsInv
<1>2. IInv' /\ DownloadInv'
  BY RequestsParts, RequestsParameters, NextInv, DownloadNextInv DEF RequestsInv
<1>3. RegistryInv'
  BY RequestsParts, RequestsParameters, RegistryNextInv DEF RequestsInv
<1>4. QED
  BY <1>1, <1>2, <1>3 DEF RequestsInv

\* The invariants of the parts hold in every reachable state.
THEOREM RequestsInvariance == RequestsSpec => []RequestsInv
<1>1. RequestsInv /\ [RequestsNext]_RequestsVars => RequestsInv'
  BY RequestsNextInv
<1>2. QED
  BY <1>1, RequestsInitInv, PTL DEF RequestsSpec, RequestsVars

\* The types of the part that takes steps (security.go, handlers_share.go, handlers_v32.go,
\* downloader.go, accounts.go).
THEOREM RequestsTyped == RequestsSpec => []RequestsTypes
<1>1. RequestsInv => RequestsTypes
  BY RequestsParameters, LimiterIsTyped, DownloadIsTyped
     DEF RequestsInv, RequestsTypes, SharesInv, SharesTyped, IInv, RegistryInv
<1>2. QED
  BY <1>1, RequestsInvariance, PTL

\* Between resets, one call more than the limit takes a window less the longest wait for the
\* mutex, for any number of clients and of requests that have read the clock (security.go).
THEOREM WindowsKept == RequestsSpec => []WindowBound
<1>1. RequestsInv => WindowBound
  BY RequestsParameters, LimiterBound DEF RequestsInv, WindowBound
<1>2. QED
  BY <1>1, RequestsInvariance, PTL

\* A link's file is downloaded no more often than its limit, but for the downloads that were
\* let through at once, for any number of links and of visitors; what the stream route sends is
\* no download and is not counted (handlers_share.go).
THEOREM OverrunsBounded == RequestsSpec => []OverrunBound
<1>1. RequestsInv => OverrunBound
  BY RequestsParameters, SharesBound DEF RequestsInv, OverrunBound
<1>2. QED
  BY <1>1, RequestsInvariance, PTL

\* What comes in through a link is an upload the same link has begun, and ends up in the folder
\* the link was made for, or in the root once that folder was purged, for any number of links,
\* sessions and requests at once (handlers_v32.go).
THEOREM UploadsStayConfined == RequestsSpec => []UploadsConfined
<1>1. RequestsInv => UploadsConfined
  <2>1. ASSUME IInv, NEW x \in landed
        PROVE  /\ begunBy[x.s] = x.via
               /\ x.place = target[x.via] \/ (x.place = Root /\ folder[target[x.via]] = "purged")
    BY <2>1 DEF IInv, Arrived, Near
  <2>2. QED
    BY <2>1 DEF RequestsInv, UploadsConfined, OwnUploadsOnly, LandsInTarget
<1>2. QED
  BY <1>1, RequestsInvariance, PTL

\* A download that nothing broke off in the middle has sent the bytes of the range in order, and
\* one that is done has sent the whole range, for files and ranges of any size (downloader.go).
THEOREM RangesInOrder == RequestsSpec => []SentInOrder
<1>1. RequestsInv => SentInOrder
  BY InOrder DEF RequestsInv, SentInOrder
<1>2. QED
  BY <1>1, RequestsInvariance, PTL

\* A file reference that Telegram rotated before the request fails no download (downloader.go).
THEOREM RotationsHeal == RequestsSpec => []RotationHeals
<1>1. RequestsInv => RotationHeals
  BY Heals DEF RequestsInv, RotationHeals
<1>2. QED
  BY <1>1, RequestsInvariance, PTL

\* The registry knows the one loop of an account that runs, and its cancel function is the one a
\* deletion calls, for any number of accounts, loops and requests (accounts.go).
THEOREM LoopsAreKnown == RequestsSpec => []LoopsKnown
<1>1. RequestsInv => LoopsKnown
  BY DEF RequestsInv, RegistryInv, LoopsKnown
<1>2. QED
  BY <1>1, RequestsInvariance, PTL
=============================================================================
