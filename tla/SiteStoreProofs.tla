-------------------------- MODULE SiteStoreProofs --------------------------
(***************************************************************************)
(* Proofs about SiteStore for any tree of paths, any number of requests    *)
(* and listings, and any bounds.                                           *)
(***************************************************************************)
EXTENDS SiteContract, TLAPS

----------------------------------------------------------------------------
(***************************************************************************)
(* Type correctness.  It rests on who holds the lock: a section ends with  *)
(* Tail(queue), which is a queue only if the one who ends it is its head.  *)
(***************************************************************************)

\* Inside a critical section of the site's lock.
Section == {"placed", "unlinked", "removing", "parked", "made"}

SectionHolds == \A r \in Requests : pc[r] \in Section => Holds(r)

TypeInv == TypeOK /\ SectionHolds

\* The constants the state starts from have their types.
LEMMA Constants ==
    /\ Missing \in Node /\ Folder \in Node /\ Special \in Node
    /\ \A v \in 0 .. MaxVersion : File(v) \in Node
    /\ NoRow \in Row /\ NoReq \in Req /\ NoHashing \in Hashing
    /\ NoRows \in [Paths -> Row]
<1>1. Missing \in Node /\ Folder \in Node /\ Special \in Node
  BY Bounds DEF Node, Missing, Folder, Special
<1>2. \A v \in 0 .. MaxVersion : File(v) \in Node
  BY Bounds DEF Node, File
<1>3. NoRow \in Row /\ NoReq \in Req /\ NoHashing \in Hashing
  BY Bounds DEF Row, NoRow, Req, NoReq, Hashing, NoHashing, Folders, Ops
<1>4. NoRows \in [Paths -> Row]
  BY <1>3 DEF NoRows
<1> QED BY <1>1, <1>2, <1>3, <1>4

\* The records the actions build have their types, and so have their fields.
LEMMA Records ==
    /\ \A v, w \in 0 .. MaxVersion : [st |-> v, sha |-> w] \in Row
    /\ \A o \in Ops, p \in Folders, f \in BOOLEAN, v \in 0 .. MaxVersion, s \in 0 .. MaxSites :
          [op |-> o, path |-> p, flag |-> f, ver |-> v, site |-> s] \in Req
    /\ \A o \in Ops, p \in Folders, s \in 0 .. MaxSites :
          [op |-> o, path |-> p, flag |-> FALSE, ver |-> 0, site |-> s] \in Req
    /\ \A p \in Folders, v, w \in 0 .. MaxVersion : [path |-> p, st |-> v, sha |-> w] \in Hashing
    /\ \A n \in Node : n.ver \in 0 .. MaxVersion
    /\ \A q \in Req : q.path \in Folders /\ q.ver \in 0 .. MaxVersion /\ q.site \in 0 .. MaxSites
    /\ \A h \in Hashing : h.path \in Folders /\ h.st \in 0 .. MaxVersion /\ h.sha \in 0 .. MaxVersion
BY Bounds DEF Row, Req, Hashing, Node

\* Asking for the lock keeps its holder, and a queue minus its head is a queue.
LEMMA Queue ==
    ASSUME NEW q \in Seq(Requests), NEW r \in Requests
    PROVE  /\ Append(q, r) \in Seq(Requests)
           /\ q # <<>> => Append(q, r) # <<>> /\ Head(Append(q, r)) = Head(q)
           /\ q # <<>> => Tail(q) \in Seq(Requests)
OBVIOUS

\* A request that asks for the lock takes it from nobody.
LEMMA AskKeepsHolder ==
    ASSUME queue \in Seq(Requests), pc \in [Requests -> PC], SectionHolds, NEW r \in Requests,
           queue' = Append(queue, r), pc' = [pc EXCEPT ![r] = "waiting"]
    PROVE  SectionHolds'
<1> SUFFICES ASSUME NEW q \in Requests, pc'[q] \in Section
             PROVE  queue' # <<>> /\ Head(queue') = q
  BY DEF SectionHolds, Holds
<1>1. q # r /\ pc[q] \in Section
  BY DEF Section
<1>2. queue # <<>> /\ Head(queue) = q
  BY <1>1 DEF SectionHolds, Holds
<1> QED BY <1>2, Queue

\* The first states are well typed and nobody holds the lock.
LEMMA InitType == Init => TypeInv
<1> SUFFICES ASSUME Init PROVE TypeInv
  OBVIOUS
<1> USE Constants, Bounds DEF Init
<1>1. VolumeType
  <2>1. up \in BOOLEAN /\ root \in BOOLEAN
    OBVIOUS
  <2>2. tree \in [Paths -> Node] /\ row \in 0 .. MaxSites /\ files \in [Paths -> Row]
    OBVIOUS
  <2> QED BY <2>1, <2>2 DEF VolumeType
<1>2. RequestType
  <2>1. queue \in Seq(Requests)
    OBVIOUS
  <2>2. litter \in BOOLEAN
    OBVIOUS
  <2>3. pc \in [Requests -> PC] /\ req \in [Requests -> Req] /\ staged \subseteq Requests /\ parked \subseteq Requests
    BY DEF PC
  <2> QED BY <2>1, <2>2, <2>3 DEF RequestType
<1>3. ListerType
  BY DEF ListerType, LPC, Folders
<1>4. CountType
  BY DEF CountType
<1>5. SectionHolds
  BY DEF SectionHolds, Section
<1> QED BY <1>1, <1>2, <1>3, <1>4, <1>5 DEF TypeInv, TypeOK

\* A request's step: one case per action, the section's end needing its holder.
LEMMA RequestType_Step ==
    ASSUME TypeInv, NEW r \in Requests, ClientStep(r) \/ BackendStep(r) \/ FaultStep(r)
    PROVE  TypeInv'
<1> USE Constants, Records, Queue, Bounds, PathTree
    DEF SectionHolds, Holds, Section, Loop, Go, Answer, Release, Disturb, volume, index, staging,
        counts, listing, Ops, Folders, WithFolders, PC, MidSection
<1>1. ASSUME NEW p \in Paths, NEW flag \in BOOLEAN, UploadStart(r, p, flag) PROVE TypeInv'
  BY <1>1 DEF UploadStart, TypeInv, TypeOK, VolumeType, RequestType, ListerType, CountType
<1>2. ASSUME NEW p \in Paths, NEW flag \in BOOLEAN, DeleteFolderStart(r, p, flag) PROVE TypeInv'
  <2>1. queue \in Seq(Requests) /\ Append(queue, r) \in Seq(Requests)
    BY DEF TypeInv, TypeOK, RequestType
  <2>2. VolumeType' /\ ListerType' /\ CountType'
    BY <1>2 DEF DeleteFolderStart, DeleteStart, TypeInv, TypeOK, VolumeType, ListerType, CountType
  <2>3. RequestType'
    BY <1>2, <2>1 DEF DeleteFolderStart, DeleteStart, TypeInv, TypeOK, VolumeType, RequestType, ListerType, CountType
  <2>4. SectionHolds'
    BY <1>2, <2>1, AskKeepsHolder DEF DeleteFolderStart, DeleteStart, TypeInv, TypeOK, RequestType
  <2> QED BY <2>2, <2>3, <2>4 DEF TypeInv, TypeOK
<1>3. ASSUME NEW p \in Paths, DeleteFileStart(r, p) PROVE TypeInv'
  <2>1. queue \in Seq(Requests) /\ Append(queue, r) \in Seq(Requests)
    BY DEF TypeInv, TypeOK, RequestType
  <2>2. VolumeType' /\ ListerType' /\ CountType'
    BY <1>3 DEF DeleteFileStart, DeleteStart, TypeInv, TypeOK, VolumeType, ListerType, CountType
  <2>3. req' \in [Requests -> Req]
    BY <1>3 DEF DeleteFileStart, DeleteStart, VolumeType, TypeInv, TypeOK, RequestType
  <2>4. RequestType'
    BY <1>3, <2>1, <2>3 DEF DeleteFileStart, DeleteStart, TypeInv, TypeOK, VolumeType, RequestType, ListerType, CountType
  <2>5. SectionHolds'
    BY <1>3, <2>1, AskKeepsHolder DEF DeleteFileStart, DeleteStart, TypeInv, TypeOK, RequestType
  <2> QED BY <2>2, <2>4, <2>5 DEF TypeInv, TypeOK
<1>4. ASSUME CreateSiteStart(r) PROVE TypeInv'
  <2>1. queue \in Seq(Requests) /\ Append(queue, r) \in Seq(Requests)
    BY DEF TypeInv, TypeOK, RequestType
  <2>2. VolumeType' /\ ListerType' /\ CountType'
    BY <1>4 DEF CreateSiteStart, TypeInv, TypeOK, VolumeType, ListerType, CountType
  <2>3. req' \in [Requests -> Req]
    BY <1>4 DEF CreateSiteStart, CountType, TypeInv, TypeOK, RequestType
  <2>4. RequestType'
    BY <1>4, <2>1, <2>3 DEF CreateSiteStart, TypeInv, TypeOK, VolumeType, RequestType, ListerType, CountType
  <2>5. SectionHolds'
    BY <1>4, <2>1, AskKeepsHolder DEF CreateSiteStart, TypeInv, TypeOK, RequestType
  <2> QED BY <2>2, <2>4, <2>5 DEF TypeInv, TypeOK
<1>5. ASSUME DeleteSiteStart(r) PROVE TypeInv'
  <2>1. queue \in Seq(Requests) /\ Append(queue, r) \in Seq(Requests)
    BY DEF TypeInv, TypeOK, RequestType
  <2>2. VolumeType' /\ ListerType' /\ CountType'
    BY <1>5 DEF DeleteSiteStart, DeleteStart, TypeInv, TypeOK, VolumeType, ListerType, CountType
  <2>3. req' \in [Requests -> Req]
    BY <1>5 DEF DeleteSiteStart, DeleteStart, VolumeType, TypeInv, TypeOK, RequestType
  <2>4. RequestType'
    BY <1>5, <2>1, <2>3 DEF DeleteSiteStart, DeleteStart, TypeInv, TypeOK, VolumeType, RequestType, ListerType, CountType
  <2>5. SectionHolds'
    BY <1>5, <2>1, AskKeepsHolder DEF DeleteSiteStart, DeleteStart, TypeInv, TypeOK, RequestType
  <2> QED BY <2>2, <2>4, <2>5 DEF TypeInv, TypeOK
<1>6. ASSUME UploadReceived(r) PROVE TypeInv'
  <2>1. queue \in Seq(Requests) /\ Append(queue, r) \in Seq(Requests)
    BY DEF TypeInv, TypeOK, RequestType
  <2>2. VolumeType' /\ ListerType' /\ CountType'
    BY <1>6 DEF UploadReceived, TypeInv, TypeOK, VolumeType, ListerType, CountType
  <2>3. RequestType'
    BY <1>6, <2>1 DEF UploadReceived, TypeInv, TypeOK, VolumeType, RequestType, ListerType, CountType
  <2>4. SectionHolds'
    BY <1>6, <2>1, AskKeepsHolder DEF UploadReceived, TypeInv, TypeOK, RequestType
  <2> QED BY <2>2, <2>3, <2>4 DEF TypeInv, TypeOK
<1>7. ASSUME UploadAborted(r) PROVE TypeInv'
  BY <1>7 DEF UploadAborted, TypeInv, TypeOK, VolumeType, RequestType, ListerType, CountType
<1>8. ASSUME UploadRefused(r) PROVE TypeInv'
  BY <1>8 DEF UploadRefused, Refuse, TypeInv, TypeOK, VolumeType, RequestType, ListerType, CountType
<1>9. ASSUME UploadPlace(r) PROVE TypeInv'
  <2>1. VolumeType'
    BY <1>9 DEF UploadPlace, TypeInv, TypeOK, VolumeType, RequestType
  <2>2. RequestType'
    BY <1>9 DEF UploadPlace, TypeInv, TypeOK, RequestType
  <2>3. ListerType' /\ CountType'
    BY <1>9 DEF UploadPlace, TypeInv, TypeOK, ListerType, CountType
  <2>4. SectionHolds'
    BY <1>9 DEF UploadPlace, TypeInv, TypeOK, RequestType
  <2> QED BY <2>1, <2>2, <2>3, <2>4 DEF TypeInv, TypeOK
<1>10. ASSUME UploadIndex(r) PROVE TypeInv'
  <2>1. queue # <<>> /\ Tail(queue) \in Seq(Requests)
    BY <1>10 DEF UploadIndex, TypeInv, TypeOK, VolumeType, RequestType, ListerType, CountType
  <2>2. VolumeType' /\ ListerType' /\ CountType'
    BY <1>10 DEF UploadIndex, TypeInv, TypeOK, VolumeType, RequestType, ListerType, CountType
  <2>3. RequestType'
    BY <1>10, <2>1 DEF UploadIndex, TypeInv, TypeOK, VolumeType, RequestType, ListerType, CountType
  <2>4. SectionHolds'
    BY <1>10, <2>1 DEF UploadIndex, TypeInv, TypeOK, VolumeType, RequestType, ListerType, CountType
  <2> QED BY <2>2, <2>3, <2>4 DEF TypeInv, TypeOK
<1>11. ASSUME DeleteFileRefused(r) PROVE TypeInv'
  BY <1>11 DEF DeleteFileRefused, Refuse, TypeInv, TypeOK, VolumeType, RequestType, ListerType, CountType
<1>12. ASSUME DeleteFileUnlink(r) PROVE TypeInv'
  <2>1. VolumeType'
    BY <1>12 DEF DeleteFileUnlink, TypeInv, TypeOK, VolumeType, RequestType
  <2>2. RequestType'
    BY <1>12 DEF DeleteFileUnlink, TypeInv, TypeOK, RequestType
  <2>3. ListerType' /\ CountType'
    BY <1>12 DEF DeleteFileUnlink, TypeInv, TypeOK, ListerType, CountType
  <2>4. SectionHolds'
    BY <1>12 DEF DeleteFileUnlink, TypeInv, TypeOK, RequestType
  <2> QED BY <2>1, <2>2, <2>3, <2>4 DEF TypeInv, TypeOK
<1>13. ASSUME DeleteFileRow(r) PROVE TypeInv'
  <2>1. queue # <<>> /\ Tail(queue) \in Seq(Requests)
    BY <1>13 DEF DeleteFileRow, TypeInv, TypeOK, VolumeType, RequestType, ListerType, CountType
  <2>2. VolumeType' /\ ListerType' /\ CountType'
    BY <1>13 DEF DeleteFileRow, TypeInv, TypeOK, VolumeType, RequestType, ListerType, CountType
  <2>3. RequestType'
    BY <1>13, <2>1 DEF DeleteFileRow, TypeInv, TypeOK, VolumeType, RequestType, ListerType, CountType
  <2>4. SectionHolds'
    BY <1>13, <2>1 DEF DeleteFileRow, TypeInv, TypeOK, VolumeType, RequestType, ListerType, CountType
  <2> QED BY <2>2, <2>3, <2>4 DEF TypeInv, TypeOK
<1>14. ASSUME DeleteFolderRefused(r) PROVE TypeInv'
  BY <1>14 DEF DeleteFolderRefused, Refuse, TypeInv, TypeOK, VolumeType, RequestType, ListerType, CountType
<1>15. ASSUME DeleteFolderBegin(r) PROVE TypeInv'
  BY <1>15 DEF DeleteFolderBegin, TypeInv, TypeOK, VolumeType, RequestType, ListerType, CountType
<1>16. ASSUME NEW p \in Paths, DeleteFolderRemove(r, p) PROVE TypeInv'
  BY <1>16 DEF DeleteFolderRemove, TypeInv, TypeOK, VolumeType, RequestType, ListerType, CountType
<1>17. ASSUME DeleteFolderRows(r) PROVE TypeInv'
  <2>1. queue # <<>> /\ Tail(queue) \in Seq(Requests)
    BY <1>17 DEF DeleteFolderRows, TypeInv, TypeOK, VolumeType, RequestType, ListerType, CountType
  <2>2. VolumeType' /\ ListerType' /\ CountType'
    BY <1>17 DEF DeleteFolderRows, TypeInv, TypeOK, VolumeType, RequestType, ListerType, CountType
  <2>3. RequestType'
    BY <1>17, <2>1 DEF DeleteFolderRows, TypeInv, TypeOK, VolumeType, RequestType, ListerType, CountType
  <2>4. SectionHolds'
    BY <1>17, <2>1 DEF DeleteFolderRows, TypeInv, TypeOK, VolumeType, RequestType, ListerType, CountType
  <2> QED BY <2>2, <2>3, <2>4 DEF TypeInv, TypeOK
<1>18. ASSUME CreateSiteRefused(r) PROVE TypeInv'
  BY <1>18 DEF CreateSiteRefused, Refuse, TypeInv, TypeOK, VolumeType, RequestType, ListerType, CountType
<1>19. ASSUME CreateSiteMkdir(r) PROVE TypeInv'
  BY <1>19 DEF CreateSiteMkdir, TypeInv, TypeOK, VolumeType, RequestType, ListerType, CountType
<1>20. ASSUME CreateSiteInsert(r) PROVE TypeInv'
  <2>1. queue # <<>> /\ Tail(queue) \in Seq(Requests)
    BY <1>20 DEF CreateSiteInsert, TypeInv, TypeOK, VolumeType, RequestType, ListerType, CountType
  <2>2. VolumeType' /\ ListerType' /\ CountType'
    BY <1>20 DEF CreateSiteInsert, TypeInv, TypeOK, VolumeType, RequestType, ListerType, CountType
  <2>3. RequestType'
    BY <1>20, <2>1 DEF CreateSiteInsert, TypeInv, TypeOK, VolumeType, RequestType, ListerType, CountType
  <2>4. SectionHolds'
    BY <1>20, <2>1 DEF CreateSiteInsert, TypeInv, TypeOK, VolumeType, RequestType, ListerType, CountType
  <2> QED BY <2>2, <2>3, <2>4 DEF TypeInv, TypeOK
<1>21. ASSUME DeleteSitePark(r) PROVE TypeInv'
  <2>1. VolumeType'
    BY <1>21 DEF DeleteSitePark, TypeInv, TypeOK, VolumeType, RequestType
  <2>2. RequestType'
    BY <1>21 DEF DeleteSitePark, TypeInv, TypeOK, RequestType
  <2>3. ListerType' /\ CountType'
    BY <1>21 DEF DeleteSitePark, TypeInv, TypeOK, ListerType, CountType
  <2>4. SectionHolds'
    BY <1>21 DEF DeleteSitePark, TypeInv, TypeOK, RequestType
  <2> QED BY <2>1, <2>2, <2>3, <2>4 DEF TypeInv, TypeOK
<1>22. ASSUME DeleteSiteRow(r) PROVE TypeInv'
  <2>1. queue # <<>> /\ Tail(queue) \in Seq(Requests) /\ Holds(r)
    BY <1>22 DEF DeleteSiteRow, TypeInv, TypeOK, VolumeType, RequestType, ListerType, CountType
  <2>2. VolumeType' /\ ListerType' /\ CountType'
    BY <1>22 DEF DeleteSiteRow, TypeInv, TypeOK, VolumeType, ListerType, CountType
  <2>3. PICK to \in {"purging", "idle"} : pc' = [pc EXCEPT ![r] = to]
    BY <1>22 DEF DeleteSiteRow
  <2>4. req' = req \/ req' = [req EXCEPT ![r] = NoReq]
    BY <1>22 DEF DeleteSiteRow
  <2>5. queue' = Tail(queue) /\ UNCHANGED staging
    BY <1>22 DEF DeleteSiteRow
  <2>6. req' \in [Requests -> Req] /\ pc' \in [Requests -> PC]
    BY <2>3, <2>4 DEF TypeInv, TypeOK, RequestType
  <2>7. RequestType'
    BY <2>1, <2>5, <2>6 DEF TypeInv, TypeOK, RequestType
  <2>8. SectionHolds'
    BY <1>22, <2>1, <2>3, <2>5 DEF DeleteSiteRow, TypeInv, TypeOK, RequestType
  <2> QED BY <2>2, <2>7, <2>8 DEF TypeInv, TypeOK
<1>23. ASSUME DeleteSitePurge(r) PROVE TypeInv'
  BY <1>23 DEF DeleteSitePurge, TypeInv, TypeOK, VolumeType, RequestType, ListerType, CountType
<1>24. ASSUME UploadPlaceFails(r) PROVE TypeInv'
  <2>1. queue # <<>> /\ Tail(queue) \in Seq(Requests)
    BY <1>24 DEF UploadPlaceFails, TypeInv, TypeOK, RequestType
  <2>2. root' \in BOOLEAN
    BY <1>24 DEF UploadPlaceFails, TypeInv, TypeOK, VolumeType
  <2>3. VolumeType'
    BY <1>24, <2>2 DEF UploadPlaceFails, TypeInv, TypeOK, VolumeType
  <2>4. ListerType' /\ CountType'
    BY <1>24 DEF UploadPlaceFails, Fault, TypeInv, TypeOK, ListerType, CountType
  <2>5. RequestType'
    BY <1>24, <2>1 DEF UploadPlaceFails, TypeInv, TypeOK, RequestType
  <2>6. SectionHolds'
    BY <1>24, <2>1 DEF UploadPlaceFails, TypeInv, TypeOK, RequestType
  <2> QED BY <2>3, <2>4, <2>5, <2>6 DEF TypeInv, TypeOK
<1>25. ASSUME SectionFails(r) PROVE TypeInv'
  <2>1. queue # <<>> /\ Tail(queue) \in Seq(Requests)
    BY <1>25 DEF SectionFails, Fault, TypeInv, TypeOK, VolumeType, RequestType, ListerType, CountType
  <2>2. VolumeType' /\ ListerType' /\ CountType'
    BY <1>25 DEF SectionFails, Fault, TypeInv, TypeOK, VolumeType, RequestType, ListerType, CountType
  <2>3. RequestType'
    BY <1>25, <2>1 DEF SectionFails, Fault, TypeInv, TypeOK, VolumeType, RequestType, ListerType, CountType
  <2>4. SectionHolds'
    BY <1>25, <2>1 DEF SectionFails, Fault, TypeInv, TypeOK, VolumeType, RequestType, ListerType, CountType
  <2> QED BY <2>2, <2>3, <2>4 DEF TypeInv, TypeOK
<1>26. ASSUME CreateSiteFails(r) PROVE TypeInv'
  <2>1. queue # <<>> /\ Tail(queue) \in Seq(Requests)
    BY <1>26 DEF CreateSiteFails, Fault, TypeInv, TypeOK, VolumeType, RequestType, ListerType, CountType
  <2>2. root' \in BOOLEAN
    BY <1>26 DEF CreateSiteFails
  <2>3. VolumeType'
    BY <1>26, <2>2 DEF CreateSiteFails, TypeInv, TypeOK, VolumeType
  <2>4. ListerType' /\ CountType'
    BY <1>26 DEF CreateSiteFails, Fault, TypeInv, TypeOK, ListerType, CountType
  <2>5. RequestType'
    BY <1>26, <2>1 DEF CreateSiteFails, Fault, TypeInv, TypeOK, VolumeType, RequestType, ListerType, CountType
  <2>6. SectionHolds'
    BY <1>26, <2>1 DEF CreateSiteFails, Fault, TypeInv, TypeOK, VolumeType, RequestType, ListerType, CountType
  <2> QED BY <2>3, <2>4, <2>5, <2>6 DEF TypeInv, TypeOK
<1> QED
  BY <1>1, <1>2, <1>3, <1>4, <1>5, <1>6, <1>7, <1>8, <1>9, <1>10, <1>11, <1>12, <1>13, <1>14, <1>15, <1>16, <1>17, <1>18, <1>19, <1>20, <1>21, <1>22, <1>23, <1>24, <1>25, <1>26
  DEF ClientStep, BackendStep, FaultStep

\* A listing's step.
LEMMA ListerType_Step ==
    ASSUME TypeInv, NEW l \in Listers, (\E f \in Folders : ListStart(l, f)) \/ ListStep(l)
    PROVE  TypeInv'
<1> USE Constants, Records, Bounds, PathTree
    DEF SectionHolds, Holds, volume, index, staging, counts, listing, Folders, LGo, LPC
<1>1. ASSUME NEW f \in Folders, ListStart(l, f) PROVE TypeInv'
  BY <1>1 DEF ListStart, ListerReads, TypeInv, TypeOK, VolumeType, RequestType, ListerType, CountType
<1>2. ASSUME ListNoFolder(l) PROVE TypeInv'
  BY <1>2 DEF ListNoFolder, LEnd, ListerReads, TypeInv, TypeOK, VolumeType, RequestType, ListerType, CountType
<1>3. ASSUME ListFound(l) PROVE TypeInv'
  BY <1>3 DEF ListFound, ListerReads, TypeInv, TypeOK, VolumeType, RequestType, ListerType, CountType
<1>4. ASSUME ListIndexed(l) PROVE TypeInv'
  BY <1>4 DEF ListIndexed, TypeInv, TypeOK, VolumeType, RequestType, ListerType, CountType
<1>5. ASSUME ListOpen(l) PROVE TypeInv'
  BY <1>5 DEF ListOpen, ListerReads, InFolder, TypeInv, TypeOK, VolumeType, RequestType, ListerType, CountType
<1>6. ASSUME ListOpenFails(l) PROVE TypeInv'
  BY <1>6 DEF ListOpenFails, LEnd, ListerReads, TypeInv, TypeOK, VolumeType, RequestType, ListerType, CountType
<1>7. ASSUME NEW p \in Paths, ListSkip(l, p) PROVE TypeInv'
  BY <1>7 DEF ListSkip, ListerReads, TypeInv, TypeOK, VolumeType, RequestType, ListerType, CountType
<1>8. ASSUME NEW p \in Paths, ListStat(l, p) PROVE TypeInv'
  <2>1. CASE Trusted(indexed[l][p], tree[p].ver)
    BY <1>8, <2>1 DEF ListStat, ListerReads, TypeInv, TypeOK, VolumeType, RequestType, ListerType, CountType
  <2>2. CASE ~Trusted(indexed[l][p], tree[p].ver)
    <3>1. tree[p].ver \in 0 .. MaxVersion
      BY DEF TypeInv, TypeOK, VolumeType
    <3>2. [path |-> p, st |-> tree[p].ver, sha |-> 0] \in Hashing
      BY <3>1
    <3>3. /\ hashing' = [hashing EXCEPT ![l] = [path |-> p, st |-> tree[p].ver, sha |-> 0]]
          /\ lpc' = [lpc EXCEPT ![l] = "hash"]
      BY <1>8, <2>2 DEF ListStat
    <3>4. hashing' \in [Listers -> Hashing] /\ lpc' \in [Listers -> LPC]
      BY <3>2, <3>3 DEF TypeInv, TypeOK, ListerType
    <3>5. ListerType'
      <4>1. /\ todo' = [todo EXCEPT ![l] = @ \ {p}] /\ seen' = [seen EXCEPT ![l] = @ \cup {p}]
            /\ UNCHANGED <<folder, indexed>> /\ quiet' \subseteq quiet
        BY <1>8, <2>2 DEF ListStat, ListerReads
      <4>2. todo' \in [Listers -> SUBSET Paths] /\ seen' \in [Listers -> SUBSET Paths]
        BY <4>1 DEF TypeInv, TypeOK, ListerType
      <4> QED BY <3>4, <4>1, <4>2 DEF TypeInv, TypeOK, ListerType
    <3>6. VolumeType' /\ RequestType' /\ CountType' /\ SectionHolds'
      BY <1>8 DEF ListStat, ListerReads, TypeInv, TypeOK, VolumeType, RequestType, CountType
    <3> QED BY <3>6, <3>5 DEF TypeInv, TypeOK
  <2> QED BY <2>1, <2>2
<1>9. ASSUME NEW p \in Paths, ListDrop(l, p) PROVE TypeInv'
  BY <1>9 DEF ListDrop, ListerWrites, TypeInv, TypeOK, VolumeType, RequestType, ListerType, CountType
<1>10. ASSUME ListHash(l) PROVE TypeInv'
  <2>1. hashing[l] \in Hashing
    BY DEF TypeInv, TypeOK, ListerType
  <2>2. hashing[l].path \in Paths
    BY <1>10, <2>1 DEF ListHash, KindOf
  <2>3. tree[hashing[l].path].ver \in 0 .. MaxVersion
    BY <2>2 DEF TypeInv, TypeOK, VolumeType
  <2> DEFINE h == [path |-> hashing[l].path, st |-> hashing[l].st, sha |-> tree[hashing[l].path].ver]
  <2>4. h \in Hashing
    BY <2>1, <2>3
  <2>5. hashing' \in [Listers -> Hashing] /\ lpc' \in [Listers -> LPC]
    <3>1. hashing' = [hashing EXCEPT ![l] = h] /\ lpc' = [lpc EXCEPT ![l] = "upsert"]
      BY <1>10 DEF ListHash
    <3> HIDE DEF h
    <3> QED BY <2>4, <3>1 DEF TypeInv, TypeOK, ListerType
  <2>6. ListerType'
    BY <1>10, <2>5 DEF ListHash, TypeInv, TypeOK, ListerType, ListerReads
  <2>7. VolumeType' /\ RequestType' /\ CountType' /\ SectionHolds'
    BY <1>10 DEF ListHash, ListerReads, TypeInv, TypeOK, VolumeType, RequestType, CountType
  <2> QED BY <2>6, <2>7 DEF TypeInv, TypeOK
<1>11. ASSUME ListHashFails(l) PROVE TypeInv'
  BY <1>11 DEF ListHashFails, LEnd, ListerReads, TypeInv, TypeOK, VolumeType, RequestType, ListerType, CountType
<1>12. ASSUME ListUpsert(l) PROVE TypeInv'
  BY <1>12 DEF ListUpsert, ListerWrites, TypeInv, TypeOK, VolumeType, RequestType, ListerType, CountType
<1>13. ASSUME ListUpsertFails(l) PROVE TypeInv'
  BY <1>13 DEF ListUpsertFails, LEnd, ListerReads, TypeInv, TypeOK, VolumeType, RequestType, ListerType, CountType
<1>14. ASSUME ListScanned(l) PROVE TypeInv'
  BY <1>14 DEF ListScanned, ListerReads, TypeInv, TypeOK, VolumeType, RequestType, ListerType, CountType
<1>15. ASSUME ListDone(l) PROVE TypeInv'
  BY <1>15 DEF ListDone, ListerReads, TypeInv, TypeOK, VolumeType, RequestType, ListerType, CountType
<1>16. ASSUME ListAnswer(l) PROVE TypeInv'
  BY <1>16 DEF ListAnswer, LEnd, ListerReads, TypeInv, TypeOK, VolumeType, RequestType, ListerType, CountType
<1> QED
  BY <1>1, <1>2, <1>4, <1>5, <1>6, <1>7, <1>8, <1>9, <1>10, <1>11, <1>12, <1>13, <1>14, <1>15, <1>16, <1>3
  DEF ListStep

\* A crash, a start, a restore.
LEMMA OperatorType_Step ==
    ASSUME TypeInv, OperatorStep
    PROVE  TypeInv'
<1> USE Constants, Records, Bounds, PathTree
    DEF SectionHolds, Holds, volume, index, staging, counts, listing, Folders
<1>1. ASSUME Crash PROVE TypeInv'
  <2>1. VolumeType'
    BY <1>1 DEF Crash, TypeInv, TypeOK, VolumeType
  <2>2. CountType'
    BY <1>1 DEF Crash, Fault, TypeInv, TypeOK, CountType
  <2>3. RequestType' /\ SectionHolds'
    BY <1>1 DEF Crash, TypeInv, TypeOK, RequestType, PC, Section
  <2>4. ListerType'
    BY <1>1 DEF Crash, TypeInv, TypeOK, ListerType, LPC
  <2> QED BY <2>1, <2>3, <2>4, <2>2 DEF TypeInv, TypeOK
<1>2. ASSUME Restart PROVE TypeInv'
  BY <1>2 DEF Restart, TypeInv, TypeOK, VolumeType, RequestType, ListerType, CountType
<1>3. ASSUME NEW p \in Paths, RestoreWithout(p) PROVE TypeInv'
  BY <1>3 DEF RestoreWithout, TypeInv, TypeOK, VolumeType, RequestType, ListerType, CountType
<1>4. ASSUME NEW p \in Paths, RestoreWith(p) PROVE TypeInv'
  BY <1>4 DEF RestoreWith, TypeInv, TypeOK, VolumeType, RequestType, ListerType, CountType
<1> QED BY <1>1, <1>2, <1>3, <1>4 DEF OperatorStep

\* Every step keeps the types.
LEMMA NextType == TypeInv /\ [Next]_vars => TypeInv'
<1> SUFFICES ASSUME TypeInv, [Next]_vars PROVE TypeInv'
  OBVIOUS
<1>1. CASE UNCHANGED vars
  BY <1>1 DEF vars, TypeInv, TypeOK, VolumeType, RequestType, ListerType, CountType, SectionHolds, Holds
<1>2. CASE Next
  BY <1>2, RequestType_Step, ListerType_Step, OperatorType_Step DEF Next
<1> QED BY <1>1, <1>2

\* The backend's store keeps its types, and a request inside a critical
\* section holds the site's lock, whatever requests, listings, faults and
\* restores come (SiteStore!TypeOK, SiteLocks.hold).
THEOREM TypeCorrect == Spec => []TypeOK
<1>1. Spec => []TypeInv
  BY InitType, NextType, PTL DEF Spec
<1>2. TypeInv => TypeOK
  BY DEF TypeInv
<1> QED BY <1>1, <1>2, PTL

----------------------------------------------------------------------------
(***************************************************************************)
(* Trusted rows are true.  The property is not inductive: a listing about  *)
(* to write a row may carry the digest of a version placed after its stat, *)
(* and that row is harmless only because the version it was stat'ed at can *)
(* never be placed again.  So the strengthening says which versions are    *)
(* still unseen, that a body not yet placed has an unseen version of its   *)
(* own, and that a hash about to be written is right for the file that is  *)
(* there if the stat is.                                                   *)
(***************************************************************************)

\* No file, row or listing has the size and mtime of version v.
Unseen(v) ==
    /\ \A p \in Paths : tree[p].ver # v /\ files[p].st # v
    /\ \A l \in Listers : hashing[l].st # v /\ \A p \in Paths : indexed[l][p].st # v

IsUpload(r) == req[r].op = "upload"

FutureUnseen == \A v \in nextVer .. MaxVersion : Unseen(v)

BodiesUnseen ==
    \A r \in Requests :
        /\ pc[r] = "placed" => IsUpload(r)
        /\ IsUpload(r) => req[r].ver \in 1 .. nextVer - 1
        /\ IsUpload(r) /\ pc[r] # "placed" => Unseen(req[r].ver)

BodiesDiffer ==
    \A r, q \in Requests : IsUpload(r) /\ IsUpload(q) /\ r # q => req[r].ver # req[q].ver

HashedIsTrue ==
    \A l \in Listers, p \in Paths :
        lpc[l] = "upsert" /\ hashing[l].path = p /\ tree[p].kind = "file" /\ hashing[l].st = tree[p].ver
            => hashing[l].sha = tree[p].ver

TrustInv == TrustedRowsAreTrue /\ HashedIsTrue /\ FutureUnseen /\ BodiesUnseen /\ BodiesDiffer

\* A step that brings no version into play: files only go, rows only go or
\* are copied into a snapshot, uploads only end.
Forgets ==
    /\ \A p \in Paths : tree'[p] = tree[p] \/ tree'[p] \in {Missing, Folder, Special}
    /\ \A p \in Paths : files'[p] = files[p] \/ files'[p] = NoRow
    /\ \A l \in Listers, p \in Paths :
          indexed'[l][p] = indexed[l][p] \/ indexed'[l][p] = files[p] \/ indexed'[l][p] = NoRow
    /\ \A l \in Listers :
          \/ hashing'[l] = hashing[l] /\ (lpc'[l] = "upsert" => lpc[l] = "upsert")
          \/ hashing'[l] = NoHashing /\ lpc'[l] # "upsert"
    /\ \A r \in Requests :
          \/ req'[r] = req[r] /\ (pc'[r] = "placed" <=> pc[r] = "placed")
          \/ req'[r].op # "upload" /\ pc'[r] # "placed"
    /\ nextVer' = nextVer

\* Such a step keeps the invariant.
LEMMA ForgetsKeeps ==
    ASSUME TypeOK, TrustInv, Forgets
    PROVE  TrustInv'
<1> USE DEF TrustInv, Forgets
<1>1. \A n \in {Missing, Folder, Special} : n.kind # "file" /\ n.ver = 0
  BY DEF Missing, Folder, Special
<1>2. NoRow.st = 0 /\ NoRow.sha = 0 /\ NoHashing.st = 0
  BY DEF NoRow, NoHashing
<1>3. ASSUME NEW v \in 1 .. MaxVersion, Unseen(v) PROVE Unseen(v)'
  BY <1>1, <1>2, <1>3 DEF Unseen
<1>4. FutureUnseen'
  <2>1. \A v \in nextVer .. MaxVersion : v \in 1 .. MaxVersion
    BY Bounds DEF TypeOK, CountType
  <2> QED BY <1>3, <2>1 DEF FutureUnseen
<1>5. BodiesUnseen'
  <2>1. \A v \in 1 .. nextVer - 1 : v \in 1 .. MaxVersion
    BY Bounds DEF TypeOK, CountType
  <2> QED BY <1>3, <2>1 DEF BodiesUnseen, IsUpload
<1>6. BodiesDiffer'
  BY DEF BodiesDiffer, IsUpload
<1>7. HashedIsTrue'
  BY <1>1 DEF HashedIsTrue
<1>8. TrustedRowsAreTrue'
  <2> SUFFICES ASSUME NEW p \in Paths, tree'[p].kind = "file"
               PROVE  /\ files'[p].st = tree'[p].ver => files'[p].sha = tree'[p].ver
                      /\ \A l \in Listers : indexed'[l][p].st = tree'[p].ver => indexed'[l][p].sha = tree'[p].ver
    BY DEF TrustedRowsAreTrue, Trusted
  <2>1. tree'[p] = tree[p]
    BY <1>1
  <2>2. files[p].st = tree[p].ver => files[p].sha = tree[p].ver
    BY <2>1 DEF TrustedRowsAreTrue, Trusted
  <2>3. \A l \in Listers : indexed[l][p].st = tree[p].ver => indexed[l][p].sha = tree[p].ver
    BY <2>1 DEF TrustedRowsAreTrue, Trusted
  <2> QED BY <1>2, <2>1, <2>2, <2>3
<1> QED BY <1>4, <1>5, <1>6, <1>7, <1>8

\* The requests' steps that place no file and write no row of one.
LEMMA RequestForgets ==
    ASSUME TypeOK, NEW r \in Requests,
           ClientStep(r) \/ BackendStep(r) \/ FaultStep(r),
           ~ \E p \in Paths, flag \in BOOLEAN : UploadStart(r, p, flag),
           ~ UploadPlace(r), ~ UploadIndex(r)
    PROVE  Forgets
<1> USE DEF Forgets, Go, Answer, Release, Disturb, volume, index, counts, listing, WithFolders,
            TypeOK, VolumeType, RequestType, ListerType
<1>0. NoReq.op # "upload"
  BY DEF NoReq
<1>1. ASSUME NEW p \in Paths, NEW flag \in BOOLEAN, DeleteFolderStart(r, p, flag) PROVE Forgets
  BY <1>0, <1>1 DEF DeleteFolderStart, DeleteStart
<1>2. ASSUME NEW p \in Paths, DeleteFileStart(r, p) PROVE Forgets
  BY <1>0, <1>2 DEF DeleteFileStart, DeleteStart
<1>3. ASSUME CreateSiteStart(r) PROVE Forgets
  BY <1>0, <1>3 DEF CreateSiteStart
<1>4. ASSUME DeleteSiteStart(r) PROVE Forgets
  BY <1>0, <1>4 DEF DeleteSiteStart, DeleteStart
<1>5. ASSUME UploadReceived(r) PROVE Forgets
  BY <1>0, <1>5 DEF UploadReceived
<1>6. ASSUME UploadAborted(r) PROVE Forgets
  BY <1>0, <1>6 DEF UploadAborted
<1>7. ASSUME UploadRefused(r) PROVE Forgets
  BY <1>0, <1>7 DEF UploadRefused, Refuse
<1>8. ASSUME DeleteFileRefused(r) PROVE Forgets
  BY <1>0, <1>8 DEF DeleteFileRefused, Refuse
<1>9. ASSUME DeleteFileUnlink(r) PROVE Forgets
  BY <1>0, <1>9 DEF DeleteFileUnlink
<1>10. ASSUME DeleteFileRow(r) PROVE Forgets
  BY <1>0, <1>10 DEF DeleteFileRow
<1>11. ASSUME DeleteFolderRefused(r) PROVE Forgets
  BY <1>0, <1>11 DEF DeleteFolderRefused, Refuse
<1>12. ASSUME DeleteFolderBegin(r) PROVE Forgets
  BY <1>0, <1>12 DEF DeleteFolderBegin
<1>13. ASSUME NEW p \in Paths, DeleteFolderRemove(r, p) PROVE Forgets
  BY <1>0, <1>13 DEF DeleteFolderRemove
<1>14. ASSUME DeleteFolderRows(r) PROVE Forgets
  BY <1>0, <1>14 DEF DeleteFolderRows
<1>15. ASSUME CreateSiteRefused(r) PROVE Forgets
  BY <1>0, <1>15 DEF CreateSiteRefused, Refuse
<1>16. ASSUME CreateSiteMkdir(r) PROVE Forgets
  BY <1>0, <1>16 DEF CreateSiteMkdir
<1>17. ASSUME CreateSiteInsert(r) PROVE Forgets
  BY <1>0, <1>17 DEF CreateSiteInsert
<1>18. ASSUME DeleteSitePark(r) PROVE Forgets
  BY <1>0, <1>18 DEF DeleteSitePark
<1>19. ASSUME DeleteSiteRow(r) PROVE Forgets
  BY <1>0, <1>19 DEF DeleteSiteRow, NoRows
<1>20. ASSUME DeleteSitePurge(r) PROVE Forgets
  BY <1>0, <1>20 DEF DeleteSitePurge
<1>21. ASSUME UploadPlaceFails(r) PROVE Forgets
  BY <1>0, <1>21 DEF UploadPlaceFails, Fault
<1>22. ASSUME SectionFails(r) PROVE Forgets
  BY <1>0, <1>22 DEF SectionFails, Fault
<1>23. ASSUME CreateSiteFails(r) PROVE Forgets
  BY <1>0, <1>23 DEF CreateSiteFails, Fault
<1> QED
  BY <1>1, <1>2, <1>3, <1>4, <1>5, <1>6, <1>7, <1>8, <1>9, <1>10, <1>11, <1>12, <1>13, <1>14, <1>15, <1>16, <1>17, <1>18, <1>19, <1>20, <1>21, <1>22, <1>23
  DEF ClientStep, BackendStep, FaultStep

\* A listing's steps but its stat, its hash and its upsert.
LEMMA ListerForgets ==
    ASSUME TypeOK, NEW l \in Listers,
           (\E f \in Folders : ListStart(l, f)) \/ ListStep(l),
           ~ \E p \in Paths : ListStat(l, p),
           ~ ListHash(l), ~ ListUpsert(l)
    PROVE  Forgets
<1> USE DEF Forgets, LGo, volume, index, counts, NoRows, TypeOK, VolumeType, RequestType, ListerType
<1>1. ASSUME NEW f \in Folders, ListStart(l, f) PROVE Forgets
  BY <1>1 DEF ListStart, ListerReads
<1>2. ASSUME ListNoFolder(l) PROVE Forgets
  BY <1>2 DEF ListNoFolder, LEnd, ListerReads
<1>3. ASSUME ListFound(l) PROVE Forgets
  BY <1>3 DEF ListFound, ListerReads
<1>4. ASSUME ListIndexed(l) PROVE Forgets
  BY <1>4 DEF ListIndexed
<1>5. ASSUME ListOpen(l) PROVE Forgets
  BY <1>5 DEF ListOpen, ListerReads
<1>6. ASSUME ListOpenFails(l) PROVE Forgets
  BY <1>6 DEF ListOpenFails, LEnd, ListerReads
<1>7. ASSUME NEW p \in Paths, ListSkip(l, p) PROVE Forgets
  BY <1>7 DEF ListSkip, ListerReads
<1>8. ASSUME NEW p \in Paths, ListDrop(l, p) PROVE Forgets
  BY <1>8 DEF ListDrop, ListerWrites
<1>9. ASSUME ListHashFails(l) PROVE Forgets
  BY <1>9 DEF ListHashFails, LEnd, ListerReads
<1>10. ASSUME ListUpsertFails(l) PROVE Forgets
  BY <1>10 DEF ListUpsertFails, LEnd, ListerReads
<1>11. ASSUME ListScanned(l) PROVE Forgets
  BY <1>11 DEF ListScanned, ListerReads
<1>12. ASSUME ListDone(l) PROVE Forgets
  BY <1>12 DEF ListDone, ListerReads
<1>13. ASSUME ListAnswer(l) PROVE Forgets
  BY <1>13 DEF ListAnswer, LEnd, ListerReads
<1> QED
  BY <1>1, <1>2, <1>4, <1>5, <1>6, <1>7, <1>8, <1>9, <1>10, <1>11, <1>12, <1>13, <1>3
  DEF ListStep

\* The steps that bring a version into play keep the invariant: a body gets
\* a version of its own, is placed unseen, and is indexed as it is.
LEMMA UploadTrust ==
    ASSUME TypeInv, TrustInv, NEW r \in Requests,
           \/ \E p \in Paths, flag \in BOOLEAN : UploadStart(r, p, flag)
           \/ UploadPlace(r) \/ UploadIndex(r)
    PROVE  TrustInv'
<1> USE DEF TrustInv, IsUpload
<1>0. /\ nextVer \in 1 .. MaxVersion + 1 /\ MaxVersion \in Nat
      /\ tree \in [Paths -> Node] /\ files \in [Paths -> Row]
      /\ pc \in [Requests -> PC] /\ req \in [Requests -> Req]
  BY Bounds DEF TypeInv, TypeOK, VolumeType, RequestType, CountType
<1>1. ASSUME NEW p \in Paths, NEW flag \in BOOLEAN, UploadStart(r, p, flag) PROVE TrustInv'
  <2>1. /\ req' = [req EXCEPT ![r] = [op |-> "upload", path |-> p, flag |-> flag, ver |-> nextVer, site |-> row]]
        /\ nextVer' = nextVer + 1 /\ nextVer <= MaxVersion
        /\ pc' = [pc EXCEPT ![r] = "receiving"]
        /\ UNCHANGED <<tree, files, lpc, indexed, hashing>>
    BY <1>1 DEF UploadStart, Go, volume, index, listing
  <2>2. \A v : Unseen(v)' <=> Unseen(v)
    BY <2>1 DEF Unseen
  <2>3. req'[r].op = "upload" /\ req'[r].ver = nextVer /\ \A q \in Requests \ {r} : req'[q] = req[q]
    BY <1>0, <2>1
  <2>4. FutureUnseen'
    BY <1>0, <2>1, <2>2 DEF FutureUnseen
  <2>5. BodiesUnseen'
    <3>1. Unseen(nextVer)
      BY <1>0, <2>1 DEF FutureUnseen
    <3> QED BY <1>0, <2>1, <2>2, <2>3, <3>1 DEF BodiesUnseen
  <2>6. BodiesDiffer'
    BY <1>0, <2>3 DEF BodiesDiffer, BodiesUnseen
  <2>7. TrustedRowsAreTrue' /\ HashedIsTrue'
    BY <2>1 DEF TrustedRowsAreTrue, HashedIsTrue, Trusted
  <2> QED BY <2>4, <2>5, <2>6, <2>7
<1>2. ASSUME UploadPlace(r) PROVE TrustInv'
  <2> DEFINE w == req[r].ver
  <2>1. /\ tree' = [WithFolders(Ancestors[req[r].path]) EXCEPT ![req[r].path] = File(w)]
        /\ pc' = [pc EXCEPT ![r] = "placed"] /\ pc[r] = "waiting" /\ req[r].op = "upload"
        /\ UNCHANGED <<req, nextVer, files, lpc, indexed, hashing>>
    BY <1>2 DEF UploadPlace, Go, Disturb, index, counts, listing
  <2>2. \A p \in Paths : tree'[p] = tree[p] \/ tree'[p] = Folder \/ tree'[p] = File(w)
    BY <2>1 DEF WithFolders
  <2>3. Folder.kind # "file" /\ Folder.ver = 0 /\ File(w).ver = w
    BY DEF Folder, File
  <2>4. Unseen(w) /\ w \in 1 .. nextVer - 1
    BY <2>1 DEF BodiesUnseen
  <2>5. ASSUME NEW v \in 1 .. MaxVersion, Unseen(v), v # w PROVE Unseen(v)'
    BY <2>1, <2>2, <2>3, <2>5 DEF Unseen
  <2>6. FutureUnseen'
    BY <1>0, <2>1, <2>4, <2>5 DEF FutureUnseen
  <2>7. BodiesUnseen'
    <3> SUFFICES ASSUME NEW q \in Requests
                 PROVE  /\ pc'[q] = "placed" => IsUpload(q)'
                        /\ IsUpload(q)' => req'[q].ver \in 1 .. nextVer' - 1
                        /\ IsUpload(q)' /\ pc'[q] # "placed" => Unseen(req[q].ver)'
      BY <2>1 DEF BodiesUnseen
    <3>1. CASE q = r
      BY <1>0, <2>1, <2>4, <3>1
    <3>2. CASE q # r
      <4>1. IsUpload(q) => req[q].ver # w
        BY <2>1, <3>2 DEF BodiesDiffer
      <4>2. IsUpload(q) => req[q].ver \in 1 .. MaxVersion
        BY <1>0 DEF BodiesUnseen
      <4>3. pc'[q] = pc[q]
        BY <1>0, <2>1, <3>2
      <4> QED BY <2>1, <2>5, <4>1, <4>2, <4>3 DEF BodiesUnseen
    <3> QED BY <3>1, <3>2
  <2>8. BodiesDiffer'
    BY <2>1 DEF BodiesDiffer
  <2>9. HashedIsTrue'
    BY <2>1, <2>2, <2>3, <2>4 DEF HashedIsTrue, Unseen
  <2>10. TrustedRowsAreTrue'
    BY <2>1, <2>2, <2>3, <2>4 DEF TrustedRowsAreTrue, Trusted, Unseen
  <2> QED BY <2>6, <2>7, <2>8, <2>9, <2>10
<1>3. ASSUME UploadIndex(r) PROVE TrustInv'
  <2> DEFINE w == req[r].ver
  <2>1. /\ files' = [files EXCEPT ![req[r].path] = [st |-> w, sha |-> w]]
        /\ req' = [req EXCEPT ![r] = NoReq]
        /\ pc' = [pc EXCEPT ![r] = "idle"] /\ pc[r] = "placed"
        /\ UNCHANGED <<tree, nextVer, lpc, indexed, hashing>>
    BY <1>3 DEF UploadIndex, Go, Answer, Disturb, volume, counts, listing
  <2>2. NoReq.op # "upload"
    BY DEF NoReq
  <2>3. \A p \in Paths : files'[p] = files[p] \/ (files'[p].st = w /\ files'[p].sha = w)
    BY <1>0, <2>1
  <2>4. IsUpload(r) /\ w \in 1 .. nextVer - 1
    BY <2>1 DEF BodiesUnseen
  <2>5. ASSUME NEW v \in 1 .. MaxVersion, Unseen(v), v # w PROVE Unseen(v)'
    BY <2>1, <2>3, <2>5 DEF Unseen
  <2>6. FutureUnseen'
    BY <1>0, <2>1, <2>4, <2>5 DEF FutureUnseen
  <2>7. BodiesUnseen'
    <3> SUFFICES ASSUME NEW q \in Requests
                 PROVE  /\ pc'[q] = "placed" => IsUpload(q)'
                        /\ IsUpload(q)' => req'[q].ver \in 1 .. nextVer' - 1
                        /\ IsUpload(q)' /\ pc'[q] # "placed" => Unseen(req[q].ver)'
      BY DEF BodiesUnseen
    <3>1. CASE q = r
      BY <1>0, <2>1, <2>2, <3>1
    <3>2. CASE q # r
      <4>1. req'[q] = req[q] /\ pc'[q] = pc[q]
        BY <1>0, <2>1, <3>2
      <4>2. IsUpload(q) => req[q].ver # w
        BY <2>4, <3>2 DEF BodiesDiffer
      <4>3. IsUpload(q) => req[q].ver \in 1 .. MaxVersion
        BY <1>0 DEF BodiesUnseen
      <4> QED BY <2>1, <2>5, <4>1, <4>2, <4>3 DEF BodiesUnseen
    <3> QED BY <3>1, <3>2
  <2>8. BodiesDiffer'
    BY <1>0, <2>1, <2>2 DEF BodiesDiffer
  <2>9. HashedIsTrue'
    BY <2>1 DEF HashedIsTrue
  <2>10. TrustedRowsAreTrue'
    BY <2>1, <2>3 DEF TrustedRowsAreTrue, Trusted
  <2> QED BY <2>6, <2>7, <2>8, <2>9, <2>10
<1> QED BY <1>1, <1>2, <1>3

\* A listing's stat, hash and upsert keep the invariant: what it carries was
\* on the volume, and a digest it writes is the file's if its stat still is.
LEMMA ListerTrust ==
    ASSUME TypeInv, TrustInv, NEW l \in Listers,
           (\E p \in Paths : ListStat(l, p)) \/ ListHash(l) \/ ListUpsert(l)
    PROVE  TrustInv'
<1> USE DEF TrustInv
<1>0. /\ nextVer \in 1 .. MaxVersion + 1
      /\ files \in [Paths -> Row] /\ lpc \in [Listers -> LPC] /\ hashing \in [Listers -> Hashing]
  BY DEF TypeInv, TypeOK, VolumeType, ListerType, CountType
<1>1. UNCHANGED <<tree, pc, req, nextVer, indexed>>
  BY DEF ListStat, ListHash, ListUpsert, ListerReads, ListerWrites, volume, counts
<1>2. ASSUME \A v \in 1 .. MaxVersion : Unseen(v) => Unseen(v)'
      PROVE  FutureUnseen' /\ BodiesUnseen' /\ BodiesDiffer'
  <2>1. FutureUnseen'
    BY <1>0, <1>1, <1>2 DEF FutureUnseen
  <2>2. \A r \in Requests : IsUpload(r) => req[r].ver \in 1 .. MaxVersion
    BY <1>0, Bounds DEF BodiesUnseen
  <2>3. BodiesUnseen'
    BY <1>1, <1>2, <2>2 DEF BodiesUnseen, IsUpload
  <2>4. BodiesDiffer'
    BY <1>1 DEF BodiesDiffer, IsUpload
  <2> QED BY <2>1, <2>3, <2>4
<1>3. ASSUME NEW p \in Paths, ListStat(l, p) PROVE TrustInv'
  <2>1. UNCHANGED files
    BY <1>3 DEF ListStat, ListerReads, index
  <2>2. \/ UNCHANGED <<lpc, hashing>>
        \/ /\ hashing' = [hashing EXCEPT ![l] = [path |-> p, st |-> tree[p].ver, sha |-> 0]]
           /\ lpc' = [lpc EXCEPT ![l] = "hash"]
    BY <1>3 DEF ListStat, LGo
  <2>3. \A v \in 1 .. MaxVersion : Unseen(v) => Unseen(v)'
    BY <1>0, <1>1, <2>1, <2>2 DEF Unseen
  <2>4. HashedIsTrue'
    BY <1>0, <1>1, <2>2 DEF HashedIsTrue
  <2>5. TrustedRowsAreTrue'
    BY <1>1, <2>1 DEF TrustedRowsAreTrue, Trusted
  <2> QED BY <1>2, <2>3, <2>4, <2>5
<1>4. ASSUME ListHash(l) PROVE TrustInv'
  <2>1. UNCHANGED files
    BY <1>4 DEF ListHash, ListerReads, index
  <2>2. /\ hashing' = [hashing EXCEPT ![l] = [path |-> hashing[l].path, st |-> hashing[l].st,
                                              sha |-> tree[hashing[l].path].ver]]
        /\ lpc' = [lpc EXCEPT ![l] = "upsert"]
    BY <1>4 DEF ListHash, LGo
  <2>3. \A v \in 1 .. MaxVersion : Unseen(v) => Unseen(v)'
    BY <1>0, <1>1, <2>1, <2>2 DEF Unseen
  <2>4. HashedIsTrue'
    BY <1>0, <1>1, <2>2 DEF HashedIsTrue
  <2>5. TrustedRowsAreTrue'
    BY <1>1, <2>1 DEF TrustedRowsAreTrue, Trusted
  <2> QED BY <1>2, <2>3, <2>4, <2>5
<1>5. ASSUME ListUpsert(l) PROVE TrustInv'
  <2>1. /\ files' = [files EXCEPT ![hashing[l].path] = [st |-> hashing[l].st, sha |-> hashing[l].sha]]
        /\ hashing' = [hashing EXCEPT ![l] = NoHashing]
        /\ lpc' = [lpc EXCEPT ![l] = "scan"] /\ lpc[l] = "upsert"
    BY <1>5 DEF ListUpsert, LGo
  <2>2. NoHashing.st = 0
    BY DEF NoHashing
  <2>3. \A v \in 1 .. MaxVersion : Unseen(v) => Unseen(v)'
    BY <1>0, <1>1, <2>1, <2>2 DEF Unseen
  <2>4. HashedIsTrue'
    BY <1>0, <1>1, <2>1 DEF HashedIsTrue
  <2>5. TrustedRowsAreTrue'
    BY <1>0, <1>1, <2>1 DEF TrustedRowsAreTrue, Trusted, HashedIsTrue
  <2> QED BY <1>2, <2>3, <2>4, <2>5
<1> QED BY <1>3, <1>4, <1>5

\* A crash forgets everything but the volume and the rows; a file put back
\* by a restore has a version of its own.
LEMMA OperatorTrust ==
    ASSUME TypeInv, TrustInv, OperatorStep
    PROVE  TrustInv'
<1>0. /\ nextVer \in 1 .. MaxVersion + 1 /\ MaxVersion \in Nat /\ tree \in [Paths -> Node]
  BY Bounds DEF TypeInv, TypeOK, VolumeType, CountType
<1>1. ASSUME Crash PROVE TrustInv'
  <2>1. NoReq.op # "upload"
    BY DEF NoReq
  <2>2. Forgets
    BY <1>1, <2>1 DEF Crash, Fault, Forgets, volume, index, NoRows
  <2> QED BY <2>2, ForgetsKeeps DEF TypeInv
<1>2. ASSUME Restart PROVE TrustInv'
  <2>1. Forgets
    BY <1>2 DEF Restart, Forgets, volume, index, counts, listing
  <2> QED BY <2>1, ForgetsKeeps DEF TypeInv
<1>3. ASSUME NEW p \in Paths, RestoreWithout(p) PROVE TrustInv'
  <2>1. Forgets
    BY <1>3 DEF RestoreWithout, Forgets, index, counts, listing
  <2> QED BY <2>1, ForgetsKeeps DEF TypeInv
<1>4. ASSUME NEW p \in Paths, RestoreWith(p) PROVE TrustInv'
  <2>1. /\ tree' = [tree EXCEPT ![p] = File(nextVer)] \/ tree' = [tree EXCEPT ![p] = Special]
        /\ nextVer' = nextVer + 1 /\ nextVer <= MaxVersion
        /\ UNCHANGED <<files, pc, req, lpc, indexed, hashing>>
    BY <1>4 DEF RestoreWith, index, listing
  <2>2. /\ Special.kind # "file" /\ Special.ver = 0
        /\ File(nextVer).ver = nextVer
    BY DEF Special, File
  <2>3. \A q \in Paths : tree'[q] = tree[q] \/ tree'[q] = Special \/ tree'[q] = File(nextVer)
    BY <1>0, <2>1
  <2>4. Unseen(nextVer)
    BY <1>0, <2>1 DEF TrustInv, FutureUnseen
  <2>5. ASSUME NEW v \in 1 .. MaxVersion, v # nextVer, Unseen(v) PROVE Unseen(v)'
    BY <2>1, <2>2, <2>3, <2>5 DEF Unseen
  <2>6. FutureUnseen'
    BY <1>0, <2>1, <2>5 DEF TrustInv, FutureUnseen
  <2>7. BodiesUnseen'
    <3>1. \A r \in Requests : IsUpload(r) => req[r].ver \in 1 .. MaxVersion /\ req[r].ver # nextVer
      BY <1>0 DEF TrustInv, BodiesUnseen
    <3> QED BY <1>0, <2>1, <2>5, <3>1 DEF TrustInv, BodiesUnseen, IsUpload
  <2>8. BodiesDiffer'
    BY <2>1 DEF TrustInv, BodiesDiffer, IsUpload
  <2>9. HashedIsTrue'
    BY <2>1, <2>2, <2>3, <2>4 DEF TrustInv, HashedIsTrue, Unseen
  <2>10. TrustedRowsAreTrue'
    BY <2>1, <2>2, <2>3, <2>4 DEF TrustInv, TrustedRowsAreTrue, Trusted, Unseen
  <2> QED BY <2>6, <2>7, <2>8, <2>9, <2>10 DEF TrustInv
<1> QED BY <1>1, <1>2, <1>3, <1>4 DEF OperatorStep

\* At the start nothing has been seen.
LEMMA InitTrust == Init => TrustInv
<1> SUFFICES ASSUME Init PROVE TrustInv
  OBVIOUS
<1>1. /\ NoReq.op # "upload" /\ NoHashing.st = 0 /\ Missing.kind # "file" /\ Missing.ver = 0
      /\ NoRow.st = 0
  BY DEF NoReq, NoHashing, Missing, NoRow
<1>2. \A v \in 1 .. MaxVersion : Unseen(v)
  BY <1>1 DEF Init, Unseen, NoRows
<1>3. FutureUnseen /\ BodiesUnseen /\ BodiesDiffer
  BY <1>1, <1>2 DEF Init, FutureUnseen, BodiesUnseen, BodiesDiffer, IsUpload
<1>4. HashedIsTrue /\ TrustedRowsAreTrue
  BY <1>1 DEF Init, HashedIsTrue, TrustedRowsAreTrue
<1> QED BY <1>3, <1>4 DEF TrustInv

\* Every step keeps the invariant.
LEMMA NextTrust == TypeInv /\ TrustInv /\ [Next]_vars => TrustInv'
<1> SUFFICES ASSUME TypeInv, TrustInv, [Next]_vars PROVE TrustInv'
  OBVIOUS
<1>0. TypeOK
  BY DEF TypeInv
<1>1. CASE UNCHANGED vars
  <2>1. Forgets
    BY <1>1 DEF vars, Forgets
  <2> QED BY <1>0, <2>1, ForgetsKeeps
<1>2. ASSUME NEW r \in Requests, ClientStep(r) \/ BackendStep(r) \/ FaultStep(r) PROVE TrustInv'
  BY <1>0, <1>2, UploadTrust, RequestForgets, ForgetsKeeps
<1>3. ASSUME NEW l \in Listers, (\E f \in Folders : ListStart(l, f)) \/ ListStep(l) PROVE TrustInv'
  BY <1>0, <1>3, ListerTrust, ListerForgets, ForgetsKeeps
<1>4. CASE OperatorStep
  BY <1>4, OperatorTrust
<1> QED BY <1>1, <1>2, <1>3, <1>4 DEF Next

\* No listing ever reports a digest of other bytes: a row whose size and
\* modification time are the file's holds the file's digest, although
\* list_folder stats and hashes without the lock, for any number of
\* requests and listings, with crashes, I/O errors and restores.
THEOREM TrustedRows == Spec => []TrustedRowsAreTrue
<1>1. Spec => [](TypeInv /\ TrustInv)
  <2>1. Init => TypeInv /\ TrustInv
    BY InitType, InitTrust
  <2>2. TypeInv /\ TrustInv /\ [Next]_vars => (TypeInv /\ TrustInv)'
    BY NextType, NextTrust
  <2> QED BY <2>1, <2>2, PTL DEF Spec
<1>2. TypeInv /\ TrustInv => TrustedRowsAreTrue
  BY DEF TrustInv
<1> QED BY <1>1, <1>2, PTL
----------------------------------------------------------------------------
(***************************************************************************)
(* Staging and destruction.  What is in staging/ belongs to a request at a *)
(* certain place; what a deletion removes was decided under the lock, and  *)
(* must still be so at every unlink of the thread.                         *)
(***************************************************************************)

\* Nothing runs while the service is down.
Down == ~up => (\A r \in Requests : pc[r] = "idle") /\ quiet = {}

NamesPath ==
    \A r \in Requests : req[r].op \in {"upload", "deleteFile", "deleteFolder"} => req[r].path \in Paths

\* A removal under way was asked for: its path is no file, and what is below
\* it was empty and stays so, or the request said to recurse.
RemovalAsked ==
    \A r \in Requests : pc[r] = "removing" =>
        /\ req[r].op = "deleteFolder"
        /\ tree[req[r].path].kind # "file"
        /\ Empty(req[r].path) \/ req[r].flag

WorkInv == StagingOwned /\ Down /\ NamesPath /\ RemovalAsked

\* A step keeps the removals' terms if none starts and the tree only loses
\* entries, or nobody is removing.
LEMMA RemovalKept ==
    ASSUME TypeInv, WorkInv,
           \A r \in Requests : pc'[r] = "removing" => pc[r] = "removing" /\ req'[r] = req[r],
           \/ \A p \in Paths : tree'[p] = tree[p] \/ tree'[p] = Missing
           \/ \A r \in Requests : pc'[r] # "removing"
    PROVE  RemovalAsked'
<1> SUFFICES ASSUME NEW r \in Requests, (pc[r] = "removing")'
             PROVE  (/\ req[r].op = "deleteFolder"
                     /\ tree[req[r].path].kind # "file"
                     /\ Empty(req[r].path) \/ req[r].flag)'
  BY DEF RemovalAsked
<1>1. req'[r] = req[r] /\ pc[r] = "removing"
  OBVIOUS
<1>2. req[r].path \in Paths /\ req[r].op = "deleteFolder" /\ tree[req[r].path].kind # "file"
  BY <1>1 DEF WorkInv, RemovalAsked, NamesPath
<1>3. \A p \in Paths : tree'[p] = tree[p] \/ tree'[p] = Missing
  OBVIOUS
<1>4. tree'[req[r].path].kind # "file"
  BY <1>2, <1>3 DEF Missing
<1>5. Empty(req[r].path) => Empty(req[r].path)'
  BY <1>3 DEF Empty, Below
<1>6. Empty(req[r].path) \/ req[r].flag
  BY <1>1 DEF WorkInv, RemovalAsked
<1>7. Empty(req[r].path)' \/ req'[r].flag
  BY <1>1, <1>5, <1>6
<1> QED BY <1>1, <1>2, <1>4, <1>7

\* Whoever works under the lock works alone.
LEMMA Alone ==
    ASSUME TypeInv, NEW r \in Requests, Holds(r), NEW q \in Requests, pc[q] \in Section
    PROVE  q = r
BY DEF TypeInv, SectionHolds, Holds

\* A request's step.
LEMMA RequestWork ==
    ASSUME TypeInv, WorkInv, NEW r \in Requests, ClientStep(r) \/ BackendStep(r) \/ FaultStep(r)
    PROVE  WorkInv'
<1>0. /\ tree \in [Paths -> Node] /\ pc \in [Requests -> PC] /\ req \in [Requests -> Req]
      /\ staged \subseteq Requests /\ parked \subseteq Requests
  BY DEF TypeInv, TypeOK, VolumeType, RequestType
<1>n. NoReq.op = "none"
  BY DEF NoReq
<1> USE <1>0, <1>n
<1>a. ASSUME up, StagingOwned', NamesPath', UNCHANGED up, RemovalAsked' PROVE WorkInv'
  BY <1>a DEF WorkInv, Down
<1> USE DEF Go, Answer, Disturb, Release, volume, index, staging, Loop
<1>1. ASSUME NEW p \in Paths, NEW flag \in BOOLEAN, UploadStart(r, p, flag) PROVE WorkInv'
  <2>1. up /\ UNCHANGED up
    BY <1>1 DEF UploadStart
  <2>2. StagingOwned'
    BY <1>1 DEF UploadStart, WorkInv, StagingOwned
  <2>3. NamesPath'
    BY <1>1 DEF UploadStart, WorkInv, NamesPath
  <2>4. RemovalAsked'
    BY <1>1, RemovalKept DEF UploadStart
  <2> QED BY <1>a, <2>1, <2>2, <2>3, <2>4
<1>2. ASSUME NEW p \in Paths, NEW flag \in BOOLEAN, DeleteFolderStart(r, p, flag) PROVE WorkInv'
  <2>1. up /\ UNCHANGED up
    BY <1>2 DEF DeleteFolderStart, DeleteStart
  <2>2. StagingOwned'
    BY <1>2 DEF DeleteFolderStart, DeleteStart, WorkInv, StagingOwned
  <2>3. NamesPath'
    BY <1>2 DEF DeleteFolderStart, DeleteStart, WorkInv, NamesPath
  <2>4. RemovalAsked'
    BY <1>2, RemovalKept DEF DeleteFolderStart, DeleteStart
  <2> QED BY <1>a, <2>1, <2>2, <2>3, <2>4
<1>3. ASSUME NEW p \in Paths, DeleteFileStart(r, p) PROVE WorkInv'
  <2>1. up /\ UNCHANGED up
    BY <1>3 DEF DeleteFileStart, DeleteStart
  <2>2. StagingOwned'
    BY <1>3 DEF DeleteFileStart, DeleteStart, WorkInv, StagingOwned
  <2>3. NamesPath'
    BY <1>3 DEF DeleteFileStart, DeleteStart, WorkInv, NamesPath
  <2>4. RemovalAsked'
    BY <1>3, RemovalKept DEF DeleteFileStart, DeleteStart
  <2> QED BY <1>a, <2>1, <2>2, <2>3, <2>4
<1>4. ASSUME CreateSiteStart(r) PROVE WorkInv'
  <2>1. up /\ UNCHANGED up
    BY <1>4 DEF CreateSiteStart
  <2>2. StagingOwned'
    BY <1>4 DEF CreateSiteStart, WorkInv, StagingOwned
  <2>3. NamesPath'
    BY <1>4 DEF CreateSiteStart, WorkInv, NamesPath
  <2>4. RemovalAsked'
    BY <1>4, RemovalKept DEF CreateSiteStart
  <2> QED BY <1>a, <2>1, <2>2, <2>3, <2>4
<1>5. ASSUME DeleteSiteStart(r) PROVE WorkInv'
  <2>1. up /\ UNCHANGED up
    BY <1>5 DEF DeleteSiteStart, DeleteStart
  <2>2. StagingOwned'
    BY <1>5 DEF DeleteSiteStart, DeleteStart, WorkInv, StagingOwned
  <2>3. NamesPath'
    BY <1>5 DEF DeleteSiteStart, DeleteStart, WorkInv, NamesPath
  <2>4. RemovalAsked'
    BY <1>5, RemovalKept DEF DeleteSiteStart, DeleteStart
  <2> QED BY <1>a, <2>1, <2>2, <2>3, <2>4
<1>6. ASSUME UploadReceived(r) PROVE WorkInv'
  <2>1. up /\ UNCHANGED up
    BY <1>6 DEF UploadReceived
  <2>2. StagingOwned'
    BY <1>6 DEF UploadReceived, WorkInv, StagingOwned
  <2>3. NamesPath'
    BY <1>6 DEF UploadReceived, WorkInv, NamesPath
  <2>4. RemovalAsked'
    BY <1>6, RemovalKept DEF UploadReceived
  <2> QED BY <1>a, <2>1, <2>2, <2>3, <2>4
<1>7. ASSUME UploadAborted(r) PROVE WorkInv'
  <2>1. up /\ UNCHANGED up
    BY <1>7 DEF UploadAborted
  <2>2. StagingOwned'
    BY <1>7 DEF UploadAborted, WorkInv, StagingOwned
  <2>3. NamesPath'
    BY <1>7 DEF UploadAborted, WorkInv, NamesPath
  <2>4. RemovalAsked'
    BY <1>7, RemovalKept DEF UploadAborted
  <2> QED BY <1>a, <2>1, <2>2, <2>3, <2>4
<1>8. ASSUME UploadRefused(r) PROVE WorkInv'
  <2>1. up /\ UNCHANGED up
    BY <1>8 DEF UploadRefused, Refuse
  <2>2. StagingOwned'
    BY <1>8 DEF UploadRefused, Refuse, WorkInv, StagingOwned
  <2>3. NamesPath'
    BY <1>8 DEF UploadRefused, Refuse, WorkInv, NamesPath
  <2>4. RemovalAsked'
    BY <1>8, RemovalKept DEF UploadRefused, Refuse
  <2> QED BY <1>a, <2>1, <2>2, <2>3, <2>4
<1>9. ASSUME UploadPlace(r) PROVE WorkInv'
  <2>1. up /\ UNCHANGED up
    BY <1>9 DEF UploadPlace, UploadMayLand, WriteTargetOK
  <2>2. StagingOwned'
    BY <1>9 DEF UploadPlace, UploadMayLand, WriteTargetOK, WorkInv, StagingOwned
  <2>3. NamesPath'
    BY <1>9 DEF UploadPlace, UploadMayLand, WriteTargetOK, WorkInv, NamesPath
  <2>4. RemovalAsked'
    <3>1. Holds(r) /\ pc[r] = "waiting"
      BY <1>9 DEF UploadPlace
    <3>2. \A q \in Requests : pc[q] # "removing"
      BY <3>1, Alone DEF Section
    <3>3. \A q \in Requests : pc'[q] # "removing"
      BY <1>9, <3>2 DEF UploadPlace
    <3> QED BY <3>3, RemovalKept
  <2> QED BY <1>a, <2>1, <2>2, <2>3, <2>4
<1>10. ASSUME UploadIndex(r) PROVE WorkInv'
  <2>1. up /\ UNCHANGED up
    BY <1>10 DEF UploadIndex
  <2>2. StagingOwned'
    BY <1>10 DEF UploadIndex, WorkInv, StagingOwned
  <2>3. NamesPath'
    BY <1>10 DEF UploadIndex, WorkInv, NamesPath
  <2>4. RemovalAsked'
    BY <1>10, RemovalKept DEF UploadIndex
  <2> QED BY <1>a, <2>1, <2>2, <2>3, <2>4
<1>11. ASSUME DeleteFileRefused(r) PROVE WorkInv'
  <2>1. up /\ UNCHANGED up
    BY <1>11 DEF DeleteFileRefused, Refuse
  <2>2. StagingOwned'
    BY <1>11 DEF DeleteFileRefused, Refuse, WorkInv, StagingOwned
  <2>3. NamesPath'
    BY <1>11 DEF DeleteFileRefused, Refuse, WorkInv, NamesPath
  <2>4. RemovalAsked'
    BY <1>11, RemovalKept DEF DeleteFileRefused, Refuse
  <2> QED BY <1>a, <2>1, <2>2, <2>3, <2>4
<1>12. ASSUME DeleteFileUnlink(r) PROVE WorkInv'
  <2>1. up /\ UNCHANGED up
    BY <1>12 DEF DeleteFileUnlink
  <2>2. StagingOwned'
    BY <1>12 DEF DeleteFileUnlink, WorkInv, StagingOwned
  <2>3. NamesPath'
    BY <1>12 DEF DeleteFileUnlink, WorkInv, NamesPath
  <2>4. RemovalAsked'
    BY <1>12, RemovalKept DEF DeleteFileUnlink
  <2> QED BY <1>a, <2>1, <2>2, <2>3, <2>4
<1>13. ASSUME DeleteFileRow(r) PROVE WorkInv'
  <2>1. up /\ UNCHANGED up
    BY <1>13 DEF DeleteFileRow
  <2>2. StagingOwned'
    BY <1>13 DEF DeleteFileRow, WorkInv, StagingOwned
  <2>3. NamesPath'
    BY <1>13 DEF DeleteFileRow, WorkInv, NamesPath
  <2>4. RemovalAsked'
    BY <1>13, RemovalKept DEF DeleteFileRow
  <2> QED BY <1>a, <2>1, <2>2, <2>3, <2>4
<1>14. ASSUME DeleteFolderRefused(r) PROVE WorkInv'
  <2>1. up /\ UNCHANGED up
    BY <1>14 DEF DeleteFolderRefused, Refuse
  <2>2. StagingOwned'
    BY <1>14 DEF DeleteFolderRefused, Refuse, WorkInv, StagingOwned
  <2>3. NamesPath'
    BY <1>14 DEF DeleteFolderRefused, Refuse, WorkInv, NamesPath
  <2>4. RemovalAsked'
    BY <1>14, RemovalKept DEF DeleteFolderRefused, Refuse
  <2> QED BY <1>a, <2>1, <2>2, <2>3, <2>4
<1>15. ASSUME DeleteFolderBegin(r) PROVE WorkInv'
  <2>1. up /\ UNCHANGED up
    BY <1>15 DEF DeleteFolderBegin, DeleteFolderMayRun, KindOf
  <2>2. StagingOwned'
    BY <1>15 DEF DeleteFolderBegin, DeleteFolderMayRun, KindOf, WorkInv, StagingOwned
  <2>3. NamesPath'
    BY <1>15 DEF DeleteFolderBegin, DeleteFolderMayRun, KindOf, WorkInv, NamesPath
  <2>4. RemovalAsked'
    <3>1. req[r].op = "deleteFolder" /\ DeleteFolderMayRun(r) /\ req[r].path \in Paths
      BY <1>15 DEF DeleteFolderBegin, WorkInv, NamesPath
    <3>2. tree[req[r].path].kind # "file" /\ req[r].path # Root
      BY <3>1, PathTree DEF DeleteFolderMayRun, KindOf
    <3> QED BY <1>15, <3>1, <3>2 DEF DeleteFolderBegin, DeleteFolderMayRun, WorkInv, RemovalAsked, Empty
  <2> QED BY <1>a, <2>1, <2>2, <2>3, <2>4
<1>16. ASSUME NEW p \in Paths, DeleteFolderRemove(r, p) PROVE WorkInv'
  <2>1. up /\ UNCHANGED up
    BY <1>16 DEF DeleteFolderRemove
  <2>2. StagingOwned'
    BY <1>16 DEF DeleteFolderRemove, WorkInv, StagingOwned
  <2>3. NamesPath'
    BY <1>16 DEF DeleteFolderRemove, WorkInv, NamesPath
  <2>4. RemovalAsked'
    BY <1>16, RemovalKept DEF DeleteFolderRemove
  <2> QED BY <1>a, <2>1, <2>2, <2>3, <2>4
<1>17. ASSUME DeleteFolderRows(r) PROVE WorkInv'
  <2>1. up /\ UNCHANGED up
    BY <1>17 DEF DeleteFolderRows
  <2>2. StagingOwned'
    BY <1>17 DEF DeleteFolderRows, WorkInv, StagingOwned
  <2>3. NamesPath'
    BY <1>17 DEF DeleteFolderRows, WorkInv, NamesPath
  <2>4. RemovalAsked'
    BY <1>17, RemovalKept DEF DeleteFolderRows
  <2> QED BY <1>a, <2>1, <2>2, <2>3, <2>4
<1>18. ASSUME CreateSiteRefused(r) PROVE WorkInv'
  <2>1. up /\ UNCHANGED up
    BY <1>18 DEF CreateSiteRefused, Refuse
  <2>2. StagingOwned'
    BY <1>18 DEF CreateSiteRefused, Refuse, WorkInv, StagingOwned
  <2>3. NamesPath'
    BY <1>18 DEF CreateSiteRefused, Refuse, WorkInv, NamesPath
  <2>4. RemovalAsked'
    BY <1>18, RemovalKept DEF CreateSiteRefused, Refuse
  <2> QED BY <1>a, <2>1, <2>2, <2>3, <2>4
<1>19. ASSUME CreateSiteMkdir(r) PROVE WorkInv'
  <2>1. up /\ UNCHANGED up
    BY <1>19 DEF CreateSiteMkdir
  <2>2. StagingOwned'
    BY <1>19 DEF CreateSiteMkdir, WorkInv, StagingOwned
  <2>3. NamesPath'
    BY <1>19 DEF CreateSiteMkdir, WorkInv, NamesPath
  <2>4. RemovalAsked'
    BY <1>19, RemovalKept DEF CreateSiteMkdir
  <2> QED BY <1>a, <2>1, <2>2, <2>3, <2>4
<1>20. ASSUME CreateSiteInsert(r) PROVE WorkInv'
  <2>1. up /\ UNCHANGED up
    BY <1>20 DEF CreateSiteInsert
  <2>2. StagingOwned'
    BY <1>20 DEF CreateSiteInsert, WorkInv, StagingOwned
  <2>3. NamesPath'
    BY <1>20 DEF CreateSiteInsert, WorkInv, NamesPath
  <2>4. RemovalAsked'
    BY <1>20, RemovalKept DEF CreateSiteInsert
  <2> QED BY <1>a, <2>1, <2>2, <2>3, <2>4
<1>21. ASSUME DeleteSitePark(r) PROVE WorkInv'
  <2>1. up /\ UNCHANGED up
    BY <1>21 DEF DeleteSitePark
  <2>2. StagingOwned'
    BY <1>21 DEF DeleteSitePark, WorkInv, StagingOwned
  <2>3. NamesPath'
    BY <1>21 DEF DeleteSitePark, WorkInv, NamesPath
  <2>4. RemovalAsked'
    BY <1>21, RemovalKept DEF DeleteSitePark
  <2> QED BY <1>a, <2>1, <2>2, <2>3, <2>4
<1>22. ASSUME DeleteSiteRow(r) PROVE WorkInv'
  <2>1. up /\ UNCHANGED up
    BY <1>22 DEF DeleteSiteRow
  <2>2. StagingOwned'
    BY <1>22 DEF DeleteSiteRow, WorkInv, StagingOwned
  <2>3. NamesPath'
    BY <1>22 DEF DeleteSiteRow, WorkInv, NamesPath
  <2>4. RemovalAsked'
    BY <1>22, RemovalKept DEF DeleteSiteRow
  <2> QED BY <1>a, <2>1, <2>2, <2>3, <2>4
<1>23. ASSUME DeleteSitePurge(r) PROVE WorkInv'
  <2>1. up /\ UNCHANGED up
    BY <1>23 DEF DeleteSitePurge
  <2>2. StagingOwned'
    BY <1>23 DEF DeleteSitePurge, WorkInv, StagingOwned
  <2>3. NamesPath'
    BY <1>23 DEF DeleteSitePurge, WorkInv, NamesPath
  <2>4. RemovalAsked'
    BY <1>23, RemovalKept DEF DeleteSitePurge
  <2> QED BY <1>a, <2>1, <2>2, <2>3, <2>4
<1>24. ASSUME UploadPlaceFails(r) PROVE WorkInv'
  <2>1. up /\ UNCHANGED up
    BY <1>24 DEF UploadPlaceFails, Fault, UploadMayLand, WriteTargetOK
  <2>2. StagingOwned'
    BY <1>24 DEF UploadPlaceFails, Fault, UploadMayLand, WriteTargetOK, WorkInv, StagingOwned
  <2>3. NamesPath'
    BY <1>24 DEF UploadPlaceFails, Fault, UploadMayLand, WriteTargetOK, WorkInv, NamesPath
  <2>4. RemovalAsked'
    <3>1. Holds(r) /\ pc[r] = "waiting"
      BY <1>24 DEF UploadPlaceFails
    <3>2. \A q \in Requests : pc[q] # "removing"
      BY <3>1, Alone DEF Section
    <3>3. \A q \in Requests : pc'[q] # "removing"
      BY <1>24, <3>2 DEF UploadPlaceFails
    <3> QED BY <3>3, RemovalKept
  <2> QED BY <1>a, <2>1, <2>2, <2>3, <2>4
<1>25. ASSUME SectionFails(r) PROVE WorkInv'
  <2>1. up /\ UNCHANGED up
    BY <1>25 DEF SectionFails, Fault
  <2>2. StagingOwned'
    BY <1>25 DEF SectionFails, Fault, WorkInv, StagingOwned
  <2>3. NamesPath'
    BY <1>25 DEF SectionFails, Fault, WorkInv, NamesPath
  <2>4. RemovalAsked'
    BY <1>25, RemovalKept DEF SectionFails, Fault
  <2> QED BY <1>a, <2>1, <2>2, <2>3, <2>4
<1>26. ASSUME CreateSiteFails(r) PROVE WorkInv'
  <2>1. up /\ UNCHANGED up
    BY <1>26 DEF CreateSiteFails, Fault
  <2>2. StagingOwned'
    BY <1>26 DEF CreateSiteFails, Fault, WorkInv, StagingOwned
  <2>3. NamesPath'
    BY <1>26 DEF CreateSiteFails, Fault, WorkInv, NamesPath
  <2>4. RemovalAsked'
    BY <1>26, RemovalKept DEF CreateSiteFails, Fault
  <2> QED BY <1>a, <2>1, <2>2, <2>3, <2>4
<1> QED
  BY <1>1, <1>2, <1>3, <1>4, <1>5, <1>6, <1>7, <1>8, <1>9, <1>10, <1>11, <1>12, <1>13, <1>14, <1>15, <1>16, <1>17, <1>18, <1>19, <1>20, <1>21, <1>22, <1>23, <1>24, <1>25, <1>26
  DEF ClientStep, BackendStep, FaultStep

\* A listing's step touches none of it.
LEMMA ListerWork ==
    ASSUME TypeInv, WorkInv, NEW l \in Listers, (\E f \in Folders : ListStart(l, f)) \/ ListStep(l)
    PROVE  WorkInv'
<1>1. UNCHANGED <<up, tree, pc, req, staged, parked>> /\ up
  BY DEF ListStep, ListStart, ListNoFolder, ListFound, ListIndexed, ListOpen, ListOpenFails, ListSkip,
         ListStat, ListHash, ListHashFails, ListUpsert, ListUpsertFails, ListScanned, ListDrop, ListDone,
         ListAnswer, ListerReads, ListerWrites, volume, staging
<1> QED BY <1>1 DEF WorkInv, StagingOwned, Down, NamesPath, RemovalAsked, Empty

\* A stop ends every request, a start clears staging, and a restore meets neither.
LEMMA OperatorWork ==
    ASSUME TypeInv, WorkInv, OperatorStep
    PROVE  WorkInv'
<1>n. NoReq.op = "none"
  BY DEF NoReq
<1>1. ASSUME Crash PROVE WorkInv'
  BY <1>n, <1>1 DEF Crash, WorkInv, StagingOwned, Down, NamesPath, RemovalAsked
<1>2. ASSUME Restart PROVE WorkInv'
  BY <1>2 DEF Restart, volume, listing, WorkInv, StagingOwned, Down, NamesPath, RemovalAsked
<1>3. ASSUME NEW p \in Paths, RestoreWithout(p) \/ RestoreWith(p) PROVE WorkInv'
  BY <1>3 DEF RestoreWithout, RestoreWith, staging, WorkInv, StagingOwned, Down, NamesPath, RemovalAsked
<1> QED BY <1>1, <1>2, <1>3 DEF OperatorStep

\* At the start nothing is staged and nobody works; every step keeps that in order.
LEMMA WorkInvariant == Spec => [](TypeInv /\ WorkInv)
<1>1. Init => TypeInv /\ WorkInv
  <2>1. Init => WorkInv
    BY DEF Init, NoReq, WorkInv, StagingOwned, Down, NamesPath, RemovalAsked
  <2> QED BY <2>1, InitType
<1>2. TypeInv /\ WorkInv /\ [Next]_vars => (TypeInv /\ WorkInv)'
  <2> SUFFICES ASSUME TypeInv, WorkInv, [Next]_vars PROVE WorkInv'
    BY NextType
  <2>1. CASE UNCHANGED vars
    BY <2>1 DEF vars, WorkInv, StagingOwned, Down, NamesPath, RemovalAsked, Empty
  <2>2. CASE Next
    BY <2>2, RequestWork, ListerWork, OperatorWork DEF Next
  <2> QED BY <2>1, <2>2
<1> QED BY <1>1, <1>2, PTL DEF Spec

\* Every .part file and every parked folder belongs to a request that will
\* remove it, whatever fails and wherever the service stops, for any number
\* of requests (_stage, write_file, delete_site, clean_staging).
THEOREM Staging == Spec => []StagingOwned
<1>1. TypeInv /\ WorkInv => StagingOwned
  BY DEF WorkInv
<1> QED BY <1>1, WorkInvariant, PTL

\* A step that changes a file on the volume of a running service is a step
\* of a request that asked for it.
LEMMA IntentStep ==
    ASSUME TypeInv, WorkInv, [Next]_vars, NEW p \in Paths,
           up, tree[p].kind = "file", tree'[p] # tree[p]
    PROVE  \E r \in Requests : Intended(r, p)
<1>0. tree \in [Paths -> Node] /\ req \in [Requests -> Req] /\ queue \in Seq(Requests)
  BY DEF TypeInv, TypeOK, VolumeType, RequestType
<1>1. \E r \in Requests : ClientStep(r) \/ BackendStep(r) \/ FaultStep(r)
  <2>1. ASSUME NEW l \in Listers, (\E f \in Folders : ListStart(l, f)) \/ ListStep(l) PROVE FALSE
    <3>1. UNCHANGED tree
      BY <2>1 DEF ListStep, ListStart, ListNoFolder, ListFound, ListIndexed, ListOpen, ListOpenFails, ListSkip,
             ListStat, ListHash, ListHashFails, ListUpsert, ListUpsertFails, ListScanned, ListDrop, ListDone,
             ListAnswer, ListerReads, ListerWrites, volume
    <3> QED BY <3>1
  <2>2. ~OperatorStep
    BY DEF OperatorStep, Crash, Restart, RestoreWithout, RestoreWith, volume
  <2>3. Next
    BY DEF vars
  <2> QED BY <2>1, <2>2, <2>3 DEF Next
<1>2. PICK r \in Requests : ClientStep(r) \/ BackendStep(r) \/ FaultStep(r)
  BY <1>1
<1>3. \/ UploadPlace(r) \/ UploadPlaceFails(r) \/ DeleteFileUnlink(r)
      \/ \E q \in Paths : DeleteFolderRemove(r, q)
      \/ DeleteSitePark(r)
  BY <1>2 DEF ClientStep, BackendStep, FaultStep, UploadStart, DeleteFolderStart, DeleteFileStart, DeleteStart,
     CreateSiteStart, DeleteSiteStart, UploadReceived, UploadAborted, UploadRefused, Refuse, UploadIndex,
     DeleteFileRefused, DeleteFileRow, DeleteFolderRefused, DeleteFolderBegin, DeleteFolderRows, CreateSiteRefused,
     CreateSiteMkdir, CreateSiteInsert, DeleteSiteRow, DeleteSitePurge, SectionFails, CreateSiteFails, volume
<1>4. CASE UploadPlace(r)
  <2>1. \A q \in Ancestors[req[r].path] : tree[q].kind # "file"
    BY <1>4 DEF UploadPlace, UploadMayLand, WriteTargetOK
  <2>2. p = req[r].path
    BY <1>0, <1>4, <2>1 DEF UploadPlace, WithFolders
  <2>3. req[r].flag
    BY <1>4, <2>2 DEF UploadPlace, UploadMayLand, WriteTargetOK, Missing
  <2> QED BY <1>4, <2>2, <2>3 DEF UploadPlace, Intended
<1>5. CASE UploadPlaceFails(r)
  BY <1>0, <1>5 DEF UploadPlaceFails, UploadMayLand, WriteTargetOK, WithFolders
<1>6. CASE DeleteFileUnlink(r)
  BY <1>0, <1>6 DEF DeleteFileUnlink, Intended
<1>7. ASSUME NEW q \in Paths, DeleteFolderRemove(r, q) PROVE Intended(r, p)
  <2>1. q = p /\ pc[r] = "removing"
    BY <1>0, <1>7 DEF DeleteFolderRemove
  <2>2. Holds(r)
    BY <2>1 DEF TypeInv, SectionHolds, Section
  <2>3. /\ req[r].op = "deleteFolder" /\ tree[req[r].path].kind # "file"
        /\ Empty(req[r].path) \/ req[r].flag
    BY <2>1 DEF WorkInv, RemovalAsked
  <2>4. req[r].path \in Ancestors[p]
    BY <1>7, <2>1, <2>3 DEF DeleteFolderRemove
  <2>5. ~Empty(req[r].path)
    BY <2>4 DEF Empty, Below, Missing
  <2> QED BY <2>2, <2>3, <2>4, <2>5 DEF Intended
<1>8. CASE DeleteSitePark(r)
  BY <1>8 DEF DeleteSitePark, Intended
<1> QED BY <1>3, <1>4, <1>5, <1>6, <1>7, <1>8

\* While the service runs, the bytes at a path are replaced or removed only
\* under the lock and by a request that names the path and asked for it,
\* although the folder's removal runs in a thread long after its check
\* (write_file, delete_file, delete_folder, delete_site).
THEOREM Intent == Spec => IntentBeforeDestruction
<1>1. TypeInv /\ WorkInv /\ [Next]_vars
        => [\A p \in Paths : up /\ tree[p].kind = "file" /\ tree'[p] # tree[p]
               => \E r \in Requests : Intended(r, p)]_vars
  BY IntentStep
<1> QED BY <1>1, WorkInvariant, PTL DEF Spec, IntentBeforeDestruction
----------------------------------------------------------------------------
(***************************************************************************)
(* An undisturbed listing reconciles its folder.  The invariant follows    *)
(* the listing entry by entry: until it reports a file, the file's row is  *)
(* the snapshot's; a row it trusted is right by TrustedRowsAreTrue.        *)
(***************************************************************************)

\* A listing that has not opened its folder has seen nothing.
Fresh(l) == lpc[l] \in {"idle", "queued", "found", "open"} => seen[l] = {}

\* A file about to be indexed is the one on the volume.
Carried(l) ==
    lpc[l] \in {"hash", "upsert"} =>
        /\ hashing[l].path \in seen[l]
        /\ hashing[l].st = tree[hashing[l].path].ver
        /\ lpc[l] = "upsert" => hashing[l].sha = hashing[l].st

\* How far the listing is with the entry p of its folder.
Opened(l, p) ==
    lpc[l] = "open" => files[p] = indexed[l][p]

Scanned(l, p) ==
    lpc[l] \in {"scan", "hash", "upsert"} =>
        /\ p \notin seen[l] => files[p] = indexed[l][p] /\ (p \in todo[l] \/ tree[p].kind # "file")
        /\ p \in seen[l] => /\ p \notin todo[l]
                            /\ tree[p].kind = "file"
                            /\ RowIsRight(p) \/ (lpc[l] \in {"hash", "upsert"} /\ hashing[l].path = p)

Dropped(l, p) ==
    lpc[l] = "drop" =>
        /\ p \notin seen[l] => tree[p].kind # "file" /\ (p \in todo[l] \/ files[p] = NoRow)
        /\ p \in seen[l] => p \notin todo[l] /\ RowIsRight(p)

Reconciled(l, p) == lpc[l] = "done" => RowIsRight(p)

Visits(l, p) == Opened(l, p) /\ Scanned(l, p) /\ Dropped(l, p) /\ Reconciled(l, p)

ListingInv(l) ==
    /\ Fresh(l)
    /\ l \in quiet => Carried(l) /\ \A p \in InFolder(folder[l]) : Visits(l, p)

ListInv == \A l \in Listers : ListingInv(l)

\* Locals of l as they were.
Untouched(l) ==
    /\ lpc'[l] = lpc[l] /\ folder'[l] = folder[l] /\ indexed'[l] = indexed[l]
    /\ todo'[l] = todo[l] /\ seen'[l] = seen[l] /\ hashing'[l] = hashing[l]

\* A step of others keeps a listing's invariant: it disturbs the listing or
\* changes neither the volume nor the rows.
LEMMA OthersKeep ==
    ASSUME NEW l \in Listers, ListingInv(l), Untouched(l),
           l \in quiet' => l \in quiet /\ UNCHANGED <<tree, files>>
    PROVE  ListingInv(l)'
<1>1. Fresh(l)'
  BY DEF ListingInv, Fresh, Untouched
<1>2. ASSUME l \in quiet' PROVE Carried(l)' /\ \A p \in InFolder(folder'[l]) : Visits(l, p)'
  <2>1. Carried(l)'
    BY <1>2 DEF ListingInv, Carried, Untouched
  <2>2. ASSUME NEW p \in InFolder(folder'[l]) PROVE Visits(l, p)'
    <3>1. Visits(l, p) /\ UNCHANGED <<tree, files>>
      BY <1>2, <2>2 DEF ListingInv, Untouched
    <3> QED BY <3>1 DEF Visits, Opened, Scanned, Dropped, Reconciled, RowIsRight, Untouched
  <2> QED BY <2>1, <2>2
<1> QED BY <1>1, <1>2 DEF ListingInv, InFolder

\* A request disturbs every listing or changes nothing a listing reads.
LEMMA RequestDisturbs ==
    ASSUME NEW r \in Requests, ClientStep(r) \/ BackendStep(r) \/ FaultStep(r)
    PROVE  UNCHANGED listing /\ (quiet' = {} \/ UNCHANGED <<tree, files, quiet>>)
BY DEF ClientStep, BackendStep, FaultStep, UploadStart, DeleteFolderStart, DeleteFileStart, DeleteStart,
     CreateSiteStart, DeleteSiteStart, UploadReceived, UploadAborted, UploadRefused, Refuse, UploadPlace,
     UploadPlaceFails, UploadIndex, DeleteFileRefused, DeleteFileUnlink, DeleteFileRow, DeleteFolderRefused,
     DeleteFolderBegin, DeleteFolderRemove, DeleteFolderRows, CreateSiteRefused, CreateSiteMkdir,
     CreateSiteInsert, DeleteSitePark, DeleteSiteRow, DeleteSitePurge, SectionFails, CreateSiteFails,
     Disturb, volume, index

\* A listing's step leaves the other listings alone or disturbs them.
LEMMA ListerDisturbs ==
    ASSUME TypeOK, NEW l \in Listers, (\E f \in Folders : ListStart(l, f)) \/ ListStep(l),
           NEW m \in Listers, m # l
    PROVE  Untouched(m) /\ (m \in quiet' => m \in quiet /\ UNCHANGED <<tree, files>>)
<1>0. /\ lpc \in [Listers -> LPC] /\ folder \in [Listers -> Folders]
      /\ indexed \in [Listers -> [Paths -> Row]] /\ todo \in [Listers -> SUBSET Paths]
      /\ seen \in [Listers -> SUBSET Paths] /\ hashing \in [Listers -> Hashing]
  BY DEF TypeOK, ListerType
<1>1. CASE \E f \in Folders : ListStart(l, f)
  BY <1>0, <1>1 DEF ListStart, ListerReads, LGo, Untouched, volume, index
<1>2. CASE ListNoFolder(l) \/ ListOpenFails(l) \/ ListHashFails(l) \/ ListUpsertFails(l) \/ ListAnswer(l)
  BY <1>0, <1>2 DEF ListNoFolder, ListOpenFails, ListHashFails, ListUpsertFails, ListAnswer, LEnd,
     ListerReads, LGo, Untouched, volume, index
<1>3. CASE ListFound(l) \/ ListIndexed(l) \/ ListOpen(l) \/ ListHash(l) \/ ListScanned(l) \/ ListDone(l)
  BY <1>0, <1>3 DEF ListFound, ListIndexed, ListOpen, ListHash, ListScanned, ListDone,
     ListerReads, LGo, Untouched, volume, index
<1>4. CASE \E p \in Paths : ListSkip(l, p) \/ ListStat(l, p)
  BY <1>0, <1>4 DEF ListSkip, ListStat, ListerReads, LGo, Untouched, volume, index
<1>5. CASE ListUpsert(l) \/ \E p \in Paths : ListDrop(l, p)
  BY <1>0, <1>5 DEF ListUpsert, ListDrop, ListerWrites, LGo, Untouched
<1> QED BY <1>1, <1>2, <1>3, <1>4, <1>5 DEF ListStep

\* The listing's own steps: one case per action.
LEMMA ListerReconciles ==
    ASSUME TypeOK, TrustedRowsAreTrue, NEW l \in Listers, ListingInv(l),
           (\E f \in Folders : ListStart(l, f)) \/ ListStep(l)
    PROVE  ListingInv(l)'
<1>0. /\ lpc \in [Listers -> LPC] /\ folder \in [Listers -> Folders]
      /\ indexed \in [Listers -> [Paths -> Row]] /\ todo \in [Listers -> SUBSET Paths]
      /\ seen \in [Listers -> SUBSET Paths] /\ hashing \in [Listers -> Hashing]
      /\ files \in [Paths -> Row]
  BY DEF TypeOK, VolumeType, ListerType
<1>m. Missing.kind # "file"
  BY DEF Missing
<1>f. \A f : InFolder(f) \subseteq Paths
  BY DEF InFolder
<1> USE <1>0, <1>m, <1>f
<1>s. ASSUME Fresh(l)', l \in quiet' => Carried(l)',
             \A p \in InFolder(folder'[l]) : l \in quiet' => Visits(l, p)'
      PROVE  ListingInv(l)'
  BY <1>s DEF ListingInv, InFolder
\* Before the folder is opened and after the listing's end there is nothing to say.
<1>e. ASSUME lpc'[l] \in {"idle", "queued", "found"}, seen'[l] = {} PROVE ListingInv(l)'
  <2>1. Fresh(l)' /\ Carried(l)'
    BY <1>e DEF Fresh, Carried
  <2>2. \A p \in InFolder(folder'[l]) : Visits(l, p)'
    BY <1>e DEF Visits, Opened, Scanned, Dropped, Reconciled
  <2> QED BY <1>s, <2>1, <2>2
<1>1. CASE \E f \in Folders : ListStart(l, f)
  BY <1>1, <1>e DEF ListStart, LGo, ListingInv, Fresh
<1>2. CASE ListNoFolder(l) \/ ListOpenFails(l) \/ ListHashFails(l) \/ ListUpsertFails(l) \/ ListAnswer(l)
  BY <1>2, <1>e DEF ListNoFolder, ListOpenFails, ListHashFails, ListUpsertFails, ListAnswer, LEnd, LGo
<1>3. CASE ListFound(l)
  BY <1>3, <1>e DEF ListFound, LGo, ListingInv, Fresh
<1>4. CASE ListIndexed(l)
  <2>1. /\ lpc' = [lpc EXCEPT ![l] = "open"] /\ lpc[l] = "found"
        /\ indexed' = [indexed EXCEPT ![l] = [p \in Paths |-> IF p \in InFolder(folder[l]) THEN files[p] ELSE NoRow]]
        /\ UNCHANGED <<tree, files, folder, seen>>
    BY <1>4 DEF ListIndexed, LGo, volume, index
  <2>2. Fresh(l)' /\ Carried(l)'
    BY <2>1 DEF ListingInv, Fresh, Carried
  <2>3. \A p \in InFolder(folder'[l]) : Visits(l, p)'
    BY <2>1 DEF Visits, Opened, Scanned, Dropped, Reconciled
  <2> QED BY <1>s, <2>2, <2>3
<1>5. CASE ListOpen(l)
  <2>1. /\ lpc' = [lpc EXCEPT ![l] = "scan"] /\ lpc[l] = "open"
        /\ todo' = [todo EXCEPT ![l] = {p \in InFolder(folder[l]) : tree[p] # Missing}]
        /\ UNCHANGED <<tree, files, folder, indexed, seen, quiet>>
    BY <1>5 DEF ListOpen, ListerReads, LGo, volume, index
  <2>2. Fresh(l)' /\ Carried(l)' /\ seen[l] = {}
    BY <2>1 DEF ListingInv, Fresh, Carried
  <2>3. ASSUME NEW p \in InFolder(folder'[l]), l \in quiet' PROVE Visits(l, p)'
    <3>1. files[p] = indexed[l][p]
      BY <2>1, <2>3 DEF ListingInv, Visits, Opened
    <3>2. p \in todo'[l] \/ tree[p].kind # "file"
      BY <2>1, <2>3
    <3> QED BY <2>1, <2>2, <3>1, <3>2 DEF Visits, Opened, Scanned, Dropped, Reconciled
  <2> QED BY <1>s, <2>2, <2>3
<1>6. ASSUME NEW q \in Paths, ListSkip(l, q) PROVE ListingInv(l)'
  <2>1. /\ lpc[l] = "scan" /\ tree[q].kind # "file"
        /\ todo' = [todo EXCEPT ![l] = @ \ {q}]
        /\ UNCHANGED <<tree, files, lpc, folder, indexed, seen, hashing, quiet>>
    BY <1>6 DEF ListSkip, ListerReads, volume, index
  <2>2. Fresh(l)' /\ Carried(l)'
    BY <2>1 DEF Fresh, Carried
  <2>3. ASSUME NEW p \in InFolder(folder'[l]), l \in quiet' PROVE Visits(l, p)'
    <3>1. Scanned(l, p)
      BY <2>1, <2>3 DEF ListingInv, Visits
    <3> QED BY <2>1, <3>1 DEF Visits, Opened, Scanned, Dropped, Reconciled, RowIsRight
  <2> QED BY <1>s, <2>2, <2>3
<1>7. ASSUME NEW q \in Paths, ListStat(l, q) PROVE ListingInv(l)'
  <2>1. /\ lpc[l] = "scan" /\ tree[q].kind = "file" /\ q \in todo[l]
        /\ todo' = [todo EXCEPT ![l] = @ \ {q}]
        /\ seen' = [seen EXCEPT ![l] = @ \cup {q}]
        /\ UNCHANGED <<tree, files, folder, indexed, quiet>>
    BY <1>7 DEF ListStat, ListerReads, volume, index
  <2>2. \/ indexed[l][q].st = tree[q].ver /\ UNCHANGED <<lpc, hashing>>
        \/ /\ hashing' = [hashing EXCEPT ![l] = [path |-> q, st |-> tree[q].ver, sha |-> 0]]
           /\ lpc' = [lpc EXCEPT ![l] = "hash"]
    BY <1>7 DEF ListStat, LGo, Trusted
  <2>3. lpc'[l] \in {"scan", "hash"} /\ (lpc'[l] = "hash" => hashing'[l].path = q /\ hashing'[l].st = tree[q].ver)
    BY <2>1, <2>2
  <2>4. Fresh(l)' /\ Carried(l)'
    BY <2>1, <2>3 DEF Fresh, Carried
  <2>5. ASSUME NEW p \in InFolder(folder'[l]), l \in quiet' PROVE Visits(l, p)'
    <3>1. Scanned(l, p)
      BY <2>1, <2>5 DEF ListingInv, Visits
    <3>2. CASE p # q
      BY <2>1, <2>3, <3>1, <3>2 DEF Visits, Opened, Scanned, Dropped, Reconciled, RowIsRight
    <3>3. CASE p = q
      <4>1. files[q] = indexed[l][q] /\ q \in seen'[l] /\ q \notin todo'[l]
        BY <2>1, <3>1, <3>3 DEF Scanned
      <4>2. lpc'[l] = "scan" => RowIsRight(q)
        <5> SUFFICES ASSUME lpc'[l] = "scan" PROVE RowIsRight(q)
          OBVIOUS
        <5>1. files[q].st = tree[q].ver
          BY <2>2, <4>1
        <5>2. files[q].sha = tree[q].ver
          BY <2>1, <5>1 DEF TrustedRowsAreTrue, Trusted
        <5>3. files[q] = [st |-> tree[q].ver, sha |-> tree[q].ver]
          BY <5>1, <5>2 DEF Row
        <5> QED BY <2>1, <5>3 DEF RowIsRight
      <4>3. lpc'[l] = "scan" => RowIsRight(q)'
        BY <2>1, <4>2 DEF RowIsRight
      <4> QED BY <2>1, <2>3, <3>3, <4>1, <4>3 DEF Visits, Opened, Scanned, Dropped, Reconciled
    <3> QED BY <3>2, <3>3
  <2> QED BY <1>s, <2>4, <2>5
<1>8. CASE ListHash(l)
  <2>1. /\ lpc[l] = "hash" /\ lpc' = [lpc EXCEPT ![l] = "upsert"]
        /\ hashing' = [hashing EXCEPT ![l] = [path |-> hashing[l].path, st |-> hashing[l].st,
                                              sha |-> tree[hashing[l].path].ver]]
        /\ UNCHANGED <<tree, files, folder, indexed, todo, seen, quiet>>
    BY <1>8 DEF ListHash, ListerReads, LGo, volume, index
  <2>2. /\ lpc'[l] = "upsert" /\ hashing'[l].path = hashing[l].path
        /\ hashing'[l].st = hashing[l].st /\ hashing'[l].sha = tree[hashing[l].path].ver
    BY <2>1
  <2>3. Fresh(l)' /\ (l \in quiet' => Carried(l)')
    BY <2>1, <2>2 DEF ListingInv, Fresh, Carried
  <2>4. ASSUME NEW p \in InFolder(folder'[l]), l \in quiet' PROVE Visits(l, p)'
    <3>1. Scanned(l, p)
      BY <2>1, <2>4 DEF ListingInv, Visits
    <3> QED BY <2>1, <2>2, <3>1 DEF Visits, Opened, Scanned, Dropped, Reconciled, RowIsRight
  <2> QED BY <1>s, <2>3, <2>4
<1>9. CASE ListUpsert(l)
  <2>1. /\ lpc[l] = "upsert" /\ lpc' = [lpc EXCEPT ![l] = "scan"]
        /\ files' = [files EXCEPT ![hashing[l].path] = [st |-> hashing[l].st, sha |-> hashing[l].sha]]
        /\ quiet' \subseteq quiet
        /\ UNCHANGED <<tree, folder, indexed, todo, seen>>
    BY <1>9 DEF ListUpsert, ListerWrites, LGo, volume
  <2>2. Fresh(l)' /\ Carried(l)'
    BY <2>1 DEF Fresh, Carried
  <2>3. ASSUME NEW p \in InFolder(folder'[l]), l \in quiet' PROVE Visits(l, p)'
    <3>1. Scanned(l, p) /\ Carried(l) /\ p \in Paths
      BY <2>1, <2>3 DEF ListingInv, Visits
    <3>2. CASE p # hashing[l].path
      BY <2>1, <3>1, <3>2 DEF Visits, Opened, Scanned, Dropped, Reconciled, RowIsRight
    <3>3. CASE p = hashing[l].path
      <4>1. p \in seen[l] /\ files'[p] = [st |-> tree[p].ver, sha |-> tree[p].ver]
        BY <2>1, <3>1, <3>3 DEF Carried
      <4>2. RowIsRight(p)'
        BY <2>1, <3>1, <4>1 DEF RowIsRight, Scanned
      <4> QED BY <2>1, <3>1, <4>1, <4>2 DEF Visits, Opened, Scanned, Dropped, Reconciled
    <3> QED BY <3>2, <3>3
  <2> QED BY <1>s, <2>2, <2>3
<1>10. CASE ListScanned(l)
  <2>1. /\ lpc[l] = "scan" /\ lpc' = [lpc EXCEPT ![l] = "drop"] /\ todo[l] = {}
        /\ todo' = [todo EXCEPT ![l] = {p \in Paths : indexed[l][p] # NoRow} \ seen[l]]
        /\ UNCHANGED <<tree, files, folder, indexed, seen, hashing, quiet>>
    BY <1>10 DEF ListScanned, ListerReads, LGo, volume, index
  <2>2. Fresh(l)' /\ Carried(l)'
    BY <2>1 DEF Fresh, Carried
  <2>3. ASSUME NEW p \in InFolder(folder'[l]), l \in quiet' PROVE Visits(l, p)'
    <3>1. Scanned(l, p) /\ p \in Paths
      BY <2>1, <2>3 DEF ListingInv, Visits
    <3>2. CASE p \in seen[l]
      BY <2>1, <3>1, <3>2 DEF Visits, Opened, Scanned, Dropped, Reconciled, RowIsRight
    <3>3. CASE p \notin seen[l]
      BY <2>1, <3>1, <3>3 DEF Visits, Opened, Scanned, Dropped, Reconciled
    <3> QED BY <3>2, <3>3
  <2> QED BY <1>s, <2>2, <2>3
<1>11. ASSUME NEW q \in Paths, ListDrop(l, q) PROVE ListingInv(l)'
  <2>1. /\ lpc[l] = "drop" /\ q \in todo[l]
        /\ files' = [files EXCEPT ![q] = NoRow]
        /\ todo' = [todo EXCEPT ![l] = @ \ {q}]
        /\ quiet' \subseteq quiet
        /\ UNCHANGED <<tree, lpc, folder, indexed, seen, hashing>>
    BY <1>11 DEF ListDrop, ListerWrites, volume
  <2>2. Fresh(l)' /\ Carried(l)'
    BY <2>1 DEF Fresh, Carried
  <2>3. ASSUME NEW p \in InFolder(folder'[l]), l \in quiet' PROVE Visits(l, p)'
    <3>1. Dropped(l, p) /\ p \in Paths
      BY <2>1, <2>3 DEF ListingInv, Visits
    <3> QED BY <2>1, <3>1 DEF Visits, Opened, Scanned, Dropped, Reconciled, RowIsRight
  <2> QED BY <1>s, <2>2, <2>3
<1>12. CASE ListDone(l)
  <2>1. /\ lpc[l] = "drop" /\ lpc' = [lpc EXCEPT ![l] = "done"] /\ todo[l] = {}
        /\ UNCHANGED <<tree, files, folder, indexed, todo, seen, hashing, quiet>>
    BY <1>12 DEF ListDone, ListerReads, LGo, volume, index
  <2>2. Fresh(l)' /\ Carried(l)'
    BY <2>1 DEF Fresh, Carried
  <2>3. ASSUME NEW p \in InFolder(folder'[l]), l \in quiet' PROVE Visits(l, p)'
    <3>1. Dropped(l, p)
      BY <2>1, <2>3 DEF ListingInv, Visits
    <3> QED BY <2>1, <3>1 DEF Visits, Opened, Scanned, Dropped, Reconciled, RowIsRight
  <2> QED BY <1>s, <2>2, <2>3
<1> QED BY <1>1, <1>2, <1>3, <1>4, <1>5, <1>6, <1>7, <1>8, <1>9, <1>10, <1>11, <1>12 DEF ListStep

\* Every step keeps the listings' invariant.
LEMMA NextList ==
    ASSUME TypeInv, WorkInv, TrustInv, ListInv, [Next]_vars
    PROVE  ListInv'
<1>0. TypeOK /\ TrustedRowsAreTrue
  BY DEF TypeInv, TrustInv
<1> SUFFICES ASSUME NEW m \in Listers PROVE ListingInv(m)'
  BY DEF ListInv
<1>m. ListingInv(m)
  BY DEF ListInv
<1>1. CASE UNCHANGED vars
  BY <1>1, <1>m, OthersKeep DEF vars, Untouched
<1>2. ASSUME NEW r \in Requests, ClientStep(r) \/ BackendStep(r) \/ FaultStep(r) PROVE ListingInv(m)'
  BY <1>2, <1>m, RequestDisturbs, OthersKeep DEF listing, Untouched
<1>3. ASSUME NEW l \in Listers, (\E f \in Folders : ListStart(l, f)) \/ ListStep(l) PROVE ListingInv(m)'
  <2>1. CASE m = l
    BY <1>0, <1>3, <1>m, <2>1, ListerReconciles
  <2>2. CASE m # l
    BY <1>0, <1>3, <1>m, <2>2, ListerDisturbs, OthersKeep
  <2> QED BY <2>1, <2>2
<1>4. CASE OperatorStep
  <2>1. CASE Crash
    BY <2>1 DEF Crash, ListingInv, Fresh
  <2>2. CASE ~up /\ UNCHANGED listing /\ UNCHANGED quiet
    BY <1>m, <2>2, OthersKeep DEF listing, Untouched, WorkInv, Down
  <2> QED BY <1>4, <2>1, <2>2 DEF OperatorStep, Restart, RestoreWithout, RestoreWith
<1> QED BY <1>1, <1>2, <1>3, <1>4 DEF Next

\* A listing that nothing disturbed leaves the rows of its folder exactly
\* those of the files in it, for any folder and any rows it started from,
\* with other listings, requests, faults and restores around it (list_folder).
THEOREM Reconciles == Spec => []UndisturbedListingReconciles
<1>1. Init => TrustInv /\ ListInv
  BY InitTrust DEF Init, ListInv, ListingInv, Fresh
<1>2. (TypeInv /\ WorkInv) /\ (TypeInv /\ WorkInv)' /\ TrustInv /\ ListInv /\ [Next]_vars => (TrustInv /\ ListInv)'
  BY NextTrust, NextList
<1>3. Spec => [](TrustInv /\ ListInv)
  BY <1>1, <1>2, WorkInvariant, PTL DEF Spec
<1>4. TrustInv /\ ListInv => UndisturbedListingReconciles
  BY DEF ListInv, ListingInv, Visits, Reconciled, UndisturbedListingReconciles
<1> QED BY <1>3, <1>4, PTL
----------------------------------------------------------------------------
(***************************************************************************)
(* Without faults.  When no call fails and the service does not stop, the  *)
(* volume, the rows and the requests agree; the three results below rest   *)
(* on it.                                                                  *)
(***************************************************************************)

\* What a request at each place is doing.
Stages ==
    \A r \in Requests :
        /\ pc[r] = "idle" => req[r] = NoReq
        /\ pc[r] = "waiting" => req[r].op # "none"
        /\ pc[r] \in {"receiving", "placed"} => req[r].op = "upload"
        /\ pc[r] = "unlinked" => req[r].op = "deleteFile"
        /\ pc[r] = "removing" => req[r].op = "deleteFolder"
        /\ pc[r] \in {"parked", "purging"} => req[r].op = "deleteSite"
        /\ pc[r] = "made" => req[r].op = "createSite"
        /\ req[r].op \in {"createSite", "deleteSite"} => req[r].site # 0

\* The volume is a tree of files and folders below the site's folder.
VolumeIsTree ==
    \A p \in Paths :
        /\ tree[p] = Missing \/ tree[p] = Folder \/ (tree[p].kind = "file" /\ tree[p].ver # 0)
        /\ tree[p] # Missing => root /\ \A q \in Ancestors[p] : tree[q] = Folder

\* The site's folder and its row come and go together but inside a creation
\* or a deletion, when the folder is empty or gone.
SiteAgrees ==
    /\ SiteFolderHasRow
    /\ \A r \in Requests : pc[r] \in {"parked", "made"} => \A p \in Paths : tree[p] = Missing
    /\ \A r \in Requests : pc[r] = "parked" => ~root

CleanInv == up /\ faults = 0 /\ Stages /\ VolumeIsTree /\ SiteAgrees

\* The three kinds of entry differ.
LEMMA Kinds ==
    /\ Missing.kind = "missing" /\ Folder.kind = "folder" /\ Special.kind = "special"
    /\ \A v : File(v).kind = "file" /\ File(v).ver = v
    /\ Missing.ver = 0 /\ Folder.ver = 0 /\ Missing # Folder
BY DEF Missing, Folder, Special, File

\* A request's step keeps volume, rows and requests in agreement.
LEMMA RequestClean ==
    ASSUME MaxFaults = 0, TypeInv, WorkInv, TrustInv, CleanInv,
           NEW r \in Requests, ClientStep(r) \/ BackendStep(r) \/ FaultStep(r)
    PROVE  CleanInv'
<1>0. /\ tree \in [Paths -> Node] /\ pc \in [Requests -> PC] /\ req \in [Requests -> Req]
      /\ row \in 0 .. MaxSites /\ nextSite \in 1 .. MaxSites + 1 /\ Stages /\ VolumeIsTree /\ SiteAgrees
  BY DEF TypeInv, TypeOK, VolumeType, RequestType, CountType, CleanInv
<1>n. NoReq.op = "none"
  BY DEF NoReq
<1>t. ASSUME tree' = tree, root => root' PROVE VolumeIsTree'
  BY <1>0, <1>t DEF VolumeIsTree
<1>s. ASSUME tree' = tree, root' = root, row' = row,
             \A q \in Requests : pc'[q] \in {"parked", "made"} <=> pc[q] \in {"parked", "made"},
             \A q \in Requests : pc'[q] = "made" <=> pc[q] = "made"
      PROVE  SiteAgrees'
  BY <1>0, <1>s DEF SiteAgrees, SiteFolderHasRow
<1>c. ASSUME faults' = faults, up' = up, Stages', VolumeIsTree', SiteAgrees' PROVE CleanInv'
  BY <1>c DEF CleanInv
<1> USE <1>0, <1>n DEF Go, Answer, Disturb, Release, volume, index, staging, counts
<1>1. ASSUME NEW p \in Paths, NEW flag \in BOOLEAN, UploadStart(r, p, flag) PROVE CleanInv'
  <2>1. faults' = faults /\ up' = up
    BY <1>1 DEF UploadStart
  <2>2. Stages'
    BY <1>1 DEF UploadStart, Stages
  <2>3. VolumeIsTree'
    BY <1>1, <1>t DEF UploadStart
  <2>4. SiteAgrees'
    BY <1>1, <1>s DEF UploadStart
  <2> QED BY <1>c, <2>1, <2>2, <2>3, <2>4
<1>2. ASSUME NEW p \in Paths, NEW flag \in BOOLEAN, DeleteFolderStart(r, p, flag) PROVE CleanInv'
  <2>1. faults' = faults /\ up' = up
    BY <1>2 DEF DeleteFolderStart, DeleteStart
  <2>2. Stages'
    BY <1>2 DEF DeleteFolderStart, DeleteStart, Stages
  <2>3. VolumeIsTree'
    BY <1>2, <1>t DEF DeleteFolderStart, DeleteStart
  <2>4. SiteAgrees'
    BY <1>2, <1>s DEF DeleteFolderStart, DeleteStart
  <2> QED BY <1>c, <2>1, <2>2, <2>3, <2>4
<1>3. ASSUME NEW p \in Paths, DeleteFileStart(r, p) PROVE CleanInv'
  <2>1. faults' = faults /\ up' = up
    BY <1>3 DEF DeleteFileStart, DeleteStart
  <2>2. Stages'
    BY <1>3 DEF DeleteFileStart, DeleteStart, Stages
  <2>3. VolumeIsTree'
    BY <1>3, <1>t DEF DeleteFileStart, DeleteStart
  <2>4. SiteAgrees'
    BY <1>3, <1>s DEF DeleteFileStart, DeleteStart
  <2> QED BY <1>c, <2>1, <2>2, <2>3, <2>4
<1>4. ASSUME CreateSiteStart(r) PROVE CleanInv'
  <2>1. faults' = faults /\ up' = up
    BY <1>4 DEF CreateSiteStart
  <2>2. Stages'
    BY <1>4 DEF CreateSiteStart, Stages
  <2>3. VolumeIsTree'
    BY <1>4, <1>t DEF CreateSiteStart
  <2>4. SiteAgrees'
    BY <1>4, <1>s DEF CreateSiteStart
  <2> QED BY <1>c, <2>1, <2>2, <2>3, <2>4
<1>5. ASSUME DeleteSiteStart(r) PROVE CleanInv'
  <2>1. faults' = faults /\ up' = up
    BY <1>5 DEF DeleteSiteStart, DeleteStart
  <2>2. Stages'
    BY <1>5 DEF DeleteSiteStart, DeleteStart, Stages
  <2>3. VolumeIsTree'
    BY <1>5, <1>t DEF DeleteSiteStart, DeleteStart
  <2>4. SiteAgrees'
    BY <1>5, <1>s DEF DeleteSiteStart, DeleteStart
  <2> QED BY <1>c, <2>1, <2>2, <2>3, <2>4
<1>6. ASSUME UploadReceived(r) PROVE CleanInv'
  <2>1. faults' = faults /\ up' = up
    BY <1>6 DEF UploadReceived
  <2>2. Stages'
    BY <1>6 DEF UploadReceived, Stages
  <2>3. VolumeIsTree'
    BY <1>6, <1>t DEF UploadReceived
  <2>4. SiteAgrees'
    BY <1>6, <1>s DEF UploadReceived
  <2> QED BY <1>c, <2>1, <2>2, <2>3, <2>4
<1>7. ASSUME UploadAborted(r) PROVE CleanInv'
  <2>1. faults' = faults /\ up' = up
    BY <1>7 DEF UploadAborted
  <2>2. Stages'
    BY <1>7 DEF UploadAborted, Stages
  <2>3. VolumeIsTree'
    BY <1>7, <1>t DEF UploadAborted
  <2>4. SiteAgrees'
    BY <1>7, <1>s DEF UploadAborted
  <2> QED BY <1>c, <2>1, <2>2, <2>3, <2>4
<1>8. ASSUME UploadRefused(r) PROVE CleanInv'
  <2>1. faults' = faults /\ up' = up
    BY <1>8 DEF UploadRefused, Refuse
  <2>2. Stages'
    BY <1>8 DEF UploadRefused, Refuse, Stages
  <2>3. VolumeIsTree'
    BY <1>8, <1>t DEF UploadRefused, Refuse
  <2>4. SiteAgrees'
    BY <1>8, <1>s DEF UploadRefused, Refuse
  <2> QED BY <1>c, <2>1, <2>2, <2>3, <2>4
<1>9. ASSUME UploadPlace(r) PROVE CleanInv'
  <2>1. faults' = faults /\ up' = up
    BY <1>9 DEF UploadPlace
  <2>2. Stages'
    BY <1>9 DEF UploadPlace, Stages
  <2> DEFINE p == req[r].path
  <2>p. /\ p \in Paths /\ req[r].ver # 0 /\ p \notin Ancestors[p] /\ Ancestors[p] \subseteq Paths
        /\ \A q \in Ancestors[p] : Ancestors[q] \subseteq Ancestors[p]
    BY <1>9, PathTree DEF UploadPlace, WorkInv, NamesPath, TrustInv, BodiesUnseen, IsUpload
  <2>w. /\ \A q \in Ancestors[p] : tree[q].kind # "file"
        /\ tree[p] # Folder /\ row # 0
    BY <1>9, Kinds DEF UploadPlace, UploadMayLand, WriteTargetOK
  <2>t. /\ \A q \in Paths : tree'[q] = IF q = p THEN File(req[r].ver) ELSE IF q \in Ancestors[p] THEN Folder ELSE tree[q]
        /\ root' = TRUE /\ row' = row
    BY <1>9, <2>p DEF UploadPlace, WithFolders
  <2>3. VolumeIsTree'
    <3> SUFFICES ASSUME NEW q \in Paths
                 PROVE  /\ tree'[q] = Missing \/ tree'[q] = Folder \/ (tree'[q].kind = "file" /\ tree'[q].ver # 0)
                        /\ tree'[q] # Missing => root' /\ \A s \in Ancestors[q] : tree'[s] = Folder
      BY DEF VolumeIsTree
    <3> HIDE DEF p
    <3>1. tree'[q] = Missing \/ tree'[q] = Folder \/ (tree'[q].kind = "file" /\ tree'[q].ver # 0)
      BY <2>p, <2>t, Kinds DEF VolumeIsTree
    <3>2. ASSUME tree'[q] # Missing, NEW s \in Ancestors[q] PROVE tree'[s] = Folder
      <4>1. s \in Paths
        BY PathTree
      <4>2. CASE q = p \/ q \in Ancestors[p]
        BY <2>p, <2>t, <3>2, <4>1, <4>2
      <4>3. CASE ~(q = p \/ q \in Ancestors[p])
        BY <2>p, <2>t, <2>w, <3>2, <4>1, <4>3 DEF VolumeIsTree
      <4> QED BY <4>2, <4>3
    <3> QED BY <2>t, <3>1, <3>2
  <2>4. SiteAgrees'
    <3>1. Holds(r) /\ pc[r] = "waiting" /\ pc' = [pc EXCEPT ![r] = "placed"]
      BY <1>9 DEF UploadPlace
    <3>2. \A q \in Requests : pc'[q] \notin {"parked", "made"}
      BY <3>1, Alone DEF Section
    <3> QED BY <2>t, <2>w, <3>2 DEF SiteAgrees, SiteFolderHasRow
  <2> QED BY <1>c, <2>1, <2>2, <2>3, <2>4
<1>10. ASSUME UploadIndex(r) PROVE CleanInv'
  <2>1. faults' = faults /\ up' = up
    BY <1>10 DEF UploadIndex
  <2>2. Stages'
    BY <1>10 DEF UploadIndex, Stages
  <2>3. VolumeIsTree'
    BY <1>10, <1>t DEF UploadIndex
  <2>4. SiteAgrees'
    BY <1>10, <1>s DEF UploadIndex
  <2> QED BY <1>c, <2>1, <2>2, <2>3, <2>4
<1>11. ASSUME DeleteFileRefused(r) PROVE CleanInv'
  <2>1. faults' = faults /\ up' = up
    BY <1>11 DEF DeleteFileRefused, Refuse
  <2>2. Stages'
    BY <1>11 DEF DeleteFileRefused, Refuse, Stages
  <2>3. VolumeIsTree'
    BY <1>11, <1>t DEF DeleteFileRefused, Refuse
  <2>4. SiteAgrees'
    BY <1>11, <1>s DEF DeleteFileRefused, Refuse
  <2> QED BY <1>c, <2>1, <2>2, <2>3, <2>4
<1>12. ASSUME DeleteFileUnlink(r) PROVE CleanInv'
  <2>1. faults' = faults /\ up' = up
    BY <1>12 DEF DeleteFileUnlink
  <2>2. Stages'
    BY <1>12 DEF DeleteFileUnlink, Stages
  <2>p. /\ req[r].path \in Paths /\ tree[req[r].path].kind = "file"
        /\ tree' = [tree EXCEPT ![req[r].path] = Missing] /\ UNCHANGED <<root, row>>
        /\ pc' = [pc EXCEPT ![r] = "unlinked"] /\ pc[r] = "waiting"
    BY <1>12, PathTree DEF DeleteFileUnlink, WorkInv, NamesPath, KindOf
  <2>q. \A q \in Paths : tree[q] # Missing => req[r].path \notin Ancestors[q]
    BY <2>p, Kinds DEF VolumeIsTree
  <2>3. VolumeIsTree'
    BY <2>p, <2>q, PathTree, Kinds DEF VolumeIsTree
  <2>4. SiteAgrees'
    BY <2>p DEF SiteAgrees, SiteFolderHasRow
  <2> QED BY <1>c, <2>1, <2>2, <2>3, <2>4
<1>13. ASSUME DeleteFileRow(r) PROVE CleanInv'
  <2>1. faults' = faults /\ up' = up
    BY <1>13 DEF DeleteFileRow
  <2>2. Stages'
    BY <1>13 DEF DeleteFileRow, Stages
  <2>3. VolumeIsTree'
    BY <1>13, <1>t DEF DeleteFileRow
  <2>4. SiteAgrees'
    BY <1>13, <1>s DEF DeleteFileRow
  <2> QED BY <1>c, <2>1, <2>2, <2>3, <2>4
<1>14. ASSUME DeleteFolderRefused(r) PROVE CleanInv'
  <2>1. faults' = faults /\ up' = up
    BY <1>14 DEF DeleteFolderRefused, Refuse
  <2>2. Stages'
    BY <1>14 DEF DeleteFolderRefused, Refuse, Stages
  <2>3. VolumeIsTree'
    BY <1>14, <1>t DEF DeleteFolderRefused, Refuse
  <2>4. SiteAgrees'
    BY <1>14, <1>s DEF DeleteFolderRefused, Refuse
  <2> QED BY <1>c, <2>1, <2>2, <2>3, <2>4
<1>15. ASSUME DeleteFolderBegin(r) PROVE CleanInv'
  <2>1. faults' = faults /\ up' = up
    BY <1>15 DEF DeleteFolderBegin
  <2>2. Stages'
    BY <1>15 DEF DeleteFolderBegin, Stages
  <2>3. VolumeIsTree'
    BY <1>15, <1>t DEF DeleteFolderBegin
  <2>4. SiteAgrees'
    BY <1>15, <1>s DEF DeleteFolderBegin
  <2> QED BY <1>c, <2>1, <2>2, <2>3, <2>4
<1>16. ASSUME NEW p \in Paths, DeleteFolderRemove(r, p) PROVE CleanInv'
  <2>1. faults' = faults /\ up' = up
    BY <1>16 DEF DeleteFolderRemove
  <2>2. Stages'
    BY <1>16 DEF DeleteFolderRemove, Stages
  <2>p. tree' = [tree EXCEPT ![p] = Missing] /\ UNCHANGED <<root, row, pc>>
    BY <1>16 DEF DeleteFolderRemove
  <2>q. \A q \in Paths : tree[q] # Missing => p \notin Ancestors[q]
    BY <1>16, PathTree DEF DeleteFolderRemove, Empty, Below
  <2>3. VolumeIsTree'
    BY <2>p, <2>q, PathTree, Kinds DEF VolumeIsTree
  <2>4. SiteAgrees'
    BY <2>p DEF SiteAgrees, SiteFolderHasRow
  <2> QED BY <1>c, <2>1, <2>2, <2>3, <2>4
<1>17. ASSUME DeleteFolderRows(r) PROVE CleanInv'
  <2>1. faults' = faults /\ up' = up
    BY <1>17 DEF DeleteFolderRows
  <2>2. Stages'
    BY <1>17 DEF DeleteFolderRows, Stages
  <2>3. VolumeIsTree'
    BY <1>17, <1>t DEF DeleteFolderRows
  <2>4. SiteAgrees'
    BY <1>17, <1>s DEF DeleteFolderRows
  <2> QED BY <1>c, <2>1, <2>2, <2>3, <2>4
<1>18. ASSUME CreateSiteRefused(r) PROVE CleanInv'
  <2>1. faults' = faults /\ up' = up
    BY <1>18 DEF CreateSiteRefused, Refuse
  <2>2. Stages'
    BY <1>18 DEF CreateSiteRefused, Refuse, Stages
  <2>3. VolumeIsTree'
    BY <1>18, <1>t DEF CreateSiteRefused, Refuse
  <2>4. SiteAgrees'
    BY <1>18, <1>s DEF CreateSiteRefused, Refuse
  <2> QED BY <1>c, <2>1, <2>2, <2>3, <2>4
<1>19. ASSUME CreateSiteMkdir(r) PROVE CleanInv'
  <2>1. faults' = faults /\ up' = up
    BY <1>19 DEF CreateSiteMkdir
  <2>2. Stages'
    BY <1>19 DEF CreateSiteMkdir, Stages
  <2>m. /\ tree' = tree /\ row' = row /\ root' = TRUE /\ ~root /\ Holds(r)
        /\ pc' = [pc EXCEPT ![r] = "made"] /\ pc[r] = "waiting"
    BY <1>19 DEF CreateSiteMkdir
  <2>3. VolumeIsTree'
    BY <2>m, <1>t
  <2>4. SiteAgrees'
    <3>1. \A q \in Requests : pc'[q] # "parked"
      BY <2>m, Alone DEF Section
    <3> QED BY <2>m, <3>1 DEF SiteAgrees, SiteFolderHasRow, VolumeIsTree
  <2> QED BY <1>c, <2>1, <2>2, <2>3, <2>4
<1>20. ASSUME CreateSiteInsert(r) PROVE CleanInv'
  <2>1. faults' = faults /\ up' = up
    BY <1>20 DEF CreateSiteInsert
  <2>2. Stages'
    BY <1>20 DEF CreateSiteInsert, Stages
  <2>m. /\ tree' = tree /\ root' = root /\ row' = req[r].site /\ req[r].site # 0
        /\ pc' = [pc EXCEPT ![r] = "idle"]
    BY <1>20 DEF CreateSiteInsert, Stages
  <2>3. VolumeIsTree'
    BY <2>m, <1>t
  <2>4. SiteAgrees'
    BY <2>m DEF SiteAgrees, SiteFolderHasRow
  <2> QED BY <1>c, <2>1, <2>2, <2>3, <2>4
<1>21. ASSUME DeleteSitePark(r) PROVE CleanInv'
  <2>1. faults' = faults /\ up' = up
    BY <1>21 DEF DeleteSitePark
  <2>2. Stages'
    BY <1>21 DEF DeleteSitePark, Stages
  <2>m. /\ \A p \in Paths : tree'[p] = Missing
        /\ root' = FALSE
    BY <1>21 DEF DeleteSitePark
  <2>3. VolumeIsTree'
    BY <2>m DEF VolumeIsTree
  <2>4. SiteAgrees'
    BY <2>m DEF SiteAgrees, SiteFolderHasRow
  <2> QED BY <1>c, <2>1, <2>2, <2>3, <2>4
<1>22. ASSUME DeleteSiteRow(r) PROVE CleanInv'
  <2>1. faults' = faults /\ up' = up
    BY <1>22 DEF DeleteSiteRow
  <2>2. Stages'
    BY <1>22 DEF DeleteSiteRow, Stages
  <2>3. VolumeIsTree'
    BY <1>22, <1>t DEF DeleteSiteRow
  <2>4. SiteAgrees'
    <3>1. tree' = tree /\ root' = root /\ pc[r] = "parked"
      BY <1>22 DEF DeleteSiteRow
    <3> QED BY <3>1 DEF SiteAgrees, SiteFolderHasRow
  <2> QED BY <1>c, <2>1, <2>2, <2>3, <2>4
<1>23. ASSUME DeleteSitePurge(r) PROVE CleanInv'
  <2>1. faults' = faults /\ up' = up
    BY <1>23 DEF DeleteSitePurge
  <2>2. Stages'
    BY <1>23 DEF DeleteSitePurge, Stages
  <2>3. VolumeIsTree'
    BY <1>23, <1>t DEF DeleteSitePurge
  <2>4. SiteAgrees'
    BY <1>23, <1>s DEF DeleteSitePurge
  <2> QED BY <1>c, <2>1, <2>2, <2>3, <2>4
<1>f. ~FaultStep(r)
  BY DEF FaultStep, UploadPlaceFails, SectionFails, CreateSiteFails, Fault, CleanInv
<1> QED
  BY <1>f, <1>1, <1>2, <1>3, <1>4, <1>5, <1>6, <1>7, <1>8, <1>9, <1>10, <1>11, <1>12, <1>13, <1>14, <1>15, <1>16, <1>17, <1>18, <1>19, <1>20, <1>21, <1>22, <1>23
  DEF ClientStep, BackendStep

\* Without faults the invariant holds throughout.
LEMMA CleanInvariant ==
    ASSUME MaxFaults = 0
    PROVE  Spec => [](TypeInv /\ WorkInv /\ TrustInv /\ CleanInv)
<1>1. Init => TrustInv /\ CleanInv
  BY InitTrust DEF Init, CleanInv, Stages, VolumeIsTree, SiteAgrees, SiteFolderHasRow, NoReq
<1>2. (TypeInv /\ WorkInv) /\ TrustInv /\ CleanInv /\ [Next]_vars => (TrustInv /\ CleanInv)'
  <2> SUFFICES ASSUME TypeInv, WorkInv, TrustInv, CleanInv, [Next]_vars PROVE CleanInv'
    BY NextTrust
  <2>1. CASE UNCHANGED vars
    BY <2>1 DEF vars, CleanInv, Stages, VolumeIsTree, SiteAgrees, SiteFolderHasRow
  <2>2. ASSUME NEW l \in Listers, (\E f \in Folders : ListStart(l, f)) \/ ListStep(l) PROVE CleanInv'
    <3>1. UNCHANGED <<up, faults, root, tree, row, pc, req>>
      BY <2>2 DEF ListStep, ListStart, ListNoFolder, ListFound, ListIndexed, ListOpen, ListOpenFails, ListSkip,
             ListStat, ListHash, ListHashFails, ListUpsert, ListUpsertFails, ListScanned, ListDrop, ListDone,
             ListAnswer, ListerReads, ListerWrites, volume, index, counts
    <3> QED BY <3>1 DEF CleanInv, Stages, VolumeIsTree, SiteAgrees, SiteFolderHasRow
  <2>3. ~OperatorStep
    BY DEF OperatorStep, Crash, Restart, RestoreWithout, RestoreWith, Fault, CleanInv
  <2> QED BY <2>1, <2>2, <2>3, RequestClean DEF Next
<1> QED BY <1>1, <1>2, WorkInvariant, PTL DEF Spec

\* Without faults, a folder under sites/ belongs to a site whatever requests
\* and listings overlap: no upload brings back the folder of a site deleted
\* while its body was received (write_file, create_site, delete_site).
THEOREM FolderHasRow ==
    ASSUME MaxFaults = 0
    PROVE  Spec => []SiteFolderHasRow
<1>1. TypeInv /\ WorkInv /\ TrustInv /\ CleanInv => SiteFolderHasRow
  BY DEF CleanInv, SiteAgrees
<1> QED BY <1>1, CleanInvariant, PTL
----------------------------------------------------------------------------
(***************************************************************************)
(* The index stays exact without faults and listings: a row that is wrong  *)
(* is one a request in its section is about to put right.                  *)
(***************************************************************************)

\* The request r is about to write or drop the row of p.
Busy(r, p) ==
    \/ pc[r] \in {"placed", "unlinked"} /\ req[r].path = p
    \/ pc[r] = "removing" /\ req[r].path \in Ancestors[p]
    \/ pc[r] = "parked"

RowsRightOrBusy == \A p \in Paths : RowIsRight(p) \/ \E r \in Requests : Busy(r, p)

\* What an upload placed, or a deletion removed, is still so when the row is written.
Landed ==
    \A r \in Requests :
        /\ pc[r] = "placed" => tree[req[r].path] = File(req[r].ver)
        /\ pc[r] = "unlinked" => tree[req[r].path] = Missing

IndexInv == RowsRightOrBusy /\ Landed

\* Steps outside the sections' changes.
LEMMA IndexUntouched ==
    ASSUME IndexInv, UNCHANGED <<tree, files>>,
           \A r \in Requests : pc[r] \in Section \ {"made"} => pc'[r] = pc[r] /\ req'[r] = req[r],
           \A r \in Requests : pc'[r] \in {"placed", "unlinked"} => pc[r] = pc'[r]
    PROVE  IndexInv'
<1>1. Landed'
  BY DEF IndexInv, Landed, Section
<1>2. ASSUME NEW p \in Paths PROVE RowIsRight(p)' \/ \E r \in Requests : Busy(r, p)'
  <2>1. CASE RowIsRight(p)
    BY <2>1 DEF RowIsRight
  <2>2. ASSUME NEW r \in Requests, Busy(r, p) PROVE Busy(r, p)'
    BY <2>2 DEF Busy, Section
  <2> QED BY <2>1, <2>2 DEF IndexInv, RowsRightOrBusy
<1> QED BY <1>1, <1>2 DEF IndexInv, RowsRightOrBusy

\* Who holds the lock is the only one to be busy.
LEMMA OnlyHolderBusy ==
    ASSUME TypeInv, IndexInv, NEW r \in Requests, Holds(r), NEW p \in Paths
    PROVE  RowIsRight(p) \/ Busy(r, p)
BY Alone DEF IndexInv, RowsRightOrBusy, Busy, Section

\* A request's step: the ones that change the volume, the ones that write
\* the rows, and the rest.
LEMMA RequestIndex ==
    ASSUME MaxFaults = 0, TypeInv, WorkInv, CleanInv, IndexInv,
           NEW r \in Requests, ClientStep(r) \/ BackendStep(r) \/ FaultStep(r)
    PROVE  IndexInv'
<1>0. /\ tree \in [Paths -> Node] /\ files \in [Paths -> Row]
      /\ pc \in [Requests -> PC] /\ req \in [Requests -> Req]
      /\ Stages /\ VolumeIsTree /\ NamesPath
  BY DEF TypeInv, TypeOK, VolumeType, RequestType, CleanInv, WorkInv
<1>h. ASSUME Holds(r), NEW q \in Requests, q # r PROVE pc[q] \notin Section
  BY <1>h, Alone
<1>s. ASSUME pc[r] \in Section PROVE Holds(r)
  BY <1>s DEF TypeInv, SectionHolds
<1>w. ASSUME Holds(r), pc[r] = "waiting", NEW p \in Paths PROVE RowIsRight(p)
  BY <1>w, OnlyHolderBusy DEF Busy
\* It is enough to look at r when r has the lock.
<1>r. ASSUME Holds(r), \A q \in Requests \ {r} : pc'[q] = pc[q],
             \A p \in Paths : RowIsRight(p)' \/ Busy(r, p)',
             (pc[r] = "placed" => tree[req[r].path] = File(req[r].ver))',
             (pc[r] = "unlinked" => tree[req[r].path] = Missing)'
      PROVE  IndexInv'
  <2>1. \A q \in Requests \ {r} : pc'[q] \notin {"placed", "unlinked"}
    BY <1>r, <1>h DEF Section
  <2>2. Landed'
    BY <1>r, <2>1 DEF Landed
  <2> QED BY <1>r, <2>2 DEF IndexInv, RowsRightOrBusy
<1> USE <1>0 DEF Go, Answer, Disturb, Release, volume, index, staging
<1>1. CASE UploadPlace(r)
  <2> DEFINE p == req[r].path
  <2>1. /\ p \in Paths /\ p \notin Ancestors[p] /\ Holds(r) /\ pc[r] = "waiting"
        /\ \A q \in Ancestors[p] : tree[q].kind # "file"
        /\ tree' = [WithFolders(Ancestors[p]) EXCEPT ![p] = File(req[r].ver)]
        /\ pc' = [pc EXCEPT ![r] = "placed"] /\ UNCHANGED <<req, files>>
    BY <1>1, PathTree DEF UploadPlace, UploadMayLand, WriteTargetOK, NamesPath
  <2>2. tree'[p] = File(req[r].ver) /\ Busy(r, p)'
    BY <2>1 DEF WithFolders, Busy
  <2>3. ASSUME NEW q \in Paths, q # p PROVE RowIsRight(q)'
    <3>1. RowIsRight(q)
      BY <1>w, <2>1
    <3>2. tree'[q] = tree[q] \/ (tree'[q] = Folder /\ tree[q].kind # "file")
      BY <2>1, <2>3 DEF WithFolders
    <3> QED BY <2>1, <3>1, <3>2, Kinds DEF RowIsRight
  <2> QED BY <1>r, <2>1, <2>2, <2>3
<1>2. CASE DeleteFileUnlink(r)
  <2> DEFINE p == req[r].path
  <2>1. /\ p \in Paths /\ Holds(r) /\ pc[r] = "waiting"
        /\ tree' = [tree EXCEPT ![p] = Missing]
        /\ pc' = [pc EXCEPT ![r] = "unlinked"] /\ UNCHANGED <<req, files>>
    BY <1>2 DEF DeleteFileUnlink, NamesPath
  <2>2. tree'[p] = Missing /\ Busy(r, p)'
    BY <2>1 DEF Busy
  <2>3. ASSUME NEW q \in Paths, q # p PROVE RowIsRight(q)'
    BY <1>w, <2>1, <2>3 DEF RowIsRight
  <2> QED BY <1>r, <2>1, <2>2, <2>3
<1>3. ASSUME NEW p \in Paths, DeleteFolderRemove(r, p) PROVE IndexInv'
  <2>1. /\ tree' = [tree EXCEPT ![p] = Missing] /\ UNCHANGED <<files, pc, req>>
        /\ pc[r] = "removing" /\ (p = req[r].path \/ req[r].path \in Ancestors[p])
    BY <1>3 DEF DeleteFolderRemove
  <2>2. Holds(r)
    BY <1>s, <2>1 DEF Section
  <2>3. tree[req[r].path].kind # "file"
    BY <2>1 DEF WorkInv, RemovalAsked
  <2>4. ASSUME NEW q \in Paths PROVE RowIsRight(q)' \/ Busy(r, q)'
    <3>1. CASE Busy(r, q)
      BY <2>1, <3>1 DEF Busy
    <3>2. CASE RowIsRight(q) /\ ~Busy(r, q)
      <4>1. tree'[q].kind = "file" <=> tree[q].kind = "file"
        BY <2>1, <2>3, <3>2, Kinds DEF Busy
      <4>2. tree'[q].kind = "file" => tree'[q] = tree[q]
        BY <2>1, Kinds
      <4> QED BY <2>1, <3>2, <4>1, <4>2 DEF RowIsRight
    <3> QED BY <2>2, <3>1, <3>2, OnlyHolderBusy
  <2> QED BY <1>r, <2>1, <2>2, <2>4
<1>4. CASE DeleteSitePark(r)
  <2>1. Holds(r) /\ pc' = [pc EXCEPT ![r] = "parked"]
    BY <1>4 DEF DeleteSitePark
  <2> QED BY <1>r, <2>1 DEF Busy
<1>5. CASE UploadIndex(r)
  <2> DEFINE p == req[r].path
  <2>1. /\ pc[r] = "placed" /\ p \in Paths /\ Holds(r) /\ tree[p] = File(req[r].ver)
        /\ files' = [files EXCEPT ![p] = [st |-> req[r].ver, sha |-> req[r].ver]]
        /\ pc' = [pc EXCEPT ![r] = "idle"] /\ tree' = tree
    BY <1>5, <1>s DEF UploadIndex, Stages, NamesPath, Section, IndexInv, Landed
  <2>2. ASSUME NEW q \in Paths PROVE RowIsRight(q)'
    <3>1. CASE q = p
      BY <2>1, <3>1, Kinds DEF RowIsRight
    <3>2. CASE q # p
      <4>1. RowIsRight(q)
        BY <2>1, <3>2, OnlyHolderBusy DEF Busy
      <4> QED BY <2>1, <3>2, <4>1 DEF RowIsRight
    <3> QED BY <3>1, <3>2
  <2> QED BY <1>r, <2>1, <2>2
<1>6. CASE DeleteFileRow(r)
  <2> DEFINE p == req[r].path
  <2>1. /\ pc[r] = "unlinked" /\ p \in Paths /\ Holds(r) /\ tree[p] = Missing
        /\ files' = [files EXCEPT ![p] = NoRow]
        /\ pc' = [pc EXCEPT ![r] = "idle"] /\ tree' = tree
    BY <1>6, <1>s DEF DeleteFileRow, Stages, NamesPath, Section, IndexInv, Landed
  <2>2. ASSUME NEW q \in Paths PROVE RowIsRight(q)'
    <3>1. CASE q = p
      BY <2>1, <3>1, Kinds DEF RowIsRight
    <3>2. CASE q # p
      <4>1. RowIsRight(q)
        BY <2>1, <3>2, OnlyHolderBusy DEF Busy
      <4> QED BY <2>1, <3>2, <4>1 DEF RowIsRight
    <3> QED BY <3>1, <3>2
  <2> QED BY <1>r, <2>1, <2>2
<1>7. CASE DeleteFolderRows(r)
  <2> DEFINE p == req[r].path
  <2>1. /\ pc[r] = "removing" /\ p \in Paths /\ p # Root /\ Holds(r) /\ tree[p] = Missing
        /\ files' = [q \in Paths |-> IF q \in Below(p) THEN NoRow ELSE files[q]]
        /\ pc' = [pc EXCEPT ![r] = "idle"] /\ tree' = tree
    BY <1>7, <1>s, PathTree DEF DeleteFolderRows, Stages, NamesPath, Section
  <2>2. ASSUME NEW q \in Paths PROVE RowIsRight(q)'
    <3>1. CASE p \in Ancestors[q]
      <4>1. tree[q] = Missing
        BY <2>1, <3>1, Kinds DEF VolumeIsTree
      <4>2. files'[q] = NoRow
        BY <2>1, <3>1 DEF Below
      <4> QED BY <2>1, <4>1, <4>2, Kinds DEF RowIsRight
    <3>2. CASE p \notin Ancestors[q]
      <4>1. RowIsRight(q)
        BY <2>1, <3>2, OnlyHolderBusy DEF Busy
      <4>2. files'[q] = files[q]
        BY <2>1, <3>2 DEF Below
      <4> QED BY <2>1, <4>1, <4>2 DEF RowIsRight
    <3> QED BY <3>1, <3>2
  <2> QED BY <1>r, <2>1, <2>2
<1>8. CASE DeleteSiteRow(r)
  <2>1. /\ pc[r] = "parked" /\ Holds(r) /\ files' = NoRows /\ tree' = tree
        /\ pc' = [pc EXCEPT ![r] = "purging"] \/ pc' = [pc EXCEPT ![r] = "idle"]
    BY <1>8, <1>s DEF DeleteSiteRow, Section
  <2>2. \A p \in Paths : tree[p] = Missing
    BY <2>1 DEF CleanInv, SiteAgrees
  <2>3. \A p \in Paths : RowIsRight(p)'
    BY <2>1, <2>2, Kinds DEF RowIsRight, NoRows
  <2> QED BY <1>r, <2>1, <2>3
<1>9. CASE DeleteFolderBegin(r)
  <2>1. UNCHANGED <<tree, files, req>> /\ pc' = [pc EXCEPT ![r] = "removing"] /\ pc[r] = "waiting"
    BY <1>9 DEF DeleteFolderBegin
  <2> QED BY <2>1, IndexUntouched DEF Section
<1>10. CASE CreateSiteInsert(r) \/ CreateSiteMkdir(r) \/ DeleteSitePurge(r)
  <2>1. /\ UNCHANGED <<tree, files>> /\ pc[r] \in {"made", "waiting", "purging"}
        /\ pc' = [pc EXCEPT ![r] = "made"] \/ pc' = [pc EXCEPT ![r] = "idle"]
        /\ req' = req \/ req' = [req EXCEPT ![r] = NoReq]
    BY <1>10 DEF CreateSiteInsert, CreateSiteMkdir, DeleteSitePurge
  <2> QED BY <2>1, IndexUntouched DEF Section
<1>11. CASE \/ UploadReceived(r) \/ UploadAborted(r) \/ UploadRefused(r) \/ DeleteFileRefused(r)
            \/ DeleteFolderRefused(r) \/ CreateSiteRefused(r)
  <2>1. /\ UNCHANGED <<tree, files>> /\ pc[r] \in {"receiving", "waiting"}
        /\ pc' = [pc EXCEPT ![r] = "waiting"] \/ pc' = [pc EXCEPT ![r] = "idle"]
        /\ req' = req \/ req' = [req EXCEPT ![r] = NoReq]
    BY <1>11 DEF UploadReceived, UploadAborted, UploadRefused, DeleteFileRefused, DeleteFolderRefused,
       CreateSiteRefused, Refuse
  <2> QED BY <2>1, IndexUntouched DEF Section
<1>12. CASE \/ \E p \in Paths, flag \in BOOLEAN : UploadStart(r, p, flag) \/ DeleteFolderStart(r, p, flag)
            \/ \E p \in Paths : DeleteFileStart(r, p)
            \/ CreateSiteStart(r) \/ DeleteSiteStart(r)
  <2>1. /\ UNCHANGED <<tree, files>> /\ pc[r] = "idle"
        /\ pc' = [pc EXCEPT ![r] = "waiting"] \/ pc' = [pc EXCEPT ![r] = "receiving"]
        /\ \A q \in Requests \ {r} : req'[q] = req[q]
    BY <1>12 DEF UploadStart, DeleteFolderStart, DeleteFileStart, CreateSiteStart, DeleteSiteStart, DeleteStart
  <2> QED BY <2>1, IndexUntouched DEF Section
<1>f. ~FaultStep(r)
  BY DEF FaultStep, UploadPlaceFails, SectionFails, CreateSiteFails, Fault, CleanInv
<1> QED
  BY <1>1, <1>2, <1>3, <1>4, <1>5, <1>6, <1>7, <1>8, <1>9, <1>10, <1>11, <1>12, <1>f
  DEF ClientStep, BackendStep

\* Without faults and listings, whenever no request is inside its section
\* the rows are exactly those of the files on the volume, for any tree of
\* paths and any number of requests (write_file, delete_file, delete_folder,
\* delete_site).
THEOREM Index ==
    ASSUME MaxFaults = 0, Listers = {}
    PROVE  Spec => []IndexKept
<1>1. Init => IndexInv
  BY Kinds DEF Init, IndexInv, RowsRightOrBusy, Landed, RowIsRight, NoRows
<1>2. (TypeInv /\ WorkInv /\ TrustInv /\ CleanInv) /\ IndexInv /\ [Next]_vars => IndexInv'
  <2> SUFFICES ASSUME TypeInv, WorkInv, CleanInv, IndexInv, [Next]_vars PROVE IndexInv'
    OBVIOUS
  <2>1. CASE UNCHANGED vars
    BY <2>1, IndexUntouched DEF vars
  <2>2. ~OperatorStep
    BY DEF OperatorStep, Crash, Restart, RestoreWithout, RestoreWith, Fault, CleanInv
  <2> QED BY <2>1, <2>2, RequestIndex DEF Next
<1>3. IndexInv => IndexKept
  BY DEF IndexInv, RowsRightOrBusy, Busy, IndexKept
<1> QED BY <1>1, <1>2, <1>3, CleanInvariant, PTL DEF Spec

----------------------------------------------------------------------------
(***************************************************************************)
(* The store implements the contract.  A request takes effect at its       *)
(* change of the volume, or, for a recursive deletion, when that begins:   *)
(* there the rules of SiteTree must decide as the code does, on the tree   *)
(* as it is seen.  Every other step is an arrival, an end or a stutter.    *)
(***************************************************************************)

\* Nobody is where the site or the tree is seen otherwise than it is.
Plainly == \A q \in Requests : pc[q] \notin {"parked", "made", "removing"}

TreeThere ==
    [files |-> [p \in Paths |-> tree[p].ver], folders |-> {p \in Paths : tree[p].kind = "folder"}]

\* Then the site seen is the row's and the tree seen is the volume's.
LEMMA PlainlySeen == Plainly => SiteSeen = row /\ TreeSeen = TreeThere
BY DEF Plainly, SiteSeen, TreeSeen, Hidden, TreeThere

LEMMA PlainlySeenNext == Plainly' => SiteSeen' = row' /\ TreeSeen' = TreeThere'
BY DEF Plainly, SiteSeen, TreeSeen, Hidden, TreeThere

\* The one that creates the site is the only one, so its number is the site's.
LEMMA MadeSeen ==
    ASSUME NEW r \in Requests, pc[r] = "made", \A q \in Requests \ {r} : pc[q] \notin {"made", "parked"}
    PROVE  SiteSeen = req[r].site
<1>1. \A q \in Requests : pc[q] = "made" <=> q = r
  OBVIOUS
<1>2. (CHOOSE q \in Requests : pc[q] = "made") = r
  BY <1>1
<1> QED BY <1>1, <1>2 DEF SiteSeen

LEMMA MadeSeenNext ==
    ASSUME NEW r \in Requests, pc'[r] = "made", \A q \in Requests \ {r} : pc'[q] \notin {"made", "parked"}
    PROVE  SiteSeen' = req'[r].site
<1>1. \A q \in Requests : pc'[q] = "made" <=> q = r
  OBVIOUS
<1>2. (CHOOSE q \in Requests : pc'[q] = "made") = r
  BY <1>1
<1> QED BY <1>1, <1>2 DEF SiteSeen

\* A step of a request at a place where it shows nothing, to another such.
LEMMA SameSeen ==
    ASSUME NEW r \in Requests, UNCHANGED <<tree, row>>,
           \A q \in Requests : pc[q] \notin {"parked", "made"},
           pc[r] # "removing", pc'[r] \notin {"parked", "made", "removing"},
           \A q \in Requests \ {r} : pc'[q] = pc[q] /\ req'[q] = req[q]
    PROVE  UNCHANGED <<SiteSeen, TreeSeen>>
<1>1. \A q \in Requests : pc'[q] \notin {"parked", "made"}
  OBVIOUS
<1>2. SiteSeen = row /\ SiteSeen' = row'
  BY <1>1 DEF SiteSeen
<1>3. \A p \in Paths : Hidden(p)' <=> Hidden(p)
  BY DEF Hidden
<1> QED BY <1>2, <1>3 DEF TreeSeen

EffectAt == MidSection \cup {"removing", "purging"}

\* Which requests have taken effect after r went on.
LEMMA EffectedStep ==
    ASSUME pc \in [Requests -> PC], NEW r \in Requests, NEW to, pc' = [pc EXCEPT ![r] = to]
    PROVE  Effected' = IF to \in EffectAt THEN Effected \cup {r} ELSE Effected \ {r}
BY DEF Effected, EffectAt

\* An end: the request leaves, and what is seen stays.
LEMMA Leaves ==
    ASSUME NEW r, req' = [req EXCEPT ![r] = NoReq], UNCHANGED <<SiteSeen, TreeSeen>>
    PROVE  Contract!Leave(r)
BY DEF Contract!Leave, Contract!NoCall, NoReq

\* A request arrives and finds the site as it is seen.
LEMMA Arrival ==
    ASSUME TypeInv, CleanInv, NEW r \in Requests,
           \/ \E p \in Paths, flag \in BOOLEAN : UploadStart(r, p, flag) \/ DeleteFolderStart(r, p, flag)
           \/ \E p \in Paths : DeleteFileStart(r, p)
           \/ CreateSiteStart(r) \/ DeleteSiteStart(r)
    PROVE  Contract!Next
<1>0. /\ pc \in [Requests -> PC] /\ req \in [Requests -> Req] /\ Stages
      /\ nextVer \in 1 .. MaxVersion + 1 /\ nextSite \in 1 .. MaxSites + 1 /\ MaxVersion \in Nat /\ MaxSites \in Nat
  BY Bounds DEF TypeInv, TypeOK, RequestType, CountType, CleanInv
<1>1. /\ Loop(r) /\ pc[r] = "idle" /\ UNCHANGED <<tree, row>>
      /\ pc' = [pc EXCEPT ![r] = "waiting"] \/ pc' = [pc EXCEPT ![r] = "receiving"]
      /\ \A q \in Requests \ {r} : pc'[q] = pc[q] /\ req'[q] = req[q]
  BY <1>0 DEF UploadStart, DeleteFolderStart, DeleteFileStart, CreateSiteStart, DeleteSiteStart, DeleteStart,
     Go, volume, index
<1>2. \A q \in Requests : pc[q] \notin MidSection
  BY <1>1 DEF Loop, MidSection
<1>3. UNCHANGED <<SiteSeen, TreeSeen>> /\ SiteSeen = row
  <2>1. UNCHANGED <<SiteSeen, TreeSeen>>
    <3>1. pc'[r] \in {"waiting", "receiving"}
      BY <1>0, <1>1
    <3> QED BY <1>1, <1>2, <3>1, SameSeen DEF MidSection
  <2>2. SiteSeen = row
    BY <1>2 DEF SiteSeen, MidSection
  <2> QED BY <2>1, <2>2
<1>4. UNCHANGED Effected
  <2>1. r \notin Effected
    BY <1>1 DEF Effected, MidSection
  <2> QED BY <1>0, <1>1, <2>1, EffectedStep DEF EffectAt, MidSection
<1>5. req[r] = Contract!NoCall
  BY <1>0, <1>1 DEF Stages, NoReq, Contract!NoCall
<1>6. ASSUME NEW c, req' = [req EXCEPT ![r] = c] PROVE Contract!Arrive(r, c)
  BY <1>3, <1>4, <1>5, <1>6 DEF Contract!Arrive
<1>7. Contract!Arrives(r)
  <2>1. ASSUME NEW p \in Paths, NEW flag \in BOOLEAN, UploadStart(r, p, flag) PROVE Contract!Arrives(r)
    <3>1. nextVer \in 1 .. MaxVersion
      BY <1>0, <2>1 DEF UploadStart
    <3>2. Contract!UploadArrives(r, p, flag, nextVer)
      BY <1>3, <1>6, <2>1 DEF UploadStart, Contract!UploadArrives, Contract!Ask
    <3> QED BY <3>1, <3>2 DEF Contract!Arrives
  <2>2. ASSUME NEW p \in Paths, NEW flag \in BOOLEAN, DeleteFolderStart(r, p, flag) PROVE Contract!Arrives(r)
    <3>1. Contract!DeleteFolderArrives(r, p, flag)
      BY <1>3, <1>6, <2>2 DEF DeleteFolderStart, DeleteStart, Contract!DeleteFolderArrives, Contract!Ask
    <3> QED BY <3>1 DEF Contract!Arrives
  <2>3. ASSUME NEW p \in Paths, DeleteFileStart(r, p) PROVE Contract!Arrives(r)
    <3>1. Contract!DeleteFileArrives(r, p)
      BY <1>3, <1>6, <2>3 DEF DeleteFileStart, DeleteStart, Contract!DeleteFileArrives, Contract!Ask
    <3> QED BY <3>1 DEF Contract!Arrives
  <2>4. ASSUME CreateSiteStart(r) PROVE Contract!Arrives(r)
    <3>1. nextSite \in 1 .. MaxSites
      BY <1>0, <2>4 DEF CreateSiteStart
    <3>2. Contract!CreateSiteArrives(r, nextSite)
      BY <1>6, <2>4 DEF CreateSiteStart, Contract!CreateSiteArrives, Contract!Ask
    <3> QED BY <3>1, <3>2 DEF Contract!Arrives
  <2>5. ASSUME DeleteSiteStart(r) PROVE Contract!Arrives(r)
    <3>1. Contract!DeleteSiteArrives(r)
      BY <1>3, <1>6, <2>5 DEF DeleteSiteStart, DeleteStart, Contract!DeleteSiteArrives, Contract!Ask
    <3> QED BY <3>1 DEF Contract!Arrives
  <2> QED BY <2>1, <2>2, <2>3, <2>4, <2>5
<1> QED BY <1>7 DEF Contract!Next

\* Under the lock and before its effect, a request sees site and tree as they are.
LEMMA HolderSees ==
    ASSUME TypeInv, CleanInv, NEW r \in Requests, Holds(r), pc[r] = "waiting"
    PROVE  /\ Plainly /\ SiteSeen = row /\ TreeSeen = TreeThere
           /\ root => SiteSeen # 0
           /\ r \notin Effected
<1>1. \A q \in Requests : pc[q] \notin Section
  BY Alone DEF Section
<1>2. Plainly
  BY <1>1 DEF Plainly, Section
<1>3. root => row # 0
  BY <1>1 DEF CleanInv, SiteAgrees, SiteFolderHasRow, Section
<1>4. r \notin Effected
  BY DEF Effected, MidSection
<1> QED BY <1>2, <1>3, <1>4, PlainlySeen

\* An upload lands by the contract's rules, and its folders are the ones the
\* contract's loop makes: it stops at a folder, whose ancestors are folders.
LEMMA UploadEffect ==
    ASSUME TypeInv, WorkInv, TrustInv, CleanInv, NEW r \in Requests, UploadPlace(r)
    PROVE  Contract!UploadDone(r)
<1> DEFINE p == req[r].path
<1>0. /\ tree \in [Paths -> Node] /\ pc \in [Requests -> PC] /\ VolumeIsTree
  BY DEF TypeInv, TypeOK, VolumeType, RequestType, CleanInv
<1>1. /\ Holds(r) /\ pc[r] = "waiting" /\ req[r].op = "upload" /\ UploadMayLand(r)
      /\ tree' = [WithFolders(Ancestors[p]) EXCEPT ![p] = File(req[r].ver)]
      /\ pc' = [pc EXCEPT ![r] = "placed"] /\ UNCHANGED <<req, row>>
  BY DEF UploadPlace, Go, index
<1>2. p \in Paths /\ Ancestors[p] \subseteq Paths /\ p \notin Ancestors[p]
  BY <1>1, PathTree DEF WorkInv, NamesPath
<1>3. Plainly /\ SiteSeen = row /\ TreeSeen = TreeThere /\ r \notin Effected
  BY <1>1, HolderSees
<1>4. SiteSeen' = row' /\ TreeSeen' = TreeThere'
  <2>1. Plainly'
    BY <1>0, <1>1, <1>3 DEF Plainly
  <2> QED BY <2>1, PlainlySeenNext
<1>5. Contract!CheckWriteTarget(TreeSeen, req[r])
  <2>1. /\ \A q \in Ancestors[p] : tree[q].kind # "file"
        /\ tree[p] = Missing \/ (tree[p].kind = "file" /\ req[r].flag)
    BY <1>1 DEF UploadMayLand, WriteTargetOK
  <2>2. \A q \in Paths : tree[q].kind # "file" => tree[q].ver = 0
    BY <1>0, Kinds DEF VolumeIsTree
  <2>3. p \notin TreeThere.folders
    BY <2>1, Kinds DEF TreeThere
  <2>4. \A q \in Ancestors[p] : TreeThere.files[q] = 0
    BY <1>2, <2>1, <2>2 DEF TreeThere
  <2>5. TreeThere.files[p] = 0 \/ req[r].flag
    BY <1>2, <2>1, Kinds DEF TreeThere
  <2> QED BY <1>3, <2>3, <2>4, <2>5 DEF Contract!CheckWriteTarget
<1>6. TreeSeen' = Contract!Write(TreeSeen, req[r])
  <2>1. \A q \in Paths : tree'[q] = IF q = p THEN File(req[r].ver) ELSE IF q \in Ancestors[p] THEN Folder ELSE tree[q]
    BY <1>1, <1>2 DEF WithFolders
  <2>2. TreeThere'.files = [TreeThere.files EXCEPT ![p] = req[r].ver]
    <3>1. \A q \in Ancestors[p] : tree[q].ver = 0
      <4>1. \A q \in Ancestors[p] : tree[q].kind # "file" /\ q \in Paths
        BY <1>1, <1>2 DEF UploadMayLand, WriteTargetOK
      <4> QED BY <1>0, <4>1, Kinds DEF VolumeIsTree
    <3>2. \A q \in Paths : tree'[q].ver = IF q = p THEN req[r].ver ELSE tree[q].ver
      BY <2>1, <3>1, Kinds
    <3> QED BY <3>2 DEF TreeThere
  <2>3. TreeThere'.folders = TreeThere.folders \cup Ancestors[p]
    <3>1. tree[p].kind # "folder"
      BY <1>1, Kinds DEF UploadMayLand, WriteTargetOK
    <3>2. \A q \in Paths : tree'[q].kind = "folder" <=> tree[q].kind = "folder" \/ q \in Ancestors[p]
      BY <1>2, <2>1, <3>1, Kinds
    <3> QED BY <1>2, <3>2 DEF TreeThere
  <2>4. Contract!AddFoldersFor(TreeThere, p) = TreeThere.folders \cup Ancestors[p]
    <3>1. \A s \in Paths : \A q \in Ancestors[s] : s \in TreeThere.folders => q \in TreeThere.folders
      BY <1>0, Kinds, PathTree DEF VolumeIsTree, TreeThere
    <3> QED BY <1>2, <3>1 DEF Contract!AddFoldersFor
  <2>5. TreeThere' = [files |-> TreeThere'.files, folders |-> TreeThere'.folders]
    BY DEF TreeThere
  <2> QED BY <1>3, <1>4, <2>2, <2>3, <2>4, <2>5 DEF Contract!Write
<1>7. Effected' = Effected \cup {r}
  BY <1>0, <1>1, EffectedStep DEF EffectAt, MidSection
<1>8. row # 0
  BY <1>1 DEF UploadMayLand
<1> QED BY <1>1, <1>3, <1>4, <1>5, <1>6, <1>7, <1>8 DEF Contract!UploadDone, Contract!Pending, Contract!Succeed

\* A file is unlinked by the contract's rules; its site is there since its folder is.
LEMMA DeleteFileEffect ==
    ASSUME TypeInv, WorkInv, CleanInv, NEW r \in Requests, DeleteFileUnlink(r)
    PROVE  Contract!DeleteFileDone(r)
<1> DEFINE p == req[r].path
<1>0. /\ tree \in [Paths -> Node] /\ pc \in [Requests -> PC] /\ VolumeIsTree
  BY DEF TypeInv, TypeOK, VolumeType, RequestType, CleanInv
<1>1. /\ Holds(r) /\ pc[r] = "waiting" /\ req[r].op = "deleteFile" /\ KindOf(p) = "file"
      /\ tree' = [tree EXCEPT ![p] = Missing]
      /\ pc' = [pc EXCEPT ![r] = "unlinked"] /\ UNCHANGED <<req, row>>
  BY DEF DeleteFileUnlink, Go, index
<1>2. p \in Paths /\ tree[p].kind = "file"
  BY <1>1, PathTree DEF WorkInv, NamesPath, KindOf
<1>3. /\ Plainly /\ SiteSeen = row /\ TreeSeen = TreeThere /\ r \notin Effected
      /\ root => SiteSeen # 0
  BY <1>1, HolderSees
<1>4. SiteSeen' = row' /\ TreeSeen' = TreeThere'
  <2>1. Plainly'
    BY <1>0, <1>1, <1>3 DEF Plainly
  <2> QED BY <2>1, PlainlySeenNext
<1>5. SiteSeen # 0 /\ tree[p].ver # 0
  BY <1>0, <1>2, <1>3, Kinds DEF VolumeIsTree
<1>6. Contract!IsFile(TreeSeen, req[r])
  BY <1>2, <1>3, <1>5 DEF Contract!IsFile, TreeThere
<1>7. TreeSeen' = Contract!WithoutFile(TreeSeen, req[r])
  <2>1. \A q \in Paths : /\ tree'[q].ver = IF q = p THEN 0 ELSE tree[q].ver
                         /\ tree'[q].kind = "folder" <=> tree[q].kind = "folder"
    BY <1>0, <1>1, <1>2, Kinds
  <2>2. TreeThere' = [files |-> [TreeThere.files EXCEPT ![p] = 0], folders |-> TreeThere.folders]
    BY <2>1 DEF TreeThere
  <2>3. \A f, d : [[files |-> f, folders |-> d] EXCEPT !.files[p] = 0] = [files |-> [f EXCEPT ![p] = 0], folders |-> d]
    OBVIOUS
  <2>4. TreeThere = [files |-> TreeThere.files, folders |-> TreeThere.folders]
    BY DEF TreeThere
  <2>5. [TreeThere EXCEPT !.files[p] = 0] = [files |-> [TreeThere.files EXCEPT ![p] = 0], folders |-> TreeThere.folders]
    BY <2>3, <2>4
  <2> QED BY <1>3, <1>4, <2>2, <2>5 DEF Contract!WithoutFile
<1>8. Effected' = Effected \cup {r}
  BY <1>0, <1>1, EffectedStep DEF EffectAt, MidSection
<1> QED BY <1>1, <1>3, <1>4, <1>5, <1>6, <1>7, <1>8 DEF Contract!DeleteFileDone, Contract!Pending, Contract!Succeed

\* A folder's deletion takes effect when its removal begins.
LEMMA DeleteFolderEffect ==
    ASSUME TypeInv, WorkInv, CleanInv, NEW r \in Requests, DeleteFolderBegin(r)
    PROVE  Contract!DeleteFolderDone(r)
<1> DEFINE p == req[r].path
<1>0. /\ tree \in [Paths -> Node] /\ pc \in [Requests -> PC] /\ VolumeIsTree
  BY DEF TypeInv, TypeOK, VolumeType, RequestType, CleanInv
<1>1. /\ Holds(r) /\ pc[r] = "waiting" /\ req[r].op = "deleteFolder" /\ DeleteFolderMayRun(r)
      /\ pc' = [pc EXCEPT ![r] = "removing"] /\ UNCHANGED <<req, row, tree>>
  BY DEF DeleteFolderBegin, Go, index, volume
<1>2. p \in Paths /\ p # Root /\ tree[p].kind = "folder"
  BY <1>1, PathTree DEF WorkInv, NamesPath, DeleteFolderMayRun, KindOf
<1>3. /\ Plainly /\ SiteSeen = row /\ TreeSeen = TreeThere /\ r \notin Effected
      /\ root => SiteSeen # 0
  BY <1>1, HolderSees
<1>4. SiteSeen # 0 /\ tree[p].ver = 0
  BY <1>0, <1>2, <1>3, Kinds DEF VolumeIsTree
<1>5. SiteSeen' = SiteSeen
  BY <1>0, <1>1, <1>3 DEF SiteSeen, Plainly
<1>6. Contract!MayDeleteFolder(TreeSeen, req[r])
  <2>1. Empty(p) => Contract!Descendants(TreeThere, p) = {}
    BY <1>2, Kinds DEF Empty, Below, Contract!Descendants, Contract!Below, TreeThere
  <2> QED BY <1>1, <1>2, <1>3, <1>4, <2>1 DEF Contract!MayDeleteFolder, DeleteFolderMayRun, TreeThere
<1>7. TreeSeen' = Contract!WithoutFolder(TreeSeen, req[r])
  <2>1. \A q \in Paths : Hidden(q)' <=> q = p \/ p \in Ancestors[q]
    BY <1>0, <1>1, <1>3 DEF Hidden, Plainly
  <2>2. TreeSeen' = [files   |-> [q \in Paths |-> IF p \in Ancestors[q] THEN 0 ELSE tree[q].ver],
                     folders |-> {q \in Paths : tree[q].kind = "folder" /\ q # p /\ p \notin Ancestors[q]}]
    BY <1>1, <1>4, <2>1 DEF TreeSeen
  <2> QED BY <1>3, <2>2 DEF Contract!WithoutFolder, Contract!Below, TreeThere
<1>8. Effected' = Effected \cup {r}
  BY <1>0, <1>1, EffectedStep DEF EffectAt, MidSection
<1> QED BY <1>1, <1>3, <1>4, <1>5, <1>6, <1>7, <1>8 DEF Contract!DeleteFolderDone, Contract!Pending, Contract!Succeed

\* A site is there once its folder is made, with nothing in it.
LEMMA CreateSiteEffect ==
    ASSUME TypeInv, CleanInv, NEW r \in Requests, CreateSiteMkdir(r)
    PROVE  Contract!CreateSiteDone(r)
<1>0. /\ pc \in [Requests -> PC] /\ VolumeIsTree
  BY DEF TypeInv, TypeOK, RequestType, CleanInv
<1>1. /\ Holds(r) /\ pc[r] = "waiting" /\ req[r].op = "createSite" /\ row = 0 /\ ~root
      /\ pc' = [pc EXCEPT ![r] = "made"] /\ UNCHANGED <<req, tree>>
  BY DEF CreateSiteMkdir, Go
<1>3. Plainly /\ SiteSeen = row /\ TreeSeen = TreeThere /\ r \notin Effected
  BY <1>1, HolderSees
<1>4. SiteSeen' = req[r].site
  <2>1. pc'[r] = "made" /\ \A q \in Requests \ {r} : pc'[q] \notin {"made", "parked"}
    BY <1>0, <1>1, <1>3 DEF Plainly
  <2> QED BY <1>1, <2>1, MadeSeenNext
<1>5. TreeSeen' = Contract!FakeSite
  <2>1. \A p \in Paths : tree'[p] = Missing
    BY <1>0, <1>1 DEF VolumeIsTree
  <2> QED BY <2>1, Kinds DEF TreeSeen, Contract!FakeSite
<1>6. Effected' = Effected \cup {r}
  BY <1>0, <1>1, EffectedStep DEF EffectAt, MidSection
<1> QED BY <1>1, <1>3, <1>4, <1>5, <1>6 DEF Contract!CreateSiteDone, Contract!Pending, Contract!Succeed

\* A site is gone once its folder is parked.
LEMMA DeleteSiteEffect ==
    ASSUME TypeInv, CleanInv, NEW r \in Requests, DeleteSitePark(r)
    PROVE  Contract!DeleteSiteDone(r)
<1>0. /\ pc \in [Requests -> PC] /\ Stages
  BY DEF TypeInv, TypeOK, RequestType, CleanInv
<1>1. /\ Holds(r) /\ pc[r] = "waiting" /\ req[r].op = "deleteSite"
      /\ \A p \in Paths : tree'[p] = Missing
      /\ pc' = [pc EXCEPT ![r] = "parked"] /\ UNCHANGED req
  BY DEF DeleteSitePark, Go
<1>2. r \notin Effected /\ req[r].site # 0
  BY <1>0, <1>1, HolderSees DEF Stages
<1>3. SiteSeen' = 0
  BY <1>0, <1>1 DEF SiteSeen
<1>4. TreeSeen' = Contract!FakeSite
  BY <1>1, Kinds DEF TreeSeen, Contract!FakeSite
<1>5. Effected' = Effected \cup {r}
  BY <1>0, <1>1, EffectedStep DEF EffectAt, MidSection
<1> QED BY <1>1, <1>2, <1>3, <1>4, <1>5 DEF Contract!DeleteSiteDone, Contract!Pending, Contract!Succeed

\* What the code refuses under the lock, the contract's rules refuse.
LEMMA Refusals ==
    ASSUME TypeInv, WorkInv, CleanInv, NEW r \in Requests,
           UploadRefused(r) \/ DeleteFileRefused(r) \/ DeleteFolderRefused(r) \/ CreateSiteRefused(r)
    PROVE  Contract!Refused(r)
<1> DEFINE p == req[r].path
<1>0. /\ tree \in [Paths -> Node] /\ pc \in [Requests -> PC] /\ req \in [Requests -> Req] /\ VolumeIsTree
  BY DEF TypeInv, TypeOK, VolumeType, RequestType, CleanInv
<1>1. /\ Holds(r) /\ pc[r] = "waiting" /\ UNCHANGED <<row, tree>>
      /\ pc' = [pc EXCEPT ![r] = "idle"] /\ req' = [req EXCEPT ![r] = NoReq]
  BY DEF UploadRefused, DeleteFileRefused, DeleteFolderRefused, CreateSiteRefused, Refuse, Answer, Go, index, volume
<1>2. /\ Plainly /\ SiteSeen = row /\ TreeSeen = TreeThere /\ r \notin Effected
      /\ root => SiteSeen # 0
  BY <1>1, HolderSees
<1>3. Contract!Leave(r)
  <2>1. Plainly'
    BY <1>0, <1>1, <1>2 DEF Plainly
  <2>2. TreeThere' = TreeThere
    BY <1>1 DEF TreeThere
  <2> QED BY <1>1, <1>2, <2>1, <2>2, PlainlySeenNext, Leaves
<1>4. UNCHANGED Effected
  <2>1. Effected' = Effected \ {r}
    BY <1>0, <1>1, EffectedStep DEF EffectAt, MidSection
  <2> QED BY <1>2, <2>1
<1>k. \A q \in Paths : /\ tree[q] # Special
                       /\ tree[q].kind = "file" <=> tree[q].ver # 0
                       /\ tree[q].kind = "file" \/ tree[q].kind = "folder" \/ tree[q] = Missing
  BY <1>0, Kinds DEF VolumeIsTree
<1>5. Contract!Refusable(r)
  <2>1. CASE UploadRefused(r)
    <3>1. req[r].op = "upload" /\ p \in Paths /\ Ancestors[p] \subseteq Paths /\ (row = 0 \/ ~WriteTargetOK(r))
      BY <2>1, PathTree DEF UploadRefused, UploadMayLand, WorkInv, NamesPath
    <3>2. ASSUME ~WriteTargetOK(r) PROVE ~Contract!CheckWriteTarget(TreeSeen, req[r])
      <4>1. Resolves(p)
        BY <1>k, <3>1 DEF Resolves
      <4>2. \/ \E q \in Ancestors[p] : tree[q].kind = "file"
            \/ tree[p].kind = "folder"
            \/ tree[p].kind = "file" /\ ~req[r].flag
        BY <1>k, <3>1, <3>2, <4>1 DEF WriteTargetOK
      <4> QED BY <1>2, <1>k, <3>1, <4>2 DEF Contract!CheckWriteTarget, TreeThere
    <3> QED BY <1>2, <3>1, <3>2 DEF Contract!Refusable, Contract!Pending
  <2>2. CASE DeleteFileRefused(r)
    <3>1. req[r].op = "deleteFile" /\ p \in Paths /\ p # Root /\ Ancestors[p] \subseteq Paths
      BY <2>2, PathTree DEF DeleteFileRefused, WorkInv, NamesPath
    <3>2. Resolves(p)
      BY <1>k, <3>1 DEF Resolves
    <3>3. tree[p].kind # "file"
      BY <2>2, <3>1, <3>2 DEF DeleteFileRefused, KindOf
    <3>4. ~Contract!IsFile(TreeSeen, req[r])
      BY <1>2, <1>k, <3>1, <3>3 DEF Contract!IsFile, TreeThere
    <3> QED BY <1>2, <3>1, <3>4 DEF Contract!Refusable, Contract!Pending
  <2>3. CASE DeleteFolderRefused(r)
    <3>1. req[r].op = "deleteFolder" /\ p \in Paths /\ p # Root /\ Ancestors[p] \subseteq Paths /\ ~DeleteFolderMayRun(r)
      BY <2>3, PathTree DEF DeleteFolderRefused, WorkInv, NamesPath
    <3>2. Resolves(p)
      BY <1>k, <3>1 DEF Resolves
    <3>3. tree[p].kind # "folder" \/ (~req[r].flag /\ ~Empty(p))
      BY <3>1, <3>2 DEF DeleteFolderMayRun, KindOf
    <3>4. ~Empty(p) => Contract!Descendants(TreeThere, p) # {}
      <4> SUFFICES ASSUME NEW q \in Below(p), tree[q] # Missing
                   PROVE  q \in Contract!Descendants(TreeThere, p)
        BY DEF Empty
      <4>1. q \in Paths /\ p \in Ancestors[q]
        BY <3>1 DEF Below
      <4> QED BY <1>k, <4>1 DEF Contract!Descendants, Contract!Below, TreeThere
    <3>5. ~Contract!MayDeleteFolder(TreeSeen, req[r])
      BY <1>2, <3>1, <3>3, <3>4 DEF Contract!MayDeleteFolder, TreeThere
    <3> QED BY <1>2, <3>1, <3>5 DEF Contract!Refusable, Contract!Pending
  <2>4. CASE CreateSiteRefused(r)
    BY <1>2, <2>4 DEF CreateSiteRefused, Contract!Refusable, Contract!Pending
  <2> QED BY <2>1, <2>2, <2>3, <2>4
<1> QED BY <1>3, <1>4, <1>5 DEF Contract!Refused

\* Outside the sections a body arrives, is given up, or a parked folder is removed.
LEMMA Outside ==
    ASSUME TypeInv, CleanInv, NEW r \in Requests,
           UploadReceived(r) \/ UploadAborted(r) \/ DeleteSitePurge(r)
    PROVE  Contract!Next \/ UNCHANGED Contract!vars
<1>0. /\ pc \in [Requests -> PC] /\ req \in [Requests -> Req] /\ Stages
  BY DEF TypeInv, TypeOK, RequestType, CleanInv
<1>1. /\ Loop(r) /\ pc[r] \in {"receiving", "purging"} /\ UNCHANGED <<tree, row>>
      /\ pc' = [pc EXCEPT ![r] = "waiting"] \/ pc' = [pc EXCEPT ![r] = "idle"]
      /\ req' = req \/ req' = [req EXCEPT ![r] = NoReq]
  BY DEF UploadReceived, UploadAborted, DeleteSitePurge, Answer, Go, index, volume
<1>2. UNCHANGED <<SiteSeen, TreeSeen>>
  <2>1. \A q \in Requests : pc[q] \notin {"parked", "made"}
    BY <1>1 DEF Loop, MidSection
  <2>2. pc'[r] \in {"waiting", "idle"} /\ \A q \in Requests \ {r} : pc'[q] = pc[q] /\ req'[q] = req[q]
    BY <1>0, <1>1
  <2> QED BY <1>1, <2>1, <2>2, SameSeen
<1>3. Effected' = Effected \ {r}
  BY <1>0, <1>1, EffectedStep DEF EffectAt, MidSection
<1>4. pc[r] = "receiving" => r \notin Effected /\ req[r].op = "upload"
  BY <1>0 DEF Effected, MidSection, Stages
<1>5. CASE UploadReceived(r)
  <2>1. UNCHANGED req /\ pc[r] = "receiving"
    BY <1>5 DEF UploadReceived
  <2>2. UNCHANGED Effected
    BY <1>3, <1>4, <2>1
  <2> QED BY <1>2, <2>1, <2>2 DEF Contract!vars
<1>6. CASE UploadAborted(r)
  <2>1. pc[r] = "receiving" /\ req' = [req EXCEPT ![r] = NoReq]
    BY <1>6 DEF UploadAborted, Answer
  <2>2. UNCHANGED Effected
    BY <1>3, <1>4, <2>1
  <2>3. Contract!UploadGivenUp(r)
    BY <1>2, <1>4, <2>1, <2>2, Leaves DEF Contract!UploadGivenUp, Contract!Pending
  <2> QED BY <2>3 DEF Contract!Next
<1>7. CASE DeleteSitePurge(r)
  <2>1. pc[r] = "purging" /\ req' = [req EXCEPT ![r] = NoReq]
    BY <1>7 DEF DeleteSitePurge, Answer
  <2>2. r \in Effected
    BY <2>1 DEF Effected
  <2>3. Contract!Answered(r)
    BY <1>2, <1>3, <2>1, <2>2, Leaves DEF Contract!Answered
  <2> QED BY <2>3 DEF Contract!Next
<1> QED BY <1>5, <1>6, <1>7

\* The end of a section shows nothing: the row catches up with the volume.
LEMMA SectionEnds ==
    ASSUME TypeInv, WorkInv, CleanInv, NEW r \in Requests,
           \/ UploadIndex(r) \/ DeleteFileRow(r) \/ DeleteFolderRows(r)
           \/ CreateSiteInsert(r) \/ DeleteSiteRow(r)
    PROVE  Contract!Next \/ UNCHANGED Contract!vars
<1>0. /\ pc \in [Requests -> PC] /\ req \in [Requests -> Req] /\ Stages /\ VolumeIsTree
      /\ tree \in [Paths -> Node]
  BY DEF TypeInv, TypeOK, VolumeType, RequestType, CleanInv
<1>1. /\ pc[r] \in Section /\ r \in Effected /\ UNCHANGED tree
      /\ pc' = [pc EXCEPT ![r] = "purging"] \/ pc' = [pc EXCEPT ![r] = "idle"]
  BY DEF UploadIndex, DeleteFileRow, DeleteFolderRows, CreateSiteInsert, DeleteSiteRow, Answer, Go, volume,
     Section, Effected, MidSection
<1>2. \A q \in Requests \ {r} : pc[q] \notin Section
  <2>1. Holds(r)
    BY <1>1 DEF TypeInv, SectionHolds
  <2> QED BY <2>1, Alone
<1>3. Plainly' /\ SiteSeen' = row' /\ TreeSeen' = TreeThere /\ TreeThere' = TreeThere
  <2>1. Plainly'
    BY <1>0, <1>1, <1>2 DEF Plainly, Section
  <2>2. TreeThere' = TreeThere
    BY <1>1 DEF TreeThere
  <2> QED BY <2>1, <2>2, PlainlySeenNext
<1>4. UNCHANGED SiteSeen
  <2>1. CASE UploadIndex(r) \/ DeleteFileRow(r) \/ DeleteFolderRows(r)
    <3>1. row' = row /\ pc[r] \in {"placed", "unlinked", "removing"}
      BY <2>1 DEF UploadIndex, DeleteFileRow, DeleteFolderRows
    <3>2. SiteSeen = row
      BY <1>2, <3>1 DEF SiteSeen, Section
    <3> QED BY <1>3, <3>1, <3>2
  <2>2. CASE CreateSiteInsert(r)
    <3>1. row' = req[r].site /\ pc[r] = "made"
      BY <2>2 DEF CreateSiteInsert
    <3>2. SiteSeen = req[r].site
      BY <1>2, <3>1, MadeSeen DEF Section
    <3> QED BY <1>3, <3>1, <3>2
  <2>3. CASE DeleteSiteRow(r)
    <3>1. row' = 0 /\ pc[r] = "parked"
      BY <2>3 DEF DeleteSiteRow
    <3>2. SiteSeen = 0
      BY <3>1 DEF SiteSeen
    <3> QED BY <1>3, <3>1, <3>2
  <2> QED BY <2>1, <2>2, <2>3
<1>5. UNCHANGED TreeSeen
  <2>1. CASE pc[r] # "removing"
    <3>1. \A p \in Paths : ~Hidden(p)
      BY <1>2, <2>1 DEF Hidden, Section
    <3> QED BY <1>3, <3>1 DEF TreeSeen, TreeThere
  <2>2. CASE pc[r] = "removing"
    <3> DEFINE p == req[r].path
    <3>1. tree[p] = Missing /\ p \in Paths
      BY <1>0, <2>2 DEF UploadIndex, DeleteFileRow, DeleteFolderRows, CreateSiteInsert, DeleteSiteRow,
         Stages, WorkInv, NamesPath
    <3>2. \A q \in Paths : Hidden(q) => tree[q] = Missing
      <4> SUFFICES ASSUME NEW q \in Paths, q = p \/ p \in Ancestors[q] PROVE tree[q] = Missing
        BY <1>2, <2>2 DEF Hidden, Section
      <4> QED BY <1>0, <3>1, Kinds DEF VolumeIsTree
    <3>3. TreeSeen = TreeThere
      BY <3>2, Kinds DEF TreeSeen, TreeThere
    <3> QED BY <1>3, <3>3
  <2> QED BY <2>1, <2>2
<1>6. CASE pc' = [pc EXCEPT ![r] = "idle"] /\ req' = [req EXCEPT ![r] = NoReq]
  <2>1. Effected' = Effected \ {r}
    BY <1>0, <1>6, EffectedStep DEF EffectAt, MidSection
  <2>2. Contract!Answered(r)
    BY <1>1, <1>4, <1>5, <1>6, <2>1, Leaves DEF Contract!Answered
  <2> QED BY <2>2 DEF Contract!Next
<1>7. CASE pc' = [pc EXCEPT ![r] = "purging"] /\ UNCHANGED req
  <2>1. Effected' = Effected \cup {r}
    BY <1>0, <1>7, EffectedStep DEF EffectAt, MidSection
  <2>2. UNCHANGED Effected
    BY <1>1, <2>1
  <2> QED BY <1>4, <1>5, <1>7, <2>2 DEF Contract!vars
<1> QED BY <1>6, <1>7 DEF UploadIndex, DeleteFileRow, DeleteFolderRows, CreateSiteInsert, DeleteSiteRow, Answer, Go

\* What the thread removes is already gone.
LEMMA RemovalUnseen ==
    ASSUME TypeInv, WorkInv, CleanInv, NEW r \in Requests, NEW p \in Paths, DeleteFolderRemove(r, p)
    PROVE  UNCHANGED Contract!vars
<1>0. tree \in [Paths -> Node]
  BY DEF TypeInv, TypeOK, VolumeType
<1>1. /\ pc[r] = "removing" /\ (p = req[r].path \/ req[r].path \in Ancestors[p])
      /\ tree' = [tree EXCEPT ![p] = Missing] /\ UNCHANGED <<pc, req, row>>
  BY DEF DeleteFolderRemove, index
<1>2. UNCHANGED <<req, Effected>>
  BY <1>1 DEF Effected
<1>3. UNCHANGED SiteSeen
  BY <1>1 DEF SiteSeen
<1>4. Hidden(p) /\ \A q \in Paths : Hidden(q)' <=> Hidden(q)
  BY <1>1 DEF Hidden
<1>5. UNCHANGED TreeSeen
  <2>1. \A q \in Paths : ~Hidden(q) => tree'[q] = tree[q]
    BY <1>0, <1>1, <1>4
  <2> QED BY <1>4, <2>1 DEF TreeSeen
<1> QED BY <1>2, <1>3, <1>5 DEF Contract!vars

\* Every step of the store is a step of the contract or none.
LEMMA StepImplements ==
    ASSUME MaxFaults = 0, TypeInv, WorkInv, TrustInv, CleanInv, [Next]_vars
    PROVE  Contract!Next \/ UNCHANGED Contract!vars
<1>1. ASSUME NEW r \in Requests, ClientStep(r) PROVE Contract!Next \/ UNCHANGED Contract!vars
  BY <1>1, Arrival, Outside DEF ClientStep
<1>2. ASSUME NEW r \in Requests, BackendStep(r) PROVE Contract!Next \/ UNCHANGED Contract!vars
  <2>1. CASE \/ UploadPlace(r) \/ DeleteFileUnlink(r) \/ DeleteFolderBegin(r)
             \/ CreateSiteMkdir(r) \/ DeleteSitePark(r)
    BY <2>1, UploadEffect, DeleteFileEffect, DeleteFolderEffect, CreateSiteEffect, DeleteSiteEffect
    DEF Contract!Next, Contract!Effect
  <2>2. CASE UploadRefused(r) \/ DeleteFileRefused(r) \/ DeleteFolderRefused(r) \/ CreateSiteRefused(r)
    BY <2>2, Refusals DEF Contract!Next
  <2>3. CASE \/ UploadIndex(r) \/ DeleteFileRow(r) \/ DeleteFolderRows(r)
             \/ CreateSiteInsert(r) \/ DeleteSiteRow(r)
    BY <2>3, SectionEnds
  <2>4. CASE DeleteSitePurge(r)
    BY <2>4, Outside
  <2>5. CASE \E p \in Paths : DeleteFolderRemove(r, p)
    BY <2>5, RemovalUnseen
  <2> QED BY <1>2, <2>1, <2>2, <2>3, <2>4, <2>5 DEF BackendStep
<1>3. ASSUME NEW r \in Requests PROVE ~FaultStep(r)
  BY DEF FaultStep, UploadPlaceFails, SectionFails, CreateSiteFails, Fault, CleanInv
<1>4. ASSUME UNCHANGED <<tree, row, pc, req>> PROVE UNCHANGED Contract!vars
  BY <1>4 DEF Contract!vars, SiteSeen, TreeSeen, Hidden, Effected
<1>5. ASSUME NEW l \in Listers, (\E f \in Folders : ListStart(l, f)) \/ ListStep(l) PROVE UNCHANGED Contract!vars
  <2>1. UNCHANGED <<tree, row, pc, req>>
    BY <1>5 DEF ListStep, ListStart, ListNoFolder, ListFound, ListIndexed, ListOpen, ListOpenFails, ListSkip,
           ListStat, ListHash, ListHashFails, ListUpsert, ListUpsertFails, ListScanned, ListDrop, ListDone,
           ListAnswer, ListerReads, ListerWrites, volume, index
  <2> QED BY <1>4, <2>1
<1>6. ~OperatorStep
  BY DEF OperatorStep, Crash, Restart, RestoreWithout, RestoreWith, Fault, CleanInv
<1>7. CASE UNCHANGED vars
  BY <1>4, <1>7 DEF vars
<1> QED BY <1>1, <1>2, <1>3, <1>5, <1>6, <1>7 DEF Next

\* Without faults the store implements the contract of SiteTree for any tree
\* of paths, any number of requests and listings: uploads, deletions and
\* creations that overlap have the outcomes and leave the trees of some
\* order of atomic requests (storage.py's locks, staging and threads).
THEOREM Implements ==
    ASSUME MaxFaults = 0
    PROVE  Spec => ImplementsContract
<1>1. Init => Contract!Init
  <2> SUFFICES ASSUME Init PROVE Contract!Init
    OBVIOUS
  <2>1. Plainly /\ SiteSeen = 0 /\ TreeSeen = TreeThere
    BY PlainlySeen DEF Init, Plainly
  <2>2. TreeThere = Contract!FakeSite
    BY Kinds DEF Init, TreeThere, Contract!FakeSite
  <2>3. Effected = {}
    BY DEF Init, Effected, MidSection
  <2>4. req = [r \in Requests |-> Contract!NoCall]
    BY DEF Init, NoReq, Contract!NoCall
  <2> QED BY <2>1, <2>2, <2>3, <2>4 DEF Contract!Init
<1>2. TypeInv /\ WorkInv /\ TrustInv /\ CleanInv /\ [Next]_vars => [Contract!Next]_(Contract!vars)
  BY StepImplements
<1> QED BY <1>1, <1>2, CleanInvariant, PTL DEF Spec, ImplementsContract, Contract!Spec
============================================================================
