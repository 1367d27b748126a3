------------------------- MODULE FakeBackendProofs -------------------------
(***************************************************************************)
(* Every site of the in-memory backend stays a tree, and its steps are     *)
(* those of the contract, for all paths and any number of requests.        *)
(***************************************************************************)
EXTENDS FakeBackend, TLAPS

\* The loop of add_folders_for stops early, and still makes every folder.
LEMMA AddFoldersForAll ==
    ASSUME NEW t \in Contract!Tree, NEW p \in Paths, Contract!WellFormed(t)
    PROVE  Contract!AddFoldersFor(t, p) = t.folders \cup Ancestors[p]
  <1>1. ASSUME NEW q \in Ancestors[p], q \notin t.folders
        PROVE  \A s \in Ancestors[p] \cap t.folders : q # s /\ q \notin Ancestors[s]
    <2> SUFFICES ASSUME NEW s \in Ancestors[p] \cap t.folders PROVE q # s /\ q \notin Ancestors[s]
      OBVIOUS
    <2>1. s \in Paths
      BY PathTree
    <2>2. Ancestors[s] \subseteq t.folders
      BY <2>1 DEF Contract!WellFormed
    <2> QED  BY <1>1, <2>2
  <1> QED  BY <1>1 DEF Contract!AddFoldersFor

LEMMA WriteKeepsTree ==
    ASSUME NEW t \in Contract!Tree, NEW c \in Contract!Call, c.path \in Paths,
           Contract!WellFormed(t), Contract!CheckWriteTarget(t, c)
    PROVE  Contract!Write(t, c) \in Contract!Tree /\ Contract!WellFormed(Contract!Write(t, c))
  <1> DEFINE p == c.path
             w == Contract!Write(t, c)
  <1>1. /\ w.files = [t.files EXCEPT ![p] = c.ver]
        /\ w.folders = t.folders \cup Ancestors[p]
    BY AddFoldersForAll DEF Contract!Write
  <1>2. w \in Contract!Tree
    <2>1. w = [files |-> [t.files EXCEPT ![p] = c.ver], folders |-> t.folders \cup Ancestors[p]]
      BY AddFoldersForAll DEF Contract!Write
    <2>2. [t.files EXCEPT ![p] = c.ver] \in [Paths -> 0 .. MaxVersion]
      BY DEF Contract!Tree, Contract!Call
    <2>3. t.folders \cup Ancestors[p] \in SUBSET Paths
      BY PathTree DEF Contract!Tree
    <2> QED  BY <2>1, <2>2, <2>3 DEF Contract!Tree
  <1>3. ASSUME NEW q \in Paths
        PROVE  /\ w.files[q] = 0 \/ q \notin w.folders
               /\ (w.files[q] # 0 \/ q \in w.folders) => Ancestors[q] \subseteq w.folders
    <2>1. /\ t.files \in [Paths -> 0 .. MaxVersion]
          /\ t.files[q] = 0 \/ q \notin t.folders
          /\ (t.files[q] # 0 \/ q \in t.folders) => Ancestors[q] \subseteq t.folders
      BY DEF Contract!WellFormed, Contract!Tree
    <2>2. CASE q = p
      <3>1. p \notin t.folders /\ p \notin Ancestors[p]
        BY PathTree DEF Contract!CheckWriteTarget
      <3> QED  BY <1>1, <2>2, <3>1
    <2>3. CASE q # p /\ q \in Ancestors[p]
      <3>1. t.files[q] = 0 /\ Ancestors[q] \subseteq Ancestors[p]
        BY <2>3, PathTree DEF Contract!CheckWriteTarget
      <3>2. w.files[q] = t.files[q]
        BY <1>1, <2>1, <2>3
      <3> QED  BY <1>1, <3>1, <3>2
    <2>4. CASE q # p /\ q \notin Ancestors[p]
      <3>1. w.files[q] = t.files[q]
        BY <1>1, <2>1, <2>4
      <3> QED  BY <1>1, <2>1, <2>4, <3>1
    <2> QED  BY <2>2, <2>3, <2>4
  <1>4. Contract!WellFormed(w)
    BY <1>3 DEF Contract!WellFormed
  <1> QED  BY <1>2, <1>4

LEMMA WithoutFileKeepsTree ==
    ASSUME NEW t \in Contract!Tree, NEW c \in Contract!Call, c.path \in Paths, Contract!WellFormed(t)
    PROVE  /\ Contract!WithoutFile(t, c) \in Contract!Tree
           /\ Contract!WellFormed(Contract!WithoutFile(t, c))
  <1> DEFINE w == Contract!WithoutFile(t, c)
  <1>1. t.files \in [Paths -> 0 .. MaxVersion] /\ t.folders \in SUBSET Paths
    BY DEF Contract!Tree
  <1>2. w = [files |-> [t.files EXCEPT ![c.path] = 0], folders |-> t.folders]
    BY DEF Contract!WithoutFile, Contract!Tree
  <1>3. [t.files EXCEPT ![c.path] = 0] \in [Paths -> 0 .. MaxVersion]
    BY <1>1, Bounds
  <1>4. w \in Contract!Tree
    BY <1>1, <1>2, <1>3 DEF Contract!Tree
  <1>5. \A q \in Paths : w.files[q] # 0 => w.files[q] = t.files[q]
    BY <1>1, <1>2
  <1>6. w.folders = t.folders
    BY <1>2
  <1>7. Contract!WellFormed(w)
    BY <1>5, <1>6 DEF Contract!WellFormed
  <1> QED  BY <1>4, <1>7

\* What lies below a folder goes with it, so nothing loses a folder it lies in.
LEMMA WithoutFolderKeepsTree ==
    ASSUME NEW t \in Contract!Tree, NEW c \in Contract!Call, c.path \in Paths,
           Contract!WellFormed(t), t.files[c.path] = 0
    PROVE  /\ Contract!WithoutFolder(t, c) \in Contract!Tree
           /\ Contract!WellFormed(Contract!WithoutFolder(t, c))
  <1> DEFINE p == c.path
             w == Contract!WithoutFolder(t, c)
             gone == Contract!Below(p) \cup {p}
  <1>1. t.files \in [Paths -> 0 .. MaxVersion] /\ t.folders \in SUBSET Paths
    BY DEF Contract!Tree
  <1>2. /\ w.files = [q \in Paths |-> IF q \in Contract!Below(p) THEN 0 ELSE t.files[q]]
        /\ w.folders = t.folders \ gone
    BY DEF Contract!WithoutFolder
  <1>3. w \in Contract!Tree
    BY <1>1, Bounds DEF Contract!WithoutFolder, Contract!Tree
  <1>4. ASSUME NEW q \in Paths
        PROVE  /\ w.files[q] = 0 \/ q \notin w.folders
               /\ (w.files[q] # 0 \/ q \in w.folders) => Ancestors[q] \subseteq w.folders
    <2>1. w.files[q] # 0 => w.files[q] = t.files[q] /\ q \notin gone
      BY <1>2
    <2>2. q \in w.folders => q \in t.folders /\ q \notin gone
      BY <1>2
    <2>3. q \notin gone => \A s \in Ancestors[q] : s \notin gone
      <3> SUFFICES ASSUME NEW s \in Ancestors[q], s \in gone PROVE q \in gone
        OBVIOUS
      <3>1. s \in Paths /\ Ancestors[s] \subseteq Ancestors[q]
        BY PathTree
      <3>2. p \in Ancestors[q]
        BY <3>1 DEF Contract!Below
      <3> QED  BY <3>2 DEF Contract!Below
    <2>4. /\ t.files[q] = 0 \/ q \notin t.folders
          /\ (t.files[q] # 0 \/ q \in t.folders) => Ancestors[q] \subseteq t.folders
      BY DEF Contract!WellFormed
    <2> QED  BY <1>2, <2>1, <2>2, <2>3, <2>4
  <1>5. Contract!WellFormed(w)
    BY <1>4 DEF Contract!WellFormed
  <1> QED  BY <1>3, <1>5

(***************************************************************************)
(* The invariant: types, and the trees.                                    *)
(***************************************************************************)
CallsOK ==
    /\ calls \in [Requests -> Contract!Call]
    /\ \A r \in Requests :
          /\ calls[r].op \in {"upload", "deleteFile", "deleteFolder"} => calls[r].path \in Paths
          /\ calls[r].op = "createSite" => calls[r].site \in 1 .. MaxSites

StateOK ==
    /\ sites \in 0 .. MaxSites
    /\ objects \in [1 .. MaxSites -> Contract!Tree]
    /\ asked \in 0 .. MaxSites
    /\ held \in [Requests -> 0 .. MaxSites]

Inv == StateOK /\ CallsOK /\ TreesWellFormed

LEMMA EmptyTree == Contract!FakeSite \in Contract!Tree /\ Contract!WellFormed(Contract!FakeSite)
  BY Bounds DEF Contract!FakeSite, Contract!Tree, Contract!WellFormed

LEMMA NoCallIsCall == Contract!NoCall \in Contract!Call /\ Contract!NoCall.op = "none"
  BY Bounds DEF Contract!NoCall, Contract!Call

LEMMA InitInv == Init => Inv
  <1> SUFFICES ASSUME Init PROVE Inv
    OBVIOUS
  <1>1. StateOK
    BY EmptyTree, Bounds DEF Init, StateOK
  <1>2. CallsOK
    BY NoCallIsCall DEF Init, CallsOK
  <1>3. TreesWellFormed
    BY EmptyTree DEF Init, TreesWellFormed
  <1> QED  BY <1>1, <1>2, <1>3 DEF Inv

\* A request that ends leaves a slot with no call.
LEMMA EndKeepsCalls ==
    ASSUME CallsOK, NEW r \in Requests, calls' = [calls EXCEPT ![r] = Contract!NoCall]
    PROVE  CallsOK'
  BY NoCallIsCall DEF CallsOK

LEMMA RaiseInv == ASSUME Inv, NEW r \in Requests, Raise(r) PROVE Inv'
  <1>1. CallsOK'
    BY EndKeepsCalls DEF Raise, Inv
  <1>2. StateOK'
    BY Bounds DEF Raise, Inv, StateOK
  <1>3. TreesWellFormed'
    BY DEF Raise, Inv, TreesWellFormed
  <1> QED  BY <1>1, <1>2, <1>3 DEF Inv

\* One object is replaced by a well-formed tree.
LEMMA ChangeInv ==
    ASSUME Inv, NEW n \in 1 .. MaxSites, NEW t \in Contract!Tree, Contract!WellFormed(t),
           objects' = [objects EXCEPT ![n] = t],
           held' \in [Requests -> 0 .. MaxSites], UNCHANGED <<sites, asked, calls>>
    PROVE  Inv'
  <1>1. objects' \in [1 .. MaxSites -> Contract!Tree]
    BY DEF Inv, StateOK
  <1>2. StateOK' /\ CallsOK'
    BY <1>1 DEF Inv, StateOK, CallsOK
  <1>3. ASSUME NEW m \in 1 .. MaxSites PROVE Contract!WellFormed(objects'[m])
    <2>1. CASE m = n
      BY <2>1 DEF Inv, StateOK
    <2>2. CASE m # n
      <3>1. objects'[m] = objects[m]
        BY <2>2 DEF Inv, StateOK
      <3> QED  BY <3>1 DEF Inv, TreesWellFormed
    <2> QED  BY <2>1, <2>2
  <1>4. TreesWellFormed'
    BY <1>3 DEF TreesWellFormed, Contract!WellFormed
  <1> QED  BY <1>2, <1>4 DEF Inv

LEMMA AskIsCall ==
    ASSUME NEW op \in {"none", "upload", "deleteFile", "deleteFolder", "createSite", "deleteSite"},
           NEW p \in Paths \cup {Root}, NEW flag \in BOOLEAN, NEW v \in 0 .. MaxVersion, NEW n \in 0 .. MaxSites
    PROVE  /\ Contract!Ask(op, p, flag, v, n) \in Contract!Call
           /\ Contract!Ask(op, p, flag, v, n).op = op
           /\ Contract!Ask(op, p, flag, v, n).path = p
           /\ Contract!Ask(op, p, flag, v, n).site = n
  BY DEF Contract!Ask, Contract!Call

LEMMA SendInv == ASSUME Inv, NEW r \in Requests, SendAny(r) PROVE Inv'
  <1> USE Bounds
  <1>1. PICK c : /\ Send(r, c) /\ c \in Contract!Call
                 /\ c.op \in {"upload", "deleteFile", "deleteFolder"} => c.path \in Paths
                 /\ c.op = "createSite" => c.site \in 1 .. MaxSites
                 /\ asked' \in 0 .. MaxSites
    <2>0. sites \in 0 .. MaxSites /\ asked \in 0 .. MaxSites
      BY DEF Inv, StateOK
    <2>1. CASE \E p \in Paths, overwrite \in BOOLEAN, v \in 1 .. MaxVersion :
                  Send(r, Contract!Ask("upload", p, overwrite, v, sites)) /\ UNCHANGED asked
      <3>1. PICK p \in Paths, overwrite \in BOOLEAN, v \in 1 .. MaxVersion :
                  Send(r, Contract!Ask("upload", p, overwrite, v, sites)) /\ UNCHANGED asked
        BY <2>1
      <3>2. /\ Contract!Ask("upload", p, overwrite, v, sites) \in Contract!Call
            /\ Contract!Ask("upload", p, overwrite, v, sites).op = "upload"
            /\ Contract!Ask("upload", p, overwrite, v, sites).path = p
        BY <2>0, AskIsCall
      <3> QED  BY <2>0, <3>1, <3>2
    <2>2. CASE \E p \in Paths : Send(r, Contract!Ask("deleteFile", p, FALSE, 0, sites)) /\ UNCHANGED asked
      <3>1. PICK p \in Paths : Send(r, Contract!Ask("deleteFile", p, FALSE, 0, sites)) /\ UNCHANGED asked
        BY <2>2
      <3>2. /\ Contract!Ask("deleteFile", p, FALSE, 0, sites) \in Contract!Call
            /\ Contract!Ask("deleteFile", p, FALSE, 0, sites).op = "deleteFile"
            /\ Contract!Ask("deleteFile", p, FALSE, 0, sites).path = p
        BY <2>0 DEF Contract!Ask, Contract!Call
      <3> QED  BY <2>0, <3>1, <3>2
    <2>3. CASE \E p \in Paths, recursive \in BOOLEAN :
                  Send(r, Contract!Ask("deleteFolder", p, recursive, 0, sites)) /\ UNCHANGED asked
      <3>1. PICK p \in Paths, recursive \in BOOLEAN :
                  Send(r, Contract!Ask("deleteFolder", p, recursive, 0, sites)) /\ UNCHANGED asked
        BY <2>3
      <3>2. /\ Contract!Ask("deleteFolder", p, recursive, 0, sites) \in Contract!Call
            /\ Contract!Ask("deleteFolder", p, recursive, 0, sites).op = "deleteFolder"
            /\ Contract!Ask("deleteFolder", p, recursive, 0, sites).path = p
        BY <2>0, AskIsCall
      <3> QED  BY <2>0, <3>1, <3>2
    <2>4. CASE /\ asked < MaxSites /\ asked' = asked + 1
               /\ Send(r, Contract!Ask("createSite", Root, FALSE, 0, asked + 1))
      <3>3. asked + 1 \in 1 .. MaxSites
        BY <2>0, <2>4
      <3>2. /\ Contract!Ask("createSite", Root, FALSE, 0, asked + 1) \in Contract!Call
            /\ Contract!Ask("createSite", Root, FALSE, 0, asked + 1).op = "createSite"
            /\ Contract!Ask("createSite", Root, FALSE, 0, asked + 1).site = asked + 1
        BY <2>0, <3>3 DEF Contract!Ask, Contract!Call
      <3>4. asked' \in 0 .. MaxSites
        BY <2>4, <3>3
      <3> QED  BY <2>4, <3>2, <3>3, <3>4
    <2>5. CASE Send(r, Contract!Ask("deleteSite", Root, FALSE, 0, sites)) /\ UNCHANGED asked
      <3>2. /\ Contract!Ask("deleteSite", Root, FALSE, 0, sites) \in Contract!Call
            /\ Contract!Ask("deleteSite", Root, FALSE, 0, sites).op = "deleteSite"
        BY <2>0 DEF Contract!Ask, Contract!Call
      <3> QED  BY <2>0, <2>5, <3>2
    <2> QED  BY <2>1, <2>2, <2>3, <2>4, <2>5 DEF SendAny
  <1>2. CallsOK'
    BY <1>1 DEF Inv, CallsOK, Send
  <1>3. StateOK' /\ TreesWellFormed'
    BY <1>1 DEF Inv, StateOK, TreesWellFormed, Send
  <1> QED  BY <1>2, <1>3 DEF Inv

LEMMA HandleInv == ASSUME Inv, NEW r \in Requests, Handle(r) PROVE Inv'
  <1>0. /\ calls[r] \in Contract!Call
        /\ calls[r].op \in {"upload", "deleteFile", "deleteFolder"} => calls[r].path \in Paths
        /\ calls[r].op = "createSite" => calls[r].site \in 1 .. MaxSites
    BY DEF Inv, CallsOK
  <1>a. \A n \in 1 .. MaxSites : objects[n] \in Contract!Tree /\ Contract!WellFormed(objects[n])
    BY DEF Inv, StateOK, TreesWellFormed
  <1>b. sites # 0 => sites \in 1 .. MaxSites /\ Seen = objects[sites]
    BY Bounds DEF Inv, StateOK, Seen
  <1>1. CASE UploadLooksUp(r)
    <2>1. CASE sites = 0
      BY <1>1, <2>1, RaiseInv DEF UploadLooksUp
    <2>2. CASE sites # 0
      BY <1>1, <2>2 DEF UploadLooksUp, Inv, StateOK, CallsOK, TreesWellFormed
    <2> QED  BY <2>1, <2>2
  <1>2. CASE UploadWrites(r)
    <2>1. held[r] \in 1 .. MaxSites
      BY <1>2, Bounds DEF UploadWrites, Inv, StateOK
    <2>2. calls[r].path \in Paths /\ Contract!CheckWriteTarget(objects[held[r]], calls[r])
      BY <1>0, <1>2 DEF UploadWrites, Pending
    <2>3. /\ Contract!Write(objects[held[r]], calls[r]) \in Contract!Tree
          /\ Contract!WellFormed(Contract!Write(objects[held[r]], calls[r]))
      BY <1>0, <1>a, <2>1, <2>2, WriteKeepsTree
    <2>4. /\ objects' = [objects EXCEPT ![held[r]] = Contract!Write(objects[held[r]], calls[r])]
          /\ held' \in [Requests -> 0 .. MaxSites] /\ UNCHANGED <<sites, asked, calls>>
      BY <1>2, Bounds DEF UploadWrites, Succeed, Inv, StateOK
    <2> QED  BY <2>1, <2>3, <2>4, ChangeInv
  <1>3. CASE UploadRefused(r)
    BY <1>3, RaiseInv DEF UploadRefused
  <1>4. CASE UploadDropped(r)
    BY <1>4, RaiseInv DEF UploadDropped
  <1>5. CASE DeleteFile(r)
    <2>1. CASE sites # 0 /\ Contract!IsFile(Seen, calls[r])
      <3>1. calls[r].path \in Paths
        BY <1>0, <1>5 DEF DeleteFile, Pending
      <3>2. /\ Contract!WithoutFile(objects[sites], calls[r]) \in Contract!Tree
            /\ Contract!WellFormed(Contract!WithoutFile(objects[sites], calls[r]))
        BY <1>0, <1>a, <1>b, <2>1, <3>1, WithoutFileKeepsTree
      <3>3. /\ objects' = [objects EXCEPT ![sites] = Contract!WithoutFile(objects[sites], calls[r])]
            /\ held' \in [Requests -> 0 .. MaxSites] /\ UNCHANGED <<sites, asked, calls>>
        BY <1>5, <2>1 DEF DeleteFile, Succeed, Inv, StateOK
      <3> QED  BY <1>b, <2>1, <3>2, <3>3, ChangeInv
    <2>2. CASE ~(sites # 0 /\ Contract!IsFile(Seen, calls[r]))
      BY <1>5, <2>2, RaiseInv DEF DeleteFile
    <2> QED  BY <2>1, <2>2
  <1>6. CASE DeleteFolder(r)
    <2>1. CASE sites # 0 /\ Contract!MayDeleteFolder(Seen, calls[r])
      <3>1. calls[r].path \in Paths /\ objects[sites].files[calls[r].path] = 0
        BY <1>0, <1>b, <1>6, <2>1 DEF DeleteFolder, Pending, Contract!MayDeleteFolder
      <3>2. /\ Contract!WithoutFolder(objects[sites], calls[r]) \in Contract!Tree
            /\ Contract!WellFormed(Contract!WithoutFolder(objects[sites], calls[r]))
        BY <1>0, <1>a, <1>b, <2>1, <3>1, WithoutFolderKeepsTree
      <3>3. /\ objects' = [objects EXCEPT ![sites] = Contract!WithoutFolder(objects[sites], calls[r])]
            /\ held' \in [Requests -> 0 .. MaxSites] /\ UNCHANGED <<sites, asked, calls>>
        BY <1>6, <2>1 DEF DeleteFolder, Succeed, Inv, StateOK
      <3> QED  BY <1>b, <2>1, <3>2, <3>3, ChangeInv
    <2>2. CASE ~(sites # 0 /\ Contract!MayDeleteFolder(Seen, calls[r]))
      BY <1>6, <2>2, RaiseInv DEF DeleteFolder
    <2> QED  BY <2>1, <2>2
  <1>7. CASE CreateSite(r)
    <2>1. CASE sites = 0
      BY <1>0, <1>7, <2>1 DEF CreateSite, Pending, Succeed, Inv, StateOK, CallsOK, TreesWellFormed
    <2>2. CASE sites # 0
      BY <1>7, <2>2, RaiseInv DEF CreateSite
    <2> QED  BY <2>1, <2>2
  <1>8. CASE DeleteSite(r)
    <2>1. CASE sites # 0
      BY <1>8, <2>1, Bounds DEF DeleteSite, Succeed, Inv, StateOK, CallsOK, TreesWellFormed
    <2>2. CASE sites = 0
      BY <1>8, <2>2, RaiseInv DEF DeleteSite
    <2> QED  BY <2>1, <2>2
  <1> QED  BY <1>1, <1>2, <1>3, <1>4, <1>5, <1>6, <1>7, <1>8 DEF Handle

LEMMA StepInv == Inv /\ [Next]_vars => Inv'
  <1> SUFFICES ASSUME Inv, [Next]_vars PROVE Inv'
    OBVIOUS
  <1>1. CASE UNCHANGED vars
    BY <1>1 DEF vars, Inv, StateOK, CallsOK, TreesWellFormed
  <1>2. CASE Next
    <2>1. PICK r \in Requests : SendAny(r) \/ Handle(r) \/ Answer(r)
      BY <1>2 DEF Next
    <2>2. CASE SendAny(r)
      BY <2>2, SendInv
    <2>3. CASE Handle(r)
      BY <2>3, HandleInv
    <2>4. CASE Answer(r)
      <3>1. CallsOK'
        BY <2>4, EndKeepsCalls DEF Answer, Inv
      <3> QED  BY <2>4, <3>1 DEF Answer, Inv, StateOK, TreesWellFormed
    <2> QED  BY <2>1, <2>2, <2>3, <2>4
  <1> QED  BY <1>1, <1>2

\* For all paths, requests and sites, every FakeSite stays a tree.
THEOREM SitesStayTrees == Spec => []TreesWellFormed
  <1>1. Inv => TreesWellFormed
    BY DEF Inv
  <1> QED  BY <1>1, InitInv, StepInv, PTL DEF Spec

(***************************************************************************)
(* Step by step, the in-memory backend does what the contract says.        *)
(*                                                                         *)
(* One step needs more than the trees: the contract starts a site with     *)
(* nothing in it, so the FakeSite a create_site puts under the slug has to *)
(* be one that nobody wrote to.  Nobody can: it is under the slug for no   *)
(* one, held by no upload, and made for this request alone.                *)
(***************************************************************************)
Untouched(n) ==
    /\ n \in 1 .. MaxSites /\ n # sites
    /\ \A r \in Requests : held[r] # n
    /\ objects[n] = Contract!FakeSite

Creating(r) == Pending(r, "createSite")

Fresh ==
    /\ \A n \in 1 .. MaxSites : n > asked => Untouched(n)
    /\ \A r \in Requests : Creating(r) => Untouched(calls[r].site) /\ calls[r].site <= asked
    /\ \A r, q \in Requests : Creating(r) /\ Creating(q) /\ calls[r].site = calls[q].site => r = q

LEMMA InitFresh == Init => Fresh
  <1> SUFFICES ASSUME Init PROVE Fresh
    OBVIOUS
  <1>1. \A n \in 1 .. MaxSites : Untouched(n)
    BY Bounds DEF Init, Untouched
  <1>2. \A r \in Requests : ~Creating(r)
    BY NoCallIsCall DEF Init, Creating, Pending
  <1> QED  BY <1>1, <1>2 DEF Fresh

\* A step that writes to no object but one in use, puts none under the slug and has no upload hold
\* another than the one there leaves the untouched as they are.
LEMMA StaysUntouched ==
    ASSUME Inv, NEW n \in 1 .. MaxSites, Untouched(n),
           sites' \in {0, sites},
           \A r \in Requests : held'[r] \in {0, sites, held[r]},
           \A m \in 1 .. MaxSites : objects'[m] = objects[m] \/ m = sites \/ (\E r \in Requests : held[r] = m)
    PROVE  Untouched(n)'
  <1>1. objects'[n] = objects[n]
    BY DEF Untouched
  <1>2. n # sites'
    BY Bounds DEF Untouched
  <1>3. \A r \in Requests : held'[r] # n
    BY Bounds DEF Untouched
  <1> QED  BY <1>1, <1>2, <1>3 DEF Untouched, Contract!FakeSite

LEMMA KeepsFresh ==
    ASSUME Inv, Fresh,
           sites' \in {0, sites}, asked' = asked,
           \A r \in Requests : held'[r] \in {0, sites, held[r]},
           \A m \in 1 .. MaxSites : objects'[m] = objects[m] \/ m = sites \/ (\E r \in Requests : held[r] = m),
           \A r \in Requests : Creating(r)' => Creating(r) /\ calls'[r] = calls[r]
    PROVE  Fresh'
  <1>1. \A n \in 1 .. MaxSites : Untouched(n) => Untouched(n)'
    BY StaysUntouched
  <1>2. \A n \in 1 .. MaxSites : n > asked' => Untouched(n)'
    BY <1>1 DEF Fresh
  <1>3. ASSUME NEW r \in Requests, Creating(r)'
        PROVE  /\ calls'[r] = calls[r] /\ calls[r].site \in 1 .. MaxSites
               /\ Untouched(calls[r].site)' /\ calls'[r].site <= asked'
    <2>1. Creating(r) /\ calls'[r] = calls[r]
      BY <1>3
    <2>2. Untouched(calls[r].site) /\ calls[r].site <= asked
      BY <2>1 DEF Fresh
    <2>3. calls[r].site \in 1 .. MaxSites
      BY <2>2 DEF Untouched
    <2> QED  BY <1>1, <2>1, <2>2, <2>3
  <1>4. ASSUME NEW r \in Requests, Creating(r)'
        PROVE  Untouched(calls[r].site)' /\ calls'[r].site <= asked'
    BY <1>3, <1>4 DEF Untouched
  <1>5. \A r, q \in Requests : Creating(r)' /\ Creating(q)' /\ calls'[r].site = calls'[q].site => r = q
    BY DEF Fresh
  <1> QED  BY <1>2, <1>4, <1>5 DEF Fresh

LEMMA RaiseFresh == ASSUME Inv, Fresh, NEW r \in Requests, Raise(r) PROVE Fresh'
  <1>1. \A q \in Requests : Creating(q)' => Creating(q) /\ calls'[q] = calls[q]
    BY NoCallIsCall DEF Raise, Creating, Pending, Inv, CallsOK
  <1>2. \A q \in Requests : held'[q] \in {0, sites, held[q]}
    BY DEF Raise, Inv, StateOK
  <1> QED  BY <1>1, <1>2, KeepsFresh DEF Raise

\* A handler that ends well and wrote to one object in use.
LEMMA WriteFresh ==
    ASSUME Inv, Fresh, NEW r \in Requests, Succeed(r), sites' \in {0, sites},
           NEW n \in 1 .. MaxSites, NEW t, n = sites \/ held[r] = n,
           objects' = [objects EXCEPT ![n] = t],
           \A q \in Requests : held'[q] \in {0, sites, held[q]}
    PROVE  Fresh'
  <1>1. \A q \in Requests : Creating(q)' => Creating(q) /\ calls'[q] = calls[q]
    BY DEF Succeed, Creating, Pending
  <1>2. \A m \in 1 .. MaxSites : objects'[m] = objects[m] \/ m = sites \/ (\E q \in Requests : held[q] = m)
    BY DEF Inv, StateOK
  <1> QED  BY <1>1, <1>2, KeepsFresh DEF Succeed

LEMMA SendFresh == ASSUME Inv, Fresh, NEW r \in Requests, SendAny(r) PROVE Fresh'
  <1> USE Bounds
  <1>1. CASE asked' = asked /\ \E c : Send(r, c) /\ c.op # "createSite"
    <2>1. PICK c : Send(r, c) /\ c.op # "createSite"
      BY <1>1
    <2>2. \A q \in Requests : Creating(q)' => Creating(q) /\ calls'[q] = calls[q]
      BY <2>1 DEF Send, Creating, Pending, Inv, CallsOK
    <2> QED  BY <1>1, <2>1, <2>2, KeepsFresh DEF Send
  <1>2. CASE /\ asked < MaxSites /\ asked' = asked + 1
             /\ Send(r, Contract!Ask("createSite", Root, FALSE, 0, asked + 1))
    <2>1. asked \in 0 .. MaxSites /\ asked + 1 \in 1 .. MaxSites
      BY <1>2 DEF Inv, StateOK
    <2>2. Contract!Ask("createSite", Root, FALSE, 0, asked + 1).site = asked + 1
      BY DEF Contract!Ask
    <2>3. UNCHANGED <<sites, objects, held, done>>
      BY <1>2 DEF Send
    <2>4. \A n \in 1 .. MaxSites : Untouched(n) => Untouched(n)'
      BY <2>3, StaysUntouched
    <2>5. calls'[r].site = asked + 1
      BY <1>2, <2>2 DEF Send, Inv, CallsOK
    <2>6. \A q \in Requests : q # r /\ Creating(q)' => Creating(q) /\ calls'[q] = calls[q]
      BY <1>2 DEF Send, Creating, Pending, Inv, CallsOK
    <2>7. \A n \in 1 .. MaxSites : n > asked' => Untouched(n)'
      BY <1>2, <2>1, <2>4 DEF Fresh
    <2>8. ASSUME NEW q \in Requests, q # r, Creating(q)'
          PROVE  /\ calls'[q].site \in 1 .. MaxSites /\ Untouched(calls[q].site)'
                 /\ calls'[q] = calls[q] /\ calls'[q].site <= asked
      <3>1. Creating(q) /\ calls'[q] = calls[q]
        BY <2>6, <2>8
      <3>2. Untouched(calls[q].site) /\ calls[q].site <= asked
        BY <3>1 DEF Fresh
      <3>3. calls[q].site \in 1 .. MaxSites
        BY <3>2 DEF Untouched
      <3> QED  BY <2>4, <3>1, <3>2, <3>3
    <2>9. ASSUME NEW q \in Requests, Creating(q)'
          PROVE  Untouched(calls[q].site)' /\ calls'[q].site <= asked'
      <3>1. CASE q = r
        <4>1. PICK n \in 1 .. MaxSites : n = asked + 1
          BY <2>1
        <4>2. Untouched(n)
          BY <2>1, <4>1 DEF Fresh
        <4>3. Untouched(n)'
          BY <2>4, <4>2
        <4> QED  BY <1>2, <2>1, <2>5, <3>1, <4>1, <4>3 DEF Untouched
      <3>2. CASE q # r
        BY <1>2, <2>1, <2>8, <2>9, <3>2 DEF Untouched
      <3> QED  BY <3>1, <3>2
    <2>10. ASSUME NEW p \in Requests, NEW q \in Requests, Creating(p)', Creating(q)', calls'[p].site = calls'[q].site
           PROVE  p = q
      <3>1. CASE p # r /\ q # r
        BY <2>6, <2>10, <3>1 DEF Fresh
      <3>2. CASE p = r /\ q # r
        BY <2>1, <2>5, <2>8, <2>10, <3>2
      <3>3. CASE q = r /\ p # r
        BY <2>1, <2>5, <2>8, <2>10, <3>3
      <3> QED  BY <3>1, <3>2, <3>3
    <2> QED  BY <2>7, <2>9, <2>10 DEF Fresh
  <1>3. (asked' = asked /\ \E c : Send(r, c) /\ c.op # "createSite")
        \/ (/\ asked < MaxSites /\ asked' = asked + 1
            /\ Send(r, Contract!Ask("createSite", Root, FALSE, 0, asked + 1)))
    <2>1. \A op, p, flag, v, n : Contract!Ask(op, p, flag, v, n).op = op
      BY DEF Contract!Ask
    <2>2. \A op \in {"upload", "deleteFile", "deleteFolder", "deleteSite"} : \A p, flag, v, n :
             Contract!Ask(op, p, flag, v, n).op # "createSite"
      BY <2>1
    <2>3. ASSUME \E op \in {"upload", "deleteFile", "deleteFolder", "deleteSite"} : \E p, flag, v, n :
                    Send(r, Contract!Ask(op, p, flag, v, n))
          PROVE  \E c : Send(r, c) /\ c.op # "createSite"
      <3>1. PICK op \in {"upload", "deleteFile", "deleteFolder", "deleteSite"} : \E p, flag, v, n :
                    Send(r, Contract!Ask(op, p, flag, v, n))
        BY <2>3
      <3>2. PICK p, flag, v, n : Send(r, Contract!Ask(op, p, flag, v, n))
        BY <3>1
      <3> QED  BY <2>2, <3>2
    <2> QED  BY <2>3 DEF SendAny
  <1> QED  BY <1>1, <1>2, <1>3

LEMMA CreateFresh == ASSUME Inv, Fresh, NEW r \in Requests, CreateSite(r), sites = 0 PROVE Fresh'
  <1>1. /\ Creating(r) /\ sites' = calls[r].site /\ Succeed(r) /\ UNCHANGED <<objects, held>>
    BY DEF CreateSite, Creating
  <1>2. \A q \in Requests : Creating(q)' => Creating(q) /\ calls'[q] = calls[q] /\ q # r
    BY <1>1 DEF Succeed, Creating, Pending
  <1>3. \A n \in 1 .. MaxSites : n # calls[r].site /\ Untouched(n) => Untouched(n)'
    BY <1>1 DEF Untouched, Contract!FakeSite
  <1>4. asked' = asked /\ asked \in 0 .. MaxSites /\ calls[r].site <= asked /\ calls[r].site \in 1 .. MaxSites
    BY <1>1 DEF Succeed, Fresh, Untouched, Inv, StateOK
  <1>5. \A n \in 1 .. MaxSites : n > asked' => Untouched(n)'
    BY <1>3, <1>4, Bounds DEF Fresh
  <1>6. ASSUME NEW q \in Requests, Creating(q)'
        PROVE  Untouched(calls[q].site)' /\ calls'[q].site <= asked'
    <2>1. Creating(q) /\ calls'[q] = calls[q] /\ q # r
      BY <1>2, <1>6
    <2>2. Untouched(calls[q].site) /\ calls[q].site <= asked /\ calls[q].site # calls[r].site
      BY <1>1, <2>1 DEF Fresh
    <2>3. calls[q].site \in 1 .. MaxSites
      BY <2>2 DEF Untouched
    <2>4. /\ calls[q].site # sites' /\ objects'[calls[q].site] = Contract!FakeSite
          /\ \A s \in Requests : held'[s] # calls[q].site
      BY <1>1, <2>2 DEF Untouched
    <2> QED  BY <1>4, <2>1, <2>2, <2>3, <2>4 DEF Untouched, Contract!FakeSite
  <1>7. \A p, q \in Requests : Creating(p)' /\ Creating(q)' /\ calls'[p].site = calls'[q].site => p = q
    BY <1>2 DEF Fresh
  <1> QED  BY <1>5, <1>6, <1>7 DEF Fresh

LEMMA HandleFresh == ASSUME Inv, Fresh, NEW r \in Requests, Handle(r) PROVE Fresh'
  <1>1. CASE Raise(r)
    BY <1>1, RaiseFresh
  <1>2. CASE UploadLooksUp(r) /\ sites # 0
    <2>1. held' = [held EXCEPT ![r] = sites] /\ UNCHANGED <<sites, objects, asked, calls, done>>
      BY <1>2 DEF UploadLooksUp
    <2>2. \A q \in Requests : held'[q] \in {0, sites, held[q]}
      BY <2>1 DEF Inv, StateOK
    <2>3. \A q \in Requests : Creating(q)' => Creating(q) /\ calls'[q] = calls[q]
      BY <2>1 DEF Creating, Pending
    <2> QED  BY <2>1, <2>2, <2>3, KeepsFresh
  <1>3. CASE UploadWrites(r)
    <2>1. held[r] \in 1 .. MaxSites
      BY <1>3, Bounds DEF UploadWrites, Inv, StateOK
    <2>2. /\ objects' = [objects EXCEPT ![held[r]] = Contract!Write(objects[held[r]], calls[r])]
          /\ Succeed(r) /\ sites' = sites /\ held' = [held EXCEPT ![r] = 0]
      BY <1>3 DEF UploadWrites
    <2>3. \A q \in Requests : held'[q] \in {0, sites, held[q]}
      BY <2>2 DEF Inv, StateOK
    <2> QED  BY <2>1, <2>2, <2>3, WriteFresh
  <1>4. CASE DeleteFile(r) /\ ~Raise(r)
    <2>1. /\ sites # 0 /\ objects' = [objects EXCEPT ![sites] = Contract!WithoutFile(objects[sites], calls[r])]
          /\ Succeed(r) /\ sites' = sites /\ held' = held
      BY <1>4 DEF DeleteFile
    <2>2. sites \in 1 .. MaxSites
      BY <2>1, Bounds DEF Inv, StateOK
    <2> QED  BY <2>1, <2>2, WriteFresh
  <1>5. CASE DeleteFolder(r) /\ ~Raise(r)
    <2>1. /\ sites # 0 /\ objects' = [objects EXCEPT ![sites] = Contract!WithoutFolder(objects[sites], calls[r])]
          /\ Succeed(r) /\ sites' = sites /\ held' = held
      BY <1>5 DEF DeleteFolder
    <2>2. sites \in 1 .. MaxSites
      BY <2>1, Bounds DEF Inv, StateOK
    <2> QED  BY <2>1, <2>2, WriteFresh
  <1>6. CASE CreateSite(r) /\ sites = 0
    BY <1>6, CreateFresh
  <1>7. CASE DeleteSite(r) /\ sites # 0
    <2>1. sites' = 0 /\ Succeed(r) /\ UNCHANGED <<objects, held>>
      BY <1>7 DEF DeleteSite
    <2>2. \A q \in Requests : Creating(q)' => Creating(q) /\ calls'[q] = calls[q]
      BY <2>1 DEF Succeed, Creating, Pending
    <2> QED  BY <2>1, <2>2, KeepsFresh DEF Succeed
  <1> QED  BY <1>1, <1>2, <1>3, <1>4, <1>5, <1>6, <1>7
           DEF Handle, UploadLooksUp, UploadRefused, UploadDropped, CreateSite, DeleteSite

LEMMA StepFresh == Inv /\ Fresh /\ [Next]_vars => Fresh'
  <1> SUFFICES ASSUME Inv, Fresh, [Next]_vars PROVE Fresh'
    OBVIOUS
  <1>1. CASE UNCHANGED vars
    <2>1. \A q \in Requests : Creating(q)' => Creating(q) /\ calls'[q] = calls[q]
      BY <1>1 DEF vars, Creating, Pending
    <2> QED  BY <1>1, <2>1, KeepsFresh DEF vars
  <1>2. CASE Next
    <2>1. PICK r \in Requests : SendAny(r) \/ Handle(r) \/ Answer(r)
      BY <1>2 DEF Next
    <2>2. CASE SendAny(r)
      BY <2>2, SendFresh
    <2>3. CASE Handle(r)
      BY <2>3, HandleFresh
    <2>4. CASE Answer(r)
      <3>1. \A q \in Requests : Creating(q)' => Creating(q) /\ calls'[q] = calls[q]
        BY <2>4, NoCallIsCall DEF Answer, Creating, Pending, Inv, CallsOK
      <3> QED  BY <2>4, <3>1, KeepsFresh DEF Answer
    <2> QED  BY <2>1, <2>2, <2>3, <2>4
  <1> QED  BY <1>1, <1>2

(***************************************************************************)
(* What each step is to the contract.                                      *)
(***************************************************************************)
LEMMA SeenSame == ASSUME UNCHANGED <<sites, objects>> PROVE Seen' = Seen
  BY DEF Seen

\* Another object than the one under the slug changed: nobody sees it.
LEMMA SeenElsewhere ==
    ASSUME Inv, NEW n \in 1 .. MaxSites, NEW t, n # sites,
           objects' = [objects EXCEPT ![n] = t], sites' = sites
    PROVE  Seen' = Seen
  <1>1. CASE sites = 0
    BY <1>1 DEF Seen
  <1>2. CASE sites # 0
    <2>1. objects'[sites] = objects[sites]
      BY Bounds, <1>2 DEF Inv, StateOK
    <2> QED  BY <1>2, <2>1 DEF Seen
  <1> QED  BY <1>1, <1>2

\* The object under the slug changed.
LEMMA SeenHere ==
    ASSUME Inv, sites # 0, NEW t, objects' = [objects EXCEPT ![sites] = t], sites' = sites
    PROVE  Seen' = t /\ Seen = objects[sites]
  <1>1. sites \in 1 .. MaxSites
    BY Bounds DEF Inv, StateOK
  <1> QED  BY <1>1 DEF Inv, StateOK, Seen

\* An ApiError is a refusal of the contract when its rules refuse the request.
LEMMA RaiseRefused ==
    ASSUME NEW r \in Requests, Raise(r), Contract!Refusable(r)
    PROVE  Contract!Refused(r)
  BY SeenSame DEF Raise, Contract!Refused, Contract!Leave

Allowed == Contract!Next \/ (\E r \in Requests : OrphanEnds(r))

LEMMA SendArrives == ASSUME Inv, NEW r \in Requests, SendAny(r) PROVE Contract!Arrives(r)
  <1>1. \A c : Send(r, c) => Contract!Arrive(r, c)
    BY SeenSame DEF Send, Contract!Arrive
  <1>2. asked < MaxSites => asked + 1 \in 1 .. MaxSites
    BY Bounds DEF Inv, StateOK
  <1> QED  BY <1>1, <1>2 DEF SendAny, Contract!Arrives, Contract!UploadArrives, Contract!DeleteFileArrives,
              Contract!DeleteFolderArrives, Contract!CreateSiteArrives, Contract!DeleteSiteArrives

LEMMA HandleAllowed ==
    ASSUME Inv, Fresh, NEW r \in Requests, Handle(r)
    PROVE  \/ Contract!Effect(r) \/ Contract!Refused(r) \/ Contract!UploadGivenUp(r)
           \/ OrphanEnds(r) \/ UNCHANGED <<sites, Seen, calls, done>>
  <1>a. \A op : Pending(r, op) <=> Contract!Pending(r, op)
    BY DEF Pending, Contract!Pending
  <1>b. Succeed(r) => Contract!Succeed(r)
    BY DEF Succeed, Contract!Succeed
  <1>c. sites # 0 => Seen = objects[sites]
    BY DEF Seen
  <1>1. CASE UploadLooksUp(r)
    <2>1. CASE sites = 0
      BY <1>1, <1>a, <2>1, RaiseRefused DEF UploadLooksUp, Contract!Refusable
    <2>2. CASE sites # 0
      BY <1>1, <2>2, SeenSame DEF UploadLooksUp
    <2> QED  BY <2>1, <2>2
  <1>2. CASE UploadWrites(r)
    <2>1. held[r] \in 1 .. MaxSites
      BY <1>2, Bounds DEF UploadWrites, Inv, StateOK
    <2>2. /\ Pending(r, "upload") /\ Contract!CheckWriteTarget(objects[held[r]], calls[r])
          /\ objects' = [objects EXCEPT ![held[r]] = Contract!Write(objects[held[r]], calls[r])]
          /\ held' = [held EXCEPT ![r] = 0] /\ Succeed(r) /\ sites' = sites
      BY <1>2 DEF UploadWrites
    <2>3. CASE held[r] = sites
      <3>1. sites # 0
        BY <2>1, <2>3
      <3>2. Seen = objects[sites] /\ Seen' = Contract!Write(Seen, calls[r])
        BY <2>2, <2>3, <3>1, SeenHere
      <3>3. Contract!UploadDone(r)
        BY <1>a, <1>b, <2>2, <2>3, <3>1, <3>2 DEF Contract!UploadDone
      <3> QED  BY <3>3 DEF Contract!Effect
    <2>4. CASE held[r] # sites
      <3>1. Seen' = Seen
        BY <2>1, <2>2, <2>4, SeenElsewhere
      <3>2. held'[r] = 0
        BY <2>2 DEF Inv, StateOK
      <3> QED  BY <2>1, <2>2, <2>4, <3>1, <3>2 DEF OrphanEnds
    <2> QED  BY <2>3, <2>4
  <1>3. CASE UploadRefused(r)
    <2>1. /\ Pending(r, "upload") /\ held[r] # 0 /\ Raise(r)
          /\ ~Contract!CheckWriteTarget(objects[held[r]], calls[r])
      BY <1>3 DEF UploadRefused
    <2>2. CASE held[r] = sites
      BY <1>a, <1>c, <2>1, <2>2, RaiseRefused DEF Contract!Refusable
    <2>3. CASE held[r] # sites
      <3>1. held'[r] = 0 /\ sites' = sites /\ Seen' = Seen
        BY <2>1, SeenSame DEF Raise, Inv, StateOK
      <3> QED  BY <2>1, <2>3, <3>1 DEF OrphanEnds
    <2> QED  BY <2>2, <2>3
  <1>4. CASE UploadDropped(r)
    BY <1>4, <1>a, SeenSame DEF UploadDropped, Raise, Contract!UploadGivenUp, Contract!Leave
  <1>5. CASE DeleteFile(r)
    <2>1. CASE sites # 0 /\ Contract!IsFile(Seen, calls[r])
      <3>1. /\ Pending(r, "deleteFile") /\ Succeed(r) /\ sites' = sites
            /\ objects' = [objects EXCEPT ![sites] = Contract!WithoutFile(objects[sites], calls[r])]
        BY <1>5, <2>1 DEF DeleteFile
      <3>2. Seen' = Contract!WithoutFile(Seen, calls[r])
        BY <2>1, <3>1, SeenHere
      <3>3. Contract!DeleteFileDone(r)
        BY <1>a, <1>b, <2>1, <3>1, <3>2 DEF Contract!DeleteFileDone
      <3> QED  BY <3>3 DEF Contract!Effect
    <2>2. CASE ~(sites # 0 /\ Contract!IsFile(Seen, calls[r]))
      BY <1>5, <1>a, <2>2, RaiseRefused DEF DeleteFile, Contract!Refusable
    <2> QED  BY <2>1, <2>2
  <1>6. CASE DeleteFolder(r)
    <2>1. CASE sites # 0 /\ Contract!MayDeleteFolder(Seen, calls[r])
      <3>1. /\ Pending(r, "deleteFolder") /\ Succeed(r) /\ sites' = sites
            /\ objects' = [objects EXCEPT ![sites] = Contract!WithoutFolder(objects[sites], calls[r])]
        BY <1>6, <2>1 DEF DeleteFolder
      <3>2. Seen' = Contract!WithoutFolder(Seen, calls[r])
        BY <2>1, <3>1, SeenHere
      <3>3. Contract!DeleteFolderDone(r)
        BY <1>a, <1>b, <2>1, <3>1, <3>2 DEF Contract!DeleteFolderDone
      <3> QED  BY <3>3 DEF Contract!Effect
    <2>2. CASE ~(sites # 0 /\ Contract!MayDeleteFolder(Seen, calls[r]))
      BY <1>6, <1>a, <2>2, RaiseRefused DEF DeleteFolder, Contract!Refusable
    <2> QED  BY <2>1, <2>2
  <1>7. CASE CreateSite(r)
    <2>1. CASE sites = 0
      <3>1. Pending(r, "createSite") /\ Succeed(r) /\ sites' = calls[r].site /\ objects' = objects
        BY <1>7, <2>1 DEF CreateSite
      <3>2. Untouched(calls[r].site)
        BY <3>1 DEF Fresh, Creating
      <3>3. sites' # 0 /\ objects'[sites'] = Contract!FakeSite
        BY <3>1, <3>2, Bounds DEF Untouched
      <3>4. Seen' = Contract!FakeSite
        BY <3>3 DEF Seen
      <3>5. Contract!CreateSiteDone(r)
        BY <1>a, <1>b, <2>1, <3>1, <3>4 DEF Contract!CreateSiteDone
      <3> QED  BY <3>5 DEF Contract!Effect
    <2>2. CASE sites # 0
      BY <1>7, <1>a, <2>2, RaiseRefused DEF CreateSite, Contract!Refusable
    <2> QED  BY <2>1, <2>2
  <1>8. CASE DeleteSite(r)
    <2>1. CASE sites # 0
      <3>1. Pending(r, "deleteSite") /\ Succeed(r) /\ sites' = 0
        BY <1>8, <2>1 DEF DeleteSite
      <3>2. Seen' = Contract!FakeSite
        BY <3>1 DEF Seen, Contract!FakeSite
      <3>3. Contract!DeleteSiteDone(r)
        BY <1>a, <1>b, <2>1, <3>1, <3>2 DEF Contract!DeleteSiteDone
      <3> QED  BY <3>3 DEF Contract!Effect
    <2>2. CASE sites = 0
      BY <1>8, <1>a, <2>2, RaiseRefused DEF DeleteSite, Contract!Refusable
    <2> QED  BY <2>1, <2>2
  <1> QED  BY <1>1, <1>2, <1>3, <1>4, <1>5, <1>6, <1>7, <1>8 DEF Handle

LEMMA StepAllowed == Inv /\ Fresh /\ [Next]_vars => [Allowed]_<<sites, Seen, calls, done>>
  <1> SUFFICES ASSUME Inv, Fresh, [Next]_vars PROVE Allowed \/ UNCHANGED <<sites, Seen, calls, done>>
    OBVIOUS
  <1>1. CASE UNCHANGED vars
    BY <1>1, SeenSame DEF vars
  <1>2. CASE Next
    <2>1. PICK r \in Requests : SendAny(r) \/ Handle(r) \/ Answer(r)
      BY <1>2 DEF Next
    <2>2. CASE SendAny(r)
      BY <2>2, SendArrives DEF Allowed, Contract!Next
    <2>3. CASE Handle(r)
      BY <2>3, HandleAllowed DEF Allowed, Contract!Next
    <2>4. CASE Answer(r)
      <3>1. Contract!Answered(r)
        BY <2>4, SeenSame DEF Answer, Contract!Answered, Contract!Leave
      <3> QED  BY <3>1 DEF Allowed, Contract!Next
    <2> QED  BY <2>1, <2>2, <2>3, <2>4
  <1> QED  BY <1>1, <1>2

\* For all paths, requests and sites, the in-memory backend does step by step what the contract
\* of SiteTree says, but for the end of an upload whose site was deleted while its body was on
\* the way, and that one touches nothing the contract speaks of.
THEOREM KeepsContract == Spec => ContractKeptInPlace
  <1>1. Init => Inv /\ Fresh
    BY InitInv, InitFresh
  <1>2. Inv /\ Fresh /\ [Next]_vars => Inv' /\ Fresh' /\ [Allowed]_<<sites, Seen, calls, done>>
    BY StepInv, StepFresh, StepAllowed
  <1>3. Spec => [][Allowed]_<<sites, Seen, calls, done>>
    BY <1>1, <1>2, PTL DEF Spec
  <1> QED  BY <1>3 DEF ContractKeptInPlace, Allowed
=============================================================================
