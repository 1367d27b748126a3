------------------------------ MODULE SiteTree ------------------------------
(***************************************************************************)
(* What the REST contract promises about one site's files and folders: the *)
(* rules the in-memory backend of common/fake_backend.py states without    *)
(* locks, threads or a disk.  Every request that changes the site takes    *)
(* effect whole, at one moment between its arrival and its answer; the     *)
(* rules decide at that moment whether it succeeds; and one that is        *)
(* refused or given up changes nothing.                                    *)
(*                                                                         *)
(* SiteContract shows that the backend's store implements this             *)
(* specification, FakeBackend how far the in-memory backend does.          *)
(***************************************************************************)
EXTENDS Naturals, FiniteSets

CONSTANTS
    Paths,        \* the valid paths below the site's root
    Root,         \* the path ""
    Ancestors,    \* Ancestors[p]: the folders a path passes through
    Requests,     \* slots for requests that change the site
    MaxVersion,   \* bound: file contents that ever exist
    MaxSites      \* bound: requests to create the site

VARIABLES
    site,    \* the site: 0 for none, else which request made it
    tree,    \* its files and folders
    calls,   \* what each request asks for
    done     \* requests that took effect and are not answered yet

vars == <<site, tree, calls, done>>

(***************************************************************************)
(* FakeSite: the files by path, 0 for none, and the folders, which exist   *)
(* on their own.                                                           *)
(***************************************************************************)
Tree == [files : [Paths -> 0 .. MaxVersion], folders : SUBSET Paths]
FakeSite == [files |-> [p \in Paths |-> 0], folders |-> {}]

\* descendants, and the paths of its two lists.
Below(p) == {q \in Paths : p \in Ancestors[q]}
Descendants(t, p) == {q \in Below(p) : t.files[q] # 0 \/ q \in t.folders}

\* Mutant: the folder that holds the file is made, the ones above it are not.
AddFoldersFor_Parent(t, p) ==
    t.folders \cup {q \in Ancestors[p] : \A s \in Ancestors[p] : s = q \/ s \in Ancestors[q]}

\* add_folders_for: from the parent upwards, up to the first folder there is.
AddFoldersFor(t, p) ==
    t.folders \cup {q \in Ancestors[p] : \A s \in Ancestors[p] \cap t.folders : q # s /\ q \notin Ancestors[s]}

\* _check_write_target
CheckWriteTarget(t, c) ==
    /\ c.path \notin t.folders
    /\ \A q \in Ancestors[c.path] : t.files[q] = 0
    /\ t.files[c.path] = 0 \/ c.flag

\* _write
Write(t, c) == [files |-> [t.files EXCEPT ![c.path] = c.ver], folders |-> AddFoldersFor(t, c.path)]

\* delete_file
IsFile(t, c) == c.path \notin t.folders /\ t.files[c.path] # 0
WithoutFile(t, c) == [t EXCEPT !.files[c.path] = 0]

\* delete_folder
MayDeleteFolder(t, c) ==
    /\ t.files[c.path] = 0 /\ c.path \in t.folders
    /\ Descendants(t, c.path) = {} \/ c.flag

WithoutFolder(t, c) ==
    [files |-> [q \in Paths |-> IF q \in Below(c.path) THEN 0 ELSE t.files[q]],
     folders |-> t.folders \ (Below(c.path) \cup {c.path})]

(***************************************************************************)
(* Requests                                                                *)
(***************************************************************************)
Call == [op : {"none", "upload", "deleteFile", "deleteFolder", "createSite", "deleteSite"},
         path : Paths \cup {Root}, flag : BOOLEAN, ver : 0 .. MaxVersion, site : 0 .. MaxSites]
NoCall == [op |-> "none", path |-> Root, flag |-> FALSE, ver |-> 0, site |-> 0]

Ask(op, p, flag, v, n) == [op |-> op, path |-> p, flag |-> flag, ver |-> v, site |-> n]

\* A request arrives, and finds the site there or not.
Arrive(r, c) ==
    /\ calls[r] = NoCall
    /\ calls' = [calls EXCEPT ![r] = c]
    /\ UNCHANGED <<site, tree, done>>

UploadArrives(r, p, overwrite, v) == Arrive(r, Ask("upload", p, overwrite, v, site))
DeleteFileArrives(r, p) == Arrive(r, Ask("deleteFile", p, FALSE, 0, site))
DeleteFolderArrives(r, p, recursive) == Arrive(r, Ask("deleteFolder", p, recursive, 0, site))
CreateSiteArrives(r, n) == Arrive(r, Ask("createSite", Root, FALSE, 0, n))
DeleteSiteArrives(r) == Arrive(r, Ask("deleteSite", Root, FALSE, 0, site))

Pending(r, op) == calls[r].op = op /\ r \notin done
Succeed(r) == done' = done \cup {r} /\ UNCHANGED calls

UploadDone(r) ==
    /\ Pending(r, "upload") /\ site # 0 /\ CheckWriteTarget(tree, calls[r])
    /\ tree' = Write(tree, calls[r])
    /\ Succeed(r) /\ UNCHANGED site

DeleteFileDone(r) ==
    /\ Pending(r, "deleteFile") /\ site # 0 /\ IsFile(tree, calls[r])
    /\ tree' = WithoutFile(tree, calls[r])
    /\ Succeed(r) /\ UNCHANGED site

DeleteFolderDone(r) ==
    /\ Pending(r, "deleteFolder") /\ site # 0 /\ MayDeleteFolder(tree, calls[r])
    /\ tree' = WithoutFolder(tree, calls[r])
    /\ Succeed(r) /\ UNCHANGED site

CreateSiteDone(r) ==
    /\ Pending(r, "createSite") /\ site = 0
    /\ site' = calls[r].site /\ tree' = FakeSite
    /\ Succeed(r)

\* Of two that found the site there, both may succeed.
DeleteSiteDone(r) ==
    /\ Pending(r, "deleteSite") /\ (site # 0 \/ calls[r].site # 0)
    /\ site' = 0 /\ tree' = FakeSite
    /\ Succeed(r)

\* The rules refuse the request as the site stands now.
Refusable(r) ==
    \/ Pending(r, "upload") /\ (site = 0 \/ ~CheckWriteTarget(tree, calls[r]))
    \/ Pending(r, "deleteFile") /\ (site = 0 \/ ~IsFile(tree, calls[r]))
    \/ Pending(r, "deleteFolder") /\ (site = 0 \/ ~MayDeleteFolder(tree, calls[r]))
    \/ Pending(r, "createSite") /\ site # 0
    \/ Pending(r, "deleteSite") /\ site = 0

\* The request ends.
Leave(r) == calls' = [calls EXCEPT ![r] = NoCall] /\ UNCHANGED <<site, tree>>

Refused(r) == Refusable(r) /\ Leave(r) /\ UNCHANGED done

\* The body is too large, or never arrives whole.
UploadGivenUp(r) == Pending(r, "upload") /\ Leave(r) /\ UNCHANGED done

Answered(r) == r \in done /\ Leave(r) /\ done' = done \ {r}

Init ==
    /\ site = 0 /\ tree = FakeSite
    /\ calls = [r \in Requests |-> NoCall] /\ done = {}

Arrives(r) ==
    \/ \E p \in Paths, overwrite \in BOOLEAN, v \in 1 .. MaxVersion : UploadArrives(r, p, overwrite, v)
    \/ \E p \in Paths : DeleteFileArrives(r, p)
    \/ \E p \in Paths, recursive \in BOOLEAN : DeleteFolderArrives(r, p, recursive)
    \/ \E n \in 1 .. MaxSites : CreateSiteArrives(r, n)
    \/ DeleteSiteArrives(r)

Effect(r) ==
    UploadDone(r) \/ DeleteFileDone(r) \/ DeleteFolderDone(r) \/ CreateSiteDone(r) \/ DeleteSiteDone(r)

Next == \E r \in Requests : Arrives(r) \/ Effect(r) \/ Refused(r) \/ UploadGivenUp(r) \/ Answered(r)

Spec == Init /\ [][Next]_vars

(***************************************************************************)
(* A site's tree is a tree: no path is both a file and a folder, and       *)
(* everything lies in folders.                                             *)
(***************************************************************************)
WellFormed(t) ==
    \A p \in Paths :
        /\ t.files[p] = 0 \/ p \notin t.folders
        /\ (t.files[p] # 0 \/ p \in t.folders) => Ancestors[p] \subseteq t.folders
=============================================================================
