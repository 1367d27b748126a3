----------------------------- MODULE SiteStore -----------------------------
(***************************************************************************)
(* The backend's store of one site: its folder on the data volume, its row *)
(* in `sites`, its rows in `files` (the index), the staging area, and the  *)
(* requests that change them (backend/storage.py, backend/db.py and the    *)
(* site and file routes of backend/routes.py).                             *)
(*                                                                         *)
(* Every operation takes a slug and touches that slug's folder, rows and   *)
(* lock only, so one site is the whole state space; SiteLocks models the   *)
(* locks of several sites.                                                 *)
(*                                                                         *)
(* Who runs when.  Handlers are coroutines of one event loop and their     *)
(* database calls are synchronous, so a handler runs undisturbed by other  *)
(* handlers from one await to the next; the awaits are the request body,   *)
(* the site's lock and the removals done in a thread.  A listing runs in a *)
(* worker thread without the lock and interleaves with everything, so each *)
(* handler is cut wherever a thread or a crash could see it half done.     *)
(***************************************************************************)
EXTENDS Naturals, Sequences, FiniteSets

CONSTANTS
    Paths,        \* the valid paths below the site's folder
    Root,         \* the path "", the site's folder itself
    Ancestors,    \* Ancestors[p]: the folders a path passes through
    Requests,     \* slots for requests that change the site
    Listers,      \* slots for listings, each in its thread
    MaxVersion,   \* bound: file contents that ever exist
    MaxSites,     \* bound: requests to create the site
    MaxFaults,    \* bound: crashes and I/O errors
    Restores      \* whether an operator changes the volume while the service is down

ASSUME PathTree ==
    /\ Root \notin Paths
    /\ Ancestors \in [Paths -> SUBSET Paths]
    /\ \A p \in Paths : p \notin Ancestors[p]
    /\ \A p \in Paths : \A q \in Ancestors[p] : Ancestors[q] \subseteq Ancestors[p]
    /\ \A p \in Paths : \A q, s \in Ancestors[p] :
          q = s \/ q \in Ancestors[s] \/ s \in Ancestors[q]

ASSUME Bounds ==
    /\ MaxVersion \in Nat
    /\ MaxSites \in Nat
    /\ MaxFaults \in Nat
    /\ Restores \in BOOLEAN

VARIABLES
    up,        \* the service runs
    root,      \* sites/<slug>/ is on the volume
    tree,      \* what is on the volume at each path
    row,       \* the row in `sites`: 0 for none, else which request made it
    files,     \* the rows in `files`
    queue,     \* the site's lock: its holder, then those awaiting it in order
    pc,        \* where each request is
    req,       \* what each request asks for
    staged,    \* requests with a .part file in staging/
    parked,    \* requests with a parked site folder in staging/
    litter,    \* staging/ holds a parked folder no request will remove
    lpc,       \* where each listing is
    folder,    \* each listing's folder,
    indexed,   \*   its snapshot of the rows,
    todo,      \*   the entries still to visit, then the rows still to drop,
    seen,      \*   the files seen
    hashing,   \*   and the file it is hashing
    quiet,     \* history: the listings whose store nobody else has changed
    nextVer,   \* the next file content
    nextSite,  \* the next request to create the site
    faults     \* faults so far

vars == <<up, root, tree, row, files, queue, pc, req, staged, parked, litter,
          lpc, folder, indexed, todo, seen, hashing, quiet, nextVer, nextSite, faults>>

volume  == <<root, tree>>
index   == <<row, files>>
staging == <<staged, parked, litter>>
counts  == <<nextVer, nextSite, faults>>
listing == <<lpc, folder, indexed, todo, seen, hashing>>

(***************************************************************************)
(* The volume and the index.  A file version stands for a body received    *)
(* whole, with the size and modification time that tell it from others.    *)
(***************************************************************************)
Folders  == Paths \cup {Root}

Missing == [kind |-> "missing", ver |-> 0]
Folder  == [kind |-> "folder",  ver |-> 0]
Special == [kind |-> "special", ver |-> 0]
File(v) == [kind |-> "file",    ver |-> v]
Node    == [kind : {"missing", "folder", "special", "file"}, ver : 0 .. MaxVersion]

\* A row of `files`: the version whose size and mtime it holds, and the
\* version whose digest it holds.
Row    == [st : 0 .. MaxVersion, sha : 0 .. MaxVersion]
NoRow  == [st |-> 0, sha |-> 0]
NoRows == [p \in Paths |-> NoRow]

\* _below: the paths below a folder.  files_in_folder: those directly in it.
Below(f)    == IF f = Root THEN Paths ELSE {p \in Paths : f \in Ancestors[p]}
InFolder(f) == {p \in Paths : Ancestors[p] = IF f = Root THEN {} ELSE Ancestors[f] \cup {f}}

\* resolve: no component of the path is anything but a file or a folder.
Resolves(p) == \A q \in Ancestors[p] \cup {p} : tree[q] # Special

\* kind_of: what lstat finds.
KindOf(f) == IF f = Root THEN (IF root THEN "folder" ELSE "missing") ELSE tree[f].kind

(***************************************************************************)
(* Requests                                                                *)
(***************************************************************************)
Ops == {"none", "upload", "deleteFile", "deleteFolder", "createSite", "deleteSite"}
Req == [op : Ops, path : Folders, flag : BOOLEAN, ver : 0 .. MaxVersion, site : 0 .. MaxSites]
NoReq == [op |-> "none", path |-> Root, flag |-> FALSE, ver |-> 0, site |-> 0]

\* Inside a critical section, between two effects and with no await between.
MidSection == {"placed", "unlinked", "parked", "made"}
PC == MidSection \cup {"idle", "receiving", "waiting", "removing", "purging"}

LPC == {"idle", "queued", "found", "open", "scan", "hash", "upsert", "drop", "done"}
\* A file a listing has stat'ed and then hashed.
Hashing == [path : Folders, st : 0 .. MaxVersion, sha : 0 .. MaxVersion]
NoHashing == [path |-> Root, st |-> 0, sha |-> 0]

Init ==
    /\ up = TRUE
    /\ root = FALSE
    /\ tree = [p \in Paths |-> Missing]
    /\ row = 0
    /\ files = NoRows
    /\ queue = <<>>
    /\ pc = [r \in Requests |-> "idle"]
    /\ req = [r \in Requests |-> NoReq]
    /\ staged = {} /\ parked = {} /\ litter = FALSE
    /\ lpc = [l \in Listers |-> "idle"]
    /\ folder = [l \in Listers |-> Root]
    /\ indexed = [l \in Listers |-> NoRows]
    /\ todo = [l \in Listers |-> {}]
    /\ seen = [l \in Listers |-> {}]
    /\ hashing = [l \in Listers |-> NoHashing]
    /\ quiet = {}
    /\ nextVer = 1 /\ nextSite = 1 /\ faults = 0

\* The event loop is free for r: no other request is inside a section.
Loop(r) == up /\ \A q \in Requests \ {r} : pc[q] \notin MidSection

\* r holds the site's lock.
Holds(r) == queue # <<>> /\ Head(queue) = r

\* A request changes the store: no listing is undisturbed.
Disturb == quiet' = {} /\ UNCHANGED listing

Go(r, to)  == pc' = [pc EXCEPT ![r] = to]
Answer(r)  == Go(r, "idle") /\ req' = [req EXCEPT ![r] = NoReq]
Release    == queue' = Tail(queue)
\* The request ends with an error under the lock and changes nothing.
Refuse(r)  == Release /\ Answer(r) /\ UNCHANGED <<up, volume, index, parked, litter, listing, quiet, counts>>

Fault == faults < MaxFaults /\ faults' = faults + 1 /\ UNCHANGED <<nextVer, nextSite>>

(***************************************************************************)
(* PUT /sites/{slug}/files/{path}: upload_file, Storage.write_file         *)
(***************************************************************************)

\* The route's and write_file's checks, up to the first await in _stage.
UploadStart(r, p, overwrite) ==
    /\ Loop(r) /\ pc[r] = "idle" /\ row # 0 /\ Resolves(p) /\ nextVer <= MaxVersion
    /\ req' = [req EXCEPT ![r] = [op |-> "upload", path |-> p, flag |-> overwrite,
                                  ver |-> nextVer, site |-> row]]
    /\ nextVer' = nextVer + 1
    /\ staged' = staged \cup {r}
    /\ Go(r, "receiving")
    /\ UNCHANGED <<up, volume, index, queue, parked, litter, listing, quiet, nextSite, faults>>

\* The body is received whole and synced; the lock is asked for.
UploadReceived(r) ==
    /\ Loop(r) /\ pc[r] = "receiving"
    /\ queue' = Append(queue, r)
    /\ Go(r, "waiting")
    /\ UNCHANGED <<up, volume, index, req, staging, listing, quiet, counts>>

\* _stage fails: the client goes away, the cap is passed, the disk is full.
UploadAborted(r) ==
    /\ Loop(r) /\ pc[r] = "receiving"
    /\ staged' = staged \ {r}
    /\ Answer(r)
    /\ UNCHANGED <<up, volume, index, queue, parked, litter, listing, quiet, counts>>

\* Mutant: overwrite is not asked of an existing file under the lock.
WriteTargetOK_AnyFile(r) ==
    LET p == req[r].path IN
    /\ Resolves(p)
    /\ \A q \in Ancestors[p] : tree[q].kind # "file"
    /\ tree[p].kind # "folder"

\* _check_write_target, after resolve.
WriteTargetOK(r) ==
    LET p == req[r].path IN
    /\ Resolves(p)
    /\ \A q \in Ancestors[p] : tree[q].kind # "file"
    /\ \/ tree[p] = Missing
       \/ tree[p].kind = "file" /\ req[r].flag

\* Mutant: the row is not looked up again under the lock.
UploadMayLand_NoRowCheck(r) == WriteTargetOK(r)

\* The lock is held: the row, the path and the target are checked.
UploadMayLand(r) == row # 0 /\ WriteTargetOK(r)

UploadRefused(r) ==
    /\ Loop(r) /\ pc[r] = "waiting" /\ Holds(r) /\ req[r].op = "upload"
    /\ ~UploadMayLand(r)
    /\ staged' = staged \ {r}
    /\ Refuse(r)

\* The tree once the folders ps exist.
WithFolders(ps) == [q \in Paths |-> IF q \in ps THEN Folder ELSE tree[q]]

\* Parent folders, then os.replace.
UploadPlace(r) ==
    /\ Loop(r) /\ pc[r] = "waiting" /\ Holds(r) /\ req[r].op = "upload"
    /\ UploadMayLand(r)
    /\ root' = TRUE
    /\ tree' = [WithFolders(Ancestors[req[r].path]) EXCEPT ![req[r].path] = File(req[r].ver)]
    /\ staged' = staged \ {r}
    /\ Go(r, "placed")
    /\ Disturb
    /\ UNCHANGED <<up, index, queue, req, parked, litter, counts>>

\* A call before os.replace, or it, fails after some of the folders were made.
UploadPlaceFails(r) ==
    /\ Loop(r) /\ pc[r] = "waiting" /\ Holds(r) /\ req[r].op = "upload"
    /\ UploadMayLand(r)
    /\ Fault
    /\ \E made \in SUBSET Ancestors[req[r].path] :
          /\ \A q \in made : Ancestors[q] \subseteq made
          /\ tree' = WithFolders(made)
          /\ root' \in IF made = {} THEN {root, TRUE} ELSE {TRUE}
    /\ staged' = staged \ {r}
    /\ Release /\ Answer(r)
    /\ Disturb
    /\ UNCHANGED <<up, index, parked, litter>>

\* upsert_file, the end of the section and the answer.
UploadIndex(r) ==
    /\ Loop(r) /\ pc[r] = "placed"
    /\ files' = [files EXCEPT ![req[r].path] = [st |-> req[r].ver, sha |-> req[r].ver]]
    /\ Release /\ Answer(r)
    /\ Disturb
    /\ UNCHANGED <<up, volume, row, staging, counts>>

(***************************************************************************)
(* DELETE /sites/{slug}/files/{path} and /folders/{path}                   *)
(***************************************************************************)

\* The route's check of the row; the lock is asked for with no await between.
DeleteStart(r, op, p, recursive) ==
    /\ Loop(r) /\ pc[r] = "idle" /\ row # 0
    /\ req' = [req EXCEPT ![r] = [op |-> op, path |-> p, flag |-> recursive, ver |-> 0, site |-> row]]
    /\ queue' = Append(queue, r)
    /\ Go(r, "waiting")
    /\ UNCHANGED <<up, volume, index, staging, listing, quiet, counts>>

DeleteFileStart(r, p)              == DeleteStart(r, "deleteFile", p, FALSE)
DeleteFolderStart(r, p, recursive) == DeleteStart(r, "deleteFolder", p, recursive)

\* Mutant: the error path does not release the lock.
DeleteFileRefused_KeepsLock(r) ==
    /\ Loop(r) /\ pc[r] = "waiting" /\ Holds(r) /\ req[r].op = "deleteFile"
    /\ ~(Resolves(req[r].path) /\ KindOf(req[r].path) = "file")
    /\ Answer(r) /\ UNCHANGED <<up, volume, index, queue, staging, listing, quiet, counts>>

DeleteFileRefused(r) ==
    /\ Loop(r) /\ pc[r] = "waiting" /\ Holds(r) /\ req[r].op = "deleteFile"
    /\ ~(Resolves(req[r].path) /\ KindOf(req[r].path) = "file")
    /\ Refuse(r) /\ UNCHANGED staged

DeleteFileUnlink(r) ==
    /\ Loop(r) /\ pc[r] = "waiting" /\ Holds(r) /\ req[r].op = "deleteFile"
    /\ Resolves(req[r].path) /\ KindOf(req[r].path) = "file"
    /\ tree' = [tree EXCEPT ![req[r].path] = Missing]
    /\ Go(r, "unlinked")
    /\ Disturb
    /\ UNCHANGED <<up, root, index, queue, req, staging, counts>>

DeleteFileRow(r) ==
    /\ Loop(r) /\ pc[r] = "unlinked"
    /\ files' = [files EXCEPT ![req[r].path] = NoRow]
    /\ Release /\ Answer(r)
    /\ Disturb
    /\ UNCHANGED <<up, volume, row, staging, counts>>

Empty(f) == \A p \in Below(f) : tree[p] = Missing

DeleteFolderMayRun(r) ==
    /\ Resolves(req[r].path) /\ KindOf(req[r].path) = "folder"
    /\ Empty(req[r].path) \/ req[r].flag

DeleteFolderRefused(r) ==
    /\ Loop(r) /\ pc[r] = "waiting" /\ Holds(r) /\ req[r].op = "deleteFolder"
    /\ ~DeleteFolderMayRun(r)
    /\ Refuse(r) /\ UNCHANGED staged

\* The checks pass; rmtree starts in a thread and the lock stays held.
DeleteFolderBegin(r) ==
    /\ Loop(r) /\ pc[r] = "waiting" /\ Holds(r) /\ req[r].op = "deleteFolder"
    /\ DeleteFolderMayRun(r)
    /\ Go(r, "removing")
    /\ UNCHANGED <<up, volume, index, queue, req, staging, listing, quiet, counts>>

\* One unlink or rmdir of rmtree, at a path with nothing left below it.
DeleteFolderRemove(r, p) ==
    /\ up /\ pc[r] = "removing"
    /\ p = req[r].path \/ req[r].path \in Ancestors[p]
    /\ tree[p] # Missing /\ Empty(p)
    /\ tree' = [tree EXCEPT ![p] = Missing]
    /\ Disturb
    /\ UNCHANGED <<up, root, index, queue, pc, req, staging, counts>>

\* Mutant: only the rows directly in the folder are removed.
DeleteFolderRows_Direct(r) ==
    /\ Loop(r) /\ pc[r] = "removing" /\ tree[req[r].path] = Missing
    /\ files' = [p \in Paths |-> IF p \in InFolder(req[r].path) THEN NoRow ELSE files[p]]
    /\ Release /\ Answer(r)
    /\ Disturb
    /\ UNCHANGED <<up, volume, row, staging, counts>>

\* rmtree is done; delete_files_under, the end of the section, the answer.
DeleteFolderRows(r) ==
    /\ Loop(r) /\ pc[r] = "removing" /\ tree[req[r].path] = Missing
    /\ files' = [p \in Paths |-> IF p \in Below(req[r].path) THEN NoRow ELSE files[p]]
    /\ Release /\ Answer(r)
    /\ Disturb
    /\ UNCHANGED <<up, volume, row, staging, counts>>

\* A call raises inside the section: the first one, the database's after the
\* volume was changed, or rmtree part way.  What was done stays; the lock is released.
SectionFails(r) ==
    /\ Loop(r) /\ Holds(r)
    /\ \/ pc[r] \in {"placed", "unlinked", "removing", "parked"}
       \/ pc[r] = "waiting" /\ req[r].op # "upload"
    /\ Fault
    /\ Release /\ Answer(r)
    /\ parked' = parked \ {r} /\ litter' = (litter \/ r \in parked)
    /\ UNCHANGED <<up, volume, index, staged, listing, quiet>>

(***************************************************************************)
(* POST /sites and DELETE /sites/{slug}?confirm={slug}                     *)
(***************************************************************************)

\* The clock is read, for created_at, before the lock is asked for.
CreateSiteStart(r) ==
    /\ Loop(r) /\ pc[r] = "idle" /\ nextSite <= MaxSites
    /\ req' = [req EXCEPT ![r] = [op |-> "createSite", path |-> Root, flag |-> FALSE,
                                  ver |-> 0, site |-> nextSite]]
    /\ nextSite' = nextSite + 1
    /\ queue' = Append(queue, r)
    /\ Go(r, "waiting")
    /\ UNCHANGED <<up, volume, index, staging, listing, quiet, nextVer, faults>>

\* A row, or a folder already on the volume, is 409 site_exists.
CreateSiteRefused(r) ==
    /\ Loop(r) /\ pc[r] = "waiting" /\ Holds(r) /\ req[r].op = "createSite"
    /\ row # 0 \/ root
    /\ Refuse(r) /\ UNCHANGED staged

CreateSiteMkdir(r) ==
    /\ Loop(r) /\ pc[r] = "waiting" /\ Holds(r) /\ req[r].op = "createSite"
    /\ row = 0 /\ ~root
    /\ root' = TRUE
    /\ Go(r, "made")
    /\ Disturb
    /\ UNCHANGED <<up, tree, index, queue, req, staging, counts>>

\* Mutant: the clock is read again for the row.
CreateSiteInsert_Late(r) ==
    /\ Loop(r) /\ pc[r] = "made"
    /\ row' = nextSite
    /\ Release /\ Answer(r)
    /\ Disturb
    /\ UNCHANGED <<up, volume, files, staging, counts>>

CreateSiteInsert(r) ==
    /\ Loop(r) /\ pc[r] = "made"
    /\ row' = req[r].site
    /\ Release /\ Answer(r)
    /\ Disturb
    /\ UNCHANGED <<up, volume, files, staging, counts>>

\* insert_site raises: the new folder goes with it.
CreateSiteFails(r) ==
    /\ Loop(r) /\ pc[r] = "made"
    /\ Fault
    /\ root' = FALSE
    /\ Release /\ Answer(r)
    /\ Disturb
    /\ UNCHANGED <<up, tree, index, staging>>

DeleteSiteStart(r) == DeleteStart(r, "deleteSite", Root, FALSE)

\* The folder, if there is one, moves into staging in one rename.
DeleteSitePark(r) ==
    /\ Loop(r) /\ pc[r] = "waiting" /\ Holds(r) /\ req[r].op = "deleteSite"
    /\ parked' = IF root THEN parked \cup {r} ELSE parked
    /\ root' = FALSE
    /\ tree' = [p \in Paths |-> Missing]
    /\ Go(r, "parked")
    /\ Disturb
    /\ UNCHANGED <<up, index, queue, req, staged, litter, counts>>

\* delete_site takes the file rows along; the lock is released.
DeleteSiteRow(r) ==
    /\ Loop(r) /\ pc[r] = "parked"
    /\ row' = 0
    /\ files' = NoRows
    /\ Release
    /\ IF r \in parked THEN Go(r, "purging") /\ UNCHANGED req ELSE Answer(r)
    /\ Disturb
    /\ UNCHANGED <<up, volume, staging, counts>>

\* The parked folder is removed after the lock is released.
DeleteSitePurge(r) ==
    /\ Loop(r) /\ pc[r] = "purging"
    /\ parked' = parked \ {r}
    /\ Answer(r)
    /\ UNCHANGED <<up, volume, index, queue, staged, litter, listing, quiet, counts>>

(***************************************************************************)
(* GET /sites/{slug}/files?path=: list_files, Storage.list_folder          *)
(***************************************************************************)
LGo(l, to) == lpc' = [lpc EXCEPT ![l] = to]

\* The listing ends: its locals go.
LEnd(l) ==
    /\ LGo(l, "idle")
    /\ folder' = [folder EXCEPT ![l] = Root]
    /\ indexed' = [indexed EXCEPT ![l] = NoRows]
    /\ todo' = [todo EXCEPT ![l] = {}]
    /\ seen' = [seen EXCEPT ![l] = {}]
    /\ hashing' = [hashing EXCEPT ![l] = NoHashing]

\* The listing only reads the store.
ListerReads == UNCHANGED <<up, volume, index, queue, pc, req, staging, quiet, counts>>

\* The listing changes the index: the other listings are disturbed.
ListerWrites(l) ==
    /\ quiet' = quiet \cap {l}
    /\ UNCHANGED <<up, volume, row, queue, pc, req, staging, counts>>

\* The route's check of the row; the rest runs in a worker thread.
ListStart(l, f) ==
    /\ up /\ (\A q \in Requests : pc[q] \notin MidSection) /\ lpc[l] = "idle" /\ row # 0
    /\ LGo(l, "queued")
    /\ folder' = [folder EXCEPT ![l] = f]
    /\ UNCHANGED <<indexed, todo, seen, hashing>> /\ ListerReads

\* resolve and kind_of at the start of list_folder.
IsListable(f) == KindOf(f) = "folder" /\ (IF f = Root THEN TRUE ELSE Resolves(f))

\* Not a folder: an error, or for the root an empty listing.
ListNoFolder(l) ==
    /\ up /\ lpc[l] = "queued"
    /\ ~IsListable(folder[l])
    /\ LEnd(l) /\ ListerReads

ListFound(l) ==
    /\ up /\ lpc[l] = "queued"
    /\ IsListable(folder[l])
    /\ LGo(l, "found")
    /\ UNCHANGED <<folder, indexed, todo, seen, hashing>> /\ ListerReads

\* files_in_folder: the rows as they are now.
ListIndexed(l) ==
    /\ up /\ lpc[l] = "found"
    /\ indexed' = [indexed EXCEPT ![l] = [p \in Paths |->
                       IF p \in InFolder(folder[l]) THEN files[p] ELSE NoRow]]
    /\ quiet' = quiet \cup {l}
    /\ LGo(l, "open")
    /\ UNCHANGED <<up, volume, index, queue, pc, req, staging, folder, todo, seen, hashing, counts>>

\* os.scandir and its first read: the names present.
ListOpen(l) ==
    /\ up /\ lpc[l] = "open" /\ KindOf(folder[l]) = "folder"
    /\ todo' = [todo EXCEPT ![l] = {p \in InFolder(folder[l]) : tree[p] # Missing}]
    /\ LGo(l, "scan")
    /\ UNCHANGED <<folder, indexed, seen, hashing>> /\ ListerReads

\* The folder went since it was looked at: 500.
ListOpenFails(l) ==
    /\ up /\ lpc[l] = "open" /\ KindOf(folder[l]) # "folder"
    /\ LEnd(l) /\ ListerReads

\* The row in the snapshot is trusted: its size and mtime match the file's.
Trusted(r, v) == r.st = v

\* One entry: gone, or not a file.
ListSkip(l, p) ==
    /\ up /\ lpc[l] = "scan" /\ p \in todo[l] /\ tree[p].kind # "file"
    /\ todo' = [todo EXCEPT ![l] = @ \ {p}]
    /\ UNCHANGED <<lpc, folder, indexed, seen, hashing>> /\ ListerReads

\* One entry: a file, reported from its row when the row is trusted, else to be hashed.
ListStat(l, p) ==
    /\ up /\ lpc[l] = "scan" /\ p \in todo[l] /\ tree[p].kind = "file"
    /\ todo' = [todo EXCEPT ![l] = @ \ {p}]
    /\ seen' = [seen EXCEPT ![l] = @ \cup {p}]
    /\ IF Trusted(indexed[l][p], tree[p].ver)
       THEN UNCHANGED <<lpc, hashing>>
       ELSE /\ hashing' = [hashing EXCEPT ![l] = [path |-> p, st |-> tree[p].ver, sha |-> 0]]
            /\ LGo(l, "hash")
    /\ UNCHANGED <<folder, indexed>> /\ ListerReads

\* sha256_file opens the path again and may meet another version.
ListHash(l) ==
    /\ up /\ lpc[l] = "hash" /\ KindOf(hashing[l].path) = "file"
    /\ hashing' = [hashing EXCEPT ![l] = [path |-> hashing[l].path, st |-> hashing[l].st,
                                          sha |-> tree[hashing[l].path].ver]]
    /\ LGo(l, "upsert")
    /\ UNCHANGED <<folder, indexed, todo, seen>> /\ ListerReads

\* Mutant: a file that is gone is tried again.
ListHashFails_Retries(l) ==
    /\ up /\ lpc[l] = "hash" /\ KindOf(hashing[l].path) # "file"
    /\ UNCHANGED listing /\ ListerReads

\* The file is gone: 500.
ListHashFails(l) ==
    /\ up /\ lpc[l] = "hash" /\ KindOf(hashing[l].path) # "file"
    /\ LEnd(l) /\ ListerReads

\* Mutant: the file is stat'ed after it was hashed.
ListUpsert_StatsLate(l) ==
    /\ up /\ lpc[l] = "upsert" /\ row # 0
    /\ files' = [files EXCEPT ![hashing[l].path] =
                     [st |-> tree[hashing[l].path].ver, sha |-> hashing[l].sha]]
    /\ hashing' = [hashing EXCEPT ![l] = NoHashing]
    /\ LGo(l, "scan")
    /\ UNCHANGED <<folder, indexed, todo, seen>> /\ ListerWrites(l)

\* upsert_file, with the size and mtime of the stat and the digest of the bytes read.
ListUpsert(l) ==
    /\ up /\ lpc[l] = "upsert" /\ row # 0
    /\ files' = [files EXCEPT ![hashing[l].path] = [st |-> hashing[l].st, sha |-> hashing[l].sha]]
    /\ hashing' = [hashing EXCEPT ![l] = NoHashing]
    /\ LGo(l, "scan")
    /\ UNCHANGED <<folder, indexed, todo, seen>> /\ ListerWrites(l)

\* The foreign key refuses the row of a deleted site: 500.
ListUpsertFails(l) ==
    /\ up /\ lpc[l] = "upsert" /\ row = 0
    /\ LEnd(l) /\ ListerReads

\* Mutant: stale rows are not dropped.
ListScanned_KeepsStale(l) ==
    /\ up /\ lpc[l] = "scan" /\ todo[l] = {}
    /\ LGo(l, "drop")
    /\ UNCHANGED <<folder, indexed, todo, seen, hashing>> /\ ListerReads

\* Every entry was visited: what the snapshot had and the scan did not see is stale.
ListScanned(l) ==
    /\ up /\ lpc[l] = "scan" /\ todo[l] = {}
    /\ todo' = [todo EXCEPT ![l] = {p \in Paths : indexed[l][p] # NoRow} \ seen[l]]
    /\ LGo(l, "drop")
    /\ UNCHANGED <<folder, indexed, seen, hashing>> /\ ListerReads

ListDrop(l, p) ==
    /\ up /\ lpc[l] = "drop" /\ p \in todo[l]
    /\ files' = [files EXCEPT ![p] = NoRow]
    /\ todo' = [todo EXCEPT ![l] = @ \ {p}]
    /\ UNCHANGED <<lpc, folder, indexed, seen, hashing>> /\ ListerWrites(l)

ListDone(l) ==
    /\ up /\ lpc[l] = "drop" /\ todo[l] = {}
    /\ LGo(l, "done")
    /\ UNCHANGED <<folder, indexed, todo, seen, hashing>> /\ ListerReads

ListAnswer(l) ==
    /\ up /\ lpc[l] = "done"
    /\ LEnd(l) /\ ListerReads

(***************************************************************************)
(* The service stops at any point and starts again; a restore in between.  *)
(***************************************************************************)
Crash ==
    /\ up /\ Fault
    /\ up' = FALSE
    /\ queue' = <<>>
    /\ pc' = [r \in Requests |-> "idle"]
    /\ req' = [r \in Requests |-> NoReq]
    /\ lpc' = [l \in Listers |-> "idle"]
    /\ folder' = [l \in Listers |-> Root]
    /\ indexed' = [l \in Listers |-> NoRows]
    /\ todo' = [l \in Listers |-> {}]
    /\ seen' = [l \in Listers |-> {}]
    /\ hashing' = [l \in Listers |-> NoHashing]
    /\ quiet' = {}
    /\ UNCHANGED <<volume, index, staging>>

\* Mutant: a start leaves staging as it is.
Restart_KeepsStaging ==
    /\ ~up
    /\ up' = TRUE
    /\ UNCHANGED <<volume, index, staging, queue, pc, req, listing, quiet, counts>>

\* lifespan: clean_staging.
Restart ==
    /\ ~up
    /\ up' = TRUE
    /\ staged' = {} /\ parked' = {} /\ litter' = FALSE
    /\ UNCHANGED <<volume, index, queue, pc, req, listing, quiet, counts>>

\* An archive is put back that lacks what is at p.
RestoreWithout(p) ==
    /\ Restores /\ ~up
    /\ tree' = [q \in Paths |-> IF q = p \/ p \in Ancestors[q] THEN Missing ELSE tree[q]]
    /\ UNCHANGED <<up, root, index, queue, pc, req, staging, listing, quiet, counts>>

\* An archive is put back with a file, or by hand a link, at p.
RestoreWith(p) ==
    /\ Restores /\ ~up /\ root /\ nextVer <= MaxVersion
    /\ \A q \in Ancestors[p] : tree[q] = Folder
    /\ tree[p].kind # "folder"
    /\ \E node \in {File(nextVer), Special} : tree' = [tree EXCEPT ![p] = node]
    /\ nextVer' = nextVer + 1
    /\ UNCHANGED <<up, root, index, queue, pc, req, staging, listing, quiet, nextSite, faults>>

(***************************************************************************)
(* The specification                                                       *)
(***************************************************************************)

\* A request arrives or its body does: the client's pace.
ClientStep(r) ==
    \/ \E p \in Paths, flag \in BOOLEAN : UploadStart(r, p, flag) \/ DeleteFolderStart(r, p, flag)
    \/ \E p \in Paths : DeleteFileStart(r, p)
    \/ CreateSiteStart(r) \/ DeleteSiteStart(r)
    \/ UploadReceived(r) \/ UploadAborted(r)

\* What the backend does for a request once it asks for the lock.
BackendStep(r) ==
    \/ UploadRefused(r) \/ UploadPlace(r) \/ UploadIndex(r)
    \/ DeleteFileRefused(r) \/ DeleteFileUnlink(r) \/ DeleteFileRow(r)
    \/ DeleteFolderRefused(r) \/ DeleteFolderBegin(r) \/ DeleteFolderRows(r)
    \/ \E p \in Paths : DeleteFolderRemove(r, p)
    \/ CreateSiteRefused(r) \/ CreateSiteMkdir(r) \/ CreateSiteInsert(r)
    \/ DeleteSitePark(r) \/ DeleteSiteRow(r) \/ DeleteSitePurge(r)

FaultStep(r) == UploadPlaceFails(r) \/ SectionFails(r) \/ CreateSiteFails(r)

ListStep(l) ==
    \/ ListNoFolder(l) \/ ListFound(l) \/ ListIndexed(l) \/ ListOpen(l) \/ ListOpenFails(l)
    \/ \E p \in Paths : ListSkip(l, p) \/ ListStat(l, p) \/ ListDrop(l, p)
    \/ ListHash(l) \/ ListHashFails(l) \/ ListUpsert(l) \/ ListUpsertFails(l)
    \/ ListScanned(l) \/ ListDone(l) \/ ListAnswer(l)

OperatorStep ==
    \/ Crash \/ Restart
    \/ \E p \in Paths : RestoreWithout(p) \/ RestoreWith(p)

Next ==
    \/ \E r \in Requests : ClientStep(r) \/ BackendStep(r) \/ FaultStep(r)
    \/ \E l \in Listers : (\E f \in Folders : ListStart(l, f)) \/ ListStep(l)
    \/ OperatorStep

Spec == Init /\ [][Next]_vars

\* The event loop and the threads run; nothing is asked of clients.
Fairness ==
    /\ \A r \in Requests : WF_vars(BackendStep(r))
    /\ \A l \in Listers : WF_vars(ListStep(l))

FairSpec == Spec /\ Fairness

(***************************************************************************)
(* Properties                                                              *)
(***************************************************************************)

VolumeType ==
    /\ up \in BOOLEAN
    /\ root \in BOOLEAN
    /\ tree \in [Paths -> Node]
    /\ row \in 0 .. MaxSites
    /\ files \in [Paths -> Row]

RequestType ==
    /\ queue \in Seq(Requests)
    /\ pc \in [Requests -> PC]
    /\ req \in [Requests -> Req]
    /\ staged \subseteq Requests
    /\ parked \subseteq Requests
    /\ litter \in BOOLEAN

ListerType ==
    /\ lpc \in [Listers -> LPC]
    /\ folder \in [Listers -> Folders]
    /\ indexed \in [Listers -> [Paths -> Row]]
    /\ todo \in [Listers -> SUBSET Paths]
    /\ seen \in [Listers -> SUBSET Paths]
    /\ hashing \in [Listers -> Hashing]
    /\ quiet \subseteq Listers

CountType ==
    /\ nextVer \in 1 .. MaxVersion + 1
    /\ nextSite \in 1 .. MaxSites + 1
    /\ faults \in 0 .. MaxFaults

\* The shape of the state: the volume and the rows, the lock's queue and the
\* locals of the handlers, the locals of the listings, the bounds.
TypeOK == VolumeType /\ RequestType /\ ListerType /\ CountType

\* A row a listing would trust, since its size and modification time are the
\* file's, holds the file's digest: whatever uploads, deletions, listings,
\* crashes and restores ran, no listing reports a digest of other bytes
\* (list_folder stats a file and hashes it later, without the lock).
TrustedRowsAreTrue ==
    \A p \in Paths :
        /\ tree[p].kind = "file" /\ Trusted(files[p], tree[p].ver)
              => files[p].sha = tree[p].ver
        /\ \A l \in Listers :
              tree[p].kind = "file" /\ Trusted(indexed[l][p], tree[p].ver)
                 => indexed[l][p].sha = tree[p].ver

RowIsRight(p) ==
    files[p] = IF tree[p].kind = "file" THEN [st |-> tree[p].ver, sha |-> tree[p].ver] ELSE NoRow

\* A listing that nothing disturbed leaves the rows of its folder exactly
\* those of the files in it: changed files rehashed, stray rows dropped,
\* files without a row indexed (list_folder).
UndisturbedListingReconciles ==
    \A l \in Listers :
        lpc[l] = "done" /\ l \in quiet =>
            \A p \in InFolder(folder[l]) : RowIsRight(p)

\* Uploads and deletions alone keep the index exact: whenever no request is
\* inside its section or its removal, the rows are those of the files on the
\* volume (write_file, delete_file, delete_folder, delete_site).
IndexKept ==
    (\A r \in Requests : pc[r] \in {"idle", "receiving", "waiting", "purging"})
        => \A p \in Paths : RowIsRight(p)

\* A folder under sites/ belongs to a site: one without a row exists only
\* while its creation runs, so no upload brings back the folder of a site
\* deleted while the body was received.
SiteFolderHasRow ==
    root => row # 0 \/ \E r \in Requests : pc[r] = "made"

\* A .part file belongs to an upload still receiving or awaiting the lock:
\* every way an upload ends, a crash and a start included, removes it.  A
\* parked folder belongs to a deletion still running, unless an error
\* left it as litter for the next start (_stage, write_file, delete_site, clean_staging).
StagingOwned ==
    up => /\ \A r \in staged : pc[r] \in {"receiving", "waiting"} /\ req[r].op = "upload"
          /\ \A r \in parked : pc[r] \in {"parked", "purging"}

\* Intent before destruction (write_file, delete_file, delete_folder,
\* delete_site): while the service runs, the bytes at a path are replaced or
\* removed only under the lock by a request that names the path and, for an
\* existing file, asked to overwrite, or for a folder with files, to recurse.
Intended(r, p) ==
    /\ Holds(r)
    /\ \/ req[r].op = "upload" /\ req[r].path = p /\ req[r].flag
       \/ req[r].op = "deleteFile" /\ req[r].path = p
       \/ req[r].op = "deleteFolder" /\ req[r].path \in Ancestors[p] /\ req[r].flag
       \/ req[r].op = "deleteSite"

IntentBeforeDestruction ==
    [][\A p \in Paths :
          up /\ tree[p].kind = "file" /\ tree'[p] # tree[p]
             => \E r \in Requests : Intended(r, p)]_vars

\* A row whose file is gone is in a folder a listing can open, so that the
\* next listing of it drops the row (list_folder).
StaleRowsAreListable ==
    up /\ (\A r \in Requests : pc[r] = "idle") /\ (\A l \in Listers : lpc[l] = "idle") =>
        \A p \in Paths :
            files[p] # NoRow /\ tree[p].kind # "file" =>
                root /\ \A q \in Ancestors[p] : tree[q] = Folder

\* An upload lands in the site it was checked against, and is refused when
\* that site was deleted meanwhile (write_file).
UploadLandsInItsSite ==
    \A r \in Requests : pc[r] = "placed" => row = req[r].site

\* A request that asks for the lock is answered, whoever else is receiving a
\* body, waiting or removing a folder (SiteLocks.hold, write_file).
LockedRequestsAreAnswered ==
    \A r \in Requests : pc[r] = "waiting" ~> pc[r] = "idle"

\* A listing ends, however often the folder changes under it (list_folder).
ListingsEnd ==
    \A l \in Listers : lpc[l] # "idle" ~> lpc[l] = "idle"
============================================================================
