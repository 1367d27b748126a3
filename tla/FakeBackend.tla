---------------------------- MODULE FakeBackend ----------------------------
(***************************************************************************)
(* The site and file routes of the in-memory backend that the frontend's   *)
(* and the MCP server's tests run against (common/fake_backend.py), for    *)
(* one slug.  A FakeSite is an object: a handler that has looked it up     *)
(* keeps it, whatever becomes of the entry of `state.sites`.               *)
(*                                                                         *)
(* The handlers are coroutines of one event loop and only upload_file      *)
(* awaits anything, its body, so every other handler is one step.          *)
(***************************************************************************)
EXTENDS Naturals, FiniteSets

CONSTANTS
    Paths, Root, Ancestors, Requests,   \* as in SiteTree
    MaxVersion,   \* bound: file contents that ever exist
    MaxSites      \* bound: requests to create the site

ASSUME PathTree ==
    /\ Root \notin Paths
    /\ Ancestors \in [Paths -> SUBSET Paths]
    /\ \A p \in Paths : p \notin Ancestors[p]
    /\ \A p \in Paths : \A q \in Ancestors[p] : Ancestors[q] \subseteq Ancestors[p]
    /\ \A p \in Paths : \A q, s \in Ancestors[p] :
          q = s \/ q \in Ancestors[s] \/ s \in Ancestors[q]

ASSUME Bounds == MaxVersion \in Nat /\ MaxSites \in Nat

VARIABLES
    sites,     \* state.sites: 0, or the object under the slug
    objects,   \* the FakeSite each request to create the site makes
    asked,     \* requests to create the site so far
    calls,     \* the requests on their way
    held,      \* the object an upload awaiting its body looked up, 0 for none
    done       \* requests that succeeded and are not answered yet

vars == <<sites, objects, asked, calls, held, done>>

Seen == IF sites = 0 THEN [files |-> [p \in Paths |-> 0], folders |-> {}] ELSE objects[sites]

Contract == INSTANCE SiteTree WITH site <- sites, tree <- Seen

Init ==
    /\ sites = 0
    /\ objects = [n \in 1 .. MaxSites |-> Contract!FakeSite]
    /\ asked = 0
    /\ calls = [r \in Requests |-> Contract!NoCall]
    /\ held = [r \in Requests |-> 0]
    /\ done = {}

\* A client sends a request.
Send(r, c) ==
    /\ calls[r] = Contract!NoCall
    /\ calls' = [calls EXCEPT ![r] = c]
    /\ UNCHANGED <<sites, objects, held, done>>

SendAny(r) ==
    \/ \E p \in Paths, overwrite \in BOOLEAN, v \in 1 .. MaxVersion :
          Send(r, Contract!Ask("upload", p, overwrite, v, sites)) /\ UNCHANGED asked
    \/ \E p \in Paths : Send(r, Contract!Ask("deleteFile", p, FALSE, 0, sites)) /\ UNCHANGED asked
    \/ \E p \in Paths, recursive \in BOOLEAN :
          Send(r, Contract!Ask("deleteFolder", p, recursive, 0, sites)) /\ UNCHANGED asked
    \/ /\ asked < MaxSites /\ asked' = asked + 1
       /\ Send(r, Contract!Ask("createSite", Root, FALSE, 0, asked + 1))
    \/ Send(r, Contract!Ask("deleteSite", Root, FALSE, 0, sites)) /\ UNCHANGED asked

Pending(r, op) == calls[r].op = op /\ r \notin done

Succeed(r) == done' = done \cup {r} /\ UNCHANGED <<asked, calls>>

\* ApiError: nothing was changed.
Raise(r) ==
    /\ calls' = [calls EXCEPT ![r] = Contract!NoCall]
    /\ held' = [held EXCEPT ![r] = 0]
    /\ UNCHANGED <<sites, objects, asked, done>>

\* upload_file up to its await.
UploadLooksUp(r) ==
    /\ Pending(r, "upload") /\ held[r] = 0
    /\ IF sites = 0
       THEN Raise(r)
       ELSE held' = [held EXCEPT ![r] = sites] /\ UNCHANGED <<sites, objects, asked, calls, done>>

\* Mutant: an existing file is replaced whether or not overwrite is asked.
UploadWrites_AnyFile(r) ==
    /\ Pending(r, "upload") /\ held[r] # 0
    /\ Contract!CheckWriteTarget(objects[held[r]], [calls[r] EXCEPT !.flag = TRUE])
    /\ objects' = [objects EXCEPT ![held[r]] = Contract!Write(@, calls[r])]
    /\ held' = [held EXCEPT ![r] = 0]
    /\ Succeed(r) /\ UNCHANGED sites

\* The body is there: _check_write_target and _write, on the object held.
UploadWrites(r) ==
    /\ Pending(r, "upload") /\ held[r] # 0
    /\ Contract!CheckWriteTarget(objects[held[r]], calls[r])
    /\ objects' = [objects EXCEPT ![held[r]] = Contract!Write(@, calls[r])]
    /\ held' = [held EXCEPT ![r] = 0]
    /\ Succeed(r) /\ UNCHANGED sites

UploadRefused(r) ==
    /\ Pending(r, "upload") /\ held[r] # 0
    /\ ~Contract!CheckWriteTarget(objects[held[r]], calls[r])
    /\ Raise(r)

\* The body is over the cap, or the client goes away.
UploadDropped(r) == Pending(r, "upload") /\ held[r] # 0 /\ Raise(r)

DeleteFile(r) ==
    /\ Pending(r, "deleteFile")
    /\ IF sites # 0 /\ Contract!IsFile(Seen, calls[r])
       THEN /\ objects' = [objects EXCEPT ![sites] = Contract!WithoutFile(@, calls[r])]
            /\ Succeed(r) /\ UNCHANGED <<sites, held>>
       ELSE Raise(r)

DeleteFolder(r) ==
    /\ Pending(r, "deleteFolder")
    /\ IF sites # 0 /\ Contract!MayDeleteFolder(Seen, calls[r])
       THEN /\ objects' = [objects EXCEPT ![sites] = Contract!WithoutFolder(@, calls[r])]
            /\ Succeed(r) /\ UNCHANGED <<sites, held>>
       ELSE Raise(r)

CreateSite(r) ==
    /\ Pending(r, "createSite")
    /\ IF sites = 0
       THEN sites' = calls[r].site /\ Succeed(r) /\ UNCHANGED <<objects, held>>
       ELSE Raise(r)

DeleteSite(r) ==
    /\ Pending(r, "deleteSite")
    /\ IF sites # 0
       THEN sites' = 0 /\ Succeed(r) /\ UNCHANGED <<objects, held>>
       ELSE Raise(r)

\* The response is sent.
Answer(r) ==
    /\ r \in done
    /\ done' = done \ {r}
    /\ calls' = [calls EXCEPT ![r] = Contract!NoCall]
    /\ UNCHANGED <<sites, objects, asked, held>>

Handle(r) ==
    \/ UploadLooksUp(r) \/ UploadWrites(r) \/ UploadRefused(r) \/ UploadDropped(r)
    \/ DeleteFile(r) \/ DeleteFolder(r) \/ CreateSite(r) \/ DeleteSite(r)

Next == \E r \in Requests : SendAny(r) \/ Handle(r) \/ Answer(r)

Spec == Init /\ [][Next]_vars

\* The event loop runs every handler, and a body arrives or its client goes.
FairSpec == Spec /\ \A r \in Requests : WF_vars(Handle(r) \/ Answer(r))

(***************************************************************************)
(* Properties                                                              *)
(***************************************************************************)

\* Every FakeSite, the ones still held by an upload after they left
\* `state.sites` included, stays a tree: no path is both a file and a folder
\* and everything lies in folders, although add_folders_for stops at the first
\* folder it meets and delete_folder takes paths by their prefix.
TreesWellFormed == \A n \in 1 .. MaxSites : Contract!WellFormed(objects[n])

\* An upload ends whose FakeSite left `state.sites` while its body was on the
\* way: the site under the slug, if there is one, is not touched.
OrphanEnds(r) == held[r] \notin {0, sites} /\ held'[r] = 0 /\ UNCHANGED <<sites, Seen>>

\* Apart from the end of an upload whose site was deleted while its body was
\* on the way, the in-memory backend does what the contract of SiteTree says,
\* step by step: the frontend and the MCP server are tested against the rules
\* the backend's store implements (SiteContract).
ContractKeptInPlace ==
    [][Contract!Next \/ \E r \in Requests : OrphanEnds(r)]_<<sites, Seen, calls, done>>

\* "It is a faithful model, not a stub" (fake_backend.py:13): the in-memory
\* backend implements the contract the backend's store implements.
ImplementsContract == Contract!Spec
=============================================================================
