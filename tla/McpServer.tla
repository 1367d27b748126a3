----------------------------- MODULE McpServer -----------------------------
(***************************************************************************)
(* The MCP server: the token gate of mcp/auth.py, the handlers of          *)
(* mcp/server.py, the tool table, dispatch and handlers of mcp/tools.py,   *)
(* over the client of common/client.py; and, as the server meets it, the   *)
(* backend of backend/routes.py.                                           *)
(*                                                                         *)
(* A request to the backend and its answer are steps of their own: between *)
(* them a token may be revoked, other clients may change the site, the     *)
(* backend may fail, and the server may give up at its timeout while the   *)
(* backend still works.  A request that changes the site takes the backend *)
(* two steps: its token and its site are looked up when it arrives, then   *)
(* it waits for the site's lock (an upload for its body too), and the      *)
(* token is not looked up again.                                           *)
(*                                                                         *)
(* The site is one of four things: absent, empty, holding an empty folder, *)
(* or holding a file in that folder; tools are called on that one path.    *)
(* Arguments are valid, outside the tool's schema, or a slug or path the   *)
(* naming rules refuse.  JSON-RPC, schemas and messages are left out.      *)
(***************************************************************************)
EXTENDS Naturals

CONSTANTS
    Calls,         \* bound: the requests to /mcp, each made once
    Tokens,        \* the tokens the backend has issued
    Contents,      \* the contents of files
    Size(_),       \* the size of a content
    Cap,           \* PAPER_BOXING_MCP_MAX_FILE_MB, in bytes
    Offered(_),    \* bound: what each call of an instance may ask for
    MaxChanges,    \* bound: changes of the site by other clients
    NoSite, EmptySite, EmptyFolder, None

ASSUME Parameters ==
    /\ Cap \in Nat /\ MaxChanges \in Nat
    /\ \A c \in Contents : Size(c) \in Nat
    /\ None \notin Contents
    /\ Contents \cap {NoSite, EmptySite, EmptyFolder} = {}

VARIABLES
    kind,      \* the type and scope of each token
    live,      \* the tokens that are not revoked
    disk,      \* the site
    changes,   \* how often others changed it
    call,      \* each request to /mcp
    wire,      \* its request to the backend
    did,       \* history: the calls whose work the backend did
    dead       \* history: the calls made with a token revoked before

vars == <<kind, live, disk, changes, call, wire, did, dead>>

(***************************************************************************)
(* The tools and the routes                                                *)
(***************************************************************************)
Tools == {"list_sites", "create_site", "list_files", "upload_file", "download_file",
          "delete_file", "delete_folder", "delete_site"}
Removals == {"delete_file", "delete_folder", "delete_site"}
Mutating == Removals \cup {"create_site", "upload_file"}

\* Mutant: delete_folder is listed with the writing tools.
ToolScope_LowFolder(t) ==
    IF t \in {"delete_file", "delete_site"} THEN 2 ELSE IF t \in Mutating THEN 1 ELSE 0

\* mcp/tools.py: the tier of each tool.
ToolScope(t) == IF t \in Removals THEN 2 ELSE IF t \in Mutating THEN 1 ELSE 0

\* common/routes.py: the tier of the route of the same name; any token may ask for itself.
RouteScope ==
    [r \in Tools \cup {"token_self"} |->
        CASE r \in {"delete_site", "delete_file", "delete_folder"} -> 2
          [] r \in {"create_site", "upload_file"} -> 1
          [] OTHER -> 0]

\* What a POST may ask for.  Only some tools have a flag (overwrite, recursive, confirm).
Forms == {"ok", "method", "host", "origin", "content_type", "large", "no_bearer"}
Requests ==
    [form : Forms, bearer : Tokens, tool : Tools \cup {"list_tools", "unknown"},
     args : {"valid", "outside_schema", "bad_slug", "bad_path"}, flag : BOOLEAN, content : Contents]

ASSUME Offers == \A c \in Calls : Offered(c) \subseteq Requests

Kinds == [type : {"agent", "session"}, scope : 0 .. 2]
Disks == {NoSite, EmptySite, EmptyFolder} \cup Contents
Codes == {"ok", "unauthorized", "forbidden", "not_found", "site_exists", "file_exists",
          "folder_not_empty", "confirm_mismatch", "internal_error"}
Answers == Codes \cup {"none", "method_not_allowed", "bad_request", "payload_too_large",
                       "wrong_token_type", "backend_unreachable", "validation_error", "invalid_path"}
NoCall == [pc |-> "idle", answer |-> "none", got |-> None]
NoWire == [st |-> "none", route |-> "token_self", code |-> "ok", content |-> None]

Waiting(c) == call[c].pc \in {"confirm", "tool"}
Bearer(c)  == call[c].req.bearer

Init ==
    /\ kind \in {k \in [Tokens -> Kinds] :
                    \A t \in Tokens : k[t].type = "session" => k[t].scope = 2}
    /\ live = Tokens
    /\ disk \in Disks /\ changes = 0
    /\ call = [c \in Calls |-> NoCall]
    /\ wire = [c \in Calls |-> NoWire]
    /\ did = {} /\ dead = {}

(***************************************************************************)
(* The gate                                                                *)
(***************************************************************************)
Post(c, r) ==
    /\ call[c].pc = "idle"
    /\ call' = [call EXCEPT ![c] = [pc |-> "gate", answer |-> "none", got |-> None, req |-> r]]
    /\ dead' = IF r.bearer \in live THEN dead ELSE dead \cup {c}
    /\ UNCHANGED <<kind, live, disk, changes, wire, did>>

AnswerIs(c, code) ==
    call' = [call EXCEPT ![c].pc = "done", ![c].answer = code]

Ask(c, route) ==
    wire' = [wire EXCEPT ![c] = [NoWire EXCEPT !.st = "sent", !.route = route]]

\* _check_transport, _check_declared_length, bearer_from: what costs no confirmation.
GateAnswer(form) ==
    CASE form = "method"       -> "method_not_allowed"
      [] form \in {"host", "origin"} -> "forbidden"
      [] form = "content_type" -> "bad_request"
      [] form = "large"        -> "payload_too_large"
      [] form = "no_bearer"    -> "unauthorized"

GateRefuses(c) ==
    /\ call[c].pc = "gate" /\ call[c].req.form # "ok"
    /\ AnswerIs(c, GateAnswer(call[c].req.form))
    /\ UNCHANGED <<kind, live, disk, changes, wire, did, dead>>

\* Mutant: a token confirmed once is not asked about again.
GateAsks_Remembers(c) ==
    /\ call[c].pc = "gate" /\ call[c].req.form = "ok"
    /\ IF \E d \in Calls : call[d].pc \in {"dispatch", "tool"} /\ Bearer(d) = Bearer(c)
       THEN call' = [call EXCEPT ![c].pc = "dispatch"] /\ UNCHANGED wire
       ELSE call' = [call EXCEPT ![c].pc = "confirm"] /\ Ask(c, "token_self")
    /\ UNCHANGED <<kind, live, disk, changes, did, dead>>

GateAsks(c) ==
    /\ call[c].pc = "gate" /\ call[c].req.form = "ok"
    /\ call' = [call EXCEPT ![c].pc = "confirm"]
    /\ Ask(c, "token_self")
    /\ UNCHANGED <<kind, live, disk, changes, did, dead>>

\* confirm: the backend's answer, and its type is agent.
Accepts(t) == kind[t].type = "agent"

\* Mutant: any token the backend knows is accepted.
Confirmed_AnyType(c) ==
    /\ call[c].pc = "confirm" /\ wire[c].st = "answered"
    /\ CASE wire[c].code = "ok" -> call' = [call EXCEPT ![c].pc = "dispatch"]
         [] wire[c].code = "unauthorized" -> AnswerIs(c, "unauthorized")
         [] OTHER -> AnswerIs(c, "backend_unreachable")
    /\ UNCHANGED <<kind, live, disk, changes, wire, did, dead>>

Confirmed(c) ==
    /\ call[c].pc = "confirm" /\ wire[c].st = "answered"
    /\ CASE wire[c].code = "ok" /\ Accepts(Bearer(c)) ->
                call' = [call EXCEPT ![c].pc = "dispatch"]
         [] wire[c].code = "ok" /\ ~Accepts(Bearer(c)) -> AnswerIs(c, "wrong_token_type")
         [] wire[c].code = "unauthorized" -> AnswerIs(c, "unauthorized")
         [] OTHER -> AnswerIs(c, "backend_unreachable")
    /\ UNCHANGED <<kind, live, disk, changes, wire, did, dead>>

(***************************************************************************)
(* The handlers: tools/list, and dispatch for tools/call                   *)
(***************************************************************************)
ListTools(c) ==
    /\ call[c].pc = "dispatch" /\ call[c].req.tool = "list_tools"
    /\ AnswerIs(c, "ok")
    /\ UNCHANGED <<kind, live, disk, changes, wire, did, dead>>

\* What dispatch and the handlers refuse with nothing sent, in their order; "ok" goes on.
Refusal(r, scope) ==
    IF r.tool = "unknown" THEN "bad_request"
    ELSE IF scope < ToolScope(r.tool) THEN "forbidden"
    ELSE IF r.args = "outside_schema" THEN "validation_error"
    ELSE IF r.args = "bad_slug" /\ r.tool \notin {"list_sites", "create_site"} THEN "not_found"
    ELSE IF r.args = "bad_path" /\ r.tool \notin {"list_sites", "create_site", "delete_site"} THEN "invalid_path"
    ELSE IF r.tool = "upload_file" /\ Size(r.content) > Cap THEN "payload_too_large"
    ELSE "ok"

DispatchRefuses(c) ==
    LET code == Refusal(call[c].req, kind[Bearer(c)].scope)
    IN  /\ call[c].pc = "dispatch" /\ call[c].req.tool # "list_tools"
        /\ code # "ok"
        /\ AnswerIs(c, code)
        /\ UNCHANGED <<kind, live, disk, changes, wire, did, dead>>

\* A handler's first backend call: a download asks for the parent folder's listing.
Forward(c) ==
    /\ call[c].pc = "dispatch" /\ call[c].req.tool # "list_tools"
    /\ Refusal(call[c].req, kind[Bearer(c)].scope) = "ok"
    /\ call' = [call EXCEPT ![c].pc = "tool"]
    /\ Ask(c, IF call[c].req.tool = "download_file" THEN "list_files" ELSE call[c].req.tool)
    /\ UNCHANGED <<kind, live, disk, changes, did, dead>>

Listed(c) == call[c].req.tool = "download_file" /\ wire[c].route = "list_files"
TooLarge(content) == content # None /\ Size(content) > Cap

\* The listing does not show a file above the cap, so the file is fetched.
Fetch(c) ==
    /\ call[c].pc = "tool" /\ wire[c].st = "answered" /\ Listed(c)
    /\ wire[c].code = "ok" /\ ~TooLarge(wire[c].content)
    /\ Ask(c, "download_file")
    /\ UNCHANGED <<kind, live, disk, changes, call, did, dead>>

\* Mutant: the size is checked on the listing only.
ToolAnswers_ListedSize(c) ==
    /\ call[c].pc = "tool" /\ wire[c].st = "answered"
    /\ IF wire[c].code # "ok" THEN AnswerIs(c, wire[c].code)
       ELSE IF Listed(c)
       THEN TooLarge(wire[c].content) /\ AnswerIs(c, "payload_too_large")
       ELSE call' = [call EXCEPT ![c].pc = "done", ![c].answer = "ok", ![c].got = wire[c].content]
    /\ UNCHANGED <<kind, live, disk, changes, wire, did, dead>>

\* The tool's answer: the backend's refusal, a file above the cap, or the output.
ToolAnswers(c) ==
    /\ call[c].pc = "tool" /\ wire[c].st = "answered"
    /\ CASE wire[c].code # "ok" -> AnswerIs(c, wire[c].code)
         [] wire[c].code = "ok" /\ call[c].req.tool = "download_file" /\ TooLarge(wire[c].content) ->
                AnswerIs(c, "payload_too_large")
         [] OTHER -> /\ ~Listed(c)
                     /\ call' = [call EXCEPT ![c].pc = "done", ![c].answer = "ok",
                                             ![c].got = wire[c].content]
    /\ UNCHANGED <<kind, live, disk, changes, wire, did, dead>>

\* Mutant: a transport error is reported like a failure of the tool itself.
GivesUp_AsRefusal(c) ==
    /\ Waiting(c)
    /\ AnswerIs(c, "bad_request")
    /\ UNCHANGED <<kind, live, disk, changes, wire, did, dead>>

\* Mutant: the client has no timeout for an answer that does not come.
GivesUp_Never(c) ==
    /\ Waiting(c) /\ wire[c].st = "answered"
    /\ AnswerIs(c, "backend_unreachable")
    /\ UNCHANGED <<kind, live, disk, changes, wire, did, dead>>

\* _request: no connection, or no answer in time.  The backend may have the request.
GivesUp(c) ==
    /\ Waiting(c)
    /\ AnswerIs(c, "backend_unreachable")
    /\ UNCHANGED <<kind, live, disk, changes, wire, did, dead>>

(***************************************************************************)
(* The backend, and its other clients                                      *)
(***************************************************************************)
\* resolve_bearer
Resolves(t) == t \in live

\* Mutant: the gate's confirmation is taken for the token of the calls that follow it.
Authorized_ByGate(c) ==
    IF wire[c].route = "token_self" /\ ~Resolves(Bearer(c)) THEN "unauthorized"
    ELSE IF kind[Bearer(c)].scope < RouteScope[wire[c].route] THEN "forbidden" ELSE "ok"

\* requires(route): the token, then the access rule.
Authorized(c) ==
    IF ~Resolves(Bearer(c)) THEN "unauthorized"
    ELSE IF kind[Bearer(c)].scope < RouteScope[wire[c].route] THEN "forbidden" ELSE "ok"

Reply(c, code, content) ==
    wire' = [wire EXCEPT ![c].st = "answered", ![c].code = code, ![c].content = content]

BackendRefuses(c) ==
    /\ wire[c].st = "sent" /\ Authorized(c) # "ok"
    /\ Reply(c, Authorized(c), None)
    /\ UNCHANGED <<kind, live, disk, changes, call, did, dead>>

\* What a route refuses before it waits: a site without a row, a deletion not confirmed.
Lookup(route, r) ==
    IF route \in {"token_self", "list_sites", "create_site"} THEN "ok"
    ELSE IF disk = NoSite THEN "not_found"
    ELSE IF route = "delete_site" /\ ~r.flag THEN "confirm_mismatch" ELSE "ok"

\* The request passes requires and the lookups, and waits for the site's lock: the storage
\* methods await locks.hold, write_file after it has received the body.
BackendAdmits(c) ==
    /\ wire[c].st = "sent" /\ wire[c].route \in Mutating /\ Authorized(c) = "ok"
    /\ Lookup(wire[c].route, call[c].req) = "ok"
    /\ wire' = [wire EXCEPT ![c].st = "admitted"]
    /\ UNCHANGED <<kind, live, disk, changes, call, did, dead>>

\* What a route then does to the site, and answers.  Under the lock the site may be gone:
\* delete_site looks up neither its row nor its confirmation again and answers 204.
Served(route, r) ==
    LET say(code) == [disk |-> disk, code |-> code, content |-> None]
        leave(d)  == [disk |-> d, code |-> "ok", content |-> None]
        file      == disk \in Contents
        folder    == file \/ disk = EmptyFolder
    IN  CASE route \in {"token_self", "list_sites"} -> say("ok")
          [] route = "create_site" -> IF disk = NoSite THEN leave(EmptySite) ELSE say("site_exists")
          [] route = "delete_site" -> leave(NoSite)
          [] route = "upload_file" ->
                IF disk = NoSite THEN say("not_found")
                ELSE IF file /\ ~r.flag THEN say("file_exists") ELSE leave(r.content)
          [] route = "list_files" ->
                IF folder THEN [say("ok") EXCEPT !.content = IF file THEN disk ELSE None]
                ELSE say("not_found")
          [] route = "download_file" ->
                IF file THEN [say("ok") EXCEPT !.content = disk] ELSE say("not_found")
          [] route = "delete_file" -> IF file THEN leave(EmptyFolder) ELSE say("not_found")
          [] route = "delete_folder" ->
                IF ~folder THEN say("not_found")
                ELSE IF file /\ ~r.flag THEN say("folder_not_empty") ELSE leave(EmptySite)

\* Ready to be answered: what waits for no lock or is refused before it, and what was admitted.
Serving(c) ==
    \/ /\ wire[c].st = "sent" /\ Authorized(c) = "ok"
       /\ wire[c].route \notin Mutating \/ Lookup(wire[c].route, call[c].req) # "ok"
    \/ wire[c].st = "admitted"

Work(c) ==
    IF wire[c].st = "sent" /\ Lookup(wire[c].route, call[c].req) # "ok"
    THEN [disk |-> disk, code |-> Lookup(wire[c].route, call[c].req), content |-> None]
    ELSE Served(wire[c].route, call[c].req)

Done(c) == IF Work(c).code = "ok" /\ wire[c].route \in Mutating THEN did \cup {c} ELSE did

BackendServes(c) ==
    /\ Serving(c)
    /\ disk' = Work(c).disk
    /\ did' = Done(c)
    /\ Reply(c, Work(c).code, Work(c).content)
    /\ UNCHANGED <<kind, live, changes, call, dead>>

\* A 500, before the work or after it.
BackendFails(c) ==
    /\ Serving(c)
    /\ \/ UNCHANGED <<disk, did>>
       \/ disk' = Work(c).disk /\ did' = Done(c)
    /\ Reply(c, "internal_error", None)
    /\ UNCHANGED <<kind, live, changes, call, dead>>

\* DELETE /tokens/{id}, by a person.
Revoke(t) ==
    /\ t \in live
    /\ live' = live \ {t}
    /\ UNCHANGED <<kind, disk, changes, call, wire, did, dead>>

\* The UI, or an agent at the REST API.
OthersChange(d) ==
    /\ changes < MaxChanges /\ d # disk
    /\ disk' = d /\ changes' = changes + 1
    /\ UNCHANGED <<kind, live, call, wire, did, dead>>

ServerStep(c) ==
    \/ GateRefuses(c) \/ GateAsks(c) \/ Confirmed(c)
    \/ ListTools(c) \/ DispatchRefuses(c) \/ Forward(c) \/ Fetch(c) \/ ToolAnswers(c) \/ GivesUp(c)

Next ==
    \/ \E c \in Calls : \E r \in Offered(c) : Post(c, r)
    \/ \E c \in Calls : ServerStep(c)
    \/ \E c \in Calls : BackendRefuses(c) \/ BackendAdmits(c) \/ BackendServes(c) \/ BackendFails(c)
    \/ \E t \in Tokens : Revoke(t)
    \/ \E d \in Disks : OthersChange(d)

Spec == Init /\ [][Next]_vars

(***************************************************************************)
(* The server's own steps are fair: handlers are scheduled, and the        *)
(* client's timeouts end a wait whatever the backend does, so nothing is   *)
(* asked of the backend.                                                   *)
(***************************************************************************)
LiveSpec == Spec /\ \A c \in Calls : WF_vars(ServerStep(c))

(***************************************************************************)
(* Properties                                                              *)
(***************************************************************************)
TypeOK ==
    /\ kind \in [Tokens -> Kinds]
    /\ live \subseteq Tokens
    /\ disk \in Disks /\ changes \in 0 .. MaxChanges
    /\ DOMAIN call = Calls
    /\ \A c \in Calls :
          /\ call[c].pc \in {"idle", "gate", "confirm", "dispatch", "tool", "done"}
          /\ call[c].answer \in Answers
          /\ call[c].got \in Contents \cup {None}
          /\ call[c].pc # "idle" => call[c].req \in Requests
    /\ wire \in [Calls -> [st : {"none", "sent", "admitted", "answered"},
                           route : Tools \cup {"token_self"}, code : Codes,
                           content : Contents \cup {None}]]
    /\ did \subseteq Calls /\ dead \subseteq Calls

\* What is done through /mcp is done for an agent token of the tool's tier: a person's
\* session changes nothing here, although the backend would let it (auth.confirm).
DoneForAgents ==
    \A c \in did : /\ kind[Bearer(c)].type = "agent"
                   /\ kind[Bearer(c)].scope >= ToolScope(call[c].req.tool)

\* A request made with a revoked token is never answered with a result, not even with the
\* list of tools, which the backend is not asked for (auth.confirm keeps nothing).
RevokedSeesNothing ==
    \A c \in dead : call[c].answer # "ok" /\ c \notin did

\* A tool that dispatch runs is never refused by the backend for its scope: the tool table
\* and the route table agree (mcp/tools.py, common/routes.py).
TiersAgree == \A c \in Calls : ~(call[c].pc = "tool" /\ wire[c].code = "forbidden")

\* A tool call's answer carries at most the cap, though the file may have been replaced by a
\* larger one between the listing and the fetch (tools.download_file).
DownloadWithinCap ==
    \A c \in Calls : call[c].got # None /\ call[c].req.tool = "download_file" => Size(call[c].got) <= Cap

\* A caller may rely on an answer: success of a tool that changes the site means the backend
\* did the work, and every error but backend_unreachable and internal_error means that it did
\* not and that nothing of the call is still on its way (client._request, tools.dispatch).
AnswersAreTrue ==
    \A c \in Calls :
       /\ call[c].answer = "ok" /\ call[c].req.tool \in Mutating => c \in did
       /\ call[c].answer \notin {"none", "ok", "backend_unreachable", "internal_error"} =>
             /\ c \notin did
             /\ ~(wire[c].st \in {"sent", "admitted"} /\ wire[c].route \in Mutating)

\* Every request to /mcp is answered, even by a server whose backend never answers.
EveryCallAnswered == \A c \in Calls : call[c].pc = "gate" ~> call[c].pc = "done"

\* From the revocation of a token on, nothing is taken up or done for it but what the backend
\* had taken up before: only a request whose token was resolved while it lived (requires) and
\* that waits for its body or its site's lock (storage.write_file, delete_file, delete_folder,
\* create_site, delete_site) may still be done, since the token is not resolved again.
RevokedStartsNothing ==
    [][\A c \in Calls :
          wire[c].st # "admitted" /\ c \notin did /\ (wire'[c].st = "admitted" \/ c \in did')
             => Bearer(c) \in live]_vars

\* What the dialog of frontend/pages/tokens.py says of a revoked token: nothing is done for
\* it from then on.
RevokedIsRefused == [][\A c \in did' \ did : Bearer(c) \in live]_vars
=============================================================================
