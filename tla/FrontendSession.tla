-------------------------- MODULE FrontendSession --------------------------
(***************************************************************************)
(* Who is signed in at the UI: frontend/auth.py with its middleware, the   *)
(* header, sign-out and error report of frontend/layout.py, the handlers   *)
(* of the login, sites, tokens, users and account pages, the opening of    *)
(* the site page, and the download route of frontend/app.py.               *)
(*                                                                         *)
(* A browser has one store, shared by its tabs, that names one session; a  *)
(* page takes its token from the store when it is built and keeps it.  A   *)
(* handler awaits the backend, and everything goes on meanwhile: the other *)
(* tabs, other handlers of its page, the person who signs out or leaves    *)
(* the page.  A handler whose page was left goes on with that page's       *)
(* token and with the browser's store; only its navigation reaches nobody, *)
(* and what it awaits of its dialog or its page may never come.            *)
(*                                                                         *)
(* A session stands for its token and the name and id stored with it.      *)
(* What the calls on sites and agent tokens do is other modules'; here     *)
(* they are calls that are refused or not.  An error that is not a 401     *)
(* only shows a notification.                                              *)
(***************************************************************************)
EXTENDS Naturals

CONSTANTS
    Browsers, Tabs,
    BrowserOf(_),    \* the browser of a tab
    Users,           \* the accounts at the start
    Sessions,        \* bound: the sessions the backend will issue
    Handlers,        \* bound: the handlers under way at a time
    MayBe(_),        \* bound: the kinds that each of them may be
    None

ASSUME Parameters ==
    /\ \A t \in Tabs : BrowserOf(t) \in Browsers
    /\ None \notin Users \cup Sessions \cup Browsers \cup Tabs

VARIABLES
    accounts,    \* the accounts of the backend
    owner,       \* the user of each session issued
    live,        \* the sessions the backend accepts
    store,       \* app.storage.user: the session of each browser, or None
    page,        \* what each tab shows: where it is, and the token it was built with
    task,        \* the handlers that await something, of pages shown or left
    signedOut    \* history: the live sessions a person signed out of, but for those whose call failed

vars == <<accounts, owner, live, store, page, task, signedOut>>

Places == {"login", "opening", "open", "goto_login", "goto_page", "goto_site"}
Pages  == {"list", "site", "account"}
Kinds  == {"none", "login", "logout", "call", "change", "remove", "password", "download", "fetch",
           "refused"}
NoTask == [kind |-> "none", st |-> "idle", tab |-> None, here |-> FALSE, token |-> None, user |-> None, mine |-> FALSE]
NoPage == [at |-> "goto_page", kind |-> "list", token |-> None]

Init ==
    /\ accounts = Users
    /\ owner = [s \in Sessions |-> None]
    /\ live = {}
    /\ store = [b \in Browsers |-> None]
    /\ page \in [Tabs -> {[NoPage EXCEPT !.at = p] : p \in {"goto_page", "goto_site"}}]
    /\ task = [h \in Handlers |-> NoTask]
    /\ signedOut = {}

Stored(t) == store[BrowserOf(t)]
StoredUser(t) == IF Stored(t) = None THEN None ELSE owner[Stored(t)]

\* auth.sign_in and auth.sign_out: the three keys together.
Remember(t, s) == store' = [store EXCEPT ![BrowserOf(t)] = s]

Free(h, kind) == task[h] = NoTask /\ kind \in MayBe(h)
GoTo(t, place) == page' = [page EXCEPT ![t] = [NoPage EXCEPT !.at = place]]

\* The page of a tab is left: its handlers go on without it, but for those at a dialog.
LeftBehind(tasks, t) ==
    [h \in Handlers |->
        IF tasks[h].tab # t THEN tasks[h]
        ELSE IF tasks[h].st = "dialog" THEN NoTask
        ELSE [tasks[h] EXCEPT !.here = FALSE]]

(***************************************************************************)
(* Pages                                                                   *)
(***************************************************************************)

\* The person types an address or follows a link of the navigation, whatever the page still awaits.
Visit(t, place) ==
    /\ page[t].at \in {"login", "open"}
    /\ GoTo(t, place)
    /\ task' = LeftBehind(task, t)
    /\ UNCHANGED <<accounts, owner, live, store, signedOut>>

\* AuthMiddleware, and login.page: without a stored token to the sign-in page, with one away from it.
Redirect(t) ==
    /\ \/ page[t].at = "goto_login" /\ Stored(t) # None /\ \E p \in {"goto_page", "goto_site"} : GoTo(t, p)
       \/ page[t].at \in {"goto_page", "goto_site"} /\ Stored(t) = None /\ GoTo(t, "goto_login")
    /\ UNCHANGED <<accounts, owner, live, store, task, signedOut>>

ShowLogin(t) ==
    /\ page[t].at = "goto_login" /\ Stored(t) = None
    /\ GoTo(t, "login")
    /\ UNCHANGED <<accounts, owner, live, store, task, signedOut>>

\* A page takes the stored token and asks for what it shows; the account page asks nothing.
Build(t, kind) ==
    /\ page[t].at = IF kind = "site" THEN "goto_site" ELSE "goto_page"
    /\ Stored(t) # None
    /\ page' = [page EXCEPT ![t] = [at |-> IF kind = "account" THEN "open" ELSE "opening",
                                    kind |-> kind, token |-> Stored(t)]]
    /\ UNCHANGED <<accounts, owner, live, store, task, signedOut>>

\* The page's first call was answered, or failed in a way that is only shown.
Opened(t) ==
    /\ page[t].at = "opening"
    /\ page' = [page EXCEPT ![t].at = "open"]
    /\ UNCHANGED <<accounts, owner, live, store, task, signedOut>>

\* Mutant: the 401 sends the person to the sign-in page with the token still stored.
ReportUnauthorized_Keeps(t) == UNCHANGED store

\* layout.report_error on a 401: the browser's session is forgotten, whichever it is.
ReportUnauthorized(t) == Remember(t, None)

OpenRefused(t) ==
    /\ page[t].at = "opening" /\ page[t].token \notin live
    /\ ReportUnauthorized(t) /\ GoTo(t, "goto_login")
    /\ UNCHANGED <<accounts, owner, live, task, signedOut>>

(***************************************************************************)
(* Handlers: what a person starts                                          *)
(***************************************************************************)
Send(h, t, kind, token, user) ==
    task' = [task EXCEPT ![h] = [NoTask EXCEPT !.kind = kind, !.st = "sent", !.tab = t, !.here = TRUE,
                                               !.token = token, !.user = user]]

\* The person goes elsewhere while the page opens: what builds it goes on, a call of a page that is left.
Hurry(h, t, place) ==
    /\ Free(h, "call") /\ page[t].at = "opening"
    /\ GoTo(t, place)
    /\ task' = [task EXCEPT ![h] = [NoTask EXCEPT !.kind = "call", !.st = "sent", !.tab = t,
                                                  !.token = page[t].token]]
    /\ UNCHANGED <<accounts, owner, live, store, signedOut>>

\* login.submit
SubmitLogin(h, t, u) ==
    /\ Free(h, "login") /\ page[t].at = "login"
    /\ Send(h, t, "login", None, u)
    /\ UNCHANGED <<accounts, owner, live, store, page, signedOut>>

\* Mutant: the store is cleared before its token is read, so no session is ended.
SignOut_ClearedFirst(h, t) ==
    /\ Free(h, "logout") /\ page[t].at = "open"
    /\ Remember(t, None)
    /\ GoTo(t, "goto_login") /\ task' = LeftBehind(task, t)
    /\ signedOut' = signedOut \cup ({Stored(t)} \cap live)
    /\ UNCHANGED <<accounts, owner, live>>

\* layout.sign_out: forget the stored session, then end it at the backend.
SignOut(h, t) ==
    /\ Free(h, "logout") /\ page[t].at = "open"
    /\ Remember(t, None)
    /\ IF Stored(t) = None
       THEN GoTo(t, "goto_login") /\ task' = LeftBehind(task, t) /\ UNCHANGED signedOut
       ELSE /\ Send(h, t, "logout", Stored(t), None)
            /\ signedOut' = signedOut \cup ({Stored(t)} \cap live)
            /\ UNCHANGED page
    /\ UNCHANGED <<accounts, owner, live>>

\* A handler of a page that makes a call with the page's token at once.
Start(h, t, on, kind) ==
    /\ Free(h, kind) /\ page[t].at = "open" /\ page[t].kind = on
    /\ Send(h, t, kind, page[t].token, None)
    /\ UNCHANGED <<accounts, owner, live, store, page, signedOut>>

CreateSite(h, t)     == Start(h, t, "list", "change")
CreateToken(h, t)    == Start(h, t, "list", "change")
AddUser(h, t)        == Start(h, t, "list", "change")
ChangePassword(h, t) == Start(h, t, "account", "password")
OnSite(h, t)         == Start(h, t, "site", "call")        \* the handlers that UploadPage models
StartDownload(h, t)  == Start(h, t, "site", "download")

\* A handler that asks first.
Confirm(h, t, kind, u, mine) ==
    /\ Free(h, kind) /\ page[t].at = "open" /\ page[t].kind = "list"
    /\ task' = [task EXCEPT ![h] = [NoTask EXCEPT !.kind = kind, !.st = "dialog", !.tab = t, !.here = TRUE,
                                                  !.token = page[t].token, !.user = u, !.mine = mine]]
    /\ UNCHANGED <<accounts, owner, live, store, page, signedOut>>

ConfirmDelete(h, t) == Confirm(h, t, "change", None, FALSE)
ConfirmRevoke(h, t) == Confirm(h, t, "change", None, FALSE)

\* users.confirm_remove: the dialog says whether the account is the person's own.
ConfirmRemove(h, t, u) == u \in accounts /\ Confirm(h, t, "remove", u, u = StoredUser(t))

\* layout.confirm: the action, or Cancel.
CloseDialog(h) ==
    /\ task[h].st = "dialog"
    /\ \/ task' = [task EXCEPT ![h].st = "sent"]
       \/ task' = [task EXCEPT ![h] = NoTask]
    /\ UNCHANGED <<accounts, owner, live, store, page, signedOut>>

(***************************************************************************)
(* The backend (Accounts has it in full)                                   *)
(***************************************************************************)

\* Nothing more follows but a message: an error that is not a 401, an answer that changed no list,
\* whatever the download route was told.  sign_out goes on whatever it was told.
OnlyShown(k, code) ==
    \/ code = "error" /\ k # "logout"
    \/ code = "ok" /\ k \in {"call", "password"}
    \/ k = "fetch"

\* The answer to a handler's call.  A 401 is the end of every handler but sign_out: only the report
\* of it is left to do.
Answer(h, code) ==
    task' = [task EXCEPT ![h] =
        IF OnlyShown(task[h].kind, code) THEN NoTask
        ELSE IF code = "unauthorized" /\ task[h].kind # "logout"
        THEN [task[h] EXCEPT !.kind = "refused", !.st = "answered", !.user = None, !.mine = FALSE]
        ELSE [task[h] EXCEPT !.st = "answered"]]

\* A new session: which of those not issued yet makes no difference.
NewSession == CHOOSE s \in Sessions : owner[s] = None

Issue(h) ==
    /\ task[h].kind = "login" /\ task[h].st = "sent" /\ task[h].user \in accounts
    /\ \E s \in Sessions : owner[s] = None
    /\ owner' = [owner EXCEPT ![NewSession] = task[h].user]
    /\ live' = live \cup {NewSession}
    /\ task' = [task EXCEPT ![h].st = "answered", ![h].token = NewSession, ![h].user = None]
    /\ UNCHANGED <<accounts, store, page, signedOut>>

Unauthorized(h) ==
    /\ task[h].st = "sent" /\ task[h].kind # "login" /\ task[h].token \notin live
    /\ Answer(h, "unauthorized")
    /\ UNCHANGED <<accounts, owner, live, store, page, signedOut>>

SessionsOf(u) == {s \in Sessions : owner[s] = u}

\* What each call does to the accounts and the sessions; its answer may be lost, which the client
\* reports as an error.
Serve(h, code) ==
    LET k == task[h]
        gone == k.kind = "remove" /\ k.user \in accounts /\ accounts # {k.user}
    IN  /\ k.st = "sent" /\ k.kind # "login" /\ k.token \in live
        /\ k.kind = "remove" /\ ~gone => code = "error"
        /\ live' = CASE k.kind = "logout" -> live \ {k.token}
                     [] k.kind = "password" -> live \ (SessionsOf(owner[k.token]) \ {k.token})
                     [] gone -> live \ SessionsOf(k.user)
                     [] OTHER -> live
        /\ accounts' = IF gone THEN accounts \ {k.user} ELSE accounts
        /\ signedOut' = signedOut \cap live'
        /\ Answer(h, code)
        /\ UNCHANGED <<owner, store, page>>

\* Mutant: a backend that cannot be reached is reported as a refusal.
Fail_AsRefusal(h) ==
    /\ task[h].st = "sent"
    /\ Answer(h, "unauthorized")
    /\ signedOut' = IF task[h].kind = "logout" THEN signedOut \ {task[h].token} ELSE signedOut
    /\ UNCHANGED <<accounts, owner, live, store, page>>

\* No connection, a timeout, a 500; for a sign-in also a wrong password or an account that is gone.
Fail(h) ==
    /\ task[h].st = "sent"
    /\ Answer(h, "error")
    /\ signedOut' = IF task[h].kind = "logout" THEN signedOut \ {task[h].token} ELSE signedOut
    /\ UNCHANGED <<accounts, owner, live, store, page>>

\* The period of a session runs out.
Expire(s) ==
    /\ s \in live
    /\ live' = live \ {s}
    /\ signedOut' = signedOut \ {s}
    /\ UNCHANGED <<accounts, owner, store, page, task>>

(***************************************************************************)
(* Handlers: after their await                                             *)
(***************************************************************************)
Ended(h) == task' = [task EXCEPT ![h] = NoTask]

\* The handler ends and sends its tab elsewhere, if that still shows its page.
EndsAt(h, place) ==
    LET t == task[h].tab
    IN  IF task[h].here
        THEN GoTo(t, place) /\ task' = LeftBehind([task EXCEPT ![h] = NoTask], t)
        ELSE Ended(h) /\ UNCHANGED page

\* login.submit: the session is stored, whatever the store holds by now; then to the page wanted.
SignedIn(h) ==
    /\ task[h].kind = "login" /\ task[h].st = "answered"
    /\ Remember(task[h].tab, task[h].token)
    /\ \E p \in {"goto_page", "goto_site"} : EndsAt(h, p)
    /\ UNCHANGED <<accounts, owner, live, signedOut>>

\* sign_out suppresses every error of the backend.
SignedOut(h) ==
    /\ task[h].kind = "logout" /\ task[h].st = "answered"
    /\ EndsAt(h, "goto_login")
    /\ UNCHANGED <<accounts, owner, live, store, signedOut>>

\* report_error's 401, after a handler's call.
Refused(h) ==
    /\ task[h].kind = "refused"
    /\ ReportUnauthorized(task[h].tab)
    /\ EndsAt(h, "goto_login")
    /\ UNCHANGED <<accounts, owner, live, signedOut>>

\* The list of the handler's page is asked for again, with the page's token.
Refresh(h) == task' = [task EXCEPT ![h] = [task[h] EXCEPT !.kind = "call", !.st = "sent", !.user = None]]

\* A list changed.
Changed(h) ==
    /\ task[h].kind = "change" /\ task[h].st = "answered"
    /\ Refresh(h)
    /\ UNCHANGED <<accounts, owner, live, store, page, signedOut>>

\* users.confirm_remove: one's own account signs out, another's refreshes the list.
Removed(h) ==
    /\ task[h].kind = "remove" /\ task[h].st = "answered"
    /\ IF task[h].mine
       THEN Remember(task[h].tab, None) /\ EndsAt(h, "goto_login")
       ELSE Refresh(h) /\ UNCHANGED <<store, page>>
    /\ UNCHANGED <<accounts, owner, live, signedOut>>

\* site.download: the browser then asks the download route, which takes the stored token; without
\* one the middleware answers.
Download(h) ==
    /\ task[h].kind = "download" /\ task[h].st = "answered" /\ task[h].here
    /\ LET t == task[h].tab
       IN  IF Stored(t) = None THEN Ended(h) ELSE Send(h, t, "fetch", Stored(t), None)
    /\ UNCHANGED <<accounts, owner, live, store, page, signedOut>>

\* NiceGUI may have deleted the page that was left: the handler then ends at its next use of it.
Abandoned(h) ==
    /\ task[h].st = "answered" /\ ~task[h].here
    /\ Ended(h)
    /\ UNCHANGED <<accounts, owner, live, store, page, signedOut>>

PageStep(t) == Redirect(t) \/ ShowLogin(t) \/ (\E k \in Pages : Build(t, k)) \/ Opened(t) \/ OpenRefused(t)
BackendStep(h) ==
    Issue(h) \/ Unauthorized(h) \/ (\E c \in {"ok", "error"} : Serve(h, c)) \/ Fail(h)
HandlerStep(h) ==
    SignedIn(h) \/ SignedOut(h) \/ Refused(h) \/ Changed(h) \/ Removed(h) \/ Download(h) \/ Abandoned(h)

PersonStep(h, t) ==
    \/ \E p \in {"goto_login", "goto_page", "goto_site"} : Hurry(h, t, p)
    \/ \E u \in Users : SubmitLogin(h, t, u) \/ ConfirmRemove(h, t, u)
    \/ CreateSite(h, t) \/ CreateToken(h, t) \/ AddUser(h, t) \/ ConfirmDelete(h, t) \/ ConfirmRevoke(h, t)
    \/ ChangePassword(h, t) \/ OnSite(h, t) \/ StartDownload(h, t)
    \/ SignOut(h, t)

Next ==
    \/ \E t \in Tabs : PageStep(t) \/ \E p \in {"goto_login", "goto_page", "goto_site"} : Visit(t, p)
    \/ \E h \in Handlers : \/ \E t \in Tabs : PersonStep(h, t)
                           \/ CloseDialog(h) \/ BackendStep(h) \/ HandlerStep(h)
    \/ \E s \in Sessions : Expire(s)

Spec == Init /\ [][Next]_vars

(***************************************************************************)
(* A browser follows a redirect and builds what it is sent to; the backend *)
(* answers or the client's timeout does; the event loop resumes a handler. *)
(* Nothing makes a person act.                                             *)
(***************************************************************************)
LiveSpec ==
    /\ Spec
    /\ \A t \in Tabs : WF_vars(PageStep(t))
    /\ \A h \in Handlers : WF_vars(BackendStep(h)) /\ WF_vars(HandlerStep(h))

(***************************************************************************)
(* Properties                                                              *)
(***************************************************************************)
TypeOK ==
    /\ accounts \subseteq Users /\ live \subseteq Sessions /\ signedOut \subseteq Sessions
    /\ owner \in [Sessions -> Users \cup {None}]
    /\ store \in [Browsers -> Sessions \cup {None}]
    /\ page \in [Tabs -> [at : Places, kind : Pages, token : Sessions \cup {None}]]
    /\ task \in [Handlers -> [kind : Kinds, st : {"idle", "dialog", "sent", "answered"},
                              tab : Tabs \cup {None}, here : BOOLEAN,
                              token : Sessions \cup {None}, user : Users \cup {None}, mine : BOOLEAN]]

\* A session that a person signed out of is ended at the backend, unless that very call failed
\* (layout.sign_out).
SignOutEnds == \A s \in Sessions : s \in signedOut ~> s \notin signedOut

\* A page that asks the backend with a session that is over comes to rest, at the sign-in page
\* or open, if the person does not keep leaving it while it opens: the redirects of the
\* middleware, of the login page and of the error report never chase one another.
DeadSessionLeaves ==
    \A t \in Tabs :
       <>[][\A h \in Handlers, p \in Places : ~Hurry(h, t, p)]_vars =>
          (page[t].at = "opening" /\ page[t].token \notin live ~> page[t].at \in {"login", "open"})

\* Something of a browser was refused for a session: a page that opens with it, or a handler
\* that called with it, of a page shown or left long ago (layout.report_error).
RefusedFor(b, s) ==
    \/ \E t \in Tabs : BrowserOf(t) = b /\ page[t].at = "opening" /\ page[t].token = s
    \/ \E h \in Handlers : task[h].kind = "refused" /\ task[h].token = s /\ BrowserOf(task[h].tab) = b

\* A browser forgets a session that is good, and that nobody signed out of, only when something
\* it had begun with another session is refused, that one being over (layout.report_error), or
\* when the account a dialog called the person's own is removed (users.confirm_remove), the
\* store naming another by now.  Whoever uses one session is never signed out without a cause.
SignedOutForCause ==
    [][\A b \in Browsers : store[b] # None /\ store'[b] = None =>
          \/ store[b] \notin live \/ store[b] \in signedOut'
          \/ \E s \in Sessions \ live : RefusedFor(b, s)
          \/ \E h \in Handlers : /\ task[h].st = "answered" /\ BrowserOf(task[h].tab) = b
                                 /\ task[h].mine /\ task[h].user \notin accounts]_vars

\* What report_error says of a 401: the session a browser forgets is no longer valid, or the
\* person signed out of it.
ForgottenIsOver ==
    [][\A b \in Browsers : store[b] # None /\ store'[b] = None => store[b] \notin live \/ store[b] \in signedOut']_vars

\* What confirm_remove says: the dialog warns whoever removes the account they are acting as.
OwnRemovalWarned ==
    [][\A u \in accounts \ accounts' :
          \A h \in Handlers : task[h].st = "sent" /\ task'[h].st = "answered" /\ owner[task[h].token] = u
                              => task[h].mine]_vars
=============================================================================
