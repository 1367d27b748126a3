----------------------- MODULE FrontendSessionProofs -----------------------
(***************************************************************************)
(* When a browser forgets a session that is good, for any number of        *)
(* browsers, tabs, accounts, sessions and handlers under way.              *)
(***************************************************************************)
EXTENDS FrontendSession, TLAPS

(***************************************************************************)
(* The invariant.  Every token a store, a page or a handler holds was      *)
(* issued, and a session that was issued and ended never comes back: so    *)
(* the session of a handler that was refused is still over when it reports *)
(* that, however long its page has been left.  A removal that succeeded    *)
(* removed its account for good.                                           *)
(***************************************************************************)
PageType == [at : Places, kind : Pages, token : Sessions \cup {None}]
TaskType == [kind : Kinds, st : {"idle", "dialog", "sent", "answered"},
             tab : Tabs \cup {None}, here : BOOLEAN,
             token : Sessions \cup {None}, user : Users \cup {None}, mine : BOOLEAN]

Known(s, own) == s = None \/ (s \in Sessions /\ own[s] # None)

PageOK(p, own) ==
    /\ p \in PageType /\ Known(p.token, own)
    /\ p.at \in {"opening", "open"} => p.token # None

TaskOK(k, own, lv, acc) ==
    /\ k \in TaskType /\ Known(k.token, own)
    /\ k.kind = "none" => k.st = "idle"
    /\ k.kind # "none" => k.tab \in Tabs
    /\ k.kind \notin {"none", "login"} => k.token # None
    /\ k.kind = "login" /\ k.st = "answered" => k.token # None
    /\ k.kind = "refused" => k.st = "answered" /\ k.token \notin lv
    /\ k.kind = "remove" /\ k.st = "answered" => k.user \notin acc

Sets == /\ accounts \subseteq Users /\ live \subseteq Sessions /\ signedOut \subseteq Sessions
        /\ owner \in [Sessions -> Users \cup {None}]
StoresOK == store \in [Browsers -> Sessions \cup {None}] /\ \A b \in Browsers : Known(store[b], owner)
PagesOK  == page \in [Tabs -> PageType] /\ \A t \in Tabs : PageOK(page[t], owner)
TasksOK  == task \in [Handlers -> TaskType] /\ \A h \in Handlers : TaskOK(task[h], owner, live, accounts)

Inv == Sets /\ StoresOK /\ PagesOK /\ TasksOK

\* None is no user, session or tab.
LEMMA NoneApart == None \notin Users /\ None \notin Sessions /\ None \notin Tabs
  BY Parameters

\* No handler is a sound one.
LEMMA NothingUnderWay ==
    /\ NoTask \in TaskType /\ NoTask.kind = "none" /\ NoTask.st = "idle" /\ NoTask.tab = None
    /\ NoTask.here = FALSE /\ NoTask.token = None /\ NoTask.user = None /\ NoTask.mine = FALSE
    /\ \A own, lv, acc : TaskOK(NoTask, own, lv, acc)
  <1>1. /\ NoTask \in TaskType /\ NoTask.kind = "none" /\ NoTask.st = "idle" /\ NoTask.tab = None
        /\ NoTask.here = FALSE /\ NoTask.token = None /\ NoTask.user = None /\ NoTask.mine = FALSE
    BY DEF NoTask, TaskType, Kinds
  <1> QED  BY <1>1 DEF TaskOK, Known

\* A tab that is sent somewhere shows no token.
LEMMA AnyPlace ==
    ASSUME NEW place \in Places \ {"opening", "open"}, NEW own
    PROVE  PageOK([NoPage EXCEPT !.at = place], own)
  <1>1. /\ [NoPage EXCEPT !.at = place] \in PageType
        /\ [NoPage EXCEPT !.at = place].token = None /\ [NoPage EXCEPT !.at = place].at = place
    BY DEF NoPage, PageType, Places, Pages
  <1> QED  BY <1>1 DEF PageOK, Known

\* The start.
LEMMA InitInv == Init => Inv
  <1> SUFFICES ASSUME Init PROVE Inv
    OBVIOUS
  <1>1. Sets /\ StoresOK
    BY DEF Init, Sets, StoresOK, Known
  <1>2. ASSUME NEW t \in Tabs PROVE PageOK(page[t], owner)
    <2>1. page[t] \in {[NoPage EXCEPT !.at = p] : p \in {"goto_page", "goto_site"}}
      BY DEF Init
    <2>2. PICK p \in {"goto_page", "goto_site"} : page[t] = [NoPage EXCEPT !.at = p]
      BY <2>1
    <2> QED  BY <2>2, AnyPlace DEF Places
  <1>3. PagesOK
    <2>1. page \in [Tabs -> {[NoPage EXCEPT !.at = p] : p \in {"goto_page", "goto_site"}}]
      BY DEF Init
    <2> QED  BY <1>2, <2>1 DEF PagesOK, PageOK
  <1>4. TasksOK
    BY NothingUnderWay DEF Init, TasksOK
  <1> QED  BY <1>1, <1>3, <1>4 DEF Inv

(***************************************************************************)
(* What was good stays good while sessions end, accounts go and sessions   *)
(* are issued that nobody had.                                             *)
(***************************************************************************)
Grows(own, own2, lv, lv2, acc, acc2) ==
    /\ \A s \in Sessions : own[s] # None => own2[s] # None /\ (s \in lv2 => s \in lv)
    /\ acc2 \subseteq acc

\* A sound handler stays sound.
LEMMA TaskStays ==
    ASSUME NEW k, NEW own, NEW own2, NEW lv, NEW lv2, NEW acc, NEW acc2,
           Grows(own, own2, lv, lv2, acc, acc2), TaskOK(k, own, lv, acc)
    PROVE  TaskOK(k, own2, lv2, acc2)
  BY DEF Grows, TaskOK, Known

\* So do the stores, the pages and the handlers that a step leaves alone.
LEMMA Stays ==
    ASSUME Inv, Grows(owner, owner', live, live', accounts, accounts')
    PROVE  /\ store' = store => StoresOK'
           /\ page' = page => PagesOK'
           /\ \A h \in Handlers : TaskOK(task[h], owner', live', accounts')
  <1>1. \A h \in Handlers : TaskOK(task[h], owner', live', accounts')
    BY TaskStays DEF Inv, TasksOK
  <1>2. store' = store => StoresOK'
    BY DEF Inv, StoresOK, Grows, Known
  <1>3. page' = page => PagesOK'
    BY DEF Inv, PagesOK, PageOK, Grows, Known
  <1> QED  BY <1>1, <1>2, <1>3

\* Nothing is issued, ended or removed.
Quiet == UNCHANGED <<accounts, owner, live>> /\ signedOut' \subseteq Sessions

\* In a step that issues, ends and removes nothing they stay as they are.
LEMMA QuietStays ==
    ASSUME Inv, Quiet
    PROVE  /\ Sets' /\ Grows(owner, owner', live, live', accounts, accounts')
           /\ store' = store => StoresOK'
           /\ page' = page => PagesOK'
           /\ task' = task => TasksOK'
           /\ signedOut \subseteq Sessions
  <1>1. Sets' /\ Grows(owner, owner', live, live', accounts, accounts') /\ signedOut \subseteq Sessions
    BY DEF Inv, Quiet, Sets, Grows
  <1>2. task' = task => TasksOK'
    BY DEF Inv, Quiet, TasksOK
  <1> QED  BY <1>1, <1>2, Stays

\* One handler changes, for a sound one.
LEMMA OneTask ==
    ASSUME Inv, Grows(owner, owner', live, live', accounts, accounts'),
           NEW h \in Handlers, NEW k, task' = [task EXCEPT ![h] = k], TaskOK(k, owner', live', accounts')
    PROVE  TasksOK'
  <1>1. task \in [Handlers -> TaskType] /\ \A q \in Handlers : TaskOK(task[q], owner', live', accounts')
    BY Stays DEF Inv, TasksOK
  <1>2. k \in TaskType
    BY DEF TaskOK
  <1> QED  BY <1>1, <1>2 DEF TasksOK

\* Only a handler changes.
LEMMA TaskInv ==
    ASSUME Inv, Quiet, UNCHANGED <<store, page>>,
           NEW h \in Handlers, NEW k, task' = [task EXCEPT ![h] = k], TaskOK(k, owner, live, accounts)
    PROVE  Inv'
  <1>1. TaskOK(k, owner', live', accounts')
    BY DEF Quiet
  <1>2. TasksOK'
    BY <1>1, QuietStays, OneTask
  <1> QED  BY <1>2, QuietStays DEF Inv

\* A tab is sent somewhere.
LEMMA GoesOK ==
    ASSUME Inv, Quiet, NEW t \in Tabs, NEW place \in Places \ {"opening", "open"}, GoTo(t, place)
    PROVE  PagesOK'
  <1> DEFINE p == [NoPage EXCEPT !.at = place]
  <1>1. PageOK(p, owner) /\ p \in PageType
    BY AnyPlace DEF PageOK
  <1>2. page' = [page EXCEPT ![t] = p]
    BY DEF GoTo
  <1> HIDE DEF p
  <1> QED  BY <1>1, <1>2 DEF Inv, PagesOK, Quiet

\* A browser stores a session that was issued, or forgets.
LEMMA RemembersOK ==
    ASSUME Inv, Quiet, NEW t \in Tabs, NEW s, Known(s, owner), Remember(t, s)
    PROVE  StoresOK'
  <1>1. BrowserOf(t) \in Browsers /\ s \in Sessions \cup {None}
    BY Parameters DEF Known
  <1> QED  BY <1>1 DEF Inv, StoresOK, Quiet, Remember

\* The handlers of a page that is left.
LEMMA LeftOK ==
    ASSUME NEW f, NEW t, NEW own, NEW lv, NEW acc, \A h \in Handlers : TaskOK(f[h], own, lv, acc)
    PROVE  /\ LeftBehind(f, t) \in [Handlers -> TaskType]
           /\ \A h \in Handlers : TaskOK(LeftBehind(f, t)[h], own, lv, acc)
  <1> DEFINE g(h) == IF f[h].tab # t THEN f[h]
                     ELSE IF f[h].st = "dialog" THEN NoTask ELSE [f[h] EXCEPT !.here = FALSE]
  <1>1. ASSUME NEW h \in Handlers PROVE TaskOK(g(h), own, lv, acc)
    <2>1. CASE f[h].tab # t \/ f[h].st = "dialog"
      BY <2>1, NothingUnderWay
    <2>2. CASE f[h].tab = t /\ f[h].st # "dialog"
      <3> DEFINE k == [f[h] EXCEPT !.here = FALSE]
      <3>1. TaskOK(f[h], own, lv, acc) /\ f[h] \in TaskType
        BY DEF TaskOK
      <3>2. /\ k \in TaskType /\ k.kind = f[h].kind /\ k.st = f[h].st /\ k.tab = f[h].tab
            /\ k.token = f[h].token /\ k.user = f[h].user
        BY <3>1 DEF TaskType
      <3> HIDE DEF k
      <3>3. TaskOK(k, own, lv, acc)
        BY <3>1, <3>2 DEF TaskOK
      <3> QED  BY <2>2, <3>3 DEF k
    <2> QED  BY <2>1, <2>2
  <1>2. \A h \in Handlers : g(h) \in TaskType
    BY <1>1 DEF TaskOK
  <1>3. LeftBehind(f, t) = [h \in Handlers |-> g(h)]
    BY DEF LeftBehind
  <1> HIDE DEF g
  <1> QED  BY <1>1, <1>2, <1>3

\* A tab goes elsewhere, perhaps as the end of a handler.
LEMMA LeavesOK ==
    ASSUME Inv, Quiet, NEW t, NEW f, task' = LeftBehind(f, t),
           \/ f = task
           \/ \E h \in Handlers : f = [task EXCEPT ![h] = NoTask]
    PROVE  TasksOK'
  <1>1. \A h \in Handlers : TaskOK(f[h], owner, live, accounts)
    BY NothingUnderWay DEF Inv, TasksOK
  <1>2. /\ LeftBehind(f, t) \in [Handlers -> TaskType]
        /\ \A h \in Handlers : TaskOK(LeftBehind(f, t)[h], owner, live, accounts)
    BY <1>1, LeftOK
  <1> QED  BY <1>2 DEF TasksOK, Quiet

\* A handler ends and sends its tab somewhere (EndsAt).
LEMMA EndsAtOK ==
    ASSUME Inv, Quiet, NEW h \in Handlers, task[h].kind # "none",
           NEW place \in Places \ {"opening", "open"}, EndsAt(h, place)
    PROVE  PagesOK' /\ TasksOK'
  <1>1. task[h].tab \in Tabs
    BY DEF Inv, TasksOK, TaskOK
  <1>2. CASE task[h].here
    <2>1. GoTo(task[h].tab, place) /\ task' = LeftBehind([task EXCEPT ![h] = NoTask], task[h].tab)
      BY <1>2 DEF EndsAt
    <2> QED  BY <1>1, <2>1, GoesOK, LeavesOK
  <1>3. CASE ~task[h].here
    <2>1. task' = [task EXCEPT ![h] = NoTask] /\ page' = page
      BY <1>3 DEF EndsAt, Ended
    <2> QED  BY <2>1, QuietStays, NothingUnderWay, OneTask
  <1> QED  BY <1>2, <1>3

(***************************************************************************)
(* What a person starts.                                                   *)
(***************************************************************************)
LEMMA PageOf ==
    ASSUME Inv, NEW t \in Tabs
    PROVE  page[t] \in PageType /\ PageOK(page[t], owner) /\ Known(page[t].token, owner) /\ Known(Stored(t), owner)
  BY Parameters DEF Inv, PagesOK, PageOK, StoresOK, Stored

\* What is known of a handler.
LEMMA TaskOf ==
    ASSUME Inv, NEW h \in Handlers
    PROVE  task[h] \in TaskType /\ TaskOK(task[h], owner, live, accounts)
  BY DEF Inv, TasksOK

Begins(k, kind, st, t, token, user) ==
    /\ k \in TaskType /\ k.kind = kind /\ k.st = st /\ k.tab = t /\ k.token = token /\ k.user = user

\* A handler that begins is sound.
LEMMA BeginsOK ==
    ASSUME NEW t \in Tabs, NEW kind \in Kinds \ {"none", "refused"}, NEW st \in {"dialog", "sent"}, NEW token,
           NEW user, NEW k, Begins(k, kind, st, t, token, user), Known(token, owner),
           token = None => kind = "login"
    PROVE  TaskOK(k, owner, live, accounts)
  BY DEF Begins, TaskOK

\* A handler begins with a call (Send).
LEMMA SendInv ==
    ASSUME Inv, NEW h \in Handlers, NEW t \in Tabs, NEW kind \in Kinds \ {"none", "refused"}, NEW token, Known(token, owner),
           token = None => kind = "login", NEW user \in Users \cup {None}, Send(h, t, kind, token, user)
    PROVE  /\ Quiet => TasksOK'
           /\ Quiet /\ UNCHANGED <<store, page>> => Inv'
  <1> DEFINE k == [NoTask EXCEPT !.kind = kind, !.st = "sent", !.tab = t, !.here = TRUE, !.token = token, !.user = user]
  <1>1. token \in Sessions \cup {None}
    BY DEF Known
  <1>2. Begins(k, kind, "sent", t, token, user)
    BY <1>1 DEF Begins, NoTask, TaskType
  <1>3. task' = [task EXCEPT ![h] = k]
    BY DEF Send
  <1> HIDE DEF k
  <1>4. TaskOK(k, owner, live, accounts)
    BY <1>2, BeginsOK
  <1>5. Quiet => TaskOK(k, owner', live', accounts')
    BY <1>4 DEF Quiet
  <1> QED  BY <1>3, <1>4, <1>5, QuietStays, OneTask, TaskInv

\* The handlers that call at once (Start).
LEMMA StartInv ==
    ASSUME Inv, NEW h \in Handlers, NEW t \in Tabs, NEW on, NEW kind \in {"change", "password", "call", "download"},
           Start(h, t, on, kind)
    PROVE  Inv'
  <1>1. /\ page[t].at = "open" /\ Send(h, t, kind, page[t].token, None)
        /\ UNCHANGED <<accounts, owner, live, store, page, signedOut>>
    BY DEF Start
  <1>2. Known(page[t].token, owner) /\ page[t].token # None
    BY <1>1, PageOf DEF PageOK
  <1>3. Quiet /\ kind \in Kinds \ {"none", "refused"}
    BY <1>1 DEF Quiet, Inv, Sets, Kinds
  <1> QED  BY <1>1, <1>2, <1>3, SendInv

\* The handlers that ask first (Confirm).
LEMMA ConfirmInv ==
    ASSUME Inv, NEW h \in Handlers, NEW t \in Tabs, NEW kind \in {"change", "remove"}, NEW u \in Users \cup {None},
           NEW mine \in BOOLEAN, Confirm(h, t, kind, u, mine)
    PROVE  Inv'
  <1> DEFINE k == [NoTask EXCEPT !.kind = kind, !.st = "dialog", !.tab = t, !.here = TRUE,
                                 !.token = page[t].token, !.user = u, !.mine = mine]
  <1>1. /\ page[t].at = "open" /\ task' = [task EXCEPT ![h] = k]
        /\ UNCHANGED <<accounts, owner, live, store, page, signedOut>>
    BY DEF Confirm
  <1>2. Known(page[t].token, owner) /\ page[t].token # None /\ page[t].token \in Sessions \cup {None}
    BY <1>1, PageOf DEF PageOK, Known
  <1>3. Begins(k, kind, "dialog", t, page[t].token, u)
    BY <1>2 DEF Begins, NoTask, TaskType, Kinds
  <1> HIDE DEF k
  <1>4. Quiet /\ kind \in Kinds \ {"none", "refused"}
    BY <1>1 DEF Quiet, Inv, Sets, Kinds
  <1>5. TaskOK(k, owner, live, accounts)
    BY <1>2, <1>3, <1>4, BeginsOK
  <1> QED  BY <1>1, <1>4, <1>5, TaskInv

\* A page is left while it opens: its call is a handler from then on.
LEMMA HurryInv ==
    ASSUME Inv, NEW h \in Handlers, NEW t \in Tabs, NEW place \in {"goto_login", "goto_page", "goto_site"},
           Hurry(h, t, place)
    PROVE  Inv'
  <1> DEFINE k == [NoTask EXCEPT !.kind = "call", !.st = "sent", !.tab = t, !.token = page[t].token]
  <1>1. /\ page[t].at = "opening" /\ GoTo(t, place) /\ task' = [task EXCEPT ![h] = k]
        /\ UNCHANGED <<accounts, owner, live, store, signedOut>>
    BY DEF Hurry
  <1>2. Known(page[t].token, owner) /\ page[t].token # None /\ page[t].token \in Sessions \cup {None}
    BY <1>1, PageOf DEF PageOK, Known
  <1>3. Begins(k, "call", "sent", t, page[t].token, None)
    BY <1>2 DEF Begins, NoTask, TaskType, Kinds
  <1> HIDE DEF k
  <1>4. Quiet
    BY <1>1 DEF Quiet, Inv, Sets
  <1>5. TaskOK(k, owner, live, accounts) /\ TaskOK(k, owner', live', accounts')
    BY <1>1, <1>2, <1>3, BeginsOK DEF Kinds
  <1>6. TasksOK'
    BY <1>1, <1>4, <1>5, QuietStays, OneTask
  <1>7. PagesOK'
    BY <1>1, <1>4, GoesOK DEF Places
  <1> QED  BY <1>1, <1>4, <1>6, <1>7, QuietStays DEF Inv

\* layout.sign_out, with and without a session stored.
LEMMA SignOutInv == ASSUME Inv, NEW h \in Handlers, NEW t \in Tabs, SignOut(h, t) PROVE Inv'
  <1>1. Remember(t, None) /\ UNCHANGED <<accounts, owner, live>>
    BY DEF SignOut
  <1>2. Known(None, owner)
    BY DEF Known
  <1>3. CASE Stored(t) = None
    <2>1. GoTo(t, "goto_login") /\ task' = LeftBehind(task, t) /\ UNCHANGED signedOut
      BY <1>3 DEF SignOut
    <2>2. Quiet
      BY <1>1, <2>1 DEF Quiet, Inv, Sets
    <2>3. StoresOK' /\ PagesOK' /\ TasksOK'
      BY <1>1, <1>2, <2>1, <2>2, RemembersOK, GoesOK, LeavesOK DEF Places
    <2> QED  BY <2>2, <2>3, QuietStays DEF Inv
  <1>4. CASE Stored(t) # None
    <2>1. /\ Send(h, t, "logout", Stored(t), None) /\ page' = page
          /\ signedOut' = signedOut \cup ({Stored(t)} \cap live)
      BY <1>4 DEF SignOut
    <2>2. Quiet
      BY <1>1, <2>1 DEF Quiet, Inv, Sets
    <2>3. Known(Stored(t), owner) /\ "logout" \in Kinds \ {"none", "refused"}
      BY PageOf DEF Kinds
    <2>4. TasksOK'
      BY <1>4, <2>1, <2>2, <2>3, SendInv
    <2>5. StoresOK'
      BY <1>1, <1>2, <2>2, RemembersOK
    <2> QED  BY <2>1, <2>2, <2>4, <2>5, QuietStays DEF Inv
  <1> QED  BY <1>3, <1>4

\* A dialog is answered.
LEMMA CloseInv == ASSUME Inv, NEW h \in Handlers, CloseDialog(h) PROVE Inv'
  <1>1. Quiet /\ UNCHANGED <<store, page>> /\ task[h].st = "dialog"
    BY DEF CloseDialog, Quiet, Inv, Sets
  <1>2. CASE task' = [task EXCEPT ![h] = NoTask]
    BY <1>1, <1>2, NothingUnderWay, TaskInv
  <1>3. CASE task' = [task EXCEPT ![h].st = "sent"]
    <2> DEFINE k == [task[h] EXCEPT !.st = "sent"]
    <2>1. /\ k \in TaskType /\ k.st = "sent" /\ k.kind = task[h].kind /\ k.token = task[h].token
          /\ k.tab = task[h].tab /\ k.user = task[h].user
      BY TaskOf DEF TaskType
    <2>2. task' = [task EXCEPT ![h] = k]
      BY <1>3
    <2> HIDE DEF k
    <2>3. TaskOK(k, owner, live, accounts)
      BY <1>1, <2>1, TaskOf DEF TaskOK
    <2> QED  BY <1>1, <2>2, <2>3, TaskInv
  <1> QED  BY <1>2, <1>3 DEF CloseDialog

\* All that a person starts.
LEMMA PersonInv == ASSUME Inv, NEW h \in Handlers, NEW t \in Tabs, PersonStep(h, t) PROVE Inv'
  <1>1. CASE \E p \in {"goto_login", "goto_page", "goto_site"} : Hurry(h, t, p)
    BY <1>1, HurryInv
  <1>2. CASE \E u \in Users : SubmitLogin(h, t, u)
    <2>1. PICK u \in Users : SubmitLogin(h, t, u)
      BY <1>2
    <2>2. Quiet /\ UNCHANGED <<store, page>> /\ Send(h, t, "login", None, u)
      BY <2>1 DEF SubmitLogin, Quiet, Inv, Sets
    <2> QED  BY <2>2, SendInv DEF Kinds, Known
  <1>3. CASE \E u \in Users : ConfirmRemove(h, t, u)
    <2>1. PICK u \in Users : Confirm(h, t, "remove", u, u = StoredUser(t))
      BY <1>3 DEF ConfirmRemove
    <2>2. (u = StoredUser(t)) \in BOOLEAN
      OBVIOUS
    <2> QED  BY <2>1, <2>2, ConfirmInv
  <1>4. CASE ConfirmDelete(h, t) \/ ConfirmRevoke(h, t)
    BY <1>4, ConfirmInv DEF ConfirmDelete, ConfirmRevoke
  <1>5. CASE \/ CreateSite(h, t) \/ CreateToken(h, t) \/ AddUser(h, t) \/ ChangePassword(h, t)
             \/ OnSite(h, t) \/ StartDownload(h, t)
    BY <1>5, StartInv DEF CreateSite, CreateToken, AddUser, ChangePassword, OnSite, StartDownload
  <1> QED  BY <1>1, <1>2, <1>3, <1>4, <1>5, SignOutInv DEF PersonStep

(***************************************************************************)
(* Pages                                                                   *)
(***************************************************************************)
LEMMA VisitInv ==
    ASSUME Inv, NEW t \in Tabs, NEW place \in {"goto_login", "goto_page", "goto_site"}, Visit(t, place)
    PROVE  Inv'
  <1>1. Quiet /\ UNCHANGED store /\ GoTo(t, place) /\ task' = LeftBehind(task, t)
    BY DEF Visit, Quiet, Inv, Sets
  <1>2. PagesOK' /\ TasksOK'
    BY <1>1, GoesOK, LeavesOK DEF Places
  <1> QED  BY <1>1, <1>2, QuietStays DEF Inv

\* What a browser does by itself; a page that is refused at its opening forgets.
LEMMA PageStepInv == ASSUME Inv, NEW t \in Tabs, PageStep(t) PROVE Inv'
  <1>0. signedOut \subseteq Sessions
    BY DEF Inv, Sets
  <1>1. CASE Redirect(t) \/ ShowLogin(t)
    <2>1. Quiet /\ UNCHANGED <<store, task>> /\ \E p \in {"goto_login", "goto_page", "goto_site", "login"} : GoTo(t, p)
      BY <1>0, <1>1 DEF Redirect, ShowLogin, Quiet
    <2>2. PagesOK'
      BY <2>1, GoesOK DEF Places
    <2> QED  BY <2>1, <2>2, QuietStays DEF Inv
  <1>2. ASSUME NEW kind \in Pages, Build(t, kind) PROVE Inv'
    <2> DEFINE p == [at |-> IF kind = "account" THEN "open" ELSE "opening", kind |-> kind, token |-> Stored(t)]
    <2>1. /\ Stored(t) # None /\ page' = [page EXCEPT ![t] = p]
          /\ Quiet /\ UNCHANGED <<store, task>>
      BY <1>0, <1>2 DEF Build, Quiet
    <2>2. Known(Stored(t), owner) /\ Stored(t) \in Sessions \cup {None}
      BY PageOf DEF Known
    <2>3. p \in PageType /\ p.token = Stored(t)
      BY <2>2 DEF PageType, Places
    <2> HIDE DEF p
    <2>4. PageOK(p, owner)
      BY <2>1, <2>2, <2>3 DEF PageOK
    <2>5. PagesOK'
      BY <2>1, <2>3, <2>4 DEF Inv, PagesOK, Quiet
    <2> QED  BY <2>1, <2>5, QuietStays DEF Inv
  <1>3. CASE Opened(t)
    <2> DEFINE p == [page[t] EXCEPT !.at = "open"]
    <2>1. page[t].at = "opening" /\ page' = [page EXCEPT ![t] = p] /\ Quiet /\ UNCHANGED <<store, task>>
      BY <1>0, <1>3 DEF Opened, Quiet
    <2>2. p \in PageType /\ p.token = page[t].token
      BY PageOf DEF PageType, Places
    <2> HIDE DEF p
    <2>3. PageOK(p, owner)
      BY <2>1, <2>2, PageOf DEF PageOK
    <2>4. PagesOK'
      BY <2>1, <2>2, <2>3 DEF Inv, PagesOK, Quiet
    <2> QED  BY <2>1, <2>4, QuietStays DEF Inv
  <1>4. CASE OpenRefused(t)
    <2>1. Remember(t, None) /\ GoTo(t, "goto_login") /\ Quiet /\ UNCHANGED task
      BY <1>0, <1>4 DEF OpenRefused, ReportUnauthorized, Quiet
    <2>2. StoresOK' /\ PagesOK'
      BY <2>1, RemembersOK, GoesOK DEF Known, Places
    <2> QED  BY <2>1, <2>2, QuietStays DEF Inv
  <1> QED  BY <1>1, <1>2, <1>3, <1>4 DEF PageStep

(***************************************************************************)
(* The backend                                                             *)
(***************************************************************************)

\* The answer is there: what the handler does with it is its next step.
LEMMA AnswerOK ==
    ASSUME Inv, NEW h \in Handlers, NEW code \in {"ok", "error", "unauthorized"}, Answer(h, code),
           task[h].st = "sent", task[h].kind = "login" => code = "error",
           Grows(owner, owner', live, live', accounts, accounts'),
           code = "unauthorized" => task[h].token \notin live',
           code = "ok" /\ task[h].kind = "remove" => task[h].user \notin accounts'
    PROVE  TasksOK'
  <1> DEFINE r == [task[h] EXCEPT !.kind = "refused", !.st = "answered", !.user = None, !.mine = FALSE]
             a == [task[h] EXCEPT !.st = "answered"]
  <1>0. task[h] \in TaskType /\ TaskOK(task[h], owner', live', accounts') /\ task[h].kind # "none"
    BY Stays, TaskOf DEF TaskOK
  <1>1. CASE OnlyShown(task[h].kind, code)
    <2>1. task' = [task EXCEPT ![h] = NoTask]
      BY <1>1 DEF Answer
    <2> QED  BY <2>1, NothingUnderWay, OneTask
  <1>2. CASE ~OnlyShown(task[h].kind, code) /\ code = "unauthorized" /\ task[h].kind # "logout"
    <2>1. task' = [task EXCEPT ![h] = r]
      BY <1>2 DEF Answer
    <2>2. /\ r \in TaskType /\ r.kind = "refused" /\ r.st = "answered" /\ r.tab = task[h].tab
          /\ r.token = task[h].token
      BY <1>0 DEF TaskType, Kinds
    <2> HIDE DEF r
    <2>3. TaskOK(r, owner', live', accounts')
      BY <1>0, <1>2, <2>2 DEF TaskOK
    <2> QED  BY <2>1, <2>3, OneTask
  <1>3. CASE ~OnlyShown(task[h].kind, code) /\ ~(code = "unauthorized" /\ task[h].kind # "logout")
    <2>1. task' = [task EXCEPT ![h] = a]
      BY <1>3 DEF Answer
    <2>2. /\ a \in TaskType /\ a.kind = task[h].kind /\ a.st = "answered" /\ a.tab = task[h].tab
          /\ a.token = task[h].token /\ a.user = task[h].user
      BY <1>0 DEF TaskType
    <2> HIDE DEF a
    <2>3. task[h].kind # "login" /\ (task[h].kind = "remove" => code = "ok")
      BY <1>3 DEF OnlyShown
    <2>4. TaskOK(a, owner', live', accounts')
      BY <1>0, <2>2, <2>3 DEF TaskOK
    <2> QED  BY <2>1, <2>4, OneTask
  <1> QED  BY <1>1, <1>2, <1>3

\* A call is done: sessions end, an account goes.
LEMMA ServeInv == ASSUME Inv, NEW h \in Handlers, NEW code \in {"ok", "error"}, Serve(h, code) PROVE Inv'
  <1> DEFINE k == task[h]
             gone == k.kind = "remove" /\ k.user \in accounts /\ accounts # {k.user}
  <1>1. /\ k.st = "sent" /\ k.kind # "login" /\ Answer(h, code) /\ UNCHANGED <<page, store, owner>>
        /\ (k.kind = "remove" /\ ~gone => code = "error")
        /\ accounts' = (IF gone THEN accounts \ {k.user} ELSE accounts)
        /\ signedOut' = signedOut \cap live'
    BY DEF Serve
  <1>2. live' \subseteq live
    BY DEF Serve
  <1>3. Sets'
    BY <1>1, <1>2 DEF Inv, Sets
  <1>4. Grows(owner, owner', live, live', accounts, accounts')
    BY <1>1, <1>2 DEF Grows
  <1>5. code = "ok" /\ k.kind = "remove" => k.user \notin accounts'
    BY <1>1
  <1>6. TasksOK'
    BY <1>1, <1>4, <1>5, AnswerOK
  <1> QED  BY <1>1, <1>3, <1>4, <1>6, Stays DEF Inv

\* A new session was nobody's.
LEMMA IssueInv == ASSUME Inv, NEW h \in Handlers, Issue(h) PROVE Inv'
  <1> USE NoneApart
  <1>0. PICK s \in Sessions : s = NewSession /\ owner[s] = None
    BY DEF Issue, NewSession
  <1> DEFINE k == [task[h] EXCEPT !.st = "answered", !.token = s, !.user = None]
  <1>1. /\ task[h].kind = "login" /\ task[h].user \in accounts
        /\ owner' = [owner EXCEPT ![s] = task[h].user] /\ live' = live \cup {s}
        /\ task' = [task EXCEPT ![h] = k]
        /\ UNCHANGED <<accounts, store, page, signedOut>>
    BY <1>0 DEF Issue
  <1>2. /\ k \in TaskType /\ k.kind = "login" /\ k.st = "answered" /\ k.token = s /\ k.tab = task[h].tab
    BY <1>1, TaskOf DEF TaskType
  <1> HIDE DEF k
  <1>3. owner \in [Sessions -> Users \cup {None}] /\ accounts \subseteq Users
    BY DEF Inv, Sets
  <1>4. Sets'
    BY <1>1, <1>3 DEF Inv, Sets
  <1>5. Grows(owner, owner', live, live', accounts, accounts')
    BY <1>0, <1>1, <1>3 DEF Grows
  <1>6. owner'[s] # None
    BY <1>1, <1>3
  <1>7. TaskOK(k, owner', live', accounts')
    BY <1>1, <1>2, <1>6, TaskOf DEF TaskOK, Known
  <1>8. TasksOK'
    BY <1>1, <1>5, <1>7, OneTask
  <1> QED  BY <1>1, <1>4, <1>5, <1>8, Stays DEF Inv

\* All that the backend answers.
LEMMA BackendStepInv == ASSUME Inv, NEW h \in Handlers, BackendStep(h) PROVE Inv'
  <1>1. CASE Unauthorized(h) \/ Fail(h)
    <2>1. Quiet /\ UNCHANGED <<store, page>> /\ task[h].st = "sent"
      BY <1>1 DEF Unauthorized, Fail, Quiet, Inv, Sets
    <2>2. CASE Unauthorized(h)
      <3>1. Answer(h, "unauthorized") /\ task[h].kind # "login" /\ task[h].token \notin live'
        BY <2>1, <2>2 DEF Unauthorized, Quiet
      <3>2. TasksOK'
        BY <2>1, <3>1, QuietStays, AnswerOK
      <3> QED  BY <2>1, <3>2, QuietStays DEF Inv
    <2>3. CASE Fail(h)
      <3>1. Answer(h, "error")
        BY <2>3 DEF Fail
      <3>2. TasksOK'
        BY <2>1, <3>1, QuietStays, AnswerOK
      <3> QED  BY <2>1, <3>2, QuietStays DEF Inv
    <2> QED  BY <1>1, <2>2, <2>3
  <1> QED  BY <1>1, IssueInv, ServeInv DEF BackendStep

\* A session runs out.
LEMMA ExpireInv == ASSUME Inv, NEW s \in Sessions, Expire(s) PROVE Inv'
  <1>1. live' = live \ {s} /\ UNCHANGED <<accounts, owner, store, page, task>> /\ signedOut' \subseteq Sessions
    BY DEF Expire, Inv, Sets
  <1>2. Sets' /\ Grows(owner, owner', live, live', accounts, accounts')
    BY <1>1 DEF Inv, Sets, Grows
  <1>3. TasksOK'
    BY <1>1, <1>2, Stays DEF Inv, TasksOK
  <1> QED  BY <1>1, <1>2, <1>3, Stays DEF Inv

(***************************************************************************)
(* Handlers after their await                                              *)
(***************************************************************************)
LEMMA RefreshInv ==
    ASSUME Inv, Quiet, UNCHANGED <<store, page>>, NEW h \in Handlers, task[h].kind \in {"change", "remove"}, Refresh(h)
    PROVE  Inv'
  <1> DEFINE k == [task[h] EXCEPT !.kind = "call", !.st = "sent", !.user = None]
  <1>1. /\ k \in TaskType /\ k.kind = "call" /\ k.st = "sent" /\ k.tab = task[h].tab /\ k.token = task[h].token
    BY TaskOf DEF TaskType, Kinds
  <1>2. task' = [task EXCEPT ![h] = k]
    BY DEF Refresh
  <1> HIDE DEF k
  <1>3. TaskOK(k, owner, live, accounts)
    BY <1>1, TaskOf DEF TaskOK
  <1> QED  BY <1>2, <1>3, TaskInv

\* All that a handler does after its answer.
LEMMA HandlerStepInv == ASSUME Inv, NEW h \in Handlers, HandlerStep(h) PROVE Inv'
  <1>0. signedOut \subseteq Sessions /\ TaskOK(task[h], owner, live, accounts)
    BY TaskOf DEF Inv, Sets
  <1>a. task[h].st = "answered" => task[h].tab \in Tabs /\ task[h].kind # "none"
    BY <1>0 DEF TaskOK
  <1>b. task[h].kind = "refused" => task[h].st = "answered"
    BY <1>0 DEF TaskOK
  <1>1. CASE SignedIn(h)
    <2>1. /\ Quiet /\ Remember(task[h].tab, task[h].token) /\ task[h].st = "answered"
          /\ \E p \in {"goto_page", "goto_site"} : EndsAt(h, p)
      BY <1>0, <1>1 DEF SignedIn, Quiet
    <2>2. PagesOK' /\ TasksOK'
      BY <1>a, <2>1, EndsAtOK DEF Places
    <2>3. StoresOK'
      BY <1>0, <1>a, <2>1, RemembersOK DEF TaskOK
    <2> QED  BY <2>1, <2>2, <2>3, QuietStays DEF Inv
  <1>2. CASE SignedOut(h)
    <2>1. Quiet /\ UNCHANGED store /\ task[h].st = "answered" /\ EndsAt(h, "goto_login")
      BY <1>0, <1>2 DEF SignedOut, Quiet
    <2>2. PagesOK' /\ TasksOK'
      BY <1>a, <2>1, EndsAtOK DEF Places
    <2> QED  BY <2>1, <2>2, QuietStays DEF Inv
  <1>3. CASE Refused(h) \/ (Removed(h) /\ task[h].mine)
    <2>1. Quiet /\ Remember(task[h].tab, None) /\ task[h].st = "answered" /\ EndsAt(h, "goto_login")
      BY <1>0, <1>b, <1>3 DEF Refused, ReportUnauthorized, Removed, Quiet
    <2>2. PagesOK' /\ TasksOK'
      BY <1>a, <2>1, EndsAtOK DEF Places
    <2>3. StoresOK'
      BY <1>a, <2>1, RemembersOK DEF Known
    <2> QED  BY <2>1, <2>2, <2>3, QuietStays DEF Inv
  <1>4. CASE Changed(h) \/ (Removed(h) /\ ~task[h].mine)
    BY <1>0, <1>4, RefreshInv DEF Changed, Removed, Quiet
  <1>5. CASE Download(h)
    <2>1. Quiet /\ UNCHANGED <<store, page>> /\ task[h].st = "answered"
      BY <1>0, <1>5 DEF Download, Quiet
    <2>2. CASE Ended(h)
      BY <2>1, <2>2, NothingUnderWay, TaskInv DEF Ended
    <2>3. CASE Stored(task[h].tab) # None /\ Send(h, task[h].tab, "fetch", Stored(task[h].tab), None)
      <3>1. task[h].tab \in Tabs /\ Known(Stored(task[h].tab), owner) /\ "fetch" \in Kinds \ {"none", "refused"}
        BY <1>a, <2>1, PageOf DEF Kinds
      <3> QED  BY <2>1, <2>3, <3>1, SendInv
    <2> QED  BY <1>5, <2>2, <2>3 DEF Download
  <1>6. CASE Abandoned(h)
    BY <1>0, <1>6, NothingUnderWay, TaskInv DEF Abandoned, Ended, Quiet
  <1> QED  BY <1>1, <1>2, <1>3, <1>4, <1>5, <1>6 DEF HandlerStep

\* The invariant is kept by every step.
LEMMA StepInv == Inv /\ [Next]_vars => Inv'
  <1> SUFFICES ASSUME Inv, [Next]_vars PROVE Inv'
    OBVIOUS
  <1>1. CASE UNCHANGED vars
    BY <1>1, QuietStays DEF vars, Quiet, Inv, Sets
  <1>2. CASE \E s \in Sessions : Expire(s)
    BY <1>2, ExpireInv
  <1>3. ASSUME NEW t \in Tabs, PageStep(t) \/ \E p \in {"goto_login", "goto_page", "goto_site"} : Visit(t, p)
        PROVE  Inv'
    BY <1>3, PageStepInv, VisitInv
  <1>4. ASSUME NEW h \in Handlers,
               (\E t \in Tabs : PersonStep(h, t)) \/ CloseDialog(h) \/ BackendStep(h) \/ HandlerStep(h)
        PROVE  Inv'
    BY <1>4, PersonInv, CloseInv, BackendStepInv, HandlerStepInv
  <1> QED  BY <1>1, <1>2, <1>3, <1>4 DEF Next

\* For any number of browsers, tabs, accounts, sessions and handlers: what is stored, shown and
\* asked with has its type.
THEOREM Typed == Spec => []TypeOK
  <1>1. Inv => TypeOK
    BY DEF Inv, Sets, StoresOK, PagesOK, TasksOK, PageType, TaskType, TypeOK
  <1> QED  BY <1>1, InitInv, StepInv, PTL DEF Spec

(***************************************************************************)
(* What makes a browser forget its session.                                *)
(***************************************************************************)
ForCause(b) ==
    store[b] # None /\ store'[b] = None =>
       \/ store[b] \notin live \/ store[b] \in signedOut'
       \/ \E s \in Sessions \ live : RefusedFor(b, s)
       \/ \E h \in Handlers : /\ task[h].st = "answered" /\ BrowserOf(task[h].tab) = b
                              /\ task[h].mine /\ task[h].user \notin accounts

\* Only the store of the tab's browser changes.
LEMMA Elsewhere ==
    ASSUME Inv, NEW t \in Tabs, NEW s, Remember(t, s), NEW b \in Browsers,
           b = BrowserOf(t) => ForCause(b)
    PROVE  ForCause(b)
  BY DEF Inv, StoresOK, Remember, ForCause

\* Every step that forgets a good session has its cause.
LEMMA StepForCause == ASSUME Inv, [Next]_vars, NEW b \in Browsers PROVE ForCause(b)
  <1>0. CASE store' = store
    BY <1>0 DEF ForCause
  <1>1. ASSUME NEW t \in Tabs, OpenRefused(t) PROVE ForCause(b)
    <2>1. page[t].at = "opening" /\ page[t].token \notin live /\ Remember(t, None)
      BY <1>1 DEF OpenRefused, ReportUnauthorized
    <2>2. page[t].token \in Sessions \ live
      BY <2>1, PageOf DEF PageOK, Known
    <2>3. b = BrowserOf(t) => RefusedFor(b, page[t].token)
      BY <2>1 DEF RefusedFor
    <2> QED  BY <2>1, <2>2, <2>3, Elsewhere DEF ForCause
  <1>2. ASSUME NEW h \in Handlers, Refused(h) PROVE ForCause(b)
    <2>1. task[h].kind = "refused" /\ Remember(task[h].tab, None)
      BY <1>2 DEF Refused, ReportUnauthorized
    <2>2. task[h].tab \in Tabs /\ task[h].token \in Sessions \ live
      BY <2>1, TaskOf DEF TaskOK, Known
    <2>3. b = BrowserOf(task[h].tab) => RefusedFor(b, task[h].token)
      BY <2>1 DEF RefusedFor
    <2> QED  BY <2>1, <2>2, <2>3, Elsewhere DEF ForCause
  <1>3. ASSUME NEW h \in Handlers, NEW t \in Tabs, SignOut(h, t) PROVE ForCause(b)
    <2>1. Remember(t, None) /\ (Stored(t) # None => signedOut' = signedOut \cup ({Stored(t)} \cap live))
      BY <1>3 DEF SignOut
    <2>2. b = BrowserOf(t) => ForCause(b)
      BY <2>1 DEF ForCause, Stored
    <2> QED  BY <2>1, <2>2, Elsewhere
  <1>4. ASSUME NEW h \in Handlers, Removed(h) PROVE ForCause(b)
    <2>1. CASE ~task[h].mine
      BY <1>4, <1>0, <2>1 DEF Removed
    <2>2. CASE task[h].mine
      <3>1. task[h].kind = "remove" /\ task[h].st = "answered" /\ Remember(task[h].tab, None)
        BY <1>4, <2>2 DEF Removed
      <3>2. task[h].tab \in Tabs /\ task[h].user \notin accounts
        BY <3>1, TaskOf DEF TaskOK
      <3>3. b = BrowserOf(task[h].tab) => ForCause(b)
        BY <2>2, <3>1, <3>2 DEF ForCause
      <3> QED  BY <3>1, <3>2, <3>3, Elsewhere
    <2> QED  BY <2>1, <2>2
  <1>5. ASSUME NEW h \in Handlers, SignedIn(h) PROVE ForCause(b)
    <2>1. task[h].kind = "login" /\ task[h].st = "answered" /\ Remember(task[h].tab, task[h].token)
      BY <1>5 DEF SignedIn
    <2>2. task[h].tab \in Tabs /\ task[h].token # None
      BY <2>1, TaskOf DEF TaskOK
    <2>3. b = BrowserOf(task[h].tab) => ForCause(b)
      BY <2>1, <2>2 DEF ForCause, Remember, Inv, StoresOK
    <2> QED  BY <2>1, <2>2, <2>3, Elsewhere
  <1>6. \/ store' = store
        \/ \E t \in Tabs : OpenRefused(t) \/ \E h \in Handlers : SignOut(h, t)
        \/ \E h \in Handlers : Refused(h) \/ Removed(h) \/ SignedIn(h)
    <2>1. CASE UNCHANGED vars
      BY <2>1 DEF vars
    <2>2. CASE \E s \in Sessions : Expire(s)
      BY <2>2 DEF Expire
    <2>3. ASSUME NEW h \in Handlers, NEW t \in Tabs, PersonStep(h, t) PROVE store' = store \/ SignOut(h, t)
      BY <2>3 DEF PersonStep, Hurry, SubmitLogin, ConfirmRemove, Confirm, CreateSite, CreateToken, AddUser,
                  ConfirmDelete, ConfirmRevoke, ChangePassword, OnSite, StartDownload, Start
    <2>4. ASSUME NEW t \in Tabs, PageStep(t) \/ \E p \in {"goto_login", "goto_page", "goto_site"} : Visit(t, p)
          PROVE  store' = store \/ OpenRefused(t)
      BY <2>4 DEF PageStep, Redirect, ShowLogin, Build, Opened, Visit
    <2>5. ASSUME NEW h \in Handlers, BackendStep(h) \/ CloseDialog(h) PROVE store' = store
      BY <2>5 DEF BackendStep, Issue, Unauthorized, Serve, Fail, CloseDialog
    <2>6. ASSUME NEW h \in Handlers, HandlerStep(h) PROVE store' = store \/ Refused(h) \/ Removed(h) \/ SignedIn(h)
      BY <2>6 DEF HandlerStep, SignedOut, Changed, Download, Abandoned
    <2> QED  BY <2>1, <2>2, <2>3, <2>4, <2>5, <2>6 DEF Next
  <1> QED  BY <1>0, <1>1, <1>2, <1>3, <1>4, <1>5, <1>6

\* For any number of browsers, tabs, accounts, sessions and handlers, a browser forgets a good
\* session that nobody signed out of only when something begun there with another session, of a
\* page shown or left, is refused because that session is over, or when a dialog that called an
\* account the person's own has removed it.
THEOREM ForgetsForCause == Spec => SignedOutForCause
  <1>1. Inv /\ [Next]_vars => [\A b \in Browsers : ForCause(b)]_vars
    BY StepForCause
  <1>2. Spec => [][\A b \in Browsers : ForCause(b)]_vars
    BY <1>1, InitInv, StepInv, PTL DEF Spec
  <1> QED  BY <1>2 DEF SignedOutForCause, ForCause
=============================================================================
