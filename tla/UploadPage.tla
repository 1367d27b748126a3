---------------------------- MODULE UploadPage ----------------------------
(***************************************************************************)
(* The handlers of one tab's site page, frontend/pages/site.py: uploads of *)
(* several files, replacing and deleting a file, deleting a folder, and    *)
(* the listing each of them refreshes.                                     *)
(*                                                                         *)
(* on_uploads sends a batch's files one after another and awaits each, so  *)
(* the person may tick Overwrite, pick another batch or use a dialog while *)
(* a batch runs; other people change the site meanwhile, and the session   *)
(* may end.  A dialog is modal while it is shown; the person waits for its *)
(* action before they open another.                                        *)
(*                                                                         *)
(* A file's content is who wrote it: a batch, a replacement, or others.    *)
(* The tab's socket is connected throughout, so its storage is there.      *)
(***************************************************************************)
EXTENDS Naturals, Sequences, FiniteSets

CONSTANTS
    Files,        \* the names of files in the folder being viewed
    Batches,      \* bound: the uploads of the tab, each picked once
    MaxPicked,    \* bound: files of each upload
    MaxEvents,    \* bound: clicks on the Overwrite box, dialogs, changes by others and errors, together
    Others, Replacement, None

ASSUME Parameters ==
    /\ IsFiniteSet(Files)
    /\ MaxPicked \in [Batches -> Nat] /\ MaxEvents \in Nat
    /\ {Others, Replacement, None} \cap Batches = {}

VARIABLES
    here,        \* the tab is still on the page
    session,     \* the backend accepts the page's session
    disk,        \* the writer of each file of the folder, or None
    folder,      \* a folder beside them: "none", "empty" or "full"
    overwrite,   \* the Overwrite box
    batch,       \* on_uploads, for each batch
    tab,         \* app.storage.tab: the results of the last upload
    dialog,      \* the dialog of a replacement or a deletion
    wrote,       \* history: the files each batch stored
    events

vars == <<here, session, disk, folder, overwrite, batch, tab, dialog, wrote, events>>

Notes == {"ok", "file_exists", "error", "not_sent"}
Result == [file : Files, note : Notes]
NoBatch == [pc |-> "idle", files |-> <<>>, i |-> 1, over |-> FALSE, reply |-> "none",
            results |-> <<>>]
NoDialog == [kind |-> "none", st |-> "closed", file |-> None, recursive |-> FALSE,
             choice |-> FALSE, reply |-> "none"]
Picks(b) == {fs \in UNION {[1 .. n -> Files] : n \in 1 .. MaxPicked[b]} :
               \A i, j \in DOMAIN fs : i # j => fs[i] # fs[j]}

Init ==
    /\ here = TRUE /\ session = TRUE
    /\ disk = [f \in Files |-> None]
    /\ folder \in {"none", "full"}
    /\ overwrite = FALSE
    /\ batch = [b \in Batches |-> NoBatch]
    /\ tab = <<>>
    /\ dialog = NoDialog
    /\ wrote = [b \in Batches |-> {}]
    /\ events = 0

\* The dialog covers the page: while it asks, and throughout a replacement, which it shows.
Modal == dialog.st = "open" \/ dialog.kind = "replace"

(***************************************************************************)
(* on_uploads                                                              *)
(***************************************************************************)
Pick(b, fs) ==
    /\ here /\ ~Modal /\ batch[b].pc = "idle"
    /\ batch' = [batch EXCEPT ![b] = [NoBatch EXCEPT !.pc = "send", !.files = fs]]
    /\ UNCHANGED <<here, session, disk, folder, overwrite, tab, dialog, wrote, events>>

Tick ==
    /\ here /\ ~Modal /\ events < MaxEvents
    /\ overwrite' = ~overwrite /\ events' = events + 1
    /\ UNCHANGED <<here, session, disk, folder, batch, tab, dialog, wrote>>

\* The box is read as each file is sent.
Send(b) ==
    /\ batch[b].pc = "send"
    /\ batch' = [batch EXCEPT ![b].pc = "sent", ![b].over = overwrite]
    /\ UNCHANGED <<here, session, disk, folder, overwrite, tab, dialog, wrote, events>>

File(b) == batch[b].files[batch[b].i]
Reply(b, code) == batch' = [batch EXCEPT ![b].pc = "answered", ![b].reply = code]
Stored(b) ==
    /\ disk' = [disk EXCEPT ![File(b)] = b]
    /\ wrote' = [wrote EXCEPT ![b] = @ \cup {File(b)}]
MayStore(b) == session /\ (disk[File(b)] = None \/ batch[b].over)

\* The backend's answers: stored, file_exists, 401, or an error that leaves it open (a 500, a
\* timeout after the file was stored).
UploadStored(b) ==
    /\ batch[b].pc = "sent" /\ MayStore(b)
    /\ Stored(b) /\ Reply(b, "ok")
    /\ UNCHANGED <<here, session, folder, overwrite, tab, dialog, events>>

UploadRefused(b) ==
    /\ batch[b].pc = "sent" /\ ~MayStore(b)
    /\ Reply(b, IF session THEN "file_exists" ELSE "unauthorized")
    /\ UNCHANGED <<here, session, disk, folder, overwrite, tab, dialog, wrote, events>>

UploadFails(b) ==
    /\ batch[b].pc = "sent" /\ events < MaxEvents
    /\ \/ MayStore(b) /\ Stored(b)
       \/ UNCHANGED <<disk, wrote>>
    /\ Reply(b, "error")
    /\ events' = events + 1
    /\ UNCHANGED <<here, session, folder, overwrite, tab, dialog>>

\* remember: the tab keeps this batch's results so far.
Remembered(b, results) == batch[b].pc = "answered" /\ tab' = results

Noted(b) == Append(batch[b].results, [file |-> File(b), note |-> batch[b].reply])

\* Mutant: a file that was refused is sent again.
Record_Again(b) ==
    LET done == batch[b].reply = "ok"
    IN  /\ batch[b].reply \in {"ok", "file_exists", "error"}
        /\ Remembered(b, IF done THEN Noted(b) ELSE batch[b].results)
        /\ batch' = [batch EXCEPT ![b].results = tab',
                                  ![b].i = IF done THEN @ + 1 ELSE @, ![b].reply = "none",
                                  ![b].pc = IF done /\ batch[b].i = Len(batch[b].files) THEN "list" ELSE "send"]
        /\ UNCHANGED <<here, session, disk, folder, overwrite, dialog, wrote, events>>

\* Mutant: the tab is told of the files still to come as well, as if they had gone well.
Record_Early(b) ==
    /\ batch[b].reply \in {"ok", "file_exists", "error"}
    /\ Remembered(b, [n \in DOMAIN batch[b].files |-> [file |-> batch[b].files[n], note |-> batch[b].reply]])
    /\ batch' = [batch EXCEPT ![b].results = tab', ![b].i = Len(batch[b].files), ![b].pc = "list"]
    /\ UNCHANGED <<here, session, disk, folder, overwrite, dialog, wrote, events>>

\* The result of a file; then the next one, or the listing.
Record(b) ==
    /\ batch[b].reply \in {"ok", "file_exists", "error"}
    /\ Remembered(b, Noted(b))
    /\ batch' = [batch EXCEPT ![b].results = Noted(b),
                              ![b].i = @ + 1, ![b].reply = "none",
                              ![b].pc = IF batch[b].i = Len(batch[b].files) THEN "list" ELSE "send"]
    /\ UNCHANGED <<here, session, disk, folder, overwrite, dialog, wrote, events>>

NotSent(fs) == [n \in DOMAIN fs |-> [file |-> fs[n], note |-> "not_sent"]]

\* Mutant: every file of the batch is noted as not sent.
Left_All(b) == NotSent(batch[b].files)

\* The files from this one on.
Left(b) == NotSent(SubSeq(batch[b].files, batch[b].i, Len(batch[b].files)))

\* A 401: this file and the rest were not sent; the person is sent to sign in.
Abandon(b) ==
    LET results == batch[b].results \o Left(b)
    IN  /\ batch[b].reply = "unauthorized"
        /\ Remembered(b, results)
        /\ batch' = [batch EXCEPT ![b].results = results, ![b].pc = "done"]
        /\ here' = FALSE
        /\ UNCHANGED <<session, disk, folder, overwrite, dialog, wrote, events>>

\* listing: the entries, or an error; a 401 sends the person to sign in.
Refreshed(b) ==
    /\ batch[b].pc = "list"
    /\ batch' = [batch EXCEPT ![b].pc = "done"]
    /\ here' = (here /\ session)
    /\ UNCHANGED <<session, disk, folder, overwrite, tab, dialog, wrote, events>>

(***************************************************************************)
(* replace_file, delete_file, delete_folder                                *)
(***************************************************************************)
Ask(kind, f) ==
    /\ here /\ dialog.kind = "none" /\ events < MaxEvents
    /\ IF kind = "folder" THEN folder # "none" ELSE disk[f] # None
    /\ dialog' = [NoDialog EXCEPT !.kind = kind, !.st = "open", !.file = f]
    /\ events' = events + 1
    /\ UNCHANGED <<here, session, disk, folder, overwrite, batch, tab, wrote>>

ReplaceFile(f) == Ask("replace", f)
DeleteFile(f)  == Ask("delete", f)
DeleteFolder   == Ask("folder", None)

\* The recursive box of the folder's dialog, the action with what the box says then, and Cancel.
Choose ==
    /\ dialog.st = "open"
    /\ \/ /\ dialog.kind = "folder"
          /\ dialog' = [dialog EXCEPT !.recursive = ~@]
       \/ dialog' = [dialog EXCEPT !.st = "sent", !.choice = dialog.recursive]
       \/ dialog' = NoDialog
    /\ UNCHANGED <<here, session, disk, folder, overwrite, batch, tab, wrote, events>>

Told(code) == dialog' = [dialog EXCEPT !.st = "answered", !.reply = code]

DialogRefused ==
    /\ dialog.st = "sent"
    /\ \/ ~session /\ Told("unauthorized")
       \/ session /\ dialog.kind = "delete" /\ disk[dialog.file] = None /\ Told("error")
       \/ session /\ dialog.kind = "folder" /\ folder = "none" /\ Told("error")
       \/ session /\ dialog.kind = "folder" /\ folder = "full" /\ ~dialog.choice
             /\ Told("folder_not_empty")
    /\ UNCHANGED <<here, session, disk, folder, overwrite, batch, tab, wrote, events>>

DialogEffect ==
    /\ session
    /\ CASE dialog.kind = "replace" ->
                disk' = [disk EXCEPT ![dialog.file] = Replacement] /\ UNCHANGED folder
         [] dialog.kind = "delete" ->
                disk[dialog.file] # None /\ disk' = [disk EXCEPT ![dialog.file] = None] /\ UNCHANGED folder
         [] dialog.kind = "folder" ->
                /\ folder # "none" /\ (folder = "full" => dialog.choice)
                /\ folder' = "none" /\ UNCHANGED disk

DialogDone ==
    /\ dialog.st = "sent"
    /\ DialogEffect /\ Told("ok")
    /\ UNCHANGED <<here, session, overwrite, batch, tab, wrote, events>>

DialogFails ==
    /\ dialog.st = "sent" /\ events < MaxEvents
    /\ DialogEffect \/ UNCHANGED <<disk, folder>>
    /\ Told("error") /\ events' = events + 1
    /\ UNCHANGED <<here, session, overwrite, batch, tab, wrote>>

\* Mutant: a folder that is not empty is asked for again, this time with its contents.
DialogEnds_Insists ==
    /\ dialog.st = "answered"
    /\ CASE dialog.reply = "folder_not_empty" ->
                dialog' = [dialog EXCEPT !.st = "sent", !.choice = TRUE] /\ UNCHANGED here
         [] OTHER -> dialog' = NoDialog /\ UNCHANGED here
    /\ UNCHANGED <<session, disk, folder, overwrite, batch, tab, wrote, events>>

\* After the answer: a problem shown in the dialog, the error report, or the listing.
DialogEnds ==
    /\ dialog.st = "answered"
    /\ CASE \/ dialog.reply = "folder_not_empty"
            \/ dialog.kind = "replace" /\ dialog.reply = "error" ->
                dialog' = [dialog EXCEPT !.st = "open"] /\ UNCHANGED here
         [] dialog.reply = "unauthorized" -> dialog' = NoDialog /\ here' = FALSE
         [] dialog.reply = "ok" -> dialog' = NoDialog /\ here' = (here /\ session)
         [] OTHER -> dialog' = NoDialog /\ UNCHANGED here
    /\ UNCHANGED <<session, disk, folder, overwrite, batch, tab, wrote, events>>

(***************************************************************************)
(* Other people, and the session                                           *)
(***************************************************************************)
OthersChange ==
    /\ events < MaxEvents /\ events' = events + 1
    /\ \/ \E f \in Files, w \in {Others, None} :
             w # disk[f] /\ disk' = [disk EXCEPT ![f] = w] /\ UNCHANGED folder
       \/ \E c \in {"none", "empty", "full"} : c # folder /\ folder' = c /\ UNCHANGED disk
    /\ UNCHANGED <<here, session, overwrite, batch, tab, dialog, wrote>>

SessionEnds ==
    /\ session /\ session' = FALSE
    /\ UNCHANGED <<here, disk, folder, overwrite, batch, tab, dialog, wrote, events>>

BatchStep(b) ==
    \/ Send(b) \/ UploadStored(b) \/ UploadRefused(b) \/ UploadFails(b)
    \/ Record(b) \/ Abandon(b) \/ Refreshed(b)

Next ==
    \/ \E b \in Batches : BatchStep(b) \/ \E fs \in Picks(b) : Pick(b, fs)
    \/ Tick
    \/ \E f \in Files : ReplaceFile(f) \/ DeleteFile(f)
    \/ DeleteFolder
    \/ Choose \/ DialogRefused \/ DialogDone \/ DialogFails \/ DialogEnds
    \/ OthersChange \/ SessionEnds

Spec == Init /\ [][Next]_vars

\* A call is answered or times out, and the event loop resumes the handler that awaits it.
LiveSpec == Spec /\ \A b \in Batches : WF_vars(BatchStep(b))

(***************************************************************************)
(* Properties                                                              *)
(***************************************************************************)
TypeOK ==
    /\ here \in BOOLEAN /\ session \in BOOLEAN /\ overwrite \in BOOLEAN
    /\ disk \in [Files -> Batches \cup {Others, Replacement, None}]
    /\ folder \in {"none", "empty", "full"}
    /\ tab \in Seq(Result)
    /\ \A b \in Batches :
          /\ batch[b].pc \in {"idle", "send", "sent", "answered", "list", "done"}
          /\ batch[b].i \in 1 .. MaxPicked[b] + 1
          /\ batch[b].files \in Seq(Files) /\ batch[b].results \in Seq(Result)
    /\ wrote \in [Batches -> SUBSET Files]
    /\ dialog.kind \in {"none", "replace", "delete", "folder"}

Ended(b) == batch[b].pc \in {"list", "done"}

\* Every picked file gets one result, in the order picked, whichever file the session ends at
\* (site.on_uploads: a result per file).
OneResultEach ==
    \A b \in Batches : Ended(b) =>
       /\ Len(batch[b].results) = Len(batch[b].files)
       /\ \A n \in DOMAIN batch[b].files : batch[b].results[n].file = batch[b].files[n]

\* What a result says is so: a success was stored by this batch, and a file that was refused or
\* not sent was not.  Only an error leaves it open.
ResultsAreTrue ==
    \A b \in Batches : \A n \in DOMAIN batch[b].results :
       LET r == batch[b].results[n]
       IN  /\ r.note = "ok" => r.file \in wrote[b]
           /\ r.note \in {"file_exists", "not_sent"} => r.file \notin wrote[b]

\* This page removes a folder's contents only while the recursive box is ticked, though the
\* folder may have been empty when the dialog opened, filled while the call was under way, or
\* refused once already (site.delete_folder).
ContentsGoByChoice ==
    [][folder = "full" /\ folder' = "none" /\ dialog' # dialog => dialog.recursive]_vars

\* Every upload that is picked ends, with its results told.
BatchEnds == \A b \in Batches : batch[b].pc = "send" ~> batch[b].pc = "done"
=============================================================================
