-------------------------- MODULE UploadPageProofs --------------------------
(***************************************************************************)
(* Proofs about UploadPage for any number of files and of uploads, of any  *)
(* length, and any number of events.                                       *)
(***************************************************************************)
EXTENDS UploadPage, SequenceTheorems, TLAPS

Sending == {"send", "sent", "answered"}
Replies == {"none", "ok", "file_exists", "error", "unauthorized"}
Upload == [pc : {"idle", "send", "sent", "answered", "list", "done"}, files : Seq(Files),
           i : Nat \ {0}, over : BOOLEAN, reply : Replies, results : Seq(Result)]

Typed ==
    /\ batch \in [Batches -> Upload] /\ wrote \in [Batches -> SUBSET Files]
    /\ overwrite \in BOOLEAN

(***************************************************************************)
(* What holds of each upload.                                              *)
(***************************************************************************)

\* Its files are different ones, and each result so far is of the file at its place.
InOrder(b) ==
    /\ \A m, n \in 1 .. Len(batch[b].files) : batch[b].files[m] = batch[b].files[n] => m = n
    /\ \A n \in 1 .. Len(batch[b].results) : batch[b].results[n].file = batch[b].files[n]

\* There is a result for every file before the current one, and at the end for every file.
Counted(b) ==
    /\ batch[b].pc = "idle" => batch[b] = NoBatch /\ wrote[b] = {}
    /\ batch[b].pc \in Sending =>
          batch[b].i \in 1 .. Len(batch[b].files) /\ Len(batch[b].results) = batch[b].i - 1
    /\ Ended(b) => Len(batch[b].results) = Len(batch[b].files)

\* What was stored is a file before the current one, or the current one if the answer says
\* so or leaves it open.
Storing(b) ==
    /\ batch[b].pc \in Sending => \A f \in wrote[b] :
          \E n \in 1 .. batch[b].i :
             /\ f = batch[b].files[n]
             /\ n = batch[b].i => batch[b].pc = "answered" /\ batch[b].reply \in {"ok", "error"}
    /\ batch[b].pc = "answered" /\ batch[b].reply = "ok" => File(b) \in wrote[b]

\* ResultsAreTrue, for one upload.
TrueSoFar(b) ==
    \A n \in 1 .. Len(batch[b].results) :
       /\ batch[b].results[n].note = "ok" => batch[b].results[n].file \in wrote[b]
       /\ batch[b].results[n].note \in {"file_exists", "not_sent"} => batch[b].results[n].file \notin wrote[b]

UploadInv(b) == InOrder(b) /\ Counted(b) /\ Storing(b) /\ TrueSoFar(b)

\* The call under way carries what the recursive box says, which cannot change meanwhile.
Dialogs == [kind : {"none", "replace", "delete", "folder"}, st : {"closed", "open", "sent", "answered"},
            file : Files \cup {None}, recursive : BOOLEAN, choice : BOOLEAN,
            reply : {"none", "ok", "error", "unauthorized", "folder_not_empty"}]

DialogInv ==
    /\ dialog \in Dialogs
    /\ dialog.kind = "none" => dialog.st = "closed"
    /\ dialog.st = "sent" => dialog.choice = dialog.recursive

Inv == Typed /\ DialogInv /\ \A b \in Batches : UploadInv(b)

LEMMA InitInv == Init => Inv
<1> SUFFICES ASSUME Init PROVE Inv
  OBVIOUS
<1>1. /\ NoBatch \in Upload /\ NoBatch.pc = "idle" /\ Len(NoBatch.files) = 0 /\ Len(NoBatch.results) = 0
  BY DEF NoBatch, Upload, Replies
<1>2. NoDialog \in Dialogs /\ NoDialog.st = "closed"
  BY DEF NoDialog, Dialogs
<1>3. Typed /\ DialogInv
  BY <1>1, <1>2 DEF Init, Typed, DialogInv
<1>4. \A b \in Batches : UploadInv(b)
  BY <1>1 DEF Init, UploadInv, InOrder, Counted, Storing, TrueSoFar, Sending, Ended
<1> QED BY <1>3, <1>4 DEF Inv

\* A step about one upload keeps the invariant if it keeps that upload's part of it.
LEMMA OneUpload ==
    ASSUME Inv, NEW b \in Batches, Typed', DialogInv', UploadInv(b)',
           \A c \in Batches \ {b} : batch'[c] = batch[c] /\ wrote'[c] = wrote[c]
    PROVE  Inv'
<1>1. ASSUME NEW c \in Batches \ {b} PROVE UploadInv(c)'
  <2>1. UploadInv(c) /\ batch'[c] = batch[c] /\ wrote'[c] = wrote[c]
    BY <1>1 DEF Inv
  <2>2. InOrder(c)'
    BY <2>1 DEF UploadInv, InOrder
  <2>3. Counted(c)'
    BY <2>1 DEF UploadInv, Counted, Ended
  <2>4. Storing(c)'
    BY <2>1 DEF UploadInv, Storing, File
  <2>5. TrueSoFar(c)'
    BY <2>1 DEF UploadInv, TrueSoFar
  <2> QED BY <2>2, <2>3, <2>4, <2>5 DEF UploadInv
<1> QED BY <1>1 DEF Inv

\* The current file is one of the picked ones.
LEMMA Current ==
    ASSUME Inv, NEW b \in Batches, batch[b].pc \in Sending
    PROVE  /\ batch[b] \in Upload /\ batch[b].i \in 1 .. Len(batch[b].files)
           /\ File(b) = batch[b].files[batch[b].i] /\ File(b) \in Files
<1>1. batch[b] \in Upload
  BY DEF Inv, Typed
<1>2. batch[b].i \in 1 .. Len(batch[b].files) /\ batch[b].files \in Seq(Files)
  BY <1>1 DEF Inv, UploadInv, Counted, Upload
<1> QED BY <1>1, <1>2 DEF File

LEMMA PickInv ==
    ASSUME Inv, NEW b \in Batches, NEW fs \in Picks(b), Pick(b, fs)
    PROVE  Inv'
<1> DEFINE new == [NoBatch EXCEPT !.pc = "send", !.files = fs]
<1>1. PICK n \in 1 .. MaxPicked[b] : fs \in [1 .. n -> Files]
  BY DEF Picks
<1>2. MaxPicked[b] \in Nat /\ n \in Nat /\ n >= 1
  BY <1>1, Parameters
<1>3. fs \in Seq(Files) /\ Len(fs) = n /\ DOMAIN fs = 1 .. n
  BY <1>1, <1>2
<1>4. \A k, m \in 1 .. Len(fs) : fs[k] = fs[m] => k = m
  BY <1>3 DEF Picks
<1>5. /\ new \in Upload /\ new.pc = "send" /\ new.files = fs /\ new.i = 1 /\ new.results = <<>>
  <2>1. NoBatch \in Upload /\ NoBatch.i = 1 /\ NoBatch.results = <<>>
    BY DEF NoBatch, Upload, Replies
  <2> QED BY <1>3, <2>1 DEF Upload
<1>6. batch' = [batch EXCEPT ![b] = new] /\ UNCHANGED <<dialog, wrote, overwrite>> /\ batch[b].pc = "idle"
  BY DEF Pick
<1> HIDE DEF new
<1>7. batch' \in [Batches -> Upload] /\ batch'[b] = new /\ \A c \in Batches \ {b} : batch'[c] = batch[c]
  BY <1>5, <1>6 DEF Inv, Typed
<1>8. Typed' /\ DialogInv'
  BY <1>6, <1>7 DEF Inv, Typed, DialogInv
<1>9. wrote'[b] = {}
  BY <1>6 DEF Inv, UploadInv, Counted
<1>10. InOrder(b)'
  BY <1>4, <1>5, <1>7 DEF InOrder
<1>11. Counted(b)'
  BY <1>2, <1>3, <1>5, <1>7 DEF Counted, Ended, Sending
<1>12. Storing(b)' /\ TrueSoFar(b)'
  BY <1>5, <1>7, <1>9 DEF Storing, TrueSoFar
<1> QED BY <1>6, <1>7, <1>8, <1>10, <1>11, <1>12, OneUpload DEF UploadInv

LEMMA SendInv ==
    ASSUME Inv, NEW b \in Batches, Send(b)
    PROVE  Inv'
<1> DEFINE new == [batch[b] EXCEPT !.pc = "sent", !.over = overwrite]
<1>1. batch[b].pc = "send" /\ UNCHANGED <<dialog, wrote, overwrite>>
  BY DEF Send
<1>2. batch[b] \in Upload /\ overwrite \in BOOLEAN
  BY DEF Inv, Typed
<1>3. /\ new \in Upload /\ new.pc = "sent" /\ new.files = batch[b].files /\ new.i = batch[b].i
      /\ new.reply = batch[b].reply /\ new.results = batch[b].results
  BY <1>2 DEF Upload
<1>4. batch' = [batch EXCEPT ![b] = new]
  BY DEF Send
<1> HIDE DEF new
<1>5. batch' \in [Batches -> Upload] /\ batch'[b] = new /\ \A c \in Batches \ {b} : batch'[c] = batch[c]
  BY <1>3, <1>4 DEF Inv, Typed
<1>6. Typed' /\ DialogInv'
  BY <1>1, <1>5 DEF Inv, Typed, DialogInv
<1>7. UploadInv(b)
  BY DEF Inv
<1>8. InOrder(b)'
  BY <1>3, <1>5, <1>7 DEF UploadInv, InOrder
<1>9. Counted(b)'
  BY <1>1, <1>3, <1>5, <1>7 DEF UploadInv, Counted, Ended, Sending
<1>10. Storing(b)'
  BY <1>1, <1>3, <1>5, <1>7 DEF UploadInv, Storing, Sending
<1>11. TrueSoFar(b)'
  BY <1>1, <1>3, <1>5, <1>7 DEF UploadInv, TrueSoFar
<1> QED BY <1>1, <1>5, <1>6, <1>8, <1>9, <1>10, <1>11, OneUpload DEF UploadInv

\* An answer, with the file stored or not: a success only if it was, a refusal only if not.
LEMMA ReplyInv ==
    ASSUME Inv, NEW b \in Batches, batch[b].pc = "sent", NEW code \in Replies, Reply(b, code),
           UNCHANGED <<dialog, overwrite>>,
           \/ Stored(b) /\ code \in {"ok", "error"}
           \/ UNCHANGED wrote /\ code # "ok"
    PROVE  Inv'
<1> DEFINE new == [batch[b] EXCEPT !.pc = "answered", !.reply = code]
<1>1. batch[b] \in Upload /\ batch[b].i \in 1 .. Len(batch[b].files)
      /\ File(b) = batch[b].files[batch[b].i] /\ File(b) \in Files
  BY Current DEF Sending
<1>2. /\ new \in Upload /\ new.pc = "answered" /\ new.files = batch[b].files /\ new.i = batch[b].i
      /\ new.reply = code /\ new.results = batch[b].results
  BY <1>1 DEF Upload
<1>3. batch' = [batch EXCEPT ![b] = new]
  BY DEF Reply
<1> HIDE DEF new
<1>4. batch' \in [Batches -> Upload] /\ batch'[b] = new /\ \A c \in Batches \ {b} : batch'[c] = batch[c]
  BY <1>2, <1>3 DEF Inv, Typed
<1>5. /\ wrote' \in [Batches -> SUBSET Files] /\ \A c \in Batches \ {b} : wrote'[c] = wrote[c]
      /\ \/ wrote'[b] = wrote[b] \cup {File(b)} /\ code \in {"ok", "error"}
         \/ wrote'[b] = wrote[b] /\ code # "ok"
  BY <1>1 DEF Inv, Typed, Stored
<1>6. Typed' /\ DialogInv'
  BY <1>4, <1>5 DEF Inv, Typed, DialogInv
<1>7. InOrder(b)' /\ Counted(b)'
  <2>1. /\ batch'[b].files = batch[b].files /\ batch'[b].results = batch[b].results
        /\ batch'[b].i = batch[b].i /\ batch'[b].pc = "answered"
    BY <1>2, <1>4
  <2>2. InOrder(b) /\ Len(batch[b].results) = batch[b].i - 1
    BY DEF Inv, UploadInv, Counted, Sending
  <2>3. InOrder(b)'
    BY <2>1, <2>2 DEF InOrder
  <2>4. Counted(b)'
    BY <1>1, <2>1, <2>2 DEF Counted, Ended, Sending
  <2> QED BY <2>3, <2>4
<1>8. Storing(b)'
  <2>1. File(b)' = File(b)
    BY <1>2, <1>4 DEF File
  <2>2. ASSUME NEW f \in wrote'[b]
        PROVE  \E n \in 1 .. new.i : f = new.files[n] /\ (n = new.i => code \in {"ok", "error"})
    <3>1. CASE f = File(b) /\ code \in {"ok", "error"}
      BY <1>1, <1>2, <3>1 DEF Upload
    <3>2. CASE f \in wrote[b]
      <4>1. PICK n \in 1 .. batch[b].i : f = batch[b].files[n] /\ n # batch[b].i
        BY <3>2 DEF Inv, UploadInv, Storing, Sending
      <4> QED BY <1>2, <4>1
    <3> QED BY <1>5, <3>1, <3>2
  <2> QED BY <1>2, <1>4, <1>5, <2>1, <2>2 DEF Storing
<1>9. TrueSoFar(b)'
  <2>1. ASSUME NEW n \in 1 .. Len(batch[b].results) PROVE batch[b].results[n].file # File(b)
    <3>1. /\ Len(batch[b].results) = batch[b].i - 1
          /\ batch[b].results[n].file = batch[b].files[n]
      BY DEF Inv, UploadInv, Counted, InOrder, Sending
    <3>2. n \in 1 .. Len(batch[b].files) /\ n # batch[b].i
      BY <1>1, <3>1 DEF Upload
    <3> QED BY <1>1, <3>1, <3>2 DEF Inv, UploadInv, InOrder
  <2> QED BY <1>2, <1>4, <1>5, <2>1 DEF Inv, UploadInv, TrueSoFar
<1> QED BY <1>4, <1>5, <1>6, <1>7, <1>8, <1>9, OneUpload DEF UploadInv

LEMMA AnsweredInv ==
    ASSUME Inv, NEW b \in Batches, UploadStored(b) \/ UploadRefused(b) \/ UploadFails(b)
    PROVE  Inv'
<1>1. CASE UploadStored(b)
  BY <1>1, ReplyInv DEF UploadStored, Replies
<1>2. CASE UploadRefused(b)
  <2> DEFINE code == IF session THEN "file_exists" ELSE "unauthorized"
  <2>1. code \in Replies /\ code # "ok"
    BY DEF Replies
  <2>2. Reply(b, code) /\ batch[b].pc = "sent" /\ UNCHANGED <<dialog, overwrite, wrote>>
    BY <1>2 DEF UploadRefused
  <2> HIDE DEF code
  <2> QED BY <2>1, <2>2, ReplyInv
<1>3. CASE UploadFails(b)
  <2>1. /\ Reply(b, "error") /\ batch[b].pc = "sent" /\ UNCHANGED <<dialog, overwrite>>
        /\ Stored(b) \/ UNCHANGED wrote
    BY <1>3 DEF UploadFails
  <2>2. "error" \in Replies
    BY DEF Replies
  <2> QED BY <2>1, <2>2, ReplyInv
<1> QED BY <1>1, <1>2, <1>3

\* The result of a file is noted once, behind those of the files before it.
LEMMA RecordInv ==
    ASSUME Inv, NEW b \in Batches, Record(b)
    PROVE  Inv'
<1> DEFINE fs == batch[b].files
           rs == batch[b].results
           i  == batch[b].i
           r  == [file |-> File(b), note |-> batch[b].reply]
           pc == IF i = Len(fs) THEN "list" ELSE "send"
           new == [batch[b] EXCEPT !.results = Noted(b), !.i = i + 1, !.reply = "none", !.pc = pc]
<1>1. /\ batch[b].reply \in {"ok", "file_exists", "error"} /\ batch[b].pc = "answered"
      /\ UNCHANGED <<dialog, wrote, overwrite>>
  BY DEF Record, Remembered
<1>2. batch' = [batch EXCEPT ![b] = new]
  BY DEF Record
<1>3. batch[b] \in Upload /\ i \in 1 .. Len(fs) /\ File(b) = fs[i] /\ File(b) \in Files
  BY <1>1, Current DEF Sending
<1>4. UploadInv(b) /\ Len(rs) = i - 1 /\ fs \in Seq(Files) /\ rs \in Seq(Result) /\ i \in Nat
  BY <1>1, <1>3 DEF Inv, UploadInv, Counted, Sending, Upload
<1>5. r \in Result
  BY <1>1, <1>3 DEF Result, Notes
<1> HIDE DEF r
<1>6. /\ Noted(b) \in Seq(Result) /\ Len(Noted(b)) = i /\ Noted(b)[i] = r
      /\ \A n \in 1 .. i - 1 : Noted(b)[n] = rs[n]
  <2>1. Noted(b) = Append(rs, r)
    BY DEF Noted, r
  <2> HIDE DEF rs, i
  <2> QED BY <1>4, <1>5, <2>1
<1>7. /\ new \in Upload /\ new.pc = pc /\ new.files = fs /\ new.i = i + 1
      /\ new.reply = "none" /\ new.results = Noted(b)
  <2>1. pc \in {"list", "send"} /\ i + 1 \in Nat \ {0} /\ "none" \in Replies
    BY <1>4 DEF Replies
  <2> HIDE DEF pc
  <2> QED BY <1>3, <1>6, <2>1 DEF Upload
<1> HIDE DEF new
<1>8. batch' \in [Batches -> Upload] /\ batch'[b] = new /\ \A c \in Batches \ {b} : batch'[c] = batch[c]
  BY <1>2, <1>7 DEF Inv, Typed
<1>9. Typed' /\ DialogInv'
  BY <1>1, <1>8 DEF Inv, Typed, DialogInv
<1>10. r.file = fs[i] /\ r.note = batch[b].reply
  BY <1>3 DEF r
<1>11. InOrder(b)'
  <2>1. \A n \in 1 .. i : Noted(b)[n].file = fs[n]
    <3>1. \A n \in 1 .. i - 1 : rs[n].file = fs[n]
      BY <1>4 DEF UploadInv, InOrder
    <3>2. i \in Nat /\ (\A n \in 1 .. i - 1 : Noted(b)[n] = rs[n]) /\ Noted(b)[i].file = fs[i]
      BY <1>4, <1>6, <1>10
    <3> HIDE DEF fs, i, rs
    <3>3. \A n \in 1 .. i : n = i \/ n \in 1 .. i - 1
      BY <3>2
    <3> QED BY <3>1, <3>2, <3>3
  <2>2. batch'[b].files = fs /\ batch'[b].results = Noted(b) /\ Len(Noted(b)) = i
    BY <1>6, <1>7, <1>8
  <2>3. \A m, n \in 1 .. Len(fs) : fs[m] = fs[n] => m = n
    BY <1>4 DEF UploadInv, InOrder
  <2> HIDE DEF fs, i
  <2> QED BY <2>1, <2>2, <2>3 DEF InOrder
<1>12. Counted(b)'
  <2>1. i = Len(fs) \/ i + 1 \in 1 .. Len(fs)
    <3>1. i \in 1 .. Len(fs) /\ fs \in Seq(Files)
      BY <1>3, <1>4
    <3>2. Len(fs) \in Nat
      BY <3>1
    <3> HIDE DEF fs, i
    <3> QED BY <3>1, <3>2
  <2>2. /\ batch'[b].files = fs /\ Len(batch'[b].results) = i /\ batch'[b].i = i + 1
        /\ batch'[b].pc = pc
    BY <1>6, <1>7, <1>8
  <2> HIDE DEF fs, i
  <2> QED BY <1>4, <2>1, <2>2 DEF Counted, Ended, Sending
<1>13. Storing(b)'
  <2>1. ASSUME NEW f \in wrote[b] PROVE \E n \in 1 .. i + 1 : f = fs[n] /\ n # i + 1
    <3>1. PICK n \in 1 .. i : f = fs[n]
      BY <1>1, <1>4 DEF UploadInv, Storing, Sending
    <3> QED BY <1>4, <3>1
  <2> QED BY <1>1, <1>7, <1>8, <2>1 DEF Storing
<1>14. TrueSoFar(b)'
  <2>1. ASSUME NEW n \in 1 .. i
        PROVE  /\ Noted(b)[n].note = "ok" => Noted(b)[n].file \in wrote[b]
               /\ Noted(b)[n].note \in {"file_exists", "not_sent"} => Noted(b)[n].file \notin wrote[b]
    <3>1. CASE n = i
      <4>1. batch[b].reply = "ok" => fs[i] \in wrote[b]
        BY <1>1, <1>3, <1>4 DEF UploadInv, Storing
      <4>2. batch[b].reply = "file_exists" => fs[i] \notin wrote[b]
        <5> SUFFICES ASSUME batch[b].reply = "file_exists", fs[i] \in wrote[b] PROVE FALSE
          OBVIOUS
        <5>1. PICK m \in 1 .. i : fs[i] = fs[m] /\ m # i
          BY <1>1, <1>4 DEF UploadInv, Storing, Sending
        <5>2. m \in 1 .. Len(fs)
          BY <1>3, <1>4
        <5> QED BY <1>3, <1>4, <5>1, <5>2 DEF UploadInv, InOrder
      <4> QED BY <1>1, <1>6, <1>10, <3>1, <4>1, <4>2
    <3>2. CASE n # i
      <4>1. n \in 1 .. Len(rs) /\ Noted(b)[n] = rs[n]
        BY <1>4, <1>6, <3>2
      <4> QED BY <1>4, <4>1 DEF UploadInv, TrueSoFar
    <3> QED BY <3>1, <3>2
  <2> QED BY <1>1, <1>6, <1>7, <1>8, <2>1 DEF TrueSoFar
<1> QED BY <1>1, <1>8, <1>9, <1>11, <1>12, <1>13, <1>14, OneUpload DEF UploadInv

\* At a 401 the rest of the files is noted as not sent, from the current one on.
LEMMA AbandonInv ==
    ASSUME Inv, NEW b \in Batches, Abandon(b)
    PROVE  Inv'
<1> DEFINE fs == batch[b].files
           rs == batch[b].results
           i  == batch[b].i
           rest == SubSeq(fs, i, Len(fs))
           all == rs \o Left(b)
           new == [batch[b] EXCEPT !.results = all, !.pc = "done"]
<1>1. /\ batch[b].reply = "unauthorized" /\ batch[b].pc = "answered"
      /\ UNCHANGED <<dialog, wrote, overwrite>>
  BY DEF Abandon, Remembered
<1>2. batch' = [batch EXCEPT ![b] = new]
  BY DEF Abandon
<1>3. batch[b] \in Upload /\ i \in 1 .. Len(fs) /\ File(b) = fs[i] /\ File(b) \in Files
  BY <1>1, Current DEF Sending
<1>4. UploadInv(b) /\ Len(rs) = i - 1 /\ fs \in Seq(Files) /\ rs \in Seq(Result) /\ i \in Nat
  BY <1>1, <1>3 DEF Inv, UploadInv, Counted, Sending, Upload
<1>5. /\ rest \in Seq(Files) /\ Len(rest) = Len(fs) - i + 1
      /\ \A n \in 1 .. Len(fs) - i + 1 : rest[n] = fs[i + n - 1]
  <2>1. \A n \in i .. Len(fs) : fs[n] \in Files
    BY <1>3, <1>4
  <2>2. i \in Int /\ Len(fs) \in Int /\ i <= Len(fs)
    BY <1>3, <1>4
  <2> HIDE DEF fs, i
  <2> QED BY <2>1, <2>2, SubSeqProperties
<1>6. /\ Left(b) \in Seq(Result) /\ Len(Left(b)) = Len(fs) - i + 1
      /\ \A n \in 1 .. Len(fs) - i + 1 : Left(b)[n].file = fs[i + n - 1] /\ Left(b)[n].note = "not_sent"
  <2>1. Left(b) = [n \in 1 .. Len(rest) |-> [file |-> rest[n], note |-> "not_sent"]]
    BY <1>5 DEF Left, NotSent
  <2> HIDE DEF rest, fs, i
  <2>2. \A n \in 1 .. Len(rest) : [file |-> rest[n], note |-> "not_sent"] \in Result
    BY <1>5 DEF Result, Notes
  <2>3. Len(rest) \in Nat
    BY <1>5
  <2>4. Left(b) \in [1 .. Len(rest) -> Result]
    BY <2>1, <2>2
  <2>5. Left(b) \in Seq(Result) /\ Len(Left(b)) = Len(rest)
    BY <2>3, <2>4
  <2> QED BY <1>5, <2>1, <2>5
<1>7. /\ all \in Seq(Result) /\ Len(all) = Len(fs)
      /\ \A n \in 1 .. i - 1 : all[n] = rs[n]
      /\ \A n \in i .. Len(fs) : all[n].file = fs[n] /\ all[n].note = "not_sent"
  <2>1. /\ all \in Seq(Result) /\ Len(all) = Len(rs) + Len(Left(b))
        /\ \A n \in 1 .. Len(rs) + Len(Left(b)) :
              all[n] = IF n <= Len(rs) THEN rs[n] ELSE Left(b)[n - Len(rs)]
    <3> HIDE DEF rs
    <3> QED BY <1>4, <1>6, ConcatProperties
  <2>0. Len(fs) \in Nat /\ Len(rs) \in Nat
    BY <1>4
  <2> HIDE DEF all, fs, rs, i
  <2>2. Len(all) = Len(fs)
    BY <1>3, <1>4, <1>6, <2>0, <2>1
  <2>3. ASSUME NEW n \in i .. Len(fs) PROVE all[n].file = fs[n] /\ all[n].note = "not_sent"
    <3>1. n - Len(rs) \in 1 .. Len(fs) - i + 1 /\ ~(n <= Len(rs)) /\ i + (n - Len(rs)) - 1 = n
          /\ n \in 1 .. Len(rs) + Len(Left(b))
      BY <1>3, <1>4, <1>6, <2>0
    <3> QED BY <1>6, <2>1, <3>1
  <2>4. ASSUME NEW n \in 1 .. i - 1 PROVE all[n] = rs[n]
    <3>1. n \in 1 .. Len(rs) + Len(Left(b)) /\ n <= Len(rs)
      BY <1>3, <1>4, <1>6, <2>0
    <3> QED BY <2>1, <3>1
  <2> QED BY <2>1, <2>2, <2>3, <2>4
<1> HIDE DEF all
<1>8. new \in Upload /\ new.pc = "done" /\ new.files = fs /\ new.results = all
  BY <1>3, <1>7 DEF Upload
<1> HIDE DEF new
<1>9. batch' \in [Batches -> Upload] /\ batch'[b] = new /\ \A c \in Batches \ {b} : batch'[c] = batch[c]
  BY <1>2, <1>8 DEF Inv, Typed
<1>10. Typed' /\ DialogInv'
  BY <1>1, <1>9 DEF Inv, Typed, DialogInv
<1>11. InOrder(b)'
  <2>1. \A n \in 1 .. Len(fs) : all[n].file = fs[n]
    <3> SUFFICES ASSUME NEW n \in 1 .. Len(fs) PROVE all[n].file = fs[n]
      OBVIOUS
    <3>1. n \in 1 .. i - 1 \/ n \in i .. Len(fs)
      BY <1>3, <1>4
    <3> QED BY <1>4, <1>7, <3>1 DEF UploadInv, InOrder
  <2> QED BY <1>4, <1>7, <1>8, <1>9, <2>1 DEF UploadInv, InOrder
<1>12. Counted(b)' /\ Storing(b)'
  BY <1>7, <1>8, <1>9 DEF Counted, Ended, Sending, Storing
<1>13. TrueSoFar(b)'
  <2>1. ASSUME NEW n \in 1 .. Len(fs)
        PROVE  /\ all[n].note = "ok" => all[n].file \in wrote[b]
               /\ all[n].note \in {"file_exists", "not_sent"} => all[n].file \notin wrote[b]
    <3>1. CASE n \in 1 .. i - 1
      BY <1>4, <1>7, <3>1 DEF UploadInv, TrueSoFar
    <3>2. CASE n \in i .. Len(fs)
      <4> SUFFICES ASSUME fs[n] \in wrote[b] PROVE FALSE
        BY <1>7, <3>2
      <4>1. PICK m \in 1 .. i : fs[n] = fs[m] /\ m # i
        BY <1>1, <1>4 DEF UploadInv, Storing, Sending
      <4>2. m \in 1 .. Len(fs) /\ m # n
        BY <1>3, <1>4, <3>2, <4>1
      <4> QED BY <1>4, <4>1, <4>2 DEF UploadInv, InOrder
    <3> QED BY <1>3, <1>4, <3>1, <3>2
  <2> QED BY <1>1, <1>7, <1>8, <1>9, <2>1 DEF TrueSoFar
<1> QED BY <1>1, <1>9, <1>10, <1>11, <1>12, <1>13, OneUpload DEF UploadInv

LEMMA RefreshedInv ==
    ASSUME Inv, NEW b \in Batches, Refreshed(b)
    PROVE  Inv'
<1> DEFINE new == [batch[b] EXCEPT !.pc = "done"]
<1>1. batch[b].pc = "list" /\ UNCHANGED <<dialog, wrote, overwrite>> /\ batch' = [batch EXCEPT ![b] = new]
  BY DEF Refreshed
<1>2. batch[b] \in Upload /\ UploadInv(b)
  BY DEF Inv, Typed
<1>3. /\ new \in Upload /\ new.pc = "done" /\ new.files = batch[b].files /\ new.results = batch[b].results
  BY <1>2 DEF Upload
<1> HIDE DEF new
<1>4. batch' \in [Batches -> Upload] /\ batch'[b] = new /\ \A c \in Batches \ {b} : batch'[c] = batch[c]
  BY <1>1, <1>3 DEF Inv, Typed
<1>5. Typed' /\ DialogInv'
  BY <1>1, <1>4 DEF Inv, Typed, DialogInv
<1>6. InOrder(b)'
  BY <1>2, <1>3, <1>4 DEF UploadInv, InOrder
<1>7. Counted(b)' /\ Storing(b)'
  BY <1>1, <1>2, <1>3, <1>4 DEF UploadInv, Counted, Storing, Ended, Sending
<1>8. TrueSoFar(b)'
  BY <1>1, <1>2, <1>3, <1>4 DEF UploadInv, TrueSoFar
<1> QED BY <1>1, <1>4, <1>5, <1>6, <1>7, <1>8, OneUpload DEF UploadInv

(***************************************************************************)
(* The dialogs                                                             *)
(***************************************************************************)

\* A step that leaves the uploads alone.
LEMMA UploadsKept ==
    ASSUME Inv, UNCHANGED <<batch, wrote>>, overwrite' \in BOOLEAN, DialogInv'
    PROVE  Inv'
<1>1. Typed'
  BY DEF Inv, Typed
<1>2. ASSUME NEW b \in Batches PROVE UploadInv(b)'
  <2>1. UploadInv(b)
    BY DEF Inv
  <2>2. InOrder(b)' /\ Counted(b)'
    BY <2>1 DEF UploadInv, InOrder, Counted, Ended
  <2>3. Storing(b)' /\ TrueSoFar(b)'
    BY <2>1 DEF UploadInv, Storing, TrueSoFar, File
  <2> QED BY <2>2, <2>3 DEF UploadInv
<1> QED BY <1>1, <1>2 DEF Inv

\* A dialog that is shown, sent or answered carries the choice of its box while it is sent.
LEMMA DialogSteps ==
    ASSUME DialogInv,
           \/ \E k \in {"replace", "delete", "folder"}, f \in Files \cup {None} : Ask(k, f)
           \/ Choose \/ DialogRefused \/ DialogDone \/ DialogFails \/ DialogEnds
    PROVE  DialogInv'
<1>0. dialog \in Dialogs /\ NoDialog \in Dialogs /\ NoDialog.st = "closed"
  BY DEF DialogInv, NoDialog, Dialogs
<1>1. ASSUME dialog' = NoDialog PROVE DialogInv'
  BY <1>0, <1>1 DEF DialogInv
<1>2. ASSUME NEW k \in {"replace", "delete", "folder"}, NEW f \in Files \cup {None}, Ask(k, f) PROVE DialogInv'
  <2> DEFINE new == [NoDialog EXCEPT !.kind = k, !.st = "open", !.file = f]
  <2>1. new \in Dialogs /\ new.st = "open" /\ new.kind # "none"
    BY <1>0 DEF Dialogs
  <2>2. dialog' = new
    BY <1>2 DEF Ask
  <2> HIDE DEF new
  <2> QED BY <2>1, <2>2 DEF DialogInv
<1>3. ASSUME NEW code \in {"none", "ok", "error", "unauthorized", "folder_not_empty"}, Told(code),
             dialog.st = "sent"
      PROVE  DialogInv'
  <2> DEFINE new == [dialog EXCEPT !.st = "answered", !.reply = code]
  <2>1. new \in Dialogs /\ new.st = "answered" /\ new.kind # "none"
    BY <1>0, <1>3 DEF Dialogs, DialogInv
  <2>2. dialog' = new
    BY <1>3 DEF Told
  <2> HIDE DEF new
  <2> QED BY <2>1, <2>2 DEF DialogInv
<1>4. ASSUME Choose PROVE DialogInv'
  <2>1. ASSUME dialog' = [dialog EXCEPT !.recursive = ~@], dialog.st = "open" PROVE DialogInv'
    <3> DEFINE new == [dialog EXCEPT !.recursive = ~@]
    <3>1. new \in Dialogs /\ new.st = "open" /\ new.kind # "none"
      BY <1>0, <2>1 DEF Dialogs, DialogInv
    <3>2. dialog' = new
      BY <2>1
    <3> HIDE DEF new
    <3> QED BY <3>1, <3>2 DEF DialogInv
  <2>2. ASSUME dialog' = [dialog EXCEPT !.st = "sent", !.choice = dialog.recursive], dialog.st = "open"
        PROVE  DialogInv'
    <3> DEFINE new == [dialog EXCEPT !.st = "sent", !.choice = dialog.recursive]
    <3>1. new \in Dialogs /\ new.choice = new.recursive /\ new.kind # "none"
      BY <1>0, <2>2 DEF Dialogs, DialogInv
    <3>2. dialog' = new
      BY <2>2
    <3> HIDE DEF new
    <3> QED BY <3>1, <3>2 DEF DialogInv
  <2> QED BY <1>1, <1>4, <2>1, <2>2 DEF Choose
<1>5. ASSUME DialogEnds PROVE DialogInv'
  <2>1. ASSUME dialog' = [dialog EXCEPT !.st = "open"], dialog.st = "answered" PROVE DialogInv'
    <3> DEFINE new == [dialog EXCEPT !.st = "open"]
    <3>1. new \in Dialogs /\ new.st = "open" /\ new.kind # "none"
      BY <1>0, <2>1 DEF Dialogs, DialogInv
    <3>2. dialog' = new
      BY <2>1
    <3> HIDE DEF new
    <3> QED BY <3>1, <3>2 DEF DialogInv
  <2>2. (dialog' = [dialog EXCEPT !.st = "open"] \/ dialog' = NoDialog) /\ dialog.st = "answered"
    BY <1>5 DEF DialogEnds
  <2> QED BY <1>1, <2>1, <2>2
<1> QED BY <1>2, <1>3, <1>4, <1>5 DEF DialogRefused, DialogDone, DialogFails

\* Every step keeps the invariant.
LEMMA NextInv == Inv /\ [Next]_vars => Inv'
<1> SUFFICES ASSUME Inv, [Next]_vars PROVE Inv'
  OBVIOUS
<1>1. ASSUME UNCHANGED <<batch, wrote, dialog>>, overwrite' \in BOOLEAN PROVE Inv'
  BY <1>1, UploadsKept DEF Inv, DialogInv
<1>2. CASE UNCHANGED vars
  BY <1>1, <1>2 DEF vars, Inv, Typed
<1>3. CASE Tick \/ OthersChange \/ SessionEnds
  <2>1. UNCHANGED <<batch, wrote, dialog>> /\ overwrite' \in BOOLEAN
    BY <1>3 DEF Tick, OthersChange, SessionEnds, Inv, Typed
  <2> QED BY <1>1, <2>1
<1>4. CASE \/ \E f \in Files : ReplaceFile(f) \/ DeleteFile(f)
           \/ DeleteFolder \/ Choose \/ DialogRefused \/ DialogDone \/ DialogFails \/ DialogEnds
  <2>1. \/ \E k \in {"replace", "delete", "folder"}, f \in Files \cup {None} : Ask(k, f)
        \/ Choose \/ DialogRefused \/ DialogDone \/ DialogFails \/ DialogEnds
    BY <1>4 DEF ReplaceFile, DeleteFile, DeleteFolder
  <2>2. DialogInv'
    BY <2>1, DialogSteps DEF Inv
  <2>3. UNCHANGED <<batch, wrote, overwrite>>
    BY <2>1 DEF Ask, Choose, DialogRefused, DialogDone, DialogFails, DialogEnds
  <2> QED BY <2>2, <2>3, UploadsKept DEF Inv, Typed
<1>5. ASSUME NEW b \in Batches, BatchStep(b) \/ \E fs \in Picks(b) : Pick(b, fs) PROVE Inv'
  BY <1>5, PickInv, SendInv, AnsweredInv, RecordInv, AbandonInv, RefreshedInv DEF BatchStep
<1> QED BY <1>2, <1>3, <1>4, <1>5 DEF Next

LEMMA Invariant == Spec => []Inv
BY InitInv, NextInv, PTL DEF Spec

(***************************************************************************)
(* The theorems                                                            *)
(***************************************************************************)

\* An upload that has ended tells one result for each file, in the order they were picked,
\* for uploads of any length and whichever file the session ends at (site.on_uploads).
THEOREM ResultPerFile == Spec => []OneResultEach
<1>1. Inv => OneResultEach
  <2> SUFFICES ASSUME Inv, NEW b \in Batches, Ended(b)
               PROVE  /\ Len(batch[b].results) = Len(batch[b].files)
                      /\ \A n \in DOMAIN batch[b].files : batch[b].results[n].file = batch[b].files[n]
    BY DEF OneResultEach
  <2>1. batch[b].files \in Seq(Files)
    BY DEF Inv, Typed, Upload
  <2> QED BY <2>1 DEF Inv, UploadInv, InOrder, Counted
<1> QED BY <1>1, Invariant, PTL

\* What a result says of its file is so: stored, or not stored, by this upload, whatever other
\* uploads, people and dialogs do to the same file.
THEOREM TrueResults == Spec => []ResultsAreTrue
<1>1. Inv => ResultsAreTrue
  <2> SUFFICES ASSUME Inv, NEW b \in Batches, NEW n \in DOMAIN batch[b].results
               PROVE  /\ batch[b].results[n].note = "ok" => batch[b].results[n].file \in wrote[b]
                      /\ batch[b].results[n].note \in {"file_exists", "not_sent"} =>
                            batch[b].results[n].file \notin wrote[b]
    BY DEF ResultsAreTrue
  <2>1. batch[b].results \in Seq(Result)
    BY DEF Inv, Typed, Upload
  <2> QED BY <2>1 DEF Inv, UploadInv, TrueSoFar
<1> QED BY <1>1, Invariant, PTL

\* The page removes a folder with its contents only while the recursive box is ticked: the
\* box cannot change between the click and the answer (site.delete_folder).
THEOREM ContentsByChoice == Spec => ContentsGoByChoice
<1>1. Inv /\ [Next]_vars => [folder = "full" /\ folder' = "none" /\ dialog' # dialog => dialog.recursive]_vars
  <2> SUFFICES ASSUME Inv, Next, folder = "full", folder' = "none", dialog' # dialog
               PROVE  dialog.recursive
    OBVIOUS
  <2>1. DialogEffect /\ dialog.st = "sent" /\ folder' # folder
    <3>1. folder' # folder
      OBVIOUS
    <3>2. DialogDone \/ DialogFails
      BY <3>1 DEF Next, BatchStep, Pick, Send, UploadStored, UploadRefused, UploadFails, Record, Abandon,
         Refreshed, Tick, ReplaceFile, DeleteFile, DeleteFolder, Ask, Choose, DialogRefused, DialogEnds,
         OthersChange, SessionEnds
    <3> QED BY <3>1, <3>2 DEF DialogDone, DialogFails
  <2>2. dialog.kind \in {"replace", "delete", "folder"} /\ dialog.choice = dialog.recursive
    BY <2>1 DEF Inv, DialogInv, Dialogs
  <2>3. dialog.choice
    BY <2>1, <2>2 DEF DialogEffect
  <2> QED BY <2>2, <2>3
<1> QED BY <1>1, Invariant, PTL DEF Spec, ContentsGoByChoice
=============================================================================
