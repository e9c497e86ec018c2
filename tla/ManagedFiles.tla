---------------------------- MODULE ManagedFiles ----------------------------
(***************************************************************************)
(* The life of uploaded files in apps/api/src/file-management: an upload   *)
(* intent, the client's upload to object storage, the finalization that    *)
(* verifies the object and attaches the file to its parent, detachment,    *)
(* and the cleanup that deletes objects and rows.                          *)
(*                                                                         *)
(* PostgreSQL and the object storage share no transaction.  Finalization   *)
(* reads the row, then the object, then commits; cleanup reads the rows,   *)
(* then deletes an object, then its row.  Anything may happen in between,  *)
(* and a call or the cleanup may stop after any of its steps.              *)
(*                                                                         *)
(* Time is what it has made of a file: 10 minutes (the upload grant), 24   *)
(* hours (the intent) and 7 or 30 days (retention) pass in that order.     *)
(***************************************************************************)
EXTENDS Naturals

CONSTANTS
  Files,
  Owners,    \* parents of each kind; for a conversation, its messages
  Calls,     \* finalizations that can be in progress at once
  None

ASSUME FilesAssumption == None \notin Files \union Owners

VARIABLES
  intent,    \* the parent a file was uploaded for
  state,     \* ManagedFile.state, "ABSENT" before and "DELETED" after the row
  age,       \* of the intent: grant not issued, issued, lapsed, intent expired
  due,       \* unavailable files whose cleanupAfter has passed
  objects,   \* files whose object is in storage
  links,     \* rows that refer to a file: <<table, owner, file>>
  deleted,   \* soft-deleted letters and documents
  call,      \* what each finalization in progress remembers
  seen,      \* the cleanup batch: the state that made each file a candidate
  emptied,   \* the candidate whose object cleanup has just deleted
  onTime     \* history: files attached before their intent expired

vars == <<intent, state, age, due, objects, links, deleted, call, seen, emptied, onTime>>

Locked == {"TASK", "EXPENSE", "REPORT", "LETTER", "DOCUMENT"}
Kinds == Locked \union {"WORKSPACE", "TALENT", "CONVERSATION"}
Tables == Kinds \union {"LETTER_DOCUMENT"}
Deletable == {"LETTER", "DOCUMENT"}

States == {"ABSENT", "PENDING", "AVAILABLE", "UNAVAILABLE", "DELETED"}
Ages == {"ungranted", "granted", "lapsed", "expired"}

Request == [step : {"idle", "reading", "rejecting", "verified", "stamped"},
            file : Files \union {None}, owner : Owners \union {None},
            previous : SUBSET Files, timely : BOOLEAN]

Idle == [step |-> "idle", file |-> None, owner |-> None,
         previous |-> {}, timely |-> FALSE]

Init ==
  /\ intent = [f \in Files |-> <<"WORKSPACE", None>>]
  /\ state = [f \in Files |-> "ABSENT"]
  /\ age = [f \in Files |-> "ungranted"]
  /\ due = {}
  /\ objects = {}
  /\ links = {}
  /\ deleted = {}
  /\ call = [c \in Calls |-> Idle]
  /\ seen = [f \in Files |-> "none"]
  /\ emptied = None
  /\ onTime = {}

cleaner == <<seen, emptied>>

-----------------------------------------------------------------------------
(* The rows that refer to a file.                                          *)

LinksOf(f) == {l \in links : l[3] = f}
FilesOf(k, o) == {f \in Files : <<k, o, f>> \in links}

(* createAttachment and its like.  A letter's attachment is also a row of  *)
(* the documents table.                                                    *)
Records(k, o, f) ==
  {<<k, o, f>>} \union (IF k = "LETTER" THEN {<<"LETTER_DOCUMENT", o, f>>} ELSE {})

\* Mutant: the first version of the trigger, which looks only at the file
\* that a row refers to now.
RequireAttachmentNew(newState, newLinks, file, replaced) ==
  newState[file] = "AVAILABLE" => \E l \in newLinks : l[3] = file

(* managed_files_available_require_attachment, checked at commit: neither  *)
(* the file a row now refers to nor the one it referred to before is       *)
(* available with nothing referring to it.                                 *)
RequireAttachment(newState, newLinks, file, replaced) ==
  \A f \in {file} \union replaced :
    newState[f] = "AVAILABLE" => \E l \in newLinks : l[3] = f

-----------------------------------------------------------------------------
(* Upload intents.                                                         *)

(* createPending; the parent is authorized first, so it is not deleted.    *)
CreatePending(k, o, f) ==
  /\ state[f] = "ABSENT"
  /\ <<k, o>> \notin deleted
  /\ intent' = [intent EXCEPT ![f] = <<k, o>>]
  /\ state' = [state EXCEPT ![f] = "PENDING"]
  /\ UNCHANGED <<age, due, objects, links, deleted, call, cleaner, onTime>>

CreateUploadIntent(o, f) == CreatePending("WORKSPACE", o, f)
CreateTaskUploadIntent(o, f) == CreatePending("TASK", o, f)
CreateTalentImageUploadIntent(o, f) == CreatePending("TALENT", o, f)
CreateExpenseUploadIntent(o, f) == CreatePending("EXPENSE", o, f)
CreateReportUploadIntent(o, f) == CreatePending("REPORT", o, f)
CreateLetterAttachmentUploadIntent(o, f) == CreatePending("LETTER", o, f)
CreateDocumentAttachmentUploadIntent(o, f) == CreatePending("DOCUMENT", o, f)
CreateConversationUploadIntent(o, f) == CreatePending("CONVERSATION", o, f)

(* createUploadGrant succeeds, and the client may upload for ten minutes.  *)
CreateUploadGrant(f) ==
  /\ state[f] = "PENDING" /\ age[f] = "ungranted"
  /\ age' = [age EXCEPT ![f] = "granted"]
  /\ UNCHANGED <<intent, state, due, objects, links, deleted, call, cleaner, onTime>>

(* No grant was issued: deletePending.                                     *)
DeletePending(f) ==
  /\ state[f] = "PENDING" /\ age[f] = "ungranted"
  /\ state' = [state EXCEPT ![f] = "DELETED"]
  /\ UNCHANGED <<intent, age, due, objects, links, deleted, call, cleaner, onTime>>

(* The client posts the object, perhaps more than once.                    *)
Upload(f) ==
  /\ age[f] = "granted"
  /\ objects' = objects \union {f}
  /\ UNCHANGED <<intent, state, age, due, links, deleted, call, cleaner, onTime>>

-----------------------------------------------------------------------------
(* Finalization, up to its transaction.                                    *)

(* The call finds the pending row and compares intentExpiresAt with now.   *)
(* An expired intent is marked unavailable by a statement of its own.      *)
FindPending(c, k, o, f) ==
  /\ call[c] = Idle
  /\ state[f] = "PENDING" /\ intent[f][1] = k
  /\ <<k, o>> \notin deleted
  /\ call' = [call EXCEPT ![c] =
       [step |-> IF age[f] = "expired" THEN "rejecting" ELSE "reading",
        file |-> f, owner |-> o, previous |-> FilesOf("TALENT", o), timely |-> FALSE]]
  /\ UNCHANGED <<intent, state, age, due, objects, links, deleted, cleaner, onTime>>

Finalize(c, o, f) == intent[f][2] = o /\ FindPending(c, "WORKSPACE", o, f)
FinalizeTaskUpload(c, o, f) == intent[f][2] = o /\ FindPending(c, "TASK", o, f)
(* The photo the talent has now is read here and retired later.            *)
FinalizeTalentImage(c, o, f) == intent[f][2] = o /\ FindPending(c, "TALENT", o, f)
FinalizeExpenseUpload(c, o, f) == intent[f][2] = o /\ FindPending(c, "EXPENSE", o, f)
FinalizeReportUpload(c, o, f) == intent[f][2] = o /\ FindPending(c, "REPORT", o, f)
FinalizeLetterAttachment(c, o, f) == intent[f][2] = o /\ FindPending(c, "LETTER", o, f)
FinalizeDocumentUpload(c, o, f) == intent[f][2] = o /\ FindPending(c, "DOCUMENT", o, f)
(* The message is chosen by the caller; the intent names the conversation. *)
FinalizeMessageUpload(c, o, f) == FindPending(c, "CONVERSATION", o, f)

(* readObject, verify and scan.  A missing object ends the call, one that  *)
(* is not what was declared or not clean is rejected.                      *)
ReadObject(c) ==
  /\ call[c].step = "reading"
  /\ \/ /\ call[c].file \in objects
        /\ \E outcome \in {"verified", "rejecting"} :
             call' = [call EXCEPT ![c].step = outcome]
     \/ /\ call[c].file \notin objects
        /\ call' = [call EXCEPT ![c] = Idle]
  /\ UNCHANGED <<intent, state, age, due, objects, links, deleted, cleaner, onTime>>

(* makeUnavailable, if the file is still pending.                          *)
MakeUnavailable(c) ==
  /\ call[c].step = "rejecting"
  /\ state' = [f \in Files |-> IF f = call[c].file /\ state[f] = "PENDING"
                               THEN "UNAVAILABLE" ELSE state[f]]
  /\ call' = [call EXCEPT ![c] = Idle]
  /\ UNCHANGED <<intent, age, due, objects, links, deleted, cleaner, onTime>>

(* A refused permission, an error or the end of the process; a transaction *)
(* in progress is rolled back.                                             *)
Abandon(c) ==
  /\ call[c].step \in {"reading", "rejecting", "verified", "stamped"}
  /\ call' = [call EXCEPT ![c] = Idle]
  /\ UNCHANGED <<intent, state, age, due, objects, links, deleted, cleaner, onTime>>

-----------------------------------------------------------------------------
(* The transaction of a finalization: it locks the parent, takes the time, *)
(* and commits.                                                            *)

(* lockAttachmentFinalization: FOR UPDATE on the parent's row, held to the *)
(* end of the transaction, which fails unless the parent accepts the file. *)
LockOwner(c, k, accepts) ==
  /\ call[c].step = "verified" /\ intent[call[c].file][1] = k
  /\ \A d \in Calls : call[d].step = "stamped" /\ call[d].owner = call[c].owner
                         => intent[call[d].file][1] # k
  /\ call' = [call EXCEPT ![c] =
       IF accepts
       THEN [@ EXCEPT !.step = "stamped", !.timely = age[call[c].file] # "expired"]
       ELSE Idle]
  /\ UNCHANGED <<intent, state, age, due, objects, links, deleted, cleaner, onTime>>

\* Mutant: the lock does not look at deleted_at again.
LockLetterDeleted(c) == LockOwner(c, "LETTER", TRUE)

LockTask(c) == LockOwner(c, "TASK", TRUE)
LockExpense(c) == LockOwner(c, "EXPENSE", TRUE)
LockReport(c) == LockOwner(c, "REPORT", TRUE)
LockLetter(c) == LockOwner(c, "LETTER", <<"LETTER", call[c].owner>> \notin deleted)
LockDocument(c) ==
  LockOwner(c, "DOCUMENT", /\ <<"DOCUMENT", call[c].owner>> \notin deleted
                           /\ FilesOf("DOCUMENT", call[c].owner) = {})

(* A message and a talent are not locked: only the time is taken.          *)
TakeTime(c, k) ==
  /\ call[c].step = "verified" /\ intent[call[c].file][1] = k
  /\ call' = [call EXCEPT ![c] =
       [@ EXCEPT !.step = "stamped", !.timely = age[call[c].file] # "expired"]]
  /\ UNCHANGED <<intent, state, age, due, objects, links, deleted, cleaner, onTime>>

CheckMessage(c) == TakeTime(c, "CONVERSATION")
BeginTalentImage(c) == TakeTime(c, "TALENT")

(* The file becomes available and is attached; the rows of replaced files  *)
(* move to it and those in retired become unavailable.                     *)
Attach(c, k, replaced, retired) ==
  LET f == call[c].file
      o == call[c].owner
      newState == [g \in Files |-> IF g = f THEN "AVAILABLE"
                                   ELSE IF g \in retired /\ state[g] = "AVAILABLE"
                                   THEN "UNAVAILABLE" ELSE state[g]]
      newLinks == {l \in links : ~(l[1] = k /\ l[2] = o /\ l[3] \in replaced)}
                    \union Records(k, o, f)
  IN  /\ state[f] = "PENDING"
      /\ IF RequireAttachment(newState, newLinks, f, replaced)
         THEN /\ state' = newState
              /\ links' = newLinks
              /\ onTime' = IF age[f] = "expired" THEN onTime ELSE onTime \union {f}
         ELSE UNCHANGED <<state, links, onTime>>
      /\ call' = [call EXCEPT ![c] = Idle]
      /\ UNCHANGED <<intent, age, due, objects, deleted, cleaner>>

(* Somebody else has settled the file.                                     *)
Conflict(c) ==
  /\ state[call[c].file] # "PENDING"
  /\ call' = [call EXCEPT ![c] = Idle]
  /\ UNCHANGED <<intent, state, age, due, objects, links, deleted, cleaner, onTime>>

(* makeAvailable of a workspace: intentExpiresAt is not looked at again.   *)
MakeAvailable(c) ==
  /\ call[c].step = "verified" /\ intent[call[c].file][1] = "WORKSPACE"
  /\ Attach(c, "WORKSPACE", {}, {}) \/ Conflict(c)

(* The time taken is past the intent's end: the file is given up instead.  *)
Expire(c) ==
  /\ ~call[c].timely
  /\ state[call[c].file] = "PENDING"
  /\ state' = [state EXCEPT ![call[c].file] = "UNAVAILABLE"]
  /\ call' = [call EXCEPT ![c] = Idle]
  /\ UNCHANGED <<intent, age, due, objects, links, deleted, cleaner, onTime>>

(* makeAvailableFor... of the other kinds but a talent.                    *)
Settle(c, k, replaced) ==
  /\ call[c].step = "stamped" /\ intent[call[c].file][1] = k
  /\ \/ call[c].timely /\ Attach(c, k, replaced, {})
     \/ Expire(c)
     \/ Conflict(c)

MakeAvailableForTask(c) == Settle(c, "TASK", {})
MakeAvailableForExpense(c) == Settle(c, "EXPENSE", {})
MakeAvailableForReport(c) == Settle(c, "REPORT", {})
MakeAvailableForLetter(c) == Settle(c, "LETTER", {})
(* setManagedFile: a document has one reference, which would move.         *)
MakeAvailableForDocument(c) ==
  Settle(c, "DOCUMENT", FilesOf("DOCUMENT", call[c].owner))
MakeAvailableForConversation(c) == Settle(c, "CONVERSATION", {})

(* The talent's one photo is replaced: its reference moves from whichever  *)
(* photo it has now, the photo read at the start is retired.  An expired   *)
(* intent is a conflict and stays pending.                                 *)
ReplaceTalentImage(c) ==
  /\ call[c].step = "stamped" /\ intent[call[c].file][1] = "TALENT"
  /\ \/ /\ call[c].timely
        /\ Attach(c, "TALENT", FilesOf("TALENT", call[c].owner), call[c].previous)
     \/ /\ ~call[c].timely /\ state[call[c].file] = "PENDING"
        /\ call' = [call EXCEPT ![c] = Idle]
        /\ UNCHANGED <<intent, state, age, due, objects, links, deleted, cleaner, onTime>>
     \/ Conflict(c)

-----------------------------------------------------------------------------
(* Detachment and deletion of parents.                                     *)

(* remove of a workspace file.                                             *)
Detach(o, f) ==
  /\ state[f] = "AVAILABLE" /\ <<"WORKSPACE", o, f>> \in links
  /\ state' = [state EXCEPT ![f] = "UNAVAILABLE"]
  /\ links' = links \ {<<"WORKSPACE", o, f>>}
  /\ UNCHANGED <<intent, age, due, objects, deleted, call, cleaner, onTime>>

(* softDelete of a letter or a document waits for its row lock.            *)
SoftDelete(k, o) ==
  /\ <<k, o>> \notin deleted
  /\ \A c \in Calls : call[c].step = "stamped" /\ call[c].owner = o
                         => intent[call[c].file][1] # k
  /\ deleted' = deleted \union {<<k, o>>}
  /\ UNCHANGED <<intent, state, age, due, objects, links, call, cleaner, onTime>>

-----------------------------------------------------------------------------
(* Cleanup.                                                                *)

\* Mutant: the times alone make a candidate.
CandidateByTime(f) == age[f] = "expired" \/ f \in due

\* Mutant: every pending file is a candidate.
CandidateEarly(f) == state[f] = "PENDING" \/ (state[f] = "UNAVAILABLE" /\ f \in due)

Candidate(f) ==
  \/ state[f] = "PENDING" /\ age[f] = "expired"
  \/ state[f] = "UNAVAILABLE" /\ f \in due

(* findCleanupCandidates                                                   *)
FindCleanupCandidates ==
  /\ \A f \in Files : seen[f] = "none"
  /\ \E f \in Files : Candidate(f)
  /\ seen' = [f \in Files |-> IF Candidate(f) THEN state[f] ELSE "none"]
  /\ UNCHANGED <<intent, state, age, due, objects, links, deleted, call, emptied, onTime>>

\* Mutant: a failed deletion is passed over.
DeleteObjectFails(f) ==
  /\ emptied = None /\ seen[f] # "none"
  /\ objects' \in {objects, objects \ {f}}
  /\ emptied' = f
  /\ UNCHANGED <<intent, state, age, due, links, deleted, call, seen, onTime>>

(* storage.deleteObject                                                    *)
DeleteObject(f) ==
  /\ emptied = None /\ seen[f] # "none"
  /\ objects' = objects \ {f}
  /\ emptied' = f
  /\ UNCHANGED <<intent, state, age, due, links, deleted, call, seen, onTime>>

(* deleteCleanupCandidate: the row goes if it is still a candidate for the *)
(* time the batch was read at, that is, if its state is the one read.      *)
DeleteCleanupCandidate(f) ==
  /\ emptied = f
  /\ state' = IF state[f] = seen[f] THEN [state EXCEPT ![f] = "DELETED"] ELSE state
  /\ seen' = [seen EXCEPT ![f] = "none"]
  /\ emptied' = None
  /\ UNCHANGED <<intent, age, due, objects, links, deleted, call, onTime>>

(* A storage error ends the batch, and so does the end of the process.     *)
CleanupStops ==
  /\ \E f \in Files : seen[f] # "none"
  /\ seen' = [f \in Files |-> "none"]
  /\ emptied' = None
  /\ UNCHANGED <<intent, state, age, due, objects, links, deleted, call, onTime>>

-----------------------------------------------------------------------------
(* Time.                                                                   *)

(* Ten minutes, or 24 hours, after the intent was created.                 *)
GrantLapses(f) ==
  /\ age[f] = "granted"
  /\ age' = [age EXCEPT ![f] = "lapsed"]
  /\ UNCHANGED <<intent, state, due, objects, links, deleted, call, cleaner, onTime>>

IntentExpires(f) ==
  /\ state[f] \notin {"ABSENT", "DELETED"} /\ age[f] \in {"ungranted", "lapsed"}
  /\ age' = [age EXCEPT ![f] = "expired"]
  /\ UNCHANGED <<intent, state, due, objects, links, deleted, call, cleaner, onTime>>

(* Seven or thirty days after the file became unavailable, so more than a  *)
(* day after its intent.                                                   *)
RetentionPasses(f) ==
  /\ state[f] = "UNAVAILABLE" /\ age[f] = "expired"
  /\ due' = due \union {f}
  /\ UNCHANGED <<intent, state, age, objects, links, deleted, call, cleaner, onTime>>

-----------------------------------------------------------------------------
Creates(o, f) ==
  \/ CreateUploadIntent(o, f) \/ CreateTaskUploadIntent(o, f)
  \/ CreateTalentImageUploadIntent(o, f) \/ CreateExpenseUploadIntent(o, f)
  \/ CreateReportUploadIntent(o, f) \/ CreateLetterAttachmentUploadIntent(o, f)
  \/ CreateDocumentAttachmentUploadIntent(o, f) \/ CreateConversationUploadIntent(o, f)

Finds(c, o, f) ==
  \/ Finalize(c, o, f) \/ FinalizeTaskUpload(c, o, f) \/ FinalizeTalentImage(c, o, f)
  \/ FinalizeExpenseUpload(c, o, f) \/ FinalizeReportUpload(c, o, f)
  \/ FinalizeLetterAttachment(c, o, f) \/ FinalizeDocumentUpload(c, o, f)
  \/ FinalizeMessageUpload(c, o, f)

Locks(c) ==
  \/ LockTask(c) \/ LockExpense(c) \/ LockReport(c) \/ LockLetter(c)
  \/ LockDocument(c) \/ CheckMessage(c) \/ BeginTalentImage(c)

Commits(c) ==
  \/ MakeAvailable(c) \/ MakeAvailableForTask(c) \/ MakeAvailableForExpense(c)
  \/ MakeAvailableForReport(c) \/ MakeAvailableForLetter(c)
  \/ MakeAvailableForDocument(c) \/ MakeAvailableForConversation(c)
  \/ ReplaceTalentImage(c)

OfFile(f) ==
  \/ CreateUploadGrant(f) \/ DeletePending(f) \/ Upload(f)
  \/ DeleteObject(f) \/ DeleteCleanupCandidate(f)
  \/ GrantLapses(f) \/ IntentExpires(f) \/ RetentionPasses(f)

Next ==
  \/ \E o \in Owners, f \in Files : Creates(o, f) \/ Detach(o, f)
  \/ \E c \in Calls, o \in Owners, f \in Files : Finds(c, o, f)
  \/ \E c \in Calls : \/ ReadObject(c) \/ MakeUnavailable(c) \/ Abandon(c)
                      \/ Locks(c) \/ Commits(c)
  \/ \E k \in Deletable, o \in Owners : SoftDelete(k, o)
  \/ \E f \in Files : OfFile(f)
  \/ FindCleanupCandidates
  \/ CleanupStops

Spec == Init /\ [][Next]_vars

-----------------------------------------------------------------------------
(* Properties.                                                             *)

TypeOK ==
  /\ intent \in [Files -> Kinds \X (Owners \union {None})]
  /\ state \in [Files -> States]
  /\ age \in [Files -> Ages]
  /\ due \subseteq Files /\ objects \subseteq Files /\ onTime \subseteq Files
  /\ links \subseteq Tables \X Owners \X Files
  /\ deleted \subseteq Deletable \X Owners
  /\ call \in [Calls -> Request]
  /\ seen \in [Files -> {"none", "PENDING", "UNAVAILABLE"}]
  /\ emptied \in Files \union {None}

\* An available file is referred to by the rows of exactly one parent of the
\* kind it was uploaded for, and no other file is referred to at all: however
\* finalizations of one file, of two files for one document or of two photos
\* of one talent interleave with each other, with removal and with cleanup
\* (the conditional updates and the deferred trigger).
AvailableIsOwned ==
  \A f \in Files :
    IF state[f] = "AVAILABLE"
    THEN \E o \in Owners : LinksOf(f) = Records(intent[f][1], o, f)
    ELSE LinksOf(f) = {}

\* Whatever is in storage has a row that leads cleanup to it, wherever a call,
\* a grant or cleanup stopped: cleanup deletes the object first and the row
\* after it.
NoOrphanObject ==
  \A f \in objects : state[f] \in {"PENDING", "AVAILABLE", "UNAVAILABLE"}

\* A file attached before its intent expired keeps its object while it is
\* attached, and after removal until its retention has passed: cleanup, which
\* decides on rows it read earlier, never takes it.
AttachedKeepsObject ==
  \A f \in onTime : state[f] = "AVAILABLE" \/ (state[f] = "UNAVAILABLE" /\ f \notin due)
                    => f \in objects

\* Nothing is attached to a letter or a document after it was deleted, although
\* the call was authorized before (lockAttachmentAccess looks again).
NothingAttachedToDeleted ==
  [][\A l \in links' \ links : <<l[1], l[2]>> \notin deleted]_vars

\* An available file can be served: its object is in storage.  Cleanup may
\* have deleted it while the file was being finalized as its intent expired.
AvailableHasObject ==
  \A f \in Files : state[f] = "AVAILABLE" => f \in objects
=============================================================================
