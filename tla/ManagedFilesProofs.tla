------------------------- MODULE ManagedFilesProofs -------------------------
(***************************************************************************)
(* Proofs about ManagedFiles for any files, parents and calls.             *)
(***************************************************************************)
EXTENDS ManagedFiles, TLAPS

Live == {"PENDING", "AVAILABLE", "UNAVAILABLE"}

\* How a row, its intent's age and its object go together.
RowInv ==
  \A f \in Files :
    /\ state[f] = "ABSENT" => age[f] = "ungranted"
    /\ age[f] = "granted" => state[f] \in Live
    /\ f \in objects => age[f] # "ungranted"
    /\ f \in onTime => state[f] \in {"AVAILABLE", "UNAVAILABLE", "DELETED"}
    /\ f \in due => state[f] \in {"UNAVAILABLE", "DELETED"} /\ age[f] = "expired"

\* What made a file a candidate of the batch cleanup is working on still
\* keeps it from being one that was attached in time.
BatchInv ==
  /\ \A f \in Files :
       /\ seen[f] # "none" => age[f] = "expired"
       /\ seen[f] = "PENDING" => f \notin onTime
       /\ seen[f] = "UNAVAILABLE" => f \in due
  /\ emptied # None => seen[emptied] # "none" /\ emptied \notin objects

\* What a call in progress has read.
CallInv ==
  \A c \in Calls : call[c].step # "idle" =>
    /\ call[c].file \in Files /\ call[c].owner \in Owners
    /\ state[call[c].file] # "ABSENT"
    /\ intent[call[c].file][1] # "CONVERSATION" => intent[call[c].file][2] = call[c].owner
    /\ call[c].step \in {"verified", "stamped"} /\ age[call[c].file] # "expired"
         => call[c].file \in objects
    /\ call[c].step = "stamped" => <<intent[call[c].file][1], call[c].owner>> \notin deleted
    /\ \A g \in call[c].previous : state[g] # "ABSENT" /\ intent[g] = <<"TALENT", call[c].owner>>

\* A row refers to a file of the parent the file was uploaded for.
OwnerInv ==
  \A l \in links : /\ state[l[3]] = "AVAILABLE"
                   /\ l[1] \in Kinds => intent[l[3]][1] = l[1]
                   /\ intent[l[3]][1] # "CONVERSATION" => intent[l[3]][2] = l[2]

IInv == /\ TypeOK /\ RowInv /\ BatchInv /\ CallInv /\ OwnerInv
        /\ AvailableIsOwned /\ NoOrphanObject /\ AttachedKeepsObject

-----------------------------------------------------------------------------
(* Steps that change only what a call remembers. *)

LEMMA CallStep ==
  ASSUME IInv, NEW c \in Calls,
         UNCHANGED <<intent, state, age, due, objects, links, deleted, cleaner, onTime>>,
         NEW r \in Request, call' = [call EXCEPT ![c] = r],
         r.step # "idle" =>
           /\ r.file \in Files /\ r.owner \in Owners
           /\ state[r.file] # "ABSENT"
           /\ intent[r.file][1] # "CONVERSATION" => intent[r.file][2] = r.owner
           /\ r.step \in {"verified", "stamped"} /\ age[r.file] # "expired" => r.file \in objects
           /\ r.step = "stamped" => <<intent[r.file][1], r.owner>> \notin deleted
           /\ \A g \in r.previous : state[g] # "ABSENT" /\ intent[g] = <<"TALENT", r.owner>>
  PROVE  IInv'
<1>1. TypeOK'
  BY DEF IInv, TypeOK, cleaner
<1>2. CallInv'
  BY DEF IInv, TypeOK, CallInv, cleaner
<1>3. RowInv' /\ BatchInv'
  BY DEF IInv, RowInv, BatchInv, cleaner
<1>4. OwnerInv' /\ AvailableIsOwned'
  BY DEF IInv, OwnerInv, AvailableIsOwned, LinksOf
<1>5. NoOrphanObject' /\ AttachedKeepsObject'
  BY DEF IInv, NoOrphanObject, AttachedKeepsObject
<1> QED
  BY <1>1, <1>2, <1>3, <1>4, <1>5 DEF IInv

LEMMA IdleRequest == Idle \in Request /\ Idle.step = "idle"
BY DEF Idle, Request

LEMMA AbandonStep ==
  ASSUME IInv, NEW c \in Calls, call' = [call EXCEPT ![c] = Idle],
         UNCHANGED <<intent, state, age, due, objects, links, deleted, cleaner, onTime>>
  PROVE  IInv'
BY CallStep, IdleRequest

LEMMA FindStep ==
  ASSUME IInv, NEW c \in Calls, NEW k \in Kinds, NEW o \in Owners, NEW f \in Files,
         FindPending(c, k, o, f), k # "CONVERSATION" => intent[f][2] = o
  PROVE  IInv'
<1> DEFINE r == [step |-> IF age[f] = "expired" THEN "rejecting" ELSE "reading",
                 file |-> f, owner |-> o, previous |-> FilesOf("TALENT", o), timely |-> FALSE]
<1>1. r \in Request
  BY DEF Request, FilesOf
<1>2. ASSUME NEW g \in FilesOf("TALENT", o)
      PROVE  state[g] # "ABSENT" /\ intent[g] = <<"TALENT", o>>
  <2>1. <<"TALENT", o, g>> \in links /\ g \in Files
    BY <1>2 DEF FilesOf
  <2>2. state[g] = "AVAILABLE" /\ intent[g][1] = "TALENT" /\ intent[g][2] = o
    BY <2>1 DEF IInv, OwnerInv, Kinds
  <2>3. intent[g] \in Kinds \X (Owners \union {None})
    BY <2>1 DEF IInv, TypeOK
  <2> QED
    BY <2>2, <2>3
<1>3. /\ call' = [call EXCEPT ![c] = r]
      /\ UNCHANGED <<intent, state, age, due, objects, links, deleted, cleaner, onTime>>
      /\ state[f] = "PENDING" /\ intent[f][1] = k
  BY DEF FindPending
<1>4. /\ r.file = f /\ r.owner = o /\ r.previous = FilesOf("TALENT", o)
      /\ r.step \in {"reading", "rejecting"}
  OBVIOUS
<1> HIDE DEF r
<1> QED
  BY <1>1, <1>2, <1>3, <1>4, CallStep

LEMMA ReadStep ==
  ASSUME IInv, NEW c \in Calls, ReadObject(c)
  PROVE  IInv'
<1>1. CASE call[c].file \in objects
  <2>1. PICK outcome \in {"verified", "rejecting"} : call' = [call EXCEPT ![c].step = outcome]
    BY <1>1 DEF ReadObject
  <2> DEFINE r == [call[c] EXCEPT !.step = outcome]
  <2>2. call' = [call EXCEPT ![c] = r]
    BY <2>1 DEF IInv, TypeOK
  <2>3. call[c] \in Request /\ call[c].step = "reading"
    BY DEF ReadObject, IInv, TypeOK
  <2>4. /\ r \in Request /\ r.step = outcome /\ r.file = call[c].file
        /\ r.owner = call[c].owner /\ r.previous = call[c].previous
    BY <2>3 DEF Request
  <2>5. UNCHANGED <<intent, state, age, due, objects, links, deleted, cleaner, onTime>>
    BY DEF ReadObject
  <2>6. /\ call[c].file \in Files /\ call[c].owner \in Owners
        /\ state[call[c].file] # "ABSENT"
        /\ intent[call[c].file][1] # "CONVERSATION" => intent[call[c].file][2] = call[c].owner
        /\ \A g \in call[c].previous :
             state[g] # "ABSENT" /\ intent[g] = <<"TALENT", call[c].owner>>
    BY <2>3 DEF IInv, CallInv
  <2>7. r.step # "stamped"
    BY <2>1, <2>4
  <2> HIDE DEF r
  <2> QED
    BY <1>1, <2>2, <2>4, <2>5, <2>6, <2>7, CallStep
<1>2. CASE call[c].file \notin objects
  BY <1>2, AbandonStep DEF ReadObject
<1> QED
  BY <1>1, <1>2

\* A call that passed the checks of its transaction remembers the time.
LEMMA StampStep ==
  ASSUME IInv, NEW c \in Calls, call[c].step = "verified",
         <<intent[call[c].file][1], call[c].owner>> \notin deleted,
         call' = [call EXCEPT ![c] =
           [@ EXCEPT !.step = "stamped", !.timely = age[call[c].file] # "expired"]],
         UNCHANGED <<intent, state, age, due, objects, links, deleted, cleaner, onTime>>
  PROVE  IInv'
<1> DEFINE r == [call[c] EXCEPT !.step = "stamped", !.timely = age[call[c].file] # "expired"]
<1>1. call[c] \in Request
  BY DEF IInv, TypeOK
<1>2. /\ r \in Request /\ r.step = "stamped" /\ r.file = call[c].file
      /\ r.owner = call[c].owner /\ r.previous = call[c].previous
  BY <1>1 DEF Request
<1>3. call' = [call EXCEPT ![c] = r]
  OBVIOUS
<1>4. /\ call[c].file \in Files /\ call[c].owner \in Owners
      /\ state[call[c].file] # "ABSENT"
      /\ intent[call[c].file][1] # "CONVERSATION" => intent[call[c].file][2] = call[c].owner
      /\ age[call[c].file] # "expired" => call[c].file \in objects
      /\ \A g \in call[c].previous :
           state[g] # "ABSENT" /\ intent[g] = <<"TALENT", call[c].owner>>
  BY DEF IInv, CallInv
<1> HIDE DEF r
<1>5. /\ r.file \in Files /\ r.owner \in Owners
      /\ state[r.file] # "ABSENT"
      /\ intent[r.file][1] # "CONVERSATION" => intent[r.file][2] = r.owner
      /\ age[r.file] # "expired" => r.file \in objects
      /\ <<intent[r.file][1], r.owner>> \notin deleted
      /\ \A g \in r.previous : state[g] # "ABSENT" /\ intent[g] = <<"TALENT", r.owner>>
  BY <1>2, <1>4
<1> QED
  BY <1>2, <1>3, <1>5, CallStep

LEMMA LockStep ==
  ASSUME IInv, NEW c \in Calls, NEW k \in Kinds, NEW accepts, LockOwner(c, k, accepts),
         accepts => <<k, call[c].owner>> \notin deleted
  PROVE  IInv'
<1>1. CASE accepts
  BY <1>1, StampStep DEF LockOwner
<1>2. CASE ~accepts
  BY <1>2, AbandonStep DEF LockOwner
<1> QED
  BY <1>1, <1>2

LEMMA TimeStep ==
  ASSUME IInv, NEW c \in Calls, NEW k \in Kinds \ Deletable, TakeTime(c, k)
  PROVE  IInv'
<1>1. <<k, call[c].owner>> \notin deleted
  BY DEF IInv, TypeOK
<1> QED
  BY <1>1, StampStep DEF TakeTime

-----------------------------------------------------------------------------
(* Steps of one file. *)

LEMMA OwnedStep ==
  ASSUME IInv, UNCHANGED <<intent, links>>,
         \A f \in Files : state'[f] = "AVAILABLE" <=> state[f] = "AVAILABLE"
  PROVE  OwnerInv' /\ AvailableIsOwned'
<1>1. \A l \in links : l[3] \in Files
  BY DEF IInv, TypeOK
<1>2. OwnerInv'
  BY <1>1 DEF IInv, OwnerInv
<1>3. AvailableIsOwned'
  BY DEF IInv, AvailableIsOwned, LinksOf
<1> QED
  BY <1>2, <1>3

LEMMA FileStep ==
  ASSUME IInv, NEW f \in Files, OfFile(f)
  PROVE  IInv'
<1>1. CASE CreateUploadGrant(f)
  <2>1. TypeOK'
    BY <1>1 DEF CreateUploadGrant, IInv, TypeOK, States, Ages, cleaner
  <2>2. RowInv'
    BY <1>1 DEF CreateUploadGrant, IInv, TypeOK, RowInv, BatchInv, Live, cleaner
  <2>3. BatchInv'
    BY <1>1 DEF CreateUploadGrant, IInv, TypeOK, RowInv, BatchInv, cleaner
  <2>4. CallInv'
    BY <1>1 DEF CreateUploadGrant, IInv, TypeOK, RowInv, CallInv, BatchInv, cleaner
  <2>5. OwnerInv' /\ AvailableIsOwned'
    BY <1>1 DEF CreateUploadGrant, IInv, TypeOK, OwnerInv, AvailableIsOwned, LinksOf, BatchInv, RowInv, cleaner
  <2>6. NoOrphanObject' /\ AttachedKeepsObject'
    BY <1>1, FilesAssumption DEF CreateUploadGrant, IInv, TypeOK, RowInv, BatchInv, NoOrphanObject,
      AttachedKeepsObject, Live, cleaner
  <2> QED
    BY <2>1, <2>2, <2>3, <2>4, <2>5, <2>6 DEF IInv
<1>2. CASE DeletePending(f)
  <2>1. TypeOK'
    BY <1>2 DEF DeletePending, IInv, TypeOK, States, Ages, cleaner
  <2>2. RowInv'
    BY <1>2 DEF DeletePending, IInv, TypeOK, RowInv, BatchInv, Live, cleaner
  <2>3. BatchInv'
    BY <1>2 DEF DeletePending, IInv, TypeOK, RowInv, BatchInv, cleaner
  <2>4. CallInv'
    BY <1>2 DEF DeletePending, IInv, TypeOK, RowInv, CallInv, BatchInv, cleaner
  <2>5. OwnerInv' /\ AvailableIsOwned'
    BY <1>2, OwnedStep DEF DeletePending, IInv, TypeOK, BatchInv, RowInv, cleaner
  <2>6. NoOrphanObject' /\ AttachedKeepsObject'
    BY <1>2, FilesAssumption DEF DeletePending, IInv, TypeOK, RowInv, BatchInv, NoOrphanObject,
      AttachedKeepsObject, Live, cleaner
  <2> QED
    BY <2>1, <2>2, <2>3, <2>4, <2>5, <2>6 DEF IInv
<1>3. CASE Upload(f)
  <2>1. TypeOK'
    BY <1>3 DEF Upload, IInv, TypeOK, States, Ages, cleaner
  <2>2. RowInv'
    BY <1>3 DEF Upload, IInv, TypeOK, RowInv, BatchInv, Live, cleaner
  <2>3. BatchInv'
    BY <1>3 DEF Upload, IInv, TypeOK, RowInv, BatchInv, cleaner
  <2>4. CallInv'
    BY <1>3 DEF Upload, IInv, TypeOK, RowInv, CallInv, BatchInv, cleaner
  <2>5. OwnerInv' /\ AvailableIsOwned'
    BY <1>3 DEF Upload, IInv, TypeOK, OwnerInv, AvailableIsOwned, LinksOf, BatchInv, RowInv, cleaner
  <2>6. NoOrphanObject' /\ AttachedKeepsObject'
    BY <1>3, FilesAssumption DEF Upload, IInv, TypeOK, RowInv, BatchInv, NoOrphanObject,
      AttachedKeepsObject, Live, cleaner
  <2> QED
    BY <2>1, <2>2, <2>3, <2>4, <2>5, <2>6 DEF IInv
<1>4. CASE DeleteObject(f)
  <2>1. TypeOK'
    BY <1>4 DEF DeleteObject, IInv, TypeOK, States, Ages, cleaner
  <2>2. RowInv'
    BY <1>4 DEF DeleteObject, IInv, TypeOK, RowInv, BatchInv, Live, cleaner
  <2>3. BatchInv'
    BY <1>4, FilesAssumption DEF DeleteObject, IInv, TypeOK, RowInv, BatchInv, cleaner
  <2>4. CallInv'
    BY <1>4 DEF DeleteObject, IInv, TypeOK, RowInv, CallInv, BatchInv, cleaner
  <2>5. OwnerInv' /\ AvailableIsOwned'
    BY <1>4 DEF DeleteObject, IInv, TypeOK, OwnerInv, AvailableIsOwned, LinksOf, BatchInv, RowInv, cleaner
  <2>6. NoOrphanObject' /\ AttachedKeepsObject'
    BY <1>4, FilesAssumption DEF DeleteObject, IInv, TypeOK, RowInv, BatchInv, NoOrphanObject,
      AttachedKeepsObject, Live, cleaner
  <2> QED
    BY <2>1, <2>2, <2>3, <2>4, <2>5, <2>6 DEF IInv
<1>5. CASE DeleteCleanupCandidate(f)
  <2>1. TypeOK'
    BY <1>5 DEF DeleteCleanupCandidate, IInv, TypeOK, States, Ages, cleaner
  <2>2. RowInv'
    BY <1>5 DEF DeleteCleanupCandidate, IInv, TypeOK, RowInv, BatchInv, Live, cleaner
  <2>3. BatchInv'
    BY <1>5, FilesAssumption DEF DeleteCleanupCandidate, IInv, TypeOK, RowInv, BatchInv, cleaner
  <2>4. CallInv'
    BY <1>5 DEF DeleteCleanupCandidate, IInv, TypeOK, RowInv, CallInv, BatchInv, cleaner
  <2>5. OwnerInv' /\ AvailableIsOwned'
    BY <1>5, OwnedStep DEF DeleteCleanupCandidate, IInv, TypeOK, BatchInv, RowInv, cleaner
  <2>6. NoOrphanObject' /\ AttachedKeepsObject'
    BY <1>5, FilesAssumption DEF DeleteCleanupCandidate, IInv, TypeOK, RowInv, BatchInv, NoOrphanObject,
      AttachedKeepsObject, Live, cleaner
  <2> QED
    BY <2>1, <2>2, <2>3, <2>4, <2>5, <2>6 DEF IInv
<1>6. CASE GrantLapses(f)
  <2>1. TypeOK'
    BY <1>6 DEF GrantLapses, IInv, TypeOK, States, Ages, cleaner
  <2>2. RowInv'
    BY <1>6 DEF GrantLapses, IInv, TypeOK, RowInv, BatchInv, Live, cleaner
  <2>3. BatchInv'
    BY <1>6 DEF GrantLapses, IInv, TypeOK, RowInv, BatchInv, cleaner
  <2>4. CallInv'
    BY <1>6 DEF GrantLapses, IInv, TypeOK, RowInv, CallInv, BatchInv, cleaner
  <2>5. OwnerInv' /\ AvailableIsOwned'
    BY <1>6 DEF GrantLapses, IInv, TypeOK, OwnerInv, AvailableIsOwned, LinksOf, BatchInv, RowInv, cleaner
  <2>6. NoOrphanObject' /\ AttachedKeepsObject'
    BY <1>6, FilesAssumption DEF GrantLapses, IInv, TypeOK, RowInv, BatchInv, NoOrphanObject,
      AttachedKeepsObject, Live, cleaner
  <2> QED
    BY <2>1, <2>2, <2>3, <2>4, <2>5, <2>6 DEF IInv
<1>7. CASE IntentExpires(f)
  <2>1. TypeOK'
    BY <1>7 DEF IntentExpires, IInv, TypeOK, States, Ages, cleaner
  <2>2. RowInv'
    BY <1>7 DEF IntentExpires, IInv, TypeOK, RowInv, BatchInv, Live, cleaner
  <2>3. BatchInv'
    BY <1>7 DEF IntentExpires, IInv, TypeOK, RowInv, BatchInv, cleaner
  <2>4. CallInv'
    BY <1>7 DEF IntentExpires, IInv, TypeOK, RowInv, CallInv, BatchInv, cleaner
  <2>5. OwnerInv' /\ AvailableIsOwned'
    BY <1>7 DEF IntentExpires, IInv, TypeOK, OwnerInv, AvailableIsOwned, LinksOf, BatchInv, RowInv, cleaner
  <2>6. NoOrphanObject' /\ AttachedKeepsObject'
    BY <1>7, FilesAssumption DEF IntentExpires, IInv, TypeOK, RowInv, BatchInv, NoOrphanObject,
      AttachedKeepsObject, Live, cleaner
  <2> QED
    BY <2>1, <2>2, <2>3, <2>4, <2>5, <2>6 DEF IInv
<1>8. CASE RetentionPasses(f)
  <2>1. TypeOK'
    BY <1>8 DEF RetentionPasses, IInv, TypeOK, States, Ages, cleaner
  <2>2. RowInv'
    BY <1>8 DEF RetentionPasses, IInv, TypeOK, RowInv, BatchInv, Live, cleaner
  <2>3. BatchInv'
    BY <1>8 DEF RetentionPasses, IInv, TypeOK, RowInv, BatchInv, cleaner
  <2>4. CallInv'
    BY <1>8 DEF RetentionPasses, IInv, TypeOK, RowInv, CallInv, BatchInv, cleaner
  <2>5. OwnerInv' /\ AvailableIsOwned'
    BY <1>8 DEF RetentionPasses, IInv, TypeOK, OwnerInv, AvailableIsOwned, LinksOf, BatchInv, RowInv, cleaner
  <2>6. NoOrphanObject' /\ AttachedKeepsObject'
    BY <1>8, FilesAssumption DEF RetentionPasses, IInv, TypeOK, RowInv, BatchInv, NoOrphanObject,
      AttachedKeepsObject, Live, cleaner
  <2> QED
    BY <2>1, <2>2, <2>3, <2>4, <2>5, <2>6 DEF IInv
<1> QED
  BY <1>1, <1>2, <1>3, <1>4, <1>5, <1>6, <1>7, <1>8 DEF OfFile

-----------------------------------------------------------------------------
(* The other steps. *)

LEMMA CreateStep ==
  ASSUME IInv, NEW k \in Kinds, NEW o \in Owners, NEW f \in Files, CreatePending(k, o, f)
  PROVE  IInv'
<1>1. TypeOK'
  BY DEF CreatePending, IInv, TypeOK, States, cleaner
<1>2. RowInv'
  BY DEF CreatePending, IInv, TypeOK, RowInv, Live, cleaner
<1>3. BatchInv'
  BY DEF CreatePending, IInv, TypeOK, BatchInv, cleaner
<1>4. CallInv'
  <2> SUFFICES ASSUME NEW d \in Calls, call[d].step # "idle"
               PROVE  CallInv!(d)!2'
    BY DEF CreatePending, CallInv
  <2>1. CallInv!(d)!2
    BY DEF IInv, CallInv
  <2>2. call[d].file # f /\ f \notin call[d].previous
    BY <2>1 DEF CreatePending
  <2>3. call[d].previous \subseteq Files
    BY DEF IInv, TypeOK, Request
  <2> QED
    BY <2>1, <2>2, <2>3 DEF CreatePending, IInv, TypeOK
<1>5. \A l \in links : l[3] \in Files /\ l[3] # f
  BY DEF CreatePending, IInv, TypeOK, OwnerInv
<1>6. OwnerInv'
  BY <1>5 DEF CreatePending, IInv, TypeOK, OwnerInv
<1>7. AvailableIsOwned'
  BY DEF CreatePending, IInv, TypeOK, AvailableIsOwned, LinksOf
<1>8. NoOrphanObject' /\ AttachedKeepsObject'
  BY DEF CreatePending, IInv, TypeOK, RowInv, NoOrphanObject, AttachedKeepsObject
<1> QED
  BY <1>1, <1>2, <1>3, <1>4, <1>6, <1>7, <1>8 DEF IInv

\* A pending file becomes unavailable (makeUnavailable, and the expired
\* branch of the transactions), and the call ends.
LEMMA GiveUpStep ==
  ASSUME IInv, NEW c \in Calls, call[c].step # "idle", MakeUnavailable(c) \/ Expire(c)
  PROVE  IInv'
<1> DEFINE f == call[c].file
<1>1. /\ f \in Files
      /\ state' = [g \in Files |-> IF g = f /\ state[g] = "PENDING" THEN "UNAVAILABLE" ELSE state[g]]
      /\ call' = [call EXCEPT ![c] = Idle]
      /\ UNCHANGED <<intent, age, due, objects, links, deleted, cleaner, onTime>>
  BY DEF IInv, TypeOK, CallInv, MakeUnavailable, Expire
<1> HIDE DEF f
<1>2. TypeOK'
  BY <1>1, IdleRequest DEF IInv, TypeOK, States, cleaner
<1>3. RowInv'
  BY <1>1 DEF IInv, TypeOK, RowInv, Live
<1>4. BatchInv'
  BY <1>1 DEF IInv, TypeOK, BatchInv, cleaner
<1>5. CallInv'
  <2> SUFFICES ASSUME NEW d \in Calls, call'[d].step # "idle"
               PROVE  CallInv!(d)!2'
    BY DEF CallInv
  <2>1. call'[d] = call[d] /\ call[d].step # "idle"
    BY <1>1, IdleRequest DEF IInv, TypeOK
  <2>2. CallInv!(d)!2
    BY <2>1 DEF IInv, CallInv
  <2>3. call[d].previous \subseteq Files
    BY DEF IInv, TypeOK, Request
  <2>4. \A g \in Files : state[g] # "ABSENT" => state'[g] # "ABSENT"
    BY <1>1
  <2> QED
    BY <1>1, <2>1, <2>2, <2>3, <2>4
<1>6. OwnerInv' /\ AvailableIsOwned'
  BY <1>1, OwnedStep DEF IInv, TypeOK
<1>7. NoOrphanObject' /\ AttachedKeepsObject'
  BY <1>1 DEF IInv, TypeOK, RowInv, NoOrphanObject, AttachedKeepsObject
<1> QED
  BY <1>2, <1>3, <1>4, <1>5, <1>6, <1>7 DEF IInv

LEMMA DeleteParentStep ==
  ASSUME IInv, NEW k \in Deletable, NEW o \in Owners, SoftDelete(k, o)
  PROVE  IInv'
<1>1. TypeOK'
  BY DEF SoftDelete, IInv, TypeOK, cleaner
<1>2. CallInv'
  BY DEF SoftDelete, IInv, TypeOK, CallInv
<1>3. RowInv' /\ BatchInv' /\ OwnerInv' /\ NoOrphanObject' /\ AttachedKeepsObject'
  BY DEF SoftDelete, IInv, RowInv, BatchInv, OwnerInv, NoOrphanObject, AttachedKeepsObject, cleaner
<1>4. AvailableIsOwned'
  BY DEF SoftDelete, IInv, AvailableIsOwned, LinksOf
<1> QED
  BY <1>1, <1>2, <1>3, <1>4 DEF IInv

\* Reading a batch, or dropping it, changes nothing but the batch.
LEMMA BatchStep ==
  ASSUME IInv, FindCleanupCandidates \/ CleanupStops
  PROVE  IInv'
<1>1. UNCHANGED <<intent, state, age, due, objects, links, deleted, call, onTime>>
  BY DEF FindCleanupCandidates, CleanupStops
<1>2. TypeOK'
  BY DEF FindCleanupCandidates, CleanupStops, Candidate, IInv, TypeOK
<1>3. BatchInv'
  <2>1. CASE FindCleanupCandidates
    BY <2>1, FilesAssumption
    DEF FindCleanupCandidates, Candidate, IInv, TypeOK, BatchInv, RowInv
  <2>2. CASE CleanupStops
    BY <2>2 DEF CleanupStops, IInv, TypeOK, BatchInv
  <2> QED
    BY <2>1, <2>2
<1>4. RowInv' /\ CallInv' /\ OwnerInv' /\ NoOrphanObject' /\ AttachedKeepsObject'
  BY <1>1 DEF IInv, RowInv, CallInv, OwnerInv, NoOrphanObject, AttachedKeepsObject
<1>5. AvailableIsOwned'
  BY <1>1 DEF IInv, AvailableIsOwned, LinksOf
<1> QED
  BY <1>2, <1>3, <1>4, <1>5 DEF IInv

LEMMA DetachStep ==
  ASSUME IInv, NEW o \in Owners, NEW f \in Files, Detach(o, f)
  PROVE  IInv'
<1>1. TypeOK'
  BY DEF Detach, IInv, TypeOK, States, cleaner
<1>2. RowInv'
  BY DEF Detach, IInv, TypeOK, RowInv, Live, cleaner
<1>3. BatchInv'
  BY DEF Detach, IInv, TypeOK, BatchInv, cleaner
<1>4. CallInv'
  BY DEF Detach, IInv, TypeOK, CallInv, cleaner
<1>5. PICK p \in Owners : LinksOf(f) = Records(intent[f][1], p, f)
  BY DEF Detach, IInv, AvailableIsOwned
<1>6. LinksOf(f) = {<<"WORKSPACE", o, f>>}
  <2>1. intent[f][1] = "WORKSPACE"
    BY DEF Detach, IInv, OwnerInv, Kinds
  <2>2. LinksOf(f) = {<<"WORKSPACE", p, f>>} /\ <<"WORKSPACE", o, f>> \in LinksOf(f)
    BY <1>5, <2>1 DEF Records, Detach, LinksOf
  <2> QED
    BY <2>2
<1>7. \A l \in links' : l \in links /\ l[3] \in Files /\ l[3] # f
  BY <1>6 DEF Detach, LinksOf, IInv, TypeOK
<1>8. OwnerInv'
  BY <1>7 DEF Detach, IInv, TypeOK, OwnerInv
<1>9. AvailableIsOwned'
  <2>1. ASSUME NEW g \in Files, g # f
        PROVE  LinksOf(g)' = LinksOf(g)
    BY <2>1 DEF Detach, LinksOf
  <2>2. LinksOf(f)' = {}
    BY <1>7 DEF LinksOf
  <2> QED
    BY <2>1, <2>2 DEF Detach, IInv, TypeOK, AvailableIsOwned
<1>10. NoOrphanObject' /\ AttachedKeepsObject'
  BY DEF Detach, IInv, TypeOK, RowInv, NoOrphanObject, AttachedKeepsObject
<1> QED
  BY <1>1, <1>2, <1>3, <1>4, <1>8, <1>9, <1>10 DEF IInv

-----------------------------------------------------------------------------
(* The commit that attaches a file. *)

\* The rows that move to the new file are those of the parent; with the
\* trigger, none of the files they referred to stays available without one.
LEMMA AttachStep ==
  ASSUME IInv, NEW c \in Calls, call[c].step \in {"verified", "stamped"},
         NEW k \in Kinds, intent[call[c].file][1] = k,
         NEW replaced, NEW retired, Attach(c, k, replaced, retired),
         \/ replaced = {} /\ retired = {}
         \/ k = "DOCUMENT" /\ replaced = FilesOf(k, call[c].owner) /\ retired = {}
         \/ k = "TALENT" /\ replaced = FilesOf(k, call[c].owner) /\ retired = call[c].previous
  PROVE  IInv'
<1> DEFINE f == call[c].file
           o == call[c].owner
           newState == [g \in Files |-> IF g = f THEN "AVAILABLE"
                                        ELSE IF g \in retired /\ state[g] = "AVAILABLE"
                                        THEN "UNAVAILABLE" ELSE state[g]]
           newLinks == {l \in links : ~(l[1] = k /\ l[2] = o /\ l[3] \in replaced)}
                         \union Records(k, o, f)
<1>1. /\ f \in Files /\ o \in Owners /\ state[f] = "PENDING" /\ intent[f][1] = k
      /\ intent[f][1] # "CONVERSATION" => intent[f][2] = o
      /\ age[f] # "expired" => f \in objects
      /\ \A g \in call[c].previous : state[g] # "ABSENT" /\ intent[g] = <<"TALENT", o>>
  BY DEF IInv, CallInv, Attach
<1>2. /\ call' = [call EXCEPT ![c] = Idle]
      /\ UNCHANGED <<intent, age, due, objects, deleted, cleaner>>
  BY DEF Attach
<1>3. CASE UNCHANGED <<state, links, onTime>>
  BY <1>2, <1>3, AbandonStep DEF cleaner
<1>4. CASE /\ RequireAttachment(newState, newLinks, f, replaced)
           /\ state' = newState /\ links' = newLinks
           /\ onTime' = IF age[f] = "expired" THEN onTime ELSE onTime \union {f}
  <2>1. /\ state' \in [Files -> States] /\ state'[f] = "AVAILABLE"
        /\ \A g \in Files : g # f =>
             state'[g] = IF g \in retired /\ state[g] = "AVAILABLE" THEN "UNAVAILABLE" ELSE state[g]
    BY <1>1, <1>4 DEF IInv, TypeOK, States
  <2>2. /\ \A l \in Records(k, o, f) : l \in Tables \X Owners \X Files /\ l[2] = o /\ l[3] = f
        /\ \A l \in Records(k, o, f) : l[1] \in Kinds => l[1] = k
    BY <1>1 DEF Records, Tables, Kinds, Locked
  <2>3. TypeOK'
    <3>1. links' \subseteq Tables \X Owners \X Files
      BY <1>4, <2>2 DEF IInv, TypeOK
    <3> QED
      BY <1>1, <1>2, <1>4, <2>1, <3>1, IdleRequest DEF IInv, TypeOK, cleaner
  <2>4. RowInv'
    BY <1>1, <1>2, <1>4, <2>1 DEF IInv, TypeOK, RowInv, Live
  <2>5. BatchInv'
    BY <1>1, <1>2, <1>4, <2>1 DEF IInv, TypeOK, BatchInv, cleaner
  <2>6. CallInv'
    <3> SUFFICES ASSUME NEW d \in Calls, call'[d].step # "idle"
                 PROVE  CallInv!(d)!2'
      BY DEF CallInv
    <3>1. call'[d] = call[d] /\ call[d].step # "idle"
      BY <1>2, IdleRequest DEF IInv, TypeOK
    <3>2. CallInv!(d)!2
      BY <3>1 DEF IInv, CallInv
    <3>3. call[d].previous \subseteq Files
      BY DEF IInv, TypeOK, Request
    <3>4. \A g \in Files : state[g] # "ABSENT" => state'[g] # "ABSENT"
      BY <2>1
    <3> QED
      BY <1>2, <3>1, <3>2, <3>3, <3>4
  <2>7. ASSUME NEW g \in Files, state[g] # "AVAILABLE"
        PROVE  LinksOf(g) = {}
    BY <2>7 DEF IInv, AvailableIsOwned
  <2>8. ASSUME NEW g \in Files, g # f, state[g] = "AVAILABLE", g \notin replaced
        PROVE  g \notin retired /\ LinksOf(g)' = LinksOf(g)
    <3>1. PICK p \in Owners : LinksOf(g) = Records(intent[g][1], p, g)
      BY <2>8 DEF IInv, AvailableIsOwned
    <3>2. <<intent[g][1], p, g>> \in links
      BY <3>1 DEF Records, LinksOf
    <3>3. g \notin retired
      <4> SUFFICES ASSUME g \in retired PROVE FALSE
        OBVIOUS
      <4>1. k = "TALENT" /\ replaced = FilesOf(k, o) /\ intent[g] = <<"TALENT", o>>
        BY <1>1
      <4>2. p = o
        BY <3>2, <4>1 DEF IInv, OwnerInv
      <4> QED
        BY <2>8, <3>2, <4>1, <4>2 DEF FilesOf
    <3>4. \A l \in links : l[3] = g => l \in links'
      BY <1>4, <2>8
    <3>5. \A l \in links' : l[3] = g => l \in links
      BY <1>4, <2>2, <2>8
    <3> QED
      BY <3>3, <3>4, <3>5 DEF LinksOf
  <2>9. ASSUME NEW g \in Files, g # f, state[g] = "AVAILABLE", g \in replaced
        PROVE  LinksOf(g)' = {} /\ state'[g] # "AVAILABLE"
    <3>1. PICK p \in Owners : LinksOf(g) = Records(intent[g][1], p, g)
      BY <2>9 DEF IInv, AvailableIsOwned
    <3>2. <<k, o, g>> \in LinksOf(g) /\ k \in {"DOCUMENT", "TALENT"}
      BY <2>9 DEF FilesOf, LinksOf
    <3>3. LinksOf(g) = {<<k, o, g>>}
      BY <3>1, <3>2 DEF Records
    <3>4. \A l \in newLinks : l[3] # g
      BY <2>2, <2>9, <3>3 DEF LinksOf
    <3>5. newState[g] # "AVAILABLE"
      BY <1>4, <2>9, <3>4 DEF RequireAttachment
    <3> QED
      BY <1>4, <3>4, <3>5 DEF LinksOf
  <2>10. ASSUME NEW g \in Files, g # f, state[g] # "AVAILABLE"
         PROVE  LinksOf(g)' = {} /\ state'[g] # "AVAILABLE"
    <3>1. \A l \in links' : l[3] # g
      BY <1>4, <2>2, <2>7, <2>10 DEF LinksOf
    <3> QED
      BY <2>1, <2>10, <3>1 DEF LinksOf
  <2>11. ASSUME NEW g \in Files, g = f
         PROVE  LinksOf(g)' = Records(k, o, f)
    <3>1. \A l \in links : l[3] # g
      BY <1>1, <2>7, <2>11 DEF LinksOf
    <3>2. \A l \in Records(k, o, f) : l \in links' /\ l[3] = g
      BY <1>4, <2>2, <2>11
    <3>3. \A l \in links' : l[3] = g => l \in Records(k, o, f)
      BY <1>4, <3>1
    <3> QED
      BY <3>2, <3>3 DEF LinksOf
  <2>12. AvailableIsOwned'
    <3> SUFFICES ASSUME NEW g \in Files
                 PROVE  IF state'[g] = "AVAILABLE"
                        THEN \E p \in Owners : LinksOf(g)' = Records(intent'[g][1], p, g)
                        ELSE LinksOf(g)' = {}
      BY DEF AvailableIsOwned, Records
    <3>1. CASE g = f
      <4>1. LinksOf(g)' = Records(intent'[g][1], o, g)
        BY <1>1, <1>2, <2>11, <3>1
      <4> QED
        BY <1>1, <2>1, <3>1, <4>1
    <3>2. CASE g # f /\ state[g] = "AVAILABLE" /\ g \notin replaced
      <4>1. PICK p \in Owners : LinksOf(g) = Records(intent[g][1], p, g)
        BY <3>2 DEF IInv, AvailableIsOwned
      <4> QED
        BY <1>2, <2>1, <2>8, <3>2, <4>1
    <3>3. CASE g # f /\ (state[g] # "AVAILABLE" \/ g \in replaced)
      BY <2>9, <2>10, <3>3
    <3> QED
      BY <3>1, <3>2, <3>3
  <2>13. OwnerInv'
    <3> SUFFICES ASSUME NEW l \in links'
                 PROVE  /\ state'[l[3]] = "AVAILABLE"
                        /\ l[1] \in Kinds => intent[l[3]][1] = l[1]
                        /\ intent[l[3]][1] # "CONVERSATION" => intent[l[3]][2] = l[2]
      BY <1>2 DEF OwnerInv
    <3>1. CASE l \in Records(k, o, f)
      BY <1>1, <2>1, <2>2, <3>1
    <3>2. CASE l \notin Records(k, o, f)
      <4>1. l \in links /\ l[3] \in Files
        BY <1>4, <3>2 DEF IInv, TypeOK
      <4>2. OwnerInv!(l)
        BY <4>1 DEF IInv, OwnerInv
      <4>3. l[3] # f
        BY <1>1, <4>2
      <4>4. LinksOf(l[3])' # {}
        BY DEF LinksOf
      <4>5. l[3] \notin replaced
        BY <2>9, <4>1, <4>2, <4>3, <4>4
      <4> QED
        BY <2>1, <2>8, <4>1, <4>2, <4>3, <4>5
    <3> QED
      BY <3>1, <3>2
  <2>14. NoOrphanObject' /\ AttachedKeepsObject'
    BY <1>1, <1>2, <1>4, <2>1 DEF IInv, TypeOK, RowInv, NoOrphanObject, AttachedKeepsObject
  <2> QED
    BY <2>3, <2>4, <2>5, <2>6, <2>12, <2>13, <2>14 DEF IInv
<1> QED
  BY <1>3, <1>4 DEF Attach

LEMMA ConflictStep ==
  ASSUME IInv, NEW c \in Calls, Conflict(c)
  PROVE  IInv'
BY AbandonStep DEF Conflict

LEMMA SettleStep ==
  ASSUME IInv, NEW c \in Calls, NEW k \in Kinds, k # "TALENT", NEW replaced,
         Settle(c, k, replaced),
         \/ replaced = {}
         \/ k = "DOCUMENT" /\ replaced = FilesOf(k, call[c].owner)
  PROVE  IInv'
<1>1. call[c].step = "stamped" /\ intent[call[c].file][1] = k
  BY DEF Settle
<1>2. CASE Attach(c, k, replaced, {})
  BY <1>1, <1>2, AttachStep
<1>3. CASE Expire(c)
  BY <1>1, <1>3, GiveUpStep
<1>4. CASE Conflict(c)
  BY <1>4, ConflictStep
<1> QED
  BY <1>2, <1>3, <1>4 DEF Settle

LEMMA CommitStep ==
  ASSUME IInv, NEW c \in Calls, Commits(c)
  PROVE  IInv'
<1>1. CASE MakeAvailable(c)
  BY <1>1, AttachStep, ConflictStep DEF MakeAvailable, Kinds
<1>2. CASE MakeAvailableForTask(c)
  BY <1>2, SettleStep DEF MakeAvailableForTask, Kinds, Locked
<1>3. CASE MakeAvailableForExpense(c)
  BY <1>3, SettleStep DEF MakeAvailableForExpense, Kinds, Locked
<1>4. CASE MakeAvailableForReport(c)
  BY <1>4, SettleStep DEF MakeAvailableForReport, Kinds, Locked
<1>5. CASE MakeAvailableForLetter(c)
  BY <1>5, SettleStep DEF MakeAvailableForLetter, Kinds, Locked
<1>6. CASE MakeAvailableForDocument(c)
  BY <1>6, SettleStep DEF MakeAvailableForDocument, Kinds, Locked
<1>7. CASE MakeAvailableForConversation(c)
  BY <1>7, SettleStep DEF MakeAvailableForConversation, Kinds
<1>8. CASE ReplaceTalentImage(c)
  BY <1>8, AttachStep, AbandonStep, ConflictStep DEF ReplaceTalentImage, Kinds
<1> QED
  BY <1>1, <1>2, <1>3, <1>4, <1>5, <1>6, <1>7, <1>8 DEF Commits

LEMMA LocksStep ==
  ASSUME IInv, NEW c \in Calls, Locks(c)
  PROVE  IInv'
<1>1. \A k \in Kinds \ Deletable : <<k, call[c].owner>> \notin deleted
  BY DEF IInv, TypeOK
<1>2. CASE LockTask(c)
  BY <1>1, <1>2, LockStep DEF LockTask, Kinds, Locked, Deletable
<1>3. CASE LockExpense(c)
  BY <1>1, <1>3, LockStep DEF LockExpense, Kinds, Locked, Deletable
<1>4. CASE LockReport(c)
  BY <1>1, <1>4, LockStep DEF LockReport, Kinds, Locked, Deletable
<1>5. CASE LockLetter(c)
  BY <1>5, LockStep DEF LockLetter, Kinds, Locked
<1>6. CASE LockDocument(c)
  BY <1>6, LockStep DEF LockDocument, Kinds, Locked
<1>7. CASE CheckMessage(c)
  BY <1>7, TimeStep DEF CheckMessage, Kinds, Locked, Deletable
<1>8. CASE BeginTalentImage(c)
  BY <1>8, TimeStep DEF BeginTalentImage, Kinds, Locked, Deletable
<1> QED
  BY <1>2, <1>3, <1>4, <1>5, <1>6, <1>7, <1>8 DEF Locks

-----------------------------------------------------------------------------
(* The theorems. *)

LEMMA InitIInv == Init => IInv
<1> SUFFICES ASSUME Init PROVE IInv
  OBVIOUS
<1>1. TypeOK
  BY IdleRequest DEF Init, TypeOK, Kinds, States, Ages
<1>2. RowInv /\ BatchInv /\ OwnerInv /\ NoOrphanObject /\ AttachedKeepsObject
  BY DEF Init, RowInv, BatchInv, OwnerInv, NoOrphanObject, AttachedKeepsObject
<1>3. CallInv /\ AvailableIsOwned
  BY IdleRequest DEF Init, CallInv, AvailableIsOwned, LinksOf
<1> QED
  BY <1>1, <1>2, <1>3 DEF IInv

LEMMA NextIInv == IInv /\ [Next]_vars => IInv'
<1> SUFFICES ASSUME IInv, [Next]_vars PROVE IInv'
  OBVIOUS
<1>1. ASSUME NEW o \in Owners, NEW f \in Files, Creates(o, f)
      PROVE  IInv'
  BY <1>1, CreateStep
  DEF Creates, Kinds, Locked, CreateUploadIntent, CreateTaskUploadIntent,
    CreateTalentImageUploadIntent, CreateExpenseUploadIntent, CreateReportUploadIntent,
    CreateLetterAttachmentUploadIntent, CreateDocumentAttachmentUploadIntent,
    CreateConversationUploadIntent
<1>2. ASSUME NEW o \in Owners, NEW f \in Files, Detach(o, f)
      PROVE  IInv'
  BY <1>2, DetachStep
<1>3. ASSUME NEW c \in Calls, NEW o \in Owners, NEW f \in Files, Finds(c, o, f)
      PROVE  IInv'
  BY <1>3, FindStep
  DEF Finds, Kinds, Locked, Finalize, FinalizeTaskUpload, FinalizeTalentImage,
    FinalizeExpenseUpload, FinalizeReportUpload, FinalizeLetterAttachment,
    FinalizeDocumentUpload, FinalizeMessageUpload
<1>4. ASSUME NEW c \in Calls, ReadObject(c) \/ MakeUnavailable(c) \/ Abandon(c)
      PROVE  IInv'
  BY <1>4, ReadStep, GiveUpStep, AbandonStep DEF MakeUnavailable, Abandon
<1>5. ASSUME NEW c \in Calls, Locks(c) \/ Commits(c)
      PROVE  IInv'
  BY <1>5, LocksStep, CommitStep
<1>6. ASSUME NEW k \in Deletable, NEW o \in Owners, SoftDelete(k, o)
      PROVE  IInv'
  BY <1>6, DeleteParentStep
<1>7. ASSUME NEW f \in Files, OfFile(f)
      PROVE  IInv'
  BY <1>7, FileStep
<1>8. CASE FindCleanupCandidates \/ CleanupStops
  BY <1>8, BatchStep
<1>9. CASE UNCHANGED vars
  <2>1. TypeOK' /\ RowInv' /\ BatchInv'
    BY <1>9 DEF vars, cleaner, IInv, TypeOK, RowInv, BatchInv
  <2>2. CallInv' /\ OwnerInv' /\ AvailableIsOwned'
    BY <1>9 DEF vars, IInv, CallInv, OwnerInv, AvailableIsOwned, LinksOf
  <2>3. NoOrphanObject' /\ AttachedKeepsObject'
    BY <1>9 DEF vars, IInv, NoOrphanObject, AttachedKeepsObject
  <2> QED
    BY <2>1, <2>2, <2>3 DEF IInv
<1> QED
  BY <1>1, <1>2, <1>3, <1>4, <1>5, <1>6, <1>7, <1>8, <1>9 DEF Next

LEMMA SpecIInv == Spec => []IInv
<1> QED
  BY InitIInv, NextIInv, PTL DEF Spec

\* Every variable of the file lifecycle keeps its type, for any number of
\* files, parents and calls.
THEOREM TypeCorrect == Spec => []TypeOK
<1>1. IInv => TypeOK
  BY DEF IInv
<1> QED
  BY <1>1, SpecIInv, PTL

\* A file is available exactly while the rows of one parent of its kind refer
\* to it: the conditional updates and the deferred trigger keep state and
\* attachment together under any interleaving.
THEOREM AvailableFilesAreOwned == Spec => []AvailableIsOwned
<1>1. IInv => AvailableIsOwned
  BY DEF IInv
<1> QED
  BY <1>1, SpecIInv, PTL

\* Wherever cleanup, a call or a grant stopped, each stored object still has
\* the row through which cleanup finds it.
THEOREM ObjectsHaveRows == Spec => []NoOrphanObject
<1>1. IInv => NoOrphanObject
  BY DEF IInv
<1> QED
  BY <1>1, SpecIInv, PTL

\* Cleanup never takes the object of a file that was attached before its
\* intent expired, until the retention after its removal has passed.
THEOREM AttachedFilesKeepObjects == Spec => []AttachedKeepsObject
<1>1. IInv => AttachedKeepsObject
  BY DEF IInv
<1> QED
  BY <1>1, SpecIInv, PTL

LEMMA AttachRespectsDeletion ==
  ASSUME IInv, NEW c \in Calls, NEW k \in Kinds, NEW replaced, NEW retired,
         call[c].step = "stamped" \/ (call[c].step = "verified" /\ k \notin Deletable),
         intent[call[c].file][1] = k, Attach(c, k, replaced, retired),
         NEW l \in links' \ links
  PROVE  <<l[1], l[2]>> \notin deleted
<1>1. l \in Records(k, call[c].owner, call[c].file)
  BY DEF Attach
<1>2. <<k, call[c].owner>> \notin deleted
  BY DEF IInv, CallInv, TypeOK
<1>3. <<"LETTER_DOCUMENT", call[c].owner>> \notin deleted
  BY DEF IInv, TypeOK, Deletable
<1> QED
  BY <1>1, <1>2, <1>3 DEF Records

\* Nothing is attached to a letter or a document that is already deleted,
\* because the row lock of the transaction comes with a second look.
THEOREM DeletedStayUntouched == Spec => NothingAttachedToDeleted
<1>1. ASSUME IInv, [Next]_vars, NEW l \in links' \ links
      PROVE  <<l[1], l[2]>> \notin deleted
  <2>1. PICK c \in Calls : Commits(c)
    <3>1. ASSUME NEW o \in Owners, NEW f \in Files, Creates(o, f) \/ Detach(o, f)
          PROVE  links' \subseteq links
      BY <3>1
      DEF Creates, Detach, CreateUploadIntent, CreateTaskUploadIntent,
        CreateTalentImageUploadIntent, CreateExpenseUploadIntent, CreateReportUploadIntent,
        CreateLetterAttachmentUploadIntent, CreateDocumentAttachmentUploadIntent,
        CreateConversationUploadIntent, CreatePending
    <3>2. ASSUME NEW d \in Calls, NEW o \in Owners, NEW f \in Files, Finds(d, o, f)
          PROVE  links' = links
      BY <3>2
      DEF Finds, Finalize, FinalizeTaskUpload, FinalizeTalentImage, FinalizeExpenseUpload,
        FinalizeReportUpload, FinalizeLetterAttachment, FinalizeDocumentUpload,
        FinalizeMessageUpload, FindPending
    <3>3. ASSUME NEW d \in Calls, ReadObject(d) \/ MakeUnavailable(d) \/ Abandon(d) \/ Locks(d)
          PROVE  links' = links
      BY <3>3
      DEF ReadObject, MakeUnavailable, Abandon, Locks, LockTask, LockExpense, LockReport,
        LockLetter, LockDocument, CheckMessage, BeginTalentImage, LockOwner, TakeTime
    <3>4. ASSUME NEW f \in Files, OfFile(f)
          PROVE  links' = links
      BY <3>4
      DEF OfFile, CreateUploadGrant, DeletePending, Upload, DeleteObject,
        DeleteCleanupCandidate, GrantLapses, IntentExpires, RetentionPasses
    <3>5. ASSUME NEW k \in Deletable, NEW o \in Owners, SoftDelete(k, o)
          PROVE  links' = links
      BY <3>5 DEF SoftDelete
    <3>6. FindCleanupCandidates \/ CleanupStops \/ UNCHANGED vars => links' = links
      BY DEF FindCleanupCandidates, CleanupStops, vars
    <3> QED
      BY <1>1, <3>1, <3>2, <3>3, <3>4, <3>5, <3>6 DEF Next
  <2>2. PICK k, replaced, retired :
          /\ k \in Kinds
          /\ call[c].step = "stamped" \/ (call[c].step = "verified" /\ k \notin Deletable)
          /\ intent[call[c].file][1] = k /\ Attach(c, k, replaced, retired)
    BY <1>1, <2>1
    DEF Commits, MakeAvailable, MakeAvailableForTask, MakeAvailableForExpense,
      MakeAvailableForReport, MakeAvailableForLetter, MakeAvailableForDocument,
      MakeAvailableForConversation, ReplaceTalentImage, Settle, Expire, Conflict,
      Kinds, Locked, Deletable
  <2> QED
    BY <1>1, <2>2, AttachRespectsDeletion
<1>2. IInv /\ [Next]_vars => [\A l \in links' \ links : <<l[1], l[2]>> \notin deleted]_vars
  BY <1>1
<1> QED
  BY <1>2, SpecIInv, PTL DEF Spec, NothingAttachedToDeleted
=============================================================================
