------------------------------- MODULE Folders -------------------------------
(***************************************************************************)
(* One folder transfer (ADR-042): the declared paths, the member transfers *)
(* that carry their bytes, the seal that turns the folder into a link, and *)
(* what happens to the members when the link dies.                         *)
(*                                                                         *)
(* As in Uploads an action is the stretch of a handler between two awaits.  *)
(* Here one store call stands for listing and assembling, and the caps of  *)
(* Uploads are left out: a member skips the job caps.  Time is the passing *)
(* of a deadline together with the purge's grace period.                   *)
(*                                                                         *)
(* The folder's row and each member's are committed one by one.  The seal  *)
(* writes them in one stretch of the gateway, which a crash may cut short; *)
(* the operator revokes from a process of its own, which may stop anywhere *)
(* and which the gateway does not wait for.                                *)
(***************************************************************************)
EXTENDS Naturals, FiniteSets, ServicePolicy

CONSTANTS
  Path,        \* the relative paths of the manifest
  Member,      \* member transfer ids randomUUID may mint
  Request,     \* slots for requests the gateway has in flight
  Password,    \* what a sender may seal the folder with
  Deploy,      \* the deployment's service switches
  NoMember, NoPath, NoPassword, NoRow

ASSUME DeployAssumption == Deploy \in Deployment
ASSUME NoneAssumption ==
  NoMember \notin Member /\ NoPath \notin Path /\ NoPassword \notin Password

VARIABLES
  folder,     \* the folder's row in transfers
  claim,      \* folder_files.transfer_id of every declared path
  upload,     \* uploads: the member's lifecycle state and path
  row,        \* transfers: the member's row, or NoRow
  store,      \* the object store: "nothing", "parts" or "object"
  req,        \* requests in flight
  notified,   \* object-created notifications, delivered at least once
  qc,         \* members a worker was handed a QC job for
  passed,     \* members whose own deadline and its grace period are over
  pass,       \* what is left of the list the purge is working through
  behind,     \* members the operator's revocation has yet to reach
  torn        \* history: members a seal that was cut short did not reach

vars == <<folder, claim, upload, row, store, req, notified, qc, passed, pass, behind, torn>>

purging == <<pass, behind, torn>>

\* A member's row: which deadline it carries, and whether it was written after
\* the folder was sealed.
Rows == [options : Options, deadline : {"own", "folder"}, revoked : BOOLEAN,
         purged : BOOLEAN, late : BOOLEAN]

ASSUME NoRowAssumption == NoRow \notin Rows

Idle == [at |-> "idle", m |-> NoMember, p |-> NoPath, password |-> NoPassword]

Init ==
  /\ folder = [state |-> "absent", password |-> NoPassword,
               revoked |-> FALSE, expired |-> FALSE]
  /\ claim = [p \in Path |-> NoMember]
  /\ upload = [m \in Member |-> [state |-> "absent", path |-> NoPath]]
  /\ row = [m \in Member |-> NoRow]
  /\ store = [m \in Member |-> "nothing"]
  /\ req = [r \in Request |-> Idle]
  /\ notified = {}
  /\ qc = {}
  /\ passed = {}
  /\ pass = {}
  /\ behind = {}
  /\ torn = {}

-----------------------------------------------------------------------------
Recorded(m) == row[m] # NoRow

\* listFolderMembers: the claimed members that have a transfer row.
Listed == {m \in Member : Recorded(m) /\ \E p \in Path : claim[p] = m}

\* capabilityRevoked for the folder's own id, negated.
FolderLive == folder.state = "ready" /\ ~folder.revoked /\ ~folder.expired

Expired(m) == IF row[m].deadline = "own" THEN m \in passed ELSE folder.expired

\* Mutant: a path nobody claimed is not reported.
MissingOfClaimed ==
  {p \in Path : /\ claim[p] # NoMember
                /\ upload[claim[p]].state # "complete" \/ ~Recorded(claim[p])}

\* The paths POST /folders/:id/complete reports as not finished.
Missing ==
  {p \in Path : claim[p] = NoMember \/ upload[claim[p]].state # "complete"
                                    \/ ~Recorded(claim[p])}

Fresh ==
  {m \in Member : /\ upload[m].state = "absent"
                  /\ store[m] = "nothing"
                  /\ \A r \in Request : req[r].m # m}

At(r, step) == req[r].at = step
Answered(r) == req' = [req EXCEPT ![r] = Idle]

-----------------------------------------------------------------------------
\* POST /folders: the row and its manifest in one transaction.
CreateFolder ==
  /\ folder.state = "absent"
  /\ folder' = [folder EXCEPT !.state = "uploading"]
  /\ UNCHANGED <<claim, upload, row, store, req, notified, qc, passed, purging>>

\* POST /uploads with a folderId, up to `await g.initiate`.
InitiateStart(r, p) ==
  /\ req[r] = Idle
  /\ folder.state = "uploading"
  /\ claim[p] # NoMember => upload[claim[p]].state # "complete"
  /\ \E m \in Fresh : req' = [req EXCEPT ![r] = [Idle EXCEPT !.at = "creating", !.m = m, !.p = p]]
  /\ UNCHANGED <<folder, claim, upload, row, store, notified, qc, passed, purging>>

\* The store answers; createUpload, claimFolderFile, answer.
InitiateRow(r) ==
  /\ At(r, "creating")
  /\ store' = [store EXCEPT ![req[r].m] = "parts"]
  /\ upload' = [upload EXCEPT ![req[r].m] = [state |-> "active", path |-> req[r].p]]
  /\ claim' = [claim EXCEPT ![req[r].p] = req[r].m]
  /\ Answered(r)
  /\ UNCHANGED <<folder, row, notified, qc, passed, purging>>

\* POST /uploads/complete of a member, up to `await g.complete`.  A member
\* whose path was claimed by a newer upload is refused here, and only here.
CompleteStart(r, m) ==
  /\ req[r] = Idle
  /\ upload[m].state = "active"
  /\ claim[upload[m].path] = m
  /\ req' = [req EXCEPT ![r] = [Idle EXCEPT !.at = "assembling", !.m = m]]
  /\ UNCHANGED <<folder, claim, upload, row, store, notified, qc, passed, purging>>

Assemble(r) ==
  /\ At(r, "assembling")
  /\ \/ /\ store[req[r].m] = "parts"
        /\ store' = [store EXCEPT ![req[r].m] = "object"]
        /\ notified' = notified \union {req[r].m}
        /\ req' = [req EXCEPT ![r] = [@ EXCEPT !.at = "assembled"]]
     \/ /\ store[req[r].m] # "parts"
        /\ Answered(r)
        /\ UNCHANGED <<store, notified>>
  /\ UNCHANGED <<folder, claim, upload, row, qc, passed, purging>>

\* Mutant: the request's selections are honoured (none sent: everything on).
NewRowAsAsked(m) ==
  [options |-> NoOptions, deadline |-> "own", revoked |-> FALSE, purged |-> FALSE,
   late |-> folder.state = "ready"]

\* The member's row: transfer-only whatever was asked, its own expiry, no
\* password.  Its folder's expiry replaces its own at the seal.
NewRow(m) ==
  [options |-> ApplyServicePolicy(Deploy, MemberOptions, FALSE),
   deadline |-> "own", revoked |-> FALSE, purged |-> FALSE,
   late |-> folder.state = "ready"]

\* The rest of /uploads/complete: setUploadState, saveTransfer, meter.
Record(r) ==
  /\ At(r, "assembled")
  /\ upload' = [upload EXCEPT ![req[r].m] = [@ EXCEPT !.state = "complete"]]
  /\ row' = [row EXCEPT ![req[r].m] = NewRow(req[r].m)]
  /\ Answered(r)
  /\ UNCHANGED <<folder, claim, store, notified, qc, passed, purging>>

\* POST /events/b2 for a member's object, delivered at least once.
Notify(m) ==
  /\ m \in notified
  /\ qc' = IF AnyServiceOn(IF Recorded(m) THEN row[m].options ELSE NoOptions)
           THEN qc \union {m} ELSE qc
  /\ UNCHANGED <<folder, claim, upload, row, store, req, notified, passed, purging>>

-----------------------------------------------------------------------------
\* POST /folders/:id/complete: the folder is read, then the body is awaited.  A
\* request that read a sent folder is answered alreadyComplete and does nothing.
SealStart(r, password) ==
  /\ req[r] = Idle
  /\ folder.state = "uploading"
  /\ req' = [req EXCEPT ![r] = [Idle EXCEPT !.at = "sealing", !.password = password]]
  /\ UNCHANGED <<folder, claim, upload, row, store, notified, qc, passed, purging>>

\* Mutant: the update is not guarded by state = 'uploading'.
MarkReadyUnguarded(password) ==
  /\ folder' = [folder EXCEPT !.state = "ready", !.password = password]
  /\ row' = [m \in Member |->
               IF m \in Listed THEN [row[m] EXCEPT !.deadline = "folder"] ELSE row[m]]

\* Mutant: the members keep the expiry they were created with.
MarkReadyAlone(password) ==
  IF folder.state = "uploading"
  THEN /\ folder' = [folder EXCEPT !.state = "ready", !.password = password]
       /\ UNCHANGED row
  ELSE UNCHANGED <<folder, row>>

\* The rows of S have taken the folder's expiry.
Reached(S) ==
  [m \in Member |-> IF m \in S THEN [row[m] EXCEPT !.deadline = "folder"] ELSE row[m]]

\* markFolderReady: the guarded update, and the members take the folder's expiry.
MarkFolderReady(password) ==
  IF folder.state = "uploading"
  THEN /\ folder' = [folder EXCEPT !.state = "ready", !.password = password]
       /\ row' = Reached(Listed)
  ELSE UNCHANGED <<folder, row>>

\* ... refused because paths are missing, or sealed.
SealFinish(r) ==
  /\ At(r, "sealing")
  /\ IF Missing = {}
     THEN MarkFolderReady(req[r].password)
     ELSE UNCHANGED <<folder, row>>
  /\ Answered(r)
  /\ UNCHANGED <<claim, upload, store, notified, qc, passed, purging>>

\* The process dies after the folder's row was committed and before every
\* member's was.  A second try answers that the folder is complete.
SealCutShort(r) ==
  /\ At(r, "sealing")
  /\ folder.state = "uploading" /\ Missing = {}
  /\ folder' = [folder EXCEPT !.state = "ready", !.password = req[r].password]
  /\ \E S \in SUBSET Listed :
       /\ S # Listed
       /\ row' = Reached(S)
       /\ torn' = Listed \ S
  /\ req' = [q \in Request |-> Idle]
  /\ pass' = {}
  /\ UNCHANGED <<claim, upload, store, notified, qc, passed, behind>>

\* setRecipientState by the operator on a link that was sent: the folder's row,
\* and the list of the members that are to follow it.
SetRevoked(revoked) ==
  /\ folder.state = "ready"
  /\ folder' = [folder EXCEPT !.revoked = revoked]
  /\ behind' = Listed
  /\ UNCHANGED <<claim, upload, row, store, req, notified, qc, passed, pass, torn>>

\* ... and one of them, when the operator's process gets there.
SetMemberRevoked(m) ==
  /\ m \in behind
  /\ row' = [row EXCEPT ![m] = [@ EXCEPT !.deadline = "folder", !.revoked = folder.revoked]]
  /\ behind' = behind \ {m}
  /\ torn' = torn \ {m}
  /\ UNCHANGED <<folder, claim, upload, store, req, notified, qc, passed, pass>>

-----------------------------------------------------------------------------
\* Every link lives equally long, so one created later dies later.
OwnDeadline(m) ==
  /\ Recorded(m)
  /\ m \notin passed
  /\ row[m].late => folder.expired
  /\ passed' = passed \union {m}
  /\ UNCHANGED <<folder, claim, upload, row, store, req, notified, qc, purging>>

FolderDeadline ==
  /\ folder.state = "ready"
  /\ ~folder.expired
  /\ \A m \in Member : Recorded(m) /\ ~row[m].late => m \in passed
  /\ folder' = [folder EXCEPT !.expired = TRUE]
  /\ UNCHANGED <<claim, upload, row, store, req, notified, qc, passed, purging>>

Due(m) == Recorded(m) /\ ~row[m].purged /\ (row[m].revoked \/ Expired(m))

\* Mutant: only the members the folder lists are reclaimed.
PurgeableListed == {m \in Listed : Due(m)}

\* purgeableTransfers: a transfer whose own row is revoked or expired.
Purgeable == {m \in Member : Due(m)}

\* runPurge, one pass at a time: the list is read once,
PurgeStart ==
  /\ pass = {} /\ Purgeable # {}
  /\ pass' = Purgeable
  /\ UNCHANGED <<folder, claim, upload, row, store, req, notified, qc, passed, behind, torn>>

\* ... and every transfer on it loses its objects, whatever its row says when
\* its turn comes.
Purge(m) ==
  /\ m \in pass
  /\ row' = [row EXCEPT ![m] = [@ EXCEPT !.purged = TRUE]]
  /\ store' = [store EXCEPT ![m] = "nothing"]
  /\ pass' = pass \ {m}
  /\ UNCHANGED <<folder, claim, upload, req, notified, qc, passed, behind, torn>>

\* A version cannot be listed or deleted: the others may be gone, the transfer
\* is left to the next pass.
PurgeFails(m) ==
  /\ m \in pass
  /\ store' \in {store, [store EXCEPT ![m] = "nothing"]}
  /\ pass' = pass \ {m}
  /\ UNCHANGED <<folder, claim, upload, row, req, notified, qc, passed, behind, torn>>

\* The process restarts: its requests and its pass are gone.
Crash ==
  /\ req' = [r \in Request |-> Idle]
  /\ pass' = {}
  /\ UNCHANGED <<folder, claim, upload, row, store, notified, qc, passed, behind, torn>>

\* One request's store call fails, or its answer is lost.
RequestFails(r) ==
  /\ At(r, "creating") \/ At(r, "assembling") \/ At(r, "assembled")
  /\ Answered(r)
  /\ UNCHANGED <<folder, claim, upload, row, store, notified, qc, passed, purging>>

\* The process dies after createUpload, before claimFolderFile; or after
\* setUploadState, before saveTransfer.
CrashBetweenWrites(r) ==
  /\ \/ /\ At(r, "creating")
        /\ store' = [store EXCEPT ![req[r].m] = "parts"]
        /\ upload' = [upload EXCEPT ![req[r].m] = [state |-> "active", path |-> req[r].p]]
     \/ /\ At(r, "assembled")
        /\ upload' = [upload EXCEPT ![req[r].m] = [@ EXCEPT !.state = "complete"]]
        /\ UNCHANGED store
  /\ req' = [q \in Request |-> Idle]
  /\ pass' = {}
  /\ UNCHANGED <<folder, claim, row, notified, qc, passed, behind, torn>>

-----------------------------------------------------------------------------
RequestStep(r) == InitiateRow(r) \/ Assemble(r) \/ Record(r) \/ SealFinish(r)

Next ==
  \/ CreateFolder
  \/ \E r \in Request :
       \/ RequestStep(r) \/ RequestFails(r) \/ CrashBetweenWrites(r) \/ SealCutShort(r)
       \/ \E p \in Path : InitiateStart(r, p)
       \/ \E m \in Member : CompleteStart(r, m)
       \/ \E password \in Password \union {NoPassword} : SealStart(r, password)
  \/ \E m \in Member :
       \/ Notify(m) \/ OwnDeadline(m)
       \/ SetMemberRevoked(m) \/ Purge(m) \/ PurgeFails(m)
  \/ \E revoked \in BOOLEAN : SetRevoked(revoked)
  \/ FolderDeadline
  \/ PurgeStart
  \/ Crash

Spec == Init /\ [][Next]_vars

\* Time passes, and the purge, which runs on a timer and tries a transfer again
\* in every pass, is not refused for ever.
Fairness ==
  /\ \A m \in Member : WF_vars(OwnDeadline(m)) /\ SF_vars(Purge(m))
  /\ WF_vars(PurgeStart)

FairSpec == Spec /\ Fairness

-----------------------------------------------------------------------------
RequestType ==
  [at : {"idle", "creating", "assembling", "assembled", "sealing"},
   m : Member \union {NoMember}, p : Path \union {NoPath},
   password : Password \union {NoPassword}]

TypeOK ==
  /\ folder \in [state : {"absent", "uploading", "ready"},
                 password : Password \union {NoPassword},
                 revoked : BOOLEAN, expired : BOOLEAN]
  /\ claim \in [Path -> Member \union {NoMember}]
  /\ upload \in [Member -> [state : {"absent", "active", "complete"},
                           path : Path \union {NoPath}]]
  /\ row \in [Member -> Rows \union {NoRow}]
  /\ store \in [Member -> {"nothing", "parts", "object"}]
  /\ req \in [Request -> RequestType]
  /\ notified \in SUBSET Member
  /\ qc \in SUBSET Member
  /\ passed \in SUBSET Member
  /\ pass \in SUBSET Member
  /\ behind \in SUBSET Member
  /\ torn \in SUBSET Member

\* A second seal, concurrent or late, changes nothing: the folder stays sent
\* and keeps the password of the seal that won (markFolderReady).
SealedTermsFixed ==
  [][folder.state = "ready" =>
       folder'.state = "ready" /\ folder'.password = folder.password]_vars

\* Whatever claims and completions race with the seal, a sent folder had, for
\* every declared path, a member that was completed and recorded.
EveryPathWasSent ==
  folder.state = "ready" =>
    \A p \in Path : \E m \in Member :
      upload[m].path = p /\ upload[m].state = "complete" /\ Recorded(m)

\* A worker is handed a member only when the notification overtook the
\* member's row; a recorded member is transfer-only (ADR-042).
QcOnlyByOvertaking ==
  [][\A m \in qc' \ qc : ~Recorded(m)]_vars

\* The purge reads each member's own row.  It still never sets out to take a
\* listed file while the folder can be opened, because the seal and the
\* operator's revocation rewrite the members' rows after the folder's: except
\* a member that a seal cut short or an unfinished revocation has not reached.
\* (A file that was listed in time is taken even if the link is restored
\* before its turn.)
PurgeSparesLiveFolder ==
  [][\A m \in Listed \ (torn \union behind) : FolderLive => m \notin pass' \ pass]_vars

\* Storage is reclaimed in the end, also for a member that lost its path to a
\* newer upload and is listed by no folder.
EveryMemberReclaimed ==
  \A m \in Member :
    (folder.expired /\ Recorded(m)) ~> (Recorded(m) /\ row[m].purged)
=============================================================================
