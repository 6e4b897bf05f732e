--------------------------- MODULE FoldersProofs ---------------------------
(***************************************************************************)
(* Proofs about Folders, for any number of paths, members and requests,    *)
(* and for every deployment.                                               *)
(***************************************************************************)
EXTENDS Folders, TLAPS

\* A claimed path has an upload of that very path.
Claimed ==
  \A p \in Path :
    claim[p] # NoMember => upload[claim[p]].path = p /\ upload[claim[p]].state # "absent"

Claims(m) == \E p \in Path : claim[p] = m

\* What a member's row says, given its upload, its object and its folder.
RowInOrder(m) ==
  /\ upload[m].state = "absent" => ~Recorded(m)
  /\ store[m] = "parts" => ~Recorded(m)
  /\ m \in passed \/ m \in pass \/ m \in behind => Recorded(m)
  /\ m \in behind => folder.state = "ready"
  /\ Recorded(m) => ~AnyServiceOn(row[m].options)
  /\ Recorded(m) /\ row[m].late /\ m \in passed => folder.expired
  /\ Recorded(m) /\ folder.state # "ready" => ~row[m].revoked
  /\ Recorded(m) /\ folder.state = "ready" /\ Claims(m) =>
       /\ row[m].deadline = "folder" \/ row[m].late \/ m \in torn
       /\ row[m].revoked => folder.revoked \/ m \in behind

\* What a request in flight has seen.
Placed(r) ==
  /\ At(r, "creating") =>
       /\ req[r].m \in Member /\ req[r].p \in Path
       /\ upload[req[r].m].state = "absent"
       /\ \A q \in Request \ {r} : req[q].m # req[r].m
  /\ At(r, "assembling") => req[r].m \in Member /\ upload[req[r].m].state # "absent"
  /\ At(r, "assembled") =>
       /\ req[r].m \in Member /\ upload[req[r].m].state # "absent"
       /\ ~Recorded(req[r].m) /\ store[req[r].m] = "object"
       /\ \A q \in Request \ {r} : At(q, "assembled") => req[q].m # req[r].m

\* The inductive invariant.
IInv ==
  /\ TypeOK
  /\ Claimed
  /\ \A m \in Member : RowInOrder(m)
  /\ \A r \in Request : Placed(r)
  /\ EveryPathWasSent

-----------------------------------------------------------------------------
(* Types.                                                                  *)

LEMMA IdleType == Idle \in RequestType
BY DEF Idle, RequestType

LEMMA PolicyType ==
  ASSUME NEW o \in Options
  PROVE  ApplyServicePolicy(Deploy, o, FALSE) \in Options
BY DEF Options, ApplyServicePolicy, Setting

\* A member's row asks for no service, whatever the deployment.
LEMMA NewRowIsQuiet ==
  ASSUME NEW m \in Member, folder.state \in {"absent", "uploading", "ready"}
  PROVE  /\ NewRow(m) \in Rows /\ NewRow(m) # NoRow
         /\ ~AnyServiceOn(NewRow(m).options)
<1>1. MemberOptions \in Options
  BY DEF MemberOptions, Options, Setting, Service, DefaultOn
<1>2. PICK o : o = ApplyServicePolicy(Deploy, MemberOptions, FALSE)
  OBVIOUS
<1>3. o \in Options
  BY <1>1, <1>2, PolicyType
<1>4. NewRow(m) = [options |-> o, deadline |-> "own", revoked |-> FALSE, purged |-> FALSE,
                   late |-> folder.state = "ready"]
  BY <1>2 DEF NewRow
<1>5. NewRow(m) \in Rows
  BY <1>3, <1>4 DEF Rows
<1>6. \A k \in Service : /\ k \in DefaultOn => MemberOptions.svc[k] = "false"
                         /\ k \notin DefaultOn => MemberOptions.svc[k] = "missing"
  BY DEF MemberOptions
<1>7. o.given /\ \A k \in Service : o.svc[k] = "false" \/ o.svc[k] = MemberOptions.svc[k]
  BY <1>2 DEF ApplyServicePolicy, MemberOptions
<1>8. DefaultOn \subseteq Service /\ OptIn \subseteq Service /\ DefaultOn \cap OptIn = {}
  BY DEF Service, DefaultOn, OptIn
<1>9. ~AnyServiceOn(o)
  BY <1>6, <1>7, <1>8 DEF AnyServiceOn
<1>10. NewRow(m).options = o
  BY <1>4
<1>11. NewRow(m) # NoRow
  BY <1>5, NoRowAssumption
<1> QED
  BY <1>5, <1>9, <1>10, <1>11

LEMMA InitIInv == Init => IInv
<1> SUFFICES ASSUME Init PROVE IInv
  OBVIOUS
<1>1. TypeOK
  BY IdleType DEF Init, TypeOK
<1>2. \A m \in Member : RowInOrder(m)
  BY DEF Init, RowInOrder, Recorded
<1>3. \A r \in Request : Placed(r)
  BY DEF Init, Placed, At, Idle
<1>4. Claimed /\ EveryPathWasSent
  BY DEF Init, Claimed, EveryPathWasSent
<1> QED
  BY <1>1, <1>2, <1>3, <1>4 DEF IInv

-----------------------------------------------------------------------------
(* Requests.                                                               *)

tables == <<folder, claim, upload, row, store, passed, behind, torn>>

\* A step that writes no table; requests end or wait on, and the purge lists no
\* transfer without a row.
LEMMA QuietStep ==
  ASSUME IInv, TypeOK', UNCHANGED tables, \A r \in Request : req'[r] \in {req[r], Idle},
         \A m \in pass' : m \in pass \/ Recorded(m)
  PROVE  IInv'
<1>1. Claimed' /\ EveryPathWasSent'
  BY DEF IInv, tables, Claimed, EveryPathWasSent, Recorded
<1>2. \A m \in Member : RowInOrder(m)'
  BY DEF IInv, tables, RowInOrder, Recorded, Claims
<1>3. ASSUME NEW r \in Request PROVE Placed(r)'
  <2>1. CASE req'[r] = Idle
    BY <2>1 DEF Placed, At, Idle
  <2>2. CASE req'[r] = req[r]
    BY <2>2, NoneAssumption DEF IInv, Placed, At, Recorded, Idle, tables
  <2> QED
    BY <2>1, <2>2
<1> QED
  BY <1>1, <1>2, <1>3 DEF IInv

LEMMA CreateFolderKeeps == ASSUME IInv, CreateFolder PROVE IInv'
<1>1. folder.state = "absent" /\ folder' = [folder EXCEPT !.state = "uploading"]
  BY DEF CreateFolder
<1>2. UNCHANGED <<claim, upload, row, store, req, notified, qc, passed, purging>>
  BY DEF CreateFolder
<1>3. TypeOK'
  BY <1>1, <1>2 DEF IInv, TypeOK, purging
<1>4. folder'.state = "uploading" /\ folder'.expired = folder.expired
  BY <1>1 DEF IInv, TypeOK
<1>5. Claimed' /\ EveryPathWasSent'
  BY <1>2, <1>4 DEF IInv, Claimed, EveryPathWasSent
<1>6. \A m \in Member : RowInOrder(m)'
  BY <1>1, <1>2, <1>4 DEF IInv, RowInOrder, Recorded, Claims, purging
<1>7. \A r \in Request : Placed(r)'
  BY <1>2 DEF IInv, Placed, At, Recorded
<1> QED
  BY <1>3, <1>5, <1>6, <1>7 DEF IInv

LEMMA InitiateStartKeeps ==
  ASSUME IInv, NEW r \in Request, NEW p \in Path, InitiateStart(r, p)
  PROVE  IInv'
<1>1. PICK m \in Fresh : req' = [req EXCEPT ![r] = [Idle EXCEPT !.at = "creating", !.m = m, !.p = p]]
  BY DEF InitiateStart
<1>2. UNCHANGED <<folder, claim, upload, row, store, notified, qc, passed, purging>>
  BY DEF InitiateStart
<1>3. PICK w : w = [Idle EXCEPT !.at = "creating", !.m = m, !.p = p]
  OBVIOUS
<1>4. m \in Member /\ upload[m].state = "absent" /\ \A q \in Request : req[q].m # m
  BY <1>1 DEF Fresh
<1>5. w \in RequestType /\ w.at = "creating" /\ w.m = m /\ w.p = p
  BY <1>3, <1>4 DEF Idle, RequestType
<1>6. req \in [Request -> RequestType] /\ req' = [req EXCEPT ![r] = w]
  BY <1>1, <1>3 DEF IInv, TypeOK
<1>7. TypeOK'
  BY <1>2, <1>5, <1>6 DEF IInv, TypeOK, purging
<1>8. Claimed' /\ EveryPathWasSent' /\ \A n \in Member : RowInOrder(n)'
  BY <1>2 DEF IInv, Claimed, EveryPathWasSent, RowInOrder, Recorded, Claims, purging
<1>9. ASSUME NEW q \in Request PROVE Placed(q)'
  BY <1>2, <1>4, <1>5, <1>6 DEF IInv, Placed, At, Recorded
<1> QED
  BY <1>7, <1>8, <1>9 DEF IInv

LEMMA InitiateRowKeeps == ASSUME IInv, NEW r \in Request, InitiateRow(r) PROVE IInv'
<1>1. PICK m \in Member, p \in Path : m = req[r].m /\ p = req[r].p
  BY DEF IInv, InitiateRow, Placed
<1>2. /\ upload[m].state = "absent" /\ \A q \in Request \ {r} : req[q].m # m
      /\ ~Recorded(m)
  BY <1>1 DEF IInv, InitiateRow, Placed, RowInOrder
<1>3. /\ store' = [store EXCEPT ![m] = "parts"]
      /\ upload' = [upload EXCEPT ![m] = [state |-> "active", path |-> p]]
      /\ claim' = [claim EXCEPT ![p] = m]
      /\ req' = [req EXCEPT ![r] = Idle]
      /\ UNCHANGED <<folder, row, notified, qc, passed, purging>>
  BY <1>1 DEF InitiateRow, Answered
<1>4. TypeOK'
  BY <1>3, IdleType DEF IInv, TypeOK, purging
<1>5. \A q \in Path : claim[q] # m
  BY <1>2, NoneAssumption DEF IInv, Claimed
<1>6. Claimed'
  BY <1>3, <1>5 DEF IInv, TypeOK, Claimed
<1>7. EveryPathWasSent'
  BY <1>2, <1>3 DEF IInv, TypeOK, EveryPathWasSent, Recorded
<1>8. ASSUME NEW n \in Member PROVE RowInOrder(n)'
  <2>1. CASE n = m
    BY <1>2, <1>3, <2>1 DEF IInv, TypeOK, RowInOrder, Recorded, purging
  <2>2. CASE n # m
    <3>1. upload'[n] = upload[n] /\ store'[n] = store[n]
      BY <1>3, <2>2 DEF IInv, TypeOK
    <3>2. Claims(n)' => Claims(n)
      BY <1>3, <2>2 DEF IInv, TypeOK, Claims
    <3> QED
      BY <1>3, <3>1, <3>2 DEF IInv, RowInOrder, Recorded, purging
  <2> QED
    BY <2>1, <2>2
<1>9. ASSUME NEW q \in Request PROVE Placed(q)'
  <2>1. CASE q = r
    BY <1>3, <2>1 DEF IInv, TypeOK, Placed, At, Idle
  <2>2. CASE q # r
    <3>1. req'[q] = req[q] /\ req[q].m # m
      BY <1>2, <1>3, <2>2 DEF IInv, TypeOK
    <3>2. req[q].m \in Member => upload'[req[q].m] = upload[req[q].m] /\ store'[req[q].m] = store[req[q].m]
      BY <1>3, <3>1 DEF IInv, TypeOK
    <3>3. \A s \in Request : req'[s] = req[s] \/ req'[s] = Idle
      BY <1>3 DEF IInv, TypeOK
    <3>4. Placed(q)
      BY DEF IInv
    <3> QED
      BY <1>3, <3>1, <3>2, <3>3, <3>4, NoneAssumption DEF Placed, At, Recorded, Idle
  <2> QED
    BY <2>1, <2>2
<1> QED
  BY <1>4, <1>6, <1>7, <1>8, <1>9 DEF IInv

LEMMA CompleteStartKeeps ==
  ASSUME IInv, NEW r \in Request, NEW m \in Member, CompleteStart(r, m)
  PROVE  IInv'
<1>1. PICK w : w = [Idle EXCEPT !.at = "assembling", !.m = m]
  OBVIOUS
<1>2. /\ upload[m].state = "active"
      /\ req' = [req EXCEPT ![r] = w]
      /\ UNCHANGED <<folder, claim, upload, row, store, notified, qc, passed, purging>>
  BY <1>1 DEF CompleteStart
<1>3. w \in RequestType /\ w.at = "assembling" /\ w.m = m
  BY <1>1 DEF Idle, RequestType
<1>4. req' \in [Request -> RequestType]
  BY <1>2, <1>3 DEF IInv, TypeOK
<1>5. TypeOK'
  BY <1>2, <1>4 DEF IInv, TypeOK, purging
<1>6. Claimed' /\ EveryPathWasSent' /\ \A n \in Member : RowInOrder(n)'
  BY <1>2 DEF IInv, Claimed, EveryPathWasSent, RowInOrder, Recorded, Claims, purging
<1>7. ASSUME NEW q \in Request PROVE Placed(q)'
  BY <1>2, <1>3 DEF IInv, TypeOK, Placed, At, Recorded
<1> QED
  BY <1>5, <1>6, <1>7 DEF IInv

LEMMA AssembleKeeps == ASSUME IInv, NEW r \in Request, Assemble(r) PROVE IInv'
<1>1. PICK m \in Member : m = req[r].m
  BY DEF IInv, Assemble, Placed
<1>2. At(r, "assembling") /\ UNCHANGED <<folder, claim, upload, row, qc, passed, purging>>
  BY DEF Assemble
<1>3. CASE store[m] = "parts"
  <2>1. PICK w : w = [req[r] EXCEPT !.at = "assembled"]
    OBVIOUS
  <2>2. /\ store' = [store EXCEPT ![m] = "object"]
        /\ notified' = notified \union {m}
        /\ req' = [req EXCEPT ![r] = w]
    BY <1>1, <1>3, <2>1 DEF Assemble, IInv, TypeOK
  <2>3. w \in RequestType /\ w.at = "assembled" /\ w.m = m
    BY <1>1, <2>1 DEF IInv, TypeOK, RequestType
  <2>4. TypeOK'
    BY <1>2, <2>2, <2>3 DEF IInv, TypeOK, purging
  <2>5. Claimed' /\ EveryPathWasSent'
    BY <1>2 DEF IInv, Claimed, EveryPathWasSent, Recorded
  <2>6. ASSUME NEW n \in Member PROVE RowInOrder(n)'
    BY <1>2, <2>2 DEF IInv, TypeOK, RowInOrder, Recorded, Claims, purging
  <2>7. \A q \in Request : At(q, "assembled") => req[q].m # m
    BY <1>3 DEF IInv, Placed
  <2>8. upload[m].state # "absent" /\ ~Recorded(m)
    BY <1>1, <1>2, <1>3 DEF IInv, Placed, RowInOrder
  <2>9. ASSUME NEW q \in Request PROVE Placed(q)'
    <3>1. CASE q = r
      BY <1>2, <2>2, <2>3, <2>7, <2>8, <3>1 DEF IInv, TypeOK, Placed, At, Recorded
    <3>2. CASE q # r
      <4>1. req'[q] = req[q] /\ req'[r].m = req[r].m /\ \A s \in Request \ {r} : req'[s] = req[s]
        BY <1>1, <2>2, <2>3, <3>2 DEF IInv, TypeOK
      <4>2. Placed(q)
        BY DEF IInv
      <4>3. req[q].m \in Member /\ req[q].m # m => store'[req[q].m] = store[req[q].m]
        BY <2>2 DEF IInv, TypeOK
      <4>4. At(q, "assembled") => req[q].m # m
        BY <2>7
      <4> QED
        BY <1>1, <1>2, <3>2, <4>1, <4>2, <4>3, <4>4 DEF Placed, At, Recorded
    <3> QED
      BY <3>1, <3>2
  <2> QED
    BY <2>4, <2>5, <2>6, <2>9 DEF IInv
<1>4. CASE store[m] # "parts"
  <2>1. req' = [req EXCEPT ![r] = Idle] /\ UNCHANGED <<store, notified>>
    BY <1>1, <1>4 DEF Assemble, Answered
  <2>2. TypeOK'
    BY <1>2, <2>1, IdleType DEF IInv, TypeOK, purging
  <2>3. \A q \in Request : req'[q] \in {req[q], Idle}
    BY <2>1 DEF IInv, TypeOK
  <2> QED
    BY <1>2, <2>1, <2>2, <2>3, QuietStep DEF tables, purging
<1> QED
  BY <1>3, <1>4

LEMMA RecordKeeps == ASSUME IInv, NEW r \in Request, Record(r) PROVE IInv'
<1>1. PICK m \in Member : m = req[r].m
  BY DEF IInv, Record, Placed
<1>2. /\ upload[m].state # "absent" /\ ~Recorded(m) /\ store[m] = "object"
      /\ \A q \in Request \ {r} : At(q, "assembled") => req[q].m # m
  BY <1>1 DEF IInv, Record, Placed
<1>3. PICK new : new = NewRow(m)
  OBVIOUS
<1>4. PICK u : u = [upload[m] EXCEPT !.state = "complete"]
  OBVIOUS
<1>5. /\ upload' = [upload EXCEPT ![m] = u]
      /\ row' = [row EXCEPT ![m] = new]
      /\ req' = [req EXCEPT ![r] = Idle]
      /\ UNCHANGED <<folder, claim, store, notified, qc, passed, purging>>
  BY <1>1, <1>3, <1>4 DEF Record, Answered, IInv, TypeOK
<1>6. new \in Rows /\ new # NoRow /\ ~AnyServiceOn(new.options)
  BY <1>3, NewRowIsQuiet DEF IInv, TypeOK
<1>7. ~new.revoked /\ (folder.state = "ready" => new.late)
  BY <1>3 DEF NewRow
<1>8. u.state = "complete" /\ u.path = upload[m].path /\ u.path \in Path \cup {NoPath}
  BY <1>4 DEF IInv, TypeOK
<1>9. TypeOK'
  <2>1. u \in [state : {"absent", "active", "complete"}, path : Path \union {NoPath}]
    BY <1>4 DEF IInv, TypeOK
  <2> QED
    BY <1>5, <1>6, <2>1, IdleType DEF IInv, TypeOK, purging
<1>10. Claimed'
  BY <1>2, <1>5, <1>8 DEF IInv, TypeOK, Claimed
<1>11. EveryPathWasSent'
  BY <1>2, <1>5, <1>6 DEF IInv, TypeOK, EveryPathWasSent, Recorded
<1>12. ASSUME NEW n \in Member PROVE RowInOrder(n)'
  <2>1. CASE n = m
    <3>1. m \notin passed /\ m \notin pass /\ m \notin behind
      BY <1>2 DEF IInv, RowInOrder
    <3>2. row'[m] = new /\ upload'[m] = u
      BY <1>5 DEF IInv, TypeOK
    <3> QED
      BY <1>2, <1>5, <1>6, <1>7, <1>8, <2>1, <3>1, <3>2 DEF RowInOrder, Recorded, purging
  <2>2. CASE n # m
    BY <1>5, <2>2 DEF IInv, TypeOK, RowInOrder, Recorded, Claims, purging
  <2> QED
    BY <2>1, <2>2
<1>13. ASSUME NEW q \in Request PROVE Placed(q)'
  <2>1. CASE q = r
    BY <1>5, <2>1 DEF IInv, TypeOK, Placed, At, Idle
  <2>2. CASE q # r
    <3>1. req'[q] = req[q] /\ \A s \in Request : req'[s] = req[s] \/ req'[s] = Idle
      BY <1>5, <2>2 DEF IInv, TypeOK
    <3>2. Placed(q) /\ (At(q, "assembled") => req[q].m # m)
      BY <1>2, <2>2 DEF IInv
    <3>3. CASE req[q].m = m
      <4>1. upload'[m] = u
        BY <1>5 DEF IInv, TypeOK
      <4> QED
        BY <1>2, <1>8, <3>1, <3>2, <3>3, <4>1, NoneAssumption DEF Placed, At, Idle
    <3>4. CASE req[q].m # m
      <4>1. req[q].m \in Member => /\ upload'[req[q].m] = upload[req[q].m]
                                  /\ row'[req[q].m] = row[req[q].m]
        BY <1>5, <3>4 DEF IInv, TypeOK
      <4> QED
        BY <1>5, <3>1, <3>2, <4>1, NoneAssumption DEF Placed, At, Recorded, Idle
    <3> QED
      BY <3>3, <3>4
  <2> QED
    BY <2>1, <2>2
<1> QED
  BY <1>9, <1>10, <1>11, <1>12, <1>13 DEF IInv

-----------------------------------------------------------------------------
(* The seal and what follows it.                                           *)

LEMMA SealStartKeeps ==
  ASSUME IInv, NEW r \in Request, NEW password \in Password \cup {NoPassword},
         SealStart(r, password)
  PROVE  IInv'
<1>1. PICK w : w = [Idle EXCEPT !.at = "sealing", !.password = password]
  OBVIOUS
<1>2. /\ req' = [req EXCEPT ![r] = w]
      /\ UNCHANGED <<folder, claim, upload, row, store, notified, qc, passed, purging>>
  BY <1>1 DEF SealStart
<1>4. w \in RequestType /\ w.at = "sealing" /\ w.m = NoMember
  BY <1>1 DEF Idle, RequestType
<1>5. TypeOK'
  BY <1>2, <1>4 DEF IInv, TypeOK, purging
<1>6. Claimed' /\ EveryPathWasSent' /\ \A n \in Member : RowInOrder(n)'
  BY <1>2 DEF IInv, Claimed, EveryPathWasSent, RowInOrder, Recorded, Claims, purging
<1>7. ASSUME NEW q \in Request PROVE Placed(q)'
  BY <1>2, <1>4, NoneAssumption DEF IInv, TypeOK, Placed, At, Recorded
<1> QED
  BY <1>5, <1>6, <1>7 DEF IInv

\* Rows that change in nothing a request has seen.
LEMMA RequestsKeep ==
  ASSUME IInv, UNCHANGED upload, \A m \in Member : ~Recorded(m) => row'[m] = row[m],
         \A m \in Member : ~Recorded(m) => store'[m] = store[m],
         \A r \in Request : req'[r] \in {req[r], Idle}
  PROVE  \A r \in Request : Placed(r)'
<1> SUFFICES ASSUME NEW r \in Request PROVE Placed(r)'
  OBVIOUS
<1>1. CASE req'[r] = Idle
  BY <1>1 DEF Placed, At, Idle
<1>2. CASE req'[r] = req[r]
  <2>1. Placed(r)
    BY DEF IInv
  <2>2. At(r, "assembled") => row'[req[r].m] = row[req[r].m] /\ store'[req[r].m] = store[req[r].m]
    BY <2>1 DEF Placed
  <2> QED
    BY <1>2, <2>1, <2>2, NoneAssumption DEF Placed, At, Recorded, Idle
<1> QED
  BY <1>1, <1>2

\* The folder is sent and some members' rows take its expiry; a seal that was
\* cut short leaves the others torn.
LEMMA SealedKeeps ==
  ASSUME IInv, NEW password \in Password \cup {NoPassword}, NEW S \in SUBSET Listed,
         Missing = {}, folder.state = "uploading",
         folder' = [folder EXCEPT !.state = "ready", !.password = password],
         row' = Reached(S), torn' \in SUBSET Member, \A m \in Listed \ S : m \in torn',
         req' \in [Request -> RequestType], \A q \in Request : req'[q] \in {req[q], Idle},
         UNCHANGED <<claim, upload, store, notified, qc, passed, behind>>,
         pass' \in SUBSET pass
  PROVE  IInv'
<1>1. /\ folder'.state = "ready" /\ folder'.expired = folder.expired
  BY DEF IInv, TypeOK
<1>2. ASSUME NEW m \in Member
      PROVE  /\ row'[m] \in Rows \cup {NoRow} /\ (row'[m] = NoRow <=> row[m] = NoRow)
             /\ m \notin Listed => row'[m] = row[m]
  BY NoRowAssumption DEF IInv, TypeOK, Listed, Recorded, Rows, Reached
<1>3. ASSUME NEW m \in Member, Recorded(m)
      PROVE  /\ row'[m].options = row[m].options /\ row'[m].late = row[m].late
             /\ row'[m].revoked = row[m].revoked
             /\ Claims(m) => row'[m].deadline = "folder" \/ m \in torn'
  BY <1>3 DEF IInv, TypeOK, Listed, Recorded, Rows, Claims, Reached
<1>4. TypeOK'
  <2>1. folder' \in [state : {"absent", "uploading", "ready"},
                     password : Password \union {NoPassword},
                     revoked : BOOLEAN, expired : BOOLEAN]
    BY DEF IInv, TypeOK
  <2>2. row' \in [Member -> Rows \union {NoRow}]
    BY <1>2 DEF Reached
  <2> QED
    BY <2>1, <2>2 DEF IInv, TypeOK
<1>5. Claimed'
  BY DEF IInv, Claimed
<1>6. ASSUME NEW m \in Member PROVE RowInOrder(m)'
  <2>1. RowInOrder(m)
    BY DEF IInv
  <2>2. m \notin behind
    BY <2>1 DEF RowInOrder
  <2>3. CASE Recorded(m)
    BY <1>1, <1>2, <1>3, <2>1, <2>2, <2>3 DEF RowInOrder, Recorded, Claims
  <2>4. CASE ~Recorded(m)
    BY <1>2, <2>1, <2>2, <2>4 DEF RowInOrder, Recorded
  <2> QED
    BY <2>3, <2>4
<1>7. \A q \in Request : Placed(q)'
  BY <1>2, RequestsKeep DEF Listed
<1>8. ASSUME NEW p \in Path
      PROVE  \E m \in Member : /\ upload'[m].path = p /\ upload'[m].state = "complete"
                               /\ row'[m] # NoRow
  <2>1. /\ claim[p] # NoMember /\ upload[claim[p]].state = "complete" /\ Recorded(claim[p])
    BY DEF Missing
  <2>2. claim[p] \in Member /\ upload[claim[p]].path = p
    BY <2>1 DEF IInv, TypeOK, Claimed
  <2> QED
    BY <1>2, <2>1, <2>2 DEF Recorded
<1>9. EveryPathWasSent'
  BY <1>8 DEF EveryPathWasSent, Recorded
<1> QED
  BY <1>4, <1>5, <1>6, <1>7, <1>9 DEF IInv

LEMMA SealFinishKeeps == ASSUME IInv, NEW r \in Request, SealFinish(r) PROVE IInv'
<1>1. /\ At(r, "sealing") /\ req' = [req EXCEPT ![r] = Idle]
      /\ UNCHANGED <<claim, upload, store, notified, qc, passed, purging>>
  BY DEF SealFinish, Answered
<1>2. \A q \in Request : req'[q] \in {req[q], Idle}
  BY <1>1 DEF IInv, TypeOK
<1>3. req' \in [Request -> RequestType]
  BY <1>1, IdleType DEF IInv, TypeOK
<1>4. CASE UNCHANGED <<folder, row>>
  <2>1. TypeOK'
    BY <1>1, <1>3, <1>4 DEF IInv, TypeOK, purging
  <2> QED
    BY <1>1, <1>2, <1>4, <2>1, QuietStep DEF tables, purging
<1>5. CASE ~UNCHANGED <<folder, row>>
  <2>1. PICK password \in Password \cup {NoPassword} : password = req[r].password
    BY DEF IInv, TypeOK, RequestType
  <2>2. /\ Missing = {} /\ folder.state = "uploading"
        /\ folder' = [folder EXCEPT !.state = "ready", !.password = password]
        /\ row' = Reached(Listed)
    BY <1>5, <2>1 DEF SealFinish, MarkFolderReady
  <2>3. torn' \in SUBSET Member
    BY <1>1 DEF IInv, TypeOK, purging
  <2> QED
    BY <1>1, <1>2, <1>3, <2>2, <2>3, SealedKeeps DEF purging
<1> QED
  BY <1>4, <1>5

LEMMA SealCutShortKeeps == ASSUME IInv, NEW r \in Request, SealCutShort(r) PROVE IInv'
<1>1. PICK password \in Password \cup {NoPassword} : password = req[r].password
  BY DEF IInv, TypeOK, RequestType
<1>2. PICK S \in SUBSET Listed : row' = Reached(S) /\ torn' = Listed \ S
  BY DEF SealCutShort
<1>3. /\ Missing = {} /\ folder.state = "uploading"
      /\ folder' = [folder EXCEPT !.state = "ready", !.password = password]
      /\ req' = [q \in Request |-> Idle] /\ pass' = {}
      /\ UNCHANGED <<claim, upload, store, notified, qc, passed, behind>>
  BY <1>1 DEF SealCutShort
<1>4. req' \in [Request -> RequestType] /\ \A q \in Request : req'[q] \in {req[q], Idle}
  BY <1>3, IdleType
<1>5. torn' \in SUBSET Member /\ \A m \in Listed \ S : m \in torn'
  BY <1>2 DEF Listed
<1>6. pass' \in SUBSET pass
  BY <1>3
<1> QED
  BY <1>2, <1>3, <1>4, <1>5, <1>6, SealedKeeps

LEMMA SetRevokedKeeps ==
  ASSUME IInv, NEW revoked \in BOOLEAN, SetRevoked(revoked)
  PROVE  IInv'
<1>1. /\ folder.state = "ready" /\ behind' = Listed
      /\ folder' = [folder EXCEPT !.revoked = revoked]
      /\ UNCHANGED <<claim, upload, row, store, req, notified, qc, passed, pass, torn>>
  BY DEF SetRevoked
<1>2. folder'.state = "ready" /\ folder'.expired = folder.expired
  BY <1>1 DEF IInv, TypeOK
<1>3. TypeOK'
  BY <1>1 DEF IInv, TypeOK, Listed
<1>4. Claimed' /\ EveryPathWasSent' /\ \A q \in Request : Placed(q)'
  BY <1>1 DEF IInv, Claimed, EveryPathWasSent, Placed, At, Recorded
<1>5. ASSUME NEW m \in Member PROVE RowInOrder(m)'
  <2>1. RowInOrder(m)
    BY DEF IInv
  <2>2. Recorded(m) /\ Claims(m) <=> m \in behind'
    BY <1>1 DEF Listed, Claims
  <2> QED
    BY <1>1, <1>2, <2>1, <2>2 DEF RowInOrder, Recorded, Claims
<1> QED
  BY <1>3, <1>4, <1>5 DEF IInv

LEMMA SetMemberRevokedKeeps ==
  ASSUME IInv, NEW m \in Member, SetMemberRevoked(m)
  PROVE  IInv'
<1>1. PICK set : set = [row[m] EXCEPT !.deadline = "folder", !.revoked = folder.revoked]
  OBVIOUS
<1>2. Recorded(m) /\ folder.state = "ready" /\ row[m] \in Rows
  BY DEF SetMemberRevoked, IInv, RowInOrder, TypeOK, Recorded
<1>3. /\ row' = [row EXCEPT ![m] = set]
      /\ behind' = behind \ {m} /\ torn' = torn \ {m}
      /\ UNCHANGED <<folder, claim, upload, store, req, notified, qc, passed, pass>>
  BY <1>1, <1>2 DEF SetMemberRevoked, IInv, TypeOK
<1>4. /\ set \in Rows /\ set # NoRow /\ set.options = row[m].options
      /\ set.late = row[m].late /\ set.deadline = "folder"
  BY <1>1, <1>2, NoRowAssumption DEF Rows, IInv, TypeOK
<1>5. set.revoked = folder.revoked
  BY <1>1, <1>2 DEF Rows
<1>6. TypeOK'
  BY <1>3, <1>4 DEF IInv, TypeOK
<1>7. Claimed' /\ EveryPathWasSent'
  BY <1>3, <1>4 DEF IInv, TypeOK, Claimed, EveryPathWasSent, Recorded
<1>8. ASSUME NEW n \in Member PROVE RowInOrder(n)'
  <2>1. CASE n = m
    <3>1. row'[m] = set
      BY <1>3 DEF IInv, TypeOK
    <3> QED
      BY <1>2, <1>3, <1>4, <1>5, <2>1, <3>1 DEF IInv, RowInOrder, Recorded, Claims
  <2>2. CASE n # m
    BY <1>3, <2>2 DEF IInv, TypeOK, RowInOrder, Recorded, Claims
  <2> QED
    BY <2>1, <2>2
<1>9. \A n \in Member : ~Recorded(n) => row'[n] = row[n] /\ store'[n] = store[n]
  BY <1>2, <1>3 DEF IInv, TypeOK, Recorded
<1>10. \A q \in Request : Placed(q)'
  BY <1>3, <1>9, RequestsKeep
<1> QED
  BY <1>6, <1>7, <1>8, <1>10 DEF IInv

LEMMA OwnDeadlineKeeps == ASSUME IInv, NEW m \in Member, OwnDeadline(m) PROVE IInv'
<1>1. /\ Recorded(m) /\ (row[m].late => folder.expired) /\ passed' = passed \cup {m}
      /\ UNCHANGED <<folder, claim, upload, row, store, req, notified, qc, purging>>
  BY DEF OwnDeadline
<1>2. TypeOK'
  BY <1>1 DEF IInv, TypeOK, purging
<1>3. Claimed' /\ EveryPathWasSent' /\ \A q \in Request : Placed(q)'
  BY <1>1 DEF IInv, Claimed, EveryPathWasSent, Placed, At, Recorded
<1>4. \A n \in Member : RowInOrder(n)'
  BY <1>1 DEF IInv, RowInOrder, Recorded, Claims, purging
<1> QED
  BY <1>2, <1>3, <1>4 DEF IInv

LEMMA FolderDeadlineKeeps == ASSUME IInv, FolderDeadline PROVE IInv'
<1>1. /\ folder.state = "ready" /\ folder' = [folder EXCEPT !.expired = TRUE]
      /\ UNCHANGED <<claim, upload, row, store, req, notified, qc, passed, purging>>
  BY DEF FolderDeadline
<1>2. /\ folder'.state = folder.state /\ folder'.revoked = folder.revoked
      /\ folder'.expired = TRUE
  BY <1>1 DEF IInv, TypeOK
<1>3. TypeOK'
  BY <1>1 DEF IInv, TypeOK, purging
<1>4. Claimed' /\ EveryPathWasSent' /\ \A q \in Request : Placed(q)'
  BY <1>1, <1>2 DEF IInv, Claimed, EveryPathWasSent, Placed, At, Recorded
<1>5. \A n \in Member : RowInOrder(n)'
  BY <1>1, <1>2 DEF IInv, RowInOrder, Recorded, Claims, purging
<1> QED
  BY <1>3, <1>4, <1>5 DEF IInv

LEMMA PurgeKeeps == ASSUME IInv, NEW m \in Member, Purge(m) PROVE IInv'
<1>1. PICK gone : gone = [row[m] EXCEPT !.purged = TRUE]
  OBVIOUS
<1>2. /\ Recorded(m)
      /\ row' = [row EXCEPT ![m] = gone]
      /\ store' = [store EXCEPT ![m] = "nothing"]
      /\ pass' = pass \ {m}
      /\ UNCHANGED <<folder, claim, upload, req, notified, qc, passed, behind, torn>>
  BY <1>1 DEF Purge, IInv, TypeOK, RowInOrder
<1>3. row[m] \in Rows
  BY <1>2 DEF IInv, TypeOK, Recorded
<1>4. /\ gone \in Rows /\ gone # NoRow /\ gone.options = row[m].options
      /\ gone.late = row[m].late /\ gone.revoked = row[m].revoked
      /\ gone.deadline = row[m].deadline
  BY <1>1, <1>3, NoRowAssumption DEF Rows
<1>5. TypeOK'
  BY <1>2, <1>4 DEF IInv, TypeOK
<1>6. Claimed' /\ EveryPathWasSent'
  BY <1>2, <1>4 DEF IInv, TypeOK, Claimed, EveryPathWasSent, Recorded
<1>7. ASSUME NEW n \in Member PROVE RowInOrder(n)'
  <2>1. CASE n = m
    <3>1. row'[m] = gone /\ store'[m] = "nothing"
      BY <1>2 DEF IInv, TypeOK
    <3> QED
      BY <1>2, <1>4, <2>1, <3>1 DEF IInv, RowInOrder, Recorded, Claims
  <2>2. CASE n # m
    BY <1>2, <2>2 DEF IInv, TypeOK, RowInOrder, Recorded, Claims
  <2> QED
    BY <2>1, <2>2
<1>8. \A n \in Member : ~Recorded(n) => row'[n] = row[n] /\ store'[n] = store[n]
  BY <1>2 DEF IInv, TypeOK, Recorded
<1>9. \A q \in Request : Placed(q)'
  BY <1>2, <1>8, RequestsKeep
<1> QED
  BY <1>5, <1>6, <1>7, <1>9 DEF IInv

LEMMA PurgeFailsKeeps == ASSUME IInv, NEW m \in Member, PurgeFails(m) PROVE IInv'
<1>1. /\ Recorded(m)
      /\ store' \in {store, [store EXCEPT ![m] = "nothing"]}
      /\ pass' = pass \ {m}
      /\ UNCHANGED <<folder, claim, upload, row, req, notified, qc, passed, behind, torn>>
  BY DEF PurgeFails, IInv, RowInOrder
<1>2. /\ store' \in [Member -> {"nothing", "parts", "object"}]
      /\ \A n \in Member : store'[n] = store[n] \/ (n = m /\ store'[n] = "nothing")
  BY <1>1 DEF IInv, TypeOK
<1>3. TypeOK'
  BY <1>1, <1>2 DEF IInv, TypeOK
<1>4. Claimed' /\ EveryPathWasSent'
  BY <1>1 DEF IInv, Claimed, EveryPathWasSent, Recorded
<1>5. \A n \in Member : RowInOrder(n)'
  BY <1>1, <1>2 DEF IInv, RowInOrder, Recorded, Claims
<1>6. \A n \in Member : ~Recorded(n) => row'[n] = row[n] /\ store'[n] = store[n]
  BY <1>1, <1>2
<1>7. \A q \in Request : Placed(q)'
  BY <1>1, <1>6, RequestsKeep
<1> QED
  BY <1>3, <1>4, <1>5, <1>7 DEF IInv

LEMMA PurgeStartKeeps == ASSUME IInv, PurgeStart PROVE IInv'
<1>1. /\ UNCHANGED tables /\ UNCHANGED <<req, notified, qc>>
      /\ pass' \in SUBSET Member /\ \A m \in pass' : Recorded(m)
  BY DEF PurgeStart, tables, Purgeable, Due
<1>2. TypeOK'
  BY <1>1 DEF IInv, TypeOK, tables
<1> QED
  BY <1>1, <1>2, QuietStep

-----------------------------------------------------------------------------
(* Notifications, failures and crashes.                                    *)

LEMMA NotifyKeeps == ASSUME IInv, NEW m \in Member, Notify(m) PROVE IInv'
<1>1. /\ UNCHANGED tables /\ UNCHANGED <<req, notified, pass>>
      /\ qc' \in {qc, qc \cup {m}}
  BY DEF Notify, tables, purging
<1>2. TypeOK'
  BY <1>1 DEF IInv, TypeOK, tables
<1> QED
  BY <1>1, <1>2, QuietStep

LEMMA CrashKeeps == ASSUME IInv, Crash PROVE IInv'
<1>1. UNCHANGED tables /\ UNCHANGED <<notified, qc>> /\ pass' = {}
  BY DEF Crash, tables
<1>2. req' \in [Request -> RequestType] /\ \A r \in Request : req'[r] \in {req[r], Idle}
  BY IdleType DEF Crash
<1>3. TypeOK'
  BY <1>1, <1>2 DEF IInv, TypeOK, tables
<1> QED
  BY <1>1, <1>2, <1>3, QuietStep

LEMMA RequestFailsKeeps == ASSUME IInv, NEW r \in Request, RequestFails(r) PROVE IInv'
<1>1. UNCHANGED tables /\ UNCHANGED <<notified, qc, pass>> /\ req' = [req EXCEPT ![r] = Idle]
  BY DEF RequestFails, Answered, tables, purging
<1>2. req' \in [Request -> RequestType] /\ \A q \in Request : req'[q] \in {req[q], Idle}
  BY <1>1, IdleType DEF IInv, TypeOK
<1>3. TypeOK'
  BY <1>1, <1>2 DEF IInv, TypeOK, tables
<1> QED
  BY <1>1, <1>2, <1>3, QuietStep

LEMMA CrashBetweenWritesKeeps ==
  ASSUME IInv, NEW r \in Request, CrashBetweenWrites(r)
  PROVE  IInv'
<1>1. PICK m \in Member : m = req[r].m
  BY DEF IInv, CrashBetweenWrites, Placed
<1>2. /\ req' = [q \in Request |-> Idle] /\ pass' = {}
      /\ UNCHANGED <<folder, claim, row, notified, qc, passed, behind, torn>>
  BY DEF CrashBetweenWrites
<1>3. ~Recorded(m)
  BY <1>1 DEF CrashBetweenWrites, IInv, Placed, RowInOrder
<1>4. PICK u \in [state : {"active", "complete"}, path : Path \cup {NoPath}] :
        /\ upload' = [upload EXCEPT ![m] = u]
        /\ upload[m].state # "absent" => u.path = upload[m].path
  <2>1. CASE At(r, "creating")
    <3>1. req[r].p \in Path /\ upload[m].state = "absent"
      BY <1>1, <2>1 DEF IInv, Placed
    <3>2. upload' = [upload EXCEPT ![m] = [state |-> "active", path |-> req[r].p]]
      BY <1>1, <2>1 DEF CrashBetweenWrites, At
    <3> QED
      BY <3>1, <3>2
  <2>2. CASE At(r, "assembled")
    <3>1. PICK u : u = [upload[m] EXCEPT !.state = "complete"]
      OBVIOUS
    <3>2. upload' = [upload EXCEPT ![m] = u]
      BY <1>1, <2>2, <3>1 DEF CrashBetweenWrites, At, IInv, TypeOK
    <3>3. u \in [state : {"active", "complete"}, path : Path \cup {NoPath}]
          /\ u.path = upload[m].path
      BY <3>1 DEF IInv, TypeOK
    <3> QED
      BY <3>2, <3>3
  <2> QED
    BY <2>1, <2>2 DEF CrashBetweenWrites
<1>5. store' \in [Member -> {"nothing", "parts", "object"}]
      /\ \A n \in Member : n # m => store'[n] = store[n]
  BY <1>1 DEF CrashBetweenWrites, IInv, TypeOK
<1>6. TypeOK'
  BY <1>2, <1>4, <1>5, IdleType DEF IInv, TypeOK
<1>7. Claimed'
  <2>1. ASSUME NEW p \in Path, claim[p] # NoMember
        PROVE  upload'[claim[p]].path = p /\ upload'[claim[p]].state # "absent"
    <3>1. claim[p] \in Member /\ upload[claim[p]].path = p /\ upload[claim[p]].state # "absent"
      BY <2>1 DEF IInv, TypeOK, Claimed
    <3> QED
      BY <1>4, <3>1 DEF IInv, TypeOK
  <2> QED
    BY <1>2, <2>1 DEF Claimed
<1>8. EveryPathWasSent'
  BY <1>2, <1>3, <1>4 DEF IInv, TypeOK, EveryPathWasSent, Recorded
<1>9. ASSUME NEW n \in Member PROVE RowInOrder(n)'
  <2>1. CASE n = m
    BY <1>2, <1>3, <2>1 DEF IInv, RowInOrder, Recorded
  <2>2. CASE n # m
    BY <1>2, <1>4, <1>5, <2>2 DEF IInv, TypeOK, RowInOrder, Recorded, Claims
  <2> QED
    BY <2>1, <2>2
<1>10. \A q \in Request : Placed(q)'
  BY <1>2 DEF Placed, At, Idle
<1> QED
  BY <1>6, <1>7, <1>8, <1>9, <1>10 DEF IInv

-----------------------------------------------------------------------------
(* The invariant.                                                          *)

LEMMA StepIInv == IInv /\ [Next]_vars => IInv'
<1> SUFFICES ASSUME IInv, [Next]_vars PROVE IInv'
  OBVIOUS
<1>1. CASE CreateFolder
  BY <1>1, CreateFolderKeeps
<1>2. ASSUME NEW r \in Request, RequestStep(r) PROVE IInv'
  BY <1>2, InitiateRowKeeps, AssembleKeeps, RecordKeeps, SealFinishKeeps DEF RequestStep
<1>3. ASSUME NEW r \in Request, CrashBetweenWrites(r) \/ SealCutShort(r) \/ RequestFails(r)
      PROVE  IInv'
  BY <1>3, CrashBetweenWritesKeeps, SealCutShortKeeps, RequestFailsKeeps
<1>4. ASSUME NEW r \in Request, NEW p \in Path, InitiateStart(r, p) PROVE IInv'
  BY <1>4, InitiateStartKeeps
<1>5. ASSUME NEW r \in Request, NEW m \in Member, CompleteStart(r, m) PROVE IInv'
  BY <1>5, CompleteStartKeeps
<1>6. ASSUME NEW r \in Request, NEW password \in Password \union {NoPassword},
             SealStart(r, password)
      PROVE  IInv'
  BY <1>6, SealStartKeeps
<1>7. ASSUME NEW m \in Member, Notify(m) \/ OwnDeadline(m) \/ SetMemberRevoked(m)
                                \/ Purge(m) \/ PurgeFails(m)
      PROVE  IInv'
  BY <1>7, NotifyKeeps, OwnDeadlineKeeps, SetMemberRevokedKeeps, PurgeKeeps, PurgeFailsKeeps
<1>8. ASSUME NEW revoked \in BOOLEAN, SetRevoked(revoked) PROVE IInv'
  BY <1>8, SetRevokedKeeps
<1>9. CASE FolderDeadline
  BY <1>9, FolderDeadlineKeeps
<1>10. CASE Crash \/ PurgeStart
  BY <1>10, CrashKeeps, PurgeStartKeeps
<1>11. CASE UNCHANGED vars
  <2>1. UNCHANGED tables /\ UNCHANGED <<req, notified, qc, pass>>
    BY <1>11 DEF vars, tables
  <2>2. TypeOK'
    BY <2>1 DEF IInv, TypeOK, tables
  <2> QED
    BY <2>1, <2>2, QuietStep
<1> QED
  BY <1>1, <1>2, <1>3, <1>4, <1>5, <1>6, <1>7, <1>8, <1>9, <1>10, <1>11 DEF Next

LEMMA Invariance == Spec => []IInv
BY InitIInv, StepIInv, PTL DEF Spec

\* The folder, its manifest, the members' rows and objects and the requests in
\* flight keep their types.
THEOREM TypeCorrect == Spec => []TypeOK
<1>1. IInv => TypeOK
  BY DEF IInv
<1> QED
  BY <1>1, Invariance, PTL

\* A sent folder had a completed and recorded member for every declared path,
\* for any number of paths, re-sent members, seals and crashes (the check of
\* missing paths in POST /folders/:id/complete).
THEOREM EveryPathIsSent == Spec => []EveryPathWasSent
<1>1. IInv => EveryPathWasSent
  BY DEF IInv
<1> QED
  BY <1>1, Invariance, PTL

\* The seal that won decides the password for good (markFolderReady).
THEOREM TermsStay == Spec => SealedTermsFixed
<1> DEFINE Fixed == folder.state = "ready" =>
             folder'.state = "ready" /\ folder'.password = folder.password
<1>1. IInv /\ [Next]_vars => [Fixed]_vars
  <2> SUFFICES ASSUME IInv, [Next]_vars, folder.state = "ready"
               PROVE  folder'.state = "ready" /\ folder'.password = folder.password
    OBVIOUS
  <2>1. CASE UNCHANGED folder
    BY <2>1
  <2>2. CASE CreateFolder
    BY <2>2 DEF CreateFolder
  <2>3. ASSUME NEW r \in Request, SealFinish(r) PROVE UNCHANGED folder
    BY <2>3 DEF SealFinish, MarkFolderReady
  <2>4. ASSUME NEW revoked \in BOOLEAN, SetRevoked(revoked)
        PROVE  folder'.state = "ready" /\ folder'.password = folder.password
    BY <2>4 DEF SetRevoked, IInv, TypeOK
  <2>5. CASE FolderDeadline
    BY <2>5 DEF FolderDeadline, IInv, TypeOK
  <2>6. ASSUME NEW r \in Request, InitiateRow(r) \/ Assemble(r) \/ Record(r)
        PROVE  UNCHANGED folder
    BY <2>6 DEF InitiateRow, Assemble, Record
  <2>7. ASSUME NEW r \in Request, NEW p \in Path, InitiateStart(r, p) PROVE UNCHANGED folder
    BY <2>7 DEF InitiateStart
  <2>8. ASSUME NEW r \in Request, NEW m \in Member, CompleteStart(r, m) PROVE UNCHANGED folder
    BY <2>8 DEF CompleteStart
  <2>9. ASSUME NEW r \in Request, NEW password \in Password \union {NoPassword},
               SealStart(r, password)
        PROVE  UNCHANGED folder
    BY <2>9 DEF SealStart
  <2>10. ASSUME NEW m \in Member, Notify(m) \/ OwnDeadline(m) \/ SetMemberRevoked(m)
                                  \/ Purge(m) \/ PurgeFails(m)
         PROVE  UNCHANGED folder
    BY <2>10 DEF Notify, OwnDeadline, SetMemberRevoked, Purge, PurgeFails
  <2>11. CASE Crash \/ PurgeStart
    BY <2>11 DEF Crash, PurgeStart
  <2>12. ASSUME NEW r \in Request, CrashBetweenWrites(r) \/ RequestFails(r)
         PROVE  UNCHANGED folder
    BY <2>12 DEF CrashBetweenWrites, RequestFails
  <2>14. \A r \in Request : ~SealCutShort(r)
    BY DEF SealCutShort
  <2>13. CASE UNCHANGED vars
    BY <2>13 DEF vars
  <2> QED
    BY <2>1, <2>2, <2>3, <2>4, <2>5, <2>6, <2>7, <2>8, <2>9, <2>10, <2>11, <2>12, <2>13,
       <2>14
    DEF Next, RequestStep
<1> QED
  BY <1>1, Invariance, PTL DEF Spec, SealedTermsFixed

\* A worker is handed a member only before the member's row is written: a
\* recorded member asks for nothing, in any deployment (ADR-042).
THEOREM OnlyOvertakingRuns == Spec => QcOnlyByOvertaking
<1> DEFINE Quiet == \A m \in qc' \ qc : ~Recorded(m)
<1>1. IInv /\ [Next]_vars => [Quiet]_vars
  <2> SUFFICES ASSUME IInv, [Next]_vars PROVE Quiet
    OBVIOUS
  <2>1. CASE UNCHANGED qc
    BY <2>1
  <2>2. ASSUME NEW m \in Member, Notify(m) PROVE Quiet
    <3>1. Recorded(m) => ~AnyServiceOn(row[m].options)
      BY DEF IInv, RowInOrder
    <3>2. CASE Recorded(m)
      BY <2>2, <3>1, <3>2 DEF Notify
    <3>3. CASE ~Recorded(m)
      BY <2>2, <3>3 DEF Notify
    <3> QED
      BY <3>2, <3>3
  <2>3. CASE CreateFolder \/ FolderDeadline \/ Crash \/ PurgeStart
    BY <2>1, <2>3 DEF CreateFolder, FolderDeadline, Crash, PurgeStart
  <2>4. ASSUME NEW r \in Request, RequestStep(r) \/ RequestFails(r) \/ CrashBetweenWrites(r)
                                  \/ SealCutShort(r)
        PROVE  UNCHANGED qc
    BY <2>4 DEF RequestStep, InitiateRow, Assemble, Record, SealFinish, RequestFails,
                CrashBetweenWrites, SealCutShort
  <2>5. ASSUME NEW r \in Request, NEW p \in Path, InitiateStart(r, p) PROVE UNCHANGED qc
    BY <2>5 DEF InitiateStart
  <2>6. ASSUME NEW r \in Request, NEW m \in Member, CompleteStart(r, m) PROVE UNCHANGED qc
    BY <2>6 DEF CompleteStart
  <2>7. ASSUME NEW r \in Request, NEW password \in Password \union {NoPassword},
               SealStart(r, password)
        PROVE  UNCHANGED qc
    BY <2>7 DEF SealStart
  <2>8. ASSUME NEW m \in Member, OwnDeadline(m) \/ SetMemberRevoked(m) \/ Purge(m)
                                  \/ PurgeFails(m)
        PROVE  UNCHANGED qc
    BY <2>8 DEF OwnDeadline, SetMemberRevoked, Purge, PurgeFails
  <2>9. ASSUME NEW revoked \in BOOLEAN, SetRevoked(revoked) PROVE UNCHANGED qc
    BY <2>9 DEF SetRevoked
  <2>10. CASE UNCHANGED vars
    BY <2>1, <2>10 DEF vars
  <2> QED
    BY <2>1, <2>2, <2>3, <2>4, <2>5, <2>6, <2>7, <2>8, <2>9, <2>10 DEF Next
<1> QED
  BY <1>1, Invariance, PTL DEF Spec, QcOnlyByOvertaking

-----------------------------------------------------------------------------
(* The purge.                                                              *)

\* A listed file of a live link is due for nothing, unless a seal was cut short
\* before it or a revocation has yet to reach it: its row was revoked and its
\* deadline moved with the folder's.
LEMMA LiveIsNotDue ==
  ASSUME IInv, NEW m \in Listed \ (torn \union behind), FolderLive
  PROVE  ~Due(m)
<1>1. m \in Member /\ Recorded(m) /\ Claims(m) /\ m \notin torn /\ m \notin behind
  BY DEF Listed, Claims
<1>2. folder.state = "ready" /\ ~folder.revoked /\ ~folder.expired
  BY DEF FolderLive
<1>3. /\ row[m].deadline = "folder" \/ row[m].late
      /\ row[m].revoked => folder.revoked
      /\ row[m].late /\ m \in passed => folder.expired
  BY <1>1, <1>2 DEF IInv, RowInOrder
<1>4. ~Expired(m)
  BY <1>2, <1>3 DEF Expired
<1> QED
  BY <1>2, <1>3, <1>4 DEF Due

\* The purge lists no file of a folder that can be opened, for any order of
\* uploads, seals, revocations, deadlines and crashes, except one that a seal
\* cut short or an unfinished revocation has not reached (purgeableTransfers,
\* markFolderReady, setRecipientState).
THEOREM PurgeSparesLive == Spec => PurgeSparesLiveFolder
<1> DEFINE Spared ==
      \A m \in Listed \ (torn \union behind) : FolderLive => m \notin pass' \ pass
<1>1. IInv /\ [Next]_vars => [Spared]_vars
  <2> SUFFICES ASSUME IInv, [Next]_vars PROVE Spared
    OBVIOUS
  <2>1. CASE pass' \subseteq pass
    BY <2>1
  <2>2. CASE PurgeStart
    <3>1. \A m \in pass' : Due(m)
      BY <2>2 DEF PurgeStart, Purgeable
    <3> QED
      BY <3>1, LiveIsNotDue
  <2>3. CASE CreateFolder \/ FolderDeadline \/ Crash
    BY <2>1, <2>3 DEF CreateFolder, FolderDeadline, Crash, purging
  <2>4. ASSUME NEW r \in Request, RequestStep(r) \/ RequestFails(r) \/ CrashBetweenWrites(r)
                                  \/ SealCutShort(r)
        PROVE  pass' \subseteq pass
    BY <2>4 DEF RequestStep, InitiateRow, Assemble, Record, SealFinish, RequestFails,
                CrashBetweenWrites, SealCutShort, purging
  <2>5. ASSUME NEW r \in Request, NEW p \in Path, InitiateStart(r, p) PROVE UNCHANGED pass
    BY <2>5 DEF InitiateStart, purging
  <2>6. ASSUME NEW r \in Request, NEW n \in Member, CompleteStart(r, n) PROVE UNCHANGED pass
    BY <2>6 DEF CompleteStart, purging
  <2>7. ASSUME NEW r \in Request, NEW password \in Password \union {NoPassword},
               SealStart(r, password)
        PROVE  UNCHANGED pass
    BY <2>7 DEF SealStart, purging
  <2>8. ASSUME NEW n \in Member, Notify(n) \/ OwnDeadline(n) \/ SetMemberRevoked(n)
                                  \/ Purge(n) \/ PurgeFails(n)
        PROVE  pass' \subseteq pass
    BY <2>8 DEF Notify, OwnDeadline, SetMemberRevoked, Purge, PurgeFails, purging
  <2>9. ASSUME NEW revoked \in BOOLEAN, SetRevoked(revoked) PROVE UNCHANGED pass
    BY <2>9 DEF SetRevoked
  <2>10. CASE UNCHANGED vars
    BY <2>1, <2>10 DEF vars
  <2> QED
    BY <2>1, <2>2, <2>3, <2>4, <2>5, <2>6, <2>7, <2>8, <2>9, <2>10 DEF Next
<1> QED
  BY <1>1, Invariance, PTL DEF Spec, PurgeSparesLiveFolder
=============================================================================
