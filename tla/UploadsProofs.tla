----------------------------- MODULE UploadsProofs -----------------------------
(***************************************************************************)
(* Proofs about Uploads, for any number of transfers, sessions and         *)
(* requests in flight, any quotas and policies and any number of crashes.  *)
(***************************************************************************)
EXTENDS Uploads, FiniteSetTheorems, TLAPS

Alone(r) == \A q \in Request : q # r => req[q].t # req[r].t

\* What a request knows of its transfer at each of its steps.
Placed(r) ==
  LET t == req[r].t IN
  /\ req[r].at # "idle" => t \in Transfer /\ req[r].s \in Session
  /\ req[r].at \in {"creating", "created"} =>
       /\ upload[t].state = "absent"
       /\ store[t] # "object"
       /\ Alone(r)
  /\ req[r].at \in {"listing", "assembling", "assembled"} =>
       /\ upload[t].state # "absent"
       /\ req[r].ask \in Choice
  /\ req[r].at = "assembled" =>
       /\ store[t] = "object"
       /\ upload[t].state = "active"
       /\ row[t] = NoRow
       /\ \A q \in Request : req[q].at = "assembled" /\ req[q].t = t => q = r

RequestsPlaced == \A r \in Request : Placed(r)

\* The inductive invariant.  WriteOrder alone is not inductive: that no call
\* reaches the writes of a transfer twice rests on the store refusing the
\* second assembly, and so on what every request in flight has seen.
IInv == TypeOK /\ WriteOrder /\ RequestsPlaced

-----------------------------------------------------------------------------
LEMMA PolicyType ==
  ASSUME NEW d, NEW o \in Options, NEW big
  PROVE  ApplyServicePolicy(d, o, big) \in Options
BY DEF Options, ApplyServicePolicy, Setting

LEMMA TermsType ==
  ASSUME NEW t, NEW ask \in Choice
  PROVE  RecordedTerms(t, ask) \in Terms
<1>1. ask \in Terms
  BY ChoiceAssumption
<1>2. ApplyServicePolicy(Deploy, ask.options, t \in Oversized) \in Options
  BY <1>1, PolicyType DEF Terms
<1> QED BY <1>1, <1>2 DEF RecordedTerms, Terms

\* The first completion stores exactly its own terms under the policy.
LEMMA FirstSave ==
  ASSUME NEW t, NEW ask \in Choice, row[t] = NoRow
  PROVE  SavedRow(t, ask) = RecordedTerms(t, ask) /\ SavedRow(t, ask) \in Terms
BY TermsType DEF SavedRow

LEMMA DispatchType ==
  ASSUME TypeOK, NEW t \in Transfer, NEW o \in Options, Dispatch(t, o)
  PROVE  jobs' \in [Transfer -> SUBSET Options]
BY DEF TypeOK, Dispatch

LEMMA IdleType == Idle \in RequestType
BY DEF Idle, RequestType

\* A request that moves on keeps everything but its step.
LEMMA MovesType ==
  ASSUME TypeOK, NEW r \in Request, NEW from, NEW to \in Steps, Moves(r, from, to)
  PROVE  req' \in [Request -> RequestType]
<1>1. PICK w : w = [req[r] EXCEPT !.at = to]
  OBVIOUS
<1>2. req[r] \in RequestType /\ req \in [Request -> RequestType]
  BY DEF TypeOK
<1>3. w \in RequestType
  BY <1>1, <1>2 DEF RequestType
<1>4. req' = [req EXCEPT ![r] = w]
  BY <1>1, <1>2 DEF Moves
<1> QED BY <1>2, <1>3, <1>4

LEMMA InitIInv == Init => IInv
BY IdleType, NoneAssumption, BoundsAssumption
DEF Init, IInv, TypeOK, WriteOrder, RequestsPlaced, Placed, Idle

-----------------------------------------------------------------------------
\* A step that writes no table and leaves the store alone; requests end or go on.
LEMMA QuietStep ==
  ASSUME IInv, TypeOK', UNCHANGED <<durable, store>>,
         \A r \in Request : req'[r] \in {req[r], Idle}
  PROVE  IInv'
<1>1. WriteOrder'
  BY DEF IInv, WriteOrder, durable
<1>2. ASSUME NEW r \in Request PROVE Placed(r)'
  <2>1. CASE req'[r] = Idle
    BY <2>1 DEF Placed, Idle
  <2>2. CASE req'[r] = req[r]
    BY <2>2, NoneAssumption DEF IInv, RequestsPlaced, Placed, Alone, Idle, durable
  <2> QED BY <2>1, <2>2
<1> QED BY <1>1, <1>2 DEF IInv, RequestsPlaced

\* The first n writes of a completion, for the request that assembled.
LEMMA WritesStep ==
  ASSUME IInv, NEW r \in Request, req[r].at = "assembled", NEW n \in 1..3,
         Writes(req[r].t, req[r].ask, n), UNCHANGED store,
         \A q \in Request : req'[q] \in {req[q], Idle}, req'[r] = Idle
  PROVE  /\ upload' \in [Transfer -> [state : {"absent", "active", "complete"},
                                     s : Session \union {NoSession}, old : BOOLEAN]]
         /\ row' \in [Transfer -> Terms \union {NoRow}]
         /\ billed' \in SUBSET Transfer
         /\ WriteOrder'
         /\ RequestsPlaced'
<1>1. PICK t \in Transfer : t = req[r].t
  BY DEF IInv, RequestsPlaced, Placed
<1>2. PICK ask \in Choice : ask = req[r].ask
  BY DEF IInv, RequestsPlaced, Placed
<1>3. store[t] = "object" /\ upload[t].state = "active" /\ row[t] = NoRow
  BY <1>1 DEF IInv, RequestsPlaced, Placed
<1>4. SavedRow(t, ask) \in Terms /\ SavedRow(t, ask) # NoRow
  BY <1>3, FirstSave, NoneAssumption
<1>5. /\ upload' = [upload EXCEPT ![t] = [@ EXCEPT !.state = "complete"]]
      /\ row' = IF n >= 2 THEN [row EXCEPT ![t] = SavedRow(t, ask)] ELSE row
      /\ billed' = IF n >= 3 THEN billed \union {t} ELSE billed
  BY <1>1, <1>2 DEF Writes
<1>6. WriteOrder'
  BY <1>3, <1>4, <1>5 DEF IInv, TypeOK, WriteOrder
<1>7. ASSUME NEW q \in Request PROVE Placed(q)'
  <2>1. CASE req'[q] = Idle
    BY <2>1 DEF Placed, Idle
  <2>2. CASE req'[q] # Idle
    <3>1. req'[q] = req[q] /\ q # r
      BY <2>2
    <3>2. Placed(q) /\ Placed(r)
      BY DEF IInv, RequestsPlaced
    <3>3. CASE req[q].t = t
      BY <1>1, <1>3, <1>5, <3>1, <3>2, <3>3 DEF IInv, TypeOK, Placed
    <3>4. CASE req[q].t # t
      BY <1>5, <3>1, <3>2, <3>4, NoneAssumption DEF IInv, TypeOK, Placed, Alone, Idle
    <3> QED BY <3>3, <3>4
  <2> QED BY <2>1, <2>2
<1> QED BY <1>4, <1>5, <1>6, <1>7 DEF IInv, TypeOK, RequestsPlaced

-----------------------------------------------------------------------------
\* One step per action.
LEMMA StepIInv == IInv /\ [Next]_vars => IInv'
<1> SUFFICES ASSUME IInv, [Next]_vars PROVE IInv'
    OBVIOUS
<1> USE DEF IInv, durable
<1>1. ASSUME NEW r \in Request, NEW s \in Session, InitiateStart(r, s)
      PROVE  IInv'
  <2>1. PICK t \in Fresh :
          req' = [req EXCEPT ![r] = [at |-> "creating", t |-> t, s |-> s, ask |-> NoChoice]]
    BY <1>1 DEF InitiateStart
  <2>2. /\ t \in Transfer /\ upload[t].state = "absent" /\ store[t] = "nothing"
        /\ \A q \in Request : req[q].t # t
    BY <2>1 DEF Fresh
  <2>3. TypeOK'
    BY <1>1, <2>1, <2>2 DEF InitiateStart, TypeOK, RequestType, Steps
  <2>4. WriteOrder'
    BY <1>1 DEF InitiateStart, WriteOrder
  <2>5. ASSUME NEW q \in Request PROVE Placed(q)'
    BY <1>1, <2>1, <2>2 DEF InitiateStart, TypeOK, RequestsPlaced, Placed, Alone
  <2> QED BY <2>3, <2>4, <2>5 DEF RequestsPlaced
<1>2. ASSUME NEW r \in Request, StoreCreate(r)
      PROVE  IInv'
  <2>1. PICK t \in Transfer : t = req[r].t
    BY <1>2 DEF StoreCreate, Moves, RequestsPlaced, Placed
  <2>2. upload[t].state = "absent" /\ \A q \in Request : q # r => req[q].t # t
    BY <1>2, <2>1 DEF StoreCreate, Moves, RequestsPlaced, Placed, Alone
  <2>3. TypeOK'
    <3>1. Moves(r, "creating", "created") /\ "created" \in Steps
      BY <1>2 DEF StoreCreate, Steps
    <3>2. req' \in [Request -> RequestType]
      BY <3>1, MovesType
    <3> QED BY <1>2, <2>1, <3>2 DEF StoreCreate, TypeOK
  <2>4. WriteOrder'
    BY <1>2, <2>1, <2>2 DEF StoreCreate, TypeOK, WriteOrder
  <2>5. ASSUME NEW q \in Request PROVE Placed(q)'
    BY <1>2, <2>1, <2>2 DEF StoreCreate, Moves, TypeOK, RequestsPlaced, Placed, Alone
  <2> QED BY <2>3, <2>4, <2>5 DEF RequestsPlaced
<1>3. ASSUME NEW r \in Request, InitiateRow(r)
      PROVE  IInv'
  <2>1. PICK t \in Transfer : t = req[r].t
    BY <1>3 DEF InitiateRow, RequestsPlaced, Placed
  <2>2. /\ upload[t].state = "absent" /\ store[t] # "object" /\ req[r].s \in Session
        /\ \A q \in Request : q # r => req[q].t # t
    BY <1>3, <2>1 DEF InitiateRow, RequestsPlaced, Placed, Alone
  <2>3. TypeOK'
    BY <1>3, <2>1, <2>2, IdleType DEF InitiateRow, TypeOK
  <2>4. WriteOrder'
    BY <1>3, <2>1, <2>2 DEF InitiateRow, TypeOK, WriteOrder
  <2>5. ASSUME NEW q \in Request PROVE Placed(q)'
    BY <1>3, <2>1, <2>2, NoneAssumption
    DEF InitiateRow, TypeOK, RequestsPlaced, Placed, Alone, Idle
  <2> QED BY <2>3, <2>4, <2>5 DEF RequestsPlaced
<1>4. ASSUME NEW r \in Request,
             InitiateFail(r) \/ StoreReplyLost(r) \/ StoreRefuses(r)
      PROVE  IInv'
  <2>1. TypeOK'
    BY <1>4, IdleType, BoundsAssumption
    DEF InitiateFail, StoreReplyLost, StoreRefuses, TypeOK
  <2> QED BY <1>4, <2>1, QuietStep DEF InitiateFail, StoreReplyLost, StoreRefuses, TypeOK
<1>5. ASSUME NEW r \in Request, NEW s \in Session, NEW t \in Transfer, CompleteStart(r, s, t)
      PROVE  IInv'
  <2>1. CASE UNCHANGED req
    <3>1. TypeOK'
      BY <1>5, <2>1 DEF CompleteStart, TypeOK
    <3> QED BY <1>5, <2>1, <3>1, QuietStep DEF CompleteStart
  <2>2. CASE \E c \in Choice :
               req' = [req EXCEPT ![r] = [at |-> "listing", t |-> t, s |-> s, ask |-> c]]
    <3>1. PICK c \in Choice :
            req' = [req EXCEPT ![r] = [at |-> "listing", t |-> t, s |-> s, ask |-> c]]
      BY <2>2
    <3>2. upload[t].state # "absent"
      BY <1>5 DEF CompleteStart, MayUse
    <3>3. TypeOK'
      BY <1>5, <3>1 DEF CompleteStart, TypeOK, RequestType, Steps
    <3>4. WriteOrder'
      BY <1>5 DEF CompleteStart, WriteOrder
    <3>5. ASSUME NEW q \in Request PROVE Placed(q)'
      BY <1>5, <3>1, <3>2 DEF CompleteStart, TypeOK, RequestsPlaced, Placed, Alone
    <3> QED BY <3>3, <3>4, <3>5 DEF RequestsPlaced
  <2> QED BY <1>5, <2>1, <2>2 DEF CompleteStart
<1>6. ASSUME NEW r \in Request, ListParts(r)
      PROVE  IInv'
  <2>1. TypeOK'
    <3>1. Moves(r, "listing", "assembling") /\ "assembling" \in Steps
      BY <1>6 DEF ListParts, Steps
    <3>2. req' \in [Request -> RequestType]
      BY <3>1, MovesType
    <3> QED BY <1>6, <3>2 DEF ListParts, TypeOK
  <2>2. WriteOrder'
    BY <1>6 DEF ListParts, WriteOrder
  <2>3. ASSUME NEW q \in Request PROVE Placed(q)'
    BY <1>6 DEF ListParts, Moves, TypeOK, RequestsPlaced, Placed, Alone
  <2> QED BY <2>1, <2>2, <2>3 DEF RequestsPlaced
<1>7. ASSUME NEW r \in Request, Assemble(r)
      PROVE  IInv'
  <2>1. PICK t \in Transfer : t = req[r].t
    BY <1>7 DEF Assemble, Moves, RequestsPlaced, Placed
  <2>2. /\ store[t] = "parts" /\ upload[t].state = "active" /\ row[t] = NoRow
        /\ req[r].ask \in Choice
    BY <1>7, <2>1 DEF Assemble, Moves, RequestsPlaced, Placed, TypeOK, WriteOrder
  <2>3. TypeOK'
    <3>0. Moves(r, "assembling", "assembled") /\ "assembled" \in Steps
      BY <1>7 DEF Assemble, Steps
    <3>1. req' \in [Request -> RequestType]
      BY <3>0, MovesType
    <3>2. store' \in [Transfer -> {"nothing", "parts", "object"}]
      BY <1>7, <2>1 DEF Assemble, TypeOK
    <3>3. notified' \in SUBSET Transfer
      BY <1>7, <2>1 DEF Assemble, TypeOK
    <3> QED BY <1>7, <3>1, <3>2, <3>3 DEF Assemble, TypeOK
  <2>4. WriteOrder'
    BY <1>7, <2>1 DEF Assemble, TypeOK, WriteOrder
  <2>5. ASSUME NEW q \in Request PROVE Placed(q)'
    BY <1>7, <2>1, <2>2 DEF Assemble, Moves, TypeOK, RequestsPlaced, Placed, Alone
  <2> QED BY <2>3, <2>4, <2>5 DEF RequestsPlaced
<1>8. ASSUME NEW r \in Request, Record(r)
      PROVE  IInv'
  <2>1. /\ req[r].at = "assembled" /\ Writes(req[r].t, req[r].ask, 3)
        /\ req' = [req EXCEPT ![r] = Idle] /\ UNCHANGED <<store, notified, faults>>
    BY <1>8 DEF Record
  <2>2. req[r].t \in Transfer /\ req[r].ask \in Choice
    BY <2>1 DEF RequestsPlaced, Placed
  <2>3. RecordedTerms(req[r].t, req[r].ask).options \in Options
    BY <2>2, TermsType DEF Terms
  <2>4. jobs' \in [Transfer -> SUBSET Options]
    BY <1>8, <2>2, <2>3, DispatchType DEF Record, TypeOK
  <2>5. acked' \in SUBSET Transfer
    BY <1>8, <2>2 DEF Record, TypeOK
  <2> QED BY <2>1, <2>4, <2>5, WritesStep, IdleType DEF TypeOK
<1>9. ASSUME NEW r \in Request, CrashWhileRecording(r)
      PROVE  IInv'
  <2>1. PICK n \in 1..2 : Writes(req[r].t, req[r].ask, n)
    BY <1>9 DEF CrashWhileRecording
  <2>2. faults' \in 0..MaxFaults
    BY <1>9, BoundsAssumption DEF CrashWhileRecording, TypeOK
  <2> QED BY <1>9, <2>1, <2>2, WritesStep, IdleType DEF CrashWhileRecording, TypeOK
<1>10. ASSUME NEW t \in Transfer, Notify(t)
       PROVE  IInv'
  <2>1. (IF row[t] = NoRow THEN NoOptions ELSE row[t].options) \in Options
    BY DEF TypeOK, Terms, NoOptions, Options, Setting
  <2>2. TypeOK'
    BY <1>10, <2>1, DispatchType DEF Notify, TypeOK
  <2> QED BY <1>10, <2>2, QuietStep DEF Notify
<1>11. ASSUME NEW t \in Transfer, Age(t)
       PROVE  IInv'
  <2>1. /\ upload' \in [Transfer -> [state : {"absent", "active", "complete"},
                                    s : Session \union {NoSession}, old : BOOLEAN]]
        /\ \A u \in Transfer : upload'[u].state = upload[u].state
    BY <1>11 DEF Age, TypeOK
  <2>2. TypeOK' /\ WriteOrder'
    BY <1>11, <2>1 DEF Age, TypeOK, WriteOrder
  <2>3. ASSUME NEW q \in Request PROVE Placed(q)'
    BY <1>11, <2>1 DEF Age, TypeOK, RequestsPlaced, Placed, Alone
  <2> QED BY <2>2, <2>3 DEF RequestsPlaced
<1>12. ASSUME NEW t \in Transfer, Sweep(t)
       PROVE  IInv'
  <2>1. \A u \in Transfer : store'[u] = "object" <=> store[u] = "object"
    BY <1>12 DEF Sweep, TypeOK
  <2>2. TypeOK' /\ WriteOrder'
    BY <1>12, <2>1 DEF Sweep, TypeOK, WriteOrder
  <2>3. ASSUME NEW q \in Request PROVE Placed(q)'
    BY <1>12, <2>1 DEF Sweep, TypeOK, RequestsPlaced, Placed, Alone
  <2> QED BY <2>2, <2>3 DEF RequestsPlaced
<1>13. CASE Crash
  <2>1. TypeOK'
    BY <1>13, IdleType, BoundsAssumption DEF Crash, TypeOK
  <2> QED BY <1>13, <2>1, QuietStep DEF Crash
<1>14. CASE UNCHANGED vars
  BY <1>14, QuietStep DEF vars, TypeOK
<1> QED
  BY <1>1, <1>2, <1>3, <1>4, <1>5, <1>6, <1>7, <1>8, <1>9, <1>10, <1>11, <1>12, <1>13, <1>14
  DEF Next, RequestStep

LEMMA Invariance == Spec => []IInv
BY InitIInv, StepIInv, PTL DEF Spec

-----------------------------------------------------------------------------
\* The tables, the store and the requests keep their types.
THEOREM TypeCorrect == Spec => []TypeOK
BY Invariance, PTL DEF IInv

\* A crash anywhere leaves the durable writes of a completion in their order.
THEOREM WritesInOrder == Spec => []WriteOrder
BY Invariance, PTL DEF IInv

\* However many calls complete a transfer, one of them gets past the store.
THEOREM OneCallRecords == Spec => []OneAssembler
<1>1. IInv => OneAssembler
  <2> SUFFICES ASSUME IInv, NEW t \in Transfer
               PROVE  /\ Cardinality(Recording(t)) <= 1
                      /\ Recording(t) # {} => upload[t].state = "active" /\ row[t] = NoRow
      BY DEF OneAssembler
  <2>1. CASE Recording(t) = {}
    BY <2>1, FS_EmptySet
  <2>2. CASE Recording(t) # {}
    <3>1. PICK r \in Recording(t) : TRUE
      BY <2>2
    <3>2. Recording(t) = {r}
      BY <3>1 DEF IInv, RequestsPlaced, Placed, Recording
    <3>3. upload[t].state = "active" /\ row[t] = NoRow
      BY <3>1 DEF IInv, RequestsPlaced, Placed, Recording
    <3> QED BY <3>2, <3>3, FS_Singleton
  <2> QED BY <2>1, <2>2
<1> QED BY <1>1, Invariance, PTL

\* A recorded transfer keeps the options and the password it was first
\* recorded with, whatever later or concurrent completions ask for.
THEOREM FirstCallRecorded == Spec => FirstCallWins
<1>1. IInv /\ [Next]_vars => \A t \in Transfer : row[t] # NoRow => row'[t] = row[t]
  <2> SUFFICES ASSUME IInv, [Next]_vars, NEW t \in Transfer, row[t] # NoRow
               PROVE  row'[t] = row[t]
      OBVIOUS
  <2>1. ASSUME NEW r \in Request, Record(r) \/ CrashWhileRecording(r)
        PROVE  row'[t] = row[t]
    <3>1. req[r].t # t /\ req[r].t \in Transfer
      BY <2>1 DEF Record, CrashWhileRecording, IInv, RequestsPlaced, Placed
    <3>2. row' = row \/ row' = [row EXCEPT ![req[r].t] = SavedRow(req[r].t, req[r].ask)]
      BY <2>1 DEF Record, CrashWhileRecording, Writes
    <3> QED BY <3>1, <3>2 DEF IInv, TypeOK
  <2>2. ASSUME UNCHANGED row PROVE row'[t] = row[t]
    BY <2>2
  <2> QED
    BY <2>1, <2>2
    DEF Next, RequestStep, vars, durable, StoreCreate, InitiateRow, ListParts, Assemble,
        StoreRefuses, InitiateFail, StoreReplyLost, InitiateStart, CompleteStart, Notify,
        Age, Sweep, Crash
<1> QED BY <1>1, Invariance, PTL DEF Spec, FirstCallWins

\* A job for a recorded transfer carries the recorded options, whether the
\* notification or the inline trigger dispatches it, before or after a restart.
THEOREM JobsRecorded == Spec => JobsFollowTheRecord
<1>1. IInv /\ [Next]_vars =>
        \A t \in Transfer :
          row'[t] # NoRow =>
            \A o \in jobs'[t] \ jobs[t] : o = row'[t].options /\ AnyServiceOn(o)
  <2> SUFFICES ASSUME IInv, [Next]_vars, NEW t \in Transfer, row'[t] # NoRow,
                      NEW o \in jobs'[t] \ jobs[t]
               PROVE  o = row'[t].options /\ AnyServiceOn(o)
      OBVIOUS
  <2>1. ASSUME NEW u \in Transfer, NEW e, Dispatch(u, e)
        PROVE  u = t /\ o = e /\ AnyServiceOn(o)
    BY <2>1 DEF Dispatch, IInv, TypeOK
  <2>2. ASSUME NEW r \in Request, Record(r)
        PROVE  o = row'[t].options /\ AnyServiceOn(o)
    <3>1. /\ req[r].t \in Transfer /\ req[r].ask \in Choice /\ row[req[r].t] = NoRow
          /\ row' = [row EXCEPT ![req[r].t] = SavedRow(req[r].t, req[r].ask)]
      BY <2>2 DEF Record, Writes, IInv, RequestsPlaced, Placed
    <3>2. Dispatch(req[r].t, RecordedTerms(req[r].t, req[r].ask).options)
      BY <2>2 DEF Record
    <3>3. /\ req[r].t = t
          /\ o = RecordedTerms(req[r].t, req[r].ask).options
          /\ AnyServiceOn(o)
      BY <2>1, <3>1, <3>2
    <3>4. row'[t] = RecordedTerms(req[r].t, req[r].ask)
      BY <3>1, <3>3, FirstSave DEF IInv, TypeOK
    <3> QED BY <3>3, <3>4
  <2>3. ASSUME NEW u \in Transfer, Notify(u)
        PROVE  o = row'[t].options /\ AnyServiceOn(o)
    <3>1. row' = row
      BY <2>3 DEF Notify, durable
    <3>2. /\ u = t
          /\ o = IF row[u] = NoRow THEN NoOptions ELSE row[u].options
          /\ AnyServiceOn(o)
      BY <2>1, <2>3 DEF Notify
    <3> QED BY <3>1, <3>2
  <2>4. ~UNCHANGED jobs
    OBVIOUS
  <2> QED
    BY <2>2, <2>3, <2>4
    DEF Next, RequestStep, vars, StoreCreate, InitiateRow, ListParts, Assemble,
        StoreRefuses, InitiateFail, StoreReplyLost, CrashWhileRecording, InitiateStart,
        CompleteStart, Age, Sweep, Crash
<1> QED BY <1>1, Invariance, PTL DEF Spec, JobsFollowTheRecord
-----------------------------------------------------------------------------
(* The ceilings.                                                           *)

Live(s) == ActiveUploads(s) \union DoneToday(s)

\* One session within its ceilings; ExposureBounded says it of every session.
Bounded(s) ==
  LET active == Cardinality(ActiveUploads(s)) + Cardinality(InFlightInitiates(s))
      done   == Cardinality(DoneToday(s))
  IN /\ active <= (MaxActive - 1) + Cardinality(Request)
     /\ active + done <= (MaxJobs - 1) + (MaxActive - 1) + Cardinality(Request)

\* Disjoint sets of transfers and a set of requests are counted by numbers.
LEMMA SetsCounted ==
  ASSUME NEW A \in SUBSET Transfer, NEW D \in SUBSET Transfer, A \cap D = {},
         NEW F \in SUBSET Request
  PROVE  /\ IsFiniteSet(A) /\ Cardinality(A) \in Nat
         /\ IsFiniteSet(D) /\ Cardinality(D) \in Nat
         /\ IsFiniteSet(F) /\ Cardinality(F) \in Nat
         /\ Cardinality(F) <= Cardinality(Request) /\ Cardinality(Request) \in Nat
         /\ IsFiniteSet(A \union D)
         /\ Cardinality(A \union D) = Cardinality(A) + Cardinality(D)
<1>1. /\ IsFiniteSet(A) /\ IsFiniteSet(D) /\ IsFiniteSet(F)
      /\ Cardinality(F) <= Cardinality(Request)
  BY FiniteAssumption, FS_Subset
<1>2. /\ Cardinality(A) \in Nat /\ Cardinality(D) \in Nat
      /\ Cardinality(F) \in Nat /\ Cardinality(Request) \in Nat
  BY <1>1, FiniteAssumption, FS_CardinalityType
<1>3. /\ IsFiniteSet(A \union D)
      /\ Cardinality(A \union D) = Cardinality(A) + Cardinality(D) - Cardinality({})
  BY <1>1, FS_Union
<1> QED BY <1>1, <1>2, <1>3, FS_EmptySet

LEMMA Apart ==
  ASSUME NEW s
  PROVE  /\ ActiveUploads(s) \in SUBSET Transfer /\ DoneToday(s) \in SUBSET Transfer
         /\ ActiveUploads(s) \cap DoneToday(s) = {}
         /\ InFlightInitiates(s) \in SUBSET Request
         /\ ActiveUploads(s)' \in SUBSET Transfer /\ DoneToday(s)' \in SUBSET Transfer
         /\ ActiveUploads(s)' \cap DoneToday(s)' = {}
         /\ InFlightInitiates(s)' \in SUBSET Request
BY DEF ActiveUploads, DoneToday, CompletedToday, InFlightInitiates

\* A step that lets nothing in: nothing becomes active, nothing is counted that
\* was not, and initiates only end.
LEMMA Recedes ==
  ASSUME NEW s, Bounded(s),
         ActiveUploads(s)' \subseteq ActiveUploads(s),
         Live(s)' \subseteq Live(s),
         InFlightInitiates(s)' \subseteq InFlightInitiates(s)
  PROVE  Bounded(s)'
<1> DEFINE A == ActiveUploads(s)
           D == DoneToday(s)
           F == InFlightInitiates(s)
<1>1. /\ IsFiniteSet(A) /\ IsFiniteSet(F) /\ IsFiniteSet(A \union D)
      /\ Cardinality(A) \in Nat /\ Cardinality(D) \in Nat /\ Cardinality(F) \in Nat
      /\ Cardinality(A \union D) = Cardinality(A) + Cardinality(D)
      /\ Cardinality(Request) \in Nat
  BY Apart, SetsCounted
<1>2. /\ Cardinality(A') \in Nat /\ Cardinality(D') \in Nat /\ Cardinality(F') \in Nat
      /\ Cardinality(A' \union D') = Cardinality(A') + Cardinality(D')
  BY Apart, SetsCounted
<1>3. /\ Cardinality(A') <= Cardinality(A) /\ Cardinality(F') <= Cardinality(F)
      /\ Cardinality(A' \union D') <= Cardinality(A \union D)
  BY <1>1, FS_Subset DEF Live
<1> HIDE DEF A, D, F
<1> QED BY <1>1, <1>2, <1>3, BoundsAssumption DEF Bounded, A, D, F

\* Only a call the ceilings admit adds an initiate.
LEMMA StartBounded ==
  ASSUME IInv, NEW s \in Session, Bounded(s), NEW r \in Request, NEW q \in Session,
         InitiateStart(r, q)
  PROVE  Bounded(s)'
<1>1. ActiveUploads(s)' = ActiveUploads(s) /\ DoneToday(s)' = DoneToday(s)
  BY DEF InitiateStart, durable, ActiveUploads, DoneToday, CompletedToday
<1>2. CASE q # s
  <2>1. InFlightInitiates(s)' \subseteq InFlightInitiates(s)
    BY <1>2, NoneAssumption DEF InitiateStart, InFlightInitiates, IInv, TypeOK
  <2> QED BY <1>1, <2>1, Recedes DEF Live
<1>3. CASE q = s
  <2>1. Cardinality(ActiveUploads(s)) < MaxActive /\ Cardinality(DoneToday(s)) < MaxJobs
    BY <1>3 DEF InitiateStart, QuotaAllows
  <2>2. /\ Cardinality(ActiveUploads(s)) \in Nat /\ Cardinality(DoneToday(s)) \in Nat
        /\ Cardinality(InFlightInitiates(s)') \in Nat
        /\ Cardinality(InFlightInitiates(s)') <= Cardinality(Request)
        /\ Cardinality(Request) \in Nat
    BY Apart, SetsCounted
  <2> QED BY <1>1, <2>1, <2>2, BoundsAssumption DEF Bounded
<1> QED BY <1>2, <1>3

\* An initiate in flight becomes an active upload: one for one.
LEMMA RowBounded ==
  ASSUME IInv, NEW s \in Session, Bounded(s), NEW r \in Request, InitiateRow(r)
  PROVE  Bounded(s)'
<1> DEFINE t == req[r].t
           A == ActiveUploads(s)
           D == DoneToday(s)
           F == InFlightInitiates(s)
<1>1. /\ t \in Transfer /\ req[r].s \in Session /\ upload[t].state = "absent"
      /\ req[r].at = "created"
  BY DEF InitiateRow, IInv, RequestsPlaced, Placed
<1>2. CASE req[r].s # s
  <2>1. ActiveUploads(s)' \subseteq ActiveUploads(s) /\ Live(s)' \subseteq Live(s)
    BY <1>1, <1>2 DEF InitiateRow, Live, ActiveUploads, DoneToday, CompletedToday, IInv, TypeOK
  <2>2. InFlightInitiates(s)' \subseteq InFlightInitiates(s)
    BY NoneAssumption DEF InitiateRow, InFlightInitiates, Idle, IInv, TypeOK
  <2> QED BY <2>1, <2>2, Recedes
<1>3. CASE req[r].s = s
  <2>1. A' = A \union {t} /\ D' \subseteq D
    BY <1>1, <1>3 DEF InitiateRow, ActiveUploads, DoneToday, CompletedToday, IInv, TypeOK
  <2>2. F' = F \ {r} /\ r \in F
    BY <1>1, <1>3 DEF InitiateRow, InFlightInitiates, Idle, IInv, TypeOK
  <2>3. /\ IsFiniteSet(A) /\ IsFiniteSet(D) /\ IsFiniteSet(F)
        /\ Cardinality(A) \in Nat /\ Cardinality(D) \in Nat /\ Cardinality(F) \in Nat
        /\ Cardinality(A') \in Nat /\ Cardinality(D') \in Nat /\ Cardinality(F') \in Nat
        /\ Cardinality(Request) \in Nat
    BY Apart, SetsCounted
  <2> HIDE DEF A, D, F
  <2>4. Cardinality(A') <= Cardinality(A) + 1
    <3>1. Cardinality(A \union {t}) = IF t \in A THEN Cardinality(A) ELSE Cardinality(A) + 1
      BY <2>3, FS_AddElement
    <3> QED BY <2>1, <2>3, <3>1
  <2>5. Cardinality(D') <= Cardinality(D)
    BY <2>1, <2>3, FS_Subset
  <2>6. Cardinality(F') = Cardinality(F) - 1
    BY <2>2, <2>3, FS_RemoveElement
  <2> QED BY <2>3, <2>4, <2>5, <2>6, BoundsAssumption DEF Bounded, A, D, F
<1> QED BY <1>2, <1>3

\* A completion moves an upload from one count to the other.
LEMMA WritesBounded ==
  ASSUME IInv, NEW s \in Session, Bounded(s), NEW r \in Request, req[r].at = "assembled",
         NEW n \in 1..3, Writes(req[r].t, req[r].ask, n),
         \A q \in Request : req'[q] \in {req[q], Idle}
  PROVE  Bounded(s)'
<1>1. PICK t \in Transfer : t = req[r].t /\ upload[t].state = "active"
  BY DEF IInv, RequestsPlaced, Placed
<1>2. upload' = [upload EXCEPT ![t] = [@ EXCEPT !.state = "complete"]]
  BY <1>1 DEF Writes
<1>3. ActiveUploads(s)' \subseteq ActiveUploads(s) /\ Live(s)' \subseteq Live(s)
  BY <1>1, <1>2 DEF Live, ActiveUploads, DoneToday, CompletedToday, IInv, TypeOK
<1>4. InFlightInitiates(s)' \subseteq InFlightInitiates(s)
  BY DEF InFlightInitiates, Idle
<1> QED BY <1>3, <1>4, Recedes

\* The ceilings of a session are overshot by no more than the initiates that
\* were in flight when they were read, for any ceilings, any number of
\* transfers and requests, and whatever completes, ages or fails meanwhile.
THEOREM ExposureHeld == Spec => []ExposureBounded
<1>1. Init => ExposureBounded
  <2> SUFFICES ASSUME Init, NEW s \in Session PROVE Bounded(s)
      BY DEF ExposureBounded, Bounded
  <2>1. ActiveUploads(s) = {} /\ DoneToday(s) = {} /\ InFlightInitiates(s) = {}
    BY DEF Init, Idle, ActiveUploads, DoneToday, CompletedToday, InFlightInitiates
  <2>2. Cardinality(Request) \in Nat
    BY FiniteAssumption, FS_CardinalityType
  <2> QED BY <2>1, <2>2, FS_EmptySet, BoundsAssumption DEF Bounded
<1>2. IInv /\ ExposureBounded /\ [Next]_vars => ExposureBounded'
  <2> SUFFICES ASSUME IInv, [Next]_vars, NEW s \in Session, Bounded(s) PROVE Bounded(s)'
      BY DEF ExposureBounded, Bounded
  <2>1. ASSUME NEW r \in Request, NEW q \in Session, InitiateStart(r, q) PROVE Bounded(s)'
    BY <2>1, StartBounded
  <2>2. ASSUME NEW r \in Request, InitiateRow(r) PROVE Bounded(s)'
    BY <2>2, RowBounded
  <2>3. ASSUME NEW r \in Request, Record(r) PROVE Bounded(s)'
    <3>1. \A q \in Request : req'[q] \in {req[q], Idle}
      BY <2>3 DEF Record, IInv, TypeOK
    <3> QED BY <2>3, <3>1, WritesBounded DEF Record
  <2>4. ASSUME NEW r \in Request, CrashWhileRecording(r) PROVE Bounded(s)'
    <3>1. \A q \in Request : req'[q] \in {req[q], Idle}
      BY <2>4 DEF CrashWhileRecording
    <3>2. PICK n \in 1..2 : Writes(req[r].t, req[r].ask, n)
      BY <2>4 DEF CrashWhileRecording
    <3> QED BY <2>4, <3>1, <3>2, WritesBounded DEF CrashWhileRecording
  <2>5. ASSUME NEW t \in Transfer, Age(t) PROVE Bounded(s)'
    <3>1. ActiveUploads(s)' \subseteq ActiveUploads(s) /\ Live(s)' \subseteq Live(s)
      BY <2>5 DEF Age, Live, ActiveUploads, DoneToday, CompletedToday, IInv, TypeOK
    <3>2. InFlightInitiates(s)' \subseteq InFlightInitiates(s)
      BY <2>5 DEF Age, InFlightInitiates
    <3> QED BY <3>1, <3>2, Recedes
  <2>6. ASSUME UNCHANGED upload, InFlightInitiates(s)' \subseteq InFlightInitiates(s)
        PROVE  Bounded(s)'
    BY <2>6, Recedes DEF Live, ActiveUploads, DoneToday, CompletedToday
  <2>7. ASSUME NEW r \in Request,
               StoreCreate(r) \/ ListParts(r) \/ Assemble(r)
        PROVE  Bounded(s)'
    <3>1. UNCHANGED upload
      BY <2>7 DEF StoreCreate, ListParts, Assemble, durable
    <3>2. PICK from, to : Moves(r, from, to) /\ (to \in {"creating", "created"} => from = "creating")
      BY <2>7 DEF StoreCreate, ListParts, Assemble
    <3>3. PICK w : w = [req[r] EXCEPT !.at = to]
      OBVIOUS
    <3>4. req' = [req EXCEPT ![r] = w]
      BY <3>2, <3>3 DEF Moves
    <3>5. req[r] \in RequestType /\ req[r].at = from
      BY <3>2 DEF Moves, IInv, TypeOK
    <3>6. w.at = to /\ w.s = req[r].s
      BY <3>3, <3>5 DEF RequestType
    <3>7. InFlightInitiates(s)' \subseteq InFlightInitiates(s)
      BY <3>2, <3>4, <3>5, <3>6 DEF InFlightInitiates, IInv, TypeOK
    <3> QED BY <2>6, <3>1, <3>7
  <2>8. ASSUME NEW r \in Request, NEW q \in Session, NEW t \in Transfer, CompleteStart(r, q, t)
        PROVE  Bounded(s)'
    <3>1. UNCHANGED upload /\ req[r] = Idle
      BY <2>8 DEF CompleteStart, durable
    <3>2. CASE UNCHANGED req
      BY <2>6, <3>1, <3>2 DEF InFlightInitiates
    <3>3. CASE \E c \in Choice :
                 req' = [req EXCEPT ![r] = [at |-> "listing", t |-> t, s |-> q, ask |-> c]]
      BY <2>6, <3>1, <3>3 DEF InFlightInitiates, IInv, TypeOK
    <3> QED BY <2>8, <3>2, <3>3 DEF CompleteStart
  <2>9. ASSUME UNCHANGED upload, \A q \in Request : req'[q] \in {req[q], Idle}
        PROVE  Bounded(s)'
    BY <2>6, <2>9 DEF InFlightInitiates, Idle
  <2>10. ASSUME NEW r \in Request, StoreRefuses(r) \/ InitiateFail(r) \/ StoreReplyLost(r)
         PROVE  Bounded(s)'
    BY <2>9, <2>10 DEF StoreRefuses, InitiateFail, StoreReplyLost, durable, IInv, TypeOK
  <2>11. ASSUME NEW t \in Transfer, Notify(t) \/ Sweep(t) PROVE Bounded(s)'
    BY <2>9, <2>11 DEF Notify, Sweep, durable
  <2>12. CASE Crash
    BY <2>9, <2>12 DEF Crash, durable
  <2>13. CASE UNCHANGED vars
    BY <2>9, <2>13 DEF vars, durable
  <2> QED
    BY <2>1, <2>2, <2>3, <2>4, <2>5, <2>7, <2>8, <2>10, <2>11, <2>12, <2>13
    DEF Next, RequestStep
<1> QED BY <1>1, <1>2, Invariance, PTL DEF Spec
=============================================================================
