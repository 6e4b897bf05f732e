------------------------- MODULE InterpretiveProofs -------------------------
(***************************************************************************)
(* Proofs about Interpretive, for any policy, any models and deployments,  *)
(* any number of attempts and whatever the answers hold.                   *)
(***************************************************************************)
EXTENDS Interpretive, FiniteSetTheorems, TLAPS

\* What is known of a call c of stage s, whatever it is doing.
Consistent(s, c) ==
  /\ \A o \in c.kept : o.stage = s /\ o.source = c.used
  /\ c.kept # {} => c.answers > 0
  /\ c.candidate = 1 => c.tried[2] = 0
  /\ c.candidate = 2 => HasFallback(s)
  /\ \A k \in 1..2 : c.tried[k] <= config.attempts

\* And what its state adds.
InOrder(s, c) ==
  /\ Consistent(s, c)
  /\ c.state \in {"idle", "queued"} => c.candidate = 1 /\ c.tried[1] = 0
  /\ c.state \in {"idle", "queued", "calling"} => c.answers = 0
  /\ c.state = "repairing" => c.answers = 1
  /\ c.state \in {"calling", "repairing"} => c.tried[c.candidate] > 0
  /\ c.state \in {"queued", "calling", "repairing"} => config.primary[s] # NoModel
  /\ c.outcome = "complete" => c.kept # {}
  /\ c.outcome = "fallback" => s = "planner"

CallsInOrder == \A s \in Stage : InOrder(s, call[s])

\* The steps of the run wait for their calls.
PhasesInOrder ==
  /\ phase # "planning" => Ended("planner")
  /\ phase \in {"planning", "evidence", "raised"} => \A s \in Lane : call[s] = Idle
  /\ phase \in {"planning", "evidence"} => media = {}
  /\ phase \in {"planning", "evidence", "lanes", "raised"} => call["synthesis"] = Idle
  /\ phase \in {"synthesis", "deciding", "done"} => \A s \in Lane : Ended(s)
  /\ phase \in {"deciding", "done"} => Ended("synthesis")
  /\ phase = "done" =>
       decision = Decide(config.status, RunState, StageObservations, config.mode, TRUE, Risk)

\* The inductive invariant.
IInv == TypeOK /\ CallsInOrder /\ PhasesInOrder /\ received = ModelCalls

-----------------------------------------------------------------------------
(* Counting.                                                               *)

\* A set counted at two or more has two elements, finite or not.
LEMMA TwoElements ==
  ASSUME NEW S, NEW n \in Nat, n >= 2, Cardinality(S) >= n
  PROVE  \E a, b \in S : a # b
<1>1. S # {}
  <2>1. Cardinality({}) = 0
    BY FS_EmptySet
  <2> QED
    BY <2>1
<1>2. PICK a \in S : TRUE
  BY <1>1
<1>3. S # {a}
  <2>1. Cardinality({a}) = 1
    BY FS_Singleton
  <2> QED
    BY <2>1
<1> QED
  BY <1>2, <1>3

-----------------------------------------------------------------------------
(* One call.                                                               *)

LEMMA ConfigInType ==
  ASSUME TypeOK
  PROVE  /\ config.attempts \in 1..MaxAttempts
         /\ \A s \in Stage : config.primary[s] \in Model \cup {NoModel}
         /\ \A s \in Stage : HasFallback(s) => config.fallback \in Model
         /\ config.mode \in Mode
BY InterpretiveAssumption DEF TypeOK, ConfigType, HasFallback

LEMMA IdleInOrder ==
  ASSUME TypeOK
  PROVE  Idle \in CallType /\ \A s \in Stage : InOrder(s, Idle)
<1>1. Idle.tried \in [1..2 -> 0..MaxAttempts]
  BY InterpretiveAssumption DEF Idle
<1>2. Idle \in CallType
  BY <1>1 DEF Idle, CallType, Outcome
<1>3. /\ Idle.kept = {} /\ Idle.answers = 0 /\ Idle.state = "idle" /\ Idle.candidate = 1
      /\ Idle.tried[1] = 0 /\ Idle.tried[2] = 0 /\ Idle.outcome = "pending"
  BY DEF Idle
<1>4. \A k \in 1..2 : Idle.tried[k] <= config.attempts
  BY <1>3, ConfigInType, InterpretiveAssumption
<1> QED
  BY <1>2, <1>3, <1>4 DEF InOrder, Consistent

\* A call that ends, or goes on, keeps the invariant when it is left in order and
\* its answers are counted.
LEMMA CallMoves ==
  ASSUME IInv, NEW s \in Stage, NEW c \in CallType, InOrder(s, c),
         call[s].state \in {"queued", "calling", "repairing"},
         call' = [call EXCEPT ![s] = c],
         UNCHANGED <<config, phase, media, decision>>,
         received' = received + c.answers - call[s].answers
  PROVE  IInv'
<1>1. \A t \in Stage \ {s} : call'[t] = call[t]
  BY DEF IInv, TypeOK
<1>2. call' \in [Stage -> CallType] /\ call'[s] = c
  BY DEF IInv, TypeOK
<1>3. \A t \in Stage : call[t].answers \in Nat /\ call'[t].answers \in Nat
  BY <1>2 DEF IInv, TypeOK, CallType
<1>4. received' = ModelCalls'
  <2>1. received = ModelCalls
    BY DEF IInv
  <2> QED
    BY <1>1, <1>2, <1>3, <2>1 DEF ModelCalls, Stage, Lane
<1>5. ModelCalls' \in Nat
  BY <1>3 DEF ModelCalls, Stage, Lane
<1>6. TypeOK'
  BY <1>2, <1>4, <1>5 DEF IInv, TypeOK
<1>7. CallsInOrder'
  BY <1>1, <1>2 DEF IInv, CallsInOrder, InOrder, Consistent, HasFallback
<1>8. call[s] # Idle /\ ~Ended(s)
  BY DEF Idle, Ended
<1>9. phase # "done"
  BY <1>8 DEF IInv, PhasesInOrder, Stage, Lane, TypeOK, Phase
<1>10. PhasesInOrder'
  BY <1>1, <1>8, <1>9 DEF IInv, PhasesInOrder, Ended, Stage, Lane, Idle
<1> QED
  BY <1>4, <1>6, <1>7, <1>10 DEF IInv

LEMMA AttemptedInType ==
  ASSUME IInv, NEW s \in Stage, NEW k \in 1..2, call[s].tried[k] < config.attempts
  PROVE  /\ Attempted(s, k) \in [1..2 -> 0..MaxAttempts]
         /\ Attempted(s, k)[k] > 0
         /\ \A j \in 1..2 : Attempted(s, k)[j] <= config.attempts
         /\ \A j \in 1..2 : j # k => Attempted(s, k)[j] = call[s].tried[j]
<1>1. call[s].tried \in [1..2 -> 0..MaxAttempts]
  BY DEF IInv, TypeOK, CallType
<1>2. config.attempts \in 1..MaxAttempts /\ MaxAttempts \in Nat
  BY ConfigInType, InterpretiveAssumption DEF IInv
<1>3. \A j \in 1..2 : call[s].tried[j] <= config.attempts
  BY DEF IInv, CallsInOrder, InOrder, Consistent
<1>4. Attempted(s, k)[k] = call[s].tried[k] + 1
  BY <1>1 DEF Attempted
<1>5. \A j \in 1..2 : j # k => Attempted(s, k)[j] = call[s].tried[j]
  BY <1>1 DEF Attempted
<1>6. \A j \in 1..2 : Attempted(s, k)[j] \in 0..MaxAttempts /\ Attempted(s, k)[j] <= config.attempts
  BY <1>1, <1>2, <1>3, <1>4, <1>5
<1>7. Attempted(s, k) \in [1..2 -> 0..MaxAttempts]
  BY <1>1, <1>6 DEF Attempted
<1>8. Attempted(s, k)[k] > 0
  BY <1>1, <1>4
<1> QED
  BY <1>5, <1>6, <1>7, <1>8

LEMMA CallFacts ==
  ASSUME IInv, NEW s \in Stage
  PROVE  call[s] \in CallType /\ InOrder(s, call[s])
BY DEF IInv, TypeOK, CallsInOrder

LEMMA StartKeeps == ASSUME IInv, NEW s \in Stage, Start(s) PROVE IInv'
<1>1. /\ call[s] \in CallType /\ InOrder(s, call[s]) /\ call[s].state = "queued"
      /\ UNCHANGED <<config, phase, media, decision, received>>
  BY CallFacts DEF Start
<1>2. CASE config.callable
  <2> DEFINE tried == Attempted(s, 1)
             c == [call[s] EXCEPT !.state = "calling", !.tried = tried]
  <2>1. call[s].tried[1] < config.attempts
    BY <1>1, ConfigInType, InterpretiveAssumption DEF InOrder, Consistent, IInv
  <2>2. call' = [call EXCEPT ![s] = c]
    BY <1>2 DEF Start
  <2>3. /\ tried \in [1..2 -> 0..MaxAttempts] /\ tried[1] > 0 /\ tried[2] = call[s].tried[2]
        /\ \A j \in 1..2 : tried[j] <= config.attempts
    BY <2>1, AttemptedInType
  <2> HIDE DEF tried
  <2>4. c \in CallType
    BY <1>1, <2>3 DEF CallType
  <2>5. InOrder(s, c)
    BY <1>1, <2>3 DEF InOrder, Consistent, CallType
  <2>6. received' = received + c.answers - call[s].answers
    BY <1>1 DEF IInv, TypeOK, CallType
  <2> HIDE DEF c
  <2> QED
    BY <1>1, <2>2, <2>4, <2>5, <2>6, CallMoves
<1>3. CASE ~config.callable
  <2> DEFINE c == [call[s] EXCEPT !.state = "ended",
                     !.outcome = IF s = "planner" THEN "fallback" ELSE "not_configured"]
  <2>1. call' = [call EXCEPT ![s] = c]
    BY <1>3 DEF Start
  <2>2. c \in CallType
    BY <1>1 DEF CallType, Outcome
  <2>3. InOrder(s, c)
    BY <1>1 DEF InOrder, Consistent, CallType
  <2>4. received' = received + c.answers - call[s].answers
    BY <1>1 DEF IInv, TypeOK, CallType
  <2> HIDE DEF c
  <2> QED
    BY <1>1, <2>1, <2>2, <2>3, <2>4, CallMoves
<1> QED
  BY <1>2, <1>3

\* The model a stage asks is one, and so is the one that answers.
LEMMA AskingInType ==
  ASSUME IInv, NEW s \in Stage, call[s].state \in {"calling", "repairing"}
  PROVE  Reported[Asking(s)] \subseteq Model
<1>1. call[s] \in CallType /\ InOrder(s, call[s])
  BY CallFacts
<1>2. Asking(s) \in Model
  <2>1. CASE call[s].candidate = 1
    BY <1>1, <2>1, ConfigInType DEF IInv, InOrder, Asking, Candidate
  <2>2. CASE call[s].candidate = 2
    BY <1>1, <2>2, ConfigInType DEF IInv, InOrder, Consistent, Asking, Candidate
  <2> QED
    BY <1>1, <2>1, <2>2 DEF CallType
<1> QED
  BY <1>2, InterpretiveAssumption

LEMMA TookInType ==
  ASSUME IInv, NEW s \in Stage, call[s].state \in {"calling", "repairing"},
         NEW m \in Reported[Asking(s)], NEW answer \in Answer[s]
  PROVE  /\ Took(s, m, answer) \in CallType
         /\ Consistent(s, Took(s, m, answer))
         /\ Took(s, m, answer).answers = call[s].answers + 1
         /\ Took(s, m, answer).state = call[s].state
         /\ Took(s, m, answer).outcome = call[s].outcome
         /\ Took(s, m, answer).tried = call[s].tried
         /\ Took(s, m, answer).candidate = call[s].candidate
<1> DEFINE kept == {[c EXCEPT !.stage = s, !.source = m] : c \in answer}
           r == [call[s] EXCEPT !.answers = call[s].answers + 1, !.used = m, !.kept = kept]
<1>1. call[s] \in CallType /\ InOrder(s, call[s])
  BY CallFacts
<1>2. m \in Model
  BY AskingInType
<1>3. \A c \in answer : c \in ObservationType({"none"}, {NoSource})
  BY InterpretiveAssumption
<1>4. \A c \in answer :
        /\ [c EXCEPT !.stage = s, !.source = m] \in Observation
        /\ [c EXCEPT !.stage = s, !.source = m].stage = s
        /\ [c EXCEPT !.stage = s, !.source = m].source = m
  <2> SUFFICES ASSUME NEW c \in answer
               PROVE  LET o == [c EXCEPT !.stage = s, !.source = m]
                      IN o \in Observation /\ o.stage = s /\ o.source = m
    OBVIOUS
  <2>1. c \in ObservationType({"none"}, {NoSource})
    BY <1>3
  <2> QED
    BY <1>2, <2>1 DEF Observation, ObservationType
<1>5. kept \subseteq Observation /\ \A o \in kept : o.stage = s /\ o.source = m
  BY <1>4
<1>6. Took(s, m, answer) = r
  BY DEF Took
<1> HIDE DEF kept
<1>7. call[s].answers \in 0..1
  BY <1>1 DEF InOrder, CallType
<1>8. r \in CallType
  <2>1. call[s].answers + 1 \in 0..2 /\ m \in Model \cup {NoSource} /\ kept \in SUBSET Observation
    BY <1>2, <1>5, <1>7
  <2> QED
    BY <1>1, <2>1 DEF CallType
<1>9. Consistent(s, r)
  BY <1>1, <1>5, <1>7 DEF InOrder, Consistent, CallType
<1>10. /\ r.answers = call[s].answers + 1 /\ r.state = call[s].state /\ r.tried = call[s].tried
       /\ r.outcome = call[s].outcome /\ r.candidate = call[s].candidate
  BY <1>1 DEF CallType
<1> QED
  BY <1>6, <1>8, <1>9, <1>10

LEMMA EndInOrder ==
  ASSUME IInv, NEW s \in Stage, NEW r \in CallType, Consistent(s, r)
  PROVE  /\ End(r, s) \in CallType
         /\ InOrder(s, End(r, s))
         /\ End(r, s).answers = r.answers
<1> DEFINE outcome == IF Structured(s, r.kept) THEN "complete" ELSE Failed(s)
           e == [r EXCEPT !.state = "ended", !.outcome = outcome]
<1>1. /\ outcome \in Outcome
      /\ outcome = "complete" => r.kept # {}
      /\ outcome = "fallback" => s = "planner"
  BY DEF Outcome, Failed, Structured
<1>2. End(r, s) = e
  BY DEF End
<1> HIDE DEF outcome
<1>3. e \in CallType
  BY <1>1 DEF CallType
<1>4. InOrder(s, e)
  BY <1>1 DEF InOrder, Consistent, CallType
<1>5. e.answers = r.answers
  BY DEF CallType
<1> QED
  BY <1>2, <1>3, <1>4, <1>5

LEMMA AnswersKeeps == ASSUME IInv, NEW s \in Stage, Answers(s) PROVE IInv'
<1>1. /\ call[s] \in CallType /\ InOrder(s, call[s]) /\ call[s].state = "calling"
      /\ UNCHANGED <<config, phase, media, decision>> /\ received' = received + 1
  BY CallFacts DEF Answers
<1>2. PICK m \in Reported[Asking(s)], answer \in Answer[s] :
        call' = [call EXCEPT ![s] =
          IF ~Structured(s, Took(s, m, answer).kept) /\ MayRepair(s)
          THEN [Took(s, m, answer) EXCEPT !.state = "repairing",
                                          !.tried = Attempted(s, call[s].candidate)]
          ELSE End(Took(s, m, answer), s)]
  BY DEF Answers
<1> DEFINE r == Took(s, m, answer)
<1>3. /\ r \in CallType /\ Consistent(s, r) /\ r.answers = call[s].answers + 1
      /\ r.state = call[s].state /\ r.outcome = call[s].outcome
      /\ r.tried = call[s].tried /\ r.candidate = call[s].candidate
  BY <1>1, TookInType
<1> HIDE DEF r
<1>4. CASE ~Structured(s, r.kept) /\ MayRepair(s)
  <2> DEFINE k == call[s].candidate
             tried == Attempted(s, k)
             c == [r EXCEPT !.state = "repairing", !.tried = tried]
  <2>1. k \in 1..2
    BY <1>1 DEF CallType
  <2>2. call[s].tried[k] < config.attempts
    BY <1>1, <1>4, <2>1 DEF MayRepair, SameModel, Asking, InOrder
  <2>3. /\ tried \in [1..2 -> 0..MaxAttempts] /\ tried[k] > 0
        /\ \A j \in 1..2 : tried[j] <= config.attempts
        /\ \A j \in 1..2 : j # k => tried[j] = call[s].tried[j]
    BY <2>1, <2>2, AttemptedInType
  <2>4. call' = [call EXCEPT ![s] = c]
    BY <1>2, <1>4 DEF r
  <2> HIDE DEF tried
  <2>5. c \in CallType
    BY <1>3, <2>3 DEF CallType
  <2>6. InOrder(s, c)
    BY <1>1, <1>3, <2>1, <2>3 DEF InOrder, Consistent, CallType
  <2>7. received' = received + c.answers - call[s].answers
    BY <1>1, <1>3 DEF IInv, TypeOK, CallType
  <2> HIDE DEF c
  <2> QED
    BY <1>1, <2>4, <2>5, <2>6, <2>7, CallMoves
<1>5. CASE ~(~Structured(s, r.kept) /\ MayRepair(s))
  <2> DEFINE c == End(r, s)
  <2>1. c \in CallType /\ InOrder(s, c) /\ c.answers = r.answers
    BY <1>3, EndInOrder
  <2>2. call' = [call EXCEPT ![s] = c]
    BY <1>2, <1>5 DEF r
  <2> HIDE DEF c
  <2>3. received' = received + c.answers - call[s].answers
    BY <1>1, <1>3, <2>1 DEF IInv, TypeOK, CallType
  <2> QED
    BY <1>1, <2>1, <2>2, <2>3, CallMoves
<1> QED
  BY <1>4, <1>5

LEMMA RaisesKeeps == ASSUME IInv, NEW s \in Stage, Raises(s) PROVE IInv'
<1>1. /\ call[s] \in CallType /\ InOrder(s, call[s]) /\ call[s].state = "calling"
      /\ UNCHANGED <<config, phase, media, decision, received>>
  BY CallFacts DEF Raises
<1> DEFINE k == call[s].candidate
<1>2. k \in 1..2
  BY <1>1 DEF CallType
<1>3. CASE /\ call[s].tried[k] < config.attempts
           /\ call' = [call EXCEPT ![s] = [call[s] EXCEPT !.tried = Attempted(s, k)]]
  <2> DEFINE tried == Attempted(s, k)
             c == [call[s] EXCEPT !.tried = tried]
  <2>1. /\ tried \in [1..2 -> 0..MaxAttempts] /\ tried[k] > 0
        /\ \A j \in 1..2 : tried[j] <= config.attempts
        /\ \A j \in 1..2 : j # k => tried[j] = call[s].tried[j]
    BY <1>2, <1>3, AttemptedInType
  <2>2. call' = [call EXCEPT ![s] = c]
    BY <1>3
  <2> HIDE DEF tried
  <2>3. c \in CallType
    BY <1>1, <2>1 DEF CallType
  <2>4. InOrder(s, c)
    BY <1>1, <1>2, <2>1 DEF InOrder, Consistent, CallType
  <2>5. received' = received + c.answers - call[s].answers
    BY <1>1 DEF IInv, TypeOK, CallType
  <2> HIDE DEF c
  <2> QED
    BY <1>1, <2>2, <2>3, <2>4, <2>5, CallMoves
<1>4. CASE /\ k = 1 /\ HasFallback(s)
           /\ call' = [call EXCEPT ![s] =
                [call[s] EXCEPT !.candidate = 2, !.tried = Attempted(s, 2)]]
  <2> DEFINE tried == Attempted(s, 2)
             c == [call[s] EXCEPT !.candidate = 2, !.tried = tried]
  <2>1. call[s].tried[2] < config.attempts
    BY <1>1, <1>4, ConfigInType, InterpretiveAssumption DEF InOrder, Consistent, IInv
  <2>2. /\ tried \in [1..2 -> 0..MaxAttempts] /\ tried[2] > 0
        /\ \A j \in 1..2 : tried[j] <= config.attempts
    BY <2>1, AttemptedInType
  <2>3. call' = [call EXCEPT ![s] = c]
    BY <1>4
  <2> HIDE DEF tried
  <2>4. c \in CallType
    <3>1. 2 \in 1..2
      OBVIOUS
    <3> QED
      BY <1>1, <2>2, <3>1 DEF CallType
  <2>5. InOrder(s, c)
    BY <1>1, <1>4, <2>2 DEF InOrder, Consistent, CallType
  <2>6. received' = received + c.answers - call[s].answers
    BY <1>1 DEF IInv, TypeOK, CallType
  <2> HIDE DEF c
  <2> QED
    BY <1>1, <2>3, <2>4, <2>5, <2>6, CallMoves
<1>5. CASE call' = [call EXCEPT ![s] = End(call[s], s)]
  <2> DEFINE c == End(call[s], s)
  <2>1. c \in CallType /\ InOrder(s, c) /\ c.answers = call[s].answers
    BY <1>1, EndInOrder DEF InOrder
  <2>2. call' = [call EXCEPT ![s] = c]
    BY <1>5
  <2> HIDE DEF c
  <2>3. received' = received + c.answers - call[s].answers
    BY <1>1, <2>1 DEF IInv, TypeOK, CallType
  <2> QED
    BY <1>1, <2>1, <2>2, <2>3, CallMoves
<1> QED
  BY <1>3, <1>4, <1>5 DEF Raises

LEMMA RepairedKeeps == ASSUME IInv, NEW s \in Stage, Repaired(s) PROVE IInv'
<1>1. /\ call[s] \in CallType /\ InOrder(s, call[s]) /\ call[s].state = "repairing"
      /\ UNCHANGED <<config, phase, media, decision>> /\ received' = received + 1
  BY CallFacts DEF Repaired
<1>2. PICK m \in Reported[Asking(s)], answer \in Answer[s] :
        call' = [call EXCEPT ![s] = End(Took(s, m, answer), s)]
  BY DEF Repaired
<1> DEFINE r == Took(s, m, answer)
           c == End(r, s)
<1>3. r \in CallType /\ Consistent(s, r) /\ r.answers = call[s].answers + 1
  BY <1>1, TookInType
<1>4. call' = [call EXCEPT ![s] = c]
  BY <1>2
<1> HIDE DEF r
<1>5. c \in CallType /\ InOrder(s, c) /\ c.answers = r.answers
  BY <1>3, EndInOrder
<1> HIDE DEF c
<1>6. received' = received + c.answers - call[s].answers
  BY <1>1, <1>3, <1>5 DEF IInv, TypeOK, CallType
<1> QED
  BY <1>1, <1>4, <1>5, <1>6, CallMoves

LEMMA RepairRaisesKeeps == ASSUME IInv, NEW s \in Stage, RepairRaises(s) PROVE IInv'
<1>1. /\ call[s] \in CallType /\ InOrder(s, call[s]) /\ call[s].state = "repairing"
      /\ UNCHANGED <<config, phase, media, decision, received>>
  BY CallFacts DEF RepairRaises
<1> DEFINE outcome == Failed(s)
           c == [call[s] EXCEPT !.state = "ended", !.outcome = outcome]
<1>2. /\ outcome \in Outcome /\ outcome # "complete"
      /\ outcome = "fallback" => s = "planner"
  BY DEF Outcome, Failed
<1>3. call' = [call EXCEPT ![s] = c]
  BY DEF RepairRaises
<1> HIDE DEF outcome
<1>4. c \in CallType
  BY <1>1, <1>2 DEF CallType
<1>5. InOrder(s, c)
  BY <1>1, <1>2 DEF InOrder, Consistent, CallType
<1>6. received' = received + c.answers - call[s].answers
  BY <1>1 DEF IInv, TypeOK, CallType
<1> HIDE DEF c
<1> QED
  BY <1>1, <1>3, <1>4, <1>5, <1>6, CallMoves

-----------------------------------------------------------------------------
(* The run.                                                                *)

LEMMA PlannedKeeps == ASSUME IInv, Planned PROVE IInv'
<1>1. TypeOK' /\ received' = ModelCalls'
  BY DEF IInv, Planned, TypeOK, Phase, ModelCalls
<1>2. CallsInOrder'
  BY DEF IInv, Planned, CallsInOrder, InOrder, Consistent, HasFallback
<1>3. PhasesInOrder'
  BY DEF IInv, Planned, PhasesInOrder, Ended
<1> QED
  BY <1>1, <1>2, <1>3 DEF IInv

LEMMA EvidenceRaisesKeeps == ASSUME IInv, EvidenceRaises PROVE IInv'
<1>1. TypeOK' /\ received' = ModelCalls'
  BY DEF IInv, EvidenceRaises, TypeOK, Phase, ModelCalls
<1>2. CallsInOrder'
  BY DEF IInv, EvidenceRaises, CallsInOrder, InOrder, Consistent, HasFallback
<1>3. PhasesInOrder'
  BY DEF IInv, EvidenceRaises, PhasesInOrder, Ended
<1> QED
  BY <1>1, <1>2, <1>3 DEF IInv

LEMMA SynthesisEndsKeeps == ASSUME IInv, SynthesisEnds PROVE IInv'
<1>1. TypeOK' /\ received' = ModelCalls'
  BY DEF IInv, SynthesisEnds, TypeOK, Phase, ModelCalls
<1>2. CallsInOrder'
  BY DEF IInv, SynthesisEnds, CallsInOrder, InOrder, Consistent, HasFallback
<1>3. PhasesInOrder'
  BY DEF IInv, SynthesisEnds, PhasesInOrder, Ended
<1> QED
  BY <1>1, <1>2, <1>3 DEF IInv

\* A disposition is one of the three, whatever is decided.
LEMMA DecideInType ==
  ASSUME NEW status, NEW state, NEW obs, NEW mode, NEW required, NEW risks
  PROVE  Decide(status, state, obs, mode, required, risks) \in Disposition
BY DEF Decide, Join, Gate, Proposed, Stricter, Disposition

LEMMA MakeDecisionKeeps == ASSUME IInv, MakeDecision PROVE IInv'
<1>1. /\ decision' = Decide(config.status, RunState, StageObservations, config.mode, TRUE, Risk)
      /\ phase = "deciding" /\ phase' = "done" /\ UNCHANGED <<config, media, call, received>>
  BY DEF MakeDecision
<1>2. decision' \in Disposition
  BY <1>1, DecideInType
<1>3. TypeOK' /\ received' = ModelCalls'
  BY <1>1, <1>2 DEF IInv, TypeOK, Phase, ModelCalls
<1>4. CallsInOrder'
  BY <1>1 DEF IInv, CallsInOrder, InOrder, Consistent, HasFallback
<1>5. RunState' = RunState /\ StageObservations' = StageObservations
  BY <1>1 DEF RunState, StageObservations, Specialists
<1>6. PhasesInOrder'
  BY <1>1, <1>5 DEF IInv, PhasesInOrder, Ended
<1> QED
  BY <1>3, <1>4, <1>6 DEF IInv

LEMMA StoreEvidenceKeeps == ASSUME IInv, StoreEvidence PROVE IInv'
<1>1. /\ phase = "evidence" /\ phase' = "lanes" /\ UNCHANGED <<config, decision, received>>
      /\ media' \subseteq {"visual", "audio"}
  BY DEF StoreEvidence
<1> DEFINE Queued == [Idle EXCEPT !.state = "queued"]
           Stored(s) == IF LaneReady(s, media') THEN Queued ELSE LaneSkipped(s, media')
<1>2. call' = [s \in Stage |-> IF s \notin Lane THEN call[s] ELSE Stored(s)]
  BY DEF StoreEvidence
<1>3. PICK new : new = [s \in Stage |-> IF s \notin Lane THEN call[s] ELSE Stored(s)]
  OBVIOUS
<1>4. \A s \in Lane : call[s] = Idle
  BY <1>1 DEF IInv, PhasesInOrder
<1>5. TypeOK
  BY DEF IInv
<1>6. \A s \in Lane : new[s] = Stored(s)
  BY <1>3 DEF Stage
<1>7. \A s \in Stage \ Lane : new[s] = call[s]
  BY <1>3
<1>8. \A s \in Lane : Stored(s) \in CallType /\ InOrder(s, Stored(s)) /\ Stored(s).answers = 0
  <2> SUFFICES ASSUME NEW s \in Lane
               PROVE  Stored(s) \in CallType /\ InOrder(s, Stored(s)) /\ Stored(s).answers = 0
    OBVIOUS
  <2>1. Idle \in CallType /\ InOrder(s, Idle) /\ Idle.answers = 0
    BY <1>5, IdleInOrder DEF Idle, Stage
  <2>2. CASE LaneReady(s, media')
    <3>1. config.primary[s] # NoModel
      BY <1>5, <2>2, InterpretiveAssumption DEF LaneReady, TypeOK, Stage
    <3>2. Queued \in CallType
      BY <2>1 DEF CallType
    <3>3. InOrder(s, Queued) /\ Queued.answers = 0
      BY <2>1, <3>1 DEF InOrder, Consistent, CallType, Idle
    <3> QED
      BY <2>2, <3>2, <3>3
  <2>3. CASE ~LaneReady(s, media')
    <3> DEFINE outcome == IF s = "jury" /\ config.primary["jury"] = NoModel
                          THEN "not_configured" ELSE "not_checked"
               skipped == [Idle EXCEPT !.state = "ended", !.outcome = outcome]
    <3>1. outcome \in Outcome /\ outcome # "complete" /\ outcome # "fallback"
      BY DEF Outcome
    <3>2. LaneSkipped(s, media') = skipped
      BY DEF LaneSkipped
    <3> HIDE DEF outcome
    <3>3. skipped \in CallType
      BY <2>1, <3>1 DEF CallType
    <3>4. InOrder(s, skipped) /\ skipped.answers = 0
      BY <2>1, <3>1 DEF InOrder, Consistent, CallType, Idle
    <3> QED
      BY <2>3, <3>2, <3>3, <3>4
  <2> QED
    BY <2>2, <2>3
<1> HIDE DEF Stored
<1>9. new \in [Stage -> CallType]
  BY <1>3, <1>5, <1>8 DEF TypeOK
<1>10. call' = new
  BY <1>2, <1>3
<1>11. ModelCalls' = ModelCalls
  <2>1. \A s \in Stage : new[s].answers = call[s].answers
    BY <1>4, <1>6, <1>7, <1>8 DEF Idle
  <2> QED
    BY <1>10, <2>1 DEF ModelCalls, Stage, Lane
<1>12. TypeOK'
  BY <1>1, <1>5, <1>9, <1>10 DEF TypeOK, Phase
<1>13. CallsInOrder'
  <2>1. \A s \in Stage : InOrder(s, new[s])
    BY <1>6, <1>7, <1>8 DEF IInv, CallsInOrder
  <2> QED
    BY <1>1, <1>10, <2>1 DEF CallsInOrder, InOrder, Consistent, HasFallback
<1>14. PhasesInOrder'
  BY <1>1, <1>7, <1>10 DEF IInv, PhasesInOrder, Ended, Stage, Lane
<1> QED
  BY <1>1, <1>11, <1>12, <1>13, <1>14 DEF IInv

LEMMA LanesEndKeeps == ASSUME IInv, LanesEnd PROVE IInv'
<1>1. /\ phase = "lanes" /\ phase' = "synthesis"
      /\ UNCHANGED <<config, media, decision, received>> /\ \A s \in Lane : Ended(s)
  BY DEF LanesEnd
<1>2. PICK c : c = IF Specialists # {} THEN [Idle EXCEPT !.state = "queued"]
                   ELSE [Idle EXCEPT !.state = "ended", !.outcome = "not_checked"]
  OBVIOUS
<1>3. call' = [call EXCEPT !["synthesis"] = c]
  BY <1>2 DEF LanesEnd
<1>4. TypeOK /\ call["synthesis"] = Idle /\ "synthesis" \in Stage
  BY <1>1 DEF IInv, PhasesInOrder, Stage
<1>5. Idle \in CallType /\ InOrder("synthesis", Idle)
  BY <1>4, IdleInOrder
<1>6. c \in CallType
  BY <1>2, <1>5 DEF CallType, Outcome
<1>7. config.primary["synthesis"] # NoModel
  BY <1>4, InterpretiveAssumption DEF TypeOK
<1>8. InOrder("synthesis", c) /\ c.answers = 0
  BY <1>2, <1>5, <1>7 DEF InOrder, Consistent, CallType, Idle
<1>9. call' \in [Stage -> CallType] /\ call'["synthesis"] = c
      /\ \A s \in Stage \ {"synthesis"} : call'[s] = call[s]
  BY <1>3, <1>4, <1>6 DEF TypeOK
<1>10. ModelCalls' = ModelCalls
  BY <1>4, <1>8, <1>9 DEF ModelCalls, Idle, Stage, Lane
<1>11. TypeOK'
  BY <1>1, <1>4, <1>9 DEF TypeOK, Phase
<1>12. CallsInOrder'
  BY <1>1, <1>8, <1>9 DEF IInv, CallsInOrder, InOrder, Consistent, HasFallback
<1>13. PhasesInOrder'
  BY <1>1, <1>9 DEF IInv, PhasesInOrder, Ended, Stage, Lane
<1> QED
  BY <1>1, <1>10, <1>11, <1>12, <1>13 DEF IInv

LEMMA InitInOrder == ASSUME Init PROVE IInv
<1>1. config \in Config /\ phase = "planning" /\ media = {} /\ decision = "none" /\ received = 0
  BY DEF Init
<1> DEFINE Queued == [Idle EXCEPT !.state = "queued"]
<1>2. call = [s \in Stage |-> IF s = "planner" THEN Queued ELSE Idle]
  BY DEF Init
<1>3. config.attempts \in 1..MaxAttempts
  BY <1>1, InterpretiveAssumption DEF ConfigType
<1>4. Idle.tried \in [1..2 -> 0..MaxAttempts]
  BY InterpretiveAssumption DEF Idle
<1>5. Idle \in CallType /\ Queued \in CallType
  BY <1>4 DEF Idle, CallType, Outcome
<1>6. TypeOK
  BY <1>1, <1>2, <1>5 DEF TypeOK, Phase
<1>7. \A s \in Stage : InOrder(s, Idle)
  BY <1>6, IdleInOrder
<1>8. InOrder("planner", Queued)
  <2>1. config.primary["planner"] # NoModel
    BY <1>1, InterpretiveAssumption DEF Stage
  <2> QED
    BY <1>7, <2>1 DEF InOrder, Consistent, Idle, Stage
<1>9. CallsInOrder
  BY <1>2, <1>7, <1>8 DEF CallsInOrder
<1>10. PhasesInOrder
  BY <1>1, <1>2 DEF PhasesInOrder, Stage, Lane
<1>11. received = ModelCalls
  BY <1>1, <1>2 DEF ModelCalls, Stage, Lane, Idle
<1> QED
  BY <1>6, <1>9, <1>10, <1>11 DEF IInv

LEMMA NextKeeps == ASSUME IInv, [Next]_vars PROVE IInv'
<1>1. CASE \E s \in Stage : Call(s)
  BY <1>1, StartKeeps, AnswersKeeps, RaisesKeeps, RepairedKeeps, RepairRaisesKeeps DEF Call
<1>2. CASE Run
  BY <1>2, PlannedKeeps, StoreEvidenceKeeps, EvidenceRaisesKeeps, LanesEndKeeps,
     SynthesisEndsKeeps, MakeDecisionKeeps DEF Run
<1>3. CASE UNCHANGED vars
  <2>1. UNCHANGED <<config, phase, media, call, decision, received>>
    BY <1>3 DEF vars
  <2>2. TypeOK' /\ received' = ModelCalls'
    BY <2>1 DEF IInv, TypeOK, ModelCalls
  <2>3. CallsInOrder'
    BY <2>1 DEF IInv, CallsInOrder, InOrder, Consistent, HasFallback
  <2>4. RunState' = RunState /\ StageObservations' = StageObservations
    BY <2>1 DEF RunState, StageObservations, Specialists
  <2>5. PhasesInOrder'
    BY <2>1, <2>4 DEF IInv, PhasesInOrder, Ended
  <2> QED
    BY <2>2, <2>3, <2>5 DEF IInv
<1> QED
  BY <1>1, <1>2, <1>3 DEF Next

LEMMA Invariance == Spec => []IInv
BY InitInOrder, NextKeeps, PTL DEF Spec

-----------------------------------------------------------------------------
(* Theorems.                                                               *)

\* Every variable keeps its type, whatever the provider answers.
THEOREM TypeCorrect == Spec => []TypeOK
<1>1. IInv => TypeOK
  BY DEF IInv
<1> QED
  BY <1>1, Invariance, PTL

\* The spend accounting misses no answer of the provider and counts none twice,
\* and a stage calls neither its model nor its fallback, each in its role, more
\* often than the bound, retries and the asking again together.
THEOREM SpendIsAlwaysExact == Spec => []SpendIsExact
<1>1. ASSUME IInv PROVE SpendIsExact
  <2>1. received = ModelCalls
    BY <1>1 DEF IInv
  <2>2. ASSUME NEW s \in Stage, NEW role \in 1..2
        PROVE  call[s].tried[role] <= Allowed(s, role)
    <3>1. call[s] \in CallType /\ Consistent(s, call[s])
      BY <1>1, CallFacts DEF InOrder
    <3>2. call[s].tried[role] <= config.attempts
      BY <3>1 DEF Consistent
    <3>3. ~HasFallback(s) => call[s].tried[2] = 0
      BY <3>1 DEF CallType, Consistent
    <3>4. CASE role = 1 \/ HasFallback(s)
      BY <3>2, <3>4 DEF Allowed
    <3>5. CASE role = 2 /\ ~HasFallback(s)
      BY <3>3, <3>5 DEF Allowed
    <3> QED
      BY <3>4, <3>5
  <2>3. ASSUME NEW s \in Stage, Ended(s), StepStatus(s) = "SUCCEEDED"
        PROVE  call[s].answers > 0 \/ (s = "planner" /\ call[s].outcome = "fallback")
    <3>1. InOrder(s, call[s])
      BY <1>1, CallFacts
    <3>2. call[s].outcome \in {"complete", "fallback"}
      BY <2>3 DEF StepStatus
    <3> QED
      BY <3>1, <3>2 DEF InOrder, Consistent
  <2> QED
    BY <2>1, <2>2, <2>3 DEF SpendIsExact
<1> QED
  BY <1>1, Invariance, PTL

\* An observation the reducer accepts for a risk is a lane's own.
LEMMA AcceptedByLane ==
  ASSUME IInv, NEW r \in Risk, NEW o \in Accepted(StageObservations, r)
  PROVE  \E s \in Lane : /\ o \in call[s].kept /\ o.source = call[s].used
                         /\ o.risk = r /\ o.state = "concern" /\ o.evidence # {}
<1>1. /\ o \in StageObservations /\ o.stage # "synthesis"
      /\ o.risk = r /\ o.state = "concern" /\ o.evidence # {}
  BY DEF Accepted, Concerns, FromSynthesis
<1>2. \A s \in Stage : \A p \in call[s].kept : p.stage = s /\ p.source = call[s].used
  BY DEF IInv, CallsInOrder, InOrder, Consistent
<1>3. PICK s \in Lane \cup {"synthesis"} : o \in call[s].kept
  BY <1>1 DEF StageObservations, Specialists
<1>4. s \in Lane
  BY <1>1, <1>2, <1>3 DEF Stage
<1> QED
  BY <1>1, <1>2, <1>3, <1>4 DEF Stage

\* The models reject a delivery only when two of them, under different names,
\* raised the risk in different lanes and the synthesis raised it too
\* (_qualified_findings).
THEOREM TwoModelsAlwaysReject == Spec => []TwoModelsReject
<1>1. ASSUME IInv, phase = "done", Proposal = "REJECT"
      PROVE  \E s, t \in Lane : \E o \in call[s].kept, p \in call[t].kept,
                                   q \in call["synthesis"].kept :
               /\ call[s].used # call[t].used
               /\ o.risk = p.risk /\ o.risk = q.risk
               /\ \A c \in {o, p, q} : c.state = "concern" /\ c.evidence # {}
  <2>1. PICK r \in Flagged(StageObservations) :
          Qualified(StageObservations, r) /\ Rule[r].authority = "enforce"
    BY <1>1 DEF Proposal, Proposed
  <2>2. r \in Risk
    BY DEF Flagged, Concerns
  <2>3. Rule[r].sources \in Nat /\ Rule[r].sources >= 2
    BY <2>1, <2>2, PolicyAssumption DEF RuleType
  <2>4. Cardinality(SourcesOf(StageObservations, r)) >= Rule[r].sources
    BY <2>1 DEF Qualified
  <2>5. PICK a \in SourcesOf(StageObservations, r), b \in SourcesOf(StageObservations, r) : a # b
    BY <2>3, <2>4, TwoElements
  <2>6. PICK o \in Accepted(StageObservations, r) : o.source = a
    BY DEF SourcesOf
  <2>7. PICK p \in Accepted(StageObservations, r) : p.source = b
    BY DEF SourcesOf
  <2>8. PICK s \in Lane : /\ o \in call[s].kept /\ o.source = call[s].used
                          /\ o.risk = r /\ o.state = "concern" /\ o.evidence # {}
    BY <1>1, <2>2, AcceptedByLane
  <2>9. PICK t \in Lane : /\ p \in call[t].kept /\ p.source = call[t].used
                          /\ p.risk = r /\ p.state = "concern" /\ p.evidence # {}
    BY <1>1, <2>2, AcceptedByLane
  <2>10. PICK q \in StageObservations : /\ q.stage = "synthesis" /\ q.risk = r
                                        /\ q.state = "concern" /\ q.evidence # {}
    BY <2>1 DEF Qualified, SynthesisAgrees, Concerns, FromSynthesis
  <2>11. q \in call["synthesis"].kept
    <3>1. \A u \in Lane : \A x \in call[u].kept : x.stage = u
      BY <1>1 DEF IInv, CallsInOrder, InOrder, Consistent, Stage
    <3> QED
      BY <2>10, <3>1 DEF StageObservations, Specialists, Lane
  <2> QED
    BY <2>5, <2>6, <2>7, <2>8, <2>9, <2>10, <2>11
<1>2. IInv => TwoModelsReject
  BY <1>1 DEF TwoModelsReject
<1> QED
  BY <1>2, Invariance, PTL

\* With the models enforcing or holding, READY means that they proposed it.
LEMMA ReadyIsProposed ==
  ASSUME NEW gate \in Disposition, NEW proposed \in Disposition, NEW mode \in Mode,
         mode # "shadow", Join(gate, proposed, mode) = "READY"
  PROVE  proposed = "READY"
<1>1. NormalizeMode(mode) = mode
  BY DEF NormalizeMode
<1>2. CASE mode = "hold"
  BY <1>1, <1>2 DEF Join, Stricter, Strictness, Disposition
<1>3. CASE mode = "enforce"
  BY <1>1, <1>3 DEF Join, Stricter, Strictness, Disposition
<1> QED
  BY <1>2, <1>3 DEF Mode

\* With the models enforcing or holding, no risk of the policy raised with
\* evidence, and none the synthesis did not look at, is let through (decide).
THEOREM CitedConcernAlwaysKeepsBack == Spec => []CitedConcernKeepsBack
<1>1. ASSUME IInv, phase = "done", config.mode # "shadow", decision = "READY"
      PROVE  /\ \A r \in Risk : \E o \in call["synthesis"].kept :
                  o.risk = r /\ o.state # "not_checked"
             /\ \A s \in Stage \ {"planner"} : \A o \in call[s].kept :
                  o.state = "concern" /\ o.risk \in Risk => o.evidence = {}
  <2>1. decision = Join(Gate(config.status), Proposal, config.mode)
    BY <1>1 DEF IInv, PhasesInOrder, Decide, Proposal
  <2>2. Gate(config.status) \in Disposition /\ Proposal \in Disposition
    BY DEF Gate, Proposal, Proposed, Disposition
  <2>3. Proposal = "READY"
    BY <1>1, <2>1, <2>2, ReadyIsProposed, ConfigInType DEF IInv
  <2>4. Flagged(StageObservations) = {} /\ Unobserved(StageObservations, Risk) = {}
    BY <2>3 DEF Proposal, Proposed
  <2>5. \A r \in Risk : \E o \in StageObservations :
          o.stage = "synthesis" /\ o.risk = r /\ o.state # "not_checked"
    BY <2>4 DEF Unobserved, FromSynthesis
  <2>6. \A u \in Lane : \A x \in call[u].kept : x.stage = u
    BY <1>1 DEF IInv, CallsInOrder, InOrder, Consistent, Stage
  <2>7. \A r \in Risk : \E o \in call["synthesis"].kept : o.risk = r /\ o.state # "not_checked"
    BY <2>5, <2>6 DEF StageObservations, Specialists, Lane
  <2>8. \A s \in Stage \ {"planner"} : call[s].kept \subseteq StageObservations
    BY DEF Stage, StageObservations, Specialists
  <2>9. \A o \in StageObservations : o.state = "concern" /\ o.risk \in Risk => o.evidence = {}
    BY <2>4 DEF Flagged, Concerns
  <2> QED
    BY <2>7, <2>8, <2>9
<1>2. IInv => CitedConcernKeepsBack
  BY <1>1 DEF CitedConcernKeepsBack
<1> QED
  BY <1>2, Invariance, PTL

-----------------------------------------------------------------------------
(* The run as one step of its job.                                         *)

LEMMA SameOutcomes ==
  ASSUME NEW status, NEW mode
  PROVE  /\ Step!Outcomes(status, mode) = Outcomes(status, mode)
         /\ Step!Status = Status /\ Step!Mode = Mode
BY DEF Outcomes, Join, Gate, NormalizeMode, Stricter, Strictness, Disposition, Mode, Status,
       Step!Outcomes, Step!Join, Step!Gate, Step!NormalizeMode, Step!Stricter,
       Step!Strictness, Step!Disposition, Step!Mode, Step!Status

LEMMA StepInit == Init => Step!Init
<1> SUFFICES ASSUME Init
             PROVE  Step!Init
  OBVIOUS
<1>1. config.status \in Status \cup {"none"} /\ config.mode \in Mode
  BY InterpretiveAssumption DEF Init, ConfigType
<1>2. phase = "planning" /\ media = {} /\ Returned = {}
  BY DEF Init, Returned
<1> QED
  BY <1>1, <1>2, SameOutcomes DEF Step!Init

\* The decision of a run is one that InterpretiveStep allows.
LEMMA DecisionAllowed ==
  ASSUME IInv, MakeDecision
  PROVE  \E result \in Outcomes(config.status, config.mode) : Returned' = {result}
<1>1. /\ phase' = "done" /\ UNCHANGED <<config, media, call>>
      /\ decision' = Join(Gate(config.status), Proposal, config.mode)
  BY DEF MakeDecision, Decide, Proposal
<1>2. RunState' = RunState
  BY <1>1 DEF RunState
<1>3. Returned' = {[complete |-> RunState = "complete", disposition |-> decision']}
  BY <1>1, <1>2 DEF Returned
<1>4. CASE RunState = "complete"
  <2>1. Proposal \in Disposition
    BY DEF Proposal, Proposed, Disposition
  <2>2. (RunState = "complete") = TRUE
    BY <1>4
  <2> QED
    BY <1>1, <1>3, <2>1, <2>2 DEF Outcomes
<1>5. CASE RunState # "complete"
  <2>1. Proposal = "HOLD"
    BY <1>5 DEF Proposal, Proposed
  <2>2. (RunState = "complete") = FALSE
    BY <1>5
  <2> QED
    BY <1>1, <1>3, <2>1, <2>2 DEF Outcomes
<1> QED
  BY <1>4, <1>5

LEMMA StepStep == IInv /\ [Next]_vars => [Step!Next]_(Step!vars)
<1> SUFFICES ASSUME IInv, [Next]_vars
             PROVE  [Step!Next]_(Step!vars)
  OBVIOUS
<1> USE DEF Step!vars
<1>1. CASE MakeDecision
  <2>1. /\ phase = "deciding" /\ phase' = "done" /\ UNCHANGED <<config, media>>
    BY <1>1 DEF MakeDecision
  <2>2. Returned = {}
    BY <2>1 DEF Returned
  <2>3. Step!Return
    BY <1>1, <2>1, <2>2, DecisionAllowed, SameOutcomes DEF Step!Return, Step!Running
  <2> QED
    BY <2>3 DEF Step!Next
<1>2. CASE EvidenceRaises
  <2>1. /\ phase = "evidence" /\ phase' = "raised" /\ UNCHANGED <<config, media>>
    BY <1>2 DEF EvidenceRaises
  <2>2. Returned = {} /\ Returned' = {}
    BY <2>1 DEF Returned
  <2> QED
    BY <2>1, <2>2 DEF Step!Next, Step!Raise, Step!Running
<1>3. CASE StoreEvidence
  <2>1. phase = "evidence" /\ phase' = "lanes" /\ config' = config
    BY <1>3 DEF StoreEvidence
  <2>2. Returned = {} /\ Returned' = {}
    BY <2>1 DEF Returned
  <2>3. media = {}
    BY <2>1 DEF IInv, PhasesInOrder
  <2> QED
    BY <2>1, <2>2, <2>3 DEF Step!Next, Step!Store, Step!Running
<1>4. CASE Planned \/ LanesEnd \/ SynthesisEnds
  <2>1. /\ phase \notin {"done", "raised"} /\ phase' \notin {"done", "raised"}
        /\ UNCHANGED <<config, media>>
    BY <1>4 DEF Planned, LanesEnd, SynthesisEnds
  <2>2. Returned = {} /\ Returned' = {}
    BY <2>1 DEF Returned
  <2> QED
    BY <2>1, <2>2
<1>5. ASSUME NEW s \in Stage, Call(s)
      PROVE  [Step!Next]_(Step!vars)
  <2>1. call[s].state # "ended" /\ UNCHANGED <<config, phase, media>>
    BY <1>5 DEF Call, Start, Answers, Raises, Repaired, RepairRaises
  <2>2. phase # "done"
    BY <2>1 DEF IInv, PhasesInOrder, Ended, Stage, Lane
  <2>3. Returned = {} /\ Returned' = {}
    BY <2>1, <2>2 DEF Returned
  <2> QED
    BY <2>1, <2>3
<1>6. CASE UNCHANGED vars
  BY <1>6 DEF vars, Returned, RunState
<1> QED
  BY <1>1, <1>2, <1>3, <1>4, <1>5, <1>6 DEF Next, Run

\* Interpretive implements the step that Worker takes it for, for any policy,
\* models, answers and failures of them (run_explicit_interpretive).
THEOREM StepImplemented == Spec => StepKept
BY StepInit, StepStep, Invariance, PTL DEF Spec, StepKept, Step!Spec
=============================================================================
