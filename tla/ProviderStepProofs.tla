------------------------- MODULE ProviderStepProofs -------------------------
(***************************************************************************)
(* Machine-checked proofs about ProviderStep, for every retry budget,      *)
(* timeout, set of error codes and number of crashes, and about Payload,   *)
(* for any requests to the models of the contracts.                        *)
(***************************************************************************)
EXTENDS MCProvider, SequenceTheorems, TLAPS

(* What the safety properties rest on: where an id may be known, and that  *)
(* the id in use, the retry authority and the checkpoint always agree.     *)
IdsAgree ==
  /\ pc \in {"begin", "submit"} => retryId = NoId /\ saved = NoId /\ mode = "invoke"
  /\ pc = "checkpoint" => mode = "invoke" /\ target # NoId /\ retryId = target
  /\ saved # NoId => saved = target
  /\ saved # NoId /\ mode = "invoke" => retryId = saved
  /\ retryId # NoId => target = retryId
  /\ mode = "resume" => saved # NoId /\ retryId = NoId

ResultIsBacked ==
  /\ step.status = "SUCCEEDED" => pc = "returned"
  /\ SuccessIsBacked
  /\ pc = "returned" => step.status \in {"SUCCEEDED", "FAILED"}

IInv ==
  /\ TypeOK
  /\ IdsAgree
  /\ CheckpointBeforePoll
  /\ OneJobPerAttempt
  /\ ResultIsBacked

-----------------------------------------------------------------------------

(* The clock never passes the timeout. *)
LEMMA SaturateBound == \A t \in Nat : Saturate(t) \in 0..Timeout
  BY TimeAssumption DEF Saturate

(* Type correctness of the fields the two retry layers write. *)
RetryFields ==
  /\ attempt \in 0..MaxRetries
  /\ route \in {"submit", "resume"}
  /\ tries \in 1..MaxAttempts
  /\ now \in 0..Timeout
  /\ step \in [status : Status, code : Codes \cup {NoCode}, assets : BOOLEAN]
  /\ terminal \in {"none", "succeeded", "failed"}

(* Where an error leaves the step: failed for good, or at the start of the *)
(* next attempt, which resumes the job exactly when one is known.          *)
StepErrorEffect(id) ==
  \/ pc' = "returned" /\ step'.status = "FAILED" /\ attempt' = attempt
  \/ /\ attempt' = attempt + 1 /\ mode = "invoke" /\ step'.status = "PENDING"
     /\ pc' = IF id # NoId THEN "checkpoint" ELSE "begin"

(* The step-level retry layer keeps its fields well formed and leaves the  *)
(* step failed or at the start of the next attempt.                        *)
LEMMA StepErrorLemma ==
  ASSUME RetryFields, NEW code \in Codes, NEW t \in 0..Timeout, NEW id \in Nat,
         StepError(code, t, id)
  PROVE  RetryFields' /\ StepErrorEffect(id)
  <1> USE BudgetAssumption, TimeAssumption DEF RetryFields, StepErrorEffect
  <1>1. ASSUME FailStep(code), now' = t
        PROVE  RetryFields' /\ StepErrorEffect(id)
    <2>1. step' \in [status : Status, code : Codes \cup {NoCode}, assets : BOOLEAN]
          /\ step'.status = "FAILED"
      BY <1>1 DEF FailStep, Status
    <2>2. terminal' \in {"none", "succeeded", "failed"}
      BY <1>1 DEF FailStep
    <2>3. QED
      BY <1>1, <2>1, <2>2 DEF FailStep
  <1>2. ASSUME NEW backoff \in Delays, mode = "invoke", attempt < MaxRetries,
               ~(t + backoff >= Timeout), NextAttempt(id), now' = t + backoff
        PROVE  RetryFields' /\ StepErrorEffect(id)
    <2>1. now' \in 0..Timeout
      BY <1>2
    <2>2. attempt' \in 0..MaxRetries /\ attempt' = attempt + 1 /\ tries' \in 1..MaxAttempts
      BY <1>2 DEF NextAttempt
    <2>3. QED
      BY <1>2, <2>1, <2>2 DEF NextAttempt, NewStep, Status
  <1>3. QED
    BY <1>1, <1>2 DEF StepError

(* The phase-level layer does what the step-level one does, or, for an     *)
(* eligible error only, repeats the call of the same phase.                *)
LEMMA PhaseErrorLemma ==
  ASSUME RetryFields, NEW code \in Codes, NEW t \in 0..Timeout, retryId \in Nat,
         NEW eligible \in BOOLEAN, PhaseError(code, eligible, t)
  PROVE  /\ RetryFields'
         /\ \/ StepErrorEffect(retryId)
            \/ eligible /\ UNCHANGED <<pc, attempt, step>>
  <1>1. CASE StepError(code, t, retryId)
    BY <1>1, StepErrorLemma
  <1>2. ASSUME NEW delay \in Delays, MayRetry(eligible), ~(t + delay >= Timeout),
               tries' = tries + 1, now' = t + delay,
               UNCHANGED <<pc, attempt, route, step, terminal>>
        PROVE  RetryFields' /\ eligible
    BY <1>2, BudgetAssumption, TimeAssumption DEF RetryFields, MayRetry
  <1>3. QED
    BY <1>1, <1>2 DEF PhaseError

(* A provider call, however long, ends at a time within the clock's range. *)
LEMMA ElapsedBound ==
  ASSUME now \in 0..Timeout, NEW d \in CallTimes
  PROVE  Elapsed(d) \in 0..Timeout
  <1>1. now + d \in Nat
    BY TimeAssumption
  <1>2. QED
    BY <1>1, SaturateBound DEF Elapsed

(* A call that failed: its retry stays in the phase, or a new attempt goes *)
(* to the checkpoint exactly when an id is known.  A lost submit may have  *)
(* created a job, a failing checkpoint may have persisted the id.          *)
FailureStep(stays) ==
  /\ stays => pc \in {"submit", "poll", "fetch"}
  /\ pc \in {"begin", "submit", "checkpoint", "poll", "fetch"}
  /\ \/ upstream' = upstream
     \/ ~stays /\ pc = "submit" /\ upstream' = Append(upstream, "running")
  /\ \/ saved' = saved
     \/ ~stays /\ pc = "checkpoint" /\ saved' = target
  /\ preflightDone' \in BOOLEAN
  /\ UNCHANGED <<retryId, target, mode, jobsBefore, crashes>>

(* Every way a call of a phase can fail keeps the inductive invariant: the *)
(* one argument the seven failing actions share.                           *)
LEMMA FailureKeepsIInv ==
  ASSUME IInv, RetryFields', NEW stays \in BOOLEAN, FailureStep(stays),
         IF stays THEN UNCHANGED <<pc, attempt, step>> ELSE StepErrorEffect(retryId)
  PROVE  IInv'
  <1> USE BudgetAssumption DEF IInv, NoId
  <1>1. /\ upstream' \in Seq(JobState)
        /\ Len(upstream) \in Nat
        /\ \A j \in 1..Len(upstream) : upstream'[j] = upstream[j]
        /\ \/ Len(upstream') = Len(upstream)
           \/ ~stays /\ pc = "submit" /\ Len(upstream') = Len(upstream) + 1
    <2>1. upstream \in Seq(JobState) /\ "running" \in JobState
      BY DEF TypeOK, JobState
    <2>2. CASE upstream' = upstream
      BY <2>1, <2>2
    <2>3. CASE ~stays /\ pc = "submit" /\ upstream' = Append(upstream, "running")
      BY <2>1, <2>3
    <2>4. QED
      BY <2>2, <2>3 DEF FailureStep
  <1> HIDE DEF IInv
  <1>i. TypeOK /\ IdsAgree /\ CheckpointBeforePoll /\ OneJobPerAttempt /\ ResultIsBacked
    BY DEF IInv
  <1>2. TypeOK'
    BY <1>1, <1>i DEF FailureStep, TypeOK, RetryFields, StepErrorEffect, Locations
  <1>3. IdsAgree'
    <2>1. CASE stays
      BY <1>i, <2>1 DEF FailureStep, IdsAgree
    <2>2. CASE ~stays
      BY <1>i, <2>2 DEF FailureStep, IdsAgree, StepErrorEffect
    <2>3. QED
      BY <2>1, <2>2
  <1>4. CheckpointBeforePoll'
    BY <1>1, <1>i DEF FailureStep, CheckpointBeforePoll, IdsAgree, StepErrorEffect, TypeOK
  <1>5. OneJobPerAttempt'
    BY <1>1, <1>i DEF FailureStep, OneJobPerAttempt, StepErrorEffect, TypeOK, IdsAgree
  <1>6. ResultIsBacked'
    BY <1>1, <1>i DEF FailureStep, ResultIsBacked, SuccessIsBacked, StepErrorEffect, TypeOK, IdsAgree
  <1>7. QED
    BY <1>2, <1>3, <1>4, <1>5, <1>6 DEF IInv

(* A fresh invocation satisfies the inductive invariant. *)
LEMMA InitIInv == Init => IInv
  <1> SUFFICES ASSUME Init PROVE IInv
    OBVIOUS
  <1>1. upstream \in Seq(JobState) /\ Len(upstream) = 0
    BY DEF Init
  <1>2. step \in [status : Status, code : Codes \cup {NoCode}, assets : BOOLEAN]
        /\ step.status = "PENDING"
    BY DEF Init, NewStep, Status
  <1>3. now \in 0..Timeout /\ crashes \in 0..MaxCrashes /\ tries \in 1..MaxAttempts
        /\ attempt \in 0..MaxRetries /\ attempt = 0
    BY BudgetAssumption, TimeAssumption DEF Init
  <1>4. retryId = 0 /\ target = 0 /\ saved = 0 /\ jobsBefore = 0
    BY DEF Init, NoId
  <1>5. pc = "begin" /\ mode = "invoke" /\ route = "submit" /\ preflightDone = FALSE
        /\ terminal = "none"
    BY DEF Init
  <1>6. TypeOK
    <2>1. 0 \in 0..Len(upstream)
      BY <1>1
    <2>2. pc \in Locations
      BY <1>5 DEF Locations
    <2>3. QED
      BY <1>1, <1>2, <1>3, <1>4, <1>5, <2>1, <2>2 DEF TypeOK
  <1>7. IdsAgree
    BY <1>4, <1>5 DEF IdsAgree, NoId
  <1>8. OneJobPerAttempt
    BY <1>1, <1>3, <1>4, <1>5 DEF OneJobPerAttempt
  <1>9. CheckpointBeforePoll /\ ResultIsBacked
    BY <1>2, <1>5 DEF CheckpointBeforePoll, ResultIsBacked, SuccessIsBacked
  <1>10. QED
    BY <1>6, <1>7, <1>8, <1>9 DEF IInv

(* Every step, one case per action, keeps the inductive invariant. *)
LEMMA NextIInv == IInv /\ [Next]_vars => IInv'
  <1> SUFFICES ASSUME IInv, [Next]_vars
               PROVE  IInv'
    OBVIOUS
  <1>t. RetryFields /\ retryId \in Nat /\ preflightDone \in BOOLEAN
    BY DEF IInv, TypeOK, RetryFields
  <1>e. \A d \in CallTimes : Elapsed(d) \in 0..Timeout
    BY ElapsedBound DEF IInv, TypeOK
  <1>a. upstream \in Seq(JobState) /\ \A u \in JobState :
          /\ Append(upstream, u) \in Seq(JobState)
          /\ Len(Append(upstream, u)) = Len(upstream) + 1
          /\ \A j \in 1..Len(upstream) : Append(upstream, u)[j] = upstream[j]
    BY DEF IInv, TypeOK
  <1>1. CASE Preflight
    <2>1. CASE /\ pc' = "submit"
               /\ step' = [step EXCEPT !.status = "SUBMITTED"]
               /\ \E d \in CallTimes : now' = Elapsed(d)
               /\ UNCHANGED <<attempt, route, tries, terminal>>
      <3>1. /\ step' \in [status : Status, code : Codes \cup {NoCode}, assets : BOOLEAN]
            /\ step'.status = "SUBMITTED"
        BY <2>1 DEF IInv, TypeOK, Status
      <3>2. TypeOK'
        BY <1>1, <2>1, <3>1, <1>e DEF IInv, Preflight, TypeOK, Locations, incarnation
      <3>3. (IdsAgree /\ CheckpointBeforePoll /\ OneJobPerAttempt /\ ResultIsBacked)'
        BY <1>1, <2>1, <3>1 DEF IInv, Preflight, IdsAgree, CheckpointBeforePoll, OneJobPerAttempt,
             ResultIsBacked, SuccessIsBacked, incarnation
      <3>4. QED
        BY <3>2, <3>3 DEF IInv
    <2>2. ASSUME NEW code \in Codes, NEW d \in CallTimes, StepError(code, Elapsed(d), retryId)
          PROVE  IInv'
      <3>1. RetryFields' /\ StepErrorEffect(retryId)
        BY <1>t, <1>e, <2>2, StepErrorLemma
      <3>2. QED
        <4>1. FailureStep(FALSE)
          BY <1>t, <1>1 DEF FailureStep, Preflight, incarnation
        <4>2. QED
          BY <4>1, <3>1, FailureKeepsIInv
    <2>3. QED
      BY <1>1, <2>1, <2>2 DEF Preflight
  <1>2. CASE SubmitReturns
    <2>1. upstream' \in Seq(JobState) /\ Len(upstream') = Len(upstream) + 1
      BY <1>2, <1>a DEF SubmitReturns, JobState
    <2>2. /\ retryId' = Len(upstream) + 1 /\ target' = Len(upstream) + 1 /\ saved' = saved
          /\ Len(upstream) \in Nat /\ saved = NoId /\ mode = "invoke"
      BY <1>2, <1>a, <2>1 DEF IInv, SubmitReturns, IdsAgree, incarnation
    <2>3. TypeOK'
      <3>1. step' \in [status : Status, code : Codes \cup {NoCode}, assets : BOOLEAN]
        BY <1>2, BudgetAssumption DEF IInv, SubmitReturns, TypeOK
      <3>2. \A k \in 0..Len(upstream) : k \in 0..Len(upstream')
        BY <2>1, <2>2
      <3>3. Len(upstream) + 1 \in 0..Len(upstream')
        BY <2>1, <2>2
      <3>4. QED
        BY <1>2, <2>1, <2>2, <3>1, <3>2, <3>3, <1>e
        DEF IInv, SubmitReturns, TypeOK, Locations, incarnation
    <2>4. IdsAgree' /\ CheckpointBeforePoll' /\ ResultIsBacked'
      BY <1>2, <2>2
      DEF IInv, SubmitReturns, IdsAgree, CheckpointBeforePoll, ResultIsBacked, SuccessIsBacked,
          TypeOK, incarnation, NoId
    <2>5. OneJobPerAttempt'
      BY <1>2, <2>1, <2>2 DEF IInv, SubmitReturns, OneJobPerAttempt, TypeOK, incarnation
    <2>6. QED
      BY <2>3, <2>4, <2>5 DEF IInv
  <1>3. CASE SubmitNotSent
    <2>1. PICK code \in Codes, d \in CallTimes : PhaseError(code, TRUE, Elapsed(d))
      BY <1>3 DEF SubmitNotSent
    <2>2. RetryFields' /\ (StepErrorEffect(retryId) \/ UNCHANGED <<pc, attempt, step>>)
      BY <1>t, <1>e, <2>1, PhaseErrorLemma
    <2>3. QED
      <3>1. FailureStep(FALSE) /\ FailureStep(TRUE)
        BY <1>t, <1>3 DEF FailureStep, SubmitNotSent, incarnation
      <3>2. QED
        BY <3>1, <2>2, FailureKeepsIInv
  <1>4. CASE SubmitLost
    <2>1. PICK code \in Codes, d \in CallTimes : PhaseError(code, FALSE, Elapsed(d))
      BY <1>4 DEF SubmitLost
    <2>2. RetryFields' /\ StepErrorEffect(retryId)
      BY <1>t, <1>e, <2>1, PhaseErrorLemma
    <2>3. QED
      <3>1. FailureStep(FALSE)
        BY <1>t, <1>4 DEF FailureStep, SubmitLost, incarnation
      <3>2. QED
        BY <3>1, <2>2, FailureKeepsIInv
  <1>5. CASE SubmitEmptyId
    <2>1. PICK d \in CallTimes : StepError(InvalidInput, Elapsed(d), retryId)
      BY <1>5 DEF SubmitEmptyId
    <2>2. RetryFields' /\ StepErrorEffect(retryId)
      BY <1>t, <1>e, <2>1, StepErrorLemma, CodesAssumption
    <2>3. QED
      <3>1. FailureStep(FALSE)
        BY <1>t, <1>5 DEF FailureStep, SubmitEmptyId, incarnation
      <3>2. QED
        BY <3>1, <2>2, FailureKeepsIInv
  <1>6. CASE CheckpointSaved
    BY SMTT(30), <1>6, <1>e, BudgetAssumption
    DEF IInv, CheckpointSaved, TypeOK, IdsAgree, CheckpointBeforePoll, OneJobPerAttempt, ResultIsBacked,
        SuccessIsBacked, Locations, Status, incarnation
  <1>7. CASE CheckpointFails
    <2>1. PICK code \in Codes, d \in CallTimes : StepError(code, Elapsed(d), retryId)
      BY <1>7 DEF CheckpointFails
    <2>2. RetryFields' /\ StepErrorEffect(retryId)
      BY <1>t, <1>e, <2>1, StepErrorLemma
    <2>3. QED
      <3>1. FailureStep(FALSE)
        BY <1>t, <1>7 DEF FailureStep, CheckpointFails, incarnation
      <3>2. QED
        BY <3>1, <2>2, FailureKeepsIInv
  <1>8. CASE PollDone
    BY <1>8, <1>e, BudgetAssumption
    DEF IInv, PollDone, TypeOK, IdsAgree, CheckpointBeforePoll, OneJobPerAttempt, ResultIsBacked,
        SuccessIsBacked, Locations, Status, incarnation
  <1>9. CASE PollPending
    <2>1. PICK d \in CallTimes :
            \/ StepError(TimeoutCode, Elapsed(d), retryId)
            \/ /\ now' = Saturate(Elapsed(d) + PollInterval)
               /\ tries' = 1
               /\ UNCHANGED <<pc, attempt, route, step, terminal>>
      BY <1>9 DEF PollPending
    <2>2. CASE StepError(TimeoutCode, Elapsed(d), retryId)
      <3>1. RetryFields' /\ StepErrorEffect(retryId)
        BY <1>t, <1>e, <2>2, StepErrorLemma, CodesAssumption
      <3>2. QED
        <4>1. FailureStep(FALSE)
          BY <1>t, <1>9 DEF FailureStep, PollPending, incarnation
        <4>2. QED
          BY <4>1, <3>1, FailureKeepsIInv
    <2>3. CASE /\ now' = Saturate(Elapsed(d) + PollInterval)
               /\ tries' = 1
               /\ UNCHANGED <<pc, attempt, route, step, terminal>>
      <3>1. now' \in 0..Timeout
        BY <2>3, <1>e, SaturateBound, TimeAssumption
      <3>2. RetryFields'
        BY <1>t, <2>3, <3>1, BudgetAssumption DEF RetryFields
      <3>3. QED
        <4>1. FailureStep(TRUE)
          BY <1>t, <1>9 DEF FailureStep, PollPending, incarnation
        <4>2. QED
          BY <4>1, <2>3, <3>2, FailureKeepsIInv
    <2>4. QED
      BY <2>1, <2>2, <2>3
  <1>10. CASE PollFetchError
    <2>1. PICK code \in Codes, d \in CallTimes :
            PhaseError(code, code \in RetryableCodes, Elapsed(d))
      BY <1>10 DEF PollFetchError
    <2>2. RetryFields' /\ (StepErrorEffect(retryId) \/ UNCHANGED <<pc, attempt, step>>)
      <3>1. (code \in RetryableCodes) \in BOOLEAN
        OBVIOUS
      <3>2. QED
        BY <1>t, <1>e, <2>1, <3>1, PhaseErrorLemma
    <2>3. QED
      <3>1. FailureStep(FALSE) /\ FailureStep(TRUE)
        BY <1>t, <1>10 DEF FailureStep, PollFetchError, incarnation
      <3>2. QED
        BY <3>1, <2>2, FailureKeepsIInv
  <1>11. CASE FetchSucceeds
    BY <1>11, <1>e, BudgetAssumption
    DEF IInv, FetchSucceeds, TypeOK, IdsAgree, CheckpointBeforePoll, OneJobPerAttempt, ResultIsBacked,
        SuccessIsBacked, Locations, Status, incarnation
  <1>12. CASE FetchReportsFailure
    BY <1>12, <1>e, BudgetAssumption
    DEF IInv, FetchReportsFailure, TypeOK, IdsAgree, CheckpointBeforePoll, OneJobPerAttempt,
        ResultIsBacked, SuccessIsBacked, Locations, Status, incarnation
  <1>13. CASE Restart
    <2>1. /\ step' \in [status : Status, code : Codes \cup {NoCode}, assets : BOOLEAN]
          /\ step'.status \in {"PENDING", "PROCESSING"}
      <3>1. step' = NewStep \/ step' = [NewStep EXCEPT !.status = "PROCESSING"]
        BY <1>13 DEF Restart
      <3>2. /\ NewStep \in [status : Status, code : Codes \cup {NoCode}, assets : BOOLEAN]
            /\ NewStep.status = "PENDING"
        BY DEF NewStep, Status
      <3>3. QED
        BY <3>1, <3>2 DEF Status
    <2>2. TypeOK'
      <3>1. /\ pc' \in Locations /\ mode' \in {"invoke", "resume"}
            /\ route' \in {"submit", "resume"}
        BY <1>13 DEF Restart, Locations
      <3>2. attempt' \in 0..MaxRetries /\ tries' \in 1..MaxAttempts /\ now' \in 0..Timeout
        BY <1>13, BudgetAssumption, TimeAssumption DEF Restart
      <3>3. /\ retryId' \in 0..Len(upstream) /\ target' \in 0..Len(upstream)
            /\ jobsBefore' \in 0..Len(upstream)
        <4>1. Len(upstream) \in Nat /\ saved \in 0..Len(upstream)
          BY <1>a DEF IInv, TypeOK
        <4>2. QED
          BY <1>13, <4>1 DEF Restart, NoId
      <3>4. QED
        BY <1>13, <2>1, <3>1, <3>2, <3>3 DEF IInv, Restart, TypeOK
    <2>3. IdsAgree' /\ CheckpointBeforePoll' /\ ResultIsBacked'
      BY <1>13, <2>1
      DEF IInv, Restart, IdsAgree, CheckpointBeforePoll, ResultIsBacked, SuccessIsBacked, NoId
    <2>4. OneJobPerAttempt'
      BY <1>13 DEF IInv, Restart, OneJobPerAttempt, TypeOK
    <2>5. QED
      BY <2>2, <2>3, <2>4 DEF IInv
  <1>14. ASSUME NEW j \in DOMAIN upstream, JobEnds(j)
         PROVE  IInv'
    <2>1. /\ upstream' \in Seq(JobState) /\ Len(upstream') = Len(upstream)
          /\ \A k \in 1..Len(upstream) : upstream[k] = "done" => upstream'[k] = "done"
      BY <1>14, <1>a DEF JobEnds, JobState
    <2>2. QED
      BY <1>14, <2>1
      DEF IInv, JobEnds, TypeOK, IdsAgree, CheckpointBeforePoll, OneJobPerAttempt, ResultIsBacked,
          SuccessIsBacked, incarnation, NoId
  <1>15. CASE Crash
    BY <1>15, BudgetAssumption
    DEF IInv, Crash, TypeOK, IdsAgree, CheckpointBeforePoll, OneJobPerAttempt, ResultIsBacked,
        SuccessIsBacked, Locations
  <1>16. CASE UNCHANGED vars
    BY <1>16 DEF IInv, vars, TypeOK, IdsAgree, CheckpointBeforePoll, OneJobPerAttempt, ResultIsBacked,
                 SuccessIsBacked
  <1>17. QED
    BY <1>1, <1>2, <1>3, <1>4, <1>5, <1>6, <1>7, <1>8, <1>9, <1>10, <1>11, <1>12, <1>13,
       <1>14, <1>15, <1>16
    DEF Next, Worker, Returned

(***************************************************************************)
(* The invariant holds of every behaviour.                                 *)
(***************************************************************************)
THEOREM Invariance == Spec => []IInv
  <1>1. Init => IInv
    BY InitIInv
  <1>2. IInv /\ [Next]_vars => IInv'
    BY NextIInv
  <1>3. QED
    BY <1>1, <1>2, PTL DEF Spec

(* The state of the step is well formed in every reachable state. *)
THEOREM TypeCorrectness == Spec => []TypeOK
  BY Invariance, PTL DEF IInv

(* A job is polled or fetched only when its id is the persisted one, for   *)
(* every retry budget and any number of crashes.                           *)
THEOREM CheckpointSafety == Spec => []CheckpointBeforePoll
  BY Invariance, PTL DEF IInv

(* Each step-level attempt creates at most one upstream job. *)
THEOREM BoundedBilling == Spec => []OneJobPerAttempt
  BY Invariance, PTL DEF IInv

(* Success always rests on the finished, checkpointed upstream job. *)
THEOREM SuccessSafety == Spec => []SuccessIsBacked
  <1>1. IInv => SuccessIsBacked
    BY DEF IInv, ResultIsBacked
  <1>2. QED
    BY <1>1, Invariance, PTL

(* No step creates a job while an id is known to this invocation or saved  *)
(* for the next one.                                                       *)
THEOREM NoDoubleBilling == Spec => NoResubmitOfKnownJob
  <1>1. ASSUME IInv, [Next]_vars, Len(upstream') > Len(upstream)
        PROVE  retryId = NoId /\ saved = NoId
    <2>1. Len(upstream) \in Nat /\ upstream \in Seq(JobState)
      BY <1>1 DEF IInv, TypeOK
    <2>2. \A j \in DOMAIN upstream : ~JobEnds(j)
      <3>1. SUFFICES ASSUME NEW j \in DOMAIN upstream, JobEnds(j)
                     PROVE  Len(upstream') = Len(upstream)
        BY <1>1, <2>1
      <3>2. QED
        BY <2>1, <3>1 DEF JobEnds, JobState
    <2>3. upstream' # upstream
      BY <1>1, <2>1
    <2>4. pc = "submit"
      BY <1>1, <2>2, <2>3
      DEF Next, Worker, vars, incarnation, Preflight, SubmitReturns, SubmitNotSent, SubmitLost,
          SubmitEmptyId, CheckpointSaved, CheckpointFails, PollDone, PollPending, PollFetchError,
          FetchSucceeds, FetchReportsFailure, Restart, Crash, Returned
    <2>5. QED
      BY <1>1, <2>4 DEF IInv, IdsAgree
  <1>2. IInv /\ [Next]_vars => [Len(upstream') > Len(upstream) => retryId = NoId /\ saved = NoId]_vars
    BY <1>1
  <1>3. QED
    BY <1>2, Invariance, PTL DEF Spec, NoResubmitOfKnownJob

-----------------------------------------------------------------------------
(***************************************************************************)
(* ProviderStep implements StepContract: the checkpoint binds the step to  *)
(* one job for good, and only a bound step succeeds.                       *)
(***************************************************************************)
LEMMA ContractStep == IInv /\ [Next]_vars => [Contract!Next]_(Contract!vars)
  <1> SUFFICES ASSUME IInv, Next
               PROVE  Contract!Next \/ UNCHANGED Contract!vars
    BY DEF vars, Contract!vars
  <1>1. IInv'
    BY NextIInv
  <1>2. CASE pc = "returned"
    BY <1>2
    DEF Next, Worker, JobEnds, Preflight, SubmitReturns, SubmitNotSent, SubmitLost, SubmitEmptyId,
        CheckpointSaved, CheckpointFails, PollDone, PollPending, PollFetchError, FetchSucceeds,
        FetchReportsFailure, Restart, Crash, Returned, vars, Contract!vars
  <1>3. CASE pc # "returned" /\ saved' = saved
    <2>1. CASE pc' # "returned"
      BY <1>3, <2>1 DEF Contract!vars
    <2>2. CASE pc' = "returned"
      <3>1. /\ step'.status \in {"SUCCEEDED", "FAILED"}
            /\ step'.status = "SUCCEEDED" => saved # 0
        BY <1>1, <1>3, <2>2 DEF IInv, ResultIsBacked, SuccessIsBacked, NoId
      <3>2. QED
        BY <1>3, <2>2, <3>1 DEF Contract!Next, Contract!Succeed, Contract!Fail
    <2>3. QED
      BY <2>1, <2>2
  <1>4. CASE pc # "returned" /\ saved' # saved
    <2>1. CheckpointSaved \/ CheckpointFails
      BY <1>4
      DEF Next, Worker, JobEnds, Preflight, SubmitReturns, SubmitNotSent, SubmitLost,
          SubmitEmptyId, PollDone, PollPending, PollFetchError, FetchSucceeds,
          FetchReportsFailure, Restart, Crash, Returned, vars
    <2>2. pc = "checkpoint" /\ saved' = target
      BY <1>4, <2>1 DEF CheckpointSaved, CheckpointFails
    <2>3. saved = 0 /\ saved' \in Nat \ {0}
      BY <1>4, <2>2 DEF IInv, IdsAgree, TypeOK, NoId
    <2>4. pc' = "returned" => step'.status = "FAILED"
      <3>1. CASE CheckpointSaved
        BY <3>1 DEF CheckpointSaved
      <3>2. CASE CheckpointFails
        <4>1. PICK code \in Codes, d \in CallTimes : StepError(code, Elapsed(d), retryId)
          BY <3>2 DEF CheckpointFails
        <4>2. RetryFields /\ retryId \in Nat /\ Elapsed(d) \in 0..Timeout
          BY ElapsedBound DEF IInv, TypeOK, RetryFields
        <4>3. StepErrorEffect(retryId)
          BY <4>1, <4>2, StepErrorLemma
        <4>4. QED
          BY <4>3 DEF StepErrorEffect
      <3>3. QED
        BY <2>1, <3>1, <3>2
    <2>5. QED
      BY <1>4, <2>3, <2>4 DEF Contract!Next, Contract!Bind, Contract!Fail
  <1>5. QED
    BY <1>2, <1>3, <1>4

(* Every behaviour of the step is one that the contract allows. *)
THEOREM Refinement == Spec => ImplementsContract
  <1>1. Init => Contract!Init
    BY DEF Init, Contract!Init, NoId
  <1>2. IInv /\ [Next]_vars => [Contract!Next]_(Contract!vars)
    BY ContractStep
  <1>3. QED
    BY <1>1, <1>2, Invariance, PTL DEF Spec, ImplementsContract, Contract!Spec

-----------------------------------------------------------------------------
(* What the listener of on_progress is told last. *)

(* A call that goes on, or has told of its failure. *)
FailedOrGoesOn == pc' = "returned" => terminal' = "failed" /\ step'.status = "FAILED"

(* An error of the attempt ends the call with "failed", or not at all. *)
LEMMA StepErrorTells ==
  ASSUME TypeOK, NEW code, NEW t, NEW id, StepError(code, t, id)
  PROVE  FailedOrGoesOn
  <1>1. step \in [status : Status, code : Codes \cup {NoCode}, assets : BOOLEAN]
    BY DEF TypeOK
  <1>2. CASE FailStep(code)
    BY <1>1, <1>2 DEF FailStep, FailedOrGoesOn
  <1>3. CASE NextAttempt(id)
    BY <1>3 DEF NextAttempt, FailedOrGoesOn
  <1>4. QED
    BY <1>2, <1>3 DEF StepError

(* So does an error of a phase, which may also repeat its call. *)
LEMMA PhaseErrorTells ==
  ASSUME TypeOK, pc # "returned", NEW code, NEW eligible, NEW t, PhaseError(code, eligible, t)
  PROVE  FailedOrGoesOn
  <1>1. CASE StepError(code, t, retryId)
    BY <1>1, StepErrorTells
  <1>2. CASE UNCHANGED pc
    BY <1>2 DEF FailedOrGoesOn
  <1>3. QED
    BY <1>1, <1>2 DEF PhaseError

(* Whatever returns tells the listener the step's status, or "succeeded". *)
LEMMA ProgressKept == IInv /\ TerminalProgress /\ [Next]_vars => TerminalProgress'
  <1> SUFFICES ASSUME IInv, TerminalProgress, Next PROVE TerminalProgress'
    BY DEF vars, TerminalProgress
  <1>1. TypeOK /\ step \in [status : Status, code : Codes \cup {NoCode}, assets : BOOLEAN]
    BY DEF IInv, TypeOK
  <1>2. ASSUME FailedOrGoesOn PROVE TerminalProgress'
    BY <1>2 DEF FailedOrGoesOn, TerminalProgress
  <1>3. CASE Preflight
    <2>1. CASE pc' = "submit"
      BY <2>1 DEF TerminalProgress
    <2>2. CASE \E code \in Codes, d \in CallTimes : StepError(code, Elapsed(d), retryId)
      BY <1>1, <1>2, <2>2, StepErrorTells
    <2>3. QED
      BY <1>3, <2>1, <2>2 DEF Preflight
  <1>4. CASE SubmitNotSent \/ SubmitLost \/ PollFetchError
    <2>1. CASE SubmitNotSent
      BY <1>1, <1>2, <2>1, PhaseErrorTells DEF SubmitNotSent
    <2>2. CASE SubmitLost
      BY <1>1, <1>2, <2>2, PhaseErrorTells DEF SubmitLost
    <2>3. CASE PollFetchError
      BY <1>1, <1>2, <2>3, PhaseErrorTells DEF PollFetchError
    <2>4. QED
      BY <1>4, <2>1, <2>2, <2>3
  <1>5. CASE SubmitEmptyId \/ CheckpointFails
    BY <1>1, <1>2, <1>5, StepErrorTells DEF SubmitEmptyId, CheckpointFails
  <1>6. CASE PollPending
    <2>1. CASE \E d \in CallTimes : StepError(TimeoutCode, Elapsed(d), retryId)
      BY <1>1, <1>2, <2>1, StepErrorTells
    <2>2. CASE UNCHANGED pc
      BY <1>6, <2>2 DEF PollPending, TerminalProgress
    <2>3. QED
      BY <1>6, <2>1, <2>2 DEF PollPending
  <1>7. CASE FetchSucceeds \/ FetchReportsFailure
    BY <1>1, <1>7 DEF FetchSucceeds, FetchReportsFailure, TerminalProgress
  <1>8. CASE SubmitReturns \/ CheckpointSaved \/ PollDone \/ Restart \/ Crash
    BY <1>8 DEF SubmitReturns, CheckpointSaved, PollDone, Restart, Crash, TerminalProgress
  <1>9. ASSUME NEW j \in DOMAIN upstream, JobEnds(j) PROVE TerminalProgress'
    BY <1>9 DEF JobEnds, TerminalProgress
  <1>10. CASE Returned
    BY <1>10 DEF Returned, vars, TerminalProgress
  <1>11. QED
    BY <1>3, <1>4, <1>5, <1>6, <1>7, <1>8, <1>9, <1>10 DEF Next, Worker

(* A call that returned told its listener so, and never "failed" of a step *)
(* that succeeded, for every retry budget and any number of crashes.       *)
THEOREM LastWord == Spec => []TerminalProgress
  <1>1. Init => TerminalProgress
    BY DEF Init, TerminalProgress
  <1>2. QED
    BY <1>1, ProgressKept, Invariance, PTL DEF Spec

-----------------------------------------------------------------------------
(* What is sent is legal, for any requests.                                *)

(* A parameter that the router of a contract may set. *)
Slot(S, k) ==
  \E i \in DOMAIN S.routes :
    \/ k = S.routes[i].overflow
    \/ \E j \in DOMAIN S.routes[i].slots : k = S.routes[i].slots[j]

(* What a contract must not confuse: the names it replaces with those it   *)
(* sets, and the numbers a constraint stores with what a schema wants.     *)
Tidy(S) ==
  /\ \A c \in DOMAIN S.aliases :
       ~Slot(S, c) /\ c \notin DOMAIN S.defaults /\ c \notin {"seconds", "size", "text_prompts"}
  /\ S.required \subseteq S.allowlist \/ S.allowlist = Y!All
  /\ \A j \in DOMAIN S.constraints :
       S.constraints[j].converts => S.constraints[j].key \notin DOMAIN S.schemas
  /\ \A i, j \in DOMAIN S.constraints :
       S.constraints[i].key = S.constraints[j].key => i = j

(* Of a dict, that it has only the names, and every one that it must have, *)
(* under the names of the model, and values of the types and limits.       *)
Named(S, q) == S.allowlist = Y!All \/ DOMAIN q \subseteq S.allowlist
Current(S, q) ==
  DOMAIN S.aliases \cap DOMAIN q \subseteq {S.aliases[c] : c \in DOMAIN S.aliases}
Right(c, q) ==
  c.key \in DOMAIN q =>
    q[c.key].is \in c.of /\ q[c.key].as = IF c.converts THEN "int" ELSE "str"
Constrained(S, q) == \A j \in DOMAIN S.constraints : Right(S.constraints[j], q)
Legal(S, q) ==
  /\ Named(S, q)
  /\ S.required \subseteq DOMAIN q
  /\ Current(S, q)
  /\ Y!SchemasHold(S, q)
  /\ Constrained(S, q)

(* The merge of two dicts has the keys of both. *)
LEMMA OverNames ==
  ASSUME NEW d, NEW e PROVE DOMAIN Y!Over(d, e) = DOMAIN d \cup DOMAIN e
  BY DEF Y!Over

(* And the values of the first, but for the keys it lacks. *)
LEMMA OverSays ==
  ASSUME NEW d, NEW e, NEW k \in DOMAIN d \cup DOMAIN e
  PROVE  Y!Over(d, e)[k] = IF k \in DOMAIN d THEN d[k] ELSE e[k]
  BY DEF Y!Over

(* A dict with some keys left out. *)
LEMMA WithoutNames ==
  ASSUME NEW d, NEW K PROVE DOMAIN Y!Without(d, K) = DOMAIN d \ K
  BY DEF Y!Without

(* What is left says what it said. *)
LEMMA WithoutSays ==
  ASSUME NEW d, NEW K, NEW k \in DOMAIN d \ K PROVE Y!Without(d, K)[k] = d[k]
  BY DEF Y!Without

(* After the aliases, old names are gone but for those that are new ones.  *)
LEMMA AliasesGo == ASSUME NEW S, NEW p PROVE Current(S, Y!Aliased(S, p))
  BY DEF Current, Y!Aliased

(* A transformer adds none but its own names. *)
LEMMA TransformedNames ==
  ASSUME NEW S, NEW p
  PROVE  DOMAIN Y!Transformed(S, p) \subseteq DOMAIN p \cup {"seconds", "size", "text_prompts"}
  <1>1. DOMAIN Y!SoraShape(p) \subseteq DOMAIN p \cup {"seconds", "size"}
    <2> DEFINE timed == IF "duration" \in DOMAIN p /\ "seconds" \notin DOMAIN p
                        THEN Y!Over(Y!Without(p, {"duration"}), [seconds |-> p["duration"]]) ELSE p
               ratio == IF "aspect_ratio" \in DOMAIN p THEN p["aspect_ratio"].is ELSE "16:9"
               size == IF p["resolution"].is \in {"720p", "1080p"} /\ ratio \in DOMAIN Y!Sizes
                       THEN [size |-> Y!Str(Y!Sizes[ratio])] ELSE Y!Nothing
    <2>1. DOMAIN timed \subseteq DOMAIN p \cup {"seconds"}
      <3>1. DOMAIN [seconds |-> p["duration"]] = {"seconds"}
        OBVIOUS
      <3>2. DOMAIN Y!Over(Y!Without(p, {"duration"}), [seconds |-> p["duration"]])
              = (DOMAIN p \ {"duration"}) \cup DOMAIN [seconds |-> p["duration"]]
        BY DEF Y!Over, Y!Without
      <3> QED
        BY <3>1, <3>2
    <2>2. DOMAIN size \subseteq {"size"}
      BY DEF Y!Nothing
    <2> HIDE DEF timed, size
    <2>3. DOMAIN Y!Over(Y!Without(timed, {"resolution", "aspect_ratio"}), size)
            = (DOMAIN timed \ {"resolution", "aspect_ratio"}) \cup DOMAIN size
      BY DEF Y!Over, Y!Without
    <2> USE DEF timed, size
    <2>4. Y!SoraShape(p) = IF "resolution" \in DOMAIN p /\ "size" \notin DOMAIN p
                           THEN Y!Over(Y!Without(timed, {"resolution", "aspect_ratio"}), size)
                           ELSE timed
      BY DEF Y!SoraShape
    <2> QED
      <3> HIDE DEF timed, size
      <3> QED
        BY <2>1, <2>2, <2>3, <2>4
  <1>2. DOMAIN Y!SdxlShape(p) \subseteq DOMAIN p \cup {"text_prompts"}
    <2> DEFINE prompts == [i \in {n \in {"prompt", "negative_prompt"} : n \in DOMAIN p} |-> p[i]]
               list == SelectSeq(<<"prompt", "negative_prompt">>, LAMBDA n : n \in DOMAIN prompts)
               all2 == [text_prompts |-> Y!Nested("list", [i \in DOMAIN list |-> prompts[list[i]]])]
    <2>1. DOMAIN all2 = {"text_prompts"}
      OBVIOUS
    <2> HIDE DEF prompts, all2
    <2>2. DOMAIN Y!Over(Y!Without(p, DOMAIN prompts), all2)
            = (DOMAIN p \ DOMAIN prompts) \cup DOMAIN all2
      BY DEF Y!Over, Y!Without
    <2>3. Y!SdxlShape(p) = IF list = <<>> THEN p ELSE Y!Over(Y!Without(p, DOMAIN prompts), all2)
      BY Zenon DEF Y!SdxlShape, prompts, all2
    <2> QED
      BY <2>1, <2>2, <2>3
  <1>3. QED
    BY <1>1, <1>2 DEF Y!Transformed

(* A router sets none but its slots. *)
LEMMA RoutedNames ==
  ASSUME NEW r, NEW inputs, NEW k \in DOMAIN Y!Routed(r, inputs)
  PROVE  k = r.overflow \/ \E j \in DOMAIN r.slots : k = r.slots[j]
  <1> DEFINE kind == IF r.route = "keyframes" THEN "image" ELSE
                     IF r.route = "images" THEN "image" ELSE r.route
             urls == Y!Urls(inputs, kind)
             filled == {i \in DOMAIN r.slots : i <= Len(urls)}
             slots == [s \in {r.slots[i] : i \in filled} |->
                         urls[CHOOSE i \in filled : r.slots[i] = s]]
             beyond == SubSeq(urls, Len(r.slots) + 1, Len(urls))
             frames == [x \in {r.overflow} |-> Y!Nested("dict", [i \in filled |-> urls[i]])]
             rest == [x \in {r.overflow} |-> Y!Nested("list", beyond)]
  <1>1. \A s \in DOMAIN slots : \E j \in DOMAIN r.slots : s = r.slots[j]
    OBVIOUS
  <1>2. DOMAIN frames = {r.overflow} /\ DOMAIN rest = {r.overflow}
    OBVIOUS
  <1>3. DOMAIN Y!Nothing = {}
    BY DEF Y!Nothing
  <1> HIDE DEF slots, frames, rest
  <1>4. DOMAIN Y!Over(slots, rest) = DOMAIN slots \cup {r.overflow}
    BY <1>2, OverNames
  <1>5. Y!Routed(r, inputs) \in {Y!Nothing, frames, Y!Over(slots, rest), slots}
    BY Zenon DEF Y!Routed, slots, frames, rest
  <1> QED
    BY <1>1, <1>2, <1>3, <1>4, <1>5

(* The routers together set none but their slots. *)
LEMMA ChainNames ==
  ASSUME NEW S, NEW inputs, NEW k \in DOMAIN Y!Chain(S, inputs) PROVE Slot(S, k)
  <1>1. PICK i \in DOMAIN S.routes : k \in DOMAIN Y!Routed(S.routes[i], inputs)
    BY DEF Y!Chain
  <1> QED
    BY <1>1, RoutedNames DEF Slot

(* An integer is read in one way only. *)
LEMMA AsIntIsOne ==
  ASSUME NEW v, NEW n \in Y!AsInt(v)
  PROVE  n.as = "int" /\ Y!The(Y!AsInt(v)) = n
  <1>1. CASE v.as = "int"
    <2>1. Y!AsInt(v) = {v}
      BY <1>1 DEF Y!AsInt
    <2> QED
      BY <1>1, <2>1 DEF Y!The
  <1>2. CASE v.as # "int"
    <2>1. Y!AsInt(v) \in {{Y!Int(v.is)}, {Y!Int("8")}, {}}
      BY <1>2, Zenon DEF Y!AsInt
    <2>2. \A x : Y!Int(x).as = "int"
      BY DEF Y!Int, Y!Value
    <2> HIDE DEF Y!Int
    <2> QED
      BY <2>1, <2>2 DEF Y!The
  <1>3. QED
    BY <1>1, <1>2

(* What prepare_payload() lets through is legal under a tidy contract. *)
LEMMA PayloadIsLegal ==
  ASSUME NEW S, Tidy(S), NEW inputs, NEW p, NEW q \in Y!PayloadOf(S, inputs, p)
  PROVE  Legal(S, q)
  <1> DEFINE routed == Y!WithInputs(S, inputs, Y!Transformed(S, Y!Aliased(S, p)))
             full == Y!Defaulted(S, Y!Coerced(S, routed))
             checked == Y!Checked(S, full)
  <1>1. /\ q = Y!Allowed(S, checked)
        /\ Y!SchemasHold(S, full)
        /\ S.required \subseteq DOMAIN full
        /\ Y!ConstraintsHold(S, full)
    BY Zenon DEF Y!PayloadOf
  <1>2. \A k \in DOMAIN full : \/ k \in DOMAIN Y!Aliased(S, p)
                               \/ k \in {"seconds", "size", "text_prompts"}
                               \/ Slot(S, k)
                               \/ k \in DOMAIN S.defaults
    <2> DEFINE aliased == Y!Aliased(S, p)
               shaped == Y!Transformed(S, aliased)
               chain == Y!Chain(S, inputs)
               coerced == Y!Coerced(S, routed)
    <2>1. DOMAIN shaped \subseteq DOMAIN aliased \cup {"seconds", "size", "text_prompts"}
      BY TransformedNames
    <2>2. \A k \in DOMAIN chain : Slot(S, k)
      BY ChainNames
    <2>3. DOMAIN routed = DOMAIN shaped \cup DOMAIN chain
      <3>1. routed = Y!Over(shaped, chain)
        BY DEF Y!WithInputs
      <3> HIDE DEF shaped, chain, routed
      <3> QED
        BY <3>1, OverNames
    <2>4. DOMAIN coerced = DOMAIN routed
      BY DEF Y!Coerced
    <2>5. DOMAIN full = DOMAIN coerced \cup DOMAIN S.defaults
      <3>1. full = Y!Over(coerced, S.defaults)
        BY DEF Y!Defaulted
      <3> HIDE DEF coerced, full
      <3> QED
        BY <3>1 DEF Y!Over
    <2> HIDE DEF aliased, shaped, chain, coerced, routed, full
    <2> QED
      BY <2>1, <2>2, <2>3, <2>4, <2>5 DEF aliased
  <1> HIDE DEF full, routed
  <1>3. DOMAIN checked = DOMAIN full
    BY DEF Y!Checked
  <1> HIDE DEF checked
  <1>4. /\ DOMAIN q \subseteq DOMAIN full
        /\ S.allowlist = Y!All => DOMAIN q = DOMAIN full
        /\ S.allowlist # Y!All => DOMAIN q = DOMAIN full \cap S.allowlist
        /\ \A k \in DOMAIN q : q[k] = checked[k]
    BY <1>1, <1>3 DEF Y!Allowed, Y!Without
  <1>5. \A k \in DOMAIN full :
          (\A j \in DOMAIN S.constraints :
             S.constraints[j].converts => S.constraints[j].key # k) => checked[k] = full[k]
    BY DEF checked, Y!Checked
  <1>6. Named(S, q) /\ S.required \subseteq DOMAIN q
    BY <1>1, <1>4 DEF Named, Tidy
  <1>7. Current(S, q)
    <2>1. \A k \in DOMAIN S.aliases \cap DOMAIN q : k \in DOMAIN Y!Aliased(S, p)
      BY <1>2, <1>4 DEF Tidy
    <2> QED
      BY <2>1, AliasesGo DEF Current
  <1>8. Y!SchemasHold(S, q)
    <2>1. \A k \in DOMAIN S.schemas \cap DOMAIN q : q[k] = full[k] /\ k \in DOMAIN full
      BY <1>4, <1>5 DEF Tidy
    <2> QED
      BY <1>1, <2>1 DEF Y!SchemasHold
  <1>9. Constrained(S, q)
    <2> SUFFICES ASSUME NEW j \in DOMAIN S.constraints, S.constraints[j].key \in DOMAIN q
                 PROVE  LET c == S.constraints[j]
                        IN /\ q[c.key].is \in c.of
                           /\ q[c.key].as = IF c.converts THEN "int" ELSE "str"
      BY DEF Constrained, Right
    <2> DEFINE c == S.constraints[j]
               v == full[c.key]
    <2>1. c.key \in DOMAIN full /\ q[c.key] = checked[c.key] /\ Y!Meets(c, full)
      BY <1>1, <1>4 DEF Y!ConstraintsHold
    <2>2. CASE c.converts
      <3>1. PICK n \in Y!AsInt(v) : n.is \in c.of
        BY <2>1, <2>2 DEF Y!Meets
      <3>2. checked[c.key] = Y!The(Y!AsInt(v))
        BY <2>1, <2>2 DEF checked, Y!Checked
      <3> HIDE DEF v, c
      <3>3. q[c.key] = n /\ n.as = "int"
        BY <2>1, <3>2, AsIntIsOne
      <3> QED
        BY <2>2, <3>1, <3>3 DEF c
    <2>3. CASE ~ c.converts
      <3>1. v.as = "str" /\ v.is \in c.of
        BY <2>1, <2>3 DEF Y!Meets
      <3>2. checked[c.key] = v
        BY <1>5, <2>1, <2>3 DEF Tidy
      <3> QED
        BY <2>1, <2>3, <3>1, <3>2
    <2> QED
      BY <2>2, <2>3
  <1> QED
    BY <1>6, <1>7, <1>8, <1>9 DEF Legal

(* Every contract of the connectors is tidy. *)
LEMMA ContractsAreTidy == \A m \in DOMAIN Y!Contract : Tidy(Y!Contract[m])
  <1>1. Tidy(Y!Veo) /\ Tidy(Y!Imagen) /\ Tidy(Y!Sora) /\ Tidy(Y!Luma)
    <2> USE DEF Tidy, Slot, Y!Permissive, Y!Nothing, Y!OneOf
    <2>1. Tidy(Y!Veo) /\ Tidy(Y!Imagen)
      BY DEF Y!Veo, Y!Imagen
    <2>2. Tidy(Y!Sora)
      BY DEF Y!Sora, Y!IntOf, Y!Images, Y!All
    <2>3. Tidy(Y!Luma)
      BY DEF Y!Luma, Y!Keyframes
    <2> QED
      BY <2>1, <2>2, <2>3
  <1>2. Tidy(Y!RunwayOpen) /\ Tidy(Y!RunwayTurbo)
    <2> USE DEF Tidy, Slot, Y!Permissive, Y!Nothing, Y!Images, Y!Dropped
    <2>1. Tidy(Y!RunwayOpen)
      BY DEF Y!RunwayOpen
    <2>2. Tidy(Y!RunwayTurbo)
      BY DEF Y!RunwayTurbo, Y!RunwayOpen, Y!OneOf, Y!IntOf
    <2> QED
      BY <2>1, <2>2
  <1>3. Tidy(Y!Hume) /\ Tidy(Y!Lmnt) /\ Tidy(Y!FalAudio) /\ Tidy(Y!OpenAITts)
        /\ Tidy(Y!StableAudio) /\ Tidy(Y!DecartVideo)
    <2> USE DEF Tidy, Slot, Y!Permissive, Y!Nothing
    <2>1. Tidy(Y!Hume) /\ Tidy(Y!Lmnt) /\ Tidy(Y!FalAudio)
      BY DEF Y!Hume, Y!Lmnt, Y!Voiced, Y!FalAudio
    <2>2. Tidy(Y!OpenAITts) /\ Tidy(Y!StableAudio) /\ Tidy(Y!DecartVideo)
      BY DEF Y!OpenAITts, Y!StableAudio, Y!DecartVideo
    <2> QED
      BY <2>1, <2>2
  <1>4. Tidy(Y!FalMedia) /\ Tidy(Y!Replicate)
    BY DEF Tidy, Y!FalMedia, Y!Replicate, Y!Permissive, Y!Nothing
  <1>5. Tidy(Y!Custom)
    BY DEF Tidy, Slot, Y!Custom, Y!Permissive, Y!Nothing, Y!Images, Y!First, Y!Dropped
  <1>6. Tidy(Y!NvidiaImage) /\ Tidy(Y!NvidiaSdxl) /\ Tidy(Y!NvidiaVideo)
    <2> USE DEF Tidy, Slot, Y!Permissive, Y!Nothing, Y!Guidance, Y!Dropped
    <2>1. Tidy(Y!NvidiaImage)
      BY DEF Y!NvidiaImage, Y!Images
    <2>2. Tidy(Y!NvidiaSdxl)
      BY DEF Y!NvidiaSdxl, Y!NvidiaImage, Y!Images
    <2>3. Tidy(Y!NvidiaVideo)
      BY DEF Y!NvidiaVideo, Y!First
    <2> QED
      BY <2>1, <2>2, <2>3
  <1>7. Tidy(Y!GmiMusic) /\ Tidy(Y!GmiTts) /\ Tidy(Y!GmiClone) /\ Tidy(Y!GmiEdit)
    <2> USE DEF Tidy, Slot, Y!Permissive, Y!Nothing, Y!Surface, Y!Dropped
    <2>1. Tidy(Y!GmiMusic) /\ Tidy(Y!GmiTts)
      BY DEF Y!GmiMusic, Y!GmiTts
    <2>2. Tidy(Y!GmiClone)
      BY DEF Y!GmiClone, Y!First
    <2>3. Tidy(Y!GmiEdit)
      BY DEF Y!GmiEdit, Y!Images
    <2> QED
      BY <2>1, <2>2, <2>3
  <1>8. /\ Tidy(Y!GmiVideo({"quality"}, <<"image">>))
        /\ Tidy(Y!GmiVideo({"first_frame", "last_frame"}, <<"first_frame", "last_frame">>))
        /\ Tidy(Y!GmiOpen)
    <2> USE DEF Tidy, Slot, Y!Permissive, Y!Nothing, Y!Surface, Y!Dropped, Y!GmiVideo, Y!Guidance,
                Y!Images
    <2>1. Tidy(Y!GmiVideo({"quality"}, <<"image">>))
      OBVIOUS
    <2>2. Tidy(Y!GmiVideo({"first_frame", "last_frame"}, <<"first_frame", "last_frame">>))
      OBVIOUS
    <2>3. Tidy(Y!GmiOpen)
      BY DEF Y!GmiOpen
    <2> QED
      BY <2>1, <2>2, <2>3
  <1>9. QED
    BY <1>1, <1>2, <1>3, <1>4, <1>5, <1>6, <1>7, <1>8 DEF Y!Contract

(* Where a connector takes its parameters out of the payload, none is      *)
(* required.                                                               *)
LEMMA ForwardedNeedNothing ==
  \A m \in DOMAIN Y!Forwards : Y!Contract[m].required = {}
  <1>1. /\ Y!Sora.required = {} /\ Y!Veo.required = {} /\ Y!Hume.required = {}
        /\ Y!Lmnt.required = {} /\ Y!OpenAITts.required = {} /\ Y!StableAudio.required = {}
        /\ Y!DecartVideo.required = {} /\ Y!RunwayOpen.required = {}
        /\ Y!RunwayTurbo.required = {} /\ Y!Imagen.required = {}
    BY DEF Y!Sora, Y!Veo, Y!Imagen, Y!Hume, Y!Lmnt, Y!OpenAITts, Y!StableAudio, Y!DecartVideo, Y!RunwayOpen,
           Y!RunwayTurbo, Y!Permissive
  <1> QED
    BY <1>1 DEF Y!Forwards, Y!Contract

(* What Runway's contracts say. *)
LEMMA RunwayIs ==
  ASSUME NEW S \in {Y!RunwayOpen, Y!RunwayTurbo}
  PROVE  /\ S.allowlist = Y!All /\ S.required = {} /\ DOMAIN S.schemas = {}
         /\ S.aliases = [aspect_ratio |-> "ratio"]
  <1>1. CASE S = Y!RunwayOpen
    BY <1>1 DEF Y!RunwayOpen, Y!Permissive, Y!Nothing
  <1>2. CASE S = Y!RunwayTurbo
    BY <1>2 DEF Y!RunwayOpen, Y!RunwayTurbo, Y!Permissive, Y!Nothing
  <1> QED
    BY <1>1, <1>2

(* What a connector converts. *)
LEMMA WiresAre ==
  \A m, k : Y!Wired(m, k) =>
    \/ m = "sora" /\ k = "seconds" /\ Y!Wires[m][k] = "str"
    \/ m = "stable_audio" /\ k = "duration" /\ Y!Wires[m][k] = "str"
    \/ m = "veo" /\ k = "number_of_videos" /\ Y!Wires[m][k] = "int"
    \/ m = "veo" /\ k = "enhance_prompt" /\ Y!Wires[m][k] = "bool"
    \/ m = "imagen" /\ k = "number_of_images" /\ Y!Wires[m][k] = "int"
  BY DEF Y!Wired, Y!Wires

(* A number that is sent as text says the same. *)
LEMMA PrintedSays ==
  \A v : /\ Y!Converted("str", v).is = v.is
         /\ v.as # "float" => Y!Converted("str", v).as = "str"
  <1> TAKE v
  <1>1. \A x, y : Y!Value(x, y).is = y /\ Y!Value(x, y).as = x
    BY DEF Y!Value
  <1>2. Y!Converted("str", v) = IF v.as = "float" /\ Y!Whole(v) THEN Y!Pointed(v.is) ELSE Y!Str(v.is)
    BY DEF Y!Converted
  <1> QED
    BY <1>1, <1>2 DEF Y!Pointed, Y!Str

(* A value that the model has under the name, of its type and in its       *)
(* limits, as it is sent.                                                  *)
NameIsLegal(m, k) ==
  LET S == Y!Contract[m]
  IN /\ S.allowlist = Y!All \/ k \in S.allowlist
     /\ k \in DOMAIN S.aliases => k \in {S.aliases[c] : c \in DOMAIN S.aliases}
FitsOnWire(m, k, v) ==
  k \in DOMAIN Y!Contract[m].schemas =>
    Y!Fits(Y!Contract[m].schemas[k], IF Y!Printed(m, k) THEN Y!Float(v.is) ELSE v)
RightOnWire(m, k, v) ==
  \A j \in DOMAIN Y!Contract[m].constraints :
    LET c == Y!Contract[m].constraints[j]
    IN c.key = k =>
         /\ v.is \in c.of
         /\ v.as = IF c.converts /\ ~Y!Printed(m, k) THEN "int" ELSE "str"
ValueIsLegal(m, k, v) == NameIsLegal(m, k) /\ FitsOnWire(m, k, v) /\ RightOnWire(m, k, v)

(* A request that is legal for its model; Runway wants an image, or one of *)
(* the ratios it has for text; Hume has three formats.                     *)
LegalFor(m, q) ==
  /\ Y!Contract[m].required \subseteq DOMAIN q
  /\ \A k \in DOMAIN q : ValueIsLegal(m, k, q[k])
  /\ m \in Y!ImageOnly => "prompt_image" \in DOMAIN q
  /\ m \in Y!Runways => "prompt_image" \in DOMAIN q \/ q["ratio"].is \in Y!TextRatios
  /\ m = "hume" => q["format"].is \in Y!HumeFormats

(* What the connectors that convert say of the names they convert. *)
LEMMA WiredContracts ==
  /\ DOMAIN Y!Contract["sora"].schemas = {}
  /\ \A j \in DOMAIN Y!Contract["sora"].constraints :
       Y!Contract["sora"].constraints[j].key = "seconds" => Y!Contract["sora"].constraints[j].converts
  /\ DOMAIN Y!Contract["veo"].schemas = {} /\ DOMAIN Y!Contract["imagen"].schemas = {}
  /\ \A j \in DOMAIN Y!Contract["veo"].constraints :
       Y!Contract["veo"].constraints[j].key \notin {"number_of_videos", "enhance_prompt"}
  /\ \A j \in DOMAIN Y!Contract["imagen"].constraints :
       Y!Contract["imagen"].constraints[j].key # "number_of_images"
  /\ Y!Contract["stable_audio"].constraints = <<>>
  /\ Y!Contract["stable_audio"].schemas["duration"].schema = "float"
  <1>1. /\ Y!Contract["sora"] = Y!Sora /\ Y!Contract["veo"] = Y!Veo
        /\ Y!Contract["imagen"] = Y!Imagen /\ Y!Contract["stable_audio"] = Y!StableAudio
    BY DEF Y!Contract
  <1>2. /\ DOMAIN Y!Sora.schemas = {}
        /\ Y!Sora.constraints = <<Y!IntOf("seconds", {"4", "8", "12"}),
             Y!OneOf("size", {"720x1280", "1280x720", "1024x1792", "1792x1024"})>>
    BY DEF Y!Sora, Y!Permissive, Y!Nothing
  <1>3. /\ DOMAIN Y!Veo.schemas = {} /\ DOMAIN Y!Imagen.schemas = {}
        /\ \A j \in DOMAIN Y!Veo.constraints :
             Y!Veo.constraints[j].key \notin {"number_of_videos", "enhance_prompt"}
        /\ \A j \in DOMAIN Y!Imagen.constraints : Y!Imagen.constraints[j].key # "number_of_images"
    BY DEF Y!Veo, Y!Imagen, Y!Permissive, Y!Nothing, Y!OneOf
  <1>4. Y!StableAudio.constraints = <<>> /\ Y!StableAudio.schemas["duration"].schema = "float"
    BY DEF Y!StableAudio, Y!Permissive, Y!FloatIn
  <1>5. \A j \in DOMAIN Y!Sora.constraints :
          Y!Sora.constraints[j].key = "seconds" => Y!Sora.constraints[j].converts
    BY <1>2 DEF Y!IntOf, Y!OneOf
  <1> QED
    BY <1>1, <1>2, <1>3, <1>4, <1>5

(* What is taken out of a legal payload is legal on the wire. *)
LEMMA TakenIsLegal ==
  ASSUME NEW m \in DOMAIN Y!Contract, NEW payload, Legal(Y!Contract[m], payload),
         NEW k \in DOMAIN payload
  PROVE  ValueIsLegal(m, k, IF Y!Wired(m, k) THEN Y!Converted(Y!Wires[m][k], payload[k])
                            ELSE payload[k])
  <1> DEFINE S == Y!Contract[m]
             v == payload[k]
  <1>1. NameIsLegal(m, k)
    BY DEF Legal, Named, Current, NameIsLegal
  <1>2. k \in DOMAIN S.schemas => Y!Fits(S.schemas[k], v)
    BY DEF Legal, Y!SchemasHold
  <1>3. \A j \in DOMAIN S.constraints : S.constraints[j].key = k =>
          v.is \in S.constraints[j].of /\ v.as = IF S.constraints[j].converts THEN "int" ELSE "str"
    BY DEF Legal, Constrained, Right
  <1> HIDE DEF v
  <1>4. CASE ~Y!Wired(m, k)
    <2>1. ~Y!Printed(m, k)
      BY <1>4 DEF Y!Printed
    <2>2. FitsOnWire(m, k, v) /\ RightOnWire(m, k, v)
      BY <1>2, <1>3, <2>1 DEF FitsOnWire, RightOnWire
    <2> QED
      BY <1>1, <1>4, <2>2 DEF ValueIsLegal, v
  <1>5. CASE Y!Wired(m, k)
    <2> DEFINE w == Y!Converted(Y!Wires[m][k], v)
    <2>1. CASE m = "sora" /\ k = "seconds" /\ Y!Wires[m][k] = "str"
      <3>1. Y!Printed(m, k) /\ k \notin DOMAIN S.schemas
        BY <1>5, <2>1, WiredContracts DEF Y!Printed
      <3>2. w.is = v.is /\ (v.as # "float" => w.as = "str")
        BY <2>1, PrintedSays
      <3>3. \A j \in DOMAIN S.constraints : S.constraints[j].key = k =>
              v.is \in S.constraints[j].of /\ v.as = "int"
        BY <1>3, <2>1, WiredContracts
      <3> HIDE DEF w
      <3>4. FitsOnWire(m, k, w) /\ RightOnWire(m, k, w)
        BY <3>1, <3>2, <3>3 DEF FitsOnWire, RightOnWire
      <3> QED
        BY <1>1, <1>5, <3>4 DEF ValueIsLegal, v, w
    <2>2. CASE m = "stable_audio" /\ k = "duration" /\ Y!Wires[m][k] = "str"
      <3>1. Y!Printed(m, k) /\ S.constraints = <<>> /\ S.schemas[k].schema = "float"
        BY <1>5, <2>2, WiredContracts DEF Y!Printed
      <3>2. w.is = v.is
        BY <2>2, PrintedSays
      <3> HIDE DEF w
      <3>3. \A x : Y!Float(x).is = x /\ Y!Float(x).as = "float"
        BY DEF Y!Float, Y!Value
      <3>4. k \in DOMAIN S.schemas => Y!Between(S.schemas[k], Y!Quarters[v.is])
        BY <1>2, <3>1 DEF Y!Fits
      <3>5. k \in DOMAIN S.schemas => Y!Fits(S.schemas[k], Y!Float(w.is))
        BY <3>1, <3>2, <3>3, <3>4 DEF Y!Fits
      <3>6. FitsOnWire(m, k, w) /\ RightOnWire(m, k, w)
        BY <3>1, <3>5 DEF FitsOnWire, RightOnWire
      <3> QED
        BY <1>1, <1>5, <3>6 DEF ValueIsLegal, v, w
    <2>3. CASE \/ m = "veo" /\ k \in {"number_of_videos", "enhance_prompt"}
               \/ m = "imagen" /\ k = "number_of_images"
      <3>1. k \notin DOMAIN S.schemas /\ \A j \in DOMAIN S.constraints : S.constraints[j].key # k
        BY <2>3, WiredContracts
      <3>2. FitsOnWire(m, k, w) /\ RightOnWire(m, k, w)
        BY <3>1 DEF FitsOnWire, RightOnWire
      <3> QED
        BY <1>1, <1>5, <3>2 DEF ValueIsLegal, v, w
    <2> QED
      BY <1>5, <2>1, <2>2, <2>3, WiresAre
  <1> QED
    BY <1>4, <1>5

(* What the contracts of the connectors that add something say of it. *)
LEMMA FilledContracts ==
  /\ \A m \in Y!Runways :
       /\ Y!Contract[m].allowlist = Y!All /\ DOMAIN Y!Contract[m].schemas = {}
       /\ Y!Contract[m].aliases = [aspect_ratio |-> "ratio"]
       /\ Y!Contract[m] = IF m \in Y!ImageOnly THEN Y!RunwayTurbo ELSE Y!RunwayOpen
  /\ Y!RunwayOpen.constraints = <<>>
  /\ \A j \in DOMAIN Y!RunwayTurbo.constraints :
       LET c == Y!RunwayTurbo.constraints[j]
       IN c.key = "ratio" => {"1280:720", "1280:768"} \subseteq c.of /\ ~c.converts
  /\ \A m \in {"veo", "decart", "stable_audio", "openai_tts", "lmnt", "hume"} :
       /\ Y!Contract[m].allowlist = Y!All
       /\ Y!Contract[m].routes = <<>>
       /\ DOMAIN Y!Contract[m].aliases \subseteq {"duration", "voice_id", "output_format"}
       /\ \A j \in DOMAIN Y!Contract[m].constraints :
            Y!Contract[m].constraints[j].key \in {"aspect_ratio", "resolution", "duration_seconds"}
  /\ DOMAIN Y!Contract["stable_audio"].aliases = {}
  /\ DOMAIN Y!Contract["veo"].schemas = {} /\ DOMAIN Y!Contract["lmnt"].schemas = {}
  /\ DOMAIN Y!Contract["hume"].schemas = {}
  /\ DOMAIN Y!Contract["decart"].schemas = {"resolution", "enhance_prompt"}
  /\ DOMAIN Y!Contract["stable_audio"].schemas = {"output_format", "duration"}
  /\ Y!Fits(Y!Contract["stable_audio"].schemas["output_format"], Y!Str("mp3"))
  /\ DOMAIN Y!Contract["openai_tts"].schemas = {"voice", "response_format", "speed"}
  /\ Y!Fits(Y!Contract["openai_tts"].schemas["voice"], Y!Str("alloy"))
  /\ Y!Fits(Y!Contract["openai_tts"].schemas["response_format"], Y!Str("mp3"))
  <1>1. \A m \in Y!Runways :
          /\ Y!Contract[m] = IF m \in Y!ImageOnly THEN Y!RunwayTurbo ELSE Y!RunwayOpen
          /\ Y!Contract[m].allowlist = Y!All /\ DOMAIN Y!Contract[m].schemas = {}
          /\ Y!Contract[m].aliases = [aspect_ratio |-> "ratio"]
    <2> TAKE m \in Y!Runways
    <2>1. Y!Contract[m] = IF m \in Y!ImageOnly THEN Y!RunwayTurbo ELSE Y!RunwayOpen
      BY DEF Y!Runways, Y!ImageOnly, Y!Contract
    <2>2. Y!Contract[m] \in {Y!RunwayOpen, Y!RunwayTurbo}
      BY <2>1
    <2> QED
      BY <2>1, <2>2, RunwayIs
  <1>2. /\ Y!RunwayOpen.constraints = <<>>
        /\ \A j \in DOMAIN Y!RunwayTurbo.constraints :
             LET c == Y!RunwayTurbo.constraints[j]
             IN c.key = "ratio" => {"1280:720", "1280:768"} \subseteq c.of /\ ~c.converts
    BY DEF Y!RunwayOpen, Y!RunwayTurbo, Y!OneOf, Y!IntOf, Y!Permissive
  <1>3. /\ Y!Contract["veo"] = Y!Veo /\ Y!Contract["decart"] = Y!DecartVideo
        /\ Y!Contract["stable_audio"] = Y!StableAudio /\ Y!Contract["openai_tts"] = Y!OpenAITts
        /\ Y!Contract["lmnt"] = Y!Lmnt /\ Y!Contract["hume"] = Y!Hume
    BY DEF Y!Contract
  <1>4. \A S \in {Y!Veo, Y!DecartVideo, Y!StableAudio, Y!OpenAITts, Y!Lmnt, Y!Hume} :
          /\ S.allowlist = Y!All
          /\ S.routes = <<>>
          /\ DOMAIN S.aliases \subseteq {"duration", "voice_id", "output_format"}
          /\ \A j \in DOMAIN S.constraints :
               S.constraints[j].key \in {"aspect_ratio", "resolution", "duration_seconds"}
    <2> DEFINE Fine(S) ==
          /\ S.allowlist = Y!All
          /\ S.routes = <<>>
          /\ DOMAIN S.aliases \subseteq {"duration", "voice_id", "output_format"}
          /\ \A j \in DOMAIN S.constraints :
               S.constraints[j].key \in {"aspect_ratio", "resolution", "duration_seconds"}
    <2> USE DEF Y!Permissive, Y!Nothing
    <2>1. Fine(Y!Veo)
      BY DEF Y!Veo, Y!OneOf
    <2>2. Fine(Y!DecartVideo) /\ Fine(Y!StableAudio) /\ Fine(Y!OpenAITts)
      BY DEF Y!DecartVideo, Y!StableAudio, Y!OpenAITts
    <2>3. Fine(Y!Lmnt) /\ Fine(Y!Hume)
      BY DEF Y!Lmnt, Y!Hume, Y!Voiced
    <2> QED
      BY <2>1, <2>2, <2>3
  <1>5. /\ DOMAIN Y!StableAudio.aliases = {}
        /\ DOMAIN Y!Veo.schemas = {} /\ DOMAIN Y!Lmnt.schemas = {} /\ DOMAIN Y!Hume.schemas = {}
        /\ DOMAIN Y!DecartVideo.schemas = {"resolution", "enhance_prompt"}
        /\ DOMAIN Y!StableAudio.schemas = {"output_format", "duration"}
        /\ Y!StableAudio.schemas["output_format"] = Y!EnumOf({"mp3", "wav", "ogg"})
        /\ DOMAIN Y!OpenAITts.schemas = {"voice", "response_format", "speed"}
        /\ Y!OpenAITts.schemas["voice"] = Y!EnumOf({"alloy", "nova"})
        /\ Y!OpenAITts.schemas["response_format"] =
             Y!EnumOf({"mp3", "opus", "aac", "flac", "wav", "pcm"})
    BY DEF Y!StableAudio, Y!Veo, Y!Lmnt, Y!Hume, Y!DecartVideo, Y!OpenAITts, Y!Permissive, Y!Nothing
  <1>6. \A V, x : x \in V => Y!Fits(Y!EnumOf(V), Y!Str(x))
    BY DEF Y!Fits, Y!EnumOf, Y!Str, Y!Value
  <1>7. /\ Y!Fits(Y!EnumOf({"mp3", "wav", "ogg"}), Y!Str("mp3"))
        /\ Y!Fits(Y!EnumOf({"alloy", "nova"}), Y!Str("alloy"))
        /\ Y!Fits(Y!EnumOf({"mp3", "opus", "aac", "flac", "wav", "pcm"}), Y!Str("mp3"))
    BY <1>6
  <1> QED
    BY <1>1, <1>2, <1>3, <1>4, <1>5, <1>7

(* What a connector adds: to Runway's requests a ratio, and seconds where   *)
(* the endpoint wants them; the step's seed; a voice, a format.            *)
Added(m, own, p, fill) ==
  /\ m \in Y!Runways =>
       /\ DOMAIN fill = IF \/ m = "runway_gen45"
                           \/ m = "runway_open" /\ "prompt_image" \notin DOMAIN p
                        THEN {"ratio", "duration"} ELSE {"ratio"}
       /\ fill["ratio"] = Y!Str(IF m = "runway_gen3a" THEN "1280:768" ELSE "1280:720")
       /\ "duration" \in DOMAIN fill => fill["duration"] = Y!Int("8")
  /\ m \in {"veo", "decart"} =>
       /\ DOMAIN fill \subseteq {"seed", "data"}
       /\ m = "veo" => "data" \notin DOMAIN fill
       /\ "seed" \in DOMAIN fill => "seed" \in DOMAIN own /\ fill["seed"].is = own["seed"].is
  /\ m = "stable_audio" =>
       /\ DOMAIN fill \subseteq {"seed", "output_format"}
       /\ fill["output_format"] = Y!Str("mp3")
       /\ "seed" \in DOMAIN fill => "seed" \in DOMAIN own /\ fill["seed"].is = own["seed"].is
  /\ m = "openai_tts" =>
       /\ DOMAIN fill = {"voice", "response_format"}
       /\ fill["voice"] = Y!Str("alloy") /\ fill["response_format"] = Y!Str("mp3")
  /\ m = "lmnt" => DOMAIN fill = {"voice"}
  /\ m = "hume" => DOMAIN fill = {"format"} /\ fill["format"] = Y!Str("mp3")
  /\ m \notin Y!Runways \cup {"veo", "decart", "stable_audio", "openai_tts", "lmnt", "hume"} =>
       DOMAIN fill = {}

LEMMA FillIs ==
  \A m, own, inputs, p : Added(m, own, p, Y!Fill(m, own, inputs, p))
  <1> TAKE m, own, inputs, p
  <1> DEFINE fill == Y!Fill(m, own, inputs, p)
             seed == Y!Seed(own)
             data == [data |-> Y!Link(1)]
             text == [k \in DOMAIN seed |-> Y!Converted("str", own[k])]
             format == [output_format |-> Y!Str("mp3")]
  <1>1. DOMAIN seed = {"seed"} \cap DOMAIN own /\ \A k \in DOMAIN seed : seed[k] = own[k]
    BY DEF Y!Seed
  <1>2. DOMAIN data = {"data"}
    OBVIOUS
  <1>3. DOMAIN format = {"output_format"} /\ format["output_format"] = Y!Str("mp3")
    OBVIOUS
  <1>4. DOMAIN text = DOMAIN seed /\ \A k \in DOMAIN text : text[k].is = own[k].is
    BY PrintedSays
  <1> SUFFICES Added(m, own, p, fill)
    OBVIOUS
  <1>5. CASE m \in Y!Runways
    <2>1. m = "runway_turbo" => fill = [ratio |-> Y!Str("1280:720")]
      BY DEF Y!Fill
    <2>2. m = "runway_gen3a" => fill = [ratio |-> Y!Str("1280:768")]
      BY DEF Y!Fill
    <2>3. m = "runway_gen45" => fill = [ratio |-> Y!Str("1280:720"), duration |-> Y!Int("8")]
      BY DEF Y!Fill
    <2>4. m = "runway_open" =>
            fill = IF "prompt_image" \in DOMAIN p THEN [ratio |-> Y!Str("1280:720")]
                   ELSE [ratio |-> Y!Str("1280:720"), duration |-> Y!Int("8")]
      BY DEF Y!Fill
    <2>5. m \in {"runway_turbo", "runway_gen3a", "runway_gen45", "runway_open"}
      BY <1>5 DEF Y!Runways, Y!ImageOnly
    <2> HIDE DEF fill
    <2> QED
      BY <1>5, <2>1, <2>2, <2>3, <2>4, <2>5 DEF Added, Y!Runways, Y!ImageOnly
  <1> HIDE DEF seed, data, text, format
  <1>6. /\ DOMAIN Y!Over(seed, data) = DOMAIN seed \cup {"data"}
        /\ \A k \in DOMAIN seed : Y!Over(seed, data)[k] = seed[k]
    BY <1>2, OverNames, OverSays
  <1>7. /\ DOMAIN Y!Over(format, text) = {"output_format"} \cup DOMAIN text
        /\ Y!Over(format, text)["output_format"] = format["output_format"]
        /\ \A k \in DOMAIN text \ {"output_format"} : Y!Over(format, text)[k] = text[k]
    BY <1>3, OverNames, OverSays
  <1>8. CASE m \in {"veo", "decart"}
    <2>1. fill \in {seed, Y!Over(seed, data)} /\ (m = "veo" => fill = seed)
      BY <1>8 DEF Y!Fill, seed, data
    <2> HIDE DEF fill
    <2> QED
      BY <1>1, <1>6, <1>8, <2>1 DEF Added, Y!Runways, Y!ImageOnly
  <1>9. CASE m = "stable_audio"
    <2>1. fill = Y!Over(format, text)
      BY <1>9 DEF Y!Fill, format, text, seed
    <2> HIDE DEF fill
    <2> QED
      BY <1>1, <1>3, <1>4, <1>7, <1>9, <2>1 DEF Added, Y!Runways, Y!ImageOnly
  <1>10. CASE m \in {"openai_tts", "lmnt", "hume"}
    BY <1>10 DEF Added, Y!Fill, Y!Runways, Y!ImageOnly
  <1>11. CASE m \notin Y!Runways \cup {"veo", "decart", "stable_audio", "openai_tts", "lmnt", "hume"}
    <2>1. fill = Y!Nothing
      BY <1>11 DEF Y!Fill, Y!Runways, Y!ImageOnly
    <2> QED
      BY <1>11, <2>1 DEF Added, Y!Nothing
  <1> HIDE DEF fill
  <1> QED
    BY <1>5, <1>8, <1>9, <1>10, <1>11

(* What a connector adds of its own is legal. *)
LEMMA FillIsLegal ==
  ASSUME NEW m \in DOMAIN Y!Contract, NEW own, NEW inputs, NEW p,
         NEW k \in DOMAIN Y!Fill(m, own, inputs, p)
  PROVE  ValueIsLegal(m, k, Y!Fill(m, own, inputs, p)[k])
  <1> DEFINE S == Y!Contract[m]
             fill == Y!Fill(m, own, inputs, p)
             v == fill[k]
  <1>1. \A x : Y!Str(x).is = x /\ Y!Str(x).as = "str"
    BY DEF Y!Str, Y!Value
  <1> HIDE DEF v
  <1>2. CASE m \in Y!Runways
    <2>1. /\ S.allowlist = Y!All /\ DOMAIN S.schemas = {}
          /\ S.aliases = [aspect_ratio |-> "ratio"]
          /\ S = IF m \in Y!ImageOnly THEN Y!RunwayTurbo ELSE Y!RunwayOpen
      BY <1>2, FilledContracts
    <2>2. k \in {"ratio", "duration"}
      BY <1>2, FillIs DEF Added
    <2>3. NameIsLegal(m, k) /\ FitsOnWire(m, k, v)
      BY <2>1, <2>2 DEF NameIsLegal, FitsOnWire
    <2>4. ~Y!Printed(m, k)
      <3>1. m \notin {"sora", "stable_audio", "veo", "imagen"}
        BY <1>2 DEF Y!Runways, Y!ImageOnly
      <3> QED
        BY <3>1, WiresAre DEF Y!Printed
    <2>5. CASE m \notin Y!ImageOnly
      <3>1. S.constraints = <<>>
        BY <2>1, <2>5, FilledContracts
      <3> QED
        BY <2>3, <3>1 DEF RightOnWire, ValueIsLegal, v
    <2>6. CASE m \in Y!ImageOnly
      <3>1. DOMAIN fill = {"ratio"} /\ fill["ratio"].is \in {"1280:720", "1280:768"}
              /\ fill["ratio"].as = "str"
        BY <1>1, <1>2, <2>6, FillIs DEF Added, Y!ImageOnly
      <3>2. \A j \in DOMAIN S.constraints : S.constraints[j].key = "ratio" =>
              {"1280:720", "1280:768"} \subseteq S.constraints[j].of /\ ~S.constraints[j].converts
        BY <2>1, <2>6, FilledContracts
      <3>3. k = "ratio" /\ v = fill["ratio"]
        BY <3>1 DEF v
      <3>4. RightOnWire(m, k, v)
        BY <3>1, <3>2, <3>3 DEF RightOnWire
      <3> QED
        BY <2>3, <3>4 DEF ValueIsLegal, v
    <2> QED
      BY <2>5, <2>6
  <1>3. CASE m \in {"veo", "decart", "stable_audio", "openai_tts", "lmnt", "hume"}
    <2>1. /\ S.allowlist = Y!All
          /\ DOMAIN S.aliases \subseteq {"duration", "voice_id", "output_format"}
          /\ \A j \in DOMAIN S.constraints :
               S.constraints[j].key \in {"aspect_ratio", "resolution", "duration_seconds"}
      BY <1>3, FilledContracts
    <2>2. /\ k \in {"seed", "data", "output_format", "voice", "response_format", "format"}
          /\ k = "output_format" => m = "stable_audio"
      BY <1>3, FillIs DEF Added, Y!Runways, Y!ImageOnly
    <2>3. m = "stable_audio" => DOMAIN S.aliases = {}
      BY FilledContracts
    <2>4. NameIsLegal(m, k)
      BY <2>1, <2>2, <2>3 DEF NameIsLegal
    <2>5. RightOnWire(m, k, v)
      BY <2>1, <2>2 DEF RightOnWire
    <2>6. ~Y!Printed(m, k)
      BY <2>2, WiresAre DEF Y!Printed
    <2>7. k \in DOMAIN S.schemas => Y!Fits(S.schemas[k], v)
      <3>1. CASE m \in {"veo", "lmnt", "hume", "decart"}
        <4>1. DOMAIN S.schemas \subseteq {"resolution", "enhance_prompt"}
          BY <3>1, FilledContracts
        <4> QED
          BY <2>2, <4>1
      <3>2. CASE m = "stable_audio"
        <4>1. k \in {"seed", "output_format"} /\ fill["output_format"] = Y!Str("mp3")
          BY <3>2, FillIs DEF Added
        <4>2. DOMAIN S.schemas = {"output_format", "duration"}
                /\ Y!Fits(S.schemas["output_format"], Y!Str("mp3"))
          BY <3>2, FilledContracts
        <4> QED
          BY <4>1, <4>2 DEF v
      <3>3. CASE m = "openai_tts"
        <4>1. k \in {"voice", "response_format"} /\ fill["voice"] = Y!Str("alloy")
                /\ fill["response_format"] = Y!Str("mp3")
          BY <3>3, FillIs DEF Added
        <4>2. /\ Y!Fits(S.schemas["voice"], Y!Str("alloy"))
              /\ Y!Fits(S.schemas["response_format"], Y!Str("mp3"))
          BY <3>3, FilledContracts
        <4> QED
          BY <4>1, <4>2 DEF v
      <3> QED
        BY <1>3, <3>1, <3>2, <3>3
    <2>8. FitsOnWire(m, k, v)
      BY <2>6, <2>7 DEF FitsOnWire
    <2> QED
      BY <2>4, <2>5, <2>8 DEF ValueIsLegal, v
  <1>4. CASE m \notin Y!Runways \cup {"veo", "decart", "stable_audio", "openai_tts", "lmnt", "hume"}
    BY <1>4, FillIs DEF Added
  <1> QED
    BY <1>2, <1>3, <1>4

(* What is taken of a payload. *)
LEMMA TakenIs ==
  ASSUME NEW m, NEW payload
  PROVE  LET part == Y!Taken(m, payload)
         IN /\ DOMAIN part = {k \in DOMAIN payload : Y!Passed(m, k)}
            /\ \A k \in DOMAIN part :
                 part[k] = IF Y!Wired(m, k) THEN Y!Converted(Y!Wires[m][k], payload[k])
                           ELSE payload[k]
  BY DEF Y!Taken

(* A request is what was taken, over what is added. *)
LEMMA RequestIs ==
  ASSUME NEW m, NEW own, NEW inputs, NEW p, NEW q \in Y!RequestOf(m, own, inputs, p)
  PROVE  \E payload \in Y!PayloadOf(Y!Contract[m], inputs, Y!Base(p, own)) :
           LET part == Y!Taken(m, payload)
               fill == Y!Fill(m, own, inputs, payload)
           IN /\ Y!Acceptable(m, payload)
              /\ q = Y!Over(part, fill)
              /\ DOMAIN q = DOMAIN part \cup DOMAIN fill
              /\ \A k \in DOMAIN part : q[k] = part[k]
              /\ \A k \in DOMAIN fill \ DOMAIN part : q[k] = fill[k]
  <1>1. PICK payload \in Y!PayloadOf(Y!Contract[m], inputs, Y!Base(p, own)) :
          /\ Y!Acceptable(m, payload)
          /\ q = Y!Over(Y!Taken(m, payload), Y!Fill(m, own, inputs, payload))
    BY DEF Y!RequestOf
  <1> DEFINE part == Y!Taken(m, payload)
             fill == Y!Fill(m, own, inputs, payload)
  <1> HIDE DEF part, fill
  <1>2. q = Y!Over(part, fill)
    BY <1>1 DEF part, fill
  <1>3. DOMAIN q = DOMAIN part \cup DOMAIN fill
    BY <1>2, OverNames
  <1>4. \A k \in DOMAIN part \cup DOMAIN fill : q[k] = IF k \in DOMAIN part THEN part[k] ELSE fill[k]
    BY <1>2, OverSays
  <1> QED
    BY <1>1, <1>2, <1>3, <1>4 DEF part, fill

(* A connector sends what is legal. *)
LEMMA RequestIsLegal ==
  ASSUME NEW m \in DOMAIN Y!Contract, NEW own, NEW inputs, NEW p,
         NEW q \in Y!RequestOf(m, own, inputs, p)
  PROVE  LegalFor(m, q)
  <1> DEFINE S == Y!Contract[m]
  <1>1. PICK payload \in Y!PayloadOf(S, inputs, Y!Base(p, own)) :
           LET part == Y!Taken(m, payload)
               fill == Y!Fill(m, own, inputs, payload)
           IN /\ Y!Acceptable(m, payload)
              /\ DOMAIN q = DOMAIN part \cup DOMAIN fill
              /\ \A k \in DOMAIN part : q[k] = part[k]
              /\ \A k \in DOMAIN fill \ DOMAIN part : q[k] = fill[k]
    BY RequestIs
  <1> DEFINE part == Y!Taken(m, payload)
             fill == Y!Fill(m, own, inputs, payload)
  <1>2. Legal(S, payload)
    BY ContractsAreTidy, PayloadIsLegal
  <1>3. /\ DOMAIN part = {k \in DOMAIN payload : Y!Passed(m, k)}
        /\ \A k \in DOMAIN part :
             part[k] = IF Y!Wired(m, k) THEN Y!Converted(Y!Wires[m][k], payload[k]) ELSE payload[k]
    BY TakenIs
  <1>4. \A k \in DOMAIN part : ValueIsLegal(m, k, part[k])
    <2> TAKE k \in DOMAIN part
    <2>1. k \in DOMAIN payload
      BY <1>3
    <2> HIDE DEF part, S
    <2> QED
      BY <1>2, <1>3, <2>1, TakenIsLegal DEF S
  <1>5. \A k \in DOMAIN fill : ValueIsLegal(m, k, fill[k])
    BY FillIsLegal
  <1>6. S.required \subseteq DOMAIN part
    <2>1. CASE m \in DOMAIN Y!Forwards
      BY <2>1, ForwardedNeedNothing
    <2>2. CASE m \notin DOMAIN Y!Forwards
      <3>1. DOMAIN part = DOMAIN payload
        BY <1>3, <2>2 DEF Y!Passed
      <3> QED
        BY <1>2, <3>1 DEF Legal
    <2> QED
      BY <2>1, <2>2
  <1> HIDE DEF part, fill
  <1>7. S.required \subseteq DOMAIN q /\ \A k \in DOMAIN q : ValueIsLegal(m, k, q[k])
    BY <1>1, <1>4, <1>5, <1>6 DEF part, fill
  <1>8. ASSUME m \in Y!Runways
        PROVE  /\ m \in Y!ImageOnly => "prompt_image" \in DOMAIN q
               /\ "prompt_image" \in DOMAIN q \/ q["ratio"].is \in Y!TextRatios
    <2>1. /\ Y!Passed(m, "prompt_image") /\ Y!Passed(m, "ratio")
          /\ ~Y!Wired(m, "ratio")
      BY <1>8, WiresAre DEF Y!Passed, Y!Forwards, Y!Runways, Y!ImageOnly
    <2>2. CASE "prompt_image" \in DOMAIN payload
      BY <1>1, <1>3, <2>1, <2>2 DEF part
    <2>3. CASE m \notin Y!ImageOnly /\ Y!Meets(Y!OneOf("ratio", Y!TextRatios), payload)
      <3>1. "ratio" \in DOMAIN payload => payload["ratio"].is \in Y!TextRatios
        BY <2>3 DEF Y!Meets, Y!OneOf
      <3>2. CASE "ratio" \in DOMAIN part
        BY <1>1, <1>3, <2>1, <2>3, <3>1, <3>2 DEF part
      <3>3. CASE "ratio" \notin DOMAIN part
        <4>1. "ratio" \in DOMAIN fill /\ fill["ratio"] = Y!Str("1280:720")
          BY <1>8, <2>3, FillIs DEF Added, fill, Y!ImageOnly
        <4>2. q["ratio"] = Y!Str("1280:720")
          BY <1>1, <3>3, <4>1 DEF part, fill
        <4> QED
          BY <2>3, <4>2 DEF Y!TextRatios, Y!Str, Y!Value
      <3> QED
        BY <3>2, <3>3
    <2> QED
      BY <1>1, <1>8, <2>2, <2>3 DEF Y!Acceptable
  <1>9. ASSUME m = "hume" PROVE q["format"].is \in Y!HumeFormats
    <2>1. "format" \in DOMAIN payload => payload["format"].is \in Y!HumeFormats
      BY <1>1, <1>9 DEF Y!Acceptable, Y!Meets, Y!OneOf
    <2>2. Y!Passed(m, "format") /\ ~Y!Wired(m, "format")
      BY <1>9, WiresAre DEF Y!Passed, Y!Forwards
    <2>3. CASE "format" \in DOMAIN part
      BY <1>1, <1>3, <2>1, <2>2, <2>3 DEF part
    <2>4. CASE "format" \notin DOMAIN part
      <3>1. "format" \in DOMAIN fill /\ fill["format"] = Y!Str("mp3")
        BY <1>9, FillIs DEF Added, fill
      <3>2. q["format"] = Y!Str("mp3")
        BY <1>1, <2>4, <3>1 DEF part, fill
      <3> QED
        BY <3>2 DEF Y!HumeFormats, Y!Str, Y!Value
    <2> QED
      BY <2>3, <2>4
  <1>10. Y!ImageOnly \subseteq Y!Runways
    BY DEF Y!Runways
  <1> QED
    BY <1>7, <1>8, <1>9, <1>10 DEF LegalFor

(* A request for a known model, and what was sent of it. *)
SentLegally ==
  /\ request.model \in DOMAIN Y!Contract
  /\ \E T : sent \in Seq(T)
  /\ \A i \in DOMAIN sent : LegalFor(request.model, sent[i])

(* The conjuncts of SentIsLegal, one request at a time. *)
LEMMA LegalIsAll == SentLegally => Y!SentIsLegal
  <1> SUFFICES ASSUME SentLegally, NEW i \in DOMAIN sent
               PROVE  LET q == sent[i]
                          model == request.model
                          spec == Y!Contract[model]
                      IN /\ spec.allowlist = Y!All \/ DOMAIN q \subseteq spec.allowlist
                         /\ spec.required \subseteq DOMAIN q
                         /\ DOMAIN spec.aliases \cap DOMAIN q
                              \subseteq {spec.aliases[c] : c \in DOMAIN spec.aliases}
                         /\ \A k \in DOMAIN spec.schemas \cap DOMAIN q :
                              Y!Fits(spec.schemas[k],
                                     IF Y!Printed(model, k) THEN Y!Float(q[k].is) ELSE q[k])
                         /\ \A j \in DOMAIN spec.constraints :
                              LET c == spec.constraints[j]
                              IN c.key \in DOMAIN q =>
                                   /\ q[c.key].is \in c.of
                                   /\ q[c.key].as = IF c.converts /\ ~Y!Printed(model, c.key)
                                                    THEN "int" ELSE "str"
                         /\ model \in Y!ImageOnly => "prompt_image" \in DOMAIN q
                         /\ model \in Y!Runways =>
                              "prompt_image" \in DOMAIN q \/ q["ratio"].is \in Y!TextRatios
                         /\ model = "hume" => q["format"].is \in Y!HumeFormats
    BY Zenon DEF Y!SentIsLegal
  <1> DEFINE q == sent[i]
             m == request.model
             S == Y!Contract[m]
  <1>1. LegalFor(m, q)
    BY DEF SentLegally
  <1> HIDE DEF q, m
  <1>2. \A k \in DOMAIN q : NameIsLegal(m, k) /\ FitsOnWire(m, k, q[k]) /\ RightOnWire(m, k, q[k])
    BY <1>1 DEF LegalFor, ValueIsLegal
  <1>3. S.allowlist = Y!All \/ DOMAIN q \subseteq S.allowlist
    BY <1>2 DEF NameIsLegal
  <1>4. DOMAIN S.aliases \cap DOMAIN q \subseteq {S.aliases[c] : c \in DOMAIN S.aliases}
    BY <1>2 DEF NameIsLegal
  <1>5. \A k \in DOMAIN S.schemas \cap DOMAIN q :
          Y!Fits(S.schemas[k], IF Y!Printed(m, k) THEN Y!Float(q[k].is) ELSE q[k])
    BY <1>2 DEF FitsOnWire
  <1>6. \A j \in DOMAIN S.constraints :
          S.constraints[j].key \in DOMAIN q =>
            /\ q[S.constraints[j].key].is \in S.constraints[j].of
            /\ q[S.constraints[j].key].as =
                 IF S.constraints[j].converts /\ ~Y!Printed(m, S.constraints[j].key)
                 THEN "int" ELSE "str"
    BY <1>2 DEF RightOnWire
  <1> QED
    BY <1>1, <1>3, <1>4, <1>5, <1>6 DEF LegalFor, q, m

(* Nothing is sent at first. *)
LEMMA SentFirst == RequestsAreKnown /\ Y!Init => SentLegally
  <1> SUFFICES ASSUME RequestsAreKnown, Y!Init PROVE SentLegally
    OBVIOUS
  <1>1. request.model \in DOMAIN Y!Contract
    BY DEF RequestsAreKnown, Y!Init
  <1>2. sent \in Seq({}) /\ DOMAIN sent = {}
    BY DEF Y!Init
  <1> QED
    BY <1>1, <1>2 DEF SentLegally

(* One legal request more. *)
LEMMA SentStep == SentLegally /\ [Y!Next]_Y!vars => SentLegally'
  <1> SUFFICES ASSUME SentLegally, [Y!Next]_Y!vars PROVE SentLegally'
    OBVIOUS
  <1>1. CASE UNCHANGED <<request, sent>>
    BY <1>1 DEF SentLegally
  <1>2. CASE Y!Submit
    <2> DEFINE asked == Y!RequestOf(request.model, request.own, request.inputs, params)
    <2>1. CASE asked = {}
      BY <1>1, <1>2, <2>1 DEF Y!Submit, Y!Known
    <2>2. CASE asked # {}
      <3> DEFINE q == Y!The(asked)
                 m == request.model
      <3>1. q \in asked /\ sent' = Append(sent, q) /\ request' = request
        BY <1>2, <2>2 DEF Y!Submit, Y!Known, Y!The
      <3>2. PICK T : sent \in Seq(T)
        BY DEF SentLegally
      <3>3. m \in DOMAIN Y!Contract
        BY DEF SentLegally
      <3>4. LegalFor(m, q)
        BY <3>1, <3>3, RequestIsLegal
      <3> HIDE DEF q, asked
      <3>5. sent' \in Seq(T \cup {q})
        BY <3>1, <3>2
      <3>6. \A i \in DOMAIN sent' : sent'[i] = q \/ (i \in DOMAIN sent /\ sent'[i] = sent[i])
        BY <3>1, <3>2
      <3>7. \A i \in DOMAIN sent' : LegalFor(m, sent'[i])
        BY <3>4, <3>6 DEF SentLegally
      <3> QED
        BY <3>1, <3>3, <3>5, <3>7 DEF SentLegally
    <2> QED
      BY <2>1, <2>2
  <1> QED
    BY <1>1, <1>2 DEF Y!Next, Y!Foresee, Y!Lost, Y!Fetch, Y!vars

(* No request breaks the contract of its model, whatever the caller asks   *)
(* for, of whichever of the models, and however often it is asked again;   *)
(* and so of the provider, whatever else of it runs.                       *)
THEOREM RequestsAreLegal ==
  ASSUME RequestsAreKnown
  PROVE  /\ Y!Spec => []Y!SentIsLegal
         /\ MCSpec => []SentIsLegal
  <1>1. Y!Spec => []Y!SentIsLegal
    <2>1. SentLegally => Y!SentIsLegal
      BY LegalIsAll
    <2>2. Y!Init => SentLegally
      BY SentFirst, RequestsAreKnown
    <2>3. QED
      BY <2>1, <2>2, SentStep, PTL DEF Y!Spec
  <1>2. MCSpec => []SentIsLegal
    <2>1. MCInit => SentLegally
      BY SentFirst, RequestsAreKnown DEF MCInit
    <2>2. SentLegally /\ [MCNext]_all => SentLegally'
      <3> SUFFICES ASSUME SentLegally, [MCNext]_all PROVE SentLegally'
        OBVIOUS
      <3>1. [Y!Next]_Y!vars
        BY DEF MCNext, Stepping, all, payloadVars, Y!vars
      <3>2. QED
        BY <3>1, SentStep
    <2>3. SentLegally => SentIsLegal
      BY LegalIsAll DEF SentIsLegal
    <2>4. QED
      BY <2>1, <2>2, <2>3, PTL DEF MCSpec
  <1>3. QED
    BY <1>1, <1>2

-----------------------------------------------------------------------------
(* What is sent is what was wanted, for any requests.                      *)

(* What a transformer takes away or gives a new name. *)
Reshaped ==
  {"duration", "seconds", "resolution", "aspect_ratio", "size", "prompt", "negative_prompt",
   "text_prompts"}

(* What a contract must keep apart for a parameter to arrive: the names it *)
(* replaces, those it puts in their place, those its transformer works on, *)
(* those the inputs fill, and those it converts.                           *)
Apart(S) ==
  /\ \A c \in DOMAIN S.aliases : S.aliases[c] \notin DOMAIN S.aliases
  /\ \A c, d \in DOMAIN S.aliases : S.aliases[c] = S.aliases[d] => c = d
  /\ S.transformer \in {"none", "sora", "sdxl"}
  /\ S.transformer = "sora" => DOMAIN S.aliases = {}
  /\ S.transformer # "none" =>
       /\ DOMAIN S.defaults = {}
       /\ \A k \in Reshaped : ~Slot(S, k) /\ \A c \in DOMAIN S.aliases : k # c /\ k # S.aliases[c]
  /\ ~Slot(S, "size") /\ ~Slot(S, "text_prompts")
  /\ \A k : Slot(S, k) => /\ k \notin DOMAIN S.coercers
                          /\ \A j \in DOMAIN S.constraints : S.constraints[j].key # k
  /\ \A j \in DOMAIN S.constraints :
       S.constraints[j].converts => S.constraints[j].key \notin DOMAIN S.coercers

(* The ways in which a contract may convert. *)
Coercing(S) == \A k \in DOMAIN S.coercers : S.coercers[k] \in {"whole", "float", "bool", "str"}

(* Every contract of the connectors keeps them apart. *)
LEMMA ContractsAreApart == \A m \in DOMAIN Y!Contract : Apart(Y!Contract[m])
  <1> USE DEF Apart, Slot, Reshaped, Y!Permissive, Y!Nothing, Y!Dropped
  <1>1. Apart(Y!Veo) /\ Apart(Y!Imagen) /\ Apart(Y!Sora) /\ Apart(Y!Luma)
    <2>1. Apart(Y!Veo) /\ Apart(Y!Imagen)
      BY DEF Y!Veo, Y!Imagen, Y!OneOf
    <2>2. Apart(Y!Sora)
      BY DEF Y!Sora, Y!IntOf, Y!OneOf, Y!Images
    <2>3. Apart(Y!Luma)
      BY DEF Y!Luma, Y!Keyframes, Y!OneOf
    <2> QED
      BY <2>1, <2>2, <2>3
  <1>2. Apart(Y!RunwayOpen) /\ Apart(Y!RunwayTurbo)
    <2>1. Apart(Y!RunwayOpen)
      BY DEF Y!RunwayOpen, Y!Images
    <2>2. Apart(Y!RunwayTurbo)
      BY DEF Y!RunwayTurbo, Y!RunwayOpen, Y!OneOf, Y!IntOf, Y!Images
    <2> QED
      BY <2>1, <2>2
  <1>3. Apart(Y!Hume) /\ Apart(Y!Lmnt) /\ Apart(Y!FalAudio) /\ Apart(Y!OpenAITts)
        /\ Apart(Y!StableAudio) /\ Apart(Y!DecartVideo)
    <2>1. Apart(Y!Hume) /\ Apart(Y!Lmnt) /\ Apart(Y!FalAudio)
      BY DEF Y!Hume, Y!Lmnt, Y!Voiced, Y!FalAudio
    <2>2. Apart(Y!OpenAITts) /\ Apart(Y!StableAudio) /\ Apart(Y!DecartVideo)
      BY DEF Y!OpenAITts, Y!StableAudio, Y!DecartVideo
    <2> QED
      BY <2>1, <2>2
  <1>4. Apart(Y!FalMedia) /\ Apart(Y!Replicate)
    BY DEF Y!FalMedia, Y!Replicate, Y!ByMedia, Y!First
  <1>5. Apart(Y!Custom)
    BY DEF Y!Custom, Y!Images, Y!First
  <1>6. Apart(Y!NvidiaImage) /\ Apart(Y!NvidiaSdxl) /\ Apart(Y!NvidiaVideo)
    <2> USE DEF Y!Guidance
    <2>1. Apart(Y!NvidiaImage)
      BY DEF Y!NvidiaImage, Y!Images
    <2>2. Apart(Y!NvidiaSdxl)
      BY DEF Y!NvidiaSdxl, Y!NvidiaImage, Y!Images
    <2>3. Apart(Y!NvidiaVideo)
      BY DEF Y!NvidiaVideo, Y!First
    <2> QED
      BY <2>1, <2>2, <2>3
  <1>7. Apart(Y!GmiMusic) /\ Apart(Y!GmiTts) /\ Apart(Y!GmiClone) /\ Apart(Y!GmiEdit)
    <2> USE DEF Y!Surface
    <2>1. Apart(Y!GmiMusic) /\ Apart(Y!GmiTts)
      BY DEF Y!GmiMusic, Y!GmiTts
    <2>2. Apart(Y!GmiClone)
      BY DEF Y!GmiClone, Y!First
    <2>3. Apart(Y!GmiEdit)
      BY DEF Y!GmiEdit, Y!Images
    <2> QED
      BY <2>1, <2>2, <2>3
  <1>8. /\ Apart(Y!GmiVideo({"quality"}, <<"image">>))
        /\ Apart(Y!GmiVideo({"first_frame", "last_frame"}, <<"first_frame", "last_frame">>))
        /\ Apart(Y!GmiOpen)
    <2> USE DEF Y!Surface, Y!GmiVideo, Y!Guidance, Y!Images, Y!WholeSeconds
    <2>1. Apart(Y!GmiVideo({"quality"}, <<"image">>))
      OBVIOUS
    <2>2. Apart(Y!GmiVideo({"first_frame", "last_frame"}, <<"first_frame", "last_frame">>))
      OBVIOUS
    <2>3. Apart(Y!GmiOpen)
      BY DEF Y!GmiOpen
    <2> QED
      BY <2>1, <2>2, <2>3
  <1> HIDE DEF Apart
  <1>9. QED
    BY <1>1, <1>2, <1>3, <1>4, <1>5, <1>6, <1>7, <1>8 DEF Y!Contract

(* Only Sora's has Sora's transformer. *)
LEMMA OnlySora ==
  \A m \in DOMAIN Y!Contract : Y!Contract[m].transformer = "sora" <=> m = "sora"
  <1> USE DEF Y!Permissive
  <1>1. Y!Sora.transformer = "sora"
    BY DEF Y!Sora
  <1>2. Y!NvidiaSdxl.transformer = "sdxl"
    BY DEF Y!NvidiaSdxl
  <1>3. /\ Y!Veo.transformer = "none" /\ Y!Imagen.transformer = "none"
        /\ Y!Luma.transformer = "none" /\ Y!RunwayOpen.transformer = "none"
        /\ Y!RunwayTurbo.transformer = "none" /\ Y!Hume.transformer = "none"
        /\ Y!Lmnt.transformer = "none" /\ Y!FalAudio.transformer = "none"
        /\ Y!OpenAITts.transformer = "none" /\ Y!StableAudio.transformer = "none"
        /\ Y!DecartVideo.transformer = "none" /\ Y!FalMedia.transformer = "none"
        /\ Y!Replicate.transformer = "none" /\ Y!Custom.transformer = "none"
        /\ Y!NvidiaImage.transformer = "none" /\ Y!NvidiaVideo.transformer = "none"
    BY DEF Y!Veo, Y!Imagen, Y!Luma, Y!RunwayOpen, Y!RunwayTurbo, Y!Hume, Y!Lmnt, Y!FalAudio,
           Y!OpenAITts, Y!StableAudio, Y!DecartVideo, Y!FalMedia, Y!Replicate, Y!Custom,
           Y!NvidiaImage, Y!NvidiaVideo
  <1>4. \A more, slots : Y!GmiVideo(more, slots).transformer = "none"
    BY DEF Y!GmiVideo, Y!Surface
  <1>5. /\ Y!GmiMusic.transformer = "none" /\ Y!GmiTts.transformer = "none"
        /\ Y!GmiClone.transformer = "none" /\ Y!GmiEdit.transformer = "none"
    BY DEF Y!GmiMusic, Y!GmiTts, Y!GmiClone, Y!GmiEdit, Y!Surface
  <1>6. Y!GmiOpen.transformer = "none"
    BY <1>4 DEF Y!GmiOpen
  <1> QED
    BY <1>1, <1>2, <1>3, <1>4, <1>5, <1>6 DEF Y!Contract

(* Every contract of the connectors converts in one of them. *)
LEMMA ContractsCoerce == \A m \in DOMAIN Y!Contract : Coercing(Y!Contract[m])
  <1> USE DEF Coercing, Y!Permissive, Y!Nothing
  <1>1. Coercing(Y!Veo) /\ Coercing(Y!Imagen) /\ Coercing(Y!Sora) /\ Coercing(Y!Luma)
    BY DEF Y!Veo, Y!Imagen, Y!Sora, Y!Luma, Y!OneOf
  <1>2. /\ Coercing(Y!RunwayOpen) /\ Coercing(Y!RunwayTurbo) /\ Coercing(Y!Hume) /\ Coercing(Y!Lmnt)
        /\ Coercing(Y!FalAudio) /\ Coercing(Y!OpenAITts) /\ Coercing(Y!StableAudio)
        /\ Coercing(Y!DecartVideo) /\ Coercing(Y!FalMedia) /\ Coercing(Y!Replicate)
        /\ Coercing(Y!Custom) /\ Coercing(Y!NvidiaImage) /\ Coercing(Y!NvidiaSdxl)
        /\ Coercing(Y!NvidiaVideo)
    BY DEF Y!RunwayOpen, Y!RunwayTurbo, Y!Hume, Y!Lmnt, Y!FalAudio, Y!OpenAITts, Y!StableAudio,
           Y!DecartVideo, Y!FalMedia, Y!Replicate, Y!Custom, Y!NvidiaImage, Y!NvidiaSdxl,
           Y!NvidiaVideo
  <1>3. \A more, slots : Coercing(Y!GmiVideo(more, slots))
    BY DEF Y!GmiVideo, Y!Surface, Y!WholeSeconds
  <1>4. /\ Coercing(Y!GmiMusic) /\ Coercing(Y!GmiTts) /\ Coercing(Y!GmiClone) /\ Coercing(Y!GmiEdit)
    BY DEF Y!GmiMusic, Y!GmiTts, Y!GmiClone, Y!GmiEdit, Y!Surface
  <1>5. Coercing(Y!GmiOpen)
    <2>1. Y!GmiOpen.coercers = [duration |-> "whole"]
      BY DEF Y!GmiOpen, Y!GmiVideo, Y!Surface, Y!WholeSeconds
    <2> QED
      BY <2>1
  <1> HIDE DEF Coercing
  <1> QED
    BY <1>1, <1>2, <1>3, <1>4, <1>5 DEF Y!Contract

-----------------------------------------------------------------------------
(* What a caller set, under whichever spelling: at most one value. *)
Asked(S, p, k) ==
  IF k \in DOMAIN p /\ k \notin DOMAIN S.aliases THEN {p[k]}
  ELSE {p[c] : c \in {d \in DOMAIN S.aliases \cap DOMAIN p : S.aliases[d] = k}}

(* A parameter is there after the aliases if and only if it was asked for, *)
(* and says what was asked for.                                            *)
LEMMA AliasedIsAsked ==
  ASSUME NEW S, Apart(S), NEW p, NEW k
  PROVE  /\ k \in DOMAIN Y!Aliased(S, p) => Asked(S, p, k) = {Y!Aliased(S, p)[k]}
         /\ k \notin DOMAIN Y!Aliased(S, p) => Asked(S, p, k) = {}
  <1> DEFINE C == DOMAIN S.aliases \cap DOMAIN p
             natives == {S.aliases[c] : c \in C}
             aliased == Y!Aliased(S, p)
  <1>1. /\ DOMAIN aliased = (DOMAIN p \ C) \cup natives
        /\ \A x \in DOMAIN aliased :
             aliased[x] = IF x \in DOMAIN p THEN p[x] ELSE p[CHOOSE c \in C : S.aliases[c] = x]
    BY DEF Y!Aliased
  <1> HIDE DEF aliased
  <1>2. \A c, d \in DOMAIN S.aliases : S.aliases[c] = S.aliases[d] => c = d
    BY DEF Apart
  <1>3. \A c \in C : S.aliases[c] \notin DOMAIN S.aliases
    BY DEF Apart
  <1>4. CASE k \in DOMAIN p /\ k \notin DOMAIN S.aliases
    <2>1. k \in DOMAIN aliased /\ aliased[k] = p[k]
      BY <1>1, <1>4
    <2> QED
      BY <1>4, <2>1 DEF aliased, Asked
  <1>5. CASE k \in DOMAIN p /\ k \in DOMAIN S.aliases
    <2>1. k \notin DOMAIN aliased
      BY <1>1, <1>3, <1>5
    <2>2. {d \in C : S.aliases[d] = k} = {}
      BY <1>3, <1>5
    <2> QED
      BY <1>5, <2>1, <2>2 DEF aliased, Asked
  <1>6. CASE k \notin DOMAIN p
    <2>1. Asked(S, p, k) = {p[c] : c \in {d \in C : S.aliases[d] = k}}
      BY <1>6 DEF Asked
    <2>2. CASE k \in natives
      <3>1. PICK c \in C : S.aliases[c] = k
        BY <2>2
      <3>2. {d \in C : S.aliases[d] = k} = {c}
        BY <1>2, <3>1
      <3>3. (CHOOSE d \in C : S.aliases[d] = k) = c
        BY <1>2, <3>1
      <3>4. k \in DOMAIN aliased /\ aliased[k] = p[c]
        BY <1>1, <1>6, <2>2, <3>3
      <3>5. Asked(S, p, k) = {p[c]}
        BY <2>1, <3>2
      <3> QED
        BY <3>4, <3>5 DEF aliased
    <2>3. CASE k \notin natives
      <3>1. k \notin DOMAIN aliased
        BY <1>1, <1>6, <2>3
      <3>2. {d \in C : S.aliases[d] = k} = {}
        BY <2>3
      <3>3. Asked(S, p, k) = {}
        BY <2>1, <3>2
      <3> QED
        BY <3>1, <3>3 DEF aliased
    <2> QED
      BY <2>2, <2>3
  <1> QED
    BY <1>4, <1>5, <1>6

(* Sora's transformer: seconds for a duration, a size for a resolution.    *)
LEMMA SoraKeeps ==
  ASSUME NEW p
  PROVE  LET q == Y!SoraShape(p)
         IN /\ \A k \in DOMAIN q \cap DOMAIN p : q[k] = p[k]
            /\ \A k \in DOMAIN q \ DOMAIN p :
                 k = "size" \/ (k = "seconds" /\ "duration" \in DOMAIN p /\ q[k] = p["duration"])
            /\ \A k \in DOMAIN p \ DOMAIN q : k \in {"duration", "resolution", "aspect_ratio"}
            /\ "seconds" \in DOMAIN q <=> {"seconds", "duration"} \cap DOMAIN p # {}
  <1> DEFINE timing == [seconds |-> p["duration"]]
             timed == IF "duration" \in DOMAIN p /\ "seconds" \notin DOMAIN p
                      THEN Y!Over(Y!Without(p, {"duration"}), timing) ELSE p
             ratio == IF "aspect_ratio" \in DOMAIN p THEN p["aspect_ratio"].is ELSE "16:9"
             size == IF p["resolution"].is \in {"720p", "1080p"} /\ ratio \in DOMAIN Y!Sizes
                     THEN [size |-> Y!Str(Y!Sizes[ratio])] ELSE Y!Nothing
             kept == Y!Without(timed, {"resolution", "aspect_ratio"})
             sized == Y!Over(kept, size)
             q == Y!SoraShape(p)
  <1>1. q = IF "resolution" \in DOMAIN p /\ "size" \notin DOMAIN p THEN sized ELSE timed
    BY DEF Y!SoraShape
  <1>2. DOMAIN size \subseteq {"size"}
    BY DEF Y!Nothing
  <1>3. DOMAIN timing = {"seconds"} /\ timing["seconds"] = p["duration"]
    OBVIOUS
  <1> HIDE DEF size, timing, q
  <1> DEFINE untimed == Y!Without(p, {"duration"})
  <1>4. DOMAIN untimed = DOMAIN p \ {"duration"} /\ \A k \in DOMAIN untimed : untimed[k] = p[k]
    BY DEF Y!Without
  <1>5. timed = IF "duration" \in DOMAIN p /\ "seconds" \notin DOMAIN p
                THEN Y!Over(untimed, timing) ELSE p
    OBVIOUS
  <1> HIDE DEF untimed
  <1>6. /\ DOMAIN Y!Over(untimed, timing) = (DOMAIN p \ {"duration"}) \cup {"seconds"}
        /\ \A k \in DOMAIN p \ {"duration"} : Y!Over(untimed, timing)[k] = p[k]
        /\ "seconds" \notin DOMAIN p => Y!Over(untimed, timing)["seconds"] = p["duration"]
    BY <1>3, <1>4 DEF Y!Over
  <1> HIDE DEF timed
  <1>7. /\ \A k \in DOMAIN timed \cap DOMAIN p : timed[k] = p[k]
        /\ \A k \in DOMAIN timed \ DOMAIN p :
             k = "seconds" /\ "duration" \in DOMAIN p /\ timed[k] = p["duration"]
        /\ \A k \in DOMAIN p \ DOMAIN timed : k = "duration"
        /\ "seconds" \in DOMAIN timed <=> {"seconds", "duration"} \cap DOMAIN p # {}
    <2>1. CASE "duration" \in DOMAIN p /\ "seconds" \notin DOMAIN p
      BY <1>5, <1>6, <2>1
    <2>2. CASE ~("duration" \in DOMAIN p /\ "seconds" \notin DOMAIN p)
      BY <1>5, <2>2
    <2> QED
      BY <2>1, <2>2
  <1>8. /\ DOMAIN kept = DOMAIN timed \ {"resolution", "aspect_ratio"}
        /\ \A k \in DOMAIN kept : kept[k] = timed[k]
    BY WithoutNames, WithoutSays
  <1> HIDE DEF kept
  <1>9. /\ DOMAIN sized = DOMAIN kept \cup DOMAIN size
        /\ \A k \in DOMAIN kept : sized[k] = kept[k]
    BY OverNames, OverSays
  <1> HIDE DEF sized
  <1>10. CASE "resolution" \in DOMAIN p /\ "size" \notin DOMAIN p
    <2>1. q = sized
      BY <1>1, <1>10
    <2>2. /\ \A k \in DOMAIN q \cap DOMAIN p : q[k] = p[k]
          /\ \A k \in DOMAIN q \ DOMAIN p :
                 k = "size" \/ (k = "seconds" /\ "duration" \in DOMAIN p /\ q[k] = p["duration"])
      BY <1>2, <1>7, <1>8, <1>9, <1>10, <2>1
    <2>3. /\ \A k \in DOMAIN p \ DOMAIN q : k \in {"duration", "resolution", "aspect_ratio"}
          /\ "seconds" \in DOMAIN q <=> {"seconds", "duration"} \cap DOMAIN p # {}
      BY <1>2, <1>7, <1>8, <1>9, <1>10, <2>1
    <2> QED
      BY <2>2, <2>3 DEF q
  <1>11. CASE ~("resolution" \in DOMAIN p /\ "size" \notin DOMAIN p)
    <2>1. q = timed
      BY <1>1, <1>11
    <2> QED
      BY <1>7, <2>1 DEF q
  <1> QED
    BY <1>10, <1>11

(* SDXL's: one list for the prompts. *)
LEMMA SdxlKeeps ==
  ASSUME NEW p
  PROVE  LET q == Y!SdxlShape(p)
         IN /\ \A k \in DOMAIN q \cap DOMAIN p : q[k] = p[k]
            /\ \A k \in DOMAIN q \ DOMAIN p : k = "text_prompts"
            /\ \A k \in DOMAIN p \ DOMAIN q : k \in {"prompt", "negative_prompt"}
  <1> DEFINE prompts == [i \in {n \in {"prompt", "negative_prompt"} : n \in DOMAIN p} |-> p[i]]
             list == SelectSeq(<<"prompt", "negative_prompt">>, LAMBDA n : n \in DOMAIN prompts)
             all2 == [text_prompts |-> Y!Nested("list", [i \in DOMAIN list |-> prompts[list[i]]])]
             rest == Y!Without(p, DOMAIN prompts)
             shaped == Y!Over(rest, all2)
             q == Y!SdxlShape(p)
  <1>1. DOMAIN all2 = {"text_prompts"}
    OBVIOUS
  <1>2. DOMAIN prompts \subseteq {"prompt", "negative_prompt"}
    OBVIOUS
  <1> HIDE DEF prompts, all2, q
  <1>3. q = IF list = <<>> THEN p ELSE shaped
    BY Zenon DEF Y!SdxlShape, prompts, all2, q
  <1>4. DOMAIN rest = DOMAIN p \ DOMAIN prompts /\ \A k \in DOMAIN rest : rest[k] = p[k]
    BY DEF Y!Without
  <1> HIDE DEF rest
  <1>5. DOMAIN shaped = DOMAIN rest \cup DOMAIN all2 /\ \A k \in DOMAIN rest : shaped[k] = rest[k]
    BY OverNames, OverSays
  <1>6. \A k \in DOMAIN all2 \ DOMAIN rest : k \in DOMAIN p => k \in DOMAIN prompts
    BY <1>4
  <1> HIDE DEF shaped, list
  <1> QED
    BY <1>1, <1>2, <1>3, <1>4, <1>5, <1>6 DEF q

(* A wish is what was asked for; for Sora's seconds, under either name.    *)
LEMMA WishIsAsked ==
  ASSUME NEW m \in DOMAIN Y!Contract, NEW p, NEW k, ~(m = "sora" /\ k = "seconds")
  PROVE  Y!Wish(m, p, k) = Asked(Y!Contract[m], p, k)
  <1> DEFINE S == Y!Contract[m]
             old == {c \in DOMAIN S.aliases : S.aliases[c] = k}
             new == IF k \in DOMAIN S.aliases THEN {} ELSE {<<k, 1>>}
             used == {s \in Y!Spellings(m, k) : s[1] \in DOMAIN p}
             best == {u \in used : \A v \in used : u[2] <= v[2]}
  <1>1. Apart(S)
    BY ContractsAreApart
  <1> HIDE DEF S
  <1>2. Y!Spellings(m, k) = new \cup {<<c, 2>> : c \in old}
    <2>1. (IF m = "sora" /\ k = "seconds" THEN {<<"duration", 2>>} ELSE {}) = {}
      OBVIOUS
    <2> QED
      BY <2>1 DEF Y!Spellings, S
  <1>3. Y!Wish(m, p, k) = {p[s[1]] : s \in best}
    BY DEF Y!Wish
  <1>4. used = {s \in new : s[1] \in DOMAIN p} \cup {<<c, 2>> : c \in {d \in old : d \in DOMAIN p}}
    BY <1>2
  <1>5. CASE k \in DOMAIN p /\ k \notin DOMAIN S.aliases
    <2>1. <<k, 1>> \in used /\ \A s \in used : s = <<k, 1>> \/ s[2] = 2
      BY <1>4, <1>5
    <2>2. best = {<<k, 1>>}
      <3>1. <<k, 1>> \in best
        BY <2>1
      <3>2. ASSUME NEW s \in best PROVE s = <<k, 1>>
        <4>1. s[2] <= 1 /\ s \in used
          BY <2>1
        <4> QED
          BY <2>1, <4>1
      <3> QED
        BY <3>1, <3>2
    <2>3. {p[s[1]] : s \in {<<k, 1>>}} = {p[k]}
      OBVIOUS
    <2>4. Asked(S, p, k) = {p[k]}
      BY <1>5 DEF Asked
    <2> HIDE DEF best
    <2> QED
      BY <1>3, <2>2, <2>3, <2>4 DEF S
  <1>6. CASE ~(k \in DOMAIN p /\ k \notin DOMAIN S.aliases)
    <2> DEFINE mine == {d \in DOMAIN S.aliases \cap DOMAIN p : S.aliases[d] = k}
    <2>1. used = {<<c, 2>> : c \in mine}
      <3>1. {s \in new : s[1] \in DOMAIN p} = {}
        BY <1>6
      <3>2. {d \in old : d \in DOMAIN p} = mine
        OBVIOUS
      <3> QED
        BY <1>4, <3>1, <3>2
    <2>2. best = used
      <3>1. \A u \in used : u[2] = 2
        BY <2>1
      <3> QED
        BY <3>1
    <2>3. Asked(S, p, k) = {p[c] : c \in mine}
      BY <1>6 DEF Asked
    <2> HIDE DEF best, used, mine
    <2>4. \A x : x \in {p[s[1]] : s \in used} <=> x \in {p[c] : c \in mine}
      <3>1. ASSUME NEW c \in mine PROVE \E s \in used : p[s[1]] = p[c]
        <4>1. <<c, 2>> \in used /\ <<c, 2>>[1] = c
          BY <2>1
        <4> QED
          BY <4>1
      <3>2. ASSUME NEW s \in used PROVE \E c \in mine : p[s[1]] = p[c]
        <4>1. PICK c \in mine : s = <<c, 2>>
          BY <2>1
        <4>2. s[1] = c
          BY <4>1
        <4> QED
          BY <4>2
      <3> QED
        BY <3>1, <3>2
    <2> QED
      BY <1>3, <2>2, <2>3, <2>4 DEF S
  <1> QED
    BY <1>5, <1>6

(* And Sora's seconds. *)
LEMMA SecondsWished ==
  ASSUME NEW p, DOMAIN Y!Contract["sora"].aliases = {}
  PROVE  Y!Wish("sora", p, "seconds") =
           IF "seconds" \in DOMAIN p THEN {p["seconds"]}
           ELSE IF "duration" \in DOMAIN p THEN {p["duration"]} ELSE {}
  <1> DEFINE used == {s \in Y!Spellings("sora", "seconds") : s[1] \in DOMAIN p}
             best == {u \in used : \A v \in used : u[2] <= v[2]}
  <1>1. Y!Spellings("sora", "seconds") = {<<"seconds", 1>>, <<"duration", 2>>}
    BY DEF Y!Spellings
  <1>2. Y!Wish("sora", p, "seconds") = {p[s[1]] : s \in best}
    BY DEF Y!Wish
  <1>3. \A s \in used : (s = <<"seconds", 1>> /\ "seconds" \in DOMAIN p)
                         \/ (s = <<"duration", 2>> /\ "duration" \in DOMAIN p)
    BY <1>1
  <1>4. CASE "seconds" \in DOMAIN p
    <2>1. <<"seconds", 1>> \in used
      BY <1>1, <1>4
    <2>2. best = {<<"seconds", 1>>}
      BY <1>3, <2>1
    <2>3. {p[s[1]] : s \in {<<"seconds", 1>>}} = {p["seconds"]}
      OBVIOUS
    <2> HIDE DEF best
    <2> QED
      BY <1>2, <1>4, <2>2, <2>3
  <1>5. CASE "seconds" \notin DOMAIN p /\ "duration" \in DOMAIN p
    <2>1. used = {<<"duration", 2>>}
      BY <1>1, <1>5
    <2>2. best = {<<"duration", 2>>}
      BY <2>1
    <2>3. {p[s[1]] : s \in {<<"duration", 2>>}} = {p["duration"]}
      OBVIOUS
    <2> HIDE DEF best
    <2> QED
      BY <1>2, <1>5, <2>2, <2>3
  <1>6. CASE "seconds" \notin DOMAIN p /\ "duration" \notin DOMAIN p
    <2>1. best = {}
      BY <1>1, <1>6
    <2> QED
      BY <1>2, <1>6, <2>1
  <1> QED
    BY <1>4, <1>5, <1>6

(* After the aliases and the transformer every parameter is what was       *)
(* wished for, but for what a transformer adds; and no wish is gone but    *)
(* for what it takes away.                                                 *)
LEMMA ShapedIsWished ==
  ASSUME NEW m \in DOMAIN Y!Contract, NEW p, NEW k
  PROVE  LET S == Y!Contract[m]
             q == Y!Transformed(S, Y!Aliased(S, p))
         IN /\ k \in DOMAIN q => \/ Y!Wish(m, p, k) = {q[k]}
                                 \/ Y!Wish(m, p, k) = {} /\ k \in {"size", "text_prompts"}
            /\ k \notin DOMAIN q => \/ Y!Wish(m, p, k) = {}
                                    \/ S.transformer # "none" /\ k \in Reshaped
  <1> DEFINE S == Y!Contract[m]
             a == Y!Aliased(S, p)
             q == Y!Transformed(S, a)
             wish == Y!Wish(m, p, k)
  <1>1. Apart(S) /\ (S.transformer = "sora" <=> m = "sora")
    BY ContractsAreApart, OnlySora
  <1>2. /\ k \in DOMAIN a => Asked(S, p, k) = {a[k]}
        /\ k \notin DOMAIN a => Asked(S, p, k) = {}
    BY <1>1, AliasedIsAsked
  <1>3. ~(m = "sora" /\ k = "seconds") => wish = Asked(S, p, k)
    BY WishIsAsked
  <1> HIDE DEF S, wish, a
  <1>4. CASE S.transformer = "none"
    <2>1. q = a
      BY <1>4 DEF Y!Transformed
    <2>2. m # "sora"
      BY <1>1, <1>4
    <2> QED
      BY <1>2, <1>3, <2>1, <2>2 DEF S, a, wish
  <1>5. CASE S.transformer = "sora"
    <2>1. q = Y!SoraShape(a) /\ m = "sora"
      BY <1>1, <1>5 DEF Y!Transformed
    <2>2. DOMAIN S.aliases = {}
      BY <1>1, <1>5 DEF Apart
    <2>3. DOMAIN a = DOMAIN p /\ \A x \in DOMAIN a : a[x] = p[x]
      BY <2>2 DEF a, Y!Aliased
    <2> HIDE DEF q
    <2>4. /\ \A x \in DOMAIN q \cap DOMAIN a : q[x] = a[x]
          /\ \A x \in DOMAIN q \ DOMAIN a :
               x = "size" \/ (x = "seconds" /\ "duration" \in DOMAIN a /\ q[x] = a["duration"])
          /\ \A x \in DOMAIN a \ DOMAIN q : x \in {"duration", "resolution", "aspect_ratio"}
          /\ "seconds" \in DOMAIN q <=> {"seconds", "duration"} \cap DOMAIN a # {}
      BY <2>1, SoraKeeps
    <2>5. CASE k = "seconds"
      <3>1. wish = IF "seconds" \in DOMAIN p THEN {p["seconds"]}
                   ELSE IF "duration" \in DOMAIN p THEN {p["duration"]} ELSE {}
        BY <2>1, <2>2, <2>5, SecondsWished DEF S, wish
      <3>2. CASE "seconds" \in DOMAIN p
        BY <2>3, <2>4, <2>5, <3>1, <3>2 DEF S, a, q, wish
      <3>3. CASE "seconds" \notin DOMAIN p
        <4>1. CASE "duration" \in DOMAIN p
          BY <2>3, <2>4, <2>5, <3>1, <3>3, <4>1 DEF S, a, q, wish
        <4>2. CASE "duration" \notin DOMAIN p
          BY <2>3, <2>4, <2>5, <3>1, <3>3, <4>2 DEF S, a, q, wish
        <4> QED
          BY <4>1, <4>2
      <3> QED
        BY <3>2, <3>3
    <2>6. CASE k # "seconds"
      <3>1. k \in DOMAIN q => wish = {q[k]} \/ (wish = {} /\ k = "size")
        BY <1>2, <1>3, <2>4, <2>6
      <3>2. k \notin DOMAIN q => wish = {} \/ k \in {"duration", "resolution", "aspect_ratio"}
        BY <1>2, <1>3, <2>4, <2>6
      <3> QED
        BY <1>5, <3>1, <3>2 DEF S, a, q, wish, Reshaped
    <2> QED
      BY <2>5, <2>6
  <1>6. CASE S.transformer = "sdxl"
    <2>1. q = Y!SdxlShape(a) /\ m # "sora"
      BY <1>1, <1>6 DEF Y!Transformed
    <2> HIDE DEF q
    <2>2. /\ \A x \in DOMAIN q \cap DOMAIN a : q[x] = a[x]
          /\ \A x \in DOMAIN q \ DOMAIN a : x = "text_prompts"
          /\ \A x \in DOMAIN a \ DOMAIN q : x \in {"prompt", "negative_prompt"}
      BY <2>1, SdxlKeeps
    <2>3. k \in DOMAIN q => wish = {q[k]} \/ (wish = {} /\ k = "text_prompts")
      BY <1>2, <1>3, <2>1, <2>2
    <2>4. k \notin DOMAIN q => wish = {} \/ k \in {"prompt", "negative_prompt"}
      BY <1>2, <1>3, <2>1, <2>2
    <2> QED
      BY <1>6, <2>3, <2>4 DEF S, a, q, wish, Reshaped
  <1> QED
    BY <1>1, <1>4, <1>5, <1>6 DEF Apart

-----------------------------------------------------------------------------
(* A coercer changes the type of a value and not what it says. *)
LEMMA ConvertedMeans ==
  ASSUME NEW v, NEW name \in {"whole", "float", "bool", "str"}
  PROVE  Y!Means(v, Y!Converted(name, v))
  <1> DEFINE w == Y!Converted(name, v)
  <1>1. \A x, y : Y!Value(x, y).is = y /\ Y!Value(x, y).as = x
    BY DEF Y!Value
  <1>2. CASE name = "whole"
    <2>1. w \in {Y!Int(v.is), v}
      BY <1>2 DEF Y!Converted
    <2>2. w.is = v.is
      BY <1>1, <2>1 DEF Y!Int
    <2> QED
      BY <2>2 DEF Y!Means
  <1>3. CASE name = "float"
    <2>1. w = Y!Float(v.is)
      BY <1>3 DEF Y!Converted
    <2>2. w.is = v.is
      BY <1>1, <2>1 DEF Y!Float
    <2> QED
      BY <2>2 DEF Y!Means
  <1>4. CASE name = "bool"
    <2>1. \E b : w = Y!Bool(b)
      BY <1>4 DEF Y!Converted
    <2>2. w.as = "bool"
      BY <1>1, <2>1 DEF Y!Bool
    <2> QED
      BY <1>4, <2>2 DEF Y!Means
  <1>5. CASE name = "str"
    BY <1>5, PrintedSays DEF Y!Means
  <1> QED
    BY <1>2, <1>3, <1>4, <1>5

(* A name that a contract neither converts nor constrains. *)
Untouched(S, k) ==
  /\ k \notin DOMAIN S.coercers
  /\ \A j \in DOMAIN S.constraints : S.constraints[j].key # k

(* What the transformer left means what it said, what the inputs give goes *)
(* where they leave a place, and then come the defaults.                   *)
LEMMA PayloadMeans ==
  ASSUME NEW S, Apart(S), Coercing(S), NEW inputs, NEW p, NEW q \in Y!PayloadOf(S, inputs, p), NEW k
  PROVE  LET shaped == Y!Transformed(S, Y!Aliased(S, p))
             chain == Y!Chain(S, inputs)
         IN /\ k \in DOMAIN q /\ k \in DOMAIN shaped => Y!Means(shaped[k], q[k])
            /\ k \in DOMAIN q /\ k \in DOMAIN chain \ DOMAIN shaped => Y!Means(chain[k], q[k])
            /\ k \in DOMAIN q => k \in DOMAIN shaped \cup DOMAIN chain \cup DOMAIN S.defaults
            /\ k \in DOMAIN shaped \cup DOMAIN chain =>
                 k \in DOMAIN q \/ (S.allowlist # Y!All /\ k \notin S.allowlist)
            /\ k \in DOMAIN q /\ k \in DOMAIN shaped /\ Untouched(S, k) => q[k] = shaped[k]
  <1> DEFINE shaped == Y!Transformed(S, Y!Aliased(S, p))
             chain == Y!Chain(S, inputs)
             routed == Y!WithInputs(S, inputs, shaped)
             coerced == Y!Coerced(S, routed)
             full == Y!Defaulted(S, coerced)
             checked == Y!Checked(S, full)
  <1>1. /\ q = Y!Allowed(S, checked)
        /\ Y!ConstraintsHold(S, full)
    BY Zenon DEF Y!PayloadOf
  <1>2. k \in DOMAIN chain => Slot(S, k)
    BY ChainNames
  <1>3. routed = Y!Over(shaped, chain)
    BY DEF Y!WithInputs
  <1>4. full = Y!Over(coerced, S.defaults)
    BY DEF Y!Defaulted
  <1>5. /\ DOMAIN coerced = DOMAIN routed
        /\ \A x \in DOMAIN routed :
             coerced[x] = IF x \in DOMAIN S.coercers /\ Y!Convertible(S.coercers[x], routed[x])
                          THEN Y!Converted(S.coercers[x], routed[x]) ELSE routed[x]
    BY DEF Y!Coerced
  <1>6. /\ DOMAIN checked = DOMAIN full
        /\ \A x \in DOMAIN full :
             checked[x] = IF \E i \in DOMAIN S.constraints :
                               S.constraints[i].key = x /\ S.constraints[i].converts
                          THEN Y!The(Y!AsInt(full[x])) ELSE full[x]
    BY DEF Y!Checked
  <1> HIDE DEF shaped, chain, routed, coerced, full, checked
  <1>7. /\ DOMAIN q \subseteq DOMAIN full
        /\ S.allowlist = Y!All => DOMAIN q = DOMAIN full
        /\ S.allowlist # Y!All => DOMAIN q = DOMAIN full \cap S.allowlist
        /\ \A x \in DOMAIN q : q[x] = checked[x]
    BY <1>1, <1>6 DEF Y!Allowed, Y!Without
  <1>8. /\ DOMAIN routed = DOMAIN shaped \cup DOMAIN chain
        /\ k \in DOMAIN shaped => routed[k] = shaped[k]
        /\ k \in DOMAIN chain \ DOMAIN shaped => routed[k] = chain[k]
    <2>1. DOMAIN routed = DOMAIN shaped \cup DOMAIN chain
      BY <1>3, OverNames
    <2>2. k \in DOMAIN shaped \cup DOMAIN chain =>
            routed[k] = IF k \in DOMAIN shaped THEN shaped[k] ELSE chain[k]
      BY <1>3, OverSays
    <2> QED
      BY <2>1, <2>2
  <1>9. /\ DOMAIN full = DOMAIN routed \cup DOMAIN S.defaults
        /\ k \in DOMAIN routed => full[k] = coerced[k]
    <2>1. DOMAIN full = DOMAIN coerced \cup DOMAIN S.defaults
      BY <1>4, OverNames
    <2>2. k \in DOMAIN coerced => full[k] = coerced[k]
      BY <1>4, OverSays
    <2> QED
      BY <1>5, <2>1, <2>2
  <1>10. ASSUME k \in DOMAIN q, k \in DOMAIN routed PROVE Y!Means(routed[k], q[k])
    <2>1. q[k] = checked[k] /\ k \in DOMAIN full
      BY <1>7, <1>10
    <2>2. CASE \E i \in DOMAIN S.constraints :
                 S.constraints[i].key = k /\ S.constraints[i].converts
      <3>1. PICK i \in DOMAIN S.constraints : S.constraints[i].key = k /\ S.constraints[i].converts
        BY <2>2
      <3>2. full[k] = routed[k]
        BY <1>5, <1>9, <1>10, <3>1 DEF Apart
      <3>3. Y!Meets(S.constraints[i], full)
        BY <1>1 DEF Y!ConstraintsHold
      <3>4. PICK n \in Y!AsInt(full[k]) : TRUE
        BY <2>1, <3>1, <3>3 DEF Y!Meets
      <3>5. q[k] = Y!The(Y!AsInt(full[k]))
        BY <1>6, <2>1, <2>2
      <3>6. q[k] = n
        BY <3>4, <3>5, AsIntIsOne
      <3> QED
        BY <3>2, <3>4, <3>6 DEF Y!Means
    <2>3. CASE ~ \E i \in DOMAIN S.constraints :
                 S.constraints[i].key = k /\ S.constraints[i].converts
      <3>1. q[k] = full[k] /\ full[k] = coerced[k]
        BY <1>6, <1>9, <1>10, <2>1, <2>3
      <3>2. CASE coerced[k] = routed[k]
        BY <3>1, <3>2 DEF Y!Means
      <3>3. CASE coerced[k] # routed[k]
        <4>1. k \in DOMAIN S.coercers /\ q[k] = Y!Converted(S.coercers[k], routed[k])
          BY <1>5, <1>10, <3>1, <3>3
        <4> QED
          BY <4>1, ConvertedMeans DEF Coercing
      <3> QED
        BY <3>2, <3>3
    <2> QED
      BY <2>2, <2>3
  <1>11. ASSUME k \in DOMAIN q, k \in DOMAIN shaped, Untouched(S, k) PROVE q[k] = shaped[k]
    <2>1. q[k] = checked[k] /\ k \in DOMAIN full /\ routed[k] = shaped[k] /\ k \in DOMAIN routed
      BY <1>7, <1>8, <1>11
    <2>2. checked[k] = full[k]
      BY <1>6, <1>11, <2>1 DEF Untouched
    <2>3. full[k] = routed[k]
      BY <1>5, <1>9, <1>11, <2>1 DEF Untouched
    <2> QED
      BY <2>1, <2>2, <2>3
  <1> QED
    BY <1>7, <1>8, <1>9, <1>10, <1>11 DEF shaped, chain

(* What a connector converts comes from the caller alone, and what it does *)
(* not send as text, its contract leaves as it is.                         *)
LEMMA WiredAreFree ==
  \A m, k : Y!Wired(m, k) =>
    /\ m \in DOMAIN Y!Contract /\ ~Slot(Y!Contract[m], k)
    /\ Y!Wires[m][k] \in {"int", "bool"} => Untouched(Y!Contract[m], k)
  <1> TAKE m, k
  <1> SUFFICES ASSUME Y!Wired(m, k)
               PROVE  /\ m \in DOMAIN Y!Contract /\ ~Slot(Y!Contract[m], k)
                      /\ Y!Wires[m][k] \in {"int", "bool"} => Untouched(Y!Contract[m], k)
    OBVIOUS
  <1>1. /\ Y!Contract["sora"] = Y!Sora /\ Y!Contract["veo"] = Y!Veo
        /\ Y!Contract["imagen"] = Y!Imagen /\ Y!Contract["stable_audio"] = Y!StableAudio
        /\ {"sora", "veo", "imagen", "stable_audio"} \subseteq DOMAIN Y!Contract
    BY DEF Y!Contract
  <1>2. /\ Y!Veo.routes = <<>> /\ Y!Imagen.routes = <<>> /\ Y!StableAudio.routes = <<>>
        /\ Y!Sora.routes = <<Y!Images(<<"image">>, Y!Dropped)>>
    BY DEF Y!Veo, Y!Imagen, Y!StableAudio, Y!Sora, Y!Permissive
  <1>3. ~Slot(Y!Sora, "seconds")
    BY <1>2 DEF Slot, Y!Images, Y!Dropped
  <1>4. \A x : ~Slot(Y!Veo, x) /\ ~Slot(Y!Imagen, x) /\ ~Slot(Y!StableAudio, x)
    BY <1>2 DEF Slot
  <1>5. /\ DOMAIN Y!Veo.coercers = {"duration_seconds"} /\ DOMAIN Y!Imagen.coercers = {}
    BY DEF Y!Veo, Y!Imagen, Y!Permissive, Y!Nothing
  <1>6. /\ Untouched(Y!Veo, "number_of_videos") /\ Untouched(Y!Veo, "enhance_prompt")
        /\ Untouched(Y!Imagen, "number_of_images")
    BY <1>1, <1>5, WiredContracts DEF Untouched
  <1> QED
    BY <1>1, <1>3, <1>4, <1>6, WiresAre

(* What meant the wish in the payload means it when it is sent. *)
LEMMA WireMeans ==
  ASSUME NEW m \in DOMAIN Y!Contract, NEW payload, Legal(Y!Contract[m], payload),
         Y!Acceptable(m, payload), NEW k \in DOMAIN payload, Y!Wired(m, k), NEW v,
         Y!Means(v, payload[k]), Untouched(Y!Contract[m], k) => payload[k] = v
  PROVE  Y!Means(v, Y!Converted(Y!Wires[m][k], payload[k]))
  <1> DEFINE u == payload[k]
             name == Y!Wires[m][k]
             w == Y!Converted(name, u)
  <1>1. CASE name = "str"
    <2>1. w.is = u.is
      BY <1>1, PrintedSays
    <2>2. u.as # "bool"
      <3>1. CASE m = "sora" /\ k = "seconds"
        <4>1. Y!Contract[m].constraints = <<Y!IntOf("seconds", {"4", "8", "12"}),
             Y!OneOf("size", {"720x1280", "1280x720", "1024x1792", "1792x1024"})>>
          <5>1. Y!Contract["sora"] = Y!Sora
            BY DEF Y!Contract
          <5> QED
            BY <3>1, <5>1 DEF Y!Sora
        <4>2. Right(Y!Contract[m].constraints[1], payload)
          BY <4>1 DEF Legal, Constrained
        <4>3. Y!Contract[m].constraints[1] = Y!IntOf("seconds", {"4", "8", "12"})
          BY <4>1
        <4> QED
          BY <3>1, <4>2, <4>3 DEF Right, Y!IntOf
      <3>2. CASE m = "stable_audio" /\ k = "duration"
        <4>1. Y!Fits(Y!Contract[m].schemas[k], u) /\ Y!Contract[m].schemas[k].schema = "float"
          <5>1. k \in DOMAIN Y!Contract[m].schemas
            BY <3>2, FilledContracts
          <5>2. Y!Contract[m].schemas[k].schema = "float"
            BY <3>2, WiredContracts
          <5>3. \A x \in DOMAIN Y!Contract[m].schemas \cap DOMAIN payload :
                  Y!Fits(Y!Contract[m].schemas[x], payload[x])
            BY DEF Legal, Y!SchemasHold
          <5> QED
            BY <5>1, <5>2, <5>3
        <4> QED
          BY <4>1 DEF Y!Fits
      <3> QED
        BY <1>1, <3>1, <3>2, WiresAre
    <2> QED
      BY <2>1, <2>2 DEF Y!Means
  <1>2. CASE name = "int"
    <2>1. u = v /\ Y!Convertible(name, u)
      BY <1>2, WiredAreFree DEF Y!Acceptable
    <2>2. Y!AsInt(v) # {} /\ w = Y!The(Y!AsInt(v))
      BY <1>2, <2>1 DEF Y!Convertible, Y!Converted
    <2>3. w \in Y!AsInt(v)
      BY <2>2 DEF Y!The
    <2> QED
      BY <2>3 DEF Y!Means
  <1>3. CASE name = "bool"
    <2>1. u = v
      BY <1>3, WiredAreFree
    <2> QED
      BY <1>3, <2>1, ConvertedMeans
  <1> QED
    BY <1>1, <1>2, <1>3, WiresAre

(* What the caller of p asked for is what q, sent to m, says: SentIsWanted, *)
(* of one request.                                                         *)
WantedFor(m, own, inputs, p, q) ==
  LET S == Y!Contract[m]
      chain == Y!Chain(S, inputs)
      fill == Y!Fill(m, own, inputs, q)
      wished == {k \in DOMAIN q : Y!Passed(m, k) /\ Y!Known(Y!Wish(m, p, k))}
  IN /\ \A k \in wished : Y!Means(Y!The(Y!Wish(m, p, k)), q[k])
     /\ \A k \in (DOMAIN q \cap DOMAIN chain) \ wished : Y!Means(chain[k], q[k])
     /\ \A k \in DOMAIN q \ (wished \cup DOMAIN chain) :
          k \in DOMAIN S.defaults \cup {"size", "text_prompts"} \cup DOMAIN fill
     /\ \A k \in DOMAIN p \ DOMAIN S.aliases :
          \/ k \in DOMAIN q
          \/ S.transformer # "none"
          \/ ~ Y!Passed(m, k)
          \/ S.allowlist # Y!All /\ k \notin S.allowlist
     /\ \A k \in DOMAIN chain : k \in DOMAIN q \/ ~ Y!Passed(m, k) \/ k \notin S.allowlist
     /\ "seed" \in DOMAIN fill => q["seed"].is = own["seed"].is

(* The connectors that add something let every name through, and add only  *)
(* what they would forward, but for the seed and the first of the inputs;  *)
(* those that add these have no inputs of their own.                       *)
LEMMA FillersAreOpen ==
  \A m, own, inputs, p : \A k \in DOMAIN Y!Fill(m, own, inputs, p) :
    /\ Y!Contract[m].transformer = "none" /\ Y!Contract[m].allowlist = Y!All
    /\ \/ Y!Passed(m, k)
       \/ k \in {"seed", "data"} /\ \A x : ~Slot(Y!Contract[m], x)
    /\ k = "seed" => ~Y!Passed(m, k) /\ Y!Fill(m, own, inputs, p)[k].is = own[k].is
    /\ k # "prompt_image"
  <1> TAKE m, own, inputs, p
  <1> DEFINE fill == Y!Fill(m, own, inputs, p)
  <1> TAKE k \in DOMAIN fill
  <1>1. Added(m, own, p, fill)
    BY FillIs
  <1> HIDE DEF fill
  <1>2. /\ Y!Sora.transformer = "sora"
        /\ \A S \in {Y!RunwayOpen, Y!RunwayTurbo, Y!Veo, Y!DecartVideo, Y!StableAudio, Y!OpenAITts,
                     Y!Lmnt, Y!Hume} : S.transformer = "none" /\ S.allowlist = Y!All
        /\ \A S \in {Y!Veo, Y!DecartVideo, Y!StableAudio} : S.routes = <<>>
    BY DEF Y!RunwayOpen, Y!RunwayTurbo, Y!Veo, Y!DecartVideo, Y!StableAudio, Y!OpenAITts, Y!Lmnt,
           Y!Hume, Y!Permissive, Y!Sora
  <1>3. m \in Y!Runways \cup {"veo", "decart", "stable_audio", "openai_tts", "lmnt", "hume"}
    BY <1>1 DEF Added
  <1>4. CASE m \in Y!Runways
    <2>1. Y!Contract[m] \in {Y!RunwayOpen, Y!RunwayTurbo}
      BY <1>4 DEF Y!Runways, Y!ImageOnly, Y!Contract
    <2>2. k \in {"ratio", "duration"}
      BY <1>1, <1>4 DEF Added
    <2>3. Y!Passed(m, k)
      BY <1>4, <2>2 DEF Y!Runways, Y!ImageOnly, Y!Passed, Y!Forwards
    <2> QED
      BY <1>2, <2>1, <2>2, <2>3
  <1>5. CASE m \in {"veo", "decart", "stable_audio"}
    <2>1. /\ Y!Contract[m] \in {Y!Veo, Y!DecartVideo, Y!StableAudio}
      BY <1>5 DEF Y!Contract
    <2>2. \A x : ~Slot(Y!Contract[m], x)
      BY <1>2, <2>1 DEF Slot
    <2>3. k \in {"seed", "data"} \/ (m = "stable_audio" /\ k = "output_format")
      BY <1>1, <1>5 DEF Added
    <2>4. Y!Passed("stable_audio", "output_format") /\ ~Y!Passed(m, "seed")
      BY <1>5 DEF Y!Passed, Y!Forwards
    <2>5. k = "seed" => fill[k].is = own[k].is
      BY <1>1, <1>5 DEF Added
    <2> QED
      BY <1>2, <2>1, <2>2, <2>3, <2>4, <2>5 DEF fill
  <1>6. CASE m \in {"openai_tts", "lmnt", "hume"}
    <2>1. /\ Y!Contract[m] \in {Y!OpenAITts, Y!Lmnt, Y!Hume}
      BY <1>6 DEF Y!Contract
    <2>2. \/ m = "openai_tts" /\ k \in {"voice", "response_format"}
          \/ m = "lmnt" /\ k = "voice"
          \/ m = "hume" /\ k = "format"
      BY <1>1, <1>6 DEF Added
    <2>3. Y!Passed(m, k)
      BY <2>2 DEF Y!Passed, Y!Forwards
    <2> QED
      BY <1>2, <2>1, <2>2, <2>3
  <1> QED
    BY <1>3, <1>4, <1>5, <1>6

(* Of the payload, only the image matters for what is added. *)
LEMMA FillMinds ==
  ASSUME NEW m, NEW own, NEW inputs, NEW p, NEW q,
         m = "runway_open" => ("prompt_image" \in DOMAIN p <=> "prompt_image" \in DOMAIN q)
  PROVE  Y!Fill(m, own, inputs, p) = Y!Fill(m, own, inputs, q)
  <1>1. CASE m = "runway_open"
    BY <1>1 DEF Y!Fill
  <1>2. CASE m # "runway_open"
    BY <1>2, Zenon DEF Y!Fill
  <1> QED
    BY <1>1, <1>2

(* A connector asks for what was wanted. *)
LEMMA RequestIsWanted ==
  ASSUME NEW m \in DOMAIN Y!Contract, NEW own, NEW inputs, NEW r,
         NEW q \in Y!RequestOf(m, own, inputs, r)
  PROVE  WantedFor(m, own, inputs, Y!Base(r, own), q)
  <1> DEFINE S == Y!Contract[m]
             p == Y!Base(r, own)
             a == Y!Aliased(S, p)
             shaped == Y!Transformed(S, a)
             chain == Y!Chain(S, inputs)
  <1>1. PICK payload \in Y!PayloadOf(S, inputs, p) :
           LET part == Y!Taken(m, payload)
               fill == Y!Fill(m, own, inputs, payload)
           IN /\ Y!Acceptable(m, payload)
              /\ DOMAIN q = DOMAIN part \cup DOMAIN fill
              /\ \A k \in DOMAIN part : q[k] = part[k]
              /\ \A k \in DOMAIN fill \ DOMAIN part : q[k] = fill[k]
    BY RequestIs
  <1> DEFINE part == Y!Taken(m, payload)
             fill == Y!Fill(m, own, inputs, payload)
  <1>2. Apart(S) /\ Coercing(S) /\ (S.transformer = "sora" <=> m = "sora")
    BY ContractsAreApart, ContractsCoerce, OnlySora
  <1>3. /\ DOMAIN part = {k \in DOMAIN payload : Y!Passed(m, k)}
        /\ \A k \in DOMAIN part :
             part[k] = IF Y!Wired(m, k) THEN Y!Converted(Y!Wires[m][k], payload[k]) ELSE payload[k]
    BY TakenIs
  <1>4. \A k : /\ k \in DOMAIN payload /\ k \in DOMAIN shaped => Y!Means(shaped[k], payload[k])
               /\ k \in DOMAIN payload /\ k \in DOMAIN chain \ DOMAIN shaped =>
                    Y!Means(chain[k], payload[k])
               /\ k \in DOMAIN payload =>
                    k \in DOMAIN shaped \cup DOMAIN chain \cup DOMAIN S.defaults
               /\ k \in DOMAIN shaped \cup DOMAIN chain =>
                    k \in DOMAIN payload \/ (S.allowlist # Y!All /\ k \notin S.allowlist)
               /\ k \in DOMAIN payload /\ k \in DOMAIN shaped /\ Untouched(S, k) =>
                    payload[k] = shaped[k]
    BY <1>2, PayloadMeans
  <1>5. \A k : /\ k \in DOMAIN shaped =>
                    \/ Y!Wish(m, p, k) = {shaped[k]}
                    \/ Y!Wish(m, p, k) = {} /\ k \in {"size", "text_prompts"}
               /\ k \notin DOMAIN shaped => \/ Y!Wish(m, p, k) = {}
                                            \/ S.transformer # "none" /\ k \in Reshaped
    BY ShapedIsWished
  <1>6. \A k \in DOMAIN chain : Slot(S, k)
    BY ChainNames
  <1>7. Legal(S, payload)
    BY ContractsAreTidy, PayloadIsLegal
  <1>8. \A k \in DOMAIN p \ DOMAIN S.aliases : S.transformer = "none" => k \in DOMAIN shaped
    <2>1. DOMAIN p \ DOMAIN S.aliases \subseteq DOMAIN a
      BY DEF Y!Aliased
    <2>2. S.transformer = "none" => shaped = a
      BY DEF Y!Transformed
    <2> HIDE DEF a, shaped
    <2> QED
      BY <2>1, <2>2
  <1>9. \A k \in DOMAIN fill :
          /\ S.transformer = "none" /\ S.allowlist = Y!All
          /\ Y!Passed(m, k) \/ \A x : ~Slot(S, x)
          /\ k = "seed" => ~Y!Passed(m, k) /\ fill[k].is = own[k].is
          /\ k # "prompt_image"
    BY FillersAreOpen
  <1> HIDE DEF S, p, shaped, chain, part, fill
  <1>10. /\ DOMAIN q = DOMAIN part \cup DOMAIN fill
         /\ \A k \in DOMAIN part : q[k] = part[k]
         /\ \A k \in DOMAIN fill \ DOMAIN part : q[k] = fill[k]
    BY <1>1 DEF part, fill
  <1>11. ASSUME NEW k \in DOMAIN q, k \notin DOMAIN part
         PROVE  /\ k \in DOMAIN fill /\ S.transformer = "none"
                /\ k \notin DOMAIN chain
                /\ Y!Passed(m, k) => k \notin DOMAIN shaped
    <2>1. k \in DOMAIN fill /\ S.transformer = "none" /\ S.allowlist = Y!All
      BY <1>9, <1>10, <1>11
    <2>2. Y!Passed(m, k) => k \notin DOMAIN payload
      BY <1>3, <1>11
    <2>3. Y!Passed(m, k) => k \notin DOMAIN shaped \cup DOMAIN chain
      BY <1>4, <2>1, <2>2
    <2> QED
      BY <1>6, <1>9, <2>1, <2>3
  <1>12. ASSUME NEW k \in DOMAIN q, Y!Passed(m, k), Y!Wish(m, p, k) # {}
         PROVE  Y!Means(Y!The(Y!Wish(m, p, k)), q[k])
    <2>1. k \in DOMAIN shaped
      <3> SUFFICES ASSUME k \notin DOMAIN shaped PROVE FALSE
        OBVIOUS
      <3>1. S.transformer # "none" /\ k \in Reshaped
        BY <1>5, <1>12
      <3>2. k \in DOMAIN payload
        BY <1>3, <1>11, <3>1
      <3>3. ~Slot(S, k) /\ DOMAIN S.defaults = {}
        BY <1>2, <3>1 DEF Apart
      <3> QED
        BY <1>4, <1>6, <3>2, <3>3
    <2>2. Y!Wish(m, p, k) = {shaped[k]}
      BY <1>5, <1>12, <2>1
    <2>3. Y!The(Y!Wish(m, p, k)) = shaped[k]
      BY <2>2 DEF Y!The
    <2>4. k \in DOMAIN part /\ q[k] = part[k] /\ k \in DOMAIN payload
      BY <1>3, <1>10, <1>11, <1>12, <2>1
    <2>5. Y!Means(shaped[k], payload[k]) /\ (Untouched(S, k) => payload[k] = shaped[k])
      BY <1>4, <2>1, <2>4
    <2>6. CASE Y!Wired(m, k)
      <3>1. q[k] = Y!Converted(Y!Wires[m][k], payload[k])
        BY <1>3, <2>4, <2>6
      <3>2. Y!Acceptable(m, payload)
        BY <1>1
      <3>3. Y!Means(shaped[k], Y!Converted(Y!Wires[m][k], payload[k]))
        BY <1>7, <2>4, <2>5, <2>6, <3>2, WireMeans DEF S
      <3> QED
        BY <2>3, <3>1, <3>3
    <2>7. CASE ~Y!Wired(m, k)
      BY <1>3, <2>3, <2>4, <2>5, <2>7
    <2> QED
      BY <2>6, <2>7
  <1>13. ASSUME NEW k \in DOMAIN q \cap DOMAIN chain, ~Y!Passed(m, k) \/ Y!Wish(m, p, k) = {}
         PROVE  Y!Means(chain[k], q[k])
    <2>1. k \in DOMAIN part /\ q[k] = part[k] /\ k \in DOMAIN payload /\ Y!Passed(m, k)
      BY <1>3, <1>10, <1>11
    <2>2. k \notin DOMAIN shaped
      BY <1>2, <1>5, <1>6, <1>13, <2>1 DEF Apart
    <2>3. ~Y!Wired(m, k)
      BY <1>6, WiredAreFree DEF S
    <2> QED
      BY <1>3, <1>4, <2>1, <2>2, <2>3
  <1>14. ASSUME NEW k \in DOMAIN q, k \notin DOMAIN chain,
                ~Y!Passed(m, k) \/ Y!Wish(m, p, k) = {}
         PROVE  k \in DOMAIN S.defaults \cup {"size", "text_prompts"} \cup DOMAIN fill
    <2>1. CASE k \in DOMAIN fill
      BY <2>1
    <2>2. CASE k \notin DOMAIN fill
      BY <1>3, <1>4, <1>5, <1>10, <1>14, <2>2
    <2> QED
      BY <2>1, <2>2
  <1>15. ASSUME NEW k \in DOMAIN p \ DOMAIN S.aliases
         PROVE  \/ k \in DOMAIN q
                \/ S.transformer # "none"
                \/ ~ Y!Passed(m, k)
                \/ S.allowlist # Y!All /\ k \notin S.allowlist
    BY <1>3, <1>4, <1>8, <1>10
  <1>16. ASSUME NEW k \in DOMAIN chain
         PROVE  k \in DOMAIN q \/ ~ Y!Passed(m, k) \/ k \notin S.allowlist
    BY <1>3, <1>4, <1>10
  <1>17. Y!Fill(m, own, inputs, q) = fill
    <2>1. m = "runway_open" => Y!Passed(m, "prompt_image")
      BY DEF Y!Passed, Y!Forwards
    <2>2. m = "runway_open" => ("prompt_image" \in DOMAIN payload <=> "prompt_image" \in DOMAIN q)
      BY <1>3, <1>9, <1>10, <2>1
    <2> QED
      BY <2>2, FillMinds DEF fill
  <1>18. "seed" \in DOMAIN fill => q["seed"].is = own["seed"].is
    <2> SUFFICES ASSUME "seed" \in DOMAIN fill PROVE q["seed"].is = own["seed"].is
      OBVIOUS
    <2>1. "seed" \notin DOMAIN part /\ fill["seed"].is = own["seed"].is
      BY <1>3, <1>9
    <2> QED
      BY <1>10, <2>1
  <1>19. WantedFor(m, own, inputs, p, q)
    BY <1>12, <1>13, <1>14, <1>15, <1>16, <1>17, <1>18 DEF WantedFor, S, chain, Y!Known
  <1> QED
    BY <1>19 DEF p

-----------------------------------------------------------------------------
(* A step has at most one request. *)
LEMMA OneRequest ==
  ASSUME NEW m, NEW own, NEW inputs, NEW p, NEW q \in Y!RequestOf(m, own, inputs, p),
         NEW r \in Y!RequestOf(m, own, inputs, p)
  PROVE  q = r
  <1> DEFINE P0 == Y!PayloadOf(Y!Contract[m], inputs, Y!Base(p, own))
  <1>1. \A d, e \in P0 : d = e
    BY Zenon DEF Y!PayloadOf
  <1> HIDE DEF P0
  <1>2. PICK d \in P0 : q = Y!Over(Y!Taken(m, d), Y!Fill(m, own, inputs, d))
    BY DEF Y!RequestOf, P0
  <1>3. PICK e \in P0 : r = Y!Over(Y!Taken(m, e), Y!Fill(m, own, inputs, e))
    BY DEF Y!RequestOf, P0
  <1> QED
    BY <1>1, <1>2, <1>3

(* What adds no name to the parameters changes no request. *)
LEMMA SameRequest ==
  ASSUME NEW m, NEW own, NEW inputs, NEW p, NEW noted, DOMAIN noted \subseteq DOMAIN p
  PROVE  Y!RequestOf(m, own, inputs, Y!Over(p, noted)) = Y!RequestOf(m, own, inputs, p)
  <1> DEFINE d == Y!Over(p, noted)
  <1>1. DOMAIN d = DOMAIN p /\ \A k \in DOMAIN p : d[k] = p[k]
    <2>1. DOMAIN d = DOMAIN p \cup DOMAIN noted
      BY OverNames
    <2>2. \A k \in DOMAIN p \cup DOMAIN noted : d[k] = IF k \in DOMAIN p THEN p[k] ELSE noted[k]
      BY OverSays
    <2> HIDE DEF d
    <2> QED
      BY <2>1, <2>2
  <1> HIDE DEF d
  <1>2. Y!Over(d, own) = Y!Over(p, own)
    BY <1>1 DEF Y!Over
  <1>3. Y!Base(d, own) = Y!Base(p, own)
    BY <1>2 DEF Y!Base
  <1> QED
    BY <1>3 DEF Y!RequestOf, d

(* Runway's open contract lets everything through. *)
LEMMA OpenPayload ==
  ASSUME NEW inputs, NEW b
  PROVE  LET S == Y!RunwayOpen
             a == Y!Aliased(S, b)
             chain == Y!Chain(S, inputs)
         IN \E w : /\ Y!PayloadOf(S, inputs, b) = {w}
                   /\ DOMAIN w = DOMAIN a \cup DOMAIN chain
                   /\ \A k \in DOMAIN w : w[k] = IF k \in DOMAIN a THEN a[k] ELSE chain[k]
  <1> DEFINE S == Y!RunwayOpen
             a == Y!Aliased(S, b)
             chain == Y!Chain(S, inputs)
             routed == Y!WithInputs(S, inputs, Y!Transformed(S, a))
             coerced == Y!Coerced(S, routed)
             full == Y!Defaulted(S, coerced)
             w == Y!Checked(S, full)
  <1>1. /\ S.transformer = "none" /\ DOMAIN S.coercers = {} /\ DOMAIN S.defaults = {}
        /\ DOMAIN S.schemas = {} /\ S.required = {} /\ S.constraints = <<>>
        /\ S.allowlist = Y!All
    BY DEF Y!RunwayOpen, Y!Permissive, Y!Nothing
  <1> HIDE DEF S
  <1>2. routed = Y!Over(a, chain)
    BY <1>1 DEF Y!WithInputs, Y!Transformed
  <1> HIDE DEF a, chain
  <1>3. /\ DOMAIN routed = DOMAIN a \cup DOMAIN chain
        /\ \A k \in DOMAIN routed : routed[k] = IF k \in DOMAIN a THEN a[k] ELSE chain[k]
    <2>1. DOMAIN routed = DOMAIN a \cup DOMAIN chain
      BY <1>2, OverNames
    <2>2. \A k \in DOMAIN a \cup DOMAIN chain :
            routed[k] = IF k \in DOMAIN a THEN a[k] ELSE chain[k]
      BY <1>2, OverSays
    <2> QED
      BY <2>1, <2>2
  <1> HIDE DEF routed
  <1>4. DOMAIN coerced = DOMAIN routed /\ \A k \in DOMAIN routed : coerced[k] = routed[k]
    BY <1>1 DEF Y!Coerced
  <1> HIDE DEF coerced
  <1>5. DOMAIN full = DOMAIN routed /\ \A k \in DOMAIN routed : full[k] = routed[k]
    <2>1. full = Y!Over(coerced, S.defaults)
      BY DEF Y!Defaulted
    <2>2. DOMAIN full = DOMAIN coerced \cup DOMAIN S.defaults
      BY <2>1, OverNames
    <2>3. \A k \in DOMAIN coerced \cup DOMAIN S.defaults :
            full[k] = IF k \in DOMAIN coerced THEN coerced[k] ELSE S.defaults[k]
      BY <2>1, OverSays
    <2> QED
      BY <1>1, <1>4, <2>2, <2>3
  <1>6. ~Y!CoercionFails(S, routed) /\ Y!SchemasHold(S, full) /\ Y!ConstraintsHold(S, full)
    BY <1>1 DEF Y!CoercionFails, Y!SchemasHold, Y!ConstraintsHold
  <1>7. Y!PayloadOf(S, inputs, b) = {Y!Allowed(S, w)}
    <2>1. S.required \subseteq DOMAIN full
      BY <1>1
    <2> QED
      BY <1>6, <2>1, Zenon DEF Y!PayloadOf, a, routed, coerced
  <1> HIDE DEF full
  <1>8. DOMAIN w = DOMAIN full /\ \A k \in DOMAIN full : w[k] = full[k]
    BY <1>1 DEF Y!Checked
  <1>9. Y!Allowed(S, w) = w
    BY <1>1 DEF Y!Allowed
  <1> HIDE DEF w
  <1>10. /\ Y!PayloadOf(S, inputs, b) = {w}
         /\ DOMAIN w = DOMAIN a \cup DOMAIN chain
         /\ \A k \in DOMAIN w : w[k] = IF k \in DOMAIN a THEN a[k] ELSE chain[k]
    BY <1>3, <1>5, <1>7, <1>8, <1>9
  <1> QED
    BY <1>10 DEF S, a, chain

(* Runway's contracts know a length under its own name only, and neither   *)
(* the inputs nor a default sets one.                                      *)
LEMMA RunwayLength ==
  ASSUME NEW m \in Y!Runways, NEW inputs, NEW b, "duration" \notin DOMAIN b
  PROVE  LET S == Y!Contract[m]
         IN /\ "duration" \notin DOMAIN Y!Aliased(S, b)
            /\ "duration" \notin DOMAIN Y!Chain(S, inputs)
            /\ Y!Wish(m, b, "duration") = {}
            /\ DOMAIN S.defaults = {}
  <1> DEFINE S == Y!Contract[m]
  <1>1. S \in {Y!RunwayOpen, Y!RunwayTurbo} /\ m \in DOMAIN Y!Contract
    BY DEF Y!Contract, Y!Runways, Y!ImageOnly
  <1> HIDE DEF S
  <1>2. S.aliases = [aspect_ratio |-> "ratio"]
    BY <1>1, RunwayIs
  <1>3. DOMAIN S.defaults = {} /\ ~Slot(S, "duration")
    <2>1. /\ DOMAIN Y!RunwayOpen.defaults = {} /\ DOMAIN Y!RunwayTurbo.defaults = {}
          /\ Y!RunwayOpen.routes = <<Y!Images(<<"prompt_image">>, Y!Dropped)>>
          /\ Y!RunwayTurbo.routes = <<Y!Images(<<"prompt_image">>, Y!Dropped)>>
      BY DEF Y!RunwayOpen, Y!RunwayTurbo, Y!Permissive, Y!Nothing
    <2>2. DOMAIN S.defaults = {} /\ S.routes = <<Y!Images(<<"prompt_image">>, Y!Dropped)>>
      BY <1>1, <2>1
    <2> QED
      BY <2>2 DEF Slot, Y!Images, Y!Dropped
  <1>4. Asked(S, b, "duration") = {} /\ Apart(S)
    BY <1>1, <1>2, ContractsAreApart DEF Asked, S
  <1>5. "duration" \notin DOMAIN Y!Chain(S, inputs)
    BY <1>3, ChainNames
  <1>6. "duration" \notin DOMAIN Y!Aliased(S, b)
    BY <1>4, AliasedIsAsked
  <1>7. Y!Wish(m, b, "duration") = {}
    <2>1. m # "sora"
      BY DEF Y!Runways, Y!ImageOnly
    <2> QED
      BY <1>1, <1>4, <2>1, WishIsAsked DEF S
  <1> QED
    BY <1>3, <1>5, <1>6, <1>7 DEF S

(* d says what p says, and a length. *)
TellsLength(p, d) ==
  /\ "duration" \notin DOMAIN p
  /\ DOMAIN d = DOMAIN p \cup {"duration"}
  /\ \A k \in DOMAIN p : d[k] = p[k]

(* Over the same, what is told a length is told it. *)
LEMMA BaseTold ==
  \A own, p, d :
    "duration" \notin DOMAIN own /\ TellsLength(p, d) =>
      /\ TellsLength(Y!Base(p, own), Y!Base(d, own))
      /\ Y!Base(d, own)["duration"] = d["duration"]
  <1> TAKE own, p, d
  <1> SUFFICES ASSUME "duration" \notin DOMAIN own, TellsLength(p, d)
               PROVE  /\ TellsLength(Y!Base(p, own), Y!Base(d, own))
                      /\ Y!Base(d, own)["duration"] = d["duration"]
    OBVIOUS
  <1> DEFINE b == Y!Base(p, own)
             c == Y!Base(d, own)
  <1>1. b = Y!Over(p, own) /\ c = Y!Over(d, own)
    BY DEF Y!Base
  <1> HIDE DEF b, c
  <1>2. DOMAIN b = DOMAIN p \cup DOMAIN own /\ DOMAIN c = DOMAIN d \cup DOMAIN own
    BY <1>1, OverNames
  <1>3. \A k \in DOMAIN p \cup DOMAIN own : b[k] = IF k \in DOMAIN p THEN p[k] ELSE own[k]
    BY <1>1, OverSays
  <1>4. \A k \in DOMAIN d \cup DOMAIN own : c[k] = IF k \in DOMAIN d THEN d[k] ELSE own[k]
    BY <1>1, OverSays
  <1>5. TellsLength(b, c) /\ c["duration"] = d["duration"]
    BY <1>2, <1>3, <1>4 DEF TellsLength
  <1> QED
    BY <1>5 DEF b, c

(* Where a length is added, a step that is told it asks for the same. *)
LEMMA ToldItsLength ==
  ASSUME NEW m \in {"runway_open", "runway_gen45"}, NEW own, "duration" \notin DOMAIN own,
         NEW inputs, NEW p, NEW d, TellsLength(p, d),
         d["duration"] = Y!Int("8"), NEW q \in Y!RequestOf(m, own, inputs, p),
         "duration" \in DOMAIN q
  PROVE  q["duration"] = Y!Int("8") /\ q \in Y!RequestOf(m, own, inputs, d)
  <1> DEFINE S == Y!RunwayOpen
             b == Y!Base(p, own)
             c == Y!Base(d, own)
             ab == Y!Aliased(S, b)
             ac == Y!Aliased(S, c)
             chain == Y!Chain(S, inputs)
  <1>1. /\ S = Y!Contract[m] /\ S.aliases = [aspect_ratio |-> "ratio"]
        /\ m \in Y!Runways /\ m \notin Y!ImageOnly
    BY RunwayIs DEF Y!Contract, Y!Runways, Y!ImageOnly
  <1>2. /\ "duration" \notin DOMAIN b
        /\ DOMAIN c = DOMAIN b \cup {"duration"}
        /\ \A k \in DOMAIN b : c[k] = b[k]
        /\ c["duration"] = Y!Int("8")
    <2>1. TellsLength(b, c) /\ c["duration"] = d["duration"]
      BY BaseTold
    <2> QED
      BY <2>1 DEF TellsLength
  <1> HIDE DEF b, c, S
  <1>3. /\ "duration" \notin DOMAIN ab /\ "duration" \notin DOMAIN chain
    BY <1>1, <1>2, RunwayLength
  <1>4. /\ DOMAIN ac = DOMAIN ab \cup {"duration"}
        /\ \A k \in DOMAIN ab : ac[k] = ab[k]
        /\ ac["duration"] = Y!Int("8")
    BY <1>1, <1>2 DEF Y!Aliased
  <1> HIDE DEF ab, ac, chain
  <1>5. PICK w : /\ Y!PayloadOf(S, inputs, b) = {w}
                 /\ DOMAIN w = DOMAIN ab \cup DOMAIN chain
                 /\ \A k \in DOMAIN w : w[k] = IF k \in DOMAIN ab THEN ab[k] ELSE chain[k]
    BY OpenPayload DEF S, ab, chain
  <1>6. PICK v : /\ Y!PayloadOf(S, inputs, c) = {v}
                 /\ DOMAIN v = DOMAIN ac \cup DOMAIN chain
                 /\ \A k \in DOMAIN v : v[k] = IF k \in DOMAIN ac THEN ac[k] ELSE chain[k]
    BY OpenPayload DEF S, ac, chain
  <1>7. /\ "duration" \notin DOMAIN w
        /\ DOMAIN v = DOMAIN w \cup {"duration"}
        /\ \A k \in DOMAIN w : v[k] = w[k]
        /\ v["duration"] = Y!Int("8")
    BY <1>3, <1>4, <1>5, <1>6
  <1> DEFINE fill == Y!Fill(m, own, inputs, w)
             fw == Y!Taken(m, w)
             fv == Y!Taken(m, v)
  <1>8. /\ Y!Acceptable(m, w)
        /\ \A i \in DOMAIN inputs : inputs[i] # "http"
        /\ q = Y!Over(fw, fill)
    BY <1>1, <1>5 DEF Y!RequestOf, b
  <1>9. \A k : ~Y!Wired(m, k)
    BY WiresAre
  <1>10. Y!Acceptable(m, v)
    <2>1. "prompt_image" \in DOMAIN w \/ Y!Meets(Y!OneOf("ratio", Y!TextRatios), w)
      BY <1>1, <1>8 DEF Y!Acceptable
    <2>2. "prompt_image" \in DOMAIN v \/ Y!Meets(Y!OneOf("ratio", Y!TextRatios), v)
      BY <1>7, <2>1 DEF Y!Meets, Y!OneOf
    <2> QED
      BY <1>1, <1>9, <2>2 DEF Y!Acceptable
  <1>11. Y!Fill(m, own, inputs, v) = fill
    BY <1>7, FillMinds
  <1>12. /\ DOMAIN fw = {k \in DOMAIN w : Y!Passed(m, k)} /\ \A k \in DOMAIN fw : fw[k] = w[k]
         /\ DOMAIN fv = {k \in DOMAIN v : Y!Passed(m, k)} /\ \A k \in DOMAIN fv : fv[k] = v[k]
    <2>1. /\ DOMAIN fw = {k \in DOMAIN w : Y!Passed(m, k)}
          /\ \A k \in DOMAIN fw :
               fw[k] = IF Y!Wired(m, k) THEN Y!Converted(Y!Wires[m][k], w[k]) ELSE w[k]
      BY DEF Y!Taken
    <2>2. /\ DOMAIN fv = {k \in DOMAIN v : Y!Passed(m, k)}
          /\ \A k \in DOMAIN fv :
               fv[k] = IF Y!Wired(m, k) THEN Y!Converted(Y!Wires[m][k], v[k]) ELSE v[k]
      BY DEF Y!Taken
    <2> HIDE DEF fw, fv
    <2> QED
      BY <1>9, <2>1, <2>2
  <1>13. Y!Passed(m, "duration")
    BY DEF Y!Passed, Y!Forwards
  <1>14. "duration" \in DOMAIN fill => fill["duration"] = Y!Int("8")
    BY <1>1, FillIs DEF Added
  <1> HIDE DEF fw, fv, fill
  <1>15. /\ "duration" \notin DOMAIN fw
         /\ DOMAIN fv = DOMAIN fw \cup {"duration"}
         /\ \A k \in DOMAIN fw : fv[k] = fw[k]
         /\ fv["duration"] = Y!Int("8")
    BY <1>7, <1>12, <1>13
  <1>16. DOMAIN q = DOMAIN fw \cup DOMAIN fill
    BY <1>8, OverNames
  <1>17. "duration" \in DOMAIN fill /\ fill["duration"] = Y!Int("8")
    BY <1>14, <1>15, <1>16
  <1>18. Y!Over(fv, fill) = Y!Over(fw, fill)
    <2>1. DOMAIN fv \cup DOMAIN fill = DOMAIN fw \cup DOMAIN fill
      BY <1>15, <1>17
    <2>2. \A k \in DOMAIN fw \cup DOMAIN fill :
            (IF k \in DOMAIN fv THEN fv[k] ELSE fill[k]) = IF k \in DOMAIN fw THEN fw[k] ELSE fill[k]
      BY <1>15, <1>17
    <2> QED
      BY <2>1, <2>2 DEF Y!Over
  <1>19. q["duration"] = Y!Int("8")
    <2>1. \A k \in DOMAIN fw \cup DOMAIN fill : q[k] = IF k \in DOMAIN fw THEN fw[k] ELSE fill[k]
      BY <1>8, OverSays
    <2> QED
      BY <1>15, <1>17, <2>1
  <1>20. q = Y!Over(Y!Taken(m, v), Y!Fill(m, own, inputs, v))
    BY <1>8, <1>11, <1>18 DEF fv
  <1>21. q \in Y!RequestOf(m, own, inputs, d)
    BY <1>1, <1>6, <1>8, <1>10, <1>20 DEF Y!RequestOf, c
  <1> QED
    BY <1>19, <1>21

(* What the connector notes of a request in the parameters of the step,    *)
(* Runway the length it asked for, makes the next one the same.            *)
LEMMA NotedIsTheSame ==
  ASSUME NEW m \in DOMAIN Y!Contract, NEW own, "duration" \notin DOMAIN own, NEW inputs, NEW p,
         NEW q \in Y!RequestOf(m, own, inputs, p), NEW noted,
         noted = IF m \in Y!Runways THEN Y!Without(q, DOMAIN q \ {"duration"}) ELSE Y!Nothing
  PROVE  Y!RequestOf(m, own, inputs, Y!Over(p, noted)) = Y!RequestOf(m, own, inputs, p)
  <1>1. CASE DOMAIN noted \subseteq DOMAIN p
    BY <1>1, SameRequest
  <1>2. CASE ~(DOMAIN noted \subseteq DOMAIN p)
    <2>1. m \in Y!Runways
      <3>1. DOMAIN Y!Nothing = {}
        BY DEF Y!Nothing
      <3> QED
        BY <1>2, <3>1
    <2>2. noted = Y!Without(q, DOMAIN q \ {"duration"})
      BY <2>1
    <2>3. DOMAIN noted = DOMAIN q \cap {"duration"} /\ \A k \in DOMAIN noted : noted[k] = q[k]
      BY <2>2 DEF Y!Without
    <2>4. "duration" \in DOMAIN q /\ "duration" \notin DOMAIN p /\ DOMAIN noted = {"duration"}
      BY <1>2, <2>3
    <2> DEFINE b == Y!Base(p, own)
    <2>5. "duration" \notin DOMAIN b
      <3>1. DOMAIN Y!Over(p, own) = DOMAIN p \cup DOMAIN own
        BY OverNames
      <3> QED
        BY <2>4, <3>1 DEF Y!Base
    <2>6. "duration" \in DOMAIN Y!Fill(m, own, inputs, q)
      <3>1. WantedFor(m, own, inputs, b, q)
        BY RequestIsWanted
      <3>2. /\ "duration" \notin DOMAIN Y!Chain(Y!Contract[m], inputs)
            /\ Y!Wish(m, b, "duration") = {}
            /\ DOMAIN Y!Contract[m].defaults = {}
        BY <2>1, <2>5, RunwayLength
      <3> HIDE DEF b
      <3> QED
        BY <2>4, <3>1, <3>2 DEF WantedFor, Y!Known
    <2>7. m \in {"runway_open", "runway_gen45"}
      <3>1. DOMAIN Y!Fill(m, own, inputs, q) = IF \/ m = "runway_gen45"
                                                  \/ m = "runway_open" /\ "prompt_image" \notin DOMAIN q
                                               THEN {"ratio", "duration"} ELSE {"ratio"}
        BY <2>1, FillIs DEF Added
      <3> QED
        BY <2>6, <3>1
    <2> DEFINE d == Y!Over(p, noted)
    <2>8. TellsLength(p, d) /\ d["duration"] = q["duration"]
      <3>1. DOMAIN d = DOMAIN p \cup DOMAIN noted
        BY OverNames
      <3>2. \A k \in DOMAIN p \cup DOMAIN noted : d[k] = IF k \in DOMAIN p THEN p[k] ELSE noted[k]
        BY OverSays
      <3> HIDE DEF d
      <3> QED
        BY <2>3, <2>4, <3>1, <3>2 DEF TellsLength
    <2> HIDE DEF d
    <2>9. q["duration"] = Y!Int("8")
      <3> DEFINE e == [k \in DOMAIN p \cup {"duration"} |->
                         IF k \in DOMAIN p THEN p[k] ELSE Y!Int("8")]
      <3>1. TellsLength(p, e) /\ e["duration"] = Y!Int("8")
        BY <2>4 DEF TellsLength
      <3> HIDE DEF e
      <3> QED
        BY <2>4, <2>7, <3>1, ToldItsLength
    <2>10. q \in Y!RequestOf(m, own, inputs, d)
      BY <2>4, <2>7, <2>8, <2>9, ToldItsLength
    <2>11. \A x : x \in Y!RequestOf(m, own, inputs, d) => x = q
      BY <2>10, OneRequest
    <2>12. \A x : x \in Y!RequestOf(m, own, inputs, p) => x = q
      BY OneRequest
    <2> QED
      BY <2>10, <2>11, <2>12 DEF d
  <1> QED
    BY <1>1, <1>2

(* Whatever the step has noted, it asks for what it asked for at first, and *)
(* that was wanted.                                                        *)
SentAsWanted ==
  LET asked == Y!RequestOf(request.model, request.own, request.inputs, request.params)
  IN /\ request.model \in DOMAIN Y!Contract /\ "duration" \notin DOMAIN request.own
     /\ \E T : sent \in Seq(T)
     /\ phase \in {"new", "waiting"} =>
          Y!RequestOf(request.model, request.own, request.inputs, params) = asked
     /\ \A i \in DOMAIN sent : sent[i] \in asked

(* The conjuncts of SentIsWanted, one request at a time. *)
LEMMA WantedIsAll == SentAsWanted => Y!SentIsWanted
  <1> SUFFICES ASSUME SentAsWanted PROVE Y!SentIsWanted
    OBVIOUS
  <1> DEFINE asked == Y!RequestOf(request.model, request.own, request.inputs, request.params)
             p == Y!Base(request.params, request.own)
  <1>1. PICK T : sent \in Seq(T)
    BY DEF SentAsWanted
  <1>2. \A i \in DOMAIN sent : sent[i] \in asked /\ 1 \in DOMAIN sent
    BY <1>1 DEF SentAsWanted
  <1>3. \A i \in DOMAIN sent : sent[i] = sent[1]
    BY <1>2, OneRequest
  <1>4. \A i \in DOMAIN sent : WantedFor(request.model, request.own, request.inputs, p, sent[i])
    BY <1>2, RequestIsWanted DEF SentAsWanted
  <1> HIDE DEF asked
  <1> QED
    BY <1>3, <1>4, Zenon DEF WantedFor, Y!SentIsWanted

(* Nothing is noted at first. *)
LEMMA WantedFirst == RequestsAreKnown /\ Y!Init => SentAsWanted
  <1> SUFFICES ASSUME RequestsAreKnown, Y!Init PROVE SentAsWanted
    OBVIOUS
  <1>1. request.model \in DOMAIN Y!Contract /\ params = request.params
          /\ "duration" \notin DOMAIN request.own
    BY DEF RequestsAreKnown, Y!Init
  <1>2. sent \in Seq({}) /\ DOMAIN sent = {}
    BY DEF Y!Init
  <1> QED
    BY <1>1, <1>2 DEF SentAsWanted

(* One request more, the same. *)
LEMMA WantedStep == SentAsWanted /\ [Y!Next]_Y!vars => SentAsWanted'
  <1> SUFFICES ASSUME SentAsWanted, [Y!Next]_Y!vars PROVE SentAsWanted'
    OBVIOUS
  <1>1. CASE UNCHANGED <<request, sent, params, phase>>
    BY <1>1 DEF SentAsWanted
  <1>2. CASE Y!Submit
    <2> DEFINE m == request.model
               own == request.own
               inputs == request.inputs
               asked == Y!RequestOf(m, own, inputs, params)
               first == Y!RequestOf(m, own, inputs, request.params)
               noted == IF m \in Y!Runways /\ Y!Known(asked)
                        THEN Y!Without(Y!The(asked), DOMAIN Y!The(asked) \ {"duration"})
                        ELSE Y!Nothing
    <2>1. /\ request' = request
          /\ params' = Y!Over(params, noted)
          /\ sent' = IF Y!Known(asked) THEN Append(sent, Y!The(asked)) ELSE sent
      BY <1>2 DEF Y!Submit
    <2>2. asked = first /\ m \in DOMAIN Y!Contract /\ "duration" \notin DOMAIN own
      BY <1>2 DEF SentAsWanted, Y!Submit
    <2>3. PICK T : sent \in Seq(T)
      BY DEF SentAsWanted
    <2>4. CASE asked = {}
      <3>1. noted = Y!Nothing /\ sent' = sent
        BY <2>1, <2>4 DEF Y!Known
      <3>2. DOMAIN noted \subseteq DOMAIN params
        BY <3>1 DEF Y!Nothing
      <3>3. params' = Y!Over(params, noted)
        BY <2>1
      <3> HIDE DEF noted
      <3>4. Y!RequestOf(m, own, inputs, params') = asked
        BY <3>2, <3>3, SameRequest
      <3> QED
        BY <2>1, <2>2, <2>3, <3>1, <3>4 DEF SentAsWanted
    <2>5. CASE asked # {}
      <3> DEFINE q == Y!The(asked)
      <3>1. q \in asked /\ Y!Known(asked)
        BY <2>5 DEF Y!Known, Y!The
      <3>2. noted = IF m \in Y!Runways
                    THEN Y!Without(q, DOMAIN q \ {"duration"}) ELSE Y!Nothing
        BY <3>1
      <3>3. q \in Y!RequestOf(m, own, inputs, params)
        BY <3>1
      <3>4. params' = Y!Over(params, noted)
        BY <2>1
      <3> HIDE DEF q, noted, asked
      <3>5. Y!RequestOf(m, own, inputs, Y!Over(params, noted)) = Y!RequestOf(m, own, inputs, params)
        BY <2>2, <3>2, <3>3, NotedIsTheSame
      <3>6. Y!RequestOf(m, own, inputs, params') = asked
        BY <3>4, <3>5 DEF asked
      <3>7. sent' = Append(sent, q)
        BY <2>1, <3>1 DEF q
      <3>8. sent' \in Seq(T \cup {q})
        BY <2>3, <3>7
      <3>9. \A i \in DOMAIN sent' : sent'[i] = q \/ (i \in DOMAIN sent /\ sent'[i] = sent[i])
        BY <2>3, <3>7
      <3>10. \A i \in DOMAIN sent' : sent'[i] \in asked
        BY <2>2, <3>1, <3>9 DEF SentAsWanted
      <3> QED
        BY <2>1, <2>2, <3>6, <3>8, <3>10 DEF SentAsWanted
    <2> QED
      BY <2>4, <2>5
  <1>3. CASE Y!Lost
    BY <1>3 DEF SentAsWanted, Y!Lost
  <1>4. CASE Y!Fetch
    BY <1>4 DEF SentAsWanted, Y!Fetch
  <1> QED
    BY <1>1, <1>2, <1>3, <1>4 DEF Y!Next, Y!Foresee, Y!vars

(* A model is asked for what the caller set, whichever spelling was used,  *)
(* before what earlier steps provide, and that before any default, and by  *)
(* a retry for the same: for any requests to the models of the contracts,  *)
(* and however often they are asked; and so of the provider, whatever else *)
(* of it runs.                                                             *)
THEOREM RequestsAreWanted ==
  ASSUME RequestsAreKnown
  PROVE  /\ Y!Spec => []Y!SentIsWanted
         /\ MCSpec => []SentIsWanted
  <1>1. Y!Spec => []Y!SentIsWanted
    <2>1. Y!Init => SentAsWanted
      BY WantedFirst, RequestsAreKnown
    <2>2. QED
      BY <2>1, WantedIsAll, WantedStep, PTL DEF Y!Spec
  <1>2. MCSpec => []SentIsWanted
    <2>1. MCInit => SentAsWanted
      BY WantedFirst, RequestsAreKnown DEF MCInit
    <2>2. SentAsWanted /\ [MCNext]_all => SentAsWanted'
      <3> SUFFICES ASSUME SentAsWanted, [MCNext]_all PROVE SentAsWanted'
        OBVIOUS
      <3>1. [Y!Next]_Y!vars
        BY DEF MCNext, Stepping, all, payloadVars, Y!vars
      <3>2. QED
        BY <3>1, WantedStep
    <2>3. SentAsWanted => SentIsWanted
      BY WantedIsAll DEF SentIsWanted
    <2>4. QED
      BY <2>1, <2>2, <2>3, PTL DEF MCSpec
  <1>3. QED
    BY <1>1, <1>2

=============================================================================
