------------------------- MODULE HydrusRequestProofs -------------------------
(***************************************************************************)
(* Proofs about HydrusRequest, for every number of retries: its types, its *)
(* invariants, and that its steps are steps of RequestContract.            *)
(***************************************************************************)
EXTENDS HydrusRequest, TLAPS

\* The inductive strengthening: where do() stands says what is known of the
\* current attempt, and a 2xx is only ever the reply to a request applied.
Bookkeeping ==
  /\ pc \in {"send", "wait"} => reply[attempt] = "none"
  /\ pc \in {"decide", "sleep"} => reply[attempt] # "none"
  /\ pc = "sleep" => Retryable /\ CanRetry
  /\ pc = "returned" <=> result # "none"
  /\ pc = "send" => server[attempt] = "unsent"
  /\ \A a \in Attempt : /\ reply[a] = "2xx" => server[a] = "applied"
                        /\ a > attempt => reply[a] = "none"
  /\ result = "body" => reply[attempt] = "2xx"

IInv == TypeOK /\ Bookkeeping /\ NoEarlyVerdict /\ RetriesHadCause

\* do() starts in a state that satisfies the invariant.
LEMMA InitIInv == Init => IInv
<1> SUFFICES ASSUME Init PROVE IInv
  OBVIOUS
<1>0. attempt \in Attempt
  BY RetriesAssumption DEF Init, Attempt
<1>1. TypeOK
  BY <1>0 DEF Init, TypeOK, Reply, Result
<1>2. Bookkeeping
  BY <1>1 DEF Init, TypeOK, Bookkeeping
<1>3. NoEarlyVerdict
  BY DEF Init, NoEarlyVerdict
<1>4. RetriesHadCause
  BY DEF Init, RetriesHadCause, Attempt
<1> QED
  BY <1>1, <1>2, <1>3, <1>4 DEF IInv

\* Every step of do(), of the caller and of Hydrus preserves the types.
LEMMA NextTypeOK == TypeOK /\ Bookkeeping /\ [Next]_vars => TypeOK'
<1> SUFFICES ASSUME TypeOK, Bookkeeping, [Next]_vars PROVE TypeOK'
  OBVIOUS
<1> USE DEF TypeOK, Reply, Result, Goto
<1>1. CASE Send  BY <1>1 DEF Send
<1>2. CASE AttemptFails  BY <1>2 DEF AttemptFails, AttemptEnds
<1>3. CASE AttemptTimesOut  BY <1>3 DEF AttemptTimesOut, AttemptEnds
<1>4. CASE Respond  BY <1>4 DEF Respond, AttemptEnds
<1>5. CASE Succeed  BY <1>5 DEF Succeed, Return
<1>6. CASE ReturnContext  BY <1>6 DEF ReturnContext, Return
<1>7. CASE ReturnFailure  BY <1>7 DEF ReturnFailure, Return
<1>8. CASE Backoff  BY <1>8 DEF Backoff
<1>9. CASE Wake
  <2>1. attempt' \in Attempt
    BY <1>9, RetriesAssumption DEF Wake, Bookkeeping, CanRetry, Attempt
  <2> QED  BY <1>9, <2>1 DEF Wake
<1>10. CASE WakeCancelled  BY <1>10 DEF WakeCancelled, Return
<1>11. CASE CallerGivesUp  BY <1>11 DEF CallerGivesUp
<1>12. CASE Handle  BY <1>12 DEF Handle
<1>13. CASE UNCHANGED vars  BY <1>13 DEF vars
<1> QED
  BY <1>1, <1>2, <1>3, <1>4, <1>5, <1>6, <1>7, <1>8, <1>9, <1>10, <1>11, <1>12, <1>13
  DEF Next, Do

\* The end of an attempt keeps the invariant: its reply is now known.
LEMMA AttemptKeepsIInv ==
  ASSUME IInv, TypeOK', NEW outcome \in Reply, pc \in {"send", "wait"},
         outcome # "none", outcome = "2xx" => server[attempt] = "applied",
         AttemptEnds(outcome)
  PROVE  IInv'
<1> USE DEF IInv, TypeOK, AttemptEnds, Goto
<1>1. reply'[attempt] = outcome /\ \A a \in Attempt : a # attempt => reply'[a] = reply[a]
  OBVIOUS
<1>2. result = "none"
  BY DEF Bookkeeping
<1>3. Bookkeeping'
  BY <1>1, <1>2, RetriesAssumption DEF Bookkeeping, Attempt
<1>4. NoEarlyVerdict'
  BY <1>2 DEF NoEarlyVerdict
<1>5. RetriesHadCause'
  BY <1>1, RetriesAssumption DEF RetriesHadCause, Attempt
<1> QED
  BY <1>3, <1>4, <1>5

\* So does returning, with a verdict that is due.
LEMMA ReturnKeepsIInv ==
  ASSUME IInv, TypeOK', NEW what \in Result \ {"none"}, Return(what),
         what = "body" => reply[attempt] = "2xx",
         what = "context" => done,
         what \in {"connection", "connection timeout"} => attempt = MaxRetries,
         what = "api" => attempt = MaxRetries \/ reply[attempt] = "other",
         what = "connection timeout" => reply[attempt] = "timeout"
  PROVE  IInv'
<1> USE DEF IInv, TypeOK, Return, Goto
<1>1. Bookkeeping'
  BY DEF Bookkeeping
<1>2. NoEarlyVerdict'
  BY DEF NoEarlyVerdict
<1>3. RetriesHadCause'
  BY DEF RetriesHadCause
<1> QED
  BY <1>1, <1>2, <1>3

\* And the rest of the invariant.
LEMMA NextIInv == IInv /\ [Next]_vars => IInv'
<1> SUFFICES ASSUME IInv, [Next]_vars PROVE IInv'
  OBVIOUS
<1>0. TypeOK'
  BY NextTypeOK DEF IInv
<1>1. CASE Send
  <2>1. Bookkeeping'
    BY <1>1, <1>0 DEF Send, Goto, IInv, TypeOK, Bookkeeping
  <2>2. NoEarlyVerdict'
    BY <1>1 DEF Send, IInv, NoEarlyVerdict
  <2>3. \A a \in Attempt : a > attempt => a # attempt
    BY RetriesAssumption DEF IInv, TypeOK, Attempt
  <2>4. RetriesHadCause'
    BY <1>1, <2>3 DEF Send, IInv, TypeOK, RetriesHadCause
  <2> QED  BY <2>1, <2>2, <2>4, <1>0 DEF IInv
<1>2. CASE AttemptFails
  BY <1>0, <1>2, AttemptKeepsIInv DEF AttemptFails, Reply
<1>3. CASE AttemptTimesOut
  BY <1>0, <1>3, AttemptKeepsIInv DEF AttemptTimesOut, Reply
<1>4. CASE Respond
  BY <1>0, <1>4, AttemptKeepsIInv DEF Respond, Reply
<1>5. CASE Succeed
  BY <1>0, <1>5, ReturnKeepsIInv DEF Succeed, Result
<1>6. CASE ReturnContext
  BY <1>0, <1>6, ReturnKeepsIInv DEF ReturnContext, Result
<1>7. CASE ReturnFailure
  <2>1. ~(attempt < MaxRetries) => attempt = MaxRetries
    BY RetriesAssumption DEF IInv, TypeOK, Attempt
  <2>2. reply[attempt] \in Reply \ {"none", "2xx"}
    BY <1>7 DEF ReturnFailure, IInv, TypeOK, Bookkeeping
  <2>3. attempt = MaxRetries \/ reply[attempt] = "other"
    BY <1>7, <2>1, <2>2 DEF ReturnFailure, Retryable, CanRetry, Failed, Reply
  <2>4. CASE reply[attempt] = "timeout"
    BY <1>0, <1>7, <2>3, <2>4, ReturnKeepsIInv DEF ReturnFailure, Result
  <2>5. CASE reply[attempt] = "error"
    BY <1>0, <1>7, <2>3, <2>5, ReturnKeepsIInv DEF ReturnFailure, Result
  <2>6. CASE reply[attempt] \notin {"timeout", "error"}
    <3>1. Return("api")
      BY <1>7, <2>6 DEF ReturnFailure
    <3> QED  BY <1>0, <2>3, <3>1, ReturnKeepsIInv DEF Result
  <2> QED  BY <2>4, <2>5, <2>6
<1>8. CASE Backoff
  BY <1>0, <1>8 DEF Backoff, Goto, IInv, Bookkeeping, NoEarlyVerdict, RetriesHadCause,
     Retryable, CanRetry
<1>9. CASE Wake
  <2>1. /\ Retryable /\ attempt' = attempt + 1 /\ attempt < MaxRetries
        /\ UNCHANGED <<reply, server, done, result>> /\ result = "none" /\ pc' = "send"
    BY <1>9 DEF Wake, Goto, IInv, Bookkeeping, CanRetry
  <2>2. attempt \in Attempt /\ attempt' \in Attempt
    BY <1>0 DEF TypeOK, IInv
  <2>3. Bookkeeping'
    BY <2>1, <2>2, RetriesAssumption DEF IInv, Bookkeeping, RetriesHadCause, Attempt
  <2>4. NoEarlyVerdict'
    BY <2>1 DEF NoEarlyVerdict
  <2>5. RetriesHadCause'
    BY <2>1, <2>2, RetriesAssumption DEF IInv, RetriesHadCause, Retryable, Attempt
  <2> QED  BY <1>0, <2>3, <2>4, <2>5 DEF IInv
<1>10. CASE WakeCancelled
  BY <1>0, <1>10, ReturnKeepsIInv DEF WakeCancelled, Result
<1>11. CASE CallerGivesUp
  BY <1>0, <1>11 DEF CallerGivesUp, IInv, Bookkeeping, NoEarlyVerdict, RetriesHadCause,
     Retryable, CanRetry
<1>12. CASE Handle
  <2>1. PICK a \in Attempt : \E made \in {"applied", "rejected"} :
          server[a] = "working" /\ server' = [server EXCEPT ![a] = made]
    BY <1>12 DEF Handle
  <2>2. \A b \in Attempt : /\ server[b] = "applied" => server'[b] = "applied"
                           /\ server[b] = "unsent" => server'[b] = "unsent"
    BY <2>1 DEF IInv, TypeOK
  <2>3. UNCHANGED <<pc, attempt, reply, done, result>>
    BY <1>12 DEF Handle
  <2>4. Bookkeeping'
    BY <2>2, <2>3 DEF IInv, TypeOK, Bookkeeping, Retryable, CanRetry
  <2>5. NoEarlyVerdict' /\ RetriesHadCause'
    BY <2>2, <2>3 DEF IInv, NoEarlyVerdict, RetriesHadCause
  <2> QED  BY <1>0, <2>4, <2>5 DEF IInv
<1>13. CASE UNCHANGED vars
  BY <1>0, <1>13 DEF vars, IInv, Bookkeeping, NoEarlyVerdict, RetriesHadCause,
     Retryable, CanRetry
<1> QED
  BY <1>1, <1>2, <1>3, <1>4, <1>5, <1>6, <1>7, <1>8, <1>9, <1>10, <1>11, <1>12, <1>13
  DEF Next, Do

\* The invariant holds of every behaviour.
THEOREM Invariance == Spec => []IInv
  BY InitIInv, NextIInv, PTL DEF Spec

\* No error is reported too early (client.go's do), whatever MaxRetries is.
THEOREM VerdictsAreDue == Spec => []NoEarlyVerdict
<1>1. IInv => NoEarlyVerdict
  BY DEF IInv
<1> QED
  BY Invariance, <1>1, PTL

\* Only what may be mended is tried again (isTransientStatus, do).
THEOREM RetriesAreDue == Spec => []RetriesHadCause
<1>1. IInv => RetriesHadCause
  BY DEF IInv
<1> QED
  BY Invariance, <1>1, PTL

\* A body returned is that of an applied request (the 2xx exit of do).
THEOREM SuccessIsTrue == Spec => []SuccessWasApplied
<1>1. IInv => SuccessWasApplied
  BY DEF IInv, TypeOK, Bookkeeping, SuccessWasApplied
<1> QED
  BY Invariance, <1>1, PTL

-----------------------------------------------------------------------------
\* A step of do(), the caller or Hydrus is a step of the contract or none.
LEMMA StepRefines == IInv /\ [Next]_vars => [Contract!Next]_(Contract!vars)
<1> SUFFICES ASSUME IInv, [Next]_vars PROVE [Contract!Next]_(Contract!vars)
  OBVIOUS
<1> USE DEF IInv, TypeOK, Bookkeeping, Contract!Next, Contract!vars, Contract!Apply,
        Contract!GiveUp, Contract!Accept, Contract!Fail, Contract!Cancel, Contract!Tell,
        Told, Goto
<1>1. CASE Send
  <2>1. \A a \in Attempt : server'[a] = "applied" <=> server[a] = "applied"
    BY <1>1 DEF Send
  <2> QED  BY <1>1, <2>1 DEF Send
<1>2. CASE AttemptFails  BY <1>2 DEF AttemptFails, AttemptEnds
<1>3. CASE AttemptTimesOut  BY <1>3 DEF AttemptTimesOut, AttemptEnds
<1>4. CASE Respond  BY <1>4 DEF Respond, AttemptEnds
<1>5. CASE Succeed
  <2>1. \E a \in Attempt : server[a] = "applied"
    BY <1>5 DEF Succeed
  <2>2. Told = "nothing" /\ Told' = "accepted"
    BY <1>5 DEF Succeed, Return
  <2> QED  BY <1>5, <2>1, <2>2 DEF Succeed, Return
<1>6. CASE ReturnContext  BY <1>6 DEF ReturnContext, Return
<1>7. CASE ReturnFailure
  <2>1. result' \in {"connection", "connection timeout", "api"}
    BY <1>7 DEF ReturnFailure, Return
  <2>2. Told = "nothing" /\ Told' = "failed"
    BY <1>7, <2>1 DEF ReturnFailure
  <2> QED  BY <1>7, <2>2 DEF ReturnFailure, Return
<1>8. CASE Backoff  BY <1>8 DEF Backoff
<1>9. CASE Wake  BY <1>9 DEF Wake
<1>10. CASE WakeCancelled  BY <1>10 DEF WakeCancelled, Return
<1>11. CASE CallerGivesUp  BY <1>11 DEF CallerGivesUp
<1>12. CASE Handle
  <2>1. (\E a \in Attempt : server[a] = "applied") => (\E a \in Attempt : server'[a] = "applied")
    BY <1>12 DEF Handle
  <2> QED  BY <1>12, <2>1 DEF Handle
<1>13. CASE UNCHANGED vars  BY <1>13 DEF vars
<1> QED
  BY <1>1, <1>2, <1>3, <1>4, <1>5, <1>6, <1>7, <1>8, <1>9, <1>10, <1>11, <1>12, <1>13
  DEF Next, Do

\* do() keeps the contract's safety: what the caller is told is true, whatever
\* Hydrus does, and whenever the caller gives up (its liveness is TLC's).
THEOREM RefinesContract == Spec => Contract!Spec
<1>1. Init => Contract!Init
  BY DEF Init, Contract!Init, Told
<1> QED
  BY <1>1, Invariance, StepRefines, PTL DEF Spec, Contract!Spec

=============================================================================
