---------------------------- MODULE HydrusRequest ----------------------------
(***************************************************************************)
(* One request of the Hydrus client, internal/hydrus/client.go: attempts   *)
(* with a deadline each, retries with a backoff between them, and a caller *)
(* that may give up at any time.  Hydrus works on its own: it may apply a  *)
(* request whose reply is lost, or long after the attempt timed out.       *)
(***************************************************************************)
EXTENDS Naturals

CONSTANT MaxRetries  \* Options.MaxRetries

ASSUME RetriesAssumption == MaxRetries \in Nat

VARIABLES
  pc,       \* where do() is
  attempt,  \* its loop counter
  reply,    \* what each attempt came to, as attemptOutcome classifies it
  done,     \* is the caller's context done?
  server,   \* what Hydrus made of each attempt's request
  result    \* what do() returned

vars == <<pc, attempt, reply, done, server, result>>

Attempt == 0..MaxRetries

\* Statuses fall into 2xx, those isTransientStatus names, and the others; an
\* attempt without a status failed, by its own deadline or otherwise.
Reply  == {"none", "2xx", "transient", "other", "timeout", "error"}
Failed == {"timeout", "error"}

Result == {"none", "body", "context", "api", "connection", "connection timeout"}

TypeOK ==
  /\ pc \in {"send", "wait", "decide", "sleep", "returned"}
  /\ attempt \in Attempt
  /\ reply \in [Attempt -> Reply]
  /\ done \in BOOLEAN
  /\ server \in [Attempt -> {"unsent", "working", "applied", "rejected"}]
  /\ result \in Result

Init ==
  /\ pc = "send"
  /\ attempt = 0
  /\ reply = [a \in Attempt |-> "none"]
  /\ done = FALSE
  /\ server = [a \in Attempt |-> "unsent"]
  /\ result = "none"

Goto(stage) == pc' = stage

\* The transport refuses to send under a context that is done.
Send ==
  /\ pc = "send"
  /\ ~done
  /\ server' = [server EXCEPT ![attempt] = "working"]
  /\ Goto("wait")
  /\ UNCHANGED <<attempt, reply, done, result>>

AttemptEnds(outcome) ==
  /\ reply' = [reply EXCEPT ![attempt] = outcome]
  /\ Goto("decide")
  /\ UNCHANGED <<attempt, done, server, result>>

\* The connection is refused or breaks, or the body of a 2xx cannot be read; or
\* the context is done, be it before anything was sent.
AttemptFails == pc \in {"send", "wait"} /\ AttemptEnds("error")

\* The attempt's deadline passes while the caller still waits.
AttemptTimesOut == pc = "wait" /\ ~done /\ AttemptEnds("timeout")

\* A status arrives; that of an error response counts though its body is lost.
Respond ==
  /\ pc = "wait"
  /\ \/ server[attempt] = "applied" /\ AttemptEnds("2xx")
     \/ server[attempt] = "rejected" /\ AttemptEnds("other")
     \/ AttemptEnds("transient")

Retryable == reply[attempt] \in Failed \cup {"transient"}
CanRetry  == attempt < MaxRetries

Return(what) == result' = what /\ Goto("returned") /\ UNCHANGED <<attempt, reply, done, server>>

\* Mutant: any response taken for a good one.
SucceedOnAnyStatus == pc = "decide" /\ reply[attempt] \notin Failed /\ Return("body")

Succeed == pc = "decide" /\ reply[attempt] = "2xx" /\ Return("body")

\* Mutant: the timeout's own DeadlineExceeded taken for the caller's.
ReturnTimeoutAsContext ==
  /\ pc = "decide"
  /\ reply[attempt] # "2xx"
  /\ done \/ reply[attempt] = "timeout"
  /\ Return("context")

\* The caller's error comes before any verdict on the attempt.
ReturnContext == pc = "decide" /\ reply[attempt] # "2xx" /\ done /\ Return("context")

ReturnFailure ==
  /\ pc = "decide"
  /\ reply[attempt] # "2xx"
  /\ ~done
  /\ ~(Retryable /\ CanRetry)
  /\ Return(CASE reply[attempt] = "timeout" -> "connection timeout"
              [] reply[attempt] = "error"   -> "connection"
              [] OTHER                      -> "api")

Backoff ==
  /\ pc = "decide"
  /\ ~done
  /\ Retryable /\ CanRetry
  /\ Goto("sleep")
  /\ UNCHANGED <<attempt, reply, done, server, result>>

\* The timer fires.  With the context done as well, either may be seen first.
Wake ==
  /\ pc = "sleep"
  /\ attempt' = attempt + 1
  /\ Goto("send")
  /\ UNCHANGED <<reply, done, server, result>>

WakeCancelled == pc = "sleep" /\ done /\ Return("context")

CallerGivesUp ==
  /\ ~done
  /\ done' = TRUE
  /\ UNCHANGED <<pc, attempt, reply, server, result>>

\* Hydrus takes a request up, however long ago the client stopped waiting.
Handle ==
  /\ \E a \in Attempt : \E made \in {"applied", "rejected"} :
       /\ server[a] = "working"
       /\ server' = [server EXCEPT ![a] = made]
  /\ UNCHANGED <<pc, attempt, reply, done, result>>

Do == \/ Send \/ AttemptFails \/ AttemptTimesOut \/ Respond
      \/ Succeed \/ ReturnContext \/ ReturnFailure
      \/ Backoff \/ Wake \/ WakeCancelled

Next == Do \/ CallerGivesUp \/ Handle

Spec == Init /\ [][Next]_vars

\* Each attempt has a deadline and each backoff a timer.  Of Hydrus, and of the
\* caller, nothing is assumed.
FairSpec == Spec /\ WF_vars(Do)

-----------------------------------------------------------------------------
\* An error is never reported too early: a failure a retry might mend only once
\* every attempt was spent, and a context error only if the caller gave up, an
\* attempt's own deadline never passing for it (client.go, do; errors.go).
NoEarlyVerdict ==
  /\ result = "context" => done
  /\ result \in {"connection", "connection timeout"} => attempt = MaxRetries
  /\ result = "api" => attempt = MaxRetries \/ reply[attempt] = "other"
  /\ result = "connection timeout" => reply[attempt] = "timeout"

\* Only what may be mended is tried again: every attempt before the current one
\* failed or met a transient status, so a refusal (a bad key) is never repeated
\* and a success never sent twice; and nothing was sent beyond the current one.
RetriesHadCause ==
  \A a \in Attempt : /\ a < attempt => reply[a] \in Failed \cup {"transient"}
                     /\ a > attempt => server[a] = "unsent"

\* Success is no accident of bookkeeping: the body returned is that of a request
\* Hydrus applied, the last one.  (The converse fails: at least once, not once.)
SuccessWasApplied == result = "body" => server[attempt] = "applied"

\* do() keeps RequestContract, which is what TaggerRun's PushAccepted, PushFails
\* and StageFails assume of a call: it is reported, and reported truly.
Told == CASE result = "none"    -> "nothing"
          [] result = "body"    -> "accepted"
          [] result = "context" -> "given up"
          [] OTHER              -> "failed"
Contract == INSTANCE RequestContract WITH
  applied <- \E a \in Attempt : server[a] = "applied", givenUp <- done, told <- Told
KeepsContract == Contract!FairSpec
=============================================================================
