----------------------------- MODULE SshExecutor -----------------------------
(***************************************************************************)
(* The controlled SSH executor (remote/controlled_ssh_executor.cpp): a     *)
(* startup profile is validated, posted to the blocking pool of the        *)
(* execution runtime, and run there: its steps once each, its readiness    *)
(* checks with retries, all before one deadline.                           *)
(***************************************************************************)
EXTENDS ExecutionRuntime, Integers

CONSTANTS
  Job,           \* the tasks that are SSH jobs
  Profile,       \* job -> the request it is executed with
  StepTimeouts,  \* the values validateStep takes for timeout_ms
  StepRetries,   \* ... and for retry_count
  Timeouts,      \* the values validateRequest takes for timeout_ms
  Grace          \* how long runProcess waits between SIGTERM and SIGKILL

\* Times count from the start of the job, in units of Grace or more.
ASSUME SshAssumption ==
  /\ Job \subseteq Task
  /\ StepTimeouts \subseteq Nat \ {0}
  /\ StepRetries \subseteq Nat
  /\ Timeouts \subseteq Nat \ {0}
  /\ Grace \in Nat

\* A step has a script or a command; "safe" stands for the tests on its texts,
\* and interval for retry_interval_ms as std::clamp bounds it.
StepRecord == [executable : SUBSET {"script", "command"}, safe : BOOLEAN,
               mode : STRING, log : BOOLEAN, timeout : Int, retries : Int,
               interval : Nat]

ASSUME ProfileAssumption ==
  \A j \in Job : /\ Profile[j].steps \in Seq(StepRecord)
                 /\ Profile[j].checks \in Seq(StepRecord)

VARIABLE job   \* job -> the locals of its run() and the handler's calls

ssh == <<runtime, job>>

ValidStep(step, checks) ==
  /\ Cardinality(step.executable) = 1
  /\ step.safe
  /\ step.mode \in {"wait", "detached"}
  /\ step.mode = "detached" => ~checks /\ step.log
  /\ step.timeout \in StepTimeouts
  /\ step.retries \in StepRetries

\* "target" stands for the tests on host, user, port and key references.
ValidRequest(q) ==
  /\ q.target
  /\ q.steps # << >>
  /\ q.timeout \in Timeouts
  /\ \A i \in DOMAIN q.steps : ValidStep(q.steps[i], FALSE)
  /\ \A i \in DOMAIN q.checks : ValidStep(q.checks[i], TRUE)

Plan(j) == Profile[j].steps \o Profile[j].checks
IsCheck(j, i) == i > Len(Profile[j].steps)

MaxAttemptsOfAll(j, i) == Plan(j)[i].retries + 1
MaxAttempts(j, i) == IF IsCheck(j, i) THEN Plan(j)[i].retries + 1 ELSE 1

Min2(a, b) == IF a <= b THEN a ELSE b

\* What run() keeps: the step and attempt it is at, the time used, the result
\* it builds, and the answers the handler was given.
NewJob == [at |-> 1, attempt |-> 1, elapsed |-> 0, ended |-> FALSE,
           success |-> FALSE, timed_out |-> FALSE, error |-> "none",
           results |-> << >>, answers |-> 0]

\* execute(): refuses an invalid request before it is posted.
Execute(j) ==
  /\ ValidRequest(Profile[j])
  /\ PostBlocking(j) \/ PostRefused(j)
  /\ UNCHANGED job

ExecuteRefused(j) ==
  /\ ~ValidRequest(Profile[j])
  /\ job[j].error = "none"
  /\ job' = [job EXCEPT ![j].error = "invalid request"]
  /\ UNCHANGED runtime

Runs(j) == status[j] = "running" /\ ~job[j].ended
Left(j) == Profile[j].timeout - job[j].elapsed
StepTime(j) == Plan(j)[job[j].at].timeout

ExecutionTimeoutOfStep(j) == StepTime(j)
ExecutionTimeout(j) == Min2(StepTime(j), Left(j))

\* runProcess: ssh exits in time, with status 0 or another (127 if it cannot be
\* started), or is killed with its process group after its time.
Outcomes(j) ==
  {[ok |-> ok, timed_out |-> FALSE, time |-> d] :
     ok \in BOOLEAN, d \in 0 .. ExecutionTimeout(j) - 1}
  \cup {[ok |-> FALSE, timed_out |-> TRUE, time |-> ExecutionTimeout(j) + Grace]}

Recorded(j, p) ==
  [job[j] EXCEPT
     !.results = Append(@, [step |-> job[j].at, attempt |-> job[j].attempt,
                            ok |-> p.ok]),
     !.elapsed = @ + p.time,
     !.timed_out = @ \/ p.timed_out]

\* The next step or check, or the end of the profile.
Passed(j, rec) ==
  IF rec.at = Len(Plan(j))
    THEN [rec EXCEPT !.success = TRUE, !.ended = TRUE]
    ELSE [rec EXCEPT !.at = @ + 1, !.attempt = 1]

Abandoned(rec) ==
  [rec EXCEPT !.timed_out = TRUE, !.error = "startup profile timeout",
              !.ended = TRUE]

\* After a failed attempt: give up at the deadline, sleep and try again, or
\* fail the profile.
RetriedIgnoringFailure(j, rec) ==
  IF rec.attempt < MaxAttempts(j, rec.at)
    THEN [rec EXCEPT !.attempt = @ + 1] ELSE Passed(j, rec)
Retried(j, rec) ==
  LET left == Profile[j].timeout - rec.elapsed IN
  IF left <= 0 THEN Abandoned(rec)
  ELSE IF rec.attempt < MaxAttempts(j, rec.at)
    THEN [rec EXCEPT !.attempt = @ + 1,
                     !.elapsed = @ + Min2(Plan(j)[rec.at].interval, left)]
    ELSE [rec EXCEPT !.ended = TRUE,
            !.error = IF IsCheck(j, rec.at) THEN "readiness check failed"
                                            ELSE "startup step failed"]

Attempt(j) ==
  /\ Runs(j)
  /\ Left(j) > 0
  /\ \E p \in Outcomes(j) :
       LET rec == Recorded(j, p) IN
       job' = [job EXCEPT ![j] = IF p.ok THEN Passed(j, rec) ELSE Retried(j, rec)]
  /\ UNCHANGED runtime

\* The deadline passed during the last success or the last sleep.
TimeOut(j) ==
  /\ Runs(j)
  /\ Left(j) <= 0
  /\ job' = [job EXCEPT ![j] = Abandoned(job[j])]
  /\ UNCHANGED runtime

\* The task calls the handler with the result and ends.
Answer(j) ==
  /\ job[j].ended
  /\ Finish(j)
  /\ job' = [job EXCEPT ![j].answers = @ + 1]

Init == RuntimeInit /\ job = [j \in Job |-> NewJob]

JobStep(j) == Attempt(j) \/ TimeOut(j) \/ Answer(j)

\* The work of RobotRuntime and of the API on the same pools.
OtherTask(t) ==
  /\ Post(t) \/ Finish(t)
  /\ UNCHANGED job

Pools == /\ Join \/ (\E l \in Lane : Start(l)) \/ (\E t \in Task : Expire(t))
         /\ UNCHANGED job

Next == \/ \E j \in Job : Execute(j) \/ ExecuteRefused(j) \/ JobStep(j)
        \/ \E t \in Task \ Job : OtherTask(t)
        \/ Pools

Spec == Init /\ [][Next]_ssh

\* The pools' threads go on as long as they have work, timers fire, tasks end.
Fairness ==
  /\ \A l \in Lane : WF_ssh(Start(l) /\ UNCHANGED job)
  /\ \A j \in Job : WF_ssh(JobStep(j))
  /\ \A t \in Task : WF_ssh(Expire(t) /\ UNCHANGED job)
  /\ \A t \in Task \ Job : WF_ssh(Finish(t) /\ UNCHANGED job)
  /\ WF_ssh((CancelTimers \/ JoinProtocol \/ JoinBlocking) /\ UNCHANGED job)

FairSpec == Spec /\ Fairness

-----------------------------------------------------------------------------
Attempts(j, i) == {k \in DOMAIN job[j].results : job[j].results[k].step = i}

\* Success is reported only if every step and every check of the profile ran,
\* in order, and each of them had exited with 0 before the next one began.
SuccessIsEarned ==
  \A j \in Job : job[j].success =>
    /\ \A i \in DOMAIN Plan(j) : \E k \in Attempts(j, i) : job[j].results[k].ok
    /\ \A k, m \in DOMAIN job[j].results :
         job[j].results[k].step < job[j].results[m].step => k < m
    /\ \A k \in DOMAIN job[j].results :
         k < Len(job[j].results) /\ ~job[j].results[k].ok
           => job[j].results[k + 1].step = job[j].results[k].step

\* A startup step may not be idempotent: it is attempted once.  Only readiness
\* checks, which are validated not to start anything detached, are repeated.
StartedOnce ==
  \A j \in Job : \A i \in DOMAIN Plan(j) :
    /\ i <= Len(Profile[j].steps) => Cardinality(Attempts(j, i)) <= 1
    /\ Cardinality(Attempts(j, i)) > 1 => Plan(j)[i].mode # "detached"

\* However many steps, retries and pauses the profile asks for, its job holds a
\* thread of the blocking pool no longer than timeout_ms and one SIGKILL.
DeadlineKept ==
  \A j \in Job : status[j] # "new" =>
    job[j].elapsed <= Profile[j].timeout + Grace

\* Every job that execute() accepts is answered, during shutdown as well.
JobsAnswered ==
  \A j \in Job : (status[j] = "queued") ~> (job[j].answers = 1 /\ status[j] = "done")
=============================================================================
