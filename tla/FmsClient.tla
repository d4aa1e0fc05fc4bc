------------------------------ MODULE FmsClient ------------------------------
(***************************************************************************)
(* How requests reach the file library: the authenticated client           *)
(* (vendor_patches/entsoe_py/client.py, api/client.py), the retries of a   *)
(* page (api/ls_fms.py), the paced session (client_side_throttler.py), and *)
(* the request counters that a run reports when it stops                   *)
(* (api_observability.py, runs_tracker.py).                                *)
(*                                                                         *)
(* A process executes one run of a job; its workers are the clients it     *)
(* creates, each with an access token of its own.  The jobs of this        *)
(* repository use their clients one after the other; the session is built  *)
(* to be shared by threads, so workers of a process may run concurrently   *)
(* here.  All clients of a process for one environment share one session,  *)
(* which keeps the time of its last request and a mutex.                   *)
(*                                                                         *)
(* Time is discrete and kept as distances from now: how long ago the       *)
(* session's last request was, how long a token has to live.  The distance *)
(* a process computes uses the wall clock, which may be stepped.  A        *)
(* process may be slow: any time may pass between two of its steps.        *)
(***************************************************************************)
EXTENDS Integers, FiniteSets

CONSTANTS
    Processes,    \* runs of jobs that may overlap
    Workers,      \* clients
    ProcessOf,    \* the process of each client
    EnvOf,        \* the environment of each client: IOP or PROD
    Roots,        \* what the counters tell apart: TP_export and legacy
    Configured,   \* environments with addresses and credentials
    Interval,     \* fms_min_request_interval_seconds, in ticks
    Window,       \* the period of the rate limit, in ticks
    Lifetime,     \* expires_in of an access token, in ticks
    Margin,       \* ensure_token_valid renews a token this long before it expires
    MaxAttempts,  \* stop_after_attempt of _fetch_folder_page
    Leap,         \* size of a step of the wall clock
    MaxSteps,     \* bound: steps of the wall clock
    MaxJobs,      \* bound: requests a run is asked for
    MaxLapses,    \* bound: pacing interruptions of a session within a window
    Nobody        \* the mutex is free

Envs == {EnvOf[w] : w \in Workers}
Sessions == Processes \X Envs
SessionOf(w) == <<ProcessOf[w], EnvOf[w]>>
WorkersOf(p) == {w \in Workers : ProcessOf[w] = p}
Slip == MaxSteps * Leap

ASSUME ClientConstants ==
    /\ IsFiniteSet(Workers) /\ ProcessOf \in [Workers -> Processes]
    /\ Configured \subseteq Envs
    /\ Interval \in Nat \ {0} /\ Window \in Nat
    /\ Lifetime \in Nat /\ Margin \in Nat /\ Margin < Lifetime
    /\ MaxAttempts \in Nat \ {0}
    /\ Leap \in Nat /\ MaxSteps \in Nat /\ Slip \in Nat
    /\ MaxJobs \in Nat /\ MaxLapses \in Nat
    /\ Nobody \notin Workers

VARIABLES
    run,       \* per process: the stage of its RunsLogger block
    jobs,      \* per process: requests the run may still be asked for
    since,     \* per session: wall clock minus _last_request_time, saturated
    holder,    \* per session: who holds _lock
    pc,        \* per worker: what it is about to do
    job,       \* per worker: the request in hand
    tries,     \* per worker: failed attempts at it
    nap,       \* per worker: what is left of its time.sleep
    left,      \* per worker: self.expire minus the wall clock, saturated
    life,      \* per worker: what is left of the token, as the server sees it
    counter,   \* per process: fms_api_counter
    made,      \* history, per process: requests made since the last report
    sent,      \* history, per session: requests made, by age, up to Window
    lapses,    \* history, per session: losses of the last request's time, by age
    late,      \* history, per worker: time since its token was checked, saturated
    unlucky,   \* history, per worker: no attempt has failed without a reason outside
    steps,     \* steps of the wall clock so far, counted to bound them
    back       \* history: the clock has been stepped back

flow == <<pc, job, tries, nap, left, life, late, unlucky>>
pace == <<since, holder, sent, lapses>>
count == <<counter, made>>
clock == <<steps, back>>
vars == <<run, jobs, flow, pace, count, clock>>

Job == [kind : {"page", "download"}, root : Roots]
NoJob == [kind |-> "none", root |-> "none"]
Requesting == {"check", "queue", "sleep", "send", "failed"}
Count == [Processes -> [Envs \X Roots -> Nat]]
Ages == [0..Window -> Nat]
Never == [a \in 0..Window |-> 0]
Nothing == [k \in Envs \X Roots |-> 0]
Attempts(kind) == IF kind = "page" THEN MaxAttempts ELSE 1
Later(a, b) == IF a < b THEN b ELSE a     \* the larger of two times
Sooner(a, b) == IF a < b THEN a ELSE b

\* The events of a history up to an age, and how many they are.
Events(ages, most) == UNION {{a} \X (1..ages[a]) : a \in 0..most}
UpTo(ages, most) == Cardinality(Events(ages, most))
Total(ages) == UpTo(ages, Window)

\* Every variable keeps its type, and whoever is about to sleep or to leave the
\* critical section holds the mutex of its session: no path leaves it locked.
TypeOK ==
    /\ run \in [Processes -> {"off", "running", "resetting"}]
    /\ jobs \in [Processes -> 0..MaxJobs]
    /\ since \in [Sessions -> (-Slip)..(Interval + Slip)]
    /\ holder \in [Sessions -> Workers \union {Nobody}]
    /\ pc \in [Workers -> {"off", "login", "idle", "refused"} \union Requesting]
    /\ job \in [Workers -> Job \union {NoJob}]
    /\ tries \in [Workers -> 0..MaxAttempts]
    /\ nap \in [Workers -> 0..(Interval + Slip)]
    /\ left \in [Workers -> (-Slip)..(Lifetime + Slip)]
    /\ life \in [Workers -> 0..Lifetime]
    /\ counter \in Count /\ made \in Count
    /\ sent \in [Sessions -> Ages] /\ lapses \in [Sessions -> Ages]
    /\ late \in [Workers -> 0..(Margin + 1)]
    /\ unlucky \in [Workers -> BOOLEAN]
    /\ steps \in 0..MaxSteps /\ back \in BOOLEAN
    /\ \A w \in Workers :
        /\ pc[w] = "sleep" <=> holder[SessionOf(w)] = w
        /\ pc[w] \in Requesting => job[w] \in Job

Init ==
    /\ run = [p \in Processes |-> "off"]
    /\ jobs = [p \in Processes |-> 0]
    /\ since = [s \in Sessions |-> Interval + Slip]
    /\ holder = [s \in Sessions |-> Nobody]
    /\ pc = [w \in Workers |-> "off"]
    /\ job = [w \in Workers |-> NoJob]
    /\ tries = [w \in Workers |-> 0]
    /\ nap = [w \in Workers |-> 0]
    /\ left = [w \in Workers |-> -Slip]
    /\ life = [w \in Workers |-> 0]
    /\ counter = [p \in Processes |-> Nothing]
    /\ made = [p \in Processes |-> Nothing]
    /\ sent = [s \in Sessions |-> Never]
    /\ lapses = [s \in Sessions |-> Never]
    /\ late = [w \in Workers |-> 0]
    /\ unlucky = [w \in Workers |-> TRUE]
    /\ steps = 0
    /\ back = FALSE

-----------------------------------------------------------------------------
(* Helpers.                                                                *)

Goto(w, there) == pc' = [pc EXCEPT ![w] = there]

\* A history counts one more event of age 0.
OneMore(ages) == [ages EXCEPT ![0] = @ + 1]

\* _wait_if_needed: what is missing to the interval, by the wall clock.  After a
\* step back the last request lies in the future and the sleep is longer.
SleepFor(s) == Later(0, Interval - since[s])

\* Mutant of NeedsRenewal: a token is renewed only once it has expired.
NeedsRenewalLate(w) == left[w] <= 0

\* ensure_token_valid: the token has expired or is close to it.
NeedsRenewal(w) == left[w] <= Margin

\* The counter of a request, from its address and body.
CounterOf(w) == <<EnvOf[w], job[w].root>>

\* Mutant of FailAttempt: retried for ever.
FailAttemptForEver(w, excused) ==
    /\ unlucky' = [unlucky EXCEPT ![w] = @ /\ excused]
    /\ late' = [late EXCEPT ![w] = 0]
    /\ Goto(w, "check")
    /\ UNCHANGED tries

\* An attempt failed with a RequestException: _fetch_folder_page is retried until
\* its attempts are used up, a download is not.
FailAttempt(w, excused) ==
    /\ tries' = [tries EXCEPT ![w] = @ + 1]
    /\ unlucky' = [unlucky EXCEPT ![w] = @ /\ excused]
    /\ late' = [late EXCEPT ![w] = 0]
    /\ Goto(w, IF tries[w] + 1 < Attempts(job[w].kind) THEN "check" ELSE "failed")

\* What is left of a request that has been answered or given up.
DropJob(w) ==
    /\ job' = [job EXCEPT ![w] = NoJob]
    /\ tries' = [tries EXCEPT ![w] = 0]
    /\ unlucky' = [unlucky EXCEPT ![w] = TRUE]
    /\ late' = [late EXCEPT ![w] = 0]
    /\ Goto(w, "idle")

\* A process ends and with it its clients and sessions: the next one starts with
\* _last_request_time = 0.0, an interruption of the pacing if the last request of
\* the old one was less than an interval ago.
Unpaced(p) == {s \in Sessions : s[1] = p /\ since[s] < Interval}

EndProcess(p) ==
    /\ \A s \in Unpaced(p) : Total(lapses[s]) < MaxLapses
    /\ run' = [run EXCEPT ![p] = "off"]
    /\ since' = [s \in Sessions |-> IF s[1] = p THEN Interval + Slip ELSE since[s]]
    /\ holder' = [s \in Sessions |-> IF s[1] = p THEN Nobody ELSE holder[s]]
    /\ lapses' = [s \in Sessions |->
                    IF s \in Unpaced(p) THEN OneMore(lapses[s]) ELSE lapses[s]]
    /\ pc' = [w \in Workers |-> IF ProcessOf[w] = p THEN "off" ELSE pc[w]]
    /\ job' = [w \in Workers |-> IF ProcessOf[w] = p THEN NoJob ELSE job[w]]
    /\ tries' = [w \in Workers |-> IF ProcessOf[w] = p THEN 0 ELSE tries[w]]
    /\ nap' = [w \in Workers |-> IF ProcessOf[w] = p THEN 0 ELSE nap[w]]
    /\ left' = [w \in Workers |-> IF ProcessOf[w] = p THEN -Slip ELSE left[w]]
    /\ life' = [w \in Workers |-> IF ProcessOf[w] = p THEN 0 ELSE life[w]]
    /\ late' = [w \in Workers |-> IF ProcessOf[w] = p THEN 0 ELSE late[w]]
    /\ unlucky' = [w \in Workers |-> ProcessOf[w] = p \/ unlucky[w]]
    /\ counter' = [counter EXCEPT ![p] = Nothing]
    /\ made' = [made EXCEPT ![p] = Nothing]
    /\ UNCHANGED <<jobs, sent, clock>>
-----------------------------------------------------------------------------
(* A run of a job.                                                         *)

\* RunsTrackerCore.start
StartRun(p) ==
    /\ run[p] = "off"
    /\ run' = [run EXCEPT ![p] = "running"]
    /\ jobs' = [jobs EXCEPT ![p] = MaxJobs]
    /\ UNCHANGED <<flow, pace, count, clock>>

\* create_fms_client: an environment without configuration, addresses or credentials
\* raises at once; otherwise the constructor logs in.
CreateClient(w) ==
    /\ run[ProcessOf[w]] = "running"
    /\ pc[w] = "off"
    /\ Goto(w, IF EnvOf[w] \in Configured THEN "login" ELSE "refused")
    /\ UNCHANGED <<run, jobs, job, tries, nap, left, life, late, unlucky,
                   pace, count, clock>>

\* A page of a folder is wanted, or a file.
Ask(w, j) ==
    /\ pc[w] = "idle"
    /\ jobs[ProcessOf[w]] > 0
    /\ jobs' = [jobs EXCEPT ![ProcessOf[w]] = @ - 1]
    /\ job' = [job EXCEPT ![w] = j]
    /\ Goto(w, "check")
    /\ UNCHANGED <<run, tries, nap, left, life, late, unlucky, pace, count, clock>>

\* ensure_token_valid; the headers with the token are built next.
CheckToken(w) ==
    /\ pc[w] = "check"
    /\ Goto(w, IF NeedsRenewal(w) THEN "login" ELSE "queue")
    /\ UNCHANGED <<run, jobs, job, tries, nap, left, life, late, unlucky,
                   pace, count, clock>>

\* _update_token: posted to Keycloak, so neither paced nor counted.  How long the
\* answer takes is not modelled: both sides count the lifetime from one moment.
Login(w) ==
    /\ pc[w] = "login"
    /\ left' = [left EXCEPT ![w] = Lifetime]
    /\ life' = [life EXCEPT ![w] = Lifetime]
    /\ Goto(w, IF job[w] = NoJob THEN "idle" ELSE "queue")
    /\ UNCHANGED <<run, jobs, job, tries, nap, late, unlucky, pace, count, clock>>

\* The login fails: as part of an attempt, or in the constructor.
LoginFails(w) ==
    /\ pc[w] = "login"
    /\ \/ job[w] # NoJob /\ FailAttempt(w, TRUE)
       \/ job[w] = NoJob /\ Goto(w, "refused") /\ UNCHANGED <<tries, unlucky, late>>
    /\ UNCHANGED <<run, jobs, job, nap, left, life, pace, count, clock>>

\* _wait_if_needed: the mutex is taken, and the sleep begins.
Acquire(w) ==
    /\ pc[w] = "queue"
    /\ holder[SessionOf(w)] = Nobody
    /\ holder' = [holder EXCEPT ![SessionOf(w)] = w]
    /\ nap' = [nap EXCEPT ![w] = SleepFor(SessionOf(w))]
    /\ Goto(w, "sleep")
    /\ UNCHANGED <<run, jobs, job, tries, left, life, late, unlucky,
                   since, sent, lapses, count, clock>>

\* Mutants of TakeSlot: the time recorded is the one from before the sleep; only the
\* first attempt is counted; the mutex is kept while the request is sent.
TakeSlotOldTime(w) ==
    LET s == SessionOf(w)
    IN  /\ pc[w] = "sleep" /\ nap[w] = 0
        /\ holder' = [holder EXCEPT ![s] = Nobody]
        /\ counter' = [counter EXCEPT ![ProcessOf[w]][CounterOf(w)] = @ + 1]
        /\ Goto(w, "send")
        /\ UNCHANGED <<run, jobs, job, tries, nap, left, life, late, unlucky,
                       since, sent, lapses, made, clock>>

TakeSlotFirstCounted(w) ==
    LET s == SessionOf(w)
    IN  /\ pc[w] = "sleep" /\ nap[w] = 0
        /\ since' = [since EXCEPT ![s] = 0]
        /\ holder' = [holder EXCEPT ![s] = Nobody]
        /\ counter' = IF tries[w] > 0 THEN counter
                      ELSE [counter EXCEPT ![ProcessOf[w]][CounterOf(w)] = @ + 1]
        /\ Goto(w, "send")
        /\ UNCHANGED <<run, jobs, job, tries, nap, left, life, late, unlucky,
                       sent, lapses, made, clock>>

TakeSlotLocked(w) ==
    LET s == SessionOf(w)
    IN  /\ pc[w] = "sleep" /\ nap[w] = 0
        /\ since' = [since EXCEPT ![s] = 0]
        /\ counter' = [counter EXCEPT ![ProcessOf[w]][CounterOf(w)] = @ + 1]
        /\ Goto(w, "send")
        /\ UNCHANGED <<run, jobs, job, tries, nap, left, life, late, unlucky,
                       holder, sent, lapses, made, clock>>

\* The sleep is over: the time is recorded, the mutex released, the request counted.
TakeSlot(w) ==
    LET s == SessionOf(w)
    IN  /\ pc[w] = "sleep" /\ nap[w] = 0
        /\ since' = [since EXCEPT ![s] = 0]
        /\ holder' = [holder EXCEPT ![s] = Nobody]
        /\ counter' = [counter EXCEPT ![ProcessOf[w]][CounterOf(w)] = @ + 1]
        /\ Goto(w, "send")
        /\ UNCHANGED <<run, jobs, job, tries, nap, left, life, late, unlucky,
                       sent, lapses, made, clock>>

\* super().send: the request is out, whatever becomes of it.
Emit(w) ==
    /\ pc[w] = "send"
    /\ sent' = [sent EXCEPT ![SessionOf(w)] = OneMore(@)]
    /\ made' = [made EXCEPT ![ProcessOf[w]][CounterOf(w)] = @ + 1]
    /\ UNCHANGED <<run, jobs, nap, left, life, since, holder, lapses, counter, clock>>

\* The token is good and the server answers.
Answered(w) == Emit(w) /\ life[w] > 0 /\ DropJob(w)

\* The token has expired on the way: 401.
Refused(w) ==
    /\ Emit(w)
    /\ life[w] = 0
    /\ FailAttempt(w, late[w] > Margin \/ back)
    /\ UNCHANGED job

\* No answer, an error, or a body that is not JSON.
Unanswered(w) == Emit(w) /\ FailAttempt(w, TRUE) /\ UNCHANGED job

\* The last attempt's exception reaches the caller as EntsoeApiError or
\* EntsoeConnectionError.
GiveUp(w) ==
    /\ pc[w] = "failed"
    /\ DropJob(w)
    /\ UNCHANGED <<run, jobs, nap, left, life, pace, count, clock>>

\* RunsTrackerCore.stop, when the block is left: the counters are read and logged.
\* Without a request there is nothing to reset.
StopRun(p) ==
    /\ run[p] = "running"
    /\ \A w \in WorkersOf(p) : pc[w] \in {"off", "idle", "refused"}
    /\ IF counter[p] = Nothing
       THEN EndProcess(p)
       ELSE /\ run' = [run EXCEPT ![p] = "resetting"]
            /\ UNCHANGED <<jobs, flow, pace, count, clock>>

\* fms_api_counter.reset; the job's process has nothing more to do.
ResetCounters(p) == run[p] = "resetting" /\ EndProcess(p)

\* The process is killed.
Die(p) == run[p] = "running" /\ EndProcess(p)
-----------------------------------------------------------------------------
(* Time.                                                                   *)

Aged(ages) == [a \in 0..Window |-> IF a = 0 THEN 0 ELSE ages[a - 1]]

Waiting == {"queue", "sleep", "send"}

\* A tick of real time; distances saturate where nothing depends on them any more.
Tick ==
    /\ since' = [s \in Sessions |-> Sooner(since[s] + 1, Interval + Slip)]
    /\ left' = [w \in Workers |-> Later(left[w] - 1, -Slip)]
    /\ life' = [w \in Workers |-> Later(life[w] - 1, 0)]
    /\ nap' = [w \in Workers |-> Later(nap[w] - 1, 0)]
    /\ late' = [w \in Workers |->
                    IF pc[w] \in Waiting THEN Sooner(late[w] + 1, Margin + 1) ELSE 0]
    /\ sent' = [s \in Sessions |-> Aged(sent[s])]
    /\ lapses' = [s \in Sessions |-> Aged(lapses[s])]
    /\ UNCHANGED <<run, jobs, pc, job, tries, unlucky, holder, count, clock>>

\* The wall clock is set forwards: a request may follow too soon.
StepForward ==
    /\ steps < MaxSteps
    /\ steps' = steps + 1
    /\ since' = [s \in Sessions |-> Sooner(since[s] + Leap, Interval + Slip)]
    /\ left' = [w \in Workers |-> Later(left[w] - Leap, -Slip)]
    /\ lapses' = [s \in Sessions |-> OneMore(lapses[s])]
    /\ UNCHANGED <<run, jobs, pc, job, tries, nap, life, late, unlucky,
                   holder, sent, count, back>>

\* The wall clock is set back: the last request now lies in the future.
StepBack ==
    /\ steps < MaxSteps
    /\ steps' = steps + 1
    /\ back' = TRUE
    /\ since' = [s \in Sessions |-> Later(since[s] - Leap, -Slip)]
    /\ left' = [w \in Workers |-> Sooner(left[w] + Leap, Lifetime + Slip)]
    /\ UNCHANGED <<run, jobs, pc, job, tries, nap, life, late, unlucky,
                   holder, sent, lapses, count>>

Work(w) ==
    \/ CreateClient(w)
    \/ \E j \in Job : Ask(w, j)
    \/ CheckToken(w)
    \/ Login(w)
    \/ Acquire(w)
    \/ TakeSlot(w)
    \/ Answered(w)
    \/ Refused(w)
    \/ GiveUp(w)

Trouble(w) == LoginFails(w) \/ Unanswered(w)

Next ==
    \/ \E w \in Workers : Work(w) \/ Trouble(w)
    \/ \E p \in Processes : StartRun(p) \/ StopRun(p) \/ ResetCounters(p) \/ Die(p)
    \/ Tick
    \/ StepForward \/ StepBack

Spec == Init /\ [][Next]_vars

\* Time passes, a process that is not killed keeps running, and a request gets an
\* answer or an error (the code sets no timeout of its own).  Fairness is on what a
\* worker does, errors included: that a request is ever answered is not required.
FairSpec ==
    /\ Spec
    /\ WF_vars(Tick)
    /\ \A w \in Workers : WF_vars(Work(w) \/ Trouble(w))
    /\ \A p \in Processes : WF_vars(StopRun(p)) /\ WF_vars(ResetCounters(p))
-----------------------------------------------------------------------------
(* Properties.                                                             *)

\* The promise of the pacing, for any closed window that ends now, however short: one
\* request per interval and one more, one for every worker that may have waited its
\* turn before the window and sent within it (the mutex is released before the request
\* is sent), and one for every time the pacing was interrupted within the window, by a
\* clock step or a new process.
RateBounded ==
    \A s \in Sessions, a \in 0..Window :
        UpTo(sent[s], a) <= (a \div Interval) + 1 + UpTo(lapses[s], a)
                            + Cardinality({w \in Workers : SessionOf(w) = s})

\* A request is given up only if every attempt at it failed for a reason outside the
\* client: no answer, a failed login, or a token that expired because the client was
\* held up for longer than the margin or its clock was set back.
GivesUpOnlyWhenUnlucky == \A w \in Workers : pc[w] = "failed" => unlucky[w]

\* What a run reports is what it has asked of the library, by environment and root:
\* each attempt once, renewals of the token never, whatever failed.
CountersTellTruth ==
    \A p \in Processes, k \in Envs \X Roots :
        counter[p][k] = made[p][k]
            + Cardinality({w \in WorkersOf(p) : pc[w] = "send" /\ CounterOf(w) = k})

\* Every run that is not killed comes to its end, whatever fails: nobody waits for the
\* mutex for ever, sleeps end although the clock is set back, retries are bounded.
RunsEnd == \A p \in Processes : run[p] # "off" ~> run[p] = "off"
=============================================================================
