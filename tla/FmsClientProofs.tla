--------------------------- MODULE FmsClientProofs ---------------------------
(***************************************************************************)
(* Theorems about FmsClient, for any processes and clients, any intervals, *)
(* lifetimes and margins: types and mutual exclusion, the reasons for      *)
(* which a request is given up, and the counters.                          *)
(***************************************************************************)
EXTENDS FmsClient, FiniteSetTheorems, FunctionTheorems, TLAPS

LEMMA SessionIsTyped ==
  ASSUME NEW w \in Workers
  PROVE  SessionOf(w) \in Sessions /\ ProcessOf[w] \in Processes /\ EnvOf[w] \in Envs
BY ClientConstants DEF ClientConstants, SessionOf, Sessions, Envs

LEMMA CounterIsTyped ==
  ASSUME NEW w \in Workers, job[w] \in Job
  PROVE  CounterOf(w) \in Envs \X Roots
BY SessionIsTyped DEF CounterOf, Job

\* A count stays a count when one request is added to it.
LEMMA CountOneMore ==
  ASSUME NEW c \in Count, NEW p \in Processes, NEW k \in Envs \X Roots
  PROVE  [c EXCEPT ![p][k] = @ + 1] \in Count
<1>1. [c[p] EXCEPT ![k] = @ + 1] \in [Envs \X Roots -> Nat]
  BY DEF Count
<1> QED BY <1>1 DEF Count

LEMMA AgesAreTyped ==
  ASSUME NEW ages \in Ages
  PROVE  OneMore(ages) \in Ages /\ Aged(ages) \in Ages
<1>1. Window \in Nat
  BY ClientConstants DEF ClientConstants
<1>2. OneMore(ages) \in Ages
  BY <1>1 DEF OneMore, Ages
<1>3. \A a \in 0..Window : a # 0 => a - 1 \in 0..Window
  BY <1>1
<1>4. Aged(ages) \in Ages
  BY <1>3 DEF Aged, Ages
<1> QED BY <1>2, <1>4

\* The numbers of a worker after a failed attempt.
LEMMA FailAttemptIsTyped ==
  ASSUME TypeOK, NEW w \in Workers, NEW excused \in BOOLEAN, FailAttempt(w, excused),
         job[w] \in Job, pc[w] # "sleep", job' = job, holder' = holder,
         tries[w] < Attempts(job[w].kind)
  PROVE  /\ tries' \in [Workers -> 0..MaxAttempts]
         /\ pc' \in [Workers -> {"off", "login", "idle", "refused"} \union Requesting]
         /\ late' \in [Workers -> 0..(Margin + 1)]
         /\ unlucky' \in [Workers -> BOOLEAN]
         /\ \A v \in Workers :
              /\ pc'[v] = "sleep" <=> holder'[SessionOf(v)] = v
              /\ pc'[v] \in Requesting => job'[v] \in Job
<1>1. MaxAttempts \in Nat \ {0} /\ Margin \in Nat
  BY ClientConstants DEF ClientConstants
<1>2. tries' \in [Workers -> 0..MaxAttempts]
  BY <1>1 DEF TypeOK, FailAttempt, Attempts
<1>3. late' \in [Workers -> 0..(Margin + 1)]
  BY <1>1 DEF TypeOK, FailAttempt
<1>4. unlucky' \in [Workers -> BOOLEAN]
  BY Zenon DEF TypeOK, FailAttempt
<1>5. pc' \in [Workers -> {"off", "login", "idle", "refused"} \union Requesting]
  BY DEF TypeOK, FailAttempt, Goto, Requesting
<1>6. \A v \in Workers : /\ pc'[v] = "sleep" <=> pc[v] = "sleep"
                         /\ pc'[v] \in Requesting => pc[v] \in Requesting \/ v = w
  BY DEF TypeOK, FailAttempt, Goto, Requesting
<1> QED BY <1>2, <1>3, <1>4, <1>5, <1>6 DEF TypeOK

\* A client without a request has no failed attempts, and one with a request has
\* one left at least, unless it is about to give the request up.
AttemptsLeft ==
    \A w \in Workers :
        /\ pc[w] \in {"off", "idle", "refused"} => job[w] = NoJob
        /\ job[w] = NoJob => tries[w] = 0
        /\ job[w] # NoJob /\ pc[w] # "failed" => tries[w] < Attempts(job[w].kind)

TypeInv == TypeOK /\ AttemptsLeft

LEMMA FailAttemptLeaves ==
  ASSUME TypeOK, AttemptsLeft, NEW w \in Workers, NEW excused, FailAttempt(w, excused),
         job[w] # NoJob, job' = job
  PROVE  AttemptsLeft'
<1>1. \A v \in Workers \ {w} : pc'[v] = pc[v] /\ tries'[v] = tries[v]
  BY DEF TypeOK, FailAttempt, Goto
<1>2. tries'[w] = tries[w] + 1 /\ pc'[w] \in {"check", "failed"}
      /\ (pc'[w] = "check" => tries[w] + 1 < Attempts(job[w].kind))
  BY DEF TypeOK, FailAttempt, Goto
<1> QED BY <1>1, <1>2 DEF AttemptsLeft

LEMMA DropJobLeaves ==
  ASSUME TypeOK, AttemptsLeft, NEW w \in Workers, DropJob(w)
  PROVE  /\ job' \in [Workers -> Job \union {NoJob}]
         /\ tries' \in [Workers -> 0..MaxAttempts]
         /\ pc' \in [Workers -> {"off", "login", "idle", "refused"} \union Requesting]
         /\ late' \in [Workers -> 0..(Margin + 1)]
         /\ unlucky' \in [Workers -> BOOLEAN]
         /\ \A v \in Workers :
              /\ v # w => pc'[v] = pc[v] /\ job'[v] = job[v]
              /\ pc'[w] = "idle"
         /\ AttemptsLeft'
<1>1. MaxAttempts \in Nat \ {0} /\ Margin \in Nat
  BY ClientConstants DEF ClientConstants
<1>2. tries' \in [Workers -> 0..MaxAttempts]
  BY <1>1 DEF TypeOK, DropJob
<1>3. late' \in [Workers -> 0..(Margin + 1)]
  BY <1>1 DEF TypeOK, DropJob
<1>4. unlucky' \in [Workers -> BOOLEAN]
  BY Zenon DEF TypeOK, DropJob
<1>5. /\ pc' \in [Workers -> {"off", "login", "idle", "refused"} \union Requesting]
      /\ job' \in [Workers -> Job \union {NoJob}]
      /\ \A v \in Workers : /\ v # w => pc'[v] = pc[v] /\ job'[v] = job[v]
                            /\ pc'[w] = "idle"
  BY DEF TypeOK, DropJob, Goto, Requesting
<1>6. \A v \in Workers \ {w} : pc'[v] = pc[v] /\ tries'[v] = tries[v] /\ job'[v] = job[v]
  BY DEF TypeOK, DropJob, Goto
<1>7. job'[w] = NoJob /\ tries'[w] = 0
  BY DEF TypeOK, DropJob
<1>8. AttemptsLeft'
  BY <1>5, <1>6, <1>7 DEF AttemptsLeft
<1> QED BY <1>2, <1>3, <1>4, <1>5, <1>8

LEMMA EndProcessIsTyped ==
  ASSUME TypeOK, AttemptsLeft, NEW p \in Processes, EndProcess(p)
  PROVE  TypeOK' /\ AttemptsLeft'
<1> USE DEF Requesting, clock
<1>1. /\ Interval \in Nat \ {0} /\ Slip \in Nat /\ Lifetime \in Nat /\ Margin \in Nat
      /\ MaxAttempts \in Nat \ {0} /\ Nobody \notin Workers
  BY ClientConstants DEF ClientConstants
<1>2. /\ run' \in [Processes -> {"off", "running", "resetting"}]
      /\ jobs' \in [Processes -> 0..MaxJobs]
      /\ holder' \in [Sessions -> Workers \union {Nobody}]
      /\ sent' \in [Sessions -> Ages] /\ steps' \in 0..MaxSteps /\ back' \in BOOLEAN
  BY DEF TypeOK, EndProcess
<1>3. /\ since' \in [Sessions -> (-Slip)..(Interval + Slip)]
      /\ tries' \in [Workers -> 0..MaxAttempts]
      /\ nap' \in [Workers -> 0..(Interval + Slip)]
      /\ left' \in [Workers -> (-Slip)..(Lifetime + Slip)]
      /\ life' \in [Workers -> 0..Lifetime]
      /\ late' \in [Workers -> 0..(Margin + 1)]
  BY <1>1 DEF TypeOK, EndProcess
<1>4. unlucky' \in [Workers -> BOOLEAN]
  BY DEF EndProcess
<1>5. counter' \in Count /\ made' \in Count
  <2>1. Nothing \in [Envs \X Roots -> Nat]
    BY DEF Nothing
  <2> QED BY <2>1 DEF TypeOK, EndProcess, Count
<1>6. lapses' \in [Sessions -> Ages]
  <2>1. \A s \in Sessions : lapses[s] \in Ages /\ OneMore(lapses[s]) \in Ages
    BY AgesAreTyped DEF TypeOK
  <2> QED BY <2>1 DEF EndProcess
<1>7. /\ pc' \in [Workers -> {"off", "login", "idle", "refused"} \union Requesting]
      /\ job' \in [Workers -> Job \union {NoJob}]
  BY DEF TypeOK, EndProcess
<1>8. ASSUME NEW v \in Workers
      PROVE  /\ pc'[v] = "sleep" <=> holder'[SessionOf(v)] = v
             /\ pc'[v] \in Requesting => job'[v] \in Job
  <2>1. SessionOf(v) \in Sessions /\ SessionOf(v)[1] = ProcessOf[v]
    BY SessionIsTyped DEF SessionOf
  <2> QED BY <1>1, <2>1 DEF TypeOK, EndProcess
<1>9. AttemptsLeft'
  BY DEF TypeOK, EndProcess, AttemptsLeft
<1> QED BY <1>2, <1>3, <1>4, <1>5, <1>6, <1>7, <1>8, <1>9 DEF TypeOK

\* A request is sent: the histories are counted, and nothing is locked.
LEMMA EmitIsTyped ==
  ASSUME TypeOK, NEW w \in Workers, Emit(w)
  PROVE  /\ sent' \in [Sessions -> Ages] /\ made' \in Count /\ job[w] \in Job
         /\ UNCHANGED <<run, jobs, nap, left, life, since, holder, lapses, counter, clock>>
<1>1. job[w] \in Job /\ SessionOf(w) \in Sessions /\ CounterOf(w) \in Envs \X Roots
      /\ ProcessOf[w] \in Processes
  BY SessionIsTyped, CounterIsTyped DEF TypeOK, Emit, Requesting
<1>2. made' \in Count
  BY <1>1, CountOneMore DEF TypeOK, Emit
<1>3. OneMore(sent[SessionOf(w)]) \in Ages
  BY <1>1, AgesAreTyped DEF TypeOK
<1>4. sent' \in [Sessions -> Ages]
  BY <1>1, <1>3 DEF TypeOK, Emit
<1> QED BY <1>1, <1>2, <1>4 DEF Emit

\* An attempt fails, of a client that is not asleep.
LEMMA FailingIsTyped ==
  ASSUME TypeInv, NEW w \in Workers, NEW excused \in BOOLEAN, FailAttempt(w, excused),
         job[w] \in Job, pc[w] \in {"login", "send"},
         UNCHANGED <<run, jobs, nap, left, life, since, holder, lapses, counter, clock>>,
         sent' \in [Sessions -> Ages], made' \in Count, job' = job
  PROVE  TypeInv'
<1>1. job[w] # NoJob
  BY DEF Job, NoJob
<1>2. tries[w] < Attempts(job[w].kind)
  BY <1>1 DEF TypeInv, AttemptsLeft
<1>3. /\ tries' \in [Workers -> 0..MaxAttempts]
      /\ pc' \in [Workers -> {"off", "login", "idle", "refused"} \union Requesting]
      /\ late' \in [Workers -> 0..(Margin + 1)]
      /\ unlucky' \in [Workers -> BOOLEAN]
      /\ \A v \in Workers :
              /\ pc'[v] = "sleep" <=> holder'[SessionOf(v)] = v
              /\ pc'[v] \in Requesting => job'[v] \in Job
  BY <1>2, FailAttemptIsTyped DEF TypeInv
<1>4. AttemptsLeft'
  BY <1>1, FailAttemptLeaves DEF TypeInv
<1> QED BY <1>3, <1>4 DEF TypeInv, TypeOK, clock

LEMMA InitialTypes == Init => TypeInv
<1> SUFFICES ASSUME Init PROVE TypeInv
  OBVIOUS
<1>1. /\ Interval \in Nat \ {0} /\ Slip \in Nat /\ Lifetime \in Nat /\ Margin \in Nat
      /\ MaxAttempts \in Nat \ {0} /\ Nobody \notin Workers
      /\ MaxJobs \in Nat /\ MaxSteps \in Nat
  BY ClientConstants DEF ClientConstants
<1>2. counter \in Count /\ made \in Count
  BY DEF Init, Count, Nothing
<1>3. sent \in [Sessions -> Ages] /\ lapses \in [Sessions -> Ages]
  BY DEF Init, Ages, Never
<1>4. unlucky \in [Workers -> BOOLEAN] /\ back \in BOOLEAN
  BY DEF Init
<1>5. /\ since \in [Sessions -> (-Slip)..(Interval + Slip)]
      /\ tries \in [Workers -> 0..MaxAttempts]
      /\ nap \in [Workers -> 0..(Interval + Slip)]
      /\ left \in [Workers -> (-Slip)..(Lifetime + Slip)]
      /\ life \in [Workers -> 0..Lifetime]
      /\ late \in [Workers -> 0..(Margin + 1)]
      /\ steps \in 0..MaxSteps /\ jobs \in [Processes -> 0..MaxJobs]
  BY <1>1 DEF Init
<1>6. /\ run \in [Processes -> {"off", "running", "resetting"}]
      /\ holder \in [Sessions -> Workers \union {Nobody}]
      /\ pc \in [Workers -> {"off", "login", "idle", "refused"} \union Requesting]
      /\ job \in [Workers -> Job \union {NoJob}]
  BY DEF Init
<1>7. \A w \in Workers : /\ pc[w] = "sleep" <=> holder[SessionOf(w)] = w
                         /\ pc[w] \in Requesting => job[w] \in Job
  BY <1>1, SessionIsTyped DEF Init, Requesting
<1>8. AttemptsLeft
  BY DEF Init, AttemptsLeft
<1> QED BY <1>2, <1>3, <1>4, <1>5, <1>6, <1>7, <1>8 DEF TypeInv, TypeOK

LEMMA TypesAreKept == Spec => []TypeInv
<1>1. Init => TypeInv
  BY InitialTypes
<1>2. TypeInv /\ [Next]_vars => TypeInv'
  <2> SUFFICES ASSUME TypeInv, [Next]_vars PROVE TypeInv'
    OBVIOUS
  <2>0. /\ Interval \in Nat \ {0} /\ Slip \in Nat /\ Lifetime \in Nat /\ Margin \in Nat
        /\ MaxAttempts \in Nat \ {0} /\ Nobody \notin Workers /\ Leap \in Nat
        /\ MaxJobs \in Nat /\ MaxSteps \in Nat /\ Window \in Nat
    BY ClientConstants DEF ClientConstants
  <2> USE DEF TypeInv, vars, flow, pace, count, clock
  <2>1. CASE \E p \in Processes : StartRun(p)
    BY <2>1, <2>0 DEF TypeOK, AttemptsLeft, StartRun
  <2>2. CASE \E w \in Workers : CreateClient(w)
    BY <2>2 DEF TypeOK, AttemptsLeft, CreateClient, Goto, Requesting
  <2>3. CASE \E w \in Workers, j \in Job : Ask(w, j)
    <3>1. PICK w \in Workers, j \in Job : Ask(w, j)
      BY <2>3
    <3>2. jobs' \in [Processes -> 0..MaxJobs]
      BY <3>1, <2>0, SessionIsTyped DEF TypeOK, Ask
    <3>3. pc' = [pc EXCEPT ![w] = "check"] /\ job' = [job EXCEPT ![w] = j]
      BY <3>1 DEF Ask, Goto
    <3>4. pc' \in [Workers -> {"off", "login", "idle", "refused"} \union Requesting]
      BY <3>3 DEF TypeOK, Requesting
    <3>5. job' \in [Workers -> Job \union {NoJob}]
      BY <3>3 DEF TypeOK
    <3>6. \A v \in Workers : /\ pc'[v] = "sleep" <=> holder'[SessionOf(v)] = v
                             /\ pc'[v] \in Requesting => job'[v] \in Job
      BY <3>1, <3>3 DEF TypeOK, Ask, Requesting
    <3>7. AttemptsLeft'
      <4>1. 0 < Attempts(j.kind) /\ j # NoJob /\ job[w] = NoJob /\ tries[w] = 0
        BY <3>1, <2>0 DEF Attempts, Job, NoJob, Ask, AttemptsLeft
      <4> QED BY <3>1, <3>3, <4>1 DEF AttemptsLeft, Ask, TypeOK
    <3> QED BY <3>1, <3>2, <3>4, <3>5, <3>6, <3>7 DEF TypeOK, Ask
  <2>4. CASE \E w \in Workers : CheckToken(w)
    BY <2>4 DEF TypeOK, AttemptsLeft, CheckToken, Goto, Requesting
  <2>5. CASE \E w \in Workers : Login(w)
    BY <2>5, <2>0 DEF TypeOK, AttemptsLeft, Login, Goto, Requesting
  <2>6. CASE \E w \in Workers : LoginFails(w)
    <3>1. PICK w \in Workers : LoginFails(w)
      BY <2>6
    <3>2. CASE job[w] # NoJob
      <4>1. job[w] \in Job
        BY <3>2 DEF TypeOK
      <4> QED BY <3>1, <3>2, <4>1, FailingIsTyped DEF LoginFails, TypeOK
    <3>3. CASE job[w] = NoJob
      BY <3>1, <3>3 DEF LoginFails, TypeOK, AttemptsLeft, Goto, Requesting
    <3> QED BY <3>2, <3>3
  <2>7. CASE \E w \in Workers : Acquire(w)
    <3>1. PICK w \in Workers : Acquire(w)
      BY <2>7
    <3>2. \A v \in Workers : SessionOf(v) \in Sessions
      BY SessionIsTyped
    <3>3. SleepFor(SessionOf(w)) \in 0..(Interval + Slip)
      BY <3>2, <2>0 DEF TypeOK, SleepFor, Later
    <3>4. nap' \in [Workers -> 0..(Interval + Slip)]
      BY <3>1, <3>3 DEF TypeOK, Acquire
    <3>5. /\ holder' \in [Sessions -> Workers \union {Nobody}]
          /\ pc' \in [Workers -> {"off", "login", "idle", "refused"} \union Requesting]
      BY <3>1 DEF TypeOK, Acquire, Goto, Requesting
    <3>6. \A v \in Workers : /\ pc'[v] = "sleep" <=> holder'[SessionOf(v)] = v
                             /\ pc'[v] \in Requesting => job'[v] \in Job
      BY <3>1, <3>2, <2>0 DEF TypeOK, Acquire, Goto, Requesting
    <3>7. AttemptsLeft'
      BY <3>1 DEF TypeOK, AttemptsLeft, Acquire, Goto
    <3> QED BY <3>1, <3>4, <3>5, <3>6, <3>7 DEF TypeOK, Acquire
  <2>8. CASE \E w \in Workers : TakeSlot(w)
    <3>1. PICK w \in Workers : TakeSlot(w)
      BY <2>8
    <3>2. job[w] \in Job /\ \A v \in Workers : SessionOf(v) \in Sessions
      BY <3>1, SessionIsTyped DEF TypeOK, TakeSlot, Requesting
    <3>3. counter' \in Count
      BY <3>1, <3>2, SessionIsTyped, CounterIsTyped, CountOneMore DEF TypeOK, TakeSlot
    <3>4. since' \in [Sessions -> (-Slip)..(Interval + Slip)]
      <4>1. 0 \in (-Slip)..(Interval + Slip)
        BY <2>0
      <4> QED BY <3>1, <4>1 DEF TypeOK, TakeSlot
    <3>5. /\ holder' \in [Sessions -> Workers \union {Nobody}]
          /\ pc' \in [Workers -> {"off", "login", "idle", "refused"} \union Requesting]
      BY <3>1 DEF TypeOK, TakeSlot, Goto, Requesting
    <3>6. \A v \in Workers : /\ pc'[v] = "sleep" <=> holder'[SessionOf(v)] = v
                             /\ pc'[v] \in Requesting => job'[v] \in Job
      BY <3>1, <3>2, <2>0 DEF TypeOK, TakeSlot, Goto, Requesting
    <3>7. AttemptsLeft'
      BY <3>1 DEF TypeOK, AttemptsLeft, TakeSlot, Goto
    <3> QED BY <3>1, <3>3, <3>4, <3>5, <3>6, <3>7 DEF TypeOK, TakeSlot
  <2>9. CASE \E w \in Workers : Answered(w)
    <3>1. PICK w \in Workers : Answered(w)
      BY <2>9
    <3>2. Emit(w) /\ DropJob(w)
      BY <3>1 DEF Answered
    <3>3. pc[w] = "send"
      BY <3>2 DEF Emit
    <3>4. \A v \in Workers : /\ pc'[v] = "sleep" <=> holder'[SessionOf(v)] = v
                             /\ pc'[v] \in Requesting => job'[v] \in Job
      BY <3>2, <3>3, DropJobLeaves, EmitIsTyped DEF TypeOK, Requesting
    <3> QED BY <3>2, <3>4, DropJobLeaves, EmitIsTyped DEF TypeOK
  <2>10. CASE \E w \in Workers : Refused(w)
    <3>1. PICK w \in Workers : Refused(w)
      BY <2>10
    <3>2. Emit(w) /\ pc[w] = "send" /\ job' = job
          /\ FailAttempt(w, late[w] > Margin \/ back)
      BY <3>1 DEF Refused, Emit
    <3>3. (late[w] > Margin \/ back) \in BOOLEAN
      BY Zenon
    <3> QED BY <3>2, <3>3, EmitIsTyped, FailingIsTyped
  <2>11. CASE \E w \in Workers : Unanswered(w)
    <3>1. PICK w \in Workers : Unanswered(w)
      BY <2>11
    <3>2. Emit(w) /\ pc[w] = "send" /\ job' = job /\ FailAttempt(w, TRUE)
      BY <3>1 DEF Unanswered, Emit
    <3> QED BY <3>2, EmitIsTyped, FailingIsTyped
  <2>12. CASE \E w \in Workers : GiveUp(w)
    <3>1. PICK w \in Workers : GiveUp(w)
      BY <2>12
    <3>2. DropJob(w) /\ pc[w] = "failed"
      BY <3>1 DEF GiveUp
    <3>3. \A v \in Workers : /\ pc'[v] = "sleep" <=> holder'[SessionOf(v)] = v
                             /\ pc'[v] \in Requesting => job'[v] \in Job
      BY <3>1, <3>2, DropJobLeaves DEF TypeOK, Requesting, GiveUp
    <3> QED BY <3>1, <3>2, <3>3, DropJobLeaves DEF TypeOK, GiveUp
  <2>13. CASE \E p \in Processes : StopRun(p) \/ ResetCounters(p) \/ Die(p)
    <3>1. PICK p \in Processes : StopRun(p) \/ ResetCounters(p) \/ Die(p)
      BY <2>13
    <3>2. CASE EndProcess(p)
      BY <3>2, EndProcessIsTyped
    <3>3. CASE ~EndProcess(p)
      BY <3>1, <3>3 DEF StopRun, ResetCounters, Die, TypeOK, AttemptsLeft
    <3> QED BY <3>2, <3>3
  <2>14. CASE Tick
    <3>1. sent' \in [Sessions -> Ages] /\ lapses' \in [Sessions -> Ages]
      BY <2>14, AgesAreTyped DEF TypeOK, Tick
    <3>2. /\ since' \in [Sessions -> (-Slip)..(Interval + Slip)]
          /\ left' \in [Workers -> (-Slip)..(Lifetime + Slip)]
          /\ life' \in [Workers -> 0..Lifetime]
      BY <2>14, <2>0 DEF TypeOK, Tick, Later, Sooner
    <3>3. /\ nap' \in [Workers -> 0..(Interval + Slip)]
          /\ late' \in [Workers -> 0..(Margin + 1)]
      BY <2>14, <2>0 DEF TypeOK, Tick, Later, Sooner
    <3> QED BY <2>14, <3>1, <3>2, <3>3 DEF TypeOK, Tick, AttemptsLeft
  <2>15. CASE StepForward
    <3>1. lapses' \in [Sessions -> Ages]
      BY <2>15, AgesAreTyped DEF TypeOK, StepForward
    <3>2. /\ since' \in [Sessions -> (-Slip)..(Interval + Slip)]
          /\ left' \in [Workers -> (-Slip)..(Lifetime + Slip)]
          /\ steps' \in 0..MaxSteps
      BY <2>15, <2>0 DEF TypeOK, StepForward, Later, Sooner
    <3> QED BY <2>15, <3>1, <3>2 DEF TypeOK, StepForward, AttemptsLeft
  <2>16. CASE StepBack
    <3>1. /\ since' \in [Sessions -> (-Slip)..(Interval + Slip)]
          /\ left' \in [Workers -> (-Slip)..(Lifetime + Slip)]
          /\ steps' \in 0..MaxSteps
      BY <2>16, <2>0 DEF TypeOK, StepBack, Later, Sooner
    <3> QED BY <2>16, <3>1 DEF TypeOK, StepBack, AttemptsLeft
  <2>17. CASE UNCHANGED vars
    BY <2>17 DEF TypeOK, AttemptsLeft
  <2> QED
    BY <2>1, <2>2, <2>3, <2>4, <2>5, <2>6, <2>7, <2>8, <2>9, <2>10, <2>11, <2>12, <2>13,
       <2>14, <2>15, <2>16, <2>17 DEF Next, Work, Trouble
<1> QED BY <1>1, <1>2, PTL DEF Spec

\* Types, and the mutual exclusion of the paced session: whoever sleeps holds the
\* mutex, and no path leaves it locked; for TypeOK.
THEOREM TypeCorrect == Spec => []TypeOK
<1>1. TypeInv => TypeOK
  BY DEF TypeInv
<1> QED BY <1>1, TypesAreKept, PTL

-----------------------------------------------------------------------------
(* Why a request is given up.  A token that was good for longer than the   *)
(* margin when it was checked is good until the margin has passed: as long *)
(* as the clock has not been set back, a refusal means that more time than *)
(* the margin went by.                                                     *)

Trusted(w) ==
    /\ ~back => left[w] <= life[w]
    /\ pc[w] \notin Waiting => late[w] = 0
    /\ pc[w] \in Waiting /\ ~back => life[w] + late[w] > Margin

Fortune == \A w \in Workers : unlucky[w] /\ Trusted(w)

\* A failed attempt that has an excuse.
LEMMA ExcusedAttempt ==
  ASSUME TypeOK, Fortune, NEW w \in Workers, FailAttempt(w, TRUE),
         UNCHANGED <<left, life, back>>
  PROVE  Fortune'
<1>1. \A v \in Workers : unlucky'[v]
  BY Zenon DEF TypeOK, FailAttempt, Fortune
<1>2. late'[w] = 0 /\ pc'[w] \in {"check", "failed"}
  BY DEF TypeOK, FailAttempt, Goto
<1>3. \A v \in Workers \ {w} : late'[v] = late[v] /\ pc'[v] = pc[v]
  BY DEF TypeOK, FailAttempt, Goto
<1>4. ASSUME NEW v \in Workers PROVE Trusted(v)'
  BY <1>2, <1>3 DEF Fortune, Trusted, Waiting
<1> QED BY <1>1, <1>4 DEF Fortune

LEMMA DroppedRequest ==
  ASSUME TypeOK, Fortune, NEW w \in Workers, DropJob(w), UNCHANGED <<left, life, back>>
  PROVE  Fortune'
<1>1. \A v \in Workers : unlucky'[v]
  BY Zenon DEF TypeOK, DropJob, Fortune
<1>2. late'[w] = 0 /\ pc'[w] = "idle"
  BY DEF TypeOK, DropJob, Goto
<1>3. \A v \in Workers \ {w} : late'[v] = late[v] /\ pc'[v] = pc[v]
  BY DEF TypeOK, DropJob, Goto
<1>4. ASSUME NEW v \in Workers PROVE Trusted(v)'
  BY <1>2, <1>3 DEF Fortune, Trusted, Waiting
<1> QED BY <1>1, <1>4 DEF Fortune

LEMMA EndedProcess ==
  ASSUME TypeOK, Fortune, NEW p \in Processes, EndProcess(p)
  PROVE  Fortune'
<1>1. \A v \in Workers : unlucky'[v]
  BY DEF EndProcess, Fortune
<1>2. ASSUME NEW v \in Workers PROVE Trusted(v)'
  <2>1. Slip \in Nat /\ back' = back
    BY ClientConstants DEF ClientConstants, EndProcess, clock
  <2>2. CASE ProcessOf[v] = p
    BY <2>1, <2>2 DEF EndProcess, Trusted, Waiting
  <2>3. CASE ProcessOf[v] # p
    BY <2>1, <2>3 DEF EndProcess, Trusted, Fortune
  <2> QED BY <2>2, <2>3
<1> QED BY <1>1, <1>2 DEF Fortune

\* The inductive invariant behind GivesUpOnlyWhenUnlucky.
LEMMA FortuneIsKept ==
  ASSUME TypeInv, Fortune, [Next]_vars
  PROVE  Fortune'
<1>0. /\ Lifetime \in Nat /\ Margin \in Nat /\ Margin < Lifetime /\ Slip \in Nat /\ Leap \in Nat
      /\ \A w \in Workers : /\ left[w] \in (-Slip)..(Lifetime + Slip)
                            /\ life[w] \in 0..Lifetime /\ late[w] \in 0..(Margin + 1)
  BY ClientConstants DEF ClientConstants, TypeInv, TypeOK
<1>t. TypeOK
  BY DEF TypeInv
<1> USE DEF vars, flow, pace, count, clock
<1>1. CASE \E p \in Processes : StartRun(p)
  BY <1>1 DEF StartRun, Fortune, Trusted
<1>2. CASE \E w \in Workers : CreateClient(w)
  BY <1>2 DEF CreateClient, Goto, Fortune, Trusted, Waiting, TypeInv, TypeOK
<1>3. CASE \E w \in Workers, j \in Job : Ask(w, j)
  BY <1>3 DEF Ask, Goto, Fortune, Trusted, Waiting, TypeInv, TypeOK
<1>4. CASE \E w \in Workers : CheckToken(w)
  BY <1>0, <1>4 DEF CheckToken, NeedsRenewal, Goto, Fortune, Trusted, Waiting, TypeInv, TypeOK
<1>5. CASE \E w \in Workers : Login(w)
  BY <1>0, <1>5 DEF Login, Goto, Fortune, Trusted, Waiting, TypeInv, TypeOK
<1>6. CASE \E w \in Workers : LoginFails(w)
  <2>1. PICK w \in Workers : LoginFails(w)
    BY <1>6
  <2>2. CASE FailAttempt(w, TRUE)
    BY <2>1, <2>2, <1>t, ExcusedAttempt DEF LoginFails
  <2>3. CASE Goto(w, "refused") /\ UNCHANGED <<tries, unlucky, late>>
    BY <2>1, <2>3, <1>t DEF LoginFails, Goto, Fortune, Trusted, Waiting, TypeOK
  <2> QED BY <2>1, <2>2, <2>3 DEF LoginFails
<1>7. CASE \E w \in Workers : Acquire(w)
  BY <1>7, <1>t DEF Acquire, Goto, Fortune, Trusted, Waiting, TypeOK
<1>8. CASE \E w \in Workers : TakeSlot(w)
  BY <1>8, <1>t DEF TakeSlot, Goto, Fortune, Trusted, Waiting, TypeOK
<1>9. CASE \E w \in Workers : Answered(w)
  BY <1>9, <1>t, DroppedRequest DEF Answered, Emit
<1>10. CASE \E w \in Workers : Refused(w)
  <2>1. PICK w \in Workers : Refused(w)
    BY <1>10
  <2>2. life[w] = 0 /\ pc[w] = "send" /\ UNCHANGED <<left, life, back>>
        /\ FailAttempt(w, late[w] > Margin \/ back)
    BY <2>1 DEF Refused, Emit
  <2>3. late[w] > Margin \/ back
    BY <1>0, <2>2 DEF Fortune, Trusted, Waiting
  <2>4. (late[w] > Margin \/ back) = TRUE
    BY <2>3
  <2>5. FailAttempt(w, TRUE)
    BY <2>2, <2>4
  <2> QED BY <2>2, <2>5, <1>t, ExcusedAttempt
<1>11. CASE \E w \in Workers : Unanswered(w)
  BY <1>11, <1>t, ExcusedAttempt DEF Unanswered, Emit
<1>12. CASE \E w \in Workers : GiveUp(w)
  BY <1>12, <1>t, DroppedRequest DEF GiveUp
<1>13. CASE \E p \in Processes : StopRun(p) \/ ResetCounters(p) \/ Die(p)
  <2>1. PICK p \in Processes : StopRun(p) \/ ResetCounters(p) \/ Die(p)
    BY <1>13
  <2>2. CASE EndProcess(p)
    BY <2>2, <1>t, EndedProcess
  <2>3. CASE ~EndProcess(p)
    BY <2>1, <2>3 DEF StopRun, ResetCounters, Die, Fortune, Trusted
  <2> QED BY <2>2, <2>3
<1>14. CASE Tick
  <2>1. ASSUME NEW w \in Workers PROVE Trusted(w)'
    <3>1. /\ left'[w] = Later(left[w] - 1, -Slip) /\ life'[w] = Later(life[w] - 1, 0)
          /\ late'[w] = IF pc[w] \in Waiting THEN Sooner(late[w] + 1, Margin + 1) ELSE 0
          /\ pc' = pc /\ back' = back
      BY <1>14 DEF Tick
    <3>2. Trusted(w)
      BY DEF Fortune
    <3> QED BY <1>0, <3>1, <3>2 DEF Trusted, Later, Sooner
  <2>2. \A w \in Workers : unlucky'[w]
    BY <1>14 DEF Tick, Fortune
  <2> QED BY <2>1, <2>2 DEF Fortune
<1>15. CASE StepForward
  <2>1. ASSUME NEW w \in Workers PROVE Trusted(w)'
    <3>1. /\ left'[w] = Later(left[w] - Leap, -Slip) /\ life' = life /\ late' = late
          /\ pc' = pc /\ back' = back
      BY <1>15 DEF StepForward
    <3>2. Trusted(w)
      BY DEF Fortune
    <3> QED BY <1>0, <3>1, <3>2 DEF Trusted, Later
  <2>2. \A w \in Workers : unlucky'[w]
    BY <1>15 DEF StepForward, Fortune
  <2> QED BY <2>1, <2>2 DEF Fortune
<1>16. CASE StepBack
  BY <1>16 DEF StepBack, Fortune, Trusted
<1>17. CASE UNCHANGED vars
  BY <1>17 DEF Fortune, Trusted
<1> QED
  BY <1>1, <1>2, <1>3, <1>4, <1>5, <1>6, <1>7, <1>8, <1>9, <1>10, <1>11, <1>12, <1>13,
     <1>14, <1>15, <1>16, <1>17 DEF Next, Work, Trouble

\* No request is given up without a cause outside the client, whatever the interval,
\* the lifetime of a token and the margin; for GivesUpOnlyWhenUnlucky.
THEOREM GivenUpForACause == Spec => []GivesUpOnlyWhenUnlucky
<1>1. Init => Fortune
  <2> SUFFICES ASSUME Init PROVE Fortune
    OBVIOUS
  <2>1. Slip \in Nat
    BY ClientConstants DEF ClientConstants
  <2>2. ASSUME NEW w \in Workers PROVE unlucky[w] /\ Trusted(w)
    BY <2>1 DEF Init, Trusted, Waiting
  <2> QED BY <2>2 DEF Fortune
<1>2. TypeInv /\ Fortune /\ [Next]_vars => Fortune'
  BY FortuneIsKept
<1>3. Fortune => GivesUpOnlyWhenUnlucky
  BY DEF Fortune, GivesUpOnlyWhenUnlucky
<1> QED BY <1>1, <1>2, <1>3, TypesAreKept, PTL DEF Spec

-----------------------------------------------------------------------------
(* The counters: a request is counted when its turn has come, and sent in  *)
(* the next step; in between it is among those about to be sent.           *)

Sending(p, k) == {w \in WorkersOf(p) : pc[w] = "send" /\ CounterOf(w) = k}

LEMMA SendingIsFinite ==
  ASSUME NEW p \in Processes, NEW k \in Envs \X Roots
  PROVE  IsFiniteSet(Sending(p, k)) /\ Cardinality(Sending(p, k)) \in Nat
<1>1. IsFiniteSet(Workers) /\ Sending(p, k) \subseteq Workers
  BY ClientConstants DEF ClientConstants, Sending, WorkersOf
<1> QED BY <1>1, FS_Subset, FS_CardinalityType

\* Nobody is about to send who was not before, nor the other way round.
LEMMA SendingUnchanged ==
  ASSUME CountersTellTruth, counter' = counter, made' = made,
         \A w \in Workers : /\ pc'[w] = "send" <=> pc[w] = "send"
                            /\ pc[w] = "send" => job'[w] = job[w]
  PROVE  CountersTellTruth'
<1>1. ASSUME NEW p \in Processes, NEW k \in Envs \X Roots
      PROVE  Sending(p, k)' = Sending(p, k)
  BY DEF Sending, WorkersOf, CounterOf
<1> QED BY <1>1 DEF CountersTellTruth, Sending

\* A request that is sent moves from those about to be sent to those made.
LEMMA SentIsCounted ==
  ASSUME TypeOK, CountersTellTruth, NEW w \in Workers, Emit(w), pc'[w] # "send",
         \A v \in Workers \ {w} : pc'[v] = pc[v] /\ job'[v] = job[v]
  PROVE  CountersTellTruth'
<1> DEFINE q == ProcessOf[w]
           c == CounterOf(w)
<1>1. job[w] \in Job /\ q \in Processes /\ c \in Envs \X Roots /\ pc[w] = "send"
  BY SessionIsTyped, CounterIsTyped DEF TypeOK, Emit, Requesting
<1>2. /\ counter' = counter /\ made' = [made EXCEPT ![q][c] = @ + 1] /\ made \in Count
      /\ counter \in Count
  BY DEF Emit, TypeOK
<1>3. ASSUME NEW p \in Processes, NEW k \in Envs \X Roots
      PROVE  counter'[p][k] = made'[p][k] + Cardinality(Sending(p, k)')
  <2>1. /\ counter[p][k] = made[p][k] + Cardinality(Sending(p, k))
        /\ made[p][k] \in Nat /\ counter[p][k] \in Nat
    BY <1>2 DEF CountersTellTruth, Sending, Count
  <2>2. CASE p = q /\ k = c
    <3>1. w \in Sending(p, k) /\ Sending(p, k)' = Sending(p, k) \ {w}
      BY <1>1, <2>2 DEF Sending, WorkersOf, CounterOf
    <3>2. Cardinality(Sending(p, k)') = Cardinality(Sending(p, k)) - 1
      <4>1. IsFiniteSet(Sending(p, k))
        BY SendingIsFinite
      <4>2. Cardinality(Sending(p, k) \ {w}) = Cardinality(Sending(p, k)) - 1
        BY <3>1, <4>1, FS_RemoveElement
      <4> QED BY <3>1, <4>2
    <3>3. made'[p][k] = made[p][k] + 1
      BY <1>1, <1>2, <2>2 DEF Count
    <3>4. counter'[p][k] = counter[p][k]
      BY <1>2
    <3>5. Cardinality(Sending(p, k)) \in Nat
      BY SendingIsFinite
    <3> HIDE DEF q, c
    <3> QED BY <2>1, <3>2, <3>3, <3>4, <3>5
  <2>3. CASE ~(p = q /\ k = c)
    <3>1. Sending(p, k)' = Sending(p, k)
      BY <1>1, <2>3 DEF Sending, WorkersOf, CounterOf
    <3>2. made'[p][k] = made[p][k]
      BY <1>1, <1>2, <2>3 DEF Count
    <3> QED BY <2>1, <3>1, <3>2, <1>2
  <2> QED BY <2>2, <2>3
<1> QED BY <1>3 DEF CountersTellTruth, Sending

\* A request whose turn has come is counted, and is among those about to be sent.
LEMMA SlotIsCounted ==
  ASSUME TypeOK, CountersTellTruth, NEW w \in Workers, TakeSlot(w)
  PROVE  CountersTellTruth'
<1> DEFINE q == ProcessOf[w]
           c == CounterOf(w)
<1>1. job[w] \in Job /\ q \in Processes /\ c \in Envs \X Roots /\ pc[w] = "sleep"
  BY SessionIsTyped, CounterIsTyped DEF TypeOK, TakeSlot, Requesting
<1>2. /\ counter' = [counter EXCEPT ![q][c] = @ + 1] /\ made' = made /\ made \in Count
      /\ counter \in Count /\ job' = job /\ pc' = [pc EXCEPT ![w] = "send"]
      /\ pc'[w] = "send" /\ \A v \in Workers \ {w} : pc'[v] = pc[v]
  BY DEF TakeSlot, TypeOK, Goto
<1>3. ASSUME NEW p \in Processes, NEW k \in Envs \X Roots
      PROVE  counter'[p][k] = made'[p][k] + Cardinality(Sending(p, k)')
  <2>1. /\ counter[p][k] = made[p][k] + Cardinality(Sending(p, k))
        /\ made[p][k] \in Nat /\ counter[p][k] \in Nat
    BY <1>2 DEF CountersTellTruth, Sending, Count
  <2>2. CASE p = q /\ k = c
    <3>1. w \notin Sending(p, k) /\ Sending(p, k)' = Sending(p, k) \union {w}
      BY <1>1, <1>2, <2>2 DEF Sending, WorkersOf, CounterOf
    <3>2. Cardinality(Sending(p, k)') = Cardinality(Sending(p, k)) + 1
      BY <3>1, SendingIsFinite, FS_AddElement
    <3>3. counter'[p][k] = counter[p][k] + 1
      BY <1>1, <1>2, <2>2 DEF Count
    <3> QED BY <2>1, <3>2, <3>3, SendingIsFinite, <1>2
  <2>3. CASE ~(p = q /\ k = c)
    <3>1. Sending(p, k)' = Sending(p, k)
      BY <1>1, <1>2, <2>3 DEF Sending, WorkersOf, CounterOf
    <3>2. counter'[p][k] = counter[p][k]
      BY <1>1, <1>2, <2>3 DEF Count
    <3> QED BY <2>1, <3>1, <3>2, <1>2
  <2> QED BY <2>2, <2>3
<1> QED BY <1>3 DEF CountersTellTruth, Sending

LEMMA EndResetsCounters ==
  ASSUME TypeOK, CountersTellTruth, NEW q \in Processes, EndProcess(q)
  PROVE  CountersTellTruth'
<1>1. ASSUME NEW p \in Processes, NEW k \in Envs \X Roots
      PROVE  counter'[p][k] = made'[p][k] + Cardinality(Sending(p, k)')
  <2>1. CASE p = q
    <3>1. Sending(p, k)' = {}
      BY <2>1 DEF Sending, WorkersOf, EndProcess
    <3>2. counter'[p][k] = 0 /\ made'[p][k] = 0
      BY <2>1 DEF EndProcess, TypeOK, Count, Nothing
    <3> QED BY <3>1, <3>2, FS_EmptySet
  <2>2. CASE p # q
    <3>1. Sending(p, k)' = Sending(p, k)
      BY <2>2 DEF Sending, WorkersOf, EndProcess, CounterOf
    <3>2. counter'[p] = counter[p] /\ made'[p] = made[p]
      BY <2>2 DEF EndProcess, TypeOK, Count
    <3> QED BY <3>1, <3>2 DEF CountersTellTruth, Sending
  <2> QED BY <2>1, <2>2
<1> QED BY <1>1 DEF CountersTellTruth, Sending

\* What a run reports is what it has asked of the library, however its clients
\* interleave and whatever fails; for CountersTellTruth.
THEOREM CountersAreTrue == Spec => []CountersTellTruth
<1>1. Init => CountersTellTruth
  <2> SUFFICES ASSUME Init, NEW p \in Processes, NEW k \in Envs \X Roots
               PROVE  counter[p][k] = made[p][k] + Cardinality(Sending(p, k))
    BY DEF CountersTellTruth, Sending
  <2>1. Sending(p, k) = {}
    BY DEF Init, Sending, WorkersOf
  <2>2. counter[p][k] = 0 /\ made[p][k] = 0
    BY DEF Init, Nothing
  <2> QED BY <2>1, <2>2, FS_EmptySet
<1>2. TypeOK /\ CountersTellTruth /\ [Next]_vars => CountersTellTruth'
  <2> SUFFICES ASSUME TypeOK, CountersTellTruth, [Next]_vars PROVE CountersTellTruth'
    OBVIOUS
  <2> USE DEF vars, flow, pace, count, clock
  <2>1. CASE \E p \in Processes : StartRun(p)
    BY <2>1, SendingUnchanged DEF StartRun
  <2>2. CASE \E w \in Workers : CreateClient(w)
    BY <2>2, SendingUnchanged DEF CreateClient, Goto, TypeOK
  <2>3. CASE \E w \in Workers, j \in Job : Ask(w, j)
    <3>1. PICK w \in Workers, j \in Job : Ask(w, j)
      BY <2>3
    <3>2. /\ counter' = counter /\ made' = made
          /\ \A v \in Workers : /\ pc'[v] = "send" <=> pc[v] = "send"
                                /\ pc[v] = "send" => job'[v] = job[v]
      BY <3>1 DEF Ask, Goto, TypeOK
    <3> QED BY <3>2, SendingUnchanged
  <2>4. CASE \E w \in Workers : CheckToken(w)
    BY <2>4, SendingUnchanged DEF CheckToken, Goto, TypeOK
  <2>5. CASE \E w \in Workers : Login(w)
    BY <2>5, SendingUnchanged DEF Login, Goto, TypeOK
  <2>6. CASE \E w \in Workers : LoginFails(w)
    BY <2>6, SendingUnchanged DEF LoginFails, FailAttempt, Goto, TypeOK
  <2>7. CASE \E w \in Workers : Acquire(w)
    BY <2>7, SendingUnchanged DEF Acquire, Goto, TypeOK
  <2>8. CASE \E w \in Workers : TakeSlot(w)
    BY <2>8, SlotIsCounted
  <2>9. CASE \E w \in Workers : Answered(w)
    <3>1. PICK w \in Workers : Answered(w)
      BY <2>9
    <3>2. pc'[w] # "send" /\ \A v \in Workers \ {w} : pc'[v] = pc[v] /\ job'[v] = job[v]
      BY <3>1 DEF Answered, DropJob, Goto, TypeOK
    <3> QED BY <3>1, <3>2, SentIsCounted DEF Answered
  <2>10. CASE \E w \in Workers : Refused(w) \/ Unanswered(w)
    <3>1. PICK w \in Workers : Refused(w) \/ Unanswered(w)
      BY <2>10
    <3>2. Emit(w) /\ job' = job
          /\ pc'[w] # "send" /\ \A v \in Workers \ {w} : pc'[v] = pc[v]
      BY <3>1 DEF Refused, Unanswered, FailAttempt, Goto, TypeOK
    <3> QED BY <3>2, SentIsCounted
  <2>11. CASE \E w \in Workers : GiveUp(w)
    <3>1. PICK w \in Workers : GiveUp(w)
      BY <2>11
    <3>2. /\ counter' = counter /\ made' = made
          /\ \A v \in Workers : /\ pc'[v] = "send" <=> pc[v] = "send"
                                /\ pc[v] = "send" => job'[v] = job[v]
      BY <3>1 DEF GiveUp, DropJob, Goto, TypeOK
    <3> QED BY <3>2, SendingUnchanged
  <2>12. CASE \E p \in Processes : StopRun(p) \/ ResetCounters(p) \/ Die(p)
    <3>1. PICK p \in Processes : StopRun(p) \/ ResetCounters(p) \/ Die(p)
      BY <2>12
    <3>2. CASE EndProcess(p)
      BY <3>2, EndResetsCounters
    <3>3. CASE ~EndProcess(p)
      BY <3>1, <3>3, SendingUnchanged DEF StopRun, ResetCounters, Die
    <3> QED BY <3>2, <3>3
  <2>13. CASE Tick \/ StepForward \/ StepBack
    BY <2>13, SendingUnchanged DEF Tick, StepForward, StepBack
  <2>14. CASE UNCHANGED vars
    BY <2>14, SendingUnchanged
  <2> QED
    BY <2>1, <2>2, <2>3, <2>4, <2>5, <2>6, <2>7, <2>8, <2>9, <2>10, <2>11, <2>12, <2>13,
       <2>14 DEF Next, Work, Trouble
<1> QED BY <1>1, <1>2, TypeCorrect, PTL DEF Spec
-----------------------------------------------------------------------------
(* The histories: how many events there are up to an age.                  *)

LEMMA EventsMembers ==
  ASSUME NEW ages, NEW most, NEW x
  PROVE  x \in Events(ages, most) <=> \E b \in 0..most : \E k \in 1..ages[b] : x = <<b, k>>
BY DEF Events

LEMMA EventsAreFinite ==
  ASSUME NEW ages \in Ages, NEW a \in 0..Window
  PROVE  IsFiniteSet(Events(ages, a)) /\ UpTo(ages, a) \in Nat
<1> DEFINE of(b) == {b} \X (1..ages[b])
           F == [b \in 0..a |-> of(b)]
           T == {of(b) : b \in 0..a}
<1>1. Window \in Nat /\ a \in Nat /\ \A b \in 0..a : b \in 0..Window /\ ages[b] \in Nat
  BY ClientConstants DEF ClientConstants, Ages
<1>2. ASSUME NEW b \in 0..a PROVE IsFiniteSet(of(b))
  <2>1. ages[b] \in Int
    BY <1>1
  <2>2. IsFiniteSet(1..ages[b])
    BY <2>1, FS_Interval
  <2>3. IsFiniteSet({b})
    BY FS_Singleton
  <2> QED BY <2>2, <2>3, FS_Product
<1>3. IsFiniteSet(0..a)
  BY <1>1, FS_Interval
<1>4. IsFiniteSet(T)
  <2> HIDE DEF of
  <2>1. F \in [0..a -> T] /\ \A t \in T : \E b \in 0..a : F[b] = t
    OBVIOUS
  <2>2. F \in Surjection(0..a, T)
    BY <2>1, Fun_IsSurj
  <2> QED BY <1>3, <2>2, FS_Surjection
<1>5. IsFiniteSet(UNION T)
  <2>1. \A t \in T : IsFiniteSet(t)
    BY <1>2
  <2> QED BY <1>4, <2>1, FS_UNION
<1>6. IsFiniteSet(Events(ages, a))
  BY <1>5 DEF Events
<1> QED BY <1>6, FS_CardinalityType DEF UpTo

\* One more event of age 0 is one more up to any age.
LEMMA OneMoreUpTo ==
  ASSUME NEW ages \in Ages, NEW a \in 0..Window
  PROVE  UpTo(OneMore(ages), a) = UpTo(ages, a) + 1
<1> DEFINE n == ages[0]
           x == <<0, n + 1>>
<1>1. Window \in Nat /\ a \in Nat /\ n \in Nat /\ 0 \in 0..a
  BY ClientConstants DEF ClientConstants, Ages
<1>2. OneMore(ages)[0] = n + 1 /\ \A b \in 0..a : b # 0 => OneMore(ages)[b] = ages[b]
  BY <1>1 DEF OneMore, Ages
<1>3. Events(OneMore(ages), a) = Events(ages, a) \union {x}
  <2>1. 1..(n + 1) = (1..n) \union {n + 1}
    BY <1>1
  <2>2. ASSUME NEW y PROVE y \in Events(OneMore(ages), a) <=> y \in Events(ages, a) \union {x}
    <3>1. y \in Events(OneMore(ages), a) <=>
            \E b \in 0..a : \E k \in 1..OneMore(ages)[b] : y = <<b, k>>
      BY EventsMembers
    <3>2. y \in Events(ages, a) <=> \E b \in 0..a : \E k \in 1..ages[b] : y = <<b, k>>
      BY EventsMembers
    <3> QED BY <1>1, <1>2, <2>1, <3>1, <3>2
  <2> QED BY <2>2
<1>4. x \notin Events(ages, a)
  <2>1. n + 1 \notin 1..n
    BY <1>1
  <2> QED BY <2>1, EventsMembers
<1>5. IsFiniteSet(Events(ages, a))
  BY EventsAreFinite
<1> HIDE DEF x
<1> QED BY <1>3, <1>4, <1>5, FS_AddElement DEF UpTo

\* A tick moves the events up to an age to the next age.
LEMMA AgedUpTo ==
  ASSUME NEW ages \in Ages, NEW a \in 0..Window
  PROVE  UpTo(Aged(ages), a) = IF a = 0 THEN 0 ELSE UpTo(ages, a - 1)
<1>1. Window \in Nat /\ a \in Nat /\ \A b \in 0..Window : ages[b] \in Nat
  BY ClientConstants DEF ClientConstants, Ages
<1>2. Aged(ages)[0] = 0 /\ \A b \in 1..a : Aged(ages)[b] = ages[b - 1]
  BY <1>1 DEF Aged
<1>3. CASE a = 0
  <2>1. Events(Aged(ages), a) = {}
    <3>1. 1..Aged(ages)[0] = {}
      BY <1>2
    <3>2. \A b \in 0..a : b = 0
      BY <1>3
    <3> QED BY <3>1, <3>2, EventsMembers
  <2> QED BY <1>3, <2>1, FS_EmptySet DEF UpTo
<1>4. CASE a # 0
  <2> DEFINE S == Events(ages, a - 1)
             T == Events(Aged(ages), a)
             F == [x \in S |-> <<x[1] + 1, x[2]>>]
  <2>1. a - 1 \in 0..Window /\ a - 1 \in Nat
    BY <1>1, <1>4
  <2>2. \A x : x \in S <=> \E b \in 0..(a - 1) : \E k \in 1..ages[b] : x = <<b, k>>
    BY EventsMembers
  <2>3. \A x : x \in T <=> \E b \in 1..a : \E k \in 1..ages[b - 1] : x = <<b, k>>
    <3>1. 1..Aged(ages)[0] = {}
      BY <1>2
    <3>2. \A x : x \in T <=> \E b \in 0..a : \E k \in 1..Aged(ages)[b] : x = <<b, k>>
      BY EventsMembers
    <3>3. \A b \in 0..a : b = 0 \/ b \in 1..a
      BY <1>1
    <3>4. \A b \in 1..a : b \in 0..a
      BY <1>1
    <3> HIDE DEF S, T
    <3> QED BY <1>2, <3>1, <3>2, <3>3, <3>4
  <2> HIDE DEF S, T
  <2>4. ASSUME NEW x \in S PROVE F[x] \in T
    <3>1. PICK b \in 0..(a - 1) : \E k \in 1..ages[b] : x = <<b, k>>
      BY <2>2
    <3>1k. PICK k \in 1..ages[b] : x = <<b, k>>
      BY <3>1
    <3>2. b + 1 \in 1..a /\ (b + 1) - 1 = b
      BY <2>1, <3>1
    <3>3. <<b + 1, k>> \in T
      BY <2>3, <3>1k, <3>2
    <3>4. F[x] = <<b + 1, k>>
      BY <3>1k
    <3> QED BY <3>3, <3>4
  <2>5. ASSUME NEW x \in S, NEW y \in S, F[x] = F[y] PROVE x = y
    <3>1. PICK b \in 0..(a - 1) : \E k \in 1..ages[b] : x = <<b, k>>
      BY <2>2
    <3>1k. PICK k \in 1..ages[b] : x = <<b, k>>
      BY <3>1
    <3>2. PICK c \in 0..(a - 1) : \E l \in 1..ages[c] : y = <<c, l>>
      BY <2>2
    <3>2l. PICK l \in 1..ages[c] : y = <<c, l>>
      BY <3>2
    <3>3. <<b + 1, k>> = <<c + 1, l>>
      BY <2>5, <3>1k, <3>2l
    <3>4. b + 1 = c + 1 /\ k = l
      BY <3>3
    <3> QED BY <2>1, <3>1k, <3>2l, <3>4
  <2>6. ASSUME NEW z \in T PROVE \E x \in S : F[x] = z
    <3>1. PICK b \in 1..a : \E k \in 1..ages[b - 1] : z = <<b, k>>
      BY <2>3
    <3>1k. PICK k \in 1..ages[b - 1] : z = <<b, k>>
      BY <3>1
    <3>2. b - 1 \in 0..(a - 1) /\ (b - 1) + 1 = b
      BY <1>1, <3>1
    <3>3. <<b - 1, k>> \in S
      BY <2>2, <3>1k, <3>2
    <3>4. F[<<b - 1, k>>] = z
      BY <3>1k, <3>2, <3>3
    <3> QED BY <3>3, <3>4
  <2>7. F \in Bijection(S, T)
    <3>1. F \in [S -> T]
      BY <2>4
    <3> HIDE DEF F
    <3> QED BY <3>1, <2>5, <2>6, Fun_IsBij
  <2>8. IsFiniteSet(S)
    BY <2>1, EventsAreFinite DEF S
  <2>9. Cardinality(T) = Cardinality(S)
    BY <2>7, <2>8, Fun_ExistsBij, FS_Bijection
  <2> QED BY <1>4, <2>9 DEF UpTo, S, T
<1> QED BY <1>3, <1>4
-----------------------------------------------------------------------------
(* The pacing.  A worker may send only while it holds a turn, and the next  *)
(* turn comes after a wait: what is left of it, and the requests whose turn *)
(* has come, are what the history must leave room for.                      *)

Own(s) == {w \in Workers : SessionOf(w) = s}
Going(s) == {w \in Workers : SessionOf(w) = s /\ pc[w] = "send"}

\* How long at least it takes until the next turn of a session, short of an
\* interruption of the pacing.
Wait(s) ==
    Sooner(Sooner(Interval, SleepFor(s)),
           IF holder[s] = Nobody THEN Interval ELSE nap[holder[s]])

WithinBudget(s, a) ==
    UpTo(sent[s], a) + Cardinality(Going(s))
        <= Cardinality(Own(s)) + UpTo(lapses[s], a) + ((a + Wait(s)) \div Interval)

Paced ==
    /\ \A s \in Sessions : holder[s] # Nobody => SessionOf(holder[s]) = s
    /\ \A s \in Sessions, a \in 0..Window : WithinBudget(s, a)

LEMMA DivisionIsMonotone ==
  ASSUME NEW d \in Nat \ {0}, NEW m \in Nat, NEW n \in Nat, m <= n
  PROVE  m \div d \in Nat /\ m \div d <= n \div d
OBVIOUS

LEMMA DivisionOfOneMore ==
  ASSUME NEW d \in Nat \ {0}, NEW m \in Nat
  PROVE  (m + d) \div d = (m \div d) + 1
OBVIOUS

LEMMA OwnAreFinite ==
  ASSUME NEW s
  PROVE  /\ IsFiniteSet(Own(s)) /\ Cardinality(Own(s)) \in Nat
         /\ IsFiniteSet(Going(s)) /\ Cardinality(Going(s)) \in Nat
         /\ Cardinality(Going(s)) <= Cardinality(Own(s))
<1>1. IsFiniteSet(Own(s)) /\ Own(s) \subseteq Workers /\ Going(s) \subseteq Own(s)
  <2>1. IsFiniteSet(Workers) /\ Own(s) \subseteq Workers
    BY ClientConstants DEF ClientConstants, Own
  <2>2. Going(s) \subseteq Own(s)
    BY DEF Own, Going
  <2> QED BY <2>1, <2>2, FS_Subset
<1> QED BY <1>1, FS_Subset, FS_CardinalityType

LEMMA WaitIsTyped ==
  ASSUME TypeOK, NEW s \in Sessions
  PROVE  Wait(s) \in 0..Interval
<1>1. Interval \in Nat \ {0} /\ Slip \in Nat /\ since[s] \in (-Slip)..(Interval + Slip)
  BY ClientConstants DEF ClientConstants, TypeOK
<1>2. SleepFor(s) \in Nat
  BY <1>1 DEF SleepFor, Later
<1>3. holder[s] # Nobody => holder[s] \in Workers
  BY DEF TypeOK
<1>4. \A w \in Workers : nap[w] \in 0..(Interval + Slip)
  BY DEF TypeOK
<1> QED BY <1>1, <1>2, <1>3, <1>4 DEF Wait, Sooner

LEMMA NextWaitIsTyped ==
  ASSUME TypeOK', NEW s \in Sessions
  PROVE  Wait(s)' \in 0..Interval
<1>1. Interval \in Nat \ {0} /\ Slip \in Nat /\ since'[s] \in (-Slip)..(Interval + Slip)
  BY ClientConstants DEF ClientConstants, TypeOK
<1>2. SleepFor(s)' \in Nat
  BY <1>1 DEF SleepFor, Later
<1>3. holder'[s] # Nobody => holder'[s] \in Workers
  BY DEF TypeOK
<1>4. \A w \in Workers : nap'[w] \in 0..(Interval + Slip)
  BY DEF TypeOK
<1> QED BY <1>1, <1>2, <1>3, <1>4 DEF Wait, Sooner

\* What the numbers of a budget are.
LEMMA BudgetIsTyped ==
  ASSUME TypeOK, NEW s \in Sessions, NEW a \in 0..Window
  PROVE  /\ sent[s] \in Ages /\ lapses[s] \in Ages
         /\ UpTo(sent[s], a) \in Nat /\ UpTo(lapses[s], a) \in Nat
         /\ a \in Nat /\ Interval \in Nat \ {0}
<1>1. sent[s] \in Ages /\ lapses[s] \in Ages
  BY DEF TypeOK
<1>2. a \in Nat /\ Interval \in Nat \ {0}
  BY ClientConstants DEF ClientConstants
<1> QED BY <1>1, <1>2, EventsAreFinite

\* A budget that is not spent is kept as long as the wait does not become shorter.
LEMMA BudgetIsKept ==
  ASSUME TypeOK, TypeOK', NEW s \in Sessions, NEW a \in 0..Window, WithinBudget(s, a),
         sent'[s] = sent[s], lapses'[s] = lapses[s],
         Going(s)' \subseteq Going(s), Wait(s) <= Wait(s)'
  PROVE  WithinBudget(s, a)'
<1>1. Cardinality(Going(s)') <= Cardinality(Going(s)) /\ Cardinality(Going(s)') \in Nat
  BY OwnAreFinite, FS_Subset, FS_CardinalityType
<1>2. /\ UpTo(sent[s], a) \in Nat /\ UpTo(lapses[s], a) \in Nat
      /\ a \in Nat /\ Interval \in Nat \ {0}
  BY BudgetIsTyped
<1>3. Wait(s) \in Nat /\ Wait(s)' \in Nat
  <2>1. Wait(s) \in 0..Interval
    BY WaitIsTyped
  <2>2. Wait(s)' \in 0..Interval
    BY NextWaitIsTyped
  <2> QED BY <1>2, <2>1, <2>2
<1>4. (a + Wait(s)) \div Interval <= (a + Wait(s)') \div Interval
  <2>1. a + Wait(s) \in Nat /\ a + Wait(s)' \in Nat /\ a + Wait(s) <= a + Wait(s)'
    BY <1>2, <1>3
  <2> QED BY <1>2, <2>1, DivisionIsMonotone
<1>5. (a + Wait(s)) \div Interval \in Nat /\ (a + Wait(s)') \div Interval \in Nat
  BY <1>2, <1>3, DivisionIsMonotone
<1>6. Own(s)' = Own(s) /\ Cardinality(Own(s)) \in Nat /\ Cardinality(Going(s)) \in Nat
  BY OwnAreFinite DEF Own
<1>7. UpTo(sent[s], a)' = UpTo(sent[s], a) /\ UpTo(lapses[s], a)' = UpTo(lapses[s], a)
  BY DEF UpTo, Events
<1> QED BY <1>1, <1>2, <1>4, <1>5, <1>6, <1>7 DEF WithinBudget

\* A step that touches neither the pacing nor what is about to be sent.
LEMMA PaceUndisturbed ==
  ASSUME TypeOK, TypeOK', Paced,
         since' = since, holder' = holder, sent' = sent, lapses' = lapses, nap' = nap,
         \A w \in Workers : pc'[w] = "send" => pc[w] = "send"
  PROVE  Paced'
<1>1. ASSUME NEW s \in Sessions, NEW a \in 0..Window PROVE WithinBudget(s, a)'
  <2>1. Going(s)' \subseteq Going(s)
    BY DEF Going
  <2>2. Wait(s)' = Wait(s)
    BY DEF Wait, SleepFor
  <2>3. Wait(s) <= Wait(s)'
    <3>1. Wait(s) \in 0..Interval /\ Interval \in Nat
      BY WaitIsTyped, ClientConstants DEF ClientConstants
    <3> QED BY <2>2, <3>1
  <2>4. WithinBudget(s, a)
    BY DEF Paced
  <2> QED BY <2>1, <2>3, <2>4, BudgetIsKept
<1> QED BY <1>1 DEF Paced

\* A turn begins: the mutex is taken for as long as the wait lasts.
LEMMA AcquireKeepsPace ==
  ASSUME TypeOK, TypeOK', Paced, NEW w \in Workers, Acquire(w)
  PROVE  Paced'
<1> DEFINE t == SessionOf(w)
<1>1. /\ t \in Sessions /\ holder[t] = Nobody /\ holder' = [holder EXCEPT ![t] = w]
      /\ nap' = [nap EXCEPT ![w] = SleepFor(t)]
      /\ UNCHANGED <<since, sent, lapses>>
      /\ \A v \in Workers : pc'[v] = "send" => pc[v] = "send"
  BY SessionIsTyped DEF Acquire, Goto, TypeOK
<1>2. Nobody \notin Workers
  BY ClientConstants DEF ClientConstants
<1>3. ASSUME NEW s \in Sessions PROVE Wait(s)' = Wait(s)
  <2>1. SleepFor(s)' = SleepFor(s)
    BY <1>1 DEF SleepFor
  <2>2. CASE s = t
    <3>1. holder'[s] = w /\ nap'[w] = SleepFor(s)
      BY <1>1, <2>2 DEF TypeOK
    <3>2. Wait(s)' = Sooner(Sooner(Interval, SleepFor(s)), SleepFor(s))
      BY <1>2, <2>1, <3>1 DEF Wait
    <3>3. Wait(s) = Sooner(Sooner(Interval, SleepFor(s)), Interval)
      BY <1>1, <2>2 DEF Wait
    <3>4. Interval \in Nat /\ SleepFor(s) \in Nat
      <4>1. since[s] \in (-Slip)..(Interval + Slip) /\ Interval \in Nat /\ Slip \in Nat
        BY ClientConstants DEF ClientConstants, TypeOK
      <4> QED BY <4>1 DEF SleepFor, Later
    <3> QED BY <3>2, <3>3, <3>4 DEF Sooner
  <2>3. CASE s # t
    <3>1. holder'[s] = holder[s]
      BY <1>1, <2>3 DEF TypeOK
    <3>2. holder[s] # Nobody => holder[s] \in Workers /\ holder[s] # w
      BY <2>3 DEF Paced, TypeOK
    <3>3. holder[s] # Nobody => nap'[holder[s]] = nap[holder[s]]
      BY <1>1, <3>2 DEF TypeOK
    <3> QED BY <2>1, <3>1, <3>3 DEF Wait
  <2> QED BY <2>2, <2>3
<1>4. ASSUME NEW s \in Sessions, NEW a \in 0..Window PROVE WithinBudget(s, a)'
  <2>1. Going(s)' \subseteq Going(s)
    BY <1>1 DEF Going
  <2>2. Wait(s) <= Wait(s)'
    <3>1. Wait(s) \in 0..Interval /\ Interval \in Nat
      BY WaitIsTyped, ClientConstants DEF ClientConstants
    <3> QED BY <1>3, <3>1
  <2>3. WithinBudget(s, a)
    BY DEF Paced
  <2> QED BY <1>1, <2>1, <2>2, <2>3, BudgetIsKept
<1>5. ASSUME NEW s \in Sessions, holder'[s] # Nobody PROVE SessionOf(holder'[s]) = s
  BY <1>1, <1>5 DEF Paced, TypeOK
<1> QED BY <1>4, <1>5 DEF Paced

\* A turn ends: the next one is an interval away, which leaves room for its request.
LEMMA TakeSlotKeepsPace ==
  ASSUME TypeOK, TypeOK', Paced, NEW w \in Workers, TakeSlot(w)
  PROVE  Paced'
<1> DEFINE t == SessionOf(w)
<1>1. /\ t \in Sessions /\ holder[t] = w /\ nap[w] = 0 /\ pc[w] = "sleep"
      /\ holder' = [holder EXCEPT ![t] = Nobody]
      /\ since' = [since EXCEPT ![t] = 0]
      /\ UNCHANGED <<nap, sent, lapses>>
      /\ pc' = [pc EXCEPT ![w] = "send"]
  BY SessionIsTyped DEF TakeSlot, Goto, TypeOK
<1>2. Nobody \notin Workers /\ Interval \in Nat \ {0} /\ Slip \in Nat
  BY ClientConstants DEF ClientConstants
<1>3. ASSUME NEW s \in Sessions \ {t}, NEW a \in 0..Window PROVE WithinBudget(s, a)'
  <2>1. since'[s] = since[s] /\ holder'[s] = holder[s]
    BY <1>1 DEF TypeOK
  <2>2. Wait(s)' = Wait(s)
    BY <1>1, <2>1 DEF Wait, SleepFor
  <2>3. Wait(s) <= Wait(s)'
    <3>1. Wait(s) \in 0..Interval
      BY WaitIsTyped
    <3> QED BY <1>2, <2>2, <3>1
  <2>4. Going(s)' \subseteq Going(s)
    BY <1>1 DEF Going, TypeOK
  <2>5. WithinBudget(s, a)
    BY DEF Paced
  <2> QED BY <1>1, <2>3, <2>4, <2>5, BudgetIsKept
<1>4. ASSUME NEW a \in 0..Window PROVE WithinBudget(t, a)'
  <2>1. Wait(t) = 0
    <3>1. since[t] \in (-Slip)..(Interval + Slip)
      BY <1>1 DEF TypeOK
    <3>2. SleepFor(t) \in Nat
      BY <1>2, <3>1 DEF SleepFor, Later
    <3> HIDE DEF t
    <3> QED BY <1>1, <1>2, <3>2 DEF Wait, Sooner
  <2>2. Wait(t)' = Interval
    <3>1. since'[t] = 0 /\ holder'[t] = Nobody
      BY <1>1 DEF TypeOK
    <3>2. SleepFor(t)' = Interval
      BY <1>2, <3>1 DEF SleepFor, Later
    <3> HIDE DEF t
    <3> QED BY <1>2, <3>1, <3>2 DEF Wait, Sooner
  <2>3. Cardinality(Going(t)') = Cardinality(Going(t)) + 1
    <3>1. w \notin Going(t) /\ Going(t)' = Going(t) \union {w}
      BY <1>1 DEF Going, TypeOK
    <3> QED BY <3>1, OwnAreFinite, FS_AddElement
  <2>4. WithinBudget(t, a)
    BY <1>1 DEF Paced
  <2>5. /\ UpTo(sent[t], a) \in Nat /\ UpTo(lapses[t], a) \in Nat
        /\ a \in Nat /\ Interval \in Nat \ {0}
    BY <1>1, BudgetIsTyped
  <2>6. (a + Interval) \div Interval = (a \div Interval) + 1 /\ a \div Interval \in Nat
    BY <2>5, DivisionOfOneMore, DivisionIsMonotone
  <2>7. Cardinality(Own(t)) \in Nat /\ Cardinality(Going(t)) \in Nat /\ Own(t)' = Own(t)
    BY OwnAreFinite DEF Own
  <2>8. UpTo(sent[t], a)' = UpTo(sent[t], a) /\ UpTo(lapses[t], a)' = UpTo(lapses[t], a)
    BY <1>1 DEF UpTo, Events
  <2>9. a + 0 = a
    BY <2>5
  <2>10. UpTo(sent[t], a) + Cardinality(Going(t))
            <= Cardinality(Own(t)) + UpTo(lapses[t], a) + (a \div Interval)
    BY <2>1, <2>4, <2>9 DEF WithinBudget
  <2>11. UpTo(sent[t], a)' + Cardinality(Going(t)')
            <= Cardinality(Own(t)') + UpTo(lapses[t], a)' + ((a + Wait(t)') \div Interval)
    <3> HIDE DEF t
    <3> QED BY <2>2, <2>3, <2>5, <2>6, <2>7, <2>8, <2>10
  <2> QED BY <2>11 DEF WithinBudget
<1>5. ASSUME NEW s \in Sessions, holder'[s] # Nobody PROVE SessionOf(holder'[s]) = s
  BY <1>1, <1>5 DEF Paced, TypeOK
<1> QED BY <1>3, <1>4, <1>5 DEF Paced

\* A request goes out: it moves from those whose turn has come to the history.
LEMMA EmitKeepsPace ==
  ASSUME TypeOK, TypeOK', Paced, NEW w \in Workers, Emit(w), pc'[w] # "send",
         \A v \in Workers \ {w} : pc'[v] = pc[v]
  PROVE  Paced'
<1> DEFINE t == SessionOf(w)
<1>1. /\ t \in Sessions /\ pc[w] = "send"
      /\ sent' = [sent EXCEPT ![t] = OneMore(@)]
      /\ UNCHANGED <<nap, since, holder, lapses>>
  BY SessionIsTyped DEF Emit
<1>2. \A s \in Sessions : Wait(s)' = Wait(s)
  BY <1>1 DEF Wait, SleepFor
<1>3. ASSUME NEW s \in Sessions \ {t}, NEW a \in 0..Window PROVE WithinBudget(s, a)'
  <2>1. sent'[s] = sent[s]
    BY <1>1 DEF TypeOK
  <2>2. Wait(s) <= Wait(s)'
    <3>1. Wait(s) \in 0..Interval /\ Interval \in Nat
      BY WaitIsTyped, ClientConstants DEF ClientConstants
    <3> QED BY <1>2, <3>1
  <2>3. Going(s)' \subseteq Going(s)
    BY <1>1 DEF Going
  <2>4. WithinBudget(s, a)
    BY DEF Paced
  <2> QED BY <1>1, <2>1, <2>2, <2>3, <2>4, BudgetIsKept
<1>4. ASSUME NEW a \in 0..Window PROVE WithinBudget(t, a)'
  <2>1. sent'[t] = OneMore(sent[t]) /\ lapses'[t] = lapses[t]
    BY <1>1 DEF TypeOK
  <2>2. /\ sent[t] \in Ages /\ UpTo(sent[t], a) \in Nat /\ UpTo(lapses[t], a) \in Nat
        /\ a \in Nat /\ Interval \in Nat \ {0}
    BY <1>1, BudgetIsTyped
  <2>3. UpTo(sent'[t], a) = UpTo(sent[t], a) + 1
    BY <2>1, <2>2, OneMoreUpTo
  <2>4. Cardinality(Going(t)') = Cardinality(Going(t)) - 1
    <3>1. w \in Going(t) /\ Going(t)' = Going(t) \ {w}
      BY <1>1 DEF Going
    <3> QED BY <3>1, OwnAreFinite, FS_RemoveElement
  <2>5. Cardinality(Own(t)) \in Nat /\ Cardinality(Going(t)) \in Nat /\ Own(t)' = Own(t)
    BY OwnAreFinite DEF Own
  <2>6. WithinBudget(t, a)
    BY <1>1 DEF Paced
  <2>7. Wait(t)' = Wait(t)
    BY <1>1, <1>2
  <2>8. UpTo(sent[t], a)' = UpTo(sent'[t], a) /\ UpTo(lapses[t], a)' = UpTo(lapses[t], a)
    BY <2>1 DEF UpTo, Events
  <2>9. (UpTo(sent[t], a) + 1) + (Cardinality(Going(t)) - 1)
            = UpTo(sent[t], a) + Cardinality(Going(t))
    BY <2>2, <2>5
  <2> QED BY <2>3, <2>4, <2>5, <2>6, <2>7, <2>8, <2>9 DEF WithinBudget
<1>5. ASSUME NEW s \in Sessions, holder'[s] # Nobody PROVE SessionOf(holder'[s]) = s
  BY <1>1, <1>5 DEF Paced
<1> QED BY <1>3, <1>4, <1>5 DEF Paced

\* A tick makes the events older and the wait at most one shorter.
LEMMA TickKeepsPace ==
  ASSUME TypeOK, TypeOK', Paced, Tick
  PROVE  Paced'
<1>1. Interval \in Nat \ {0} /\ Slip \in Nat
  BY ClientConstants DEF ClientConstants
<1>2. ASSUME NEW s \in Sessions PROVE Wait(s) <= Wait(s)' + 1
  <2>1. /\ since'[s] = Sooner(since[s] + 1, Interval + Slip) /\ holder' = holder
        /\ since[s] \in (-Slip)..(Interval + Slip)
    BY DEF Tick, TypeOK
  <2>2. SleepFor(s) \in Nat /\ SleepFor(s)' \in Nat /\ SleepFor(s) <= SleepFor(s)' + 1
    BY <1>1, <2>1 DEF SleepFor, Later, Sooner
  <2>3. ASSUME holder[s] # Nobody
        PROVE  /\ nap[holder[s]] \in Nat /\ nap'[holder[s]] \in Nat
               /\ nap[holder[s]] <= nap'[holder[s]] + 1
    <3>1. holder[s] \in Workers
      BY <2>3 DEF TypeOK
    <3>2. /\ nap[holder[s]] \in 0..(Interval + Slip)
          /\ nap'[holder[s]] = Later(nap[holder[s]] - 1, 0)
      BY <3>1 DEF Tick, TypeOK
    <3> QED BY <1>1, <3>2 DEF Later
  <2>4. CASE holder[s] = Nobody
    BY <1>1, <2>1, <2>2, <2>4 DEF Wait, Sooner
  <2>5. CASE holder[s] # Nobody
    BY <1>1, <2>1, <2>2, <2>3, <2>5 DEF Wait, Sooner
  <2> QED BY <2>4, <2>5
<1>3. ASSUME NEW s \in Sessions, NEW a \in 0..Window PROVE WithinBudget(s, a)'
  <2>1. /\ UpTo(lapses[s], a) \in Nat /\ sent[s] \in Ages /\ lapses[s] \in Ages /\ a \in Nat
    BY BudgetIsTyped
  <2>2. sent'[s] = Aged(sent[s]) /\ lapses'[s] = Aged(lapses[s])
    BY DEF Tick
  <2>3. /\ UpTo(sent[s], a)' = IF a = 0 THEN 0 ELSE UpTo(sent[s], a - 1)
        /\ UpTo(lapses[s], a)' = IF a = 0 THEN 0 ELSE UpTo(lapses[s], a - 1)
    <3>1. /\ UpTo(sent'[s], a) = IF a = 0 THEN 0 ELSE UpTo(sent[s], a - 1)
          /\ UpTo(lapses'[s], a) = IF a = 0 THEN 0 ELSE UpTo(lapses[s], a - 1)
      BY <2>1, <2>2, AgedUpTo
    <3> QED BY <3>1 DEF UpTo, Events
  <2>4. Going(s)' = Going(s) /\ Own(s)' = Own(s)
    BY DEF Tick, Going, Own
  <2>5. /\ Cardinality(Going(s)) \in Nat /\ Cardinality(Own(s)) \in Nat
        /\ Cardinality(Going(s)) <= Cardinality(Own(s))
    BY OwnAreFinite
  <2>6. Wait(s) \in Nat /\ Wait(s)' \in Nat
    <3>1. Wait(s) \in 0..Interval /\ Wait(s)' \in 0..Interval
      BY WaitIsTyped, NextWaitIsTyped
    <3> QED BY <1>1, <3>1
  <2>7. (a + Wait(s)') \div Interval \in Nat
    BY <1>1, <2>1, <2>6, DivisionIsMonotone
  <2>8. CASE a = 0
    <3>1. 0 + Cardinality(Going(s)) <= Cardinality(Own(s)) + 0 + ((a + Wait(s)') \div Interval)
      BY <2>5, <2>7
    <3> QED BY <2>3, <2>4, <2>8, <3>1 DEF WithinBudget
  <2>9. CASE a # 0
    <3>1. a - 1 \in 0..Window
      BY <2>1, <2>9, ClientConstants DEF ClientConstants
    <3>2. WithinBudget(s, a - 1)
      BY <3>1 DEF Paced
    <3>3. UpTo(sent[s], a - 1) \in Nat /\ UpTo(lapses[s], a - 1) \in Nat
      BY <3>1, BudgetIsTyped
    <3>4. ((a - 1) + Wait(s)) \div Interval <= (a + Wait(s)') \div Interval
      <4>1. /\ (a - 1) + Wait(s) \in Nat /\ a + Wait(s)' \in Nat
            /\ (a - 1) + Wait(s) <= a + Wait(s)'
        BY <1>2, <2>1, <2>6, <2>9
      <4> QED BY <1>1, <4>1, DivisionIsMonotone
    <3>5. ((a - 1) + Wait(s)) \div Interval \in Nat
      <4>1. (a - 1) + Wait(s) \in Nat
        BY <2>1, <2>6, <2>9
      <4> QED BY <1>1, <4>1, DivisionIsMonotone
    <3>6. UpTo(sent[s], a - 1) + Cardinality(Going(s)) <=
            Cardinality(Own(s)) + UpTo(lapses[s], a - 1) + ((a + Wait(s)') \div Interval)
      BY <2>5, <2>7, <3>2, <3>3, <3>4, <3>5 DEF WithinBudget
    <3> QED BY <2>3, <2>4, <2>9, <3>6 DEF WithinBudget
  <2> QED BY <2>8, <2>9
<1>4. ASSUME NEW s \in Sessions, holder'[s] # Nobody PROVE SessionOf(holder'[s]) = s
  BY <1>4 DEF Paced, Tick
<1> QED BY <1>3, <1>4 DEF Paced

\* The clock is set forwards: the wait may vanish, but the lapse leaves room for it.
LEMMA StepForwardKeepsPace ==
  ASSUME TypeOK, TypeOK', Paced, StepForward
  PROVE  Paced'
<1>1. ASSUME NEW s \in Sessions, NEW a \in 0..Window PROVE WithinBudget(s, a)'
  <2>1. /\ UpTo(sent[s], a) \in Nat /\ UpTo(lapses[s], a) \in Nat /\ lapses[s] \in Ages
        /\ a \in Nat /\ Interval \in Nat \ {0}
    BY BudgetIsTyped
  <2>2. sent' = sent /\ lapses'[s] = OneMore(lapses[s])
    BY DEF StepForward
  <2>3. UpTo(sent[s], a)' = UpTo(sent[s], a) /\ UpTo(lapses[s], a)' = UpTo(lapses[s], a) + 1
    <3>1. UpTo(lapses'[s], a) = UpTo(lapses[s], a) + 1
      BY <2>1, <2>2, OneMoreUpTo
    <3> QED BY <2>2, <3>1 DEF UpTo, Events
  <2>4. Going(s)' = Going(s) /\ Own(s)' = Own(s)
    BY DEF StepForward, Going, Own
  <2>5. Cardinality(Going(s)) \in Nat /\ Cardinality(Own(s)) \in Nat
    BY OwnAreFinite
  <2>6. Wait(s) \in 0..Interval /\ Wait(s)' \in 0..Interval
    BY WaitIsTyped, NextWaitIsTyped
  <2>7. /\ (a + Wait(s)) \div Interval <= ((a + Wait(s)') + Interval) \div Interval
        /\ (a + Wait(s)) \div Interval \in Nat
    <3>1. /\ a + Wait(s) \in Nat /\ (a + Wait(s)') + Interval \in Nat
          /\ a + Wait(s) <= (a + Wait(s)') + Interval
      BY <2>1, <2>6
    <3> QED BY <2>1, <3>1, DivisionIsMonotone
  <2>8. /\ ((a + Wait(s)') + Interval) \div Interval = ((a + Wait(s)') \div Interval) + 1
        /\ (a + Wait(s)') \div Interval \in Nat
    <3> DEFINE m == a + Wait(s)'
    <3>1. m \in Nat
      BY <2>1, <2>6
    <3> HIDE DEF m
    <3>2. (m + Interval) \div Interval = (m \div Interval) + 1
      BY <2>1, <3>1, DivisionOfOneMore
    <3>3. m \div Interval \in Nat
      <4>1. m <= m
        BY <3>1
      <4> QED BY <2>1, <3>1, <4>1, DivisionIsMonotone
    <3> QED BY <3>2, <3>3 DEF m
  <2>9. WithinBudget(s, a)
    BY DEF Paced
  <2>10. UpTo(sent[s], a) + Cardinality(Going(s)) <=
            Cardinality(Own(s)) + (UpTo(lapses[s], a) + 1) + ((a + Wait(s)') \div Interval)
    BY <2>1, <2>5, <2>7, <2>8, <2>9 DEF WithinBudget
  <2> QED BY <2>3, <2>4, <2>10 DEF WithinBudget
<1>2. ASSUME NEW s \in Sessions, holder'[s] # Nobody PROVE SessionOf(holder'[s]) = s
  BY <1>2 DEF Paced, StepForward
<1> QED BY <1>1, <1>2 DEF Paced

\* The clock is set back: the wait can only become longer.
LEMMA StepBackKeepsPace ==
  ASSUME TypeOK, TypeOK', Paced, StepBack
  PROVE  Paced'
<1>1. ASSUME NEW s \in Sessions, NEW a \in 0..Window PROVE WithinBudget(s, a)'
  <2>1. Interval \in Nat \ {0} /\ Slip \in Nat /\ Leap \in Nat
    BY ClientConstants DEF ClientConstants
  <2>2. /\ since'[s] = Later(since[s] - Leap, -Slip) /\ holder' = holder /\ nap' = nap
        /\ sent' = sent /\ lapses' = lapses /\ pc' = pc
        /\ since[s] \in (-Slip)..(Interval + Slip)
    BY DEF StepBack, TypeOK
  <2>3. SleepFor(s) \in Nat /\ SleepFor(s)' \in Nat /\ SleepFor(s) <= SleepFor(s)'
    BY <2>1, <2>2 DEF SleepFor, Later
  <2>4. Wait(s) <= Wait(s)'
    <3>1. CASE holder[s] = Nobody
      BY <2>1, <2>2, <2>3, <3>1 DEF Wait, Sooner
    <3>2. CASE holder[s] # Nobody
      <4>1. holder[s] \in Workers
        BY <3>2 DEF TypeOK
      <4>2. nap[holder[s]] \in 0..(Interval + Slip)
        BY <4>1 DEF TypeOK
      <4> QED BY <2>1, <2>2, <2>3, <3>2, <4>2 DEF Wait, Sooner
    <3> QED BY <3>1, <3>2
  <2>5. Going(s)' \subseteq Going(s)
    BY <2>2 DEF Going
  <2>6. WithinBudget(s, a)
    BY DEF Paced
  <2> QED BY <2>2, <2>4, <2>5, <2>6, BudgetIsKept
<1>2. ASSUME NEW s \in Sessions, holder'[s] # Nobody PROVE SessionOf(holder'[s]) = s
  BY <1>2 DEF Paced, StepBack
<1> QED BY <1>1, <1>2 DEF Paced

\* A process ends: an interrupted session has its lapse, another one had no wait left.
LEMMA EndKeepsPace ==
  ASSUME TypeOK, TypeOK', Paced, NEW p \in Processes, EndProcess(p)
  PROVE  Paced'
<1>0. Interval \in Nat \ {0} /\ Slip \in Nat /\ Nobody \notin Workers
  BY ClientConstants DEF ClientConstants
<1>1. ASSUME NEW s \in Sessions, NEW a \in 0..Window, s[1] # p PROVE WithinBudget(s, a)'
  <2>1. /\ since'[s] = since[s] /\ holder'[s] = holder[s] /\ sent'[s] = sent[s]
        /\ lapses'[s] = lapses[s]
    BY <1>1 DEF EndProcess, Unpaced
  <2>2. ASSUME holder[s] # Nobody PROVE nap'[holder[s]] = nap[holder[s]]
    <3>1. holder[s] \in Workers /\ SessionOf(holder[s]) = s
      BY <2>2 DEF TypeOK, Paced
    <3>2. ProcessOf[holder[s]] # p
      BY <1>1, <3>1 DEF SessionOf
    <3> QED BY <3>1, <3>2 DEF EndProcess
  <2>3. Wait(s)' = Wait(s)
    BY <2>1, <2>2 DEF Wait, SleepFor
  <2>4. Wait(s) <= Wait(s)'
    <3>1. Wait(s) \in 0..Interval
      BY WaitIsTyped
    <3> QED BY <1>0, <2>3, <3>1
  <2>5. Going(s)' \subseteq Going(s)
    BY DEF Going, EndProcess
  <2>6. WithinBudget(s, a)
    BY DEF Paced
  <2> QED BY <2>1, <2>4, <2>5, <2>6, BudgetIsKept
<1>2. ASSUME NEW s \in Sessions, NEW a \in 0..Window, s[1] = p PROVE WithinBudget(s, a)'
  <2>1. /\ UpTo(sent[s], a) \in Nat /\ UpTo(lapses[s], a) \in Nat /\ lapses[s] \in Ages
        /\ a \in Nat
    BY BudgetIsTyped
  <2>2. sent' = sent /\ since'[s] = Interval + Slip /\ holder'[s] = Nobody
        /\ lapses'[s] = (IF s \in Unpaced(p) THEN OneMore(lapses[s]) ELSE lapses[s])
    BY <1>2 DEF EndProcess
  <2>3. Going(s)' = {} /\ Cardinality(Going(s)') = 0
    <3>1. \A w \in Workers : SessionOf(w) = s => ProcessOf[w] = p
      BY <1>2 DEF SessionOf
    <3>2. Going(s)' = {}
      BY <3>1 DEF Going, EndProcess
    <3> QED BY <3>2, FS_EmptySet
  <2>4. Wait(s)' = 0
    <3>1. SleepFor(s)' = 0
      BY <1>0, <2>2 DEF SleepFor, Later
    <3> QED BY <1>0, <2>2, <3>1 DEF Wait, Sooner
  <2>5. /\ Cardinality(Going(s)) \in Nat /\ Cardinality(Own(s)) \in Nat
        /\ Own(s)' = Own(s)
    BY OwnAreFinite DEF Own
  <2>6. Wait(s) \in 0..Interval
    BY WaitIsTyped
  <2>7. WithinBudget(s, a)
    BY DEF Paced
  <2>8. UpTo(sent[s], a)' = UpTo(sent[s], a)
    BY <2>2 DEF UpTo, Events
  <2>9. (a + 0) \div Interval \in Nat /\ (a + Wait(s)) \div Interval \in Nat
    BY <1>0, <2>1, <2>6, DivisionIsMonotone
  <2>10. CASE s \in Unpaced(p)
    <3>1. UpTo(lapses[s], a)' = UpTo(lapses[s], a) + 1
      <4>1. UpTo(lapses'[s], a) = UpTo(lapses[s], a) + 1
        BY <2>1, <2>2, <2>10, OneMoreUpTo
      <4> QED BY <4>1 DEF UpTo, Events
    <3>2. (a + Wait(s)) \div Interval <= ((a + 0) \div Interval) + 1
      <4>1. a + Wait(s) \in Nat /\ a + Interval \in Nat /\ a + Wait(s) <= a + Interval
        BY <1>0, <2>1, <2>6
      <4>2. (a + Wait(s)) \div Interval <= (a + Interval) \div Interval
        BY <1>0, <4>1, DivisionIsMonotone
      <4>3. (a + Interval) \div Interval = (a \div Interval) + 1
        BY <1>0, <2>1, DivisionOfOneMore
      <4>4. a + 0 = a
        BY <2>1
      <4> QED BY <4>2, <4>3, <4>4
    <3>3. UpTo(sent[s], a) + 0 <=
            Cardinality(Own(s)) + (UpTo(lapses[s], a) + 1) + ((a + 0) \div Interval)
      BY <2>1, <2>5, <2>7, <2>9, <3>2 DEF WithinBudget
    <3> QED BY <2>3, <2>4, <2>5, <2>8, <3>1, <3>3 DEF WithinBudget
  <2>11. CASE s \notin Unpaced(p)
    <3>1. UpTo(lapses[s], a)' = UpTo(lapses[s], a)
      BY <2>2, <2>11 DEF UpTo, Events
    <3>2. Wait(s) = 0
      <4>1. since[s] >= Interval /\ since[s] \in (-Slip)..(Interval + Slip)
        BY <1>0, <1>2, <2>11 DEF Unpaced, TypeOK
      <4>2. SleepFor(s) = 0
        BY <1>0, <4>1 DEF SleepFor, Later
      <4>3. Sooner(Interval, SleepFor(s)) = 0
        BY <1>0, <4>2 DEF Sooner
      <4>4. ASSUME holder[s] # Nobody PROVE nap[holder[s]] \in Nat
        <5>1. holder[s] \in Workers
          BY <4>4 DEF TypeOK
        <5>2. nap[holder[s]] \in 0..(Interval + Slip)
          BY <5>1 DEF TypeOK
        <5> QED BY <1>0, <5>2
      <4> QED BY <1>0, <4>3, <4>4 DEF Wait, Sooner
    <3>3. UpTo(sent[s], a) + 0 <=
            Cardinality(Own(s)) + UpTo(lapses[s], a) + ((a + 0) \div Interval)
      BY <2>1, <2>5, <2>7, <2>9, <3>2 DEF WithinBudget
    <3> QED BY <2>3, <2>4, <2>5, <2>8, <3>1, <3>3 DEF WithinBudget
  <2> QED BY <2>10, <2>11
<1>3. ASSUME NEW s \in Sessions, holder'[s] # Nobody PROVE SessionOf(holder'[s]) = s
  <2>1. holder'[s] = holder[s]
    BY <1>3 DEF EndProcess
  <2> QED BY <1>3, <2>1 DEF Paced
<1> QED BY <1>1, <1>2, <1>3 DEF Paced

LEMMA PaceIsKept ==
  ASSUME TypeOK, TypeOK', Paced, [Next]_vars
  PROVE  Paced'
<1> USE DEF vars, flow, pace, count, clock
<1>1. CASE \E p \in Processes : StartRun(p)
  BY <1>1, PaceUndisturbed DEF StartRun
<1>2. CASE \E w \in Workers : CreateClient(w) \/ CheckToken(w) \/ Login(w)
  BY <1>2, PaceUndisturbed DEF CreateClient, CheckToken, Login, Goto, TypeOK
<1>3. CASE \E w \in Workers, j \in Job : Ask(w, j)
  <2>1. PICK w \in Workers, j \in Job : Ask(w, j)
    BY <1>3
  <2>2. \A v \in Workers : pc'[v] = "send" => pc[v] = "send"
    BY <2>1 DEF Ask, Goto, TypeOK
  <2> QED BY <2>1, <2>2, PaceUndisturbed DEF Ask
<1>4. CASE \E w \in Workers : LoginFails(w)
  <2>1. PICK w \in Workers : LoginFails(w)
    BY <1>4
  <2>2. \A v \in Workers : pc'[v] = "send" => pc[v] = "send"
    BY <2>1 DEF LoginFails, FailAttempt, Goto, TypeOK
  <2> QED BY <2>1, <2>2, PaceUndisturbed DEF LoginFails
<1>5. CASE \E w \in Workers : GiveUp(w)
  <2>1. PICK w \in Workers : GiveUp(w)
    BY <1>5
  <2>2. \A v \in Workers : pc'[v] = "send" => pc[v] = "send"
    BY <2>1 DEF GiveUp, DropJob, Goto, TypeOK
  <2> QED BY <2>1, <2>2, PaceUndisturbed DEF GiveUp
<1>6. CASE \E w \in Workers : Acquire(w)
  BY <1>6, AcquireKeepsPace
<1>7. CASE \E w \in Workers : TakeSlot(w)
  BY <1>7, TakeSlotKeepsPace
<1>8. CASE \E w \in Workers : Answered(w) \/ Refused(w) \/ Unanswered(w)
  <2>1. PICK w \in Workers : Answered(w) \/ Refused(w) \/ Unanswered(w)
    BY <1>8
  <2>2. Emit(w)
    BY <2>1 DEF Answered, Refused, Unanswered
  <2>3. pc'[w] # "send" /\ \A v \in Workers \ {w} : pc'[v] = pc[v]
    BY <2>1 DEF Answered, Refused, Unanswered, DropJob, FailAttempt, Goto, TypeOK
  <2> QED BY <2>2, <2>3, EmitKeepsPace
<1>9. CASE \E p \in Processes : StopRun(p) \/ ResetCounters(p) \/ Die(p)
  <2>1. PICK p \in Processes : StopRun(p) \/ ResetCounters(p) \/ Die(p)
    BY <1>9
  <2>2. CASE EndProcess(p)
    BY <2>2, EndKeepsPace
  <2>3. CASE ~EndProcess(p)
    BY <2>1, <2>3, PaceUndisturbed DEF StopRun, ResetCounters, Die
  <2> QED BY <2>2, <2>3
<1>10. CASE Tick
  BY <1>10, TickKeepsPace
<1>11. CASE StepForward
  BY <1>11, StepForwardKeepsPace
<1>12. CASE StepBack
  BY <1>12, StepBackKeepsPace
<1>13. CASE UNCHANGED vars
  BY <1>13, PaceUndisturbed
<1> QED
  BY <1>1, <1>2, <1>3, <1>4, <1>5, <1>6, <1>7, <1>8, <1>9, <1>10, <1>11, <1>12, <1>13
  DEF Next, Work, Trouble

\* A history without events.
LEMMA NothingUpTo ==
  ASSUME NEW a \in 0..Window
  PROVE  UpTo(Never, a) = 0
<1>1. \A b \in 0..a : b \in 0..Window
  BY ClientConstants DEF ClientConstants
<1>2. \A b \in 0..a : 1..Never[b] = {}
  BY <1>1 DEF Never
<1>3. Events(Never, a) = {}
  BY <1>2, EventsMembers
<1> QED BY <1>3, FS_EmptySet DEF UpTo

\* The number of requests within any period, however the clients of a session
\* interleave, however slow they are, and whenever clocks are stepped or processes
\* end; for RateBounded.
THEOREM RequestsArePaced == Spec => []RateBounded
<1>1. Init => Paced
  <2> SUFFICES ASSUME Init PROVE Paced
    OBVIOUS
  <2>1. TypeOK
    BY InitialTypes DEF TypeInv
  <2>2. ASSUME NEW s \in Sessions, NEW a \in 0..Window PROVE WithinBudget(s, a)
    <3>1. sent[s] = Never /\ lapses[s] = Never /\ Going(s) = {}
      BY DEF Init, Going
    <3>2. UpTo(sent[s], a) = 0 /\ UpTo(lapses[s], a) = 0 /\ Cardinality(Going(s)) = 0
      BY <3>1, NothingUpTo, FS_EmptySet
    <3>3. Cardinality(Own(s)) \in Nat
      BY OwnAreFinite
    <3>4. (a + Wait(s)) \div Interval \in Nat
      <4>1. Wait(s) \in 0..Interval /\ Interval \in Nat \ {0}
        BY <2>1, WaitIsTyped, ClientConstants DEF ClientConstants
      <4>2. a + Wait(s) \in Nat /\ a + Wait(s) <= a + Wait(s)
        BY <4>1
      <4> QED BY <4>1, <4>2, DivisionIsMonotone
    <3> QED BY <3>2, <3>3, <3>4 DEF WithinBudget
  <2> QED BY <2>2 DEF Paced, Init
<1>2. TypeOK /\ TypeOK' /\ Paced /\ [Next]_vars => Paced'
  BY PaceIsKept
<1>3. TypeOK /\ Paced => RateBounded
  <2> SUFFICES ASSUME TypeOK, Paced, NEW s \in Sessions, NEW a \in 0..Window
               PROVE  UpTo(sent[s], a) <= (a \div Interval) + 1 + UpTo(lapses[s], a)
                                            + Cardinality(Own(s))
    BY DEF RateBounded, Own
  <2>1. /\ UpTo(sent[s], a) \in Nat /\ UpTo(lapses[s], a) \in Nat
        /\ a \in Nat /\ Interval \in Nat \ {0}
    BY BudgetIsTyped
  <2>2. Cardinality(Going(s)) \in Nat /\ Cardinality(Own(s)) \in Nat
    BY OwnAreFinite
  <2>3. Wait(s) \in 0..Interval
    BY WaitIsTyped
  <2>4. (a + Wait(s)) \div Interval <= (a + Interval) \div Interval
    <3>1. a + Wait(s) \in Nat /\ a + Interval \in Nat /\ a + Wait(s) <= a + Interval
      BY <2>1, <2>3
    <3> QED BY <2>1, <3>1, DivisionIsMonotone
  <2>5. (a + Interval) \div Interval = (a \div Interval) + 1
    BY <2>1, DivisionOfOneMore
  <2>6. a \div Interval \in Nat /\ (a + Wait(s)) \div Interval \in Nat
    <3>1. a + Wait(s) \in Nat /\ a <= a /\ a + Wait(s) <= a + Wait(s)
      BY <2>1, <2>3
    <3> QED BY <2>1, <3>1, DivisionIsMonotone
  <2>7. WithinBudget(s, a)
    BY DEF Paced
  <2> QED BY <2>1, <2>2, <2>4, <2>5, <2>6, <2>7 DEF WithinBudget
<1> QED BY <1>1, <1>2, <1>3, TypeCorrect, PTL DEF Spec
=============================================================================
