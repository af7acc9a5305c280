--------------------------- MODULE TestRunnerProofs ---------------------------
(* Proofs about TestRunner, for every number of jobs and of threads: its exit *)
(* status is earned and the results file is complete.  The argument: a job is *)
(* in one place at a time, so that the counters are the numbers of entries in *)
(* the results file; an entry "PASS" is only written for a process that has   *)
(* returned 0; and if the passed and the skipped jobs are as many as there    *)
(* are jobs, they are all the jobs.                                           *)
EXTENDS TestRunner, FiniteSetTheorems, TLAPS

\* The provers a leaf that names none is tried with.
USE SMTT(30), ZenonT(30), SMTT(60)

With(status) == {j \in Job : results[j] = status}

\* A job is untouched, held by one worker, in the output queue or reported.
OnePlace ==
    /\ \A t, u \in Thread : worker[t].job # None /\ worker[t].job = worker[u].job => t = u
    /\ \A t \in Thread : worker[t].job # None =>
          worker[t].job =< taken /\ worker[t].job \notin output_queue /\ results[worker[t].job] = None
    /\ \A j \in output_queue : j =< taken /\ results[j] = None
    /\ \A j \in Job : j > taken => results[j] = None

\* What comes out of a worker is marked, to be skipped or the result of a process.
ResultIsReal(j) == process[j] \in Process /\ returncode[j] = run_job_synchronously(process[j])
WorkIsReal ==
    /\ \A t \in Thread : worker[t].at = "run" => worker[t].job \notin Skip
    /\ \A j \in output_queue : ~is_break[j] /\ j \notin Skip => ResultIsReal(j)

\* The counters agree with the results file until an exception is raised.
CountersAgree ==
    main \in {"dispatch", "collect", "join"} =>
        passed_tests = Cardinality(With("PASS")) /\ skipped_tests = Cardinality(With("SKIP"))
ResultsAgree ==
    /\ \A j \in With("PASS") : process[j] = [code |-> 0, decodable |-> TRUE]
    /\ With("SKIP") \subseteq Skip

\* Results are collected when all jobs have been dispatched, and the runner ends
\* after its threads.
InOrder ==
    /\ main # "dispatch" => jobs = N
    /\ exit = 0 => \A t \in Thread : worker[t] = Done

RunnerInv == TypeOK /\ OnePlace /\ WorkIsReal /\ CountersAgree /\ ResultsAgree /\ InOrder
             /\ SuccessIsEarned

-----------------------------------------------------------------------------
\* None is neither a job nor an exit status nor an outcome.
LEMMA NoneIsNothing == None \notin Job /\ None # 0 /\ None # 1 /\ None \notin Status
BY RunnerAssumption DEF Job

\* There are N jobs.
LEMMA JobsFinite == IsFiniteSet(Job) /\ Cardinality(Job) = N
BY FS_Interval, RunnerAssumption DEF Job

\* An entry written for a job without one is counted once.
LEMMA OneMoreEntry ==
    ASSUME NEW status \in Status, NEW s \in Status, NEW job \in Job,
           results \in [Job -> Status \cup {None}], results[job] = None,
           results' = [results EXCEPT ![job] = status]
    PROVE  /\ With(s)' = IF s = status THEN With(s) \cup {job} ELSE With(s)
           /\ IsFiniteSet(With(s)) /\ Cardinality(With(s)) \in Nat
           /\ Cardinality(With(s)') = IF s = status THEN Cardinality(With(s)) + 1
                                      ELSE Cardinality(With(s))
<1>1. With(s)' = IF s = status THEN With(s) \cup {job} ELSE With(s)
  BY RunnerAssumption DEF With
<1>2. IsFiniteSet(With(s)) /\ Cardinality(With(s)) \in Nat
  BY JobsFinite, FS_Subset, FS_CardinalityType DEF With
<1>3. job \notin With(s)
  BY RunnerAssumption DEF With
<1>4. Cardinality(With(s) \cup {job}) = Cardinality(With(s)) + 1
  BY ZenonT(60), <1>2, <1>3, FS_AddElement
<1> QED  BY <1>1, <1>2, <1>4

\* If the passed and the skipped jobs are as many as all jobs, no other is left.
LEMMA NoJobLeft ==
    ASSUME Cardinality(With("PASS")) + Cardinality(With("SKIP")) = N
    PROVE  Job = With("PASS") \cup With("SKIP")
<1> DEFINE P == With("PASS")  S == With("SKIP")
<1>1. P \subseteq Job /\ S \subseteq Job /\ P \cap S = {}
  BY DEF With
<1>2. IsFiniteSet(P) /\ IsFiniteSet(S) /\ IsFiniteSet(P \cup S)
  BY <1>1, JobsFinite, FS_Subset, FS_Union
<1>3. Cardinality(P \cup S) = Cardinality(P) + Cardinality(S) - Cardinality(P \cap S)
  BY <1>2, FS_Union
<1>4. Cardinality(P \cup S) = N
  <2>1. Cardinality(P) \in Nat /\ Cardinality(S) \in Nat /\ Cardinality(P \cap S) = 0
    BY ZenonT(60), <1>1, <1>2, FS_EmptySet, FS_CardinalityType
  <2> QED  BY <2>1, <1>3
<1>5. P \cup S \subseteq Job
  BY <1>1
<1> QED  BY <1>4, <1>5, JobsFinite, FS_Subset

\* The invariant holds when run_tests starts.
LEMMA RunnerInit == Init => RunnerInv
<1> SUFFICES ASSUME Init PROVE RunnerInv
  OBVIOUS
<1> USE RunnerAssumption, NoneIsNothing DEF Init
<1>1. Cardinality(Thread) \in Nat
  BY FS_CardinalityType
<1>2. TypeOK
  <2>1. breaks \in 0 .. Cardinality(Thread) /\ breaksTaken \in 0 .. breaks
    BY <1>1
  <2>2. /\ worker \in [Thread -> {Waiting, Done} \cup [at : {"check", "run"}, job : Job]]
        /\ process \in [Job -> Process \cup {None}] /\ returncode \in [Job -> {0, 1, 2, Crash}]
        /\ is_break \in [Job -> BOOLEAN] /\ results \in [Job -> Status \cup {None}]
    OBVIOUS
  <2>3. thread_exit \in BOOLEAN /\ exit \in {0, 1, None} /\ output_queue \subseteq Job
    BY ZenonT(60)
  <2>4. jobs \in 0 .. N /\ taken \in 0 .. jobs /\ collected \in 0 .. jobs
    OBVIOUS
  <2> QED  BY <2>1, <2>2, <2>3, <2>4 DEF TypeOK
<1>3. OnePlace /\ WorkIsReal
  BY DEF OnePlace, WorkIsReal, Waiting
<1>4. With("PASS") = {} /\ With("SKIP") = {}
  BY DEF With, Status
<1>5. CountersAgree /\ ResultsAgree
  BY ZenonT(60), <1>4, FS_EmptySet DEF CountersAgree, ResultsAgree
<1> QED  BY <1>2, <1>3, <1>5 DEF RunnerInv, InOrder, SuccessIsEarned

\* Steps that leave the results alone keep what depends on them only.
LEMMA ResultsKept ==
    ASSUME RunnerInv, UNCHANGED <<results, passed_tests, skipped_tests, exit>>,
           main' \in {"dispatch", "collect", "join"} => main \in {"dispatch", "collect", "join"},
           \A j \in Job : process[j] # process'[j] => results[j] = None
    PROVE  CountersAgree' /\ ResultsAgree'
<1>1. With("PASS")' = With("PASS") /\ With("SKIP")' = With("SKIP")
  BY DEF With
<1>2. CountersAgree'
  BY <1>1 DEF RunnerInv, CountersAgree
<1>3. \A j \in With("PASS") : process'[j] = process[j]
  BY RunnerAssumption DEF With, Status
<1> QED  BY <1>1, <1>2, <1>3 DEF RunnerInv, ResultsAgree

\* Taking a job or a break from the input queue.
LEMMA GetKeeps == ASSUME RunnerInv, NEW t \in Thread, Get(t) PROVE RunnerInv'
<1> USE NoneIsNothing, RunnerAssumption
<1>0. /\ TypeOK /\ OnePlace /\ WorkIsReal /\ InOrder /\ SuccessIsEarned
      /\ UNCHANGED <<main, jobs, results, process, returncode, is_break, output_queue, exit, passed_tests,
                     skipped_tests>>
  BY DEF RunnerInv, Get, mainVars, counters
<1> exit # 0
  BY DEF RunnerInv, Get, InOrder, Done
<1>1. CountersAgree' /\ ResultsAgree'
  BY <1>0, ResultsKept
<1>2. CASE /\ taken < jobs /\ taken' = taken + 1 /\ UNCHANGED breaksTaken
           /\ worker' = [worker EXCEPT ![t] = [at |-> "check", job |-> taken + 1]]
  <2>1. taken + 1 \in Job
    BY <1>0, <1>2 DEF TypeOK, Job
  <2>2. TypeOK'
    BY <1>0, <1>2, <2>1 DEF TypeOK, Get, mainVars, counters
  <2>3. OnePlace'
    <3>1. \A u \in Thread : worker[u].job # None => worker[u].job \in Job /\ worker[u].job =< taken
      BY <1>0 DEF TypeOK, OnePlace, Waiting, Done
    <3>2. \A u, v \in Thread : worker'[u].job # None /\ worker'[u].job = worker'[v].job => u = v
      BY <1>0, <1>2, <3>1 DEF TypeOK, OnePlace, Job
    <3>3. taken + 1 \notin output_queue /\ results[taken + 1] = None
      BY <1>0, <2>1 DEF TypeOK, OnePlace
    <3>4. \A u \in Thread : worker'[u].job # None =>
             worker'[u].job =< taken' /\ worker'[u].job \notin output_queue /\ results[worker'[u].job] = None
      BY <1>0, <1>2, <3>1, <3>3 DEF TypeOK, OnePlace, Job
    <3>5. \A j \in output_queue : j =< taken' /\ results[j] = None
      BY <1>0, <1>2 DEF TypeOK, OnePlace, Job
    <3>6. \A j \in Job : j > taken' => results[j] = None
      BY <1>0, <1>2 DEF TypeOK, OnePlace, Job
    <3> QED  BY <1>0, <3>2, <3>4, <3>5, <3>6 DEF OnePlace
  <2>4. WorkIsReal'
    BY <1>0, <1>2 DEF TypeOK, WorkIsReal, ResultIsReal
  <2> QED  BY <1>0, <1>1, <2>2, <2>3, <2>4 DEF RunnerInv, InOrder, SuccessIsEarned
<1>3. CASE /\ taken = jobs /\ breaksTaken < breaks /\ breaksTaken' = breaksTaken + 1 /\ UNCHANGED taken
           /\ worker' = [worker EXCEPT ![t] = Done]
  <2>1. TypeOK'
    BY <1>0, <1>3, FS_CardinalityType DEF TypeOK, Get, mainVars, counters
  <2>2. OnePlace' /\ WorkIsReal'
    BY ZenonT(60), SMTT(60), <1>0, <1>3 DEF TypeOK, OnePlace, WorkIsReal, ResultIsReal, Done
  <2> QED  BY <1>0, <1>1, <2>1, <2>2 DEF RunnerInv, InOrder, SuccessIsEarned
<1> QED  BY <1>2, <1>3 DEF Get

\* Putting a job into the output queue moves it there from its worker.
LEMMA PutMoves ==
    ASSUME TypeOK, OnePlace, NEW t \in Thread, worker[t].job # None, Put(t),
           UNCHANGED <<results, taken>>
    PROVE  /\ OnePlace' /\ worker[t].job \in Job /\ output_queue' \subseteq Job
           /\ worker' \in [Thread -> {Waiting, Done} \cup [at : {"check", "run"}, job : Job]]
<1> USE NoneIsNothing
<1>1. worker[t].job \in Job
  BY DEF TypeOK, Waiting, Done
<1>2. worker' \in [Thread -> {Waiting, Done} \cup [at : {"check", "run"}, job : Job]]
  BY DEF TypeOK, Put
<1>3. OnePlace'
  BY <1>1 DEF TypeOK, OnePlace, Put, Waiting
<1> QED  BY <1>1, <1>2, <1>3 DEF TypeOK, Put

\* A worker looking at its job: handing it back marked or to be skipped, or
\* starting its process.
LEMMA CheckKeeps == ASSUME RunnerInv, NEW t \in Thread, Check(t) PROVE RunnerInv'
<1> USE NoneIsNothing
<1> DEFINE job == worker[t].job
<1>0. /\ TypeOK /\ OnePlace /\ WorkIsReal /\ InOrder /\ SuccessIsEarned
      /\ UNCHANGED <<main, jobs, taken, results, process, returncode, exit, passed_tests, skipped_tests>>
      /\ worker[t].at = "check"
  BY DEF RunnerInv, Check, mainVars, counters
<1> exit # 0
  BY <1>0 DEF InOrder, Done
<1>1. CountersAgree' /\ ResultsAgree'
  BY <1>0, ResultsKept
<1>2. job \in Job /\ job # None
  BY <1>0 DEF TypeOK, Waiting, Done
<1>3. CASE thread_exit /\ is_break' = [is_break EXCEPT ![job] = TRUE] /\ Put(t)
  <2>1. OnePlace' /\ output_queue' \subseteq Job
        /\ worker' \in [Thread -> {Waiting, Done} \cup [at : {"check", "run"}, job : Job]]
    BY <1>0, <1>2, <1>3, PutMoves
  <2>2. is_break' \in [Job -> BOOLEAN]
    BY ZenonT(60), <1>0, <1>3 DEF TypeOK
  <2>3. TypeOK'
    BY <1>0, <2>1, <2>2 DEF TypeOK, Check, mainVars, counters
  <2>4. is_break'[job] /\ \A j \in Job : j # job => is_break'[j] = is_break[j]
    BY <1>0, <1>2, <1>3 DEF TypeOK
  <2>5. WorkIsReal'
    BY <1>0, <1>2, <1>3, <2>4 DEF TypeOK, WorkIsReal, ResultIsReal, Put, Waiting
  <2> QED  BY <1>0, <1>1, <2>1, <2>3, <2>5 DEF RunnerInv, InOrder, SuccessIsEarned
<1>4. CASE ~thread_exit /\ job \in Skip /\ Put(t) /\ UNCHANGED is_break
  <2>1. OnePlace' /\ output_queue' \subseteq Job
        /\ worker' \in [Thread -> {Waiting, Done} \cup [at : {"check", "run"}, job : Job]]
    BY <1>0, <1>2, <1>4, PutMoves
  <2>2. TypeOK'
    BY <1>0, <1>4, <2>1 DEF TypeOK, Check, mainVars, counters
  <2>3. WorkIsReal'
    BY <1>0, <1>4 DEF TypeOK, WorkIsReal, ResultIsReal, Put, Waiting
  <2> QED  BY <1>0, <1>1, <2>1, <2>2, <2>3 DEF RunnerInv, InOrder, SuccessIsEarned
<1>5. CASE /\ ~thread_exit /\ job \notin Skip
           /\ worker' = [worker EXCEPT ![t].at = "run"] /\ UNCHANGED <<is_break, output_queue>>
  <2>1. /\ worker' \in [Thread -> {Waiting, Done} \cup [at : {"check", "run"}, job : Job]]
        /\ \A u \in Thread : worker'[u].job = worker[u].job
        /\ \A u \in Thread : worker'[u].at = IF u = t THEN "run" ELSE worker[u].at
    BY <1>0, <1>2, <1>5 DEF TypeOK, Waiting, Done
  <2>2. TypeOK'
    BY <1>0, <1>5, <2>1 DEF TypeOK, Check, mainVars, counters
  <2>3. OnePlace'
    BY <1>0, <1>5, <2>1 DEF OnePlace
  <2>4. WorkIsReal'
    BY <1>0, <1>5, <2>1 DEF WorkIsReal, ResultIsReal
  <2> QED  BY <1>0, <1>1, <2>2, <2>3, <2>4 DEF RunnerInv, InOrder, SuccessIsEarned
<1> QED  BY <1>3, <1>4, <1>5 DEF Check

\* The end of the process of a job.
LEMMA RunKeeps == ASSUME RunnerInv, NEW t \in Thread, Run(t) PROVE RunnerInv'
<1> USE NoneIsNothing
<1> DEFINE job == worker[t].job
<1>0. /\ TypeOK /\ OnePlace /\ WorkIsReal /\ InOrder /\ SuccessIsEarned /\ ResultsAgree
      /\ UNCHANGED <<main, jobs, taken, results, is_break, exit, passed_tests, skipped_tests>>
      /\ worker[t].at = "run" /\ Put(t)
  BY DEF RunnerInv, Run, mainVars, counters
<1> exit # 0
  BY <1>0 DEF InOrder, Done
<1>1. PICK p \in Process : /\ process' = [process EXCEPT ![job] = p]
                           /\ returncode' = [returncode EXCEPT ![job] = run_job_synchronously(p)]
  BY ZenonT(60) DEF Run
<1>2. job \in Job /\ job # None /\ job \notin Skip /\ results[job] = None /\ job \notin output_queue
  BY <1>0 DEF TypeOK, Waiting, Done, OnePlace, WorkIsReal
<1>3. OnePlace' /\ output_queue' \subseteq Job
      /\ worker' \in [Thread -> {Waiting, Done} \cup [at : {"check", "run"}, job : Job]]
  BY <1>0, <1>2, PutMoves
<1>4. run_job_synchronously(p) \in {0, 1, 2, Crash}
  BY DEF Process, run_job_synchronously
<1>5. process' \in [Job -> Process \cup {None}] /\ returncode' \in [Job -> {0, 1, 2, Crash}]
  BY ZenonT(60), <1>0, <1>1, <1>4 DEF TypeOK
<1>6. TypeOK'
  BY <1>0, <1>3, <1>5 DEF TypeOK, Run, mainVars, counters
<1>7. \A j \in Job : j # job => process'[j] = process[j] /\ returncode'[j] = returncode[j]
  BY <1>0, <1>1 DEF TypeOK
<1>8. process'[job] = p /\ returncode'[job] = run_job_synchronously(p)
  BY <1>0, <1>1, <1>2 DEF TypeOK
<1>9. WorkIsReal'
  BY <1>0, <1>2, <1>7, <1>8 DEF TypeOK, WorkIsReal, ResultIsReal, Put, Waiting
<1>10. CountersAgree' /\ ResultsAgree'
  BY <1>0, <1>2, <1>7, ResultsKept
<1> QED  BY <1>0, <1>3, <1>6, <1>9, <1>10 DEF RunnerInv, InOrder, SuccessIsEarned

\* Dispatching, and an interrupt.
LEMMA DispatchKeeps == ASSUME RunnerInv, Dispatch \/ DispatchBreak \/ sigint_hook PROVE RunnerInv'
<1> USE RunnerAssumption
<1>0. /\ TypeOK /\ OnePlace /\ WorkIsReal /\ InOrder /\ SuccessIsEarned
      /\ UNCHANGED <<results, process, returncode, is_break, exit, passed_tests, skipped_tests, taken, worker,
                     output_queue>>
  BY DEF RunnerInv, Dispatch, DispatchBreak, sigint_hook, mainVars, counters, workerVars
<1>1. main' \in {"dispatch", "collect", "join"} => main \in {"dispatch", "collect", "join"}
  BY DEF Dispatch, DispatchBreak, sigint_hook, mainVars
<1>2. CountersAgree' /\ ResultsAgree'
  BY <1>0, <1>1, ResultsKept
<1>3. OnePlace' /\ WorkIsReal'
  BY <1>0 DEF OnePlace, WorkIsReal, ResultIsReal
<1>4. InOrder' /\ SuccessIsEarned'
  BY <1>0 DEF InOrder, SuccessIsEarned, Dispatch, DispatchBreak, sigint_hook, mainVars
<1>5. TypeOK'
  <2>1. CASE Dispatch
    BY <1>0, <2>1, FS_CardinalityType DEF TypeOK, Dispatch, counters, workerVars
  <2>2. CASE DispatchBreak
    BY <1>0, <2>2, FS_CardinalityType DEF TypeOK, DispatchBreak, counters, workerVars
  <2>3. CASE sigint_hook
    BY <1>0, <2>3 DEF TypeOK, sigint_hook, mainVars, counters, workerVars
  <2> QED  BY <2>1, <2>2, <2>3
<1> QED  BY <1>2, <1>3, <1>4, <1>5 DEF RunnerInv

\* One result collected: its entry is counted, and a "PASS" is one.
LEMMA CollectKeeps == ASSUME RunnerInv, Collect PROVE RunnerInv'
<1> USE NoneIsNothing
<1>0. /\ TypeOK /\ OnePlace /\ WorkIsReal /\ InOrder /\ SuccessIsEarned /\ CountersAgree /\ ResultsAgree
      /\ main = "collect"
      /\ UNCHANGED <<jobs, breaks, exit, taken, breaksTaken, worker, process, returncode, is_break, thread_exit>>
  BY DEF RunnerInv, Collect, workerVars
<1>1. InOrder' /\ SuccessIsEarned'
  BY <1>0 DEF InOrder, SuccessIsEarned
<1>2. CASE collected = jobs /\ main' = "join" /\ UNCHANGED <<collected, results, counters, output_queue>>
  <2>1. CountersAgree' /\ ResultsAgree'
    BY <1>0, <1>2, ResultsKept DEF counters
  <2>2. OnePlace' /\ WorkIsReal' /\ TypeOK'
    BY <1>0, <1>2 DEF OnePlace, WorkIsReal, ResultIsReal, TypeOK, counters
  <2> QED  BY <1>1, <2>1, <2>2 DEF RunnerInv
<1>3. ASSUME collected < jobs, NEW job \in output_queue,
             output_queue' = output_queue \ {job}, collected' = collected + 1,
             IF is_break[job] THEN UNCHANGED <<main, results, counters>>
             ELSE /\ Count(StatusOf(job))
                  /\ IF Unreadable(job) THEN main' = "raised" /\ UNCHANGED results
                     ELSE results' = [results EXCEPT ![job] = StatusOf(job)] /\ UNCHANGED main
      PROVE  RunnerInv'
  <2>1. job \in Job /\ results[job] = None /\ StatusOf(job) \in Status
    BY <1>0 DEF TypeOK, OnePlace, StatusOf, Status
  <2>2. /\ passed_tests' \in Nat /\ skipped_tests' \in Nat /\ failed_tests' \in Nat
        /\ crashed_tests' \in Nat /\ valgrind_errors' \in Nat
    BY <1>0, <1>3 DEF TypeOK, Count, counters
  <2>3. TypeOK'
    BY <1>0, <1>3, <2>1, <2>2 DEF TypeOK
  <2>4. WorkIsReal'
    BY <1>0, <1>3 DEF WorkIsReal, ResultIsReal
  <2>5. \A j \in Job : j # job => results'[j] = results[j]
    BY <1>0, <1>3 DEF TypeOK
  <2>6. OnePlace'
    <3>1. \A t \in Thread : worker[t].job # None => worker[t].job \in Job /\ worker[t].job # job
      BY <1>0 DEF TypeOK, OnePlace, Waiting, Done
    <3>2. job =< taken
      BY <1>0 DEF OnePlace
    <3> QED  BY <1>0, <1>3, <2>1, <2>5, <3>1, <3>2 DEF TypeOK, OnePlace, Job
  <2>7. CountersAgree' /\ ResultsAgree'
    <3>1. CASE is_break[job] \/ Unreadable(job)
      BY <1>0, <1>3, <3>1, ResultsKept DEF CountersAgree, ResultsAgree, With, counters
    <3>2. CASE ~is_break[job] /\ ~Unreadable(job)
      <4>1. results' = [results EXCEPT ![job] = StatusOf(job)] /\ Count(StatusOf(job)) /\ main' = main
        BY <1>3, <3>2
      <4>2. \A s \in Status :
               /\ With(s)' = IF s = StatusOf(job) THEN With(s) \cup {job} ELSE With(s)
               /\ Cardinality(With(s)') = IF s = StatusOf(job) THEN Cardinality(With(s)) + 1
                                          ELSE Cardinality(With(s))
        BY ZenonT(60), <1>0, <2>1, <4>1, OneMoreEntry DEF TypeOK
      <4>3. CountersAgree'
        BY <1>0, <4>1, <4>2 DEF CountersAgree, Count, Status
      <4>4. StatusOf(job) = "PASS" => process[job] = [code |-> 0, decodable |-> TRUE]
        <5>1. SUFFICES ASSUME StatusOf(job) = "PASS"
                       PROVE  process[job] = [code |-> 0, decodable |-> TRUE]
          OBVIOUS
        <5>2. job \notin Skip /\ returncode[job] = 0
          BY <5>1 DEF StatusOf
        <5>3. ResultIsReal(job)
          BY <1>0, <3>2, <5>2 DEF WorkIsReal
        <5>4. PICK p \in Process : process[job] = p /\ run_job_synchronously(p) = 0
          BY <5>2, <5>3 DEF ResultIsReal
        <5>5. p.decodable
          BY <5>4 DEF run_job_synchronously
        <5>6. p.decodable = TRUE
          BY <5>5, <5>4 DEF Process
        <5>7. p.code = 0 /\ p = [code |-> p.code, decodable |-> p.decodable]
          BY <5>4, <5>5 DEF run_job_synchronously, Process
        <5> QED  BY <5>4, <5>6, <5>7
      <4>5. StatusOf(job) = "SKIP" => job \in Skip
        BY DEF StatusOf
      <4> QED  BY <1>0, <4>2, <4>3, <4>4, <4>5 DEF ResultsAgree, Status
    <3> QED  BY <3>1, <3>2
  <2> QED  BY <1>1, <2>3, <2>4, <2>6, <2>7 DEF RunnerInv
<1> QED  BY <1>2, <1>3 DEF Collect

\* The exit status.
LEMMA ExitKeeps == ASSUME RunnerInv, Exit PROVE RunnerInv'
<1> USE NoneIsNothing
<1>0. /\ TypeOK /\ OnePlace /\ WorkIsReal /\ InOrder /\ CountersAgree /\ ResultsAgree
      /\ main \in {"join", "raised"} /\ main' = "exited" /\ \A t \in Thread : worker[t] = Done
      /\ exit' = IF main = "join" /\ passed_tests + skipped_tests = jobs THEN 0 ELSE 1
      /\ UNCHANGED <<jobs, breaks, collected, results, counters, workerVars, output_queue, thread_exit>>
  BY DEF RunnerInv, Exit
<1>1. TypeOK'
  BY <1>0 DEF TypeOK, counters, workerVars
<1>2. OnePlace' /\ WorkIsReal' /\ CountersAgree' /\ ResultsAgree' /\ InOrder'
  BY <1>0 DEF OnePlace, WorkIsReal, ResultIsReal, CountersAgree, ResultsAgree, With, InOrder, counters,
                          workerVars
<1>3. SuccessIsEarned'
  <2>1. SUFFICES ASSUME exit' = 0
                 PROVE  \A j \in Job \ Skip : process[j] = [code |-> 0, decodable |-> TRUE]
    BY <1>0 DEF SuccessIsEarned, workerVars
  <2>2. Cardinality(With("PASS")) + Cardinality(With("SKIP")) = N
    BY <1>0, <2>1 DEF CountersAgree, InOrder
  <2> QED  BY <1>0, <2>2, NoJobLeft DEF ResultsAgree
<1> QED  BY <1>1, <1>2, <1>3 DEF RunnerInv

\* No step of the main thread, of a worker or of the user breaks the invariant.
LEMMA RunnerStep == RunnerInv /\ [Next]_vars => RunnerInv'
<1> SUFFICES ASSUME RunnerInv, [Next]_vars PROVE RunnerInv'
  OBVIOUS
<1>1. CASE \E t \in Thread : Worker(t)
  BY <1>1, GetKeeps, CheckKeeps, RunKeeps DEF Worker
<1>2. CASE Main \/ sigint_hook
  BY <1>2, DispatchKeeps, CollectKeeps, ExitKeeps DEF Main
<1>3. CASE UNCHANGED vars
  BY <1>3 DEF vars, mainVars, workerVars, counters, RunnerInv, TypeOK, OnePlace, WorkIsReal, ResultIsReal,
             CountersAgree, ResultsAgree, With, InOrder, SuccessIsEarned
<1> QED  BY <1>1, <1>2, <1>3 DEF Next

\* Whatever the jobs, the threads and the moment of an interrupt, the runner
\* reports success only if every job not skipped has run and passed
\* (run_tests, worker_thread.run, run_job_synchronously).
THEOREM SuccessIsAlwaysEarned == Spec => []SuccessIsEarned
<1>1. RunnerInv => SuccessIsEarned
  BY DEF RunnerInv
<1> QED  BY <1>1, RunnerInit, RunnerStep, PTL DEF Spec

\* The state of the runner keeps its type.
THEOREM RunnerTypeCorrect == Spec => []TypeOK
<1>1. RunnerInv => TypeOK
  BY DEF RunnerInv
<1> QED  BY <1>1, RunnerInit, RunnerStep, PTL DEF Spec

-----------------------------------------------------------------------------
\* The results file is complete.

\* Every job taken is held, in the output queue or collected.
AllCounted == collected + Cardinality(output_queue) + Cardinality(Held) = taken

\* A job is run or marked at most once, by the worker that holds it.
FreshUntilPut ==
    /\ \A t \in Thread : worker[t].job # None =>
          process[worker[t].job] = None /\ ~is_break[worker[t].job]
    /\ \A j \in Job : j > taken => process[j] = None /\ ~is_break[j]
    /\ \A j \in Job : is_break[j] => process[j] = None

\* What was run is in the queue or in the file, and what is in the file was run.
RunIsReported ==
    /\ main \in {"dispatch", "collect", "join"} =>
          \A j \in Job : process[j] # None => j \in output_queue \/ results[j] # None
    /\ \A j \in Job : results[j] # None => process[j] # None \/ j \in Skip

CompleteInv ==
    /\ AllCounted /\ FreshUntilPut /\ RunIsReported
    /\ main = "join" => collected = jobs

\* The queue and the jobs held are finite.
LEMMA QueuesFinite ==
    ASSUME TypeOK
    PROVE  /\ Held \subseteq Job /\ IsFiniteSet(Held) /\ Cardinality(Held) \in Nat
           /\ IsFiniteSet(output_queue) /\ Cardinality(output_queue) \in Nat
<1>1. \A t \in Thread : worker[t].job # None => worker[t].job \in Job
  BY DEF TypeOK, Waiting, Done
<1>2. Held \subseteq Job /\ output_queue \subseteq Job
  BY <1>1 DEF Held, TypeOK
<1> QED  BY <1>2, JobsFinite, FS_Subset, FS_CardinalityType

\* Steps that move no job keep what CompleteInv says.
LEMMA NothingMoves ==
    ASSUME CompleteInv,
           UNCHANGED <<taken, collected, output_queue, process, is_break, results>>,
           \A t \in Thread : worker'[t].job = worker[t].job,
           main' \in {"dispatch", "collect", "join"} => main \in {"dispatch", "collect", "join"},
           main' = "join" => collected = jobs'
    PROVE  CompleteInv'
<1>1. Held' = Held
  BY DEF Held
<1>2. AllCounted' /\ FreshUntilPut'
  BY <1>1 DEF CompleteInv, AllCounted, FreshUntilPut
<1>3. RunIsReported'
  BY DEF CompleteInv, RunIsReported
<1> QED  BY <1>2, <1>3 DEF CompleteInv

\* A job that a worker puts into the output queue is one less held.
LEMMA PutCounts ==
    ASSUME TypeOK, OnePlace, NEW t \in Thread, worker[t].job # None, Put(t)
    PROVE  Cardinality(output_queue') + Cardinality(Held')
             = Cardinality(output_queue) + Cardinality(Held)
<1> USE NoneIsNothing
<1> DEFINE job == worker[t].job
<1>1. worker' = [worker EXCEPT ![t] = Waiting] /\ output_queue' = output_queue \cup {job}
  BY DEF Put
<1>2. \A u \in Thread : worker'[u].job = IF u = t THEN None ELSE worker[u].job
  BY <1>1 DEF TypeOK, Waiting
<1>3. \A u \in Thread : u # t => worker[u].job # job
  BY DEF OnePlace
<1>4. Held' = Held \ {job}
  BY <1>2, <1>3 DEF Held
<1>5. job \in Held /\ job \notin output_queue
  BY DEF Held, OnePlace
<1> HIDE DEF job
<1>6. Cardinality(Held') = Cardinality(Held) - 1
  BY ZenonT(60), <1>4, <1>5, QueuesFinite, FS_RemoveElement
<1>7. Cardinality(output_queue') = Cardinality(output_queue) + 1
  BY ZenonT(60), <1>1, <1>5, QueuesFinite, FS_AddElement
<1> QED  BY <1>6, <1>7, QueuesFinite

\* Taking a job or a break.
LEMMA GetCompletes == ASSUME RunnerInv, CompleteInv, NEW t \in Thread, Get(t) PROVE CompleteInv'
<1> USE NoneIsNothing
<1>0. /\ TypeOK /\ OnePlace /\ worker[t] = Waiting
      /\ UNCHANGED <<main, jobs, collected, results, process, is_break, output_queue>>
  BY DEF RunnerInv, TypeOK, Get, mainVars, Done
<1>1. CASE /\ taken < jobs /\ taken' = taken + 1
           /\ worker' = [worker EXCEPT ![t] = [at |-> "check", job |-> taken + 1]]
  <2>1. taken + 1 \in Job /\ taken \in Nat
    BY <1>0, <1>1, RunnerAssumption DEF TypeOK, Job
  <2>2. \A u \in Thread : worker'[u].job = IF u = t THEN taken + 1 ELSE worker[u].job
    BY <1>0, <1>1 DEF TypeOK
  <2>3. Held' = Held \cup {taken + 1}
    <3>1. worker[t].job = None
      BY <1>0 DEF Waiting
    <3> QED  BY <2>1, <2>2, <3>1 DEF Held
  <2>4. taken + 1 \notin Held
    <3>1. \A u \in Thread : worker[u].job # None => worker[u].job =< taken
      BY <1>0 DEF OnePlace
    <3> QED  BY <2>1, <3>1 DEF Held
  <2>5. Cardinality(Held') = Cardinality(Held) + 1
    <3>1. IsFiniteSet(Held)
      BY <1>0, QueuesFinite
    <3> QED  BY ZenonT(60), <2>3, <2>4, <3>1, FS_AddElement
  <2>6. AllCounted'
    BY <1>0, <1>1, <2>1, <2>5, QueuesFinite DEF CompleteInv, AllCounted, TypeOK
  <2>7. process[taken + 1] = None /\ ~is_break[taken + 1]
    BY <2>1 DEF CompleteInv, FreshUntilPut
  <2>8. FreshUntilPut'
    <3>1. \A j \in Job : j > taken' => j > taken
      BY <1>1, <2>1 DEF Job
    <3>2. \A j \in Job : j > taken' => process'[j] = None /\ ~is_break'[j]
      BY <1>0, <3>1 DEF CompleteInv, FreshUntilPut
    <3>3. \A u \in Thread : worker'[u].job # None =>
             process[worker'[u].job] = None /\ ~is_break[worker'[u].job]
      BY <2>2, <2>7 DEF CompleteInv, FreshUntilPut
    <3> QED  BY <1>0, <3>2, <3>3 DEF CompleteInv, FreshUntilPut
  <2> QED  BY <1>0, <2>6, <2>8 DEF CompleteInv, RunIsReported
<1>2. CASE UNCHANGED taken /\ worker' = [worker EXCEPT ![t] = Done]
  <2>1. \A u \in Thread : worker'[u].job = worker[u].job
    BY <1>0, <1>2 DEF TypeOK, Waiting, Done
  <2> QED  BY <1>0, <1>2, <2>1, NothingMoves DEF CompleteInv
<1> QED  BY <1>1, <1>2 DEF Get

\* A job that is put is marked, skipped, or has been run.
LEMMA PutCompletes ==
    ASSUME RunnerInv, CompleteInv, NEW t \in Thread, worker[t].job # None, Put(t),
           UNCHANGED <<main, jobs, taken, collected, results>>,
           \A j \in Job : j # worker[t].job => process'[j] = process[j] /\ is_break'[j] = is_break[j],
           is_break'[worker[t].job] => process'[worker[t].job] = None
    PROVE  CompleteInv'
<1> USE NoneIsNothing
<1> DEFINE job == worker[t].job
<1>0. TypeOK /\ OnePlace /\ collected \in Nat /\ taken \in Nat
  BY DEF RunnerInv, TypeOK
<1>1. worker' = [worker EXCEPT ![t] = Waiting] /\ output_queue' = output_queue \cup {job}
  BY DEF Put
<1>2. \A u \in Thread : worker'[u].job = IF u = t THEN None ELSE worker[u].job
  BY <1>0, <1>1 DEF TypeOK, Waiting
<1>3. \A u \in Thread : u # t /\ worker[u].job # None => worker[u].job # job /\ worker[u].job \in Job
  BY <1>0 DEF OnePlace, TypeOK, Waiting, Done
<1>4. AllCounted'
  <2>1. Cardinality(output_queue') + Cardinality(Held')
          = Cardinality(output_queue) + Cardinality(Held)
    BY <1>0, PutCounts
  <2>2. Cardinality(output_queue') \in Nat /\ Cardinality(Held') \in Nat
    <3>1. Held' \subseteq Job /\ output_queue' \subseteq Job
      <4>1. job \in Job
        BY <1>0 DEF TypeOK, Waiting, Done
      <4> QED  BY <1>0, <1>1, <1>2, <1>3, <4>1 DEF Held, TypeOK
    <3> QED  BY <3>1, JobsFinite, FS_Subset, FS_CardinalityType
  <2> QED  BY <1>0, <2>1, <2>2, QueuesFinite DEF CompleteInv, AllCounted
<1>5. job \in Job /\ job =< taken /\ results[job] = None
  BY <1>0 DEF TypeOK, OnePlace, Waiting, Done
<1>6. FreshUntilPut'
  <2>1. \A u \in Thread : worker'[u].job # None =>
           process'[worker'[u].job] = None /\ ~is_break'[worker'[u].job]
    BY <1>2, <1>3 DEF CompleteInv, FreshUntilPut
  <2>2. \A j \in Job : j > taken => j # job
    BY <1>0, <1>5 DEF Job
  <2>3. \A j \in Job : j > taken => process'[j] = None /\ ~is_break'[j]
    BY <2>2 DEF CompleteInv, FreshUntilPut
  <2>4. \A j \in Job : is_break'[j] => process'[j] = None
    BY DEF CompleteInv, FreshUntilPut
  <2> QED  BY <2>1, <2>3, <2>4 DEF FreshUntilPut
<1>7. RunIsReported'
  <2>1. \A j \in Job : process'[j] # None => j = job \/ process[j] # None
    OBVIOUS
  <2>2. \A j \in Job : results'[j] # None => j # job /\ process'[j] = process[j]
    BY <1>5
  <2> QED  BY <1>1, <2>1, <2>2 DEF CompleteInv, RunIsReported
<1> QED  BY <1>4, <1>6, <1>7 DEF CompleteInv

\* Looking at a job, and running it.
LEMMA WorkCompletes ==
    ASSUME RunnerInv, CompleteInv, NEW t \in Thread, Check(t) \/ Run(t) PROVE CompleteInv'
<1> USE NoneIsNothing
<1> DEFINE job == worker[t].job
<1>0. /\ TypeOK /\ UNCHANGED <<main, jobs, taken, collected, results>>
      /\ worker[t].at \in {"check", "run"}
  BY DEF RunnerInv, Check, Run, mainVars
<1>1. job \in Job /\ job # None
  BY <1>0 DEF TypeOK, Waiting, Done
<1>2. process[job] = None /\ ~is_break[job]
  BY <1>1 DEF CompleteInv, FreshUntilPut
<1>3. CASE Run(t)
  <2>1. PICK p \in Process : process' = [process EXCEPT ![job] = p]
    BY ZenonT(60), <1>3 DEF Run
  <2>2. Put(t) /\ is_break' = is_break
    BY <1>3 DEF Run
  <2>3. \A j \in Job : j # job => process'[j] = process[j]
    BY <1>0, <2>1 DEF TypeOK
  <2> QED  BY ZenonT(60), SMTT(60), <1>0, <1>1, <1>2, <2>2, <2>3, PutCompletes
<1>4. CASE Check(t)
  <2>1. process' = process
    BY <1>4 DEF Check
  <2>2. CASE thread_exit /\ is_break' = [is_break EXCEPT ![job] = TRUE] /\ Put(t)
    <3>1. \A j \in Job : j # job => is_break'[j] = is_break[j]
      BY <1>0, <2>2 DEF TypeOK
    <3> QED  BY ZenonT(60), <1>0, <1>1, <1>2, <2>1, <2>2, <3>1, PutCompletes
  <2>3. CASE Put(t) /\ UNCHANGED is_break
    BY <1>0, <1>1, <1>2, <2>1, <2>3, PutCompletes
  <2>4. CASE worker' = [worker EXCEPT ![t].at = "run"] /\ UNCHANGED <<is_break, output_queue>>
    <3>1. \A u \in Thread : worker'[u].job = worker[u].job
      BY <1>0, <1>1, <2>4 DEF TypeOK, Waiting, Done
    <3> QED  BY <1>0, <2>1, <2>4, <3>1, NothingMoves DEF CompleteInv
  <2> QED  BY <1>4, <2>2, <2>3, <2>4 DEF Check
<1> QED  BY <1>3, <1>4

\* Collecting a result reports it, and the loop ends after the last.
LEMMA CollectCompletes == ASSUME RunnerInv, CompleteInv, Collect PROVE CompleteInv'
<1> USE NoneIsNothing
<1>0. /\ TypeOK /\ OnePlace /\ WorkIsReal /\ main = "collect"
      /\ UNCHANGED <<jobs, taken, worker, process, is_break>>
  BY DEF RunnerInv, Collect, workerVars
<1>1. CASE collected = jobs /\ main' = "join" /\ UNCHANGED <<collected, results, counters, output_queue>>
  BY <1>0, <1>1, NothingMoves DEF CompleteInv
<1>2. ASSUME NEW job \in output_queue,
             output_queue' = output_queue \ {job}, collected' = collected + 1,
             IF is_break[job] THEN UNCHANGED <<main, results, counters>>
             ELSE IF Unreadable(job) THEN main' = "raised" /\ UNCHANGED results
                  ELSE results' = [results EXCEPT ![job] = StatusOf(job)] /\ UNCHANGED main
      PROVE  CompleteInv'
  <2>1. job \in Job /\ results[job] = None /\ StatusOf(job) \in Status
    BY <1>0 DEF TypeOK, OnePlace, StatusOf, Status
  <2>2. Held' = Held
    BY <1>0 DEF Held
  <2>3. Cardinality(output_queue') = Cardinality(output_queue) - 1
    BY ZenonT(60), <1>0, <1>2, QueuesFinite, FS_RemoveElement
  <2>4. AllCounted'
    BY <1>0, <1>2, <2>2, <2>3, QueuesFinite DEF CompleteInv, AllCounted, TypeOK
  <2>5. FreshUntilPut'
    BY <1>0 DEF CompleteInv, FreshUntilPut
  <2>6. main' # "join"
    BY <1>0, <1>2
  <2>7. CASE is_break[job]
    <3>1. process[job] = None /\ results' = results /\ main' = main
      BY <1>2, <2>1, <2>7 DEF CompleteInv, FreshUntilPut
    <3>2. RunIsReported'
      BY <1>0, <1>2, <3>1 DEF CompleteInv, RunIsReported
    <3> QED  BY <2>4, <2>5, <2>6, <3>2 DEF CompleteInv
  <2>8. CASE ~is_break[job] /\ Unreadable(job)
    <3>1. main' = "raised" /\ results' = results
      BY <1>2, <2>8
    <3>2. RunIsReported'
      BY <1>0, <3>1 DEF CompleteInv, RunIsReported
    <3> QED  BY <2>4, <2>5, <2>6, <3>2 DEF CompleteInv
  <2>9. CASE ~is_break[job] /\ ~Unreadable(job)
    <3>1. results' = [results EXCEPT ![job] = StatusOf(job)] /\ main' = main
      BY <1>2, <2>9
    <3>2. \A j \in Job : results'[j] = IF j = job THEN StatusOf(job) ELSE results[j]
      BY <1>0, <3>1 DEF TypeOK
    <3>3. job \in Skip \/ process[job] \in Process
      BY <1>0, <2>9 DEF WorkIsReal, ResultIsReal
    <3>4. job \in Skip \/ process[job] # None
      BY <3>3, RunnerAssumption
    <3>5. RunIsReported'
      BY <1>0, <1>2, <2>1, <3>1, <3>2, <3>4 DEF CompleteInv, RunIsReported
    <3> QED  BY <2>4, <2>5, <2>6, <3>5 DEF CompleteInv
  <2> QED  BY <2>7, <2>8, <2>9
<1> QED  BY <1>1, <1>2 DEF Collect

\* No step breaks CompleteInv.
LEMMA CompleteStep == RunnerInv /\ CompleteInv /\ [Next]_vars => CompleteInv'
<1> SUFFICES ASSUME RunnerInv, CompleteInv, [Next]_vars PROVE CompleteInv'
  OBVIOUS
<1>1. CASE \E t \in Thread : Worker(t)
  BY <1>1, GetCompletes, WorkCompletes DEF Worker
<1>2. CASE Collect
  BY <1>2, CollectCompletes
<1>3. CASE Dispatch \/ DispatchBreak \/ Exit \/ sigint_hook \/ UNCHANGED vars
  <2>1. UNCHANGED <<taken, collected, output_queue, process, is_break, results, worker>>
    BY <1>3 DEF Dispatch, DispatchBreak, Exit, sigint_hook, vars, mainVars, workerVars
  <2>2. /\ main' \in {"dispatch", "collect", "join"} => main \in {"dispatch", "collect", "join"}
        /\ main' = "join" => main = "join" /\ jobs' = jobs
    BY <1>3 DEF Dispatch, DispatchBreak, Exit, sigint_hook, vars, mainVars
  <2> QED  BY <2>1, <2>2, NothingMoves DEF CompleteInv
<1> QED  BY <1>1, <1>2, <1>3 DEF Next, Main

\* CompleteInv holds when run_tests starts.
LEMMA CompleteInit == Init => CompleteInv
<1> SUFFICES ASSUME Init PROVE CompleteInv
  OBVIOUS
<1>1. Held = {}
  BY DEF Init, Held, Waiting
<1>2. AllCounted
  BY <1>1, FS_EmptySet DEF Init, AllCounted
<1>3. FreshUntilPut /\ RunIsReported
  BY DEF Init, FreshUntilPut, RunIsReported, Waiting
<1> QED  BY <1>2, <1>3 DEF Init, CompleteInv

\* Whenever the collecting loop ends, every job that was run has its entry in the
\* results file, and every entry is of a job that was run or skipped: no job is
\* still held by a worker or waiting in the output queue.
THEOREM ResultsAreComplete == Spec => []ResultsComplete
<1>1. RunnerInv /\ CompleteInv => ResultsComplete
  <2> SUFFICES ASSUME RunnerInv, CompleteInv, main = "join" PROVE ResultsComplete
    BY DEF ResultsComplete
  <2>1. TypeOK /\ collected = jobs /\ taken \in 0 .. jobs /\ jobs \in Nat
    BY RunnerAssumption DEF RunnerInv, CompleteInv, TypeOK
  <2>2. Cardinality(output_queue) = 0
    BY <2>1, QueuesFinite DEF CompleteInv, AllCounted
  <2>3. output_queue = {}
    BY <2>1, <2>2, QueuesFinite, FS_EmptySet
  <2> QED  BY <2>3 DEF CompleteInv, RunIsReported, ResultsComplete
<1> QED  BY <1>1, RunnerInit, RunnerStep, CompleteInit, CompleteStep, PTL DEF Spec
=============================================================================
