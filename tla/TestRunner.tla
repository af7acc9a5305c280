----------------------------- MODULE TestRunner -----------------------------
(***************************************************************************)
(* The parallel test runner (test.py): run_tests dispatches one job per    *)
(* test to worker threads, followed by one break job per thread, collects  *)
(* as many results as it dispatched jobs, joins the threads and returns    *)
(* the exit status.  An interrupt sets thread_exit at any time.            *)
(*                                                                         *)
(* The input queue is first in first out and all break jobs come last, so  *)
(* the jobs sent and taken are given by how many there are.  Nothing       *)
(* depends on the order of the output queue: it is a set.                  *)
(***************************************************************************)
EXTENDS Integers, FiniteSets

CONSTANTS
    N,        \* number of jobs: suites, examples and Python examples
    Thread,   \* worker threads, one per processor
    Suite,    \* jobs that are test suites; the others are examples
    Skip,     \* jobs with is_skip
    None

Job == 1 .. N
Status == {"PASS", "FAIL", "VALGR", "CRASH", "SKIP"}
Crash == 139      \* stands for every return code other than 0, 1 and 2
Process == [code : {0, 1, 2, Crash}, decodable : BOOLEAN]
ASSUME RunnerAssumption ==
    /\ N \in Nat /\ IsFiniteSet(Thread)
    /\ Suite \subseteq Job /\ Skip \subseteq Job
    /\ None \notin 0 .. N + 1 /\ None \notin Status /\ None \notin Process

VARIABLES
    main,           \* where run_tests is: "dispatch", "collect", "join", "raised", "exited"
    jobs, taken,    \* jobs put into, and taken from, the input queue; jobs = total_tests
    breaks, breaksTaken,
    worker,         \* worker[t]: [at, job]
    thread_exit,
    process,        \* outcome of the process run for a job: [code, decodable], or None
    returncode, is_break,
    output_queue,
    collected,      \* rounds of the collecting loop done
    results,        \* entry of each job in the results file, or None
    passed_tests, skipped_tests, failed_tests, crashed_tests, valgrind_errors,
    exit            \* exit status, or None

counters == <<passed_tests, skipped_tests, failed_tests, crashed_tests, valgrind_errors>>
mainVars == <<main, jobs, breaks, collected, results, counters, exit>>
workerVars == <<taken, breaksTaken, worker, process, returncode, is_break>>
vars == <<mainVars, workerVars, output_queue, thread_exit>>

Waiting == [at |-> "get", job |-> None]
Done == [at |-> "done", job |-> None]

Init ==
    /\ main = "dispatch" /\ jobs = 0 /\ taken = 0 /\ breaks = 0 /\ breaksTaken = 0
    /\ worker = [t \in Thread |-> Waiting] /\ thread_exit = FALSE
    /\ process = [j \in Job |-> None] /\ returncode = [j \in Job |-> 0]
    /\ is_break = [j \in Job |-> FALSE] /\ output_queue = {}
    /\ collected = 0 /\ results = [j \in Job |-> None]
    /\ passed_tests = 0 /\ skipped_tests = 0 /\ failed_tests = 0
    /\ crashed_tests = 0 /\ valgrind_errors = 0 /\ exit = None

-----------------------------------------------------------------------------
\* worker_thread.run

\* Mutated form, used only to show that a property can fail.
BreakAfterExit(t) ==
    /\ worker[t].at = "get"
    /\ \/ /\ taken < jobs /\ taken' = taken + 1 /\ UNCHANGED breaksTaken
          /\ worker' = [worker EXCEPT ![t] = [at |-> "check", job |-> taken + 1]]
       \/ /\ taken = jobs /\ breaksTaken < breaks /\ breaksTaken' = breaksTaken + 1 /\ UNCHANGED taken
          /\ worker' = [worker EXCEPT ![t] = IF thread_exit THEN Waiting ELSE Done]
    /\ UNCHANGED <<mainVars, thread_exit, process, returncode, is_break, output_queue>>

Get(t) ==
    /\ worker[t].at = "get"
    /\ \/ /\ taken < jobs /\ taken' = taken + 1 /\ UNCHANGED breaksTaken
          /\ worker' = [worker EXCEPT ![t] = [at |-> "check", job |-> taken + 1]]
       \/ /\ taken = jobs /\ breaksTaken < breaks /\ breaksTaken' = breaksTaken + 1 /\ UNCHANGED taken
          /\ worker' = [worker EXCEPT ![t] = Done]
    /\ UNCHANGED <<mainVars, thread_exit, process, returncode, is_break, output_queue>>

Put(t) ==
    /\ output_queue' = output_queue \cup {worker[t].job}
    /\ worker' = [worker EXCEPT ![t] = Waiting]

\* Mutated form, used only to show that a property can fail.
PutWithoutBreak(t) ==
    LET job == worker[t].job
    IN  /\ worker[t].at = "check"
        /\ \/ (thread_exit \/ job \in Skip) /\ Put(t)
           \/ /\ ~thread_exit /\ job \notin Skip
              /\ worker' = [worker EXCEPT ![t].at = "run"] /\ UNCHANGED output_queue
        /\ UNCHANGED <<mainVars, thread_exit, taken, breaksTaken, process, returncode, is_break>>

Check(t) ==
    LET job == worker[t].job
    IN  /\ worker[t].at = "check"
        /\ \/ thread_exit /\ is_break' = [is_break EXCEPT ![job] = TRUE] /\ Put(t)
           \/ ~thread_exit /\ job \in Skip /\ Put(t) /\ UNCHANGED is_break
           \/ /\ ~thread_exit /\ job \notin Skip
              /\ worker' = [worker EXCEPT ![t].at = "run"] /\ UNCHANGED <<is_break, output_queue>>
        /\ UNCHANGED <<mainVars, thread_exit, taken, breaksTaken, process, returncode>>

\* Mutated form, used only to show that a property can fail.
IgnoreDecoding(p) == p.code
\* run_job_synchronously returns: output that is not UTF-8 makes it a failure.
run_job_synchronously(p) == IF p.decodable THEN p.code ELSE 1
Run(t) ==
    /\ worker[t].at = "run"
    /\ \E p \in Process :
        /\ process' = [process EXCEPT ![worker[t].job] = p]
        /\ returncode' = [returncode EXCEPT ![worker[t].job] = run_job_synchronously(p)]
    /\ Put(t)
    /\ UNCHANGED <<mainVars, thread_exit, taken, breaksTaken, is_break>>

-----------------------------------------------------------------------------
\* run_tests

Dispatch ==
    /\ main = "dispatch" /\ jobs < N /\ jobs' = jobs + 1
    /\ UNCHANGED <<main, breaks, collected, results, counters, exit, workerVars, output_queue, thread_exit>>

DispatchBreak ==
    /\ main = "dispatch" /\ jobs = N
    /\ IF breaks < Cardinality(Thread) THEN breaks' = breaks + 1 /\ UNCHANGED main
       ELSE main' = "collect" /\ UNCHANGED breaks
    /\ UNCHANGED <<jobs, collected, results, counters, exit, workerVars, output_queue, thread_exit>>

StatusOf(job) ==
    CASE job \in Skip -> "SKIP"
      [] job \notin Skip /\ returncode[job] = 0 -> "PASS"
      [] job \notin Skip /\ returncode[job] = 1 -> "FAIL"
      [] job \notin Skip /\ returncode[job] = 2 -> "VALGR"
      [] OTHER -> "CRASH"

Count(status) ==
    /\ passed_tests' = IF status = "PASS" THEN passed_tests + 1 ELSE passed_tests
    /\ skipped_tests' = IF status = "SKIP" THEN skipped_tests + 1 ELSE skipped_tests
    /\ failed_tests' = IF status = "FAIL" THEN failed_tests + 1 ELSE failed_tests
    /\ crashed_tests' = IF status = "CRASH" THEN crashed_tests + 1 ELSE crashed_tests
    /\ valgrind_errors' = IF status = "VALGR" THEN valgrind_errors + 1 ELSE valgrind_errors

\* A suite whose process ended by itself has written its results file.  Opening
\* one that does not exist raises an exception.
HasXml(job) == process[job] # None /\ process[job].code # Crash
Unreadable(job) == job \in Suite \ Skip /\ returncode[job] \in {0, 1, 2} /\ ~HasXml(job)

\* One round of the loop over range(jobs), and its end
Collect ==
    /\ main = "collect"
    /\ \/ /\ collected < jobs
          /\ \E job \in output_queue :
              /\ output_queue' = output_queue \ {job} /\ collected' = collected + 1
              /\ IF is_break[job] THEN UNCHANGED <<main, results, counters>>
                 ELSE /\ Count(StatusOf(job))
                      /\ IF Unreadable(job) THEN main' = "raised" /\ UNCHANGED results
                         ELSE results' = [results EXCEPT ![job] = StatusOf(job)] /\ UNCHANGED main
       \/ collected = jobs /\ main' = "join" /\ UNCHANGED <<collected, results, counters, output_queue>>
    /\ UNCHANGED <<jobs, breaks, exit, workerVars, thread_exit>>

\* The threads are joined, after an exception by the interpreter.
Exit ==
    /\ main \in {"join", "raised"} /\ \A t \in Thread : worker[t] = Done
    /\ main' = "exited"
    /\ exit' = IF main = "join" /\ passed_tests + skipped_tests = jobs THEN 0 ELSE 1
    /\ UNCHANGED <<jobs, breaks, collected, results, counters, workerVars, output_queue, thread_exit>>

sigint_hook ==
    /\ main # "exited" /\ ~thread_exit /\ thread_exit' = TRUE
    /\ UNCHANGED <<mainVars, workerVars, output_queue>>

Worker(t) == Get(t) \/ Check(t) \/ Run(t)
Main == Dispatch \/ DispatchBreak \/ Collect \/ Exit
Next == Main \/ sigint_hook \/ \E t \in Thread : Worker(t)
Spec == Init /\ [][Next]_vars
FairSpec == Spec /\ WF_vars(Main) /\ \A t \in Thread : WF_vars(Worker(t))

-----------------------------------------------------------------------------
\* Properties

Held == {worker[t].job : t \in {u \in Thread : worker[u].job # None}}

TypeOK ==
    /\ main \in {"dispatch", "collect", "join", "raised", "exited"}
    /\ jobs \in 0 .. N /\ taken \in 0 .. jobs /\ collected \in 0 .. jobs
    /\ breaks \in 0 .. Cardinality(Thread) /\ breaksTaken \in 0 .. breaks
    /\ worker \in [Thread -> {Waiting, Done} \cup [at : {"check", "run"}, job : Job]]
    /\ thread_exit \in BOOLEAN /\ process \in [Job -> Process \cup {None}]
    /\ returncode \in [Job -> {0, 1, 2, Crash}] /\ is_break \in [Job -> BOOLEAN]
    /\ output_queue \subseteq Job /\ results \in [Job -> Status \cup {None}]
    /\ passed_tests \in Nat /\ skipped_tests \in Nat /\ failed_tests \in Nat
    /\ crashed_tests \in Nat /\ valgrind_errors \in Nat /\ exit \in {0, 1, None}

\* The runner reports success only if the process of every job that is not
\* skipped has run, returned 0 and written readable output: not when an
\* interrupt made a worker hand back a job it never ran, whose returncode is
\* still False.
SuccessIsEarned ==
    exit = 0 => \A j \in Job \ Skip : process[j] = [code |-> 0, decodable |-> TRUE]

\* After the collecting loop every job that a process was run for has its entry
\* in the results file, and no other but the skipped ones has.
ResultsComplete ==
    main = "join" => \A j \in Job : /\ process[j] # None => results[j] # None
                                    /\ results[j] # None => process[j] # None \/ j \in Skip

\* The runner ends, whenever it is interrupted, and with it every thread: the
\* collecting loop gets as many results as it waits for, and every thread gets
\* a break job.
RunnerEnds == <>(main = "exited" /\ \A t \in Thread : worker[t] = Done)
=============================================================================
