------------------------------ MODULE SelfTest ------------------------------
(***************************************************************************)
(* The parallel self-test runner (pcbqa/parallel.py): a parent hands test  *)
(* ids to worker processes over one queue and collects one record per test *)
(* over another.                                                           *)
(*                                                                         *)
(* A multiprocessing queue is a pipe behind a buffer in each writer, which *)
(* a thread of that writer empties: what a process has put is lost if it   *)
(* dies before its buffer is written, and a reader finds a queue "empty"   *)
(* while the writer lags or while another reader has the queue's lock.     *)
(*                                                                         *)
(* A test is known here by the callbacks unittest makes for it, in order:  *)
(* "subfail" is addSubTest with an exception, the others are the addXxx    *)
(* methods; "hang" is a test that never returns.  No callback at all is a  *)
(* test that could not be loaded or whose id unittest never called about.  *)
(***************************************************************************)
EXTENDS Naturals, Sequences, FiniteSets, SequencesExt

CONSTANTS
  Tests,     \* the discovered test ids, in discovery order
  Worker,    \* the worker processes
  Scripts,   \* callback sequences a test may make
  NoTest,    \* no test in hand
  DoneMark   \* stands for the id None of a worker_done message

Test == ToSet(Tests)

ASSUME SelfTestAssumption ==
  /\ Tests \in Seq(Test) /\ IsInjective(Tests)
  /\ IsFiniteSet(Worker) /\ Cardinality(Worker) \in 2 .. Len(Tests)
  /\ Scripts \subseteq Seq({"ok", "fail", "error", "skip", "subfail",
                            "expected_failure", "unexpected_success",
                            "hang"})
  /\ NoTest \notin Test /\ DoneMark \notin Test

Outcome == {"ok", "fail", "error", "skip", "expected_failure",
            "unexpected_success"}
Good    == {"ok", "skip", "expected_failure"}

VARIABLES
  script,    \* the callbacks each test makes
  failFast,  \* whether --fail-fast was given
  unsent,    \* jobs the parent has put but not yet written to the pipe
  jobs,      \* jobs in the pipe
  wpc,       \* where each worker is
  test,      \* the test each worker has in hand
  out,       \* what each worker has put but not yet written
  results,   \* what is in the results pipe
  ran,       \* the tests that ran to their end (a history)
  records,   \* the records the parent has collected
  finished,  \* workers whose worker_done the parent has seen
  ppc        \* the parent: collecting, stopping (or cut short), its verdict

inputVars  == <<script, failFast>>
workerVars == <<wpc, test, out>>
parentVars == <<records, finished, ppc>>
vars == <<inputVars, unsent, jobs, workerVars, results, ran, parentVars>>

Item == [worker : Worker, test : Test \cup {DoneMark}]

TypeOK ==
  /\ script \in [Test -> Scripts]
  /\ failFast \in BOOLEAN
  /\ unsent \in Seq(Test) /\ jobs \in Seq(Test)
  /\ wpc \in [Worker -> {"pulling", "running", "leaving", "gone", "killed",
                     "killed_reading"}]
  /\ test \in [Worker -> Test \cup {NoTest}]
  /\ out \in [Worker -> Seq(Item)]
  /\ results \in Seq(Item)
  /\ ran \in SUBSET Test
  /\ records \in SUBSET Test
  /\ finished \in SUBSET Worker
  /\ ppc \in {"collecting", "stopping", "cut", "OK", "FAILED"}

Init ==
  /\ script \in [Test -> Scripts]
  /\ failFast \in BOOLEAN
  /\ unsent = Tests /\ jobs = <<>>
  /\ wpc = [w \in Worker |-> "pulling"]
  /\ test = [w \in Worker |-> NoTest]
  /\ out = [w \in Worker |-> <<>>]
  /\ results = <<>>
  /\ ran = {} /\ records = {} /\ finished = {}
  /\ ppc = "collecting"

-----------------------------------------------------------------------------
(* _Collector: each callback overwrites the test's record, except that a   *)
(* failing subtest is merged into a record that already failed.            *)
Collect(outcome, callback) ==
  CASE callback # "subfail"            -> callback
    [] outcome \in {"fail", "error"}   -> outcome
    [] OTHER                           -> "fail"

(* _run_one: no record of the test's id is an error.                       *)
Recorded(t) ==
  IF script[t] = <<>> THEN "error" ELSE FoldLeft(Collect, "none", script[t])

-----------------------------------------------------------------------------
(* The workers.                                                            *)

SendJob ==
  /\ unsent # <<>>
  /\ jobs' = Append(jobs, Head(unsent))
  /\ unsent' = Tail(unsent)
  /\ UNCHANGED <<inputVars, workerVars, results, ran, parentVars>>

(* jobs.get_nowait() returns a test ...                                    *)
Pull(w) ==
  /\ wpc[w] = "pulling"
  /\ jobs # <<>>
  /\ test' = [test EXCEPT ![w] = Head(jobs)]
  /\ jobs' = Tail(jobs)
  /\ wpc' = [wpc EXCEPT ![w] = "running"]
  /\ UNCHANGED <<inputVars, unsent, out, results, ran, parentVars>>

(* ... or raises Empty: the pipe is empty, or another worker holds the     *)
(* queue's reading lock, for ever if it was killed holding it.             *)
FindsEmpty(w) ==
  /\ wpc[w] = "pulling"
  /\ \/ jobs = <<>>
     \/ \E v \in Worker \ {w} : wpc[v] \in {"pulling", "killed_reading"}

\* Mutant: the worker reports that it is done ahead of its results.
DoneFirst(w) ==
  /\ FindsEmpty(w)
  /\ out' = [out EXCEPT ![w] = <<[worker |-> w, test |-> DoneMark]>> \o @]
  /\ wpc' = [wpc EXCEPT ![w] = "leaving"]
  /\ UNCHANGED <<inputVars, unsent, jobs, test, results, ran, parentVars>>

PullEmpty(w) ==
  /\ FindsEmpty(w)
  /\ out' = [out EXCEPT ![w] = Append(@, [worker |-> w, test |-> DoneMark])]
  /\ wpc' = [wpc EXCEPT ![w] = "leaving"]
  /\ UNCHANGED <<inputVars, unsent, jobs, test, results, ran, parentVars>>

RunTest(w) ==
  /\ wpc[w] = "running"
  /\ ~Contains(script[test[w]], "hang")
  /\ out' = [out EXCEPT ![w] = Append(@, [worker |-> w, test |-> test[w]])]
  /\ test' = [test EXCEPT ![w] = NoTest]
  /\ wpc' = [wpc EXCEPT ![w] = "pulling"]
  /\ ran' = ran \cup {test[w]}
  /\ UNCHANGED <<inputVars, unsent, jobs, results, parentVars>>

Alive(w) == wpc[w] \in {"pulling", "running", "leaving"}

Flush(w) ==
  /\ Alive(w)
  /\ out[w] # <<>>
  /\ results' = Append(results, Head(out[w]))
  /\ out' = [out EXCEPT ![w] = Tail(@)]
  /\ UNCHANGED <<inputVars, unsent, jobs, wpc, test, ran, parentVars>>

(* A process that returns from worker_main waits for its buffer.           *)
WorkerExit(w) ==
  /\ wpc[w] = "leaving" /\ out[w] = <<>>
  /\ wpc' = [wpc EXCEPT ![w] = "gone"]
  /\ UNCHANGED <<inputVars, unsent, jobs, test, out, results, ran, parentVars>>

(* A worker dies anywhere, in a crashing test or with the jobs lock.       *)
WorkerCrash(w) ==
  /\ Alive(w)
  /\ \E end \in {"killed"} \cup {e \in {"killed_reading"} : wpc[w] = "pulling"} :
       wpc' = [wpc EXCEPT ![w] = end]
  /\ test' = [test EXCEPT ![w] = NoTest]
  /\ out' = [out EXCEPT ![w] = <<>>]
  /\ UNCHANGED <<inputVars, unsent, jobs, results, ran, parentVars>>

-----------------------------------------------------------------------------
(* The parent.                                                             *)

Collecting == ppc = "collecting" /\ finished # Worker

\* Mutant: a worker_done message is recorded like a test's.
ReceiveAny ==
  /\ Collecting
  /\ results # <<>>
  /\ results' = Tail(results)
  /\ records' = records \cup {Head(results).test}
  /\ UNCHANGED <<inputVars, unsent, jobs, workerVars, ran, finished, ppc>>

(* One message of the loop; a failure ends it when --fail-fast was given.  *)
ReceiveRecord ==
  /\ Collecting
  /\ results # <<>> /\ Head(results).test # DoneMark
  /\ results' = Tail(results)
  /\ records' = records \cup {Head(results).test}
  /\ ppc' = IF failFast /\ Recorded(Head(results).test) \in {"fail", "error"}
              THEN "cut" ELSE ppc
  /\ UNCHANGED <<inputVars, unsent, jobs, workerVars, ran, finished>>

ReceiveDone ==
  /\ Collecting
  /\ results # <<>> /\ Head(results).test = DoneMark
  /\ results' = Tail(results)
  /\ finished' = finished \cup {Head(results).worker}
  /\ UNCHANGED <<inputVars, unsent, jobs, workerVars, ran, records, ppc>>

AllFinished ==
  /\ ppc = "collecting" /\ finished = Worker
  /\ ppc' = "stopping"
  /\ UNCHANGED <<inputVars, unsent, jobs, workerVars, results, ran, records,
                 finished>>

\* Mutant: the time limit is looked at only once no worker is alive.
DeadlineWhenIdle ==
  /\ Collecting /\ \A w \in Worker : ~Alive(w)
  /\ ppc' = "cut"
  /\ UNCHANGED <<inputVars, unsent, jobs, workerVars, results, ran, records,
                 finished>>

Deadline ==
  /\ Collecting
  /\ ppc' = "cut"
  /\ UNCHANGED <<inputVars, unsent, jobs, workerVars, results, ran, records,
                 finished>>

\* Mutant: a get that timed out is taken for an empty pipe.
AllGoneUnread ==
  /\ Collecting
  /\ \A w \in Worker : ~Alive(w)
  /\ ppc' = "stopping"
  /\ UNCHANGED <<inputVars, unsent, jobs, workerVars, results, ran, records,
                 finished>>

(* A get timed out, no worker is alive and the pipe is empty.              *)
AllGone ==
  /\ Collecting
  /\ \A w \in Worker : ~Alive(w)
  /\ results = <<>>
  /\ ppc' = "stopping"
  /\ UNCHANGED <<inputVars, unsent, jobs, workerVars, results, ran, records,
                 finished>>

\* Mutant: the tests for which no record came are left out of the count.
PassesOnRecords ==
  /\ \A t \in records : Recorded(t) \in Good
  /\ finished = Worker

(* _summarise: a row per test, a missing one included, and one per worker  *)
(* that never finished; the run is OK when every row is good.              *)
Passes ==
  /\ \A t \in Test : t \in records /\ Recorded(t) \in Good
  /\ finished = Worker

(* Terminate and join what is alive, then summarise.                       *)
Summarise ==
  /\ ppc \in {"stopping", "cut"}
  /\ wpc' = [w \in Worker |-> IF Alive(w) THEN "killed" ELSE wpc[w]]
  /\ test' = [w \in Worker |-> NoTest]
  /\ out' = [w \in Worker |-> <<>>]
  /\ ppc' = IF Passes THEN "OK" ELSE "FAILED"
  /\ UNCHANGED <<inputVars, unsent, jobs, results, ran, records, finished>>

WorkerStep(w) ==
  Pull(w) \/ PullEmpty(w) \/ RunTest(w) \/ Flush(w) \/ WorkerExit(w)

Next ==
  \/ SendJob
  \/ \E w \in Worker : WorkerStep(w) \/ WorkerCrash(w)
  \/ ReceiveRecord \/ ReceiveDone
  \/ AllFinished \/ AllGone \/ Deadline \/ Summarise

Spec == Init /\ [][Next]_vars

(* Time passes, so the limit is reached; the parent's own steps run.       *)
FairSpec ==
  Spec /\ WF_vars(Deadline) /\ WF_vars(AllFinished) /\ WF_vars(Summarise)

-----------------------------------------------------------------------------

(* "A worker that crashes, hangs or returns nothing is an error, not a     *)
(* silent pass" (parallel.py:14): an OK run really ran every test to its   *)
(* end, and lost no worker before that worker had reported.                *)
OkMeansAllRan ==
  ppc = "OK" => /\ ran = Test
                /\ \A w \in Worker :
                     wpc[w] \in {"killed", "killed_reading"} => w \in finished

(* A worker counts as finished only when every record it produced has      *)
(* arrived: nothing of it is still in its buffer or in the pipe.           *)
FinishedMeansDelivered ==
  \A w \in finished : /\ out[w] = <<>>
                      /\ \A i \in DOMAIN results : results[i].worker # w
                      /\ test[w] = NoTest

(* A run that was not cut short leaves nothing unread: what a dead worker  *)
(* had written is collected before the run is called off, so no test that  *)
(* reported is then counted as missing.                                    *)
NothingLeftUnread ==
  ppc = "stopping" => /\ results = <<>>
                      /\ \A w \in Worker : out[w] = <<>>
                      /\ \A w \in Worker : wpc[w] = "gone" => w \in finished

(* Whatever workers do, hang or die, the run comes to a verdict.           *)
RunEnds == <>(ppc \in {"OK", "FAILED"})

(* addSubTest's comment: "a runner that turns a real failure into a shrug  *)
(* is the failure mode this whole file exists to prevent".  A run that is  *)
(* OK would then have had no failing callback in any test.                 *)
FailureNeverPasses ==
  ppc = "OK" =>
    \A t \in Test : ToSet(script[t]) \cap {"fail", "error", "subfail"} = {}
=============================================================================
