--------------------------- MODULE SelfTestProof ----------------------------
(***************************************************************************)
(* Proofs about SelfTest, for any tests, workers and scripts.  The         *)
(* argument follows the message a worker sends last: behind it nothing of  *)
(* that worker is on its way, so a worker that the parent has seen finish  *)
(* has delivered all it had, and a worker that left by itself cannot have  *)
(* left without that message being somewhere.                              *)
(***************************************************************************)
EXTENDS SelfTest, SequenceTheorems, TLAPS

IsDone(item, w) == item.worker = w /\ item.test = DoneMark
HasDone(s, w) == \E i \in DOMAIN s : IsDone(s[i], w)

\* What follows a worker's last message is not that worker's.
DoneLast(s) == \A i, j \in DOMAIN s :
                 s[i].test = DoneMark /\ s[j].worker = s[i].worker => j <= i

\* A record on its way is of a test that ran.
OfRan(s) == \A i \in DOMAIN s : s[i].test # DoneMark => s[i].test \in ran

\* A test is in hand exactly while it runs.
HandInv ==
  \A w \in Worker : test[w] \in Test <=> wpc[w] = "running"

\* A buffer holds its own worker's messages, and a dead one nothing.
OutInv ==
  \A w \in Worker :
    /\ \A i \in DOMAIN out[w] : out[w][i].worker = w
    /\ DoneLast(out[w])
    /\ HasDone(out[w], w) => wpc[w] = "leaving"
    /\ ~ Alive(w) => out[w] = <<>>

Reported(w) == out[w] = <<>> /\ wpc[w] \in {"leaving", "gone", "killed"}

\* The last message of a worker leaves an empty buffer behind ...
PipeInv ==
  /\ DoneLast(results)
  /\ \A w \in Worker : HasDone(results, w) => Reported(w)

\* ... and once it is read, a pipe without messages of that worker.
FinishedInv ==
  \A w \in finished : /\ Reported(w)
                      /\ \A i \in DOMAIN results : results[i].worker # w

\* Nobody leaves without that message.
SentInv ==
  \A w \in Worker : wpc[w] \in {"leaving", "gone"} =>
    w \in finished \/ HasDone(results, w) \/ HasDone(out[w], w)

RanInv == records \subseteq ran /\ OfRan(results) /\ \A w \in Worker : OfRan(out[w])

\* What the loop established by ending, and the summary by saying OK.
VerdictInv ==
  /\ ppc = "stopping" => /\ results = <<>>
                         /\ \A w \in Worker : ~ Alive(w) \/ w \in finished
  /\ ppc = "OK" => Test \subseteq records /\ finished = Worker

IInv == /\ TypeOK /\ HandInv /\ OutInv /\ PipeInv
        /\ FinishedInv /\ SentInv /\ RanInv /\ VerdictInv

-----------------------------------------------------------------------------
(* What reading and writing a queue does to a sequence.                    *)

LEMMA TailIs ==
  ASSUME NEW S, NEW s \in Seq(S), s # <<>>
  PROVE  /\ Head(s) \in S /\ Tail(s) \in Seq(S)
         /\ 1 \in DOMAIN s /\ Head(s) = s[1]
         /\ \A i \in DOMAIN Tail(s) : i + 1 \in DOMAIN s /\ Tail(s)[i] = s[i + 1]
         /\ \A i \in DOMAIN s : i # 1 =>
              i - 1 \in DOMAIN Tail(s) /\ Tail(s)[i - 1] = s[i]
         /\ DOMAIN s \subseteq Nat /\ DOMAIN Tail(s) \subseteq Nat
OBVIOUS

LEMMA AppendIs ==
  ASSUME NEW S, NEW s \in Seq(S), NEW e \in S
  PROVE  /\ Append(s, e) \in Seq(S)
         /\ DOMAIN Append(s, e) = DOMAIN s \cup {Len(s) + 1}
         /\ DOMAIN s = 1 .. Len(s) /\ Len(s) \in Nat
         /\ \A i \in DOMAIN s : Append(s, e)[i] = s[i]
         /\ Append(s, e)[Len(s) + 1] = e
OBVIOUS

LEMMA TailKeepsOrder ==
  ASSUME NEW s \in Seq(Item), s # <<>>, DoneLast(s)
  PROVE  DoneLast(Tail(s))
<1> SUFFICES ASSUME NEW i \in DOMAIN Tail(s), NEW j \in DOMAIN Tail(s),
                    Tail(s)[i].test = DoneMark,
                    Tail(s)[j].worker = Tail(s)[i].worker
             PROVE  j <= i
  BY DEF DoneLast
<1>1. /\ i + 1 \in DOMAIN s /\ Tail(s)[i] = s[i + 1]
      /\ j + 1 \in DOMAIN s /\ Tail(s)[j] = s[j + 1]
      /\ i \in Nat /\ j \in Nat
  BY TailIs
<1>2. j + 1 <= i + 1
  BY <1>1 DEF DoneLast
<1> QED BY <1>1, <1>2

\* A worker whose last message is not in a sequence may add to it.
LEMMA AppendKeepsOrder ==
  ASSUME NEW s \in Seq(Item), NEW e \in Item, DoneLast(s), ~ HasDone(s, e.worker)
  PROVE  DoneLast(Append(s, e))
<1> DEFINE t == Append(s, e)
<1> SUFFICES ASSUME NEW i \in DOMAIN t, NEW j \in DOMAIN t,
                    t[i].test = DoneMark, t[j].worker = t[i].worker
             PROVE  j <= i
  BY DEF DoneLast
<1>1. CASE i \in DOMAIN s /\ j \in DOMAIN s
  BY <1>1, AppendIs DEF DoneLast
<1>2. CASE i = Len(s) + 1
  BY <1>2, AppendIs
<1>3. CASE i \in DOMAIN s /\ j = Len(s) + 1
  BY <1>3, AppendIs DEF HasDone, IsDone
<1> QED BY <1>1, <1>2, <1>3, AppendIs

-----------------------------------------------------------------------------

LEMMA InitIInv == Init => IInv
<1> SUFFICES ASSUME Init PROVE IInv
  OBVIOUS
<1>1. Tests \in Seq(Test)
  BY SelfTestAssumption
<1>2. TypeOK
  BY <1>1 DEF Init, TypeOK
<1>3. HandInv
  BY SelfTestAssumption DEF Init, HandInv
<1>4. OutInv /\ PipeInv /\ FinishedInv /\ SentInv /\ RanInv
  BY DEF Init, OutInv, PipeInv, FinishedInv, SentInv, RanInv, DoneLast, HasDone,
         OfRan, Alive
<1>5. VerdictInv
  BY DEF Init, VerdictInv
<1> QED BY <1>2, <1>3, <1>4, <1>5 DEF IInv

\* Jobs on their way concern nobody yet.
LEMMA SendKeeps == IInv /\ SendJob => IInv'
<1> SUFFICES ASSUME IInv, SendJob PROVE IInv'
  OBVIOUS
<1>1. Head(unsent) \in Test /\ Tail(unsent) \in Seq(Test)
  BY TailIs DEF IInv, TypeOK, SendJob
<1>2. jobs' \in Seq(Test)
  BY <1>1, AppendIs DEF IInv, TypeOK, SendJob
<1>3. TypeOK'
  BY <1>1, <1>2 DEF IInv, TypeOK, SendJob, inputVars, workerVars, parentVars
<1>4. UNCHANGED <<workerVars, results, ran, parentVars>>
  BY DEF SendJob
<1> QED
  BY <1>3, <1>4 DEF IInv, HandInv, OutInv, PipeInv, FinishedInv, SentInv, RanInv,
     VerdictInv, workerVars, parentVars, Reported, OfRan, Alive

\* A test that is taken is in hand.
LEMMA PullKeeps == ASSUME IInv, NEW w \in Worker, Pull(w) PROVE IInv'
<1>1. Head(jobs) \in Test /\ Tail(jobs) \in Seq(Test)
  BY TailIs DEF IInv, TypeOK, Pull
<1>2. wpc[w] = "pulling" /\ wpc' = [wpc EXCEPT ![w] = "running"]
  BY DEF Pull
<1>3. test' = [test EXCEPT ![w] = Head(jobs)]
  BY DEF Pull
<1>4. UNCHANGED <<script, failFast, unsent, out, results, ran, records, finished, ppc>>
  BY DEF Pull, inputVars, parentVars
<1>5. TypeOK'
  BY <1>1, <1>2, <1>3, <1>4 DEF IInv, TypeOK, Pull
<1>6. HandInv'
  BY <1>1, <1>2, <1>3 DEF IInv, TypeOK, HandInv
<1>7. OutInv' /\ PipeInv' /\ FinishedInv' /\ SentInv' /\ VerdictInv'
  BY <1>2, <1>4 DEF IInv, TypeOK, OutInv, PipeInv, FinishedInv, SentInv, VerdictInv,
     Reported, Alive
<1>8. RanInv'
  BY <1>4 DEF IInv, RanInv, OfRan
<1> QED BY <1>5, <1>6, <1>7, <1>8 DEF IInv

\* A worker at work has not sent its last message.
LEMMA NotDone ==
  ASSUME IInv, NEW w \in Worker, wpc[w] \in {"pulling", "running"}
  PROVE  w \notin finished /\ ~ HasDone(results, w) /\ ~ HasDone(out[w], w)
BY DEF IInv, OutInv, PipeInv, FinishedInv, Reported

\* It may put a message behind those in its buffer.
LEMMA PutKeeps ==
  ASSUME IInv, NEW w \in Worker, wpc[w] \in {"pulling", "running"},
         NEW item \in Item, item.worker = w,
         out' = [out EXCEPT ![w] = Append(@, item)]
  PROVE  /\ out' \in [Worker -> Seq(Item)]
         /\ \A v \in Worker \ {w} : out'[v] = out[v]
         /\ out'[w] = Append(out[w], item)
         /\ \A i \in DOMAIN out'[w] : out'[w][i].worker = w
         /\ DoneLast(out'[w])
         /\ HasDone(out'[w], w) <=> item.test = DoneMark
<1>1. out \in [Worker -> Seq(Item)] /\ out[w] \in Seq(Item)
  BY DEF IInv, TypeOK
<1>2. out'[w] = Append(out[w], item) /\ Append(out[w], item) \in Seq(Item)
  BY <1>1, AppendIs
<1>3. ~ HasDone(out[w], w) /\ DoneLast(out[w])
  BY NotDone DEF IInv, OutInv
<1>4. DoneLast(out'[w])
  BY <1>1, <1>2, <1>3, AppendKeepsOrder
<1>5. \A i \in DOMAIN out[w] : out[w][i].worker = w
  BY DEF IInv, OutInv
<1>6. \A i \in DOMAIN out'[w] : out'[w][i].worker = w
  BY <1>1, <1>2, <1>5, AppendIs
<1>7. HasDone(out'[w], w) <=> item.test = DoneMark
  BY <1>1, <1>2, <1>3, AppendIs DEF HasDone, IsDone
<1>8. out' \in [Worker -> Seq(Item)] /\ \A v \in Worker \ {w} : out'[v] = out[v]
  BY <1>1, <1>2
<1> QED BY <1>2, <1>4, <1>6, <1>7, <1>8

LEMMA PullEmptyKeeps == ASSUME IInv, NEW w \in Worker, PullEmpty(w) PROVE IInv'
<1> DEFINE item == [worker |-> w, test |-> DoneMark]
<1>1. wpc[w] = "pulling" /\ wpc' = [wpc EXCEPT ![w] = "leaving"]
  BY DEF PullEmpty, FindsEmpty
<1>2. item \in Item /\ item.worker = w /\ item.test = DoneMark
  BY DEF Item
<1>3. out' = [out EXCEPT ![w] = Append(@, item)]
  BY DEF PullEmpty
<1>4. UNCHANGED <<script, failFast, unsent, jobs, test, results, ran, records, finished, ppc>>
  BY DEF PullEmpty, inputVars, parentVars
<1> HIDE DEF item
<1>5. /\ out' \in [Worker -> Seq(Item)]
      /\ \A v \in Worker \ {w} : out'[v] = out[v]
      /\ out'[w] = Append(out[w], item)
      /\ \A i \in DOMAIN out'[w] : out'[w][i].worker = w
      /\ DoneLast(out'[w])
      /\ HasDone(out'[w], w)
  BY <1>1, <1>2, <1>3, PutKeeps
<1>6. /\ wpc \in [Worker -> {"pulling", "running", "leaving", "gone", "killed",
                             "killed_reading"}]
      /\ finished \subseteq Worker /\ out[w] \in Seq(Item)
  BY DEF IInv, TypeOK
<1>7. TypeOK'
  BY <1>1, <1>4, <1>5, <1>6 DEF IInv, TypeOK
<1>8. HandInv'
  BY <1>1, <1>4, <1>6 DEF IInv, HandInv
<1>9. OutInv'
  BY <1>1, <1>5, <1>6 DEF IInv, OutInv, Alive
<1>10. PipeInv' /\ FinishedInv'
  BY <1>1, <1>4, <1>5, <1>6, NotDone DEF IInv, PipeInv, FinishedInv, Reported
<1>11. SentInv'
  BY <1>1, <1>4, <1>5, <1>6 DEF IInv, SentInv
<1>12. \A i \in DOMAIN out'[w] : out'[w][i].test # DoneMark => out'[w][i].test \in ran'
  BY <1>2, <1>4, <1>5, <1>6, AppendIs DEF IInv, RanInv, OfRan
<1>13. RanInv'
  BY <1>4, <1>5, <1>12 DEF IInv, RanInv, OfRan
<1>14. VerdictInv'
  BY <1>1, <1>4, <1>6 DEF IInv, VerdictInv, Alive
<1> QED BY <1>7, <1>8, <1>9, <1>10, <1>11, <1>13, <1>14 DEF IInv

LEMMA RunKeeps == ASSUME IInv, NEW w \in Worker, RunTest(w) PROVE IInv'
<1> DEFINE item == [worker |-> w, test |-> test[w]]
<1>1. wpc[w] = "running" /\ wpc' = [wpc EXCEPT ![w] = "pulling"]
  BY DEF RunTest
<1>2. test[w] \in Test /\ test[w] # DoneMark
  BY <1>1, SelfTestAssumption DEF IInv, HandInv
<1>3. item \in Item /\ item.worker = w /\ item.test = test[w]
  BY <1>2 DEF Item
<1>4. out' = [out EXCEPT ![w] = Append(@, item)] /\ ran' = ran \cup {test[w]}
      /\ test' = [test EXCEPT ![w] = NoTest]
  BY DEF RunTest
<1>5. UNCHANGED <<script, failFast, unsent, jobs, results, records, finished, ppc>>
  BY DEF RunTest, inputVars, parentVars
<1> HIDE DEF item
<1>6. /\ out' \in [Worker -> Seq(Item)]
      /\ \A v \in Worker \ {w} : out'[v] = out[v]
      /\ out'[w] = Append(out[w], item)
      /\ \A i \in DOMAIN out'[w] : out'[w][i].worker = w
      /\ DoneLast(out'[w])
      /\ ~ HasDone(out'[w], w)
  BY <1>1, <1>2, <1>3, <1>4, PutKeeps
<1>7. /\ wpc \in [Worker -> {"pulling", "running", "leaving", "gone", "killed",
                             "killed_reading"}]
      /\ test \in [Worker -> Test \cup {NoTest}]
      /\ out[w] \in Seq(Item) /\ ran \subseteq Test /\ finished \subseteq Worker
  BY DEF IInv, TypeOK
<1>8. TypeOK'
  BY <1>1, <1>2, <1>4, <1>5, <1>6, <1>7 DEF IInv, TypeOK
<1>9. HandInv'
  BY <1>1, <1>4, <1>7, SelfTestAssumption DEF IInv, HandInv
<1>10. OutInv'
  BY <1>1, <1>6, <1>7 DEF IInv, OutInv, Alive
<1>11. PipeInv' /\ FinishedInv'
  BY <1>1, <1>5, <1>6, <1>7, NotDone DEF IInv, PipeInv, FinishedInv, Reported
<1>12. SentInv'
  BY <1>1, <1>5, <1>6, <1>7 DEF IInv, SentInv
<1>13. \A i \in DOMAIN out'[w] : out'[w][i].test # DoneMark => out'[w][i].test \in ran'
  BY <1>3, <1>4, <1>6, <1>7, AppendIs DEF IInv, RanInv, OfRan
<1>14. RanInv'
  BY <1>4, <1>5, <1>6, <1>13 DEF IInv, RanInv, OfRan
<1>15. VerdictInv'
  BY <1>1, <1>5, <1>7 DEF IInv, VerdictInv, Alive
<1> QED BY <1>8, <1>9, <1>10, <1>11, <1>12, <1>14, <1>15 DEF IInv

\* Reading the first message loses no other.
LEMMA TailHolds ==
  ASSUME NEW s \in Seq(Item), s # <<>>, NEW w
  PROVE  HasDone(s, w) <=> IsDone(Head(s), w) \/ HasDone(Tail(s), w)
<1>1. HasDone(Tail(s), w) => HasDone(s, w)
  BY TailIs DEF HasDone
<1>2. IsDone(Head(s), w) => HasDone(s, w)
  BY TailIs DEF HasDone
<1>3. HasDone(s, w) => IsDone(Head(s), w) \/ HasDone(Tail(s), w)
  BY TailIs DEF HasDone
<1> QED BY <1>1, <1>2, <1>3

\* Behind its last message a buffer holds nothing.
LEMMA NothingBehind ==
  ASSUME NEW s \in Seq(Item), s # <<>>, NEW w, IsDone(Head(s), w), DoneLast(s),
         \A i \in DOMAIN s : s[i].worker = w
  PROVE  Tail(s) = <<>>
<1>1. \A j \in DOMAIN s : j <= 1
  BY TailIs DEF DoneLast, IsDone
<1>2. DOMAIN s = 1 .. Len(s) /\ Len(s) \in Nat
  OBVIOUS
<1>3. Len(s) = 1
  BY <1>1, <1>2, TailIs
<1>4. Tail(s) \in Seq(Item) /\ Len(Tail(s)) = 0
  BY <1>3
<1> QED BY <1>4, EmptySeq

LEMMA FlushKeeps == ASSUME IInv, NEW w \in Worker, Flush(w) PROVE IInv'
<1> DEFINE item == Head(out[w])
<1>1. /\ Alive(w) /\ out[w] # <<>>
      /\ results' = Append(results, item)
      /\ out' = [out EXCEPT ![w] = Tail(@)]
  BY DEF Flush
<1>2. UNCHANGED <<script, failFast, unsent, jobs, wpc, test, ran, records, finished, ppc>>
  BY DEF Flush, inputVars, parentVars
<1>3. /\ out \in [Worker -> Seq(Item)] /\ out[w] \in Seq(Item)
      /\ results \in Seq(Item) /\ finished \subseteq Worker
  BY DEF IInv, TypeOK
<1>4. item \in Item /\ Tail(out[w]) \in Seq(Item) /\ item.worker = w
  BY <1>1, <1>3, TailIs DEF IInv, OutInv
<1>5. item.test # DoneMark => item.test \in ran
  BY <1>1, <1>3, TailIs DEF IInv, RanInv, OfRan
<1>6. ~ HasDone(results, w) /\ w \notin finished
  BY <1>1 DEF IInv, PipeInv, FinishedInv, Reported
<1>7. /\ DoneLast(out[w]) /\ \A i \in DOMAIN out[w] : out[w][i].worker = w
      /\ HasDone(out[w], w) => wpc[w] = "leaving"
  BY DEF IInv, OutInv
<1>8. item.test = DoneMark => Tail(out[w]) = <<>> /\ wpc[w] = "leaving"
  BY <1>1, <1>3, <1>4, <1>7, NothingBehind, TailHolds DEF IsDone
<1>9. /\ out' \in [Worker -> Seq(Item)] /\ out'[w] = Tail(out[w])
      /\ \A v \in Worker \ {w} : out'[v] = out[v]
  BY <1>1, <1>3, <1>4
<1>10. HasDone(out[w], w) <=> IsDone(item, w) \/ HasDone(out'[w], w)
  BY <1>1, <1>3, <1>9, TailHolds
<1>11. \A i \in DOMAIN out'[w] : i + 1 \in DOMAIN out[w] /\ out'[w][i] = out[w][i + 1]
  BY <1>1, <1>3, <1>9, TailIs
<1>12. DoneLast(out'[w])
  BY <1>1, <1>3, <1>7, <1>9, TailKeepsOrder
<1> HIDE DEF item
<1>13. results' \in Seq(Item) /\ DoneLast(results')
  BY <1>1, <1>3, <1>4, <1>6, AppendIs, AppendKeepsOrder DEF IInv, PipeInv
<1>14. /\ DOMAIN results' = DOMAIN results \cup {Len(results) + 1}
       /\ \A i \in DOMAIN results : results'[i] = results[i]
       /\ results'[Len(results) + 1] = item
  BY <1>1, <1>3, <1>4, AppendIs
<1>15. \A v \in Worker : HasDone(results', v) <=> HasDone(results, v) \/ IsDone(item, v)
  BY <1>14 DEF HasDone
<1>16. TypeOK'
  BY <1>2, <1>9, <1>13 DEF IInv, TypeOK
<1>17. HandInv'
  BY <1>2 DEF IInv, HandInv
<1>18. OutInv'
  BY <1>1, <1>2, <1>7, <1>9, <1>10, <1>11, <1>12 DEF IInv, OutInv, Alive
<1>19. PipeInv'
  BY <1>2, <1>4, <1>6, <1>8, <1>9, <1>13, <1>15 DEF IInv, PipeInv, Reported, IsDone
<1>20. FinishedInv'
  BY <1>2, <1>3, <1>4, <1>6, <1>9, <1>14 DEF IInv, FinishedInv, Reported
<1>21. SentInv'
  BY <1>2, <1>9, <1>10, <1>15 DEF IInv, SentInv
<1>22. RanInv'
  <2>1. records' \subseteq ran'
    BY <1>2 DEF IInv, RanInv
  <2>2. OfRan(results)'
    BY <1>2, <1>5, <1>14 DEF IInv, RanInv, OfRan
  <2>3. \A i \in DOMAIN out'[w] : out'[w][i].test # DoneMark => out'[w][i].test \in ran'
    BY <1>2, <1>11 DEF IInv, RanInv, OfRan
  <2>4. \A v \in Worker \ {w} : \A i \in DOMAIN out'[v] :
          out'[v][i].test # DoneMark => out'[v][i].test \in ran'
    BY <1>2, <1>9 DEF IInv, RanInv, OfRan
  <2> QED BY <2>1, <2>2, <2>3, <2>4 DEF RanInv, OfRan
<1>23. VerdictInv'
  BY <1>1, <1>2, <1>6 DEF IInv, VerdictInv, Alive
<1> QED BY <1>16, <1>17, <1>18, <1>19, <1>20, <1>21, <1>22, <1>23 DEF IInv

\* A worker that ends, by itself or not, sends nothing more.
LEMMA ExitKeeps == ASSUME IInv, NEW w \in Worker, WorkerExit(w) PROVE IInv'
<1>1. wpc[w] = "leaving" /\ out[w] = <<>> /\ wpc' = [wpc EXCEPT ![w] = "gone"]
  BY DEF WorkerExit
<1>2. UNCHANGED <<script, failFast, unsent, jobs, test, out, results, ran, records,
                  finished, ppc>>
  BY DEF WorkerExit, inputVars, parentVars
<1>3. /\ wpc \in [Worker -> {"pulling", "running", "leaving", "gone", "killed",
                             "killed_reading"}]
      /\ finished \subseteq Worker
  BY DEF IInv, TypeOK
<1>4. TypeOK'
  BY <1>1, <1>2, <1>3 DEF IInv, TypeOK
<1>5. HandInv'
  BY <1>1, <1>2, <1>3 DEF IInv, HandInv
<1>6. ~ HasDone(out[w], w)
  BY <1>1 DEF HasDone
<1>7. OutInv' /\ PipeInv' /\ FinishedInv' /\ SentInv'
  BY <1>1, <1>2, <1>3, <1>6 DEF IInv, OutInv, PipeInv, FinishedInv, SentInv, Reported, Alive
<1>8. RanInv' /\ VerdictInv'
  BY <1>1, <1>2, <1>3 DEF IInv, RanInv, OfRan, VerdictInv, Alive
<1> QED BY <1>4, <1>5, <1>7, <1>8 DEF IInv

LEMMA CrashKeeps == ASSUME IInv, NEW w \in Worker, WorkerCrash(w) PROVE IInv'
<1>1. PICK end \in {"killed", "killed_reading"} :
        /\ wpc' = [wpc EXCEPT ![w] = end]
        /\ end = "killed_reading" => wpc[w] = "pulling"
  BY DEF WorkerCrash
<1>2. Alive(w) /\ test' = [test EXCEPT ![w] = NoTest] /\ out' = [out EXCEPT ![w] = <<>>]
  BY DEF WorkerCrash
<1>3. UNCHANGED <<script, failFast, unsent, jobs, results, ran, records, finished, ppc>>
  BY DEF WorkerCrash, inputVars, parentVars
<1>4. /\ wpc \in [Worker -> {"pulling", "running", "leaving", "gone", "killed",
                             "killed_reading"}]
      /\ test \in [Worker -> Test \cup {NoTest}] /\ out \in [Worker -> Seq(Item)]
      /\ finished \subseteq Worker
  BY DEF IInv, TypeOK
<1>5. out' \in [Worker -> Seq(Item)] /\ out'[w] = <<>>
      /\ \A v \in Worker \ {w} : out'[v] = out[v]
  BY <1>2, <1>4
<1>6. TypeOK'
  BY <1>1, <1>2, <1>3, <1>4, <1>5 DEF IInv, TypeOK
<1>7. HandInv'
  BY <1>1, <1>2, <1>3, <1>4, SelfTestAssumption DEF IInv, HandInv
<1>8. DoneLast(out'[w]) /\ ~ HasDone(out'[w], w) /\ DOMAIN out'[w] = {}
  BY <1>5 DEF DoneLast, HasDone
<1>9. OutInv'
  BY <1>1, <1>4, <1>5, <1>8 DEF IInv, OutInv, Alive
<1>10. PipeInv' /\ FinishedInv'
  BY <1>1, <1>3, <1>4, <1>5 DEF IInv, PipeInv, FinishedInv, Reported
<1>11. SentInv'
  BY <1>1, <1>3, <1>4, <1>5 DEF IInv, SentInv
<1>12. RanInv'
  BY <1>3, <1>5, <1>8 DEF IInv, RanInv, OfRan
<1>13. VerdictInv'
  BY <1>1, <1>3, <1>4 DEF IInv, VerdictInv, Alive
<1> QED BY <1>6, <1>7, <1>9, <1>10, <1>11, <1>12, <1>13 DEF IInv

-----------------------------------------------------------------------------
(* The parent.                                                             *)

\* A message is read: what was behind it stays in order, and a last message
\* leaves nothing of its worker.
LEMMA ReadIs ==
  ASSUME IInv, results # <<>>, results' = Tail(results)
  PROVE  /\ Head(results) \in Item /\ results' \in Seq(Item)
         /\ DoneLast(results')
         /\ \A i \in DOMAIN results' :
              i + 1 \in DOMAIN results /\ results'[i] = results[i + 1]
         /\ \A w \in Worker :
              HasDone(results, w) <=> IsDone(Head(results), w) \/ HasDone(results', w)
         /\ Head(results).test = DoneMark =>
              \A i \in DOMAIN results' : results'[i].worker # Head(results).worker
         /\ Head(results).test # DoneMark => Head(results).test \in ran
<1>1. results \in Seq(Item) /\ DoneLast(results) /\ OfRan(results)
  BY DEF IInv, TypeOK, PipeInv, RanInv
<1>2. /\ Head(results) \in Item /\ results' \in Seq(Item)
      /\ 1 \in DOMAIN results /\ Head(results) = results[1]
      /\ \A i \in DOMAIN results' :
           i + 1 \in DOMAIN results /\ results'[i] = results[i + 1]
      /\ DOMAIN results' \subseteq Nat
  BY <1>1, TailIs
<1>3. DoneLast(results')
  BY <1>1, TailKeepsOrder
<1>4. \A w \in Worker :
        HasDone(results, w) <=> IsDone(Head(results), w) \/ HasDone(results', w)
  BY <1>1, TailHolds
<1>5. ASSUME Head(results).test = DoneMark, NEW i \in DOMAIN results',
             results'[i].worker = Head(results).worker
      PROVE  FALSE
  <2>1. i + 1 <= 1 /\ i \in Nat /\ i # 0
    <3>1. i + 1 <= 1
      BY <1>1, <1>2, <1>5 DEF DoneLast
    <3>2. DOMAIN results' = 1 .. Len(results')
      BY <1>2
    <3> QED BY <1>2, <1>5, <3>1, <3>2
  <2> QED BY <2>1
<1>6. Head(results).test # DoneMark => Head(results).test \in ran
  BY <1>1, <1>2 DEF OfRan
<1> QED BY <1>2, <1>3, <1>4, <1>5, <1>6

LEMMA RecordKeeps == IInv /\ ReceiveRecord => IInv'
<1> SUFFICES ASSUME IInv, ReceiveRecord PROVE IInv'
  OBVIOUS
<1>1. /\ ppc = "collecting" /\ results # <<>> /\ Head(results).test # DoneMark
      /\ results' = Tail(results) /\ records' = records \cup {Head(results).test}
      /\ ppc' \in {"collecting", "cut"}
  BY DEF ReceiveRecord, Collecting
<1>2. UNCHANGED <<script, failFast, unsent, jobs, wpc, test, out, ran, finished>>
  BY DEF ReceiveRecord, inputVars, workerVars
<1>3. /\ results' \in Seq(Item) /\ DoneLast(results')
      /\ Head(results).test \in ran
      /\ \A i \in DOMAIN results' :
           i + 1 \in DOMAIN results /\ results'[i] = results[i + 1]
      /\ \A w \in Worker :
           HasDone(results, w) <=> IsDone(Head(results), w) \/ HasDone(results', w)
  BY <1>1, ReadIs
<1>4. finished \subseteq Worker /\ ran \subseteq Test
  BY DEF IInv, TypeOK
<1>5. \A w \in Worker : HasDone(results', w) <=> HasDone(results, w)
  BY <1>1, <1>3 DEF IsDone
<1>6. TypeOK'
  BY <1>1, <1>2, <1>3, <1>4 DEF IInv, TypeOK
<1>7. HandInv' /\ OutInv'
  BY <1>2 DEF IInv, HandInv, OutInv, Alive
<1>8. PipeInv'
  BY <1>2, <1>3, <1>5 DEF IInv, PipeInv, Reported
<1>9. FinishedInv'
  BY <1>2, <1>3 DEF IInv, FinishedInv, Reported
<1>10. SentInv'
  BY <1>2, <1>5 DEF IInv, SentInv
<1>11. RanInv'
  BY <1>1, <1>2, <1>3 DEF IInv, RanInv, OfRan
<1>12. VerdictInv'
  BY <1>1 DEF VerdictInv
<1> QED BY <1>6, <1>7, <1>8, <1>9, <1>10, <1>11, <1>12 DEF IInv

LEMMA DoneKeeps == IInv /\ ReceiveDone => IInv'
<1> SUFFICES ASSUME IInv, ReceiveDone PROVE IInv'
  OBVIOUS
<1> DEFINE v == Head(results).worker
<1>1. /\ ppc = "collecting" /\ results # <<>> /\ Head(results).test = DoneMark
      /\ results' = Tail(results) /\ finished' = finished \cup {v}
  BY DEF ReceiveDone, Collecting
<1>2. UNCHANGED <<script, failFast, unsent, jobs, wpc, test, out, ran, records, ppc>>
  BY DEF ReceiveDone, inputVars, workerVars
<1>3. /\ Head(results) \in Item
      /\ results' \in Seq(Item) /\ DoneLast(results')
      /\ \A i \in DOMAIN results' :
           i + 1 \in DOMAIN results /\ results'[i] = results[i + 1]
      /\ \A w \in Worker :
           HasDone(results, w) <=> IsDone(Head(results), w) \/ HasDone(results', w)
      /\ \A i \in DOMAIN results' : results'[i].worker # v
  BY <1>1, ReadIs
<1>4. v \in Worker /\ IsDone(Head(results), v)
  BY <1>1, <1>3 DEF Item, IsDone
<1>5. \A w \in Worker \ {v} : HasDone(results', w) <=> HasDone(results, w)
  BY <1>3 DEF IsDone
<1>6. Reported(v)
  BY <1>3, <1>4 DEF IInv, PipeInv
<1> HIDE DEF v
<1>7. finished \subseteq Worker
  BY DEF IInv, TypeOK
<1>8. TypeOK'
  BY <1>1, <1>2, <1>3, <1>4 DEF IInv, TypeOK
<1>9. HandInv' /\ OutInv'
  BY <1>2 DEF IInv, HandInv, OutInv, Alive
<1>10. PipeInv'
  BY <1>2, <1>3 DEF IInv, PipeInv, Reported
<1>11. FinishedInv'
  BY <1>1, <1>2, <1>3, <1>6 DEF IInv, FinishedInv, Reported
<1>12. SentInv'
  BY <1>1, <1>2, <1>5 DEF IInv, SentInv
<1>13. RanInv'
  BY <1>2, <1>3 DEF IInv, RanInv, OfRan
<1>14. VerdictInv'
  BY <1>1, <1>2 DEF VerdictInv
<1> QED BY <1>8, <1>9, <1>10, <1>11, <1>12, <1>13, <1>14 DEF IInv

\* However the loop ends, only the parent moves.
LEMMA EndKeeps ==
  ASSUME IInv, ppc' \in {"stopping", "cut"}, VerdictInv',
         UNCHANGED <<inputVars, unsent, jobs, workerVars, results, ran, records, finished>>
  PROVE  IInv'
<1>1. UNCHANGED <<script, failFast, unsent, jobs, wpc, test, out, results, ran, records,
                  finished>>
  BY DEF inputVars, workerVars
<1>2. TypeOK'
  BY <1>1 DEF IInv, TypeOK
<1>3. HandInv' /\ OutInv' /\ PipeInv' /\ FinishedInv' /\ SentInv'
  BY <1>1 DEF IInv, HandInv, OutInv, PipeInv, FinishedInv, SentInv, Reported, Alive
<1>4. RanInv'
  BY <1>1 DEF IInv, RanInv, OfRan
<1> QED BY <1>2, <1>3, <1>4 DEF IInv

\* When every worker is finished nothing is left in the pipe.
LEMMA AllFinishedKeeps == IInv /\ AllFinished => IInv'
<1> SUFFICES ASSUME IInv, AllFinished PROVE IInv'
  OBVIOUS
<1>1. /\ finished = Worker /\ ppc' = "stopping"
      /\ UNCHANGED <<inputVars, unsent, jobs, workerVars, results, ran, records, finished>>
  BY DEF AllFinished
<1>2. results = <<>>
  <2>1. SUFFICES ASSUME results # <<>> PROVE FALSE
    OBVIOUS
  <2>2. results \in Seq(Item)
    BY DEF IInv, TypeOK
  <2>3. 1 \in DOMAIN results /\ results[1] \in Item
    BY <2>1, <2>2, TailIs
  <2> QED BY <1>1, <2>3 DEF IInv, FinishedInv, Item
<1>3. VerdictInv'
  BY <1>1, <1>2 DEF VerdictInv, workerVars
<1> QED BY <1>1, <1>3, EndKeeps

LEMMA AllGoneKeeps == IInv /\ AllGone => IInv'
<1> SUFFICES ASSUME IInv, AllGone PROVE IInv'
  OBVIOUS
<1>1. /\ ppc' = "stopping" /\ results = <<>> /\ \A w \in Worker : ~ Alive(w)
      /\ UNCHANGED <<inputVars, unsent, jobs, workerVars, results, ran, records, finished>>
  BY DEF AllGone
<1>2. VerdictInv'
  BY <1>1 DEF VerdictInv, workerVars, Alive
<1> QED BY <1>1, <1>2, EndKeeps

LEMMA DeadlineKeeps == IInv /\ Deadline => IInv'
<1> SUFFICES ASSUME IInv, Deadline PROVE IInv'
  OBVIOUS
<1>1. /\ ppc' = "cut"
      /\ UNCHANGED <<inputVars, unsent, jobs, workerVars, results, ran, records, finished>>
  BY DEF Deadline
<1>2. VerdictInv'
  BY <1>1 DEF VerdictInv
<1> QED BY <1>1, <1>2, EndKeeps

LEMMA SummariseKeeps == IInv /\ Summarise => IInv'
<1> SUFFICES ASSUME IInv, Summarise PROVE IInv'
  OBVIOUS
<1>1. /\ wpc' = [w \in Worker |-> IF Alive(w) THEN "killed" ELSE wpc[w]]
      /\ test' = [w \in Worker |-> NoTest] /\ out' = [w \in Worker |-> <<>>]
      /\ ppc' = IF Passes THEN "OK" ELSE "FAILED"
  BY DEF Summarise
<1>2. UNCHANGED <<script, failFast, unsent, jobs, results, ran, records, finished>>
  BY DEF Summarise, inputVars
<1>3. /\ wpc \in [Worker -> {"pulling", "running", "leaving", "gone", "killed",
                             "killed_reading"}]
      /\ finished \subseteq Worker
  BY DEF IInv, TypeOK
<1>4. /\ \A w \in Worker : wpc'[w] \in {"gone", "killed", "killed_reading"}
      /\ \A w \in Worker : wpc'[w] = "gone" => wpc[w] = "gone"
      /\ \A w \in Worker : wpc[w] \in {"leaving", "killed"} => wpc'[w] = "killed"
      /\ \A w \in Worker : wpc[w] = "gone" => wpc'[w] = "gone"
      /\ wpc' \in [Worker -> {"gone", "killed", "killed_reading"}]
  BY <1>1, <1>3 DEF Alive
<1>5. /\ \A w \in Worker : out'[w] = <<>> /\ DOMAIN out'[w] = {}
      /\ out' \in [Worker -> Seq(Item)]
  BY <1>1
<1>6. TypeOK'
  BY <1>1, <1>2, <1>4, <1>5 DEF IInv, TypeOK
<1>7. HandInv'
  BY <1>1, <1>4, SelfTestAssumption DEF HandInv
<1>8. OutInv'
  BY <1>5 DEF OutInv, DoneLast, HasDone
<1>9. PipeInv'
  BY <1>2, <1>4, <1>5 DEF IInv, PipeInv, Reported
<1>10. FinishedInv'
  BY <1>2, <1>3, <1>4, <1>5 DEF IInv, FinishedInv, Reported
<1>11. \A w \in Worker : wpc[w] = "gone" => out[w] = <<>> /\ ~ HasDone(out[w], w)
  BY DEF IInv, OutInv, Alive
<1>12. SentInv'
  BY <1>2, <1>4, <1>11 DEF IInv, SentInv
<1>13. RanInv'
  BY <1>2, <1>5 DEF IInv, RanInv, OfRan
<1>14. VerdictInv'
  <2>1. ppc' \in {"OK", "FAILED"} /\ (ppc' = "OK" => Passes)
    BY <1>1
  <2>2. Passes => Test \subseteq records /\ finished = Worker
    BY DEF Passes
  <2> QED BY <1>2, <2>1, <2>2 DEF VerdictInv
<1> QED BY <1>6, <1>7, <1>8, <1>9, <1>10, <1>12, <1>13, <1>14 DEF IInv

-----------------------------------------------------------------------------

LEMMA NextIInv == IInv /\ [Next]_vars => IInv'
<1> SUFFICES ASSUME IInv, [Next]_vars PROVE IInv'
  OBVIOUS
<1>1. CASE UNCHANGED vars
  <2>1. UNCHANGED <<script, failFast, unsent, jobs, wpc, test, out, results, ran, records,
                    finished, ppc>>
    BY <1>1 DEF vars, inputVars, workerVars, parentVars
  <2>2. TypeOK' /\ HandInv' /\ VerdictInv'
    BY <2>1 DEF IInv, TypeOK, HandInv, VerdictInv, Alive
  <2>3. OutInv' /\ PipeInv' /\ FinishedInv' /\ SentInv'
    BY <2>1 DEF IInv, OutInv, PipeInv, FinishedInv, SentInv, Reported, Alive
  <2>4. RanInv'
    BY <2>1 DEF IInv, RanInv, OfRan
  <2> QED BY <2>2, <2>3, <2>4 DEF IInv
<1>2. CASE \E w \in Worker : WorkerStep(w) \/ WorkerCrash(w)
  BY <1>2, PullKeeps, PullEmptyKeeps, RunKeeps, FlushKeeps, ExitKeeps, CrashKeeps
     DEF WorkerStep
<1>3. CASE ReceiveRecord \/ ReceiveDone
  BY <1>3, RecordKeeps, DoneKeeps
<1>4. CASE SendJob \/ AllFinished \/ AllGone \/ Deadline \/ Summarise
  BY <1>4, SendKeeps, AllFinishedKeeps, AllGoneKeeps, DeadlineKeeps, SummariseKeeps
<1> QED BY <1>1, <1>2, <1>3, <1>4 DEF Next

\* The variables keep their types and the facts above hold throughout
\* (parallel.run_parallel and its workers).
THEOREM Invariance == Spec => []IInv
<1> QED BY InitIInv, NextIInv, PTL DEF Spec

\* The queues hold messages, and every test in hand is a discovered one
\* (parallel.run_parallel, parallel.worker_main).
THEOREM Typing == Spec => []TypeOK
<1>1. IInv => TypeOK
  BY DEF IInv
<1> QED BY <1>1, Invariance, PTL

\* A run that says OK ran every test to its end and lost no worker before it
\* had reported (parallel._summarise).
THEOREM OkIsHonest == Spec => []OkMeansAllRan
<1>1. IInv => OkMeansAllRan
  BY DEF IInv, TypeOK, RanInv, VerdictInv, OkMeansAllRan
<1> QED BY <1>1, Invariance, PTL

\* A worker the parent counts as finished has delivered every record it had
\* (the order in which worker_main puts its messages).
THEOREM FinishedDelivered == Spec => []FinishedMeansDelivered
<1>1. IInv => FinishedMeansDelivered
  <2> SUFFICES ASSUME IInv, NEW w \in finished
               PROVE  /\ out[w] = <<>> /\ test[w] = NoTest
                      /\ \A i \in DOMAIN results : results[i].worker # w
    BY DEF FinishedMeansDelivered
  <2>1. w \in Worker /\ test[w] \in Test \cup {NoTest}
    BY DEF IInv, TypeOK
  <2> QED BY <2>1 DEF IInv, FinishedInv, HandInv, Reported
<1> QED BY <1>1, Invariance, PTL

\* A run that is not cut short has read all that was written, the reports of
\* workers that died included (the loop of run_parallel).
THEOREM AllIsRead == Spec => []NothingLeftUnread
<1>1. IInv => NothingLeftUnread
  <2> SUFFICES ASSUME IInv, ppc = "stopping"
               PROVE  /\ results = <<>>
                      /\ \A w \in Worker : out[w] = <<>>
                      /\ \A w \in Worker : wpc[w] = "gone" => w \in finished
    BY DEF NothingLeftUnread
  <2>1. results = <<>> /\ \A w \in Worker : ~ Alive(w) \/ w \in finished
    BY DEF IInv, VerdictInv
  <2>2. \A w \in Worker : out[w] = <<>>
    BY <2>1 DEF IInv, OutInv, FinishedInv, Reported
  <2>3. \A w \in Worker : ~ HasDone(results, w) /\ ~ HasDone(out[w], w)
    BY <2>1, <2>2 DEF HasDone
  <2> QED BY <2>1, <2>2, <2>3 DEF IInv, SentInv
<1> QED BY <1>1, Invariance, PTL
=============================================================================
