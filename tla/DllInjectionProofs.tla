------------------------- MODULE DllInjectionProofs -------------------------
(***************************************************************************)
(* Proofs about DllInjection, for any number of injections, polls, jobs    *)
(* with "done" in their path and deaths of PrintExp, and for each build.   *)
(***************************************************************************)
EXTENDS DllInjection, FiniteSetTheorems, SequenceTheorems, TLAPS

-----------------------------------------------------------------------------
(***************************************************************************)
(* The invariants.                                                         *)
(***************************************************************************)

\* A thread that has read the print vector and has not written it yet.
Holding(k) == At(k, "storing") \/ At(k, "growing")

\* What a thread works with is there: a job, and a place in memory as long as the
\* vector has not moved.
ThreadsHoldJobs ==
    \A k \in Injections :
        /\ thread[k].step \in {"adding", "copying", "storing", "growing", "loading"}
              => thread[k].path # 0
        /\ Holding(k) => thread[k].task # 0
        /\ At(k, "storing") => /\ thread[k].array <= array
                               /\ thread[k].array = array => Len(thread[k].seen) <= Len(prints)

TypeInv ==
    /\ TypeOK
    /\ step # "idle" => current # 0
    /\ ThreadsHoldJobs

\* The thread of an injection does not exist before its DLL is loaded.
ThreadsAreLoaded ==
    \A k \in Injections :
        k > current \/ (k = current /\ step \in {"writing", "clearing", "loading"})
            => thread[k] = NoThread

\* The file names the injection under way from its write to the next one's;
\* a thread that has not read it yet reads its own job or a later one.
ConfigIsLate ==
    /\ config <= current
    /\ step \in {"clearing", "loading"} => config = current
    /\ current # 0 /\ thread[current].step # "none" => config = current
    /\ \A k \in Injections : At(k, "sleeping") => config = 0 \/ config >= k

\* Threads of earlier injections that live were counted.
MeetingsCounted ==
    /\ \A j, m \in Injections : j < m /\ m <= current /\ j \in Alive => j \in beside[m]
    /\ \A m \in Injections : m > current => beside[m] = {}

OrderInv == ThreadsAreLoaded /\ ConfigIsLate /\ MeetingsCounted /\ NeverAnEarlierJob

\* A job that is in the hands of its own thread only.
InOwnHands(k) ==
    /\ thread[k].path \in {0, k}
    /\ \A m \in Injections \ {k} :
          /\ thread[m].path # k
          /\ Holding(m) => thread[m].task # k
          /\ At(m, "copying") => tasks # <<>> /\ NewTask # k

\* The job is in a sequence not at all, or at most once.
NotIn(k, s) == \A i \in 1 .. Len(s) : s[i] # k
OnceIn(k, s) == \A i, j \in 1 .. Len(s) : s[i] = k /\ s[j] = k => i = j

\* A job that is in memory once, if the thread has stored it, and so in what
\* threads have read of the vector, unless it is torn.
InMemoryOnce(k) ==
    \/ torn
    \/ /\ thread[k].step \notin {"moving", "saying", "ended"} => NotIn(k, prints)
       /\ OnceIn(k, prints)
       /\ \A m \in Injections : Holding(m) =>
             /\ thread[k].step \notin {"moving", "saying", "ended"} => NotIn(k, thread[m].seen)
             /\ OnceIn(k, thread[m].seen)

OwnJobOnce == \A k \in Injections : ~Met(k) => InOwnHands(k) /\ InMemoryOnce(k)

\* Job k is in the print vector, where nobody will overwrite it, cut it off or leave
\* it behind in an old array, or was when PrintExp died, unless the vector is torn.
Stored(k) ==
    \/ torn
    \/ k \in gone
    \/ \E p \in 1 .. end :
          /\ prints[p] = k
          /\ \A m \in Injections :
                Holding(m) => p <= Len(thread[m].seen) /\ thread[m].seen[p] = k

\* What a thread takes for its job is that, and the vector is as it has read it.
HoldsOwn(k) ==
    /\ At(k, "copying") => tasks # <<>> /\ NewTask = k
    /\ Holding(k) => \/ torn
                     \/ /\ thread[k].task = k /\ thread[k].array = array
                        /\ thread[k].seen = SubSeq(prints, 1, end)

\* Whoever says that the job is done, the thread, the log or the agent, says so
\* when it is stored.
SaysStored(k) ==
    /\ At(k, "moving") => Stored(k)
    /\ At(k, "saying") /\ thread[k].says # "err" => Stored(k)
    /\ current = k /\ step \in {"loading", "polling"} /\ log \in {"done", "errdone"} => Stored(k)
    /\ Succeeds(k) => Stored(k)

DoneMeansStored ==
    \A k \in Injections : ~Met(k) /\ k \notin Misleading => HoldsOwn(k) /\ SaysStored(k)

\* Each injection is answered when the next one is asked for.
AnswersInTurn ==
    \A k \in Injections :
        verdict[k] = "none" <=> k > current \/ (k = current /\ step # "idle")

\* Nothing of the job is left in memory behind the end of the print vector, or in
\* what a thread has read.
InMemoryIsStored(k) ==
    ~NotIn(k, prints) \/ (\E m \in Injections : Holding(m) /\ ~NotIn(k, thread[m].seen))
        => Stored(k)

\* The log of this injection is the last word of its thread, so that whoever
\* believes it has no thread left behind.
AnswerIsOver(k) ==
    /\ current = k /\ step \in {"loading", "polling"} /\ log # "none" => At(k, "ended")
    /\ Succeeds(k) => At(k, "ended")

AloneIsOver == \A k \in Injections :
                  ~Met(k) => HoldsOwn(k) /\ InMemoryIsStored(k) /\ AnswerIsOver(k)

\* It takes two to tear the vector.
TornInCompany == torn => \E k \in Injections : Met(k)

ContractInv == /\ TypeInv /\ OrderInv /\ OwnJobOnce /\ DoneMeansStored /\ AnswersInTurn
               /\ AloneIsOver /\ TornInCompany
-----------------------------------------------------------------------------
(***************************************************************************)
(* Type correctness.                                                       *)
(***************************************************************************)

\* What storing does to the memory of the print vector.
LEMMA PutStores ==
  ASSUME NEW slot \in 0 .. Len(prints), NEW task \in Injections,
         prints \in Seq(Injections), Put(slot, task)
  PROVE  /\ prints' \in Seq(Injections)
         /\ Len(prints') \in Nat /\ Len(prints') >= Len(prints)
         /\ end' = slot + 1 /\ end' \in 1 .. Len(prints')
         /\ prints'[slot + 1] = task
         /\ \A i \in 1 .. Len(prints) : i # slot + 1 => prints'[i] = prints[i]
         /\ \A i \in 1 .. Len(prints') : i # slot + 1 => i \in 1 .. Len(prints)
<1>1. Len(prints) \in Nat
  OBVIOUS
<1>2. CASE slot < Len(prints)
  <2>1. prints' = [prints EXCEPT ![slot + 1] = task] /\ slot + 1 \in 1 .. Len(prints)
    BY <1>1, <1>2 DEF Put
  <2>2. /\ prints' \in Seq(Injections) /\ Len(prints') = Len(prints)
        /\ \A i \in 1 .. Len(prints) :
              prints'[i] = IF i = slot + 1 THEN task ELSE prints[i]
    BY <2>1, ExceptSeq
  <2>3. QED
    BY <1>1, <2>1, <2>2 DEF Put
<1>3. CASE ~(slot < Len(prints))
  <2>1. prints' = Append(prints, task) /\ slot = Len(prints)
    BY <1>1, <1>3 DEF Put
  <2>2. QED
    BY <1>1, <2>1, AppendProperties DEF Put
<1>4. QED
  BY <1>2, <1>3

\* What a thread reads of the print vector.
LEMMA PrefixIs ==
  ASSUME TypeOK
  PROVE  /\ SubSeq(prints, 1, end) \in Seq(Injections) /\ Len(SubSeq(prints, 1, end)) = end
         /\ end \in Nat /\ Len(prints) \in Nat /\ end <= Len(prints)
         /\ \A i \in 1 .. end : SubSeq(prints, 1, end)[i] = prints[i]
<1>1. /\ prints \in Seq(Injections) /\ Len(prints) \in Nat
      /\ end \in Nat /\ end <= Len(prints)
  BY DEF TypeOK
<1>2. \A i \in 1 .. end : prints[i] \in Injections
  BY <1>1, ElementOfSeq
<1>3. QED
  BY <1>1, <1>2, SubSeqProperties

\* The task that a thread takes for its own is one.
LEMMA NewTaskIsTask ==
  ASSUME tasks \in Seq(Injections), tasks # <<>>
  PROVE  NewTask \in Injections
<1>1. Len(tasks) \in Nat \ {0}
  BY EmptySeq
<1>2. QED
  BY <1>1, ElementOfSeq DEF NewTask

\* A thread that adds a file leaves a task, and takes that one for its own.
LEMMA AddedIsNew ==
  ASSUME NEW path \in Injections, tasks \in Seq(Injections), tasks' = WithFile(path),
         UNCHANGED build
  PROVE  tasks' \in Seq(Injections) /\ tasks' # <<>> /\ NewTask' = path
<1>1. CASE build = "uv"
  <2>1. <<path>> \in Seq(Injections) /\ Len(<<path>>) = 1 /\ <<path>>[1] = path
    OBVIOUS
  <2>2. /\ tasks' \in Seq(Injections) /\ Len(tasks') = 1 + Len(tasks)
        /\ tasks'[1] = path
    BY <1>1, <2>1, ConcatProperties DEF WithFile
  <2>3. QED
    BY <1>1, <2>2, EmptySeq DEF NewTask
<1>2. CASE build # "uv"
  BY <1>2, AppendProperties DEF WithFile, NewTask
<1>3. QED
  BY <1>1, <1>2

\* A thread without a task.
LEMMA ThreadIsTyped ==
  ASSUME NEW s \in ThreadSteps, NEW path \in Nat, path <= MaxInj, NEW says \in Texts
  PROVE  Thread(s, path, says) \in Threads
<1>1. <<>> \in Seq(Injections)
  BY EmptySeq
<1>2. QED
  BY <1>1, BoundAssumption DEF Thread, Threads

\* A thread that has something to say: its path stays, and no other changes.
LEMMA SaysText ==
  ASSUME TypeOK, NEW k \in Injections, NEW text \in Texts, ThreadSays(k, text)
  PROVE  /\ thread' \in [Injections -> Threads]
         /\ thread'[k].step = "saying" /\ thread'[k].says = text
         /\ thread'[k].path = thread[k].path
         /\ \A m \in Injections : m # k => thread'[m] = thread[m]
<1>1. thread[k].path \in 0 .. MaxInj
  BY DEF TypeOK, Threads
<1>2. Thread("saying", thread[k].path, text) \in Threads
  BY <1>1, BoundAssumption, ThreadIsTyped DEF ThreadSteps
<1>3. QED
  BY <1>2 DEF TypeOK, ThreadSays, Thread

LEMMA QuoteSays ==
  ASSUME NEW k \in Injections, QuotesPath(k)
  PROVE  \E text \in Texts :
            ThreadSays(k, text) /\ text = IF thread[k].path \in Misleading THEN "errdone" ELSE "err"
  BY DEF QuotesPath, Texts

\* A thread that goes on to another step.
LEMMA StepIsTyped ==
  ASSUME NEW th \in Threads, NEW s \in ThreadSteps
  PROVE  [th EXCEPT !.step = s] \in Threads
  BY DEF Threads

LEMMA PathIsTyped ==
  ASSUME NEW th \in Threads, NEW s \in ThreadSteps, NEW path \in 0 .. MaxInj
  PROVE  [th EXCEPT !.step = s, !.path = path] \in Threads
  BY DEF Threads

LEMMA EndedIsTyped ==
  ASSUME NEW th \in Threads
  PROVE  Ended(th) \in Threads
<1>1. th.path \in Nat /\ th.path <= MaxInj
  BY BoundAssumption DEF Threads
<1>2. "ended" \in ThreadSteps /\ "err" \in Texts
  BY DEF ThreadSteps, Texts
<1>3. QED
  BY <1>1, <1>2, ThreadIsTyped DEF Ended

LEMMA TypeInit == Init => TypeInv
<1> SUFFICES ASSUME Init PROVE TypeInv
  OBVIOUS
<1>1. NoThread \in Threads
  BY BoundAssumption, ThreadIsTyped DEF NoThread, ThreadSteps, Texts
<1>2. <<>> \in Seq(Injections) /\ Len(<<>>) = 0
  BY EmptySeq
<1>a. room \in Nat /\ array \in Nat /\ torn \in BOOLEAN
  BY RoomAssumption DEF Init
<1>3. TypeOK
  BY <1>1, <1>2, <1>a, BoundAssumption DEF Init, TypeOK, Texts
<1>4. QED
  BY <1>3 DEF Init, TypeInv, ThreadsHoldJobs, Holding, At, NoThread, Thread

LEMMA TypeStep == TypeInv /\ [Next]_vars => TypeInv'
<1> SUFFICES ASSUME TypeInv, [Next]_vars PROVE TypeInv'
  OBVIOUS
<1>a. TypeOK /\ (step # "idle" => current # 0) /\ ThreadsHoldJobs
  BY DEF TypeInv
<1> USE BoundAssumption, <1>a DEF TypeInv, agent, files, printexp, vector
<1>1. CASE Begin
  <2>1. current + 1 \in Injections /\ current + 1 \in 0 .. MaxInj
    BY <1>1 DEF Begin, Injections, TypeOK
  <2>2. Alive \subseteq Injections
    BY DEF Alive
  <2>3. /\ verdict' \in [Injections -> {"none", "yes", "no"}]
        /\ beside' \in [Injections -> SUBSET Injections]
        /\ up' \in BOOLEAN
    BY <1>1, <2>2 DEF Begin, EnsureRunning, TypeOK
  <2>4. /\ current' = current + 1 /\ polls' = 0 /\ step' \in {"idle", "writing"}
        /\ UNCHANGED <<files, thread, printexp, deaths>>
    BY <1>1 DEF Begin
  <2>5. TypeOK'
    BY <2>1, <2>3, <2>4 DEF TypeOK
  <2>6. QED
    BY <1>1, <2>1, <2>4, <2>5 DEF Begin, ThreadsHoldJobs, Holding, At, TypeOK
<1>2. CASE WriteConfig \/ ClearLog \/ Timeout \/ Save \/ Poll
  <2>1. UNCHANGED <<thread, printexp, current, beside, up, deaths>>
    BY <1>2 DEF WriteConfig, ClearLog, Timeout, Save, Poll, Goes, Returns
  <2>2. step # "idle"
    BY <1>2 DEF WriteConfig, ClearLog, Timeout, Save, Poll
  <2>3. /\ step' \in {"idle", "writing", "clearing", "loading", "polling", "saving"}
        /\ verdict' \in [Injections -> {"none", "yes", "no"}]
        /\ config' \in 0 .. MaxInj
        /\ log' \in Texts \cup {"none"}
    BY <1>2 DEF WriteConfig, ClearLog, Timeout, Save, Poll, Goes, Returns, TypeOK, Cleared
  <2>4. polls' \in 0 .. MaxPolls
    BY <1>2 DEF WriteConfig, ClearLog, Timeout, Save, Poll, Goes, Returns, TypeOK, Polled
  <2>5. QED
    BY <2>1, <2>2, <2>3, <2>4 DEF TypeOK, ThreadsHoldJobs, Holding, At
<1>3. CASE LoadDll
  <2>0. current \in Injections
    BY <1>3 DEF LoadDll, TypeOK, Injections
  <2>1. thread' \in [Injections -> Threads]
    <3>1. thread \in [Injections -> Threads] /\ "sleeping" \in ThreadSteps
      BY DEF TypeOK, ThreadSteps
    <3>2. [thread[current] EXCEPT !.step = "sleeping"] \in Threads
      BY <2>0, <3>1, StepIsTyped
    <3>3. QED
      BY <1>3, <3>1, <3>2 DEF LoadDll
  <2>2. /\ step' \in {"idle", "writing", "clearing", "loading", "polling", "saving"}
        /\ verdict' \in [Injections -> {"none", "yes", "no"}]
        /\ UNCHANGED <<current, polls, files, printexp, beside, up, deaths>>
        /\ step # "idle"
    BY <1>3 DEF LoadDll, TypeOK, Goes, Returns
  <2>3. ThreadsHoldJobs'
    <3>1. UNCHANGED <<prints, array>>
      BY <1>3 DEF LoadDll, printexp, vector
    <3>2. thread \in [Injections -> Threads]
      BY DEF TypeOK
    <3>3. ASSUME NEW k \in Injections
          PROVE  thread'[k] = thread[k] \/ thread'[k].step = "sleeping"
      BY <1>3, <2>0, <3>2, <3>3 DEF LoadDll, Threads
    <3>4. QED
      BY <3>1, <3>3 DEF ThreadsHoldJobs, Holding, At
  <2>4. QED
    BY <2>1, <2>2, <2>3 DEF TypeOK
<1>4. ASSUME NEW k \in Injections, NEW text \in Texts, ThreadSays(k, text),
             UNCHANGED <<agent, files, tasks, build, array, gone, beside, up, deaths>>,
             room' \in Nat, torn' \in BOOLEAN,
             prints' \in Seq(Injections), end' \in 0 .. Len(prints'),
             Len(prints') \in Nat, Len(prints') >= Len(prints)
      PROVE  TypeInv'
  <2>1. /\ thread' \in [Injections -> Threads]
        /\ thread'[k].step = "saying"
        /\ \A m \in Injections : m # k => thread'[m] = thread[m]
    BY <1>4, SaysText
  <2>a. \A m \in Injections : thread[m].seen \in Seq(Injections)
    BY DEF TypeOK, Threads
  <2>2. Len(prints) \in Nat /\ \A m \in Injections : Len(thread[m].seen) \in Nat
    BY <2>a DEF TypeOK
  <2>3. ThreadsHoldJobs'
    BY <1>4, <2>1, <2>2 DEF ThreadsHoldJobs, Holding, At
  <2>4. QED
    BY <1>4, <2>1, <2>3 DEF TypeOK
<1>5. /\ UNCHANGED <<prints, end>>
         => /\ prints' \in Seq(Injections) /\ end' \in 0 .. Len(prints')
            /\ Len(prints') \in Nat /\ Len(prints') >= Len(prints)
      /\ UNCHANGED room => room' \in Nat
      /\ UNCHANGED torn => torn' \in BOOLEAN
  <2>a. torn \in BOOLEAN
    BY DEF TypeOK
  <2>1. UNCHANGED torn => torn' \in BOOLEAN
    BY <2>a, Zenon
  <2>2. QED
    BY <2>1 DEF TypeOK
<1>6. ASSUME NEW k \in Injections, QuotesPath(k),
             UNCHANGED <<agent, files, tasks, build, vector, gone, beside, up, deaths>>
      PROVE  TypeInv'
  BY <1>4, <1>5, <1>6, QuoteSays
<1>7. ASSUME NEW k \in Injections, ReadConfig(k) PROVE TypeInv'
  <2>1. CASE config = 0
    BY <1>4, <1>5, <1>7, <2>1 DEF ReadConfig, Texts
  <2>2. CASE config # 0
    <3> DEFINE s == IF build = "dtf82" THEN "loading" ELSE "adding"
               new == [thread[k] EXCEPT !.step = s, !.path = config]
    <3>1. thread' = [thread EXCEPT ![k].step = s, ![k].path = config]
      BY <1>7, <2>2 DEF ReadConfig
    <3>2. thread \in [Injections -> Threads] /\ config \in 0 .. MaxInj
      BY DEF TypeOK
    <3>3. thread' = [thread EXCEPT ![k] = new] /\ thread[k] \in Threads
      BY <3>1, <3>2
    <3>4. s \in ThreadSteps /\ s # "storing" /\ s # "growing"
      BY DEF ThreadSteps
    <3>5. new \in Threads /\ new.step = s /\ new.path = config
      <4> HIDE DEF s
      <4>1. QED
        BY <3>2, <3>3, <3>4 DEF Threads
    <3> HIDE DEF new
    <3>6. thread' \in [Injections -> Threads]
      BY <3>2, <3>3, <3>5
    <3>7. ThreadsHoldJobs'
      <4>1. UNCHANGED <<prints, array>>
        BY <1>7, <2>2 DEF ReadConfig, printexp, vector
      <4>2. \A m \in Injections : thread'[m] = IF m = k THEN new ELSE thread[m]
        BY <3>2, <3>3
      <4>3. ~(new.step = "storing" \/ new.step = "growing")
        BY <3>4, <3>5
      <4>4. QED
        BY <2>2, <3>5, <4>1, <4>2, <4>3 DEF ThreadsHoldJobs, Holding, At
    <3>8. QED
      BY <1>7, <3>6, <3>7 DEF ReadConfig, TypeOK
  <2>3. QED
    BY <2>1, <2>2
<1>8. ASSUME NEW k \in Injections, AddFile(k) PROVE TypeInv'
  <2>1. CASE tasks' = WithFile(thread[k].path) /\ ThreadGoes(k, "copying")
    <3>1. thread[k].path \in Injections
      <4>1. thread[k].path \in 0 .. MaxInj /\ thread[k].path # 0
        BY <1>8 DEF AddFile, At, ThreadsHoldJobs, TypeOK, Threads
      <4>2. QED
        BY <4>1 DEF Injections
    <3>2. tasks' \in Seq(Injections)
      BY <1>8, <2>1, <3>1, AddedIsNew DEF AddFile, TypeOK
    <3>3. thread' = [thread EXCEPT ![k].step = "copying"] /\ thread \in [Injections -> Threads]
      BY <2>1 DEF ThreadGoes, TypeOK
    <3>4. [thread[k] EXCEPT !.step = "copying"] \in Threads
      BY <3>3 DEF Threads, ThreadSteps
    <3>5. thread' \in [Injections -> Threads]
      BY <3>3, <3>4
    <3>6. \A m \in Injections :
            thread'[m] = IF m = k THEN [thread[k] EXCEPT !.step = "copying"] ELSE thread[m]
      BY <3>3
    <3>7. [thread[k] EXCEPT !.step = "copying"].step = "copying"
          /\ [thread[k] EXCEPT !.step = "copying"].path = thread[k].path
      BY <3>3 DEF Threads
    <3>8. UNCHANGED <<prints, array>> /\ thread[k].path # 0
      BY <1>8 DEF AddFile, ThreadsHoldJobs, Holding, At
    <3>9. ThreadsHoldJobs'
      BY <3>6, <3>7, <3>8 DEF ThreadsHoldJobs, Holding, At
    <3>10. QED
      BY <1>8, <3>2, <3>5, <3>9 DEF AddFile, TypeOK
  <2>2. CASE QuotesPath(k) /\ UNCHANGED tasks
    BY <1>6, <1>8, <2>2 DEF AddFile
  <2>3. QED
    BY <1>8, <2>1, <2>2 DEF AddFile
<1>9. ASSUME NEW k \in Injections, CopyTask(k) PROVE TypeInv'
  <2>a. torn' \in BOOLEAN
    BY <1>9 DEF CopyTask, TypeOK
  <2>1. CASE ThreadSays(k, "err")
    BY <1>4, <1>5, <1>9, <2>1, <2>a DEF CopyTask, Texts
  <2>2. CASE ~ThreadSays(k, "err")
    <3>1. NewTask \in 0 .. MaxInj /\ NewTask # 0
      BY <1>9, <2>2, NewTaskIsTask DEF Injections, CopyTask, TypeOK
    <3> DEFINE seen == SubSeq(prints, 1, end)
    <3>2. seen \in Seq(Injections) /\ Len(seen) = end /\ end <= Len(prints) /\ array \in Nat
      BY PrefixIs DEF TypeOK
    <3>3. PICK s \in {"storing", "growing"} :
             thread' = [thread EXCEPT ![k].step = s, ![k].task = NewTask,
                                      ![k].seen = seen, ![k].array = array]
      BY <1>9, <2>2 DEF CopyTask
    <3> HIDE DEF seen
    <3> DEFINE new == [thread[k] EXCEPT !.step = s, !.task = NewTask, !.seen = seen, !.array = array]
    <3>a. thread' = [thread EXCEPT ![k] = new] /\ thread[k] \in Threads
      BY <3>3 DEF TypeOK
    <3>b. s \in ThreadSteps
      BY DEF ThreadSteps
    <3>c. new \in Threads
      BY <3>1, <3>2, <3>a, <3>b DEF Threads
    <3>d. /\ new.step = s /\ new.task = NewTask /\ new.seen = seen /\ new.array = array
          /\ new.path = thread[k].path
      BY <3>a DEF Threads
    <3> HIDE DEF new
    <3>4. thread' \in [Injections -> Threads]
      BY <3>a, <3>c DEF TypeOK
    <3>5. /\ thread'[k].task # 0 /\ thread'[k].path = thread[k].path
          /\ thread'[k].array = array /\ Len(thread'[k].seen) <= Len(prints)
          /\ thread[k].step = "copying" /\ UNCHANGED <<prints, array>>
          /\ \A m \in Injections : m # k => thread'[m] = thread[m]
      BY <1>9, <3>1, <3>2, <3>a, <3>d DEF CopyTask, At, TypeOK
    <3>6. ThreadsHoldJobs'
      BY <3>2, <3>5 DEF ThreadsHoldJobs, Holding, At
    <3>7. QED
      BY <1>9, <2>a, <3>4, <3>6 DEF CopyTask, TypeOK
  <2>3. QED
    BY <2>1, <2>2
<1>10. ASSUME NEW k \in Injections, LoadClone(k) PROVE TypeInv'
  <2>1. CASE Put(end, thread[k].path) /\ ThreadSays(k, "done")
    <3>1. thread[k].path \in Injections /\ end \in 0 .. Len(prints)
      <4>1. thread[k].path \in 0 .. MaxInj /\ thread[k].path # 0
        BY <1>10 DEF LoadClone, At, ThreadsHoldJobs, TypeOK, Threads
      <4>2. QED
        BY <4>1 DEF Injections, TypeOK
    <3>2. /\ prints' \in Seq(Injections) /\ end' \in 0 .. Len(prints')
          /\ Len(prints') \in Nat /\ Len(prints') >= Len(prints)
      BY <2>1, <3>1, PutStores DEF TypeOK
    <3>3. QED
      BY <1>4, <1>5, <1>10, <2>1, <3>2 DEF LoadClone, Texts
  <2>2. CASE ThreadSays(k, "err") /\ UNCHANGED <<prints, end>>
    BY <1>4, <1>5, <1>10, <2>2 DEF LoadClone, Texts
  <2>3. CASE QuotesPath(k) /\ UNCHANGED <<prints, end>>
    BY <1>6, <1>10, <2>3 DEF LoadClone
  <2>4. QED
    BY <1>10, <2>1, <2>2, <2>3 DEF LoadClone
<1>11. ASSUME NEW k \in Injections, StoreTask(k) PROVE TypeInv'
  <2>a. torn' \in BOOLEAN
    BY <1>11 DEF StoreTask, TypeOK
  <2>1. CASE torn'
    BY <1>4, <1>5, <1>11, <2>1, <2>a DEF StoreTask, Texts
  <2>2. CASE ~torn'
    <3>1. thread[k].array = array /\ Put(Len(thread[k].seen), thread[k].task)
      BY <1>11, <2>2 DEF StoreTask
    <3>2. thread[k].task \in Injections /\ Len(thread[k].seen) \in 0 .. Len(prints)
      <4>1. /\ thread[k].task \in 0 .. MaxInj /\ thread[k].task # 0
            /\ Len(thread[k].seen) \in Nat /\ Len(thread[k].seen) <= Len(prints)
            /\ Len(prints) \in Nat
        BY <1>11, <3>1 DEF StoreTask, Holding, At, ThreadsHoldJobs, TypeOK, Threads
      <4>2. QED
        BY <4>1 DEF Injections
    <3>3. /\ prints' \in Seq(Injections) /\ end' \in 0 .. Len(prints')
          /\ Len(prints') \in Nat /\ Len(prints') >= Len(prints)
      BY <3>1, <3>2, PutStores DEF TypeOK
    <3>4. QED
      BY <1>4, <1>5, <1>11, <2>a, <3>3 DEF StoreTask, Texts
  <2>3. QED
    BY <2>1, <2>2
<1>16. ASSUME NEW k \in Injections, MoveVector(k) PROVE TypeInv'
  <2>1. /\ thread' = [thread EXCEPT ![k].step = "moving"] /\ array' = array + 1
        /\ array \in Nat /\ thread \in [Injections -> Threads]
        /\ UNCHANGED <<agent, files, build, tasks, room, gone, beside, up, deaths>>
    BY <1>16 DEF MoveVector, ThreadGoes, TypeOK
  <2>2. torn' \in BOOLEAN
    BY <1>16 DEF MoveVector, TypeOK
  <2>3. prints' \in Seq(Injections) /\ end' \in 0 .. Len(prints')
    <3>1. CASE torn'
      BY <1>16, <3>1 DEF MoveVector, TypeOK
    <3>2. CASE ~torn'
      <4>1. prints' = Append(thread[k].seen, thread[k].task) /\ end' = Len(prints')
        BY <1>16, <3>2 DEF MoveVector
      <4>2. thread[k].task \in 0 .. MaxInj /\ thread[k].seen \in Seq(Injections)
        BY <2>1 DEF Threads
      <4>3. thread[k].task \in Injections
        BY <1>16, <4>2 DEF MoveVector, ThreadsHoldJobs, Holding, At, Injections
      <4>4. prints' \in Seq(Injections) /\ Len(prints') \in Nat
        BY <4>1, <4>2, <4>3, AppendProperties
      <4>5. QED
        BY <4>1, <4>4
    <3>3. QED
      BY <3>1, <3>2
  <2>4. thread' \in [Injections -> Threads]
    <3>1. [thread[k] EXCEPT !.step = "moving"] \in Threads
      BY <2>1, StepIsTyped DEF ThreadSteps
    <3>2. QED
      BY <2>1, <3>1
  <2>5. \A m \in Injections : /\ m # k => thread'[m] = thread[m]
                             /\ thread'[k].step = "moving"
    BY <2>1 DEF Threads
  <2>6. \A m \in Injections : thread[m].array \in Nat
    BY <2>1 DEF Threads
  <2>7. ThreadsHoldJobs'
    BY <2>1, <2>5, <2>6 DEF ThreadsHoldJobs, Holding, At
  <2>8. QED
    BY <2>1, <2>2, <2>3, <2>4, <2>7 DEF TypeOK
<1>17. ASSUME NEW k \in Injections, VectorMoved(k) PROVE TypeInv'
  <2>1. Len(thread[k].seen) \in Nat
    BY DEF TypeOK, Threads
  <2>2. room' \in Nat
    BY <1>17, <2>1 DEF VectorMoved
  <2>3. QED
    BY <1>4, <1>5, <1>17, <2>2 DEF VectorMoved, Texts
<1>12. ASSUME NEW k \in Injections, WriteLog(k) PROVE TypeInv'
  <2>1. thread' \in [Injections -> Threads]
    BY <1>12, EndedIsTyped DEF WriteLog, TypeOK
  <2>2. log' \in Texts
    BY <1>12 DEF WriteLog, TypeOK, Threads
  <2>3. ThreadsHoldJobs'
    BY <1>12 DEF WriteLog, ThreadsHoldJobs, Holding, At, TypeOK, Ended, Thread
  <2>4. QED
    BY <1>12, <2>1, <2>2, <2>3 DEF WriteLog, TypeOK
<1>13. CASE PrintExpDies
  <2>1. Queued \subseteq Injections
    BY ElementOfSeq DEF Queued, TypeOK
  <2>2. thread' \in [Injections -> Threads]
    BY <1>13, EndedIsTyped DEF PrintExpDies, TypeOK
  <2>3. ThreadsHoldJobs'
    BY <1>13 DEF PrintExpDies, ThreadsHoldJobs, Holding, At, TypeOK, Ended, Thread, Alive
  <2>4. <<>> \in Seq(Injections) /\ Len(<<>>) = 0
    BY EmptySeq
  <2>5. /\ tasks' = <<>> /\ prints' = <<>> /\ end' = 0
        /\ room' \in Rooms /\ array' = 0 /\ UNCHANGED torn
        /\ gone' = gone \cup Queued /\ up' = FALSE
        /\ deaths' = deaths + 1 /\ deaths < MaxDeaths
        /\ UNCHANGED <<agent, files, build, beside>>
    BY <1>13 DEF PrintExpDies
  <2>6. end' \in 0 .. Len(prints') /\ gone' \subseteq Injections /\ deaths' \in 0 .. MaxDeaths
    BY <2>1, <2>4, <2>5 DEF TypeOK
  <2>7. QED
    BY <2>2, <2>3, <2>4, <2>5, <2>6, RoomAssumption DEF TypeOK
<1>14. CASE UNCHANGED vars
  BY <1>14 DEF vars, TypeOK, ThreadsHoldJobs, Holding, At
<1>18. QED
  BY <1>1, <1>2, <1>3, <1>7, <1>8, <1>9, <1>10, <1>11, <1>12, <1>13, <1>14,
     <1>16, <1>17 DEF Next, Agent, Dll

\* Whatever agent, threads and PrintExp do: the end of the print vector stays
\* within its memory, and what a thread works with is there.
THEOREM TypeCorrect == Spec => []TypeOK
<1>1. Spec => []TypeInv
  BY TypeInit, TypeStep, PTL DEF Spec
<1>2. TypeInv => TypeOK
  BY DEF TypeInv
<1>3. QED
  BY <1>1, <1>2, PTL
-----------------------------------------------------------------------------
(***************************************************************************)
(* What the steps do to the threads.                                       *)
(***************************************************************************)

\* A step of a DLL concerns its own thread, which lives.  The thread takes a
\* path when it reads the file, and keeps it.
LEMMA DllActs ==
  ASSUME TypeInv, NEW k \in Injections, Dll(k)
  PROVE  /\ UNCHANGED <<agent, config, build, beside, gone>> /\ (torn => torn')
         /\ k \in Alive /\ thread'[k].step \notin {"none", "sleeping"}
         /\ \A m \in Injections : m # k => thread'[m] = thread[m]
         /\ \/ thread'[k].path = thread[k].path
            \/ At(k, "sleeping") /\ config # 0 /\ thread'[k].path = config
<1> USE DEF TypeInv, files, printexp, vector
<1>a. thread \in [Injections -> Threads]
  BY DEF TypeOK
<1>1. ASSUME NEW text \in Texts, ThreadSays(k, text)
      PROVE  /\ thread'[k].step = "saying" /\ thread'[k].path = thread[k].path
             /\ \A m \in Injections : m # k => thread'[m] = thread[m]
  BY <1>1, SaysText
<1>2. ASSUME QuotesPath(k)
      PROVE  /\ thread'[k].step = "saying" /\ thread'[k].path = thread[k].path
             /\ \A m \in Injections : m # k => thread'[m] = thread[m]
  BY <1>1, <1>2, QuoteSays
<1>3. {"err", "done"} \subseteq Texts
  BY DEF Texts
<1>4. CASE ReadConfig(k)
  <2>1. CASE config = 0
    BY <1>1, <1>3, <1>4, <2>1 DEF ReadConfig, Alive, At
  <2>2. CASE config # 0
    BY <1>4, <2>2, <1>a DEF ReadConfig, Alive, At, Threads
  <2>3. QED
    BY <2>1, <2>2
<1>5. CASE AddFile(k)
  <2>1. CASE ThreadGoes(k, "copying")
    BY <1>5, <2>1, <1>a DEF AddFile, ThreadGoes, Alive, At, Threads
  <2>2. CASE QuotesPath(k)
    BY <1>2, <1>5, <2>2 DEF AddFile, Alive, At
  <2>3. QED
    BY <1>5, <2>1, <2>2 DEF AddFile
<1>6. CASE CopyTask(k)
  <2>1. CASE ThreadSays(k, "err")
    BY <1>1, <1>3, <1>6, <2>1 DEF CopyTask, Alive, At
  <2>2. CASE ~ThreadSays(k, "err")
    <3>1. PICK st \in {"storing", "growing"} :
             thread' = [thread EXCEPT ![k].step = st, ![k].task = NewTask,
                           ![k].seen = SubSeq(prints, 1, end), ![k].array = array]
      BY <1>6, <2>2 DEF CopyTask
    <3>2. QED
      BY <1>6, <3>1, <1>a DEF CopyTask, Alive, At, Threads
  <2>3. QED
    BY <2>1, <2>2
<1>7. CASE LoadClone(k)
  BY <1>1, <1>2, <1>3, <1>7 DEF LoadClone, Alive, At
<1>8. CASE StoreTask(k)
  BY <1>1, <1>3, <1>8 DEF StoreTask, Alive, At
<1>9. CASE WriteLog(k)
  BY <1>9, <1>a DEF WriteLog, Ended, Thread, Alive, At
<1>10. CASE MoveVector(k)
  BY <1>10, <1>a DEF MoveVector, ThreadGoes, Alive, At, Threads
<1>11. CASE VectorMoved(k)
  BY <1>1, <1>3, <1>11 DEF VectorMoved, Alive, At
<1>12. QED
  BY <1>4, <1>5, <1>6, <1>7, <1>8, <1>9, <1>10, <1>11 DEF Dll

\* The steps of a thread, by what comes of them.
Reads(k) ==
    /\ At(k, "sleeping") /\ config # 0
    /\ thread'[k].step \in {"adding", "loading"} /\ thread'[k].path = config
    /\ UNCHANGED <<tasks, prints, end, log>>

Adds(k) ==
    /\ At(k, "adding") /\ tasks' = WithFile(thread[k].path)
    /\ thread'[k].step = "copying" /\ thread'[k].path = thread[k].path
    /\ UNCHANGED <<prints, end, log>>

Copies(k) ==
    /\ At(k, "copying") /\ tasks # <<>>
    /\ Holding(k)' /\ thread'[k].path = thread[k].path
    /\ thread'[k].task = NewTask /\ thread'[k].array = array'
    /\ thread'[k].seen = SubSeq(prints, 1, end)
    /\ UNCHANGED <<tasks, prints, end, log>>

Stores(k, slot, task) ==
    /\ At(k, "storing") \/ At(k, "loading")
    /\ Put(slot, task)
    /\ thread'[k].step = "saying" /\ thread'[k].path = thread[k].path
    /\ UNCHANGED <<tasks, log>>

Moves(k) ==
    /\ At(k, "growing")
    /\ prints' = Append(thread[k].seen, thread[k].task) /\ end' = Len(prints')
    /\ thread'[k].step = "moving" /\ thread'[k].path = thread[k].path
    /\ UNCHANGED <<tasks, log>>

\* A thread that stores or moves the vector when it is torn.
Tears(k) ==
    /\ torn'
    /\ thread'[k].step \in {"moving", "saying"} /\ thread'[k].path = thread[k].path
    /\ UNCHANGED <<tasks, prints, end, log>>

Moved(k) ==
    /\ At(k, "moving")
    /\ thread'[k].step = "saying" /\ thread'[k].path = thread[k].path
    /\ UNCHANGED <<tasks, prints, end, log>>

Fails(k) ==
    /\ thread'[k].step = "saying" /\ thread'[k].path = thread[k].path
    /\ thread'[k].says # "err" => thread[k].path \in Misleading
    /\ UNCHANGED <<tasks, prints, end, log>>

Writes(k) ==
    /\ At(k, "saying") /\ log' = thread[k].says
    /\ thread'[k].step = "ended" /\ thread'[k].path = thread[k].path
    /\ UNCHANGED <<tasks, prints, end>>

LEMMA DllCases ==
  ASSUME TypeInv, NEW k \in Injections, Dll(k)
  PROVE  \/ Reads(k) \/ Adds(k) \/ Copies(k) \/ Fails(k) \/ Writes(k)
         \/ Tears(k) \/ Moves(k) \/ Moved(k)
         \/ /\ At(k, "storing") /\ thread[k].array = array
            /\ Stores(k, Len(thread[k].seen), thread[k].task)
         \/ At(k, "loading") /\ Stores(k, end, thread[k].path)
<1> USE DEF TypeInv, agent, files, printexp, vector
<1>a. thread \in [Injections -> Threads]
  BY DEF TypeOK
<1>1. ASSUME NEW text \in Texts, ThreadSays(k, text)
      PROVE  thread'[k].step = "saying" /\ thread'[k].path = thread[k].path /\ thread'[k].says = text
  BY <1>1, SaysText
<1>2. ASSUME QuotesPath(k), UNCHANGED <<tasks, prints, end, log>>
      PROVE  Fails(k)
  BY <1>1, <1>2, QuoteSays DEF Fails
<1>3. {"err", "done"} \subseteq Texts
  BY DEF Texts
<1>4. ASSUME ThreadSays(k, "err"), UNCHANGED <<tasks, prints, end, log>>
      PROVE  Fails(k)
  BY <1>1, <1>3, <1>4 DEF Fails
<1>5. CASE ReadConfig(k)
  <2>1. CASE config = 0
    BY <1>4, <1>5, <2>1 DEF ReadConfig
  <2>2. CASE config # 0
    BY <1>5, <2>2, <1>a DEF ReadConfig, Reads, Threads
  <2>3. QED
    BY <2>1, <2>2
<1>6. CASE AddFile(k)
  <2>1. CASE tasks' = WithFile(thread[k].path) /\ ThreadGoes(k, "copying")
    BY <1>6, <2>1, <1>a DEF AddFile, ThreadGoes, Adds, Threads
  <2>2. CASE QuotesPath(k) /\ UNCHANGED tasks
    BY <1>2, <1>6, <2>2 DEF AddFile
  <2>3. QED
    BY <1>6, <2>1, <2>2 DEF AddFile
<1>7. CASE CopyTask(k)
  <2>1. CASE ThreadSays(k, "err")
    BY <1>4, <1>7, <2>1 DEF CopyTask
  <2>2. CASE ~ThreadSays(k, "err")
    <3>1. PICK st \in {"storing", "growing"} :
             thread' = [thread EXCEPT ![k].step = st, ![k].task = NewTask,
                           ![k].seen = SubSeq(prints, 1, end), ![k].array = array]
      BY <1>7, <2>2 DEF CopyTask
    <3>2. /\ thread'[k].step = st /\ thread'[k].task = NewTask /\ thread'[k].path = thread[k].path
          /\ thread'[k].seen = SubSeq(prints, 1, end) /\ thread'[k].array = array
      BY <3>1, <1>a DEF Threads
    <3>3. QED
      BY <1>7, <2>2, <3>2 DEF CopyTask, Copies, Holding, At
  <2>3. QED
    BY <2>1, <2>2
<1>8. CASE LoadClone(k)
  BY <1>1, <1>2, <1>3, <1>4, <1>8 DEF LoadClone, Stores
<1>9. CASE StoreTask(k)
  <2>1. thread'[k].step = "saying" /\ thread'[k].path = thread[k].path
    BY <1>1, <1>3, <1>9 DEF StoreTask
  <2>2. CASE torn'
    BY <1>9, <2>1, <2>2 DEF StoreTask, Tears
  <2>3. CASE ~torn'
    BY <1>9, <2>1, <2>3 DEF StoreTask, Stores
  <2>4. QED
    BY <2>2, <2>3
<1>10. CASE WriteLog(k)
  BY <1>10, <1>a DEF WriteLog, Writes, Ended, Thread
<1>11. CASE MoveVector(k)
  <2>1. thread'[k].step = "moving" /\ thread'[k].path = thread[k].path
    BY <1>11, <1>a DEF MoveVector, ThreadGoes, Threads
  <2>2. CASE torn'
    BY <1>11, <2>1, <2>2 DEF MoveVector, Tears
  <2>3. CASE ~torn'
    BY <1>11, <2>1, <2>3 DEF MoveVector, Moves
  <2>4. QED
    BY <2>2, <2>3
<1>12. CASE VectorMoved(k)
  BY <1>1, <1>3, <1>12 DEF VectorMoved, Moved
<1>13. QED
  BY <1>5, <1>6, <1>7, <1>8, <1>9, <1>10, <1>11, <1>12 DEF Dll

\* When PrintExp dies, the threads that lived end.
LEMMA DeathActs ==
  ASSUME TypeInv, PrintExpDies
  PROVE  /\ UNCHANGED <<agent, files, build, beside, torn>>
         /\ tasks' = <<>> /\ prints' = <<>> /\ end' = 0 /\ gone' = gone \cup Queued
         /\ \A k \in Injections :
               /\ thread'[k].step \in {"none", "ended"}
               /\ thread'[k].path = thread[k].path
               /\ k \notin Alive => thread'[k] = thread[k]
  BY DEF PrintExpDies, Ended, Thread, NoThread, Alive

-----------------------------------------------------------------------------
(***************************************************************************)
(* The DLL of an injection never takes an earlier job again.               *)
(***************************************************************************)

LEMMA TypeFacts ==
  ASSUME TypeInv
  PROVE  /\ MaxInj \in Nat /\ current \in 0 .. MaxInj /\ config \in 0 .. MaxInj
         /\ thread \in [Injections -> Threads] /\ beside \in [Injections -> SUBSET Injections]
         /\ current # 0 => current \in Injections
         /\ step # "idle" => current \in Injections
         /\ \A k \in Injections : thread[k].path \in 0 .. MaxInj /\ k \in Int /\ k # 0
<1>1. MaxInj \in Nat
  BY BoundAssumption
<1>2. /\ current \in 0 .. MaxInj /\ config \in 0 .. MaxInj
      /\ thread \in [Injections -> Threads] /\ beside \in [Injections -> SUBSET Injections]
      /\ step # "idle" => current # 0
  BY DEF TypeInv, TypeOK
<1>3. \A k \in Injections : thread[k].path \in 0 .. MaxInj
  BY <1>2 DEF Threads
<1>4. QED
  BY <1>1, <1>2, <1>3 DEF Injections

LEMMA HeldIsThere ==
  ASSUME TypeInv, NEW k \in Injections
  PROVE  /\ end \in 0 .. Len(prints)
         /\ thread[k].step \in {"adding", "copying", "storing", "growing", "loading"}
               => thread[k].path \in Injections
         /\ Holding(k) => thread[k].task \in Injections
         /\ thread[k].seen \in Seq(Injections) /\ Len(thread[k].seen) \in Nat
         /\ At(k, "storing") /\ thread[k].array = array => Len(thread[k].seen) \in 0 .. Len(prints)
<1>1. /\ thread[k].task \in 0 .. MaxInj /\ thread[k].path \in 0 .. MaxInj
      /\ thread[k].seen \in Seq(Injections) /\ Len(prints) \in Nat /\ end \in 0 .. Len(prints)
  BY DEF TypeInv, TypeOK, Threads
<1>2. Len(thread[k].seen) \in Nat
  BY <1>1
<1>3. QED
  BY <1>1, <1>2 DEF TypeInv, ThreadsHoldJobs, Holding, At, Injections

LEMMA OrderInit == Init => OrderInv
<1> SUFFICES ASSUME Init PROVE OrderInv
  OBVIOUS
<1>1. \A k \in Injections : thread[k] = NoThread /\ thread[k].step = "none" /\ thread[k].path = 0
  BY DEF Init, NoThread, Thread
<1>2. ThreadsAreLoaded /\ NeverAnEarlierJob
  BY <1>1 DEF ThreadsAreLoaded, NeverAnEarlierJob
<1>3. ConfigIsLate /\ MeetingsCounted
  BY <1>1 DEF ConfigIsLate, MeetingsCounted, Alive, Init, At, Injections
<1>4. QED
  BY <1>2, <1>3 DEF OrderInv

LEMMA OrderStep == TypeInv /\ OrderInv /\ [Next]_vars => OrderInv'
<1> SUFFICES ASSUME TypeInv, OrderInv, [Next]_vars PROVE OrderInv'
  OBVIOUS
<1>a. /\ ThreadsAreLoaded /\ ConfigIsLate /\ MeetingsCounted /\ NeverAnEarlierJob
      /\ MaxInj \in Nat /\ current \in 0 .. MaxInj /\ config \in 0 .. MaxInj
      /\ thread \in [Injections -> Threads] /\ beside \in [Injections -> SUBSET Injections]
      /\ current # 0 => current \in Injections
      /\ step # "idle" => current \in Injections
      /\ \A k \in Injections : thread[k].path \in 0 .. MaxInj
  BY TypeFacts DEF OrderInv
<1>b. NoThread.step = "none" /\ NoThread.path = 0
  BY DEF NoThread, Thread
<1>c. \A k \in Injections : k \in Int /\ k # 0
  BY TypeFacts
<1> USE DEF OrderInv, agent, files, printexp, vector
<1>1. CASE Begin
  <2>0. current + 1 \in Injections
    BY <1>1, <1>a DEF Begin, Injections
  <2>1. /\ current' = current + 1 /\ current + 1 \in Injections
        /\ step' \in {"idle", "writing"} /\ beside' = [beside EXCEPT ![current + 1] = Alive]
        /\ UNCHANGED <<config, thread>>
    BY <1>1, <2>0 DEF Begin
  <2>2. ThreadsAreLoaded'
    BY <1>a, <1>c, <2>1 DEF ThreadsAreLoaded
  <2>3. thread[current + 1] = NoThread
    BY <1>a, <2>1 DEF ThreadsAreLoaded
  <2>4. ConfigIsLate'
    BY <1>a, <1>b, <2>1, <2>3 DEF ConfigIsLate, At
  <2>5. MeetingsCounted'
    BY <1>a, <1>c, <2>1 DEF MeetingsCounted, Alive
  <2>6. QED
    BY <1>a, <2>1, <2>2, <2>4, <2>5 DEF NeverAnEarlierJob
<1>2. CASE WriteConfig
  <2>1. /\ UNCHANGED <<current, thread, beside>> /\ config' \in {0, current}
        /\ step = "writing" /\ step' \in {"writing", "clearing"}
        /\ step' = "clearing" => config' = current
    BY <1>2 DEF WriteConfig, Goes
  <2>2. current \in Injections /\ thread[current] = NoThread
    BY <1>a, <2>1 DEF ThreadsAreLoaded
  <2>3. ThreadsAreLoaded'
    BY <1>a, <1>c, <2>1 DEF ThreadsAreLoaded
  <2>4. \A k \in Injections : At(k, "sleeping") => current >= k
    BY <1>a, <1>b, <1>c DEF ThreadsAreLoaded, At
  <2>5. ConfigIsLate'
    BY <1>a, <1>b, <2>1, <2>2, <2>4 DEF ConfigIsLate, At
  <2>6. QED
    BY <1>a, <2>1, <2>3, <2>5 DEF NeverAnEarlierJob, MeetingsCounted, Alive
<1>3. CASE ClearLog \/ Poll \/ Timeout \/ Save
  <2>1. /\ UNCHANGED <<current, config, thread, beside>>
        /\ step' # "writing" /\ step' # "clearing"
        /\ step' = "loading" => step = "clearing"
    BY <1>3 DEF ClearLog, Poll, Timeout, Save, Goes, Returns
  <2>2. QED
    BY <1>a, <2>1 DEF ThreadsAreLoaded, ConfigIsLate, MeetingsCounted, NeverAnEarlierJob, At, Alive
<1>4. CASE LoadDll
  <2>1. /\ UNCHANGED <<current, config, beside>> /\ current \in Injections
        /\ step = "loading" /\ step' \in {"polling", "idle"} /\ config = current
        /\ thread[current] = NoThread
    BY <1>4, <1>a DEF LoadDll, Goes, Returns, ConfigIsLate, ThreadsAreLoaded
  <2>2. /\ thread'[current].path = 0
        /\ \A m \in Injections : m # current => thread'[m] = thread[m]
    BY <1>4, <1>a, <1>b, <2>1 DEF LoadDll, Threads
  <2>3. ThreadsAreLoaded' /\ NeverAnEarlierJob'
    BY <1>a, <1>c, <2>1, <2>2 DEF ThreadsAreLoaded, NeverAnEarlierJob
  <2>4. ConfigIsLate'
    BY <1>a, <1>c, <2>1, <2>2 DEF ConfigIsLate, At
  <2>5. MeetingsCounted'
    BY <1>a, <1>c, <2>1, <2>2 DEF MeetingsCounted, Alive
  <2>6. QED
    BY <2>3, <2>4, <2>5
<1>5. ASSUME NEW k \in Injections, Dll(k) PROVE OrderInv'
  <2>1. /\ UNCHANGED <<current, step, config, beside>>
        /\ k \in Alive /\ thread'[k].step \notin {"none", "sleeping"}
        /\ \A m \in Injections : m # k => thread'[m] = thread[m]
        /\ \/ thread'[k].path = thread[k].path
           \/ At(k, "sleeping") /\ config # 0 /\ thread'[k].path = config
    BY <1>5, DllActs
  <2>2. ThreadsAreLoaded'
    BY <1>a, <1>b, <2>1 DEF ThreadsAreLoaded, Alive
  <2>3. ConfigIsLate'
    BY <1>a, <2>1 DEF ConfigIsLate, At, Alive
  <2>4. MeetingsCounted'
    BY <1>a, <2>1 DEF MeetingsCounted, Alive
  <2>5. NeverAnEarlierJob'
    BY <1>a, <2>1 DEF NeverAnEarlierJob, ConfigIsLate
  <2>6. QED
    BY <2>2, <2>3, <2>4, <2>5
<1>6. CASE PrintExpDies
  <2>1. /\ UNCHANGED <<current, step, config, beside>>
        /\ \A k \in Injections :
              /\ thread'[k].step \in {"none", "ended"}
              /\ thread'[k].path = thread[k].path
              /\ k \notin Alive => thread'[k] = thread[k]
    BY <1>6, DeathActs
  <2>2. ThreadsAreLoaded'
    BY <1>a, <1>b, <2>1 DEF ThreadsAreLoaded, Alive
  <2>3. MeetingsCounted' /\ NeverAnEarlierJob'
    BY <1>a, <2>1 DEF MeetingsCounted, NeverAnEarlierJob, Alive
  <2>4. \A k \in Injections : thread'[k].step # "none" => thread[k].step # "none"
    BY <2>1 DEF Alive
  <2>5. ConfigIsLate'
    BY <1>a, <2>1, <2>4 DEF ConfigIsLate, At
  <2>6. QED
    BY <2>2, <2>3, <2>5
<1>7. CASE UNCHANGED vars
  BY <1>7 DEF vars, ThreadsAreLoaded, ConfigIsLate, MeetingsCounted, NeverAnEarlierJob, Alive, At
<1>8. QED
  BY <1>1, <1>2, <1>3, <1>4, <1>5, <1>6, <1>7 DEF Next, Agent

\* The agent writes a path before it loads the DLL that is to read it, and
\* numbers grow: however late a thread reads the file, it finds its own job or
\* one that came after, for any number of injections and deaths of PrintExp.
THEOREM NoEarlierJob == Spec => []NeverAnEarlierJob
<1>1. Spec => [](TypeInv /\ OrderInv)
  BY TypeInit, TypeStep, OrderInit, OrderStep, PTL DEF Spec
<1>2. OrderInv => NeverAnEarlierJob
  BY DEF OrderInv
<1>3. QED
  BY <1>1, <1>2, PTL

-----------------------------------------------------------------------------
(***************************************************************************)
(* Threads that met no other.                                              *)
(***************************************************************************)

\* Such a thread, as long as it lives, is that of the injection under way and
\* the only one.
LEMMA Alone ==
  ASSUME TypeInv, OrderInv, NEW k \in Injections, ~Met(k)
  PROVE  /\ k \in Alive => current = k /\ config = k
         /\ k = current \/ k \in Alive => \A m \in Alive : m = k
         /\ \A m \in Injections \ {k} : At(m, "sleeping") => config # k
<1>a. /\ ThreadsAreLoaded /\ ConfigIsLate /\ MeetingsCounted
      /\ current \in 0 .. MaxInj /\ MaxInj \in Nat
      /\ Alive \subseteq Injections /\ Injections \subseteq Int
      /\ current # 0 => current \in Injections
      /\ \A m \in Injections : m # 0
  BY TypeFacts DEF OrderInv, Alive
<1>1. \A m \in Alive : m <= current
  BY <1>a DEF ThreadsAreLoaded, Alive, NoThread, Thread
<1>2. ASSUME NEW m \in Alive, m < k, k <= current PROVE FALSE
  BY <1>a, <1>2 DEF MeetingsCounted, Met
<1>3. ASSUME k \in Alive PROVE current = k
  <2>1. ASSUME k < current PROVE FALSE
    <3>1. current \in Injections
      BY <1>a, <2>1 DEF Injections
    <3>2. QED
      BY <1>3, <1>a, <2>1, <3>1 DEF MeetingsCounted, Met
  <2>2. QED
    BY <1>1, <1>3, <1>a, <2>1
<1>4. k \in Alive => config = k
  BY <1>3, <1>a DEF ConfigIsLate, Alive
<1>5. ASSUME NEW m \in Injections \ {k}, At(m, "sleeping"), config = k PROVE FALSE
  <2>1. m \in Alive /\ k <= current /\ m < k
    BY <1>5, <1>a DEF ConfigIsLate, Alive, At
  <2>2. QED
    BY <1>2, <2>1
<1>6. ASSUME k = current, NEW m \in Alive PROVE m = k
  BY <1>1, <1>2, <1>6, <1>a
<1>7. QED
  BY <1>3, <1>4, <1>5, <1>6

\* Who meets another thread has met it for good.
LEMMA MetStays ==
  ASSUME TypeInv, OrderInv, [Next]_vars, NEW k \in Injections, ~Met(k)'
  PROVE  ~Met(k)
<1>1. \A m \in Injections : beside[m] \subseteq beside'[m]
  <2>1. CASE Begin
    <3>1. current + 1 \in Injections => beside[current + 1] = {}
      BY TypeFacts DEF OrderInv, MeetingsCounted
    <3>2. QED
      BY <2>1, <3>1, TypeFacts DEF Begin
  <2>2. CASE ~Begin
    <3>1. UNCHANGED beside
      BY <2>2, DllActs DEF Next, Agent, WriteConfig, ClearLog, LoadDll, Poll, Timeout, Save,
                           PrintExpDies, vars
    <3>2. QED
      BY <3>1
  <2>3. QED
    BY <2>1, <2>2
<1>2. QED
  BY <1>1 DEF Met

-----------------------------------------------------------------------------
(***************************************************************************)
(* A job is in the print vector twice only if threads met.                 *)
(***************************************************************************)

LEMMA OwnJobInit == Init => OwnJobOnce
<1> SUFFICES ASSUME Init PROVE OwnJobOnce
  OBVIOUS
<1>1. \A k \in Injections : thread[k].step = "none" /\ thread[k].path = 0
  BY DEF Init, NoThread, Thread
<1>2. Len(prints) = 0 /\ \A k \in Injections : k # 0
  BY DEF Init, Injections
<1>3. QED
  BY <1>1, <1>2 DEF OwnJobOnce, InOwnHands, InMemoryOnce, NotIn, OnceIn, Holding, At

LEMMA InOwnHandsStep ==
  ASSUME TypeInv, OrderInv, [Next]_vars, NEW k \in Injections, ~Met(k), InOwnHands(k)
  PROVE  InOwnHands(k)'
<1>1. CASE Begin \/ WriteConfig \/ ClearLog \/ Poll \/ Timeout \/ Save \/ UNCHANGED vars
  BY <1>1 DEF Begin, WriteConfig, ClearLog, Poll, Timeout, Save, vars, printexp, vector, InOwnHands, Holding, At,
              NewTask
<1>2. CASE LoadDll
  <2>1. /\ current \in Injections /\ thread[current] = NoThread
        /\ \A m \in Injections : m # current => thread'[m] = thread[m]
        /\ thread'[current].step \in {"none", "sleeping"} /\ thread'[current].path = 0
        /\ UNCHANGED <<tasks, build>>
    BY <1>2, TypeFacts DEF LoadDll, OrderInv, ThreadsAreLoaded, NoThread, Thread, Threads, printexp, vector
  <2>2. QED
    BY <2>1, TypeFacts DEF InOwnHands, Holding, At, NewTask
<1>3. CASE PrintExpDies
  BY <1>3, DeathActs DEF InOwnHands, Holding, At
<1>4. ASSUME NEW m \in Injections, Dll(m) PROVE InOwnHands(k)'
  <2>1. /\ UNCHANGED build /\ m \in Alive
        /\ \A l \in Injections : l # m => thread'[l] = thread[l]
    BY <1>4, DllActs
  <2>2. m = k => \A l \in Injections \ {k} : thread[l].step \notin {"copying", "storing", "growing"}
    BY <2>1, Alone DEF Alive
  <2>3. CASE Reads(m)
    BY <2>1, <2>3, Alone DEF Reads, InOwnHands, Holding, At, NewTask
  <2>4. CASE Adds(m)
    <3>1. thread[m].path \in Injections
      BY <2>4, HeldIsThere DEF Adds, At
    <3>2. tasks' # <<>> /\ NewTask' = thread[m].path
      BY <2>1, <2>4, <3>1, AddedIsNew DEF Adds, TypeInv, TypeOK
    <3>3. QED
      BY <2>1, <2>2, <2>4, <3>2 DEF Adds, InOwnHands, Holding, At
  <2>5. CASE Copies(m)
    BY <2>1, <2>5 DEF Copies, InOwnHands, Holding, At, NewTask
  <2>6. CASE Fails(m) \/ Writes(m) \/ Tears(m) \/ Moves(m) \/ Moved(m)
    BY <2>1, <2>6 DEF Fails, Writes, Tears, Moves, Moved, InOwnHands, Holding, At, NewTask
  <2>7. ASSUME NEW slot, NEW task, Stores(m, slot, task) PROVE InOwnHands(k)'
    BY <2>1, <2>7 DEF Stores, InOwnHands, Holding, At, NewTask
  <2>8. QED
    BY <1>4, <2>3, <2>4, <2>5, <2>6, <2>7, DllCases
<1>5. QED
  BY <1>1, <1>2, <1>3, <1>4 DEF Next, Agent

\* The vector stays torn.
LEMMA TornStays ==
  ASSUME TypeInv, [Next]_vars, torn
  PROVE  torn'
<1>1. CASE Agent \/ Save \/ UNCHANGED vars
  BY <1>1 DEF Agent, Begin, WriteConfig, ClearLog, LoadDll, Poll, Timeout, Save, vars, printexp, vector
<1>2. QED
  BY <1>1, DllActs, DeathActs DEF Next

LEMMA InMemoryOnceStep ==
  ASSUME TypeInv, OrderInv, [Next]_vars, NEW k \in Injections, InOwnHands(k), InMemoryOnce(k)
  PROVE  InMemoryOnce(k)'
<1> SUFFICES ASSUME ~torn' PROVE InMemoryOnce(k)'
  BY DEF InMemoryOnce
<1> DEFINE Before == thread[k].step \notin {"moving", "saying", "ended"}
<1>a. /\ ~torn /\ OnceIn(k, prints) /\ (Before => NotIn(k, prints))
      /\ \A m \in Injections : Holding(m) =>
            /\ Before => NotIn(k, thread[m].seen)
            /\ OnceIn(k, thread[m].seen)
  BY TornStays DEF InMemoryOnce
<1> DEFINE After == /\ OnceIn(k, prints') /\ (Before' => NotIn(k, prints'))
                    /\ \A m \in Injections : Holding(m)' =>
                          /\ Before' => NotIn(k, thread'[m].seen)
                          /\ OnceIn(k, thread'[m].seen)
<1>b. SUFFICES After
  BY DEF InMemoryOnce, NotIn, OnceIn
<1>1. CASE Begin \/ WriteConfig \/ ClearLog \/ Poll \/ Timeout \/ Save \/ UNCHANGED vars
  <2>1. UNCHANGED <<thread, prints>>
    BY <1>1 DEF Begin, WriteConfig, ClearLog, Poll, Timeout, Save, vars, printexp, vector
  <2>2. QED
    BY <1>a, <2>1 DEF Holding, At
<1>2. CASE LoadDll
  <2>1. /\ current \in Injections /\ thread[current] = NoThread
        /\ \A m \in Injections : m # current => thread'[m] = thread[m]
        /\ UNCHANGED prints
    BY <1>2, TypeFacts DEF LoadDll, OrderInv, ThreadsAreLoaded, printexp, vector
  <2>2. thread[current].step = "none"
    BY <2>1 DEF NoThread, Thread
  <2>3. Before' => Before
    BY <2>1, <2>2
  <2>a. thread'[current].step \in {"none", "sleeping"}
    BY <1>2, <2>1, <2>2, TypeFacts DEF LoadDll, Threads
  <2>4. \A m \in Injections : Holding(m)' => Holding(m) /\ thread'[m] = thread[m]
    BY <2>1, <2>a DEF Holding, At
  <2>5. QED
    BY <1>a, <2>1, <2>3, <2>4
<1>3. CASE PrintExpDies
  <2>1. Len(prints') = 0 /\ \A m \in Injections : ~Holding(m)'
    BY <1>3, DeathActs DEF Holding, At
  <2>2. QED
    BY <2>1 DEF NotIn, OnceIn
<1>4. CASE \E m \in Injections : Dll(m)
  <2>0. PICK m \in Injections : Dll(m)
    BY <1>4
  <2>1. /\ \A l \in Injections : l # m => thread'[l] = thread[l]
        /\ m \in Alive
    BY <2>0, DllActs
  <2>2. CASE Reads(m) \/ Adds(m) \/ Fails(m) \/ Writes(m) \/ Moved(m)
    <3>1. UNCHANGED prints /\ ~Holding(m)' /\ (Before' => Before)
      BY <2>1, <2>2 DEF Reads, Adds, Fails, Writes, Moved, Holding, At
    <3>2. QED
      BY <1>a, <2>1, <3>1 DEF Holding, At
  <2>3. CASE Copies(m)
    <3>1. UNCHANGED prints /\ (Before' => Before)
      BY <2>1, <2>3 DEF Copies, Holding, At
    <3>2. NotIn(k, prints) => NotIn(k, thread'[m].seen)
      BY <2>3, PrefixIs DEF Copies, NotIn, TypeInv
    <3>3. OnceIn(k, prints) => OnceIn(k, thread'[m].seen)
      <4> DEFINE seen == SubSeq(prints, 1, end)
      <4>1. thread'[m].seen = seen
        BY <2>3 DEF Copies
      <4>2. /\ Len(seen) = end /\ end \in Nat /\ Len(prints) \in Nat /\ end <= Len(prints)
            /\ \A i \in 1 .. end : i \in 1 .. Len(prints) /\ seen[i] = prints[i]
        BY PrefixIs DEF TypeInv
      <4> HIDE DEF seen
      <4>3. OnceIn(k, prints) => OnceIn(k, seen)
        BY <4>2 DEF OnceIn
      <4>4. QED
        BY <4>1, <4>3
    <3>4. QED
      BY <1>a, <2>1, <3>1, <3>2, <3>3 DEF Holding, At
  <2>4. ASSUME NEW slot \in 0 .. Len(prints), NEW task \in Injections, Stores(m, slot, task),
               m # k => task # k
        PROVE  After
    <3>1. /\ prints'[slot + 1] = task
          /\ \A i \in 1 .. Len(prints) : i # slot + 1 => prints'[i] = prints[i]
          /\ \A i \in 1 .. Len(prints') : i # slot + 1 => i \in 1 .. Len(prints)
      BY <2>4, PutStores DEF Stores, TypeInv, TypeOK
    <3>2. ~Holding(m)' /\ thread'[m].step = "saying"
      BY <2>4 DEF Stores, Holding, At
    <3>3. OnceIn(k, prints')
      <4>1. CASE m = k
        <5>1. \A i \in 1 .. Len(prints) : prints[i] # k
          BY <1>a, <2>4, <4>1 DEF Stores, At, NotIn
        <5>2. QED
          BY <3>1, <5>1 DEF OnceIn
      <4>2. CASE m # k
        BY <1>a, <2>4, <3>1, <4>2 DEF OnceIn
      <4>3. QED
        BY <4>1, <4>2
    <3>4. Before' => m # k /\ Before /\ NotIn(k, prints')
      <4>1. Before' => m # k /\ Before
        BY <2>1, <3>2
      <4>2. Before /\ m # k => NotIn(k, prints')
        BY <1>a, <2>4, <3>1 DEF NotIn
      <4>3. QED
        BY <4>1, <4>2
    <3>5. \A l \in Injections : Holding(l)' => Holding(l) /\ thread'[l] = thread[l]
      BY <2>1, <3>2 DEF Holding, At
    <3>6. QED
      BY <1>a, <3>3, <3>4, <3>5
  <2>5. CASE At(m, "storing") /\ thread[m].array = array
             /\ Stores(m, Len(thread[m].seen), thread[m].task)
    <3>1. Len(thread[m].seen) \in 0 .. Len(prints) /\ thread[m].task \in Injections
      BY <2>5, HeldIsThere DEF Holding
    <3>2. m # k => thread[m].task # k
      BY <2>5 DEF InOwnHands, Holding
    <3>3. QED
      BY <2>4, <2>5, <3>1, <3>2
  <2>6. CASE At(m, "loading") /\ Stores(m, end, thread[m].path)
    <3>1. end \in 0 .. Len(prints) /\ thread[m].path \in Injections
      BY <2>6, HeldIsThere DEF At
    <3>2. m # k => thread[m].path # k
      BY DEF InOwnHands
    <3>3. QED
      BY <2>4, <2>6, <3>1, <3>2
  <2>7. CASE Moves(m)
    <3> DEFINE seen == thread[m].seen
               task == thread[m].task
    <3>1. Holding(m) /\ ~Holding(m)' /\ thread'[m].step = "moving"
      BY <2>7 DEF Moves, Holding, At
    <3>2. seen \in Seq(Injections) /\ task \in Injections /\ Len(seen) \in Nat
      BY <3>1, HeldIsThere
    <3>3. /\ Len(prints') = Len(seen) + 1 /\ prints'[Len(seen) + 1] = task
          /\ \A i \in 1 .. Len(seen) : prints'[i] = seen[i]
      BY <2>7, <3>2, AppendProperties DEF Moves
    <3>4. OnceIn(k, seen) /\ (Before => NotIn(k, seen)) /\ (m # k => task # k)
      BY <1>a, <3>1 DEF InOwnHands
    <3> HIDE DEF seen, task
    <3>5. m = k => Before
      BY <2>7 DEF Moves, At
    <3>6. OnceIn(k, prints')
      BY <3>2, <3>3, <3>4, <3>5 DEF OnceIn, NotIn
    <3>7. Before' => m # k /\ Before
      BY <2>1, <3>1
    <3>8. Before' => NotIn(k, prints')
      BY <3>2, <3>3, <3>4, <3>7 DEF NotIn
    <3>9. \A l \in Injections : Holding(l)' => Holding(l) /\ thread'[l] = thread[l]
      BY <2>1, <3>1 DEF Holding, At
    <3>10. QED
      BY <1>a, <3>6, <3>7, <3>8, <3>9
  <2>8. ~Tears(m)
    BY DEF Tears
  <2>9. QED
    BY <2>0, <2>2, <2>3, <2>5, <2>6, <2>7, <2>8, DllCases
<1>5. QED
  BY <1>1, <1>2, <1>3, <1>4 DEF Next, Agent

LEMMA OwnJobStep ==
  ASSUME TypeInv, OrderInv, OwnJobOnce, [Next]_vars
  PROVE  OwnJobOnce'
<1> SUFFICES ASSUME NEW k \in Injections, ~Met(k)'
             PROVE  InOwnHands(k)' /\ InMemoryOnce(k)'
  BY DEF OwnJobOnce
<1>1. ~Met(k)
  BY MetStays
<1>2. InOwnHands(k) /\ InMemoryOnce(k)
  BY <1>1 DEF OwnJobOnce
<1>3. QED
  BY <1>1, <1>2, InOwnHandsStep, InMemoryOnceStep

\* Two places of the print vector hold the same job only if the threads of two
\* injections lived at a time, however many there are: either that of the job, or
\* two that tore the vector.
THEOREM TwiceIfMet == Spec => []TwiceOnlyIfThreadsMet
<1>1. TypeInv /\ OwnJobOnce => TwiceOnlyIfThreadsMet
  <2> SUFFICES ASSUME TypeInv, OwnJobOnce, NEW k \in Injections, ~Met(k)
               PROVE  torn \/ ~(Cardinality({i \in 1 .. end : prints[i] = k}) > 1)
    BY DEF TwiceOnlyIfThreadsMet
  <2> DEFINE places == {i \in 1 .. end : prints[i] = k}
  <2> SUFFICES ASSUME ~torn PROVE ~(Cardinality(places) > 1)
    OBVIOUS
  <2>1. \A i, j \in places : i = j
    <3>1. end \in Nat /\ end <= Len(prints) /\ Len(prints) \in Nat
      BY DEF TypeInv, TypeOK
    <3>2. places \subseteq 1 .. Len(prints)
      BY <3>1
    <3>3. QED
      BY <3>2 DEF OwnJobOnce, InMemoryOnce, OnceIn
  <2> HIDE DEF places
  <2>2. CASE places = {}
    BY <2>2, FS_EmptySet
  <2>3. CASE places # {}
    <3>1. PICK i \in places : TRUE
      BY <2>3
    <3>2. places = {i}
      BY <2>1, <3>1
    <3>3. QED
      BY <3>2, FS_Singleton
  <2>4. QED
    BY <2>2, <2>3
<1>2. Spec => [](TypeInv /\ OrderInv /\ OwnJobOnce)
  BY TypeInit, TypeStep, OrderInit, OrderStep, OwnJobInit, OwnJobStep, PTL DEF Spec
<1>3. QED
  BY <1>1, <1>2, PTL

-----------------------------------------------------------------------------
(***************************************************************************)
(* Success means that the job was queued, if no threads met.               *)
(***************************************************************************)

\* What is stored behind no thread's back stays, until PrintExp dies.
LEMMA StoredStays ==
  ASSUME TypeInv, [Next]_vars, NEW k \in Injections, Stored(k)
  PROVE  Stored(k)'
<1>a. end \in Nat /\ Len(prints) \in Nat /\ end <= Len(prints)
  BY DEF TypeInv, TypeOK
<1>1. CASE torn \/ torn'
  BY <1>1, TornStays DEF Stored
<1>2. CASE ~torn /\ ~torn' /\ k \in gone
  BY <1>2, DllActs, DeathActs
     DEF Stored, Next, Agent, Begin, WriteConfig, ClearLog, LoadDll, Poll, Timeout, Save, vars,
         printexp, vector
<1>3. CASE ~torn /\ ~torn' /\ k \notin gone
  <2>1. PICK p \in 1 .. end :
           /\ prints[p] = k
           /\ \A m \in Injections :
                 Holding(m) => p <= Len(thread[m].seen) /\ thread[m].seen[p] = k
    BY <1>3 DEF Stored
  <2>a. ASSUME p \in 1 .. end', prints'[p] = k,
               \A m \in Injections :
                  Holding(m)' => p <= Len(thread'[m].seen) /\ thread'[m].seen[p] = k
        PROVE  Stored(k)'
    BY <2>a DEF Stored
  <2>2. CASE Agent \/ Save \/ UNCHANGED vars
    <3>1. UNCHANGED <<prints, end>> /\ \A m \in Injections : Holding(m)' => thread'[m] = thread[m]
      BY <2>2, TypeFacts DEF Agent, Begin, WriteConfig, ClearLog, LoadDll, Poll, Timeout, Save, vars,
                  printexp, vector, Holding, At, Threads
    <3>2. QED
      BY <2>1, <2>a, <3>1 DEF Holding, At
  <2>3. CASE PrintExpDies
    BY <2>1, <2>3, DeathActs DEF Stored, Queued
  <2>4. ASSUME NEW m \in Injections, Dll(m) PROVE Stored(k)'
    <3>1. \A l \in Injections : l # m => thread'[l] = thread[l]
      BY <2>4, DllActs
    <3>2. CASE Reads(m) \/ Adds(m) \/ Fails(m) \/ Writes(m) \/ Moved(m)
      <4>1. UNCHANGED <<prints, end>> /\ ~Holding(m)'
        BY <3>2 DEF Reads, Adds, Fails, Writes, Moved, Holding, At
      <4>2. QED
        BY <2>1, <2>a, <3>1, <4>1 DEF Holding, At
    <3>3. CASE Copies(m)
      <4>1. UNCHANGED <<prints, end>> /\ p <= Len(thread'[m].seen) /\ thread'[m].seen[p] = k
        BY <1>a, <2>1, <3>3, PrefixIs DEF Copies, TypeInv
      <4>2. QED
        BY <2>1, <2>a, <3>1, <4>1 DEF Holding, At
    <3>4. ASSUME NEW slot \in 0 .. Len(prints), NEW task \in Injections, Stores(m, slot, task),
                 slot >= p
          PROVE  Stored(k)'
      <4>1. prints'[p] = prints[p] /\ p \in 1 .. end'
        BY <1>a, <2>1, <3>4, PutStores DEF Stores, TypeInv, TypeOK
      <4>2. ~Holding(m)'
        BY <3>4 DEF Stores, Holding, At
      <4>3. QED
        BY <2>1, <2>a, <3>1, <4>1, <4>2 DEF Holding, At
    <3>5. CASE At(m, "storing") /\ thread[m].array = array
               /\ Stores(m, Len(thread[m].seen), thread[m].task)
      <4>1. /\ Len(thread[m].seen) \in 0 .. Len(prints) /\ thread[m].task \in Injections
            /\ Len(thread[m].seen) >= p
        BY <2>1, <3>5, HeldIsThere DEF Holding
      <4>2. QED
        BY <3>4, <3>5, <4>1
    <3>6. CASE At(m, "loading") /\ Stores(m, end, thread[m].path)
      <4>1. end \in 0 .. Len(prints) /\ thread[m].path \in Injections
        BY <3>6, HeldIsThere DEF At
      <4>2. QED
        BY <1>a, <2>1, <3>4, <3>6, <4>1
    <3>7. CASE Moves(m)
      <4>1. Holding(m) /\ ~Holding(m)'
        BY <3>7 DEF Moves, Holding, At
      <4>2. /\ thread[m].seen \in Seq(Injections) /\ thread[m].task \in Injections
            /\ Len(thread[m].seen) \in Nat
        BY <4>1, HeldIsThere
      <4>3. p \in 1 .. Len(thread[m].seen) /\ thread[m].seen[p] = k
        BY <2>1, <4>1, <4>2
      <4>4. p \in 1 .. end' /\ prints'[p] = k
        BY <3>7, <4>2, <4>3, AppendProperties DEF Moves
      <4>5. QED
        BY <2>a, <2>1, <3>1, <4>1, <4>4 DEF Holding, At
    <3>8. ~Tears(m)
      BY <1>3 DEF Tears
    <3>9. QED
      BY <2>4, <3>2, <3>3, <3>5, <3>6, <3>7, <3>8, DllCases
  <2>5. QED
    BY <2>2, <2>3, <2>4 DEF Next
<1>4. QED
  BY <1>1, <1>2, <1>3

LEMMA DoneInit == Init => DoneMeansStored
<1> SUFFICES ASSUME Init PROVE DoneMeansStored
  OBVIOUS
<1>1. \A k \in Injections : thread[k].step = "none" /\ verdict[k] = "none" /\ k # 0
  BY DEF Init, NoThread, Thread, Injections
<1>2. current = 0
  BY DEF Init
<1>3. QED
  BY <1>1, <1>2 DEF DoneMeansStored, HoldsOwn, Holding, SaysStored, At, Succeeds

LEMMA HoldsOwnStep ==
  ASSUME TypeInv, OrderInv, [Next]_vars, NEW k \in Injections, ~Met(k), InOwnHands(k), HoldsOwn(k)
  PROVE  HoldsOwn(k)'
<1>1. CASE Begin \/ WriteConfig \/ ClearLog \/ Poll \/ Timeout \/ Save \/ UNCHANGED vars
  BY <1>1 DEF Begin, WriteConfig, ClearLog, Poll, Timeout, Save, vars, printexp, vector, HoldsOwn, Holding, At,
              NewTask
<1>2. CASE LoadDll
  BY <1>2, TypeFacts DEF LoadDll, printexp, vector, HoldsOwn, Holding, At, NewTask, Threads
<1>3. CASE PrintExpDies
  BY <1>3, DeathActs DEF HoldsOwn, Holding, At
<1>4. ASSUME NEW m \in Injections, Dll(m) PROVE HoldsOwn(k)'
  <2>1. /\ UNCHANGED build /\ m \in Alive
        /\ \A l \in Injections : l # m => thread'[l] = thread[l]
    BY <1>4, DllActs
  <2>2. CASE m # k
    <3>1. k \notin Alive
      BY <2>1, <2>2, Alone
    <3>2. QED
      BY <2>1, <2>2, <3>1 DEF HoldsOwn, Holding, At, Alive
  <2>3. CASE m = k
    <3>1. CASE Adds(k)
      <4>1. thread[k].path = k
        BY <3>1, HeldIsThere, TypeFacts DEF InOwnHands, Adds, At
      <4>2. tasks' # <<>> /\ NewTask' = k
        BY <2>1, <3>1, <4>1, AddedIsNew DEF Adds, TypeInv, TypeOK
      <4>3. QED
        BY <3>1, <4>2 DEF Adds, HoldsOwn, Holding, At
    <3>2. CASE Copies(k)
      BY <3>2 DEF Copies, HoldsOwn, Holding, At, NewTask
    <3>3. CASE Reads(k) \/ Fails(k) \/ Writes(k) \/ Tears(k) \/ Moves(k) \/ Moved(k)
      BY <3>3 DEF Reads, Fails, Writes, Tears, Moves, Moved, HoldsOwn, Holding, At
    <3>4. CASE \E slot, task : Stores(k, slot, task)
      BY <3>4 DEF Stores, HoldsOwn, Holding, At
    <3>5. QED
      BY <1>4, <2>3, <3>1, <3>2, <3>3, <3>4, DllCases
  <2>4. QED
    BY <2>2, <2>3
<1>5. QED
  BY <1>1, <1>2, <1>3, <1>4 DEF Next, Agent

\* A thread that met no other and stores its job at the end, or moves the vector
\* with it, keeps it there.
LEMMA OwnIsStored ==
  ASSUME TypeInv, OrderInv, NEW k \in Injections, ~Met(k), Dll(k), ~torn,
         Stores(k, end, k) \/ (Moves(k) /\ HoldsOwn(k))
  PROVE  Stored(k)' /\ Queued' = Queued \cup {k}
<1>1. end \in 0 .. Len(prints) /\ end \in Nat /\ Len(prints) \in Nat
  BY DEF TypeInv, TypeOK
<1>2. /\ end' = end + 1 /\ prints'[end + 1] = k
      /\ \A i \in 1 .. end : prints'[i] = prints[i]
  <2>1. CASE Stores(k, end, k)
    BY <1>1, <2>1, PutStores DEF Stores, TypeInv, TypeOK
  <2>2. CASE Moves(k) /\ HoldsOwn(k)
    <3>1. thread[k].task = k /\ thread[k].seen = SubSeq(prints, 1, end)
      BY <2>2 DEF Moves, HoldsOwn, Holding
    <3> DEFINE seen == SubSeq(prints, 1, end)
    <3>2. /\ seen \in Seq(Injections) /\ Len(seen) = end
          /\ \A i \in 1 .. end : seen[i] = prints[i]
      BY PrefixIs DEF TypeInv
    <3>3. prints' = Append(seen, k) /\ end' = Len(prints')
      BY <2>2, <3>1 DEF Moves
    <3> HIDE DEF seen
    <3>4. QED
      BY <1>1, <3>2, <3>3, AppendProperties
  <2>3. QED
    BY <2>1, <2>2
<1>3. /\ k \in Alive /\ thread'[k].step \in {"moving", "saying"}
      /\ \A m \in Injections : m # k => thread'[m] = thread[m]
  BY DllActs DEF Stores, Moves
<1>4. \A m \in Injections : ~Holding(m)'
  BY <1>3, Alone DEF Holding, At, Alive
<1>5. Stored(k)'
  BY <1>1, <1>2, <1>4 DEF Stored
<1>6. Queued' = Queued \cup {k}
  <2>1. 1 .. end' = (1 .. end) \cup {end + 1}
    BY <1>1, <1>2
  <2>2. Queued' = {prints'[i] : i \in 1 .. end'}
    BY DEF Queued
  <2>3. QED
    BY <1>2, <2>1, <2>2 DEF Queued
<1>7. QED
  BY <1>5, <1>6

LEMMA SaysStoredStep ==
  ASSUME TypeInv, OrderInv, [Next]_vars, NEW k \in Injections, ~Met(k), k \notin Misleading,
         InOwnHands(k), HoldsOwn(k), SaysStored(k)
  PROVE  SaysStored(k)'
<1>a. Stored(k) => Stored(k)'
  BY StoredStays
<1>b. TypeOK /\ verdict \in [Injections -> {"none", "yes", "no"}]
  BY DEF TypeInv, TypeOK
<1>c. step # "idle" => current \in Injections
  BY TypeFacts
<1> USE DEF agent, files, printexp, vector
<1>1. CASE Begin
  <2>1. /\ UNCHANGED thread /\ step' \in {"idle", "writing"}
        /\ verdict' = verdict \/ verdict' = [verdict EXCEPT ![current + 1] = "no"]
    BY <1>1 DEF Begin
  <2>2. verdict'[k] = "yes" => verdict[k] = "yes"
    BY <1>b, <2>1
  <2>3. QED
    BY <1>a, <2>1, <2>2 DEF SaysStored, Succeeds, At
<1>2. CASE WriteConfig
  BY <1>2, <1>a DEF WriteConfig, Goes, SaysStored, Succeeds, At
<1>3. CASE ClearLog
  <2>1. /\ UNCHANGED <<thread, current>>
        /\ step' \in {"loading", "idle"}
        /\ step' = "loading" => log' = "none"
        /\ verdict' = verdict \/ verdict' = [verdict EXCEPT ![current] = "no"]
    BY <1>3 DEF ClearLog, Cleared, Goes, Returns
  <2>2. verdict'[k] = "yes" => verdict[k] = "yes"
    BY <1>b, <2>1
  <2>3. QED
    BY <1>a, <2>1, <2>2 DEF SaysStored, Succeeds, At
<1>4. CASE LoadDll
  <2>1. /\ UNCHANGED <<current, log>> /\ step = "loading" /\ step' \in {"polling", "idle"}
        /\ At(k, "saying")' \/ At(k, "moving")' => thread'[k] = thread[k]
        /\ verdict' = verdict \/ verdict' = [verdict EXCEPT ![current] = "no"]
    BY <1>4, TypeFacts DEF LoadDll, Goes, Returns, At, Threads
  <2>2. verdict'[k] = "yes" => verdict[k] = "yes"
    BY <1>b, <2>1
  <2>3. QED
    BY <1>a, <2>1, <2>2 DEF SaysStored, Succeeds, At
<1>5. CASE Poll
  <2>1. /\ UNCHANGED <<current, log, thread>> /\ step = "polling"
        /\ \/ step' = "saving" /\ log \in {"done", "errdone"} /\ verdict' = verdict
           \/ step' = "idle" /\ verdict' = [verdict EXCEPT ![current] = "no"]
           \/ step' = "polling" /\ verdict' = verdict
    BY <1>5 DEF Poll, Goes, Returns
  <2>2. verdict'[k] = "yes" => verdict[k] = "yes"
    BY <1>b, <2>1
  <2>3. QED
    BY <1>a, <2>1, <2>2 DEF SaysStored, Succeeds, At
<1>6. CASE Timeout
  <2>1. /\ UNCHANGED <<current, log, thread>> /\ step' = "idle"
        /\ verdict' = [verdict EXCEPT ![current] = "no"]
    BY <1>6 DEF Timeout, Returns
  <2>2. verdict'[k] = "yes" => verdict[k] = "yes"
    BY <1>b, <2>1
  <2>3. QED
    BY <1>a, <2>1, <2>2 DEF SaysStored, Succeeds, At
<1>7. CASE Save
  <2>1. /\ UNCHANGED <<current, log, thread>> /\ step = "saving" /\ step' = "idle"
        /\ verdict' = [verdict EXCEPT ![current] = "yes"]
    BY <1>7 DEF Save, Returns
  <2>2. verdict'[k] = "yes" => verdict[k] = "yes" \/ current = k
    BY <1>b, <2>1
  <2>3. QED
    BY <1>a, <2>1, <2>2 DEF SaysStored, Succeeds, At
<1>8. CASE PrintExpDies
  <2>1. UNCHANGED <<agent, files>> /\ thread'[k].step \in {"none", "ended"}
    BY <1>8, DeathActs
  <2>2. QED
    BY <1>a, <2>1 DEF SaysStored, Succeeds, At
<1>9. ASSUME NEW m \in Injections, Dll(m) PROVE SaysStored(k)'
  <2>1. /\ UNCHANGED agent /\ m \in Alive
        /\ \A l \in Injections : l # m => thread'[l] = thread[l]
    BY <1>9, DllActs
  <2>2. CASE m # k
    <3>1. current # k
      BY <2>1, <2>2, Alone
    <3>2. QED
      BY <1>a, <2>1, <2>2, <3>1 DEF SaysStored, Succeeds, At
  <2>3. CASE m = k
    <3>1. CASE Reads(k) \/ Adds(k) \/ Copies(k)
      BY <1>a, <2>1, <3>1 DEF Reads, Adds, Copies, Holding, SaysStored, Succeeds, At
    <3>2. CASE Fails(k)
      <4>1. thread[k].path \notin Misleading
        BY MisleadingAssumption, TypeFacts DEF InOwnHands
      <4>2. QED
        BY <1>a, <2>1, <3>2, <4>1 DEF Fails, SaysStored, Succeeds, At
    <3>3. CASE Writes(k)
      <4>1. log' \in {"done", "errdone"} => Stored(k)
        BY <3>3 DEF Writes, SaysStored
      <4>2. thread'[k].step = "ended" /\ UNCHANGED <<current, step, verdict>>
        BY <2>1, <3>3 DEF Writes
      <4>3. QED
        BY <1>a, <4>1, <4>2 DEF SaysStored, Succeeds, At
    <3>4. CASE torn'
      BY <3>4 DEF SaysStored, Stored
    <3>5. CASE ~torn' /\ (Stores(k, end, k) \/ Moves(k))
      <4>1. ~torn
        BY <3>5, TornStays
      <4>2. Stored(k)'
        BY <1>9, <2>3, <3>5, <4>1, OwnIsStored
      <4>3. QED
        BY <4>2 DEF SaysStored
    <3>6. CASE Moved(k)
      <4>1. Stored(k)'
        BY <1>a, <3>6 DEF Moved, SaysStored
      <4>2. QED
        BY <4>1 DEF SaysStored
    <3>7. At(k, "loading") => thread[k].path = k
      BY HeldIsThere, TypeFacts DEF InOwnHands, At
    <3>8. At(k, "storing") /\ ~torn' => thread[k].task = k /\ Len(thread[k].seen) = end
      BY TornStays, PrefixIs DEF HoldsOwn, Holding, TypeInv
    <3>9. Tears(k) => torn'
      BY DEF Tears
    <3>10. QED
      BY <1>9, <2>3, <3>1, <3>2, <3>3, <3>4, <3>5, <3>6, <3>7, <3>8, <3>9, DllCases
  <2>4. QED
    BY <2>2, <2>3
<1>10. CASE UNCHANGED vars
  BY <1>10, <1>a DEF vars, SaysStored, Succeeds, At
<1>11. QED
  BY <1>1, <1>2, <1>3, <1>4, <1>5, <1>6, <1>7, <1>8, <1>9, <1>10 DEF Next, Agent

LEMMA DoneStep ==
  ASSUME TypeInv, OrderInv, OwnJobOnce, DoneMeansStored, [Next]_vars
  PROVE  DoneMeansStored'
<1> SUFFICES ASSUME NEW k \in Injections, ~Met(k)', k \notin Misleading
             PROVE  HoldsOwn(k)' /\ SaysStored(k)'
  BY DEF DoneMeansStored
<1>1. ~Met(k)
  BY MetStays
<1>2. InOwnHands(k) /\ HoldsOwn(k) /\ SaysStored(k)
  BY <1>1 DEF OwnJobOnce, DoneMeansStored
<1>3. QED
  BY <1>1, <1>2, HoldsOwnStep, SaysStoredStep

\* Whenever inject_job reports success for a job whose thread met no other and
\* whose path does not say "done", PrintExp has that job in its print vector,
\* or had it when it died, unless two threads have torn the vector.
THEOREM SuccessIsEarned == Spec => []SuccessMeansQueued
<1>1. TypeInv /\ DoneMeansStored => SuccessMeansQueued
  <2> SUFFICES ASSUME TypeInv, NEW k \in Injections, Stored(k)
               PROVE  k \in Queued \cup gone \/ torn
    BY DEF DoneMeansStored, SaysStored, SuccessMeansQueued
  <2>1. QED
    BY DEF Stored, Queued
<1>2. Spec => [](TypeInv /\ OrderInv /\ OwnJobOnce /\ DoneMeansStored)
  BY TypeInit, TypeStep, OrderInit, OrderStep, OwnJobInit, OwnJobStep, DoneInit, DoneStep, PTL DEF Spec
<1>3. QED
  BY <1>1, <1>2, PTL

-----------------------------------------------------------------------------
(***************************************************************************)
(* DllInjection implements InjectionContract.                              *)
(***************************************************************************)

\* What Begin does, apart from the start of PrintExp.
LEMMA BeginActs ==
  ASSUME TypeInv, OrderInv, Begin
  PROVE  /\ step = "idle" /\ current \in Nat /\ current + 1 \in Injections
         /\ current' = current + 1
         /\ step' \in {"idle", "writing"}
         /\ step' = "idle" => verdict' = [verdict EXCEPT ![current + 1] = "no"]
         /\ step' = "writing" => verdict' = verdict
         /\ beside' = [beside EXCEPT ![current + 1] = Alive]
         /\ beside[current + 1] = {} /\ thread[current + 1] = NoThread
         /\ UNCHANGED <<files, thread, printexp>>
<1>1. current + 1 \in Injections /\ current \in Nat /\ current < current + 1
  BY TypeFacts DEF Begin, Injections
<1>2. beside[current + 1] = {} /\ thread[current + 1] = NoThread
  BY <1>1 DEF OrderInv, MeetingsCounted, ThreadsAreLoaded
<1>3. QED
  BY <1>1, <1>2 DEF Begin

\* What the other steps of the agent do to the answers.
LEMMA AgentActs ==
  ASSUME TypeInv, WriteConfig \/ ClearLog \/ LoadDll \/ Poll \/ Timeout \/ Save
  PROVE  /\ current \in Injections /\ step # "idle"
         /\ UNCHANGED <<current, printexp, beside>>
         /\ \/ step' # "idle" /\ verdict' = verdict
            \/ step' = "idle" /\ \E a \in {"yes", "no"} :
                  verdict' = [verdict EXCEPT ![current] = a] /\ (a = "yes" => step = "saving")
<1>1. current \in Injections /\ step # "idle"
  BY TypeFacts DEF WriteConfig, ClearLog, LoadDll, Poll, Timeout, Save
<1>2. UNCHANGED <<current, printexp, beside>>
  BY DEF WriteConfig, ClearLog, LoadDll, Poll, Timeout, Save, Goes, Returns, agent
<1>3. QED
  BY <1>1, <1>2
     DEF WriteConfig, ClearLog, LoadDll, Poll, Timeout, Save, Goes, Returns, agent

LEMMA InTurnInit == Init => AnswersInTurn
  BY TypeInit, TypeFacts DEF Init, AnswersInTurn, Injections

LEMMA InTurnStep ==
  ASSUME TypeInv, OrderInv, AnswersInTurn, [Next]_vars
  PROVE  AnswersInTurn'
<1>a. verdict \in [Injections -> {"none", "yes", "no"}] /\ Injections \subseteq Int
  BY TypeFacts DEF TypeInv, TypeOK
<1>1. CASE Begin
  BY <1>1, <1>a, BeginActs DEF AnswersInTurn
<1>2. CASE WriteConfig \/ ClearLog \/ LoadDll \/ Poll \/ Timeout \/ Save
  <2>1. /\ current \in Injections /\ step # "idle" /\ UNCHANGED current
        /\ \/ step' # "idle" /\ verdict' = verdict
           \/ step' = "idle" /\ \E a \in {"yes", "no"} :
                 verdict' = [verdict EXCEPT ![current] = a]
    BY <1>2, AgentActs
  <2>2. QED
    BY <1>a, <2>1 DEF AnswersInTurn
<1>3. CASE UNCHANGED agent
  BY <1>3 DEF AnswersInTurn, agent
<1>4. QED
  BY <1>1, <1>2, <1>3, DllActs, DeathActs DEF Next, Agent, vars

\* A job that enters memory does so at the end of the print vector.
LEMMA InMemoryStep ==
  ASSUME TypeInv, OrderInv, [Next]_vars, NEW k \in Injections, ~Met(k),
         InOwnHands(k), HoldsOwn(k), InMemoryIsStored(k)
  PROVE  InMemoryIsStored(k)'
<1>a. Stored(k) => Stored(k)'
  BY StoredStays
<1> DEFINE Somewhere == ~NotIn(k, prints)
                        \/ \E m \in Injections : Holding(m) /\ ~NotIn(k, thread[m].seen)
<1>b. Somewhere => Stored(k)
  BY DEF InMemoryIsStored
<1>c. SUFFICES ASSUME Somewhere', ~torn', ~Stored(k) PROVE Stored(k)'
  BY <1>a DEF InMemoryIsStored, Stored
<1>d. NotIn(k, prints) /\ \A m \in Injections : Holding(m) => NotIn(k, thread[m].seen)
  BY <1>b, <1>c
<1>e. ~torn
  BY <1>c, TornStays
<1>1. CASE Agent \/ Save \/ UNCHANGED vars
  <2>1. UNCHANGED prints /\ \A m \in Injections : Holding(m)' => Holding(m) /\ thread'[m] = thread[m]
    BY <1>1, TypeFacts DEF Agent, Begin, WriteConfig, ClearLog, LoadDll, Poll, Timeout, Save, vars,
                printexp, vector, Holding, At, Threads
  <2>2. QED
    BY <1>c, <1>d, <2>1 DEF NotIn
<1>2. CASE PrintExpDies
  <2>1. Len(prints') = 0 /\ \A m \in Injections : ~Holding(m)'
    BY <1>2, DeathActs DEF Holding, At
  <2>2. QED
    BY <1>c, <2>1 DEF NotIn
<1>3. ASSUME NEW m \in Injections, Dll(m) PROVE Stored(k)'
  <2>1. \A l \in Injections : l # m => thread'[l] = thread[l]
    BY <1>3, DllActs
  <2>2. CASE Reads(m) \/ Adds(m) \/ Fails(m) \/ Writes(m) \/ Moved(m)
    <3>1. UNCHANGED prints /\ ~Holding(m)'
      BY <2>2 DEF Reads, Adds, Fails, Writes, Moved, Holding, At
    <3>2. QED
      BY <1>c, <1>d, <2>1, <3>1 DEF Holding, At, NotIn
  <2>3. CASE Copies(m)
    <3>1. UNCHANGED prints
      BY <2>3 DEF Copies
    <3>2. NotIn(k, thread'[m].seen)
      BY <1>d, <2>3, PrefixIs DEF Copies, NotIn, TypeInv
    <3>3. QED
      BY <1>c, <1>d, <2>1, <3>1, <3>2 DEF Holding, At, NotIn
  <2>4. ASSUME NEW slot \in 0 .. Len(prints), NEW task \in Injections, Stores(m, slot, task)
        PROVE  task = k
    <3>1. /\ prints'[slot + 1] = task
          /\ \A i \in 1 .. Len(prints) : i # slot + 1 => prints'[i] = prints[i]
          /\ \A i \in 1 .. Len(prints') : i # slot + 1 => i \in 1 .. Len(prints)
      BY <2>4, PutStores DEF Stores, TypeInv, TypeOK
    <3>2. ~Holding(m)'
      BY <2>4 DEF Stores, Holding, At
    <3>3. task # k => NotIn(k, prints')
      BY <1>d, <3>1 DEF NotIn
    <3>4. QED
      BY <1>c, <1>d, <2>1, <3>2, <3>3 DEF Holding, At, NotIn
  <2>5. CASE At(m, "storing") /\ thread[m].array = array
             /\ Stores(m, Len(thread[m].seen), thread[m].task)
    <3>1. thread[m].task = k
      BY <2>4, <2>5, HeldIsThere DEF Holding
    <3>2. m = k
      BY <2>5, <3>1 DEF InOwnHands, Holding
    <3>3. Len(thread[k].seen) = end
      BY <1>e, <2>5, <3>2, PrefixIs DEF HoldsOwn, Holding, TypeInv
    <3>4. QED
      BY <1>3, <1>e, <2>5, <3>1, <3>2, <3>3, OwnIsStored
  <2>6. CASE At(m, "loading") /\ Stores(m, end, thread[m].path)
    <3>1. thread[m].path = k
      BY <2>4, <2>6, HeldIsThere DEF At
    <3>2. m = k
      BY <3>1 DEF InOwnHands
    <3>3. QED
      BY <1>3, <1>e, <2>6, <3>1, <3>2, OwnIsStored
  <2>7. CASE Moves(m)
    <3>1. Holding(m) /\ ~Holding(m)'
      BY <2>7 DEF Moves, Holding, At
    <3>2. thread[m].seen \in Seq(Injections) /\ thread[m].task \in Injections
      BY <3>1, HeldIsThere
    <3>3. thread[m].task # k => NotIn(k, prints')
      BY <1>d, <2>7, <3>1, <3>2, AppendProperties DEF Moves, NotIn
    <3>4. thread[m].task = k
      BY <1>c, <1>d, <2>1, <3>1, <3>3 DEF Holding, At, NotIn
    <3>5. m = k
      BY <3>1, <3>4 DEF InOwnHands
    <3>6. QED
      BY <1>3, <1>e, <2>7, <3>5, OwnIsStored
  <2>8. ~Tears(m)
    BY <1>c DEF Tears
  <2>9. QED
    BY <1>3, <2>2, <2>3, <2>5, <2>6, <2>7, <2>8, DllCases
<1>4. QED
  BY <1>1, <1>2, <1>3 DEF Next

LEMMA AnswerIsOverStep ==
  ASSUME TypeInv, OrderInv, [Next]_vars, NEW k \in Injections, ~Met(k), AnswerIsOver(k)
  PROVE  AnswerIsOver(k)'
<1>a. verdict \in [Injections -> {"none", "yes", "no"}]
  BY DEF TypeInv, TypeOK
<1>1. CASE Begin
  <2>1. verdict'[k] = "yes" => verdict[k] = "yes"
    BY <1>1, <1>a, BeginActs
  <2>2. UNCHANGED thread /\ step' \in {"idle", "writing"}
    BY <1>1, BeginActs
  <2>3. QED
    BY <2>1, <2>2 DEF AnswerIsOver, Succeeds, At
<1>2. CASE WriteConfig \/ ClearLog \/ Poll \/ Timeout \/ Save
  <2>1. /\ UNCHANGED <<current, thread>>
        /\ step' = "loading" => log' = "none"
        /\ step' = "polling" => step = "polling" /\ UNCHANGED log
        /\ step' = "saving" => step = "polling" /\ log # "none"
    BY <1>2 DEF WriteConfig, ClearLog, Cleared, Poll, Timeout, Save, Goes, Returns, agent, files
  <2>2. verdict'[k] = "yes" => verdict[k] = "yes" \/ (current = k /\ step = "saving")
    BY <1>2, <1>a, AgentActs
  <2>3. QED
    BY <2>1, <2>2 DEF AnswerIsOver, Succeeds, At
<1>3. CASE LoadDll
  <2>1. /\ UNCHANGED <<current, log>> /\ step = "loading" /\ step' \in {"polling", "idle"}
        /\ k # current => thread'[k] = thread[k]
        /\ thread[current] = NoThread
    BY <1>3, TypeFacts DEF LoadDll, Goes, Returns, OrderInv, ThreadsAreLoaded, files
  <2>2. verdict'[k] = "yes" => verdict[k] = "yes"
    BY <1>3, <1>a, <2>1, AgentActs
  <2>3. ~At(current, "ended")
    BY <2>1 DEF At, NoThread, Thread
  <2>4. QED
    BY <2>1, <2>2, <2>3 DEF AnswerIsOver, Succeeds, At
<1>4. CASE PrintExpDies
  <2>1. UNCHANGED <<agent, files>> /\ (k \notin Alive => thread'[k] = thread[k])
    BY <1>4, DeathActs
  <2>2. QED
    BY <2>1 DEF AnswerIsOver, Succeeds, At, Alive, agent, files
<1>5. ASSUME NEW m \in Injections, Dll(m) PROVE AnswerIsOver(k)'
  <2>1. /\ UNCHANGED agent /\ m \in Alive
        /\ \A l \in Injections : l # m => thread'[l] = thread[l]
    BY <1>5, DllActs
  <2>2. CASE m # k
    <3>1. current # k
      BY <2>1, <2>2, Alone
    <3>2. QED
      BY <2>1, <2>2, <3>1 DEF AnswerIsOver, Succeeds, At, agent
  <2>3. CASE m = k
    <3>1. ~At(k, "ended")
      BY <2>1, <2>3 DEF At, Alive
    <3>2. UNCHANGED log \/ thread'[k].step = "ended"
      BY <1>5, <2>3, DllCases
         DEF Reads, Adds, Copies, Fails, Stores, Writes, Tears, Moves, Moved
    <3>3. QED
      BY <2>1, <3>1, <3>2 DEF AnswerIsOver, Succeeds, At, agent
  <2>4. QED
    BY <2>2, <2>3
<1>6. CASE UNCHANGED vars
  BY <1>6 DEF vars, agent, files, AnswerIsOver, Succeeds, At
<1>7. QED
  BY <1>1, <1>2, <1>3, <1>4, <1>5, <1>6 DEF Next, Agent

LEMMA AloneIsOverInit == Init => AloneIsOver
<1> SUFFICES ASSUME Init PROVE AloneIsOver
  OBVIOUS
<1>1. \A k \in Injections : thread[k].step = "none" /\ verdict[k] = "none" /\ k # 0
  BY DEF Init, NoThread, Thread, Injections
<1>2. current = 0 /\ Len(prints) = 0
  BY DEF Init
<1>3. QED
  BY <1>1, <1>2 DEF AloneIsOver, HoldsOwn, Holding, InMemoryIsStored, NotIn, AnswerIsOver, At,
                   Succeeds

LEMMA AloneIsOverStep ==
  ASSUME TypeInv, OrderInv, OwnJobOnce, AloneIsOver, [Next]_vars
  PROVE  AloneIsOver'
<1> SUFFICES ASSUME NEW k \in Injections, ~Met(k)'
             PROVE  HoldsOwn(k)' /\ InMemoryIsStored(k)' /\ AnswerIsOver(k)'
  BY DEF AloneIsOver
<1>1. ~Met(k)
  BY MetStays
<1>2. InOwnHands(k) /\ HoldsOwn(k) /\ InMemoryIsStored(k) /\ AnswerIsOver(k)
  BY <1>1 DEF OwnJobOnce, AloneIsOver
<1>3. QED
  BY <1>1, <1>2, HoldsOwnStep, InMemoryStep, AnswerIsOverStep

\* A thread tears the vector only together with another one: its own array is the
\* vector's, and nobody else moves it.
LEMMA TearsInCompany ==
  ASSUME TypeInv, OrderInv, NEW m \in Injections, Dll(m), HoldsOwn(m), ~torn, torn'
  PROVE  Met(m)
<1> SUFFICES ASSUME ~Met(m) PROVE FALSE
  OBVIOUS
<1>1. m \in Alive
  BY DllActs
<1>2. Moving \subseteq {m}
  BY <1>1, Alone DEF Moving, Alive, At
<1>3. CASE CopyTask(m)
  BY <1>2, <1>3 DEF CopyTask, Moving, At
<1>4. CASE StoreTask(m)
  BY <1>2, <1>4 DEF StoreTask, Moving, HoldsOwn, Holding, At
<1>5. CASE MoveVector(m)
  BY <1>2, <1>5 DEF MoveVector, Moving, At
<1>6. CASE ReadConfig(m) \/ AddFile(m) \/ LoadClone(m) \/ VectorMoved(m) \/ WriteLog(m)
  BY <1>6 DEF ReadConfig, AddFile, LoadClone, VectorMoved, WriteLog, printexp, vector
<1>7. QED
  BY <1>3, <1>4, <1>5, <1>6 DEF Dll

LEMMA TornStep ==
  ASSUME TypeInv, OrderInv, AloneIsOver, TornInCompany, [Next]_vars
  PROVE  TornInCompany'
<1> SUFFICES ASSUME torn' PROVE \E k \in Injections : Met(k)'
  BY DEF TornInCompany
<1>1. CASE torn
  BY <1>1, MetStays DEF TornInCompany
<1>2. CASE ~torn
  <2>1. ~(Agent \/ Save \/ UNCHANGED vars)
    BY <1>2 DEF Agent, Begin, WriteConfig, ClearLog, LoadDll, Poll, Timeout, Save, vars, printexp, vector
  <2>2. PICK m \in Injections : Dll(m)
    BY <1>2, <2>1, DeathActs DEF Next
  <2>3. Met(m)
    BY <1>2, <2>2, TearsInCompany DEF AloneIsOver
  <2>4. QED
    BY <2>3, MetStays
<1>3. QED
  BY <1>1, <1>2

\* The state of the contract.
Entered == Queued \cup gone
MetOnes == {k \in Injections : Met(k)}
abstract == <<current, verdict, Entered, MetOnes, torn>>

\* The next injection meets the threads that live: those met before, or their
\* injections were answered "no".
LEMMA BeginImplements ==
  ASSUME ContractInv, Begin
  PROVE  Contract!Ask(current + 1)
<1>a. TypeInv /\ OrderInv /\ AnswersInTurn /\ AloneIsOver
  BY DEF ContractInv
<1>b. /\ verdict \in [Injections -> {"none", "yes", "no"}] /\ Injections \subseteq Int
      /\ current \in Nat /\ MaxInj \in Nat
      /\ beside \in [Injections -> SUBSET Injections]
      /\ \A k \in Injections : k >= 1
  BY <1>a, TypeFacts DEF TypeInv, TypeOK, Injections
<1>c. /\ step = "idle" /\ current + 1 \in Injections
      /\ current' = current + 1 /\ step' \in {"idle", "writing"}
      /\ step' = "idle" => verdict' = [verdict EXCEPT ![current + 1] = "no"]
      /\ step' = "writing" => verdict' = verdict
      /\ beside' = [beside EXCEPT ![current + 1] = Alive] /\ beside[current + 1] = {}
      /\ thread[current + 1] = NoThread /\ UNCHANGED <<prints, end, gone, torn>>
  BY <1>a, BeginActs DEF printexp, vector
<1>1. current # 0 => verdict[current] # "none"
  BY <1>a, <1>b, <1>c, TypeFacts DEF AnswersInTurn
<1>2. Alive \subseteq MetOnes \cup {k \in 1 .. current : verdict[k] = "no"}
  <2> SUFFICES ASSUME NEW k \in Alive, ~Met(k) PROVE k \in 1 .. current /\ verdict[k] = "no"
    BY DEF MetOnes, Alive
  <2>1. k \in Injections /\ k = current
    BY <1>a, Alone DEF Alive
  <2>2. ~Succeeds(k)
    BY <1>a, <2>1 DEF AloneIsOver, AnswerIsOver, At, Alive
  <2>3. verdict[k] # "none" /\ verdict[k] # "yes"
    BY <1>1, <1>b, <2>1, <2>2 DEF Succeeds
  <2>4. QED
    BY <1>b, <2>1, <2>3
<1>3. MetOnes' = MetOnes \/ (Alive # {} /\ MetOnes' = MetOnes \cup Alive \cup {current + 1})
  <2>1. \A k \in Injections :
           Met(k)' <=> Met(k) \/ k \in Alive \/ (k = current + 1 /\ Alive # {})
    BY <1>b, <1>c DEF Met
  <2>2. QED
    BY <1>c, <2>1 DEF MetOnes, Alive
<1>4. Entered' = Entered
  BY <1>c DEF Entered, Queued
<1>5. MetOnes' = MetOnes
      \/ \E others \in (SUBSET Contract!Loose) \ {{}} :
            MetOnes' = MetOnes \cup others \cup {current + 1}
  BY <1>2, <1>3 DEF Contract!Loose, MetOnes
<1>6. QED
  BY <1>1, <1>4, <1>5, <1>c DEF Contract!Ask, Entered, MetOnes

\* A success is answered only when PrintExp has the job.
LEMMA AgentImplements ==
  ASSUME ContractInv, WriteConfig \/ ClearLog \/ LoadDll \/ Poll \/ Timeout \/ Save
  PROVE  Contract!Next \/ UNCHANGED abstract
<1>a. TypeInv /\ AnswersInTurn /\ DoneMeansStored
  BY DEF ContractInv
<1>1. /\ current \in Injections /\ step # "idle"
      /\ UNCHANGED <<current, prints, end, gone, torn, beside>>
      /\ \/ step' # "idle" /\ verdict' = verdict
         \/ step' = "idle" /\ \E a \in {"yes", "no"} :
               verdict' = [verdict EXCEPT ![current] = a] /\ (a = "yes" => step = "saving")
  BY <1>a, AgentActs DEF printexp, vector
<1>2. Entered' = Entered /\ MetOnes' = MetOnes
  BY <1>1 DEF Entered, MetOnes, Queued, Met
<1>3. ASSUME NEW a \in {"yes", "no"}, verdict' = [verdict EXCEPT ![current] = a],
             a = "yes" => step = "saving"
      PROVE  Contract!Next
  <2>1. current # 0 /\ verdict[current] = "none"
    BY <1>1, <1>a, TypeFacts DEF AnswersInTurn
  <2>2. a = "yes" => current \in Entered \cup MetOnes \cup Misleading \/ torn
    <3>1. a = "yes" /\ ~Met(current) /\ current \notin Misleading => Stored(current)
      BY <1>1, <1>3, <1>a DEF DoneMeansStored, SaysStored, Succeeds
    <3>2. Stored(current) => current \in Entered \/ torn
      BY DEF Stored, Entered, Queued
    <3>3. QED
      BY <1>1, <3>1, <3>2 DEF MetOnes
  <2>3. Contract!Answer(a)
    BY <1>1, <1>2, <1>3, <2>1, <2>2 DEF Contract!Answer, Entered, MetOnes
  <2>4. QED
    BY <2>3 DEF Contract!Next
<1>4. QED
  BY <1>1, <1>2, <1>3 DEF abstract

LEMMA StoredIsEntered ==
  ASSUME NEW k \in Injections, Stored(k), ~torn
  PROVE  k \in Entered
  BY DEF Stored, Entered, Queued

\* A thread that met no other stores its own job, and its injection is the last;
\* any other store leaves the jobs that met nobody as they are.
LEMMA DllImplements ==
  ASSUME ContractInv, [Next]_vars, NEW m \in Injections, Dll(m)
  PROVE  Contract!Next \/ UNCHANGED abstract
<1>a. TypeInv /\ OrderInv /\ OwnJobOnce /\ AloneIsOver /\ TornInCompany
  BY DEF ContractInv
<1>b. /\ UNCHANGED <<agent, gone, beside>> /\ m \in Alive
  BY <1>a, DllActs
<1>c. UNCHANGED <<current, verdict>> /\ MetOnes' = MetOnes
  BY <1>b DEF agent, MetOnes, Met
<1>1. CASE torn'
  <2>1. MetOnes # {}
    BY <1>a, <1>c, <1>1, TornStep DEF TornInCompany, MetOnes
  <2>2. Contract!Tear
    BY <1>1, <1>c, <2>1 DEF Contract!Tear, MetOnes
  <2>3. QED
    BY <2>2 DEF Contract!Next
<1>2. SUFFICES ASSUME ~torn, ~torn', UNCHANGED torn PROVE Contract!Next \/ UNCHANGED abstract
  <2>1. CASE ~torn'
    <3>1. ~torn
      BY <1>a, <2>1, TornStays
    <3>2. torn \in BOOLEAN /\ torn' \in BOOLEAN
      BY <1>a, TypeStep DEF TypeInv, TypeOK
    <3>3. torn' = torn
      BY <2>1, <3>1, <3>2, Zenon
    <3>4. QED
      BY <1>2, <2>1, <3>1, <3>3
  <2>2. QED
    BY <1>1, <2>1
<1>3. ASSUME NEW k \in Injections, k \in Entered PROVE InMemoryIsStored(k) => Stored(k)
  <2>1. CASE k \in gone
    BY <2>1 DEF Stored
  <2>2. CASE k \in Queued
    <3>1. end \in Nat /\ Len(prints) \in Nat /\ end <= Len(prints)
      BY <1>a DEF TypeInv, TypeOK
    <3>2. QED
      BY <2>2, <3>1 DEF InMemoryIsStored, Queued, NotIn
  <2>3. QED
    BY <1>3, <2>1, <2>2 DEF Entered
<1>4. ASSUME Stores(m, end, m) \/ Moves(m), ~Met(m) PROVE Contract!Next
  <2>1. m = current
    BY <1>a, <1>b, <1>4, Alone
  <2>2. Entered' = Entered \cup {current}
    BY <1>2, <1>4, <1>a, <1>b, <2>1, OwnIsStored DEF Entered, AloneIsOver
  <2>3. verdict[current] # "yes" /\ current # 0
    BY <1>4, <1>a, <1>b, <2>1, TypeFacts DEF AloneIsOver, AnswerIsOver, Succeeds, At, Alive
  <2>4. Contract!Enter
    BY <1>2, <1>c, <2>2, <2>3 DEF Contract!Enter, Entered, MetOnes
  <2>5. QED
    BY <2>4 DEF Contract!Next
<1>5. ASSUME \A k \in Injections :
                ~Met(k) => \A i \in 1 .. Len(prints') :
                              prints'[i] = k
                                 => \/ ~NotIn(k, prints)
                                    \/ \E l \in Injections : Holding(l) /\ ~NotIn(k, thread[l].seen)
      PROVE  Contract!Next
  <2>1. Entered \subseteq Injections /\ Entered' \subseteq Injections
    <3>1. TypeOK /\ TypeOK'
      BY <1>a, TypeStep DEF TypeInv
    <3>2. prints \in Seq(Injections) /\ end \in 0 .. Len(prints) /\ gone \subseteq Injections
      BY <3>1 DEF TypeOK
    <3>3. prints' \in Seq(Injections) /\ end' \in 0 .. Len(prints') /\ gone' \subseteq Injections
      BY <3>1 DEF TypeOK
    <3>4. /\ \A i \in 1 .. end : prints[i] \in Injections
          /\ \A i \in 1 .. end' : prints'[i] \in Injections
      BY <3>2, <3>3
    <3>5. QED
      BY <3>2, <3>3, <3>4 DEF Entered, Queued
  <2>2. ASSUME NEW k \in Injections, ~Met(k) PROVE k \in Entered' <=> k \in Entered
    <3>1. InMemoryIsStored(k)
      BY <1>a, <2>2 DEF AloneIsOver
    <3>2. ASSUME k \in Entered' PROVE Stored(k)
      <4>1. CASE k \in gone
        BY <4>1 DEF Stored
      <4>2. CASE k \notin gone
        <5>1. PICK i \in 1 .. end' : prints'[i] = k
          BY <1>b, <3>2, <4>2 DEF Entered, Queued
        <5>2. i \in 1 .. Len(prints')
          <6>1. end' \in 0 .. Len(prints')
            BY <1>a, TypeStep DEF TypeInv, TypeOK
          <6>2. QED
            BY <6>1
        <5>3. QED
          BY <1>5, <2>2, <3>1, <5>1, <5>2 DEF InMemoryIsStored
      <4>3. QED
        BY <4>1, <4>2
    <3>3. Stored(k) => k \in Entered
      BY <1>2, StoredIsEntered
    <3>4. Stored(k) => k \in Entered'
      <4>1. Stored(k) => Stored(k)'
        BY <1>a, StoredStays
      <4>2. QED
        BY <1>2, <4>1 DEF Stored, Entered, Queued
    <3>5. QED
      BY <1>3, <3>1, <3>2, <3>3, <3>4
  <2>3. Entered' \ MetOnes = Entered \ MetOnes
    BY <2>1, <2>2 DEF MetOnes
  <2>4. Contract!Mix
    BY <1>2, <1>c, <2>3 DEF Contract!Mix, Entered, MetOnes
  <2>5. QED
    BY <2>4 DEF Contract!Next
<1>6. ASSUME NEW slot \in 0 .. Len(prints), NEW task \in Injections, Stores(m, slot, task),
             ~Met(task) => task = m /\ slot = end
      PROVE  Contract!Next
  <2>1. CASE ~Met(task)
    BY <1>4, <1>6, <2>1
  <2>2. CASE Met(task)
    <3>1. /\ prints'[slot + 1] = task
          /\ \A i \in 1 .. Len(prints) : i # slot + 1 => prints'[i] = prints[i]
          /\ \A i \in 1 .. Len(prints') : i # slot + 1 => i \in 1 .. Len(prints)
      BY <1>6, <1>a, PutStores DEF Stores, TypeInv, TypeOK
    <3>2. QED
      BY <1>5, <2>2, <3>1 DEF NotIn
  <2>3. QED
    BY <2>1, <2>2
<1>7. CASE At(m, "storing") /\ thread[m].array = array
           /\ Stores(m, Len(thread[m].seen), thread[m].task)
  <2>1. Len(thread[m].seen) \in 0 .. Len(prints) /\ thread[m].task \in Injections
    BY <1>7, <1>a, HeldIsThere DEF Holding
  <2>2. ~Met(thread[m].task) => thread[m].task = m
    BY <1>7, <1>a, <2>1 DEF OwnJobOnce, InOwnHands, Holding
  <2>3. ~Met(m) => Len(thread[m].seen) = end
    BY <1>2, <1>7, <1>a, PrefixIs DEF AloneIsOver, HoldsOwn, Holding, TypeInv
  <2>4. QED
    BY <1>6, <1>7, <2>1, <2>2, <2>3
<1>8. CASE At(m, "loading") /\ Stores(m, end, thread[m].path)
  <2>1. end \in 0 .. Len(prints) /\ thread[m].path \in Injections
    BY <1>8, <1>a, HeldIsThere DEF At
  <2>2. ~Met(thread[m].path) => thread[m].path = m
    BY <1>a, <2>1 DEF OwnJobOnce, InOwnHands
  <2>3. QED
    BY <1>6, <1>8, <2>1, <2>2
<1>9. CASE Moves(m)
  <2>1. CASE ~Met(m)
    BY <1>4, <1>9, <2>1
  <2>2. CASE Met(m)
    <3>1. Holding(m)
      BY <1>9 DEF Moves, Holding
    <3>2. thread[m].seen \in Seq(Injections) /\ thread[m].task \in Injections
      BY <1>a, <3>1, HeldIsThere
    <3>3. ~Met(thread[m].task) => thread[m].task = m
      BY <1>a, <3>1, <3>2 DEF OwnJobOnce, InOwnHands
    <3>4. \A i \in 1 .. Len(prints') :
             prints'[i] # thread[m].task => i \in 1 .. Len(thread[m].seen) /\ prints'[i] = thread[m].seen[i]
      BY <1>9, <3>2, AppendProperties DEF Moves
    <3>5. QED
      BY <1>5, <2>2, <3>1, <3>3, <3>4 DEF NotIn
  <2>3. QED
    BY <2>1, <2>2
<1>10. CASE UNCHANGED <<prints, end>>
  BY <1>2, <1>c, <1>10, <1>b DEF abstract, Entered, Queued
<1>11. QED
  BY <1>2, <1>7, <1>8, <1>9, <1>10, <1>a, DllCases DEF Reads, Adds, Copies, Fails, Writes, Tears, Moved

\* Every behaviour of agent, threads and PrintExp keeps the contract that the
\* dispatch loop relies on.
THEOREM ContractImplemented == Spec => ImplementsContract
<1>1. Init => ContractInv
  BY TypeInit, OrderInit, OwnJobInit, DoneInit, InTurnInit, AloneIsOverInit
     DEF ContractInv, TornInCompany, Init
<1>2. ContractInv /\ [Next]_vars => ContractInv'
  BY TypeStep, OrderStep, OwnJobStep, DoneStep, InTurnStep, AloneIsOverStep, TornStep
     DEF ContractInv
<1>3. Init => Contract!Init
  <2> SUFFICES ASSUME Init PROVE Contract!Init
    OBVIOUS
  <2>1. Queued \cup gone = {} /\ current = 0
    BY DEF Init, Queued
  <2>2. {k \in Injections : Met(k)} = {}
    BY DEF Init, Met
  <2>3. QED
    BY <2>1, <2>2 DEF Init, Contract!Init
<1>4. ContractInv /\ [Next]_vars => [Contract!Next]_abstract
  <2> SUFFICES ASSUME ContractInv, [Next]_vars PROVE Contract!Next \/ UNCHANGED abstract
    OBVIOUS
  <2>1. CASE Begin
    <3>1. Contract!Ask(current + 1) /\ current + 1 \in Injections
      BY <2>1, BeginImplements, BeginActs DEF ContractInv
    <3>2. QED
      BY <3>1 DEF Contract!Next
  <2>2. CASE WriteConfig \/ ClearLog \/ LoadDll \/ Poll \/ Timeout \/ Save
    BY <2>2, AgentImplements
  <2>3. ASSUME NEW m \in Injections, Dll(m) PROVE Contract!Next \/ UNCHANGED abstract
    BY <2>3, DllImplements
  <2>4. CASE PrintExpDies
    <3>1. UNCHANGED <<agent, beside, torn>> /\ end' = 0 /\ gone' = gone \cup Queued
      BY <2>4, DeathActs DEF ContractInv
    <3>2. QED
      BY <3>1 DEF abstract, Entered, MetOnes, Queued, Met, agent
  <2>5. CASE UNCHANGED vars
    BY <2>5 DEF vars, agent, printexp, vector, abstract, Entered, MetOnes, Queued, Met
  <2>6. QED
    BY <2>1, <2>2, <2>3, <2>4, <2>5 DEF Next, Agent
<1>5. QED
  BY <1>1, <1>2, <1>3, <1>4, PTL
     DEF Spec, ImplementsContract, Contract!Spec, abstract, Entered, MetOnes

-----------------------------------------------------------------------------
(***************************************************************************)
(* What follows from the contract alone, whoever implements it.            *)
(***************************************************************************)

Contracted == Contract!Spec

\* The answers of a contract that is kept: later injections have none, a "yes"
\* is true, and injections meet, and tear the vector, only after one was answered
\* "no".
KeptInv ==
    /\ current \in 0 .. MaxInj /\ verdict \in [Injections -> {"none", "yes", "no"}]
    /\ \A k \in Injections : k > current => verdict[k] = "none"
    /\ \A k \in Injections : verdict[k] = "yes" => k \in Entered \cup MetOnes \cup Misleading \/ torn
    /\ torn => MetOnes # {}
    /\ MetOnes # {} => \E k \in Injections : verdict[k] = "no"

LEMMA LooseMeansNo ==
  ASSUME KeptInv, Contract!Loose # {}
  PROVE  \E k \in Injections : verdict[k] = "no"
<1>1. CASE MetOnes # {}
  BY <1>1 DEF KeptInv
<1>2. CASE MetOnes = {}
  <2>1. PICK k \in 1 .. current : verdict[k] = "no"
    BY <1>2 DEF Contract!Loose, MetOnes
  <2>2. k \in Injections
    BY BoundAssumption DEF KeptInv, Injections
  <2>3. QED
    BY <2>1, <2>2
<1>3. QED
  BY <1>1, <1>2

LEMMA KeptInit == Contract!Init => KeptInv
<1> SUFFICES ASSUME Contract!Init PROVE KeptInv
  OBVIOUS
<1>1. /\ current = 0 /\ verdict = [k \in Injections |-> "none"]
      /\ Entered = {} /\ MetOnes = {} /\ ~torn
  BY DEF Contract!Init, Entered, MetOnes
<1>2. QED
  BY <1>1, BoundAssumption DEF KeptInv

\* A step of the contract, over the state of the injections.
LEMMA KeptStep ==
  ASSUME KeptInv, Contract!Next
  PROVE  /\ KeptInv'
         /\ \A k \in Injections :
               verdict[k] = "yes" /\ k \notin MetOnes
                  => k \notin MetOnes' /\ (k \in Entered => k \in Entered' \/ torn')
<1>a. /\ current \in 0 .. MaxInj /\ MaxInj \in Nat /\ Injections = 1 .. MaxInj
      /\ verdict \in [Injections -> {"none", "yes", "no"}]
      /\ \A k \in Injections : k > current => verdict[k] = "none"
      /\ \A k \in Injections : verdict[k] = "yes" => k \in Entered \cup MetOnes \cup Misleading \/ torn
      /\ torn => MetOnes # {}
      /\ MetOnes # {} => \E k \in Injections : verdict[k] = "no"
  BY BoundAssumption DEF KeptInv, Injections
<1>1. ASSUME NEW j \in Injections, Contract!Ask(j)
      PROVE  /\ KeptInv'
             /\ \A k \in Injections :
                   verdict[k] = "yes" /\ k \notin MetOnes
                      => k \notin MetOnes' /\ (k \in Entered => k \in Entered' \/ torn')
  <2>1. /\ j = current + 1 /\ current' = j /\ Entered' = Entered /\ UNCHANGED torn
        /\ verdict' \in {verdict, [verdict EXCEPT ![j] = "no"]}
        /\ \/ MetOnes' = MetOnes
           \/ \E others \in (SUBSET Contract!Loose) \ {{}} :
                 MetOnes' = MetOnes \cup others \cup {j}
    BY <1>1 DEF Contract!Ask, Entered, MetOnes
  <2>2. verdict[j] = "none"
    BY <1>a, <2>1
  <2>3. \A k \in Injections :
           /\ k # j => verdict'[k] = verdict[k]
           /\ verdict[k] = "no" => verdict'[k] = "no"
           /\ verdict'[k] = "yes" => verdict[k] = "yes"
    BY <1>a, <2>1
  <2>4. \A k \in Injections : verdict[k] = "yes" /\ k \notin MetOnes => k \notin Contract!Loose
    BY DEF Contract!Loose, MetOnes
  <2>5. MetOnes \subseteq MetOnes'
    BY <2>1
  <2>6. MetOnes' # {} => \E k \in Injections : verdict'[k] = "no"
    <3>1. MetOnes' # {} => MetOnes # {} \/ Contract!Loose # {}
      BY <2>1
    <3>2. QED
      BY <1>a, <2>3, <3>1, LooseMeansNo
  <2>7. KeptInv'
    BY <1>a, <2>1, <2>3, <2>5, <2>6 DEF KeptInv
  <2>8. QED
    BY <2>1, <2>2, <2>4, <2>7
<1>2. CASE Contract!Enter
  <2>1. /\ UNCHANGED <<current, verdict>> /\ MetOnes' = MetOnes /\ UNCHANGED torn
        /\ Entered' = Entered \cup {current}
    BY <1>2 DEF Contract!Enter, Entered, MetOnes
  <2>2. QED
    BY <1>a, <2>1 DEF KeptInv
<1>3. CASE Contract!Mix
  <2>1. /\ UNCHANGED <<current, verdict>> /\ MetOnes' = MetOnes /\ UNCHANGED torn
        /\ Entered' \ MetOnes = Entered \ MetOnes
    BY <1>3 DEF Contract!Mix, Entered, MetOnes
  <2>2. \A k \in Injections : k \notin MetOnes => (k \in Entered <=> k \in Entered')
    BY <2>1
  <2>3. QED
    BY <1>a, <2>1, <2>2 DEF KeptInv
<1>4. ASSUME NEW a \in {"yes", "no"}, Contract!Answer(a)
      PROVE  /\ KeptInv'
             /\ \A k \in Injections :
                   verdict[k] = "yes" /\ k \notin MetOnes
                      => k \notin MetOnes' /\ (k \in Entered => k \in Entered' \/ torn')
  <2>1. /\ current # 0 /\ verdict[current] = "none" /\ UNCHANGED current
        /\ MetOnes' = MetOnes /\ Entered' = Entered /\ UNCHANGED torn
        /\ verdict' = [verdict EXCEPT ![current] = a]
        /\ a = "yes" => current \in Entered \cup MetOnes \cup Misleading \/ torn
    BY <1>4 DEF Contract!Answer, Entered, MetOnes
  <2>2. \A k \in Injections : verdict'[k] = IF k = current THEN a ELSE verdict[k]
    BY <1>a, <2>1
  <2>3. KeptInv'
    BY <1>a, <2>1, <2>2 DEF KeptInv
  <2>4. QED
    BY <2>1, <2>3
<1>5. CASE Contract!Tear
  <2>1. /\ UNCHANGED <<current, verdict>> /\ MetOnes' = MetOnes /\ torn' /\ MetOnes # {}
    BY <1>5 DEF Contract!Tear, MetOnes
  <2>2. QED
    BY <1>a, <2>1 DEF KeptInv
<1>6. QED
  BY <1>1, <1>2, <1>3, <1>4, <1>5 DEF Contract!Next

\* Until the first "no" the dispatch loop may take a "yes" at its word: PrintExp
\* has every job that was answered so, whatever the threads of the DLL do.
THEOREM SuccessUntilNo == Spec => []SuccessStands
<1>1. Contracted => []KeptInv
  <2>1. KeptInv /\ UNCHANGED abstract => KeptInv'
    BY DEF abstract, KeptInv
  <2>2. QED
    BY <2>1, KeptInit, KeptStep, PTL DEF Contracted, Contract!Spec, abstract, Entered, MetOnes
<1>2. KeptInv => SuccessStands
  BY DEF KeptInv, SuccessStands, Entered
<1>3. QED
  BY <1>1, <1>2, ContractImplemented, PTL DEF Contracted, ImplementsContract

\* A success is not taken back: a thread that was believed has ended, so that
\* nobody meets it afterwards, and no one else touches its job, unless two later
\* threads tear the vector.
THEOREM SuccessStays == Spec => SuccessIsFinal
<1> DEFINE Final == \A k \in Injections :
                       verdict[k] = "yes" /\ k \notin MetOnes
                          => k \notin MetOnes' /\ (k \in Entered => k \in Entered' \/ torn')
<1>1. Contracted => [][Final]_abstract
  <2>1. KeptInv /\ UNCHANGED abstract => KeptInv'
    BY DEF abstract, KeptInv
  <2>2. KeptInv /\ Contract!Next => KeptInv' /\ Final
    BY KeptStep
  <2> HIDE DEF Final
  <2>3. QED
    BY <2>1, <2>2, KeptInit, PTL DEF Contracted, Contract!Spec, abstract, Entered, MetOnes
<1>2. [Final]_abstract
        => [\A k \in Injections :
              verdict[k] = "yes" /\ ~Met(k)
                 => /\ ~Met(k)'
                    /\ k \in Queued \cup gone => (k \in Queued \cup gone)' \/ torn']_vars
  BY DEF abstract, Entered, MetOnes
<1> HIDE DEF Final
<1>3. QED
  BY <1>1, <1>2, ContractImplemented, PTL DEF Contracted, ImplementsContract, SuccessIsFinal
=============================================================================
