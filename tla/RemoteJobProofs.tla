-------------------------- MODULE RemoteJobProofs --------------------------
(***************************************************************************)
(* The safety of the job launchers for every set of launchers, any number   *)
(* of preemptions and of failing calls and every retry limit.               *)
(***************************************************************************)
EXTENDS RemoteJob, TLAPS

(* A launcher that waits for a job it is given creates none. *)
Waiting == launcher.waits => Len(jobs) = 1 /\ pc # "create"

(* What the container knows of its job and what gcp_resources says agree. *)
Recording ==
  /\ pc \in {"check", "create"} => job = 0
  /\ launcher.records /\ pc \in {"polling", "outputs"} => file = job
  /\ launcher.adopts =>
       /\ pc \in {"create", "created"} => file \notin JobIds
       /\ pc = "opened" => file = Empty
       /\ file \in JobIds => job \in {0, file}

(* A job that is neither lost nor recorded is the one the container is about to record, or  *)
(* was when SIGTERM ended it.                                                               *)
OneKnown ==
  launcher.adopts =>
    \A i \in JobIds \ lost : file = i \/ (job = i /\ pc \in {"created", "opened", "done"})

Good(j) ==
  \/ j.state = "succeeded"
  \/ j.state = "cancelled" /\ launcher.judge \in {"simulation", "rlestimator"}

Judged == (pc = "outputs" => Good(jobs[job])) /\ (exit = "success" => job # 0)

IInv == TypeOK /\ Waiting /\ Recording /\ OneKnown /\ Judged /\ SuccessIsReal

Jobs == [state : JobStates, rules : RuleStates, stop : BOOLEAN]

-----------------------------------------------------------------------------
LEMMA LauncherType ==
  TypeOK => /\ launcher \in LauncherRecords
            /\ launcher.adopts => launcher.records /\ ~launcher.waits
BY LaunchersAssumption DEF TypeOK

LEMMA JobType ==
  ASSUME TypeOK, NEW j \in JobIds
  PROVE  jobs[j] \in Jobs /\ Len(jobs) \in Nat
<1>1. ASSUME NEW S, NEW s \in Seq(S), NEW i \in 1..Len(s) PROVE s[i] \in S /\ Len(s) \in Nat
  OBVIOUS
<1> QED
  BY <1>1 DEF TypeOK, JobIds, Jobs

(* Only a job in one of these states ends the wait with success. *)
LEMMA GoodVerdict ==
  ASSUME TypeOK, NEW j \in Jobs, Verdict(j) = "good"
  PROVE  Good(j)
BY LauncherType DEF LauncherRecords, Verdict, VertexVerdict, OperationVerdict, DataflowVerdict,
   StatusVerdict, SimulationVerdict, TrainingVerdict, RLEstimatorVerdict, DebugRules, Good, Jobs,
   JobStates, RuleStates

(* Appending a job, and replacing one. *)
LEMMA AppendJob ==
  ASSUME TypeOK
  PROVE  LET js == Append(jobs, Running) IN
           /\ js \in Seq(Jobs) /\ Len(js) = Len(jobs) + 1 /\ Len(jobs) \in Nat
           /\ \A i \in JobIds : js[i] = jobs[i]
<1>1. Running \in Jobs
  BY DEF Running, Jobs, JobStates, RuleStates
<1>2. ASSUME NEW S, NEW s \in Seq(S), NEW e \in S
      PROVE  /\ Append(s, e) \in Seq(S) /\ Len(Append(s, e)) = Len(s) + 1 /\ Len(s) \in Nat
             /\ \A i \in 1..Len(s) : Append(s, e)[i] = s[i]
  OBVIOUS
<1> QED
  BY <1>1, <1>2 DEF TypeOK, JobIds, Jobs

LEMMA ReplaceJob ==
  ASSUME TypeOK, NEW j \in JobIds, NEW e \in Jobs
  PROVE  LET js == [jobs EXCEPT ![j] = e] IN
           /\ js \in Seq(Jobs) /\ Len(js) = Len(jobs)
           /\ js[j] = e /\ \A i \in JobIds \ {j} : js[i] = jobs[i]
<1>1. ASSUME NEW S, NEW s \in Seq(S), NEW x \in S, NEW i \in 1..Len(s)
      PROVE  LET t == [s EXCEPT ![i] = x] IN
               /\ t \in Seq(S) /\ Len(t) = Len(s)
               /\ t[i] = x /\ \A n \in (1..Len(s)) \ {i} : t[n] = s[n]
  OBVIOUS
<1> QED
  BY <1>1 DEF TypeOK, JobIds, Jobs

LEMMA InitIInv == Init => IInv
<1> SUFFICES ASSUME Init PROVE IInv
  OBVIOUS
<1>1. /\ launcher \in LauncherRecords /\ launcher.adopts \in BOOLEAN /\ launcher.waits \in BOOLEAN
      /\ launcher.waits => ~launcher.adopts
  BY LaunchersAssumption DEF Init, LauncherRecords
<1>2. /\ jobs \in Seq(Jobs)
      /\ launcher.waits => Len(jobs) = 1
      /\ ~launcher.waits => Len(jobs) = 0
      /\ Len(jobs) \in {0, 1}
  <2>1. <<Running>> \in Seq(Jobs) /\ Len(<<Running>>) = 1
    BY DEF Running, Jobs, JobStates, RuleStates
  <2> QED
    BY <1>1, <2>1 DEF Init
<1>3. named \in BOOLEAN
  BY DEF Init
<1>4. /\ launcher \in Launchers /\ named \in BOOLEAN
      /\ jobs \in Seq([state : JobStates, rules : RuleStates, stop : BOOLEAN])
      /\ seen \in BOOLEAN
  BY <1>2, <1>3 DEF Init, Jobs
<1>5. /\ file \in {Absent, Empty} \cup JobIds /\ job \in 0..Len(jobs) /\ lost \subseteq JobIds
      /\ retry \in 0..RetryLimit /\ restarts \in 0..MaxRestarts /\ faults \in 0..MaxFaults
  BY <1>2, BoundsAssumption DEF Init
<1>6. TypeOK
  BY <1>4, <1>5 DEF TypeOK, Init
<1> QED
  BY <1>1, <1>2, <1>6
     DEF IInv, Init, Waiting, Recording, OneKnown, Judged, SuccessIsReal, JobIds

-----------------------------------------------------------------------------
(* The steps that leave the jobs alone *)

LEMMA CheckIfJobExistsIInv ==
  ASSUME IInv, CheckIfJobExists
  PROVE  IInv'
<1> USE DEF IInv
<1>1. /\ launcher \in LauncherRecords /\ (launcher.adopts => launcher.records /\ ~launcher.waits)
      /\ Len(jobs) \in Nat
  BY LauncherType DEF TypeOK
<1>2. /\ pc = "check" /\ job = 0 /\ exit = "none"
      /\ UNCHANGED <<launcher, named, restarts, sig, retry, seen, file, jobs, faults, lost>>
      /\ job' = IF launcher.waits THEN 1 ELSE IF Adopted THEN file ELSE 0
      /\ pc' = IF job' = 0 THEN "create" ELSE IF launcher.waits THEN "created"
               ELSE IF launcher.polls THEN "polling" ELSE "done"
      /\ exit' = IF pc' = "done" THEN "success" ELSE "none"
      /\ JobIds' = JobIds
  BY DEF CheckIfJobExists, At, Recording, JobIds, TypeOK
<1>3. CASE launcher.waits
  <2>1. job' = 1 /\ Len(jobs) = 1 /\ pc' = "created" /\ exit' = "none"
    BY <1>2, <1>3 DEF Waiting
  <2>2. TypeOK'
    BY <1>2, <2>1 DEF TypeOK, JobIds
  <2> QED
    BY <1>1, <1>2, <1>3, <2>1, <2>2 DEF Waiting, Recording, OneKnown, Judged, SuccessIsReal
<1>4. CASE ~launcher.waits
  <2>2. TypeOK'
    BY <1>1, <1>2, <1>4 DEF TypeOK, Adopted, JobIds
  <2>3. Recording' /\ SuccessIsReal'
    BY <1>1, <1>2, <1>4 DEF Recording, SuccessIsReal, Adopted, JobIds, TypeOK, Absent, Empty
  <2> QED
    BY <1>1, <1>2, <1>4, <2>2, <2>3 DEF Waiting, OneKnown, Judged
<1> QED
  BY <1>1, <1>3, <1>4 DEF LauncherRecords

LEMMA CreateJobIInv ==
  ASSUME IInv, CreateJob
  PROVE  IInv'
<1> USE DEF IInv
<1>1. /\ launcher \in LauncherRecords /\ Len(jobs) \in Nat
  BY LauncherType DEF TypeOK
<1>2. /\ pc = "create" /\ pc' = "created" /\ jobs' = Append(jobs, Running) /\ job' = Len(jobs')
      /\ UNCHANGED <<launcher, named, restarts, sig, retry, seen, exit, file, faults, lost>>
  BY DEF CreateJob, At
<1>3. /\ jobs' \in Seq(Jobs) /\ Len(jobs') = Len(jobs) + 1 /\ job' = Len(jobs) + 1
      /\ JobIds' = JobIds \cup {Len(jobs) + 1}
      /\ ~launcher.waits
  BY <1>1, <1>2, AppendJob DEF JobIds, Waiting
<1>4. jobs' \in Seq([state : JobStates, rules : RuleStates, stop : BOOLEAN])
  BY <1>3 DEF Jobs
<1>5. TypeOK'
  BY <1>1, <1>2, <1>3, <1>4 DEF TypeOK
<1>6. launcher.adopts => file \in {Absent, Empty} /\ file \notin JobIds
  BY <1>2, <1>3 DEF Recording, TypeOK
<1>7. Recording'
  BY <1>1, <1>2, <1>3, <1>6 DEF Recording, Absent, Empty
<1>8. OneKnown'
  BY <1>2, <1>3, <1>6 DEF OneKnown
<1> QED
  BY <1>2, <1>3, <1>5, <1>7, <1>8 DEF Waiting, Judged, SuccessIsReal, TypeOK

LEMMA CreateAnswerLostIInv ==
  ASSUME IInv, CreateAnswerLost
  PROVE  IInv'
<1> USE DEF IInv
<1>1. /\ launcher \in LauncherRecords /\ Len(jobs) \in Nat
  BY LauncherType DEF TypeOK
<1>2. /\ pc = "create" /\ pc' = "done" /\ jobs' = Append(jobs, Running) /\ lost' = lost \cup {Len(jobs')}
      /\ exit' = "failure" /\ faults' \in 0..MaxFaults
      /\ UNCHANGED <<launcher, named, restarts, sig, retry, seen, job, file>>
  BY BoundsAssumption DEF CreateAnswerLost, At, Ended, Fault, TypeOK
<1>3. /\ jobs' \in Seq(Jobs) /\ Len(jobs') = Len(jobs) + 1 /\ lost' = lost \cup {Len(jobs) + 1}
      /\ JobIds' = JobIds \cup {Len(jobs) + 1}
      /\ ~launcher.waits
  BY <1>1, <1>2, AppendJob DEF JobIds, Waiting
<1>4. jobs' \in Seq([state : JobStates, rules : RuleStates, stop : BOOLEAN])
  BY <1>3 DEF Jobs
<1>5. TypeOK'
  BY <1>1, <1>2, <1>3, <1>4 DEF TypeOK
<1>6. Recording'
  BY <1>1, <1>2, <1>3 DEF Recording
<1>7. OneKnown'
  BY <1>2, <1>3 DEF OneKnown
<1> QED
  BY <1>2, <1>3, <1>5, <1>6, <1>7 DEF Waiting, Judged, SuccessIsReal

LEMMA OpenFileIInv ==
  ASSUME IInv, OpenFile
  PROVE  IInv'
<1> USE DEF IInv
<1>1. /\ launcher \in LauncherRecords /\ Len(jobs) \in Nat
  BY LauncherType DEF TypeOK
<1>2. /\ pc = "created" /\ pc' = "opened" /\ file' = Empty /\ JobIds' = JobIds
      /\ UNCHANGED <<launcher, named, restarts, sig, retry, seen, exit, job, jobs, faults, lost>>
  BY DEF OpenFile, At, JobIds
<1>3. TypeOK'
  BY <1>2 DEF TypeOK
<1>4. Recording'
  BY <1>1, <1>2 DEF Recording, Empty, JobIds
<1>5. OneKnown'
  BY <1>1, <1>2 DEF OneKnown, Recording
<1> QED
  BY <1>2, <1>3, <1>4, <1>5 DEF Waiting, Judged, SuccessIsReal, TypeOK

LEMMA WriteFileIInv ==
  ASSUME IInv, WriteFile
  PROVE  IInv'
<1> USE DEF IInv
<1>1. /\ launcher \in LauncherRecords /\ Len(jobs) \in Nat
  BY LauncherType DEF TypeOK
<1>2. /\ pc = "opened" /\ file' = job /\ JobIds' = JobIds
      /\ pc' = IF launcher.polls THEN "polling" ELSE "done"
      /\ exit' = IF launcher.polls THEN "none" ELSE "success"
      /\ UNCHANGED <<launcher, named, restarts, sig, retry, seen, job, jobs, faults, lost>>
  BY DEF WriteFile, At, JobIds
<1>3. job \in JobIds
  BY <1>1, <1>2 DEF TypeOK, JobIds
<1>4. TypeOK'
  BY <1>2, <1>3 DEF TypeOK
<1>5. Recording'
  BY <1>1, <1>2 DEF Recording
<1>6. OneKnown'
  BY <1>1, <1>2 DEF OneKnown, Recording, Empty, JobIds
<1> QED
  BY <1>1, <1>2, <1>3, <1>4, <1>5, <1>6 DEF Waiting, Judged, SuccessIsReal, JobIds

LEMMA AfterSubmitIInv ==
  ASSUME IInv, AfterSubmit
  PROVE  IInv'
<1> USE DEF IInv
<1>1. /\ launcher \in LauncherRecords /\ (launcher.adopts => launcher.records)
  BY LauncherType
<1>2. /\ pc = "created" /\ pc' = "polling" /\ ~launcher.records /\ JobIds' = JobIds
      /\ UNCHANGED <<launcher, named, restarts, sig, retry, seen, exit, file, job, jobs, faults, lost>>
  BY DEF AfterSubmit, At, JobIds
<1>3. TypeOK'
  BY <1>2 DEF TypeOK
<1> QED
  BY <1>1, <1>2, <1>3 DEF Waiting, Recording, OneKnown, Judged, SuccessIsReal, TypeOK

LEMMA PollAnsweredIInv ==
  ASSUME IInv, PollAnswered
  PROVE  IInv'
<1> USE DEF IInv
<1> DEFINE v == Verdict(jobs[job])
<1>1. launcher \in LauncherRecords /\ (launcher.adopts => launcher.records)
  BY LauncherType
<1>2. /\ pc = "polling" /\ JobIds' = JobIds /\ retry' = 0 /\ seen' = TRUE
      /\ pc' = CASE v = "poll" -> "polling"
                 [] v = "good" /\ launcher.outputs -> "outputs"
                 [] OTHER -> "done"
      /\ exit' = IF pc' # "done" THEN "none" ELSE IF v = "good" THEN "success" ELSE "failure"
      /\ UNCHANGED <<launcher, named, restarts, sig, file, job, jobs, faults, lost>>
  BY DEF PollAnswered, At, JobIds
<1>3. job \in JobIds /\ (v = "good" => Good(jobs[job]))
  <2>1. job \in JobIds
    BY <1>2 DEF TypeOK, JobIds
  <2> QED
    BY <2>1, JobType, GoodVerdict
<1> HIDE DEF v
<1>4. /\ pc' \in {"polling", "outputs", "done"} /\ (pc' = "outputs" => v = "good")
      /\ exit' \in {"none", "success", "failure"} /\ (pc' = "done" <=> exit' # "none")
      /\ exit' = "success" => v = "good"
  <2>1. CASE v = "poll"
    BY <1>2, <2>1
  <2>2. CASE v = "good" /\ launcher.outputs
    <3>1. pc' = "outputs"
      BY <1>2, <2>2
    <3>2. exit' = "none"
      BY <1>2, <3>1
    <3> QED
      BY <2>2, <3>1, <3>2
  <2>3. CASE v # "poll" /\ ~(v = "good" /\ launcher.outputs)
    <3>1. pc' = "done"
      BY <1>2, <2>3
    <3>2. exit' = IF v = "good" THEN "success" ELSE "failure"
      BY <1>2, <3>1
    <3> QED
      BY <3>1, <3>2
  <2> QED
    BY <2>1, <2>2, <2>3
<1>5. TypeOK'
  BY <1>2, <1>4, BoundsAssumption DEF TypeOK
<1>6. Recording' /\ OneKnown' /\ Waiting'
  BY <1>1, <1>2, <1>4 DEF Recording, OneKnown, Waiting
<1>7. Judged' /\ SuccessIsReal'
  BY <1>2, <1>3, <1>4 DEF Judged, SuccessIsReal, Good, Recording, TypeOK
<1> QED
  BY <1>5, <1>6, <1>7

LEMMA WriteOutputsIInv ==
  ASSUME IInv, WriteOutputs
  PROVE  IInv'
<1> USE DEF IInv
<1>1. /\ pc = "outputs" /\ pc' = "done" /\ exit' = "success" /\ JobIds' = JobIds
      /\ UNCHANGED <<launcher, named, restarts, sig, retry, seen, file, job, jobs, faults, lost>>
  BY DEF WriteOutputs, At, Ended, JobIds
<1>2. TypeOK'
  BY <1>1 DEF TypeOK
<1> QED
  BY <1>1, <1>2 DEF Waiting, Recording, OneKnown, Judged, SuccessIsReal, Good, TypeOK

(* A job that has ended keeps its state. *)
JobsKept ==
  /\ jobs' \in Seq(Jobs) /\ Len(jobs') = Len(jobs)
  /\ \A i \in JobIds : jobs[i].state # "running" => jobs'[i].state = jobs[i].state

(* What ends the container without success, and what only a job, a retry or a signal changes. *)
LEMMA QuietIInv ==
  ASSUME IInv, JobsKept,
         UNCHANGED <<launcher, named, file, job, restarts, lost>>,
         \/ pc' = "done" /\ exit' \in {"failure", "cancelled", "killed"}
         \/ UNCHANGED <<pc, exit>>,
         retry' \in 0..RetryLimit, seen' \in BOOLEAN, faults' \in 0..MaxFaults,
         sig' \in {"no", "check", "create", "created", "opened", "polling", "outputs", "unheard"}
  PROVE  IInv'
<1> USE DEF IInv
<1>1. JobIds' = JobIds /\ Len(jobs') = Len(jobs) /\ Len(jobs) \in Nat
  BY DEF JobsKept, JobIds, TypeOK
<1>2. jobs' \in Seq([state : JobStates, rules : RuleStates, stop : BOOLEAN])
  BY DEF JobsKept, Jobs
<1>3. TypeOK'
  BY <1>1, <1>2 DEF TypeOK
<1>4. Waiting' /\ Recording' /\ OneKnown'
  BY <1>1 DEF Waiting, Recording, OneKnown
<1>5. pc = "outputs" => job \in JobIds
  BY <1>1 DEF TypeOK, JobIds
<1>6. ASSUME job \in JobIds, Good(jobs[job])
      PROVE  jobs'[job].state = jobs[job].state
  BY <1>6 DEF JobsKept, Good
<1>7. Judged'
  BY <1>5, <1>6 DEF Judged, Good
<1>8. SuccessIsReal'
  <2>1. exit = "success" => job \in JobIds
    BY <1>1 DEF Judged, TypeOK, JobIds
  <2> QED
    BY <1>6, <2>1 DEF SuccessIsReal, Good
<1> QED
  BY <1>3, <1>4, <1>7, <1>8

LEMMA StopJob ==
  ASSUME TypeOK, NEW j \in JobIds, jobs' = Stopped(j)
  PROVE  JobsKept
<1>1. [jobs[j] EXCEPT !.stop = TRUE] \in Jobs /\ [jobs[j] EXCEPT !.stop = TRUE].state = jobs[j].state
  BY JobType DEF Jobs
<1>2. jobs' = [jobs EXCEPT ![j] = [jobs[j] EXCEPT !.stop = TRUE]]
  BY DEF Stopped
<1> QED
  BY <1>1, <1>2, ReplaceJob DEF JobsKept

LEMMA SameJobs == TypeOK /\ UNCHANGED jobs => JobsKept
BY DEF TypeOK, JobsKept, Jobs, JobIds

LEMMA FailingIInv ==
  ASSUME IInv, AdoptFails \/ CreateFails \/ OutputsFail
  PROVE  IInv'
<1>1. TypeOK /\ JobsKept
  BY SameJobs DEF IInv, AdoptFails, CreateFails, OutputsFail
<1> QED
  BY <1>1, QuietIInv, BoundsAssumption
     DEF AdoptFails, CreateFails, OutputsFail, At, Ended, Fault, TypeOK

LEMMA PollLostIInv ==
  ASSUME IInv, PollLost
  PROVE  IInv'
<1>1. TypeOK /\ JobsKept
  BY SameJobs DEF IInv, PollLost
<1>2. retry' \in 0..RetryLimit /\ seen' \in BOOLEAN /\ faults' \in 0..MaxFaults
  BY <1>1, BoundsAssumption DEF PollLost, CountsOn, container, Ended, Fault, TypeOK
<1> QED
  BY <1>1, <1>2, QuietIInv DEF PollLost, CountsOn, container, At, Ended, TypeOK

LEMMA SigtermIInv ==
  ASSUME IInv, Sigterm
  PROVE  IInv'
<1>1. TypeOK
  BY DEF IInv
<1>2. /\ retry' \in 0..RetryLimit /\ seen' \in BOOLEAN /\ faults' \in 0..MaxFaults
      /\ UNCHANGED <<launcher, named, file, job, restarts, lost>>
      /\ \/ pc' = "done" /\ exit' \in {"failure", "cancelled", "killed"}
         \/ UNCHANGED <<pc, exit>>
  BY <1>1, BoundsAssumption
     DEF TypeOK, Sigterm, SigtermWhilePolling, CancelFails, CancelUnheard, CountsOn, SigtermUnhandled, SigtermStopsJob, StopFails,
         GraceEnds, Signal, Ended, Killed, Fault, container
<1>3. sig' \in {"no", "check", "create", "created", "opened", "polling", "outputs", "unheard"}
  BY <1>1
     DEF TypeOK, Sigterm, SigtermWhilePolling, CancelFails, CancelUnheard, CountsOn, SigtermUnhandled, SigtermStopsJob, StopFails,
         GraceEnds, Signal
<1>4. JobsKept
  <2>1. CASE SigtermWhilePolling
    <3>1. job \in JobIds /\ jobs' = Stopped(job)
      BY <1>1, <2>1 DEF SigtermWhilePolling, Signal, TypeOK, JobIds
    <3> QED
      BY <1>1, <3>1, StopJob
  <2>2. CASE SigtermStopsJob
    <3>1. jobs' = jobs \/ (Target # 0 /\ jobs' = Stopped(Target))
      BY <2>2 DEF SigtermStopsJob, Stoppable
    <3>2. Target # 0 => Target \in JobIds
      BY <1>1 DEF Target, TypeOK, JobIds
    <3> QED
      BY <1>1, <3>1, <3>2, StopJob, SameJobs
  <2>3. CASE UNCHANGED jobs
    BY <1>1, <2>3, SameJobs
  <2> QED
    BY <2>1, <2>2, <2>3 DEF Sigterm, CancelFails, CancelUnheard, SigtermUnhandled, StopFails, GraceEnds
<1> QED
  BY <1>2, <1>3, <1>4, QuietIInv

LEMMA PreemptedIInv ==
  ASSUME IInv, Preempted
  PROVE  IInv'
<1> USE DEF IInv
<1>1. /\ launcher \in LauncherRecords /\ Len(jobs) \in Nat
  BY LauncherType DEF TypeOK
<1>2. /\ pc # "done" /\ pc' = "check" /\ job' = 0 /\ retry' = 0 /\ seen' = FALSE /\ JobIds' = JobIds
      /\ restarts' = restarts + 1 /\ restarts < MaxRestarts
      /\ lost' = lost \cup IF pc \in {"created", "opened"} /\ ~launcher.waits THEN {job} ELSE {}
      /\ UNCHANGED <<launcher, named, file, jobs, exit, faults, sig>>
  BY DEF Preempted, JobIds
<1>3. lost' \subseteq JobIds
  BY <1>1, <1>2 DEF TypeOK, JobIds
<1>4. TypeOK'
  <2>1. exit = "none" /\ restarts' \in 0..MaxRestarts /\ retry' \in 0..RetryLimit /\ job' \in 0..Len(jobs)
    BY <1>1, <1>2, BoundsAssumption DEF TypeOK
  <2> QED
    BY <1>2, <1>3, <2>1 DEF TypeOK
<1>5. OneKnown'
  BY <1>2, LauncherType DEF OneKnown
<1> QED
  BY <1>2, <1>4, <1>5 DEF Waiting, Recording, Judged, SuccessIsReal, TypeOK

LEMMA ServiceIInv ==
  ASSUME IInv, NEW j \in JobIds, JobEnds(j) \/ DebugRulesEnd(j)
  PROVE  IInv'
<1>1. TypeOK /\ jobs[j] \in Jobs
  BY JobType DEF IInv
<1>2. Ends \subseteq JobStates
  BY DEF Ends, JobStates
<1>3. JobsKept
  <2>1. CASE JobEnds(j)
    <3>1. PICK s \in Ends : jobs' = [jobs EXCEPT ![j] = [jobs[j] EXCEPT !.state = s]]
      BY <2>1 DEF JobEnds
    <3>2. [jobs[j] EXCEPT !.state = s] \in Jobs
      BY <1>1, <1>2 DEF Jobs
    <3> QED
      BY <1>1, <2>1, <3>1, <3>2, ReplaceJob DEF JobsKept, JobEnds
  <2>2. CASE DebugRulesEnd(j)
    <3>1. PICK r \in {"completed", "errored"} : jobs' = [jobs EXCEPT ![j] = [jobs[j] EXCEPT !.rules = r]]
      BY <2>2 DEF DebugRulesEnd
    <3>2. [jobs[j] EXCEPT !.rules = r] \in Jobs /\ [jobs[j] EXCEPT !.rules = r].state = jobs[j].state
      BY <1>1 DEF Jobs, RuleStates
    <3> QED
      BY <1>1, <3>1, <3>2, ReplaceJob DEF JobsKept
  <2> QED
    BY <2>1, <2>2
<1> QED
  BY <1>1, <1>3, QuietIInv DEF JobEnds, DebugRulesEnd, Service, container, TypeOK

LEMMA StepIInv == IInv /\ [Next]_vars => IInv'
<1> SUFFICES ASSUME IInv, [Next]_vars PROVE IInv'
  OBVIOUS
<1>1. CASE UNCHANGED vars
  <2>1. TypeOK /\ JobsKept
    BY <1>1, SameJobs DEF vars, IInv
  <2> QED
    BY <1>1, <2>1, QuietIInv DEF vars, container, TypeOK
<1>2. CASE Progress
  BY <1>2, CheckIfJobExistsIInv, CreateJobIInv, OpenFileIInv, WriteFileIInv, AfterSubmitIInv,
     PollAnsweredIInv, WriteOutputsIInv DEF Progress
<1>3. CASE Failing
  BY <1>3, FailingIInv, CreateAnswerLostIInv, PollLostIInv DEF Failing
<1> QED
  BY <1>1, <1>2, <1>3, SigtermIInv, PreemptedIInv, ServiceIInv DEF Next

LEMMA Invariance == Spec => []IInv
BY InitIInv, StepIInv, PTL DEF Spec

(* Every variable keeps its type, for every set of launchers and every bound. *)
THEOREM TypeCorrect == Spec => []TypeOK
<1>1. IInv => TypeOK
  BY DEF IInv
<1> QED
  BY <1>1, Invariance, PTL

(* However often the container of a launcher that adopts its job is preempted, and whichever *)
(* calls fail, at most one job exists that the container got to record.                      *)
THEOREM AtMostOneJob == Spec => []NoSecondJob
<1>1. IInv => NoSecondJob
  <2> SUFFICES ASSUME IInv, launcher.adopts, NEW i \in JobIds \ lost, NEW j \in JobIds \ lost
               PROVE  i = j
    BY DEF NoSecondJob
  <2>1. launcher \in LauncherRecords /\ Len(jobs) \in Nat
    BY LauncherType DEF IInv, TypeOK
  <2> QED
    BY <2>1 DEF IInv, OneKnown, Recording, JobIds
<1> QED
  BY <1>1, Invariance, PTL

(* A container that reports success waited for a job that succeeded, and gcp_resources       *)
(* names that job.                                                                           *)
THEOREM SuccessMeansSuccess == Spec => []SuccessIsReal
<1>1. IInv => SuccessIsReal
  BY DEF IInv
<1> QED
  BY <1>1, Invariance, PTL

(* Once gcp_resources names a job, a launcher with check_if_job_exists neither truncates nor *)
(* rewrites it, in whatever step its container is preempted, told to terminate or fails.     *)
THEOREM FileIsNeverRewritten == Spec => RecordedJobIsKept
<1>1. IInv /\ [Next]_vars => [launcher.adopts /\ file \in JobIds => file' = file]_vars
  <2> SUFFICES ASSUME IInv, Next, launcher.adopts, file \in JobIds PROVE file' = file
    OBVIOUS
  <2> USE DEF IInv
  <2>1. launcher \in LauncherRecords /\ launcher.records /\ Len(jobs) \in Nat
    BY LauncherType DEF TypeOK
  <2>2. pc \notin {"created", "opened"}
    BY <2>1 DEF Recording, Empty, JobIds
  <2> QED
    BY <2>2
       DEF Next, Progress, Failing, Sigterm, CheckIfJobExists, CreateJob, OpenFile, WriteFile, AfterSubmit,
           PollAnswered, WriteOutputs, AdoptFails, CreateFails, CreateAnswerLost, PollLost, OutputsFail,
           SigtermWhilePolling, CancelFails, CancelUnheard, SigtermUnhandled, SigtermStopsJob, StopFails,
           GraceEnds, Preempted, JobEnds, DebugRulesEnd, Service, Signal, At
<1> QED
  BY <1>1, Invariance, PTL DEF Spec, RecordedJobIsKept
-----------------------------------------------------------------------------
(* SIGTERM *)

(* A name is given to one job only. *)
OneName == named => Len(jobs) <= 1

(* Told to terminate once its job exists, the container keeps to that job. *)
Told == sig = "polling" \/ (sig = "created" /\ launcher.known)
Attended ==
  Told => /\ pc \in {"created", "opened", "polling", "outputs", "done"} /\ job \in JobIds
          /\ exit # "failure" /\ jobs[job].state = "running" => jobs[job].stop

(* A request to stop a job is never taken back, and a job that has ended stays so. *)
StopsKept ==
  /\ JobIds' = JobIds
  /\ \A i \in JobIds : jobs'[i].state = "running" => jobs[i].state = "running"
  /\ \A i \in JobIds : jobs[i].stop => jobs'[i].stop

LEMMA QuietAttended ==
  ASSUME IInv, Attended, StopsKept, UNCHANGED <<launcher, job, sig>>,
         pc \in {"created", "opened", "polling", "outputs", "done"}
           => pc' \in {"created", "opened", "polling", "outputs", "done"},
         exit = "failure" => exit' = "failure"
  PROVE  Attended'
BY DEF Attended, Told, StopsKept

LEMMA StopOne ==
  ASSUME TypeOK, NEW j \in JobIds, jobs' = Stopped(j)
  PROVE  StopsKept /\ jobs'[j].stop
<1>1. /\ [jobs[j] EXCEPT !.stop = TRUE] \in Jobs /\ [jobs[j] EXCEPT !.stop = TRUE].stop
      /\ [jobs[j] EXCEPT !.stop = TRUE].state = jobs[j].state
  BY JobType DEF Jobs
<1>2. jobs' = [jobs EXCEPT ![j] = [jobs[j] EXCEPT !.stop = TRUE]]
  BY DEF Stopped
<1> QED
  BY <1>1, <1>2, ReplaceJob DEF StopsKept, JobIds

LEMMA InitAttended == Init => OneName /\ Attended
<1>1. launcher \in LauncherRecords /\ Init => Len(jobs) \in {0, 1}
  BY DEF Init
<1> QED
  BY <1>1, LaunchersAssumption DEF Init, OneName, Attended, Told

LEMMA StepOneName == IInv /\ OneName /\ [Next]_vars => OneName'
<1> SUFFICES ASSUME IInv, OneName, [Next]_vars PROVE OneName'
  OBVIOUS
<1>1. TypeOK /\ Len(jobs) \in Nat
  BY DEF IInv, TypeOK
<1>2. CASE CreateJob \/ CreateAnswerLost
  <2>1. named => Len(jobs) = 0
    BY <1>1, <1>2 DEF CreateJob, CreateAnswerLost, NameTaken, TypeOK
  <2>2. named' = named /\ Len(jobs') = Len(jobs) + 1
    BY <1>1, <1>2, AppendJob DEF CreateJob, CreateAnswerLost, At
  <2> QED
    BY <2>1, <2>2 DEF OneName
<1>3. CASE Sigterm
  <2>1. named' = named
    BY <1>3 DEF Sigterm, SigtermWhilePolling, CancelFails, CancelUnheard, CountsOn, SigtermUnhandled, SigtermStopsJob, StopFails,
                GraceEnds, Signal
  <2>2. Len(jobs') = Len(jobs)
    BY <1>1, <1>3
       DEF Sigterm, SigtermWhilePolling, CancelFails, CancelUnheard, CountsOn, SigtermUnhandled, SigtermStopsJob, StopFails,
           GraceEnds, Stopped, TypeOK
  <2> QED
    BY <2>1, <2>2 DEF OneName
<1>4. CASE \E j \in JobIds : JobEnds(j) \/ DebugRulesEnd(j)
  <2>1. named' = named /\ Len(jobs') = Len(jobs)
    BY <1>1, <1>4 DEF JobEnds, DebugRulesEnd, Service, TypeOK
  <2> QED
    BY <2>1 DEF OneName
<1>5. CASE UNCHANGED <<named, jobs>>
  BY <1>5 DEF OneName
<1> QED
  BY <1>2, <1>3, <1>4, <1>5
     DEF Next, vars, Progress, Failing, CheckIfJobExists, OpenFile, WriteFile, AfterSubmit, PollAnswered,
         WriteOutputs, AdoptFails, CreateFails, PollLost, OutputsFail, Preempted, At

LEMMA SigtermAttended ==
  ASSUME IInv, OneName, Attended, Sigterm
  PROVE  Attended'
<1>1. TypeOK /\ Len(jobs) \in Nat /\ (launcher.known => launcher.cloud = "aws")
  BY LaunchersAssumption DEF IInv, TypeOK
<1>2. pc \in {"created", "polling"} => job \in JobIds /\ exit = "none"
  BY <1>1 DEF TypeOK, JobIds
<1>3. CASE SigtermWhilePolling
  <2>1. /\ job \in JobIds /\ jobs' = Stopped(job) /\ job' = job /\ pc' = "done"
    BY <1>2, <1>3 DEF SigtermWhilePolling, Signal, Ended
  <2> QED
    BY <1>1, <2>1, StopOne DEF Attended, StopsKept
<1>4. CASE SigtermStopsJob /\ Stoppable
  <2>1. /\ jobs' = Stopped(Target) /\ UNCHANGED <<launcher, pc, job, exit>> /\ sig' = pc
        /\ launcher.cloud = "aws"
    BY <1>4 DEF SigtermStopsJob, Signal, container
  <2>2. ASSUME Told' PROVE job = Target /\ job \in JobIds /\ pc \in {"created", "polling"}
    <3>1. pc \in {"created", "polling"} /\ (pc = "created" => launcher.known)
      BY <2>1, <2>2 DEF Told
    <3>2. named => job = 1
      BY <1>1, <1>2, <3>1 DEF OneName, JobIds
    <3> QED
      BY <1>2, <3>1, <3>2 DEF Target
  <2> QED
    BY <1>1, <2>1, <2>2, StopOne DEF Attended, StopsKept
<1>5. CASE CancelFails \/ StopFails \/ (SigtermStopsJob /\ ~Stoppable)
  BY <1>2, <1>5
     DEF CancelFails, StopFails, SigtermStopsJob, Signal, Ended, Attended, Told, JobIds
<1>8. CASE CancelUnheard
  BY <1>8 DEF CancelUnheard, Attended, Told
<1>6. CASE SigtermUnhandled
  BY <1>1, <1>6 DEF SigtermUnhandled, Signal, Attended, Told
<1>7. CASE GraceEnds
  <2>1. StopsKept /\ exit # "failure"
    BY <1>1, <1>7 DEF GraceEnds, StopsKept, JobIds, TypeOK
  <2> QED
    BY <1>7, <2>1, QuietAttended DEF GraceEnds, Killed
<1> QED
  BY <1>3, <1>4, <1>5, <1>6, <1>7, <1>8 DEF Sigterm

LEMMA ServiceAttended ==
  ASSUME IInv, Attended, NEW j \in JobIds, JobEnds(j) \/ DebugRulesEnd(j)
  PROVE  Attended'
<1>1. TypeOK /\ jobs[j] \in Jobs
  BY JobType DEF IInv
<1>2. PICK e \in Jobs : /\ jobs' = [jobs EXCEPT ![j] = e] /\ e.stop = jobs[j].stop
                        /\ e.state = "running" => jobs[j].state = "running"
  <2>1. CASE JobEnds(j)
    <3>1. PICK s \in Ends : jobs' = [jobs EXCEPT ![j] = [jobs[j] EXCEPT !.state = s]]
      BY <2>1 DEF JobEnds
    <3>2. s \in JobStates \ {"running"}
      BY DEF Ends, JobStates
    <3>3. [jobs[j] EXCEPT !.state = s] \in Jobs /\ [jobs[j] EXCEPT !.state = s].stop = jobs[j].stop
          /\ [jobs[j] EXCEPT !.state = s].state = s
      BY <1>1, <3>2 DEF Jobs
    <3> QED
      BY <3>1, <3>2, <3>3
  <2>2. CASE DebugRulesEnd(j)
    <3>1. PICK r \in {"completed", "errored"} : jobs' = [jobs EXCEPT ![j] = [jobs[j] EXCEPT !.rules = r]]
      BY <2>2 DEF DebugRulesEnd
    <3>2. [jobs[j] EXCEPT !.rules = r] \in Jobs /\ [jobs[j] EXCEPT !.rules = r].state = jobs[j].state
          /\ [jobs[j] EXCEPT !.rules = r].stop = jobs[j].stop
      BY <1>1 DEF Jobs, RuleStates
    <3> QED
      BY <3>1, <3>2
  <2> QED
    BY <2>1, <2>2
<1>3. StopsKept
  <2>1. /\ Len(jobs') = Len(jobs) /\ jobs'[j] = e
        /\ \A i \in JobIds \ {j} : jobs'[i] = jobs[i]
    BY <1>1, <1>2, ReplaceJob
  <2>2. jobs[j].stop => jobs'[j].stop
    BY <1>2, <2>1
  <2> QED
    BY <1>2, <2>1, <2>2 DEF StopsKept, JobIds
<1> QED
  BY <1>3, QuietAttended DEF JobEnds, DebugRulesEnd, Service, container

LEMMA StepAttended == IInv /\ OneName /\ Attended /\ [Next]_vars => Attended'
<1> SUFFICES ASSUME IInv, OneName, Attended, [Next]_vars PROVE Attended'
  OBVIOUS
<1>1. TypeOK
  BY DEF IInv
<1>2. CASE CheckIfJobExists \/ CreateJob \/ AdoptFails \/ CreateFails \/ CreateAnswerLost \/ Preempted
  BY <1>2
     DEF CheckIfJobExists, CreateJob, AdoptFails, CreateFails, CreateAnswerLost, Preempted, At,
         Attended, Told
<1>3. CASE OpenFile \/ WriteFile \/ AfterSubmit \/ PollAnswered \/ WriteOutputs \/ PollLost \/ OutputsFail
           \/ UNCHANGED vars
  <2>1. StopsKept /\ UNCHANGED <<launcher, job, sig>>
    BY <1>3
       DEF OpenFile, WriteFile, AfterSubmit, PollAnswered, WriteOutputs, PollLost, CountsOn, OutputsFail, At, Ended,
           vars, container, StopsKept, JobIds
  <2>2. /\ pc \in {"created", "opened", "polling", "outputs", "done"}
             => pc' \in {"created", "opened", "polling", "outputs", "done"}
        /\ exit = "failure" => exit' = "failure"
    <3>1. CASE PollAnswered
      BY <1>1, <3>1 DEF PollAnswered, At, TypeOK
    <3>2. CASE ~PollAnswered
      BY <1>1, <1>3, <3>2
         DEF OpenFile, WriteFile, AfterSubmit, WriteOutputs, PollLost, CountsOn, OutputsFail, At, Ended, vars,
             container, TypeOK
    <3> QED
      BY <3>1, <3>2
  <2> QED
    BY <2>1, <2>2, QuietAttended
<1> QED
  BY <1>2, <1>3, SigtermAttended, ServiceAttended DEF Next, Progress, Failing

(* Told to terminate while it waits (a SageMaker component: once its job is submitted), a    *)
(* container has asked the service to stop its job unless that request failed, for every     *)
(* launcher and however often it was preempted before.                                       *)
THEOREM TerminationIsPassedOn == Spec => []TerminationReachesTheJob
<1>1. IInv /\ Attended => TerminationReachesTheJob
  BY DEF Attended, Told, TerminationReachesTheJob
<1>2. Spec => [](OneName /\ Attended)
  BY InitAttended, StepOneName, StepAttended, Invariance, PTL DEF Spec
<1> QED
  BY <1>1, <1>2, Invariance, PTL
=============================================================================
