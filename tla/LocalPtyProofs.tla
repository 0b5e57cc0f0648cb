--------------------------- MODULE LocalPtyProofs ---------------------------
(***************************************************************************)
(* What the shutdown of a local session guarantees for every size of the   *)
(* PTY and every number of inputs and chunks: ownership of what it could   *)
(* not join, and one report of every worker that failed.                   *)
(***************************************************************************)
EXTENDS LocalPty, FiniteSetTheorems, TLAPS

Workers == {"reader", "writer"}
Outcome(worker) == IF worker = "reader" THEN reader_result ELSE writer_result
Ended(worker) == IF worker = "reader" THEN rpc = "gone" ELSE wpc = "gone"

(***************************************************************************)
(* A job is given to the reaper at one point of the shutdown each, so it   *)
(* is never given twice.                                                   *)
(***************************************************************************)
OwnInv ==
  /\ jobs \subseteq {"input", "group"}
  /\ "input" \in jobs => main \notin {"loop", "join_input"}
  /\ "group" \in jobs => main \in {"collect", "returned"}
  /\ OwnershipKept

(***************************************************************************)
(* A failure is reported when its outcome was seen by run_input_loop or    *)
(* its worker was joined, whichever is first; while the loop runs nothing  *)
(* is joined, and what was joined has ended.                               *)
(***************************************************************************)
ReportedAs(worker) ==
  IF Outcome(worker) = "err" /\ (worker \in seen \/ worker \notin parts) THEN 1 ELSE 0

OutcomeInv ==
  /\ errors \in [Failures -> Nat]
  /\ rpc \in {"read", "observe", "emit"} => reader_result = "none"
  /\ wpc # "gone" => writer_result = "none"
  /\ main = "loop" => Workers \subseteq parts
  /\ \A worker \in Workers :
       /\ Outcome(worker) \in {"none", "ok", "err"}
       /\ worker \in seen => Outcome(worker) # "none"
       /\ worker \notin parts => Ended(worker)
       /\ errors[worker] = ReportedAs(worker)

-----------------------------------------------------------------------------
(***************************************************************************)
(* The counter of the reaper follows its set of jobs.                      *)
(***************************************************************************)
LEMMA JobsFinite ==
  ASSUME NEW S, S \subseteq {"input", "group"}
  PROVE  IsFiniteSet(S)
<1>1. IsFiniteSet({"input"})
  BY FS_Singleton, Zenon
<1>2. IsFiniteSet({"input"} \cup {"group"})
  BY <1>1, FS_AddElement, Zenon
<1>3. {"input"} \cup {"group"} = {"input", "group"}
  BY Zenon
<1> QED BY <1>2, <1>3, FS_Subset, Zenon

LEMMA EnqueueCounts ==
  ASSUME OwnInv, NEW job \in {"input", "group"}, job \notin jobs, Enqueue(job)
  PROVE  /\ pending' = Cardinality(jobs')
         /\ jobs' = jobs \cup {job}
<1>1. Cardinality(jobs \cup {job}) = Cardinality(jobs) + 1
  BY JobsFinite, FS_AddElement, Zenon DEF OwnInv
<1> QED BY <1>1, Zenon DEF OwnInv, OwnershipKept, Enqueue

(***************************************************************************)
(* A poll of the jobs lets go of what has been joined only.                *)
(***************************************************************************)
LEMMA PollJobsOwns ==
  ASSUME OwnInv, PollJobs, UNCHANGED ipc
  PROVE  /\ jobs' \subseteq jobs
         /\ pending' = Cardinality(jobs')
         /\ "input" \in jobs /\ ipc' = "run" => "input" \in jobs'
         /\ "group" \in jobs /\ parts' # {} => "group" \in jobs'
         /\ "group" \notin jobs => parts' = parts
<1> DEFINE joined == {j \in jobs : \/ j = "input" /\ ipc # "run"
                                   \/ j = "group" /\ parts = Finished}
<1>1. jobs' = jobs \ joined /\ pending' = pending - Cardinality(joined)
  BY Zenon DEF PollJobs
<1>2. Cardinality(jobs \ joined) = Cardinality(jobs) - Cardinality(joined)
  <2>1. jobs \cap joined = joined
    BY Zenon
  <2> QED BY <2>1, JobsFinite, FS_Difference, Zenon DEF OwnInv
<1>3. "group" \in jobs => parts' = parts \ Finished
  BY Zenon DEF PollJobs, PollBefore
<1>4. "group" \notin jobs => parts' = parts
  BY Zenon DEF PollJobs
<1> QED BY <1>1, <1>2, <1>3, <1>4, Zenon DEF OwnInv, OwnershipKept

LEMMA InitOwn == Init => OwnInv
<1> SUFFICES ASSUME Init PROVE OwnInv
  BY Zenon
<1>1. Cardinality({}) = 0
  BY FS_EmptySet, Zenon
<1> QED BY <1>1, Zenon DEF Init, OwnInv, OwnershipKept

LEMMA NextOwn == OwnInv /\ [Next]_vars => OwnInv'
<1> SUFFICES ASSUME OwnInv, [Next]_vars PROVE OwnInv'
  BY Zenon
<1> USE DEF OwnInv, OwnershipKept
<1>1. CASE /\ UNCHANGED <<parts, jobs, pending, main>>
           /\ ipc' = ipc \/ ipc' = "gone"
  BY <1>1, Zenon
<1>2. CASE Loop
  <2>1. UNCHANGED <<parts, jobs, pending, ipc>> /\ main = "loop"
    BY <1>2, Zenon DEF Loop, group, reaper
  <2>2. main' \in {"loop", "join_input"}
    BY <1>2, Zenon DEF Loop, LoopOutcome, LoopEnds, LoopFails, LeaveLoop, LoopStays
  <2> QED BY <2>1, <2>2, Zenon
<1>3. CASE JoinInput
  <2>1. /\ main = "join_input" /\ main' \in {"begin_close", "terminate"}
        /\ UNCHANGED <<parts, ipc>>
    BY <1>3, Zenon DEF JoinInput, group, keyboard
  <2>2. CASE ipc # "run" /\ UNCHANGED <<jobs, pending>>
    BY <2>1, <2>2, Zenon
  <2>3. CASE ipc = "run" /\ Enqueue("input")
    BY <2>1, <2>3, EnqueueCounts, Zenon
  <2> QED BY <1>3, <2>2, <2>3, Zenon DEF JoinInput
<1>4. CASE Terminate \/ RefuseWrites \/ CloseWriter
  <2>1. /\ main \in {"terminate", "begin_close", "close_lock"}
        /\ main' \in {"begin_close", "close_lock", "group"}
        /\ UNCHANGED <<parts, jobs, pending, ipc>>
    BY <1>4, Zenon DEF Terminate, RefuseWrites, CloseWriter, group, reaper, keyboard
  <2> QED BY <2>1, Zenon
<1>5. CASE PollGroup
  <2>1. /\ main = "group" /\ UNCHANGED <<jobs, pending, ipc>>
        /\ \/ main' = "group"
           \/ main' = "collect" /\ parts' = {}
    BY <1>5, Zenon DEF PollGroup, reaper, keyboard
  <2> QED BY <2>1, Zenon
<1>6. CASE GroupTimeout
  <2>1. main = "group" /\ main' = "collect" /\ UNCHANGED <<parts, ipc>> /\ Enqueue("group")
    BY <1>6, Zenon DEF GroupTimeout, group, keyboard
  <2> QED BY <2>1, EnqueueCounts, Zenon
<1>7. CASE Reap
  <2>1. PollJobs /\ UNCHANGED <<ipc, main>>
    BY <1>7, Zenon DEF Reap, keyboard, control
  <2> QED BY <2>1, PollJobsOwns, Zenon
<1>8. CASE Collect
  <2>1. main = "collect" /\ main' = "returned" /\ UNCHANGED ipc
    BY <1>8, Zenon DEF Collect, keyboard
  <2>2. CASE UNCHANGED <<parts, jobs, pending>>
    BY <2>1, <2>2, Zenon
  <2>3. CASE PollJobs
    BY <2>1, <2>3, PollJobsOwns, Zenon
  <2> QED BY <1>8, <2>2, <2>3, Zenon DEF Collect
<1>9. CASE ChildStep \/ Type \/ InputStops \/ WriterStep \/ WriteFails \/ ReaderStep
           \/ ReaderFails \/ CloseFinishes \/ UNCHANGED vars
  <2>1. /\ UNCHANGED <<parts, jobs, pending, main>>
        /\ ipc' = ipc \/ ipc' = "gone"
    BY <1>9, Zenon DEF ChildStep, Type, InputStops, WriterStep, ReceiveInput, WriteSome,
       WriteReturns, WriteFails, ReaderStep, Read, Observe, Emit, FinishReader,
       ReaderFails, CloseFinishes, vars, group, reaper, control, keyboard
  <2> QED BY <1>1, <2>1, Zenon
<1> QED
  BY <1>2, <1>3, <1>4, <1>5, <1>6, <1>7, <1>8, <1>9, Zenon DEF Next, MainStep

(***************************************************************************)
(* What shutdown_local_pty could not join when it returns is a job of the  *)
(* reaper, which counts every one of them (enqueue_job, poll_job).         *)
(***************************************************************************)
THEOREM ShutdownKeepsOwnership == Spec => []OwnershipKept
<1>1. OwnInv => OwnershipKept
  BY Zenon DEF OwnInv
<1> QED BY <1>1, InitOwn, NextOwn, PTL DEF Spec

-----------------------------------------------------------------------------
(***************************************************************************)
(* A poll of the close group reports a failure nobody has seen, of what it *)
(* joins.                                                                  *)
(***************************************************************************)
LEMMA PollBeforeReports ==
  ASSUME OutcomeInv, PollBefore, main' # "loop",
         UNCHANGED <<rpc, wpc, reader_result, writer_result, seen>>
  PROVE  OutcomeInv'
<1> USE DEF OutcomeInv
<1>1. errors' \in [Failures -> Nat]
  BY DEF PollBefore
<1>2. ASSUME NEW worker \in Workers
      PROVE  /\ worker \notin parts' => Ended(worker)'
             /\ errors'[worker] = ReportedAs(worker)'
  <2>1. worker \in Finished <=> worker \in parts /\ Ended(worker)
    BY <1>2, Zenon DEF Finished, Ended, Workers
  <2>2. Failed(worker) <=> Outcome(worker) = "err" /\ worker \notin seen
    BY <1>2, Zenon DEF Failed, Outcome, Workers
  <2>3. errors'[worker] =
          errors[worker] + (IF worker \in Finished /\ Failed(worker) THEN 1 ELSE 0)
    BY <1>2, Zenon DEF PollBefore, Failures, Workers
  <2>4. parts' = parts \ Finished
    BY Zenon DEF PollBefore
  <2>5. Outcome(worker)' = Outcome(worker) /\ Ended(worker)' = Ended(worker)
    BY Zenon DEF Outcome, Ended
  <2> QED BY <1>2, <2>1, <2>2, <2>3, <2>4, <2>5 DEF ReportedAs
<1>3. \A worker \in Workers : Outcome(worker)' = Outcome(worker)
  BY Zenon DEF Outcome
<1> QED BY <1>1, <1>2, <1>3, Zenon

(***************************************************************************)
(* Steps that report another failure, or none, while no outcome changes.   *)
(***************************************************************************)
LEMMA OtherReports ==
  ASSUME OutcomeInv,
         \/ UNCHANGED errors
         \/ \E f \in Failures \ Workers : Reported(f),
         main' = "loop" => main = "loop",
         UNCHANGED <<rpc, wpc, reader_result, writer_result, seen, parts>>
  PROVE  OutcomeInv'
<1>1. /\ errors' \in [Failures -> Nat]
      /\ \A worker \in Workers : errors'[worker] = errors[worker]
  BY DEF OutcomeInv, Reported, Failures, Workers
<1> QED BY <1>1, Zenon DEF OutcomeInv, Outcome, Ended, ReportedAs

LEMMA InitOutcome == Init => OutcomeInv
BY DEF Init, OutcomeInv, Workers, Outcome, Ended, ReportedAs, Failures

(***************************************************************************)
(* Every step keeps the invariant: the workers end once, the loop and the  *)
(* polls report, the rest leaves the outcomes alone.                       *)
(***************************************************************************)
LEMMA NextOutcome == OwnInv /\ OutcomeInv /\ [Next]_vars => OutcomeInv'
<1> SUFFICES ASSUME OwnInv, OutcomeInv, [Next]_vars PROVE OutcomeInv'
  BY Zenon
<1>1. CASE ReaderStep \/ ReaderFails
  <2>1. UNCHANGED <<wpc, writer_result, seen, parts, main, errors>>
    BY <1>1, Zenon DEF ReaderStep, Read, Observe, Emit, FinishReader, ReaderFails,
       writer, control, group
  <2>2. /\ rpc # "gone"
        /\ \/ reader_result' = reader_result /\ rpc' # "gone"
              /\ (rpc' \in {"read", "observe", "emit"}
                   => rpc \in {"read", "observe", "emit"})
           \/ rpc \in {"read", "emit"} /\ reader_result' = "err" /\ rpc' = "finish"
           \/ /\ rpc' = "gone"
              /\ reader_result' = IF reader_result = "none" THEN "ok" ELSE reader_result
    BY <1>1, Zenon DEF ReaderStep, Read, Observe, Emit, FinishReader, ReaderFails
  <2> QED BY <2>1, <2>2 DEF OutcomeInv, Workers, Outcome, Ended, ReportedAs
<1>2. CASE WriterStep \/ WriteFails
  <2>1. UNCHANGED <<rpc, reader_result, seen, parts, main, errors>>
    BY <1>2, Zenon DEF WriterStep, ReceiveInput, WriteSome, WriteReturns, WriteFails,
       reader, control, group
  <2>2. /\ wpc # "gone"
        /\ \/ writer_result' = writer_result /\ wpc' # "gone"
           \/ writer_result' \in {"ok", "err"} /\ wpc' = "gone"
    BY <1>2, Zenon DEF WriterStep, ReceiveInput, WriteSome, WriteReturns, WriteFails, WriterEnds
  <2> QED BY <2>1, <2>2, Zenon DEF OutcomeInv, Workers, Outcome, Ended, ReportedAs
<1>3. CASE Loop
  <2>1. main = "loop" /\ UNCHANGED <<rpc, wpc, reader_result, writer_result, parts>>
    BY <1>3, Zenon DEF Loop, writer, reader, group
  <2>2. ASSUME NEW worker \in Workers, LoopOutcome(worker, Outcome(worker))
        PROVE  OutcomeInv'
    <3>1. /\ Outcome(worker) # "none" /\ worker \notin seen
          /\ seen' = seen \cup {worker}
      BY <2>2, Zenon DEF LoopOutcome
    <3>2. CASE Outcome(worker) = "err" /\ Reported(worker)
      <4>1. /\ errors' \in [Failures -> Nat]
            /\ errors'[worker] = errors[worker] + 1
            /\ \A other \in Workers \ {worker} : errors'[other] = errors[other]
        BY <3>2 DEF OutcomeInv, Reported, Failures, Workers
      <4> QED BY <2>1, <3>1, <3>2, <4>1 DEF OutcomeInv, Outcome, Ended, ReportedAs
    <3>3. CASE Outcome(worker) = "ok" /\ UNCHANGED errors
      BY <2>1, <3>1, <3>3, Zenon DEF OutcomeInv, Outcome, Ended, ReportedAs
    <3> QED BY <2>2, <3>2, <3>3, Zenon DEF LoopOutcome, LoopStays
  <2>3. CASE (LoopEnds \/ LoopFails) /\ UNCHANGED seen
    <3>1. UNCHANGED errors \/ Reported("loop")
      BY <2>3, Zenon DEF LoopEnds, LoopFails
    <3>2. "loop" \in Failures \ Workers
      BY Zenon DEF Failures, Workers
    <3> QED BY <2>1, <2>3, <3>1, <3>2, OtherReports, Zenon
  <2> QED BY <1>3, <2>2, <2>3, Zenon DEF Loop, Workers, Outcome
<1>4. CASE JoinInput \/ Terminate \/ GroupTimeout \/ RefuseWrites \/ CloseWriter
  <2>1. /\ main' # "loop"
        /\ UNCHANGED <<rpc, wpc, reader_result, writer_result, seen, parts>>
    BY <1>4, Zenon DEF JoinInput, Terminate, GroupTimeout, RefuseWrites, CloseWriter,
       writer, reader, group
  <2>2. \/ UNCHANGED errors
        \/ Reported("input") \/ Reported("child") \/ Reported("group")
    BY <1>4, Zenon DEF JoinInput, Terminate, GroupTimeout, RefuseWrites, CloseWriter
  <2>3. {"input", "child", "group"} \subseteq Failures \ Workers
    BY Zenon DEF Failures, Workers
  <2> QED BY <2>1, <2>2, <2>3, OtherReports, Zenon
<1>5. CASE PollGroup
  <2>1. /\ PollBefore /\ main' # "loop"
        /\ UNCHANGED <<rpc, wpc, reader_result, writer_result, seen>>
    BY <1>5, Zenon DEF PollGroup, writer, reader
  <2> QED BY <2>1, PollBeforeReports, Zenon
<1>6. CASE Reap \/ Collect
  <2>1. /\ UNCHANGED <<rpc, wpc, reader_result, writer_result, seen>>
        /\ main' = main \/ main' # "loop"
        /\ UNCHANGED <<parts, errors>> \/ ("group" \in jobs /\ PollBefore)
    BY <1>6, Zenon DEF Reap, Collect, PollJobs, writer, reader, control
  <2>2. CASE UNCHANGED <<parts, errors>>
    BY <2>1, <2>2, OtherReports, Zenon
  <2>3. CASE "group" \in jobs /\ PollBefore
    <3>1. main' # "loop"
      BY <2>1, <2>3, Zenon DEF OwnInv
    <3> QED BY <2>1, <2>3, <3>1, PollBeforeReports, Zenon
  <2> QED BY <2>1, <2>2, <2>3, Zenon
<1>7. CASE ChildStep \/ Type \/ InputStops \/ CloseFinishes \/ UNCHANGED vars
  <2>1. UNCHANGED <<rpc, wpc, reader_result, writer_result, seen, parts, main, errors>>
    BY <1>7, Zenon DEF ChildStep, Type, InputStops, CloseFinishes, vars, writer, reader,
       control, group
  <2> QED BY <2>1, OtherReports, Zenon
<1> QED
  BY <1>1, <1>2, <1>3, <1>4, <1>5, <1>6, <1>7, Zenon DEF Next, MainStep

(***************************************************************************)
(* A worker that failed is reported once by the time it was joined, by the *)
(* loop, the close group or the reaper, and one that ended well is not     *)
(* (run_input_loop, poll_before, poll_local_group_worker).                 *)
(***************************************************************************)
THEOREM FailuresReportedOnce == Spec => []OutcomesReportedOnce
<1>1. OutcomeInv => OutcomesReportedOnce
  BY DEF OutcomeInv, OutcomesReportedOnce, Workers, Outcome, ReportedAs
<1> QED BY <1>1, InitOwn, NextOwn, InitOutcome, NextOutcome, PTL DEF Spec

-----------------------------------------------------------------------------
(***************************************************************************)
(* Cursor replies.  Until the close decides who answers, every answer is   *)
(* the terminal's: a query the reader has counted becomes one reply, on    *)
(* its way from the reader (at emit), through the channel, or in the       *)
(* writer's hands.                                                         *)
(***************************************************************************)
Replies(s) == Cardinality({i \in 1..Len(s) : s[i] = "reply"})

BeingWritten == IF wpc = "write" /\ writing = "reply" THEN 1 ELSE 0

BeingEmitted == IF rpc = "emit" /\ chunk = "query" THEN 1 ELSE 0

OnTheWay == Replies(input) + BeingWritten + BeingEmitted

(***************************************************************************)
(* How far the close has come.  A write in progress holds the lock that    *)
(* CloseWriter waits for, and none starts once closing is set: after       *)
(* CloseWriter only the close answers.                                     *)
(***************************************************************************)
CloseStage ==
  /\ main \in {"loop", "join_input", "terminate", "begin_close"} => ~closing
  /\ main = "close_lock" => closing
  /\ main \in {"group", "collect", "returned"} => closing /\ wpc # "write"
  /\ allow_internal_reply => main \in {"group", "collect", "returned"}
  /\ reader_alive => rpc # "gone"
  /\ rpc # "gone" => reader_alive

AnswerInv ==
  IF allow_internal_reply
  THEN ~close_error =>
         /\ answered = replies_seen
         /\ replies_seen <= queries_seen \/ (speculative_reply_sent /\ replies_seen <= 1)
         /\ reader_alive => queries_seen <= replies_seen
  ELSE /\ ~speculative_reply_sent
       /\ answered = replies_seen
       /\ replies_seen + OnTheWay <= queries_seen

PtyTypes == TypeOK /\ (rpc \in {"observe", "emit"} => chunk \in {"plain", "query"})

AnswerInd == PtyTypes /\ CloseStage /\ AnswerInv

(***************************************************************************)
(* Lemmas about Max and about counting the replies of a channel.           *)
(***************************************************************************)
LEMMA MaxOfTwo ==
  ASSUME NEW a \in Int, NEW b \in Int
  PROVE  Max({a, b}) = IF a >= b THEN a ELSE b
<1> DEFINE m == IF a >= b THEN a ELSE b
           P(x) == x \in {a, b} /\ \A y \in {a, b} : x >= y
<1>1. P(m)
  OBVIOUS
<1>2. \A x : P(x) => x = m
  OBVIOUS
<1>3. Max({a, b}) = CHOOSE x \in {a, b} : \A y \in {a, b} : x >= y
  BY Zenon DEF Max
<1>4. (CHOOSE x \in {a, b} : \A y \in {a, b} : x >= y) = CHOOSE x : P(x)
  BY Zenon
<1>5. P(CHOOSE x : P(x))
  BY <1>1, Zenon
<1> QED BY <1>2, <1>3, <1>4, <1>5, Zenon

Kinds == {"key", "reply"}
At(s) == {i \in 1..Len(s) : s[i] = "reply"}

LEMMA AtFinite ==
  ASSUME NEW s \in Seq(Kinds)
  PROVE  IsFiniteSet(At(s)) /\ Cardinality(At(s)) \in Nat
<1>1. IsFiniteSet(1..Len(s))
  BY FS_Interval
<1>2. At(s) \in SUBSET (1..Len(s))
  BY Zenon DEF At
<1> QED BY <1>1, <1>2, FS_Subset, FS_CardinalityType, Zenon

LEMMA RepliesType ==
  ASSUME NEW s \in Seq(Kinds)
  PROVE  Replies(s) \in Nat
BY AtFinite, Zenon DEF Replies, At

LEMMA RepliesNone == Replies(<<>>) = 0
<1>1. {i \in 1..Len(<<>>) : <<>>[i] = "reply"} = {}
  OBVIOUS
<1> QED BY <1>1, FS_EmptySet, Zenon DEF Replies

LEMMA RepliesAppend ==
  ASSUME NEW s \in Seq(Kinds), NEW k \in Kinds
  PROVE  Replies(Append(s, k)) = Replies(s) + (IF k = "reply" THEN 1 ELSE 0)
<1> DEFINE n == Len(s) + 1
<1>1. /\ Append(s, k) \in Seq(Kinds) /\ Len(Append(s, k)) = n /\ Append(s, k)[n] = k
      /\ \A i \in 1..Len(s) : Append(s, k)[i] = s[i]
  OBVIOUS
<1>2. n \notin At(s)
  BY DEF At
<1>3. At(Append(s, k)) = IF k = "reply" THEN At(s) \cup {n} ELSE At(s)
  BY <1>1 DEF At
<1>4. Cardinality(At(s) \cup {n}) = Cardinality(At(s)) + 1
  BY <1>2, AtFinite, FS_AddElement, Zenon
<1>5. Replies(Append(s, k)) = Cardinality(At(Append(s, k))) /\ Replies(s) = Cardinality(At(s))
  BY Zenon DEF Replies, At
<1> QED BY <1>3, <1>4, <1>5, AtFinite

LEMMA RepliesTail ==
  ASSUME NEW s \in Seq(Kinds), s # <<>>
  PROVE  Replies(s) = Replies(Tail(s)) + (IF Head(s) = "reply" THEN 1 ELSE 0)
<1> DEFINE t == Tail(s)
           rest == At(s) \ {1}
<1>1. /\ t \in Seq(Kinds) /\ Len(t) = Len(s) - 1 /\ Len(s) \in Nat \ {0}
      /\ \A i \in 1..Len(t) : t[i] = s[i + 1]
      /\ Head(s) = s[1]
  OBVIOUS
<1>2. Cardinality(At(t)) = Cardinality(rest)
  <2> DEFINE f == [i \in At(t) |-> i + 1]
  <2>1. f \in [At(t) -> rest]
    BY <1>1 DEF At
  <2>2. \A i, j \in At(t) : f[i] = f[j] => i = j
    BY DEF At
  <2>3. \A k \in rest : \E i \in At(t) : f[i] = k
    <3> SUFFICES ASSUME NEW k \in rest PROVE \E i \in At(t) : f[i] = k
      BY Zenon
    <3>1. k - 1 \in At(t) /\ (k - 1) + 1 = k
      BY <1>1 DEF At
    <3> QED BY <3>1, Zenon
  <2>4. f \in Bijection(At(t), rest)
    BY <2>1, <2>2, <2>3, Zenon DEF Bijection, Injection, Surjection, IsInjective
  <2>5. ExistsBijection(At(t), rest)
    BY <2>4, Zenon DEF ExistsBijection
  <2> QED BY <1>1, <2>5, AtFinite, FS_Bijection, Zenon
<1>3. Cardinality(rest) = IF 1 \in At(s) THEN Cardinality(At(s)) - 1 ELSE Cardinality(At(s))
  BY AtFinite, FS_RemoveElement, Zenon
<1>4. 1 \in At(s) <=> Head(s) = "reply"
  BY <1>1 DEF At
<1>5. Replies(s) = Cardinality(At(s)) /\ Replies(t) = Cardinality(At(t))
  BY Zenon DEF Replies, At
<1>6. Cardinality(At(s)) \in Nat
  BY AtFinite, Zenon
<1> HIDE DEF t, rest
<1>7. Replies(s) = Replies(t) + (IF Head(s) = "reply" THEN 1 ELSE 0)
  BY <1>2, <1>3, <1>4, <1>5, <1>6
<1> QED BY <1>7, Zenon DEF t

(***************************************************************************)
(* The types, part by part.                                                *)
(***************************************************************************)
PtyOK == /\ child \in {"idle", "writing", "gone"}
         /\ pty_in \in 0..InCap
         /\ pty_out \in Seq({"plain", "query"}) /\ Len(pty_out) <= OutCap

FlagsOK == {slave, closing, has_writer, speculative_reply_sent, allow_internal_reply,
            reader_alive, close_error, main_sender, input_stop, completion_deadline,
            killed, reaper_runs} \subseteq BOOLEAN

CountsOK == {queries_seen, replies_seen, answered, pending, left} \subseteq Nat

PlacesOK == /\ input \in Seq({"key", "reply"})
            /\ wpc \in {"receive", "write", "gone"}
            /\ rpc \in {"read", "observe", "emit", "finish", "gone"}
            /\ rpc \in {"observe", "emit"} => chunk \in {"plain", "query"}
            /\ {writer_result, reader_result} \subseteq {"none", "ok", "err"}
            /\ main \in {"loop", "join_input", "terminate", "begin_close", "close_lock",
                         "group", "collect", "returned"}
            /\ parts \subseteq {"close", "reader", "writer"}
            /\ jobs \subseteq {"input", "group"}

LEMMA TypesSplit == PtyTypes <=> PtyOK /\ FlagsOK /\ CountsOK /\ PlacesOK
BY Zenon DEF PtyTypes, TypeOK, PtyOK, FlagsOK, CountsOK, PlacesOK

LEMMA PtyStep == PtyOK /\ [Next]_vars => PtyOK'
<1> SUFFICES ASSUME PtyOK, [Next]_vars PROVE PtyOK'
  BY Zenon
<1> USE DEF PtyOK
<1>1. CASE ChildStep
  BY <1>1, LocalPtyAssumption, SMTT(40) DEF ChildStep, ChildReads, ChildDecides, ChildWrites, ChildExits,
     SlaveCloses, KilledDies
<1>2. CASE WriteSome
  BY <1>2, LocalPtyAssumption DEF WriteSome
<1>3. CASE Read
  <2>1. CASE pty_out # <<>> /\ pty_out' = Tail(pty_out)
    <3>1. pty_out' \in Seq({"plain", "query"}) /\ Len(pty_out') = Len(pty_out) - 1
      BY <2>1
    <3>2. Len(pty_out') <= OutCap
      BY <3>1, LocalPtyAssumption
    <3> QED BY <1>3, <3>1, <3>2, Zenon DEF Read
  <2>2. CASE UNCHANGED pty_out
    BY <1>3, <2>2, Zenon DEF Read
  <2> QED BY <1>3, <2>1, <2>2, Zenon DEF Read
<1>4. CASE Terminate
  BY <1>4, Zenon DEF Terminate
<1>5. CASE UNCHANGED <<child, pty_in, pty_out>>
  BY <1>5, Zenon
<1>6. CASE Type \/ InputStops \/ ReceiveInput \/ WriteReturns \/ WriteFails \/ Observe \/ Emit
           \/ FinishReader \/ ReaderFails \/ Loop \/ JoinInput \/ RefuseWrites \/ CloseWriter
           \/ PollGroup \/ GroupTimeout \/ Collect \/ CloseFinishes \/ Reap \/ UNCHANGED vars
  BY <1>5, <1>6, Zenon
     DEF Type, InputStops, ReceiveInput, WriteReturns, WriteFails, Observe, Emit,
     FinishReader, ReaderFails, Loop, JoinInput, RefuseWrites, CloseWriter, PollGroup,
     GroupTimeout, Collect, CloseFinishes, Reap, vars, pty
<1> QED BY <1>1, <1>2, <1>3, <1>4, <1>6, Zenon DEF Next, WriterStep, ReaderStep, MainStep

LEMMA SupplementFlags ==
  ASSUME NEW q, NEW allow \in BOOLEAN, Supplement(q, allow),
         speculative_reply_sent \in BOOLEAN, close_error \in BOOLEAN
  PROVE  speculative_reply_sent' \in BOOLEAN /\ close_error' \in BOOLEAN
BY ZenonT(30) DEF Supplement

LEMMA FlagsStep == FlagsOK /\ [Next]_vars => FlagsOK'
<1> SUFFICES ASSUME FlagsOK, [Next]_vars PROVE FlagsOK'
  BY Zenon
<1>0. /\ slave \in BOOLEAN /\ closing \in BOOLEAN /\ has_writer \in BOOLEAN
      /\ speculative_reply_sent \in BOOLEAN /\ allow_internal_reply \in BOOLEAN
      /\ reader_alive \in BOOLEAN /\ close_error \in BOOLEAN /\ main_sender \in BOOLEAN
      /\ input_stop \in BOOLEAN /\ completion_deadline \in BOOLEAN
      /\ killed \in BOOLEAN /\ reaper_runs \in BOOLEAN
  BY Zenon DEF FlagsOK
<1>1. slave' \in BOOLEAN /\ killed' \in BOOLEAN
  BY <1>0, ZenonT(30) DEF Next, ChildStep, ChildReads, ChildDecides, ChildWrites, ChildExits,
     SlaveCloses, KilledDies, Type, InputStops, WriterStep, ReceiveInput, WriteSome,
     WriteReturns, WriteFails, ReaderStep, Read, Observe, Emit, FinishReader, ReaderFails,
     Loop, MainStep, JoinInput, Terminate, RefuseWrites, CloseWriter, PollGroup, GroupTimeout,
     Collect, CloseFinishes, Reap, vars, pty
<1>2. closing' \in BOOLEAN /\ reader_alive' \in BOOLEAN /\ allow_internal_reply' \in BOOLEAN
  BY <1>0, ZenonT(30)
     DEF Next, ChildStep, Type, InputStops, WriterStep, ReceiveInput, WriteSome,
     WriteReturns, WriteFails, ReaderStep, Read, Observe, Emit, FinishReader, ReaderFails,
     Loop, MainStep, JoinInput, Terminate, RefuseWrites, CloseWriter, PollGroup, GroupTimeout,
     Collect, CloseFinishes, Reap, vars, close_io
<1>3. has_writer' \in BOOLEAN /\ main_sender' \in BOOLEAN
  BY <1>0, Zenon DEF Next, ChildStep, Type, InputStops, WriterStep, ReceiveInput, WriteSome,
     WriteReturns, WriteFails, WriterEnds, ReaderStep, Read, Observe, Emit, FinishReader,
     ReaderFails, Loop, MainStep, JoinInput, Terminate, RefuseWrites, CloseWriter, DropSender,
     PollGroup, GroupTimeout, Collect, CloseFinishes, Reap, vars, close_io, channel
<1>4. speculative_reply_sent' \in BOOLEAN /\ close_error' \in BOOLEAN
  <2>1. CASE Supplement(queries_seen', FALSE) \/ Supplement(queries_seen, TRUE)
    BY <1>0, <2>1, SupplementFlags, Zenon
  <2>2. CASE UNCHANGED <<speculative_reply_sent, close_error>>
    BY <1>0, <2>2, Zenon
  <2>3. CASE Observe \/ CloseWriter
    BY <2>1, <2>2, <2>3, Zenon DEF Observe, CloseWriter, NoSupplement
  <2>4. CASE ~Observe /\ ~CloseWriter
    BY <2>2, <2>4, Zenon
       DEF Next, ChildStep, Type, InputStops, WriterStep, ReceiveInput, WriteSome,
     WriteReturns, WriteFails, ReaderStep, Read, Emit, FinishReader, ReaderFails,
     Loop, MainStep, JoinInput, Terminate, RefuseWrites, PollGroup, GroupTimeout,
     Collect, CloseFinishes, Reap, vars, close_io
  <2> QED BY <2>3, <2>4, Zenon
<1>5. input_stop' \in BOOLEAN /\ completion_deadline' \in BOOLEAN /\ reaper_runs' \in BOOLEAN
  <2>1. CASE Loop
    BY <1>0, <2>1, Zenon
       DEF Loop, LoopOutcome, LoopEnds, LoopFails, LeaveLoop, LoopStays, reaper
  <2>2. CASE ~Loop
    BY <1>0, <2>2, Zenon
       DEF Next, ChildStep, Type, InputStops, WriterStep, ReceiveInput, WriteSome,
     WriteReturns, WriteFails, ReaderStep, Read, Observe, Emit, FinishReader, ReaderFails,
     MainStep, JoinInput, Terminate, RefuseWrites, CloseWriter, PollGroup, GroupTimeout,
     Collect, CloseFinishes, Reap, vars, keyboard, control, reaper
  <2> QED BY <2>1, <2>2, Zenon
<1> QED BY <1>1, <1>2, <1>3, <1>4, <1>5, Zenon DEF FlagsOK

(***************************************************************************)
(* What supplement_cursor_responses may do to the counters: nothing, bring *)
(* the replies up to the queries, send one reply ahead of the first query  *)
(* (or fail to, and not try again), or fail and record it.                 *)
(***************************************************************************)
LEMMA MissingIs ==
  ASSUME NEW q \in Nat, replies_seen \in Nat
  PROVE  Missing(q) = IF q <= replies_seen THEN 0 ELSE q - replies_seen
<1>1. Missing(q) = IF 0 >= q - replies_seen THEN 0 ELSE q - replies_seen
  BY MaxOfTwo DEF Missing
<1> QED BY <1>1

LEMMA SupplementDoes ==
  ASSUME NEW q \in Nat, NEW allow \in BOOLEAN, Supplement(q, allow),
         replies_seen \in Nat, answered \in Nat,
         close_error \in BOOLEAN, speculative_reply_sent \in BOOLEAN
  PROVE  /\ replies_seen' \in Nat /\ answered' \in Nat
         /\ close_error => close_error'
         /\ speculative_reply_sent => speculative_reply_sent'
         /\ \/ /\ q <= replies_seen
               /\ UNCHANGED <<replies_seen, answered, close_error>>
            \/ /\ q > replies_seen /\ replies_seen' = q
               /\ answered' = answered + (q - replies_seen)
               /\ UNCHANGED <<close_error, speculative_reply_sent>>
            \/ /\ allow /\ q = 0 /\ replies_seen = 0 /\ speculative_reply_sent'
               /\ replies_seen' = 1 /\ answered' = answered + 1
               /\ UNCHANGED close_error
            \/ close_error'
<1> DEFINE spec == Missing(q) = 0 /\ Speculative(q, allow)
           count == IF spec THEN 1 ELSE Missing(q)
<1>1. Missing(q) \in Nat /\ (Missing(q) = 0 <=> q <= replies_seen)
      /\ (q > replies_seen => Missing(q) = q - replies_seen)
  BY MissingIs
<1>2. spec => allow /\ q = 0 /\ replies_seen = 0 /\ ~speculative_reply_sent
  BY Zenon DEF Speculative
<1>3. /\ spec \in BOOLEAN /\ count \in Nat
      /\ spec => count = 1
      /\ ~spec => count = Missing(q)
  BY <1>1, Zenon
<1>4. /\ speculative_reply_sent' = (speculative_reply_sent \/ spec)
      /\ \/ /\ count = 0
            /\ UNCHANGED <<replies_seen, answered, close_error>>
         \/ /\ count > 0
            /\ replies_seen' = replies_seen + count
            /\ answered' = answered + count
            /\ UNCHANGED close_error
         \/ /\ count > 0
            /\ \E sent \in 0..count - 1 :
                 answered' = answered + (IF has_writer THEN sent ELSE 0)
            /\ close_error' = (close_error \/ ~spec)
            /\ UNCHANGED replies_seen
  BY Zenon DEF Supplement
<1> HIDE DEF spec, count
<1>5. CASE count = 0 /\ UNCHANGED <<replies_seen, answered, close_error>>
  BY <1>1, <1>3, <1>4, <1>5
<1>6. CASE /\ count > 0 /\ replies_seen' = replies_seen + count
           /\ answered' = answered + count /\ UNCHANGED close_error
  <2>1. CASE spec
    <3>1. allow /\ q = 0 /\ replies_seen = 0 /\ count = 1
      BY <1>2, <1>3, <2>1, Zenon
    <3>2. speculative_reply_sent' = TRUE
      BY <1>4, <2>1, Zenon
    <3>3. replies_seen' = 1 /\ answered' = answered + 1 /\ answered' \in Nat
      BY <1>6, <3>1
    <3> QED BY <1>6, <3>1, <3>2, <3>3
  <2>2. CASE ~spec
    <3>1. q > replies_seen /\ count = q - replies_seen
      BY <1>1, <1>3, <1>6, <2>2
    <3>2. replies_seen' = q /\ answered' = answered + (q - replies_seen)
      BY <1>6, <3>1
    <3>3. UNCHANGED speculative_reply_sent
      BY <1>4, <2>2, Zenon
    <3>4. replies_seen' \in Nat /\ answered' \in Nat
      BY <1>3, <1>6
    <3> QED BY <1>6, <3>1, <3>2, <3>3, <3>4, Zenon
  <2> QED BY <2>1, <2>2, Zenon
<1>7. CASE /\ count > 0
           /\ \E sent \in 0..count - 1 :
                answered' = answered + (IF has_writer THEN sent ELSE 0)
           /\ close_error' = (close_error \/ ~spec)
           /\ UNCHANGED replies_seen
  <2>1. answered' \in Nat
    BY <1>3, <1>7
  <2>2. CASE spec
    <3>1. answered' = answered /\ close_error' = close_error /\ q <= replies_seen
      BY <1>2, <1>3, <1>7, <2>2
    <3> QED BY <1>4, <1>7, <2>1, <3>1, Zenon
  <2>3. CASE ~spec
    BY <1>4, <1>7, <2>1, <2>3, Zenon
  <2> QED BY <2>2, <2>3, Zenon
<1> QED BY <1>4, <1>5, <1>6, <1>7, Zenon

LEMMA CountsStep == PtyTypes /\ OwnInv /\ [Next]_vars => CountsOK'
<1> SUFFICES ASSUME PtyTypes, OwnInv, [Next]_vars PROVE CountsOK'
  BY Zenon
<1>0. /\ queries_seen \in Nat /\ replies_seen \in Nat /\ answered \in Nat
      /\ left \in Nat /\ close_error \in BOOLEAN /\ speculative_reply_sent \in BOOLEAN
  BY Zenon DEF PtyTypes, TypeOK
<1>1. pending' \in Nat
  <2>1. OwnInv'
    BY NextOwn, Zenon
  <2> QED BY <2>1, JobsFinite, FS_CardinalityType, ZenonT(30) DEF OwnInv, OwnershipKept
<1>2. queries_seen' \in Nat
  <2>1. CASE Observe
    BY <1>0, <2>1 DEF Observe
  <2>2. CASE ~Observe
    BY <1>0, <2>2, Zenon
       DEF Next, ChildStep, Type, InputStops, WriterStep, ReceiveInput, WriteSome,
     WriteReturns, WriteFails, ReaderStep, Read, Emit, FinishReader, ReaderFails,
     Loop, MainStep, JoinInput, Terminate, RefuseWrites, CloseWriter, PollGroup, GroupTimeout,
     Collect, CloseFinishes, Reap, vars, close_io
  <2> QED BY <2>1, <2>2, Zenon
<1>3. replies_seen' \in Nat /\ answered' \in Nat
  <2>1. CASE UNCHANGED <<replies_seen, answered>>
    BY <1>0, <2>1, Zenon
  <2>2. CASE Observe
    <3>1. CASE Supplement(queries_seen', FALSE)
      BY <1>0, <1>2, <3>1, SupplementDoes, Zenon
    <3> QED BY <2>1, <2>2, <3>1, Zenon DEF Observe, NoSupplement
  <2>3. CASE CloseWriter
    <3>1. CASE Supplement(queries_seen, TRUE)
      BY <1>0, <3>1, SupplementDoes, Zenon
    <3> QED BY <2>1, <2>3, <3>1, Zenon DEF CloseWriter, NoSupplement
  <2>4. CASE WriteReturns
    BY <1>0, <2>4 DEF WriteReturns
  <2>5. CASE ~Observe /\ ~CloseWriter /\ ~WriteReturns
    <3>1. UNCHANGED <<replies_seen, answered>>
      BY <2>5, Zenon DEF Next, ChildStep, Type, InputStops, WriterStep, ReceiveInput, WriteSome,
         WriteFails, ReaderStep, Read, Emit, FinishReader, ReaderFails, Loop, MainStep,
         JoinInput, Terminate, RefuseWrites, PollGroup, GroupTimeout, Collect, CloseFinishes,
         Reap, vars, close_io
    <3> QED BY <2>1, <3>1, Zenon
  <2> QED BY <2>2, <2>3, <2>4, <2>5, Zenon
<1>4. left' \in Nat
  <2>1. CASE ReceiveInput \/ WriteSome \/ WriteReturns \/ WriteFails
    BY <1>0, <2>1, LocalPtyAssumption DEF ReceiveInput, WriteSome, WriteReturns, WriteFails,
       WriterEnds
  <2>2. CASE ~(ReceiveInput \/ WriteSome \/ WriteReturns \/ WriteFails)
    BY <1>0, <2>2, Zenon
       DEF Next, ChildStep, Type, InputStops, WriterStep, ReaderStep, Read, Observe,
     Emit, FinishReader, ReaderFails, Loop, MainStep, JoinInput, Terminate, RefuseWrites,
     CloseWriter, PollGroup, GroupTimeout, Collect, CloseFinishes, Reap, vars, writer
  <2> QED BY <2>1, <2>2, Zenon
<1> QED BY <1>1, <1>2, <1>3, <1>4, Zenon DEF CountsOK

LEMMA InputStep ==
  ASSUME PlacesOK, [Next]_vars
  PROVE  input' \in Seq({"key", "reply"})
<1>1. input \in Seq({"key", "reply"}) /\ <<>> \in Seq({"key", "reply"})
  BY DEF PlacesOK
<1>2. CASE Type
  BY <1>1, <1>2 DEF Type
<1>3. CASE ReceiveInput
  <2>1. input # <<>> => Tail(input) \in Seq({"key", "reply"})
    BY <1>1
  <2> QED BY <1>1, <1>3, <2>1, Zenon DEF ReceiveInput, WriterEnds
<1>4. CASE WriteReturns \/ WriteFails
  BY <1>1, <1>4, ZenonT(30) DEF WriteReturns, WriteFails, WriterEnds
<1>5. CASE Emit
  BY <1>1, <1>5 DEF Emit
<1>6. CASE ~Type /\ ~ReceiveInput /\ ~WriteReturns /\ ~WriteFails /\ ~Emit
  <2>1. UNCHANGED input
    BY <1>6, Zenon
       DEF Next, ChildStep, InputStops, WriterStep, WriteSome, ReaderStep, Read, Observe,
       FinishReader, ReaderFails, Loop, MainStep, JoinInput, Terminate, RefuseWrites,
       CloseWriter, PollGroup, GroupTimeout, Collect, CloseFinishes, Reap, vars, channel
  <2> QED BY <1>1, <2>1, Zenon
<1> QED BY <1>2, <1>3, <1>4, <1>5, <1>6, Zenon

LEMMA PlacesStep == PtyTypes /\ [Next]_vars => PlacesOK'
<1> SUFFICES ASSUME PtyTypes, [Next]_vars PROVE PlacesOK'
  BY Zenon
<1>0. PlacesOK /\ PtyOK
  BY TypesSplit, Zenon
<1>1. /\ wpc' \in {"receive", "write", "gone"}
      /\ writer_result' \in {"none", "ok", "err"}
  BY <1>0, ZenonT(30)
     DEF PlacesOK, Next, ChildStep, Type, InputStops, WriterStep, ReceiveInput, WriteSome,
     WriteReturns, WriteFails, WriterEnds, ReaderStep, Read, Observe, Emit, FinishReader,
     ReaderFails, Loop, MainStep, JoinInput, Terminate, RefuseWrites, CloseWriter, PollGroup,
     GroupTimeout, Collect, CloseFinishes, Reap, vars, writer
<1>2. /\ rpc' \in {"read", "observe", "emit", "finish", "gone"}
      /\ reader_result' \in {"none", "ok", "err"}
  BY <1>0, Zenon
     DEF PlacesOK, Next, ChildStep, Type, InputStops, WriterStep, ReceiveInput, WriteSome,
     WriteReturns, WriteFails, ReaderStep, Read, Observe, Emit, FinishReader, ReaderFails,
     Loop, MainStep, JoinInput, Terminate, RefuseWrites, CloseWriter, PollGroup,
     GroupTimeout, Collect, CloseFinishes, Reap, vars, reader
<1>3. rpc' \in {"observe", "emit"} => chunk' \in {"plain", "query"}
  <2>1. CASE Read
    <3>1. pty_out # <<>> => Head(pty_out) \in {"plain", "query"}
      BY <1>0 DEF PtyOK
    <3> QED BY <2>1, <3>1, Zenon DEF Read
  <2>2. CASE ~Read
    BY <1>0, <2>2, ZenonT(30)
       DEF PlacesOK, Next, ChildStep, Type, InputStops, WriterStep, ReceiveInput,
       WriteSome, WriteReturns, WriteFails, ReaderStep, Observe, Emit, FinishReader,
       ReaderFails, Loop, MainStep, JoinInput, Terminate, RefuseWrites, CloseWriter, PollGroup,
       GroupTimeout, Collect, CloseFinishes, Reap, vars, reader
  <2> QED BY <2>1, <2>2, Zenon
<1>4. main' \in {"loop", "join_input", "terminate", "begin_close", "close_lock",
                 "group", "collect", "returned"}
  BY <1>0, ZenonT(30)
     DEF PlacesOK, Next, ChildStep, Type, InputStops, WriterStep, ReceiveInput, WriteSome,
     WriteReturns, WriteFails, ReaderStep, Read, Observe, Emit, FinishReader, ReaderFails,
     Loop, LoopOutcome, LoopEnds, LoopFails, LeaveLoop, LoopStays, MainStep, JoinInput,
     Terminate, RefuseWrites, CloseWriter, PollGroup, GroupTimeout, Collect, CloseFinishes,
     Reap, vars, control
<1>5. parts' \subseteq {"close", "reader", "writer"} /\ jobs' \subseteq {"input", "group"}
  BY <1>0, Zenon
     DEF PlacesOK, Next, ChildStep, Type, InputStops, WriterStep, ReceiveInput, WriteSome,
     WriteReturns, WriteFails, ReaderStep, Read, Observe, Emit, FinishReader, ReaderFails,
     Loop, MainStep, JoinInput, Enqueue, Terminate, RefuseWrites, CloseWriter, PollGroup,
     PollBefore, GroupTimeout, Collect, PollJobs, CloseFinishes, Reap, vars, group, reaper
<1> QED BY <1>0, <1>1, <1>2, <1>3, <1>4, <1>5, InputStep, Zenon DEF PlacesOK

LEMMA TypesStep == PtyTypes /\ OwnInv /\ [Next]_vars => PtyTypes'
<1>1. PtyTypes /\ OwnInv /\ [Next]_vars => PtyOK' /\ FlagsOK' /\ CountsOK' /\ PlacesOK'
  BY TypesSplit, PtyStep, FlagsStep, CountsStep, PlacesStep, Zenon
<1>2. PtyOK' /\ FlagsOK' /\ CountsOK' /\ PlacesOK' => PtyTypes'
  BY Zenon DEF PtyTypes, TypeOK, PtyOK, FlagsOK, CountsOK, PlacesOK
<1> QED BY <1>1, <1>2, Zenon

(***************************************************************************)
(* The stages of the close.                                                *)
(***************************************************************************)
LEMMA StageStep == PtyTypes /\ CloseStage /\ [Next]_vars => CloseStage'
<1> SUFFICES ASSUME PtyTypes, CloseStage, [Next]_vars PROVE CloseStage'
  BY Zenon
<1>0. /\ wpc \in {"receive", "write", "gone"}
      /\ main \in {"loop", "join_input", "terminate", "begin_close", "close_lock",
                   "group", "collect", "returned"}
  BY Zenon DEF PtyTypes, TypeOK
<1>1. CASE UNCHANGED <<main, closing, wpc, allow_internal_reply, reader_alive, rpc>>
  BY <1>1, Zenon DEF CloseStage
<1>2. CASE ReceiveInput \/ WriteReturns \/ WriteFails
  <2>1. /\ UNCHANGED <<main, closing, allow_internal_reply, reader_alive, rpc>>
        /\ wpc' = "write" => ~closing
    BY <1>2, Zenon DEF ReceiveInput, WriteReturns, WriteFails, WriterEnds, control, reader
  <2> QED BY <2>1, Zenon DEF CloseStage
<1>3. CASE Read \/ Observe \/ Emit \/ ReaderFails
  <2>1. /\ UNCHANGED <<main, closing, wpc, allow_internal_reply, reader_alive>>
        /\ rpc # "gone" /\ rpc' # "gone"
    BY <1>3, Zenon DEF Read, Observe, Emit, ReaderFails, close_io, control, writer
  <2> QED BY <2>1, Zenon DEF CloseStage
<1>4. CASE FinishReader
  <2>1. /\ UNCHANGED <<main, closing, wpc, allow_internal_reply>>
        /\ rpc' = "gone" /\ reader_alive' = FALSE
    BY <1>4, Zenon DEF FinishReader, control, writer
  <2> QED BY <2>1, Zenon DEF CloseStage
<1>5. CASE Loop \/ JoinInput \/ Terminate
  <2>1. /\ UNCHANGED <<closing, wpc, allow_internal_reply, reader_alive, rpc>>
        /\ main \in {"loop", "join_input", "terminate"}
    BY <1>5, Zenon DEF Loop, JoinInput, Terminate, close_io, writer, reader
  <2>2. main' \in {"loop", "join_input", "terminate", "begin_close"}
    BY <1>5, <2>1, Zenon
       DEF Loop, LoopOutcome, LoopEnds, LoopFails, LeaveLoop, LoopStays, JoinInput,
       Terminate
  <2> QED BY <2>1, <2>2, Zenon DEF CloseStage
<1>6. CASE RefuseWrites
  BY <1>6, Zenon DEF RefuseWrites, CloseStage, writer, reader
<1>7. CASE CloseWriter
  BY <1>0, <1>7, Zenon DEF CloseWriter, CloseStage, Unlocked, writer, reader
<1>8. CASE PollGroup \/ GroupTimeout \/ Collect
  <2>1. /\ UNCHANGED <<closing, wpc, allow_internal_reply, reader_alive, rpc>>
        /\ main \in {"group", "collect"} /\ main' \in {"group", "collect", "returned"}
    BY <1>8, Zenon DEF PollGroup, GroupTimeout, Collect, close_io, writer, reader
  <2> QED BY <2>1, Zenon DEF CloseStage
<1>9. CASE ChildStep \/ Type \/ InputStops \/ WriteSome \/ CloseFinishes \/ Reap
           \/ UNCHANGED vars
  BY <1>1, <1>9, Zenon DEF ChildStep, Type, InputStops, WriteSome, CloseFinishes, Reap, vars,
     close_io, writer, reader, control
<1> QED BY <1>2, <1>3, <1>4, <1>5, <1>6, <1>7, <1>8, <1>9, Zenon
           DEF Next, WriterStep, ReaderStep,
           MainStep

(***************************************************************************)
(* The replies on their way, moved from hand to hand.                      *)
(***************************************************************************)
LEMMA OnTheWayType ==
  ASSUME PtyTypes
  PROVE  /\ input \in Seq(Kinds)
         /\ Replies(input) \in Nat /\ BeingWritten \in {0, 1} /\ BeingEmitted \in {0, 1}
         /\ OnTheWay \in Nat
<1>1. input \in Seq(Kinds)
  BY Zenon DEF PtyTypes, TypeOK, Kinds
<1>2. Replies(input) \in Nat
  BY <1>1, RepliesType, Zenon
<1>3. BeingWritten \in {0, 1} /\ BeingEmitted \in {0, 1}
  BY Zenon DEF BeingWritten, BeingEmitted
<1> QED BY <1>1, <1>2, <1>3 DEF OnTheWay

(***************************************************************************)
(* Steps that touch neither counter: the replies on their way stay or are  *)
(* given up.                                                               *)
(***************************************************************************)
Quiet == /\ UNCHANGED <<queries_seen, replies_seen, answered, allow_internal_reply,
                        speculative_reply_sent, close_error>>
         /\ reader_alive' => reader_alive
         /\ OnTheWay' <= OnTheWay

LEMMA QuietStep ==
  ASSUME PtyTypes, AnswerInv, Quiet, OnTheWay' \in Nat
  PROVE  AnswerInv'
<1>1. queries_seen \in Nat /\ replies_seen \in Nat /\ OnTheWay \in Nat
  BY OnTheWayType, Zenon DEF PtyTypes, TypeOK
<1>2. replies_seen + OnTheWay <= queries_seen => replies_seen' + OnTheWay' <= queries_seen'
  <2>1. \A q, r, n, m \in Nat : m <= n /\ r + n <= q => r + m <= q
    OBVIOUS
  <2>2. replies_seen' = replies_seen /\ queries_seen' = queries_seen /\ OnTheWay' <= OnTheWay
    BY Zenon DEF Quiet
  <2> QED BY <1>1, <2>1, <2>2, ZenonT(30)
<1> QED BY <1>2, Zenon DEF AnswerInv, Quiet

LEMMA QuietWriter ==
  ASSUME PtyTypes, ReceiveInput \/ WriteFails
  PROVE  Quiet
<1>1. /\ UNCHANGED <<queries_seen, replies_seen, answered, allow_internal_reply, reader_alive,
                     speculative_reply_sent, close_error, rpc, chunk>>
  BY Zenon DEF ReceiveInput, WriteFails, reader
<1>2. BeingEmitted' = BeingEmitted
  BY <1>1, Zenon DEF BeingEmitted
<1>3. CASE wpc' = "gone" /\ input' = <<>>
  <2>1. Replies(input)' = 0 /\ BeingWritten' = 0
    BY <1>3, RepliesNone, Zenon DEF BeingWritten
  <2>2. OnTheWay' <= OnTheWay
    BY <1>2, <2>1, OnTheWayType DEF OnTheWay
  <2> QED BY <1>1, <2>2, Zenon DEF Quiet
<1>4. CASE /\ wpc = "receive" /\ wpc' = "write" /\ input # <<>>
           /\ writing' = Head(input) /\ input' = Tail(input)
  <2>1. Replies(input) = Replies(input') + BeingWritten' /\ BeingWritten = 0
    BY <1>4, RepliesTail, OnTheWayType, Zenon DEF BeingWritten
  <2>2. Replies(input') \in Nat /\ BeingWritten' \in Nat
    <3>1. input' \in Seq(Kinds)
      BY <1>4, OnTheWayType
    <3> QED BY <3>1, RepliesType, Zenon DEF BeingWritten
  <2>3. OnTheWay' = OnTheWay
    BY <1>2, <2>1, <2>2, OnTheWayType DEF OnTheWay
  <2> QED BY <1>1, <2>3, OnTheWayType DEF Quiet
<1> QED BY <1>3, <1>4, Zenon DEF ReceiveInput, WriteFails, WriterEnds

LEMMA QuietReader ==
  ASSUME PtyTypes, CloseStage, Read \/ Emit \/ ReaderFails \/ FinishReader
  PROVE  Quiet
<1>1. /\ UNCHANGED <<queries_seen, replies_seen, answered, allow_internal_reply,
                     speculative_reply_sent, close_error, wpc, writing>>
      /\ reader_alive' => reader_alive
  BY DEF Read, Emit, ReaderFails, FinishReader, close_io, writer
<1>2. BeingWritten' = BeingWritten
  BY <1>1, Zenon DEF BeingWritten
<1>3. CASE /\ input' = Append(input, "reply") /\ rpc = "emit" /\ chunk = "query"
           /\ rpc' = "read"
  <2>1. Replies(input') = Replies(input) + 1
    BY <1>3, RepliesAppend, OnTheWayType, Zenon DEF Kinds
  <2>2. BeingEmitted = 1 /\ BeingEmitted' = 0
    BY <1>3, Zenon DEF BeingEmitted
  <2>3. OnTheWay' <= OnTheWay
    BY <1>2, <2>1, <2>2, OnTheWayType DEF OnTheWay
  <2> QED BY <1>1, <2>3, Zenon DEF Quiet
<1>4. CASE input' = input /\ rpc' # "emit"
  <2>1. BeingEmitted' = 0
    BY <1>4, Zenon DEF BeingEmitted
  <2>2. Replies(input') = Replies(input)
    BY <1>4, Zenon
  <2>3. OnTheWay' <= OnTheWay
    BY <1>2, <2>1, <2>2, OnTheWayType DEF OnTheWay
  <2> QED BY <1>1, <2>3, Zenon DEF Quiet
<1> QED BY <1>3, <1>4, Zenon DEF Read, Emit, ReaderFails, FinishReader, channel

LEMMA QuietRest ==
  ASSUME PtyTypes, CloseStage,
         ChildStep \/ Type \/ InputStops \/ WriteSome \/ Loop \/ JoinInput \/ Terminate
         \/ RefuseWrites \/ PollGroup \/ GroupTimeout \/ Collect \/ CloseFinishes \/ Reap
         \/ UNCHANGED vars
  PROVE  Quiet
<1>1. UNCHANGED <<queries_seen, replies_seen, answered, allow_internal_reply, reader_alive,
                  speculative_reply_sent, close_error, wpc, writing, rpc, chunk>>
  BY ZenonT(30)
     DEF ChildStep, Type, InputStops, WriteSome, Loop, JoinInput, Terminate, RefuseWrites,
     PollGroup, GroupTimeout, Collect, CloseFinishes, Reap, vars, close_io, writer, reader
<1>2. input' = input \/ input' = Append(input, "key")
  BY Zenon DEF ChildStep, Type, InputStops, WriteSome, Loop, JoinInput, Terminate, RefuseWrites,
     PollGroup, GroupTimeout, Collect, CloseFinishes, Reap, vars, channel
<1>3. Replies(input') = Replies(input)
  <2>1. Replies(Append(input, "key")) = Replies(input) + 0
    BY RepliesAppend, OnTheWayType, Zenon DEF Kinds
  <2>2. Replies(input) + 0 = Replies(input)
    BY OnTheWayType
  <2> QED BY <1>2, <2>1, <2>2, Zenon
<1>4. BeingWritten' = BeingWritten /\ BeingEmitted' = BeingEmitted
  BY <1>1, Zenon DEF BeingWritten, BeingEmitted
<1>5. OnTheWay' = OnTheWay
  BY <1>3, <1>4, Zenon DEF OnTheWay
<1> QED BY <1>1, <1>5, OnTheWayType DEF Quiet

(***************************************************************************)
(* A write of the terminal's reply returns.  It held the lock, so the      *)
(* close has not decided to answer itself.                                 *)
(***************************************************************************)
LEMMA AnswerWriteReturns ==
  ASSUME PtyTypes, CloseStage, AnswerInv, WriteReturns, PtyTypes'
  PROVE  AnswerInv'
<1>1. ~allow_internal_reply
  BY Zenon DEF WriteReturns, CloseStage
<1>2. /\ UNCHANGED <<queries_seen, allow_internal_reply, speculative_reply_sent, rpc, chunk>>
      /\ wpc = "write" /\ wpc' # "write"
      /\ input' = input \/ input' = <<>>
  BY Zenon DEF WriteReturns, WriterEnds, reader
<1>3. replies_seen' = replies_seen + BeingWritten /\ answered' = answered + BeingWritten
  BY Zenon DEF WriteReturns, BeingWritten
<1>4. BeingWritten' = 0 /\ BeingEmitted' = BeingEmitted
  BY <1>2, Zenon DEF BeingWritten, BeingEmitted
<1>5. Replies(input') <= Replies(input) /\ Replies(input') \in Nat
  BY <1>2, RepliesNone, OnTheWayType
<1>6. queries_seen \in Nat /\ replies_seen \in Nat /\ answered \in Nat
  BY Zenon DEF PtyTypes, TypeOK
<1>7. replies_seen + (Replies(input) + BeingWritten + BeingEmitted) <= queries_seen
  BY <1>1, Zenon DEF AnswerInv, OnTheWay
<1>8. replies_seen' + (Replies(input') + BeingWritten' + BeingEmitted') <= queries_seen'
  <2>1. \A r, n, w, e, m, q \in Nat :
          r + (n + w + e) <= q /\ m <= n => (r + w) + (m + 0 + e) <= q
    OBVIOUS
  <2>2. Replies(input) \in Nat /\ BeingWritten \in Nat /\ BeingEmitted \in Nat
    BY OnTheWayType
  <2>3. (replies_seen + BeingWritten) + (Replies(input') + 0 + BeingEmitted) <= queries_seen
    BY <1>5, <1>6, <1>7, <2>1, <2>2, Zenon
  <2> QED BY <1>2, <1>3, <1>4, <2>3, Zenon
<1>9. answered' = replies_seen'
  BY <1>1, <1>3, Zenon DEF AnswerInv
<1> QED BY <1>1, <1>2, <1>8, <1>9, Zenon DEF AnswerInv, OnTheWay

(***************************************************************************)
(* The reader counts a query: its reply is now on its way, or the close    *)
(* answers it at once.                                                     *)
(***************************************************************************)
LEMMA AnswerObserve ==
  ASSUME PtyTypes, CloseStage, AnswerInv, Observe, PtyTypes'
  PROVE  AnswerInv'
<1> DEFINE one == IF chunk = "query" THEN 1 ELSE 0
<1>1. /\ UNCHANGED <<allow_internal_reply, reader_alive, closing, wpc, writing, input, chunk>>
      /\ queries_seen' = queries_seen + one
      /\ rpc = "observe" /\ rpc' = "emit"
  BY Zenon DEF Observe, writer, channel
<1>2. /\ queries_seen \in Nat /\ replies_seen \in Nat /\ answered \in Nat /\ one \in {0, 1}
      /\ close_error \in BOOLEAN /\ speculative_reply_sent \in BOOLEAN
      /\ allow_internal_reply \in BOOLEAN
  BY Zenon DEF PtyTypes, TypeOK
<1>3. queries_seen' \in Nat
  BY <1>1, <1>2
<1>4. CASE ~allow_internal_reply
  <2>1. UNCHANGED <<replies_seen, answered, speculative_reply_sent>>
    BY <1>4, Zenon DEF Observe, NoSupplement
  <2>2. BeingWritten' = BeingWritten /\ BeingEmitted' = one /\ BeingEmitted = 0
    BY <1>1, Zenon DEF BeingWritten, BeingEmitted
  <2>3. Replies(input') = Replies(input)
    BY <1>1, Zenon
  <2>4. replies_seen + (Replies(input) + BeingWritten + 0) <= queries_seen
    BY <1>4, <2>2, Zenon DEF AnswerInv, OnTheWay
  <2> HIDE DEF one
  <2>5. replies_seen + (Replies(input) + BeingWritten + one) <= queries_seen + one
    BY <1>2, <2>4, OnTheWayType
  <2>6. replies_seen' + OnTheWay' <= queries_seen'
    BY <1>1, <2>1, <2>2, <2>3, <2>5, Zenon DEF OnTheWay
  <2> QED BY <1>1, <1>4, <2>1, <2>6, Zenon DEF AnswerInv
<1>5. CASE allow_internal_reply
  <2>1. Supplement(queries_seen', FALSE)
    BY <1>5, Zenon DEF Observe, CloseStage
  <2>2. SUFFICES ASSUME ~close_error'
                 PROVE  /\ answered' = replies_seen'
                        /\ \/ replies_seen' <= queries_seen'
                           \/ speculative_reply_sent' /\ replies_seen' <= 1
                        /\ queries_seen' <= replies_seen'
    BY <1>1, <1>5, Zenon DEF AnswerInv
  <2>3. /\ close_error => close_error'
        /\ speculative_reply_sent => speculative_reply_sent'
        /\ \/ queries_seen' <= replies_seen /\ UNCHANGED <<replies_seen, answered>>
           \/ /\ queries_seen' > replies_seen /\ replies_seen' = queries_seen'
              /\ answered' = answered + (queries_seen' - replies_seen)
    BY <1>2, <1>3, <2>1, <2>2, SupplementDoes, Zenon
  <2>4. /\ answered = replies_seen
        /\ replies_seen <= queries_seen \/ (speculative_reply_sent /\ replies_seen <= 1)
    BY <1>5, <2>2, <2>3, Zenon DEF AnswerInv
  <2>5. CASE queries_seen' <= replies_seen /\ UNCHANGED <<replies_seen, answered>>
    <3>1. replies_seen <= queries_seen => replies_seen <= queries_seen'
      BY <1>1, <1>2
    <3> QED BY <2>3, <2>4, <2>5, <3>1, Zenon
  <2>6. CASE /\ queries_seen' > replies_seen /\ replies_seen' = queries_seen'
             /\ answered' = answered + (queries_seen' - replies_seen)
    <3>1. \A a, q \in Nat : a + (q - a) = q
      OBVIOUS
    <3>2. answered' = queries_seen'
      BY <1>2, <1>3, <2>4, <2>6, <3>1, Zenon
    <3> QED BY <1>3, <2>6, <3>2
  <2> QED BY <2>3, <2>5, <2>6, Zenon
<1> QED BY <1>2, <1>4, <1>5, Zenon

(***************************************************************************)
(* The close decides who answers.  It holds the lock: no reply is in the   *)
(* writer's hands, and none of those in the channel will be written.       *)
(***************************************************************************)
LEMMA AnswerCloseWriter ==
  ASSUME PtyTypes, CloseStage, AnswerInv, CloseWriter
  PROVE  AnswerInv'
<1>1. /\ UNCHANGED <<queries_seen, reader_alive, wpc, writing, input, rpc, chunk>>
      /\ ~allow_internal_reply
  BY Zenon DEF CloseWriter, CloseStage, writer, reader
<1>2. /\ queries_seen \in Nat /\ replies_seen \in Nat /\ answered \in Nat
      /\ close_error \in BOOLEAN /\ speculative_reply_sent \in BOOLEAN /\ OnTheWay \in Nat
  BY OnTheWayType, Zenon DEF PtyTypes, TypeOK
<1>3. ~speculative_reply_sent /\ answered = replies_seen /\ replies_seen + OnTheWay <= queries_seen
  BY <1>1, Zenon DEF AnswerInv
<1>4. replies_seen <= queries_seen
  BY <1>2, <1>3
<1>5. OnTheWay' = OnTheWay
  BY <1>1, Zenon DEF OnTheWay, BeingWritten, BeingEmitted
<1>6. CASE ~(reader_alive /\ allow_internal_reply')
  <2>1. UNCHANGED <<replies_seen, answered, speculative_reply_sent>>
    BY <1>6, Zenon DEF CloseWriter, NoSupplement
  <2> QED BY <1>1, <1>3, <1>4, <1>5, <1>6, <2>1, Zenon DEF AnswerInv
<1>7. CASE reader_alive /\ allow_internal_reply'
  <2>1. Supplement(queries_seen, TRUE)
    BY <1>7, Zenon DEF CloseWriter
  <2>2. SUFFICES ASSUME ~close_error'
                 PROVE  /\ answered' = replies_seen'
                        /\ \/ replies_seen' <= queries_seen'
                           \/ speculative_reply_sent' /\ replies_seen' <= 1
                        /\ queries_seen' <= replies_seen'
    BY <1>7, Zenon DEF AnswerInv
  <2>3. \/ queries_seen <= replies_seen /\ UNCHANGED <<replies_seen, answered>>
        \/ /\ queries_seen > replies_seen /\ replies_seen' = queries_seen
           /\ answered' = answered + (queries_seen - replies_seen)
        \/ /\ queries_seen = 0 /\ replies_seen = 0 /\ speculative_reply_sent'
           /\ replies_seen' = 1 /\ answered' = answered + 1
    BY <1>2, <2>1, <2>2, SupplementDoes, Zenon
  <2>4. CASE queries_seen <= replies_seen /\ UNCHANGED <<replies_seen, answered>>
    BY <1>1, <1>3, <1>4, <2>4, Zenon
  <2>5. CASE /\ queries_seen > replies_seen /\ replies_seen' = queries_seen
             /\ answered' = answered + (queries_seen - replies_seen)
    <3>1. answered' = queries_seen
      BY <1>2, <1>3, <2>5
    <3> QED BY <1>1, <1>2, <2>5, <3>1
  <2>6. CASE /\ queries_seen = 0 /\ replies_seen = 0 /\ speculative_reply_sent'
             /\ replies_seen' = 1 /\ answered' = answered + 1
    BY <1>1, <1>3, <2>6
  <2> QED BY <2>3, <2>4, <2>5, <2>6, Zenon
<1> QED BY <1>6, <1>7, Zenon

LEMMA AnswerStep ==
  ASSUME PtyTypes, CloseStage, AnswerInv, [Next]_vars, PtyTypes'
  PROVE  AnswerInv'
<1>1. OnTheWay' \in Nat
  <2>1. input' \in Seq(Kinds)
    BY Zenon DEF PtyTypes, TypeOK, Kinds
  <2>2. Replies(input') \in Nat /\ BeingWritten' \in Nat /\ BeingEmitted' \in Nat
    BY <2>1, RepliesType, Zenon DEF BeingWritten, BeingEmitted
  <2> QED BY <2>2 DEF OnTheWay
<1>2. CASE Quiet
  BY <1>1, <1>2, QuietStep, Zenon
<1> QED
  BY <1>2, QuietWriter, QuietReader, QuietRest, AnswerWriteReturns, AnswerObserve,
     AnswerCloseWriter, Zenon DEF Next, WriterStep, ReaderStep, MainStep

LEMMA AnswerInit == Init => AnswerInd
<1> SUFFICES ASSUME Init PROVE AnswerInd
  BY Zenon
<1>1. PtyOK
  <2>1. pty_out \in Seq({"plain", "query"}) /\ Len(pty_out) = 0
    BY DEF Init
  <2> QED BY <2>1, LocalPtyAssumption DEF Init, PtyOK
<1>2. FlagsOK
  BY Zenon DEF Init, FlagsOK
<1>3. CountsOK
  BY DEF Init, CountsOK
<1>4. PlacesOK
  <2>1. input \in Seq({"key", "reply"})
    BY DEF Init
  <2> QED BY <2>1, Zenon DEF Init, PlacesOK
<1>5. PtyTypes
  BY <1>1, <1>2, <1>3, <1>4, TypesSplit, Zenon
<1>6. CloseStage
  BY Zenon DEF Init, CloseStage
<1>7. OnTheWay = 0
  <2>1. Replies(input) = 0
    BY RepliesNone, Zenon DEF Init
  <2>2. BeingWritten = 0 /\ BeingEmitted = 0
    BY Zenon DEF Init, BeingWritten, BeingEmitted
  <2> QED BY <2>1, <2>2 DEF OnTheWay
<1>8. AnswerInv
  BY <1>7 DEF Init, AnswerInv
<1> QED BY <1>5, <1>6, <1>8, Zenon DEF AnswerInd

(***************************************************************************)
(* However the close interleaves with a query in the reader or a reply in  *)
(* the writer, no query is answered twice and none the reader counted is   *)
(* left unanswered once the close answers, unless the failure to write the *)
(* answer was recorded (begin_close, supplement_cursor_responses,          *)
(* observe_reader_queries, PtyWriterProxy::write), for every size of the   *)
(* PTY and any amount of input and output.                                 *)
(***************************************************************************)
THEOREM CursorQueriesAnsweredOnce == Spec => []QueriesAnsweredOnce
<1>1. OwnInv /\ AnswerInd /\ [Next]_vars => AnswerInd'
  <2> SUFFICES ASSUME OwnInv, AnswerInd, [Next]_vars PROVE AnswerInd'
    BY Zenon
  <2>1. PtyTypes /\ CloseStage /\ AnswerInv
    BY Zenon DEF AnswerInd
  <2>2. PtyTypes'
    BY <2>1, TypesStep, Zenon
  <2>3. CloseStage' /\ AnswerInv'
    BY <2>1, <2>2, StageStep, AnswerStep, Zenon
  <2> QED BY <2>2, <2>3, Zenon DEF AnswerInd
<1>2. AnswerInd => QueriesAnsweredOnce
  <2> SUFFICES ASSUME AnswerInd PROVE QueriesAnsweredOnce
    BY Zenon
  <2> DEFINE s == IF speculative_reply_sent THEN 1 ELSE 0
  <2>1. /\ TypeOK /\ queries_seen \in Nat /\ replies_seen \in Nat /\ answered \in Nat
        /\ OnTheWay \in Nat /\ AnswerInv
    BY OnTheWayType, Zenon DEF AnswerInd, PtyTypes, TypeOK
  <2>2. Max({queries_seen, s}) = IF queries_seen >= s THEN queries_seen ELSE s
    BY <2>1, MaxOfTwo
  <2>3. ASSUME ~close_error
        PROVE  /\ answered = replies_seen
               /\ replies_seen <= queries_seen \/ (speculative_reply_sent /\ replies_seen <= 1)
    BY <2>1, <2>3 DEF AnswerInv
  <2>4. ASSUME ~close_error
        PROVE  answered <= Max({queries_seen, s})
    <3>1. answered <= queries_seen \/ (s = 1 /\ answered <= 1)
      BY <2>3, <2>4, Zenon
    <3>2. s \in Nat
      BY Zenon
    <3> HIDE DEF s
    <3> QED BY <2>1, <2>2, <3>1, <3>2
  <2>5. ASSUME ~close_error, allow_internal_reply, reader_alive
        PROVE  queries_seen <= replies_seen
    BY <2>1, <2>5, Zenon DEF AnswerInv
  <2> QED BY <2>1, <2>4, <2>5, Zenon DEF QueriesAnsweredOnce
<1> QED BY <1>1, <1>2, AnswerInit, InitOwn, NextOwn, PTL DEF Spec

=============================================================================
